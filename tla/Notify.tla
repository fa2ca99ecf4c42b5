------------------------------- MODULE Notify -------------------------------
(***************************************************************************)
(* notify.Manager: Updates of the sessions hand events to a bounded queue  *)
(* (Dispatch), workers take them out, look up the recipient's preferences  *)
(* and POST to each of its webhook targets, and main stops the manager at  *)
(* the end of the process.                                                 *)
(*                                                                         *)
(* The context the workers run under is the one the signal cancels, and    *)
(* main gets to Stop only after the signal: a listener that fails ends the *)
(* process on the spot.  An event is its number; preferences, presence and *)
(* the answers of the webhooks are free choices.                           *)
(***************************************************************************)
EXTENDS Naturals, Sequences, FiniteSets

CONSTANTS
    Callers,        \* sessions whose Updates dispatch events
    Workers,        \* defaultWorkers goroutines
    Targets,        \* the enabled targets of a recipient
    QueueSize,      \* defaultQueue
    MaxEvents       \* bound: events dispatched

ASSUME NotifyAssumption ==
    /\ Workers # {}
    /\ QueueSize \in Nat \ {0}
    /\ MaxEvents \in Nat

VARIABLES
    ctxDone,    \* the signal context is cancelled
    closed,     \* Manager.closed, and the queue with it
    queue,
    main,       \* where main is
    caller,     \* where each caller is
    inHand,     \* the event a caller dispatches, 0 if none
    worker,     \* where each worker is
    job,        \* the event a worker delivers, 0 if none
    left,       \* the targets it has still to post to
    count,      \* events dispatched so far
    tried,      \* history: the targets each event was posted to
    finished,   \* history: events whose deliver ran its course
    skipped,    \* history: ... or which the recipient did not want
    aborted,    \* history: ... or whose deliver a database error ended
    dropped,    \* history: events Dispatch dropped and logged: queue full
    ignored     \* history: ... or ignored without a word: manager stopped

callerVars == <<caller, inHand, count>>
workerVars == <<worker, job, left>>
history    == <<tried, finished, skipped, aborted>>
vars == <<ctxDone, closed, queue, main, callerVars, workerVars, history, dropped, ignored>>

Events       == 1..MaxEvents
MainStates   == {"serving", "shutdown", "Stop", "Wait", "returned", "fatal"}
CallerStates == {"idle", "checked", "panic"}
WorkerStates == {"select", "GetPrefs", "ListTargets", "posting", "returned"}

Init ==
    /\ ctxDone = FALSE
    /\ closed = FALSE
    /\ queue = <<>>
    /\ main = "serving"
    /\ caller = [c \in Callers |-> "idle"]
    /\ inHand = [c \in Callers |-> 0]
    /\ worker = [w \in Workers |-> "select"]
    /\ job = [w \in Workers |-> 0]
    /\ left = [w \in Workers |-> {}]
    /\ count = 0
    /\ tried = [e \in Events |-> {}]
    /\ finished = {} /\ skipped = {} /\ aborted = {} /\ dropped = {} /\ ignored = {}

\* Nothing runs once main has returned or called log.Fatalf.
Running == main \notin {"returned", "fatal"}

-----------------------------------------------------------------------------
(* Dispatch.                                                               *)

\* It looks at m.closed under stopMu, and releases stopMu, ...
Dispatch(c) ==
    /\ Running /\ caller[c] = "idle" /\ count < MaxEvents
    /\ count' = count + 1
    /\ \/ /\ closed
          /\ ignored' = ignored \cup {count + 1}
          /\ UNCHANGED <<caller, inHand>>
       \/ /\ ~closed
          /\ caller' = [caller EXCEPT ![c] = "checked"]
          /\ inHand' = [inHand EXCEPT ![c] = count + 1]
          /\ UNCHANGED ignored
    /\ UNCHANGED <<ctxDone, closed, queue, main, workerVars, history, dropped>>

\* Mutants: the event waits for room in the queue; the full queue is not logged.
EnqueueBlocking(c) ==
    /\ Running /\ caller[c] = "checked" /\ ~closed /\ Len(queue) < QueueSize
    /\ queue' = Append(queue, inHand[c])
    /\ caller' = [caller EXCEPT ![c] = "idle"]
    /\ inHand' = [inHand EXCEPT ![c] = 0]
    /\ UNCHANGED <<ctxDone, closed, main, count, workerVars, history, dropped, ignored>>

EnqueueQuietly(c) ==
    /\ Running /\ caller[c] = "checked" /\ ~closed
    /\ \/ /\ Len(queue) < QueueSize
          /\ queue' = Append(queue, inHand[c])
          /\ UNCHANGED ignored
       \/ /\ Len(queue) >= QueueSize
          /\ ignored' = ignored \cup {inHand[c]}
          /\ UNCHANGED queue
    /\ caller' = [caller EXCEPT ![c] = "idle"]
    /\ inHand' = [inHand EXCEPT ![c] = 0]
    /\ UNCHANGED <<ctxDone, closed, main, count, workerVars, history, dropped>>

\* ... then sends if there is room, and drops the event if there is none.
Enqueue(c) ==
    /\ Running /\ caller[c] = "checked" /\ ~closed
    /\ \/ /\ Len(queue) < QueueSize
          /\ queue' = Append(queue, inHand[c])
          /\ UNCHANGED dropped
       \/ /\ Len(queue) >= QueueSize
          /\ dropped' = dropped \cup {inHand[c]}
          /\ UNCHANGED queue
    /\ caller' = [caller EXCEPT ![c] = "idle"]
    /\ inHand' = [inHand EXCEPT ![c] = 0]
    /\ UNCHANGED <<ctxDone, closed, main, count, workerVars, history, ignored>>

\* A send on a closed channel panics, in a select with a default too.
SendOnClosed(c) ==
    /\ Running /\ caller[c] = "checked" /\ closed
    /\ caller' = [caller EXCEPT ![c] = "panic"]
    /\ UNCHANGED <<ctxDone, closed, queue, main, inHand, count, workerVars, history, dropped, ignored>>

-----------------------------------------------------------------------------
(* worker and deliver.                                                     *)

\* The queue is closed only to senders: what is in it is still received.
WorkerTakes(w) ==
    /\ Running /\ worker[w] = "select" /\ queue # <<>>
    /\ job' = [job EXCEPT ![w] = Head(queue)]
    /\ queue' = Tail(queue)
    /\ worker' = [worker EXCEPT ![w] = "GetPrefs"]
    /\ UNCHANGED <<ctxDone, closed, main, callerVars, left, history, dropped, ignored>>

\* The select takes either branch when both are ready.
WorkerReturns(w) ==
    /\ Running /\ worker[w] = "select"
    /\ ctxDone \/ (closed /\ queue = <<>>)
    /\ worker' = [worker EXCEPT ![w] = "returned"]
    /\ UNCHANGED <<ctxDone, closed, queue, main, callerVars, job, left, history, dropped, ignored>>

Back(w) ==
    /\ worker' = [worker EXCEPT ![w] = "select"]
    /\ job' = [job EXCEPT ![w] = 0]

\* Mutants: the error ends the worker as well; the query is tried again until
\* it succeeds.
QueryFailsReturns(w) ==
    /\ Running /\ worker[w] \in {"GetPrefs", "ListTargets"}
    /\ aborted' = aborted \cup {job[w]}
    /\ worker' = [worker EXCEPT ![w] = "returned"]
    /\ job' = [job EXCEPT ![w] = 0]
    /\ UNCHANGED <<ctxDone, closed, queue, main, callerVars, left, tried, finished, skipped, dropped, ignored>>

QueryRetries(w) ==
    /\ Running /\ worker[w] \in {"GetPrefs", "ListTargets"}
    /\ worker' = [worker EXCEPT ![w] = "GetPrefs"]
    /\ UNCHANGED <<ctxDone, closed, queue, main, callerVars, job, left, history, dropped, ignored>>

\* A query fails, always so when the context is done: deliver returns.
QueryFails(w) ==
    /\ Running /\ worker[w] \in {"GetPrefs", "ListTargets"}
    /\ aborted' = aborted \cup {job[w]}
    /\ Back(w)
    /\ UNCHANGED <<ctxDone, closed, queue, main, callerVars, left, tried, finished, skipped, dropped, ignored>>

\* prefsAllow, and IsOnline for those who want mail only when offline.
GetPrefs(w) ==
    /\ Running /\ worker[w] = "GetPrefs" /\ ~ctxDone
    /\ \/ /\ skipped' = skipped \cup {job[w]}
          /\ Back(w)
       \/ /\ worker' = [worker EXCEPT ![w] = "ListTargets"]
          /\ UNCHANGED <<job, skipped>>
    /\ UNCHANGED <<ctxDone, closed, queue, main, callerVars, left, tried, finished, aborted, dropped, ignored>>

ListEnabledTargets(w) ==
    /\ Running /\ worker[w] = "ListTargets" /\ ~ctxDone
    /\ left' = [left EXCEPT ![w] = Targets]
    /\ worker' = [worker EXCEPT ![w] = "posting"]
    /\ UNCHANGED <<ctxDone, closed, queue, main, callerVars, job, history, dropped, ignored>>

Try(w, t) == tried' = [tried EXCEPT ![job[w]] = @ \cup {t}]

\* Mutants: the first target that fails ends the delivery; the event of a failed
\* post is queued again for another try, while this delivery goes on.
PostStopsOnError(w, t) ==
    /\ Running /\ worker[w] = "posting" /\ t \in left[w]
    /\ Try(w, t)
    /\ \E failed \in BOOLEAN : left' = [left EXCEPT ![w] = IF failed THEN {} ELSE @ \ {t}]
    /\ UNCHANGED <<ctxDone, closed, queue, main, callerVars, worker, job, finished, skipped, aborted, dropped, ignored>>

PostRequeues(w, t) ==
    /\ Running /\ worker[w] = "posting" /\ t \in left[w]
    /\ Try(w, t)
    /\ \/ UNCHANGED queue
       \/ /\ ~closed /\ Len(queue) < QueueSize
          /\ queue' = Append(queue, job[w])
    /\ left' = [left EXCEPT ![w] = @ \ {t}]
    /\ UNCHANGED <<ctxDone, closed, main, callerVars, worker, job, finished, skipped, aborted, dropped, ignored>>

\* The POST succeeds, fails, times out or is cancelled: only the log differs.
Post(w, t) ==
    /\ Running /\ worker[w] = "posting" /\ t \in left[w]
    /\ Try(w, t)
    /\ left' = [left EXCEPT ![w] = @ \ {t}]
    /\ UNCHANGED <<ctxDone, closed, queue, main, callerVars, worker, job, finished, skipped, aborted, dropped, ignored>>

Delivered(w) ==
    /\ Running /\ worker[w] = "posting" /\ left[w] = {}
    /\ finished' = finished \cup {job[w]}
    /\ Back(w)
    /\ UNCHANGED <<ctxDone, closed, queue, main, callerVars, left, tried, skipped, aborted, dropped, ignored>>

-----------------------------------------------------------------------------
(* main.                                                                   *)

\* The signal context is cancelled, at any time until the process ends.
Signal ==
    /\ Running /\ ~ctxDone
    /\ ctxDone' = TRUE
    /\ UNCHANGED <<closed, queue, main, callerVars, workerVars, history, dropped, ignored>>

\* main's select: the listener failed (its other error, ErrServerClosed, is what
\* shutdown makes of it).  log.Fatalf runs no deferred Stop.
ListenFails ==
    /\ main = "serving"
    /\ main' = "fatal"
    /\ UNCHANGED <<ctxDone, closed, queue, callerVars, workerVars, history, dropped, ignored>>

\* ... or the context is done.
LeaveSelect ==
    /\ main = "serving" /\ ctxDone
    /\ main' = "shutdown"
    /\ UNCHANGED <<ctxDone, closed, queue, callerVars, workerVars, history, dropped, ignored>>

\* shutdown returns, with every session gone or after drainTimeout.
ShutdownReturns ==
    /\ main = "shutdown"
    /\ main' = "Stop"
    /\ UNCHANGED <<ctxDone, closed, queue, callerVars, workerVars, history, dropped, ignored>>

Stop ==
    /\ main = "Stop"
    /\ closed' = TRUE
    /\ main' = "Wait"
    /\ UNCHANGED <<ctxDone, queue, callerVars, workerVars, history, dropped, ignored>>

\* wg.Wait returns; the database is closed and the process ends.
StopReturns ==
    /\ main = "Wait" /\ \A w \in Workers : worker[w] = "returned"
    /\ main' = "returned"
    /\ UNCHANGED <<ctxDone, closed, queue, callerVars, workerVars, history, dropped, ignored>>

-----------------------------------------------------------------------------

Work(w) ==
    \/ WorkerTakes(w) \/ WorkerReturns(w) \/ QueryFails(w) \/ GetPrefs(w)
    \/ ListEnabledTargets(w) \/ (\E t \in Targets : Post(w, t)) \/ Delivered(w)

Next ==
    \/ \E c \in Callers : Dispatch(c) \/ Enqueue(c) \/ SendOnClosed(c)
    \/ \E w \in Workers : Work(w)
    \/ Signal \/ ListenFails \/ LeaveSelect \/ ShutdownReturns \/ Stop \/ StopReturns

Spec == Init /\ [][Next]_vars

\* Goroutines run; the http.Client's timeout ends every POST, and the broker
\* answers IsOnline (as it does while no Updates wait for each other, see
\* Broker).  Nobody has to dispatch or to send a signal.
Fairness ==
    /\ \A c \in Callers : WF_vars(Enqueue(c) \/ SendOnClosed(c))
    /\ \A w \in Workers : WF_vars(Work(w))
    /\ WF_vars(ShutdownReturns \/ Stop \/ StopReturns)

FairSpec == Spec /\ Fairness

-----------------------------------------------------------------------------
(* Properties.                                                             *)

\* Every variable holds a value of its type, and the queue never exceeds its
\* capacity.
TypeOK ==
    /\ ctxDone \in BOOLEAN /\ closed \in BOOLEAN
    /\ queue \in Seq(Events) /\ Len(queue) <= QueueSize
    /\ main \in MainStates
    /\ caller \in [Callers -> CallerStates]
    /\ inHand \in [Callers -> {0} \cup Events]
    /\ worker \in [Workers -> WorkerStates]
    /\ job \in [Workers -> {0} \cup Events]
    /\ left \in [Workers -> SUBSET Targets]
    /\ count \in 0..MaxEvents
    /\ tried \in [Events -> SUBSET Targets]
    /\ finished \in SUBSET Events /\ skipped \in SUBSET Events
    /\ aborted \in SUBSET Events /\ dropped \in SUBSET Events /\ ignored \in SUBSET Events

Settled == finished \cup skipped \cup aborted \cup dropped \cup ignored

\* The places an event can be in.
Held(e) ==
    {<<"caller", c>> : c \in {d \in Callers : inHand[d] = e}}
    \cup {<<"queue", i>> : i \in {j \in DOMAIN queue : queue[j] = e}}
    \cup {<<"worker", w>> : w \in {v \in Workers : job[v] = e}}
    \cup (IF e \in Settled THEN {<<"settled">>} ELSE {})

\* No event is delivered twice: from Dispatch on it is in exactly one place,
\* with its caller (for good, if the send panicked), in the queue (for good, if
\* the process ended), with one worker, or settled (delivered, unwanted, failed,
\* dropped or ignored).
EventInOnePlace == \A e \in 1..count : Cardinality(Held(e)) = 1

\* Dispatch drops with a log line, never silently, as long as the server runs:
\* an event it ignores, or panics with, is dispatched after the signal, in a
\* session that outlived the drain.
SilentLossOnlyInShutdown ==
    (ignored # {} \/ \E c \in Callers : caller[c] = "panic") =>
        ctxDone /\ main \in {"Wait", "returned"}

\* Delivery goes through the whole list: an event whose deliver ran its course
\* was posted to every target, whatever became of the other posts.
EveryTargetTried == \A e \in finished : tried[e] = Targets

\* While the server runs no event is stuck in the queue: no failed query or post
\* ends a worker, and a slow target ends with the http.Client's timeout.
QueuedEventsSettle ==
    \A e \in Events :
        (\E i \in DOMAIN queue : queue[i] = e) ~> (e \in Settled \/ ctxDone \/ ~Running)

\* Dispatch does not block its Update, even when the workers are gone and the
\* queue is full.
DispatchReturns ==
    \A c \in Callers : caller[c] = "checked" ~> (caller[c] # "checked" \/ ~Running)

\* Stop comes to an end, in the middle of whatever deliveries the signal came:
\* queries fail under the cancelled context, posts end, and the workers return.
StopEnds == main = "Stop" ~> main = "returned"

=============================================================================
