---------------------------- MODULE NotifyProofs ----------------------------
(***************************************************************************)
(* Proofs about notify.Manager, for any number of callers, workers and     *)
(* targets and any queue size.                                             *)
(*                                                                         *)
(* EveryTargetTried needs what holds in the middle of a delivery: the      *)
(* targets tried and the targets left make up the list (PostingSplits).    *)
(* SilentLossOnlyInShutdown rests on main: only Stop closes the queue, and *)
(* main gets there only after the signal (ClosedByShutdown).               *)
(* EventInOnePlace is a matter of the places being apart, of each event    *)
(* having one, and of numbers not being handed out twice (PlaceInv).       *)
(***************************************************************************)
EXTENDS Notify, FiniteSetTheorems, TLAPS

\* A worker has an event exactly while it delivers one.
JobWhileDelivering ==
    \A w \in Workers : job[w] = 0 <=> worker[w] \in {"select", "returned"}

PostingSplits ==
    \A w \in Workers : worker[w] = "posting" => Targets \subseteq tried[job[w]] \cup left[w]

ClosedByShutdown ==
    /\ closed => main \in {"Wait", "returned"}
    /\ main \in {"shutdown", "Stop", "Wait", "returned"} => ctxDone

\* Event numbers start at 1, which is all the proofs need to know of them.
LEMMA EventNumbers ==
    /\ 0 \notin Events
    /\ \A n \in 0..MaxEvents : n < MaxEvents => n + 1 \in Events /\ n + 1 \in 0..MaxEvents
BY NotifyAssumption DEF Events

\* Receiving from a queue leaves one within the same capacity.
LEMMA QueueReceive ==
    ASSUME NEW S, NEW N \in Nat, NEW q \in Seq(S), q # <<>>, Len(q) <= N
    PROVE  Head(q) \in S /\ Tail(q) \in Seq(S) /\ Len(Tail(q)) <= N
OBVIOUS

\* Sending to a queue that has room keeps it within its capacity.
LEMMA QueueSend ==
    ASSUME NEW S, NEW N \in Nat, NEW q \in Seq(S), NEW e \in S, Len(q) < N
    PROVE  Append(q, e) \in Seq(S) /\ Len(Append(q, e)) <= N
OBVIOUS

\* A caller past the check holds an event.
CallerHasEvent == \A c \in Callers : caller[c] = "checked" => inHand[c] \in Events

IInv ==
    /\ TypeOK
    /\ JobWhileDelivering
    /\ PostingSplits
    /\ EveryTargetTried
    /\ ClosedByShutdown
    /\ SilentLossOnlyInShutdown
    /\ CallerHasEvent

\* The initial state satisfies the inductive invariant.
LEMMA InitIInv == Init => IInv
<1> SUFFICES ASSUME Init
             PROVE  IInv
  OBVIOUS
<1>1. TypeOK
  <2>1. ctxDone \in BOOLEAN /\ closed \in BOOLEAN /\ main \in MainStates
    BY DEF Init, MainStates
  <2>2. queue \in Seq(Events) /\ Len(queue) <= QueueSize /\ count \in 0..MaxEvents
    BY NotifyAssumption DEF Init
  <2>3. caller \in [Callers -> CallerStates] /\ inHand \in [Callers -> {0} \cup Events]
    BY DEF Init, CallerStates
  <2>4. /\ worker \in [Workers -> WorkerStates] /\ job \in [Workers -> {0} \cup Events]
        /\ left \in [Workers -> SUBSET Targets]
    BY DEF Init, WorkerStates
  <2>5. /\ tried \in [Events -> SUBSET Targets]
        /\ finished \in SUBSET Events /\ skipped \in SUBSET Events
        /\ aborted \in SUBSET Events /\ dropped \in SUBSET Events /\ ignored \in SUBSET Events
    BY DEF Init
  <2> QED
    BY <2>1, <2>2, <2>3, <2>4, <2>5 DEF TypeOK
<1>2. JobWhileDelivering /\ PostingSplits /\ EveryTargetTried
  BY DEF Init, JobWhileDelivering, PostingSplits, EveryTargetTried
<1>3. ClosedByShutdown /\ SilentLossOnlyInShutdown /\ CallerHasEvent
  BY DEF Init, ClosedByShutdown, SilentLossOnlyInShutdown, CallerHasEvent
<1> QED
  BY <1>1, <1>2, <1>3 DEF IInv

\* Dispatch, in its two steps.
LEMMA CallerStep ==
    ASSUME IInv, NEW c \in Callers, Dispatch(c) \/ Enqueue(c) \/ SendOnClosed(c)
    PROVE  IInv'
<1> USE EventNumbers DEF IInv, TypeOK, CallerStates, callerVars, workerVars, history
<1>1. CASE Dispatch(c)
  BY <1>1 DEF Dispatch, JobWhileDelivering, PostingSplits, EveryTargetTried,
     ClosedByShutdown, SilentLossOnlyInShutdown, CallerHasEvent
<1>2. CASE Enqueue(c)
  <2>1. TypeOK'
    <3>1. inHand[c] \in Events
      BY <1>2 DEF Enqueue, CallerHasEvent
    <3>2. queue' \in Seq(Events) /\ Len(queue') <= QueueSize
      <4>1. CASE Len(queue) < QueueSize /\ queue' = Append(queue, inHand[c])
        BY <3>1, <4>1, QueueSend, NotifyAssumption
      <4>2. CASE queue' = queue
        BY <4>2
      <4> QED
        BY <1>2, <4>1, <4>2 DEF Enqueue
    <3> QED
      BY <1>2, <3>1, <3>2 DEF Enqueue
  <2>2. JobWhileDelivering' /\ PostingSplits' /\ EveryTargetTried'
    BY <1>2 DEF Enqueue, JobWhileDelivering, PostingSplits, EveryTargetTried
  <2>3. ClosedByShutdown' /\ SilentLossOnlyInShutdown' /\ CallerHasEvent'
    BY <1>2 DEF Enqueue, ClosedByShutdown, SilentLossOnlyInShutdown, CallerHasEvent
  <2> QED
    BY <2>1, <2>2, <2>3
<1>3. CASE SendOnClosed(c)
  BY <1>3 DEF SendOnClosed, JobWhileDelivering, PostingSplits, EveryTargetTried,
     ClosedByShutdown, SilentLossOnlyInShutdown, CallerHasEvent
<1> QED
  BY <1>1, <1>2, <1>3

\* A worker takes an event, delivers it, or returns.
LEMMA WorkerStep ==
    ASSUME IInv, NEW w \in Workers, Work(w)
    PROVE  IInv'
<1> USE EventNumbers DEF IInv, TypeOK, WorkerStates, callerVars, workerVars, history
<1>1. CASE WorkerTakes(w)
  <2>1. Head(queue) \in Events /\ Tail(queue) \in Seq(Events) /\ Len(Tail(queue)) <= QueueSize
    BY <1>1, QueueReceive, NotifyAssumption DEF WorkerTakes
  <2>2. TypeOK'
    BY <1>1, <2>1 DEF WorkerTakes
  <2>3. JobWhileDelivering' /\ PostingSplits' /\ EveryTargetTried'
    BY <1>1, <2>1 DEF WorkerTakes, JobWhileDelivering, PostingSplits, EveryTargetTried
  <2>4. ClosedByShutdown' /\ SilentLossOnlyInShutdown' /\ CallerHasEvent'
    BY <1>1 DEF WorkerTakes, ClosedByShutdown, SilentLossOnlyInShutdown, CallerHasEvent
  <2> QED
    BY <2>2, <2>3, <2>4
<1>2. CASE WorkerReturns(w)
  BY <1>2 DEF WorkerReturns, JobWhileDelivering, PostingSplits, EveryTargetTried,
     ClosedByShutdown, SilentLossOnlyInShutdown, CallerHasEvent
<1>3. CASE QueryFails(w)
  <2>1. job[w] \in Events
    BY <1>3 DEF QueryFails, JobWhileDelivering
  <2> QED
    BY <1>3, <2>1 DEF QueryFails, Back, JobWhileDelivering, PostingSplits, EveryTargetTried,
       ClosedByShutdown, SilentLossOnlyInShutdown, CallerHasEvent
<1>4. CASE GetPrefs(w)
  <2>1. job[w] \in Events
    BY <1>4 DEF GetPrefs, JobWhileDelivering
  <2> QED
    BY <1>4, <2>1 DEF GetPrefs, Back, JobWhileDelivering, PostingSplits, EveryTargetTried,
       ClosedByShutdown, SilentLossOnlyInShutdown, CallerHasEvent
<1>5. CASE ListEnabledTargets(w)
  BY <1>5 DEF ListEnabledTargets, JobWhileDelivering, PostingSplits, EveryTargetTried,
     ClosedByShutdown, SilentLossOnlyInShutdown, CallerHasEvent
<1>6. ASSUME NEW t \in Targets, Post(w, t)
      PROVE  IInv'
  <2>1. job[w] \in Events
    BY <1>6 DEF Post, JobWhileDelivering
  <2>2. TypeOK'
    BY <1>6, <2>1 DEF Post, Try
  <2>3. \A e \in Events : tried[e] \subseteq tried'[e]
    BY <1>6 DEF Post, Try
  <2>4. PostingSplits'
    <3>1. ASSUME NEW v \in Workers, worker'[v] = "posting"
          PROVE  Targets \subseteq tried'[job'[v]] \cup left'[v]
      <4>1. job[v] \in Events /\ job'[v] = job[v] /\ Targets \subseteq tried[job[v]] \cup left[v]
        BY <1>6, <3>1 DEF Post, JobWhileDelivering, PostingSplits
      <4>2. CASE v = w
        BY <1>6, <4>1, <4>2 DEF Post, Try
      <4>3. CASE v # w
        BY <1>6, <2>3, <4>1, <4>3 DEF Post
      <4> QED
        BY <4>2, <4>3
    <3> QED
      BY <3>1 DEF PostingSplits
  <2>5. EveryTargetTried'
    BY <1>6, <2>2, <2>3 DEF Post, EveryTargetTried
  <2>6. JobWhileDelivering' /\ ClosedByShutdown' /\ SilentLossOnlyInShutdown' /\ CallerHasEvent'
    BY <1>6 DEF Post, JobWhileDelivering, ClosedByShutdown, SilentLossOnlyInShutdown, CallerHasEvent
  <2> QED
    BY <2>2, <2>4, <2>5, <2>6
<1>7. CASE Delivered(w)
  <2>1. job[w] \in Events /\ tried[job[w]] = Targets
    BY <1>7 DEF Delivered, JobWhileDelivering, PostingSplits
  <2> QED
    BY <1>7, <2>1 DEF Delivered, Back, JobWhileDelivering, PostingSplits, EveryTargetTried,
       ClosedByShutdown, SilentLossOnlyInShutdown, CallerHasEvent
<1> QED
  BY <1>1, <1>2, <1>3, <1>4, <1>5, <1>6, <1>7 DEF Work

\* The signal, and main on its way out.
LEMMA MainStep ==
    ASSUME IInv, Signal \/ ListenFails \/ LeaveSelect \/ ShutdownReturns \/ Stop \/ StopReturns
    PROVE  IInv'
<1> USE DEF callerVars, workerVars, history
<1>1. UNCHANGED <<queue, caller, inHand, count, worker, job, left, tried, finished, skipped, aborted,
                  dropped, ignored>>
  BY DEF Signal, ListenFails, LeaveSelect, ShutdownReturns, Stop, StopReturns
<1>2. ctxDone' \in BOOLEAN /\ closed' \in BOOLEAN /\ main' \in MainStates
  BY DEF IInv, TypeOK, MainStates, Signal, ListenFails, LeaveSelect, ShutdownReturns, Stop, StopReturns
<1>3. TypeOK'
  BY <1>1, <1>2 DEF IInv, TypeOK
<1>4. JobWhileDelivering' /\ PostingSplits' /\ EveryTargetTried' /\ CallerHasEvent'
  BY <1>1 DEF IInv, JobWhileDelivering, PostingSplits, EveryTargetTried, CallerHasEvent
<1>5. ClosedByShutdown' /\ SilentLossOnlyInShutdown'
  BY <1>1 DEF IInv, ClosedByShutdown, SilentLossOnlyInShutdown, Signal, ListenFails, LeaveSelect,
     ShutdownReturns, Stop, StopReturns
<1> QED
  BY <1>3, <1>4, <1>5 DEF IInv

\* Every step preserves the inductive invariant.
LEMMA NextIInv == IInv /\ [Next]_vars => IInv'
<1> SUFFICES ASSUME IInv, [Next]_vars
             PROVE  IInv'
  OBVIOUS
<1>1. CASE UNCHANGED vars
  BY <1>1 DEF vars, callerVars, workerVars, history, IInv, TypeOK, JobWhileDelivering,
     PostingSplits, EveryTargetTried, ClosedByShutdown, SilentLossOnlyInShutdown, CallerHasEvent
<1>2. CASE Next
  BY <1>2, CallerStep, WorkerStep, MainStep DEF Next
<1> QED
  BY <1>1, <1>2

-----------------------------------------------------------------------------
(* Where an event is.  EventInOnePlace counts places; its proof does not:  *)
(* no two places hold the same event (Apart), every dispatched event has a *)
(* place (Somewhere), and a number that was not dispatched has none        *)
(* (NotAhead), so that a new event starts alone.                           *)

\* Only a caller inside Dispatch holds an event, which the next one replaces.
IdleHasNothing == \A c \in Callers : caller[c] = "idle" => inHand[c] = 0

Apart ==
    /\ \A c, d \in Callers : inHand[c] = inHand[d] /\ inHand[c] # 0 => c = d
    /\ \A i, j \in DOMAIN queue : queue[i] = queue[j] => i = j
    /\ \A v, w \in Workers : job[v] = job[w] /\ job[v] # 0 => v = w
    /\ \A c \in Callers, i \in DOMAIN queue : inHand[c] # queue[i]
    /\ \A c \in Callers, w \in Workers : inHand[c] # 0 => inHand[c] # job[w]
    /\ \A i \in DOMAIN queue, w \in Workers : queue[i] # job[w]
    /\ \A c \in Callers : inHand[c] \notin Settled
    /\ \A i \in DOMAIN queue : queue[i] \notin Settled
    /\ \A w \in Workers : job[w] \notin Settled

Somewhere ==
    \A e \in 1..count :
        \/ \E c \in Callers : inHand[c] = e
        \/ \E i \in DOMAIN queue : queue[i] = e
        \/ \E w \in Workers : job[w] = e
        \/ e \in Settled

NotAhead ==
    /\ \A c \in Callers : inHand[c] <= count
    /\ \A i \in DOMAIN queue : queue[i] <= count
    /\ \A w \in Workers : job[w] <= count
    /\ \A e \in Settled : e <= count

PlaceInv == IdleHasNothing /\ Apart /\ Somewhere /\ NotAhead

\* The elements of a queue after a send.
LEMMA SendElements ==
    ASSUME NEW S, NEW q \in Seq(S), NEW e \in S
    PROVE  /\ DOMAIN Append(q, e) = 1..Len(q) + 1 /\ DOMAIN q = 1..Len(q) /\ Len(q) \in Nat
           /\ \A i \in DOMAIN q : Append(q, e)[i] = q[i]
           /\ Append(q, e)[Len(q) + 1] = e
OBVIOUS

\* The elements of a queue after a receive: each moves up by one.
LEMMA ReceiveElements ==
    ASSUME NEW S, NEW q \in Seq(S), q # <<>>
    PROVE  /\ DOMAIN Tail(q) = 1..Len(q) - 1 /\ DOMAIN q = 1..Len(q) /\ Len(q) \in Nat \ {0}
           /\ Head(q) = q[1]
           /\ \A i \in DOMAIN Tail(q) : Tail(q)[i] = q[i + 1]
OBVIOUS

\* What the step lemmas use of the types: everything is a number.
LEMMA PlaceTypes ==
    ASSUME TypeOK
    PROVE  /\ count \in Nat
           /\ \A c \in Callers : inHand[c] \in Nat
           /\ \A i \in DOMAIN queue : queue[i] \in Nat /\ queue[i] # 0
           /\ \A w \in Workers : job[w] \in Nat
           /\ \A e \in Settled : e \in Nat /\ e # 0
<1>1. \A e \in Events : e \in Nat /\ e # 0
  BY NotifyAssumption DEF Events
<1>2. \A i \in DOMAIN queue : queue[i] \in Events
  BY DEF TypeOK
<1>3. count \in Nat
  BY NotifyAssumption DEF TypeOK
<1>4. (\A c \in Callers : inHand[c] \in Nat) /\ (\A w \in Workers : job[w] \in Nat)
  BY <1>1 DEF TypeOK
<1>5. \A e \in Settled : e \in Events
  BY DEF TypeOK, Settled
<1> QED
  BY <1>1, <1>2, <1>3, <1>4, <1>5

\* Initially there is no event.
LEMMA InitPlaces == Init => PlaceInv
BY DEF Init, PlaceInv, IdleHasNothing, Apart, Somewhere, NotAhead, Settled

\* Dispatch gives the next number to its caller, or to the dropped ones;
\* Enqueue moves it on.
LEMMA CallerMoves ==
    ASSUME IInv, PlaceInv, NEW c \in Callers, Dispatch(c) \/ Enqueue(c) \/ SendOnClosed(c)
    PROVE  PlaceInv'
<1> USE PlaceTypes DEF IInv
<1>t. TypeOK /\ inHand \in [Callers -> {0} \cup Events] /\ caller \in [Callers -> CallerStates]
  BY DEF TypeOK
<1>1. CASE Dispatch(c)
  <2>1. /\ inHand[c] = 0 /\ count' = count + 1
        /\ UNCHANGED <<queue, job, worker, finished, skipped, aborted, dropped>>
    BY <1>1 DEF Dispatch, workerVars, history, PlaceInv, IdleHasNothing
  <2>2. CASE /\ ignored' = ignored \cup {count + 1}
             /\ UNCHANGED <<caller, inHand>>
    <3>1. Settled' = Settled \cup {count + 1}
      BY <2>1, <2>2 DEF Settled
    <3>2. IdleHasNothing' /\ NotAhead'
      BY <1>t, <2>1, <2>2, <3>1 DEF PlaceInv, IdleHasNothing, NotAhead
    <3>3. Apart'
      BY <1>t, <2>1, <2>2, <3>1 DEF PlaceInv, Apart, NotAhead
    <3>4. Somewhere'
      BY <1>t, <2>1, <2>2, <3>1 DEF PlaceInv, Somewhere
    <3> QED
      BY <3>2, <3>3, <3>4 DEF PlaceInv
  <2>3. CASE /\ caller' = [caller EXCEPT ![c] = "checked"]
             /\ inHand' = [inHand EXCEPT ![c] = count + 1]
             /\ UNCHANGED ignored
    <3>1. Settled' = Settled
      BY <2>1, <2>3 DEF Settled
    <3>2. inHand'[c] = count + 1 /\ \A d \in Callers \ {c} : inHand'[d] = inHand[d]
      BY <1>t, <2>3
    <3>3. IdleHasNothing' /\ NotAhead'
      BY <1>t, <2>1, <2>3, <3>1, <3>2 DEF PlaceInv, IdleHasNothing, NotAhead
    <3>4. Apart'
      BY <1>t, <2>1, <3>1, <3>2 DEF PlaceInv, Apart, NotAhead
    <3>5. Somewhere'
      <4> SUFFICES ASSUME NEW e \in 1..count + 1
                   PROVE  \/ \E d \in Callers : inHand'[d] = e
                          \/ \E i \in DOMAIN queue : queue[i] = e
                          \/ \E w \in Workers : job[w] = e
                          \/ e \in Settled
        BY <2>1, <3>1 DEF Somewhere
      <4>1. CASE e = count + 1
        BY <3>2, <4>1
      <4>2. CASE e \in 1..count
        BY <2>1, <3>2, <4>2 DEF PlaceInv, Somewhere
      <4> QED
        BY <1>t, <4>1, <4>2
    <3> QED
      BY <3>3, <3>4, <3>5 DEF PlaceInv
  <2> QED
    BY <1>1, <2>2, <2>3 DEF Dispatch
<1>2. CASE Enqueue(c)
  <2>1. /\ inHand[c] \in Events /\ inHand[c] # 0
        /\ UNCHANGED <<job, worker, count, finished, skipped, aborted, ignored>>
        /\ caller' = [caller EXCEPT ![c] = "idle"]
    BY <1>2, EventNumbers DEF Enqueue, workerVars, history, CallerHasEvent
  <2>2. inHand'[c] = 0 /\ \A d \in Callers \ {c} : inHand'[d] = inHand[d]
    BY <1>2, <1>t DEF Enqueue
  <2>3. IdleHasNothing'
    BY <1>t, <2>1, <2>2 DEF PlaceInv, IdleHasNothing
  <2>4. CASE queue' = Append(queue, inHand[c]) /\ UNCHANGED dropped
    <3>1. Settled' = Settled
      BY <2>1, <2>4 DEF Settled
    <3>2. /\ DOMAIN queue' = 1..Len(queue) + 1 /\ DOMAIN queue = 1..Len(queue) /\ Len(queue) \in Nat
          /\ \A i \in DOMAIN queue : queue'[i] = queue[i]
          /\ queue'[Len(queue) + 1] = inHand[c]
      BY <2>1, <2>4, SendElements DEF TypeOK
    <3>3. \A i \in DOMAIN queue' :
             \/ i \in DOMAIN queue /\ queue'[i] = queue[i]
             \/ i = Len(queue) + 1 /\ queue'[i] = inHand[c]
      <4>1. \A i \in 1..Len(queue) + 1 : i \in 1..Len(queue) \/ i = Len(queue) + 1
        BY <3>2
      <4> QED
        BY <3>2, <4>1
    <3>4. NotAhead'
      <4>1. \A i \in DOMAIN queue' : queue'[i] <= count
        BY <2>1, <3>3 DEF PlaceInv, NotAhead
      <4>2. \A d \in Callers : inHand'[d] <= count
        BY <1>t, <2>2 DEF PlaceInv, NotAhead
      <4> QED
        BY <2>1, <3>1, <4>1, <4>2 DEF PlaceInv, NotAhead
    <3>5. Apart'
      <4>1. \A i, j \in DOMAIN queue' : queue'[i] = queue'[j] => i = j
        BY <3>3 DEF PlaceInv, Apart
      <4>2. \A d \in Callers, i \in DOMAIN queue' : inHand'[d] # queue'[i]
        BY <2>1, <2>2, <3>3, <1>t DEF PlaceInv, Apart
      <4>3. \A i \in DOMAIN queue' : queue'[i] \notin Settled' /\ \A w \in Workers : queue'[i] # job'[w]
        BY <2>1, <3>1, <3>3 DEF PlaceInv, Apart
      <4>4. /\ \A d, d2 \in Callers : inHand'[d] = inHand'[d2] /\ inHand'[d] # 0 => d = d2
            /\ \A d \in Callers, w \in Workers : inHand'[d] # 0 => inHand'[d] # job'[w]
            /\ \A d \in Callers : inHand'[d] \notin Settled'
        BY <1>t, <2>1, <2>2, <3>1 DEF PlaceInv, Apart
      <4>5. /\ \A v, w \in Workers : job'[v] = job'[w] /\ job'[v] # 0 => v = w
            /\ \A w \in Workers : job'[w] \notin Settled'
        BY <2>1, <3>1 DEF PlaceInv, Apart
      <4> QED
        BY <4>1, <4>2, <4>3, <4>4, <4>5 DEF Apart
    <3>6. Somewhere'
      <4> SUFFICES ASSUME NEW e \in 1..count
                   PROVE  \/ \E d \in Callers : inHand'[d] = e
                          \/ \E i \in DOMAIN queue' : queue'[i] = e
                          \/ \E w \in Workers : job[w] = e
                          \/ e \in Settled
        BY <2>1, <3>1 DEF Somewhere
      <4>1. CASE e = inHand[c]
        BY <3>2, <4>1
      <4>2. CASE e # inHand[c]
        BY <2>2, <3>2, <4>2 DEF PlaceInv, Somewhere
      <4> QED
        BY <4>1, <4>2
    <3> QED
      BY <2>3, <3>4, <3>5, <3>6 DEF PlaceInv
  <2>5. CASE dropped' = dropped \cup {inHand[c]} /\ UNCHANGED queue
    <3>1. Settled' = Settled \cup {inHand[c]}
      BY <2>1, <2>5 DEF Settled
    <3>2. NotAhead'
      BY <1>t, <2>1, <2>2, <2>5, <3>1 DEF PlaceInv, NotAhead
    <3>3. Apart'
      BY <1>t, <2>1, <2>2, <2>5, <3>1 DEF PlaceInv, Apart
    <3>4. Somewhere'
      BY <1>t, <2>1, <2>2, <2>5, <3>1 DEF PlaceInv, Somewhere
    <3> QED
      BY <2>3, <3>2, <3>3, <3>4 DEF PlaceInv
  <2> QED
    BY <1>2, <2>4, <2>5 DEF Enqueue
<1>3. CASE SendOnClosed(c)
  BY <1>3, <1>t DEF SendOnClosed, workerVars, history, PlaceInv, IdleHasNothing, Apart, Somewhere,
     NotAhead, Settled
<1> QED
  BY <1>1, <1>2, <1>3

\* A worker that is done with its event settles it.
LEMMA WorkerSettles ==
    ASSUME IInv, PlaceInv, NEW w \in Workers, job[w] # 0, Back(w),
           Settled' = Settled \cup {job[w]}, UNCHANGED <<queue, caller, inHand, count>>
    PROVE  PlaceInv'
<1> USE PlaceTypes DEF IInv
<1>1. TypeOK /\ job \in [Workers -> {0} \cup Events]
  BY DEF TypeOK
<1>2. job'[w] = 0 /\ \A v \in Workers \ {w} : job'[v] = job[v]
  BY <1>1 DEF Back
<1>3. IdleHasNothing' /\ NotAhead'
  BY <1>1, <1>2 DEF PlaceInv, IdleHasNothing, NotAhead
<1>4. Apart'
  BY <1>1, <1>2 DEF PlaceInv, Apart
<1>5. Somewhere'
  BY <1>1, <1>2 DEF PlaceInv, Somewhere
<1> QED
  BY <1>3, <1>4, <1>5 DEF PlaceInv

\* A worker takes the oldest event out of the queue, keeps it, or settles it.
LEMMA WorkerMoves ==
    ASSUME IInv, PlaceInv, NEW w \in Workers, Work(w)
    PROVE  PlaceInv'
<1> USE PlaceTypes DEF IInv
<1>t. TypeOK /\ job \in [Workers -> {0} \cup Events]
  BY DEF TypeOK
<1>1. CASE WorkerTakes(w)
  <2>1. /\ job[w] = 0 /\ UNCHANGED <<caller, inHand, count>>
        /\ Settled' = Settled
    BY <1>1 DEF WorkerTakes, callerVars, history, Settled, JobWhileDelivering
  <2>2. /\ DOMAIN queue' = 1..Len(queue) - 1 /\ DOMAIN queue = 1..Len(queue) /\ Len(queue) \in Nat \ {0}
        /\ \A i \in DOMAIN queue' : queue'[i] = queue[i + 1]
        /\ Head(queue) = queue[1]
    BY <1>1, ReceiveElements DEF WorkerTakes, TypeOK
  <2>3. job'[w] = queue[1] /\ \A v \in Workers \ {w} : job'[v] = job[v]
    BY <1>1, <1>t, <2>2 DEF WorkerTakes
  <2>4. \A i \in DOMAIN queue' : i + 1 \in DOMAIN queue /\ i + 1 # 1
    BY <2>2
  <2>5. 1 \in DOMAIN queue /\ \A i \in DOMAIN queue : i = 1 \/ i - 1 \in DOMAIN queue'
    BY <2>2
  <2>6. IdleHasNothing' /\ NotAhead'
    BY <1>t, <2>1, <2>2, <2>3, <2>4, <2>5 DEF PlaceInv, IdleHasNothing, NotAhead
  <2>7. Apart'
    <3>1. \A i, j \in DOMAIN queue' : queue'[i] = queue'[j] => i = j
      BY <2>2, <2>4 DEF PlaceInv, Apart
    <3>2. \A v \in Workers : job'[v] = queue[1] => v = w
      BY <2>3, <2>5 DEF PlaceInv, Apart
    <3>3. \A u, v \in Workers : job'[u] = job'[v] /\ job'[u] # 0 => u = v
      BY <2>3, <3>2 DEF PlaceInv, Apart
    <3>4. \A c \in Callers, v \in Workers : inHand'[c] # 0 => inHand'[c] # job'[v]
      BY <2>1, <2>3, <2>5 DEF PlaceInv, Apart
    <3>5. \A i \in DOMAIN queue', v \in Workers : queue'[i] # job'[v]
      BY <2>2, <2>3, <2>4, <2>5 DEF PlaceInv, Apart
    <3>6. /\ \A i \in DOMAIN queue' : queue'[i] \notin Settled'
          /\ \A v \in Workers : job'[v] \notin Settled'
          /\ \A c \in Callers : inHand'[c] \notin Settled'
      BY <2>1, <2>2, <2>3, <2>4, <2>5 DEF PlaceInv, Apart
    <3>7. /\ \A c, d \in Callers : inHand'[c] = inHand'[d] /\ inHand'[c] # 0 => c = d
          /\ \A c \in Callers, i \in DOMAIN queue' : inHand'[c] # queue'[i]
      BY <2>1, <2>2, <2>4 DEF PlaceInv, Apart
    <3> QED
      BY <3>1, <3>3, <3>4, <3>5, <3>6, <3>7 DEF Apart
  <2>8. Somewhere'
    <3> SUFFICES ASSUME NEW e \in 1..count
                 PROVE  \/ \E c \in Callers : inHand[c] = e
                        \/ \E i \in DOMAIN queue' : queue'[i] = e
                        \/ \E v \in Workers : job'[v] = e
                        \/ e \in Settled
      BY <2>1 DEF Somewhere
    <3>1. ASSUME NEW i \in DOMAIN queue, queue[i] = e
          PROVE  (\E j \in DOMAIN queue' : queue'[j] = e) \/ job'[w] = e
      <4>1. CASE i = 1
        BY <2>3, <3>1, <4>1
      <4>2. CASE i # 1
        <5>1. i - 1 \in DOMAIN queue' /\ (i - 1) + 1 = i
          BY <2>2, <4>2
        <5> QED
          BY <2>2, <3>1, <5>1
      <4> QED
        BY <4>1, <4>2
    <3>2. ASSUME NEW v \in Workers, job[v] = e
          PROVE  job'[v] = e
      BY <2>1, <2>3, <3>2, <1>t
    <3> QED
      BY <3>1, <3>2 DEF PlaceInv, Somewhere
  <2> QED
    BY <2>6, <2>7, <2>8 DEF PlaceInv
<1>2. CASE QueryFails(w)
  BY <1>2, WorkerSettles DEF QueryFails, callerVars, Settled, JobWhileDelivering
<1>3. CASE Delivered(w)
  BY <1>3, WorkerSettles DEF Delivered, callerVars, Settled, JobWhileDelivering
<1>4. CASE GetPrefs(w) /\ Back(w) /\ skipped' = skipped \cup {job[w]}
  BY <1>4, WorkerSettles DEF GetPrefs, callerVars, Settled, JobWhileDelivering
<1>5. CASE UNCHANGED <<queue, caller, inHand, job, count, finished, skipped, aborted, dropped, ignored>>
  BY <1>5 DEF PlaceInv, IdleHasNothing, Apart, Somewhere, NotAhead, Settled
<1> QED
  BY <1>1, <1>2, <1>3, <1>4, <1>5 DEF Work, WorkerReturns, GetPrefs, ListEnabledTargets, Post,
     callerVars, history

\* Every step preserves the places; main moves no event.
LEMMA NextPlaces == IInv /\ PlaceInv /\ [Next]_vars => PlaceInv'
<1> SUFFICES ASSUME IInv, PlaceInv, [Next]_vars
             PROVE  PlaceInv'
  OBVIOUS
<1>1. CASE \/ UNCHANGED vars
           \/ Signal \/ ListenFails \/ LeaveSelect \/ ShutdownReturns \/ Stop \/ StopReturns
  <2>1. UNCHANGED <<queue, caller, inHand, job, count, finished, skipped, aborted, dropped, ignored>>
    BY <1>1 DEF vars, callerVars, workerVars, history, Signal, ListenFails, LeaveSelect, ShutdownReturns, Stop,
       StopReturns
  <2> QED
    BY <2>1 DEF PlaceInv, IdleHasNothing, Apart, Somewhere, NotAhead, Settled
<1> QED
  BY <1>1, CallerMoves, WorkerMoves DEF Next

\* Facts about the places give their number.
LEMMA OnePlace ==
    ASSUME TypeOK, PlaceInv, NEW e \in 1..count
    PROVE  \E p : Held(e) = {p}
<1>1. e # 0
  BY PlaceTypes
<1>2. ASSUME NEW c \in Callers, inHand[c] = e
      PROVE  Held(e) = {<<"caller", c>>}
  BY <1>1, <1>2 DEF Held, PlaceInv, Apart
<1>3. ASSUME NEW i \in DOMAIN queue, queue[i] = e
      PROVE  Held(e) = {<<"queue", i>>}
  BY <1>1, <1>3 DEF Held, PlaceInv, Apart
<1>4. ASSUME NEW w \in Workers, job[w] = e
      PROVE  Held(e) = {<<"worker", w>>}
  BY <1>1, <1>4 DEF Held, PlaceInv, Apart
<1>5. ASSUME e \in Settled
      PROVE  Held(e) = {<<"settled">>}
  BY <1>1, <1>5 DEF Held, PlaceInv, Apart
<1> QED
  BY <1>2, <1>3, <1>4, <1>5 DEF PlaceInv, Somewhere

-----------------------------------------------------------------------------

\* The inductive invariant holds of every execution of the manager.
THEOREM NotifyInvariant == Spec => []IInv
BY InitIInv, NextIInv, PTL DEF Spec

\* The manager's state is well typed and its queue within its capacity.
THEOREM NotifyTypeOK == Spec => []TypeOK
BY NotifyInvariant, PTL DEF IInv

\* A completed delivery has tried every target, for any interleaving of workers.
THEOREM DeliveryIsComplete == Spec => []EveryTargetTried
BY NotifyInvariant, PTL DEF IInv

\* Dispatch loses an event without a log line only after main has closed the
\* queue, and never while the server serves, for any number of sessions.
THEOREM NoSilentLossWhileServing == Spec => []SilentLossOnlyInShutdown
BY NotifyInvariant, PTL DEF IInv

\* No event is delivered twice, whatever the interleaving of callers, workers
\* and the shutdown: from Dispatch on it is in exactly one place.
THEOREM EveryEventHasOnePlace == Spec => []EventInOnePlace
<1>1. IInv /\ PlaceInv => EventInOnePlace
  BY OnePlace, FS_Singleton DEF IInv, EventInOnePlace
<1> QED
  BY <1>1, NotifyInvariant, InitPlaces, NextPlaces, PTL DEF Spec

=============================================================================
