------------------------------- MODULE Broker -------------------------------
(***************************************************************************)
(* internal/chat.Broker and the goroutines that call it: the SSH handler   *)
(* of every session (register, then run the bubbletea event loop), its     *)
(* unregister goroutine, the notify workers' presence checks, and the      *)
(* shutdown path of main.                                                  *)
(*                                                                         *)
(* Two blocking primitives meet here.  The broker's RWMutex is held for    *)
(* reading while Send and SendToAll call Program.Send on each target; and  *)
(* Program.Send is a rendezvous on an unbuffered channel that only the     *)
(* target's event loop reads, between two Updates.  A caller of Send       *)
(* normally sits inside an Update of its own program, so it reads nothing  *)
(* while it waits.                                                         *)
(*                                                                         *)
(* A session that has been torn down does not come back: a reconnect is    *)
(* another member of Sessions.  Message contents do not matter here.       *)
(***************************************************************************)
EXTENDS Naturals

CONSTANTS
    Sessions,       \* SSH connections of non-guest users
    Users,
    owner,          \* the account each session logs in to (雙開: not injective)
    Workers,        \* notify worker goroutines
    Typists,        \* sessions whose user submits balloons, mail or pushes
    Droppers,       \* sessions whose client may drop the connection while in use
    Viewers,        \* sessions whose user opens the online list
    MaxSends        \* bound: submissions per session

ASSUME BrokerAssumption ==
    /\ owner \in [Sessions -> Users]
    /\ Typists \subseteq Sessions
    /\ Droppers \subseteq Sessions
    /\ Viewers \subseteq Sessions
    /\ MaxSends \in Nat

Handler(s)    == <<"handler", s>>       \* makeProgramHandler, then Program.Run
Unreg(s)      == <<"unregister", s>>    \* the goroutine waiting for ctx.Done
Worker(w)     == <<"worker", w>>        \* notify.Manager.worker
Main          == <<"main">>             \* main.shutdown

Handlers == {Handler(s) : s \in Sessions}
Unregs   == {Unreg(s) : s \in Sessions}

Threads == Handlers \cup Unregs \cup {Worker(w) : w \in Workers} \cup {Main}

VARIABLES
    writer, readers, parked,    \* Broker.mu
    sessions,   \* the sessions in Broker.sessions, over all users
    pc,         \* where each thread is
    dest,       \* users a pending Send/SendToAll of a session goes to
    todo,       \* sessions a thread still has to call Program.Send for
    gone,       \* sessions whose SSH context is done
    sends       \* submissions made, for the bound

vars == <<writer, readers, parked, sessions, pc, dest, todo, gone, sends>>

lock == INSTANCE RWMutex

noLock == <<writer, readers, parked>>

\* Where a thread can be.  "idle" is the event loop waiting in its select;
\* the states named after a Broker method are calls waiting for Broker.mu.
HandlerStates == {"off", "accepted", "Register", "OnlineList", "new", "idle",
                  "update", "ListUpdate", "Send", "sending", "dead"}
UnregStates   == {"off", "waiting", "Unregister", "OnlineList", "done"}
WorkerStates  == {"idle", "IsOnline"}
MainStates    == {"serving", "closing", "Snapshot", "quitting", "Poll",
                  "sleeping", "TimedOut", "returned"}

WantsLock  == {"Register", "Unregister"}
WantsRLock == {"OnlineList", "ListUpdate", "Send", "IsOnline",
               "Snapshot", "Poll", "TimedOut"}

Init ==
    /\ lock!LockInit
    /\ sessions = {}
    /\ pc = [t \in Threads |->
                IF t \in Handlers \cup Unregs THEN "off"
                ELSE IF t = Main THEN "serving" ELSE "idle"]
    /\ dest = [s \in Sessions |-> {}]
    /\ todo = [t \in Handlers \cup {Main} |-> {}]
    /\ gone = {}
    /\ sends = [s \in Sessions |-> 0]

Goto(t, label) == pc' = [pc EXCEPT ![t] = label]

-----------------------------------------------------------------------------
(* Broker.mu.                                                              *)

Lock(t) ==
    /\ pc[t] \in WantsLock
    /\ lock!AnnounceLock(t)
    /\ UNCHANGED <<sessions, pc, dest, todo, gone, sends>>

RLock(t) ==
    /\ pc[t] \in WantsRLock
    /\ lock!RLock(t)
    /\ UNCHANGED <<sessions, pc, dest, todo, gone, sends>>

-----------------------------------------------------------------------------
(* Program.Send: the rendezvous with an event loop.  The select in         *)
(* Program.Send also returns, dropping the message, once the program ended.*)

Receptive(d) == pc[Handler(d)] \in {"idle", "dead"}

\* The caller t moves on while d's loop takes the message up, if it runs.
Receive(d, label) ==
    IF pc[Handler(d)] = "idle" THEN [pc EXCEPT ![Handler(d)] = label] ELSE pc

-----------------------------------------------------------------------------
(* The life of a session.                                                  *)

\* The listener accepts a connection; it authenticates from here on.
Accept(s) ==
    /\ pc[Handler(s)] = "off" /\ pc[Main] = "serving"
    /\ Goto(Handler(s), "accepted")
    /\ UNCHANGED <<noLock, sessions, dest, todo, gone, sends>>

\* makeProgramHandler up to the call of broker.Register.
Connect(s) ==
    /\ pc[Handler(s)] = "accepted"
    /\ Goto(Handler(s), "Register")
    /\ UNCHANGED <<noLock, sessions, dest, todo, gone, sends>>

Register(s) ==
    /\ pc[Handler(s)] = "Register" /\ lock!HoldsLock(Handler(s))
    /\ sessions' = sessions \cup {s}
    /\ lock!Unlock(Handler(s))
    /\ Goto(Handler(s), "OnlineList")
    /\ UNCHANGED <<dest, todo, gone, sends>>

\* The count of broker.OnlineList in the log line, then the goroutine that
\* waits for the end of the session is started and the program returned.
HandlerReturns(s) ==
    /\ pc[Handler(s)] = "OnlineList" /\ lock!HoldsRLock(Handler(s))
    /\ lock!RUnlock(Handler(s))
    /\ pc' = [pc EXCEPT ![Handler(s)] = "new", ![Unreg(s)] = "waiting"]
    /\ UNCHANGED <<sessions, dest, todo, gone, sends>>

\* wish calls Program.Run.
Run(s) ==
    /\ pc[Handler(s)] = "new"
    /\ Goto(Handler(s), "idle")
    /\ UNCHANGED <<noLock, sessions, dest, todo, gone, sends>>

\* The client hangs up, or leaves once its program has ended: ctx.Done.
HangUp(s) ==
    /\ s \notin gone
    /\ \/ pc[Handler(s)] = "dead"
       \/ s \in Droppers /\ pc[Handler(s)] \notin {"off", "accepted"}
    /\ gone' = gone \cup {s}
    /\ UNCHANGED <<noLock, sessions, pc, dest, todo, sends>>

\* The event loop reads a Quit: the user's, or the one wish sends when the
\* session's context is done.
Quit(s) ==
    /\ pc[Handler(s)] = "idle"
    /\ Goto(Handler(s), "dead")
    /\ UNCHANGED <<noLock, sessions, dest, todo, gone, sends>>

\* The unregister goroutine wakes up.
ContextDone(s) ==
    /\ pc[Unreg(s)] = "waiting" /\ s \in gone
    /\ Goto(Unreg(s), "Unregister")
    /\ UNCHANGED <<noLock, sessions, dest, todo, gone, sends>>

\* Mutants: the entry stays in the map; the map is changed without the lock.
UnregisterKeepsEntry(s) ==
    /\ pc[Unreg(s)] = "Unregister" /\ lock!HoldsLock(Unreg(s))
    /\ lock!Unlock(Unreg(s))
    /\ Goto(Unreg(s), "OnlineList")
    /\ UNCHANGED <<sessions, dest, todo, gone, sends>>

UnregisterUnlocked(s) ==
    /\ pc[Unreg(s)] = "Unregister"
    /\ sessions' = sessions \ {s}
    /\ Goto(Unreg(s), "OnlineList")
    /\ UNCHANGED <<noLock, dest, todo, gone, sends>>

Unregister(s) ==
    /\ pc[Unreg(s)] = "Unregister" /\ lock!HoldsLock(Unreg(s))
    /\ sessions' = sessions \ {s}
    /\ lock!Unlock(Unreg(s))
    /\ Goto(Unreg(s), "OnlineList")
    /\ UNCHANGED <<dest, todo, gone, sends>>

UnregReturns(s) ==
    /\ pc[Unreg(s)] = "OnlineList" /\ lock!HoldsRLock(Unreg(s))
    /\ lock!RUnlock(Unreg(s))
    /\ Goto(Unreg(s), "done")
    /\ UNCHANGED <<sessions, dest, todo, gone, sends>>

-----------------------------------------------------------------------------
(* Updates of a session's program.                                         *)

\* Mutant: the call site does not guard against the own account.
SubmitToAnyone(s) ==
    /\ s \in Typists /\ sends[s] < MaxSends
    /\ pc[Handler(s)] = "idle"
    /\ \E u \in Users : dest' = [dest EXCEPT ![s] = {u}]
    /\ sends' = [sends EXCEPT ![s] = @ + 1]
    /\ Goto(Handler(s), "Send")
    /\ UNCHANGED <<noLock, sessions, todo, gone>>

\* The user submits a balloon or mail to another account (submit skips the
\* broker for the own account), or something every other user hears of.
Submit(s) ==
    /\ s \in Typists /\ sends[s] < MaxSends
    /\ pc[Handler(s)] = "idle"
    /\ \/ \E u \in Users \ {owner[s]} : dest' = [dest EXCEPT ![s] = {u}]
       \/ dest' = [dest EXCEPT ![s] = Users \ {owner[s]}]
    /\ sends' = [sends EXCEPT ![s] = @ + 1]
    /\ Goto(Handler(s), "Send")
    /\ UNCHANGED <<noLock, sessions, todo, gone>>

\* Send and SendToAll read the map under the read lock, ...
StartSend(s) ==
    /\ pc[Handler(s)] = "Send" /\ lock!HoldsRLock(Handler(s))
    /\ todo' = [todo EXCEPT ![Handler(s)] =
                    {d \in sessions : owner[d] \in dest[s]}]
    /\ Goto(Handler(s), "sending")
    /\ UNCHANGED <<noLock, sessions, dest, gone, sends>>

\* ... call Program.Send for each session in turn, ...
SendOne(s, d) ==
    /\ pc[Handler(s)] = "sending" /\ d \in todo[Handler(s)]
    /\ Receptive(d)
    /\ pc' = Receive(d, "update")
    /\ todo' = [todo EXCEPT ![Handler(s)] = @ \ {d}]
    /\ UNCHANGED <<noLock, sessions, dest, gone, sends>>

\* Mutant: Send returns with the read lock held.
EndSendKeepsLock(s) ==
    /\ pc[Handler(s)] = "sending" /\ todo[Handler(s)] = {}
    /\ dest' = [dest EXCEPT ![s] = {}]
    /\ Goto(Handler(s), "update")
    /\ UNCHANGED <<noLock, sessions, todo, gone, sends>>

\* ... and only then release it.
EndSend(s) ==
    /\ pc[Handler(s)] = "sending" /\ todo[Handler(s)] = {}
    /\ lock!RUnlock(Handler(s))
    /\ dest' = [dest EXCEPT ![s] = {}]
    /\ Goto(Handler(s), "update")
    /\ UNCHANGED <<sessions, todo, gone, sends>>

\* The user opens the online list (newOnlineModel calls broker.OnlineList).
OpenOnline(s) ==
    /\ s \in Viewers /\ pc[Handler(s)] = "idle"
    /\ Goto(Handler(s), "ListUpdate")
    /\ UNCHANGED <<noLock, sessions, dest, todo, gone, sends>>

OnlineList(s) ==
    /\ pc[Handler(s)] = "ListUpdate" /\ lock!HoldsRLock(Handler(s))
    /\ lock!RUnlock(Handler(s))
    /\ Goto(Handler(s), "update")
    /\ UNCHANGED <<sessions, dest, todo, gone, sends>>

UpdateReturns(s) ==
    /\ pc[Handler(s)] = "update"
    /\ Goto(Handler(s), "idle")
    /\ UNCHANGED <<noLock, sessions, dest, todo, gone, sends>>

-----------------------------------------------------------------------------
(* Notify workers.                                                         *)

CheckPresence(w) ==
    /\ pc[Worker(w)] = "idle"
    /\ Goto(Worker(w), "IsOnline")
    /\ UNCHANGED <<noLock, sessions, dest, todo, gone, sends>>

IsOnline(w) ==
    /\ pc[Worker(w)] = "IsOnline" /\ lock!HoldsRLock(Worker(w))
    /\ lock!RUnlock(Worker(w))
    /\ Goto(Worker(w), "idle")
    /\ UNCHANGED <<sessions, dest, todo, gone, sends>>

-----------------------------------------------------------------------------
(* main.shutdown.                                                          *)

\* A signal: srv.Shutdown closes the listener ...
Signal ==
    /\ pc[Main] = "serving"
    /\ Goto(Main, "closing")
    /\ UNCHANGED <<noLock, sessions, dest, todo, gone, sends>>

\* ... and waits for the connections to end, at most drainTimeout.
ListenerClosed ==
    /\ pc[Main] = "closing"
    /\ Goto(Main, "Snapshot")
    /\ UNCHANGED <<noLock, sessions, dest, todo, gone, sends>>

SessionsSnapshot ==
    /\ pc[Main] = "Snapshot" /\ lock!HoldsRLock(Main)
    /\ lock!RUnlock(Main)
    /\ todo' = [todo EXCEPT ![Main] = sessions]
    /\ Goto(Main, IF sessions = {} THEN "returned" ELSE "quitting")
    /\ UNCHANGED <<sessions, dest, gone, sends>>

\* s.Program.Send(tea.Quit()): no timeout guards this rendezvous.
SendQuit(d) ==
    /\ pc[Main] = "quitting" /\ d \in todo[Main]
    /\ Receptive(d)
    /\ pc' = Receive(d, "dead")
    /\ todo' = [todo EXCEPT ![Main] = @ \ {d}]
    /\ UNCHANGED <<noLock, sessions, dest, gone, sends>>

StartPolling ==
    /\ pc[Main] = "quitting" /\ todo[Main] = {}
    /\ Goto(Main, "Poll")
    /\ UNCHANGED <<noLock, sessions, dest, todo, gone, sends>>

\* One look at the map; the next in 100 ms unless all are gone.
Poll ==
    /\ pc[Main] = "Poll" /\ lock!HoldsRLock(Main)
    /\ lock!RUnlock(Main)
    /\ Goto(Main, IF sessions = {} THEN "returned" ELSE "sleeping")
    /\ UNCHANGED <<sessions, dest, todo, gone, sends>>

PollAgain ==
    /\ pc[Main] = "sleeping"
    /\ Goto(Main, "Poll")
    /\ UNCHANGED <<noLock, sessions, dest, todo, gone, sends>>

\* Mutant: the drain timer only ends one round of the polling.
DrainTimeoutRepolls ==
    /\ pc[Main] = "sleeping"
    /\ Goto(Main, "Poll")
    /\ UNCHANGED <<noLock, sessions, dest, todo, gone, sends>>

\* The drain timer fires; its log line counts the sessions once more.
DrainTimeout ==
    /\ pc[Main] = "sleeping"
    /\ Goto(Main, "TimedOut")
    /\ UNCHANGED <<noLock, sessions, dest, todo, gone, sends>>

LogTimeout ==
    /\ pc[Main] = "TimedOut" /\ lock!HoldsRLock(Main)
    /\ lock!RUnlock(Main)
    /\ Goto(Main, "returned")
    /\ UNCHANGED <<sessions, dest, todo, gone, sends>>

-----------------------------------------------------------------------------

Session(s) ==
    \/ Accept(s) \/ Connect(s) \/ Register(s) \/ HandlerReturns(s) \/ Run(s)
    \/ HangUp(s) \/ Quit(s) \/ ContextDone(s) \/ Unregister(s) \/ UnregReturns(s)
    \/ Submit(s) \/ StartSend(s) \/ (\E d \in Sessions : SendOne(s, d)) \/ EndSend(s)
    \/ OpenOnline(s) \/ OnlineList(s) \/ UpdateReturns(s)

Shutdown ==
    \/ Signal \/ ListenerClosed \/ SessionsSnapshot
    \/ (\E d \in Sessions : SendQuit(d))
    \/ StartPolling \/ Poll \/ PollAgain \/ DrainTimeout \/ LogTimeout

Next ==
    \/ \E t \in Threads : Lock(t) \/ RLock(t)
    \/ \E s \in Sessions : Session(s)
    \/ \E w \in Workers : CheckPresence(w) \/ IsOnline(w)
    \/ Shutdown

Spec == Init /\ [][Next]_vars

(***************************************************************************)
(* Fairness.  Goroutines that can run do run, and Go's RWMutex grants the  *)
(* lock.  Program.Send queues on a channel, which serves waiting senders   *)
(* in order, and a timer fires: strong fairness.  Nothing is assumed of    *)
(* users (Accept, Submit, OpenOnline, Quit, a dropped connection) nor of   *)
(* the signal, except that wish quits the program of a connection that is  *)
(* gone and that a client leaves once its program has ended.               *)
(***************************************************************************)
HandlerProgress(s) ==
    \/ Lock(Handler(s)) \/ RLock(Handler(s))
    \/ Connect(s) \/ Register(s) \/ HandlerReturns(s) \/ Run(s)
    \/ StartSend(s) \/ (\E d \in Sessions : SendOne(s, d)) \/ EndSend(s)
    \/ OnlineList(s) \/ UpdateReturns(s)

UnregProgress(s) ==
    Lock(Unreg(s)) \/ RLock(Unreg(s)) \/ ContextDone(s) \/ Unregister(s) \/ UnregReturns(s)

MainProgress ==
    \/ RLock(Main) \/ ListenerClosed \/ SessionsSnapshot
    \/ (\E d \in Sessions : SendQuit(d))
    \/ StartPolling \/ Poll \/ PollAgain \/ LogTimeout

Fairness ==
    /\ \A s \in Sessions :
        /\ SF_vars(HandlerProgress(s)) /\ WF_vars(UnregProgress(s))
        /\ SF_vars(s \in gone /\ Quit(s))
        /\ WF_vars(pc[Handler(s)] = "dead" /\ HangUp(s))
    /\ \A w \in Workers : WF_vars(RLock(Worker(w)) \/ IsOnline(w))
    /\ SF_vars(MainProgress) /\ SF_vars(DrainTimeout)

FairSpec == Spec /\ Fairness

-----------------------------------------------------------------------------
(* Properties.                                                             *)

\* Every variable holds a value of its type.
TypeOK ==
    /\ lock!LockTypeOK
    /\ sessions \in SUBSET Sessions
    /\ pc \in [Threads -> HandlerStates \cup UnregStates \cup WorkerStates \cup MainStates]
    /\ \A s \in Sessions : pc[Handler(s)] \in HandlerStates /\ pc[Unreg(s)] \in UnregStates
    /\ \A w \in Workers : pc[Worker(w)] \in WorkerStates
    /\ pc[Main] \in MainStates
    /\ dest \in [Sessions -> SUBSET Users]
    /\ todo \in [Handlers \cup {Main} -> SUBSET Sessions]
    /\ gone \in SUBSET Sessions
    /\ sends \in [Sessions -> 0..MaxSends]

Registered(s)   == pc[Handler(s)] \notin {"off", "accepted", "Register"}
Unregistered(s) == pc[Unreg(s)] \in {"OnlineList", "done"}

\* The session map holds exactly the sessions whose handler has registered
\* them and whose unregister goroutine has not yet removed them: no session is
\* lost from the map or left in it (Register, Unregister, makeProgramHandler).
RegistryMatchesLifecycle ==
    \A s \in Sessions : s \in sessions <=> Registered(s) /\ ~Unregistered(s)

\* A thread holds, or queues for, the lock of the broker only inside a broker
\* call: every return path of every method releases it, and a writer is never
\* announced by anyone but a Register or Unregister in progress.
LockOnlyInsideCalls ==
    /\ \A t \in readers \cup parked : pc[t] \in WantsRLock \cup {"sending"}
    /\ \A t \in writer : pc[t] \in WantsLock

\* While Send or SendToAll walks its list, every session still to be called is
\* in the map: nobody registers or unregisters under the iteration, although
\* the iteration blocks on other programs between two calls.
IterationIsStable ==
    \A s \in Sessions : todo[Handler(s)] \subseteq sessions

\* The broker without its lock (module Registry): a Send is under way from the
\* moment it has read the map until it releases the lock.
registry == INSTANCE Registry WITH
    walking <- {s \in Sessions : pc[Handler(s)] = "sending"},
    todo    <- [s \in Sessions |-> todo[Handler(s)]]

\* The broker implements the registry: whoever waits for whom, the map stands
\* still while a Send walks through it, and a Send calls once each session that
\* was in the map when it began, of its audience and none of its own account.
RegistrySpec == registry!Spec

\* Whatever the user does, the event loop comes back to reading its channel
\* (or has ended): no Update hangs.
EveryUpdateReturns ==
    \A s \in Sessions : pc[Handler(s)] \in {"update", "ListUpdate", "Send", "sending"}
                            ~> pc[Handler(s)] \in {"idle", "dead"}

\* The sessions a session's thread waits for: those it has still to call
\* Program.Send for, or, behind an announced writer, those that keep that writer
\* waiting.
WaitsFor(s) ==
    todo[Handler(s)] \cup {d \in Sessions : Handler(s) \in parked /\ Handler(d) \in readers}

\* Two sessions wait for each other, as they may (see EveryUpdateReturns).  What
\* follows says that nothing else keeps the threads of the broker waiting.
Circle == \E s, d \in Sessions : d \in WaitsFor(s) /\ s \in WaitsFor(d)

\* A notify worker that asks whether a user is online gets its answer, also when a
\* login or logout announces itself behind a Send that waits for a program, and
\* the question queues behind both, unless that program waits in turn.
PresenceAnswered ==
    \A w \in Workers : pc[Worker(w)] = "IsOnline" ~> (pc[Worker(w)] = "idle" \/ Circle)

\* A session whose connection is gone leaves the session map, also when it is gone
\* in the middle of a Send of its own, unless two sessions wait for each other.
GoneSessionsLeave ==
    \A s \in Sessions : (s \in gone /\ Registered(s)) ~> (s \notin sessions \/ Circle)

\* After a signal shutdown returns (and main closes the database), although it
\* waits for the programs without a timeout and for the sessions to leave with
\* one, unless two sessions wait for each other.
ShutdownReturns == pc[Main] = "closing" ~> (pc[Main] = "returned" \/ Circle)

=============================================================================
