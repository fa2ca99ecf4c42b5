---------------------------- MODULE BrokerProofs ----------------------------
(***************************************************************************)
(* The safety properties of Broker for every set of sessions, users and    *)
(* workers: the session map follows the life of each session, the lock is  *)
(* held only inside broker calls, and the map does not change under a      *)
(* Send or SendToAll in progress.                                          *)
(***************************************************************************)
EXTENDS Broker, TLAPS

\* What is known of a session's unregister goroutine before it exists, of the
\* lock while a Send is in progress, and of the lists of idle senders.
UnregStartsAfterRegister ==
    \A s \in Sessions :
        pc[Handler(s)] \in {"off", "accepted", "Register", "OnlineList"}
            => pc[Unreg(s)] = "off"

SendersHoldRLock ==
    \A s \in Sessions :
        /\ pc[Handler(s)] = "sending" => Handler(s) \in readers
        /\ pc[Handler(s)] # "sending" => todo[Handler(s)] = {}

IInv ==
    /\ TypeOK
    /\ RegistryMatchesLifecycle
    /\ LockOnlyInsideCalls
    /\ IterationIsStable
    /\ UnregStartsAfterRegister
    /\ SendersHoldRLock
    /\ readers \cap parked = {}

-----------------------------------------------------------------------------

\* The goroutines are all different: the labels of one never move another.
LEMMA ThreadFacts ==
    /\ \A s \in Sessions : Handler(s) \in Handlers /\ Handler(s) \in Threads
    /\ \A s \in Sessions : Unreg(s) \in Threads
    /\ \A w \in Workers : Worker(w) \in Threads
    /\ Main \in Threads
    /\ \A s, d : Handler(s) = Handler(d) => s = d
    /\ \A s, d : Unreg(s) = Unreg(d) => s = d
    /\ \A v, w : Worker(v) = Worker(w) => v = w
    /\ \A s, d : Handler(s) # Unreg(d)
    /\ \A s, w : Handler(s) # Worker(w)
    /\ \A s, w : Unreg(s) # Worker(w)
    /\ \A s : Handler(s) # Main
    /\ \A s : Unreg(s) # Main
    /\ \A w : Worker(w) # Main
    /\ \A t \in Threads :
          \/ \E s \in Sessions : t = Handler(s) \/ t = Unreg(s)
          \/ \E w \in Workers : t = Worker(w)
          \/ t = Main
    /\ Main \notin Handlers
  BY DEF Handler, Unreg, Worker, Main, Handlers, Unregs, Threads

\* The same in the terms Init uses.
LEMMA KindFacts ==
    /\ \A s \in Sessions : Handler(s) \in Handlers /\ Unreg(s) \in Unregs
    /\ \A w : Worker(w) \notin Handlers \cup Unregs
    /\ Main \notin Handlers \cup Unregs
  BY DEF Handler, Unreg, Worker, Main, Handlers, Unregs

\* The labels that are waits for the broker's lock belong to one kind of thread.
LEMMA LabelFacts ==
    /\ WantsLock \cap WantsRLock = {}
    /\ \A x \in {"off", "accepted", "new", "idle", "update", "sending", "dead",
                 "waiting", "done", "serving", "closing", "quitting", "sleeping",
                 "returned"} : x \notin WantsLock \cup WantsRLock
    /\ WantsLock = {"Register", "Unregister"}
    /\ {"OnlineList", "ListUpdate", "Send", "IsOnline", "Snapshot", "Poll", "TimedOut"} = WantsRLock
  BY DEF WantsLock, WantsRLock

-----------------------------------------------------------------------------

\* The initial state satisfies the inductive invariant.
LEMMA InitIInv == Init => IInv
<1> SUFFICES ASSUME Init PROVE IInv
  OBVIOUS
<1>1. \A s \in Sessions : pc[Handler(s)] = "off" /\ pc[Unreg(s)] = "off"
  BY ThreadFacts, KindFacts DEF Init
<1>2. /\ pc[Main] = "serving"
      /\ \A w \in Workers : pc[Worker(w)] = "idle"
  BY ThreadFacts, KindFacts DEF Init
<1>3. TypeOK
  BY <1>1, <1>2, BrokerAssumption
     DEF Init, TypeOK, lock!LockInit, lock!LockTypeOK,
         HandlerStates, UnregStates, WorkerStates, MainStates
<1> QED
  BY <1>1, <1>3, ThreadFacts
     DEF Init, IInv, RegistryMatchesLifecycle, Registered, Unregistered,
         LockOnlyInsideCalls, IterationIsStable, UnregStartsAfterRegister,
         SendersHoldRLock, lock!LockInit

\* Every action, and stuttering, preserves the inductive invariant.
LEMMA NextIInv == IInv /\ [Next]_vars => IInv'
<1> USE ThreadFacts, LabelFacts, BrokerAssumption DEF noLock, lock!LockTypeOK,
        HandlerStates, UnregStates, WorkerStates, MainStates
<1> SUFFICES ASSUME IInv, [Next]_vars PROVE IInv'
  OBVIOUS
<1>1. ASSUME NEW s \in Sessions, Accept(s) PROVE IInv'
  BY <1>1 DEF Accept, Goto, IInv, TypeOK, RegistryMatchesLifecycle, Registered, Unregistered,
           LockOnlyInsideCalls, IterationIsStable, UnregStartsAfterRegister,
           SendersHoldRLock
<1>2. ASSUME NEW s \in Sessions, Connect(s) PROVE IInv'
  BY <1>2 DEF Connect, Goto, IInv, TypeOK, RegistryMatchesLifecycle, Registered, Unregistered,
           LockOnlyInsideCalls, IterationIsStable, UnregStartsAfterRegister,
           SendersHoldRLock
<1>3. ASSUME NEW s \in Sessions, Register(s) PROVE IInv'
  BY <1>3 DEF Register, Goto, lock!HoldsLock, lock!Unlock, IInv, TypeOK, RegistryMatchesLifecycle, Registered, Unregistered,
           LockOnlyInsideCalls, IterationIsStable, UnregStartsAfterRegister,
           SendersHoldRLock
<1>4. ASSUME NEW s \in Sessions, HandlerReturns(s) PROVE IInv'
  BY <1>4 DEF HandlerReturns, lock!HoldsRLock, lock!RUnlock, IInv, TypeOK, RegistryMatchesLifecycle, Registered, Unregistered,
           LockOnlyInsideCalls, IterationIsStable, UnregStartsAfterRegister,
           SendersHoldRLock
<1>5. ASSUME NEW s \in Sessions, Run(s) PROVE IInv'
  BY <1>5 DEF Run, Goto, IInv, TypeOK, RegistryMatchesLifecycle, Registered, Unregistered,
           LockOnlyInsideCalls, IterationIsStable, UnregStartsAfterRegister,
           SendersHoldRLock
<1>6. ASSUME NEW s \in Sessions, HangUp(s) PROVE IInv'
  BY <1>6 DEF HangUp, IInv, TypeOK, RegistryMatchesLifecycle, Registered, Unregistered,
           LockOnlyInsideCalls, IterationIsStable, UnregStartsAfterRegister,
           SendersHoldRLock
<1>7. ASSUME NEW s \in Sessions, Quit(s) PROVE IInv'
  BY <1>7 DEF Quit, Goto, IInv, TypeOK, RegistryMatchesLifecycle, Registered, Unregistered,
           LockOnlyInsideCalls, IterationIsStable, UnregStartsAfterRegister,
           SendersHoldRLock
<1>8. ASSUME NEW s \in Sessions, ContextDone(s) PROVE IInv'
  BY <1>8 DEF ContextDone, Goto, IInv, TypeOK, RegistryMatchesLifecycle, Registered, Unregistered,
           LockOnlyInsideCalls, IterationIsStable, UnregStartsAfterRegister,
           SendersHoldRLock
<1>9. ASSUME NEW s \in Sessions, Unregister(s) PROVE IInv'
  BY <1>9 DEF Unregister, Goto, lock!HoldsLock, lock!Unlock, IInv, TypeOK, RegistryMatchesLifecycle, Registered, Unregistered,
           LockOnlyInsideCalls, IterationIsStable, UnregStartsAfterRegister,
           SendersHoldRLock
<1>10. ASSUME NEW s \in Sessions, UnregReturns(s) PROVE IInv'
  BY <1>10 DEF UnregReturns, Goto, lock!HoldsRLock, lock!RUnlock, IInv, TypeOK, RegistryMatchesLifecycle, Registered, Unregistered,
           LockOnlyInsideCalls, IterationIsStable, UnregStartsAfterRegister,
           SendersHoldRLock
<1>11. ASSUME NEW s \in Sessions, Submit(s) PROVE IInv'
  BY <1>11 DEF Submit, Goto, IInv, TypeOK, RegistryMatchesLifecycle, Registered, Unregistered,
           LockOnlyInsideCalls, IterationIsStable, UnregStartsAfterRegister,
           SendersHoldRLock
<1>12. ASSUME NEW s \in Sessions, StartSend(s) PROVE IInv'
  BY <1>12 DEF StartSend, Goto, lock!HoldsRLock, IInv, TypeOK, RegistryMatchesLifecycle, Registered, Unregistered,
           LockOnlyInsideCalls, IterationIsStable, UnregStartsAfterRegister,
           SendersHoldRLock
<1>13. ASSUME NEW s \in Sessions, EndSend(s) PROVE IInv'
  BY <1>13 DEF EndSend, Goto, lock!RUnlock, IInv, TypeOK, RegistryMatchesLifecycle, Registered, Unregistered,
           LockOnlyInsideCalls, IterationIsStable, UnregStartsAfterRegister,
           SendersHoldRLock
<1>14. ASSUME NEW s \in Sessions, OpenOnline(s) PROVE IInv'
  BY <1>14 DEF OpenOnline, Goto, IInv, TypeOK, RegistryMatchesLifecycle, Registered, Unregistered,
           LockOnlyInsideCalls, IterationIsStable, UnregStartsAfterRegister,
           SendersHoldRLock
<1>15. ASSUME NEW s \in Sessions, OnlineList(s) PROVE IInv'
  BY <1>15 DEF OnlineList, Goto, lock!HoldsRLock, lock!RUnlock, IInv, TypeOK, RegistryMatchesLifecycle, Registered, Unregistered,
           LockOnlyInsideCalls, IterationIsStable, UnregStartsAfterRegister,
           SendersHoldRLock
<1>16. ASSUME NEW s \in Sessions, UpdateReturns(s) PROVE IInv'
  BY <1>16 DEF UpdateReturns, Goto, IInv, TypeOK, RegistryMatchesLifecycle, Registered, Unregistered,
           LockOnlyInsideCalls, IterationIsStable, UnregStartsAfterRegister,
           SendersHoldRLock
<1>17. ASSUME NEW s \in Sessions, NEW d \in Sessions, SendOne(s, d) PROVE IInv'
  BY <1>17 DEF SendOne, Receptive, Receive, IInv, TypeOK, RegistryMatchesLifecycle, Registered, Unregistered,
           LockOnlyInsideCalls, IterationIsStable, UnregStartsAfterRegister,
           SendersHoldRLock
<1>18. ASSUME NEW w \in Workers, CheckPresence(w) PROVE IInv'
  BY <1>18 DEF CheckPresence, Goto, IInv, TypeOK, RegistryMatchesLifecycle, Registered, Unregistered,
           LockOnlyInsideCalls, IterationIsStable, UnregStartsAfterRegister,
           SendersHoldRLock
<1>19. ASSUME NEW w \in Workers, IsOnline(w) PROVE IInv'
  BY <1>19 DEF IsOnline, Goto, lock!HoldsRLock, lock!RUnlock, IInv, TypeOK, RegistryMatchesLifecycle, Registered, Unregistered,
           LockOnlyInsideCalls, IterationIsStable, UnregStartsAfterRegister,
           SendersHoldRLock
<1>20. ASSUME NEW t \in Threads, Lock(t) PROVE IInv'
  BY <1>20 DEF Lock, lock!AnnounceLock, IInv, TypeOK, RegistryMatchesLifecycle, Registered, Unregistered,
           LockOnlyInsideCalls, IterationIsStable, UnregStartsAfterRegister,
           SendersHoldRLock
<1>21. ASSUME NEW t \in Threads, RLock(t) PROVE IInv'
  BY <1>21 DEF RLock, lock!RLock, IInv, TypeOK, RegistryMatchesLifecycle, Registered, Unregistered,
           LockOnlyInsideCalls, IterationIsStable, UnregStartsAfterRegister,
           SendersHoldRLock
<1>22. ASSUME Signal PROVE IInv'
  BY <1>22 DEF Signal, Goto, IInv, TypeOK, RegistryMatchesLifecycle, Registered, Unregistered,
           LockOnlyInsideCalls, IterationIsStable, UnregStartsAfterRegister,
           SendersHoldRLock
<1>23. ASSUME ListenerClosed PROVE IInv'
  BY <1>23 DEF ListenerClosed, Goto, IInv, TypeOK, RegistryMatchesLifecycle, Registered, Unregistered,
           LockOnlyInsideCalls, IterationIsStable, UnregStartsAfterRegister,
           SendersHoldRLock
<1>24. ASSUME SessionsSnapshot PROVE IInv'
  BY <1>24 DEF SessionsSnapshot, Goto, lock!HoldsRLock, lock!RUnlock, IInv, TypeOK, RegistryMatchesLifecycle, Registered, Unregistered,
           LockOnlyInsideCalls, IterationIsStable, UnregStartsAfterRegister,
           SendersHoldRLock
<1>25. ASSUME NEW d \in Sessions, SendQuit(d) PROVE IInv'
  BY <1>25 DEF SendQuit, Receptive, Receive, IInv, TypeOK, RegistryMatchesLifecycle, Registered, Unregistered,
           LockOnlyInsideCalls, IterationIsStable, UnregStartsAfterRegister,
           SendersHoldRLock
<1>26. ASSUME StartPolling PROVE IInv'
  BY <1>26 DEF StartPolling, Goto, IInv, TypeOK, RegistryMatchesLifecycle, Registered, Unregistered,
           LockOnlyInsideCalls, IterationIsStable, UnregStartsAfterRegister,
           SendersHoldRLock
<1>27. ASSUME Poll PROVE IInv'
  BY <1>27 DEF Poll, Goto, lock!HoldsRLock, lock!RUnlock, IInv, TypeOK, RegistryMatchesLifecycle, Registered, Unregistered,
           LockOnlyInsideCalls, IterationIsStable, UnregStartsAfterRegister,
           SendersHoldRLock
<1>28. ASSUME PollAgain PROVE IInv'
  BY <1>28 DEF PollAgain, Goto, IInv, TypeOK, RegistryMatchesLifecycle, Registered, Unregistered,
           LockOnlyInsideCalls, IterationIsStable, UnregStartsAfterRegister,
           SendersHoldRLock
<1>29. ASSUME DrainTimeout PROVE IInv'
  BY <1>29 DEF DrainTimeout, Goto, IInv, TypeOK, RegistryMatchesLifecycle, Registered, Unregistered,
           LockOnlyInsideCalls, IterationIsStable, UnregStartsAfterRegister,
           SendersHoldRLock
<1>30. ASSUME LogTimeout PROVE IInv'
  BY <1>30 DEF LogTimeout, Goto, lock!HoldsRLock, lock!RUnlock, IInv, TypeOK, RegistryMatchesLifecycle, Registered, Unregistered,
           LockOnlyInsideCalls, IterationIsStable, UnregStartsAfterRegister,
           SendersHoldRLock
<1>31. ASSUME UNCHANGED vars PROVE IInv'
  BY <1>31 DEF vars, IInv, TypeOK, RegistryMatchesLifecycle, Registered, Unregistered,
           LockOnlyInsideCalls, IterationIsStable, UnregStartsAfterRegister,
           SendersHoldRLock
<1>q. QED
  BY <1>1, <1>2, <1>3, <1>4, <1>5, <1>6, <1>7, <1>8, <1>9, <1>10, <1>11, <1>12, <1>13, <1>14, <1>15, <1>16, <1>17, <1>18, <1>19, <1>20, <1>21, <1>22, <1>23, <1>24, <1>25, <1>26, <1>27, <1>28, <1>29, <1>30, <1>31
     DEF Next, Session, Shutdown

\* The inductive invariant holds in every reachable state.
THEOREM BrokerInvariant == Spec => []IInv
  BY InitIInv, NextIInv, PTL DEF Spec

\* Every variable of the broker keeps its type, for any number of sessions.
THEOREM BrokerTypeOK == Spec => []TypeOK
<1>1. IInv => TypeOK
  BY DEF IInv
<1> QED
  BY <1>1, BrokerInvariant, PTL

\* Broker.sessions always holds exactly the sessions between the return of
\* their Register and their Unregister, however the goroutines interleave.
THEOREM BrokerRegistry == Spec => []RegistryMatchesLifecycle
<1>1. IInv => RegistryMatchesLifecycle
  BY DEF IInv
<1> QED
  BY <1>1, BrokerInvariant, PTL

\* No broker method leaks the lock.
THEOREM BrokerLockDiscipline == Spec => []LockOnlyInsideCalls
<1>1. IInv => LockOnlyInsideCalls
  BY DEF IInv
<1> QED
  BY <1>1, BrokerInvariant, PTL

\* The list a Send walks stays in the map while it blocks on other programs.
THEOREM BrokerIteration == Spec => []IterationIsStable
<1>1. IInv => IterationIsStable
  BY DEF IInv
<1> QED
  BY <1>1, BrokerInvariant, PTL
-----------------------------------------------------------------------------
(***************************************************************************)
(* The broker implements Registry.  Only five actions show: Register and   *)
(* Unregister have the lock alone, so no Send is in its walk; StartSend,   *)
(* SendOne and EndSend are those of the registry.  Everything else leaves  *)
(* the map, the walks under way and their lists alone.                     *)
(***************************************************************************)

Walkers == {s \in Sessions : pc[Handler(s)] = "sending"}
Lists   == [s \in Sessions |-> todo[Handler(s)]]

\* A Send that waits for the lock was called for another user, or for all others.
AudienceNamed ==
    \A s \in Sessions : pc[Handler(s)] = "Send" => dest[s] \in registry!Audiences(s)

\* No Send waits at first, and only a Submit makes one wait.
LEMMA AudienceStays ==
    /\ Init => AudienceNamed
    /\ TypeOK /\ AudienceNamed /\ [Next]_vars => AudienceNamed'
<1> USE ThreadFacts
<1>1. Init => AudienceNamed
  BY KindFacts DEF Init, AudienceNamed
<1>2. ASSUME TypeOK, AudienceNamed, [Next]_vars PROVE AudienceNamed'
  <2>1. ASSUME NEW s \in Sessions, Submit(s) PROVE AudienceNamed'
    <3>1. dest'[s] \in registry!Audiences(s)
      BY <1>2, <2>1 DEF Submit, TypeOK, registry!Audiences
    <3>2. \A d \in Sessions : d # s => dest'[d] = dest[d] /\ pc'[Handler(d)] = pc[Handler(d)]
      BY <1>2, <2>1 DEF Submit, Goto, TypeOK
    <3> QED
      BY <1>2, <3>1, <3>2 DEF AudienceNamed
  <2>2. ASSUME \A s \in Sessions :
                  pc'[Handler(s)] = "Send" => pc[Handler(s)] = "Send" /\ dest'[s] = dest[s]
        PROVE  AudienceNamed'
    BY <1>2, <2>2 DEF AudienceNamed
  <2>3. ASSUME NEW s \in Sessions, Session(s) PROVE AudienceNamed'
    <3>1. CASE Submit(s)
      BY <2>1, <3>1
    <3>2. CASE Accept(s) \/ Connect(s) \/ Register(s) \/ HandlerReturns(s) \/ Run(s)
               \/ HangUp(s) \/ Quit(s)
      BY <1>2, <2>2, <3>2
         DEF TypeOK, Accept, Connect, Register, HandlerReturns, Run, HangUp, Quit, Goto
    <3>3. CASE ContextDone(s) \/ Unregister(s) \/ UnregReturns(s) \/ OpenOnline(s)
               \/ OnlineList(s) \/ UpdateReturns(s)
      BY <1>2, <2>2, <3>3
         DEF TypeOK, ContextDone, Unregister, UnregReturns, OpenOnline, OnlineList,
             UpdateReturns, Goto
    <3>4. CASE StartSend(s) \/ (\E d \in Sessions : SendOne(s, d)) \/ EndSend(s)
      BY <1>2, <2>2, <3>4 DEF TypeOK, StartSend, SendOne, EndSend, Goto, Receive
    <3> QED
      BY <2>3, <3>1, <3>2, <3>3, <3>4 DEF Session
  <2>4. ASSUME Shutdown PROVE AudienceNamed'
    BY <1>2, <2>2, <2>4
       DEF TypeOK, Shutdown, Signal, ListenerClosed, SessionsSnapshot, SendQuit, Receive,
           StartPolling, Poll, PollAgain, DrainTimeout, LogTimeout, Goto
  <2>5. ASSUME NEW t \in Threads, Lock(t) \/ RLock(t) PROVE AudienceNamed'
    BY <2>2, <2>5 DEF Lock, RLock
  <2>6. ASSUME NEW w \in Workers, CheckPresence(w) \/ IsOnline(w) PROVE AudienceNamed'
    BY <1>2, <2>2, <2>6 DEF TypeOK, CheckPresence, IsOnline, Goto
  <2>7. CASE UNCHANGED vars
    BY <2>2, <2>7 DEF vars
  <2> QED
    BY <1>2, <2>3, <2>4, <2>5, <2>6, <2>7 DEF Next
<1> QED
  BY <1>1, <1>2

\* A step that leaves the map, the walks and their lists alone is no step of the
\* registry.
LEMMA RegistryStutters ==
    ASSUME sessions' = sessions, Walkers' = Walkers, Lists' = Lists
    PROVE  UNCHANGED registry!vars
  BY DEF registry!vars, Walkers, Lists

\* The initial state maps to the initial state of the registry.
LEMMA InitRegistry == Init => registry!Init
  BY ThreadFacts, KindFacts DEF Init, registry!Init, Handlers

\* Every step of the broker maps to a step of the registry, or to none.
LEMMA NextRegistry ==
    IInv /\ AudienceNamed /\ [Next]_vars => [registry!Next]_registry!vars
<1> USE ThreadFacts
<1> SUFFICES ASSUME IInv, AudienceNamed, [Next]_vars PROVE [registry!Next]_registry!vars
  OBVIOUS
<1>0. /\ TypeOK /\ RegistryMatchesLifecycle /\ UnregStartsAfterRegister /\ SendersHoldRLock
  BY DEF IInv
<1>a. ASSUME sessions' = sessions, Walkers' = Walkers, Lists' = Lists
      PROVE  [registry!Next]_registry!vars
  BY <1>a, RegistryStutters
<1>1. ASSUME NEW s \in Sessions, Register(s) PROVE [registry!Next]_registry!vars
  <2>1. s \notin sessions
    BY <1>0, <1>1 DEF RegistryMatchesLifecycle, Registered, Register
  <2>2. Walkers = {} /\ Walkers' = {}
    BY <1>0, <1>1 DEF SendersHoldRLock, Register, lock!HoldsLock, Goto, TypeOK, Walkers
  <2>3. sessions' = sessions \cup {s} /\ Lists' = Lists
    BY <1>1 DEF Register, Lists
  <2>4. registry!Register(s)
    BY <2>1, <2>2, <2>3 DEF registry!Register, Walkers, Lists
  <2> QED
    BY <2>4 DEF registry!Next
<1>2. ASSUME NEW s \in Sessions, Unregister(s) PROVE [registry!Next]_registry!vars
  <2>1. s \in sessions
    BY <1>0, <1>2
       DEF RegistryMatchesLifecycle, Registered, Unregistered, UnregStartsAfterRegister, Unregister
  <2>2. Walkers = {} /\ Walkers' = {}
    BY <1>0, <1>2 DEF SendersHoldRLock, Unregister, lock!HoldsLock, Goto, TypeOK, Walkers
  <2>3. sessions' = sessions \ {s} /\ Lists' = Lists
    BY <1>2 DEF Unregister, Lists
  <2>4. registry!Unregister(s)
    BY <2>1, <2>2, <2>3 DEF registry!Unregister, Walkers, Lists
  <2> QED
    BY <2>4 DEF registry!Next
<1>3. ASSUME NEW s \in Sessions, StartSend(s) PROVE [registry!Next]_registry!vars
  <2>1. s \notin Walkers /\ Walkers' = Walkers \cup {s} /\ sessions' = sessions
    BY <1>0, <1>3 DEF StartSend, Goto, TypeOK, Walkers
  <2>2. dest[s] \in registry!Audiences(s)
    BY <1>3 DEF AudienceNamed, StartSend
  <2>3. Lists' = [Lists EXCEPT ![s] = {d \in sessions : owner[d] \in dest[s]}]
    BY <1>0, <1>3 DEF StartSend, TypeOK, Lists
  <2>4. registry!StartSend(s)
    BY <2>1, <2>2, <2>3 DEF registry!StartSend, Walkers, Lists
  <2> QED
    BY <2>4 DEF registry!Next
<1>4. ASSUME NEW s \in Sessions, NEW d \in Sessions, SendOne(s, d)
      PROVE  [registry!Next]_registry!vars
  <2>1. s \in Walkers /\ Walkers' = Walkers /\ sessions' = sessions
    BY <1>0, <1>4 DEF SendOne, Receptive, Receive, TypeOK, Walkers
  <2>2. d \in Lists[s] /\ Lists' = [Lists EXCEPT ![s] = @ \ {d}]
    <3>1. d \in todo[Handler(s)] /\ todo'[Handler(s)] = todo[Handler(s)] \ {d}
      BY <1>0, <1>4 DEF SendOne, TypeOK
    <3>2. \A x \in Sessions : x # s => todo'[Handler(x)] = todo[Handler(x)]
      BY <1>0, <1>4 DEF SendOne, TypeOK
    <3> QED
      BY <3>1, <3>2 DEF Lists
  <2>3. registry!SendOne(s, d)
    BY <2>1, <2>2 DEF registry!SendOne, Walkers, Lists
  <2> QED
    BY <2>3 DEF registry!Next
<1>5. ASSUME NEW s \in Sessions, EndSend(s) PROVE [registry!Next]_registry!vars
  <2>1. s \in Walkers /\ Walkers' = Walkers \ {s} /\ sessions' = sessions
    BY <1>0, <1>5 DEF EndSend, Goto, TypeOK, Walkers
  <2>2. Lists[s] = {} /\ Lists' = Lists
    BY <1>5 DEF EndSend, Lists
  <2>3. registry!EndSend(s)
    BY <2>1, <2>2 DEF registry!EndSend, Walkers, Lists
  <2> QED
    BY <2>3 DEF registry!Next
<1>6. ASSUME NEW s \in Sessions,
             \/ Accept(s) \/ Connect(s) \/ HandlerReturns(s) \/ Run(s) \/ HangUp(s) \/ Quit(s)
             \/ ContextDone(s) \/ UnregReturns(s) \/ Submit(s) \/ OpenOnline(s)
             \/ OnlineList(s) \/ UpdateReturns(s)
      PROVE  [registry!Next]_registry!vars
  <2>1. sessions' = sessions /\ Lists' = Lists
    BY <1>6
       DEF Accept, Connect, HandlerReturns, Run, HangUp, Quit, ContextDone, UnregReturns,
           Submit, OpenOnline, OnlineList, UpdateReturns, Lists
  <2>2. Walkers' = Walkers
    BY <1>0, <1>6
       DEF Accept, Connect, HandlerReturns, Run, HangUp, Quit, ContextDone, UnregReturns,
           Submit, OpenOnline, OnlineList, UpdateReturns, Goto, TypeOK, Walkers
  <2> QED
    BY <1>a, <2>1, <2>2
<1>7. ASSUME Shutdown PROVE [registry!Next]_registry!vars
  <2>1. sessions' = sessions /\ Lists' = Lists
    BY <1>0, <1>7
       DEF Shutdown, Signal, ListenerClosed, SessionsSnapshot, SendQuit, StartPolling, Poll,
           PollAgain, DrainTimeout, LogTimeout, TypeOK, Lists
  <2>2. Walkers' = Walkers
    BY <1>0, <1>7
       DEF Shutdown, Signal, ListenerClosed, SessionsSnapshot, SendQuit, Receptive, Receive,
           StartPolling, Poll, PollAgain, DrainTimeout, LogTimeout, Goto, TypeOK, Walkers
  <2> QED
    BY <1>a, <2>1, <2>2
<1>8. ASSUME NEW t \in Threads, Lock(t) \/ RLock(t) PROVE [registry!Next]_registry!vars
  BY <1>8, <1>a DEF Lock, RLock, Walkers, Lists
<1>9. ASSUME NEW w \in Workers, CheckPresence(w) \/ IsOnline(w)
      PROVE  [registry!Next]_registry!vars
  BY <1>0, <1>9, <1>a DEF CheckPresence, IsOnline, Goto, TypeOK, Walkers, Lists
<1>10. CASE UNCHANGED vars
  BY <1>10, <1>a DEF vars, Walkers, Lists
<1> QED
  BY <1>1, <1>2, <1>3, <1>4, <1>5, <1>6, <1>7, <1>8, <1>9, <1>10 DEF Next, Session

\* The broker with its lock implements the registry without one: what the users
\* of the broker may rely on, for any number of sessions, users and workers.
THEOREM BrokerImplementsRegistry == Spec => RegistrySpec
<1>1. Init => IInv /\ AudienceNamed /\ registry!Init
  BY InitIInv, AudienceStays, InitRegistry
<1>2. IInv /\ AudienceNamed /\ [Next]_vars => (IInv /\ AudienceNamed)'
  BY NextIInv, AudienceStays DEF IInv
<1>3. IInv /\ AudienceNamed /\ [Next]_vars => [registry!Next]_registry!vars
  BY NextRegistry
<1> QED
  BY <1>1, <1>2, <1>3, PTL DEF Spec, RegistrySpec, registry!Spec

=============================================================================
