------------------------------ MODULE Registry ------------------------------
(***************************************************************************)
(* What chat.Broker promises to its callers, without its lock: a registry  *)
(* of live sessions that stands still while a Send or SendToAll walks      *)
(* through it.  A walk calls every session that was registered when it     *)
(* began, of the users it is meant for, once each, and none else; several  *)
(* walks may be under way, and each may block for as long as it likes.     *)
(*                                                                         *)
(* Broker implements this with an RWMutex.  WaterBalloon, which has no     *)
(* lock, uses the registry in no other way than this.                      *)
(***************************************************************************)
CONSTANTS Sessions, Users, owner

VARIABLES
    sessions,   \* the registered sessions
    walking,    \* the sessions whose Update is inside Send or SendToAll
    todo        \* the sessions each of them still has to call

vars == <<sessions, walking, todo>>

Init ==
    /\ sessions = {}
    /\ walking = {}
    /\ todo = [s \in Sessions |-> {}]

\* Send goes to one other user, SendToAll to all others: no walk ever comes back
\* to the account of its caller.
Audiences(s) == {{u} : u \in Users \ {owner[s]}} \cup {Users \ {owner[s]}}

Register(s) ==
    /\ s \notin sessions /\ walking = {}
    /\ sessions' = sessions \cup {s}
    /\ UNCHANGED <<walking, todo>>

Unregister(s) ==
    /\ s \in sessions /\ walking = {}
    /\ sessions' = sessions \ {s}
    /\ UNCHANGED <<walking, todo>>

StartSend(s) ==
    /\ s \notin walking
    /\ walking' = walking \cup {s}
    /\ \E audience \in Audiences(s) :
           todo' = [todo EXCEPT ![s] = {d \in sessions : owner[d] \in audience}]
    /\ UNCHANGED sessions

SendOne(s, d) ==
    /\ s \in walking /\ d \in todo[s]
    /\ todo' = [todo EXCEPT ![s] = @ \ {d}]
    /\ UNCHANGED <<sessions, walking>>

EndSend(s) ==
    /\ s \in walking /\ todo[s] = {}
    /\ walking' = walking \ {s}
    /\ UNCHANGED <<sessions, todo>>

Next ==
    \E s \in Sessions :
        \/ Register(s) \/ Unregister(s)
        \/ StartSend(s) \/ (\E d \in Sessions : SendOne(s, d)) \/ EndSend(s)

Spec == Init /\ [][Next]_vars

=============================================================================
