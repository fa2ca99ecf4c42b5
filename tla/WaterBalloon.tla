---------------------------- MODULE WaterBalloon ----------------------------
(***************************************************************************)
(* Water balloons: persisted one-line messages (store/waterballoons.go),   *)
(* sent by an Update of the sender's program (screen_wb.go), delivered     *)
(* live through the broker or replayed from the table when the recipient   *)
(* logs in (server.makeProgramHandler), shown by Root.Update as a toast or *)
(* appended to an open conversation.                                       *)
(*                                                                         *)
(* The broker's lock appears as what it excludes: no session registers or  *)
(* unregisters while a Broker.Send walks its list (module Broker has the   *)
(* lock itself).  A balloon's text does not matter; its id is its place in *)
(* the table.                                                              *)
(***************************************************************************)
EXTENDS Naturals, Sequences, FiniteSets

CONSTANTS
    Sessions, Users,
    owner,          \* the account of each session
    NoUser,
    Typists,        \* sessions whose user throws balloons
    Readers,        \* sessions whose user opens conversations
    Droppers,       \* sessions whose client may drop the connection while in use
    Limit,          \* the limit newWBThreadModel passes (200 in the code)
    MaxBalloons     \* bound: rows in the table

ASSUME WBAssumption ==
    /\ owner \in [Sessions -> Users]
    /\ NoUser \notin Users
    /\ Typists \subseteq Sessions
    /\ Readers \subseteq Sessions
    /\ Droppers \subseteq Sessions
    /\ Limit \in Nat \ {0}
    /\ MaxBalloons \in Nat

VARIABLES
    wb,         \* the water_balloons table: id |-> from_user_id, to_user_id
    unread,     \* the ids whose read_at IS NULL
    online,     \* the sessions in the broker's map
    loop,       \* where each session's handler and event loop is
    gone,       \* sessions whose SSH context is done
    drain,      \* the replay goroutine of each session
    backlog,    \* the unread ids it has listed and not yet marked
    cur,        \* the row a submit works on
    todo,       \* sessions its Broker.Send still has to call
    hit,        \* whether Broker.Send found any session
    view,       \* counterparty of the open conversation, or NoUser
    marking,    \* ids of Root.Update's MarkRead goroutines not yet done
    shown,      \* history: ids that reached a screen of each user
    lost        \* history: ids handed to a program that had ended, or marked by
                \* the conversation of a session that left before they arrived

vars == <<wb, unread, online, loop, gone, drain, backlog, cur, todo, hit, view,
          marking, shown, lost>>

table   == <<wb, unread>>
life    == <<online, gone>>
replay  == <<drain, backlog>>
sending == <<cur, todo, hit>>
history == <<shown, lost>>

Row == [from : Users, to : Users]

LoopStates  == {"off", "new", "idle", "memo", "send", "walk", "mark", "thread", "dead"}
DrainStates == {"off", "list", "replay", "mark"}

Init ==
    /\ wb = <<>> /\ unread = {}
    /\ online = {} /\ gone = {}
    /\ loop = [s \in Sessions |-> "off"]
    /\ drain = [s \in Sessions |-> "off"]
    /\ backlog = [s \in Sessions |-> {}]
    /\ cur = [s \in Sessions |-> 0]
    /\ todo = [s \in Sessions |-> {}]
    /\ hit = [s \in Sessions |-> FALSE]
    /\ view = [s \in Sessions |-> NoUser]
    /\ marking = {}
    /\ shown = [u \in Users |-> {}]
    /\ lost = {}

-----------------------------------------------------------------------------
(* The table.  Rows are only ever inserted and marked.                     *)

Ids == DOMAIN wb

Insert(f, u) ==
    /\ wb' = Append(wb, [from |-> f, to |-> u])
    /\ unread' = unread \cup {Len(wb) + 1}

Mark(S) == unread' = unread \ S /\ UNCHANGED wb

MarkRead(id) == Mark({id})

ListUnreadFor(u) == {i \in unread : wb[i].to = u}

Between(u, v) == {i \in Ids : \/ wb[i].from = u /\ wb[i].to = v
                              \/ wb[i].from = v /\ wb[i].to = u}

\* ORDER BY id ASC LIMIT ?: the first rows of the conversation.
ListConversation(u, v) ==
    {i \in Between(u, v) : Cardinality({j \in Between(u, v) : j < i}) < Limit}

Inbound(u, v) == {i \in Ids : wb[i].to = u /\ wb[i].from = v}

MarkConversationRead(u, v) == Mark(Inbound(u, v))

-----------------------------------------------------------------------------
(* Program.Send of a WBIncomingMsg, and what Root.Update and the open      *)
(* conversation do with it.                                                *)

\* A running loop toasts the balloon and has it marked in a goroutine; an open
\* conversation with its sender appends it and marks it at once.  The message
\* to a program that has ended is lost.
Incoming(d, id) ==
    \/ /\ loop[d] = "idle"
       /\ shown' = [shown EXCEPT ![owner[d]] = @ \cup {id}]
       /\ marking' = marking \cup {id}
       /\ Mark(IF view[d] = wb[id].from THEN {id} ELSE {})
       /\ UNCHANGED lost
    \/ /\ loop[d] = "dead"
       /\ lost' = lost \cup {id}
       /\ UNCHANGED <<table, marking, shown>>

\* The goroutine Root.Update starts.
AsyncMarkRead(id) ==
    /\ id \in marking
    /\ MarkRead(id)
    /\ marking' = marking \ {id}
    /\ UNCHANGED <<loop, life, replay, sending, view, history>>

-----------------------------------------------------------------------------
(* Login, replay of the unread, logout.                                    *)

Walking == \E s \in Sessions : loop[s] = "walk"

\* The handler registers the session, then starts the replay goroutine.
Register(s) ==
    /\ loop[s] = "off" /\ ~Walking
    /\ online' = online \cup {s}
    /\ loop' = [loop EXCEPT ![s] = "new"]
    /\ drain' = [drain EXCEPT ![s] = "list"]
    /\ UNCHANGED <<table, gone, backlog, sending, view, marking, history>>

Run(s) ==
    /\ loop[s] = "new"
    /\ loop' = [loop EXCEPT ![s] = "idle"]
    /\ UNCHANGED <<table, life, replay, sending, view, marking, history>>

\* Mutant: the replay lists the balloons the user has thrown.
DrainListSent(s) ==
    /\ drain[s] = "list"
    /\ backlog' = [backlog EXCEPT ![s] = {i \in unread : wb[i].from = owner[s]}]
    /\ drain' = [drain EXCEPT ![s] = "replay"]
    /\ UNCHANGED <<table, loop, life, sending, view, marking, history>>

DrainList(s) ==
    /\ drain[s] = "list"
    /\ backlog' = [backlog EXCEPT ![s] = ListUnreadFor(owner[s])]
    /\ drain' = [drain EXCEPT ![s] = "replay"]
    /\ UNCHANGED <<table, loop, life, sending, view, marking, history>>

IsOldest(i, S) == i \in S /\ \A j \in S : i <= j

DrainSend(s) ==
    /\ drain[s] = "replay"
    /\ \E i \in backlog[s] : IsOldest(i, backlog[s]) /\ Incoming(s, i)
    /\ drain' = [drain EXCEPT ![s] = "mark"]
    /\ UNCHANGED <<loop, life, backlog, sending, view>>

\* Mutant: the replay ends after its first row.
DrainMarkStops(s) ==
    /\ drain[s] = "mark"
    /\ \E i \in backlog[s] : IsOldest(i, backlog[s]) /\ MarkRead(i)
    /\ backlog' = [backlog EXCEPT ![s] = {}]
    /\ drain' = [drain EXCEPT ![s] = "replay"]
    /\ UNCHANGED <<loop, life, sending, view, marking, history>>

DrainMark(s) ==
    /\ drain[s] = "mark"
    /\ \E i \in backlog[s] :
        /\ IsOldest(i, backlog[s])
        /\ MarkRead(i)
        /\ backlog' = [backlog EXCEPT ![s] = @ \ {i}]
    /\ drain' = [drain EXCEPT ![s] = "replay"]
    /\ UNCHANGED <<loop, life, sending, view, marking, history>>

Quit(s) ==
    /\ loop[s] = "idle"
    /\ loop' = [loop EXCEPT ![s] = "dead"]
    /\ UNCHANGED <<table, life, replay, sending, view, marking, history>>

\* The connection ends, with or without the program having ended.
HangUp(s) ==
    /\ s \notin gone
    /\ loop[s] = "dead" \/ (s \in Droppers /\ loop[s] # "off")
    /\ gone' = gone \cup {s}
    /\ UNCHANGED <<table, online, loop, replay, sending, view, marking, history>>

\* Mutant: the session leaves the map under a Send in progress.
UnregisterUnlocked(s) ==
    /\ s \in gone /\ s \in online
    /\ online' = online \ {s}
    /\ UNCHANGED <<table, loop, gone, replay, sending, view, marking, history>>

Unregister(s) ==
    /\ s \in gone /\ s \in online /\ ~Walking
    /\ online' = online \ {s}
    /\ UNCHANGED <<table, loop, gone, replay, sending, view, marking, history>>

-----------------------------------------------------------------------------
(* wbComposeModel.submit and wbThreadModel.submit, to user u.              *)

Submit(s, u) ==
    /\ s \in Typists /\ loop[s] = "idle" /\ Len(wb) < MaxBalloons
    /\ Insert(owner[s], u)
    /\ cur' = [cur EXCEPT ![s] = Len(wb) + 1]
    /\ loop' = [loop EXCEPT ![s] = IF u = owner[s] THEN "memo" ELSE "send"]
    /\ view' = [view EXCEPT ![s] = IF @ = u THEN u ELSE NoUser]
    /\ UNCHANGED <<life, replay, todo, hit, marking, history>>

Finish(s) ==
    /\ loop' = [loop EXCEPT ![s] = "idle"]
    /\ cur' = [cur EXCEPT ![s] = 0]

\* A balloon to oneself is a memo: the broker is not called.
MemoMark(s) ==
    /\ loop[s] = "memo"
    /\ MarkRead(cur[s])
    /\ Finish(s)
    /\ UNCHANGED <<life, replay, todo, hit, view, marking, history>>

SendStart(s) ==
    /\ loop[s] = "send"
    /\ LET targets == {d \in online : owner[d] = wb[cur[s]].to}
       IN  /\ todo' = [todo EXCEPT ![s] = targets]
           /\ hit' = [hit EXCEPT ![s] = targets # {}]
    /\ loop' = [loop EXCEPT ![s] = "walk"]
    /\ UNCHANGED <<table, life, replay, cur, view, marking, history>>

SendOne(s, d) ==
    /\ loop[s] = "walk" /\ d \in todo[s]
    /\ Incoming(d, cur[s])
    /\ todo' = [todo EXCEPT ![s] = @ \ {d}]
    /\ UNCHANGED <<loop, life, replay, cur, hit, view>>

\* Mutant: the row is marked whether or not Broker.Send found a session.
SendEndAlwaysMarks(s) ==
    /\ loop[s] = "walk" /\ todo[s] = {}
    /\ loop' = [loop EXCEPT ![s] = "mark"]
    /\ UNCHANGED <<table, life, replay, cur, todo, hit, view, marking, history>>

\* Broker.Send returns; "delivered" is the length of the list it found.
SendEnd(s) ==
    /\ loop[s] = "walk" /\ todo[s] = {}
    /\ \/ /\ hit[s]
          /\ loop' = [loop EXCEPT ![s] = "mark"]
          /\ UNCHANGED <<cur, lost>>
       \/ /\ ~hit[s]
          /\ lost' = IF cur[s] \in unread THEN lost ELSE lost \cup {cur[s]}
          /\ Finish(s)
    /\ UNCHANGED <<table, life, replay, todo, hit, view, marking, shown>>

SenderMark(s) ==
    /\ loop[s] = "mark"
    /\ MarkRead(cur[s])
    /\ Finish(s)
    /\ UNCHANGED <<life, replay, todo, hit, view, marking, history>>

-----------------------------------------------------------------------------
(* Conversations.                                                          *)

\* newWBThreadModel lists the conversation, ...
OpenThread(s, u) ==
    /\ s \in Readers /\ loop[s] = "idle"
    /\ view' = [view EXCEPT ![s] = u]
    /\ shown' = [shown EXCEPT ![owner[s]] = @ \cup ListConversation(owner[s], u)]
    /\ loop' = [loop EXCEPT ![s] = "thread"]
    /\ UNCHANGED <<table, life, replay, sending, marking, lost>>

\* ... then marks its inbound side.
ThreadMark(s) ==
    /\ loop[s] = "thread"
    /\ MarkConversationRead(owner[s], view[s])
    /\ lost' = IF s \in online THEN lost ELSE lost \cup Inbound(owner[s], view[s])
    /\ loop' = [loop EXCEPT ![s] = "idle"]
    /\ UNCHANGED <<life, replay, sending, view, marking, shown>>

CloseThread(s) ==
    /\ loop[s] = "idle" /\ view[s] # NoUser
    /\ view' = [view EXCEPT ![s] = NoUser]
    /\ UNCHANGED <<table, loop, life, replay, sending, marking, history>>

-----------------------------------------------------------------------------

Step(s) ==
    \/ Run(s) \/ DrainList(s) \/ DrainSend(s) \/ DrainMark(s)
    \/ MemoMark(s) \/ SendStart(s) \/ (\E d \in Sessions : SendOne(s, d))
    \/ SendEnd(s) \/ SenderMark(s) \/ ThreadMark(s) \/ Unregister(s)

User(s) ==
    \/ Register(s) \/ Quit(s) \/ HangUp(s) \/ CloseThread(s)
    \/ \E u \in Users : Submit(s, u) \/ OpenThread(s, u)

Next ==
    \/ \E s \in Sessions : Step(s) \/ User(s)
    \/ \E id \in 1..MaxBalloons : AsyncMarkRead(id)

Spec == Init /\ [][Next]_vars

(***************************************************************************)
(* Fairness: goroutines run and broker calls return (module Broker says    *)
(* when they do not).  Nothing is assumed of users, except that a user who *)
(* lost the connection cannot keep the program: wish quits it.             *)
(***************************************************************************)
Fairness ==
    /\ \A s \in Sessions : /\ WF_vars(Run(s)) /\ WF_vars(DrainList(s))
                           /\ SF_vars(DrainSend(s)) /\ WF_vars(DrainMark(s))
                           /\ SF_vars(MemoMark(s) \/ SendStart(s) \/ SendEnd(s) \/ SenderMark(s)
                                        \/ ThreadMark(s) \/ (\E d \in Sessions : SendOne(s, d)))
                           /\ SF_vars(s \in gone /\ Quit(s)) /\ SF_vars(Unregister(s))
    /\ WF_vars(\E id \in 1..MaxBalloons : AsyncMarkRead(id))

FairSpec == Spec /\ Fairness

-----------------------------------------------------------------------------
(* Properties.                                                             *)

\* Every variable holds a value of its type.
TypeOK ==
    /\ wb \in Seq(Row)
    /\ unread \in SUBSET Ids
    /\ online \in SUBSET Sessions
    /\ gone \in SUBSET Sessions
    /\ loop \in [Sessions -> LoopStates]
    /\ drain \in [Sessions -> DrainStates]
    /\ backlog \in [Sessions -> SUBSET Ids]
    /\ cur \in [Sessions -> Nat]
    /\ todo \in [Sessions -> SUBSET Sessions]
    /\ hit \in [Sessions -> BOOLEAN]
    /\ view \in [Sessions -> Users \cup {NoUser}]
    /\ marking \in SUBSET Ids
    /\ shown \in [Users -> SUBSET Ids]
    /\ lost \in SUBSET Ids

\* A submit is still working on the row: its Update has not returned.
InFlight(id) == \E s \in Sessions : cur[s] = id

\* No balloon is stranded: once a session has listed its backlog, every unread
\* balloon of its user is either still in that backlog or still in the hands of
\* its sender.  Live delivery and replay leave no gap between them, because the
\* session registers before it lists and the sender inserts before it sends.
NothingStranded ==
    \A s \in online : \A id \in unread :
        (/\ drain[s] \in {"replay", "mark"}
         /\ wb[id].to = owner[s]
         /\ ~InFlight(id)) => id \in backlog[s]

\* A balloon marked read was shown to its recipient, will be (its sender or a
\* replay still holds it), is a memo, or fell to a session that had ended.  The
\* exception is a row past the limit of its conversation: MarkConversationRead
\* marks it although ListConversation, which keeps the oldest, left it out.
LostOnlyToEndedSessions ==
    \A id \in Ids \ unread :
        \/ wb[id].from = wb[id].to
        \/ id \in shown[wb[id].to] \cup lost
        \/ InFlight(id)
        \/ \E s \in Sessions : owner[s] = wb[id].to /\ id \in backlog[s]
        \/ id \notin ListConversation(wb[id].to, wb[id].from)

\* The broker as the balloons use it (module Registry, which Broker implements).
registry == INSTANCE Registry WITH
    sessions <- online,
    walking  <- {s \in Sessions : loop[s] = "walk"}

\* The balloons ask no more of the broker than it provides: sessions come and go
\* between two Sends only, a Send calls once each session of its recipient that was
\* online when it began, and submit never sends to its own account (screen_wb.go).
RegistrySpec == registry!Spec

\* A balloon to a user who is online and stays online is settled: live delivery
\* or the replay gets it marked.
OnlineUserGetsBalloon ==
    \A s \in Sessions : \A id \in 1..MaxBalloons :
        (id \in Ids /\ s \in online /\ owner[s] = wb[id].to)
            ~> (s \notin online \/ id \notin unread)

=============================================================================
