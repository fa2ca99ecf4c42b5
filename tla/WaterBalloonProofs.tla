------------------------- MODULE WaterBalloonProofs -------------------------
(***************************************************************************)
(* What WaterBalloon promises, for every set of users and sessions, any     *)
(* number of balloons and any limit: NothingStranded, LostOnlyToEnded-     *)
(* Sessions, and that its broker is the one Broker implements.             *)
(*                                                                         *)
(* NothingStranded: a balloon is in flight from its insertion until Broker.*)
(* Send has returned and, if a session was found, the row was marked.  If  *)
(* none was found, none registers before Send returns (the lock), so every *)
(* session of the recipient registers, and lists its backlog, afterwards.  *)
(***************************************************************************)
EXTENDS WaterBalloon, TLAPS

\* A session has a row in hand exactly while its Update works on a submit.
CurInHand ==
    \A s \in Sessions :
        IF loop[s] \in {"memo", "send", "walk", "mark"} THEN cur[s] \in Ids ELSE cur[s] = 0

\* While a Send that found nobody has not returned, there is nobody to find.
MissIsStable ==
    \A s \in Sessions :
        (loop[s] = "walk" /\ ~hit[s]) => \A d \in online : owner[d] # wb[cur[s]].to

IInv ==
    /\ TypeOK
    /\ CurInHand
    /\ MissIsStable
    /\ NothingStranded

-----------------------------------------------------------------------------

\* The initial state satisfies the inductive invariant.
LEMMA InitIInv == Init => IInv
  BY WBAssumption DEF Init, IInv, TypeOK, CurInHand, MissIsStable, NothingStranded,
                      Ids, Row, LoopStates, DrainStates

\* Insert adds one unread row at the end of the table.
LEMMA InsertFacts ==
    ASSUME wb \in Seq(Row), NEW f \in Users, NEW u \in Users, Insert(f, u)
    PROVE  /\ wb' \in Seq(Row)
           /\ Ids' = Ids \cup {Len(wb) + 1}
           /\ Len(wb) + 1 \in Nat \ (Ids \cup {0})
           /\ \A i \in Ids : wb'[i] = wb[i]
           /\ unread' = unread \cup {Len(wb) + 1}
  BY DEF Insert, Row, Ids

\* Every action, and stuttering, preserves the inductive invariant.
LEMMA NextIInv == IInv /\ [Next]_vars => IInv'
<1> USE WBAssumption DEF LoopStates, DrainStates, table, life, replay, sending, history
<1> SUFFICES ASSUME IInv, [Next]_vars PROVE IInv'
  OBVIOUS
<1>0. TypeOK /\ CurInHand /\ MissIsStable /\ NothingStranded
  BY DEF IInv
<1>a. UNCHANGED wb => Ids' = Ids
  BY DEF Ids
<1>1. ASSUME NEW s \in Sessions, Register(s) PROVE IInv'
  <2>1. TypeOK'
    BY <1>0, <1>a, <1>1 DEF TypeOK, Register
  <2>2. CurInHand'
    BY <1>0, <1>a, <1>1 DEF TypeOK, CurInHand, Register
  <2>3. MissIsStable'
    BY <1>0, <1>1 DEF TypeOK, MissIsStable, Register, Walking
  <2>4. NothingStranded'
    BY <1>0, <1>1 DEF TypeOK, NothingStranded, InFlight, Register
  <2> QED
    BY <2>1, <2>2, <2>3, <2>4 DEF IInv
<1>2. ASSUME NEW s \in Sessions, Run(s) PROVE IInv'
  <2>1. TypeOK'
    BY <1>0, <1>a, <1>2 DEF TypeOK, Run
  <2>2. CurInHand'
    BY <1>0, <1>a, <1>2 DEF TypeOK, CurInHand, Run
  <2>3. MissIsStable'
    BY <1>0, <1>2 DEF TypeOK, MissIsStable, Run
  <2>4. NothingStranded'
    BY <1>0, <1>2 DEF TypeOK, NothingStranded, InFlight, Run
  <2> QED
    BY <2>1, <2>2, <2>3, <2>4 DEF IInv
<1>3. ASSUME NEW s \in Sessions, DrainList(s) PROVE IInv'
  <2>1. TypeOK'
    BY <1>0, <1>a, <1>3 DEF TypeOK, DrainList, ListUnreadFor
  <2>2. CurInHand'
    BY <1>0, <1>a, <1>3 DEF CurInHand, DrainList
  <2>3. MissIsStable'
    BY <1>0, <1>3 DEF MissIsStable, DrainList
  <2>4. NothingStranded'
    BY <1>0, <1>3 DEF TypeOK, NothingStranded, InFlight, DrainList, ListUnreadFor
  <2> QED
    BY <2>1, <2>2, <2>3, <2>4 DEF IInv
<1>4. ASSUME NEW s \in Sessions, DrainMark(s) PROVE IInv'
  <2>1. TypeOK'
    BY <1>0, <1>a, <1>4 DEF TypeOK, DrainMark, MarkRead, Mark
  <2>2. CurInHand'
    BY <1>0, <1>a, <1>4 DEF CurInHand, DrainMark, MarkRead, Mark
  <2>3. MissIsStable'
    BY <1>0, <1>4 DEF MissIsStable, DrainMark, MarkRead, Mark
  <2>4. NothingStranded'
    BY <1>0, <1>4 DEF NothingStranded, InFlight, DrainMark, MarkRead, Mark
  <2> QED
    BY <2>1, <2>2, <2>3, <2>4 DEF IInv
<1>5. ASSUME NEW s \in Sessions, Quit(s) PROVE IInv'
  <2>1. TypeOK'
    BY <1>0, <1>a, <1>5 DEF TypeOK, Quit
  <2>2. CurInHand'
    BY <1>0, <1>a, <1>5 DEF TypeOK, CurInHand, Quit
  <2>3. MissIsStable'
    BY <1>0, <1>5 DEF TypeOK, MissIsStable, Quit
  <2>4. NothingStranded'
    BY <1>0, <1>5 DEF TypeOK, NothingStranded, InFlight, Quit
  <2> QED
    BY <2>1, <2>2, <2>3, <2>4 DEF IInv
<1>6. ASSUME NEW s \in Sessions, HangUp(s) PROVE IInv'
  <2>1. TypeOK'
    BY <1>0, <1>a, <1>6 DEF TypeOK, HangUp
  <2>2. CurInHand'
    BY <1>0, <1>a, <1>6 DEF CurInHand, HangUp
  <2>3. MissIsStable'
    BY <1>0, <1>6 DEF MissIsStable, HangUp
  <2>4. NothingStranded'
    BY <1>0, <1>6 DEF NothingStranded, InFlight, HangUp
  <2> QED
    BY <2>1, <2>2, <2>3, <2>4 DEF IInv
<1>7. ASSUME NEW s \in Sessions, Unregister(s) PROVE IInv'
  <2>1. TypeOK'
    BY <1>0, <1>a, <1>7 DEF TypeOK, Unregister
  <2>2. CurInHand'
    BY <1>0, <1>a, <1>7 DEF CurInHand, Unregister
  <2>3. MissIsStable'
    BY <1>0, <1>7 DEF MissIsStable, Unregister
  <2>4. NothingStranded'
    BY <1>0, <1>7 DEF NothingStranded, InFlight, Unregister
  <2> QED
    BY <2>1, <2>2, <2>3, <2>4 DEF IInv
<1>8. ASSUME NEW s \in Sessions, MemoMark(s) PROVE IInv'
  <2>1. TypeOK'
    BY <1>0, <1>a, <1>8 DEF TypeOK, MemoMark, MarkRead, Mark, Finish
  <2>2. CurInHand'
    BY <1>0, <1>a, <1>8 DEF TypeOK, CurInHand, MemoMark, MarkRead, Mark, Finish
  <2>3. MissIsStable'
    BY <1>0, <1>8 DEF TypeOK, MissIsStable, MemoMark, MarkRead, Mark, Finish
  <2>4. NothingStranded'
    BY <1>0, <1>8 DEF TypeOK, NothingStranded, InFlight, MemoMark, MarkRead, Mark, Finish
  <2> QED
    BY <2>1, <2>2, <2>3, <2>4 DEF IInv
<1>9. ASSUME NEW s \in Sessions, SendStart(s) PROVE IInv'
  <2>1. TypeOK'
    BY <1>0, <1>a, <1>9 DEF TypeOK, SendStart
  <2>2. CurInHand'
    BY <1>0, <1>a, <1>9 DEF TypeOK, CurInHand, SendStart
  <2>3. MissIsStable'
    BY <1>0, <1>9 DEF TypeOK, MissIsStable, SendStart
  <2>4. NothingStranded'
    BY <1>0, <1>9 DEF TypeOK, NothingStranded, InFlight, SendStart
  <2> QED
    BY <2>1, <2>2, <2>3, <2>4 DEF IInv
<1>10. ASSUME NEW s \in Sessions, SendEnd(s) PROVE IInv'
  <2>1. TypeOK'
    <3>1. cur[s] \in Ids
      BY <1>0, <1>10 DEF CurInHand, SendEnd
    <3>2. lost' \in SUBSET Ids
      BY <1>0, <1>10, <3>1 DEF TypeOK, SendEnd
    <3>3. loop' \in [Sessions -> LoopStates] /\ cur' \in [Sessions -> Nat]
      <4>1. CASE UNCHANGED cur /\ loop' = [loop EXCEPT ![s] = "mark"]
        BY <1>0, <4>1 DEF TypeOK
      <4>2. CASE Finish(s)
        BY <1>0, <4>2 DEF TypeOK, Finish
      <4> QED
        BY <1>10, <4>1, <4>2 DEF SendEnd
    <3>4. UNCHANGED <<wb, unread, online, gone, drain, backlog, todo, hit, view, marking, shown>>
      BY <1>10 DEF SendEnd
    <3> QED
      BY <1>0, <1>a, <3>2, <3>3, <3>4 DEF TypeOK
  <2>2. CurInHand'
    BY <1>0, <1>a, <1>10 DEF TypeOK, CurInHand, SendEnd, Finish
  <2>3. MissIsStable'
    BY <1>0, <1>10 DEF TypeOK, MissIsStable, SendEnd, Finish
  <2>4. NothingStranded'
    BY <1>0, <1>10 DEF TypeOK, MissIsStable, NothingStranded, InFlight, SendEnd, Finish
  <2> QED
    BY <2>1, <2>2, <2>3, <2>4 DEF IInv
<1>11. ASSUME NEW s \in Sessions, SenderMark(s) PROVE IInv'
  <2>1. TypeOK'
    BY <1>0, <1>a, <1>11 DEF TypeOK, SenderMark, MarkRead, Mark, Finish
  <2>2. CurInHand'
    BY <1>0, <1>a, <1>11 DEF TypeOK, CurInHand, SenderMark, MarkRead, Mark, Finish
  <2>3. MissIsStable'
    BY <1>0, <1>11 DEF TypeOK, MissIsStable, SenderMark, MarkRead, Mark, Finish
  <2>4. NothingStranded'
    BY <1>0, <1>11 DEF TypeOK, NothingStranded, InFlight, SenderMark, MarkRead, Mark, Finish
  <2> QED
    BY <2>1, <2>2, <2>3, <2>4 DEF IInv
<1>12. ASSUME NEW s \in Sessions, ThreadMark(s) PROVE IInv'
  <2>1. TypeOK'
    BY <1>0, <1>a, <1>12 DEF TypeOK, ThreadMark, MarkConversationRead, Mark, Inbound
  <2>2. CurInHand'
    BY <1>0, <1>a, <1>12 DEF CurInHand, ThreadMark, MarkConversationRead, Mark
  <2>3. MissIsStable'
    BY <1>0, <1>12 DEF MissIsStable, ThreadMark, MarkConversationRead, Mark
  <2>4. NothingStranded'
    BY <1>0, <1>12 DEF NothingStranded, InFlight, ThreadMark, MarkConversationRead, Mark
  <2> QED
    BY <2>1, <2>2, <2>3, <2>4 DEF IInv
<1>13. ASSUME NEW s \in Sessions, CloseThread(s) PROVE IInv'
  <2>1. TypeOK'
    BY <1>0, <1>a, <1>13 DEF TypeOK, CloseThread
  <2>2. CurInHand'
    BY <1>0, <1>a, <1>13 DEF CurInHand, CloseThread
  <2>3. MissIsStable'
    BY <1>0, <1>13 DEF MissIsStable, CloseThread
  <2>4. NothingStranded'
    BY <1>0, <1>13 DEF NothingStranded, InFlight, CloseThread
  <2> QED
    BY <2>1, <2>2, <2>3, <2>4 DEF IInv
<1>14. ASSUME NEW s \in Sessions, DrainSend(s) PROVE IInv'
  <2>1. TypeOK'
    <3>1. PICK i \in backlog[s] : Incoming(s, i)
      BY <1>14 DEF DrainSend
    <3>2. i \in Ids
      BY <1>0, <3>1 DEF TypeOK
    <3>3. /\ unread' \in SUBSET Ids /\ marking' \in SUBSET Ids
          /\ shown' \in [Users -> SUBSET Ids] /\ lost' \in SUBSET Ids
      BY <1>0, <3>1, <3>2 DEF TypeOK, Incoming, Mark
    <3>4. UNCHANGED wb
      BY <3>1 DEF Incoming, Mark
    <3>5. /\ drain' \in [Sessions -> DrainStates]
          /\ UNCHANGED <<online, gone, loop, backlog, cur, todo, hit, view>>
      BY <1>0, <1>14 DEF TypeOK, DrainSend
    <3> QED
      BY <1>0, <1>a, <3>3, <3>4, <3>5 DEF TypeOK
  <2>2. CurInHand'
    BY <1>0, <1>a, <1>14 DEF CurInHand, DrainSend, Incoming, Mark
  <2>3. MissIsStable'
    BY <1>0, <1>14 DEF MissIsStable, DrainSend, Incoming, Mark
  <2>4. NothingStranded'
    BY <1>0, <1>14 DEF NothingStranded, InFlight, DrainSend, Incoming, Mark
  <2> QED
    BY <2>1, <2>2, <2>3, <2>4 DEF IInv
<1>15. ASSUME NEW s \in Sessions, NEW d \in Sessions, SendOne(s, d) PROVE IInv'
  <2>1. TypeOK'
    BY <1>0, <1>a, <1>15 DEF TypeOK, CurInHand, SendOne, Incoming, Mark
  <2>2. CurInHand'
    BY <1>0, <1>a, <1>15 DEF CurInHand, SendOne, Incoming, Mark
  <2>3. MissIsStable'
    BY <1>0, <1>15 DEF MissIsStable, SendOne, Incoming, Mark
  <2>4. NothingStranded'
    BY <1>0, <1>15 DEF NothingStranded, InFlight, SendOne, Incoming, Mark
  <2> QED
    BY <2>1, <2>2, <2>3, <2>4 DEF IInv
<1>16. ASSUME NEW s \in Sessions, NEW u \in Users, OpenThread(s, u) PROVE IInv'
  <2>1. TypeOK'
    BY <1>0, <1>a, <1>16 DEF TypeOK, OpenThread, ListConversation, Between
  <2>2. CurInHand'
    BY <1>0, <1>a, <1>16 DEF CurInHand, OpenThread
  <2>3. MissIsStable'
    BY <1>0, <1>16 DEF MissIsStable, OpenThread
  <2>4. NothingStranded'
    BY <1>0, <1>16 DEF NothingStranded, InFlight, OpenThread
  <2> QED
    BY <2>1, <2>2, <2>3, <2>4 DEF IInv
<1>17. ASSUME NEW id \in 1..MaxBalloons, AsyncMarkRead(id) PROVE IInv'
  <2>1. TypeOK'
    BY <1>0, <1>a, <1>17 DEF TypeOK, AsyncMarkRead, MarkRead, Mark
  <2>2. CurInHand'
    BY <1>0, <1>a, <1>17 DEF CurInHand, AsyncMarkRead, MarkRead, Mark
  <2>3. MissIsStable'
    BY <1>0, <1>17 DEF MissIsStable, AsyncMarkRead, MarkRead, Mark
  <2>4. NothingStranded'
    BY <1>0, <1>17 DEF NothingStranded, InFlight, AsyncMarkRead, MarkRead, Mark
  <2> QED
    BY <2>1, <2>2, <2>3, <2>4 DEF IInv
<1>18. ASSUME NEW s \in Sessions, NEW u \in Users, Submit(s, u) PROVE IInv'
  <2> DEFINE new == Len(wb) + 1
  <2>0. /\ wb' \in Seq(Row)
        /\ Ids' = Ids \cup {new}
        /\ new \in Nat \ (Ids \cup {0})
        /\ \A i \in Ids : wb'[i] = wb[i]
        /\ unread' = unread \cup {new}
    <3>1. Insert(owner[s], u) /\ wb \in Seq(Row) /\ owner[s] \in Users
      BY <1>0, <1>18 DEF TypeOK, Submit
    <3> QED
      BY <3>1, InsertFacts
  <2> HIDE DEF new
  <2>1. /\ cur' = [cur EXCEPT ![s] = new]
        /\ loop' = [loop EXCEPT ![s] = IF u = owner[s] THEN "memo" ELSE "send"]
        /\ UNCHANGED <<online, drain, backlog, hit>>
    BY <1>18 DEF Submit, new
  <2>2. TypeOK'
    BY <1>0, <1>18, <2>0, <2>1 DEF TypeOK, Submit
  <2>3. CurInHand'
    BY <1>0, <1>18, <2>0, <2>1 DEF TypeOK, CurInHand, Submit
  <2>4. MissIsStable'
    BY <1>0, <2>0, <2>1 DEF TypeOK, CurInHand, MissIsStable
  <2>5. NothingStranded'
    <3> SUFFICES ASSUME NEW d \in online, NEW id \in unread \cup {new},
                        drain[d] \in {"replay", "mark"},
                        wb'[id].to = owner[d], ~InFlight(id)'
                 PROVE  id \in backlog[d]
      BY <2>0, <2>1 DEF NothingStranded
    <3>1. cur'[s] = new /\ cur[s] = 0
      BY <1>0, <1>18, <2>1 DEF TypeOK, CurInHand, Submit
    <3>2. id # new
      BY <3>1 DEF InFlight
    <3>3. id \in unread /\ id # 0 /\ wb'[id] = wb[id]
      BY <1>0, <2>0, <3>2 DEF TypeOK, Ids
    <3>4. \A x \in Sessions : cur[x] # id
      BY <2>1, <3>1, <3>3 DEF InFlight
    <3> QED
      BY <1>0, <3>3, <3>4 DEF NothingStranded, InFlight
  <2> QED
    BY <2>2, <2>3, <2>4, <2>5 DEF IInv
<1>19. CASE UNCHANGED vars
  BY <1>0, <1>a, <1>19 DEF vars, IInv, TypeOK, CurInHand, MissIsStable, NothingStranded, InFlight
<1> QED
  BY <1>1, <1>2, <1>3, <1>4, <1>5, <1>6, <1>7, <1>8, <1>9, <1>10, <1>11, <1>12, <1>13, <1>14, <1>15, <1>16, <1>17, <1>18, <1>19
     DEF Next, Step, User

\* The inductive invariant holds in every reachable state.
THEOREM WaterBalloonInvariant == Spec => []IInv
  BY InitIInv, NextIInv, PTL DEF Spec

\* Every variable keeps its type.
THEOREM WaterBalloonTypeOK == Spec => []TypeOK
<1>1. IInv => TypeOK
  BY DEF IInv
<1> QED
  BY <1>1, WaterBalloonInvariant, PTL

\* Live delivery and replay leave no gap: no unread balloon of an online user is
\* out of reach of both its sender and the replay of each listed session.
THEOREM NoBalloonStranded == Spec => []NothingStranded
<1>1. IInv => NothingStranded
  BY DEF IInv
<1> QED
  BY <1>1, WaterBalloonInvariant, PTL

-----------------------------------------------------------------------------
(***************************************************************************)
(* LostOnlyToEndedSessions.  Whoever marks a row marks a settled one: the   *)
(* sender after a session of the recipient took the balloon, the replay    *)
(* after its program took it, the goroutine of Root.Update after the toast. *)
(* The exception is a conversation, which marks rows it may not have       *)
(* listed.  A row inserted after it listed was sent while its session was  *)
(* registered, and Broker.Send is blocked on that session until its Update *)
(* has returned: the row is still in flight when it is marked.             *)
(***************************************************************************)

\* The rows that need no more care: memos, rows their recipient saw, and rows
\* that fell to a session that had ended.
Settled ==
    {id \in Ids : wb[id].from = wb[id].to \/ id \in shown[wb[id].to] \cup lost}

\* The rows ListConversation leaves out of their conversation.
PastLimit == {id \in Ids : id \notin ListConversation(wb[id].to, wb[id].from)}

\* The rows a submit or a replay still works on.
Held ==
    {id \in Ids : \/ InFlight(id)
                  \/ \E s \in Sessions : owner[s] = wb[id].to /\ id \in backlog[s]}

\* Broker.Send calls sessions of the recipient only.
CallsRecipient ==
    \A s \in Sessions :
        loop[s] = "walk" => \A d \in todo[s] : owner[d] = wb[cur[s]].to

\* A submit marks a memo, or a balloon that some session took.
SendSettles ==
    \A s \in Sessions :
        /\ loop[s] = "memo" => wb[cur[s]].from = wb[cur[s]].to
        /\ (loop[s] = "walk" /\ hit[s]) => (todo[s] # {} \/ cur[s] \in Settled)
        /\ loop[s] = "mark" => cur[s] \in Settled

\* A session has a backlog only once it has listed it, after registering.
BacklogListed ==
    \A s \in Sessions :
        /\ loop[s] = "off" => drain[s] = "off"
        /\ drain[s] \in {"off", "list"} => backlog[s] = {}

\* The replay handles its own user's balloons and marks what it has sent.
ReplaySettles ==
    \A s \in Sessions :
        /\ \A i \in backlog[s] : wb[i].to = owner[s]
        /\ drain[s] = "mark" => \A i \in backlog[s] : IsOldest(i, backlog[s]) => i \in Settled

\* Between the two queries of newWBThreadModel: an inbound row that was not on
\* the list is on its way to this very session.
ThreadCovers ==
    \A s \in online : loop[s] = "thread" =>
        \A id \in Inbound(owner[s], view[s]) :
            \/ id \in Settled \cup PastLimit
            \/ \E x \in Sessions :
                  cur[x] = id /\ (loop[x] = "send" \/ (loop[x] = "walk" /\ s \in todo[x]))

SeenInv ==
    /\ CallsRecipient
    /\ SendSettles
    /\ BacklogListed
    /\ ReplaySettles
    /\ marking \subseteq Settled
    /\ ThreadCovers
    /\ Ids \ unread \subseteq Settled \cup Held \cup PastLimit

\* LostOnlyToEndedSessions in terms of these sets.
LEMMA SeenInvSuffices == SeenInv => LostOnlyToEndedSessions
  BY DEF SeenInv, LostOnlyToEndedSessions, Settled, Held, PastLimit

\* The initial state satisfies it: there are no rows.
LEMMA InitSeen == Init => SeenInv
  BY DEF Init, SeenInv, CallsRecipient, SendSettles, BacklogListed, ReplaySettles,
         ThreadCovers, Ids, Settled, Held, PastLimit

\* What is settled stays settled, and what is past the limit stays past it, in a
\* step that leaves the rows alone and takes nothing from the history.
LEMMA RowsStay ==
    ASSUME TypeOK, UNCHANGED wb, lost \subseteq lost',
           \A u \in Users : shown[u] \subseteq shown'[u]
    PROVE  /\ Ids' = Ids
           /\ Settled \subseteq Settled'
           /\ PastLimit' = PastLimit
<1>1. Ids' = Ids
  BY DEF Ids
<1>2. \A i \in Ids : wb[i] \in Row
  BY DEF TypeOK, Ids
<1>3. Settled \subseteq Settled'
  BY <1>1, <1>2 DEF Settled, Row
<1>4. PastLimit' = PastLimit
  BY <1>1 DEF PastLimit, ListConversation, Between
<1> QED
  BY <1>1, <1>3, <1>4

\* An inserted row has the largest id: the place of the others in their
\* conversations does not change.
LEMMA InsertKeepsPlaces ==
    ASSUME TypeOK, NEW f \in Users, NEW u \in Users, Insert(f, u), UNCHANGED <<shown, lost>>
    PROVE  Settled \subseteq Settled' /\ PastLimit \subseteq PastLimit'
<1>1. /\ Ids' = Ids \cup {Len(wb) + 1}
      /\ \A i \in Ids : wb'[i] = wb[i]
  BY InsertFacts DEF TypeOK
<1>2. \A i \in Ids : i \in Nat /\ i < Len(wb) + 1
  BY DEF TypeOK, Ids
<1>3. Settled \subseteq Settled'
  BY <1>1 DEF Settled
<1>4. \A v, w : \A i \in Ids : {j \in Between(v, w)' : j < i} = {j \in Between(v, w) : j < i}
  <2> SUFFICES ASSUME NEW v, NEW w, NEW i \in Ids
               PROVE  {j \in Between(v, w)' : j < i} = {j \in Between(v, w) : j < i}
    OBVIOUS
  <2>1. ~(Len(wb) + 1 < i)
    BY <1>2 DEF TypeOK
  <2>2. \A j : (j \in Between(v, w)' /\ j < i) <=> (j \in Between(v, w) /\ j < i)
    BY <1>1, <2>1 DEF Between
  <2> QED
    BY <2>2
<1>5. \A v, w : \A i \in Ids : i \in Between(v, w)' => i \in Between(v, w)
  BY <1>1 DEF Between
<1>6. \A v, w : \A i \in Ids : i \in ListConversation(v, w)' => i \in ListConversation(v, w)
  BY <1>4, <1>5 DEF ListConversation
<1>7. PastLimit \subseteq PastLimit'
  BY <1>1, <1>6 DEF PastLimit
<1> QED
  BY <1>3, <1>7

\* A session that takes a balloon of its user settles it.
LEMMA IncomingSettles ==
    ASSUME TypeOK, NEW d \in Sessions, NEW id \in Ids, wb[id].to = owner[d], Incoming(d, id)
    PROVE  id \in Settled' /\ marking' \subseteq marking \cup {id} /\ unread \ unread' \subseteq {id}
<1>1. Ids' = Ids /\ wb' = wb
  BY DEF Incoming, Mark, table, Ids
<1>2. owner[d] \in Users
  BY WBAssumption
<1>3. id \in shown'[owner[d]] \cup lost'
  BY <1>2 DEF Incoming, TypeOK
<1>4. id \in Settled'
  BY <1>1, <1>3 DEF Settled
<1> QED
  BY <1>4 DEF Incoming, Mark, table

\* Every action, and stuttering, preserves it.
LEMMA NextSeen == IInv /\ SeenInv /\ [Next]_vars => SeenInv'
<1> USE WBAssumption DEF LoopStates, DrainStates, table, life, replay, sending, history
<1> SUFFICES ASSUME IInv, SeenInv, [Next]_vars PROVE SeenInv'
  OBVIOUS
<1>0. TypeOK /\ CurInHand
  BY DEF IInv
<1>b. /\ CallsRecipient /\ SendSettles /\ BacklogListed /\ ReplaySettles
      /\ marking \subseteq Settled /\ ThreadCovers
      /\ Ids \ unread \subseteq Settled \cup Held \cup PastLimit
  BY DEF SeenInv
<1>1. ASSUME NEW s \in Sessions, Register(s) PROVE SeenInv'
  <2>0. Ids' = Ids /\ wb' = wb /\ Settled \subseteq Settled' /\ PastLimit' = PastLimit
    BY <1>0, <1>1, RowsStay DEF Register
  <2>1. CallsRecipient'
    BY <1>0, <1>b, <1>1 DEF TypeOK, CallsRecipient, Register
  <2>2. SendSettles'
    BY <1>0, <1>b, <1>1, <2>0 DEF TypeOK, SendSettles, Register
  <2>3. BacklogListed'
    BY <1>0, <1>b, <1>1 DEF TypeOK, BacklogListed, Register
  <2>4. ReplaySettles'
    BY <1>0, <1>b, <1>1, <2>0 DEF TypeOK, ReplaySettles, Register
  <2>5. (marking \subseteq Settled)'
    BY <1>b, <1>1, <2>0 DEF Register
  <2>6. ThreadCovers'
    <3> SUFFICES ASSUME NEW t \in online', loop'[t] = "thread",
                        NEW id \in Inbound(owner[t], view[t])', id \notin Settled' \cup PastLimit'
                 PROVE  \E x \in Sessions :
                            /\ cur'[x] = id
                            /\ loop'[x] = "send" \/ (loop'[x] = "walk" /\ t \in todo'[x])
      BY DEF ThreadCovers
    <3>1. t \in online /\ loop[t] = "thread" /\ id \in Inbound(owner[t], view[t])
      BY <1>0, <1>1, <2>0 DEF TypeOK, Register, Inbound
    <3>2. PICK x \in Sessions : cur[x] = id /\ (loop[x] = "send" \/ (loop[x] = "walk" /\ t \in todo[x]))
      BY <1>b, <2>0, <3>1 DEF ThreadCovers
    <3>3. x # s
      BY <1>1, <3>1, <3>2 DEF Register
    <3> QED
      BY <1>0, <1>1, <3>2, <3>3 DEF TypeOK, Register
  <2>7. (Ids \ unread \subseteq Settled \cup Held \cup PastLimit)'
    BY <1>b, <1>1, <2>0 DEF Held, InFlight, Register
  <2> QED
    BY <2>1, <2>2, <2>3, <2>4, <2>5, <2>6, <2>7 DEF SeenInv
<1>2. ASSUME NEW s \in Sessions, Run(s) PROVE SeenInv'
  <2>0. Ids' = Ids /\ wb' = wb /\ Settled \subseteq Settled' /\ PastLimit' = PastLimit
    BY <1>0, <1>2, RowsStay DEF Run
  <2>1. CallsRecipient'
    BY <1>0, <1>b, <1>2 DEF TypeOK, CallsRecipient, Run
  <2>2. SendSettles'
    BY <1>0, <1>b, <1>2, <2>0 DEF TypeOK, SendSettles, Run
  <2>3. BacklogListed'
    BY <1>0, <1>b, <1>2 DEF TypeOK, BacklogListed, Run
  <2>4. ReplaySettles'
    BY <1>0, <1>b, <1>2, <2>0 DEF TypeOK, ReplaySettles, Run
  <2>5. (marking \subseteq Settled)'
    BY <1>b, <1>2, <2>0 DEF Run
  <2>6. ThreadCovers'
    BY <1>0, <1>b, <1>2, <2>0 DEF TypeOK, ThreadCovers, Run, Inbound
  <2>7. (Ids \ unread \subseteq Settled \cup Held \cup PastLimit)'
    BY <1>b, <1>2, <2>0 DEF Held, InFlight, Run
  <2> QED
    BY <2>1, <2>2, <2>3, <2>4, <2>5, <2>6, <2>7 DEF SeenInv
<1>3. ASSUME NEW s \in Sessions, DrainList(s) PROVE SeenInv'
  <2>0. Ids' = Ids /\ wb' = wb /\ Settled \subseteq Settled' /\ PastLimit' = PastLimit
    BY <1>0, <1>3, RowsStay DEF DrainList
  <2>1. CallsRecipient'
    BY <1>b, <1>3 DEF CallsRecipient, DrainList
  <2>2. SendSettles'
    BY <1>b, <1>3, <2>0 DEF SendSettles, DrainList
  <2>3. BacklogListed'
    BY <1>0, <1>b, <1>3 DEF TypeOK, BacklogListed, DrainList
  <2>4. ReplaySettles'
    BY <1>b, <1>3, <2>0 DEF ReplaySettles, DrainList, ListUnreadFor
  <2>5. (marking \subseteq Settled)'
    BY <1>b, <1>3, <2>0 DEF DrainList
  <2>6. ThreadCovers'
    BY <1>b, <1>3, <2>0 DEF ThreadCovers, DrainList, Inbound
  <2>7. (Ids \ unread \subseteq Settled \cup Held \cup PastLimit)'
    <3>1. Held \subseteq Held'
      <4>1. \A t \in Sessions : backlog[t] \subseteq backlog'[t]
        BY <1>b, <1>3 DEF BacklogListed, DrainList
      <4> QED
        BY <1>3, <2>0, <4>1 DEF Held, InFlight, DrainList
    <3> QED
      BY <1>b, <1>3, <2>0, <3>1 DEF DrainList
  <2> QED
    BY <2>1, <2>2, <2>3, <2>4, <2>5, <2>6, <2>7 DEF SeenInv
<1>4. ASSUME NEW s \in Sessions, DrainMark(s) PROVE SeenInv'
  <2>0. Ids' = Ids /\ wb' = wb /\ Settled \subseteq Settled' /\ PastLimit' = PastLimit
    BY <1>0, <1>4, RowsStay DEF DrainMark, MarkRead, Mark
  <2>1. CallsRecipient'
    BY <1>b, <1>4, <2>0 DEF CallsRecipient, DrainMark
  <2>2. SendSettles'
    BY <1>b, <1>4, <2>0 DEF SendSettles, DrainMark
  <2>3. BacklogListed'
    BY <1>b, <1>4 DEF BacklogListed, DrainMark
  <2>4. ReplaySettles'
    BY <1>0, <1>b, <1>4, <2>0 DEF TypeOK, ReplaySettles, DrainMark
  <2>5. (marking \subseteq Settled)'
    BY <1>b, <1>4, <2>0 DEF DrainMark
  <2>6. ThreadCovers'
    BY <1>b, <1>4, <2>0 DEF ThreadCovers, DrainMark, Inbound
  <2>7. (Ids \ unread \subseteq Settled \cup Held \cup PastLimit)'
    <3>1. PICK i \in backlog[s] : /\ IsOldest(i, backlog[s]) /\ MarkRead(i)
                                 /\ backlog' = [backlog EXCEPT ![s] = @ \ {i}]
      BY <1>4 DEF DrainMark
    <3>2. i \in Settled
      BY <1>b, <1>4, <3>1 DEF ReplaySettles, DrainMark
    <3>3. Held \subseteq Held' \cup {i}
      <4>1. \A t \in Sessions : backlog[t] \subseteq backlog'[t] \cup {i}
        BY <3>1
      <4> QED
        BY <1>4, <2>0, <4>1 DEF Held, InFlight, DrainMark
    <3>4. unread \subseteq unread' \cup {i}
      BY <3>1 DEF MarkRead, Mark
    <3> QED
      BY <1>b, <2>0, <3>2, <3>3, <3>4
  <2> QED
    BY <2>1, <2>2, <2>3, <2>4, <2>5, <2>6, <2>7 DEF SeenInv
<1>5. ASSUME NEW s \in Sessions, Quit(s) PROVE SeenInv'
  <2>0. Ids' = Ids /\ wb' = wb /\ Settled \subseteq Settled' /\ PastLimit' = PastLimit
    BY <1>0, <1>5, RowsStay DEF Quit
  <2>1. CallsRecipient'
    BY <1>0, <1>b, <1>5 DEF TypeOK, CallsRecipient, Quit
  <2>2. SendSettles'
    BY <1>0, <1>b, <1>5, <2>0 DEF TypeOK, SendSettles, Quit
  <2>3. BacklogListed'
    BY <1>0, <1>b, <1>5 DEF TypeOK, BacklogListed, Quit
  <2>4. ReplaySettles'
    BY <1>0, <1>b, <1>5, <2>0 DEF TypeOK, ReplaySettles, Quit
  <2>5. (marking \subseteq Settled)'
    BY <1>b, <1>5, <2>0 DEF Quit
  <2>6. ThreadCovers'
    BY <1>0, <1>b, <1>5, <2>0 DEF TypeOK, ThreadCovers, Quit, Inbound
  <2>7. (Ids \ unread \subseteq Settled \cup Held \cup PastLimit)'
    BY <1>b, <1>5, <2>0 DEF Held, InFlight, Quit
  <2> QED
    BY <2>1, <2>2, <2>3, <2>4, <2>5, <2>6, <2>7 DEF SeenInv
<1>6. ASSUME NEW s \in Sessions, HangUp(s) PROVE SeenInv'
  <2>0. Ids' = Ids /\ wb' = wb /\ Settled \subseteq Settled' /\ PastLimit' = PastLimit
    BY <1>0, <1>6, RowsStay DEF HangUp
  <2>1. CallsRecipient'
    BY <1>b, <1>6 DEF CallsRecipient, HangUp
  <2>2. SendSettles'
    BY <1>b, <1>6, <2>0 DEF SendSettles, HangUp
  <2>3. BacklogListed'
    BY <1>b, <1>6 DEF BacklogListed, HangUp
  <2>4. ReplaySettles'
    BY <1>b, <1>6, <2>0 DEF ReplaySettles, HangUp
  <2>5. (marking \subseteq Settled)'
    BY <1>b, <1>6, <2>0 DEF HangUp
  <2>6. ThreadCovers'
    BY <1>b, <1>6, <2>0 DEF ThreadCovers, HangUp, Inbound
  <2>7. (Ids \ unread \subseteq Settled \cup Held \cup PastLimit)'
    BY <1>b, <1>6, <2>0 DEF Held, InFlight, HangUp
  <2> QED
    BY <2>1, <2>2, <2>3, <2>4, <2>5, <2>6, <2>7 DEF SeenInv
<1>7. ASSUME NEW s \in Sessions, Unregister(s) PROVE SeenInv'
  <2>0. Ids' = Ids /\ wb' = wb /\ Settled \subseteq Settled' /\ PastLimit' = PastLimit
    BY <1>0, <1>7, RowsStay DEF Unregister
  <2>1. CallsRecipient'
    BY <1>b, <1>7 DEF CallsRecipient, Unregister
  <2>2. SendSettles'
    BY <1>b, <1>7, <2>0 DEF SendSettles, Unregister
  <2>3. BacklogListed'
    BY <1>b, <1>7 DEF BacklogListed, Unregister
  <2>4. ReplaySettles'
    BY <1>b, <1>7, <2>0 DEF ReplaySettles, Unregister
  <2>5. (marking \subseteq Settled)'
    BY <1>b, <1>7, <2>0 DEF Unregister
  <2>6. ThreadCovers'
    BY <1>b, <1>7, <2>0 DEF ThreadCovers, Unregister, Inbound
  <2>7. (Ids \ unread \subseteq Settled \cup Held \cup PastLimit)'
    BY <1>b, <1>7, <2>0 DEF Held, InFlight, Unregister
  <2> QED
    BY <2>1, <2>2, <2>3, <2>4, <2>5, <2>6, <2>7 DEF SeenInv
<1>8. ASSUME NEW s \in Sessions, MemoMark(s) PROVE SeenInv'
  <2>0. Ids' = Ids /\ wb' = wb /\ Settled \subseteq Settled' /\ PastLimit' = PastLimit
    BY <1>0, <1>8, RowsStay DEF MemoMark, MarkRead, Mark, Finish
  <2>1. CallsRecipient'
    BY <1>0, <1>b, <1>8, <2>0 DEF TypeOK, CallsRecipient, MemoMark, Finish
  <2>2. SendSettles'
    BY <1>0, <1>b, <1>8, <2>0 DEF TypeOK, SendSettles, MemoMark, Finish
  <2>3. BacklogListed'
    BY <1>0, <1>b, <1>8 DEF TypeOK, BacklogListed, MemoMark, Finish
  <2>4. ReplaySettles'
    BY <1>0, <1>b, <1>8, <2>0 DEF TypeOK, ReplaySettles, MemoMark, Finish
  <2>5. (marking \subseteq Settled)'
    BY <1>b, <1>8, <2>0 DEF MemoMark, Finish
  <2>6. ThreadCovers'
    BY <1>0, <1>b, <1>8, <2>0 DEF TypeOK, CurInHand, ThreadCovers, MemoMark, Finish, Inbound
  <2>7. (Ids \ unread \subseteq Settled \cup Held \cup PastLimit)'
    <3>1. cur[s] \in Settled
      BY <1>0, <1>b, <1>8 DEF CurInHand, SendSettles, Settled, MemoMark
    <3>2. Held \subseteq Held' \cup {cur[s]}
      <4>1. \A x \in Sessions : x # s => cur'[x] = cur[x]
        BY <1>0, <1>8 DEF TypeOK, MemoMark, Finish
      <4>2. UNCHANGED backlog
        BY <1>8 DEF MemoMark
      <4> QED
        BY <2>0, <4>1, <4>2 DEF Held, InFlight
    <3>3. unread \subseteq unread' \cup {cur[s]}
      BY <1>8 DEF MemoMark, Finish, MarkRead, Mark
    <3> QED
      BY <1>b, <2>0, <3>1, <3>2, <3>3
  <2> QED
    BY <2>1, <2>2, <2>3, <2>4, <2>5, <2>6, <2>7 DEF SeenInv
<1>9. ASSUME NEW s \in Sessions, SendStart(s) PROVE SeenInv'
  <2>0. Ids' = Ids /\ wb' = wb /\ Settled \subseteq Settled' /\ PastLimit' = PastLimit
    BY <1>0, <1>9, RowsStay DEF SendStart
  <2>1. CallsRecipient'
    BY <1>0, <1>b, <1>9 DEF TypeOK, CallsRecipient, SendStart
  <2>2. SendSettles'
    BY <1>0, <1>b, <1>9, <2>0 DEF TypeOK, SendSettles, SendStart
  <2>3. BacklogListed'
    BY <1>0, <1>b, <1>9 DEF TypeOK, BacklogListed, SendStart
  <2>4. ReplaySettles'
    BY <1>0, <1>b, <1>9, <2>0 DEF TypeOK, ReplaySettles, SendStart
  <2>5. (marking \subseteq Settled)'
    BY <1>b, <1>9, <2>0 DEF SendStart
  <2>6. ThreadCovers'
    BY <1>0, <1>b, <1>9, <2>0 DEF TypeOK, ThreadCovers, SendStart, Inbound
  <2>7. (Ids \ unread \subseteq Settled \cup Held \cup PastLimit)'
    BY <1>b, <1>9, <2>0 DEF Held, InFlight, SendStart
  <2> QED
    BY <2>1, <2>2, <2>3, <2>4, <2>5, <2>6, <2>7 DEF SeenInv
<1>10. ASSUME NEW s \in Sessions, SendEnd(s) PROVE SeenInv'
  <2>0. Ids' = Ids /\ wb' = wb /\ Settled \subseteq Settled' /\ PastLimit' = PastLimit
    BY <1>0, <1>10, RowsStay DEF SendEnd, Finish
  <2>1. CallsRecipient'
    BY <1>0, <1>b, <1>10 DEF TypeOK, CallsRecipient, SendEnd, Finish
  <2>2. SendSettles'
    BY <1>0, <1>b, <1>10, <2>0 DEF TypeOK, SendSettles, SendEnd, Finish
  <2>3. BacklogListed'
    BY <1>0, <1>b, <1>10 DEF TypeOK, BacklogListed, SendEnd, Finish
  <2>4. ReplaySettles'
    BY <1>0, <1>b, <1>10, <2>0 DEF TypeOK, ReplaySettles, SendEnd, Finish
  <2>5. (marking \subseteq Settled)'
    BY <1>b, <1>10, <2>0 DEF SendEnd, Finish
  <2>6. ThreadCovers'
    <3> SUFFICES ASSUME NEW t \in online', loop'[t] = "thread",
                        NEW id \in Inbound(owner[t], view[t])', id \notin Settled' \cup PastLimit'
                 PROVE  \E x \in Sessions :
                            /\ cur'[x] = id
                            /\ loop'[x] = "send" \/ (loop'[x] = "walk" /\ t \in todo'[x])
      BY DEF ThreadCovers
    <3>1. t \in online /\ loop[t] = "thread" /\ id \in Inbound(owner[t], view[t])
      BY <1>0, <1>10, <2>0 DEF TypeOK, SendEnd, Finish, Inbound
    <3>2. PICK x \in Sessions : cur[x] = id /\ (loop[x] = "send" \/ (loop[x] = "walk" /\ t \in todo[x]))
      BY <1>b, <2>0, <3>1 DEF ThreadCovers
    <3>3. x # s
      BY <1>10, <3>1, <3>2 DEF SendEnd
    <3> QED
      BY <1>0, <1>10, <3>2, <3>3 DEF TypeOK, SendEnd, Finish
  <2>7. (Ids \ unread \subseteq Settled \cup Held \cup PastLimit)'
    <3>1. CASE UNCHANGED <<cur, lost>>
      BY <1>b, <1>10, <2>0, <3>1 DEF Held, InFlight, SendEnd
    <3>2. CASE Finish(s) /\ lost' = IF cur[s] \in unread THEN lost ELSE lost \cup {cur[s]}
      <4>1. Held \subseteq Held' \cup {cur[s]}
        <5>1. \A x \in Sessions : x # s => cur'[x] = cur[x]
          BY <1>0, <3>2 DEF TypeOK, Finish
        <5> QED
          BY <1>10, <2>0, <5>1 DEF Held, InFlight, SendEnd
      <4>2. cur[s] \in unread' \/ cur[s] \in Settled'
        <5>1. cur[s] \in Ids
          BY <1>0, <1>10 DEF CurInHand, SendEnd
        <5> QED
          BY <1>10, <2>0, <3>2, <5>1 DEF Settled, SendEnd
      <4>3. UNCHANGED unread
        BY <1>10 DEF SendEnd
      <4> QED
        BY <1>b, <2>0, <4>1, <4>2, <4>3
    <3> QED
      BY <1>10, <3>1, <3>2 DEF SendEnd
  <2> QED
    BY <2>1, <2>2, <2>3, <2>4, <2>5, <2>6, <2>7 DEF SeenInv
<1>11. ASSUME NEW s \in Sessions, SenderMark(s) PROVE SeenInv'
  <2>0. Ids' = Ids /\ wb' = wb /\ Settled \subseteq Settled' /\ PastLimit' = PastLimit
    BY <1>0, <1>11, RowsStay DEF SenderMark, MarkRead, Mark, Finish
  <2>1. CallsRecipient'
    BY <1>0, <1>b, <1>11, <2>0 DEF TypeOK, CallsRecipient, SenderMark, Finish
  <2>2. SendSettles'
    BY <1>0, <1>b, <1>11, <2>0 DEF TypeOK, SendSettles, SenderMark, Finish
  <2>3. BacklogListed'
    BY <1>0, <1>b, <1>11 DEF TypeOK, BacklogListed, SenderMark, Finish
  <2>4. ReplaySettles'
    BY <1>0, <1>b, <1>11, <2>0 DEF TypeOK, ReplaySettles, SenderMark, Finish
  <2>5. (marking \subseteq Settled)'
    BY <1>b, <1>11, <2>0 DEF SenderMark, Finish
  <2>6. ThreadCovers'
    BY <1>0, <1>b, <1>11, <2>0 DEF TypeOK, CurInHand, ThreadCovers, SenderMark, Finish, Inbound
  <2>7. (Ids \ unread \subseteq Settled \cup Held \cup PastLimit)'
    <3>1. cur[s] \in Settled
      BY <1>b, <1>11 DEF SendSettles, SenderMark
    <3>2. Held \subseteq Held' \cup {cur[s]}
      <4>1. \A x \in Sessions : x # s => cur'[x] = cur[x]
        BY <1>0, <1>11 DEF TypeOK, SenderMark, Finish
      <4>2. UNCHANGED backlog
        BY <1>11 DEF SenderMark
      <4> QED
        BY <2>0, <4>1, <4>2 DEF Held, InFlight
    <3>3. unread \subseteq unread' \cup {cur[s]}
      BY <1>11 DEF SenderMark, Finish, MarkRead, Mark
    <3> QED
      BY <1>b, <2>0, <3>1, <3>2, <3>3
  <2> QED
    BY <2>1, <2>2, <2>3, <2>4, <2>5, <2>6, <2>7 DEF SeenInv
<1>12. ASSUME NEW s \in Sessions, ThreadMark(s) PROVE SeenInv'
  <2>0. Ids' = Ids /\ wb' = wb /\ Settled \subseteq Settled' /\ PastLimit' = PastLimit
    BY <1>0, <1>12, RowsStay DEF ThreadMark, MarkConversationRead, Mark
  <2>1. CallsRecipient'
    BY <1>b, <1>12, <2>0 DEF CallsRecipient, ThreadMark
  <2>2. SendSettles'
    BY <1>b, <1>12, <2>0 DEF SendSettles, ThreadMark
  <2>3. BacklogListed'
    BY <1>b, <1>12 DEF BacklogListed, ThreadMark
  <2>4. ReplaySettles'
    BY <1>b, <1>12, <2>0 DEF ReplaySettles, ThreadMark
  <2>5. (marking \subseteq Settled)'
    BY <1>b, <1>12, <2>0 DEF ThreadMark
  <2>6. ThreadCovers'
    BY <1>b, <1>12, <2>0 DEF ThreadCovers, ThreadMark, Mark, Inbound
  <2>7. (Ids \ unread \subseteq Settled \cup Held \cup PastLimit)'
    <3>1. Held \subseteq Held'
      BY <1>12, <2>0 DEF Held, InFlight, ThreadMark
    <3>2. Inbound(owner[s], view[s]) \subseteq Settled' \cup Held' \cup PastLimit'
      <4>1. CASE s \in online
        <5>1. Inbound(owner[s], view[s]) \subseteq Settled \cup PastLimit \cup Held
          BY <1>b, <1>12, <4>1 DEF ThreadCovers, ThreadMark, Held, InFlight, Inbound
        <5> QED
          BY <2>0, <3>1, <5>1
      <4>2. CASE s \notin online
        <5>1. Inbound(owner[s], view[s]) \subseteq lost' \cap Ids
          BY <1>12, <4>2 DEF ThreadMark, Inbound
        <5> QED
          BY <2>0, <5>1 DEF Settled
      <4> QED
        BY <4>1, <4>2
    <3>3. unread \subseteq unread' \cup Inbound(owner[s], view[s])
      BY <1>12 DEF ThreadMark, MarkConversationRead, Mark
    <3> QED
      BY <1>b, <2>0, <3>1, <3>2, <3>3
  <2> QED
    BY <2>1, <2>2, <2>3, <2>4, <2>5, <2>6, <2>7 DEF SeenInv
<1>13. ASSUME NEW s \in Sessions, CloseThread(s) PROVE SeenInv'
  <2>0. Ids' = Ids /\ wb' = wb /\ Settled \subseteq Settled' /\ PastLimit' = PastLimit
    BY <1>0, <1>13, RowsStay DEF CloseThread
  <2>1. CallsRecipient'
    BY <1>b, <1>13 DEF CallsRecipient, CloseThread
  <2>2. SendSettles'
    BY <1>b, <1>13, <2>0 DEF SendSettles, CloseThread
  <2>3. BacklogListed'
    BY <1>b, <1>13 DEF BacklogListed, CloseThread
  <2>4. ReplaySettles'
    BY <1>b, <1>13, <2>0 DEF ReplaySettles, CloseThread
  <2>5. (marking \subseteq Settled)'
    BY <1>b, <1>13, <2>0 DEF CloseThread
  <2>6. ThreadCovers'
    BY <1>b, <1>13, <2>0 DEF ThreadCovers, CloseThread, Inbound
  <2>7. (Ids \ unread \subseteq Settled \cup Held \cup PastLimit)'
    BY <1>b, <1>13, <2>0 DEF Held, InFlight, CloseThread
  <2> QED
    BY <2>1, <2>2, <2>3, <2>4, <2>5, <2>6, <2>7 DEF SeenInv
<1>14. ASSUME NEW s \in Sessions, DrainSend(s) PROVE SeenInv'
  <2>0. Ids' = Ids /\ wb' = wb /\ Settled \subseteq Settled' /\ PastLimit' = PastLimit
    BY <1>0, <1>14, RowsStay DEF TypeOK, DrainSend, Incoming, Mark
  <2>a. PICK i \in backlog[s] : IsOldest(i, backlog[s]) /\ Incoming(s, i)
    BY <1>14 DEF DrainSend
  <2>b. i \in Settled' /\ marking' \subseteq marking \cup {i} /\ unread \ unread' \subseteq {i}
    <3>1. i \in Ids /\ wb[i].to = owner[s]
      BY <1>0, <1>b, <2>a DEF TypeOK, ReplaySettles
    <3> QED
      BY <1>0, <2>a, <3>1, IncomingSettles
  <2>1. CallsRecipient'
    BY <1>b, <1>14, <2>0 DEF CallsRecipient, DrainSend
  <2>2. SendSettles'
    BY <1>b, <1>14, <2>0 DEF SendSettles, DrainSend
  <2>3. BacklogListed'
    BY <1>b, <1>14 DEF BacklogListed, DrainSend
  <2>4. ReplaySettles'
    <3>1. UNCHANGED backlog /\ \A t \in Sessions : t # s => drain'[t] = drain[t]
      BY <1>14 DEF DrainSend
    <3>2. \A j \in backlog[s] : IsOldest(j, backlog[s]) => j = i
      BY <1>0, <2>a DEF IsOldest, TypeOK, Ids
    <3>3. \A t \in Sessions : backlog[t] \subseteq Ids
      BY <1>0 DEF TypeOK
    <3> QED
      BY <1>b, <2>0, <2>b, <3>1, <3>2, <3>3 DEF ReplaySettles, IsOldest
  <2>5. (marking \subseteq Settled)'
    BY <1>b, <2>0, <2>b
  <2>6. ThreadCovers'
    BY <1>b, <1>14, <2>0 DEF ThreadCovers, DrainSend, Mark, Inbound
  <2>7. (Ids \ unread \subseteq Settled \cup Held \cup PastLimit)'
    BY <1>b, <1>14, <2>0, <2>b DEF Held, InFlight, DrainSend
  <2> QED
    BY <2>1, <2>2, <2>3, <2>4, <2>5, <2>6, <2>7 DEF SeenInv
<1>15. ASSUME NEW s \in Sessions, NEW d \in Sessions, SendOne(s, d) PROVE SeenInv'
  <2>0. Ids' = Ids /\ wb' = wb /\ Settled \subseteq Settled' /\ PastLimit' = PastLimit
    BY <1>0, <1>15, RowsStay DEF TypeOK, SendOne, Incoming, Mark
  <2>b. /\ cur[s] \in Settled' /\ marking' \subseteq marking \cup {cur[s]}
        /\ unread \ unread' \subseteq {cur[s]}
    <3>1. cur[s] \in Ids /\ wb[cur[s]].to = owner[d] /\ Incoming(d, cur[s])
      BY <1>0, <1>b, <1>15 DEF CurInHand, CallsRecipient, SendOne
    <3> QED
      BY <1>0, <3>1, IncomingSettles
  <2>1. CallsRecipient'
    BY <1>b, <1>15, <2>0 DEF CallsRecipient, SendOne
  <2>2. SendSettles'
    BY <1>b, <1>15, <2>0, <2>b DEF SendSettles, SendOne
  <2>3. BacklogListed'
    BY <1>b, <1>15 DEF BacklogListed, SendOne
  <2>4. ReplaySettles'
    BY <1>b, <1>15, <2>0 DEF ReplaySettles, SendOne
  <2>5. (marking \subseteq Settled)'
    BY <1>b, <2>0, <2>b
  <2>6. ThreadCovers'
    BY <1>b, <1>15, <2>0 DEF ThreadCovers, SendOne, Incoming, Mark, Inbound
  <2>7. (Ids \ unread \subseteq Settled \cup Held \cup PastLimit)'
    BY <1>b, <1>15, <2>0, <2>b DEF Held, InFlight, SendOne
  <2> QED
    BY <2>1, <2>2, <2>3, <2>4, <2>5, <2>6, <2>7 DEF SeenInv
<1>16. ASSUME NEW s \in Sessions, NEW u \in Users, OpenThread(s, u) PROVE SeenInv'
  <2>0. Ids' = Ids /\ wb' = wb /\ Settled \subseteq Settled' /\ PastLimit' = PastLimit
    BY <1>0, <1>16, RowsStay DEF OpenThread
  <2>1. CallsRecipient'
    BY <1>b, <1>16 DEF CallsRecipient, OpenThread
  <2>2. SendSettles'
    BY <1>b, <1>16, <2>0 DEF SendSettles, OpenThread
  <2>3. BacklogListed'
    BY <1>b, <1>16 DEF BacklogListed, OpenThread
  <2>4. ReplaySettles'
    BY <1>b, <1>16, <2>0 DEF ReplaySettles, OpenThread
  <2>5. (marking \subseteq Settled)'
    BY <1>b, <1>16, <2>0 DEF OpenThread
  <2>6. ThreadCovers'
    <3> SUFFICES ASSUME NEW t \in online', loop'[t] = "thread",
                        NEW id \in Inbound(owner[t], view[t])', id \notin Settled' \cup PastLimit'
                 PROVE  \E x \in Sessions :
                            /\ cur'[x] = id
                            /\ loop'[x] = "send" \/ (loop'[x] = "walk" /\ t \in todo'[x])
      BY DEF ThreadCovers
    <3>0. t # s
      <4> SUFFICES ASSUME t = s PROVE FALSE
        OBVIOUS
      <4>1. id \in Ids /\ wb[id].to = owner[s] /\ wb[id].from = u
        BY <1>0, <1>16, <2>0 DEF TypeOK, OpenThread, Inbound
      <4>2. id \in shown'[owner[s]]
        <5>1. id \in ListConversation(owner[s], u)
          BY <2>0, <4>1 DEF PastLimit
        <5> QED
          BY <1>0, <1>16, <5>1 DEF TypeOK, OpenThread
      <4> QED
        BY <2>0, <4>1, <4>2 DEF Settled
    <3>1. t \in online /\ loop[t] = "thread" /\ id \in Inbound(owner[t], view[t])
      BY <1>16, <2>0, <3>0 DEF OpenThread, Inbound
    <3>2. PICK x \in Sessions : cur[x] = id /\ (loop[x] = "send" \/ (loop[x] = "walk" /\ t \in todo[x]))
      BY <1>b, <2>0, <3>1 DEF ThreadCovers
    <3>3. x # s
      BY <1>16, <3>1, <3>2 DEF OpenThread
    <3> QED
      BY <1>16, <3>2, <3>3 DEF OpenThread
  <2>7. (Ids \ unread \subseteq Settled \cup Held \cup PastLimit)'
    BY <1>b, <1>16, <2>0 DEF Held, InFlight, OpenThread
  <2> QED
    BY <2>1, <2>2, <2>3, <2>4, <2>5, <2>6, <2>7 DEF SeenInv
<1>17. ASSUME NEW id \in 1..MaxBalloons, AsyncMarkRead(id) PROVE SeenInv'
  <2>0. Ids' = Ids /\ wb' = wb /\ Settled \subseteq Settled' /\ PastLimit' = PastLimit
    BY <1>0, <1>17, RowsStay DEF AsyncMarkRead, MarkRead, Mark
  <2>1. CallsRecipient'
    BY <1>b, <1>17, <2>0 DEF CallsRecipient, AsyncMarkRead
  <2>2. SendSettles'
    BY <1>b, <1>17, <2>0 DEF SendSettles, AsyncMarkRead
  <2>3. BacklogListed'
    BY <1>b, <1>17 DEF BacklogListed, AsyncMarkRead
  <2>4. ReplaySettles'
    BY <1>b, <1>17, <2>0 DEF ReplaySettles, AsyncMarkRead
  <2>5. (marking \subseteq Settled)'
    BY <1>b, <1>17, <2>0 DEF AsyncMarkRead
  <2>6. ThreadCovers'
    BY <1>0, <1>b, <1>17, <2>0 DEF TypeOK, ThreadCovers, AsyncMarkRead, Inbound
  <2>7. (Ids \ unread \subseteq Settled \cup Held \cup PastLimit)'
    BY <1>b, <1>17, <2>0 DEF Held, InFlight, AsyncMarkRead, MarkRead, Mark
  <2> QED
    BY <2>1, <2>2, <2>3, <2>4, <2>5, <2>6, <2>7 DEF SeenInv
<1>18. ASSUME NEW s \in Sessions, NEW u \in Users, Submit(s, u) PROVE SeenInv'
  <2> DEFINE new == Len(wb) + 1
  <2>a. Insert(owner[s], u) /\ wb \in Seq(Row) /\ owner[s] \in Users /\ UNCHANGED <<shown, lost>>
    BY <1>0, <1>18 DEF TypeOK, Submit
  <2>b. /\ Ids' = Ids \cup {new}
        /\ new \in Nat \ (Ids \cup {0})
        /\ \A i \in Ids : wb'[i] = wb[i]
        /\ unread' = unread \cup {new}
    BY <2>a, InsertFacts
  <2>c. Settled \subseteq Settled' /\ PastLimit \subseteq PastLimit'
    BY <1>0, <2>a, InsertKeepsPlaces
  <2>d. wb'[new] = [from |-> owner[s], to |-> u]
    BY <2>a DEF Insert
  <2> HIDE DEF new
  <2>e. /\ cur' = [cur EXCEPT ![s] = new]
        /\ loop[s] = "idle"
        /\ loop' = [loop EXCEPT ![s] = IF u = owner[s] THEN "memo" ELSE "send"]
        /\ view' = [view EXCEPT ![s] = IF @ = u THEN u ELSE NoUser]
        /\ UNCHANGED <<online, drain, backlog, todo, hit, marking>>
    BY <1>18 DEF Submit, new
  <2>f. \A x \in Sessions : x # s => cur'[x] = cur[x] /\ loop'[x] = loop[x]
    BY <2>e
  <2>g. cur'[s] = new /\ loop'[s] = (IF u = owner[s] THEN "memo" ELSE "send")
    BY <1>0, <2>e DEF TypeOK
  <2>1. CallsRecipient'
    BY <1>0, <1>b, <2>b, <2>e, <2>f, <2>g DEF CallsRecipient, CurInHand
  <2>2. SendSettles'
    BY <1>0, <1>b, <2>b, <2>c, <2>d, <2>e, <2>f, <2>g DEF SendSettles, CurInHand
  <2>3. BacklogListed'
    BY <1>b, <2>e, <2>f, <2>g DEF BacklogListed
  <2>4. ReplaySettles'
    BY <1>0, <1>b, <2>b, <2>c, <2>e DEF TypeOK, ReplaySettles
  <2>5. (marking \subseteq Settled)'
    BY <1>b, <2>c, <2>e
  <2>6. ThreadCovers'
    <3> SUFFICES ASSUME NEW t \in online', loop'[t] = "thread",
                        NEW id \in Inbound(owner[t], view[t])', id \notin Settled' \cup PastLimit'
                 PROVE  \E x \in Sessions :
                            /\ cur'[x] = id
                            /\ loop'[x] = "send" \/ (loop'[x] = "walk" /\ t \in todo'[x])
      BY DEF ThreadCovers
    <3>1. t # s /\ t \in online /\ t \in Sessions
      BY <1>0, <2>e, <2>g DEF TypeOK
    <3>2. loop[t] = "thread" /\ view'[t] = view[t]
      BY <2>e, <2>f, <3>1
    <3>3. CASE id = new
      <4>1. u # owner[s]
        BY <2>b, <2>d, <3>3 DEF Settled
      <4> QED
        BY <2>g, <3>3, <4>1
    <3>4. CASE id # new
      <4>1. id \in Inbound(owner[t], view[t]) /\ id \in Ids
        BY <2>b, <3>2, <3>4 DEF Inbound
      <4>2. PICK x \in Sessions : cur[x] = id /\ (loop[x] = "send" \/ (loop[x] = "walk" /\ t \in todo[x]))
        BY <1>b, <2>c, <3>1, <3>2, <4>1 DEF ThreadCovers
      <4>3. x # s
        BY <2>e, <4>2
      <4> QED
        BY <2>e, <2>f, <4>2, <4>3
    <3> QED
      BY <3>3, <3>4
  <2>7. (Ids \ unread \subseteq Settled \cup Held \cup PastLimit)'
    <3>1. Held \subseteq Held'
      <4>1. cur[s] \notin Ids
        <5>1. cur[s] = 0
          BY <1>0, <2>e DEF CurInHand
        <5>2. 0 \notin Ids
          BY <1>0 DEF TypeOK, Ids
        <5> QED
          BY <5>1, <5>2
      <4> QED
        BY <2>b, <2>e, <2>f, <4>1 DEF Held, InFlight
    <3> QED
      BY <1>b, <2>b, <2>c, <3>1
  <2> QED
    BY <2>1, <2>2, <2>3, <2>4, <2>5, <2>6, <2>7 DEF SeenInv
<1>19. CASE UNCHANGED vars
  <2>1. Ids' = Ids /\ Settled' = Settled /\ PastLimit' = PastLimit /\ Held' = Held
    BY <1>19 DEF vars, Ids, Settled, PastLimit, ListConversation, Between, Held, InFlight
  <2> QED
    BY <1>b, <1>19, <2>1
       DEF vars, SeenInv, CallsRecipient, SendSettles, BacklogListed, ReplaySettles,
           ThreadCovers, Inbound
<1> QED
  BY <1>1, <1>2, <1>3, <1>4, <1>5, <1>6, <1>7, <1>8, <1>9, <1>10, <1>11, <1>12, <1>13, <1>14,
     <1>15, <1>16, <1>17, <1>18, <1>19
     DEF Next, Step, User

\* A balloon marked read reached its recipient, will reach it, is a memo, fell to
\* a session that had ended or lies past the limit of its conversation: for any
\* number of users, sessions and balloons and any limit.
THEOREM BalloonsLostOnlyToEndedSessions == Spec => []LostOnlyToEndedSessions
<1>1. Init => IInv /\ SeenInv
  BY InitIInv, InitSeen
<1>2. IInv /\ SeenInv /\ [Next]_vars => (IInv /\ SeenInv)'
  BY NextIInv, NextSeen
<1>3. IInv /\ SeenInv => LostOnlyToEndedSessions
  BY SeenInvSuffices
<1> QED
  BY <1>1, <1>2, <1>3, PTL DEF Spec
-----------------------------------------------------------------------------
(***************************************************************************)
(* The lock-free broker of this module is the Registry that Broker         *)
(* implements: sessions come and go between walks only, a walk calls the   *)
(* sessions of its recipient that were online when it began, and submit    *)
(* turns a balloon to oneself into a memo before it reaches the broker.    *)
(***************************************************************************)

\* A session registers once, and a Send is never to the account of its caller.
CallerRules ==
    \A s \in Sessions :
        /\ loop[s] = "off" => s \notin online
        /\ loop[s] = "send" => wb[cur[s]].to # owner[s]

\* No step of a session brings it back to "off", and Submit is the only way to
\* "send".
LEMMA CallerRulesStay ==
    /\ Init => CallerRules
    /\ IInv /\ CallerRules /\ [Next]_vars => CallerRules'
<1> USE WBAssumption DEF table, life, replay, sending, history
<1>1. Init => CallerRules
  BY DEF Init, CallerRules
<1>2. ASSUME IInv, CallerRules, [Next]_vars PROVE CallerRules'
  <2>0. TypeOK /\ CurInHand
    BY <1>2 DEF IInv
  <2>1. ASSUME NEW s \in Sessions, NEW u \in Users, Submit(s, u) PROVE CallerRules'
    <3>1. Insert(owner[s], u) /\ wb \in Seq(Row) /\ owner[s] \in Users
      BY <2>0, <2>1 DEF TypeOK, Submit
    <3>2. (\A i \in Ids : wb'[i] = wb[i]) /\ wb'[Len(wb) + 1].to = u
      <4>1. \A i \in Ids : wb'[i] = wb[i]
        BY <3>1, InsertFacts
      <4>2. wb'[Len(wb) + 1] = [from |-> owner[s], to |-> u]
        BY <3>1 DEF Insert
      <4> QED
        BY <4>1, <4>2
    <3>3. cur'[s] = Len(wb) + 1 /\ loop'[s] = (IF u = owner[s] THEN "memo" ELSE "send")
      BY <2>0, <2>1 DEF TypeOK, Submit
    <3>4. \A x \in Sessions : x # s => cur'[x] = cur[x] /\ loop'[x] = loop[x]
      BY <2>0, <2>1 DEF TypeOK, Submit
    <3>5. online' = online
      BY <2>1 DEF Submit
    <3> QED
      BY <1>2, <2>0, <3>2, <3>3, <3>4, <3>5 DEF CallerRules, CurInHand
  <2>2. ASSUME UNCHANGED wb,
               \A x \in Sessions :
                  /\ loop'[x] = "off" => loop[x] = "off" /\ (x \in online' => x \in online)
                  /\ loop'[x] = "send" => loop[x] = "send" /\ cur'[x] = cur[x]
        PROVE  CallerRules'
    BY <1>2, <2>2 DEF CallerRules
  <2>3. ASSUME NEW s \in Sessions,
               \/ Register(s) \/ Quit(s) \/ HangUp(s) \/ CloseThread(s)
               \/ (\E u \in Users : OpenThread(s, u))
        PROVE  CallerRules'
    BY <2>0, <2>2, <2>3 DEF TypeOK, Register, Quit, HangUp, CloseThread, OpenThread
  <2>4. ASSUME NEW s \in Sessions,
               Run(s) \/ DrainList(s) \/ DrainSend(s) \/ DrainMark(s) \/ Unregister(s)
        PROVE  CallerRules'
    BY <2>0, <2>2, <2>4
       DEF TypeOK, Run, DrainList, DrainSend, DrainMark, Unregister, Incoming, MarkRead, Mark
  <2>5. ASSUME NEW s \in Sessions,
               \/ MemoMark(s) \/ SendStart(s) \/ (\E d \in Sessions : SendOne(s, d))
               \/ SendEnd(s) \/ SenderMark(s) \/ ThreadMark(s)
        PROVE  CallerRules'
    BY <2>0, <2>2, <2>5
       DEF TypeOK, MemoMark, SendStart, SendOne, SendEnd, SenderMark, ThreadMark, Incoming,
           MarkRead, MarkConversationRead, Mark, Finish
  <2>6. ASSUME NEW id \in 1..MaxBalloons, AsyncMarkRead(id) PROVE CallerRules'
    BY <2>2, <2>6 DEF AsyncMarkRead, MarkRead, Mark
  <2>7. CASE UNCHANGED vars
    BY <2>2, <2>7 DEF vars
  <2> QED
    BY <1>2, <2>1, <2>3, <2>4, <2>5, <2>6, <2>7 DEF Next, Step, User
<1> QED
  BY <1>1, <1>2

\* The sessions in a Broker.Send.
Walkers == {s \in Sessions : loop[s] = "walk"}

\* Every step maps to a step of the registry, or to none.
LEMMA NextRegistry ==
    IInv /\ CallerRules /\ [Next]_vars => [registry!Next]_registry!vars
<1> USE WBAssumption DEF life, replay, sending
<1> SUFFICES ASSUME IInv, CallerRules, [Next]_vars PROVE [registry!Next]_registry!vars
  OBVIOUS
<1>0. TypeOK /\ CurInHand
  BY DEF IInv
<1>a. ASSUME online' = online, Walkers' = Walkers, todo' = todo
      PROVE  [registry!Next]_registry!vars
  BY <1>a DEF registry!vars, Walkers
<1>1. ASSUME NEW s \in Sessions, Register(s) PROVE [registry!Next]_registry!vars
  <2>1. s \notin online /\ Walkers = {} /\ Walkers' = {}
    BY <1>0, <1>1 DEF Register, CallerRules, Walking, TypeOK, Walkers
  <2>2. registry!Register(s)
    BY <1>1, <2>1 DEF Register, registry!Register, Walkers
  <2> QED
    BY <2>2 DEF registry!Next
<1>2. ASSUME NEW s \in Sessions, Unregister(s) PROVE [registry!Next]_registry!vars
  <2>1. s \in online /\ Walkers = {} /\ Walkers' = {}
    BY <1>2 DEF Unregister, Walking, Walkers
  <2>2. registry!Unregister(s)
    BY <1>2, <2>1 DEF Unregister, registry!Unregister, Walkers
  <2> QED
    BY <2>2 DEF registry!Next
<1>3. ASSUME NEW s \in Sessions, SendStart(s) PROVE [registry!Next]_registry!vars
  <2>1. s \notin Walkers /\ Walkers' = Walkers \cup {s} /\ online' = online
    BY <1>0, <1>3 DEF SendStart, TypeOK, Walkers
  <2>2. {wb[cur[s]].to} \in registry!Audiences(s)
    <3>1. wb[cur[s]].to \in Users
      <4>1. cur[s] \in Ids
        BY <1>0, <1>3 DEF SendStart, CurInHand
      <4>2. wb[cur[s]] \in Row
        BY <1>0, <4>1 DEF TypeOK, Ids
      <4> QED
        BY <4>2 DEF Row
    <3>2. wb[cur[s]].to # owner[s]
      BY <1>3 DEF CallerRules, SendStart
    <3> QED
      BY <3>1, <3>2 DEF registry!Audiences
  <2>3. todo' = [todo EXCEPT ![s] = {d \in online : owner[d] \in {wb[cur[s]].to}}]
    BY <1>3 DEF SendStart
  <2>4. registry!StartSend(s)
    BY <2>1, <2>2, <2>3 DEF registry!StartSend, Walkers
  <2> QED
    BY <2>4 DEF registry!Next
<1>4. ASSUME NEW s \in Sessions, NEW d \in Sessions, SendOne(s, d)
      PROVE  [registry!Next]_registry!vars
  <2>1. s \in Walkers /\ Walkers' = Walkers
    BY <1>4 DEF SendOne, Walkers
  <2>2. registry!SendOne(s, d)
    BY <1>4, <2>1 DEF SendOne, registry!SendOne, Walkers
  <2> QED
    BY <2>2 DEF registry!Next
<1>5. ASSUME NEW s \in Sessions, SendEnd(s) PROVE [registry!Next]_registry!vars
  <2>1. loop[s] = "walk" /\ todo[s] = {} /\ UNCHANGED <<online, todo>>
    BY <1>5 DEF SendEnd
  <2>2. loop' = [loop EXCEPT ![s] = "mark"] \/ loop' = [loop EXCEPT ![s] = "idle"]
    BY <1>5 DEF SendEnd, Finish
  <2>3. Walkers' = Walkers \ {s}
    BY <1>0, <2>2 DEF TypeOK, Walkers
  <2>4. registry!EndSend(s)
    BY <2>1, <2>3 DEF registry!EndSend, Walkers
  <2> QED
    BY <2>4 DEF registry!Next
<1>6. ASSUME NEW s \in Sessions,
             \/ Run(s) \/ DrainList(s) \/ DrainSend(s) \/ DrainMark(s)
             \/ MemoMark(s) \/ SenderMark(s) \/ ThreadMark(s)
      PROVE  [registry!Next]_registry!vars
  <2>1. online' = online /\ todo' = todo
    BY <1>6 DEF Run, DrainList, DrainSend, DrainMark, MemoMark, SenderMark, ThreadMark
  <2>2. Walkers' = Walkers
    BY <1>0, <1>6
       DEF Run, DrainList, DrainSend, DrainMark, MemoMark, SenderMark, ThreadMark, Finish,
           TypeOK, Walkers
  <2> QED
    BY <1>a, <2>1, <2>2
<1>7. ASSUME NEW s \in Sessions,
             \/ Quit(s) \/ HangUp(s) \/ CloseThread(s)
             \/ (\E u \in Users : Submit(s, u) \/ OpenThread(s, u))
      PROVE  [registry!Next]_registry!vars
  <2>1. online' = online /\ todo' = todo
    BY <1>7 DEF Quit, HangUp, CloseThread, Submit, OpenThread
  <2>2. Walkers' = Walkers
    BY <1>0, <1>7 DEF Quit, HangUp, CloseThread, Submit, OpenThread, TypeOK, Walkers
  <2> QED
    BY <1>a, <2>1, <2>2
<1>8. ASSUME NEW id \in 1..MaxBalloons, AsyncMarkRead(id) PROVE [registry!Next]_registry!vars
  BY <1>8, <1>a DEF AsyncMarkRead, Walkers
<1>9. CASE UNCHANGED vars
  BY <1>9, <1>a DEF vars, Walkers
<1> QED
  BY <1>1, <1>2, <1>3, <1>4, <1>5, <1>6, <1>7, <1>8, <1>9 DEF Next, Step, User

\* The balloons assume no more of the broker than what Broker is proved to provide:
\* both implement the same registry.
THEOREM BalloonsUseTheRegistry == Spec => RegistrySpec
<1>1. Init => IInv /\ CallerRules /\ registry!Init
  BY InitIInv, CallerRulesStay DEF Init, registry!Init
<1>2. IInv /\ CallerRules /\ [Next]_vars => (IInv /\ CallerRules)'
  BY NextIInv, CallerRulesStay
<1>3. IInv /\ CallerRules /\ [Next]_vars => [registry!Next]_registry!vars
  BY NextRegistry
<1> QED
  BY <1>1, <1>2, <1>3, PTL DEF Spec, RegistrySpec, registry!Spec

=============================================================================
