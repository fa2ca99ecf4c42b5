----------------------------- MODULE MailProofs -----------------------------
(***************************************************************************)
(* Proofs about mail, for any number of users, sessions, mails and crashes.*)
(*                                                                         *)
(* The refinement rests on what holds between the two statements of Insert *)
(* as well: a screen lists, a form answers, an Update marks and a row      *)
(* refers to rows that have their thread (ListedAreFiled, ParentIsFiled,   *)
(* MarkedAreFiled, OnlyFiledUsed); and the row being inserted is the last  *)
(* one, a root, and what the form says (FillingIsLast).                    *)
(***************************************************************************)
EXTENDS Mail, FiniteSetTheorems, TLAPS

Memo(i) == mail[i].from = mail[i].to

ListedAreFiled == \A s \in Sessions : items[s] \subseteq Filed

ParentIsFiled == \A s \in Sessions : draft[s].parent \in {0} \cup Filed

FillingIsLast ==
    \A s \in Sessions : screen[s] = "filling" =>
        /\ lastMail \in DOMAIN mail /\ mail[lastMail].thread = NULL /\ mail[lastMail].parent = 0
        /\ mail[lastMail].from = owner[s] /\ mail[lastMail].to = draft[s].to
        /\ draft[s].parent = 0

MarkedAreFiled == \A s \in Sessions : marking[s] \subseteq Filed

OnlyFiledUsed ==
    /\ opened \subseteq Filed /\ ReadIds \subseteq Filed
    /\ \A i \in DOMAIN mail : mail[i].parent \in {0} \cup Filed

\* What an Update has still to mark was on the screen, or is a memo.
MarkedAreOpened ==
    \A s \in Sessions : \A i \in marking[s] : i \in opened \/ Memo(i)

MailInv ==
    /\ TypeOK /\ lastMail \in Nat
    /\ LockOnlyInsideInsert
    /\ ListedAreFiled /\ ParentIsFiled /\ FillingIsLast /\ MarkedAreFiled
    /\ MarkedAreOpened /\ ReadMeansOpened /\ OnlyFiledUsed

-----------------------------------------------------------------------------
(* The table.                                                              *)

\* With ids given out in order, the number of rows is the last id.
LEMMA CountIsLast ==
    ASSUME NEW n \in Nat
    PROVE  Cardinality(1..n) = n /\ IsFiniteSet(1..n)
BY FS_Interval

\* The initial state satisfies the inductive invariant.
LEMMA InitMailInv == Init => MailInv
<1> SUFFICES ASSUME Init
             PROVE  MailInv
  OBVIOUS
<1> USE MailAssumption DEF Init
<1>1. DOMAIN mail = {} /\ lastMail = 0
  BY FS_EmptySet DEF lastMail
<1>2. TypeOK /\ lastMail \in Nat
  <2>1. /\ DOMAIN mail = 1..lastMail /\ lastMail <= MaxMails /\ lastMail \in Nat
        /\ mail \in [DOMAIN mail -> Row]
        /\ \A i \in DOMAIN mail : mail[i].thread <= i /\ mail[i].parent < i
    BY <1>1
  <2>2. /\ writeMu \in Sessions \cup {NoSession}
        /\ screen \in [Sessions -> Screens]
        /\ items \in [Sessions -> SUBSET Ids]
        /\ marking \in [Sessions -> SUBSET Ids]
        /\ opened \in SUBSET Ids
        /\ crashes \in 0..MaxCrashes
    BY DEF Screens
  <2>3. draft \in [Sessions -> Draft]
    BY DEF Draft, Blank
  <2> QED
    BY <2>1, <2>2, <2>3 DEF TypeOK
<1>3. LockOnlyInsideInsert /\ FillingIsLast
  BY DEF LockOnlyInsideInsert, FillingIsLast
<1>4. ListedAreFiled /\ MarkedAreFiled /\ MarkedAreOpened /\ ReadMeansOpened
  BY <1>1 DEF ListedAreFiled, MarkedAreFiled, MarkedAreOpened, ReadMeansOpened
<1>5. ParentIsFiled
  BY DEF ParentIsFiled, Blank
<1>6. OnlyFiledUsed
  BY <1>1 DEF OnlyFiledUsed, ReadIds
<1> QED
  BY <1>2, <1>3, <1>4, <1>5, <1>6 DEF MailInv

\* What AddRow does to the table.
LEMMA AddRowFacts ==
    ASSUME TypeOK, lastMail \in Nat, NEW s \in Sessions, NEW t \in 0..lastMail,
           draft[s].parent \in 0..lastMail, lastMail < MaxMails, AddRow(s, t)
    PROVE  /\ lastMail' = lastMail + 1 /\ DOMAIN mail' = 1..(lastMail + 1)
           /\ mail' \in [DOMAIN mail' -> Row]
           /\ \A i \in DOMAIN mail : mail'[i] = mail[i]
           /\ lastMail + 1 \notin DOMAIN mail
           /\ mail'[lastMail + 1] = [thread |-> t, parent |-> draft[s].parent, from |-> owner[s],
                                     to |-> draft[s].to, read |-> FALSE]
           /\ \A i \in DOMAIN mail' : mail'[i].thread <= i /\ mail'[i].parent < i
<1> DEFINE n == lastMail
           new == [thread |-> t, parent |-> draft[s].parent, from |-> owner[s],
                   to |-> draft[s].to, read |-> FALSE]
<1>1. DOMAIN mail = 1..n /\ n \in Nat /\ MaxMails \in Nat
  BY MailAssumption DEF TypeOK
<1>2. DOMAIN mail' = 1..(n + 1)
  <2>1. DOMAIN mail' = (1..n) \cup {n + 1}
    BY <1>1 DEF AddRow
  <2> HIDE DEF n
  <2> QED
    BY <1>1, <2>1
<1>3. lastMail' = n + 1
  BY <1>1, <1>2, CountIsLast DEF lastMail
<1>4. new \in Row
  BY <1>1, MailAssumption DEF TypeOK, Row, Draft
<1>5. n + 1 \notin DOMAIN mail /\ n + 1 \in DOMAIN mail'
  <2> HIDE DEF n
  <2> QED  BY <1>1, <1>2
<1>6. mail'[n + 1] = new /\ \A i \in DOMAIN mail : mail'[i] = mail[i]
  BY <1>5 DEF AddRow
<1>7. mail' = [i \in DOMAIN mail' |-> mail'[i]]
  BY DEF AddRow
<1>8. \A i \in DOMAIN mail' : i \in DOMAIN mail \/ i = n + 1
  <2> HIDE DEF n
  <2> QED  BY <1>1, <1>2
<1>9. mail \in [DOMAIN mail -> Row] /\ \A i \in DOMAIN mail : mail[i].thread <= i /\ mail[i].parent < i
  BY DEF TypeOK
<1> HIDE DEF n, new
<1>10. mail' \in [DOMAIN mail' -> Row]
  BY <1>4, <1>6, <1>7, <1>8, <1>9
<1>11. \A i \in DOMAIN mail' : mail'[i].thread <= i /\ mail'[i].parent < i
  <2> SUFFICES ASSUME NEW i \in DOMAIN mail'
               PROVE  mail'[i].thread <= i /\ mail'[i].parent < i
    OBVIOUS
  <2>1. CASE i \in DOMAIN mail
    BY <2>1, <1>6, <1>9
  <2>2. CASE i = n + 1
    BY <2>2, <1>1, <1>6 DEF new, n
  <2> QED
    BY <1>8, <2>1, <2>2
<1> QED
  BY <1>2, <1>3, <1>5, <1>6, <1>10, <1>11 DEF n, new

-----------------------------------------------------------------------------
(* The steps.                                                              *)

\* A form is sent: the row of a reply has its thread at once.
LEMMA InsertStep ==
    ASSUME MailInv, NEW s \in Sessions, Insert(s)
    PROVE  MailInv'
<1> DEFINE n == lastMail
           thread == IF draft[s].parent = 0 THEN NULL ELSE mail[draft[s].parent].thread
<1>1. /\ DOMAIN mail = 1..n /\ n \in Nat /\ n < MaxMails /\ MaxMails \in Nat
      /\ mail \in [DOMAIN mail -> Row] /\ draft[s] \in Draft /\ draft[s].parent \in {0} \cup Filed
  BY MailAssumption DEF MailInv, TypeOK, ParentIsFiled, Insert
<1>2. /\ thread \in 0..n /\ draft[s].parent \in 0..n
      /\ thread = NULL <=> draft[s].parent = 0
  <2>1. CASE draft[s].parent = 0
    BY <1>1, <2>1 DEF NULL
  <2>2. CASE draft[s].parent # 0
    <3>1. draft[s].parent \in 1..n /\ mail[draft[s].parent].thread # NULL
      BY <1>1, <2>2 DEF Filed
    <3>2. mail[draft[s].parent].thread <= draft[s].parent /\ mail[draft[s].parent] \in Row
      BY <1>1, <3>1 DEF MailInv, TypeOK
    <3> QED
      BY <1>1, <2>2, <3>1, <3>2 DEF Row
  <2> QED
    BY <2>1, <2>2
<1>3. AddRow(s, thread)
  BY DEF Insert
<1>4. /\ lastMail' = n + 1 /\ DOMAIN mail' = 1..(n + 1)
      /\ mail' \in [DOMAIN mail' -> Row]
      /\ \A i \in DOMAIN mail : mail'[i] = mail[i]
      /\ n + 1 \notin DOMAIN mail
      /\ mail'[n + 1] = [thread |-> thread, parent |-> draft[s].parent, from |-> owner[s],
                         to |-> draft[s].to, read |-> FALSE]
      /\ \A i \in DOMAIN mail' : mail'[i].thread <= i /\ mail'[i].parent < i
  BY <1>1, <1>2, <1>3, AddRowFacts DEF MailInv
<1> HIDE DEF n, thread
<1>5. \A i \in DOMAIN mail' : i \in DOMAIN mail \/ i = n + 1
  BY <1>1, <1>4
<1>6. DOMAIN mail \subseteq DOMAIN mail' /\ n + 1 \in DOMAIN mail' /\ n + 1 \in Ids
  BY <1>1, <1>4 DEF Ids
<1>7. /\ items' = items /\ opened' = opened /\ crashes' = crashes
      /\ screen[s] = "compose" /\ writeMu = NoSession
      /\ \/ /\ thread = NULL /\ writeMu' = s /\ screen' = [screen EXCEPT ![s] = "filling"]
            /\ draft' = draft /\ marking' = marking
         \/ thread # NULL /\ writeMu' = writeMu /\ Answer(s, n + 1)
  BY DEF Insert, GoTo, n, thread
<1>a. /\ screen' \in [Sessions -> Screens] /\ marking' \in [Sessions -> SUBSET Ids]
      /\ draft' \in [Sessions -> Draft]
      /\ \A d \in Sessions : draft'[d].parent \in {0, draft[d].parent}
      /\ \A d \in Sessions : draft'[d] = draft[d] \/ (d = s /\ thread # NULL)
      /\ \A d \in Sessions : \A i \in marking'[d] :
            i \in marking[d] \/ (i = n + 1 /\ thread # NULL /\ draft[s].to = owner[s])
      /\ \A d \in Sessions : screen'[d] = "filling" <=> (screen[d] = "filling" \/ (d = s /\ thread = NULL))
  <2>1. Blank(s) \in Draft /\ Blank(s).parent = 0
    BY <1>1, MailAssumption DEF Blank, Draft
  <2>2. /\ screen \in [Sessions -> Screens] /\ marking \in [Sessions -> SUBSET Ids]
        /\ draft \in [Sessions -> Draft]
    BY DEF MailInv, TypeOK
  <2>3. CASE thread = NULL
    BY <1>7, <2>2, <2>3 DEF Screens
  <2>4. CASE thread # NULL
    <3>1. Follow(s, n + 1) \/ Refuse(s)
      BY <1>7, <2>4 DEF Answer
    <3>2. CASE Follow(s, n + 1)
      <4>1. /\ screen' = [screen EXCEPT ![s] = "sent"]
            /\ marking' = [marking EXCEPT ![s] = IF draft[s].to = owner[s] THEN {n + 1} ELSE {}]
            /\ draft' = [draft EXCEPT ![s] = Blank(s)]
        BY <3>2 DEF Follow, GoTo
      <4> QED
        BY <1>6, <1>7, <2>1, <2>2, <2>4, <4>1 DEF Screens
    <3>3. CASE Refuse(s)
      BY <1>7, <2>2, <2>4, <3>3 DEF Refuse, GoTo, Screens
    <3> QED
      BY <3>1, <3>2, <3>3
  <2> QED
    BY <2>3, <2>4
<1>8. TypeOK'
  <2>1. writeMu' \in Sessions \cup {NoSession}
    BY <1>7
  <2>2. items' \in [Sessions -> SUBSET Ids] /\ opened' \in SUBSET Ids /\ crashes' \in 0..MaxCrashes
    BY <1>7 DEF MailInv, TypeOK, Ids
  <2> QED
    BY <1>1, <1>4, <1>a, <2>1, <2>2 DEF TypeOK
<1>9. LockOnlyInsideInsert'
  BY <1>7, <1>a, MailAssumption DEF MailInv, LockOnlyInsideInsert
<1>10. Filed \subseteq Filed' /\ (thread # NULL => n + 1 \in Filed')
  BY <1>4, <1>6 DEF Filed
<1>11. ListedAreFiled' /\ ParentIsFiled'
  <2>1. ListedAreFiled'
    BY <1>7, <1>10 DEF MailInv, ListedAreFiled
  <2>2. ParentIsFiled'
    BY <1>a, <1>10 DEF MailInv, ParentIsFiled
  <2> QED
    BY <2>1, <2>2
<1>12. FillingIsLast'
  <2>1. \A d \in Sessions : screen[d] # "filling"
    BY <1>7, MailAssumption DEF MailInv, LockOnlyInsideInsert
  <2>2. \A d \in Sessions : screen'[d] = "filling" => d = s /\ thread = NULL /\ draft'[d] = draft[d]
    BY <1>a, <2>1
  <2> QED
    BY <1>2, <1>4, <1>6, <2>2 DEF FillingIsLast
<1>13. MarkedAreFiled'
  BY <1>10, <1>a DEF MailInv, MarkedAreFiled
<1>14. MarkedAreOpened'
  <2> SUFFICES ASSUME NEW d \in Sessions, NEW i \in marking'[d]
               PROVE  i \in opened' \/ Memo(i)'
    BY DEF MarkedAreOpened
  <2>1. CASE i \in marking[d]
    <3>1. i \in DOMAIN mail
      BY <2>1 DEF MailInv, MarkedAreFiled, Filed
    <3> QED
      BY <1>4, <1>7, <2>1, <3>1 DEF MailInv, MarkedAreOpened, Memo
  <2>2. CASE i \notin marking[d]
    <3>1. i = n + 1 /\ draft[s].to = owner[s]
      BY <1>a, <2>2
    <3> QED
      BY <1>4, <3>1 DEF Memo
  <2> QED
    BY <2>1, <2>2
<1>15. ReadMeansOpened'
  BY <1>4, <1>5, <1>7 DEF MailInv, ReadMeansOpened
<1>16. OnlyFiledUsed'
  <2>1. ReadIds' \subseteq ReadIds
    BY <1>4, <1>5 DEF ReadIds
  <2>2. \A i \in DOMAIN mail' : mail'[i].parent \in {0} \cup Filed
    BY <1>1, <1>4, <1>5 DEF MailInv, OnlyFiledUsed
  <2> QED
    BY <1>7, <1>10, <2>1, <2>2 DEF MailInv, OnlyFiledUsed
<1> QED
  BY <1>1, <1>4, <1>8, <1>9, <1>11, <1>12, <1>13, <1>14, <1>15, <1>16 DEF MailInv

\* The second statement of a root.
LEMMA FillThreadStep ==
    ASSUME MailInv, NEW s \in Sessions, FillThread(s)
    PROVE  MailInv'
<1> DEFINE n == lastMail
<1>1. /\ DOMAIN mail = 1..n /\ n \in DOMAIN mail /\ n \in Nat /\ n <= MaxMails
      /\ mail \in [DOMAIN mail -> Row] /\ mail[n].thread = NULL
      /\ mail[n].from = owner[s] /\ mail[n].to = draft[s].to
      /\ screen[s] = "filling" /\ writeMu = s /\ writeMu # NoSession
  BY MailAssumption DEF MailInv, TypeOK, FillingIsLast, LockOnlyInsideInsert, FillThread
<1>2. /\ mail' = [mail EXCEPT ![n].thread = n]
      /\ writeMu' = NoSession /\ Answer(s, n)
      /\ items' = items /\ opened' = opened /\ crashes' = crashes
  BY DEF FillThread
<1>3. DOMAIN mail' = DOMAIN mail /\ lastMail' = n
  BY <1>2 DEF lastMail
<1> HIDE DEF n
<1>4. /\ \A i \in DOMAIN mail \ {n} : mail'[i] = mail[i]
      /\ mail'[n] = [mail[n] EXCEPT !.thread = n]
  BY <1>1, <1>2
<1>5. mail[n] \in Row /\ n # NULL /\ n \in 0..MaxMails
  BY <1>1, MailAssumption DEF NULL
<1>6. /\ mail'[n] \in Row /\ mail'[n].thread = n /\ mail'[n].parent = mail[n].parent
      /\ mail'[n].from = mail[n].from /\ mail'[n].to = mail[n].to /\ mail'[n].read = mail[n].read
  BY <1>4, <1>5 DEF Row
<1>a. /\ screen' \in [Sessions -> Screens] /\ marking' \in [Sessions -> SUBSET Ids]
      /\ draft' \in [Sessions -> Draft]
      /\ \A d \in Sessions : draft'[d].parent \in {0, draft[d].parent}
      /\ \A d \in Sessions : \A i \in marking'[d] : i \in marking[d] \/ (i = n /\ draft[s].to = owner[s])
      /\ \A d \in Sessions : screen'[d] # "filling"
  <2>1. Blank(s) \in Draft /\ Blank(s).parent = 0
    BY <1>1, MailAssumption DEF Blank, Draft
  <2>2. /\ screen \in [Sessions -> Screens] /\ marking \in [Sessions -> SUBSET Ids]
        /\ draft \in [Sessions -> Draft] /\ \A d \in Sessions \ {s} : screen[d] # "filling"
    BY <1>1 DEF MailInv, TypeOK, LockOnlyInsideInsert
  <2>3. n \in Ids
    BY <1>1, MailAssumption DEF Ids
  <2>4. CASE Follow(s, n)
    <3>1. /\ screen' = [screen EXCEPT ![s] = "sent"]
          /\ marking' = [marking EXCEPT ![s] = IF draft[s].to = owner[s] THEN {n} ELSE {}]
          /\ draft' = [draft EXCEPT ![s] = Blank(s)]
      BY <2>4 DEF Follow, GoTo
    <3> QED
      BY <2>1, <2>2, <2>3, <3>1 DEF Screens
  <2>5. CASE Refuse(s)
    BY <2>2, <2>5 DEF Refuse, GoTo, Screens
  <2> QED
    BY <1>2, <2>4, <2>5 DEF Answer
<1>7. TypeOK'
  <2>1. mail' \in [DOMAIN mail' -> Row]
    BY <1>1, <1>2, <1>3, <1>4, <1>6
  <2>2. \A i \in DOMAIN mail' : mail'[i].thread <= i /\ mail'[i].parent < i
    <3>1. \A i \in DOMAIN mail : mail[i].thread <= i /\ mail[i].parent < i
      BY DEF MailInv, TypeOK
    <3>2. mail'[n].thread <= n /\ mail'[n].parent < n
      BY <1>1, <1>6, <3>1
    <3> QED
      BY <1>3, <1>4, <3>1, <3>2
  <2>3. /\ items' \in [Sessions -> SUBSET Ids] /\ writeMu' \in Sessions \cup {NoSession}
        /\ opened' \in SUBSET Ids /\ crashes' \in 0..MaxCrashes
    BY <1>2 DEF MailInv, TypeOK, Ids
  <2> QED
    BY <1>1, <1>3, <1>a, <2>1, <2>2, <2>3 DEF TypeOK
<1>8. LockOnlyInsideInsert' /\ FillingIsLast'
  BY <1>2, <1>a, MailAssumption DEF LockOnlyInsideInsert, FillingIsLast
<1>9. Filed' = Filed \cup {n}
  BY <1>1, <1>3, <1>4, <1>5, <1>6 DEF Filed
<1>10. ListedAreFiled' /\ ParentIsFiled'
  <2>1. ListedAreFiled'
    BY <1>2, <1>9 DEF MailInv, ListedAreFiled
  <2>2. ParentIsFiled'
    BY <1>9, <1>a DEF MailInv, ParentIsFiled
  <2> QED
    BY <2>1, <2>2
<1>11. MarkedAreFiled'
  BY <1>9, <1>a DEF MailInv, MarkedAreFiled
<1>12. \A i \in DOMAIN mail : Memo(i) => Memo(i)'
  BY <1>4, <1>6 DEF Memo
<1>13. MarkedAreOpened'
  <2>1. \A d \in Sessions : \A i \in marking[d] : i \in DOMAIN mail
    BY DEF MailInv, MarkedAreFiled, Filed
  <2> SUFFICES ASSUME NEW d \in Sessions, NEW i \in marking'[d]
               PROVE  i \in opened' \/ Memo(i)'
    BY DEF MarkedAreOpened
  <2>2. CASE i \in marking[d]
    BY <1>2, <1>12, <2>1, <2>2 DEF MailInv, MarkedAreOpened
  <2>3. CASE i = n /\ draft[s].to = owner[s]
    BY <1>1, <1>6, <2>3 DEF Memo
  <2> QED
    BY <1>a, <2>2, <2>3
<1>14. ReadMeansOpened'
  BY <1>2, <1>3, <1>4, <1>6 DEF MailInv, ReadMeansOpened
<1>15. OnlyFiledUsed'
  <2>1. ReadIds' = ReadIds
    BY <1>1, <1>3, <1>4, <1>6 DEF ReadIds
  <2>2. \A i \in DOMAIN mail' : mail'[i].parent \in {0} \cup Filed
    BY <1>1, <1>3, <1>4, <1>6 DEF MailInv, OnlyFiledUsed
  <2> QED
    BY <1>2, <1>9, <2>1, <2>2 DEF MailInv, OnlyFiledUsed
<1> QED
  BY <1>1, <1>3, <1>7, <1>8, <1>10, <1>11, <1>13, <1>14, <1>15 DEF MailInv

\* The second statement fails: the row keeps its NULL, and the form stays.
LEMMA FillFailsStep ==
    ASSUME MailInv, NEW s \in Sessions, FillFails(s)
    PROVE  MailInv' /\ UNCHANGED mail
<1>1. /\ mail' = mail /\ writeMu' = NoSession /\ screen' = [screen EXCEPT ![s] = "compose"]
      /\ items' = items /\ draft' = draft /\ marking' = marking
      /\ opened' = opened /\ crashes' = crashes /\ writeMu = s
  BY DEF FillFails, Refuse, GoTo, MailInv, LockOnlyInsideInsert
<1>2. lastMail' = lastMail /\ Filed' = Filed /\ ReadIds' = ReadIds
  BY <1>1 DEF lastMail, Filed, ReadIds
<1>3. TypeOK'
  <2>1. screen' \in [Sessions -> Screens] /\ writeMu' \in Sessions \cup {NoSession}
    BY <1>1 DEF MailInv, TypeOK, Screens
  <2> QED
    BY <1>1, <1>2, <2>1 DEF MailInv, TypeOK, Ids
<1>4. LockOnlyInsideInsert' /\ FillingIsLast'
  <2>1. \A d \in Sessions : screen'[d] # "filling"
    BY <1>1 DEF MailInv, TypeOK, LockOnlyInsideInsert
  <2> QED
    BY <1>1, <2>1, MailAssumption DEF LockOnlyInsideInsert, FillingIsLast
<1>5. ListedAreFiled' /\ ParentIsFiled' /\ MarkedAreFiled' /\ OnlyFiledUsed'
  BY <1>1, <1>2 DEF MailInv, ListedAreFiled, ParentIsFiled, MarkedAreFiled, OnlyFiledUsed
<1>6. MarkedAreOpened' /\ ReadMeansOpened'
  BY <1>1 DEF MailInv, MarkedAreOpened, ReadMeansOpened, Memo
<1> QED
  BY <1>1, <1>2, <1>3, <1>4, <1>5, <1>6 DEF MailInv

\* A mail is marked, the lock being free: nobody is between the statements.
LEMMA MarkReadStep ==
    ASSUME MailInv, NEW s \in Sessions, NEW id \in Ids, MarkRead(s, id)
    PROVE  MailInv' /\ id \in Filed
<1>1. /\ mail' = [mail EXCEPT ![id].read = TRUE]
      /\ marking' = [marking EXCEPT ![s] = @ \ {id}]
      /\ writeMu' = writeMu /\ screen' = screen /\ items' = items /\ draft' = draft
      /\ opened' = opened /\ crashes' = crashes
      /\ id \in marking[s] /\ writeMu = NoSession
  BY DEF MarkRead
<1>2. \A d \in Sessions : screen[d] # "filling"
  BY <1>1, MailAssumption DEF MailInv, LockOnlyInsideInsert
<1>3. id \in Filed /\ id \in DOMAIN mail
  BY <1>1, <1>2 DEF MailInv, MarkedAreFiled, Filed
<1>4. /\ DOMAIN mail' = DOMAIN mail /\ lastMail' = lastMail
      /\ \A i \in DOMAIN mail \ {id} : mail'[i] = mail[i]
      /\ mail'[id] = [mail[id] EXCEPT !.read = TRUE]
      /\ mail \in [DOMAIN mail -> Row] /\ mail[id] \in Row
  BY <1>1, <1>3 DEF lastMail, MailInv, TypeOK
<1>5. /\ mail'[id] \in Row /\ mail'[id].thread = mail[id].thread
      /\ mail'[id].parent = mail[id].parent
      /\ mail'[id].from = mail[id].from /\ mail'[id].to = mail[id].to
  BY <1>4 DEF Row
<1>6. \A d \in Sessions : marking'[d] \subseteq marking[d]
  BY <1>1 DEF MailInv, TypeOK
<1>7. TypeOK'
  <2>1. mail' \in [DOMAIN mail' -> Row]
    BY <1>1, <1>3, <1>4, <1>5
  <2>2. \A i \in DOMAIN mail' : mail'[i].thread <= i /\ mail'[i].parent < i
    BY <1>3, <1>4, <1>5 DEF MailInv, TypeOK
  <2>3. marking' \in [Sessions -> SUBSET Ids]
    BY <1>1 DEF MailInv, TypeOK
  <2>4. /\ screen' \in [Sessions -> Screens] /\ writeMu' \in Sessions \cup {NoSession}
        /\ items' \in [Sessions -> SUBSET Ids] /\ draft' \in [Sessions -> Draft]
        /\ opened' \in SUBSET Ids /\ crashes' \in 0..MaxCrashes
    BY <1>1 DEF MailInv, TypeOK, Ids
  <2> QED
    BY <1>4, <2>1, <2>2, <2>3, <2>4 DEF MailInv, TypeOK
<1>8. LockOnlyInsideInsert' /\ FillingIsLast'
  BY <1>1, <1>2 DEF MailInv, LockOnlyInsideInsert, FillingIsLast
<1>9. Filed' = Filed /\ Unfiled' = Unfiled
  BY <1>3, <1>4, <1>5 DEF Filed, Unfiled
<1>10. ListedAreFiled' /\ ParentIsFiled'
  BY <1>1, <1>9 DEF MailInv, ListedAreFiled, ParentIsFiled
<1>11. MarkedAreFiled'
  BY <1>1, <1>4, <1>6, <1>9 DEF MailInv, MarkedAreFiled
<1>12. \A i \in DOMAIN mail : Memo(i) => Memo(i)'
  BY <1>4, <1>5 DEF Memo
<1>13. MarkedAreOpened'
  <2>1. \A d \in Sessions : \A i \in marking[d] : i \in DOMAIN mail
    BY <1>2 DEF MailInv, MarkedAreFiled, Filed
  <2> QED
    BY <1>1, <1>6, <1>12, <2>1 DEF MailInv, MarkedAreOpened
<1>14. ReadMeansOpened'
  <2>1. id \in opened \/ Memo(id)'
    BY <1>1, <1>3, <1>12 DEF MailInv, MarkedAreOpened
  <2> QED
    BY <1>1, <1>3, <1>4, <2>1 DEF MailInv, ReadMeansOpened, Memo
<1>15. OnlyFiledUsed'
  <2>1. ReadIds' \subseteq ReadIds \cup {id}
    BY <1>4 DEF ReadIds
  <2>2. \A i \in DOMAIN mail' : mail'[i].parent = mail[i].parent
    BY <1>4, <1>5
  <2> QED
    BY <1>1, <1>3, <1>4, <1>9, <2>1, <2>2 DEF MailInv, OnlyFiledUsed
<1> QED
  BY <1>3, <1>4, <1>7, <1>8, <1>10, <1>11, <1>13, <1>14, <1>15 DEF MailInv

\* A key moves a session to another screen: nothing is written.
LEMMA ScreenStep ==
    ASSUME MailInv, NEW s \in Sessions, NEW scr \in Screens \ {"filling"},
           NEW ids \in SUBSET Filed, NEW form \in Draft, form.parent \in {0} \cup Filed,
           NEW marks \in SUBSET Filed, \A i \in marks : i \in opened' \/ Memo(i),
           screen[s] # "filling",
           screen' = [screen EXCEPT ![s] = scr], items' = [items EXCEPT ![s] = ids],
           draft' = [draft EXCEPT ![s] = form], marking' = [marking EXCEPT ![s] = marks],
           opened \subseteq opened', opened' \subseteq Filed, UNCHANGED <<mail, writeMu, crashes>>
    PROVE  MailInv'
<1>1. Filed \subseteq Ids /\ Filed' = Filed /\ ReadIds' = ReadIds /\ lastMail' = lastMail
  BY MailAssumption DEF MailInv, TypeOK, Filed, ReadIds, Ids, lastMail
<1>2. TypeOK'
  <2>1. /\ screen' \in [Sessions -> Screens] /\ items' \in [Sessions -> SUBSET Ids]
        /\ draft' \in [Sessions -> Draft] /\ marking' \in [Sessions -> SUBSET Ids]
    BY <1>1 DEF MailInv, TypeOK
  <2> QED
    BY <1>1, <2>1 DEF MailInv, TypeOK, Ids
<1>3. LockOnlyInsideInsert' /\ FillingIsLast'
  BY <1>1 DEF MailInv, TypeOK, LockOnlyInsideInsert, FillingIsLast
<1>4. ListedAreFiled' /\ ParentIsFiled'
  BY <1>1 DEF MailInv, TypeOK, ListedAreFiled, ParentIsFiled
<1>5. MarkedAreFiled'
  BY <1>1 DEF MailInv, TypeOK, MarkedAreFiled
<1>6. MarkedAreOpened'
  BY DEF MailInv, TypeOK, MarkedAreOpened, Memo
<1>7. ReadMeansOpened'
  BY DEF MailInv, ReadMeansOpened
<1>8. OnlyFiledUsed'
  BY <1>1 DEF MailInv, OnlyFiledUsed
<1> QED
  BY <1>1, <1>2, <1>3, <1>4, <1>5, <1>6, <1>7, <1>8 DEF MailInv

\* MarkRead fails: the mail is not tried again.
LEMMA MarkFailsStep ==
    ASSUME MailInv, NEW s \in Sessions, NEW id \in Ids, MarkFails(s, id)
    PROVE  MailInv' /\ UNCHANGED mail
<1>1. /\ marking' = [marking EXCEPT ![s] = @ \ {id}] /\ writeMu = NoSession
      /\ UNCHANGED <<mail, writeMu, screen, items, draft, opened, crashes>>
  BY DEF MarkFails
<1>2. /\ screen \in [Sessions -> Screens] /\ items \in [Sessions -> SUBSET Ids]
      /\ draft \in [Sessions -> Draft] /\ marking \in [Sessions -> SUBSET Ids]
      /\ opened \subseteq Filed
  BY DEF MailInv, TypeOK, OnlyFiledUsed
<1>3. /\ screen[s] # "filling" /\ items[s] \subseteq Filed /\ draft[s].parent \in {0} \cup Filed
      /\ marking[s] \ {id} \subseteq Filed
      /\ \A i \in marking[s] \ {id} : i \in opened \/ Memo(i)
  BY <1>1, MailAssumption DEF MailInv, LockOnlyInsideInsert, ListedAreFiled, ParentIsFiled,
     MarkedAreFiled, MarkedAreOpened
<1>4. /\ screen' = [screen EXCEPT ![s] = screen[s]] /\ items' = [items EXCEPT ![s] = items[s]]
      /\ draft' = [draft EXCEPT ![s] = draft[s]]
      /\ marking' = [marking EXCEPT ![s] = marking[s] \ {id}]
  BY <1>1, <1>2
<1>5. /\ draft[s] \in Draft /\ screen[s] \in Screens \ {"filling"}
      /\ opened \subseteq opened' /\ opened' \subseteq Filed
      /\ \A i \in marking[s] \ {id} : i \in opened' \/ Memo(i)
  BY <1>1, <1>2, <1>3
<1> HIDE DEF Filed
<1> QED
  BY <1>1, <1>3, <1>4, <1>5, ScreenStep

\* The keys, one by one.
LEMMA KeyStep ==
    ASSUME MailInv, NEW s \in Sessions,
           \/ OpenInbox(s) \/ Leave(s)
           \/ \E id \in Ids : OpenThread(s, id)
           \/ \E to \in Users : \/ Compose(s, to)
                               \/ \E id \in Ids : ReplyInbox(s, to, id) \/ ReplyThread(s, to, id)
    PROVE  MailInv' /\ UNCHANGED mail
<1>1. /\ screen \in [Sessions -> Screens] /\ items \in [Sessions -> SUBSET Ids]
      /\ draft \in [Sessions -> Draft] /\ marking \in [Sessions -> SUBSET Ids] /\ opened \in SUBSET Ids
      /\ items[s] \subseteq Filed /\ draft[s] \in Draft /\ draft[s].parent \in {0} \cup Filed
      /\ Filed \subseteq Ids /\ opened \subseteq Filed
  <2>1. Filed \subseteq Ids
    BY MailAssumption DEF MailInv, TypeOK, Filed, Ids
  <2> QED
    BY <2>1 DEF MailInv, TypeOK, ListedAreFiled, ParentIsFiled, OnlyFiledUsed
<1>2. Blank(s) \in Draft /\ Blank(s).parent = 0
  BY MailAssumption DEF Blank, Draft
<1>3. \A scr \in Screens : At(s, scr) => marking[s] = {} /\ screen[s] = scr
  BY DEF At
<1>4. marking[s] = {} => marking = [marking EXCEPT ![s] = {}]
  BY <1>1
<1>5. ASSUME OpenInbox(s) PROVE MailInv' /\ UNCHANGED mail
  <2>1. ListInboxFor(owner[s]) \subseteq Filed
    BY DEF ListInboxFor, Readable, Filed, Unfiled
  <2>2. marking[s] = {} /\ screen[s] # "filling"
    BY <1>3, <1>5 DEF OpenInbox, Screens
  <2>3. /\ screen' = [screen EXCEPT ![s] = "inbox"] /\ draft' = [draft EXCEPT ![s] = Blank(s)]
        /\ items' = [items EXCEPT ![s] = ListInboxFor(owner[s])]
        /\ marking' = [marking EXCEPT ![s] = {}]
        /\ UNCHANGED <<mail, writeMu, opened, crashes>>
    BY <1>4, <1>5, <2>2 DEF OpenInbox, GoTo
  <2>4. "inbox" \in Screens \ {"filling"}
    BY DEF Screens
  <2> HIDE DEF Filed
  <2> QED
    BY <1>1, <1>2, <2>1, <2>2, <2>3, <2>4, ScreenStep
<1>6. ASSUME Leave(s) PROVE MailInv' /\ UNCHANGED mail
  <2>1. marking[s] = {} /\ screen[s] # "filling"
    BY <1>3, <1>6 DEF Leave, Screens
  <2>2. /\ screen' = [screen EXCEPT ![s] = "menu"] /\ draft' = [draft EXCEPT ![s] = Blank(s)]
        /\ items' = [items EXCEPT ![s] = {}] /\ marking' = [marking EXCEPT ![s] = {}]
        /\ UNCHANGED <<mail, writeMu, opened, crashes>>
    BY <1>4, <1>6, <2>1 DEF Leave, GoTo
  <2>3. "menu" \in Screens \ {"filling"}
    BY DEF Screens
  <2> QED
    BY <1>1, <1>2, <2>1, <2>2, <2>3, ScreenStep
<1>7. ASSUME NEW id \in Ids, OpenThread(s, id) PROVE MailInv' /\ UNCHANGED mail
  <2> DEFINE listed == ListThread(mail[id].thread)
             marks  == Unread(s, listed)
  <2>1. screen[s] = "inbox" /\ id \in items[s]
    BY <1>7 DEF OpenThread, At
  <2>2. listed \subseteq Filed
    BY <1>1, <2>1 DEF ListThread, Filed
  <2>3. marks \subseteq listed /\ \A i \in marks : mail[i].to = owner[s]
    BY DEF Unread
  <2>4. /\ screen' = [screen EXCEPT ![s] = "thread"] /\ items' = [items EXCEPT ![s] = listed]
        /\ marking' = [marking EXCEPT ![s] = marks] /\ draft' = [draft EXCEPT ![s] = draft[s]]
        /\ opened' = opened \cup {i \in listed : mail[i].to = owner[s]}
        /\ UNCHANGED <<mail, writeMu, crashes>>
    BY <1>1, <1>7 DEF OpenThread, GoTo
  <2> HIDE DEF listed, marks
  <2>5. /\ \A i \in marks : i \in opened'
        /\ opened \subseteq opened' /\ opened' \subseteq Filed
        /\ "thread" \in Screens \ {"filling"} /\ marks \subseteq Filed
    BY <1>1, <2>2, <2>3, <2>4 DEF Screens
  <2> QED
    BY <1>1, <2>1, <2>2, <2>4, <2>5, ScreenStep
<1>8. ASSUME NEW to \in Users, NEW parent \in {0} \cup Filed, Form(s, to, parent),
             marking[s] = {}, screen[s] # "filling"
      PROVE  MailInv' /\ UNCHANGED mail
  <2> DEFINE form == [to |-> to, parent |-> parent]
  <2>1. form \in Draft /\ form.parent \in {0} \cup Filed
    BY <1>1, MailAssumption DEF Draft, Ids
  <2>2. /\ screen' = [screen EXCEPT ![s] = "compose"] /\ draft' = [draft EXCEPT ![s] = form]
        /\ items' = [items EXCEPT ![s] = {}] /\ marking' = [marking EXCEPT ![s] = {}]
        /\ UNCHANGED <<mail, writeMu, opened, crashes>>
    BY <1>4, <1>8 DEF Form, GoTo
  <2>3. "compose" \in Screens \ {"filling"}
    BY DEF Screens
  <2> HIDE DEF form
  <2> QED
    BY <1>1, <1>8, <2>1, <2>2, <2>3, ScreenStep
<1>9. ASSUME NEW to \in Users, Compose(s, to) PROVE MailInv' /\ UNCHANGED mail
  BY <1>8, <1>9 DEF Compose, At
<1>10. ASSUME NEW to \in Users, NEW id \in Ids, ReplyInbox(s, to, id) \/ ReplyThread(s, to, id)
       PROVE  MailInv' /\ UNCHANGED mail
  <2>1. id \in Filed /\ Form(s, to, id) /\ marking[s] = {} /\ screen[s] # "filling"
    BY <1>1, <1>10 DEF ReplyInbox, ReplyThread, At
  <2> QED
    BY <1>8, <2>1
<1> QED
  BY <1>5, <1>6, <1>7, <1>9, <1>10

\* The process dies, maybe between the two statements: one more row may be left
\* without a thread.
LEMMA CrashStep ==
    ASSUME MailInv, Crash
    PROVE  MailInv' /\ UNCHANGED mail
<1>1. /\ crashes' = crashes + 1 /\ crashes < MaxCrashes /\ crashes \in Nat
      /\ writeMu' = NoSession
      /\ screen' = [s \in Sessions |-> "menu"]
      /\ items' = [s \in Sessions |-> {}]
      /\ draft' = [s \in Sessions |-> Blank(s)]
      /\ marking' = [s \in Sessions |-> {}]
      /\ mail' = mail /\ opened' = opened
  BY MailAssumption DEF Crash, MailInv, TypeOK
<1>2. \A s \in Sessions : Blank(s) \in Draft /\ Blank(s).parent = 0
  BY MailAssumption DEF Blank, Draft
<1>3. lastMail' = lastMail /\ ReadIds' = ReadIds /\ Filed' = Filed
  BY <1>1 DEF lastMail, ReadIds, Filed
<1>4. TypeOK'
  <2>1. /\ screen' \in [Sessions -> Screens] /\ items' \in [Sessions -> SUBSET Ids]
        /\ marking' \in [Sessions -> SUBSET Ids] /\ writeMu' \in Sessions \cup {NoSession}
    BY <1>1 DEF Screens
  <2>2. draft' \in [Sessions -> Draft]
    BY <1>1, <1>2
  <2>3. crashes' \in 0..MaxCrashes
    BY <1>1, MailAssumption
  <2> QED
    BY <1>1, <1>3, <2>1, <2>2, <2>3 DEF MailInv, TypeOK, Ids
<1>5. LockOnlyInsideInsert' /\ FillingIsLast' /\ ListedAreFiled' /\ MarkedAreFiled' /\ MarkedAreOpened'
  BY <1>1, MailAssumption DEF LockOnlyInsideInsert, FillingIsLast, ListedAreFiled, MarkedAreFiled, MarkedAreOpened
<1>6. ParentIsFiled'
  BY <1>1, <1>2 DEF ParentIsFiled
<1>7. ReadMeansOpened'
  BY <1>1 DEF MailInv, ReadMeansOpened
<1>8. OnlyFiledUsed'
  BY <1>1, <1>3 DEF MailInv, OnlyFiledUsed
<1> QED
  BY <1>1, <1>3, <1>4, <1>5, <1>6, <1>7, <1>8 DEF MailInv

\* Every step preserves the inductive invariant.
LEMMA NextMailInv == MailInv /\ [Next]_vars => MailInv'
<1> SUFFICES ASSUME MailInv, [Next]_vars
             PROVE  MailInv'
  OBVIOUS
<1>1. CASE UNCHANGED vars
  <2>1. lastMail' = lastMail /\ Filed' = Filed /\ ReadIds' = ReadIds
    BY <1>1 DEF vars, lastMail, Filed, ReadIds
  <2> QED
    BY <1>1, <2>1 DEF vars, screenVars, MailInv, TypeOK, LockOnlyInsideInsert, ListedAreFiled,
       ParentIsFiled, FillingIsLast, MarkedAreFiled, MarkedAreOpened, Memo, ReadMeansOpened, OnlyFiledUsed
<1>2. ASSUME NEW s \in Sessions, Running(s) PROVE MailInv'
  BY <1>2, FillThreadStep, FillFailsStep, MarkReadStep, MarkFailsStep DEF Running
<1>3. ASSUME NEW s \in Sessions, Insert(s) PROVE MailInv'
  BY <1>3, InsertStep
<1>4. CASE Crash
  BY <1>4, CrashStep
<1> QED
  BY <1>1, <1>2, <1>3, <1>4, KeyStep DEF Next

\* The inductive invariant holds throughout.
LEMMA MailInvariant == Spec => []MailInv
BY InitMailInv, NextMailInv, PTL DEF Spec

-----------------------------------------------------------------------------
(* What is promised.                                                       *)

\* The table and the screens keep their types: ids are given out in order, and no
\* row refers to a later one.
THEOREM MailTypeOK == Spec => []TypeOK
BY MailInvariant, PTL DEF MailInv

\* MailRepo.Insert holds writeMu between its two statements and at no other time,
\* however many sessions write and die.
THEOREM MailLockDiscipline == Spec => []LockOnlyInsideInsert
BY MailInvariant, PTL DEF MailInv

\* A mail is marked as read only after its recipient had it on the screen, or when
\* it is a memo: newMailThreadModel never marks what arrives behind its back.
THEOREM ReadMailWasOpened == Spec => []ReadMeansOpened
BY MailInvariant, PTL DEF MailInv

\* A root that lost its second statement, to a crash or to an error, is on no screen,
\* has no reply, was never opened and is not read: it makes lists fail and nothing
\* else.
THEOREM UnfiledStaysInert == Spec => []UnfiledInert
<1>1. MailInv => UnfiledInert
  BY DEF MailInv, OnlyFiledUsed, ListedAreFiled, UnfiledInert, Unfiled, Filed, ReadIds, TypeOK, NULL
<1> QED
  BY <1>1, MailInvariant, PTL

-----------------------------------------------------------------------------
(* The refinement.                                                         *)

\* Nothing of a mail that can be read changes when other rows do.
LEMMA SameVisible ==
    ASSUME mail' = mail
    PROVE  Visible' = Visible /\ ReadIds' = ReadIds
BY DEF Visible, ReadIds, Filed

\* A sent form: a reply appears in the thread of its parent, a root not yet.
LEMMA InsertIsAppear ==
    ASSUME MailInv, NEW s \in Sessions, Insert(s)
    PROVE  [Threads!Next]_(Threads!threadVars)
<1> DEFINE n == lastMail
           thread == IF draft[s].parent = 0 THEN NULL ELSE mail[draft[s].parent].thread
           row == [thread |-> thread, parent |-> draft[s].parent, from |-> owner[s], to |-> draft[s].to]
<1>1. /\ DOMAIN mail = 1..n /\ n \in Nat /\ n < MaxMails /\ MaxMails \in Nat
      /\ mail \in [DOMAIN mail -> Row] /\ draft[s] \in Draft /\ draft[s].parent \in {0} \cup Filed
  BY MailAssumption DEF MailInv, TypeOK, ParentIsFiled, Insert
<1>2. Filed \subseteq 1..n /\ DOMAIN Visible = Filed
  BY <1>1 DEF Filed, Visible
<1>3. thread \in 0..n /\ draft[s].parent \in 0..n /\ (thread = NULL <=> draft[s].parent = 0)
  <2>1. CASE draft[s].parent = 0
    BY <1>1, <2>1 DEF NULL
  <2>2. CASE draft[s].parent # 0
    <3>1. draft[s].parent \in 1..n /\ mail[draft[s].parent].thread # NULL
      BY <1>1, <2>2 DEF Filed
    <3>2. mail[draft[s].parent].thread <= draft[s].parent /\ mail[draft[s].parent] \in Row
      BY <1>1, <3>1 DEF MailInv, TypeOK
    <3> QED
      BY <1>1, <2>2, <3>1, <3>2 DEF Row
  <2> QED
    BY <2>1, <2>2
<1>4. /\ DOMAIN mail' = 1..(n + 1) /\ n + 1 \notin DOMAIN mail
      /\ \A i \in DOMAIN mail : mail'[i] = mail[i]
      /\ mail'[n + 1] = [thread |-> thread, parent |-> draft[s].parent, from |-> owner[s],
                         to |-> draft[s].to, read |-> FALSE]
  BY <1>1, <1>3, AddRowFacts DEF MailInv, Insert
<1> HIDE DEF n, thread
<1>5. \A i \in DOMAIN mail' : i \in DOMAIN mail \/ i = n + 1
  BY <1>1, <1>4
<1>6. n + 1 \in DOMAIN mail' /\ DOMAIN mail \subseteq DOMAIN mail' /\ n + 1 \in Ids
  BY <1>1, <1>4 DEF Ids
<1>7. ReadIds' = ReadIds
  BY <1>4, <1>5, <1>6 DEF ReadIds
<1>8. CASE thread = NULL
  <2>1. Filed' = Filed
    BY <1>4, <1>5, <1>6, <1>8 DEF Filed
  <2>2. Visible' = Visible
    BY <1>4, <2>1 DEF Visible, Filed
  <2> QED
    BY <1>7, <2>2 DEF Threads!threadVars
<1>9. CASE thread # NULL
  <2>1. Filed' = Filed \cup {n + 1} /\ n + 1 \notin Filed
    BY <1>4, <1>5, <1>6, <1>9 DEF Filed
  <2>2. draft[s].parent \in Filed /\ draft[s].parent # 0
    BY <1>1, <1>3, <1>9
  <2>3. Visible[draft[s].parent].thread = thread
    BY <2>2 DEF Visible, thread
  <2>4. Visible' = [i \in Filed \cup {n + 1} |-> IF i = n + 1 THEN row ELSE Visible[i]]
    <3>1. \A i \in Filed : Visible'[i] = Visible[i]
      BY <1>4, <2>1 DEF Visible, Filed
    <3>2. Visible'[n + 1] = row
      BY <1>4, <2>1 DEF Visible
    <3>3. Visible' = [i \in Filed \cup {n + 1} |-> Visible'[i]]
      BY <2>1 DEF Visible
    <3> QED
      BY <2>1, <3>1, <3>2, <3>3
  <2>5. \A i \in Filed : i < n + 1
    BY <1>1, <1>2
  <2>6. Threads!Appear(n + 1, draft[s].parent, owner[s], draft[s].to)
    BY <1>2, <1>7, <2>2, <2>3, <2>4, <2>5 DEF Threads!Appear
  <2>7. /\ draft[s].parent \in {0} \cup Ids
        /\ owner[s] \in Users /\ draft[s].to \in Users
    BY <1>1, <1>2, <2>2, MailAssumption DEF Ids, Draft
  <2> QED
    BY <1>6, <2>6, <2>7 DEF Threads!Next
<1> QED
  BY <1>8, <1>9

\* The second statement makes the root appear.
LEMMA FillIsAppear ==
    ASSUME MailInv, NEW s \in Sessions, FillThread(s)
    PROVE  Threads!Next
<1> DEFINE n == lastMail
           row == [thread |-> n, parent |-> 0, from |-> mail[n].from, to |-> mail[n].to]
<1>1. /\ DOMAIN mail = 1..n /\ n \in DOMAIN mail /\ n \in Nat /\ n <= MaxMails
      /\ mail \in [DOMAIN mail -> Row] /\ mail[n].thread = NULL /\ mail[n].parent = 0
      /\ mail' = [mail EXCEPT ![n].thread = n]
  BY MailAssumption DEF MailInv, TypeOK, FillingIsLast, FillThread
<1> HIDE DEF n
<1>2. /\ \A i \in DOMAIN mail \ {n} : mail'[i] = mail[i]
      /\ mail'[n] = [mail[n] EXCEPT !.thread = n]
      /\ DOMAIN mail' = DOMAIN mail /\ mail[n] \in Row /\ n # NULL /\ n \in Ids
  BY <1>1, MailAssumption DEF NULL, Ids
<1>3. /\ mail'[n].thread = n /\ mail'[n].parent = 0 /\ mail'[n].read = mail[n].read
      /\ mail'[n].from = mail[n].from /\ mail'[n].to = mail[n].to
      /\ mail[n].from \in Users /\ mail[n].to \in Users
  BY <1>1, <1>2 DEF Row
<1>4. Filed' = Filed \cup {n} /\ n \notin Filed /\ Filed \subseteq 1..n /\ DOMAIN Visible = Filed
  BY <1>1, <1>2, <1>3 DEF Filed, Visible
<1>5. ReadIds' = ReadIds
  BY <1>1, <1>2, <1>3 DEF ReadIds
<1>6. Visible' = [i \in Filed \cup {n} |-> IF i = n THEN row ELSE Visible[i]]
  <2>1. \A i \in Filed : Visible'[i] = Visible[i]
    BY <1>2, <1>4 DEF Visible, Filed
  <2>2. Visible'[n] = row
    BY <1>3, <1>4 DEF Visible
  <2>3. Visible' = [i \in Filed \cup {n} |-> Visible'[i]]
    BY <1>4 DEF Visible
  <2> QED
    BY <1>4, <2>1, <2>2, <2>3
<1>7. \A i \in Filed : i < n
  BY <1>1, <1>4
<1>8. Threads!Appear(n, 0, mail[n].from, mail[n].to)
  BY <1>4, <1>5, <1>6, <1>7 DEF Threads!Appear
<1> QED
  BY <1>2, <1>3, <1>8 DEF Threads!Next

\* MarkRead is a Read.
LEMMA MarkIsRead ==
    ASSUME MailInv, NEW s \in Sessions, NEW id \in Ids, MarkRead(s, id)
    PROVE  Threads!Next
<1>1. id \in Filed /\ id \in DOMAIN mail /\ mail \in [DOMAIN mail -> Row]
  BY MarkReadStep DEF Filed, MailInv, TypeOK
<1>2. /\ \A i \in DOMAIN mail \ {id} : mail'[i] = mail[i]
      /\ mail'[id] = [mail[id] EXCEPT !.read = TRUE]
      /\ DOMAIN mail' = DOMAIN mail /\ mail[id] \in Row
  BY <1>1 DEF MarkRead
<1>3. /\ mail'[id].thread = mail[id].thread /\ mail'[id].parent = mail[id].parent
      /\ mail'[id].from = mail[id].from /\ mail'[id].to = mail[id].to /\ mail'[id].read
  BY <1>2 DEF Row
<1>4. Filed' = Filed
  BY <1>1, <1>2, <1>3 DEF Filed
<1>5. Visible' = Visible
  BY <1>1, <1>2, <1>3, <1>4 DEF Visible, Filed
<1>6. ReadIds' = ReadIds \cup {id}
  BY <1>1, <1>2, <1>3 DEF ReadIds
<1>7. id \in DOMAIN Visible
  BY <1>1 DEF Visible
<1> QED
  BY <1>5, <1>6, <1>7 DEF Threads!Next, Threads!Read

\* The store implements MailThreads, crashes and errors between the two statements of
\* a root included: whatever a reader can see was filed once and for all.
THEOREM MailImplementsThreads == Spec => ThreadsSpec
<1>1. Init => Threads!Init
  <2> SUFFICES ASSUME Init
               PROVE  Threads!Init
    OBVIOUS
  <2>1. DOMAIN mail = {}
    BY DEF Init
  <2>2. Filed = {} /\ ReadIds = {}
    BY <2>1 DEF Filed, ReadIds
  <2>3. Visible = [i \in {} |-> 0]
    BY <2>2 DEF Visible
  <2> QED
    BY <2>2, <2>3 DEF Threads!Init
<1>2. MailInv /\ [Next]_vars => [Threads!Next]_(Threads!threadVars)
  <2> SUFFICES ASSUME MailInv, [Next]_vars
               PROVE  [Threads!Next]_(Threads!threadVars)
    OBVIOUS
  <2>1. ASSUME mail' = mail PROVE [Threads!Next]_(Threads!threadVars)
    BY <2>1, SameVisible DEF Threads!threadVars
  <2>2. CASE UNCHANGED vars
    BY <2>1, <2>2 DEF vars
  <2>3. ASSUME NEW s \in Sessions, Running(s) PROVE [Threads!Next]_(Threads!threadVars)
    BY <2>1, <2>3, FillIsAppear, FillFailsStep, MarkIsRead, MarkFailsStep DEF Running
  <2>4. ASSUME NEW s \in Sessions, Insert(s) PROVE [Threads!Next]_(Threads!threadVars)
    BY <2>4, InsertIsAppear
  <2>5. CASE Crash
    BY <2>1, <2>5, CrashStep
  <2> QED
    BY <2>1, <2>2, <2>3, <2>4, <2>5, KeyStep DEF Next
<1> QED
  BY <1>1, <1>2, MailInvariant, PTL DEF Spec, ThreadsSpec, Threads!Spec

=============================================================================
