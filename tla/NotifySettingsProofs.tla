------------------------ MODULE NotifySettingsProofs ------------------------
(***************************************************************************)
(* Proofs about the notification settings, for any number of windows,      *)
(* toggles and targets.                                                    *)
(*                                                                         *)
(* ListTargets picks its rows by the number of smaller ids, which says     *)
(* little about a list that is patched in place.  The invariant therefore  *)
(* speaks of InOrder lists: ids ascend, there are as many as rows, and     *)
(* each entry is a copy of its row.  That is kept by a toggle and by the   *)
(* removal of one row, and ListTargets is the only such list               *)
(* (OnlyListTargets), by counting the ids below each entry.                *)
(***************************************************************************)
EXTENDS NotifySettings, FiniteSetTheorems, FunctionTheorems, SequenceTheorems, TLAPS

Below(S, i) == {j \in S : j < i}

Row(table, id) == [id |-> id, text |-> table[id].text, enabled |-> table[id].enabled]

InOrder(seq, table) ==
    /\ seq \in Seq(Listed) /\ Len(seq) = Cardinality(DOMAIN table)
    /\ \A m, n \in 1..Len(seq) : m < n => seq[m].id < seq[n].id
    /\ \A n \in 1..Len(seq) : seq[n].id \in DOMAIN table /\ seq[n] = Row(table, seq[n].id)

-----------------------------------------------------------------------------
(* Lists and the ranks of their ids.                                       *)

\* There are n places up to the n-th.
LEMMA PlaceCount ==
    ASSUME NEW n \in Nat
    PROVE  IsFiniteSet(1..n) /\ Cardinality(1..n) = n
<1>1. IsFiniteSet(1..n) /\ Cardinality(1..n) = IF 1 > n THEN 0 ELSE n - 1 + 1
  BY FS_Interval
<1> QED
  BY <1>1

\* The entries of a list have ids that can be compared.
LEMMA EntryIds ==
    ASSUME NEW seq \in Seq(Listed)
    PROVE  Len(seq) \in Nat /\ \A n \in 1..Len(seq) : seq[n] \in Listed /\ seq[n].id \in Int
<1>1. Len(seq) \in Nat /\ \A n \in 1..Len(seq) : seq[n] \in Listed
  OBVIOUS
<1>2. \A r \in Listed : r.id \in Int
  BY SettingsAssumption DEF Listed
<1> QED
  BY <1>1, <1>2

\* A set of ids has as many smaller ids below each of its members as the member
\* has predecessors: ranks are apart, and there is one for every place.
LEMMA Ranks ==
    ASSUME NEW S \in SUBSET Nat, IsFiniteSet(S)
    PROVE  /\ Cardinality(S) \in Nat
           /\ \A i \in S : Cardinality(Below(S, i)) \in 0..(Cardinality(S) - 1)
           /\ \A i, k \in S : i < k => Cardinality(Below(S, i)) < Cardinality(Below(S, k))
           /\ \A n \in 1..Cardinality(S) : \E i \in S : Cardinality(Below(S, i)) = n - 1
<1>1. Cardinality(S) \in Nat
  BY FS_CardinalityType
<1>2. \A i \in S : IsFiniteSet(Below(S, i)) /\ Cardinality(Below(S, i)) \in Nat
  BY FS_Subset, FS_CardinalityType DEF Below
<1>3. ASSUME NEW i \in S, NEW T, T \in SUBSET S, Below(S, i) \cup {i} \subseteq T
      PROVE  Cardinality(Below(S, i)) + 1 <= Cardinality(T)
  <2>1. i \notin Below(S, i)
    BY DEF Below
  <2>2. Cardinality(Below(S, i) \cup {i}) = Cardinality(Below(S, i)) + 1
    BY <1>2, <2>1, FS_AddElement
  <2>3. IsFiniteSet(T)
    BY <1>3, FS_Subset
  <2> QED
    BY <1>3, <2>2, <2>3, FS_Subset
<1>4. ASSUME NEW i \in S
      PROVE  Cardinality(Below(S, i)) \in 0..(Cardinality(S) - 1)
  <2>1. Cardinality(Below(S, i)) + 1 <= Cardinality(S)
    BY <1>3 DEF Below
  <2> QED
    BY <1>1, <1>2, <2>1
<1>5. ASSUME NEW i \in S, NEW k \in S, i < k
      PROVE  Cardinality(Below(S, i)) < Cardinality(Below(S, k))
  <2>1. Below(S, i) \cup {i} \subseteq Below(S, k)
    <3>1. ASSUME NEW j \in S, j < i
          PROVE  j < k
      <4>1. i \in Nat /\ j \in Nat /\ k \in Nat
        OBVIOUS
      <4> QED
        BY <1>5, <3>1, <4>1
    <3> QED
      BY <1>5, <3>1 DEF Below
  <2>2. Below(S, k) \in SUBSET S
    BY DEF Below
  <2> QED
    BY <1>2, <1>3, <2>1, <2>2
<1>6. ASSUME NEW n \in 1..Cardinality(S)
      PROVE  \E i \in S : Cardinality(Below(S, i)) = n - 1
  <2> DEFINE f == [i \in S |-> Cardinality(Below(S, i)) + 1]
  <2>1. f \in [S -> 1..Cardinality(S)]
    BY <1>1, <1>4
  <2>2. \A i, k \in S : f[i] = f[k] => i = k
    <3>1. ASSUME NEW i \in S, NEW k \in S, f[i] = f[k], i # k
          PROVE  FALSE
      <4>1. i < k \/ k < i
        BY <3>1
      <4> QED
        BY <1>2, <1>5, <3>1, <4>1
    <3> QED
      BY <3>1
  <2>3. f \in Injection(S, 1..Cardinality(S))
    BY <2>1, <2>2, Fun_IsInj
  <2>4. IsFiniteSet(1..Cardinality(S)) /\ Cardinality(1..Cardinality(S)) = Cardinality(S)
    BY <1>1, PlaceCount
  <2>5. f \in Surjection(S, 1..Cardinality(S))
    BY <2>3, <2>4, FS_Injection
  <2>6. \A t \in 1..Cardinality(S) : \E i \in S : f[i] = t
    <3> DEFINE places == 1..Cardinality(S)
    <3> HIDE DEF f, places
    <3> SUFFICES \A t \in places : \E i \in S : f[i] = t
      BY DEF places
    <3>1. f \in Surjection(S, places)
      BY <2>5 DEF places
    <3> QED
      BY <3>1 DEF Surjection
  <2>7. PICK i \in S : f[i] = n
    BY <2>6
  <2> QED
    BY <1>2, <2>7
<1> QED
  BY <1>1, <1>4, <1>5, <1>6

\* An ascending list of as many ids as there are has them all.
LEMMA AllListed ==
    ASSUME NEW table, IsFiniteSet(DOMAIN table), NEW seq, InOrder(seq, table),
           NEW id \in DOMAIN table
    PROVE  \E n \in 1..Len(seq) : seq[n].id = id
<1> DEFINE f == [n \in 1..Len(seq) |-> seq[n].id]
<1>1. Len(seq) \in Nat /\ \A n \in 1..Len(seq) : seq[n].id \in Int
  BY EntryIds DEF InOrder
<1>2. \A m, n \in 1..Len(seq) : f[m] = f[n] => m = n
  <2>1. ASSUME NEW m \in 1..Len(seq), NEW n \in 1..Len(seq), f[m] = f[n], m # n
        PROVE  FALSE
    <3>1. m < n \/ n < m
      BY <1>1, <2>1
    <3>2. seq[m].id < seq[n].id \/ seq[n].id < seq[m].id
      BY <3>1 DEF InOrder
    <3> QED
      BY <1>1, <2>1, <3>2
  <2> QED
    BY <2>1
<1>3. f \in Injection(1..Len(seq), DOMAIN table)
  <2>1. f \in [1..Len(seq) -> DOMAIN table]
    BY DEF InOrder
  <2> QED
    BY <1>2, <2>1, Fun_IsInj
<1>4. Cardinality(1..Len(seq)) = Cardinality(DOMAIN table)
  BY <1>1, PlaceCount DEF InOrder
<1>5. f \in Surjection(1..Len(seq), DOMAIN table)
  BY <1>3, <1>4, FS_Injection
<1> QED
  <2>1. PICK n \in 1..Len(seq) : f[n] = id
    <3> HIDE DEF f
    <3> QED
      BY <1>5 DEF Surjection
  <2> QED
    BY <2>1

\* So the n-th entry has n - 1 smaller ids below it.
LEMMA RankIsPlace ==
    ASSUME NEW table, IsFiniteSet(DOMAIN table), NEW seq, InOrder(seq, table), NEW n \in 1..Len(seq)
    PROVE  Cardinality(Below(DOMAIN table, seq[n].id)) = n - 1
<1> DEFINE B == Below(DOMAIN table, seq[n].id)
           f == [m \in 1..(n - 1) |-> seq[m].id]
<1>1. Len(seq) \in Nat /\ \A m \in 1..Len(seq) : seq[m].id \in Int
  BY EntryIds DEF InOrder
<1>2. \A m \in 1..(n - 1) : m \in 1..Len(seq) /\ m < n
  BY <1>1
<1>3. f \in [1..(n - 1) -> B]
  BY <1>2 DEF InOrder, Below
<1>4. \A m, k \in 1..(n - 1) : f[m] = f[k] => m = k
  <2>1. ASSUME NEW m \in 1..(n - 1), NEW k \in 1..(n - 1), f[m] = f[k], m # k
        PROVE  FALSE
    <3>1. m < k \/ k < m
      BY <2>1
    <3>2. seq[m].id < seq[k].id \/ seq[k].id < seq[m].id
      BY <1>2, <3>1 DEF InOrder
    <3> QED
      BY <1>1, <1>2, <2>1, <3>2
  <2> QED
    BY <2>1
<1>5. ASSUME NEW j \in B
      PROVE  \E m \in 1..(n - 1) : f[m] = j
  <2>1. PICK m \in 1..Len(seq) : seq[m].id = j
    BY AllListed DEF Below
  <2>2. j < seq[n].id
    BY DEF Below
  <2>3. ~(n < m) /\ m # n
    BY <1>1, <2>1, <2>2 DEF InOrder
  <2>4. m \in 1..(n - 1)
    BY <1>1, <2>3
  <2> QED
    BY <2>1, <2>4
<1>6. f \in Bijection(1..(n - 1), B)
  <2>1. f \in Surjection(1..(n - 1), B)
    BY <1>3, <1>5, Fun_IsSurj
  <2> QED
    BY <1>3, <1>4, <2>1, Fun_IsBij
<1>7. IsFiniteSet(1..(n - 1)) /\ Cardinality(1..(n - 1)) = n - 1
  <2>1. n - 1 \in Nat
    BY <1>1
  <2> QED
    BY <2>1, PlaceCount
<1>8. Cardinality(B) = Cardinality(1..(n - 1))
  BY <1>6, <1>7, FS_Bijection, Fun_ExistsBij
<1> QED
  BY <1>7, <1>8

\* The ids in the table are finitely many numbers.
LEMMA IdsFinite ==
    ASSUME TypeOK
    PROVE  DOMAIN targets \in SUBSET Nat /\ IsFiniteSet(DOMAIN targets)
<1>1. lastId \in Nat /\ DOMAIN targets \subseteq 1..lastId
  BY SettingsAssumption DEF TypeOK
<1>2. IsFiniteSet(1..lastId)
  BY <1>1, PlaceCount
<1>3. IsFiniteSet(DOMAIN targets)
  BY <1>1, <1>2, FS_Subset
<1> QED
  BY <1>1, <1>3

\* ListTargets puts the row with rank n - 1 in the n-th place.
LEMMA ListTargetsInOrder ==
    ASSUME TypeOK
    PROVE  InOrder(ListTargets, targets)
<1> DEFINE S == DOMAIN targets
           ranked(n) == CHOOSE i \in S : Cardinality(Below(S, i)) = n - 1
<1>1. S \in SUBSET Nat /\ IsFiniteSet(S)
  BY IdsFinite
<1>2. /\ Cardinality(S) \in Nat
      /\ \A i \in S : Cardinality(Below(S, i)) \in Nat
      /\ \A i, k \in S : i < k => Cardinality(Below(S, i)) < Cardinality(Below(S, k))
      /\ \A n \in 1..Cardinality(S) : \E i \in S : Cardinality(Below(S, i)) = n - 1
  BY <1>1, Ranks
<1>3. ListTargets = [n \in 1..Cardinality(S) |-> Row(targets, ranked(n))]
  BY DEF ListTargets, Row, Below
<1>4. \A n \in 1..Cardinality(S) : ranked(n) \in S /\ Cardinality(Below(S, ranked(n))) = n - 1
  BY <1>2
<1> HIDE DEF ranked
<1>5. \A i \in S : Row(targets, i) \in Listed /\ Row(targets, i).id = i
  <2>1. \A i \in S : i \in 1..MaxTargets /\ targets[i] \in Target
    BY SettingsAssumption DEF TypeOK
  <2> QED
    BY <2>1 DEF Row, Listed, Target
<1>6. ListTargets \in Seq(Listed) /\ Len(ListTargets) = Cardinality(S)
  BY <1>2, <1>3, <1>4, <1>5
<1>7. \A n \in 1..Cardinality(S) : ListTargets[n] = Row(targets, ranked(n)) /\ ListTargets[n].id = ranked(n)
  BY <1>3, <1>4, <1>5
<1>8. ASSUME NEW m \in 1..Cardinality(S), NEW n \in 1..Cardinality(S), m < n
      PROVE  ranked(m) < ranked(n)
  <2>1. /\ ranked(m) \in Nat /\ ranked(n) \in Nat
        /\ Cardinality(Below(S, ranked(m))) < Cardinality(Below(S, ranked(n)))
    BY <1>1, <1>2, <1>4, <1>8
  <2>2. ~(ranked(n) < ranked(m)) /\ ranked(m) # ranked(n)
    BY <1>2, <1>4, <2>1
  <2> QED
    BY <2>1, <2>2
<1> QED
  BY <1>4, <1>6, <1>7, <1>8 DEF InOrder

\* And no other list is in order.
LEMMA OnlyListTargets ==
    ASSUME TypeOK, NEW seq, InOrder(seq, targets)
    PROVE  seq = ListTargets
<1> DEFINE S == DOMAIN targets
<1>1. S \in SUBSET Nat /\ IsFiniteSet(S)
  BY IdsFinite
<1>2. InOrder(ListTargets, targets)
  BY ListTargetsInOrder
<1>3. seq \in Seq(Listed) /\ ListTargets \in Seq(Listed) /\ Len(seq) = Len(ListTargets)
  BY <1>2 DEF InOrder
<1>4. ASSUME NEW n \in 1..Len(seq)
      PROVE  seq[n] = ListTargets[n]
  <2> DEFINE i == seq[n].id
             k == ListTargets[n].id
  <2>1. i \in S /\ k \in S /\ seq[n] = Row(targets, i) /\ ListTargets[n] = Row(targets, k)
    BY <1>2, <1>3 DEF InOrder
  <2>2. Cardinality(Below(S, i)) = n - 1
    BY <1>1, RankIsPlace
  <2>3. Cardinality(Below(S, k)) = n - 1
    BY <1>1, <1>2, <1>3, RankIsPlace
  <2> HIDE DEF i, k
  <2>4. i = k
    <3>1. /\ \A a \in S : Cardinality(Below(S, a)) \in Int
          /\ \A a, b \in S : a < b => Cardinality(Below(S, a)) < Cardinality(Below(S, b))
      BY <1>1, Ranks
    <3>2. i \in Nat /\ k \in Nat
      BY <1>1, <2>1
    <3>3. ~(i < k) /\ ~(k < i)
      BY <2>1, <2>2, <2>3, <3>1
    <3> QED
      BY <3>2, <3>3
  <2> QED
    BY <2>1, <2>4
<1> QED
  BY <1>3, <1>4, SeqEqual

\* The entries that are left when the n-th is taken out.
LEMMA WithoutRowEntries ==
    ASSUME NEW S, NEW seq \in Seq(S), NEW n \in 1..Len(seq)
    PROVE  /\ WithoutRow(seq, n) \in Seq(S) /\ Len(WithoutRow(seq, n)) = Len(seq) - 1
           /\ \A i \in 1..(Len(seq) - 1) : WithoutRow(seq, n)[i] = IF i < n THEN seq[i] ELSE seq[i + 1]
<1> DEFINE a == SubSeq(seq, 1, n - 1)
           b == SubSeq(seq, n + 1, Len(seq))
<1>0. Len(seq) \in Nat /\ \A i \in 1..Len(seq) : seq[i] \in S
  OBVIOUS
<1>1. /\ a \in Seq(S) /\ Len(a) = n - 1
      /\ \A i \in 1..(n - 1) : a[i] = seq[i]
  BY <1>0
<1>2. /\ b \in Seq(S) /\ Len(b) = Len(seq) - n
      /\ \A i \in 1..(Len(seq) - n) : b[i] = seq[n + i]
  BY <1>0
<1> HIDE DEF a, b
<1>3. /\ a \o b \in Seq(S) /\ Len(a \o b) = Len(seq) - 1
      /\ \A i \in 1..(Len(seq) - 1) : (a \o b)[i] = IF i < n THEN a[i] ELSE b[i - (n - 1)]
  <2>1. a \o b \in Seq(S) /\ Len(a \o b) = Len(a) + Len(b)
    BY <1>1, <1>2, ConcatProperties
  <2>2. \A i \in 1..(Len(a) + Len(b)) : (a \o b)[i] = IF i <= Len(a) THEN a[i] ELSE b[i - Len(a)]
    BY <1>1, <1>2, ConcatProperties
  <2> QED
    BY <1>0, <1>1, <1>2, <2>1, <2>2
<1>4. \A i \in 1..(Len(seq) - 1) : ~(i < n) => b[i - (n - 1)] = seq[i + 1]
  BY <1>0, <1>2
<1>5. \A i \in 1..(Len(seq) - 1) : i < n => a[i] = seq[i]
  BY <1>0, <1>1
<1>6. WithoutRow(seq, n) = a \o b
  BY DEF WithoutRow, a, b
<1> QED
  BY <1>3, <1>4, <1>5, <1>6

\* Deleting a row and its entry keeps the list in order.
LEMMA DeleteInOrder ==
    ASSUME NEW table, IsFiniteSet(DOMAIN table), NEW seq, InOrder(seq, table), NEW n \in 1..Len(seq)
    PROVE  InOrder(WithoutRow(seq, n), [i \in DOMAIN table \ {seq[n].id} |-> table[i]])
<1> DEFINE rest == WithoutRow(seq, n)
           left == [i \in DOMAIN table \ {seq[n].id} |-> table[i]]
           at(i) == IF i < n THEN i ELSE i + 1
<1>1. /\ seq \in Seq(Listed) /\ Len(seq) \in Nat
      /\ \A i \in 1..Len(seq) : seq[i].id \in Int
  BY EntryIds DEF InOrder
<1>2. /\ rest \in Seq(Listed) /\ Len(rest) = Len(seq) - 1
      /\ \A i \in 1..Len(rest) : rest[i] = seq[at(i)]
  BY <1>1, WithoutRowEntries
<1>3. \A i \in 1..Len(rest) : at(i) \in 1..Len(seq) /\ at(i) # n
  BY <1>1, <1>2
<1>4. \A i, k \in 1..Len(rest) : i < k => at(i) < at(k)
  BY <1>1, <1>2
<1> HIDE DEF rest, at
<1>5. Len(rest) = Cardinality(DOMAIN left)
  <2>1. Cardinality(DOMAIN table \ {seq[n].id}) = Cardinality(DOMAIN table) - 1
    BY FS_RemoveElement DEF InOrder
  <2> QED
    BY <1>2, <2>1 DEF InOrder
<1>6. \A i, k \in 1..Len(rest) : i < k => rest[i].id < rest[k].id
  BY <1>2, <1>3, <1>4 DEF InOrder
<1>7. ASSUME NEW i \in 1..Len(rest)
      PROVE  rest[i].id \in DOMAIN left /\ rest[i] = Row(left, rest[i].id)
  <2>1. rest[i] = seq[at(i)] /\ at(i) \in 1..Len(seq) /\ at(i) # n
    BY <1>2, <1>3
  <2>2. seq[at(i)].id # seq[n].id
    <3>1. at(i) < n \/ n < at(i)
      BY <1>1, <2>1
    <3>2. seq[at(i)].id < seq[n].id \/ seq[n].id < seq[at(i)].id
      BY <2>1, <3>1 DEF InOrder
    <3> QED
      BY <1>1, <2>1, <3>2
  <2> QED
    BY <2>1, <2>2 DEF InOrder, Row
<1> QED
  BY <1>2, <1>5, <1>6, <1>7 DEF InOrder, rest

\* Turning over an entry changes nothing else in it.
LEMMA TurnedOver ==
    ASSUME NEW r \in Listed
    PROVE  /\ [r EXCEPT !.enabled = ~@] = [id |-> r.id, text |-> r.text, enabled |-> ~r.enabled]
           /\ [r EXCEPT !.enabled = ~@] \in Listed
<1>1. r = [id |-> r.id, text |-> r.text, enabled |-> r.enabled]
  BY DEF Listed
<1>2. r.id \in 1..MaxTargets /\ r.text \in Texts
  BY DEF Listed
<1>3. (~r.enabled) \in BOOLEAN
  OBVIOUS
<1>4. [r EXCEPT !.enabled = ~@] = [id |-> r.id, text |-> r.text, enabled |-> ~r.enabled]
  BY <1>1
<1>5. [id |-> r.id, text |-> r.text, enabled |-> ~r.enabled] \in Listed
  BY <1>2, <1>3 DEF Listed
<1> QED
  BY <1>4, <1>5

\* Turning over one row and its entry keeps the list in order.
LEMMA ToggleInOrder ==
    ASSUME NEW table, NEW seq, InOrder(seq, table), NEW n \in 1..Len(seq),
           table \in [DOMAIN table -> Target]
    PROVE  InOrder([seq EXCEPT ![n].enabled = ~@],
                   [table EXCEPT ![seq[n].id].enabled = ~seq[n].enabled])
<1> DEFINE now == [seq EXCEPT ![n].enabled = ~@]
           after == [table EXCEPT ![seq[n].id].enabled = ~seq[n].enabled]
<1>1. /\ seq \in Seq(Listed) /\ Len(seq) \in Nat
      /\ \A i \in 1..Len(seq) : seq[i] \in Listed /\ seq[i].id \in Int
  BY EntryIds DEF InOrder
<1>2. /\ now \in Seq(Listed) /\ Len(now) = Len(seq)
      /\ \A i \in 1..Len(seq) : /\ now[i].id = seq[i].id
                                /\ i # n => now[i] = seq[i]
      /\ now[n] = [id |-> seq[n].id, text |-> seq[n].text, enabled |-> ~seq[n].enabled]
  <2> DEFINE new == [seq[n] EXCEPT !.enabled = ~@]
  <2>1. new \in Listed /\ new = [id |-> seq[n].id, text |-> seq[n].text, enabled |-> ~seq[n].enabled]
    BY <1>1, TurnedOver
  <2>2. now = [seq EXCEPT ![n] = new]
    OBVIOUS
  <2> HIDE DEF new, now
  <2>3. /\ now \in Seq(Listed) /\ Len(now) = Len(seq) /\ now[n] = new
        /\ \A i \in 1..Len(seq) : i # n => now[i] = seq[i]
    <3>1. seq \in [1..Len(seq) -> Listed]
      BY <1>1
    <3>2. /\ now \in [1..Len(seq) -> Listed] /\ now[n] = new
          /\ \A i \in 1..Len(seq) : i # n => now[i] = seq[i]
      BY <2>1, <2>2, <3>1
    <3> QED
      BY <1>1, <3>2
  <2> QED
    BY <2>1, <2>3
<1>3. /\ DOMAIN after = DOMAIN table
      /\ \A i \in DOMAIN table : i # seq[n].id => after[i] = table[i]
      /\ after[seq[n].id].text = table[seq[n].id].text
      /\ after[seq[n].id].enabled = ~seq[n].enabled
  BY DEF InOrder, Target
<1> HIDE DEF now, after
<1>4. ASSUME NEW i \in 1..Len(seq)
      PROVE  now[i].id \in DOMAIN after /\ now[i] = Row(after, now[i].id)
  <2>0. seq[i].id \in DOMAIN table /\ seq[i] = Row(table, seq[i].id)
    BY DEF InOrder
  <2>1. CASE i = n
    <3>1. seq[n].text = table[seq[n].id].text
      BY <2>0, <2>1 DEF Row
    <3> QED
      BY <1>2, <1>3, <2>0, <2>1, <3>1 DEF Row
  <2>2. CASE i # n
    <3>1. seq[i].id # seq[n].id
      <4>1. i < n \/ n < i
        BY <1>1, <2>2
      <4>2. seq[i].id < seq[n].id \/ seq[n].id < seq[i].id
        BY <4>1 DEF InOrder
      <4> QED
        BY <1>1, <4>2
    <3> QED
      BY <1>2, <1>3, <2>0, <2>2, <3>1 DEF Row
  <2> QED
    BY <2>1, <2>2
<1> QED
  BY <1>2, <1>3, <1>4 DEF InOrder, now, after

-----------------------------------------------------------------------------
(* The invariant.                                                          *)

\* An id is being edited only while the form is up.
FormHasId == \A w \in Windows : mode[w] # "edit" => editingID[w] = 0

\* Only an open window is about to read its list.
ReadingIsOpen == \A w \in Windows : reading[w] => mode[w] # "away"

\* A list that has been read, and that no other window has made old, is in order;
\* also while the form is up, whose result depends on it.
ListsInOrder ==
    \A w \in Windows :
        mode[w] # "away" /\ ~reading[w] /\ w \notin oldList => InOrder(list[w], targets)

SettingsInv ==
    /\ TypeOK
    /\ FormHasId
    /\ ReadingIsOpen
    /\ ListsInOrder
    /\ PrefsFollowOwnWrites
    /\ CursorOnRow

\* Nothing is open at first.
LEMMA InitSettings == Init => SettingsInv
<1> SUFFICES ASSUME Init
             PROVE  SettingsInv
  OBVIOUS
<1>1. PrefCount \in Nat \ {0} /\ MaxTargets \in Nat
  BY SettingsAssumption
<1>2. DefaultNotifyPrefs \in [PrefIndex -> BOOLEAN]
  BY DEF DefaultNotifyPrefs
<1>3. list \in [Windows -> Seq(Listed)]
  BY DEF Init
<1>4. TypeOK
  BY <1>1, <1>2, <1>3 DEF Init, TypeOK
<1>5. FormHasId /\ ReadingIsOpen /\ ListsInOrder /\ PrefsFollowOwnWrites
  BY DEF Init, FormHasId, ReadingIsOpen, ListsInOrder, PrefsFollowOwnWrites
<1>6. CursorOnRow
  BY <1>1 DEF Init, CursorOnRow, rowCount, addRowIndex
<1> QED
  BY <1>4, <1>5, <1>6 DEF SettingsInv

\* Lengths and cursors are numbers.
LEMMA RowNumbers ==
    ASSUME TypeOK, NEW w \in Windows
    PROVE  /\ PrefCount \in Nat \ {0} /\ cursor[w] \in Nat
           /\ list[w] \in Seq(Listed) /\ Len(list[w]) \in Nat
           /\ OnTarget(w) => Place(w) \in 1..Len(list[w])
<1>1. PrefCount \in Nat \ {0} /\ cursor[w] \in Nat /\ list[w] \in Seq(Listed)
  BY SettingsAssumption DEF TypeOK
<1>2. Len(list[w]) \in Nat
  BY <1>1
<1> QED
  BY <1>1, <1>2 DEF OnTarget, Place, addRowIndex

\* The entry at the cursor, and its id, which the table may have lost.
LEMMA EntryAtCursor ==
    ASSUME TypeOK, NEW w \in Windows, OnTarget(w)
    PROVE  AtCursor(w) \in Listed /\ AtCursor(w).id \in 1..MaxTargets
<1>1. AtCursor(w) \in Listed
  BY RowNumbers DEF AtCursor
<1> QED
  BY <1>1 DEF Listed

\* A window reads its list, or reads it again.
LEMMA RelistStep ==
    ASSUME SettingsInv, NEW w \in Windows, Relist(w)
    PROVE  SettingsInv'
<1> USE DEF SettingsInv
<1>1. InOrder(ListTargets, targets) /\ ListTargets \in Seq(Listed) /\ Len(ListTargets) \in Nat
  BY ListTargetsInOrder, EntryIds DEF InOrder
<1>2. /\ list' = [list EXCEPT ![w] = ListTargets]
      /\ UNCHANGED <<prefs, targets, lastId, copy, dirty, cursor, oldPrefs>>
  BY DEF Relist, tableVars
<1>3. TypeOK'
  BY <1>1, <1>2, SettingsAssumption DEF Relist, TypeOK
<1>4. FormHasId' /\ ReadingIsOpen' /\ ListsInOrder'
  BY <1>1, <1>2 DEF Relist, TypeOK, FormHasId, ReadingIsOpen, ListsInOrder
<1>5. PrefsFollowOwnWrites'
  BY <1>2 DEF Relist, TypeOK, ReadingIsOpen, PrefsFollowOwnWrites
<1>6. CursorOnRow'
  BY <1>1, <1>2, RowNumbers DEF Relist, TypeOK, CursorOnRow, rowCount, addRowIndex
<1> QED
  BY <1>3, <1>4, <1>5, <1>6

\* Steps that move inside a window and leave the tables alone.
LEMMA WindowStep ==
    ASSUME SettingsInv, NEW w \in Windows,
           \/ OpenSettings(w) \/ LeaveSettings(w) \/ MoveCursor(w) \/ flipPref(w)
           \/ startAdd(w) \/ startEdit(w) \/ CancelEdit(w)
    PROVE  SettingsInv'
<1> USE DEF SettingsInv
<1>1. CASE OpenSettings(w)
  <2>1. TypeOK'
    BY <1>1 DEF OpenSettings, tableVars, history, TypeOK
  <2>2. FormHasId' /\ ReadingIsOpen' /\ ListsInOrder' /\ PrefsFollowOwnWrites' /\ CursorOnRow'
    BY <1>1 DEF OpenSettings, tableVars, history, TypeOK, FormHasId, ReadingIsOpen, ListsInOrder,
       PrefsFollowOwnWrites, CursorOnRow, rowCount, addRowIndex
  <2> QED
    BY <2>1, <2>2
<1>2. CASE LeaveSettings(w)
  <2>1. DefaultNotifyPrefs \in [PrefIndex -> BOOLEAN]
    BY DEF DefaultNotifyPrefs
  <2>2. list' \in [Windows -> Seq(Listed)] /\ UNCHANGED <<prefs, targets, lastId, reading>>
    BY <1>2 DEF LeaveSettings, tableVars, TypeOK
  <2>3. TypeOK'
    BY <1>2, <2>1, <2>2, SettingsAssumption DEF LeaveSettings, TypeOK
  <2>4. FormHasId' /\ ReadingIsOpen' /\ ListsInOrder' /\ PrefsFollowOwnWrites'
    BY <1>2, <2>2 DEF LeaveSettings, Browsing, Editing, TypeOK, FormHasId, ReadingIsOpen,
       ListsInOrder, PrefsFollowOwnWrites
  <2>5. CursorOnRow'
    BY <1>2, RowNumbers DEF LeaveSettings, TypeOK, CursorOnRow, rowCount, addRowIndex
  <2> QED
    BY <2>3, <2>4, <2>5
<1>3. CASE MoveCursor(w)
  <2>1. cursor' \in [Windows -> Nat] /\ \A v \in Windows \ {w} : cursor'[v] = cursor[v]
    <3>1. cursor[w] \in Nat /\ cursor \in [Windows -> Nat]
      BY DEF TypeOK
    <3>2. CASE cursor[w] > 0 /\ cursor' = [cursor EXCEPT ![w] = @ - 1]
      BY <3>1, <3>2
    <3>3. CASE cursor' = [cursor EXCEPT ![w] = @ + 1]
      BY <3>1, <3>3
    <3> QED
      BY <1>3, <3>2, <3>3 DEF MoveCursor
  <2>2. cursor'[w] < rowCount(w) \/ w \in shrunk
    BY <1>3, RowNumbers DEF MoveCursor, TypeOK, CursorOnRow, rowCount, addRowIndex
  <2>3. UNCHANGED <<prefs, targets, lastId, mode, copy, dirty, list, editingID, reading, oldPrefs, oldList, shrunk>>
    BY <1>3 DEF MoveCursor, tableVars, history
  <2>4. CursorOnRow'
    BY <2>1, <2>2, <2>3 DEF CursorOnRow, rowCount, addRowIndex
  <2> QED
    BY <2>1, <2>3, <2>4 DEF TypeOK, FormHasId, ReadingIsOpen, ListsInOrder, PrefsFollowOwnWrites
<1>4. CASE flipPref(w)
  <2>1. UNCHANGED <<prefs, targets, lastId, mode, list, cursor, editingID, reading, oldPrefs, oldList, shrunk>>
    BY <1>4 DEF flipPref, tableVars, history
  <2>2. copy' \in [Windows -> [PrefIndex -> BOOLEAN]] /\ dirty' \in [Windows -> BOOLEAN]
    BY <1>4 DEF flipPref, TypeOK
  <2>3. PrefsFollowOwnWrites'
    BY <1>4, <2>1 DEF flipPref, TypeOK, PrefsFollowOwnWrites
  <2> QED
    BY <2>1, <2>2, <2>3 DEF TypeOK, FormHasId, ReadingIsOpen, ListsInOrder, CursorOnRow, rowCount,
       addRowIndex
<1>5. CASE startAdd(w) \/ startEdit(w) \/ CancelEdit(w)
  <2>1. UNCHANGED <<prefs, targets, lastId, copy, dirty, list, cursor, reading, oldPrefs, oldList, shrunk>>
    BY <1>5 DEF startAdd, startEdit, CancelEdit, tableVars, history
  <2>2. mode' \in [Windows -> {"away", "list", "edit"}] /\ editingID' \in [Windows -> 0..MaxTargets]
    <3>1. mode' \in [Windows -> {"away", "list", "edit"}]
      BY <1>5 DEF startAdd, startEdit, CancelEdit, TypeOK
    <3>2. startEdit(w) => AtCursor(w).id \in 0..MaxTargets
      BY EntryAtCursor, SettingsAssumption DEF startEdit
    <3>3. 0 \in 0..MaxTargets
      BY SettingsAssumption
    <3>4. editingID' \in [Windows -> 0..MaxTargets]
      BY <1>5, <3>2, <3>3 DEF startAdd, startEdit, CancelEdit, TypeOK
    <3> QED
      BY <3>1, <3>4
  <2>3. FormHasId'
    BY <1>5 DEF startAdd, startEdit, CancelEdit, FormHasId, TypeOK
  <2>4. \A v \in Windows : mode'[v] # "away" <=> mode[v] # "away"
    BY <1>5 DEF startAdd, startEdit, CancelEdit, TypeOK, Browsing, Editing
  <2>5. ReadingIsOpen' /\ ListsInOrder' /\ PrefsFollowOwnWrites'
    BY <2>1, <2>4 DEF ReadingIsOpen, ListsInOrder, PrefsFollowOwnWrites
  <2> QED
    BY <2>1, <2>2, <2>3, <2>5 DEF TypeOK, CursorOnRow, rowCount, addRowIndex
<1> QED
  BY <1>1, <1>2, <1>3, <1>4, <1>5

\* Saving the toggles makes the copies of the others old, not its own.
LEMMA SaveStep ==
    ASSUME SettingsInv, NEW w \in Windows, savePrefs(w)
    PROVE  SettingsInv'
<1> USE DEF SettingsInv
<1>1. UNCHANGED <<targets, lastId, mode, copy, list, cursor, editingID, reading, oldList, shrunk>>
  BY DEF savePrefs
<1>2. TypeOK'
  BY <1>1 DEF savePrefs, Others, TypeOK
<1>3. PrefsFollowOwnWrites'
  BY <1>1 DEF savePrefs, Others, TypeOK, PrefsFollowOwnWrites
<1> QED
  BY <1>1, <1>2, <1>3 DEF FormHasId, ReadingIsOpen, ListsInOrder, CursorOnRow, rowCount, addRowIndex

\* The form is submitted; the list is read again afterwards.
LEMMA SubmitStep ==
    ASSUME SettingsInv, NEW w \in Windows, NEW text \in Texts, SubmitNew(w, text) \/ SubmitChange(w, text)
    PROVE  SettingsInv'
<1> USE DEF SettingsInv
<1>1. UNCHANGED <<prefs, mode, copy, dirty, list, cursor, editingID, oldPrefs, shrunk>>
  BY DEF SubmitNew, SubmitChange
<1>2. reading' = [reading EXCEPT ![w] = TRUE]
  BY DEF SubmitNew, SubmitChange
<1>3. /\ lastId' \in 0..MaxTargets /\ DOMAIN targets' \subseteq 1..lastId'
      /\ targets' \in [DOMAIN targets' -> Target]
      /\ \E table : WriteTargets(w, table)
  <2>1. CASE SubmitNew(w, text)
    <3> DEFINE table == [i \in DOMAIN targets \cup {lastId + 1} |->
                            IF i \in DOMAIN targets THEN targets[i] ELSE [text |-> text, enabled |-> TRUE]]
    <3>1. lastId < MaxTargets /\ lastId' = lastId + 1 /\ WriteTargets(w, table)
      BY <2>1 DEF SubmitNew, AddTarget
    <3>2. targets' = table
      BY <3>1 DEF WriteTargets
    <3>3. [text |-> text, enabled |-> TRUE] \in Target
      BY DEF Target
    <3> QED
      BY <3>1, <3>2, <3>3, SettingsAssumption DEF TypeOK
  <2>2. CASE SubmitChange(w, text)
    <3> DEFINE row == [text |-> text, enabled |-> EnabledInList(w)]
               table == [targets EXCEPT ![editingID[w]] = row]
    <3>1. UNCHANGED lastId /\ WriteTargets(w, table)
      BY <2>2 DEF SubmitChange, UpdateTarget
    <3>2. targets' = table
      BY <3>1 DEF WriteTargets
    <3>3. row \in Target
      <4>1. EnabledInList(w) \in BOOLEAN
        BY DEF EnabledInList
      <4> QED
        BY <4>1 DEF Target
    <3> HIDE DEF row
    <3> QED
      BY <3>1, <3>2, <3>3 DEF TypeOK
  <2> QED
    BY <2>1, <2>2
<1>4. TypeOK'
  BY <1>1, <1>2, <1>3 DEF TypeOK, WriteTargets, Others
<1>5. ListsInOrder'
  <2>1. \A v \in Windows : v # w /\ mode[v] # "away" => v \in oldList'
    BY <1>3 DEF WriteTargets, Others
  <2>2. reading'[w]
    BY <1>2 DEF TypeOK
  <2> QED
    BY <1>1, <2>1, <2>2 DEF ListsInOrder
<1>6. ReadingIsOpen'
  BY <1>1, <1>2 DEF SubmitNew, SubmitChange, Editing, TypeOK, ReadingIsOpen
<1> QED
  BY <1>1, <1>4, <1>5, <1>6 DEF FormHasId, PrefsFollowOwnWrites, CursorOnRow, rowCount, addRowIndex

\* A target is turned over, in the table and in the list.
LEMMA ToggleStep ==
    ASSUME SettingsInv, NEW w \in Windows, toggleTarget(w)
    PROVE  SettingsInv'
<1> USE DEF SettingsInv
<1> DEFINE n == Place(w)
           seq == list[w]
           now == [seq EXCEPT ![n].enabled = ~@]
           table == [targets EXCEPT ![seq[n].id].enabled = ~seq[n].enabled]
<1>1. /\ n \in 1..Len(seq) /\ seq \in Seq(Listed) /\ Len(seq) \in Nat
      /\ mode[w] # "away" /\ ~reading[w]
  BY RowNumbers DEF toggleTarget, Browsing
<1>2. /\ WriteTargets(w, table) /\ seq[n].id \in DOMAIN targets
      /\ UNCHANGED <<prefs, lastId, mode, copy, dirty, cursor, editingID, reading, oldPrefs, shrunk>>
  BY DEF toggleTarget, SetTargetEnabled, AtCursor, Exists
<1>3. list' = [list EXCEPT ![w] = now]
  BY DEF toggleTarget, TypeOK
<1>4. now \in Seq(Listed) /\ Len(now) = Len(seq)
  <2> DEFINE r == seq[n]
             new == [r EXCEPT !.enabled = ~@]
  <2>1. r \in Listed
    BY <1>1, EntryIds
  <2>2. new \in Listed
    <3> HIDE DEF r
    <3> QED
      BY <2>1, TurnedOver
  <2>3. now = [seq EXCEPT ![n] = new]
    OBVIOUS
  <2>4. seq \in [1..Len(seq) -> Listed]
    BY <1>1
  <2> HIDE DEF new, now, seq, n, r
  <2>5. now \in [1..Len(seq) -> Listed]
    BY <2>2, <2>3, <2>4
  <2> QED
    BY <1>1, <2>5
<1>5. targets' \in [DOMAIN targets' -> Target] /\ DOMAIN targets' = DOMAIN targets
  BY <1>2 DEF WriteTargets, TypeOK, Target
<1>6. w \notin oldList => InOrder(now, targets')
  <2> SUFFICES ASSUME w \notin oldList
               PROVE  InOrder(now, targets')
    OBVIOUS
  <2>1. InOrder(seq, targets)
    BY <1>1 DEF ListsInOrder
  <2>2. targets' = table
    BY <1>2 DEF WriteTargets
  <2> QED
    BY <1>1, <2>1, <2>2, ToggleInOrder DEF TypeOK
<1> HIDE DEF now, table
<1>7. TypeOK'
  BY <1>2, <1>3, <1>4, <1>5 DEF TypeOK, WriteTargets, Others
<1>8. ListsInOrder'
  <2>1. \A v \in Windows : v # w /\ mode[v] # "away" => v \in oldList'
    BY <1>2 DEF WriteTargets, Others
  <2>2. w \notin oldList' => w \notin oldList
    BY <1>2 DEF WriteTargets
  <2>3. list'[w] = now
    BY <1>3 DEF TypeOK
  <2> QED
    BY <1>2, <1>6, <2>1, <2>2, <2>3 DEF ListsInOrder
<1>9. CursorOnRow'
  <2>1. \A v \in Windows : Len(list'[v]) = Len(list[v])
    BY <1>3, <1>4 DEF TypeOK
  <2> QED
    BY <1>2, <2>1 DEF CursorOnRow, rowCount, addRowIndex
<1> QED
  BY <1>2, <1>7, <1>8, <1>9 DEF FormHasId, ReadingIsOpen, PrefsFollowOwnWrites

\* A target is deleted, from the table and from the list.
LEMMA DeleteStep ==
    ASSUME SettingsInv, NEW w \in Windows, deleteTarget(w)
    PROVE  SettingsInv'
<1> USE DEF SettingsInv
<1> DEFINE n == Place(w)
           seq == list[w]
           rest == WithoutRow(seq, n)
           table == [i \in DOMAIN targets \ {seq[n].id} |-> targets[i]]
<1>1. /\ n \in 1..Len(seq) /\ seq \in Seq(Listed) /\ Len(seq) \in Nat
      /\ mode[w] # "away" /\ ~reading[w] /\ cursor[w] \in Nat /\ PrefCount \in Nat \ {0}
  BY RowNumbers DEF deleteTarget, Browsing
<1>2. /\ WriteTargets(w, table)
      /\ UNCHANGED <<prefs, lastId, mode, copy, dirty, editingID, reading, oldPrefs, shrunk>>
  BY DEF deleteTarget, DeleteTarget, AtCursor
<1>3. /\ list' = [list EXCEPT ![w] = rest]
      /\ cursor' = [cursor EXCEPT ![w] = NewCursor(w, rowCount(w) - 1)]
  BY DEF deleteTarget, TypeOK
<1>4. rest \in Seq(Listed) /\ Len(rest) = Len(seq) - 1
  BY <1>1, WithoutRowEntries
<1>5. targets' \in [DOMAIN targets' -> Target] /\ DOMAIN targets' \subseteq DOMAIN targets
  BY <1>2 DEF WriteTargets, TypeOK
<1>6. w \notin oldList => InOrder(rest, targets')
  <2> SUFFICES ASSUME w \notin oldList
               PROVE  InOrder(rest, targets')
    OBVIOUS
  <2>1. InOrder(seq, targets) /\ IsFiniteSet(DOMAIN targets)
    BY <1>1, IdsFinite DEF ListsInOrder
  <2>2. targets' = table
    BY <1>2 DEF WriteTargets
  <2> QED
    BY <1>1, <2>1, <2>2, DeleteInOrder
<1> HIDE DEF rest, table
<1>7. /\ NewCursor(w, rowCount(w) - 1) \in Nat
      /\ NewCursor(w, rowCount(w) - 1) < rowCount(w) - 1
  BY <1>1 DEF NewCursor, rowCount, addRowIndex
<1>8. TypeOK'
  BY <1>2, <1>3, <1>4, <1>5, <1>7 DEF TypeOK, WriteTargets, Others
<1>9. ListsInOrder'
  <2>1. \A v \in Windows : v # w /\ mode[v] # "away" => v \in oldList'
    BY <1>2 DEF WriteTargets, Others
  <2>2. w \notin oldList' => w \notin oldList
    BY <1>2 DEF WriteTargets
  <2>3. list'[w] = rest
    BY <1>3 DEF TypeOK
  <2> QED
    BY <1>2, <1>6, <2>1, <2>2, <2>3 DEF ListsInOrder
<1>10. CursorOnRow'
  <2>1. cursor'[w] < PrefCount + Len(list'[w]) + 1
    BY <1>1, <1>3, <1>4, <1>7 DEF TypeOK, rowCount, addRowIndex
  <2>2. \A v \in Windows \ {w} : list'[v] = list[v] /\ cursor'[v] = cursor[v]
    BY <1>3 DEF TypeOK
  <2> QED
    BY <1>2, <2>1, <2>2 DEF CursorOnRow, rowCount, addRowIndex
<1> QED
  BY <1>2, <1>8, <1>9, <1>10 DEF FormHasId, ReadingIsOpen, PrefsFollowOwnWrites

\* Every step preserves the invariant.
LEMMA NextSettings == SettingsInv /\ [Next]_vars => SettingsInv'
<1> SUFFICES ASSUME SettingsInv, [Next]_vars
             PROVE  SettingsInv'
  OBVIOUS
<1>1. CASE UNCHANGED vars
  BY <1>1 DEF vars, tableVars, windowVars, history, SettingsInv, TypeOK, FormHasId, ReadingIsOpen,
     ListsInOrder, PrefsFollowOwnWrites, CursorOnRow, rowCount, addRowIndex
<1>2. CASE Next
  BY <1>2, RelistStep, WindowStep, SaveStep, SubmitStep, ToggleStep, DeleteStep DEF Next
<1> QED
  BY <1>1, <1>2

-----------------------------------------------------------------------------

\* The invariant holds throughout.
THEOREM SettingsInvariant == Spec => []SettingsInv
BY InitSettings, NextSettings, PTL DEF Spec

\* Tables and windows are well typed, and no id is given out twice.
THEOREM SettingsTypeOK == Spec => []TypeOK
BY SettingsInvariant, PTL DEF SettingsInv

\* The list a window patches in place is what reading the table would give, for
\* any number of targets, toggles and deletions.
THEOREM ListsFollowOwnWrites == Spec => []ListFollowsOwnWrites
<1>1. SettingsInv => ListFollowsOwnWrites
  <2> SUFFICES ASSUME SettingsInv, NEW w \in Windows, Browsing(w), w \notin oldList
               PROVE  list[w] = ListTargets
    BY DEF ListFollowsOwnWrites
  <2>1. InOrder(list[w], targets)
    BY DEF SettingsInv, ListsInOrder, Browsing
  <2> QED
    BY <2>1, OnlyListTargets DEF SettingsInv
<1> QED
  BY <1>1, SettingsInvariant, PTL

\* Without unsaved flips a window shows what is saved, until another saves.
THEOREM TogglesFollowOwnWrites == Spec => []PrefsFollowOwnWrites
BY SettingsInvariant, PTL DEF SettingsInv

\* The cursor leaves the rows only when a list that is read again has shrunk.
THEOREM CursorStaysOnRow == Spec => []CursorOnRow
BY SettingsInvariant, PTL DEF SettingsInv

\* Submitting the form of a listed target keeps its enabled state, as long as no
\* other window has written targets meanwhile.
THEOREM EditsKeepEnabled == Spec => EditKeepsEnabled
<1>1. ASSUME SettingsInv, [Next]_vars
      PROVE  [\A w \in Windows :
                editingID[w] # 0 /\ reading'[w] /\ ~reading[w] /\ w \notin oldList
                    => targets'[editingID[w]].enabled = targets[editingID[w]].enabled]_vars
  <2> SUFFICES ASSUME NEW w \in Windows, Next,
                      editingID[w] # 0, reading'[w], ~reading[w], w \notin oldList
               PROVE  targets'[editingID[w]].enabled = targets[editingID[w]].enabled
    BY <1>1
  <2> DEFINE id == editingID[w]
  <2>0. TypeOK /\ mode[w] = "edit"
    BY <1>1 DEF SettingsInv, FormHasId, TypeOK
  <2>1. PICK text \in Texts : SubmitChange(w, text)
    <3>1. PICK v \in Windows :
            \/ OpenSettings(v) \/ Relist(v) \/ LeaveSettings(v) \/ MoveCursor(v)
            \/ flipPref(v) \/ savePrefs(v)
            \/ startAdd(v) \/ startEdit(v) \/ CancelEdit(v)
            \/ \E text \in Texts : SubmitNew(v, text) \/ SubmitChange(v, text)
            \/ toggleTarget(v) \/ deleteTarget(v)
      BY DEF Next
    <3>2. reading' # reading
      OBVIOUS
    <3>3. ~OpenSettings(v) /\ ~Relist(v)
      BY <2>0 DEF OpenSettings, Relist, TypeOK
    <3>4. PICK text \in Texts : SubmitNew(v, text) \/ SubmitChange(v, text)
      BY <3>1, <3>2, <3>3 DEF LeaveSettings, MoveCursor, flipPref, savePrefs, startAdd, startEdit,
         CancelEdit, toggleTarget, deleteTarget
    <3>5. v = w
      BY <2>0, <3>4 DEF SubmitNew, SubmitChange, TypeOK
    <3> QED
      BY <3>4, <3>5 DEF SubmitNew
  <2>2. id \in DOMAIN targets /\ targets' = [targets EXCEPT ![id] = [text |-> text, enabled |-> EnabledInList(w)]]
    BY <2>1 DEF SubmitChange, UpdateTarget, WriteTargets, Exists
  <2>3. InOrder(list[w], targets) /\ IsFiniteSet(DOMAIN targets) /\ targets[id] \in Target
    BY <1>1, <2>0, <2>2, IdsFinite DEF SettingsInv, ListsInOrder, TypeOK
  <2>4. PICK n \in 1..Len(list[w]) : list[w][n].id = id
    BY <2>2, <2>3, AllListed
  <2>5. DOMAIN list[w] = 1..Len(list[w])
    BY <2>0 DEF TypeOK
  <2>6. \A m \in 1..Len(list[w]) : list[w][m].id = id => list[w][m].enabled = targets[id].enabled
    <3>1. \A m \in 1..Len(list[w]) : list[w][m] = Row(targets, list[w][m].id)
      BY <2>3 DEF InOrder
    <3>2. \A i : Row(targets, i).enabled = targets[i].enabled
      BY DEF Row
    <3> QED
      BY <3>1, <3>2
  <2>7. targets[id].enabled \in BOOLEAN
    BY <2>3 DEF Target
  <2>8. EnabledInList(w) = targets[id].enabled
    BY <2>4, <2>5, <2>6, <2>7 DEF EnabledInList
  <2> QED
    BY <2>2, <2>8
<1> QED
  BY <1>1, SettingsInvariant, PTL DEF Spec, EditKeepsEnabled

=============================================================================
