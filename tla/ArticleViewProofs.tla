------------------------- MODULE ArticleViewProofs --------------------------
(***************************************************************************)
(* Proofs about the tables of module Articles and about the screens on top *)
(* of them, for any users, roles, sessions and bounds.                     *)
(*                                                                         *)
(* The tables.  Their three invariants are inductive together: the score   *)
(* of an article is a difference of two cardinalities, a step changes one  *)
(* of the two sets by at most one element, and the sets are finite because *)
(* ids are drawn from 1..lastPush.                                         *)
(*                                                                         *)
(* The screens change the tables only by calls of the repositories, so     *)
(* that what is shown of the tables holds of the composed system.  That a  *)
(* call is made with an id in the modelled range follows from the store's  *)
(* own invariant, which is therefore carried along.                        *)
(*                                                                         *)
(* That an open view is current once its messages have arrived is proved   *)
(* by ScreenOK: a view that differs from the store has a message on its    *)
(* way, and one whose list lacks a push has a PushAdded on its way, which  *)
(* alone makes it read the list again.                                     *)
(***************************************************************************)
EXTENDS ArticleView, FiniteSetTheorems, FunctionTheorems, TLAPS

-----------------------------------------------------------------------------
(* The tables.                                                             *)

StoreInv == StoreTypeOK /\ NoOrphanPushes /\ ScoreMatchesPushes

\* The pushes of one kind on one article are finitely many.
LEMMA OfIsFinite ==
    ASSUME StoreTypeOK, NEW a, NEW kind
    PROVE  IsFiniteSet(Of(a, kind))
<1>1. IsFiniteSet(1..lastPush)
  BY FS_Interval DEF StoreTypeOK
<1>2. Of(a, kind) \subseteq 1..lastPush
  BY DEF Of, StoreTypeOK
<1> QED
  BY <1>1, <1>2, FS_Subset

\* The empty tables satisfy the invariants.
LEMMA InitStoreInv == StoreInit => StoreInv
BY ArticlesAssumption DEF StoreInit, StoreInv, StoreTypeOK, NoOrphanPushes, ScoreMatchesPushes

\* Creating an article gives it no pushes, since none refer to its new id.
LEMMA ArticleCreateInv ==
    ASSUME StoreInv, NEW u \in Users, NEW text \in Texts, ArticleCreate(u, text)
    PROVE  StoreInv'
<1> DEFINE n == lastArticle + 1
<1> USE ArticlesAssumption DEF StoreInv
<1>1. StoreTypeOK'
  BY DEF StoreTypeOK, ArticleCreate, Insert, Article, Push, Modes
<1>2. NoOrphanPushes'
  BY DEF NoOrphanPushes, ArticleCreate, Insert, Exists
<1>3. ScoreMatchesPushes'
  <2>1. \A a, kind : Of(a, kind)' = Of(a, kind)
    BY DEF Of, ArticleCreate
  <2>2. n \notin DOMAIN articles
    BY DEF StoreTypeOK
  <2>3. \A kind : Of(n, kind) = {}
    BY <2>2 DEF NoOrphanPushes, Exists, Of
  <2>4. ASSUME NEW a \in DOMAIN articles'
        PROVE  articles'[a].score = Cardinality(Of(a, "push")') - Cardinality(Of(a, "boo")')
    <3>1. CASE a = n
      <4>1. articles'[a].score = 0
        BY <3>1 DEF ArticleCreate, Insert
      <4>2. Of(a, "push")' = {} /\ Of(a, "boo")' = {}
        BY <2>1, <2>3, <3>1
      <4> QED
        BY <4>1, <4>2, FS_EmptySet
    <3>2. CASE a # n
      <4>1. a \in DOMAIN articles /\ articles'[a] = articles[a]
        BY <2>4, <3>2 DEF ArticleCreate, Insert
      <4> QED
        BY <2>1, <4>1 DEF ScoreMatchesPushes
    <3> QED
      BY <3>1, <3>2
  <2> QED
    BY <2>4 DEF ScoreMatchesPushes
<1> QED
  BY <1>1, <1>2, <1>3

\* Deleting an article takes exactly its pushes away.
LEMMA ArticleDeleteInv ==
    ASSUME StoreInv, NEW a \in 1..MaxArticles, NEW u \in Users, ArticleDelete(a, u)
    PROVE  StoreInv'
<1> USE ArticlesAssumption DEF StoreInv
<1>1. StoreTypeOK'
  BY DEF StoreTypeOK, ArticleDelete, Remove
<1>2. NoOrphanPushes'
  BY DEF NoOrphanPushes, ArticleDelete, Remove, Exists
<1>3. ScoreMatchesPushes'
  <2>1. ASSUME NEW b \in DOMAIN articles', NEW kind
        PROVE  Of(b, kind)' = Of(b, kind)
    BY <2>1 DEF Of, ArticleDelete, Remove
  <2>2. \A b \in DOMAIN articles' : b \in DOMAIN articles /\ articles'[b] = articles[b]
    BY DEF ArticleDelete, Remove
  <2> QED
    BY <2>1, <2>2 DEF ScoreMatchesPushes
<1> QED
  BY <1>1, <1>2, <1>3

\* Edits, pins and mode changes leave pushes and scores alone.
LEMMA ArticleEditInv ==
    ASSUME StoreInv, NEW a \in 1..MaxArticles, NEW u \in Users,
           \/ \E text \in Texts : ArticleUpdate(a, u, text)
           \/ \E pinned \in BOOLEAN : SetPinned(a, u, pinned)
           \/ \E mode \in Modes : SetCommentsMode(a, u, mode)
    PROVE  StoreInv'
<1> USE ArticlesAssumption DEF StoreInv
<1>1. /\ DOMAIN articles' = DOMAIN articles
      /\ articles' \in [DOMAIN articles -> Article]
      /\ \A b \in DOMAIN articles : articles'[b].score = articles[b].score
      /\ UNCHANGED <<pushes, lastArticle, lastPush>>
  BY DEF StoreTypeOK, ArticleUpdate, SetPinned, SetCommentsMode, Exists, Article
<1>2. StoreTypeOK'
  BY <1>1 DEF StoreTypeOK
<1>3. NoOrphanPushes'
  BY <1>1 DEF NoOrphanPushes, Exists
<1>4. \A b, kind : Of(b, kind)' = Of(b, kind)
  BY <1>1 DEF Of
<1>5. ScoreMatchesPushes'
  BY <1>1, <1>4 DEF ScoreMatchesPushes
<1> QED
  BY <1>2, <1>3, <1>5

\* A push adds one element to one of the sets the score counts, and its delta
\* to the score.
LEMMA PushCreateInv ==
    ASSUME StoreInv, NEW a \in 1..MaxArticles, NEW u \in Users, NEW kind \in Kinds,
           PushCreate(a, u, kind)
    PROVE  StoreInv'
<1> DEFINE n == lastPush + 1
<1> USE ArticlesAssumption DEF StoreInv
<1>1. /\ a \in DOMAIN articles
      /\ DOMAIN articles' = DOMAIN articles
      /\ n \notin DOMAIN pushes
      /\ DOMAIN pushes' = DOMAIN pushes \cup {n}
      /\ pushes'[n] = [article |-> a, user |-> u, kind |-> kind]
      /\ \A p \in DOMAIN pushes : pushes'[p] = pushes[p]
  BY DEF StoreTypeOK, PushCreate, CreateAllowed, Exists, Insert
<1>2. scoreDelta(kind) \in Int
  BY DEF scoreDelta
<1>3. StoreTypeOK'
  BY <1>1, <1>2 DEF StoreTypeOK, PushCreate, Insert, Article, Push
<1>4. NoOrphanPushes'
  BY <1>1 DEF NoOrphanPushes, Exists
<1>5. ScoreMatchesPushes'
  <2>1. ASSUME NEW b \in DOMAIN articles, NEW k
        PROVE  Of(b, k)' = IF b = a /\ k = kind THEN Of(b, k) \cup {n} ELSE Of(b, k)
    BY <1>1 DEF Of
  <2>2. ASSUME NEW b \in DOMAIN articles, NEW k
        PROVE  /\ Cardinality(Of(b, k)) \in Nat
               /\ Cardinality(Of(b, k)') =
                    IF b = a /\ k = kind THEN Cardinality(Of(b, k)) + 1 ELSE Cardinality(Of(b, k))
    <3>1. IsFiniteSet(Of(b, k))
      BY OfIsFinite
    <3>2. n \notin Of(b, k)
      BY <1>1 DEF Of
    <3> QED
      BY <2>1, <3>1, <3>2, FS_AddElement, FS_CardinalityType
  <2>3. ASSUME NEW b \in DOMAIN articles
        PROVE  articles'[b].score = Cardinality(Of(b, "push")') - Cardinality(Of(b, "boo")')
    <3>1. articles[b].score = Cardinality(Of(b, "push")) - Cardinality(Of(b, "boo"))
      BY DEF ScoreMatchesPushes
    <3>2. articles'[b].score = IF b = a THEN articles[b].score + scoreDelta(kind) ELSE articles[b].score
      BY <1>1 DEF PushCreate, StoreTypeOK, Article
    <3> QED
      BY <2>2, <3>1, <3>2 DEF scoreDelta, Kinds
  <2> QED
    BY <1>1, <2>3 DEF ScoreMatchesPushes
<1> QED
  BY <1>3, <1>4, <1>5

\* Deleting a push takes it from the set it was counted in, and its delta from
\* the score of an article that is still there.
LEMMA PushDeleteInv ==
    ASSUME StoreInv, NEW p \in 1..MaxPushes, NEW u \in Users, PushDelete(p, u)
    PROVE  StoreInv'
<1> DEFINE a == pushes[p].article
           kind == pushes[p].kind
<1> USE ArticlesAssumption DEF StoreInv
<1>1. /\ p \in DOMAIN pushes
      /\ kind \in Kinds
      /\ a \in DOMAIN articles
      /\ DOMAIN articles' = DOMAIN articles
      /\ DOMAIN pushes' = DOMAIN pushes \ {p}
      /\ \A q \in DOMAIN pushes' : pushes'[q] = pushes[q]
  BY DEF StoreTypeOK, NoOrphanPushes, PushDelete, DeleteAllowed, Exists, Remove, Push
<1>2. scoreDelta(kind) \in Int
  BY DEF scoreDelta
<1>3. StoreTypeOK'
  BY <1>1, <1>2 DEF StoreTypeOK, PushDelete, Remove, Article, Push
<1>4. NoOrphanPushes'
  BY <1>1 DEF NoOrphanPushes, Exists
<1>5. ScoreMatchesPushes'
  <2>1. ASSUME NEW b \in DOMAIN articles, NEW k
        PROVE  Of(b, k)' = IF b = a /\ k = kind THEN Of(b, k) \ {p} ELSE Of(b, k)
    BY <1>1 DEF Of
  <2>2. ASSUME NEW b \in DOMAIN articles, NEW k
        PROVE  /\ Cardinality(Of(b, k)) \in Nat
               /\ Cardinality(Of(b, k)') =
                    IF b = a /\ k = kind THEN Cardinality(Of(b, k)) - 1 ELSE Cardinality(Of(b, k))
    <3>1. IsFiniteSet(Of(b, k))
      BY OfIsFinite
    <3>2. (b = a /\ k = kind) => p \in Of(b, k)
      BY <1>1 DEF Of
    <3> QED
      BY <2>1, <3>1, <3>2, FS_RemoveElement, FS_CardinalityType
  <2>3. ASSUME NEW b \in DOMAIN articles
        PROVE  articles'[b].score = Cardinality(Of(b, "push")') - Cardinality(Of(b, "boo")')
    <3>1. articles[b].score = Cardinality(Of(b, "push")) - Cardinality(Of(b, "boo"))
      BY DEF ScoreMatchesPushes
    <3>2. articles'[b].score = IF b = a THEN articles[b].score - scoreDelta(kind) ELSE articles[b].score
      BY <1>1 DEF PushDelete, StoreTypeOK, Article
    <3> QED
      BY <1>1, <2>2, <3>1, <3>2 DEF scoreDelta, Kinds
  <2> QED
    BY <1>1, <2>3 DEF ScoreMatchesPushes
<1> QED
  BY <1>3, <1>4, <1>5

\* Every call of the two repositories preserves the invariants.
LEMMA NextStoreInv == StoreInv /\ [StoreNext]_storeVars => StoreInv'
<1> SUFFICES ASSUME StoreInv, [StoreNext]_storeVars
             PROVE  StoreInv'
  OBVIOUS
<1>1. CASE UNCHANGED storeVars
  BY <1>1 DEF storeVars, StoreInv, StoreTypeOK, NoOrphanPushes, ScoreMatchesPushes, Of, Exists
<1>2. CASE StoreNext
  <2> PICK u \in Users :
        \/ \E text \in Texts : ArticleCreate(u, text)
        \/ \E a \in 1..MaxArticles :
            \/ ArticleDelete(a, u)
            \/ \E text \in Texts : ArticleUpdate(a, u, text)
            \/ \E pinned \in BOOLEAN : SetPinned(a, u, pinned)
            \/ \E mode \in Modes : SetCommentsMode(a, u, mode)
            \/ \E kind \in Kinds : PushCreate(a, u, kind)
        \/ \E p \in 1..MaxPushes : PushDelete(p, u)
    BY <1>2 DEF StoreNext
  <2> QED
    BY ArticleCreateInv, ArticleDeleteInv, ArticleEditInv, PushCreateInv, PushDeleteInv
<1> QED
  BY <1>1, <1>2

-----------------------------------------------------------------------------

\* The three invariants hold whatever calls the sessions make.
THEOREM StoreInvariant == StoreSpec => []StoreInv
BY InitStoreInv, NextStoreInv, PTL DEF StoreSpec

\* The rows of articles and pushes always hold values of their columns' types.
THEOREM StoreTypeCorrect == StoreSpec => []StoreTypeOK
BY StoreInvariant, PTL DEF StoreInv

\* No push outlives its article.
THEOREM NoPushIsOrphaned == StoreSpec => []NoOrphanPushes
BY StoreInvariant, PTL DEF StoreInv

\* recommend_score never drifts from the pushes it caches.
THEOREM ScoreIsExact == StoreSpec => []ScoreMatchesPushes
BY StoreInvariant, PTL DEF StoreInv

-----------------------------------------------------------------------------
(* The screens as users of the store.                                      *)

ViewInv == StoreInv /\ pushKind \in [Sessions -> Kinds]

\* The initial state of the system is one of the store.
LEMMA InitViewInv == Init => StoreInit /\ ViewInv
BY InitStoreInv DEF Init, ViewInv, Kinds

\* Every key and every message is a call of the repositories, or leaves the
\* tables alone.
LEMMA NextIsStoreStep ==
    ASSUME ViewInv, [Next]_vars
    PROVE  [StoreNext]_storeVars /\ pushKind' \in [Sessions -> Kinds]
<1> USE ViewAssumption
<1>1. CASE UNCHANGED vars
  BY <1>1 DEF vars, viewVars, ViewInv
<1>2. ASSUME NEW s \in Sessions, Keys(s)
      PROVE  [StoreNext]_storeVars /\ pushKind' \in [Sessions -> Kinds]
  <2> DEFINE u == owner[s]
  <2>0. /\ u \in Users
        /\ pushKind[s] \in Kinds
        /\ pushKind \in [Sessions -> Kinds]
        /\ DOMAIN articles \subseteq 1..MaxArticles
        /\ DOMAIN pushes \subseteq 1..MaxPushes
    BY ArticlesAssumption DEF ViewInv, StoreInv, StoreTypeOK
  <2>1. ASSUME \/ EnterBoard(s) \/ Elsewhere(s) \/ (\E a \in 1..MaxArticles : Open(s, a))
               \/ Neighbour(s) \/ Leave(s) \/ CancelEdit(s)
        PROVE  UNCHANGED storeVars /\ pushKind' \in [Sessions -> Kinds]
    BY <2>0, <2>1 DEF EnterBoard, Elsewhere, Open, Neighbour, Leave, CancelEdit, Load, ToBoard, ToElsewhere, Forget, Kinds
  <2>2. ASSUME \/ Edit(s) \/ (\E kind \in Kinds : OpenPush(s, kind)) \/ ClosePush(s)
               \/ SubmitOnNil(s) \/ MoveCursor(s) \/ AskDelete(s) \/ CancelDelete(s)
               \/ OpenPicker(s) \/ ClosePicker(s)
        PROVE  UNCHANGED storeVars /\ pushKind' \in [Sessions -> Kinds]
    BY <2>0, <2>2 DEF Edit, OpenPush, ClosePush, SubmitOnNil, MoveCursor, AskDelete,
       CancelDelete, OpenPicker, ClosePicker, CloseInput, Kinds
  <2>3. ASSUME Post(s)
        PROVE  StoreNext /\ pushKind' \in [Sessions -> Kinds]
    BY <2>0, <2>3 DEF Post, StoreNext
  <2>4. ASSUME Save(s)
        PROVE  StoreNext /\ pushKind' \in [Sessions -> Kinds]
    <3>1. PICK text \in Texts : ArticleUpdate(art[s].id, u, text)
      BY <2>4 DEF Save
    <3>2. art[s].id \in 1..MaxArticles
      BY <2>0, <3>1 DEF ArticleUpdate, Exists
    <3>3. StoreNext
      BY <2>0, <3>1, <3>2 DEF StoreNext
    <3> QED
      BY <2>0, <2>4, <3>3 DEF Save, Load, Kinds
  <2>5. ASSUME SubmitPush(s)
        PROVE  StoreNext /\ pushKind' \in [Sessions -> Kinds]
    <3>1. PushCreate(art[s].id, u, pushKind[s])
      BY <2>5 DEF SubmitPush
    <3>2. art[s].id \in 1..MaxArticles
      BY <2>0, <3>1 DEF PushCreate, CreateAllowed, Exists
    <3>3. StoreNext
      BY <2>0, <3>1, <3>2 DEF StoreNext
    <3> QED
      BY <2>0, <2>5, <3>3 DEF SubmitPush, CloseInput, Kinds
  <2>6. ASSUME ConfirmPush(s)
        PROVE  StoreNext /\ pushKind' \in [Sessions -> Kinds]
    <3>1. PICK r \in Selected(s) : PushDelete(r.id, u)
      BY <2>6 DEF ConfirmPush
    <3>2. r.id \in 1..MaxPushes
      BY <2>0, <3>1 DEF PushDelete, DeleteAllowed
    <3>3. StoreNext
      BY <2>0, <3>1, <3>2 DEF StoreNext
    <3> QED
      BY <2>0, <2>6, <3>3 DEF ConfirmPush
  <2>7. ASSUME ConfirmArticle(s)
        PROVE  StoreNext /\ pushKind' \in [Sessions -> Kinds]
    <3>1. ArticleDelete(art[s].id, u)
      BY <2>7 DEF ConfirmArticle
    <3>2. art[s].id \in 1..MaxArticles
      BY <2>0, <3>1 DEF ArticleDelete, Exists
    <3>3. StoreNext
      BY <2>0, <3>1, <3>2 DEF StoreNext
    <3> QED
      BY <2>0, <2>7, <3>3 DEF ConfirmArticle, ToBoard, Forget, Kinds
  <2>8. ASSUME NEW mode \in Modes, PickMode(s, mode)
        PROVE  StoreNext /\ pushKind' \in [Sessions -> Kinds]
    <3>1. SetCommentsMode(art[s].id, u, mode)
      BY <2>8 DEF PickMode
    <3>2. art[s].id \in 1..MaxArticles
      BY <2>0, <3>1 DEF SetCommentsMode, Exists
    <3>3. StoreNext
      BY <2>0, <3>1, <3>2 DEF StoreNext
    <3> QED
      BY <2>0, <2>8, <3>3 DEF PickMode
  <2> QED
    BY <1>2, <2>1, <2>2, <2>3, <2>4, <2>5, <2>6, <2>7, <2>8 DEF Keys
<1>3. ASSUME NEW s \in Sessions, NEW msg \in out[s], Receive(s, msg)
      PROVE  UNCHANGED storeVars /\ pushKind' \in [Sessions -> Kinds]
  BY <1>3 DEF Receive, ViewInv
<1> QED
  BY <1>1, <1>2, <1>3 DEF Next

\* Only PushCreate adds rows to pushes, and it obeys the mode in the store.
LEMMA StoreStepObeysMode ==
    ASSUME StoreInv, [StoreNext]_storeVars, NEW p \in DOMAIN pushes' \ DOMAIN pushes
    PROVE  /\ Exists(pushes'[p].article)
           /\ Allows(articles[pushes'[p].article].mode, pushes'[p].kind)
<1>1. PICK u \in Users, a \in 1..MaxArticles, kind \in Kinds : PushCreate(a, u, kind)
  BY DEF StoreNext, storeVars, ArticleCreate, ArticleDelete, ArticleUpdate, SetPinned,
     SetCommentsMode, PushDelete, Remove
<1>2. pushes'[p] = [article |-> a, user |-> u, kind |-> kind]
  BY <1>1 DEF PushCreate, Insert
<1> QED
  BY <1>1, <1>2 DEF PushCreate, CreateAllowed

-----------------------------------------------------------------------------

\* The store's invariants hold of the system of screens and store.
THEOREM ViewInvariant == Spec => []ViewInv
<1>1. ViewInv /\ [Next]_vars => ViewInv'
  BY NextIsStoreStep, NextStoreInv DEF ViewInv
<1> QED
  BY InitViewInv, <1>1, PTL DEF Spec

\* Whatever keys and messages the sessions take, with copies of any age on their
\* screens, no push outlives its article and no score drifts from its pushes.
THEOREM TablesStayIntact == Spec => [](NoOrphanPushes /\ ScoreMatchesPushes)
BY ViewInvariant, PTL DEF ViewInv, StoreInv

\* No interleaving of sessions with outdated screens gets a push into an
\* article whose mode forbids it.
THEOREM CommentsModeIsObeyed == Spec => CommentsModeRespected
<1>1. ASSUME ViewInv, [Next]_vars
      PROVE  [\A p \in DOMAIN pushes' \ DOMAIN pushes :
                /\ Exists(pushes'[p].article)
                /\ Allows(articles[pushes'[p].article].mode, pushes'[p].kind)]_vars
  BY <1>1, NextIsStoreStep, StoreStepObeysMode DEF ViewInv
<1> QED
  BY <1>1, ViewInvariant, PTL DEF Spec, CommentsModeRespected

-----------------------------------------------------------------------------
(* Open views.                                                             *)

OnlyWindow(d) == Registered(d) /\ \A s \in Sessions : owner[s] = owner[d] => s = d

\* d has an article on its screen that exists.
Viewing(d) == OnlyWindow(d) /\ screen[d] = "article" /\ Loaded(d) /\ Exists(art[d].id)

\* A message of one of the topics, about article a, is on its way to d.
Told(d, a, topics) ==
    \E s \in Sessions : \E msg \in out[s] : msg.to = d /\ msg.article = a /\ msg.topic \in topics

Shows(d, a) == art[d].mode = articles[a].mode /\ art[d].text = articles[a].text

Lists(d, a) ==
    \A q \in DOMAIN pushes : pushes[q].article = a => [id |-> q, user |-> pushes[q].user] \in list[d]

\* What is known of the screen of one session.
ScreenOK(d) ==
    /\ Loaded(d) => art[d].id \in 1..lastArticle
    /\ screen[d] = "article" /\ list[d] # {} => Loaded(d)
    /\ screen[d] = "article" /\ overlay[d] = "mode" => Loaded(d)
    /\ Viewing(d) => Shows(d, art[d].id) \/ Told(d, art[d].id, Topics)
    /\ Viewing(d) => Lists(d, art[d].id) \/ Told(d, art[d].id, {"PushAdded"})

OnSessions(f) == f = [s \in Sessions |-> f[s]]

Shape ==
    /\ OnSessions(screen) /\ OnSessions(art) /\ OnSessions(list) /\ OnSessions(overlay) /\ OnSessions(out)
    /\ \A s \in Sessions : \A msg \in out[s] : msg.topic \in Topics

ScreensInv == Shape /\ \A d \in Sessions : ScreenOK(d)

\* The row ListByArticle makes of a push.
LEMMA ListedRows ==
    ASSUME NEW table, NEW a, NEW q \in DOMAIN table, table[q].article = a
    PROVE  [id |-> q, user |-> table[q].user] \in ListByArticle(table, a)
BY DEF ListByArticle

\* The copy GetByID makes of a row.
LEMMA CopyOfRow ==
    ASSUME NEW table, NEW a \in 1..MaxArticles, table[a] \in Article
    PROVE  /\ GetByID(table, a) # NoArticle /\ GetByID(table, a).id = a
           /\ GetByID(table, a).mode = table[a].mode /\ GetByID(table, a).text = table[a].text
<1>1. GetByID(table, a) \in [id : 1..MaxArticles, author : Users, mode : Modes, text : Texts]
  BY DEF GetByID, Article
<1> QED
  BY <1>1, ViewAssumption DEF GetByID

\* The ids after a step.
LEMMA RowsAfter ==
    ASSUME StoreInv'
    PROVE  /\ \A a \in DOMAIN articles' : a \in 1..MaxArticles /\ a \in 1..lastArticle' /\ articles'[a] \in Article
           /\ lastArticle' \in Nat
BY ArticlesAssumption DEF StoreInv, StoreTypeOK

\* The initial screens.
LEMMA InitScreens == Init => ScreensInv
<1> SUFFICES ASSUME Init
             PROVE  ScreensInv
  OBVIOUS
<1>1. Shape
  BY DEF Init, Shape, OnSessions
<1>2. \A d \in Sessions : screen[d] = "away" /\ art[d] = NoArticle
  BY DEF Init
<1> QED
  BY <1>1, <1>2 DEF ScreensInv, ScreenOK, Loaded, Viewing

\* What a step of session s must not do to the others: touch their screens, take
\* back a message, or change a row without telling them.
Considerate(s) ==
    /\ \A d \in Sessions \ {s} : /\ screen'[d] = screen[d] /\ art'[d] = art[d] /\ list'[d] = list[d]
                                 /\ overlay'[d] = overlay[d] /\ out'[d] = out[d]
    /\ out[s] \subseteq out'[s]
    /\ lastArticle <= lastArticle' /\ lastArticle \in Nat /\ lastArticle' \in Nat
    /\ \A a \in DOMAIN articles' : a <= lastArticle =>
        /\ a \in DOMAIN articles
        /\ \/ articles'[a].mode = articles[a].mode /\ articles'[a].text = articles[a].text
           \/ \A d \in Sessions : owner[d] # owner[s] /\ Registered(d) =>
                \E msg \in out'[s] : msg.to = d /\ msg.article = a /\ msg.topic \in Topics
    /\ \A q \in DOMAIN pushes' :
        \/ q \in DOMAIN pushes /\ pushes'[q] = pushes[q]
        \/ \A d \in Sessions : owner[d] # owner[s] /\ Registered(d) =>
                \E msg \in out'[s] : msg.to = d /\ msg.article = pushes'[q].article /\ msg.topic = "PushAdded"

\* Then the others are as well off as before.
LEMMA OthersOK ==
    ASSUME NEW s \in Sessions, Considerate(s), NEW d \in Sessions, d # s, ScreenOK(d)
    PROVE  ScreenOK(d)'
<1>1. /\ screen'[d] = screen[d] /\ art'[d] = art[d] /\ list'[d] = list[d] /\ overlay'[d] = overlay[d]
      /\ Loaded(d)' = Loaded(d)
  BY DEF Considerate, Loaded
<1>3. Loaded(d)' => art'[d].id \in 1..lastArticle'
  BY <1>1 DEF ScreenOK, Considerate
<1>4. ASSUME Viewing(d)'
      PROVE  /\ Viewing(d) /\ owner[d] # owner[s] /\ Registered(d)
             /\ art[d].id \in DOMAIN articles' /\ art[d].id <= lastArticle
  <2>1. Loaded(d) /\ art[d].id \in 1..lastArticle /\ art[d].id \in DOMAIN articles'
    BY <1>1, <1>4 DEF Viewing, Exists, ScreenOK
  <2>2. art[d].id <= lastArticle
    BY <2>1 DEF Considerate
  <2>3. Exists(art[d].id)
    BY <2>1, <2>2 DEF Considerate, Exists
  <2> QED
    BY <1>1, <1>4, <2>1, <2>2, <2>3 DEF Viewing, OnlyWindow
<1>5. ASSUME Viewing(d)' PROVE Shows(d, art[d].id)' \/ Told(d, art[d].id, Topics)'
  <2>1. CASE Shows(d, art[d].id)
    BY <1>1, <1>4, <1>5, <2>1 DEF Shows, Considerate, Told
  <2>2. CASE Told(d, art[d].id, Topics)
    <3>1. \E e \in Sessions : \E msg \in out'[e] : msg.to = d /\ msg.article = art[d].id /\ msg.topic \in Topics
      BY <2>2 DEF Told, Considerate
    <3> QED
      BY <1>1, <3>1, Zenon DEF Told
  <2> QED
    BY <1>4, <1>5, <2>1, <2>2 DEF ScreenOK
<1>6. ASSUME Viewing(d)' PROVE Lists(d, art[d].id)' \/ Told(d, art[d].id, {"PushAdded"})'
  <2>1. CASE Lists(d, art[d].id)
    <3>1. CASE \A q \in DOMAIN pushes' : pushes'[q].article = art[d].id
                                           => q \in DOMAIN pushes /\ pushes'[q] = pushes[q]
      BY <1>1, <2>1, <3>1 DEF Lists
    <3>2. CASE \E q \in DOMAIN pushes' : pushes'[q].article = art[d].id
                                           /\ ~(q \in DOMAIN pushes /\ pushes'[q] = pushes[q])
      BY <1>1, <1>4, <1>6, <3>2 DEF Considerate, Told
    <3> QED
      BY <3>1, <3>2
  <2>2. CASE Told(d, art[d].id, {"PushAdded"})
    <3>1. \E e \in Sessions : \E msg \in out'[e] : msg.to = d /\ msg.article = art'[d].id /\ msg.topic \in {"PushAdded"}
      BY <1>1, <2>2 DEF Told, Considerate
    <3> QED
      BY <3>1, Zenon DEF Told
  <2> QED
    BY <1>4, <1>6, <2>1, <2>2 DEF ScreenOK
<1> QED
  BY <1>1, <1>3, <1>5, <1>6 DEF ScreenOK

\* A view that was just loaded shows the store.
LEMMA LoadOK ==
    ASSUME StoreInv', Shape, NEW s \in Sessions, NEW a, Load(s, a)
    PROVE  ScreenOK(s)'
<1>1. /\ screen'[s] = "article" /\ overlay'[s] = "none"
      /\ art'[s] = IF a \in DOMAIN articles' THEN GetByID(articles', a) ELSE NoArticle
      /\ list'[s] = IF a \in DOMAIN articles' THEN ListByArticle(pushes', a) ELSE {}
  BY DEF Load, GoTo, Show, Shape, OnSessions
<1>2. CASE a \notin DOMAIN articles'
  BY <1>1, <1>2 DEF ScreenOK, Loaded, Viewing
<1>3. CASE a \in DOMAIN articles'
  <2>1. /\ art'[s] # NoArticle /\ art'[s].id = a /\ a \in 1..lastArticle'
        /\ art'[s].mode = articles'[a].mode /\ art'[s].text = articles'[a].text
    BY <1>1, <1>3, CopyOfRow, RowsAfter
  <2>2. Shows(s, art[s].id)' /\ Lists(s, art[s].id)'
    BY <1>1, <1>3, <2>1, ListedRows DEF Shows, Lists
  <2> QED
    BY <1>1, <2>1, <2>2 DEF ScreenOK, Loaded
<1> QED
  BY <1>2, <1>3

\* A session that is on no article has nothing to show.
LEMMA AwayOK ==
    ASSUME NEW s \in Sessions, ScreenOK(s), screen'[s] # "article",
           art'[s] = art[s] \/ art'[s] = NoArticle \/ art'[s].id \in 1..lastArticle',
           lastArticle \in Nat, lastArticle' \in Nat, lastArticle <= lastArticle'
    PROVE  ScreenOK(s)'
<1>1. Loaded(s)' => art'[s].id \in 1..lastArticle'
  BY DEF ScreenOK, Loaded
<1> QED
  BY <1>1 DEF ScreenOK, Viewing

\* A step that leaves the tables, the messages and the other screens alone.
LEMMA QuietConsiderate ==
    ASSUME StoreInv, NEW s \in Sessions, UNCHANGED <<storeVars, out>>,
           \A d \in Sessions \ {s} : /\ screen'[d] = screen[d] /\ art'[d] = art[d]
                                     /\ list'[d] = list[d] /\ overlay'[d] = overlay[d]
    PROVE  Considerate(s)
<1>1. lastArticle \in Nat /\ lastArticle <= lastArticle
  BY ArticlesAssumption DEF StoreInv, StoreTypeOK
<1> QED
  BY <1>1 DEF Considerate, storeVars

\* Keys that write nothing.
LEMMA QuietKeys ==
    ASSUME ViewInv, ScreensInv, StoreInv', NEW s \in Sessions,
           \/ EnterBoard(s) \/ Elsewhere(s) \/ (\E a \in 1..MaxArticles : Open(s, a))
           \/ Neighbour(s) \/ Leave(s) \/ Edit(s) \/ CancelEdit(s)
           \/ (\E kind \in Kinds : OpenPush(s, kind)) \/ ClosePush(s) \/ SubmitOnNil(s)
           \/ MoveCursor(s) \/ AskDelete(s) \/ CancelDelete(s) \/ OpenPicker(s) \/ ClosePicker(s)
    PROVE  ScreenOK(s)' /\ Considerate(s) /\ Shape'
<1>0. StoreInv /\ Shape /\ ScreenOK(s) /\ lastArticle \in Nat /\ lastArticle <= lastArticle
  BY ArticlesAssumption DEF ViewInv, StoreInv, StoreTypeOK, ScreensInv
<1>1. CASE EnterBoard(s) \/ Elsewhere(s) \/ Leave(s) \/ (CancelEdit(s) /\ ~Loaded(s))
  <2>1. /\ UNCHANGED <<storeVars, out>> /\ screen'[s] # "article" /\ art'[s] = NoArticle
        /\ \A d \in Sessions \ {s} : /\ screen'[d] = screen[d] /\ art'[d] = art[d]
                                     /\ list'[d] = list[d] /\ overlay'[d] = overlay[d]
        /\ Shape'
    BY <1>0, <1>1 DEF EnterBoard, Elsewhere, Leave, CancelEdit, ToBoard, ToElsewhere, Forget, GoTo, Show,
       Shape, OnSessions
  <2> QED
    BY <1>0, <2>1, AwayOK, QuietConsiderate DEF storeVars
<1>2. ASSUME NEW a, Load(s, a), UNCHANGED <<storeVars, out>>
      PROVE  ScreenOK(s)' /\ Considerate(s) /\ Shape'
  <2>1. /\ \A d \in Sessions \ {s} : /\ screen'[d] = screen[d] /\ art'[d] = art[d]
                                     /\ list'[d] = list[d] /\ overlay'[d] = overlay[d]
        /\ Shape'
    BY <1>0, <1>2 DEF Load, GoTo, Show, Shape, OnSessions
  <2> QED
    BY <1>0, <1>2, <2>1, LoadOK, QuietConsiderate
<1>3. CASE \/ (\E a \in 1..MaxArticles : Open(s, a)) \/ Neighbour(s) \/ (CancelEdit(s) /\ Loaded(s))
  BY <1>2, <1>3 DEF Open, Neighbour, CancelEdit
<1>4. CASE Edit(s) \/ SubmitOnNil(s)
  <2>1. /\ UNCHANGED <<storeVars, out, list, overlay>> /\ screen'[s] # "article"
        /\ \A d \in Sessions \ {s} : screen'[d] = screen[d] /\ art'[d] = art[d]
        /\ Shape'
    BY <1>0, <1>4 DEF Edit, SubmitOnNil, GoTo, Shape, OnSessions
  <2>2. art'[s] = art[s] \/ art'[s] = NoArticle \/ art'[s].id \in 1..lastArticle'
    BY <1>0, <1>4 DEF Edit, SubmitOnNil, Exists, GetByID, Shape, OnSessions, StoreInv, StoreTypeOK, storeVars
  <2> QED
    BY <1>0, <2>1, <2>2, AwayOK, QuietConsiderate DEF storeVars
<1>5. CASE \/ (\E kind \in Kinds : OpenPush(s, kind)) \/ ClosePush(s) \/ MoveCursor(s)
           \/ AskDelete(s) \/ CancelDelete(s) \/ OpenPicker(s) \/ ClosePicker(s)
  <2>1. /\ UNCHANGED <<storeVars, out, list, screen, art>>
        /\ \A d \in Sessions \ {s} : overlay'[d] = overlay[d]
        /\ overlay'[s] = "mode" => overlay[s] = "mode" \/ Loaded(s)
        /\ Shape'
    BY <1>0, <1>5 DEF OpenPush, ClosePush, CloseInput, MoveCursor, AskDelete, CancelDelete, OpenPicker,
       ClosePicker, Show, Shape, OnSessions
  <2>2. ScreenOK(s)'
    BY <1>0, <2>1 DEF ScreenOK, Loaded, Viewing, Exists, Shows, Lists, Told, storeVars
  <2> QED
    BY <1>0, <2>1, <2>2, QuietConsiderate
<1> QED
  BY <1>1, <1>3, <1>4, <1>5

\* A broadcast reaches every other account but guests, and takes nothing back.
LEMMA BroadcastTells ==
    ASSUME Shape, NEW s \in Sessions, NEW topic \in Topics, NEW a, Idle(s), Broadcast(s, topic, a)
    PROVE  /\ \A d \in Sessions : owner[d] # owner[s] /\ Registered(d) =>
                \E msg \in out'[s] : msg.to = d /\ msg.article = a /\ msg.topic = topic
           /\ \A d \in Sessions \ {s} : out'[d] = out[d]
           /\ out[s] \subseteq out'[s] /\ OnSessions(out)'
           /\ \A e \in Sessions : \A msg \in out'[e] : msg.topic \in Topics
<1>1. /\ out'[s] = {[topic |-> topic, article |-> a, to |-> d] : d \in {e \in Sessions : owner[e] # owner[s] /\ Registered(e)}}
      /\ \A d \in Sessions \ {s} : out'[d] = out[d]
      /\ OnSessions(out)' /\ out[s] = {}
  BY DEF Broadcast, Idle, Shape, OnSessions
<1>2. ASSUME NEW d \in Sessions, owner[d] # owner[s], Registered(d)
      PROVE  \E msg \in out'[s] : msg.to = d /\ msg.article = a /\ msg.topic = topic
  <2>1. [topic |-> topic, article |-> a, to |-> d] \in out'[s]
    BY <1>1, <1>2
  <2> QED
    BY <2>1
<1>3. \A msg \in out'[s] : msg.topic \in Topics
  BY <1>1
<1>4. \A e \in Sessions : \A msg \in out'[e] : msg.topic \in Topics
  BY <1>1, <1>3 DEF Shape
<1> QED
  BY <1>1, <1>2, <1>4

\* Keys that write to the store.
LEMMA WritingKeys ==
    ASSUME ViewInv, ScreensInv, StoreInv', NEW s \in Sessions,
           \/ Post(s) \/ Save(s) \/ SubmitPush(s) \/ ConfirmPush(s) \/ ConfirmArticle(s)
           \/ (\E mode \in Modes : PickMode(s, mode))
    PROVE  ScreenOK(s)' /\ Considerate(s) /\ Shape'
<1>0. /\ StoreInv /\ Shape /\ ScreenOK(s) /\ lastArticle \in Nat /\ lastArticle' \in Nat
      /\ lastPush \in Nat /\ lastPush + 1 \notin DOMAIN pushes
      /\ \A a \in DOMAIN articles : articles[a] \in Article
      /\ \A q \in DOMAIN pushes : pushes[q] \in Push
  BY ArticlesAssumption, RowsAfter DEF ViewInv, StoreInv, StoreTypeOK, ScreensInv
<1> DEFINE id == art[s].id
<1>1. CASE Post(s)
  <2>1. /\ screen'[s] # "article" /\ UNCHANGED <<screen, art, list, overlay, pushes>>
        /\ lastArticle' = lastArticle + 1 /\ Idle(s)
        /\ DOMAIN articles' = DOMAIN articles \cup {lastArticle + 1}
        /\ \A a \in DOMAIN articles : a <= lastArticle => articles'[a] = articles[a]
    BY <1>0, <1>1 DEF Post, ArticleCreate, Insert
  <2>2. Broadcast(s, "ArticleAdded", lastArticle + 1)
    BY <1>1 DEF Post
  <2>3. /\ \A d \in Sessions \ {s} : out'[d] = out[d]
        /\ out[s] \subseteq out'[s] /\ OnSessions(out)'
        /\ \A e \in Sessions : \A msg \in out'[e] : msg.topic \in Topics
    BY <1>0, <2>1, <2>2, BroadcastTells DEF Topics
  <2>4. Considerate(s)
    <3>1. \A a \in DOMAIN articles' : a <= lastArticle => a \in DOMAIN articles /\ articles'[a] = articles[a]
      BY <1>0, <2>1
    <3> QED
      BY <1>0, <2>1, <2>3, <3>1 DEF Considerate
  <2>5. Shape'
    BY <1>0, <2>1, <2>3 DEF Shape, OnSessions
  <2> QED
    BY <1>0, <2>1, <2>4, <2>5, AwayOK
<1>2. CASE Save(s)
  <2>1. PICK text \in Texts : ArticleUpdate(id, owner[s], text)
    BY <1>2 DEF Save
  <2>2. /\ DOMAIN articles' = DOMAIN articles /\ UNCHANGED <<pushes, lastArticle>>
        /\ \A a \in DOMAIN articles : a # id => articles'[a] = articles[a]
    BY <2>1 DEF ArticleUpdate
  <2>3. Load(s, id) /\ Broadcast(s, "ArticleUpdated", id) /\ Idle(s)
    BY <1>2 DEF Save
  <2>4. /\ \A d \in Sessions : owner[d] # owner[s] /\ Registered(d) =>
                \E msg \in out'[s] : msg.to = d /\ msg.article = id /\ msg.topic = "ArticleUpdated"
        /\ \A d \in Sessions \ {s} : out'[d] = out[d]
        /\ out[s] \subseteq out'[s] /\ OnSessions(out)'
        /\ \A e \in Sessions : \A msg \in out'[e] : msg.topic \in Topics
    BY <1>0, <2>3, BroadcastTells DEF Topics
  <2>5. \A d \in Sessions \ {s} : /\ screen'[d] = screen[d] /\ art'[d] = art[d]
                                  /\ list'[d] = list[d] /\ overlay'[d] = overlay[d]
    BY <1>0, <2>3 DEF Load, GoTo, Show, Shape, OnSessions
  <2>6. Considerate(s)
    BY <1>0, <2>2, <2>4, <2>5 DEF Considerate, Topics
  <2>7. Shape'
    BY <1>0, <2>3, <2>4 DEF Load, GoTo, Show, Shape, OnSessions
  <2> QED
    BY <1>0, <2>3, <2>6, <2>7, LoadOK
<1>3. CASE SubmitPush(s)
  <2>1. PushCreate(id, owner[s], pushKind[s]) /\ screen[s] = "article" /\ Loaded(s) /\ Idle(s)
    BY <1>3 DEF SubmitPush, At
  <2>2. /\ DOMAIN pushes' = DOMAIN pushes \cup {lastPush + 1} /\ lastArticle' = lastArticle
        /\ \A q \in DOMAIN pushes : pushes'[q] = pushes[q]
        /\ pushes'[lastPush + 1] = [article |-> id, user |-> owner[s], kind |-> pushKind[s]]
    BY <1>0, <2>1 DEF PushCreate, Insert
  <2>3. /\ id \in DOMAIN articles /\ DOMAIN articles' = DOMAIN articles
        /\ \A a \in DOMAIN articles : /\ articles'[a].mode = articles[a].mode
                                      /\ articles'[a].text = articles[a].text
    BY <1>0, <2>1 DEF PushCreate, CreateAllowed, Exists, Article
  <2>4. /\ \A d \in Sessions : owner[d] # owner[s] /\ Registered(d) =>
                \E msg \in out'[s] : msg.to = d /\ msg.article = id /\ msg.topic = "PushAdded"
        /\ \A d \in Sessions \ {s} : out'[d] = out[d]
        /\ out[s] \subseteq out'[s] /\ OnSessions(out)'
        /\ \A e \in Sessions : \A msg \in out'[e] : msg.topic \in Topics
    <3>1. Broadcast(s, "PushAdded", id)
      BY <1>3 DEF SubmitPush
    <3> QED
      BY <1>0, <2>1, <3>1, BroadcastTells DEF Topics
  <2>5. /\ screen' = screen /\ overlay'[s] = "none"
        /\ list'[s] = list[s] \cup {[id |-> lastPush + 1, user |-> owner[s]]}
        /\ art'[s] = GetByID(articles', id)
        /\ \A d \in Sessions \ {s} : art'[d] = art[d] /\ list'[d] = list[d] /\ overlay'[d] = overlay[d]
        /\ OnSessions(art)' /\ OnSessions(list)' /\ OnSessions(overlay)'
    BY <1>0, <1>3, <2>3 DEF SubmitPush, CloseInput, Show, Refetch, Shape, OnSessions
  <2>6. Considerate(s)
    <3>1. pushes'[lastPush + 1].article = id
      BY <2>2
    <3> QED
      BY <1>0, <2>2, <2>3, <2>4, <2>5, <3>1 DEF Considerate, Topics
  <2>7. Shape'
    BY <1>0, <2>4, <2>5 DEF Shape
  <2>8. art'[s] # NoArticle /\ art'[s].id = id /\ id \in 1..lastArticle' /\ Shows(s, art[s].id)'
    BY <2>3, <2>5, CopyOfRow, RowsAfter DEF Shows
  <2>9. Viewing(s)' => Lists(s, art[s].id)' \/ Told(s, art[s].id, {"PushAdded"})'
    <3> SUFFICES ASSUME Viewing(s)'
                 PROVE  Lists(s, art[s].id)' \/ Told(s, art[s].id, {"PushAdded"})'
      OBVIOUS
    <3>1. Viewing(s)
      BY <2>1, <2>3 DEF Viewing, OnlyWindow, Exists
    <3>2. CASE Lists(s, id)
      <4>1. [id |-> lastPush + 1, user |-> pushes'[lastPush + 1].user] \in list'[s]
        BY <2>2, <2>5
      <4>2. \A q \in DOMAIN pushes : pushes'[q].article = id => [id |-> q, user |-> pushes'[q].user] \in list'[s]
        BY <2>2, <2>5, <3>2 DEF Lists
      <4> QED
        BY <2>2, <2>8, <4>1, <4>2 DEF Lists
    <3>3. CASE Told(s, id, {"PushAdded"})
      <4>1. \E e \in Sessions : \E msg \in out'[e] : msg.to = s /\ msg.article = id /\ msg.topic \in {"PushAdded"}
        BY <2>4, <3>3 DEF Told
      <4> QED
        BY <2>8, <4>1 DEF Told
    <3> QED
      BY <1>0, <3>1, <3>2, <3>3 DEF ScreenOK
  <2>10. ScreenOK(s)'
    BY <2>5, <2>8, <2>9 DEF ScreenOK, Loaded
  <2> QED
    BY <2>6, <2>7, <2>10
<1>4. CASE ConfirmPush(s)
  <2>1. PICK r \in Selected(s) : PushDelete(r.id, owner[s])
    BY <1>4 DEF ConfirmPush
  <2>2. /\ DOMAIN pushes' \subseteq DOMAIN pushes /\ \A q \in DOMAIN pushes' : pushes'[q] = pushes[q]
        /\ lastArticle' = lastArticle /\ DOMAIN articles' = DOMAIN articles
        /\ \A a \in DOMAIN articles : /\ articles'[a].mode = articles[a].mode
                                      /\ articles'[a].text = articles[a].text
    BY <1>0, <2>1 DEF PushDelete, Remove, Article
  <2>3. Loaded(s) /\ screen[s] = "article" /\ id \in 1..lastArticle
    BY <1>0, <1>4, <2>1 DEF ConfirmPush, At, Selected, ScreenOK
  <2>4. /\ screen' = screen /\ out' = out /\ overlay'[s] = "none"
        /\ list'[s] = ListByArticle(pushes', id)
        /\ art'[s] = IF id \in DOMAIN articles' THEN GetByID(articles', id) ELSE art[s]
        /\ \A d \in Sessions \ {s} : art'[d] = art[d] /\ list'[d] = list[d] /\ overlay'[d] = overlay[d]
        /\ Shape'
    BY <1>0, <1>4 DEF ConfirmPush, Relist, Refetch, Show, Shape, OnSessions
  <2>5. Considerate(s)
    BY <1>0, <2>2, <2>4 DEF Considerate
  <2>6. art'[s] # NoArticle /\ art'[s].id = id /\ (id \in DOMAIN articles' => Shows(s, art[s].id)')
    <3>1. CASE id \in DOMAIN articles'
      BY <2>4, <3>1, CopyOfRow, RowsAfter DEF Shows
    <3>2. CASE id \notin DOMAIN articles'
      BY <2>3, <2>4, <3>2 DEF Loaded
    <3> QED
      BY <3>1, <3>2
  <2>7. Lists(s, art[s].id)'
    BY <2>4, <2>6, ListedRows DEF Lists
  <2>8. ScreenOK(s)'
    BY <2>2, <2>3, <2>4, <2>6, <2>7 DEF ScreenOK, Loaded, Viewing, Exists
  <2> QED
    BY <2>4, <2>5, <2>8
<1>5. CASE ConfirmArticle(s)
  <2>1. /\ DOMAIN pushes' \subseteq DOMAIN pushes /\ \A q \in DOMAIN pushes' : pushes'[q] = pushes[q]
        /\ DOMAIN articles' \subseteq DOMAIN articles /\ \A a \in DOMAIN articles' : articles'[a] = articles[a]
        /\ lastArticle' = lastArticle
    BY <1>5 DEF ConfirmArticle, ArticleDelete, Remove
  <2>2. /\ screen'[s] = "board" /\ art'[s] = NoArticle /\ out' = out
        /\ \A d \in Sessions \ {s} : /\ screen'[d] = screen[d] /\ art'[d] = art[d]
                                     /\ list'[d] = list[d] /\ overlay'[d] = overlay[d]
        /\ Shape'
    BY <1>0, <1>5 DEF ConfirmArticle, ToBoard, Forget, GoTo, Show, Shape, OnSessions
  <2>3. Considerate(s)
    BY <1>0, <2>1, <2>2 DEF Considerate
  <2> QED
    BY <1>0, <2>1, <2>2, <2>3, AwayOK
<1>6. ASSUME NEW mode \in Modes, PickMode(s, mode)
      PROVE  ScreenOK(s)' /\ Considerate(s) /\ Shape'
  <2>1. SetCommentsMode(id, owner[s], mode) /\ screen[s] = "article" /\ Loaded(s) /\ Idle(s)
    BY <1>0, <1>6 DEF PickMode, At, ScreenOK
  <2>2. /\ DOMAIN articles' = DOMAIN articles /\ UNCHANGED <<pushes, lastArticle>>
        /\ \A a \in DOMAIN articles : a # id => articles'[a] = articles[a]
        /\ id \in DOMAIN articles
    BY <2>1 DEF SetCommentsMode, Exists
  <2>3. /\ \A d \in Sessions : owner[d] # owner[s] /\ Registered(d) =>
                \E msg \in out'[s] : msg.to = d /\ msg.article = id /\ msg.topic = "CommentsMode"
        /\ \A d \in Sessions \ {s} : out'[d] = out[d]
        /\ out[s] \subseteq out'[s] /\ OnSessions(out)'
        /\ \A e \in Sessions : \A msg \in out'[e] : msg.topic \in Topics
    <3>1. Broadcast(s, "CommentsMode", id)
      BY <1>6 DEF PickMode
    <3> QED
      BY <1>0, <2>1, <3>1, BroadcastTells DEF Topics
  <2>4. /\ UNCHANGED <<screen, list>> /\ overlay'[s] = "none" /\ art'[s] = GetByID(articles', id)
        /\ \A d \in Sessions \ {s} : art'[d] = art[d] /\ overlay'[d] = overlay[d]
        /\ OnSessions(art)' /\ OnSessions(overlay)'
    BY <1>0, <1>6, <2>2 DEF PickMode, Refetch, Show, Shape, OnSessions
  <2>5. Considerate(s)
    BY <1>0, <2>2, <2>3, <2>4 DEF Considerate, Topics
  <2>6. Shape'
    BY <1>0, <2>3, <2>4 DEF Shape, OnSessions
  <2>7. art'[s] # NoArticle /\ art'[s].id = id /\ id \in 1..lastArticle' /\ Shows(s, art[s].id)'
    BY <2>2, <2>4, CopyOfRow, RowsAfter DEF Shows
  <2>8. Viewing(s)' => Lists(s, art[s].id)' \/ Told(s, art[s].id, {"PushAdded"})'
    <3> SUFFICES ASSUME Viewing(s)'
                 PROVE  Lists(s, art[s].id)' \/ Told(s, art[s].id, {"PushAdded"})'
      OBVIOUS
    <3>1. Viewing(s)
      BY <2>1, <2>2 DEF Viewing, OnlyWindow, Exists
    <3>2. CASE Lists(s, id)
      BY <2>2, <2>4, <2>7, <3>2 DEF Lists
    <3>3. CASE Told(s, id, {"PushAdded"})
      <4>1. \E e \in Sessions : \E msg \in out'[e] : msg.to = s /\ msg.article = id /\ msg.topic \in {"PushAdded"}
        BY <2>3, <3>3 DEF Told
      <4> QED
        BY <2>7, <4>1 DEF Told
    <3> QED
      BY <1>0, <3>1, <3>2, <3>3 DEF ScreenOK
  <2>9. ScreenOK(s)'
    BY <2>4, <2>7, <2>8 DEF ScreenOK, Loaded
  <2> QED
    BY <2>5, <2>6, <2>9
<1> QED
  BY <1>1, <1>2, <1>3, <1>4, <1>5, <1>6

\* A message makes the view it is about read the store; the others keep theirs.
LEMMA ReceiveOK ==
    ASSUME ViewInv, ScreensInv, StoreInv', NEW s \in Sessions, NEW msg \in out[s], Receive(s, msg)
    PROVE  ScreensInv'
<1> DEFINE d == msg.to
           viewed == screen[d] = "article" /\ Loaded(d) /\ art[d].id = msg.article
<1>0. Shape /\ \A e \in Sessions : ScreenOK(e)
  BY DEF ScreensInv
<1>1. /\ UNCHANGED <<storeVars, screen, overlay>> /\ out' = [out EXCEPT ![s] = out[s] \ {msg}]
      /\ IF viewed THEN Refetch(d) ELSE art' = art
      /\ IF viewed /\ msg.topic = "PushAdded" THEN Relist(d) ELSE list' = list
  BY DEF Receive, Take
<1>2. Shape'
  BY <1>0, <1>1 DEF Refetch, Relist, Shape, OnSessions
<1>3. ASSUME NEW m, NEW f \in Sessions, m \in out[f], m # msg
      PROVE  m \in out'[f]
  BY <1>0, <1>1, <1>3 DEF Shape, OnSessions
<1>4. UNCHANGED <<articles, pushes, lastArticle>>
  BY <1>1 DEF storeVars
<1>5. ASSUME NEW e \in Sessions PROVE ScreenOK(e)'
  <2>0. ScreenOK(e)
    BY <1>0
  <2>1. CASE e = d /\ viewed
    <3>1. /\ art'[e] = IF art[e].id \in DOMAIN articles' THEN GetByID(articles', art[e].id) ELSE art[e]
          /\ msg.topic = "PushAdded" => list'[e] = ListByArticle(pushes', art[e].id)
          /\ msg.topic # "PushAdded" => list'[e] = list[e]
          /\ screen[e] = "article" /\ Loaded(e) /\ art[e].id \in 1..lastArticle
      BY <1>0, <1>1, <2>0, <2>1 DEF Refetch, Relist, Shape, OnSessions, ScreenOK
    <3>2. art'[e] # NoArticle /\ art'[e].id = art[e].id
          /\ (art[e].id \in DOMAIN articles' => Shows(e, art[e].id)')
      <4>1. CASE art[e].id \in DOMAIN articles'
        BY <3>1, <4>1, CopyOfRow, RowsAfter DEF Shows
      <4>2. CASE art[e].id \notin DOMAIN articles'
        BY <3>1, <4>2 DEF Loaded
      <4> QED
        BY <4>1, <4>2
    <3>3. Viewing(e)' => Lists(e, art[e].id)' \/ Told(e, art[e].id, {"PushAdded"})'
      <4> SUFFICES ASSUME Viewing(e)'
                   PROVE  Lists(e, art[e].id)' \/ Told(e, art[e].id, {"PushAdded"})'
        OBVIOUS
      <4>1. CASE msg.topic = "PushAdded"
        BY <3>1, <3>2, <4>1, ListedRows DEF Lists
      <4>2. CASE msg.topic # "PushAdded"
        <5>1. Viewing(e)
          BY <1>1, <1>4, <3>1, <3>2 DEF Viewing, OnlyWindow, Exists
        <5>2. CASE Lists(e, art[e].id)
          BY <1>4, <3>1, <3>2, <4>2, <5>2 DEF Lists
        <5>3. CASE Told(e, art[e].id, {"PushAdded"})
          <6>1. \E f \in Sessions : \E m \in out'[f] : m.to = e /\ m.article = art'[e].id /\ m.topic \in {"PushAdded"}
            BY <1>3, <3>2, <4>2, <5>3 DEF Told
          <6> QED
            BY <6>1 DEF Told
        <5> QED
          BY <2>0, <5>1, <5>2, <5>3 DEF ScreenOK
      <4> QED
        BY <4>1, <4>2
    <3> QED
      BY <1>1, <1>4, <3>1, <3>2, <3>3 DEF ScreenOK, Loaded, Viewing, Exists
  <2>2. CASE ~(e = d /\ viewed)
    <3>1. /\ art'[e] = art[e] /\ list'[e] = list[e] /\ screen'[e] = screen[e] /\ overlay'[e] = overlay[e]
          /\ Loaded(e)' = Loaded(e) /\ Viewing(e)' = Viewing(e)
      <4>1. art'[e] = art[e] /\ list'[e] = list[e]
        BY <1>0, <1>1, <2>2 DEF Refetch, Relist, Shape, OnSessions
      <4> QED
        BY <1>1, <1>4, <4>1 DEF Loaded, Viewing, OnlyWindow, Exists
    <3>2. ASSUME Viewing(e), NEW topics, Told(e, art[e].id, topics)
          PROVE  \E f \in Sessions : \E m \in out'[f] : m.to = e /\ m.article = art'[e].id /\ m.topic \in topics
      <4>1. PICK f \in Sessions : \E m \in out[f] : m.to = e /\ m.article = art[e].id /\ m.topic \in topics
        BY <3>2 DEF Told
      <4>2. PICK m \in out[f] : m.to = e /\ m.article = art[e].id /\ m.topic \in topics
        BY <4>1
      <4>3. m # msg
        BY <2>2, <3>2, <4>2 DEF Viewing
      <4>4. m \in out'[f]
        BY <1>3, <4>3
      <4> QED
        BY <3>1, <4>2, <4>4
    <3>3. Viewing(e)' => Shows(e, art[e].id)' \/ Told(e, art[e].id, Topics)'
      <4>1. Shows(e, art[e].id) => Shows(e, art[e].id)'
        BY <1>4, <3>1 DEF Shows
      <4>2. Viewing(e) /\ Told(e, art[e].id, Topics) => Told(e, art[e].id, Topics)'
        BY <3>2, Zenon DEF Told, Topics
      <4> QED
        BY <2>0, <3>1, <4>1, <4>2 DEF ScreenOK
    <3>4. Viewing(e)' => Lists(e, art[e].id)' \/ Told(e, art[e].id, {"PushAdded"})'
      <4>1. Lists(e, art[e].id) => Lists(e, art[e].id)'
        BY <1>4, <3>1 DEF Lists
      <4>2. Viewing(e) /\ Told(e, art[e].id, {"PushAdded"}) => Told(e, art[e].id, {"PushAdded"})'
        BY <3>2, Zenon DEF Told
      <4> QED
        BY <2>0, <3>1, <4>1, <4>2 DEF ScreenOK
    <3> QED
      BY <1>4, <2>0, <3>1, <3>3, <3>4 DEF ScreenOK
  <2> QED
    BY <2>1, <2>2
<1> QED
  BY <1>2, <1>5 DEF ScreensInv

\* Every step keeps what is known of the screens.
LEMMA NextScreens == ASSUME ViewInv, ScreensInv, StoreInv', [Next]_vars PROVE ScreensInv'
<1>1. CASE UNCHANGED vars
  BY <1>1 DEF vars, viewVars, storeVars, ScreensInv, Shape, OnSessions, ScreenOK, Loaded, Viewing,
     OnlyWindow, Exists, Shows, Lists, Told
<1>2. ASSUME NEW s \in Sessions, Keys(s) PROVE ScreensInv'
  <2>1. ScreenOK(s)' /\ Considerate(s) /\ Shape'
    BY <1>2, QuietKeys, WritingKeys DEF Keys
  <2>2. ASSUME NEW d \in Sessions PROVE ScreenOK(d)'
    BY <2>1, OthersOK DEF ScreensInv
  <2> QED
    BY <2>1, <2>2 DEF ScreensInv
<1> QED
  BY <1>1, <1>2, ReceiveOK DEF Next

\* Both invariants hold throughout.
LEMMA ScreensAlways == Spec => [](ViewInv /\ ScreensInv)
<1>1. ViewInv /\ ScreensInv /\ [Next]_vars => ViewInv' /\ ScreensInv'
  BY NextIsStoreStep, NextStoreInv, NextScreens DEF ViewInv
<1> QED
  BY InitViewInv, InitScreens, <1>1, PTL DEF Spec

\* Once its messages have arrived, an open view has the text and the mode of the
\* store, for any number of sessions writing at the same time.
THEOREM ViewsAreCurrent == Spec => []OpenViewsCurrent
<1>1. ScreensInv => OpenViewsCurrent
  <2> SUFFICES ASSUME ScreensInv, NEW d \in Sessions, Settled(d)
               PROVE  Shows(d, art[d].id)
    BY DEF OpenViewsCurrent, Shows
  <2>1. Viewing(d) /\ ~Told(d, art[d].id, Topics)
    BY DEF Settled, Viewing, OnlyWindow, Told
  <2> QED
    BY <2>1 DEF ScreensInv, ScreenOK
<1> QED
  BY <1>1, ScreensAlways, PTL

\* Once its messages have arrived, an open view lists every push of its article.
THEOREM ListsAreComplete == Spec => []OpenListsComplete
<1>1. ScreensInv => OpenListsComplete
  <2> SUFFICES ASSUME ScreensInv, NEW d \in Sessions, Settled(d)
               PROVE  ListByArticle(pushes, art[d].id) \subseteq list[d]
    BY DEF OpenListsComplete
  <2>1. Viewing(d) /\ ~Told(d, art[d].id, {"PushAdded"})
    BY DEF Settled, Viewing, OnlyWindow, Told
  <2>2. Lists(d, art[d].id)
    BY <2>1 DEF ScreensInv, ScreenOK
  <2> QED
    BY <2>2 DEF Lists, ListByArticle
<1> QED
  BY <1>1, ScreensAlways, PTL

-----------------------------------------------------------------------------
(* Types of the screens.  A cursor stays below the bound on pushes because *)
(* a list has no more rows than ids were given out: it holds one row for   *)
(* an id, old or new.                                                      *)

RowsDistinct(rows, last) ==
    /\ \A r \in rows : r.id <= last
    /\ \A q, r \in rows : q.id = r.id => q = r

TypesInv == ViewTypeOK /\ \A s \in Sessions : RowsDistinct(list[s], lastPush)

\* A list with one row for an id has at most as many rows as there are ids.
LEMMA DistinctRowsAreFew ==
    ASSUME NEW last \in Nat, last <= MaxPushes, NEW rows \in SUBSET Rows, RowsDistinct(rows, last)
    PROVE  Cardinality(rows) \in Nat /\ Cardinality(rows) <= MaxPushes
<1> DEFINE f == [r \in rows |-> r.id]
<1>1. MaxPushes \in Nat
  BY ArticlesAssumption
<1>2. \A r \in rows : r.id \in 1..last
  BY <1>1 DEF Rows, RowsDistinct
<1>3. f \in Injection(rows, 1..last)
  <2>1. f \in [rows -> 1..last] /\ \A q, r \in rows : f[q] = f[r] => q = r
    BY <1>2 DEF RowsDistinct
  <2> QED
    BY <2>1, Fun_IsInj
<1>4. IsFiniteSet(1..last) /\ Cardinality(1..last) <= last
  <2>1. IsFiniteSet(1..last) /\ Cardinality(1..last) = IF 1 > last THEN 0 ELSE last - 1 + 1
    BY FS_Interval
  <2> QED
    BY <2>1
<1>5. IsFiniteSet(rows) /\ Cardinality(rows) <= Cardinality(1..last)
  BY <1>3, <1>4, FS_Injection
<1>6. Cardinality(rows) \in Nat /\ Cardinality(1..last) \in Nat
  BY <1>4, <1>5, FS_CardinalityType
<1> QED
  BY <1>1, <1>4, <1>5, <1>6

\* What a screen reads from the store after a step has the types of its copies.
LEMMA Reads ==
    ASSUME StoreInv'
    PROVE  /\ \A a \in DOMAIN articles' : a \in 1..MaxArticles /\ GetByID(articles', a) \in Copies
           /\ \A a : /\ ListByArticle(pushes', a) \in SUBSET Rows
                     /\ RowsDistinct(ListByArticle(pushes', a), lastPush')
           /\ lastPush' \in Nat /\ lastPush' <= MaxPushes
<1>1. lastPush' \in Nat /\ lastPush' <= MaxPushes
  BY ArticlesAssumption DEF StoreInv, StoreTypeOK
<1>2. \A p \in DOMAIN pushes' : p \in 1..MaxPushes /\ p <= lastPush' /\ pushes'[p].user \in Users
  BY ArticlesAssumption DEF StoreInv, StoreTypeOK, Push
<1>3. ASSUME NEW a
      PROVE  /\ ListByArticle(pushes', a) \in SUBSET Rows
             /\ RowsDistinct(ListByArticle(pushes', a), lastPush')
  BY <1>2 DEF ListByArticle, Rows, RowsDistinct
<1>4. ASSUME NEW a \in DOMAIN articles'
      PROVE  a \in 1..MaxArticles /\ GetByID(articles', a) \in Copies
  <2>1. a \in 1..MaxArticles /\ articles'[a] \in Article
    BY RowsAfter
  <2> QED
    BY <2>1 DEF GetByID, Copies, Article
<1> QED
  BY <1>1, <1>3, <1>4

\* Rows that were distinct stay so: ids are only ever given out.
LEMMA OldRowsDistinct ==
    ASSUME StoreInv, StoreInv', TypesInv, [StoreNext]_storeVars
    PROVE  \A s \in Sessions : RowsDistinct(list[s], lastPush')
<1>1. lastPush \in Nat /\ lastPush' \in Nat
  BY ArticlesAssumption DEF StoreInv, StoreTypeOK
<1>2. lastPush <= lastPush'
  <2>1. lastPush' = lastPush \/ lastPush' = lastPush + 1
    BY DEF StoreNext, storeVars, ArticleCreate, ArticleDelete, ArticleUpdate, SetPinned,
       SetCommentsMode, PushCreate, PushDelete
  <2> QED
    BY <1>1, <2>1
<1>3. \A s \in Sessions : \A r \in list[s] : r.id \in Nat
  BY DEF TypesInv, ViewTypeOK, Rows
<1> QED
  BY <1>1, <1>2, <1>3 DEF TypesInv, RowsDistinct

\* What a broadcast puts out are messages.
LEMMA BroadcastTypes ==
    ASSUME ViewTypeOK, NEW s \in Sessions, NEW topic \in Topics, NEW a \in 1..MaxArticles,
           Broadcast(s, topic, a)
    PROVE  out' \in [Sessions -> SUBSET Message]
BY DEF ViewTypeOK, Broadcast, Message

\* All screens start empty.
LEMMA InitTypes == Init => TypesInv
<1> SUFFICES ASSUME Init
             PROVE  TypesInv
  OBVIOUS
<1>1. MaxPushes \in Nat
  BY ArticlesAssumption
<1>2. ViewTypeOK
  BY <1>1 DEF Init, ViewTypeOK, Screens, Overlays, Kinds
<1>3. \A s \in Sessions : RowsDistinct(list[s], lastPush)
  BY DEF Init, RowsDistinct
<1> QED
  BY <1>2, <1>3 DEF TypesInv

\* The part of the types that a change of screen has to do with.
ScreenTypes ==
    /\ screen \in [Sessions -> Screens]
    /\ board \in [Sessions -> SUBSET (1..MaxArticles)]
    /\ art \in [Sessions -> Copies \cup {NoArticle}]
    /\ list \in [Sessions -> SUBSET Rows]
    /\ pushCursor \in [Sessions -> -1..MaxPushes]
    /\ overlay \in [Sessions -> Overlays]
    /\ pushKind \in [Sessions -> Kinds]
    /\ target \in [Sessions -> 0..MaxPushes]
    /\ \A s \in Sessions : RowsDistinct(list[s], lastPush)

\* Loading an article, or failing to, leaves a screen of the right types.
LEMMA LoadTypes ==
    ASSUME ScreenTypes, StoreInv', \A d \in Sessions : RowsDistinct(list[d], lastPush'),
           NEW s \in Sessions, NEW a, Load(s, a)
    PROVE  ScreenTypes'
<1>1. MaxPushes \in Nat
  BY ArticlesAssumption
<1>2. /\ screen' \in [Sessions -> Screens] /\ board' \in [Sessions -> SUBSET (1..MaxArticles)]
      /\ overlay' \in [Sessions -> Overlays] /\ pushKind' \in [Sessions -> Kinds]
  BY DEF Load, GoTo, Show, ScreenTypes, Screens, Overlays, Kinds
<1>3. pushCursor' \in [Sessions -> -1..MaxPushes] /\ target' \in [Sessions -> 0..MaxPushes]
  BY <1>1 DEF Load, ScreenTypes
<1>4. art' \in [Sessions -> Copies \cup {NoArticle}]
  BY Reads DEF Load, ScreenTypes
<1>5. list' \in [Sessions -> SUBSET Rows] /\ \A d \in Sessions : RowsDistinct(list'[d], lastPush')
  <2>1. RowsDistinct({}, lastPush')
    BY DEF RowsDistinct
  <2> QED
    BY <2>1, Reads DEF Load, ScreenTypes
<1> QED
  BY <1>2, <1>3, <1>4, <1>5 DEF ScreenTypes

\* So does leaving the article.
LEMMA AwayTypes ==
    ASSUME ScreenTypes, StoreInv', \A d \in Sessions : RowsDistinct(list[d], lastPush'),
           NEW s \in Sessions, ToBoard(s) \/ ToElsewhere(s)
    PROVE  ScreenTypes'
<1>1. MaxPushes \in Nat
  BY ArticlesAssumption
<1>2. Forget(s) /\ screen' \in [Sessions -> Screens]
  BY DEF ToBoard, ToElsewhere, GoTo, ScreenTypes, Screens
<1>3. board' \in [Sessions -> SUBSET (1..MaxArticles)]
  BY Reads DEF ToBoard, ToElsewhere, Reload, ScreenTypes
<1>4. /\ art' \in [Sessions -> Copies \cup {NoArticle}]
      /\ overlay' \in [Sessions -> Overlays] /\ pushKind' \in [Sessions -> Kinds]
      /\ pushCursor' \in [Sessions -> -1..MaxPushes] /\ target' \in [Sessions -> 0..MaxPushes]
  BY <1>1, <1>2 DEF Forget, Show, ScreenTypes, Overlays, Kinds
<1>5. list' \in [Sessions -> SUBSET Rows] /\ \A d \in Sessions : RowsDistinct(list'[d], lastPush')
  BY <1>2 DEF Forget, ScreenTypes, RowsDistinct
<1> QED
  BY <1>2, <1>3, <1>4, <1>5 DEF ScreenTypes

\* The keys that leave the store alone.
LEMMA QuietTypes ==
    ASSUME ScreenTypes, StoreInv, StoreInv', UNCHANGED storeVars, NEW s \in Sessions,
           \/ Edit(s) \/ (\E kind \in Kinds : OpenPush(s, kind)) \/ ClosePush(s) \/ SubmitOnNil(s)
           \/ MoveCursor(s) \/ AskDelete(s) \/ CancelDelete(s) \/ OpenPicker(s) \/ ClosePicker(s)
    PROVE  ScreenTypes'
<1> USE DEF ScreenTypes
<1>0. MaxPushes \in Nat /\ lastPush' = lastPush /\ articles' = articles
  BY ArticlesAssumption DEF storeVars
<1>1. CASE \/ Edit(s) \/ SubmitOnNil(s)
  BY <1>0, <1>1, Reads DEF Edit, SubmitOnNil, GoTo, Screens, Exists
<1>2. CASE \/ (\E kind \in Kinds : OpenPush(s, kind)) \/ ClosePush(s) \/ OpenPicker(s) \/ ClosePicker(s)
  BY <1>0, <1>2 DEF OpenPush, ClosePush, CloseInput, OpenPicker, ClosePicker, Show, Overlays, Kinds
<1>3. CASE MoveCursor(s)
  <2>1. lastPush \in Nat /\ lastPush <= MaxPushes
    BY ArticlesAssumption DEF StoreInv, StoreTypeOK
  <2>2. Cardinality(list[s]) \in Nat /\ Cardinality(list[s]) <= MaxPushes
    BY <2>1, DistinctRowsAreFew
  <2>3. pushCursor' \in [Sessions -> -1..MaxPushes]
    BY <1>0, <1>3, <2>2 DEF MoveCursor
  <2> QED
    BY <1>0, <1>3, <2>3 DEF MoveCursor
<1>4. CASE AskDelete(s) \/ CancelDelete(s)
  <2>1. \A r \in Selected(s) : r.id \in 0..MaxPushes
    BY <1>0 DEF Selected, Rows
  <2>2. target' \in [Sessions -> 0..MaxPushes]
    BY <1>0, <1>4, <2>1 DEF AskDelete, CancelDelete
  <2> QED
    BY <1>0, <1>4, <2>2 DEF AskDelete, CancelDelete, Show, Overlays
<1> QED
  BY <1>1, <1>2, <1>3, <1>4

\* The keys that write to the store.
LEMMA WritingTypes ==
    ASSUME TypesInv, ScreenTypes, StoreInv, StoreInv', [StoreNext]_storeVars, NEW s \in Sessions,
           \/ Post(s) \/ Save(s) \/ SubmitPush(s) \/ ConfirmPush(s) \/ ConfirmArticle(s)
           \/ \E mode \in Modes : PickMode(s, mode)
    PROVE  ScreenTypes' /\ out' \in [Sessions -> SUBSET Message]
<1>0. /\ MaxPushes \in Nat /\ owner[s] \in Users
      /\ ViewTypeOK /\ \A d \in Sessions : RowsDistinct(list[d], lastPush')
  BY OldRowsDistinct, ArticlesAssumption, ViewAssumption DEF TypesInv
<1>1. CASE Post(s)
  <2>1. lastArticle + 1 \in 1..MaxArticles
    BY <1>1, ArticlesAssumption DEF Post, ArticleCreate, StoreInv, StoreTypeOK
  <2>2. out' \in [Sessions -> SUBSET Message]
    BY <1>0, <1>1, <2>1, BroadcastTypes DEF Post, Topics
  <2>3. board' \in [Sessions -> SUBSET (1..MaxArticles)]
    BY <1>1, Reads DEF Post, Reload, ScreenTypes
  <2> QED
    BY <1>0, <1>1, <2>2, <2>3 DEF Post, ScreenTypes
<1>2. CASE Save(s)
  <2>1. art[s].id \in 1..MaxArticles
    BY <1>2, ArticlesAssumption DEF Save, ArticleUpdate, Exists, StoreInv, StoreTypeOK
  <2>2. out' \in [Sessions -> SUBSET Message]
    BY <1>0, <1>2, <2>1, BroadcastTypes DEF Save, Topics
  <2> QED
    BY <1>0, <1>2, <2>2, LoadTypes DEF Save
<1>3. CASE SubmitPush(s)
  <2>1. art[s].id \in DOMAIN articles /\ lastPush' = lastPush + 1
    BY <1>3 DEF SubmitPush, PushCreate, CreateAllowed, Exists
  <2>2. out' \in [Sessions -> SUBSET Message]
    <3>1. art[s].id \in 1..MaxArticles /\ Broadcast(s, "PushAdded", art[s].id)
      BY <1>3, <2>1, ArticlesAssumption DEF SubmitPush, StoreInv, StoreTypeOK
    <3> QED
      BY <1>0, <3>1, BroadcastTypes DEF Topics
  <2>3. art' \in [Sessions -> Copies \cup {NoArticle}]
    BY <1>3, Reads DEF SubmitPush, Refetch, ScreenTypes
  <2> DEFINE new == [id |-> lastPush + 1, user |-> owner[s]]
  <2>4. list'[s] = list[s] \cup {new} /\ \A d \in Sessions \ {s} : list'[d] = list[d]
    BY <1>3 DEF SubmitPush, ScreenTypes
  <2>5. new \in Rows
    BY <1>0, <2>1, Reads, ArticlesAssumption DEF Rows, StoreInv, StoreTypeOK
  <2>6. RowsDistinct(list'[s], lastPush')
    <3>1. lastPush \in Nat /\ \A r \in list[s] : r.id \in Nat /\ r.id <= lastPush
      BY ArticlesAssumption DEF StoreInv, StoreTypeOK, ScreenTypes, Rows, RowsDistinct
    <3>2. \A r \in list[s] : r.id # new.id
      BY <3>1
    <3>3. new.id <= lastPush'
      BY <2>1, <3>1
    <3> QED
      BY <1>0, <2>4, <3>2, <3>3 DEF RowsDistinct
  <2>7. list' \in [Sessions -> SUBSET Rows] /\ \A d \in Sessions : RowsDistinct(list'[d], lastPush')
    BY <1>0, <1>3, <2>4, <2>5, <2>6 DEF SubmitPush, ScreenTypes
  <2> QED
    BY <1>3, <2>2, <2>3, <2>7 DEF SubmitPush, CloseInput, Show, ScreenTypes, Overlays, Kinds
<1>4. CASE ConfirmPush(s)
  <2>1. art' \in [Sessions -> Copies \cup {NoArticle}]
    BY <1>4, Reads DEF ConfirmPush, Refetch, ScreenTypes
  <2>2. list' \in [Sessions -> SUBSET Rows] /\ \A d \in Sessions : RowsDistinct(list'[d], lastPush')
    BY <1>0, <1>4, Reads DEF ConfirmPush, Relist, ScreenTypes
  <2>3. pushCursor' \in [Sessions -> -1..MaxPushes] /\ target' \in [Sessions -> 0..MaxPushes]
    BY <1>0, <1>4 DEF ConfirmPush, ScreenTypes
  <2> QED
    BY <1>0, <1>4, <2>1, <2>2, <2>3 DEF ConfirmPush, Show, ScreenTypes, Overlays, ViewTypeOK
<1>5. CASE ConfirmArticle(s)
  <2>1. ToBoard(s) /\ out' = out
    BY <1>5 DEF ConfirmArticle
  <2> QED
    BY <1>0, <2>1, AwayTypes DEF ViewTypeOK
<1>6. ASSUME NEW mode \in Modes, PickMode(s, mode)
      PROVE  ScreenTypes' /\ out' \in [Sessions -> SUBSET Message]
  <2>1. art[s].id \in 1..MaxArticles
    BY <1>6, ArticlesAssumption DEF PickMode, SetCommentsMode, Exists, StoreInv, StoreTypeOK
  <2>2. out' \in [Sessions -> SUBSET Message]
    BY <1>0, <1>6, <2>1, BroadcastTypes DEF PickMode, Topics
  <2>3. art' \in [Sessions -> Copies \cup {NoArticle}]
    BY <1>6, Reads DEF PickMode, Refetch, ScreenTypes
  <2> QED
    BY <1>0, <1>6, <2>2, <2>3 DEF PickMode, Show, ScreenTypes, Overlays
<1> QED
  BY <1>1, <1>2, <1>3, <1>4, <1>5, <1>6

\* A message changes the copies of the session that takes it.
LEMMA ReceiveTypes ==
    ASSUME TypesInv, ScreenTypes, StoreInv, StoreInv', NEW s \in Sessions, NEW msg \in out[s], Receive(s, msg)
    PROVE  ScreenTypes' /\ out' \in [Sessions -> SUBSET Message]
<1>1. UNCHANGED <<screen, pushCursor, overlay, pushKind, target, lastPush>>
  BY DEF Receive, storeVars
<1>2. out' \in [Sessions -> SUBSET Message]
  BY DEF Receive, Take, TypesInv, ViewTypeOK
<1>3. board' \in [Sessions -> SUBSET (1..MaxArticles)]
  BY Reads DEF Receive, Reload, ScreenTypes
<1>4. art' \in [Sessions -> Copies \cup {NoArticle}]
  BY Reads DEF Receive, Refetch, ScreenTypes
<1>5. list' \in [Sessions -> SUBSET Rows] /\ \A d \in Sessions : RowsDistinct(list'[d], lastPush')
  BY <1>1, Reads DEF Receive, Relist, ScreenTypes
<1> QED
  BY <1>1, <1>2, <1>3, <1>4, <1>5 DEF ScreenTypes

\* Every step keeps the types.
LEMMA NextTypes == ASSUME ViewInv, TypesInv, StoreInv', [Next]_vars PROVE TypesInv'
<1>0. /\ StoreInv /\ ScreenTypes /\ [StoreNext]_storeVars
      /\ \A d \in Sessions : RowsDistinct(list[d], lastPush')
  BY NextIsStoreStep, OldRowsDistinct DEF ViewInv, TypesInv, ViewTypeOK, ScreenTypes
<1>1. CASE UNCHANGED vars
  BY <1>1 DEF vars, viewVars, storeVars, TypesInv, ViewTypeOK
<1>2. ASSUME NEW s \in Sessions, Keys(s)
      PROVE  ScreenTypes' /\ out' \in [Sessions -> SUBSET Message]
  <2>0. out \in [Sessions -> SUBSET Message]
    BY DEF TypesInv, ViewTypeOK
  <2>1. CASE EnterBoard(s) \/ Elsewhere(s) \/ Leave(s)
    <3>1. (ToBoard(s) \/ ToElsewhere(s)) /\ out' = out
      BY <2>1 DEF EnterBoard, Elsewhere, Leave
    <3> QED
      BY <1>0, <2>0, <3>1, AwayTypes
  <2>2. CASE (\E a \in 1..MaxArticles : Open(s, a)) \/ Neighbour(s)
    <3>1. PICK a : Load(s, a) /\ out' = out
      BY <2>2 DEF Open, Neighbour
    <3> QED
      BY <1>0, <2>0, <3>1, LoadTypes
  <2>3. CASE CancelEdit(s)
    BY <1>0, <2>0, <2>3, LoadTypes, AwayTypes DEF CancelEdit
  <2>4. CASE \/ Edit(s) \/ (\E kind \in Kinds : OpenPush(s, kind)) \/ ClosePush(s) \/ SubmitOnNil(s)
             \/ MoveCursor(s) \/ AskDelete(s) \/ CancelDelete(s) \/ OpenPicker(s) \/ ClosePicker(s)
    <3>1. UNCHANGED storeVars /\ out' = out
      BY <2>4 DEF Edit, OpenPush, ClosePush, SubmitOnNil, MoveCursor, AskDelete, CancelDelete,
         OpenPicker, ClosePicker
    <3> QED
      BY <1>0, <2>0, <2>4, <3>1, QuietTypes
  <2>5. CASE \/ Post(s) \/ Save(s) \/ SubmitPush(s) \/ ConfirmPush(s) \/ ConfirmArticle(s)
             \/ \E mode \in Modes : PickMode(s, mode)
    BY <1>0, <2>5, WritingTypes
  <2> QED
    BY <1>2, <2>1, <2>2, <2>3, <2>4, <2>5 DEF Keys
<1>3. ASSUME NEW s \in Sessions, NEW msg \in out[s], Receive(s, msg)
      PROVE  ScreenTypes' /\ out' \in [Sessions -> SUBSET Message]
  BY <1>0, <1>3, ReceiveTypes
<1>4. ScreenTypes' /\ out' \in [Sessions -> SUBSET Message] => TypesInv'
  BY DEF ScreenTypes, TypesInv, ViewTypeOK
<1> QED
  BY <1>1, <1>2, <1>3, <1>4 DEF Next

\* The screens' state is well typed, cursors included, for any number of
\* sessions and whatever the others have added or deleted meanwhile.
THEOREM ScreensAreTyped == Spec => []ViewTypeOK
<1>1. ViewInv /\ TypesInv /\ [Next]_vars => ViewInv' /\ TypesInv'
  BY NextIsStoreStep, NextStoreInv, NextTypes DEF ViewInv
<1>2. TypesInv => ViewTypeOK
  BY DEF TypesInv
<1> QED
  BY InitViewInv, InitTypes, <1>1, <1>2, PTL DEF Spec

=============================================================================
