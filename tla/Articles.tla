------------------------------ MODULE Articles ------------------------------
(***************************************************************************)
(* The articles and pushes tables and the repository methods that change   *)
(* them (store/articles.go, store/pushes.go).  Every method holds          *)
(* Store.writeMu from its first read to its last write, so each is one     *)
(* step; a method that returns an error changes nothing.                   *)
(*                                                                         *)
(* Ids are AUTOINCREMENT: the id of a deleted row is not given out again.  *)
(* A title and body are one value of Texts; all articles are on one board. *)
(***************************************************************************)
EXTENDS Integers, FiniteSets

CONSTANTS
    Users,
    role,           \* the role of each user
    Texts,          \* what an article can say
    MaxArticles,    \* bound: articles ever created
    MaxPushes       \* bound: pushes ever created

Rank == [guest |-> 0, user |-> 1, mod |-> 2, admin |-> 3]

Roles == {"guest", "user", "mod", "admin"}
Modes == {"open", "arrows_only", "locked"}
Kinds == {"push", "boo", "arrow"}

ASSUME ArticlesAssumption ==
    /\ role \in [Users -> Roles]
    /\ MaxArticles \in Nat
    /\ MaxPushes \in Nat

VARIABLES
    articles,       \* id |-> author, comments_mode, recommend_score, pinned, text
    pushes,         \* id |-> article, author, kind
    lastArticle,    \* the last id given out in each table
    lastPush

storeVars == <<articles, pushes, lastArticle, lastPush>>

Article == [author : Users, mode : Modes, score : Int, pinned : BOOLEAN, text : Texts]
Push    == [article : 1..MaxArticles, user : Users, kind : Kinds]

StoreInit ==
    /\ articles = [i \in {} |-> 0]
    /\ pushes = [i \in {} |-> 0]
    /\ lastArticle = 0
    /\ lastPush = 0

Exists(a) == a \in DOMAIN articles

AtLeast(u, min) == Rank[role[u]] >= Rank[min]

\* The author of a row, or a moderator.
MayModify(author, u) == author = u \/ AtLeast(u, "mod")

Insert(table, id, row) ==
    [i \in DOMAIN table \cup {id} |-> IF i = id THEN row ELSE table[i]]

Remove(table, ids) == [i \in DOMAIN table \ ids |-> table[i]]

-----------------------------------------------------------------------------
(* ArticleRepo.                                                            *)

ArticleCreate(u, text) ==
    /\ lastArticle < MaxArticles
    /\ lastArticle' = lastArticle + 1
    /\ articles' = Insert(articles, lastArticle + 1,
                          [author |-> u, mode |-> "open", score |-> 0,
                           pinned |-> FALSE, text |-> text])
    /\ UNCHANGED <<pushes, lastPush>>

\* Mutant: the pushes of the article stay behind.
ArticleDeleteOnly(a, u) ==
    /\ Exists(a) /\ MayModify(articles[a].author, u)
    /\ articles' = Remove(articles, {a})
    /\ UNCHANGED <<pushes, lastArticle, lastPush>>

\* The pushes of the article go with it (ON DELETE CASCADE).
ArticleDelete(a, u) ==
    /\ Exists(a) /\ MayModify(articles[a].author, u)
    /\ articles' = Remove(articles, {a})
    /\ pushes' = Remove(pushes, {p \in DOMAIN pushes : pushes[p].article = a})
    /\ UNCHANGED <<lastArticle, lastPush>>

ArticleUpdate(a, u, text) ==
    /\ Exists(a) /\ MayModify(articles[a].author, u)
    /\ articles' = [articles EXCEPT ![a].text = text]
    /\ UNCHANGED <<pushes, lastArticle, lastPush>>

SetPinned(a, u, pinned) ==
    /\ Exists(a) /\ AtLeast(u, "mod")
    /\ articles' = [articles EXCEPT ![a].pinned = pinned]
    /\ UNCHANGED <<pushes, lastArticle, lastPush>>

SetCommentsMode(a, u, mode) ==
    /\ Exists(a) /\ AtLeast(u, "mod")
    /\ articles' = [articles EXCEPT ![a].mode = mode]
    /\ UNCHANGED <<pushes, lastArticle, lastPush>>

-----------------------------------------------------------------------------
(* PushRepo.                                                               *)

scoreDelta(kind) == IF kind = "push" THEN 1 ELSE IF kind = "boo" THEN -1 ELSE 0

Allows(mode, kind) == mode = "open" \/ (mode = "arrows_only" /\ kind = "arrow")

\* Mutant: comments_mode is left to the screens.
CreateAllowedAnyway(a, kind) == Exists(a)

\* The gate on comments_mode, the insert and the score are one transaction.
CreateAllowed(a, kind) == Exists(a) /\ Allows(articles[a].mode, kind)

PushCreate(a, u, kind) ==
    /\ CreateAllowed(a, kind)
    /\ lastPush < MaxPushes
    /\ lastPush' = lastPush + 1
    /\ pushes' = Insert(pushes, lastPush + 1, [article |-> a, user |-> u, kind |-> kind])
    /\ articles' = [articles EXCEPT ![a].score = @ + scoreDelta(kind)]
    /\ UNCHANGED lastArticle

DeleteAllowed(p, u) == p \in DOMAIN pushes /\ MayModify(pushes[p].user, u)

\* Mutant: the score keeps the contribution of the deleted push.
PushDeleteKeepsScore(p, u) ==
    /\ DeleteAllowed(p, u)
    /\ pushes' = Remove(pushes, {p})
    /\ UNCHANGED <<articles, lastArticle, lastPush>>

PushDelete(p, u) ==
    /\ DeleteAllowed(p, u)
    /\ pushes' = Remove(pushes, {p})
    /\ articles' = [articles EXCEPT ![pushes[p].article].score = @ - scoreDelta(pushes[p].kind)]
    /\ UNCHANGED <<lastArticle, lastPush>>

-----------------------------------------------------------------------------

StoreNext ==
    \E u \in Users :
        \/ \E text \in Texts : ArticleCreate(u, text)
        \/ \E a \in 1..MaxArticles :
            \/ ArticleDelete(a, u)
            \/ \E text \in Texts : ArticleUpdate(a, u, text)
            \/ \E pinned \in BOOLEAN : SetPinned(a, u, pinned)
            \/ \E mode \in Modes : SetCommentsMode(a, u, mode)
            \/ \E kind \in Kinds : PushCreate(a, u, kind)
        \/ \E p \in 1..MaxPushes : PushDelete(p, u)

\* What every user of the two tables may do: nothing but the calls above.
StoreSpec == StoreInit /\ [][StoreNext]_storeVars

-----------------------------------------------------------------------------
(* Properties.                                                             *)

\* Every row of the two tables holds values of its columns' types, under an id
\* that has been given out.
StoreTypeOK ==
    /\ lastArticle \in 0..MaxArticles
    /\ lastPush \in 0..MaxPushes
    /\ DOMAIN articles \subseteq 1..lastArticle
    /\ DOMAIN pushes \subseteq 1..lastPush
    /\ articles \in [DOMAIN articles -> Article]
    /\ pushes \in [DOMAIN pushes -> Push]

\* A push always belongs to an article that exists: deleting an article takes
\* its pushes along, and Create looks the article up in its transaction.
NoOrphanPushes == \A p \in DOMAIN pushes : Exists(pushes[p].article)

Of(a, kind) == {p \in DOMAIN pushes : pushes[p].article = a /\ pushes[p].kind = kind}

\* The cached recommend_score of an article is what its pushes add up to, after
\* any sequence of pushes, deletions (by anyone, in any order) and edits.
ScoreMatchesPushes ==
    \A a \in DOMAIN articles :
        articles[a].score = Cardinality(Of(a, "push")) - Cardinality(Of(a, "boo"))

=============================================================================
