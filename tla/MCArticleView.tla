--------------------------- MODULE MCArticleView ----------------------------
(* Instances of ArticleView for TLC: a user and one or two moderators, with  *)
(* one session each, which goes by the name of its account.                  *)
EXTENDS ArticleView, TLC

CONSTANTS a, m, n, t1, t2

SomeRoles == [u \in Users |-> IF u = a THEN "user" ELSE "mod"]

OneEach == [s \in Sessions |-> s]

\* A moderator that has not come yet: the others are alone.
Absent(s) ==
    /\ screen[s] = "away" /\ board[s] = {} /\ art[s] = NoArticle /\ list[s] = {}
    /\ pushKind[s] = "push" /\ out[s] = {}
    /\ \A x \in DOMAIN articles : articles[x].author # s

\* A session with a form or a question on its screen.
Busy(s) == overlay[s] # "none" \/ screen[s] = "edit"

\* Three sessions on one article and one push, of which one at a time fills in a
\* form (its broadcast may still be under way when the next begins) and pushes are
\* not boos; two sessions on two articles, or on one with two pushes, whatever is
\* on their screens.
TwoOrThree ==
    \/ /\ lastArticle <= 1 /\ lastPush <= 1
       /\ \A s, d \in Sessions : Busy(s) /\ Busy(d) => s = d
       /\ \A s \in Sessions : pushKind[s] = "push"
    \/ /\ lastArticle <= 1 \/ lastPush = 0
       /\ \E s \in Users \ {a} : Absent(s)

Symmetry == Permutations(Texts) \cup Permutations(Users \ {a})

=============================================================================
