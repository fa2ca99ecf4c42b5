---------------------------- MODULE ArticleView -----------------------------
(***************************************************************************)
(* The article screens of the sessions (tui/screen_article_view.go,        *)
(* screen_article_edit.go and submit of screen_post_compose.go) on top of  *)
(* the store of module Articles.  Every screen works on its own copy of    *)
(* the article and of its pushes; a session that changes the article tells *)
(* the sessions of all OTHER users (Broker.SendToAll), whose screens read  *)
(* the store again when the message arrives.  Deletions tell nobody.       *)
(*                                                                         *)
(* An Update is one step, except for its broadcast: Program.Send hands the *)
(* message to one event loop after the other, and the sender's Update      *)
(* returns when the last has taken it.  That a message is due from the     *)
(* write on takes nothing away: who gets it is fixed (every session is     *)
(* registered while it runs), and nobody has to take it up at once.  A     *)
(* push list is kept as the set of its rows; index i is the row with i     *)
(* smaller ids in it.                                                      *)
(***************************************************************************)
EXTENDS Articles

CONSTANTS
    Sessions,
    owner,          \* the account of each session
    NoArticle       \* m.article == nil: the article could not be loaded

ASSUME ViewAssumption ==
    /\ owner \in [Sessions -> Users]
    /\ NoArticle \notin [id : 1..MaxArticles, author : Users, mode : Modes, text : Texts]

VARIABLES
    screen,     \* the screen each session is on
    board,      \* the articles its board screen listed last
    art,        \* its copy of the article
    list,       \* its copy of the push list
    pushCursor,
    overlay,    \* none, or pushing / pendingDelete / pickingCommentsMode
    pushKind,
    target,     \* history: the push D was pressed on, 0 for the article
    out         \* messages of the running Update still to be taken up

viewVars == <<screen, board, art, list, pushCursor, overlay, pushKind, target, out>>
vars == <<storeVars, viewVars>>

Screens  == {"away", "board", "article", "edit", "panic"}
Overlays == {"none", "push", "delete", "mode"}
Topics   == {"ArticleAdded", "PushAdded", "ArticleUpdated", "CommentsMode"}
Message  == [topic : Topics, article : 1..MaxArticles, to : Sessions]

Copies == [id : 1..MaxArticles, author : Users, mode : Modes, text : Texts]
Rows   == [id : 1..MaxPushes, user : Users]

Init ==
    /\ StoreInit
    /\ screen = [s \in Sessions |-> "away"]
    /\ board = [s \in Sessions |-> {}]
    /\ art = [s \in Sessions |-> NoArticle]
    /\ list = [s \in Sessions |-> {}]
    /\ pushCursor = [s \in Sessions |-> -1]
    /\ overlay = [s \in Sessions |-> "none"]
    /\ pushKind = [s \in Sessions |-> "push"]
    /\ target = [s \in Sessions |-> 0]
    /\ out = [s \in Sessions |-> {}]

-----------------------------------------------------------------------------
(* Reading the store, and telling the others.                              *)

GetByID(table, a) == [id |-> a, author |-> table[a].author,
                      mode |-> table[a].mode, text |-> table[a].text]

ListByArticle(table, a) ==
    {[id |-> p, user |-> table[p].user] : p \in {q \in DOMAIN table : table[q].article = a}}

\* The copy of an article that is gone stays as it is.
Refetch(s) ==
    art' = [art EXCEPT ![s] = IF @.id \in DOMAIN articles' THEN GetByID(articles', @.id) ELSE @]

Relist(s) == list' = [list EXCEPT ![s] = ListByArticle(pushes', art[s].id)]

Idle(s) == out[s] = {}

\* Guests are not in the broker.
Registered(d) == role[owner[d]] # "guest"

Broadcast(s, topic, a) ==
    out' = [out EXCEPT ![s] = {[topic |-> topic, article |-> a, to |-> d] :
                                  d \in {e \in Sessions : owner[e] # owner[s] /\ Registered(e)}}]

Show(s, o) == overlay' = [overlay EXCEPT ![s] = o]

\* The session reads a key on the article screen, under the given overlay.
At(s, o) == Idle(s) /\ screen[s] = "article" /\ overlay[s] = o

Loaded(s) == art[s] # NoArticle

\* The push the cursor is on, if it is on one.
Selected(s) ==
    {r \in list[s] : Cardinality({q \in list[s] : q.id < r.id}) = pushCursor[s]}

-----------------------------------------------------------------------------
(* Moving between the screens.                                             *)

GoTo(s, scr) == screen' = [screen EXCEPT ![s] = scr]

\* newArticleViewModel.  When the article is gone, m.article is nil.
Load(s, a) ==
    /\ GoTo(s, "article")
    /\ LET found == a \in DOMAIN articles'
       IN  /\ art' = [art EXCEPT ![s] = IF found THEN GetByID(articles', a) ELSE NoArticle]
           /\ list' = [list EXCEPT ![s] = IF found THEN ListByArticle(pushes', a) ELSE {}]
           /\ pushCursor' = [pushCursor EXCEPT ![s] = IF found THEN -1 ELSE 0]
    /\ Show(s, "none")
    /\ pushKind' = [pushKind EXCEPT ![s] = "push"]
    /\ target' = [target EXCEPT ![s] = 0]
    /\ board' = [board EXCEPT ![s] = {}]

Reload(s) == board' = [board EXCEPT ![s] = DOMAIN articles']

\* The session is on no article any more.
Forget(s) ==
    /\ art' = [art EXCEPT ![s] = NoArticle]
    /\ list' = [list EXCEPT ![s] = {}]
    /\ pushCursor' = [pushCursor EXCEPT ![s] = -1]
    /\ Show(s, "none")
    /\ pushKind' = [pushKind EXCEPT ![s] = "push"]
    /\ target' = [target EXCEPT ![s] = 0]

\* newBoardViewModel.
ToBoard(s) == GoTo(s, "board") /\ Reload(s) /\ Forget(s)

\* The board list, the main menu, or a board screen without a board.
ToElsewhere(s) ==
    /\ GoTo(s, "away")
    /\ board' = [board EXCEPT ![s] = {}]
    /\ Forget(s)

EnterBoard(s) ==
    /\ Idle(s) /\ screen[s] = "away"
    /\ UNCHANGED <<storeVars, out>>
    /\ ToBoard(s)

\* Ctrl+U on any screen; Q or Esc on the board; Q on the article, and Esc when
\* it could not be loaded.
Elsewhere(s) ==
    /\ Idle(s) /\ screen[s] \in {"board", "article", "edit"}
    /\ UNCHANGED <<storeVars, out>>
    /\ ToElsewhere(s)

\* The board may still list an article that has been deleted.
Open(s, a) ==
    /\ Idle(s) /\ screen[s] = "board" /\ a \in board[s]
    /\ UNCHANGED <<storeVars, out>>
    /\ Load(s, a)

\* [ and ]: the next older or newer article.
NeighboursOf(a) ==
    {b \in DOMAIN articles : b # a /\ \A c \in DOMAIN articles : ~(a < c /\ c < b) /\ ~(b < c /\ c < a)}

Neighbour(s) ==
    /\ At(s, "none") /\ Loaded(s)
    /\ UNCHANGED <<storeVars, out>>
    /\ \E b \in NeighboursOf(art[s].id) : Load(s, b)

Leave(s) ==
    /\ At(s, "none") /\ Loaded(s)
    /\ UNCHANGED <<storeVars, out>>
    /\ ToBoard(s)

\* postComposeModel.submit; guests do not get to the screen.
Post(s) ==
    /\ Idle(s) /\ screen[s] = "board" /\ role[owner[s]] # "guest"
    /\ \E text \in Texts : ArticleCreate(owner[s], text)
    /\ Broadcast(s, "ArticleAdded", lastArticle + 1)
    /\ Reload(s)
    /\ UNCHANGED <<screen, art, list, pushCursor, overlay, pushKind, target>>

-----------------------------------------------------------------------------
(* Editing.                                                                *)

\* newArticleEditModel loads the article once more.
Edit(s) ==
    /\ At(s, "none") /\ Loaded(s) /\ MayModify(art[s].author, owner[s])
    /\ GoTo(s, "edit")
    /\ art' = [art EXCEPT ![s] = IF Exists(@.id) THEN GetByID(articles, @.id) ELSE NoArticle]
    /\ UNCHANGED <<storeVars, board, list, pushCursor, overlay, pushKind, target, out>>

CancelEdit(s) ==
    /\ Idle(s) /\ screen[s] = "edit"
    /\ UNCHANGED storeVars
    /\ IF Loaded(s) THEN Load(s, art[s].id) ELSE ToElsewhere(s)
    /\ UNCHANGED out

\* articleEditModel.submit; an error keeps the form open.
Save(s) ==
    /\ Idle(s) /\ screen[s] = "edit" /\ Loaded(s)
    /\ \E text \in Texts : ArticleUpdate(art[s].id, owner[s], text)
    /\ Broadcast(s, "ArticleUpdated", art[s].id)
    /\ Load(s, art[s].id)

-----------------------------------------------------------------------------
(* Pushing.                                                                *)

\* openPush: the first gate, on the copy.
OpenPush(s, kind) ==
    /\ At(s, "none") /\ role[owner[s]] # "guest"
    /\ Loaded(s) => Allows(art[s].mode, kind)
    /\ Show(s, "push")
    /\ pushKind' = [pushKind EXCEPT ![s] = kind]
    /\ UNCHANGED <<storeVars, screen, board, art, list, pushCursor, target, out>>

\* The kind is not used again.
CloseInput(s) == Show(s, "none") /\ pushKind' = [pushKind EXCEPT ![s] = "push"]

ClosePush(s) ==
    /\ At(s, "push")
    /\ CloseInput(s)
    /\ UNCHANGED <<storeVars, screen, board, art, list, pushCursor, target, out>>

\* Mutant: the own list waits for a message that never comes.
SubmitPushNoAppend(s) ==
    /\ At(s, "push") /\ Loaded(s) /\ Allows(art[s].mode, pushKind[s])
    /\ PushCreate(art[s].id, owner[s], pushKind[s])
    /\ Refetch(s)
    /\ CloseInput(s)
    /\ Broadcast(s, "PushAdded", art[s].id)
    /\ UNCHANGED <<screen, board, list, pushCursor, target>>

\* updatePushInput on Enter.  The second gate, again on the copy, closes the
\* input (ClosePush); an error of Create leaves it open.
SubmitPush(s) ==
    /\ At(s, "push") /\ Loaded(s) /\ Allows(art[s].mode, pushKind[s])
    /\ PushCreate(art[s].id, owner[s], pushKind[s])
    /\ list' = [list EXCEPT ![s] = @ \cup {[id |-> lastPush + 1, user |-> owner[s]]}]
    /\ Refetch(s)
    /\ CloseInput(s)
    /\ Broadcast(s, "PushAdded", art[s].id)
    /\ UNCHANGED <<screen, board, pushCursor, target>>

\* With a nil article both gates are skipped and Create's argument m.article.ID
\* is a nil dereference.
SubmitOnNil(s) ==
    /\ At(s, "push") /\ ~Loaded(s)
    /\ GoTo(s, "panic")
    /\ UNCHANGED <<storeVars, board, art, list, pushCursor, overlay, pushKind, target, out>>

-----------------------------------------------------------------------------
(* Selecting and deleting.                                                 *)

\* Keys p and P: around the list, with one place (-1) for the article itself.
MoveCursor(s) ==
    /\ At(s, "none") /\ list[s] # {}
    /\ \/ pushCursor' = [pushCursor EXCEPT ![s] = IF @ + 1 >= Cardinality(list[s]) THEN -1 ELSE @ + 1]
       \/ pushCursor' = [pushCursor EXCEPT ![s] = IF @ < 0 THEN Cardinality(list[s]) - 1 ELSE @ - 1]
    /\ UNCHANGED <<storeVars, screen, board, art, list, overlay, pushKind, target, out>>

\* Key D: canDeletePush or canDeleteArticle, then the question.
AskDelete(s) ==
    /\ At(s, "none")
    /\ \/ /\ pushCursor[s] >= 0
          /\ \E r \in Selected(s) : /\ MayModify(r.user, owner[s])
                                    /\ target' = [target EXCEPT ![s] = r.id]
       \/ /\ pushCursor[s] < 0
          /\ Loaded(s) /\ MayModify(art[s].author, owner[s])
          /\ target' = [target EXCEPT ![s] = 0]
    /\ Show(s, "delete")
    /\ UNCHANGED <<storeVars, screen, board, art, list, pushCursor, pushKind, out>>

\* "n", or "y" when the store refuses.
CancelDelete(s) ==
    /\ At(s, "delete")
    /\ Show(s, "none")
    /\ target' = [target EXCEPT ![s] = 0]
    /\ UNCHANGED <<storeVars, screen, board, art, list, pushCursor, pushKind, out>>

\* "y" with the cursor on a row of the list: that push goes.
ConfirmPush(s) ==
    /\ At(s, "delete")
    /\ \E r \in Selected(s) : PushDelete(r.id, owner[s])
    /\ Relist(s) /\ Refetch(s)
    /\ pushCursor' = [pushCursor EXCEPT ![s] = IF @ >= Cardinality(list'[s]) THEN -1 ELSE @]
    /\ Show(s, "none")
    /\ target' = [target EXCEPT ![s] = 0]
    /\ UNCHANGED <<screen, board, pushKind, out>>

\* "y" with the cursor anywhere else: the article goes.
ConfirmArticle(s) ==
    /\ At(s, "delete") /\ Loaded(s) /\ Selected(s) = {}
    /\ ArticleDelete(art[s].id, owner[s])
    /\ ToBoard(s)
    /\ UNCHANGED out

-----------------------------------------------------------------------------
(* Comments mode.                                                          *)

OpenPicker(s) ==
    /\ At(s, "none") /\ Loaded(s) /\ AtLeast(owner[s], "mod")
    /\ Show(s, "mode")
    /\ UNCHANGED <<storeVars, screen, board, art, list, pushCursor, pushKind, target, out>>

\* Esc, or a choice the store refuses because the article is gone.
ClosePicker(s) ==
    /\ At(s, "mode")
    /\ Show(s, "none")
    /\ UNCHANGED <<storeVars, screen, board, art, list, pushCursor, pushKind, target, out>>

PickMode(s, mode) ==
    /\ At(s, "mode")
    /\ SetCommentsMode(art[s].id, owner[s], mode)
    /\ Refetch(s)
    /\ Show(s, "none")
    /\ Broadcast(s, "CommentsMode", art[s].id)
    /\ UNCHANGED <<screen, board, list, pushCursor, pushKind, target>>

-----------------------------------------------------------------------------
(* A message of the running Update of s is taken up by the next loop.      *)

Take(s, msg) == out' = [out EXCEPT ![s] = @ \ {msg}]

\* Mutant: a loop that is busy with an Update of its own misses the message.
ReceiveOrMiss(s, msg) ==
    LET d == msg.to
        viewed == Idle(d) /\ screen[d] = "article" /\ Loaded(d) /\ art[d].id = msg.article
    IN  /\ msg \in out[s]
        /\ Take(s, msg)
        /\ UNCHANGED <<storeVars, board>>
        /\ IF viewed THEN Refetch(d) ELSE UNCHANGED art
        /\ IF viewed /\ msg.topic = "PushAdded" THEN Relist(d) ELSE UNCHANGED list
        /\ UNCHANGED <<screen, pushCursor, overlay, pushKind, target>>

\* The board is listed again; an open view of the article reads the article,
\* and after a push its list, again, and leaves the cursor where it is.
Receive(s, msg) ==
    LET d == msg.to
        viewed == screen[d] = "article" /\ Loaded(d) /\ art[d].id = msg.article
    IN  /\ msg \in out[s] /\ Idle(d)
        /\ Take(s, msg)
        /\ UNCHANGED storeVars
        /\ IF screen[d] = "board" /\ msg.topic \in {"ArticleAdded", "CommentsMode"}
              THEN Reload(d) ELSE UNCHANGED board
        /\ IF viewed THEN Refetch(d) ELSE UNCHANGED art
        /\ IF viewed /\ msg.topic = "PushAdded" THEN Relist(d) ELSE UNCHANGED list
        /\ UNCHANGED <<screen, pushCursor, overlay, pushKind, target>>

-----------------------------------------------------------------------------

Keys(s) ==
    \/ EnterBoard(s) \/ Elsewhere(s) \/ (\E a \in 1..MaxArticles : Open(s, a))
    \/ Neighbour(s) \/ Leave(s) \/ Post(s)
    \/ Edit(s) \/ CancelEdit(s) \/ Save(s)
    \/ (\E kind \in Kinds : OpenPush(s, kind)) \/ ClosePush(s) \/ SubmitPush(s) \/ SubmitOnNil(s)
    \/ MoveCursor(s) \/ AskDelete(s) \/ CancelDelete(s) \/ ConfirmPush(s) \/ ConfirmArticle(s)
    \/ OpenPicker(s) \/ ClosePicker(s) \/ (\E mode \in Modes : PickMode(s, mode))

Next ==
    \E s \in Sessions :
        \/ Keys(s)
        \/ \E msg \in out[s] : Receive(s, msg)

Spec == Init /\ [][Next]_vars

-----------------------------------------------------------------------------
(* Properties.                                                             *)

\* Every variable of the screens holds a value of its type.
ViewTypeOK ==
    /\ screen \in [Sessions -> Screens]
    /\ board \in [Sessions -> SUBSET (1..MaxArticles)]
    /\ art \in [Sessions -> Copies \cup {NoArticle}]
    /\ list \in [Sessions -> SUBSET Rows]
    /\ pushCursor \in [Sessions -> -1..MaxPushes]
    /\ overlay \in [Sessions -> Overlays]
    /\ pushKind \in [Sessions -> Kinds]
    /\ target \in [Sessions -> 0..MaxPushes]
    /\ out \in [Sessions -> SUBSET Message]

\* d is the only session of its account and no guest, looks at an article that
\* exists, and no message about it is on its way.
Settled(d) ==
    /\ Registered(d)
    /\ \A s \in Sessions : owner[s] = owner[d] => s = d
    /\ screen[d] = "article" /\ Loaded(d) /\ Exists(art[d].id)
    /\ \A s \in Sessions : \A msg \in out[s] : ~(msg.to = d /\ msg.article = art[d].id)

\* Once its messages are delivered, an open view shows the mode and the text
\* the store holds, in whatever order the broadcasts of several writers come in,
\* and whether or not those writers ever get out of each other's way: the
\* messages carry no state, they make the view read the store.
OpenViewsCurrent ==
    \A d \in Sessions : Settled(d) =>
        /\ art[d].mode = articles[art[d].id].mode
        /\ art[d].text = articles[art[d].id].text

\* Once its messages are delivered, an open view lists every push there is (it
\* may list deleted ones: deletions are not broadcast).
OpenListsComplete ==
    \A d \in Sessions : Settled(d) => ListByArticle(pushes, art[d].id) \subseteq list[d]

\* A push enters the table only if the mode of its article in the store allows
\* its kind at that moment, however old the copy is the screen checked.
CommentsModeRespected ==
    [][\A p \in DOMAIN pushes' \ DOMAIN pushes :
          /\ Exists(pushes'[p].article)
          /\ Allows(articles[pushes'[p].article].mode, pushes'[p].kind)]_vars

\* What the comment of pushCursor says: with the question up, "y" deletes what D
\* was pressed on, a push or the article.
ConfirmDeletesTarget ==
    \A s \in Sessions : At(s, "delete") =>
        IF target[s] = 0 THEN Selected(s) = {} ELSE \E r \in Selected(s) : r.id = target[s]

=============================================================================
