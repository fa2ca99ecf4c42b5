-------------------------------- MODULE Mail --------------------------------
(***************************************************************************)
(* Mail: the table and its repository (store/mail.go) and the screens of   *)
(* the sessions: inbox, thread and compose form (tui/screen_mail.go).      *)
(*                                                                         *)
(* A writer holds Store.writeMu; a reader takes no lock.  Insert writes a  *)
(* root in two statements that are no transaction, so it is two steps: the *)
(* thread_id of the row is NULL in between, and stays NULL when the        *)
(* process dies there or the second statement fails.  A NULL cannot be     *)
(* scanned into Mail.ThreadID, and a list with such a row fails as a       *)
(* whole.  Mails are never deleted.                                        *)
(*                                                                         *)
(* A statement that fails and has changed nothing (the INSERT, a SELECT of *)
(* the form) only puts an error on the screen, and is no step.             *)
(*                                                                         *)
(* Lists are kept as sets of ids.  The MailIncomingMsg of a new mail is    *)
(* handled by no screen: sending it changes nothing.                       *)
(***************************************************************************)
EXTENDS Naturals, FiniteSets

CONSTANTS
    Sessions,
    Users,          \* accounts that may write (guests are kept off the form)
    owner,          \* the account of each session
    NoSession,      \* nobody holds writeMu
    InboxLimit,     \* newMailInboxModel asks for 100
    MaxMails,       \* bound: mails ever sent
    MaxCrashes      \* bound: the process dies

ASSUME MailAssumption ==
    /\ owner \in [Sessions -> Users]
    /\ NoSession \notin Sessions
    /\ InboxLimit \in Nat \ {0}
    /\ MaxMails \in Nat
    /\ MaxCrashes \in Nat

VARIABLES
    mail,       \* id |-> thread (0: NULL), parent (0: none), from, to, read
    writeMu,    \* the session that holds it from one statement to the next
    screen,     \* where each session is
    items,      \* the mails its screen lists
    draft,      \* its compose form: to, and parent (0: a new thread)
    marking,    \* mails its Update has still to mark as read
    opened,     \* history: mails listed by a thread screen of their recipient
    crashes

screenVars == <<screen, items, draft, marking>>
vars == <<mail, writeMu, screenVars, opened, crashes>>

NULL    == 0
Screens == {"menu", "inbox", "thread", "compose", "filling", "sent"}
Ids     == 1..MaxMails
Row     == [thread : 0..MaxMails, parent : 0..MaxMails, from : Users, to : Users, read : BOOLEAN]
Draft   == [to : Users, parent : 0..MaxMails]

Blank(s) == [to |-> owner[s], parent |-> 0]

Init ==
    /\ mail = [i \in {} |-> 0]
    /\ writeMu = NoSession
    /\ screen = [s \in Sessions |-> "menu"]
    /\ items = [s \in Sessions |-> {}]
    /\ draft = [s \in Sessions |-> Blank(s)]
    /\ marking = [s \in Sessions |-> {}]
    /\ opened = {}
    /\ crashes = 0

lastMail == Cardinality(DOMAIN mail)

-----------------------------------------------------------------------------
(* MailRepo.                                                               *)

Unfiled == {i \in DOMAIN mail : mail[i].thread = NULL}

\* scanMail: no NULL among the rows of a list.
Readable(ids) == ids \cap Unfiled = {}

\* Unread first, newest first, as many as the limit.
Before(i, j) == IF mail[i].read = mail[j].read THEN i > j ELSE ~mail[i].read

\* Mutant: thread_id is scanned as a nullable column.
ListInboxForLenient(u) ==
    LET mine == {i \in DOMAIN mail : mail[i].to = u}
    IN  {i \in mine : Cardinality({j \in mine : Before(j, i)}) < InboxLimit}

ListInboxFor(u) ==
    LET mine == {i \in DOMAIN mail : mail[i].to = u}
        page == {i \in mine : Cardinality({j \in mine : Before(j, i)}) < InboxLimit}
    IN  IF Readable(page) THEN page ELSE {}

ListThread(t) == {i \in DOMAIN mail : mail[i].thread = t}

AddRow(s, thread) ==
    mail' = [i \in DOMAIN mail \cup {lastMail + 1} |->
                IF i \in DOMAIN mail THEN mail[i]
                ELSE [thread |-> thread, parent |-> draft[s].parent, from |-> owner[s],
                      to |-> draft[s].to, read |-> FALSE]]

GoTo(s, scr) == screen' = [screen EXCEPT ![s] = scr]

\* Insert returned the row id.  A memo to oneself is marked as read; for another
\* user a message goes to the broker and an event to the notifier.
Follow(s, id) ==
    /\ GoTo(s, "sent")
    /\ marking' = [marking EXCEPT ![s] = IF draft[s].to = owner[s] THEN {id} ELSE {}]
    /\ draft' = [draft EXCEPT ![s] = Blank(s)]

\* Insert returned an error: submit shows it, and the form can be sent again.
Refuse(s) == GoTo(s, "compose") /\ UNCHANGED <<draft, marking>>

\* Insert ends with a SELECT of the new row, which may fail when the row is there.
Answer(s, id) == Follow(s, id) \/ Refuse(s)

\* Mutant: a reply is filed under its parent.
InsertUnderParent(s) ==
    /\ screen[s] = "compose" /\ writeMu = NoSession /\ lastMail < MaxMails
    /\ AddRow(s, draft[s].parent)
    /\ \/ draft[s].parent = 0 /\ writeMu' = s /\ GoTo(s, "filling") /\ UNCHANGED <<draft, marking>>
       \/ draft[s].parent # 0 /\ UNCHANGED writeMu /\ Answer(s, lastMail + 1)
    /\ UNCHANGED <<items, opened, crashes>>

\* submit of a form that passes its checks: a reply takes the thread_id of its
\* parent; with a NULL thread_id Insert goes on to the UPDATE, the lock held.
Insert(s) ==
    LET thread == IF draft[s].parent = 0 THEN NULL ELSE mail[draft[s].parent].thread
    IN  /\ screen[s] = "compose" /\ writeMu = NoSession /\ lastMail < MaxMails
        /\ AddRow(s, thread)
        /\ \/ thread = NULL /\ writeMu' = s /\ GoTo(s, "filling") /\ UNCHANGED <<draft, marking>>
           \/ thread # NULL /\ UNCHANGED writeMu /\ Answer(s, lastMail + 1)
        /\ UNCHANGED <<items, opened, crashes>>

\* Mutant: the id of the next row.
FillThreadNextId(s) ==
    /\ screen[s] = "filling"
    /\ mail' = [mail EXCEPT ![lastMail].thread = lastMail + 1]
    /\ writeMu' = NoSession
    /\ Answer(s, lastMail)
    /\ UNCHANGED <<items, opened, crashes>>

\* Nobody else inserts while the lock is held: the row is the last one.
FillThread(s) ==
    /\ screen[s] = "filling"
    /\ mail' = [mail EXCEPT ![lastMail].thread = lastMail]
    /\ writeMu' = NoSession
    /\ Answer(s, lastMail)
    /\ UNCHANGED <<items, opened, crashes>>

\* The UPDATE fails: the row stays as it is, the sender sees an error.
FillFails(s) ==
    /\ screen[s] = "filling"
    /\ writeMu' = NoSession
    /\ Refuse(s)
    /\ UNCHANGED <<mail, items, opened, crashes>>

\* One UPDATE per mail, each under the lock.
MarkRead(s, id) ==
    /\ id \in marking[s] /\ writeMu = NoSession
    /\ mail' = [mail EXCEPT ![id].read = TRUE]
    /\ marking' = [marking EXCEPT ![s] = @ \ {id}]
    /\ UNCHANGED <<writeMu, screen, items, draft, opened, crashes>>

\* Both callers ignore its error: the mail stays unread.
MarkFails(s, id) ==
    /\ id \in marking[s] /\ writeMu = NoSession
    /\ marking' = [marking EXCEPT ![s] = @ \ {id}]
    /\ UNCHANGED <<mail, writeMu, screen, items, draft, opened, crashes>>

-----------------------------------------------------------------------------
(* The screens.  A key is read when the Update before it has returned.     *)

At(s, scr) == screen[s] = scr /\ marking[s] = {}

\* newMailInboxModel: from the main menu (M), back from a thread or the form.
OpenInbox(s) ==
    /\ \E scr \in {"menu", "thread", "compose", "sent"} : At(s, scr)
    /\ GoTo(s, "inbox")
    /\ items' = [items EXCEPT ![s] = ListInboxFor(owner[s])]
    /\ draft' = [draft EXCEPT ![s] = Blank(s)]
    /\ UNCHANGED <<mail, writeMu, marking, opened, crashes>>

\* Esc or Q of the inbox, Q of a thread, Ctrl+U anywhere.
Leave(s) ==
    /\ \E scr \in {"inbox", "thread", "compose", "sent"} : At(s, scr)
    /\ GoTo(s, "menu")
    /\ items' = [items EXCEPT ![s] = {}]
    /\ draft' = [draft EXCEPT ![s] = Blank(s)]
    /\ UNCHANGED <<mail, writeMu, marking, opened, crashes>>

\* Those of the listed mails that newMailThreadModel marks.
Unread(s, ids) == {i \in ids : mail[i].to = owner[s] /\ ~mail[i].read}

\* Mutant: the whole inbox is marked, as MarkAllReadFor would.
OpenThreadMarksAll(s, id) ==
    /\ At(s, "inbox") /\ id \in items[s]
    /\ GoTo(s, "thread")
    /\ LET listed == ListThread(mail[id].thread)
       IN  /\ items' = [items EXCEPT ![s] = listed]
           /\ marking' = [marking EXCEPT ![s] = Unread(s, DOMAIN mail)]
           /\ opened' = opened \cup {i \in listed : mail[i].to = owner[s]}
    /\ UNCHANGED <<mail, writeMu, draft, crashes>>

\* The thread of a listed mail, mails between other users included; what was
\* listed as unread is marked afterwards, one mail after the other.
OpenThread(s, id) ==
    /\ At(s, "inbox") /\ id \in items[s]
    /\ GoTo(s, "thread")
    /\ LET listed == ListThread(mail[id].thread)
       IN  /\ items' = [items EXCEPT ![s] = listed]
           /\ marking' = [marking EXCEPT ![s] = Unread(s, listed)]
           /\ opened' = opened \cup {i \in listed : mail[i].to = owner[s]}
    /\ UNCHANGED <<mail, writeMu, draft, crashes>>

Form(s, to, parent) ==
    /\ GoTo(s, "compose")
    /\ items' = [items EXCEPT ![s] = {}]
    /\ draft' = [draft EXCEPT ![s] = [to |-> to, parent |-> parent]]
    /\ UNCHANGED <<mail, writeMu, marking, opened, crashes>>

\* Key c of the inbox, key r on one of its mails, key r of a thread, which
\* answers its last mail.  A reply comes with a recipient, which may be typed over
\* before the form is sent.
Compose(s, to) == At(s, "inbox") /\ Form(s, to, 0)

ReplyInbox(s, to, id) == At(s, "inbox") /\ id \in items[s] /\ Form(s, to, id)

ReplyThread(s, to, last) ==
    /\ At(s, "thread") /\ last \in items[s] /\ \A i \in items[s] : i <= last
    /\ Form(s, to, last)

-----------------------------------------------------------------------------

\* The process dies and is started again; the table is on disk, one statement
\* of a writer either there or not.
Crash ==
    /\ crashes < MaxCrashes
    /\ crashes' = crashes + 1
    /\ writeMu' = NoSession
    /\ screen' = [s \in Sessions |-> "menu"]
    /\ items' = [s \in Sessions |-> {}]
    /\ draft' = [s \in Sessions |-> Blank(s)]
    /\ marking' = [s \in Sessions |-> {}]
    /\ UNCHANGED <<mail, opened>>

Running(s) ==
    \/ FillThread(s) \/ FillFails(s)
    \/ \E id \in Ids : MarkRead(s, id) \/ MarkFails(s, id)

Next ==
    \/ \E s \in Sessions :
        \/ Running(s) \/ Insert(s)
        \/ OpenInbox(s) \/ Leave(s)
        \/ \E id \in Ids : OpenThread(s, id)
        \/ \E to \in Users :
            \/ Compose(s, to)
            \/ \E id \in Ids : ReplyInbox(s, to, id) \/ ReplyThread(s, to, id)
    \/ Crash

Spec == Init /\ [][Next]_vars

-----------------------------------------------------------------------------
(* Properties.                                                             *)

\* Every variable holds a value of its type; ids are given out in order, and a row
\* refers to no later one.
TypeOK ==
    /\ DOMAIN mail = 1..lastMail /\ lastMail <= MaxMails
    /\ mail \in [DOMAIN mail -> Row]
    /\ \A i \in DOMAIN mail : mail[i].thread <= i /\ mail[i].parent < i
    /\ writeMu \in Sessions \cup {NoSession}
    /\ screen \in [Sessions -> Screens]
    /\ items \in [Sessions -> SUBSET Ids]
    /\ draft \in [Sessions -> Draft]
    /\ marking \in [Sessions -> SUBSET Ids]
    /\ opened \in SUBSET Ids
    /\ crashes \in 0..MaxCrashes

\* The readers' view of the table is that of MailThreads: hide the rows whose
\* thread_id is NULL.
Filed   == {i \in DOMAIN mail : mail[i].thread # NULL}
Visible == [i \in Filed |-> [thread |-> mail[i].thread, parent |-> mail[i].parent,
                             from |-> mail[i].from, to |-> mail[i].to]]
ReadIds == {i \in DOMAIN mail : mail[i].read}

Threads == INSTANCE MailThreads WITH mails <- Visible, read <- ReadIds

\* Insert and MarkRead implement the promise of MailThreads whatever happens
\* between the two statements of a root, crashes and errors included: a mail that
\* can be read has its thread, and never moves to another.
ThreadsSpec == Threads!Spec

\* A mail is marked as read only after its recipient had it on the screen, or
\* because it is a memo: one that arrives in a thread between ListThread and the
\* MarkReads of the open screen stays unread.
ReadMeansOpened ==
    \A i \in DOMAIN mail : mail[i].read => i \in opened \/ mail[i].from = mail[i].to

\* A root that lost its second statement, to a crash or to an error, does damage
\* by making lists fail and in no other way: no screen lists it, so it is never
\* answered (a reply would start a thread of its own), opened or marked as read.
UnfiledInert ==
    \A i \in Unfiled :
        /\ i \notin opened /\ ~mail[i].read
        /\ \A s \in Sessions : i \notin items[s]
        /\ \A j \in DOMAIN mail : mail[j].parent # i

\* Whoever holds writeMu is between the two statements of Insert: no return path
\* and no crash leaves the lock behind, which would stop every later writer.
LockOnlyInsideInsert == \A s \in Sessions : writeMu = s <=> screen[s] = "filling"

=============================================================================
