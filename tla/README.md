# sshbbs: TLA+ verification project

sshbbs is a bulletin board served over SSH: one process, one SQLite file, one
bubbletea program per connection. Its hard part is not any single screen but
what the programs do to each other: they share a session registry guarded by a
read-write lock, hand each other messages through blocking channels, keep copies
of rows that others change, and are torn down by goroutines of their own. This
project models those parts, checks them with TLC on small instances and proves
the central invariants with TLAPS for every instance.

## Inventory

| Component | State | Operations | Interacts with |
|---|---|---|---|
| Chat broker (`internal/chat`) | map user -> sessions, an RWMutex | Register, Unregister, Send, SendToAll, IsOnline, OnlineList, SessionsSnapshot | every program (Program.Send), notify workers, shutdown |
| Session handler (`internal/server`) | per connection: program, replay goroutine, unregister goroutine | handle, replay unread balloons, unregister at the end of the context | broker, balloon store |
| Shutdown (`cmd/sshbbs`) | where main is, the drain timer | close listener, snapshot, send Quit, poll | broker, programs, notify manager |
| Water balloons (`store/waterballoons.go`, `tui/screen_wb.go`, `tui/root.go`) | the table with read marks; open conversations; toasts | insert, mark, list, submit, receive, open a conversation | broker, notify |
| Articles and pushes (`store/articles.go`, `store/pushes.go`) | two tables, the cached score, the comments mode | create, update, delete, pin, set mode, push, delete push | screens |
| Article screens (`tui/screen_article_*.go`, parts of board and compose) | per session: a copy of the article and of its pushes, cursor, overlay | open, edit, push, delete, pick a mode, refetch on messages | store, broker |
| Notify manager (`internal/notify`) | bounded queue, closed flag, workers | Dispatch, worker, deliver, Stop | store, broker (IsOnline), webhooks, the signal's context |
| Mail (`store/mail.go`, `tui/screen_mail.go`) | mail table with threads; inbox, thread and form of each session | insert (two statements), mark read, list, open, reply, submit | broker, notify |
| Accounts (`store/users.go`, `tui/screen_admin_users.go`, settings screens) | users, roles; each session's copy of its row | set role with last-admin guard, set password, settings, reread the copy | every gate |
| Login (`internal/auth`, `server/auth_middleware.go`, register and password screens) | reserved names, must-change flag | password, guest and register logins, forced and voluntary change | session handler |
| Navigation (`tui/root.go`, menus) | the current screen | gates for guests and admins, Ctrl+U | every screen |
| Notify settings (`store/notify.go`, `tui/screen_notify_settings.go`) | preferences, targets; copies, list and cursor of each window | flip, save, add, edit, toggle, delete | notify workers |
| Start-up (`store/migrate.go`, `auth/seed.go`, `internal/seed`, `cmd_import.go`) | applied versions, seeded rows, banners | migrate, seed, import | store, a second process on the same file |
| Text (`internal/markdown`, `internal/i18n`, rendering, export, import) | none | parse, format | - |

What is hard here, and what each part must get right:

* Two blocking primitives meet in the broker: its lock is held while it waits for
  other programs. Updates must come back, presence checks must be answered, a
  dead connection must leave the map, shutdown must return.
* A balloon is delivered live or replayed at login, by goroutines that run beside
  each other. None may fall in between; one marked read should have been seen.
* Screens act on copies. The store must hold its gates however old the copy is,
  the cached score must follow the rows, and broadcasts that overlap must leave
  the copies right.
* The notify queue is bounded and is closed while callers may be about to send.
* A mail is written in two statements that lock-free readers and a crash can fall
  between. It must not be seen without its thread, nor be marked read unseen.
* Gates, forms and the last-admin guard look at copies of rows that other sessions
  write. A forced password change must change the password, there must be an
  admin, nobody sets another's password.
* Starting is a long sequence of statements on a file that survives: dying in the
  middle, or a second process, must not run a migration twice, seed twice or undo
  what users changed, and must not keep the server from coming up.

`PROJECT.json` lists every hazard at its line.

## Modules

| Module | Models | Extends / uses |
|---|---|---|
| `RWMutex` | Go's `sync.RWMutex` with its writer preference (external) | - |
| `Registry` | what the broker promises to its callers: the abstract specification | - |
| `Broker` | the broker, handlers, unregister goroutines, notify presence checks, shutdown | instance of `RWMutex`, implements `Registry` (`INSTANCE ... WITH`) |
| `WaterBalloon` | balloon table, submits, live delivery, replay, conversations | implements `Registry` (`INSTANCE ... WITH`) |
| `Articles` | the two tables and the repository calls | - |
| `ArticleView` | board, article and edit screens of several sessions | extends `Articles` |
| `Notify` | the notify manager and the part of main that stops it | - |
| `MailThreads` | what the mail store promises: the abstract specification | - |
| `Mail` | mail table and screens, crashes | implements `MailThreads` (`INSTANCE ... WITH`) |
| `Accounts` | users, logins, registration, password, settings and admin screens, gates | - |
| `Startup` | migrations, seeds, import, users that edit, crashes and restarts | - |
| `NotifySettings` | preferences and targets of a user, the screen in several windows | - |
| `BrokerProofs`, `WaterBalloonProofs`, `ArticleViewProofs`, `NotifyProofs`, `NotifySettingsProofs`, `MailProofs`, `AccountsProofs`, `StartupProofs` | theorems | the modules above |
| `MC*` | instances for TLC | the modules above |

### Broker

A thread is a goroutine: the handler of a session (which becomes its event loop),
its unregister goroutine, a notify worker, main. `pc` says where each is; a label
named after a broker method is a call that waits for, or holds, `Broker.mu`. A
call is three steps: `Lock`/`RLock` (announce or park), the body with its unlock,
and for Send and SendToAll one step per target, because the lock stays held while
`Program.Send` waits. `Program.Send` is a rendezvous with a loop that is "idle";
to a program that has ended it returns at once. An Update that received a message
is the label "update". `Submit` stands for every call site: balloons and mail to
one other user, broadcasts to all others; the guard against the own account is
the call sites'. A session that ended does not come back; a reconnect is another
session.

`Registry` is the broker as its callers see it: no lock, but sessions come and go only
when no Send is in its walk, and a walk calls once each session of its audience that was
registered when it began. A Send of `Broker` maps to a walk from the moment it has read
the map until it unlocks; locking, waiting and everything else are stutters.

### WaterBalloon

`wb` is the table, `unread` the ids with `read_at IS NULL`. `Submit` inserts and
then walks through the same steps as the code: memo, or list of sessions, one
`Program.Send` each, mark. Broker.mu appears as what it excludes: `Register` and
`Unregister` wait while a Send walks. That this is what the broker provides is shown by
both modules implementing `Registry`. The replay goroutine lists, sends the oldest
and marks it, in separate steps. `shown` and `lost` are history: what reached a
running loop of the user, and what was handed to a program that had ended.

### Articles and ArticleView

Every repository method holds `Store.writeMu` throughout, so each is one action;
one that returns an error changes nothing. `articles` and `pushes` map ids to
rows; ids are AUTOINCREMENT. Deleting an article takes its pushes along
(`foreign_keys(on)` in the DSN, `ON DELETE CASCADE`).

`ArticleView` gives each session a screen, a copy of the article and of its push
list, the cursor and the overlay. An Update is one step up to its broadcast; `out`
holds the messages its SendToAll has not yet handed over, and the session takes no
key before they are gone. That they are in `out` from the write on loses no
behaviour: every session of the module is registered while it runs, so who gets them
is fixed, and nobody has to take one up at once. Guests are not registered with the
broker and get none; their views stay as they were opened. A receiver must not be in a broadcast itself (that is
the deadlock of `Broker`). `NoArticle` is `m.article == nil`. "away" is any screen
without a board or an article. `target` is history: what D was pressed on. A
navigation command is executed together with the Update that returned it.

### Notify

An event is its number. Dispatch is two steps, because the code releases `stopMu`
between the check and the send; sending on the closed channel is `SendOnClosed`.
A worker's select takes either branch when both are ready. A query may fail at any
time and always does once the context is cancelled. What the POST answers changes
nothing but the log. main leaves its select for `shutdown` and Stop only when the
context is done; a listener that fails ends the process (`ListenFails`), without Stop.

### Mail

`mail` is the table, NULL a thread of 0. `Insert` and `FillThread` are the two
statements of the code's Insert with `writeMu` held in between; readers do not take
the lock, so `ListInboxFor` and `ListThread` may run there. The UPDATE may fail
(`FillFails`), which leaves the row as it is, and so may the SELECT at the end, which
makes the form show an error for a mail that was sent (`Answer`). A list with a NULL row
fails in `scanMail` and is empty. Opening a thread lists it and then marks, one
`MarkRead` at a time. `Crash` ends the process and loses everything but the table.
`opened` is history. The reader's view (`Visible`, the rows with a thread) is mapped
to `MailThreads`: a mail appears there when its thread is known, and afterwards only
its read mark changes. The recipient of a reply may be typed over, so any user is
possible.

### Accounts

`users` maps a name to password, role, must-change flag, bio and locale. A session goes from
"off" through "auth" (the SSH authentication) to the program, whose handler reads
the row again; `copy` is `deps.User`, `forced` is `deps.MustChangePassword`. An
Update that makes several statements leaves the rest in `doing`, so that other
sessions' statements fall in between: Create and SetLocale, write and GetByID, the
guard's count and SetRole and the reload. The second statement of a registration and
the GetByID after a write may fail. `current` is what the locale screen takes for the
saved locale, and does not save again. `fresh`, `listFresh` and `raced` are
history. Names in `Names` can be registered; the reserved ones are excluded by the
assumption, as `IsReservedUsername` excludes them. A password screen whose copy holds
the guest's "!" takes no password.

### Startup

The variables above `pc` are the file; `pc` says where the server and the import
command are, each with its own list of pending migrations. A migration with the
record of its version is one step because it is one transaction; one that the other
process has recorded meanwhile fails and ends the process (`runOneFails`). The seeds
are one step per statement, with the emptiness of a board sampled at its first file
and kept. A failing insert, pin or banner is logged and the next one has its turn
(`failed` has the files of this run); every other error is `log.Fatalf`, which is a
`Crash`. While the server serves, users post, delete and edit banners and the admin
changes its password. `bodies` is history: the migrations in the order of their
execution.

### NotifySettings

One user, several windows, each with its copy of the toggles, its list of targets,
its cursor and the form. Writing a target and reading the list again are two steps;
toggling and deleting patch the list in place. `oldPrefs`, `oldList` and `shrunk`
are history: which windows another window has made old.

## Runs

Passing:

| Run | Shows | Bounds |
|---|---|---|
| `broker_safety` | session map, lock discipline, stable iteration; the broker implements `Registry` | 3 sessions of 2 users (one twice), 1 submission each, one viewer, two that may drop, shutdown |
| `broker_live` | presence answered, dead sessions leave, shutdown returns, unless two sessions wait for each other | 2 sessions of 2 users, one of which sends and may drop, the other lists who is online; 1 worker |
| `wb_safety` | nothing stranded; unseen only at ended sessions; `Registry` used as it is | 3 sessions of 2 users, 2 balloons, limit 2 |
| `wb_settled` | an online user gets the balloon | 2 sessions, 2 balloons |
| `view` | score exact, no orphans, mode obeyed; lists complete, views current | a user and two moderators on 1 article and 1 push, one form open at a time; a user and a moderator on 2 articles or on 2 pushes |
| `notify` | events in one place, lost silently only in shutdown, every target tried; queued events settle, Dispatch returns, Stop ends | 2 callers, 2 workers, 2 targets, queue 1, 3 events |
| `mail` | reader's view implements the mail threads, read means opened, a row without its thread is inert | 2 sessions of 2 users, 3 mails, inbox of 2, 1 crash |
| `accounts` | an admin remains, own writes seen, forced change changes, passwords set by their owner | 2 sessions, admin, guest and one name, 2 passwords, bios and locales, 3 writes |
| `startup` | migrations once and in order, nothing seeded twice, boards seeded together, edits survive, server comes up | 3 migrations, 2 boards, 2 seed files, 2 crashes, 1 import, 3 articles |
| `notify_settings` | own writes seen, cursor on a row, edit keeps enabled | 2 windows, 1 toggle, 2 targets |

Three sessions let a broker call meet a sender, a receiver and a third party that
logs in or out; two balloons or pushes let one be handled while another is under
way; a queue smaller than the number of events is full and drained in turn. Every
hazard listed takes at most two sessions and a third party. In `view` a
reader has the broadcasts of two writers under way at once, which takes three sessions;
what two sessions do with more rows and more open forms is explored while the second
moderator is absent (`TwoOrThree`). In `broker_live` one session
sends: while it waits for the other's loop, holding the read lock, a logout announces
the write lock and a presence check queues behind both. The balloon limit is
the number of balloons: conversations stay within it, and
`LostOnlyToEndedSessions` names the rows past it as its exception. Three mails are a
root, a reply and one more that arrives while the thread is being marked, and exceed
the inbox. Three writes promote a second admin and demote both. Two crashes kill the
server in its startup and once more after the restart, or the import beside it. One
toggle is enough for `PrefsFollowOwnWrites`, which compares whole copies. Pins change
nothing the screens of `ArticleView` show, so `SetPinned` is left to the store's
specification and the proofs until `BoardView` uses it.

Deadlock checking is off: processes end (main returns, clients leave, the process
exits), bounds on ids and submissions run out, and the deadlocks of the broker
are stated as what they break, progress of a particular goroutine.

Violations, each a disagreement between the code and what it says of itself
(`findings` in `PROJECT.json` quotes the lines):

| Run | What the counterexample shows |
|---|---|
| `broker_crosssend` | two users who send to each other at the same moment hang both Updates, holding the read lock |
| `view_target` | a refetch under the delete question changes what "y" deletes, up to the whole article |

`PresenceAnswered`, `GoneSessionsLeave` and `ShutdownReturns` say how far the code
goes beside `broker_crosssend`: `Circle`, two sessions each of which waits for the other, in a
Send or behind the writer that the other's Send keeps waiting, is the only state in
which the broker's threads stop.

Where a comment promises more than the code keeps, the property says what the code
does keep, and names the exception:

| Property | What the code says of itself, and what the models reach |
|---|---|
| `LostOnlyToEndedSessions` | `screen_wb.go:279`: "The recipient saw it live". A balloon sent between the end of a program and its Unregister is marked read and seen by nobody |
| `SilentLossOnlyInShutdown` | `dispatcher_test.go:304`: "Dispatch after Stop must not panic". A Stop between Dispatch's check of `closed` and its send makes it send on a closed channel (`SendOnClosed`); the property confines this to sessions that outlive the drain |
| `QueuedEventsSettle` | `dispatcher.go:108`: Stop "waits for workers to drain". main calls Stop only when the signal has cancelled the context of the workers, whose select may take that first; events are then left in the queue. The property ends with the signal |
| `UnfiledInert` | `mail.go:41`: "the invariant `thread_id IS NOT NULL` holds for every read". A reader, which takes no lock, may come between the two statements, and an UPDATE that fails or a crash leaves the NULL for good |
| `AdminUnlessRaced` | `screen_admin_users.go:102`: "refuse to demote the only remaining admin". Two admins that demote each other both count two, then both write |
| `RotationRotates` | `root.go:24`: "must rotate password before reaching the main menu". Ctrl+U leaves the forced change with the password unchanged; the flag stays up |
| `EditKeepsEnabled` | `screen_notify_settings.go:424`: "preserve enabled state". An edit writes back the flag of a list that another window has made old |
| `CursorOnRow` | `screen_notify_settings.go:46`: the rows the cursor can be on. A list read again after another window's deletions is shorter than the cursor |

Met while modelling, beyond any property: one Send, one logout and one login
are enough for the same deadlock (the logout's announced write lock parks the new
session's OnlineList, so its program never starts reading, so the Send never
ends), and presence checks and shutdown then hang behind it; `ListConversation`
keeps the oldest rows although its comment says the limit clips them, so opening
a conversation marks rows it does not list; pushing on an article that was
deleted before it was opened reads the id of a nil article (`SubmitOnNil`); a
moderator's second window is left out of the mode broadcast; a crash
during seeding leaves the rest of the board unseeded for ever, a failed insert that
one file, and either between Create and SetPinned an article unpinned; a banner that was cleared comes back at the next start although
`seed/banners.go:25` says that edits survive restarts; an admin who demotes itself
keeps the admin screen until it saves a setting or logs out; after a forced change
`deps.MustChangePassword` is still set, so Esc on a later change
disconnects; `MailIncomingMsg` is handled by no screen although
`screen_mail.go:484` says that an open inbox can refresh.

### Fairness

`Broker`: goroutines that can run do (weak fairness); the channel of a program
serves waiting senders in order and a fired timer is eventually chosen, so those
steps get strong fairness. Clients and users owe nothing, except that the client
of a program that has ended leaves, and wish quits the program of a connection
that is gone. `WaterBalloon` assumes that broker calls return: which is what
`Broker` examines. `Notify`: workers and main run; a POST ends because the client
has a timeout, and a presence check is answered, which `broker_live` shows unless
sessions wait for each other. Nobody has to dispatch or send a signal, and the
listener need not fail.
`Startup`: a server that was started goes on to its next step, and the operator
starts it again when it is down; crashes and imports are bounded, so they stop.
`Mail`, `Accounts` and `NotifySettings` are checked for safety only: nothing in them
has to happen.

## Proofs

All theorems hold for any sets of sessions, users, workers and targets and any
bounds; the assumptions are those named in the modules (`BrokerAssumption`,
`WBAssumption`, `ArticlesAssumption`, `ViewAssumption`, `NotifyAssumption`,
`MailAssumption`, `AccountsAssumption`, `StartupAssumption`, `SettingsAssumption`), which type the
constants and keep reserved names apart.

* `BrokerProofs`: the invariant adds to the four properties that the unregister
  goroutine does not exist before Register has returned (without it the map could
  lose a session that registers later), that a sender in its walk holds the read
  lock and everybody else has an empty list (so that Unregister, which needs the
  lock alone, meets no walk), and that no thread both holds and waits for a read
  lock. From these: `BrokerTypeOK`, `BrokerRegistry`, `BrokerLockDiscipline`,
  `BrokerIteration`. The refinement (`BrokerImplementsRegistry`) needs all of them:
  Register and Unregister hold the lock alone, so no sender is in its walk; and the
  audience of a Send that waits is still the one it was called for (`AudienceNamed`).
* `WaterBalloonProofs`: `NothingStranded` alone is not inductive. A balloon leaves
  its sender's hands unmarked only when Broker.Send found nobody; then nobody of
  the recipient may be online when the Send returns, which holds because no
  session registers during the walk (`MissIsStable`), and a session has a row in
  hand exactly while its Update works on a submit (`CurInHand`). The theorem is
  `NoBalloonStranded`. `BalloonsLostOnlyToEndedSessions` needs a second invariant
  (`SeenInv`): whoever marks a row marks one that is settled, i.e. shown to its
  recipient, counted as lost or a memo. For the sender, because Broker.Send calls
  sessions of the recipient only and has called one when it returns a hit
  (`CallsRecipient`, `SendSettles`); for the replay, because it marks the oldest of
  its backlog after having sent it (`ReplaySettles`). A conversation may mark a row
  it has not listed: such a row was sent while the session was registered, and
  Broker.Send is still waiting for its event loop, so the row is in flight
  (`ThreadCovers`); or the session has left, which `lost` records. That an insertion
  leaves the place of the older rows in their conversations alone is the lemma
  `InsertKeepsPlaces`. `BalloonsUseTheRegistry` closes the gap to the broker: this
  module without a lock implements the same `Registry`, because a session registers once
  and a Send is never to the own account (`CallerRules`).
* `ArticleViewProofs`, the store: the score is proved from finite cardinalities: adding
  or removing one push of one kind changes one count by one, and the others not at
  all. `ScoreIsExact`, `NoPushIsOrphaned`, `StoreTypeCorrect`; `TablesStayIntact` has
  both of the store with the screens at work on it.
* `ArticleViewProofs`, the screens: `CommentsModeIsObeyed` is an action property: the
  screen's two checks on its copy are not needed for it. `ViewsAreCurrent` and
  `ListsAreComplete` need the messages under way in the invariant (`ScreenOK`): a
  view that differs from the store has a message addressed to it that makes it read
  again, and a list that lacks a push has its `PushAdded` to come. A write that
  makes views old puts those messages out in the same step. `ScreensAreTyped` bounds
  the push cursor by the length of the list, which takes a counting argument: the rows
  of a list have distinct ids (`RowsDistinct`), so there are no more of them than ids
  (`DistinctRowsAreFew`).
* `NotifyProofs`: in the middle of a delivery the targets tried and those left make
  up the list (`PostingSplits`), and the queue is closed only by a main that has left
  its select on the signal (`ClosedByShutdown`). `DeliveryIsComplete`,
  `NoSilentLossWhileServing`, `NotifyTypeOK`. `EveryEventHasOnePlace` has the places of an event as sets that are
  pairwise apart and cover the events dispatched (`PlaceInv`): the queue has no event
  twice, no two workers have the same, and no caller that has returned has one; a send
  and a receive move one event from one of these places to the next.
* `NotifySettingsProofs`: the list of a window is characterised without recursion: a
  sequence in the order of the ids, as long as the table, with every row as the table
  has it (`InOrder`). At most one sequence is in order, and `ListTargets` is; a deletion
  (`DeleteInOrder`) and a toggle (`ToggleInOrder`) patched into a list in order leave it
  so, which is why the patched list is the one that would be read. The invariant
  `SettingsInv` adds which form is open on which row. `SettingsTypeOK`,
  `ListsFollowOwnWrites`, `TogglesFollowOwnWrites`, `CursorStaysOnRow` and the action
  property `EditsKeepEnabled`.
* `MailProofs`: whoever holds `writeMu` is filling the last row; what screens list,
  forms answer and Updates mark has its thread (`ListedAreFiled`, `ParentIsFiled`,
  `MarkedAreFiled`), because a list with a NULL row fails as a whole, so that a row which
  lost its second statement stays out of use (`UnfiledStaysInert`); marks under way are
  of mails that were opened.
  The refinement (`MailImplementsThreads`) maps `Insert` of a root to a stutter,
  `FillThread` to `Appear` (no later mail has appeared, because the lock is held),
  `Insert` of a reply to `Appear` under the thread of its parent.
* `AccountsProofs`: `AccInv` gives each session, besides its types, what its pending
  statement may rely on: as long as nobody set a role since its list was read, the list
  shows the roles of the table (`FreshListShowsRoles`) and a demotion that passed the
  guard leaves another admin (`GuardStillGood`); as long as the must-change flag of
  its row is up, its copy has the password of the row (`CopyGoodWhileForced`), so that
  a password which differs from the copy differs from the row. What the locale screen
  takes for the saved locale is typed by an invariant of its own (`CurrentOK`).
* `StartupProofs`: a migrating process has every missing version in its list
  (`MigInv`), so the lowest it finds unrecorded is the next in order; seed files from
  the current one on are not in the board when it was sampled empty, and those before it
  are, or failed (`SeedInv`); the
  boards still to get a banner have none (`EditInv`).

Every invariant and every action property of a passing run is proved, and all three
refinements are (`ThreadsSpec`, `RegistrySpec` of `Broker` and of `WaterBalloon`). What
stays with TLC is liveness under fairness, which is out of the prover's reach:
`PresenceAnswered`, `GoneSessionsLeave`, `ShutdownReturns`, `OnlineUserGetsBalloon`,
`QueuedEventsSettle`, `DispatchReturns`, `StopEnds` and `ServerComesUp`. The type
invariants of `Broker`, `WaterBalloon`, `Articles`, `ArticleView`, `Notify`, `Accounts`,
`NotifySettings` and `Startup` and the lock discipline of `Mail` are proved and take no
run.

## Not modelled

Text (markdown, i18n, rendering, JSON bodies), scrolling and layout, the smoke
client; real time (how long a toast is visible); counters of posts and logins;
search, sort, pins and the cursor of the board screen; the balloon inbox and the
order and duplicates of a conversation; the test message of the notify settings;
database errors that change nothing and end the Update with a message (modelled are
those that leave something behind: the notify queries, the statements after the first
in a mail's Insert, a registration and a settings save, the seeds). Guests are never
registered with the broker: they log in in `Accounts` and get no broadcast in
`ArticleView`.

## Plan

1. `BoardView`: search, sort, pins and the cursor that is anchored to an article
   while the list is read again, next to `ArticleView`.
2. The balloon inbox, and a conversation as a sequence with the duplicates of live
   delivery and replay.
3. The liveness of balloons on top of the broker's: `wb_settled` assumes that broker
   calls return, and `Registry` promises safety only.
