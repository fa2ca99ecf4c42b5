------------------------------ MODULE Startup -------------------------------
(***************************************************************************)
(* How the database comes to be: store.Open with its migrations, then what *)
(* main seeds before it listens: boards, system accounts, articles and     *)
(* banners.  The server may die at any step and is started again; beside   *)
(* it the operator runs "sshbbs import", a second process that opens the   *)
(* same file, migrates it too, and inserts an article.  Store.writeMu does *)
(* not reach across processes: what is atomic is one statement or one      *)
(* SQLite transaction.                                                     *)
(*                                                                         *)
(* Everything before "down" is on disk and survives.  Texts are left out:  *)
(* a banner or the admin's password is as seeded, or as someone edited it. *)
(***************************************************************************)
EXTENDS Naturals, Sequences, FiniteSets

CONSTANTS
    N,              \* migrations 1..N
    BoardsVersion,  \* the one that creates the default boards
    Boards,         \* default boards
    File,           \* seed files, in the order of their names: board, pinned
    MaxPosts,       \* bound: ids up to which users and imports create articles
    MaxCrashes,     \* bound: a process dies, or the server is stopped
    MaxImports      \* bound: runs of the import command

ASSUME StartupAssumption ==
    /\ N \in Nat /\ BoardsVersion \in 1..N
    /\ File \in Seq([board : Boards, pinned : BOOLEAN])
    /\ MaxPosts \in Nat /\ MaxCrashes \in Nat /\ MaxImports \in Nat

Processes == {"server", "import"}

VARIABLES
    applied,    \* disk: schema_migrations
    boards,     \* disk: the rows of boards
    accounts,   \* disk: the system accounts there are
    adminPw,    \* disk: "seed" or "edited"
    posts,      \* disk: id |-> board, src (a number of File, 0 for others), pinned
    banner,     \* disk: of each board, "" when empty
    lastPost,   \* disk: the last id given out
    bodies,     \* history: the migrations whose statements were executed
    pc,         \* where each process is
    pending,    \* the migrations it found missing
    at,         \* the seed file the server is at
    empty,      \* boardEmpty: what it has sampled of each board
    bare,       \* the boards it listed without a banner
    failed,     \* the log: seed files whose insert failed in this run
    crashes, imports

diskVars   == <<applied, boards, accounts, adminPw, posts, lastPost, banner, bodies>>
serverVars == <<at, empty, bare, failed>>
vars == <<diskVars, pc, pending, serverVars, crashes, imports>>

Steps == {"down", "loadApplied", "migrate", "SeedDefaults", "seedAdmin", "seedGuest", "articles",
          "create", "pin", "listBanners", "banners", "serving", "lookup", "insert"}
Texts == {"", "seed", "edited"}
Post  == [board : Boards, src : 0..Len(File), pinned : BOOLEAN]

Init ==
    /\ applied = {} /\ boards = {} /\ accounts = {} /\ adminPw = "seed"
    /\ posts = [i \in {} |-> 0] /\ lastPost = 0
    /\ banner = [b \in Boards |-> ""]
    /\ bodies = <<>>
    /\ pc = [p \in Processes |-> "down"]
    /\ pending = [p \in Processes |-> {}]
    /\ at = 1
    /\ empty = [b \in Boards |-> "unknown"]
    /\ bare = {} /\ failed = {}
    /\ crashes = 0 /\ imports = 0

Goto(p, step) == pc' = [pc EXCEPT ![p] = step]

-----------------------------------------------------------------------------
(* store.Open, by both processes.                                          *)

Start(p) ==
    /\ pc[p] = "down"
    /\ Goto(p, "loadApplied")
    /\ \/ p = "server" /\ UNCHANGED imports
       \/ p = "import" /\ imports < MaxImports /\ imports' = imports + 1
    /\ UNCHANGED <<diskVars, pending, serverVars, crashes>>

loadApplied(p) ==
    /\ pc[p] = "loadApplied"
    /\ pending' = [pending EXCEPT ![p] = (1..N) \ applied]
    /\ Goto(p, "migrate")
    /\ UNCHANGED <<diskVars, serverVars, crashes, imports>>

\* The loop of apply takes the pending ones in ascending order.
Lowest(p, v) == v \in pending[p] /\ \A w \in pending[p] : v <= w

Execute(v) ==
    /\ applied' = applied \cup {v}
    /\ bodies' = Append(bodies, v)
    /\ boards' = IF v = BoardsVersion THEN boards \cup Boards ELSE boards
    /\ UNCHANGED <<accounts, adminPw, posts, lastPost, banner>>

\* Mutant: the version is not recorded under a key.
runOneAgain(p, v) ==
    /\ pc[p] = "migrate" /\ Lowest(p, v)
    /\ Execute(v)
    /\ pending' = [pending EXCEPT ![p] = @ \ {v}]
    /\ UNCHANGED <<pc, serverVars, crashes, imports>>

\* The statements and the version are one transaction.  For a version that the
\* other process has recorded meanwhile it fails on the primary key, or already
\* on a table or column that exists, and is rolled back.
runOne(p, v) ==
    /\ pc[p] = "migrate" /\ Lowest(p, v) /\ v \notin applied
    /\ Execute(v)
    /\ pending' = [pending EXCEPT ![p] = @ \ {v}]
    /\ UNCHANGED <<pc, serverVars, crashes, imports>>

\* Mutant: the process tries again instead.
runOneRetries(p, v) ==
    /\ pc[p] = "migrate" /\ Lowest(p, v) /\ v \in applied
    /\ UNCHANGED vars

\* Then Open fails, and with it the process.
runOneFails(p, v) ==
    /\ pc[p] = "migrate" /\ Lowest(p, v) /\ v \in applied
    /\ pending' = [pending EXCEPT ![p] = {}]
    /\ Goto(p, "down")
    /\ UNCHANGED <<diskVars, serverVars, crashes, imports>>

Opened(p) ==
    /\ pc[p] = "migrate" /\ pending[p] = {}
    /\ Goto(p, IF p = "server" THEN "SeedDefaults" ELSE "lookup")
    /\ UNCHANGED <<diskVars, pending, serverVars, crashes, imports>>

-----------------------------------------------------------------------------
(* main: boards and system accounts.                                       *)

\* INSERT OR IGNORE.
SeedDefaults ==
    /\ pc["server"] = "SeedDefaults"
    /\ boards' = boards \cup Boards
    /\ Goto("server", "seedAdmin")
    /\ UNCHANGED <<applied, accounts, adminPw, posts, lastPost, banner, bodies, pending, serverVars, crashes, imports>>

\* Only if there is none.  Nobody else creates the account in between.
seedAdmin ==
    /\ pc["server"] = "seedAdmin"
    /\ accounts' = accounts \cup {"admin"}
    /\ adminPw' = IF "admin" \in accounts THEN adminPw ELSE "seed"
    /\ Goto("server", "seedGuest")
    /\ UNCHANGED <<applied, boards, posts, lastPost, banner, bodies, pending, serverVars, crashes, imports>>

seedGuest ==
    /\ pc["server"] = "seedGuest"
    /\ accounts' = accounts \cup {"guest"}
    /\ Goto("server", "articles")
    /\ at' = 1
    /\ empty' = [b \in Boards |-> "unknown"]
    /\ failed' = {}
    /\ UNCHANGED <<applied, boards, adminPw, posts, lastPost, banner, bodies, pending, bare, crashes, imports>>

-----------------------------------------------------------------------------
(* seed.Articles: one file after the other.                                *)

More == pc["server"] = "articles" /\ at <= Len(File)

NewPost(row) ==
    /\ lastPost' = lastPost + 1
    /\ posts' = [i \in DOMAIN posts \cup {lastPost + 1} |->
                    IF i \in DOMAIN posts THEN posts[i] ELSE row]

HasPosts(b) == \E i \in DOMAIN posts : posts[i].board = b

\* Mutants: what was sampled is noted but not used; the board is never looked at.
SampleEachFile ==
    LET b == File[at].board
        sample == IF HasPosts(b) THEN "no" ELSE "yes"
    IN  /\ More
        /\ empty' = [empty EXCEPT ![b] = IF @ = "unknown" THEN sample ELSE @]
        /\ \/ sample = "no" /\ at' = at + 1 /\ UNCHANGED pc
           \/ sample = "yes" /\ UNCHANGED at /\ Goto("server", "create")
        /\ UNCHANGED <<diskVars, pending, bare, failed, crashes, imports>>

SampleNothing ==
    /\ More
    /\ empty' = [empty EXCEPT ![File[at].board] = "yes"]
    /\ Goto("server", "create")
    /\ UNCHANGED <<diskVars, pending, at, bare, failed, crashes, imports>>

\* Emptiness is sampled at the first file of a board and kept for the run; the
\* files of a board that was not empty are skipped.
Sample ==
    LET b == File[at].board
        sample == IF empty[b] # "unknown" THEN empty[b] ELSE IF HasPosts(b) THEN "no" ELSE "yes"
    IN  /\ More
        /\ empty' = [empty EXCEPT ![b] = sample]
        /\ \/ sample = "no" /\ at' = at + 1 /\ UNCHANGED pc
           \/ sample = "yes" /\ UNCHANGED at /\ Goto("server", "create")
        /\ UNCHANGED <<diskVars, pending, bare, failed, crashes, imports>>

\* Create reads the new row back.  When only that fails, the article is there but
\* not pinned.
CreateSeed ==
    /\ pc["server"] = "create"
    /\ NewPost([board |-> File[at].board, src |-> at, pinned |-> FALSE])
    /\ \E pin \in {FALSE, File[at].pinned} :
          /\ Goto("server", IF pin THEN "pin" ELSE "articles")
          /\ at' = IF pin THEN at ELSE at + 1
    /\ UNCHANGED <<applied, boards, accounts, adminPw, banner, bodies, pending, empty, bare, failed, crashes, imports>>

\* The insert fails: that is logged, and the next file has its turn.
CreateSeedFails ==
    /\ pc["server"] = "create"
    /\ failed' = failed \cup {at}
    /\ Goto("server", "articles")
    /\ at' = at + 1
    /\ UNCHANGED <<diskVars, pending, empty, bare, crashes, imports>>

\* A second write; it fails, to the log only, when admin is no moderator any more.
PinSeed ==
    /\ pc["server"] = "pin"
    /\ \E ok \in BOOLEAN :
        posts' = [i \in DOMAIN posts |->
                    IF posts[i].src = at THEN [posts[i] EXCEPT !.pinned = ok] ELSE posts[i]]
    /\ Goto("server", "articles")
    /\ at' = at + 1
    /\ UNCHANGED <<applied, boards, accounts, adminPw, lastPost, banner, bodies, pending, empty, bare, failed, crashes, imports>>

ArticlesDone ==
    /\ pc["server"] = "articles" /\ at > Len(File)
    /\ Goto("server", "listBanners")
    /\ UNCHANGED <<diskVars, pending, serverVars, crashes, imports>>

-----------------------------------------------------------------------------
(* seed.Banners.                                                           *)

\* Mutant: every board gets its banner again.
ListBannersAll ==
    /\ pc["server"] = "listBanners"
    /\ bare' = boards
    /\ Goto("server", "banners")
    /\ UNCHANGED <<diskVars, pending, at, empty, failed, crashes, imports>>

ListBanners ==
    /\ pc["server"] = "listBanners"
    /\ bare' = {b \in boards : banner[b] = ""}
    /\ Goto("server", "banners")
    /\ UNCHANGED <<diskVars, pending, at, empty, failed, crashes, imports>>

SeedBanner(b) ==
    /\ pc["server"] = "banners" /\ b \in bare
    /\ banner' = [banner EXCEPT ![b] = "seed"]
    /\ bare' = bare \ {b}
    /\ UNCHANGED <<applied, boards, accounts, adminPw, posts, lastPost, bodies, pc, pending, at, empty, failed, crashes, imports>>

\* UpdateBanner fails: the board keeps none.
SeedBannerFails(b) ==
    /\ pc["server"] = "banners" /\ b \in bare
    /\ bare' = bare \ {b}
    /\ UNCHANGED <<diskVars, pc, pending, at, empty, failed, crashes, imports>>

\* ListenAndServe.
Listen ==
    /\ pc["server"] = "banners" /\ bare = {}
    /\ Goto("server", "serving")
    /\ UNCHANGED <<diskVars, pending, serverVars, crashes, imports>>

-----------------------------------------------------------------------------
(* The users, once the server listens, and the import command.             *)

Serving == pc["server"] = "serving"

UserPosts(b) ==
    /\ Serving /\ lastPost < MaxPosts
    /\ NewPost([board |-> b, src |-> 0, pinned |-> FALSE])
    /\ UNCHANGED <<applied, boards, accounts, adminPw, banner, bodies, pc, pending, serverVars, crashes, imports>>

UserDeletes(i) ==
    /\ Serving /\ i \in DOMAIN posts
    /\ posts' = [j \in DOMAIN posts \ {i} |-> posts[j]]
    /\ UNCHANGED <<applied, boards, accounts, adminPw, lastPost, banner, bodies, pc, pending, serverVars, crashes, imports>>

UpdateBanner(b, text) ==
    /\ banner' = [banner EXCEPT ![b] = text]
    /\ UNCHANGED <<applied, boards, accounts, adminPw, posts, lastPost, bodies, pc, pending, serverVars, crashes, imports>>

\* The form of a moderator: another text, or the banner taken away.
SubmitBanner(b, text) == Serving /\ UpdateBanner(b, text)

ChangeAdminPassword ==
    /\ Serving
    /\ adminPw' = "edited"
    /\ UNCHANGED <<applied, boards, accounts, posts, lastPost, banner, bodies, pc, pending, serverVars, crashes, imports>>

\* runImport looks up the author, admin, and the board; without them it gives up.
ImportLookup(b) ==
    /\ pc["import"] = "lookup"
    /\ Goto("import", IF "admin" \in accounts /\ b \in boards THEN "insert" ELSE "down")
    /\ UNCHANGED <<diskVars, pending, serverVars, crashes, imports>>

ImportInsert(b) ==
    /\ pc["import"] = "insert" /\ lastPost < MaxPosts
    /\ NewPost([board |-> b, src |-> 0, pinned |-> FALSE])
    /\ Goto("import", "down")
    /\ UNCHANGED <<applied, boards, accounts, adminPw, banner, bodies, pending, serverVars, crashes, imports>>

\* A process dies, also by log.Fatalf, or the server is stopped.
Crash(p) ==
    /\ pc[p] # "down" /\ crashes < MaxCrashes
    /\ crashes' = crashes + 1
    /\ Goto(p, "down")
    /\ pending' = [pending EXCEPT ![p] = {}]
    /\ UNCHANGED <<diskVars, serverVars, imports>>

-----------------------------------------------------------------------------

Open(p) ==
    \/ Start(p) \/ loadApplied(p) \/ Opened(p)
    \/ \E v \in 1..N : runOne(p, v) \/ runOneFails(p, v)

Seed ==
    \/ SeedDefaults \/ seedAdmin \/ seedGuest
    \/ Sample \/ CreateSeed \/ CreateSeedFails \/ PinSeed \/ ArticlesDone
    \/ ListBanners \/ (\E b \in Boards : SeedBanner(b) \/ SeedBannerFails(b)) \/ Listen

Next ==
    \/ \E p \in Processes : Open(p) \/ Crash(p)
    \/ Seed
    \/ \E b \in Boards :
        \/ UserPosts(b) \/ ImportLookup(b) \/ ImportInsert(b)
        \/ \E text \in {"", "edited"} : SubmitBanner(b, text)
    \/ ChangeAdminPassword
    \/ \E i \in DOMAIN posts : UserDeletes(i)

Spec == Init /\ [][Next]_vars

\* A started server goes on, and the operator starts it again when it is down.
FairSpec == Spec /\ WF_vars(Open("server") \/ Seed)

-----------------------------------------------------------------------------
(* Properties.                                                             *)

\* Every variable holds a value of its type.
TypeOK ==
    /\ applied \in SUBSET (1..N) /\ boards \in SUBSET Boards
    /\ accounts \in SUBSET {"admin", "guest"} /\ adminPw \in Texts
    /\ lastPost \in Nat /\ DOMAIN posts \subseteq 1..lastPost
    /\ posts \in [DOMAIN posts -> Post]
    /\ banner \in [Boards -> Texts]
    /\ bodies \in Seq(1..N)
    /\ pc \in [Processes -> Steps]
    /\ pending \in [Processes -> SUBSET (1..N)]
    /\ at \in 1..(Len(File) + 1)
    /\ empty \in [Boards -> {"unknown", "yes", "no"}]
    /\ bare \in SUBSET boards /\ failed \in SUBSET (1..Len(File))
    /\ crashes \in 0..MaxCrashes /\ imports \in 0..MaxImports

\* Whatever dies in between, and with both processes migrating at once: every
\* migration is executed at most once, they are executed in ascending order, and
\* schema_migrations says which.
MigratedInOrder ==
    /\ \A i \in DOMAIN bodies : bodies[i] = i
    /\ applied = DOMAIN bodies

\* A restart seeds nothing twice: each file is in the board at most once, also when
\* the server died in the middle of seeding.
SeededOnce ==
    \A i, j \in DOMAIN posts : posts[i].src = posts[j].src /\ posts[i].src # 0 => i = j

\* The files of a board are seeded together: a run that found it empty and gets
\* through leaves out no file but those whose insert it logged as failed, its own
\* first insertion, a failure or an import in between notwithstanding.
SeededTogether ==
    pc["server"] \in {"listBanners", "banners"} =>
        \A f \in 1..Len(File) : empty[File[f].board] = "yes" =>
            f \in failed \/ \E i \in DOMAIN posts : posts[i].src = f

\* What users changed is theirs: a restart sets neither a banner that has a text
\* nor the admin's password back.
EditsSurvive ==
    [][~Serving => /\ \A b \in Boards : banner[b] = "edited" => banner'[b] = "edited"
                   /\ adminPw = "edited" => adminPw' = "edited"]_vars

\* However often a process dies or loses the race for a migration, once that stops
\* the server gets through its startup; nothing on disk can keep it from serving.
ServerComesUp == []<>Serving

=============================================================================
