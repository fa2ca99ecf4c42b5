--------------------------- MODULE StartupProofs ----------------------------
(***************************************************************************)
(* Proofs about the startup, for any number of migrations, boards, seed    *)
(* files, crashes and imports.                                             *)
(*                                                                         *)
(* That migrations run once and in order rests on MigInv: a process that   *)
(* is migrating still has every missing version on its list, so the lowest *)
(* one on it that is missing is the lowest missing one.  That nothing is   *)
(* seeded twice rests on SeedInv: a board a run found empty holds no seed  *)
(* file from the one it is at on, whatever an import inserts meanwhile.    *)
(***************************************************************************)
EXTENDS Startup, SequenceTheorems, TLAPS

seedSteps == {"articles", "create", "pin"}

TypeInv ==
    /\ TypeOK
    /\ pc["server"] \in {"create", "pin"} => at <= Len(File)

\* What a migrating process has not on its list is done.
MigInv ==
    /\ MigratedInOrder
    /\ \A p \in Processes : pc[p] = "migrate" => (1..N) \ applied \subseteq pending[p]

\* The file is done: the server, at file a, is past it or about to pin it.
Beyond(f, a, step) == f < a \/ (f = a /\ step = "pin")

SrcInv == \A i \in DOMAIN posts : posts[i].src # 0 => posts[i].board = File[posts[i].src].board

SeedInv ==
    /\ SeededOnce /\ SrcInv
    /\ pc["server"] \in seedSteps =>
        /\ \A i \in DOMAIN posts :
              posts[i].src # 0 /\ empty[posts[i].board] = "yes" => Beyond(posts[i].src, at, pc["server"])
        /\ \A f \in 1..Len(File) : Beyond(f, at, pc["server"]) /\ empty[File[f].board] = "yes"
                                      => f \in failed \/ \E i \in DOMAIN posts : posts[i].src = f
        /\ \A f \in 1..Len(File) : Beyond(f, at, pc["server"]) => empty[File[f].board] # "unknown"
    /\ pc["server"] \in {"create", "pin"} => empty[File[at].board] = "yes"
    /\ SeededTogether

\* What the server is about to overwrite is as it was when it looked.
EditInv ==
    /\ pc["server"] = "banners" => \A b \in bare : banner[b] = ""
    /\ pc["server"] \in {"seedGuest", "articles", "create", "pin", "listBanners", "banners", "serving"}
          => "admin" \in accounts
    /\ adminPw = "edited" => "admin" \in accounts

-----------------------------------------------------------------------------
(* General facts.                                                          *)

\* The control state of a process after a Goto.
LEMMA GotoMoves ==
    ASSUME pc \in [Processes -> Steps], NEW p \in Processes, NEW step \in Steps, Goto(p, step)
    PROVE  /\ pc' \in [Processes -> Steps] /\ pc'[p] = step
           /\ \A q \in Processes : q # p => pc'[q] = pc[q]
BY DEF Goto

\* A file of the list is a board and a flag.
LEMMA Files ==
    /\ Len(File) \in Nat
    /\ \A f \in 1..Len(File) : File[f] \in [board : Boards, pinned : BOOLEAN]
    /\ \A f \in 1..Len(File) : File[f].board \in Boards /\ File[f].pinned \in BOOLEAN
<1>1. File \in Seq([board : Boards, pinned : BOOLEAN])
  BY StartupAssumption
<1>2. Len(File) \in Nat /\ \A f \in 1..Len(File) : File[f] \in [board : Boards, pinned : BOOLEAN]
  BY <1>1, LenProperties, ElementOfSeq, Zenon
<1>3. \A f \in 1..Len(File) : File[f].board \in Boards /\ File[f].pinned \in BOOLEAN
  <2> SUFFICES ASSUME NEW f \in 1..Len(File)
               PROVE  File[f].board \in Boards /\ File[f].pinned \in BOOLEAN
    OBVIOUS
  <2>1. File[f] \in [board : Boards, pinned : BOOLEAN]
    BY <1>2
  <2> QED
    BY <2>1, Zenon
<1> QED
  BY <1>2, <1>3

\* A new row has the next id, and the other rows stay.
LEMMA NewPostAdds ==
    ASSUME TypeOK, NEW row \in Post, NewPost(row)
    PROVE  /\ DOMAIN posts' = DOMAIN posts \cup {lastPost + 1} /\ lastPost + 1 \notin DOMAIN posts
           /\ posts'[lastPost + 1] = row /\ \A i \in DOMAIN posts : posts'[i] = posts[i]
           /\ lastPost' \in Nat /\ DOMAIN posts' \subseteq 1..lastPost'
           /\ posts' \in [DOMAIN posts' -> Post]
<1>1. /\ lastPost \in Nat /\ DOMAIN posts \subseteq 1..lastPost /\ lastPost' = lastPost + 1
      /\ posts' = [i \in DOMAIN posts \cup {lastPost + 1} |-> IF i \in DOMAIN posts THEN posts[i] ELSE row]
  BY DEF TypeOK, NewPost
<1>2. lastPost + 1 \notin DOMAIN posts /\ lastPost + 1 \in Nat
  BY <1>1
<1>3. \A i \in DOMAIN posts : posts[i] \in Post
  BY DEF TypeOK
<1>4. \A i \in DOMAIN posts \cup {lastPost + 1} : (IF i \in DOMAIN posts THEN posts[i] ELSE row) \in Post
  BY <1>3
<1>5. DOMAIN posts' \subseteq 1..lastPost'
  BY <1>1
<1> QED
  BY <1>1, <1>2, <1>4, <1>5

-----------------------------------------------------------------------------
(* Types.                                                                  *)

\* The initial state satisfies all the invariants.
LEMMA InitInv == Init => TypeInv /\ MigInv /\ SeedInv /\ EditInv
<1> SUFFICES ASSUME Init
             PROVE  TypeInv /\ MigInv /\ SeedInv /\ EditInv
  OBVIOUS
<1>1. pc["server"] = "down" /\ pc["import"] = "down" /\ bodies = <<>>
  BY DEF Init, Processes
<1>2. TypeOK
  <2>1. /\ applied \in SUBSET (1..N) /\ boards \in SUBSET Boards /\ bare \in SUBSET boards
        /\ failed \in SUBSET (1..Len(File))
        /\ accounts \in SUBSET {"admin", "guest"} /\ adminPw \in Texts
    BY DEF Init, Texts
  <2>2. /\ banner \in [Boards -> Texts] /\ pending \in [Processes -> SUBSET (1..N)]
        /\ pc \in [Processes -> Steps] /\ empty \in [Boards -> {"unknown", "yes", "no"}]
    BY DEF Init, Texts, Steps
  <2>3. bodies \in Seq(1..N)
    BY <1>1, EmptySeq, Zenon
  <2>4. /\ lastPost \in Nat /\ at \in 1..(Len(File) + 1)
        /\ crashes \in 0..MaxCrashes /\ imports \in 0..MaxImports
    <3>1. lastPost = 0 /\ at = 1 /\ crashes = 0 /\ imports = 0
      BY DEF Init
    <3>2. Len(File) \in Nat /\ MaxCrashes \in Nat /\ MaxImports \in Nat
      BY StartupAssumption, Files
    <3> QED
      BY <3>1, <3>2
  <2>5. DOMAIN posts \subseteq 1..lastPost /\ posts \in [DOMAIN posts -> Post]
    <3>1. DOMAIN posts = {} /\ posts = [i \in {} |-> 0]
      BY DEF Init
    <3> QED
      BY <3>1
  <2> QED
    BY <2>1, <2>2, <2>3, <2>4, <2>5 DEF TypeOK
<1>3. TypeInv /\ EditInv
  BY <1>1, <1>2 DEF TypeInv, EditInv, Init
<1>4. MigInv
  <2>1. DOMAIN bodies = {} /\ applied = {}
    <3>1. Len(bodies) = 0 /\ DOMAIN bodies = 1..Len(bodies)
      BY <1>1, <1>2, EmptySeq, LenProperties DEF TypeOK
    <3>2. applied = {}
      BY DEF Init
    <3> QED
      BY <3>1, <3>2
  <2> QED
    BY <1>1, <2>1 DEF MigInv, MigratedInOrder, Processes
<1>5. SeedInv
  BY <1>1 DEF SeedInv, SeededOnce, SrcInv, SeededTogether, seedSteps, Init
<1> QED
  BY <1>3, <1>4, <1>5

\* Opening the database keeps the types.
LEMMA OpenTypeInv == ASSUME TypeInv, NEW p \in Processes, Open(p) PROVE TypeInv'
<1> USE DEF TypeInv
<1>0. pc \in [Processes -> Steps] /\ "server" \in Processes
  BY DEF TypeOK, Processes
<1>1. CASE Start(p)
  <2>1. pc' \in [Processes -> Steps] /\ pc'[p] = "loadApplied" /\ \A q \in Processes : q # p => pc'[q] = pc[q]
    BY <1>0, <1>1, GotoMoves DEF Start, Steps
  <2>2. imports' \in 0..MaxImports
    BY <1>1, StartupAssumption DEF Start, TypeOK
  <2> QED
    BY <1>0, <1>1, <2>1, <2>2 DEF Start, TypeOK, diskVars, serverVars
<1>2. CASE loadApplied(p)
  <2>1. pc' \in [Processes -> Steps] /\ pc'[p] = "migrate" /\ \A q \in Processes : q # p => pc'[q] = pc[q]
    BY <1>0, <1>2, GotoMoves DEF loadApplied, Steps
  <2> QED
    BY <1>0, <1>2, <2>1 DEF loadApplied, TypeOK, diskVars, serverVars
<1>3. CASE Opened(p)
  <2>1. pc' \in [Processes -> Steps] /\ pc'[p] \in {"SeedDefaults", "lookup"}
        /\ \A q \in Processes : q # p => pc'[q] = pc[q]
    BY <1>0, <1>3, GotoMoves DEF Opened, Steps
  <2> QED
    BY <1>0, <1>3, <2>1 DEF Opened, TypeOK, diskVars, serverVars
<1>4. ASSUME NEW v \in 1..N, runOne(p, v) PROVE TypeInv'
  <2>1. bodies' \in Seq(1..N) /\ applied' \in SUBSET (1..N) /\ boards' \in SUBSET Boards /\ bare' \in SUBSET boards'
    BY <1>4 DEF runOne, Execute, TypeOK, serverVars
  <2>2. pending' \in [Processes -> SUBSET (1..N)]
    BY <1>4 DEF runOne, TypeOK
  <2> QED
    BY <1>0, <1>4, <2>1, <2>2 DEF runOne, Execute, TypeOK, serverVars
<1>5. ASSUME NEW v \in 1..N, runOneFails(p, v) PROVE TypeInv'
  <2>1. pc' \in [Processes -> Steps] /\ pc'[p] = "down" /\ \A q \in Processes : q # p => pc'[q] = pc[q]
    BY <1>0, <1>5, GotoMoves DEF runOneFails, Steps
  <2> QED
    BY <1>0, <1>5, <2>1 DEF runOneFails, TypeOK, diskVars, serverVars
<1> QED
  BY <1>1, <1>2, <1>3, <1>4, <1>5 DEF Open

\* Seeding keeps the types.
LEMMA SeedTypeInv == ASSUME TypeInv, Seed PROVE TypeInv'
<1> USE DEF TypeInv
<1>0. pc \in [Processes -> Steps] /\ "server" \in Processes /\ Len(File) \in Nat
  BY Files DEF TypeOK, Processes
<1>1. CASE SeedDefaults
  <2>1. pc' \in [Processes -> Steps] /\ pc'["server"] = "seedAdmin"
    BY <1>0, <1>1, GotoMoves DEF SeedDefaults, Steps
  <2> QED
    BY <1>1, <2>1 DEF SeedDefaults, TypeOK, serverVars
<1>2. CASE seedAdmin
  <2>1. pc' \in [Processes -> Steps] /\ pc'["server"] = "seedGuest"
    BY <1>0, <1>2, GotoMoves DEF seedAdmin, Steps
  <2> QED
    BY <1>2, <2>1 DEF seedAdmin, TypeOK, serverVars, Texts
<1>3. CASE seedGuest
  <2>1. pc' \in [Processes -> Steps] /\ pc'["server"] = "articles"
    BY <1>0, <1>3, GotoMoves DEF seedGuest, Steps
  <2> QED
    BY <1>0, <1>3, <2>1 DEF seedGuest, TypeOK
<1>4. CASE Sample
  <2>1. /\ at \in 1..Len(File) /\ pc["server"] = "articles"
    BY <1>0, <1>4 DEF Sample, More, TypeOK
  <2>2. (at' = at + 1 /\ pc' = pc) \/ (at' = at /\ Goto("server", "create"))
    BY <1>4 DEF Sample
  <2>3. pc' \in [Processes -> Steps] /\ pc'["server"] \in {"articles", "create"}
        /\ (pc'["server"] = "create" => at' = at)
    BY <1>0, <2>1, <2>2, GotoMoves DEF Steps
  <2>4. empty' \in [Boards -> {"unknown", "yes", "no"}]
    BY <1>4 DEF Sample, TypeOK
  <2>5. at' \in 1..(Len(File) + 1) /\ (pc'["server"] = "create" => at' <= Len(File))
    BY <1>0, <2>1, <2>2, <2>3
  <2> QED
    BY <1>4, <2>3, <2>4, <2>5 DEF Sample, TypeOK, diskVars
<1>5. CASE CreateSeed
  <2>1. at \in 1..Len(File)
    BY <1>0, <1>5 DEF CreateSeed, TypeOK
  <2>2. [board |-> File[at].board, src |-> at, pinned |-> FALSE] \in Post
    BY <1>0, <2>1, Files DEF Post
  <2>3. lastPost' \in Nat /\ DOMAIN posts' \subseteq 1..lastPost' /\ posts' \in [DOMAIN posts' -> Post]
    BY <1>5, <2>2, NewPostAdds DEF CreateSeed
  <2>4. PICK pin \in {FALSE, File[at].pinned} :
           /\ Goto("server", IF pin THEN "pin" ELSE "articles")
           /\ at' = IF pin THEN at ELSE at + 1
    BY <1>5 DEF CreateSeed
  <2>5. pc' \in [Processes -> Steps] /\ pc'["server"] = IF pin THEN "pin" ELSE "articles"
    BY <1>0, <2>4, GotoMoves DEF Steps
  <2>6. at' \in 1..(Len(File) + 1) /\ (pc'["server"] \in {"create", "pin"} => at' <= Len(File))
    BY <1>0, <2>1, <2>4, <2>5
  <2> QED
    BY <1>5, <2>3, <2>5, <2>6 DEF CreateSeed, TypeOK
<1>11. CASE CreateSeedFails
  <2>1. pc' \in [Processes -> Steps] /\ pc'["server"] = "articles"
    BY <1>0, <1>11, GotoMoves DEF CreateSeedFails, Steps
  <2>2. at \in 1..Len(File) /\ at' \in 1..(Len(File) + 1)
    BY <1>0, <1>11 DEF CreateSeedFails, TypeOK
  <2>3. failed' \in SUBSET (1..Len(File))
    BY <1>11, <2>2 DEF CreateSeedFails, TypeOK
  <2> QED
    BY <1>11, <2>1, <2>2, <2>3 DEF CreateSeedFails, TypeOK, diskVars
<1>6. CASE PinSeed
  <2>1. pc' \in [Processes -> Steps] /\ pc'["server"] = "articles"
    BY <1>0, <1>6, GotoMoves DEF PinSeed, Steps
  <2>2. at' \in 1..(Len(File) + 1)
    BY <1>0, <1>6 DEF PinSeed, TypeOK
  <2>3. DOMAIN posts' = DOMAIN posts /\ posts' \in [DOMAIN posts' -> Post]
    <3>1. PICK ok \in BOOLEAN :
             posts' = [i \in DOMAIN posts |->
                          IF posts[i].src = at THEN [posts[i] EXCEPT !.pinned = ok] ELSE posts[i]]
      BY <1>6 DEF PinSeed
    <3>2. \A i \in DOMAIN posts : posts[i] \in Post /\ [posts[i] EXCEPT !.pinned = ok] \in Post
      BY DEF TypeOK, Post
    <3> QED
      BY <3>1, <3>2
  <2> QED
    BY <1>6, <2>1, <2>2, <2>3 DEF PinSeed, TypeOK
<1>7. CASE ArticlesDone
  <2>1. pc' \in [Processes -> Steps] /\ pc'["server"] = "listBanners"
    BY <1>0, <1>7, GotoMoves DEF ArticlesDone, Steps
  <2> QED
    BY <1>7, <2>1 DEF ArticlesDone, TypeOK, diskVars, serverVars
<1>8. CASE ListBanners
  <2>1. pc' \in [Processes -> Steps] /\ pc'["server"] = "banners"
    BY <1>0, <1>8, GotoMoves DEF ListBanners, Steps
  <2> QED
    BY <1>8, <2>1 DEF ListBanners, TypeOK, diskVars
<1>9. ASSUME NEW b \in Boards, SeedBanner(b) \/ SeedBannerFails(b) PROVE TypeInv'
  BY <1>9 DEF SeedBanner, SeedBannerFails, TypeOK, Texts, diskVars
<1>10. CASE Listen
  <2>1. pc' \in [Processes -> Steps] /\ pc'["server"] = "serving"
    BY <1>0, <1>10, GotoMoves DEF Listen, Steps
  <2> QED
    BY <1>10, <2>1 DEF Listen, TypeOK, diskVars, serverVars
<1> QED
  BY <1>1, <1>2, <1>3, <1>4, <1>5, <1>6, <1>7, <1>8, <1>9, <1>10, <1>11 DEF Seed

\* What the users, the import command and crashes do.
Others ==
    \/ \E p \in Processes : Crash(p)
    \/ \E b \in Boards :
        \/ UserPosts(b) \/ ImportLookup(b) \/ ImportInsert(b)
        \/ \E text \in {"", "edited"} : SubmitBanner(b, text)
    \/ ChangeAdminPassword
    \/ \E i \in DOMAIN posts : UserDeletes(i)

\* They keep the types.
LEMMA OthersTypeInv == ASSUME TypeInv, Others PROVE TypeInv'
<1> USE DEF TypeInv
<1>0. pc \in [Processes -> Steps] /\ "server" \in Processes /\ "import" \in Processes
  BY DEF TypeOK, Processes
<1>1. ASSUME NEW p \in Processes, Crash(p) PROVE TypeInv'
  <2>1. pc' \in [Processes -> Steps] /\ pc'[p] = "down" /\ \A q \in Processes : q # p => pc'[q] = pc[q]
    BY <1>0, <1>1, GotoMoves DEF Crash, Steps
  <2>2. crashes' \in 0..MaxCrashes
    BY <1>1, StartupAssumption DEF Crash, TypeOK
  <2> QED
    BY <1>0, <1>1, <2>1, <2>2 DEF Crash, TypeOK, diskVars, serverVars
<1>2. ASSUME NEW b \in Boards, UserPosts(b) \/ ImportInsert(b) PROVE TypeInv'
  <2>1. [board |-> b, src |-> 0, pinned |-> FALSE] \in Post
    BY Files DEF Post
  <2>2. lastPost' \in Nat /\ DOMAIN posts' \subseteq 1..lastPost' /\ posts' \in [DOMAIN posts' -> Post]
    BY <1>2, <2>1, NewPostAdds DEF UserPosts, ImportInsert
  <2>3. pc' \in [Processes -> Steps] /\ pc'["server"] = pc["server"]
    <3>1. CASE UserPosts(b)
      BY <1>0, <3>1 DEF UserPosts
    <3>2. CASE ImportInsert(b)
      BY <1>0, <3>2, GotoMoves DEF ImportInsert, Steps
    <3> QED
      BY <1>2, <3>1, <3>2
  <2> QED
    BY <1>2, <2>2, <2>3 DEF UserPosts, ImportInsert, TypeOK, serverVars
<1>3. ASSUME NEW b \in Boards, ImportLookup(b) PROVE TypeInv'
  <2>1. pc' \in [Processes -> Steps] /\ pc'["server"] = pc["server"]
    BY <1>0, <1>3, GotoMoves DEF ImportLookup, Steps
  <2> QED
    BY <1>3, <2>1 DEF ImportLookup, TypeOK, diskVars, serverVars
<1>4. ASSUME NEW b \in Boards, NEW text \in {"", "edited"}, SubmitBanner(b, text) PROVE TypeInv'
  BY <1>4 DEF SubmitBanner, UpdateBanner, TypeOK, Texts, serverVars
<1>5. CASE ChangeAdminPassword
  BY <1>5 DEF ChangeAdminPassword, TypeOK, Texts, serverVars
<1>6. ASSUME NEW i \in DOMAIN posts, UserDeletes(i) PROVE TypeInv'
  BY <1>6 DEF UserDeletes, TypeOK, serverVars
<1> QED
  BY <1>1, <1>2, <1>3, <1>4, <1>5, <1>6 DEF Others

\* Next is one of the three kinds of step.
LEMMA NextSteps == Next <=> (\E p \in Processes : Open(p)) \/ Seed \/ Others
BY Zenon DEF Next, Others

-----------------------------------------------------------------------------
(* Migrations.                                                             *)

\* The lowest missing version is the next one.
LEMMA RunOneInOrder ==
    ASSUME TypeInv, MigInv, NEW p \in Processes, NEW v \in 1..N, runOne(p, v)
    PROVE  MigInv'
<1>1. /\ bodies \in Seq(1..N) /\ bodies' = Append(bodies, v) /\ applied' = applied \cup {v}
      /\ applied = DOMAIN bodies /\ v \notin applied /\ applied \subseteq 1..N
      /\ (1..N) \ applied \subseteq pending[p]
      /\ \A w \in pending[p] : v <= w
      /\ pc' = pc
  BY DEF TypeInv, TypeOK, MigInv, MigratedInOrder, runOne, Execute, Lowest
<1>2. Len(bodies) \in Nat /\ applied = 1..Len(bodies) /\ N \in Nat
  BY <1>1, LenProperties, StartupAssumption
<1>3. v = Len(bodies) + 1
  <2>1. Len(bodies) + 1 \in 1..N
    <3>1. v > Len(bodies) /\ v <= N
      BY <1>1, <1>2
    <3> QED
      BY <1>2, <3>1
  <2>2. Len(bodies) + 1 \in (1..N) \ applied
    BY <1>2, <2>1
  <2>3. v <= Len(bodies) + 1
    BY <1>1, <2>2
  <2> QED
    BY <1>1, <1>2, <2>3
<1>4. /\ bodies' \in Seq(1..N) /\ Len(bodies') = Len(bodies) + 1 /\ DOMAIN bodies' = 1..Len(bodies')
      /\ bodies'[Len(bodies) + 1] = v /\ \A i \in 1..Len(bodies) : bodies'[i] = bodies[i]
  <2>1. bodies' \in Seq(1..N)
    BY <1>1, AppendProperties
  <2> QED
    BY <1>1, <2>1, AppendProperties, LenProperties
<1>5. MigratedInOrder'
  <2>1. \A i \in 1..Len(bodies) : bodies[i] = i
    BY <1>2, <1>1 DEF MigInv, MigratedInOrder
  <2>2. \A i \in 1..(Len(bodies) + 1) : bodies'[i] = i
    BY <1>2, <1>3, <1>4, <2>1
  <2>3. applied' = 1..(Len(bodies) + 1)
    BY <1>1, <1>2, <1>3
  <2> QED
    BY <1>4, <2>2, <2>3 DEF MigratedInOrder
<1>6. ASSUME NEW q \in Processes, pc'[q] = "migrate" PROVE (1..N) \ applied' \subseteq pending'[q]
  <2>1. (1..N) \ applied \subseteq pending[q]
    BY <1>1, <1>6 DEF MigInv
  <2>2. pending'[q] = IF q = p THEN pending[q] \ {v} ELSE pending[q]
    BY DEF runOne, TypeInv, TypeOK
  <2> QED
    BY <1>1, <2>1, <2>2
<1> QED
  BY <1>5, <1>6 DEF MigInv

\* The other steps leave the record of the migrations alone.
LEMMA NextMigInv == ASSUME TypeInv, MigInv, [Next]_vars PROVE MigInv'
<1>0. pc \in [Processes -> Steps] /\ "server" \in Processes /\ "import" \in Processes
      /\ pending \in [Processes -> SUBSET (1..N)]
  BY DEF TypeInv, TypeOK, Processes
<1>1. ASSUME UNCHANGED <<applied, bodies>>,
             \A p \in Processes : pc'[p] = "migrate"
                => (pc[p] = "migrate" /\ pending'[p] = pending[p]) \/ pending'[p] = (1..N) \ applied
      PROVE  MigInv'
  BY <1>1 DEF MigInv, MigratedInOrder
<1>2. ASSUME NEW p \in Processes, Open(p) PROVE MigInv'
  <2>1. CASE Start(p)
    BY <1>0, <1>1, <2>1 DEF Start, Goto, diskVars
  <2>2. CASE loadApplied(p)
    BY <1>0, <1>1, <2>2 DEF loadApplied, Goto, diskVars
  <2>3. CASE Opened(p)
    BY <1>0, <1>1, <2>3 DEF Opened, Goto, diskVars
  <2>4. ASSUME NEW v \in 1..N, runOneFails(p, v) PROVE MigInv'
    BY <1>0, <1>1, <2>4 DEF runOneFails, Goto, diskVars
  <2> QED
    BY <1>2, <2>1, <2>2, <2>3, <2>4, RunOneInOrder DEF Open
<1>3. CASE Seed
  <2>1. UNCHANGED <<applied, bodies, pending>>
    BY <1>3 DEF Seed, SeedDefaults, seedAdmin, seedGuest, Sample, CreateSeed, CreateSeedFails, PinSeed,
       ArticlesDone, ListBanners, SeedBanner, SeedBannerFails, Listen, diskVars
  <2>2. \A p \in Processes : pc'[p] = "migrate" => pc[p] = "migrate"
    BY <1>0, <1>3 DEF Seed, SeedDefaults, seedAdmin, seedGuest, Sample, CreateSeed, CreateSeedFails,
       PinSeed, ArticlesDone, ListBanners, SeedBanner, SeedBannerFails, Listen, Goto
  <2> QED
    BY <1>1, <2>1, <2>2
<1>4. CASE Others
  <2>1. UNCHANGED <<applied, bodies>>
    BY <1>4 DEF Others, Crash, UserPosts, ImportLookup, ImportInsert, SubmitBanner, UpdateBanner,
       ChangeAdminPassword, UserDeletes, diskVars
  <2>2. \A p \in Processes : pc'[p] = "migrate" => pc[p] = "migrate" /\ pending'[p] = pending[p]
    BY <1>0, <1>4 DEF Others, Crash, UserPosts, ImportLookup, ImportInsert, SubmitBanner, UpdateBanner,
       ChangeAdminPassword, UserDeletes, Goto
  <2> QED
    BY <1>1, <2>1, <2>2
<1>5. CASE UNCHANGED vars
  BY <1>1, <1>5 DEF vars, diskVars
<1> QED
  BY <1>2, <1>3, <1>4, <1>5, NextSteps

-----------------------------------------------------------------------------
(* Seeding.                                                                *)

\* The server stays where it is, or leaves the seeding: nothing is to be shown.
LEMMA AsideSeedInv ==
    ASSUME SeedInv, UNCHANGED <<posts, at, empty, failed>>,
           \/ pc'["server"] = pc["server"]
           \/ pc'["server"] \notin seedSteps \cup {"listBanners", "banners"}
    PROVE  SeedInv'
BY DEF SeedInv, SeededOnce, SrcInv, SeededTogether, Beyond, seedSteps

\* An article of a user or of an import counts for none of the files.
LEMMA PostSeedInv ==
    ASSUME TypeInv, SeedInv, NEW b \in Boards, NewPost([board |-> b, src |-> 0, pinned |-> FALSE]),
           UNCHANGED <<at, empty, failed>>, pc'["server"] = pc["server"]
    PROVE  SeedInv'
<1>1. [board |-> b, src |-> 0, pinned |-> FALSE] \in Post
  BY Files DEF Post
<1>2. /\ DOMAIN posts' = DOMAIN posts \cup {lastPost + 1}
      /\ posts'[lastPost + 1] = [board |-> b, src |-> 0, pinned |-> FALSE]
      /\ \A i \in DOMAIN posts : posts'[i] = posts[i]
  BY <1>1, NewPostAdds DEF TypeInv
<1>3. posts'[lastPost + 1].src = 0
  BY <1>2
<1>4. SeededOnce' /\ SrcInv'
  BY <1>2, <1>3 DEF SeedInv, SeededOnce, SrcInv
<1>5. ASSUME NEW f, \E i \in DOMAIN posts : posts[i].src = f
      PROVE  \E i \in DOMAIN posts' : posts'[i].src = f
  BY <1>2, <1>5
<1>6. pc'["server"] \in seedSteps =>
        \A i \in DOMAIN posts' :
              posts'[i].src # 0 /\ empty'[posts'[i].board] = "yes" => Beyond(posts'[i].src, at', pc'["server"])
  BY <1>2, <1>3 DEF SeedInv, Beyond
<1>7. SeededTogether'
  BY <1>5 DEF SeedInv, SeededTogether
<1>8. pc'["server"] \in seedSteps =>
        /\ \A f \in 1..Len(File) : Beyond(f, at', pc'["server"]) /\ empty'[File[f].board] = "yes"
                                      => f \in failed' \/ \E i \in DOMAIN posts' : posts'[i].src = f
        /\ \A f \in 1..Len(File) : Beyond(f, at', pc'["server"]) => empty'[File[f].board] # "unknown"
  BY <1>5 DEF SeedInv, Beyond
<1> QED
  BY <1>4, <1>6, <1>7, <1>8 DEF SeedInv

\* The steps of seed.Articles.
LEMMA ArticlesSeedInv ==
    ASSUME TypeInv, SeedInv, seedGuest \/ Sample \/ CreateSeed \/ CreateSeedFails \/ PinSeed \/ ArticlesDone
    PROVE  SeedInv'
<1>0. /\ pc \in [Processes -> Steps] /\ "server" \in Processes /\ Len(File) \in Nat
      /\ at \in 1..(Len(File) + 1) /\ empty \in [Boards -> {"unknown", "yes", "no"}]
      /\ \A i \in DOMAIN posts : posts[i] \in Post /\ posts[i].src \in 0..Len(File) /\ posts[i].board \in Boards
      /\ \A f \in 1..Len(File) : File[f].board \in Boards
  BY Files DEF TypeInv, TypeOK, Processes, Post
<1>1. CASE seedGuest
  <2>1. pc'["server"] = "articles" /\ at' = 1 /\ posts' = posts /\ \A b \in Boards : empty'[b] = "unknown"
    BY <1>0, <1>1 DEF seedGuest, Goto
  <2> QED
    BY <1>0, <2>1 DEF SeedInv, SeededOnce, SrcInv, SeededTogether, Beyond, seedSteps
<1>2. CASE Sample
  <2> DEFINE b == File[at].board
  <2>1. /\ pc["server"] = "articles" /\ at \in 1..Len(File) /\ b \in Boards /\ posts' = posts /\ failed' = failed
        /\ \A c \in Boards : c # b => empty'[c] = empty[c]
        /\ empty'[b] = IF empty[b] # "unknown" THEN empty[b] ELSE IF HasPosts(b) THEN "no" ELSE "yes"
    <3>1. pc["server"] = "articles" /\ at \in 1..Len(File) /\ posts' = posts /\ failed' = failed
      BY <1>0, <1>2 DEF Sample, More, diskVars
    <3>2. b \in Boards
      BY <1>0, <3>1
    <3> HIDE DEF b
    <3>3. empty' = [empty EXCEPT ![b] = IF empty[b] # "unknown" THEN empty[b] ELSE IF HasPosts(b) THEN "no" ELSE "yes"]
      BY <1>2 DEF Sample, b
    <3> QED
      BY <1>0, <3>1, <3>2, <3>3
  <2>2. \/ at' = at + 1 /\ pc'["server"] = "articles" /\ empty'[b] = "no"
        \/ at' = at /\ pc'["server"] = "create" /\ empty'[b] = "yes"
    BY <1>0, <1>2, <2>1 DEF Sample, Goto, HasPosts
  <2>3. \A f \in 1..Len(File) : Beyond(f, at, pc["server"]) <=> f < at
    BY <1>0, <2>1 DEF Beyond
  <2>4. \A f \in 1..Len(File) : Beyond(f, at', pc'["server"]) => f < at \/ (f = at /\ empty'[b] = "no")
    BY <1>0, <2>1, <2>2 DEF Beyond
  <2>5. \A f \in 1..Len(File) : f < at => Beyond(f, at', pc'["server"])
    BY <1>0, <2>1, <2>2 DEF Beyond
  <2>6. \A i \in DOMAIN posts : posts[i].src # 0 /\ empty'[posts[i].board] = "yes"
           => Beyond(posts[i].src, at', pc'["server"])
    <3> SUFFICES ASSUME NEW i \in DOMAIN posts, posts[i].src # 0, empty'[posts[i].board] = "yes"
                 PROVE  Beyond(posts[i].src, at', pc'["server"])
      OBVIOUS
    <3>1. empty[posts[i].board] = "yes"
      BY <1>0, <2>1 DEF HasPosts
    <3>2. posts[i].src \in 1..Len(File) /\ posts[i].src < at
      BY <1>0, <2>1, <2>3, <3>1 DEF SeedInv, seedSteps
    <3> QED
      BY <2>5, <3>2
  <2>7. \A f \in 1..Len(File) : Beyond(f, at', pc'["server"]) => empty'[File[f].board] # "unknown"
    BY <1>0, <2>1, <2>2, <2>3, <2>4 DEF SeedInv, seedSteps
  <2>8. \A f \in 1..Len(File) : Beyond(f, at', pc'["server"]) /\ empty'[File[f].board] = "yes"
                                   => f \in failed \/ \E i \in DOMAIN posts : posts[i].src = f
    <3> SUFFICES ASSUME NEW f \in 1..Len(File), Beyond(f, at', pc'["server"]), empty'[File[f].board] = "yes"
                 PROVE  f \in failed \/ \E i \in DOMAIN posts : posts[i].src = f
      OBVIOUS
    <3>1. f < at
      BY <2>4
    <3>2. empty[File[f].board] # "unknown"
      BY <2>1, <2>3, <3>1 DEF SeedInv, seedSteps
    <3>3. empty[File[f].board] = "yes"
      BY <1>0, <2>1, <3>2
    <3> QED
      BY <2>1, <2>3, <3>1, <3>3 DEF SeedInv, seedSteps
  <2>9. pc'["server"] \in {"create", "pin"} => empty'[File[at'].board] = "yes"
    BY <2>2
  <2>10. SeededOnce' /\ SrcInv' /\ SeededTogether'
    BY <2>1, <2>2 DEF SeedInv, SeededOnce, SrcInv, SeededTogether
  <2> QED
    BY <2>1, <2>6, <2>7, <2>8, <2>9, <2>10 DEF SeedInv
<1>3. CASE CreateSeed
  <2> DEFINE row == [board |-> File[at].board, src |-> at, pinned |-> FALSE]
  <2>1. at \in 1..Len(File) /\ pc["server"] = "create" /\ empty' = empty /\ failed' = failed
    BY <1>0, <1>3 DEF CreateSeed, TypeInv
  <2>2. row \in Post
    BY <1>0, <2>1 DEF Post
  <2>3. /\ DOMAIN posts' = DOMAIN posts \cup {lastPost + 1} /\ posts'[lastPost + 1] = row
        /\ \A i \in DOMAIN posts : posts'[i] = posts[i]
    BY <1>3, <2>2, NewPostAdds DEF CreateSeed, TypeInv
  <2>4. posts'[lastPost + 1].src = at /\ posts'[lastPost + 1].board = File[at].board
    BY <2>3
  <2>5. \/ at' = at /\ pc'["server"] = "pin"
        \/ at' = at + 1 /\ pc'["server"] = "articles"
    BY <1>0, <1>3 DEF CreateSeed, Goto
  <2>6. \A f \in 0..Len(File) : /\ Beyond(f, at, pc["server"]) <=> f < at
                                /\ Beyond(f, at', pc'["server"]) <=> f <= at
    BY <1>0, <2>1, <2>5 DEF Beyond
  <2>7. empty[File[at].board] = "yes"
    BY <2>1 DEF SeedInv
  <2>8. \A i \in DOMAIN posts : posts[i].src # at
    <3> SUFFICES ASSUME NEW i \in DOMAIN posts, posts[i].src = at
                 PROVE  FALSE
      OBVIOUS
    <3>1. posts[i].board = File[at].board /\ posts[i].src # 0
      BY <1>0, <2>1 DEF SeedInv, SrcInv
    <3>2. Beyond(at, at, pc["server"])
      BY <2>1, <2>7, <3>1 DEF SeedInv, seedSteps
    <3> QED
      BY <1>0, <2>1, <2>6, <3>2
  <2>9. SeededOnce' /\ SrcInv'
    BY <2>3, <2>4, <2>8 DEF SeedInv, SeededOnce, SrcInv
  <2>10. \A i \in DOMAIN posts' : posts'[i].src # 0 /\ empty'[posts'[i].board] = "yes"
            => Beyond(posts'[i].src, at', pc'["server"])
    <3>1. \A i \in DOMAIN posts : posts[i].src # 0 /\ empty[posts[i].board] = "yes" => posts[i].src <= at
      BY <1>0, <2>1, <2>6 DEF SeedInv, seedSteps
    <3>2. at \in 0..Len(File) /\ at <= at
      BY <1>0, <2>1
    <3> QED
      BY <1>0, <2>1, <2>3, <2>4, <2>6, <3>1, <3>2
  <2>11. \A f \in 1..Len(File) : Beyond(f, at', pc'["server"]) => empty'[File[f].board] # "unknown"
    <3>1. \A f \in 1..Len(File) : f < at => empty[File[f].board] # "unknown"
      BY <1>0, <2>1, <2>6 DEF SeedInv, seedSteps
    <3>2. \A f \in 1..Len(File) : Beyond(f, at', pc'["server"]) => f < at \/ f = at
      BY <1>0, <2>1, <2>6
    <3> QED
      BY <2>1, <2>7, <3>1, <3>2
  <2>12. \A f \in 1..Len(File) : Beyond(f, at', pc'["server"]) /\ empty'[File[f].board] = "yes"
                                   => f \in failed' \/ \E i \in DOMAIN posts' : posts'[i].src = f
    <3> SUFFICES ASSUME NEW f \in 1..Len(File), Beyond(f, at', pc'["server"]), empty'[File[f].board] = "yes"
                 PROVE  f \in failed' \/ \E i \in DOMAIN posts' : posts'[i].src = f
      OBVIOUS
    <3>1. CASE f = at
      BY <2>3, <2>4, <3>1
    <3>2. CASE f # at
      <4>1. f < at
        BY <1>0, <2>1, <2>6, <3>2
      <4>2. Beyond(f, at, pc["server"])
        BY <2>6, <4>1
      <4>3. f \in failed \/ \E i \in DOMAIN posts : posts[i].src = f
        BY <2>1, <4>2 DEF SeedInv, seedSteps
      <4> QED
        BY <2>1, <2>3, <4>3
    <3> QED
      BY <3>1, <3>2
  <2>13. pc'["server"] \in {"create", "pin"} => empty'[File[at'].board] = "yes"
    BY <2>1, <2>5, <2>7
  <2>14. SeededTogether'
    BY <2>5 DEF SeededTogether
  <2> QED
    BY <2>9, <2>10, <2>11, <2>12, <2>13, <2>14 DEF SeedInv
<1>4. CASE PinSeed
  <2>1. /\ at \in 1..Len(File) /\ pc["server"] = "pin" /\ empty' = empty /\ failed' = failed
        /\ at' = at + 1 /\ pc'["server"] = "articles"
    BY <1>0, <1>4 DEF PinSeed, TypeInv, Goto
  <2>2. /\ DOMAIN posts' = DOMAIN posts
        /\ \A i \in DOMAIN posts : posts'[i].src = posts[i].src /\ posts'[i].board = posts[i].board
    <3>1. PICK ok \in BOOLEAN :
             posts' = [i \in DOMAIN posts |->
                          IF posts[i].src = at THEN [posts[i] EXCEPT !.pinned = ok] ELSE posts[i]]
      BY <1>4 DEF PinSeed
    <3> QED
      BY <1>0, <3>1 DEF Post
  <2>3. \A f \in 0..Len(File) : Beyond(f, at', pc'["server"]) <=> Beyond(f, at, pc["server"])
    BY <1>0, <2>1 DEF Beyond
  <2>4. SeededOnce' /\ SrcInv' /\ SeededTogether'
    BY <2>1, <2>2 DEF SeedInv, SeededOnce, SrcInv, SeededTogether
  <2>5. \A i \in DOMAIN posts' : posts'[i].src # 0 /\ empty'[posts'[i].board] = "yes"
           => Beyond(posts'[i].src, at', pc'["server"])
    BY <1>0, <2>1, <2>2, <2>3 DEF SeedInv, seedSteps
  <2>6. \A f \in 1..Len(File) : Beyond(f, at', pc'["server"]) => Beyond(f, at, pc["server"])
    BY <2>3
  <2>7. \A f \in 1..Len(File) : Beyond(f, at', pc'["server"]) /\ empty'[File[f].board] = "yes"
                                   => f \in failed' \/ \E i \in DOMAIN posts' : posts'[i].src = f
    BY <2>1, <2>2, <2>6 DEF SeedInv, seedSteps
  <2>8. \A f \in 1..Len(File) : Beyond(f, at', pc'["server"]) => empty'[File[f].board] # "unknown"
    BY <2>1, <2>6 DEF SeedInv, seedSteps
  <2> QED
    BY <2>1, <2>4, <2>5, <2>7, <2>8 DEF SeedInv
<1>5. CASE ArticlesDone
  <2>1. /\ pc["server"] = "articles" /\ at > Len(File) /\ pc'["server"] = "listBanners"
        /\ UNCHANGED <<posts, empty, at, failed>>
    BY <1>0, <1>5 DEF ArticlesDone, Goto, diskVars, serverVars
  <2>2. \A f \in 1..Len(File) : Beyond(f, at, pc["server"])
    BY <1>0, <2>1 DEF Beyond
  <2> QED
    BY <2>1, <2>2 DEF SeedInv, SeededOnce, SrcInv, SeededTogether, seedSteps
<1>6. CASE CreateSeedFails
  <2>1. /\ at \in 1..Len(File) /\ pc["server"] = "create" /\ posts' = posts /\ empty' = empty
        /\ at' = at + 1 /\ pc'["server"] = "articles" /\ failed' = failed \cup {at}
        /\ empty[File[at].board] = "yes"
    BY <1>0, <1>6 DEF CreateSeedFails, TypeInv, SeedInv, Goto, diskVars
  <2>2. \A f \in 0..Len(File) : /\ Beyond(f, at, pc["server"]) => Beyond(f, at', pc'["server"])
                                /\ Beyond(f, at', pc'["server"]) => Beyond(f, at, pc["server"]) \/ f = at
    BY <1>0, <2>1 DEF Beyond
  <2>3. SeededOnce' /\ SrcInv' /\ SeededTogether'
    BY <2>1 DEF SeedInv, SeededOnce, SrcInv, SeededTogether
  <2>4. \A i \in DOMAIN posts' : posts'[i].src # 0 /\ empty'[posts'[i].board] = "yes"
           => Beyond(posts'[i].src, at', pc'["server"])
    BY <1>0, <2>1, <2>2 DEF SeedInv, seedSteps
  <2>5. \A f \in 1..Len(File) : Beyond(f, at', pc'["server"]) => Beyond(f, at, pc["server"]) \/ f = at
    BY <2>2
  <2>6. \A f \in 1..Len(File) : Beyond(f, at', pc'["server"]) /\ empty'[File[f].board] = "yes"
                                   => f \in failed' \/ \E i \in DOMAIN posts' : posts'[i].src = f
    BY <2>1, <2>5 DEF SeedInv, seedSteps
  <2>7. \A f \in 1..Len(File) : Beyond(f, at', pc'["server"]) => empty'[File[f].board] # "unknown"
    BY <2>1, <2>5 DEF SeedInv, seedSteps
  <2> QED
    BY <2>1, <2>3, <2>4, <2>6, <2>7 DEF SeedInv
<1> QED
  BY <1>1, <1>2, <1>3, <1>4, <1>5, <1>6

\* Every step keeps what is known of the seeding.
LEMMA NextSeedInv == ASSUME TypeInv, SeedInv, [Next]_vars PROVE SeedInv'
<1>0. pc \in [Processes -> Steps] /\ "server" \in Processes /\ "import" \in Processes
  BY DEF TypeInv, TypeOK, Processes
<1>1. ASSUME NEW p \in Processes, Open(p) PROVE SeedInv'
  <2>1. UNCHANGED <<posts, at, empty, failed>>
    BY <1>1 DEF Open, Start, loadApplied, Opened, runOne, runOneFails, Execute, diskVars, serverVars
  <2>2. \/ pc'["server"] = pc["server"]
        \/ pc'["server"] \notin seedSteps \cup {"listBanners", "banners"}
    BY <1>0, <1>1 DEF Open, Start, loadApplied, Opened, runOne, runOneFails, Goto, seedSteps
  <2> QED
    BY <2>1, <2>2, AsideSeedInv
<1>2. CASE SeedDefaults \/ seedAdmin \/ Listen
  <2>1. UNCHANGED <<posts, at, empty, failed>> /\ pc'["server"] \in {"seedAdmin", "seedGuest", "serving"}
    BY <1>0, <1>2 DEF SeedDefaults, seedAdmin, Listen, Goto, diskVars, serverVars
  <2> QED
    BY <2>1, AsideSeedInv DEF seedSteps
<1>3. CASE ListBanners \/ \E b \in Boards : SeedBanner(b) \/ SeedBannerFails(b)
  <2>1. UNCHANGED <<posts, at, empty, failed>>
        /\ pc["server"] \in {"listBanners", "banners"} /\ pc'["server"] = "banners"
    BY <1>0, <1>3 DEF ListBanners, SeedBanner, SeedBannerFails, Goto, diskVars
  <2> QED
    BY <2>1 DEF SeedInv, SeededOnce, SrcInv, SeededTogether, seedSteps
<1>4. CASE Seed
  BY <1>2, <1>3, <1>4, ArticlesSeedInv DEF Seed
<1>5. CASE Others
  <2>1. ASSUME NEW p \in Processes, Crash(p) PROVE SeedInv'
    <3>1. UNCHANGED <<posts, at, empty, failed>> /\ (pc'["server"] = pc["server"] \/ pc'["server"] = "down")
      BY <1>0, <2>1 DEF Crash, Goto, diskVars, serverVars
    <3> QED
      BY <3>1, AsideSeedInv DEF seedSteps
  <2>2. ASSUME NEW b \in Boards, UserPosts(b) \/ ImportInsert(b) PROVE SeedInv'
    <3>1. /\ NewPost([board |-> b, src |-> 0, pinned |-> FALSE])
          /\ UNCHANGED <<at, empty, failed>> /\ pc'["server"] = pc["server"]
      BY <1>0, <2>2 DEF UserPosts, ImportInsert, Goto, serverVars
    <3> QED
      BY <3>1, PostSeedInv
  <2>3. ASSUME \/ \E b \in Boards : ImportLookup(b) \/ \E text \in {"", "edited"} : SubmitBanner(b, text)
               \/ ChangeAdminPassword
        PROVE  SeedInv'
    <3>1. UNCHANGED <<posts, at, empty, failed>> /\ pc'["server"] = pc["server"]
      BY <1>0, <2>3 DEF ImportLookup, SubmitBanner, UpdateBanner, ChangeAdminPassword, Goto, diskVars, serverVars
    <3> QED
      BY <3>1, AsideSeedInv
  <2>4. ASSUME NEW i \in DOMAIN posts, UserDeletes(i) PROVE SeedInv'
    <3>1. /\ pc'["server"] = "serving" /\ DOMAIN posts' \subseteq DOMAIN posts
          /\ \A j \in DOMAIN posts' : posts'[j] = posts[j]
      BY <2>4 DEF UserDeletes, Serving
    <3> QED
      BY <3>1 DEF SeedInv, SeededOnce, SrcInv, SeededTogether, seedSteps
  <2> QED
    BY <1>5, <2>1, <2>2, <2>3, <2>4 DEF Others
<1>6. CASE UNCHANGED vars
  BY <1>6, AsideSeedInv DEF vars, diskVars, serverVars
<1> QED
  BY <1>1, <1>4, <1>5, <1>6, NextSteps

-----------------------------------------------------------------------------
(* What users have edited.                                                 *)

\* While the server is not serving, nobody but itself writes a banner, and the
\* account admin is never removed.
LEMMA NextEditInv == ASSUME TypeInv, EditInv, [Next]_vars PROVE EditInv'
<1>0. pc \in [Processes -> Steps] /\ "server" \in Processes /\ "import" \in Processes
      /\ banner \in [Boards -> Texts]
  BY DEF TypeInv, TypeOK, Processes
<1> DEFINE before == {"down", "loadApplied", "migrate", "SeedDefaults", "seedAdmin", "lookup"}
<1>1. ASSUME UNCHANGED <<accounts, adminPw>>,
             pc'["server"] \in before \/ (pc'["server"] = pc["server"] /\ UNCHANGED <<banner, bare>>)
      PROVE  EditInv'
  BY <1>1 DEF EditInv
<1>2. ASSUME NEW p \in Processes, Open(p) PROVE EditInv'
  <2>1. UNCHANGED <<accounts, adminPw, banner, bare>>
    BY <1>2 DEF Open, Start, loadApplied, Opened, runOne, runOneFails, Execute, diskVars, serverVars
  <2>2. pc'["server"] = pc["server"] \/ pc'["server"] \in before
    BY <1>0, <1>2 DEF Open, Start, loadApplied, Opened, runOne, runOneFails, Goto
  <2> QED
    BY <1>1, <2>1, <2>2
<1>3. CASE Seed
  <2>1. CASE SeedDefaults
    BY <1>0, <1>1, <2>1 DEF SeedDefaults, Goto
  <2>2. CASE seedAdmin
    BY <1>0, <2>2 DEF seedAdmin, Goto, EditInv
  <2>3. CASE seedGuest \/ Sample \/ CreateSeed \/ CreateSeedFails \/ PinSeed \/ ArticlesDone
    <3>1. UNCHANGED adminPw /\ accounts \subseteq accounts' /\ pc'["server"] # "banners"
      BY <1>0, <2>3 DEF seedGuest, Sample, More, CreateSeed, CreateSeedFails, PinSeed, ArticlesDone, Goto, diskVars
    <3>2. pc["server"] \in {"seedGuest", "articles", "create", "pin"}
      BY <2>3 DEF seedGuest, Sample, More, CreateSeed, CreateSeedFails, PinSeed, ArticlesDone
    <3> QED
      BY <3>1, <3>2 DEF EditInv
  <2>4. CASE ListBanners
    BY <1>0, <2>4 DEF ListBanners, Goto, EditInv, diskVars
  <2>5. ASSUME NEW b \in Boards, SeedBanner(b) \/ SeedBannerFails(b) PROVE EditInv'
    <3>1. /\ pc["server"] = "banners" /\ bare' = bare \ {b} /\ UNCHANGED <<accounts, adminPw, pc>>
          /\ \A c \in Boards : c # b => banner'[c] = banner[c]
      BY <1>0, <2>5 DEF SeedBanner, SeedBannerFails, diskVars
    <3>2. bare \subseteq Boards
      BY DEF TypeInv, TypeOK
    <3> QED
      BY <3>1, <3>2 DEF EditInv
  <2>6. CASE Listen
    BY <1>0, <2>6 DEF Listen, Goto, EditInv, diskVars, serverVars
  <2> QED
    BY <1>3, <2>1, <2>2, <2>3, <2>4, <2>5, <2>6 DEF Seed
<1>4. CASE Others
  <2>1. ASSUME NEW p \in Processes, Crash(p) PROVE EditInv'
    BY <1>0, <1>1, <2>1 DEF Crash, Goto, diskVars, serverVars
  <2>2. ASSUME NEW b \in Boards, UserPosts(b) \/ ImportLookup(b) \/ ImportInsert(b) PROVE EditInv'
    BY <1>0, <1>1, <2>2 DEF UserPosts, ImportLookup, ImportInsert, Goto, diskVars, serverVars
  <2>3. ASSUME NEW b \in Boards, NEW text \in {"", "edited"}, SubmitBanner(b, text) PROVE EditInv'
    BY <2>3 DEF SubmitBanner, UpdateBanner, Serving, EditInv
  <2>4. CASE ChangeAdminPassword
    BY <2>4 DEF ChangeAdminPassword, Serving, EditInv
  <2>5. ASSUME NEW i \in DOMAIN posts, UserDeletes(i) PROVE EditInv'
    BY <1>1, <2>5 DEF UserDeletes, serverVars
  <2> QED
    BY <1>4, <2>1, <2>2, <2>3, <2>4, <2>5 DEF Others
<1>5. CASE UNCHANGED vars
  BY <1>1, <1>5 DEF vars, diskVars, serverVars
<1> QED
  BY <1>2, <1>3, <1>4, <1>5, NextSteps

\* A step taken while the server is not serving leaves edited texts alone.
LEMMA EditsStay ==
    ASSUME TypeInv, EditInv, Next, ~Serving
    PROVE  /\ \A b \in Boards : banner[b] = "edited" => banner'[b] = "edited"
           /\ adminPw = "edited" => adminPw' = "edited"
<1>0. banner \in [Boards -> Texts]
  BY DEF TypeInv, TypeOK
<1>1. ASSUME NEW p \in Processes, Open(p) PROVE UNCHANGED <<banner, adminPw>>
  BY <1>1 DEF Open, Start, loadApplied, Opened, runOne, runOneFails, Execute, diskVars
<1>2. ASSUME Others PROVE UNCHANGED <<banner, adminPw>>
  BY <1>2 DEF Others, Crash, UserPosts, ImportLookup, ImportInsert, SubmitBanner, UpdateBanner,
     ChangeAdminPassword, UserDeletes, diskVars
<1>3. CASE seedAdmin
  BY <1>3 DEF seedAdmin, EditInv
<1>4. ASSUME NEW b \in Boards, SeedBanner(b)
      PROVE  adminPw' = adminPw /\ \A c \in Boards : banner[c] = "edited" => banner'[c] = "edited"
  BY <1>0, <1>4 DEF SeedBanner, EditInv
<1>5. ASSUME \/ SeedDefaults \/ seedGuest \/ Sample \/ CreateSeed \/ CreateSeedFails \/ PinSeed
             \/ ArticlesDone \/ ListBanners \/ Listen \/ \E b \in Boards : SeedBannerFails(b)
      PROVE  UNCHANGED <<banner, adminPw>>
  BY <1>5 DEF SeedDefaults, seedGuest, Sample, CreateSeed, CreateSeedFails, PinSeed, ArticlesDone,
     ListBanners, Listen, SeedBannerFails, diskVars
<1> QED
  BY <1>1, <1>2, <1>3, <1>4, <1>5, NextSteps DEF Seed

-----------------------------------------------------------------------------
(* The theorems.                                                           *)

\* Every step keeps the types.
LEMMA NextTypeInv == TypeInv /\ [Next]_vars => TypeInv'
<1>1. ASSUME TypeInv, UNCHANGED vars PROVE TypeInv'
  BY <1>1 DEF TypeInv, TypeOK, vars, diskVars, serverVars
<1> QED
  BY <1>1, OpenTypeInv, SeedTypeInv, OthersTypeInv, NextSteps

\* The invariants hold throughout.
LEMMA Invariants == Spec => [](TypeInv /\ MigInv /\ SeedInv /\ EditInv)
<1>1. TypeInv /\ MigInv /\ SeedInv /\ EditInv /\ [Next]_vars
        => TypeInv' /\ MigInv' /\ SeedInv' /\ EditInv'
  BY NextTypeInv, NextMigInv, NextSeedInv, NextEditInv
<1> QED
  BY InitInv, <1>1, PTL DEF Spec

\* The type invariant, whatever crashes and imports there are.
THEOREM StartupTypeOK == Spec => []TypeOK
<1>1. TypeInv => TypeOK
  BY DEF TypeInv
<1> QED
  BY <1>1, Invariants, PTL

\* Migrations run at most once and in ascending order, with the server and an
\* import command migrating the same file at once and dying in between.
THEOREM MigrationsInOrder == Spec => []MigratedInOrder
<1>1. MigInv => MigratedInOrder
  BY DEF MigInv
<1> QED
  BY <1>1, Invariants, PTL

\* seed.Articles inserts no file a second time, however often it is interrupted.
THEOREM NothingSeededTwice == Spec => []SeededOnce
<1>1. SeedInv => SeededOnce
  BY DEF SeedInv
<1> QED
  BY <1>1, Invariants, PTL

\* A run of seed.Articles that found a board empty and gets through leaves all its
\* files there, but for those whose insert it logged as failed.
THEOREM BoardsSeededTogether == Spec => []SeededTogether
<1>1. SeedInv => SeededTogether
  BY DEF SeedInv
<1> QED
  BY <1>1, Invariants, PTL

\* A restart sets back neither a banner with a text nor the admin's password.
THEOREM UserEditsSurvive == Spec => EditsSurvive
<1>1. TypeInv /\ EditInv /\ [Next]_vars
        => [~Serving => /\ \A b \in Boards : banner[b] = "edited" => banner'[b] = "edited"
                        /\ adminPw = "edited" => adminPw' = "edited"]_vars
  BY EditsStay
<1> QED
  BY <1>1, Invariants, PTL DEF Spec, EditsSurvive

=============================================================================
