--------------------------- MODULE AccountsProofs ---------------------------
(***************************************************************************)
(* Proofs about accounts, for any number of sessions, names and passwords. *)
(*                                                                         *)
(* That an admin remains rests on the guard's answer being still good when *)
(* the role is written (GuardStillGood): as long as nobody else set a role *)
(* since the list was read, the list shows the roles of the table          *)
(* (FreshListShowsRoles), and none of the admins counted has gone.  That   *)
(* the forced change really changes the password, although it is compared  *)
(* with a copy, rests on the copy being good as long as the flag is up     *)
(* (CopyGoodWhileForced): the flag comes down with the first new password. *)
(***************************************************************************)
EXTENDS Accounts, FiniteSetTheorems, TLAPS

IsAdmin(u) == users[u].role = "admin"

\* What is known of one session, by itself and ...
SessionTypeOK(s) ==
    /\ screen[s] \in Screens /\ acct[s] \in DOMAIN users
    /\ copy[s] \in User \cup {NoUser} /\ (copy[s] # NoUser <=> LoggedIn(s))
    /\ forced[s] \in BOOLEAN /\ fresh[s] \in BOOLEAN /\ listFresh[s] \in BOOLEAN
    /\ doing[s] \in Doing /\ doing[s].user \in DOMAIN users
    /\ DOMAIN list[s] \subseteq DOMAIN users /\ list[s] \in [DOMAIN list[s] -> Roles]
    /\ list[s] # NoList => screen[s] = "admin"

DoingOnItsScreen(s) ==
    /\ doing[s].op = "GetByID" => screen[s] \in {"password", "bio", "locale"}
    /\ doing[s].op \in {"SetRole", "reload"} => screen[s] = "admin"
    /\ doing[s].op = "SetLocale" => screen[s] = "register"

\* ... of its copies.
FreshCopyIsRow(s) ==
    /\ fresh[s] => LoggedIn(s)
    /\ fresh[s] /\ doing[s].op # "GetByID" => copy[s] = users[acct[s]]

CopyGoodWhileForced(s) ==
    LoggedIn(s) /\ users[acct[s]].must => copy[s].pw = users[acct[s]].pw

FreshListShowsRoles(s) ==
    listFresh[s] => \A u \in DOMAIN list[s] : list[s][u] = users[u].role

GuardStillGood(s) ==
    doing[s].op = "SetRole" /\ listFresh[s] /\ IsAdmin(doing[s].user)
        => \E v \in DOMAIN users : v # doing[s].user /\ IsAdmin(v)

SessionOK(s) ==
    /\ SessionTypeOK(s) /\ DoingOnItsScreen(s)
    /\ FreshCopyIsRow(s) /\ CopyGoodWhileForced(s)
    /\ FreshListShowsRoles(s) /\ GuardStillGood(s)

OnSessions(f) == f = [s \in Sessions |-> f[s]]

Shape ==
    /\ OnSessions(screen) /\ OnSessions(acct) /\ OnSessions(copy) /\ OnSessions(forced)
    /\ OnSessions(list) /\ OnSessions(doing) /\ OnSessions(fresh) /\ OnSessions(listFresh)

TableOK ==
    /\ {"admin", "guest"} \subseteq DOMAIN users /\ DOMAIN users \subseteq Accounts
    /\ users \in [DOMAIN users -> User]
    /\ writes \in 0..MaxWrites /\ raced \in BOOLEAN
    /\ AdminUnlessRaced

AccInv == TableOK /\ Shape /\ \A s \in Sessions : SessionOK(s)

-----------------------------------------------------------------------------
(* General facts.                                                          *)

\* What is no row is no copy.
LEMMA NoUserIsNoRow == NoUser \notin User
BY AccountsAssumption DEF User, Roles

\* More admins than one: one besides any given one.
LEMMA AnotherAdmin ==
    ASSUME CanDemote, NEW u
    PROVE  \E v \in DOMAIN users : v # u /\ IsAdmin(v)
<1> DEFINE S == {v \in DOMAIN users : users[v].role = "admin"}
<1>1. Cardinality(S) > 1
  BY DEF CanDemote, CountByRole
<1>2. SUFFICES ASSUME ~ \E v \in DOMAIN users : v # u /\ IsAdmin(v)
               PROVE  FALSE
  OBVIOUS
<1>3. S = {} \/ S = {u}
  BY <1>2 DEF IsAdmin
<1>4. Cardinality({}) = 0 /\ Cardinality({u}) = 1
  BY FS_EmptySet, FS_Singleton
<1> HIDE DEF S
<1> QED
  BY <1>1, <1>3, <1>4

\* The work left to do is a work order.
LEMMA Orders ==
    /\ Nothing \in Doing /\ Nothing.op = "nothing" /\ Nothing.user = "guest"
    /\ \A op \in {"GetByID", "reload", "SetLocale"} :
          Then(op) \in Doing /\ Then(op).op = op /\ Then(op).user = "guest" /\ Then(op) # Nothing
BY DEF Nothing, Then, Doing, Accounts, Roles

LEMMA BoundIsNat == MaxWrites \in Nat
BY Zenon, AccountsAssumption

LEMMA StartInBound == Init => writes \in 0..MaxWrites
<1>1. Init => writes = 0
  BY DEF Init
<1> QED
  BY <1>1, BoundIsNat

LEMMA CountInBound == writes \in 0..MaxWrites /\ Count => writes' \in 0..MaxWrites
BY BoundIsNat DEF Count

\* What Create and the seeding of accounts insert is a row.
LEMMA NewRowIsRow ==
    ASSUME NEW pw \in Passwords \cup {"!"}, NEW role \in Roles, NEW must \in BOOLEAN
    PROVE  /\ NewRow(pw, role, must) \in User
           /\ NewRow(pw, role, must).role = role /\ NewRow(pw, role, must).must = must
BY AccountsAssumption DEF NewRow, User

\* What locale screens take for the saved locale is a locale.
CurrentOK == current \in [Sessions -> Locales]

\* The two invariants have the type invariant in them.
LEMMA AccInvType == AccInv /\ CurrentOK => TypeOK
<1> SUFFICES ASSUME AccInv, CurrentOK
             PROVE  TypeOK
  OBVIOUS
<1>1. /\ screen \in [Sessions -> Screens] /\ acct \in [Sessions -> DOMAIN users]
      /\ copy \in [Sessions -> User \cup {NoUser}] /\ doing \in [Sessions -> Doing]
  BY DEF AccInv, Shape, OnSessions, SessionOK, SessionTypeOK
<1>2. /\ forced \in [Sessions -> BOOLEAN] /\ fresh \in [Sessions -> BOOLEAN]
      /\ listFresh \in [Sessions -> BOOLEAN]
  BY DEF AccInv, Shape, OnSessions, SessionOK, SessionTypeOK
<1> QED
  BY <1>1, <1>2 DEF TypeOK, CurrentOK, AccInv, TableOK, SessionOK, SessionTypeOK

\* The initial state satisfies the inductive invariant.
LEMMA InitAccInv == Init => AccInv
<1> SUFFICES ASSUME Init
             PROVE  AccInv
  OBVIOUS
<1> USE AccountsAssumption DEF Init
<1>1. /\ DOMAIN users = {"admin", "guest"}
      /\ users["admin"].role = "admin"
      /\ users \in [DOMAIN users -> User]
  <2>1. /\ NewRow(DefaultAdminPassword, "admin", TRUE) \in User /\ NewRow("!", "guest", FALSE) \in User
        /\ NewRow(DefaultAdminPassword, "admin", TRUE).role = "admin"
    BY NewRowIsRow DEF Roles
  <2> QED
    BY <2>1 DEF SeedSystemAccounts
<1>2. TableOK
  <2>1. raced \in BOOLEAN
    BY Zenon
  <2>2. AdminUnlessRaced
    BY <1>1 DEF AdminUnlessRaced
  <2>3. writes \in 0..MaxWrites
    BY StartInBound, Zenon
  <2>4. {"admin", "guest"} \subseteq DOMAIN users /\ DOMAIN users \subseteq Accounts
    BY <1>1 DEF Accounts
  <2> QED
    BY <1>1, <2>1, <2>2, <2>3, <2>4, Zenon DEF TableOK
<1>3. Shape
  BY DEF Shape, OnSessions
<1>4. ASSUME NEW s \in Sessions PROVE SessionOK(s)
  <2>1. /\ screen[s] = "off" /\ acct[s] = "guest" /\ copy[s] = NoUser /\ forced[s] = FALSE
        /\ fresh[s] = FALSE /\ listFresh[s] = FALSE /\ doing[s] = Nothing /\ list[s] = NoList
    OBVIOUS
  <2>2. SessionTypeOK(s)
    BY <1>1, <2>1, Orders DEF SessionTypeOK, LoggedIn, Screens, NoList
  <2> QED
    BY <2>1, <2>2, Orders DEF SessionOK, DoingOnItsScreen, FreshCopyIsRow, CopyGoodWhileForced,
       FreshListShowsRoles, GuardStillGood, LoggedIn
<1> QED
  BY <1>2, <1>3, <1>4 DEF AccInv

\* Session s does something, and the others are left as they are.
Alone(s) ==
    /\ \A d \in Sessions \ {s} :
        /\ screen'[d] = screen[d] /\ acct'[d] = acct[d] /\ copy'[d] = copy[d]
        /\ forced'[d] = forced[d] /\ list'[d] = list[d] /\ doing'[d] = doing[d]
        /\ fresh'[d] = fresh[d] /\ listFresh'[d] = listFresh[d]
    /\ Shape'

\* As long as the table stays, it is enough to look at the session that moves.
LEMMA OneSession ==
    ASSUME AccInv, NEW s \in Sessions, Alone(s), UNCHANGED <<users, writes, raced>>, SessionOK(s)'
    PROVE  AccInv'
<1>1. TableOK'
  BY DEF AccInv, TableOK, AdminUnlessRaced
<1>2. ASSUME NEW d \in Sessions, d # s PROVE SessionOK(d)'
  <2>1. SessionOK(d)
    BY DEF AccInv
  <2>2. /\ screen'[d] = screen[d] /\ acct'[d] = acct[d] /\ copy'[d] = copy[d]
        /\ forced'[d] = forced[d] /\ list'[d] = list[d] /\ doing'[d] = doing[d]
        /\ fresh'[d] = fresh[d] /\ listFresh'[d] = listFresh[d] /\ users' = users
    BY <1>2 DEF Alone
  <2>3. LoggedIn(d)' = LoggedIn(d) /\ Idle(d)' = Idle(d)
    BY <2>2 DEF LoggedIn, Idle
  <2>4. SessionTypeOK(d)'
    BY <2>1, <2>2, <2>3 DEF SessionOK, SessionTypeOK
  <2>5. DoingOnItsScreen(d)' /\ FreshCopyIsRow(d)' /\ CopyGoodWhileForced(d)'
    BY <2>1, <2>2, <2>3 DEF SessionOK, DoingOnItsScreen, FreshCopyIsRow, CopyGoodWhileForced
  <2>6. FreshListShowsRoles(d)' /\ GuardStillGood(d)'
    BY <2>1, <2>2 DEF SessionOK, FreshListShowsRoles, GuardStillGood, IsAdmin
  <2> QED
    BY <2>4, <2>5, <2>6 DEF SessionOK
<1> QED
  BY <1>1, <1>2 DEF AccInv, Alone

-----------------------------------------------------------------------------
(* Steps that leave the table as it is.                                    *)

\* A login: the session has no copy yet, and nothing to do.
LEMMA LoginAccInv == ASSUME AccInv, NEW s \in Sessions, Login(s) PROVE AccInv'
<1> USE AccountsAssumption
<1>0. SessionOK(s) /\ Shape
  BY DEF AccInv
<1>1. ASSUME NEW u \in Accounts, NEW pw \in Passwords, NEW loopback \in BOOLEAN,
             PasswordAuth(s, u, pw, loopback)
      PROVE  AccInv'
  <2>1. Alone(s)
    BY <1>0, <1>1 DEF PasswordAuth, Alone, Shape, OnSessions, GoTo, history
  <2>2. SessionOK(s)'
    BY <1>0, <1>1 DEF PasswordAuth, VerifyLogin, SessionOK, SessionTypeOK, DoingOnItsScreen, FreshCopyIsRow,
       CopyGoodWhileForced, FreshListShowsRoles, GuardStillGood, LoggedIn, Screens, GoTo, history,
       Shape, OnSessions, IsAdmin
  <2> QED
    BY <1>1, <2>1, <2>2, OneSession DEF PasswordAuth, history
<1>2. ASSUME GuestAuth(s) PROVE AccInv'
  <2>1. Alone(s)
    BY <1>0, <1>2 DEF GuestAuth, Alone, Shape, OnSessions, GoTo, history
  <2>2. SessionOK(s)'
    BY <1>0, <1>2 DEF GuestAuth, SessionOK, SessionTypeOK, DoingOnItsScreen, FreshCopyIsRow,
       CopyGoodWhileForced, FreshListShowsRoles, GuardStillGood, LoggedIn, Screens, GoTo, history,
       Shape, OnSessions, IsAdmin
  <2> QED
    BY <1>2, <2>1, <2>2, OneSession DEF GuestAuth, history
<1>3. ASSUME StartRegister(s) PROVE AccInv'
  <2>1. Alone(s)
    BY <1>0, <1>3 DEF StartRegister, Alone, Shape, OnSessions, GoTo, history
  <2>2. SessionOK(s)'
    BY <1>0, <1>3 DEF StartRegister, SessionOK, SessionTypeOK, DoingOnItsScreen, FreshCopyIsRow,
       CopyGoodWhileForced, FreshListShowsRoles, GuardStillGood, LoggedIn, Screens, GoTo, history,
       Shape, OnSessions, IsAdmin
  <2> QED
    BY <1>3, <2>1, <2>2, OneSession DEF StartRegister, history
<1>4. ASSUME StartSession(s) PROVE AccInv'
  <2>0. users[acct[s]] \in User /\ users[acct[s]] # NoUser /\ users[acct[s]].must \in BOOLEAN
    <3>1. users[acct[s]] \in User
      BY <1>0 DEF AccInv, TableOK, SessionOK, SessionTypeOK
    <3> QED
      BY <3>1, NoUserIsNoRow DEF User
  <2>1. Alone(s)
    BY <1>0, <1>4 DEF StartSession, Alone, Shape, OnSessions, GoTo
  <2>2. /\ copy'[s] = users[acct[s]] /\ forced'[s] = users[acct[s]].must /\ fresh'[s] = TRUE
        /\ screen'[s] \in {"password", "menu"} /\ UNCHANGED <<users, acct, list, doing, listFresh>>
    BY <1>0, <1>4 DEF StartSession, GoTo, Shape, OnSessions
  <2>3. SessionTypeOK(s)'
    <3>1. LoggedIn(s)' /\ screen'[s] \in Screens
      BY <2>2 DEF LoggedIn, Screens
    <3>2. forced'[s] \in BOOLEAN /\ fresh'[s] \in BOOLEAN /\ listFresh'[s] \in BOOLEAN
      BY <1>0, <2>0, <2>2, Zenon DEF SessionOK, SessionTypeOK
    <3>3. list[s] = NoList
      BY <1>0, <1>4 DEF SessionOK, SessionTypeOK, StartSession
    <3> QED
      BY <1>0, <2>0, <2>2, <3>1, <3>2, <3>3 DEF SessionOK, SessionTypeOK
  <2>4. DoingOnItsScreen(s)' /\ FreshCopyIsRow(s)' /\ CopyGoodWhileForced(s)'
    <3>1. doing[s].op \notin {"GetByID", "SetRole", "reload", "SetLocale"}
      BY <1>0, <1>4 DEF SessionOK, DoingOnItsScreen, StartSession
    <3> QED
      BY <2>2, <3>1 DEF DoingOnItsScreen, FreshCopyIsRow, CopyGoodWhileForced, LoggedIn
  <2>5. FreshListShowsRoles(s)' /\ GuardStillGood(s)'
    BY <1>0, <2>2 DEF SessionOK, FreshListShowsRoles, GuardStillGood, IsAdmin
  <2>6. SessionOK(s)'
    BY <2>3, <2>4, <2>5 DEF SessionOK
  <2> QED
    BY <1>4, <2>1, <2>6, OneSession DEF StartSession
<1> QED
  BY <1>1, <1>2, <1>3, <1>4 DEF Login

\* The session goes to another screen, and on with something.
Goes(s, scr, todo) ==
    /\ screen' = [screen EXCEPT ![s] = scr]
    /\ doing' = [doing EXCEPT ![s] = todo]
    /\ UNCHANGED <<users, acct, copy, forced, list, writes, fresh, listFresh, raced>>

\* Moving between two screens keeps everything, when the new screen is as much that
\* of a user as the old one, and the work to be done is work of the new screen.
LEMMA GoesAccInv ==
    ASSUME AccInv, NEW s \in Sessions, NEW scr \in Screens, NEW todo \in Doing, Goes(s, scr, todo),
           todo.user \in DOMAIN users,
           LoggedIn(s) <=> scr \notin {"off", "auth", "register", "registered"},
           screen[s] # scr => list[s] = NoList,
           todo.op = "GetByID" => scr \in {"password", "bio", "locale"},
           todo.op \in {"SetRole", "reload"} => scr = "admin",
           todo.op = "SetLocale" => scr = "register",
           doing[s].op # "GetByID",
           todo.op = "SetRole" /\ IsAdmin(todo.user) /\ listFresh[s]
               => \E v \in DOMAIN users : v # todo.user /\ IsAdmin(v)
    PROVE  AccInv'
<1>0. SessionOK(s) /\ Shape
  BY DEF AccInv
<1>1. /\ screen'[s] = scr /\ doing'[s] = todo
      /\ UNCHANGED <<users, acct, copy, forced, list, fresh, listFresh>>
  BY <1>0 DEF Goes, Shape, OnSessions
<1>2. Alone(s)
  BY <1>0 DEF Goes, Alone, Shape, OnSessions
<1>3. LoggedIn(s)' = LoggedIn(s)
  BY <1>1 DEF LoggedIn
<1>4. SessionTypeOK(s)'
  BY <1>0, <1>1, <1>3 DEF SessionOK, SessionTypeOK
<1>5. DoingOnItsScreen(s)' /\ FreshCopyIsRow(s)' /\ CopyGoodWhileForced(s)'
  BY <1>0, <1>1, <1>3 DEF SessionOK, DoingOnItsScreen, FreshCopyIsRow, CopyGoodWhileForced
<1>6. FreshListShowsRoles(s)' /\ GuardStillGood(s)'
  BY <1>0, <1>1 DEF SessionOK, FreshListShowsRoles, GuardStillGood, IsAdmin
<1> QED
  BY <1>2, <1>4, <1>5, <1>6, OneSession DEF SessionOK, Goes

\* A key that only moves: the session stays a user's, away from the admin screen.
LEMMA MoveAccInv ==
    ASSUME AccInv, NEW s \in Sessions,
           NEW from \in {"menu", "write", "settings", "bio", "locale", "password"},
           NEW to \in {"menu", "write", "settings", "bio", "locale", "password"}, Move(s, from, to)
    PROVE  AccInv'
<1>1. SessionOK(s) /\ Shape /\ {"admin", "guest"} \subseteq DOMAIN users
  BY DEF AccInv, TableOK
<1>2. screen[s] = from /\ doing[s] = Nothing /\ list[s] = NoList
  BY <1>1 DEF Move, At, Idle, SessionOK, SessionTypeOK
<1>3. Goes(s, to, Nothing)
  BY <1>1, <1>2 DEF Move, GoTo, Goes, history, Shape, OnSessions
<1> QED
  BY <1>1, <1>2, <1>3, GoesAccInv, Orders DEF Screens, LoggedIn

\* The end of a session.
LEMMA QuitAccInv == ASSUME AccInv, NEW s \in Sessions, Quit(s) PROVE AccInv'
<1>1. SessionOK(s) /\ Shape /\ {"admin", "guest"} \subseteq DOMAIN users
  BY DEF AccInv, TableOK
<1>2. /\ screen'[s] = "off" /\ acct'[s] = "guest" /\ copy'[s] = NoUser /\ forced'[s] = FALSE
      /\ list'[s] = NoList /\ fresh'[s] = FALSE /\ listFresh'[s] = FALSE /\ doing'[s] = Nothing
      /\ users' = users
  BY <1>1 DEF Quit, Gone, GoTo, Idle, Shape, OnSessions
<1>3. Alone(s)
  BY <1>1 DEF Quit, Gone, GoTo, Alone, Shape, OnSessions
<1>4. SessionTypeOK(s)'
  BY <1>1, <1>2, Orders DEF SessionTypeOK, LoggedIn, Screens, NoList
<1>5. SessionOK(s)'
  BY <1>2, <1>4, Orders DEF SessionOK, DoingOnItsScreen, FreshCopyIsRow, CopyGoodWhileForced,
     FreshListShowsRoles, GuardStillGood, LoggedIn
<1> QED
  BY <1>3, <1>5, OneSession DEF Quit, Gone

\* The admin screen is left.
LEMMA LeaveAdminAccInv == ASSUME AccInv, NEW s \in Sessions, LeaveAdmin(s) PROVE AccInv'
<1>1. SessionOK(s) /\ Shape /\ {"admin", "guest"} \subseteq DOMAIN users
  BY DEF AccInv, TableOK
<1>2. /\ screen[s] = "admin" /\ doing[s] = Nothing
      /\ screen'[s] = "menu" /\ list'[s] = NoList /\ listFresh'[s] = FALSE
      /\ UNCHANGED <<users, acct, copy, forced, fresh, doing>>
  BY <1>1 DEF LeaveAdmin, At, Idle, GoTo, Shape, OnSessions
<1>3. Alone(s)
  BY <1>1 DEF LeaveAdmin, GoTo, Alone, Shape, OnSessions
<1>4. SessionTypeOK(s)'
  BY <1>1, <1>2 DEF SessionOK, SessionTypeOK, LoggedIn, Screens, NoList
<1>5. SessionOK(s)'
  BY <1>1, <1>2, <1>4, Orders DEF SessionOK, DoingOnItsScreen, FreshCopyIsRow,
     CopyGoodWhileForced, FreshListShowsRoles, GuardStillGood, LoggedIn
<1> QED
  BY <1>3, <1>5, OneSession DEF LeaveAdmin

\* Every key that leaves the table as it is.
LEMMA KeysAccInv ==
    ASSUME AccInv, NEW s \in Sessions,
           \/ ToWrite(s) \/ ToSettings(s) \/ FromSettings(s) \/ Back(s) \/ CtrlU(s)
           \/ OpenLocale(s) \/ OpenAdmin(s) \/ TurnPage(s)
           \/ \E u \in Accounts, role \in Roles : ApplyRole(s, u, role)
    PROVE  AccInv'
<1>0. SessionOK(s) /\ Shape /\ {"admin", "guest"} \subseteq DOMAIN users
  BY DEF AccInv, TableOK
<1>1. CASE ToWrite(s) \/ ToSettings(s) \/ FromSettings(s) \/ Back(s) \/ CtrlU(s)
  BY <1>1, MoveAccInv DEF ToWrite, ToSettings, FromSettings, Back, EscWrite, EscBio,
     EscLocale, EscPassword, CtrlU
<1>4. CASE OpenLocale(s)
  <2>1. screen[s] = "settings" /\ doing[s] = Nothing /\ list[s] = NoList
    BY <1>0, <1>4 DEF OpenLocale, At, Idle, SessionOK, SessionTypeOK
  <2>2. doing = [doing EXCEPT ![s] = Nothing]
    BY <1>0, <2>1 DEF Shape, OnSessions
  <2>3. Goes(s, "locale", Nothing)
    BY <1>4, <2>2 DEF OpenLocale, GoTo, Goes, history
  <2> QED
    BY <1>0, <2>1, <2>3, GoesAccInv, Orders DEF Screens, LoggedIn
<1>2. CASE OpenAdmin(s)
  <2>1. screen[s] = "menu" /\ doing[s] = Nothing /\ list[s] = NoList
    BY <1>0, <1>2 DEF OpenAdmin, At, Idle, SessionOK, SessionTypeOK
  <2>2. Goes(s, "admin", Then("reload"))
    BY <1>2 DEF OpenAdmin, GoTo, Do, Goes, history
  <2> QED
    BY <1>0, <2>1, <2>2, GoesAccInv, Orders DEF Screens, LoggedIn
<1>3. CASE TurnPage(s)
  <2>1. screen[s] = "admin" /\ doing[s] = Nothing
    BY <1>3 DEF TurnPage, At, Idle
  <2>2. Goes(s, "admin", Then("reload"))
    BY <1>0, <1>3, <2>1 DEF TurnPage, Do, Goes, history, Shape, OnSessions
  <2> QED
    BY <1>0, <2>1, <2>2, GoesAccInv, Orders DEF Screens, LoggedIn
<1>5. ASSUME NEW u \in Accounts, NEW role \in Roles, ApplyRole(s, u, role) PROVE AccInv'
  <2> DEFINE todo == [op |-> "SetRole", user |-> u, role |-> role]
  <2>1. screen[s] = "admin" /\ doing[s] = Nothing /\ u \in DOMAIN users
    BY <1>0, <1>5 DEF ApplyRole, At, Idle, SessionOK, SessionTypeOK
  <2>2. Goes(s, "admin", todo)
    BY <1>0, <1>5, <2>1 DEF ApplyRole, Do, Goes, history, Shape, OnSessions
  <2>3. todo \in Doing /\ todo.op = "SetRole" /\ todo.user = u
    BY DEF Doing
  <2>4. IsAdmin(u) /\ listFresh[s] => \E v \in DOMAIN users : v # u /\ IsAdmin(v)
    <3>1. IsAdmin(u) /\ listFresh[s] => list[s][u] = "admin"
      BY <1>0, <1>5 DEF SessionOK, FreshListShowsRoles, IsAdmin, ApplyRole
    <3> QED
      BY <1>5, <3>1, AnotherAdmin DEF ApplyRole
  <2> HIDE DEF todo
  <2> QED
    BY <1>0, <2>1, <2>2, <2>3, <2>4, GoesAccInv, Orders DEF Screens, LoggedIn
<1> QED
  BY <1>1, <1>2, <1>3, <1>4, <1>5

\* What an Update does after its write, when it does not write again.
LEMMA UpdateAccInv ==
    ASSUME AccInv, NEW s \in Sessions,
           RegisterLocaleFails(s) \/ Reload(s) \/ Refresh(s) \/ RefreshFails(s)
    PROVE  AccInv'
<1>0. SessionOK(s) /\ Shape /\ {"admin", "guest"} \subseteq DOMAIN users
  BY DEF AccInv, TableOK
<1>1. CASE RegisterLocaleFails(s)
  <2>1. doing[s].op = "SetLocale" /\ screen[s] = "register" /\ list[s] = NoList
    BY <1>0, <1>1 DEF RegisterLocaleFails, SessionOK, SessionTypeOK, DoingOnItsScreen
  <2>2. Goes(s, "register", Nothing)
    BY <1>0, <1>1, <2>1 DEF RegisterLocaleFails, Do, Goes, history, Shape, OnSessions
  <2> QED
    BY <1>0, <2>1, <2>2, GoesAccInv, Orders DEF Screens, LoggedIn
<1>2. CASE Reload(s)
  <2>1. /\ screen[s] = "admin" /\ doing'[s] = Nothing /\ list'[s] = ListAll /\ listFresh'[s] = TRUE
        /\ UNCHANGED <<users, screen, acct, copy, forced, fresh>> /\ doing[s].op = "reload"
    BY <1>0, <1>2 DEF Reload, Do, Shape, OnSessions, SessionOK, DoingOnItsScreen
  <2>2. Alone(s)
    BY <1>0, <1>2 DEF Reload, Do, Alone, Shape, OnSessions
  <2>3. DOMAIN ListAll = DOMAIN users /\ ListAll \in [DOMAIN users -> Roles]
    <3>1. \A u \in DOMAIN users : users[u] \in User
      BY DEF AccInv, TableOK
    <3> QED
      BY <3>1 DEF ListAll, User
  <2>4. SessionTypeOK(s)'
    BY <1>0, <2>1, <2>3, Orders DEF SessionOK, SessionTypeOK, LoggedIn
  <2>5. SessionOK(s)'
    BY <1>0, <2>1, <2>4, Orders DEF SessionOK, DoingOnItsScreen, FreshCopyIsRow,
       CopyGoodWhileForced, FreshListShowsRoles, GuardStillGood, LoggedIn, ListAll
  <2> QED
    BY <1>2, <2>2, <2>5, OneSession DEF Reload
<1>3. CASE Refresh(s)
  <2>1. /\ screen[s] \in {"password", "bio", "locale"} /\ doing[s].op = "GetByID"
        /\ doing'[s] = Nothing /\ copy'[s] = users[acct[s]]
        /\ fresh'[s] = TRUE /\ UNCHANGED <<users, acct, forced, list, listFresh>>
    BY <1>0, <1>3 DEF Refresh, Do, Shape, OnSessions, SessionOK, DoingOnItsScreen
  <2>2. screen'[s] \in {"menu", "settings", "locale"}
    BY <1>0, <1>3, <2>1 DEF Refresh, GoTo, After, Shape, OnSessions
  <2>3. Alone(s)
    BY <1>0, <1>3 DEF Refresh, Do, GoTo, Alone, Shape, OnSessions
  <2>4. users[acct[s]] \in User /\ users[acct[s]] # NoUser /\ list[s] = NoList
    <3>1. users[acct[s]] \in User
      BY <1>0 DEF AccInv, TableOK, SessionOK, SessionTypeOK
    <3> QED
      BY <1>0, <2>1, <3>1, NoUserIsNoRow DEF SessionOK, SessionTypeOK
  <2>5. SessionTypeOK(s)'
    BY <1>0, <2>1, <2>2, <2>4, Orders DEF SessionOK, SessionTypeOK, LoggedIn, Screens
  <2>6. SessionOK(s)'
    BY <1>0, <2>1, <2>2, <2>5, Orders DEF SessionOK, DoingOnItsScreen, FreshCopyIsRow,
       CopyGoodWhileForced, FreshListShowsRoles, GuardStillGood, LoggedIn
  <2> QED
    BY <1>3, <2>3, <2>6, OneSession DEF Refresh
<1>4. CASE RefreshFails(s)
  <2>1. /\ screen[s] \in {"password", "bio", "locale"} /\ doing'[s] = Nothing
        /\ fresh'[s] = FALSE /\ UNCHANGED <<users, acct, copy, forced, list, listFresh>>
    BY <1>0, <1>4 DEF RefreshFails, Do, Shape, OnSessions, SessionOK, DoingOnItsScreen
  <2>2. screen'[s] \in {"menu", "settings", "locale"}
    BY <1>0, <1>4, <2>1 DEF RefreshFails, GoTo, After, Shape, OnSessions
  <2>3. Alone(s)
    BY <1>0, <1>4 DEF RefreshFails, Do, GoTo, Alone, Shape, OnSessions
  <2>4. list[s] = NoList /\ LoggedIn(s) /\ LoggedIn(s)'
    BY <1>0, <2>1, <2>2 DEF SessionOK, SessionTypeOK, LoggedIn
  <2>5. SessionTypeOK(s)'
    BY <1>0, <2>1, <2>2, <2>4, Orders DEF SessionOK, SessionTypeOK, Screens
  <2>6. SessionOK(s)'
    BY <1>0, <2>1, <2>2, <2>4, <2>5, Orders DEF SessionOK, DoingOnItsScreen, FreshCopyIsRow,
       CopyGoodWhileForced, FreshListShowsRoles, GuardStillGood
  <2> QED
    BY <1>4, <2>3, <2>6, OneSession DEF RefreshFails
<1> QED
  BY <1>1, <1>2, <1>3, <1>4

-----------------------------------------------------------------------------
(* Steps that write the table.                                             *)

\* A new account: nobody has a copy of it, and the others keep their rows.
LEMMA RegisterAccInv ==
    ASSUME AccInv, NEW s \in Sessions, NEW u \in Names, NEW pw \in Passwords, Register(s, u, pw)
    PROVE  AccInv'
<1> DEFINE row == NewRow(pw, "user", FALSE)
           todo == [op |-> "SetLocale", user |-> u, role |-> "guest"]
<1>0. Shape /\ TableOK
  BY DEF AccInv
<1>1. /\ u \notin DOMAIN users /\ DOMAIN users' = DOMAIN users \cup {u}
      /\ users'[u] = row /\ \A v \in DOMAIN users : users'[v] = users[v]
      /\ users' = [v \in DOMAIN users' |-> users'[v]]
  BY DEF Register, Create
<1>2. users' \in [DOMAIN users' -> User]
  <2>1. row \in User
    BY NewRowIsRow DEF Roles
  <2>2. \A v \in DOMAIN users : users[v] \in User
    BY <1>0 DEF TableOK
  <2>3. \A v \in DOMAIN users' : users'[v] \in User
    BY <1>1, <2>1, <2>2
  <2> QED
    BY <1>1, <2>3
<1>3. TableOK'
  <2>1. writes' \in 0..MaxWrites
    BY <1>0, CountInBound DEF TableOK, Register
  <2>2. AdminUnlessRaced' /\ raced' = raced
    BY <1>0, <1>1 DEF TableOK, AdminUnlessRaced, Register, history
  <2>3. {"admin", "guest"} \subseteq DOMAIN users' /\ DOMAIN users' \subseteq Accounts
    BY <1>0, <1>1 DEF TableOK, Accounts
  <2> QED
    BY <1>0, <1>2, <2>1, <2>2, <2>3 DEF TableOK
<1>4. Shape'
  BY <1>0 DEF Register, Do, Shape, OnSessions, history
<1>5. ASSUME NEW d \in Sessions PROVE SessionOK(d)'
  <2>1. SessionOK(d)
    BY DEF AccInv
  <2>2. /\ UNCHANGED <<screen, acct, copy, forced, list, fresh, listFresh>>
        /\ doing'[d] = doing[d] \/ (d = s /\ doing'[d] = todo)
        /\ d = s => screen[d] = "register"
    BY <1>0 DEF Register, At, Do, history, Shape, OnSessions
  <2>a. todo \in Doing /\ todo.op = "SetLocale" /\ todo.user \in DOMAIN users'
    BY <1>1 DEF Doing, Accounts, Roles
  <2>3. users'[acct[d]] = users[acct[d]] /\ LoggedIn(d)' = LoggedIn(d)
    BY <1>1, <2>1, <2>2 DEF SessionOK, SessionTypeOK, LoggedIn
  <2> HIDE DEF todo
  <2>4. SessionTypeOK(d)'
    BY <1>0, <1>1, <2>1, <2>2, <2>3, <2>a DEF SessionOK, SessionTypeOK, TableOK
  <2>5. DoingOnItsScreen(d)'
    BY <2>1, <2>2, <2>a DEF SessionOK, DoingOnItsScreen
  <2>6. FreshCopyIsRow(d)' /\ CopyGoodWhileForced(d)'
    BY <2>1, <2>2, <2>3, <2>a DEF SessionOK, FreshCopyIsRow, CopyGoodWhileForced, LoggedIn
  <2>7. FreshListShowsRoles(d)' /\ GuardStillGood(d)'
    BY <1>1, <2>1, <2>2, <2>a DEF SessionOK, SessionTypeOK, FreshListShowsRoles, GuardStillGood, IsAdmin
  <2> QED
    BY <2>4, <2>5, <2>6, <2>7 DEF SessionOK
<1> QED
  BY <1>3, <1>4, <1>5 DEF AccInv

\* A new password takes the flag down, and the copies of the other windows of the
\* account are old from now on.  No role changes.
LEMMA PasswordAccInv ==
    ASSUME AccInv, NEW s \in Sessions, NEW pw \in Passwords, ChangePassword(s, pw)
    PROVE  AccInv'
<1> DEFINE u == acct[s]
<1>0. Shape /\ TableOK /\ SessionOK(s) /\ u \in DOMAIN users
  BY DEF AccInv, SessionOK, SessionTypeOK
<1>1. /\ DOMAIN users' = DOMAIN users /\ \A v \in DOMAIN users : v # u => users'[v] = users[v]
      /\ users' = [v \in DOMAIN users |-> users'[v]]
  BY <1>0 DEF ChangePassword, SetPassword
<1>2. users'[u].must = FALSE /\ users'[u].role = users[u].role /\ users'[u] \in User
  <2>1. users[u] \in User
    BY <1>0 DEF TableOK
  <2> QED
    BY <1>0, <2>1 DEF ChangePassword, SetPassword, User
<1>3. \A v \in DOMAIN users : users'[v].role = users[v].role
  BY <1>1, <1>2
<1>4. TableOK'
  <2>1. writes' \in 0..MaxWrites
    BY <1>0, CountInBound DEF TableOK, ChangePassword
  <2>2. AdminUnlessRaced' /\ raced' = raced
    BY <1>0, <1>1, <1>3 DEF TableOK, AdminUnlessRaced, ChangePassword
  <2>3. users' \in [DOMAIN users' -> User]
    BY <1>0, <1>1, <1>2 DEF TableOK
  <2> QED
    BY <1>0, <1>1, <2>1, <2>2, <2>3 DEF TableOK
<1>5. Shape'
  BY <1>0 DEF ChangePassword, Do, Touch, Shape, OnSessions
<1>6. ASSUME NEW d \in Sessions PROVE SessionOK(d)'
  <2>1. SessionOK(d)
    BY DEF AccInv
  <2>2. /\ UNCHANGED <<screen, acct, copy, forced, list, listFresh>>
        /\ doing'[d] = IF d = s THEN Then("GetByID") ELSE doing[d]
        /\ fresh'[d] = (fresh[d] /\ (acct[d] # u \/ d = s))
        /\ d = s => screen[d] = "password"
    BY <1>0 DEF ChangePassword, At, Do, Touch, Shape, OnSessions
  <2>3. LoggedIn(d)' = LoggedIn(d) /\ acct[d] \in DOMAIN users
    BY <2>1, <2>2 DEF SessionOK, SessionTypeOK, LoggedIn
  <2>4. SessionTypeOK(d)'
    <3>1. fresh'[d] \in BOOLEAN
      BY <2>2, Zenon
    <3> QED
      BY <1>0, <1>1, <2>1, <2>2, <2>3, <3>1, Orders DEF SessionOK, SessionTypeOK, TableOK
  <2>5. DoingOnItsScreen(d)'
    BY <2>1, <2>2, Orders DEF SessionOK, DoingOnItsScreen
  <2>6. FreshCopyIsRow(d)'
    BY <1>1, <2>1, <2>2, <2>3, Orders DEF SessionOK, FreshCopyIsRow
  <2>7. CopyGoodWhileForced(d)'
    BY <1>1, <1>2, <2>1, <2>2, <2>3 DEF SessionOK, CopyGoodWhileForced
  <2>8. FreshListShowsRoles(d)' /\ GuardStillGood(d)'
    BY <1>1, <1>3, <2>1, <2>2, Orders
       DEF SessionOK, SessionTypeOK, FreshListShowsRoles, GuardStillGood, IsAdmin
  <2> QED
    BY <2>4, <2>5, <2>6, <2>7, <2>8 DEF SessionOK
<1> QED
  BY <1>4, <1>5, <1>6 DEF AccInv

\* The texts of a row, the bio or the locale, are written: nothing is asked of them
\* but that the copies of others are old from now on.
LEMMA TextAccInv ==
    ASSUME AccInv, NEW s \in Sessions, NEW u \in DOMAIN users, NEW row \in User,
           row.pw = users[u].pw, row.role = users[u].role, row.must = users[u].must,
           NEW scr \in Screens, NEW todo \in {Then("GetByID"), Nothing},
           users' = [users EXCEPT ![u] = row], Count, Touch(s, u),
           screen' = [screen EXCEPT ![s] = scr], doing' = [doing EXCEPT ![s] = todo],
           UNCHANGED <<acct, copy, forced, list, listFresh, raced>>,
           \/ todo = Then("GetByID") /\ scr = screen[s] /\ scr \in {"bio", "locale"}
           \/ todo = Nothing /\ screen[s] = "register" /\ scr = "registered"
    PROVE  AccInv'
<1>0. Shape /\ TableOK
  BY DEF AccInv
<1>1. /\ DOMAIN users' = DOMAIN users /\ users' \in [DOMAIN users' -> User]
      /\ \A v \in DOMAIN users : v # u => users'[v] = users[v]
      /\ \A v \in DOMAIN users : users'[v].role = users[v].role /\ users'[v].pw = users[v].pw
                                 /\ users'[v].must = users[v].must
  BY <1>0 DEF TableOK
<1>2. TableOK'
  <2>1. writes' \in 0..MaxWrites
    BY <1>0, CountInBound DEF TableOK
  <2>2. AdminUnlessRaced' /\ raced' = raced
    BY <1>0, <1>1 DEF TableOK, AdminUnlessRaced
  <2> QED
    BY <1>0, <1>1, <2>1, <2>2 DEF TableOK
<1>3. Shape'
  BY <1>0 DEF Touch, Shape, OnSessions
<1>4. ASSUME NEW d \in Sessions PROVE SessionOK(d)'
  <2>1. SessionOK(d)
    BY DEF AccInv
  <2>2. /\ screen'[d] = IF d = s THEN scr ELSE screen[d]
        /\ doing'[d] = IF d = s THEN todo ELSE doing[d]
        /\ fresh'[d] = (fresh[d] /\ (acct[d] # u \/ d = s))
    BY <1>0 DEF Touch, Shape, OnSessions
  <2>3. (LoggedIn(d)' <=> LoggedIn(d)) /\ acct[d] \in DOMAIN users
    BY <2>1, <2>2 DEF SessionOK, SessionTypeOK, LoggedIn
  <2>4. SessionTypeOK(d)'
    <3>1. fresh'[d] \in BOOLEAN
      BY <2>2, Zenon
    <3>2. list[d] # NoList => screen'[d] = "admin"
      BY <2>1, <2>2 DEF SessionOK, SessionTypeOK
    <3> QED
      BY <1>0, <1>1, <2>1, <2>2, <2>3, <3>1, <3>2, Orders DEF SessionOK, SessionTypeOK, TableOK
  <2>5. DoingOnItsScreen(d)'
    BY <2>1, <2>2, Orders DEF SessionOK, DoingOnItsScreen
  <2>6. FreshCopyIsRow(d)'
    <3>1. CASE d # s
      <4>1. doing'[d] = doing[d] /\ copy' = copy /\ acct' = acct
        BY <1>0, <2>2, <3>1
      <4>2. ASSUME fresh'[d] PROVE fresh[d] /\ users'[acct[d]] = users[acct[d]]
        <5>1. fresh[d] /\ acct[d] # u
          BY <2>2, <3>1, <4>2, Zenon
        <5> QED
          BY <1>1, <2>3, <5>1
      <4>3. /\ fresh[d] => LoggedIn(d)
            /\ fresh[d] /\ doing[d].op # "GetByID" => copy[d] = users[acct[d]]
        BY <2>1 DEF SessionOK, FreshCopyIsRow
      <4>4. fresh'[d] => LoggedIn(d)'
        BY <2>3, <4>2, <4>3, Zenon
      <4>5. fresh'[d] /\ doing'[d].op # "GetByID" => copy'[d] = users'[acct'[d]]
        BY <4>1, <4>2, <4>3
      <4> QED
        BY <4>4, <4>5 DEF FreshCopyIsRow
    <3>2. CASE d = s /\ todo = Then("GetByID")
      BY <2>1, <2>2, <2>3, <3>2, Orders DEF SessionOK, FreshCopyIsRow
    <3>3. CASE d = s /\ screen[s] = "register"
      <4>1. ~fresh[s]
        BY <2>1, <3>3 DEF SessionOK, FreshCopyIsRow, LoggedIn
      <4> QED
        BY <2>2, <3>3, <4>1 DEF FreshCopyIsRow
    <3> QED
      BY <3>1, <3>2, <3>3
  <2>7. CopyGoodWhileForced(d)'
    BY <1>1, <2>1, <2>3 DEF SessionOK, CopyGoodWhileForced
  <2>8. FreshListShowsRoles(d)' /\ GuardStillGood(d)'
    BY <1>1, <2>1, <2>2, Orders
       DEF SessionOK, SessionTypeOK, FreshListShowsRoles, GuardStillGood, IsAdmin
  <2> QED
    BY <2>4, <2>5, <2>6, <2>7, <2>8 DEF SessionOK
<1> QED
  BY <1>2, <1>3, <1>4 DEF AccInv

\* The screens for bio and locale, and the second statement of Register.
LEMMA SaveAccInv ==
    ASSUME AccInv, NEW s \in Sessions,
           \/ \E bio \in Bios : SaveBio(s, bio)
           \/ \E locale \in Locales : SaveLocale(s, locale)
           \/ RegisterLocale(s)
    PROVE  AccInv'
<1>0. /\ SessionOK(s) /\ Shape /\ acct[s] \in DOMAIN users /\ doing[s].user \in DOMAIN users
      /\ \A u \in DOMAIN users : users[u] \in User
  BY DEF AccInv, TableOK, SessionOK, SessionTypeOK
<1>1. ASSUME NEW bio \in Bios, SaveBio(s, bio) PROVE AccInv'
  <2> DEFINE row == [users[acct[s]] EXCEPT !.bio = bio]
  <2>1. /\ row \in User /\ row.pw = users[acct[s]].pw /\ row.role = users[acct[s]].role
        /\ row.must = users[acct[s]].must
    BY <1>0 DEF User
  <2>2. /\ users' = [users EXCEPT ![acct[s]] = row] /\ Count /\ Touch(s, acct[s])
        /\ screen' = [screen EXCEPT ![s] = "bio"] /\ doing' = [doing EXCEPT ![s] = Then("GetByID")]
        /\ screen[s] = "bio" /\ UNCHANGED <<acct, copy, forced, list, listFresh, raced>>
    BY <1>0, <1>1 DEF SaveBio, SetBio, Do, At, Shape, OnSessions
  <2> HIDE DEF row
  <2> QED
    BY <1>0, <2>1, <2>2, TextAccInv DEF Screens
<1>2. ASSUME NEW locale \in Locales, SaveLocale(s, locale) PROVE AccInv'
  <2> DEFINE row == [users[acct[s]] EXCEPT !.locale = locale]
  <2>1. /\ row \in User /\ row.pw = users[acct[s]].pw /\ row.role = users[acct[s]].role
        /\ row.must = users[acct[s]].must
    BY <1>0 DEF User
  <2>2. /\ users' = [users EXCEPT ![acct[s]] = row] /\ Count /\ Touch(s, acct[s])
        /\ screen' = [screen EXCEPT ![s] = "locale"] /\ doing' = [doing EXCEPT ![s] = Then("GetByID")]
        /\ screen[s] = "locale" /\ UNCHANGED <<acct, copy, forced, list, listFresh, raced>>
    BY <1>0, <1>2 DEF SaveLocale, SetLocale, Do, At, Shape, OnSessions
  <2> HIDE DEF row
  <2> QED
    BY <1>0, <2>1, <2>2, TextAccInv DEF Screens
<1>3. CASE RegisterLocale(s)
  <2> DEFINE u == doing[s].user
             row == [users[u] EXCEPT !.locale = DefaultLocale]
  <2>1. /\ row \in User /\ row.pw = users[u].pw /\ row.role = users[u].role
        /\ row.must = users[u].must
    BY <1>0, AccountsAssumption DEF User
  <2>2. /\ users' = [users EXCEPT ![u] = row] /\ Count /\ Touch(s, u)
        /\ screen' = [screen EXCEPT ![s] = "registered"] /\ doing' = [doing EXCEPT ![s] = Nothing]
        /\ screen[s] = "register" /\ UNCHANGED <<acct, copy, forced, list, listFresh, raced>>
    BY <1>0, <1>3 DEF RegisterLocale, SetLocale, Do, GoTo, SessionOK, DoingOnItsScreen
  <2> HIDE DEF row
  <2> QED
    BY <1>0, <2>1, <2>2, TextAccInv DEF Screens
<1> QED
  BY <1>1, <1>2, <1>3

\* A new role: it leaves an admin, or comes from a list that was old; every list
\* is old afterwards.
LEMMA RoleAccInv == ASSUME AccInv, NEW s \in Sessions, DoSetRole(s) PROVE AccInv'
<1> DEFINE u == doing[s].user
<1>0. Shape /\ TableOK /\ SessionOK(s) /\ u \in DOMAIN users /\ doing[s] \in Doing /\ doing[s].role \in Roles
  BY DEF AccInv, SessionOK, SessionTypeOK, Doing
<1>1. /\ DOMAIN users' = DOMAIN users /\ \A v \in DOMAIN users : v # u => users'[v] = users[v]
      /\ users' = [v \in DOMAIN users |-> users'[v]]
  BY <1>0 DEF DoSetRole, SetRole
<1>2. users'[u].must = users[u].must /\ users'[u].pw = users[u].pw /\ users'[u] \in User
  <2>1. users[u] \in User
    BY <1>0 DEF TableOK
  <2> QED
    BY <1>0, <2>1 DEF DoSetRole, SetRole, User
<1>3. TableOK'
  <2>1. writes' \in 0..MaxWrites
    BY <1>0, CountInBound DEF TableOK, DoSetRole
  <2>2. raced' \in BOOLEAN /\ (raced' <=> raced \/ ~listFresh[s])
    BY Zenon DEF DoSetRole
  <2>3. AdminUnlessRaced'
    <3>1. SUFFICES ASSUME ~raced, listFresh[s]
                   PROVE  \E v \in DOMAIN users' : users'[v].role = "admin"
      BY <2>2 DEF AdminUnlessRaced
    <3>2. PICK v \in DOMAIN users : IsAdmin(v)
      BY <1>0, <3>1 DEF TableOK, AdminUnlessRaced, IsAdmin
    <3>3. CASE v # u
      BY <1>1, <3>2, <3>3 DEF IsAdmin
    <3>4. CASE v = u
      BY <1>0, <1>1, <3>1, <3>2, <3>4 DEF DoSetRole, SessionOK, GuardStillGood, IsAdmin
    <3> QED
      BY <3>3, <3>4
  <2>4. users' \in [DOMAIN users' -> User]
    BY <1>0, <1>1, <1>2 DEF TableOK
  <2> QED
    BY <1>0, <1>1, <2>1, <2>2, <2>3, <2>4 DEF TableOK
<1>4. Shape'
  BY <1>0 DEF DoSetRole, Do, Shape, OnSessions
<1>5. ASSUME NEW d \in Sessions PROVE SessionOK(d)'
  <2>1. SessionOK(d)
    BY DEF AccInv
  <2>2. /\ UNCHANGED <<screen, acct, copy, forced, list>>
        /\ doing'[d] = IF d = s THEN Then("reload") ELSE doing[d]
        /\ fresh'[d] = (fresh[d] /\ acct[d] # u)
        /\ listFresh'[d] = FALSE
        /\ doing[s].op = "SetRole"
    BY <1>0 DEF DoSetRole, At, Do, Shape, OnSessions
  <2>3. LoggedIn(d)' = LoggedIn(d) /\ acct[d] \in DOMAIN users
    BY <2>1, <2>2 DEF SessionOK, SessionTypeOK, LoggedIn
  <2>4. SessionTypeOK(d)'
    <3>1. fresh'[d] \in BOOLEAN
      BY <2>2, Zenon
    <3> QED
      BY <1>0, <1>1, <2>1, <2>2, <2>3, <3>1, Orders DEF SessionOK, SessionTypeOK, TableOK
  <2>5. DoingOnItsScreen(d)'
    BY <2>1, <2>2, Orders DEF SessionOK, DoingOnItsScreen
  <2>6. FreshCopyIsRow(d)'
    BY <1>1, <2>1, <2>2, <2>3, Orders DEF SessionOK, FreshCopyIsRow
  <2>7. CopyGoodWhileForced(d)'
    BY <1>1, <1>2, <2>1, <2>2, <2>3 DEF SessionOK, CopyGoodWhileForced
  <2>8. FreshListShowsRoles(d)' /\ GuardStillGood(d)'
    BY <2>2 DEF FreshListShowsRoles, GuardStillGood
  <2> QED
    BY <2>4, <2>5, <2>6, <2>7, <2>8 DEF SessionOK
<1> QED
  BY <1>3, <1>4, <1>5 DEF AccInv

\* Every step keeps the inductive invariant.
LEMMA NextAccInv == AccInv /\ [Next]_vars => AccInv'
<1> SUFFICES ASSUME AccInv, [Next]_vars
             PROVE  AccInv'
  OBVIOUS
<1>1. ASSUME NEW s \in Sessions, Login(s) PROVE AccInv'
  BY <1>1, LoginAccInv
<1>2. ASSUME NEW s \in Sessions, Keys(s) PROVE AccInv'
  BY <1>2, KeysAccInv, QuitAccInv, LeaveAdminAccInv, PasswordAccInv, RegisterAccInv, SaveAccInv DEF Keys
<1>3. ASSUME NEW s \in Sessions, Update(s) PROVE AccInv'
  BY <1>3, UpdateAccInv, RoleAccInv, SaveAccInv DEF Update
<1>4. CASE UNCHANGED vars
  BY <1>4 DEF vars, sessionVars, history, AccInv, TableOK, AdminUnlessRaced, Shape, OnSessions,
     SessionOK, SessionTypeOK, DoingOnItsScreen, FreshCopyIsRow, CopyGoodWhileForced,
     FreshListShowsRoles, GuardStillGood, IsAdmin, LoggedIn
<1> QED
  BY <1>1, <1>2, <1>3, <1>4 DEF Next

\* The inductive invariant holds throughout.
LEMMA AccInvAlways == Spec => []AccInv
BY InitAccInv, NextAccInv, PTL DEF Spec

\* A step changes what the locale screen of at most one session shows.
LEMMA CurrentSteps ==
    ASSUME AccInv, CurrentOK, Next
    PROVE  CurrentOK'
<1> USE DEF CurrentOK
<1>0. DefaultLocale \in Locales
  BY AccountsAssumption
<1>1. ASSUME NEW s \in Sessions, NEW locale \in Locales, current' = [current EXCEPT ![s] = locale]
      PROVE  CurrentOK'
  BY <1>1
<1>2. PICK s \in Sessions : Login(s) \/ Keys(s) \/ Update(s)
  BY DEF Next
<1>3. CASE Login(s)
  BY <1>3 DEF Login, PasswordAuth, GuestAuth, StartSession, StartRegister
<1>4. CASE Update(s)
  BY <1>4 DEF Update, RegisterLocale, RegisterLocaleFails, Reload, Refresh, RefreshFails, DoSetRole
<1>5. CASE Keys(s)
  <2>1. ASSUME NEW from, NEW to, Move(s, from, to) PROVE CurrentOK'
    BY <1>0, <1>1, <2>1 DEF Move
  <2>2. CASE ToWrite(s) \/ ToSettings(s) \/ FromSettings(s) \/ Back(s) \/ CtrlU(s)
    BY <2>1, <2>2 DEF ToWrite, ToSettings, FromSettings, Back, EscWrite, EscBio,
       EscLocale, EscPassword, CtrlU
  <2>3. CASE OpenLocale(s)
    <3>1. copy[s] \in User
      BY <2>3 DEF OpenLocale, At, AccInv, SessionOK, SessionTypeOK, LoggedIn
    <3> QED
      BY <1>1, <2>3, <3>1 DEF OpenLocale, User
  <2>4. CASE Quit(s)
    BY <1>0, <1>1, <2>4 DEF Quit, Gone
  <2>5. CASE \E locale \in Locales : SaveLocale(s, locale)
    BY <1>1, <2>5 DEF SaveLocale
  <2>6. CASE \/ OpenAdmin(s) \/ TurnPage(s) \/ LeaveAdmin(s)
             \/ \E bio \in Bios : SaveBio(s, bio)
             \/ \E pw \in Passwords : ChangePassword(s, pw)
             \/ \E u \in Accounts, role \in Roles : ApplyRole(s, u, role)
             \/ \E u \in Names, pw \in Passwords : Register(s, u, pw)
    BY <2>6 DEF OpenAdmin, TurnPage, LeaveAdmin, SaveBio, ChangePassword, ApplyRole, Register
  <2> QED
    BY <1>5, <2>2, <2>3, <2>4, <2>5, <2>6 DEF Keys
<1> QED
  BY <1>2, <1>3, <1>4, <1>5

-----------------------------------------------------------------------------
(* The theorems.                                                           *)

\* The type invariant: a session has a row's copy from its first screen to its
\* last, and a list of users only on the admin screen.
THEOREM AccountsTypeOK == Spec => []TypeOK
<1>1. Init => CurrentOK
  BY AccountsAssumption DEF Init, CurrentOK
<1>2. AccInv /\ CurrentOK /\ [Next]_vars => CurrentOK'
  <2>1. UNCHANGED vars /\ CurrentOK => CurrentOK'
    BY DEF vars, sessionVars, CurrentOK
  <2> QED
    BY <2>1, CurrentSteps
<1> QED
  BY <1>1, <1>2, AccInvAlways, AccInvType, PTL DEF Spec

\* The last-admin guard of applyRole holds, for any number of admins at work, as
\* long as no role is written from a list another session has made old.
THEOREM AnAdminRemains == Spec => []AdminUnlessRaced
<1>1. AccInv => AdminUnlessRaced
  BY DEF AccInv, TableOK
<1> QED
  BY <1>1, AccInvAlways, PTL

\* Between two Updates deps.User is the row of the table, unless someone else (or
\* an admin) wrote it since it was read, or it could not be read again.
THEOREM OwnWritesAreSeen == Spec => []CopyFollowsOwnWrites
<1>1. AccInv => CopyFollowsOwnWrites
  BY Orders DEF AccInv, SessionOK, FreshCopyIsRow, CopyFollowsOwnWrites, Idle
<1> QED
  BY <1>1, AccInvAlways, PTL

\* A step that may change a password is a new account or a change by its owner.
LEMMA PasswordSteps ==
    ASSUME AccInv, Next, NEW u \in DOMAIN users, users'[u] # users[u]
    PROVE  \/ \E s \in Sessions, pw \in Passwords : ChangePassword(s, pw) /\ acct[s] = u
           \/ users'[u].pw = users[u].pw /\ users'[u].must = users[u].must
<1>1. PICK s \in Sessions : Login(s) \/ Keys(s) \/ Update(s)
  BY DEF Next
<1>2. ASSUME NEW w \in Names, NEW pw \in Passwords, Register(s, w, pw) PROVE FALSE
  BY <1>2 DEF Register, Create
<1>3. ASSUME NEW pw \in Passwords, ChangePassword(s, pw) PROVE acct[s] = u
  BY <1>3 DEF ChangePassword, SetPassword
<1>4. ASSUME DoSetRole(s) PROVE users'[u].pw = users[u].pw /\ users'[u].must = users[u].must
  <2>1. users[u] \in User
    BY DEF AccInv, TableOK
  <2> QED
    BY <1>4, <2>1 DEF DoSetRole, SetRole, User
<1>5. CASE Login(s)
  BY <1>5 DEF Login, PasswordAuth, GuestAuth, StartSession, StartRegister
<1>8. ASSUME \/ \E bio \in Bios : SaveBio(s, bio)
             \/ \E locale \in Locales : SaveLocale(s, locale)
             \/ RegisterLocale(s)
      PROVE  users'[u].pw = users[u].pw /\ users'[u].must = users[u].must
  <2>1. users[u] \in User
    BY DEF AccInv, TableOK
  <2>2. ASSUME NEW v \in DOMAIN users, NEW bio \in Bios, SetBio(v, bio)
        PROVE  users'[u].pw = users[u].pw /\ users'[u].must = users[u].must
    BY <2>1, <2>2 DEF SetBio, User
  <2>3. ASSUME NEW v \in DOMAIN users, NEW locale \in Locales, SetLocale(v, locale)
        PROVE  users'[u].pw = users[u].pw /\ users'[u].must = users[u].must
    BY <2>1, <2>3 DEF SetLocale, User
  <2>4. acct[s] \in DOMAIN users /\ doing[s].user \in DOMAIN users /\ DefaultLocale \in Locales
    BY AccountsAssumption DEF AccInv, SessionOK, SessionTypeOK
  <2> QED
    BY <1>8, <2>2, <2>3, <2>4 DEF SaveBio, SaveLocale, RegisterLocale
<1>6. CASE Update(s)
  BY <1>4, <1>6, <1>8 DEF Update, RegisterLocaleFails, Reload, Refresh, RefreshFails
<1>7. CASE Keys(s)
  <2>1. \A from, to : Move(s, from, to) => users' = users
    BY DEF Move
  <2>2. ToWrite(s) \/ ToSettings(s) \/ FromSettings(s) \/ Back(s) \/ CtrlU(s) => users' = users
    BY <2>1 DEF ToWrite, ToSettings, FromSettings, Back, EscWrite, EscBio,
     EscLocale, EscPassword, CtrlU
  <2>3. \/ Quit(s) \/ OpenLocale(s) \/ OpenAdmin(s) \/ TurnPage(s) \/ LeaveAdmin(s)
        \/ \E v \in Accounts, role \in Roles : ApplyRole(s, v, role)
        => users' = users
    BY DEF Quit, Gone, OpenLocale, OpenAdmin, TurnPage, LeaveAdmin, ApplyRole
  <2> QED
    BY <1>2, <1>3, <1>7, <1>8, <2>2, <2>3 DEF Keys
<1> QED
  BY <1>1, <1>5, <1>6, <1>7

\* must_change_password goes down only with another password in the table, although
\* submit compares the new password with a copy of the row.
THEOREM ForcedChangeChanges == Spec => RotationRotates
<1> DEFINE A == \A u \in DOMAIN users : users[u].must /\ ~users'[u].must => users'[u].pw # users[u].pw
<1>1. AccInv /\ [Next]_vars => [A]_vars
  <2> SUFFICES ASSUME AccInv, Next, NEW u \in DOMAIN users, users[u].must, ~users'[u].must
               PROVE  users'[u].pw # users[u].pw
    OBVIOUS
  <2>1. PICK s \in Sessions, pw \in Passwords : ChangePassword(s, pw) /\ acct[s] = u
    BY PasswordSteps
  <2>2. copy[s].pw = users[u].pw
    BY <2>1 DEF AccInv, SessionOK, CopyGoodWhileForced, ChangePassword, At, LoggedIn
  <2>3. users'[u].pw = pw
    <3>1. users[u] \in User
      BY DEF AccInv, TableOK
    <3> QED
      BY <2>1, <3>1 DEF ChangePassword, SetPassword, User
  <2> QED
    BY <2>1, <2>2, <2>3 DEF ChangePassword
<1> QED
  BY <1>1, AccInvAlways, PTL DEF Spec, RotationRotates

\* Nobody's password changes but by a session of the account.
THEOREM OwnersSetPasswords == Spec => PasswordsSetByTheirOwner
<1> DEFINE A == \A u \in DOMAIN users : users'[u].pw # users[u].pw
                   => \E s \in Sessions : acct[s] = u /\ LoggedIn(s)
<1>1. AccInv /\ [Next]_vars => [A]_vars
  <2> SUFFICES ASSUME AccInv, Next, NEW u \in DOMAIN users, users'[u].pw # users[u].pw
               PROVE  \E s \in Sessions : acct[s] = u /\ LoggedIn(s)
    OBVIOUS
  <2>1. PICK s \in Sessions, pw \in Passwords : ChangePassword(s, pw) /\ acct[s] = u
    BY PasswordSteps
  <2> QED
    BY <2>1 DEF ChangePassword, At, LoggedIn
<1> QED
  BY <1>1, AccInvAlways, PTL DEF Spec, PasswordsSetByTheirOwner

=============================================================================
