------------------------------ MODULE Accounts ------------------------------
(***************************************************************************)
(* Accounts and what sessions keep of them: logging in (auth_middleware.go *)
(* and the program handler), registration, the forced and the voluntary    *)
(* change of the password, the settings screens that write the user's row, *)
(* the admin's list of users, and the gates of Root.navigate.              *)
(*                                                                         *)
(* A session works on deps.User, a copy of its row that is read again only *)
(* after its own writes, and on deps.MustChangePassword, which is set once *)
(* and for all when it starts.  Every statement on the table is a step: an *)
(* Update that writes and then reads is two, and the steps of other        *)
(* sessions fall in between.  A key and the NavigateMsg it causes are one. *)
(*                                                                         *)
(* A row is its password, role, must_change_password, bio and locale.  A   *)
(* statement that fails and has changed nothing only puts an error on the  *)
(* screen, and is no step.                                                 *)
(***************************************************************************)
EXTENDS Naturals, FiniteSets

CONSTANTS
    Sessions,
    Names,          \* user ids that can be registered
    Passwords,
    DefaultAdminPassword,
    Bios,
    Locales,
    DefaultLocale,  \* i18n.Default, of the server; that of the column is zh-TW
    NoUser,         \* deps.User == nil
    MaxWrites       \* bound: accounts created, roles, passwords and texts set

Accounts == {"admin", "guest"} \cup Names

ASSUME AccountsAssumption ==
    /\ {"admin", "guest", "new"} \cap Names = {}      \* IsReservedUsername
    /\ DefaultAdminPassword \in Passwords
    /\ "!" \notin Passwords                           \* GuestPasswordSentinel
    /\ "" \in Bios /\ {DefaultLocale, "zh-TW"} \subseteq Locales
    /\ NoUser \notin [pw : Passwords \cup {"!"}, role : {"guest", "user", "mod", "admin"},
                      must : BOOLEAN, bio : Bios, locale : Locales]
    /\ MaxWrites \in Nat

VARIABLES
    users,      \* the table: user id |-> row
    screen,     \* where each session is
    acct,       \* its user id, once it is authenticated
    copy,       \* deps.User
    forced,     \* deps.MustChangePassword
    current,    \* what its locale screen takes for the saved locale; DefaultLocale elsewhere
    list,       \* the roles its admin screen shows
    doing,      \* what its Update has still to do
    writes,     \* counts up to MaxWrites
    fresh,      \* history: the copy was read when it should, and no other wrote the row since
    listFresh,  \* history: nobody else set a role since the list was read
    raced       \* history: a role was set from a list that was not fresh

sessionVars == <<screen, acct, copy, forced, current, list, doing>>
history     == <<fresh, listFresh, raced>>
vars == <<users, sessionVars, writes, history>>

Roles   == {"guest", "user", "mod", "admin"}
User    == [pw : Passwords \cup {"!"}, role : Roles, must : BOOLEAN, bio : Bios, locale : Locales]
Screens == {"off", "auth", "register", "registered", "menu", "write", "settings",
            "bio", "locale", "password", "admin"}
Doing   == [op : {"nothing", "GetByID", "SetRole", "reload", "SetLocale"}, user : Accounts, role : Roles]

Nothing == [op |-> "nothing", user |-> "guest", role |-> "guest"]
NoList  == [u \in {} |-> "guest"]

Idle(s)    == doing[s] = Nothing
At(s, scr) == screen[s] = scr /\ Idle(s)

\* A row as it is inserted: the defaults of the columns for the rest.
NewRow(pw, role, must) == [pw |-> pw, role |-> role, must |-> must, bio |-> "", locale |-> "zh-TW"]

\* The table of a new installation: seedAdmin and seedGuest.
SeedSystemAccounts ==
    users = [u \in {"admin", "guest"} |->
                IF u = "admin" THEN NewRow(DefaultAdminPassword, "admin", TRUE)
                               ELSE NewRow("!", "guest", FALSE)]

Init ==
    /\ SeedSystemAccounts
    /\ screen = [s \in Sessions |-> "off"]
    /\ acct = [s \in Sessions |-> "guest"]
    /\ copy = [s \in Sessions |-> NoUser]
    /\ forced = [s \in Sessions |-> FALSE]
    /\ current = [s \in Sessions |-> DefaultLocale]
    /\ list = [s \in Sessions |-> NoList]
    /\ doing = [s \in Sessions |-> Nothing]
    /\ writes = 0
    /\ fresh = [s \in Sessions |-> FALSE]
    /\ listFresh = [s \in Sessions |-> FALSE]
    /\ raced = FALSE

-----------------------------------------------------------------------------
(* UserRepo.  Each call is one statement.                                  *)

GoTo(s, scr) == screen' = [screen EXCEPT ![s] = scr]
Do(s, todo)  == doing' = [doing EXCEPT ![s] = todo]

Then(op) == [op |-> op, user |-> "guest", role |-> "guest"]

Count == writes < MaxWrites /\ writes' = writes + 1

\* Session s writes the row of u: what others hold of it is old.
Touch(s, u) == fresh' = [d \in Sessions |-> fresh[d] /\ (acct[d] # u \/ d = s)]

CountByRole(role) == Cardinality({u \in DOMAIN users : users[u].role = role})

\* Mutant: an existing row is replaced.
CreateUpsert(u, pw) ==
    users' = [v \in DOMAIN users \cup {u} |->
                 IF v = u THEN NewRow(pw, "user", FALSE) ELSE users[v]]

\* The UNIQUE constraint on user_id.
Create(u, pw) ==
    /\ u \notin DOMAIN users
    /\ users' = [v \in DOMAIN users \cup {u} |->
                    IF v = u THEN NewRow(pw, "user", FALSE) ELSE users[v]]

\* One statement sets the hash and clears the flag.
SetPassword(u, pw) == users' = [users EXCEPT ![u].pw = pw, ![u].must = FALSE]

SetBio(u, bio) == users' = [users EXCEPT ![u].bio = bio]

SetLocale(u, locale) == users' = [users EXCEPT ![u].locale = locale]

SetRole(u, role) == users' = [users EXCEPT ![u].role = role]

ListAll == [u \in DOMAIN users |-> users[u].role]

-----------------------------------------------------------------------------
(* Logging in and out.                                                     *)

\* An admin that still has to change its password is let in from loopback only.
MustChangePasswordRemoteBlocked(u, loopback) ==
    users[u].role = "admin" /\ users[u].must /\ ~loopback

VerifyLogin(u, pw) == u \in DOMAIN users /\ users[u].pw = pw

\* PasswordAuth for an account: VerifyLogin, then the check of the host.
PasswordAuth(s, u, pw, loopback) ==
    /\ screen[s] = "off" /\ u # "guest"
    /\ VerifyLogin(u, pw) /\ ~MustChangePasswordRemoteBlocked(u, loopback)
    /\ GoTo(s, "auth")
    /\ acct' = [acct EXCEPT ![s] = u]
    /\ UNCHANGED <<users, copy, forced, current, list, doing, writes, history>>

\* ssh guest@, with any password or none.
GuestAuth(s) ==
    /\ screen[s] = "off" /\ "guest" \in DOMAIN users /\ users["guest"].role = "guest"
    /\ GoTo(s, "auth")
    /\ acct' = [acct EXCEPT ![s] = "guest"]
    /\ UNCHANGED <<users, copy, forced, current, list, doing, writes, history>>

\* makeProgramHandler and NewRoot: the row is read again.
StartSession(s) ==
    /\ screen[s] = "auth"
    /\ LET row == users[acct[s]]
       IN  /\ copy' = [copy EXCEPT ![s] = row]
           /\ forced' = [forced EXCEPT ![s] = row.must]
           /\ GoTo(s, IF row.must THEN "password" ELSE "menu")
    /\ fresh' = [fresh EXCEPT ![s] = TRUE]
    /\ UNCHANGED <<users, acct, current, list, doing, writes, listFresh, raced>>

\* ssh new@: the register form, without an account.
StartRegister(s) ==
    /\ screen[s] = "off"
    /\ GoTo(s, "register")
    /\ UNCHANGED <<users, acct, copy, forced, current, list, doing, writes, history>>

Gone(s) ==
    /\ GoTo(s, "off")
    /\ acct' = [acct EXCEPT ![s] = "guest"]
    /\ copy' = [copy EXCEPT ![s] = NoUser]
    /\ forced' = [forced EXCEPT ![s] = FALSE]
    /\ current' = [current EXCEPT ![s] = DefaultLocale]
    /\ list' = [list EXCEPT ![s] = NoList]
    /\ fresh' = [fresh EXCEPT ![s] = FALSE]
    /\ listFresh' = [listFresh EXCEPT ![s] = FALSE]
    /\ UNCHANGED <<users, doing, writes, raced>>

\* Ctrl+C, q on the main menu, Esc on the register form or the forced change of
\* the password, any key after registering, or the connection is lost.
Quit(s) == screen[s] # "off" /\ Idle(s) /\ Gone(s)

-----------------------------------------------------------------------------
(* Registering.                                                            *)

\* Register up to Create; a name that exists leaves the form open.
Register(s, u, pw) ==
    /\ At(s, "register") /\ Count
    /\ Create(u, pw)
    /\ Do(s, [op |-> "SetLocale", user |-> u, role |-> "guest"])
    /\ UNCHANGED <<screen, acct, copy, forced, current, list, history>>

\* The second statement.  Somebody may have logged in to the account already.
RegisterLocale(s) ==
    /\ doing[s].op = "SetLocale" /\ Count
    /\ SetLocale(doing[s].user, DefaultLocale)
    /\ Touch(s, doing[s].user)
    /\ Do(s, Nothing)
    /\ GoTo(s, "registered")
    /\ UNCHANGED <<acct, copy, forced, current, list, listFresh, raced>>

\* It fails: the form shows the error, but the account is there.
RegisterLocaleFails(s) ==
    /\ doing[s].op = "SetLocale"
    /\ Do(s, Nothing)
    /\ UNCHANGED <<users, screen, acct, copy, forced, current, list, writes, history>>

-----------------------------------------------------------------------------
(* Moving about.  "menu" stands for the main menu and the screens that only *)
(* read, "write" for the forms a guest is kept from (guestWriteBlocked).    *)

Move(s, from, to) ==
    /\ At(s, from)
    /\ GoTo(s, to)
    /\ current' = [current EXCEPT ![s] = DefaultLocale]
    /\ UNCHANGED <<users, acct, copy, forced, list, doing, writes, history>>

\* The gates look at the copy.
ToWrite(s) == At(s, "menu") /\ copy[s].role # "guest" /\ Move(s, "menu", "write")

ToSettings(s) == Move(s, "menu", "settings")

FromSettings(s) == \E to \in {"menu", "password", "bio"} : Move(s, "settings", to)

\* newLocaleSettingsModel: the locale of the copy.
OpenLocale(s) ==
    /\ At(s, "settings")
    /\ GoTo(s, "locale")
    /\ current' = [current EXCEPT ![s] = copy[s].locale]
    /\ UNCHANGED <<users, acct, copy, forced, list, doing, writes, history>>

\* Esc, and Q of the locale screen.
EscWrite(s)  == Move(s, "write", "menu")
EscBio(s)    == Move(s, "bio", "settings")
EscLocale(s) == \E to \in {"settings", "menu"} : Move(s, "locale", to)

\* With deps.MustChangePassword Esc leaves the session (Quit), and that stays set
\* after the password was changed.
EscPassword(s) == ~forced[s] /\ Move(s, "password", "settings")

Back(s) == EscWrite(s) \/ EscBio(s) \/ EscLocale(s) \/ EscPassword(s)

\* Ctrl+U: the inbox of water balloons, from any screen.
CtrlU(s) == \E scr \in {"write", "settings", "bio", "locale", "password"} : Move(s, scr, "menu")

\* newAdminUsersModel; the admin screen again when a page is turned.
OpenAdmin(s) ==
    /\ At(s, "menu") /\ copy[s].role = "admin"
    /\ GoTo(s, "admin")
    /\ Do(s, Then("reload"))
    /\ UNCHANGED <<users, acct, copy, forced, current, list, writes, history>>

TurnPage(s) ==
    /\ At(s, "admin")
    /\ Do(s, Then("reload"))
    /\ UNCHANGED <<users, screen, acct, copy, forced, current, list, writes, history>>

LeaveAdmin(s) ==
    /\ At(s, "admin")
    /\ GoTo(s, "menu")
    /\ list' = [list EXCEPT ![s] = NoList]
    /\ listFresh' = [listFresh EXCEPT ![s] = FALSE]
    /\ UNCHANGED <<users, acct, copy, forced, current, doing, writes, fresh, raced>>

Reload(s) ==
    /\ doing[s].op = "reload"
    /\ list' = [list EXCEPT ![s] = ListAll]
    /\ listFresh' = [listFresh EXCEPT ![s] = TRUE]
    /\ Do(s, Nothing)
    /\ UNCHANGED <<users, screen, acct, copy, forced, current, writes, fresh, raced>>

-----------------------------------------------------------------------------
(* Writing the own row, then reading it again.                             *)

\* Some password fits the hash of the copy; none fits the guest's "!".
VerifyPasswordHash(s) == copy[s].pw \in Passwords

\* Mutant: the new password may be the current one.
ChangePasswordSame(s, pw) ==
    /\ At(s, "password") /\ VerifyPasswordHash(s) /\ Count
    /\ SetPassword(acct[s], pw)
    /\ Touch(s, acct[s])
    /\ Do(s, Then("GetByID"))
    /\ UNCHANGED <<screen, acct, copy, forced, current, list, listFresh, raced>>

\* submit of the password screen: the current password typed in is the one of
\* the copy, the new one is another.
ChangePassword(s, pw) ==
    /\ At(s, "password") /\ VerifyPasswordHash(s) /\ pw # copy[s].pw /\ Count
    /\ SetPassword(acct[s], pw)
    /\ Touch(s, acct[s])
    /\ Do(s, Then("GetByID"))
    /\ UNCHANGED <<screen, acct, copy, forced, current, list, listFresh, raced>>

SaveBio(s, bio) ==
    /\ At(s, "bio") /\ Count
    /\ SetBio(acct[s], bio)
    /\ Touch(s, acct[s])
    /\ Do(s, Then("GetByID"))
    /\ UNCHANGED <<screen, acct, copy, forced, current, list, listFresh, raced>>

\* Nothing is written when the locale selected is the one saved last, or found in
\* the copy when the screen was opened.
SaveLocale(s, locale) ==
    /\ At(s, "locale") /\ locale # current[s] /\ Count
    /\ SetLocale(acct[s], locale)
    /\ Touch(s, acct[s])
    /\ current' = [current EXCEPT ![s] = locale]
    /\ Do(s, Then("GetByID"))
    /\ UNCHANGED <<screen, acct, copy, forced, list, listFresh, raced>>

After(s) ==
    CASE screen[s] = "password" -> IF forced[s] THEN "menu" ELSE "settings"
      [] screen[s] = "bio"      -> "settings"
      [] OTHER                  -> screen[s]

\* Mutant: the copy keeps what the session started with.
RefreshNothing(s) ==
    /\ doing[s].op = "GetByID"
    /\ Do(s, Nothing)
    /\ GoTo(s, After(s))
    /\ fresh' = [fresh EXCEPT ![s] = TRUE]
    /\ UNCHANGED <<users, acct, copy, forced, current, list, writes, listFresh, raced>>

\* *m.deps.User = *fresh: the role an admin gave meanwhile comes along.
Refresh(s) ==
    /\ doing[s].op = "GetByID"
    /\ copy' = [copy EXCEPT ![s] = users[acct[s]]]
    /\ Do(s, Nothing)
    /\ GoTo(s, After(s))
    /\ fresh' = [fresh EXCEPT ![s] = TRUE]
    /\ UNCHANGED <<users, acct, forced, current, list, writes, listFresh, raced>>

\* GetByID fails, and nobody is told: the copy is what it was.
RefreshFails(s) ==
    /\ doing[s].op = "GetByID"
    /\ Do(s, Nothing)
    /\ GoTo(s, After(s))
    /\ fresh' = [fresh EXCEPT ![s] = FALSE]
    /\ UNCHANGED <<users, acct, copy, forced, current, list, writes, listFresh, raced>>

-----------------------------------------------------------------------------
(* applyRole.                                                              *)

\* Mutant: the guard counts the admin it is about to demote as another one.
CanDemoteOffByOne == CountByRole("admin") >= 1

\* The last-admin guard.
CanDemote == CountByRole("admin") > 1

\* The guard is asked when the list shows an admin that is to become another.
ApplyRole(s, u, role) ==
    /\ At(s, "admin") /\ u \in DOMAIN list[s] /\ list[s][u] # role
    /\ list[s][u] = "admin" => CanDemote
    /\ Do(s, [op |-> "SetRole", user |-> u, role |-> role])
    /\ UNCHANGED <<users, screen, acct, copy, forced, current, list, writes, history>>

\* The write comes after the question, as a statement of its own.
DoSetRole(s) ==
    /\ doing[s].op = "SetRole" /\ Count
    /\ SetRole(doing[s].user, doing[s].role)
    /\ fresh' = [d \in Sessions |-> fresh[d] /\ acct[d] # doing[s].user]
    /\ raced' = (raced \/ ~listFresh[s])
    /\ listFresh' = [d \in Sessions |-> FALSE]
    /\ Do(s, Then("reload"))
    /\ UNCHANGED <<screen, acct, copy, forced, current, list>>

-----------------------------------------------------------------------------

Update(s) ==
    \/ RegisterLocale(s) \/ RegisterLocaleFails(s)
    \/ Reload(s) \/ Refresh(s) \/ RefreshFails(s) \/ DoSetRole(s)

Keys(s) ==
    \/ ToWrite(s) \/ ToSettings(s) \/ FromSettings(s) \/ OpenLocale(s) \/ Back(s) \/ CtrlU(s) \/ Quit(s)
    \/ OpenAdmin(s) \/ TurnPage(s) \/ LeaveAdmin(s)
    \/ \E bio \in Bios : SaveBio(s, bio)
    \/ \E locale \in Locales : SaveLocale(s, locale)
    \/ \E pw \in Passwords : ChangePassword(s, pw)
    \/ \E u \in Accounts, role \in Roles : ApplyRole(s, u, role)
    \/ \E u \in Names, pw \in Passwords : Register(s, u, pw)

Login(s) ==
    \/ \E u \in Accounts, pw \in Passwords, loopback \in BOOLEAN : PasswordAuth(s, u, pw, loopback)
    \/ GuestAuth(s) \/ StartRegister(s) \/ StartSession(s)

Next == \E s \in Sessions : Login(s) \/ Keys(s) \/ Update(s)

Spec == Init /\ [][Next]_vars

-----------------------------------------------------------------------------
(* Properties.                                                             *)

LoggedIn(s) == screen[s] \notin {"off", "auth", "register", "registered"}

\* Every variable holds a value of its type; a session has a copy of a row of the
\* table from its first screen to its last, and a list only on the admin screen.
TypeOK ==
    /\ {"admin", "guest"} \subseteq DOMAIN users /\ DOMAIN users \subseteq Accounts
    /\ users \in [DOMAIN users -> User]
    /\ screen \in [Sessions -> Screens]
    /\ acct \in [Sessions -> DOMAIN users]
    /\ copy \in [Sessions -> User \cup {NoUser}]
    /\ forced \in [Sessions -> BOOLEAN] /\ current \in [Sessions -> Locales]
    /\ \A s \in Sessions : /\ DOMAIN list[s] \subseteq DOMAIN users
                           /\ list[s] \in [DOMAIN list[s] -> Roles]
                           /\ (copy[s] # NoUser) <=> LoggedIn(s)
                           /\ list[s] # NoList => screen[s] = "admin"
    /\ doing \in [Sessions -> Doing]
    /\ \A s \in Sessions : doing[s].user \in DOMAIN users
    /\ writes \in 0..MaxWrites
    /\ fresh \in [Sessions -> BOOLEAN] /\ listFresh \in [Sessions -> BOOLEAN]
    /\ raced \in BOOLEAN

\* The last-admin guard, as far as it goes: there is always an admin, unless some
\* role was set from a list that another session had made old, before or after
\* the guard counted.
AdminUnlessRaced == raced \/ \E u \in DOMAIN users : users[u].role = "admin"

\* A session sees its own writes: between two Updates its copy is the row of the
\* table, unless another session has written it since, an admin (itself, maybe)
\* has set the role, or the row could not be read again.
CopyFollowsOwnWrites ==
    \A s \in Sessions : fresh[s] /\ Idle(s) => copy[s] = users[acct[s]]

\* The forced change replaces the password, also when two sessions of the account
\* are at it: the flag is not cleared with the old password in place.
RotationRotates ==
    [][\A u \in DOMAIN users : users[u].must /\ ~users'[u].must
                                  => users'[u].pw # users[u].pw]_vars

\* The password of an account is set by a session of that account, whatever names
\* others try to register.
PasswordsSetByTheirOwner ==
    [][\A u \in DOMAIN users : users'[u].pw # users[u].pw
                                  => \E s \in Sessions : acct[s] = u /\ LoggedIn(s)]_vars

=============================================================================
