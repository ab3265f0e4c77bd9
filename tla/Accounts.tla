------------------------------ MODULE Accounts ------------------------------
(***************************************************************************)
(* The table of users: CreateUser behind /auth/register, the administrator *)
(* NewDb creates when a process starts, /auth/login and the AuthToken      *)
(* cookie, whose subject is a user name.                                   *)
(*                                                                         *)
(* CreateUser looks the name up and inserts it in two calls, and the table *)
(* has no unique index on it.  gorm inserts in a transaction: the id is    *)
(* taken at INSERT and the row seen by others after COMMIT.  SQLite lets   *)
(* one writer in at a time; on MySQL two inserts may commit in either      *)
(* order.                                                                  *)
(***************************************************************************)
EXTENDS Naturals, FiniteSets

CONSTANTS
    People,      \* whose browsers log in
    Operator,    \* who knows the administrator's password
    Names,       \* user names
    Wanted,      \* Wanted[p]: those p registers, with a password of its own; none
                 \* if signups are disabled
    Admin,       \* that of the administrator
    Requests,    \* requests the server handles at once
    Processes,   \* processes that run NewDb when they start, with Server
    Server,
    UserIds,     \* autoincrement ids of users
    Drivers,     \* the configured drivers considered
    Faults,      \* {"db"} if statements may fail
    None

ASSUME AccountsAssumption ==
    /\ UserIds \subseteq Nat /\ None \notin UserIds
    /\ Admin \in Names /\ Wanted \in [People -> SUBSET Names] /\ None \notin Names
    /\ Server \in Processes /\ Requests \cap Processes = {}
    /\ None \notin People \cup {Operator}
    /\ Drivers \subseteq {"sqlite", "mysql"}
    /\ Faults \subseteq {"db"}

VARIABLES
    driver,      \* database.driver of the configuration
    users,       \* the rows, with those not committed
    signup,      \* signup[s]: the CreateUser or FirstOrCreate of slot s
    booted,      \* the processes that have started
    cookie,      \* cookie[p]: the subject of p's AuthToken, or None
    overlapped,  \* ghost: names two slots were creating at once
    blind,       \* ghost: names that were in use when a failed lookup was taken
                 \* for an unused one
    headless     \* ghost: a process has gone on with its start without there
                 \* being an administrator

accountVars == <<driver, users, signup, booted, cookie, overlapped, blind, headless>>

Slots == Requests \cup Processes
Owners == People \cup {Operator}

Users == [status : {"unborn", "pending", "present", "void"},
          name : Names \cup {None}, owner : Owners \cup {None}, admin : BOOLEAN]

NoUser == [status |-> "unborn", name |-> None, owner |-> None, admin |-> FALSE]

Signups == [pc : {"idle", "create", "commit"}, name : Names \cup {None},
            owner : Owners \cup {None}, id : UserIds \cup {None}]

NoSignup == [pc |-> "idle", name |-> None, owner |-> None, id |-> None]

AccountsInit ==
    /\ driver \in Drivers
    /\ users = [u \in UserIds |-> NoUser]
    /\ signup = [s \in Slots |-> NoSignup]
    /\ booted = {}
    /\ cookie = [p \in People |-> None]
    /\ overlapped = {}
    /\ blind = {}
    /\ headless = FALSE

-----------------------------------------------------------------------------
Called(n) == {u \in UserIds : users[u].status = "present" /\ users[u].name = n}
Admins == {u \in UserIds : users[u].status = "present" /\ users[u].admin}

\* First: the lowest id.
First(S) == CHOOSE u \in S : \A v \in S : u <= v

\* Mutant: the newest user of the name.
GetUser_Newest(n) ==
    IF Called(n) = {} THEN None ELSE CHOOSE u \in Called(n) : \A v \in Called(n) : v <= u

\* GetUser.
GetUser(n) == IF Called(n) = {} THEN None ELSE First(Called(n))

Creating(s, n) == signup[s].pc # "idle" /\ signup[s].name = n

Start(s, n, p) ==
    /\ signup' = [signup EXCEPT ![s] = [pc |-> "create", name |-> n, owner |-> p, id |-> None]]
    /\ overlapped' = IF \E t \in Slots \ {s} : Creating(t, n) THEN overlapped \cup {n} ELSE overlapped

Finish(s) == signup' = [signup EXCEPT ![s] = NoSignup]

\* A request tells the person how it went; a process goes on with its start.
Answer(s) == booted' = IF s \in Processes THEN booted \cup {s} ELSE booted

\* FirstOrCreate's error is dropped: whatever became of the administrator.
AnswerFailed(s) ==
    /\ Answer(s)
    /\ headless' = IF s \in Processes /\ Admins = {} THEN TRUE ELSE headless

-----------------------------------------------------------------------------
(* Register and CreateUser                                                 *)

\* Mutant: the name is not looked up.
LookUp_Never(s, n, p) ==
    /\ Server \in booted
    /\ signup[s].pc = "idle"
    /\ Start(s, n, p)
    /\ UNCHANGED <<driver, users, booted, cookie, blind, headless>>

\* First by name.  "user already exists" changes nothing; an error is taken
\* for a name nobody has, which it may be as well.
LookUp(s, n, p) ==
    /\ Server \in booted
    /\ signup[s].pc = "idle"
    /\ \/ Called(n) = {} /\ blind' = blind
       \/ Called(n) # {} /\ "db" \in Faults /\ blind' = blind \cup {n}
    /\ Start(s, n, p)
    /\ UNCHANGED <<driver, users, booted, cookie, headless>>

\* FirstOrCreate's First, when a process starts; it looks for the flag and
\* not for the name.  The second branch is a First that finds one, or fails.
FindAdmin(s) ==
    /\ s \notin booted /\ signup[s].pc = "idle"
    /\ \/ /\ Admins = {}
          /\ Start(s, Admin, Operator)
          /\ UNCHANGED <<booted, headless>>
       \/ /\ Admins # {} \/ "db" \in Faults
          /\ AnswerFailed(s)
          /\ UNCHANGED <<signup, overlapped>>
    /\ UNCHANGED <<driver, users, cookie, blind>>

\* EncryptPassword and INSERT.  The id is the next one.
Insert(s) ==
    /\ signup[s].pc = "create"
    /\ driver = "sqlite" => \A t \in Slots : signup[t].pc # "commit"
    /\ \E u \in UserIds :
          /\ users[u].status = "unborn"
          /\ \A v \in UserIds : v < u => users[v].status # "unborn"
          /\ users' = [users EXCEPT ![u] =
                [status |-> "pending", name |-> signup[s].name, owner |-> signup[s].owner,
                 admin |-> s \in Processes]]
          /\ signup' = [signup EXCEPT ![s].pc = "commit", ![s].id = u]
    /\ UNCHANGED <<driver, booted, cookie, overlapped, blind, headless>>

Commit(s) ==
    /\ signup[s].pc = "commit"
    /\ users' = [users EXCEPT ![signup[s].id].status = "present"]
    /\ Finish(s)
    /\ Answer(s)
    /\ UNCHANGED <<driver, cookie, overlapped, blind, headless>>

\* bcrypt, INSERT or COMMIT fails; the person is told, the process takes no
\* notice.
CreateFails(s) ==
    /\ "db" \in Faults
    /\ signup[s].pc \in {"create", "commit"}
    /\ users' = IF signup[s].pc = "commit" THEN [users EXCEPT ![signup[s].id].status = "void"] ELSE users
    /\ Finish(s)
    /\ AnswerFailed(s)
    /\ UNCHANGED <<driver, cookie, overlapped, blind>>

-----------------------------------------------------------------------------
(* Sessions                                                                *)

\* Mutant: the password is compared with that of any user of the name.
Login_AnyNamesake(p, n) ==
    /\ Server \in booted
    /\ \E u \in Called(n) : users[u].owner = p
    /\ cookie' = [cookie EXCEPT ![p] = n]
    /\ UNCHANGED <<driver, users, signup, booted, overlapped, blind, headless>>

Login(p, n) ==
    /\ Server \in booted
    /\ GetUser(n) # None /\ users[GetUser(n)].owner = p
    /\ cookie' = [cookie EXCEPT ![p] = n]
    /\ UNCHANGED <<driver, users, signup, booted, overlapped, blind, headless>>

\* Logout, or the cookie is an hour old.
Logout(p) ==
    /\ cookie[p] # None
    /\ cookie' = [cookie EXCEPT ![p] = None]
    /\ UNCHANGED <<driver, users, signup, booted, overlapped, blind, headless>>

\* A process dies: what it had not committed is rolled back, and it will start
\* again.  The cookies stay in the browsers.
Die(q) ==
    /\ LET lost == IF q = Server THEN Requests \cup {q} ELSE {q}
           rows == {signup[s].id : s \in lost}
       IN  /\ users' = [u \in UserIds |-> IF u \in rows THEN [users[u] EXCEPT !.status = "void"] ELSE users[u]]
           /\ signup' = [s \in Slots |-> IF s \in lost THEN NoSignup ELSE signup[s]]
    /\ booted' = booted \ {q}
    /\ UNCHANGED <<driver, cookie, overlapped, blind, headless>>

\* free are the slots of the server that handle no other request.
AccountsNext(free) ==
    \/ \E s \in free, p \in People : \E n \in Wanted[p] : LookUp(s, n, p)
    \/ \E s \in Processes : FindAdmin(s)
    \/ \E s \in Slots : Insert(s) \/ Commit(s) \/ CreateFails(s)
    \/ \E p \in People : Logout(p) \/ \E n \in Names : Login(p, n)
=============================================================================
