-------------------------- MODULE AccountsProofs --------------------------
(***************************************************************************)
(* Facts about Accounts, for any people, names, requests and processes and *)
(* for both drivers.                                                       *)
(***************************************************************************)
EXTENDS Accounts, WellFoundedInduction, TLAPS

\* A step of the accounts, whatever else the server does.
AccountsStep ==
    \/ \E free \in SUBSET Requests : AccountsNext(free)
    \/ \E q \in Processes : Die(q)
    \/ UNCHANGED accountVars

-----------------------------------------------------------------------------
(* First                                                                   *)

\* A set of naturals that is not empty has a smallest element.
LEMMA LeastExists ==
    ASSUME NEW T, T \subseteq Nat, T # {}
    PROVE  \E x \in T : \A y \in T : x <= y
<1> DEFINE Less == OpToRel(<, Nat)
<1>1. IsWellFoundedOn(Less, Nat)
  BY NatLessThanWellFounded
<1>2. \A x, y \in Nat : <<y, x>> \notin Less => x <= y
  BY DEF OpToRel
<1> HIDE DEF Less
<1>3. PICK x \in T : \A y \in T : <<y, x>> \notin Less
  BY <1>1, WFMin
<1> QED
  BY <1>2, <1>3

\* First finds the lowest id of a set that has one.
LEMMA FirstIsLeast ==
    ASSUME NEW S, S \subseteq UserIds, S # {}
    PROVE  First(S) \in S /\ \A v \in S : First(S) <= v
<1>1. \E u \in S : \A v \in S : u <= v
  BY LeastExists, AccountsAssumption
<1> QED
  BY <1>1 DEF First

\* Later ids do not change it.
LEMMA FirstIsStable ==
    ASSUME NEW S, S \subseteq UserIds, S # {}, NEW T, T \subseteq UserIds, S \subseteq T,
           \A t \in T \ S : First(S) < t
    PROVE  First(T) = First(S)
<1>1. First(S) \in S /\ \A v \in S : First(S) <= v
  BY FirstIsLeast
<1>2. First(T) \in T /\ \A v \in T : First(T) <= v
  BY FirstIsLeast
<1>3. First(S) \in Nat /\ First(T) \in Nat
  BY <1>1, <1>2, AccountsAssumption
<1>4. First(T) <= First(S)
  BY <1>1, <1>2
<1>5. First(S) <= First(T)
  BY <1>1, <1>2, <1>3
<1> QED
  BY <1>3, <1>4, <1>5

\* GetUser finds a user exactly if there is one.
LEMMA GetUserFinds ==
    ASSUME NEW n
    PROVE  /\ GetUser(n) = None <=> Called(n) = {}
           /\ GetUser(n) # None => GetUser(n) \in Called(n) /\ GetUser(n) \in UserIds
                                   /\ GetUser(n) = First(Called(n))
<1>1. Called(n) \subseteq UserIds
  BY DEF Called
<1>2. Called(n) # {} => First(Called(n)) \in Called(n)
  BY <1>1, FirstIsLeast
<1> QED
  BY <1>1, <1>2, AccountsAssumption DEF GetUser

-----------------------------------------------------------------------------
(* The inductive invariant                                                 *)

AccountsTypes ==
    /\ driver \in Drivers
    /\ users \in [UserIds -> Users]
    /\ signup \in [Slots -> Signups]
    /\ booted \subseteq Processes
    /\ cookie \in [People -> Names \cup {None}]
    /\ overlapped \subseteq Names /\ blind \subseteq Names /\ headless \in BOOLEAN

Taken(u) == users[u].status \in {"pending", "present"}

\* A slot that has inserted owns the row it will commit.
SlotOwnsItsRow(s) ==
    /\ signup[s].pc # "idle" => signup[s].name \in Names /\ signup[s].owner \in Owners
    /\ signup[s].pc # "idle" /\ s \in Processes => signup[s].name = Admin
    /\ signup[s].pc # "commit" => signup[s].id = None
    /\ signup[s].pc = "commit" => /\ signup[s].id \in UserIds
                                  /\ users[signup[s].id].status = "pending"
                                  /\ users[signup[s].id].name = signup[s].name
    /\ \A t \in Slots : signup[s].pc = "commit" /\ signup[t].pc = "commit" /\ signup[s].id = signup[t].id => s = t

Rows ==
    /\ \A u \in UserIds : Taken(u) => users[u].name \in Names /\ users[u].owner \in Owners
    /\ \A u \in UserIds : Taken(u) /\ users[u].admin => users[u].name = Admin
    /\ \A u, v \in UserIds : v < u /\ users[u].status # "unborn" => users[v].status # "unborn"

\* SQLite has one writer, whose row is the last.
OneWriter ==
    driver = "sqlite" => \A s \in Slots : signup[s].pc = "commit" =>
        /\ \A t \in Slots : signup[t].pc = "commit" => s = t
        /\ \A u \in UserIds : users[u].status # "unborn" => u <= signup[s].id

\* A name can come to mean another user.
Restless(n) == driver = "mysql" /\ n \in overlapped

\* The row a slot will commit is later than those of its name.
ComesLater(s) ==
    signup[s].pc = "commit" /\ ~Restless(signup[s].name) =>
        \A u \in Called(signup[s].name) : u < signup[s].id

\* Names in use that were taken for unused ones, and the administrator's when a
\* process has done without one.
Doubted == blind \cup (IF headless = TRUE THEN {Admin} ELSE {})

\* Names nobody has been careless with.
Careful ==
    /\ \A n \in Names \ overlapped : \A s, t \in Slots : Creating(s, n) /\ Creating(t, n) => s = t
    /\ \A n \in Names \ (overlapped \cup Doubted) : \A s \in Slots : Creating(s, n) => Called(n) = {}
    /\ \A n \in Names \ (overlapped \cup Doubted) : \A u, v \in Called(n) : u = v

\* The administrator is the one user of that name while nobody took an error for
\* an answer.
AdminFirst ==
    Admin \notin Doubted =>
        /\ booted # {} => Admins # {}
        /\ \A r \in Requests : ~Creating(r, Admin)
        /\ \A u \in UserIds : Taken(u) /\ users[u].name = Admin => users[u].admin

\* The subject of a cookie means the user who logged in.
CookiesMeanTheirUser ==
    \A p \in People : cookie[p] # None =>
        \/ Restless(cookie[p])
        \/ GetUser(cookie[p]) # None /\ users[GetUser(cookie[p])].owner = p

AccountsInv ==
    /\ AccountsTypes
    /\ \A s \in Slots : SlotOwnsItsRow(s) /\ ComesLater(s)
    /\ Rows /\ OneWriter /\ Careful /\ AdminFirst /\ CookiesMeanTheirUser

LEMMA AccountsInitInv == AccountsInit => AccountsInv
<1> SUFFICES ASSUME AccountsInit PROVE AccountsInv
  OBVIOUS
<1> USE AccountsAssumption DEF AccountsInit
<1>1. NoUser \in Users /\ NoSignup \in Signups
  BY DEF NoUser, NoSignup, Users, Signups
<1>2. AccountsTypes
  BY <1>1 DEF AccountsTypes
<1>3. \A s \in Slots : signup[s].pc = "idle" /\ signup[s].id = None
  BY DEF NoSignup
<1>4. \A u \in UserIds : users[u].status = "unborn"
  BY DEF NoUser
<1>5. \A n : Called(n) = {}
  BY <1>4 DEF Called
<1>6. \A s \in Slots : SlotOwnsItsRow(s) /\ ComesLater(s)
  BY <1>3 DEF SlotOwnsItsRow, ComesLater
<1>7. Rows /\ OneWriter
  BY <1>3, <1>4 DEF Rows, OneWriter, Taken
<1>8. Careful
  BY <1>3, <1>5 DEF Careful, Creating
<1>9. AdminFirst
  BY <1>3, <1>4 DEF AdminFirst, Creating, Taken, Slots
<1>10. CookiesMeanTheirUser
  BY DEF CookiesMeanTheirUser
<1> QED
  BY <1>2, <1>6, <1>7, <1>8, <1>9, <1>10 DEF AccountsInv

-----------------------------------------------------------------------------
(* The kinds of steps                                                      *)

\* A slot goes for a name, having seen that it is free or made a mistake.
Begins(s, n, p) ==
    /\ signup[s].pc = "idle"
    /\ Start(s, n, p)
    /\ s \in Processes => n = Admin
    /\ blind \subseteq blind' /\ blind' \subseteq blind \cup {n} /\ headless' = headless
    /\ n \notin blind' => IF s \in Processes THEN Admins = {} ELSE Called(n) = {} /\ Server \in booted
    /\ UNCHANGED <<driver, users, booted, cookie>>

\* Slots give up; what they inserted is void.
Loses(L) ==
    /\ users' = [u \in UserIds |-> IF u \in {signup[s].id : s \in L}
                                   THEN [users[u] EXCEPT !.status = "void"] ELSE users[u]]
    /\ signup' = [s \in Slots |-> IF s \in L THEN NoSignup ELSE signup[s]]
    /\ blind' = blind /\ headless' \in BOOLEAN /\ (headless = TRUE => headless' = TRUE)
    /\ booted' \subseteq Processes
    /\ Admin \notin Doubted' => booted' \subseteq booted \/ Admins # {}
    /\ UNCHANGED <<driver, cookie, overlapped>>

\* The users and the slots stay.
Rests ==
    /\ blind' = blind /\ headless' \in BOOLEAN /\ (headless = TRUE => headless' = TRUE)
    /\ booted' \subseteq Processes
    /\ Admin \notin Doubted' /\ ~(booted' \subseteq booted) => Admins # {}
    /\ cookie' \in [People -> Names \cup {None}]
    /\ \A p \in People : cookie'[p] # cookie[p] /\ cookie'[p] # None =>
          GetUser(cookie'[p]) # None /\ users[GetUser(cookie'[p])].owner = p
    /\ UNCHANGED <<driver, users, signup, overlapped>>

LEMMA DoubtsStay ==
    ASSUME blind \subseteq blind', headless = TRUE => headless' = TRUE
    PROVE  Doubted \subseteq Doubted'
BY DEF Doubted

LEMMA AnswerFailedDoubts ==
    ASSUME NEW s, AnswerFailed(s), headless \in BOOLEAN
    PROVE  /\ headless' \in BOOLEAN /\ (headless = TRUE => headless' = TRUE)
           /\ s \in Processes /\ Admins = {} => Admin \in Doubted'
           /\ booted' = IF s \in Processes THEN booted \cup {s} ELSE booted
<1>1. /\ s \in Processes /\ Admins = {} => headless' = TRUE
      /\ ~(s \in Processes /\ Admins = {}) => headless' = headless
  BY DEF AnswerFailed
<1>2. headless' \in BOOLEAN /\ (headless = TRUE => headless' = TRUE)
  BY <1>1, Zenon
<1>3. s \in Processes /\ Admins = {} => Admin \in Doubted'
  BY <1>1 DEF Doubted
<1> QED
  BY <1>2, <1>3 DEF AnswerFailed, Answer

LEMMA StepKinds ==
    ASSUME AccountsInv, AccountsStep
    PROVE  \/ \E s \in Slots, n \in Names, p \in Owners : Begins(s, n, p)
           \/ \E s \in Slots : Insert(s)
           \/ \E s \in Slots : Commit(s)
           \/ \E L \in SUBSET Slots : Loses(L)
           \/ Rests
<1> USE AccountsAssumption
<1> DEFINE Goal == \/ \E s \in Slots, n \in Names, p \in Owners : Begins(s, n, p)
                   \/ \E s \in Slots : Insert(s)
                   \/ \E s \in Slots : Commit(s)
                   \/ \E L \in SUBSET Slots : Loses(L)
                   \/ Rests
<1>0. /\ AccountsTypes
      /\ \A s \in Slots : SlotOwnsItsRow(s)
      /\ users \in [UserIds -> Users] /\ signup \in [Slots -> Signups]
      /\ cookie \in [People -> Names \cup {None}]
  BY DEF AccountsInv, AccountsTypes
<1>1. ASSUME NEW s \in Requests, NEW p \in People, NEW n \in Wanted[p], LookUp(s, n, p) PROVE Goal
  <2>1. s \in Slots /\ n \in Names /\ p \in Owners /\ s \notin Processes
    BY DEF Slots, Owners
  <2>2. Begins(s, n, p)
    BY <1>1, <2>1 DEF LookUp, Begins
  <2> QED
    BY <2>1, <2>2
<1>2. ASSUME NEW s \in Processes, FindAdmin(s) PROVE Goal
  <2>1. s \in Slots /\ Admin \in Names /\ Operator \in Owners
    BY DEF Slots, Owners
  <2>2. CASE Start(s, Admin, Operator) /\ Admins = {} /\ UNCHANGED <<booted, headless>>
    <3>1. Begins(s, Admin, Operator)
      BY <1>2, <2>2 DEF FindAdmin, Begins
    <3> QED
      BY <2>1, <3>1
  <2>3. CASE /\ Admins # {} \/ "db" \in Faults
             /\ AnswerFailed(s)
             /\ UNCHANGED <<signup, overlapped>>
    <3>1. /\ headless' \in BOOLEAN /\ (headless = TRUE => headless' = TRUE)
          /\ Admins = {} => Admin \in Doubted'
          /\ booted' = booted \cup {s}
      BY <1>0, <2>3, AnswerFailedDoubts DEF AccountsTypes
    <3>2. Rests
      BY <1>0, <1>2, <2>3, <3>1 DEF FindAdmin, Rests, AccountsTypes
    <3> QED
      BY <3>2
  <2> QED
    BY <1>2, <2>2, <2>3 DEF FindAdmin
<1>3. ASSUME NEW s \in Slots, CreateFails(s) PROVE Goal
  <2>1. users' = [u \in UserIds |-> IF u \in {signup[t].id : t \in {s}}
                                    THEN [users[u] EXCEPT !.status = "void"] ELSE users[u]]
    <3>1. CASE signup[s].pc = "commit"
      <4>1. signup[s].id \in UserIds
        BY <1>0, <3>1 DEF SlotOwnsItsRow
      <4>2. users' = [users EXCEPT ![signup[s].id].status = "void"]
        BY <1>3, <3>1 DEF CreateFails
      <4> QED
        BY <1>0, <4>1, <4>2
    <3>2. CASE signup[s].pc # "commit"
      <4>1. signup[s].id \notin UserIds /\ users' = users
        BY <1>0, <1>3, <3>2 DEF SlotOwnsItsRow, CreateFails
      <4> QED
        BY <1>0, <4>1
    <3> QED
      BY <3>1, <3>2
  <2>2. signup' = [t \in Slots |-> IF t \in {s} THEN NoSignup ELSE signup[t]]
    BY <1>0, <1>3 DEF CreateFails, Finish
  <2>3. /\ headless' \in BOOLEAN /\ (headless = TRUE => headless' = TRUE)
        /\ s \in Processes /\ Admins = {} => Admin \in Doubted'
        /\ booted' = IF s \in Processes THEN booted \cup {s} ELSE booted
    BY <1>0, <1>3, AnswerFailedDoubts DEF CreateFails, AccountsTypes
  <2>4. booted' \subseteq Processes /\ (Admin \notin Doubted' => booted' \subseteq booted \/ Admins # {})
    BY <1>0, <2>3 DEF AccountsTypes
  <2>5. UNCHANGED <<driver, cookie, overlapped, blind>>
    BY <1>3 DEF CreateFails
  <2>6. Loses({s})
    BY <2>1, <2>2, <2>3, <2>4, <2>5 DEF Loses
  <2> QED
    BY <2>6
<1>4. ASSUME NEW p \in People, Logout(p) PROVE Goal
  <2>1. Rests
    BY <1>0, <1>4 DEF Logout, Rests, AccountsTypes
  <2> QED
    BY <2>1
<1>5. ASSUME NEW p \in People, NEW n \in Names, Login(p, n) PROVE Goal
  <2>1. Rests
    BY <1>0, <1>5 DEF Login, Rests, AccountsTypes
  <2> QED
    BY <2>1
<1>6. ASSUME NEW q \in Processes, Die(q) PROVE Goal
  <2> DEFINE L == IF q = Server THEN Requests \cup {q} ELSE {q}
  <2>1. Loses(L)
    BY <1>0, <1>6 DEF Die, Loses, AccountsTypes
  <2>2. L \in SUBSET Slots
    BY DEF Slots
  <2> QED
    BY <2>1, <2>2
<1>7. CASE UNCHANGED accountVars
  <2>1. Rests
    BY <1>0, <1>7 DEF accountVars, Rests, AccountsTypes
  <2> QED
    BY <2>1
<1>8. ASSUME NEW free \in SUBSET Requests, AccountsNext(free) PROVE Goal
  <2> HIDE DEF Goal
  <2>1. CASE \E s \in free, p \in People : \E n \in Wanted[p] : LookUp(s, n, p)
    BY <1>1, <2>1
  <2>2. CASE \E s \in Processes : FindAdmin(s)
    BY <1>2, <2>2
  <2>3. CASE \E s \in Slots : Insert(s) \/ Commit(s) \/ CreateFails(s)
    BY <1>3, <2>3 DEF Goal
  <2>4. CASE \E p \in People : Logout(p) \/ \E n \in Names : Login(p, n)
    BY <1>4, <1>5, <2>4
  <2> QED
    BY <1>8, <2>1, <2>2, <2>3, <2>4 DEF AccountsNext
<1> QED
  BY <1>6, <1>7, <1>8 DEF AccountsStep

-----------------------------------------------------------------------------
(* What each kind does                                                     *)

Present(u) == users[u].status = "present"

LEMMA BeginsEffect ==
    ASSUME AccountsInv, NEW s \in Slots, NEW n \in Names, NEW p \in Owners, Begins(s, n, p)
    PROVE  /\ signup' \in [Slots -> Signups]
           /\ signup'[s].pc = "create" /\ signup'[s].name = n /\ signup'[s].owner = p /\ signup'[s].id = None
           /\ \A t \in Slots \ {s} : signup'[t] = signup[t]
           /\ \A m : Called(m)' = Called(m)
           /\ Admins' = Admins
           /\ overlapped \subseteq overlapped' /\ overlapped' \subseteq Names
           /\ \A t \in Slots \ {s} : Creating(t, n) => n \in overlapped'
<1>1. signup \in [Slots -> Signups] /\ overlapped \subseteq Names
  BY DEF AccountsInv, AccountsTypes
<1>2. [pc |-> "create", name |-> n, owner |-> p, id |-> None] \in Signups
  BY DEF Signups
<1>3. signup' = [signup EXCEPT ![s] = [pc |-> "create", name |-> n, owner |-> p, id |-> None]]
  BY DEF Begins, Start
<1>4. Admins' = Admins /\ \A m : Called(m)' = Called(m)
  BY DEF Begins, Admins, Called
<1>5. /\ overlapped \subseteq overlapped' /\ overlapped' \subseteq Names
      /\ \A t \in Slots \ {s} : Creating(t, n) => n \in overlapped'
  BY <1>1 DEF Begins, Start
<1> QED
  BY <1>1, <1>2, <1>3, <1>4, <1>5

LEMMA InsertEffect ==
    ASSUME AccountsInv, NEW s \in Slots, Insert(s)
    PROVE  \E u \in UserIds :
              /\ users[u].status = "unborn"
              /\ \A v \in UserIds : users[v].status # "unborn" => v < u
              /\ \A v \in UserIds : v < u => users[v].status # "unborn"
              /\ users' \in [UserIds -> Users]
              /\ users'[u] = [status |-> "pending", name |-> signup[s].name, owner |-> signup[s].owner,
                              admin |-> s \in Processes]
              /\ \A v \in UserIds \ {u} : users'[v] = users[v]
              /\ signup' \in [Slots -> Signups]
              /\ signup[s].pc = "create" /\ signup'[s].pc = "commit" /\ signup'[s].id = u
              /\ signup'[s].name = signup[s].name /\ signup'[s].owner = signup[s].owner
              /\ \A t \in Slots \ {s} : signup'[t] = signup[t]
              /\ \A m : Called(m)' = Called(m)
              /\ Admins' = Admins
              /\ driver = "sqlite" => \A t \in Slots : signup[t].pc # "commit"
              /\ UNCHANGED <<driver, booted, cookie, overlapped, blind, headless>>
<1>1. /\ users \in [UserIds -> Users] /\ signup \in [Slots -> Signups]
      /\ SlotOwnsItsRow(s) /\ Rows
  BY DEF AccountsInv, AccountsTypes
<1>2. PICK u \in UserIds :
          /\ users[u].status = "unborn"
          /\ \A v \in UserIds : v < u => users[v].status # "unborn"
          /\ users' = [users EXCEPT ![u] =
                [status |-> "pending", name |-> signup[s].name, owner |-> signup[s].owner,
                 admin |-> s \in Processes]]
          /\ signup' = [signup EXCEPT ![s].pc = "commit", ![s].id = u]
  BY DEF Insert
<1>3. signup[s].pc = "create" /\ signup[s].name \in Names /\ signup[s].owner \in Owners
  BY <1>1 DEF Insert, SlotOwnsItsRow
<1>4. \A v \in UserIds : users[v].status # "unborn" => v < u
  <2> SUFFICES ASSUME NEW v \in UserIds, users[v].status # "unborn" PROVE v < u
    OBVIOUS
  <2>1. v # u
    BY <1>2
  <2>2. ~(u < v)
    BY <1>1, <1>2 DEF Rows
  <2> QED
    BY <2>1, <2>2, AccountsAssumption
<1>5. [status |-> "pending", name |-> signup[s].name, owner |-> signup[s].owner,
       admin |-> s \in Processes] \in Users
  BY <1>3 DEF Users
<1>6. /\ users' \in [UserIds -> Users]
      /\ users'[u] = [status |-> "pending", name |-> signup[s].name, owner |-> signup[s].owner,
                      admin |-> s \in Processes]
      /\ \A v \in UserIds \ {u} : users'[v] = users[v]
  BY <1>1, <1>2, <1>5
<1>7. /\ signup' \in [Slots -> Signups]
      /\ signup'[s].pc = "commit" /\ signup'[s].id = u
      /\ signup'[s].name = signup[s].name /\ signup'[s].owner = signup[s].owner
      /\ \A t \in Slots \ {s} : signup'[t] = signup[t]
  BY <1>1, <1>2 DEF Signups
<1>8. \A v \in UserIds : Present(v) => users'[v] = users[v]
  BY <1>2, <1>6 DEF Present
<1>9. \A v \in UserIds : Present(v)' => users'[v] = users[v]
  BY <1>6 DEF Present
<1>10. Admins' = Admins /\ \A m : Called(m)' = Called(m)
  BY <1>8, <1>9 DEF Admins, Called, Present
<1>11. /\ driver = "sqlite" => \A t \in Slots : signup[t].pc # "commit"
       /\ UNCHANGED <<driver, booted, cookie, overlapped, blind, headless>>
  BY DEF Insert
<1> QED
  BY <1>2, <1>3, <1>4, <1>6, <1>7, <1>10, <1>11

LEMMA CommitEffect ==
    ASSUME AccountsInv, NEW s \in Slots, Commit(s)
    PROVE  /\ signup[s].pc = "commit" /\ signup[s].id \in UserIds /\ users[signup[s].id].status = "pending"
           /\ users[signup[s].id].name = signup[s].name
           /\ users' \in [UserIds -> Users]
           /\ users'[signup[s].id].status = "present"
           /\ users'[signup[s].id].name = users[signup[s].id].name
           /\ users'[signup[s].id].owner = users[signup[s].id].owner
           /\ users'[signup[s].id].admin = users[signup[s].id].admin
           /\ \A v \in UserIds \ {signup[s].id} : users'[v] = users[v]
           /\ signup' \in [Slots -> Signups] /\ signup'[s] = NoSignup
           /\ \A t \in Slots \ {s} : signup'[t] = signup[t]
           /\ \A m : m # signup[s].name => Called(m)' = Called(m)
           /\ \A m : m = signup[s].name => Called(m)' = Called(m) \cup {signup[s].id}
           /\ Admins \subseteq Admins'
           /\ users[signup[s].id].admin => signup[s].id \in Admins'
           /\ booted' = (IF s \in Processes THEN booted \cup {s} ELSE booted)
           /\ UNCHANGED <<driver, cookie, overlapped, blind, headless>>
<1>1. /\ users \in [UserIds -> Users] /\ signup \in [Slots -> Signups]
      /\ SlotOwnsItsRow(s) /\ signup[s].pc = "commit"
  BY DEF AccountsInv, AccountsTypes, Commit
<1> DEFINE i == signup[s].id
<1>2. i \in UserIds /\ users[i].status = "pending" /\ users[i].name = signup[s].name
  BY <1>1 DEF SlotOwnsItsRow
<1>3. users' = [users EXCEPT ![i].status = "present"] /\ signup' = [signup EXCEPT ![s] = NoSignup]
  BY DEF Commit, Finish
<1>4. NoSignup \in Signups
  BY DEF NoSignup, Signups
<1> HIDE DEF i
<1>5. /\ users' \in [UserIds -> Users]
      /\ users'[i].status = "present" /\ users'[i].name = users[i].name
      /\ users'[i].owner = users[i].owner /\ users'[i].admin = users[i].admin
      /\ \A v \in UserIds \ {i} : users'[v] = users[v]
  BY <1>1, <1>2, <1>3 DEF Users
<1>6. signup' \in [Slots -> Signups] /\ signup'[s] = NoSignup /\ \A t \in Slots \ {s} : signup'[t] = signup[t]
  BY <1>1, <1>3, <1>4
<1>7. \A m : m # signup[s].name => Called(m)' = Called(m)
  BY <1>2, <1>5 DEF Called
<1>8. \A m : m = signup[s].name => Called(m)' = Called(m) \cup {i}
  BY <1>2, <1>5 DEF Called
<1>9. Admins \subseteq Admins' /\ (users[i].admin => i \in Admins')
  BY <1>2, <1>5 DEF Admins
<1>10. /\ booted' = (IF s \in Processes THEN booted \cup {s} ELSE booted)
       /\ UNCHANGED <<driver, cookie, overlapped, blind, headless>>
  BY DEF Commit, Answer
<1> QED
  BY <1>1, <1>2, <1>5, <1>6, <1>7, <1>8, <1>9, <1>10 DEF i

LEMMA LosesEffect ==
    ASSUME AccountsInv, NEW L \in SUBSET Slots, Loses(L)
    PROVE  /\ users' \in [UserIds -> Users] /\ signup' \in [Slots -> Signups]
           /\ \A u \in UserIds : \/ users'[u] = users[u]
                                 \/ users[u].status = "pending" /\ users'[u].status = "void"
           /\ \A t \in L : signup'[t] = NoSignup
           /\ \A t \in Slots \ L : signup'[t] = signup[t]
           /\ \A t \in Slots \ L : signup[t].pc = "commit" => users'[signup[t].id] = users[signup[t].id]
           /\ \A m : Called(m)' = Called(m)
           /\ Admins' = Admins
<1>1. /\ users \in [UserIds -> Users] /\ signup \in [Slots -> Signups]
      /\ \A s \in Slots : SlotOwnsItsRow(s)
  BY DEF AccountsInv, AccountsTypes
<1>2. /\ users' = [u \in UserIds |-> IF u \in {signup[s].id : s \in L}
                                     THEN [users[u] EXCEPT !.status = "void"] ELSE users[u]]
      /\ signup' = [s \in Slots |-> IF s \in L THEN NoSignup ELSE signup[s]]
  BY DEF Loses
<1>3. NoSignup \in Signups
  BY DEF NoSignup, Signups
<1>4. users' \in [UserIds -> Users]
  BY <1>1, <1>2 DEF Users
<1>5. /\ signup' \in [Slots -> Signups]
      /\ \A t \in L : signup'[t] = NoSignup
      /\ \A t \in Slots \ L : signup'[t] = signup[t]
  BY <1>1, <1>2, <1>3
<1>6. ASSUME NEW u \in UserIds, u \in {signup[s].id : s \in L}
      PROVE  users[u].status = "pending" /\ users'[u].status = "void"
  <2>1. PICK s \in L : u = signup[s].id
    BY <1>6
  <2>2. signup[s].pc = "commit"
    BY <1>1, <2>1, AccountsAssumption DEF SlotOwnsItsRow
  <2>3. users[u].status = "pending"
    BY <1>1, <2>1, <2>2 DEF SlotOwnsItsRow
  <2>4. users[u] \in Users
    BY <1>1
  <2> QED
    BY <1>2, <1>6, <2>3, <2>4 DEF Users
<1>7. \A u \in UserIds : \/ users'[u] = users[u]
                         \/ users[u].status = "pending" /\ users'[u].status = "void"
  BY <1>2, <1>6
<1>8. ASSUME NEW t \in Slots \ L, signup[t].pc = "commit"
      PROVE  users'[signup[t].id] = users[signup[t].id]
  <2>1. signup[t].id \in UserIds
    BY <1>1, <1>8 DEF SlotOwnsItsRow
  <2>2. signup[t].id \notin {signup[s].id : s \in L}
    <3> SUFFICES ASSUME NEW s \in L, signup[t].id = signup[s].id PROVE FALSE
      OBVIOUS
    <3>1. signup[s].pc = "commit"
      BY <1>1, <2>1, AccountsAssumption DEF SlotOwnsItsRow
    <3> QED
      BY <1>1, <1>8, <3>1 DEF SlotOwnsItsRow
  <2> QED
    BY <1>2, <2>1, <2>2
<1>9. Admins' = Admins /\ \A m : Called(m)' = Called(m)
  BY <1>7 DEF Admins, Called
<1> QED
  BY <1>4, <1>5, <1>7, <1>8, <1>9

-----------------------------------------------------------------------------
(* The invariant is kept                                                   *)

LEMMA TypesNext == AccountsInv /\ AccountsStep => AccountsTypes'
<1> SUFFICES ASSUME AccountsInv, AccountsStep PROVE AccountsTypes'
  OBVIOUS
<1>0. AccountsTypes
  BY DEF AccountsInv
<1>1. ASSUME NEW s \in Slots, NEW n \in Names, NEW p \in Owners, Begins(s, n, p) PROVE AccountsTypes'
  BY <1>0, <1>1, BeginsEffect DEF Begins, AccountsTypes
<1>2. ASSUME NEW s \in Slots, Insert(s) PROVE AccountsTypes'
  BY <1>0, <1>2, InsertEffect DEF AccountsTypes
<1>3. ASSUME NEW s \in Slots, Commit(s) PROVE AccountsTypes'
  BY <1>0, <1>3, CommitEffect DEF AccountsTypes
<1>4. ASSUME NEW L \in SUBSET Slots, Loses(L) PROVE AccountsTypes'
  BY <1>0, <1>4, LosesEffect DEF Loses, AccountsTypes
<1>5. CASE Rests
  BY <1>0, <1>5 DEF Rests, AccountsTypes
<1> QED
  BY <1>1, <1>2, <1>3, <1>4, <1>5, StepKinds

LEMMA RowsNext == AccountsInv /\ AccountsStep => Rows'
<1> SUFFICES ASSUME AccountsInv, AccountsStep PROVE Rows'
  OBVIOUS
<1>0. Rows /\ \A s \in Slots : SlotOwnsItsRow(s)
  BY DEF AccountsInv
<1>1. ASSUME NEW s \in Slots, NEW n \in Names, NEW p \in Owners, Begins(s, n, p) PROVE Rows'
  BY <1>0, <1>1 DEF Begins, Rows, Taken
<1>2. ASSUME NEW s \in Slots, Insert(s) PROVE Rows'
  <2>1. signup[s].pc = "create"
    BY <1>2 DEF Insert
  <2>2. signup[s].name \in Names /\ signup[s].owner \in Owners /\ (s \in Processes => signup[s].name = Admin)
    BY <1>0, <2>1 DEF SlotOwnsItsRow
  <2>3. PICK u \in UserIds :
              /\ \A v \in UserIds : users[v].status # "unborn" => v < u
              /\ \A v \in UserIds : v < u => users[v].status # "unborn"
              /\ users'[u] = [status |-> "pending", name |-> signup[s].name, owner |-> signup[s].owner,
                              admin |-> s \in Processes]
              /\ \A v \in UserIds \ {u} : users'[v] = users[v]
    BY <1>2, InsertEffect
  <2>4. \A v, w \in UserIds : w < v /\ users'[v].status # "unborn" => users'[w].status # "unborn"
    BY <1>0, <2>3 DEF Rows
  <2>5. \A v \in UserIds : Taken(v)' => /\ users'[v].name \in Names /\ users'[v].owner \in Owners
                                        /\ users'[v].admin => users'[v].name = Admin
    <3> TAKE v \in UserIds
    <3>1. CASE v = u
      <4>1. /\ users'[v].name = signup[s].name /\ users'[v].owner = signup[s].owner
            /\ users'[v].admin = (s \in Processes)
        BY <2>3, <3>1
      <4> QED
        BY <2>2, <4>1
    <3>2. CASE v # u
      BY <1>0, <2>3, <3>2 DEF Rows, Taken
    <3> QED
      BY <3>1, <3>2
  <2> QED
    BY <2>4, <2>5 DEF Rows
<1>3. ASSUME NEW s \in Slots, Commit(s) PROVE Rows'
  BY <1>0, <1>3, CommitEffect DEF Rows, Taken
<1>4. ASSUME NEW L \in SUBSET Slots, Loses(L) PROVE Rows'
  <2>1. \A u \in UserIds : \/ users'[u] = users[u]
                           \/ users[u].status = "pending" /\ users'[u].status = "void"
    BY <1>4, LosesEffect
  <2> QED
    BY <1>0, <2>1 DEF Rows, Taken
<1>5. CASE Rests
  BY <1>0, <1>5 DEF Rests, Rows, Taken
<1> QED
  BY <1>1, <1>2, <1>3, <1>4, <1>5, StepKinds

LEMMA SlotsNext == AccountsInv /\ AccountsStep => \A s \in Slots : SlotOwnsItsRow(s)'
<1> SUFFICES ASSUME AccountsInv, AccountsStep PROVE \A s \in Slots : SlotOwnsItsRow(s)'
  OBVIOUS
<1>0. \A s \in Slots : SlotOwnsItsRow(s)
  BY DEF AccountsInv
<1>1. ASSUME NEW s \in Slots, NEW n \in Names, NEW p \in Owners, Begins(s, n, p)
      PROVE  \A t \in Slots : SlotOwnsItsRow(t)'
  <2>1. users' = users /\ (s \in Processes => n = Admin)
    BY <1>1 DEF Begins
  <2> QED
    BY <1>0, <1>1, <2>1, BeginsEffect DEF SlotOwnsItsRow
<1>2. ASSUME NEW s \in Slots, Insert(s) PROVE \A t \in Slots : SlotOwnsItsRow(t)'
  <2>1. PICK u \in UserIds :
              /\ users[u].status = "unborn"
              /\ users'[u] = [status |-> "pending", name |-> signup[s].name, owner |-> signup[s].owner,
                              admin |-> s \in Processes]
              /\ \A v \in UserIds \ {u} : users'[v] = users[v]
              /\ signup[s].pc = "create" /\ signup'[s].pc = "commit" /\ signup'[s].id = u
              /\ signup'[s].name = signup[s].name /\ signup'[s].owner = signup[s].owner
              /\ \A t \in Slots \ {s} : signup'[t] = signup[t]
    BY <1>2, InsertEffect
  <2>2. \A t \in Slots : signup[t].pc = "commit" => signup[t].id # u
    BY <1>0, <2>1 DEF SlotOwnsItsRow
  <2> QED
    BY <1>0, <2>1, <2>2 DEF SlotOwnsItsRow
<1>3. ASSUME NEW s \in Slots, Commit(s) PROVE \A t \in Slots : SlotOwnsItsRow(t)'
  <2>1. /\ signup[s].pc = "commit"
        /\ \A v \in UserIds \ {signup[s].id} : users'[v] = users[v]
        /\ signup'[s] = NoSignup
        /\ \A t \in Slots \ {s} : signup'[t] = signup[t]
    BY <1>3, CommitEffect
  <2>2. \A t \in Slots \ {s} : signup[t].pc = "commit" => signup[t].id # signup[s].id
    BY <1>0, <2>1 DEF SlotOwnsItsRow
  <2> QED
    BY <1>0, <2>1, <2>2 DEF SlotOwnsItsRow, NoSignup
<1>4. ASSUME NEW L \in SUBSET Slots, Loses(L) PROVE \A t \in Slots : SlotOwnsItsRow(t)'
  <2>1. /\ \A t \in L : signup'[t] = NoSignup
        /\ \A t \in Slots \ L : signup'[t] = signup[t]
        /\ \A t \in Slots \ L : signup[t].pc = "commit" => users'[signup[t].id] = users[signup[t].id]
    BY <1>4, LosesEffect
  <2> QED
    BY <1>0, <2>1 DEF SlotOwnsItsRow, NoSignup
<1>5. CASE Rests
  BY <1>0, <1>5 DEF Rests, SlotOwnsItsRow
<1> QED
  BY <1>1, <1>2, <1>3, <1>4, <1>5, StepKinds

LEMMA OneWriterNext == AccountsInv /\ AccountsStep => OneWriter'
<1> SUFFICES ASSUME AccountsInv, AccountsStep, driver' = "sqlite" PROVE OneWriter'
  BY DEF OneWriter
<1>0. OneWriter /\ \A s \in Slots : SlotOwnsItsRow(s)
  BY DEF AccountsInv
<1>1. ASSUME NEW s \in Slots, NEW n \in Names, NEW p \in Owners, Begins(s, n, p) PROVE OneWriter'
  <2>1. users' = users /\ driver' = driver
    BY <1>1 DEF Begins
  <2> QED
    BY <1>0, <1>1, <2>1, BeginsEffect DEF OneWriter
<1>2. ASSUME NEW s \in Slots, Insert(s) PROVE OneWriter'
  <2>1. PICK u \in UserIds :
              /\ \A v \in UserIds : users[v].status # "unborn" => v < u
              /\ \A v \in UserIds \ {u} : users'[v] = users[v]
              /\ signup'[s].id = u
              /\ \A t \in Slots \ {s} : signup'[t] = signup[t]
              /\ driver = "sqlite" => \A t \in Slots : signup[t].pc # "commit"
              /\ driver' = driver
    BY <1>2, InsertEffect
  <2>2. ASSUME NEW v \in UserIds, users'[v].status # "unborn" PROVE v <= u
    <3>1. v \in Nat /\ u \in Nat
      BY AccountsAssumption
    <3>2. v = u \/ v < u
      BY <2>1, <2>2
    <3> QED
      BY <3>1, <3>2
  <2> QED
    BY <2>1, <2>2 DEF OneWriter
<1>3. ASSUME NEW s \in Slots, Commit(s) PROVE OneWriter'
  <2>1. /\ signup[s].pc = "commit" /\ driver' = driver
        /\ signup'[s] = NoSignup
        /\ \A t \in Slots \ {s} : signup'[t] = signup[t]
    BY <1>3, CommitEffect
  <2> QED
    BY <1>0, <2>1 DEF OneWriter, NoSignup
<1>4. ASSUME NEW L \in SUBSET Slots, Loses(L) PROVE OneWriter'
  <2>1. driver' = driver
    BY <1>4 DEF Loses
  <2> QED
    BY <1>0, <1>4, <2>1, LosesEffect DEF OneWriter, NoSignup
<1>5. CASE Rests
  BY <1>0, <1>5 DEF Rests, OneWriter
<1> QED
  BY <1>1, <1>2, <1>3, <1>4, <1>5, StepKinds

\* What the names and their users do in a step.
NamesStay ==
    /\ driver' = driver /\ overlapped \subseteq overlapped' /\ Doubted \subseteq Doubted'
    /\ \A u \in UserIds : Present(u) => Present(u)' /\ users'[u].name = users[u].name
                                        /\ users'[u].owner = users[u].owner
    /\ \A n : Called(n) \subseteq Called(n)'
    /\ \A n \in Names : GetUser(n) # None => GetUser(n)' = GetUser(n) \/ Restless(n)

LEMMA NamesGrow == AccountsInv /\ AccountsStep => NamesStay
<1> SUFFICES ASSUME AccountsInv, AccountsStep PROVE NamesStay
  OBVIOUS
<1>0. /\ \A s \in Slots : SlotOwnsItsRow(s) /\ ComesLater(s)
      /\ users \in [UserIds -> Users]
  BY DEF AccountsInv, AccountsTypes
<1>1. ASSUME NEW s \in Slots, NEW n \in Names, NEW p \in Owners, Begins(s, n, p) PROVE NamesStay
  <2>1. driver' = driver /\ users' = users /\ Doubted \subseteq Doubted'
    BY <1>1, DoubtsStay DEF Begins
  <2>2. overlapped \subseteq overlapped' /\ \A m : Called(m)' = Called(m)
    BY <1>1, BeginsEffect
  <2> QED
    BY <2>1, <2>2 DEF NamesStay, Present, GetUser
<1>2. ASSUME NEW s \in Slots, Insert(s) PROVE NamesStay
  <2>1. PICK u \in UserIds :
              /\ users[u].status = "unborn"
              /\ \A v \in UserIds \ {u} : users'[v] = users[v]
              /\ \A m : Called(m)' = Called(m)
              /\ UNCHANGED <<driver, overlapped, blind, headless>>
    BY <1>2, InsertEffect
  <2> QED
    BY <2>1, DoubtsStay DEF NamesStay, Present, GetUser
<1>3. ASSUME NEW s \in Slots, Commit(s) PROVE NamesStay
  <2>1. /\ signup[s].pc = "commit" /\ signup[s].id \in UserIds /\ users[signup[s].id].status = "pending"
        /\ \A v \in UserIds \ {signup[s].id} : users'[v] = users[v]
        /\ \A m : m # signup[s].name => Called(m)' = Called(m)
        /\ \A m : m = signup[s].name => Called(m)' = Called(m) \cup {signup[s].id}
        /\ UNCHANGED <<driver, overlapped, blind, headless>>
    BY <1>3, CommitEffect
  <2>2. \A u \in UserIds : Present(u) => Present(u)' /\ users'[u] = users[u]
    BY <2>1 DEF Present
  <2>3. \A n : Called(n) \subseteq Called(n)'
    BY <2>1
  <2>4. ASSUME NEW n \in Names, GetUser(n) # None, ~Restless(n) PROVE GetUser(n)' = GetUser(n)
    <3>1. CASE n # signup[s].name
      BY <2>1, <3>1 DEF GetUser
    <3>2. CASE n = signup[s].name
      <4>1. PICK S \in SUBSET UserIds : S = Called(n)
        BY DEF Called
      <4>2. PICK T \in SUBSET UserIds : T = Called(n)'
        BY DEF Called
      <4>3. S # {} /\ GetUser(n) = First(S)
        BY <2>4, <4>1, GetUserFinds
      <4>4. T = S \cup {signup[s].id}
        BY <2>1, <3>2, <4>1, <4>2
      <4>5. First(S) < signup[s].id
        <5>1. First(S) \in S
          BY <4>3, FirstIsLeast
        <5> QED
          BY <1>0, <2>1, <2>4, <3>2, <4>1, <5>1 DEF ComesLater
      <4>6. First(T) = First(S)
        BY <4>3, <4>4, <4>5, FirstIsStable
      <4>7. GetUser(n)' = First(T)
        BY <4>2, <4>3, <4>4 DEF GetUser
      <4> QED
        BY <4>3, <4>6, <4>7
    <3> QED
      BY <3>1, <3>2
  <2> QED
    BY <2>1, <2>2, <2>3, <2>4, DoubtsStay DEF NamesStay
<1>4. ASSUME NEW L \in SUBSET Slots, Loses(L) PROVE NamesStay
  <2>1. driver' = driver /\ overlapped' = overlapped /\ Doubted \subseteq Doubted'
    BY <1>4, DoubtsStay DEF Loses
  <2>2. /\ \A u \in UserIds : users'[u] = users[u] \/ users[u].status = "pending"
        /\ \A m : Called(m)' = Called(m)
    BY <1>4, LosesEffect
  <2> QED
    BY <2>1, <2>2 DEF NamesStay, Present, GetUser
<1>5. CASE Rests
  <2>1. driver' = driver /\ users' = users /\ overlapped' = overlapped /\ Doubted \subseteq Doubted'
    BY <1>5, DoubtsStay DEF Rests
  <2> QED
    BY <2>1 DEF NamesStay, Present, Called, GetUser
<1> QED
  BY <1>1, <1>2, <1>3, <1>4, <1>5, StepKinds

LEMMA LaterNext == AccountsInv /\ AccountsStep => \A s \in Slots : ComesLater(s)'
<1> SUFFICES ASSUME AccountsInv, AccountsStep PROVE \A s \in Slots : ComesLater(s)'
  OBVIOUS
<1>0. /\ \A s \in Slots : SlotOwnsItsRow(s) /\ ComesLater(s)
      /\ OneWriter /\ Careful /\ driver \in {"sqlite", "mysql"}
      /\ driver' = driver /\ overlapped \subseteq overlapped'
  BY NamesGrow, AccountsAssumption DEF NamesStay, AccountsInv, AccountsTypes
<1>a. \A n : Restless(n) => Restless(n)'
  BY <1>0 DEF Restless
\* A slot that stays, and whose name gets no new user.
<1>b. ASSUME NEW t \in Slots, signup'[t] = signup[t], NEW m, m = signup[t].name, Called(m)' = Called(m)
      PROVE  ComesLater(t)'
  <2>1. ComesLater(t)' <=>
           (signup[t].pc = "commit" /\ ~Restless(m)' => \A u \in Called(m)' : u < signup[t].id)
    BY <1>b DEF ComesLater, Restless, Called
  <2> QED
    BY <1>0, <1>a, <1>b, <2>1 DEF ComesLater
<1>c. ASSUME NEW t \in Slots, signup'[t].pc # "commit" PROVE ComesLater(t)'
  BY <1>c DEF ComesLater
<1>1. ASSUME NEW s \in Slots, NEW n \in Names, NEW p \in Owners, Begins(s, n, p)
      PROVE  \A t \in Slots : ComesLater(t)'
  <2>1. /\ signup'[s].pc = "create"
        /\ \A t \in Slots \ {s} : signup'[t] = signup[t]
        /\ \A m : Called(m)' = Called(m)
    BY <1>1, BeginsEffect
  <2> QED
    BY <1>b, <1>c, <2>1
<1>2. ASSUME NEW s \in Slots, Insert(s) PROVE \A t \in Slots : ComesLater(t)'
  <2>1. PICK u \in UserIds :
              /\ \A v \in UserIds : users[v].status # "unborn" => v < u
              /\ signup'[s].pc = "commit" /\ signup'[s].id = u
              /\ \A t \in Slots \ {s} : signup'[t] = signup[t]
              /\ \A m : Called(m)' = Called(m)
    BY <1>2, InsertEffect
  <2>2. \A t \in Slots \ {s} : ComesLater(t)'
    BY <1>b, <2>1
  <2>3. \A m : \A v \in Called(m) : v < u
    BY <2>1 DEF Called
  <2>4. \A m : \A v \in Called(m)' : v < u
    BY <2>1, <2>3
  <2>5. ComesLater(s)'
    BY <2>1, <2>4 DEF ComesLater, Called
  <2> QED
    BY <2>2, <2>5
<1>3. ASSUME NEW s \in Slots, Commit(s) PROVE \A t \in Slots : ComesLater(t)'
  <2>1. /\ signup[s].pc = "commit" /\ signup[s].id \in UserIds
        /\ signup'[s] = NoSignup
        /\ \A t \in Slots \ {s} : signup'[t] = signup[t]
        /\ \A m : m # signup[s].name => Called(m)' = Called(m)
        /\ \A m : m = signup[s].name => Called(m)' = Called(m) \cup {signup[s].id}
        /\ UNCHANGED <<driver, overlapped>>
    BY <1>3, CommitEffect
  <2>2. ComesLater(s)'
    BY <1>c, <2>1 DEF NoSignup
  <2>3. ASSUME NEW t \in Slots \ {s} PROVE ComesLater(t)'
    <3>1. CASE signup[t].name # signup[s].name
      BY <1>b, <2>1, <3>1
    <3>2. CASE signup[t].pc # "commit"
      BY <1>c, <2>1, <3>2
    <3>3. CASE signup[t].pc = "commit" /\ signup[t].name = signup[s].name
      \* Two slots that commit the same name have met, and not on SQLite.
      <4>1. driver # "sqlite"
        BY <1>0, <2>1, <3>3 DEF OneWriter
      <4>2. signup[t].name \in Names
        BY <1>0, <3>3 DEF SlotOwnsItsRow
      <4>3. signup[t].name \in overlapped
        BY <1>0, <2>1, <3>3, <4>2 DEF Careful, Creating
      <4>4. Restless(signup[t].name)'
        BY <1>0, <2>1, <4>1, <4>3 DEF Restless
      <4> QED
        BY <4>4 DEF ComesLater, Restless
    <3> QED
      BY <3>1, <3>2, <3>3
  <2> QED
    BY <2>2, <2>3
<1>4. ASSUME NEW L \in SUBSET Slots, Loses(L) PROVE \A t \in Slots : ComesLater(t)'
  <2>1. /\ \A t \in L : signup'[t].pc = "idle"
        /\ \A t \in Slots \ L : signup'[t] = signup[t]
        /\ \A m : Called(m)' = Called(m)
    BY <1>4, LosesEffect DEF NoSignup
  <2> QED
    BY <1>b, <1>c, <2>1
<1>5. CASE Rests
  <2>1. users' = users /\ signup' = signup
    BY <1>5 DEF Rests
  <2>2. \A m : Called(m)' = Called(m)
    BY <2>1 DEF Called
  <2> QED
    BY <1>b, <2>1, <2>2
<1> QED
  BY <1>1, <1>2, <1>3, <1>4, <1>5, StepKinds

LEMMA CookiesNext == AccountsInv /\ AccountsStep => CookiesMeanTheirUser'
<1> SUFFICES ASSUME AccountsInv, AccountsStep, NEW p \in People, cookie'[p] # None,
                    NEW n, n = cookie'[p], ~Restless(n)'
             PROVE  GetUser(n)' # None /\ users'[GetUser(n)'].owner = p
  BY DEF CookiesMeanTheirUser, Restless, GetUser, Called
<1>1. /\ \A u \in UserIds : Present(u) => users'[u].owner = users[u].owner
      /\ \A m \in Names : GetUser(m) # None => GetUser(m)' = GetUser(m) \/ Restless(m)
      /\ Restless(n) => Restless(n)'
  BY NamesGrow DEF NamesStay, Restless
<1>2. GetUser(n) # None /\ users[GetUser(n)].owner = p
  <2>1. CASE cookie'[p] = cookie[p]
    BY <1>1, <2>1 DEF AccountsInv, CookiesMeanTheirUser
  <2>2. CASE cookie'[p] # cookie[p]
    <3>1. CASE Rests
      BY <2>2, <3>1 DEF Rests
    <3>2. CASE ~Rests
      <4>1. UNCHANGED cookie
        BY <3>2, StepKinds, InsertEffect, CommitEffect DEF Begins, Loses
      <4> QED
        BY <2>2, <4>1
    <3> QED
      BY <3>1, <3>2
  <2> QED
    BY <2>1, <2>2
<1>3. n \in Names
  BY TypesNext DEF AccountsTypes
<1>4. GetUser(n)' = GetUser(n)
  BY <1>1, <1>2, <1>3
<1>5. Present(GetUser(n)) /\ GetUser(n) \in UserIds
  BY <1>2, GetUserFinds DEF Called, Present
<1> QED
  BY <1>1, <1>2, <1>4, <1>5

LEMMA CarefulNext == AccountsInv /\ AccountsStep => Careful'
<1> SUFFICES ASSUME AccountsInv, AccountsStep PROVE Careful'
  OBVIOUS
<1>0. /\ Careful /\ AdminFirst /\ Rows /\ \A s \in Slots : SlotOwnsItsRow(s)
      /\ overlapped \subseteq overlapped' /\ Doubted \subseteq Doubted'
  BY NamesGrow DEF NamesStay, AccountsInv
<1>1. ASSUME NEW s \in Slots, NEW n \in Names, NEW p \in Owners, Begins(s, n, p) PROVE Careful'
  <2>1. /\ signup[s].pc = "idle" /\ signup'[s].pc = "create" /\ signup'[s].name = n
        /\ \A t \in Slots \ {s} : signup'[t] = signup[t]
        /\ \A m : Called(m)' = Called(m)
        /\ \A t \in Slots \ {s} : Creating(t, n) => n \in overlapped'
    BY <1>1, BeginsEffect DEF Begins
  <2>2. /\ \A t \in Slots \ {s} : \A m : Creating(t, m)' <=> Creating(t, m)
        /\ \A m : Creating(s, m)' <=> m = n
    BY <2>1 DEF Creating
  <2>3. n \notin Doubted' => Called(n) = {}
    <3>1. CASE s \notin Processes
      BY <1>1, <3>1 DEF Begins, Doubted
    <3>2. ASSUME s \in Processes, n \notin Doubted' PROVE Called(n) = {}
      <4>1. n = Admin /\ Admins = {} /\ Admin \notin Doubted
        BY <1>0, <1>1, <3>2 DEF Begins, Doubted
      <4>2. \A u \in Called(Admin) : u \in Admins
        BY <1>0, <4>1 DEF AdminFirst, Called, Admins, Taken
      <4> QED
        BY <4>1, <4>2
    <3> QED
      BY <3>1, <3>2
  <2>4. \A m \in Names \ overlapped' : \A t, v \in Slots : Creating(t, m)' /\ Creating(v, m)' => t = v
    BY <1>0, <2>1, <2>2 DEF Careful
  <2>5. \A m \in Names \ (overlapped' \cup Doubted') : \A t \in Slots : Creating(t, m)' => Called(m)' = {}
    BY <1>0, <2>1, <2>2, <2>3 DEF Careful
  <2>6. \A m \in Names \ (overlapped' \cup Doubted') : \A u, v \in Called(m)' : u = v
    BY <1>0, <2>1 DEF Careful
  <2> QED
    BY <2>4, <2>5, <2>6 DEF Careful
\* The slots that create a name stay, and its users.
<1>a. ASSUME \A t \in Slots : \A m : Creating(t, m)' => Creating(t, m), \A m : Called(m)' = Called(m)
      PROVE  Careful'
  BY <1>0, <1>a DEF Careful
<1>2. ASSUME NEW s \in Slots, Insert(s) PROVE Careful'
  BY <1>2, <1>a, InsertEffect DEF Creating
<1>3. ASSUME NEW s \in Slots, Commit(s) PROVE Careful'
  <2>1. /\ signup[s].pc = "commit" /\ signup[s].id \in UserIds
        /\ signup'[s] = NoSignup
        /\ \A t \in Slots \ {s} : signup'[t] = signup[t]
        /\ \A m : m # signup[s].name => Called(m)' = Called(m)
        /\ \A m : m = signup[s].name => Called(m)' = Called(m) \cup {signup[s].id}
    BY <1>3, CommitEffect
  <2>2. /\ \A t \in Slots : \A m : Creating(t, m)' => Creating(t, m) /\ t # s
        /\ Creating(s, signup[s].name)
    BY <2>1 DEF Creating, NoSignup
  <2>3. \A m \in Names \ (overlapped' \cup Doubted') : \A t \in Slots : Creating(t, m)' => Called(m)' = {}
    <3> TAKE m \in Names \ (overlapped' \cup Doubted')
    <3> TAKE t \in Slots
    <3>1. CASE m = signup[s].name
      BY <1>0, <2>2, <3>1 DEF Careful
    <3>2. CASE m # signup[s].name
      BY <1>0, <2>1, <2>2, <3>2 DEF Careful
    <3> QED
      BY <3>1, <3>2
  <2>4. \A m \in Names \ (overlapped' \cup Doubted') : \A u, v \in Called(m)' : u = v
    <3> TAKE m \in Names \ (overlapped' \cup Doubted')
    <3>1. CASE m = signup[s].name
      <4>1. Called(m) = {}
        BY <1>0, <2>2, <3>1 DEF Careful
      <4> QED
        BY <2>1, <3>1, <4>1
    <3>2. CASE m # signup[s].name
      BY <1>0, <2>1, <3>2 DEF Careful
    <3> QED
      BY <3>1, <3>2
  <2>5. \A m \in Names \ overlapped' : \A t, v \in Slots : Creating(t, m)' /\ Creating(v, m)' => t = v
    BY <1>0, <2>2 DEF Careful
  <2> QED
    BY <2>3, <2>4, <2>5 DEF Careful
<1>4. ASSUME NEW L \in SUBSET Slots, Loses(L) PROVE Careful'
  BY <1>4, <1>a, LosesEffect DEF Creating, NoSignup
<1>5. CASE Rests
  <2>1. users' = users /\ signup' = signup
    BY <1>5 DEF Rests
  <2> QED
    BY <1>a, <2>1 DEF Creating, Called
<1> QED
  BY <1>1, <1>2, <1>3, <1>4, <1>5, StepKinds

LEMMA AdminNext == AccountsInv /\ AccountsStep => AdminFirst'
<1> SUFFICES ASSUME AccountsInv, AccountsStep, Admin \notin Doubted' PROVE AdminFirst'
  BY DEF AdminFirst
<1>0. /\ AccountsTypes /\ \A s \in Slots : SlotOwnsItsRow(s)
      /\ Doubted \subseteq Doubted'
  BY NamesGrow DEF NamesStay, AccountsInv
<1>b. /\ booted # {} => Admins # {}
      /\ \A r \in Requests : ~Creating(r, Admin)
      /\ \A u \in UserIds : Taken(u) /\ users[u].name = Admin => users[u].admin
      /\ Admins # {} => Called(Admin) # {}
  <2>1. Admins \subseteq Called(Admin)
    BY DEF AccountsInv, Rows, Admins, Called, Taken
  <2> QED
    BY <1>0, <2>1 DEF AccountsInv, AdminFirst
<1>s. Requests \subseteq Slots /\ \A r \in Requests : r \notin Processes
  BY AccountsAssumption DEF Slots
<1>1. ASSUME NEW s \in Slots, NEW n \in Names, NEW p \in Owners, Begins(s, n, p) PROVE AdminFirst'
  <2>1. /\ \A t \in Slots \ {s} : signup'[t] = signup[t]
        /\ signup'[s].name = n /\ Admins' = Admins
    BY <1>1, BeginsEffect
  <2>2. s \in Requests => n # Admin
    <3> SUFFICES ASSUME s \in Requests, n = Admin PROVE FALSE
      OBVIOUS
    <3>1. Called(Admin) = {} /\ Server \in booted
      BY <1>1, <1>s DEF Begins, Doubted
    <3> QED
      BY <1>b, <3>1
  <2>3. users' = users /\ booted' = booted
    BY <1>1 DEF Begins
  <2> QED
    BY <1>b, <1>s, <2>1, <2>2, <2>3 DEF AdminFirst, Creating, Taken
<1>2. ASSUME NEW s \in Slots, Insert(s) PROVE AdminFirst'
  <2>1. PICK u \in UserIds :
              /\ users'[u] = [status |-> "pending", name |-> signup[s].name, owner |-> signup[s].owner,
                              admin |-> s \in Processes]
              /\ \A v \in UserIds \ {u} : users'[v] = users[v]
              /\ signup[s].pc = "create" /\ signup'[s].name = signup[s].name
              /\ \A t \in Slots \ {s} : signup'[t] = signup[t]
              /\ Admins' = Admins
              /\ booted' = booted
    BY <1>2, InsertEffect
  <2>2. s \in Requests => signup[s].name # Admin
    BY <1>b, <2>1 DEF Creating
  <2>3. s \in Requests \/ s \in Processes
    BY DEF Slots
  <2>4. \A r \in Requests : ~Creating(r, Admin)'
    BY <1>b, <1>s, <2>1, <2>2 DEF Creating
  <2>5. \A v \in UserIds : Taken(v)' /\ users'[v].name = Admin => users'[v].admin
    <3> TAKE v \in UserIds
    <3>1. CASE v = u
      <4>1. users'[v].name = signup[s].name /\ users'[v].admin = (s \in Processes)
        BY <2>1, <3>1
      <4> QED
        BY <2>2, <2>3, <4>1
    <3>2. CASE v # u
      BY <1>b, <2>1, <3>2 DEF Taken
    <3> QED
      BY <3>1, <3>2
  <2> QED
    BY <1>b, <2>1, <2>4, <2>5 DEF AdminFirst
<1>3. ASSUME NEW s \in Slots, Commit(s) PROVE AdminFirst'
  <2>1. /\ signup[s].pc = "commit" /\ signup[s].id \in UserIds /\ users[signup[s].id].status = "pending"
        /\ users[signup[s].id].name = signup[s].name
        /\ users'[signup[s].id].name = users[signup[s].id].name
        /\ users'[signup[s].id].admin = users[signup[s].id].admin
        /\ \A v \in UserIds \ {signup[s].id} : users'[v] = users[v]
        /\ signup'[s] = NoSignup
        /\ \A t \in Slots \ {s} : signup'[t] = signup[t]
        /\ Admins \subseteq Admins'
        /\ users[signup[s].id].admin => signup[s].id \in Admins'
        /\ booted' = (IF s \in Processes THEN booted \cup {s} ELSE booted)
    BY <1>3, CommitEffect
  <2>2. s \in Processes => Admins' # {}
    <3> SUFFICES ASSUME s \in Processes PROVE Admins' # {}
      OBVIOUS
    <3>1. signup[s].name = Admin
      BY <1>0, <2>1 DEF SlotOwnsItsRow
    <3> QED
      BY <1>b, <2>1, <3>1 DEF Taken
  <2>3. booted' # {} => Admins' # {}
    BY <1>b, <2>1, <2>2
  <2>4. \A r \in Requests : ~Creating(r, Admin)'
    BY <1>b, <1>s, <2>1 DEF Creating, NoSignup
  <2>5. \A v \in UserIds : Taken(v)' /\ users'[v].name = Admin => users'[v].admin
    <3> TAKE v \in UserIds
    <3>1. CASE v = signup[s].id
      BY <1>b, <2>1, <3>1 DEF Taken
    <3>2. CASE v # signup[s].id
      BY <1>b, <2>1, <3>2 DEF Taken
    <3> QED
      BY <3>1, <3>2
  <2> QED
    BY <2>3, <2>4, <2>5 DEF AdminFirst
<1>4. ASSUME NEW L \in SUBSET Slots, Loses(L) PROVE AdminFirst'
  <2>1. /\ \A u \in UserIds : users'[u] = users[u] \/ users'[u].status = "void"
        /\ \A t \in L : signup'[t] = NoSignup
        /\ \A t \in Slots \ L : signup'[t] = signup[t]
        /\ Admins' = Admins
        /\ booted' \subseteq booted \/ Admins # {}
    BY <1>4, LosesEffect DEF Loses
  <2>2. \A r \in Requests : ~Creating(r, Admin)'
    BY <1>b, <1>s, <2>1 DEF Creating, NoSignup
  <2>3. \A v \in UserIds : Taken(v)' /\ users'[v].name = Admin => users'[v].admin
    BY <1>b, <2>1 DEF Taken
  <2> QED
    BY <1>b, <2>1, <2>2, <2>3 DEF AdminFirst
<1>5. CASE Rests
  <2>1. users' = users /\ signup' = signup /\ (booted' \subseteq booted \/ Admins # {})
    BY <1>5 DEF Rests
  <2> QED
    BY <1>b, <2>1 DEF AdminFirst, Creating, Taken, Admins
<1> QED
  BY <1>1, <1>2, <1>3, <1>4, <1>5, StepKinds

LEMMA AccountsNextInv == AccountsInv /\ AccountsStep => AccountsInv'
BY TypesNext, RowsNext, SlotsNext, OneWriterNext, LaterNext, CookiesNext, CarefulNext, AdminNext
   DEF AccountsInv
=============================================================================
