----------------------------- MODULE EventTable -----------------------------
(***************************************************************************)
(* The event table under concurrent requests of organisers: CreateEvent,   *)
(* SetEventLive and DeleteEvent are one statement each, SetActiveEvent is  *)
(* a transaction of up to three (First, Save, Update).                     *)
(*                                                                         *)
(* On SQLite (gorm's deferred BEGIN, the default rollback journal) a       *)
(* transaction holds a shared lock on the database from First on, takes    *)
(* the reserved lock with its first write, which one transaction can have, *)
(* and needs the exclusive lock to commit, when nobody else has a shared   *)
(* one.  So any number of transactions are past First at once, and a       *)
(* statement, or the commit, that waits for a lock longer than the busy    *)
(* timeout fails with SQLITE_BUSY; a commit that fails is rolled back.     *)
(* On MySQL and MariaDB (repeatable read) reads do not lock, a statement   *)
(* that writes locks its row until the transaction ends, and one that      *)
(* waits for a lock may be refused (deadlock, lock wait timeout).          *)
(***************************************************************************)
EXTENDS Naturals, FiniteSets

CONSTANTS
    Ids,        \* autoincrement event ids
    Sessions,   \* requests to /event/:id/active being served at once
    Drivers,    \* the configured drivers considered
    None,
    Faults      \* {"db"} if statements may fail for want of a server or a disk

ASSUME EventTableAssumption ==
    /\ Ids \subseteq Nat
    /\ Drivers \subseteq {"sqlite", "mysql"}
    /\ None \notin Ids
    /\ Faults \subseteq {"db"}

VARIABLES
    driver,     \* database.driver of the configuration
    table,      \* the committed rows, with those of deleted events kept
    tx,         \* tx[s]: the SetActiveEvent transaction of session s
    dropped     \* ghost: a transaction has committed without the Save it
                \* should have made of another event, whose error it dropped

vars == <<driver, table, tx, dropped>>

Rows == [status : {"unborn", "present", "deleted"}, live : BOOLEAN, active : BOOLEAN]

NoRow == [status |-> "unborn", live |-> FALSE, active |-> FALSE]

\* row is the activeEvent the transaction has read, saved tells whether it
\* has written it back.
Transactions == [pc : {"idle", "save", "update", "commit"}, target : Ids \cup {None},
                 found : Ids \cup {None}, row : Rows, saved : BOOLEAN]

NoTx == [pc |-> "idle", target |-> None, found |-> None, row |-> NoRow, saved |-> FALSE]

Init ==
    /\ driver \in Drivers
    /\ table = [e \in Ids |-> NoRow]
    /\ tx = [s \in Sessions |-> NoTx]
    /\ dropped = FALSE

-----------------------------------------------------------------------------
Present(e) == table[e].status = "present"
ActiveIds == {e \in Ids : Present(e) /\ table[e].active}

\* First(&event, &Event{Active: true}): the lowest id, or ErrRecordNotFound.
Lowest(S) == IF S = {} THEN None ELSE CHOOSE e \in S : \A d \in S : e <= d

\* GetActiveEvent, which the landing page of single event mode shows.
Landing == Lowest(ActiveIds)

\* The rows transaction s has written, and the rows it can see.
Locks(s) ==
    (IF tx[s].saved THEN {tx[s].found} ELSE {}) \cup
    (IF tx[s].pc = "commit" THEN {tx[s].target} ELSE {})

Seen(s, e) == Present(e) \/ (tx[s].saved /\ tx[s].found = e)

\* Whether a statement of s may write row e: no other transaction has written
\* anything (SQLite's reserved lock), or that row (MySQL).
Writable(s, e) ==
    \A t \in Sessions \ {s} :
        IF driver = "sqlite" THEN Locks(t) = {} ELSE e \notin Locks(t)

\* Whether it may fail.  On SQLite it always may: somebody who has nothing to
\* do with these rows, such as an upload's AddFileInfo, can hold the lock.
Refusable(s, e) ==
    ~Writable(s, e) \/ driver = "sqlite" \/ "db" \in Faults

\* Mutant: d.db.First in place of tx.First, which keeps no shared lock.
Unlocked_FirstOutsideTx(e) ==
    \A t \in Sessions :
        IF driver = "sqlite" THEN Locks(t) = {} ELSE e \notin Locks(t)

\* Whether a statement outside of any transaction goes through: on SQLite it
\* commits on its own, with the exclusive lock.
Unlocked(e) ==
    \A t \in Sessions :
        IF driver = "sqlite" THEN tx[t].pc = "idle" ELSE e \notin Locks(t)

Rollback(s) == tx' = [tx EXCEPT ![s] = NoTx]

-----------------------------------------------------------------------------
(* Single statements                                                       *)

CreateEvent(e) ==
    /\ table[e].status = "unborn"
    /\ \A d \in Ids : d < e => table[d].status # "unborn"
    /\ Unlocked(e)
    /\ \E live \in BOOLEAN :
          table' = [table EXCEPT ![e] = [status |-> "present", live |-> live, active |-> FALSE]]
    /\ UNCHANGED <<driver, tx, dropped>>

SetEventLive(e) ==
    /\ Present(e)
    /\ Unlocked(e)
    /\ \E live \in BOOLEAN : table' = [table EXCEPT ![e].live = live]
    /\ UNCHANGED <<driver, tx, dropped>>

DeleteEvent(e) ==
    /\ Present(e)
    /\ Unlocked(e)
    /\ table' = [table EXCEPT ![e].status = "deleted"]
    /\ UNCHANGED <<driver, tx, dropped>>

-----------------------------------------------------------------------------
(* SetActiveEvent                                                          *)

\* Mutant: ErrRecordNotFound is not told from success, and a zero row saved.
TxFirst_NotFoundSaved(s) ==
    /\ tx[s].pc = "idle"
    /\ \E e \in Ids :
          tx' = [tx EXCEPT ![s] = [pc |-> "save", target |-> e, found |-> Lowest(ActiveIds),
                                   row |-> NoRow, saved |-> FALSE]]
    /\ UNCHANGED <<driver, table, dropped>>

\* Begin and First, whatever other transactions do.  Any number can stand in
\* the URL.
TxFirst(s) ==
    /\ tx[s].pc = "idle"
    /\ \E e \in Ids :
          LET found == Lowest(ActiveIds)
          IN  tx' = [tx EXCEPT ![s] =
                       [pc |-> IF found = None THEN "update" ELSE "save",
                        target |-> e, found |-> found,
                        row |-> IF found = None THEN NoRow ELSE table[found],
                        saved |-> FALSE]]
    /\ UNCHANGED <<driver, table, dropped>>

\* tx.Save(activeEvent), with every column of the row read above.  An UPDATE
\* that hits no row is followed by an INSERT, which brings a deleted row back
\* (or, if gorm cannot write to the value it was given, a panic: a rollback).
\* Nobody looks at Save's error.
TxSave(s) ==
    /\ tx[s].pc = "save"
    /\ \/ /\ Writable(s, tx[s].found)
          /\ tx' = [tx EXCEPT ![s].pc = "update", ![s].saved = TRUE]
       \/ /\ Writable(s, tx[s].found)
          /\ ~Present(tx[s].found)
          /\ Rollback(s)
       \/ /\ Refusable(s, tx[s].found)
          /\ tx' = [tx EXCEPT ![s].pc = "update"]
    /\ UNCHANGED <<driver, table, dropped>>

\* Mutant: RowsAffected is not looked at.
TxUpdate_NoneAffected(s) ==
    /\ tx[s].pc = "update"
    /\ tx' = [tx EXCEPT ![s].pc = "commit"]
    /\ UNCHANGED <<driver, table, dropped>>

\* Update("active", true), which must affect one row.
TxUpdate(s) ==
    /\ tx[s].pc = "update"
    /\ \/ /\ Writable(s, tx[s].target)
          /\ Seen(s, tx[s].target)
          /\ tx' = [tx EXCEPT ![s].pc = "commit"]
       \/ /\ Refusable(s, tx[s].target) \/ ~Seen(s, tx[s].target)
          /\ Rollback(s)
    /\ UNCHANGED <<driver, table, dropped>>

\* Mutant: Updates in place of Save, which leaves out zero values.
Written_ZeroSkipped(s) == [table EXCEPT ![tx[s].target].active = TRUE]

\* The table once the two writes of s are committed.
Written(s) ==
    LET saved == IF tx[s].saved
                 THEN [table EXCEPT ![tx[s].found] = [tx[s].row EXCEPT !.active = FALSE]]
                 ELSE table
    IN  [saved EXCEPT ![tx[s].target].active = TRUE]

\* s commits without having taken down the event it had found active.
SaveLost(s) == ~tx[s].saved /\ tx[s].found \notin {None, tx[s].target}

\* The transaction ends, and what it wrote is kept or rolled back.  On SQLite
\* it is kept only if nobody else is past First.
TxCommit(s) ==
    /\ tx[s].pc = "commit"
    /\ \/ /\ driver = "sqlite" => \A t \in Sessions \ {s} : tx[t].pc = "idle"
          /\ table' = Written(s)
          /\ dropped' = IF SaveLost(s) THEN TRUE ELSE dropped
       \/ /\ driver = "sqlite" \/ "db" \in Faults
          /\ UNCHANGED <<table, dropped>>
    /\ Rollback(s)
    /\ UNCHANGED driver

TxStep(s) == TxFirst(s) \/ TxSave(s) \/ TxUpdate(s) \/ TxCommit(s)

Next ==
    \/ \E e \in Ids : CreateEvent(e) \/ SetEventLive(e) \/ DeleteEvent(e)
    \/ \E s \in Sessions : TxStep(s)

Spec == Init /\ [][Next]_vars

-----------------------------------------------------------------------------
(* Properties *)

EventTableTypeOK ==
    /\ driver \in Drivers
    /\ table \in [Ids -> Rows]
    /\ tx \in [Sessions -> Transactions]
    /\ dropped \in BOOLEAN
    /\ \A s \in Sessions :
          /\ tx[s].pc # "idle" => tx[s].target # None
          /\ tx[s].pc = "save" \/ tx[s].saved => tx[s].found # None

\* The landing page is never left without an event because of an activation:
\* the last active event goes only when it is deleted (SetActiveEvent takes
\* the old one down and puts the new one up in one transaction, and undoes
\* the first when the second affects no row).
LandingNeverLost ==
    [][ActiveIds # {} /\ ActiveIds' = {} => \E e \in Ids : DeleteEvent(e)]_vars

\* What the organiser sees of the table (an EventRegister).
R == INSTANCE EventRegister WITH
        present <- {e \in Ids : Present(e)},
        open <- {e \in Ids : Present(e) /\ table[e].live},
        landing <- Landing

\* On SQLite, and as long as no transaction has committed without its Save,
\* the table is an EventRegister: the landing page shows the event activated
\* last, and activating one event changes nothing else of it or of another,
\* although several activations are under way at once.
KeepsRegister ==
    [][driver = "sqlite" /\ ~dropped' => [R!RegisterNext]_R!registerVars]_vars

\* What s has read is still so: its active event is the one the landing page
\* shows, and its row, which Save writes back whole, is as it was.
IsCurrent(s) ==
    tx[s].pc # "idle" =>
        /\ tx[s].found = Landing
        /\ tx[s].found # None => tx[s].row = table[tx[s].found]
        /\ tx[s].pc = "commit" => Present(tx[s].target)

\* On SQLite no activation works with a stale copy, so none undoes another or
\* a SetEventLive: the locks refuse or roll back the rest, however many have
\* read before one of them writes.  And two events are active only once a
\* transaction has committed without its Save.
ReadsStayCurrent ==
    driver = "sqlite" =>
        /\ \A s \in Sessions : IsCurrent(s)
        /\ ~dropped => \A d, e \in ActiveIds : d = e

-----------------------------------------------------------------------------
(* What the code says and does not do *)

\* SetActiveEvent first takes down the one that "may" be active already: there
\* is at most one.
AtMostOneActive == Cardinality(ActiveIds) <= 1
=============================================================================
