------------------------- MODULE EventTableProofs -------------------------
(***************************************************************************)
(* Theorems about EventTable, for any sets of events and sessions.         *)
(***************************************************************************)
EXTENDS EventTable, WellFoundedInduction, TLAPS

-----------------------------------------------------------------------------
(* First: the lowest id                                                    *)

\* A set of naturals that is not empty has a smallest element.
LEMMA SmallestExists ==
    ASSUME NEW T, T \subseteq Nat, T # {}
    PROVE  \E x \in T : \A y \in T : x <= y
<1> DEFINE Less == {ss \in Nat \X Nat : ss[1] < ss[2]}
<1>1. IsWellFoundedOn(Less, Nat)
  BY NatLessThanWellFounded DEF OpToRel
<1>2. \A x, y \in Nat : <<y, x>> \notin Less => x <= y
  OBVIOUS
<1> HIDE DEF Less
<1>3. \E x \in T : \A y \in T : ~(<<y, x>> \in Less)
  BY <1>1, WFMin
<1> QED
  BY <1>2, <1>3

\* First finds an element of the set, and only of a set that has one.
LEMMA LowestIsIn ==
    ASSUME NEW S, S \subseteq Ids
    PROVE  /\ S = {} => Lowest(S) = None
           /\ S # {} => Lowest(S) \in S
<1>1. CASE S = {}
  BY <1>1 DEF Lowest
<1>2. CASE S # {}
  <2>1. \E e \in S : \A d \in S : e <= d
    BY <1>2, SmallestExists, EventTableAssumption
  <2> QED
    BY <1>2, <2>1 DEF Lowest
<1> QED
  BY <1>1, <1>2

LEMMA LowestOfOne ==
    ASSUME NEW e \in Ids
    PROVE  Lowest({e}) = e
BY LowestIsIn

-----------------------------------------------------------------------------
(* Types                                                                   *)

LEMMA FoundType == Lowest(ActiveIds) \in Ids \cup {None}
BY LowestIsIn DEF ActiveIds

LEMMA WrittenType ==
    ASSUME EventTableTypeOK, NEW s \in Sessions, tx[s].pc # "idle"
    PROVE  Written(s) \in [Ids -> Rows]
<1>1. tx[s] \in Transactions /\ table \in [Ids -> Rows]
  BY DEF EventTableTypeOK
<1>2. tx[s].target \in Ids /\ (tx[s].saved => tx[s].found \in Ids) /\ tx[s].row \in Rows
  BY <1>1 DEF EventTableTypeOK, Transactions
<1> DEFINE saved == IF tx[s].saved
                    THEN [table EXCEPT ![tx[s].found] = [tx[s].row EXCEPT !.active = FALSE]]
                    ELSE table
<1>3. [tx[s].row EXCEPT !.active = FALSE] \in Rows
  BY <1>2 DEF Rows
<1>4. saved \in [Ids -> Rows]
  BY <1>1, <1>2, <1>3
<1> HIDE DEF saved
<1>5. [saved[tx[s].target] EXCEPT !.active = TRUE] \in Rows
  BY <1>2, <1>4 DEF Rows
<1>6. [saved EXCEPT ![tx[s].target].active = TRUE] \in [Ids -> Rows]
  BY <1>2, <1>4, <1>5
<1> QED
  BY <1>6 DEF Written, saved

LEMMA NoTxType == NoTx \in Transactions
<1>1. NoRow \in Rows
  BY DEF NoRow, Rows
<1> QED
  BY <1>1 DEF NoTx, Transactions

LEMMA TypeInit == Init => EventTableTypeOK
<1>1. NoRow \in Rows
  BY DEF NoRow, Rows
<1>2. NoTx.pc = "idle" /\ NoTx.saved = FALSE
  BY DEF NoTx
<1> QED
  BY <1>1, <1>2, NoTxType DEF Init, EventTableTypeOK

\* A statement that leaves session s with a proper record.
LEMMA TxSet ==
    ASSUME EventTableTypeOK, NEW s \in Sessions, NEW new \in Transactions,
           new.pc # "idle" => new.target # None,
           new.pc = "save" \/ new.saved => new.found # None,
           tx' = [tx EXCEPT ![s] = new],
           driver' = driver, table' \in [Ids -> Rows], dropped' \in BOOLEAN
    PROVE  EventTableTypeOK'
BY DEF EventTableTypeOK

LEMMA RollbackType ==
    ASSUME EventTableTypeOK, NEW s \in Sessions, Rollback(s),
           driver' = driver, table' \in [Ids -> Rows], dropped' \in BOOLEAN
    PROVE  EventTableTypeOK'
<1>1. NoTx.pc = "idle" /\ NoTx.saved = FALSE
  BY DEF NoTx
<1> QED
  BY <1>1, NoTxType, TxSet DEF Rollback

LEMMA TypeStep == EventTableTypeOK /\ [Next]_vars => EventTableTypeOK'
<1> SUFFICES ASSUME EventTableTypeOK, [Next]_vars PROVE EventTableTypeOK'
  OBVIOUS
<1> USE EventTableAssumption
<1>1. ASSUME NEW e \in Ids, CreateEvent(e) PROVE EventTableTypeOK'
  BY <1>1 DEF CreateEvent, EventTableTypeOK, Rows
<1>2. ASSUME NEW e \in Ids, SetEventLive(e) PROVE EventTableTypeOK'
  BY <1>2 DEF SetEventLive, EventTableTypeOK, Rows
<1>3. ASSUME NEW e \in Ids, DeleteEvent(e) PROVE EventTableTypeOK'
  BY <1>3 DEF DeleteEvent, EventTableTypeOK, Rows
<1>4. ASSUME NEW s \in Sessions, TxFirst(s) PROVE EventTableTypeOK'
  <2> DEFINE found == Lowest(ActiveIds)
  <2>1. found \in Ids \cup {None}
    BY FoundType
  <2>2. PICK e \in Ids : tx' = [tx EXCEPT ![s] =
               [pc |-> IF found = None THEN "update" ELSE "save",
                target |-> e, found |-> found,
                row |-> IF found = None THEN NoRow ELSE table[found],
                saved |-> FALSE]]
    BY <1>4 DEF TxFirst
  <2> DEFINE new == [pc |-> IF found = None THEN "update" ELSE "save",
                     target |-> e, found |-> found,
                     row |-> IF found = None THEN NoRow ELSE table[found],
                     saved |-> FALSE]
  <2> HIDE DEF found
  <2>3. new \in Transactions
    BY <2>1 DEF EventTableTypeOK, Transactions, NoRow, Rows
  <2>4. /\ new.target # None
        /\ new.pc = "save" \/ new.saved => new.found # None
    OBVIOUS
  <2> HIDE DEF new
  <2>5. tx' = [tx EXCEPT ![s] = new]
    BY <2>2 DEF new
  <2> QED
    BY <1>4, <2>3, <2>4, <2>5 DEF TxFirst, EventTableTypeOK
<1>5. ASSUME NEW s \in Sessions, TxSave(s) PROVE EventTableTypeOK'
  <2> DEFINE next(saved) == [tx[s] EXCEPT !.pc = "update", !.saved = saved]
  <2>1. tx[s] \in Transactions /\ tx[s].pc = "save"
    BY <1>5 DEF TxSave, EventTableTypeOK
  <2>2. tx[s].target # None /\ tx[s].found # None
    BY <2>1 DEF EventTableTypeOK
  <2>3. ASSUME NEW saved \in BOOLEAN
        PROVE  /\ next(saved) \in Transactions
               /\ next(saved).target # None
               /\ next(saved).found # None
    BY <2>1, <2>2 DEF Transactions
  <2>4. \/ tx' = [tx EXCEPT ![s] = next(TRUE)]
        \/ tx' = [tx EXCEPT ![s] = next(tx[s].saved)]
        \/ Rollback(s)
    BY <1>5, <2>1 DEF TxSave, EventTableTypeOK, Transactions
  <2>5. driver' = driver /\ table' \in [Ids -> Rows] /\ dropped' \in BOOLEAN
    BY <1>5 DEF TxSave, EventTableTypeOK
  <2>6. tx[s].saved \in BOOLEAN
    BY <2>1 DEF Transactions
  <2> HIDE DEF next
  <2> QED
    BY <2>3, <2>4, <2>5, <2>6, TxSet, RollbackType
<1>6. ASSUME NEW s \in Sessions, TxUpdate(s) PROVE EventTableTypeOK'
  <2> DEFINE next == [tx[s] EXCEPT !.pc = "commit"]
  <2>1. tx[s] \in Transactions /\ tx[s].pc = "update"
    BY <1>6 DEF TxUpdate, EventTableTypeOK
  <2>2. tx[s].target # None /\ (tx[s].saved => tx[s].found # None)
    BY <2>1 DEF EventTableTypeOK
  <2>3. /\ next \in Transactions
        /\ next.target # None
        /\ next.pc = "save" \/ next.saved => next.found # None
    BY <2>1, <2>2 DEF Transactions
  <2>4. tx' = [tx EXCEPT ![s] = next] \/ Rollback(s)
    BY <1>6, <2>1 DEF TxUpdate, EventTableTypeOK
  <2>5. driver' = driver /\ table' \in [Ids -> Rows] /\ dropped' \in BOOLEAN
    BY <1>6 DEF TxUpdate, EventTableTypeOK
  <2> HIDE DEF next
  <2> QED
    BY <2>3, <2>4, <2>5, TxSet, RollbackType
<1>7. ASSUME NEW s \in Sessions, TxCommit(s) PROVE EventTableTypeOK'
  <2>1. table' \in [Ids -> Rows]
    BY <1>7, WrittenType DEF TxCommit, EventTableTypeOK
  <2>2. driver' = driver /\ dropped' \in BOOLEAN /\ Rollback(s)
    BY <1>7 DEF TxCommit, EventTableTypeOK
  <2> QED
    BY <2>1, <2>2, RollbackType
<1>8. CASE UNCHANGED vars
  BY <1>8 DEF vars, EventTableTypeOK
<1> QED
  BY <1>1, <1>2, <1>3, <1>4, <1>5, <1>6, <1>7, <1>8 DEF Next, TxStep

\* The rows and transactions are well-typed, and no statement uses the active
\* event before First has found one.
THEOREM TableTypeCorrect == Spec => []EventTableTypeOK
BY TypeInit, TypeStep, PTL DEF Spec
-----------------------------------------------------------------------------
(* SQLite: what a transaction has read stays as it was                     *)

\* What the statements outside of transactions do to the active events.
LEMMA StatementsKeepActive ==
    ASSUME EventTableTypeOK, NEW e \in Ids
    PROVE  /\ CreateEvent(e) => ActiveIds' = ActiveIds
           /\ SetEventLive(e) => ActiveIds' = ActiveIds
           /\ DeleteEvent(e) => ActiveIds' = ActiveIds \ {e}
<1>1. CASE CreateEvent(e)
  BY <1>1 DEF CreateEvent, SetEventLive, DeleteEvent, EventTableTypeOK, ActiveIds, Present, Rows
<1>2. CASE SetEventLive(e)
  BY <1>2 DEF CreateEvent, SetEventLive, DeleteEvent, EventTableTypeOK, ActiveIds, Present, Rows
<1>3. CASE DeleteEvent(e)
  BY <1>3 DEF CreateEvent, SetEventLive, DeleteEvent, EventTableTypeOK, ActiveIds, Present, Rows
<1> QED
  BY <1>1, <1>2, <1>3

\* What setting the Active column of one row does to every row.
LEMMA ColumnSet ==
    ASSUME NEW t \in [Ids -> Rows], NEW d \in Ids, NEW b \in BOOLEAN,
           NEW u, u = [t EXCEPT ![d] = [t[d] EXCEPT !.active = b]]
    PROVE  /\ u \in [Ids -> Rows]
           /\ \A e \in Ids : /\ u[e].status = t[e].status
                             /\ u[e].live = t[e].live
                             /\ e # d => u[e] = t[e]
           /\ u[d].active = b
<1>1. [t[d] EXCEPT !.active = b] \in Rows
  BY DEF Rows
<1>2. u \in [Ids -> Rows] /\ u[d] = [t[d] EXCEPT !.active = b]
  BY <1>1
<1>3. u[d].status = t[d].status /\ u[d].live = t[d].live /\ u[d].active = b
  BY <1>2 DEF Rows
<1>4. \A e \in Ids : e # d => u[e] = t[e]
  OBVIOUS
<1> QED
  BY <1>2, <1>3, <1>4

\* What a transaction that is current knows of the active events.
LEMMA CurrentActive ==
    ASSUME EventTableTypeOK, NEW s \in Sessions, tx[s].pc # "idle", IsCurrent(s),
           \A d, e \in ActiveIds : d = e
    PROVE  /\ tx[s].found = None => ActiveIds = {}
           /\ tx[s].found # None => /\ ActiveIds = {tx[s].found}
                                   /\ tx[s].row = table[tx[s].found]
<1>1. ActiveIds \subseteq Ids
  BY DEF ActiveIds
<1>2. /\ ActiveIds = {} => Landing = None
      /\ ActiveIds # {} => Landing \in ActiveIds
  BY <1>1, LowestIsIn DEF Landing
<1>3. CASE tx[s].found = None
  BY <1>1, <1>2, <1>3, EventTableAssumption DEF IsCurrent
<1>4. CASE tx[s].found # None
  BY <1>2, <1>4 DEF IsCurrent
<1> QED
  BY <1>3, <1>4

\* What a commit by a transaction that is current, and has taken down what it
\* found, does to the table.
LEMMA WrittenActivates ==
    ASSUME EventTableTypeOK, NEW s \in Sessions, tx[s].pc = "commit", IsCurrent(s),
           ~SaveLost(s), \A d, e \in ActiveIds : d = e, table' = Written(s)
    PROVE  /\ ActiveIds' = {tx[s].target}
           /\ \A e \in Ids : table'[e].status = table[e].status /\ table'[e].live = table[e].live
<1>1. /\ tx[s].target \in Ids
      /\ Present(tx[s].target)
      /\ table \in [Ids -> Rows]
  BY DEF EventTableTypeOK, Transactions, IsCurrent
<1> DEFINE saved == IF tx[s].saved
                    THEN [table EXCEPT ![tx[s].found] = [tx[s].row EXCEPT !.active = FALSE]]
                    ELSE table
<1>2. /\ saved \in [Ids -> Rows]
      /\ \A e \in Ids : /\ saved[e].status = table[e].status
                        /\ saved[e].live = table[e].live
                        /\ table[e].status = "present" /\ e # tx[s].target
                           => ~saved[e].active
  <2>1. CASE tx[s].saved
    <3>1. /\ tx[s].found \in Ids
          /\ ActiveIds = {tx[s].found}
          /\ tx[s].row = table[tx[s].found]
      <4>1. tx[s].found \in Ids /\ tx[s].found # None
        BY <2>1, EventTableAssumption DEF EventTableTypeOK, Transactions
      <4> QED
        BY <4>1, CurrentActive
    <3>2. saved = [table EXCEPT ![tx[s].found] = [table[tx[s].found] EXCEPT !.active = FALSE]]
      BY <2>1, <3>1
    <3>3. \A e \in Ids : table[e].status = "present" /\ e # tx[s].found => ~table[e].active
      BY <3>1 DEF ActiveIds, Present
    <3> HIDE DEF saved
    <3>4. /\ saved \in [Ids -> Rows]
          /\ \A e \in Ids : /\ saved[e].status = table[e].status
                            /\ saved[e].live = table[e].live
                            /\ e # tx[s].found => saved[e] = table[e]
          /\ saved[tx[s].found].active = FALSE
      <4>1. FALSE \in BOOLEAN
        OBVIOUS
      <4>2. \A b \in BOOLEAN :
               saved = [table EXCEPT ![tx[s].found] = [table[tx[s].found] EXCEPT !.active = b]]
               => /\ saved \in [Ids -> Rows]
                  /\ \A e \in Ids : /\ saved[e].status = table[e].status
                                    /\ saved[e].live = table[e].live
                                    /\ e # tx[s].found => saved[e] = table[e]
                  /\ saved[tx[s].found].active = b
        BY <1>1, <3>1, ColumnSet
      <4> QED
        BY <3>2, <4>1, <4>2
    <3> QED
      BY <3>3, <3>4
  <2>2. CASE ~tx[s].saved
    <3>1. tx[s].found = None \/ tx[s].found = tx[s].target
      BY <2>2 DEF SaveLost
    <3>2. \A e \in ActiveIds : e = tx[s].target
      BY <3>1, CurrentActive
    <3> QED
      BY <1>1, <2>2, <3>2 DEF ActiveIds, Present
  <2> QED
    BY <2>1, <2>2
<1> HIDE DEF saved
<1>3. table' = [saved EXCEPT ![tx[s].target] = [saved[tx[s].target] EXCEPT !.active = TRUE]]
  BY DEF Written, saved
<1>4. /\ \A e \in Ids : /\ table'[e].status = saved[e].status
                        /\ table'[e].live = saved[e].live
                        /\ e # tx[s].target => table'[e] = saved[e]
      /\ table'[tx[s].target].active = TRUE
  BY <1>1, <1>2, <1>3, ColumnSet
<1>5. \A e \in Ids : e \in ActiveIds' <=> e = tx[s].target
  BY <1>1, <1>2, <1>4 DEF ActiveIds, Present
<1>6. ActiveIds' \subseteq Ids
  BY DEF ActiveIds
<1> QED
  BY <1>1, <1>2, <1>4, <1>5, <1>6

LEMMA CurrentInit == Init => ReadsStayCurrent
<1> SUFFICES ASSUME Init PROVE ReadsStayCurrent
  OBVIOUS
<1>1. \A s \in Sessions : tx[s].pc = "idle"
  BY DEF Init, NoTx
<1>2. ActiveIds = {}
  BY DEF Init, ActiveIds, Present, NoRow
<1> QED
  BY <1>1, <1>2 DEF ReadsStayCurrent, IsCurrent

\* A session that stays idle, or keeps what it has read while the table stays
\* as it is, stays current.
LEMMA StaysCurrent ==
    ASSUME NEW s \in Sessions,
           \/ tx'[s].pc = "idle"
           \/ /\ IsCurrent(s)
              /\ table' = table
              /\ tx[s].pc # "idle"
              /\ tx'[s].found = tx[s].found
              /\ tx'[s].row = tx[s].row
              /\ tx'[s].pc = "commit" => Present(tx'[s].target)
    PROVE  IsCurrent(s)'
<1>1. table' = table => Landing' = Landing
  BY DEF Landing, ActiveIds, Present
<1> QED
  BY <1>1 DEF IsCurrent, Present

\* A step of a transaction that leaves the table as it is.
LEMMA TxKeepsCurrent ==
    ASSUME EventTableTypeOK, NEW s \in Sessions, IsCurrent(s),
           TxSave(s) \/ TxUpdate(s) \/ (TxCommit(s) /\ table' = table)
    PROVE  IsCurrent(s)'
<1>1. tx[s] \in Transactions /\ tx \in [Sessions -> Transactions]
  BY DEF EventTableTypeOK
<1>2. CASE Rollback(s)
  <2>1. tx'[s].pc = "idle"
    BY <1>1, <1>2 DEF Rollback, NoTx
  <2> QED
    BY <2>1, StaysCurrent
<1>3. CASE TxSave(s) /\ ~Rollback(s)
  <2>1. /\ table' = table
        /\ tx[s].pc = "save"
        /\ tx'[s].pc = "update"
        /\ tx'[s].found = tx[s].found
        /\ tx'[s].row = tx[s].row
    BY <1>1, <1>3 DEF TxSave, Transactions
  <2> QED
    BY <2>1, StaysCurrent
<1>4. CASE TxUpdate(s) /\ ~Rollback(s)
  <2>1. /\ table' = table
        /\ tx[s].pc = "update"
        /\ tx'[s].found = tx[s].found
        /\ tx'[s].row = tx[s].row
        /\ tx'[s].target = tx[s].target
        /\ Seen(s, tx[s].target)
    BY <1>1, <1>4 DEF TxUpdate, Transactions
  <2>2. ASSUME tx[s].saved, tx[s].found = tx[s].target PROVE Present(tx[s].target)
    <3>1. Landing # None
      BY <2>1, <2>2 DEF IsCurrent, EventTableTypeOK
    <3>2. Landing \in ActiveIds
      BY <3>1, LowestIsIn DEF Landing, ActiveIds
    <3> QED
      BY <2>1, <2>2, <3>2 DEF IsCurrent, ActiveIds
  <2>3. Present(tx[s].target)
    BY <2>1, <2>2 DEF Seen
  <2> QED
    BY <2>1, <2>3, StaysCurrent
<1> QED
  BY <1>2, <1>3, <1>4 DEF TxCommit

LEMMA FirstIsCurrent ==
    ASSUME EventTableTypeOK, NEW s \in Sessions, TxFirst(s)
    PROVE  IsCurrent(s)'
<1> DEFINE found == Lowest(ActiveIds)
<1>1. PICK e \in Ids : tx'[s] =
             [pc |-> IF found = None THEN "update" ELSE "save",
              target |-> e, found |-> found,
              row |-> IF found = None THEN NoRow ELSE table[found],
              saved |-> FALSE]
  BY DEF TxFirst, EventTableTypeOK
<1>2. table' = table /\ Landing = found
  BY DEF TxFirst, Landing
<1>3. Landing' = Landing
  BY <1>2 DEF Landing, ActiveIds, Present
<1> HIDE DEF found
<1>4. /\ tx'[s].pc # "commit"
      /\ tx'[s].found = found
      /\ found # None => tx'[s].row = table[found]
  BY <1>1
<1> QED
  BY <1>2, <1>3, <1>4 DEF IsCurrent

LEMMA CurrentStep ==
    ASSUME EventTableTypeOK, ReadsStayCurrent, [Next]_vars
    PROVE  ReadsStayCurrent'
<1> SUFFICES ASSUME driver' = "sqlite" PROVE ReadsStayCurrent'
  BY DEF ReadsStayCurrent
<1>0. driver = "sqlite" /\ (dropped => dropped')
  <2>1. CASE UNCHANGED vars
    BY <2>1 DEF vars
  <2>2. CASE \E e \in Ids : CreateEvent(e) \/ SetEventLive(e) \/ DeleteEvent(e)
    BY <2>2 DEF CreateEvent, SetEventLive, DeleteEvent
  <2>3. CASE \E s \in Sessions : TxStep(s)
    <3>1. ASSUME NEW s \in Sessions, TxCommit(s)
          PROVE  driver' = driver /\ (dropped => dropped')
      <4>1. driver' = driver
        BY <3>1 DEF TxCommit
      <4>2. dropped' \in {TRUE, dropped}
        BY <3>1 DEF TxCommit
      <4>3. dropped = TRUE => dropped' = TRUE
        BY <4>2
      <4> QED
        BY <4>1, <4>3, Zenon
    <3> QED
      BY <2>3, <3>1 DEF TxStep, TxFirst, TxSave, TxUpdate
  <2> QED
    BY <2>1, <2>2, <2>3 DEF Next
<1>1. /\ \A s \in Sessions : IsCurrent(s)
      /\ ~dropped' => \A d, e \in ActiveIds : d = e
  BY <1>0 DEF ReadsStayCurrent
<1>2. CASE \E e \in Ids : CreateEvent(e) \/ SetEventLive(e) \/ DeleteEvent(e)
  <2>1. PICK e \in Ids : CreateEvent(e) \/ SetEventLive(e) \/ DeleteEvent(e)
    BY <1>2
  <2>2. \A s \in Sessions : tx'[s].pc = "idle"
    BY <1>0, <2>1 DEF CreateEvent, SetEventLive, DeleteEvent, Unlocked
  <2>3. ActiveIds' \subseteq ActiveIds
    BY <2>1, StatementsKeepActive
  <2>4. \A s \in Sessions : IsCurrent(s)'
    BY <2>2, StaysCurrent
  <2> QED
    BY <1>1, <2>3, <2>4 DEF ReadsStayCurrent
<1>3. ASSUME NEW s \in Sessions, TxStep(s), table' = table PROVE ReadsStayCurrent'
  <2>1. ActiveIds' = ActiveIds
    BY <1>3 DEF ActiveIds, Present
  <2>2. IsCurrent(s)'
    BY <1>1, <1>3, FirstIsCurrent, TxKeepsCurrent DEF TxStep
  <2>3. \A t \in Sessions \ {s} : tx'[t] = tx[t]
    BY <1>3 DEF TxStep, TxFirst, TxSave, TxUpdate, TxCommit, Rollback, EventTableTypeOK
  <2>4. ASSUME NEW t \in Sessions, t # s PROVE IsCurrent(t)'
    <3>1. tx'[t] = tx[t] /\ IsCurrent(t)
      BY <1>1, <2>3, <2>4
    <3>2. tx[t].pc = "commit" => Present(tx[t].target)
      BY <3>1 DEF IsCurrent
    <3> QED
      BY <1>3, <3>1, <3>2, StaysCurrent
  <2> QED
    BY <1>1, <2>1, <2>2, <2>4 DEF ReadsStayCurrent
<1>4. ASSUME NEW s \in Sessions, TxCommit(s), table' # table PROVE ReadsStayCurrent'
  <2>1. /\ tx[s].pc = "commit"
        /\ \A t \in Sessions \ {s} : tx[t].pc = "idle"
        /\ table' = Written(s)
        /\ dropped' = IF SaveLost(s) THEN TRUE ELSE dropped
        /\ Rollback(s)
    BY <1>0, <1>4 DEF TxCommit
  <2>2. \A t \in Sessions : tx'[t].pc = "idle"
    BY <2>1 DEF Rollback, NoTx, EventTableTypeOK
  <2>3. \A t \in Sessions : IsCurrent(t)'
    BY <2>2, StaysCurrent
  <2>4. ASSUME ~dropped' PROVE \A d, e \in ActiveIds' : d = e
    <3>1. ActiveIds' = {tx[s].target}
      BY <1>1, <2>1, <2>4, WrittenActivates
    <3> QED
      BY <3>1
  <2> QED
    BY <2>3, <2>4 DEF ReadsStayCurrent
<1>5. CASE UNCHANGED vars
  <2>1. table' = table /\ tx' = tx /\ dropped' = dropped
    BY <1>5 DEF vars
  <2>2. ActiveIds' = ActiveIds /\ Landing' = Landing
    BY <2>1 DEF Landing, ActiveIds, Present
  <2> QED
    BY <1>1, <2>1, <2>2 DEF ReadsStayCurrent, IsCurrent, Present
<1>6. ASSUME NEW s \in Sessions, TxStep(s) PROVE table' = table \/ TxCommit(s)
  BY <1>6 DEF TxStep, TxFirst, TxSave, TxUpdate
<1> QED
  BY <1>2, <1>3, <1>4, <1>5, <1>6 DEF Next

\* On SQLite no activation works with a stale copy, however many are under way:
\* what each has read of the active event is so until it ends, and as long as
\* none has committed without its Save one event at most is active
\* (SetActiveEvent; SQLite's locks).
THEOREM ReadsAlwaysCurrent == Spec => []ReadsStayCurrent
<1>1. EventTableTypeOK /\ ReadsStayCurrent /\ [Next]_vars => ReadsStayCurrent'
  BY CurrentStep
<1> QED
  BY <1>1, CurrentInit, TableTypeCorrect, PTL DEF Spec

-----------------------------------------------------------------------------
(* Any driver: a commit puts up an event that is there                     *)

\* The row a transaction is about to commit is there for it to see, and the
\* one it takes down was there when it was read.
Committable ==
    \A s \in Sessions :
        /\ tx[s].pc = "commit" => Seen(s, tx[s].target)
        /\ tx[s].pc = "save" \/ tx[s].saved => tx[s].row.status = "present"

LEMMA CommittableInit == Init => Committable
<1>1. NoTx.pc = "idle" /\ NoTx.saved = FALSE
  BY DEF NoTx
<1> QED
  BY <1>1 DEF Init, Committable

\* A commit leaves every event that was there, and the target active.
LEMMA WrittenLands ==
    ASSUME EventTableTypeOK, Committable, NEW s \in Sessions, tx[s].pc = "commit",
           table' = Written(s)
    PROVE  /\ \A e \in Ids : Present(e) => Present(e)'
           /\ tx[s].target \in ActiveIds'
<1>1. /\ tx[s].target \in Ids
      /\ tx[s].saved => tx[s].found \in Ids
      /\ tx[s].row \in Rows
      /\ table \in [Ids -> Rows]
  BY DEF EventTableTypeOK, Transactions
<1>2. /\ Seen(s, tx[s].target)
      /\ tx[s].saved => tx[s].row.status = "present"
  BY DEF Committable
<1> DEFINE saved == IF tx[s].saved
                    THEN [table EXCEPT ![tx[s].found] = [tx[s].row EXCEPT !.active = FALSE]]
                    ELSE table
<1>3. /\ saved \in [Ids -> Rows]
      /\ \A e \in Ids : Present(e) => saved[e].status = "present"
      /\ saved[tx[s].target].status = "present"
  <2>1. CASE tx[s].saved
    <3> DEFINE down == [tx[s].row EXCEPT !.active = FALSE]
    <3>1. down \in Rows /\ down.status = "present"
      BY <1>1, <1>2, <2>1 DEF Rows
    <3> HIDE DEF down
    <3>2. saved = [table EXCEPT ![tx[s].found] = down]
      BY <2>1 DEF down
    <3> HIDE DEF saved
    <3> QED
      BY <1>1, <1>2, <2>1, <3>1, <3>2 DEF Present, Seen
  <2>2. CASE ~tx[s].saved
    BY <1>1, <1>2, <2>2 DEF Present, Seen
  <2> QED
    BY <2>1, <2>2
<1> HIDE DEF saved
<1>4. table' = [saved EXCEPT ![tx[s].target] = [saved[tx[s].target] EXCEPT !.active = TRUE]]
  BY DEF Written, saved
<1>5. /\ \A e \in Ids : table'[e].status = saved[e].status
      /\ table'[tx[s].target].active = TRUE
  BY <1>1, <1>3, <1>4, ColumnSet
<1> QED
  BY <1>1, <1>3, <1>5 DEF Present, ActiveIds

LEMMA CommittableStep ==
    ASSUME EventTableTypeOK, Committable, [Next]_vars
    PROVE  Committable'
<1>1. ASSUME tx' = tx,
             \A s \in Sessions : tx[s].pc = "commit" /\ Present(tx[s].target)
                                => Present(tx[s].target)'
      PROVE  Committable'
  BY <1>1 DEF Committable, Seen
<1>2. ASSUME NEW e \in Ids, CreateEvent(e) \/ SetEventLive(e) PROVE Committable'
  <2>1. tx' = tx /\ \A d \in Ids : Present(d) => Present(d)'
    BY <1>2 DEF CreateEvent, SetEventLive, Present, EventTableTypeOK, Rows
  <2>2. \A s \in Sessions : tx[s].pc = "commit" => tx[s].target \in Ids
    BY DEF EventTableTypeOK, Transactions
  <2> QED
    BY <1>1, <2>1, <2>2
<1>3. ASSUME NEW e \in Ids, DeleteEvent(e) PROVE Committable'
  <2>1. tx' = tx /\ \A d \in Ids : d # e /\ Present(d) => Present(d)'
    BY <1>3 DEF DeleteEvent, Present, EventTableTypeOK
  <2>2. \A s \in Sessions : tx[s].pc = "commit" => tx[s].target \in Ids /\ tx[s].target # e
    BY <1>3 DEF DeleteEvent, Unlocked, Locks, EventTableTypeOK, Transactions
  <2> QED
    BY <1>1, <2>1, <2>2
<1>4. ASSUME NEW s \in Sessions, TxStep(s), Rollback(s),
             \A e \in Ids : Present(e) => Present(e)'
      PROVE  Committable'
  <2>1. NoTx.pc = "idle" /\ NoTx.saved = FALSE
    BY DEF NoTx
  <2>2. \A t \in Sessions : tx'[t] = IF t = s THEN NoTx ELSE tx[t]
    BY <1>4 DEF Rollback, EventTableTypeOK
  <2>3. \A t \in Sessions : tx[t].pc = "commit" => tx[t].target \in Ids
    BY DEF EventTableTypeOK, Transactions
  <2> QED
    BY <1>4, <2>1, <2>2, <2>3 DEF Committable, Seen
<1>5. ASSUME NEW s \in Sessions, table' = table,
             \A t \in Sessions \ {s} : tx'[t] = tx[t],
             tx'[s].pc = "commit" => Seen(s, tx[s].target) /\ tx'[s].target = tx[s].target
                                     /\ tx'[s].saved = tx[s].saved /\ tx'[s].found = tx[s].found,
             tx'[s].pc = "save" \/ tx'[s].saved => tx'[s].row.status = "present"
      PROVE  Committable'
  BY <1>5 DEF Committable, Seen, Present
<1>6. ASSUME NEW s \in Sessions, TxFirst(s) PROVE Committable'
  <2>1. table' = table /\ \A t \in Sessions \ {s} : tx'[t] = tx[t]
    BY <1>6 DEF TxFirst, EventTableTypeOK
  <2>2. PICK e \in Ids : tx'[s] =
               [pc |-> IF Lowest(ActiveIds) = None THEN "update" ELSE "save",
                target |-> e, found |-> Lowest(ActiveIds),
                row |-> IF Lowest(ActiveIds) = None THEN NoRow ELSE table[Lowest(ActiveIds)],
                saved |-> FALSE]
    BY <1>6 DEF TxFirst, EventTableTypeOK
  <2>3. Lowest(ActiveIds) # None => Lowest(ActiveIds) \in ActiveIds
    BY LowestIsIn DEF ActiveIds
  <2>4. Lowest(ActiveIds) # None => table[Lowest(ActiveIds)].status = "present"
    BY <2>3 DEF ActiveIds, Present
  <2> QED
    BY <1>5, <2>1, <2>2, <2>4
<1>7. ASSUME NEW s \in Sessions, TxSave(s) PROVE Committable'
  <2>1. table' = table /\ tx[s].pc = "save" /\ tx[s] \in Transactions
    BY <1>7 DEF TxSave, EventTableTypeOK
  <2>2. CASE Rollback(s)
    BY <1>4, <1>7, <2>1, <2>2 DEF TxStep, Present
  <2>3. CASE ~Rollback(s)
    <3>1. /\ \A t \in Sessions \ {s} : tx'[t] = tx[t]
          /\ \/ tx'[s] = [tx[s] EXCEPT !.pc = "update", !.saved = TRUE]
             \/ tx'[s] = [tx[s] EXCEPT !.pc = "update"]
      BY <1>7, <2>3 DEF TxSave, EventTableTypeOK
    <3>2. tx'[s].pc = "update" /\ tx'[s].row = tx[s].row
      BY <2>1, <3>1 DEF Transactions
    <3> QED
      BY <1>5, <2>1, <3>1, <3>2 DEF Committable
  <2> QED
    BY <2>2, <2>3
<1>8. ASSUME NEW s \in Sessions, TxUpdate(s) PROVE Committable'
  <2>1. table' = table /\ tx[s] \in Transactions
    BY <1>8 DEF TxUpdate, EventTableTypeOK
  <2>2. CASE Rollback(s)
    BY <1>4, <1>8, <2>1, <2>2 DEF TxStep, Present
  <2>3. CASE ~Rollback(s)
    <3>1. /\ \A t \in Sessions \ {s} : tx'[t] = tx[t]
          /\ tx'[s] = [tx[s] EXCEPT !.pc = "commit"]
          /\ Seen(s, tx[s].target)
      BY <1>8, <2>3 DEF TxUpdate, EventTableTypeOK
    <3>2. /\ tx'[s].target = tx[s].target
          /\ tx'[s].saved = tx[s].saved
          /\ tx'[s].found = tx[s].found
          /\ tx'[s].row = tx[s].row
      BY <2>1, <3>1 DEF Transactions
    <3>3. tx'[s].pc = "commit"
      BY <2>1, <3>1 DEF Transactions
    <3> QED
      <4>1. tx'[s].saved => tx'[s].row.status = "present"
        BY <3>2 DEF Committable
      <4> QED
        BY <1>5, <2>1, <3>1, <3>2, <3>3, <4>1
  <2> QED
    BY <2>2, <2>3
<1>9. ASSUME NEW s \in Sessions, TxCommit(s) PROVE Committable'
  <2>1. \A e \in Ids : Present(e) => Present(e)'
    BY <1>9, WrittenLands DEF TxCommit, Present
  <2> QED
    BY <1>4, <1>9, <2>1 DEF TxCommit, TxStep
<1>10. CASE UNCHANGED vars
  BY <1>1, <1>10 DEF vars, Present
<1> QED
  BY <1>2, <1>3, <1>6, <1>7, <1>8, <1>9, <1>10 DEF Next, TxStep

LEMMA LandingStep ==
    ASSUME EventTableTypeOK, Committable, Next
    PROVE  ActiveIds # {} /\ ActiveIds' = {} => \E e \in Ids : DeleteEvent(e)
<1>1. CASE \E e \in Ids : CreateEvent(e) \/ SetEventLive(e) \/ DeleteEvent(e)
  BY <1>1, StatementsKeepActive
<1>2. ASSUME NEW s \in Sessions, TxStep(s)
      PROVE  ActiveIds' = ActiveIds \/ ActiveIds' # {}
  <2>1. CASE table' = table
    BY <2>1 DEF ActiveIds, Present
  <2>2. CASE TxCommit(s) /\ table' = Written(s)
    BY <2>2, WrittenLands DEF TxCommit
  <2> QED
    BY <1>2, <2>1, <2>2 DEF TxStep, TxFirst, TxSave, TxUpdate, TxCommit
<1> QED
  BY <1>1, <1>2 DEF Next

\* With any driver, and whatever fails, no activation leaves the landing page
\* without an event: only deleting the last active one does (SetActiveEvent's
\* transaction, its rollback on RowsAffected and the row locks it holds).
THEOREM LandingIsNeverLost == Spec => LandingNeverLost
<1>1. EventTableTypeOK /\ Committable /\ [Next]_vars => Committable'
  BY CommittableStep
<1>2. EventTableTypeOK /\ Committable /\ [Next]_vars
      => [ActiveIds # {} /\ ActiveIds' = {} => \E e \in Ids : DeleteEvent(e)]_vars
  BY LandingStep
<1> QED
  BY <1>1, <1>2, CommittableInit, TableTypeCorrect, PTL DEF Spec, LandingNeverLost

-----------------------------------------------------------------------------
(* SQLite: the table is an EventRegister                                   *)

LEMMA RegisterStep ==
    ASSUME EventTableTypeOK, ReadsStayCurrent, [Next]_vars, driver = "sqlite", ~dropped'
    PROVE  [R!RegisterNext]_R!registerVars
<1> DEFINE present == {e \in Ids : Present(e)}
           open == {e \in Ids : Present(e) /\ table[e].live}
<1>1. ASSUME table' = table PROVE UNCHANGED R!registerVars
  BY <1>1 DEF R!registerVars, Landing, ActiveIds, Present
<1>2. ASSUME NEW e \in Ids, CreateEvent(e) PROVE R!Create(e)
  <2>1. PICK b \in BOOLEAN : table' =
          [table EXCEPT ![e] = [status |-> "present", live |-> b, active |-> FALSE]]
    BY <1>2 DEF CreateEvent
  <2>2. Landing' = Landing
    BY <1>2, StatementsKeepActive DEF Landing
  <2>3. e \notin present /\ present' = present \cup {e}
    BY <1>2, <2>1 DEF CreateEvent, Present, EventTableTypeOK
  <2>4. open' = IF b THEN open \cup {e} ELSE open
    BY <1>2, <2>1 DEF CreateEvent, Present, EventTableTypeOK
  <2> QED
    BY <2>2, <2>3, <2>4 DEF R!Create
<1>3. ASSUME NEW e \in Ids, SetEventLive(e) PROVE R!SetOpen(e)
  <2>1. PICK b \in BOOLEAN : table' = [table EXCEPT ![e] = [table[e] EXCEPT !.live = b]]
    BY <1>3 DEF SetEventLive
  <2>2. Landing' = Landing
    BY <1>3, StatementsKeepActive DEF Landing
  <2>3. /\ table'[e].status = table[e].status
        /\ table'[e].live = b
        /\ \A d \in Ids \ {e} : table'[d] = table[d]
    BY <2>1 DEF EventTableTypeOK, Rows
  <2>4. e \in present /\ present' = present
    BY <1>3, <2>3 DEF SetEventLive, Present
  <2>5. open' = IF b THEN open \cup {e} ELSE open \ {e}
    BY <1>3, <2>3 DEF SetEventLive, Present
  <2> QED
    BY <2>2, <2>4, <2>5 DEF R!SetOpen
<1>4. ASSUME NEW e \in Ids, DeleteEvent(e) PROVE R!Remove(e)
  <2>1. ActiveIds' = ActiveIds \ {e}
    BY <1>4, StatementsKeepActive
  <2>2. \A c, d \in ActiveIds : c = d
    BY <1>4 DEF DeleteEvent, ReadsStayCurrent
  <2>3. Landing' = IF Landing = e THEN None ELSE Landing
    <3>1. CASE ActiveIds = {}
      <4>1. Lowest({}) = None
        BY DEF Lowest
      <4> QED
        BY <2>1, <3>1, <4>1 DEF Landing
    <3>2. ASSUME NEW a \in ActiveIds PROVE Landing' = IF Landing = e THEN None ELSE Landing
      <4>1. ActiveIds = {a} /\ a \in Ids
        BY <2>2 DEF ActiveIds
      <4>2. Landing = a
        BY <4>1, LowestOfOne DEF Landing
      <4>3. CASE a = e
        <5>1. ActiveIds' = {}
          BY <2>1, <4>1, <4>3
        <5> QED
          BY <4>2, <4>3, <5>1 DEF Landing, Lowest
      <4>4. CASE a # e
        <5>1. ActiveIds' = ActiveIds
          BY <2>1, <4>1, <4>4
        <5> QED
          BY <4>2, <4>4, <5>1 DEF Landing
      <4> QED
        BY <4>3, <4>4
    <3> QED
      BY <3>1, <3>2
  <2>4. /\ table'[e].status = "deleted"
        /\ \A d \in Ids \ {e} : table'[d] = table[d]
    BY <1>4 DEF DeleteEvent, EventTableTypeOK, Rows
  <2>5. /\ e \in present
        /\ present' = present \ {e}
        /\ open' = open \ {e}
    BY <1>4, <2>4 DEF DeleteEvent, Present
  <2> QED
    BY <2>3, <2>5 DEF R!Remove
<1>5. ASSUME NEW s \in Sessions, TxCommit(s), table' # table
      PROVE  tx[s].target \in Ids /\ R!Activate(tx[s].target)
  <2>1. tx[s].pc = "commit" /\ tx[s].target # None
    BY <1>5 DEF TxCommit, EventTableTypeOK
  <2>2. /\ IsCurrent(s)
        /\ ~dropped => \A d, e \in ActiveIds : d = e
        /\ tx[s].target \in Ids
    BY <2>1 DEF ReadsStayCurrent, EventTableTypeOK, Transactions
  <2>3. Present(tx[s].target)
    BY <2>1, <2>2 DEF IsCurrent
  <2>4. /\ ActiveIds' = {tx[s].target}
        /\ \A e \in Ids : table'[e].status = table[e].status /\ table'[e].live = table[e].live
    <3>1. ~dropped /\ ~SaveLost(s) /\ table' = Written(s)
      BY <1>5 DEF TxCommit
    <3>2. \A d, e \in ActiveIds : d = e
      BY <2>2, <3>1
    <3> QED
      BY <2>1, <2>2, <3>1, <3>2, WrittenActivates
  <2>5. Landing' = tx[s].target
    BY <2>2, <2>4, LowestOfOne DEF Landing
  <2>6. tx[s].target \in present /\ present' = present /\ open' = open
    BY <2>2, <2>3, <2>4 DEF Present
  <2> QED
    BY <2>2, <2>5, <2>6 DEF R!Activate
<1>6. ASSUME NEW s \in Sessions, TxStep(s)
      PROVE  table' = table \/ TxCommit(s)
  BY <1>6 DEF TxStep, TxFirst, TxSave, TxUpdate, TxCommit
<1>7. CASE UNCHANGED vars
  BY <1>1, <1>7 DEF vars
<1> HIDE DEF present, open
<1> QED
  BY <1>1, <1>2, <1>3, <1>4, <1>5, <1>6, <1>7 DEF Next, R!RegisterNext

\* On SQLite, and as long as no transaction has committed without its Save,
\* every step of the table is a step of the EventRegister, or none: the
\* landing page shows the event activated last, and an activation touches
\* nothing else.
THEOREM RegisterIsKept == Spec => KeepsRegister
<1>1. EventTableTypeOK /\ ReadsStayCurrent /\ [Next]_vars
      => [driver = "sqlite" /\ ~dropped' => [R!RegisterNext]_R!registerVars]_vars
  BY RegisterStep
<1> QED
  BY <1>1, ReadsAlwaysCurrent, TableTypeCorrect, PTL DEF Spec, KeepsRegister
=============================================================================
