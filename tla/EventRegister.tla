--------------------------- MODULE EventRegister ---------------------------
(***************************************************************************)
(* What the organiser's pages promise of the event table, without saying   *)
(* how: events are created, opened, closed and deleted one at a time, and  *)
(* in single event mode the landing page shows the event activated last,   *)
(* until that one is deleted.                                              *)
(***************************************************************************)
CONSTANTS Ids, None

VARIABLES
    present,   \* the events there are
    open,      \* those of them that are live
    landing    \* the event the landing page shows, or None

registerVars == <<present, open, landing>>

RegisterInit == present = {} /\ open = {} /\ landing = None

Create(e) ==
    /\ e \notin present
    /\ present' = present \cup {e}
    /\ open' \in {open, open \cup {e}}
    /\ UNCHANGED landing

SetOpen(e) ==
    /\ e \in present
    /\ open' \in {open \cup {e}, open \ {e}}
    /\ UNCHANGED <<present, landing>>

Remove(e) ==
    /\ e \in present
    /\ present' = present \ {e}
    /\ open' = open \ {e}
    /\ landing' = IF landing = e THEN None ELSE landing

Activate(e) ==
    /\ e \in present
    /\ landing' = e
    /\ UNCHANGED <<present, open>>

RegisterNext == \E e \in Ids : Create(e) \/ SetOpen(e) \/ Remove(e) \/ Activate(e)

RegisterSpec == RegisterInit /\ [][RegisterNext]_registerVars
=============================================================================
