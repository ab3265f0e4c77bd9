---------------------------- MODULE MCEventTable ----------------------------
(* Small instances of EventTable. *)
EXTENDS EventTable, TLC

Alike == Permutations(Sessions)
=============================================================================
