------------------------------- MODULE Ledger -------------------------------
(***************************************************************************)
(* What eventpix promises about uploads, without saying how: a photo that  *)
(* is kept stays kept, whatever is done to its event; only kept photos are *)
(* ever shown, and stay shown; a request is answered at most once, and     *)
(* with "ok" only when every one of its files is kept.                     *)
(***************************************************************************)
CONSTANTS Uploads, Requests, RequestOf

VARIABLES
    kept,      \* uploads that can be retrieved unaltered
    shown,     \* uploads whose thumbnail the open galleries were sent
    answer     \* answer[r]: "none", "ok" or "error"

ledgerVars == <<kept, shown, answer>>

LedgerInit ==
    /\ kept = {}
    /\ shown = {}
    /\ answer = [r \in Requests |-> "none"]

Keep(u) ==
    /\ kept' = kept \cup {u}
    /\ UNCHANGED <<shown, answer>>

Show(u) ==
    /\ u \in kept
    /\ shown' = shown \cup {u}
    /\ UNCHANGED <<kept, answer>>

Accept(r) ==
    /\ answer[r] = "none"
    /\ \A u \in Uploads : RequestOf[u] = r => u \in kept
    /\ answer' = [answer EXCEPT ![r] = "ok"]
    /\ UNCHANGED <<kept, shown>>

\* One request fails, or a crash breaks all those that were open.
Fail(rs) ==
    /\ \A r \in rs : answer[r] = "none"
    /\ answer' = [r \in Requests |-> IF r \in rs THEN "error" ELSE answer[r]]
    /\ UNCHANGED <<kept, shown>>

LedgerNext ==
    \/ \E u \in Uploads : Keep(u) \/ Show(u)
    \/ \E r \in Requests : Accept(r)
    \/ \E rs \in SUBSET Requests : Fail(rs)

LedgerSpec == LedgerInit /\ [][LedgerNext]_ledgerVars
=============================================================================
