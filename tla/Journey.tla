------------------------------ MODULE Journey ------------------------------
(***************************************************************************)
(* The way of a photo from its row to the open galleries, without saying   *)
(* who carries it: a stage at a time, never back, and never started again  *)
(* once it is lost.  If nothing fails it is lost only where nobody listens *)
(* for it when it is announced as new, or where its event is deleted       *)
(* before its thumbnail is recorded.                                       *)
(***************************************************************************)
CONSTANTS Uploads, Reliable     \* whether nothing that matters can fail

VARIABLES
    stage,      \* stage[u]: how far the photo of upload u has come
    deleted,    \* uploads whose event is gone
    attended    \* whether a thumbnailer listens

journeyVars == <<stage, deleted, attended>>

NextStage ==
    [apart |-> "recorded", recorded |-> "queued", queued |-> "handled",
     handled |-> "thumbnailed", thumbnailed |-> "announced"]

JourneyInit ==
    /\ stage = [u \in Uploads |-> "apart"]
    /\ deleted = {}
    /\ attended = FALSE

Advance(u) ==
    /\ stage[u] \in DOMAIN NextStage
    /\ stage' = [stage EXCEPT ![u] = NextStage[stage[u]]]

CanBeLost(u) ==
    \/ stage[u] = "recorded" /\ ~attended
    \/ stage[u] = "handled" /\ u \in deleted
    \/ stage[u] \in {"recorded", "queued", "handled", "thumbnailed"} /\ ~Reliable

\* One photo, or all that a process had taken when it died.
Lose(us) ==
    /\ \A u \in us : CanBeLost(u)
    /\ stage' = [u \in Uploads |-> IF u \in us THEN "lost" ELSE stage[u]]

JourneyNext ==
    /\ (\E u \in Uploads : Advance(u)) \/ (\E us \in SUBSET Uploads : Lose(us))
    /\ deleted \subseteq deleted'

JourneySpec == JourneyInit /\ [][JourneyNext]_journeyVars
=============================================================================
