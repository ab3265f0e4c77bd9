----------------------------- MODULE MCPipeline -----------------------------
(* Small instances of Pipeline.  File names are strings, so that ThumbName  *)
(* can be written down; everything else is a model value.                   *)
EXTENDS Pipeline, TLC

CONSTANTS r1, s1

OneRequest == [u \in Uploads |-> r1]
OwnRequest == [u \in Uploads |-> u]
AllFresh == [s \in Stores |-> "fresh"]
Mixed == [s \in Stores |-> IF s = s1 THEN "fresh" ELSE "named"]
AllNamed == [s \in Stores |-> "named"]
Webp == [n \in Names |-> "thumb_a.webp"]
Interchangeable == Permutations(FreshIds) \cup Permutations(Uploads) \cup Permutations(Workers)
=============================================================================
