----------------------------- MODULE MCGallery -----------------------------
(* A small instance of Gallery; no symmetry, since it checks liveness.      *)
EXTENDS Gallery

\* The thumbnails are dated in the order in which they are announced.
InOrder == <<1, 2>>
=============================================================================
