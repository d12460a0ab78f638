--------------------------- MODULE MCPathTracker ---------------------------
(* Values of PathTracker's constants for TLC. *)
EXTENDS PathTracker
Indexes == {0, 1, 2}
=============================================================================
