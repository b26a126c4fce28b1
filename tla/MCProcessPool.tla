--------------------------- MODULE MCProcessPool ----------------------------
(* Instances of ProcessPool for TLC. *)
EXTENDS ProcessPool
=============================================================================
