--------------------------- MODULE MCEpollOneshot ---------------------------
(* Instances of EpollOneshot for TLC. *)
EXTENDS EpollOneshot
=============================================================================
