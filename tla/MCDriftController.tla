------------------------- MODULE MCDriftController -------------------------
(* DriftController on instances small enough for TLC. *)
EXTENDS DriftController
=============================================================================
