--------------------------- MODULE MCZoneRecords ---------------------------
(* ZoneRecords on instances small enough for TLC. *)
EXTENDS ZoneRecords
=============================================================================
