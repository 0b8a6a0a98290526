--------------------------- MODULE MCAddressPool ---------------------------
(* AddressPool on instances small enough for TLC. *)
EXTENDS AddressPool

CONSTANTS a, b

(* Three callers, two of them for the same AND; the pools of two profiles  *)
(* overlap.                                                                *)
TwoForOne == <<a, a, b>>
TwoPools  == <<{1, 2}, {1, 2}, {1}>>
=============================================================================
