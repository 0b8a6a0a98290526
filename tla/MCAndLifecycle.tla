--------------------------- MODULE MCAndLifecycle ---------------------------
(* AndLifecycle on instances small enough for TLC. *)
EXTENDS AndLifecycle, TLC

CONSTANTS routed, transit

(* A profile with a speaker that may fail, and one where it must not.      *)
TwoProfiles     == (routed :> {"dhcp", "bgp"}) @@ (transit :> {"bgp"})
TransitRequired == {transit}

(* The pools overlap, which nothing keeps a specification from declaring.  *)
SmallPools == (routed :> {11, 12}) @@ (transit :> {12})
=============================================================================
