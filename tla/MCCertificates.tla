--------------------------- MODULE MCCertificates --------------------------
(* Certificates on instances small enough for TLC. *)
EXTENDS Certificates, TLC

CONSTANTS auth, shop, platform, app

(* A certificate of phase 4 and one of an application. *)
TwoTypes == (auth :> platform) @@ (shop :> app)
=============================================================================
