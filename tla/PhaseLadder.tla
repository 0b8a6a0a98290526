---------------------------- MODULE PhaseLadder ----------------------------
(***************************************************************************)
(* What a bootstrap promises about the outputs it makes durable: they      *)
(* appear one phase at a time, each after all earlier ones, and disappear  *)
(* only all together, when the world is torn down.                         *)
(***************************************************************************)
EXTENDS Integers

CONSTANTS Rungs,    (* the phases, as integers                             *)
          Starts    (* the sets of phases a world may start from           *)

VARIABLE built

LadderInit == built \in Starts

Climb == \E p \in Rungs \ built :
             /\ \A q \in Rungs : q < p => q \in built
             /\ built' = built \cup {p}

TearDown == built' = {}

LadderNext == Climb \/ TearDown

Spec == LadderInit /\ [][LadderNext]_built
=============================================================================
