----------------------------- MODULE MCOperator -----------------------------
(* Operator on instances small enough for TLC. *)
EXTENDS Operator, TLC

Offer(life, pki, other, ands) == [life |-> life, pki |-> pki, other |-> other, ands |-> ands]

(* Without ANDs, with one and with two; alike but for one section or the   *)
(* lifecycle, or for two sections at once.                                 *)
MCOffers == {Offer("ephemeral", 0, 0, {}), Offer("ephemeral", 1, 0, {1, 2}),
             Offer("persistent", 0, 0, {}), Offer("persistent", 0, 1, {1, 2}),
             Offer("persistent", 1, 0, {1})}

(* The calls of reload are alike. *)
Alike == Permutations(Reloads)
=============================================================================
