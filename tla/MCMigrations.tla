--------------------------- MODULE MCMigrations ---------------------------
(* Migrations on instances small enough for TLC. *)
EXTENDS Migrations, TLC

(* The sessions are alike. *)
Alike == Permutations(Sessions)

(* The first file is broken until it is edited; the second may not run    *)
(* twice, and has statements that no transaction allows in one version.    *)
MCBroken == {<<1, 1>>}
MCBare   == {<<2, 2>>}
=============================================================================
