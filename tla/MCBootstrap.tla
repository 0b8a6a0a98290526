---------------------------- MODULE MCBootstrap ----------------------------
(* Bootstrap on instances small enough for TLC. *)
EXTENDS Bootstrap

UpToAll     == {2, 5, 9}
AnyMode     == BOOLEAN
BothWorlds  == BOOLEAN
AllLaunches == {3, 4, 6, 7, 8}
FromBundles == {0, 1, 5, 8}
=============================================================================
