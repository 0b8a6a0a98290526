--------------------------- MODULE MCWorldServices ---------------------------
(* WorldServices on instances small enough for TLC. *)
EXTENDS WorldServices

MCWorlds == {{"mail"}, {"storage"}, {"apps"}}
OnlyMail == {{"mail"}}
=============================================================================
