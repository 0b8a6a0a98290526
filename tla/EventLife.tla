----------------------------- MODULE EventLife -----------------------------
(***************************************************************************)
(* What becomes of an event: it is sent once or never, waits while it is   *)
(* tried, and comes to one end, from which nothing brings it back.  A dead *)
(* letter is not an end: a replay makes it wait again, and nothing else    *)
(* takes it out of the dead letters.  Where a receive takes messages out   *)
(* of a queue, no event gets to the dead letters and the dead letters go.  *)
(***************************************************************************)
CONSTANTS Events, DeadFirst    (* all events; those dead from the start     *)

VARIABLES taking, stage

Ends   == {"done", "lost"}
Stages == {"new", "unsent", "waiting", "dead"} \cup Ends

LifeInit ==
    /\ taking \in BOOLEAN
    /\ stage = [e \in Events |-> IF e \in DeadFirst THEN "dead" ELSE "new"]

(* The stages that may follow one. *)
After(s) ==
    {t \in Stages :
        \/ s = "new" /\ t \in {"unsent", "waiting"}
        \/ s = "waiting" /\ (t \in Ends \/ (t = "dead" /\ ~taking))
        \/ s = "dead" /\ (t = "waiting" \/ (t \in Ends /\ taking))}

Move(e) ==
    /\ \E t \in After(stage[e]) : stage' = [stage EXCEPT ![e] = t]
    /\ UNCHANGED taking

Spec == LifeInit /\ [][\E e \in Events : Move(e)]_<<taking, stage>>
=============================================================================
