-------------------------- MODULE DriftController --------------------------
(***************************************************************************)
(* DriftDetectionController: the loop of `netengine drift watch` that      *)
(* checks the completed phases and executes the drifted ones again.  Every *)
(* healthcheck and every execute is an await, during which the world goes  *)
(* on: containers stop, and an execution that gives a phase a new identity *)
(* breaks phases that came after it.  A phase is in Completed when its     *)
(* flag is set; its prerequisites are then met (CompletedLadder of module  *)
(* Bootstrap), so _check_prerequisites never fails here.                   *)
(***************************************************************************)
EXTENDS Integers, FiniteSets

CONSTANTS Completed,   (* the phases with phase_completed                   *)
          Stubborn,    (* phases whose execute fails every time, as it does *)
                       (* where a container has a fixed name and exists     *)
          AutoHeal,    (* auto_heal                                         *)
          MaxBreaks,   (* phases that stop being healthy                    *)
          MaxDriftFaults
                       (* calls that fail: healthcheck, execute, save, or   *)
                       (* the process itself                                *)

ASSUME DriftAssumption ==
    /\ Completed \subseteq Nat /\ IsFiniteSet(Completed)
    /\ Stubborn \subseteq Completed
    /\ AutoHeal \in BOOLEAN
    /\ MaxBreaks \in Nat
    /\ MaxDriftFaults \in Nat

VARIABLES healthy,   (* the completed phases that work                      *)
          pc,        (* where the coroutine run() is                        *)
          unchecked, (* phases the loop of the round has still to check     *)
          drifted,   (* drift_this_round                                    *)
          isDrifted, (* is_drifted in drift_states                          *)
          todo,      (* drifted phases _trigger_self_healing has not taken  *)
          cur,       (* the phase _heal_phase works on: one or none         *)
          unscanned, (* phases _reheal_dependent_phases has still to look at*)
          scanning,  (* _heal_phase was called by _reheal_dependent_phases  *)
          healed,    (* healed_phases                                       *)
          current,   (* current_drift_phases                                *)
          shown,     (* current_drift_phases in the state file              *)
          tried,     (* history: the phases executed in this round          *)
          breaks, driftFaults

round == <<unchecked, todo, unscanned, scanning>>
driftVars == <<healthy, pc, drifted, isDrifted, cur, healed, current, shown, tried,
               breaks, driftFaults, round>>

DriftTypeOK ==
    /\ healthy \subseteq Completed
    /\ pc \in {"asleep", "checking", "healing", "executing", "verifying", "failing",
               "scanning", "recording"}
    /\ unchecked \subseteq Completed
    /\ drifted \subseteq Completed
    /\ isDrifted \subseteq Completed
    /\ todo \subseteq drifted
    /\ cur \subseteq Completed
    /\ unscanned \subseteq Completed
    /\ scanning \in BOOLEAN
    /\ healed \subseteq Completed
    /\ current \subseteq Completed
    /\ shown \subseteq Completed
    /\ tried \subseteq Completed
    /\ breaks \in 0 .. MaxBreaks
    /\ driftFaults \in 0 .. MaxDriftFaults

DriftInit ==
    /\ healthy = Completed
    /\ pc = "asleep"
    /\ unchecked = {} /\ drifted = {} /\ isDrifted = {}
    /\ todo = {} /\ cur = {} /\ unscanned = {} /\ scanning = FALSE /\ healed = {}
    /\ current = {} /\ shown = {}
    /\ tried = {}
    /\ breaks = 0
    /\ driftFaults = 0

First(ps, p) == p \in ps /\ \A q \in ps : p <= q

DriftFault == driftFaults < MaxDriftFaults /\ driftFaults' = driftFaults + 1

(* What a healthcheck of p may answer: the truth, or an error, which every *)
(* caller takes for FALSE.                                                 *)
Answers(p, ok) ==
    \/ ok = (p \in healthy) /\ UNCHANGED driftFaults
    \/ ok = FALSE /\ p \in healthy /\ DriftFault

-----------------------------------------------------------------------------
(* The world: a phase that worked stops working. *)
Break(p) ==
    /\ p \in healthy
    /\ breaks < MaxBreaks
    /\ healthy' = healthy \ {p}
    /\ breaks' = breaks + 1
    /\ UNCHANGED <<pc, drifted, isDrifted, cur, healed, current, shown, tried, driftFaults, round>>

(* A round of _run_one_iteration begins. *)
Wake ==
    /\ pc = "asleep"
    /\ pc' = "checking"
    /\ unchecked' = Completed
    /\ drifted' = {} /\ todo' = {} /\ healed' = {} /\ tried' = {}
    /\ cur' = {} /\ unscanned' = {} /\ scanning' = FALSE
    /\ UNCHANGED <<healthy, isDrifted, current, shown, breaks, driftFaults>>

(* Defect: a phase that was drifted before is not reported again. *)
CheckEdge ==
    /\ pc = "checking"
    /\ \E p \in unchecked, ok \in BOOLEAN :
         /\ First(unchecked, p)
         /\ Answers(p, ok)
         /\ unchecked' = unchecked \ {p}
         /\ drifted' = IF ok \/ p \in isDrifted THEN drifted ELSE drifted \cup {p}
         /\ isDrifted' = IF ok THEN isDrifted \ {p} ELSE isDrifted \cup {p}
    /\ UNCHANGED <<healthy, pc, cur, healed, current, shown, tried, breaks, todo,
                   unscanned, scanning>>

(* _check_phase_health and _update_drift_state for the next phase. *)
Check ==
    /\ pc = "checking"
    /\ \E p \in unchecked, ok \in BOOLEAN :
         /\ First(unchecked, p)
         /\ Answers(p, ok)
         /\ unchecked' = unchecked \ {p}
         /\ drifted' = IF ok THEN drifted ELSE drifted \cup {p}
         /\ isDrifted' = IF ok THEN isDrifted \ {p} ELSE isDrifted \cup {p}
    /\ UNCHANGED <<healthy, pc, cur, healed, current, shown, tried, breaks, todo,
                   unscanned, scanning>>

(* All are checked: heal, or write the result. *)
Checked ==
    /\ pc = "checking" /\ unchecked = {}
    /\ pc' = IF drifted # {} /\ AutoHeal THEN "healing" ELSE "recording"
    /\ todo' = drifted
    /\ UNCHANGED <<healthy, drifted, isDrifted, cur, healed, current, shown, tried, breaks, driftFaults, unchecked, unscanned, scanning>>

(* _trigger_self_healing takes the next drifted phase; it does not look    *)
(* whether that phase has been healed in the meantime.                     *)
TakeDrifted ==
    /\ pc = "healing" /\ todo # {}
    /\ \E p \in todo : First(todo, p) /\ cur' = {p} /\ todo' = todo \ {p}
    /\ pc' = "executing"
    /\ UNCHANGED <<healthy, drifted, isDrifted, healed, current, shown, tried, breaks, driftFaults, unchecked, unscanned, scanning>>

AllTaken ==
    /\ pc = "healing" /\ todo = {}
    /\ pc' = "recording"
    /\ UNCHANGED <<healthy, drifted, isDrifted, cur, healed, current, shown, tried, breaks, driftFaults, round>>

(* _heal_phase: execute succeeds. *)
ExecuteDrifted ==
    /\ pc = "executing"
    /\ cur \cap Stubborn = {}
    /\ healthy' = healthy \cup cur
    /\ tried' = tried \cup cur
    /\ pc' = "verifying"
    /\ UNCHANGED <<drifted, isDrifted, cur, healed, current, shown, breaks, driftFaults,
                   round>>

(* The execution raises. *)
ExecuteFails ==
    /\ pc = "executing"
    /\ (cur \subseteq Stubborn /\ UNCHANGED driftFaults) \/ DriftFault
    /\ tried' = tried \cup cur
    /\ pc' = "failing"
    /\ UNCHANGED <<healthy, drifted, isDrifted, cur, healed, current, shown, breaks,
                   round>>

(* Defect: healed phases are looked at again. *)
HealedForgetting ==
    /\ pc = "verifying"
    /\ cur \subseteq healthy
    /\ healed' = healed \cup cur
    /\ shown' = current
    /\ pc' = "scanning"
    /\ unscanned' = IF scanning THEN unscanned
                    ELSE {q \in Completed : \A p \in cur : p < q}
    /\ scanning' = TRUE
    /\ cur' = {}
    /\ UNCHANGED <<healthy, drifted, isDrifted, current, tried, breaks, driftFaults, unchecked, todo>>

(* The healthcheck after the execution passes, and the state is saved.     *)
(* For a drifted phase the dependent ones are looked at next.              *)
Healed ==
    /\ pc = "verifying"
    /\ cur \subseteq healthy
    /\ healed' = healed \cup cur
    /\ shown' = current
    /\ pc' = "scanning"
    /\ unscanned' = IF scanning THEN unscanned
                    ELSE {q \in Completed \ healed' : \A p \in cur : p < q}
    /\ scanning' = TRUE
    /\ cur' = {}
    /\ UNCHANGED <<healthy, drifted, isDrifted, current, tried, breaks, driftFaults, unchecked, todo>>

(* The healthcheck or the save after it fails. *)
NotHealed ==
    /\ pc = "verifying"
    /\ (~(cur \subseteq healthy) /\ UNCHANGED driftFaults) \/ DriftFault
    /\ pc' = "failing"
    /\ UNCHANGED <<healthy, drifted, isDrifted, cur, healed, current, shown, tried, breaks, round>>

(* The except branch: the failure is noted, the state is saved, and        *)
(* _heal_phase returns (False, False) to the loop that called it.          *)
Fail ==
    /\ pc = "failing"
    /\ pc' = IF scanning THEN "scanning" ELSE "healing"
    /\ cur' = {}
    /\ shown' = current
    /\ UNCHANGED <<healthy, drifted, isDrifted, healed, current, tried, breaks, driftFaults, round>>

(* Its save fails: the exception ends the round ("drift.loop_error"). *)
Abandon ==
    /\ pc = "failing"
    /\ DriftFault
    /\ pc' = "asleep"
    /\ UNCHANGED <<healthy, drifted, isDrifted, cur, healed, current, shown, tried, breaks, round>>

(* _reheal_dependent_phases looks at the next later phase and heals it if  *)
(* it is not healthy.                                                      *)
Scan ==
    /\ pc = "scanning"
    /\ \E p \in unscanned, ok \in BOOLEAN :
         /\ First(unscanned, p)
         /\ Answers(p, ok)
         /\ unscanned' = unscanned \ {p}
         /\ IF ok THEN UNCHANGED <<cur, pc>>
                  ELSE cur' = {p} /\ pc' = "executing"
    /\ UNCHANGED <<healthy, drifted, isDrifted, healed, current, shown, tried, breaks,
                   unchecked, todo, scanning>>

Scanned ==
    /\ pc = "scanning" /\ unscanned = {}
    /\ pc' = "healing"
    /\ scanning' = FALSE
    /\ UNCHANGED <<healthy, drifted, isDrifted, cur, healed, current, shown, tried, breaks, driftFaults, unchecked, todo, unscanned>>

(* Defect: the result of a round is added to that of the rounds before. *)
RecordMore ==
    /\ pc = "recording"
    /\ pc' = "asleep"
    /\ current' = current \cup drifted
    /\ \/ shown' = current' /\ UNCHANGED driftFaults
       \/ DriftFault /\ UNCHANGED shown
    /\ UNCHANGED <<healthy, drifted, isDrifted, cur, healed, tried, breaks, round>>

(* The result of the round is saved; then run() sleeps. *)
RecordRound ==
    /\ pc = "recording"
    /\ pc' = "asleep"
    /\ current' = drifted
    /\ \/ shown' = drifted /\ UNCHANGED driftFaults
       \/ DriftFault /\ UNCHANGED shown
    /\ UNCHANGED <<healthy, drifted, isDrifted, cur, healed, tried, breaks, round>>

(* The process ends and is started again: it loads the state file. *)
Restart ==
    /\ DriftFault
    /\ pc' = "asleep"
    /\ isDrifted' = {}
    /\ current' = shown
    /\ UNCHANGED <<healthy, drifted, cur, healed, shown, tried, breaks, round>>

-----------------------------------------------------------------------------
Loop == \/ Wake \/ Check \/ Checked \/ TakeDrifted \/ AllTaken \/ ExecuteDrifted \/ ExecuteFails
        \/ Healed \/ NotHealed \/ Fail \/ Scan \/ Scanned \/ RecordRound

DriftNext == Loop \/ Abandon \/ Restart \/ \E p \in Completed : Break(p)

DriftSpec == DriftInit /\ [][DriftNext]_driftVars

(* The supervisor keeps the coroutine running. *)
FairDriftSpec == DriftSpec /\ WF_driftVars(Loop)
-----------------------------------------------------------------------------
(* Safety *)

(* A round that reaches its end has attempted every drifted phase, whatever*)
(* failed before it and whatever else was healed in between.               *)
DriftedTried == pc = "recording" /\ AutoHeal => drifted \subseteq tried

(* A round touches nothing that comes before every drifted phase: healing  *)
(* spreads to later phases only.                                           *)
HealsLaterOnly == \A p \in tried : \E q \in drifted : q <= p

(* A phase counts as healed only if it was executed in this round, and is  *)
(* not also on its way to be looked at as a dependent again.               *)
HealedOnce == healed \subseteq tried /\ (pc = "scanning" => healed \cap unscanned = {})

(* Liveness *)

(* Once nothing breaks any more, every phase that can be healed is. *)
Converges == <>[](Completed \ Stubborn \subseteq healthy)

(* In the end the state file says what is drifted and what is not, also    *)
(* after rounds that failed, phases that were healed and restarts.         *)
ShownTruly == <>[](shown = Completed \ healthy)
=============================================================================
