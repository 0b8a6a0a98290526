------------------------------ MODULE Operator ------------------------------
(***************************************************************************)
(* What operators do to a world that runs: reload its specification, edit  *)
(* sections of it, import another world, tear it down.  Each handler loads *)
(* the whole state file, changes its copy and saves the whole of it.  A    *)
(* reload holds its copy over the awaits of phase 7, in the API or in a    *)
(* process of its own, and `netengine drift watch` for as long as it runs; *)
(* every other handler loads and saves without an await between.           *)
(*                                                                         *)
(* Of a specification there is its lifecycle, standing for the immutable   *)
(* fields, the PKI section, the ANDs, and one section for all the others,  *)
(* of which a reload does no more than record them.  Sections of           *)
(* NetEngineSpec are never missing and no field of the registries is, so   *)
(* that no change of them is "added" or "removed" to compute_diff: the     *)
(* branches of apply_reload for those are not reached.                     *)
(***************************************************************************)
EXTENDS Naturals, FiniteSets

CONSTANTS Instances,   (* ANDs a specification may list, numbered in order  *)
          Offers,      (* the specifications operators have                 *)
          Reloads,     (* calls of reload                                   *)
          NoWorld,     (* there is no state file, or no copy of it          *)
          MaxWorlds,   (* worlds set up or imported                         *)
          MaxEdits,    (* edits, restarts of the watch, teardowns, removals *)
          MaxFaults    (* failed steps of phase 7                           *)

ASSUME OperatorAssumption ==
    /\ Instances \subseteq Nat /\ IsFiniteSet(Instances) /\ IsFiniteSet(Reloads)
    /\ MaxWorlds \in Nat \ {0} /\ MaxEdits \in Nat /\ MaxFaults \in Nat

Worlds == 1 .. MaxWorlds
Lives  == {"ephemeral", "persistent"}
Specs  == [life : Lives, pki : 0 .. 1, other : 0 .. 1, ands : SUBSET Instances]

(* RuntimeState: the world it is about, its world_spec and the keys of     *)
(* ands_instances.                                                         *)
States == [world : Worlds, spec : Specs, known : SUBSET Instances]
ASSUME NoWorldAssumption == NoWorld \notin States
ASSUME OffersAssumption  == Offers \subseteq Specs

VARIABLES file,      (* the state file                                      *)
          bridges,   (* the ANDs that have a bridge                         *)
          watch,     (* the copy `drift watch` has                          *)
          call,      (* the calls of reload                                 *)
          born,      (* history: the lifecycle each world began with        *)
          put,       (* history: the PKI sections an operator gave a world  *)
          unserved,  (* history: worlds imported, torn down, or with a      *)
                     (* reload that halted and was recorded                 *)
          worlds, edits, faults

hist  == <<born, put, unserved>>
count == <<worlds, edits, faults>>
vars  == <<file, bridges, watch, call, hist, count>>

Calls == [pc : {"new", "ands", "finish", "over"}, state : States \cup {NoWorld},
          spec : Specs, left : SUBSET Instances, applied : BOOLEAN]

BlankSpec == [life |-> "ephemeral", pki |-> 0, other |-> 0, ands |-> {}]
NotCalled == [pc |-> "new", state |-> NoWorld, spec |-> BlankSpec, left |-> {},
              applied |-> FALSE]

TypeOK ==
    /\ file \in States \cup {NoWorld}
    /\ bridges \subseteq Instances
    /\ watch \in States \cup {NoWorld}
    /\ call \in [Reloads -> Calls]
    /\ born \in [Worlds -> Lives]
    /\ put \in [Worlds -> SUBSET (0 .. 1)]
    /\ unserved \subseteq Worlds
    /\ worlds \in 0 .. MaxWorlds /\ edits \in 0 .. MaxEdits /\ faults \in 0 .. MaxFaults

Init ==
    /\ file = NoWorld
    /\ bridges = {}
    /\ watch = NoWorld
    /\ call = [r \in Reloads |-> NotCalled]
    /\ born = [w \in Worlds |-> "ephemeral"]
    /\ put = [w \in Worlds |-> {}]
    /\ unserved = {}
    /\ worlds = 0 /\ edits = 0 /\ faults = 0

Edit  == edits < MaxEdits /\ edits' = edits + 1 /\ UNCHANGED <<worlds, faults>>
Fault == faults < MaxFaults /\ faults' = faults + 1 /\ UNCHANGED <<worlds, edits>>

(* A specification makes a new world. *)
NewWorld(s) ==
    /\ worlds < MaxWorlds
    /\ worlds' = worlds + 1
    /\ born' = [born EXCEPT ![worlds'] = s.life]
    /\ put' = [put EXCEPT ![worlds'] = {s.pki}]
    /\ UNCHANGED <<edits, faults>>

-----------------------------------------------------------------------------
(* `netengine up` as far as phase 7, which passes only if none of its      *)
(* bridges exists.  Runs that end before it are those of Bootstrap.        *)
Up(s) ==
    /\ file = NoWorld
    /\ s.ands \cap bridges = {}
    /\ NewWorld(s)
    /\ file' = [world |-> worlds', spec |-> s, known |-> s.ands]
    /\ bridges' = bridges \cup s.ands
    /\ UNCHANGED <<watch, call, unserved>>

(* `netengine import`, over whatever there is. *)
ImportBundle(s) ==
    /\ NewWorld(s)
    /\ file' = [world |-> worlds', spec |-> s, known |-> {}]
    /\ unserved' = unserved \cup {worlds'}
    /\ UNCHANGED <<bridges, watch, call>>

(* POST /import saves what it imported, and then the state it had loaded   *)
(* with parts of that in it: ands_instances stay those of the old world.   *)
ImportWorld(s) ==
    /\ file # NoWorld => file.spec.life = "persistent"
    /\ NewWorld(s)
    /\ file' = [world |-> worlds', spec |-> s,
                known |-> IF file = NoWorld THEN {} ELSE file.known]
    /\ unserved' = unserved \cup {worlds'}
    /\ UNCHANGED <<bridges, watch, call>>

(* What is left after the teardown of a world: no file, and bridges that   *)
(* could not be removed.                                                   *)
Gone(left) ==
    /\ Edit
    /\ file' = NoWorld
    /\ bridges' = left
    /\ unserved' = unserved \cup (1 .. worlds)
    /\ UNCHANGED <<watch, call, born, put>>

(* `netengine down`; each bridge may be in use, by an app.  The containers *)
(* that are on no bridge do not matter here.                               *)
Down == \E left \in SUBSET bridges : Gone(left)

(* DELETE /world leaves the gateway running, which is on every bridge, and *)
(* Docker does not remove a network that is in use.                        *)
TeardownWorld == Gone(bridges)

-----------------------------------------------------------------------------
(* The edits of the specification. *)

(* PUT /services/{name} and PUT /gateway *)
UpdateSection(v) ==
    /\ file # NoWorld
    /\ Edit
    /\ file' = [file EXCEPT !.spec.other = v]
    /\ UNCHANGED <<bridges, watch, call, hist>>

(* PUT /pki/rotation-policy *)
UpdateRotationPolicy(v) ==
    /\ file # NoWorld
    /\ Edit
    /\ file' = [file EXCEPT !.spec.pki = v]
    /\ put' = [put EXCEPT ![file.world] = @ \cup {v}]
    /\ UNCHANGED <<bridges, watch, call, born, unserved>>

-----------------------------------------------------------------------------
(* `netengine drift watch` loads the state once and saves it after every   *)
(* iteration.                                                              *)
StartWatch ==
    /\ watch = NoWorld
    /\ file # NoWorld
    /\ Edit
    /\ watch' = file
    /\ UNCHANGED <<file, bridges, call, hist>>

Iterate ==
    /\ watch # NoWorld
    /\ file' = watch
    /\ UNCHANGED <<bridges, watch, call, hist, count>>

StopWatch ==
    /\ watch # NoWorld
    /\ watch' = NoWorld
    /\ UNCHANGED <<file, bridges, call, hist, count>>

-----------------------------------------------------------------------------
(* compute_diff, and check_immutability.                                   *)
Changed(old, new)  == {f \in DOMAIN old : old[f] # new[f]}
Violated(old, new) == "life" \in Changed(old, new)

(* Defects: immutable fields are compared only for persistent worlds; the  *)
(* PKI section is guarded in ephemeral worlds instead.                     *)
RefusedIfPersistent(old, new) ==
    old.life = "persistent" /\ (Violated(old, new) \/ "pki" \in Changed(old, new))
RefusedIfEphemeral(old, new) ==
    Violated(old, new) \/ (old.life = "ephemeral" /\ "pki" \in Changed(old, new))

(* Of the guards for persistent worlds, the one that is ever reached.      *)
Refused(old, new) ==
    Violated(old, new) \/ (old.life = "persistent" /\ "pki" \in Changed(old, new))

Becomes(r, c) == call' = [call EXCEPT ![r] = c]

(* A reload loads the state, finds that it may go on, and applies what     *)
(* comes before the ANDs: some of the other sections do, some do not.      *)
BeginReload(r, new) ==
    /\ call[r].pc = "new"
    /\ file # NoWorld
    /\ Changed(file.spec, new) # {}
    /\ ~Refused(file.spec, new)
    /\ \E before \in SUBSET ({"other"} \cap Changed(file.spec, new)) :
         Becomes(r, [pc |-> IF "ands" \in Changed(file.spec, new) THEN "ands" ELSE "finish",
                     state |-> file, spec |-> new, left |-> new.ands,
                     applied |-> before # {} \/ "pki" \in Changed(file.spec, new)])
    /\ UNCHANGED <<file, bridges, watch, hist, count>>

Over(r) == Becomes(r, [NotCalled EXCEPT !.pc = "over"])

(* The state as apply_reload leaves it. *)
Reloaded(r) == [call[r].state EXCEPT !.spec = call[r].spec]

(* An exception ends the loop over the diff; the new specification is      *)
(* recorded as a whole if an entry before was applied.                     *)
Halt(r) ==
    /\ IF call[r].applied
       THEN file' = Reloaded(r) /\ unserved' = unserved \cup {call[r].state.world}
       ELSE UNCHANGED <<file, unserved>>
    /\ Over(r)
    /\ UNCHANGED <<watch, born, put>>

(* Phase 7 provisions all instances, in their order, those that run too.   *)
Turn(r, n) == call[r].pc = "ands" /\ n \in call[r].left /\ \A m \in call[r].left : n <= m

(* Defect: an instance that has a bridge is passed over, and the rest.     *)
ProvisionUntilFound(r, n) ==
    /\ Turn(r, n)
    /\ IF n \in bridges
       THEN /\ Becomes(r, [call[r] EXCEPT !.left = {}])
            /\ UNCHANGED <<file, bridges, watch, hist>>
       ELSE /\ bridges' = bridges \cup {n}
            /\ Becomes(r, [call[r] EXCEPT !.left = @ \ {n}, !.state.known = @ \cup {n}])
            /\ UNCHANGED <<file, watch, hist>>
    /\ UNCHANGED count

Provision(r, n) ==
    /\ Turn(r, n)
    /\ IF n \in bridges
       THEN Halt(r) /\ UNCHANGED bridges
       ELSE /\ bridges' = bridges \cup {n}
            /\ Becomes(r, [call[r] EXCEPT !.left = @ \ {n}, !.state.known = @ \cup {n}])
            /\ UNCHANGED <<file, watch, hist>>
    /\ UNCHANGED count

(* It fails, and the bridge is removed again or stays. *)
ProvisionFails(r, n) ==
    /\ Turn(r, n)
    /\ n \notin bridges
    /\ Fault
    /\ bridges' \in {bridges, bridges \cup {n}}
    /\ Halt(r)

ProvisionDone(r) ==
    /\ call[r].pc = "ands" /\ call[r].left = {}
    /\ Becomes(r, [call[r] EXCEPT !.pc = "finish"])
    /\ UNCHANGED <<file, bridges, watch, hist, count>>

(* All is applied, and the caller told so. *)
FinishReload(r) ==
    /\ call[r].pc = "finish"
    /\ file' = Reloaded(r)
    /\ Over(r)
    /\ UNCHANGED <<bridges, watch, hist, count>>

(* The process ends. *)
Crash(r) ==
    /\ call[r].pc \in {"ands", "finish"}
    /\ Fault
    /\ Over(r)
    /\ UNCHANGED <<file, bridges, watch, hist>>

-----------------------------------------------------------------------------
Reload(r) ==
    \/ \E n \in Instances : Provision(r, n)
    \/ ProvisionDone(r)
    \/ FinishReload(r)

Next ==
    \/ \E s \in Offers : Up(s) \/ ImportBundle(s) \/ ImportWorld(s)
    \/ Down \/ TeardownWorld
    \/ \E v \in 0 .. 1 : UpdateSection(v) \/ UpdateRotationPolicy(v)
    \/ StartWatch \/ Iterate \/ StopWatch
    \/ \E r \in Reloads, s \in Offers : BeginReload(r, s)
    \/ \E r \in Reloads : Reload(r) \/ Crash(r)
    \/ \E r \in Reloads, n \in Instances : ProvisionFails(r, n)

Spec == Init /\ [][Next]_vars

-----------------------------------------------------------------------------
(* Every copy of the state there is. *)
Copies == ({file, watch} \cup {call[r].state : r \in Reloads}) \ {NoWorld}

(* The immutable fields of a world are the ones it began with, whatever    *)
(* reloads, edits, imports and late saves of old copies come together.     *)
ImmutableKept == \A c \in Copies : c.spec.life = born[c.world]

(* In a persistent world the PKI section is one an operator gave it by     *)
(* setting it up or by PUT /pki/rotation-policy, never by a reload: "PKI   *)
(* reconfiguration refused in persistent mode".                            *)
PersistentPkiKept ==
    \A c \in Copies : c.spec.life = "persistent" => c.spec.pki \in put[c.world]

(* A reload that reports success leaves its ANDs with bridges and on       *)
(* record, also when others overlap with it.  Worlds that were imported or *)
(* torn down are excepted, and those with a reload that halted after it    *)
(* had applied something: its specification is on record as a whole, and   *)
(* the same reload again finds nothing to do and reports success.          *)
SuccessServed ==
    [][\A r \in Reloads :
         /\ call[r].pc = "finish" /\ file' = Reloaded(r) /\ call'[r].pc = "over"
         /\ call[r].state.world \notin unserved
         => call[r].spec.ands \subseteq bridges \cap file'.known]_vars
=============================================================================
