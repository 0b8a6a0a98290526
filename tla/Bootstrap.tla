----------------------------- MODULE Bootstrap -----------------------------
(***************************************************************************)
(* The `netengine up` command: Orchestrator.execute_phases walks the phase *)
(* list, skips what the runtime state says is there, executes the rest and *)
(* persists the runtime state.  A run may be killed between any two steps, *)
(* the next run starts from the state file, and Docker keeps the named     *)
(* resources the killed run had created.                                   *)
(***************************************************************************)
EXTENDS Integers, FiniteSets

CONSTANTS UpToChoices,   (* the values of --phase an operator gives         *)
          Modes,         (* the values of --mock: a set of Booleans         *)
          Launches,      (* the phases whose execution creates a named      *)
                         (* Docker resource, for the world's spec           *)
          Apps,          (* whether the spec lists an application to deploy:*)
                         (* a set of Booleans                               *)
          ImportLevels,  (* `netengine import` may have restored a bundle   *)
                         (* with the outputs of the phases up to a level    *)
          MaxFaults,     (* how many crashes and failed calls may happen    *)
          MaxDowns       (* how many times the operator runs `down`         *)

(* PHASE_HANDLERS: DNSHandler is phase 1 and does the work of phase 2 too. *)
Phases == {0, 1, 3, 4, 5, 6, 7, 8, 9}

NextPhase(p) == IF p = 1 THEN 3 ELSE p + 1

(* The phase numbers completing a handler sets in phase_completed. *)
Marks(p) == IF p = 1 THEN {1, 2} ELSE {p}

ASSUME BootstrapAssumption ==
    /\ UpToChoices \subseteq 0 .. 9
    /\ Modes \subseteq BOOLEAN
    /\ Launches \subseteq {3, 4, 6, 7, 8} /\ 7 \in Launches
    /\ Apps \subseteq BOOLEAN
    /\ ImportLevels \subseteq Phases
    /\ MaxFaults \in Nat
    /\ MaxDowns \in Nat

(* The RuntimeState fields the control flow reads or that a run leaves     *)
(* behind for the next one.                                                *)
Fields == {"world_spec", "substrate_output", "dns_output", "ca_cert_pem",
           "step_ca_container_id", "pki_output", "pki_bootstrapped",
           "bootstrap_admin_password", "keycloak_platform_container_id",
           "identity_platform_output", "world_registry_output",
           "domain_registry_output", "identity_inworld_output",
           "ands_output", "world_services_output", "org_apps_output"}

(* The outputs without which a completion flag is discarded. *)
Outputs(p) ==
    CASE p = 0        -> {"substrate_output"}
      [] p \in {1, 2} -> {"dns_output"}
      [] p = 3        -> {"pki_output"}
      [] p = 4        -> {"identity_platform_output"}
      [] p = 5        -> {"world_registry_output", "domain_registry_output"}
      [] p = 6        -> {"identity_inworld_output"}
      [] p = 7        -> {"ands_output"}
      [] p = 8        -> {"world_services_output"}
      [] OTHER        -> {"org_apps_output"}

(* PHASE_PREREQUISITES *)
Requires(p) ==
    CASE p = 3 -> {"dns_output"}
      [] p = 4 -> {"pki_bootstrapped"}
      [] p = 5 -> {"identity_platform_output"}
      [] p = 6 -> {"world_registry_output", "domain_registry_output"}
      [] p = 7 -> {"identity_inworld_output"}
      [] p = 8 -> {"ands_output"}
      [] p = 9 -> {"world_services_output"}
      [] OTHER -> {}

(* Defect: phase 8 writes the output of phase 9 as well. *)
RecordedAhead(p) == Outputs(p) \cup (IF p = 8 THEN Outputs(9) ELSE {})

(* What the last step of a successful execute assigns. *)
Recorded(p) == IF p = 3 THEN Outputs(3) \cup {"pki_bootstrapped"} ELSE Outputs(p)

(***************************************************************************)
(* A runtime state: the fields that are set, and the phases flagged        *)
(* complete.  A missing state file loads as Blank.                         *)
(***************************************************************************)
States == [set : SUBSET Fields, done : SUBSET (0 .. 9)]

Blank == [set |-> {}, done |-> {}]

Put(s, fields) == [s EXCEPT !.set = @ \cup fields]
Flag(s, ps)    == [s EXCEPT !.done = @ \cup ps]

(* _discard_completion_flags_without_outputs, which load and save both run *)
Normalised(s) == [s EXCEPT !.done = {p \in @ : Outputs(p) \subseteq s.set}]

Upto(n) == {p \in Phases : p <= n}

(* The state `import` writes for a bundle with the outputs of Upto(n). *)
Imported(n) ==
    [set  |-> {"world_spec", "ca_cert_pem", "pki_bootstrapped"}
                  \cup UNION {Outputs(p) : p \in Upto(n)},
     done |-> UNION {Marks(p) : p \in Upto(n)}]

(* Defect: phase 3 is skipped only if the state names its container. *)
SkipsByContainer(p, s) ==
    IF p = 3 THEN "step_ca_container_id" \in s.set
    ELSE IF p \in {4, 5} THEN p \in s.done ELSE Outputs(p) \subseteq s.set

(* should_skip of each handler: phases 3, 4 and 5 look at the flag, the    *)
(* others at the output itself.                                            *)
Skips(p, s) == IF p \in {3, 4, 5} THEN p \in s.done ELSE Outputs(p) \subseteq s.set

VARIABLES disk,       (* the content of the state file                       *)
          mem,        (* orchestrator.runtime_state of the running process   *)
          pc,         (* where the running process is                        *)
          at,         (* the phase it is at; 10 when it is past the last     *)
          upTo,       (* the --phase of this run                             *)
          mock,       (* the --mock of this run                              *)
          active,     (* phases that registered a runnable worker, this run  *)
          resources,  (* phases whose named resources exist: containers and  *)
                      (* networks of Docker, for 7 the leases of its ANDs    *)
          faults,     (* history: crashes and failed calls so far            *)
          downs,      (* history: completed `down` commands                  *)
          apps        (* whether this world has an application to deploy     *)

vars == <<disk, mem, pc, at, upTo, mock, active, resources, faults, downs, apps>>

Running == pc # "down"

TypeOK ==
    /\ disk \in States
    /\ mem \in States
    /\ pc \in {"down", "decide", "launch", "record", "provision",
               "healthcheck", "finished"}
    /\ at \in Phases \cup {10}
    /\ upTo \in 0 .. 9
    /\ mock \in BOOLEAN
    /\ active \subseteq {5, 7, 8}
    /\ resources \subseteq Launches
    /\ faults \in 0 .. MaxFaults
    /\ downs \in 0 .. MaxDowns
    /\ apps \in BOOLEAN

Init ==
    /\ disk \in {Blank} \cup {Imported(n) : n \in ImportLevels}
    /\ mem = Blank
    /\ pc = "down"
    /\ at = 0
    /\ upTo = 9
    /\ mock = FALSE
    /\ active = {}
    /\ resources = {}
    /\ faults = 0
    /\ downs = 0
    /\ apps \in Apps

-----------------------------------------------------------------------------
(* RuntimeState.save: the process keeps the normalised state and an atomic *)
(* rename makes it the content of the state file.                          *)
Save(s) == /\ disk' = Normalised(s)
           /\ mem' = Normalised(s)

(* The except branch of execute_phases: save, re-raise, and `up` exits. *)
Fail(s) == /\ disk' = Normalised(s)
           /\ mem' = Blank
           /\ pc' = "down"
           /\ active' = {}

Fault == faults < MaxFaults /\ faults' = faults + 1

(* `netengine up --phase n [--mock]`: load the state file; the spec is     *)
(* recorded and saved by the first run.                                    *)
Up(n, m) ==
    /\ pc = "down"
    /\ LET loaded == Normalised(disk) IN
         IF "world_spec" \in loaded.set
         THEN mem' = loaded /\ UNCHANGED disk
         ELSE Save(Put(loaded, {"world_spec"}))
    /\ pc' = "decide"
    /\ at' = 0
    /\ upTo' = n
    /\ mock' = m
    /\ UNCHANGED <<active, resources, faults, downs, apps>>

(* A phase that is there already is flagged in memory, without a save. *)
SkipPhase ==
    /\ pc = "decide"
    /\ at <= upTo
    /\ Skips(at, mem)
    /\ mem' = Flag(mem, Marks(at))
    /\ at' = NextPhase(at)
    /\ UNCHANGED <<disk, pc, upTo, mock, active, resources, faults, downs, apps>>

(* A real phase 3 without a CA in the state fails in _generate_ca, which   *)
(* reads two names that are defined nowhere.  A real phase 9 with an       *)
(* application fails too: the row deploy_app writes first has columns that *)
(* app_deployments lacks, and docker-py would refuse the healthcheck_path. *)
Hopeless == /\ ~mock
            /\ \/ at = 3 /\ "ca_cert_pem" \notin mem.set
               \/ at = 9 /\ apps

(* Start a phase that is not there.  Missing prerequisites abort the run   *)
(* without a save.  Under --mock phases 4 to 9 only record their output.   *)
(* Phase 4 first saves the administrator's password.                       *)
BeginPhase ==
    /\ pc = "decide"
    /\ at <= upTo
    /\ ~Skips(at, mem)
    /\ IF ~(Requires(at) \subseteq mem.set)
       THEN pc' = "down" /\ mem' = Blank /\ active' = {} /\ UNCHANGED <<disk, at>>
       ELSE IF mock /\ at >= 4
       THEN /\ Save(Flag(Put(mem, Recorded(at)), Marks(at)))
            /\ at' = NextPhase(at)
            /\ UNCHANGED <<pc, active>>
       ELSE IF Hopeless
       THEN Fail(mem) /\ UNCHANGED at
       ELSE /\ pc' = IF ~mock /\ at \in Launches THEN "launch" ELSE "provision"
            /\ IF at = 4 /\ "bootstrap_admin_password" \notin mem.set
               THEN Save(Put(mem, {"bootstrap_admin_password"}))
               ELSE UNCHANGED <<disk, mem>>
            /\ UNCHANGED <<at, active>>
    /\ UNCHANGED <<upTo, mock, resources, faults, downs, apps>>

(* Defect: phase 3 does not look for its container in the state either. *)
LaunchAlways ==
    /\ pc = "launch"
    /\ IF at \in resources
       THEN Fail(mem) /\ UNCHANGED resources
       ELSE /\ resources' = resources \cup {at}
            /\ pc' = IF at \in {3, 4} THEN "record" ELSE "provision"
            /\ UNCHANGED <<disk, mem, active>>
    /\ UNCHANGED <<at, upTo, mock, faults, downs, apps>>

(* Create the phase's named container or network.  Only phase 3 looks      *)
(* first, at the container id in the state; Docker refuses a name in use.  *)
(* Phase 7 leases a subnet first; a lease that was kept comes back as an   *)
(* IPv4Network, which cannot be sent to Docker, bridge or no bridge.       *)
Launch ==
    /\ pc = "launch"
    /\ IF at = 3 /\ "step_ca_container_id" \in mem.set
       THEN pc' = "provision" /\ UNCHANGED <<disk, mem, active, resources>>
       ELSE IF at \in resources
       THEN Fail(mem) /\ UNCHANGED resources
       ELSE /\ resources' = resources \cup {at}
            /\ pc' = IF at \in {3, 4} THEN "record" ELSE "provision"
            /\ UNCHANGED <<disk, mem, active>>
    /\ UNCHANGED <<at, upTo, mock, faults, downs, apps>>

(* The container may be left behind when attaching it to a network fails. *)
LaunchFault ==
    /\ pc = "launch"
    /\ ~(at = 3 /\ "step_ca_container_id" \in mem.set)
    /\ Fault
    /\ Fail(mem)
    /\ resources' \in {resources, resources \cup {at}}
    /\ UNCHANGED <<at, upTo, mock, downs, apps>>

ContainerField(p) == IF p = 3 THEN "step_ca_container_id" ELSE "keycloak_platform_container_id"

(* Phases 3 and 4 save the container id before anything else can fail. *)
RecordContainer ==
    /\ pc = "record"
    /\ Save(Put(mem, {ContainerField(at)}))
    /\ pc' = "provision"
    /\ UNCHANGED <<at, upTo, mock, active, resources, faults, downs, apps>>

(* The rest of execute, up to the output it records.  Phases 3, 4 and 5    *)
(* flag themselves and save before the orchestrator's healthcheck; phase 1 *)
(* flags itself only.  Phase 5 wires the pgmq client, and 7 and 8 register *)
(* their workers only when it is wired.                                    *)
Provision ==
    /\ pc = "provision"
    /\ LET recorded == Put(mem, Recorded(at)) IN
         CASE at \in {3, 4, 5} -> Save(Flag(recorded, {at}))
           [] at = 1           -> mem' = Flag(recorded, {1, 2}) /\ UNCHANGED disk
           [] OTHER            -> mem' = recorded /\ UNCHANGED disk
    /\ active' = CASE at = 5                       -> active \cup {5}
                   [] at \in {7, 8} /\ 5 \in active -> active \cup {at}
                   [] OTHER                        -> active
    /\ pc' = "healthcheck"
    /\ UNCHANGED <<at, upTo, mock, resources, faults, downs, apps>>

(* The rest of execute raises.  Phase 7 may take its bridge down again, its*)
(* lease stays.                                                            *)
ProvisionFault ==
    /\ pc = "provision"
    /\ ~mock
    /\ Fault
    /\ Fail(mem)
    /\ UNCHANGED <<at, upTo, mock, resources, downs, apps>>

(* Defect: the phase is flagged and not saved. *)
HealthcheckPassesUnsaved ==
    /\ pc = "healthcheck"
    /\ mem' = Flag(mem, Marks(at))
    /\ at' = NextPhase(at)
    /\ pc' = "decide"
    /\ UNCHANGED <<disk, upTo, mock, active, resources, faults, downs, apps>>

(* The orchestrator flags the phase again and saves. *)
HealthcheckPasses ==
    /\ pc = "healthcheck"
    /\ Save(Flag(mem, Marks(at)))
    /\ at' = NextPhase(at)
    /\ pc' = "decide"
    /\ UNCHANGED <<upTo, mock, active, resources, faults, downs, apps>>

(* The healthchecks of phases 0 and 1, and of phase 3 under --mock, only   *)
(* look at the output just recorded.                                       *)
HealthcheckFails ==
    /\ pc = "healthcheck"
    /\ ~mock /\ at >= 3
    /\ Fault
    /\ Fail(mem)
    /\ UNCHANGED <<at, upTo, mock, resources, downs, apps>>

(* "World bootstrapped."  The process lives on while it has workers. *)
Finish ==
    /\ pc = "decide"
    /\ at > upTo
    /\ pc' = "finished"
    /\ UNCHANGED <<disk, mem, at, upTo, mock, active, resources, faults, downs, apps>>

(* The operator's Ctrl-C, or the end of a process without workers. *)
Exit ==
    /\ pc = "finished"
    /\ pc' = "down"
    /\ mem' = Blank
    /\ active' = {}
    /\ UNCHANGED <<disk, at, upTo, mock, resources, faults, downs, apps>>

(* The process is killed: what it had not saved is lost. *)
Crash ==
    /\ Running
    /\ Fault
    /\ pc' = "down"
    /\ mem' = Blank
    /\ active' = {}
    /\ UNCHANGED <<disk, at, upTo, mock, resources, downs, apps>>

(* `netengine down`: each removal may fail, the state file goes anyway, and*)
(* no lease is given up.                                                   *)
Down ==
    /\ pc = "down"
    /\ downs < MaxDowns
    /\ downs' = downs + 1
    /\ disk' = Blank
    /\ resources' \in {r \in SUBSET resources : resources \cap {7} \subseteq r}
    /\ UNCHANGED <<mem, pc, at, upTo, mock, active, faults, apps>>

(* The operator removes by hand the resource of a phase that did not       *)
(* complete, `docker rm`, unless the state file says it is in use.  He does*)
(* not reach the leases.                                                   *)
RemoveStale(p) ==
    /\ pc = "down"
    /\ p \in resources \ {7}
    /\ p \notin disk.done
    /\ ~(p = 3 /\ "step_ca_container_id" \in disk.set)
    /\ resources' = resources \ {p}
    /\ UNCHANGED <<disk, mem, pc, at, upTo, mock, active, faults, downs, apps>>

-----------------------------------------------------------------------------
(* What the process does on its own, in the order of its program. *)
Step == \/ SkipPhase \/ BeginPhase \/ Launch \/ RecordContainer
        \/ Provision \/ HealthcheckPasses \/ Finish

Next == \/ \E n \in UpToChoices, m \in Modes : Up(n, m)
        \/ Step
        \/ LaunchFault \/ ProvisionFault \/ HealthcheckFails
        \/ Exit \/ Crash \/ Down
        \/ \E p \in Launches : RemoveStale(p)

Spec == Init /\ [][Next]_vars

(* The process keeps going, and the operator runs the full `up` again      *)
(* whenever no run is going on.                                            *)
FairSpec == /\ Spec
            /\ WF_vars(Step)
            /\ WF_vars(Exit)
            /\ SF_vars(\E m \in Modes : Up(9, m))

(* And he reads the error and removes the resources that are in the way    *)
(* before the next try.                                                    *)
TendedSpec == FairSpec /\ SF_vars(\E p \in Launches : RemoveStale(p))

-----------------------------------------------------------------------------
(* Safety *)

(* When the state file says that a phase is complete it holds the outputs  *)
(* of that phase and of every phase before it, whatever crash, failure or  *)
(* skip produced it: the next run has all it needs to resume.              *)
CompletedLadder ==
    \A p \in disk.done : \A q \in Phases : q <= p => Outputs(q) \subseteq disk.set

(* A run that reaches a phase it has to execute finds the prerequisites of *)
(* that phase: _check_prerequisites never stops a resumed run, although    *)
(* skipped phases were not checked.                                        *)
NeverBlocked ==
    pc = "decide" /\ at <= upTo /\ ~Skips(at, mem) => Requires(at) \subseteq mem.set

(* The state file names the step-ca container only while it exists: a run  *)
(* that finds the id and does not start the container is right.            *)
RecordedCaExists == "step_ca_container_id" \in disk.set => 3 \in resources

(* "World bootstrapped." is printed only when the outputs of all phases of *)
(* the run are in the state file, also of those the run skipped.           *)
FinishedDurable ==
    pc = "finished" => \A p \in Upto(upTo) : Outputs(p) \subseteq disk.set

(* Saves, crashes and restarts never take back what the state file had:    *)
(* only `down` does.                                                       *)
ProgressKept ==
    [][downs' = downs => /\ disk.set \subseteq disk'.set
                         /\ disk.done \subseteq disk'.done]_disk

(* A phase the state file says is complete is not executed again. *)
NeverRedone ==
    [][pc = "decide" /\ pc' \in {"launch", "provision"} => at \notin disk.done]_vars

(* Liveness *)

(* All that can be up: a real phase 9 with an application never is. *)
Booted == \A p \in Phases : Outputs(p) \subseteq disk.set \/ (p = 9 /\ apps)

(* Phase 7 failed with a subnet leased and cannot be executed any more. *)
LeaseLeft == 7 \in resources /\ ~(Outputs(7) \subseteq disk.set)

(* Running `up` again and again ends in a booted world, whatever else      *)
(* fails: for a world imported with its CA, with --mock or without, unless *)
(* it is taken down or phase 7 leaves a lease behind.                      *)
EventuallyBootedWithCa ==
    "ca_cert_pem" \in disk.set /\ [](downs = 0) /\ <>[]~LeaseLeft => <>[]Booted

-----------------------------------------------------------------------------
(* The abstract ladder of phases: one more rung at a time, or all gone. *)
Ladder == INSTANCE PhaseLadder
              WITH Rungs <- Phases,
                   Starts <- {{}} \cup {Upto(n) : n \in ImportLevels},
                   built <- {p \in Phases : Outputs(p) \subseteq disk.set}

(* The durable outputs grow in phase order, one phase per step.            *)
ClimbsLadder == Ladder!Spec
=============================================================================
