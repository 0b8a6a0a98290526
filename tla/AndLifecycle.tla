---------------------------- MODULE AndLifecycle ----------------------------
(***************************************************************************)
(* ANDsPhaseHandler: how the network domains of organisations (ANDs) come  *)
(* into being, are repaired, change their profile and are taken down.      *)
(* Phase 7, which a bootstrap, the drift controller or a reload executes,  *)
(* and reconcile work on the instances of the specification, one after the *)
(* other; the consumer of org.admitted works on the ANDs of organisations  *)
(* admitted later.  Every call of Docker or of the gateway may fail.  Two  *)
(* of these jobs at a time, in two processes, are not modelled.            *)
(*                                                                         *)
(* Addresses come from allocate_address, here in one step with what module *)
(* AddressPool shows of it: no subnet is leased twice, and the lease an AND*)
(* has is returned again, though not in a form that can be used.           *)
(***************************************************************************)
EXTENDS Naturals, FiniteSets

CONSTANTS Instances,   (* names of ANDs the specification may list, numbered*)
                       (* in its order                                      *)
          Orgs,        (* names of ANDs of admitted organisations           *)
          Cidrs, NoCidr,   (* subnets are numbers, as they are ordered      *)
          Profiles, NoProfile,
          PoolOf,      (* the subnets of the pool of each profile           *)
          FeaturesOf,  (* which of "dhcp", "reverse" and "bgp" a profile has*)
          Required,    (* the profiles whose BGP speaker is required        *)
          MaxFaults,   (* failed calls, losses and ends of the process      *)
          MaxChanges   (* changes of the specification                      *)

Names    == Instances \cup Orgs
Features == {"dhcp", "reverse", "bgp"}

ASSUME LifecycleAssumption ==
    /\ Instances \subseteq Nat /\ IsFiniteSet(Instances)
    /\ Instances \cap Orgs = {}
    /\ Cidrs \subseteq Nat /\ NoCidr \notin Cidrs
    /\ PoolOf \in [Profiles -> SUBSET Cidrs]
    /\ NoProfile \notin Profiles
    /\ FeaturesOf \in [Profiles -> SUBSET Features]
    /\ Required \subseteq {p \in Profiles : "bgp" \in FeaturesOf[p]}
    /\ MaxFaults \in Nat
    /\ MaxChanges \in Nat

(* An entry of ands_instances. *)
Entries == [profile : Profiles, cidr : Cidrs]
NoEntry == [profile |-> NoProfile, cidr |-> NoCidr]

(* What there is of an AND: its row in address_leases, its Docker bridge   *)
(* with the subnet that has, whether the gateway is attached to it, the    *)
(* profile of the nftables table, and the features set up; and its entry   *)
(* in ands_instances, in memory and in the state file.                     *)
And == [lease : Cidrs \cup {NoCidr}, bridge : Cidrs \cup {NoCidr}, attached : BOOLEAN,
        rules : Profiles \cup {NoProfile}, features : SUBSET Features,
        known : Entries \cup {NoEntry}, saved : Entries \cup {NoEntry}]

VARIABLES and,      (* the state of each AND                                *)
          desired,  (* the profile the specification gives each instance    *)
          pc,       (* what is being done to each AND                       *)
          want,     (* the profile it is to have                            *)
          job,      (* what works on the instances                          *)
          todo,     (* the instances that has still to do                   *)
          harmed,   (* history: ANDs hit by a loss, by an end of the process*)
                    (* or by a second failure, while a first was cleaned up *)
          stale,    (* history: ANDs whose teardown a crash made forgotten  *)
          faults, changes

hist == <<harmed, stale, faults>>
vars == <<and, desired, pc, want, job, todo, changes, hist>>

Provisioning == {"allocate", "bridge", "attach", "rules", "furnish", "bgp"}
Reconciling  == {"update", "repair", "unrule", "unbridge", "unlease"}

TypeOK ==
    /\ and \in [Names -> And]
    /\ desired \in [Instances -> Profiles \cup {NoProfile}]
    /\ pc \in [Names -> {"idle"} \cup Provisioning \cup Reconciling]
    /\ want \in [Names -> Profiles \cup {NoProfile}]
    /\ job \in {"none", "execute", "reconcile"}
    /\ todo \subseteq Instances
    /\ harmed \subseteq Names
    /\ stale \subseteq Names
    /\ faults \in 0 .. MaxFaults
    /\ changes \in 0 .. MaxChanges
    /\ \A n, m \in Instances : pc[n] # "idle" => job # "none" /\ (pc[m] # "idle" => n = m)

Absent == [lease |-> NoCidr, bridge |-> NoCidr, attached |-> FALSE, rules |-> NoProfile,
           features |-> {}, known |-> NoEntry, saved |-> NoEntry]

Init ==
    /\ and = [n \in Names |-> Absent]
    /\ desired \in [Instances -> Profiles]
    /\ pc = [n \in Names |-> "idle"]
    /\ want = [n \in Names |-> NoProfile]
    /\ job = "none"
    /\ todo = {}
    /\ harmed = {} /\ stale = {}
    /\ faults = 0
    /\ changes = 0

-----------------------------------------------------------------------------
Idle(ns) == \A n \in ns : pc[n] = "idle"

Becomes(n, a) == and' = [and EXCEPT ![n] = a]

Goto(n, where) == pc' = [pc EXCEPT ![n] = where] /\ UNCHANGED <<desired, want, job, todo, changes>>

(* The step for n is over, and with it the work on n. *)
Done(n) == /\ pc' = [pc EXCEPT ![n] = "idle"]
           /\ todo' = todo \ {n}
           /\ UNCHANGED <<desired, want, job, changes>>

(* An exception ends the whole job, and its caller saves the state, as     *)
(* execute_phases does; the consumer goes on with its next message.        *)
Raise(n, a) ==
    /\ pc' = [pc EXCEPT ![n] = "idle"]
    /\ IF n \in Instances
       THEN /\ job' = "none" /\ todo' = {}
            /\ and' = [m \in Names |->
                         IF m = n THEN [a EXCEPT !.saved = a.known]
                         ELSE IF m \in Instances THEN [and[m] EXCEPT !.saved = and[m].known]
                         ELSE and[m]]
       ELSE Becomes(n, a) /\ UNCHANGED <<job, todo>>
    /\ UNCHANGED <<desired, want, changes>>

Fault == faults < MaxFaults /\ faults' = faults + 1

Fine == UNCHANGED hist

(* A call fails, its effect undone or never there; or it fails and leaves  *)
(* something behind.                                                       *)
Fails    == Fault /\ UNCHANGED <<harmed, stale>>
Harms(n) == Fault /\ harmed' = harmed \cup {n} /\ UNCHANGED stale

-----------------------------------------------------------------------------
(* execute: bootstrap, drift controller or reload. *)
Execute ==
    /\ job = "none"
    /\ job' = "execute"
    /\ todo' = {n \in Instances : desired[n] # NoProfile}
    /\ UNCHANGED <<and, desired, pc, want, changes, hist>>

Reconcile ==
    /\ job = "none"
    /\ job' = "reconcile"
    /\ todo' = {n \in Instances : desired[n] # NoProfile \/ and[n].known # NoEntry}
    /\ UNCHANGED <<and, desired, pc, want, changes, hist>>

(* Removals come first, then the instances in their order. *)
IsNext(n) ==
    /\ n \in todo
    /\ desired[n] # NoProfile =>
           \A m \in todo : desired[m] # NoProfile /\ n <= m

(* Defect: what is on record is provisioned again. *)
StartAnew(n) == "allocate"

(* How the work on an instance begins. *)
Start(n) ==
    IF job = "execute" \/ and[n].known = NoEntry THEN "allocate"
    ELSE IF desired[n] = NoProfile THEN "unrule"
    ELSE IF desired[n] # and[n].known.profile THEN "update"
    ELSE "repair"

TakeNext(n) ==
    /\ job # "none"
    /\ Idle(Instances)
    /\ IsNext(n)
    /\ pc' = [pc EXCEPT ![n] = Start(n)]
    /\ want' = [want EXCEPT ![n] = desired[n]]
    /\ UNCHANGED <<and, desired, job, todo, changes, hist>>

(* All instances are done: the state is saved, by execute_phases.  Nothing *)
(* in the program calls reconcile; whoever does is taken to save likewise. *)
JobDone ==
    /\ job # "none"
    /\ Idle(Instances)
    /\ todo = {}
    /\ job' = "none"
    /\ and' = [n \in Names |-> [and[n] EXCEPT !.saved = and[n].known]]
    /\ UNCHANGED <<desired, pc, want, todo, changes, hist>>

(* The consumer takes an org.admitted event, also the same again. *)
Admit(n, p) ==
    /\ n \in Orgs
    /\ Idle(Orgs)
    /\ pc' = [pc EXCEPT ![n] = "allocate"]
    /\ want' = [want EXCEPT ![n] = p]
    /\ UNCHANGED <<and, desired, job, todo, changes, hist>>

-----------------------------------------------------------------------------
(* _provision_and *)

Free(p) == PoolOf[p] \ {and[n].lease : n \in Names}

(* The first free subnet of a pool is leased. *)
Granted(n, x) == and[n].lease = NoCidr /\ x \in Free(want[n]) /\ \A y \in Free(want[n]) : x <= y

(* Defect: the lease an AND has is not looked for. *)
AllocateAnew(n) ==
    /\ pc[n] = "allocate"
    /\ Fine
    /\ IF Free(want[n]) = {}
       THEN Raise(n, and[n])
       ELSE /\ \E x \in Free(want[n]) : /\ \A y \in Free(want[n]) : x <= y
                                       /\ Becomes(n, [and[n] EXCEPT !.lease = x])
            /\ Goto(n, "bridge")

(* A lease that is there already comes from asyncpg as an IPv4Network, not *)
(* as a string: docker-py cannot write it into the request for a network,  *)
(* and create_network raises before anything has changed.                  *)
Allocate(n) ==
    /\ pc[n] = "allocate"
    /\ Fine
    /\ \/ /\ and[n].lease # NoCidr
          /\ Raise(n, and[n])
       \/ /\ \E x \in Cidrs : Granted(n, x) /\ Becomes(n, [and[n] EXCEPT !.lease = x])
          /\ Goto(n, "bridge")
       \/ /\ and[n].lease = NoCidr /\ Free(want[n]) = {}
          /\ Raise(n, and[n])

(* Docker refuses a subnet that another network has.                       *)
Refused(x) == \E n \in Names : and[n].bridge = x

(* With a new lease.  The bridge has the name of the AND, which may be in  *)
(* use.                                                                    *)
CreateBridge(n) ==
    /\ pc[n] = "bridge"
    /\ Fine
    /\ IF and[n].bridge # NoCidr \/ Refused(and[n].lease)
       THEN Raise(n, and[n])
       ELSE /\ Becomes(n, [and[n] EXCEPT !.bridge = and[n].lease])
            /\ Goto(n, "attach")

(* The answer to either call is lost, whatever it did. *)
CreateFails(n) ==
    /\ pc[n] \in {"allocate", "bridge"}
    /\ \/ Fails /\ Raise(n, and[n])
       \/ /\ pc[n] = "allocate"
          /\ Fails
          /\ \E x \in Cidrs : Granted(n, x) /\ Raise(n, [and[n] EXCEPT !.lease = x])
       \/ /\ pc[n] = "bridge" /\ and[n].bridge = NoCidr /\ ~Refused(and[n].lease)
          /\ Harms(n)
          /\ Raise(n, [and[n] EXCEPT !.bridge = and[n].lease])

Attach(n) ==
    /\ pc[n] = "attach"
    /\ Fine
    /\ Becomes(n, [and[n] EXCEPT !.attached = TRUE])
    /\ Goto(n, "rules")

(* Defect: the bridge stays when the gateway cannot be attached. *)
AttachFailsDirty(n) ==
    /\ pc[n] = "attach"
    /\ Fails
    /\ Raise(n, and[n])

(* The bridge is removed again, if that works. *)
AttachFails(n) ==
    /\ pc[n] = "attach"
    /\ \/ Fails /\ Raise(n, [and[n] EXCEPT !.bridge = NoCidr])
       \/ Harms(n) /\ \E b \in BOOLEAN : Raise(n, [and[n] EXCEPT !.attached = b])

ApplyRules(n) ==
    /\ pc[n] = "rules"
    /\ Fine
    /\ Becomes(n, [and[n] EXCEPT !.rules = want[n]])
    /\ Goto(n, "furnish")

(* The gateway is detached and the bridge removed, if that works. *)
RulesFail(n) ==
    /\ pc[n] = "rules"
    /\ \/ Fails /\ Raise(n, [and[n] EXCEPT !.attached = FALSE, !.bridge = NoCidr])
       \/ /\ Harms(n)
          /\ \E b \in BOOLEAN, r \in {and[n].rules, want[n]} :
                 Raise(n, [and[n] EXCEPT !.attached = b, !.rules = r])

(* DNS, DHCP and reverse DNS: what fails is logged. *)
Furnish(n) ==
    /\ pc[n] = "furnish"
    /\ \E got \in SUBSET (FeaturesOf[want[n]] \ {"bgp"}) :
         /\ IF got = FeaturesOf[want[n]] \ {"bgp"} THEN Fine ELSE Fails
         /\ Becomes(n, [and[n] EXCEPT !.features = @ \cup got])
    /\ Goto(n, "bgp")

(* The caller records what _provision_and returned; the consumer does not. *)
Provisioned(n, features) ==
    /\ Becomes(n, [and[n] EXCEPT
                      !.features = features,
                      !.known = IF n \in Instances
                                THEN [profile |-> want[n], cidr |-> and[n].lease] ELSE @])
    /\ Done(n)
    /\ stale' = stale \ {n}

(* setup_bgp cannot start a container that is there already. *)
SpeakerRuns(n) == "bgp" \in and[n].features

SetupBgp(n) ==
    /\ pc[n] = "bgp"
    /\ UNCHANGED <<harmed, faults>>
    /\ IF "bgp" \notin FeaturesOf[want[n]]
       THEN Provisioned(n, and[n].features)
       ELSE IF want[n] \in Required /\ SpeakerRuns(n)
       THEN Raise(n, and[n]) /\ UNCHANGED stale
       ELSE Provisioned(n, and[n].features \cup {"bgp"})

(* Only a required speaker is missed; nothing is taken down. *)
BgpFails(n) ==
    /\ pc[n] = "bgp"
    /\ "bgp" \in FeaturesOf[want[n]]
    /\ Fault /\ UNCHANGED harmed
    /\ \E f \in {and[n].features, and[n].features \cup {"bgp"}} :
         IF want[n] \in Required
         THEN Raise(n, [and[n] EXCEPT !.features = f]) /\ UNCHANGED stale
         ELSE Provisioned(n, f)

-----------------------------------------------------------------------------
(* _update_and_profile.  The reverse zone of the old profile stays. *)
Kept(n) == and[n].features
               \ ({"dhcp", "bgp"} \cap (FeaturesOf[and[n].known.profile] \ FeaturesOf[want[n]]))

Update(n) ==
    /\ pc[n] = "update"
    /\ Fine
    /\ LET a == [and[n] EXCEPT !.rules = want[n], !.features = Kept(n) \cup FeaturesOf[want[n]]]
       IN IF want[n] \in Required /\ "bgp" \in Kept(n)
          THEN Raise(n, a)
          ELSE Becomes(n, [a EXCEPT !.known.profile = want[n]]) /\ Goto(n, "repair")

(* One of its calls fails, and what came before it stays. *)
UpdateFails(n) ==
    /\ pc[n] = "update"
    /\ Fails
    /\ \/ \E f \in {and[n].features, Kept(n)} : Raise(n, [and[n] EXCEPT !.features = f])
       \/ \E f \in SUBSET FeaturesOf[want[n]] :
              Raise(n, [and[n] EXCEPT !.rules = want[n], !.features = Kept(n) \cup f])

(* _repair_and: a missing bridge is created with the subnet on record, the *)
(* gateway attached, rules and features set up again.                      *)
Repair(n) ==
    /\ pc[n] = "repair"
    /\ UNCHANGED <<faults, stale>>
    /\ IF and[n].bridge = NoCidr /\ Refused(and[n].known.cidr)
       THEN Raise(n, and[n]) /\ UNCHANGED harmed
       ELSE LET a == [and[n] EXCEPT
                        !.bridge = IF @ = NoCidr THEN and[n].known.cidr ELSE @,
                        !.attached = TRUE, !.rules = want[n],
                        !.features = @ \cup FeaturesOf[want[n]]]
            IN IF want[n] \in Required /\ SpeakerRuns(n)
               THEN Raise(n, a) /\ UNCHANGED harmed
               ELSE Becomes(n, a) /\ Done(n) /\ harmed' = harmed \ {n}

(* A failure to attach the gateway is ignored; any other ends the job.     *)
RepairFails(n) ==
    /\ pc[n] = "repair"
    /\ Harms(n)
    /\ \/ Raise(n, and[n])
       \/ /\ and[n].bridge = NoCidr => ~Refused(and[n].known.cidr)
          /\ \E b \in {and[n].attached, TRUE}, f \in SUBSET FeaturesOf[want[n]] :
               LET a == [and[n] EXCEPT
                           !.bridge = IF @ = NoCidr THEN and[n].known.cidr ELSE @,
                           !.attached = b]
                   d == [a EXCEPT !.rules = want[n], !.features = @ \cup f]
               IN \/ Raise(n, a) \/ Raise(n, d)
                  \/ want[n] \notin Required /\ Becomes(n, d) /\ Done(n)

-----------------------------------------------------------------------------
(* _teardown_and *)

(* The rules, and the features that are on record. *)
Unrule(n) ==
    /\ pc[n] = "unrule"
    /\ Fine
    /\ Becomes(n, [and[n] EXCEPT !.rules = NoProfile,
                                 !.features = @ \ FeaturesOf[and[n].known.profile]])
    /\ Goto(n, "unbridge")

(* A speaker that cannot be stopped is ignored, any other failure is not.  *)
UnruleFails(n) ==
    /\ pc[n] = "unrule"
    /\ Harms(n)
    /\ \/ \E r \in {and[n].rules, NoProfile}, f \in SUBSET FeaturesOf[and[n].known.profile] :
              Raise(n, [and[n] EXCEPT !.rules = r, !.features = @ \ f])
       \/ /\ Becomes(n, [and[n] EXCEPT !.rules = NoProfile,
                             !.features = @ \ (FeaturesOf[and[n].known.profile] \ {"bgp"})])
          /\ Goto(n, "unbridge")

(* Defect: the lease is given up although the bridge is still there. *)
UnbridgeCareless(n) ==
    /\ pc[n] = "unbridge"
    /\ Fine
    /\ Becomes(n, [and[n] EXCEPT !.attached = FALSE, !.known = NoEntry,
                                 !.bridge = IF SpeakerRuns(n) THEN @ ELSE NoCidr])
    /\ Goto(n, "unlease")

(* Docker refuses to remove a network that is not there, or to which a     *)
(* container is attached.                                                  *)
Unbridge(n) ==
    /\ pc[n] = "unbridge"
    /\ Fine
    /\ IF and[n].bridge = NoCidr \/ SpeakerRuns(n)
       THEN Raise(n, [and[n] EXCEPT !.attached = FALSE])
       ELSE /\ Becomes(n, [and[n] EXCEPT !.attached = FALSE, !.bridge = NoCidr,
                                         !.known = NoEntry])
            /\ Goto(n, "unlease")

UnbridgeFails(n) ==
    /\ pc[n] = "unbridge"
    /\ Harms(n)
    /\ \E b \in {and[n].attached, FALSE} : Raise(n, [and[n] EXCEPT !.attached = b])

(* The lease is deleted, or a warning logged. *)
Unlease(n) ==
    /\ pc[n] = "unlease"
    /\ \/ Fine /\ Becomes(n, [and[n] EXCEPT !.lease = NoCidr])
       \/ Fails /\ UNCHANGED and
    /\ Done(n)

-----------------------------------------------------------------------------
(* The specification is changed: NoProfile takes an instance out of it.    *)
ChangeSpec(n, p) ==
    /\ changes < MaxChanges
    /\ job = "none"
    /\ n \in Instances
    /\ desired' = [desired EXCEPT ![n] = p]
    /\ changes' = changes + 1
    /\ UNCHANGED <<and, pc, want, job, todo, hist>>

(* The gateway is restarted without its rules, or the bridge is pruned     *)
(* after the gateway had left it.                                          *)
Lose(n) ==
    /\ pc[n] = "idle"
    /\ Harms(n)
    /\ \/ Becomes(n, [and[n] EXCEPT !.rules = NoProfile])
       \/ /\ ~SpeakerRuns(n)
          /\ Becomes(n, [and[n] EXCEPT !.bridge = NoCidr, !.attached = FALSE])
    /\ UNCHANGED <<desired, pc, want, job, todo, changes>>

(* The process ends.  The state file has the instances of the last save.   *)
Crash ==
    /\ Fault
    /\ and' = [n \in Names |-> [and[n] EXCEPT !.known = and[n].saved]]
    /\ harmed' = harmed \cup {n \in Names : pc[n] # "idle" \/ and[n].known # and[n].saved}
    /\ stale' = stale \cup {n \in Names : and[n].saved # NoEntry /\ and[n].saved.cidr # and[n].lease}
    /\ pc' = [n \in Names |-> "idle"]
    /\ job' = "none" /\ todo' = {}
    /\ UNCHANGED <<desired, want, changes>>

(* The operator removes by hand what there is in Docker of an AND that is  *)
(* not on record; its lease stays.                                         *)
Clear(n) ==
    /\ pc[n] = "idle"
    /\ job = "none"
    /\ n \in Instances
    /\ and[n].known = NoEntry
    /\ Becomes(n, [and[n] EXCEPT !.bridge = NoCidr, !.attached = FALSE, !.rules = NoProfile,
                                 !.features = {}])
    /\ harmed' = harmed \ {n}
    /\ UNCHANGED <<desired, pc, want, job, todo, stale, faults, changes>>

-----------------------------------------------------------------------------
Work(n) ==
    \/ Allocate(n) \/ CreateBridge(n) \/ Attach(n) \/ ApplyRules(n) \/ Furnish(n) \/ SetupBgp(n)
    \/ Update(n) \/ Repair(n) \/ Unrule(n) \/ Unbridge(n) \/ Unlease(n)

Trouble(n) ==
    \/ CreateFails(n) \/ AttachFails(n) \/ RulesFail(n) \/ BgpFails(n) \/ UpdateFails(n)
    \/ RepairFails(n) \/ UnruleFails(n) \/ UnbridgeFails(n) \/ Lose(n)

Next ==
    \/ Execute \/ Reconcile \/ JobDone \/ Crash
    \/ \E n \in Instances : TakeNext(n) \/ Clear(n)
    \/ \E n \in Instances, p \in Profiles \cup {NoProfile} : ChangeSpec(n, p)
    \/ \E n \in Orgs, p \in Profiles : Admit(n, p)
    \/ \E n \in Names : Work(n) \/ Trouble(n)

Spec == Init /\ [][Next]_vars

(* Jobs go on, and reconcile is run again and again. *)
FairSpec ==
    /\ Spec
    /\ \A n \in Instances : WF_vars(Work(n))
    /\ WF_vars(\E n \in Instances : TakeNext(n))
    /\ WF_vars(JobDone)
    /\ SF_vars(Reconcile)

-----------------------------------------------------------------------------
(* Safety *)

(* While there is a bridge its subnet is leased to no other AND: neither a *)
(* failed provisioning nor a teardown that stops half-way, nor a repair,   *)
(* lets another AND have it; and an entry on record names the subnet that  *)
(* is leased, so that a repair creates the right bridge.  Only a process   *)
(* that ends between a teardown and the save after it breaks either.       *)
SubnetsApart ==
    \A n \in Names \ stale :
        /\ and[n].bridge # NoCidr =>
              \A o \in Names \ {n} : and[n].bridge \notin {and[o].lease, and[o].bridge}
        /\ and[n].known # NoEntry => and[n].known.cidr = and[n].lease

(* A speaker the record does not know of: an update of the profile failed  *)
(* after it had started it, or a crash made the update forgotten.  A       *)
(* teardown leaves it, and with it the bridge, but detaches the gateway.   *)
Stray(a) == a.known # NoEntry /\ "bgp" \in a.features \ FeaturesOf[a.known.profile]

(* A bridge with the gateway and rules for it; or neither bridge nor       *)
(* gateway, and then no entry either.                                      *)
Whole(a) ==
    /\ a.attached <=> a.bridge # NoCidr
    /\ a.attached => a.rules # NoProfile
    /\ a.known # NoEntry => a.attached

(* All or nothing: where nothing was lost or left half done by a crash or  *)
(* by a failing clean-up, repair or teardown, and no update left a stray   *)
(* speaker, an AND nobody works on is whole.                               *)
AllOrNothing ==
    \A n \in Names \ harmed : pc[n] = "idle" /\ ~Stray(and[n]) => Whole(and[n])

Tenancy == INSTANCE SubnetTenancy WITH Tenants <- Names, Space <- Cidrs, Nowhere <- NoCidr,
                                       rent <- [n \in Names |-> and[n].lease],
                                       home <- [n \in Names |-> and[n].bridge],
                                       lost <- stale

(* Step by step ANDs get, keep and give up subnets as SubnetTenancy says:  *)
(* no provisioning, redelivered event, repair or teardown exchanges the    *)
(* lease or the subnet of a bridge that is there, and a lease is given up  *)
(* only after the bridge.                                                  *)
KeepsTenancy == Tenancy!TenancySpec

(* Liveness *)

(* What reconcile never gets past by itself: an AND whose provisioning     *)
(* failed or was forgotten and that has kept its lease; one that is to go  *)
(* and has no bridge any more, or a stray speaker; one with a required     *)
(* speaker, a pool that is full, and what a forgotten teardown left.       *)
Blocked ==
    \/ stale # {}
    \/ \E n \in Instances :
          /\ desired[n] # NoProfile
          /\ \/ and[n].lease = NoCidr /\ Free(desired[n]) = {}
             \/ and[n].lease # NoCidr /\ and[n].known = NoEntry /\ pc[n] = "idle"
    \/ \E n \in Instances :
          /\ and[n].known # NoEntry
          /\ \/ desired[n] = NoProfile /\ (and[n].bridge = NoCidr \/ Stray(and[n]))
             \/ {desired[n], and[n].known.profile} \cap Required # {}

Reconciled ==
    \A n \in Instances :
        LET a == and[n] IN
        /\ a.known.profile = desired[n]
        /\ desired[n] # NoProfile => a.bridge # NoCidr /\ a.attached /\ a.rules = desired[n]

(* Reconcile brings every instance to what the specification says,         *)
(* whatever failed before, where nothing is in its way for ever.           *)
Converges == <>[]~Blocked => <>[]Reconciled
=============================================================================
