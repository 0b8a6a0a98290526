------------------------- MODULE AndLifecycleProofs -------------------------
(* Proofs about AndLifecycle: subnets never collide, and no AND is left    *)
(* half done but by what the history variables name; then about            *)
(* AddressPool, where the subnets come from; and that both implement       *)
(* SubnetTenancy.                                                          *)
EXTENDS AndLifecycle, AddressPool, SubnetTenancy, TLAPS

(* A subnet is leased to one AND, and Docker gives it to one bridge.       *)
Unique ==
    \A n, o \in Names : n # o =>
        /\ and[n].lease = and[o].lease => and[n].lease = NoCidr
        /\ and[n].bridge = and[o].bridge => and[n].bridge = NoCidr

(* Bridge and record agree with the lease, but after a forgotten teardown. *)
BackedBy(a) ==
    /\ a.bridge \in {NoCidr, a.lease}
    /\ a.known # NoEntry => a.known.cidr = a.lease

Backed == \A n \in Names \ stale : BackedBy(and[n])

(* What is there of an AND before each step of the work on it, which is to *)
(* give it the profile w.                                                  *)
Reached(a, p, w) ==
    /\ p = "bridge" => a.lease # NoCidr
    /\ p \in {"attach", "rules", "furnish", "bgp"} => a.bridge = a.lease /\ a.bridge # NoCidr
    /\ p \in {"rules", "furnish", "bgp"} => a.attached
    /\ p \in {"furnish", "bgp"} => a.rules = w
    /\ p \in {"update", "repair", "unrule", "unbridge"} => a.known # NoEntry
    /\ p = "unlease" => a.bridge = NoCidr /\ ~a.attached /\ a.known = NoEntry
    /\ p \in Provisioning \cup {"update", "repair"} => w \in Profiles

Progress == \A n \in Names : Reached(and[n], pc[n], want[n])

(* The consumer provisions only, and records nothing in ands_instances;    *)
(* a job has to do with instances that are to be there or on record.       *)
Recorded ==
    /\ \A n \in Orgs : /\ pc[n] \in {"idle"} \cup Provisioning
                       /\ and[n].known = NoEntry /\ and[n].saved = NoEntry
    /\ job = "none" => todo = {}
    /\ \A n \in todo : /\ job = "execute" => desired[n] # NoProfile
                       /\ pc[n] = "idle" => desired[n] # NoProfile \/ and[n].known # NoEntry

(* An AND that nothing has harmed is whole, or becomes so.                 *)
SaneAt(a, p) ==
    /\ a.known # NoEntry => a.bridge # NoCidr
    /\ p \in {"attach", "rules", "furnish", "bgp"} => a.known = NoEntry
    /\ p \in {"idle", "allocate", "bridge", "update", "unrule"} /\ ~Stray(a) => Whole(a)
    /\ p = "attach" => ~a.attached
    /\ p = "unbridge" /\ ~Stray(a) => a.attached /\ "bgp" \notin a.features

Sane == \A n \in Names \ harmed : SaneAt(and[n], pc[n])

IInv == TypeOK /\ Unique /\ Backed /\ Progress /\ Recorded /\ Sane

-----------------------------------------------------------------------------
Places == {"idle"} \cup Provisioning \cup Reconciling

(* Two states of an AND that differ in the state file at most.             *)
Like(x, a) ==
    /\ x.lease = a.lease /\ x.bridge = a.bridge /\ x.attached = a.attached
    /\ x.rules = a.rules /\ x.features = a.features /\ x.known = a.known

(* The predicates do not look at the state file. *)
LEMMA LikeSame ==
    ASSUME NEW x, NEW a, NEW p, NEW w, Like(x, a)
    PROVE  /\ BackedBy(x) <=> BackedBy(a)
           /\ Reached(x, p, w) <=> Reached(a, p, w)
           /\ SaneAt(x, p) <=> SaneAt(a, p)
  BY DEF Like, BackedBy, Reached, SaneAt, Stray, Whole

(* A step that leaves all ANDs but n alone, leaves n in a state that is    *)
(* right at the place the work is then, and gives it no subnet another has.*)
LEMMA Local ==
    ASSUME IInv, NEW n \in Names, NEW a \in And, NEW p,
           and' \in [Names -> And], pc' = [pc EXCEPT ![n] = p],
           Like(and'[n], a), \A m \in Names \ {n} : Like(and'[m], and[m]),
           \A m \in Names \ {n} : want'[m] = want[m],
           harmed \ {n} \subseteq harmed', stale \ {n} \subseteq stale',
           a.lease \in {and[n].lease, NoCidr} \/ \A m \in Names : and[m].lease # a.lease,
           a.bridge \in {and[n].bridge, NoCidr} \/ \A m \in Names : and[m].bridge # a.bridge,
           Reached(a, p, want'[n]),
           n \notin harmed' => SaneAt(a, p),
           n \notin stale' => BackedBy(a)
    PROVE  Unique' /\ Backed' /\ Progress' /\ Sane'
<1>1. pc'[n] = p /\ \A m \in Names \ {n} : pc'[m] = pc[m]
  BY DEF IInv, TypeOK
<1>2. Unique'
  BY DEF IInv, Unique, Like
<1>3. Backed'
  <2>1. SUFFICES ASSUME NEW m \in Names, m \notin stale' PROVE BackedBy(and'[m])
    BY DEF Backed, BackedBy
  <2>2. CASE m = n
    BY <2>1, <2>2, LikeSame
  <2>3. CASE m # n
    <3>1. BackedBy(and[m])
      BY <2>1, <2>3 DEF IInv, Backed
    <3> QED BY <2>3, <3>1, LikeSame
  <2> QED BY <2>2, <2>3
<1>4. Progress'
  <2>1. SUFFICES ASSUME NEW m \in Names PROVE Reached(and'[m], pc'[m], want'[m])
    BY DEF Progress, Reached
  <2>2. CASE m = n
    BY <1>1, <2>2, LikeSame
  <2>3. CASE m # n
    <3>1. Reached(and[m], pc[m], want[m])
      BY DEF IInv, Progress
    <3> QED BY <1>1, <2>3, <3>1, LikeSame
  <2> QED BY <2>2, <2>3
<1>5. Sane'
  <2>1. SUFFICES ASSUME NEW m \in Names, m \notin harmed' PROVE SaneAt(and'[m], pc'[m])
    BY DEF Sane, SaneAt, Stray, Whole
  <2>2. CASE m = n
    BY <1>1, <2>1, <2>2, LikeSame
  <2>3. CASE m # n
    <3>1. SaneAt(and[m], pc[m])
      BY <2>1, <2>3 DEF IInv, Sane
    <3> QED BY <1>1, <2>3, <3>1, LikeSame
  <2> QED BY <2>2, <2>3
<1> QED BY <1>2, <1>3, <1>4, <1>5

LEMMA FaultCounted == TypeOK /\ Fault => faults' \in 0 .. MaxFaults
<1> SUFFICES ASSUME TypeOK, Fault PROVE faults' \in 0 .. MaxFaults
  OBVIOUS
<1>1. faults \in 0 .. MaxFaults /\ MaxFaults \in Nat
  BY LifecycleAssumption DEF TypeOK
<1>2. faults < MaxFaults => faults + 1 \in 0 .. MaxFaults
  BY <1>1
<1> QED BY <1>2 DEF Fault

(* What the history says when a call is fine, fails or harms. *)
LEMMA Costs ==
    ASSUME TypeOK, NEW n \in Names
    PROVE  /\ Fine => harmed' = harmed /\ stale' = stale /\ faults' \in 0 .. MaxFaults
           /\ Fails => harmed' = harmed /\ stale' = stale /\ faults' \in 0 .. MaxFaults
           /\ Harms(n) => harmed' = harmed \cup {n} /\ stale' = stale /\ faults' \in 0 .. MaxFaults
           /\ Fault => faults' \in 0 .. MaxFaults
<1>1. faults \in 0 .. MaxFaults
  BY DEF TypeOK
<1> QED BY <1>1, FaultCounted DEF Fine, Fails, Harms, hist

(* An exception leaves everything but the work and the state file.         *)
LEMMA RaiseIs ==
    ASSUME TypeOK, NEW n \in Names, NEW a \in And, Raise(n, a)
    PROVE  /\ and' \in [Names -> And]
           /\ Like(and'[n], a) /\ \A m \in Names \ {n} : Like(and'[m], and[m])
           /\ \A m \in Orgs \ {n} : and'[m].saved = and[m].saved
           /\ n \in Orgs => and'[n].saved = a.saved
           /\ pc' = [pc EXCEPT ![n] = "idle"]
           /\ UNCHANGED <<desired, want, changes>>
           /\ IF n \in Instances THEN job' = "none" /\ todo' = {} ELSE UNCHANGED <<job, todo>>
<1>1. \A x \in And : /\ [x EXCEPT !.saved = x.known] \in And
                     /\ Like([x EXCEPT !.saved = x.known], x)
  BY DEF And, Like
<1>2. \A m \in Names : and[m] \in And
  BY DEF TypeOK
<1>3. CASE n \in Instances
  <2>1. \A m \in Names : and'[m] = IF m = n THEN [a EXCEPT !.saved = a.known]
                                   ELSE IF m \in Instances THEN [and[m] EXCEPT !.saved = and[m].known]
                                   ELSE and[m]
    BY <1>3 DEF Raise
  <2>2. \A m \in Names : and'[m] \in And
    BY <1>1, <1>2, <2>1
  <2>3. and' \in [Names -> And]
    BY <1>3, <2>2 DEF Raise
  <2>4. \A m \in Names : Like(and[m], and[m])
    BY DEF Like
  <2>5. Like(and'[n], a) /\ \A m \in Names \ {n} : Like(and'[m], and[m])
    BY <1>1, <1>2, <2>1, <2>4
  <2>6. \A m \in Orgs : m \in Names /\ m \notin Instances
    BY LifecycleAssumption DEF Names
  <2> QED BY <1>3, <2>1, <2>3, <2>5, <2>6 DEF Raise
<1>4. CASE n \notin Instances
  <2>1. and' = [and EXCEPT ![n] = a]
    BY <1>4 DEF Raise, Becomes
  <2>2. \A m \in Orgs : m \in Names
    BY DEF Names
  <2>3. and' \in [Names -> And] /\ and'[n] = a /\ \A m \in Names \ {n} : and'[m] = and[m]
    BY <1>2, <2>1 DEF TypeOK
  <2> QED BY <1>4, <2>2, <2>3 DEF Raise, Like
<1> QED BY <1>3, <1>4

(* A step of the work on n keeps the invariant when it leaves n in a state *)
(* that is right at the place the work goes on, or ends.                   *)
LEMMA Worked ==
    ASSUME IInv, NEW n \in Names, NEW a \in And, NEW p \in Places, pc[n] # "idle",
           \/ Becomes(n, a) /\ Goto(n, p) /\ p # "idle"
           \/ Becomes(n, a) /\ Done(n) /\ p = "idle"
           \/ Raise(n, a) /\ p = "idle",
           faults' \in 0 .. MaxFaults, harmed' \subseteq Names, stale' \subseteq Names,
           harmed \ {n} \subseteq harmed', stale \ {n} \subseteq stale',
           a.lease \in {and[n].lease, NoCidr} \/ \A m \in Names : and[m].lease # a.lease,
           a.bridge \in {and[n].bridge, NoCidr} \/ \A m \in Names : and[m].bridge # a.bridge,
           n \in Orgs => a.known = NoEntry /\ a.saved = NoEntry /\ p \in {"idle"} \cup Provisioning,
           Reached(a, p, want[n]),
           n \notin harmed' => SaneAt(a, p),
           n \notin stale' => BackedBy(a)
    PROVE  IInv'
<1>1. /\ and' \in [Names -> And] /\ pc' = [pc EXCEPT ![n] = p]
      /\ Like(and'[n], a) /\ \A m \in Names \ {n} : Like(and'[m], and[m])
      /\ \A m \in Orgs \ {n} : and'[m].saved = and[m].saved
      /\ n \in Orgs => and'[n].saved = a.saved
      /\ UNCHANGED <<desired, want, changes>>
  <2>1. CASE Raise(n, a) /\ p = "idle"
    BY <2>1, RaiseIs DEF IInv
  <2>2. CASE Becomes(n, a) /\ (Goto(n, p) \/ (Done(n) /\ p = "idle"))
    <3>1. and' = [and EXCEPT ![n] = a]
      BY <2>2 DEF Becomes
    <3>2. and' \in [Names -> And] /\ and'[n] = a /\ \A m \in Names \ {n} : and'[m] = and[m]
      BY <3>1 DEF IInv, TypeOK
    <3>3. \A m \in Orgs : m \in Names
      BY DEF Names
    <3> QED BY <2>2, <3>2, <3>3 DEF Like, Goto, Done
  <2> QED BY <2>1, <2>2
<1>2. /\ job' \in {"none", "execute", "reconcile"} /\ todo' \subseteq todo
      /\ job' = "none" => todo' = {}
      /\ job' # "none" => job' = job
      /\ p = "idle" /\ n \in Instances => n \notin todo'
      /\ p # "idle" \/ n \in Orgs => job' = job
      /\ n \in Instances /\ job' = "none" => p = "idle"
  <2>1. n \in Orgs => n \notin Instances
    BY LifecycleAssumption
  <2>2. n \in Instances => job # "none"
    BY DEF IInv, TypeOK
  <2> QED BY <2>1, <2>2 DEF Goto, Done, Raise, IInv, TypeOK, Recorded
<1>3. Unique' /\ Backed' /\ Progress' /\ Sane'
  BY <1>1, Local
<1>4. pc'[n] = p /\ \A m \in Names \ {n} : pc'[m] = pc[m]
  BY <1>1 DEF IInv, TypeOK
<1>5. TypeOK'
  <2>1. pc' \in [Names -> Places]
    BY <1>1 DEF IInv, TypeOK, Places
  <2>2. Instances \subseteq Names
    BY DEF Names
  <2>3. \A k, m \in Instances : pc'[k] # "idle" => job' # "none" /\ (pc'[m] # "idle" => k = m)
    <3> SUFFICES ASSUME NEW k \in Instances, NEW m \in Instances, pc'[k] # "idle"
                 PROVE  job' # "none" /\ (pc'[m] # "idle" => k = m)
      OBVIOUS
    <3>1. \A i, j \in Instances : pc[i] # "idle" => job # "none" /\ (pc[j] # "idle" => i = j)
      BY DEF IInv, TypeOK
    <3>2. CASE k = n
      BY <1>2, <1>4, <2>2, <3>1, <3>2
    <3>3. CASE k # n
      <4>1. pc[k] # "idle"
        BY <1>4, <2>2, <3>3
      <4>2. n \in Orgs /\ n \notin Instances
        BY <3>1, <3>3, <4>1 DEF Names
      <4> QED BY <1>2, <1>4, <2>2, <3>1, <4>1, <4>2
    <3> QED BY <3>2, <3>3
  <2> QED BY <1>1, <1>2, <2>1, <2>3 DEF IInv, TypeOK, Places
<1>6. Recorded'
  <2>1. \A m \in Orgs : m \in Names
    BY DEF Names
  <2>2. \A m \in Orgs : /\ pc'[m] \in {"idle"} \cup Provisioning
                        /\ and'[m].known = NoEntry /\ and'[m].saved = NoEntry
    BY <1>1, <1>4, <2>1 DEF IInv, Recorded, Like
  <2>3. todo' \subseteq Instances /\ Instances \subseteq Names
    BY <1>2 DEF IInv, TypeOK, Names
  <2>4. \A m \in todo' : /\ job' = "execute" => desired'[m] # NoProfile
                         /\ pc'[m] = "idle" => desired'[m] # NoProfile \/ and'[m].known # NoEntry
    BY <1>1, <1>2, <1>4, <2>3 DEF IInv, Recorded, Like
  <2> QED BY <1>2, <2>2, <2>4 DEF Recorded
<1> QED BY <1>3, <1>5, <1>6 DEF IInv

LEMMA WorkedFine ==
    ASSUME IInv, NEW n \in Names, NEW a \in And, NEW p \in Places, pc[n] # "idle",
           \/ Becomes(n, a) /\ Goto(n, p) /\ p # "idle"
           \/ Becomes(n, a) /\ Done(n) /\ p = "idle"
           \/ Raise(n, a) /\ p = "idle",
           Fine \/ Fails,
           a.lease \in {and[n].lease, NoCidr} \/ \A m \in Names : and[m].lease # a.lease,
           a.bridge \in {and[n].bridge, NoCidr} \/ \A m \in Names : and[m].bridge # a.bridge,
           n \in Orgs => a.known = NoEntry /\ a.saved = NoEntry /\ p \in {"idle"} \cup Provisioning,
           Reached(a, p, want[n]),
           n \notin harmed => SaneAt(a, p),
           n \notin stale => BackedBy(a)
    PROVE  IInv'
<1>1. harmed' = harmed /\ stale' = stale /\ faults' \in 0 .. MaxFaults
  BY Costs DEF IInv
<1>2. harmed \subseteq Names /\ stale \subseteq Names
  BY DEF IInv, TypeOK
<1> QED BY <1>1, <1>2, Worked

LEMMA WorkedHarming ==
    ASSUME IInv, NEW n \in Names, NEW a \in And, NEW p \in Places, pc[n] # "idle",
           \/ Becomes(n, a) /\ Goto(n, p) /\ p # "idle"
           \/ Becomes(n, a) /\ Done(n) /\ p = "idle"
           \/ Raise(n, a) /\ p = "idle",
           Harms(n),
           a.lease \in {and[n].lease, NoCidr} \/ \A m \in Names : and[m].lease # a.lease,
           a.bridge \in {and[n].bridge, NoCidr} \/ \A m \in Names : and[m].bridge # a.bridge,
           n \in Orgs => a.known = NoEntry /\ a.saved = NoEntry /\ p \in {"idle"} \cup Provisioning,
           Reached(a, p, want[n]),
           n \notin stale => BackedBy(a)
    PROVE  IInv'
<1>1. harmed' = harmed \cup {n} /\ stale' = stale /\ faults' \in 0 .. MaxFaults
  BY Costs DEF IInv
<1>2. harmed \subseteq Names /\ stale \subseteq Names
  BY DEF IInv, TypeOK
<1> QED BY <1>1, <1>2, Worked

(* What the invariant says of one AND. *)
LEMMA Here ==
    ASSUME IInv, NEW n \in Names
    PROVE  /\ and[n] \in And
           /\ Reached(and[n], pc[n], want[n])
           /\ n \notin harmed => SaneAt(and[n], pc[n])
           /\ n \notin stale => BackedBy(and[n])
           /\ n \in Orgs => /\ and[n].known = NoEntry /\ and[n].saved = NoEntry
                            /\ pc[n] \in {"idle"} \cup Provisioning
           /\ and' = and => Becomes(n, and[n])
  BY DEF IInv, TypeOK, Progress, Sane, Backed, Recorded, Becomes

LEMMA PlacesAre ==
    /\ Provisioning \subseteq Places /\ Reconciling \subseteq Places /\ "idle" \in Places
    /\ "idle" \notin Provisioning /\ "idle" \notin Reconciling
  BY DEF Places, Provisioning, Reconciling

(* A subnet that is granted is leased to nobody. *)
LEMMA GrantedFree ==
    ASSUME NEW n \in Names, NEW x \in Cidrs, Granted(n, x)
    PROVE  and[n].lease = NoCidr /\ x # NoCidr /\ \A m \in Names : and[m].lease # x
  BY LifecycleAssumption DEF Granted, Free

LEMMA LeasedIsAnd ==
    ASSUME IInv, NEW n \in Names, NEW x \in Cidrs, Granted(n, x), pc[n] = "allocate"
    PROVE  LET a == [and[n] EXCEPT !.lease = x] IN
           /\ a \in And /\ Reached(a, "bridge", want[n]) /\ Reached(a, "idle", want[n])
           /\ n \notin harmed => SaneAt(a, "bridge") /\ SaneAt(a, "idle")
           /\ n \notin stale => BackedBy(a)
           /\ \A m \in Names : and[m].lease # a.lease
           /\ a.bridge = and[n].bridge
           /\ a.known = and[n].known /\ a.saved = and[n].saved
<1> DEFINE a == [and[n] EXCEPT !.lease = x]
<1>1. /\ a \in And /\ a.lease = x /\ a.bridge = and[n].bridge /\ a.attached = and[n].attached
      /\ a.rules = and[n].rules /\ a.features = and[n].features /\ a.known = and[n].known
      /\ a.saved = and[n].saved
  BY Here DEF And
<1>2. and[n].lease = NoCidr /\ x # NoCidr /\ \A m \in Names : and[m].lease # x
  BY GrantedFree
<1> HIDE DEF a
<1>3. Reached(a, "bridge", want[n]) /\ Reached(a, "idle", want[n])
  BY <1>1, <1>2, Here DEF Reached, Provisioning
<1>4. n \notin harmed => SaneAt(a, "bridge") /\ SaneAt(a, "idle")
  BY <1>1, Here DEF SaneAt, Stray, Whole
<1>5. n \notin stale => BackedBy(a)
  <2> SUFFICES ASSUME n \notin stale PROVE BackedBy(a)
    OBVIOUS
  <2>1. and[n].bridge = NoCidr
    BY <1>2, Here DEF BackedBy
  <2>2. and[n].known \in Entries \cup {NoEntry}
    BY Here DEF And
  <2>3. and[n].known # NoEntry => and[n].known.cidr \in Cidrs
    BY <2>2 DEF Entries
  <2>4. and[n].known = NoEntry
    BY <1>2, <2>3, Here, LifecycleAssumption DEF BackedBy
  <2> QED BY <1>1, <2>1, <2>4 DEF BackedBy
<1> QED BY <1>1, <1>2, <1>3, <1>4, <1>5 DEF a

LEMMA AllocateKeeps == ASSUME IInv, NEW n \in Names, Allocate(n) PROVE IInv'
<1>1. pc[n] = "allocate" /\ Fine
  BY DEF Allocate
<1>2. "bridge" \in Places /\ "idle" \in Places /\ "bridge" \in Provisioning
  BY DEF Places, Provisioning
<1>3. CASE and[n].lease # NoCidr /\ Goto(n, "bridge") /\ UNCHANGED and
  <2>1. Reached(and[n], "bridge", want[n]) /\ (n \notin harmed => SaneAt(and[n], "bridge"))
    BY <1>1, <1>3, Here DEF Reached, SaneAt, Provisioning
  <2> QED BY <1>1, <1>2, <1>3, <2>1, Here, WorkedFine
<1>4. CASE /\ \E x \in Cidrs : Granted(n, x) /\ Becomes(n, [and[n] EXCEPT !.lease = x])
           /\ Goto(n, "bridge")
  <2>1. PICK x \in Cidrs : Granted(n, x) /\ Becomes(n, [and[n] EXCEPT !.lease = x])
    BY <1>4
  <2> DEFINE a == [and[n] EXCEPT !.lease = x]
  <2>2. /\ a \in And /\ Reached(a, "bridge", want[n])
        /\ n \notin harmed => SaneAt(a, "bridge")
        /\ n \notin stale => BackedBy(a)
        /\ \A m \in Names : and[m].lease # a.lease
        /\ a.bridge = and[n].bridge
        /\ a.known = and[n].known /\ a.saved = and[n].saved
    BY <1>1, <2>1, LeasedIsAnd
  <2>3. Becomes(n, a)
    BY <2>1
  <2> HIDE DEF a
  <2> QED BY <1>1, <1>2, <1>4, <2>2, <2>3, Here, WorkedFine
<1>5. CASE Raise(n, and[n])
  <2>1. Reached(and[n], "idle", want[n]) /\ (n \notin harmed => SaneAt(and[n], "idle"))
    BY <1>1, Here DEF Reached, SaneAt, Provisioning
  <2> QED BY <1>1, <1>2, <1>5, <2>1, Here, WorkedFine
<1> QED BY <1>3, <1>4, <1>5 DEF Allocate

(* An exception that leaves n as it is, while nothing was begun. *)
LEMMA RaisedUnchanged ==
    ASSUME IInv, NEW n \in Names, pc[n] \in {"allocate", "bridge", "furnish", "bgp", "update", "unrule"},
           Raise(n, and[n]), Fine \/ Fails
    PROVE  IInv'
<1>1. Reached(and[n], "idle", want[n])
  BY DEF Reached, Provisioning
<1>2. n \notin harmed => SaneAt(and[n], "idle")
  <2>1. pc[n] \in {"furnish", "bgp"} => /\ and[n].attached /\ and[n].bridge # NoCidr
                                        /\ and[n].rules # NoProfile
    BY Here, LifecycleAssumption DEF Reached, Provisioning
  <2> QED BY <2>1, Here DEF SaneAt, Whole
<1>3. "idle" \in Places /\ pc[n] # "idle"
  BY DEF Places
<1> QED BY <1>1, <1>2, <1>3, Here, WorkedFine

(* The bridge that CreateBridge creates is n's alone. *)
LEMMA BridgedIsAnd ==
    ASSUME IInv, NEW n \in Names, pc[n] = "bridge", and[n].bridge = NoCidr, ~Refused(and[n].lease)
    PROVE  LET a == [and[n] EXCEPT !.bridge = and[n].lease] IN
           /\ a \in And /\ Reached(a, "attach", want[n]) /\ Reached(a, "idle", want[n])
           /\ n \notin harmed => SaneAt(a, "attach")
           /\ n \notin stale => BackedBy(a)
           /\ \A m \in Names : and[m].bridge # a.bridge
           /\ a.lease = and[n].lease
           /\ a.known = and[n].known /\ a.saved = and[n].saved
<1> DEFINE a == [and[n] EXCEPT !.bridge = and[n].lease]
<1>1. /\ a \in And /\ a.bridge = and[n].lease /\ a.lease = and[n].lease
      /\ a.attached = and[n].attached /\ a.rules = and[n].rules /\ a.features = and[n].features
      /\ a.known = and[n].known /\ a.saved = and[n].saved
  BY Here DEF And
<1>2. and[n].lease # NoCidr
  BY Here DEF Reached
<1> HIDE DEF a
<1>3. Reached(a, "attach", want[n]) /\ Reached(a, "idle", want[n])
  BY <1>1, <1>2, Here DEF Reached, Provisioning
<1>4. n \notin harmed => SaneAt(a, "attach")
  BY <1>1, Here DEF SaneAt, Stray, Whole
<1>5. n \notin stale => BackedBy(a)
  BY <1>1, Here DEF BackedBy
<1>6. \A m \in Names : and[m].bridge # a.bridge
  BY <1>1 DEF Refused
<1> QED BY <1>1, <1>3, <1>4, <1>5, <1>6 DEF a

LEMMA CreateBridgeKeeps == ASSUME IInv, NEW n \in Names, CreateBridge(n) PROVE IInv'
<1>1. pc[n] = "bridge" /\ Fine
  BY DEF CreateBridge
<1>2. CASE and[n].bridge # NoCidr \/ Refused(and[n].lease)
  BY <1>1, <1>2, RaisedUnchanged DEF CreateBridge
<1>3. CASE ~(and[n].bridge # NoCidr \/ Refused(and[n].lease))
  <2> DEFINE a == [and[n] EXCEPT !.bridge = and[n].lease]
  <2>1. Becomes(n, a) /\ Goto(n, "attach")
    BY <1>3 DEF CreateBridge
  <2>2. /\ a \in And /\ Reached(a, "attach", want[n])
        /\ n \notin harmed => SaneAt(a, "attach")
        /\ n \notin stale => BackedBy(a)
        /\ \A m \in Names : and[m].bridge # a.bridge
        /\ a.lease = and[n].lease
        /\ a.known = and[n].known /\ a.saved = and[n].saved
    BY <1>1, <1>3, BridgedIsAnd
  <2>3. "attach" \in Places /\ "attach" \in Provisioning
    BY DEF Places, Provisioning
  <2> HIDE DEF a
  <2> QED BY <1>1, <2>1, <2>2, <2>3, Here, WorkedFine
<1> QED BY <1>2, <1>3

LEMMA CreateFailsKeeps == ASSUME IInv, NEW n \in Names, CreateFails(n) PROVE IInv'
<1>1. "idle" \in Places
  BY DEF Places
<1>2. CASE pc[n] \in {"allocate", "bridge"} /\ Fails /\ Raise(n, and[n])
  BY <1>2, RaisedUnchanged
<1>3. CASE /\ pc[n] = "allocate" /\ Fails
           /\ \E x \in Cidrs : Granted(n, x) /\ Raise(n, [and[n] EXCEPT !.lease = x])
  <2>1. PICK x \in Cidrs : Granted(n, x) /\ Raise(n, [and[n] EXCEPT !.lease = x])
    BY <1>3
  <2> DEFINE a == [and[n] EXCEPT !.lease = x]
  <2>2. /\ a \in And /\ Reached(a, "idle", want[n])
        /\ n \notin harmed => SaneAt(a, "idle")
        /\ n \notin stale => BackedBy(a)
        /\ \A m \in Names : and[m].lease # a.lease
        /\ a.bridge = and[n].bridge
        /\ a.known = and[n].known /\ a.saved = and[n].saved
    BY <1>3, <2>1, LeasedIsAnd
  <2>3. Raise(n, a)
    BY <2>1
  <2> HIDE DEF a
  <2> QED BY <1>1, <1>3, <2>2, <2>3, Here, WorkedFine
<1>4. CASE /\ pc[n] = "bridge" /\ and[n].bridge = NoCidr /\ ~Refused(and[n].lease)
           /\ Harms(n)
           /\ Raise(n, [and[n] EXCEPT !.bridge = and[n].lease])
  <2> DEFINE a == [and[n] EXCEPT !.bridge = and[n].lease]
  <2>1. Raise(n, a)
    BY <1>4
  <2>2. /\ a \in And /\ Reached(a, "idle", want[n])
        /\ n \notin stale => BackedBy(a)
        /\ \A m \in Names : and[m].bridge # a.bridge
        /\ a.lease = and[n].lease
        /\ a.known = and[n].known /\ a.saved = and[n].saved
    BY <1>4, BridgedIsAnd
  <2> HIDE DEF a
  <2> QED BY <1>1, <1>4, <2>1, <2>2, Here, WorkedHarming
<1> QED BY <1>2, <1>3, <1>4 DEF CreateFails

LEMMA AttachKeeps == ASSUME IInv, NEW n \in Names, Attach(n) PROVE IInv'
<1> DEFINE a == [and[n] EXCEPT !.attached = TRUE]
<1>1. pc[n] = "attach" /\ Fine /\ Becomes(n, a) /\ Goto(n, "rules")
  BY DEF Attach
<1>2. /\ a \in And /\ a.bridge = and[n].bridge /\ a.lease = and[n].lease
      /\ a.attached /\ a.rules = and[n].rules /\ a.features = and[n].features
      /\ a.known = and[n].known /\ a.saved = and[n].saved
  BY Here DEF And
<1> HIDE DEF a
<1>3. Reached(a, "rules", want[n]) /\ (n \notin stale => BackedBy(a))
  BY <1>1, <1>2, Here DEF Reached, Provisioning, BackedBy
<1>4. n \notin harmed => SaneAt(a, "rules")
  BY <1>1, <1>2, Here DEF SaneAt
<1>5. "rules" \in Places /\ "rules" \in Provisioning
  BY DEF Places, Provisioning
<1> QED BY <1>1, <1>2, <1>3, <1>4, <1>5, Here, WorkedFine

LEMMA AttachFailsKeeps == ASSUME IInv, NEW n \in Names, AttachFails(n) PROVE IInv'
<1>1. "idle" \in Places /\ pc[n] = "attach"
  BY DEF Places, AttachFails
<1>2. CASE Fails /\ Raise(n, [and[n] EXCEPT !.bridge = NoCidr])
  <2> DEFINE a == [and[n] EXCEPT !.bridge = NoCidr]
  <2>1. Raise(n, a)
    BY <1>2
  <2>2. /\ a \in And /\ a.bridge = NoCidr /\ a.lease = and[n].lease
        /\ a.attached = and[n].attached /\ a.rules = and[n].rules /\ a.features = and[n].features
        /\ a.known = and[n].known /\ a.saved = and[n].saved
    BY Here DEF And
  <2> HIDE DEF a
  <2>3. Reached(a, "idle", want[n]) /\ (n \notin stale => BackedBy(a))
    BY <2>2, Here DEF Reached, Provisioning, BackedBy
  <2>4. n \notin harmed => SaneAt(a, "idle")
    BY <1>1, <2>2, Here DEF SaneAt, Whole
  <2> QED BY <1>1, <1>2, <2>1, <2>2, <2>3, <2>4, Here, WorkedFine
<1>3. ASSUME Harms(n), NEW b \in BOOLEAN, Raise(n, [and[n] EXCEPT !.attached = b]) PROVE IInv'
  <2> DEFINE a == [and[n] EXCEPT !.attached = b]
  <2>1. Raise(n, a)
    BY <1>3
  <2>2. /\ a \in And /\ a.bridge = and[n].bridge /\ a.lease = and[n].lease
        /\ a.known = and[n].known /\ a.saved = and[n].saved
    BY Here DEF And
  <2> HIDE DEF a
  <2>3. Reached(a, "idle", want[n]) /\ (n \notin stale => BackedBy(a))
    BY <2>2, Here DEF Reached, Provisioning, BackedBy
  <2> QED BY <1>1, <1>3, <2>1, <2>2, <2>3, Here, WorkedHarming
<1> QED BY <1>2, <1>3 DEF AttachFails

LEMMA ApplyRulesKeeps == ASSUME IInv, NEW n \in Names, ApplyRules(n) PROVE IInv'
<1> DEFINE a == [and[n] EXCEPT !.rules = want[n]]
<1>1. pc[n] = "rules" /\ Fine /\ Becomes(n, a) /\ Goto(n, "furnish")
  BY DEF ApplyRules
<1>2. want[n] \in Profiles \cup {NoProfile}
  BY DEF IInv, TypeOK
<1>3. /\ a \in And /\ a.bridge = and[n].bridge /\ a.lease = and[n].lease
      /\ a.attached = and[n].attached /\ a.rules = want[n] /\ a.features = and[n].features
      /\ a.known = and[n].known /\ a.saved = and[n].saved
  BY <1>2, Here DEF And
<1> HIDE DEF a
<1>4. Reached(a, "furnish", want[n]) /\ (n \notin stale => BackedBy(a))
  BY <1>1, <1>3, Here DEF Reached, Provisioning, BackedBy
<1>5. n \notin harmed => SaneAt(a, "furnish")
  BY <1>1, <1>3, Here DEF SaneAt
<1>6. "furnish" \in Places /\ "furnish" \in Provisioning
  BY DEF Places, Provisioning
<1> QED BY <1>1, <1>3, <1>4, <1>5, <1>6, Here, WorkedFine

LEMMA RulesFailKeeps == ASSUME IInv, NEW n \in Names, RulesFail(n) PROVE IInv'
<1>1. "idle" \in Places /\ pc[n] = "rules" /\ want[n] \in Profiles \cup {NoProfile}
  BY DEF Places, RulesFail, IInv, TypeOK
<1>2. CASE Fails /\ Raise(n, [and[n] EXCEPT !.attached = FALSE, !.bridge = NoCidr])
  <2> DEFINE a == [and[n] EXCEPT !.attached = FALSE, !.bridge = NoCidr]
  <2>1. Raise(n, a)
    BY <1>2
  <2>2. /\ a \in And /\ a.bridge = NoCidr /\ a.lease = and[n].lease
        /\ ~a.attached /\ a.rules = and[n].rules /\ a.features = and[n].features
        /\ a.known = and[n].known /\ a.saved = and[n].saved
    BY Here DEF And
  <2> HIDE DEF a
  <2>3. Reached(a, "idle", want[n]) /\ (n \notin stale => BackedBy(a))
    BY <2>2, Here DEF Reached, Provisioning, BackedBy
  <2>4. n \notin harmed => SaneAt(a, "idle")
    BY <1>1, <2>2, Here DEF SaneAt, Whole
  <2> QED BY <1>1, <1>2, <2>1, <2>2, <2>3, <2>4, Here, WorkedFine
<1>3. ASSUME Harms(n), NEW b \in BOOLEAN, NEW r \in {and[n].rules, want[n]},
             Raise(n, [and[n] EXCEPT !.attached = b, !.rules = r])
      PROVE  IInv'
  <2> DEFINE a == [and[n] EXCEPT !.attached = b, !.rules = r]
  <2>1. Raise(n, a)
    BY <1>3
  <2>2. /\ a \in And /\ a.bridge = and[n].bridge /\ a.lease = and[n].lease
        /\ a.known = and[n].known /\ a.saved = and[n].saved
    BY <1>1, Here DEF And
  <2> HIDE DEF a
  <2>3. Reached(a, "idle", want[n]) /\ (n \notin stale => BackedBy(a))
    BY <2>2, Here DEF Reached, Provisioning, BackedBy
  <2> QED BY <1>1, <1>3, <2>1, <2>2, <2>3, Here, WorkedHarming
<1> QED BY <1>2, <1>3 DEF RulesFail

LEMMA FurnishKeeps == ASSUME IInv, NEW n \in Names, Furnish(n) PROVE IInv'
<1>1. want[n] \in Profiles /\ pc[n] = "furnish" /\ Goto(n, "bgp")
  BY Here DEF Furnish, Reached, Provisioning
<1>2. PICK got \in SUBSET (FeaturesOf[want[n]] \ {"bgp"}) :
         /\ IF got = FeaturesOf[want[n]] \ {"bgp"} THEN Fine ELSE Fails
         /\ Becomes(n, [and[n] EXCEPT !.features = @ \cup got])
  BY DEF Furnish
<1> DEFINE a == [and[n] EXCEPT !.features = @ \cup got]
<1>3. Becomes(n, a)
  BY <1>2
<1>4. got \subseteq Features
  BY <1>1, <1>2, LifecycleAssumption
<1>5. /\ a \in And /\ a.bridge = and[n].bridge /\ a.lease = and[n].lease
      /\ a.attached = and[n].attached /\ a.rules = and[n].rules
      /\ a.known = and[n].known /\ a.saved = and[n].saved
  BY <1>4, Here DEF And
<1> HIDE DEF a
<1>6. Reached(a, "bgp", want[n]) /\ (n \notin stale => BackedBy(a))
  BY <1>1, <1>5, Here DEF Reached, Provisioning, BackedBy
<1>7. n \notin harmed => SaneAt(a, "bgp")
  BY <1>1, <1>5, Here DEF SaneAt
<1>8. "bgp" \in Places /\ "bgp" \in Provisioning
  BY DEF Places, Provisioning
<1> QED BY <1>1, <1>2, <1>3, <1>5, <1>6, <1>7, <1>8, Here, WorkedFine

(* What was provisioned is whole, and its entry names the subnet it has.   *)
LEMMA ProvisionedKeeps ==
    ASSUME IInv, NEW n \in Names, NEW f \in SUBSET Features, pc[n] = "bgp",
           Provisioned(n, f), harmed' = harmed, faults' \in 0 .. MaxFaults
    PROVE  IInv'
<1> DEFINE e == IF n \in Instances THEN [profile |-> want[n], cidr |-> and[n].lease]
                ELSE and[n].known
           a == [and[n] EXCEPT !.features = f, !.known = e]
<1>1. /\ want[n] \in Profiles /\ and[n].attached /\ and[n].rules = want[n]
      /\ and[n].bridge = and[n].lease /\ and[n].bridge # NoCidr
  BY Here DEF Reached, Provisioning
<1>2. and[n].lease \in Cidrs /\ and[n].known \in Entries \cup {NoEntry}
  BY <1>1, Here DEF And
<1>3. e \in Entries \cup {NoEntry}
  BY <1>1, <1>2 DEF Entries
<1>4. n \in Instances => e.cidr = and[n].lease
  OBVIOUS
<1>5. n \notin Instances => e = NoEntry
  BY Here DEF Names
<1>6. n \in Orgs => e = NoEntry
  BY <1>5, LifecycleAssumption
<1>7. Becomes(n, a) /\ Done(n) /\ stale' = stale \ {n}
  BY DEF Provisioned
<1> HIDE DEF e
<1>8. /\ a \in And /\ a.bridge = and[n].bridge /\ a.lease = and[n].lease
      /\ a.attached = and[n].attached /\ a.rules = and[n].rules
      /\ a.known = e /\ a.saved = and[n].saved
  BY <1>3, Here DEF And
<1> HIDE DEF a
<1>9. Reached(a, "idle", want[n]) /\ BackedBy(a)
  BY <1>1, <1>4, <1>5, <1>8 DEF Reached, Provisioning, BackedBy
<1>10. SaneAt(a, "idle")
  <2>1. a.attached /\ a.bridge # NoCidr /\ a.rules # NoProfile
    BY <1>1, <1>8, LifecycleAssumption
  <2> QED BY <2>1 DEF SaneAt, Whole
<1>11. "idle" \in Places /\ harmed' \subseteq Names /\ stale' \subseteq Names
  BY <1>7 DEF Places, IInv, TypeOK
<1> QED BY <1>6, <1>7, <1>8, <1>9, <1>10, <1>11, Here, Worked

LEMMA SetupBgpKeeps == ASSUME IInv, NEW n \in Names, SetupBgp(n) PROVE IInv'
<1>1. pc[n] = "bgp" /\ harmed' = harmed /\ faults' = faults
  BY DEF SetupBgp
<1>2. faults' \in 0 .. MaxFaults
  BY <1>1 DEF IInv, TypeOK
<1>3. and[n].features \in SUBSET Features /\ and[n].features \cup {"bgp"} \in SUBSET Features
  BY Here DEF And, Features
<1>4. CASE Raise(n, and[n]) /\ UNCHANGED stale
  BY <1>1, <1>4, RaisedUnchanged DEF Fine, hist
<1>5. CASE Provisioned(n, and[n].features)
  BY <1>1, <1>2, <1>3, <1>5, ProvisionedKeeps
<1>6. CASE Provisioned(n, and[n].features \cup {"bgp"})
  BY <1>1, <1>2, <1>3, <1>6, ProvisionedKeeps
<1> QED BY <1>4, <1>5, <1>6 DEF SetupBgp

LEMMA BgpFailsKeeps == ASSUME IInv, NEW n \in Names, BgpFails(n) PROVE IInv'
<1>1. pc[n] = "bgp" /\ Fault /\ harmed' = harmed
  BY DEF BgpFails
<1>2. faults' \in 0 .. MaxFaults
  BY <1>1, Costs DEF IInv
<1>3. PICK f \in {and[n].features, and[n].features \cup {"bgp"}} :
         IF want[n] \in Required
         THEN Raise(n, [and[n] EXCEPT !.features = f]) /\ UNCHANGED stale
         ELSE Provisioned(n, f)
  BY DEF BgpFails
<1>4. f \in SUBSET Features
  BY <1>3, Here DEF And, Features
<1>5. CASE Provisioned(n, f)
  BY <1>1, <1>2, <1>4, <1>5, ProvisionedKeeps
<1>6. CASE Raise(n, [and[n] EXCEPT !.features = f]) /\ UNCHANGED stale
  <2> DEFINE a == [and[n] EXCEPT !.features = f]
  <2>1. Raise(n, a) /\ Fails
    BY <1>1, <1>6 DEF Fails
  <2>2. /\ a \in And /\ a.bridge = and[n].bridge /\ a.lease = and[n].lease
        /\ a.attached = and[n].attached /\ a.rules = and[n].rules
        /\ a.known = and[n].known /\ a.saved = and[n].saved
    BY <1>4, Here DEF And
  <2> HIDE DEF a
  <2>3. Reached(a, "idle", want[n]) /\ (n \notin stale => BackedBy(a))
    BY <2>2, Here DEF Reached, Provisioning, BackedBy
  <2>4. n \notin harmed => SaneAt(a, "idle")
    <3>1. a.attached /\ a.bridge # NoCidr /\ a.rules # NoProfile
      BY <1>1, <2>2, Here, LifecycleAssumption DEF Reached, Provisioning
    <3> QED BY <3>1 DEF SaneAt, Whole
  <2>5. "idle" \in Places
    BY DEF Places
  <2> QED BY <1>1, <2>1, <2>2, <2>3, <2>4, <2>5, Here, WorkedFine
<1> QED BY <1>3, <1>5, <1>6

(* Only what is on record is updated, repaired or torn down.               *)
LEMMA OnRecord ==
    ASSUME IInv, NEW n \in Names, pc[n] \in {"update", "repair", "unrule", "unbridge"}
    PROVE  /\ and[n].known \in Entries /\ and[n].known # NoEntry
           /\ and[n].known.profile \in Profiles /\ and[n].known.cidr \in Cidrs
           /\ n \notin Orgs
           /\ pc[n] \in {"update", "repair"} => want[n] \in Profiles
<1>1. and[n].known # NoEntry
  BY Here DEF Reached
<1>2. and[n].known \in Entries
  BY <1>1, Here DEF And
<1>3. n \notin Orgs
  BY Here DEF Provisioning
<1>4. pc[n] \in {"update", "repair"} => want[n] \in Profiles
  BY Here DEF Reached
<1> QED BY <1>1, <1>2, <1>3, <1>4 DEF Entries

(* An update that ends with an exception, wherever it does.                *)
LEMMA UpdateRaised ==
    ASSUME IInv, NEW n \in Names, NEW a \in And, pc[n] = "update",
           a.lease = and[n].lease, a.bridge = and[n].bridge, a.attached = and[n].attached,
           a.known = and[n].known, a.saved = and[n].saved,
           a.rules \in {and[n].rules, want[n]}, Kept(n) \subseteq a.features,
           Raise(n, a), Fine \/ Fails
    PROVE  IInv'
<1>1. want[n] \in Profiles /\ n \notin Orgs
  BY OnRecord
<1>2. want[n] # NoProfile
  BY <1>1, LifecycleAssumption
<1>3. Reached(a, "idle", want[n]) /\ (n \notin stale => BackedBy(a))
  BY Here DEF Reached, Provisioning, BackedBy
<1>4. Stray(and[n]) => Stray(a)
  BY DEF Stray, Kept
<1>5. n \notin harmed => SaneAt(a, "idle")
  BY <1>2, <1>4, Here DEF SaneAt, Whole
<1>6. "idle" \in Places
  BY DEF Places
<1> QED BY <1>1, <1>3, <1>5, <1>6, WorkedFine

LEMMA UpdateKeeps == ASSUME IInv, NEW n \in Names, Update(n) PROVE IInv'
<1> DEFINE a == [and[n] EXCEPT !.rules = want[n], !.features = Kept(n) \cup FeaturesOf[want[n]]]
           b == [a EXCEPT !.known.profile = want[n]]
<1>1. pc[n] = "update" /\ Fine
  BY DEF Update
<1>2. /\ and[n].known \in Entries /\ and[n].known # NoEntry /\ n \notin Orgs
      /\ want[n] \in Profiles
  BY <1>1, OnRecord
<1>3. FeaturesOf[want[n]] \subseteq Features /\ Kept(n) \subseteq Features
  BY <1>2, Here, LifecycleAssumption DEF Kept, And
<1>4. /\ a \in And /\ a.bridge = and[n].bridge /\ a.lease = and[n].lease
      /\ a.attached = and[n].attached /\ a.rules = want[n] /\ Kept(n) \subseteq a.features
      /\ a.known = and[n].known /\ a.saved = and[n].saved
  BY <1>2, <1>3, Here DEF And
<1>5. Raise(n, a) \/ (Becomes(n, b) /\ Goto(n, "repair"))
  BY DEF Update
<1> HIDE DEF a
<1>6. CASE Raise(n, a)
  BY <1>1, <1>4, <1>6, UpdateRaised
<1>7. CASE Becomes(n, b) /\ Goto(n, "repair")
  <2>1. /\ [and[n].known EXCEPT !.profile = want[n]] \in Entries
        /\ [and[n].known EXCEPT !.profile = want[n]].cidr = and[n].known.cidr
    BY <1>2 DEF Entries
  <2>2. /\ b \in And /\ b.bridge = and[n].bridge /\ b.lease = and[n].lease
        /\ b.known \in Entries /\ b.known.cidr = and[n].known.cidr /\ b.saved = and[n].saved
    BY <1>4, <2>1 DEF And
  <2> HIDE DEF b
  <2>3. b.known # NoEntry
    BY <2>2, LifecycleAssumption DEF Entries, NoEntry
  <2>4. Reached(b, "repair", want[n]) /\ (n \notin stale => BackedBy(b))
    BY <1>1, <1>2, <2>2, <2>3, Here DEF Reached, Provisioning, BackedBy
  <2>5. n \notin harmed => SaneAt(b, "repair")
    BY <1>1, <1>2, <2>2, Here DEF SaneAt
  <2>6. "repair" \in Places
    BY DEF Places, Reconciling
  <2> QED BY <1>1, <1>2, <1>7, <2>2, <2>4, <2>5, <2>6, WorkedFine
<1> QED BY <1>5, <1>6, <1>7

LEMMA UpdateFailsKeeps == ASSUME IInv, NEW n \in Names, UpdateFails(n) PROVE IInv'
<1>1. pc[n] = "update" /\ Fails
  BY DEF UpdateFails
<1>2. want[n] \in Profiles
  BY <1>1, OnRecord
<1>3. FeaturesOf[want[n]] \subseteq Features /\ Kept(n) \subseteq Features
      /\ Kept(n) \subseteq and[n].features
  BY <1>2, Here, LifecycleAssumption DEF Kept, And
<1>4. ASSUME NEW f \in {and[n].features, Kept(n)}, Raise(n, [and[n] EXCEPT !.features = f])
      PROVE  IInv'
  <2> DEFINE a == [and[n] EXCEPT !.features = f]
  <2>1. /\ a \in And /\ a.bridge = and[n].bridge /\ a.lease = and[n].lease
        /\ a.attached = and[n].attached /\ a.rules = and[n].rules /\ Kept(n) \subseteq a.features
        /\ a.known = and[n].known /\ a.saved = and[n].saved
    BY <1>3, Here DEF And
  <2>2. Raise(n, a)
    BY <1>4
  <2> HIDE DEF a
  <2> QED BY <1>1, <2>1, <2>2, UpdateRaised
<1>5. ASSUME NEW f \in SUBSET FeaturesOf[want[n]],
             Raise(n, [and[n] EXCEPT !.rules = want[n], !.features = Kept(n) \cup f])
      PROVE  IInv'
  <2> DEFINE a == [and[n] EXCEPT !.rules = want[n], !.features = Kept(n) \cup f]
  <2>1. /\ a \in And /\ a.bridge = and[n].bridge /\ a.lease = and[n].lease
        /\ a.attached = and[n].attached /\ a.rules = want[n] /\ Kept(n) \subseteq a.features
        /\ a.known = and[n].known /\ a.saved = and[n].saved
    BY <1>2, <1>3, Here DEF And
  <2>2. Raise(n, a)
    BY <1>5
  <2> HIDE DEF a
  <2> QED BY <1>1, <2>1, <2>2, UpdateRaised
<1> QED BY <1>4, <1>5 DEF UpdateFails

(* What a repair rebuilds has the subnet on record, and no other has it.   *)
LEMMA RebuiltIs ==
    ASSUME IInv, NEW n \in Names, NEW a \in And, pc[n] = "repair",
           and[n].bridge = NoCidr => ~Refused(and[n].known.cidr),
           a.bridge = IF and[n].bridge = NoCidr THEN and[n].known.cidr ELSE and[n].bridge,
           a.lease = and[n].lease, a.known = and[n].known
    PROVE  /\ Reached(a, "idle", want[n])
           /\ n \notin stale => BackedBy(a)
           /\ a.bridge # NoCidr
           /\ a.bridge \in {and[n].bridge, NoCidr} \/ \A m \in Names : and[m].bridge # a.bridge
<1>1. and[n].known # NoEntry /\ and[n].known.cidr \in Cidrs
  BY OnRecord
<1>2. a.bridge # NoCidr
  BY <1>1, LifecycleAssumption
<1>3. Reached(a, "idle", want[n])
  BY DEF Reached, Provisioning
<1>4. n \notin stale => BackedBy(a)
  BY <1>1, Here DEF BackedBy
<1>5. a.bridge \in {and[n].bridge, NoCidr} \/ \A m \in Names : and[m].bridge # a.bridge
  BY DEF Refused
<1> QED BY <1>2, <1>3, <1>4, <1>5

LEMMA RepairKeeps == ASSUME IInv, NEW n \in Names, Repair(n) PROVE IInv'
<1>1. pc[n] = "repair" /\ faults' = faults /\ stale' = stale
  BY DEF Repair
<1>2. want[n] \in Profiles /\ want[n] # NoProfile /\ n \notin Orgs
  BY <1>1, OnRecord, LifecycleAssumption
<1>3. "idle" \in Places
  BY DEF Places
<1>4. faults' \in 0 .. MaxFaults /\ harmed \subseteq Names /\ stale' \subseteq Names
  BY <1>1 DEF IInv, TypeOK
<1>5. CASE and[n].bridge = NoCidr /\ Refused(and[n].known.cidr)
  <2>1. Raise(n, and[n]) /\ Fine
    BY <1>1, <1>5 DEF Repair, Fine, hist
  <2>2. Reached(and[n], "idle", want[n])
    BY DEF Reached, Provisioning
  <2>3. n \in harmed
    BY <1>1, <1>5, OnRecord, Here DEF SaneAt
  <2> QED BY <1>1, <1>2, <1>3, <2>1, <2>2, <2>3, Here, WorkedFine
<1>6. CASE ~(and[n].bridge = NoCidr /\ Refused(and[n].known.cidr))
  <2> DEFINE a == [and[n] EXCEPT
                     !.bridge = IF @ = NoCidr THEN and[n].known.cidr ELSE @,
                     !.attached = TRUE, !.rules = want[n],
                     !.features = @ \cup FeaturesOf[want[n]]]
  <2>1. \/ Raise(n, a) /\ harmed' = harmed
        \/ Becomes(n, a) /\ Done(n) /\ harmed' = harmed \ {n}
    BY <1>6 DEF Repair
  <2>2. and[n].known.cidr \in Cidrs /\ FeaturesOf[want[n]] \subseteq Features
    BY <1>1, <1>2, OnRecord, LifecycleAssumption
  <2>3. /\ a \in And
        /\ a.bridge = IF and[n].bridge = NoCidr THEN and[n].known.cidr ELSE and[n].bridge
        /\ a.lease = and[n].lease /\ a.attached /\ a.rules = want[n]
        /\ a.known = and[n].known /\ a.saved = and[n].saved
    BY <1>2, <2>2, Here DEF And
  <2> HIDE DEF a
  <2>4. /\ Reached(a, "idle", want[n])
        /\ n \notin stale => BackedBy(a)
        /\ a.bridge # NoCidr
        /\ a.bridge \in {and[n].bridge, NoCidr} \/ \A m \in Names : and[m].bridge # a.bridge
    BY <1>1, <1>6, <2>3, RebuiltIs
  <2>5. SaneAt(a, "idle")
    BY <1>2, <2>3, <2>4 DEF SaneAt, Whole
  <2>6. harmed' \subseteq Names /\ harmed \ {n} \subseteq harmed'
    BY <1>4, <2>1
  <2> QED BY <1>1, <1>2, <1>3, <1>4, <2>1, <2>3, <2>4, <2>5, <2>6, Worked
<1> QED BY <1>5, <1>6

LEMMA RepairFailsKeeps == ASSUME IInv, NEW n \in Names, RepairFails(n) PROVE IInv'
<1>1. pc[n] = "repair" /\ Harms(n)
  BY DEF RepairFails
<1>2. want[n] \in Profiles /\ n \notin Orgs /\ and[n].known.cidr \in Cidrs
  BY <1>1, OnRecord
<1>3. "idle" \in Places
  BY DEF Places
<1>4. CASE Raise(n, and[n])
  <2>1. Reached(and[n], "idle", want[n])
    BY DEF Reached, Provisioning
  <2> QED BY <1>1, <1>2, <1>3, <1>4, <2>1, Here, WorkedHarming
<1>5. ASSUME and[n].bridge = NoCidr => ~Refused(and[n].known.cidr), NEW a \in And,
             a.bridge = IF and[n].bridge = NoCidr THEN and[n].known.cidr ELSE and[n].bridge,
             a.lease = and[n].lease, a.known = and[n].known, a.saved = and[n].saved,
             Raise(n, a) \/ (Becomes(n, a) /\ Done(n))
      PROVE  IInv'
  <2>1. /\ Reached(a, "idle", want[n])
        /\ n \notin stale => BackedBy(a)
        /\ a.bridge \in {and[n].bridge, NoCidr} \/ \A m \in Names : and[m].bridge # a.bridge
    BY <1>1, <1>5, RebuiltIs
  <2> QED BY <1>1, <1>2, <1>3, <1>5, <2>1, WorkedHarming
<1>6. CASE /\ and[n].bridge = NoCidr => ~Refused(and[n].known.cidr)
           /\ \E b \in {and[n].attached, TRUE}, f \in SUBSET FeaturesOf[want[n]] :
                LET a == [and[n] EXCEPT
                            !.bridge = IF @ = NoCidr THEN and[n].known.cidr ELSE @,
                            !.attached = b]
                    d == [a EXCEPT !.rules = want[n], !.features = @ \cup f]
                IN \/ Raise(n, a) \/ Raise(n, d)
                   \/ want[n] \notin Required /\ Becomes(n, d) /\ Done(n)
  <2>1. PICK b \in {and[n].attached, TRUE}, f \in SUBSET FeaturesOf[want[n]] :
           LET a == [and[n] EXCEPT
                       !.bridge = IF @ = NoCidr THEN and[n].known.cidr ELSE @,
                       !.attached = b]
               d == [a EXCEPT !.rules = want[n], !.features = @ \cup f]
           IN \/ Raise(n, a) \/ Raise(n, d)
              \/ want[n] \notin Required /\ Becomes(n, d) /\ Done(n)
    BY <1>6
  <2> DEFINE a == [and[n] EXCEPT !.bridge = IF @ = NoCidr THEN and[n].known.cidr ELSE @,
                                 !.attached = b]
             d == [a EXCEPT !.rules = want[n], !.features = @ \cup f]
  <2>2. Raise(n, a) \/ Raise(n, d) \/ (Becomes(n, d) /\ Done(n))
    BY <2>1
  <2>3. b \in BOOLEAN /\ f \subseteq Features
    BY <1>2, Here, LifecycleAssumption DEF And
  <2>4. /\ a \in And
        /\ a.bridge = IF and[n].bridge = NoCidr THEN and[n].known.cidr ELSE and[n].bridge
        /\ a.lease = and[n].lease /\ a.known = and[n].known /\ a.saved = and[n].saved
    BY <1>2, <2>3, Here DEF And
  <2> HIDE DEF a
  <2>5. /\ d \in And
        /\ d.bridge = IF and[n].bridge = NoCidr THEN and[n].known.cidr ELSE and[n].bridge
        /\ d.lease = and[n].lease /\ d.known = and[n].known /\ d.saved = and[n].saved
    BY <1>2, <2>3, <2>4 DEF And
  <2> HIDE DEF d
  <2>6. CASE Raise(n, a)
    BY <1>5, <1>6, <2>4, <2>6
  <2>7. CASE Raise(n, d) \/ (Becomes(n, d) /\ Done(n))
    BY <1>5, <1>6, <2>5, <2>7
  <2> QED BY <2>2, <2>6, <2>7
<1> QED BY <1>4, <1>6 DEF RepairFails

LEMMA UnruleKeeps == ASSUME IInv, NEW n \in Names, Unrule(n) PROVE IInv'
<1> DEFINE a == [and[n] EXCEPT !.rules = NoProfile,
                               !.features = @ \ FeaturesOf[and[n].known.profile]]
<1>1. pc[n] = "unrule" /\ Fine /\ Becomes(n, a) /\ Goto(n, "unbridge")
  BY DEF Unrule
<1>2. and[n].known # NoEntry /\ n \notin Orgs
  BY <1>1, OnRecord
<1>3. /\ a \in And /\ a.bridge = and[n].bridge /\ a.lease = and[n].lease
      /\ a.attached = and[n].attached
      /\ a.features = and[n].features \ FeaturesOf[and[n].known.profile]
      /\ a.known = and[n].known /\ a.saved = and[n].saved
  BY Here DEF And
<1> HIDE DEF a
<1>4. Reached(a, "unbridge", want[n]) /\ (n \notin stale => BackedBy(a))
  BY <1>2, <1>3, Here DEF Reached, Provisioning, BackedBy
<1>5. n \notin harmed => SaneAt(a, "unbridge")
  <2>1. Stray(and[n]) <=> Stray(a)
    BY <1>3 DEF Stray
  <2>2. ~Stray(a) => "bgp" \notin a.features
    BY <1>2, <1>3 DEF Stray
  <2> QED BY <1>1, <1>2, <1>3, <2>1, <2>2, Here DEF SaneAt, Whole
<1>6. "unbridge" \in Places
  BY DEF Places, Reconciling
<1> QED BY <1>1, <1>2, <1>3, <1>4, <1>5, <1>6, WorkedFine

LEMMA UnruleFailsKeeps == ASSUME IInv, NEW n \in Names, UnruleFails(n) PROVE IInv'
<1>1. pc[n] = "unrule" /\ Harms(n)
  BY DEF UnruleFails
<1>2. and[n].known # NoEntry /\ n \notin Orgs
  BY <1>1, OnRecord
<1>3. ASSUME NEW r \in {and[n].rules, NoProfile}, NEW f,
             Raise(n, [and[n] EXCEPT !.rules = r, !.features = @ \ f])
      PROVE  IInv'
  <2> DEFINE a == [and[n] EXCEPT !.rules = r, !.features = @ \ f]
  <2>1. Raise(n, a)
    BY <1>3
  <2>2. /\ a \in And /\ a.bridge = and[n].bridge /\ a.lease = and[n].lease
        /\ a.known = and[n].known /\ a.saved = and[n].saved
    BY Here DEF And
  <2> HIDE DEF a
  <2>3. Reached(a, "idle", want[n]) /\ (n \notin stale => BackedBy(a)) /\ "idle" \in Places
    BY <2>2, Here DEF Reached, Provisioning, BackedBy, Places
  <2> QED BY <1>1, <1>2, <2>1, <2>2, <2>3, WorkedHarming
<1>4. CASE /\ Becomes(n, [and[n] EXCEPT !.rules = NoProfile,
                            !.features = @ \ (FeaturesOf[and[n].known.profile] \ {"bgp"})])
           /\ Goto(n, "unbridge")
  <2> DEFINE a == [and[n] EXCEPT !.rules = NoProfile,
                            !.features = @ \ (FeaturesOf[and[n].known.profile] \ {"bgp"})]
  <2>1. Becomes(n, a) /\ Goto(n, "unbridge")
    BY <1>4
  <2>2. /\ a \in And /\ a.bridge = and[n].bridge /\ a.lease = and[n].lease
        /\ a.known = and[n].known /\ a.saved = and[n].saved
    BY Here DEF And
  <2> HIDE DEF a
  <2>3. Reached(a, "unbridge", want[n]) /\ (n \notin stale => BackedBy(a))
    BY <1>2, <2>2, Here DEF Reached, Provisioning, BackedBy
  <2>4. "unbridge" \in Places
    BY DEF Places, Reconciling
  <2> QED BY <1>1, <1>2, <2>1, <2>2, <2>3, <2>4, WorkedHarming
<1> QED BY <1>1, <1>3, <1>4 DEF UnruleFails

LEMMA UnbridgeKeeps == ASSUME IInv, NEW n \in Names, Unbridge(n) PROVE IInv'
<1>1. pc[n] = "unbridge" /\ Fine
  BY DEF Unbridge
<1>2. and[n].known # NoEntry /\ n \notin Orgs
  BY <1>1, OnRecord
<1>3. CASE and[n].bridge = NoCidr \/ SpeakerRuns(n)
  <2> DEFINE a == [and[n] EXCEPT !.attached = FALSE]
  <2>1. Raise(n, a)
    BY <1>3 DEF Unbridge
  <2>2. /\ a \in And /\ a.bridge = and[n].bridge /\ a.lease = and[n].lease
        /\ a.features = and[n].features /\ a.known = and[n].known /\ a.saved = and[n].saved
    BY Here DEF And
  <2> HIDE DEF a
  <2>3. Reached(a, "idle", want[n]) /\ (n \notin stale => BackedBy(a)) /\ "idle" \in Places
    BY <2>2, Here DEF Reached, Provisioning, BackedBy, Places
  <2>4. n \notin harmed => SaneAt(a, "idle")
    <3> SUFFICES ASSUME n \notin harmed PROVE SaneAt(a, "idle")
      OBVIOUS
    <3>1. and[n].bridge # NoCidr /\ SpeakerRuns(n)
      BY <1>2, <1>3, Here DEF SaneAt
    <3>2. Stray(and[n])
      BY <1>1, <3>1, Here DEF SaneAt, SpeakerRuns
    <3>3. Stray(a)
      BY <2>2, <3>2 DEF Stray
    <3> QED BY <2>2, <3>1, <3>3 DEF SaneAt
  <2> QED BY <1>1, <1>2, <2>1, <2>2, <2>3, <2>4, WorkedFine
<1>4. CASE ~(and[n].bridge = NoCidr \/ SpeakerRuns(n))
  <2> DEFINE a == [and[n] EXCEPT !.attached = FALSE, !.bridge = NoCidr, !.known = NoEntry]
  <2>1. Becomes(n, a) /\ Goto(n, "unlease")
    BY <1>4 DEF Unbridge
  <2>2. /\ a \in And /\ a.bridge = NoCidr /\ a.lease = and[n].lease
        /\ a.attached = FALSE /\ a.known = NoEntry /\ a.saved = and[n].saved
    BY Here DEF And
  <2> HIDE DEF a
  <2>3. Reached(a, "unlease", want[n]) /\ BackedBy(a) /\ SaneAt(a, "unlease")
    BY <2>2 DEF Reached, Provisioning, BackedBy, SaneAt
  <2>4. "unlease" \in Places
    BY DEF Places, Reconciling
  <2> QED BY <1>1, <1>2, <2>1, <2>2, <2>3, <2>4, WorkedFine
<1> QED BY <1>3, <1>4

LEMMA UnbridgeFailsKeeps == ASSUME IInv, NEW n \in Names, UnbridgeFails(n) PROVE IInv'
<1>1. pc[n] = "unbridge" /\ Harms(n)
  BY DEF UnbridgeFails
<1>2. n \notin Orgs
  BY <1>1, OnRecord
<1>3. PICK b \in {and[n].attached, FALSE} : Raise(n, [and[n] EXCEPT !.attached = b])
  BY DEF UnbridgeFails
<1> DEFINE a == [and[n] EXCEPT !.attached = b]
<1>4. Raise(n, a)
  BY <1>3
<1>5. /\ a \in And /\ a.bridge = and[n].bridge /\ a.lease = and[n].lease
      /\ a.known = and[n].known /\ a.saved = and[n].saved
  BY Here DEF And
<1> HIDE DEF a
<1>6. Reached(a, "idle", want[n]) /\ (n \notin stale => BackedBy(a)) /\ "idle" \in Places
  BY <1>5, Here DEF Reached, Provisioning, BackedBy, Places
<1> QED BY <1>1, <1>2, <1>4, <1>5, <1>6, WorkedHarming

LEMMA UnleaseKeeps == ASSUME IInv, NEW n \in Names, Unlease(n) PROVE IInv'
<1>1. pc[n] = "unlease" /\ Done(n) /\ "idle" \in Places
  BY DEF Unlease, Places
<1>2. and[n].bridge = NoCidr /\ ~and[n].attached /\ and[n].known = NoEntry
  BY <1>1, Here DEF Reached
<1>3. n \notin Orgs
  BY <1>1, Here DEF Provisioning
<1>4. ASSUME NEW a \in And, Fine \/ Fails, Becomes(n, a), a.lease \in {and[n].lease, NoCidr},
             a.bridge = NoCidr, ~a.attached, a.known = NoEntry
      PROVE  IInv'
  <2>1. Reached(a, "idle", want[n]) /\ BackedBy(a) /\ SaneAt(a, "idle")
    BY <1>4 DEF Reached, Provisioning, BackedBy, SaneAt, Whole
  <2> QED BY <1>1, <1>3, <1>4, <2>1, WorkedFine
<1>5. CASE Fails /\ UNCHANGED and
  BY <1>2, <1>4, <1>5, Here
<1>6. CASE Fine /\ Becomes(n, [and[n] EXCEPT !.lease = NoCidr])
  <2> DEFINE a == [and[n] EXCEPT !.lease = NoCidr]
  <2>1. /\ a \in And /\ a.lease = NoCidr /\ a.bridge = NoCidr /\ ~a.attached
        /\ a.known = NoEntry
    BY <1>2, Here DEF And
  <2>2. Becomes(n, a)
    BY <1>6
  <2> HIDE DEF a
  <2> QED BY <1>4, <1>6, <2>1, <2>2
<1> QED BY <1>5, <1>6 DEF Unlease

-----------------------------------------------------------------------------
(* Steps that change the state file at most, and begin or end no work.     *)
LEMMA Alike ==
    ASSUME IInv, \A n \in Names : Like(and'[n], and[n]), pc' = pc, want' = want,
           harmed' = harmed, stale' = stale
    PROVE  Unique' /\ Backed' /\ Progress' /\ Sane'
<1>1. Unique'
  BY DEF IInv, Unique, Like
<1>2. Backed'
  <2>1. SUFFICES ASSUME NEW n \in Names, n \notin stale PROVE BackedBy(and'[n])
    BY DEF Backed, BackedBy
  <2> QED BY <2>1, Here, LikeSame
<1>3. Progress'
  <2>1. SUFFICES ASSUME NEW n \in Names PROVE Reached(and'[n], pc[n], want[n])
    BY DEF Progress, Reached
  <2> QED BY Here, LikeSame
<1>4. Sane'
  <2>1. SUFFICES ASSUME NEW n \in Names, n \notin harmed PROVE SaneAt(and'[n], pc[n])
    BY DEF Sane, SaneAt, Stray, Whole
  <2> QED BY <2>1, Here, LikeSame
<1> QED BY <1>1, <1>2, <1>3, <1>4

LEMMA StutterKeeps == ASSUME IInv, UNCHANGED vars PROVE IInv'
<1>1. \A n \in Names : Like(and'[n], and[n])
  BY DEF vars, Like
<1>2. Unique' /\ Backed' /\ Progress' /\ Sane'
  BY <1>1, Alike DEF vars, hist
<1>3. TypeOK' /\ Recorded'
  BY DEF IInv, TypeOK, Recorded, vars, hist
<1> QED BY <1>2, <1>3 DEF IInv

LEMMA JobBegins == ASSUME IInv, Execute \/ Reconcile PROVE IInv'
<1>1. /\ job = "none" /\ job' \in {"execute", "reconcile"} /\ todo' \subseteq Instances
      /\ \A n \in todo' : /\ job' = "execute" => desired[n] # NoProfile
                          /\ desired[n] # NoProfile \/ and[n].known # NoEntry
      /\ and' = and /\ UNCHANGED <<desired, pc, want, changes, hist>>
  BY DEF Execute, Reconcile
<1>2. \A n \in Names : Like(and'[n], and[n])
  BY <1>1 DEF Like
<1>3. Unique' /\ Backed' /\ Progress' /\ Sane'
  BY <1>1, <1>2, Alike DEF hist
<1>4. TypeOK' /\ Recorded'
  BY <1>1 DEF IInv, TypeOK, Recorded, hist
<1> QED BY <1>3, <1>4 DEF IInv

LEMMA JobDoneKeeps == ASSUME IInv, JobDone PROVE IInv'
<1>1. \A n \in Names : /\ and'[n] = [and[n] EXCEPT !.saved = and[n].known]
                       /\ and'[n] \in And /\ Like(and'[n], and[n])
                       /\ and'[n].saved = and[n].known
  <2> SUFFICES ASSUME NEW n \in Names
               PROVE  /\ and'[n] = [and[n] EXCEPT !.saved = and[n].known]
                      /\ and'[n] \in And /\ Like(and'[n], and[n])
                      /\ and'[n].saved = and[n].known
    OBVIOUS
  <2>1. and'[n] = [and[n] EXCEPT !.saved = and[n].known]
    BY DEF JobDone
  <2> QED BY <2>1, Here DEF And, Like
<1>2. and' \in [Names -> And]
  BY <1>1 DEF JobDone
<1>3. Unique' /\ Backed' /\ Progress' /\ Sane'
  BY <1>1, Alike DEF JobDone, hist
<1>4. TypeOK'
  BY <1>2 DEF IInv, TypeOK, JobDone, hist, Idle
<1>5. Recorded'
  <2>1. \A n \in Orgs : n \in Names
    BY DEF Names
  <2> QED BY <1>1, <2>1 DEF IInv, Recorded, JobDone, Like
<1> QED BY <1>3, <1>4, <1>5 DEF IInv

LEMMA ChangeSpecKeeps ==
    ASSUME IInv, NEW n \in Instances, NEW p \in Profiles \cup {NoProfile}, ChangeSpec(n, p)
    PROVE  IInv'
<1>1. \A m \in Names : Like(and'[m], and[m])
  BY DEF ChangeSpec, Like
<1>2. Unique' /\ Backed' /\ Progress' /\ Sane'
  BY <1>1, Alike DEF ChangeSpec, hist
<1>3. changes \in 0 .. MaxChanges /\ MaxChanges \in Nat
  BY LifecycleAssumption DEF IInv, TypeOK
<1>4. changes' \in 0 .. MaxChanges
  BY <1>3 DEF ChangeSpec
<1>5. desired' \in [Instances -> Profiles \cup {NoProfile}]
  BY DEF ChangeSpec, IInv, TypeOK
<1>6. TypeOK' /\ Recorded'
  BY <1>4, <1>5 DEF IInv, TypeOK, Recorded, ChangeSpec, hist
<1> QED BY <1>2, <1>6 DEF IInv

(* The work on an instance begins where it can.                            *)
LEMMA TakeNextKeeps == ASSUME IInv, NEW n \in Instances, TakeNext(n) PROVE IInv'
<1>1. n \in Names /\ Instances \subseteq Names /\ n \notin Orgs
  BY LifecycleAssumption DEF Names
<1>2. /\ job # "none" /\ pc[n] = "idle" /\ n \in todo
      /\ pc' = [pc EXCEPT ![n] = Start(n)] /\ want' = [want EXCEPT ![n] = desired[n]]
      /\ and' = and /\ UNCHANGED <<desired, job, todo, changes, hist>>
      /\ \A m \in Instances : pc[m] = "idle"
  BY DEF TakeNext, Idle, IsNext
<1>3. /\ job = "execute" => desired[n] # NoProfile
      /\ desired[n] # NoProfile \/ and[n].known # NoEntry
      /\ desired[n] \in Profiles \cup {NoProfile}
  BY <1>2 DEF IInv, Recorded, TypeOK
<1>4. \/ Start(n) = "allocate" /\ desired[n] \in Profiles
      \/ Start(n) = "unrule" /\ and[n].known # NoEntry
      \/ Start(n) \in {"update", "repair"} /\ and[n].known # NoEntry /\ desired[n] \in Profiles
  BY <1>3 DEF Start
<1> DEFINE p == Start(n)
<1>5. p \in {"allocate", "unrule", "update", "repair"}
  BY <1>4
<1>6. want'[n] = desired[n] /\ \A m \in Names \ {n} : want'[m] = want[m]
  BY <1>1, <1>2 DEF IInv, TypeOK
<1>7. Reached(and[n], p, want'[n])
  BY <1>4, <1>6 DEF Reached, Provisioning
<1>8. n \notin harmed => SaneAt(and[n], p)
  BY <1>1, <1>2, <1>5, Here DEF SaneAt
<1>9. and[n] \in And /\ \A m \in Names : Like(and'[m], and[m])
  BY <1>1, <1>2, Here DEF Like
<1>10. Unique' /\ Backed' /\ Progress' /\ Sane'
  <2>1. pc' = [pc EXCEPT ![n] = p] /\ harmed' = harmed /\ stale' = stale
    BY <1>2 DEF hist
  <2>2. and' \in [Names -> And]
    BY <1>2 DEF IInv, TypeOK
  <2> HIDE DEF p
  <2> QED BY <1>1, <1>6, <1>7, <1>8, <1>9, <2>1, <2>2, Here, Local
<1>11. TypeOK'
  <2>1. p \in {"idle"} \cup Provisioning \cup Reconciling
    BY <1>5 DEF Provisioning, Reconciling
  <2>2. pc' \in [Names -> {"idle"} \cup Provisioning \cup Reconciling]
    BY <1>2, <2>1 DEF IInv, TypeOK
  <2>3. want' \in [Names -> Profiles \cup {NoProfile}]
    BY <1>2, <1>3 DEF IInv, TypeOK
  <2>4. \A m \in Instances \ {n} : pc'[m] = "idle"
    BY <1>1, <1>2 DEF IInv, TypeOK
  <2> HIDE DEF p
  <2> QED BY <1>2, <2>2, <2>3, <2>4 DEF IInv, TypeOK, hist
<1>12. Recorded'
  <2>1. pc'[n] = p /\ \A m \in Names \ {n} : pc'[m] = pc[m]
    BY <1>1, <1>2 DEF IInv, TypeOK
  <2>2. \A m \in Orgs : m \in Names \ {n}
    BY <1>1 DEF Names
  <2>3. todo \subseteq Names
    BY <1>1 DEF IInv, TypeOK
  <2> HIDE DEF p
  <2> QED BY <1>2, <1>3, <2>1, <2>2, <2>3 DEF IInv, Recorded
<1> QED BY <1>10, <1>11, <1>12 DEF IInv

LEMMA AdmitKeeps == ASSUME IInv, NEW n \in Orgs, NEW p \in Profiles, Admit(n, p) PROVE IInv'
<1>1. n \in Names /\ n \notin Instances /\ Instances \subseteq Names
  BY LifecycleAssumption DEF Names
<1>2. /\ pc[n] = "idle" /\ pc' = [pc EXCEPT ![n] = "allocate"] /\ want' = [want EXCEPT ![n] = p]
      /\ and' = and /\ UNCHANGED <<desired, job, todo, changes, hist>>
  BY DEF Admit, Idle
<1>3. want'[n] = p /\ \A m \in Names \ {n} : want'[m] = want[m] /\ pc'[m] = pc[m]
  BY <1>1, <1>2 DEF IInv, TypeOK
<1>4. Reached(and[n], "allocate", want'[n])
  BY <1>3 DEF Reached, Provisioning
<1>5. n \notin harmed => SaneAt(and[n], "allocate")
  BY <1>1, <1>2, Here DEF SaneAt
<1>6. and[n] \in And /\ \A m \in Names : Like(and'[m], and[m])
  BY <1>1, <1>2, Here DEF Like
<1>7. Unique' /\ Backed' /\ Progress' /\ Sane'
  <2>1. harmed' = harmed /\ stale' = stale /\ and' \in [Names -> And]
    BY <1>2 DEF hist, IInv, TypeOK
  <2> QED BY <1>1, <1>2, <1>3, <1>4, <1>5, <1>6, <2>1, Here, Local
<1>8. TypeOK'
  <2>1. pc' \in [Names -> {"idle"} \cup Provisioning \cup Reconciling]
    BY <1>2 DEF IInv, TypeOK, Provisioning
  <2>2. want' \in [Names -> Profiles \cup {NoProfile}]
    BY <1>2 DEF IInv, TypeOK
  <2>3. \A m \in Instances : pc'[m] = pc[m]
    BY <1>1, <1>3
  <2> QED BY <1>2, <2>1, <2>2, <2>3 DEF IInv, TypeOK, hist
<1>9. Recorded'
  <2>1. \A m \in Instances : pc'[m] = pc[m]
    BY <1>1, <1>3
  <2>2. \A m \in Orgs : m \in Names /\ pc'[m] \in {pc[m], "allocate"}
    BY <1>1, <1>2 DEF IInv, TypeOK, Names
  <2>3. todo \subseteq Instances
    BY DEF IInv, TypeOK
  <2> QED BY <1>2, <2>1, <2>2, <2>3 DEF IInv, Recorded, Provisioning
<1> QED BY <1>7, <1>8, <1>9 DEF IInv

-----------------------------------------------------------------------------
(* What happens to an AND that nobody works on.                            *)
LEMMA IdleLocal ==
    ASSUME IInv, NEW n \in Names, NEW a \in And, pc[n] = "idle", Becomes(n, a),
           UNCHANGED <<desired, pc, want, job, todo, changes>>,
           faults' \in 0 .. MaxFaults, harmed' \subseteq Names, stale' = stale,
           harmed \ {n} \subseteq harmed',
           a.lease = and[n].lease, a.bridge \in {and[n].bridge, NoCidr},
           a.known = and[n].known, a.saved = and[n].saved,
           n \notin harmed' => SaneAt(a, "idle")
    PROVE  IInv'
<1>1. and' \in [Names -> And] /\ and'[n] = a /\ \A m \in Names \ {n} : and'[m] = and[m]
  BY DEF Becomes, IInv, TypeOK
<1>2. pc' = [pc EXCEPT ![n] = "idle"]
  BY DEF IInv, TypeOK
<1>3. Reached(a, "idle", want'[n])
  BY DEF Reached, Provisioning
<1>4. n \notin stale => BackedBy(a)
  BY Here DEF BackedBy
<1>5. \A m \in Names : Like(and'[m], IF m = n THEN a ELSE and[m])
  BY <1>1 DEF Like
<1>6. Unique' /\ Backed' /\ Progress' /\ Sane'
  BY <1>1, <1>2, <1>3, <1>4, <1>5, Local
<1>7. TypeOK'
  BY <1>1 DEF IInv, TypeOK
<1>8. Recorded'
  <2>1. \A m \in Names : and'[m].known = and[m].known /\ and'[m].saved = and[m].saved
    BY <1>1
  <2>2. \A m \in Orgs \cup todo : m \in Names
    BY DEF Names, IInv, TypeOK
  <2> QED BY <2>1, <2>2 DEF IInv, Recorded
<1> QED BY <1>6, <1>7, <1>8 DEF IInv

LEMMA LoseKeeps == ASSUME IInv, NEW n \in Names, Lose(n) PROVE IInv'
<1>1. /\ pc[n] = "idle" /\ Harms(n)
      /\ UNCHANGED <<desired, pc, want, job, todo, changes>>
  BY DEF Lose
<1>2. harmed' = harmed \cup {n} /\ stale' = stale /\ faults' \in 0 .. MaxFaults
  BY <1>1, Costs DEF IInv
<1>3. harmed' \subseteq Names
  BY <1>2 DEF IInv, TypeOK
<1>4. ASSUME NEW a, \/ a = [and[n] EXCEPT !.rules = NoProfile]
                    \/ a = [and[n] EXCEPT !.bridge = NoCidr, !.attached = FALSE],
             Becomes(n, a)
      PROVE  IInv'
  <2>1. /\ a \in And /\ a.lease = and[n].lease /\ a.bridge \in {and[n].bridge, NoCidr}
        /\ a.known = and[n].known /\ a.saved = and[n].saved
    BY <1>4, Here DEF And
  <2> QED BY <1>1, <1>2, <1>3, <1>4, <2>1, IdleLocal
<1> QED BY <1>4 DEF Lose

LEMMA ClearKeeps == ASSUME IInv, NEW n \in Instances, Clear(n) PROVE IInv'
<1> DEFINE a == [and[n] EXCEPT !.bridge = NoCidr, !.attached = FALSE, !.rules = NoProfile,
                               !.features = {}]
<1>1. /\ pc[n] = "idle" /\ Becomes(n, a) /\ harmed' = harmed \ {n} /\ and[n].known = NoEntry
      /\ UNCHANGED <<desired, pc, want, job, todo, stale, faults, changes>>
  BY DEF Clear
<1>2. n \in Names
  BY DEF Names
<1>3. /\ a \in And /\ a.lease = and[n].lease /\ a.bridge = NoCidr /\ a.attached = FALSE
      /\ a.known = and[n].known /\ a.saved = and[n].saved
  BY <1>2, Here DEF And
<1> HIDE DEF a
<1>4. SaneAt(a, "idle")
  BY <1>1, <1>3 DEF SaneAt, Whole
<1>5. faults' \in 0 .. MaxFaults /\ harmed' \subseteq Names
  BY <1>1 DEF IInv, TypeOK
<1> QED BY <1>1, <1>2, <1>3, <1>4, <1>5, IdleLocal

(* A crash forgets what was not saved, and the history names whom that and *)
(* the work cut short hit.                                                 *)
LEMMA CrashKeeps == ASSUME IInv, Crash PROVE IInv'
<1>1. /\ Fault /\ pc' = [n \in Names |-> "idle"] /\ job' = "none" /\ todo' = {}
      /\ harmed' = harmed \cup {n \in Names : pc[n] # "idle" \/ and[n].known # and[n].saved}
      /\ stale' = stale \cup {n \in Names : and[n].saved # NoEntry
                                            /\ and[n].saved.cidr # and[n].lease}
      /\ UNCHANGED <<desired, want, changes>>
  BY DEF Crash
<1>2. \A n \in Names :
         /\ and'[n] \in And /\ and'[n].lease = and[n].lease /\ and'[n].bridge = and[n].bridge
         /\ and'[n].known = and[n].saved /\ and'[n].saved = and[n].saved
         /\ and[n].known = and[n].saved => Like(and'[n], and[n])
  <2> SUFFICES ASSUME NEW n \in Names
               PROVE /\ and'[n] \in And /\ and'[n].lease = and[n].lease
                     /\ and'[n].bridge = and[n].bridge
                     /\ and'[n].known = and[n].saved /\ and'[n].saved = and[n].saved
                     /\ and[n].known = and[n].saved => Like(and'[n], and[n])
    OBVIOUS
  <2>1. and'[n] = [and[n] EXCEPT !.known = and[n].saved]
    BY DEF Crash
  <2> QED BY <2>1, Here DEF And, Like
<1>3. TypeOK'
  <2>1. and' \in [Names -> And]
    BY <1>2 DEF Crash
  <2>2. faults' \in 0 .. MaxFaults
    BY <1>1, FaultCounted DEF IInv
  <2>3. \A n \in Instances : pc'[n] = "idle"
    BY <1>1 DEF Names
  <2>4. harmed' \subseteq Names /\ stale' \subseteq Names
    BY <1>1 DEF IInv, TypeOK
  <2> QED BY <1>1, <2>1, <2>2, <2>3, <2>4 DEF IInv, TypeOK
<1>4. Unique'
  BY <1>2 DEF IInv, Unique
<1>5. Backed'
  <2>1. SUFFICES ASSUME NEW n \in Names, n \notin stale' PROVE BackedBy(and'[n])
    BY DEF Backed, BackedBy
  <2>2. n \notin stale /\ (and[n].saved # NoEntry => and[n].saved.cidr = and[n].lease)
    BY <1>1, <2>1
  <2> QED BY <1>2, <2>2, Here DEF BackedBy
<1>6. Progress'
  BY <1>1 DEF Progress, Reached, Provisioning
<1>7. Recorded'
  <2>1. \A n \in Orgs : n \in Names
    BY DEF Names
  <2> QED BY <1>1, <1>2, <2>1 DEF IInv, Recorded
<1>8. Sane'
  <2>1. SUFFICES ASSUME NEW n \in Names, n \notin harmed' PROVE SaneAt(and'[n], pc'[n])
    BY DEF Sane, SaneAt, Stray, Whole
  <2>2. n \notin harmed /\ pc[n] = "idle" /\ and[n].known = and[n].saved
    BY <1>1, <2>1
  <2>3. Like(and'[n], and[n]) /\ pc'[n] = pc[n]
    BY <1>1, <1>2, <2>2
  <2> QED BY <2>2, <2>3, Here, LikeSame
<1> QED BY <1>3, <1>4, <1>5, <1>6, <1>7, <1>8 DEF IInv

-----------------------------------------------------------------------------
LEMMA InitIInv == Init => IInv
<1> SUFFICES ASSUME Init PROVE IInv
  OBVIOUS
<1>1. Absent \in And
  BY DEF Absent, And
<1>2. \A n \in Names : and[n] = Absent /\ pc[n] = "idle"
  BY DEF Init
<1>3. TypeOK
  <2>1. 0 \in 0 .. MaxFaults /\ 0 \in 0 .. MaxChanges
    BY LifecycleAssumption
  <2>2. \A n \in Instances : pc[n] = "idle"
    BY <1>2 DEF Names
  <2>3. pc \in [Names -> {"idle"} \cup Provisioning \cup Reconciling]
    BY DEF Init
  <2>4. desired \in [Instances -> Profiles \cup {NoProfile}]
    BY DEF Init
  <2>5. and \in [Names -> And] /\ want \in [Names -> Profiles \cup {NoProfile}]
    BY <1>1 DEF Init
  <2> QED BY <2>1, <2>2, <2>3, <2>4, <2>5 DEF Init, TypeOK
<1>4. Unique
  BY <1>2 DEF Unique, Absent
<1>5. Backed
  BY <1>2 DEF Backed, BackedBy, Absent
<1>6. Progress
  BY <1>2 DEF Progress, Reached, Provisioning
<1>7. Recorded
  <2>1. \A n \in Orgs : n \in Names
    BY DEF Names
  <2> QED BY <1>2, <2>1 DEF Init, Recorded, Absent
<1>8. Sane
  <2>1. SaneAt(Absent, "idle")
    BY DEF SaneAt, Whole, Absent
  <2> QED BY <1>2, <2>1 DEF Sane
<1> QED BY <1>3, <1>4, <1>5, <1>6, <1>7, <1>8 DEF IInv

LEMMA NextIInv == IInv /\ [Next]_vars => IInv'
<1> SUFFICES ASSUME IInv, [Next]_vars PROVE IInv'
  OBVIOUS
<1>1. CASE Execute \/ Reconcile
  BY <1>1, JobBegins
<1>2. CASE JobDone
  BY <1>2, JobDoneKeeps
<1>3. CASE Crash
  BY <1>3, CrashKeeps
<1>4. CASE \E n \in Instances : TakeNext(n) \/ Clear(n)
  BY <1>4, TakeNextKeeps, ClearKeeps
<1>5. CASE \E n \in Instances, p \in Profiles \cup {NoProfile} : ChangeSpec(n, p)
  BY <1>5, ChangeSpecKeeps
<1>6. CASE \E n \in Orgs, p \in Profiles : Admit(n, p)
  BY <1>6, AdmitKeeps
<1>7. ASSUME NEW n \in Names, Work(n) PROVE IInv'
  BY <1>7, AllocateKeeps, CreateBridgeKeeps, AttachKeeps, ApplyRulesKeeps, FurnishKeeps,
     SetupBgpKeeps, UpdateKeeps, RepairKeeps, UnruleKeeps, UnbridgeKeeps, UnleaseKeeps DEF Work
<1>8. ASSUME NEW n \in Names, Trouble(n) PROVE IInv'
  BY <1>8, CreateFailsKeeps, AttachFailsKeeps, RulesFailKeeps, BgpFailsKeeps, UpdateFailsKeeps,
     RepairFailsKeeps, UnruleFailsKeeps, UnbridgeFailsKeeps, LoseKeeps DEF Trouble
<1>9. CASE UNCHANGED vars
  BY <1>9, StutterKeeps
<1> QED BY <1>1, <1>2, <1>3, <1>4, <1>5, <1>6, <1>7, <1>8, <1>9 DEF Next

(* The six parts together are preserved by every step of a job, of the     *)
(* consumer, and of whatever fails.                                        *)
THEOREM Inductive == Spec => []IInv
  BY InitIInv, NextIInv, PTL DEF Spec

(* The variables keep their types, and one instance is worked on at a time.*)
THEOREM TypeCorrect == Spec => []TypeOK
<1>1. IInv => TypeOK
  BY DEF IInv
<1> QED BY <1>1, Inductive, PTL

(* A bridge has a subnet no other AND has or holds on lease, and an entry  *)
(* on record names the subnet leased, but after a forgotten teardown.      *)
THEOREM SubnetsNeverCollide == Spec => []SubnetsApart
<1>1. IInv => SubnetsApart
  <2> SUFFICES ASSUME IInv, NEW n \in Names, n \notin stale
               PROVE  /\ and[n].bridge # NoCidr =>
                            \A o \in Names \ {n} : and[n].bridge \notin {and[o].lease, and[o].bridge}
                      /\ and[n].known # NoEntry => and[n].known.cidr = and[n].lease
    BY DEF SubnetsApart
  <2>1. BackedBy(and[n])
    BY Here
  <2>2. \A o \in Names \ {n} : /\ and[n].lease = and[o].lease => and[n].lease = NoCidr
                               /\ and[n].bridge = and[o].bridge => and[n].bridge = NoCidr
    BY DEF IInv, Unique
  <2> QED BY <2>1, <2>2 DEF BackedBy
<1> QED BY <1>1, Inductive, PTL

(* No failure of one call leaves an AND half done, whichever call it is.   *)
THEOREM NothingHalfDone == Spec => []AllOrNothing
<1>1. IInv => AllOrNothing
  BY DEF IInv, Sane, SaneAt, AllOrNothing
<1> QED BY <1>1, Inductive, PTL

-----------------------------------------------------------------------------
(* What SubnetTenancy promises: nobody lives in what another rents or lives*)
(* in.                                                                     *)
THEOREM TenantsApart == TenancySpec => []Apart
<1> DEFINE Typed == /\ rent \in [Tenants -> Space \cup {Nowhere}]
                     /\ home \in [Tenants -> Space \cup {Nowhere}]
<1>1. TenancyInit => Typed /\ Apart
  BY DEF TenancyInit, Apart
<1>2. Typed /\ Apart /\ [TenancyNext]_tenancyVars => Typed' /\ Apart'
  <2> SUFFICES ASSUME Typed, Apart, [TenancyNext]_tenancyVars PROVE Typed' /\ Apart'
    OBVIOUS
  <2>1. CASE Forget \/ UNCHANGED tenancyVars
    BY <2>1 DEF Forget, tenancyVars, Apart
  <2>2. ASSUME NEW t \in Tenants, NEW x \in Space \cup {Nowhere}, NEW y \in Space \cup {Nowhere},
               Change(t, x, y)
        PROVE  Typed' /\ Apart'
    <3>1. /\ \A u \in Tenants : rent'[u] = IF u = t THEN x ELSE rent[u]
          /\ \A u \in Tenants : home'[u] = IF u = t THEN y ELSE home[u]
          /\ Typed'
      BY <2>2 DEF Change
    <3>2. /\ x = Nowhere \/ \A u \in Tenants \ {t} : rent[u] # x
          /\ y = Nowhere \/ \A u \in Tenants \ {t} : home[u] # y
      BY <2>2 DEF Change, Rentable, Vacant, Apart
    <3>3. \A u \in Tenants \ lost' : home'[u] \in {rent'[u], Nowhere}
      BY <2>2, <3>1 DEF Change, Apart
    <3> QED BY <3>1, <3>2, <3>3 DEF Apart
  <2> QED BY <2>1, <2>2 DEF TenancyNext
<1> QED BY <1>1, <1>2, PTL DEF TenancySpec

(* What another AND does leaves a lease and a bridge alone; the one that   *)
(* works exchanges no bridge.                                              *)
Alone(n) ==
    /\ \A m \in Names \ {n} : and'[m].lease = and[m].lease /\ and'[m].bridge = and[m].bridge
    /\ and'[n].bridge \in {and[n].bridge, NoCidr} \/ and[n].bridge = NoCidr
    /\ stale' \in {stale, stale \ {n}}

(* Such a step is a change of tenancy if the invariant holds before and    *)
(* after it.                                                               *)
LEMMA AloneChanges ==
    ASSUME IInv, IInv', NEW n \in Names, Alone(n)
    PROVE  Tenancy!TenancyNext
<1>1. and[n] \in And /\ and'[n] \in And
  BY DEF IInv, TypeOK
<1>2. PICK x \in Cidrs \cup {NoCidr}, y \in Cidrs \cup {NoCidr} :
         x = and'[n].lease /\ y = and'[n].bridge
  BY <1>1 DEF And
<1>3. \A m \in Names \ {n} : /\ and'[n].lease = and'[m].lease => and'[n].lease = NoCidr
                             /\ and'[n].bridge = and'[m].bridge => and'[n].bridge = NoCidr
  BY DEF IInv, Unique
<1>4. x = NoCidr \/ \A m \in Names \ {n} : and[m].lease # x
  BY <1>2, <1>3 DEF Alone
<1>5. y = NoCidr \/ \A m \in Names \ {n} : and[m].bridge # y
  BY <1>2, <1>3 DEF Alone
<1>6. n \notin stale' => y \in {x, NoCidr}
  BY <1>2 DEF IInv, Backed, BackedBy
<1>7. [m \in Names |-> and[m].lease]' = [[m \in Names |-> and[m].lease] EXCEPT ![n] = x]
  BY <1>2 DEF Alone
<1>8. [m \in Names |-> and[m].bridge]' = [[m \in Names |-> and[m].bridge] EXCEPT ![n] = y]
  BY <1>2 DEF Alone
<1>9. y \in {and[n].bridge, NoCidr} \/ and[n].bridge = NoCidr
  BY <1>2 DEF Alone
<1>10. stale' \in {stale, stale \ {n}}
  BY DEF Alone
<1>11. Tenancy!Change(n, x, y)
  BY <1>4, <1>5, <1>6, <1>7, <1>8, <1>9, <1>10 DEF Tenancy!Change, Tenancy!Rentable, Tenancy!Vacant
<1> QED BY <1>11 DEF Tenancy!TenancyNext

(* A step that moves an AND to a state, and how exceptions do so. *)
LEMMA MovedAlone ==
    ASSUME IInv, NEW n \in Names, NEW a \in And, Becomes(n, a) \/ Raise(n, a),
           a.bridge \in {and[n].bridge, NoCidr} \/ and[n].bridge = NoCidr,
           stale' \in {stale, stale \ {n}}
    PROVE  Alone(n)
<1>1. CASE Becomes(n, a)
  <2>1. and'[n] = a /\ \A m \in Names \ {n} : and'[m] = and[m]
    BY <1>1 DEF Becomes, IInv, TypeOK
  <2> QED BY <2>1 DEF Alone
<1>2. CASE Raise(n, a)
  BY <1>2, RaiseIs DEF Alone, Like, IInv
<1> QED BY <1>1, <1>2

LEMMA AllocateAlone ==
    ASSUME IInv, NEW n \in Names, Allocate(n) \/ CreateBridge(n) \/ CreateFails(n) PROVE Alone(n)
<1>1. \A m \in Names : and[m] \in And
  BY DEF IInv, TypeOK
<1>2. stale' = stale
  BY DEF Allocate, CreateBridge, CreateFails, Fine, Fails, Harms, hist
<1>3. CASE and' = and
  BY <1>2, <1>3 DEF Alone
<1>4. CASE Raise(n, and[n])
  BY <1>1, <1>2, <1>4, MovedAlone
<1>5. CASE \E x \in Cidrs : \/ Becomes(n, [and[n] EXCEPT !.lease = x])
                            \/ Raise(n, [and[n] EXCEPT !.lease = x])
  <2>1. PICK x \in Cidrs : \/ Becomes(n, [and[n] EXCEPT !.lease = x])
                           \/ Raise(n, [and[n] EXCEPT !.lease = x])
    BY <1>5
  <2>2. [and[n] EXCEPT !.lease = x] \in And /\ [and[n] EXCEPT !.lease = x].bridge = and[n].bridge
    BY <1>1 DEF And
  <2> QED BY <1>2, <2>1, <2>2, MovedAlone
<1>6. CASE /\ and[n].bridge = NoCidr
           /\ \/ Becomes(n, [and[n] EXCEPT !.bridge = and[n].lease])
              \/ Raise(n, [and[n] EXCEPT !.bridge = and[n].lease])
  <2>1. [and[n] EXCEPT !.bridge = and[n].lease] \in And
    BY <1>1 DEF And
  <2> QED BY <1>2, <1>6, <2>1, MovedAlone
<1> QED BY <1>3, <1>4, <1>5, <1>6 DEF Allocate, CreateBridge, CreateFails

(* The steps after which the bridge is there as before, or removed. *)
LEMMA FurnishAlone ==
    ASSUME IInv, NEW n \in Names,
           Attach(n) \/ AttachFails(n) \/ ApplyRules(n) \/ RulesFail(n) \/ Furnish(n)
    PROVE  Alone(n)
<1>1. /\ and[n] \in And
      /\ pc[n] \in {"rules", "furnish"} => want[n] \in Profiles
  BY DEF IInv, TypeOK, Progress, Reached, Provisioning
<1>2. stale' = stale
  BY DEF Attach, AttachFails, ApplyRules, RulesFail, Furnish, Fine, Fails, Harms, hist
<1>3. \E a \in And : (Becomes(n, a) \/ Raise(n, a)) /\ a.bridge \in {and[n].bridge, NoCidr}
  <2>1. ASSUME NEW b \in BOOLEAN, NEW r \in Profiles \cup {NoProfile}, NEW f \in SUBSET Features,
               NEW y \in {and[n].bridge, NoCidr}
        PROVE  /\ [and[n] EXCEPT !.attached = b] \in And
               /\ [and[n] EXCEPT !.attached = b].bridge = and[n].bridge
               /\ [and[n] EXCEPT !.rules = r] \in And
               /\ [and[n] EXCEPT !.rules = r].bridge = and[n].bridge
               /\ [and[n] EXCEPT !.attached = b, !.rules = r] \in And
               /\ [and[n] EXCEPT !.attached = b, !.rules = r].bridge = and[n].bridge
               /\ [and[n] EXCEPT !.bridge = NoCidr] \in And
               /\ [and[n] EXCEPT !.bridge = NoCidr].bridge = NoCidr
               /\ [and[n] EXCEPT !.attached = b, !.bridge = NoCidr] \in And
               /\ [and[n] EXCEPT !.attached = b, !.bridge = NoCidr].bridge = NoCidr
               /\ [and[n] EXCEPT !.features = @ \cup f] \in And
               /\ [and[n] EXCEPT !.features = @ \cup f].bridge = and[n].bridge
    BY <1>1 DEF And
  <2>2. CASE Attach(n)
    BY <2>1, <2>2 DEF Attach
  <2>3. CASE AttachFails(n)
    BY <2>1, <2>3 DEF AttachFails
  <2>4. CASE ApplyRules(n)
    BY <1>1, <2>1, <2>4 DEF ApplyRules
  <2>5. CASE RulesFail(n)
    <3>1. and[n].rules \in Profiles \cup {NoProfile} /\ want[n] \in Profiles
      BY <1>1, <2>5 DEF RulesFail, And
    <3> QED BY <2>1, <2>5, <3>1 DEF RulesFail
  <2>6. CASE Furnish(n)
    <3>1. FeaturesOf[want[n]] \subseteq Features
      BY <1>1, <2>6, LifecycleAssumption DEF Furnish
    <3> QED BY <2>1, <2>6, <3>1 DEF Furnish
  <2> QED BY <2>2, <2>3, <2>4, <2>5, <2>6
<1> QED BY <1>2, <1>3, MovedAlone

LEMMA SpeakerAlone ==
    ASSUME IInv, NEW n \in Names, SetupBgp(n) \/ BgpFails(n) PROVE Alone(n)
<1>1. pc[n] = "bgp" /\ and[n] \in And
  BY Here DEF SetupBgp, BgpFails
<1>2. and[n].features \in SUBSET Features /\ and[n].features \cup {"bgp"} \in SUBSET Features
  BY <1>1 DEF And, Features
<1>3. PICK f \in SUBSET Features :
         \/ Provisioned(n, f)
         \/ Raise(n, [and[n] EXCEPT !.features = f]) /\ UNCHANGED stale
  <2>1. [and[n] EXCEPT !.features = and[n].features] = and[n]
    BY <1>1 DEF And
  <2> QED BY <1>2, <2>1 DEF SetupBgp, BgpFails
<1>4. CASE Raise(n, [and[n] EXCEPT !.features = f]) /\ UNCHANGED stale
  <2>1. /\ [and[n] EXCEPT !.features = f] \in And
        /\ [and[n] EXCEPT !.features = f].bridge = and[n].bridge
    BY <1>1 DEF And
  <2> QED BY <1>4, <2>1, MovedAlone
<1>5. CASE Provisioned(n, f)
  <2> DEFINE e == IF n \in Instances THEN [profile |-> want[n], cidr |-> and[n].lease]
                  ELSE and[n].known
             a == [and[n] EXCEPT !.features = f, !.known = e]
  <2>1. want[n] \in Profiles /\ and[n].bridge = and[n].lease /\ and[n].bridge # NoCidr
    BY <1>1, Here DEF Reached, Provisioning
  <2>2. e \in Entries \cup {NoEntry}
    BY <1>1, <2>1 DEF And, Entries
  <2>3. Becomes(n, a) /\ stale' = stale \ {n}
    BY <1>5 DEF Provisioned
  <2> HIDE DEF e
  <2>4. a \in And /\ a.bridge = and[n].bridge
    BY <1>1, <2>2 DEF And
  <2> QED BY <2>3, <2>4, MovedAlone
<1> QED BY <1>3, <1>4, <1>5

(* Updates and repairs: a bridge comes only where none was. *)
LEMMA RepairAlone ==
    ASSUME IInv, NEW n \in Names, Update(n) \/ UpdateFails(n) \/ Repair(n) \/ RepairFails(n)
    PROVE  Alone(n)
<1>1. and[n] \in And /\ pc[n] \in {"update", "repair", "unrule", "unbridge"}
  BY Here DEF Update, UpdateFails, Repair, RepairFails
<1>2. /\ want[n] \in Profiles /\ and[n].known \in Entries /\ and[n].known.cidr \in Cidrs
      /\ FeaturesOf[want[n]] \subseteq Features /\ Kept(n) \subseteq Features
  <2>1. pc[n] \in {"update", "repair"}
    BY DEF Update, UpdateFails, Repair, RepairFails
  <2>2. want[n] \in Profiles
    BY <1>1, <2>1, OnRecord
  <2> QED BY <1>1, <2>2, OnRecord, LifecycleAssumption DEF Kept, And
<1>3. stale' = stale
  BY DEF Update, UpdateFails, Repair, RepairFails, Fine, Fails, Harms, hist
<1>4. ASSUME NEW f \in SUBSET Features, NEW r \in Profiles \cup {NoProfile}, NEW b \in BOOLEAN,
             NEW e \in Entries, NEW y \in Cidrs \cup {NoCidr}
      PROVE  /\ [and[n] EXCEPT !.rules = r, !.features = f] \in And
             /\ [and[n] EXCEPT !.rules = r, !.features = f].bridge = and[n].bridge
             /\ [and[n] EXCEPT !.features = f] \in And
             /\ [and[n] EXCEPT !.features = f].bridge = and[n].bridge
             /\ [and[n] EXCEPT !.rules = r, !.features = f, !.known = e] \in And
             /\ [and[n] EXCEPT !.rules = r, !.features = f, !.known = e].bridge = and[n].bridge
             /\ [and[n] EXCEPT !.bridge = y, !.attached = b] \in And
             /\ [and[n] EXCEPT !.bridge = y, !.attached = b].bridge = y
             /\ [and[n] EXCEPT !.bridge = y, !.attached = b, !.rules = r, !.features = f] \in And
             /\ [and[n] EXCEPT !.bridge = y, !.attached = b, !.rules = r, !.features = f].bridge = y
  BY <1>1 DEF And
<1>5. CASE Update(n)
  <2> DEFINE a == [and[n] EXCEPT !.rules = want[n], !.features = Kept(n) \cup FeaturesOf[want[n]]]
             b == [a EXCEPT !.known.profile = want[n]]
  <2>1. Raise(n, a) \/ Becomes(n, b)
    BY <1>5 DEF Update
  <2>2. a \in And /\ a.bridge = and[n].bridge /\ a.known = and[n].known
    BY <1>1, <1>2 DEF And
  <2>3. [and[n].known EXCEPT !.profile = want[n]] \in Entries
    BY <1>2 DEF Entries
  <2> HIDE DEF a
  <2>4. b \in And /\ b.bridge = and[n].bridge
    BY <2>2, <2>3 DEF And
  <2> HIDE DEF b
  <2> QED BY <1>3, <2>1, <2>2, <2>4, MovedAlone
<1>6. CASE UpdateFails(n)
  <2>1. PICK f \in SUBSET Features :
           \/ Raise(n, [and[n] EXCEPT !.features = f])
           \/ Raise(n, [and[n] EXCEPT !.rules = want[n], !.features = f])
    <3>1. and[n].features \in SUBSET Features
      BY <1>1 DEF And
    <3>2. \A f \in SUBSET FeaturesOf[want[n]] : Kept(n) \cup f \in SUBSET Features
      BY <1>2
    <3> QED BY <1>2, <1>6, <3>1, <3>2 DEF UpdateFails
  <2>2. /\ [and[n] EXCEPT !.features = f] \in And
        /\ [and[n] EXCEPT !.features = f].bridge = and[n].bridge
        /\ [and[n] EXCEPT !.rules = want[n], !.features = f] \in And
        /\ [and[n] EXCEPT !.rules = want[n], !.features = f].bridge = and[n].bridge
    BY <1>1, <1>2 DEF And
  <2> QED BY <1>3, <2>1, <2>2, MovedAlone
<1>7. CASE Repair(n) \/ RepairFails(n)
  <2> DEFINE built == IF and[n].bridge = NoCidr THEN and[n].known.cidr ELSE and[n].bridge
             a(b)    == [and[n] EXCEPT !.bridge = IF @ = NoCidr THEN and[n].known.cidr ELSE @,
                                       !.attached = b]
             d(b, f) == [a(b) EXCEPT !.rules = want[n], !.features = @ \cup f]
  <2>1. \/ Raise(n, and[n])
        \/ \E b \in BOOLEAN, f \in SUBSET Features :
              \/ Raise(n, a(b)) \/ Raise(n, d(b, f)) \/ Becomes(n, d(b, f))
    <3>1. CASE RepairFails(n)
      <4>1. and[n].attached \in BOOLEAN
        BY <1>1 DEF And
      <4> QED BY <1>2, <3>1, <4>1 DEF RepairFails
    <3>2. CASE Repair(n)
      <4>1. d(TRUE, FeaturesOf[want[n]]) =
               [and[n] EXCEPT !.bridge = IF @ = NoCidr THEN and[n].known.cidr ELSE @,
                              !.attached = TRUE, !.rules = want[n],
                              !.features = @ \cup FeaturesOf[want[n]]]
        BY <1>1, <1>2 DEF And
      <4> QED BY <1>2, <3>2, <4>1 DEF Repair
    <3> QED BY <1>7, <3>1, <3>2
  <2>2. ASSUME NEW b \in BOOLEAN, NEW f \in SUBSET Features
        PROVE  /\ a(b) \in And /\ a(b).bridge = built
               /\ d(b, f) \in And /\ d(b, f).bridge = built
    BY <1>1, <1>2 DEF And
  <2>3. built \in {and[n].bridge, NoCidr} \/ and[n].bridge = NoCidr
    OBVIOUS
  <2> HIDE DEF a, d, built
  <2> QED BY <1>1, <1>3, <2>1, <2>2, <2>3, MovedAlone
<1> QED BY <1>5, <1>6, <1>7

(* A teardown, a loss and a clearance by hand: a bridge may go. *)
LEMMA TeardownAlone ==
    ASSUME IInv, NEW n \in Names,
           Unrule(n) \/ UnruleFails(n) \/ Unbridge(n) \/ UnbridgeFails(n) \/ Unlease(n) \/ Lose(n) \/ Clear(n)
    PROVE  Alone(n)
<1>1. and[n] \in And
  BY Here
<1>2. stale' = stale
  BY DEF Unrule, UnruleFails, Unbridge, UnbridgeFails, Unlease, Lose, Clear, Fine, Fails, Harms, hist
<1>3. ASSUME NEW r \in {and[n].rules, NoProfile}, NEW f
      PROVE  /\ [and[n] EXCEPT !.rules = r, !.features = @ \ f] \in And
             /\ [and[n] EXCEPT !.rules = r, !.features = @ \ f].bridge = and[n].bridge
  BY <1>1 DEF And
<1>4. ASSUME NEW b \in BOOLEAN
      PROVE  /\ [and[n] EXCEPT !.attached = b] \in And
             /\ [and[n] EXCEPT !.attached = b].bridge = and[n].bridge
  BY <1>1 DEF And
<1>5. and[n].attached \in BOOLEAN
  BY <1>1 DEF And
<1>6. /\ [and[n] EXCEPT !.attached = FALSE, !.bridge = NoCidr, !.known = NoEntry] \in And
      /\ [and[n] EXCEPT !.attached = FALSE, !.bridge = NoCidr, !.known = NoEntry].bridge = NoCidr
      /\ [and[n] EXCEPT !.lease = NoCidr] \in And
      /\ [and[n] EXCEPT !.lease = NoCidr].bridge = and[n].bridge
      /\ [and[n] EXCEPT !.rules = NoProfile] \in And
      /\ [and[n] EXCEPT !.rules = NoProfile].bridge = and[n].bridge
      /\ [and[n] EXCEPT !.bridge = NoCidr, !.attached = FALSE] \in And
      /\ [and[n] EXCEPT !.bridge = NoCidr, !.attached = FALSE].bridge = NoCidr
      /\ [and[n] EXCEPT !.bridge = NoCidr, !.attached = FALSE, !.rules = NoProfile,
                        !.features = {}] \in And
      /\ [and[n] EXCEPT !.bridge = NoCidr, !.attached = FALSE, !.rules = NoProfile,
                        !.features = {}].bridge = NoCidr
  BY <1>1 DEF And
<1>7. CASE Unrule(n) \/ UnruleFails(n)
  <2>1. PICK r \in {and[n].rules, NoProfile}, f \in SUBSET Features :
           \/ Raise(n, [and[n] EXCEPT !.rules = r, !.features = @ \ f])
           \/ Becomes(n, [and[n] EXCEPT !.rules = r, !.features = @ \ f])
    <3>1. FeaturesOf[and[n].known.profile] \subseteq Features
      BY OnRecord, LifecycleAssumption, <1>7 DEF Unrule, UnruleFails
    <3>2. FeaturesOf[and[n].known.profile] \ {"bgp"} \subseteq Features
      BY <3>1
    <3> QED BY <1>7, <3>1, <3>2 DEF Unrule, UnruleFails
  <2> QED BY <1>2, <1>3, <2>1, MovedAlone
<1>8. CASE Unbridge(n) \/ UnbridgeFails(n)
  BY <1>2, <1>4, <1>5, <1>6, <1>8, MovedAlone DEF Unbridge, UnbridgeFails
<1>9. CASE Unlease(n)
  <2>1. CASE and' = and
    BY <1>2, <2>1 DEF Alone
  <2>2. CASE Becomes(n, [and[n] EXCEPT !.lease = NoCidr])
    BY <1>2, <1>6, <2>2, MovedAlone
  <2> QED BY <1>9, <2>1, <2>2 DEF Unlease
<1>10. CASE Lose(n) \/ Clear(n)
  BY <1>2, <1>6, <1>10, MovedAlone DEF Lose, Clear
<1> QED BY <1>7, <1>8, <1>9, <1>10

LEMMA NextChanges ==
    ASSUME IInv, IInv', [Next]_vars
    PROVE  [Tenancy!TenancyNext]_(Tenancy!tenancyVars)
<1>1. ASSUME NEW n \in Names, Alone(n) PROVE Tenancy!TenancyNext
  BY <1>1, AloneChanges
<1>2. ASSUME \A n \in Names : and'[n].lease = and[n].lease /\ and'[n].bridge = and[n].bridge,
             stale' = stale
      PROVE  UNCHANGED Tenancy!tenancyVars
  <2>1. /\ [n \in Names |-> and[n].lease]' = [n \in Names |-> and[n].lease]
        /\ [n \in Names |-> and[n].bridge]' = [n \in Names |-> and[n].bridge]
    BY <1>2
  <2> QED BY <1>2, <2>1 DEF Tenancy!tenancyVars
<1>3. CASE Crash
  <2>1. \A n \in Names : and'[n].lease = and[n].lease /\ and'[n].bridge = and[n].bridge
    <3> SUFFICES ASSUME NEW n \in Names
                 PROVE  and'[n].lease = and[n].lease /\ and'[n].bridge = and[n].bridge
      OBVIOUS
    <3>1. and'[n] = [and[n] EXCEPT !.known = and[n].saved]
      BY <1>3 DEF Crash
    <3> QED BY <3>1, Here DEF And
  <2>2. /\ [n \in Names |-> and[n].lease]' = [n \in Names |-> and[n].lease]
        /\ [n \in Names |-> and[n].bridge]' = [n \in Names |-> and[n].bridge]
    BY <2>1
  <2>3. stale \subseteq stale' /\ stale' \subseteq Names
    BY <1>3 DEF Crash, IInv, TypeOK
  <2>4. Tenancy!Forget
    BY <2>2, <2>3 DEF Tenancy!Forget
  <2> QED BY <2>4 DEF Tenancy!TenancyNext
<1>4. CASE JobDone
  <2>1. \A n \in Names : and'[n].lease = and[n].lease /\ and'[n].bridge = and[n].bridge
    <3> SUFFICES ASSUME NEW n \in Names
                 PROVE  and'[n].lease = and[n].lease /\ and'[n].bridge = and[n].bridge
      OBVIOUS
    <3>1. and'[n] = [and[n] EXCEPT !.saved = and[n].known]
      BY <1>4 DEF JobDone
    <3> QED BY <3>1, Here DEF And
  <2> QED BY <1>2, <1>4, <2>1 DEF JobDone, hist
<1>5. ASSUME UNCHANGED <<and, stale>> PROVE UNCHANGED Tenancy!tenancyVars
  BY <1>2, <1>5
<1>6. ASSUME NEW n \in Names, Work(n) \/ Trouble(n) PROVE Alone(n)
  BY <1>6, AllocateAlone, FurnishAlone, SpeakerAlone, RepairAlone, TeardownAlone DEF Work, Trouble
<1>7. ASSUME NEW n \in Instances, Clear(n) PROVE n \in Names /\ Alone(n)
  BY <1>7, TeardownAlone DEF Names
<1>8. \/ Crash \/ JobDone \/ UNCHANGED <<and, stale>>
      \/ \E n \in Names : Work(n) \/ Trouble(n)
      \/ \E n \in Instances : Clear(n)
  BY DEF Next, vars, hist, Execute, Reconcile, TakeNext, ChangeSpec, Admit
<1> QED BY <1>1, <1>3, <1>4, <1>5, <1>6, <1>7, <1>8

(* Provisioning, repairs, teardowns, redelivered events, failures, losses  *)
(* and crashes implement SubnetTenancy: an AND keeps its subnet while it   *)
(* has a bridge, and gets none that another has.                           *)
THEOREM SubnetsKept == Spec => KeepsTenancy
<1>1. Init => Tenancy!TenancyInit
  BY DEF Init, Absent, Tenancy!TenancyInit
<1>2. IInv /\ IInv' /\ [Next]_vars => [Tenancy!TenancyNext]_(Tenancy!tenancyVars)
  BY NextChanges
<1> QED BY <1>1, <1>2, Inductive, PTL DEF Spec, KeepsTenancy, Tenancy!TenancySpec

-----------------------------------------------------------------------------
(* allocate_address.  That calls for one AND do not overlap is a hypothesis*)
(* of the theorems about subnets, which are false without it; what a call  *)
(* says of an exhausted pool is true without it.                           *)

(* A call that is about to read has a pass left. *)
PassLeft ==
    \A c \in Callers : /\ callAt[c] = "looking" => round[c] = 0
                       /\ callAt[c] = "reading" => round[c] < 2

PoolTypes == PoolTypeOK /\ PassLeft

(* The unique constraint: a subnet is in one row. *)
LeaseUnique ==
    \A n, o \in AndNames : n # o /\ leases[n] = leases[o] => leases[n] = NoLease

(* A call past its first look works for an AND nothing was returned for. *)
NothingGranted ==
    \A c \in Callers : callAt[c] \in {"reading", "trying"} => granted[NameOf[c]] = {}

(* No two open calls are for the same AND. *)
OneCallEach == \A c, d \in Open : c # d => NameOf[c] # NameOf[d]

(* The inductive invariant: uniqueness of grants follows from that of the  *)
(* rows once every grant is backed by its row, and a row is only replaced  *)
(* while nothing is granted from it.                                       *)
PoolSound == LeaseUnique /\ GrantMatchesLease /\ NothingGranted /\ OneCallEach

PoolInv == PoolTypes /\ PoolSound

-----------------------------------------------------------------------------
(* The number of passes and the types are kept by every step. *)
LEMMA CallFaultCounted == ASSUME PoolTypeOK, CallFault PROVE callFaults' \in 0 .. MaxCallFaults
  BY PoolAssumption DEF PoolTypeOK, CallFault

LEMMA UpsertTyped ==
    ASSUME PoolTypeOK, NEW n \in AndNames, NEW x \in Subnets, Upsert(n, x)
    PROVE  leases' \in [AndNames -> Subnets \cup {NoLease}] /\ freed' \in [Callers -> SUBSET Subnets]
<1>1. {leases[n]} \ {NoLease, x} \subseteq Subnets
  BY DEF PoolTypeOK
<1> QED BY <1>1 DEF PoolTypeOK, Upsert, GaveUp

LEMMA PoolTypesKept == PoolTypes /\ [PoolNext]_poolVars => PoolTypes'
<1> SUFFICES ASSUME PoolTypes, [PoolNext]_poolVars PROVE PoolTypes'
  OBVIOUS
<1> USE PoolAssumption DEF PoolTypes, PoolTypeOK, PassLeft, CallGoto
<1>1. ASSUME NEW c \in Callers, Call(c) PROVE PoolTypes'
  BY <1>1 DEF Call
<1>2. ASSUME NEW c \in Callers, Look(c) PROVE PoolTypes'
  <2>1. CASE leases[NameOf[c]] # NoLease
    BY <1>2, <2>1 DEF Look, Grant
  <2>2. CASE leases[NameOf[c]] = NoLease
    BY <1>2, <2>2 DEF Look
  <2> QED BY <2>1, <2>2
<1>3. ASSUME NEW c \in Callers, Read(c) PROVE PoolTypes'
  <2>1. round[c] \in 0 .. 2 /\ round[c] < 2
    BY <1>3 DEF Read
  <2>2. round[c] + 1 \in 0 .. 2
    BY <2>1
  <2>3. round' \in [Callers -> 0 .. 2]
    BY <1>3, <2>2 DEF Read
  <2>4. /\ UNCHANGED <<leases, granted, callFaults>>
        /\ left' \in [Callers -> SUBSET Subnets] /\ freed' \in [Callers -> SUBSET Subnets]
    BY <1>3 DEF Read
  <2>5. callAt' = [callAt EXCEPT ![c] = "trying"]
    BY <1>3 DEF Read
  <2>6. \A e \in Callers : callAt'[e] # "trying" => round'[e] = round[e] /\ callAt'[e] = callAt[e]
    BY <1>3, <2>5 DEF Read
  <2> QED BY <2>3, <2>4, <2>5, <2>6
<1>4. ASSUME NEW c \in Callers, SelectFails(c) PROVE PoolTypes'
  <2>1. callFaults' \in 0 .. MaxCallFaults
    BY <1>4, CallFaultCounted DEF SelectFails
  <2> QED BY <1>4, <2>1 DEF SelectFails
<1>5. ASSUME NEW c \in Callers, Try(c) PROVE PoolTypes'
  <2>1. PICK x \in left[c] : Try(c)!2!(x)
    BY <1>5 DEF Try
  <2>2. x \in Subnets
    OBVIOUS
  <2>3. CASE Accepts(NameOf[c], x)
    <3>1. leases' \in [AndNames -> Subnets \cup {NoLease}] /\ freed' \in [Callers -> SUBSET Subnets]
      BY <2>1, <2>2, <2>3, UpsertTyped
    <3>2. /\ granted' = [granted EXCEPT ![NameOf[c]] = @ \cup {x}]
          /\ callAt' = [callAt EXCEPT ![c] = "returned"]
          /\ left' = left /\ round' = round /\ callFaults' = callFaults
      BY <1>5, <2>1, <2>3 DEF Try, Grant
    <3> QED BY <2>2, <3>1, <3>2
  <2>4. CASE ~Accepts(NameOf[c], x)
    <3>1. /\ left' = [left EXCEPT ![c] = @ \ {x}]
          /\ UNCHANGED <<callAt, round, leases, granted, freed, callFaults>>
      BY <1>5, <2>1, <2>4 DEF Try
    <3> QED BY <3>1
  <2> QED BY <2>3, <2>4
<1>6. ASSUME NEW c \in Callers, TryFails(c) PROVE PoolTypes'
  <2>1. PICK x \in left[c] : TryFails(c)!3!(x)
    BY <1>6 DEF TryFails
  <2>2. x \in Subnets
    OBVIOUS
  <2>3. leases' \in [AndNames -> Subnets \cup {NoLease}] /\ freed' \in [Callers -> SUBSET Subnets]
    BY <2>1, <2>2, UpsertTyped
  <2>4. callFaults' \in 0 .. MaxCallFaults
    BY <1>6, CallFaultCounted DEF TryFails
  <2>5. left' = [left EXCEPT ![c] = @ \ {x}]
    BY <2>1
  <2> QED BY <1>6, <2>3, <2>4, <2>5 DEF TryFails
<1>7. ASSUME NEW c \in Callers, GiveUp(c) PROVE PoolTypes'
  BY <1>7 DEF GiveUp
<1>8. ASSUME NEW c \in Callers, Abandon(c) PROVE PoolTypes'
  <2>1. CASE UNCHANGED <<leases, freed>>
    BY <1>8, <2>1 DEF Abandon
  <2>2. CASE \E x \in left[c] : Upsert(NameOf[c], x)
    <3>1. PICK x \in left[c] : Upsert(NameOf[c], x)
      BY <2>2
    <3>2. x \in Subnets
      OBVIOUS
    <3>3. leases' \in [AndNames -> Subnets \cup {NoLease}] /\ freed' \in [Callers -> SUBSET Subnets]
      BY <3>1, <3>2, UpsertTyped
    <3> QED BY <1>8, <3>3 DEF Abandon
  <2> QED BY <1>8, <2>1, <2>2 DEF Abandon
<1>9. ASSUME NEW n \in AndNames, Teardown(n) PROVE PoolTypes'
  <2>1. callFaults' \in 0 .. MaxCallFaults
    BY <1>9, CallFaultCounted DEF Teardown
  <2>2. {leases[n]} \ {NoLease} \subseteq Subnets
    OBVIOUS
  <2>3. leases' \in [AndNames -> Subnets \cup {NoLease}] /\ freed' \in [Callers -> SUBSET Subnets]
    BY <1>9, <2>2 DEF Teardown, GaveUp
  <2> QED BY <1>9, <2>1, <2>3 DEF Teardown
<1>10. CASE UNCHANGED poolVars
  BY <1>10 DEF poolVars
<1> QED BY <1>1, <1>2, <1>3, <1>4, <1>5, <1>6, <1>7, <1>8, <1>9, <1>10 DEF PoolNext, Step

LEMMA PoolTypesAlways == PoolSpec => []PoolTypes
<1>1. PoolInit => PoolTypes
  BY PoolAssumption DEF PoolInit, PoolTypes, PoolTypeOK, PassLeft
<1> QED BY <1>1, PoolTypesKept, PTL DEF PoolSpec

(* Every variable keeps its type: a coroutine works on subnets only and    *)
(* never makes a third pass.                                               *)
THEOREM PoolTypeCorrect == PoolSpec => []PoolTypeOK
<1>1. PoolTypes => PoolTypeOK
  BY DEF PoolTypes
<1> QED BY <1>1, PoolTypesAlways, PTL

-----------------------------------------------------------------------------
(* A row that is written by an accepted upsert for an AND nothing is       *)
(* granted for keeps the rows unique and every grant backed by its row.    *)
LEMMA UpsertSound ==
    ASSUME PoolTypeOK, LeaseUnique, GrantMatchesLease,
           NEW n \in AndNames, NEW x \in Subnets,
           Accepts(n, x), leases' = [leases EXCEPT ![n] = x],
           \A o \in AndNames \ {n} : granted'[o] = granted[o],
           granted'[n] \subseteq {x}
    PROVE  LeaseUnique' /\ GrantMatchesLease'
<1>1. \A o \in AndNames : leases'[o] = IF o = n THEN x ELSE leases[o]
  BY DEF PoolTypeOK
<1>2. LeaseUnique'
  BY <1>1 DEF LeaseUnique, Accepts
<1>3. GrantMatchesLease'
  BY <1>1 DEF GrantMatchesLease
<1> QED BY <1>2, <1>3

(* While calls for one AND do not overlap, every step keeps the rows, the  *)
(* grants and the open calls sound.                                        *)
LEMMA PoolSoundKept ==
    ASSUME Serialised, PoolTypes, PoolSound, [PoolNext]_poolVars
    PROVE  PoolSound'
<1> USE PoolAssumption DEF PoolTypes, PoolTypeOK, PoolSound, CallGoto
<1>1. ASSUME NEW c \in Callers, Call(c) PROVE PoolSound'
  <2>1. LeaseUnique' /\ GrantMatchesLease'
    BY <1>1 DEF Call, LeaseUnique, GrantMatchesLease
  <2>2. NothingGranted'
    BY <1>1 DEF Call, NothingGranted
  <2>3. OneCallEach'
    BY <1>1 DEF Call, OneCallEach, Open, Busy
  <2> QED BY <2>1, <2>2, <2>3
<1>2. ASSUME NEW c \in Callers, Look(c) PROVE PoolSound'
  <2>1. c \in Open /\ Open' \subseteq Open
    BY <1>2 DEF Look, Open
  <2>2. OneCallEach'
    BY <2>1 DEF OneCallEach
  <2>3. CASE leases[NameOf[c]] # NoLease
    <3>1. /\ granted' = [granted EXCEPT ![NameOf[c]] = @ \cup {leases[NameOf[c]]}]
          /\ callAt' = [callAt EXCEPT ![c] = "returned"]
          /\ leases' = leases
      BY <1>2, <2>3 DEF Look, Grant
    <3>2. LeaseUnique' /\ GrantMatchesLease'
      BY <3>1 DEF LeaseUnique, GrantMatchesLease
    <3>3. NothingGranted'
      BY <2>1, <3>1 DEF NothingGranted, OneCallEach, Open
    <3> QED BY <2>2, <3>2, <3>3
  <2>4. CASE leases[NameOf[c]] = NoLease
    <3>1. /\ granted' = granted
          /\ leases' = leases
          /\ \E w \in {"failed", "reading"} : callAt' = [callAt EXCEPT ![c] = w]
      BY <1>2, <2>4 DEF Look
    <3>2. LeaseUnique' /\ GrantMatchesLease'
      BY <3>1 DEF LeaseUnique, GrantMatchesLease
    <3>3. granted[NameOf[c]] = {}
      BY <2>4 DEF GrantMatchesLease
    <3>4. NothingGranted'
      BY <3>1, <3>3 DEF NothingGranted
    <3> QED BY <2>2, <3>2, <3>4
  <2> QED BY <2>3, <2>4
<1>3. ASSUME NEW c \in Callers, Read(c) \/ GiveUp(c) \/ SelectFails(c) PROVE PoolSound'
  <2>1. /\ leases' = leases /\ granted' = granted
        /\ \E w \in {"reading", "trying", "failed"} : callAt' = [callAt EXCEPT ![c] = w]
        /\ callAt'[c] # "failed" => callAt[c] \in {"reading", "trying"}
        /\ c \in Open
    BY <1>3 DEF Read, GiveUp, SelectFails, Open
  <2>2. LeaseUnique' /\ GrantMatchesLease'
    BY <2>1 DEF LeaseUnique, GrantMatchesLease
  <2>3. NothingGranted'
    BY <2>1 DEF NothingGranted
  <2>4. OneCallEach'
    BY <2>1 DEF OneCallEach, Open
  <2> QED BY <2>2, <2>3, <2>4
<1>4. ASSUME NEW c \in Callers, Try(c) PROVE PoolSound'
  <2>1. PICK x \in left[c] : Try(c)!2!(x)
    BY <1>4 DEF Try
  <2>2. x \in Subnets /\ c \in Open /\ granted[NameOf[c]] = {} /\ NameOf[c] \in AndNames
    BY <1>4 DEF Try, Open, NothingGranted
  <2>3. CASE Accepts(NameOf[c], x)
    <3>1. /\ leases' = [leases EXCEPT ![NameOf[c]] = x]
          /\ granted' = [granted EXCEPT ![NameOf[c]] = @ \cup {x}]
          /\ callAt' = [callAt EXCEPT ![c] = "returned"]
      BY <2>1, <2>3 DEF Upsert, Grant
    <3>2. /\ \A o \in AndNames \ {NameOf[c]} : granted'[o] = granted[o]
          /\ granted'[NameOf[c]] \subseteq {x}
      BY <2>2, <3>1
    <3>3. LeaseUnique' /\ GrantMatchesLease'
      BY <2>2, <2>3, <3>1, <3>2, UpsertSound
    <3>4. NothingGranted' /\ OneCallEach'
      BY <2>2, <3>1 DEF NothingGranted, OneCallEach, Open
    <3> QED BY <3>3, <3>4
  <2>4. CASE ~Accepts(NameOf[c], x)
    BY <2>1, <2>4 DEF LeaseUnique, GrantMatchesLease, NothingGranted, OneCallEach, Open
  <2> QED BY <2>3, <2>4
<1>5. ASSUME NEW c \in Callers, TryFails(c) \/ Abandon(c) PROVE PoolSound'
  <2>1. /\ granted' = granted
        /\ c \in Open
        /\ callAt' = callAt \/ callAt' = [callAt EXCEPT ![c] = "idle"]
    BY <1>5 DEF TryFails, Abandon, Open
  <2>2. NothingGranted' /\ OneCallEach'
    BY <2>1 DEF NothingGranted, OneCallEach, Open
  <2>3. CASE leases' = leases
    BY <2>1, <2>2, <2>3 DEF LeaseUnique, GrantMatchesLease
  <2>4. CASE leases' # leases
    <3>1. /\ callAt[c] = "trying"
          /\ \E x \in left[c] : Accepts(NameOf[c], x) /\ Upsert(NameOf[c], x)
      BY <1>5, <2>4 DEF TryFails, Abandon
    <3>2. PICK x \in left[c] : Accepts(NameOf[c], x) /\ Upsert(NameOf[c], x)
      BY <3>1
    <3>3. x \in Subnets /\ granted[NameOf[c]] = {} /\ NameOf[c] \in AndNames
      BY <3>1 DEF NothingGranted
    <3>4. LeaseUnique' /\ GrantMatchesLease'
      BY <2>1, <3>2, <3>3, UpsertSound DEF Upsert
    <3> QED BY <2>2, <3>4
  <2> QED BY <2>3, <2>4
<1>6. ASSUME NEW n \in AndNames, Teardown(n) PROVE PoolSound'
  <2>1. /\ granted' = [granted EXCEPT ![n] = {}]
        /\ callAt' = callAt
        /\ leases' = leases \/ leases' = [leases EXCEPT ![n] = NoLease]
    BY <1>6 DEF Teardown
  <2>2. LeaseUnique' /\ GrantMatchesLease'
    BY <2>1 DEF LeaseUnique, GrantMatchesLease
  <2>3. NothingGranted' /\ OneCallEach'
    BY <2>1 DEF NothingGranted, OneCallEach, Open
  <2> QED BY <2>2, <2>3
<1>7. CASE UNCHANGED poolVars
  BY <1>7 DEF poolVars, LeaseUnique, GrantMatchesLease, NothingGranted, OneCallEach, Open
<1> QED BY <1>1, <1>2, <1>3, <1>4, <1>5, <1>6, <1>7 DEF PoolNext, Step

LEMMA PoolAlways == ASSUME Serialised PROVE PoolSpec => []PoolInv
<1>1. PoolInit => PoolInv
  BY PoolAssumption DEF PoolInit, PoolInv, PoolTypes, PoolTypeOK, PassLeft, PoolSound, LeaseUnique,
     GrantMatchesLease, NothingGranted, OneCallEach, Open
<1>2. PoolInv /\ [PoolNext]_poolVars => PoolInv'
  BY PoolTypesKept, PoolSoundKept DEF PoolInv
<1> QED BY <1>1, <1>2, PTL DEF PoolSpec

(* If calls for one AND do not overlap, what allocate_address returned for *)
(* an AND that exists is what the table of leases says.                    *)
THEOREM LeasesMatch == ASSUME Serialised PROVE PoolSpec => []GrantMatchesLease
<1>1. PoolInv => GrantMatchesLease
  BY DEF PoolInv, PoolSound
<1> QED BY <1>1, PoolAlways, PTL

(* If calls for one AND do not overlap, no two ANDs hold the same subnet:  *)
(* for any number of callers, of failed calls, lost answers and crashes.   *)
THEOREM SubnetsUnique == ASSUME Serialised PROVE PoolSpec => []UniqueSubnet
<1>1. PoolInv => UniqueSubnet
  BY PoolAssumption DEF PoolInv, PoolTypes, PoolTypeOK, PoolSound, LeaseUnique, GrantMatchesLease, UniqueSubnet
<1> QED BY <1>1, PoolAlways, PTL

-----------------------------------------------------------------------------
(* A candidate that is no longer to be tried was taken when the call       *)
(* looked at it, and what was leased when it read is leased or was given up.*)
Taken(c) == Leased \cup freed[c]

Accounted ==
    callFaults = 0 => \A c \in Callers : callAt[c] = "trying" => CandidatesOf[c] \subseteq left[c] \cup Taken(c)

(* A row is given up or replaced with its subnet on record.                *)
LEMMA UpsertRemembers ==
    ASSUME PoolTypeOK, NEW n \in AndNames, NEW x \in Subnets, Upsert(n, x),
           NEW c \in Callers, callAt[c] = "trying"
    PROVE  Taken(c) \subseteq Taken(c)'
<1>1. SUFFICES ASSUME NEW y \in Taken(c) PROVE y \in Taken(c)'
  OBVIOUS
<1>2. \A o \in AndNames : leases'[o] = IF o = n THEN x ELSE leases[o]
  BY DEF PoolTypeOK, Upsert
<1>3. freed[c] \subseteq freed'[c] /\ (leases[n] \notin {NoLease, x} => leases[n] \in freed'[c])
  BY DEF Upsert, GaveUp
<1> QED BY <1>1, <1>2, <1>3 DEF Taken, Leased

LEMMA TakenStays ==
    ASSUME PoolTypeOK, [PoolNext]_poolVars, NEW c \in Callers, callAt[c] = "trying"
    PROVE  Taken(c) \subseteq Taken(c)'
<1>1. ASSUME UNCHANGED leases, freed'[c] = freed[c] PROVE Taken(c) \subseteq Taken(c)'
  BY <1>1 DEF Taken, Leased
<1>2. ASSUME NEW d \in Callers, Step(d) \/ TryFails(d) \/ Abandon(d) PROVE Taken(c) \subseteq Taken(c)'
  <2>1. \/ UNCHANGED leases /\ freed'[c] = freed[c]
        \/ \E x \in left[d] : Upsert(NameOf[d], x)
    BY <1>2 DEF PoolTypeOK, Step, Look, Read, Try, GiveUp, TryFails, Abandon
  <2>2. ASSUME NEW x \in left[d], Upsert(NameOf[d], x) PROVE Taken(c) \subseteq Taken(c)'
    <3>1. x \in Subnets /\ NameOf[d] \in AndNames
      BY PoolAssumption DEF PoolTypeOK
    <3> QED BY <2>2, <3>1, UpsertRemembers
  <2> QED BY <1>1, <2>1, <2>2
<1>3. ASSUME NEW n \in AndNames, Teardown(n) PROVE Taken(c) \subseteq Taken(c)'
  <2>1. CASE UNCHANGED <<leases, freed>>
    BY <1>1, <2>1
  <2>2. CASE /\ leases' = [leases EXCEPT ![n] = NoLease]
             /\ GaveUp({leases[n]} \ {NoLease})
    <3>1. \A o \in AndNames : leases'[o] = IF o = n THEN NoLease ELSE leases[o]
      BY <2>2 DEF PoolTypeOK
    <3>2. freed'[c] = freed[c] \cup ({leases[n]} \ {NoLease})
      BY <2>2 DEF GaveUp
    <3> QED BY <3>1, <3>2 DEF Taken, Leased
  <2> QED BY <1>3, <2>1, <2>2 DEF Teardown
<1>4. ASSUME NEW d \in Callers, Call(d) PROVE UNCHANGED leases /\ freed'[c] = freed[c]
  BY <1>4 DEF PoolTypeOK, Call, Open
<1> QED BY <1>1, <1>2, <1>3, <1>4 DEF PoolNext, poolVars, SelectFails

LEMMA AccountedKept == ASSUME PoolTypeOK, Accounted, [PoolNext]_poolVars PROVE Accounted'
<1> USE PoolAssumption DEF PoolTypeOK, CallGoto
<1>1. SUFFICES ASSUME callFaults' = 0, NEW c \in Callers, callAt'[c] = "trying"
               PROVE  CandidatesOf[c] \subseteq left'[c] \cup Taken(c)'
  BY DEF Accounted
<1>2. callFaults \in Nat /\ (CallFault => callFaults' # 0)
  BY DEF CallFault
<1>3. callFaults = 0 /\ (callAt[c] = "trying" => Taken(c) \subseteq Taken(c)')
  BY <1>1, <1>2, TakenStays DEF PoolNext, poolVars, Call, Step, Look, Read, Try, GiveUp, SelectFails, TryFails,
     Abandon, Teardown
<1>4. callAt[c] = "trying" => CandidatesOf[c] \subseteq left[c] \cup Taken(c)
  BY <1>3 DEF Accounted
<1>5. ASSUME NEW d \in Callers, Read(d) PROVE CandidatesOf[c] \subseteq left'[c] \cup Taken(c)'
  <2>1. CASE d = c
    <3>1. left'[c] = CandidatesOf[c] \ Leased
      BY <1>5, <2>1 DEF Read
    <3>2. Leased' = Leased
      BY <1>5 DEF Read, Leased
    <3> QED BY <3>1, <3>2 DEF Taken
  <2>2. CASE d # c
    BY <1>1, <1>3, <1>4, <1>5, <2>2 DEF Read
  <2> QED BY <2>1, <2>2
<1>6. ASSUME NEW d \in Callers, Try(d) PROVE CandidatesOf[c] \subseteq left'[c] \cup Taken(c)'
  <2>1. callAt[c] = "trying"
    BY <1>1, <1>6 DEF Try
  <2>2. PICK x \in left[d] : Try(d)!2!(x)
    BY <1>6 DEF Try
  <2>3. left' = left \/ (left' = [left EXCEPT ![d] = @ \ {x}] /\ ~Accepts(NameOf[d], x))
    BY <2>2
  <2>4. ~Accepts(NameOf[d], x) => x \in Taken(c)
    <3>1. x \in Subnets
      BY <2>2
    <3> QED BY <3>1 DEF Accepts, Taken, Leased
  <2> QED BY <1>3, <1>4, <2>1, <2>3, <2>4
<1>7. ASSUME NEW d \in Callers, Call(d) \/ Look(d) \/ GiveUp(d) \/ SelectFails(d) \/ Abandon(d)
      PROVE  CandidatesOf[c] \subseteq left'[c] \cup Taken(c)'
  <2>1. callAt[c] = "trying" /\ left'[c] = left[c]
    BY <1>1, <1>7 DEF Call, Look, GiveUp, SelectFails, Abandon
  <2> QED BY <1>3, <1>4, <2>1
<1>8. ASSUME NEW d \in Callers PROVE ~TryFails(d)
  BY <1>1, <1>2 DEF TryFails
<1>9. ASSUME UNCHANGED <<callAt, left>> PROVE CandidatesOf[c] \subseteq left'[c] \cup Taken(c)'
  BY <1>1, <1>3, <1>4, <1>9
<1> QED BY <1>5, <1>6, <1>7, <1>8, <1>9 DEF PoolNext, poolVars, Step, Teardown

(* A call reports an exhausted pool truly, for any number of overlapping   *)
(* calls: the two passes over the candidates miss none that stayed free.   *)
THEOREM ExhaustionIsTrue == PoolSpec => ExhaustedTruly
<1> DEFINE Told == \A c \in Callers :
              callAt[c] = "trying" /\ callAt'[c] = "failed" /\ callFaults = 0 => CandidatesOf[c] \subseteq Leased \cup freed[c]
<1>1. PoolInit => Accounted
  BY DEF PoolInit, Accounted
<1>2. PoolTypes /\ Accounted /\ [PoolNext]_poolVars => Accounted'
  BY AccountedKept DEF PoolTypes
<1>3. PoolTypes /\ Accounted /\ [PoolNext]_poolVars => [Told]_poolVars
  <2>1. SUFFICES ASSUME PoolTypes, Accounted, PoolNext, NEW c \in Callers,
                        callAt[c] = "trying", callAt'[c] = "failed", callFaults = 0
                 PROVE  CandidatesOf[c] \subseteq Leased \cup freed[c]
    BY DEF poolVars
  <2>2. GiveUp(c)
    BY <2>1 DEF PoolNext, Step, Call, Look, Read, Try, GiveUp, SelectFails, TryFails, Abandon, Teardown, CallGoto,
       PoolTypes, PoolTypeOK
  <2> QED BY <2>1, <2>2 DEF GiveUp, Accounted, Taken
<1> QED BY <1>1, <1>2, <1>3, PoolTypesAlways, PTL DEF PoolSpec, ExhaustedTruly

-----------------------------------------------------------------------------
(* A change of one AND's row and grant is a change of tenancy, with the    *)
(* invariant before and after it, if what was returned is not exchanged.   *)
Lives(g) == IF g = {} THEN NoLease ELSE CHOOSE x \in g : TRUE

LEMMA LivesAre == \A x : Lives({x}) = x /\ Lives({}) = NoLease
  BY DEF Lives

LEMMA RowChanges ==
    ASSUME PoolInv, PoolInv', NEW n \in AndNames,
           \A o \in AndNames \ {n} : leases'[o] = leases[o] /\ granted'[o] = granted[o],
           granted'[n] \in {granted[n], {}} \/ granted[n] = {}
    PROVE  PoolTenancy!TenancyNext
<1>1. /\ leases \in [AndNames -> Subnets \cup {NoLease}]
      /\ leases' \in [AndNames -> Subnets \cup {NoLease}]
      /\ granted \in [AndNames -> SUBSET Subnets]
      /\ granted' \in [AndNames -> SUBSET Subnets]
  BY DEF PoolInv, PoolTypes, PoolTypeOK
<1>2. \A o \in AndNames : /\ granted[o] \in {{}, {leases[o]}}
                          /\ granted'[o] \in {{}, {leases'[o]}}
  BY <1>1 DEF PoolInv, PoolSound, GrantMatchesLease
<1>3. \A o \in AndNames : /\ Lives(granted[o]) \in {NoLease, leases[o]}
                          /\ Lives(granted'[o]) \in {NoLease, leases'[o]}
                          /\ granted[o] = {} => Lives(granted[o]) = NoLease
                          /\ granted'[o] = {} => Lives(granted'[o]) = NoLease
  BY <1>2, LivesAre
<1>4. PICK x \in Subnets \cup {NoLease}, y \in Subnets \cup {NoLease} :
         x = leases'[n] /\ y = Lives(granted'[n])
  BY <1>1, <1>3
<1>5. x = NoLease \/ \A o \in AndNames \ {n} : leases[o] # x
  BY <1>4 DEF PoolInv, PoolSound, LeaseUnique
<1>6. y = NoLease \/ \A o \in AndNames \ {n} : Lives(granted[o]) # y
  BY <1>3, <1>4, <1>5
<1>7. y \in {Lives(granted[n]), NoLease} \/ Lives(granted[n]) = NoLease
  BY <1>3, <1>4
<1>8. y \in {x, NoLease}
  BY <1>3, <1>4
<1>9. leases' = [leases EXCEPT ![n] = x]
  BY <1>1, <1>4
<1>10. [o \in AndNames |-> Lives(granted[o])]' = [[o \in AndNames |-> Lives(granted[o])] EXCEPT ![n] = y]
  BY <1>4
<1>11. PoolTenancy!Change(n, x, y)
  BY <1>5, <1>6, <1>7, <1>8, <1>9, <1>10
  DEF PoolTenancy!Change, PoolTenancy!Rentable, PoolTenancy!Vacant, Lives
<1> QED BY <1>11 DEF PoolTenancy!TenancyNext

LEMMA PoolChanges ==
    ASSUME PoolInv, PoolInv', [PoolNext]_poolVars
    PROVE  [PoolTenancy!TenancyNext]_(PoolTenancy!tenancyVars)
<1> USE PoolAssumption
<1>1. /\ leases \in [AndNames -> Subnets \cup {NoLease}]
      /\ granted \in [AndNames -> SUBSET Subnets]
      /\ left \in [Callers -> SUBSET Subnets]
  BY DEF PoolInv, PoolTypes, PoolTypeOK
<1>2. ASSUME UNCHANGED <<leases, granted>> PROVE UNCHANGED PoolTenancy!tenancyVars
  BY <1>2 DEF PoolTenancy!tenancyVars
<1>3. ASSUME NEW c \in Callers, Look(c) PROVE [PoolTenancy!TenancyNext]_(PoolTenancy!tenancyVars)
  <2>1. CASE leases[NameOf[c]] = NoLease
    BY <1>2, <1>3, <2>1 DEF Look
  <2>2. CASE leases[NameOf[c]] # NoLease
    <3>1. leases' = leases /\ granted' = [granted EXCEPT ![NameOf[c]] = @ \cup {leases[NameOf[c]]}]
      BY <1>3, <2>2 DEF Look, Grant
    <3>2. granted[NameOf[c]] \subseteq {leases[NameOf[c]]}
      BY DEF PoolInv, PoolSound, GrantMatchesLease
    <3>3. \/ granted[NameOf[c]] = {}
          \/ granted'[NameOf[c]] = granted[NameOf[c]]
      BY <1>1, <3>1, <3>2
    <3>4. \A o \in AndNames \ {NameOf[c]} : leases'[o] = leases[o] /\ granted'[o] = granted[o]
      BY <1>1, <3>1
    <3> QED BY <3>3, <3>4, RowChanges
  <2> QED BY <2>1, <2>2
<1>4. ASSUME NEW c \in Callers, Try(c) \/ TryFails(c) \/ Abandon(c)
      PROVE  [PoolTenancy!TenancyNext]_(PoolTenancy!tenancyVars)
  <2>1. \/ UNCHANGED <<leases, granted>>
        \/ /\ callAt[c] = "trying"
           /\ \E x \in left[c] : /\ Upsert(NameOf[c], x)
                                 /\ granted' = granted \/ Grant(NameOf[c], x)
    BY <1>4 DEF Try, TryFails, Abandon
  <2>2. CASE /\ callAt[c] = "trying"
             /\ \E x \in left[c] : /\ Upsert(NameOf[c], x)
                                   /\ granted' = granted \/ Grant(NameOf[c], x)
    <3>1. granted[NameOf[c]] = {}
      BY <2>2 DEF PoolInv, PoolSound, NothingGranted
    <3>2. \A o \in AndNames \ {NameOf[c]} : leases'[o] = leases[o] /\ granted'[o] = granted[o]
      BY <1>1, <2>2 DEF Upsert, Grant
    <3> QED BY <3>1, <3>2, RowChanges
  <2> QED BY <1>2, <2>1, <2>2
<1>5. ASSUME NEW n \in AndNames, Teardown(n) PROVE PoolTenancy!TenancyNext
  <2>1. /\ granted' = [granted EXCEPT ![n] = {}]
        /\ leases' = leases \/ leases' = [leases EXCEPT ![n] = NoLease]
    BY <1>5 DEF Teardown
  <2>2. /\ \A o \in AndNames \ {n} : leases'[o] = leases[o] /\ granted'[o] = granted[o]
        /\ granted'[n] = {}
    BY <1>1, <2>1
  <2> QED BY <2>2, RowChanges
<1>6. ASSUME NEW c \in Callers, Call(c) \/ Read(c) \/ GiveUp(c) \/ SelectFails(c)
      PROVE  UNCHANGED <<leases, granted>>
  BY <1>6 DEF Call, Read, GiveUp, SelectFails
<1> QED BY <1>2, <1>3, <1>4, <1>5, <1>6 DEF PoolNext, Step, poolVars

(* Calls of allocate_address that do not overlap for one AND implement     *)
(* SubnetTenancy too: the row of an AND is not replaced while it holds     *)
(* what a call returned from it, whatever answers are lost.                *)
THEOREM LeasesKept == ASSUME Serialised PROVE PoolSpec => GrantsTenancy
<1>1. PoolInit => PoolTenancy!TenancyInit
  BY DEF PoolInit, PoolTenancy!TenancyInit
<1>2. PoolInv /\ PoolInv' /\ [PoolNext]_poolVars
         => [PoolTenancy!TenancyNext]_(PoolTenancy!tenancyVars)
  BY PoolChanges
<1> QED BY <1>1, <1>2, PoolAlways, PTL DEF PoolSpec, GrantsTenancy, PoolTenancy!TenancySpec
=============================================================================
