--------------------------- MODULE OperatorProofs ---------------------------
(***************************************************************************)
(* Proofs about what the commands of an operator run.  Operator: what whole *)
(* copies of the state that are saved late may say of a world.             *)
(* DriftController, the loop of `netengine drift watch`, for any set of    *)
(* completed phases and any number of phases that break and calls that     *)
(* fail.  Supervisor, which runs that loop and the other workers of `up`,  *)
(* for every set of workers, absorbing and healing ones included, every    *)
(* back-off and any number of crashes.                                     *)
(***************************************************************************)
EXTENDS Operator, DriftController, Supervisor, TLAPS

Running(r) == call[r].pc \in {"ands", "finish"}

(* A copy of the state, if it is one, says what is true of its world. *)
CopyOK(c) ==
    c # NoWorld =>
      /\ c.world \in 1 .. worlds
      /\ c.spec.life = born[c.world]
      /\ c.spec.life = "persistent" => c.spec.pki \in put[c.world]
      /\ c.world \notin unserved => c.spec.ands \subseteq bridges \cap c.known

(* The ANDs a reload has still to provision. *)
ToDo(r) == IF call[r].pc = "ands" THEN call[r].left ELSE {}

(* A call that runs has a copy, was not refused, and has served the ANDs   *)
(* that it has behind it; another has no copy.                             *)
CallOK(r) ==
    /\ CopyOK(call[r].state)
    /\ IF Running(r)
       THEN /\ call[r].state # NoWorld
            /\ call[r].spec.life = call[r].state.spec.life
            /\ call[r].spec.life = "persistent" => call[r].spec.pki = call[r].state.spec.pki
            /\ call[r].state.world \notin unserved =>
                 call[r].spec.ands \ ToDo(r) \subseteq bridges \cap call[r].state.known
       ELSE call[r].state = NoWorld

IInv == /\ TypeOK
        /\ CopyOK(file)
        /\ CopyOK(watch)
        /\ \A r \in Reloads : CallOK(r)

-----------------------------------------------------------------------------
(* What no step does: forget a world's history, or take a bridge away from *)
(* a world that is served.                                                 *)
Ages ==
    /\ worlds \in Nat /\ worlds' \in Nat /\ worlds <= worlds'
    /\ \A w \in 1 .. worlds : born'[w] = born[w] /\ put[w] \subseteq put'[w]
    /\ unserved \subseteq unserved'
    /\ bridges \subseteq bridges' \/ 1 .. worlds \subseteq unserved'

(* What a copy says stays true. *)
LEMMA CopyAges ==
    ASSUME NEW c, CopyOK(c), Ages
    PROVE  CopyOK(c)'
BY DEF CopyOK, Ages

(* A call that a step does not touch stays as it should be. *)
LEMMA CallAges ==
    ASSUME IInv, Ages, NEW r \in Reloads, call'[r] = call[r]
    PROVE  CallOK(r)'
<1>1. CallOK(r) /\ CopyOK(call[r].state)
  BY DEF IInv, CallOK
<1>2. CopyOK(call[r].state)'
  <2>1. DEFINE c == call[r].state
  <2>2. ASSUME NEW d, d = call[r].state PROVE CopyOK(d)'
    BY <1>1, <2>2, CopyAges
  <2>3. QED
    BY <2>2 DEF CopyOK
<1>3. CASE Running(r)
  <2>1. call[r].state.world \in 1 .. worlds
    BY <1>1, <1>3 DEF CallOK, CopyOK
  <2>2. QED
    BY <1>1, <1>2, <1>3, <2>1 DEF Ages, CallOK, ToDo, Running
<1>4. CASE ~Running(r)
  BY <1>1, <1>2, <1>4 DEF CallOK, Running
<1>5. QED
  BY <1>3, <1>4

(* A copy after a step is an old one, or is none, or one that is right. *)
LEMMA Kept ==
    ASSUME IInv, Ages, TypeOK',
           file' \in {file, watch, NoWorld} \/ CopyOK(file)',
           watch' \in {file, watch, NoWorld},
           \A r \in Reloads : call'[r] = call[r] \/ CallOK(r)'
    PROVE  IInv'
<1>1. CopyOK(file) /\ CopyOK(watch) /\ CopyOK(NoWorld)
  BY DEF IInv, CopyOK
<1>2. ASSUME NEW c \in {file, watch, NoWorld} PROVE CopyOK(c)'
  BY <1>1, CopyAges
<1>3. CopyOK(file)'
  BY <1>2 DEF CopyOK
<1>4. CopyOK(watch)'
  BY <1>2 DEF CopyOK
<1>5. ASSUME NEW r \in Reloads PROVE CallOK(r)'
  BY CallAges
<1>6. QED
  BY <1>3, <1>4, <1>5 DEF IInv

(* It is so at the start. *)
LEMMA Start == Init => IInv
<1> SUFFICES ASSUME Init PROVE IInv
  OBVIOUS
<1>1. TypeOK
  BY OperatorAssumption DEF Init, TypeOK, Calls, NotCalled, BlankSpec, Specs, Lives, Worlds
<1>2. CopyOK(file) /\ CopyOK(watch)
  BY DEF Init, CopyOK
<1>3. \A r \in Reloads : CallOK(r)
  BY DEF Init, CallOK, CopyOK, Running, NotCalled
<1>4. QED
  BY <1>1, <1>2, <1>3 DEF IInv

-----------------------------------------------------------------------------
(* A specification makes a world that no copy knows yet. *)
LEMMA Founded ==
    ASSUME IInv, NEW s \in Offers, NewWorld(s)
    PROVE  /\ worlds \in Nat /\ worlds' = worlds + 1 /\ worlds' \in Worlds
           /\ s \in Specs
           /\ born'[worlds'] = s.life /\ put'[worlds'] = {s.pki}
           /\ born' \in [Worlds -> Lives] /\ put' \in [Worlds -> SUBSET (0 .. 1)]
           /\ \A w \in 1 .. worlds : born'[w] = born[w] /\ put'[w] = put[w]
<1>1. worlds \in Nat /\ worlds' = worlds + 1 /\ worlds' \in Worlds
  BY OperatorAssumption DEF NewWorld, IInv, TypeOK, Worlds
<1>2. s \in Specs
  BY OffersAssumption
<1>3. s.life \in Lives /\ s.pki \in 0 .. 1
  BY <1>2 DEF Specs
<1>4. QED
  BY <1>1, <1>2, <1>3 DEF NewWorld, IInv, TypeOK, Worlds

(* The steps that set up or import a world keep the invariant. *)
LEMMA Founding ==
    ASSUME IInv, NEW s \in Offers, NewWorld(s),
           NEW k \in SUBSET Instances, file' = [world |-> worlds', spec |-> s, known |-> k],
           bridges \subseteq bridges', bridges' \subseteq Instances,
           unserved' \in {unserved, unserved \cup {worlds'}},
           worlds' \in unserved' \/ s.ands \subseteq bridges' \cap k,
           UNCHANGED <<watch, call>>
    PROVE  IInv'
<1>0. /\ worlds \in Nat /\ worlds' = worlds + 1 /\ worlds' \in Worlds
      /\ s \in Specs
      /\ born'[worlds'] = s.life /\ put'[worlds'] = {s.pki}
      /\ born' \in [Worlds -> Lives] /\ put' \in [Worlds -> SUBSET (0 .. 1)]
      /\ \A w \in 1 .. worlds : born'[w] = born[w] /\ put'[w] = put[w]
  BY Founded
<1>1. Ages
  BY <1>0 DEF Ages
<1>2. file' \in States
  BY <1>0 DEF States
<1>3. worlds' \in 0 .. MaxWorlds /\ unserved' \subseteq Worlds
  BY <1>0, OperatorAssumption DEF Worlds, IInv, TypeOK
<1>4. TypeOK'
  BY <1>0, <1>2, <1>3 DEF NewWorld, IInv, TypeOK
<1>5. CopyOK(file)'
  <2>1. worlds' \in 1 .. worlds'
    BY <1>0
  <2>2. QED
    BY <1>0, <2>1 DEF CopyOK
<1>6. QED
  BY <1>1, <1>4, <1>5, Kept

(* `netengine up` keeps it. *)
LEMMA UpKeeps == ASSUME IInv, NEW s \in Offers, Up(s) PROVE IInv'
<1>1. s.ands \in SUBSET Instances
  BY OffersAssumption DEF Specs
<1>2. bridges' = bridges \cup s.ands /\ bridges' \subseteq Instances
  BY <1>1 DEF Up, IInv, TypeOK
<1>3. QED
  BY <1>1, <1>2, Founding DEF Up

(* Both imports keep it. *)
LEMMA ImportKeeps ==
    ASSUME IInv, NEW s \in Offers, ImportBundle(s) \/ ImportWorld(s) PROVE IInv'
<1>1. PICK k \in SUBSET Instances :
        NewWorld(s) /\ file' = [world |-> worlds', spec |-> s, known |-> k]
  <2>1. CASE ImportBundle(s)
    BY <2>1 DEF ImportBundle
  <2>2. CASE ImportWorld(s)
    BY <2>2 DEF ImportWorld, IInv, TypeOK, States
  <2>3. QED
    BY <2>1, <2>2
<1>2. /\ unserved' = unserved \cup {worlds'} /\ bridges' = bridges
      /\ UNCHANGED <<watch, call>>
  BY DEF ImportBundle, ImportWorld
<1>3. bridges \subseteq Instances
  BY DEF IInv, TypeOK
<1>4. QED
  BY <1>1, <1>2, <1>3, Founding

(* Both teardowns keep it: a world with fewer bridges is not served. *)
LEMMA GoneKeeps == ASSUME IInv, NEW left \in SUBSET bridges, Gone(left) PROVE IInv'
<1>1. worlds \in Nat /\ worlds' = worlds /\ 1 .. worlds \subseteq Worlds
  BY OperatorAssumption DEF Gone, Edit, IInv, TypeOK, Worlds
<1>2. Ages
  BY <1>1 DEF Gone, Ages
<1>3. TypeOK'
  BY <1>1, OperatorAssumption DEF Gone, Edit, IInv, TypeOK
<1>4. QED
  BY <1>2, <1>3, Kept DEF Gone

-----------------------------------------------------------------------------
(* The edits of sections keep it. *)
LEMMA UpdateSectionKeeps ==
    ASSUME IInv, NEW v \in 0 .. 1, UpdateSection(v) PROVE IInv'
<1>1. file \in States /\ CopyOK(file) /\ file # NoWorld
  BY DEF IInv, TypeOK, UpdateSection
<1>2. /\ file' \in States /\ file'.world = file.world /\ file'.known = file.known
      /\ file'.spec.life = file.spec.life /\ file'.spec.pki = file.spec.pki
      /\ file'.spec.ands = file.spec.ands
  BY <1>1 DEF States, Specs, UpdateSection
<1>3. TypeOK'
  BY <1>2, OperatorAssumption DEF IInv, TypeOK, UpdateSection, Edit, hist
<1>4. Ages
  BY DEF Ages, IInv, TypeOK, UpdateSection, Edit, hist
<1>5. CopyOK(file)'
  BY <1>1, <1>2 DEF CopyOK, UpdateSection, Edit, hist
<1>6. QED
  BY <1>3, <1>4, <1>5, Kept DEF UpdateSection

(* So does PUT /pki/rotation-policy, which is how an operator gives a      *)
(* world a PKI section.                                                    *)
LEMMA UpdateRotationPolicyKeeps ==
    ASSUME IInv, NEW v \in 0 .. 1, UpdateRotationPolicy(v) PROVE IInv'
<1>1. file \in States /\ CopyOK(file) /\ file # NoWorld /\ file.world \in Worlds
  BY DEF IInv, TypeOK, UpdateRotationPolicy, States
<1>2. /\ file' \in States /\ file'.world = file.world /\ file'.known = file.known
      /\ file'.spec.life = file.spec.life /\ file'.spec.pki = v
      /\ file'.spec.ands = file.spec.ands
  BY <1>1 DEF States, Specs, UpdateRotationPolicy
<1>3. put' \in [Worlds -> SUBSET (0 .. 1)] /\ v \in put'[file.world]
      /\ \A w \in Worlds : put[w] \subseteq put'[w]
  BY <1>1 DEF IInv, TypeOK, UpdateRotationPolicy
<1>4. TypeOK'
  BY <1>2, <1>3, OperatorAssumption DEF IInv, TypeOK, UpdateRotationPolicy, Edit
<1>5. worlds \in Nat /\ 1 .. worlds \subseteq Worlds
  BY OperatorAssumption DEF IInv, TypeOK, Worlds
<1>6. Ages
  BY <1>3, <1>5 DEF Ages, UpdateRotationPolicy, Edit
<1>7. CopyOK(file)'
  BY <1>1, <1>2, <1>3 DEF CopyOK, UpdateRotationPolicy, Edit
<1>8. QED
  BY <1>4, <1>6, <1>7, Kept DEF UpdateRotationPolicy

(* The watch, which has and saves a copy that may be old, keeps it. *)
LEMMA WatchKeeps == ASSUME IInv, StartWatch \/ Iterate \/ StopWatch PROVE IInv'
<1>1. TypeOK'
  <2>1. CASE StartWatch
    BY <2>1, OperatorAssumption DEF StartWatch, Edit, IInv, TypeOK, hist
  <2>2. CASE Iterate
    BY <2>2 DEF Iterate, IInv, TypeOK, hist, count
  <2>3. CASE StopWatch
    BY <2>3 DEF StopWatch, IInv, TypeOK, hist, count
  <2>4. QED
    BY <2>1, <2>2, <2>3
<1>2. Ages
  BY DEF StartWatch, Iterate, StopWatch, Edit, Ages, IInv, TypeOK, hist, count
<1>3. QED
  BY <1>1, <1>2, Kept DEF StartWatch, Iterate, StopWatch

-----------------------------------------------------------------------------
(* A step of one call, which leaves that call as it should be and the      *)
(* state file as it was or right, keeps the invariant.                     *)
LEMMA Stepped ==
    ASSUME IInv, Ages, NEW r \in Reloads, NEW c \in Calls, Becomes(r, c),
           c.pc \notin {"ands", "finish"} => c.state = NoWorld,
           c.pc \in {"ands", "finish"} => CallOK(r)',
           file' \in States \cup {NoWorld}, file' = file \/ CopyOK(file)',
           bridges' \subseteq Instances, unserved' \subseteq Worlds,
           UNCHANGED <<watch, born, put, worlds, edits>>,
           faults' \in 0 .. MaxFaults
    PROVE  IInv'
<1>1. call' \in [Reloads -> Calls] /\ call'[r] = c
  BY DEF Becomes, IInv, TypeOK
<1>2. TypeOK'
  BY <1>1 DEF IInv, TypeOK
<1>3. CallOK(r)'
  BY <1>1 DEF CallOK, CopyOK, Running
<1>4. \A q \in Reloads : call'[q] = call[q] \/ CallOK(q)'
  BY <1>3 DEF Becomes, IInv, TypeOK
<1>5. QED
  BY <1>2, <1>4, Kept

(* What it means that a reload is not refused. *)
LEMMA Permitted ==
    ASSUME NEW old \in Specs, NEW new \in Specs, ~Refused(old, new)
    PROVE  /\ new.life = old.life
           /\ new.life = "persistent" => new.pki = old.pki
<1>1. DOMAIN old = {"life", "pki", "other", "ands"}
  BY DEF Specs
<1>2. QED
  BY <1>1 DEF Refused, Violated, Changed

(* BeginReload keeps it: a call starts from what the state file says, and  *)
(* was not refused.                                                        *)
LEMMA BeginKeeps ==
    ASSUME IInv, NEW r \in Reloads, NEW new \in Offers, BeginReload(r, new)
    PROVE  IInv'
<1>1. file \in States /\ file # NoWorld /\ CopyOK(file) /\ file.spec \in Specs
  BY DEF BeginReload, IInv, TypeOK, States
<1>2. new \in Specs /\ new.ands \subseteq Instances
  BY OffersAssumption DEF Specs
<1>3. /\ new.life = file.spec.life
      /\ new.life = "persistent" => new.pki = file.spec.pki
  BY <1>1, <1>2, Permitted DEF BeginReload
<1>4. "ands" \notin Changed(file.spec, new) => new.ands = file.spec.ands
  <2>1. DOMAIN file.spec = {"life", "pki", "other", "ands"}
    BY <1>1 DEF Specs
  <2>2. QED
    BY <2>1 DEF Changed
<1>5. PICK a \in BOOLEAN :
        Becomes(r, [pc |-> IF "ands" \in Changed(file.spec, new) THEN "ands" ELSE "finish",
                    state |-> file, spec |-> new, left |-> new.ands, applied |-> a])
  BY DEF BeginReload
<1> DEFINE c == [pc |-> IF "ands" \in Changed(file.spec, new) THEN "ands" ELSE "finish",
                 state |-> file, spec |-> new, left |-> new.ands, applied |-> a]
<1>6. c \in Calls
  BY <1>1, <1>2 DEF Calls
<1>7. Ages
  BY DEF BeginReload, Ages, IInv, TypeOK, hist, count
<1>8. call'[r] = c
  BY <1>5 DEF Becomes, IInv, TypeOK
<1>9. UNCHANGED <<file, bridges, watch, born, put, unserved, worlds, edits, faults>>
  BY DEF BeginReload, hist, count
<1>10. CallOK(r)'
  BY <1>1, <1>3, <1>4, <1>8, <1>9 DEF CallOK, CopyOK, Running, ToDo
<1>11. QED
  BY <1>1, <1>5, <1>6, <1>7, <1>9, <1>10, Stepped DEF IInv, TypeOK

(* What a call that runs has. *)
LEMMA RunningHas ==
    ASSUME IInv, NEW r \in Reloads, Running(r)
    PROVE  /\ call[r].state \in States /\ call[r].state # NoWorld
           /\ call[r].spec \in Specs /\ call[r].left \subseteq Instances
           /\ call[r].state.world \in 1 .. worlds /\ call[r].state.world \in Worlds
           /\ CopyOK(call[r].state) /\ CallOK(r)
<1>1. CallOK(r) /\ call[r].state # NoWorld
  BY DEF IInv, CallOK
<1>2. call[r] \in Calls
  BY DEF IInv, TypeOK
<1>3. call[r].state \in States
  BY <1>1, <1>2 DEF Calls
<1>4. CopyOK(call[r].state)
  BY <1>1 DEF CallOK
<1>5. QED
  BY <1>1, <1>2, <1>3, <1>4 DEF Calls, States, CopyOK

(* What a reload saves at its end is a state, and true of its world but    *)
(* for the ANDs.                                                           *)
LEMMA ReloadedHas ==
    ASSUME IInv, NEW r \in Reloads, Running(r)
    PROVE  /\ Reloaded(r) \in States
           /\ Reloaded(r).world = call[r].state.world
           /\ Reloaded(r).known = call[r].state.known
           /\ Reloaded(r).spec = call[r].spec
           /\ call[r].spec.life = born[call[r].state.world]
           /\ call[r].spec.life = "persistent" =>
                call[r].spec.pki \in put[call[r].state.world]
<1>1. /\ Reloaded(r) \in States
      /\ Reloaded(r).world = call[r].state.world
      /\ Reloaded(r).known = call[r].state.known
      /\ Reloaded(r).spec = call[r].spec
  BY RunningHas DEF Reloaded, States
<1>2. QED
  BY <1>1, RunningHas DEF CallOK, CopyOK

(* The record of a call that is over. *)
LEMMA OverIs ==
    ASSUME NEW r \in Reloads
    PROVE  /\ [NotCalled EXCEPT !.pc = "over"] \in Calls
           /\ [NotCalled EXCEPT !.pc = "over"].pc = "over"
           /\ [NotCalled EXCEPT !.pc = "over"].state = NoWorld
<1>1. BlankSpec \in Specs
  BY DEF BlankSpec, Specs, Lives
<1>2. NotCalled \in Calls /\ NotCalled.state = NoWorld
  BY <1>1 DEF NotCalled, Calls
<1>3. QED
  BY <1>2 DEF Calls

(* A reload that halts keeps it: its world is not served from then on, if  *)
(* the new specification was recorded.                                     *)
LEMMA HaltKeeps ==
    ASSUME IInv, NEW r \in Reloads, Running(r), Halt(r),
           bridges \subseteq bridges', bridges' \subseteq Instances,
           UNCHANGED <<worlds, edits>>, faults' \in 0 .. MaxFaults
    PROVE  IInv'
<1>1. /\ unserved \subseteq unserved' /\ unserved' \subseteq Worlds
      /\ UNCHANGED <<watch, born, put>>
  BY RunningHas DEF Halt, IInv, TypeOK
<1>2. Ages
  BY <1>1 DEF Ages, IInv, TypeOK
<1>3. file' \in States \cup {NoWorld} /\ (file' = file \/ CopyOK(file)')
  <2>1. CASE call[r].applied
    <3>1. file' = Reloaded(r) /\ call[r].state.world \in unserved'
      BY <2>1 DEF Halt
    <3>2. CopyOK(file)'
      BY <1>1, <3>1, ReloadedHas, RunningHas DEF CopyOK
    <3>3. QED
      BY <3>1, <3>2, ReloadedHas
  <2>2. CASE ~call[r].applied
    BY <2>2 DEF Halt, IInv, TypeOK
  <2>3. QED
    BY <2>1, <2>2
<1>4. QED
  BY <1>1, <1>2, <1>3, OverIs, Stepped DEF Halt, Over

(* Provision keeps it: the AND that is behind the call has a bridge and is *)
(* on record in its copy.                                                  *)
LEMMA ProvisionKeeps ==
    ASSUME IInv, NEW r \in Reloads, NEW n \in Instances, Provision(r, n)
    PROVE  IInv'
<1>1. Running(r) /\ call[r].pc = "ands"
  BY DEF Provision, Turn, Running
<1>2. UNCHANGED <<worlds, edits, faults>> /\ faults \in 0 .. MaxFaults
      /\ bridges \subseteq Instances
  BY DEF Provision, count, IInv, TypeOK
<1>3. CASE n \in bridges
  BY <1>1, <1>2, <1>3, HaltKeeps DEF Provision
<1>4. CASE n \notin bridges
  <2> DEFINE c == [call[r] EXCEPT !.left = @ \ {n}, !.state.known = @ \cup {n}]
  <2>1. /\ Becomes(r, c) /\ bridges' = bridges \cup {n}
        /\ UNCHANGED <<file, watch, born, put, unserved>>
    BY <1>4 DEF Provision, hist
  <2>2. Ages
    BY <1>2, <2>1 DEF Ages, IInv, TypeOK
  <2>3. call[r] \in Calls /\ call[r].state \in States
    BY <1>1, RunningHas DEF IInv, TypeOK
  <2>4. /\ c.pc = "ands" /\ c.spec = call[r].spec /\ c.left = call[r].left \ {n}
        /\ c.applied = call[r].applied
        /\ c.state = [call[r].state EXCEPT !.known = @ \cup {n}]
    BY <1>1, <2>3 DEF Calls
  <2>5. /\ c.state \in States /\ c.state.world = call[r].state.world
        /\ c.state.spec = call[r].state.spec
        /\ c.state.known = call[r].state.known \cup {n}
    BY <2>3, <2>4 DEF States
  <2>6. c \in Calls
    BY <2>3, <2>4, <2>5 DEF Calls
  <2>7. call'[r] = c
    BY <2>1 DEF Becomes, IInv, TypeOK
  <2>8. /\ CopyOK(call[r].state) /\ call[r].state # NoWorld
        /\ call[r].spec.life = call[r].state.spec.life
        /\ call[r].spec.life = "persistent" => call[r].spec.pki = call[r].state.spec.pki
        /\ call[r].state.world \notin unserved =>
             call[r].spec.ands \ call[r].left \subseteq bridges \cap call[r].state.known
    BY <1>1, RunningHas DEF CallOK, ToDo
  <2>9. c.state # NoWorld
    BY <2>5, NoWorldAssumption
  <2>10. CopyOK(call[r].state)'
    BY <1>2, <2>1, <2>5, <2>7, <2>8 DEF CopyOK
  <2>11. CallOK(r)'
    BY <2>1, <2>4, <2>5, <2>7, <2>8, <2>9, <2>10 DEF CallOK, ToDo, Running
  <2>12. QED
    <3> HIDE DEF c
    <3>1. bridges' \subseteq Instances /\ unserved' \subseteq Worlds
          /\ file' \in States \cup {NoWorld}
      BY <1>2, <2>1 DEF IInv, TypeOK
    <3>2. QED
      BY <1>2, <2>1, <2>2, <2>4, <2>6, <2>11, <3>1, Stepped
<1>5. QED
  BY <1>3, <1>4

(* ProvisionFails keeps it. *)
LEMMA ProvisionFailsKeeps ==
    ASSUME IInv, NEW r \in Reloads, NEW n \in Instances, ProvisionFails(r, n)
    PROVE  IInv'
<1>1. Running(r)
  BY DEF ProvisionFails, Turn, Running
<1>2. UNCHANGED <<worlds, edits>> /\ faults' \in 0 .. MaxFaults
  BY OperatorAssumption DEF ProvisionFails, Fault, IInv, TypeOK
<1>3. bridges \subseteq bridges' /\ bridges' \subseteq Instances
  BY DEF ProvisionFails, IInv, TypeOK
<1>4. QED
  BY <1>1, <1>2, <1>3, HaltKeeps DEF ProvisionFails

(* ProvisionDone keeps it: nothing is to do any more. *)
LEMMA ProvisionDoneKeeps ==
    ASSUME IInv, NEW r \in Reloads, ProvisionDone(r) PROVE IInv'
<1> DEFINE c == [call[r] EXCEPT !.pc = "finish"]
<1>1. Running(r) /\ call[r].left = {} /\ call[r] \in Calls
  BY DEF ProvisionDone, Running, IInv, TypeOK
<1>2. UNCHANGED <<file, bridges, watch, born, put, unserved, worlds, edits, faults>>
  BY DEF ProvisionDone, hist, count
<1>3. Ages
  BY <1>2 DEF Ages, IInv, TypeOK
<1>4. /\ c \in Calls /\ c.pc = "finish" /\ c.state = call[r].state
      /\ c.spec = call[r].spec
  BY <1>1 DEF Calls
<1>5. Becomes(r, c) /\ call'[r] = c
  BY DEF ProvisionDone, Becomes, IInv, TypeOK
<1>6. CallOK(r)
  BY DEF IInv
<1> HIDE DEF c
<1>7. CopyOK(call[r].state)'
  BY <1>2, <1>4, <1>5, <1>6 DEF CallOK, CopyOK
<1>8. CallOK(r)'
  BY <1>1, <1>2, <1>4, <1>5, <1>6, <1>7 DEF CallOK, ToDo, Running
<1>9. QED
  BY <1>2, <1>3, <1>4, <1>5, <1>8, Stepped DEF IInv, TypeOK

(* FinishReload keeps it: what it saves is true, of the ANDs too. *)
LEMMA FinishKeeps ==
    ASSUME IInv, NEW r \in Reloads, FinishReload(r) PROVE IInv'
<1>1. Running(r) /\ ToDo(r) = {}
  BY DEF FinishReload, Running, ToDo
<1>2. UNCHANGED <<bridges, watch, born, put, unserved, worlds, edits, faults>>
  BY DEF FinishReload, hist, count
<1>3. Ages
  BY <1>2 DEF Ages, IInv, TypeOK
<1>4. call[r].state.world \notin unserved =>
        call[r].spec.ands \subseteq bridges \cap call[r].state.known
  BY <1>1, RunningHas DEF CallOK
<1>5. file' = Reloaded(r)
  BY DEF FinishReload
<1>6. CopyOK(file)'
  BY <1>1, <1>2, <1>4, <1>5, ReloadedHas, RunningHas DEF CopyOK
<1>7. file' \in States
  BY <1>1, <1>5, ReloadedHas
<1>8. QED
  BY <1>2, <1>3, <1>6, <1>7, OverIs, Stepped DEF FinishReload, Over, IInv, TypeOK

(* Crash keeps it. *)
LEMMA CrashKeeps == ASSUME IInv, NEW r \in Reloads, Crash(r) PROVE IInv'
<1>1. UNCHANGED <<file, bridges, watch, born, put, unserved, worlds, edits>>
  BY DEF Crash, Fault, hist
<1>2. faults' \in 0 .. MaxFaults
  BY OperatorAssumption DEF Crash, Fault, IInv, TypeOK
<1>3. Ages
  BY <1>1 DEF Ages, IInv, TypeOK
<1>4. QED
  BY <1>1, <1>2, <1>3, OverIs, Stepped DEF Crash, Over, IInv, TypeOK

-----------------------------------------------------------------------------
(* Every step keeps the invariant. *)
LEMMA Step == ASSUME IInv, [Next]_vars PROVE IInv'
<1>1. CASE \E s \in Offers : Up(s) \/ ImportBundle(s) \/ ImportWorld(s)
  BY <1>1, UpKeeps, ImportKeeps
<1>2. CASE Down \/ TeardownWorld
  BY <1>2, GoneKeeps DEF Down, TeardownWorld
<1>3. CASE \E v \in 0 .. 1 : UpdateSection(v) \/ UpdateRotationPolicy(v)
  BY <1>3, UpdateSectionKeeps, UpdateRotationPolicyKeeps
<1>4. CASE StartWatch \/ Iterate \/ StopWatch
  BY <1>4, WatchKeeps
<1>5. CASE \E r \in Reloads, s \in Offers : BeginReload(r, s)
  BY <1>5, BeginKeeps
<1>6. CASE \E r \in Reloads : Reload(r) \/ Crash(r)
  BY <1>6, ProvisionKeeps, ProvisionDoneKeeps, FinishKeeps, CrashKeeps DEF Reload
<1>7. CASE \E r \in Reloads, n \in Instances : ProvisionFails(r, n)
  BY <1>7, ProvisionFailsKeeps
<1>8. CASE UNCHANGED vars
  <2>1. Ages
    BY <1>8 DEF Ages, IInv, TypeOK, vars, hist, count
  <2>2. TypeOK'
    BY <1>8 DEF IInv, TypeOK, vars, hist, count
  <2>3. QED
    BY <1>8, <2>1, <2>2, Kept DEF vars
<1>9. QED
  BY <1>1, <1>2, <1>3, <1>4, <1>5, <1>6, <1>7, <1>8 DEF Next

(* It holds of every behaviour. *)
LEMMA Invariant == Spec => []IInv
BY Start, Step, PTL DEF Spec

(* Type correctness of the state file, its copies and the calls of reload. *)
THEOREM TypeCorrect == Spec => []TypeOK
<1>1. IInv => TypeOK
  BY DEF IInv
<1>2. QED
  BY <1>1, Invariant, PTL

(* A copy there is, is right. *)
LEMMA CopiesRight ==
    ASSUME IInv, NEW c \in Copies
    PROVE  c # NoWorld /\ CopyOK(c)
BY DEF IInv, CallOK, Copies

(* No reload, edit, import or late save of an old copy ever changes the    *)
(* immutable fields of a world (core/reload.py check_immutability).        *)
THEOREM ImmutabilityKept == Spec => []ImmutableKept
<1>1. IInv => ImmutableKept
  BY CopiesRight DEF ImmutableKept, CopyOK
<1>2. QED
  BY <1>1, Invariant, PTL

(* The PKI section of a persistent world is one an operator gave it at its *)
(* setup or by PUT /pki/rotation-policy.                                   *)
THEOREM PkiKept == Spec => []PersistentPkiKept
<1>1. IInv => PersistentPkiKept
  BY CopiesRight DEF PersistentPkiKept, CopyOK
<1>2. QED
  BY <1>1, Invariant, PTL

(* A reload that succeeds leaves the ANDs of its specification with        *)
(* bridges and on record, but in the worlds that are excepted.             *)
THEOREM SuccessIsServed == Spec => SuccessServed
<1> DEFINE Served(r) ==
      /\ call[r].pc = "finish" /\ file' = Reloaded(r) /\ call'[r].pc = "over"
      /\ call[r].state.world \notin unserved
      => call[r].spec.ands \subseteq bridges \cap file'.known
<1>1. IInv => \A r \in Reloads : Served(r)
  <2>1. SUFFICES ASSUME IInv, NEW r \in Reloads, call[r].pc = "finish",
                        file' = Reloaded(r), call[r].state.world \notin unserved
                 PROVE  call[r].spec.ands \subseteq bridges \cap file'.known
    OBVIOUS
  <2>2. Running(r) /\ ToDo(r) = {}
    BY <2>1 DEF Running, ToDo
  <2>3. CallOK(r) /\ Reloaded(r).known = call[r].state.known
    BY <2>1, <2>2, RunningHas, ReloadedHas
  <2>4. QED
    BY <2>1, <2>2, <2>3 DEF CallOK
<1>2. QED
  BY <1>1, Invariant, PTL DEF SuccessServed

-----------------------------------------------------------------------------
(* DriftDetectionController.                                               *)

Working == {"executing", "verifying", "failing"}

(* Every phase of ps comes at or after a drifted one. *)
AfterDrift(ps) == \A p \in ps : \E q \in drifted : q <= p

(* Where the healing is: it works on one phase at least, executed once it  *)
(* is verified, and only while dependents are looked at are there any.     *)
Stage ==
    /\ pc \in Working => cur # {}
    /\ pc \in {"verifying", "failing"} => cur \subseteq tried
    /\ pc \in {"checking", "healing"} => ~scanning
    /\ ~scanning => unscanned = {}

(* All that is done or to be done in the round comes after a drift. *)
Spreads == AfterDrift(tried) /\ AfterDrift(cur) /\ AfterDrift(unscanned)

(* No drifted phase is forgotten: it is tried, being tried or to be taken. *)
NoneForgotten ==
    /\ pc \in Working \cup {"healing", "scanning"} => drifted \subseteq tried \cup todo \cup cur
    /\ pc \in {"verifying", "failing", "healing", "scanning"} => drifted \subseteq tried \cup todo

(* What is healed is not looked at again as a dependent. *)
Apart ==
    /\ healed \subseteq tried
    /\ healed \cap unscanned = {}
    /\ cur \cap unscanned = {}

DriftInv == DriftTypeOK /\ Stage /\ Spreads /\ NoneForgotten /\ DriftedTried /\ Apart

-----------------------------------------------------------------------------
LEMMA FaultCounted == ASSUME DriftTypeOK, DriftFault PROVE driftFaults' \in 0 .. MaxDriftFaults
  BY DriftAssumption DEF DriftTypeOK, DriftFault

LEMMA AnswersCounted ==
    ASSUME DriftTypeOK, NEW p, NEW ok, Answers(p, ok) PROVE driftFaults' \in 0 .. MaxDriftFaults
  BY FaultCounted DEF Answers, DriftTypeOK

LEMMA InitInv == ASSUME DriftInit PROVE DriftInv
<1>2. breaks \in 0 .. MaxBreaks /\ driftFaults \in 0 .. MaxDriftFaults
  BY DriftAssumption DEF DriftInit
<1>3. DriftTypeOK
  BY <1>2 DEF DriftInit, DriftTypeOK
<1> QED
  BY <1>3 DEF DriftInit, DriftInv, Stage, Spreads, AfterDrift, NoneForgotten, DriftedTried, Apart, Working

(* Steps outside the healing. *)
LEMMA WorldKept == ASSUME DriftInv, NEW p \in Completed, Break(p) PROVE DriftInv'
<1>1. DriftTypeOK'
  BY DriftAssumption DEF DriftInv, DriftTypeOK, Break, round
<1>2. UNCHANGED <<pc, drifted, cur, healed, tried, unchecked, todo, unscanned, scanning>>
  BY DEF Break, round
<1> QED
  BY <1>1, <1>2 DEF DriftInv, Stage, Spreads, AfterDrift, NoneForgotten, DriftedTried, Apart, Working

LEMMA WakeKept == ASSUME DriftInv, Wake PROVE DriftInv'
  BY DEF DriftInv, Wake, DriftTypeOK, Stage, Spreads, AfterDrift, NoneForgotten, DriftedTried, Apart,
     Working

LEMMA CheckKept == ASSUME DriftInv, Check PROVE DriftInv'
<1>1. PICK p \in unchecked, ok \in BOOLEAN : Check!2!(p, ok)
  BY DEF Check
<1>2. p \in Completed /\ pc = "checking"
  BY DEF DriftInv, DriftTypeOK, Check
<1>3. driftFaults' \in 0 .. MaxDriftFaults
  BY <1>1, AnswersCounted DEF DriftInv
<1>5. /\ drifted \subseteq drifted'
      /\ drifted' \subseteq Completed
      /\ isDrifted' \subseteq Completed
  BY <1>1, <1>2 DEF DriftInv, DriftTypeOK
<1>6. DriftTypeOK'
  BY <1>1, <1>3, <1>5 DEF DriftInv, DriftTypeOK, Check
<1>7. UNCHANGED <<pc, cur, healed, tried, todo, unscanned, scanning>>
  BY DEF Check
<1> QED
  BY <1>2, <1>5, <1>6, <1>7 DEF DriftInv, Stage, Spreads, AfterDrift, NoneForgotten, DriftedTried,
     Apart, Working

LEMMA CheckedKept == ASSUME DriftInv, Checked PROVE DriftInv'
<1>1. DriftTypeOK'
  BY DEF DriftInv, DriftTypeOK, Checked
<1> QED
  BY <1>1 DEF DriftInv, Checked, Stage, Spreads, AfterDrift, NoneForgotten, DriftedTried, Apart, Working

LEMMA RecordKept == ASSUME DriftInv, RecordRound PROVE DriftInv'
<1>1. driftFaults' \in 0 .. MaxDriftFaults
  BY FaultCounted DEF RecordRound, DriftInv, DriftTypeOK
<1>2. DriftTypeOK'
  BY <1>1 DEF DriftInv, DriftTypeOK, RecordRound, round
<1> QED
  BY <1>2 DEF DriftInv, RecordRound, round, Stage, Spreads, AfterDrift, NoneForgotten, DriftedTried, Apart,
     Working

LEMMA RestartKept == ASSUME DriftInv, Restart PROVE DriftInv'
<1>1. driftFaults' \in 0 .. MaxDriftFaults
  BY FaultCounted DEF Restart, DriftInv
<1>2. DriftTypeOK'
  BY <1>1 DEF DriftInv, DriftTypeOK, Restart, round
<1> QED
  BY <1>2 DEF DriftInv, Restart, round, Stage, Spreads, AfterDrift, NoneForgotten, DriftedTried, Apart,
     Working

-----------------------------------------------------------------------------
(* Steps of the healing. *)
LEMMA TakeKept == ASSUME DriftInv, TakeDrifted PROVE DriftInv'
<1>1. PICK p \in todo : First(todo, p) /\ cur' = {p} /\ todo' = todo \ {p}
  BY DEF TakeDrifted
<1>2. p \in drifted /\ p \in Completed /\ p \in Nat
  BY DriftAssumption DEF DriftInv, DriftTypeOK
<1>3. /\ pc = "healing" /\ pc' = "executing"
      /\ UNCHANGED <<drifted, healed, tried, unscanned, scanning>>
  BY DEF TakeDrifted
<1>4. DriftTypeOK'
  BY <1>1, <1>2 DEF DriftInv, DriftTypeOK, TakeDrifted
<1>5. Stage' /\ Apart'
  BY <1>1, <1>3 DEF DriftInv, Stage, Apart, Working
<1>6. p <= p
  BY <1>2
<1>7. Spreads'
  BY <1>1, <1>2, <1>3, <1>6 DEF DriftInv, Spreads, AfterDrift
<1>8. NoneForgotten' /\ DriftedTried'
  BY <1>1, <1>3 DEF DriftInv, NoneForgotten, DriftedTried, Working
<1> QED BY <1>4, <1>5, <1>7, <1>8 DEF DriftInv

LEMMA TakenKept == ASSUME DriftInv, AllTaken PROVE DriftInv'
<1>1. DriftTypeOK'
  BY DEF DriftInv, DriftTypeOK, AllTaken, round
<1> QED
  BY <1>1 DEF DriftInv, AllTaken, round, Stage, Spreads, AfterDrift, NoneForgotten, DriftedTried,
     Apart, Working

LEMMA ExecuteKept == ASSUME DriftInv, ExecuteDrifted \/ ExecuteFails PROVE DriftInv'
<1>1. /\ pc = "executing" /\ pc' \in {"verifying", "failing"}
      /\ tried' = tried \cup cur
      /\ UNCHANGED <<drifted, cur, healed, todo, unscanned, scanning>>
  BY DEF ExecuteDrifted, ExecuteFails, round
<1>2. DriftTypeOK'
  <2>1. driftFaults' \in 0 .. MaxDriftFaults
    BY FaultCounted DEF ExecuteDrifted, ExecuteFails, DriftInv, DriftTypeOK
  <2>2. healthy' \subseteq Completed
    BY DEF ExecuteDrifted, ExecuteFails, DriftInv, DriftTypeOK
  <2>3. tried' \subseteq Completed
    BY <1>1 DEF DriftInv, DriftTypeOK
  <2>4. UNCHANGED <<isDrifted, current, shown, breaks, unchecked>>
    BY DEF ExecuteDrifted, ExecuteFails, round
  <2> QED BY <1>1, <2>1, <2>2, <2>3, <2>4 DEF DriftInv, DriftTypeOK
<1>3. Stage' /\ Apart'
  BY <1>1 DEF DriftInv, Stage, Apart, Working
<1>4. Spreads'
  BY <1>1 DEF DriftInv, Spreads, AfterDrift
<1>5. NoneForgotten' /\ DriftedTried'
  BY <1>1 DEF DriftInv, NoneForgotten, DriftedTried, Working
<1> QED BY <1>2, <1>3, <1>4, <1>5 DEF DriftInv

LEMMA HealedKept == ASSUME DriftInv, Healed PROVE DriftInv'
<1>1. /\ pc = "verifying" /\ pc' = "scanning"
      /\ cur # {} /\ cur \subseteq Completed /\ cur \subseteq tried
      /\ healed' = healed \cup cur
      /\ cur' = {} /\ scanning' = TRUE
      /\ UNCHANGED <<drifted, tried, todo>>
  BY DEF DriftInv, DriftTypeOK, Stage, Working, Healed
<1>2. unscanned' = unscanned \/ unscanned' = {q \in Completed \ healed' : \A p \in cur : p < q}
  BY DEF Healed
<1>3. DriftTypeOK'
  <2>2. unscanned' \subseteq Completed /\ healed' \subseteq Completed
    BY <1>1, <1>2 DEF DriftInv, DriftTypeOK
  <2> QED BY <1>1, <2>2 DEF DriftInv, DriftTypeOK, Healed
<1>4. healed' \cap unscanned' = {}
  BY <1>1, <1>2 DEF DriftInv, Apart
<1>5. Stage' /\ Apart'
  BY <1>1, <1>4 DEF DriftInv, Stage, Apart, Working
<1>6. AfterDrift(unscanned)'
  <2>1. CASE unscanned' = unscanned
    BY <1>1, <2>1 DEF DriftInv, Spreads, AfterDrift
  <2>2. CASE unscanned' = {q \in Completed \ healed' : \A p \in cur : p < q}
    <3>1. PICK p \in cur : TRUE
      BY <1>1
    <3>2. PICK d \in drifted : d <= p
      BY <3>1 DEF DriftInv, Spreads, AfterDrift
    <3>3. p \in Nat /\ d \in Nat
      BY <1>1, <3>1, <3>2, DriftAssumption DEF DriftInv, DriftTypeOK
    <3>4. ASSUME NEW q \in unscanned' PROVE d <= q
      <4>1. q \in Nat /\ p < q
        BY <2>2, <3>1, DriftAssumption
      <4> QED BY <3>2, <3>3, <4>1
    <3> QED BY <1>1, <3>4 DEF AfterDrift
  <2> QED BY <1>2, <2>1, <2>2
<1>7. Spreads'
  BY <1>1, <1>6 DEF DriftInv, Spreads, AfterDrift
<1>8. NoneForgotten' /\ DriftedTried'
  BY <1>1 DEF DriftInv, NoneForgotten, DriftedTried, Working
<1> QED BY <1>3, <1>5, <1>7, <1>8 DEF DriftInv

LEMMA NotHealedKept == ASSUME DriftInv, NotHealed PROVE DriftInv'
<1>1. /\ pc = "verifying" /\ pc' = "failing"
      /\ UNCHANGED <<drifted, cur, healed, tried, todo, unscanned, scanning>>
  BY DEF NotHealed, round
<1>2. DriftTypeOK'
  <2>1. driftFaults' \in 0 .. MaxDriftFaults
    BY FaultCounted DEF NotHealed, DriftInv, DriftTypeOK
  <2> QED BY <1>1, <2>1 DEF DriftInv, DriftTypeOK, NotHealed, round
<1> QED
  BY <1>1, <1>2 DEF DriftInv, Stage, Spreads, AfterDrift, NoneForgotten, DriftedTried, Apart, Working

LEMMA FailKept == ASSUME DriftInv, Fail \/ Abandon PROVE DriftInv'
<1>1. /\ pc = "failing" /\ cur # {}
      /\ cur' = {} \/ cur' = cur
      /\ UNCHANGED <<drifted, healed, tried, todo, unscanned, scanning>>
  BY DEF Fail, Abandon, round, DriftInv, Stage, Working
<1>2. \/ pc' = "asleep"
      \/ pc' = "scanning" /\ scanning
      \/ pc' = "healing" /\ ~scanning
  BY DEF Fail, Abandon, DriftInv, DriftTypeOK
<1>3. DriftTypeOK'
  <2>1. driftFaults' \in 0 .. MaxDriftFaults
    BY FaultCounted DEF Fail, Abandon, DriftInv, DriftTypeOK
  <2>3. shown' \subseteq Completed /\ cur' \subseteq Completed
    BY <1>1 DEF Fail, Abandon, DriftInv, DriftTypeOK
  <2> QED BY <1>1, <1>2, <2>1, <2>3 DEF DriftInv, DriftTypeOK, Fail, Abandon, round
<1> QED
  BY <1>1, <1>2, <1>3 DEF DriftInv, Stage, Spreads, AfterDrift, NoneForgotten, DriftedTried, Apart,
     Working

LEMMA ScanKept == ASSUME DriftInv, Scan PROVE DriftInv'
<1>1. PICK p \in unscanned, ok \in BOOLEAN : Scan!2!(p, ok)
  BY DEF Scan
<1>2. /\ pc = "scanning" /\ scanning
      /\ p \in Completed
      /\ unscanned' = unscanned \ {p}
      /\ \/ cur' = cur /\ pc' = pc
         \/ cur' = {p} /\ pc' = "executing"
      /\ UNCHANGED <<drifted, healed, tried, todo, scanning>>
  BY <1>1 DEF Scan, DriftInv, DriftTypeOK, Stage
<1>3. DriftTypeOK'
  <2>1. driftFaults' \in 0 .. MaxDriftFaults
    BY <1>1, AnswersCounted DEF DriftInv
  <2> QED BY <1>2, <2>1 DEF DriftInv, DriftTypeOK, Scan
<1>4. Stage' /\ Apart'
  BY <1>2 DEF DriftInv, Stage, Apart, Working
<1>5. Spreads'
  BY <1>2 DEF DriftInv, Spreads, AfterDrift
<1>6. NoneForgotten' /\ DriftedTried'
  BY <1>2 DEF DriftInv, NoneForgotten, DriftedTried, Working
<1> QED BY <1>3, <1>4, <1>5, <1>6 DEF DriftInv

LEMMA ScannedKept == ASSUME DriftInv, Scanned PROVE DriftInv'
<1>1. DriftTypeOK'
  BY DEF DriftInv, DriftTypeOK, Scanned
<1> QED
  BY <1>1 DEF DriftInv, Scanned, Stage, Spreads, AfterDrift, NoneForgotten, DriftedTried, Apart, Working

-----------------------------------------------------------------------------
THEOREM DriftInductive == DriftSpec => []DriftInv
<1>1. ASSUME DriftInv, [DriftNext]_driftVars PROVE DriftInv'
  <2>1. CASE Loop
    BY <1>1, <2>1, WakeKept, CheckKept, CheckedKept, TakeKept, TakenKept, ExecuteKept, HealedKept,
       NotHealedKept, FailKept, ScanKept, ScannedKept, RecordKept DEF Loop
  <2>2. CASE Abandon
    BY <1>1, <2>2, FailKept
  <2>3. CASE Restart
    BY <1>1, <2>3, RestartKept
  <2>4. CASE \E p \in Completed : Break(p)
    BY <1>1, <2>4, WorldKept
  <2>5. CASE UNCHANGED driftVars
    BY <1>1, <2>5 DEF driftVars, round, DriftInv, DriftTypeOK, Stage, Spreads, AfterDrift, NoneForgotten,
       DriftedTried, Apart, Working
  <2> QED BY <1>1, <2>1, <2>2, <2>3, <2>4, <2>5 DEF DriftNext
<1>2. DriftInit => DriftInv
  BY InitInv
<1> QED BY <1>1, <1>2, PTL DEF DriftSpec

(* Every variable keeps its type; in particular only drifted phases are    *)
(* ever on the list of those to be healed.                                 *)
THEOREM DriftTypeCorrect == DriftSpec => []DriftTypeOK
<1>1. DriftInv => DriftTypeOK
  BY DEF DriftInv
<1> QED BY <1>1, DriftInductive, PTL

(* A round that reaches its end has attempted every drifted phase. *)
THEOREM NoneLeftOut == DriftSpec => []DriftedTried
<1>1. DriftInv => DriftedTried
  BY DEF DriftInv
<1> QED BY <1>1, DriftInductive, PTL

(* Healing never reaches back: what a round executes comes at or after a   *)
(* phase that had drifted.                                                 *)
THEOREM SpreadsForward == DriftSpec => []HealsLaterOnly
<1>1. DriftInv => HealsLaterOnly
  BY DEF DriftInv, Spreads, AfterDrift, HealsLaterOnly
<1> QED BY <1>1, DriftInductive, PTL

(* What was healed in a round is not healed again as a dependent. *)
THEOREM DependentsOnce == DriftSpec => []HealedOnce
<1>1. DriftInv => HealedOnce
  BY DEF DriftInv, Apart, HealedOnce
<1> QED BY <1>1, DriftInductive, PTL

-----------------------------------------------------------------------------
(* ConsumerSupervisor.                                                     *)

(* What the task of a worker and its reported state have to do with each   *)
(* other, and which tasks stop_all has dealt with.                         *)
Tasks ==
    /\ \A n \in Workers : task[n] = "ended" => state[n] \in {"stopped", "failed"}
    /\ \A n \in Workers : task[n] = "backoff" => state[n] = "failed"
    /\ \A n \in Workers : task[n] = "none" => state[n] \in {"unknown", "registered", "disabled"}
    /\ \A n \in Workers : state[n] = "disabled" => n \notin consumers
    /\ \A n \in cancelled : task[n] \in {"inside", "backoff"}
    /\ \A n \in unstopped : task[n] \in {"inside", "backoff"} /\ n \notin cancelled

Main ==
    /\ main = "booting" => \A n \in Workers : task[n] = "none"
    /\ main \in {"booting", "serving"} => /\ cancelled = {}
                                         /\ unstopped = {}
                                         /\ Ended = {}
    /\ main = "stopped" => \A n \in Workers : task[n] \in {"none", "ended"}

(* The inductive invariant. *)
SupervisedInv == SupervisorTypeOK /\ Tasks /\ Main

LEMMA DoubledType ==
    ASSUME NEW d \in BackoffBase .. BackoffMax
    PROVE  Doubled(d) \in BackoffBase .. BackoffMax
BY SupervisorAssumption DEF Doubled

LEMMA InitSupervised == SupervisorInit => SupervisedInv
BY SupervisorAssumption DEF SupervisorInit, SupervisedInv, SupervisorTypeOK, Tasks, Main, Ended, WorkerState

LEMMA SupervisedKept == SupervisedInv /\ [SupervisorNext]_supervisorVars => SupervisedInv'
<1> SUFFICES ASSUME SupervisedInv, [SupervisorNext]_supervisorVars
             PROVE  SupervisedInv'
  OBVIOUS
<1> USE DEF SupervisedInv, SupervisorTypeOK
<1>1. ASSUME NEW n \in Workers, Register(n) \/ RegisterDisabled(n)
      PROVE  SupervisedInv'
  <2>1. task[n] = "none"
    BY <1>1 DEF Register, RegisterDisabled, Registering, Main, Started
  <2>2. SupervisorTypeOK'
    BY <1>1, SupervisorAssumption DEF Register, RegisterDisabled, WorkerState
  <2> QED
    BY <1>1, <2>1, <2>2 DEF Register, RegisterDisabled, Tasks, Main, Ended
<1>2. CASE StartAll
  <2>1. SupervisorTypeOK'
    BY <1>2, SupervisorAssumption DEF StartAll, WorkerState
  <2> QED
    BY <1>2, <2>1 DEF StartAll, Tasks, Main, Ended
<1>3. ASSUME NEW n \in Workers, CrashWorker(n)
      PROVE  SupervisedInv'
  <2>1. SupervisorTypeOK'
    BY <1>3, SupervisorAssumption DEF CrashWorker, WorkerState
  <2> QED
    BY <1>3, <2>1 DEF CrashWorker, Tasks, Main, Ended
<1>4. ASSUME NEW n \in Workers, RestartWorker(n)
      PROVE  SupervisedInv'
  <2>1. SupervisorTypeOK'
    BY <1>4, DoubledType DEF RestartWorker, WorkerState
  <2> QED
    BY <1>4, <2>1 DEF RestartWorker, Tasks, Main, Ended
<1>5. CASE Interrupt
  BY <1>5 DEF Interrupt, Tasks, Main, Started, Ended
<1>6. ASSUME NEW n \in Workers, StopNext(n)
      PROVE  SupervisedInv'
  BY <1>6 DEF StopNext, Tasks, Main, Ended
<1>7. ASSUME NEW n \in Workers, CancelArrives(n)
      PROVE  SupervisedInv'
  <2>1. SupervisorTypeOK'
    BY <1>7, SupervisorAssumption DEF CancelArrives, WorkerState
  <2> QED
    BY <1>7, <2>1 DEF CancelArrives, Tasks, Main, Ended
<1>8. CASE Stopped
  BY <1>8 DEF Stopped, Awaited, Started, Ended, Tasks, Main
<1>9. CASE UNCHANGED supervisorVars
  BY <1>9 DEF supervisorVars, Tasks, Main, Ended
<1> QED
  BY <1>1, <1>2, <1>3, <1>4, <1>5, <1>6, <1>7, <1>8, <1>9 DEF SupervisorNext, Progress

-----------------------------------------------------------------------------
(* The invariant the others are read off. *)
THEOREM Supervised == SupervisorSpec => []SupervisedInv
BY InitSupervised, SupervisedKept, PTL DEF SupervisorSpec

(* Every variable of the supervisor keeps its type; the delay is never     *)
(* below _BACKOFF_BASE nor above _BACKOFF_MAX.                             *)
THEOREM SupervisorTypeCorrect == SupervisorSpec => []SupervisorTypeOK
<1>1. SupervisedInv => SupervisorTypeOK
  BY DEF SupervisedInv
<1> QED
  BY <1>1, Supervised, PTL

(* get_structured_status never meets an ended task that is said to run. *)
THEOREM StatusCanBeRead == SupervisorSpec => []StatusReadable
<1>1. SupervisedInv => StatusReadable
  BY DEF SupervisedInv, Tasks, StatusReadable
<1> QED
  BY <1>1, Supervised, PTL

(* What is reported as running runs, and what is disabled is not started. *)
THEOREM StatusIsTrue == SupervisorSpec => []StatusTrue
<1>1. SupervisedInv => StatusTrue
  BY DEF SupervisedInv, SupervisorTypeOK, Tasks, StatusTrue
<1> QED
  BY <1>1, Supervised, PTL

(* When stop_all returns all tasks have ended. *)
THEOREM NoneAliveAtStop == SupervisorSpec => []AllEndedAtStop
<1>1. SupervisedInv => AllEndedAtStop
  BY DEF SupervisedInv, Main, AllEndedAtStop, Started, Ended
<1> QED
  BY <1>1, Supervised, PTL
=============================================================================
