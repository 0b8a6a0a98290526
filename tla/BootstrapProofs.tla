-------------------------- MODULE BootstrapProofs --------------------------
(***************************************************************************)
(* Theorems about Bootstrap for every set of Docker resources, imported    *)
(* bundles, modes and --phase values, and any number of faults and downs.  *)
(***************************************************************************)
EXTENDS Bootstrap, TLAPS

(* Fields that are not the output of any phase. *)
Extras == {"world_spec", "ca_cert_pem", "step_ca_container_id", "pki_bootstrapped",
           "bootstrap_admin_password", "keycloak_platform_container_id"}

(* The outputs in S are those of an initial segment of the phases. *)
LadderIn(S) == \A p, q \in Phases : q <= p /\ Outputs(p) \subseteq S => Outputs(q) \subseteq S

(* No flag without its outputs. *)
Backed(s) == \A p \in s.done : Outputs(p) \subseteq s.set

PkiFlagged(S) == "pki_output" \in S => "pki_bootstrapped" \in S

Good(s) == LadderIn(s.set) /\ Backed(s) /\ PkiFlagged(s.set)

CaKnown(s) == "step_ca_container_id" \in s.set => 3 \in resources

Before(p, S) == \A q \in Phases : q < p => Outputs(q) \subseteq S

(* The process is ahead of the file only while it has not saved the output *)
(* of the phase it is at, and the phases behind it are all there.          *)
InRun ==
    Running => /\ Good(mem) /\ CaKnown(mem)
               /\ disk.set \subseteq mem.set
               /\ disk.done \subseteq mem.done
               /\ mem.set \subseteq disk.set \cup (IF pc = "healthcheck" THEN Recorded(at) ELSE {})
               /\ Before(at, mem.set)

AtPhase ==
    /\ pc \in {"launch", "record", "provision", "healthcheck"} => at \in Phases
    /\ pc = "launch" => at \in Launches
    /\ pc = "record" => at \in {3, 4} /\ at \in resources
    /\ pc = "healthcheck" => Outputs(at) \subseteq mem.set
    /\ pc = "finished" => at > upTo

(* The inductive invariant. *)
IInv == TypeOK /\ Good(disk) /\ CaKnown(disk) /\ InRun /\ AtPhase

-----------------------------------------------------------------------------
(* Every phase has outputs of its own, and none of them is an extra. *)
LEMMA OutputsFacts ==
    /\ \A p \in 0 .. 9 : Outputs(p) \subseteq Fields /\ Outputs(p) # {}
    /\ \A p \in 0 .. 9, x \in Extras : x \notin Outputs(p)
    /\ \A p, q \in Phases : p # q => Outputs(p) \cap Outputs(q) = {}
    /\ Outputs(2) = Outputs(1)
    /\ \A p \in Phases : "pki_output" \in Outputs(p) => p = 3
BY DEF Outputs, Fields, Extras, Phases

LEMMA RecordedFacts ==
    ASSUME NEW p \in Phases
    PROVE  /\ Outputs(p) \subseteq Recorded(p)
           /\ Recorded(p) \subseteq Fields
           /\ Recorded(p) \subseteq Outputs(p) \cup {"pki_bootstrapped"}
           /\ "pki_output" \in Recorded(p) => "pki_bootstrapped" \in Recorded(p)
           /\ "step_ca_container_id" \notin Recorded(p)
           /\ \A q \in Phases : q # p => Outputs(q) \cap Recorded(p) = {}
<1>1. Recorded(p) = Outputs(p) \/ (p = 3 /\ Recorded(p) = Outputs(3) \cup {"pki_bootstrapped"})
  BY DEF Recorded
<1>2. \A q \in Phases : /\ q \in 0 .. 9
                         /\ "pki_bootstrapped" \notin Outputs(q)
                         /\ "step_ca_container_id" \notin Outputs(q)
  <2>1. \A q \in Phases : q \in 0 .. 9
    BY DEF Phases
  <2>2. "pki_bootstrapped" \in Extras /\ "step_ca_container_id" \in Extras
    BY DEF Extras
  <2>3. \A q \in 0 .. 9, x \in Extras : x \notin Outputs(q)
    BY OutputsFacts
  <2> QED
    BY <2>1, <2>2, <2>3
<1>3. "pki_bootstrapped" \in Fields
  BY DEF Fields
<1>4. "pki_output" \in Recorded(p) => "pki_bootstrapped" \in Recorded(p)
  BY OutputsFacts DEF Recorded
<1>5. \A q \in Phases : q # p => Outputs(q) \cap Recorded(p) = {}
  BY <1>1, <1>2, OutputsFacts
<1>6. Recorded(p) \subseteq Fields /\ "step_ca_container_id" \notin Recorded(p)
  BY <1>1, <1>2, <1>3, OutputsFacts
<1> QED
  BY <1>1, <1>4, <1>5, <1>6

LEMMA MarksFacts ==
    ASSUME NEW p \in Phases
    PROVE  /\ Marks(p) \subseteq 0 .. 9
           /\ p \in Marks(p)
           /\ \A m \in Marks(p) : Outputs(m) = Outputs(p)
           /\ p \in {3, 4, 5} => Marks(p) = {p}
BY OutputsFacts DEF Marks, Phases

LEMMA NextPhaseFacts ==
    ASSUME NEW p \in Phases
    PROVE  /\ NextPhase(p) \in Phases \cup {10}
           /\ \A q \in Phases : q < NextPhase(p) => q <= p
BY DEF NextPhase, Phases

(* The prerequisites of a phase are among the outputs of earlier ones. *)
LEMMA RequiresFacts ==
    ASSUME NEW p \in Phases, NEW S, Before(p, S), PkiFlagged(S)
    PROVE  Requires(p) \subseteq S
<1>1. \A q \in {1, 3, 4, 5, 6, 7, 8} : q < p => Outputs(q) \subseteq S
  BY DEF Before, Phases
<1> QED
  BY <1>1 DEF Requires, Outputs, PkiFlagged, Phases

-----------------------------------------------------------------------------
(* What Put, Flag and Normalised do to a good state. *)

LEMMA StateParts ==
    ASSUME NEW s \in States, NEW fields \in SUBSET Fields, NEW ps \in SUBSET (0 .. 9)
    PROVE  /\ s.set \subseteq Fields /\ s.done \subseteq 0 .. 9
           /\ Put(s, fields) \in States
           /\ Put(s, fields).set = s.set \cup fields
           /\ Put(s, fields).done = s.done
           /\ Flag(s, ps) \in States
           /\ Flag(s, ps).set = s.set
           /\ Flag(s, ps).done = s.done \cup ps
BY DEF States, Put, Flag

LEMMA NormalisedGood ==
    ASSUME NEW s \in States, Good(s)
    PROVE  Normalised(s) = s
<1>1. {p \in s.done : Outputs(p) \subseteq s.set} = s.done
  BY DEF Good, Backed
<1> QED
  BY <1>1 DEF Normalised, States

LEMMA PutRecorded ==
    ASSUME NEW s \in States, Good(s), NEW p \in Phases, Before(p, s.set)
    PROVE  Good(Put(s, Recorded(p)))
<1> DEFINE t == Put(s, Recorded(p))
<1>1. t.set = s.set \cup Recorded(p) /\ t.done = s.done
  BY StateParts, RecordedFacts
<1>2. ASSUME NEW a \in Phases, NEW b \in Phases, b <= a, Outputs(a) \subseteq t.set
      PROVE  Outputs(b) \subseteq t.set
  <2>1. CASE b = p
    BY <2>1, <1>1, RecordedFacts
  <2>2. CASE b < p
    BY <2>2, <1>1 DEF Before
  <2>3. CASE p < b
    <3>1. a # p /\ a \in Int /\ b \in Int /\ p \in Int
      BY <2>3, <1>2 DEF Phases
    <3>2. Outputs(a) \subseteq s.set
      BY <3>1, <1>1, <1>2, RecordedFacts
    <3> QED
      BY <3>2, <1>1, <1>2 DEF Good, LadderIn
  <2> QED
    BY <2>1, <2>2, <2>3 DEF Phases
<1>3. Backed(t)
  BY <1>1 DEF Good, Backed
<1>4. PkiFlagged(t.set)
  BY <1>1, RecordedFacts DEF Good, PkiFlagged
<1> QED
  BY <1>2, <1>3, <1>4 DEF Good, LadderIn

LEMMA PutExtras ==
    ASSUME NEW s \in States, Good(s), NEW fields \in SUBSET Extras
    PROVE  Good(Put(s, fields))
<1> DEFINE t == Put(s, fields)
<1>1. t.set = s.set \cup fields /\ t.done = s.done
  BY StateParts DEF Extras, Fields
<1>2. \A p \in Phases : Outputs(p) \subseteq t.set => Outputs(p) \subseteq s.set
  <2>1. \A p \in Phases : p \in 0 .. 9
    BY DEF Phases
  <2> QED
    BY <2>1, <1>1, OutputsFacts
<1>3. LadderIn(t.set)
  BY <1>1, <1>2 DEF Good, LadderIn
<1>4. Backed(t)
  BY <1>1 DEF Good, Backed
<1>5. PkiFlagged(t.set)
  BY <1>1 DEF Good, PkiFlagged, Extras
<1> QED
  BY <1>3, <1>4, <1>5 DEF Good

LEMMA FlagMarks ==
    ASSUME NEW s \in States, Good(s), NEW p \in Phases, Outputs(p) \subseteq s.set
    PROVE  Good(Flag(s, Marks(p)))
<1> DEFINE t == Flag(s, Marks(p))
<1>1. t.set = s.set /\ t.done = s.done \cup Marks(p)
  BY StateParts, MarksFacts
<1>2. Backed(t)
  BY <1>1, MarksFacts DEF Good, Backed
<1> QED
  BY <1>1, <1>2 DEF Good

LEMMA StatesClosed ==
    /\ Blank \in States
    /\ \A s \in States : Normalised(s) \in States
    /\ \A n \in Phases : Imported(n) \in States
<1>1. Blank \in States
  BY DEF Blank, States
<1>2. \A s \in States : Normalised(s) \in States
  BY DEF States, Normalised
<1>3. ASSUME NEW n \in Phases
      PROVE  Imported(n) \in States
  <2>1. \A p \in Upto(n) : p \in 0 .. 9 /\ Marks(p) \subseteq 0 .. 9
    BY MarksFacts DEF Upto, Phases
  <2>2. UNION {Outputs(p) : p \in Upto(n)} \subseteq Fields
    BY <2>1, OutputsFacts
  <2>3. UNION {Marks(p) : p \in Upto(n)} \subseteq 0 .. 9
    BY <2>1
  <2>4. {"world_spec", "ca_cert_pem", "pki_bootstrapped"} \subseteq Fields
    BY DEF Fields
  <2> QED
    BY <2>2, <2>3, <2>4 DEF Imported, States
<1> QED
  BY <1>1, <1>2, <1>3

LEMMA BlankGood == Good(Blank)
<1>1. \A p \in Phases : ~(Outputs(p) \subseteq {})
  BY OutputsFacts DEF Phases
<1> QED
  BY <1>1 DEF Blank, Good, LadderIn, Backed, PkiFlagged

(* An imported state has the outputs of the phases of its bundle only. *)
LEMMA ImportedLevel ==
    ASSUME NEW n \in Phases
    PROVE  \A p \in Phases : Outputs(p) \subseteq Imported(n).set <=> p \in Upto(n)
<1> DEFINE S == Imported(n).set
<1>1. S = {"world_spec", "ca_cert_pem", "pki_bootstrapped"}
              \cup UNION {Outputs(p) : p \in Upto(n)}
  BY DEF Imported
<1>2. ASSUME NEW p \in Phases, Outputs(p) \subseteq S
      PROVE  p <= n
  <2>1. PICK x \in Outputs(p) : TRUE
    BY OutputsFacts DEF Phases
  <2>2. p \in 0 .. 9 /\ {"world_spec", "ca_cert_pem", "pki_bootstrapped"} \subseteq Extras
    BY DEF Phases, Extras
  <2>3. x \notin {"world_spec", "ca_cert_pem", "pki_bootstrapped"}
    BY <2>1, <2>2, OutputsFacts
  <2>4. PICK q \in Upto(n) : x \in Outputs(q)
    BY <2>1, <2>3, <1>1, <1>2
  <2>5. q \in Phases /\ q <= n
    BY <2>4 DEF Upto
  <2> QED
    BY <2>1, <2>4, <2>5, OutputsFacts
<1>3. \A p \in Upto(n) : Outputs(p) \subseteq S
  BY <1>1
<1> QED
  BY <1>2, <1>3 DEF Upto

LEMMA ImportedGood ==
    ASSUME NEW n \in Phases
    PROVE  Good(Imported(n)) /\ "step_ca_container_id" \notin Imported(n).set
<1> DEFINE S == Imported(n).set
<1>1. S = {"world_spec", "ca_cert_pem", "pki_bootstrapped"}
              \cup UNION {Outputs(p) : p \in Upto(n)}
  BY DEF Imported
<1>2. Imported(n).done = UNION {Marks(p) : p \in Upto(n)}
  BY DEF Imported
<1>3. \A p \in Phases : Outputs(p) \subseteq S <=> p \in Upto(n)
  BY ImportedLevel
<1>4. LadderIn(S)
  <2> SUFFICES ASSUME NEW p \in Phases, NEW q \in Phases, q <= p, Outputs(p) \subseteq S
               PROVE  Outputs(q) \subseteq S
    BY DEF LadderIn
  <2>1. q \in Upto(n)
    BY <1>3 DEF Upto, Phases
  <2> QED
    BY <2>1, <1>1
<1>5. Backed(Imported(n))
  <2> SUFFICES ASSUME NEW m \in Imported(n).done
               PROVE  Outputs(m) \subseteq S
    BY DEF Backed
  <2>1. PICK p \in Upto(n) : m \in Marks(p)
    BY <1>2
  <2>2. Outputs(m) = Outputs(p)
    BY <2>1, MarksFacts DEF Upto
  <2> QED
    BY <2>1, <2>2, <1>1
<1>6. PkiFlagged(S)
  BY <1>1 DEF PkiFlagged
<1>7. "step_ca_container_id" \notin S
  <2>1. \A p \in Upto(n) : p \in 0 .. 9
    BY DEF Upto, Phases
  <2>2. "step_ca_container_id" \in Extras
    BY DEF Extras
  <2> QED
    BY <2>1, <2>2, <1>1, OutputsFacts
<1> QED
  BY <1>4, <1>5, <1>6, <1>7 DEF Good

LEMMA InitIInv == Init => IInv
<1> SUFFICES ASSUME Init PROVE IInv
  OBVIOUS
<1>1. disk \in States /\ Good(disk) /\ CaKnown(disk)
  <2>1. CASE disk = Blank
    BY <2>1, BlankGood, StatesClosed DEF CaKnown, Blank
  <2>2. CASE \E n \in ImportLevels : disk = Imported(n)
    BY <2>2, BootstrapAssumption, ImportedGood, StatesClosed DEF CaKnown
  <2> QED
    BY <2>1, <2>2 DEF Init
<1>2. TypeOK
  <2>1. mem \in States
    BY StatesClosed DEF Init
  <2>2. 0 \in 0 .. MaxFaults /\ 0 \in 0 .. MaxDowns /\ 0 \in Phases
    BY BootstrapAssumption DEF Phases
  <2>3. resources \subseteq Launches /\ upTo \in 0 .. 9 /\ apps \in BOOLEAN
    BY BootstrapAssumption DEF Init
  <2> QED
    BY <1>1, <2>1, <2>2, <2>3 DEF Init, TypeOK
<1> QED
  BY <1>1, <1>2 DEF Init, IInv, InRun, AtPhase, Running

-----------------------------------------------------------------------------
(* The steps of Next, one lemma each; first the three ways to leave a run. *)

LEMMA FailStep ==
    ASSUME IInv, Running, Fail(mem), TypeOK', 3 \in resources => 3 \in resources'
    PROVE  IInv'
<1>1. disk' = mem /\ mem' = Blank /\ pc' = "down"
  BY NormalisedGood DEF Fail, IInv, InRun, TypeOK
<1> QED
  BY <1>1 DEF IInv, InRun, AtPhase, CaKnown, Running, Good, LadderIn, Backed, PkiFlagged

LEMMA StopStep ==
    ASSUME IInv, TypeOK', pc' = "down", disk' = disk, 3 \in resources => 3 \in resources'
    PROVE  IInv'
BY DEF IInv, InRun, AtPhase, CaKnown, Running, Good, LadderIn, Backed, PkiFlagged

(* A run whose state is, and was just made, the content of the file. *)
LEMMA SavedStep ==
    ASSUME TypeOK', disk' = mem', Good(mem'), Before(at', mem'.set),
           "step_ca_container_id" \in mem'.set => 3 \in resources',
           pc' \in {"decide", "provision"}, pc' = "provision" => at' \in Phases
    PROVE  IInv'
BY DEF IInv, InRun, AtPhase, CaKnown, Running, Good, LadderIn, Backed, PkiFlagged, Before

LEMMA UpStep ==
    ASSUME IInv, NEW n \in UpToChoices, NEW m \in Modes, Up(n, m)
    PROVE  IInv'
<1>1. Normalised(disk) = disk /\ disk \in States
  BY NormalisedGood DEF IInv, TypeOK
<1>2. disk' = mem' /\ Good(mem') /\ mem' \in States
      /\ ("step_ca_container_id" \in mem'.set => "step_ca_container_id" \in disk.set)
  <2>1. CASE "world_spec" \in disk.set
    BY <2>1, <1>1 DEF Up, IInv
  <2>2. CASE "world_spec" \notin disk.set
    <3> DEFINE t == Put(disk, {"world_spec"})
    <3>1. t \in States /\ t.set = disk.set \cup {"world_spec"}
      BY <1>1, StateParts DEF Fields
    <3>2. Good(t)
      BY <1>1, PutExtras DEF IInv, Extras
    <3>3. Normalised(t) = t
      BY <3>1, <3>2, NormalisedGood
    <3>4. disk' = t /\ mem' = t
      BY <3>3, <2>2, <1>1 DEF Up, Save
    <3> QED
      BY <3>1, <3>2, <3>4
  <2> QED
    BY <2>1, <2>2
<1>3. TypeOK'
  BY <1>2, BootstrapAssumption DEF Up, IInv, TypeOK, Phases
<1>4. Before(at', mem'.set)
  BY DEF Up, Before, Phases
<1> QED
  BY <1>2, <1>3, <1>4, SavedStep DEF Up, IInv, CaKnown

LEMMA SkipPhaseStep ==
    ASSUME IInv, SkipPhase
    PROVE  IInv'
<1>1. at \in Phases /\ mem \in States /\ Good(mem) /\ Before(at, mem.set)
  BY DEF SkipPhase, IInv, InRun, Running, TypeOK
<1>2. Outputs(at) \subseteq mem.set
  BY <1>1 DEF SkipPhase, Skips, Good, Backed
<1>3. mem' = Flag(mem, Marks(at)) /\ mem' \in States /\ Good(mem')
      /\ mem'.set = mem.set /\ mem'.done = mem.done \cup Marks(at)
  BY <1>1, <1>2, StateParts, MarksFacts, FlagMarks DEF SkipPhase
<1>4. at' \in Phases \cup {10} /\ Before(at', mem'.set)
  BY <1>1, <1>2, <1>3, NextPhaseFacts DEF SkipPhase, Before, Phases
<1>5. TypeOK'
  BY <1>3, <1>4 DEF SkipPhase, IInv, TypeOK
<1>6. InRun'
  BY <1>3, <1>4 DEF SkipPhase, IInv, InRun, Running, CaKnown, Before, Good, LadderIn, Backed, PkiFlagged
<1> QED
  BY <1>5, <1>6 DEF SkipPhase, IInv, AtPhase, CaKnown, Good, LadderIn, Backed, PkiFlagged

LEMMA BeginPhaseStep ==
    ASSUME IInv, BeginPhase
    PROVE  IInv'
<1>1. at \in Phases /\ mem \in States /\ Good(mem) /\ Before(at, mem.set) /\ Running
      /\ disk.set = mem.set /\ CaKnown(mem)
  BY DEF BeginPhase, IInv, InRun, Running, TypeOK
<1>2. CASE ~(Requires(at) \subseteq mem.set)
  <2>1. TypeOK'
    BY <1>2, StatesClosed DEF BeginPhase, IInv, TypeOK
  <2> QED
    BY <1>2, <2>1, StopStep DEF BeginPhase
<1>3. CASE Requires(at) \subseteq mem.set /\ mock /\ at >= 4
  <2> DEFINE r == Put(mem, Recorded(at))
             t == Flag(r, Marks(at))
  <2>1. r \in States /\ Good(r) /\ r.set = mem.set \cup Recorded(at)
    BY <1>1, StateParts, RecordedFacts, PutRecorded
  <2>2. Outputs(at) \subseteq r.set
    BY <1>1, <2>1, RecordedFacts
  <2>3. t \in States /\ Good(t) /\ t.set = r.set
    BY <1>1, <2>1, <2>2, StateParts, MarksFacts, FlagMarks
  <2>4. disk' = t /\ mem' = t /\ at' = NextPhase(at) /\ pc' = "decide" /\ active' = active
    BY <1>3, <2>3, NormalisedGood DEF BeginPhase, Save
  <2>5. at' \in Phases \cup {10} /\ Before(at', t.set)
    BY <1>1, <2>1, <2>2, <2>3, <2>4, NextPhaseFacts DEF Before, Phases
  <2>6. TypeOK'
    BY <2>3, <2>4, <2>5 DEF BeginPhase, IInv, TypeOK
  <2>7. "step_ca_container_id" \in t.set => 3 \in resources'
    BY <1>1, <2>1, <2>3, RecordedFacts DEF BeginPhase, CaKnown
  <2> QED
    BY <2>3, <2>4, <2>5, <2>6, <2>7, SavedStep
<1>4. CASE /\ Requires(at) \subseteq mem.set /\ ~(mock /\ at >= 4)
           /\ Hopeless
  <2>1. Fail(mem) /\ UNCHANGED <<at, upTo, mock, resources, faults, downs, apps>>
    BY <1>4 DEF BeginPhase
  <2>2. TypeOK'
    BY <1>1, <2>1, StatesClosed DEF Fail, IInv, TypeOK
  <2> QED
    BY <1>1, <2>1, <2>2, FailStep
<1>5. CASE /\ Requires(at) \subseteq mem.set /\ ~(mock /\ at >= 4)
           /\ ~Hopeless
  <2>1. /\ pc' = IF ~mock /\ at \in Launches THEN "launch" ELSE "provision"
        /\ UNCHANGED <<at, active, upTo, mock, resources, faults, downs, apps>>
    BY <1>5 DEF BeginPhase
  <2>2. CASE at = 4 /\ "bootstrap_admin_password" \notin mem.set
    <3> DEFINE t == Put(mem, {"bootstrap_admin_password"})
    <3>1. t \in States /\ t.set = mem.set \cup {"bootstrap_admin_password"}
      BY <1>1, StateParts DEF Fields
    <3>2. Good(t)
      BY <1>1, PutExtras DEF Extras
    <3>3. disk' = t /\ mem' = t
      BY <1>5, <2>2, <3>1, <3>2, NormalisedGood DEF BeginPhase, Save
    <3>4. TypeOK'
      BY <2>1, <3>1, <3>3 DEF IInv, TypeOK
    <3>5. InRun'
      BY <1>1, <2>1, <3>1, <3>2, <3>3 DEF InRun, CaKnown, Before, Good, LadderIn, Backed, PkiFlagged
    <3> QED
      BY <1>1, <2>1, <3>1, <3>2, <3>3, <3>4, <3>5
      DEF IInv, AtPhase, CaKnown, Good, LadderIn, Backed, PkiFlagged
  <2>3. CASE ~(at = 4 /\ "bootstrap_admin_password" \notin mem.set)
    <3>1. UNCHANGED <<disk, mem>>
      BY <1>5, <2>3 DEF BeginPhase
    <3>2. TypeOK'
      BY <2>1, <3>1 DEF IInv, TypeOK
    <3>3. InRun'
      BY <1>1, <2>1, <3>1
      DEF IInv, InRun, Running, CaKnown, Before, Good, LadderIn, Backed, PkiFlagged
    <3> QED
      BY <1>1, <2>1, <3>1, <3>2, <3>3
      DEF IInv, AtPhase, CaKnown, Good, LadderIn, Backed, PkiFlagged
  <2> QED
    BY <2>2, <2>3
<1> QED
  BY <1>2, <1>3, <1>4, <1>5

LEMMA LaunchStep ==
    ASSUME IInv, Launch
    PROVE  IInv'
<1>1. at \in Phases /\ at \in Launches /\ Running /\ mem \in States /\ Good(mem)
      /\ disk.set = mem.set /\ CaKnown(mem) /\ Before(at, mem.set)
  BY DEF Launch, IInv, InRun, AtPhase, Running, TypeOK
<1>2. CASE Fail(mem) /\ UNCHANGED resources
  <2>1. TypeOK'
    BY <1>1, <1>2, StatesClosed DEF Fail, Launch, IInv, TypeOK
  <2> QED
    BY <1>1, <1>2, <2>1, FailStep
<1>3. CASE /\ UNCHANGED <<disk, mem, active>>
           /\ resources \subseteq resources' /\ resources' \subseteq resources \cup {at}
           /\ pc' \in {"record", "provision"}
           /\ pc' = "record" => at \in {3, 4} /\ at \in resources'
  <2>1. TypeOK'
    BY <1>1, <1>3 DEF Launch, IInv, TypeOK
  <2>2. InRun'
    BY <1>1, <1>3
    DEF Launch, IInv, InRun, Running, CaKnown, Before, Good, LadderIn, Backed, PkiFlagged
  <2> QED
    BY <1>1, <1>3, <2>1, <2>2
    DEF Launch, IInv, AtPhase, CaKnown, Good, LadderIn, Backed, PkiFlagged
<1> QED
  BY <1>2, <1>3 DEF Launch

LEMMA LaunchFaultStep ==
    ASSUME IInv, LaunchFault
    PROVE  IInv'
<1>1. Running /\ mem \in States /\ at \in Launches
  BY DEF LaunchFault, IInv, AtPhase, Running, TypeOK
<1>2. Fail(mem) /\ (3 \in resources => 3 \in resources')
  BY DEF LaunchFault
<1>3. TypeOK'
  BY <1>1, StatesClosed, BootstrapAssumption DEF LaunchFault, Fault, Fail, IInv, TypeOK
<1> QED
  BY <1>1, <1>2, <1>3, FailStep

LEMMA RecordContainerStep ==
    ASSUME IInv, RecordContainer
    PROVE  IInv'
<1> DEFINE t == Put(mem, {ContainerField(at)})
<1>1. at \in Phases /\ mem \in States /\ Good(mem) /\ CaKnown(mem) /\ Before(at, mem.set)
      /\ at \in {3, 4} /\ at \in resources
  BY DEF RecordContainer, IInv, InRun, AtPhase, Running, TypeOK
<1>2. {ContainerField(at)} \subseteq Extras /\ {ContainerField(at)} \subseteq Fields
      /\ (ContainerField(at) = "step_ca_container_id" => at = 3)
  BY DEF ContainerField, Extras, Fields
<1>3. t \in States /\ t.set = mem.set \cup {ContainerField(at)} /\ Good(t)
  BY <1>1, <1>2, StateParts, PutExtras
<1>4. disk' = t /\ mem' = t
  BY <1>3, NormalisedGood DEF RecordContainer, Save
<1>5. TypeOK'
  BY <1>3, <1>4 DEF RecordContainer, IInv, TypeOK
<1>6. Before(at', t.set)
  BY <1>1, <1>3 DEF RecordContainer, Before
<1>7. "step_ca_container_id" \in t.set => 3 \in resources'
  BY <1>1, <1>2, <1>3 DEF RecordContainer, CaKnown
<1> QED
  BY <1>1, <1>3, <1>4, <1>5, <1>6, <1>7, SavedStep DEF RecordContainer

LEMMA ProvisionStep ==
    ASSUME IInv, Provision
    PROVE  IInv'
<1> DEFINE r == Put(mem, Recorded(at))
           t == Flag(r, Marks(at))
<1>1. at \in Phases /\ mem \in States /\ Good(mem) /\ CaKnown(mem) /\ Before(at, mem.set)
      /\ disk.set = mem.set /\ disk.done \subseteq mem.done
  BY DEF Provision, IInv, InRun, AtPhase, Running, TypeOK
<1>2. r \in States /\ Good(r) /\ r.set = mem.set \cup Recorded(at) /\ r.done = mem.done
      /\ Outputs(at) \subseteq r.set
  <2>1. Recorded(at) \in SUBSET Fields /\ Outputs(at) \subseteq Recorded(at)
    BY <1>1, RecordedFacts
  <2>2. r \in States /\ r.set = mem.set \cup Recorded(at) /\ r.done = mem.done
    BY <1>1, <2>1, StateParts
  <2>3. Good(r)
    BY <1>1, PutRecorded
  <2> QED
    BY <2>1, <2>2, <2>3
<1>3. t \in States /\ Good(t) /\ t.set = r.set /\ t.done = r.done \cup Marks(at)
  BY <1>1, <1>2, StateParts, MarksFacts, FlagMarks
<1>4. \/ at \in {3, 4, 5} /\ disk' = t /\ mem' = t
      \/ at = 1 /\ mem' = t /\ disk' = disk
      \/ mem' = r /\ disk' = disk
  <2>1. CASE at \in {3, 4, 5}
    <3>1. Marks(at) = {at}
      BY <2>1 DEF Marks
    <3>2. Save(t)
      BY <2>1, <3>1, SMTT(60) DEF Provision
    <3> QED
      BY <2>1, <3>2, <1>3, NormalisedGood DEF Save
  <2>2. CASE at = 1
    BY <2>2 DEF Provision, Marks
  <2>3. CASE at \notin {1, 3, 4, 5}
    BY <2>3 DEF Provision
  <2> QED
    BY <2>1, <2>2, <2>3
<1>5. /\ mem' \in States /\ Good(mem') /\ mem'.set = mem.set \cup Recorded(at)
      /\ mem.done \subseteq mem'.done
  BY <1>2, <1>3, <1>4
<1>6. disk' = disk \/ disk' = mem'
  BY <1>4
<1>7. /\ UNCHANGED <<at, upTo, mock, resources, faults, downs, apps>>
      /\ pc' = "healthcheck" /\ active' \subseteq active \cup {5, 7, 8}
  BY DEF Provision
<1>8. TypeOK'
  BY <1>5, <1>6, <1>7 DEF IInv, TypeOK
<1>9. CaKnown(mem)' /\ CaKnown(disk)' /\ Good(disk')
  BY <1>1, <1>5, <1>6, <1>7, RecordedFacts DEF IInv, CaKnown
<1>10. InRun'
  <2>1. mem'.set \subseteq disk'.set \cup Recorded(at)
    BY <1>1, <1>5, <1>6
  <2>2. disk'.set \subseteq mem'.set /\ disk'.done \subseteq mem'.done
    BY <1>1, <1>5, <1>6
  <2>3. Before(at', mem'.set)
    BY <1>1, <1>5, <1>7 DEF Before
  <2> QED
    BY <1>5, <1>7, <1>9, <2>1, <2>2, <2>3
    DEF InRun, Before, Good, LadderIn, Backed, PkiFlagged, Recorded, Outputs
<1>11. AtPhase'
  BY <1>1, <1>5, <1>7, RecordedFacts DEF AtPhase
<1> QED
  BY <1>8, <1>9, <1>10, <1>11 DEF IInv, Good, LadderIn, Backed, PkiFlagged

LEMMA ProvisionFaultStep ==
    ASSUME IInv, ProvisionFault
    PROVE  IInv'
<1>1. Running /\ mem \in States
  BY DEF ProvisionFault, IInv, Running, TypeOK
<1>2. Fail(mem) /\ (3 \in resources => 3 \in resources') /\ resources' \subseteq resources
  BY DEF ProvisionFault
<1>3. TypeOK'
  BY <1>1, <1>2, StatesClosed, BootstrapAssumption DEF ProvisionFault, Fault, Fail, IInv, TypeOK
<1> QED
  BY <1>1, <1>2, <1>3, FailStep

LEMMA HealthcheckPassesStep ==
    ASSUME IInv, HealthcheckPasses
    PROVE  IInv'
<1> DEFINE t == Flag(mem, Marks(at))
<1>1. at \in Phases /\ mem \in States /\ Good(mem) /\ CaKnown(mem) /\ Before(at, mem.set)
      /\ Outputs(at) \subseteq mem.set
  BY DEF HealthcheckPasses, IInv, InRun, AtPhase, Running, TypeOK
<1>2. t \in States /\ Good(t) /\ t.set = mem.set
  BY <1>1, StateParts, MarksFacts, FlagMarks
<1>3. disk' = t /\ mem' = t
  BY <1>2, NormalisedGood DEF HealthcheckPasses, Save
<1>4. at' \in Phases \cup {10} /\ Before(at', t.set)
  BY <1>1, <1>2, NextPhaseFacts DEF HealthcheckPasses, Before, Phases
<1>5. TypeOK'
  BY <1>1, <1>2, <1>3, <1>4 DEF HealthcheckPasses, IInv, TypeOK
<1>6. "step_ca_container_id" \in t.set => 3 \in resources'
  BY <1>1, <1>2 DEF HealthcheckPasses, CaKnown
<1> QED
  BY <1>2, <1>3, <1>4, <1>5, <1>6, SavedStep DEF HealthcheckPasses

LEMMA HealthcheckFailsStep ==
    ASSUME IInv, HealthcheckFails
    PROVE  IInv'
<1>1. Running /\ mem \in States
  BY DEF HealthcheckFails, IInv, Running, TypeOK
<1>2. Fail(mem) /\ resources' = resources
  BY DEF HealthcheckFails
<1>3. TypeOK'
  BY <1>1, <1>2, StatesClosed, BootstrapAssumption DEF HealthcheckFails, Fault, Fail, IInv, TypeOK
<1> QED
  BY <1>1, <1>2, <1>3, FailStep

LEMMA FinishStep ==
    ASSUME IInv, Finish
    PROVE  IInv'
<1>1. TypeOK'
  BY DEF Finish, IInv, TypeOK
<1>2. InRun'
  BY DEF Finish, IInv, InRun, Running, CaKnown, Before, Good, LadderIn, Backed, PkiFlagged
<1> QED
  BY <1>1, <1>2 DEF Finish, IInv, AtPhase, CaKnown, Good, LadderIn, Backed, PkiFlagged

(* The steps between two runs. *)

LEMMA ExitStep ==
    ASSUME IInv, Exit
    PROVE  IInv'
<1>1. TypeOK'
  BY StatesClosed DEF Exit, IInv, TypeOK
<1> QED
  BY <1>1, StopStep DEF Exit

LEMMA CrashStep ==
    ASSUME IInv, Crash
    PROVE  IInv'
<1>1. TypeOK'
  BY StatesClosed, BootstrapAssumption DEF Crash, Fault, IInv, TypeOK
<1> QED
  BY <1>1, StopStep DEF Crash

LEMMA DownStep ==
    ASSUME IInv, Down
    PROVE  IInv'
<1>1. TypeOK'
  BY StatesClosed, BootstrapAssumption DEF Down, IInv, TypeOK
<1>2. disk' = Blank /\ pc' = "down"
  BY DEF Down
<1> QED
  BY <1>1, <1>2, BlankGood
  DEF IInv, InRun, AtPhase, CaKnown, Running, Good, LadderIn, Backed, PkiFlagged, Blank

LEMMA RemoveStaleStep ==
    ASSUME IInv, NEW p \in Launches, RemoveStale(p)
    PROVE  IInv'
<1>1. TypeOK'
  BY DEF RemoveStale, IInv, TypeOK
<1> QED
  BY <1>1 DEF RemoveStale, IInv, InRun, AtPhase, CaKnown, Running, Good, LadderIn, Backed, PkiFlagged

LEMMA StutterStep == IInv /\ UNCHANGED vars => IInv'
BY DEF vars, IInv, TypeOK, InRun, AtPhase, CaKnown, Running, Before, Good, LadderIn, Backed,
       PkiFlagged

LEMMA NextIInv == IInv /\ [Next]_vars => IInv'
<1> SUFFICES ASSUME IInv, [Next]_vars PROVE IInv'
  OBVIOUS
<1>1. CASE \E n \in UpToChoices, m \in Modes : Up(n, m)
  BY <1>1, UpStep
<1>2. CASE Step
  BY <1>2, SkipPhaseStep, BeginPhaseStep, LaunchStep, RecordContainerStep, ProvisionStep,
     HealthcheckPassesStep, FinishStep DEF Step
<1>3. CASE LaunchFault \/ ProvisionFault \/ HealthcheckFails
  BY <1>3, LaunchFaultStep, ProvisionFaultStep, HealthcheckFailsStep
<1>4. CASE Exit \/ Crash \/ Down \/ \E p \in Launches : RemoveStale(p)
  BY <1>4, ExitStep, CrashStep, DownStep, RemoveStaleStep
<1>5. CASE UNCHANGED vars
  BY <1>5, StutterStep
<1> QED
  BY <1>1, <1>2, <1>3, <1>4, <1>5 DEF Next

-----------------------------------------------------------------------------
(* The theorems. *)

(* The invariant the others are read off. *)
THEOREM Inductive == Spec => []IInv
BY InitIInv, NextIInv, PTL DEF Spec

(* Every variable of the bootstrap keeps its type. *)
THEOREM TypeCorrect == Spec => []TypeOK
<1>1. IInv => TypeOK
  BY DEF IInv
<1> QED
  BY <1>1, Inductive, PTL

(* A complete phase has its outputs, and those of all phases before it, in *)
(* the state file, whatever was interrupted.                               *)
THEOREM LadderHolds == Spec => []CompletedLadder
<1>1. IInv => CompletedLadder
  <2> SUFFICES ASSUME IInv, NEW p \in disk.done, NEW q \in Phases, q <= p
               PROVE  Outputs(q) \subseteq disk.set
    BY DEF CompletedLadder
  <2>1. p \in 0 .. 9 /\ Outputs(p) \subseteq disk.set /\ LadderIn(disk.set)
    BY DEF IInv, TypeOK, States, Good, Backed
  <2>2. CASE p = 2
    <3>1. Outputs(1) \subseteq disk.set /\ q <= 1
      BY <2>1, <2>2, OutputsFacts DEF Phases
    <3> QED
      BY <2>1, <3>1 DEF LadderIn, Phases
  <2>3. CASE p # 2
    <3>1. p \in Phases
      BY <2>1, <2>3 DEF Phases
    <3> QED
      BY <2>1, <3>1 DEF LadderIn
  <2> QED
    BY <2>2, <2>3
<1> QED
  BY <1>1, Inductive, PTL

(* A resumed run is never stopped by the prerequisites of a phase it has   *)
(* to execute, although those of skipped phases were not checked.          *)
THEOREM ResumeNotBlocked == Spec => []NeverBlocked
<1>1. IInv => NeverBlocked
  <2> SUFFICES ASSUME IInv, pc = "decide", at <= upTo
               PROVE  Requires(at) \subseteq mem.set
    BY DEF NeverBlocked
  <2>1. at \in Phases /\ Before(at, mem.set) /\ PkiFlagged(mem.set)
    BY DEF IInv, TypeOK, InRun, Running, Good
  <2> QED
    BY <2>1, RequiresFacts
<1> QED
  BY <1>1, Inductive, PTL

(* The step-ca container the state file names exists. *)
THEOREM CaExists == Spec => []RecordedCaExists
<1>1. IInv => RecordedCaExists
  BY DEF IInv, CaKnown, RecordedCaExists
<1> QED
  BY <1>1, Inductive, PTL

(* A run that says "World bootstrapped." leaves all its outputs behind. *)
THEOREM FinishIsDurable == Spec => []FinishedDurable
<1>1. IInv => FinishedDurable
  <2> SUFFICES ASSUME IInv, pc = "finished", NEW p \in Upto(upTo)
               PROVE  Outputs(p) \subseteq disk.set
    BY DEF FinishedDurable
  <2>1. Before(at, mem.set) /\ mem.set \subseteq disk.set
    BY DEF IInv, InRun, Running
  <2>2. p \in Phases /\ p < at
    BY DEF IInv, AtPhase, TypeOK, Upto, Phases
  <2> QED
    BY <2>1, <2>2 DEF Before
<1> QED
  BY <1>1, Inductive, PTL

-----------------------------------------------------------------------------
(* What one step may do to the state file. *)

(* The states a step may leave in the file: unchanged, the state in memory *)
(* with the extras of a phase, with the outputs of the phase the run is    *)
(* at, or nothing after `down`.                                            *)
Written == \/ disk' = disk
           \/ disk.set \subseteq disk'.set /\ disk.done \subseteq disk'.done
              /\ disk'.set \subseteq disk.set \cup Extras
           \/ at \in Phases /\ disk.set \subseteq disk'.set /\ disk.done \subseteq disk'.done
              /\ disk'.set \subseteq disk.set \cup Recorded(at)
              /\ Before(at, disk.set)
           \/ downs' # downs /\ disk' = Blank

(* What is in memory and not in the file is the output of the phase that   *)
(* waits for its healthcheck.                                              *)
LEMMA MemoryAhead ==
    ASSUME IInv, Running
    PROVE  /\ disk.set \subseteq mem.set /\ disk.done \subseteq mem.done
           /\ pc # "healthcheck" => mem.set = disk.set
           /\ pc = "healthcheck" => /\ at \in Phases
                                   /\ mem.set \subseteq disk.set \cup Recorded(at)
                                   /\ Before(at, disk.set)
<1>1. disk.set \subseteq mem.set /\ disk.done \subseteq mem.done /\ Before(at, mem.set)
  BY DEF IInv, InRun
<1>2. CASE pc # "healthcheck"
  BY <1>1, <1>2 DEF IInv, InRun
<1>3. CASE pc = "healthcheck"
  <2>1. at \in Phases /\ mem.set \subseteq disk.set \cup Recorded(at)
    BY <1>3 DEF IInv, InRun, AtPhase
  <2>2. ASSUME NEW q \in Phases, q < at
        PROVE  Outputs(q) \subseteq disk.set
    <3>1. q # at /\ Outputs(q) \subseteq mem.set
      BY <1>1, <2>1, <2>2 DEF Before, Phases
    <3>2. Outputs(q) \cap Recorded(at) = {}
      BY <2>1, <3>1, RecordedFacts
    <3> QED
      BY <2>1, <3>1, <3>2
  <2> QED
    BY <1>1, <1>3, <2>1, <2>2 DEF Before
<1> QED
  BY <1>2, <1>3

LEMMA FailWritten ==
    ASSUME IInv, Running, Fail(mem)
    PROVE  Written
<1>1. disk' = mem
  BY NormalisedGood DEF Fail, IInv, InRun, TypeOK
<1> QED
  BY <1>1, MemoryAhead DEF Written

LEMMA StepWritten ==
    ASSUME IInv, [Next]_vars
    PROVE  Written
<1>1. ASSUME NEW n \in UpToChoices, NEW m \in Modes, Up(n, m)
      PROVE  Written
  <2>1. Normalised(disk) = disk /\ disk \in States
    BY NormalisedGood DEF IInv, TypeOK
  <2>2. CASE "world_spec" \in disk.set
    BY <1>1, <2>1, <2>2 DEF Up, Written
  <2>3. CASE "world_spec" \notin disk.set
    <3> DEFINE t == Put(disk, {"world_spec"})
    <3>1. t \in States /\ t.set = disk.set \cup {"world_spec"} /\ t.done = disk.done
      BY <2>1, StateParts DEF Fields
    <3>2. Good(t)
      BY <2>1, PutExtras DEF IInv, Extras
    <3>3. disk' = t
      BY <1>1, <2>1, <2>3, <3>1, <3>2, NormalisedGood DEF Up, Save
    <3> QED
      BY <3>1, <3>3 DEF Written, Extras
  <2> QED
    BY <2>2, <2>3
<1>2. CASE SkipPhase \/ Finish \/ Exit \/ Crash \/ \E p \in Launches : RemoveStale(p)
  BY <1>2 DEF SkipPhase, Finish, Exit, Crash, RemoveStale, Written
<1>3. CASE BeginPhase
  <2>1. at \in Phases /\ mem \in States /\ Good(mem) /\ Before(at, mem.set) /\ Running
        /\ disk.set = mem.set /\ disk.done \subseteq mem.done
    BY <1>3 DEF BeginPhase, IInv, InRun, Running, TypeOK
  <2> DEFINE r == Put(mem, Recorded(at))
             t == Flag(r, Marks(at))
             u == Put(mem, {"bootstrap_admin_password"})
  <2>2. r \in States /\ r.set = mem.set \cup Recorded(at) /\ r.done = mem.done /\ Good(r)
    BY <2>1, StateParts, RecordedFacts, PutRecorded
  <2>3. t \in States /\ t.set = r.set /\ t.done = r.done \cup Marks(at) /\ Good(t)
    <3>1. Outputs(at) \subseteq r.set
      BY <2>1, <2>2, RecordedFacts
    <3> QED
      BY <2>1, <2>2, <3>1, StateParts, MarksFacts, FlagMarks
  <2>4. u \in States /\ u.set = mem.set \cup {"bootstrap_admin_password"} /\ u.done = mem.done
        /\ Good(u)
    BY <2>1, StateParts, PutExtras DEF Fields, Extras
  <2>5. disk' = disk \/ Fail(mem) \/ disk' = Normalised(t) \/ disk' = Normalised(u)
    BY <1>3 DEF BeginPhase, Save
  <2>6. CASE disk' = Normalised(t)
    BY <2>1, <2>2, <2>3, <2>6, NormalisedGood DEF Written
  <2>7. CASE disk' = Normalised(u)
    BY <2>1, <2>4, <2>7, NormalisedGood DEF Written, Extras
  <2> QED
    BY <2>1, <2>5, <2>6, <2>7, FailWritten DEF Written
<1>4. CASE Launch
  BY <1>4, FailWritten DEF Launch, Running, Written
<1>5. CASE LaunchFault \/ ProvisionFault \/ HealthcheckFails
  BY <1>5, FailWritten DEF LaunchFault, ProvisionFault, HealthcheckFails, Running
<1>6. CASE RecordContainer
  <2> DEFINE t == Put(mem, {ContainerField(at)})
  <2>1. mem \in States /\ Good(mem) /\ disk.set = mem.set /\ disk.done \subseteq mem.done
    BY <1>6 DEF RecordContainer, IInv, InRun, Running, TypeOK
  <2>2. {ContainerField(at)} \subseteq Extras /\ {ContainerField(at)} \subseteq Fields
    BY DEF ContainerField, Extras, Fields
  <2>3. t \in States /\ t.set = mem.set \cup {ContainerField(at)} /\ t.done = mem.done /\ Good(t)
    BY <2>1, <2>2, StateParts, PutExtras
  <2>4. disk' = t
    BY <1>6, <2>3, NormalisedGood DEF RecordContainer, Save
  <2> QED
    BY <2>1, <2>2, <2>3, <2>4 DEF Written
<1>7. CASE Provision
  <2> DEFINE r == Put(mem, Recorded(at))
             t == Flag(r, {at})
  <2>1. at \in Phases /\ mem \in States /\ Good(mem) /\ Before(at, mem.set)
        /\ disk.set = mem.set /\ disk.done \subseteq mem.done
    BY <1>7 DEF Provision, IInv, InRun, AtPhase, Running, TypeOK
  <2>2. r \in States /\ r.set = mem.set \cup Recorded(at) /\ r.done = mem.done /\ Good(r)
    BY <2>1, StateParts, RecordedFacts, PutRecorded
  <2>3. CASE at \in {3, 4, 5}
    <3>1. Marks(at) = {at} /\ Outputs(at) \subseteq r.set
      BY <2>1, <2>2, <2>3, MarksFacts, RecordedFacts
    <3>2. t \in States /\ t.set = r.set /\ t.done = r.done \cup {at} /\ Good(t)
      <4>1. {at} \in SUBSET (0 .. 9)
        BY <2>3
      <4> QED
        BY <2>1, <2>2, <3>1, <4>1, StateParts, FlagMarks
    <3>3. disk' = t
      BY <1>7, <2>3, <3>2, NormalisedGood DEF Provision, Save
    <3> QED
      BY <2>1, <2>2, <3>2, <3>3 DEF Written
  <2>4. CASE at \notin {3, 4, 5}
    BY <1>7, <2>4 DEF Provision, Written
  <2> QED
    BY <2>3, <2>4
<1>8. CASE HealthcheckPasses
  <2> DEFINE t == Flag(mem, Marks(at))
  <2>1. at \in Phases /\ mem \in States /\ Good(mem) /\ Outputs(at) \subseteq mem.set
    BY <1>8 DEF HealthcheckPasses, IInv, InRun, AtPhase, Running, TypeOK
  <2>2. t \in States /\ Good(t) /\ t.set = mem.set /\ t.done = mem.done \cup Marks(at)
    BY <2>1, StateParts, MarksFacts, FlagMarks
  <2>3. disk' = t
    BY <1>8, <2>2, NormalisedGood DEF HealthcheckPasses, Save
  <2> QED
    BY <1>8, <2>1, <2>2, <2>3, MemoryAhead DEF Written, HealthcheckPasses, Running
<1>9. CASE Down
  BY <1>9 DEF Down, Written, IInv, TypeOK
<1>10. CASE UNCHANGED vars
  BY <1>10 DEF vars, Written
<1> QED
  BY <1>1, <1>2, <1>3, <1>4, <1>5, <1>6, <1>7, <1>8, <1>9, <1>10 DEF Next, Step

(* No save, failure, crash or restart takes an output or a flag out of the *)
(* state file; only `down` does.                                           *)
THEOREM KeepsProgress == Spec => ProgressKept
<1>1. IInv /\ [Next]_vars => [downs' = downs => /\ disk.set \subseteq disk'.set
                                              /\ disk.done \subseteq disk'.done]_disk
  BY StepWritten DEF Written
<1> QED
  BY <1>1, Inductive, PTL DEF Spec, ProgressKept

(* A phase that the state file says is complete is never executed again. *)
THEOREM ExecutedOnce == Spec => NeverRedone
<1>1. IInv /\ [Next]_vars =>
          [pc = "decide" /\ pc' \in {"launch", "provision"} => at \notin disk.done]_vars
  <2> SUFFICES ASSUME IInv, Next, pc = "decide", pc' \in {"launch", "provision"}
               PROVE  at \notin disk.done
    OBVIOUS
  <2>1. BeginPhase
    BY DEF Next, Step, Up, SkipPhase, Launch, RecordContainer, Provision, HealthcheckPasses,
           Finish, LaunchFault, ProvisionFault, HealthcheckFails, Exit, Crash, Down, RemoveStale
  <2>2. ~Skips(at, mem) /\ Backed(mem) /\ disk.done \subseteq mem.done
    BY <2>1 DEF BeginPhase, IInv, InRun, Running, Good
  <2> QED
    BY <2>2 DEF Skips, Backed
<1> QED
  BY <1>1, Inductive, PTL DEF Spec, NeverRedone

(* The bootstrap implements the ladder of phases: outputs become durable   *)
(* one phase at a time and in order, and go only all together.             *)
THEOREM ImplementsLadder == Spec => ClimbsLadder
<1> DEFINE built == {p \in Phases : Outputs(p) \subseteq disk.set}
<1>1. Init => Ladder!LadderInit
  <2> SUFFICES ASSUME Init PROVE built \in {{}} \cup {Upto(n) : n \in ImportLevels}
    BY DEF Ladder!LadderInit
  <2>1. CASE disk = Blank
    <3>1. \A p \in Phases : ~(Outputs(p) \subseteq {})
      BY OutputsFacts DEF Phases
    <3> QED
      BY <2>1, <3>1 DEF Blank
  <2>2. ASSUME NEW n \in ImportLevels, disk = Imported(n)
        PROVE  built = Upto(n)
    <3>1. n \in Phases
      BY BootstrapAssumption
    <3>2. \A p \in Phases : Outputs(p) \subseteq Imported(n).set <=> p \in Upto(n)
      BY <3>1, ImportedLevel
    <3> QED
      BY <2>2, <3>2 DEF Upto
  <2> QED
    BY <2>1, <2>2 DEF Init
<1>2. IInv /\ [Next]_vars => [Ladder!LadderNext]_built
  <2> SUFFICES ASSUME IInv, [Next]_vars
               PROVE  built' = built \/ Ladder!LadderNext
    OBVIOUS
  <2>1. Written
    BY StepWritten
  <2>2. CASE disk' = disk
    BY <2>2
  <2>3. CASE disk.set \subseteq disk'.set /\ disk'.set \subseteq disk.set \cup Extras
    <3>1. \A p \in Phases : Outputs(p) \subseteq disk'.set <=> Outputs(p) \subseteq disk.set
      BY <2>3, OutputsFacts DEF Phases
    <3> QED
      BY <3>1
  <2>4. CASE /\ at \in Phases /\ disk.set \subseteq disk'.set
             /\ disk'.set \subseteq disk.set \cup Recorded(at) /\ Before(at, disk.set)
    <3>1. \A p \in Phases : p # at => (Outputs(p) \subseteq disk'.set <=> Outputs(p) \subseteq disk.set)
      BY <2>4, RecordedFacts
    <3>2. built' = built \/ (at \notin built /\ built' = built \cup {at})
      BY <2>4, <3>1
    <3>3. \A q \in Phases : q < at => q \in built
      BY <2>4 DEF Before
    <3> QED
      BY <2>4, <3>2, <3>3 DEF Ladder!LadderNext, Ladder!Climb
  <2>5. CASE disk' = Blank
    <3>1. \A p \in Phases : ~(Outputs(p) \subseteq {})
      BY OutputsFacts DEF Phases
    <3>2. built' = {}
      BY <2>5, <3>1 DEF Blank
    <3> QED
      BY <3>2 DEF Ladder!LadderNext, Ladder!TearDown
  <2> QED
    BY <2>1, <2>2, <2>3, <2>4, <2>5 DEF Written
<1> QED
  BY <1>1, <1>2, Inductive, PTL DEF Spec, ClimbsLadder, Ladder!Spec
============================================================================
