------------------------- MODULE CertificatesProofs -------------------------
(* Proofs about Certificates: no copy of the state runs ahead of what was  *)
(* issued, and no certificate expires while the worker looks after it.     *)
EXTENDS Certificates, FiniteSetTheorems, TLAPS

(* The state file and the copies of it that may replace it. *)
Copies == {file, mem, copy, held}

NotAhead(s, expiry) == \A c \in Tracked(s) : expiry[c] # Never /\ s.certs[c] <= expiry[c]

Behind ==
    /\ \A c \in Certs : issued[c] # Never => issued[c] <= now + Lifetime
    /\ \A s \in Copies : NotAhead(s, issued)

(* What a copy tracks the file does, or a save has dropped it.             *)
Known == \A s \in Copies : Tracked(s) \subseteq Tracked(file) \cup dropped

(* A round takes place at the hour it is due; its checks are of the past.  *)
InRound == worker.pc \in {"round", "rotate", "keys"}

Timely ==
    /\ worker.pc = "sleep" => worker.wake \in {now, now + 1}
    /\ InRound => worker.wake = now
    /\ \A s \in Copies, t \in Types : s.last[t] # Never => s.last[t] <= now
    /\ \A t \in Types : mem.last[t] = Never

(* With a client, the worker is registered by phase 3, before there is a   *)
(* certificate to renew; without one it never is.                          *)
Registered ==
    /\ mem.enabled /\ (~paused => file.enabled)
    /\ worker.pc = "none" /\ client => \A s \in Copies : ~s.done /\ Tracked(s) = {}
    /\ worker.pc # "none" => client /\ mem.done

(* Phase 3 is repeated with effect until it is completed only.             *)
Executed ==
    /\ mem.ca => container # "none"
    /\ mem.done => mem.ca
    /\ mem.done /\ phase \in {"ca", "health"} => container # "up"
    /\ phase \in {"record", "keys", "sign", "persist"} => ~mem.done /\ mem.ca
    /\ phase = "health" => mem.ca

(* Keys are generated once in phase 3, once in a round, and again after a  *)
(* failure.                                                                *)
Generated ==
    /\ \A s \in Copies : s.keys <= keygen
    /\ keygen <= faults + (IF mem.done \/ phase \in {"sign", "persist"} THEN 1 ELSE 0)
                        + (IF worker.pc = "none" THEN 0
                           ELSE IF worker.pc = "keys" THEN worker.wake + 1 ELSE worker.wake)

OneType ==
    /\ worker.pc # "rotate" => worker.due = {}
    /\ worker.pc = "keys" => worker.types = {}
    /\ worker.due \subseteq Tracked(copy)
    /\ \A c, d \in worker.due : TypeOf[c] = TypeOf[d]
    /\ \A c \in worker.due : TypeOf[c] \notin worker.types

(* A certificate outlasts the check at d, and as many more as may still    *)
(* fail.                                                                   *)
InTime(expiry, failed, d) == expiry + (failed + 1) * Interval > d + Warning

(* The next round finds every certificate in time, and where a type is not *)
(* due in it, the round at which it is does.                               *)
Lasting(last, expiry, failed) == last # Never => InTime(expiry, failed, last + Interval)

Renewed ==
    /\ \A c \in Tracked(file) \ dropped : InTime(issued[c], faults, worker.wake)
    /\ \A s \in {file, held} : \A c \in Tracked(s) \ dropped :
          Lasting(s.last[TypeOf[c]], issued[c], faults)
    /\ \A c \in Tracked(copy) \ dropped :
          IF c \in worker.due THEN copy.last[TypeOf[c]] = now
          ELSE Lasting(copy.last[TypeOf[c]], issued[c], faults)
    /\ InRound => \A t \in Types \ worker.types :
                     copy.last[t] # Never /\ now < copy.last[t] + Interval

IInv == /\ TypeOK /\ Behind /\ Known /\ Timely /\ Registered /\ Executed /\ Generated /\ OneType
        /\ ~paused /\ client => Renewed

-----------------------------------------------------------------------------
LEMMA Arithmetic ==
    /\ Interval \in Nat \ {0} /\ Warning \in Nat /\ MaxFaults \in Nat /\ MaxTime \in Nat
    /\ Lifetime \in Nat /\ KeyLifetime \in Nat /\ Warning < Lifetime /\ Never \notin Nat
    /\ Times \subseteq Nat /\ \A t \in 0 .. MaxTime : t \in Times /\ t + Lifetime \in Times
  BY CertificateAssumption DEF Times

LEMMA FaultCounted == TypeOK /\ Fault => faults' = faults + 1 /\ faults' \in 0 .. MaxFaults
<1> SUFFICES ASSUME TypeOK, Fault PROVE faults' = faults + 1 /\ faults + 1 \in 0 .. MaxFaults
  OBVIOUS
<1>1. faults \in 0 .. MaxFaults /\ MaxFaults \in Nat
  BY Arithmetic DEF TypeOK
<1> QED BY <1>1 DEF Fault

(* Executed looks at phase 3 alone. *)
LEMMA ExecutedKept == ASSUME IInv, [Next]_vars PROVE Executed'
<1> USE DEF IInv, Executed
<1>0. mem \in State /\ phase \in {"idle", "ca", "health", "record", "keys", "sign", "persist"}
  BY DEF TypeOK
<1>1. CASE UNCHANGED <<mem, phase, container>>
  BY <1>1
<1>2. CASE Bootstrap
  BY <1>2 DEF Bootstrap, ShouldSkip
<1>3. CASE GenerateCa \/ RecordCa \/ EnableDnssec
  BY <1>3 DEF GenerateCa, RecordCa, EnableDnssec, Raise
<1>9. CASE HealthcheckCa
  BY <1>9 DEF HealthcheckCa, Raise
<1>10. CASE BootstrapFails
  BY <1>10 DEF BootstrapFails, Raise
<1>4. CASE StartServer
  BY <1>0, <1>4 DEF StartServer, State, Raise
<1>5. CASE GenerateKeys
  BY <1>0, <1>5 DEF GenerateKeys, State, NewKeys
<1>6. CASE Persist
  BY <1>0, <1>6 DEF Persist, State
<1>7. CASE CaDies
  BY <1>7 DEF CaDies
<1>8. ASSUME NEW c \in Certs, Track(c) PROVE Executed'
  <2>1. /\ mem'.ca = mem.ca /\ mem'.pem = mem.pem /\ mem'.done = mem.done
    BY <1>0, <1>8 DEF Track, State
  <2> QED BY <1>8, <2>1 DEF Track
<1> QED BY <1>1, <1>2, <1>3, <1>4, <1>5, <1>6, <1>7, <1>8, <1>9, <1>10
        DEF Next, vars, Load, TypeChecked, RotateKeys, SaveRound, RoundFails, StartType, RotateCert,
            OrchestratorSaves, LoadCopy, SaveCopy, Tick, SetPolicy

(* Every round and every phase 3 generates keys once, and each failure may *)
(* make it once more.                                                      *)
LEMMA GeneratedKept == ASSUME IInv, [Next]_vars PROVE Generated'
<1> DEFINE P == IF mem.done \/ phase \in {"sign", "persist"} THEN 1 ELSE 0
           R == IF worker.pc = "none" THEN 0
                ELSE IF worker.pc = "keys" THEN worker.wake + 1 ELSE worker.wake
           Goal == /\ file'.keys <= keygen' /\ mem'.keys <= keygen' /\ copy'.keys <= keygen'
                   /\ held'.keys <= keygen' /\ keygen' <= faults' + P' + R'
<1>1. /\ file \in State /\ mem \in State /\ copy \in State /\ held \in State
      /\ worker \in [pc : {"none", "sleep", "round", "rotate", "keys"}, wake : 0 .. MaxTime + 1,
                     types : SUBSET Types, due : SUBSET Certs]
      /\ worker.wake \in Nat /\ now \in Nat /\ keygen \in Nat /\ faults \in Nat
      /\ P \in {0, 1} /\ R \in Nat
  BY Arithmetic DEF IInv, TypeOK
<1>2. \A s \in State : s.keys \in Nat
  BY Arithmetic DEF State
<1>3. /\ file.keys <= keygen /\ mem.keys <= keygen /\ copy.keys <= keygen
      /\ held.keys <= keygen /\ keygen <= faults + P + R
  BY DEF IInv, Generated, Copies
<1>4. SUFFICES Goal
  BY DEF Generated, Copies
<1>5. Fresh.keys = 0
  BY DEF Fresh
<1>6. CASE GenerateKeys
  <2>1. P = 0 /\ P' = 1 /\ R' = R /\ faults' = faults
    BY <1>6 DEF GenerateKeys, IInv, Executed
  <2>2. mem'.keys = keygen + 1
    BY <1>1, <1>6 DEF GenerateKeys, NewKeys, State
  <2> HIDE DEF P, R
  <2> QED BY <1>1, <1>2, <1>3, <1>6, <2>1, <2>2 DEF GenerateKeys
<1>7. CASE RotateKeys
  <2>1. P' = P
    BY <1>7 DEF RotateKeys
  <2>2. R = worker.wake /\ R' = worker.wake + 1
    BY <1>1, <1>7 DEF RotateKeys
  <2>3. copy' = NewKeys(copy) => copy'.keys = keygen + 1
    BY <1>1 DEF NewKeys, State
  <2>4. faults' \in {faults, faults + 1}
    BY <1>7 DEF RotateKeys, Fault
  <2> HIDE DEF P, R
  <2> QED BY <1>1, <1>2, <1>3, <1>7, <2>1, <2>2, <2>3, <2>4 DEF RotateKeys
<1>8. CASE RoundFails
  <2>1. P' = P
    BY <1>8 DEF RoundFails
  <2>2. R \in {now, now + 1} /\ R' = now
    BY <1>1, <1>8 DEF RoundFails, Asleep, IInv, Timely, InRound
  <2> HIDE DEF P, R
  <2> QED BY <1>1, <1>2, <1>3, <1>5, <1>8, <2>1, <2>2 DEF RoundFails, Fault
<1>9. CASE SaveRound
  <2>1. P' = P
    BY <1>9 DEF SaveRound
  <2>2. R' = R
    BY <1>1, <1>9 DEF SaveRound, Asleep, IInv, Timely, InRound
  <2> HIDE DEF P, R
  <2> QED BY <1>1, <1>2, <1>3, <1>5, <1>9, <2>1, <2>2 DEF SaveRound, SaveState
<1>10. CASE BootstrapFails
  <2>1. R' = R /\ (P' = 0 \/ P' = 1)
    BY <1>10 DEF BootstrapFails
  <2> HIDE DEF P, R
  <2>2. keygen <= faults + 1 + P' + R
    BY <1>1, <1>3, <2>1
  <2> QED BY <1>1, <1>2, <1>3, <1>10, <2>1, <2>2 DEF BootstrapFails, Raise, SaveState, Fault
<1>11. CASE Persist
  <2>1. P' = P /\ mem'.keys = mem.keys
    BY <1>1, <1>11 DEF Persist, State
  <2>2. R' \in Nat /\ R' >= R
    BY <1>1, <1>11 DEF Persist, Asleep, IInv, Registered
  <2> HIDE DEF P, R
  <2> QED BY <1>1, <1>2, <1>3, <1>11, <2>1, <2>2 DEF Persist, SaveState
<1>12. CASE Bootstrap \/ GenerateCa \/ HealthcheckCa \/ RecordCa \/ EnableDnssec
  <2>1. P' = P /\ R' = R
    BY <1>12 DEF Bootstrap, GenerateCa, HealthcheckCa, RecordCa, EnableDnssec, Raise
  <2> HIDE DEF P, R
  <2> QED BY <1>1, <1>2, <1>3, <1>12, <2>1
          DEF Bootstrap, GenerateCa, HealthcheckCa, RecordCa, EnableDnssec, Raise, SaveState
<1>13. CASE StartServer
  <2>1. P' = P /\ R' = R /\ mem'.keys = mem.keys
    BY <1>1, <1>13 DEF StartServer, Raise, State
  <2> HIDE DEF P, R
  <2> QED BY <1>1, <1>2, <1>3, <1>13, <2>1 DEF StartServer, Raise, SaveState
<1>14. CASE CaDies \/ OrchestratorSaves \/ Tick
  <2>1. P' = P /\ R' = R /\ faults' \in {faults, faults + 1}
    BY <1>14 DEF CaDies, OrchestratorSaves, Tick, Fault
  <2> HIDE DEF P, R
  <2> QED BY <1>1, <1>2, <1>3, <1>14, <2>1 DEF CaDies, OrchestratorSaves, Tick, SaveState
<1>15. CASE Load \/ TypeChecked
  <2>1. P' = P /\ R' = R
    BY <1>1, <1>15 DEF Load, TypeChecked
  <2> HIDE DEF P, R
  <2> QED BY <1>1, <1>2, <1>3, <1>15, <2>1 DEF Load, TypeChecked
<1>16. ASSUME NEW t \in Types, StartType(t) PROVE Goal
  <2>1. P' = P /\ R' = R /\ copy'.keys = copy.keys
    BY <1>1, <1>16 DEF StartType, State
  <2> HIDE DEF P, R
  <2> QED BY <1>1, <1>2, <1>3, <1>16, <2>1 DEF StartType
<1>17. ASSUME NEW c \in Certs, RotateCert(c) PROVE Goal
  <2>1. P' = P /\ R' = R /\ copy'.keys = copy.keys /\ faults' \in {faults, faults + 1}
    BY <1>1, <1>17 DEF RotateCert, State, Fault
  <2> HIDE DEF P, R
  <2> QED BY <1>1, <1>2, <1>3, <1>17, <2>1 DEF RotateCert
<1>18. ASSUME NEW c \in Certs, Track(c) PROVE Goal
  <2>1. P' = P /\ R' = R /\ mem'.keys = mem.keys
    BY <1>1, <1>18 DEF Track, State
  <2> HIDE DEF P, R
  <2> QED BY <1>1, <1>2, <1>3, <1>18, <2>1 DEF Track, SaveState
<1>19. CASE LoadCopy
  <2>1. P' = P /\ R' = R /\ held' = file
    BY <1>19 DEF LoadCopy
  <2> HIDE DEF P, R
  <2> QED BY <1>1, <1>2, <1>3, <1>19, <2>1 DEF LoadCopy
<1>20. CASE SaveCopy
  <2>1. P' = P /\ R' = R /\ file' = held
    BY <1>20 DEF SaveCopy, SaveState
  <2> HIDE DEF P, R
  <2> QED BY <1>1, <1>2, <1>3, <1>20, <2>1 DEF SaveCopy
<1>21. ASSUME NEW on \in BOOLEAN, SetPolicy(on) PROVE Goal
  <2>1. P' = P /\ R' = R /\ file'.keys = file.keys
    BY <1>1, <1>21 DEF SetPolicy, State, SaveState
  <2> HIDE DEF P, R
  <2> QED BY <1>1, <1>2, <1>3, <1>21, <2>1 DEF SetPolicy
<1>22. CASE UNCHANGED vars
  <2>1. P' = P /\ R' = R
    BY <1>22 DEF vars
  <2> HIDE DEF P, R
  <2> QED BY <1>1, <1>3, <1>22, <2>1 DEF vars
<1> QED BY <1>6, <1>7, <1>8, <1>9, <1>10, <1>11, <1>12, <1>13, <1>14, <1>15, <1>16, <1>17, <1>18, <1>19,
           <1>20, <1>21, <1>22 DEF Next

-----------------------------------------------------------------------------
(* More time, and the time one more failure leaves.                        *)
LEMMA Later ==
    ASSUME NEW i \in Nat, NEW j \in Nat, NEW k \in Nat, NEW l \in Nat, NEW d \in Nat, NEW e \in Nat,
           InTime(i, k, d), i <= j, k <= l, e <= d
    PROVE  InTime(j, l, e)
<1>1. (k + 1) * Interval <= (l + 1) * Interval
  <2>1. PICK m \in Nat : l = k + m
    <3>1. l - k \in Nat /\ l = k + (l - k)
      OBVIOUS
    <3> QED BY <3>1
  <2>2. (l + 1) * Interval = (k + 1) * Interval + m * Interval
    BY <2>1, Arithmetic
  <2>3. m * Interval \in Nat /\ (k + 1) * Interval \in Nat
    BY Arithmetic
  <2> QED BY <2>2, <2>3
<1> DEFINE x == (k + 1) * Interval
           y == (l + 1) * Interval
<1>2. x \in Nat /\ y \in Nat /\ x <= y /\ i + x > d + Warning
  BY <1>1, Arithmetic DEF InTime
<1> HIDE DEF x, y
<1>3. j + y > e + Warning
  BY <1>2, Arithmetic
<1> QED BY <1>3 DEF InTime, y

LEMMA OneMore ==
    ASSUME NEW i \in Nat, NEW k \in Nat, NEW d \in Nat, InTime(i, k, d)
    PROVE  InTime(i, k + 1, d + Interval)
<1>1. (k + 1 + 1) * Interval = (k + 1) * Interval + Interval
  BY Arithmetic
<1> DEFINE x == (k + 1) * Interval
<1>2. x \in Nat /\ i + x > d + Warning
  BY Arithmetic DEF InTime
<1> HIDE DEF x
<1>3. i + (x + Interval) > d + Interval + Warning
  BY <1>2, Arithmetic
<1> QED BY <1>1, <1>3 DEF InTime, x

LEMMA Sooner ==
    ASSUME NEW i \in Nat, NEW k \in Nat, NEW d \in Nat, NEW e \in Nat, InTime(i, k, d), e <= d
    PROVE  InTime(i, k, e)
  BY Later

LEMMA Longer ==
    ASSUME NEW i \in Nat, NEW j \in Nat, NEW k \in Nat, NEW d \in Nat, InTime(i, k, d), i <= j
    PROVE  InTime(j, k, d)
  BY Later

LEMMA LessTime ==
    ASSUME NEW i \in Nat, NEW d \in Nat, InTime(i, faults, d), faults \in Nat,
           faults' = faults \/ faults' = faults + 1
    PROVE  InTime(i, faults', d)
<1>1. CASE faults' = faults
  BY <1>1
<1>2. CASE faults' = faults + 1
  <2>1. faults + 1 \in Nat /\ faults <= faults + 1
    OBVIOUS
  <2> QED BY <1>2, <2>1, Later
<1> QED BY <1>1, <1>2

(* A certificate that outlasts the warning need not be looked at now.      *)
LEMMA NotYet ==
    ASSUME NEW i \in Nat, NEW k \in Nat, NEW t \in Nat, i > t + Warning
    PROVE  InTime(i, k, t + Interval)
<1>1. (k + 1) * Interval = k * Interval + Interval /\ k * Interval \in Nat
  BY Arithmetic
<1> DEFINE x == k * Interval
<1>2. x \in Nat
  BY <1>1
<1> HIDE DEF x
<1>3. i + (x + Interval) > t + Interval + Warning
  BY <1>2, Arithmetic
<1> QED BY <1>1, <1>3 DEF InTime, x

(* What the invariant says of the copies. *)
LEMMA Fields ==
    ASSUME IInv
    PROVE  /\ file \in State /\ mem \in State /\ copy \in State /\ held \in State
           /\ client \in BOOLEAN
           /\ worker \in [pc : {"none", "sleep", "round", "rotate", "keys"}, wake : 0 .. MaxTime + 1,
                          types : SUBSET Types, due : SUBSET Certs]
           /\ now \in 0 .. MaxTime /\ now \in Nat /\ worker.wake \in Nat
           /\ faults \in Nat /\ faults <= MaxFaults /\ keygen \in Nat
           /\ \A c \in Certs : TypeOf[c] \in Types /\ (issued[c] # Never => issued[c] \in Nat)
           /\ \A s \in State, t \in Types : s.last[t] # Never => s.last[t] \in Nat
           /\ \A s \in State, c \in Certs : s.certs[c] # Never => s.certs[c] \in Nat
           /\ Fresh \in State /\ Tracked(Fresh) = {} /\ \A t \in Types : Fresh.last[t] = Never
<1>1. Fresh \in State /\ Tracked(Fresh) = {} /\ \A t \in Types : Fresh.last[t] = Never
  <2>1. 0 \in 0 .. MaxTime + MaxFaults + 2 /\ 0 \in Times
    BY Arithmetic DEF Times
  <2> QED BY <2>1 DEF Fresh, State, Tracked
<1>2. \A c \in Certs : TypeOf[c] \in Types
  BY CertificateAssumption
<1>3. \A s \in State, t \in Types : s.last[t] # Never => s.last[t] \in Nat
  BY Arithmetic DEF State
<1>4. \A s \in State, c \in Certs : s.certs[c] # Never => s.certs[c] \in Nat
  BY Arithmetic DEF State
<1>5. \A c \in Certs : issued[c] # Never => issued[c] \in Nat
  BY Arithmetic DEF IInv, TypeOK
<1>6. now \in Nat /\ worker.wake \in Nat /\ faults \in Nat /\ faults <= MaxFaults
  BY Arithmetic DEF IInv, TypeOK
<1> QED BY <1>1, <1>2, <1>3, <1>4, <1>5, <1>6 DEF IInv, TypeOK

-----------------------------------------------------------------------------
(* The parts that a step of the worker, or a save, can disturb. *)
Course == Behind /\ Known /\ Timely /\ OneType /\ (~paused /\ client => Renewed)

(* Two states that name the same certificates and checks. *)
Same(x, s) == x.certs = s.certs /\ x.last = s.last

LEMMA SameTracks ==
    ASSUME NEW x, NEW s, x.certs = s.certs
    PROVE  Tracked(x) = Tracked(s)
  BY DEF Tracked

(* No save puts a certificate back that is neither in the file nor dropped.*)
LEMMA NoneBack ==
    ASSUME IInv, NEW s \in Copies, NEW c \in Tracked(s), c \notin dropped
    PROVE  c \in Tracked(file)
  BY DEF IInv, Known

(* A step of phase 3, a save, a change of the policy.                      *)
Quiet == \/ Bootstrap \/ GenerateCa \/ StartServer \/ HealthcheckCa \/ RecordCa \/ GenerateKeys
         \/ EnableDnssec \/ Persist \/ BootstrapFails \/ CaDies \/ OrchestratorSaves \/ SaveCopy
         \/ (\E on \in BOOLEAN : SetPolicy(on)) \/ UNCHANGED vars

LEMMA QuietIs ==
    ASSUME IInv, Quiet
    PROVE  /\ Same(mem', mem) /\ (Same(file', file) \/ Same(file', mem) \/ Same(file', held))
           /\ UNCHANGED <<now, client, copy, held, issued>>
           /\ worker' = worker \/ (worker.pc = "none" /\ client /\ worker' = Asleep("sleep", now))
           /\ faults' = faults \/ faults' = faults + 1
           /\ dropped' = dropped \cup (Tracked(file) \ Tracked(file'))
           /\ paused => paused'
<1> DEFINE Goal == /\ Same(mem', mem) /\ (Same(file', file) \/ Same(file', mem) \/ Same(file', held))
                   /\ UNCHANGED <<now, client, copy, held, issued>>
                   /\ worker' = worker \/ (worker.pc = "none" /\ client /\ worker' = Asleep("sleep", now))
                   /\ faults' = faults \/ faults' = faults + 1
                   /\ dropped' = dropped \cup (Tracked(file) \ Tracked(file'))
                   /\ paused => paused'
<1>1. file \in State /\ mem \in State
  BY Fields
<1>2. CASE UNCHANGED <<file, mem, worker, hist>> /\ UNCHANGED <<now, client, copy, held, issued>>
           /\ (faults' = faults \/ faults' = faults + 1)
  BY <1>2 DEF hist, Same
<1>3. CASE Bootstrap \/ RecordCa \/ EnableDnssec \/ CaDies \/ UNCHANGED vars
  BY <1>2, <1>3 DEF Bootstrap, RecordCa, EnableDnssec, CaDies, Fault, vars
<1>4. CASE GenerateCa \/ BootstrapFails \/ OrchestratorSaves \/ SaveCopy
  BY <1>4 DEF GenerateCa, BootstrapFails, OrchestratorSaves, SaveCopy, Raise, SaveState, Same, Fault
<1>5. CASE HealthcheckCa
  BY <1>5 DEF HealthcheckCa, Raise, SaveState, Same, hist
<1>6. CASE StartServer
  <2>1. Same(mem', mem)
    BY <1>1, <1>6 DEF StartServer, State, Same
  <2> QED BY <1>6, <2>1 DEF StartServer, Raise, SaveState, Same
<1>7. CASE GenerateKeys
  <2>1. Same(mem', mem)
    BY <1>1, <1>7 DEF GenerateKeys, NewKeys, State, Same
  <2> QED BY <1>7, <2>1 DEF GenerateKeys, Same, hist
<1>8. CASE Persist
  <2>1. Same(mem', mem)
    BY <1>1, <1>8 DEF Persist, State, Same
  <2> QED BY <1>8, <2>1 DEF Persist, SaveState, Same, IInv, Registered
<1>9. ASSUME NEW on \in BOOLEAN, SetPolicy(on) PROVE Goal
  <2>1. Same(file', file)
    BY <1>1, <1>9 DEF SetPolicy, SaveState, State, Same
  <2> QED BY <1>9, <2>1 DEF SetPolicy, SaveState, Same
<1> QED BY <1>3, <1>4, <1>5, <1>6, <1>7, <1>8, <1>9 DEF Quiet

LEMMA QuietKeeps == ASSUME IInv, Quiet PROVE Course'
<1>1. /\ Same(mem', mem) /\ (Same(file', file) \/ Same(file', mem) \/ Same(file', held))
      /\ now' = now /\ client' = client /\ copy' = copy /\ held' = held /\ issued' = issued
      /\ worker' = worker \/ (worker.pc = "none" /\ client /\ worker' = Asleep("sleep", now))
      /\ faults' = faults \/ faults' = faults + 1
      /\ dropped' = dropped \cup (Tracked(file) \ Tracked(file'))
      /\ paused => paused'
  BY QuietIs
<1>2. \A x \in Copies' : \E s \in Copies : Same(x, s)
  BY <1>1 DEF Copies, Same
<1>3. Behind'
  BY <1>1, <1>2, SameTracks DEF IInv, Behind, NotAhead, Same
<1>4. Known'
  BY <1>1, <1>2, SameTracks DEF IInv, Known, Same
<1>5. Timely'
  BY <1>1, <1>2 DEF IInv, Timely, Same, InRound, Asleep
<1>6. OneType'
  BY <1>1, SameTracks DEF IInv, OneType, Same, Asleep
<1>7. ASSUME ~paused', client' PROVE Renewed'
  <2>1. Renewed
    BY <1>1, <1>7 DEF IInv
  <2>2. ASSUME NEW i \in Nat, NEW d \in Nat, InTime(i, faults, d)
        PROVE  InTime(i, faults', d)
    BY <1>1, <2>2, LessTime, Fields
  <2>3. ASSUME NEW c \in Tracked(file') \ dropped' PROVE InTime(issued[c], faults', worker'.wake)
    <3>1. c \in Tracked(file) \ dropped /\ c \in Certs
      BY <1>1, <2>3, NoneBack, SameTracks DEF Copies, Tracked, Same
    <3>2. issued[c] # Never /\ worker' = worker
      BY <1>1, <3>1 DEF IInv, Behind, NotAhead, Copies, Registered
    <3> QED BY <2>1, <2>2, <3>1, <3>2, Fields DEF Renewed
  <2>4. ASSUME NEW s \in Copies, NEW c \in Tracked(s),
               Lasting(s.last[TypeOf[c]], issued[c], faults)
        PROVE  Lasting(s.last[TypeOf[c]], issued[c], faults')
    <3>1. s \in State /\ c \in Certs /\ issued[c] # Never
      BY Fields DEF Copies, Tracked, IInv, Behind, NotAhead
    <3>2. s.last[TypeOf[c]] # Never => s.last[TypeOf[c]] + Interval \in Nat
      BY <3>1, Fields, Arithmetic
    <3> QED BY <2>2, <2>4, <3>1, <3>2, Fields DEF Lasting
  <2>5. ASSUME NEW c \in Tracked(file') \ dropped'
        PROVE  Lasting(file'.last[TypeOf[c]], issued[c], faults')
    <3>1. CASE Same(file', file)
      BY <1>1, <2>1, <2>4, <2>5, <3>1, SameTracks DEF Renewed, Same, Copies
    <3>2. CASE Same(file', mem)
      <4>1. c \in Certs
        BY <2>5 DEF Tracked
      <4> QED BY <3>2, <4>1, Fields DEF Lasting, Same, IInv, Timely
    <3>3. CASE Same(file', held)
      <4>1. c \in Tracked(held) \ dropped
        BY <1>1, <2>5, <3>3, SameTracks DEF Same
      <4>2. Lasting(held.last[TypeOf[c]], issued[c], faults')
        BY <2>1, <2>4, <4>1 DEF Renewed, Copies
      <4> QED BY <3>3, <4>2 DEF Same
    <3> QED BY <1>1, <3>1, <3>2, <3>3
  <2>6. ASSUME NEW c \in Tracked(held) \ dropped'
        PROVE  Lasting(held.last[TypeOf[c]], issued[c], faults')
    BY <1>1, <2>1, <2>4, <2>6 DEF Renewed, Copies
  <2>7. ASSUME NEW c \in Tracked(copy) \ dropped'
        PROVE  IF c \in worker'.due THEN copy.last[TypeOf[c]] = now
               ELSE Lasting(copy.last[TypeOf[c]], issued[c], faults')
    <3>1. worker' = worker
      BY <1>1, <2>7 DEF IInv, Registered, Copies
    <3> QED BY <1>1, <2>1, <2>4, <2>7, <3>1 DEF Renewed, Copies
  <2>8. InRound' => \A t \in Types \ worker'.types :
                       copy.last[t] # Never /\ now < copy.last[t] + Interval
    BY <1>1, <2>1 DEF Renewed, InRound, Asleep
  <2> QED BY <1>1, <2>3, <2>5, <2>6, <2>7, <2>8 DEF Renewed
<1> QED BY <1>3, <1>4, <1>5, <1>6, <1>7 DEF Course

(* Time the file and the requests are left, when a call fails.             *)
LEMMA StillLasting ==
    ASSUME IInv, NEW s \in Copies, NEW c \in Tracked(s), faults' = faults \/ faults' = faults + 1,
           Lasting(s.last[TypeOf[c]], issued[c], faults)
    PROVE  Lasting(s.last[TypeOf[c]], issued[c], faults')
<1>1. s \in State /\ c \in Certs /\ issued[c] # Never
  BY Fields DEF Copies, Tracked, IInv, Behind, NotAhead
<1>2. s.last[TypeOf[c]] # Never => s.last[TypeOf[c]] + Interval \in Nat
  BY <1>1, Fields, Arithmetic
<1> QED BY <1>1, <1>2, Fields, LessTime DEF Lasting

(* A step of the worker on its copy. *)
LEMMA OwnStep ==
    ASSUME IInv, UNCHANGED <<now, client, file, mem, held, issued, hist>>,
           faults' = faults \/ faults' = faults + 1,
           worker'.wake = worker.wake, worker.pc = "sleep" => now >= worker.wake,
           worker.pc # "none", worker'.pc # "none",
           copy'.certs \in {copy.certs, file.certs, Fresh.certs},
           \A t \in Types : copy'.last[t] # Never => copy'.last[t] <= now,
           OneType',
           ~paused => /\ \A c \in Tracked(copy') \ dropped :
                            IF c \in worker'.due THEN copy'.last[TypeOf[c]] = now
                            ELSE Lasting(copy'.last[TypeOf[c]], issued[c], faults')
                      /\ InRound' => \A t \in Types \ worker'.types :
                                       copy'.last[t] # Never /\ now < copy'.last[t] + Interval
    PROVE  Course'
<1>1. /\ now' = now /\ client' = client /\ file' = file /\ mem' = mem /\ held' = held /\ issued' = issued
      /\ dropped' = dropped /\ paused' = paused
  BY DEF hist
<1>2. Tracked(copy') \in {Tracked(copy), Tracked(file), {}}
  BY Fields, SameTracks DEF Tracked
<1>3. NotAhead(copy', issued)
  <2>1. NotAhead(copy, issued) /\ NotAhead(file, issued) /\ NotAhead(Fresh, issued)
    BY Fields DEF IInv, Behind, Copies, NotAhead
  <2> QED BY <2>1 DEF NotAhead, Tracked
<1>4. Behind'
  BY <1>1, <1>3 DEF IInv, Behind, Copies
<1>5. Known'
  BY <1>1, <1>2 DEF IInv, Known, Copies
<1>6. worker.wake = now
  BY Fields DEF IInv, Timely, TypeOK, InRound
<1>7. Timely'
  BY <1>1, <1>6 DEF IInv, Timely, Copies, InRound
<1>8. ASSUME ~paused', client' PROVE Renewed'
  <2>1. Renewed
    BY <1>1, <1>8 DEF IInv
  <2>2. ASSUME NEW c \in Tracked(file) \ dropped PROVE InTime(issued[c], faults', worker.wake)
    <3>1. c \in Certs /\ issued[c] # Never /\ InTime(issued[c], faults, worker.wake)
      BY <2>1, <2>2 DEF Renewed, Tracked, IInv, Behind, NotAhead, Copies
    <3> QED BY <3>1, LessTime, Fields
  <2>3. ASSUME NEW s \in {file, held}, NEW c \in Tracked(s) \ dropped
        PROVE  Lasting(s.last[TypeOf[c]], issued[c], faults')
    BY <2>1, <2>3, StillLasting DEF Renewed, Copies
  <2> QED BY <1>1, <1>8, <2>2, <2>3 DEF Renewed
<1> QED BY <1>4, <1>5, <1>7, <1>8 DEF Course

LEMMA LoadKeeps == ASSUME IInv, Load PROVE Course'
<1>1. /\ UNCHANGED <<now, client, file, mem, held, issued, hist>> /\ faults' = faults
      /\ copy' = file /\ worker.pc = "sleep" /\ now >= worker.wake
      /\ paused' = paused /\ dropped' = dropped
  BY DEF Load, hist
<1>2. /\ worker'.pc = "round" /\ worker'.wake = worker.wake /\ worker'.due = {}
      /\ worker'.types = PolicyTypes(file)
  BY Fields DEF Load, IInv, OneType
<1>3. OneType'
  BY <1>2 DEF OneType
<1>4. \A t \in Types : file.last[t] # Never => file.last[t] <= now
  BY DEF IInv, Timely, Copies
<1>5. ~paused => /\ \A c \in Tracked(file) \ dropped : Lasting(file.last[TypeOf[c]], issued[c], faults)
                 /\ worker'.types = Types
  BY <1>1, <1>2 DEF IInv, Renewed, Registered, PolicyTypes
<1> QED BY <1>1, <1>2, <1>3, <1>4, <1>5, OwnStep

LEMMA StartTypeKeeps == ASSUME IInv, NEW t \in Types, StartType(t) PROVE Course'
<1>1. /\ UNCHANGED <<now, client, file, mem, held, issued, hist>> /\ faults' = faults
      /\ worker.pc = "round" /\ t \in worker.types /\ client
      /\ paused' = paused /\ dropped' = dropped
  BY DEF StartType, hist, IInv, Registered
<1>2. /\ worker'.wake = worker.wake /\ worker'.types = worker.types \ {t} /\ worker.due = {}
      /\ worker'.pc \in {"round", "rotate"}
      /\ worker'.pc = "round" => worker'.due = {}
      /\ worker'.due = IF ShouldCheck(t) THEN Expiring(t) ELSE {}
      /\ worker.wake = now
  BY <1>1, Fields DEF StartType, IInv, OneType, Timely, InRound
<1>3. /\ copy'.certs = copy.certs
      /\ copy'.last = IF ShouldCheck(t) THEN [copy.last EXCEPT ![t] = now] ELSE copy.last
  BY Fields DEF StartType, State
<1>4. \A u \in Types : copy'.last[u] = IF ShouldCheck(t) /\ u = t THEN now ELSE copy.last[u]
  BY <1>3, Fields DEF State
<1>5. \A u \in Types : copy'.last[u] # Never => copy'.last[u] <= now
  BY <1>4, Fields DEF IInv, Timely, Copies
<1>6. Tracked(copy') = Tracked(copy)
  BY <1>3, SameTracks
<1>7. OneType'
  BY <1>2, <1>6 DEF OneType, Expiring
<1>8. ASSUME ~paused, NEW c \in Tracked(copy) \ dropped, c \notin worker'.due
      PROVE  Lasting(copy'.last[TypeOf[c]], issued[c], faults)
  <2>1. Lasting(copy.last[TypeOf[c]], issued[c], faults)
    BY <1>1, <1>2, <1>8 DEF IInv, Renewed
  <2>2. c \in Certs /\ TypeOf[c] \in Types
    BY <1>8, Fields DEF Tracked
  <2>3. CASE ShouldCheck(t) /\ TypeOf[c] = t
    <3>1. ~(copy.certs[c] <= now + Warning)
      BY <1>2, <1>8, <2>3 DEF Expiring
    <3>2. issued[c] # Never /\ copy.certs[c] <= issued[c] /\ copy.certs[c] # Never
      BY <1>8 DEF IInv, Behind, NotAhead, Copies, Tracked
    <3>3. issued[c] \in Nat /\ copy.certs[c] \in Nat
      BY <2>2, <3>2, Fields
    <3>4. issued[c] > now + Warning
      BY <3>1, <3>2, <3>3, Fields, Arithmetic
    <3>5. InTime(issued[c], faults, now + Interval)
      BY <3>3, <3>4, Fields, NotYet
    <3> QED BY <1>4, <2>2, <2>3, <3>5 DEF Lasting
  <2>4. CASE ~(ShouldCheck(t) /\ TypeOf[c] = t)
    BY <1>4, <2>1, <2>2, <2>4
  <2> QED BY <2>3, <2>4
<1>9. ASSUME ~paused, NEW c \in Tracked(copy) \ dropped, c \in worker'.due
      PROVE  copy'.last[TypeOf[c]] = now
  BY <1>2, <1>4, <1>9 DEF Expiring
<1>10. ASSUME ~paused, NEW u \in Types \ worker'.types
       PROVE  copy'.last[u] # Never /\ now < copy'.last[u] + Interval
  <2>1. CASE u = t
    <3>1. CASE ShouldCheck(t)
      BY <1>4, <2>1, <3>1, Fields, Arithmetic
    <3>2. CASE ~ShouldCheck(t)
      <4>1. copy.last[t] # Never /\ ~(now >= copy.last[t] + Interval)
        BY <3>2 DEF ShouldCheck
      <4>2. copy.last[t] \in Nat
        BY <4>1, Fields
      <4> QED BY <1>4, <2>1, <3>2, <4>1, <4>2, Fields, Arithmetic
    <3> QED BY <3>1, <3>2
  <2>2. CASE u # t
    <3>1. copy.last[u] # Never /\ now < copy.last[u] + Interval
      BY <1>1, <1>2, <1>10, <2>2 DEF IInv, Renewed, InRound
    <3> QED BY <1>4, <2>2, <3>1
  <2> QED BY <2>1, <2>2
<1> QED BY <1>1, <1>2, <1>3, <1>5, <1>6, <1>7, <1>8, <1>9, <1>10, OwnStep

(* What the worker does between two types, and after the last.             *)
LEMMA BetweenKeeps == ASSUME IInv, TypeChecked \/ RotateKeys PROVE Course'
<1>1. /\ UNCHANGED <<now, client, file, mem, held, issued, hist>>
      /\ faults' = faults \/ faults' = faults + 1
      /\ paused' = paused /\ dropped' = dropped
  BY DEF TypeChecked, RotateKeys, hist, Fault
<1>2. /\ worker'.wake = worker.wake /\ worker'.types = worker.types /\ worker.due = {}
      /\ worker'.due = {} /\ worker'.pc \in {"round", "keys"} /\ InRound
      /\ worker.pc # "none" /\ worker.pc # "sleep" /\ client
      /\ worker'.pc = "keys" => worker'.types = {}
  BY Fields DEF TypeChecked, RotateKeys, IInv, OneType, InRound, Registered
<1>3. copy'.certs = copy.certs /\ copy'.last = copy.last
  BY Fields DEF TypeChecked, RotateKeys, NewKeys, State
<1>4. Tracked(copy') = Tracked(copy)
  BY <1>3, SameTracks
<1>5. OneType'
  BY <1>2 DEF OneType
<1>6. \A t \in Types : copy'.last[t] # Never => copy'.last[t] <= now
  BY <1>3 DEF IInv, Timely, Copies
<1>7. ASSUME ~paused, NEW c \in Tracked(copy) \ dropped
      PROVE  Lasting(copy.last[TypeOf[c]], issued[c], faults')
  BY <1>1, <1>2, <1>7, StillLasting DEF IInv, Renewed, Copies
<1>8. ~paused => \A t \in Types \ worker.types : copy.last[t] # Never /\ now < copy.last[t] + Interval
  BY <1>2 DEF IInv, Renewed
<1> QED BY <1>1, <1>2, <1>3, <1>4, <1>5, <1>6, <1>7, <1>8, OwnStep

LEMMA RoundFailsKeeps == ASSUME IInv, RoundFails PROVE Course'
<1>1. /\ UNCHANGED <<now, client, file, mem, held, issued, hist>> /\ faults' = faults + 1
      /\ copy' = Fresh /\ worker' = Asleep("sleep", now)
      /\ worker.pc \in {"round", "keys"} /\ worker.wake = now
  BY DEF RoundFails, Fault, IInv, Timely, InRound
<1>2. /\ worker'.wake = worker.wake /\ worker'.pc = "sleep" /\ worker'.due = {} /\ ~InRound'
  BY <1>1 DEF Asleep, InRound
<1>3. OneType'
  BY <1>2 DEF OneType
<1> QED BY <1>1, <1>2, <1>3, Fields, OwnStep

(* The copy of the worker replaces the file.                               *)
LEMMA SaveRoundKeeps == ASSUME IInv, SaveRound PROVE Course'
<1>1. /\ now' = now /\ client' = client /\ mem' = mem /\ held' = held
      /\ issued' = issued /\ faults' = faults
      /\ file' = copy /\ copy' = Fresh /\ worker' = Asleep("sleep", now + 1)
      /\ dropped' = dropped \cup (Tracked(file) \ Tracked(copy))
      /\ paused' = (paused \/ ~copy.enabled)
      /\ worker.pc = "keys" /\ worker.due = {} /\ worker.types = {}
  BY DEF SaveRound, SaveState, IInv, OneType
<1>2. worker'.pc = "sleep" /\ worker'.due = {} /\ worker'.wake = now + 1 /\ ~InRound'
  BY <1>1 DEF Asleep, InRound
<1>3. Behind'
  <2>1. NotAhead(Fresh, issued)
    BY Fields DEF NotAhead
  <2> QED BY <1>1, <2>1 DEF IInv, Behind, Copies
<1>4. Known'
  BY <1>1, Fields DEF IInv, Known, Copies
<1>5. Timely'
  BY <1>1, <1>2, Fields DEF IInv, Timely, Copies
<1>6. OneType'
  BY <1>2 DEF OneType
<1>7. ASSUME ~paused', client' PROVE Renewed'
  <2>1. Renewed
    BY <1>1, <1>7 DEF IInv
  <2>2. ASSUME NEW c \in Tracked(copy) \ dropped PROVE InTime(issued[c], faults, now + 1)
    <3>1. Lasting(copy.last[TypeOf[c]], issued[c], faults)
      BY <1>1, <2>1, <2>2 DEF Renewed
    <3>2. c \in Certs /\ TypeOf[c] \in Types /\ issued[c] # Never
      BY <2>2, Fields DEF Tracked, IInv, Behind, NotAhead, Copies
    <3>3. copy.last[TypeOf[c]] # Never /\ now < copy.last[TypeOf[c]] + Interval
      BY <1>1, <2>1, <3>2 DEF Renewed, InRound
    <3>4. issued[c] \in Nat /\ copy.last[TypeOf[c]] \in Nat
      BY <3>2, <3>3, Fields
    <3>5. copy.last[TypeOf[c]] + Interval \in Nat /\ now + 1 \in Nat
          /\ now + 1 <= copy.last[TypeOf[c]] + Interval
      BY <3>3, <3>4, Fields, Arithmetic
    <3>6. InTime(issued[c], faults, copy.last[TypeOf[c]] + Interval)
      BY <3>1, <3>3 DEF Lasting
    <3> QED BY <3>4, <3>5, <3>6, Fields, Sooner
  <2>3. ASSUME NEW c \in Tracked(copy) \ dropped PROVE Lasting(copy.last[TypeOf[c]], issued[c], faults)
    BY <1>1, <2>1, <2>3 DEF Renewed
  <2>4. ASSUME NEW c \in Tracked(held) \ dropped
        PROVE  Lasting(held.last[TypeOf[c]], issued[c], faults)
    BY <2>1, <2>4 DEF Renewed
  <2> QED BY <1>1, <1>2, <2>2, <2>3, <2>4, Fields DEF Renewed
<1> QED BY <1>3, <1>4, <1>5, <1>6, <1>7 DEF Course

(* An hour passes only while the worker sleeps, and never the one to wake. *)
LEMMA TickKeeps == ASSUME IInv, Tick PROVE Course'
<1>1. /\ now' = now + 1 /\ client' = client /\ file' = file /\ mem' = mem /\ copy' = copy /\ held' = held
      /\ worker' = worker /\ issued' = issued /\ faults' = faults
      /\ dropped' = dropped /\ paused' = paused
      /\ worker.pc \in {"none", "sleep"} /\ (worker.pc = "sleep" => now < worker.wake)
  BY DEF Tick, hist
<1>2. Behind'
  <2>1. \A c \in Certs : issued[c] # Never => issued[c] <= now + 1 + Lifetime
    BY Fields, Arithmetic DEF IInv, Behind
  <2> QED BY <1>1, <2>1 DEF IInv, Behind, Copies
<1>3. Known'
  BY <1>1 DEF IInv, Known, Copies
<1>4. Timely'
  <2>1. worker.pc = "sleep" => worker.wake = now + 1
    BY <1>1, Fields DEF IInv, Timely
  <2>2. \A s \in Copies, t \in Types : s.last[t] # Never => s.last[t] <= now + 1
    BY Fields DEF IInv, Timely, Copies
  <2> QED BY <1>1, <2>1, <2>2 DEF IInv, Timely, Copies, InRound
<1>5. OneType'
  BY <1>1 DEF IInv, OneType
<1>6. ~paused' /\ client' => Renewed'
  BY <1>1 DEF IInv, Renewed, OneType, InRound
<1> QED BY <1>2, <1>3, <1>4, <1>5, <1>6 DEF Course

LEMMA LoadCopyKeeps == ASSUME IInv, LoadCopy PROVE Course'
<1>1. /\ now' = now /\ client' = client /\ file' = file /\ mem' = mem /\ copy' = copy
      /\ held' = file /\ worker' = worker /\ issued' = issued /\ faults' = faults
      /\ dropped' = dropped /\ paused' = paused
  BY DEF LoadCopy, hist
<1>2. Behind' /\ Known' /\ Timely'
  BY <1>1 DEF IInv, Behind, Known, Timely, Copies, InRound
<1>3. OneType' /\ (~paused' /\ client' => Renewed')
  BY <1>1 DEF IInv, OneType, Renewed, InRound
<1> QED BY <1>2, <1>3 DEF Course

-----------------------------------------------------------------------------
(* A new certificate lasts longer than the one it replaces.                *)
LEMMA Grown ==
    ASSUME IInv, NEW c \in Certs,
           issued' = issued \/ issued' = [issued EXCEPT ![c] = now + Lifetime],
           faults' = faults \/ faults' = faults + 1
    PROVE  /\ \A x \in Certs : issued[x] # Never =>
                 /\ issued'[x] # Never
                 /\ \A d \in Nat : InTime(issued[x], faults, d) => InTime(issued'[x], faults', d)
           /\ \A x \in Certs : issued'[x] # Never => issued'[x] <= now + Lifetime
           /\ \A s \in Copies : NotAhead(s, issued')
           /\ \A s \in Copies, x \in Certs :
                 x \in Tracked(s) /\ Lasting(s.last[TypeOf[x]], issued[x], faults)
                    => Lasting(s.last[TypeOf[x]], issued'[x], faults')
<1>1. now + Lifetime \in Nat /\ now + Lifetime # Never
  BY Fields, Arithmetic
<1>2. ASSUME NEW x \in Certs, issued[x] # Never
      PROVE  /\ issued[x] \in Nat
             /\ \/ issued'[x] = issued[x]
                \/ issued'[x] = now + Lifetime /\ issued[x] <= now + Lifetime
  BY <1>2, Fields DEF IInv, TypeOK, Behind
<1>3. ASSUME NEW x \in Certs, issued[x] # Never
      PROVE  issued'[x] \in Nat /\ issued[x] <= issued'[x] /\ issued'[x] # Never
  BY <1>1, <1>2, <1>3
<1>4. ASSUME NEW x \in Certs, issued[x] # Never, NEW d \in Nat, InTime(issued[x], faults, d)
      PROVE  InTime(issued'[x], faults', d)
  <2>1. \A j \in Nat : issued[x] <= j => InTime(j, faults, d)
    BY <1>2, <1>4, Fields, Longer
  <2>2. \A j \in Nat : issued[x] <= j => InTime(j, faults', d)
    BY <2>1, Fields, LessTime
  <2> QED BY <1>3, <1>4, <2>2
<1>5. \A x \in Certs : issued'[x] # Never => issued'[x] <= now + Lifetime
  BY <1>1 DEF IInv, TypeOK, Behind
<1>6. \A s \in Copies : NotAhead(s, issued')
  <2> SUFFICES ASSUME NEW s \in Copies, NEW x \in Tracked(s)
               PROVE  issued'[x] # Never /\ s.certs[x] <= issued'[x]
    BY DEF NotAhead
  <2>1. s \in State /\ x \in Certs /\ s.certs[x] # Never
    BY Fields DEF Copies, Tracked
  <2>2. issued[x] # Never /\ s.certs[x] <= issued[x] /\ s.certs[x] \in Nat
    BY <2>1, Fields DEF IInv, Behind, NotAhead
  <2> QED BY <1>1, <1>2, <2>1, <2>2
<1>7. ASSUME NEW s \in Copies, NEW x \in Certs, x \in Tracked(s),
             Lasting(s.last[TypeOf[x]], issued[x], faults)
      PROVE  Lasting(s.last[TypeOf[x]], issued'[x], faults')
  <2>1. s \in State /\ issued[x] # Never
    BY <1>7, Fields DEF Copies, IInv, Behind, NotAhead
  <2>2. s.last[TypeOf[x]] # Never => s.last[TypeOf[x]] + Interval \in Nat
    BY <2>1, Fields, Arithmetic
  <2> QED BY <1>4, <1>7, <2>1, <2>2 DEF Lasting
<1> QED BY <1>3, <1>4, <1>5, <1>6, <1>7

(* A certificate just issued outlasts the next checks.                     *)
LEMMA JustIssued ==
    ASSUME IInv, NEW d \in Nat, d <= now + Interval
    PROVE  InTime(now + Lifetime, faults, d)
<1>1. now + Lifetime \in Nat /\ now + Interval \in Nat /\ now + Lifetime > now + Warning
  BY Fields, Arithmetic
<1>2. InTime(now + Lifetime, faults, now + Interval)
  BY <1>1, Fields, NotYet
<1> QED BY <1>1, <1>2, Fields, Sooner

LEMMA RotateCertKeeps == ASSUME IInv, NEW c \in Certs, RotateCert(c) PROVE Course'
<1>1. /\ now' = now /\ client' = client /\ file' = file /\ mem' = mem /\ held' = held
      /\ dropped' = dropped /\ paused' = paused /\ c \in worker.due
  BY DEF RotateCert, hist
<1>2. \/ /\ issued' = [issued EXCEPT ![c] = now + Lifetime] /\ faults' = faults
         /\ copy' = [copy EXCEPT !.certs[c] = now + Lifetime]
      \/ /\ issued' = issued \/ issued' = [issued EXCEPT ![c] = now + Lifetime]
         /\ faults' = faults + 1 /\ copy' = copy
  BY DEF RotateCert, IssueCert, Fault
<1>3. /\ worker'.pc = "rotate" /\ worker.pc = "rotate" /\ worker'.wake = worker.wake
      /\ worker'.due = worker.due \ {c} /\ worker'.types = worker.types
      /\ worker.wake = now /\ InRound
  BY <1>1, Fields DEF RotateCert, IInv, OneType, Timely, InRound
<1>4. c \in Tracked(copy) /\ issued[c] # Never
  BY <1>1 DEF IInv, OneType, Behind, NotAhead, Copies
<1>5. now + Lifetime \in Nat /\ now + Lifetime # Never
  BY Fields, Arithmetic
<1>6. /\ copy'.last = copy.last
      /\ \A x \in Certs : copy'.certs[x] \in {copy.certs[x], issued'[x]}
      /\ \A x \in Certs \ {c} : copy'.certs[x] = copy.certs[x]
      /\ copy'.certs[c] # Never
  <2>1. copy \in State /\ issued \in [Certs -> Times \cup {Never}]
    BY Fields DEF IInv, TypeOK
  <2> QED BY <1>2, <1>4, <1>5, <2>1 DEF State, Tracked
<1>7. Tracked(copy') = Tracked(copy)
  BY <1>4, <1>6 DEF Tracked
<1>8. /\ \A x \in Certs : issued[x] # Never =>
            /\ issued'[x] # Never
            /\ \A d \in Nat : InTime(issued[x], faults, d) => InTime(issued'[x], faults', d)
      /\ \A x \in Certs : issued'[x] # Never => issued'[x] <= now + Lifetime
      /\ \A s \in Copies : NotAhead(s, issued')
      /\ \A s \in Copies, x \in Certs :
            x \in Tracked(s) /\ Lasting(s.last[TypeOf[x]], issued[x], faults)
               => Lasting(s.last[TypeOf[x]], issued'[x], faults')
  BY <1>2, Grown
<1>9. Behind'
  <2>1. NotAhead(copy', issued')
    <3> SUFFICES ASSUME NEW x \in Tracked(copy)
                 PROVE  issued'[x] # Never /\ copy'.certs[x] <= issued'[x]
      BY <1>7 DEF NotAhead
    <3>1. x \in Certs /\ issued'[x] # Never /\ copy.certs[x] <= issued'[x]
      BY <1>8 DEF NotAhead, Copies, Tracked
    <3>2. issued'[x] \in Nat
      BY <1>2, <1>5, <3>1, Fields DEF IInv, TypeOK
    <3> QED BY <1>6, <3>1, <3>2
  <2> QED BY <1>1, <1>8, <2>1 DEF Behind, Copies
<1>10. Known'
  BY <1>1, <1>7 DEF IInv, Known, Copies
<1>11. Timely'
  BY <1>1, <1>3, <1>6 DEF IInv, Timely, Copies, InRound
<1>12. OneType'
  BY <1>3, <1>7 DEF IInv, OneType
<1>13. ASSUME ~paused', client' PROVE Renewed'
  <2>1. Renewed
    BY <1>1, <1>13 DEF IInv
  <2>2. ASSUME NEW x \in Tracked(file) \ dropped
        PROVE  InTime(issued'[x], faults', now) /\ InTime(issued[x], faults, now)
    <3>1. x \in Certs /\ issued[x] # Never /\ InTime(issued[x], faults, now)
      BY <1>3, <2>1, <2>2 DEF Renewed, Tracked, IInv, Behind, NotAhead, Copies
    <3> QED BY <1>8, <3>1, Fields
  <2>3. ASSUME NEW s \in {file, held}, NEW x \in Tracked(s) \ dropped
        PROVE  Lasting(s.last[TypeOf[x]], issued'[x], faults')
    <3>1. Lasting(s.last[TypeOf[x]], issued[x], faults) /\ x \in Certs /\ s \in Copies
      BY <2>1, <2>3 DEF Renewed, Tracked, Copies
    <3> QED BY <1>8, <2>3, <3>1
  <2>4. ASSUME NEW x \in Tracked(copy) \ dropped
        PROVE  IF x \in worker'.due THEN copy.last[TypeOf[x]] = now
               ELSE Lasting(copy.last[TypeOf[x]], issued'[x], faults')
    <3>1. IF x \in worker.due THEN copy.last[TypeOf[x]] = now
          ELSE Lasting(copy.last[TypeOf[x]], issued[x], faults)
      BY <2>1, <2>4 DEF Renewed
    <3>2. x \in Certs /\ copy \in Copies
      BY <2>4 DEF Tracked, Copies
    <3>3. CASE x # c
      BY <1>3, <1>8, <2>4, <3>1, <3>2, <3>3
    <3>4. CASE x = c
      <4>1. copy.last[TypeOf[c]] = now /\ x \notin worker'.due
        BY <1>1, <1>3, <3>1, <3>4
      <4>2. InTime(issued'[c], faults', now + Interval)
        <5>1. CASE issued'[c] = now + Lifetime /\ faults' = faults
          <6>1. now + Interval \in Nat /\ now + Interval <= now + Interval
            BY Fields, Arithmetic
          <6> QED BY <5>1, <6>1, JustIssued
        <5>2. CASE faults' = faults + 1
          <6>1. InTime(issued[c], faults, now) /\ issued[c] \in Nat
            BY <1>4, <2>2, <2>4, <3>4, Fields, NoneBack DEF Copies
          <6>2. InTime(issued[c], faults + 1, now + Interval)
            BY <6>1, Fields, OneMore
          <6>3. issued'[c] = issued[c] \/ (issued'[c] = now + Lifetime /\ issued[c] <= now + Lifetime)
            BY <1>2, <1>4 DEF IInv, TypeOK, Behind
          <6>4. faults + 1 \in Nat /\ now + Interval \in Nat
            BY Fields, Arithmetic
          <6>5. \A j \in Nat : issued[c] <= j => InTime(j, faults + 1, now + Interval)
            BY <6>1, <6>2, <6>4, Longer
          <6> QED BY <1>5, <5>2, <6>2, <6>3, <6>5
        <5>3. issued \in [Certs -> Times \cup {Never}]
          BY DEF IInv, TypeOK
        <5> QED BY <1>2, <5>1, <5>2, <5>3
      <4> QED BY <3>4, <4>1, <4>2 DEF Lasting
    <3> QED BY <3>3, <3>4
  <2>5. \A t \in Types \ worker.types : copy.last[t] # Never /\ now < copy.last[t] + Interval
    BY <1>3, <2>1 DEF Renewed
  <2> QED BY <1>1, <1>3, <1>6, <1>7, <2>2, <2>3, <2>4, <2>5 DEF Renewed
<1> QED BY <1>9, <1>10, <1>11, <1>12, <1>13 DEF Course

(* A certificate is issued and recorded in the state of the orchestrator,  *)
(* which replaces the file.                                                *)
LEMMA TrackKeeps == ASSUME IInv, NEW c \in Certs, Track(c) PROVE Course'
<1>1. /\ issued' = [issued EXCEPT ![c] = now + Lifetime] /\ file' = mem' /\ held' = held
      /\ dropped' = dropped \cup (Tracked(file) \ Tracked(mem'))
      /\ paused => paused'
      /\ now' = now /\ client' = client /\ copy' = copy /\ worker' = worker /\ faults' = faults
  BY DEF Track, IssueCert, SaveState
<1>2. now + Lifetime \in Nat /\ now + Lifetime # Never
  BY Fields, Arithmetic
<1>3. /\ issued'[c] = now + Lifetime /\ mem'.certs[c] = now + Lifetime /\ mem'.last = mem.last
      /\ \A x \in Certs \ {c} : issued'[x] = issued[x] /\ mem'.certs[x] = mem.certs[x]
  BY <1>1, Fields DEF Track, State, IInv, TypeOK
<1>4. Tracked(mem') = Tracked(mem) \cup {c}
  BY <1>2, <1>3 DEF Tracked
<1>5. /\ \A x \in Certs : issued[x] # Never =>
            /\ issued'[x] # Never
            /\ \A d \in Nat : InTime(issued[x], faults, d) => InTime(issued'[x], faults, d)
      /\ \A x \in Certs : issued'[x] # Never => issued'[x] <= now + Lifetime
      /\ \A r \in Copies : NotAhead(r, issued')
      /\ \A r \in Copies, x \in Certs :
            x \in Tracked(r) /\ Lasting(r.last[TypeOf[x]], issued[x], faults)
               => Lasting(r.last[TypeOf[x]], issued'[x], faults)
  BY <1>1, Grown
<1>6. Behind'
  <2>1. NotAhead(mem', issued')
    <3> SUFFICES ASSUME NEW x \in Tracked(mem')
                 PROVE  issued'[x] # Never /\ mem'.certs[x] <= issued'[x]
      BY DEF NotAhead
    <3>1. CASE x = c
      BY <1>2, <1>3, <3>1
    <3>2. CASE x # c
      BY <1>3, <1>4, <1>5, <3>2 DEF NotAhead, Tracked, Copies
    <3> QED BY <3>1, <3>2
  <2> QED BY <1>1, <1>5, <2>1 DEF Behind, Copies
<1>7. Known'
  BY <1>1, <1>4, Fields DEF IInv, Known, Copies
<1>8. Timely'
  BY <1>1, <1>3, Fields DEF IInv, Timely, Copies, InRound
<1>9. OneType'
  BY <1>1 DEF IInv, OneType
<1>10. ASSUME ~paused', client' PROVE Renewed'
  <2>1. Renewed /\ worker.pc # "none"
    BY <1>1, <1>10 DEF IInv, Registered, Track, Copies
  <2>2. worker.wake \in Nat /\ worker.wake <= now + Interval
    BY <2>1, Fields, Arithmetic DEF IInv, Timely, InRound
  <2>3. ASSUME NEW x \in Tracked(mem') \ dropped' PROVE InTime(issued'[x], faults, worker.wake)
    <3>1. CASE x = c
      BY <1>3, <2>2, <3>1, JustIssued
    <3>2. CASE x # c
      <4>1. x \in Tracked(file) \ dropped /\ x \in Certs
        BY <1>1, <1>4, <2>3, <3>2, NoneBack DEF Tracked, Copies
      <4>2. issued[x] # Never /\ InTime(issued[x], faults, worker.wake)
        BY <2>1, <4>1 DEF Renewed, IInv, Behind, NotAhead, Copies
      <4> QED BY <1>5, <2>2, <4>1, <4>2
    <3> QED BY <3>1, <3>2
  <2>4. ASSUME NEW x \in Tracked(held) \ dropped
        PROVE  Lasting(held.last[TypeOf[x]], issued'[x], faults)
    <3>1. x \in Certs /\ Lasting(held.last[TypeOf[x]], issued[x], faults)
      BY <2>1, <2>4 DEF Renewed, Tracked
    <3> QED BY <1>5, <2>4, <3>1 DEF Copies
  <2>5. ASSUME NEW x \in Tracked(mem') \ dropped'
        PROVE  Lasting(mem'.last[TypeOf[x]], issued'[x], faults)
    <3>1. x \in Certs
      BY <2>5 DEF Tracked
    <3> QED BY <1>3, <3>1, Fields DEF Lasting, IInv, Timely
  <2>6. ASSUME NEW x \in Tracked(copy) \ dropped
        PROVE  IF x \in worker.due THEN copy.last[TypeOf[x]] = now
               ELSE Lasting(copy.last[TypeOf[x]], issued'[x], faults)
    <3>1. /\ x \in Certs /\ copy \in Copies
          /\ IF x \in worker.due THEN copy.last[TypeOf[x]] = now
             ELSE Lasting(copy.last[TypeOf[x]], issued[x], faults)
      BY <2>1, <2>6 DEF Renewed, Tracked, Copies
    <3> QED BY <1>5, <2>6, <3>1
  <2>7. InRound => \A t \in Types \ worker.types :
                      copy.last[t] # Never /\ now < copy.last[t] + Interval
    BY <2>1 DEF Renewed
  <2> QED BY <1>1, <2>3, <2>4, <2>5, <2>6, <2>7 DEF Renewed, InRound
<1> QED BY <1>6, <1>7, <1>8, <1>9, <1>10 DEF Course

LEMMA CourseKept == ASSUME IInv, [Next]_vars PROVE Course'
  BY QuietKeeps, LoadKeeps, StartTypeKeeps, BetweenKeeps, RoundFailsKeeps, SaveRoundKeeps, TickKeeps,
     LoadCopyKeeps, RotateCertKeeps, TrackKeeps DEF Next, Quiet

-----------------------------------------------------------------------------
LEMMA ClientKept == [Next]_vars => client' = client
  BY DEF Next, vars, Bootstrap, GenerateCa, StartServer, HealthcheckCa, RecordCa, GenerateKeys,
      EnableDnssec, Persist, BootstrapFails, CaDies, Load, TypeChecked, RotateKeys, SaveRound,
      RoundFails, StartType, RotateCert, Track, OrchestratorSaves, LoadCopy, SaveCopy, Tick, SetPolicy

(* Certificates are tracked only after phase 3, which registers the worker *)
(* if it can.                                                              *)
LEMMA RegisteredKept == ASSUME IInv, [Next]_vars PROVE Registered'
<1>1. mem \in State /\ file \in State /\ held \in State /\ mem.enabled
  BY Fields DEF IInv, Registered
<1>2. mem'.enabled
  <2>1. CASE UNCHANGED mem
    BY <1>1, <2>1
  <2>2. CASE StartServer \/ GenerateKeys \/ Persist \/ \E c \in Certs : Track(c)
    BY <1>1, <2>2 DEF StartServer, GenerateKeys, Persist, Track, NewKeys, State
  <2> QED BY <2>1, <2>2 DEF Next, vars, Bootstrap, GenerateCa, HealthcheckCa, RecordCa, EnableDnssec,
        BootstrapFails, CaDies, Load, TypeChecked, RotateKeys, SaveRound, RoundFails, StartType,
        RotateCert, OrchestratorSaves, LoadCopy, SaveCopy, Tick, SetPolicy
<1>3. ~paused' => file'.enabled
  <2>1. CASE UNCHANGED <<file, paused>>
    BY <2>1 DEF IInv, Registered
  <2>2. ASSUME NEW s, SaveState(s) PROVE ~paused' => file'.enabled
    BY <2>2 DEF SaveState
  <2>3. CASE GenerateCa \/ StartServer \/ HealthcheckCa \/ Persist \/ BootstrapFails
    BY <2>1, <2>3 DEF GenerateCa, StartServer, HealthcheckCa, Persist, BootstrapFails, Raise, hist,
                      SaveState
  <2>4. CASE SaveRound \/ OrchestratorSaves \/ SaveCopy \/ \E c \in Certs : Track(c)
    BY <2>2, <2>4 DEF SaveRound, OrchestratorSaves, SaveCopy, Track
  <2>5. CASE \E on \in BOOLEAN : SetPolicy(on)
    BY <2>2, <2>5 DEF SetPolicy
  <2> QED BY <2>1, <2>3, <2>4, <2>5 DEF Next, vars, hist, Bootstrap, RecordCa, GenerateKeys, EnableDnssec,
        CaDies, Load, TypeChecked, RotateKeys, RoundFails, StartType, RotateCert, LoadCopy, Tick
<1>4. client' = client
  BY ClientKept
<1>5. mem.done => mem'.done
  <2>1. CASE UNCHANGED mem
    BY <2>1
  <2>2. CASE StartServer \/ GenerateKeys \/ Persist \/ \E c \in Certs : Track(c)
    BY <1>1, <2>2 DEF StartServer, GenerateKeys, Persist, Track, NewKeys, State
  <2> QED BY <2>1, <2>2 DEF Next, vars, Bootstrap, GenerateCa, HealthcheckCa, RecordCa, EnableDnssec,
        BootstrapFails, CaDies, Load, TypeChecked, RotateKeys, SaveRound, RoundFails, StartType,
        RotateCert, OrchestratorSaves, LoadCopy, SaveCopy, Tick, SetPolicy
<1>6. CASE Persist
  <2>1. mem'.done
    BY <1>1, <1>6 DEF Persist, State
  <2>2. client => worker'.pc # "none"
    BY <1>1, <1>6 DEF Persist, Asleep, IInv, Executed
  <2>3. worker'.pc # "none" => client
    BY <1>6 DEF Persist, Asleep, IInv, Registered
  <2> QED BY <1>2, <1>3, <1>4, <2>1, <2>2, <2>3 DEF Registered
<1>7. worker.pc # "none" /\ ~Persist => worker'.pc # "none"
  <2>1. worker = [pc |-> worker.pc, wake |-> worker.wake, types |-> worker.types, due |-> worker.due]
    BY DEF IInv, TypeOK
  <2>2. Load \/ TypeChecked \/ RotateKeys => worker'.pc # "none"
    BY <2>1 DEF Load, TypeChecked, RotateKeys
  <2>3. ASSUME NEW t \in Types, StartType(t) PROVE worker'.pc # "none"
    BY <2>1, <2>3 DEF StartType
  <2>4. ASSUME NEW c \in Certs, RotateCert(c) PROVE worker'.pc = worker.pc
    BY <2>1, <2>4 DEF RotateCert
  <2>5. SaveRound \/ RoundFails => worker'.pc # "none"
    BY DEF SaveRound, RoundFails, Asleep
  <2>6. \/ UNCHANGED worker
        \/ Persist \/ SaveRound \/ RoundFails \/ Load \/ TypeChecked \/ RotateKeys
        \/ (\E t \in Types : StartType(t)) \/ (\E c \in Certs : RotateCert(c))
    BY DEF Next, vars, Bootstrap, GenerateCa, StartServer, HealthcheckCa, RecordCa, GenerateKeys,
        EnableDnssec, BootstrapFails, CaDies, Track, OrchestratorSaves, LoadCopy, SaveCopy, Tick,
        SetPolicy
  <2> QED BY <2>2, <2>3, <2>4, <2>5, <2>6
<1>8. CASE worker.pc # "none" /\ ~Persist
  BY <1>2, <1>3, <1>4, <1>5, <1>7, <1>8 DEF IInv, Registered
<1>9. CASE worker.pc = "none" /\ ~Persist
  <2>1. worker' = worker
    BY <1>9 DEF Next, vars, Bootstrap, GenerateCa, StartServer, HealthcheckCa, RecordCa, GenerateKeys,
        EnableDnssec, BootstrapFails, CaDies, Load, TypeChecked, RotateKeys, SaveRound, RoundFails,
        StartType, RotateCert, Track, OrchestratorSaves, LoadCopy, SaveCopy, Tick, SetPolicy, IInv,
        OneType
  <2>2. ASSUME client PROVE \A s \in Copies' : ~s.done /\ Tracked(s) = {}
    <3>1. \A s \in Copies : ~s.done /\ Tracked(s) = {}
      BY <1>9, <2>2 DEF IInv, Registered
    <3>2. ~mem.done /\ ~file.done /\ ~held.done
      BY <3>1 DEF Copies
    <3>3. CASE Quiet
      <4>1. /\ Same(mem', mem)
            /\ (Same(file', file) \/ Same(file', mem) \/ Same(file', held))
            /\ copy' = copy /\ held' = held
        BY <3>3, QuietIs
      <4>2. \A s \in Copies' : Tracked(s) = {}
        BY <3>1, <4>1, SameTracks DEF Copies, Same
      <4>3. ~mem'.done /\ ~file'.done
        BY <1>1, <1>9, <3>2, <3>3 DEF Quiet, vars, Bootstrap, GenerateCa, StartServer, HealthcheckCa,
            RecordCa, GenerateKeys, EnableDnssec, BootstrapFails, CaDies, OrchestratorSaves, SaveCopy,
            SetPolicy, Raise, SaveState, NewKeys, State
      <4> QED BY <3>1, <4>1, <4>2, <4>3 DEF Copies
    <3>4. CASE Tick \/ LoadCopy
      BY <3>1, <3>4 DEF Tick, LoadCopy, Copies
    <3>5. Quiet \/ Tick \/ LoadCopy
      BY <1>9, <3>2 DEF Next, Quiet, Load, TypeChecked, RotateKeys, SaveRound, RoundFails,
          StartType, RotateCert, Track, IInv, OneType
    <3> QED BY <3>3, <3>4, <3>5
  <2> QED BY <1>2, <1>3, <1>4, <1>9, <2>1, <2>2 DEF Registered
<1> QED BY <1>6, <1>8, <1>9

(* The keys that were generated are as many as the type allows. *)
LEMMA KeysFew ==
    ASSUME IInv
    PROVE  /\ keygen \in Nat /\ keygen <= MaxTime + MaxFaults + 2
           /\ GenerateKeys \/ RotateKeys => keygen + 1 <= MaxTime + MaxFaults + 2
<1> DEFINE P == IF mem.done \/ phase \in {"sign", "persist"} THEN 1 ELSE 0
           R == IF worker.pc = "none" THEN 0
                ELSE IF worker.pc = "keys" THEN worker.wake + 1 ELSE worker.wake
<1>1. keygen <= faults + P + R /\ P \in {0, 1}
  BY DEF IInv, Generated
<1>2. R \in Nat /\ R <= MaxTime + 1
  BY Arithmetic DEF IInv, TypeOK, Timely, InRound
<1>3. GenerateKeys => P = 0
  BY DEF GenerateKeys, IInv, Executed
<1>4. RotateKeys => R <= MaxTime
  BY Arithmetic DEF RotateKeys, IInv, TypeOK, Timely, InRound
<1> HIDE DEF P, R
<1>5. keygen \in Nat /\ faults \in Nat /\ faults <= MaxFaults /\ MaxTime \in Nat /\ MaxFaults \in Nat
  BY Fields, Arithmetic
<1> QED BY <1>1, <1>2, <1>3, <1>4, <1>5

LEMMA TypeKept == ASSUME IInv, [Next]_vars PROVE TypeOK'
<1>1. /\ file \in State /\ mem \in State /\ copy \in State /\ held \in State
      /\ Fresh \in State /\ now \in 0 .. MaxTime /\ keygen \in Nat /\ faults \in 0 .. MaxFaults
      /\ issued \in [Certs -> Times \cup {Never}]
  BY Fields DEF IInv, TypeOK
<1>2. now + Lifetime \in Times /\ now \in Times
  BY <1>1, Arithmetic
<1>3. /\ \A s \in State, b \in BOOLEAN : /\ [s EXCEPT !.ca = b] \in State
                                         /\ [s EXCEPT !.done = b] \in State
                                         /\ [s EXCEPT !.enabled = b] \in State
      /\ \A s \in State, c \in Certs : [s EXCEPT !.certs[c] = now + Lifetime] \in State
      /\ \A s \in State, t \in Types : [s EXCEPT !.last[t] = now] \in State
  BY <1>2 DEF State
<1>4. GenerateKeys \/ RotateKeys => \A s \in State : NewKeys(s) \in State
  <2>1. GenerateKeys \/ RotateKeys => keygen + 1 \in 0 .. MaxTime + MaxFaults + 2
    BY KeysFew, Arithmetic
  <2> QED BY <1>2, <2>1 DEF NewKeys, State
<1>5. file' \in State /\ mem' \in State /\ copy' \in State /\ held' \in State
  <2> DEFINE G == file' \in State /\ mem' \in State /\ copy' \in State /\ held' \in State
  <2>1. CASE Bootstrap \/ GenerateCa \/ HealthcheckCa \/ RecordCa \/ EnableDnssec \/ BootstrapFails
             \/ CaDies \/ OrchestratorSaves \/ Tick \/ Load \/ TypeChecked \/ RoundFails \/ SaveRound
    BY <1>1, <2>1 DEF Bootstrap, GenerateCa, HealthcheckCa, RecordCa, EnableDnssec, BootstrapFails,
        CaDies, OrchestratorSaves, Tick, Load, TypeChecked, RoundFails, SaveRound, Raise, SaveState
  <2>2. CASE StartServer \/ Persist
    BY <1>1, <1>3, <2>2 DEF StartServer, Persist, Raise, SaveState
  <2>3. CASE GenerateKeys \/ RotateKeys
    BY <1>1, <1>4, <2>3 DEF GenerateKeys, RotateKeys
  <2>4. ASSUME NEW t \in Types, StartType(t) PROVE G
    BY <1>1, <1>3, <2>4 DEF StartType
  <2>5. ASSUME NEW c \in Certs, RotateCert(c) \/ Track(c) PROVE G
    BY <1>1, <1>3, <2>5 DEF RotateCert, Track, SaveState
  <2>6. CASE LoadCopy \/ SaveCopy
    BY <1>1, <2>6 DEF LoadCopy, SaveCopy, SaveState
  <2>7. ASSUME NEW on \in BOOLEAN, SetPolicy(on) PROVE G
    BY <1>1, <1>3, <2>7 DEF SetPolicy, SaveState
  <2>8. CASE UNCHANGED vars
    BY <1>1, <2>8 DEF vars
  <2> QED BY <2>1, <2>2, <2>3, <2>4, <2>5, <2>6, <2>7, <2>8 DEF Next
<1>6. /\ client' \in BOOLEAN
      /\ issued' \in [Certs -> Times \cup {Never}] /\ now' \in 0 .. MaxTime /\ dropped' \subseteq Certs
      /\ faults' \in 0 .. MaxFaults /\ paused' \in BOOLEAN
  <2>1. Fault => faults' \in 0 .. MaxFaults
    BY FaultCounted DEF IInv
  <2>2. faults' \in 0 .. MaxFaults
    BY <1>1, <2>1 DEF Next, vars, Bootstrap, GenerateCa, StartServer, HealthcheckCa, RecordCa,
        GenerateKeys, EnableDnssec, Persist, BootstrapFails, CaDies, Load, TypeChecked, RotateKeys,
        SaveRound, RoundFails, StartType, RotateCert, Track, OrchestratorSaves, LoadCopy, SaveCopy,
        Tick, SetPolicy
  <2>3. now' \in 0 .. MaxTime
    <3>1. CASE Tick
      BY <1>1, <3>1, Arithmetic DEF Tick
    <3>2. CASE ~Tick
      BY <1>1, <3>2 DEF Next, vars, Bootstrap, GenerateCa, StartServer, HealthcheckCa, RecordCa,
        GenerateKeys, EnableDnssec, Persist, BootstrapFails, CaDies, Load, TypeChecked, RotateKeys,
        SaveRound, RoundFails, StartType, RotateCert, Track, OrchestratorSaves, LoadCopy, SaveCopy,
        SetPolicy
    <3> QED BY <3>1, <3>2
  <2>4. issued' \in [Certs -> Times \cup {Never}]
    <3>1. \A c \in Certs : IssueCert(c) => issued' \in [Certs -> Times \cup {Never}]
      BY <1>1, <1>2 DEF IssueCert
    <3> QED BY <1>1, <3>1 DEF Next, vars, Bootstrap, GenerateCa, StartServer, HealthcheckCa,
        RecordCa, GenerateKeys, EnableDnssec, Persist, BootstrapFails, CaDies, Load, TypeChecked,
        RotateKeys, SaveRound, RoundFails, StartType, RotateCert, Track, OrchestratorSaves, LoadCopy,
        SaveCopy, Tick, SetPolicy
  <2>5. dropped' \subseteq Certs /\ paused' \in BOOLEAN
    <3>1. dropped \subseteq Certs /\ paused \in BOOLEAN /\ Tracked(file) \subseteq Certs
      BY DEF IInv, TypeOK, Tracked
    <3>2. ASSUME NEW s, SaveState(s) PROVE dropped' \subseteq Certs /\ paused' \in BOOLEAN
      BY <3>1, <3>2 DEF SaveState
    <3>3. CASE UNCHANGED hist
      BY <3>1, <3>3 DEF hist
    <3> QED BY <3>2, <3>3 DEF Next, vars, hist, Bootstrap, GenerateCa, StartServer, HealthcheckCa,
        RecordCa, GenerateKeys, EnableDnssec, Persist, BootstrapFails, CaDies, Load, TypeChecked,
        RotateKeys, SaveRound, RoundFails, StartType, RotateCert, Track, OrchestratorSaves, LoadCopy,
        SaveCopy, Tick, SetPolicy, Raise
  <2>6. client' \in BOOLEAN
    BY ClientKept, Fields
  <2> QED BY <2>2, <2>3, <2>4, <2>5, <2>6
<1>7. worker' \in [pc : {"none", "sleep", "round", "rotate", "keys"}, wake : 0 .. MaxTime + 1,
                   types : SUBSET Types, due : SUBSET Certs]
  <2> DEFINE W == [pc : {"none", "sleep", "round", "rotate", "keys"}, wake : 0 .. MaxTime + 1,
                   types : SUBSET Types, due : SUBSET Certs]
  <2>1. worker \in W
    BY DEF IInv, TypeOK
  <2>2. now \in 0 .. MaxTime + 1 /\ now + 1 \in 0 .. MaxTime + 1
    BY <1>1, Arithmetic
  <2>3. ASSUME Persist \/ SaveRound \/ RoundFails PROVE worker' \in W
    BY <2>1, <2>2, <2>3 DEF Persist, SaveRound, RoundFails, Asleep
  <2>4. ASSUME Load \/ TypeChecked \/ RotateKeys PROVE worker' \in W
    BY <2>1, <2>4 DEF Load, TypeChecked, RotateKeys, PolicyTypes
  <2>5. ASSUME NEW t \in Types, StartType(t) PROVE worker' \in W
    <3>1. Expiring(t) \subseteq Certs
      BY DEF Expiring, Tracked
    <3> QED BY <2>1, <2>5, <3>1 DEF StartType
  <2>6. ASSUME NEW c \in Certs, RotateCert(c) PROVE worker' \in W
    BY <2>1, <2>6 DEF RotateCert
  <2>7. ASSUME UNCHANGED worker PROVE worker' \in W
    BY <2>1, <2>7
  <2>8. \/ UNCHANGED worker
        \/ Persist \/ SaveRound \/ RoundFails \/ Load \/ TypeChecked \/ RotateKeys
        \/ (\E t \in Types : StartType(t)) \/ (\E c \in Certs : RotateCert(c))
    BY DEF Next, vars, Bootstrap, GenerateCa, StartServer, HealthcheckCa, RecordCa, GenerateKeys,
        EnableDnssec, BootstrapFails, CaDies, Track, OrchestratorSaves, LoadCopy, SaveCopy, Tick,
        SetPolicy
  <2> HIDE DEF W
  <2>9. worker' \in W
    BY <2>3, <2>4, <2>5, <2>6, <2>7, <2>8
  <2> QED BY <2>9 DEF W
<1>8. /\ phase' \in {"idle", "ca", "health", "record", "keys", "sign", "persist"}
      /\ container' \in {"none", "up", "down"}
  <2>1. /\ phase \in {"idle", "ca", "health", "record", "keys", "sign", "persist"}
        /\ container \in {"none", "up", "down"}
    BY DEF IInv, TypeOK
  <2>2. phase' \in {"idle", "ca", "health", "record", "keys", "sign", "persist"}
    BY <2>1 DEF Next, vars, Bootstrap, GenerateCa, StartServer, HealthcheckCa, RecordCa,
        GenerateKeys, EnableDnssec, Persist, BootstrapFails, CaDies, Load, TypeChecked, RotateKeys,
        SaveRound, RoundFails, StartType, RotateCert, Track, OrchestratorSaves, LoadCopy, SaveCopy,
        Tick, SetPolicy, Raise
  <2>3. container' \in {"none", "up", "down"}
    BY <2>1 DEF Next, vars, Bootstrap, GenerateCa, StartServer, HealthcheckCa, RecordCa,
        GenerateKeys, EnableDnssec, Persist, BootstrapFails, CaDies, Load, TypeChecked, RotateKeys,
        SaveRound, RoundFails, StartType, RotateCert, Track, OrchestratorSaves, LoadCopy, SaveCopy,
        Tick, SetPolicy
  <2> QED BY <2>2, <2>3
<1>9. keygen' \in Nat /\ corefile' \in 0 .. keygen'
  <2>1. corefile \in 0 .. keygen /\ keygen + 1 \in Nat /\ corefile \in 0 .. keygen + 1
    BY <1>1 DEF IInv, TypeOK
  <2>2. mem.keys \in 0 .. keygen
    BY <1>1 DEF IInv, Generated, Copies, State
  <2>3. keygen' = keygen \/ (keygen' = keygen + 1 /\ corefile' = corefile)
    BY DEF Next, vars, Bootstrap, GenerateCa, StartServer, HealthcheckCa, RecordCa,
        GenerateKeys, EnableDnssec, Persist, BootstrapFails, CaDies, Load, TypeChecked, RotateKeys,
        SaveRound, RoundFails, StartType, RotateCert, Track, OrchestratorSaves, LoadCopy, SaveCopy,
        Tick, SetPolicy
  <2>4. corefile' = corefile \/ corefile' = mem.keys
    BY DEF Next, vars, Bootstrap, GenerateCa, StartServer, HealthcheckCa, RecordCa,
        GenerateKeys, EnableDnssec, Persist, BootstrapFails, CaDies, Load, TypeChecked, RotateKeys,
        SaveRound, RoundFails, StartType, RotateCert, Track, OrchestratorSaves, LoadCopy, SaveCopy,
        Tick, SetPolicy
  <2> QED BY <1>1, <2>1, <2>2, <2>3, <2>4
<1>10. worker'.due # {} => worker'.pc = "rotate" /\ Cardinality({TypeOf[c] : c \in worker'.due}) = 1
  <2> SUFFICES ASSUME NEW d \in worker'.due
               PROVE  worker'.pc = "rotate" /\ Cardinality({TypeOf[c] : c \in worker'.due}) = 1
    OBVIOUS
  <2>1. OneType'
    BY CourseKept DEF Course
  <2>2. {TypeOf[c] : c \in worker'.due} = {TypeOf[d]}
    BY <2>1 DEF OneType
  <2> QED BY <2>1, <2>2, FS_Singleton DEF OneType
<1> QED BY <1>5, <1>6, <1>7, <1>8, <1>9, <1>10 DEF TypeOK

-----------------------------------------------------------------------------
LEMMA InitIInv == Init => IInv
<1> SUFFICES ASSUME Init PROVE IInv
  OBVIOUS
<1>1. 0 \in 0 .. MaxTime + MaxFaults + 2 /\ 0 \in Times /\ 0 \in 0 .. MaxTime /\ 0 \in 0 .. MaxFaults
      /\ 0 \in 0 .. MaxTime + 1
  BY Arithmetic DEF Times
<1>2. Fresh \in State /\ [Fresh EXCEPT !.pem = TRUE] \in State
  BY <1>1 DEF Fresh, State
<1>3. \A s \in {Fresh, [Fresh EXCEPT !.pem = TRUE]} :
         /\ Tracked(s) = {} /\ \A t \in Types : s.last[t] = Never
         /\ s.keys = 0 /\ ~s.ca /\ ~s.done /\ s.enabled
  BY DEF Fresh, Tracked
<1>4. \A s \in Copies : /\ Tracked(s) = {} /\ \A t \in Types : s.last[t] = Never
                        /\ s.keys = 0 /\ ~s.ca /\ ~s.done /\ s.enabled
  BY <1>3 DEF Init, Copies
<1>5. worker.pc = "none" /\ worker.due = {} /\ worker.wake = 0 /\ worker.types = {}
  BY DEF Init, Asleep
<1>6. TypeOK
  <2>1. file \in State /\ mem \in State /\ copy \in State /\ held \in State
    BY <1>2 DEF Init
  <2>2. worker \in [pc : {"none", "sleep", "round", "rotate", "keys"}, wake : 0 .. MaxTime + 1,
                    types : SUBSET Types, due : SUBSET Certs]
    BY <1>1 DEF Init, Asleep
  <2>3. client \in BOOLEAN /\ issued \in [Certs -> Times \cup {Never}]
    BY DEF Init
  <2>4. keygen \in Nat /\ corefile \in 0 .. keygen
    BY DEF Init
  <2>5. /\ now \in 0 .. MaxTime /\ faults \in 0 .. MaxFaults /\ dropped \subseteq Certs
        /\ paused \in BOOLEAN
    BY <1>1 DEF Init
  <2>6. /\ phase \in {"idle", "ca", "health", "record", "keys", "sign", "persist"}
        /\ container \in {"none", "up", "down"}
    BY DEF Init
  <2> QED BY <1>5, <2>1, <2>2, <2>3, <2>4, <2>5, <2>6 DEF TypeOK
<1>7. Behind /\ Known
  BY <1>4 DEF Init, Behind, NotAhead, Known
<1>8. Timely /\ OneType
  BY <1>4, <1>5 DEF Timely, OneType, InRound, Copies
<1>9. Registered /\ Executed
  BY <1>4, <1>5 DEF Init, Registered, Executed, Copies
<1>10. Generated
  <2>1. \A s \in Copies : s.keys <= keygen
    BY <1>4 DEF Init
  <2>2. keygen = 0 /\ faults = 0 /\ ~mem.done /\ phase = "idle" /\ worker.pc = "none"
    BY <1>4, <1>5 DEF Init, Copies
  <2> QED BY <2>1, <2>2 DEF Generated
<1>11. Renewed
  BY <1>4, <1>5 DEF Renewed, Copies, InRound
<1> QED BY <1>6, <1>7, <1>8, <1>9, <1>10, <1>11 DEF IInv

(* The state file, its copies, what was issued and the time of the next    *)
(* round agree after every step, whoever overwrites whose update.          *)
THEOREM Inductive == Spec => []IInv
<1>1. IInv /\ [Next]_vars => IInv'
  BY CourseKept, TypeKept, RegisteredKept, ExecutedKept, GeneratedKept DEF IInv, Course
<1> QED BY <1>1, InitIInv, PTL DEF Spec

(* The fields keep their types; the number of keys is that of the times    *)
(* and of the failures that can have made it grow.                         *)
THEOREM TypeCorrect == Spec => []TypeOK
<1>1. IInv => TypeOK
  BY DEF IInv
<1> QED BY <1>1, Inductive, PTL

(* Neither the file nor a copy names a later expiry than that of the       *)
(* certificate last issued.                                                *)
THEOREM NoCopyAhead == Spec => []NeverAhead
<1>1. IInv => NeverAhead
  BY DEF IInv, Behind, NotAhead, Copies, NeverAhead
<1> QED BY <1>1, Inductive, PTL

(* Where the worker runs and while the policy is on, a certificate no save *)
(* has dropped is renewed before it expires, although as many checks fail  *)
(* as the warning allows.                                                  *)
THEOREM RenewedInTime == Spec => []NoneExpires
<1>1. IInv => NoneExpires
  <2> SUFFICES ASSUME IInv, ~paused, NEW c \in Tracked(file) \ dropped, worker.pc = "sleep"
               PROVE  issued[c] > now
    BY DEF NoneExpires
  <2>1. InTime(issued[c], faults, worker.wake)
    BY DEF IInv, Renewed, Registered
  <2>2. c \in Certs /\ issued[c] # Never
    BY DEF IInv, Behind, NotAhead, Copies, Tracked
  <2>3. issued[c] \in Nat /\ worker.wake \in Nat /\ now <= worker.wake
    BY <2>2, Fields DEF IInv, Timely
  <2>4. (faults + 1) * Interval <= Warning
    <3>1. PICK m \in Nat : MaxFaults = faults + m
      <4>1. MaxFaults - faults \in Nat /\ MaxFaults = faults + (MaxFaults - faults)
        BY Fields, Arithmetic
      <4> QED BY <4>1
    <3>2. (MaxFaults + 1) * Interval = (faults + 1) * Interval + m * Interval
      BY <3>1, Fields, Arithmetic
    <3>3. m * Interval \in Nat /\ (faults + 1) * Interval \in Nat
      BY Fields, Arithmetic
    <3>4. (MaxFaults + 1) * Interval <= Warning
      BY CertificateAssumption
    <3> QED BY <3>2, <3>3, <3>4, Arithmetic
  <2> DEFINE x == (faults + 1) * Interval
  <2>5. x \in Nat /\ x <= Warning /\ issued[c] + x > worker.wake + Warning
    BY <2>1, <2>4, Fields, Arithmetic DEF InTime
  <2> HIDE DEF x
  <2> QED BY <2>3, <2>5, Fields, Arithmetic
<1> QED BY <1>1, Inductive, PTL
=============================================================================
