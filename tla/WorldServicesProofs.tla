------------------------ MODULE WorldServicesProofs ------------------------
(***************************************************************************)
(* Proofs about WorldServices, for any organizations, worlds and failures. *)
(***************************************************************************)
EXTENDS WorldServices, FiniteSetTheorems, TLAPS

(* What a phase is through with is made.                                   *)
Made ==
    /\ pc \in {"down", "identity", "waiting", "services", "apps"} => done = {}
    /\ pc \in {"realm", "client"} => done \subseteq realms \cap clients
    /\ pc = "client" => at \subseteq realms
    /\ pc = "records" => done \subseteq records
    /\ pc \in {"storage", "bucket", "deployed"} /\ "mail" \in world => SpecOrgs \subseteq records

(* What a state says is there, is: the phases' copy of it, the file, and   *)
(* what any holder has loaded.                                             *)
Says(s) ==
    /\ "identity" \in s.out => UserOrgs \subseteq realms \cap clients
    /\ "services" \in s.out /\ "mail" \in world => SpecOrgs \subseteq records

Truthful == Says(mem) /\ Says(file) /\ \A h \in Holders : Says(copy[h])

(* Results of organizations are in a state only with the output of phase 8.*)
Formed(s) == s.served # {} => "services" \in s.out

(* What is acknowledged is in the file and, while a process runs, in its   *)
(* memory, unless a holder has undone it.                                  *)
Serving == {m.org : m \in held["services"]}

Durable ==
    /\ Formed(mem) /\ Formed(file) /\ \A h \in Holders : Formed(copy[h])
    /\ consumer["services"] # "off" => pc # "down" /\ "services" \in mem.out
    /\ consumer["services"] \notin {"off", "registered"} => pc = "up"
    /\ acked["services"] \subseteq file.served \cup undone
    /\ pc # "down" => acked["services"] \subseteq mem.served \cup undone
    /\ consumer["services"] = "ack" =>
         Serving \subseteq file.served \cup undone /\ Serving \subseteq mem.served \cup undone

IInv == TypeOK /\ Made /\ Truthful /\ Durable

-----------------------------------------------------------------------------
LEMMA Nobody ==
    /\ Off \in [Queues -> {"off", "registered", "idle", "provision", "next", "persist", "ack", "failed"}]
    /\ Nothing \in [Queues -> SUBSET Message] /\ Nothing \in [Queues -> SUBSET Orgs]
    /\ \A c \in Queues : Off[c] = "off" /\ Nothing[c] = {} /\ Cardinality(Nothing[c]) <= 1
<1>1. Cardinality({}) = 0
  BY FS_EmptySet
<1> QED BY <1>1 DEF Off, Nothing

LEMMA InitInv == ASSUME Init PROVE IInv
<1>1. Blank \in State /\ Blank.out = {} /\ Blank.served = {}
  BY DEF Blank, State
<1>2. 0 \in 0 .. MaxFaults /\ 0 \in 0 .. MaxCrashes
  BY AdmissionAssumption, IdentityAssumption
<1>3. AdmissionsTypeOK
  BY <1>2, Nobody, AdmissionAssumption DEF Init, AdmissionsInit, AdmissionsTypeOK
<1>4. IdentityTypeOK
  BY <1>1, <1>2 DEF Init, IdentityInit, IdentityTypeOK
<1>5. TypeOK
  BY <1>1, <1>3, <1>4 DEF Init, TypeOK
<1>6. Made /\ Truthful
  BY <1>1 DEF Init, IdentityInit, Made, Truthful, Says
<1>7. Durable
  BY <1>1, Nobody DEF Init, AdmissionsInit, IdentityInit, Durable, Formed, Queues
<1> QED BY <1>5, <1>6, <1>7 DEF IInv

-----------------------------------------------------------------------------
(* Types.  First the loop around a message and the table of organizations. *)
LEMMA FaultCounts == ASSUME AdmissionsTypeOK, Fault PROVE faults' \in 0 .. MaxFaults
  BY AdmissionAssumption DEF AdmissionsTypeOK, Fault

LEMMA LoopTypes ==
    ASSUME AdmissionsTypeOK, NEW c \in Queues, Loop(c) \/ LoopFails(c),
           UNCHANGED <<registry, unread, pops, sent>>
    PROVE  AdmissionsTypeOK'
<1> USE DEF AdmissionsTypeOK
<1>1. Cardinality({}) = 0 /\ \A m : Cardinality({m}) = 1
  BY FS_EmptySet, FS_Singleton
<1>2. \A w \in {"idle", "provision", "failed"} :
        Goto(c, w) => consumer' \in [Queues -> {"off", "registered", "idle", "provision", "next",
                                                "persist", "ack", "failed"}]
  BY DEF Goto
<1>3. CASE Receive(c)
  <2>1. PICK m \in queue[c] : /\ held' = [held EXCEPT ![c] = {m}]
                              /\ queue' = IF pops THEN [queue EXCEPT ![c] = @ \ {m}] ELSE queue
    BY <1>3 DEF Receive
  <2>2. m \in Message
    OBVIOUS
  <2>3. held' \in [Queues -> SUBSET Message] /\ queue' \in [Queues -> SUBSET Message]
    BY <2>1, <2>2
  <2>4. \A d \in Queues : Cardinality(held'[d]) <= 1
    <3> SUFFICES ASSUME NEW d \in Queues PROVE Cardinality(held'[d]) <= 1
      OBVIOUS
    <3>1. Cardinality({m}) = 1
      BY FS_Singleton
    <3>2. held'[d] = {m} \/ held'[d] = held[d]
      BY <2>1
    <3>3. held'[d] = {m} => Cardinality(held'[d]) = 1
      BY <3>1, Zenon
    <3>4. held'[d] = held[d] => Cardinality(held'[d]) <= 1
      BY <3>1
    <3> QED BY <3>2, <3>3, <3>4
  <2> QED BY <1>2, <1>3, <2>3, <2>4 DEF Receive
<1>4. CASE Acknowledge(c)
  <2>1. {m.org : m \in held[c]} \subseteq Orgs
    BY DEF Message
  <2> QED BY <1>1, <1>2, <1>4, <2>1 DEF Acknowledge
<1>5. CASE Archive(c)
  <2> DEFINE found == held[c] \cap queue[c]
             spent == {m \in found : Spent(m)}
  <2>1. {m.org : m \in spent} \subseteq Orgs
    BY DEF Message
  <2>2. \A m \in found \ spent : Retry(m) \in Message
    BY AdmissionAssumption DEF Message, Retry, Spent
  <2>3. {Retry(m) : m \in found \ spent} \subseteq Message
    BY <2>2
  <2>4. queue' \in [Queues -> SUBSET Message] /\ dead' \in [Queues -> SUBSET Orgs]
    BY <1>5, <2>1, <2>3 DEF Archive
  <2> QED BY <1>1, <1>2, <1>5, <2>4 DEF Archive
<1>6. CASE HandlingFails(c)
  BY <1>2, <1>6, FaultCounts DEF HandlingFails
<1>7. CASE ArchiveFails(c)
  BY <1>1, <1>2, <1>7, FaultCounts DEF ArchiveFails
<1> QED BY <1>3, <1>4, <1>5, <1>6, <1>7 DEF Loop, LoopFails

LEMMA RegistryTypes ==
    ASSUME AdmissionsTypeOK, NEW o \in Orgs,
           AdmitOrg(o) \/ UpdateOrg(o) \/ RemoveOrg(o) \/ \E c \in Queues : Send(c, o)
    PROVE  AdmissionsTypeOK'
<1> USE DEF AdmissionsTypeOK
<1>1. ASSUME Tell(o) PROVE unread' \in [Provisioning -> SUBSET Orgs] /\ faults' \in 0 .. MaxFaults
  BY <1>1, FaultCounts DEF Tell
<1>2. CASE AdmitOrg(o)
  BY <1>1, <1>2 DEF AdmitOrg
<1>3. CASE UpdateOrg(o)
  BY <1>1, <1>3 DEF UpdateOrg
<1>4. CASE RemoveOrg(o)
  BY <1>1, <1>4 DEF RemoveOrg
<1>5. ASSUME NEW c \in Queues, Send(c, o) PROVE AdmissionsTypeOK'
  <2>1. [org |-> o, tries |-> 0] \in Message
    BY AdmissionAssumption DEF Message
  <2> QED BY <1>5, <2>1 DEF Send
<1> QED BY <1>2, <1>3, <1>4, <1>5

-----------------------------------------------------------------------------
(* Realms, clients and records only grow.                                  *)
Grows ==
    /\ realms \subseteq realms' /\ clients \subseteq clients' /\ records \subseteq records'
    /\ world' = world

LEMMA TruthStays ==
    ASSUME Truthful, Grows, mem'.out = mem.out \/ mem' = file, file' \in {mem, file},
           UNCHANGED copy
    PROVE  Truthful'
  BY DEF Truthful, Says, Grows

(* A step that has nothing to do with the phases and their world.          *)
LEMMA Undisturbed ==
    ASSUME IInv, AdmissionsTypeOK', UNCHANGED <<processVars, containers, servicesVars>>,
           realms \subseteq realms', clients \subseteq clients',
           realms' \subseteq Orgs, clients' \subseteq Orgs
    PROVE  TypeOK' /\ Made' /\ Truthful'
<1> USE DEF IInv, processVars, servicesVars
<1>1. TypeOK'
  BY DEF TypeOK, IdentityTypeOK
<1>2. Made'
  BY DEF Made
<1>3. Grows
  BY DEF Grows
<1>4. Truthful'
  BY <1>3, TruthStays
<1> QED BY <1>1, <1>2, <1>4

(* A phase that raises.                                                    *)
LEMMA Raised ==
    ASSUME IInv, Raise, pc # "down", Grows,
           realms' \subseteq Orgs, clients' \subseteq Orgs, records' = records,
           containers' \subseteq {"keycloak", "postfix", "minio"}, faults' \in 0 .. MaxFaults,
           UNCHANGED <<buckets, copy, undone>>
    PROVE  IInv'
<1> USE DEF IInv
<1>1. consumer' = Off /\ held' = Nothing /\ mem' = mem /\ file' = mem /\ pc' = "down" /\ done' = {}
  BY DEF Raise, ConsumersEnd
<1>2. AdmissionsTypeOK'
  BY <1>1, Nobody DEF TypeOK, AdmissionsTypeOK, Raise
<1>3. IdentityTypeOK'
  BY DEF TypeOK, IdentityTypeOK, Raise
<1>4. TypeOK'
  BY <1>2, <1>3 DEF TypeOK, Grows
<1>5. Made'
  BY <1>1 DEF Made
<1>6. Truthful'
  BY <1>1, TruthStays
<1>8. Durable'
  <2>1. Off["services"] = "off"
    BY Nobody DEF Queues
  <2> QED BY <1>1, <2>1 DEF Durable, Formed, Raise
<1> QED BY <1>4, <1>5, <1>6, <1>8

-----------------------------------------------------------------------------
(* The phases.                                                             *)
PCs == {"identity", "waiting", "realm", "client", "checking", "services", "records",
        "storage", "bucket", "deployed", "apps"}

(* A step from one point of the phases to another.                         *)
LEMMA Moved ==
    ASSUME IInv, pc \in PCs, pc' \in PCs, mem' = mem, file' \in {file, mem}, Grows,
           UNCHANGED <<crashes, admissionVars, buckets, copy, undone>>,
           at' \subseteq Orgs, done' \subseteq Orgs,
           realms' \subseteq Orgs, clients' \subseteq Orgs,
           records' \subseteq Orgs,
           containers' \subseteq {"keycloak", "postfix", "minio"}, Made'
    PROVE  IInv'
<1> USE DEF IInv, admissionVars, loopVars
<1>1. AdmissionsTypeOK'
  BY DEF TypeOK, AdmissionsTypeOK
<1>2. IdentityTypeOK'
  BY DEF TypeOK, IdentityTypeOK, PCs
<1>3. TypeOK'
  BY <1>1, <1>2 DEF TypeOK, Grows
<1>4. Truthful'
  BY TruthStays
<1>6. Durable'
  BY DEF Durable, Formed, PCs
<1> QED BY <1>3, <1>4, <1>6

LEMMA CreateKept ==
    ASSUME IInv, NEW name \in {"keycloak", "postfix", "minio"}, NEW next \in {"waiting", "records"},
           pc \in PCs, done = {}, Create(name, next), UNCHANGED servicesVars
    PROVE  IInv'
<1> USE DEF servicesVars
<1>1. containers \subseteq {"keycloak", "postfix", "minio"} /\ realms \subseteq Orgs
      /\ clients \subseteq Orgs /\ at \subseteq Orgs /\ done \subseteq Orgs
      /\ records \subseteq Orgs /\ faults \in 0 .. MaxFaults
      /\ AdmissionsTypeOK
  BY DEF IInv, TypeOK, IdentityTypeOK, AdmissionsTypeOK
<1>2. containers \subseteq containers' /\ containers' \subseteq containers \cup {name}
      /\ UNCHANGED <<realms, clients>>
  BY DEF Create, worldVars
<1>3. Grows /\ containers' \subseteq {"keycloak", "postfix", "minio"}
  BY <1>1, <1>2 DEF Grows
<1>4. CASE Raise /\ (UNCHANGED faults \/ Fault)
  <2>1. faults' \in 0 .. MaxFaults
    BY <1>1, <1>4, FaultCounts
  <2> QED BY <1>1, <1>2, <1>3, <1>4, <2>1, Raised DEF PCs
<1>5. CASE pc' = next /\ UNCHANGED <<at, done, mem, file, crashes, admissionVars>>
  <2>1. Made'
    BY <1>5 DEF Made
  <2> QED BY <1>1, <1>2, <1>3, <1>5, <2>1, Moved DEF PCs
<1> QED BY <1>4, <1>5 DEF Create

LEMMA PhaseRaises ==
    ASSUME IInv, Raise, pc # "down", UNCHANGED <<realms, containers, servicesVars>>,
           clients' \in {clients, clients \cup at}, UNCHANGED faults \/ Fault
    PROVE  IInv'
<1> USE DEF servicesVars
<1>1. containers \subseteq {"keycloak", "postfix", "minio"} /\ realms \subseteq Orgs
      /\ clients \subseteq Orgs /\ at \subseteq Orgs
      /\ AdmissionsTypeOK
  BY DEF IInv, TypeOK, IdentityTypeOK
<1>2. faults' \in 0 .. MaxFaults
  BY <1>1, FaultCounts DEF AdmissionsTypeOK
<1>3. Grows
  BY DEF Grows
<1> QED BY <1>1, <1>2, <1>3, Raised

LEMMA IdentityKept == ASSUME IInv, IdentityPhase, UNCHANGED servicesVars PROVE IInv'
<1> USE DEF servicesVars, worldVars
<1>1. containers \subseteq {"keycloak", "postfix", "minio"} /\ realms \subseteq Orgs
      /\ clients \subseteq Orgs /\ at \subseteq Orgs /\ done \subseteq Orgs
      /\ records \subseteq Orgs /\ UserOrgs \subseteq Orgs
  BY IdentityAssumption DEF IInv, TypeOK, IdentityTypeOK
<1>2. Made
  BY DEF IInv
<1>3. CASE SkipIdentity
  <2>1. Made' /\ Grows
    BY <1>2, <1>3 DEF Made, SkipIdentity, Grows
  <2> QED BY <1>1, <1>3, <2>1, Moved DEF SkipIdentity, PCs
<1>4. CASE StartKeycloak
  BY <1>2, <1>4, CreateKept DEF StartKeycloak, PCs, Made
<1>5. CASE KeycloakReady
  <2>1. Made' /\ Grows
    BY <1>2, <1>5 DEF Made, KeycloakReady, Grows
  <2> QED BY <1>1, <1>5, <2>1, Moved DEF KeycloakReady, PCs
<1>6. ASSUME NEW o \in UserOrgs, CreateRealm(o) PROVE IInv'
  <2>1. Made' /\ Grows
    BY <1>2, <1>6 DEF Made, CreateRealm, Grows
  <2> QED BY <1>1, <1>6, <2>1, Moved DEF CreateRealm, PCs
<1>7. CASE CreateClient
  <2>1. Made' /\ Grows
    BY <1>2, <1>7 DEF Made, CreateClient, Grows
  <2> QED BY <1>1, <1>7, <2>1, Moved DEF CreateClient, PCs
<1>8. CASE ClientConflict \/ ClientUnknown
  BY <1>8, PhaseRaises DEF ClientConflict, ClientUnknown
<1>9. CASE RecordIdentity
  <2>1. mem' = [mem EXCEPT !.out = @ \cup {"identity"}] /\ mem' \in State
        /\ mem'.out = mem.out \cup {"identity"} /\ mem'.served = mem.served
    BY <1>9 DEF RecordIdentity, IInv, TypeOK, IdentityTypeOK, State, Outputs
  <2>2. consumer'["services"] = consumer["services"]
        /\ consumer' \in [Queues -> {"off", "registered", "idle", "provision", "next", "persist",
                                     "ack", "failed"}]
    BY <1>9 DEF RecordIdentity, Goto, IInv, TypeOK, AdmissionsTypeOK, Queues
  <2>3. TypeOK'
    BY <1>9, <2>1, <2>2 DEF RecordIdentity, IInv, TypeOK, AdmissionsTypeOK, IdentityTypeOK
  <2>4. Made'
    BY <1>2, <1>9 DEF Made, RecordIdentity
  <2>5. Truthful'
    BY <1>2, <1>9, <2>1 DEF Made, RecordIdentity, IInv, Truthful, Says
  <2>6. Durable'
    BY <1>9, <2>1, <2>2 DEF RecordIdentity, IInv, Durable, Formed
  <2> QED BY <2>3, <2>4, <2>5, <2>6 DEF IInv
<1>10. CASE CheckIdentity
  <2>1. CASE UserOrgs = {}
    BY <1>10, <2>1, PhaseRaises DEF CheckIdentity
  <2>2. CASE UserOrgs # {}
    <3>1. Made' /\ Grows
      BY <1>2, <1>10, <2>2 DEF Made, CheckIdentity, Grows
    <3> QED BY <1>1, <1>10, <2>2, <3>1, Moved DEF CheckIdentity, PCs
  <2> QED BY <2>1, <2>2
<1> QED BY <1>3, <1>4, <1>5, <1>6, <1>7, <1>8, <1>9, <1>10 DEF IdentityPhase

LEMMA ServicesKept == ASSUME IInv, ServicesPhase PROVE IInv'
<1> USE DEF servicesVars, worldVars
<1>1. containers \subseteq {"keycloak", "postfix", "minio"} /\ realms \subseteq Orgs
      /\ clients \subseteq Orgs /\ at \subseteq Orgs /\ done \subseteq Orgs
      /\ records \subseteq Orgs /\ SpecOrgs \subseteq Orgs
      /\ AdmissionsTypeOK /\ mem \in State
  BY AdmissionAssumption DEF IInv, TypeOK, IdentityTypeOK
<1>2. Made
  BY DEF IInv
<1>3. CASE SkipServices
  <2>1. Made' /\ Grows
    BY <1>2, <1>3 DEF Made, SkipServices, Grows
  <2> QED BY <1>1, <1>3, <2>1, Moved DEF SkipServices, PCs
<1>4. CASE StartMail
  BY <1>2, <1>4, CreateKept DEF StartMail, PCs, Made
<1>5. CASE NoMail
  <2>1. Made' /\ Grows
    BY <1>2, <1>5 DEF Made, NoMail, Grows
  <2> QED BY <1>1, <1>5, <2>1, Moved DEF NoMail, PCs
<1>6. ASSUME NEW o \in SpecOrgs, MailRecords(o) PROVE IInv'
  <2>1. Made' /\ Grows
    BY <1>2, <1>6 DEF Made, MailRecords, Grows
  <2> QED BY <1>1, <1>6, <2>1, Moved DEF MailRecords, PCs
<1>7. CASE MailDone
  <2>1. Made' /\ Grows
    BY <1>2, <1>7 DEF Made, MailDone, Grows
  <2> QED BY <1>1, <1>7, <2>1, Moved DEF MailDone, PCs
<1>8. CASE StartStorage
  <2>1. pc = "storage" /\ UNCHANGED servicesVars /\ UNCHANGED <<realms, clients>>
        /\ containers \subseteq containers' /\ containers' \subseteq containers \cup {"minio"}
    BY <1>8 DEF StartStorage
  <2>2. Grows /\ containers' \subseteq {"keycloak", "postfix", "minio"}
    BY <1>1, <2>1 DEF Grows
  <2>3. CASE Raise /\ (UNCHANGED faults \/ Fault)
    <3>1. faults' \in 0 .. MaxFaults
      BY <1>1, <2>3, FaultCounts DEF AdmissionsTypeOK
    <3> QED BY <1>1, <2>1, <2>2, <2>3, <3>1, Raised
  <2>4. CASE /\ pc' \in {"bucket", "deployed"} /\ file' \in {file, mem}
             /\ UNCHANGED <<at, done, mem, crashes, admissionVars>>
    <3>1. Made'
      BY <1>2, <2>1, <2>4 DEF Made
    <3> QED BY <1>1, <2>1, <2>2, <2>4, <3>1, Moved DEF PCs
  <2> QED BY <1>8, <2>3, <2>4 DEF StartStorage
<1>9. CASE PlatformBucket
  <2>1. Made' /\ Grows
    BY <1>2, <1>9 DEF Made, PlatformBucket, Grows
  <2> QED BY <1>1, <1>9, <2>1, Moved DEF PlatformBucket, PCs
<1>10. CASE RecordServices
  <2>1. mem' = [out |-> mem.out \cup {"services"}, served |-> {}] /\ mem' \in State
        /\ mem'.out = mem.out \cup {"services"} /\ mem'.served = {}
    BY <1>1, <1>10 DEF RecordServices, State, Outputs
  <2>2. consumer'["services"] = "registered"
        /\ consumer' \in [Queues -> {"off", "registered", "idle", "provision", "next", "persist",
                                     "ack", "failed"}]
    BY <1>1, <1>10 DEF RecordServices, Goto, AdmissionsTypeOK, Queues
  <2>3. TypeOK'
    BY <1>10, <2>1, <2>2 DEF RecordServices, IInv, TypeOK, AdmissionsTypeOK, IdentityTypeOK
  <2>4. Made'
    BY <1>2, <1>10 DEF Made, RecordServices
  <2>5. Truthful'
    BY <1>2, <1>10, <2>1 DEF Made, RecordServices, IInv, Truthful, Says
  <2>6. Durable'
    BY <1>10, <2>1, <2>2 DEF RecordServices, IInv, Durable, Formed
  <2> QED BY <2>3, <2>4, <2>5, <2>6 DEF IInv
<1>11. CASE CheckServices
  <2>1. CASE "storage" \in world
    BY <1>11, <2>1, PhaseRaises DEF CheckServices
  <2>2. CASE "storage" \notin world
    <3>1. Made' /\ Grows
      BY <1>2, <1>11, <2>2 DEF Made, CheckServices, Grows
    <3> QED BY <1>1, <1>11, <2>2, <3>1, Moved DEF CheckServices, PCs
  <2> QED BY <2>1, <2>2
<1> QED BY <1>3, <1>4, <1>5, <1>6, <1>7, <1>8, <1>9, <1>10, <1>11 DEF ServicesPhase

LEMMA AppsDoneKept == ASSUME IInv, AppsDone PROVE IInv'
<1> USE DEF servicesVars, worldVars
<1>1. mem \in State /\ AdmissionsTypeOK /\ Made
  BY DEF IInv, TypeOK, IdentityTypeOK
<1>2. mem' = [mem EXCEPT !.out = @ \cup {"apps"}] /\ file' = mem' /\ mem' \in State
      /\ mem'.out = mem.out \cup {"apps"} /\ mem'.served = mem.served
  BY <1>1 DEF AppsDone, State, Outputs
<1>3. CASE pc' = "up" /\ consumer["services"] = "registered" /\ Goto("services", "idle") /\ UNCHANGED held
  <2>1. consumer'["services"] = "idle"
        /\ consumer' \in [Queues -> {"off", "registered", "idle", "provision", "next", "persist",
                                     "ack", "failed"}]
    BY <1>1, <1>3 DEF Goto, AdmissionsTypeOK, Queues
  <2>2. TypeOK'
    BY <1>2, <1>3, <2>1 DEF AppsDone, IInv, TypeOK, AdmissionsTypeOK, IdentityTypeOK
  <2>3. Durable'
    BY <1>2, <1>3, <2>1 DEF AppsDone, IInv, Durable, Formed
  <2>4. Made' /\ Truthful'
    BY <1>1, <1>2, <1>3 DEF AppsDone, Made, IInv, Truthful, Says
  <2> QED BY <2>2, <2>3, <2>4 DEF IInv
<1>4. CASE pc' = "down" /\ ConsumersEnd
  <2>1. consumer' = Off /\ held' = Nothing /\ consumer'["services"] = "off"
    BY <1>4, Nobody DEF ConsumersEnd, Queues
  <2>2. TypeOK'
    BY <1>2, <1>4, <2>1, Nobody DEF AppsDone, IInv, TypeOK, AdmissionsTypeOK, IdentityTypeOK
  <2>3. Durable'
    BY <1>2, <1>4, <2>1 DEF AppsDone, IInv, Durable, Formed
  <2>4. Made' /\ Truthful'
    BY <1>1, <1>2, <1>4 DEF AppsDone, Made, IInv, Truthful, Says
  <2> QED BY <2>2, <2>3, <2>4 DEF IInv
<1> QED BY <1>3, <1>4 DEF AppsDone

-----------------------------------------------------------------------------
(* The consumers, the table of organizations, and what goes wrong.         *)
LEMMA LoopKept ==
    ASSUME IInv, NEW c \in Queues, Loop(c) \/ LoopFails(c),
           UNCHANGED <<registry, unread, pops, sent, identityVars, servicesVars>>
    PROVE  IInv'
<1>1. AdmissionsTypeOK /\ realms \subseteq Orgs /\ clients \subseteq Orgs
  BY DEF IInv, TypeOK, IdentityTypeOK
<1>2. AdmissionsTypeOK'
  BY <1>1, LoopTypes
<1>3. TypeOK' /\ Made' /\ Truthful'
  BY <1>1, <1>2, Undisturbed DEF identityVars, worldVars
<1>4. ASSUME Durable PROVE Durable'
  <2> USE DEF identityVars, processVars, servicesVars, Durable, Formed, Serving
  <2>1. /\ DOMAIN consumer = Queues /\ DOMAIN held = Queues /\ DOMAIN acked = Queues
        /\ "services" \in Queues
    BY <1>1 DEF AdmissionsTypeOK, Queues
  <2>2. CASE c # "services"
    BY <1>4, <2>1, <2>2 DEF Loop, LoopFails, Receive, Acknowledge, Archive, HandlingFails,
       ArchiveFails, Goto
  <2>3. CASE c = "services"
    <3>1. pc = "up" /\ "services" \in mem.out
      BY <1>4, <2>3 DEF Loop, LoopFails, Receive, Acknowledge, Archive, HandlingFails, ArchiveFails
    <3>2. consumer'["services"] \in {"provision", "idle", "failed"}
      BY <2>1, <2>3 DEF Loop, LoopFails, Receive, Acknowledge, Archive, HandlingFails,
         ArchiveFails, Goto
    <3>3. acked'["services"] \subseteq file.served \cup undone
          /\ acked'["services"] \subseteq mem.served \cup undone
      BY <1>4, <2>1, <2>3 DEF Loop, LoopFails, Receive, Acknowledge, Archive, HandlingFails,
         ArchiveFails
    <3> QED BY <1>4, <3>1, <3>2, <3>3
  <2> QED BY <2>2, <2>3
<1> QED BY <1>3, <1>4 DEF IInv

LEMMA IdentityConsumerKept == ASSUME IInv, AdmitIdentity, UNCHANGED servicesVars PROVE IInv'
<1>1. AdmissionsTypeOK /\ realms \subseteq Orgs /\ clients \subseteq Orgs
  BY DEF IInv, TypeOK, IdentityTypeOK
<1> DEFINE new == {m.org : m \in held["inworld"]}
<1>2. new \subseteq Orgs
  BY <1>1 DEF AdmissionsTypeOK, Queues, Message
<1>3. /\ UNCHANGED <<processVars, containers, registry, unread, pops, sent, queue, dead, held, acked>>
      /\ consumer' \in [Queues -> {"off", "registered", "idle", "provision", "next", "persist",
                                   "ack", "failed"}]
      /\ consumer'["services"] = consumer["services"]
      /\ realms' \in {realms, realms \cup new} /\ clients' \in {clients, clients \cup new}
      /\ (UNCHANGED faults \/ Fault)
  BY <1>1 DEF AdmitIdentity, AdmitRealm, AdmitClient, Goto, AdmissionsTypeOK, Queues
<1>4. AdmissionsTypeOK'
  BY <1>1, <1>3, FaultCounts DEF AdmissionsTypeOK
<1>5. TypeOK' /\ Made' /\ Truthful'
  BY <1>1, <1>2, <1>3, <1>4, Undisturbed
<1>6. Durable'
  BY <1>3 DEF IInv, Durable, Formed, Serving, processVars, servicesVars
<1> QED BY <1>5, <1>6 DEF IInv

LEMMA RegistryKept == ASSUME IInv, NEW o \in Orgs, Registry(o) PROVE IInv'
<1>1. AdmissionsTypeOK /\ realms \subseteq Orgs /\ clients \subseteq Orgs
  BY DEF IInv, TypeOK, IdentityTypeOK
<1>2. AdmissionsTypeOK'
  BY <1>1, RegistryTypes DEF Registry
<1>3. UNCHANGED <<identityVars, servicesVars, consumer, held, acked>>
  BY DEF Registry, AdmitOrg, UpdateOrg, RemoveOrg, Send
<1>4. TypeOK' /\ Made' /\ Truthful'
  BY <1>1, <1>2, <1>3, Undisturbed DEF identityVars, worldVars
<1>5. Durable'
  BY <1>3 DEF IInv, Durable, Formed, Serving, identityVars, processVars, servicesVars
<1> QED BY <1>4, <1>5 DEF IInv

LEMMA ServeOrgKept == ASSUME IInv, ServeOrg PROVE IInv'
<1> USE DEF worldVars, processVars
<1>1. /\ AdmissionsTypeOK /\ IdentityTypeOK /\ records \subseteq Orgs /\ buckets \subseteq Orgs
      /\ "services" \in Queues
  BY DEF IInv, TypeOK, Queues
<1>2. Serving \subseteq Orgs
  BY <1>1 DEF Serving, AdmissionsTypeOK, Message
<1>3. UNCHANGED <<worldVars, registry, unread, pops, sent, queue, dead, held, acked, faults,
                  world, copy, undone, pc, at, done, crashes>>
  BY DEF ServeOrg, OrgMail, OrgStorage, Persist
<1>4. CASE OrgMail \/ OrgStorage
  <2>1. /\ records' \in {records, records \cup Serving} /\ buckets' \in {buckets, buckets \cup Serving}
        /\ UNCHANGED <<mem, file>> /\ consumer'["services"] \in {"next", "persist"}
        /\ consumer["services"] \in {"provision", "next"}
        /\ consumer' \in [Queues -> {"off", "registered", "idle", "provision", "next", "persist",
                                     "ack", "failed"}]
    BY <1>1, <1>4 DEF OrgMail, OrgStorage, Serving, Goto, AdmissionsTypeOK
  <2>2. Grows
    BY <1>3, <2>1 DEF Grows
  <2>3. TypeOK'
    BY <1>1, <1>2, <1>3, <2>1 DEF IInv, TypeOK, AdmissionsTypeOK, IdentityTypeOK
  <2>4. Made'
    BY <1>3, <2>1 DEF IInv, Made
  <2>5. Truthful'
    BY <1>3, <2>1, <2>2, TruthStays DEF IInv
  <2>6. Durable'
    BY <1>3, <2>1 DEF IInv, Durable, Formed
  <2> QED BY <2>3, <2>4, <2>5, <2>6 DEF IInv
<1>5. CASE Persist
  <2>1. /\ mem' = [mem EXCEPT !.served = @ \cup Serving] /\ file' = mem' /\ mem' \in State
        /\ mem'.out = mem.out /\ mem'.served = mem.served \cup Serving
        /\ UNCHANGED <<records, buckets>>
    BY <1>1, <1>2, <1>5 DEF Persist, Serving, IdentityTypeOK, State
  <2>2. /\ consumer'["services"] = "ack" /\ consumer["services"] = "persist"
        /\ consumer' \in [Queues -> {"off", "registered", "idle", "provision", "next", "persist",
                                     "ack", "failed"}]
    BY <1>1, <1>5 DEF Persist, Goto, AdmissionsTypeOK
  <2>3. TypeOK'
    BY <1>1, <1>3, <2>1, <2>2 DEF IInv, TypeOK, AdmissionsTypeOK, IdentityTypeOK
  <2>4. Made' /\ Truthful'
    BY <1>3, <2>1 DEF IInv, Made, Truthful, Says
  <2>6. Durable'
    BY <1>3, <2>1, <2>2 DEF IInv, Durable, Formed, Serving
  <2> QED BY <2>3, <2>4, <2>6 DEF IInv
<1> QED BY <1>4, <1>5 DEF ServeOrg

LEMMA BootKept == ASSUME IInv, Boot, UNCHANGED servicesVars PROVE IInv'
<1> USE DEF Boot, worldVars, admissionVars, loopVars, servicesVars
<1>1. Grows
  BY DEF Grows
<1>2. TypeOK'
  BY DEF IInv, TypeOK, AdmissionsTypeOK, IdentityTypeOK
<1>3. Made' /\ Durable'
  BY DEF IInv, Made, Durable, Formed, Serving
<1>4. Truthful'
  BY <1>1, TruthStays DEF IInv
<1> QED BY <1>2, <1>3, <1>4 DEF IInv

(* A holder loads the state, or saves what it loaded.                      *)
LEMMA HoldersKept == ASSUME IInv, NEW h \in Holders, LoadCopy(h) \/ SaveCopy(h) PROVE IInv'
<1> USE DEF admissionVars, loopVars, identityVars, processVars, worldVars
<1>1. file \in State /\ copy \in [Holders -> State]
  BY DEF IInv, TypeOK, IdentityTypeOK
<1>2. CASE LoadCopy(h)
  <2>1. copy' = [copy EXCEPT ![h] = file] /\ \A g \in Holders : copy'[g] \in {copy[g], file}
    BY <1>1, <1>2 DEF LoadCopy
  <2>2. TypeOK'
    BY <1>1, <1>2, <2>1 DEF LoadCopy, IInv, TypeOK, AdmissionsTypeOK, IdentityTypeOK
  <2>3. Made' /\ Truthful'
    BY <1>2, <2>1 DEF LoadCopy, IInv, Made, Truthful, Says
  <2>4. Durable'
    BY <1>2, <2>1 DEF LoadCopy, IInv, Durable, Formed, Serving
  <2> QED BY <2>2, <2>3, <2>4 DEF IInv
<1>3. CASE SaveCopy(h)
  <2>1. file' = copy[h] /\ file' \in State /\ undone' = undone \cup (file.served \ file'.served)
    BY <1>1, <1>3 DEF SaveCopy
  <2>2. file.served \subseteq Orgs
    BY <1>1 DEF State
  <2>3. TypeOK'
    BY <1>3, <2>1, <2>2 DEF SaveCopy, IInv, TypeOK, AdmissionsTypeOK, IdentityTypeOK
  <2>4. Made' /\ Truthful'
    BY <1>3, <2>1 DEF SaveCopy, IInv, Made, Truthful, Says
  <2>5. Durable'
    BY <1>3, <2>1 DEF SaveCopy, IInv, Durable, Formed, Serving
  <2> QED BY <2>3, <2>4, <2>5 DEF IInv
<1> QED BY <1>2, <1>3

LEMMA EnvironmentKept == ASSUME IInv, Environment, UNCHANGED servicesVars PROVE IInv'
<1> USE DEF servicesVars, worldVars
<1>1. AdmissionsTypeOK /\ IdentityTypeOK /\ Nothing \in [Queues -> SUBSET Message]
  BY Nobody DEF IInv, TypeOK
<1>2. CASE PhaseFails
  BY <1>2, PhaseRaises DEF PhaseFails
<1>3. CASE Crash
  <2>1. consumer' = Off /\ held' = Nothing /\ consumer'["services"] = "off"
    BY <1>3, Nobody DEF Crash, ConsumersEnd, Queues
  <2>2. crashes' \in 0 .. MaxCrashes
    BY <1>1, <1>3, IdentityAssumption DEF Crash, IdentityTypeOK
  <2>3. TypeOK'
    BY <1>3, <2>1, <2>2, Nobody DEF Crash, IInv, TypeOK, AdmissionsTypeOK, IdentityTypeOK
  <2>4. Made' /\ Durable'
    BY <1>3, <2>1 DEF Crash, IInv, Made, Durable, Formed
  <2>5. Truthful'
    BY <1>3, TruthStays DEF Crash, IInv, Grows
  <2> QED BY <2>3, <2>4, <2>5 DEF IInv
<1>4. ASSUME NEW name \in {"keycloak", "postfix", "minio"}, Remove(name) PROVE IInv'
  <2> USE DEF admissionVars, loopVars
  <2>1. crashes' \in 0 .. MaxCrashes
    BY <1>1, <1>4, IdentityAssumption DEF Remove, IdentityTypeOK
  <2>2. TypeOK'
    BY <1>4, <2>1 DEF Remove, IInv, TypeOK, AdmissionsTypeOK, IdentityTypeOK
  <2>3. Made' /\ Durable'
    BY <1>4 DEF Remove, IInv, Made, Durable, Formed, Serving
  <2>4. Grows
    BY <1>4 DEF Remove, Grows
  <2>5. Truthful'
    BY <1>4, <2>4, TruthStays DEF Remove, IInv
  <2> QED BY <2>2, <2>3, <2>5 DEF IInv
<1>5. ASSUME NEW c \in Queues, LoopFails(c), UNCHANGED <<registry, unread, pops, sent, identityVars>>
      PROVE  IInv'
  BY <1>5, LoopKept
<1> QED BY <1>2, <1>3, <1>4, <1>5 DEF Environment

LEMMA NextInv == IInv /\ [Next]_vars => IInv'
<1> SUFFICES ASSUME IInv, [Next]_vars PROVE IInv'
  OBVIOUS
<1>1. CASE Orchestrator
  <2>1. CASE Boot /\ UNCHANGED servicesVars
    BY <2>1, BootKept
  <2>2. CASE IdentityPhase /\ UNCHANGED servicesVars
    BY <2>2, IdentityKept
  <2>3. CASE ServicesPhase
    BY <2>3, ServicesKept
  <2>4. CASE AppsDone
    BY <2>4, AppsDoneKept
  <2>5. CASE DeployApps
    BY <2>5, PhaseRaises DEF DeployApps, worldVars
  <2> QED BY <1>1, <2>1, <2>2, <2>3, <2>4, <2>5 DEF Orchestrator
<1>2. ASSUME NEW h \in Holders, LoadCopy(h) \/ SaveCopy(h) PROVE IInv'
  BY <1>2, HoldersKept
<1>3. ASSUME NEW c \in Queues, Consumer(c) PROVE IInv'
  <2>1. CASE Loop(c) /\ UNCHANGED <<registry, unread, pops, sent, identityVars, servicesVars>>
    BY <2>1, LoopKept
  <2>2. CASE AdmitIdentity /\ UNCHANGED servicesVars
    BY <2>2, IdentityConsumerKept
  <2>3. CASE ServeOrg
    BY <2>3, ServeOrgKept
  <2> QED BY <1>3, <2>1, <2>2, <2>3 DEF Consumer
<1>4. ASSUME NEW o \in Orgs \ SpecOrgs, Registry(o) PROVE IInv'
  BY <1>4, RegistryKept
<1>5. CASE Environment /\ UNCHANGED servicesVars
  BY <1>5, EnvironmentKept
<1>6. CASE UNCHANGED vars
  <2> USE <1>6 DEF vars, admissionVars, loopVars, identityVars, processVars, worldVars,
               servicesVars
  <2>1. TypeOK'
    BY DEF IInv, TypeOK, AdmissionsTypeOK, IdentityTypeOK
  <2>2. Made' /\ Truthful' /\ Durable'
    BY DEF IInv, Made, Truthful, Says, Formed, Durable, Serving
  <2> QED BY <2>1, <2>2 DEF IInv
<1> QED BY <1>1, <1>2, <1>3, <1>4, <1>5, <1>6 DEF Next

-----------------------------------------------------------------------------
(* The invariant holds in every behaviour, whatever organizations there    *)
(* are, whatever fails and whoever is removed.                             *)
THEOREM WorldInductive == Spec => []IInv
<1>1. Init => IInv
  BY InitInv
<1> QED BY <1>1, NextInv, PTL DEF Spec

(* TypeOK: each consumer works on one message at the most, a message is    *)
(* retried MAX_RETRIES times at the most, and state and tables are         *)
(* well-formed.                                                            *)
THEOREM WorldTypeCorrect == Spec => []TypeOK
<1>1. IInv => TypeOK
  BY DEF IInv
<1> QED BY <1>1, WorldInductive, PTL

(* OutputComplete: an output of phase 6 or 8 in the state file is never    *)
(* ahead of what the phase has made, at whatever point a phase raised, a   *)
(* process ended or somebody saved an older state.                         *)
THEOREM OutputIsComplete == Spec => []OutputComplete
<1>1. IInv => OutputComplete
  BY DEF IInv, Truthful, Says, OutputComplete
<1> QED BY <1>1, WorldInductive, PTL

(* AckedDurable: a message of org.admitted is acknowledged by the consumer *)
(* of phase 8 only when its result is in the state file, and no phase, no  *)
(* failure and no end of a process takes it out again; whoever else saves  *)
(* a state that lacks it does.                                             *)
THEOREM AckedIsDurable == Spec => []AckedDurable
<1>1. IInv => AckedDurable
  BY DEF IInv, Durable, Formed, AckedDurable
<1> QED BY <1>1, WorldInductive, PTL
=============================================================================
