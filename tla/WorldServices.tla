---------------------------- MODULE WorldServices ----------------------------
(***************************************************************************)
(* Phase 8 (mail and storage for the world, and for organizations admitted *)
(* later), phase 9, and the whole: phases 6, 8 and 9 under the             *)
(* orchestrator, the two consumers of org.admitted, and whoever else holds *)
(* a copy of RuntimeState and saves it.                                    *)
(***************************************************************************)
EXTENDS InworldIdentity

CONSTANTS Worlds,   (* what may be enabled: mail, storage, apps              *)
          Holders   (* others with a copy of RuntimeState: requests of the   *)
                    (* API, reload, drift watch, the rotation worker         *)

ASSUME Worlds \subseteq SUBSET {"mail", "storage", "apps"}

VARIABLES world,
          records,   (* organizations with their DNS records of mail         *)
          buckets,
          copy,      (* what each holder has loaded                          *)
          undone     (* history: results that a holder took out of the file  *)

servicesVars == <<world, records, buckets, copy, undone>>
vars         == <<admissionVars, identityVars, servicesVars>>

TypeOK ==
    /\ AdmissionsTypeOK /\ IdentityTypeOK
    /\ world \in Worlds /\ records \subseteq Orgs /\ buckets \subseteq Orgs
    /\ copy \in [Holders -> State] /\ undone \subseteq Orgs

Init ==
    /\ AdmissionsInit /\ IdentityInit
    /\ world \in Worlds /\ records = {} /\ buckets = {}
    /\ copy = [h \in Holders |-> Blank] /\ undone = {}

-----------------------------------------------------------------------------
(* Phase 8.                                                                *)

(* Defect: the phase is skipped only when it has served an organization.   *)
SkipServicesServed ==
    /\ pc = "services" /\ "services" \in mem.out /\ mem.served # {}
    /\ pc' = "apps"
    /\ UNCHANGED <<at, done, mem, file, crashes, worldVars, admissionVars, servicesVars>>

SkipServices ==
    /\ pc = "services" /\ "services" \in mem.out
    /\ pc' = "apps"
    /\ UNCHANGED <<at, done, mem, file, crashes, worldVars, admissionVars, servicesVars>>

Prerequisites == "identity" \in mem.out

StartMail ==
    /\ pc = "services" /\ Prerequisites /\ "services" \notin mem.out /\ "mail" \in world
    /\ Create("postfix", "records")
    /\ UNCHANGED servicesVars

NoMail ==
    /\ pc = "services" /\ Prerequisites /\ "services" \notin mem.out /\ "mail" \notin world
    /\ pc' = "storage"
    /\ UNCHANGED <<at, done, mem, file, crashes, worldVars, admissionVars, servicesVars>>

(* SPF, DKIM, DMARC and MX of one organization after the other. *)
MailRecords(o) ==
    /\ pc = "records" /\ o \in SpecOrgs \ done
    /\ records' = records \cup {o} /\ done' = done \cup {o}
    /\ UNCHANGED <<pc, at, mem, file, crashes, worldVars, admissionVars, world, buckets, copy, undone>>

MailDone ==
    /\ pc = "records" /\ done = SpecOrgs
    /\ pc' = "storage"
    /\ UNCHANGED <<at, done, mem, file, crashes, worldVars, admissionVars, servicesVars>>

(* The state is saved with the certificate, before there is a container.   *)
StartStorage ==
    /\ pc = "storage"
    /\ IF "storage" \in world
       THEN \/ pc' = "bucket" /\ "minio" \notin containers /\ containers' = containers \cup {"minio"}
               /\ file' = mem /\ UNCHANGED <<at, done, mem, crashes, realms, clients, admissionVars>>
            \/ "minio" \in containers /\ Raise /\ UNCHANGED <<worldVars, faults>>
            \/ "minio" \notin containers /\ Fault /\ Raise
               /\ containers' \in {containers, containers \cup {"minio"}}
               /\ UNCHANGED <<realms, clients>>
       ELSE pc' = "deployed" /\ UNCHANGED <<at, done, mem, file, crashes, worldVars, admissionVars>>
    /\ UNCHANGED servicesVars

(* How `mc mb` ends is not looked at. *)
PlatformBucket ==
    /\ pc = "bucket"
    /\ file' = mem /\ pc' = "deployed"
    /\ UNCHANGED <<at, done, mem, crashes, worldVars, admissionVars, servicesVars>>

RecordServices ==
    /\ pc = "deployed" /\ "services" \notin mem.out
    /\ mem' = [out |-> mem.out \cup {"services"}, served |-> {}]
    /\ Goto("services", "registered")
    /\ UNCHANGED <<pc, at, done, file, crashes, worldVars, registry, unread, pops, sent,
                   queue, dead, held, acked, faults, servicesVars>>

(* The healthcheck asks Docker for the container of the storage, whose id  *)
(* deploy_minio does not return.                                           *)
CheckServices ==
    /\ pc = "deployed" /\ "services" \in mem.out
    /\ IF "storage" \in world
       THEN Raise /\ UNCHANGED faults
       ELSE file' = mem /\ pc' = "apps" /\ done' = {} /\ UNCHANGED <<at, mem, crashes, admissionVars>>
    /\ UNCHANGED <<worldVars, servicesVars>>

ServicesPhase ==
    \/ SkipServices \/ StartMail \/ NoMail \/ MailDone \/ StartStorage \/ PlatformBucket
    \/ RecordServices \/ CheckServices
    \/ \E o \in SpecOrgs : MailRecords(o)

-----------------------------------------------------------------------------
(* The consumer of phase 8.  A message may turn each service on or off.    *)
OrgMail ==
    /\ consumer["services"] = "provision"
    /\ \E on \in BOOLEAN :
         records' = IF on THEN records \cup {m.org : m \in held["services"]} ELSE records
    /\ Goto("services", "next")
    /\ UNCHANGED <<processVars, buckets>>

OrgStorage ==
    /\ consumer["services"] = "next"
    /\ \E on \in BOOLEAN :
         buckets' = IF on THEN buckets \cup {m.org : m \in held["services"]} ELSE buckets
    /\ Goto("services", "persist")
    /\ UNCHANGED <<processVars, records>>

(* Defect: the result is saved with the next save of somebody else. *)
PersistInMemory ==
    /\ consumer["services"] = "persist"
    /\ mem' = [mem EXCEPT !.served = @ \cup {m.org : m \in held["services"]}]
    /\ Goto("services", "ack")
    /\ UNCHANGED <<pc, at, done, file, crashes, records, buckets>>

(* The state first; the tables are tried and given up. *)
Persist ==
    /\ consumer["services"] = "persist"
    /\ mem' = [mem EXCEPT !.served = @ \cup {m.org : m \in held["services"]}]
    /\ file' = mem'
    /\ Goto("services", "ack")
    /\ UNCHANGED <<pc, at, done, crashes, records, buckets>>

ServeOrg ==
    /\ OrgMail \/ OrgStorage \/ Persist
    /\ UNCHANGED <<worldVars, registry, unread, pops, sent, queue, dead, held, acked, faults,
                   world, copy, undone>>

-----------------------------------------------------------------------------
(* Phase 9.  Its first deployment writes a row of app_deployments with     *)
(* columns that the table does not have, and that raises; so does a        *)
(* request of the API for one, which leaves nothing behind.                *)
DeployApps ==
    /\ pc = "apps" /\ "apps" \notin mem.out /\ "apps" \in world
    /\ Raise
    /\ UNCHANGED <<worldVars, faults, servicesVars>>

(* Consumers run when the phases are done, if this process has registered  *)
(* any; a process that has not ends here.                                  *)
AppsDone ==
    /\ pc = "apps"
    /\ {"apps"} \cap world \subseteq mem.out
    /\ mem' = [mem EXCEPT !.out = @ \cup {"apps"}] /\ file' = mem'
    /\ IF consumer["services"] = "registered"
       THEN pc' = "up" /\ Goto("services", "idle") /\ UNCHANGED held
       ELSE pc' = "down" /\ ConsumersEnd
    /\ UNCHANGED <<at, done, crashes, worldVars, registry, unread, queue, dead, pops, sent, acked,
                   faults, servicesVars>>

-----------------------------------------------------------------------------
(* A request of the API, reload and the rotation worker load the state and *)
(* save all of it some awaits later; drift watch saves what it loaded at   *)
(* its start, again and again.  None of them changes these outputs: a      *)
(* reload that runs phase 6 again fails at the name of its container.      *)
LoadCopy(h) ==
    /\ copy' = [copy EXCEPT ![h] = file]
    /\ UNCHANGED <<admissionVars, identityVars, world, records, buckets, undone>>

SaveCopy(h) ==
    /\ file' = copy[h]
    /\ undone' = undone \cup (file.served \ file'.served)
    /\ UNCHANGED <<pc, at, done, mem, crashes, worldVars, admissionVars, world, records, buckets, copy>>

-----------------------------------------------------------------------------
Orchestrator ==
    \/ (Boot \/ IdentityPhase) /\ UNCHANGED servicesVars
    \/ ServicesPhase \/ DeployApps \/ AppsDone

Consumer(c) ==
    \/ Loop(c) /\ UNCHANGED <<registry, unread, pops, sent, identityVars, servicesVars>>
    \/ c = "inworld" /\ AdmitIdentity /\ UNCHANGED servicesVars
    \/ c = "services" /\ ServeOrg

Registry(o) ==
    /\ AdmitOrg(o) \/ UpdateOrg(o) \/ RemoveOrg(o) \/ \E c \in Queues : Send(c, o)
    /\ UNCHANGED <<identityVars, servicesVars>>

Environment ==
    \/ PhaseFails \/ Crash \/ \E name \in {"keycloak", "postfix", "minio"} : Remove(name)
    \/ \E c \in Queues : LoopFails(c) /\ UNCHANGED <<registry, unread, pops, sent, identityVars>>

Next ==
    \/ Orchestrator
    \/ \E h \in Holders : LoadCopy(h) \/ SaveCopy(h)
    \/ \E c \in Queues : Consumer(c)
    \/ \E o \in Orgs \ SpecOrgs : Registry(o)
    \/ Environment /\ UNCHANGED servicesVars

Spec == Init /\ [][Next]_vars

(* The event loop runs what can run, and who runs `up` does so again when  *)
(* it has ended.                                                           *)
FairSpec ==
    /\ Spec
    /\ WF_vars(Orchestrator)
    /\ \A c \in Queues : WF_vars(Consumer(c))

-----------------------------------------------------------------------------
(* What the state file says is there, is there, whenever a phase raises, a *)
(* process ends or an older state is saved: for each organization with     *)
(* users a realm with a client, for each of the registry its mail records. *)
OutputComplete ==
    /\ "identity" \in file.out => UserOrgs \subseteq realms \cap clients
    /\ "services" \in file.out /\ "mail" \in world => SpecOrgs \subseteq records

(* An acknowledged organization has its result in the state file, unless   *)
(* somebody else saved a state without it over one that had it; no phase,  *)
(* failure or end of the process takes a result out that nobody undid.     *)
AckedDurable == acked["services"] \subseteq file.served \cup undone

(* The file lacks an output of which something is left in Docker or in     *)
(* Keycloak, under the name that the phase will want to use again.         *)
Leftover ==
    /\ pc = "down"
    /\ \/ "identity" \notin file.out /\ ("keycloak" \in containers \/ UserOrgs \cap clients # {})
       \/ "services" \notin file.out /\ "mail" \in world /\ "postfix" \in containers
       \/ "services" \notin file.out /\ "storage" \in world /\ "minio" \in containers

(* A world without applications comes through its phases again and again,  *)
(* however often phases raise, processes end and older states are saved,   *)
(* if at last no process starts over something left.                       *)
ComesUp ==
    "apps" \notin world /\ <>[]~Leftover => []<>("apps" \in mem.out)

Pending(c, o) == \E m \in queue[c] \cup held[c] : m.org = o

(* While its consumer runs the message of an organization that is not in   *)
(* the specification is acknowledged or given up at last.                  *)
Consumed ==
    \A c \in Queues, o \in Orgs \ SpecOrgs :
        Pending(c, o) /\ Running(c) ~> ~Pending(c, o) \/ ~Running(c)

(* An organization that was admitted through the API gets its client.      *)
AdmittedGetsClient ==
    \A o \in Orgs : o \in registry ~> o \in clients \/ o \notin registry
=============================================================================
