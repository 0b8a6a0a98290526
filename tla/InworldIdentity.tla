--------------------------- MODULE InworldIdentity ---------------------------
(***************************************************************************)
(* Phase 6: the Keycloak of the world, with a realm and a client for each  *)
(* organization, as PhaseHandler makes them and, for organizations that    *)
(* are admitted later, the task it starts.  The orchestrator around it is  *)
(* reduced to what it does with a phase: run it, check it, save the state, *)
(* or save it and end.                                                     *)
(***************************************************************************)
EXTENDS Admissions

CONSTANTS UserOrgs,    (* identity_inworld.org_users                        *)
          MaxCrashes

ASSUME IdentityAssumption == UserOrgs \subseteq Orgs /\ MaxCrashes \in Nat

Outputs == {"identity", "services", "apps"}

(* Of RuntimeState: which outputs are there, and for which organizations   *)
(* world_services_output has a result.                                     *)
State == [out : SUBSET Outputs, served : SUBSET Orgs]
Blank == [out |-> {}, served |-> {}]

VARIABLES pc,          (* where the orchestrator is                         *)
          at,          (* the organization it makes a client for, or none   *)
          done,        (* the organizations the phase is through with       *)
          mem, file,   (* its RuntimeState, the state file                  *)
          containers,
          realms,      (* by organization                                   *)
          clients,     (* by organization                                   *)
          crashes

worldVars    == <<containers, realms, clients>>
processVars  == <<pc, at, done, mem, file, crashes>>
identityVars == <<processVars, worldVars>>

IdentityTypeOK ==
    /\ pc \in {"down", "identity", "waiting", "realm", "client", "checking", "services", "records",
               "storage", "bucket", "deployed", "apps", "up"}
    /\ at \subseteq Orgs /\ done \subseteq Orgs /\ mem \in State /\ file \in State
    /\ containers \subseteq {"keycloak", "postfix", "minio"}
    /\ realms \subseteq Orgs /\ clients \subseteq Orgs
    /\ crashes \in 0 .. MaxCrashes

IdentityInit ==
    /\ pc = "down" /\ at = {} /\ done = {}
    /\ mem = Blank /\ file = Blank
    /\ containers = {} /\ realms = {} /\ clients = {} /\ crashes = 0

-----------------------------------------------------------------------------
Boot ==
    /\ pc = "down"
    /\ mem' = file /\ pc' = "identity"
    /\ UNCHANGED <<at, done, file, crashes, worldVars, admissionVars>>

(* A phase that raises: the state is saved and the process ends.           *)
Raise ==
    /\ file' = mem /\ pc' = "down" /\ at' = {} /\ done' = {}
    /\ ConsumersEnd
    /\ UNCHANGED <<mem, crashes, registry, unread, queue, dead, pops, sent, acked>>

(* The operator removes a container; the realms are in a database.         *)
Remove(name) ==
    /\ name \in containers /\ pc = "down" /\ crashes < MaxCrashes
    /\ containers' = containers \ {name}
    /\ crashes' = crashes + 1
    /\ UNCHANGED <<pc, at, done, mem, file, realms, clients, admissionVars>>

Crash ==
    /\ pc # "down" /\ crashes < MaxCrashes
    /\ crashes' = crashes + 1 /\ pc' = "down" /\ at' = {} /\ done' = {}
    /\ ConsumersEnd
    /\ UNCHANGED <<mem, file, worldVars, registry, unread, queue, dead, pops, sent, acked, faults>>

(* A container is created under a fixed name, and is there although it     *)
(* could not be attached to its network.                                   *)
Create(name, next) ==
    \/ /\ name \notin containers
       /\ containers' = containers \cup {name}
       /\ pc' = next
       /\ UNCHANGED <<at, done, mem, file, crashes, realms, clients, admissionVars>>
    \/ name \in containers /\ Raise /\ UNCHANGED <<worldVars, faults>>
    \/ name \notin containers /\ Fault /\ Raise
       /\ containers' \in {containers, containers \cup {name}} /\ UNCHANGED <<realms, clients>>

(* A phase whose output is there is skipped. *)
SkipIdentity ==
    /\ pc = "identity" /\ "identity" \in mem.out
    /\ pc' = "services"
    /\ UNCHANGED <<at, done, mem, file, crashes, worldVars, admissionVars>>

StartKeycloak ==
    /\ pc = "identity" /\ "identity" \notin mem.out
    /\ Create("keycloak", "waiting")

(* Defect: the output is there as soon as there is a container. *)
KeycloakReadyRecords ==
    /\ pc = "waiting"
    /\ mem' = [mem EXCEPT !.out = @ \cup {"identity"}]
    /\ pc' = "realm"
    /\ UNCHANGED <<at, done, file, crashes, worldVars, admissionVars>>

KeycloakReady ==
    /\ pc = "waiting"
    /\ pc' = "realm"
    /\ UNCHANGED <<at, done, mem, file, crashes, worldVars, admissionVars>>

(* create_platform_realm looks for the realm first. *)
CreateRealm(o) ==
    /\ pc = "realm" /\ o \in UserOrgs \ done
    /\ realms' = realms \cup {o}
    /\ at' = {o} /\ pc' = "client"
    /\ UNCHANGED <<done, mem, file, crashes, containers, clients, admissionVars>>

(* create_client does not: Keycloak refuses a client that exists.  Users   *)
(* that cannot be seeded are only logged.                                  *)
CreateClient ==
    /\ pc = "client" /\ at \cap clients = {}
    /\ clients' = clients \cup at
    /\ done' = done \cup at /\ at' = {} /\ pc' = "realm"
    /\ UNCHANGED <<mem, file, crashes, containers, realms, admissionVars>>

ClientConflict ==
    /\ pc = "client" /\ at \subseteq clients
    /\ Raise /\ UNCHANGED <<worldVars, faults>>

(* The client is made, and the request for its id fails. *)
ClientUnknown ==
    /\ pc = "client" /\ at \cap clients = {} /\ Fault
    /\ clients' = clients \cup at
    /\ Raise /\ UNCHANGED <<containers, realms>>

RecordIdentity ==
    /\ pc = "realm" /\ done = UserOrgs
    /\ mem' = [mem EXCEPT !.out = @ \cup {"identity"}]
    /\ Goto("inworld", "idle")
    /\ pc' = "checking"
    /\ UNCHANGED <<at, done, file, crashes, worldVars, registry, unread, pops, sent,
                   queue, dead, held, acked, faults>>

(* The healthcheck wants a realm; the output stays when it fails. *)
CheckIdentity ==
    /\ pc = "checking"
    /\ IF UserOrgs = {}
       THEN Raise /\ UNCHANGED faults
       ELSE /\ file' = mem /\ pc' = "services" /\ done' = {}
            /\ UNCHANGED <<at, mem, crashes, admissionVars>>
    /\ UNCHANGED worldVars

(* Any other request of a phase raises: no answer in time, an error, a     *)
(* healthcheck that says no.                                               *)
PhaseFails ==
    /\ pc \in {"waiting", "realm", "client", "checking", "records", "bucket", "deployed"}
    /\ Fault /\ Raise
    /\ UNCHANGED worldVars

IdentityPhase ==
    \/ SkipIdentity \/ StartKeycloak \/ KeycloakReady \/ CreateClient \/ ClientConflict
    \/ ClientUnknown \/ RecordIdentity \/ CheckIdentity
    \/ \E o \in UserOrgs : CreateRealm(o)

-----------------------------------------------------------------------------
(* _consume_org_admission_events: a realm, then a client.                  *)
AdmitRealm ==
    /\ consumer["inworld"] = "provision"
    /\ realms' = realms \cup {m.org : m \in held["inworld"]}
    /\ Goto("inworld", "next")
    /\ UNCHANGED <<containers, clients, queue, dead, held, acked, faults>>

AdmitClient ==
    /\ consumer["inworld"] = "next"
    /\ LET new == {m.org : m \in held["inworld"]} IN
       IF new \subseteq clients
       THEN Goto("inworld", "failed") /\ UNCHANGED <<clients, faults>>
       ELSE /\ clients' = clients \cup new
            /\ \/ Goto("inworld", "ack") /\ UNCHANGED faults
               \/ Goto("inworld", "failed") /\ Fault
    /\ UNCHANGED <<containers, realms, queue, dead, held, acked>>

AdmitIdentity ==
    /\ AdmitRealm \/ AdmitClient
    /\ UNCHANGED <<processVars, registry, unread, pops, sent>>
=============================================================================
