----------------------------- MODULE Admissions -----------------------------
(***************************************************************************)
(* The admission of organizations.  WorldRegistryHandler writes the row of *)
(* an organization and tells the two provisioning queues, which nothing in *)
(* the program reads.  The consumers of org.admitted, of phases 6 and 8,   *)
(* read two other queues, to which nothing in the program sends; Senders   *)
(* says whether somebody outside of it does.                               *)
(*                                                                         *)
(* Here is what the two consumers share, the loop around a message; what   *)
(* they do for an organization is in InworldIdentity and WorldServices,    *)
(* what a queue does besides, with the worker that replays dead letters,   *)
(* in EventQueue.                                                          *)
(***************************************************************************)
EXTENDS Naturals, FiniteSets

CONSTANTS Orgs,
          SpecOrgs,     (* the organizations of the specification           *)
          Senders,      (* somebody sends to the two admission queues       *)
          MaxRetries,   (* MAX_RETRIES                                      *)
          MaxFaults

ASSUME AdmissionAssumption ==
    /\ SpecOrgs \subseteq Orgs /\ Senders \in BOOLEAN
    /\ MaxRetries \in Nat \ {0} /\ MaxFaults \in Nat

Queues       == {"inworld", "services"}
Provisioning == {"oidc", "and"}
Message      == [org : Orgs, tries : 0 .. MaxRetries - 1]

VARIABLES registry,   (* the table world_registry                           *)
          unread,     (* organizations with a message in those two queues   *)
          queue, dead,
          pops,       (* receive takes the message out of the queue         *)
          consumer,   (* where the consumer of a queue is                   *)
          held,       (* the message it works on: one or none               *)
          sent,       (* history: organizations somebody sent a message of  *)
          acked,      (* history: whose message was acknowledged            *)
          faults

loopVars      == <<queue, dead, consumer, held, acked, faults>>
admissionVars == <<registry, unread, pops, sent, loopVars>>

AdmissionsTypeOK ==
    /\ registry \subseteq Orgs /\ unread \in [Provisioning -> SUBSET Orgs]
    /\ queue \in [Queues -> SUBSET Message] /\ dead \in [Queues -> SUBSET Orgs]
    /\ pops \in BOOLEAN
    /\ consumer \in [Queues -> {"off", "registered", "idle", "provision", "next", "persist", "ack", "failed"}]
    /\ held \in [Queues -> SUBSET Message] /\ \A c \in Queues : Cardinality(held[c]) <= 1
    /\ sent \in [Queues -> SUBSET Orgs] /\ acked \in [Queues -> SUBSET Orgs]
    /\ faults \in 0 .. MaxFaults

Off     == [c \in Queues |-> "off"]
Nothing == [c \in Queues |-> {}]

AdmissionsInit ==
    /\ registry = SpecOrgs /\ unread = [q \in Provisioning |-> SpecOrgs]
    /\ queue = Nothing /\ dead = Nothing /\ pops \in BOOLEAN
    /\ consumer = Off /\ held = Nothing
    /\ sent = Nothing /\ acked = Nothing /\ faults = 0

Fault == faults < MaxFaults /\ faults' = faults + 1

-----------------------------------------------------------------------------
(* The handler tells oidc_provisioning, then and_provisioning.  A send that *)
(* fails leaves the row, and the queues told so far.                       *)
Tell(o) ==
    \/ unread' = [q \in Provisioning |-> unread[q] \cup {o}] /\ UNCHANGED faults
    \/ unread' = [unread EXCEPT !["oidc"] = @ \cup {o}] /\ Fault
    \/ unread' = unread /\ Fault

AdmitOrg(o) ==
    /\ registry' = registry \cup {o}
    /\ Tell(o)
    /\ UNCHANGED <<queue, dead, pops, consumer, held, sent, acked>>

UpdateOrg(o) ==
    /\ o \in registry
    /\ Tell(o)
    /\ UNCHANGED <<registry, queue, dead, pops, consumer, held, sent, acked>>

(* A persistent world asks for a confirmation, which the request may have. *)
RemoveOrg(o) ==
    /\ o \in registry
    /\ registry' = registry \ {o}
    /\ Tell(o)
    /\ UNCHANGED <<queue, dead, pops, consumer, held, sent, acked>>

(* Nothing in the program does this. *)
Send(c, o) ==
    /\ Senders /\ o \notin sent[c]
    /\ queue' = [queue EXCEPT ![c] = @ \cup {[org |-> o, tries |-> 0]}]
    /\ sent' = [sent EXCEPT ![c] = @ \cup {o}]
    /\ UNCHANGED <<registry, unread, dead, pops, consumer, held, acked, faults>>

-----------------------------------------------------------------------------
Running(c) == consumer[c] \notin {"off", "registered"}

Goto(c, where) == consumer' = [consumer EXCEPT ![c] = where]

Receive(c) ==
    /\ consumer[c] = "idle"
    /\ \E m \in queue[c] :
         /\ held' = [held EXCEPT ![c] = {m}]
         /\ queue' = IF pops THEN [queue EXCEPT ![c] = @ \ {m}] ELSE queue
    /\ Goto(c, "provision")
    /\ UNCHANGED <<dead, acked, faults>>

(* Any call for a message may raise, the acknowledgement too. *)
HandlingFails(c) ==
    /\ consumer[c] \in {"provision", "next", "ack"}
    /\ Fault
    /\ Goto(c, "failed")
    /\ UNCHANGED <<queue, dead, held, acked>>

Acknowledge(c) ==
    /\ consumer[c] = "ack"
    /\ queue' = [queue EXCEPT ![c] = @ \ held[c]]
    /\ acked' = [acked EXCEPT ![c] = @ \cup {m.org : m \in held[c]}]
    /\ held' = [held EXCEPT ![c] = {}]
    /\ Goto(c, "idle")
    /\ UNCHANGED <<dead, faults>>

(* Defect: the retry count stays. *)
RetryAgain(m) == m

Retry(m) == [m EXCEPT !.tries = @ + 1]

(* Defect: one retry more. *)
SpentLate(m) == m.tries >= MaxRetries

Spent(m) == m.tries + 1 >= MaxRetries

(* archive_to_dlq finds the message only if it is still in the queue. *)
Archive(c) ==
    /\ consumer[c] = "failed"
    /\ LET found == held[c] \cap queue[c]
           spent == {m \in found : Spent(m)}
       IN  /\ queue' = [queue EXCEPT ![c] = (@ \ found) \cup {Retry(m) : m \in found \ spent}]
           /\ dead' = [dead EXCEPT ![c] = @ \cup {m.org : m \in spent}]
    /\ held' = [held EXCEPT ![c] = {}]
    /\ Goto(c, "idle")
    /\ UNCHANGED <<acked, faults>>

(* It raises before it has deleted the message, or after that.             *)
ArchiveFails(c) ==
    /\ consumer[c] = "failed"
    /\ Fault
    /\ queue' \in {queue, [queue EXCEPT ![c] = @ \ held[c]]}
    /\ held' = [held EXCEPT ![c] = {}]
    /\ Goto(c, "idle")
    /\ UNCHANGED <<dead, acked>>

Loop(c) == Receive(c) \/ Acknowledge(c) \/ Archive(c)

LoopFails(c) == HandlingFails(c) \/ ArchiveFails(c)

(* The consumers are tasks of the process and end with it. *)
ConsumersEnd == consumer' = Off /\ held' = Nothing
=============================================================================
