---------------------------- MODULE Certificates ----------------------------
(***************************************************************************)
(* Phase 3 (PKIPhaseHandler and PKIHandler) and the worker it registers,   *)
(* PKICertRotationWorker, over the state file they share with everybody    *)
(* else.  The process of the orchestrator keeps one RuntimeState and saves *)
(* it now and then; the worker, in the same process, loads a copy of the   *)
(* file in every round and saves it at the end; a reload, a request of the *)
(* API or a drift watch holds a copy for as long as it works and saves it. *)
(* A save replaces the whole file.                                         *)
(*                                                                         *)
(* The worker is there only if the context has its client of the queues    *)
(* when phase 3 runs.  It is phase 5 that makes one: `netengine up` has no *)
(* worker, and who embeds the orchestrator sets the client beforehand.     *)
(*                                                                         *)
(* Time is in hours, the period of the worker; a round takes less.         *)
(***************************************************************************)
EXTENDS Naturals, FiniteSets

CONSTANTS Certs, Types, TypeOf,
          Lifetime,            (* of a certificate                          *)
          KeyLifetime,         (* of the DNSSEC keys: the shorter one       *)
          Interval, Warning,   (* of the rotation policy                    *)
          Never,               (* no time                                   *)
          MaxFaults, MaxTime

(* An issue may fail at every check but the last before the expiry.        *)
ASSUME CertificateAssumption ==
    /\ TypeOf \in [Certs -> Types]
    /\ Interval \in Nat \ {0} /\ Warning \in Nat /\ MaxFaults \in Nat /\ MaxTime \in Nat
    /\ Warning < Lifetime /\ Lifetime \in Nat /\ KeyLifetime \in Nat \ {0}
    /\ Warning >= (MaxFaults + 1) * Interval
    /\ Never \notin Nat

Times == 0 .. MaxTime + Lifetime

(* The fields of RuntimeState this module is about: expires_at of the      *)
(* issued certificates, last_check_by_type, dnssec_output, the certificate *)
(* and the container of the CA, the flag of phase 3, and                   *)
(* rotation_policy.enabled of world_spec.                                  *)
State == [certs : [Certs -> Times \cup {Never}], last : [Types -> Times \cup {Never}],
          keys : 0 .. MaxTime + MaxFaults + 2, made : Times, pem : BOOLEAN, ca : BOOLEAN,
          done : BOOLEAN, enabled : BOOLEAN]

VARIABLES now,
          client,         (* the context has a client when phase 3 runs     *)
          file, mem,      (* the state file, the state of the orchestrator  *)
          copy,           (* that of the worker, while a round lasts        *)
          worker,         (* where the worker is, when it wakes, the types  *)
                          (* and certificates it has still to look at       *)
          phase,          (* where execute of phase 3 is                    *)
          held,           (* the copy of a reload, a request or a watch     *)
          container,      (* step-ca                                        *)
          issued,         (* expiry of the last certificate of a name       *)
          keygen,         (* how often keys were generated                  *)
          corefile,       (* the keys the Corefile names                    *)
          dropped,        (* history: certificates some save dropped        *)
          paused,         (* history: the policy was off at some time       *)
          faults

hist == <<dropped, paused>>
vars == <<now, client, file, mem, copy, held, worker, phase, container, issued, keygen, corefile, hist, faults>>

TypeOK ==
    /\ now \in 0 .. MaxTime
    /\ client \in BOOLEAN
    /\ file \in State /\ mem \in State /\ copy \in State /\ held \in State
    /\ worker \in [pc : {"none", "sleep", "round", "rotate", "keys"}, wake : 0 .. MaxTime + 1,
                   types : SUBSET Types, due : SUBSET Certs]
    /\ phase \in {"idle", "ca", "health", "record", "keys", "sign", "persist"}
    /\ container \in {"none", "up", "down"}
    /\ issued \in [Certs -> Times \cup {Never}]
    /\ keygen \in Nat /\ corefile \in 0 .. keygen
    /\ dropped \subseteq Certs /\ paused \in BOOLEAN
    /\ faults \in 0 .. MaxFaults
    (* The types are checked one after the other. *)
    /\ worker.due # {} => worker.pc = "rotate" /\ Cardinality({TypeOf[c] : c \in worker.due}) = 1

Fresh == [certs |-> [c \in Certs |-> Never], last |-> [t \in Types |-> Never],
          keys |-> 0, made |-> 0, pem |-> FALSE, ca |-> FALSE, done |-> FALSE, enabled |-> TRUE]
Asleep(pc, t) == [pc |-> pc, wake |-> t, types |-> {}, due |-> {}]

Init ==
    /\ now = 0 /\ client \in BOOLEAN
    /\ file \in {Fresh, [Fresh EXCEPT !.pem = TRUE]}
    /\ mem = file /\ held = file /\ copy = Fresh
    /\ worker = Asleep("none", 0)
    /\ phase = "idle"
    /\ container = "none"
    /\ issued = [c \in Certs |-> Never]
    /\ keygen = 0 /\ corefile = 0
    /\ dropped = {} /\ paused = FALSE /\ faults = 0

-----------------------------------------------------------------------------
Tracked(s) == {c \in Certs : s.certs[c] # Never}

(* Save replaces the file; whoever saves an older copy drops what was      *)
(* added meanwhile.                                                        *)
SaveState(s) ==
    /\ file' = s
    /\ dropped' = dropped \cup (Tracked(file) \ Tracked(s))
    /\ paused' = (paused \/ ~s.enabled)

Fault == faults < MaxFaults /\ faults' = faults + 1

(* issue_cert runs `step` in a container of its own; the new certificate   *)
(* replaces the one on the volume.                                         *)
IssueCert(c) == issued' = [issued EXCEPT ![c] = now + Lifetime]

(* setup_dnssec: a key pair with new names, beside the old ones. *)
NewKeys(s) == [s EXCEPT !.keys = keygen + 1, !.made = now]

-----------------------------------------------------------------------------
(* Phase 3.  The handler may be executed again: by a bootstrap that failed,*)
(* and by the drift controller when the CA does not answer.                *)
ShouldSkip == mem.done

Bootstrap ==
    /\ phase = "idle" /\ (~ShouldSkip \/ container # "up")
    /\ phase' = "ca"
    /\ UNCHANGED <<now, client, file, mem, copy, worker, held, container, issued, keygen, corefile, hist, faults>>

(* An exception: its caller saves the state as it is. *)
Raise == phase' = "idle" /\ SaveState(mem)

(* _generate_ca uses two names it does not define: only a state that has   *)
(* the certificate of a CA gets further.                                   *)
GenerateCa ==
    /\ phase = "ca" /\ ~mem.pem
    /\ Raise
    /\ UNCHANGED <<now, client, mem, copy, worker, held, container, issued, keygen, corefile, faults>>

(* The server is started unless a container is on record, be it up or not. *)
StartServer ==
    /\ phase = "ca" /\ mem.pem
    /\ IF mem.ca \/ container = "none"
       THEN /\ container' = IF mem.ca THEN container ELSE "up"
            /\ mem' = [mem EXCEPT !.ca = TRUE]
            /\ phase' = "health"
            /\ SaveState(mem')
       ELSE Raise /\ UNCHANGED <<mem, container>>
    /\ UNCHANGED <<now, client, copy, worker, held, issued, keygen, corefile, faults>>

HealthcheckCa ==
    /\ phase = "health"
    /\ IF container = "up" THEN phase' = "record" /\ UNCHANGED <<file, hist>> ELSE Raise
    /\ UNCHANGED <<now, client, mem, copy, worker, held, container, issued, keygen, corefile, faults>>

(* The record of the CA, see ZoneRecords. *)
RecordCa ==
    /\ phase = "record"
    /\ phase' = "keys"
    /\ UNCHANGED <<now, client, file, mem, copy, worker, held, container, issued, keygen, corefile, hist, faults>>

GenerateKeys ==
    /\ phase = "keys"
    /\ mem' = NewKeys(mem)
    /\ keygen' = keygen + 1
    /\ phase' = "sign"
    /\ UNCHANGED <<now, client, file, copy, worker, held, container, issued, corefile, hist, faults>>

(* enable_dnssec leaves a zone alone that has a dnssec block. *)
EnableDnssec ==
    /\ phase = "sign"
    /\ IF corefile = 0
       THEN corefile' = mem.keys
       ELSE UNCHANGED corefile
    /\ phase' = "persist"
    /\ UNCHANGED <<now, client, file, mem, copy, worker, held, container, issued, keygen, hist, faults>>

(* A worker registered when the supervisor has started is not started: only*)
(* the first execution counts, and only with a client.                     *)
Persist ==
    /\ phase = "persist"
    /\ mem' = [mem EXCEPT !.done = TRUE]
    /\ SaveState(mem')
    /\ worker' = IF client /\ mem.enabled /\ ~mem.done THEN Asleep("sleep", now) ELSE worker
    /\ phase' = "idle"
    /\ UNCHANGED <<now, client, copy, held, container, issued, keygen, corefile, faults>>

(* A call of Docker fails. *)
BootstrapFails ==
    /\ phase \in {"ca", "record", "keys", "sign"} /\ Fault
    /\ Raise
    /\ UNCHANGED <<now, client, mem, copy, worker, held, container, issued, keygen, corefile>>

CaDies ==
    /\ container = "up" /\ Fault
    /\ container' = "down"
    /\ UNCHANGED <<now, client, file, mem, copy, worker, phase, held, issued, keygen, corefile, hist>>

-----------------------------------------------------------------------------
(* The worker. *)
PolicyTypes(s) == IF s.enabled THEN Types ELSE {}

Load ==
    /\ worker.pc = "sleep" /\ now >= worker.wake
    /\ copy' = file
    /\ worker' = [worker EXCEPT !.pc = "round", !.types = PolicyTypes(file)]
    /\ UNCHANGED <<now, client, file, mem, phase, held, container, issued, keygen, corefile, hist, faults>>

ShouldCheck(t) == copy.last[t] = Never \/ now >= copy.last[t] + Interval

(* Defects: the certificates of all types are renewed; only those that have*)
(* expired are.                                                            *)
ExpiringAll(t) == {c \in Tracked(copy) : copy.certs[c] <= now + Warning}

ExpiringLate(t) == {c \in Tracked(copy) : TypeOf[c] = t /\ copy.certs[c] <= now}

Expiring(t) == {c \in Tracked(copy) : TypeOf[c] = t /\ copy.certs[c] <= now + Warning}

StartType(t) ==
    /\ worker.pc = "round" /\ t \in worker.types
    /\ worker' = [worker EXCEPT !.types = @ \ {t}, !.pc = IF ShouldCheck(t) THEN "rotate" ELSE "round",
                                !.due = IF ShouldCheck(t) THEN Expiring(t) ELSE {}]
    /\ copy' = IF ShouldCheck(t) THEN [copy EXCEPT !.last[t] = now] ELSE copy
    /\ UNCHANGED <<now, client, file, mem, phase, held, container, issued, keygen, corefile, hist, faults>>

(* Defect: the new expiry is recorded before the certificate is issued. *)
RotateCertFirst(c) ==
    /\ c \in worker.due
    /\ copy' = [copy EXCEPT !.certs[c] = now + Lifetime]
    /\ \/ IssueCert(c) /\ UNCHANGED faults
       \/ Fault /\ UNCHANGED issued
    /\ worker' = [worker EXCEPT !.due = @ \ {c}]
    /\ UNCHANGED <<now, client, file, mem, phase, held, container, keygen, corefile, hist>>

(* An attempt that fails is counted as a check all the same; the new       *)
(* certificate may be there or not.                                        *)
RotateCert(c) ==
    /\ c \in worker.due
    /\ \/ /\ IssueCert(c)
          /\ copy' = [copy EXCEPT !.certs[c] = now + Lifetime]
          /\ UNCHANGED faults
       \/ Fault /\ (UNCHANGED issued \/ IssueCert(c)) /\ UNCHANGED copy
    /\ worker' = [worker EXCEPT !.due = @ \ {c}]
    /\ UNCHANGED <<now, client, file, mem, phase, held, container, keygen, corefile, hist>>

TypeChecked ==
    /\ worker.pc = "rotate" /\ worker.due = {}
    /\ worker' = [worker EXCEPT !.pc = "round"]
    /\ UNCHANGED <<now, client, file, mem, copy, phase, held, container, issued, keygen, corefile, hist, faults>>

KeysDue == copy.keys # 0 /\ now >= copy.made + KeyLifetime

(* Only the record is renewed: no Corefile names the new keys. *)
RotateKeys ==
    /\ worker.pc = "round" /\ worker.types = {}
    /\ IF KeysDue
       THEN \/ copy' = NewKeys(copy) /\ keygen' = keygen + 1 /\ UNCHANGED faults
            \/ Fault /\ UNCHANGED <<copy, keygen>>
       ELSE UNCHANGED <<copy, keygen, faults>>
    /\ worker' = [worker EXCEPT !.pc = "keys"]
    /\ UNCHANGED <<now, client, file, mem, phase, held, container, issued, corefile, hist>>

SaveRound ==
    /\ worker.pc = "keys"
    /\ SaveState(copy)
    /\ copy' = Fresh
    /\ worker' = Asleep("sleep", now + 1)
    /\ UNCHANGED <<now, client, mem, phase, held, container, issued, keygen, corefile, faults>>

(* An exception of the round: another is made in five minutes. *)
RoundFails ==
    /\ worker.pc \in {"round", "keys"} /\ Fault
    /\ copy' = Fresh
    /\ worker' = Asleep("sleep", now)
    /\ UNCHANGED <<now, client, file, mem, phase, held, container, issued, keygen, corefile, hist>>

-----------------------------------------------------------------------------
(* Everybody else: the later phases and the consumers issue certificates   *)
(* and record them in the state of the orchestrator, which is saved now or *)
(* later.                                                                  *)
Track(c) ==
    /\ mem.done /\ mem.certs[c] = Never
    /\ IssueCert(c)
    /\ mem' = [mem EXCEPT !.certs[c] = now + Lifetime]
    /\ SaveState(mem')
    /\ UNCHANGED <<now, client, copy, worker, phase, held, container, keygen, corefile, faults>>

OrchestratorSaves ==
    /\ mem # file
    /\ SaveState(mem)
    /\ UNCHANGED <<now, client, mem, copy, worker, phase, held, container, issued, keygen, corefile, faults>>

(* Whoever holds a copy loads it at any time and saves it at any later one.*)
LoadCopy ==
    /\ held' = file
    /\ UNCHANGED <<now, client, file, mem, copy, worker, phase, container, issued, keygen, corefile, hist, faults>>

SaveCopy ==
    /\ held # file
    /\ SaveState(held)
    /\ UNCHANGED <<now, client, mem, copy, worker, phase, held, container, issued, keygen, corefile, faults>>

(* A request that loads, changes and saves without a pause between.  The   *)
(* policy is turned off once.                                              *)
SetPolicy(on) ==
    /\ file.done /\ file.enabled # on /\ (paused => on)
    /\ SaveState([file EXCEPT !.enabled = on])
    /\ UNCHANGED <<now, client, mem, copy, worker, phase, held, container, issued, keygen, corefile, faults>>

(* An hour passes, when the round that is due is over. *)
Tick ==
    /\ now < MaxTime
    /\ worker.pc \in {"none", "sleep"} /\ (worker.pc = "sleep" => now < worker.wake)
    /\ phase = "idle"
    /\ now' = now + 1
    /\ UNCHANGED <<client, file, mem, copy, worker, phase, held, container, issued, keygen, corefile, hist, faults>>

Next ==
    \/ Bootstrap \/ GenerateCa \/ StartServer \/ HealthcheckCa \/ RecordCa \/ GenerateKeys \/ EnableDnssec
    \/ Persist \/ BootstrapFails \/ CaDies
    \/ Load \/ TypeChecked \/ RotateKeys \/ SaveRound \/ RoundFails
    \/ \E t \in Types : StartType(t)
    \/ \E c \in Certs : RotateCert(c) \/ Track(c)
    \/ OrchestratorSaves \/ LoadCopy \/ SaveCopy \/ Tick
    \/ \E on \in BOOLEAN : SetPolicy(on)

Spec == Init /\ [][Next]_vars

-----------------------------------------------------------------------------
(* However the writers overwrite each other's updates, no copy of the      *)
(* state names an expiry later than that of the certificate last issued:   *)
(* what is lost leads to an early renewal, never to a late one.            *)
NeverAhead ==
    \A s \in {file, mem, copy, held} : \A c \in Tracked(s) :
        issued[c] # Never /\ s.certs[c] <= issued[c]

(* Where the worker runs, and as long as the policy is on and no save has  *)
(* dropped it, a certificate is renewed before it expires, although checks *)
(* fail, rounds break off and what they did is overwritten.                *)
NoneExpires ==
    ~paused => \A c \in Tracked(file) \ dropped : worker.pc = "sleep" => issued[c] > now
=============================================================================
