----------------------------- MODULE EventQueue -----------------------------
(***************************************************************************)
(* One primary queue of PGMQClient with its dead-letter queue: the         *)
(* emitter, the background consumer with archive_to_dlq, the               *)
(* DLQReplayWorker and the operator's replay request.                      *)
(*                                                                         *)
(* The queue itself is the pgmq extension.  pgmq.pop takes the message out *)
(* of the queue.  The client is written as if receive left it there until  *)
(* delete "acknowledges" it.  Which of the two the installed extension     *)
(* does is a choice of the initial state.                                  *)
(***************************************************************************)
EXTENDS Integers, FiniteSets

CONSTANTS Events,       (* the events emitted to this queue                 *)
          Poison,       (* events whose handling fails every time           *)
          InitialDead,  (* events that are in the dead-letter queue already *)
          Pops,         (* whether pgmq_pop may remove the message, or not  *)
          MaxRetries,   (* MAX_RETRIES                                      *)
          MaxFaults,    (* failed handlings, acknowledgements, archivings   *)
          MaxCrashes    (* ends of the process, failed sends                *)

ASSUME QueueAssumption ==
    /\ IsFiniteSet(Events)
    /\ Poison \subseteq Events
    /\ InitialDead \subseteq Events
    /\ Pops \subseteq BOOLEAN
    /\ MaxRetries \in Nat \ {0}
    /\ MaxFaults \in Nat
    /\ MaxCrashes \in Nat

(* A row of a queue: msg_id, and of the envelope what is looked at. *)
Message == [id : Nat, event : Events, retries : Nat, resolved : BOOLEAN]

VARIABLES pop,       (* pgmq_pop removes the message                        *)
          queue,     (* the primary queue                                   *)
          dlq,       (* the dead-letter queue                               *)
          nextId,    (* the msg_id of the next message                      *)
          toEmit,    (* events that are still to be emitted                 *)
          unsent,    (* events in runtime_state.event_send_failures         *)
          pc,        (* where the consumer is                               *)
          held,      (* the message the consumer works on: one or none      *)
          worker,    (* where the DLQReplayWorker is                        *)
          attempts,  (* history: how often an event was received            *)
          handled,   (* history: how often it was handled with success      *)
          faults, crashes

vars == <<pop, queue, dlq, nextId, toEmit, unsent, pc, held, worker, attempts,
          handled, faults, crashes>>

Sent == Events \ (toEmit \cup unsent \cup InitialDead)

Has(q, e) == \E m \in q : m.event = e

Dead(e, i) == [id |-> i, event |-> e, retries |-> MaxRetries, resolved |-> FALSE]

TypeOK ==
    /\ pop \in Pops
    /\ queue \subseteq Message
    /\ dlq \subseteq Message
    /\ nextId \in Nat
    /\ toEmit \subseteq Events
    /\ unsent \subseteq Events
    /\ pc \in {"idle", "handling", "acking", "archiving", "resending"}
    /\ held \subseteq Message /\ Cardinality(held) <= 1
    /\ worker \in {"watching", "failed"}
    /\ attempts \in [Events -> Nat]
    /\ handled \in [Events -> Nat]
    /\ faults \in 0 .. MaxFaults
    /\ crashes \in 0 .. MaxCrashes

Init ==
    /\ pop \in Pops
    /\ queue = {}
    /\ dlq = {Dead(e, 0) : e \in InitialDead}
    /\ nextId = 1
    /\ toEmit = Events \ InitialDead
    /\ unsent = {}
    /\ pc = "idle"
    /\ held = {}
    /\ worker = "watching"
    /\ attempts = [e \in Events |-> 0]
    /\ handled = [e \in Events |-> 0]
    /\ faults = 0
    /\ crashes = 0

Fault   == faults < MaxFaults /\ faults' = faults + 1 /\ UNCHANGED crashes
Trouble == crashes < MaxCrashes /\ crashes' = crashes + 1 /\ UNCHANGED faults

(* The oldest message: the one pgmq.pop returns. *)
Oldest(q) == CHOOSE m \in q : \A x \in q : m.id <= x.id

(* What a pop leaves of the queue. *)
Popped(q) == IF pop THEN q \ {Oldest(q)} ELSE q

-----------------------------------------------------------------------------
(* emit_event: a failed send is recorded in the runtime state. *)
Emit(e) ==
    /\ e \in toEmit
    /\ toEmit' = toEmit \ {e}
    /\ \/ /\ queue' = queue \cup {[id |-> nextId, event |-> e, retries |-> 0,
                                   resolved |-> FALSE]}
          /\ nextId' = nextId + 1
          /\ UNCHANGED <<unsent, faults, crashes>>
       \/ /\ Trouble
          /\ unsent' = unsent \cup {e}
          /\ UNCHANGED <<queue, nextId>>
    /\ UNCHANGED <<pop, dlq, pc, held, worker, attempts, handled>>

(* The consumer receives a message. *)
Receive ==
    /\ pc = "idle"
    /\ queue # {}
    /\ LET m == Oldest(queue) IN
         /\ held' = {m}
         /\ attempts' = [attempts EXCEPT ![m.event] = @ + 1]
    /\ queue' = Popped(queue)
    /\ pc' = "handling"
    /\ UNCHANGED <<pop, dlq, nextId, toEmit, unsent, worker, handled, faults, crashes>>

(* It handles the event, or deletes one of another type unseen. *)
Handle ==
    /\ pc = "handling"
    /\ \A m \in held : /\ m.event \notin Poison
                       /\ handled' = [handled EXCEPT ![m.event] = @ + 1]
    /\ pc' = "acking"
    /\ UNCHANGED <<pop, queue, dlq, nextId, toEmit, unsent, held, worker, attempts,
                   faults, crashes>>

(* Defect: the event is tried again in place. *)
HandleFailsInPlace ==
    /\ pc = "handling"
    /\ \A m \in held : m.event \in Poison
    /\ UNCHANGED vars

HandleFails ==
    /\ pc = "handling"
    /\ \/ (\A m \in held : m.event \in Poison) /\ UNCHANGED <<faults, crashes>>
       \/ Fault
    /\ pc' = "archiving"
    /\ UNCHANGED <<pop, queue, dlq, nextId, toEmit, unsent, held, worker, attempts, handled>>

Without(q, ms) == {m \in q : \A x \in ms : m.id # x.id}

(* delete(msg_id); a failure of it is taken for a failure of the handling. *)
Ack ==
    /\ pc = "acking"
    /\ queue' = Without(queue, held)
    /\ held' = {}
    /\ pc' = "idle"
    /\ UNCHANGED <<pop, dlq, nextId, toEmit, unsent, worker, attempts, handled, faults, crashes>>

AckFails ==
    /\ pc = "acking"
    /\ Fault
    /\ pc' = "archiving"
    /\ UNCHANGED <<pop, queue, dlq, nextId, toEmit, unsent, held, worker, attempts, handled>>

(* Defect: the message is not deleted before it is sent again. *)
WithdrawKeeping ==
    /\ pc = "archiving"
    /\ IF \E m \in held : \E x \in queue : x.id = m.id
       THEN pc' = "resending" /\ UNCHANGED held
       ELSE pc' = "idle" /\ held' = {}
    /\ UNCHANGED <<pop, queue, dlq, nextId, toEmit, unsent, worker, attempts, handled,
                   faults, crashes>>

(* The first half of archive_to_dlq: read the message by its id, return if *)
(* it is not there, and delete it.                                         *)
Withdraw ==
    /\ pc = "archiving"
    /\ IF \E m \in held : \E x \in queue : x.id = m.id
       THEN /\ queue' = Without(queue, held)
            /\ pc' = "resending"
            /\ UNCHANGED held
       ELSE /\ pc' = "idle"
            /\ held' = {}
            /\ UNCHANGED queue
    /\ UNCHANGED <<pop, dlq, nextId, toEmit, unsent, worker, attempts, handled, faults, crashes>>

(* The consumer logs that the archiving failed and goes on. *)
WithdrawFails ==
    /\ pc = "archiving"
    /\ Fault
    /\ held' = {}
    /\ pc' = "idle"
    /\ UNCHANGED <<pop, queue, dlq, nextId, toEmit, unsent, worker, attempts, handled>>

(* _retry_envelope *)
Retried(m) == [m EXCEPT !.id = nextId, !.retries = @ + 1]

(* Defect: a message goes to the dead letters one retry early. *)
ExhaustedEarly(m) == m.retries + 2 >= MaxRetries

Exhausted(m) == m.retries + 1 >= MaxRetries

(* Defect: a message is dropped after the last retry. *)
ResendDropping ==
    /\ pc = "resending"
    /\ \E m \in held :
         queue' = IF Exhausted(m) THEN queue ELSE queue \cup {Retried(m)}
    /\ nextId' = nextId + 1
    /\ held' = {}
    /\ pc' = "idle"
    /\ UNCHANGED <<pop, dlq, toEmit, unsent, worker, attempts, handled, faults, crashes>>

(* The second half: to the dead-letter queue after the last retry, else    *)
(* back into the primary queue.                                            *)
Resend ==
    /\ pc = "resending"
    /\ \E m \in held :
         IF Exhausted(m)
         THEN dlq' = dlq \cup {Retried(m)} /\ UNCHANGED queue
         ELSE queue' = queue \cup {Retried(m)} /\ UNCHANGED dlq
    /\ nextId' = nextId + 1
    /\ held' = {}
    /\ pc' = "idle"
    /\ UNCHANGED <<pop, toEmit, unsent, worker, attempts, handled, faults, crashes>>

(* The send fails, or the process ends: what the consumer held is gone. *)
ResendFails ==
    /\ pc = "resending"
    /\ Trouble
    /\ held' = {}
    /\ pc' = "idle"
    /\ UNCHANGED <<pop, queue, dlq, nextId, toEmit, unsent, worker, attempts, handled>>

Crash ==
    /\ pc \in {"handling", "acking", "archiving"}
    /\ Trouble
    /\ held' = {}
    /\ pc' = "idle"
    /\ UNCHANGED <<pop, queue, dlq, nextId, toEmit, unsent, worker, attempts, handled>>

-----------------------------------------------------------------------------
(* The operator marks a dead letter: payload.dlq_resolved = true. *)
Resolve ==
    /\ \E m \in dlq : /\ ~m.resolved
                      /\ dlq' = (dlq \ {m}) \cup {[m EXCEPT !.resolved = TRUE]}
    /\ UNCHANGED <<pop, queue, nextId, toEmit, unsent, pc, held, worker, attempts, handled,
                   faults, crashes>>

(* Defect: an unresolved message is deleted. *)
ReplayOnceDiscarding ==
    /\ worker = "watching"
    /\ dlq # {}
    /\ dlq' = dlq \ {Oldest(dlq)}
    /\ worker' = IF Oldest(dlq).resolved THEN "failed" ELSE "watching"
    /\ UNCHANGED <<pop, queue, nextId, toEmit, unsent, pc, held, attempts, handled, faults, crashes>>

(* DLQReplayWorker.replay_once: pop; an unresolved message is "left".  For *)
(* a resolved one it builds an envelope whose emitted_at is the text the   *)
(* message carried; send calls isoformat() on it, which fails, and the     *)
(* worker waits for the supervisor.  So nothing gets back to the queue.    *)
ReplayOnce ==
    /\ worker = "watching"
    /\ dlq # {}
    /\ dlq' = Popped(dlq)
    /\ worker' = IF Oldest(dlq).resolved THEN "failed" ELSE "watching"
    /\ UNCHANGED <<pop, queue, nextId, toEmit, unsent, pc, held, attempts, handled, faults, crashes>>

RestartWorker ==
    /\ worker = "failed"
    /\ worker' = "watching"
    /\ UNCHANGED <<pop, queue, dlq, nextId, toEmit, unsent, pc, held, attempts, handled,
                   faults, crashes>>

(* POST /queues/{queue}/dlq/replay: pop; assigning to retry_count of the   *)
(* frozen envelope fails, and the request ends.                            *)
ReplayDlq ==
    /\ dlq # {}
    /\ dlq' = Popped(dlq)
    /\ UNCHANGED <<pop, queue, nextId, toEmit, unsent, pc, held, worker, attempts, handled,
                   faults, crashes>>

-----------------------------------------------------------------------------
Consume == Receive \/ Handle \/ Ack \/ Withdraw \/ Resend \/ HandleFails

Next == \/ \E e \in Events : Emit(e)
        \/ Consume
        \/ AckFails \/ WithdrawFails \/ ResendFails \/ Crash
        \/ Resolve \/ ReplayOnce \/ RestartWorker \/ ReplayDlq

Spec == Init /\ [][Next]_vars

(* The consumer and the worker are supervised, hence always run again. *)
FairSpec == Spec /\ WF_vars(Consume) /\ WF_vars(ReplayOnce) /\ WF_vars(RestartWorker)

-----------------------------------------------------------------------------
(* Safety *)

Lost == {e \in Sent : handled[e] = 0 /\ ~Has(queue \cup dlq \cup held, e)}

(* An event that was sent is handled, waiting, being worked on or in the   *)
(* dead letters; each crash or failed send costs at most one event.  Where *)
(* the pop has removed the message, so does each failure to handle it.     *)
LossesCounted ==
    Cardinality(Lost) <= crashes + (IF pop THEN faults + Cardinality(Poison) ELSE 0)

(* At no time are there two messages of one event: the retry never doubles *)
(* an event, wherever the archiving is interrupted.                        *)
SingleCopy ==
    \A e \in Events :
        Cardinality({m \in queue \cup dlq \cup (IF pc = "resending" THEN held ELSE {}) :
                         m.event = e}) <= 1

(* An event is received again only for a counted failure, MAX_RETRIES      *)
(* times and once more for each fault or crash that left no count, or only *)
(* once where the pop has removed it; and it becomes a dead letter only    *)
(* after MAX_RETRIES attempts.                                             *)
RetriesCounted ==
    /\ \A e \in Events :
          attempts[e] <= IF pop THEN 1 ELSE MaxRetries + faults + crashes
    /\ \A m \in dlq : m.event \in InitialDead \/ attempts[m.event] >= MaxRetries

(* A dead letter that is not resolved stays: "replay only messages         *)
(* explicitly marked resolved"; unless the pop has removed it or the       *)
(* operator asks for a replay of all.                                      *)
UnresolvedKept ==
    [][~pop /\ ~ReplayDlq => \A m \in dlq : ~m.resolved => Has(dlq', m.event)]_dlq

(* The stage of an event in EventLife. *)
Stage(e) ==
    IF e \in toEmit THEN "new"
    ELSE IF e \in unsent THEN "unsent"
    ELSE IF Has(dlq, e) THEN "dead"
    ELSE IF Has(queue \cup held, e) THEN "waiting"
    ELSE IF handled[e] > 0 THEN "done" ELSE "lost"

Life == INSTANCE EventLife WITH DeadFirst <- InitialDead, taking <- pop,
                                stage <- [e \in Events |-> Stage(e)]

(* However retries, crashes and replays interleave, an event moves from    *)
(* stage to stage as EventLife says: no one works on it again when it was  *)
(* acknowledged or lost, and a dead letter stays one until it is replayed: *)
(* none is lost on the way back to its queue.                              *)
LivesOnce == Life!Spec

(* Liveness *)

(* The queue drains, also of poison: nothing is retried for ever. *)
Drains == <>[](queue = {} /\ held = {})
=============================================================================
