-------------------------- MODULE EventQueueProofs --------------------------
(* Proofs about EventQueue: how many messages of an event there are, how   *)
(* often it is received, and how many events are lost.                     *)
EXTENDS EventQueue, FiniteSetTheorems, TLAPS

(* The consumer holds one message when it is busy, and none otherwise.     *)
InHand == IF pc = "idle" THEN held = {} ELSE \E m \in held : held = {m}

(* Whether the message in hand is in no queue. *)
Out == pop \/ pc = "resending"

(* An event has at most one message; an identifier of the primary queue    *)
(* is used once, and none is used that is still to come.                   *)
Single ==
    /\ \A m, x \in queue : m.event = x.event \/ m.id = x.id => m = x
    /\ \A m, x \in dlq : m.event = x.event => m = x
    /\ \A m \in queue, x \in dlq : m.event # x.event
    /\ IF Out THEN \A m \in held, x \in queue \cup dlq : m.event # x.event
              ELSE held \subseteq queue
    /\ \A m \in held, x \in queue : m.id = x.id => ~Out
    /\ \A m \in queue \cup dlq \cup held : m.id < nextId
    /\ pop => pc # "resending"

(* An event that was not sent has no message and was never received.       *)
Unsent ==
    /\ toEmit \cap unsent = {} /\ InitialDead \cap (toEmit \cup unsent) = {}
    /\ \A m \in queue \cup dlq \cup held : m.event \notin toEmit \cup unsent
    /\ \A m \in queue \cup held : m.event \notin InitialDead
    /\ \A e \in toEmit \cup unsent : attempts[e] = 0
    /\ pop => \A m \in dlq : m.event \in InitialDead

(* The retries of a message and the times its event was received tell the  *)
(* same, but for the faults that left no count.                            *)
Slack == IF pop THEN 0 ELSE faults + crashes

(* How often an event is received where nothing fails.                     *)
Limit == IF pop THEN 1 ELSE MaxRetries

Counted ==
    /\ \A m \in queue \cup held : m.retries < MaxRetries /\ (pop => m.retries = 0)
    /\ \A m \in queue \ held : /\ m.retries <= attempts[m.event]
                               /\ attempts[m.event] <= m.retries + Slack
    /\ \A m \in held : /\ m.retries + 1 <= attempts[m.event]
                       /\ attempts[m.event] <= m.retries + 1 + Slack
    /\ \A e \in Events : attempts[e] <= Limit + Slack
    /\ \A m \in dlq : m.event \in InitialDead \/ attempts[m.event] >= MaxRetries

(* An event that is to be acknowledged was handled. *)
Honest == pc = "acking" => \A m \in held : handled[m.event] > 0

(* Events that are lost, or whose handling failed after their message was  *)
(* taken out of the queue.                                                 *)
AtRisk ==
    IF pop
    THEN {e \in Events \ Poison :
             e \in Lost \/ (pc = "archiving" /\ handled[e] = 0 /\ Has(held, e))}
    ELSE Lost

Allowance == IF pop THEN crashes + faults ELSE crashes

Risked == Cardinality(AtRisk) <= Allowance

IInv == TypeOK /\ InHand /\ Single /\ Unsent /\ Counted /\ Honest /\ Risked

-----------------------------------------------------------------------------
(* A queue that is not empty has an oldest message: identifiers are well   *)
(* founded.                                                                *)
LEMMA OldestWaits ==
    ASSUME NEW q, q \subseteq Message, q # {}
    PROVE  Oldest(q) \in q
<1> DEFINE Below == {0 .. m.id : m \in q}
<1>1. Below \subseteq FiniteSubsetsOf(Nat)
  <2>1. SUFFICES ASSUME NEW m \in q PROVE 0 .. m.id \in FiniteSubsetsOf(Nat)
    OBVIOUS
  <2>2. m.id \in Nat
    BY DEF Message
  <2>3. IsFiniteSet(0 .. m.id)
    BY <2>2, FS_Interval
  <2>4. 0 .. m.id \in SUBSET Nat
    BY <2>2
  <2> QED BY <2>3, <2>4 DEF FiniteSubsetsOf
<1>2. IsWellFoundedOn(StrictSubsetOrdering(Nat), FiniteSubsetsOf(Nat))
  BY FS_StrictSubsetOrderingWellFounded
<1>3. PICK x \in Below : \A y \in Below : <<y, x>> \notin StrictSubsetOrdering(Nat)
  <2>1. Below # {}
    OBVIOUS
  <2> HIDE DEF Below
  <2> QED BY <1>1, <1>2, <2>1, WFMin
<1>4. PICK m \in q : x = 0 .. m.id
  BY <1>3
<1>5. ASSUME NEW o \in q PROVE m.id <= o.id
  <2>1. m.id \in Nat /\ o.id \in Nat
    BY DEF Message
  <2>2. SUFFICES ASSUME o.id < m.id PROVE FALSE
    BY <2>1
  <2>3. /\ 0 .. o.id \subseteq 0 .. m.id
        /\ m.id \in 0 .. m.id /\ m.id \notin 0 .. o.id
        /\ 0 .. m.id \in SUBSET Nat /\ 0 .. o.id \in SUBSET Nat
    BY <2>1, <2>2
  <2>4. <<0 .. o.id, 0 .. m.id>> \in StrictSubsetOrdering(Nat)
    BY <2>3 DEF StrictSubsetOrdering
  <2> QED BY <1>3, <1>4, <2>4
<1> QED BY <1>5 DEF Oldest

(* What is sent again is a message, a new one.                             *)
LEMMA RetriedIs ==
    ASSUME TypeOK, NEW m \in Message
    PROVE  /\ Retried(m) \in Message
           /\ Retried(m).id = nextId
           /\ Retried(m).event = m.event
           /\ Retried(m).retries = m.retries + 1
<1>1. nextId \in Nat /\ m.retries + 1 \in Nat
  BY DEF TypeOK, Message
<1> QED BY <1>1 DEF Retried, Message

(* A set of events that loses elements, or gains one at most.              *)
LEMMA Grows ==
    ASSUME NEW S \in SUBSET Events, NEW T, NEW x, T \subseteq S \cup {x}
    PROVE  /\ Cardinality(S) \in Nat /\ Cardinality(T) \in Nat
           /\ Cardinality(T) <= Cardinality(S) + 1
           /\ T \subseteq S => Cardinality(T) <= Cardinality(S)
<1>1. IsFiniteSet(S) /\ Cardinality(S) \in Nat
  BY QueueAssumption, FS_Subset, FS_CardinalityType
<1>2. IsFiniteSet(S \cup {x}) /\ Cardinality(S \cup {x}) \in Nat
      /\ Cardinality(S \cup {x}) <= Cardinality(S) + 1
  BY <1>1, FS_AddElement, FS_CardinalityType
<1>3. IsFiniteSet(T) /\ Cardinality(T) \in Nat /\ Cardinality(T) <= Cardinality(S \cup {x})
  BY <1>2, FS_Subset, FS_CardinalityType
<1>4. T \subseteq S => Cardinality(T) <= Cardinality(S)
  BY <1>1, FS_Subset
<1> QED BY <1>1, <1>2, <1>3, <1>4

LEMMA AllowanceType == TypeOK => Allowance \in Nat
<1> SUFFICES ASSUME TypeOK PROVE Allowance \in Nat
  OBVIOUS
<1>1. faults \in Nat /\ crashes \in Nat
  BY QueueAssumption DEF TypeOK
<1> QED BY <1>1 DEF Allowance

LEMMA RiskKept ==
    ASSUME TypeOK, Risked,
           \/ AtRisk' \subseteq AtRisk /\ Allowance' \in {Allowance, Allowance + 1}
           \/ (\E x : AtRisk' \subseteq AtRisk \cup {x}) /\ Allowance' = Allowance + 1
    PROVE  Risked'
<1>1. AtRisk \in SUBSET Events
  BY DEF AtRisk, Lost, Sent
<1>2. Allowance \in Nat
  BY AllowanceType
<1>3. Cardinality(AtRisk) <= Allowance
  BY DEF Risked
<1>4. CASE AtRisk' \subseteq AtRisk /\ Allowance' \in {Allowance, Allowance + 1}
  <2>1. /\ Cardinality(AtRisk) \in Nat /\ Cardinality(AtRisk') \in Nat
        /\ Cardinality(AtRisk') <= Cardinality(AtRisk)
    BY <1>1, <1>4, Grows
  <2>2. Cardinality(AtRisk') <= Allowance'
    BY <1>2, <1>3, <1>4, <2>1
  <2> QED BY <2>2 DEF Risked
<1>5. ASSUME NEW x, AtRisk' \subseteq AtRisk \cup {x}, Allowance' = Allowance + 1
      PROVE  Risked'
  <2>1. /\ Cardinality(AtRisk) \in Nat /\ Cardinality(AtRisk') \in Nat
        /\ Cardinality(AtRisk') <= Cardinality(AtRisk) + 1
    BY <1>1, <1>5, Grows
  <2>2. Cardinality(AtRisk') <= Allowance'
    BY <1>2, <1>3, <1>5, <2>1
  <2> QED BY <2>2 DEF Risked
<1> QED BY <1>4, <1>5

-----------------------------------------------------------------------------
(* The invariant holds at the start: no event was sent but those that are  *)
(* in the dead letters.                                                    *)
LEMMA InitIInv == Init => IInv
<1> SUFFICES ASSUME Init PROVE IInv
  OBVIOUS
<1>1. TypeOK
  <2>1. dlq \subseteq Message
    <3>1. \A e \in Events : Dead(e, 0) \in Message
      BY QueueAssumption DEF Dead, Message
    <3> QED BY <3>1, QueueAssumption DEF Init
  <2>2. Cardinality(held) <= 1
    BY FS_EmptySet DEF Init
  <2> QED BY <2>1, <2>2, QueueAssumption DEF Init, TypeOK
<1>2. InHand /\ Single /\ Unsent /\ Honest
  <2>1. queue = {} /\ held = {} /\ pc = "idle" /\ nextId = 1
    BY DEF Init
  <2>2. \A m \in dlq : m.event \in InitialDead /\ m = Dead(m.event, 0) /\ m.id = 0
    BY DEF Init, Dead
  <2>3. Single
    BY <2>1, <2>2 DEF Single, Out
  <2>4. Unsent
    BY <2>1, <2>2, QueueAssumption DEF Init, Unsent
  <2> QED BY <2>1, <2>3, <2>4 DEF InHand, Honest
<1>3. Counted
  BY QueueAssumption DEF Init, Counted, Slack, Limit, Dead
<1>4. AtRisk = {}
  BY DEF Init, AtRisk, Lost, Sent, Has
<1>5. Risked
  BY <1>4, FS_EmptySet DEF Risked, Allowance, Init
<1> QED BY <1>1, <1>2, <1>3, <1>5 DEF IInv

-----------------------------------------------------------------------------
(* What a fault, a crash and a step without either cost. *)
LEMMA Costs ==
    ASSUME TypeOK, pop' = pop
    PROVE  /\ Slack \in Nat /\ Allowance \in Nat
           /\ Limit \in Nat /\ Limit > 0 /\ Limit' = Limit
           /\ UNCHANGED <<faults, crashes>> =>
                 /\ faults' \in 0 .. MaxFaults /\ crashes' \in 0 .. MaxCrashes
                 /\ Slack' = Slack /\ Allowance' = Allowance
           /\ Fault =>
                 /\ faults' \in 0 .. MaxFaults /\ crashes' \in 0 .. MaxCrashes
                 /\ Slack' = IF pop THEN 0 ELSE Slack + 1
                 /\ Allowance' = IF pop THEN Allowance + 1 ELSE Allowance
           /\ Trouble =>
                 /\ faults' \in 0 .. MaxFaults /\ crashes' \in 0 .. MaxCrashes
                 /\ Slack' = IF pop THEN 0 ELSE Slack + 1
                 /\ Allowance' = Allowance + 1
<1>1. faults \in 0 .. MaxFaults /\ crashes \in 0 .. MaxCrashes
  BY DEF TypeOK
<1>2. faults \in Nat /\ crashes \in Nat
  BY <1>1, QueueAssumption
<1>3. Slack \in Nat /\ Allowance \in Nat
  BY <1>2 DEF Slack, Allowance
<1>7. Limit \in Nat /\ Limit > 0 /\ Limit' = Limit
  BY QueueAssumption DEF Limit
<1>4. ASSUME UNCHANGED <<faults, crashes>>
      PROVE  /\ faults' \in 0 .. MaxFaults /\ crashes' \in 0 .. MaxCrashes
             /\ Slack' = Slack /\ Allowance' = Allowance
  BY <1>1, <1>4 DEF Slack, Allowance
<1>5. ASSUME Fault
      PROVE  /\ faults' \in 0 .. MaxFaults /\ crashes' \in 0 .. MaxCrashes
             /\ Slack' = IF pop THEN 0 ELSE Slack + 1
             /\ Allowance' = IF pop THEN Allowance + 1 ELSE Allowance
  <2>1. faults < MaxFaults /\ faults' = faults + 1 /\ crashes' = crashes
    BY <1>5 DEF Fault
  <2>2. faults' \in 0 .. MaxFaults /\ crashes' \in 0 .. MaxCrashes
    BY <1>1, <2>1, QueueAssumption
  <2>3. Slack' = IF pop THEN 0 ELSE Slack + 1
    BY <1>2, <2>1 DEF Slack
  <2>4. Allowance' = IF pop THEN Allowance + 1 ELSE Allowance
    BY <1>2, <2>1 DEF Allowance
  <2> QED BY <2>2, <2>3, <2>4
<1>6. ASSUME Trouble
      PROVE  /\ faults' \in 0 .. MaxFaults /\ crashes' \in 0 .. MaxCrashes
             /\ Slack' = IF pop THEN 0 ELSE Slack + 1
             /\ Allowance' = Allowance + 1
  <2>1. crashes < MaxCrashes /\ crashes' = crashes + 1 /\ faults' = faults
    BY <1>6 DEF Trouble
  <2>2. faults' \in 0 .. MaxFaults /\ crashes' \in 0 .. MaxCrashes
    BY <1>1, <2>1, QueueAssumption
  <2>3. Slack' = IF pop THEN 0 ELSE Slack + 1
    BY <1>2, <2>1 DEF Slack
  <2>4. Allowance' = Allowance + 1
    BY <1>2, <2>1 DEF Allowance
  <2> QED BY <2>2, <2>3, <2>4
<1> QED BY <1>3, <1>4, <1>5, <1>6, <1>7

(* What was counted stays so when more is allowed. *)
LEMMA CountedKept ==
    ASSUME TypeOK, Counted, UNCHANGED <<pop, queue, held, dlq, attempts>>,
           \/ UNCHANGED <<faults, crashes>>
           \/ Fault
           \/ Trouble
    PROVE  Counted'
<1>1. /\ Slack \in Nat /\ Limit \in Nat /\ Limit' = Limit
      /\ Slack' = Slack \/ Slack' = Slack + 1 \/ (pop /\ Slack' = 0 /\ Slack = 0)
  BY Costs DEF Slack
<1>2. /\ \A e \in Events : attempts[e] \in Nat
      /\ \A m \in queue \cup held : m.retries \in Nat /\ attempts[m.event] \in Nat
  BY DEF TypeOK, Message
<1>3. CASE Slack' = Slack
  BY <1>1, <1>3 DEF Counted
<1>4. CASE Slack' = Slack + 1
  BY <1>1, <1>2, <1>4 DEF Counted
<1> QED BY <1>1, <1>3, <1>4

LEMMA EmitStep == ASSUME IInv, NEW e \in Events, Emit(e) PROVE IInv'
<1>1. /\ e \in toEmit /\ toEmit' = toEmit \ {e}
      /\ UNCHANGED <<pop, dlq, pc, held, worker, attempts, handled>>
  BY DEF Emit
<1>2. CASE /\ queue' = queue \cup {[id |-> nextId, event |-> e, retries |-> 0,
                                   resolved |-> FALSE]}
           /\ nextId' = nextId + 1
           /\ UNCHANGED <<unsent, faults, crashes>>
  <2> DEFINE m == [id |-> nextId, event |-> e, retries |-> 0, resolved |-> FALSE]
  <2>1. m \in Message /\ m.id = nextId /\ m.event = e /\ m.retries = 0
    BY DEF IInv, TypeOK, Message
  <2>2. queue' = queue \cup {m}
    BY <1>2
  <2> HIDE DEF m
  <2>3. \A x \in queue \cup dlq \cup held : x.event # e /\ x.id # nextId
    BY <1>1 DEF IInv, TypeOK, Message, Unsent, Single
  <2>4. /\ Out' = Out /\ Allowance' = Allowance /\ Slack' = Slack /\ Limit' = Limit
        /\ Slack \in Nat /\ Limit \in Nat
    BY <1>1, <1>2, Costs DEF IInv, Out
  <2>5. TypeOK'
    BY <1>1, <1>2, <2>1, <2>2 DEF IInv, TypeOK
  <2>6. InHand'
    BY <1>1 DEF IInv, InHand
  <2>7. Single'
    BY <1>1, <1>2, <2>1, <2>2, <2>3, <2>4 DEF IInv, TypeOK, Single, Message
  <2>8. Unsent'
    BY <1>1, <1>2, <2>1, <2>2 DEF IInv, Unsent
  <2>9. Counted'
    BY <1>1, <1>2, <2>1, <2>2, <2>4, QueueAssumption DEF IInv, TypeOK, Counted, Unsent
  <2>10. Honest'
    BY <1>1 DEF IInv, Honest
  <2>11. AtRisk' \subseteq AtRisk
    BY <1>1, <1>2, <2>1, <2>2 DEF AtRisk, Lost, Sent, Has
  <2>12. Risked'
    BY <2>4, <2>11, RiskKept DEF IInv
  <2> QED BY <2>5, <2>6, <2>7, <2>8, <2>9, <2>10, <2>12 DEF IInv
<1>3. CASE Trouble /\ unsent' = unsent \cup {e} /\ UNCHANGED <<queue, nextId>>
  <2>1. TypeOK'
    BY <1>1, <1>3, Costs DEF IInv, TypeOK
  <2>2. InHand' /\ Honest'
    BY <1>1 DEF IInv, InHand, Honest
  <2>3. Single'
    BY <1>1, <1>3 DEF IInv, Single, Out
  <2>4. Unsent'
    BY <1>1, <1>3 DEF IInv, Unsent
  <2>5. Counted'
    BY <1>1, <1>3, Costs, CountedKept DEF IInv
  <2>6. AtRisk' \subseteq AtRisk
    BY <1>1, <1>3 DEF AtRisk, Lost, Sent, Has
  <2>7. Risked'
    BY <1>1, <1>3, <2>6, RiskKept, Costs DEF IInv
  <2> QED BY <2>1, <2>2, <2>3, <2>4, <2>5, <2>7 DEF IInv
<1> QED BY <1>2, <1>3 DEF Emit

LEMMA ReceiveStep == ASSUME IInv, Receive PROVE IInv'
<1> DEFINE m == Oldest(queue)
<1>1. m \in queue /\ m \in Message /\ queue \subseteq Message
  BY OldestWaits DEF Receive, IInv, TypeOK
<1>2. /\ pc = "idle" /\ pc' = "handling" /\ held' = {m}
      /\ attempts' = [attempts EXCEPT ![m.event] = @ + 1]
      /\ queue' = IF pop THEN queue \ {m} ELSE queue
      /\ UNCHANGED <<pop, dlq, nextId, toEmit, unsent, worker, handled, faults, crashes>>
  BY DEF Receive, Popped
<1> HIDE DEF m
<1>3. held = {}
  BY <1>2 DEF IInv, InHand
<1>4. /\ m.event \in Events /\ m.retries \in Nat /\ attempts \in [Events -> Nat]
      /\ \A e \in Events : attempts'[e] = IF e = m.event THEN attempts[e] + 1 ELSE attempts[e]
      /\ attempts' \in [Events -> Nat]
  BY <1>1, <1>2 DEF IInv, TypeOK, Message
<1>5. /\ Slack' = Slack /\ Allowance' = Allowance /\ Limit' = Limit /\ Slack \in Nat
      /\ Limit \in Nat
  BY <1>2, Costs DEF IInv
<1>6. TypeOK'
  <2>1. Cardinality({m}) = 1
    BY FS_Singleton
  <2>2. Cardinality(held') <= 1 /\ held' \subseteq Message
    BY <1>1, <1>2, <2>1
  <2> QED BY <1>2, <1>4, <2>2 DEF IInv, TypeOK
<1>7. InHand' /\ Honest'
  BY <1>2 DEF InHand, Honest
<1>8. Single'
  <2>1. Out <=> pop
    BY <1>2 DEF Out
  <2>2. Out' <=> pop
    BY <1>2 DEF Out
  <2>3. CASE pop
    BY <1>1, <1>2, <1>3, <2>1, <2>2, <2>3 DEF IInv, Single
  <2>4. CASE ~pop
    BY <1>1, <1>2, <1>3, <2>1, <2>2, <2>4 DEF IInv, Single
  <2> QED BY <2>3, <2>4
<1>9. Unsent'
  BY <1>1, <1>2, <1>3, <1>4 DEF IInv, TypeOK, Unsent
<1>10. Counted'
  <2>1. \A x \in queue : x # m => x.event # m.event
    BY <1>1 DEF IInv, Single
  <2>2. \A x \in dlq : x.event # m.event /\ x.event \in Events
    BY <1>1 DEF IInv, Single, TypeOK, Message
  <2>3. /\ m.retries < MaxRetries /\ (pop => m.retries = 0)
        /\ m.retries <= attempts[m.event] /\ attempts[m.event] <= m.retries + Slack
    BY <1>1, <1>3 DEF IInv, Counted
  <2>4. \A x \in queue' \ held' : /\ x \in queue \ held /\ x.event \in Events
                                  /\ attempts'[x.event] = attempts[x.event]
    BY <1>1, <1>2, <1>3, <1>4, <2>1 DEF Message
  <2>5. m.retries + 1 <= Limit
    BY <1>4, <2>3, QueueAssumption DEF Limit
  <2>6. \A e \in Events : attempts'[e] <= Limit + Slack
    BY <1>4, <1>5, <2>3, <2>5 DEF IInv, Counted
  <2>7. \A x \in held' : /\ x.retries < MaxRetries /\ (pop => x.retries = 0)
                         /\ x.retries + 1 <= attempts'[x.event]
                         /\ attempts'[x.event] <= x.retries + 1 + Slack
    BY <1>2, <1>4, <1>5, <2>3
  <2>8. \A x \in queue' : x \in queue
    BY <1>2
  <2>9. \A x \in dlq' : x.event \in InitialDead \/ attempts'[x.event] >= MaxRetries
    BY <1>2, <1>4, <2>2 DEF IInv, Counted
  <2> QED BY <1>2, <1>5, <2>4, <2>6, <2>7, <2>8, <2>9 DEF IInv, Counted
<1>11. AtRisk' \subseteq AtRisk
  BY <1>1, <1>2, <1>3 DEF AtRisk, Lost, Sent, Has
<1>12. Risked'
  BY <1>5, <1>11, RiskKept DEF IInv
<1> QED BY <1>6, <1>7, <1>8, <1>9, <1>10, <1>12 DEF IInv

(* Between its receipt and its acknowledgement or archiving a message      *)
(* stays in hand: the invariant says the same of the queues.               *)
LEMMA HandKept ==
    ASSUME IInv, pc \in {"handling", "acking"}, pc' \in {"acking", "archiving"},
           UNCHANGED <<pop, queue, dlq, nextId, toEmit, unsent, held, attempts>>
    PROVE  InHand' /\ Single' /\ Unsent' /\ Out' = Out
  BY DEF IInv, InHand, Single, Unsent, Out

LEMMA HandleStep == ASSUME IInv, Handle PROVE IInv'
<1>1. /\ pc = "handling" /\ pc' = "acking"
      /\ UNCHANGED <<pop, queue, dlq, nextId, toEmit, unsent, held, worker, attempts, faults, crashes>>
  BY DEF Handle
<1>2. PICK m \in held : held = {m}
  BY <1>1 DEF IInv, InHand
<1>3. m.event \in Events /\ m.event \notin Poison /\ handled' = [handled EXCEPT ![m.event] = @ + 1]
  BY <1>2 DEF Handle, IInv, TypeOK, Message
<1>4. \A e \in Events : handled'[e] = IF e = m.event THEN handled[e] + 1 ELSE handled[e]
  BY <1>3 DEF IInv, TypeOK
<1>5. TypeOK'
  BY <1>1, <1>3, Costs DEF IInv, TypeOK
<1>6. InHand' /\ Single' /\ Unsent'
  BY <1>1, HandKept
<1>7. Counted'
  BY <1>1, CountedKept DEF IInv
<1>8. Honest'
  BY <1>1, <1>2, <1>3, <1>4 DEF Honest, IInv, TypeOK
<1>9. AtRisk' \subseteq AtRisk
  BY <1>1, <1>3, <1>4 DEF AtRisk, Lost, Sent, Has, IInv, TypeOK
<1>10. Risked'
  BY <1>1, <1>9, Costs, RiskKept DEF IInv
<1> QED BY <1>5, <1>6, <1>7, <1>8, <1>10 DEF IInv

LEMMA HandleFailsStep == ASSUME IInv, HandleFails PROVE IInv'
<1>1. /\ pc = "handling" /\ pc' = "archiving"
      /\ UNCHANGED <<pop, queue, dlq, nextId, toEmit, unsent, held, worker, attempts, handled>>
      /\ ((\A m \in held : m.event \in Poison) /\ UNCHANGED <<faults, crashes>>) \/ Fault
  BY DEF HandleFails
<1>2. PICK m \in held : held = {m}
  BY <1>1 DEF IInv, InHand
<1>3. TypeOK'
  BY <1>1, Costs DEF IInv, TypeOK
<1>4. InHand' /\ Single' /\ Unsent'
  BY <1>1, HandKept
<1>5. Counted'
  BY <1>1, CountedKept DEF IInv
<1>6. Honest'
  BY <1>1 DEF Honest
<1>7. AtRisk' \subseteq AtRisk \cup {m.event}
  BY <1>1, <1>2 DEF AtRisk, Lost, Sent, Has
<1>8. ~pop \/ m.event \in Poison => AtRisk' \subseteq AtRisk
  BY <1>1, <1>2 DEF AtRisk, Lost, Sent, Has
<1>9. Risked'
  <2>1. Allowance' \in {Allowance, Allowance + 1}
    BY <1>1, Costs DEF IInv
  <2>2. pop /\ m.event \notin Poison => Allowance' = Allowance + 1
    BY <1>1, <1>2, Costs DEF IInv
  <2> QED BY <1>7, <1>8, <2>1, <2>2, RiskKept DEF IInv
<1> QED BY <1>3, <1>4, <1>5, <1>6, <1>9 DEF IInv

LEMMA AckFailsStep == ASSUME IInv, AckFails PROVE IInv'
<1>1. /\ pc = "acking" /\ pc' = "archiving" /\ Fault
      /\ UNCHANGED <<pop, queue, dlq, nextId, toEmit, unsent, held, worker, attempts, handled>>
  BY DEF AckFails
<1>2. PICK m \in held : held = {m}
  BY <1>1 DEF IInv, InHand
<1>3. handled[m.event] > 0
  BY <1>1, <1>2 DEF IInv, Honest
<1>4. TypeOK'
  BY <1>1, Costs DEF IInv, TypeOK
<1>5. InHand' /\ Single' /\ Unsent'
  BY <1>1, HandKept
<1>6. Counted'
  BY <1>1, CountedKept DEF IInv
<1>7. Honest'
  BY <1>1 DEF Honest
<1>8. AtRisk' \subseteq AtRisk
  BY <1>1, <1>2, <1>3 DEF AtRisk, Lost, Sent, Has
<1>9. Risked'
  BY <1>1, <1>8, Costs, RiskKept DEF IInv
<1> QED BY <1>4, <1>5, <1>6, <1>7, <1>9 DEF IInv

(* An empty hand is typed. *)
LEMMA NoneHeld == held' = {} => held' \subseteq Message /\ Cardinality(held') <= 1
<1> SUFFICES ASSUME held' = {} PROVE Cardinality(held') <= 1
  OBVIOUS
<1>1. Cardinality({}) = 0
  BY FS_EmptySet
<1> QED BY <1>1

LEMMA AckStep == ASSUME IInv, Ack PROVE IInv'
<1>1. /\ pc = "acking" /\ pc' = "idle" /\ held' = {} /\ queue' = Without(queue, held)
      /\ UNCHANGED <<pop, dlq, nextId, toEmit, unsent, worker, attempts, handled, faults, crashes>>
  BY DEF Ack
<1>2. PICK m \in held : held = {m}
  BY <1>1 DEF IInv, InHand
<1>3. queue' = {x \in queue : x.id # m.id}
  BY <1>1, <1>2 DEF Without
<1>4. \A x \in queue : x \notin queue' => x = m
  BY <1>1, <1>2, <1>3 DEF IInv, Single, Out
<1>5. queue' \subseteq queue /\ m \notin queue'
  BY <1>3
<1>6. handled[m.event] > 0
  BY <1>1, <1>2 DEF IInv, Honest
<1>7. TypeOK'
  BY <1>1, <1>5, NoneHeld DEF IInv, TypeOK
<1>8. InHand' /\ Honest'
  BY <1>1 DEF InHand, Honest
<1>9. Single' /\ Unsent'
  BY <1>1, <1>5 DEF IInv, Single, Unsent, Out
<1>10. Slack' = Slack /\ Limit' = Limit /\ Allowance' = Allowance
  BY <1>1, Costs DEF IInv
<1>11. Counted'
  BY <1>1, <1>2, <1>5, <1>10 DEF IInv, Counted
<1>12. \A e : e # m.event /\ Has(queue \cup dlq \cup held, e) => Has(queue' \cup dlq' \cup held', e)
  BY <1>1, <1>2, <1>4 DEF Has
<1>13. handled[m.event] # 0
  BY <1>6
<1>14. AtRisk' \subseteq AtRisk
  BY <1>1, <1>12, <1>13 DEF AtRisk, Lost, Sent
<1>15. Risked'
  BY <1>10, <1>14, RiskKept DEF IInv
<1> QED BY <1>7, <1>8, <1>9, <1>11, <1>15 DEF IInv

LEMMA WithdrawStep == ASSUME IInv, Withdraw PROVE IInv'
<1>1. /\ pc = "archiving"
      /\ UNCHANGED <<pop, dlq, nextId, toEmit, unsent, worker, attempts, handled, faults, crashes>>
  BY DEF Withdraw
<1>2. PICK m \in held : held = {m}
  BY <1>1 DEF IInv, InHand
<1>3. Slack' = Slack /\ Limit' = Limit /\ Allowance' = Allowance
  BY <1>1, Costs DEF IInv
<1>4. CASE \E x \in queue : x.id = m.id
  <2>1. /\ queue' = {x \in queue : x.id # m.id} /\ pc' = "resending" /\ held' = held
    BY <1>2, <1>4 DEF Withdraw, Without
  <2>2. ~pop /\ m \in queue
    BY <1>1, <1>2, <1>4 DEF IInv, Single, Out
  <2>3. /\ queue' = queue \ {m}
        /\ \A x \in queue' \cup dlq : x.event # m.event
    BY <1>2, <2>1, <2>2 DEF IInv, Single
  <2>4. TypeOK'
    BY <1>1, <2>1, <2>3 DEF IInv, TypeOK
  <2>5. InHand' /\ Honest'
    BY <1>2, <2>1 DEF InHand, Honest
  <2>6. Single'
    BY <1>1, <1>2, <2>1, <2>2, <2>3 DEF IInv, Single, Out
  <2>7. Unsent'
    BY <1>1, <2>1, <2>3 DEF IInv, Unsent
  <2>8. Counted'
    BY <1>1, <1>3, <2>1, <2>3 DEF IInv, Counted
  <2>9. AtRisk' \subseteq AtRisk
    BY <1>1, <1>2, <2>1, <2>2, <2>3 DEF AtRisk, Lost, Sent, Has
  <2>10. Risked'
    BY <1>3, <2>9, RiskKept DEF IInv
  <2> QED BY <2>4, <2>5, <2>6, <2>7, <2>8, <2>10 DEF IInv
<1>5. CASE ~\E x \in queue : x.id = m.id
  <2>1. pc' = "idle" /\ held' = {} /\ queue' = queue
    BY <1>2, <1>5 DEF Withdraw
  <2>2. pop /\ m \notin queue
    BY <1>1, <1>2, <1>5 DEF IInv, Single, Out
  <2>3. TypeOK'
    BY <1>1, <2>1, NoneHeld DEF IInv, TypeOK
  <2>4. InHand' /\ Honest'
    BY <2>1 DEF InHand, Honest
  <2>5. Single' /\ Unsent'
    BY <1>1, <2>1, <2>2 DEF IInv, Single, Unsent, Out
  <2>6. Counted'
    BY <1>1, <1>2, <1>3, <2>1, <2>2 DEF IInv, Counted
  <2>7. AtRisk' \subseteq AtRisk
    BY <1>1, <1>2, <2>1, <2>2 DEF AtRisk, Lost, Sent, Has
  <2>8. Risked'
    BY <1>3, <2>7, RiskKept DEF IInv
  <2> QED BY <2>3, <2>4, <2>5, <2>6, <2>8 DEF IInv
<1> QED BY <1>4, <1>5

(* The hand is emptied by a fault or a crash. *)
LEMMA DropStep == ASSUME IInv, WithdrawFails \/ ResendFails \/ Crash PROVE IInv'
<1>1. /\ pc # "idle" /\ pc' = "idle" /\ held' = {}
      /\ (Fault /\ pc = "archiving") \/ Trouble
      /\ UNCHANGED <<pop, queue, dlq, nextId, toEmit, unsent, worker, attempts, handled>>
  BY DEF WithdrawFails, ResendFails, Crash
<1>2. PICK m \in held : held = {m}
  BY <1>1 DEF IInv, InHand
<1>3. m \in queue => ~pop
  BY <1>1, <1>2 DEF IInv, Single, Out
<1>4. TypeOK'
  BY <1>1, Costs, NoneHeld DEF IInv, TypeOK
<1>5. InHand' /\ Honest'
  BY <1>1 DEF InHand, Honest
<1>6. Single' /\ Unsent'
  BY <1>1 DEF IInv, Single, Unsent, Out
<1>7. /\ Slack \in Nat /\ Limit \in Nat /\ Limit' = Limit
      /\ Slack' = IF pop THEN 0 ELSE Slack + 1
      /\ pop => Slack = 0
  BY <1>1, Costs DEF IInv, Slack
<1>8. Counted'
  <2>1. /\ \A e \in Events : attempts[e] \in Nat
        /\ \A x \in queue \cup held : /\ x.retries \in Nat /\ x.event \in Events
                                      /\ attempts[x.event] \in Nat
    BY DEF IInv, TypeOK, Message
  <2>2. CASE pop
    BY <1>1, <1>2, <1>3, <1>7, <2>1, <2>2 DEF IInv, Counted
  <2>3. CASE ~pop
    BY <1>1, <1>2, <1>7, <2>1, <2>3 DEF IInv, Counted
  <2> QED BY <2>2, <2>3
<1>9. AtRisk' \subseteq AtRisk \cup {m.event}
  BY <1>1, <1>2 DEF AtRisk, Lost, Sent, Has
<1>10. Fault /\ pc = "archiving" /\ ~pop => AtRisk' \subseteq AtRisk
  <2> SUFFICES ASSUME pc = "archiving", ~pop PROVE AtRisk' \subseteq AtRisk
    OBVIOUS
  <2>1. m \in queue
    BY <1>2 DEF IInv, Single, Out
  <2> QED BY <1>1, <1>2, <2>1 DEF AtRisk, Lost, Sent, Has
<1>11. Risked'
  BY <1>1, <1>9, <1>10, Costs, RiskKept DEF IInv
<1> QED BY <1>4, <1>5, <1>6, <1>8, <1>11 DEF IInv

LEMMA ResendStep == ASSUME IInv, Resend PROVE IInv'
<1>1. /\ pc = "resending" /\ pc' = "idle" /\ held' = {} /\ nextId' = nextId + 1
      /\ UNCHANGED <<pop, toEmit, unsent, worker, attempts, handled, faults, crashes>>
  BY DEF Resend
<1>2. PICK m \in held : held = {m}
  BY <1>1 DEF IInv, InHand
<1> DEFINE r == Retried(m)
<1>3. /\ m \in Message /\ r \in Message /\ r.id = nextId /\ r.event = m.event
      /\ r.retries = m.retries + 1
  BY <1>2, RetriedIs DEF IInv, TypeOK
<1>4. IF Exhausted(m) THEN dlq' = dlq \cup {r} /\ queue' = queue
                      ELSE queue' = queue \cup {r} /\ dlq' = dlq
  BY <1>2 DEF Resend
<1> HIDE DEF r
<1>5. /\ Slack' = Slack /\ Limit' = Limit /\ Allowance' = Allowance /\ Slack \in Nat
      /\ Limit \in Nat
  BY <1>1, Costs DEF IInv
<1>6. ~pop /\ nextId \in Nat
  BY <1>1 DEF IInv, Single, TypeOK
<1>7. /\ \A x \in queue \cup dlq : x.event # m.event /\ x.id < nextId /\ x.id \in Nat
      /\ m \notin queue
  BY <1>1, <1>2 DEF IInv, TypeOK, Single, Out, Message
<1>8. TypeOK'
  BY <1>1, <1>3, <1>4, NoneHeld DEF IInv, TypeOK
<1>9. InHand' /\ Honest'
  BY <1>1 DEF InHand, Honest
<1>10. Single'
  <2>1. \A x, y \in queue' : x.event = y.event \/ x.id = y.id => x = y
    BY <1>3, <1>4, <1>6, <1>7 DEF IInv, Single
  <2>2. \A x, y \in dlq' : x.event = y.event => x = y
    BY <1>3, <1>4, <1>7 DEF IInv, Single
  <2>3. \A x \in queue', y \in dlq' : x.event # y.event
    BY <1>3, <1>4, <1>7 DEF IInv, Single
  <2>4. \A x \in queue' \cup dlq' : x.id < nextId'
    BY <1>1, <1>3, <1>4, <1>6, <1>7
  <2> QED BY <1>1, <2>1, <2>2, <2>3, <2>4 DEF Single, Out
<1>11. Unsent'
  BY <1>1, <1>2, <1>3, <1>4, <1>6 DEF IInv, Unsent
<1>12. Counted'
  <2>1. /\ m.retries < MaxRetries /\ m.retries + 1 <= attempts[m.event]
        /\ attempts[m.event] <= m.retries + 1 + Slack
        /\ m.retries \in Nat /\ attempts[m.event] \in Nat
    BY <1>2, <1>3 DEF IInv, Counted, TypeOK, Message
  <2>2. CASE Exhausted(m)
    <3>1. m.retries + 1 >= MaxRetries
      BY <2>2 DEF Exhausted
    <3>2. attempts[r.event] >= MaxRetries
      BY <1>3, <2>1, <3>1, QueueAssumption
    <3> QED BY <1>1, <1>2, <1>4, <1>5, <1>7, <2>2, <3>2 DEF IInv, Counted
  <2>3. CASE ~Exhausted(m)
    <3>1. r.retries < MaxRetries
      BY <1>3, <2>1, <2>3, QueueAssumption DEF Exhausted
    <3>2. r.retries <= attempts[r.event] /\ attempts[r.event] <= r.retries + Slack
      BY <1>3, <2>1
    <3> QED BY <1>1, <1>2, <1>4, <1>5, <1>6, <1>7, <2>3, <3>1, <3>2 DEF IInv, Counted
  <2> QED BY <2>2, <2>3
<1>13. AtRisk' \subseteq AtRisk
  <2>1. \A e : Has(queue \cup dlq \cup held, e) => Has(queue' \cup dlq' \cup held', e)
    BY <1>2, <1>3, <1>4 DEF Has
  <2> QED BY <1>1, <1>6, <2>1 DEF AtRisk, Lost, Sent
<1>14. Risked'
  BY <1>5, <1>13, RiskKept DEF IInv
<1> QED BY <1>8, <1>9, <1>10, <1>11, <1>12, <1>14 DEF IInv

-----------------------------------------------------------------------------
(* Everybody who works on the dead letters marks one, or removes one where *)
(* pop does.                                                               *)
LEMMA ResolveStep == ASSUME IInv, Resolve PROVE IInv'
<1>1. UNCHANGED <<pop, queue, nextId, toEmit, unsent, pc, held, worker, attempts, handled,
                  faults, crashes>>
  BY DEF Resolve
<1>2. PICK m \in dlq : dlq' = (dlq \ {m}) \cup {[m EXCEPT !.resolved = TRUE]}
  BY DEF Resolve
<1> DEFINE r == [m EXCEPT !.resolved = TRUE]
<1>3. r \in Message /\ r.id = m.id /\ r.event = m.event
  BY DEF IInv, TypeOK, Message
<1>4. dlq' = (dlq \ {m}) \cup {r}
  BY <1>2
<1> HIDE DEF r
<1>5. /\ Slack' = Slack /\ Limit' = Limit /\ Allowance' = Allowance
  BY <1>1, Costs DEF IInv
<1>6. TypeOK'
  BY <1>1, <1>3, <1>4 DEF IInv, TypeOK
<1>7. InHand' /\ Honest'
  BY <1>1 DEF IInv, InHand, Honest
<1>8. Single'
  BY <1>1, <1>3, <1>4 DEF IInv, Single, Out
<1>9. Unsent'
  BY <1>1, <1>3, <1>4 DEF IInv, Unsent
<1>10. Counted'
  BY <1>1, <1>3, <1>4, <1>5 DEF IInv, Counted
<1>11. AtRisk' \subseteq AtRisk
  <2>1. \A e : Has(queue \cup dlq \cup held, e) => Has(queue' \cup dlq' \cup held', e)
    BY <1>1, <1>3, <1>4 DEF Has
  <2> QED BY <1>1, <2>1 DEF AtRisk, Lost, Sent
<1>12. Risked'
  BY <1>5, <1>11, RiskKept DEF IInv
<1> QED BY <1>6, <1>7, <1>8, <1>9, <1>10, <1>12 DEF IInv

LEMMA ReplayStep ==
    ASSUME IInv, ReplayOnce \/ RestartWorker \/ ReplayDlq
    PROVE  IInv'
<1>1. /\ dlq' \subseteq dlq /\ (dlq' = dlq \/ pop)
      /\ UNCHANGED <<pop, queue, nextId, toEmit, unsent, pc, held, attempts, handled, faults, crashes>>
  BY DEF ReplayOnce, RestartWorker, ReplayDlq, Popped
<1>2. worker' \in {"watching", "failed"}
  BY DEF ReplayOnce, RestartWorker, ReplayDlq, IInv, TypeOK
<1>3. /\ Slack' = Slack /\ Limit' = Limit /\ Allowance' = Allowance
  BY <1>1, Costs DEF IInv
<1>4. TypeOK'
  BY <1>1, <1>2 DEF IInv, TypeOK
<1>5. InHand' /\ Honest'
  BY <1>1 DEF IInv, InHand, Honest
<1>6. Single' /\ Unsent'
  BY <1>1 DEF IInv, Single, Out, Unsent
<1>7. Counted'
  BY <1>1, <1>3 DEF IInv, Counted
<1>8. AtRisk' \subseteq AtRisk
  BY <1>1 DEF IInv, Unsent, AtRisk, Lost, Sent, Has
<1>9. Risked'
  BY <1>3, <1>8, RiskKept DEF IInv
<1> QED BY <1>4, <1>5, <1>6, <1>7, <1>9 DEF IInv

LEMMA NextIInv == IInv /\ [Next]_vars => IInv'
<1> SUFFICES ASSUME IInv, [Next]_vars PROVE IInv'
  OBVIOUS
<1>1. CASE UNCHANGED vars
  BY <1>1 DEF vars, IInv, TypeOK, InHand, Single, Unsent, Counted, Honest, Risked, AtRisk, Lost,
              Sent, Has, Out, Slack, Limit, Allowance
<1> QED BY <1>1, EmitStep, ReceiveStep, HandleStep, HandleFailsStep, AckStep, AckFailsStep,
           WithdrawStep, DropStep, ResendStep, ResolveStep, ReplayStep DEF Next, Consume

-----------------------------------------------------------------------------
(* The invariant holds in every state the queue, its consumer and its      *)
(* dead-letter workers can reach.                                          *)
THEOREM Inductive == Spec => []IInv
  BY InitIInv, NextIInv, PTL DEF Spec

(* Every message in a queue or in hand is a row of the table with an       *)
(* envelope, and the consumer never holds two.                             *)
THEOREM TypeCorrect == Spec => []TypeOK
<1>1. IInv => TypeOK
  BY DEF IInv
<1> QED BY <1>1, Inductive, PTL

(* archive_to_dlq never doubles an event, wherever it is interrupted and   *)
(* however the two replays of the dead letters come between its two halves.*)
THEOREM CopiesSingle == Spec => []SingleCopy
<1>1. IInv => SingleCopy
  <2> SUFFICES ASSUME IInv, NEW e \in Events
               PROVE  Cardinality({m \in queue \cup dlq \cup (IF pc = "resending" THEN held ELSE {}) :
                                     m.event = e}) <= 1
    BY DEF SingleCopy
  <2> DEFINE Copies == {m \in queue \cup dlq \cup (IF pc = "resending" THEN held ELSE {}) :
                           m.event = e}
  <2>1. \A m, x \in held : m = x
    BY DEF IInv, InHand
  <2>2. \A m, x \in Copies : m = x
    BY <2>1 DEF IInv, Single, Out
  <2> HIDE DEF Copies
  <2>3. Cardinality({}) = 0 /\ \A x : Cardinality({x}) = 1
    BY FS_EmptySet, FS_Singleton
  <2>4. CASE Copies = {}
    BY <2>3, <2>4 DEF Copies
  <2>5. ASSUME NEW x \in Copies PROVE Cardinality(Copies) <= 1
    <3>1. Copies = {x}
      BY <2>2, <2>5
    <3>2. Cardinality({x}) = 1
      BY <2>3
    <3> QED BY <3>1, <3>2
  <2> QED BY <2>4, <2>5 DEF Copies
<1> QED BY <1>1, Inductive, PTL

(* An event is not received again but for a counted failure, and it does   *)
(* not become a dead letter before MAX_RETRIES attempts.                   *)
THEOREM RetriesBounded == Spec => []RetriesCounted
<1>1. IInv => RetriesCounted
  <2> SUFFICES ASSUME IInv PROVE RetriesCounted
    OBVIOUS
  <2>1. faults \in Nat /\ crashes \in Nat /\ MaxRetries \in Nat
    BY QueueAssumption DEF IInv, TypeOK
  <2>2. \A e \in Events : attempts[e] \in Nat /\ attempts[e] <= Limit + Slack
    BY DEF IInv, TypeOK, Counted
  <2>3. \A m \in dlq : m.event \in InitialDead \/ attempts[m.event] >= MaxRetries
    BY DEF IInv, Counted
  <2>4. CASE pop
    BY <2>1, <2>2, <2>3, <2>4 DEF Limit, Slack, RetriesCounted
  <2>5. CASE ~pop
    BY <2>1, <2>2, <2>3, <2>5 DEF Limit, Slack, RetriesCounted
  <2> QED BY <2>4, <2>5
<1> QED BY <1>1, Inductive, PTL

(* At most one event is lost for each crash and failed send, and where pop *)
(* removes the message, for each failure to handle it.                     *)
THEOREM LossesBounded == Spec => []LossesCounted
<1>1. IInv => LossesCounted
  <2> SUFFICES ASSUME IInv PROVE LossesCounted
    OBVIOUS
  <2>1. faults \in Nat /\ crashes \in Nat
    BY QueueAssumption DEF IInv, TypeOK
  <2>2. AtRisk \subseteq Events /\ Poison \subseteq Events /\ IsFiniteSet(Events)
    BY QueueAssumption DEF AtRisk, Lost, Sent
  <2>3. /\ IsFiniteSet(AtRisk) /\ Cardinality(AtRisk) \in Nat
        /\ IsFiniteSet(Poison) /\ Cardinality(Poison) \in Nat
    BY <2>2, FS_Subset, FS_CardinalityType
  <2>4. CASE ~pop
    BY <2>1, <2>4 DEF IInv, Risked, Allowance, AtRisk, LossesCounted
  <2>5. CASE pop
    <3>1. Lost \subseteq AtRisk \cup Poison
      BY <2>5 DEF AtRisk, Lost, Sent
    <3>2. /\ IsFiniteSet(AtRisk \cup Poison) /\ Cardinality(AtRisk \cup Poison) \in Nat
          /\ Cardinality(AtRisk \cap Poison) \in Nat
          /\ Cardinality(AtRisk \cup Poison) =
                Cardinality(AtRisk) + Cardinality(Poison) - Cardinality(AtRisk \cap Poison)
      BY <2>3, FS_Union, FS_Intersection, FS_CardinalityType
    <3>3. Cardinality(Lost) \in Nat /\ Cardinality(Lost) <= Cardinality(AtRisk \cup Poison)
      BY <3>1, <3>2, FS_Subset, FS_CardinalityType
    <3>4. Cardinality(AtRisk) <= crashes + faults
      BY <2>5 DEF IInv, Risked, Allowance
    <3>5. Cardinality(Lost) <= crashes + (faults + Cardinality(Poison))
      BY <2>1, <2>3, <3>2, <3>3, <3>4
    <3> QED BY <2>5, <3>5 DEF LossesCounted
  <2> QED BY <2>4, <2>5
<1> QED BY <1>1, Inductive, PTL

(* No step takes a dead letter away that nobody has resolved, but for a    *)
(* replay through the API and for pop.                                     *)
THEOREM UnresolvedStays == Spec => UnresolvedKept
<1>1. IInv /\ [Next]_vars =>
          [~pop /\ ~ReplayDlq => \A m \in dlq : ~m.resolved => Has(dlq', m.event)]_dlq
  <2> SUFFICES ASSUME IInv, Next, ~pop, NEW m \in dlq, dlq' # dlq PROVE Has(dlq', m.event)
    BY DEF vars
  <2>1. CASE m \in dlq'
    BY <2>1 DEF Has
  <2>2. CASE m \notin dlq'
    <3>1. Resolve
      BY <2>2 DEF Next, Consume, Emit, Receive, Handle, HandleFails, Ack, AckFails, Withdraw,
                  WithdrawFails, Resend, ResendFails, Crash, ReplayOnce, RestartWorker, ReplayDlq,
                  Popped
    <3>2. PICK x \in dlq : dlq' = (dlq \ {x}) \cup {[x EXCEPT !.resolved = TRUE]}
      BY <3>1 DEF Resolve
    <3>3. x = m /\ [x EXCEPT !.resolved = TRUE].event = m.event
      BY <2>2, <3>2 DEF IInv, TypeOK, Message
    <3> QED BY <3>2, <3>3 DEF Has
  <2> QED BY <2>1, <2>2
<1> QED BY <1>1, Inductive, PTL DEF Spec, UnresolvedKept

-----------------------------------------------------------------------------
(* The lives of the events.  An event keeps its stage while what is asked  *)
(* of it stays true.                                                       *)
Waits(e) == Has(queue \cup held, e)

LEMMA StageKept ==
    ASSUME NEW e \in Events,
           e \in toEmit' <=> e \in toEmit, e \in unsent' <=> e \in unsent,
           Has(dlq', e) <=> Has(dlq, e), Waits(e)' <=> Waits(e),
           Waits(e) \/ handled'[e] = handled[e]
    PROVE  Stage(e)' = Stage(e)
  BY DEF Stage, Waits

(* A step moves one event on at most.                                      *)
LEMMA OneMoves ==
    ASSUME NEW e \in Events, pop' = pop,
           \A f \in Events \ {e} : Stage(f)' = Stage(f),
           Stage(e)' = Stage(e) \/ Stage(e)' \in Life!After(Stage(e))
    PROVE  [\E f \in Events : Life!Move(f)]_<<pop, [f \in Events |-> Stage(f)]>>
<1> DEFINE S == [f \in Events |-> Stage(f)]
<1>1. S' = [S EXCEPT ![e] = Stage(e)']
  OBVIOUS
<1>2. S[e] = Stage(e)
  OBVIOUS
<1>3. CASE Stage(e)' = Stage(e)
  <2>1. S' = S
    BY <1>3
  <2> QED BY <2>1
<1>4. CASE Stage(e)' \in Life!After(Stage(e))
  BY <1>1, <1>2, <1>4 DEF Life!Move
<1> QED BY <1>3, <1>4

LEMMA NoneMoves ==
    ASSUME pop' = pop, \A f \in Events : Stage(f)' = Stage(f)
    PROVE  UNCHANGED <<pop, [f \in Events |-> Stage(f)]>>
  OBVIOUS

(* A message in hand is of an event that waits.                            *)
LEMMA HeldWaits ==
    ASSUME IInv, NEW m \in queue \cup held
    PROVE  m.event \in Events /\ Waits(m.event) /\ Stage(m.event) = "waiting"
<1>1. m.event \in Events /\ Waits(m.event)
  BY DEF IInv, TypeOK, Message, Waits, Has
<1>2. m.event \notin toEmit \cup unsent
  BY DEF IInv, Unsent
<1>3. ~Has(dlq, m.event)
  BY DEF IInv, Single, Has
<1> QED BY <1>1, <1>2, <1>3 DEF Stage, Waits

LEMMA LifeStep ==
    ASSUME IInv, [Next]_vars
    PROVE  [\E e \in Events : Life!Move(e)]_<<pop, [e \in Events |-> Stage(e)]>>
<1> DEFINE Goal == [\E e \in Events : Life!Move(e)]_<<pop, [e \in Events |-> Stage(e)]>>
<1>1. CASE UNCHANGED vars
  <2>1. \A f \in Events : Stage(f)' = Stage(f)
    BY <1>1 DEF vars, Stage, Has
  <2> QED BY <1>1, <2>1, NoneMoves DEF vars
<1>2. ASSUME NEW e \in Events, Emit(e) PROVE Goal
  <2>1. /\ e \in toEmit /\ toEmit' = toEmit \ {e}
        /\ UNCHANGED <<pop, dlq, held, handled>>
        /\ \/ /\ queue' = queue \cup {[id |-> nextId, event |-> e, retries |-> 0,
                                       resolved |-> FALSE]}
              /\ unsent' = unsent
           \/ unsent' = unsent \cup {e} /\ queue' = queue
    BY <1>2 DEF Emit
  <2>2. \A f \in Events \ {e} : Stage(f)' = Stage(f)
    BY <2>1 DEF Stage, Has
  <2>3. Stage(e) = "new"
    BY <2>1 DEF Stage
  <2>4. e \notin toEmit' /\ e \notin unsent /\ ~Has(dlq', e)
    BY <2>1 DEF IInv, Unsent, Has
  <2>5. Stage(e)' \in {"waiting", "unsent"}
    <3>1. CASE unsent' = unsent \cup {e}
      BY <2>4, <3>1 DEF Stage
    <3>2. CASE /\ queue' = queue \cup {[id |-> nextId, event |-> e, retries |-> 0,
                                        resolved |-> FALSE]}
               /\ unsent' = unsent
      <4> DEFINE m == [id |-> nextId, event |-> e, retries |-> 0, resolved |-> FALSE]
      <4>1. m \in queue' /\ m.event = e
        BY <3>2
      <4> HIDE DEF m
      <4>2. Has((queue \cup held)', e)
        BY <4>1 DEF Has
      <4> QED BY <2>4, <3>2, <4>2 DEF Stage
    <3> QED BY <2>1, <3>1, <3>2
  <2>6. Stage(e)' \in Life!After(Stage(e))
    BY <2>3, <2>5 DEF Life!After, Life!Stages
  <2> QED BY <2>1, <2>2, <2>6, OneMoves
<1>3. CASE Receive
  <2> DEFINE m == Oldest(queue)
  <2>1. m \in queue /\ held = {}
    BY <1>3, OldestWaits DEF Receive, IInv, TypeOK, InHand
  <2>2. queue' \cup held' = queue \cup held
    BY <1>3, <2>1 DEF Receive, Popped
  <2>3. UNCHANGED <<pop, dlq, toEmit, unsent, handled>>
    BY <1>3 DEF Receive
  <2>4. \A f \in Events : Stage(f)' = Stage(f)
    BY <2>2, <2>3 DEF Stage, Has
  <2> QED BY <2>3, <2>4, NoneMoves
<1>4. CASE Handle
  <2>1. UNCHANGED <<pop, queue, dlq, held, toEmit, unsent>>
    BY <1>4 DEF Handle
  <2>2. PICK m \in held : held = {m}
    BY <1>4 DEF Handle, IInv, InHand
  <2>3. \A f \in Events : Waits(f) \/ handled'[f] = handled[f]
    BY <1>4, <2>2, HeldWaits DEF Handle, IInv, TypeOK
  <2>4. \A f \in Events : Waits(f)' <=> Waits(f)
    BY <2>1 DEF Waits, Has
  <2>5. \A f \in Events : Stage(f)' = Stage(f)
    BY <2>1, <2>3, <2>4, StageKept
  <2> QED BY <2>1, <2>5, NoneMoves
<1>5. CASE HandleFails \/ AckFails \/ RestartWorker
  <2>1. UNCHANGED <<pop, queue, dlq, held, toEmit, unsent, handled>>
    BY <1>5 DEF HandleFails, AckFails, RestartWorker
  <2>2. \A f \in Events : Stage(f)' = Stage(f)
    BY <2>1 DEF Stage, Has
  <2> QED BY <2>1, <2>2, NoneMoves
<1>6. ASSUME NEW m \in held, held = {m}, held' = {}, queue' \subseteq queue,
             \A x \in queue : x \notin queue' => x = m,
             UNCHANGED <<pop, dlq, toEmit, unsent, handled>>
      PROVE  Goal
  <2>1. m.event \in Events /\ Stage(m.event) = "waiting" /\ m.event \notin toEmit \cup unsent
        /\ ~Has(dlq, m.event)
    BY <1>6, HeldWaits DEF IInv, Unsent, Single, Has
  <2>2. \A f \in Events \ {m.event} : Stage(f)' = Stage(f)
    BY <1>6 DEF Stage, Has
  <2>3. Stage(m.event)' \in {"waiting", "done", "lost"}
    BY <1>6, <2>1 DEF Stage
  <2>4. Stage(m.event)' = Stage(m.event) \/ Stage(m.event)' \in Life!After(Stage(m.event))
    BY <2>1, <2>3 DEF Life!After, Life!Stages, Life!Ends
  <2> QED BY <1>6, <2>1, <2>2, <2>4, OneMoves
<1>7. CASE Ack
  <2>1. PICK m \in held : held = {m}
    BY <1>7 DEF Ack, IInv, InHand
  <2>2. queue' = {x \in queue : x.id # m.id}
    BY <1>7, <2>1 DEF Ack, Without
  <2>3. \A x \in queue : x \notin queue' => x = m
    BY <1>7, <2>1, <2>2 DEF Ack, IInv, Single, Out
  <2> QED BY <1>6, <1>7, <2>1, <2>2, <2>3 DEF Ack
<1>8. CASE WithdrawFails \/ ResendFails \/ Crash
  <2>1. pc # "idle" /\ held' = {} /\ UNCHANGED <<pop, queue, dlq, toEmit, unsent, handled>>
    BY <1>8 DEF WithdrawFails, ResendFails, Crash
  <2>2. PICK m \in held : held = {m}
    BY <2>1 DEF IInv, InHand
  <2> QED BY <1>6, <2>1, <2>2
<1>9. CASE Withdraw
  <2>1. PICK m \in held : held = {m}
    BY <1>9 DEF Withdraw, IInv, InHand
  <2>2. UNCHANGED <<pop, dlq, toEmit, unsent, handled>>
    BY <1>9 DEF Withdraw
  <2>3. CASE \E x \in queue : x.id = m.id
    <3>1. queue' = {x \in queue : x.id # m.id} /\ held' = held
      BY <1>9, <2>1, <2>3 DEF Withdraw, Without
    <3>2. m \in queue /\ \A x \in queue : x.id = m.id => x = m
      BY <1>9, <2>1, <2>3 DEF Withdraw, IInv, Single, Out
    <3>3. queue' \cup held' = queue \cup held
      BY <2>1, <3>1, <3>2
    <3>4. \A f \in Events : Stage(f)' = Stage(f)
      BY <2>2, <3>3 DEF Stage, Has
    <3> QED BY <2>2, <3>4, NoneMoves
  <2>4. CASE ~\E x \in queue : x.id = m.id
    <3>1. held' = {} /\ queue' = queue
      BY <1>9, <2>1, <2>4 DEF Withdraw
    <3> QED BY <1>6, <2>1, <2>2, <3>1
  <2> QED BY <2>3, <2>4
<1>10. CASE Resend
  <2>1. PICK m \in held : held = {m}
    BY <1>10 DEF Resend, IInv, InHand
  <2> DEFINE r == Retried(m)
  <2>2. r.event = m.event /\ m \in Message
    BY <2>1, RetriedIs DEF IInv, TypeOK
  <2>3. /\ held' = {} /\ UNCHANGED <<pop, toEmit, unsent, handled>>
        /\ \/ dlq' = dlq \cup {r} /\ queue' = queue
           \/ queue' = queue \cup {r} /\ dlq' = dlq
    BY <1>10, <2>1 DEF Resend
  <2> HIDE DEF r
  <2>4. ~pop
    BY <1>10 DEF Resend, IInv, Single
  <2>5. m.event \in Events /\ Stage(m.event) = "waiting" /\ m.event \notin toEmit \cup unsent
        /\ ~Has(dlq, m.event)
    BY <2>1, HeldWaits, <1>10 DEF Resend, IInv, Unsent, Single, Out, Has
  <2>6. \A f \in Events \ {m.event} : Stage(f)' = Stage(f)
    BY <2>1, <2>2, <2>3 DEF Stage, Has
  <2>7. Stage(m.event)' \in {"waiting", "dead"}
    <3>1. CASE dlq' = dlq \cup {r}
      <4>1. Has(dlq', m.event)
        BY <2>2, <3>1 DEF Has
      <4> QED BY <2>3, <2>5, <4>1 DEF Stage
    <3>2. CASE queue' = queue \cup {r} /\ dlq' = dlq
      <4>1. Has((queue \cup held)', m.event)
        BY <2>2, <3>2 DEF Has
      <4> QED BY <2>3, <2>5, <3>2, <4>1 DEF Stage
    <3> QED BY <2>3, <3>1, <3>2
  <2>8. Stage(m.event)' = Stage(m.event) \/ Stage(m.event)' \in Life!After(Stage(m.event))
    BY <2>4, <2>5, <2>7 DEF Life!After, Life!Stages
  <2> QED BY <2>3, <2>5, <2>6, <2>8, OneMoves
<1>11. CASE Resolve
  <2>1. PICK m \in dlq : dlq' = (dlq \ {m}) \cup {[m EXCEPT !.resolved = TRUE]}
    BY <1>11 DEF Resolve
  <2>2. UNCHANGED <<pop, queue, held, toEmit, unsent, handled>>
    BY <1>11 DEF Resolve
  <2>3. [m EXCEPT !.resolved = TRUE].event = m.event
    BY <2>1 DEF IInv, TypeOK, Message
  <2>4. \A f : Has(dlq', f) <=> Has(dlq, f)
    BY <2>1, <2>3 DEF Has
  <2>5. \A f \in Events : Stage(f)' = Stage(f)
    BY <2>2, <2>4 DEF Stage
  <2> QED BY <2>2, <2>5, NoneMoves
<1>12. CASE ReplayOnce \/ ReplayDlq
  <2>1. UNCHANGED <<pop, queue, held, toEmit, unsent, handled>> /\ dlq # {} /\ dlq' = Popped(dlq)
    BY <1>12 DEF ReplayOnce, ReplayDlq
  <2>2. CASE ~pop
    <3>1. dlq' = dlq
      BY <2>1, <2>2 DEF Popped
    <3>2. \A f \in Events : Stage(f)' = Stage(f)
      BY <2>1, <3>1 DEF Stage, Has
    <3> QED BY <2>1, <3>2, NoneMoves
  <2>3. CASE pop
    <3>1. PICK m \in dlq : dlq' = dlq \ {m}
      BY <2>1, <2>3, OldestWaits DEF Popped, IInv, TypeOK
    <3>2. m.event \in Events /\ m.event \notin toEmit \cup unsent
      BY <3>1 DEF IInv, TypeOK, Message, Unsent
    <3>3. Has(dlq, m.event) /\ ~Has(dlq', m.event) /\ ~Has(queue \cup held, m.event)
      BY <2>3, <3>1 DEF IInv, Single, Out, Has
    <3>4. \A f \in Events \ {m.event} : Stage(f)' = Stage(f)
      BY <2>1, <3>1 DEF Stage, Has
    <3>5. Stage(m.event) = "dead"
      BY <3>2, <3>3 DEF Stage
    <3>6. Stage(m.event)' \in {"done", "lost"}
      BY <2>1, <3>2, <3>3 DEF Stage
    <3>7. Stage(m.event)' = Stage(m.event) \/ Stage(m.event)' \in Life!After(Stage(m.event))
      BY <2>3, <3>5, <3>6 DEF Life!After, Life!Stages, Life!Ends
    <3> QED BY <2>1, <3>2, <3>4, <3>7, OneMoves
  <2> QED BY <2>2, <2>3
<1> QED BY <1>1, <1>2, <1>3, <1>4, <1>5, <1>7, <1>8, <1>9, <1>10, <1>11, <1>12 DEF Next, Consume

(* The queue, its consumer and both replays implement EventLife: an event  *)
(* that was acknowledged or lost stays so, and a dead letter leaves the    *)
(* dead letters only by a replay or where pop takes it away.               *)
THEOREM ImplementsLife == Spec => LivesOnce
<1>1. Init => Life!LifeInit
  <2> SUFFICES ASSUME Init
               PROVE  /\ pop \in BOOLEAN
                      /\ \A e \in Events : Stage(e) = IF e \in InitialDead THEN "dead" ELSE "new"
    BY DEF Life!LifeInit
  <2>1. pop \in BOOLEAN
    BY QueueAssumption DEF Init
  <2>2. \A e \in InitialDead : Has(dlq, e)
    <3> SUFFICES ASSUME NEW e \in InitialDead PROVE Has(dlq, e)
      OBVIOUS
    <3>1. Dead(e, 0) \in dlq /\ Dead(e, 0).event = e
      BY DEF Init, Dead
    <3> QED BY <3>1 DEF Has
  <2> QED BY <2>1, <2>2 DEF Init, Stage
<1>2. IInv /\ [Next]_vars => [\E e \in Events : Life!Move(e)]_<<pop, [e \in Events |-> Stage(e)]>>
  BY LifeStep
<1> QED BY <1>1, <1>2, Inductive, PTL DEF Spec, LivesOnce, Life!Spec
=============================================================================
