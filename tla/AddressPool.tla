---------------------------- MODULE AddressPool ----------------------------
(***************************************************************************)
(* DomainRegistryHandler.allocate_address: how an AND gets its subnet.     *)
(* Every database call is one step, and calls of different coroutines and  *)
(* processes interleave.  The table address_leases has and_name as its     *)
(* primary key and a unique constraint on cidr.                            *)
(***************************************************************************)
EXTENDS Naturals

CONSTANTS Callers,    (* calls of allocate_address that may be open at once *)
          AndNames,   (* names of ANDs                                      *)
          NameOf,     (* the and_name each caller asks for                  *)
          CandidatesOf,
                      (* the candidate subnets of each caller's profile;    *)
                      (* none if there is no pool for the profile           *)
          Subnets,    (* all subnets, numbered in the order of their        *)
                      (* addresses, in which pool.subnets() returns them    *)
          NoLease,
          Serialised, (* calls for one AND never overlap, as within one run *)
                      (* of phase 7 or one consumer                         *)
          MaxCallFaults
                      (* database calls that fail or whose answer is lost   *)

ASSUME PoolAssumption ==
    /\ NameOf \in [Callers -> AndNames]
    /\ CandidatesOf \in [Callers -> SUBSET Subnets]
    /\ Subnets \subseteq Nat
    /\ NoLease \notin Subnets
    /\ Serialised \in BOOLEAN
    /\ MaxCallFaults \in Nat

VARIABLES callAt,   (* where each call is                                   *)
          left,     (* its candidates that are neither used nor tried yet   *)
          round,    (* how often it has read the leases                     *)
          leases,   (* the table: the cidr of each and_name                 *)
          granted,  (* the cidrs returned for an AND that was not torn down *)
          freed,    (* history: cidrs whose lease was given up or replaced  *)
                    (* since a call read the leases                         *)
          callFaults

poolVars == <<callAt, left, round, leases, granted, freed, callFaults>>

Leased == {leases[n] : n \in AndNames} \ {NoLease}
Open   == {c \in Callers : callAt[c] \in {"looking", "reading", "trying"}}
Busy(n) == \E c \in Open : NameOf[c] = n

PoolTypeOK ==
    /\ callAt \in [Callers -> {"idle", "looking", "reading", "trying", "returned", "failed"}]
    /\ left \in [Callers -> SUBSET Subnets]
    /\ round \in [Callers -> 0 .. 2]
    /\ leases \in [AndNames -> Subnets \cup {NoLease}]
    /\ granted \in [AndNames -> SUBSET Subnets]
    /\ freed \in [Callers -> SUBSET Subnets]
    /\ callFaults \in 0 .. MaxCallFaults

PoolInit ==
    /\ callAt = [c \in Callers |-> "idle"]
    /\ left = [c \in Callers |-> {}]
    /\ round = [c \in Callers |-> 0]
    /\ leases = [n \in AndNames |-> NoLease]
    /\ granted = [n \in AndNames |-> {}]
    /\ freed = [c \in Callers |-> {}]
    /\ callFaults = 0

CallGoto(c, where) == callAt' = [callAt EXCEPT ![c] = where]

GaveUp(xs) ==
    freed' = [c \in Callers |-> IF callAt[c] = "trying" THEN freed[c] \cup xs ELSE freed[c]]

CallFault == callFaults < MaxCallFaults /\ callFaults' = callFaults + 1

-----------------------------------------------------------------------------
(* A phase, the consumer of org.admitted or a reload asks, also again.     *)
Call(c) ==
    /\ c \notin Open
    /\ Serialised => ~Busy(NameOf[c])
    /\ CallGoto(c, "looking")
    /\ left' = [left EXCEPT ![c] = {}]
    /\ round' = [round EXCEPT ![c] = 0]
    /\ freed' = [freed EXCEPT ![c] = {}]
    /\ UNCHANGED <<leases, granted, callFaults>>

Grant(n, x) == granted' = [granted EXCEPT ![n] = @ \cup {x}]

(* Defect: the lease of an AND is not looked for first. *)
LookPast(c) ==
    /\ callAt[c] = "looking"
    /\ CallGoto(c, IF CandidatesOf[c] = {} THEN "failed" ELSE "reading")
    /\ UNCHANGED <<left, round, leases, granted, freed, callFaults>>

(* An existing lease is returned; without a pool the call fails.  What the *)
(* table returns is an IPv4Network, a new subnet is a string: both name    *)
(* the subnet, which is what counts here.                                  *)
Look(c) ==
    /\ callAt[c] = "looking"
    /\ LET n == NameOf[c] IN
         IF leases[n] # NoLease
         THEN CallGoto(c, "returned") /\ Grant(n, leases[n])
         ELSE CallGoto(c, IF CandidatesOf[c] = {} THEN "failed" ELSE "reading") /\ UNCHANGED granted
    /\ UNCHANGED <<left, round, leases, freed, callFaults>>

(* One of the two passes: read all leases, keep the free candidates. *)
Read(c) ==
    /\ callAt[c] = "reading"
    /\ left' = [left EXCEPT ![c] = CandidatesOf[c] \ Leased]
    /\ round' = [round EXCEPT ![c] = @ + 1]
    /\ freed' = [freed EXCEPT ![c] = {}]
    /\ CallGoto(c, "trying")
    /\ UNCHANGED <<leases, granted, callFaults>>

(* A select fails: the exception leaves the call. *)
SelectFails(c) ==
    /\ callAt[c] \in {"looking", "reading"}
    /\ CallFault
    /\ CallGoto(c, "failed")
    /\ UNCHANGED <<left, round, leases, granted, freed>>

(* Defect: the table has no unique constraint on cidr. *)
AcceptsAny(n, x) == TRUE

(* The upsert replaces the row of n, or violates the unique constraint. *)
Accepts(n, x) == \A o \in AndNames \ {n} : leases[o] # x

Upsert(n, x) ==
    /\ leases' = [leases EXCEPT ![n] = x]
    /\ GaveUp({leases[n]} \ {NoLease, x})

(* The next candidate. *)
IsNextCandidate(c, x) == x \in left[c] /\ \A y \in left[c] : x <= y

(* Defect: a collision is taken for a success. *)
TryBlind(c) ==
    /\ callAt[c] = "trying"
    /\ \E x \in left[c] :
         /\ IsNextCandidate(c, x)
         /\ IF Accepts(NameOf[c], x)
            THEN Upsert(NameOf[c], x)
            ELSE UNCHANGED <<leases, freed>>
         /\ Grant(NameOf[c], x)
         /\ CallGoto(c, "returned")
    /\ UNCHANGED <<left, round, callFaults>>

(* Defect: a collision ends the call. *)
TryOnce(c) ==
    /\ callAt[c] = "trying"
    /\ \E x \in left[c] :
         /\ IsNextCandidate(c, x)
         /\ IF Accepts(NameOf[c], x)
            THEN /\ Upsert(NameOf[c], x)
                 /\ Grant(NameOf[c], x)
                 /\ CallGoto(c, "returned")
            ELSE /\ CallGoto(c, "failed")
                 /\ UNCHANGED <<leases, granted, freed>>
    /\ UNCHANGED <<left, round, callFaults>>

(* The upsert of the next candidate.  (The first of the two upserts in the *)
(* code names a column the table does not have; it fails without effect    *)
(* and the second follows.)  A collision leads to the next candidate.      *)
Try(c) ==
    /\ callAt[c] = "trying"
    /\ \E x \in left[c] :
         /\ IsNextCandidate(c, x)
         /\ IF Accepts(NameOf[c], x)
            THEN /\ Upsert(NameOf[c], x)
                 /\ Grant(NameOf[c], x)
                 /\ CallGoto(c, "returned")
                 /\ UNCHANGED left
            ELSE /\ left' = [left EXCEPT ![c] = @ \ {x}]
                 /\ UNCHANGED <<callAt, leases, granted, freed>>
    /\ UNCHANGED <<round, callFaults>>

(* The upsert fails for another reason, before or after it took effect:    *)
(* the next candidate is tried all the same.                               *)
TryFails(c) ==
    /\ callAt[c] = "trying"
    /\ CallFault
    /\ \E x \in left[c] :
         /\ IsNextCandidate(c, x)
         /\ left' = [left EXCEPT ![c] = @ \ {x}]
         /\ \/ UNCHANGED <<leases, freed>>
            \/ Accepts(NameOf[c], x) /\ Upsert(NameOf[c], x)
    /\ UNCHANGED <<callAt, round, granted>>

(* No candidate is left: a second pass, then the pool is exhausted. *)
GiveUp(c) ==
    /\ callAt[c] = "trying" /\ left[c] = {}
    /\ CallGoto(c, IF round[c] < 2 THEN "reading" ELSE "failed")
    /\ UNCHANGED <<left, round, leases, granted, freed, callFaults>>

(* The caller is cancelled or its process ends; an upsert it waits for may *)
(* still take effect.                                                      *)
Abandon(c) ==
    /\ c \in Open
    /\ CallGoto(c, "idle")
    /\ \/ UNCHANGED <<leases, freed>>
       \/ /\ callAt[c] = "trying"
          /\ \E x \in left[c] : /\ IsNextCandidate(c, x)
                                /\ Accepts(NameOf[c], x)
                                /\ Upsert(NameOf[c], x)
    /\ UNCHANGED <<left, round, granted, callFaults>>

(* _teardown_and: the AND is gone, and then its row is deleted, unless the *)
(* delete fails.                                                           *)
Teardown(n) ==
    /\ granted[n] # {}
    /\ Serialised => ~Busy(n)
    /\ granted' = [granted EXCEPT ![n] = {}]
    /\ \/ /\ leases' = [leases EXCEPT ![n] = NoLease]
          /\ GaveUp({leases[n]} \ {NoLease})
          /\ UNCHANGED callFaults
       \/ CallFault /\ UNCHANGED <<leases, freed>>
    /\ UNCHANGED <<callAt, left, round>>

-----------------------------------------------------------------------------
Step(c) == Look(c) \/ Read(c) \/ Try(c) \/ GiveUp(c)

PoolNext ==
    \/ \E c \in Callers : Call(c) \/ Step(c) \/ SelectFails(c) \/ TryFails(c) \/ Abandon(c)
    \/ \E n \in AndNames : Teardown(n)

PoolSpec == PoolInit /\ [][PoolNext]_poolVars

(* The database answers, and the loop runs the coroutine that waits for it. *)
FairPoolSpec == PoolSpec /\ \A c \in Callers : WF_poolVars(Step(c))

-----------------------------------------------------------------------------
(* Safety *)

(* "Allocate a unique AND subnet": two ANDs never hold the same subnet,    *)
(* whatever interleaves between reading the leases and writing one.        *)
UniqueSubnet == \A n, o \in AndNames : n # o => granted[n] \cap granted[o] = {}

(* What was returned for an AND is what the table says: "Existing leases   *)
(* are idempotently reused by and_name", also after a lost answer.         *)
GrantMatchesLease == \A n \in AndNames : granted[n] \subseteq {leases[n]}

(* A call reports an exhausted pool only if every candidate is leased, was *)
(* given up since the call last read the leases, or a database call failed.*)
ExhaustedTruly ==
    [][\A c \in Callers :
         callAt[c] = "trying" /\ callAt'[c] = "failed" /\ callFaults = 0
             => CandidatesOf[c] \subseteq Leased \cup freed[c]]_poolVars

(* Who was returned a subnet lives there. *)
PoolTenancy == INSTANCE SubnetTenancy WITH Tenants <- AndNames, Space <- Subnets,
                                           Nowhere <- NoLease, rent <- leases, lost <- {},
                                           home <- [n \in AndNames |->
                                                      IF granted[n] = {} THEN NoLease
                                                      ELSE CHOOSE x \in granted[n] : TRUE]

(* Calls that do not overlap for one AND give subnets as SubnetTenancy     *)
(* says, and no lost answer or crash of one exchanges what another or an   *)
(* earlier call has returned.                                              *)
GrantsTenancy == PoolTenancy!TenancySpec
=============================================================================
