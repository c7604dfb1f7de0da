--------------------------- MODULE ResourceManager ---------------------------
(***************************************************************************)
(* The lease table of the capability kernel (src/morice/kernel/            *)
(* resources.py): node-scoped resources with a capacity, and the leases    *)
(* that executions hold on them.  Every method runs under one lock, so     *)
(* each is one action here.  A call that returns False or raises changes   *)
(* nothing and is therefore a stuttering step.                             *)
(*                                                                         *)
(* Amounts are whole units.  A lease is spread over the set of units it    *)
(* takes, so that "the sum of the amounts held" is the cardinality of a    *)
(* set: it can only fall when units are given back.                        *)
(***************************************************************************)
EXTENDS Naturals, Sequences, FiniteSets

CONSTANTS
  Owners,       \* lease owners: execution ids, reservations, streams, ...
  Keys,         \* the pairs (node_id, resource)
  ClaimTuples,  \* the tuples of claims an owner may ask for
  Capacities,   \* the capacities a provider may register
  NoLease       \* the owner is absent from the lease table

\* One ResourceClaim (contracts.py): a positive amount of one resource.
Claim == [key : Keys, amount : Nat \ {0}, exclusive : BOOLEAN]

ASSUME ClaimTuplesAssumption == ClaimTuples \subseteq Seq(Claim)
ASSUME CapacitiesAssumption == Capacities \subseteq Nat \ {0}
ASSUME NoLeaseAssumption == NoLease \notin ClaimTuples

VARIABLES
  resources,  \* the descriptor of each key; capacity 0 when unregistered
  leases,     \* the claims each owner holds, or NoLease
  retained    \* owners whose lease outlives their work until it is cleaned up

vars == <<resources, leases, retained>>

Descriptor == [capacity : Nat, available : BOOLEAN]
Unregistered == [capacity |-> 0, available |-> FALSE]

-----------------------------------------------------------------------------
Holders == {o \in Owners : leases[o] # NoLease}

\* The positions of the claims on key k, and the units they take.
On(claims, k) == {i \in DOMAIN claims : claims[i].key = k}
Units(o, claims, k) ==
  UNION {{<<o, i, n>> : n \in 1..claims[i].amount} : i \in On(claims, k)}
Held(k) == UNION {Units(o, leases[o], k) : o \in Holders}

ExclusiveOn(claims, k) == \E i \in On(claims, k) : claims[i].exclusive

\* Some holder has a claim on k; some holder has an exclusive one.
Busy(k) == \E p \in Holders : On(leases[p], k) # {}
HeldExclusively(k) == \E p \in Holders : ExclusiveOn(leases[p], k)

\* Mutants: an exclusive lease that is already held is not looked at; only the
\* request is weighed, not what is held.
SharesExclusive(o, claims, k) ==
  /\ resources[k].available
  /\ ~(ExclusiveOn(claims, k) /\ Busy(k))
  /\ Cardinality(Held(k) \cup Units(o, claims, k)) <= resources[k].capacity
WeighsRequestOnly(o, claims, k) ==
  /\ resources[k].available
  /\ ~(ExclusiveOn(claims, k) /\ Busy(k))
  /\ ~HeldExclusively(k)
  /\ Cardinality(Units(o, claims, k)) <= resources[k].capacity

\* acquire() accepts the claims on one key.  Exclusivity is only weighed
\* against the leases of others: one request may name a key twice.
AdmissibleOn(o, claims, k) ==
  /\ resources[k].available
  /\ ~(ExclusiveOn(claims, k) /\ Busy(k))
  /\ ~HeldExclusively(k)
  /\ Cardinality(Held(k) \cup Units(o, claims, k)) <= resources[k].capacity

\* All claims or none.
Admissible(o, claims) ==
  \A k \in {claims[i].key : i \in DOMAIN claims} : AdmissibleOn(o, claims, k)

-----------------------------------------------------------------------------
\* Nothing is leased; some resources have been registered.
Idle ==
  /\ leases = [o \in Owners |-> NoLease]
  /\ retained = {}

Init ==
  /\ resources = [k \in Keys |-> Unregistered]
  /\ Idle

\* Replaces the descriptor, whatever is held under the old one: this is how a
\* remote node's resources become unavailable or change size.
Register(k, capacity, available) ==
  /\ resources' = [resources EXCEPT ![k] =
                     [capacity |-> capacity, available |-> available]]
  /\ UNCHANGED <<leases, retained>>

Acquire(o, claims) ==
  /\ leases[o] = NoLease
  /\ Admissible(o, claims)
  /\ leases' = [leases EXCEPT ![o] = claims]
  /\ UNCHANGED <<resources, retained>>

Release(o) ==
  /\ o \notin retained
  /\ leases' = [leases EXCEPT ![o] = NoLease]
  /\ UNCHANGED <<resources, retained>>

Retain(o) ==
  /\ leases[o] # NoLease
  /\ retained' = retained \cup {o}
  /\ UNCHANGED <<resources, leases>>

ConfirmCleanup(o) ==
  /\ retained' = retained \ {o}
  /\ leases' = [leases EXCEPT ![o] = NoLease]
  /\ UNCHANGED resources

Next ==
  \/ \E k \in Keys, capacity \in Capacities, available \in BOOLEAN :
       Register(k, capacity, available)
  \/ \E o \in Owners, claims \in ClaimTuples : Acquire(o, claims)
  \/ \E o \in Owners : Release(o)
  \/ \E o \in Owners : Retain(o)
  \/ \E o \in Owners : ConfirmCleanup(o)

Spec == Init /\ [][Next]_vars

-----------------------------------------------------------------------------
\* Types; an owner is only ever retained together with a lease ("Only an
\* existing physical lease can be retained", resources.py:74), so no retained
\* mark is left behind that would make a later release() of that owner a no-op.
TypeOK ==
  /\ resources \in [Keys -> Descriptor]
  /\ leases \in [Owners -> ClaimTuples \cup {NoLease}]
  /\ retained \subseteq Holders

\* While somebody holds a resource exclusively nobody else holds any of it,
\* in whichever order the two asked and whatever was registered in between.
ExclusiveAlone ==
  \A o, p \in Holders : \A k \in Keys :
    o # p /\ ExclusiveOn(leases[o], k) => On(leases[p], k) = {}

\* No call may add units to a resource beyond the capacity its provider last
\* registered, counting what everybody holds, nor on a resource that is
\* unavailable.  (A smaller registration may leave old leases over capacity;
\* nothing is admitted until enough of them are gone.)
NeverOvercommits ==
  [][\A k \in Keys :
       Held(k)' \subseteq Held(k)
         \/ /\ resources'[k].available
            /\ Cardinality(Held(k)') <= resources'[k].capacity]_vars

\* Once cleanup of an owner is in doubt its lease stays exactly as it was, and
\* only confirm_cleanup(), which also drops the mark, takes it away: an
\* ordinary release() by the finished work does not.
RetainedLeaseStays ==
  [][\A o \in retained : o \in retained' => leases'[o] = leases[o]]_vars
=============================================================================
