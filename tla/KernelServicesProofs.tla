------------------------ MODULE KernelServicesProofs ------------------------
(***************************************************************************)
(* Theorems about the two services every execution of the kernel shares:   *)
(* the lease table, for every set of owners, resources, claims and         *)
(* capacities, and the event bus, for any threads and subscriptions and    *)
(* queues of any length.                                                   *)
(***************************************************************************)
EXTENDS ResourceManager, EventBus, TLAPS

-----------------------------------------------------------------------------
(* The lease table *)

\* What every step preserves: the types, which include that a retained owner
\* holds a lease, and exclusivity.
IInv == TypeOK /\ ExclusiveAlone

-----------------------------------------------------------------------------
\* A key on which an owner has a claim is among the keys acquire() examines.
LEMMA ClaimedKeysAreExamined ==
  ASSUME NEW o \in Owners, NEW claims, Admissible(o, claims),
         NEW k, On(claims, k) # {}
  PROVE  AdmissibleOn(o, claims, k)
BY DEF Admissible, On

\* An exclusive claim on a key is a claim on it.
LEMMA ExclusiveClaimIsAClaim ==
  ASSUME NEW claims, NEW k, ExclusiveOn(claims, k)
  PROVE  On(claims, k) # {}
BY DEF ExclusiveOn

\* An acquisition adds one holder, with the claims it asked for.
LEMMA AcquireAddsOneLease ==
  ASSUME TypeOK, NEW o \in Owners, NEW claims \in ClaimTuples, Acquire(o, claims)
  PROVE  /\ Holders' = Holders \cup {o}
         /\ leases'[o] = claims
         /\ \A p \in Owners \ {o} : leases'[p] = leases[p]
         /\ o \notin Holders
BY NoLeaseAssumption DEF TypeOK, Acquire, Holders

-----------------------------------------------------------------------------
\* Registration replaces a descriptor and touches no lease.
LEMMA RegisterPreserves ==
  ASSUME IInv, NEW k \in Keys, NEW capacity \in Capacities, NEW available \in BOOLEAN,
         Register(k, capacity, available)
  PROVE  IInv'
<1>1. [capacity |-> capacity, available |-> available] \in Descriptor
  BY CapacitiesAssumption DEF Descriptor
<1>2. TypeOK'
  BY <1>1 DEF IInv, TypeOK, Register, Holders
<1>3. ExclusiveAlone'
  BY DEF IInv, ExclusiveAlone, Register, Holders
<1>4. QED  BY <1>2, <1>3 DEF IInv

\* The interesting step: the lease that is added is weighed against all others.
LEMMA AcquirePreserves ==
  ASSUME IInv, NEW o \in Owners, NEW claims \in ClaimTuples, Acquire(o, claims)
  PROVE  IInv'
<1>1. TypeOK /\ Admissible(o, claims)
  BY DEF IInv, Acquire
<1>2. /\ Holders' = Holders \cup {o} /\ o \notin Holders
      /\ leases'[o] = claims
      /\ \A p \in Owners \ {o} : leases'[p] = leases[p]
  BY <1>1, AcquireAddsOneLease
<1>3. TypeOK'
  BY <1>1, <1>2 DEF TypeOK, Acquire
<1>4. ExclusiveAlone'
  <2> SUFFICES ASSUME NEW p \in Holders', NEW q \in Holders', NEW k \in Keys,
                      p # q, ExclusiveOn(leases'[p], k)
               PROVE  On(leases'[q], k) = {}
    BY DEF ExclusiveAlone, ExclusiveOn, On
  <2>1. CASE p # o /\ q # o
    BY <1>2, <2>1 DEF IInv, ExclusiveAlone, Holders
  <2>2. CASE p = o
    <3>1. q \in Holders /\ leases'[q] = leases[q] /\ ExclusiveOn(claims, k)
      BY <1>2, <2>2 DEF Holders
    <3>2. ~Busy(k)
      BY <1>1, <3>1, ExclusiveClaimIsAClaim, ClaimedKeysAreExamined DEF AdmissibleOn
    <3>3. QED  BY <3>1, <3>2 DEF Busy
  <2>3. CASE q = o
    <3>1. p \in Holders /\ ExclusiveOn(leases[p], k) /\ leases'[q] = claims
      BY <1>2, <2>3 DEF Holders
    <3>2. HeldExclusively(k)
      BY <3>1 DEF HeldExclusively
    <3>3. ~AdmissibleOn(o, claims, k)
      BY <3>2 DEF AdmissibleOn
    <3>4. QED  BY <1>1, <3>1, <3>3, ClaimedKeysAreExamined
  <2>4. QED  BY <2>1, <2>2, <2>3
<1>5. QED  BY <1>3, <1>4 DEF IInv

\* Taking leases away, or marking them, cannot break anything.
LEMMA ReleasePreserves ==
  ASSUME IInv, NEW o \in Owners, Release(o)
  PROVE  IInv'
<1>1. Holders' = Holders \ {o} /\ \A p \in Owners \ {o} : leases'[p] = leases[p]
  BY NoLeaseAssumption DEF IInv, TypeOK, Release, Holders
<1>2. TypeOK'
  BY <1>1 DEF IInv, TypeOK, Release
<1>3. ExclusiveAlone'
  BY <1>1 DEF IInv, ExclusiveAlone, Holders, ExclusiveOn, On
<1>4. QED  BY <1>2, <1>3 DEF IInv

\* retain() marks an owner that holds a lease.
LEMMA RetainPreserves ==
  ASSUME IInv, NEW o \in Owners, Retain(o)
  PROVE  IInv'
BY DEF IInv, TypeOK, ExclusiveAlone, Retain, Holders

\* confirm_cleanup() removes the mark together with the lease.
LEMMA ConfirmCleanupPreserves ==
  ASSUME IInv, NEW o \in Owners, ConfirmCleanup(o)
  PROVE  IInv'
<1>1. Holders' = Holders \ {o} /\ \A p \in Owners \ {o} : leases'[p] = leases[p]
  BY NoLeaseAssumption DEF IInv, TypeOK, ConfirmCleanup, Holders
<1>2. TypeOK'
  BY <1>1 DEF IInv, TypeOK, ConfirmCleanup
<1>3. ExclusiveAlone'
  BY <1>1 DEF IInv, ExclusiveAlone, Holders, ExclusiveOn, On
<1>4. QED  BY <1>2, <1>3 DEF IInv

\* So every step keeps the invariant ...
LEMMA StepPreserves ==
  ASSUME IInv, [Next]_vars
  PROVE  IInv'
<1>1. CASE UNCHANGED vars
  BY <1>1 DEF vars, IInv, TypeOK, ExclusiveAlone, Holders
<1>2. CASE Next
  BY <1>2, RegisterPreserves, AcquirePreserves, ReleasePreserves, RetainPreserves,
     ConfirmCleanupPreserves DEF Next
<1>3. QED  BY <1>1, <1>2

\* ... which the empty table satisfies.
LEMMA InitEstablishes ==
  ASSUME Init
  PROVE  IInv
BY NoLeaseAssumption
   DEF Init, Idle, IInv, TypeOK, ExclusiveAlone, Holders, Descriptor, Unregistered

\* Every reachable lease table satisfies the invariant.
LEMMA Invariant == Spec => []IInv
<1>1. Init => IInv  BY InitEstablishes
<1>2. IInv /\ [Next]_vars => IInv'  BY StepPreserves
<1>3. QED  BY <1>1, <1>2, PTL DEF Spec

-----------------------------------------------------------------------------
\* The types of the table; a retained owner always holds a lease.
THEOREM TypeCorrect == Spec => []TypeOK
<1>1. IInv => TypeOK  BY DEF IInv
<1>2. QED  BY <1>1, Invariant, PTL

\* A resource held exclusively is held by nobody else.
THEOREM ExclusivityHolds == Spec => []ExclusiveAlone
<1>1. IInv => ExclusiveAlone  BY DEF IInv
<1>2. QED  BY <1>1, Invariant, PTL

\* The lease of an owner whose cleanup is in doubt is not touched.
THEOREM RetainedLeasesStay == Spec => RetainedLeaseStays
<1>1. ASSUME TypeOK, [Next]_vars
      PROVE  \A o \in retained : o \in retained' => leases'[o] = leases[o]
  <2> SUFFICES ASSUME NEW o \in retained, o \in retained'
               PROVE  leases'[o] = leases[o]
    OBVIOUS
  <2>1. o \in Owners /\ leases[o] # NoLease
    BY <1>1 DEF TypeOK, Holders
  <2>2. CASE UNCHANGED vars
    BY <2>2 DEF vars
  <2>3. ASSUME NEW k \in Keys, NEW capacity \in Capacities, NEW available \in BOOLEAN,
               Register(k, capacity, available)
        PROVE  leases'[o] = leases[o]
    BY <2>3 DEF Register
  <2>4. ASSUME NEW p \in Owners, NEW claims \in ClaimTuples, Acquire(p, claims)
        PROVE  leases'[o] = leases[o]
    BY <2>1, <2>4, <1>1 DEF Acquire, TypeOK
  <2>5. ASSUME NEW p \in Owners, Release(p) \/ Retain(p) \/ ConfirmCleanup(p)
        PROVE  leases'[o] = leases[o]
    BY <2>1, <2>5, <1>1 DEF Release, Retain, ConfirmCleanup, TypeOK
  <2>6. QED  BY <1>1, <2>2, <2>3, <2>4, <2>5 DEF Next
<1>2. [](TypeOK) /\ [][Next]_vars =>
        [][\A o \in retained : o \in retained' => leases'[o] = leases[o]]_vars
  BY <1>1, PTL
<1>3. QED  BY <1>2, TypeCorrect, PTL DEF Spec, RetainedLeaseStays

-----------------------------------------------------------------------------
\* If every lease is gone or as before, the units held do not grow.
LEMMA FewerLeasesHoldLess ==
  ASSUME NEW k,
         \A p \in Owners : leases'[p] # NoLease => leases'[p] = leases[p]
  PROVE  Held(k)' \subseteq Held(k)
BY DEF Held, Holders, Units, On

\* An acquisition adds the units of its claims.
LEMMA AcquireAddsItsUnits ==
  ASSUME TypeOK, NEW o \in Owners, NEW claims \in ClaimTuples, Acquire(o, claims), NEW k
  PROVE  Held(k)' = Held(k) \cup Units(o, claims, k)
<1>1. /\ Holders' = Holders \cup {o} /\ o \notin Holders
      /\ leases'[o] = claims
      /\ \A p \in Owners \ {o} : leases'[p] = leases[p]
  BY AcquireAddsOneLease
<1>2. \A p \in Holders : Units(p, leases'[p], k) = Units(p, leases[p], k)
  BY <1>1 DEF Holders
<1>3. Held(k)' = UNION {Units(p, leases'[p], k) : p \in Holders'}
  BY DEF Held, Units, On
<1>4. QED  BY <1>1, <1>2, <1>3 DEF Held

\* No call takes a resource beyond its capacity, or one that is unavailable.
THEOREM CapacityIsRespected == Spec => NeverOvercommits
<1>1. ASSUME TypeOK, [Next]_vars
      PROVE  \A k \in Keys :
               Held(k)' \subseteq Held(k)
                 \/ /\ resources'[k].available
                    /\ Cardinality(Held(k)') <= resources'[k].capacity
  <2> SUFFICES ASSUME NEW k \in Keys
               PROVE  Held(k)' \subseteq Held(k)
                        \/ /\ resources'[k].available
                           /\ Cardinality(Held(k)') <= resources'[k].capacity
    OBVIOUS
  <2>1. CASE UNCHANGED vars
    BY <2>1, FewerLeasesHoldLess DEF vars
  <2>2. ASSUME NEW j \in Keys, NEW capacity \in Capacities, NEW available \in BOOLEAN,
               Register(j, capacity, available)
        PROVE  Held(k)' \subseteq Held(k)
    BY <2>2, FewerLeasesHoldLess DEF Register
  <2>3. ASSUME NEW o \in Owners, Release(o) \/ Retain(o) \/ ConfirmCleanup(o)
        PROVE  Held(k)' \subseteq Held(k)
    <3>1. \A p \in Owners : leases'[p] # NoLease => leases'[p] = leases[p]
      BY <1>1, <2>3 DEF TypeOK, Release, Retain, ConfirmCleanup
    <3>2. QED  BY <3>1, FewerLeasesHoldLess
  <2>4. ASSUME NEW o \in Owners, NEW claims \in ClaimTuples, Acquire(o, claims)
        PROVE  Held(k)' \subseteq Held(k)
                 \/ /\ resources'[k].available
                    /\ Cardinality(Held(k)') <= resources'[k].capacity
    <3>1. Held(k)' = Held(k) \cup Units(o, claims, k) /\ resources' = resources
      BY <1>1, <2>4, AcquireAddsItsUnits DEF Acquire
    <3>2. CASE On(claims, k) = {}
      BY <3>1, <3>2 DEF Units
    <3>3. CASE On(claims, k) # {}
      <4>1. AdmissibleOn(o, claims, k)
        BY <2>4, <3>3, ClaimedKeysAreExamined DEF Acquire
      <4>2. QED  BY <3>1, <4>1 DEF AdmissibleOn
    <3>4. QED  BY <3>2, <3>3
  <2>5. QED  BY <1>1, <2>1, <2>2, <2>3, <2>4 DEF Next
<1>2. [](TypeOK) /\ [][Next]_vars =>
        [][\A k \in Keys :
             Held(k)' \subseteq Held(k)
               \/ /\ resources'[k].available
                  /\ Cardinality(Held(k)') <= resources'[k].capacity]_vars
  BY <1>1, PTL
<1>3. QED  BY <1>2, TypeCorrect, PTL DEF Spec, NeverOvercommits
-----------------------------------------------------------------------------
(* The event bus *)

\* The flag says exactly whether some thread delivers, that is one thread, and
\* a queue that is not empty has one.
Handoff ==
  /\ delivering <=> Draining # {}
  /\ \A th, u \in Draining : th = u
  /\ queue # <<>> => delivering

\* th holds an event that it has taken and not yet delivered to all.
Holding(th) == pc[th] \in {"deliver", "chosen", "call"}

\* e was published before f, as far as the two are told apart.
Before(e, f) == e < f \/ f = Later

\* Events lie in the order of publication: what callbacks have seen, the event
\* that is being delivered, the queue.
Ordered ==
  /\ \A i, j \in DOMAIN queue : i < j => Before(queue[i], queue[j])
  /\ \A i \in DOMAIN queue : queue[i] <= published
  /\ \A th \in Threads : Holding(th) =>
       /\ event[th] <= published
       /\ \A i \in DOMAIN queue : Before(event[th], queue[i])
       /\ \A s \in Subscriptions : \A i \in DOMAIN seen[s] :
            /\ seen[s][i] <= event[th]
            /\ s \in todo[th] => seen[s][i] < event[th]
            /\ pc[th] = "chosen" /\ s \in callee[th] => seen[s][i] < event[th]
       /\ pc[th] = "chosen" => callee[th] \cap todo[th] = {}
  /\ \A s \in Subscriptions : \A i \in DOMAIN seen[s] :
       /\ seen[s][i] <= published /\ seen[s][i] < Later
       /\ \A j \in DOMAIN queue : seen[s][i] < queue[j]

\* No call of a withdrawn subscription beyond the one it was chosen for then.
Quiet == \A s \in Subscriptions : s \notin current => Calls(s) <= since[s]

BusInv == BusTypeOK /\ Handoff /\ Ordered /\ SeenInOrder /\ Quiet

-----------------------------------------------------------------------------
\* What Append and Tail do to a sequence of numbers.
LEMMA Appended ==
  ASSUME NEW q \in Seq(Nat), NEW n \in Nat
  PROVE  /\ Append(q, n) \in Seq(Nat) /\ Append(q, n) # <<>>
         /\ Len(Append(q, n)) = Len(q) + 1
         /\ DOMAIN q = 1..Len(q) /\ DOMAIN Append(q, n) = 1..(Len(q) + 1)
         /\ \A i \in 1..Len(q) : Append(q, n)[i] = q[i]
         /\ Append(q, n)[Len(q) + 1] = n
OBVIOUS

\* Taking the first of a sequence moves the others up by one place.
LEMMA Tailed ==
  ASSUME NEW q \in Seq(Nat), q # <<>>
  PROVE  /\ Tail(q) \in Seq(Nat) /\ Len(q) > 0
         /\ Len(Tail(q)) = Len(q) - 1
         /\ Head(q) \in Nat /\ Head(q) = q[1]
         /\ DOMAIN q = 1..Len(q) /\ DOMAIN Tail(q) = 1..(Len(q) - 1)
         /\ \A i \in 1..(Len(q) - 1) : Tail(q)[i] = q[i + 1]
OBVIOUS

\* The empty sequence.
LEMMA Empty == <<>> \in Seq(Nat) /\ Len(<<>>) = 0 /\ DOMAIN <<>> = {}
OBVIOUS

-----------------------------------------------------------------------------
\* A new bus satisfies the invariant.
LEMMA BusInitEstablishes ==
  ASSUME BusInit
  PROVE  BusInv
<1> USE DEF BusInit
<1>1. BusTypeOK
  <2>1. 0 \in 0..MaxPending /\ 0 <= MaxPending /\ MaxEvents + 2 \in Nat
          /\ 0 \in 0..(MaxEvents + 1)
    BY MaxPendingAssumption, MaxEventsAssumption
  <2>2. queue \in Seq(Nat) /\ Len(queue) <= MaxPending
    BY <2>1, Empty
  <2>3. seen \in [Subscriptions -> Seq(Nat)] /\ since \in [Subscriptions -> Nat]
    BY <2>1, Empty DEF Fresh
  <2>4. QED  BY <2>1, <2>2, <2>3 DEF BusTypeOK, Later
<1>2. Handoff /\ Ordered /\ SeenInOrder
  BY DEF Handoff, Draining, Ordered, Holding, SeenInOrder
<1>3. Quiet
  BY MaxEventsAssumption DEF Quiet, Calls, Fresh
<1>4. QED  BY <1>1, <1>2, <1>3 DEF BusInv

\* publish() appends the newest event, and a thread only becomes the
\* deliverer when there is none.
LEMMA PublishPreserves ==
  ASSUME BusInv, NEW th \in Threads, Publish(th)
  PROVE  BusInv'
<1> USE DEF BusInv
<1>0. BusTypeOK  OBVIOUS
<1>1. BusTypeOK'
  <2>1. published' \in 0..Later /\ published' \in Nat
    BY <1>0, MaxEventsAssumption DEF Publish, BusTypeOK, Later
  <2>2. queue' \in Seq(Nat) /\ Len(queue') <= MaxPending
    <3>1. queue \in Seq(Nat) /\ Len(queue) \in Nat /\ MaxPending \in Nat
      BY <1>0, MaxPendingAssumption DEF BusTypeOK
    <3>2. CASE Len(queue) >= MaxPending
      BY <1>0, <3>1, <3>2 DEF BusTypeOK, Publish
    <3>3. CASE ~(Len(queue) >= MaxPending)
      <4>1. queue' = Append(queue, published')
        BY <3>3 DEF Publish
      <4>2. QED  BY <2>1, <3>1, <3>3, <4>1, Appended
    <3>4. QED  BY <3>2, <3>3
  <2>3. /\ delivering' \in BOOLEAN
        /\ pc' \in [Threads -> {"out", "drain", "deliver", "chosen", "call"}]
        /\ budget' \in [Threads -> 0..MaxPending]
    <3>1. MaxPending \in 0..MaxPending
      BY MaxPendingAssumption
    <3>2. \/ UNCHANGED <<delivering, pc, budget>>
          \/ delivering' = TRUE /\ UNCHANGED <<pc, budget>>
          \/ /\ delivering' = TRUE /\ pc' = [pc EXCEPT ![th] = "drain"]
             /\ budget' = [budget EXCEPT ![th] = MaxPending]
      BY DEF Publish
    <3>3. QED  BY <1>0, <3>1, <3>2 DEF BusTypeOK
  <2>4. QED  BY <1>0, <2>1, <2>2, <2>3 DEF BusTypeOK, Publish
<1>2. Handoff'
  BY MaxPendingAssumption DEF Handoff, Publish, Draining, BusTypeOK
<1>4. Ordered'
  <2>0. /\ published' \in Nat /\ published \in Nat /\ Later \in Nat /\ published <= published'
        /\ published < published' \/ published' = Later
    BY <1>0, MaxEventsAssumption DEF Publish, BusTypeOK, Later
  <2>1. CASE Len(queue) >= MaxPending
    <3>1. UNCHANGED <<queue, pc, event, todo, callee, seen>>
      BY <2>1 DEF Publish
    <3>2. /\ \A i \in DOMAIN queue : queue[i] \in Nat
          /\ \A u \in Threads : event[u] \in Nat
          /\ \A s \in Subscriptions : \A i \in DOMAIN seen[s] : seen[s][i] \in Nat
      BY <1>0 DEF BusTypeOK
    <3>3. \A n \in Nat : n <= published => n <= published'
      BY <2>0
    <3>4. QED  BY <3>1, <3>2, <3>3 DEF Ordered, Holding
  <2>2. CASE ~(Len(queue) >= MaxPending)
    <3>1. /\ queue' = Append(queue, published') /\ queue \in Seq(Nat)
          /\ UNCHANGED <<event, todo, callee, seen>>
      BY <1>0, <2>2 DEF Publish, BusTypeOK
    <3>2. /\ DOMAIN queue = 1..Len(queue) /\ DOMAIN queue' = 1..(Len(queue) + 1)
          /\ \A i \in 1..Len(queue) : queue'[i] = queue[i]
          /\ queue'[Len(queue) + 1] = published'
          /\ Len(queue) \in Nat
          /\ \A i \in 1..Len(queue) : queue[i] \in Nat
      BY <2>0, <3>1, Appended
    <3>3. \A u \in Threads : Holding(u)' => Holding(u) /\ (pc'[u] = "chosen" => pc[u] = "chosen")
      BY <1>0, <2>2 DEF Publish, BusTypeOK, Holding
    <3>a. \A n \in Nat : n <= published => (n <= published' /\ Before(n, published'))
      BY <2>0 DEF Before
    <3>b. \A j \in DOMAIN queue' : \/ (j \in DOMAIN queue /\ queue'[j] = queue[j])
                                  \/ (j = Len(queue) + 1 /\ queue'[j] = published')
      BY <3>2
    <3>4. /\ \A i, j \in DOMAIN queue' : i < j => Before(queue'[i], queue'[j])
          /\ \A i \in DOMAIN queue' : queue'[i] <= published'
      BY <2>0, <3>2, <3>a, <3>b DEF Ordered
    <3>5. \A u \in Threads : Holding(u)' =>
            /\ event'[u] <= published'
            /\ \A i \in DOMAIN queue' : Before(event'[u], queue'[i])
      BY <1>0, <3>1, <3>3, <3>a, <3>b DEF Ordered, BusTypeOK
    <3>6. \A s \in Subscriptions : \A i \in DOMAIN seen'[s] :
            /\ seen'[s][i] <= published' /\ seen'[s][i] < Later
            /\ \A j \in DOMAIN queue' : seen'[s][i] < queue'[j]
      <4>1. \A s \in Subscriptions : \A i \in DOMAIN seen[s] : seen[s][i] \in Nat
        BY <1>0 DEF BusTypeOK
      <4>2. \A s \in Subscriptions : \A i \in DOMAIN seen[s] :
              seen[s][i] <= published' /\ seen[s][i] < Later /\ seen[s][i] < published'
        BY <2>0, <4>1, <3>a DEF Ordered, Before
      <4>3. QED  BY <3>1, <3>b, <4>2 DEF Ordered
    <3>7. QED  BY <3>1, <3>3, <3>4, <3>5, <3>6 DEF Ordered
  <2>3. QED  BY <2>1, <2>2
<1>5. SeenInOrder'
  BY DEF SeenInOrder, Publish
<1>6. Quiet'
  BY DEF Quiet, Publish, Calls, BusTypeOK
<1>7. QED  BY <1>1, <1>2, <1>4, <1>5, <1>6

\* The deliverer takes the oldest event in the queue, younger than all that
\* anybody has seen.
LEMMA TakePreserves ==
  ASSUME BusInv, NEW th \in Threads, Take(th)
  PROVE  BusInv'
<1> USE DEF BusInv
<1>0. BusTypeOK  OBVIOUS
<1>1. BusTypeOK'
  <2>1. /\ queue' \in Seq(Nat) /\ Len(queue') <= MaxPending
        /\ event' \in [Threads -> Nat]
    BY <1>0, Tailed, MaxPendingAssumption DEF BusTypeOK, Take
  <2>2. /\ pc' \in [Threads -> {"out", "drain", "deliver", "chosen", "call"}]
        /\ budget' \in [Threads -> 0..MaxPending]
        /\ todo' \in [Threads -> SUBSET Subscriptions]
    BY <1>0, MaxPendingAssumption DEF BusTypeOK, Take
  <2>3. QED  BY <1>0, <2>1, <2>2 DEF BusTypeOK, Take
<1>2. Handoff'
  BY DEF Handoff, Take, Draining, BusTypeOK
<1>4. Ordered'
  <2>1. /\ queue \in Seq(Nat) /\ queue # <<>> /\ queue' = Tail(queue)
        /\ event' = [event EXCEPT ![th] = queue[1]]
        /\ UNCHANGED <<published, seen, callee>>
    BY <1>0, Tailed DEF Take, BusTypeOK
  <2>2. /\ DOMAIN queue = 1..Len(queue) /\ DOMAIN queue' = 1..(Len(queue) - 1)
        /\ \A i \in 1..(Len(queue) - 1) : queue'[i] = queue[i + 1]
        /\ Len(queue) \in Nat /\ Len(queue) > 0
    BY <2>1, Tailed
  <2>3. \A u \in Threads : u # th => ~Holding(u)'
    BY <1>0 DEF Take, Handoff, Draining, Holding, BusTypeOK
  <2>4. event'[th] = queue[1] /\ pc'[th] = "deliver"
    BY <1>0, <2>1 DEF Take, BusTypeOK
  <2>5. /\ \A i, j \in DOMAIN queue' : i < j => Before(queue'[i], queue'[j])
        /\ \A i \in DOMAIN queue' : queue'[i] <= published /\ Before(queue[1], queue'[i])
        /\ queue[1] <= published
    BY <2>1, <2>2 DEF Ordered
  <2>6. \A s \in Subscriptions : \A i \in DOMAIN seen[s] :
          /\ seen[s][i] < queue[1] /\ seen[s][i] <= queue[1] /\ seen[s][i] <= published
          /\ seen[s][i] < Later
          /\ \A j \in DOMAIN queue' : seen[s][i] < queue'[j]
    <3>1. \A s \in Subscriptions : \A i \in DOMAIN seen[s] : seen[s][i] \in Nat
      BY <1>0 DEF BusTypeOK
    <3>2. queue[1] \in Nat /\ 1 \in DOMAIN queue
      BY <2>1, <2>2
    <3>3. \A s \in Subscriptions : \A i \in DOMAIN seen[s] :
            \A j \in DOMAIN queue : seen[s][i] < queue[j]
      BY DEF Ordered
    <3>4. \A j \in DOMAIN queue' : j + 1 \in DOMAIN queue /\ queue'[j] = queue[j + 1]
      BY <2>2
    <3>5. \A s \in Subscriptions : \A i \in DOMAIN seen[s] :
            /\ seen[s][i] < queue[1] /\ seen[s][i] <= published /\ seen[s][i] < Later
            /\ \A j \in DOMAIN queue' : seen[s][i] < queue'[j]
      BY <3>2, <3>3, <3>4 DEF Ordered
    <3>6. QED  BY <3>1, <3>2, <3>5
  <2>7. QED  BY <2>1, <2>3, <2>4, <2>5, <2>6 DEF Ordered
<1>5. SeenInOrder'
  BY DEF SeenInOrder, Take
<1>6. Quiet'
  BY DEF Quiet, Take, Calls, BusTypeOK
<1>7. QED  BY <1>1, <1>2, <1>4, <1>5, <1>6

\* The deliverer gives up: queue, flag and thread are settled in one step.
LEMMA QuitPreserves ==
  ASSUME BusInv, NEW th \in Threads, pc[th] \in {"drain", "call"}, Quit(th)
  PROVE  BusInv'
<1> USE DEF BusInv
<1>0. BusTypeOK /\ 0 \in 0..MaxPending /\ 0 <= MaxPending
  BY MaxPendingAssumption
<1>1. BusTypeOK'
  BY <1>0, Empty DEF BusTypeOK, Quit, Exit
<1>2. Handoff'
  BY DEF Handoff, Quit, Exit, Draining, BusTypeOK
<1>3. \A u \in Threads : ~Holding(u)'
  BY <1>0 DEF Quit, Exit, Handoff, Draining, Holding, BusTypeOK
<1>4. Ordered'
  BY <1>0, <1>3, Empty DEF Ordered, Quit
<1>5. SeenInOrder'
  BY DEF SeenInOrder, Quit
<1>6. Quiet'
  <2>1. \A u \in Threads : pc'[u] # "chosen" /\ pc[u] # "chosen"
    BY <1>0 DEF Quit, Exit, Handoff, Draining, BusTypeOK
  <2>2. \A s \in Subscriptions : Calls(s)' = Calls(s)
    BY <2>1, Zenon DEF Calls, Quit
  <2>3. QED  BY <2>2 DEF Quiet, Quit
<1>7. QED  BY <1>1, <1>2, <1>4, <1>5, <1>6

\* Only a subscription that is still there is chosen for a call.
LEMMA SelectPreserves ==
  ASSUME BusInv, NEW th \in Threads, Select(th)
  PROVE  BusInv'
<1> USE DEF BusInv
<1>0. PICK s \in todo[th] :
        /\ todo' = [todo EXCEPT ![th] = @ \ {s}]
        /\ \/ s \in current /\ pc' = [pc EXCEPT ![th] = "chosen"]
              /\ callee' = [callee EXCEPT ![th] = {s}]
           \/ UNCHANGED <<pc, callee>>
  BY DEF Select
<1>1. BusTypeOK'
  <2>1. BusTypeOK  OBVIOUS
  <2>2. /\ pc' \in [Threads -> {"out", "drain", "deliver", "chosen", "call"}]
        /\ todo' \in [Threads -> SUBSET Subscriptions]
        /\ callee' \in [Threads -> SUBSET Subscriptions]
    <3>1. /\ todo[th] \ {s} \in SUBSET Subscriptions /\ {s} \in SUBSET Subscriptions
          /\ todo \in [Threads -> SUBSET Subscriptions]
          /\ callee \in [Threads -> SUBSET Subscriptions]
          /\ pc \in [Threads -> {"out", "drain", "deliver", "chosen", "call"}]
      BY <2>1, <1>0 DEF BusTypeOK
    <3>2. todo' \in [Threads -> SUBSET Subscriptions]
      BY <1>0, <3>1
    <3>3. callee' \in [Threads -> SUBSET Subscriptions]
      BY <1>0, <3>1
    <3>4. pc' \in [Threads -> {"out", "drain", "deliver", "chosen", "call"}]
      BY <1>0, <3>1
    <3>5. QED  BY <3>2, <3>3, <3>4
  <2>3. QED  BY <2>1, <2>2 DEF BusTypeOK, Select
<1>2. Handoff'
  BY DEF Handoff, Select, Draining, BusTypeOK
<1>4. Ordered'
  <2>1. UNCHANGED <<queue, event, published, seen>> /\ pc[th] = "deliver"
    BY DEF Select
  <2>2. \A u \in Threads : Holding(u)' => u = th
    BY DEF Select, Handoff, Draining, Holding, BusTypeOK
  <2>3. /\ todo'[th] = todo[th] \ {s}
        /\ pc'[th] = "chosen" => callee'[th] = {s}
    BY <1>0, <2>1 DEF BusTypeOK
  <2>4. Holding(th)
    BY <2>1 DEF Holding
  <2>5. QED  BY <2>1, <2>2, <2>3, <2>4 DEF Ordered
<1>5. SeenInOrder'
  BY DEF SeenInOrder, Select
<1>6. Quiet'
  <2>1. \A v \in Subscriptions : v \notin current => Calls(v)' <= Calls(v)
    <3> SUFFICES ASSUME NEW v \in Subscriptions, v \notin current
                 PROVE  Calls(v)' <= Calls(v)
      OBVIOUS
    <3>1. \A u \in Threads : pc'[u] = "chosen" /\ v \in callee'[u] => pc[u] = "chosen" /\ v \in callee[u]
      <4>1. /\ pc \in [Threads -> {"out", "drain", "deliver", "chosen", "call"}]
            /\ callee \in [Threads -> SUBSET Subscriptions]
        BY DEF BusTypeOK
      <4>2. QED  BY <1>0, <4>1
    <3>2. seen' = seen /\ Len(seen[v]) \in Nat
      BY DEF Select, BusTypeOK
    <3>3. QED  BY <3>1, <3>2 DEF Calls
  <2>2. \A v \in Subscriptions : Calls(v)' \in Nat /\ Calls(v) \in Nat /\ since[v] \in Nat
    BY DEF Select, Calls, BusTypeOK
  <2>3. QED  BY <2>1, <2>2 DEF Quiet, Select
<1>7. QED  BY <1>1, <1>2, <1>4, <1>5, <1>6

\* The call that begins was counted when it was chosen; there is no other,
\* since only one thread delivers.
LEMMA EnterPreserves ==
  ASSUME BusInv, NEW th \in Threads, Enter(th)
  PROVE  BusInv'
<1> USE DEF BusInv
<1>0. /\ BusTypeOK /\ pc[th] = "chosen" /\ pc'[th] = "call" /\ Holding(th)
      /\ event[th] \in Nat /\ Later \in Nat
      /\ UNCHANGED <<queue, delivering, current, budget, event, todo, callee, published, since>>
  BY MaxEventsAssumption DEF Enter, Holding, BusTypeOK, drainVars, Later
<1>a. \A u \in Threads : u # th => pc[u] = "out" /\ pc'[u] = "out"
  BY <1>0 DEF Enter, Handoff, Draining, BusTypeOK
<1>b. \A s \in Subscriptions :
        \/ seen'[s] = seen[s]
        \/ s \in callee[th] /\ event[th] # Later /\ seen'[s] = Append(seen[s], event[th])
  BY DEF Enter
<1>1. BusTypeOK'
  <2>1. pc' \in [Threads -> {"out", "drain", "deliver", "chosen", "call"}]
    BY <1>0 DEF Enter, BusTypeOK
  <2>2. seen' \in [Subscriptions -> Seq(Nat)]
    <3>1. \A s \in Subscriptions : seen[s] \in Seq(Nat) /\ Append(seen[s], event[th]) \in Seq(Nat)
      BY <1>0, Appended DEF BusTypeOK
    <3>2. QED  BY <3>1 DEF Enter
  <2>3. QED  BY <1>0, <2>1, <2>2 DEF BusTypeOK
<1>2. Handoff'
  BY <1>0, <1>a DEF Handoff, Draining
<1>3. \A s \in Subscriptions : \A i \in DOMAIN seen'[s] :
        \/ i \in DOMAIN seen[s] /\ seen'[s][i] = seen[s][i]
        \/ s \in callee[th] /\ event[th] # Later /\ seen'[s][i] = event[th]
  <2> SUFFICES ASSUME NEW s \in Subscriptions, NEW i \in DOMAIN seen'[s]
               PROVE  \/ i \in DOMAIN seen[s] /\ seen'[s][i] = seen[s][i]
                      \/ s \in callee[th] /\ event[th] # Later /\ seen'[s][i] = event[th]
    OBVIOUS
  <2>1. seen[s] \in Seq(Nat)
    BY <1>0 DEF BusTypeOK
  <2>2. CASE seen'[s] = seen[s]
    BY <2>2
  <2>3. CASE s \in callee[th] /\ event[th] # Later /\ seen'[s] = Append(seen[s], event[th])
    <3>1. i \in 1..(Len(seen[s]) + 1) /\ DOMAIN seen[s] = 1..Len(seen[s])
      BY <1>0, <2>1, <2>3, Appended
    <3>2. CASE i = Len(seen[s]) + 1
      BY <1>0, <2>1, <2>3, <3>2, Appended
    <3>3. CASE i # Len(seen[s]) + 1
      <4>1. i \in 1..Len(seen[s])
        BY <2>1, <3>1, <3>3
      <4>2. QED  BY <1>0, <2>1, <2>3, <3>1, <4>1, Appended
    <3>4. QED  BY <3>2, <3>3
  <2>4. QED  BY <1>b, <2>2, <2>3
<1>4. Ordered'
  <2>1. \A u \in Threads : Holding(u)' => u = th
    BY <1>a DEF Holding
  <2>2. event[th] # Later => event[th] < Later
    <3>1. event[th] <= published /\ published \in 0..Later
      BY <1>0 DEF Ordered, BusTypeOK
    <3>2. QED  BY <1>0, <3>1
  <2>3. \A s \in Subscriptions : \A i \in DOMAIN seen'[s] :
          /\ seen'[s][i] <= published /\ seen'[s][i] < Later
          /\ \A j \in DOMAIN queue : seen'[s][i] < queue[j]
          /\ seen'[s][i] <= event[th]
          /\ s \in todo[th] => seen'[s][i] < event[th]
    <3> SUFFICES ASSUME NEW s \in Subscriptions, NEW i \in DOMAIN seen'[s]
                 PROVE  /\ seen'[s][i] <= published /\ seen'[s][i] < Later
                        /\ \A j \in DOMAIN queue : seen'[s][i] < queue[j]
                        /\ seen'[s][i] <= event[th]
                        /\ s \in todo[th] => seen'[s][i] < event[th]
      OBVIOUS
    <3>1. CASE i \in DOMAIN seen[s] /\ seen'[s][i] = seen[s][i]
      BY <1>0, <3>1 DEF Ordered
    <3>2. CASE s \in callee[th] /\ event[th] # Later /\ seen'[s][i] = event[th]
      <4>1. \A j \in DOMAIN queue : event[th] < queue[j]
        BY <1>0, <2>2, <3>2 DEF Ordered, Before
      <4>2. s \notin todo[th] /\ event[th] <= published
        BY <1>0, <3>2 DEF Ordered
      <4>3. QED  BY <1>0, <2>2, <3>2, <4>1, <4>2
    <3>3. QED  BY <1>3, <3>1, <3>2
  <2>4. QED  BY <1>0, <2>1, <2>3 DEF Ordered
<1>5. SeenInOrder'
  <2> SUFFICES ASSUME NEW s \in Subscriptions, NEW i \in DOMAIN seen'[s],
                      NEW j \in DOMAIN seen'[s], i < j
               PROVE  seen'[s][i] < seen'[s][j]
    BY DEF SeenInOrder
  <2>1. CASE seen'[s] = seen[s]
    BY <2>1 DEF SeenInOrder
  <2>2. CASE s \in callee[th] /\ event[th] # Later /\ seen'[s] = Append(seen[s], event[th])
    <3>1. seen[s] \in Seq(Nat) /\ Len(seen[s]) \in Nat
      BY <1>0 DEF BusTypeOK
    <3>2. /\ DOMAIN seen[s] = 1..Len(seen[s]) /\ DOMAIN seen'[s] = 1..(Len(seen[s]) + 1)
          /\ \A k \in 1..Len(seen[s]) : seen'[s][k] = seen[s][k]
          /\ seen'[s][Len(seen[s]) + 1] = event[th]
      BY <1>0, <2>2, <3>1, Appended
    <3>3. i \in DOMAIN seen[s] /\ seen'[s][i] = seen[s][i]
      BY <3>1, <3>2
    <3>4. CASE j \in DOMAIN seen[s]
      BY <3>2, <3>3, <3>4 DEF SeenInOrder
    <3>5. CASE j \notin DOMAIN seen[s]
      <4>1. j = Len(seen[s]) + 1
        BY <3>1, <3>2, <3>5
      <4>2. seen[s][i] < event[th]
        BY <1>0, <2>2, <3>3 DEF Ordered
      <4>3. QED  BY <3>2, <3>3, <4>1, <4>2
    <3>6. QED  BY <3>4, <3>5
  <2>3. QED  BY <1>b, <2>1, <2>2
<1>6. Quiet'
  <2>1. \A s \in Subscriptions : Len(seen[s]) \in Nat /\ Len(seen'[s]) \in Nat /\ since[s] \in Nat
    BY <1>0, <1>1 DEF BusTypeOK
  <2>2. ASSUME NEW s \in Subscriptions
        PROVE  Calls(s)' = Len(seen'[s]) + 0
    <3>1. ~\E u \in Threads : pc'[u] = "chosen" /\ s \in callee'[u]
      BY <1>0, <1>a
    <3>2. QED  BY <3>1, Zenon DEF Calls
  <2>3. ASSUME NEW s \in Subscriptions
        PROVE  Len(seen'[s]) <= Calls(s)
    <3> DEFINE chosen == \E u \in Threads : pc[u] = "chosen" /\ s \in callee[u]
    <3>1. Calls(s) = Len(seen[s]) + IF chosen THEN 1 ELSE 0
      BY Zenon DEF Calls
    <3>2. s \in callee[th] => chosen
      BY <1>0
    <3>3. seen[s] \in Seq(Nat)
      BY <1>0 DEF BusTypeOK
    <3>4. \/ Len(seen'[s]) = Len(seen[s])
          \/ s \in callee[th] /\ Len(seen'[s]) = Len(seen[s]) + 1
      BY <1>0, <1>b, <3>3, Appended
    <3> HIDE DEF chosen
    <3>5. CASE chosen
      BY <2>1, <3>1, <3>4, <3>5
    <3>6. CASE ~chosen
      BY <2>1, <3>1, <3>2, <3>4, <3>6
    <3>7. QED  BY <3>5, <3>6
  <2>4. ASSUME NEW s \in Subscriptions
        PROVE  Calls(s) \in Nat
    <3> DEFINE chosen == \E u \in Threads : pc[u] = "chosen" /\ s \in callee[u]
    <3>1. Calls(s) = Len(seen[s]) + IF chosen THEN 1 ELSE 0
      BY Zenon DEF Calls
    <3> HIDE DEF chosen
    <3>2. CASE chosen
      BY <2>1, <3>1, <3>2
    <3>3. CASE ~chosen
      BY <2>1, <3>1, <3>3
    <3>4. QED  BY <3>2, <3>3
  <2>5. \A s \in Subscriptions : Calls(s)' <= Calls(s) /\ Calls(s)' \in Nat
    BY <2>1, <2>2, <2>3
  <2>6. QED  BY <1>0, <2>1, <2>4, <2>5 DEF Quiet
<1>7. QED  BY <1>1, <1>2, <1>4, <1>5, <1>6

\* A callback that returns changes nothing but where its thread is.
LEMMA ReturnPreserves ==
  ASSUME BusInv, NEW th \in Threads, Return(th)
  PROVE  BusInv'
<1> USE DEF BusInv
<1>1. BusTypeOK'
  BY DEF BusTypeOK, Return
<1>2. Handoff'
  BY DEF Handoff, Return, Draining, BusTypeOK
<1>3. SeenInOrder'
  BY DEF SeenInOrder, Return
<1>4. \A u \in Threads : /\ Holding(u)' => Holding(u)
                         /\ pc'[u] # "chosen" /\ pc[u] # "chosen"
  BY DEF Return, Handoff, Draining, Holding, BusTypeOK
<1>5. Ordered'
  BY <1>4 DEF Ordered, Return
<1>6. Quiet'
  <2>1. \A s \in Subscriptions : Calls(s)' = Calls(s)
    BY <1>4, Zenon DEF Calls, Return
  <2>2. QED  BY <2>1 DEF Quiet, Return
<1>7. QED  BY <1>1, <1>2, <1>3, <1>5, <1>6

\* An event whose subscriptions have all been served is forgotten.
LEMMA ServedPreserves ==
  ASSUME BusInv, NEW th \in Threads, Served(th)
  PROVE  BusInv'
<1> USE DEF BusInv
<1>1. BusTypeOK'
  BY DEF BusTypeOK, Served, drainVars
<1>2. Handoff'
  BY DEF Handoff, Served, Draining, BusTypeOK
<1>3. SeenInOrder'
  BY DEF SeenInOrder, Served
<1>4. Ordered'
  BY DEF Ordered, Served, Holding, BusTypeOK, drainVars
<1>5. Quiet'
  BY DEF Quiet, Served, Calls, BusTypeOK, drainVars
<1>6. QED  BY <1>1, <1>2, <1>3, <1>4, <1>5

\* A new subscription starts to count.
LEMMA SubscribePreserves ==
  ASSUME BusInv, NEW s \in Subscriptions, Subscribe(s)
  PROVE  BusInv'
BY DEF BusInv, Subscribe, BusTypeOK, Handoff, Draining, Ordered, Holding,
   SeenInOrder, Quiet, Calls, drainVars

\* A subscription is withdrawn with the calls it has had.
LEMMA UnsubscribePreserves ==
  ASSUME BusInv, NEW s \in Subscriptions, Unsubscribe(s)
  PROVE  BusInv'
<1> USE DEF BusInv
<1>1. Calls(s) \in Nat
  BY DEF Calls, BusTypeOK
<1>2. BusTypeOK' /\ Handoff' /\ SeenInOrder'
  BY <1>1 DEF BusTypeOK, Handoff, Draining, SeenInOrder, Unsubscribe,
     drainVars
<1>3. Ordered'
  BY DEF Ordered, Holding, Unsubscribe, drainVars
<1>4. Quiet'
  <2>1. \A u \in Subscriptions : Calls(u)' = Calls(u)
    BY DEF Calls, Unsubscribe, drainVars
  <2>2. since'[s] = Calls(s) /\ \A u \in Subscriptions \ {s} : since'[u] = since[u]
    BY DEF Unsubscribe, BusTypeOK
  <2>3. QED  BY <1>1, <2>1, <2>2 DEF Quiet, Unsubscribe
<1>5. QED  BY <1>2, <1>3, <1>4

\* clear() withdraws all subscriptions and counts the events it throws away.
LEMMA ClearPreserves ==
  ASSUME BusInv, Clear
  PROVE  BusInv'
<1> USE DEF BusInv
<1>1. \A s \in Subscriptions : Calls(s) \in Nat
  BY DEF Calls, BusTypeOK
<1>2. BusTypeOK'
  <2>1. /\ Len(queue) \in Nat /\ 0 <= MaxPending
        /\ since' \in [Subscriptions -> Nat]
    BY <1>1, MaxPendingAssumption DEF BusTypeOK, Clear
  <2>2. QED  BY <2>1, Empty DEF BusTypeOK, Clear, drainVars
<1>3. Handoff' /\ SeenInOrder'
  BY Empty DEF Handoff, Draining, SeenInOrder, BusTypeOK, Clear
<1>4. Ordered'
  BY Empty DEF Ordered, Holding, Clear, drainVars
<1>5. Quiet'
  <2>1. \A u \in Subscriptions : Calls(u)' = Calls(u)
    BY DEF Calls, Clear, drainVars
  <2>2. \A u \in Subscriptions :
          since'[u] = IF u \in current THEN Calls(u) ELSE since[u]
    BY DEF Clear
  <2>3. QED  BY <1>1, <2>1, <2>2 DEF Quiet
<1>6. QED  BY <1>2, <1>3, <1>4, <1>5

\* So every step keeps the invariant.
LEMMA BusStepPreserves ==
  ASSUME BusInv, [BusNext]_busVars
  PROVE  BusInv'
<1>1. CASE UNCHANGED busVars
  BY <1>1 DEF busVars, drainVars, BusInv, BusTypeOK, Handoff, Draining, Ordered,
     Holding, SeenInOrder, Quiet, Calls
<1>2. ASSUME NEW th \in Threads, Publish(th) \/ Deliver(th) \/ Abort(th)
      PROVE  BusInv'
  <2>1. CASE Stop(th) \/ Abort(th)
    BY <2>1, QuitPreserves DEF Stop, Abort
  <2>2. QED
    BY <1>2, <2>1, PublishPreserves, TakePreserves, SelectPreserves, EnterPreserves, ReturnPreserves,
       ServedPreserves DEF Deliver
<1>3. QED
  BY <1>1, <1>2, SubscribePreserves, UnsubscribePreserves, ClearPreserves DEF BusNext

\* Every reachable state of the bus satisfies the invariant.
LEMMA BusInvariant == BusSpec => []BusInv
<1>1. BusInit => BusInv  BY BusInitEstablishes
<1>2. BusInv /\ [BusNext]_busVars => BusInv'  BY BusStepPreserves
<1>3. QED  BY <1>1, <1>2, PTL DEF BusSpec

-----------------------------------------------------------------------------
\* The types, and the bound on the queue.
THEOREM BusTypeCorrect == BusSpec => []BusTypeOK
<1>1. BusInv => BusTypeOK  BY DEF BusInv
<1>2. QED  BY <1>1, BusInvariant, PTL

\* No two threads are ever delivering at once.
THEOREM DeliveryIsExclusive == BusSpec => []OneDeliverer
<1>1. BusInv => OneDeliverer  BY DEF BusInv, Handoff, OneDeliverer
<1>2. QED  BY <1>1, BusInvariant, PTL

\* A queued event always has a thread that will come for it.
THEOREM NoEventIsStranded == BusSpec => []NothingStranded
<1>1. BusInv => NothingStranded  BY DEF BusInv, Handoff, NothingStranded
<1>2. QED  BY <1>1, BusInvariant, PTL

\* Every callback sees events in the order of their publication.
THEOREM DeliveryIsFifo == BusSpec => []SeenInOrder
<1>1. BusInv => SeenInOrder  BY DEF BusInv
<1>2. QED  BY <1>1, BusInvariant, PTL

\* A withdrawn callback is called at most once more, and only if it had been
\* looked up before.
THEOREM WithdrawalIsHeeded == BusSpec => []WithdrawnIsNotChosen
<1>1. ASSUME BusInv PROVE WithdrawnIsNotChosen
  <2>1. \A s \in Subscriptions : /\ Len(seen[s]) \in Nat /\ since[s] \in Nat
                                 /\ Len(seen[s]) <= Calls(s) /\ Calls(s) \in Nat
    BY <1>1 DEF BusInv, BusTypeOK, Calls
  <2>2. QED  BY <1>1, <2>1 DEF BusInv, Quiet, WithdrawnIsNotChosen
<1>2. QED  BY <1>1, BusInvariant, PTL
=============================================================================
