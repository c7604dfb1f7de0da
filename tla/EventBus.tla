------------------------------- MODULE EventBus -------------------------------
(***************************************************************************)
(* The kernel's event bus (src/morice/kernel/events.py).  A thread that    *)
(* publishes while nobody delivers becomes the one that delivers; others,  *)
(* and callbacks that publish in turn, only enqueue.  Callbacks run        *)
(* outside the lock, so everything may happen in between: publications,    *)
(* subscriptions, their withdrawal, clear().  The queue and the work one   *)
(* publisher can be made to do are bounded by max_pending: what does not   *)
(* fit is dropped.  How much was (dropped_events, a statistic) is left     *)
(* out.  The names common to all specifications carry a prefix here:       *)
(* KernelServicesProofs extends ResourceManager too.                       *)
(*                                                                         *)
(* Events may be published without end, also by the callbacks of the very  *)
(* delivery under way.  Only the first MaxEvents of them are told apart.   *)
(***************************************************************************)
EXTENDS Naturals, Sequences, FiniteSets

CONSTANTS
  Threads,        \* the threads that publish
  Subscriptions,  \* subscription keys; each is handed out once
  MaxPending,     \* max_pending
  MaxEvents       \* bound: how many events are told apart

ASSUME MaxPendingAssumption == MaxPending \in Nat \ {0}
ASSUME MaxEventsAssumption == MaxEvents \in Nat

VARIABLES
  queue,       \* events, numbered as they were published
  delivering,  \* some publisher delivers
  current,     \* the keys subscribed at present
  pc,          \* where each thread is in publish()
  budget,      \* how many more events it delivers in this call
  event,       \* the event it delivers,
  todo,        \* the subscriptions it has yet to serve with it,
  callee,      \* and the one whose callback it is about to run, or runs
  published,   \* the number of the newest event (history)
  seen,        \* the events each callback has been called with (history)
  since        \* for a key no longer subscribed, how many calls its callback had
               \* been chosen for when it was withdrawn (history)

drainVars == <<budget, event, todo, callee>>
busVars == <<queue, delivering, current, pc, drainVars, published, seen, since>>

\* The number of every event after the first MaxEvents.
Later == MaxEvents + 1

\* A key is fresh until it is subscribed, and withdrawn for good afterwards.
Fresh == MaxEvents + 2

BusInit ==
  /\ queue = <<>> /\ delivering = FALSE
  /\ current = {}
  /\ pc = [th \in Threads |-> "out"]
  /\ budget = [th \in Threads |-> 0] /\ event = [th \in Threads |-> 0]
  /\ todo = [th \in Threads |-> {}] /\ callee = [th \in Threads |-> {}]
  /\ published = 0
  /\ seen = [s \in Subscriptions |-> <<>>]
  /\ since = [s \in Subscriptions |-> Fresh]

-----------------------------------------------------------------------------

\* publish(), up to the point where it returns or starts to deliver.  It is
\* called by a thread from outside, or by a callback that the thread runs.
Publish(th) ==
  /\ pc[th] \in {"out", "call"}
  /\ published' = IF published < Later THEN published + 1 ELSE Later
  /\ IF Len(queue) >= MaxPending
       THEN UNCHANGED <<queue, delivering, pc, budget>>
       ELSE /\ queue' = Append(queue, published')
            /\ delivering' = TRUE
            /\ IF delivering THEN UNCHANGED <<pc, budget>>
                             ELSE /\ pc' = [pc EXCEPT ![th] = "drain"]
                                  /\ budget' = [budget EXCEPT ![th] = MaxPending]
  /\ UNCHANGED <<current, event, todo, callee, seen, since>>

\* Mutant: pop() for popleft().
TakeNewest(th) ==
  /\ pc[th] = "drain" /\ budget[th] > 0 /\ queue # <<>>
  /\ event' = [event EXCEPT ![th] = queue[Len(queue)]]
  /\ queue' = SubSeq(queue, 1, Len(queue) - 1)
  /\ todo' = [todo EXCEPT ![th] = current]
  /\ budget' = [budget EXCEPT ![th] = @ - 1]
  /\ pc' = [pc EXCEPT ![th] = "deliver"]
  /\ UNCHANGED <<delivering, current, callee, published, seen, since>>

\* Mutant: while the queue is not empty, deliver.
TakeUnbudgeted(th) ==
  /\ pc[th] = "drain" /\ budget[th] > 0 /\ queue # <<>>
  /\ event' = [event EXCEPT ![th] = Head(queue)]
  /\ queue' = Tail(queue)
  /\ todo' = [todo EXCEPT ![th] = current]
  /\ pc' = [pc EXCEPT ![th] = "deliver"]
  /\ UNCHANGED <<delivering, current, budget, callee, published, seen, since>>

\* The head of the delivery loop, under the lock: take the next event and the
\* subscriptions of this moment; stop when the queue is empty; when the budget
\* is used up drop what is left.
Take(th) ==
  /\ pc[th] = "drain" /\ budget[th] > 0 /\ queue # <<>>
  /\ event' = [event EXCEPT ![th] = Head(queue)]
  /\ queue' = Tail(queue)
  /\ todo' = [todo EXCEPT ![th] = current]
  /\ budget' = [budget EXCEPT ![th] = @ - 1]
  /\ pc' = [pc EXCEPT ![th] = "deliver"]
  /\ UNCHANGED <<delivering, current, callee, published, seen, since>>

\* publish() returns; its local variables are gone.
Exit(th) ==
  /\ pc' = [pc EXCEPT ![th] = "out"]
  /\ budget' = [budget EXCEPT ![th] = 0] /\ event' = [event EXCEPT ![th] = 0]
  /\ todo' = [todo EXCEPT ![th] = {}] /\ callee' = [callee EXCEPT ![th] = {}]

\* Mutant: the queue is left for the next publisher.
QuitKeepingQueue(th) ==
  /\ delivering' = FALSE /\ Exit(th)
  /\ UNCHANGED <<queue, current, published, seen, since>>

\* Whatever is queued is dropped, and another thread may deliver.
Quit(th) ==
  /\ queue' = <<>> /\ delivering' = FALSE /\ Exit(th)
  /\ UNCHANGED <<current, published, seen, since>>

Stop(th) == pc[th] = "drain" /\ (budget[th] = 0 \/ queue = <<>>) /\ Quit(th)

\* A callback raises something that is no Exception (KeyboardInterrupt).
Abort(th) == pc[th] = "call" /\ Quit(th)

\* Mutant: the snapshot is served without another look.
SelectUnchecked(th) ==
  /\ pc[th] = "deliver"
  /\ \E s \in todo[th] :
       /\ todo' = [todo EXCEPT ![th] = @ \ {s}]
       /\ pc' = [pc EXCEPT ![th] = "chosen"]
       /\ callee' = [callee EXCEPT ![th] = {s}]
  /\ UNCHANGED <<queue, delivering, current, budget, event, published, seen, since>>

\* One subscription of the snapshot: is it still there?  That is looked up
\* under the lock, and the lock released before anything is called.
Select(th) ==
  /\ pc[th] = "deliver"
  /\ \E s \in todo[th] :
       /\ todo' = [todo EXCEPT ![th] = @ \ {s}]
       /\ IF s \in current THEN /\ pc' = [pc EXCEPT ![th] = "chosen"]
                                /\ callee' = [callee EXCEPT ![th] = {s}]
                           ELSE UNCHANGED <<pc, callee>>
  /\ UNCHANGED <<queue, delivering, current, budget, event, published, seen, since>>

\* The callback begins, whatever has become of the subscription meanwhile.
Enter(th) ==
  /\ pc[th] = "chosen" /\ pc' = [pc EXCEPT ![th] = "call"]
  /\ seen' = [s \in Subscriptions |->
                IF s \in callee[th] /\ event[th] # Later THEN Append(seen[s], event[th])
                                                        ELSE seen[s]]
  /\ UNCHANGED <<queue, delivering, current, drainVars, published, since>>

\* The callback returns, or fails with an Exception, which is logged.
Return(th) ==
  /\ pc[th] = "call" /\ pc' = [pc EXCEPT ![th] = "deliver"]
  /\ callee' = [callee EXCEPT ![th] = {}]
  /\ UNCHANGED <<queue, delivering, current, budget, event, todo, published, seen, since>>

Served(th) ==
  /\ pc[th] = "deliver" /\ todo[th] = {} /\ pc' = [pc EXCEPT ![th] = "drain"]
  /\ UNCHANGED <<queue, delivering, current, drainVars, published, seen, since>>

\* The calls of a callback so far, with the one it has been chosen for.
Calls(s) == Len(seen[s]) + IF \E th \in Threads : pc[th] = "chosen" /\ s \in callee[th]
                             THEN 1 ELSE 0

\* One key per callback.  Which types of event a key asks for is left out: any
\* key may be one that asks for all.  A callback that is garbage collected is
\* withdrawn by that.
Subscribe(s) ==
  /\ s \notin current /\ since[s] = Fresh
  /\ current' = current \cup {s}
  /\ UNCHANGED <<queue, delivering, pc, drainVars, published, seen, since>>

Unsubscribe(s) ==
  /\ s \in current
  /\ current' = current \ {s}
  /\ since' = [since EXCEPT ![s] = Calls(s)]
  /\ UNCHANGED <<queue, delivering, pc, drainVars, published, seen>>

\* clear(), on shutdown: it empties the queue under whoever delivers.
Clear ==
  /\ queue # <<>> \/ current # {}
  /\ queue' = <<>> /\ current' = {}
  /\ since' = [s \in Subscriptions |-> IF s \in current THEN Calls(s) ELSE since[s]]
  /\ UNCHANGED <<delivering, pc, drainVars, published, seen>>

Deliver(th) == Take(th) \/ Stop(th) \/ Select(th) \/ Enter(th) \/ Return(th) \/ Served(th)

BusNext ==
  \/ \E th \in Threads : Publish(th) \/ Deliver(th) \/ Abort(th)
  \/ \E s \in Subscriptions : Subscribe(s) \/ Unsubscribe(s)
  \/ Clear

BusSpec == BusInit /\ [][BusNext]_busVars

\* Threads run, and callbacks return ("Subscribers must be short").
FairSpec == BusSpec /\ \A th \in Threads : WF_busVars(Deliver(th))

-----------------------------------------------------------------------------
Draining == {th \in Threads : pc[th] # "out"}

BusTypeOK ==
  /\ queue \in Seq(Nat) /\ Len(queue) <= MaxPending
  /\ delivering \in BOOLEAN
  /\ current \subseteq Subscriptions
  /\ pc \in [Threads -> {"out", "drain", "deliver", "chosen", "call"}]
  /\ budget \in [Threads -> 0..MaxPending]
  /\ event \in [Threads -> Nat]
  /\ todo \in [Threads -> SUBSET Subscriptions]
  /\ callee \in [Threads -> SUBSET Subscriptions]
  /\ published \in 0..Later
  /\ seen \in [Subscriptions -> Seq(Nat)]
  /\ since \in [Subscriptions -> Nat]

\* "One publisher drains in FIFO order": never two threads in callbacks, though
\* the flag that keeps them apart is set in one critical section and reset in
\* another, and the queue is emptied by third parties in between.
OneDeliverer == \A th, u \in Draining : th = u

\* An event in the queue has a thread that will come for it: no publisher
\* leaves its event to a deliverer that has already decided to stop.
NothingStranded == queue # <<>> => delivering /\ Draining # {}

\* Callbacks see events in the order of publication and none twice, whoever
\* delivered them.
SeenInOrder ==
  \A s \in Subscriptions : \A i, j \in DOMAIN seen[s] :
    i < j => seen[s][i] < seen[s][j]

\* Once unsubscribe(), or clear(), has returned, the callback is not called any
\* more, not even for an event whose delivery had begun -- but for one call, for
\* which the deliverer had looked it up before: that call may still begin.
WithdrawnIsNotChosen ==
  \A s \in Subscriptions : s \notin current => Len(seen[s]) <= since[s]

\* Delivery comes to rest and leaves no queue behind: a storm of events, even
\* one that the callbacks keep up for ever, holds no publisher for ever.
ComesToRest == []<>(queue = <<>>) /\ []<>(~delivering)
=============================================================================
