-------------------------- MODULE EventQueueProofs --------------------------
(***************************************************************************)
(* EventQueue for every queue, batch and ring size and any number of       *)
(* turns, concurrent calls and cancelling tasks: the types, the bound of   *)
(* the queue, that the desktop's loop does not sleep over an event, and    *)
(* the order in which events are handled.                                  *)
(***************************************************************************)
EXTENDS EventQueue, FiniteSetTheorems, TLAPS

(***************************************************************************)
(* Types.  A producer inside enqueue holds an event of its own, and an ACP *)
(* process takes no batch.                                                 *)
(***************************************************************************)
HandHeld ==
  \A p \in Producer : at[p] # "ready" => hand[p] \in Envelope /\ hand[p].by = p

ReadersApart ==
  /\ front \in {"subscribed", "receiving"} => host = "acp"
  /\ host = "acp" => front \in {"returned", "subscribed", "receiving"} /\ batch = {}
  /\ host # "acp" => stream = <<>>
  /\ front \in {"waiting", "draining"} => batch = {}

TypeInv == TypeOK /\ HandHeld /\ ReadersApart

LEMMA Parameters ==
  /\ Turns \in Nat \ {0} /\ MaxBody \in Nat /\ MaxQueueSize \in Nat \ {0}
  /\ BatchSize \in Nat \ {0} /\ StreamBuffer \in Nat \ {0} /\ Hosts \subseteq Host
  /\ Turn \subseteq Producer /\ Calls \subseteq Producer /\ Cancellers \subseteq Producer
BY EventAssumption DEF Producer

LEMMA InitTyped == Init => TypeInv
<1> SUFFICES ASSUME Init PROVE TypeInv
  OBVIOUS
<1>1. /\ at \in [Producer -> At] /\ stage \in [Turn -> Stage]
      /\ hand \in [Producer -> Envelope \cup {None}] /\ HandHeld
  BY DEF Init, HandHeld, At, Stage
<1>2. stream \in Seq(Envelope) /\ Len(stream) <= StreamBuffer /\ body \in 0 .. MaxBody
  BY Parameters DEF Init
<1> QED
  BY <1>1, <1>2 DEF Init, TypeInv, TypeOK, ReadersApart, Front

\* The steps of a turn and of the tasks beside it that make an event.
Makes(p, t) ==
  \/ TurnStarts(t) /\ p = t
  \/ TurnReports(t) /\ p = t
  \/ CallReports(t, p) /\ p \in Calls
  \/ TurnCompletes(t) /\ p = t
  \/ TurnFails(t) /\ p = t
  \/ UserCancels(t, p) /\ p \in Cancellers
  \/ CallCancelled(t, p) /\ p \in Cancellers
  \/ EngineStops(t) /\ p = t
  \/ TurnCancelled(t) /\ p = t

\* Steps that take an event no further than out of its producer's hand.
Leaves(p) == CheckLength(p) \/ Dropped(p)

LEMMA NextSteps ==
  ASSUME Next
  PROVE  \/ \E p \in Producer : Leaves(p) \/ Push(p) \/ Announce(p)
         \/ \E t \in Turn : Subscribe(t) \/ CancelTriggers(t)
         \/ \E t \in Turn, p \in Producer : Makes(p, t)
         \/ Wakes \/ Dequeue \/ Handle \/ Receive
BY Parameters DEF Next, Enqueuing, TurnEnds, Leaves, Makes

LEMMA MakesOne ==
  ASSUME NEW t \in Turn, NEW p \in Producer, Makes(p, t)
  PROVE  \E kind \in Kind, priority \in EventPriority : Enqueue(p, t, kind, priority)
<1> DEFINE E(kind, priority) == Enqueue(p, t, kind, priority)
<1>1. /\ "Started" \in Kind /\ "Body" \in Kind /\ "Inner" \in Kind /\ "Idle" \in Kind
      /\ "Completed" \in Kind /\ "Failed" \in Kind /\ "Cancelled" \in Kind
      /\ Critical \in EventPriority /\ High \in EventPriority /\ Normal \in EventPriority
      /\ BodyPriorities \subseteq EventPriority
  BY BodyAssumption DEF Kind, End, EventPriority
<1>2. \/ E("Started", Normal) \/ E("Completed", Normal) \/ E("Failed", Critical)
      \/ E("Idle", High) \/ E("Cancelled", High) \/ E("Cancelled", Critical)
      \/ \E kind \in {"Body", "Inner"}, priority \in BodyPriorities \cup {Critical} : E(kind, priority)
  BY DEF Makes, TurnStarts, TurnReports, CallReports, TurnCompletes, TurnFails,
         UserCancels, CallCancelled, EngineStops, TurnCancelled
<1> HIDE DEF E
<1>3. \E kind \in Kind, priority \in EventPriority : E(kind, priority)
  BY <1>1, <1>2
<1> QED
  BY <1>3 DEF E

\* What a step that makes an event leaves alone.
LEMMA MakesElse ==
  ASSUME NEW t \in Turn, NEW p \in Producer, Makes(p, t)
  PROVE  UNCHANGED <<host, queue, permit, stream, batch, learned>>
BY DEF Makes, TurnStarts, TurnReports, CallReports, TurnCompletes, TurnFails, UserCancels,
       CallCancelled, EngineStops, TurnCancelled, shared, reader

\* What making an event does to a producer that was outside enqueue.
LEMMA EnqueueTyped ==
  ASSUME TypeInv, NEW p \in Producer, NEW t \in Turn, NEW kind \in Kind,
         NEW priority \in EventPriority, Enqueue(p, t, kind, priority)
  PROVE  /\ clock' \in Nat /\ at' \in [Producer -> At]
         /\ hand' \in [Producer -> Envelope \cup {None}] /\ HandHeld'
<1> DEFINE e == [turn |-> t, by |-> p, kind |-> kind, priority |-> priority,
                 timestamp |-> Now]
<1>1. Now \in Nat
  BY DEF Now, TypeInv, TypeOK
<1>2. e \in Envelope /\ e.by = p
  BY <1>1 DEF Envelope
<1>3. hand' = [hand EXCEPT ![p] = e] /\ at' = [at EXCEPT ![p] = "check"] /\ clock' = Now + 1
  BY DEF Enqueue
<1> HIDE DEF e
<1> QED
  BY <1>1, <1>2, <1>3 DEF TypeInv, TypeOK, HandHeld, At

LEMMA BroadcastTyped ==
  ASSUME NEW s \in Seq(Envelope), Len(s) <= StreamBuffer, NEW e \in Envelope
  PROVE  Broadcast(s, e) \in Seq(Envelope) /\ Len(Broadcast(s, e)) <= StreamBuffer
<1>1. CASE Len(s) < StreamBuffer
  BY <1>1, Parameters DEF Broadcast
<1>2. CASE ~(Len(s) < StreamBuffer)
  <2>1. s # <<>> /\ Len(s) = StreamBuffer
    BY <1>2, Parameters
  <2>2. Tail(s) \in Seq(Envelope) /\ Len(Tail(s)) = StreamBuffer - 1
    BY <2>1, Parameters
  <2> QED
    BY <1>2, <2>2, Parameters DEF Broadcast
<1> QED
  BY <1>1, <1>2

LEMMA NextTyped == TypeInv /\ [Next]_vars => TypeInv'
<1> SUFFICES ASSUME TypeInv, [Next]_vars PROVE TypeInv'
  OBVIOUS
<1> USE DEF shared, tasks, reader
<1> USE DEF TypeInv
<1>1. ASSUME NEW p \in Producer, Leaves(p) PROVE TypeInv'
  BY <1>1 DEF Leaves, CheckLength, Dropped, Returns, TypeOK, HandHeld, ReadersApart, At
<1>2. ASSUME NEW p \in Producer, Push(p) PROVE TypeInv'
  <2>1. hand[p] \in Envelope
    BY <1>2 DEF Push, HandHeld
  <2> QED
    BY <1>2, <2>1 DEF Push, TypeOK, HandHeld, ReadersApart, At
<1>3. ASSUME NEW p \in Producer, Announce(p) PROVE TypeInv'
  <2>1. hand[p] \in Envelope
    BY <1>3 DEF Announce, HandHeld
  <2>2. stream' \in Seq(Envelope) /\ Len(stream') <= StreamBuffer
    BY <1>3, <2>1, BroadcastTyped DEF Announce, TypeOK
  <2> QED
    BY <1>3, <2>2 DEF Announce, Returns, TypeOK, HandHeld, ReadersApart, At
<1>4. ASSUME NEW t \in Turn, Subscribe(t) PROVE TypeInv'
  BY <1>4, Parameters DEF Subscribe, TypeOK, HandHeld, ReadersApart, Front
<1>5. ASSUME NEW t \in Turn, NEW p \in Producer, Makes(p, t) PROVE TypeInv'
  <2>1. PICK kind \in Kind, priority \in EventPriority : Enqueue(p, t, kind, priority)
    BY <1>5, MakesOne
  <2>2. /\ clock' \in Nat /\ at' \in [Producer -> At]
        /\ hand' \in [Producer -> Envelope \cup {None}] /\ HandHeld'
    BY <2>1, EnqueueTyped
  <2>3. /\ stage' \in [Turn -> Stage] /\ body' \in 0 .. MaxBody
        /\ front' \in Front /\ ReadersApart'
    BY <1>5, Parameters
    DEF Makes, TurnStarts, TurnReports, CallReports, TurnCompletes, TurnFails, UserCancels,
        CallCancelled, EngineStops, TurnCancelled, TypeOK, ReadersApart, Stage, Front
  <2>4. UNCHANGED <<host, queue, permit, stream, batch, learned>>
    BY <1>5, MakesElse
  <2> QED
    BY <2>2, <2>3, <2>4 DEF TypeOK
<1>6. ASSUME NEW t \in Turn, CancelTriggers(t) PROVE TypeInv'
  BY <1>6 DEF CancelTriggers, TypeOK, HandHeld, ReadersApart, Stage
<1>7. CASE Wakes
  BY <1>7 DEF Wakes, TypeOK, HandHeld, ReadersApart, Front
<1>8. CASE Dequeue
  BY <1>8 DEF Dequeue, TypeOK, HandHeld, ReadersApart, Front
<1>9. CASE Handle
  <2>1. PICK e \in batch : /\ batch' = batch \ {e}
                           /\ learned' = learned \cup EndsHeard({e})
                           /\ front' = AfterHandling(e)
    BY <1>9 DEF Handle
  <2>2. learned' \subseteq Turn
    BY <2>1 DEF TypeOK, EndsHeard, Envelope
  <2>3. /\ front' \in Front
        /\ front' \in {"waiting", "draining"} => batch' = {}
        /\ front' \notin {"subscribed", "receiving"}
    <3>1. batch = {e} => batch' = {}
      BY <2>1
    <3> QED
      BY <2>1, <3>1 DEF AfterHandling, Front
  <2> QED
    BY <1>9, <2>1, <2>2, <2>3 DEF Handle, TypeOK, HandHeld, ReadersApart
<1>10. CASE Receive
  <2>1. Head(stream) \in Envelope /\ Tail(stream) \in Seq(Envelope)
        /\ Len(Tail(stream)) <= StreamBuffer
    BY <1>10, Parameters DEF Receive, TypeOK
  <2>2. learned' \subseteq Turn
    BY <1>10, <2>1 DEF Receive, TypeOK, EndsHeard, Envelope
  <2> QED
    BY <1>10, <2>1, <2>2 DEF Receive, TypeOK, HandHeld, ReadersApart, Front
<1>11. CASE UNCHANGED vars
  BY <1>11 DEF vars, TypeOK, HandHeld, ReadersApart
<1> QED
  BY <1>1, <1>2, <1>3, <1>4, <1>5, <1>6, <1>7, <1>8, <1>9, <1>10, <1>11, NextSteps

\* Every variable keeps its type.
THEOREM TypesCorrect == Spec => []TypeOK
<1>1. TypeInv => TypeOK
  BY DEF TypeInv
<1> QED
  BY <1>1, InitTyped, NextTyped, PTL DEF Spec

(***************************************************************************)
(* The bound.  Each producer that has seen room and not pushed yet may add *)
(* one event, so the length and their number are bounded together.         *)
(***************************************************************************)
Pushing == {p \in Producer : at[p] = "push"}

Room ==
  /\ IsFiniteSet(queue)
  /\ Cardinality(queue) + Cardinality(Pushing) <= MaxQueueSize + Cardinality(Producer) - 1

LEMMA ProducersFinite ==
  IsFiniteSet(Producer) /\ Cardinality(Producer) \in Nat \ {0}
<1>1. IsFiniteSet(Turn)
  BY Parameters, FS_Interval DEF Turn
<1>2. IsFiniteSet(Producer)
  BY <1>1, EventAssumption, FS_Union DEF Producer
<1>3. 1 \in Producer
  BY Parameters DEF Turn
<1> QED
  BY <1>2, <1>3, FS_EmptySet, FS_CardinalityType

LEMMA ProducersBounded ==
  ASSUME NEW S, S \subseteq Producer
  PROVE  /\ IsFiniteSet(S) /\ Cardinality(S) \in Nat
         /\ Cardinality(S) <= Cardinality(Producer)
BY ProducersFinite, FS_Subset, FS_CardinalityType

LEMMA PushersBounded ==
  /\ IsFiniteSet(Pushing) /\ Cardinality(Pushing) \in Nat
  /\ Cardinality(Pushing) <= Cardinality(Producer)
BY ProducersBounded DEF Pushing

LEMMA InitRoom == Init => Room
<1> SUFFICES ASSUME Init PROVE Room
  OBVIOUS
<1>1. Pushing = {}
  BY DEF Init, Pushing
<1> QED
  BY <1>1, FS_EmptySet, Parameters, ProducersFinite DEF Init, Room

\* Steps that let no task past the length check and no event in.
LEMMA RoomKept ==
  ASSUME Room, queue' \subseteq queue, Pushing' \subseteq Pushing
  PROVE  Room'
<1>1. IsFiniteSet(queue') /\ Cardinality(queue') <= Cardinality(queue)
      /\ Cardinality(queue') \in Nat /\ Cardinality(queue) \in Nat
  BY FS_Subset, FS_CardinalityType DEF Room
<1>2. Cardinality(Pushing') <= Cardinality(Pushing) /\ Cardinality(Pushing') \in Nat
  BY PushersBounded, FS_Subset, FS_CardinalityType
<1> QED
  BY <1>1, <1>2, PushersBounded, ProducersFinite, Parameters DEF Room

LEMMA NextRoom == TypeInv /\ Room /\ [Next]_vars => Room'
<1> SUFFICES ASSUME TypeInv, Room, [Next]_vars PROVE Room'
  OBVIOUS
<1> USE DEF shared, tasks, reader
<1>1. ASSUME NEW p \in Producer, Leaves(p) PROVE Room'
  <2>1. CASE Dropped(p) \/ Cardinality(queue) >= MaxQueueSize
    BY <1>1, <2>1, RoomKept
    DEF Leaves, CheckLength, Dropped, Returns, Pushing, TypeInv, TypeOK
  <2>2. CASE CheckLength(p) /\ ~(Cardinality(queue) >= MaxQueueSize)
    <3>1. Cardinality(queue) <= MaxQueueSize - 1 /\ Cardinality(queue) \in Nat
      BY <2>2, Parameters, FS_CardinalityType DEF Room
    <3>2. Cardinality(Pushing') \in Nat /\ Cardinality(Pushing') <= Cardinality(Producer)
      BY ProducersBounded DEF Pushing
    <3>3. queue' = queue
      BY <2>2 DEF CheckLength
    <3> QED
      BY <3>1, <3>2, <3>3, ProducersFinite, Parameters DEF Room
  <2> QED
    BY <1>1, <2>1, <2>2 DEF Leaves
<1>2. ASSUME NEW p \in Producer, Push(p) PROVE Room'
  <2>1. /\ queue' = queue \cup {hand[p]}
        /\ Pushing' = Pushing \ {p} /\ p \in Pushing
    BY <1>2 DEF Push, Pushing, TypeInv, TypeOK
  <2>2. IsFiniteSet(queue') /\ Cardinality(queue') <= Cardinality(queue) + 1
        /\ Cardinality(queue) \in Nat /\ Cardinality(queue') \in Nat
    <3>1. IsFiniteSet(queue)
      BY DEF Room
    <3>2. /\ IsFiniteSet(queue')
          /\ Cardinality(queue') = IF hand[p] \in queue THEN Cardinality(queue)
                                   ELSE Cardinality(queue) + 1
      BY <2>1, <3>1, FS_AddElement, Zenon
    <3> QED
      BY <3>1, <3>2, FS_CardinalityType
  <2>3. Cardinality(Pushing') = Cardinality(Pushing) - 1
    BY <2>1, PushersBounded, FS_RemoveElement
  <2> QED
    BY <2>2, <2>3, PushersBounded, ProducersFinite, Parameters DEF Room
<1>3. ASSUME NEW p \in Producer, Announce(p) PROVE Room'
  BY <1>3, RoomKept DEF Announce, Returns, Pushing, TypeInv, TypeOK
<1>4. ASSUME NEW t \in Turn, Subscribe(t) \/ CancelTriggers(t) PROVE Room'
  BY <1>4, RoomKept DEF Subscribe, CancelTriggers, Pushing
<1>5. ASSUME NEW t \in Turn, NEW p \in Producer, Makes(p, t) PROVE Room'
  <2>1. PICK kind \in Kind, priority \in EventPriority : Enqueue(p, t, kind, priority)
    BY <1>5, MakesOne
  <2>2. Pushing' \subseteq Pushing
    BY <2>1 DEF Enqueue, Pushing, TypeInv, TypeOK
  <2> QED
    BY <1>5, <2>2, MakesElse, RoomKept
<1>6. CASE Wakes \/ Handle \/ Receive \/ UNCHANGED vars
  BY <1>6, RoomKept DEF Wakes, Handle, Receive, vars, Pushing
<1>7. CASE Dequeue
  BY <1>7, RoomKept DEF Dequeue, Pushing
<1> QED
  BY <1>1, <1>2, <1>3, <1>4, <1>5, <1>6, <1>7, NextSteps

\* The queue outgrows its limit by less than one event per producer.
THEOREM QueueStaysBounded == Spec => []BoundedQueue
<1>1. Room => BoundedQueue
  BY PushersBounded, ProducersFinite, FS_CardinalityType, Parameters DEF Room, BoundedQueue
<1> QED
  BY <1>1, InitTyped, NextTyped, InitRoom, NextRoom, PTL DEF Spec

(***************************************************************************)
(* The wake-up.  A producer that has pushed and is not dropped leaves a    *)
(* permit before it returns; the loop sleeps only after an empty batch.    *)
(***************************************************************************)
LEMMA InitAwake == Init => NoLostWakeup
BY DEF Init, NoLostWakeup

LEMMA NextAwake == TypeInv /\ NoLostWakeup /\ [Next]_vars => NoLostWakeup'
<1> SUFFICES ASSUME TypeInv, NoLostWakeup, [Next]_vars PROVE NoLostWakeup'
  OBVIOUS
<1> USE DEF shared, tasks, reader, NoLostWakeup
<1>1. ASSUME NEW p \in Producer, Leaves(p) PROVE NoLostWakeup'
  <2>1. /\ \A q \in Producer : at[q] = "announce" /\ hand[q].kind # "Inner"
                               => at'[q] = at[q] /\ hand'[q] = hand[q]
        /\ UNCHANGED <<host, front, queue, permit>>
    BY <1>1 DEF Leaves, CheckLength, Dropped, Returns, TypeInv, TypeOK
  <2> QED
    BY <2>1
<1>2. ASSUME NEW p \in Producer, Push(p) PROVE NoLostWakeup'
  BY <1>2 DEF Push, TypeInv, TypeOK
<1>3. ASSUME NEW p \in Producer, Announce(p) PROVE NoLostWakeup'
  BY <1>3 DEF Announce
<1>4. ASSUME NEW t \in Turn, Subscribe(t) \/ CancelTriggers(t) PROVE NoLostWakeup'
  BY <1>4 DEF Subscribe, CancelTriggers
<1>5. ASSUME NEW t \in Turn, NEW p \in Producer, Makes(p, t) PROVE NoLostWakeup'
  <2>1. PICK kind \in Kind, priority \in EventPriority : Enqueue(p, t, kind, priority)
    BY <1>5, MakesOne
  <2>2. \A q \in Producer : at[q] = "announce" => at'[q] = at[q] /\ hand'[q] = hand[q]
    BY <2>1 DEF Enqueue, TypeInv, TypeOK
  <2>3. host = "desktop" => front' = front
    BY <1>5
    DEF Makes, TurnStarts, TurnReports, CallReports, TurnCompletes, TurnFails, UserCancels,
        CallCancelled, EngineStops, TurnCancelled
  <2> QED
    BY <1>5, <2>2, <2>3, MakesElse
<1>6. CASE Wakes \/ Receive \/ UNCHANGED vars
  BY <1>6 DEF Wakes, Receive, vars
<1>7. CASE Dequeue
  <2>1. PICK taken \in SUBSET queue :
          /\ \/ Cardinality(taken) = BatchSize
             \/ taken = queue /\ Cardinality(queue) < BatchSize
          /\ queue' = queue \ taken
          /\ front' = IF taken = {} THEN "waiting" ELSE "handling"
    BY <1>7 DEF Dequeue
  <2>2. taken = {} => Cardinality(taken) = 0
    BY FS_EmptySet
  <2> QED
    BY <2>1, <2>2, Parameters
<1>8. CASE Handle
  <2>1. host' = host /\ (host = "desktop" => front' # "waiting")
    BY <1>8 DEF Handle, AfterHandling
  <2> QED
    BY <2>1
<1> QED
  BY <1>1, <1>2, <1>3, <1>4, <1>5, <1>6, <1>7, <1>8, NextSteps

\* The desktop's loop does not sleep while an event waits for which no wake-up
\* is left or about to be.
THEOREM NoWakeupLost == Spec => []NoLostWakeup
BY InitTyped, NextTyped, InitAwake, NextAwake, PTL DEF Spec

(***************************************************************************)
(* The order.  Times grow, so the event a producer holds is the latest it  *)
(* made; the calls of a turn are outside enqueue before its first event is *)
(* in and once its end is made.  So no event in a hand is made before one  *)
(* in the queue that it has to precede, and what a batch leaves behind is  *)
(* later than the batch, or less urgent.                                   *)
(***************************************************************************)
Past == \A e \in InFlight : e.timestamp < clock

HandLatest ==
  \A p \in Producer : at[p] # "ready" =>
    \A e \in queue \cup batch : e.by = p => e.timestamp <= hand[p].timestamp

Held == {hand[p] : p \in Busy}
Events == queue \cup batch \cup Held

\* Only a turn's own flow starts and ends it, when its calls have returned.
Owned(e) ==
  /\ e.by \in Turn \/ e.kind \in End \cup {"Started"} => e.by = e.turn
  /\ stage[e.turn] # "unborn"
  /\ e.kind \in End => stage[e.turn] \notin Live

EventsOwned == \A e \in Events : Owned(e)

CallsJoined == \A c \in Calls \cap Busy : stage[hand[c].turn] \in Live

StartedFirst ==
  \A t \in Turn \cap Busy :
    hand[t].kind = "Started" => \A e \in Events : e.turn = t => e.by \notin Calls

BatchFirst == \A e \in batch, f \in queue : MadeInOrder(f, e) => e.priority < f.priority

Order == Past /\ HandLatest /\ EventsOwned /\ CallsJoined /\ StartedFirst /\ BatchFirst

LEMMA InitOrder == Init => Order
<1> SUFFICES ASSUME Init PROVE Order
  OBVIOUS
<1>1. Busy = {} /\ queue = {} /\ batch = {} /\ stream = <<>>
  BY DEF Init, Busy
<1> QED
  BY <1>1 DEF Order, Past, HandLatest, EventsOwned, CallsJoined, StartedFirst, BatchFirst,
              Events, Held, InFlight, Busy

LEMMA EventsTyped == TypeInv => Events \subseteq Envelope /\ InFlight \subseteq Envelope
<1> SUFFICES ASSUME TypeInv PROVE Events \subseteq Envelope /\ InFlight \subseteq Envelope
  OBVIOUS
<1>1. queue \cup batch \cup {stream[i] : i \in DOMAIN stream} \subseteq Envelope
  BY DEF TypeInv, TypeOK
<1>2. Held \subseteq Envelope
  BY DEF TypeInv, HandHeld, Held, Busy
<1> QED
  BY <1>1, <1>2 DEF InFlight, Events, Held

\* An event in a hand comes after those in the queue that it is ordered with.
LEMMA HandNotBefore ==
  ASSUME TypeInv, Order, NEW p \in Busy, NEW e \in queue \cup batch
  PROVE  ~MadeInOrder(hand[p], e)
<1> PICK f : f = hand[p]
  OBVIOUS
<1> SUFFICES ASSUME MadeInOrder(f, e) PROVE FALSE
  OBVIOUS
<1>1. /\ p \in Producer /\ f \in Envelope /\ e \in Envelope /\ f.by = p
      /\ f.turn \in Turn /\ e.by \in Producer /\ f \in Events /\ e \in Events
  BY EventsTyped DEF Busy, TypeInv, TypeOK, HandHeld, Envelope, Events, Held
<1>2. f.turn = e.turn /\ f.timestamp < e.timestamp
  BY DEF MadeInOrder
<1>3. f.by # e.by
  BY <1>1, <1>2 DEF Order, HandLatest, Busy, Envelope
<1>4. Owned(f) /\ Owned(e)
  BY <1>1 DEF Order, EventsOwned
<1>5. {f.by, e.by} \subseteq Turn \cup Calls /\ (f.kind = "Started" \/ e.kind \in End)
  BY <1>1, <1>3 DEF MadeInOrder, Producer
<1>6. CASE f.kind = "Started"
  <2>1. p = f.turn /\ e.by \in Calls
    BY <1>1, <1>2, <1>3, <1>4, <1>5, <1>6 DEF Owned
  <2> QED
    BY <1>1, <1>2, <1>6, <2>1 DEF Order, StartedFirst
<1>7. CASE e.kind \in End
  <2>1. p \in Calls
    BY <1>1, <1>2, <1>3, <1>4, <1>5, <1>7 DEF Owned
  <2>2. stage[f.turn] \in Live
    BY <2>1 DEF Order, CallsJoined
  <2> QED
    BY <1>2, <1>4, <1>7, <2>2 DEF Owned
<1> QED
  BY <1>5, <1>6, <1>7

\* Steps that make no event and let none into the queue.
LEMMA OrderKept ==
  ASSUME TypeInv, Order, clock' = clock, stage' = stage,
         queue' \subseteq queue, batch' \subseteq batch,
         {stream'[i] : i \in DOMAIN stream'} \subseteq InFlight,
         Busy' \subseteq Busy, \A p \in Busy' : hand'[p] = hand[p]
  PROVE  Order'
<1>1. Held' \subseteq Held
  BY DEF Held
<1>2. InFlight' \subseteq InFlight /\ Events' \subseteq Events
  BY <1>1 DEF InFlight, Events, Held
<1>3. Past'
  BY <1>2 DEF Order, Past
<1>4. HandLatest'
  BY DEF Order, HandLatest, Busy
<1>5. EventsOwned' /\ CallsJoined' /\ StartedFirst'
  BY <1>2 DEF Order, EventsOwned, CallsJoined, StartedFirst, Owned
<1>6. BatchFirst'
  BY DEF Order, BatchFirst, MadeInOrder
<1> QED
  BY <1>3, <1>4, <1>5, <1>6 DEF Order

LEMMA PushOrdered ==
  ASSUME TypeInv, Order, NEW p \in Producer, Push(p) PROVE Order'
<1>1. /\ at' = [at EXCEPT ![p] = "announce"] /\ p \in Busy /\ queue' = queue \cup {hand[p]}
      /\ UNCHANGED <<hand, batch, clock, stream, stage>> /\ hand[p].by = p
      /\ hand[p] \in Envelope
  BY DEF Push, TypeInv, HandHeld, shared, tasks, reader, Busy
<1>2. Busy' = Busy
  BY <1>1 DEF Busy, TypeInv, TypeOK
<1>3. Held' = Held /\ hand[p] \in Held
  BY <1>1, <1>2 DEF Held
<1>4. Events' = Events /\ InFlight' = InFlight
  <2>1. InFlight = Events \cup {stream[i] : i \in DOMAIN stream}
    BY DEF InFlight, Events, Held
  <2>2. InFlight' = Events' \cup {stream'[i] : i \in DOMAIN stream'}
    BY DEF InFlight, Events, Held
  <2>3. Events' = Events
    BY <1>1, <1>3 DEF Events
  <2> QED
    BY <1>1, <2>1, <2>2, <2>3
<1>5. Past'
  BY <1>1, <1>4 DEF Order, Past
<1>6. HandLatest'
  <2>1. hand[p].timestamp \in Nat
    BY <1>1 DEF Envelope
  <2>2. \A q \in Producer : at'[q] # "ready" => at[q] # "ready" /\ (hand[p].by = q => q = p)
    BY <1>1 DEF Busy, TypeInv, TypeOK
  <2> QED
    BY <1>1, <2>1, <2>2 DEF Order, HandLatest
<1>7. EventsOwned' /\ CallsJoined' /\ StartedFirst'
  BY <1>1, <1>2, <1>4 DEF Order, EventsOwned, CallsJoined, StartedFirst, Owned
<1>8. BatchFirst'
  <2> SUFFICES ASSUME NEW e \in batch, NEW f \in queue \cup {hand[p]}, MadeInOrder(f, e)
               PROVE  e.priority < f.priority
    BY <1>1 DEF BatchFirst, MadeInOrder
  <2>1. f # hand[p]
    BY <1>1, HandNotBefore
  <2> QED
    BY <2>1 DEF Order, BatchFirst
<1> QED
  BY <1>5, <1>6, <1>7, <1>8 DEF Order

\* Making an event: what is known of it and of its turn, whose stage may change.
LEMMA MakesOwned ==
  ASSUME TypeInv, Order, NEW t \in Turn, NEW p \in Producer, Makes(p, t)
  PROVE  /\ hand'[p].by \in Turn \/ hand'[p].kind \in End \cup {"Started"} => p = t
         /\ stage'[t] # "unborn"
         /\ hand'[p].kind \in End => stage'[t] \notin Live
         /\ p \in Calls => stage'[t] \in Live /\ ~(t \in Busy /\ hand[t].kind = "Started")
         /\ hand'[p].kind = "Started" => stage[t] = "unborn"
         /\ stage'[t] # stage[t] /\ stage'[t] \notin Live => Joined(t)
         /\ stage[t] \notin Live \cup {"unborn"} => stage'[t] \notin Live
         /\ \A u \in Turn \ {t} : stage'[u] = stage[u]
<1>1. hand \in [Producer -> Envelope \cup {None}] /\ stage \in [Turn -> Stage]
      /\ at \in [Producer -> At]
  BY DEF TypeInv, TypeOK
<1>2. Turn \subseteq Producer /\ Turn \cap (Calls \cup Cancellers) = {}
  BY EventAssumption, Parameters
<1>3. /\ Calls \cap Cancellers = {} /\ Normal = 2 /\ Critical = 0 /\ High = 1
  BY EventAssumption DEF Normal, Critical, High
<1> USE DEF Enqueue, End, Live
<1>4. CASE TurnStarts(t) /\ p = t
  BY <1>1, <1>2, <1>4 DEF TurnStarts, IsNext
<1>5. CASE TurnReports(t) /\ p = t
  <2>1. PICK kind \in {"Body", "Inner"}, priority \in BodyPriorities :
          Enqueue(p, t, kind, priority)
    BY <1>5 DEF TurnReports
  <2> QED
    BY <1>1, <1>2, <1>5, <2>1 DEF TurnReports, tasks
<1>6. CASE CallReports(t, p) /\ p \in Calls
  <2>1. PICK kind \in {"Body", "Inner"}, priority \in BodyPriorities :
          Enqueue(p, t, kind, priority)
    BY <1>6 DEF CallReports
  <2>2. hand'[p].kind \in {"Body", "Inner"} /\ hand'[p].by = p
    BY <1>1, <2>1
  <2> QED
    BY <1>1, <1>2, <1>6, <2>2 DEF CallReports, Busy
<1>7. CASE TurnCompletes(t) /\ p = t
  BY <1>1, <1>2, <1>7 DEF TurnCompletes
<1>8. CASE TurnFails(t) /\ p = t
  BY <1>1, <1>2, <1>8 DEF TurnFails
<1>9. CASE UserCancels(t, p) /\ p \in Cancellers
  BY <1>1, <1>2, <1>3, <1>9 DEF UserCancels
<1>10. CASE CallCancelled(t, p) /\ p \in Cancellers
  <2>1. PICK kind \in {"Body", "Inner"} : Enqueue(p, t, kind, Critical)
    BY <1>10 DEF CallCancelled
  <2>2. hand'[p].kind \in {"Body", "Inner"} /\ hand'[p].by = p
    BY <1>1, <2>1
  <2> QED
    BY <1>1, <1>2, <1>3, <1>10, <2>2 DEF CallCancelled
<1>11. CASE EngineStops(t) /\ p = t
  BY <1>1, <1>2, <1>11 DEF EngineStops
<1>12. CASE TurnCancelled(t) /\ p = t
  BY <1>1, <1>2, <1>12 DEF TurnCancelled
<1> QED
  BY <1>4, <1>5, <1>6, <1>7, <1>8, <1>9, <1>10, <1>11, <1>12 DEF Makes

LEMMA MakesOrdered ==
  ASSUME TypeInv, Order, NEW t \in Turn, NEW p \in Producer, Makes(p, t) PROVE Order'
<1>1. PICK kind \in Kind, priority \in EventPriority : Enqueue(p, t, kind, priority)
  BY MakesOne
<1> PICK e : e = [turn |-> t, by |-> p, kind |-> kind, priority |-> priority,
                  timestamp |-> Now]
  OBVIOUS
<1>2. /\ at[p] = "ready" /\ at' = [at EXCEPT ![p] = "check"]
      /\ hand' = [hand EXCEPT ![p] = e] /\ clock' = Now + 1
      /\ e.turn = t /\ e.by = p /\ e.timestamp = Now
  BY <1>1 DEF Enqueue
<1>3. UNCHANGED <<queue, stream, batch>>
  BY MakesElse
<1>4. Now \in Nat /\ \A f \in InFlight : f.timestamp < Now /\ f.timestamp \in Nat
  BY EventsTyped DEF Now, Order, Past, TypeInv, TypeOK, Envelope
<1>5. /\ p \notin Busy /\ Busy' = Busy \cup {p} /\ hand'[p] = e
      /\ \A q \in Busy : hand'[q] = hand[q]
  BY <1>2 DEF Busy, TypeInv, TypeOK
<1>6. Held' = Held \cup {e}
  BY <1>5 DEF Held
<1>7. Events' = Events \cup {e} /\ InFlight' = InFlight \cup {e}
  <2>1. InFlight = Events \cup {stream[i] : i \in DOMAIN stream}
    BY DEF InFlight, Events, Held
  <2>2. InFlight' = Events' \cup {stream'[i] : i \in DOMAIN stream'}
    BY DEF InFlight, Events, Held
  <2>3. Events' = Events \cup {e}
    BY <1>3, <1>6 DEF Events
  <2> QED
    BY <1>3, <2>1, <2>2, <2>3
<1>8. Past'
  BY <1>2, <1>4, <1>7 DEF Past
<1>9. HandLatest'
  <2>1. \A f \in queue \cup batch : f.timestamp < Now
    BY <1>4 DEF InFlight
  <2>2. \A f \in queue \cup batch : f.timestamp \in Nat
    BY <1>4 DEF InFlight
  <2>3. \A q \in Producer : at'[q] # "ready" => q \in Busy \cup {p}
    BY <1>5 DEF Busy
  <2> QED
    BY <1>2, <1>3, <1>4, <1>5, <2>1, <2>2, <2>3 DEF Order, HandLatest, Busy
<1>10. /\ p \in Turn \/ e.kind \in End \cup {"Started"} => p = t
       /\ stage'[t] # "unborn"
       /\ e.kind \in End => stage'[t] \notin Live
       /\ p \in Calls => stage'[t] \in Live /\ ~(t \in Busy /\ hand[t].kind = "Started")
       /\ e.kind = "Started" => stage[t] = "unborn"
       /\ stage'[t] # stage[t] /\ stage'[t] \notin Live => Joined(t)
       /\ stage[t] \notin Live \cup {"unborn"} => stage'[t] \notin Live
       /\ \A u \in Turn \ {t} : stage'[u] = stage[u]
  BY <1>2, <1>5, MakesOwned
<1>11. \A f \in Events : Owned(f) /\ f.turn \in Turn
  BY EventsTyped DEF Order, EventsOwned, Envelope
<1>12. EventsOwned'
  <2>1. Owned(e)'
    BY <1>2, <1>10 DEF Owned
  <2>2. ASSUME NEW f \in Events PROVE Owned(f)'
    BY <1>10, <1>11 DEF Owned
  <2> QED
    BY <1>7, <2>1, <2>2 DEF EventsOwned
<1>13. CallsJoined'
  <2> SUFFICES ASSUME NEW c \in Calls, c \in Busy' PROVE stage'[hand'[c].turn] \in Live
    BY DEF CallsJoined
  <2>1. CASE c = p
    BY <1>2, <1>5, <1>10, <2>1
  <2>2. CASE c # p
    <3>1. c \in Busy /\ hand'[c] = hand[c] /\ hand[c] \in Events
      BY <1>5, <2>2 DEF Events, Held
    <3>2. stage[hand[c].turn] \in Live /\ hand[c].turn \in Turn
      BY <1>11, <3>1 DEF Order, CallsJoined
    <3>3. CASE hand[c].turn = t
      <4>1. ~Joined(t)
        BY <3>1, <3>3 DEF Joined, Busy
      <4> QED
        BY <1>10, <3>1, <3>2, <3>3, <4>1
    <3> QED
      BY <1>10, <3>1, <3>2, <3>3
  <2> QED
    BY <2>1, <2>2
<1>14. StartedFirst'
  <2> SUFFICES ASSUME NEW u \in Turn, u \in Busy', hand'[u].kind = "Started",
                      NEW f \in Events', f.turn = u
               PROVE  f.by \notin Calls
    BY DEF StartedFirst
  <2>1. CASE u = p
    <3>1. e.kind = "Started" /\ p = t /\ stage[t] = "unborn" /\ p \notin Calls
      BY <1>5, <1>10, <2>1, EventAssumption
    <3>2. f \notin Events
      BY <1>11, <2>1, <3>1 DEF Owned
    <3> QED
      BY <1>2, <1>7, <3>1, <3>2
  <2>2. CASE u # p
    <3>1. u \in Busy /\ hand[u].kind = "Started"
      BY <1>5, <2>2
    <3>2. CASE f \in Events
      BY <3>1, <3>2 DEF Order, StartedFirst
    <3>3. CASE f = e
      BY <1>2, <1>10, <3>1, <3>3
    <3> QED
      BY <1>7, <3>2, <3>3
  <2> QED
    BY <2>1, <2>2
<1>15. BatchFirst'
  BY <1>3 DEF Order, BatchFirst, MadeInOrder
<1> QED
  BY <1>8, <1>9, <1>12, <1>13, <1>14, <1>15 DEF Order

LEMMA NextOrder == TypeInv /\ Order /\ [Next]_vars => Order'
<1> SUFFICES ASSUME TypeInv, Order, [Next]_vars PROVE Order'
  OBVIOUS
<1> USE DEF shared, tasks, reader
<1>1. ASSUME NEW p \in Producer, Leaves(p) PROVE Order'
  <2>1. Busy' \subseteq Busy /\ \A q \in Busy' : hand'[q] = hand[q]
    BY <1>1 DEF Leaves, CheckLength, Dropped, Returns, Busy, TypeInv, TypeOK
  <2>2. UNCHANGED <<clock, stage, queue, batch, stream>>
    BY <1>1 DEF Leaves, CheckLength, Dropped
  <2>3. {stream'[i] : i \in DOMAIN stream'} \subseteq InFlight
    BY <2>2 DEF InFlight
  <2> QED
    BY <2>1, <2>2, <2>3, OrderKept
<1>2. ASSUME NEW p \in Producer, Push(p) PROVE Order'
  BY <1>2, PushOrdered
<1>3. ASSUME NEW p \in Producer, Announce(p) PROVE Order'
  <2>1. Busy' \subseteq Busy /\ p \in Busy /\ \A q \in Busy' : hand'[q] = hand[q]
    BY <1>3 DEF Announce, Returns, Busy, TypeInv, TypeOK
  <2>2. {stream'[i] : i \in DOMAIN stream'}
          \subseteq {stream[i] : i \in DOMAIN stream} \cup {hand[p]}
    BY <1>3 DEF Announce, Broadcast, TypeInv, TypeOK
  <2>3. {stream'[i] : i \in DOMAIN stream'} \subseteq InFlight
    BY <2>1, <2>2 DEF InFlight
  <2>4. UNCHANGED <<clock, stage, queue, batch>>
    BY <1>3 DEF Announce
  <2> QED
    BY <2>1, <2>3, <2>4, OrderKept
<1>4. ASSUME NEW t \in Turn, Subscribe(t) PROVE Order'
  <2>1. stream' = <<>> /\ UNCHANGED <<clock, stage, queue, batch, at, hand>>
    BY <1>4 DEF Subscribe
  <2>2. Busy' = Busy /\ {stream'[i] : i \in DOMAIN stream'} \subseteq InFlight
    BY <2>1 DEF Busy
  <2> QED
    BY <2>1, <2>2, OrderKept
<1>5. ASSUME NEW t \in Turn, CancelTriggers(t) PROVE Order'
  <2>1. /\ UNCHANGED <<clock, queue, batch, stream, at, hand>>
        /\ stage[t] \in Live /\ stage[t] # "unborn" /\ stage'[t] \in Live /\ stage'[t] # "unborn"
        /\ \A u \in Turn \ {t} : stage'[u] = stage[u]
    BY <1>5 DEF CancelTriggers, Live, TypeInv, TypeOK
  <2>2. Busy' = Busy /\ Held' = Held
    BY <2>1 DEF Busy, Held
  <2>3. Events' = Events /\ InFlight' = InFlight
    BY <2>1, <2>2 DEF Events, InFlight
  <2>4. \A e \in Events : e.turn \in Turn
    BY EventsTyped DEF Envelope
  <2>5. \A c \in Busy : hand[c] \in Events
    BY DEF Events, Held
  <2>6. Past' /\ HandLatest' /\ StartedFirst' /\ BatchFirst'
    BY <2>1, <2>2, <2>3
    DEF Order, Past, HandLatest, StartedFirst, BatchFirst, MadeInOrder
  <2>7. EventsOwned'
    BY <2>1, <2>3, <2>4 DEF Order, EventsOwned, Owned
  <2>8. CallsJoined'
    BY <2>1, <2>2, <2>4, <2>5 DEF Order, CallsJoined
  <2> QED
    BY <2>6, <2>7, <2>8 DEF Order
<1>6. ASSUME NEW t \in Turn, NEW p \in Producer, Makes(p, t) PROVE Order'
  BY <1>6, MakesOrdered
<1>7. CASE Dequeue
  <2>1. PICK taken \in SUBSET queue : /\ FirstOnes(taken)
                                      /\ queue' = queue \ taken /\ batch' = taken
    BY <1>7 DEF Dequeue
  <2>2. batch = {} /\ UNCHANGED <<at, hand, clock, stream, stage>>
    BY <1>7 DEF Dequeue, TypeInv, ReadersApart
  <2>3. Busy' = Busy /\ Held' = Held /\ queue' \cup batch' = queue
    BY <2>1, <2>2 DEF Busy, Held
  <2>4. Events' = Events /\ InFlight' = InFlight
    BY <2>2, <2>3 DEF Events, InFlight
  <2>5. Past' /\ HandLatest' /\ EventsOwned' /\ CallsJoined' /\ StartedFirst'
    BY <2>2, <2>3, <2>4
    DEF Order, Past, HandLatest, EventsOwned, CallsJoined, StartedFirst, Owned
  <2>6. BatchFirst'
    BY <2>1 DEF BatchFirst, FirstOnes, Precedes, MadeInOrder, TypeInv, TypeOK, Envelope
  <2> QED
    BY <2>5, <2>6 DEF Order
<1>8. CASE Handle \/ Wakes \/ Receive \/ UNCHANGED vars
  <2>1. UNCHANGED <<queue, at, hand, clock, stage>> /\ batch' \subseteq batch
    BY <1>8 DEF Handle, Wakes, Receive, vars
  <2>2. {stream'[i] : i \in DOMAIN stream'} \subseteq {stream[i] : i \in DOMAIN stream}
    BY <1>8 DEF Handle, Wakes, Receive, vars, TypeInv, TypeOK
  <2>3. Busy' = Busy /\ {stream'[i] : i \in DOMAIN stream'} \subseteq InFlight
    BY <2>1, <2>2 DEF Busy, InFlight
  <2> QED
    BY <2>1, <2>3, OrderKept
<1> QED
  BY <1>1, <1>2, <1>3, <1>4, <1>5, <1>6, <1>7, <1>8, NextSteps

\* What HandledInOrder says of a step.
InOrder(e) == \A f \in InFlight : MadeInOrder(f, e) => e.priority < f.priority

LEMMA HandleInOrder ==
  ASSUME TypeInv, Order, Handle, NEW e \in batch \ batch' PROVE InOrder(e)
<1>1. \A f \in batch \ {e} : Precedes(e, f)
  BY DEF Handle
<1>2. stream = <<>> /\ e \in Envelope
  BY DEF Handle, TypeInv, TypeOK, ReadersApart
<1> SUFFICES ASSUME NEW f \in InFlight, MadeInOrder(f, e) PROVE e.priority < f.priority
  BY DEF InOrder
<1>3. CASE f \in queue
  BY <1>3 DEF Order, BatchFirst
<1>4. CASE f \in batch
  BY <1>1, <1>2, <1>4 DEF Precedes, MadeInOrder, TypeInv, TypeOK, Envelope
<1>5. CASE f \in {hand[p] : p \in Busy}
  BY <1>5, HandNotBefore
<1> QED
  BY <1>2, <1>3, <1>4, <1>5 DEF InFlight

\* The events of each producer of a turn are handled in order, its first before
\* its calls' and its end after them, but for the more urgent ones.
THEOREM EventsInOrder == Spec => HandledInOrder
<1>1. TypeInv /\ Order /\ [Next]_vars
        => [\A e \in batch \ batch', f \in InFlight :
              MadeInOrder(f, e) => e.priority < f.priority]_vars
  <2> SUFFICES ASSUME TypeInv, Order, Next, NEW e \in batch \ batch' PROVE InOrder(e)
    BY DEF InOrder
  <2>1. CASE Handle
    BY <2>1, HandleInOrder
  <2>2. CASE ~Handle
    <3>1. batch' = batch \/ batch = {}
      <4>1. CASE \E t \in Turn, p \in Producer : Makes(p, t)
        BY <4>1, MakesElse
      <4>2. CASE ~\E t \in Turn, p \in Producer : Makes(p, t)
        BY <2>2, <4>2, NextSteps
        DEF Leaves, CheckLength, Dropped, Push, Announce, Subscribe, CancelTriggers,
            Wakes, Dequeue, Receive, reader, tasks, shared, TypeInv, ReadersApart
      <4> QED
        BY <4>1, <4>2
    <3> QED
      BY <3>1
  <2> QED
    BY <2>1, <2>2
<1> QED
  BY <1>1, InitTyped, NextTyped, InitOrder, NextOrder, PTL DEF Spec, HandledInOrder
=============================================================================
