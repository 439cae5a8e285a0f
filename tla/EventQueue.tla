----------------------------- MODULE EventQueue -----------------------------
(***************************************************************************)
(* EventQueue (agentic/events/queue.rs): a bounded priority queue of       *)
(* turn events with a wake-up permit and a broadcast stream, its producers *)
(* and the front end that reads it: the desktop's event loop, `bitfun      *)
(* exec`, or an ACP prompt.                                                *)
(*                                                                         *)
(* enqueue looks at the length, pushes, and then broadcasts and notifies,  *)
(* in separate critical sections, so other tasks come in between.  The     *)
(* events of one turn come from several producers at once: the turn's own  *)
(* flow, the further tool calls of a concurrent batch, and the tasks that  *)
(* cancel the turn or its calls.                                           *)
(***************************************************************************)
EXTENDS Integers, FiniteSets, Sequences

CONSTANTS
  Turns,         \* number of turns of the session
  Calls,         \* tool calls that run beside the first of a batch
  Cancellers,    \* tasks that cancel a turn or its calls, or reject a call
  MaxBody,       \* bound: text and tool events of the session
  BodyPriorities, \* the priorities these have
  MaxQueueSize,  \* EventQueueConfig::max_queue_size, 10000
  BatchSize,     \* EventQueueConfig::batch_size, 10; exec takes 20
  StreamBuffer,  \* EVENT_BROADCAST_BUFFER, 1024
  Hosts,         \* the front ends of an instance
  None           \* no event

Turn == 1 .. Turns
\* What enqueues: a turn's own flow also runs the first call of a batch.
Producer == Turn \cup Calls \cup Cancellers
Host == {"desktop", "exec", "acp"}

ASSUME EventAssumption ==
  /\ Turns \in Nat \ {0} /\ MaxBody \in Nat
  /\ IsFiniteSet(Calls) /\ IsFiniteSet(Cancellers)
  /\ Turn \cap (Calls \cup Cancellers) = {} /\ Calls \cap Cancellers = {}
  /\ MaxQueueSize \in Nat \ {0} /\ BatchSize \in Nat \ {0}
  /\ StreamBuffer \in Nat \ {0}
  /\ Hosts \subseteq Host /\ Hosts # {}

\* AgenticEventPriority: a smaller number is more urgent.
Critical == 0
High == 1
Normal == 2
Low == 3
EventPriority == {Critical, High, Normal, Low}

ASSUME BodyAssumption == BodyPriorities \subseteq EventPriority

\* Idle: the session's state after a cancel.  Inner: made by a tool's own code,
\* whose future is dropped when the call is cancelled.
End == {"Completed", "Failed", "Cancelled"}
Kind == {"Started", "Body", "Inner", "Idle"} \cup End
Envelope == [turn: Turn, by: Producer, kind: Kind,
             priority: EventPriority, timestamp: Nat]

ASSUME NoneAssumption == None \notin Envelope

\* The order of AgenticEventEnvelope, whose Reverse the heap pops first.
Precedes(e, f) ==
  \/ e.priority < f.priority
  \/ e.priority = f.priority /\ e.timestamp < f.timestamp

VARIABLES
  host,     \* which application this is
  queue,    \* EventQueue::queue
  permit,   \* the permit stored in EventQueue::notify
  stream,   \* what the ACP prompt's broadcast receiver has not received yet
  clock,    \* SystemTime::now, which restarts at 0 when no event is in flight
  stage,    \* where the turn stands
  at,       \* where each producer stands in enqueue
  hand,     \* the envelope it enqueues
  body,     \* text and tool events so far
  front,    \* where the front end stands
  batch,    \* what dequeue_batch returned and is not handled yet
  learned   \* the turns whose end the front end has handled

shared == <<queue, permit, stream>>
tasks == <<stage, at, hand, body>>
reader == <<front, batch, learned>>
vars == <<host, shared, clock, tasks, reader>>

\* "idle": a cancel has made the session Idle; "cancelled": and stopped the engine.
Stage == {"unborn", "running", "idle", "cancelled", "stopping", "over"}
Live == {"running", "idle", "cancelled"}
At == {"ready", "check", "push", "announce"}
Front == {"waiting", "draining", "handling", "subscribed", "receiving", "returned"}

Init ==
  /\ host \in Hosts
  /\ queue = {} /\ permit = FALSE /\ stream = <<>>
  /\ clock = 0
  /\ stage = [t \in Turn |-> "unborn"]
  /\ at = [p \in Producer |-> "ready"]
  /\ hand = [p \in Producer |-> None]
  /\ body = 0
  /\ front = IF host = "acp" THEN "returned" ELSE "waiting"
  /\ batch = {} /\ learned = {}

-----------------------------------------------------------------------------
(* enqueue, run by producer p.                                             *)

\* Producers inside enqueue.
Busy == {p \in Producer : at[p] # "ready"}

\* Events made and not handled: only their order tells their times apart.
InFlight == queue \cup batch \cup {stream[i] : i \in DOMAIN stream}
              \cup {hand[p] : p \in Busy}

Now == IF InFlight = {} THEN 0 ELSE clock

\* The call: EventEnvelope::new stamps the event before the queue is locked.
\* One producer enqueues its events one after the other.
Enqueue(p, t, kind, priority) ==
  /\ at[p] = "ready"
  /\ hand' = [hand EXCEPT ![p] = [turn |-> t, by |-> p, kind |-> kind,
                                  priority |-> priority, timestamp |-> Now]]
  /\ clock' = Now + 1
  /\ at' = [at EXCEPT ![p] = "check"]

\* The call returns Ok, whether or not the event is in the queue.
Returns(p) ==
  /\ at' = [at EXCEPT ![p] = "ready"]
  /\ hand' = [hand EXCEPT ![p] = None]

\* Mutant: a full queue takes the event.
CheckNothing(p) ==
  /\ at[p] = "check"
  /\ at' = [at EXCEPT ![p] = "push"] /\ hand' = hand
  /\ UNCHANGED <<host, shared, clock, stage, body, reader>>

\* A full queue drops the event.
CheckLength(p) ==
  /\ at[p] = "check"
  /\ IF Cardinality(queue) >= MaxQueueSize
     THEN Returns(p)
     ELSE at' = [at EXCEPT ![p] = "push"] /\ hand' = hand
  /\ UNCHANGED <<host, shared, clock, stage, body, reader>>

Push(p) ==
  /\ at[p] = "push"
  /\ queue' = queue \cup {hand[p]}
  /\ at' = [at EXCEPT ![p] = "announce"]
  /\ UNCHANGED <<host, permit, stream, clock, stage, hand, body, reader>>

\* Mutant: the ring grows.
BroadcastGrowing(s, e) == Append(s, e)

\* A receiver that lags loses the oldest events of the ring.
Broadcast(s, e) ==
  IF Len(s) < StreamBuffer THEN Append(s, e) ELSE Append(Tail(s), e)

\* Mutant: only the first event of a queue wakes the reader.
AnnounceFirst(p) ==
  /\ at[p] = "announce"
  /\ stream' = IF host = "acp" THEN Broadcast(stream, hand[p]) ELSE stream
  /\ permit' = (permit \/ Cardinality(queue) = 1)
  /\ Returns(p)
  /\ UNCHANGED <<host, queue, clock, stage, body, reader>>

\* The broadcast and notify_one: no reader uses both.
Announce(p) ==
  /\ at[p] = "announce"
  /\ stream' = IF host = "acp" THEN Broadcast(stream, hand[p]) ELSE stream
  /\ permit' = TRUE
  /\ Returns(p)
  /\ UNCHANGED <<host, queue, clock, stage, body, reader>>

\* A cancelled call drops the future of its tool, at any await of enqueue.
Dropped(p) ==
  /\ at[p] # "ready" /\ hand[p].kind = "Inner"
  /\ Returns(p)
  /\ UNCHANGED <<host, shared, clock, stage, body, reader>>

-----------------------------------------------------------------------------
(* A turn: start_dialog_turn announces it, its task and the calls of its   *)
(* batches report, its task ends it; others cancel it.                     *)

\* The next turn of a session starts when the last is over, or was cancelled,
\* which makes the session Idle before the task has stopped.
IsNext(t) ==
  /\ stage[t] = "unborn"
  /\ t > 1 => stage[t - 1] \notin {"unborn", "running"}
  /\ host = "exec" => t = 1

\* An ACP prompt subscribes before it starts its turn.
Subscribe(t) ==
  /\ host = "acp" /\ front = "returned" /\ IsNext(t)
  /\ stream' = <<>>
  /\ front' = "subscribed"
  /\ UNCHANGED <<host, queue, permit, clock, tasks, batch, learned>>

TurnStarts(t) ==
  /\ IsNext(t)
  /\ host = "acp" => front = "subscribed"
  /\ stage' = [stage EXCEPT ![t] = "running"]
  /\ Enqueue(t, t, "Started", Normal)
  /\ front' = IF host = "acp" THEN "receiving" ELSE front
  /\ UNCHANGED <<host, shared, body, batch, learned>>

\* A text chunk, a state of the first call of a batch, or an event of its tool.
TurnReports(t) ==
  /\ stage[t] \in Live
  /\ body < MaxBody
  /\ \E kind \in {"Body", "Inner"}, priority \in BodyPriorities :
       Enqueue(t, t, kind, priority)
  /\ body' = body + 1
  /\ UNCHANGED <<host, shared, stage, reader>>

\* The same of a call that runs beside it: the turn's task joins them all.
CallReports(t, c) ==
  /\ stage[t] \in Live
  /\ at[t] # "ready" => hand[t].kind \in {"Body", "Inner"}
  /\ body < MaxBody
  /\ \E kind \in {"Body", "Inner"}, priority \in BodyPriorities :
       Enqueue(c, t, kind, priority)
  /\ body' = body + 1
  /\ UNCHANGED <<host, shared, stage, reader>>

\* join_all has returned: no call of t is inside enqueue.
Joined(t) == \A c \in Calls : at[c] # "ready" => hand[c].turn # t

\* The engine reports the end of its round loop; a cancel may come too late.
TurnCompletes(t) ==
  /\ stage[t] \in Live /\ Joined(t)
  /\ stage' = [stage EXCEPT ![t] = "over"]
  /\ Enqueue(t, t, "Completed", Normal)
  /\ UNCHANGED <<host, shared, body, reader>>

TurnFails(t) ==
  /\ stage[t] \in Live /\ Joined(t)
  /\ stage' = [stage EXCEPT ![t] = "over"]
  /\ Enqueue(t, t, "Failed", Critical)
  /\ UNCHANGED <<host, shared, body, reader>>

\* A cancel first makes the session Idle and reports that ...
UserCancels(t, c) ==
  /\ stage[t] = "running"
  /\ stage' = [stage EXCEPT ![t] = "idle"]
  /\ Enqueue(c, t, "Idle", High)
  /\ UNCHANGED <<host, shared, body, reader>>

\* ... and then triggers the engine's token ...
CancelTriggers(t) ==
  /\ stage[t] = "idle"
  /\ \A c \in Cancellers \cap Busy : hand[c].turn = t => hand[c].kind # "Idle"
  /\ stage' = [stage EXCEPT ![t] = "cancelled"]
  /\ UNCHANGED <<host, shared, clock, at, hand, body, reader>>

\* ... and sets the turn's calls Cancelled one after the other.  This, a cancel
\* or a reject of one call, and a cancel by another session's tool, which may
\* itself be dropped, run beside the turn's task or after it.
CallCancelled(t, c) ==
  /\ stage[t] # "unborn"
  /\ body < MaxBody
  /\ \E kind \in {"Body", "Inner"} : Enqueue(c, t, kind, Critical)
  /\ body' = body + 1
  /\ UNCHANGED <<host, shared, stage, reader>>

\* The engine reports a cancel it finds between rounds ...
EngineStops(t) ==
  /\ stage[t] = "cancelled" /\ Joined(t)
  /\ stage' = [stage EXCEPT ![t] = "stopping"]
  /\ Enqueue(t, t, "Cancelled", High)
  /\ UNCHANGED <<host, shared, body, reader>>

\* ... and the coordinator reports every cancel, perhaps again.
TurnCancelled(t) ==
  /\ stage[t] \in {"cancelled", "stopping"} /\ Joined(t)
  /\ stage' = [stage EXCEPT ![t] = "over"]
  /\ Enqueue(t, t, "Cancelled", Critical)
  /\ UNCHANGED <<host, shared, body, reader>>

-----------------------------------------------------------------------------
(* The front ends.                                                         *)

\* wait_for_events takes the permit; the caller then takes a batch.
Wakes ==
  /\ front = "waiting" /\ permit
  /\ permit' = FALSE
  /\ front' = "draining"
  /\ UNCHANGED <<host, queue, stream, clock, tasks, batch, learned>>

\* Mutant: the heap pops the latest of the most urgent events.
LatestFirst(taken) ==
  \A e \in taken, f \in queue \ taken :
    \/ e.priority < f.priority
    \/ e.priority = f.priority /\ e.timestamp > f.timestamp

\* What dequeue_batch pops, in the order of the heap.
FirstOnes(taken) == \A e \in taken, f \in queue \ taken : Precedes(e, f)

\* The desktop takes batches until one is empty, exec one batch per wake-up.
Dequeue ==
  /\ front = "draining"
  /\ \E taken \in SUBSET queue :
       /\ FirstOnes(taken)
       /\ \/ Cardinality(taken) = BatchSize
          \/ taken = queue /\ Cardinality(queue) < BatchSize
       /\ queue' = queue \ taken
       /\ batch' = taken
       /\ front' = IF taken = {} THEN "waiting" ELSE "handling"
  /\ UNCHANGED <<host, permit, stream, clock, tasks, learned>>

\* The turns whose end is among the events.
EndsHeard(events) == {e.turn : e \in {f \in events : f.kind \in End}}

\* Mutant: the desktop waits after every batch, as exec does.
WaitsAfterBatch(e) ==
  IF host = "exec" /\ e.kind \in End THEN "returned"
  ELSE IF batch # {e} THEN "handling" ELSE "waiting"

\* After an event of the batch: exec returns when it is the end of its turn.
AfterHandling(e) ==
  IF host = "exec" /\ e.kind \in End THEN "returned"
  ELSE IF batch # {e} THEN "handling"
  ELSE IF host = "exec" THEN "waiting" ELSE "draining"

\* One event of the batch: routed to the internal subscribers, then emitted.
Handle ==
  /\ front = "handling"
  /\ \E e \in batch :
       /\ \A f \in batch \ {e} : Precedes(e, f)
       /\ batch' = batch \ {e}
       /\ learned' = learned \cup EndsHeard({e})
       /\ front' = AfterHandling(e)
  /\ UNCHANGED <<host, shared, clock, tasks>>

\* wait_for_prompt_completion returns at the end of a turn of its session.
Receive ==
  /\ front = "receiving" /\ stream # <<>>
  /\ stream' = Tail(stream)
  /\ learned' = learned \cup EndsHeard({Head(stream)})
  /\ front' = IF Head(stream).kind \in End THEN "returned" ELSE "receiving"
  /\ UNCHANGED <<host, queue, permit, clock, tasks, batch>>

-----------------------------------------------------------------------------
Enqueuing(p) == CheckLength(p) \/ Push(p) \/ Announce(p)

TurnEnds(t) == TurnCompletes(t) \/ TurnFails(t) \/ TurnCancelled(t)

Next ==
  \/ \E p \in Producer : Enqueuing(p) \/ Dropped(p)
  \/ \E t \in Turn : \/ Subscribe(t) \/ TurnStarts(t) \/ TurnReports(t) \/ TurnEnds(t)
                     \/ CancelTriggers(t) \/ EngineStops(t)
  \/ \E t \in Turn, c \in Calls : CallReports(t, c)
  \/ \E t \in Turn, c \in Cancellers : UserCancels(t, c) \/ CallCancelled(t, c)
  \/ Wakes \/ Dequeue \/ Handle \/ Receive

Spec == Init /\ [][Next]_vars

FrontEnd == Wakes \/ Dequeue \/ Handle \/ Receive

\* Tasks that can run are polled; nothing makes a turn start, end or report.
FairSpec ==
  /\ Spec
  /\ \A p \in Producer : WF_vars(Enqueuing(p))
  /\ WF_vars(FrontEnd)

-----------------------------------------------------------------------------
(* Properties.                                                             *)

\* Every variable has its type.
TypeOK ==
  /\ host \in Hosts
  /\ queue \subseteq Envelope /\ permit \in BOOLEAN
  /\ stream \in Seq(Envelope) /\ Len(stream) <= StreamBuffer
  /\ clock \in Nat
  /\ stage \in [Turn -> Stage] /\ at \in [Producer -> At]
  /\ hand \in [Producer -> Envelope \cup {None}] /\ body \in 0 .. MaxBody
  /\ front \in Front /\ batch \subseteq Envelope /\ learned \subseteq Turn

\* The length is checked in one critical section and the event pushed in
\* another, so the queue outgrows its bound, but by less than one event per
\* concurrent producer (queue.rs, enqueue).
BoundedQueue == Cardinality(queue) <= MaxQueueSize + Cardinality(Producer) - 1

\* The desktop's event loop never sleeps over a waiting event: there is a permit
\* for it, or the task that pushed last is about to leave one.  A tool that is
\* dropped between the two leaves its own event, and no other, to the next one.
NoLostWakeup ==
  host = "desktop" /\ front = "waiting" /\ (\E e \in queue : e.kind # "Inner")
    => permit \/ \E p \in Producer : at[p] = "announce" /\ hand[p].kind # "Inner"

\* One of the events was in the queue before the other was made: one producer
\* enqueues its events in turn, a turn's first event is in before its calls run,
\* and its task joins the calls before it ends.
MadeInOrder(f, e) ==
  /\ f.turn = e.turn /\ f.timestamp < e.timestamp
  /\ \/ f.by = e.by
     \/ {f.by, e.by} \cap Cancellers = {} /\ (f.kind = "Started" \/ e.kind \in End)

\* The front end handles the events of each producer of a turn in the order they
\* were made, the turn's first event before those of its calls, and its end after
\* everything its task and its calls made, except that a more urgent event may
\* overtake.  (Text chunks are appended in order: lib.rs,
\* start_event_loop_with_transport.)  A canceller's event has no such place.
HandledInOrder ==
  [][\A e \in batch \ batch', f \in InFlight :
       MadeInOrder(f, e) => e.priority < f.priority]_vars

\* The end of a turn, once in the queue, reaches the desktop's subscribers and
\* its window: the scheduled jobs and the remote view depend on it.
EndReachesDesktop ==
  \A t \in Turn :
    host = "desktop" /\ (\E e \in queue : e.turn = t /\ e.kind \in End) ~> t \in learned

\* An ACP prompt, which reads the stream "without consuming" the queue
\* (queue.rs, subscribe), returns when its turn is over.
PromptReturns ==
  \A t \in Turn :
    host = "acp" /\ stage[t] = "over" /\ at[t] = "ready" ~> front = "returned"
=============================================================================
