-------------------------- MODULE DialogScheduler --------------------------
(***************************************************************************)
(* The dialog scheduler of BitFun's agent runtime together with the part   *)
(* of the coordinator, the session manager and the execution engine that   *)
(* it drives: coordination/scheduler.rs, the start / cancel / outcome      *)
(* paths of coordination/coordinator.rs, the session state of              *)
(* session/session_manager.rs, round_preempt.rs and the round loop of      *)
(* execution/execution_engine.rs.                                          *)
(*                                                                         *)
(* The processes are tokio tasks on a multi-threaded runtime:              *)
(*   - one caller of DialogScheduler::submit per external message;         *)
(*   - the outcome handler, a single loop over the outcome channel, which  *)
(*     itself calls submit and try_start_next_queued;                      *)
(*   - one execution task per started turn;                                *)
(*   - callers of the cancel operations and of submit_steering.            *)
(* No lock spans two accesses to the shared maps, so every access that     *)
(* another process can observe is an action.  Consecutive accesses to      *)
(* distinct maps with no decision between them are one action.             *)
(***************************************************************************)
EXTENDS DialogQueue, FiniteSets

CONSTANTS
  Session,          \* sessions loaded in the session manager
  External,         \* messages submitted from outside the scheduler
  Background,       \* ... those that arrive by deliver_background_result
  Steering,         \* steering messages (submit_steering)
  Canceller,        \* callers of a cancel operation
  Handler,          \* the outcome handler task
  None,             \* no turn, no message, no session
  Target,           \* [Msg -> Session] the session a message is for
  ReplyTo,          \* [Msg -> Msg] the auto-reply its reply route asks for, or None
  GoalMsg,          \* [Msg -> Msg] the goal continuation of its turn, or None
  Requester,        \* [Canceller -> Session], None for one that is only a user
  MaxQueueDepth,    \* MAX_QUEUE_DEPTH
  ChannelCapacity,  \* capacity of the outcome channel
  MaxStarts,        \* bound of the model: executions of one message
  Faults            \* what may go wrong, see FaultKind

\* start: validation or restore fails before the turn exists; persist: a save
\* of the session fails; context: the context messages cannot be read; panic:
\* the execution task panics; drain_timeout: wait_session_drained gives up;
\* round_limit: the engine stops at max_rounds or on a detected loop.
FaultKind ==
  {"start", "persist", "context", "panic", "drain_timeout", "round_limit"}

ASSUME SchedulerAssumption ==
  /\ External \subseteq Msg /\ Background \subseteq External
  /\ Target \in [Msg -> Session]
  /\ ReplyTo \in [Msg -> Msg \cup {None}]
  /\ GoalMsg \in [Msg -> Msg \cup {None}]
  /\ Requester \in [Canceller -> Session \cup {None}]
  /\ None \notin Msg \cup Session
  /\ Handler \notin Msg \cup Canceller \cup Steering
  /\ Msg \cap (Steering \cup Canceller) = {} /\ Steering \cap Canceller = {}
  /\ MaxQueueDepth \in Nat \ {0} /\ ChannelCapacity \in Nat \ {0}
  /\ MaxStarts \in Nat \ {0} /\ Faults \subseteq FaultKind

\* The handler submits replies and continuations without a turn id, so each gets a
\* fresh one: nobody else submits it, and it answers or continues one message.
ASSUME FreshAssumption ==
  /\ \A m \in Msg : ReplyTo[m] \notin External /\ GoalMsg[m] \notin External
  /\ \A m, n \in Msg :
       /\ ReplyTo[m] # None => ReplyTo[m] # GoalMsg[n] /\ (ReplyTo[m] = ReplyTo[n] => m = n)
       /\ GoalMsg[m] # None /\ GoalMsg[m] = GoalMsg[n] => m = n

Submitter == External \cup {Handler}
Caller == Submitter \cup Steering
Process == Caller \cup Canceller
Task == Msg \X (1 .. MaxStarts)       \* an execution of a message
Status == {"Completed", "Cancelled", "Failed"}
RoundInjection == [id : Steering \cup Background, turn : Msg \cup {None}]
Outcome == [session : Session, turn : Msg, status : Status]
ActiveTurn == [msg : Msg, turn : Msg]
NoEntry == [msg |-> None, turn |-> None]

SubmitPc == {"called", "decide", "check", "push", "reorder", "yield",
             "trynext", "dequeue", "snapshot", "drain", "begin", "persist",
             "spawn", "resolve", "insert", "failed", "inject"}
HandlerPc == {"recv", "clear", "goal"}
CancelPc == {"suppress", "find", "idle", "token"}
PcLabel == {"new", "done"} \cup SubmitPc \cup HandlerPc \cup CancelPc
Phase == {"none", "running", "ended", "settled", "notified", "dropped"}

\* The locals of a submitter, of the outcome handler and of a cancel, and the
\* record of an execution task.
CallLocals ==
  [msg : Msg \cup {None}, turn : Msg \cup {None},
   seen : {"none", "Idle", "Processing", "Error"}, queued : BOOLEAN]
JobLocals ==
  [stage : {"none", "reply", "goal", "dispatch"}, session : Session \cup {None},
   turn : Msg \cup {None}, status : Status \cup {"none"}, entry : ActiveTurn \cup {NoEntry}]
CancelLocals == [session : Session \cup {None}, key : Msg \cup {None}, victim : Msg \cup {None}]
TaskRecord == [phase : Phase, verdict : Status \cup {"none"}]
SubmitResult == {"none", "Started", "Queued", "Injected", "Err"}

VARIABLES
  \* session_manager, coordinator, execution engine
  state,       \* session.state: Idle, Error or Processing(current_turn_id)
  inflight,    \* coordinator.active_turns_per_session
  token,       \* round_executor.cancellation_tokens
  task,        \* the spawned execution tasks
  \* scheduler
  queues,      \* queues, per session
  active,      \* active_turns, per session
  suppressed,  \* suppressed_cancelled_replies
  outcomes,    \* the outcome channel
  yield,       \* round_yield_flags
  buffer,      \* round_injection_buffer, per session
  \* the processes' program counters and locals
  pc, call, job, cancel,
  \* history: what has happened to each message
  started,     \* executions begun
  submits,     \* times the outcome handler has submitted it
  cleared,     \* messages dropped by clear_queue
  result,      \* what submit returned
  drained      \* injections that left the buffer, with the turn that took them

engine == <<state, inflight, token, task>>
scheduler == <<queues, active, suppressed, outcomes>>
rounds == <<yield, buffer>>
locals == <<pc, call, job, cancel>>
history == <<started, submits, cleared, result, drained>>
vars == <<engine, scheduler, rounds, locals, history>>

Idle == [kind |-> "Idle", turn |-> None]
Error == [kind |-> "Error", turn |-> None]
Processing(m) == [kind |-> "Processing", turn |-> m]
SessionState == {Idle, Error} \cup {Processing(m) : m \in Msg}

\* The locals of a call: the message it is starting, the session state it read,
\* whether start_turn was reached through try_start_next_queued, the turn id.
Fresh(m) == [msg |-> m, seen |-> "none", queued |-> FALSE, turn |-> None]
NoJob == [stage |-> "none", session |-> None, turn |-> None,
          status |-> "none", entry |-> NoEntry]

Init ==
  /\ state = [s \in Session |-> Idle]
  /\ inflight = [s \in Session |-> 0]
  /\ token = [m \in Msg |-> "none"]
  /\ task = [t \in Task |-> [phase |-> "none", verdict |-> "none"]]
  /\ queues = [s \in Session |-> <<>>]
  /\ active = [s \in Session |-> NoEntry]
  /\ suppressed = {}
  /\ outcomes = <<>>
  /\ yield = [s \in Session |-> FALSE]
  /\ buffer = [s \in Session |-> {}]
  /\ pc = [p \in Process |-> IF p = Handler THEN "recv" ELSE "new"]
  /\ call = [p \in Caller |-> Fresh(IF p \in External THEN p ELSE None)]
  /\ job = NoJob
  /\ cancel = [c \in Canceller |-> [session |-> None, key |-> None, victim |-> None]]
  /\ started = [m \in Msg |-> 0]
  /\ submits = [m \in Msg |-> 0]
  /\ cleared = {}
  /\ result = [m \in External |-> "none"]
  /\ drained = {}

-----------------------------------------------------------------------------
(* Helpers.                                                                *)

At(p, label) == pc[p] = label
Goto(p, label) == pc' = [pc EXCEPT ![p] = label]

\* The session that a submitter works on.
SessionOf(a) ==
  IF a = Handler /\ call[a].msg = None THEN job.session ELSE Target[call[a].msg]

\* ActiveTurn::is_agent_session_request.
IsAgentSessionRequest(m) == Source[m] = "AgentSession" /\ ReplyTo[m] # None

\* Mutant: the buffer is drained without looking at the target.
EligibleForAnyTurn(s, turn) == buffer[s]

\* What drain_for_turn(session, turn) takes: everything aimed at that turn, and
\* everything aimed at whichever turn is running.
Eligible(s, turn) == {i \in buffer[s] : i.turn \in {turn, None}}

\* update_session_state_for_turn_if_processing and its synchronous twin
\* reset_session_state_if_processing, as the state they leave.
IfProcessing(s, turn, new) ==
  IF state[s] = Processing(turn) THEN [state EXCEPT ![s] = new] ELSE state

\* Where the outcome handler resumes when a call it made returns.
AfterGoal(status) == IF QueueAction(status) = "DispatchNext" THEN "trynext" ELSE "recv"
Resume == CASE job.stage = "reply" -> "clear"
            [] job.stage = "goal" -> AfterGoal(job.status)
            [] OTHER -> "recv"

\* submit (or the dispatch of the handler) returns outcome r to its caller.
Return(a, r) ==
  /\ Goto(a, IF a = Handler THEN Resume ELSE "done")
  /\ call' = [call EXCEPT ![a] = Fresh(IF a = Handler THEN None ELSE a)]
  /\ result' = IF a \in External THEN [result EXCEPT ![a] = r] ELSE result
  /\ job' = IF a # Handler \/ Resume = "clear" THEN job
            ELSE IF Resume = "recv" THEN NoJob ELSE [job EXCEPT !.stage = "dispatch"]

Clear(s) ==
  /\ queues' = [queues EXCEPT ![s] = <<>>]
  /\ cleared' = cleared \cup ToSet(queues[s])

-----------------------------------------------------------------------------
(* submit, enqueue and try_start_next_queued, run by caller a.             *)

\* deliver_background_result reads the session state once: a running turn gets
\* an injection, anything else a submit.
DeliverBackground(a) ==
  /\ a \in Background /\ At(a, "new")
  /\ Goto(a, IF state[Target[a]].kind = "Processing" THEN "inject" ELSE "called")
  /\ UNCHANGED <<engine, scheduler, rounds, call, job, cancel, history>>

InjectBackground(a) ==
  /\ At(a, "inject") /\ a \in Background
  /\ buffer' = [buffer EXCEPT ![Target[a]] = @ \cup {[id |-> a, turn |-> None]}]
  /\ Return(a, "Injected")
  /\ UNCHANGED <<engine, scheduler, yield, cancel, started, submits, cleared, drained>>

\* submit_queued_turn reads the session state ...
Submit(a) ==
  /\ At(a, "called") \/ (At(a, "new") /\ a \in External \ Background)
  /\ call' = [call EXCEPT ![a].seen = state[SessionOf(a)].kind]
  /\ Goto(a, "decide")
  /\ UNCHANGED <<engine, scheduler, rounds, job, cancel, history>>

\* ... and, separately, whether the queue has items; the action follows from both.
SubmitDecide(a) ==
  LET s == SessionOf(a)
      action == SubmitQueueAction(call[a].seen, queues[s] # <<>>)
  IN  /\ At(a, "decide")
      /\ Goto(a, IF action \in {"StartImmediately", "ClearQueueAndStartImmediately"}
                 THEN "snapshot" ELSE "check")
      /\ IF action = "ClearQueueAndStartImmediately"
         THEN Clear(s) ELSE UNCHANGED <<queues, cleared>>
      /\ UNCHANGED <<engine, active, suppressed, outcomes, rounds, call, job, cancel,
                     started, submits, result, drained>>

EnqueueCheck(a) ==
  /\ At(a, "check")
  /\ IF Len(queues[SessionOf(a)]) >= MaxQueueDepth
     THEN Return(a, "Err")
     ELSE Goto(a, "push") /\ UNCHANGED <<call, job, result>>
  /\ UNCHANGED <<engine, scheduler, rounds, cancel, started, submits, cleared, drained>>

EnqueuePush(a) ==
  /\ At(a, "push")
  /\ queues' = [queues EXCEPT ![SessionOf(a)] = Append(@, call[a].msg)]
  /\ Goto(a, "reorder")
  /\ UNCHANGED <<engine, active, suppressed, outcomes, rounds, call, job, cancel, history>>

EnqueueReorder(a) ==
  /\ At(a, "reorder")
  /\ queues' = [queues EXCEPT ![SessionOf(a)] = Reordered(@)]
  /\ Goto(a, IF call[a].seen = "Processing" THEN "yield" ELSE "trynext")
  /\ UNCHANGED <<engine, active, suppressed, outcomes, rounds, call, job, cancel, history>>

\* EnqueueForActiveTurn, after the last submitted agent type has been recorded.
RequestYield(a) ==
  /\ At(a, "yield")
  /\ yield' = [yield EXCEPT ![SessionOf(a)] = @ \/ MayPreempt(call[a].msg)]
  /\ Return(a, "Queued")
  /\ UNCHANGED <<engine, scheduler, buffer, cancel, started, submits, cleared, drained>>

TryNextCheck(a) ==
  /\ At(a, "trynext")
  /\ IF state[SessionOf(a)].kind = "Processing"
     THEN Return(a, "Queued")
     ELSE Goto(a, "dequeue") /\ UNCHANGED <<call, job, result>>
  /\ UNCHANGED <<engine, scheduler, rounds, cancel, started, submits, cleared, drained>>

\* Mutant: the next message is looked at but left in the queue.
DequeuePeeks(a) ==
  /\ At(a, "dequeue") /\ queues[SessionOf(a)] # <<>>
  /\ call' = [call EXCEPT ![a].msg = Head(queues[SessionOf(a)]), ![a].queued = TRUE]
  /\ Goto(a, "snapshot")
  /\ UNCHANGED <<engine, scheduler, rounds, job, cancel, history>>

DequeueNext(a) ==
  LET s == SessionOf(a)
  IN  /\ At(a, "dequeue")
      /\ IF queues[s] = <<>>
         THEN Return(a, "Queued") /\ UNCHANGED queues
         ELSE /\ queues' = [queues EXCEPT ![s] = Tail(@)]
              /\ call' = [call EXCEPT ![a].msg = Head(queues[s]), ![a].queued = TRUE]
              /\ Goto(a, "snapshot")
              /\ UNCHANGED <<job, result>>
      /\ UNCHANGED <<engine, active, suppressed, outcomes, rounds, cancel,
                     started, submits, cleared, drained>>

-----------------------------------------------------------------------------
(* start_turn and the coordinator's start_dialog_turn_internal.            *)

\* The session is cloned first: the state check further down uses this clone.
StartSnapshot(a) ==
  /\ At(a, "snapshot")
  /\ Goto(a, IF state[SessionOf(a)].kind = "Processing" THEN "failed" ELSE "drain")
  /\ UNCHANGED <<engine, scheduler, rounds, call, job, cancel, history>>

\* wait_session_drained(800 ms), whose result is only logged.
WaitSessionDrained(a) ==
  /\ At(a, "drain")
  /\ inflight[SessionOf(a)] = 0 \/ "drain_timeout" \in Faults
  /\ Goto(a, "begin")
  /\ UNCHANGED <<engine, scheduler, rounds, call, job, cancel, history>>

StartAborted(a) ==
  /\ At(a, "begin") /\ "start" \in Faults
  /\ Goto(a, "failed")
  /\ UNCHANGED <<engine, scheduler, rounds, call, job, cancel, history>>

\* start_persisted_turn: the turn becomes the session's current one in memory.
StartPersistedTurn(a) ==
  LET m == call[a].msg
  IN  /\ At(a, "begin")
      /\ started[m] < MaxStarts
      /\ state' = [state EXCEPT ![Target[m]] = Processing(m)]
      /\ started' = [started EXCEPT ![m] = @ + 1]
      /\ Goto(a, "persist")
      /\ UNCHANGED <<inflight, token, task, scheduler, rounds, call, job, cancel,
                     submits, cleared, result, drained>>

PersistFails(a) ==
  /\ At(a, "persist") /\ "persist" \in Faults
  /\ Goto(a, "failed")
  /\ UNCHANGED <<engine, scheduler, rounds, call, job, cancel, history>>

\* ActiveTurnRegistration and register_cancel_token, once the saves are done.
RegisterTurn(a) ==
  /\ At(a, "persist")
  /\ inflight' = [inflight EXCEPT ![SessionOf(a)] = @ + 1]
  /\ token' = [token EXCEPT ![call[a].msg] = "live"]
  /\ Goto(a, "spawn")
  /\ UNCHANGED <<state, task, scheduler, rounds, call, job, cancel, history>>

\* Mutant: the registration is disarmed before the context is read.
ContextFailsDisarmed(a) ==
  /\ At(a, "spawn") /\ "context" \in Faults
  /\ token' = [token EXCEPT ![call[a].msg] = "none"]
  /\ Goto(a, "failed")
  /\ UNCHANGED <<state, inflight, task, scheduler, rounds, call, job, cancel, history>>

\* get_context_messages fails: the registration is undone, the state is not.
ContextFails(a) ==
  /\ At(a, "spawn") /\ "context" \in Faults
  /\ inflight' = [inflight EXCEPT ![SessionOf(a)] = @ - 1]
  /\ token' = [token EXCEPT ![call[a].msg] = "none"]
  /\ Goto(a, "failed")
  /\ UNCHANGED <<state, task, scheduler, rounds, call, job, cancel, history>>

SpawnTurn(a) ==
  LET m == call[a].msg
  IN  /\ At(a, "spawn")
      /\ task' = [task EXCEPT ![<<m, started[m]>>].phase = "running"]
      /\ Goto(a, "resolve")
      /\ UNCHANGED <<state, inflight, token, scheduler, rounds, call, job, cancel, history>>

\* Back in start_turn: the turn id is read from the session state.
ResolveTurn(a) ==
  LET now == state[SessionOf(a)]
  IN  /\ At(a, "resolve")
      /\ IF now.kind = "Processing"
         THEN call' = [call EXCEPT ![a].turn = now.turn] /\ Goto(a, "insert")
         ELSE Goto(a, "failed") /\ UNCHANGED call
      /\ UNCHANGED <<engine, scheduler, rounds, job, cancel, history>>

InsertActiveTurn(a) ==
  LET entry == [msg |-> call[a].msg, turn |-> call[a].turn]
  IN  /\ At(a, "insert")
      /\ active' = [active EXCEPT ![SessionOf(a)] = entry]
      /\ Return(a, IF call[a].queued /\ entry.turn # a THEN "Queued" ELSE "Started")
      /\ UNCHANGED <<engine, queues, suppressed, outcomes, rounds, cancel,
                     started, submits, cleared, drained>>

\* Mutant: the message of a failed start is not put back.
StartFailedDrops(a) ==
  /\ At(a, "failed")
  /\ Return(a, IF call[a].queued THEN "Queued" ELSE "Err")
  /\ UNCHANGED <<engine, scheduler, rounds, cancel, started, submits, cleared, drained>>

\* An error of start_turn: try_start_next_queued puts the message back in front.
StartFailed(a) ==
  /\ At(a, "failed")
  /\ queues' = IF call[a].queued
               THEN [queues EXCEPT ![SessionOf(a)] = <<call[a].msg>> \o @]
               ELSE queues
  /\ Return(a, "Err")
  /\ UNCHANGED <<engine, active, suppressed, outcomes, rounds, cancel,
                 started, submits, cleared, drained>>

-----------------------------------------------------------------------------
(* run_outcome_handler.                                                    *)

HandlerCalls(m, stage, entry, o) ==
  /\ call' = [call EXCEPT ![Handler] = Fresh(m)]
  /\ job' = [stage |-> stage, session |-> o.session, turn |-> o.turn,
             status |-> o.status, entry |-> entry]

\* Mutant: the active turn stays until the next one replaces it.
ReceiveOutcomeKeepsActive ==
  LET o == Head(outcomes)
      s == o.session
      entry == active[s]
      skip == SkipReply(o.status, <<s, o.turn>> \in suppressed)
      forward == entry # NoEntry /\ IsAgentSessionRequest(entry.msg) /\ ~skip
  IN  /\ At(Handler, "recv") /\ outcomes # <<>>
      /\ outcomes' = Tail(outcomes)
      /\ yield' = [yield EXCEPT ![s] = FALSE]
      /\ suppressed' = suppressed \ {<<s, o.turn>>}
      /\ IF forward
         THEN /\ HandlerCalls(ReplyTo[entry.msg], "reply", entry, o)
              /\ submits' = [submits EXCEPT ![ReplyTo[entry.msg]] = @ + 1]
              /\ Goto(Handler, "called")
         ELSE /\ HandlerCalls(None, "none", entry, o)
              /\ Goto(Handler, "clear")
              /\ UNCHANGED submits
      /\ UNCHANGED <<engine, queues, active, buffer, cancel, started, cleared, result, drained>>

\* One outcome is taken; the session's active turn is removed whichever turn
\* the outcome is about, and an agent-session request gets its auto-reply.
ReceiveOutcome ==
  LET o == Head(outcomes)
      s == o.session
      entry == active[s]
      skip == SkipReply(o.status, <<s, o.turn>> \in suppressed)
      forward == entry # NoEntry /\ IsAgentSessionRequest(entry.msg) /\ ~skip
  IN  /\ At(Handler, "recv") /\ outcomes # <<>>
      /\ outcomes' = Tail(outcomes)
      /\ yield' = [yield EXCEPT ![s] = FALSE]
      /\ buffer' = [buffer EXCEPT ![s] = @ \ Eligible(s, o.turn)]
      /\ drained' = drained \cup
           {[id |-> i.id, by |-> "handler", turn |-> o.turn] : i \in Eligible(s, o.turn)}
      /\ suppressed' = suppressed \ {<<s, o.turn>>}
      /\ active' = [active EXCEPT ![s] = NoEntry]
      /\ IF forward
         THEN /\ HandlerCalls(ReplyTo[entry.msg], "reply", entry, o)
              /\ submits' = [submits EXCEPT ![ReplyTo[entry.msg]] = @ + 1]
              /\ Goto(Handler, "called")
         ELSE /\ HandlerCalls(None, "none", entry, o)
              /\ Goto(Handler, "clear")
              /\ UNCHANGED submits
      /\ UNCHANGED <<engine, queues, cancel, started, cleared, result>>

\* A failed turn clears the queue of its session.
ClearAfterFailure ==
  /\ At(Handler, "clear")
  /\ IF QueueAction(job.status) = "ClearQueue"
     THEN Clear(job.session) ELSE UNCHANGED <<queues, cleared>>
  /\ Goto(Handler, "goal")
  /\ UNCHANGED <<engine, active, suppressed, outcomes, rounds, call, job, cancel,
                 started, submits, result, drained>>

\* prepare_goal_continuation_after_turn asks a model whether the goal is met;
\* if it is not, the continuation is submitted.  Only a completed or cancelled
\* turn then dispatches the next queued message.
GoalContinuation ==
  LET m == IF job.entry = NoEntry THEN None ELSE GoalMsg[job.entry.msg]
  IN  /\ At(Handler, "goal")
      /\ \/ /\ m # None
            /\ call' = [call EXCEPT ![Handler] = Fresh(m)]
            /\ job' = [job EXCEPT !.stage = "goal"]
            /\ submits' = [submits EXCEPT ![m] = @ + 1]
            /\ Goto(Handler, "called")
         \/ /\ job' = IF AfterGoal(job.status) = "recv" THEN NoJob
                      ELSE [job EXCEPT !.stage = "dispatch"]
            /\ Goto(Handler, AfterGoal(job.status))
            /\ UNCHANGED <<call, submits>>
      /\ UNCHANGED <<engine, scheduler, rounds, cancel, started, cleared, result, drained>>

-----------------------------------------------------------------------------
(* The execution task t = <<m, k>> of a turn.                              *)

InPhase(t, phase) == task[t].phase = phase

\* execute_dialog_turn returns; the turn's cancellation token is removed.
EngineReturns(t, verdict) ==
  /\ InPhase(t, "running")
  /\ task' = [task EXCEPT ![t] = [phase |-> "ended", verdict |-> verdict]]
  /\ token' = [token EXCEPT ![t[1]] = "none"]
  /\ UNCHANGED <<state, inflight, scheduler, buffer, locals, history>>

\* Round boundary: the pending injections are taken and the turn goes on.
EngineInject(t) ==
  LET s == Target[t[1]]
  IN  /\ InPhase(t, "running")
      /\ Eligible(s, t[1]) # {}
      /\ buffer' = [buffer EXCEPT ![s] = @ \ Eligible(s, t[1])]
      /\ drained' = drained \cup
           {[id |-> i.id, by |-> "engine", turn |-> t[1]] : i \in Eligible(s, t[1])}
      /\ UNCHANGED <<engine, scheduler, yield, locals, started, submits, cleared, result>>

\* Round boundary with a final answer and nothing to inject.
EngineAnswers(t) ==
  /\ Eligible(Target[t[1]], t[1]) = {}
  /\ EngineReturns(t, "Completed")
  /\ UNCHANGED yield

\* max_rounds or a detected loop, before the round boundary looks for injections.
EngineStops(t) ==
  /\ "round_limit" \in Faults
  /\ EngineReturns(t, "Completed")
  /\ UNCHANGED yield

\* A queued user message: the turn yields; its finalize round may still fail.
EngineYields(t) ==
  /\ yield[Target[t[1]]]
  /\ yield' = [yield EXCEPT ![Target[t[1]]] = FALSE]
  /\ \E verdict \in {"Completed", "Failed"} : EngineReturns(t, verdict)

EngineCancelled(t) ==
  /\ token[t[1]] = "cancelled"
  /\ EngineReturns(t, "Cancelled")
  /\ UNCHANGED yield

EngineFails(t) ==
  /\ EngineReturns(t, "Failed")
  /\ UNCHANGED yield

\* Mutant: a panicked task still reports an outcome.
EnginePanicsAndReports(t) ==
  /\ "panic" \in Faults /\ InPhase(t, "running")
  /\ task' = [task EXCEPT ![t].phase = "settled"]
  /\ UNCHANGED <<state, inflight, token, scheduler, rounds, locals, history>>

\* A panic unwinds the task: nothing is persisted or sent, only the guard drops.
EnginePanics(t) ==
  /\ "panic" \in Faults /\ InPhase(t, "running")
  /\ task' = [task EXCEPT ![t].phase = "notified"]
  /\ UNCHANGED <<state, inflight, token, scheduler, rounds, locals, history>>

\* persist_completed / cancelled / failed_dialog_turn: the session leaves
\* Processing if this turn still owns it ...
TurnSettles(t) ==
  LET s == Target[t[1]]
      new == IF task[t].verdict = "Failed" THEN Error ELSE Idle
  IN  /\ InPhase(t, "ended")
      /\ state' = IfProcessing(s, t[1], new)
      /\ task' = [task EXCEPT ![t].phase = "settled"]
      /\ UNCHANGED <<inflight, token, scheduler, rounds, locals, history>>

\* ... and, once that is saved, the scheduler is told with try_send.
TurnNotifies(t) ==
  LET o == [session |-> Target[t[1]], turn |-> t[1], status |-> task[t].verdict]
  IN  /\ InPhase(t, "settled")
      /\ outcomes' = IF Len(outcomes) < ChannelCapacity
                     THEN Append(outcomes, o) ELSE outcomes
      /\ task' = [task EXCEPT ![t].phase = "notified"]
      /\ UNCHANGED <<state, inflight, token, queues, active, suppressed, rounds,
                     locals, history>>

\* Mutant: the guard only counts.
GuardDropsCountOnly(t) ==
  /\ InPhase(t, "notified")
  /\ inflight' = [inflight EXCEPT ![Target[t[1]]] = @ - 1]
  /\ task' = [task EXCEPT ![t].phase = "dropped"]
  /\ UNCHANGED <<state, token, scheduler, rounds, locals, history>>

\* Mutant: the guard returns early when the turn no longer owns the session.
GuardDropsOwnerOnly(t) ==
  LET owner == state[Target[t[1]]] = Processing(t[1])
  IN  /\ InPhase(t, "notified")
      /\ inflight' = [inflight EXCEPT ![Target[t[1]]] = IF owner THEN @ - 1 ELSE @]
      /\ state' = IfProcessing(Target[t[1]], t[1], Idle)
      /\ task' = [task EXCEPT ![t].phase = "dropped"]
      /\ UNCHANGED <<token, scheduler, rounds, locals, history>>

\* SessionExecutionGuard::drop.
GuardDrops(t) ==
  /\ InPhase(t, "notified")
  /\ inflight' = [inflight EXCEPT ![Target[t[1]]] = @ - 1]
  /\ state' = IfProcessing(Target[t[1]], t[1], Idle)
  /\ task' = [task EXCEPT ![t].phase = "dropped"]
  /\ UNCHANGED <<token, scheduler, rounds, locals, history>>

-----------------------------------------------------------------------------
(* Cancelling, and steering.                                               *)

CancelUnchanged == UNCHANGED <<queues, active, outcomes, rounds, call, job, history>>

\* cancel_active_turn_for_session_from_requester: a requester cancelling its own
\* request remembers the turn whose auto-reply it does not want.
CancelBegin(c) ==
  /\ At(c, "new") /\ Requester[c] # None
  /\ \E s \in Session :
       LET entry == active[s]
           own == /\ entry # NoEntry
                  /\ IsAgentSessionRequest(entry.msg)
                  /\ Target[ReplyTo[entry.msg]] = Requester[c]
       IN  /\ cancel' = [cancel EXCEPT ![c] =
                [session |-> s, key |-> IF own THEN entry.turn ELSE None, victim |-> None]]
           /\ Goto(c, IF own THEN "suppress" ELSE "find")
  /\ CancelUnchanged /\ UNCHANGED <<engine, suppressed>>

SuppressReply(c) ==
  /\ At(c, "suppress")
  /\ suppressed' = suppressed \cup {<<cancel[c].session, cancel[c].key>>}
  /\ Goto(c, "find")
  /\ CancelUnchanged /\ UNCHANGED <<engine, cancel>>

\* cancel_active_turn_for_session: nothing to cancel unless a turn is current.
CancelFind(c) ==
  LET now == state[cancel[c].session]
  IN  /\ At(c, "find")
      /\ IF now.kind = "Processing"
         THEN /\ cancel' = [cancel EXCEPT ![c].victim = now.turn]
              /\ Goto(c, "idle")
              /\ UNCHANGED suppressed
         ELSE /\ suppressed' = suppressed \ {<<cancel[c].session, cancel[c].key>>}
              /\ Goto(c, "done")
              /\ UNCHANGED cancel
      /\ CancelUnchanged /\ UNCHANGED engine

\* A user's cancel names a turn it has seen starting, possibly long ago.
UserCancel(c) ==
  /\ At(c, "new")
  /\ \E m \in Msg :
       /\ started[m] > 0
       /\ cancel' = [cancel EXCEPT ![c] =
            [session |-> Target[m], key |-> None, victim |-> m]]
  /\ Goto(c, "idle")
  /\ CancelUnchanged /\ UNCHANGED <<engine, suppressed>>

\* Mutant: a cancel sets the session Idle whichever turn it is processing.
CancelSetsAnyIdle(c) ==
  /\ At(c, "idle")
  /\ state' = [state EXCEPT ![cancel[c].session] = Idle]
  /\ Goto(c, "token")
  /\ CancelUnchanged /\ UNCHANGED <<inflight, token, task, suppressed, cancel>>

\* cancel_dialog_turn, step 1; saving the new state may fail and end the call.
CancelSetsIdle(c) ==
  LET s == cancel[c].session
  IN  /\ At(c, "idle")
      /\ state' = IfProcessing(s, cancel[c].victim, Idle)
      /\ \/ Goto(c, "token") /\ UNCHANGED suppressed
         \/ /\ "persist" \in Faults /\ state' # state
            /\ suppressed' = suppressed \ {<<s, cancel[c].key>>}
            /\ Goto(c, "done")
      /\ CancelUnchanged /\ UNCHANGED <<inflight, token, task, cancel>>

\* cancel_dialog_turn, step 3: the token, if the turn has one.
CancelTriggersToken(c) ==
  LET m == cancel[c].victim
  IN  /\ At(c, "token")
      /\ token' = [token EXCEPT ![m] = IF @ = "live" THEN "cancelled" ELSE @]
      /\ Goto(c, "done")
      /\ CancelUnchanged /\ UNCHANGED <<state, inflight, task, suppressed, cancel>>

\* submit_steering: accepted only for the turn the session is processing.
SteerChecks(i) ==
  /\ At(i, "new")
  /\ \E m \in Msg :
       /\ started[m] > 0
       /\ call' = [call EXCEPT ![i].turn = m]
       /\ Goto(i, IF state[Target[m]] = Processing(m) THEN "inject" ELSE "done")
  /\ UNCHANGED <<engine, scheduler, rounds, job, cancel, history>>

SteerPushes(i) ==
  LET m == call[i].turn
  IN  /\ At(i, "inject") /\ i \in Steering
      /\ buffer' = [buffer EXCEPT ![Target[m]] = @ \cup {[id |-> i, turn |-> m]}]
      /\ Goto(i, "done")
      /\ UNCHANGED <<engine, scheduler, yield, call, job, cancel, history>>

-----------------------------------------------------------------------------
(* A caller decides on its own when to call; from then on it runs.         *)

Calls(a) == DeliverBackground(a) \/ (At(a, "new") /\ Submit(a))

SubmitStep(a) ==
  \/ InjectBackground(a) \/ (At(a, "called") /\ Submit(a)) \/ SubmitDecide(a)
  \/ EnqueueCheck(a) \/ EnqueuePush(a) \/ EnqueueReorder(a) \/ RequestYield(a)
  \/ TryNextCheck(a) \/ DequeueNext(a)

StartStep(a) ==
  \/ StartSnapshot(a) \/ WaitSessionDrained(a) \/ StartAborted(a)
  \/ StartPersistedTurn(a) \/ PersistFails(a) \/ RegisterTurn(a)
  \/ ContextFails(a) \/ SpawnTurn(a) \/ ResolveTurn(a)
  \/ InsertActiveTurn(a) \/ StartFailed(a)

HandlerStep == ReceiveOutcome \/ ClearAfterFailure \/ GoalContinuation

EngineEnds(t) ==
  \/ EngineAnswers(t) \/ EngineStops(t) \/ EngineYields(t)
  \/ EngineCancelled(t) \/ EngineFails(t) \/ EnginePanics(t)

TaskStep(t) ==
  EngineInject(t) \/ EngineEnds(t) \/ TurnSettles(t) \/ TurnNotifies(t) \/ GuardDrops(t)

CancelStep(c) ==
  SuppressReply(c) \/ CancelFind(c) \/ CancelSetsIdle(c) \/ CancelTriggersToken(c)

Next ==
  \/ \E a \in External : Calls(a)
  \/ \E a \in Submitter : SubmitStep(a) \/ StartStep(a)
  \/ HandlerStep
  \/ \E t \in Task : TaskStep(t)
  \/ \E c \in Canceller : CancelBegin(c) \/ UserCancel(c) \/ CancelStep(c)
  \/ \E i \in Steering : SteerChecks(i) \/ SteerPushes(i)

Spec == Init /\ [][Next]_vars

\* tokio polls every task that can make progress, and a model call ends (the
\* client has timeouts and the round loop a limit); callers owe nothing.
Fairness ==
  /\ \A a \in Submitter : WF_vars(SubmitStep(a) \/ StartStep(a))
  /\ WF_vars(HandlerStep)
  /\ \A t \in Task : WF_vars(TaskStep(t)) /\ WF_vars(EngineEnds(t))
  /\ \A c \in Canceller : WF_vars(CancelStep(c))

FairSpec == Spec /\ Fairness

-----------------------------------------------------------------------------
(* Properties.                                                             *)

TypeOK ==
  /\ state \in [Session -> SessionState]
  /\ inflight \in [Session -> Int]
  /\ token \in [Msg -> {"none", "live", "cancelled"}]
  /\ task \in [Task -> TaskRecord]
  /\ queues \in [Session -> Seq(Msg)]
  /\ active \in [Session -> ActiveTurn \cup {NoEntry}]
  /\ suppressed \subseteq Session \X Msg
  /\ outcomes \in Seq(Outcome)
  /\ yield \in [Session -> BOOLEAN]
  /\ buffer \in [Session -> SUBSET RoundInjection]
  /\ pc \in [Process -> PcLabel]
  /\ call \in [Caller -> CallLocals]
  /\ job \in JobLocals
  /\ cancel \in [Canceller -> CancelLocals]
  /\ started \in [Msg -> 0 .. MaxStarts]
  /\ submits \in [Msg -> Nat]
  /\ cleared \subseteq Msg
  /\ result \in [External -> SubmitResult]
  /\ drained \subseteq [id : Steering \cup Background, by : {"engine", "handler"},
                        turn : Msg]

\* The callers between Processing and the spawn, and the tasks not yet settled.
Starting(m) == {a \in Submitter : call[a].msg = m /\ pc[a] \in {"persist", "spawn"}}
Running(m) ==
  {k \in 1 .. MaxStarts : task[<<m, k>>].phase \in {"running", "ended", "notified"}}

\* A session never stays in Processing for a turn nobody executes: some caller
\* is still starting that turn, or a task of it has yet to settle or drop.
ProcessingIsOwned ==
  \A s \in Session, m \in Msg :
    state[s] = Processing(m) => Starting(m) # {} \/ Running(m) # {}

\* active_turns_per_session counts exactly the registered starts and the tasks
\* whose guard has not dropped, on every error path and after a panic.
Registered(s) ==
  {a \in Submitter : pc[a] = "spawn" /\ SessionOf(a) = s}
Undropped(s) ==
  {t \in Task : Target[t[1]] = s
                /\ task[t].phase \in {"running", "ended", "settled", "notified"}}
InflightIsExact ==
  \A s \in Session :
    inflight[s] = Cardinality(Registered(s)) + Cardinality(Undropped(s))

\* A message submit has answered with Queued is never lost without a trace: it
\* waits in the queue, a dispatcher holds it, it ran, or a clear_queue dropped it.
Held(m) == {a \in Submitter : call[a].msg = m /\ call[a].queued}
AcceptedIsAccounted ==
  \A m \in External :
    result[m] = "Queued" =>
      \/ m \in ToSet(queues[Target[m]]) \/ Held(m) # {}
      \/ started[m] > 0 \/ m \in cleared

\* Through push, reorder, dequeue and put-back, by several dispatchers at once, a
\* message is never in two places: once in the queue or with one dispatcher.
Occurrences(m) == {i \in DOMAIN queues[Target[m]] : queues[Target[m]][i] = m}
NeverQueuedTwice ==
  \A m \in External : Cardinality(Occurrences(m)) + Cardinality(Held(m)) <= 1

\* DialogScheduler implements MessageLifecycle: a message that is in the queue leaves
\* it only for one dispatcher, which starts it or puts it back, or with a clear;
\* no failed start, late outcome or concurrent submit makes it vanish
\* (scheduler.rs, try_start_next_queued and enqueue).
InStart == {"persist", "spawn", "resolve", "insert"}
Submitting == {"new", "called", "inject", "decide", "check", "push", "snapshot", "drain", "begin",
               "failed"}
Place(m) ==
  IF m \in ToSet(queues[Target[m]]) THEN "queue"
  ELSE IF Held(m) # {}
    THEN IF \E a \in Held(m) : pc[a] \in InStart THEN "dispatching" ELSE "dispatcher"
  ELSE IF m \in cleared THEN "dropped"
  ELSE IF call[m].msg # m THEN "over"
  ELSE IF pc[m] \in InStart THEN "starting"
  ELSE IF pc[m] \in Submitting THEN "caller" ELSE "over"
Lifecycle == INSTANCE MessageLifecycle WITH
  Message <- External, place <- [m \in External |-> Place(m)]
MessagesFollowLifecycle == Lifecycle!Spec

\* However outcomes and starts interleave, and although a message put back may run
\* again, a request is answered and a goal continued at most once, and only if the
\* message has run.
RepliesBounded ==
  \A m \in Msg : \A c \in {ReplyTo[m], GoalMsg[m]} \ {None} :
    submits[c] <= 1 /\ (submits[c] > 0 => started[m] > 0)

\* A steering message reaches the model only inside the turn it was aimed at,
\* and the handler discards it only with the outcome of that turn.
SteeringStaysOnTarget ==
  \A d \in drained : d.id \in Steering => d.turn = call[d.id].turn

\* Only a turn's own task, or a cancel aimed at that turn, takes a session out
\* of Processing: a delayed cancel and a late task never clear a newer turn.
OnlyOwnerLeavesProcessing ==
  [][\A s \in Session, m \in Msg :
       state[s] = Processing(m) /\ state'[s] \in {Idle, Error} =>
         \/ \E k \in 1 .. MaxStarts : task'[<<m, k>>] # task[<<m, k>>]
         \/ \E c \in Canceller : cancel[c].victim = m /\ pc[c] # pc'[c]]_vars

\* "Synchronously reset to Idle so the user is never stuck": every turn leaves
\* Processing, also when its task panics.
ProcessingEnds ==
  \A m \in Msg : state[Target[m]] = Processing(m) ~> state[Target[m]] # Processing(m)

\* The outcome handler always comes back for the next outcome: although it waits
\* for a session to drain while starting turns, no task ever waits for it.
BoundReached(a) == At(a, "begin") /\ started[call[a].msg] = MaxStarts
HandlerReturns ==
  ~At(Handler, "recv") ~> (At(Handler, "recv") \/ BoundReached(Handler))

-----------------------------------------------------------------------------
(* What the code says of itself and does not do (see the README).          *)

\* "If Processing, ... reject new dialog" (coordinator.rs): a turn in progress is
\* never replaced as the session's current turn.
NoTurnIsReplaced ==
  [][\A s \in Session, m, n \in Msg :
       state[s] = Processing(m) /\ state'[s] = Processing(n) => m = n]_vars

\* "automatically dispatches queued messages when the target session becomes
\* idle" (scheduler.rs): no message waits for ever in the queue of an idle session.
WaitsWhileIdle(m) == m \in ToSet(queues[Target[m]]) /\ state[Target[m]] = Idle
QueuedIsDispatched ==
  \A m \in External :
    WaitsWhileIdle(m) ~> (~WaitsWhileIdle(m) \/ \E a \in Submitter : BoundReached(a))
=============================================================================
