# BitFun's agent runtime in TLA+

BitFun runs conversations with model-driven agents. Its Rust core
(`src/src/crates/core/src/agentic`, below `agentic/`) keeps the sessions, queues the
messages for them, executes one *turn* per message and reports the outcome. This
directory models that core: TLA+ modules translated from the source, TLC
configurations that check them on small instances, and theorems that TLAPS
checks for all instances.

Paths below are relative to `src/src/crates/core/src/`, unless they start with `src/`.

## 1. The system

### 1.1 Components

| Component | Source | State it keeps | Operations | Status |
|---|---|---|---|---|
| Dialog scheduler | `agentic/coordination/scheduler.rs`, `turn_outcome.rs` | per-session queue, active turn per session, suppressed replies, outcome channel | `submit`, `enqueue`, `try_start_next_queued`, `start_turn`, `run_outcome_handler`, cancel from a requester, `submit_steering`, `deliver_background_result` | modelled |
| Round preemption and injection | `agentic/round_preempt.rs` | yield flag and injection buffer per session | `request_yield`, `clear`, `push`, `drain_for_turn` | modelled |
| Dialog policy contract | `src/src/crates/runtime-ports/src/lib.rs` | none | queue action, preemption, priorities, reply suppression | partly |
| Coordinator: turns | `agentic/coordination/coordinator.rs` | `active_turns_per_session`, execution guards | `start_dialog_turn_internal`, `persist_*_dialog_turn`, `wait_session_drained`, `cancel_dialog_turn` | partly |
| Session manager | `agentic/session/session_manager.rs` | sessions, their state, contexts, persisted turns | `start_persisted_turn`, conditional state updates, create / restore / delete / evict | partly |
| Execution engine | `agentic/execution/execution_engine.rs` | the round loop's locals | rounds, injections, yield, cancellation, limits, compression | partly |
| Round executor | `agentic/execution/round_executor.rs` | cancellation tokens | streaming, retries, tool calls | tokens only |
| Tool pipeline | `agentic/tools/pipeline/` | tool tasks, tokens, confirmation channels | batches, confirm / reject, cancel, retry | partly (clean-up at the end of a session is not) |
| Event queue and router | `agentic/events/`, the desktop's loop, `bitfun exec`, ACP prompts | bounded priority queue, one wake-up permit, broadcast stream | `enqueue`, `wait_for_events`, `dequeue_batch`, `subscribe`, routing | modelled |
| Cron | `service/cron/` | jobs in memory and in a file, their active turn, pending triggers | create / update / delete, `run_job_now`, `run_loop`, `process_job`, turn events, restart | modelled |
| Subagents and background tasks | `coordinator.rs`, `agentic/tools/tool_context_runtime.rs` | limiters and their permits, active executions, timeout channels | acquire, launch, wait, time out, cancel, stop with the parent, release | partly |
| Deep review | `agentic/deep_review/` | reviewer queue, adaptive limits | queue, adapt, retry | planned |
| Goal mode | `agentic/goal_mode/` | thread goal, continuation count | verify, continue | the scheduler's view only |
| Persistence, prompts, tool implementations, AI adapters, terminal, SSH, LSP, MCP, relay, front ends, mini apps | see `PROJECT.json` | files, processes, connections, screens | I/O and text | not modelled |

A caller (desktop, CLI, remote, bot, cron, an agent's tool) calls
`DialogScheduler::submit`. The scheduler either starts a turn through the
coordinator or puts the message in the session's queue. `start_dialog_turn`
makes the session `Processing(turn)`, registers the turn in the coordinator's
counter and the round executor's tokens, and spawns a tokio task that runs the
round loop. At round boundaries the engine takes injections and looks at the
yield flag, both written by the scheduler. When the loop ends the task moves the
session out of `Processing`, `try_send`s a `TurnOutcome` to the scheduler, and
its guard drops. The outcome handler is one loop: it takes an outcome, clears
the round state, removes the active turn, sends the auto-reply of an
agent-session request (itself a `submit`, to the requesting session), asks
whether a goal wants a continuation (another `submit`), and dispatches the next
queued message, which awaits the same start path as any caller.

Inside a model round the engine awaits `ToolPipeline::execute_tools`. It creates a
task per call, cuts the calls into batches (neighbouring concurrency-safe calls are
joined, every other call is alone) and runs batch after batch, looking before each
whether steering waits for the turn. A call registers a cancellation token, may wait on a
oneshot channel for `confirm_tool` or `reject_tool`, executes with retries, and writes
its state at every stage. `cancel_tool` and `cancel_dialog_turn_tools`, which
`cancel_dialog_turn` calls after the turn's own token, trigger the token, drop the channel
and write `Cancelled`.

Every turn event (started, text and tool events, the three kinds of end) goes through one
`EventQueue`. The host process reads it: the desktop's loop takes batches, routes each event
to the internal subscribers, the cron service's among them, and emits it to the window;
`bitfun exec` takes one batch per wake-up; an ACP prompt reads the broadcast that `enqueue`
sends beside the push. The cron service submits its jobs to the dialog scheduler like any
caller, under the turn id `cronjob_<job>_<time>`, keeps that id as the job's active turn, and
lets the job run again when an event says that turn has ended.

A tool of a turn may start *subagents*: hidden sessions with a turn of their own. The call
takes a permit of its context profile's limiter and one of the global limiter, creates the
session, spawns the execution and waits for its end, a cancellation or a deadline that the
user may move. A foreground call is awaited by the tool, and `call_with_tool_runtime_hooks`
drops its future when the tool's token is triggered; a background call is a task of its own, and its
result comes back through `deliver_background_result`. `cancel_dialog_turn` of the parent also
stops every active execution directly.

The dialog state is in `DashMap`s and channels shared by tasks on a
multi-threaded runtime, without a lock across two accesses. This is what makes it
hard: `submit` decides on a session state and a queue it read earlier; the
enqueue checks, pushes and reorders in three accesses; the start checks a clone
of the session and then awaits; a cancel acts on a turn id seen earlier; an
outcome may be handled after the next turn has begun; a save may fail after the
memory has changed; a task may panic. The cron service takes the other way, one lock for
everything, and holds it while it awaits a submission whose turn may end meanwhile. The hazards, each at its line with the
properties about it, are in `PROJECT.json`.

### 1.2 What makes each component correct

- *Scheduler*: a message answered `Queued` is never lost or duplicated, whatever
  starts fail; it waits only while its session is busy; a request is answered at
  most once, and not before it ran; the outcome handler
  never blocks for ever although it waits for the tasks that report to it.
- *Turns and session state*: one turn owns a session in `Processing`, somebody
  will release it, and nobody else does; the in-flight counter is exact on every
  error path.
- *Injection*: steering never leaks into another turn; a background result
  reaches the model.
- *Tool pipeline*: calls keep the order that their conflicts demand; a tool that
  needs a confirmation runs only after one; a call ends in a final state; once a cancel
  has come to it, its tool is not called any more; a steered call has no effect; the
  round returns.
- *Events*: the queue is bounded, its reader never sleeps over an event, and a front end
  handles what each producer of a turn made in order, and the end of the turn after what its
  task and its calls made.
- *Cron*: the runs of a job that it knows of do not overlap; a job waits only for a turn whose end will be
  reported; a trigger is submitted, whatever fails or restarts; a one-shot job is not lost.
- *Subagents*: the limits bound what runs; however a call ends, it leaves no permit, no
  execution and no `Processing` session behind; a stopped call returns.
- *Lifecycle* (planned): restore, evict and delete leave no turn running in a
  session that is gone.

## 2. The modules

| Module | Role |
|---|---|
| `DialogQueue` | the pure part: sources, priorities, `Reordered`, the queue actions, reply suppression |
| `DialogScheduler` | the composed state machine: scheduler, coordinator, session state, engine boundary, cancels, steering |
| `MessageLifecycle` | abstract: where a submitted message may be, and how it gets there; implemented by `DialogScheduler` |
| `MCDialogScheduler` | the instances TLC checks |
| `OrderedCalls` | abstract: which calls of a round may overlap |
| `ToolPipeline` | one `execute_tools` call with its users and cancellers; implements `OrderedCalls` |
| `EventQueue` | the event queue with the tasks of a turn that fill it and each of its readers |
| `Cron` | the cron service, its file, and the life of the turns it submits |
| `Subagents` | the subagents of one parent turn, their limiters, cancels and timeouts |
| `DialogSchedulerProofs` | lemmas about the queue, `EnqueueKeepsOrder`; the type invariant, strengthened until inductive; `TypeCorrect` |
| `DialogOwnershipProofs` | who releases a session, that somebody will, and where steering goes |
| `DialogMessageProofs` | where each message is and what has become of it, the refinement of `MessageLifecycle`, the count of active turns, the depth of a queue |
| `ToolPipelineProofs` | types of `ToolPipeline`, confirmations, tokens, the refinement of `OrderedCalls`, and what an answered call leaves behind |
| `EventQueueProofs` | types, the bound, the wake-up permit and the order of `EventQueue` |
| `CronProofs`, `CronRunProofs` | types of `Cron`; its runs, its active turns and its one-shot jobs |
| `SubagentProofs` | types of `Subagents`, its permits, and what a call leaves behind |

### 2.1 State of `DialogScheduler`

| Variable | Code |
|---|---|
| `state` | `Session.state`: `Idle`, `Error`, `Processing(current_turn_id)` |
| `inflight` | `ConversationCoordinator::active_turns_per_session` |
| `token` | `RoundExecutor::cancellation_tokens`: absent, live, cancelled |
| `task` | the spawned execution tasks: `running`, `ended` (the engine returned), `settled` (session state updated), `notified` (outcome sent), `dropped` (guard dropped) |
| `queues`, `active`, `suppressed`, `outcomes` | the fields of `DialogScheduler` |
| `yield`, `buffer` | `SessionRoundYieldFlags`, `SessionRoundInjectionBuffer` |
| `pc`, `call`, `job`, `cancel` | where each caller, the outcome handler and each cancel stands, and its locals |
| `started`, `submits`, `cleared`, `result`, `drained` | history, read only by properties, and by bounds (`started`) and by the choice of a turn id a caller has already seen |

A message is named by the turn id it resolves to. Turn ids are fresh UUIDs (or
given by the caller), so a message and its turn are one name; a message that is
put back and started again keeps its id, and its executions are the tasks
`<<m, 1>>, <<m, 2>>`.

### 2.2 Actions of `DialogScheduler`

Every access to shared state that another task can observe is an action; a
run of accesses to different maps with no decision between them is one action
(`ReceiveOutcome`, `InsertActiveTurn`).

- *submit*: `Submit` (read the state), `SubmitDecide` (look at the queue, choose
  the action, clear it after an error), `EnqueueCheck`, `EnqueuePush`,
  `EnqueueReorder`, `RequestYield`, `TryNextCheck`, `DequeueNext`.
- *start_turn*: `StartSnapshot` (the clone and its check), `WaitSessionDrained`,
  `StartAborted`, `StartPersistedTurn` (`Processing` in memory), `PersistFails`,
  `RegisterTurn`, `ContextFails`, `SpawnTurn`, `ResolveTurn`, `InsertActiveTurn`,
  and `StartFailed`, which puts a dequeued message back in front.
- *run_outcome_handler*: `ReceiveOutcome`, `ClearAfterFailure`,
  `GoalContinuation`; then the actions of `submit` and `start_turn`, run by the
  handler's own process `Handler`.
- *execution task*: `EngineInject`, `EngineAnswers`, `EngineStops`, `EngineYields`,
  `EngineCancelled`, `EngineFails`, `EnginePanics`; `TurnSettles`,
  `TurnNotifies`, `GuardDrops`.
- *cancel*: `CancelBegin`, `SuppressReply`, `CancelFind` for a requesting agent,
  `UserCancel` for a user, then `CancelSetsIdle` and `CancelTriggersToken`.
- *injection*: `DeliverBackground`, `InjectBackground`, `SteerChecks`, `SteerPushes`.

Messages are model values with a source and a priority. Model calls, tools and
prompts appear as the nondeterministic end of a round. `submit_init_agents_md` is
one more caller of `submit`. A session that is not loaded is restored by the
start; restoring is left to the lifecycle model, so `Missing` is not a state.

`Faults` names what may go wrong in a run: `start` (validation, restore or
workspace errors before the turn exists), `persist` (a save fails), `context`
(context messages cannot be read), `panic`, `drain_timeout` (the 800 ms wait gives
up, its result being only logged), `round_limit`.

`MessageLifecycle` is what `submit` promises of a message: its caller starts it, or it
waits in the queue, or the caller gives up; from the queue it goes to one dispatcher,
which starts it or puts it back, or it is dropped by a clear of its session. A start may
fail before it has recorded its turn, and then the message goes back to whoever tried.
`Place` maps the state of `DialogScheduler` to it: the queue, the call that holds the message
as dequeued (`Held`) and how far its start is (`InStart`), then `cleared`, then the call
of its own caller. Push and reorder, the dequeues of several dispatchers, and a
clear between any two accesses all map to one of its steps or to none.

### 2.3 `ToolPipeline` and `OrderedCalls`

| Variable | Code |
|---|---|
| `status`, `input` | `ToolTask.state` and its arguments in `ToolStateManager::tasks` |
| `tokens`, `senders` | the keys of `cancellation_tokens` and `confirmation_channels` |
| `cancelled`, `answer` | what the call's token and its oneshot receiver show |
| `steering` | `has_pending_for_turn` of the injection buffer, seen through `should_interrupt` |
| `at`, `first`, `last` | where `execute_tools` stands; its batch is `first .. last` |
| `exec`, `copy`, `attempts`, `verdict`, `outcome` | where each `execute_single_tool` stands, its clone of the task, its retry loop, its result |
| `pc`, `aim`, `want`, `todo` | the callers of confirm, reject and cancel |
| `stopped` | history: the calls a `cancel_tool` has come to while they had their token |

- *Batches*: `CreateTask`, `BatchCheck`, `SingleCheck`, `Join`, `SteerOne`. In a round
  without `allow_parallel` there is one batch and only the sequential loop.
- *One call*: `RegisterToken`, or `PreflightFails` (an invalid, repeated, disallowed or
  rejected call, which are one refusal here) or `Unregistered`; `InsertChannel`,
  `AnnounceConfirmation`, then `Confirmed`, `Refused`, or `TimesOut` and `GivesUp`;
  `PrecheckPasses` or `CancelledBeforeExecution`; `MarkRunning`; `Attempt`,
  `StreamChunks`, `CallReturns`, `Retry`; `RemoveToken`, `Settle`.
- *Users*: `AnswerChecks`, `AnswerSends`. *Cancellers*: `CancelTool` or
  `CancelDialogTurnTools`, then `CancelNext`, `TriggerToken`, `CloseChannel`,
  `MarkCancelled` for each call.

The calls of a batch are futures of one task that interleave at their awaits, while
users and cancellers are other tasks. A call is not created before its driver is
at `join`, and its preflight is one step, as nothing reads what it writes. The tool
is nondeterministic: it succeeds, fails with an error that may be retried or not
(a pipeline timeout is such an error), or, once its token is triggered, reports a
cancellation. Durations, results and events are left out.

`OrderedCalls` knows only whether a call is waiting, running or answered. `Begin`
waits for all earlier calls that conflict, which are all but those in an uninterrupted
run of safe calls; `Answer` may come without a `Begin`, for refused and steered calls.

### 2.4 `EventQueue`

| Variable | Code |
|---|---|
| `queue` | `EventQueue::queue`, a heap, seen as the set of its envelopes |
| `permit` | the permit that `Notify::notify_one` stores |
| `stream` | what the broadcast receiver of an ACP prompt has not read |
| `clock` | the time an envelope is stamped with; only the order of events in flight matters, so it restarts when none is |
| `stage` | each turn's life, and how far a cancel of it is |
| `at`, `hand`, `body` | where each producer stands in `enqueue`, the envelope it holds; the text and tool events so far |
| `front`, `batch`, `learned` | where the reader stands, what it has dequeued, the ends it has handled |
| `host` | which application reads |

`enqueue` is three steps (`CheckLength`, `Push`, `Announce`) because the code takes the
queue's lock twice and then broadcasts and notifies without it. The events of one turn come from
several *producers*, each of which enqueues one event at a time:

- the turn's own flow, which also runs the first call of a batch (`TurnStarts`, `TurnReports`,
  `TurnCompletes`, `TurnFails`, `EngineStops`, `TurnCancelled`);
- `Calls`, the other calls of a concurrent batch (`CallReports`), which begin when the first event is in
  and are joined before the turn ends (`Joined`, `join_all`);
- `Cancellers`: a `cancel_dialog_turn` makes the session `Idle` and reports that (`UserCancels`), triggers the
  token (`CancelTriggers`) and then sets each call `Cancelled`, as `cancel_tool` and `reject_tool` do for one
  (`CallCancelled`, `state_manager.rs:62-96`), all in a task of its own, with events that are `Critical`
  (`agentic.rs:738`), also after the turn has ended.

An event that a tool's own code enqueues (`Inner`) may be given up at any await, when the call is
cancelled and the tool's future dropped (`Dropped`, `tool_context_runtime.rs:143`). A cancelled turn may
report its end twice, from the engine and from the coordinator, and its successor may start before it has
stopped. The readers are `Wakes`, `Dequeue` and `Handle` for the desktop and exec, which differ in what
follows a batch (`AfterHandling`), and `Subscribe` and `Receive` for ACP.

`HandledInOrder` promises what this leaves: among the events of one turn and one priority, those of one producer in
the order they were made, the first event of the turn before those of its calls, and its end after
what its task and its calls made. It cannot speak of a canceller's event beside other ones: that is
stamped before the queue is locked, and may still be on its way when a later event of the turn's own task is
handled, although it is as urgent or more.

### 2.5 `Cron`

| Variable | Code |
|---|---|
| `jobs`, `disk`, `stale` | `CronService::jobs`; `jobs.json`; whether the last save failed |
| `lock` | `mutation_lock` and the write lock of `jobs` while `process_job` awaits `submit`, with the turn it submits and how far that is |
| `permit`, `loop`, `todo`, `want` | the wake-up permit, where `run_loop` stands, the due jobs it goes through, the job a `run_job_now` is about to process |
| `queued`, `running`, `unresolved` | the jobs' turns in the dialog scheduler, by the copies of one turn id; those dispatched that `start_turn` will not find |
| `starts`, `ends` | their events that are not handled yet |
| `known`, `astray`, `lost` | history: the turns ever given to the scheduler; those there without their job's knowledge or put back after they had run; those of which an end was never reported |
| `born`, `count`, `settled`, `incidents` | history for bounds and properties |

An operation that holds the lock from beginning to end is one action (`CreateJob`,
`UpdateJob`, `DeleteJobs`, `RunJobNow`, `HandleTurnEvent`); `process_job` is `ProcessDue`,
`ProcessPending` or `ProcessNothing`, then the submission, then `ProcessEnds`. `run_loop` is `LoopLooks`,
`LoopNotified`, `LoopTimer`, `LoopLists` and the processing of each job. Times are unset, in the future
or due, and become due at any moment (`NextRunComes`, `RetryComes`).

The dialog scheduler is what `DialogScheduler` shows of it to a job. A submission queues the turn
(`SubmitQueues`) or starts it (`SubmitStarts`) and then looks for it in the session (`SubmitResolves`). It may fail

- with nothing done (`SubmitFails`), or for want of a session (`SubmitFindsNoSession`), which disables the job;
- with the turn in the queue, when the message is enqueued and the start of the queue's head fails
  (`SubmitFailsQueued`, `scheduler.rs:451-455`);
- with the turn started, when it has ended or was cancelled before it is looked for; a message that came from the
  queue is put back (`SubmitFailsStarted`, `scheduler.rs:688-708`).

The future of a `run_job_now` of the Cron tool may be dropped with its call at any of these awaits
(`CallDropped`, `tool_context_runtime.rs:143-152`): the locks are free, the job still has its trigger, and the turn is there.
Later a queued turn starts (`TurnStarts`), may be put back although it runs or has run (`PutBack`), ends
(`TurnEnds`), or is cleared with its session's queue, of which nobody is told (`QueueCleared`). An event may be dropped by the full queue
(`EventDropped`). The turns that are there without their job's knowledge, or again, are `astray`.

A save fails after memory has changed, and an update is rejected with the change in memory (`UpdateRejected`: a
name or a payload, or a schedule). `Restart` kills everything at any point and reconciles what
the file holds; `RestartFails` is a start that rejects its file or cannot save what it has reconciled.

`RunsApart` is about the turns a job knows of: one at most is queued or running, in one copy. That *no* two
turns of a job overlap is promised by no document and is not so: a job whose submission failed or was
dropped does not know the turn that is there all the same, and submits the next one beside it (section 3.2).

### 2.6 `Subagents`

| Variable | Code |
|---|---|
| `at`, `outcome` | where `execute_hidden_subagent_internal` stands, and what its wait ended with |
| `profile`, `want`, `mine`, `current` | the call's `subagent_concurrency_cap`; the global cap it has read; its global limiter; `subagent_concurrency_limiter` |
| `waiters`, `holders` | the semaphore of each limiter: its first-in first-out queue and who holds its permits |
| `deadline` | the value of the watch channel: none, ahead or past |
| `active` | `active_subagent_executions` |
| `session`, `record` | the state of the hidden session; the final status last written for its turn |
| `task`, `stopped`, `aborted` | the spawned execution, its token, its abort handle |
| `orphans` | dropped scopes whose spawned clean-up has not run |
| `toolCancelled`, `parentOver`, `parentCancelled`, `cancelAt`, `stop` | the tools' tokens, the parent turn, and how far its cancel is |

- *Permits*: `Begin`, `AcquireProfile`, `ChooseLimiter`, `AcquireGlobal`, `LeaveQueue`. The
  configuration is read with the first permit and may have any value. A limiter of another size
  replaces the current one; permits of the old one stay with it.
- *Session and turn*: `CreateSession` (with both checks of token and deadline around it), `StartTurn`,
  `Launch`. Each may fail, as every `?` between may.
- *Wait*: `Completed`, `NoticeCancel`, `NoticeDeadline`, `Grace`, `Settle`, `Finish`. The grace period is one
  step: the execution has ended by then, or is aborted.
- *Dropped futures*: `Drop` at any stage of a foreground call, then `OrphanCleanup`.
- *Outside*: `TaskEnds`, `ParentEnds`, `CancelTool`, `DeadlinePasses`, `AdjustTimeout`, and the cancel of the parent turn:
  `CancelParent`, `ListActive`, then `StopExecution` and `SettleStopped` for each execution.

A call is a model value, and makes one execution. Subagents do not start subagents
(`coordinator.rs:182`), so no execution waits for permits while holding some. What an execution does, and
whether it ends, is free: `DialogScheduler` and `ToolPipeline` are about that. Saving the final status is assumed to succeed,
as its error is only logged. Callers without a parent turn differ only in not being listed as active.

## 3. The checks

Run a configuration with `tlc -config X.cfg M`, where `M` is `MCDialogScheduler` for the first five
of the table, then `ToolPipeline` (two), `EventQueue` (two), `Cron` (two) and `Subagents`. Deadlock is not checked: callers stop
when answered, and the system may rest.

| Run | Instance | Properties | Shows |
|---|---|---|---|
| `one_session` | a user message, a background result, a steering message; every fault but a panic; 2 executions each | `AcceptedIsAccounted`, `NeverQueuedTwice`, `SteeringStaysOnTarget`, `InflightIsExact` | nothing queued is lost or duplicated across push, reorder, dequeue and put-back by two dispatchers; steering stays with its turn; the counter survives every error path |
| `requests` | two sessions, a request, its auto-reply, a goal continuation, a cancel by the requester or a user; every fault but the round limit | `TypeOK`, `RepliesBounded`, `OnlyOwnerLeavesProcessing` | a request is answered at most once, and only after it ran; late cancels and late tasks do not touch a newer turn |
| `progress` | two messages, a channel of one, failing starts, panics, `FairSpec` | `ProcessingIsOwned`, `ProcessingEnds`, `HandlerReturns`, `MessagesFollowLifecycle` | every turn leaves `Processing`; the handler never waits for ever; a queued message leaves the queue only to be started or with a clear |
| `two_turns` | two submits to an idle session | `NoTurnIsReplaced` violated | finding 1 |
| `stuck_message` | the same, fair | `QueuedIsDispatched` violated | finding 2 |
| `tool_round` | 3 calls: two safe, one streaming, then a write to be confirmed whose tool may be unknown; a user, a canceller, a confirmation timeout, 2 attempts; `FairSpec` | `TypeOK`, `RunsOnlyIfConfirmed`, `EndedIsTerminal`, `SteeredNeverRan`, `CancelStopsAttempts`, `CallsAreOrdered`, `RoundReturns` | a cancelled call is not tried again; order, confirmation and final states survive cancels, retries and steering at any point; with a timeout the round returns |
| `cancelled_tool` | 2 calls, the first to be confirmed without a timeout; `FairSpec` | `CancelUnwinds` violated | finding 3 |
| `events` | a turn, a call beside the first of its batch, and a canceller; two text or tool events, a queue of 2, batches of 1, each of the three readers; `FairSpec` | `TypeOK`, `BoundedQueue`, `NoLostWakeup`, `HandledInOrder`, `EndReachesDesktop` | the queue exceeds its bound by less than its producers; the desktop sleeps over no event, handles what each producer made in order and the end of the turn last |
| `quiet_prompt` | two turns, the ACP reader alone | `PromptReturns` violated | finding 4 |
| `cron` | one job, two triggers, a user who runs it, one incident (an update or a fault); `FairSpec` | `TypeOK`, `RunsApart`, `ActiveIsAwaited`, `OneShotKept`, `TriggersRun` | the turns a job knows of do not overlap beside stray ones, ends are not missed, one-shot jobs survive and triggers are submitted, whichever submission, save, event or process is lost |
| `stuck_job` | one job, two triggers, one incident; `FairSpec` | `RunTriggers` violated | finding 5 |
| `subagents` | a foreground call with a timeout and a background call, profile caps 1 and 2, a global cap that changes between 1 and 2; `FairSpec` | `TypeOK`, `RunningHoldsPermits`, `NothingLeft`, `SessionIsFreed`, `RecordAgrees`, `StoppedCallsEnd`, `WaitersAreServed` | the limits hold through cancels, drops, timeouts and aborts; nothing is left behind; stopped calls return and waiting ones are served |

*Bounds.* `MaxStarts` (executions of one message) is 2 where starts may fail: one
failed or replaced execution and its repetition; it is the only bound without a
counterpart in the code, and it guards `StartPersistedTurn` (a caller beyond it
stops at `begin`, which `BoundReached` names in the liveness properties).
`MaxQueueDepth` is 1 rather than 20, so that the full queue, the put-back into a
non-empty queue and a queue of two (the depth check and the push being separate)
all occur with two messages. `ChannelCapacity` is 2, and 1 in `progress`, rather
than 128, so that `try_send` meets a full channel. Two messages suffice for the races of two starts, of a start
with an outcome, and of a cancel with a successor; three are used where replies
and continuations are messages too. No symmetry is used: messages differ in
source and target. In `ToolPipeline` three calls are the fewest with a batch of two
and a batch after it; one user and one canceller meet each call at every point, and
two attempts are one retry. `MaxAttempts` is `max_retries + 1` of the code, and is
no bound of the model. The sequential rounds (`Parallel = FALSE`) are covered by the proofs, which
hold for all constants, rather than by a run of their own. In `EventQueue` one turn with a concurrent call and a
canceller are three producers, the fewest with one of each kind; `MaxQueueSize` is 2 and `BatchSize` 1
rather than 10000 and 10, so that the queue is full, overfull and left half dequeued; `MaxBody`, the
text and tool events of an instance, is 2, so that two producers report beside the turn's start and its end. A
second turn, which may start before a cancelled one has stopped, is in `quiet_prompt` and, for the safety properties,
covered by the theorems, which hold for any number of turns, calls and cancellers. `StreamBuffer` is 1 where a
lagging receiver is wanted and 4, more than an instance sends, where it must not be the cause. In `Cron`, `MaxTriggers`
bounds the triggers of a job and `MaxIncidents` the updates and faults together. Two triggers and one
incident are the fewest with a stray turn and a known one beside it, with a run that overlaps or coalesces, and with a restart
at any point of either. More triggers and several incidents, such as a failed save and a restart after it, are covered by the
theorems, except for `TriggersRun`. No assumption is made on how fast events
are handled: a retry may come before the events of the failed submission. In `Subagents` two calls are the fewest that compete for a limiter; the caps 1 and 2, rather than
2, 5 and up to 64, make them share a profile limiter, wait for it, wait for the global one while holding the other,
and replace it under a call that waits; one call of each kind meets every way to be cancelled, and only the
foreground call has a timeout, as the deadline acts alike on both. Nothing else is bounded.

*Fairness* (`FairSpec`). A tokio task that can run is polled, so every call in
progress, the outcome handler, every execution task and every cancel in progress
is weakly fair. A model call ends, as clients have timeouts and the round loop
has a limit, so a running engine eventually returns (`EngineEnds` is fair apart from
`EngineInject`). Nothing obliges a caller to call, a user to cancel, or a fault to
happen: `Calls`, `CancelBegin`, `UserCancel` and the steering actions are unfair.
In `ToolPipeline` the driver, each call that has something to do (a fired timer and a
returned tool included), and each caller that has begun are weakly fair; nobody has
to confirm, reject or cancel. In `EventQueue` each producer inside `enqueue` and the reader are
weakly fair; nothing makes a turn start, report or end, or a tool be dropped. In `Cron` the loop's task with the submission it
awaits, the timer of a retry and the delivery of events are weakly fair; no turn has to end and no next run to come. In `Subagents` each call, the tasks that stop and clean up, and the
end of an aborted execution are weakly fair; no other execution has to end, and `WaitersAreServed` has that as
its premise.

Each property has a mutant in `PROJECT.json`: an operator beside the action it
changes (`DequeuePeeks`, `GuardDropsCountOnly`, ...), which breaks the property
when it replaces the action. Nothing else refers to them.

### 3.1 Findings

1. *A turn in progress is replaced* (`two_turns`). `coordinator.rs:2345` says that a
   dialog is rejected while another is processing. The check reads the session
   cloned at entry, before the drain wait and other awaits, and
   `start_persisted_turn` then sets `Processing` unconditionally. Two submits that both read
   `Idle` run two turns at once in one session.
2. *A lost wake-up* (`stuck_message`). `submit` reads `Processing`; the turn
   ends; the handler finds an empty queue; `submit` pushes. The message waits in an
   idle session until something else happens there. The module comment
   (`scheduler.rs:3-4`) promises automatic dispatch. The same holds for an outcome that `try_send`
   drops at a full channel.
3. *A cancelled call waits for its user* (`cancelled_tool`). `cancel_tool` triggers what
   it finds. Before the call has registered its token, or between the token and the
   channel, it finds nothing that would stop the wait: the call overwrites `Cancelled`
   with `AwaitingConfirmation` and waits on its receiver alone, by default without a
   timeout. `execute_tools` is awaited without a `select`, so the cancelled turn goes
   on, although `coordinator.rs:3058` cancels "so the running turn unwinds".
4. *A prompt that never returns* (`quiet_prompt`). `enqueue` returns at a full queue before it
   broadcasts. An ACP process only subscribes, "without consuming them from the
   queue" (`queue.rs:175`), so after `max_queue_size` events nobody hears anything and every prompt
   waits for ever.
5. *A job that never runs again* (`stuck_job`). Only an event frees a job's active turn. A queued
   turn that `clear_queue` drops has none: triggers of the job, `run` included, are coalesced until a
   restart.

### 3.2 Also visible in the models

Behaviours promised otherwise by no document, so that no run is about them:

- The outcome handler removes the session's active turn without comparing turn ids: the outcome
  of an earlier turn answers a request that still runs (`ReceiveOutcome`).
- It drains the buffer with the matching rule of a running turn, so a background result that
  arrives as a turn ends is discarded with the outcome.
- `confirm_tool` edits the task in the map, and the call executes its clone from before the wait: an
  edited input is not what runs.
- The call of an unknown tool is answered while its task stays `Queued` (hence `Unknown` in
  `EndedIsTerminal`); `cancel_dialog_turn_tools` passes over a streaming tool; a cancel
  that has looked at a state just before the call ends replaces `Completed` by `Cancelled`;
  a rejected or timed out call leaves its token in the map.
- `bitfun exec` takes one batch of 20 for one permit: with more events waiting at the last push
  it does not see the end of its turn. The server process has no reader at all.
- A submission of a job that fails after its message was queued or its turn started leaves that turn to run. A job that
  is retried under the same turn id may have two copies of it queued, and the end of the first frees
  the job while the second is queued; one that gets a new trigger first, or whose `run` was dropped with the
  tool call, has two turns at once (`SubmitFailsQueued`, `SubmitFailsStarted`, `CallDropped`, `PutBack`).
- While a job's turn is active and the job is due, `run_loop` finds it due again at once and runs without a
  pause. A one-shot job that has run gets no next run when it is enabled again. A trigger submitted just
  before a crash is submitted again after it.
- `update_job` changes the job in memory before it validates it and returns the error with the change in
  place. The next save of any job writes it, and `reconcile_loaded_job` (`service.rs:615`) then refuses the
  file, so the service, and with it the desktop, does not start (`UpdateRejected`, `RestartFails`).
- A subagent's call that is dropped or fails between `start_persisted_turn` and its scope leaves the session
  `Processing`. A dropped call leaves its entry in the timeout registry, and the record of its turn as it
  was unless the parent's cancel writes it.
- A parent cancel that comes when the turn's token is gone reaches the background executions that are active, and misses
  the calls that still wait for a permit.
- Restoring a timeout that was never set ends the subagent at once: the remaining time is taken as zero. Disabling
  twice replaces the remaining time by the original one.
- While the global setting changes, calls with permits of the old limiter and of the new one run together.

## 4. The proofs

`tlapm M.tla` checks each proof module. The assumptions are
`MessageAssumption`, `SchedulerAssumption`, `FreshAssumption`, `PipelineAssumption`, `EventAssumption`,
`BodyAssumption`, `NoneAssumption`, `CronAssumption` and `SubagentAssumption`: types of the constants, distinct process
names and limiters, positive bounds, that an unknown tool does not count as safe (`unwrap_or(false)`), and
`FreshAssumption`: a reply or a continuation is a new message of one cause, as the handler submits it without a
turn id and `resolve_turn_id` then makes a UUID. TLC evaluates them in every run.

- `EnqueueKeepsOrder` (`DialogSchedulerProofs`): what push and reorder do to a queue of any
  length ordered by priority: it stays ordered, the message is in it, nothing
  else moves relative to the rest. This is the sequential promise of
  `scheduler.rs:9`; concurrent reorders and put-backs may break it, see hazards.
- `TypeCorrect == Spec => []TypeOK`. `TypeOK` is not inductive: a step stores the
  message, turn or session it holds, and a local may be `None`. `TypeInv` adds what each
  program counter says of its locals (`CallsAreSet`, `TasksAreSet`,
  `CancelsAreSet`).
- `OnlyOwnerReleases == Spec => OnlyOwnerLeavesProcessing`. One lemma per
  process says what its steps leave alone (`SubmitShape`, ...); only
  `TurnSettles`, `GuardDrops` and `CancelSetsIdle` release a session, and each
  compares the turn.
- `ProcessingAlwaysOwned == StartsSpawn => (Spec => []ProcessingIsOwned)`. The
  condition says that neither a save nor the context read fails between
  `Processing` and the spawn. It is necessary: those two error paths leave the
  session in `Processing` for a turn nobody executes. `OnlyStartsAbandon` needs no condition: under every fault
  these two steps, by the turn's own start, are the only ones that make a turn in progress ownerless. Both follow from
  `OwnedInv(A)`, in which the turns in `A` may be abandoned: `A` is empty for the first, and fixed by the state before the
  step for the second. It is inductive once it
  knows that starts and tasks hold the message they are about, and that a task which has
  settled no longer owns the session.
- `SteeringOnTarget == Spec => []SteeringStaysOnTarget`. `SteeringInv` adds that
  a steering entry in the buffer names the turn its caller checked, and
  that the caller's local is final once pushed.

In `DialogMessageProofs`, from one inductive invariant, `MessageInv`, beside `TypeInv`:

- *Places.* No property about lost or repeated messages is inductive, because between two accesses a message is
  in a caller's locals only. `Carrying` lists the program counters at which a submitter is responsible for the message it
  names: until the push, from the dequeue until the turn is the active one or the message is put back. `PlacesDiffer` says
  that no two submitters carry the same message, none carries one that is in a queue, and a queue holds each once.
  `CallsAgree` says whose message a caller's locals name. A step leaves the carried message where it is, puts it, takes one or lets
  it go (`SubmitMoves`, `StartMoves`), and one lemma for each of these moves keeps the places.
- *Fates.* `EntriesAreOver`: a message that is the active turn, or of which the handler holds the outcome, has
  run and awaits nothing more. `SubmittedOnce`: its answer and continuation were not submitted before that.
  `ClearedIsOver`: what a clear dropped is nowhere. `StartsAgree`: executions are counted before they are spawned.
- `NeverTwice` and `RepliesAreBounded` follow: a request is answered when its entry leaves the active turn, and
  no message becomes an entry twice, although it may run twice. `AcceptedAccounted` needs
  `PushedIsAccounted` too, which begins at the push, before the caller is told `Queued`.
- `InflightExact`. `CountInv` adds that the counted sets are finite; a start is counted when it registers, passes the count to
  its task when it spawns, or takes it back when the context read fails.
- `ImplementsLifecycle == Spec => MessagesFollowLifecycle`. `Located` reads the abstract place of each message from the
  program counter of its carrier; a move of the carried message is one step of `MessageLifecycle` or none, the
  others stay (`OthersStay`), and a clear moves all messages of its queue at once.
- `DepthStaysBounded`, which no run states: if at most `K` tasks are at once between check and push or between dequeue and put-back of
  one session, its queue holds at most `MaxQueueDepth - 1 + K` messages, whatever came before. The invariant adds the
  tasks to the length, so that a push and a put-back change nothing.

For `ToolPipeline`:

- `TypeCorrect` (of `ToolPipelineProofs`): with `TypeOK`, a call about to attempt has an
  attempt left and the batch is never empty.
- `ConfirmedBeforeRun == Spec => []RunsOnlyIfConfirmed`. `ConfirmInv` adds that a sender
  in the map means an unanswered channel, and that a call before its wait
  has neither: so an answer is given once, and never revised after the call went on.
- `CancelEndsAttempts == Spec => CancelStopsAttempts`. `StopInv` says that a call which uses its token has it in the map or
  triggered, and that a call a cancel has come to is triggered (`stopped` is within `cancelled`); only `Attempt` raises
  the counter, and it looks at the token. The first half is why a retry must not give the token up.
- `ImplementsOrder == Spec => CallsAreOrdered`. `OrderInv` says where calls may be while
  the driver is at `first .. last`: all earlier ones answered, later ones idle and
  unanswered, those of the batch begun only at `join`, and a batch of several calls safe.
  A call's first step then maps to `Begin`, its last and `SteerOne` to `Answer`, and
  every other step to a stutter.
- `EndsInFinalState == Spec => []EndedIsTerminal` and `SteeredHasNoEffect == Spec =>
  []SteeredNeverRan`, from `OrderInv`: every writer that may come after a call's end writes
  `Cancelled`.

For `EventQueue`:

- `QueueStaysBounded == Spec => []BoundedQueue`, for any producers and any size. The queue is
  finite and, with the producers that are at `push`, within the same bound as the property states: a
  producer comes to `push` only while the queue is below its maximum.
- `NoWakeupLost == Spec => []NoLostWakeup`: while the desktop is not about to take another batch,
  an event in the queue that is not a dropped tool's means a permit or a producer about to announce.
- `EventsInOrder == Spec => HandledInOrder`, for any number of turns, calls and cancellers and body events of every
  priority. Every event in flight is older than the clock, and of a producer at most one is in its hand, its
  youngest; while a call is inside `enqueue` its turn has announced its first event and has not made its
  end; and what is in a batch precedes what stayed in the queue, since pops follow the heap's order.

For `Cron`, in `CronRunProofs`: `Inv` is the conjunction of `TypeInv` (`CronProofs`) with three parts and
is inductive as a whole.

- `RunInv`: a turn that is queued or running and not astray is its job's active turn or has just been
  given by the submission in progress (`RunsOwned`), at most one is (`OneRun`), and its copies and ends not yet
  handled are one at most together (`SingleRun`: an old end never frees a new run); `RunsStayApart`
  follows. A turn that a job or the submission waits for is alive, lost, or has its end event on the
  way (`RunsAwaited`); `ActiveJobIsFreed` follows. This is what holding the locks across `submit` is for.
- `FreshInv`: nothing carries a trigger above its job's count, so a new trigger's turn is new; and
  the turn that may be submitted is astray or was never given before, so that a retry is either the first copy or of a turn that
  the property does not count.
- `KeptInv`: a one-shot job that nobody has touched keeps its trigger or its time both in memory and in
  the file, unless a turn of it exists; `OneShotIsKept` follows.

For `Subagents`, likewise, `Inv` is inductive as a whole and holds for any number of calls and any caps; the five theorems follow
from it.

- `PermitsHeld`: from the second permit on, and until it returns, a call holds both; `RunsInsideCall`: an execution that runs belongs to a
  call that waits for it, or is aborted. Together they give `LimitsBindWhatRuns`.
- `NothingLeft` is a part of its own (`CallsLeaveNothing`). A call returns only through `Finish`, after its execution has
  been joined or aborted, or through `Drop`, where the scope aborts it.
- `SessionInv` adds that a call about to finish has freed its session (`SessionsAreFreed`); `RecordInv` adds that
  nothing is stopped before the parent's cancel has listed it (`RecordsAgree`).

Only model-checked: the liveness properties `ProcessingEnds`, `HandlerReturns`, `RoundReturns`,
`EndReachesDesktop`, `TriggersRun`, `StoppedCallsEnd` and `WaitersAreServed`, which need fairness and `ENABLED` and are out of
this prover's reach. The five properties of the violated runs do not hold. Every other property of the runs is a theorem.

## 5. Not modelled yet, and the plan

In order:

1. `DialogQueue` as a state machine of its own, with more submitters than fit the
   composed model: the order by priority under concurrent reorders and put-backs
   (by how much `MAX_QUEUE_DEPTH` is exceeded is proved, `DepthStaysBounded`).
2. `RoundExecutor` above `ToolPipeline`, composed with the turn: what a cancel of a
   turn that has no token yet leaves running, and what happens to a round whose
   calls were cancelled one by one.
3. `SessionLifecycle`: restore, evict, delete and rollback against running turns and starts, and the sessions
   that a subagent's call leaves behind.
4. The deep-review queue: reviewers, adaptive limits and retries above `Subagents`.
5. Theorems: the order by priority of a queue that nobody puts a message back into, and what remains of `ActiveIsAwaited` and
   `TriggersRun` as safety: which steps leave a job waiting.

Left out for good: file formats and I/O, prompt text, provider protocols, tool
side effects, user interfaces, and the processes behind terminals, LSP, MCP
and SSH. They hold no state that the core's decisions depend on, or hold it
outside the program.
