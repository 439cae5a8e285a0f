---------------------------- MODULE DialogQueue ----------------------------
(***************************************************************************)
(* The per-session priority queue of the dialog scheduler                  *)
(* (coordination/scheduler.rs) and the pure decisions of the runtime       *)
(* contract it relies on (runtime-ports/src/lib.rs, turn_outcome.rs).      *)
(*                                                                         *)
(* A message stands for a QueuedTurn: its payload is a model value, and    *)
(* what the scheduler looks at is its DialogTriggerSource and its          *)
(* DialogQueuePriority.                                                    *)
(***************************************************************************)
EXTENDS Integers, SequencesExt

CONSTANTS
  Msg,        \* messages, named by the turn id they resolve to
  Source,     \* [Msg -> DialogTriggerSource]
  Priority    \* [Msg -> DialogQueuePriority]

\* DialogTriggerSource, in the groups DialogSubmissionPolicy::for_source makes.
AutomaticSource == {"AgentSession", "ScheduledJob"}
InteractiveSource == {"DesktopUi", "DesktopApi", "Cli", "RemoteRelay", "Bot"}

\* DialogQueuePriority: Low = 0, Normal = 1, High = 2.
QueuePriority == 0 .. 2

ASSUME MessageAssumption ==
  /\ Source \in [Msg -> AutomaticSource \cup InteractiveSource]
  /\ Priority \in [Msg -> QueuePriority]

\* DialogSubmissionPolicy::for_source: the priority a source gets by default
\* (with_queue_priority may override it, so Priority is a constant of its own).
DefaultPriority(source) == IF source \in AutomaticSource THEN 0 ELSE 1

\* dialog_policy_may_preempt: may a queued message cut the running turn short.
MayPreempt(m) == Source[m] \in InteractiveSource

-----------------------------------------------------------------------------
\* The reordering half of DialogScheduler::enqueue: the last message moves in
\* front of the first one whose priority is strictly lower, if there is one.
Lower(q, m) == {i \in 1 .. Len(q) : Priority[q[i]] < Priority[m]}
Reordered(q) ==
  LET m == Last(q)
      rest == Front(q)
  IN  IF q = <<>> \/ Lower(rest, m) = {} THEN q
      ELSE InsertAt(rest, Min(Lower(rest, m)), m)

\* resolve_dialog_submit_queue_action, from the session state that submit read.
SubmitQueueAction(kind, queueHasItems) ==
  CASE kind = "Error" -> "ClearQueueAndStartImmediately"
    [] kind = "Processing" -> "EnqueueForActiveTurn"
    [] kind = "Idle" /\ queueHasItems -> "EnqueueThenStartNext"
    [] kind = "Idle" /\ ~queueHasItems -> "StartImmediately"

\* TurnOutcome::queue_action.
QueueAction(status) == IF status = "Failed" THEN "ClearQueue" ELSE "DispatchNext"

\* should_skip_agent_session_reply.
SkipReply(status, suppressed) == status = "Cancelled" /\ suppressed

=============================================================================
