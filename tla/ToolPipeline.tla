---------------------------- MODULE ToolPipeline ----------------------------
(***************************************************************************)
(* One ToolPipeline::execute_tools call: the tool calls of a model round,  *)
(* the users who confirm or reject them, and the callers of cancel_tool    *)
(* and cancel_dialog_turn_tools (tools/pipeline/tool_pipeline.rs and       *)
(* state_manager.rs).                                                      *)
(*                                                                         *)
(* The driver runs batch after batch; the calls of a batch are futures of  *)
(* one task, joined, that interleave at their awaits.  Users and           *)
(* cancellers are tasks of their own and see the maps between any two      *)
(* accesses.                                                               *)
(***************************************************************************)
EXTENDS Integers, FiniteSets

CONSTANTS
  N,               \* number of calls in the round
  Safe,            \* calls whose tool is_concurrency_safe
  Confirm,         \* calls that need a confirmation
  Streams,         \* calls whose tool supports_streaming
  User,            \* callers of confirm_tool and reject_tool
  Canceller,       \* callers of cancel_tool and cancel_dialog_turn_tools
  Parallel,        \* options.allow_parallel
  ConfirmTimeout,  \* is there a confirmation timeout
  MaxAttempts,     \* options.max_retries + 1
  Edits,           \* the inputs a confirmation may carry, see Input
  Unknown,         \* calls whose tool may have left the registry when they start
  Refusable        \* calls that may be refused before they have a token

Call == 1 .. N
Input == {"original", "edited"}

ASSUME PipelineAssumption ==
  /\ N \in Nat \ {0} /\ MaxAttempts \in Nat \ {0}
  /\ Safe \subseteq Call /\ Confirm \subseteq Call /\ Streams \subseteq Call
  /\ Unknown \subseteq Call
  /\ User \cap Canceller = {}
  /\ Parallel \in BOOLEAN /\ ConfirmTimeout \in BOOLEAN
  /\ Edits \subseteq Input /\ Edits # {}
  /\ Refusable \subseteq Call

Caller == User \cup Canceller

\* ToolExecutionState; a task that does not exist yet is "none".  Waiting is
\* never assigned.
Terminal == {"Completed", "Failed", "Cancelled"}
ToolExecutionState ==
  {"none", "Queued", "AwaitingConfirmation", "Running", "Streaming"} \cup Terminal
ExecPc == {"idle", "channel", "announce", "await", "expired", "precheck", "mark", "attempt",
           "calling", "streamed", "finish", "settle", "done"}
Executing == {"calling", "streamed"}
DriverPc == {"create", "batch", "single", "join", "steer", "returned"}
CallerPc == {"new", "send", "next", "token", "channel", "mark", "done"}
Verdict == {"none", "Ok", "Err", "Cancelled"}
Answer == {"none", "Confirmed", "Rejected", "Closed"}

VARIABLES
  \* the maps of the pipeline and of its state manager
  status,      \* tasks[i].state
  input,       \* tasks[i].tool_call.arguments
  tokens,      \* keys of cancellation_tokens
  senders,     \* keys of confirmation_channels
  \* tokens and channels themselves
  cancelled,   \* the calls whose token has been triggered
  answer,      \* what the call's oneshot receiver gets
  steering,    \* a round injection waits for this turn
  \* execute_tools and execute_single_tool
  at,          \* where the batch loop stands
  first, last, \* its current batch is first .. last
  exec,        \* where each call stands
  copy,        \* the arguments in the call's clone of its task
  attempts,    \* executions of the tool begun
  verdict,     \* how the execution ended
  outcome,     \* the result execute_tools has for the call
  \* confirm_tool, reject_tool, cancel_tool, cancel_dialog_turn_tools
  pc, aim, want, todo,
  \* What has happened so far, for properties:
  stopped      \* the calls a cancel_tool has come to while their token was in use

maps == <<status, input, tokens, senders>>
signals == <<cancelled, answer, steering, stopped>>
calls == <<exec, copy, attempts, verdict, outcome>>
driver == <<at, first, last>>
callers == <<pc, aim, want, todo>>
vars == <<maps, signals, driver, calls, callers>>

LoopHead == IF Parallel THEN "batch" ELSE "single"

Init ==
  /\ status = [i \in Call |-> "none"]
  /\ input = [i \in Call |-> "original"]
  /\ tokens = {} /\ senders = {} /\ cancelled = {}
  /\ answer = [i \in Call |-> "none"]
  /\ steering = FALSE /\ stopped = {}
  /\ at = "create" /\ first = 1 /\ last = 0
  /\ exec = [i \in Call |-> "idle"]
  /\ copy = [i \in Call |-> "original"]
  /\ attempts = [i \in Call |-> 0]
  /\ verdict = [i \in Call |-> "none"]
  /\ outcome = [i \in Call |-> "none"]
  /\ pc = [c \in Caller |-> "new"]
  /\ aim = [c \in Caller |-> 1]
  /\ want = [u \in User |-> "none"]
  /\ todo = [c \in Canceller |-> {}]

-----------------------------------------------------------------------------
(* execute_tools, execute_parallel and execute_sequential.                 *)

DriverAt(label) == at = label

\* After the batch that ends at last.
Advance ==
  /\ at' = IF last = N THEN "returned" ELSE LoopHead
  /\ first' = last + 1
  /\ UNCHANGED last

\* create_task, once per call in order.
CreateTask ==
  /\ DriverAt("create")
  /\ status' = [status EXCEPT ![first] = "Queued"]
  /\ IF first < N THEN first' = first + 1 /\ UNCHANGED at
     ELSE first' = 1 /\ at' = LoopHead
  /\ UNCHANGED <<last, input, tokens, senders, signals, calls, callers>>

\* Mutant: an unsafe call does not close the concurrent batch before it.
EndsBatchAtEnd(i, j) == i \in Safe /\ j = N

\* partition_tool_batches: the concurrent batch that starts at i ends at j.
EndsBatch(i, j) == i .. j \subseteq Safe /\ (j = N \/ j + 1 \notin Safe)

\* The head of the batch loop: steering answers all that is left.
BatchCheck ==
  /\ DriverAt("batch")
  /\ \/ steering /\ at' = "steer" /\ last' = N
     \/ ~steering /\ first \notin Safe /\ at' = "single" /\ UNCHANGED last
     \/ /\ ~steering
        /\ \E j \in first .. N : EndsBatch(first, j) /\ at' = "join" /\ last' = j
  /\ UNCHANGED <<first, maps, signals, calls, callers>>

\* The head of the sequential loop.  In a partitioned round it holds one call,
\* and steering seen here answers only that call.
SingleCheck ==
  /\ DriverAt("single")
  /\ at' = IF steering THEN "steer" ELSE "join"
  /\ last' = IF steering /\ ~Parallel THEN N ELSE first
  /\ UNCHANGED <<first, maps, signals, calls, callers>>

\* Mutant: steering interrupts a batch that is running.
JoinInterrupts ==
  /\ DriverAt("join")
  /\ IF steering THEN at' = "steer" /\ last' = N /\ UNCHANGED first
     ELSE /\ \A i \in first .. last : outcome[i] # "none"
          /\ Advance
  /\ UNCHANGED <<maps, signals, calls, callers>>

Join ==
  /\ DriverAt("join")
  /\ \A i \in first .. last : outcome[i] # "none"
  /\ Advance
  /\ UNCHANGED <<maps, signals, calls, callers>>

\* build_steering_interrupted_results, one call at a time.
SteerOne ==
  /\ DriverAt("steer")
  /\ status' = [status EXCEPT ![first] = "Cancelled"]
  /\ outcome' = [outcome EXCEPT ![first] = "Steered"]
  /\ IF first < last THEN first' = first + 1 /\ UNCHANGED <<at, last>> ELSE Advance
  /\ UNCHANGED <<input, tokens, senders, signals, exec, copy, attempts, verdict, callers>>

\* Injections come from the scheduler, and an outcome it handles late may take
\* them away again.
SteeringChanges ==
  /\ steering' = ~steering
  /\ UNCHANGED <<maps, cancelled, answer, stopped, driver, calls, callers>>

-----------------------------------------------------------------------------
(* execute_single_tool, execute_with_retry and execute_tool_impl.          *)

At(i, label) == exec[i] = label
Goto(i, label) == exec' = [exec EXCEPT ![i] = label]

\* The call ends with result r, having left its task in state s.
Ends(i, s, r) ==
  /\ status' = [status EXCEPT ![i] = s]
  /\ outcome' = [outcome EXCEPT ![i] = r]
  /\ Goto(i, "done")

\* The driver polls the call for the first time.
Polled(i) == At(i, "idle") /\ DriverAt("join") /\ i \in first .. last

\* The task is cloned, every check passes, the token is registered.
RegisterToken(i) ==
  /\ Polled(i)
  /\ copy' = [copy EXCEPT ![i] = input[i]]
  /\ tokens' = tokens \cup {i}
  /\ Goto(i, IF i \in Confirm THEN "channel" ELSE "precheck")
  /\ UNCHANGED <<status, input, senders, signals, driver, attempts, verdict, outcome,
                 callers>>

\* An invalid call, a repeated call, a tool that is not allowed or rejects its input.
PreflightFails(i) ==
  /\ Polled(i) /\ i \in Refusable
  /\ Ends(i, "Failed", "Err")
  /\ UNCHANGED <<input, tokens, senders, signals, driver, copy, attempts, verdict, callers>>

\* The registry has no such tool: the error leaves the task's state alone.
Unregistered(i) ==
  /\ Polled(i) /\ i \in Unknown
  /\ Ends(i, status[i], "Err")
  /\ UNCHANGED <<input, tokens, senders, signals, driver, copy, attempts, verdict, callers>>

InsertChannel(i) ==
  /\ At(i, "channel")
  /\ senders' = senders \cup {i}
  /\ Goto(i, "announce")
  /\ UNCHANGED <<status, input, tokens, signals, driver, copy, attempts, verdict, outcome,
                 callers>>

AnnounceConfirmation(i) ==
  /\ At(i, "announce")
  /\ status' = [status EXCEPT ![i] = "AwaitingConfirmation"]
  /\ Goto(i, "await")
  /\ UNCHANGED <<input, tokens, senders, signals, driver, copy, attempts, verdict, outcome,
                 callers>>

Confirmed(i) ==
  /\ At(i, "await") /\ answer[i] = "Confirmed"
  /\ senders' = senders \ {i}
  /\ Goto(i, "precheck")
  /\ UNCHANGED <<status, input, tokens, signals, driver, copy, attempts, verdict, outcome,
                 callers>>

\* Rejected by the user, or the sender was dropped by a cancel.  The token stays
\* in the map.
Refused(i) ==
  /\ At(i, "await") /\ answer[i] \in {"Rejected", "Closed"}
  /\ senders' = senders \ {i}
  /\ Ends(i, "Cancelled", "Err")
  /\ UNCHANGED <<input, tokens, signals, driver, copy, attempts, verdict, callers>>

\* Mutant: no answer in time counts as a confirmation.
TimesOutConfirmed(i) ==
  /\ At(i, "await") /\ ConfirmTimeout /\ answer[i] = "none"
  /\ Goto(i, "precheck")
  /\ UNCHANGED <<maps, signals, driver, copy, attempts, verdict, outcome, callers>>

\* Mutant: the wait never times out.
NeverTimesOut(i) == At(i, "await") /\ FALSE /\ UNCHANGED vars

\* An answer that is there as the timer fires is taken; one that comes later is lost.
TimesOut(i) ==
  /\ At(i, "await") /\ ConfirmTimeout /\ answer[i] = "none"
  /\ Goto(i, "expired")
  /\ UNCHANGED <<maps, signals, driver, copy, attempts, verdict, outcome, callers>>

\* Mutant: the timeout's error is returned before the state is updated.
GivesUpSilently(i) ==
  /\ At(i, "expired")
  /\ senders' = senders \ {i}
  /\ Ends(i, status[i], "Err")
  /\ UNCHANGED <<input, tokens, signals, driver, copy, attempts, verdict, callers>>

GivesUp(i) ==
  /\ At(i, "expired")
  /\ senders' = senders \ {i}
  /\ Ends(i, "Cancelled", "Err")
  /\ UNCHANGED <<input, tokens, signals, driver, copy, attempts, verdict, callers>>

PrecheckPasses(i) ==
  /\ At(i, "precheck") /\ i \notin cancelled
  /\ Goto(i, "mark")
  /\ UNCHANGED <<maps, signals, driver, copy, attempts, verdict, outcome, callers>>

CancelledBeforeExecution(i) ==
  /\ At(i, "precheck") /\ i \in cancelled
  /\ tokens' = tokens \ {i}
  /\ Ends(i, "Cancelled", "Err")
  /\ UNCHANGED <<input, senders, signals, driver, copy, attempts, verdict, callers>>

MarkRunning(i) ==
  /\ At(i, "mark")
  /\ status' = [status EXCEPT ![i] = IF i \in Streams THEN "Streaming" ELSE "Running"]
  /\ Goto(i, "attempt")
  /\ UNCHANGED <<input, tokens, senders, signals, driver, copy, attempts, verdict, outcome,
                 callers>>

\* Mutant: the token is looked at before the first attempt only.
AttemptAfterPause(i) ==
  /\ At(i, "attempt")
  /\ IF i \in cancelled /\ attempts[i] = 0
     THEN /\ verdict' = [verdict EXCEPT ![i] = "Cancelled"]
          /\ Goto(i, "finish")
          /\ UNCHANGED attempts
     ELSE /\ attempts' = [attempts EXCEPT ![i] = @ + 1]
          /\ Goto(i, "calling")
          /\ UNCHANGED verdict
  /\ UNCHANGED <<maps, signals, driver, copy, outcome, callers>>

\* The token is looked at before every attempt.
Attempt(i) ==
  /\ At(i, "attempt")
  /\ IF i \in cancelled
     THEN /\ verdict' = [verdict EXCEPT ![i] = "Cancelled"]
          /\ Goto(i, "finish")
          /\ UNCHANGED attempts
     ELSE /\ attempts' = [attempts EXCEPT ![i] = @ + 1]
          /\ Goto(i, "calling")
          /\ UNCHANGED verdict
  /\ UNCHANGED <<maps, signals, driver, copy, outcome, callers>>

\* The tool returns chunks: the state is set once more for them.
StreamChunks(i) ==
  /\ At(i, "calling") /\ i \in Streams
  /\ status' = [status EXCEPT ![i] = "Streaming"]
  /\ Goto(i, "streamed")
  /\ UNCHANGED <<input, tokens, senders, signals, driver, copy, attempts, verdict, outcome,
                 callers>>

\* The tool returns; only a tool that looks at its token reports Cancelled.
CallReturns(i, v) ==
  /\ \/ At(i, "calling") /\ (v = "Cancelled" => i \in cancelled)
     \/ At(i, "streamed") /\ v = "Ok"
  /\ verdict' = [verdict EXCEPT ![i] = v]
  /\ Goto(i, "finish")
  /\ UNCHANGED <<maps, signals, driver, copy, attempts, outcome, callers>>

\* Mutant: a failed attempt already gives up the token.
RetryWithoutToken(i) ==
  /\ At(i, "calling") /\ attempts[i] < MaxAttempts
  /\ tokens' = tokens \ {i}
  /\ Goto(i, "attempt")
  /\ UNCHANGED <<status, input, senders, signals, driver, copy, attempts, verdict, outcome,
                 callers>>

\* Mutant: one attempt too many.
RetryOnceMore(i) ==
  /\ At(i, "calling") /\ attempts[i] <= MaxAttempts
  /\ Goto(i, "attempt")
  /\ UNCHANGED <<maps, signals, driver, copy, attempts, verdict, outcome, callers>>

\* should_retry_tool_error, and an attempt is left.
Retry(i) ==
  /\ At(i, "calling") /\ attempts[i] < MaxAttempts
  /\ Goto(i, "attempt")
  /\ UNCHANGED <<maps, signals, driver, copy, attempts, verdict, outcome, callers>>

RemoveToken(i) ==
  /\ At(i, "finish")
  /\ tokens' = tokens \ {i}
  /\ Goto(i, "settle")
  /\ UNCHANGED <<status, input, senders, signals, driver, copy, attempts, verdict, outcome,
                 callers>>

Settle(i) ==
  LET v == verdict[i]
  IN  /\ At(i, "settle")
      /\ Ends(i, CASE v = "Ok" -> "Completed" [] v = "Err" -> "Failed"
                   [] OTHER -> "Cancelled",
                 IF v = "Ok" THEN "Ok" ELSE "Err")
      /\ verdict' = [verdict EXCEPT ![i] = "none"]
      /\ attempts' = [attempts EXCEPT ![i] = 0]
      /\ UNCHANGED <<input, tokens, senders, signals, driver, copy, callers>>

-----------------------------------------------------------------------------
(* confirm_tool and reject_tool.                                           *)

CallerAt(c, label) == pc[c] = label
CallerGoto(c, label) == pc' = [pc EXCEPT ![c] = label]

\* The task must be awaiting confirmation; a confirmation may edit its input.
AnswerChecks(u) ==
  /\ CallerAt(u, "new")
  /\ \E i \in Call, w \in {"Confirmed", "Rejected"}, e \in Edits :
       /\ status[i] = "AwaitingConfirmation"
       /\ aim' = [aim EXCEPT ![u] = i]
       /\ want' = [want EXCEPT ![u] = w]
       /\ input' = IF w = "Confirmed" /\ e = "edited"
                   THEN [input EXCEPT ![i] = e] ELSE input
  /\ CallerGoto(u, "send")
  /\ UNCHANGED <<status, tokens, senders, signals, driver, calls, todo>>

\* Whoever removes the sender answers.  A late reject marks the task itself.
AnswerSends(u) ==
  LET i == aim[u]
  IN  /\ CallerAt(u, "send") /\ u \in User
      /\ IF i \in senders
         THEN /\ senders' = senders \ {i}
              /\ answer' = [answer EXCEPT ![i] = want[u]]
              /\ UNCHANGED status
         ELSE /\ status' = IF want[u] = "Rejected"
                           THEN [status EXCEPT ![i] = "Cancelled"] ELSE status
              /\ UNCHANGED <<senders, answer>>
      /\ CallerGoto(u, "done")
      /\ aim' = [aim EXCEPT ![u] = 1]
      /\ want' = [want EXCEPT ![u] = "none"]
      /\ UNCHANGED <<input, tokens, cancelled, steering, stopped, driver, calls, todo>>

-----------------------------------------------------------------------------
(* cancel_tool and cancel_dialog_turn_tools.                               *)

\* The states cancel_dialog_turn_tools looks for: Streaming is not among them.
Cancellable == {"Queued", "Running", "AwaitingConfirmation"}

CancelTool(c) ==
  /\ CallerAt(c, "new") /\ c \in Canceller
  /\ \E i \in Call : status[i] # "none" /\ todo' = [todo EXCEPT ![c] = {i}]
  /\ CallerGoto(c, "next")
  /\ UNCHANGED <<maps, signals, driver, calls, aim, want>>

\* The turn's tasks are cloned first; each is then cancelled by cancel_tool.
CancelDialogTurnTools(c) ==
  /\ CallerAt(c, "new") /\ c \in Canceller
  /\ todo' = [todo EXCEPT ![c] = {i \in Call : status[i] \in Cancellable}]
  /\ CallerGoto(c, "next")
  /\ UNCHANGED <<maps, signals, driver, calls, aim, want>>

CancelNext(c) ==
  /\ CallerAt(c, "next")
  /\ \/ /\ todo[c] = {}
        /\ aim' = [aim EXCEPT ![c] = 1]
        /\ CallerGoto(c, "done")
        /\ UNCHANGED todo
     \/ \E i \in todo[c] :
          /\ todo' = [todo EXCEPT ![c] = @ \ {i}]
          /\ aim' = [aim EXCEPT ![c] = i]
          /\ CallerGoto(c, IF status[i] \in Terminal THEN "next" ELSE "token")
  /\ UNCHANGED <<maps, signals, driver, calls, want>>

\* From its registration to the end of the execution, retries included.
TokenInUse(i) == exec[i] \notin {"idle", "settle", "done"}

TriggerToken(c) ==
  LET i == aim[c]
  IN  /\ CallerAt(c, "token")
      /\ tokens' = tokens \ {i}
      /\ cancelled' = IF i \in tokens THEN cancelled \cup {i} ELSE cancelled
      /\ stopped' = IF TokenInUse(i) THEN stopped \cup {i} ELSE stopped
      /\ CallerGoto(c, "channel")
      /\ UNCHANGED <<status, input, senders, answer, steering, driver, calls,
                     aim, want, todo>>

CloseChannel(c) ==
  LET i == aim[c]
  IN  /\ CallerAt(c, "channel")
      /\ senders' = senders \ {i}
      /\ answer' = IF i \in senders THEN [answer EXCEPT ![i] = "Closed"] ELSE answer
      /\ CallerGoto(c, "mark")
      /\ UNCHANGED <<status, input, tokens, cancelled, steering, stopped, driver, calls,
                     aim, want, todo>>

MarkCancelled(c) ==
  /\ CallerAt(c, "mark")
  /\ status' = [status EXCEPT ![aim[c]] = "Cancelled"]
  /\ CallerGoto(c, "next")
  /\ UNCHANGED <<input, tokens, senders, signals, driver, calls, aim, want, todo>>

-----------------------------------------------------------------------------
DriverStep == CreateTask \/ BatchCheck \/ SingleCheck \/ Join \/ SteerOne

ToolStep(i) ==
  \/ RegisterToken(i) \/ PreflightFails(i) \/ Unregistered(i)
  \/ InsertChannel(i) \/ AnnounceConfirmation(i)
  \/ Confirmed(i) \/ Refused(i) \/ TimesOut(i) \/ GivesUp(i)
  \/ PrecheckPasses(i) \/ CancelledBeforeExecution(i) \/ MarkRunning(i)
  \/ Attempt(i) \/ StreamChunks(i) \/ (\E v \in Verdict \ {"none"} : CallReturns(i, v))
  \/ Retry(i) \/ RemoveToken(i) \/ Settle(i)

CancelStep(c) == CancelNext(c) \/ TriggerToken(c) \/ CloseChannel(c) \/ MarkCancelled(c)

Next ==
  \/ DriverStep \/ SteeringChanges
  \/ \E i \in Call : ToolStep(i)
  \/ \E u \in User : AnswerChecks(u) \/ AnswerSends(u)
  \/ \E c \in Canceller : CancelTool(c) \/ CancelDialogTurnTools(c) \/ CancelStep(c)

Spec == Init /\ [][Next]_vars

\* The runtime polls the round and the callers in progress, timers fire, and a
\* tool call returns.  Nobody has to confirm, reject or cancel.
Fairness ==
  /\ WF_vars(DriverStep)
  /\ \A i \in Call : WF_vars(ToolStep(i))
  /\ \A u \in User : WF_vars(AnswerSends(u))
  /\ \A c \in Canceller : WF_vars(CancelStep(c))

FairSpec == Spec /\ Fairness

-----------------------------------------------------------------------------
(* Properties.                                                             *)

TypeOK ==
  /\ status \in [Call -> ToolExecutionState]
  /\ input \in [Call -> Input]
  /\ tokens \subseteq Call /\ senders \subseteq Call
  /\ cancelled \subseteq Call /\ stopped \subseteq Call
  /\ answer \in [Call -> Answer]
  /\ steering \in BOOLEAN
  /\ at \in DriverPc /\ first \in 1 .. (N + 1) /\ last \in 0 .. N
  /\ exec \in [Call -> ExecPc]
  /\ copy \in [Call -> Input]
  /\ attempts \in [Call -> 0 .. MaxAttempts]
  /\ verdict \in [Call -> Verdict]
  /\ outcome \in [Call -> {"none", "Ok", "Err", "Steered"}]
  /\ pc \in [Caller -> CallerPc]
  /\ aim \in [Caller -> Call]
  /\ want \in [User -> {"none", "Confirmed", "Rejected"}]
  /\ todo \in [Canceller -> SUBSET Call]

\* execute_tools runs the calls of a round in the order OrderedCalls promises: a
\* call that is not concurrency-safe waits for all earlier ones and later ones
\* wait for it, whatever is cancelled, rejected, retried or steered.
Stage(i) ==
  IF outcome[i] # "none" THEN "answered"
  ELSE IF At(i, "idle") THEN "waiting" ELSE "running"
Ordered == INSTANCE OrderedCalls WITH stage <- [i \in Call |-> Stage(i)]
CallsAreOrdered == Ordered!Spec

\* A tool that needs a confirmation executes only after a user's confirm_tool has
\* delivered it: no timeout, closed channel, reject or cancel lets it through.
RunsOnlyIfConfirmed ==
  \A i \in Confirm : exec[i] \in Executing => answer[i] = "Confirmed"

\* A call that has its result is in a final state, although callers go on writing
\* the state after the call has ended; only an unknown tool's stays Queued.
EndedIsTerminal ==
  \A i \in Call : outcome[i] # "none" =>
    status[i] \in Terminal \/ (i \in Unknown /\ status[i] = "Queued")

\* A call answered as interrupted by steering has not been started, so that it
\* has had no effect.
SteeredNeverRan == \A i \in Call : outcome[i] = "Steered" => At(i, "idle")

\* Once a cancel_tool has come to a call that has its token, the tool is not called
\* any more: neither after its confirmation nor after the pause between two
\* attempts, whoever else cancels, answers or lets an attempt fail meanwhile.
CancelStopsAttempts ==
  [][\A i \in Call : attempts'[i] > attempts[i] => i \notin stopped]_vars

\* With a confirmation timeout, execute_tools returns whatever its users do.
RoundReturns == <>DriverAt("returned")

-----------------------------------------------------------------------------
(* What the code says of itself and does not do (see the README).          *)

\* "Trigger cancellation tokens so the running turn unwinds" (coordinator.rs): a
\* call that a cancel has gone through ends, without anybody confirming it.
CancelUnwinds ==
  \A c \in Canceller, i \in Call :
    CallerAt(c, "mark") /\ aim[c] = i ~> outcome[i] # "none"
=============================================================================
