------------------------------ MODULE Subagents ------------------------------
(***************************************************************************)
(* The subagents of one parent turn (coordination/coordinator.rs): hidden  *)
(* sessions that a tool call of the turn starts.  A call waits for two     *)
(* concurrency permits, creates a session, starts a turn in it, spawns the *)
(* execution and waits for its end, a cancellation or its timeout.  A call *)
(* in the foreground is a future that its tool drops when it is cancelled, *)
(* at any await; one in the background is a task of its own.               *)
(*                                                                         *)
(* An action is what happens between two awaits that others can tell       *)
(* apart.  Each step that may fail may fail, but saving the final status   *)
(* of a turn, whose error is only logged, does not.  The execution itself  *)
(* is external: it may end in any way, or never.  Events, prompts, lineage *)
(* records, ledgers, the engine's map of tokens, the registry of timeouts  *)
(* and what cleanup_subagent_resources does to snapshots are left out.     *)
(***************************************************************************)
EXTENDS Integers, FiniteSets, SequencesExt

CONSTANTS
  Call,         \* executions of subagents
  Background,   \* those started by start_background_subagent
  Timed,        \* those with a timeout, requested or set later
  ProfileCaps,  \* the values of subagent_concurrency_cap: 5 and 2
  GlobalCaps,   \* the values of ai.subagent_max_concurrency, normalized
  None          \* no limiter, no outcome, no record

ASSUME SubagentAssumption ==
  /\ Background \subseteq Call /\ Timed \subseteq Call
  /\ ProfileCaps \subseteq Nat \ {0} /\ ProfileCaps # {}
  /\ GlobalCaps \subseteq Nat \ {0} /\ GlobalCaps # {}
  /\ None \notin Call \cup GlobalCaps \cup (Call \X GlobalCaps)

\* A profile limiter is found by its cap; a global one is known by the call that made it.
ProfileLimiter == {"profile"} \X ProfileCaps
GlobalLimiter == Call \X GlobalCaps
Limiter == ProfileLimiter \cup GlobalLimiter

VARIABLES
  at,         \* where the call stands
  profile,    \* the cap of its context profile
  want,       \* the global cap it has read
  mine,       \* its global limiter
  current,    \* subagent_concurrency_limiter
  waiters,    \* of a limiter's semaphore, which is first-in first-out
  holders,    \* of its permits
  deadline,   \* the value of the watch channel
  active,     \* active_subagent_executions
  session,    \* the state of the subagent's session
  record,     \* the final status last written for its turn
  stopped,    \* calls whose own token has been triggered
  task,       \* the spawned execution
  aborted,    \* executions whose abort handle has been used
  outcome,    \* what the wait ended with, until the call returns
  orphans,    \* dropped calls whose clean-up task has not run
  parentOver, parentCancelled,  \* the parent turn has ended; its token is triggered
  toolCancelled,  \* calls whose tool token is triggered
  cancelAt,   \* how far cancel_dialog_turn of the parent turn is
  stop        \* how far its stop_active_subagent_execution is

permits == <<profile, want, mine, current, waiters, holders>>
running == <<active, stopped, task, aborted, orphans>>
turn == <<session, record>>
cancels == <<parentOver, parentCancelled, toolCancelled, cancelAt, stop>>
vars == <<at, permits, deadline, running, turn, outcome, cancels>>

\* In the queue of a limiter; before the execution is spawned; after.
Queued == {"profile", "global"}
Early == Queued \cup {"choosing", "permitted", "created", "starting"}
Armed == {"running", "cancelling", "expiring", "settling", "cleaning"}
Over(c) == at[c] = "over"

Ended == {"done", "failed", "cancelled"}
Outcome == {"completed", "partial", "cancelled", "timeout", "failed"}

Init ==
  /\ at = [c \in Call |-> "idle"]
  /\ profile \in [Call -> ProfileCaps]
  /\ want = [c \in Call |-> None]
  /\ mine = [c \in Call |-> None]
  /\ current = None
  /\ waiters = [l \in Limiter |-> <<>>]
  /\ holders = [l \in Limiter |-> {}]
  /\ deadline = [c \in Call |-> "none"]
  /\ active = {} /\ stopped = {}
  /\ session = [c \in Call |-> "none"]
  /\ record = [c \in Call |-> None]
  /\ task = [c \in Call |-> "none"]
  /\ aborted = {} /\ orphans = {}
  /\ outcome = [c \in Call |-> None]
  /\ parentOver = FALSE /\ parentCancelled = FALSE /\ toolCancelled = {}
  /\ cancelAt = "none"
  /\ stop = [c \in Call |-> "none"]

\* The token a caller passes in: the tool's, or a child of the parent turn's.
CallerCancelled(c) ==
  IF c \in Background THEN parentCancelled ELSE c \in toolCancelled

\* The subagent's token is a child of it.
Cancelled(c) == c \in stopped \/ CallerCancelled(c)

Goes(c, where) == at' = [at EXCEPT ![c] = where]

Without(queue, c) ==
  IF \E i \in DOMAIN queue : queue[i] = c
  THEN RemoveAt(queue, CHOOSE i \in DOMAIN queue : queue[i] = c)
  ELSE queue

\* Mutant: who leaves keeps its place in the queue.
ReleasesPermitsOnly(c) ==
  /\ holders' = [l \in Limiter |-> holders[l] \ {c}]
  /\ UNCHANGED waiters

\* The permits, and the place in a queue, go with the call's future.
Releases(c) ==
  /\ waiters' = [l \in Limiter |-> Without(waiters[l], c)]
  /\ holders' = [l \in Limiter |-> holders[l] \ {c}]

\* The watch channel is not looked at again.
Unread(c) == deadline' = [deadline EXCEPT ![c] = "none"]

Returns(c) ==
  /\ Goes(c, "over")
  /\ Unread(c)
  /\ outcome' = [outcome EXCEPT ![c] = None]
  /\ Releases(c)
  /\ want' = [want EXCEPT ![c] = None] /\ mine' = [mine EXCEPT ![c] = None]
  /\ UNCHANGED <<profile, current>>

-----------------------------------------------------------------------------
(* Permits.                                                                *)

\* The call: the tool runs, so the parent turn has not ended.  In goal mode a
\* requested timeout does not apply.
Begin(c) ==
  /\ at[c] = "idle" /\ ~parentOver
  /\ IF CallerCancelled(c)
     THEN Returns(c)
     ELSE /\ Goes(c, "profile")
          /\ \E d \in IF c \in Timed THEN {"none", "ahead"} ELSE {"none"} :
               deadline' = [deadline EXCEPT ![c] = d]
          /\ waiters' = [waiters EXCEPT ![<<"profile", profile[c]>>] = Append(@, c)]
          /\ UNCHANGED <<profile, want, mine, current, holders, outcome>>
  /\ UNCHANGED <<running, turn, cancels>>

Acquires(c, l) ==
  /\ waiters[l] # <<>> /\ Head(waiters[l]) = c
  /\ Cardinality(holders[l]) < l[2]
  /\ waiters' = [waiters EXCEPT ![l] = Tail(@)]
  /\ holders' = [holders EXCEPT ![l] = @ \cup {c}]

\* With the first permit the call reads the configuration, which the user may have
\* changed to any value, then takes the lock.
AcquireProfile(c) ==
  /\ at[c] = "profile"
  /\ Acquires(c, <<"profile", profile[c]>>)
  /\ \E cap \in GlobalCaps : want' = [want EXCEPT ![c] = cap]
  /\ Goes(c, "choosing")
  /\ UNCHANGED <<profile, mine, current, deadline, running, turn, outcome, cancels>>

\* A limiter of another size is replaced; its permits stay with it.
ChooseLimiter(c) ==
  /\ at[c] = "choosing"
  /\ current' = IF current # None /\ current[2] = want[c] THEN current ELSE <<c, want[c]>>
  /\ mine' = [mine EXCEPT ![c] = current']
  /\ want' = [want EXCEPT ![c] = None]
  /\ waiters' = [waiters EXCEPT ![current'] = Append(@, c)]
  /\ Goes(c, "global")
  /\ UNCHANGED <<profile, holders, deadline, running, turn, outcome, cancels>>

AcquireGlobal(c) ==
  /\ at[c] = "global"
  /\ Acquires(c, mine[c])
  /\ Goes(c, "permitted")
  /\ UNCHANGED <<profile, want, mine, current, deadline, running, turn, outcome, cancels>>

\* Mutant: the wait for a permit looks at the deadline only.
LeaveQueueLate(c) ==
  /\ at[c] \in Queued /\ deadline[c] = "past"
  /\ Returns(c)
  /\ UNCHANGED <<running, turn, cancels>>

LeaveQueue(c) ==
  /\ at[c] \in Queued
  /\ \/ CallerCancelled(c) /\ Returns(c)
     \/ deadline[c] = "past" /\ Returns(c)
  /\ UNCHANGED <<running, turn, cancels>>

-----------------------------------------------------------------------------
(* The session and its turn.                                               *)

\* The cancellation and the deadline are looked at before the session is created and
\* again after its lineage has been saved.  Either step may fail.
CreateSession(c) ==
  /\ at[c] = "permitted"
  /\ \/ Returns(c) /\ session' \in {session, [session EXCEPT ![c] = "free"]}
     \/ /\ ~CallerCancelled(c) /\ deadline[c] # "past"
        /\ session' = [session EXCEPT ![c] = "free"]
        /\ Goes(c, "created")
        /\ UNCHANGED <<permits, deadline, outcome>>
  /\ UNCHANGED <<running, record, cancels>>

\* start_persisted_turn: the session is Processing before its record is saved.
StartTurn(c) ==
  /\ at[c] = "created"
  /\ \/ Returns(c) /\ UNCHANGED session
     \/ /\ session' = [session EXCEPT ![c] = "processing"]
        /\ Goes(c, "starting")
        /\ UNCHANGED <<permits, deadline, outcome>>
  /\ UNCHANGED <<running, record, cancels>>

\* Once the turn is saved a SubagentExecutionScope looks after the execution.
Launch(c) ==
  /\ at[c] = "starting"
  /\ \/ Returns(c) /\ UNCHANGED <<task, active>>
     \/ /\ task' = [task EXCEPT ![c] = "running"]
        /\ active' = active \cup {c}
        /\ Goes(c, "running")
        /\ UNCHANGED <<permits, deadline, outcome>>
  /\ UNCHANGED <<stopped, aborted, orphans, turn, cancels>>

-----------------------------------------------------------------------------
(* The wait for the end, a cancellation or the deadline.                   *)

Verdict(t) == CASE t = "done" -> "completed"
                [] t = "cancelled" -> "cancelled"
                [] OTHER -> "failed"

\* What an ended execution has returned is taken, and its token means nothing more.
Joins(c) ==
  /\ task' = [task EXCEPT ![c] = IF @ = "running" THEN @ ELSE "gone"]
  /\ stopped' = IF task[c] = "running" THEN stopped ELSE stopped \ {c}

Completed(c) ==
  /\ at[c] = "running" /\ task[c] \in Ended
  /\ Joins(c)
  /\ outcome' = [outcome EXCEPT ![c] = Verdict(task[c])]
  /\ Goes(c, "settling")
  /\ Unread(c)
  /\ UNCHANGED <<permits, active, aborted, orphans, turn, cancels>>

\* The engine's token and the subagent's are one.
Stops(c) ==
  /\ stopped' = stopped \cup {c}
  /\ UNCHANGED <<permits, active, task, aborted, orphans, turn, outcome, cancels>>

NoticeCancel(c) ==
  /\ at[c] = "running" /\ Cancelled(c)
  /\ Goes(c, "cancelling") /\ Stops(c) /\ Unread(c)

NoticeDeadline(c) ==
  /\ at[c] = "running" /\ deadline[c] = "past"
  /\ Goes(c, "expiring") /\ Stops(c) /\ UNCHANGED deadline

\* Mutant: an execution that is not over in time is left to itself.
GraceDetaches(c) ==
  /\ at[c] \in {"cancelling", "expiring"}
  /\ Joins(c)
  /\ outcome' = [outcome EXCEPT ![c] = IF at[c] = "cancelling" THEN "cancelled" ELSE "timeout"]
  /\ Goes(c, "settling")
  /\ UNCHANGED <<permits, deadline, active, aborted, orphans, turn, cancels>>

\* The grace period: the execution ends, or time is up and it is aborted.  What a
\* timed out execution has written is kept; what a cancelled one has is not.
Grace(c) ==
  /\ at[c] \in {"cancelling", "expiring"}
  /\ Joins(c)
  /\ aborted' = IF task[c] = "running" THEN aborted \cup {c} ELSE aborted
  /\ \E r \in CASE at[c] = "cancelling" -> {"cancelled"}
               [] task[c] = "done" -> {"partial", "timeout"}
               [] OTHER -> {"timeout"} :
       outcome' = [outcome EXCEPT ![c] = r]
  /\ Goes(c, "settling")
  /\ UNCHANGED <<permits, deadline, active, orphans, turn, cancels>>

\* update_session_state_for_turn_if_processing and reset_session_state_if_processing
Frees(c) == session' = [session EXCEPT ![c] = IF @ = "processing" THEN "free" ELSE @]

\* Mutant: a timeout is recorded under its own name.
RecordOfItself(r) == IF r \in {"completed", "partial"} THEN "completed" ELSE r

RecordOf(r) == CASE r \in {"completed", "partial"} -> "completed"
                 [] r = "cancelled" -> "cancelled"
                 [] OTHER -> "error"

\* Mutant: an execution whose token was triggered is recorded as cancelled.
SettleByToken(c) ==
  /\ at[c] = "settling"
  /\ record' = [record EXCEPT ![c] = IF outcome[c] \in {"timeout", "cancelled"}
                                     THEN "cancelled" ELSE RecordOf(outcome[c])]
  /\ Frees(c)
  /\ Goes(c, "cleaning")
  /\ UNCHANGED <<permits, deadline, running, outcome, cancels>>

\* persist_completed, _cancelled or _failed_dialog_turn
Settle(c) ==
  /\ at[c] = "settling"
  /\ record' = [record EXCEPT ![c] = RecordOf(outcome[c])]
  /\ Frees(c)
  /\ Goes(c, "cleaning")
  /\ UNCHANGED <<permits, deadline, running, outcome, cancels>>

Finish(c) ==
  /\ at[c] = "cleaning"
  /\ active' = active \ {c}
  /\ Returns(c)
  /\ UNCHANGED <<stopped, task, aborted, orphans, turn, cancels>>

\* Mutant: nothing looks after the execution of a dropped future.
DropDetaches(c) ==
  /\ c \in toolCancelled /\ at[c] \in Early \cup Armed
  /\ Returns(c)
  /\ UNCHANGED <<running, turn, cancels>>

\* The cancelled tool drops the future.  The scope stops the execution.
Drop(c) ==
  /\ c \in toolCancelled /\ at[c] \in Early \cup Armed
  /\ Returns(c)
  /\ IF at[c] \in Armed
     THEN /\ task' = [task EXCEPT ![c] = IF @ = "running" THEN @ ELSE "gone"]
          /\ stopped' = IF task[c] = "running" THEN stopped \cup {c} ELSE stopped \ {c}
          /\ aborted' = IF task[c] = "running" THEN aborted \cup {c} ELSE aborted
          /\ active' = active \ {c}
          /\ orphans' = orphans \cup {c}
     ELSE UNCHANGED <<task, stopped, aborted, active, orphans>>
  /\ UNCHANGED <<turn, cancels>>

\* Mutant: the session is not set back.
OrphanCleanupKeepsSession(c) ==
  /\ c \in orphans
  /\ orphans' = orphans \ {c}
  /\ UNCHANGED <<at, permits, deadline, active, stopped, task, aborted, turn, outcome, cancels>>

\* The task that the scope's drop spawns.
OrphanCleanup(c) ==
  /\ c \in orphans
  /\ orphans' = orphans \ {c}
  /\ Frees(c)
  /\ UNCHANGED <<at, permits, deadline, active, stopped, task, aborted, record, outcome,
                 cancels>>

\* The execution returns, is aborted or panics.
TaskEnds(c) ==
  /\ task[c] = "running"
  /\ \E t \in Ended :
       /\ t = "cancelled" => Cancelled(c)
       /\ task' = [task EXCEPT ![c] =
                     IF at[c] \in {"running", "cancelling", "expiring"} THEN t ELSE "gone"]
  /\ aborted' = aborted \ {c}
  /\ stopped' = IF task'[c] = "gone" THEN stopped \ {c} ELSE stopped
  /\ UNCHANGED <<at, permits, deadline, active, orphans, turn, outcome, cancels>>

-----------------------------------------------------------------------------
(* The parent turn, its users, and time.                                   *)

\* No foreground call is left.
ParentEnds ==
  /\ ~parentOver /\ \A c \in Call \ Background : at[c] \in {"idle", "over"}
  /\ parentOver' = TRUE
  /\ UNCHANGED <<at, permits, deadline, running, turn, outcome, parentCancelled, toolCancelled,
                 cancelAt, stop>>

InTool == {c \in Call \ Background : at[c] \notin {"idle", "over"}}

\* cancel_tool of a tool that awaits its subagent
CancelTool(c) ==
  /\ c \in InTool
  /\ toolCancelled' = toolCancelled \cup {c}
  /\ UNCHANGED <<at, permits, deadline, running, turn, outcome, parentOver, parentCancelled,
                 cancelAt, stop>>

\* cancel_dialog_turn of the parent turn: the token, which only a turn that runs has,
\* and the tools,
CancelParent ==
  /\ cancelAt = "none"
  /\ parentCancelled' = ~parentOver
  /\ toolCancelled' = toolCancelled \cup InTool
  /\ cancelAt' = "tools"
  /\ UNCHANGED <<at, permits, deadline, running, turn, outcome, parentOver, stop>>

\* then the executions that are active,
ListActive ==
  /\ cancelAt = "tools"
  /\ stop' = [c \in Call |-> IF c \in active THEN "listed" ELSE stop[c]]
  /\ cancelAt' = "listed"
  /\ UNCHANGED <<at, permits, deadline, running, turn, outcome, parentOver, parentCancelled,
                 toolCancelled>>

\* one after the other: its token and its abort handle,
StopExecution(c) ==
  /\ stop[c] = "listed" /\ \A d \in Call : stop[d] # "triggered"
  /\ stop' = [stop EXCEPT ![c] = "triggered"]
  /\ stopped' = IF task[c] = "gone" THEN stopped ELSE stopped \cup {c}
  /\ aborted' = IF task[c] = "running" THEN aborted \cup {c} ELSE aborted
  /\ UNCHANGED <<at, permits, deadline, active, task, orphans, turn, outcome, parentOver,
                 parentCancelled, toolCancelled, cancelAt>>

\* then its record and its state.
SettleStopped(c) ==
  /\ stop[c] = "triggered"
  /\ stop' = [stop EXCEPT ![c] = "none"]
  /\ record' = [record EXCEPT ![c] = "cancelled"]
  /\ Frees(c)
  /\ active' = active \ {c}
  /\ UNCHANGED <<at, permits, deadline, stopped, task, aborted, orphans, outcome,
                 parentOver, parentCancelled, toolCancelled, cancelAt>>

DeadlinePasses(c) ==
  /\ deadline[c] = "ahead"
  /\ deadline' = [deadline EXCEPT ![c] = "past"]
  /\ UNCHANGED <<at, permits, running, turn, outcome, cancels>>

\* SubagentTimeoutHandle: disabled, restored with what was left of the time, which
\* may be nothing, or extended.
AdjustTimeout(c) ==
  /\ c \in Timed /\ at[c] = "running"
  /\ \E d \in {"none", "ahead", "past"} : deadline' = [deadline EXCEPT ![c] = d]
  /\ UNCHANGED <<at, permits, running, turn, outcome, cancels>>

-----------------------------------------------------------------------------
\* The call's own steps.
CallStep(c) ==
  \/ AcquireProfile(c) \/ ChooseLimiter(c) \/ AcquireGlobal(c) \/ LeaveQueue(c)
  \/ CreateSession(c) \/ StartTurn(c) \/ Launch(c)
  \/ Completed(c) \/ NoticeCancel(c) \/ NoticeDeadline(c) \/ Grace(c)
  \/ Settle(c) \/ Finish(c) \/ Drop(c)

\* The spawned tasks that end by themselves, and the stop of an execution.
Spawned(c) ==
  \/ OrphanCleanup(c)
  \/ StopExecution(c) \/ SettleStopped(c)

Outside(c) ==
  \/ Begin(c) \/ CancelTool(c)
  \/ DeadlinePasses(c) \/ AdjustTimeout(c)

Next ==
  \/ \E c \in Call : CallStep(c) \/ Spawned(c) \/ TaskEnds(c) \/ Outside(c)
  \/ ListActive \/ CancelParent \/ ParentEnds

Spec == Init /\ [][Next]_vars

Helps == ListActive \/ \E c \in Call : Spawned(c) \/ (c \in aborted /\ TaskEnds(c))

\* A future that can go on is polled, and an aborted task is dropped at its next
\* await.  Nothing makes an execution end by itself.
Fairness == WF_vars(Helps) /\ \A c \in Call : WF_vars(CallStep(c))

FairSpec == Spec /\ Fairness

-----------------------------------------------------------------------------
TypeOK ==
  /\ at \in [Call -> Early \cup Armed \cup {"idle", "over"}]
  /\ profile \in [Call -> ProfileCaps] /\ want \in [Call -> GlobalCaps \cup {None}]
  /\ mine \in [Call -> GlobalLimiter \cup {None}] /\ current \in GlobalLimiter \cup {None}
  /\ waiters \in [Limiter -> Seq(Call)] /\ holders \in [Limiter -> SUBSET Call]
  /\ deadline \in [Call -> {"none", "ahead", "past"}]
  /\ active \subseteq Call /\ stopped \subseteq Call /\ aborted \subseteq Call /\ orphans \subseteq Call
  /\ session \in [Call -> {"none", "free", "processing"}]
  /\ record \in [Call -> {None, "completed", "cancelled", "error"}]
  /\ task \in [Call -> {"none", "running", "gone"} \cup Ended]
  /\ outcome \in [Call -> Outcome \cup {None}]
  /\ parentOver \in BOOLEAN /\ parentCancelled \in BOOLEAN
  /\ toolCancelled \subseteq Call \ Background
  /\ cancelAt \in {"none", "tools", "listed"}
  /\ stop \in [Call -> {"none", "listed", "triggered"}]

Holds(c) == /\ c \in holders[<<"profile", profile[c]>>]
            /\ mine[c] # None /\ c \in holders[mine[c]]

\* An execution that runs without the two permits has been aborted: the limits
\* bound what runs, whichever way calls end (SubagentConcurrencyPermitGuard).
RunningHoldsPermits ==
  \A c \in Call : task[c] = "running" => Holds(c) \/ c \in aborted

\* A call that is over holds no permit, is no longer active, and its execution has
\* ended or is aborted: "Ensures orphaned subagent work is stopped when the parent
\* tool await is dropped" (coordinator.rs:268).
NothingLeft ==
  \A c \in Call : Over(c) =>
    /\ \A l \in Limiter : c \notin holders[l]
    /\ c \notin active
    /\ task[c] = "running" => c \in aborted

\* The session of a call that launched its execution does not stay Processing once
\* the call is over and its clean-up has run.
SessionIsFreed ==
  \A c \in Call : Over(c) /\ task[c] # "none" /\ session[c] = "processing" => c \in orphans

\* What a call is about to return agrees with the record of its turn, or the cancel
\* of the parent turn, which settles executions that may be ending, has written it.
RecordAgrees ==
  \A c \in Call : at[c] = "cleaning" =>
    record[c] = RecordOf(outcome[c]) \/ (record[c] = "cancelled" /\ cancelAt = "listed")

Stopping(c) == at[c] # "idle" /\ (\/ Cancelled(c) \/ deadline[c] = "past"
                                   \/ at[c] \in Armed \ {"running"} \/ Over(c))

Settled(c) == Over(c) /\ c \notin orphans /\ task[c] # "running"

\* A call that is cancelled, or past a deadline that nobody moves, is over at last and
\* leaves no execution or clean-up behind, whether it waits for a permit, prepares its
\* turn or waits for an execution that does not react (the grace periods of
\* execute_hidden_subagent_internal).
StoppedCallsEnd == \A c \in Call : []<>(Stopping(c) => Settled(c))

\* If every execution ends, every waiting call gets its permits or leaves: a call
\* that holds one permit and waits for the other blocks nobody for ever
\* (acquire_subagent_concurrency_permit).
WaitersAreServed ==
  (\A c \in Call : []<>(task[c] # "running")) => \A c \in Call : []<>(at[c] \notin Queued)
=============================================================================
