-------------------------------- MODULE Cron --------------------------------
(***************************************************************************)
(* CronService (service/cron/): scheduled jobs, the loop that triggers     *)
(* them, the turns they submit to the dialog scheduler and the turn events *)
(* that free a job for its next run.  The jobs live in memory and are      *)
(* saved as a whole; a restart reads them back.                            *)
(*                                                                         *)
(* Every operation runs under mutation_lock and the write lock of `jobs`,  *)
(* so it is one action, except that process_job keeps both locks while it  *)
(* awaits DialogScheduler::submit.                                         *)
(*                                                                         *)
(* Faults: a save fails; a submission fails, although its turn is queued   *)
(* or runs; the future of a run_job_now is dropped at an await; a turn     *)
(* that has run is put back in the queue; queued turns are cleared, which  *)
(* makes no event; an event is dropped by a full queue; the process        *)
(* restarts at any point.  Names, payloads, sessions, statuses and         *)
(* counters of a job, and its event handlers' log, are left out.           *)
(***************************************************************************)
EXTENDS Integers, FiniteSets

CONSTANTS
  Job,           \* job ids
  User,          \* tasks that call run_job_now
  MaxTriggers,   \* bound: triggers of one job
  MaxIncidents   \* bound: updates and faults

ASSUME CronAssumption ==
  /\ MaxTriggers \in Nat \ {0} /\ MaxIncidents \in Nat
  /\ "loop" \notin User

Trigger == 1 .. MaxTriggers  \* the times at which a job was triggered
None == 0
Turn == Job \X Trigger       \* the turn id names the job and the trigger

Caller == User \cup {"loop"}

\* A time is unset, in the future or due; retry_at is in the future or not.
Time == {"none", "future", "due"}

CronJob == [enabled: BOOLEAN,
            once: BOOLEAN,                   \* is_one_shot: an `at` schedule
            flaw: {"none", "fields", "schedule"},  \* what fails to validate
            next: Time,                      \* state.next_run_at_ms
            pending: Trigger \cup {None},    \* state.pending_trigger_at_ms
            waits: BOOLEAN,                  \* state.retry_at_ms is in the future
            active: Trigger \cup {None},     \* state.active_turn_id
            ran: BOOLEAN]                    \* state.last_enqueued_at_ms is set

VARIABLES
  jobs,      \* CronService::jobs, a function on the ids of the jobs
  disk,      \* jobs.json
  stale,     \* the last save has failed or was given up
  lock,      \* who awaits submit with the locks, for which turn, and how far it is
  permit,    \* the permit stored in CronService::wakeup
  loop,      \* where run_loop stands
  todo,      \* due_job_ids still to process
  want,      \* the job a run_job_now is about to process
  \* The jobs' turns in the dialog scheduler, by copies of one turn id:
  queued,    \* in the queue of the session
  running,   \* running in the session
  unresolved,  \* dispatched; start_turn will not find them in the session
  starts,    \* DialogTurnStarted, not yet handled
  ends,      \* DialogTurnCompleted, Failed or Cancelled, not yet handled
  \* What has happened so far, for bounds and properties:
  born,      \* the ids ever created
  count,     \* the triggers of a job so far
  known,     \* the turns ever given to the dialog scheduler
  astray,    \* the turns there though their submission failed or was dropped, and
             \* the turns put back after they had run
  lost,      \* the turns of which an end was never reported
  settled,   \* the jobs a user has updated or whose session is missing
  incidents

store == <<jobs, disk, stale>>
runner == <<loop, todo, want>>
dialog == <<queued, running, unresolved, starts, ends, known, astray, lost>>
vars == <<store, lock, permit, runner, dialog, born, count, settled, incidents>>

Free == [by |-> "none", turn |-> <<>>, at |-> "free"]

Init ==
  /\ jobs = [j \in {} |-> {}] /\ disk = jobs /\ stale = FALSE
  /\ lock = Free /\ permit = FALSE
  /\ loop = "look" /\ todo = {} /\ want = [u \in User |-> {}]
  /\ queued = [t \in Turn |-> 0] /\ running = queued /\ unresolved = {}
  /\ starts = queued /\ ends = queued
  /\ known = {} /\ astray = {} /\ lost = {}
  /\ born = {} /\ count = [j \in Job |-> 0] /\ settled = {}
  /\ incidents = 0

Costs(n) == incidents + n <= MaxIncidents /\ incidents' = incidents + n
Incident == Costs(1)

-----------------------------------------------------------------------------
(* Saving and computing times.                                             *)

\* What a file keeps of a time: whether it has come is seen when it is read.
Stored(all) ==
  [j \in DOMAIN all |-> [all[j] EXCEPT !.next = IF @ = "none" THEN "none" ELSE "future"]]

\* persist_jobs_locked: the file is replaced whole, or the call fails and the
\* caller returns the error with memory already changed.  A caller that is dropped
\* here, with its tool call, may have replaced the file.
Writes(all, ok) ==
  /\ jobs' = all
  /\ disk' \in {Stored(all)} \cup (IF ok THEN {} ELSE {disk})
  /\ stale' = ~ok

Saves(all, ok) == Writes(all, ok) /\ Costs(IF ok THEN 0 ELSE 1)

\* ... and most callers wake the loop up after it.
SavesAndNotifies(all, ok) == Saves(all, ok) /\ permit' = (permit \/ ok)

With(all, j, job) == [k \in DOMAIN all \cup {j} |-> IF k = j THEN job ELSE all[k]]

\* compute_next_run_after_ms, for a job whose time has come.
NextRunAfter(job) == IF job.once THEN "none" ELSE "future"

\* compute_initial_next_run_at_ms: an `at` may be in the past.
InitialNextRun(job) ==
  IF job.once
  THEN IF job.ran \/ job.active # None THEN {"none"} ELSE {"future", "due"}
  ELSE {"future"}

HasPending(job) == job.pending # None
PendingIsDue(job) == HasPending(job) /\ ~job.waits
HasWakeup(job) == job.next # "none" \/ HasPending(job)
IsDue(job) == job.next = "due" \/ PendingIsDue(job)

\* Who holds no lock may take it, once the service is up.
Unlocked == lock = Free /\ loop # "absent"

-----------------------------------------------------------------------------
(* The operations of the tool and of the job list.                         *)

NewJob(enabled, once) ==
  [enabled |-> enabled, once |-> once, flaw |-> "none", next |-> "none", pending |-> None,
   waits |-> FALSE, active |-> None, ran |-> FALSE]

CreateJob(j) ==
  /\ Unlocked /\ j \notin born
  /\ \E enabled, once, ok \in BOOLEAN :
       LET new == NewJob(enabled, once)
       IN /\ \E next \in IF enabled THEN InitialNextRun(new) ELSE {"none"} :
               SavesAndNotifies(With(jobs, j, [new EXCEPT !.next = next]), ok)
          /\ settled' = IF enabled THEN settled ELSE settled \cup {j}
  /\ born' = born \cup {j}
  /\ UNCHANGED <<lock, runner, dialog, count>>

\* update_job and set_job_enabled.  A pending trigger is forgotten.
Updated(job, enabled, once) ==
  [job EXCEPT !.enabled = enabled, !.once = once, !.flaw = "none",
              !.pending = None, !.waits = FALSE]

UpdatedNext(job) ==
  CASE ~job.enabled -> {"none"}
    [] job.enabled /\ job.active # None ->
         {IF job.once THEN "none" ELSE "future"}
    [] job.enabled /\ job.active = None -> InitialNextRun(job)

UpdateJob(j) ==
  /\ Unlocked /\ j \in DOMAIN jobs
  /\ \E enabled, once, ok \in BOOLEAN :
       LET new == Updated(jobs[j], enabled, once)
       IN /\ \E next \in UpdatedNext(new) :
               Writes(With(jobs, j, [new EXCEPT !.next = next]), ok)
          /\ permit' = (permit \/ ok)
          /\ Costs(IF ok THEN 1 ELSE 2)
  /\ settled' = settled \cup {j}
  /\ UNCHANGED <<lock, runner, dialog, born, count>>

\* A name, a payload or a schedule is rejected when the job in memory has it, and
\* what else the request says, already.
UpdateRejected(j) ==
  /\ Unlocked /\ j \in DOMAIN jobs /\ Incident
  /\ \E enabled, once \in BOOLEAN, flaw \in {"fields", "schedule"} :
       jobs' = [jobs EXCEPT ![j].enabled = enabled, ![j].once = once, ![j].flaw = flaw]
  /\ settled' = settled \cup {j}
  /\ UNCHANGED <<disk, stale, lock, permit, runner, dialog, born, count>>

\* delete_job and delete_jobs_for_session.
DeleteJobs(gone) ==
  /\ Unlocked /\ gone # {}
  /\ \E ok \in BOOLEAN : SavesAndNotifies([j \in DOMAIN jobs \ gone |-> jobs[j]], ok)
  /\ UNCHANGED <<lock, runner, dialog, born, count, settled>>

\* Mutant: does not wake the loop up.
RunJobNowQuietly(u, j) ==
  /\ Unlocked /\ want[u] = {} /\ j \in DOMAIN jobs /\ count[j] < MaxTriggers
  /\ count' = [count EXCEPT ![j] = @ + 1]
  /\ \E ok \in BOOLEAN :
       /\ Saves(With(jobs, j, [jobs[j] EXCEPT !.pending = count[j] + 1, !.waits = FALSE]), ok)
       /\ want' = IF ok THEN [want EXCEPT ![u] = {j}] ELSE want
  /\ UNCHANGED <<lock, permit, loop, todo, dialog, born, settled>>

\* The first half of run_job_now; the second is process_job.
RunJobNow(u, j) ==
  /\ Unlocked /\ want[u] = {} /\ j \in DOMAIN jobs /\ count[j] < MaxTriggers
  /\ count' = [count EXCEPT ![j] = @ + 1]
  /\ \E ok \in BOOLEAN :
       /\ SavesAndNotifies(With(jobs, j, [jobs[j] EXCEPT !.pending = count[j] + 1,
                                                         !.waits = FALSE]), ok)
       /\ want' = IF ok THEN [want EXCEPT ![u] = {j}] ELSE want
  /\ UNCHANGED <<lock, loop, todo, dialog, born, settled>>

-----------------------------------------------------------------------------
(* process_job, called by the loop and by run_job_now.                     *)

Processes(c, j) == IF c = "loop" THEN loop = "process" /\ j \in todo ELSE j \in want[c]

\* An error ends process_due_jobs; the loop then sleeps for a second.
Returns(c, j, ok) ==
  IF c = "loop"
  THEN /\ todo' = IF ok THEN todo \ {j} ELSE {}
       /\ loop' = CASE ~ok -> "backoff"
                    [] ok /\ todo = {j} -> "look"
                    [] ok /\ todo # {j} -> "process"
       /\ want' = want
  ELSE want' = [want EXCEPT ![c] = {}] /\ UNCHANGED <<loop, todo>>

\* Neither a turn nor a trigger of the job is there to coalesce with.
Idle(job) == job.active = None /\ ~HasPending(job)

\* Mutant: the trigger is one ahead of the count.
TriggeredAhead(job, n) ==
  IF Idle(job) THEN [job EXCEPT !.pending = n + 1, !.waits = FALSE] ELSE job

\* Mutant: a one-shot job is disabled when it is triggered.
TriggeredDisables(job, n) ==
  IF Idle(job)
  THEN [job EXCEPT !.pending = n, !.waits = FALSE, !.enabled = @ /\ ~job.once]
  ELSE job

Triggered(job, n) == IF Idle(job) THEN [job EXCEPT !.pending = n, !.waits = FALSE] ELSE job

\* Mutant: submits while a turn of the job is active.
MaySubmitBusy(job) == PendingIsDue(job)

MaySubmit(job) == job.active = None /\ PendingIsDue(job)

\* Who processes the job, and finds it at work.
Takes(c, j) ==
  /\ Unlocked /\ Processes(c, j) /\ j \in DOMAIN jobs
  /\ jobs[j].enabled \/ HasPending(jobs[j])

Submits(c, j, job) ==
  IF MaySubmit(job)
  THEN lock' = [by |-> c, turn |-> <<j, job.pending>>, at |-> "submit"] /\ UNCHANGED runner
  ELSE lock' = lock /\ Returns(c, j, TRUE)

\* The job is deleted, or disabled with nothing pending.
ProcessNothing(c, j) ==
  /\ Unlocked /\ Processes(c, j)
  /\ j \in DOMAIN jobs => ~jobs[j].enabled /\ ~HasPending(jobs[j])
  /\ Returns(c, j, TRUE)
  /\ UNCHANGED <<store, lock, permit, dialog, born, count, settled, incidents>>

ProcessPending(c, j) ==
  /\ Takes(c, j) /\ jobs[j].next # "due"
  /\ Submits(c, j, jobs[j])
  /\ UNCHANGED <<store, permit, dialog, born, count, settled, incidents>>

\* A change to the job is saved before the submission.
ProcessDue(c, j) ==
  /\ Takes(c, j) /\ jobs[j].next = "due" /\ jobs[j].flaw # "schedule"
  /\ Idle(jobs[j]) => count[j] < MaxTriggers
  /\ count' = IF Idle(jobs[j]) THEN [count EXCEPT ![j] = @ + 1] ELSE count
  /\ LET new == [Triggered(jobs[j], count'[j]) EXCEPT !.next = NextRunAfter(jobs[j])]
     IN \E ok \in BOOLEAN :
          /\ Saves(With(jobs, j, new), ok)
          /\ IF ok THEN Submits(c, j, new) ELSE lock' = lock /\ Returns(c, j, FALSE)
  /\ UNCHANGED <<permit, dialog, born, settled>>

\* compute_next_run_after_ms fails on a schedule that update_job has rejected,
\* when memory has the trigger already.
ProcessRejected(c, j) ==
  /\ Takes(c, j) /\ jobs[j].next = "due" /\ jobs[j].flaw = "schedule"
  /\ Idle(jobs[j]) => count[j] < MaxTriggers
  /\ count' = IF Idle(jobs[j]) THEN [count EXCEPT ![j] = @ + 1] ELSE count
  /\ jobs' = [jobs EXCEPT ![j] = Triggered(@, count'[j])]
  /\ Returns(c, j, FALSE)
  /\ UNCHANGED <<disk, stale, lock, permit, dialog, born, settled, incidents>>

\* DialogScheduler::submit, which holds up everything else here.
SubmitReaches(from, to) == lock.at = from /\ lock' = [lock EXCEPT !.at = to]

More(copies, t) == [copies EXCEPT ![t] = @ + 1]
Fewer(copies, t) == [copies EXCEPT ![t] = @ - 1]

SubmitQueues ==
  /\ SubmitReaches("submit", "accepted")
  /\ queued' = More(queued, lock.turn) /\ known' = known \cup {lock.turn}
  /\ UNCHANGED <<store, permit, runner, running, unresolved, starts, ends, astray, lost>>
  /\ UNCHANGED <<born, count, settled, incidents>>

\* The turn starts at once; start_turn then looks for it in the session.
SubmitStarts ==
  /\ SubmitReaches("submit", "started")
  /\ running' = More(running, lock.turn) /\ starts' = More(starts, lock.turn)
  /\ known' = known \cup {lock.turn}
  /\ UNCHANGED <<store, permit, runner, queued, unresolved, ends, astray, lost>>
  /\ UNCHANGED <<born, count, settled, incidents>>

SubmitResolves ==
  /\ SubmitReaches("started", "accepted")
  /\ UNCHANGED <<store, permit, runner, dialog, born, count, settled, incidents>>

\* The session's metadata is gone.
SubmitFindsNoSession ==
  /\ SubmitReaches("submit", "missing")
  /\ UNCHANGED <<store, permit, runner, dialog, born, count, settled, incidents>>

\* Any other error, with nothing queued.
SubmitFails ==
  /\ SubmitReaches("submit", "failed") /\ Incident
  /\ UNCHANGED <<store, permit, runner, dialog, born, count, settled>>

\* The message is in the queue when the head of the queue fails to start.
SubmitFailsQueued ==
  /\ SubmitReaches("submit", "failed") /\ Incident
  /\ queued' = More(queued, lock.turn)
  /\ known' = known \cup {lock.turn} /\ astray' = astray \cup {lock.turn}
  /\ UNCHANGED <<store, permit, runner, running, unresolved, starts, ends, lost>>
  /\ UNCHANGED <<born, count, settled>>

\* The turn is over, or was cancelled, before start_turn looks for it.  A message
\* that came from the queue is put back.
SubmitFailsStarted ==
  /\ SubmitReaches("started", "failed") /\ Incident
  /\ queued' \in {queued, More(queued, lock.turn)}
  /\ astray' = astray \cup {lock.turn}
  /\ UNCHANGED <<store, permit, runner, running, unresolved, starts, ends, known, lost>>
  /\ UNCHANGED <<born, count, settled>>

\* A run_job_now of the Cron tool is dropped with its tool call, while it waits for
\* the locks or for submit.
CallDropped(u) ==
  /\ want[u] # {} /\ Incident
  /\ want' = [want EXCEPT ![u] = {}]
  /\ IF lock.by = u
     THEN /\ lock.at \in {"submit", "started", "accepted"} /\ lock' = Free
          /\ astray' = IF lock.at = "submit" THEN astray ELSE astray \cup {lock.turn}
     ELSE UNCHANGED <<lock, astray>>
  /\ UNCHANGED <<store, permit, loop, todo, queued, running, unresolved, starts, ends>>
  /\ UNCHANGED <<known, lost, born, count, settled>>

\* What the answer makes of the job.
Answered(job, n, answer) ==
  CASE answer = "accepted" ->
         [job EXCEPT !.active = n, !.pending = None, !.waits = FALSE, !.ran = TRUE,
                     !.enabled = @ /\ ~job.once,
                     !.next = IF job.once THEN "none" ELSE @]
    [] answer = "missing" ->
         [job EXCEPT !.enabled = FALSE, !.next = "none", !.pending = None, !.waits = FALSE]
    [] answer = "failed" -> [job EXCEPT !.waits = TRUE]

ProcessEnds ==
  /\ lock.at \in {"accepted", "missing", "failed"}
  /\ LET j == lock.turn[1]
     IN /\ \E ok \in BOOLEAN :
             /\ SavesAndNotifies(With(jobs, j, Answered(jobs[j], lock.turn[2], lock.at)), ok)
             /\ Returns(lock.by, j, ok)
        /\ settled' = IF lock.at = "missing" THEN settled \cup {j} ELSE settled
  /\ lock' = Free
  /\ UNCHANGED <<dialog, born, count>>

-----------------------------------------------------------------------------
(* run_loop.                                                               *)

\* next_wakeup_at.
LoopLooks ==
  /\ loop = "look" /\ Unlocked
  /\ loop' = CASE \E j \in DOMAIN jobs : IsDue(jobs[j]) -> "list"
               [] \A j \in DOMAIN jobs : ~HasWakeup(jobs[j]) -> "wait"
               [] OTHER -> "sleep"
  /\ UNCHANGED <<store, lock, permit, todo, want, dialog, born, count, settled, incidents>>

LoopNotified ==
  /\ loop \in {"sleep", "wait"} /\ permit
  /\ permit' = FALSE /\ loop' = "look"
  /\ UNCHANGED <<store, lock, todo, want, dialog, born, count, settled, incidents>>

\* The sleep until the next wake-up, or the second after an error, is over.
LoopTimer ==
  /\ \/ loop = "sleep" /\ loop' = "list"
     \/ loop = "backoff" /\ loop' = "look"
  /\ UNCHANGED <<store, lock, permit, todo, want, dialog, born, count, settled, incidents>>

\* The head of process_due_jobs.
LoopLists ==
  /\ loop = "list" /\ Unlocked
  /\ todo' = {j \in DOMAIN jobs : IsDue(jobs[j])}
  /\ loop' = IF todo' = {} THEN "look" ELSE "process"
  /\ UNCHANGED <<store, lock, permit, want, dialog, born, count, settled, incidents>>

-----------------------------------------------------------------------------
(* The turns, their events and CronEventSubscriber.                        *)

\* The scheduler dispatches a queued turn.
TurnStarts(t) ==
  /\ queued[t] > 0
  /\ queued' = Fewer(queued, t) /\ running' = More(running, t) /\ starts' = More(starts, t)
  /\ \/ UNCHANGED <<unresolved, incidents>>
     \/ t \notin unresolved /\ unresolved' = unresolved \cup {t} /\ Incident
  /\ UNCHANGED <<store, lock, permit, runner, ends, known, astray, lost, born, count, settled>>

\* start_turn does not find the turn it has started: the message is put back.
PutBack(t) ==
  /\ t \in unresolved
  /\ unresolved' = unresolved \ {t} /\ queued' = More(queued, t)
  /\ astray' = astray \cup {t}
  /\ UNCHANGED <<store, lock, permit, runner, running, starts, ends, known, lost>>
  /\ UNCHANGED <<born, count, settled, incidents>>

TurnEnds(t) ==
  /\ running[t] > 0
  /\ running' = Fewer(running, t) /\ ends' = More(ends, t)
  /\ UNCHANGED <<store, lock, permit, runner, queued, unresolved, starts, known, astray, lost>>
  /\ UNCHANGED <<born, count, settled, incidents>>

\* Queued turns go with the queue of their session, when the turn before them has
\* failed or was cancelled, or one by one with a future that was starting it;
\* nobody is told.
QueueCleared(gone) ==
  /\ gone # {} /\ Incident
  /\ queued' = [t \in Turn |-> IF t \in gone THEN 0 ELSE queued[t]]
  /\ lost' = lost \cup gone
  /\ UNCHANGED <<store, lock, permit, runner, running, unresolved, starts, ends, known, astray>>
  /\ UNCHANGED <<born, count, settled>>

\* The event queue is full.
EventDropped(t) ==
  /\ ends[t] > 0 /\ Incident
  /\ ends' = Fewer(ends, t) /\ lost' = lost \cup {t}
  /\ UNCHANGED <<store, lock, permit, runner, queued, running, unresolved, starts, known, astray>>
  /\ UNCHANGED <<born, count, settled>>

\* handle_turn_state_change: what an event makes of the job that waits for its turn.
Waiting(t) == {j \in DOMAIN jobs : jobs[j].active # None /\ <<j, jobs[j].active>> = t}

Told(t, ended) ==
  \/ /\ Waiting(t) = {}
     /\ UNCHANGED <<store, permit, incidents>>
  \/ \E j \in Waiting(t), ok \in BOOLEAN :
       SavesAndNotifies(With(jobs, j, IF ended THEN [jobs[j] EXCEPT !.active = None] ELSE jobs[j]),
                        ok)

\* handle_turn_started, _completed, _failed and _cancelled.
Handles(t) ==
  /\ \/ starts[t] > 0 /\ starts' = Fewer(starts, t) /\ ends' = ends /\ Told(t, FALSE)
     \/ ends[t] > 0 /\ ends' = Fewer(ends, t) /\ starts' = starts /\ Told(t, TRUE)
  /\ UNCHANGED <<lock, runner, queued, running, unresolved, known, astray, lost>>
  /\ UNCHANGED <<born, count, settled>>

\* Mutant: does not wait for a submission.
HandleTurnEventUnlocked(t) == loop # "absent" /\ Handles(t)

HandleTurnEvent(t) == Unlocked /\ Handles(t)

-----------------------------------------------------------------------------
(* Time and restarts.                                                      *)

NextRunComes(j) ==
  /\ j \in DOMAIN jobs /\ jobs[j].next = "future"
  /\ jobs' = [jobs EXCEPT ![j].next = "due"]
  /\ UNCHANGED <<disk, stale, lock, permit, runner, dialog, born, count, settled, incidents>>

\* DEFAULT_RETRY_DELAY_MS is over.
RetryComes(j) ==
  /\ j \in DOMAIN jobs /\ jobs[j].waits
  /\ jobs' = [jobs EXCEPT ![j].waits = FALSE]
  /\ UNCHANGED <<disk, stale, lock, permit, runner, dialog, born, count, settled, incidents>>

\* reconcile_loaded_job: the run of a job died with the process.
Abandoned(job) ==
  IF job.active = None THEN job
  ELSE [job EXCEPT !.active = None, !.pending = None, !.waits = FALSE]

ReconciledNext(job) ==
  CASE job.next # "none" -> {"future", "due"}
    [] job.next = "none" /\ HasPending(job) -> {"none"}
    [] job.next = "none" /\ ~HasPending(job) -> InitialNextRun(job)

Disabled(job) == [job EXCEPT !.next = "none", !.pending = None, !.waits = FALSE]
Resumed(job, next) == [job EXCEPT !.next = next]

Reconciled(job) ==
  IF job.enabled
  THEN {Resumed(Abandoned(job), next) : next \in ReconciledNext(Abandoned(job))}
  ELSE {Disabled(Abandoned(job))}

ProcessDies ==
  /\ Incident
  /\ lock' = Free /\ permit' = FALSE
  /\ todo' = {} /\ want' = [u \in User |-> {}]
  /\ queued' = [t \in Turn |-> 0] /\ running' = queued' /\ unresolved' = {}
  /\ starts' = queued' /\ ends' = queued'
  /\ astray' = {} /\ lost' = {}

\* The process dies at any point; CronService::new reads the file, saves what it
\* has changed, and the loop starts again.
Restart ==
  /\ ProcessDies
  /\ \A j \in DOMAIN disk : disk[j].flaw = "none"
  /\ jobs' \in {f \in [DOMAIN disk -> UNION {Reconciled(disk[j]) : j \in DOMAIN disk}] :
                  \A j \in DOMAIN disk : f[j] \in Reconciled(disk[j])}
  /\ disk' = Stored(jobs') /\ stale' = FALSE
  /\ loop' = "look"
  /\ UNCHANGED <<known, born, count, settled>>

\* reconcile_loaded_job changes the job: also its retry_at, of a pending trigger.
NeedsSave(job) == job \notin Reconciled(job) \/ HasPending(job)

\* CronService::new fails on the first job that does not validate, or when it cannot
\* save what it has changed, and with it the start of the application.
RestartFails ==
  /\ ProcessDies
  /\ \E j \in DOMAIN disk : disk[j].flaw # "none" \/ NeedsSave(disk[j])
  /\ jobs' = [j \in {} |-> {}] /\ stale' = FALSE
  /\ loop' = "absent"
  /\ UNCHANGED <<disk, known, born, count, settled>>

-----------------------------------------------------------------------------
Loop == LoopLooks \/ LoopNotified \/ LoopTimer \/ LoopLists
Process(c) == \E j \in Job : ProcessNothing(c, j) \/ ProcessPending(c, j)
                                \/ ProcessDue(c, j) \/ ProcessRejected(c, j)
Submit == SubmitQueues \/ SubmitStarts \/ SubmitResolves \/ SubmitFindsNoSession
            \/ SubmitFails \/ SubmitFailsQueued \/ SubmitFailsStarted \/ ProcessEnds

TurnStep(t) == TurnStarts(t) \/ PutBack(t) \/ TurnEnds(t) \/ EventDropped(t)

Next ==
  \/ \E j \in Job : CreateJob(j) \/ UpdateJob(j) \/ UpdateRejected(j) \/ NextRunComes(j) \/ RetryComes(j)
  \/ \E gone \in SUBSET DOMAIN jobs : DeleteJobs(gone)
  \/ \E u \in User : CallDropped(u) \/ \E j \in Job : RunJobNow(u, j)
  \/ \E c \in Caller : Process(c)
  \/ Submit \/ Loop
  \/ \E t \in Turn : TurnStep(t) \/ HandleTurnEvent(t)
  \/ \E gone \in SUBSET {t \in Turn : queued[t] > 0} : QueueCleared(gone)
  \/ Restart \/ RestartFails

Spec == Init /\ [][Next]_vars

\* The loop's task is polled, timers fire, a submission is answered and an event
\* is delivered; no turn has to end, no next run to come, no user to go on.
FairSpec ==
  /\ Spec
  /\ WF_vars(Loop \/ Process("loop") \/ Submit)
  /\ \A j \in Job : WF_vars(RetryComes(j))
  /\ WF_vars(\E t \in Turn : HandleTurnEvent(t))

-----------------------------------------------------------------------------
(* Properties.                                                             *)

\* Every variable has its type.
TypeOK ==
  /\ DOMAIN jobs \subseteq born /\ jobs \in [DOMAIN jobs -> CronJob]
  /\ DOMAIN disk \subseteq born /\ disk \in [DOMAIN disk -> CronJob]
  /\ stale \in BOOLEAN /\ permit \in BOOLEAN
  /\ \/ lock = Free
     \/ lock \in [by: Caller, turn: Turn,
                 at: {"submit", "started", "accepted", "missing", "failed"}]
  /\ loop \in {"look", "sleep", "wait", "list", "process", "backoff", "absent"}
  /\ todo \subseteq Job /\ want \in [User -> SUBSET Job]
  /\ queued \in [Turn -> Nat] /\ running \in [Turn -> Nat]
  /\ starts \in [Turn -> Nat] /\ ends \in [Turn -> Nat]
  /\ unresolved \subseteq Turn /\ known \subseteq Turn /\ astray \subseteq Turn /\ lost \subseteq Turn
  /\ born \subseteq Job /\ settled \subseteq Job /\ count \in [Job -> 0 .. MaxTriggers]
  /\ incidents \in 0 .. MaxIncidents

Outstanding(j) == {n \in Trigger : queued[<<j, n>>] + running[<<j, n>>] > 0}

\* The runs of a job stay apart: what triggers it while a turn of it is queued or
\* running waits or is coalesced, through late events, failed saves, updates and
\* restarts (service.rs, process_job).  Only a turn whose submission reported an
\* error or was dropped, or that was put back after it had run, is unknown to its
\* job; no such turn makes two others overlap.
RunsApart ==
  \A j \in Job :
    LET own == {n \in Outstanding(j) : <<j, n>> \notin astray}
    IN /\ Cardinality(own) <= 1
       /\ \A n \in own : queued[<<j, n>>] + running[<<j, n>>] = 1

\* A job waits for the end of a turn only as long as that end is still to come:
\* the event of a turn that ends before submit has returned is not missed
\* (service.rs, process_job and handle_turn_state_change).
ActiveIsAwaited ==
  \A j \in DOMAIN jobs : jobs[j].active # None =>
    \/ jobs[j].active \in Outstanding(j)
    \/ ends[<<j, jobs[j].active>>] > 0
    \/ <<j, jobs[j].active>> \in lost

\* A one-shot job that nobody has touched keeps its time or its trigger until
\* the scheduler has had its turn, through failed saves and restarts
\* (service.rs, process_job and reconcile_loaded_job).
OneShotKept ==
  \A j \in DOMAIN jobs : jobs[j].once /\ j \notin settled =>
    \/ HasPending(jobs[j])
    \/ jobs[j].enabled /\ jobs[j].next # "none"
    \/ \E n \in Trigger : <<j, n>> \in known

\* A trigger of a job that has no active turn is submitted, or replaced by a later
\* one: no wake-up of the loop is lost.  A save that fails may lose one, and a
\* rejected update stops the loop (service.rs, run_loop, persist_jobs_locked).
Disturbed == stale \/ \E j \in DOMAIN jobs : jobs[j].flaw = "schedule"

TriggersRun ==
  \A j \in Job, n \in Trigger :
    LET Waits == j \in DOMAIN jobs /\ jobs[j].pending = n /\ jobs[j].active = None
    IN Waits /\ ~Disturbed ~> ~Waits \/ Disturbed

\* "run": Trigger a job immediately (cron_tool.rs): its turn is submitted once no
\* turn of the job is queued or running.
RunTriggers ==
  \A j \in Job, n \in Trigger :
    LET Waits == j \in DOMAIN jobs /\ jobs[j].pending = n
    IN Waits /\ Outstanding(j) = {} /\ ~Disturbed ~> ~Waits \/ Disturbed
=============================================================================
