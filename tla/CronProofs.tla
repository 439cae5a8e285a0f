----------------------------- MODULE CronProofs -----------------------------
(***************************************************************************)
(* Cron for any jobs, users, triggers and incidents: the types.            *)
(***************************************************************************)
EXTENDS Cron, FiniteSetTheorems, TLAPS

-----------------------------------------------------------------------------
(***************************************************************************)
(* The helpers on job lists.                                               *)
(***************************************************************************)
LEMMA WithShape ==
  ASSUME NEW all, NEW j, NEW job
  PROVE  /\ DOMAIN With(all, j, job) = DOMAIN all \cup {j}
         /\ With(all, j, job)[j] = job
         /\ \A k \in DOMAIN all \ {j} : With(all, j, job)[k] = all[k]
BY DEF With

LEMMA WithTyped ==
  ASSUME NEW all, all \in [DOMAIN all -> CronJob], NEW j, NEW job \in CronJob
  PROVE  With(all, j, job) \in [DOMAIN With(all, j, job) -> CronJob]
BY DEF With

LEMMA StoredShape ==
  ASSUME NEW all, all \in [DOMAIN all -> CronJob]
  PROVE  /\ DOMAIN Stored(all) = DOMAIN all
         /\ Stored(all) \in [DOMAIN Stored(all) -> CronJob]
         /\ \A j \in DOMAIN all :
              /\ Stored(all)[j].once = all[j].once
              /\ Stored(all)[j].enabled = all[j].enabled
              /\ Stored(all)[j].pending = all[j].pending
              /\ Stored(all)[j].active = all[j].active
              /\ Stored(all)[j].ran = all[j].ran
              /\ Stored(all)[j].next = "none" <=> all[j].next = "none"
BY DEF Stored, CronJob, Time

-----------------------------------------------------------------------------
(***************************************************************************)
(* Types, by the parts of the state.                                       *)
(***************************************************************************)
StoreTyped ==
  /\ DOMAIN jobs \subseteq born /\ jobs \in [DOMAIN jobs -> CronJob]
  /\ DOMAIN disk \subseteq born /\ disk \in [DOMAIN disk -> CronJob]
  /\ stale \in BOOLEAN

LockTyped ==
  \/ lock = Free
  \/ lock \in [by: Caller, turn: Turn,
              at: {"submit", "started", "accepted", "missing", "failed"}]

LoopTyped ==
  /\ permit \in BOOLEAN
  /\ loop \in {"look", "sleep", "wait", "list", "process", "backoff", "absent"}
  /\ todo \subseteq Job /\ want \in [User -> SUBSET Job]

DialogTyped ==
  /\ queued \in [Turn -> Nat] /\ running \in [Turn -> Nat]
  /\ starts \in [Turn -> Nat] /\ ends \in [Turn -> Nat]
  /\ unresolved \subseteq Turn /\ known \subseteq Turn /\ astray \subseteq Turn /\ lost \subseteq Turn

CountTyped ==
  /\ born \subseteq Job /\ settled \subseteq Job /\ count \in [Job -> 0 .. MaxTriggers]
  /\ incidents \in 0 .. MaxIncidents

\* The submission in progress is of a job in the list, which waits for it.
LockHeld ==
  lock # Free => /\ lock.turn[1] \in DOMAIN jobs
                 /\ jobs[lock.turn[1]].active = None

TypeInv == StoreTyped /\ LockTyped /\ LoopTyped /\ DialogTyped /\ CountTyped /\ LockHeld

LEMMA TypesByPart == TypeInv => TypeOK
BY DEF TypeInv, TypeOK, StoreTyped, LockTyped, LoopTyped, DialogTyped, CountTyped

LEMMA Parameters == MaxTriggers \in Nat \ {0} /\ MaxIncidents \in Nat /\ "loop" \notin User
BY CronAssumption

LEMMA WritesTyped ==
  ASSUME StoreTyped, born \subseteq born', NEW all, NEW ok \in BOOLEAN, Writes(all, ok),
         all \in [DOMAIN all -> CronJob], DOMAIN all \subseteq born'
  PROVE  StoreTyped'
BY StoredShape DEF StoreTyped, Writes

\* One copy or one event of a turn more, or fewer.
LEMMA CopiesChange ==
  ASSUME NEW copies \in [Turn -> Nat], NEW t \in Turn
  PROVE  /\ More(copies, t) \in [Turn -> Nat]
         /\ More(copies, t)[t] = copies[t] + 1
         /\ \A u \in Turn \ {t} : More(copies, t)[u] = copies[u]
         /\ copies[t] > 0 => /\ Fewer(copies, t) \in [Turn -> Nat]
                             /\ Fewer(copies, t)[t] = copies[t] - 1
                             /\ \A u \in Turn \ {t} : Fewer(copies, t)[u] = copies[u]
BY DEF More, Fewer

LEMMA CostsTyped ==
  ASSUME incidents \in 0 .. MaxIncidents, NEW n \in Nat, Costs(n)
  PROVE  incidents' \in 0 .. MaxIncidents
BY Parameters DEF Costs

\* One job of the list is put in or replaced.
LEMMA ReplacesTyped ==
  ASSUME StoreTyped, born \subseteq born', NEW j \in born', NEW job \in CronJob,
         NEW ok \in BOOLEAN, Writes(With(jobs, j, job), ok)
  PROVE  StoreTyped'
<1>1. jobs \in [DOMAIN jobs -> CronJob] /\ DOMAIN jobs \cup {j} \subseteq born'
  BY DEF StoreTyped
<1>2. DOMAIN With(jobs, j, job) = DOMAIN jobs \cup {j}
  BY WithShape
<1>3. With(jobs, j, job) \in [DOMAIN With(jobs, j, job) -> CronJob]
  BY <1>1, WithTyped
<1> QED
  BY <1>1, <1>2, <1>3, WritesTyped

LEMMA SavesTyped ==
  ASSUME StoreTyped, incidents \in 0 .. MaxIncidents, born \subseteq born',
         NEW j \in born', NEW job \in CronJob, NEW ok \in BOOLEAN,
         Saves(With(jobs, j, job), ok)
  PROVE  StoreTyped' /\ incidents' \in 0 .. MaxIncidents
BY ReplacesTyped, CostsTyped DEF Saves

LEMMA InitTyped == Init => TypeInv
<1> SUFFICES ASSUME Init PROVE TypeInv
  OBVIOUS
<1>1. StoreTyped
  BY DEF Init, StoreTyped
<1>2. LockTyped /\ LoopTyped /\ LockHeld
  BY DEF Init, LockTyped, LoopTyped, LockHeld
<1>3. DialogTyped /\ CountTyped
  BY Parameters DEF Init, DialogTyped, CountTyped
<1> QED
  BY <1>1, <1>2, <1>3 DEF TypeInv

\* The values a job gets.
LEMMA JobsTyped ==
  ASSUME NEW job \in CronJob, NEW n \in Trigger
  PROVE  /\ Triggered(job, n) \in CronJob
         /\ NextRunAfter(job) \in Time
         /\ InitialNextRun(job) \subseteq Time
         /\ \A answer \in {"accepted", "missing", "failed"} : Answered(job, n, answer) \in CronJob
         /\ Reconciled(job) \subseteq CronJob
<1>1. Triggered(job, n) \in CronJob
  BY DEF Triggered, CronJob
<1>2. NextRunAfter(job) \in Time /\ InitialNextRun(job) \subseteq Time
  BY DEF NextRunAfter, InitialNextRun, Time
<1>3. ASSUME NEW answer \in {"accepted", "missing", "failed"}
      PROVE  Answered(job, n, answer) \in CronJob
  BY <1>3 DEF Answered, CronJob, Time
<1>4. Reconciled(job) \subseteq CronJob
  <2>1. Abandoned(job) \in CronJob
    BY DEF Abandoned, CronJob
  <2>2. ASSUME NEW idle \in CronJob
        PROVE  /\ ReconciledNext(idle) \subseteq Time
               /\ Disabled(idle) \in CronJob
               /\ \A next \in Time : Resumed(idle, next) \in CronJob
    BY DEF ReconciledNext, HasPending, InitialNextRun, Disabled, Resumed, CronJob, Time
  <2>3. ASSUME NEW r \in Reconciled(job) PROVE r \in CronJob
    <3>1. CASE job.enabled
      <4>1. PICK next \in ReconciledNext(Abandoned(job)) : r = Resumed(Abandoned(job), next)
        BY <2>3, <3>1 DEF Reconciled
      <4> QED
        BY <2>1, <2>2, <4>1
    <3>2. CASE ~job.enabled
      <4>1. r = Disabled(Abandoned(job))
        BY <2>3, <3>2 DEF Reconciled
      <4> QED
        BY <2>1, <2>2, <4>1
    <3> QED
      BY <3>1, <3>2
  <2> QED
    BY <2>3
<1> QED
  BY <1>1, <1>2, <1>3, <1>4

\* Users change the list while nobody holds the locks.
LEMMA CreateTyped == ASSUME TypeInv, NEW j \in Job, CreateJob(j) PROVE TypeInv'
<1> USE DEF TypeInv
<1>1. PICK enabled \in BOOLEAN, once \in BOOLEAN, ok \in BOOLEAN :
        /\ \E next \in IF enabled THEN InitialNextRun(NewJob(enabled, once)) ELSE {"none"} :
             SavesAndNotifies(With(jobs, j, [NewJob(enabled, once) EXCEPT !.next = next]), ok)
        /\ settled' \subseteq settled \cup {j}
  BY DEF CreateJob
<1>2. NewJob(enabled, once) \in CronJob
  BY DEF NewJob, CronJob, Time
<1>3. PICK job \in CronJob : SavesAndNotifies(With(jobs, j, job), ok)
  BY <1>1, <1>2, Zenon DEF InitialNextRun, CronJob, Time
<1>5. StoreTyped' /\ incidents' \in 0 .. MaxIncidents
  BY <1>3, SavesTyped DEF CreateJob, SavesAndNotifies, CountTyped
<1>6. LockTyped' /\ LoopTyped' /\ LockHeld'
  BY <1>3 DEF CreateJob, SavesAndNotifies, Unlocked, LockTyped, LoopTyped, LockHeld, runner
<1>7. DialogTyped' /\ CountTyped'
  BY <1>1, <1>5 DEF CreateJob, DialogTyped, CountTyped, dialog
<1> QED
  BY <1>5, <1>6, <1>7

LEMMA UpdateTyped == ASSUME TypeInv, NEW j \in Job, UpdateJob(j) PROVE TypeInv'
<1> USE DEF TypeInv
<1>0. j \in born /\ jobs[j] \in CronJob
  BY DEF UpdateJob, StoreTyped
<1>1. PICK enabled \in BOOLEAN, once \in BOOLEAN, ok \in BOOLEAN :
        LET new == Updated(jobs[j], enabled, once)
        IN /\ \E next \in UpdatedNext(new) :
                Writes(With(jobs, j, [new EXCEPT !.next = next]), ok)
           /\ permit' = (permit \/ ok)
           /\ Costs(IF ok THEN 1 ELSE 2)
  BY DEF UpdateJob
<1>2. Updated(jobs[j], enabled, once) \in CronJob
  BY <1>0 DEF Updated, CronJob
<1>3. PICK job \in CronJob : Writes(With(jobs, j, job), ok)
  <2>1. UpdatedNext(Updated(jobs[j], enabled, once)) \subseteq Time
    BY DEF UpdatedNext, InitialNextRun, Time
  <2>2. PICK next \in Time :
          Writes(With(jobs, j, [Updated(jobs[j], enabled, once) EXCEPT !.next = next]), ok)
    BY <1>1, <2>1
  <2>3. [Updated(jobs[j], enabled, once) EXCEPT !.next = next] \in CronJob
    BY <1>2 DEF CronJob
  <2> QED
    BY <2>2, <2>3
<1>4. StoreTyped' /\ incidents' \in 0 .. MaxIncidents
  BY <1>0, <1>1, <1>3, ReplacesTyped, CostsTyped DEF UpdateJob, CountTyped
<1>5. LockTyped' /\ LoopTyped' /\ LockHeld'
  BY <1>1 DEF UpdateJob, Unlocked, LockTyped, LoopTyped, LockHeld, runner
<1>6. DialogTyped' /\ CountTyped'
  BY <1>4 DEF UpdateJob, DialogTyped, CountTyped, dialog
<1> QED
  BY <1>4, <1>5, <1>6

LEMMA RejectedTyped == ASSUME TypeInv, NEW j \in Job, UpdateRejected(j) PROVE TypeInv'
<1> USE DEF TypeInv
<1>1. PICK enabled \in BOOLEAN, once \in BOOLEAN, flaw \in {"fields", "schedule"} :
        jobs' = [jobs EXCEPT ![j].enabled = enabled, ![j].once = once, ![j].flaw = flaw]
  BY DEF UpdateRejected
<1>2. StoreTyped'
  <2>1. j \in DOMAIN jobs /\ jobs[j] \in CronJob
    BY DEF UpdateRejected, StoreTyped
  <2>2. [jobs[j] EXCEPT !.enabled = enabled, !.once = once, !.flaw = flaw] \in CronJob
    BY <2>1 DEF CronJob
  <2>3. jobs' = [jobs EXCEPT ![j] = [jobs[j] EXCEPT !.enabled = enabled, !.once = once, !.flaw = flaw]]
    BY <1>1, <2>1 DEF StoreTyped
  <2> QED
    BY <2>1, <2>2, <2>3 DEF UpdateRejected, StoreTyped
<1>3. LockTyped' /\ LoopTyped' /\ LockHeld'
  BY DEF UpdateRejected, Unlocked, LockTyped, LoopTyped, LockHeld, runner
<1>4. DialogTyped' /\ CountTyped'
  BY CostsTyped DEF UpdateRejected, DialogTyped, CountTyped, dialog, Incident
<1> QED
  BY <1>2, <1>3, <1>4

LEMMA DeleteTyped == ASSUME TypeInv, NEW gone, DeleteJobs(gone) PROVE TypeInv'
<1> USE DEF TypeInv
<1>1. PICK ok \in BOOLEAN : SavesAndNotifies([k \in DOMAIN jobs \ gone |-> jobs[k]], ok)
  BY DEF DeleteJobs
<1>2. StoreTyped'
  BY <1>1, WritesTyped DEF StoreTyped, SavesAndNotifies, Saves, DeleteJobs
<1>3. LockTyped' /\ LoopTyped' /\ LockHeld'
  BY <1>1 DEF DeleteJobs, SavesAndNotifies, Unlocked, LockTyped, LoopTyped, LockHeld, runner
<1>4. DialogTyped' /\ CountTyped'
  BY <1>1, CostsTyped
  DEF DeleteJobs, SavesAndNotifies, Saves, DialogTyped, CountTyped, dialog
<1> QED
  BY <1>2, <1>3, <1>4

LEMMA RunNowTyped ==
  ASSUME TypeInv, NEW u \in User, NEW j \in Job, RunJobNow(u, j) PROVE TypeInv'
<1> USE DEF TypeInv
<1>0. j \in born /\ jobs[j] \in CronJob /\ count[j] + 1 \in Trigger
  BY Parameters DEF RunJobNow, StoreTyped, CountTyped, Trigger
<1>1. PICK ok \in BOOLEAN :
        /\ SavesAndNotifies(With(jobs, j, [jobs[j] EXCEPT !.pending = count[j] + 1,
                                                          !.waits = FALSE]), ok)
        /\ want' = IF ok THEN [want EXCEPT ![u] = {j}] ELSE want
  BY DEF RunJobNow
<1>2. [jobs[j] EXCEPT !.pending = count[j] + 1, !.waits = FALSE] \in CronJob
  BY <1>0 DEF CronJob
<1>3. StoreTyped' /\ incidents' \in 0 .. MaxIncidents
  BY <1>0, <1>1, <1>2, SavesTyped DEF RunJobNow, SavesAndNotifies, CountTyped
<1>4. LockTyped' /\ LoopTyped' /\ LockHeld'
  BY <1>1 DEF RunJobNow, SavesAndNotifies, Unlocked, LockTyped, LoopTyped, LockHeld
<1>5. DialogTyped' /\ CountTyped'
  BY <1>0, <1>3, Parameters DEF RunJobNow, DialogTyped, CountTyped, dialog, Trigger
<1> QED
  BY <1>3, <1>4, <1>5

\* process_job: the caller goes on, or takes the locks for a submission.
LEMMA ReturnsTyped ==
  ASSUME LoopTyped, NEW c \in Caller, NEW j \in Job, NEW ok \in BOOLEAN, Returns(c, j, ok)
  PROVE  /\ loop' \in {"look", "sleep", "wait", "list", "process", "backoff", "absent"}
         /\ todo' \subseteq Job /\ want' \in [User -> SUBSET Job]
BY DEF Returns, LoopTyped

LEMMA SubmitsTyped ==
  ASSUME LoopTyped, LockTyped, lock = Free, NEW c \in Caller, NEW j \in DOMAIN jobs', j \in Job,
         NEW job \in CronJob, Submits(c, j, job), jobs'[j].active = job.active, UNCHANGED permit
  PROVE  LoopTyped' /\ LockTyped' /\ LockHeld'
<1>1. CASE MaySubmit(job)
  <2>1. /\ lock' = [by |-> c, turn |-> <<j, job.pending>>, at |-> "submit"]
        /\ UNCHANGED runner
    BY <1>1 DEF Submits
  <2>2. job.pending \in Trigger /\ job.active = None
    BY <1>1 DEF MaySubmit, PendingIsDue, HasPending, CronJob
  <2> QED
    BY <2>1, <2>2 DEF LoopTyped, LockTyped, LockHeld, Turn, runner
<1>2. CASE ~MaySubmit(job)
  BY <1>2, ReturnsTyped DEF Submits, LoopTyped, LockTyped, LockHeld
<1> QED
  BY <1>1, <1>2

LEMMA ProcessTyped ==
  ASSUME TypeInv, NEW c \in Caller, NEW j \in Job,
         ProcessNothing(c, j) \/ ProcessPending(c, j) \/ ProcessDue(c, j) \/ ProcessRejected(c, j)
  PROVE  TypeInv'
<1> USE DEF TypeInv
<1>1. CASE ProcessNothing(c, j)
  <2>1. StoreTyped' /\ DialogTyped' /\ CountTyped'
    BY <1>1 DEF ProcessNothing, StoreTyped, DialogTyped, CountTyped, store, dialog
  <2>2. LockTyped' /\ LoopTyped' /\ LockHeld'
    BY <1>1, ReturnsTyped DEF ProcessNothing, LockTyped, LoopTyped, LockHeld, store, Unlocked
  <2> QED
    BY <2>1, <2>2
<1>2. CASE ProcessPending(c, j)
  <2>1. StoreTyped' /\ DialogTyped' /\ CountTyped'
    BY <1>2 DEF ProcessPending, StoreTyped, DialogTyped, CountTyped, store, dialog
  <2>2. /\ lock = Free /\ j \in DOMAIN jobs' /\ jobs[j] \in CronJob
        /\ Submits(c, j, jobs[j]) /\ jobs'[j].active = jobs[j].active /\ UNCHANGED permit
    BY <1>2 DEF ProcessPending, Takes, Unlocked, store, StoreTyped
  <2>3. LockTyped' /\ LoopTyped' /\ LockHeld'
    BY <2>2, SubmitsTyped
  <2> QED
    BY <2>1, <2>3
<1>3. CASE ProcessDue(c, j)
  <2> DEFINE new == [Triggered(jobs[j], count'[j]) EXCEPT !.next = NextRunAfter(jobs[j])]
  <2>0. lock = Free /\ j \in DOMAIN jobs /\ j \in born /\ jobs[j] \in CronJob
    BY <1>3 DEF ProcessDue, Takes, Unlocked, StoreTyped
  <2>1. count' \in [Job -> 0 .. MaxTriggers] /\ (Idle(jobs[j]) => count'[j] \in Trigger)
    BY <1>3, Parameters DEF ProcessDue, CountTyped, Trigger
  <2>2. new \in CronJob /\ new.active = jobs[j].active
    <3>1. /\ Triggered(jobs[j], count'[j]) \in CronJob
          /\ Triggered(jobs[j], count'[j]).active = jobs[j].active
      BY <2>0, <2>1 DEF Triggered, CronJob
    <3>2. NextRunAfter(jobs[j]) \in Time
      BY DEF NextRunAfter, Time
    <3> HIDE DEF new
    <3>3. new = [Triggered(jobs[j], count'[j]) EXCEPT !.next = NextRunAfter(jobs[j])]
      BY DEF new
    <3> QED
      BY <3>1, <3>2, <3>3 DEF CronJob
  <2>3. PICK ok \in BOOLEAN :
          /\ Saves(With(jobs, j, new), ok)
          /\ IF ok THEN Submits(c, j, new) ELSE lock' = lock /\ Returns(c, j, FALSE)
    BY <1>3 DEF ProcessDue
  <2> HIDE DEF new
  <2>4. StoreTyped' /\ incidents' \in 0 .. MaxIncidents
    BY <1>3, <2>0, <2>2, <2>3, SavesTyped DEF ProcessDue, CountTyped
  <2>5. j \in DOMAIN jobs' /\ jobs'[j].active = new.active
    <3>1. jobs' = With(jobs, j, new)
      BY <2>3 DEF Saves, Writes
    <3> QED
      BY <3>1 DEF With
  <2>6. LockTyped' /\ LoopTyped' /\ LockHeld'
    <3>1. CASE ok
      BY <1>3, <2>0, <2>2, <2>3, <2>5, <3>1, SubmitsTyped DEF ProcessDue
    <3>2. CASE ~ok
      BY <1>3, <2>0, <2>3, <3>2, ReturnsTyped DEF ProcessDue, LockTyped, LoopTyped, LockHeld
    <3> QED
      BY <3>1, <3>2
  <2>7. DialogTyped' /\ CountTyped'
    BY <1>3, <2>1, <2>4 DEF ProcessDue, DialogTyped, CountTyped, dialog
  <2> QED
    BY <2>4, <2>6, <2>7
<1>4. CASE ProcessRejected(c, j)
  <2>0. lock = Free /\ j \in DOMAIN jobs /\ j \in born /\ jobs[j] \in CronJob
    BY <1>4 DEF ProcessRejected, Takes, Unlocked, StoreTyped
  <2>1. count' \in [Job -> 0 .. MaxTriggers] /\ (Idle(jobs[j]) => count'[j] \in Trigger)
    BY <1>4, Parameters DEF ProcessRejected, CountTyped, Trigger
  <2>2. Triggered(jobs[j], count'[j]) \in CronJob
    BY <2>0, <2>1 DEF Triggered, CronJob
  <2>3. StoreTyped'
    BY <1>4, <2>0, <2>2 DEF ProcessRejected, StoreTyped
  <2>4. LockTyped' /\ LoopTyped' /\ LockHeld'
    BY <1>4, <2>0, ReturnsTyped DEF ProcessRejected, LockTyped, LoopTyped, LockHeld
  <2>5. DialogTyped' /\ CountTyped'
    BY <1>4, <2>1 DEF ProcessRejected, DialogTyped, CountTyped, dialog
  <2> QED
    BY <2>3, <2>4, <2>5
<1> QED
  BY <1>1, <1>2, <1>3, <1>4

LEMMA SubmitTyped == ASSUME TypeInv, Submit PROVE TypeInv'
<1> USE DEF TypeInv
<1>0. lock # Free => /\ lock \in [by: Caller, turn: Turn,
                                  at: {"submit", "started", "accepted", "missing", "failed"}]
                     /\ lock.turn \in Turn
  BY DEF LockTyped
<1>1. CASE \/ SubmitQueues \/ SubmitStarts \/ SubmitResolves \/ SubmitFindsNoSession
           \/ SubmitFails \/ SubmitFailsQueued \/ SubmitFailsStarted
  <2>1. lock # Free
    BY <1>1
    DEF SubmitQueues, SubmitStarts, SubmitResolves, SubmitFindsNoSession, SubmitFails,
        SubmitFailsQueued, SubmitFailsStarted, SubmitReaches, Free
  <2>2. /\ \E to \in {"started", "accepted", "missing", "failed"} : lock' = [lock EXCEPT !.at = to]
        /\ UNCHANGED <<store, permit, runner, born, count, settled>>
    BY <1>1
    DEF SubmitQueues, SubmitStarts, SubmitResolves, SubmitFindsNoSession, SubmitFails,
        SubmitFailsQueued, SubmitFailsStarted, SubmitReaches
  <2>3. LockTyped' /\ LockHeld' /\ LoopTyped' /\ StoreTyped'
    BY <1>0, <2>1, <2>2 DEF LockTyped, LockHeld, LoopTyped, StoreTyped, store, runner
  <2>4. DialogTyped'
    <3>1. /\ queued' \in {queued, More(queued, lock.turn)}
          /\ running' \in {running, More(running, lock.turn)}
          /\ starts' \in {starts, More(starts, lock.turn)}
          /\ known' \subseteq known \cup {lock.turn} /\ astray' \subseteq astray \cup {lock.turn}
          /\ UNCHANGED <<ends, unresolved, lost>>
      BY <1>1
      DEF SubmitQueues, SubmitStarts, SubmitResolves, SubmitFindsNoSession, SubmitFails,
          SubmitFailsQueued, SubmitFailsStarted, dialog
    <3> QED
      BY <1>0, <2>1, <3>1, CopiesChange DEF DialogTyped
  <2>5. CountTyped'
    BY <1>1, <2>2, CostsTyped
    DEF SubmitQueues, SubmitStarts, SubmitResolves, SubmitFindsNoSession, SubmitFails,
        SubmitFailsQueued, SubmitFailsStarted, CountTyped, Incident
  <2> QED
    BY <2>3, <2>4, <2>5
<1>2. CASE ProcessEnds
  <2>1. lock # Free
    BY <1>2 DEF ProcessEnds, Free
  <2>2. PICK j \in Job, n \in Trigger : lock.turn = <<j, n>> /\ lock.by \in Caller
    BY <1>0, <2>1 DEF Turn
  <2>3. lock.turn[1] = j /\ lock.turn[2] = n /\ j \in DOMAIN jobs /\ j \in born
    BY <2>1, <2>2 DEF LockHeld, StoreTyped
  <2>4. jobs[j] \in CronJob /\ lock.at \in {"accepted", "missing", "failed"}
    BY <1>2, <2>3 DEF StoreTyped, ProcessEnds
  <2>5. Answered(jobs[j], n, lock.at) \in CronJob
    BY <2>4, JobsTyped
  <2>6. PICK ok \in BOOLEAN :
          /\ SavesAndNotifies(With(jobs, j, Answered(jobs[j], n, lock.at)), ok)
          /\ Returns(lock.by, j, ok)
          /\ settled' \subseteq settled \cup {j}
    BY <1>2, <2>3 DEF ProcessEnds
  <2>7. StoreTyped' /\ incidents' \in 0 .. MaxIncidents
    BY <1>2, <2>3, <2>5, <2>6, SavesTyped DEF ProcessEnds, SavesAndNotifies, CountTyped
  <2>8. LockTyped' /\ LoopTyped' /\ LockHeld'
    BY <1>2, <2>2, <2>6, ReturnsTyped
    DEF ProcessEnds, SavesAndNotifies, LockTyped, LoopTyped, LockHeld
  <2>9. DialogTyped' /\ CountTyped'
    BY <1>2, <2>6, <2>7 DEF ProcessEnds, DialogTyped, CountTyped, dialog
  <2> QED
    BY <2>7, <2>8, <2>9
<1> QED
  BY <1>1, <1>2 DEF Submit

LEMMA DropTyped == ASSUME TypeInv, NEW u \in User, CallDropped(u) PROVE TypeInv'
<1> USE DEF TypeInv
<1>1. /\ UNCHANGED <<store, permit, loop, todo, born, count, settled>> /\ Incident
      /\ want' = [want EXCEPT ![u] = {}] /\ (lock' = lock \/ lock' = Free)
      /\ UNCHANGED <<queued, running, unresolved, starts, ends, known, lost>>
      /\ astray' = astray \/ (lock # Free /\ astray' = astray \cup {lock.turn})
  BY DEF CallDropped, Free
<1>2. StoreTyped' /\ LockTyped' /\ LockHeld' /\ LoopTyped'
  BY <1>1 DEF StoreTyped, LockTyped, LockHeld, LoopTyped, store
<1>3. DialogTyped' /\ CountTyped'
  BY <1>1, CostsTyped DEF LockTyped, DialogTyped, CountTyped, Incident
<1> QED
  BY <1>2, <1>3

LEMMA LoopStepTyped == ASSUME TypeInv, Loop PROVE TypeInv'
<1> USE DEF TypeInv
<1>1. UNCHANGED <<store, lock, want, dialog, born, count, settled, incidents>>
  BY DEF Loop, LoopLooks, LoopNotified, LoopTimer, LoopLists
<1>2. StoreTyped' /\ LockTyped' /\ DialogTyped' /\ CountTyped' /\ LockHeld'
  BY <1>1 DEF StoreTyped, LockTyped, DialogTyped, CountTyped, LockHeld, store, dialog
<1>3. LoopTyped'
  <2>1. DOMAIN jobs \subseteq Job
    BY DEF StoreTyped, CountTyped
  <2> QED
    BY <1>1, <2>1 DEF Loop, LoopLooks, LoopNotified, LoopTimer, LoopLists, LoopTyped
<1> QED
  BY <1>2, <1>3

LEMMA TurnTyped == ASSUME TypeInv, NEW t \in Turn, TurnStep(t) PROVE TypeInv'
<1> USE DEF TypeInv
<1>1. UNCHANGED <<store, lock, permit, runner, born, count, settled>>
  BY DEF TurnStep, TurnStarts, PutBack, TurnEnds, EventDropped
<1>2. StoreTyped' /\ LockTyped' /\ LoopTyped' /\ LockHeld'
  BY <1>1 DEF StoreTyped, LockTyped, LoopTyped, LockHeld, store, runner
<1>3. DialogTyped'
  BY CopiesChange DEF TurnStep, TurnStarts, PutBack, TurnEnds, EventDropped, DialogTyped
<1>4. CountTyped'
  BY <1>1, CostsTyped DEF TurnStep, TurnStarts, PutBack, TurnEnds, EventDropped, CountTyped, Incident
<1> QED
  BY <1>2, <1>3, <1>4

LEMMA ClearedTyped ==
  ASSUME TypeInv, NEW gone \in SUBSET {t \in Turn : queued[t] > 0}, QueueCleared(gone)
  PROVE  TypeInv'
<1> USE DEF TypeInv
<1>1. StoreTyped' /\ LockTyped' /\ LoopTyped' /\ LockHeld'
  BY DEF QueueCleared, StoreTyped, LockTyped, LoopTyped, LockHeld, store, runner
<1>2. DialogTyped' /\ CountTyped'
  BY CostsTyped DEF QueueCleared, DialogTyped, CountTyped, Incident
<1> QED
  BY <1>1, <1>2

LEMMA EventTyped == ASSUME TypeInv, NEW t \in Turn, HandleTurnEvent(t) PROVE TypeInv'
<1> USE DEF TypeInv
<1>1. LockTyped' /\ LockHeld'
  BY DEF HandleTurnEvent, Handles, Unlocked, LockTyped, LockHeld
<1>2. DialogTyped'
  <2>1. /\ UNCHANGED <<queued, running, unresolved, known, astray, lost>>
        /\ \/ starts[t] > 0 /\ starts' = Fewer(starts, t) /\ ends' = ends
           \/ ends[t] > 0 /\ ends' = Fewer(ends, t) /\ starts' = starts
    BY DEF HandleTurnEvent, Handles
  <2> QED
    BY <2>1, CopiesChange DEF DialogTyped
<1>3. PICK ended \in BOOLEAN : Told(t, ended)
  BY DEF HandleTurnEvent, Handles
<1>4. CASE UNCHANGED <<store, permit, incidents>>
  BY <1>1, <1>2, <1>4 DEF HandleTurnEvent, Handles, StoreTyped, LoopTyped, CountTyped, store, runner
<1>5. ASSUME NEW j \in Waiting(t), NEW ok \in BOOLEAN,
             SavesAndNotifies(With(jobs, j, IF ended THEN [jobs[j] EXCEPT !.active = None]
                                            ELSE jobs[j]), ok)
      PROVE  TypeInv'
  <2>1. j \in born /\ jobs[j] \in CronJob
    BY DEF Waiting, StoreTyped
  <2>2. (IF ended THEN [jobs[j] EXCEPT !.active = None] ELSE jobs[j]) \in CronJob
    BY <2>1 DEF CronJob
  <2>3. StoreTyped' /\ incidents' \in 0 .. MaxIncidents
    BY <1>5, <2>1, <2>2, SavesTyped DEF HandleTurnEvent, Handles, SavesAndNotifies, CountTyped
  <2> QED
    BY <1>1, <1>2, <1>5, <2>3
    DEF HandleTurnEvent, Handles, SavesAndNotifies, LoopTyped, CountTyped, runner
<1> QED
  BY <1>3, <1>4, <1>5 DEF Told

LEMMA TimeTyped ==
  ASSUME TypeInv, NEW j \in Job, NextRunComes(j) \/ RetryComes(j) PROVE TypeInv'
<1> USE DEF TypeInv
<1>1. UNCHANGED <<disk, stale, lock, permit, runner, dialog, born, count, settled, incidents>>
  BY DEF NextRunComes, RetryComes
<1>2. LockTyped' /\ LoopTyped' /\ DialogTyped' /\ CountTyped'
  BY <1>1 DEF LockTyped, LoopTyped, DialogTyped, CountTyped, runner, dialog
<1>3. PICK job \in CronJob : /\ j \in DOMAIN jobs /\ jobs' = [jobs EXCEPT ![j] = job]
                             /\ job.active = jobs[j].active
  <2>1. j \in DOMAIN jobs /\ jobs[j] \in CronJob
    BY DEF NextRunComes, RetryComes, StoreTyped
  <2>2. CASE NextRunComes(j)
    <3>1. [jobs[j] EXCEPT !.next = "due"] \in CronJob
      BY <2>1 DEF CronJob, Time
    <3> QED
      BY <2>1, <2>2, <3>1 DEF NextRunComes, CronJob
  <2>3. CASE RetryComes(j)
    <3>1. [jobs[j] EXCEPT !.waits = FALSE] \in CronJob
      BY <2>1 DEF CronJob
    <3> QED
      BY <2>1, <2>3, <3>1 DEF RetryComes, CronJob
  <2> QED
    BY <2>2, <2>3
<1>4. StoreTyped' /\ LockHeld'
  BY <1>1, <1>3 DEF StoreTyped, LockHeld
<1> QED
  BY <1>2, <1>4

LEMMA RestartTyped == ASSUME TypeInv, Restart \/ RestartFails PROVE TypeInv'
<1> USE DEF TypeInv
<1>1. ProcessDies /\ UNCHANGED <<known, born, count, settled>>
  BY DEF Restart, RestartFails
<1>2. LockTyped' /\ LoopTyped' /\ LockHeld'
  BY <1>1 DEF Restart, RestartFails, ProcessDies, LockTyped, LockHeld, LoopTyped
<1>3. DialogTyped' /\ CountTyped'
  BY <1>1, CostsTyped DEF ProcessDies, DialogTyped, CountTyped, Incident
<1>4. StoreTyped'
  <2>1. CASE Restart
    <3>1. \A j \in DOMAIN disk : disk[j] \in CronJob
      BY DEF StoreTyped
    <3>2. DOMAIN jobs' = DOMAIN disk /\ \A j \in DOMAIN disk : jobs'[j] \in Reconciled(disk[j])
      BY <2>1 DEF Restart
    <3>3. \A j \in DOMAIN disk : jobs'[j] \in CronJob
      BY <3>1, <3>2, JobsTyped, Parameters DEF Trigger
    <3>4. jobs' \in [DOMAIN jobs' -> CronJob]
      BY <2>1, <3>2, <3>3 DEF Restart
    <3> QED
      BY <1>1, <2>1, <3>2, <3>4, StoredShape DEF Restart, StoreTyped
  <2>2. CASE RestartFails
    BY <1>1, <2>2 DEF RestartFails, StoreTyped
  <2> QED
    BY <2>1, <2>2 DEF Restart, RestartFails
<1> QED
  BY <1>2, <1>3, <1>4

LEMMA NextTyped == TypeInv /\ [Next]_vars => TypeInv'
<1> SUFFICES ASSUME TypeInv, [Next]_vars PROVE TypeInv'
  OBVIOUS
<1>1. CASE UNCHANGED vars
  BY <1>1
  DEF vars, store, runner, dialog, TypeInv, StoreTyped, LockTyped, LoopTyped, DialogTyped,
      CountTyped, LockHeld
<1>2. CASE Next
  <2>1. \A gone \in SUBSET DOMAIN jobs : DeleteJobs(gone) => TypeInv'
    BY DeleteTyped
  <2>2. \A c \in Caller : Process(c) => TypeInv'
    BY ProcessTyped DEF Process
  <2> QED
    BY <1>2, <2>1, <2>2, CreateTyped, UpdateTyped, RejectedTyped, RunNowTyped, DropTyped, SubmitTyped,
       LoopStepTyped, TurnTyped, ClearedTyped, EventTyped, TimeTyped, RestartTyped
    DEF Next
<1> QED
  BY <1>1, <1>2

LEMMA AlwaysTyped == Spec => []TypeInv
BY InitTyped, NextTyped, PTL DEF Spec

\* The state keeps its types: a job waits for a trigger the service has made, who
\* holds the locks submits a turn of a job in the list, and memory and file hold
\* jobs that were once created.
THEOREM TypesCorrect == Spec => []TypeOK
BY AlwaysTyped, TypesByPart, PTL
=============================================================================
