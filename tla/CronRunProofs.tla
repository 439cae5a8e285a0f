--------------------------- MODULE CronRunProofs ----------------------------
(***************************************************************************)
(* What Cron promises about the runs of a job, for any jobs, users,        *)
(* triggers and incidents: they stay apart, the job waits only for a turn  *)
(* whose end is still to come, and a one-shot job keeps its time or its    *)
(* trigger until it has had its turn.                                      *)
(***************************************************************************)
EXTENDS CronProofs

-----------------------------------------------------------------------------
(***************************************************************************)
(* A turn that has not gone astray has one copy and ends once, and while   *)
(* it lives it is the active one of its job, or has just been given to the *)
(* dialog scheduler by the submission in progress.                         *)
(***************************************************************************)
Copies(t) == queued[t] + running[t]
Weight(t) == queued[t] + running[t] + ends[t]

Alive(t) == Copies(t) > 0

EndComes(t) == Weight(t) > 0 \/ t \in lost

Given == {"started", "accepted"}
Tried == {"submit", "missing", "failed"}

Handed(t) == lock.turn = t /\ lock.at \in Given

SingleRun == \A t \in Turn \ astray : Weight(t) <= 1

OneRun == \A j \in Job, n \in Trigger, m \in Trigger :
            /\ Alive(<<j, n>>) /\ <<j, n>> \notin astray
            /\ Alive(<<j, m>>) /\ <<j, m>> \notin astray
            => n = m

RunsOwned ==
  \A j \in Job, n \in Trigger :
    j \in DOMAIN jobs /\ Alive(<<j, n>>) /\ <<j, n>> \notin astray =>
      jobs[j].active = n \/ Handed(<<j, n>>)

RunsAwaited ==
  \A j \in DOMAIN jobs : jobs[j].active # None => EndComes(<<j, jobs[j].active>>)

HandedAwaited == \A t \in Turn : Handed(t) => EndComes(t) /\ t \in known

WeightKnown == \A t \in Turn : Weight(t) > 0 => t \in known

KnownBorn == \A j \in Job, n \in Trigger : <<j, n>> \in known => j \in born

UnresolvedKnown == unresolved \subseteq known

RunInv ==
  /\ SingleRun /\ OneRun /\ RunsOwned /\ RunsAwaited
  /\ HandedAwaited /\ WeightKnown /\ UnresolvedKnown /\ KnownBorn

LEMMA WeightNat ==
  ASSUME TypeInv, NEW t \in Turn
  PROVE  /\ Weight(t) \in Nat /\ Copies(t) \in Nat /\ Copies(t) <= Weight(t)
         /\ queued[t] \in Nat /\ running[t] \in Nat /\ ends[t] \in Nat
         /\ Weight(t) = Copies(t) + ends[t]
BY DEF TypeInv, DialogTyped, Weight, Copies

(***************************************************************************)
(* A trigger that waits has no turn yet, unless its turn has gone astray:  *)
(* it is new, or its submission has failed with nothing queued.            *)
(***************************************************************************)
Submitting(j) == lock # Free /\ lock.turn[1] = j

Fresh(t) == t \notin astray => Weight(t) = 0

Counted ==
  /\ \A j \in Job, n \in Trigger : <<j, n>> \in known => n <= count[j]
  /\ \A j \in DOMAIN jobs : jobs[j].pending <= count[j] /\ jobs[j].active <= count[j]
  /\ \A j \in DOMAIN disk : disk[j].pending <= count[j]

PendingFresh ==
  \A j \in DOMAIN jobs :
    HasPending(jobs[j]) /\ ~Submitting(j) => Fresh(<<j, jobs[j].pending>>)

SubmitFresh == lock.at \in Tried => Fresh(lock.turn)

LockPending == lock # Free => lock.turn[2] = jobs[lock.turn[1]].pending

FreshInv == Counted /\ PendingFresh /\ SubmitFresh /\ LockPending

(***************************************************************************)
(* A one-shot job that nobody has settled has its trigger, its time or its *)
(* turn, in memory and in the file.                                        *)
(***************************************************************************)
Begun(j) == \E n \in Trigger : <<j, n>> \in known

Ready(job) == HasPending(job) \/ job.next # "none"

KeptJob(j, job) ==
  /\ job.active # None \/ job.ran => Begun(j)
  /\ job.once /\ j \notin settled => (Ready(job) /\ job.enabled) \/ Begun(j)

Kept(all) == \A j \in DOMAIN all : KeptJob(j, all[j])

KeptInv == Kept(jobs) /\ Kept(disk)

-----------------------------------------------------------------------------
(***************************************************************************)
(* The steps that put a job in the list or change it, without changing the *)
(* turn it waits for.                                                      *)
(***************************************************************************)
Replaces(j, job) ==
  /\ job \in CronJob
  /\ jobs' = With(jobs, j, job)
  /\ disk' = disk \/ disk' = Stored(jobs')

Begins(k) ==
  /\ lock = Free /\ lock'.at = "submit"
  /\ k \in DOMAIN jobs' /\ PendingIsDue(jobs'[k]) /\ lock'.turn = <<k, jobs'[k].pending>>

LockGoesOn == lock' = lock \/ \E k \in Job : Begins(k)

Around ==
  /\ born \subseteq born' /\ settled \subseteq settled'
  /\ \A k \in Job : count[k] <= count'[k]
  /\ LockGoesOn
  /\ UNCHANGED dialog

SameRuns(j, job) ==
  IF j \in DOMAIN jobs THEN job.active = jobs[j].active /\ job.ran = jobs[j].ran
  ELSE j \notin born /\ job.active = None /\ ~job.ran

StaysReady(j, job) ==
  job.once /\ j \notin settled' =>
    \/ Ready(job) /\ job.enabled
    \/ /\ j \in DOMAIN jobs /\ jobs[j].once
       /\ jobs[j].enabled => job.enabled
       /\ Ready(jobs[j]) => Ready(job) \/ job.active # None

SamePending(j, job) ==
  /\ HasPending(job) =>
       \/ job.pending = count[j] + 1 /\ job.pending = count'[j]
       \/ j \in DOMAIN jobs /\ job.pending = jobs[j].pending
  /\ lock # Free => j \in DOMAIN jobs /\ job.pending = jobs[j].pending

Changes(j, job) ==
  Replaces(j, job) /\ SameRuns(j, job) /\ SamePending(j, job) /\ StaysReady(j, job) /\ Around

LEMMA ExceptIsWith ==
  ASSUME TypeInv, NEW j \in DOMAIN jobs, NEW job
  PROVE  [jobs EXCEPT ![j] = job] = With(jobs, j, job)
<1>1. DOMAIN jobs \cup {j} = DOMAIN jobs /\ jobs = [k \in DOMAIN jobs |-> jobs[k]]
  BY DEF TypeInv, StoreTyped
<1> QED
  BY <1>1 DEF With

LEMMA WritesReplaces ==
  ASSUME NEW j, NEW job \in CronJob, NEW ok \in BOOLEAN, Writes(With(jobs, j, job), ok)
  PROVE  Replaces(j, job)
BY DEF Writes, Replaces

LEMMA CreateChanges ==
  ASSUME TypeInv, NEW j \in Job, CreateJob(j) PROVE \E job : Changes(j, job)
<1>1. PICK enabled \in BOOLEAN, once \in BOOLEAN, ok \in BOOLEAN :
        /\ \E next \in IF enabled THEN InitialNextRun(NewJob(enabled, once)) ELSE {"none"} :
             SavesAndNotifies(With(jobs, j, [NewJob(enabled, once) EXCEPT !.next = next]), ok)
        /\ settled' = IF enabled THEN settled ELSE settled \cup {j}
  BY DEF CreateJob
<1>2. PICK next \in IF enabled THEN InitialNextRun(NewJob(enabled, once)) ELSE {"none"} :
        SavesAndNotifies(With(jobs, j, [NewJob(enabled, once) EXCEPT !.next = next]), ok)
  BY <1>1
<1> DEFINE job == [NewJob(enabled, once) EXCEPT !.next = next]
<1>3. next \in Time /\ (enabled /\ once => next # "none")
  BY <1>2 DEF InitialNextRun, NewJob, Time
<1>4. /\ job \in CronJob /\ job.active = None /\ ~job.ran
      /\ job.once = once /\ job.enabled = enabled /\ job.next = next /\ ~HasPending(job)
  BY <1>3 DEF NewJob, HasPending, CronJob, Time
<1> HIDE DEF job
<1>5. Replaces(j, job)
  BY <1>2, <1>4, WritesReplaces DEF SavesAndNotifies, Saves, job
<1>6. SameRuns(j, job) /\ SamePending(j, job)
  BY <1>4 DEF CreateJob, Unlocked, SameRuns, SamePending, TypeInv, StoreTyped
<1>7. StaysReady(j, job)
  BY <1>1, <1>3, <1>4 DEF StaysReady, Ready
<1>8. Around
  BY <1>1 DEF CreateJob, Around, LockGoesOn, TypeInv, CountTyped
<1> QED
  BY <1>5, <1>6, <1>7, <1>8 DEF Changes

LEMMA UpdateChanges ==
  ASSUME TypeInv, NEW j \in Job, UpdateJob(j) \/ UpdateRejected(j)
  PROVE  \E job : Changes(j, job)
<1>0. j \in DOMAIN jobs /\ jobs[j] \in CronJob
  BY DEF UpdateJob, UpdateRejected, TypeInv, StoreTyped
<1>1. j \in settled' /\ Around
  <2>1. /\ j \in settled' /\ settled \subseteq settled'
        /\ UNCHANGED <<lock, dialog, born, count>>
    BY DEF UpdateJob, UpdateRejected
  <2>2. \A k \in Job : count[k] \in Nat
    BY Parameters DEF TypeInv, CountTyped
  <2> QED
    BY <2>1, <2>2 DEF Around, LockGoesOn
<1>2. ASSUME NEW job, Replaces(j, job), job.active = jobs[j].active, job.ran = jobs[j].ran,
             ~HasPending(job) \/ job.pending = jobs[j].pending
      PROVE  Changes(j, job)
  <2>1. lock = Free
    BY DEF UpdateJob, UpdateRejected, Unlocked
  <2> QED
    BY <1>0, <1>1, <1>2, <2>1 DEF Changes, SameRuns, SamePending, StaysReady
<1>3. CASE UpdateJob(j)
  <2>1. PICK enabled \in BOOLEAN, once \in BOOLEAN, ok \in BOOLEAN :
          \E next \in UpdatedNext(Updated(jobs[j], enabled, once)) :
            Writes(With(jobs, j, [Updated(jobs[j], enabled, once) EXCEPT !.next = next]), ok)
    BY <1>3 DEF UpdateJob
  <2>2. UpdatedNext(Updated(jobs[j], enabled, once)) \subseteq Time
    BY DEF UpdatedNext, InitialNextRun, Time
  <2>3. PICK next \in Time :
          Writes(With(jobs, j, [Updated(jobs[j], enabled, once) EXCEPT !.next = next]), ok)
    BY <2>1, <2>2
  <2> DEFINE job == [Updated(jobs[j], enabled, once) EXCEPT !.next = next]
  <2>4. /\ job \in CronJob /\ job.active = jobs[j].active /\ job.ran = jobs[j].ran
        /\ ~HasPending(job)
    BY <1>0 DEF Updated, CronJob, HasPending
  <2> HIDE DEF job
  <2>5. Replaces(j, job)
    BY <2>3, <2>4, WritesReplaces DEF job
  <2> QED
    BY <1>2, <2>4, <2>5
<1>4. CASE UpdateRejected(j)
  <2>1. PICK enabled \in BOOLEAN, once \in BOOLEAN, flaw \in {"fields", "schedule"} :
          jobs' = [jobs EXCEPT ![j].enabled = enabled, ![j].once = once, ![j].flaw = flaw]
    BY <1>4 DEF UpdateRejected
  <2> DEFINE job == [jobs[j] EXCEPT !.enabled = enabled, !.once = once, !.flaw = flaw]
  <2>2. /\ job \in CronJob /\ job.active = jobs[j].active /\ job.ran = jobs[j].ran
        /\ job.pending = jobs[j].pending
    BY <1>0 DEF CronJob
  <2>3. jobs' = [jobs EXCEPT ![j] = job]
    BY <1>0, <2>1 DEF TypeInv, StoreTyped
  <2> HIDE DEF job
  <2>4. Replaces(j, job)
    BY <1>0, <1>4, <2>2, <2>3, ExceptIsWith DEF Replaces, UpdateRejected
  <2> QED
    BY <1>2, <2>2, <2>4
<1> QED
  BY <1>3, <1>4

LEMMA RunNowChanges ==
  ASSUME TypeInv, NEW u \in User, NEW j \in Job, RunJobNow(u, j)
  PROVE  \E job : Changes(j, job)
<1>0. j \in DOMAIN jobs /\ jobs[j] \in CronJob /\ count[j] + 1 \in Trigger
  BY Parameters DEF RunJobNow, TypeInv, StoreTyped, CountTyped, Trigger
<1> DEFINE job == [jobs[j] EXCEPT !.pending = count[j] + 1, !.waits = FALSE]
<1>1. /\ job \in CronJob /\ job.pending = count[j] + 1 /\ job.active = jobs[j].active
      /\ job.ran = jobs[j].ran /\ job.once = jobs[j].once /\ job.enabled = jobs[j].enabled
  BY <1>0 DEF CronJob
<1>2. PICK ok \in BOOLEAN : Writes(With(jobs, j, job), ok)
  BY DEF RunJobNow, SavesAndNotifies, Saves
<1> HIDE DEF job
<1>3. Replaces(j, job)
  BY <1>1, <1>2, WritesReplaces
<1>4. Ready(job)
  BY <1>0, <1>1, Parameters DEF Ready, HasPending, None, Trigger
<1>5. SameRuns(j, job) /\ StaysReady(j, job)
  BY <1>0, <1>1, <1>4 DEF SameRuns, StaysReady, RunJobNow
<1>6. count' = [count EXCEPT ![j] = @ + 1] /\ count \in [Job -> 0 .. MaxTriggers]
  BY DEF RunJobNow, TypeInv, CountTyped
<1>7. SamePending(j, job)
  BY <1>1, <1>6 DEF SamePending, RunJobNow, Unlocked
<1>8. Around
  BY <1>6, Parameters DEF RunJobNow, Around, LockGoesOn
<1> QED
  BY <1>3, <1>5, <1>7, <1>8 DEF Changes

\* A job that is triggered has a trigger, unless a turn of it is active.
LEMMA TriggeredReady ==
  ASSUME NEW job \in CronJob, NEW n, Idle(job) => n \in Trigger
  PROVE  LET new == Triggered(job, n)
         IN /\ new \in CronJob
            /\ new.active = job.active /\ new.ran = job.ran
            /\ new.once = job.once /\ new.enabled = job.enabled /\ new.next = job.next
            /\ HasPending(new) \/ new.active # None
            /\ IF Idle(job) THEN new.pending = n
               ELSE new.pending = job.pending /\ new.waits = job.waits
<1>1. CASE Idle(job)
  <2>1. n \in Trigger /\ n # None
    BY <1>1, Parameters DEF Trigger, None
  <2>2. Triggered(job, n) = [job EXCEPT !.pending = n, !.waits = FALSE]
    BY <1>1 DEF Triggered
  <2>3. [job EXCEPT !.pending = n, !.waits = FALSE] \in CronJob
    BY <2>1 DEF CronJob
  <2>4. Triggered(job, n).pending = n
    BY <2>2 DEF CronJob
  <2>5. HasPending(Triggered(job, n))
    BY <2>1, <2>4 DEF HasPending
  <2>6. /\ Triggered(job, n).active = job.active /\ Triggered(job, n).ran = job.ran
        /\ Triggered(job, n).once = job.once /\ Triggered(job, n).enabled = job.enabled
        /\ Triggered(job, n).next = job.next
    BY <2>2 DEF CronJob
  <2> QED
    BY <1>1, <2>2, <2>3, <2>4, <2>5, <2>6
<1>2. CASE ~Idle(job)
  BY <1>2 DEF Triggered, Idle
<1> QED
  BY <1>1, <1>2

LEMMA ProcessChanges ==
  ASSUME TypeInv, NEW c \in Caller, NEW j \in Job, ProcessDue(c, j) \/ ProcessRejected(c, j)
  PROVE  \E job : Changes(j, job)
<1>0. j \in DOMAIN jobs /\ jobs[j] \in CronJob /\ lock = Free
  BY DEF ProcessDue, ProcessRejected, Takes, Unlocked, TypeInv, StoreTyped
<1>1. /\ Idle(jobs[j]) => count'[j] \in Trigger /\ count'[j] = count[j] + 1
      /\ \A k \in Job : count[k] <= count'[k]
  <2>1. count \in [Job -> 0 .. MaxTriggers]
    BY DEF TypeInv, CountTyped
  <2>2. IF Idle(jobs[j]) THEN count[j] < MaxTriggers /\ count' = [count EXCEPT ![j] = @ + 1]
        ELSE count' = count
    BY DEF ProcessDue, ProcessRejected
  <2> QED
    BY <2>1, <2>2, Parameters DEF Trigger
<1> DEFINE made == Triggered(jobs[j], count'[j])
<1>2. /\ made \in CronJob /\ made.active = jobs[j].active /\ made.ran = jobs[j].ran
      /\ made.once = jobs[j].once /\ made.enabled = jobs[j].enabled
      /\ made.next = jobs[j].next /\ (HasPending(made) \/ made.active # None)
      /\ IF Idle(jobs[j]) THEN made.pending = count'[j]
         ELSE made.pending = jobs[j].pending /\ made.waits = jobs[j].waits
  BY <1>0, <1>1, TriggeredReady
<1>3. CASE ProcessDue(c, j)
  <2> DEFINE job == [made EXCEPT !.next = NextRunAfter(jobs[j])]
  <2>1. NextRunAfter(jobs[j]) \in Time
    BY DEF NextRunAfter, Time
  <2>2. PICK ok \in BOOLEAN :
          /\ Saves(With(jobs, j, job), ok)
          /\ IF ok THEN Submits(c, j, job) ELSE lock' = lock /\ Returns(c, j, FALSE)
    BY <1>3 DEF ProcessDue
  <2> HIDE DEF made
  <2>3. /\ job \in CronJob /\ job.active = made.active /\ job.ran = made.ran
        /\ job.once = made.once /\ job.enabled = made.enabled /\ job.pending = made.pending
        /\ job.waits = made.waits
    BY <1>2, <2>1 DEF CronJob
  <2> HIDE DEF job
  <2>4. Replaces(j, job)
    BY <2>2, <2>3, WritesReplaces DEF Saves
  <2>5. SameRuns(j, job) /\ StaysReady(j, job)
    BY <1>0, <1>2, <2>3, <1>3 DEF SameRuns, StaysReady, Ready, HasPending, ProcessDue
  <2>8. SamePending(j, job)
    BY <1>0, <1>1, <1>2, <2>3 DEF SamePending
  <2>6. LockGoesOn
    <3>1. CASE ok /\ MaySubmit(job)
      <4>1. /\ lock' = [by |-> c, turn |-> <<j, job.pending>>, at |-> "submit"]
            /\ j \in DOMAIN jobs' /\ jobs'[j] = job
        BY <2>2, <2>4, <3>1 DEF Submits, Replaces, With
      <4> QED
        BY <1>0, <3>1, <4>1 DEF LockGoesOn, Begins, MaySubmit
    <3>2. CASE ~(ok /\ MaySubmit(job))
      BY <2>2, <3>2 DEF LockGoesOn, Submits
    <3> QED
      BY <3>1, <3>2
  <2>7. Around
    BY <1>1, <1>3, <2>6 DEF Around, ProcessDue
  <2> QED
    BY <2>4, <2>5, <2>7, <2>8 DEF Changes
<1>4. CASE ProcessRejected(c, j)
  <2>1. jobs' = [jobs EXCEPT ![j] = made] /\ UNCHANGED <<disk, lock>>
    BY <1>4 DEF ProcessRejected
  <2> HIDE DEF made
  <2>2. jobs' = With(jobs, j, made)
    BY <1>0, <2>1, ExceptIsWith
  <2>3. Replaces(j, made)
    BY <1>2, <2>1, <2>2 DEF Replaces
  <2>4. SameRuns(j, made) /\ StaysReady(j, made)
    BY <1>0, <1>2, <1>4 DEF SameRuns, StaysReady, Ready, ProcessRejected
  <2>5. SamePending(j, made)
    BY <1>0, <1>1, <1>2 DEF SamePending
  <2>6. Around
    BY <1>1, <1>4 DEF Around, LockGoesOn, ProcessRejected
  <2> QED
    BY <2>3, <2>4, <2>5, <2>6 DEF Changes
<1> QED
  BY <1>3, <1>4

LEMMA TimeChanges ==
  ASSUME TypeInv, NEW j \in Job, NextRunComes(j) \/ RetryComes(j)
  PROVE  \E job : Changes(j, job)
<1>0. j \in DOMAIN jobs /\ jobs[j] \in CronJob
  BY DEF NextRunComes, RetryComes, TypeInv, StoreTyped
<1>1. PICK job \in CronJob :
        /\ jobs' = [jobs EXCEPT ![j] = job]
        /\ job.active = jobs[j].active /\ job.ran = jobs[j].ran /\ job.once = jobs[j].once
        /\ job.enabled = jobs[j].enabled /\ job.pending = jobs[j].pending
        /\ jobs[j].next # "none" => job.next # "none"
  <2>1. CASE NextRunComes(j)
    <3>1. [jobs[j] EXCEPT !.next = "due"] \in CronJob
      BY <1>0 DEF CronJob, Time
    <3> QED
      BY <1>0, <2>1, <3>1 DEF NextRunComes, CronJob
  <2>2. CASE RetryComes(j)
    <3>1. [jobs[j] EXCEPT !.waits = FALSE] \in CronJob
      BY <1>0 DEF CronJob
    <3> QED
      BY <1>0, <2>2, <3>1 DEF RetryComes, CronJob
  <2> QED
    BY <2>1, <2>2
<1>2. Replaces(j, job)
  BY <1>0, <1>1, ExceptIsWith DEF Replaces, NextRunComes, RetryComes
<1>3. SameRuns(j, job) /\ SamePending(j, job) /\ StaysReady(j, job)
  BY <1>0, <1>1
  DEF SameRuns, SamePending, StaysReady, Ready, HasPending, NextRunComes, RetryComes
<1>4. Around
  BY DEF Around, LockGoesOn, NextRunComes, RetryComes, TypeInv, CountTyped
<1> QED
  BY <1>2, <1>3, <1>4 DEF Changes

-----------------------------------------------------------------------------
(***************************************************************************)
(* The invariants are kept by steps that leave the turns alone.            *)
(***************************************************************************)
\* What the runs need of a step that leaves turns and events alone: no job waits
\* for another turn than before.
RunsGoOn ==
  /\ born \subseteq born' /\ LockGoesOn /\ UNCHANGED dialog
  /\ \A k \in DOMAIN jobs' :
       IF k \in DOMAIN jobs THEN jobs'[k].active = jobs[k].active
       ELSE k \notin born /\ jobs'[k].active = None

LEMMA GoOnRuns == ASSUME TypeInv, RunInv, RunsGoOn PROVE RunInv'
<1> USE DEF RunInv
<1>1. UNCHANGED <<queued, running, unresolved, ends, known, astray, lost>>
  BY DEF RunsGoOn, dialog
<1>2. \A t : (Alive(t) <=> Alive(t)') /\ Weight(t)' = Weight(t) /\ (EndComes(t) <=> EndComes(t)')
  BY <1>1 DEF Alive, Copies, Weight, EndComes
<1>3. \A t : Handed(t)' <=> Handed(t)
  BY DEF RunsGoOn, LockGoesOn, Begins, Handed, Given, Free
<1>4. SingleRun' /\ OneRun' /\ WeightKnown' /\ HandedAwaited'
  BY <1>1, <1>2, <1>3 DEF SingleRun, OneRun, WeightKnown, HandedAwaited
<1>5. UnresolvedKnown' /\ KnownBorn'
  BY <1>1 DEF UnresolvedKnown, KnownBorn, RunsGoOn
<1>6. RunsOwned'
  <2> SUFFICES ASSUME NEW j \in Job, NEW n \in Trigger, j \in DOMAIN jobs',
                      Alive(<<j, n>>)', <<j, n>> \notin astray'
               PROVE  jobs'[j].active = n \/ Handed(<<j, n>>)'
    BY DEF RunsOwned
  <2>1. Alive(<<j, n>>) /\ <<j, n>> \in Turn /\ <<j, n>> \notin astray
    BY <1>1, <1>2 DEF Turn
  <2>2. j \in born
    BY <2>1 DEF TypeInv, DialogTyped, KnownBorn, WeightKnown, Alive, Copies, Weight
  <2> QED
    BY <1>3, <2>1, <2>2 DEF RunsOwned, RunsGoOn
<1>7. RunsAwaited'
  BY <1>2 DEF RunsAwaited, RunsGoOn
<1> QED
  BY <1>4, <1>5, <1>6, <1>7

\* What the triggers need: a job gets the next trigger, or keeps its own.
TriggersGoOn ==
  /\ \A k \in Job : count[k] <= count'[k]
  /\ \A k \in DOMAIN jobs' : SamePending(k, jobs'[k])
  /\ \A k \in DOMAIN disk' :
       \/ k \in DOMAIN disk /\ disk'[k].pending = disk[k].pending
       \/ k \in DOMAIN jobs' /\ disk'[k].pending = jobs'[k].pending

LEMMA GoOnFresh ==
  ASSUME TypeInv, TypeInv', RunInv, FreshInv, RunsGoOn, TriggersGoOn PROVE FreshInv'
<1> USE DEF FreshInv
<1>1. UNCHANGED <<known, astray>> /\ \A t : Weight(t)' = Weight(t) /\ (Fresh(t) <=> Fresh(t)')
  BY DEF RunsGoOn, dialog, Fresh, Weight
<1>2. \A k \in Job : count[k] \in Nat /\ count'[k] \in Nat /\ count[k] <= count'[k]
  BY Parameters DEF TriggersGoOn, TypeInv, CountTyped
<1>3. /\ \A k \in DOMAIN jobs : k \in Job /\ jobs[k] \in CronJob
      /\ \A k \in DOMAIN jobs' : k \in Job /\ jobs'[k] \in CronJob
      /\ \A k \in DOMAIN disk : k \in Job /\ disk[k] \in CronJob
      /\ \A k \in DOMAIN disk' : k \in Job
  BY DEF TypeInv, StoreTyped, CountTyped
<1>4. \A k \in DOMAIN jobs' : jobs'[k].pending <= count'[k] /\ jobs'[k].active <= count'[k]
  <2> SUFFICES ASSUME NEW k \in DOMAIN jobs'
               PROVE  jobs'[k].pending <= count'[k] /\ jobs'[k].active <= count'[k]
    OBVIOUS
  <2>1. jobs'[k].active <= count'[k]
    <3>1. CASE k \in DOMAIN jobs
      <4>1. jobs'[k].active = jobs[k].active /\ jobs[k].active <= count[k]
        BY <3>1 DEF RunsGoOn, Counted
      <4>2. jobs[k].active \in Nat
        BY <1>3, <3>1, Parameters DEF CronJob, Trigger, None
      <4> QED
        BY <1>2, <1>3, <4>1, <4>2
    <3>2. CASE k \notin DOMAIN jobs
      BY <1>2, <1>3, <3>2 DEF RunsGoOn, None
    <3> QED
      BY <3>1, <3>2
  <2>2. jobs'[k].pending <= count'[k]
    <3>1. CASE HasPending(jobs'[k])
      <4>1. CASE jobs'[k].pending = count'[k]
        BY <1>2, <1>3, <4>1
      <4>2. CASE k \in DOMAIN jobs /\ jobs'[k].pending = jobs[k].pending
        <5>1. jobs[k].pending \in Nat /\ jobs[k].pending <= count[k]
          BY <1>3, <4>2, Parameters DEF CronJob, Trigger, None, Counted
        <5> QED
          BY <1>2, <1>3, <4>2, <5>1
      <4> QED
        BY <3>1, <4>1, <4>2 DEF TriggersGoOn, SamePending
    <3>2. CASE ~HasPending(jobs'[k])
      BY <1>2, <1>3, <3>2 DEF HasPending, None
    <3> QED
      BY <3>1, <3>2
  <2> QED
    BY <2>1, <2>2
<1>5. Counted'
  <2>1. \A j \in Job, n \in Trigger : <<j, n>> \in known' => n <= count'[j]
    BY <1>1, <1>2, Parameters DEF Counted, Trigger
  <2>2. \A k \in DOMAIN disk' : disk'[k].pending <= count'[k]
    <3> SUFFICES ASSUME NEW k \in DOMAIN disk' PROVE disk'[k].pending <= count'[k]
      OBVIOUS
    <3>1. CASE k \in DOMAIN disk /\ disk'[k].pending = disk[k].pending
      <4>1. disk[k].pending \in Nat /\ disk[k].pending <= count[k]
        BY <1>3, <3>1, Parameters DEF CronJob, Trigger, None, Counted
      <4> QED
        BY <1>2, <1>3, <3>1, <4>1
    <3>2. CASE k \in DOMAIN jobs' /\ disk'[k].pending = jobs'[k].pending
      BY <1>4, <3>2
    <3> QED
      BY <3>1, <3>2 DEF TriggersGoOn
  <2> QED
    BY <1>4, <2>1, <2>2 DEF Counted
<1>6. ASSUME NEW k \in DOMAIN jobs', HasPending(jobs'[k]), ~Submitting(k)
      PROVE  Fresh(<<k, jobs'[k].pending>>)
  <2>1. CASE jobs'[k].pending = count[k] + 1
    <3>1. k \in Job /\ jobs'[k].pending \in Trigger /\ <<k, jobs'[k].pending>> \in Turn
      BY <1>3, <1>6 DEF HasPending, CronJob, Turn
    <3>2. <<k, jobs'[k].pending>> \notin known
      BY <1>2, <2>1, <3>1, Parameters DEF Counted, Trigger
    <3>3. Weight(<<k, jobs'[k].pending>>) = 0
      BY <3>1, <3>2, WeightNat DEF RunInv, WeightKnown
    <3> QED
      BY <3>3 DEF Fresh
  <2>2. CASE k \in DOMAIN jobs /\ jobs'[k].pending = jobs[k].pending
    BY <1>6, <2>2 DEF HasPending, PendingFresh
  <2> QED
    BY <1>6, <2>1, <2>2 DEF TriggersGoOn, SamePending
<1>7. PendingFresh' /\ SubmitFresh' /\ LockPending'
  <2>1. CASE lock' = lock
    <3>1. lock # Free => lock.turn[1] \in DOMAIN jobs'
      BY <2>1 DEF TypeInv, LockHeld
    <3>2. LockPending'
      BY <2>1, <3>1 DEF LockPending, TriggersGoOn, SamePending
    <3> QED
      BY <1>1, <1>6, <2>1, <3>2 DEF PendingFresh, SubmitFresh, Submitting, HasPending
  <2>2. ASSUME NEW k \in Job, Begins(k) PROVE PendingFresh' /\ SubmitFresh' /\ LockPending'
    <3>1. \A l : ~Submitting(l)
      BY <2>2 DEF Begins, Submitting
    <3>2. Fresh(lock'.turn) /\ lock'.turn[2] = jobs'[lock'.turn[1]].pending
      BY <1>6, <2>2, <3>1 DEF Begins, PendingIsDue
    <3> QED
      BY <1>1, <1>6, <3>1, <3>2 DEF PendingFresh, SubmitFresh, LockPending, HasPending
  <2> QED
    BY <2>1, <2>2 DEF RunsGoOn, LockGoesOn
<1> QED
  BY <1>5, <1>7

\* A turn that has begun stays so, and a settled job settled.
Lasting == settled \subseteq settled' /\ known \subseteq known'

LEMMA KeptLasts ==
  ASSUME Lasting, NEW j \in Job, NEW job, KeptJob(j, job)
  PROVE  KeptJob(j, job)'
<1>1. Begun(j) => Begun(j)'
  BY DEF Lasting, Begun, Turn
<1> QED
  BY <1>1 DEF KeptJob, Lasting, Ready, HasPending

LEMMA ListLasts ==
  ASSUME Lasting, NEW all, DOMAIN all \subseteq Job, Kept(all)
  PROVE  Kept(all)'
BY KeptLasts DEF Kept

LEMMA StoredKeptNext ==
  ASSUME TypeInv', Kept(jobs)', disk' = Stored(jobs') PROVE Kept(disk)'
<1>1. jobs' \in [DOMAIN jobs' -> CronJob]
  BY DEF TypeInv, StoreTyped
<1>2. /\ DOMAIN disk' = DOMAIN jobs'
      /\ \A j \in DOMAIN jobs' :
           /\ disk'[j].once = jobs'[j].once /\ disk'[j].enabled = jobs'[j].enabled
           /\ disk'[j].pending = jobs'[j].pending /\ disk'[j].active = jobs'[j].active
           /\ disk'[j].ran = jobs'[j].ran
           /\ disk'[j].next = "none" <=> jobs'[j].next = "none"
  BY <1>1, StoredShape
<1> QED
  BY <1>2 DEF Kept, KeptJob, Ready, HasPending

LEMMA StoreLasts ==
  ASSUME TypeInv, KeptInv, Lasting, UNCHANGED store PROVE KeptInv'
<1>1. PICK oldJobs, oldDisk : oldJobs = jobs /\ oldDisk = disk
  OBVIOUS
<1>2. Kept(oldJobs)' /\ Kept(oldDisk)'
  BY <1>1, ListLasts DEF KeptInv, TypeInv, StoreTyped, CountTyped
<1> QED
  BY <1>1, <1>2 DEF KeptInv, store

\* The list keeps what it has promised when the job that changes does.
LEMMA ReplacesKept ==
  ASSUME TypeInv, TypeInv', KeptInv, Lasting, NEW j \in Job, NEW job, Replaces(j, job),
         KeptJob(j, job)'
  PROVE  KeptInv'
<1>1. /\ DOMAIN jobs' = DOMAIN jobs \cup {j} /\ jobs'[j] = job
      /\ \A k \in DOMAIN jobs \ {j} : jobs'[k] = jobs[k]
  BY DEF Replaces, With
<1>2. \A k \in DOMAIN jobs : k \in Job
  BY DEF TypeInv, StoreTyped, CountTyped
<1>3. \A k \in DOMAIN jobs \ {j} : KeptJob(k, jobs[k])'
  <2> SUFFICES ASSUME NEW k \in DOMAIN jobs \ {j} PROVE KeptJob(k, jobs[k])'
    OBVIOUS
  <2>1. jobs'[k] = jobs[k]
    BY <1>1
  <2>2. PICK old : old = jobs[k]
    OBVIOUS
  <2>3. KeptJob(k, old)
    BY <2>2 DEF KeptInv, Kept
  <2>4. KeptJob(k, old)'
    BY <1>2, <2>3, KeptLasts
  <2> QED
    BY <2>1, <2>2, <2>4
<1>4. Kept(jobs)'
  <2>1. KeptJob(j, jobs[j])'
    BY <1>1
  <2> QED
    BY <1>1, <1>3, <2>1 DEF Kept
<1>5. Kept(disk)'
  <2>1. CASE disk' = disk
    <3>1. PICK old : old = disk
      OBVIOUS
    <3>2. Kept(old)'
      BY <3>1, ListLasts DEF KeptInv, TypeInv, StoreTyped, CountTyped
    <3> QED
      BY <2>1, <3>1, <3>2
  <2>2. CASE disk' = Stored(jobs')
    BY <1>4, <2>2, StoredKeptNext
  <2> QED
    BY <2>1, <2>2 DEF Replaces
<1> QED
  BY <1>4, <1>5 DEF KeptInv

Inv == TypeInv /\ RunInv /\ FreshInv /\ KeptInv

LEMMA StoredPending ==
  ASSUME TypeInv', disk' = Stored(jobs'), NEW k \in DOMAIN disk'
  PROVE  k \in DOMAIN jobs' /\ disk'[k].pending = jobs'[k].pending
<1>1. jobs' \in [DOMAIN jobs' -> CronJob]
  BY DEF TypeInv, StoreTyped
<1> QED
  BY <1>1, StoredShape

LEMMA ChangesInv ==
  ASSUME Inv, TypeInv', NEW j \in Job, NEW job, Changes(j, job)
  PROVE  RunInv' /\ FreshInv' /\ KeptInv'
<1> USE DEF Inv
<1>1. /\ DOMAIN jobs' = DOMAIN jobs \cup {j} /\ jobs'[j] = job
      /\ \A k \in DOMAIN jobs \ {j} : jobs'[k] = jobs[k]
  BY DEF Changes, Replaces, With
<1>2. RunsGoOn
  BY <1>1 DEF RunsGoOn, Changes, Around, SameRuns
<1>3. Lasting
  BY DEF Lasting, Changes, Around, dialog
<1>4. KeptJob(j, job)'
  <2>1. Begun(j) => Begun(j)'
    BY <1>3 DEF Lasting, Begun, Turn
  <2>2. j \in DOMAIN jobs => KeptJob(j, jobs[j])
    BY DEF KeptInv, Kept
  <2>3. job.active # None \/ job.ran => Begun(j)'
    BY <2>1, <2>2 DEF Changes, SameRuns, KeptJob
  <2>4. job.once /\ j \notin settled' => (Ready(job) /\ job.enabled) \/ Begun(j)'
    BY <1>3, <2>1, <2>2, <2>3 DEF Changes, StaysReady, KeptJob, Lasting
  <2>5. Ready(job) <=> Ready(job)'
    BY DEF Ready, HasPending
  <2> QED
    BY <2>3, <2>4, <2>5 DEF KeptJob
<1>5. TriggersGoOn
  <2>1. \A k \in DOMAIN disk' :
          \/ k \in DOMAIN disk /\ disk'[k].pending = disk[k].pending
          \/ k \in DOMAIN jobs' /\ disk'[k].pending = jobs'[k].pending
    <3>1. CASE disk' = disk
      BY <3>1
    <3>2. CASE disk' = Stored(jobs')
      BY <3>2, StoredPending
    <3> QED
      BY <3>1, <3>2 DEF Changes, Replaces
  <2> QED
    BY <1>1, <2>1 DEF TriggersGoOn, Changes, Around, SamePending
<1> QED
  BY <1>2, <1>3, <1>4, <1>5, GoOnRuns, GoOnFresh, ReplacesKept DEF Changes

\* Steps that leave memory and file alone.
LEMMA QuietInv ==
  ASSUME Inv, TypeInv', UNCHANGED <<store, dialog, born, count, settled>>, LockGoesOn
  PROVE  RunInv' /\ FreshInv' /\ KeptInv'
<1> USE DEF Inv
<1>1. RunsGoOn
  BY DEF RunsGoOn, store
<1>2. KeptInv'
  BY DEF KeptInv, Kept, KeptJob, Begun, Ready, HasPending, store, dialog
<1>3. TriggersGoOn
  BY Parameters DEF TriggersGoOn, SamePending, store, TypeInv, CountTyped
<1> QED
  BY <1>1, <1>2, <1>3, GoOnRuns, GoOnFresh

LEMMA DeleteInv ==
  ASSUME Inv, TypeInv', NEW gone, DeleteJobs(gone) PROVE RunInv' /\ FreshInv' /\ KeptInv'
<1> USE DEF Inv
<1>1. PICK ok \in BOOLEAN : Writes([k \in DOMAIN jobs \ gone |-> jobs[k]], ok)
  BY DEF DeleteJobs, SavesAndNotifies, Saves
<1>2. /\ DOMAIN jobs' = DOMAIN jobs \ gone
      /\ \A k \in DOMAIN jobs' : jobs'[k] = jobs[k]
      /\ disk' = disk \/ disk' = Stored(jobs')
  BY <1>1 DEF Writes
<1>3. RunsGoOn
  BY <1>2 DEF RunsGoOn, LockGoesOn, DeleteJobs
<1>4. UNCHANGED <<known, settled>> /\ lock = Free
  BY DEF DeleteJobs, dialog, Unlocked
<1>5. Kept(jobs)'
  BY <1>2, <1>4 DEF KeptInv, Kept, KeptJob, Begun, Ready, HasPending
<1>6. Kept(disk)'
  <2>1. CASE disk' = disk
    BY <1>4, <2>1 DEF KeptInv, Kept, KeptJob, Begun, Ready, HasPending
  <2>2. CASE disk' = Stored(jobs')
    BY <1>5, <2>2, StoredKeptNext
  <2> QED
    BY <1>2, <2>1, <2>2
<1>7. TriggersGoOn
  <2>1. \A k \in DOMAIN disk' :
          \/ k \in DOMAIN disk /\ disk'[k].pending = disk[k].pending
          \/ k \in DOMAIN jobs' /\ disk'[k].pending = jobs'[k].pending
    BY <1>2, StoredPending
  <2>2. \A k \in Job : count[k] <= count'[k]
    BY Parameters DEF DeleteJobs, TypeInv, CountTyped
  <2> QED
    BY <1>2, <1>4, <2>1, <2>2 DEF TriggersGoOn, SamePending
<1> QED
  BY <1>3, <1>5, <1>6, <1>7, GoOnRuns, GoOnFresh DEF KeptInv

-----------------------------------------------------------------------------
(***************************************************************************)
(* The steps of a submission, of the turns and of their events.            *)
(***************************************************************************)
\* Most of them give no turn a new copy unless it goes astray, and let go of a
\* turn that was given only when it goes astray.
Lighter(t) ==
  /\ t \notin astray' => Copies(t)' <= Copies(t) /\ Weight(t)' <= Weight(t)
  /\ Weight(t)' > 0 => Weight(t) > 0 \/ t \in known'
  /\ EndComes(t) => EndComes(t)'

LockEases ==
  /\ lock' # Free =>
       /\ lock # Free /\ lock'.turn = lock.turn
       /\ lock'.at \in Given => lock.at \in Given
       /\ lock'.at \in Tried => lock.at \in Tried \/ lock.turn \in astray'
  /\ lock' = Free => lock = Free \/ lock.at \in Tried \/ lock.turn \in astray'

Eases ==
  /\ UNCHANGED <<store, born, count, settled>>
  /\ known \subseteq known' /\ astray \subseteq astray' /\ unresolved' \subseteq known'
  /\ \A t \in known' \ known : lock # Free /\ t = lock.turn
  /\ \A t \in Turn : Lighter(t)
  /\ LockEases

\* The job whose submission is in progress, and its trigger.
LEMMA LockNames ==
  ASSUME TypeInv, FreshInv, lock # Free
  PROVE  \E j \in DOMAIN jobs, n \in Trigger :
           /\ j \in Job /\ j \in born /\ lock.turn = <<j, n>> /\ <<j, n>> \in Turn
           /\ lock.at \in Given \cup Tried
           /\ jobs[j] \in CronJob /\ jobs[j].active = None /\ jobs[j].pending = n
           /\ n <= count[j] /\ n # None
<1>1. PICK j \in Job, n \in Trigger : lock.turn = <<j, n>> /\ lock.at \in Given \cup Tried
  BY DEF TypeInv, LockTyped, Turn, Given, Tried
<1>2. j \in DOMAIN jobs /\ jobs[j].active = None /\ jobs[j].pending = n
  BY <1>1 DEF TypeInv, LockHeld, FreshInv, LockPending
<1>3. jobs[j] \in CronJob /\ j \in born /\ n <= count[j] /\ n # None
  BY <1>2, Parameters DEF TypeInv, StoreTyped, FreshInv, Counted, Trigger, None
<1> QED
  BY <1>1, <1>2, <1>3 DEF Turn

LEMMA EasesInv ==
  ASSUME Inv, TypeInv', Eases PROVE RunInv' /\ FreshInv' /\ KeptInv'
<1> USE DEF Inv
<1>1. /\ UNCHANGED store /\ UNCHANGED <<jobs, disk, born, count, settled>>
      /\ known \subseteq known' /\ astray \subseteq astray'
      /\ \A t \in known' \ known : lock # Free /\ t = lock.turn
  BY DEF Eases, store
<1>2. \A t \in Turn :
        /\ Lighter(t)
        /\ Weight(t) \in Nat /\ Copies(t) \in Nat /\ Weight(t)' \in Nat /\ Copies(t)' \in Nat
  <2>1. \A t \in Turn : Weight(t)' \in Nat /\ Copies(t)' \in Nat
    BY DEF TypeInv, DialogTyped, Weight, Copies
  <2> QED
    BY <2>1, WeightNat DEF Eases
<1>3. \A t \in Turn \ astray' :
        /\ t \notin astray
        /\ Alive(t)' => Alive(t)
        /\ Weight(t)' <= Weight(t)
  BY <1>1, <1>2 DEF Lighter, Alive
<1>4. \A t : Handed(t) => Handed(t)' \/ t \in astray'
  <2> SUFFICES ASSUME NEW t, Handed(t), t \notin astray' PROVE Handed(t)'
    OBVIOUS
  <2>1. lock # Free /\ lock.turn = t /\ lock.at \in Given /\ lock.at \notin Tried
    BY DEF Handed, Given, Tried, Free
  <2>2. lock' # Free /\ lock'.turn = t /\ lock'.at \notin Tried
    BY <2>1 DEF Eases, LockEases
  <2>3. lock'.at \in Given
    BY <2>2 DEF TypeInv, LockTyped, Given, Tried
  <2> QED
    BY <2>2, <2>3 DEF Handed
<1>5. \A t : Handed(t)' => Handed(t)
  BY DEF Eases, LockEases, Handed, Given, Free
<1>6. SingleRun' /\ OneRun'
  <2>1. SingleRun'
    BY <1>2, <1>3 DEF RunInv, SingleRun
  <2>2. OneRun'
    BY <1>3 DEF RunInv, OneRun, Turn
  <2> QED
    BY <2>1, <2>2
<1>7. RunsOwned'
  BY <1>1, <1>3, <1>4 DEF RunInv, RunsOwned, Turn
<1>8. RunsAwaited'
  <2>1. \A k \in DOMAIN jobs : jobs[k].active # None => <<k, jobs[k].active>> \in Turn
    BY DEF TypeInv, StoreTyped, CountTyped, CronJob, Turn
  <2> QED
    BY <1>1, <1>2, <2>1 DEF RunInv, RunsAwaited, Lighter
<1>9. HandedAwaited' /\ WeightKnown' /\ UnresolvedKnown'
  BY <1>1, <1>2, <1>5 DEF RunInv, HandedAwaited, WeightKnown, UnresolvedKnown, Lighter, Eases
<1>10. KnownBorn' /\ Counted'
  <2>1. lock # Free => /\ lock.turn[1] \in born /\ lock.turn[2] <= count[lock.turn[1]]
    <3> SUFFICES ASSUME lock # Free PROVE lock.turn[1] \in born /\ lock.turn[2] <= count[lock.turn[1]]
      OBVIOUS
    <3>1. PICK j \in DOMAIN jobs, n \in Trigger : /\ j \in born /\ lock.turn = <<j, n>>
                                                  /\ n <= count[j]
      BY LockNames
    <3> QED
      BY <3>1
  <2>2. ASSUME NEW j \in Job, NEW n \in Trigger, <<j, n>> \in known'
        PROVE  j \in born /\ n <= count[j]
    <3>1. CASE <<j, n>> \in known
      BY <3>1 DEF RunInv, KnownBorn, FreshInv, Counted
    <3>2. CASE <<j, n>> \notin known
      BY <1>1, <2>1, <2>2, <3>2
    <3> QED
      BY <3>1, <3>2
  <2> QED
    BY <1>1, <2>2 DEF KnownBorn, FreshInv, Counted
<1>11. \A t \in Turn : Fresh(t) => Fresh(t)'
  BY <1>2, <1>3 DEF Fresh
<1>12. SubmitFresh' /\ LockPending'
  <2>1. lock' # Free => /\ lock # Free /\ lock'.turn = lock.turn /\ lock.turn \in Turn
                        /\ lock'.at \in Tried => lock.at \in Tried \/ lock.turn \in astray'
    BY LockNames DEF Eases, LockEases
  <2>2. LockPending'
    BY <1>1, <2>1 DEF FreshInv, LockPending
  <2>3. SubmitFresh'
    <3> SUFFICES ASSUME lock'.at \in Tried PROVE Fresh(lock.turn)' /\ lock'.turn = lock.turn
      BY DEF SubmitFresh, Fresh, Weight
    <3>1. lock' # Free
      BY DEF Tried, Free
    <3>2. CASE lock.turn \in astray'
      BY <2>1, <3>1, <3>2 DEF Fresh
    <3>3. CASE lock.at \in Tried
      BY <1>11, <2>1, <3>1, <3>3 DEF FreshInv, SubmitFresh
    <3> QED
      BY <2>1, <3>1, <3>2, <3>3
  <2> QED
    BY <2>2, <2>3
<1>13. PendingFresh'
  <2> SUFFICES ASSUME NEW k \in DOMAIN jobs, HasPending(jobs[k]), ~Submitting(k)',
                      NEW t, t = <<k, jobs[k].pending>>
               PROVE  Fresh(t)'
    BY <1>1 DEF PendingFresh, HasPending, Fresh, Weight
  <2>1. t \in Turn
    BY DEF TypeInv, StoreTyped, CountTyped, CronJob, HasPending, Turn
  <2>2. CASE ~Submitting(k)
    BY <1>11, <2>1, <2>2 DEF FreshInv, PendingFresh
  <2>3. CASE Submitting(k)
    <3>1. lock # Free /\ lock' = Free /\ lock.turn[1] = k
      BY <2>3 DEF Submitting, Eases, LockEases
    <3>2. lock.turn = t
      <4>1. PICK j \in DOMAIN jobs, n \in Trigger : lock.turn = <<j, n>> /\ jobs[j].pending = n
        BY <3>1, LockNames
      <4> QED
        BY <3>1, <4>1
    <3>3. CASE lock.at \in Tried
      BY <1>11, <2>1, <3>2, <3>3 DEF FreshInv, SubmitFresh
    <3>4. CASE lock.turn \in astray'
      BY <3>2, <3>4 DEF Fresh
    <3> QED
      BY <3>1, <3>3, <3>4 DEF Eases, LockEases
  <2> QED
    BY <2>2, <2>3
<1>14. KeptInv'
  <2>1. Lasting
    BY <1>1 DEF Lasting
  <2> QED
    BY <1>1, <2>1, StoreLasts
<1> QED
  BY <1>6, <1>7, <1>8, <1>9, <1>10, <1>12, <1>13, <1>14 DEF RunInv, FreshInv

\* A turn whose counts stay, or change as a step says.
LEMMA SameWeight ==
  ASSUME TypeInv, NEW t \in Turn, queued'[t] = queued[t], running'[t] = running[t], ends'[t] = ends[t],
         t \in lost => t \in lost'
  PROVE  Lighter(t)
BY WeightNat DEF Lighter, Copies, Weight, EndComes

\* The dialog scheduler runs, puts back, ends and clears turns.
LEMMA TurnInv ==
  ASSUME Inv, TypeInv', NEW t \in Turn, TurnStep(t)
  PROVE  RunInv' /\ FreshInv' /\ KeptInv'
<1> USE DEF Inv
<1>1. /\ UNCHANGED <<store, lock, known, born, count, settled>>
      /\ astray \subseteq astray' /\ lost \subseteq lost'
  BY DEF TurnStep, TurnStarts, PutBack, TurnEnds, EventDropped
<1>2. /\ queued \in [Turn -> Nat] /\ running \in [Turn -> Nat] /\ ends \in [Turn -> Nat]
  BY DEF TypeInv, DialogTyped
<1>3. \A u \in Turn \ {t} :
        queued'[u] = queued[u] /\ running'[u] = running[u] /\ ends'[u] = ends[u]
  BY <1>2, CopiesChange DEF TurnStep, TurnStarts, PutBack, TurnEnds, EventDropped
<1>4. Lighter(t)
  <2>1. CASE TurnStarts(t)
    <3>1. /\ queued[t] > 0 /\ queued'[t] = queued[t] - 1 /\ running'[t] = running[t] + 1
          /\ ends'[t] = ends[t] /\ lost' = lost
      BY <1>2, <2>1, CopiesChange DEF TurnStarts
    <3> QED
      BY <1>2, <3>1 DEF Lighter, Copies, Weight, EndComes
  <2>2. CASE PutBack(t)
    <3>1. /\ queued'[t] = queued[t] + 1 /\ running'[t] = running[t]
          /\ ends'[t] = ends[t] /\ lost' = lost /\ t \in astray'
      BY <1>2, <2>2, CopiesChange DEF PutBack
    <3>2. t \in unresolved
      BY <2>2 DEF PutBack
    <3>3. t \in known
      BY <3>2 DEF RunInv, UnresolvedKnown
    <3> QED
      BY <1>1, <1>2, <3>1, <3>3 DEF Lighter, Copies, Weight, EndComes
  <2>3. CASE TurnEnds(t)
    <3>1. /\ running[t] > 0 /\ queued'[t] = queued[t] /\ running'[t] = running[t] - 1
          /\ ends'[t] = ends[t] + 1 /\ lost' = lost
      BY <1>2, <2>3, CopiesChange DEF TurnEnds
    <3> QED
      BY <1>2, <3>1 DEF Lighter, Copies, Weight, EndComes
  <2>4. CASE EventDropped(t)
    <3>1. /\ queued'[t] = queued[t] /\ running'[t] = running[t]
          /\ ends[t] > 0 /\ ends'[t] = ends[t] - 1 /\ t \in lost'
      BY <1>2, <2>4, CopiesChange DEF EventDropped
    <3> QED
      BY <1>2, <3>1 DEF Lighter, Copies, Weight, EndComes
  <2> QED
    BY <2>1, <2>2, <2>3, <2>4 DEF TurnStep
<1>5. \A u \in Turn : Lighter(u)
  BY <1>1, <1>3, <1>4, SameWeight
<1>6. LockEases
  BY <1>1 DEF LockEases
<1>7. unresolved' \subseteq known'
  <2>1. TurnStarts(t) => t \in known
    BY WeightNat DEF TurnStarts, RunInv, WeightKnown, Weight
  <2> QED
    BY <1>1, <2>1
    DEF TurnStep, TurnStarts, PutBack, TurnEnds, EventDropped, RunInv, UnresolvedKnown
<1> QED
  BY <1>1, <1>5, <1>6, <1>7, EasesInv DEF Eases

LEMMA ClearedInv ==
  ASSUME Inv, TypeInv', NEW gone \in SUBSET {t \in Turn : queued[t] > 0}, QueueCleared(gone)
  PROVE  RunInv' /\ FreshInv' /\ KeptInv'
<1> USE DEF Inv
<1>1. /\ UNCHANGED <<store, lock, running, ends, known, astray, born, count, settled>>
      /\ \A t \in Turn : queued'[t] = IF t \in gone THEN 0 ELSE queued[t]
      /\ lost' = lost \cup gone
  BY DEF QueueCleared
<1>2. \A t \in Turn : Lighter(t)
  <2> SUFFICES ASSUME NEW t \in Turn PROVE Lighter(t)
    OBVIOUS
  <2>1. queued[t] \in Nat /\ running[t] \in Nat /\ ends[t] \in Nat
    BY WeightNat
  <2> QED
    BY <1>1, <2>1 DEF Lighter, Copies, Weight, EndComes
<1>3. LockEases
  BY <1>1 DEF LockEases
<1> QED
  BY <1>1, <1>2, <1>3, EasesInv DEF Eases, QueueCleared, RunInv, UnresolvedKnown

\* A submission that reports an error, or is dropped, after it has queued or started
\* its turn leaves the turn astray.
LEMMA SubmitInv ==
  ASSUME Inv, TypeInv',
         \/ SubmitResolves \/ SubmitFindsNoSession \/ SubmitFails
         \/ SubmitFailsQueued \/ SubmitFailsStarted
  PROVE  RunInv' /\ FreshInv' /\ KeptInv'
<1> USE DEF Inv
<1>1. lock # Free /\ UNCHANGED <<store, running, unresolved, ends, lost, born, count, settled>>
  BY DEF SubmitResolves, SubmitFindsNoSession, SubmitFails, SubmitFailsQueued,
         SubmitFailsStarted, SubmitReaches, Free, dialog
<1>2. lock.turn \in Turn
  BY <1>1, LockNames
<1>3. PICK t \in Turn : t = lock.turn
  BY <1>2
<1>4. /\ known \subseteq known' /\ known' \subseteq known \cup {t}
      /\ astray \subseteq astray'
      /\ \/ queued' = queued
         \/ queued' = More(queued, t) /\ t \in astray' /\ t \in known'
  <2>1. CASE SubmitFailsStarted
    <3>1. Handed(t)
      BY <1>3, <2>1 DEF SubmitFailsStarted, SubmitReaches, Handed, Given
    <3>2. t \in known
      BY <3>1 DEF RunInv, HandedAwaited
    <3> QED
      BY <1>3, <2>1, <3>2 DEF SubmitFailsStarted
  <2>2. CASE ~SubmitFailsStarted
    BY <1>3, <2>2 DEF SubmitResolves, SubmitFindsNoSession, SubmitFails, SubmitFailsQueued, dialog
  <2> QED
    BY <2>1, <2>2
<1>5. \A u \in Turn : Lighter(u)
  <2> SUFFICES ASSUME NEW u \in Turn PROVE Lighter(u)
    OBVIOUS
  <2>1. CASE queued'[u] = queued[u]
    BY <1>1, <2>1, SameWeight
  <2>2. CASE queued'[u] # queued[u]
    <3>1. queued \in [Turn -> Nat] /\ queued[u] \in Nat /\ running[u] \in Nat /\ ends[u] \in Nat
      BY WeightNat DEF TypeInv, DialogTyped
    <3>2. u = t /\ queued'[u] = queued[u] + 1 /\ u \in astray' /\ u \in known'
      BY <1>4, <2>2, <3>1, CopiesChange
    <3> QED
      BY <1>1, <3>1, <3>2 DEF Lighter, Copies, Weight, EndComes
  <2> QED
    BY <2>1, <2>2
<1>6. LockEases
  <2>1. lock \in [by: Caller, turn: Turn, at: {"submit", "started", "accepted", "missing", "failed"}]
    BY <1>1 DEF TypeInv, LockTyped
  <2>2. \E from, to \in {"submit", "started", "accepted", "missing", "failed"} :
          /\ lock.at = from /\ lock' = [lock EXCEPT !.at = to]
          /\ to \in Given => from \in Given
          /\ to \in Tried => from \in Tried \/ lock.turn \in astray'
    BY DEF SubmitResolves, SubmitFindsNoSession, SubmitFails, SubmitFailsQueued,
           SubmitFailsStarted, SubmitReaches, Given, Tried
  <2>3. lock' # Free /\ lock'.turn = lock.turn
    BY <2>1, <2>2 DEF Free
  <2> QED
    BY <1>1, <2>1, <2>2, <2>3 DEF LockEases
<1> QED
  BY <1>1, <1>3, <1>4, <1>5, <1>6, EasesInv DEF Eases, RunInv, UnresolvedKnown

LEMMA DropInv ==
  ASSUME Inv, TypeInv', NEW u \in User, CallDropped(u)
  PROVE  RunInv' /\ FreshInv' /\ KeptInv'
<1> USE DEF Inv
<1>1. /\ UNCHANGED <<store, queued, running, unresolved, ends, known, lost, born, count, settled>>
      /\ astray \subseteq astray'
  BY DEF CallDropped
<1>2. LockEases
  BY DEF CallDropped, LockEases, Tried
<1>3. \A t \in Turn : Lighter(t)
  BY <1>1, SameWeight
<1> QED
  BY <1>1, <1>2, <1>3, EasesInv DEF Eases, RunInv, UnresolvedKnown

\* The job whose submission is in progress waits for no turn, so that none of its
\* turns is queued or running before this one, but for those that are astray.
LEMMA GiveInv ==
  ASSUME Inv, TypeInv', SubmitQueues \/ SubmitStarts PROVE RunInv' /\ FreshInv' /\ KeptInv'
<1> USE DEF Inv
<1>1. /\ lock # Free /\ lock.at = "submit"
      /\ UNCHANGED <<store, unresolved, ends, lost, astray, born, count, settled>>
  BY DEF SubmitQueues, SubmitStarts, SubmitReaches, Free
<1>2. PICK j \in DOMAIN jobs, n \in Trigger :
        /\ j \in Job /\ j \in born /\ lock.turn = <<j, n>> /\ <<j, n>> \in Turn
        /\ jobs[j].active = None /\ jobs[j].pending = n /\ n <= count[j] /\ n # None
  BY <1>1, LockNames
<1>3. PICK t \in Turn : t = <<j, n>>
  BY <1>2
<1>4. /\ lock'.turn = t /\ lock'.at \in Given /\ lock' # Free
      /\ known' = known \cup {t}
      /\ \/ queued' = More(queued, t) /\ running' = running
         \/ running' = More(running, t) /\ queued' = queued
  <2>1. lock \in [by: Caller, turn: Turn, at: {"submit", "started", "accepted", "missing", "failed"}]
    BY <1>1 DEF TypeInv, LockTyped
  <2>2. \E to \in Given : lock' = [lock EXCEPT !.at = to]
    BY DEF SubmitQueues, SubmitStarts, SubmitReaches, Given
  <2>3. lock'.turn = t /\ lock'.at \in Given /\ lock' # Free
    BY <1>2, <1>3, <2>1, <2>2 DEF Given, Free
  <2> QED
    BY <1>2, <1>3, <2>3 DEF SubmitQueues, SubmitStarts
<1>5. /\ \A u \in Turn : /\ Weight(u) \in Nat /\ Copies(u) \in Nat
                         /\ u # t => Weight(u)' = Weight(u) /\ Copies(u)' = Copies(u)
      /\ Weight(t)' = Weight(t) + 1 /\ Copies(t)' = Copies(t) + 1
  <2>1. queued \in [Turn -> Nat] /\ running \in [Turn -> Nat] /\ ends \in [Turn -> Nat]
    BY DEF TypeInv, DialogTyped
  <2>2. /\ \A u \in Turn \ {t} : queued'[u] = queued[u] /\ running'[u] = running[u]
        /\ queued'[t] + running'[t] = queued[t] + running[t] + 1
    <3>1. queued[t] \in Nat /\ running[t] \in Nat
      BY <2>1
    <3>2. CASE queued' = More(queued, t) /\ running' = running
      <4>1. /\ queued'[t] = queued[t] + 1
            /\ \A u \in Turn \ {t} : queued'[u] = queued[u]
        BY <2>1, <3>2, CopiesChange
      <4> QED
        BY <3>1, <3>2, <4>1
    <3>3. CASE running' = More(running, t) /\ queued' = queued
      <4>1. /\ running'[t] = running[t] + 1
            /\ \A u \in Turn \ {t} : running'[u] = running[u]
        BY <2>1, <3>3, CopiesChange
      <4> QED
        BY <3>1, <3>3, <4>1
    <3> QED
      BY <1>4, <3>2, <3>3
  <2> QED
    BY <1>1, <2>1, <2>2, WeightNat DEF Weight, Copies
<1>6. t \notin astray => Weight(t) = 0
  BY <1>1, <1>2, <1>3 DEF FreshInv, SubmitFresh, Fresh, Tried
<1>7. /\ Handed(t)' /\ \A u : Handed(u)' => u = t
      /\ \A u : ~Handed(u)
  BY <1>1, <1>4 DEF Handed, Given
<1>8. \A m \in Trigger : <<j, m>> \notin astray => ~Alive(<<j, m>>)
  BY <1>2, <1>7, Parameters DEF RunInv, RunsOwned, None, Trigger
<1>9. \A u \in Turn : /\ EndComes(u) => EndComes(u)'
                      /\ Alive(u)' => Alive(u) \/ u = t
  BY <1>1, <1>5 DEF EndComes, Alive
<1>10. SingleRun' /\ OneRun' /\ RunsOwned'
  <2>1. SingleRun'
    BY <1>1, <1>5, <1>6 DEF RunInv, SingleRun
  <2>2. OneRun'
    <3> SUFFICES ASSUME NEW k \in Job, NEW l \in Trigger, NEW m \in Trigger,
                        Alive(<<k, l>>)', <<k, l>> \notin astray,
                        Alive(<<k, m>>)', <<k, m>> \notin astray
                 PROVE  l = m
      BY <1>1 DEF OneRun
    <3>1. /\ Alive(<<k, l>>) \/ <<k, l>> = t
          /\ Alive(<<k, m>>) \/ <<k, m>> = t
      BY <1>9 DEF Turn
    <3> QED
      BY <1>3, <1>8, <3>1 DEF RunInv, OneRun
  <2>3. RunsOwned'
    BY <1>1, <1>7, <1>9 DEF RunInv, RunsOwned, Turn, store
  <2> QED
    BY <2>1, <2>2, <2>3
<1>11. RunsAwaited'
  <2>1. \A k \in DOMAIN jobs : jobs[k].active # None => <<k, jobs[k].active>> \in Turn
    BY DEF TypeInv, StoreTyped, CountTyped, CronJob, Turn
  <2> QED
    BY <1>1, <1>9, <2>1 DEF RunInv, RunsAwaited, store
<1>12. HandedAwaited' /\ WeightKnown' /\ UnresolvedKnown'
  BY <1>1, <1>4, <1>5, <1>7
  DEF RunInv, HandedAwaited, WeightKnown, UnresolvedKnown, EndComes
<1>13. KnownBorn' /\ Counted'
  BY <1>1, <1>2, <1>3, <1>4 DEF RunInv, KnownBorn, FreshInv, Counted, store
<1>14. SubmitFresh' /\ LockPending'
  BY <1>1, <1>2, <1>3, <1>4 DEF SubmitFresh, LockPending, Given, Tried, store
<1>15. PendingFresh'
  <2> SUFFICES ASSUME NEW k \in DOMAIN jobs, HasPending(jobs[k]), ~Submitting(k)',
                      NEW u, u = <<k, jobs[k].pending>>
               PROVE  Fresh(u)'
    BY <1>1 DEF PendingFresh, HasPending, Fresh, Weight, store
  <2>1. u \in Turn
    BY DEF TypeInv, StoreTyped, CountTyped, CronJob, HasPending, Turn
  <2>2. k # j /\ ~Submitting(k) /\ u # t
    BY <1>1, <1>2, <1>3, <1>4 DEF Submitting
  <2>3. Fresh(u)
    BY <2>2 DEF FreshInv, PendingFresh
  <2> QED
    BY <1>1, <1>5, <2>1, <2>2, <2>3 DEF Fresh
<1>16. KeptInv'
  <2>1. Lasting
    BY <1>1, <1>4 DEF Lasting
  <2> QED
    BY <1>1, <2>1, StoreLasts
<1> QED
  BY <1>10, <1>11, <1>12, <1>13, <1>14, <1>15, <1>16 DEF RunInv, FreshInv

\* When the locks are let go, an accepted turn is the active one, and a trigger
\* that was not accepted waits.
LEMMA EndsInv == ASSUME Inv, TypeInv', ProcessEnds PROVE RunInv' /\ FreshInv' /\ KeptInv'
<1> USE DEF Inv
<1>1. lock # Free /\ lock.at \in {"accepted", "missing", "failed"}
  BY DEF ProcessEnds, Free
<1>2. PICK j \in DOMAIN jobs, n \in Trigger :
        /\ j \in Job /\ j \in born /\ lock.turn = <<j, n>> /\ <<j, n>> \in Turn
        /\ jobs[j] \in CronJob /\ jobs[j].active = None /\ jobs[j].pending = n
        /\ n <= count[j] /\ n # None
  BY <1>1, LockNames
<1>3. n \in Nat /\ count[j] \in Nat
  BY <1>2, Parameters DEF Trigger, TypeInv, CountTyped
<1>4. PICK job : job = Answered(jobs[j], n, lock.at)
  OBVIOUS
<1>5. job \in CronJob
  BY <1>1, <1>2, <1>4, JobsTyped
<1>6. PICK ok \in BOOLEAN : SavesAndNotifies(With(jobs, j, job), ok)
  BY <1>2, <1>4 DEF ProcessEnds
<1>7. /\ job.active = IF lock.at = "accepted" THEN n ELSE None
      /\ job.pending = IF lock.at = "failed" THEN n ELSE None
      /\ job.once = jobs[j].once
      /\ job.ran => jobs[j].ran \/ lock.at = "accepted"
      /\ lock.at = "failed" => job.next = jobs[j].next /\ job.enabled = jobs[j].enabled
  BY <1>1, <1>2, <1>4 DEF Answered, CronJob
<1>8. jobs' = With(jobs, j, job) /\ (disk' = disk \/ disk' = Stored(jobs'))
  BY <1>6 DEF SavesAndNotifies, Saves, Writes
<1>9. /\ DOMAIN jobs' = DOMAIN jobs /\ jobs'[j] = job
      /\ \A k \in DOMAIN jobs \ {j} : jobs'[k] = jobs[k]
  BY <1>2, <1>8 DEF With
<1>10. /\ lock' = Free
       /\ UNCHANGED <<queued, running, unresolved, ends, known, astray, lost, born, count>>
       /\ settled' = IF lock.at = "missing" THEN settled \cup {j} ELSE settled
  BY <1>2 DEF ProcessEnds, dialog
<1>11. \A t : /\ Weight(t)' = Weight(t) /\ (Alive(t) <=> Alive(t)') /\ (EndComes(t) <=> EndComes(t)')
              /\ (Fresh(t) <=> Fresh(t)') /\ ~Handed(t)'
  BY <1>10 DEF Weight, Alive, Copies, EndComes, Fresh, Handed, Given, Free
<1>12. RunsOwned'
  <2> SUFFICES ASSUME NEW k \in Job, NEW m \in Trigger, k \in DOMAIN jobs', Alive(<<k, m>>),
                      <<k, m>> \notin astray
               PROVE  jobs'[k].active = m
    BY <1>10, <1>11 DEF RunsOwned
  <2>1. jobs[k].active = m \/ Handed(<<k, m>>)
    BY <1>9 DEF RunInv, RunsOwned
  <2>2. Handed(<<k, m>>) => k = j /\ m = n /\ lock.at = "accepted"
    BY <1>1, <1>2 DEF Handed, Given
  <2>3. m # None
    BY Parameters DEF None, Trigger
  <2> QED
    BY <1>2, <1>7, <1>9, <2>1, <2>2, <2>3
<1>13. RunsAwaited'
  <2> SUFFICES ASSUME NEW k \in DOMAIN jobs', jobs'[k].active # None
               PROVE  EndComes(<<k, jobs'[k].active>>)
    BY <1>11 DEF RunsAwaited
  <2>1. CASE k = j
    <3>1. lock.at = "accepted" /\ jobs'[k].active = n
      BY <1>7, <1>9, <2>1
    <3> QED
      BY <1>2, <2>1, <3>1 DEF RunInv, HandedAwaited, Handed, Given
  <2>2. CASE k # j
    BY <1>9, <2>2 DEF RunInv, RunsAwaited
  <2> QED
    BY <2>1, <2>2
<1>14. SingleRun' /\ OneRun' /\ HandedAwaited' /\ WeightKnown' /\ UnresolvedKnown' /\ KnownBorn'
  BY <1>10, <1>11
  DEF RunInv, SingleRun, OneRun, HandedAwaited, WeightKnown, UnresolvedKnown, KnownBorn
<1>15. Counted'
  <2>1. \A k \in DOMAIN jobs' : jobs'[k].pending <= count[k] /\ jobs'[k].active <= count[k]
    BY <1>2, <1>3, <1>7, <1>9 DEF FreshInv, Counted, None
  <2>2. \A k \in DOMAIN disk' : disk'[k].pending <= count[k]
    <3>1. CASE disk' = disk
      BY <3>1 DEF FreshInv, Counted
    <3>2. CASE disk' = Stored(jobs')
      BY <2>1, <3>2, StoredPending
    <3> QED
      BY <1>8, <3>1, <3>2
  <2> QED
    BY <1>10, <2>1, <2>2 DEF FreshInv, Counted
<1>16. PendingFresh' /\ SubmitFresh' /\ LockPending'
  <2>1. SubmitFresh' /\ LockPending'
    BY <1>10 DEF SubmitFresh, LockPending, Tried, Free
  <2>2. ASSUME NEW k \in DOMAIN jobs', HasPending(jobs'[k]) PROVE Fresh(<<k, jobs'[k].pending>>)
    <3>1. CASE k = j
      <4>1. lock.at = "failed" /\ jobs'[k].pending = n
        BY <1>7, <1>9, <2>2, <3>1 DEF HasPending
      <4> QED
        BY <1>2, <3>1, <4>1 DEF FreshInv, SubmitFresh, Tried
    <3>2. CASE k # j
      <4>1. ~Submitting(k)
        BY <1>2, <3>2 DEF Submitting
      <4> QED
        BY <1>9, <2>2, <3>2, <4>1 DEF FreshInv, PendingFresh, HasPending
    <3> QED
      BY <3>1, <3>2
  <2> QED
    BY <1>11, <2>1, <2>2 DEF PendingFresh, HasPending
<1>17. KeptInv'
  <2>1. Lasting
    BY <1>10 DEF Lasting
  <2>2. Begun(j) <=> Begun(j)'
    BY <1>10 DEF Begun
  <2>3. KeptJob(j, jobs[j])
    BY <1>2 DEF KeptInv, Kept
  <2>4. lock.at = "accepted" => Begun(j)
    BY <1>2 DEF RunInv, HandedAwaited, Handed, Given, Begun
  <2>5. KeptJob(j, job)'
    BY <1>1, <1>2, <1>7, <1>10, <2>2, <2>3, <2>4 DEF KeptJob, Ready, HasPending
  <2> QED
    BY <1>2, <1>5, <1>8, <2>1, <2>5, ReplacesKept DEF Replaces
<1> QED
  BY <1>12, <1>13, <1>14, <1>15, <1>16, <1>17 DEF RunInv, FreshInv

\* A turn that ends, and has not gone astray, has no other copy, so that its event
\* frees the job that waits for it and leaves no run of the job unknown to it.
LEMMA HandledInv ==
  ASSUME Inv, TypeInv', NEW t \in Turn, HandleTurnEvent(t)
  PROVE  RunInv' /\ FreshInv' /\ KeptInv'
<1> USE DEF Inv
<1>1. /\ lock = Free
      /\ UNCHANGED <<lock, queued, running, unresolved, known, astray, lost, born, count, settled>>
  BY DEF HandleTurnEvent, Handles, Unlocked
<1>2. PICK ended \in BOOLEAN :
        /\ Told(t, ended)
        /\ IF ended THEN ends[t] > 0 /\ ends' = Fewer(ends, t) ELSE ends' = ends
  BY DEF HandleTurnEvent, Handles
<1>3. /\ \A u \in Turn : /\ Weight(u) \in Nat /\ Copies(u) \in Nat
                         /\ Weight(u)' \in Nat /\ Weight(u)' <= Weight(u)
                         /\ u # t \/ ~ended => Weight(u)' = Weight(u)
      /\ ended => Weight(t) > Copies(t)
  <2>1. queued \in [Turn -> Nat] /\ running \in [Turn -> Nat] /\ ends \in [Turn -> Nat]
    BY DEF TypeInv, DialogTyped
  <2>2. \A u \in Turn : /\ ends'[u] \in Nat /\ ends'[u] <= ends[u]
                        /\ u # t \/ ~ended => ends'[u] = ends[u]
    BY <1>2, <2>1, CopiesChange
  <2>3. ended => ends[t] > 0
    BY <1>2
  <2> QED
    BY <1>1, <2>1, <2>2, <2>3 DEF Weight, Copies
<1>4. \A u : (Alive(u) <=> Alive(u)') /\ ~Handed(u) /\ ~Handed(u)'
  BY <1>1 DEF Alive, Copies, Handed, Given, Free
<1>5. \A u \in Turn : /\ EndComes(u) => EndComes(u)' \/ (u = t /\ ended)
                      /\ Fresh(u) => Fresh(u)'
  BY <1>1, <1>3 DEF EndComes, Fresh
<1>6. ended /\ t \notin astray => ~Alive(t)
  BY <1>3 DEF RunInv, SingleRun, Alive
<1>7. SingleRun' /\ OneRun' /\ HandedAwaited' /\ WeightKnown' /\ UnresolvedKnown' /\ KnownBorn'
  BY <1>1, <1>3, <1>4
  DEF RunInv, SingleRun, OneRun, HandedAwaited, WeightKnown, UnresolvedKnown, KnownBorn
<1>8. SubmitFresh' /\ LockPending' /\ Lasting
  BY <1>1 DEF SubmitFresh, LockPending, Lasting, Tried, Free
<1>9. /\ \A k \in DOMAIN jobs : k \in Job /\ jobs[k] \in CronJob
      /\ \A k \in DOMAIN jobs : jobs[k].active # None => <<k, jobs[k].active>> \in Turn
      /\ \A k \in DOMAIN jobs : HasPending(jobs[k]) => <<k, jobs[k].pending>> \in Turn
  BY DEF TypeInv, StoreTyped, CountTyped, CronJob, HasPending, Turn
<1>10. \A k \in DOMAIN jobs : \A u :
         HasPending(jobs[k]) /\ u = <<k, jobs[k].pending>> => Fresh(u)'
  <2>1. \A k : ~Submitting(k)
    BY <1>1 DEF Submitting
  <2> QED
    BY <1>5, <1>9, <2>1 DEF FreshInv, PendingFresh
<1>11. CASE Waiting(t) = {} /\ UNCHANGED store
  <2>1. RunsOwned'
    BY <1>1, <1>4, <1>11 DEF RunInv, RunsOwned, store
  <2>2. RunsAwaited'
    BY <1>5, <1>9, <1>11 DEF RunInv, RunsAwaited, Waiting, store
  <2>3. Counted' /\ PendingFresh'
    BY <1>1, <1>10, <1>11 DEF FreshInv, Counted, PendingFresh, HasPending, Fresh, Weight, store
  <2> QED
    BY <1>7, <1>8, <1>11, <2>1, <2>2, <2>3, StoreLasts DEF RunInv, FreshInv
<1>12. ASSUME NEW j \in Waiting(t), NEW ok \in BOOLEAN,
              SavesAndNotifies(With(jobs, j, IF ended THEN [jobs[j] EXCEPT !.active = None]
                                             ELSE jobs[j]), ok)
       PROVE  RunInv' /\ FreshInv' /\ KeptInv'
  <2>1. /\ j \in DOMAIN jobs /\ j \in Job /\ jobs[j] \in CronJob
        /\ jobs[j].active # None /\ t = <<j, jobs[j].active>>
    BY <1>9 DEF Waiting
  <2>2. PICK job : job = IF ended THEN [jobs[j] EXCEPT !.active = None] ELSE jobs[j]
    OBVIOUS
  <2>3. /\ job \in CronJob
        /\ job.active = IF ended THEN None ELSE jobs[j].active
        /\ job.once = jobs[j].once /\ job.ran = jobs[j].ran /\ job.enabled = jobs[j].enabled
        /\ job.next = jobs[j].next /\ job.pending = jobs[j].pending
    BY <2>1, <2>2 DEF CronJob
  <2>4. Replaces(j, job)
    BY <1>12, <2>2, <2>3, WritesReplaces DEF SavesAndNotifies, Saves
  <2>5. /\ DOMAIN jobs' = DOMAIN jobs /\ jobs'[j] = job
        /\ \A k \in DOMAIN jobs \ {j} : jobs'[k] = jobs[k]
    BY <2>1, <2>4 DEF Replaces, With
  <2>6. RunsOwned'
    <3> SUFFICES ASSUME NEW k \in Job, NEW m \in Trigger, k \in DOMAIN jobs', Alive(<<k, m>>)',
                        <<k, m>> \notin astray'
                 PROVE  jobs'[k].active = m
      BY DEF RunsOwned
    <3>1. jobs[k].active = m /\ Alive(<<k, m>>) /\ <<k, m>> \notin astray
      BY <1>1, <1>4, <2>5 DEF RunInv, RunsOwned
    <3> QED
      BY <1>6, <2>1, <2>3, <2>5, <3>1
  <2>7. RunsAwaited'
    <3> SUFFICES ASSUME NEW k \in DOMAIN jobs', jobs'[k].active # None
                 PROVE  jobs'[k].active = jobs[k].active /\ EndComes(<<k, jobs[k].active>>)'
      BY DEF RunsAwaited
    <3>1. jobs'[k].active = jobs[k].active /\ EndComes(<<k, jobs[k].active>>)
      BY <2>3, <2>5 DEF RunInv, RunsAwaited
    <3>2. ended => k # j
      BY <2>3, <2>5
    <3> QED
      BY <1>5, <1>9, <2>1, <2>5, <3>1, <3>2
  <2>8. Counted'
    <3>1. \A k \in DOMAIN jobs' : jobs'[k].pending <= count[k] /\ jobs'[k].active <= count[k]
      BY <2>1, <2>3, <2>5, Parameters DEF FreshInv, Counted, None, TypeInv, CountTyped
    <3>2. \A k \in DOMAIN disk' : disk'[k].pending <= count[k]
      <4>1. CASE disk' = disk
        BY <4>1 DEF FreshInv, Counted
      <4>2. CASE disk' = Stored(jobs')
        BY <3>1, <4>2, StoredPending
      <4> QED
        BY <2>4, <4>1, <4>2 DEF Replaces
    <3> QED
      BY <1>1, <3>1, <3>2 DEF FreshInv, Counted
  <2>9. PendingFresh'
    BY <1>10, <2>3, <2>5 DEF PendingFresh, HasPending, Fresh, Weight
  <2>10. KeptInv'
    <3>1. KeptJob(j, jobs[j]) /\ (Begun(j) <=> Begun(j)')
      BY <1>1, <2>1 DEF KeptInv, Kept, Begun
    <3>2. KeptJob(j, job)'
      BY <1>1, <2>1, <2>3, <3>1 DEF KeptJob, Ready, HasPending
    <3> QED
      BY <1>8, <2>1, <2>4, <3>2, ReplacesKept
  <2> QED
    BY <1>7, <1>8, <2>6, <2>7, <2>8, <2>9, <2>10 DEF RunInv, FreshInv
<1> QED
  BY <1>2, <1>11, <1>12 DEF Told

-----------------------------------------------------------------------------
(***************************************************************************)
(* Restarts.  No turn and no event outlives the process.                   *)
(***************************************************************************)
LEMMA ReconciledKeeps ==
  ASSUME Lasting, NEW j \in Job, NEW old \in CronJob, KeptJob(j, old), NEW job \in Reconciled(old)
  PROVE  /\ job.active = None /\ job.pending \in {None, old.pending}
         /\ KeptJob(j, job)'
<1>1. /\ Begun(j) => Begun(j)'
      /\ old.active # None \/ old.ran => Begun(j)
      /\ old.once /\ j \notin settled => (Ready(old) /\ old.enabled) \/ Begun(j)
      /\ settled \subseteq settled'
  BY DEF KeptJob, Lasting, Begun
<1> DEFINE idle == Abandoned(old)
<1>2. /\ idle \in CronJob /\ idle.active = None
      /\ idle.pending = IF old.active = None THEN old.pending ELSE None
      /\ idle.once = old.once /\ idle.ran = old.ran /\ idle.enabled = old.enabled
      /\ idle.next = old.next
  BY DEF Abandoned, CronJob
<1>3. CASE old.enabled
  <2>1. PICK next \in ReconciledNext(idle) : job = Resumed(idle, next)
    BY <1>3 DEF Reconciled
  <2> HIDE DEF idle
  <2>2. /\ next \in Time
        /\ idle.next # "none" => next # "none"
        /\ HasPending(idle) \/ next # "none" \/ (idle.once /\ idle.ran) \/ ~idle.once
    BY <1>2, <2>1 DEF ReconciledNext, InitialNextRun, Time
  <2>3. /\ job.active = None /\ job.pending = idle.pending /\ job.next = next
        /\ job.once = old.once /\ job.ran = old.ran /\ job.enabled = old.enabled
    BY <1>2, <2>1, <2>2 DEF Resumed, CronJob
  <2>4. job.once => Ready(job) \/ job.ran
    BY <1>2, <2>2, <2>3 DEF Ready, HasPending
  <2> QED
    BY <1>1, <1>2, <1>3, <2>3, <2>4 DEF KeptJob, Ready, HasPending
<1>4. CASE ~old.enabled
  <2>1. job = Disabled(idle)
    BY <1>4 DEF Reconciled
  <2> HIDE DEF idle
  <2>2. /\ job.active = None /\ job.pending = None /\ job.once = old.once /\ job.ran = old.ran
    BY <1>2, <2>1 DEF Disabled, CronJob
  <2> QED
    BY <1>1, <1>4, <2>2 DEF KeptJob
<1> QED
  BY <1>3, <1>4

LEMMA RestartInv ==
  ASSUME Inv, TypeInv', Restart \/ RestartFails PROVE RunInv' /\ FreshInv' /\ KeptInv'
<1> USE DEF Inv
<1>1. /\ ProcessDies /\ UNCHANGED <<known, born, count, settled>> /\ lock' = Free
      /\ astray' = {} /\ unresolved' = {}
  BY DEF Restart, RestartFails, ProcessDies
<1>2. \A t \in Turn : queued'[t] = 0 /\ running'[t] = 0 /\ ends'[t] = 0
  BY <1>1 DEF ProcessDies
<1>3. Lasting
  BY <1>1 DEF Lasting
<1>4. \A t \in Turn : Weight(t)' = 0 /\ ~Alive(t)' /\ ~Handed(t)'
  BY <1>1, <1>2 DEF Weight, Alive, Copies, Handed, Given, Free
<1>5. \A j \in DOMAIN disk : j \in Job /\ disk[j] \in CronJob
  BY DEF TypeInv, StoreTyped, CountTyped
<1>6. ASSUME NEW j \in DOMAIN jobs'
      PROVE  /\ j \in DOMAIN disk /\ Restart
             /\ jobs'[j].active = None /\ jobs'[j].pending \in {None, disk[j].pending}
             /\ KeptJob(j, jobs[j])'
  <2>1. Restart /\ j \in DOMAIN disk /\ jobs'[j] \in Reconciled(disk[j])
    BY <1>6 DEF Restart, RestartFails
  <2>2. PICK old, job : old = disk[j] /\ job = jobs'[j]
    OBVIOUS
  <2>3. KeptJob(j, old)
    BY <2>1, <2>2 DEF KeptInv, Kept
  <2>4. /\ job.active = None /\ job.pending \in {None, old.pending}
        /\ KeptJob(j, job)'
    BY <1>3, <1>5, <2>1, <2>2, <2>3, ReconciledKeeps
  <2> QED
    BY <2>1, <2>2, <2>4
<1>7. RunInv'
  <2>1. SingleRun' /\ OneRun' /\ RunsOwned' /\ HandedAwaited' /\ WeightKnown' /\ UnresolvedKnown'
    BY <1>1, <1>4
    DEF SingleRun, OneRun, RunsOwned, HandedAwaited, WeightKnown, UnresolvedKnown, Turn
  <2>2. RunsAwaited'
    BY <1>6 DEF RunsAwaited
  <2>3. KnownBorn'
    BY <1>1 DEF RunInv, KnownBorn
  <2> QED
    BY <2>1, <2>2, <2>3 DEF RunInv
<1>8. FreshInv'
  <2>1. \A j \in Job : count[j] \in Nat
    BY Parameters DEF TypeInv, CountTyped
  <2>2. \A j \in DOMAIN jobs' : jobs'[j].pending <= count[j] /\ jobs'[j].active <= count[j]
    BY <1>5, <1>6, <2>1 DEF FreshInv, Counted, None
  <2>3. \A j \in DOMAIN disk' : disk'[j].pending <= count[j]
    <3>1. CASE Restart
      BY <2>2, <3>1, StoredPending DEF Restart
    <3>2. CASE RestartFails
      BY <3>2 DEF RestartFails, FreshInv, Counted
    <3> QED
      BY <3>1, <3>2
  <2>4. Counted'
    BY <1>1, <2>2, <2>3 DEF FreshInv, Counted
  <2>5. PendingFresh'
    <3>1. \A j \in DOMAIN jobs' : HasPending(jobs'[j]) => <<j, jobs'[j].pending>> \in Turn
      BY DEF TypeInv, StoreTyped, CountTyped, CronJob, HasPending, Turn
    <3> QED
      BY <1>4, <3>1 DEF PendingFresh, HasPending, Fresh
  <2>6. SubmitFresh' /\ LockPending'
    BY <1>1 DEF SubmitFresh, LockPending, Tried, Free
  <2> QED
    BY <2>4, <2>5, <2>6 DEF FreshInv
<1>9. Kept(jobs)'
  BY <1>6 DEF Kept
<1>10. Kept(disk)'
  <2>1. CASE Restart
    BY <1>9, <2>1, StoredKeptNext DEF Restart
  <2>2. CASE RestartFails
    <3>1. PICK old : old = disk
      OBVIOUS
    <3>2. Kept(old)'
      BY <1>3, <1>5, <3>1, ListLasts DEF KeptInv
    <3> QED
      BY <2>2, <3>1, <3>2 DEF RestartFails
  <2> QED
    BY <2>1, <2>2
<1> QED
  BY <1>7, <1>8, <1>9, <1>10 DEF KeptInv

-----------------------------------------------------------------------------
LEMMA InitInv == Init => Inv
<1> SUFFICES ASSUME Init PROVE Inv
  OBVIOUS
<1>1. \A t \in Turn : Weight(t) = 0 /\ ~Alive(t) /\ ~Handed(t)
  BY DEF Init, Weight, Alive, Copies, Handed, Given, Free
<1>2. RunInv
  BY <1>1
  DEF Init, RunInv, SingleRun, OneRun, RunsOwned, RunsAwaited, HandedAwaited, WeightKnown,
      UnresolvedKnown, KnownBorn, Turn
<1>3. FreshInv
  BY DEF Init, FreshInv, Counted, PendingFresh, SubmitFresh, LockPending, Tried, Free
<1>4. KeptInv
  BY DEF Init, KeptInv, Kept
<1> QED
  BY <1>2, <1>3, <1>4, InitTyped DEF Inv

LEMMA NextInv == Inv /\ [Next]_vars => Inv'
<1> SUFFICES ASSUME Inv, [Next]_vars PROVE Inv'
  OBVIOUS
<1>1. TypeInv /\ TypeInv'
  BY NextTyped DEF Inv
<1> SUFFICES RunInv' /\ FreshInv' /\ KeptInv'
  BY <1>1 DEF Inv
<1>2. CASE UNCHANGED vars
  BY <1>1, <1>2, QuietInv DEF vars, LockGoesOn
<1>3. ASSUME NEW j \in Job, CreateJob(j) \/ UpdateJob(j) \/ UpdateRejected(j)
                              \/ NextRunComes(j) \/ RetryComes(j)
      PROVE  RunInv' /\ FreshInv' /\ KeptInv'
  BY <1>1, <1>3, CreateChanges, UpdateChanges, TimeChanges, ChangesInv
<1>4. ASSUME NEW gone \in SUBSET DOMAIN jobs, DeleteJobs(gone)
      PROVE  RunInv' /\ FreshInv' /\ KeptInv'
  BY <1>1, <1>4, DeleteInv
<1>5. ASSUME NEW u \in User, NEW j \in Job, RunJobNow(u, j)
      PROVE  RunInv' /\ FreshInv' /\ KeptInv'
  BY <1>1, <1>5, RunNowChanges, ChangesInv
<1>6. ASSUME NEW c \in Caller, NEW j \in Job,
             ProcessNothing(c, j) \/ ProcessPending(c, j) \/ ProcessDue(c, j) \/ ProcessRejected(c, j)
      PROVE  RunInv' /\ FreshInv' /\ KeptInv'
  <2>1. CASE ProcessDue(c, j) \/ ProcessRejected(c, j)
    BY <1>1, <2>1, ProcessChanges, ChangesInv
  <2>2. CASE ProcessNothing(c, j)
    BY <1>1, <2>2, QuietInv DEF ProcessNothing, LockGoesOn
  <2>3. CASE ProcessPending(c, j)
    <3>1. UNCHANGED <<store, dialog, born, count, settled>> /\ lock = Free /\ j \in DOMAIN jobs'
      BY <2>3 DEF ProcessPending, Takes, Unlocked, store
    <3>2. CASE MaySubmit(jobs[j])
      <4>1. /\ lock' = [by |-> c, turn |-> <<j, jobs[j].pending>>, at |-> "submit"]
            /\ jobs'[j] = jobs[j]
        BY <2>3, <3>1, <3>2 DEF ProcessPending, Submits, store
      <4>2. Begins(j)
        BY <3>1, <3>2, <4>1 DEF Begins, MaySubmit, PendingIsDue, HasPending
      <4> QED
        BY <1>1, <3>1, <4>2, QuietInv DEF LockGoesOn
    <3>3. CASE ~MaySubmit(jobs[j])
      BY <1>1, <2>3, <3>1, <3>3, QuietInv DEF ProcessPending, Submits, LockGoesOn
    <3> QED
      BY <3>2, <3>3
  <2> QED
    BY <1>6, <2>1, <2>2, <2>3
<1>7. CASE Submit \/ \E u \in User : CallDropped(u)
  BY <1>1, <1>7, GiveInv, SubmitInv, EndsInv, DropInv DEF Submit
<1>8. CASE Loop
  BY <1>1, <1>8, QuietInv
  DEF Loop, LoopLooks, LoopNotified, LoopTimer, LoopLists, LockGoesOn
<1>9. CASE (\E t \in Turn : TurnStep(t) \/ HandleTurnEvent(t))
           \/ (\E gone \in SUBSET {t \in Turn : queued[t] > 0} : QueueCleared(gone))
           \/ Restart \/ RestartFails
  BY <1>1, <1>9, TurnInv, ClearedInv, HandledInv, RestartInv
<1> QED
  BY <1>2, <1>3, <1>4, <1>5, <1>6, <1>7, <1>8, <1>9 DEF Next, Process

LEMMA AlwaysInv == Spec => []Inv
BY InitInv, NextInv, PTL DEF Spec

\* The runs of a job stay apart, whatever triggers it: nothing is submitted while
\* its active turn is alive, and an accepted turn becomes the active one before the
\* locks are let go.  Turns that have gone astray are the only ones its job does not
\* know of.
THEOREM RunsStayApart == Spec => []RunsApart
<1>1. Inv => RunsApart
  <2> SUFFICES ASSUME Inv, NEW j \in Job, NEW own,
                      own = {n \in Outstanding(j) : <<j, n>> \notin astray}
               PROVE  /\ Cardinality(own) <= 1
                      /\ \A n \in own : queued[<<j, n>>] + running[<<j, n>>] = 1
    BY DEF RunsApart
  <2>1. \A n \in own : /\ n \in Trigger /\ <<j, n>> \in Turn \ astray
                       /\ Alive(<<j, n>>)
    BY DEF Outstanding, Alive, Copies, Turn
  <2>2. \A n \in own, m \in own : n = m
    BY <2>1 DEF Inv, RunInv, OneRun
  <2>3. \A n \in own : queued[<<j, n>>] + running[<<j, n>>] = 1
    BY <2>1, WeightNat DEF Inv, RunInv, SingleRun, Alive, Copies
  <2>4. CASE own = {}
    <3>1. Cardinality(own) = 0
      BY <2>4, FS_EmptySet
    <3> QED
      BY <2>3, <3>1
  <2>5. CASE own # {}
    <3>1. PICK n : own = {n}
      BY <2>2, <2>5
    <3>2. Cardinality(own) = 1
      BY <3>1, FS_Singleton
    <3> QED
      BY <2>3, <3>2
  <2> QED
    BY <2>4, <2>5
<1> QED
  BY <1>1, AlwaysInv, PTL

\* The end of the turn a job waits for is still to come, unless it was lost before
\* the service could hear of it: not even a turn that is over before submit
\* returns ends unnoticed.
THEOREM ActiveJobIsFreed == Spec => []ActiveIsAwaited
<1>1. Inv => ActiveIsAwaited
  <2> SUFFICES ASSUME Inv, NEW j \in DOMAIN jobs, jobs[j].active # None
               PROVE  \/ jobs[j].active \in Outstanding(j)
                      \/ ends[<<j, jobs[j].active>>] > 0
                      \/ <<j, jobs[j].active>> \in lost
    BY DEF ActiveIsAwaited
  <2>1. EndComes(<<j, jobs[j].active>>)
    BY DEF Inv, RunInv, RunsAwaited
  <2>2. jobs[j].active \in Trigger /\ <<j, jobs[j].active>> \in Turn
    BY DEF Inv, TypeInv, StoreTyped, CountTyped, CronJob, Turn
  <2> QED
    BY <2>1, <2>2, WeightNat DEF EndComes, Weight, Outstanding, Inv
<1> QED
  BY <1>1, AlwaysInv, PTL

\* A one-shot job that is not settled by a user, or by the loss of its session,
\* is not lost: through failed saves, failed submissions and restarts it keeps its
\* time or its trigger until a turn of it has begun.
THEOREM OneShotIsKept == Spec => []OneShotKept
<1>1. Inv => OneShotKept
  BY DEF Inv, KeptInv, Kept, KeptJob, Begun, Ready, OneShotKept
<1> QED
  BY <1>1, AlwaysInv, PTL
=============================================================================
