----------------------- MODULE DialogOwnershipProofs -----------------------
(***************************************************************************)
(* Theorems about the ownership of a session in Processing: who may take   *)
(* it out of that state, that somebody always will, and that steering      *)
(* stays with the turn it was aimed at.                                    *)
(***************************************************************************)
EXTENDS DialogSchedulerProofs

\* A step of process p leaves the program counters and calls of the others.
Alone(p) ==
  /\ \A b \in Process : b # p => pc'[b] = pc[b]
  /\ \A b \in Caller : b # p => call'[b] = call[b]

\* The points of start_dialog_turn_internal between Processing and the spawn.
StartPc == {"persist", "spawn"}

-----------------------------------------------------------------------------
(* What each group of steps does to the engine's state and to the locals.  *)

LEMMA ReturnAlone ==
  ASSUME TypeInv, NEW a \in Submitter, NEW r, Return(a, r)
  PROVE  Alone(a) /\ pc'[a] \notin StartPc
<1>1. pc \in [Process -> PcLabel] /\ call \in [Caller -> CallLocals] /\ a \in Process
  BY Processes DEF TypeInv, TypeOK
<1>2. Resume \notin StartPc
  BY DEF Resume, AfterGoal, StartPc
<1> QED
  BY <1>1, <1>2 DEF Return, Goto, Alone, StartPc

LEMMA GotoAlone ==
  ASSUME TypeInv, NEW p \in Process, NEW l, Goto(p, l),
         \A b \in Caller : b # p => call'[b] = call[b]
  PROVE  Alone(p) /\ pc'[p] = l
  BY DEF TypeInv, TypeOK, Goto, Alone

\* submit, enqueue and try_start_next_queued never touch the session state.
LEMMA SubmitShape ==
  ASSUME TypeInv, NEW a \in Submitter, Submit(a) \/ SubmitStep(a) \/ DeliverBackground(a)
  PROVE  /\ UNCHANGED <<state, task, started>> /\ UNCHANGED drained
         /\ UNCHANGED buffer \/ InjectBackground(a)
         /\ Alone(a) /\ pc[a] \notin StartPc /\ pc'[a] \notin StartPc
<1>0. /\ a \in Process /\ a \in Caller /\ call \in [Caller -> CallLocals]
  BY Processes DEF TypeInv, TypeOK
<1>1. CASE DeliverBackground(a)
  <2>1. \E l \in {"inject", "called"} : Goto(a, l)
    BY <1>1 DEF DeliverBackground
  <2> QED
    BY <1>0, <1>1, <2>1, GotoAlone DEF DeliverBackground, At, StartPc, engine, rounds, history
<1>2. CASE InjectBackground(a)
  BY <1>2, ReturnAlone DEF InjectBackground, At, StartPc, engine, rounds
<1>3. CASE Submit(a)
  BY <1>0, <1>3, GotoAlone DEF Submit, At, StartPc, engine, rounds, history
<1>4. CASE SubmitDecide(a)
  <2>1. \E l \in {"snapshot", "check"} : Goto(a, l)
    BY <1>4 DEF SubmitDecide
  <2> QED
    BY <1>0, <1>4, <2>1, GotoAlone DEF SubmitDecide, At, StartPc, engine, rounds
<1>5. CASE EnqueueCheck(a)
  <2>1. CASE Return(a, "Err")
    BY <1>5, <2>1, ReturnAlone DEF EnqueueCheck, At, StartPc, engine, rounds
  <2>2. CASE Goto(a, "push") /\ UNCHANGED call
    BY <1>0, <1>5, <2>2, GotoAlone DEF EnqueueCheck, At, StartPc, engine, rounds
  <2> QED
    BY <1>5, <2>1, <2>2 DEF EnqueueCheck
<1>6. CASE EnqueuePush(a)
  BY <1>0, <1>6, GotoAlone DEF EnqueuePush, At, StartPc, engine, rounds, history
<1>7. CASE EnqueueReorder(a)
  <2>1. \E l \in {"yield", "trynext"} : Goto(a, l)
    BY <1>7 DEF EnqueueReorder
  <2> QED
    BY <1>0, <1>7, <2>1, GotoAlone DEF EnqueueReorder, At, StartPc, engine, rounds, history
<1>8. CASE RequestYield(a)
  BY <1>8, ReturnAlone DEF RequestYield, At, StartPc, engine, rounds
<1>9. CASE TryNextCheck(a)
  <2>1. CASE Return(a, "Queued")
    BY <1>9, <2>1, ReturnAlone DEF TryNextCheck, At, StartPc, engine, rounds
  <2>2. CASE Goto(a, "dequeue") /\ UNCHANGED call
    BY <1>0, <1>9, <2>2, GotoAlone DEF TryNextCheck, At, StartPc, engine, rounds
  <2> QED
    BY <1>9, <2>1, <2>2 DEF TryNextCheck
<1>10. CASE DequeueNext(a)
  <2>1. CASE Return(a, "Queued")
    BY <1>10, <2>1, ReturnAlone DEF DequeueNext, At, StartPc, engine, rounds
  <2>2. CASE Goto(a, "snapshot") /\ \A b \in Caller : b # a => call'[b] = call[b]
    BY <1>0, <1>10, <2>2, GotoAlone DEF DequeueNext, At, StartPc, engine, rounds
  <2>3. \/ Return(a, "Queued")
        \/ Goto(a, "snapshot") /\ \A b \in Caller : b # a => call'[b] = call[b]
    BY <1>0, <1>10 DEF DequeueNext
  <2> QED
    BY <2>1, <2>2, <2>3
<1> QED
  BY <1>1, <1>2, <1>3, <1>4, <1>5, <1>6, <1>7, <1>8, <1>9, <1>10 DEF SubmitStep

\* A start that has made the session Processing returns an error: a save of the session
\* fails (start_persisted_turn), or the context messages cannot be read.
Abandons(a) == PersistFails(a) \/ ContextFails(a)

\* The steps of start_turn that leave the session state and the tasks alone.
LEMMA StartShape ==
  ASSUME TypeInv, NEW a \in Submitter, StartStep(a)
  PROVE  /\ UNCHANGED drained /\ UNCHANGED buffer /\ Alone(a)
         /\ \/ /\ UNCHANGED <<state, task, started>>
               /\ pc'[a] \notin StartPc
               /\ pc[a] \in StartPc => Abandons(a)
            \/ StartPersistedTurn(a) /\ pc'[a] = "persist" /\ UNCHANGED call
            \/ RegisterTurn(a) /\ pc'[a] = "spawn" /\ UNCHANGED <<state, task, started, call>>
            \/ SpawnTurn(a) /\ pc'[a] = "resolve" /\ UNCHANGED <<state, started, call>>
<1>0. /\ a \in Process /\ a \in Caller /\ call \in [Caller -> CallLocals]
  BY Processes DEF TypeInv, TypeOK
<1>1. CASE StartSnapshot(a)
  <2>1. \E l \in {"failed", "drain"} : Goto(a, l)
    BY <1>1 DEF StartSnapshot
  <2> QED
    BY <1>0, <1>1, <2>1, GotoAlone DEF StartSnapshot, At, StartPc, engine, history, rounds
<1>2. CASE WaitSessionDrained(a)
  BY <1>0, <1>2, GotoAlone DEF WaitSessionDrained, At, StartPc, engine, history, rounds
<1>3. CASE StartAborted(a)
  BY <1>0, <1>3, GotoAlone DEF StartAborted, At, StartPc, engine, history, rounds
<1>4. CASE StartPersistedTurn(a)
  BY <1>0, <1>4, GotoAlone DEF StartPersistedTurn, rounds
<1>5. CASE PersistFails(a)
  BY <1>0, <1>5, GotoAlone DEF Abandons, PersistFails, At, StartPc, engine, history, rounds
<1>6. CASE RegisterTurn(a)
  BY <1>0, <1>6, GotoAlone DEF RegisterTurn, history, rounds
<1>7. CASE ContextFails(a)
  BY <1>0, <1>7, GotoAlone DEF Abandons, ContextFails, At, StartPc, history, rounds
<1>8. CASE SpawnTurn(a)
  BY <1>0, <1>8, GotoAlone DEF SpawnTurn, history, rounds
<1>9. CASE ResolveTurn(a)
  <2>1. \E l \in {"insert", "failed"} : Goto(a, l)
    BY <1>9 DEF ResolveTurn
  <2>2. \A b \in Caller : b # a => call'[b] = call[b]
    BY <1>0, <1>9 DEF ResolveTurn
  <2> QED
    BY <1>0, <1>9, <2>1, <2>2, GotoAlone
    DEF ResolveTurn, At, StartPc, engine, history, rounds
<1>10. CASE InsertActiveTurn(a)
  <2>1. \E r : Return(a, r)
    BY <1>10 DEF InsertActiveTurn
  <2> QED
    BY <1>10, <2>1, ReturnAlone DEF InsertActiveTurn, At, StartPc, engine, rounds
<1>11. CASE StartFailed(a)
  BY <1>11, ReturnAlone DEF StartFailed, At, StartPc, engine, rounds
<1> QED
  BY <1>1, <1>2, <1>3, <1>4, <1>5, <1>6, <1>7, <1>8, <1>9, <1>10, <1>11 DEF StartStep

LEMMA HandlerShape ==
  ASSUME TypeInv, HandlerStep
  PROVE  /\ UNCHANGED <<state, task, started>> /\ Alone(Handler)
         /\ UNCHANGED <<buffer, drained>> \/ ReceiveOutcome
         /\ pc[Handler] \notin StartPc /\ pc'[Handler] \notin StartPc
<1>0. /\ Handler \in Process /\ Handler \in Caller /\ call \in [Caller -> CallLocals]
  BY Processes DEF TypeInv, TypeOK
<1>1. CASE ReceiveOutcome
  <2>1. \E l \in {"called", "clear"} : Goto(Handler, l)
    BY <1>1 DEF ReceiveOutcome
  <2>2. \A b \in Caller : b # Handler => call'[b] = call[b]
    BY <1>0, <1>1 DEF ReceiveOutcome, HandlerCalls
  <2> QED
    BY <1>0, <1>1, <2>1, <2>2, GotoAlone DEF ReceiveOutcome, At, StartPc, engine, rounds
<1>2. CASE ClearAfterFailure
  BY <1>0, <1>2, GotoAlone DEF ClearAfterFailure, At, StartPc, engine, rounds
<1>3. CASE GoalContinuation
  <2>1. \E l \in {"called", "trynext", "recv"} : Goto(Handler, l)
    BY <1>3 DEF GoalContinuation, AfterGoal
  <2>2. \A b \in Caller : b # Handler => call'[b] = call[b]
    BY <1>0, <1>3 DEF GoalContinuation
  <2> QED
    BY <1>0, <1>3, <2>1, <2>2, GotoAlone DEF GoalContinuation, At, StartPc, engine, rounds, history
<1> QED
  BY <1>1, <1>2, <1>3 DEF HandlerStep

\* An execution task changes its own record only; when it changes the session
\* state it takes the session out of Processing for its own turn.
LEMMA TaskShape ==
  ASSUME TypeInv, NEW t \in Task, TaskStep(t)
  PROVE  /\ UNCHANGED <<started, pc, call>>
         /\ UNCHANGED <<buffer, drained>> \/ EngineInject(t)
         /\ \A u \in Task : u # t => task'[u] = task[u]
         /\ \/ UNCHANGED state /\ task[t].phase = "running"
               /\ task'[t].phase \in {"running", "ended", "notified"}
            \/ UNCHANGED state /\ task[t].phase = "settled" /\ task'[t].phase = "notified"
            \/ /\ task[t].phase \in {"ended", "notified"} /\ task'[t] # task[t]
               /\ \E new \in {Idle, Error} : state' = IfProcessing(Target[t[1]], t[1], new)
<1>0. task \in [Task -> TaskRecord]
  BY DEF TypeInv, TypeOK
<1>1. CASE EngineInject(t)
  BY <1>1 DEF EngineInject, InPhase, engine, locals
<1>2. CASE EngineEnds(t)
  <2>1. CASE \E verdict : EngineReturns(t, verdict)
    BY <1>0, <2>1 DEF EngineReturns, InPhase, locals, history, rounds
  <2>2. CASE EnginePanics(t)
    BY <1>0, <2>2 DEF EnginePanics, InPhase, locals, history, rounds, TaskRecord
  <2> QED
    BY <1>2, <2>1, <2>2
    DEF EngineEnds, EngineAnswers, EngineStops, EngineYields, EngineCancelled, EngineFails
<1>3. CASE TurnSettles(t)
  <2>1. task'[t].phase = "settled" /\ \A u \in Task : u # t => task'[u] = task[u]
    BY <1>0, <1>3 DEF TurnSettles, TaskRecord
  <2> QED
    BY <1>3, <2>1 DEF TurnSettles, InPhase, locals, history, rounds
<1>4. CASE TurnNotifies(t)
  BY <1>0, <1>4 DEF TurnNotifies, InPhase, locals, history, rounds, TaskRecord
<1>5. CASE GuardDrops(t)
  <2>1. task'[t].phase = "dropped" /\ \A u \in Task : u # t => task'[u] = task[u]
    BY <1>0, <1>5 DEF GuardDrops, TaskRecord
  <2> QED
    BY <1>5, <2>1 DEF GuardDrops, InPhase, locals, history, rounds
<1> QED
  BY <1>1, <1>2, <1>3, <1>4, <1>5 DEF TaskStep

LEMMA CancelShape ==
  ASSUME TypeInv, NEW c \in Canceller, CancelBegin(c) \/ UserCancel(c) \/ CancelStep(c)
  PROVE  /\ UNCHANGED <<task, started, call, buffer, drained>> /\ Alone(c)
         /\ \/ UNCHANGED state
            \/ /\ state' = IfProcessing(cancel[c].session, cancel[c].victim, Idle)
               /\ pc'[c] # pc[c]
<1>0. c \in Process /\ pc \in [Process -> PcLabel]
  BY Processes DEF TypeInv, TypeOK
<1>1. CASE CancelBegin(c)
  <2>1. \E l \in {"suppress", "find"} : Goto(c, l)
    BY <1>1 DEF CancelBegin
  <2> QED
    BY <1>0, <1>1, <2>1, GotoAlone
    DEF CancelBegin, CancelUnchanged, engine, history, rounds
<1>2. CASE UserCancel(c)
  BY <1>0, <1>2, GotoAlone DEF UserCancel, CancelUnchanged, engine, history, rounds
<1>3. CASE SuppressReply(c)
  BY <1>0, <1>3, GotoAlone DEF SuppressReply, CancelUnchanged, engine, history, rounds
<1>4. CASE CancelFind(c)
  <2>1. \E l \in {"idle", "done"} : Goto(c, l)
    BY <1>4 DEF CancelFind
  <2> QED
    BY <1>0, <1>4, <2>1, GotoAlone DEF CancelFind, CancelUnchanged, engine, history, rounds
<1>5. CASE CancelSetsIdle(c)
  <2>1. \E l \in {"token", "done"} : Goto(c, l)
    BY <1>5 DEF CancelSetsIdle
  <2> QED
    BY <1>0, <1>5, <2>1, GotoAlone DEF CancelSetsIdle, CancelUnchanged, At, history, rounds
<1>6. CASE CancelTriggersToken(c)
  BY <1>0, <1>6, GotoAlone DEF CancelTriggersToken, CancelUnchanged, history, rounds
<1> QED
  BY <1>1, <1>2, <1>3, <1>4, <1>5, <1>6 DEF CancelStep

LEMMA SteeringShape ==
  ASSUME TypeInv, NEW i \in Steering, SteerChecks(i) \/ SteerPushes(i)
  PROVE  /\ UNCHANGED <<state, task, started, drained>> /\ Alone(i)
<1>0. i \in Process /\ i \in Caller /\ call \in [Caller -> CallLocals]
  BY Processes DEF TypeInv, TypeOK
<1>1. CASE SteerChecks(i)
  <2>1. /\ \E l \in {"inject", "done"} : Goto(i, l)
        /\ \A b \in Caller : b # i => call'[b] = call[b]
    BY <1>0, <1>1 DEF SteerChecks
  <2> QED
    BY <1>0, <1>1, <2>1, GotoAlone DEF SteerChecks, engine, history
<1>2. CASE SteerPushes(i)
  BY <1>0, <1>2, GotoAlone DEF SteerPushes, engine, history
<1> QED
  BY <1>1, <1>2

-----------------------------------------------------------------------------
(* Who takes a session out of Processing.                                  *)

LEMMA Kinds ==
  \A m, n \in Msg : /\ Processing(m) \notin {Idle, Error}
                    /\ Processing(m) = Processing(n) => m = n
  BY DEF Processing, Idle, Error

\* What IfProcessing changes: only the turn it names loses its session.
LEMMA IfProcessingShape ==
  ASSUME TypeInv, NEW s, NEW m \in Msg, NEW new \in {Idle, Error},
         state' = IfProcessing(s, m, new)
  PROVE  \A x \in Session : state'[x] # state[x] =>
           x = s /\ state[x] = Processing(m) /\ state'[x] = new
  BY DEF IfProcessing, TypeInv, TypeOK

\* The release of a session, as a formula on one step.
Released ==
  \A s \in Session, m \in Msg :
    state[s] = Processing(m) /\ state'[s] \in {Idle, Error} =>
      \/ \E k \in 1 .. MaxStarts : task'[<<m, k>>] # task[<<m, k>>]
      \/ \E c \in Canceller : cancel[c].victim = m /\ pc[c] # pc'[c]

LEMMA StepReleases ==
  ASSUME TypeInv, [Next]_vars
  PROVE  Released
<1>1. CASE UNCHANGED state
  BY <1>1, Kinds DEF Released
<1>2. ASSUME NEW a \in Submitter, StartStep(a) PROVE Released
  <2>1. CASE UNCHANGED state
    BY <2>1, <1>1
  <2>2. CASE StartPersistedTurn(a)
    <3>1. /\ call[a].msg \in Msg
          /\ state' = [state EXCEPT ![Target[call[a].msg]] = Processing(call[a].msg)]
      BY <2>2, MessageType DEF StartPersistedTurn, At, HasMessage
    <3>2. \A s \in Session : state'[s] = state[s] \/ state'[s] \notin {Idle, Error}
      BY <3>1, Kinds DEF TypeInv, TypeOK
    <3> QED
      BY <3>2, Kinds DEF Released
  <2> QED
    BY <1>2, <2>1, <2>2, StartShape
<1>3. ASSUME NEW t \in Task, TaskStep(t) PROVE Released
  <2>1. t[1] \in Msg /\ t[2] \in 1 .. MaxStarts /\ t = <<t[1], t[2]>>
    BY DEF Task
  <2>2. CASE UNCHANGED state
    BY <2>2, <1>1
  <2>3. CASE task'[t] # task[t] /\
             \E new \in {Idle, Error} : state' = IfProcessing(Target[t[1]], t[1], new)
    <3>1. PICK new \in {Idle, Error} : state' = IfProcessing(Target[t[1]], t[1], new)
      BY <2>3
    <3>2. SUFFICES ASSUME NEW s \in Session, NEW m \in Msg,
                          state[s] = Processing(m), state'[s] \in {Idle, Error}
                   PROVE  \E k \in 1 .. MaxStarts : task'[<<m, k>>] # task[<<m, k>>]
      BY DEF Released
    <3>3. m = t[1]
      BY <2>1, <3>1, <3>2, IfProcessingShape, Kinds
    <3> QED
      BY <2>1, <2>3, <3>3
  <2> QED
    BY <1>3, <2>2, <2>3, TaskShape
<1>4. ASSUME NEW c \in Canceller, CancelBegin(c) \/ UserCancel(c) \/ CancelStep(c)
      PROVE  Released
  <2>1. CASE UNCHANGED state
    BY <2>1, <1>1
  <2>2. CASE state' # state /\ pc'[c] # pc[c]
             /\ state' = IfProcessing(cancel[c].session, cancel[c].victim, Idle)
    <3>1. SUFFICES ASSUME NEW s \in Session, NEW m \in Msg,
                          state[s] = Processing(m), state'[s] \in {Idle, Error}
                   PROVE  cancel[c].victim = m
      BY <2>2 DEF Released
    <3>2. state[cancel[c].session] = Processing(cancel[c].victim)
          /\ state' = [state EXCEPT ![cancel[c].session] = Idle]
      BY <2>2 DEF IfProcessing
    <3>3. s = cancel[c].session
      BY <3>1, <3>2, Kinds DEF TypeInv, TypeOK
    <3> QED
      BY <3>1, <3>2, <3>3 DEF Processing
  <2> QED
    BY <1>4, <2>1, <2>2, CancelShape
<1>5. ASSUME NEW a \in Submitter, SubmitStep(a) \/ Submit(a) \/ DeliverBackground(a)
      PROVE  Released
  BY <1>1, <1>5, SubmitShape
<1>6. CASE HandlerStep
  BY <1>1, <1>6, HandlerShape
<1>7. ASSUME NEW i \in Steering, SteerChecks(i) \/ SteerPushes(i) PROVE Released
  BY <1>1, <1>7, SteeringShape
<1>8. CASE UNCHANGED vars
  BY <1>1, <1>8 DEF vars, engine
<1>9. ASSUME NEW a \in External, Calls(a) PROVE Released
  BY <1>5, <1>9, Processes DEF Calls
<1> QED
  BY <1>2, <1>3, <1>4, <1>5, <1>6, <1>7, <1>8, <1>9 DEF Next

\* "A delayed cancel request for an older turn must not clear a newer turn": only
\* a step of the turn's own task, or of a cancel aimed at it, releases a session.
THEOREM OnlyOwnerReleases == Spec => OnlyOwnerLeavesProcessing
<1>1. Init => TypeInv
  BY InitTypes
<1>2. TypeInv /\ [Next]_vars => TypeInv'
  BY StepTypes
<1>3. TypeInv /\ [Next]_vars => [Released]_vars
  BY StepReleases
<1>4. [][Released]_vars <=> OnlyOwnerLeavesProcessing
  BY DEF Released, OnlyOwnerLeavesProcessing
<1> QED
  BY <1>1, <1>2, <1>3, <1>4, PTL DEF Spec

-----------------------------------------------------------------------------
(* Somebody always owns a session in Processing.                           *)

Owned(m) == Starting(m) # {} \/ Running(m) # {}

\* The turn of a Processing session is of that session, and owned unless it is in A, the
\* turns whose start was abandoned.
OwnedInv(A) ==
  /\ \A s \in Session, m \in Msg :
       state[s] = Processing(m) => Target[m] = s /\ (m \in A \/ Owned(m))
  /\ \A a \in Submitter : pc[a] \in StartPc => started[call[a].msg] > 0

\* A step keeps the owner of message m when no start of m and no task of m stops
\* owning it.
LEMMA OwnerKept ==
  ASSUME NEW m \in Msg,
         \A a \in Submitter : call[a].msg = m /\ pc[a] \in StartPc =>
           call'[a].msg = m /\ pc'[a] \in StartPc,
         \A k \in 1 .. MaxStarts : task[<<m, k>>].phase \in {"running", "ended", "notified"} =>
           task'[<<m, k>>].phase \in {"running", "ended", "notified"}
  PROVE  Owned(m) => Owned(m)'
<1>1. Starting(m) \subseteq Starting(m)'
  BY DEF Starting, StartPc
<1>2. Running(m) \subseteq Running(m)'
  BY DEF Running
<1> QED
  BY <1>1, <1>2 DEF Owned

\* A process that leaves the engine alone and is not between Processing and the
\* spawn disturbs no owner.
LEMMA BystanderOwns ==
  ASSUME TypeInv, NEW A, OwnedInv(A), NEW p \in Process, Alone(p), UNCHANGED <<task, started>>,
         p \in Submitter => pc[p] \notin StartPc /\ pc'[p] \notin StartPc,
         \A s \in Session, m \in Msg : state'[s] = Processing(m) => state[s] = Processing(m)
  PROVE  OwnedInv(A)'
<1>1. \A a \in Submitter : pc[a] \in StartPc \/ pc'[a] \in StartPc =>
        pc'[a] = pc[a] /\ call'[a] = call[a]
  BY Processes DEF Alone
<1>2. \A s \in Session, m \in Msg : state'[s] = Processing(m) =>
        Target[m] = s /\ (m \in A \/ Owned(m)')
  BY <1>1, OwnerKept DEF OwnedInv
<1>3. \A a \in Submitter : pc'[a] \in StartPc => started'[call'[a].msg] > 0
  BY <1>1 DEF OwnedInv
<1> QED
  BY <1>2, <1>3 DEF OwnedInv

LEMMA StartOwns ==
  ASSUME TypeInv, NEW A, OwnedInv(A), NEW a \in Submitter, StartStep(a),
         Abandons(a) => call[a].msg \in A
  PROVE  OwnedInv(A)'
<1>0. a \in Process /\ \A b \in Submitter : b \in Process /\ b \in Caller
  BY Processes
<1>1. CASE UNCHANGED <<state, task, started>> /\ pc'[a] \notin StartPc /\ pc[a] \notin StartPc
  BY <1>0, <1>1, BystanderOwns, StartShape
<1>2. CASE StartPersistedTurn(a) /\ pc'[a] = "persist" /\ UNCHANGED call
  <2>0. PICK m \in Msg : m = call[a].msg
    BY <1>2, MessageType DEF StartPersistedTurn, At, HasMessage
  <2>1. /\ Target[m] \in Session /\ started[m] \in Nat
        /\ state' = [state EXCEPT ![Target[m]] = Processing(m)]
        /\ started' = [started EXCEPT ![m] = @ + 1] /\ pc[a] \notin StartPc
    <3>1. Target[m] \in Session /\ started[m] \in Nat
      BY <2>0, SchedulerAssumption DEF TypeInv, TypeOK
    <3>2. /\ state' = [state EXCEPT ![Target[m]] = Processing(m)]
          /\ started' = [started EXCEPT ![m] = @ + 1]
      BY <1>2, <2>0 DEF StartPersistedTurn
    <3>3. pc[a] \notin StartPc
      BY <1>2 DEF StartPersistedTurn, At, StartPc
    <3> QED
      BY <3>1, <3>2, <3>3
  <2>2. \A b \in Submitter : b # a => pc'[b] = pc[b] /\ call'[b] = call[b]
    BY <1>0, StartShape DEF Alone
  <2>3. UNCHANGED task
    BY <1>2 DEF StartPersistedTurn
  <2>4. a \in Starting(m)'
    BY <1>2, <2>0 DEF Starting
  <2>5. ASSUME NEW s \in Session, NEW n \in Msg, state'[s] = Processing(n)
        PROVE  Target[n] = s /\ (n \in A \/ Owned(n)')
    <3>1. CASE s = Target[m]
      <4>1. n = m
        BY <2>1, <2>5, <3>1, Kinds DEF TypeInv, TypeOK
      <4> QED
        BY <2>1, <2>4, <3>1, <4>1 DEF Owned
    <3>2. CASE s # Target[m]
      <4>1. state[s] = Processing(n)
        BY <2>1, <2>5, <3>2 DEF TypeInv, TypeOK
      <4> QED
        BY <1>2, <2>1, <2>2, <2>3, <4>1, OwnerKept DEF OwnedInv
    <3> QED
      BY <3>1, <3>2
  <2>6. \A n \in Msg : started[n] > 0 => started'[n] > 0
    BY <2>1 DEF TypeInv, TypeOK
  <2>7. started'[m] > 0
    BY <2>1 DEF TypeInv, TypeOK
  <2>8. ASSUME NEW b \in Submitter, pc'[b] \in StartPc PROVE started'[call'[b].msg] > 0
    <3>1. CASE b = a
      BY <1>2, <2>0, <2>7, <3>1
    <3>2. CASE b # a
      <4>1. call[b].msg \in Msg
        BY <2>2, <2>8, <3>2, MessageType DEF HasMessage, StartPc
      <4> QED
        BY <2>2, <2>6, <2>8, <3>2, <4>1 DEF OwnedInv
    <3> QED
      BY <3>1, <3>2
  <2> QED
    BY <2>5, <2>8 DEF OwnedInv
<1>3. CASE RegisterTurn(a) /\ pc'[a] = "spawn" /\ UNCHANGED <<state, task, started, call>>
  <2>1. pc[a] \in StartPc
    BY <1>3 DEF RegisterTurn, At, StartPc
  <2>2. \A b \in Submitter : pc'[b] \in StartPc <=> pc[b] \in StartPc
    BY <1>0, <1>3, <2>1, StartShape DEF Alone, StartPc
  <2>3. \A m \in Msg : Owned(m) => Owned(m)'
    BY <1>3, <2>2, OwnerKept
  <2> QED
    BY <1>3, <2>2, <2>3 DEF OwnedInv
<1>4. CASE SpawnTurn(a) /\ pc'[a] = "resolve" /\ UNCHANGED <<state, started, call>>
  <2>0. PICK m \in Msg : m = call[a].msg
    BY <1>4, MessageType DEF SpawnTurn, At, HasMessage
  <2>1. pc[a] \in StartPc /\ task' = [task EXCEPT ![<<m, started[m]>>].phase = "running"]
    BY <1>4, <2>0 DEF SpawnTurn, At, StartPc
  <2>2. PICK t \in Task : t = <<m, started[m]>> /\ started[m] \in 1 .. MaxStarts
    BY <2>0, <2>1, SchedulerAssumption DEF OwnedInv, TypeInv, TypeOK, Task
  <2>3. task'[t].phase = "running" /\ \A u \in Task : u # t => task'[u] = task[u]
    BY <2>1, <2>2 DEF TypeInv, TypeOK, TaskRecord
  <2>4. started[m] \in Running(m)'
    BY <1>4, <2>2, <2>3 DEF Running
  <2>5. \A b \in Submitter : b # a => pc'[b] = pc[b]
    BY <1>0, StartShape DEF Alone
  <2>6. ASSUME NEW n \in Msg, n # m
        PROVE  Owned(n) => Owned(n)'
    <3>1. \A k \in 1 .. MaxStarts : task'[<<n, k>>] = task[<<n, k>>]
      BY <2>2, <2>3, <2>6 DEF Task
    <3> QED
      BY <1>4, <2>0, <2>5, <2>6, <3>1, OwnerKept
  <2>7. \A b \in Submitter : pc'[b] \in StartPc => pc[b] \in StartPc
    BY <1>4, <2>1, <2>5
  <2> QED
    BY <1>4, <2>4, <2>6, <2>7 DEF OwnedInv, Owned
<1>5. CASE UNCHANGED <<state, task, started>> /\ pc'[a] \notin StartPc /\ Abandons(a)
  <2>1. call[a].msg \in A /\ \A b \in Submitter : b # a => pc'[b] = pc[b] /\ call'[b] = call[b]
    BY <1>0, <1>5, StartShape DEF Alone
  <2>2. \A n \in Msg : n \in A \/ (Owned(n) => Owned(n)')
    BY <1>5, <2>1, OwnerKept
  <2> QED
    BY <1>5, <2>1, <2>2 DEF OwnedInv
<1> QED
  BY <1>1, <1>2, <1>3, <1>4, <1>5, StartShape

LEMMA TaskOwns ==
  ASSUME TypeInv, NEW A, OwnedInv(A), NEW t \in Task, TaskStep(t)
  PROVE  OwnedInv(A)'
<1>1. /\ t[1] \in Msg /\ t[2] \in 1 .. MaxStarts /\ t = <<t[1], t[2]>>
      /\ \A n \in Msg, k \in 1 .. MaxStarts : <<n, k>> \in Task
      /\ \A n \in Msg, k \in 1 .. MaxStarts : n # t[1] => <<n, k>> # t
  BY DEF Task
<1>2. UNCHANGED <<started, pc, call>> /\ \A u \in Task : u # t => task'[u] = task[u]
  BY TaskShape
<1>3. \A n \in Msg : n # t[1] =>
        (Owned(n) => Owned(n)')
  <2> SUFFICES ASSUME NEW n \in Msg, n # t[1]
               PROVE Owned(n) => Owned(n)'
    OBVIOUS
  <2>1. \A k \in 1 .. MaxStarts : task'[<<n, k>>] = task[<<n, k>>]
    BY <1>1, <1>2
  <2> QED
    BY <1>2, <2>1, OwnerKept
<1>4. \A a \in Submitter : pc'[a] \in StartPc => started'[call'[a].msg] > 0
  BY <1>2 DEF OwnedInv
<1>5. CASE UNCHANGED state /\
           (task[t].phase \in {"running", "ended", "notified"} =>
              task'[t].phase \in {"running", "ended", "notified"})
  <2>1. \A k \in 1 .. MaxStarts :
          task[<<t[1], k>>].phase \in {"running", "ended", "notified"} =>
            task'[<<t[1], k>>].phase \in {"running", "ended", "notified"}
    BY <1>1, <1>2, <1>5
  <2>2. Owned(t[1]) => Owned(t[1])'
    BY <1>1, <1>2, <2>1, OwnerKept
  <2> QED
    BY <1>3, <1>4, <1>5, <2>2 DEF OwnedInv
<1>6. CASE \E new \in {Idle, Error} : state' = IfProcessing(Target[t[1]], t[1], new)
  <2>1. PICK new \in {Idle, Error} : state' = IfProcessing(Target[t[1]], t[1], new)
    BY <1>6
  <2>2. \A s \in Session, n \in Msg : state'[s] = Processing(n) => state[s] = Processing(n)
    BY <1>1, <2>1, IfProcessingShape, Kinds
  <2>3. Target[t[1]] \in Session /\ new # Processing(t[1])
    BY <1>1, Kinds, SchedulerAssumption
  <2>4. state'[Target[t[1]]] # Processing(t[1])
    BY <2>1, <2>3 DEF IfProcessing, TypeInv, TypeOK
  <2>5. \A s \in Session, n \in Msg : state'[s] = Processing(n) => n # t[1] /\ Target[n] = s
    BY <2>2, <2>4 DEF OwnedInv
  <2> QED
    BY <1>3, <1>4, <2>2, <2>5 DEF OwnedInv
<1> QED
  BY <1>5, <1>6, TaskShape

LEMMA StepOwns ==
  ASSUME TypeInv, NEW A, OwnedInv(A), [Next]_vars,
         \A a \in Submitter : Abandons(a) => call[a].msg \in A
  PROVE  OwnedInv(A)'
<1>1. ASSUME NEW a \in Submitter, SubmitStep(a) \/ Submit(a) \/ DeliverBackground(a)
      PROVE  OwnedInv(A)'
  BY <1>1, BystanderOwns, Processes, SubmitShape
<1>2. ASSUME NEW a \in Submitter, StartStep(a) PROVE OwnedInv(A)'
  BY <1>2, StartOwns
<1>3. CASE HandlerStep
  BY <1>3, BystanderOwns, Processes, HandlerShape
<1>4. ASSUME NEW t \in Task, TaskStep(t) PROVE OwnedInv(A)'
  BY <1>4, TaskOwns
<1>5. ASSUME NEW c \in Canceller, CancelBegin(c) \/ UserCancel(c) \/ CancelStep(c)
      PROVE  OwnedInv(A)'
  <2>1. c \in Process /\ c \notin Submitter
    BY Processes
  <2>2. \A s \in Session, m \in Msg : state'[s] = Processing(m) => state[s] = Processing(m)
    <3>1. CASE UNCHANGED state
      BY <3>1
    <3>2. CASE state' = IfProcessing(cancel[c].session, cancel[c].victim, Idle)
      BY <3>2, Kinds DEF IfProcessing, TypeInv, TypeOK
    <3> QED
      BY <1>5, <3>1, <3>2, CancelShape
  <2> QED
    BY <1>5, <2>1, <2>2, BystanderOwns, CancelShape
<1>6. ASSUME NEW i \in Steering, SteerChecks(i) \/ SteerPushes(i) PROVE OwnedInv(A)'
  BY <1>6, BystanderOwns, Processes, SteeringShape
<1>7. CASE UNCHANGED vars
  BY <1>7 DEF vars, engine, locals, history, OwnedInv, Owned, Starting, Running
<1>8. ASSUME NEW a \in External, Calls(a) PROVE OwnedInv(A)'
  BY <1>1, <1>8, Processes DEF Calls
<1> QED
  BY <1>1, <1>2, <1>3, <1>4, <1>5, <1>6, <1>7, <1>8 DEF Next

LEMMA InitOwned == \A A : Init => OwnedInv(A)
  BY Processes, Kinds, SchedulerAssumption DEF Init, OwnedInv, StartPc

\* A turn that is abandoned, if any, has been since it was started.
LEMMA AlwaysOwnedBut == Spec => [](TypeInv /\ OwnedInv(Msg))
<1>0. Init => TypeInv /\ OwnedInv(Msg)
  BY InitTypes, InitOwned
<1>1. TypeInv /\ OwnedInv(Msg) /\ [Next]_vars => OwnedInv(Msg)'
  <2> SUFFICES ASSUME TypeInv, OwnedInv(Msg), [Next]_vars PROVE OwnedInv(Msg)'
    OBVIOUS
  <2>1. \A a \in Submitter : Abandons(a) => call[a].msg \in Msg
    BY MessageType DEF Abandons, PersistFails, ContextFails, At, HasMessage
  <2> QED
    BY <2>1, StepOwns
<1> QED
  BY <1>0, <1>1, StepTypes, PTL DEF Spec

\* A session never stays in Processing without a start or a task that will take
\* it out again, whatever panics, cancels and stale starts do, as long as no save
\* and no context read fails between Processing and the spawn.
StartsSpawn == Faults \cap {"persist", "context"} = {}
THEOREM ProcessingAlwaysOwned == StartsSpawn => (Spec => []ProcessingIsOwned)
<1> SUFFICES ASSUME StartsSpawn PROVE Spec => []ProcessingIsOwned
  OBVIOUS
<1>0. Init => TypeInv /\ OwnedInv({})
  BY InitTypes, InitOwned
<1>1. TypeInv /\ OwnedInv({}) /\ [Next]_vars => OwnedInv({})'
  <2> SUFFICES ASSUME TypeInv, OwnedInv({}), [Next]_vars PROVE OwnedInv({})'
    OBVIOUS
  <2>1. \A a \in Submitter : Abandons(a) => call[a].msg \in {}
    BY DEF Abandons, PersistFails, ContextFails, StartsSpawn
  <2> QED
    BY <2>1, StepOwns
<1>2. OwnedInv({}) => ProcessingIsOwned
  BY DEF OwnedInv, Owned, ProcessingIsOwned
<1> QED
  BY <1>0, <1>1, <1>2, StepTypes, PTL DEF Spec

\* And the failing save and the failing context read are the only ways to leave a
\* session in Processing for a turn that nobody executes, under every fault: no step but
\* one of these two, by the start of that very turn, makes a turn in progress ownerless.
AbandonedByStartOnly ==
  \A s \in Session, m \in Msg :
    (state[s] = Processing(m) => Owned(m)) /\ state'[s] = Processing(m) /\ ~ Owned(m)' =>
      \E a \in Submitter : Abandons(a) /\ call[a].msg = m
THEOREM OnlyStartsAbandon == Spec => [][AbandonedByStartOnly]_vars
<1>1. ASSUME TypeInv, OwnedInv(Msg), [Next]_vars
      PROVE  AbandonedByStartOnly
  <2>1. PICK A : A = {m \in Msg : \/ \E s \in Session : state[s] = Processing(m) /\ ~ Owned(m)
                                 \/ \E a \in Submitter : Abandons(a) /\ call[a].msg = m}
    OBVIOUS
  <2>2. \A a \in Submitter : Abandons(a) => call[a].msg \in A
    BY <1>1, <2>1, MessageType DEF Abandons, PersistFails, ContextFails, At, HasMessage
  <2>3. OwnedInv(A)
    BY <1>1, <2>1 DEF OwnedInv
  <2>4. OwnedInv(A)'
    BY <1>1, <2>2, <2>3, StepOwns
  <2>5. ASSUME NEW s \in Session, NEW m \in Msg, state[s] = Processing(m) => Owned(m),
               state'[s] = Processing(m), ~ Owned(m)'
        PROVE  \E a \in Submitter : Abandons(a) /\ call[a].msg = m
    <3>1. m \in A /\ Target[m] = s
      BY <2>4, <2>5 DEF OwnedInv
    <3>2. \A r \in Session : state[r] = Processing(m) => r = s
      BY <1>1, <3>1 DEF OwnedInv
    <3> QED
      BY <2>1, <2>5, <3>1, <3>2
  <2> QED
    BY <2>5 DEF AbandonedByStartOnly
<1> QED
  BY <1>1, AlwaysOwnedBut, PTL DEF Spec

-----------------------------------------------------------------------------
(* Steering stays with its turn.                                           *)

\* A steering message in the buffer, or out of it, is aimed at the turn that its
\* caller checked, and that caller has returned.
SteeringInv ==
  /\ \A s \in Session : \A b \in buffer[s] :
       b.id \in Steering => pc[b.id] = "done" /\ b.turn = call[b.id].turn /\ b.turn \in Msg
  /\ \A d \in drained : d.id \in Steering => pc[d.id] = "done" /\ d.turn = call[d.id].turn

\* No step but the caller's own push adds a steering message to a buffer, and
\* what is drained was in a buffer, aimed at the turn that takes it or at none.
Drains ==
  /\ \A s \in Session : \A b \in buffer'[s] : b \in buffer[s] \/ b.id \in Background
  /\ \A d \in drained' : d \in drained \/
       \E s \in Session : \E b \in buffer[s] : d.id = b.id /\ b.turn \in {d.turn, None}

LEMMA SteeringKept ==
  ASSUME TypeInv, SteeringInv, Drains,
         \A i \in Steering : pc'[i] = pc[i] /\ call'[i] = call[i]
  PROVE  SteeringInv'
<1>1. Steering \cap Background = {} /\ None \notin Msg
  BY Processes, SchedulerAssumption
<1>2. ASSUME NEW s \in Session, NEW b \in buffer'[s], b.id \in Steering
      PROVE  pc'[b.id] = "done" /\ b.turn = call'[b.id].turn /\ b.turn \in Msg
  BY <1>1, <1>2 DEF SteeringInv, Drains
<1>3. ASSUME NEW d \in drained', d.id \in Steering
      PROVE  pc'[d.id] = "done" /\ d.turn = call'[d.id].turn
  <2>1. CASE d \in drained
    BY <1>3, <2>1 DEF SteeringInv
  <2>2. CASE d \notin drained
    <3>1. PICK s \in Session : \E b \in buffer[s] : d.id = b.id /\ b.turn \in {d.turn, None}
      BY <1>3, <2>2 DEF Drains
    <3>2. PICK b \in buffer[s] : d.id = b.id /\ b.turn \in {d.turn, None}
      BY <3>1
    <3> QED
      BY <1>1, <1>3, <3>2 DEF SteeringInv
  <2> QED
    BY <2>1, <2>2
<1> QED
  BY <1>2, <1>3 DEF SteeringInv

LEMMA StepSteers ==
  ASSUME TypeInv, SteeringInv, [Next]_vars
  PROVE  SteeringInv'
<1>0. /\ buffer \in [Session -> SUBSET RoundInjection]
      /\ \A a \in Submitter \cup Canceller, i \in Steering :
           i # a /\ i \in Process /\ i \in Caller
  BY Processes DEF TypeInv, TypeOK
<1>1. UNCHANGED <<buffer, drained>> => Drains
  BY DEF Drains
<1>2. ASSUME NEW a \in Submitter, SubmitStep(a) \/ Submit(a) \/ DeliverBackground(a)
      PROVE  SteeringInv'
  <2>1. Drains
    <3>1. CASE UNCHANGED buffer
      BY <1>1, <1>2, <3>1, SubmitShape
    <3>2. CASE InjectBackground(a)
      <4>1. \A s \in Session : buffer'[s] \subseteq buffer[s] \cup {[id |-> a, turn |-> None]}
        BY <1>0, <3>2 DEF InjectBackground
      <4> QED
        BY <1>2, <3>2, <4>1, SubmitShape DEF InjectBackground, Drains
    <3> QED
      BY <1>2, <3>1, <3>2, SubmitShape
  <2> QED
    BY <1>0, <1>2, <2>1, SteeringKept, SubmitShape DEF Alone
<1>3. ASSUME NEW a \in Submitter, StartStep(a) PROVE SteeringInv'
  BY <1>0, <1>1, <1>3, SteeringKept, StartShape DEF Alone
<1>4. CASE HandlerStep
  <2>1. CASE ReceiveOutcome
    <3> DEFINE o == Head(outcomes)
    <3>1. /\ buffer' = [buffer EXCEPT ![o.session] = @ \ Eligible(o.session, o.turn)]
          /\ drained' = drained \cup
               {[id |-> i.id, by |-> "handler", turn |-> o.turn] :
                  i \in Eligible(o.session, o.turn)}
      BY <2>1 DEF ReceiveOutcome
    <3>2. o.session \in Session
      <4>1. o \in Outcome
        BY <2>1, HeadTailProperties DEF ReceiveOutcome, TypeInv, TypeOK
      <4> QED
        BY <4>1 DEF Outcome
    <3>3. Drains
      BY <1>0, <3>1, <3>2 DEF Drains, Eligible
    <3> QED
      BY <1>0, <1>4, <3>3, Processes, SteeringKept, HandlerShape DEF Alone
  <2>2. CASE UNCHANGED <<buffer, drained>>
    BY <1>0, <1>1, <1>4, <2>2, Processes, SteeringKept, HandlerShape DEF Alone
  <2> QED
    BY <1>4, <2>1, <2>2, HandlerShape
<1>5. ASSUME NEW t \in Task, TaskStep(t) PROVE SteeringInv'
  <2>1. CASE EngineInject(t)
    <3>1. Target[t[1]] \in Session
      BY SchedulerAssumption DEF Task
    <3>2. Drains
      BY <1>0, <2>1, <3>1 DEF EngineInject, Drains, Eligible
    <3> QED
      BY <1>5, <3>2, SteeringKept, TaskShape
  <2>2. CASE UNCHANGED <<buffer, drained>>
    BY <1>1, <1>5, <2>2, SteeringKept, TaskShape
  <2> QED
    BY <1>5, <2>1, <2>2, TaskShape
<1>6. ASSUME NEW c \in Canceller, CancelBegin(c) \/ UserCancel(c) \/ CancelStep(c)
      PROVE  SteeringInv'
  BY <1>0, <1>1, <1>6, SteeringKept, CancelShape DEF Alone
<1>7. ASSUME NEW i \in Steering, SteerChecks(i) PROVE SteeringInv'
  <2>1. UNCHANGED <<buffer, drained>> /\ pc[i] = "new"
    BY <1>7, SteeringShape DEF SteerChecks, At, rounds
  <2>2. \A j \in Steering : j # i => pc'[j] = pc[j] /\ call'[j] = call[j]
    BY <1>0, <1>7, Processes, SteeringShape DEF Alone
  <2> QED
    BY <2>1, <2>2 DEF SteeringInv
<1>8. ASSUME NEW i \in Steering, SteerPushes(i) PROVE SteeringInv'
  <2>1. /\ call[i].turn \in Msg /\ UNCHANGED <<call, drained>> /\ pc'[i] = "done"
        /\ \A j \in Steering : j # i => pc'[j] = pc[j]
    BY <1>8, Processes DEF SteerPushes, At, Goto, TypeInv, TypeOK, CallsAreSet, history
  <2>2. \A s \in Session : buffer'[s] \subseteq buffer[s] \cup {[id |-> i, turn |-> call[i].turn]}
    BY <1>0, <1>8 DEF SteerPushes
  <2>3. ASSUME NEW s \in Session, NEW b \in buffer'[s], b.id \in Steering
        PROVE  pc'[b.id] = "done" /\ b.turn = call'[b.id].turn /\ b.turn \in Msg
    <3>1. CASE b \in buffer[s]
      BY <2>1, <2>3, <3>1 DEF SteeringInv
    <3>2. CASE b = [id |-> i, turn |-> call[i].turn]
      BY <2>1, <3>2
    <3> QED
      BY <2>2, <3>1, <3>2
  <2> QED
    BY <2>1, <2>3 DEF SteeringInv
<1>9. CASE UNCHANGED vars
  BY <1>9 DEF vars, rounds, locals, history, SteeringInv
<1>10. ASSUME NEW a \in External, Calls(a) PROVE SteeringInv'
  BY <1>2, <1>10, Processes DEF Calls
<1> QED
  BY <1>2, <1>3, <1>4, <1>5, <1>6, <1>7, <1>8, <1>9, <1>10 DEF Next

\* "Targeting by turn_id": a steering message that leaves the buffer leaves it for
\* the turn it was submitted against, or with the outcome of that turn.
THEOREM SteeringOnTarget == Spec => []SteeringStaysOnTarget
<1>1. Init => TypeInv /\ SteeringInv
  BY InitTypes DEF Init, SteeringInv
<1>2. TypeInv /\ SteeringInv /\ [Next]_vars => TypeInv' /\ SteeringInv'
  BY StepTypes, StepSteers
<1>3. SteeringInv => SteeringStaysOnTarget
  BY DEF SteeringInv, SteeringStaysOnTarget
<1> QED
  BY <1>1, <1>2, <1>3, PTL DEF Spec

=============================================================================
