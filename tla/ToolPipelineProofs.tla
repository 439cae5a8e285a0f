------------------------- MODULE ToolPipelineProofs -------------------------
(***************************************************************************)
(* ToolPipeline for every round, every set of users and cancellers and     *)
(* every option: the types, what a confirmation and a cancel guarantee,    *)
(* the final state of a call, and that the pipeline implements             *)
(* OrderedCalls.                                                           *)
(***************************************************************************)
EXTENDS ToolPipeline, TLAPS

(***************************************************************************)
(* Types.  The retry counter stays within its bound because a call that is *)
(* about to attempt has an attempt left, and the driver stays within the   *)
(* round because its batch is not empty.                                   *)
(***************************************************************************)
NotTried == {"idle", "channel", "announce", "await", "expired", "precheck", "mark"}

AttemptsLeft ==
  \A i \in Call :
    /\ exec[i] \in NotTried => attempts[i] = 0
    /\ exec[i] = "attempt" => attempts[i] < MaxAttempts

DriverInRound ==
  /\ at \in {"create", "batch", "single"} => first <= N
  /\ at \in {"join", "steer"} => first <= last

TypeInv == TypeOK /\ AttemptsLeft /\ DriverInRound

LEMMA Bounds == N \in Nat \ {0} /\ MaxAttempts \in Nat \ {0}
BY PipelineAssumption

LEMMA FirstCall == 1 \in Call
BY Bounds DEF Call

LEMMA InitTyped == Init => TypeInv
<1> SUFFICES ASSUME Init PROVE TypeInv
  OBVIOUS
<1>1. attempts \in [Call -> 0 .. MaxAttempts] /\ AttemptsLeft
  BY Bounds DEF Init, AttemptsLeft, NotTried
<1>2. at \in DriverPc /\ first \in 1 .. (N + 1) /\ last \in 0 .. N /\ DriverInRound
  BY Bounds DEF Init, DriverPc, DriverInRound
<1> QED
  BY <1>1, <1>2, FirstCall
  DEF Init, TypeInv, TypeOK, Input, ToolExecutionState, ExecPc, CallerPc, Verdict, Answer

\* What a step does to the driver's own variables.
DriverKept ==
  /\ at' \in DriverPc /\ first' \in 1 .. (N + 1) /\ last' \in 0 .. N
  /\ DriverInRound'

LEMMA AdvanceKeeps == ASSUME TypeInv, Advance PROVE DriverKept
BY Bounds DEF TypeInv, TypeOK, Advance, DriverKept, DriverInRound, DriverPc, LoopHead

\* The batch loop.
LEMMA DriverTyped == TypeInv /\ DriverStep => TypeInv'
<1> SUFFICES ASSUME TypeInv, DriverStep PROVE TypeInv'
  OBVIOUS
<1> USE DEF TypeInv, DriverAt, DriverKept, maps, signals, driver, calls, callers
<1>0. /\ at \in DriverPc /\ first \in 1 .. (N + 1) /\ last \in 0 .. N
      /\ DriverInRound
  BY DEF TypeOK
<1>1. CASE CreateTask
  <2>1. DriverKept
    BY <1>0, <1>1, Bounds DEF CreateTask, DriverInRound, DriverPc, LoopHead
  <2>2. status' \in [Call -> ToolExecutionState]
    BY <1>1 DEF CreateTask, TypeOK, ToolExecutionState
  <2> QED
    BY <1>1, <2>1, <2>2 DEF CreateTask, TypeOK, AttemptsLeft
<1>2. CASE BatchCheck
  <2>1. DriverKept
    BY <1>0, <1>2, Bounds DEF BatchCheck, DriverInRound, DriverPc
  <2> QED
    BY <1>2, <2>1 DEF BatchCheck, TypeOK, AttemptsLeft
<1>3. CASE SingleCheck
  <2>1. DriverKept
    BY <1>0, <1>3, Bounds DEF SingleCheck, DriverInRound, DriverPc
  <2> QED
    BY <1>3, <2>1 DEF SingleCheck, TypeOK, AttemptsLeft
<1>4. CASE Join
  BY <1>4, AdvanceKeeps DEF Join, TypeOK, AttemptsLeft
<1>5. CASE SteerOne
  <2>1. first < last => DriverKept
    BY <1>0, <1>5, Bounds DEF SteerOne, DriverInRound, DriverPc
  <2>2. ~ (first < last) => DriverKept
    BY <1>5, AdvanceKeeps DEF SteerOne
  <2>3. status' \in [Call -> ToolExecutionState]
    BY <1>5 DEF SteerOne, TypeOK, ToolExecutionState, Terminal
  <2>4. outcome' \in [Call -> {"none", "Ok", "Err", "Steered"}]
    BY <1>5 DEF SteerOne, TypeOK
  <2>5. DriverKept
    BY <2>1, <2>2
  <2> QED
    BY <1>5, <2>3, <2>4, <2>5 DEF SteerOne, TypeOK, AttemptsLeft
<1> QED
  BY <1>1, <1>2, <1>3, <1>4, <1>5 DEF DriverStep

\* The execution of one call.
LEMMA ToolTyped == \A i \in Call : TypeInv /\ ToolStep(i) => TypeInv'
<1> SUFFICES ASSUME NEW i \in Call, TypeInv, ToolStep(i) PROVE TypeInv'
  OBVIOUS
<1> USE Bounds DEF TypeInv, TypeOK, AttemptsLeft, DriverInRound, NotTried,
        ToolExecutionState, Terminal, ExecPc, Verdict, At, Goto, Ends, Polled,
        maps, signals, driver, calls, callers
<1>1. CASE RegisterToken(i)
  BY <1>1 DEF RegisterToken
<1>2. CASE PreflightFails(i)
  BY <1>2 DEF PreflightFails
<1>3. CASE Unregistered(i)
  BY <1>3 DEF Unregistered
<1>4. CASE InsertChannel(i)
  BY <1>4 DEF InsertChannel
<1>5. CASE AnnounceConfirmation(i)
  BY <1>5 DEF AnnounceConfirmation
<1>6. CASE Confirmed(i)
  BY <1>6 DEF Confirmed
<1>7. CASE Refused(i)
  BY <1>7 DEF Refused
<1>8. CASE TimesOut(i)
  BY <1>8 DEF TimesOut
<1>9. CASE GivesUp(i)
  BY <1>9 DEF GivesUp
<1>10. CASE PrecheckPasses(i)
  BY <1>10 DEF PrecheckPasses
<1>11. CASE CancelledBeforeExecution(i)
  BY <1>11 DEF CancelledBeforeExecution
<1>12. CASE MarkRunning(i)
  BY <1>12 DEF MarkRunning
<1>13. CASE Attempt(i)
  BY <1>13 DEF Attempt
<1>14. CASE StreamChunks(i)
  BY <1>14 DEF StreamChunks
<1>15. CASE \E v \in Verdict \ {"none"} : CallReturns(i, v)
  BY <1>15 DEF CallReturns
<1>16. CASE Retry(i)
  BY <1>16 DEF Retry
<1>17. CASE RemoveToken(i)
  BY <1>17 DEF RemoveToken
<1>18. CASE Settle(i)
  BY <1>18 DEF Settle
<1> QED
  BY <1>1, <1>2, <1>3, <1>4, <1>5, <1>6, <1>7, <1>8, <1>9, <1>10, <1>11, <1>12, <1>13,
     <1>14, <1>15, <1>16, <1>17, <1>18 DEF ToolStep

\* Users.
LEMMA UserTyped ==
  \A u \in User : TypeInv /\ (AnswerChecks(u) \/ AnswerSends(u)) => TypeInv'
<1> SUFFICES ASSUME NEW u \in User, TypeInv, AnswerChecks(u) \/ AnswerSends(u)
             PROVE  TypeInv'
  OBVIOUS
<1> USE DEF TypeInv, TypeOK, AttemptsLeft, DriverInRound, Input, ToolExecutionState,
        Terminal, CallerPc, Answer, Caller, CallerAt, CallerGoto, maps, signals, driver, calls, callers
<1>1. CASE AnswerChecks(u)
  BY <1>1 DEF AnswerChecks
<1>2. CASE AnswerSends(u)
  BY <1>2, FirstCall DEF AnswerSends
<1> QED
  BY <1>1, <1>2

\* Cancellers.
CancellerStep(c) == CancelTool(c) \/ CancelDialogTurnTools(c) \/ CancelStep(c)

LEMMA CancellerTyped == \A c \in Canceller : TypeInv /\ CancellerStep(c) => TypeInv'
<1> SUFFICES ASSUME NEW c \in Canceller, TypeInv, CancellerStep(c) PROVE TypeInv'
  OBVIOUS
<1> USE DEF TypeInv, TypeOK, AttemptsLeft, DriverInRound, Input, ToolExecutionState,
        Terminal, CallerPc, Answer, Caller, CallerAt, CallerGoto, maps, signals, driver, calls, callers
<1>1. CASE CancelTool(c)
  BY <1>1 DEF CancelTool
<1>2. CASE CancelDialogTurnTools(c)
  BY <1>2 DEF CancelDialogTurnTools
<1>3. CASE CancelNext(c)
  <2>1. CASE todo[c] = {} /\ aim' = [aim EXCEPT ![c] = 1] /\ CallerGoto(c, "done") /\ UNCHANGED todo
    BY <1>3, <2>1, FirstCall DEF CancelNext
  <2>2. ASSUME NEW i \in todo[c], todo' = [todo EXCEPT ![c] = @ \ {i}],
               aim' = [aim EXCEPT ![c] = i], NEW l \in {"next", "token"}, CallerGoto(c, l)
        PROVE  TypeInv'
    BY <1>3, <2>2 DEF CancelNext
  <2> QED
    BY <1>3, <2>1, <2>2 DEF CancelNext
<1>4. CASE TriggerToken(c)
  BY <1>4 DEF TriggerToken
<1>5. CASE CloseChannel(c)
  BY <1>5 DEF CloseChannel
<1>6. CASE MarkCancelled(c)
  BY <1>6 DEF MarkCancelled
<1> QED
  BY <1>1, <1>2, <1>3, <1>4, <1>5, <1>6 DEF CancellerStep, CancelStep

LEMMA SteeringTyped == TypeInv /\ SteeringChanges => TypeInv'
BY DEF SteeringChanges, TypeInv, TypeOK, AttemptsLeft, DriverInRound, maps, driver, calls, callers

LEMMA StutterTyped == TypeInv /\ UNCHANGED vars => TypeInv'
BY DEF TypeInv, TypeOK, AttemptsLeft, DriverInRound, vars, maps, signals, driver, calls, callers

LEMMA NextTyped == TypeInv /\ [Next]_vars => TypeInv'
BY DriverTyped, ToolTyped, UserTyped, CancellerTyped, SteeringTyped, StutterTyped
   DEF Next, CancellerStep

\* Every variable keeps its type; in particular no call is attempted more often
\* than its options allow (execute_with_retry), and the batch loop ends with the
\* last call.
THEOREM TypeCorrect == Spec => []TypeOK
<1>1. Spec => []TypeInv
  BY InitTyped, NextTyped, PTL DEF Spec
<1>2. TypeInv => TypeOK
  BY DEF TypeInv
<1> QED
  BY <1>1, <1>2, PTL
-----------------------------------------------------------------------------
(***************************************************************************)
(* Confirmations.  A call's channel is answered at most once, because the  *)
(* sender is gone from the map with the answer; and a call leaves its wait *)
(* towards the execution only through a Confirmed.                         *)
(***************************************************************************)
Cleared == {"precheck", "mark", "attempt", "calling", "streamed"}

ConfirmInv ==
  /\ \A i \in senders : answer[i] = "none"
  /\ \A i \in Call : exec[i] \in {"idle", "channel"} => i \notin senders /\ answer[i] = "none"
  /\ \A i \in Confirm : exec[i] \in Cleared => answer[i] = "Confirmed"

LEMMA ConfirmSubset == Confirm \subseteq Call
BY PipelineAssumption

LEMMA InitConfirm == Init => ConfirmInv
BY ConfirmSubset DEF Init, ConfirmInv, Cleared

LEMMA ToolConfirm == \A i \in Call : TypeInv /\ ConfirmInv /\ ToolStep(i) => ConfirmInv'
<1> SUFFICES ASSUME NEW i \in Call, TypeInv, ConfirmInv, ToolStep(i) PROVE ConfirmInv'
  OBVIOUS
<1>0. /\ exec \in [Call -> ExecPc] /\ answer \in [Call -> Answer] /\ senders \subseteq Call
      /\ Confirm \subseteq Call
  BY ConfirmSubset DEF TypeInv, TypeOK
<1> USE <1>0 DEF ConfirmInv, Cleared, At, Goto, Ends, Polled, maps, signals
<1>1. CASE RegisterToken(i)
  BY <1>1 DEF RegisterToken
<1>2. CASE PreflightFails(i)
  BY <1>2 DEF PreflightFails
<1>3. CASE Unregistered(i)
  BY <1>3 DEF Unregistered
<1>4. CASE InsertChannel(i)
  BY <1>4 DEF InsertChannel
<1>5. CASE AnnounceConfirmation(i)
  BY <1>5 DEF AnnounceConfirmation
<1>6. CASE Confirmed(i)
  BY <1>6 DEF Confirmed
<1>7. CASE Refused(i)
  BY <1>7 DEF Refused
<1>8. CASE TimesOut(i)
  BY <1>8 DEF TimesOut
<1>9. CASE GivesUp(i)
  BY <1>9 DEF GivesUp
<1>10. CASE PrecheckPasses(i)
  BY <1>10 DEF PrecheckPasses
<1>11. CASE CancelledBeforeExecution(i)
  BY <1>11 DEF CancelledBeforeExecution
<1>12. CASE MarkRunning(i)
  BY <1>12 DEF MarkRunning
<1>13. CASE Attempt(i)
  BY <1>13 DEF Attempt
<1>14. CASE StreamChunks(i)
  BY <1>14 DEF StreamChunks
<1>15. CASE \E v \in Verdict \ {"none"} : CallReturns(i, v)
  BY <1>15 DEF CallReturns
<1>16. CASE Retry(i)
  BY <1>16 DEF Retry
<1>17. CASE RemoveToken(i)
  BY <1>17 DEF RemoveToken
<1>18. CASE Settle(i)
  BY <1>18 DEF Settle
<1> QED
  BY <1>1, <1>2, <1>3, <1>4, <1>5, <1>6, <1>7, <1>8, <1>9, <1>10, <1>11, <1>12, <1>13,
     <1>14, <1>15, <1>16, <1>17, <1>18 DEF ToolStep

LEMMA UserConfirm ==
  \A u \in User :
    TypeInv /\ ConfirmInv /\ (AnswerChecks(u) \/ AnswerSends(u)) => ConfirmInv'
<1> SUFFICES ASSUME NEW u \in User, TypeInv, ConfirmInv, AnswerChecks(u) \/ AnswerSends(u)
             PROVE  ConfirmInv'
  OBVIOUS
<1>0. /\ exec \in [Call -> ExecPc] /\ answer \in [Call -> Answer] /\ senders \subseteq Call
      /\ Confirm \subseteq Call
  BY ConfirmSubset DEF TypeInv, TypeOK
<1>1. CASE AnswerChecks(u)
  BY <1>1 DEF AnswerChecks, ConfirmInv, signals, calls
<1>2. CASE AnswerSends(u)
  BY <1>0, <1>2 DEF AnswerSends, ConfirmInv, Cleared, calls
<1> QED
  BY <1>1, <1>2

LEMMA CancellerConfirm ==
  \A c \in Canceller : TypeInv /\ ConfirmInv /\ CancellerStep(c) => ConfirmInv'
<1> SUFFICES ASSUME NEW c \in Canceller, TypeInv, ConfirmInv, CancellerStep(c)
             PROVE  ConfirmInv'
  OBVIOUS
<1>0. /\ exec \in [Call -> ExecPc] /\ answer \in [Call -> Answer] /\ senders \subseteq Call
      /\ Confirm \subseteq Call
  BY ConfirmSubset DEF TypeInv, TypeOK
<1>1. CASE CloseChannel(c)
  BY <1>0, <1>1 DEF CloseChannel, ConfirmInv, Cleared, calls
<1>2. CASE ~CloseChannel(c)
  BY <1>2
  DEF CancellerStep, CancelStep, CancelTool, CancelDialogTurnTools, CancelNext, TriggerToken,
      MarkCancelled, ConfirmInv, maps, signals, calls
<1> QED
  BY <1>1, <1>2

LEMMA NextConfirm == TypeInv /\ ConfirmInv /\ [Next]_vars => ConfirmInv'
<1> SUFFICES ASSUME TypeInv, ConfirmInv, [Next]_vars PROVE ConfirmInv'
  OBVIOUS
<1>1. CASE DriverStep \/ SteeringChanges \/ UNCHANGED vars
  BY <1>1
  DEF DriverStep, CreateTask, BatchCheck, SingleCheck, Join, SteerOne, SteeringChanges,
      ConfirmInv, vars, maps, signals, calls
<1> QED
  BY <1>1, ToolConfirm, UserConfirm, CancellerConfirm DEF Next, CancellerStep

\* No tool that needs a confirmation executes without a delivered confirm_tool:
\* whatever the number of users, cancellers and calls, and with the timer at
\* any moment.
THEOREM ConfirmedBeforeRun == Spec => []RunsOnlyIfConfirmed
<1>1. Spec => [](TypeInv /\ ConfirmInv)
  BY InitTyped, NextTyped, InitConfirm, NextConfirm, PTL DEF Spec
<1>2. TypeInv /\ ConfirmInv => RunsOnlyIfConfirmed
  BY DEF ConfirmInv, RunsOnlyIfConfirmed, Cleared, Executing
<1> QED
  BY <1>1, <1>2, PTL

-----------------------------------------------------------------------------
(***************************************************************************)
(* Cancellation tokens.  While a call uses its token, a cancel_tool finds  *)
(* it in the map or has already triggered it; a call that a cancel_tool    *)
(* has come to is therefore told so before its next attempt.               *)
(***************************************************************************)
TokenReachable == \A i \in Call : TokenInUse(i) => i \in tokens \cup cancelled

StopInv == TokenReachable /\ stopped \subseteq cancelled

LEMMA InitReaches == Init => StopInv
BY DEF Init, StopInv, TokenReachable, TokenInUse

LEMMA ToolReaches == \A i \in Call : TypeInv /\ StopInv /\ ToolStep(i) => StopInv'
<1> SUFFICES ASSUME NEW i \in Call, TypeInv, StopInv, ToolStep(i) PROVE StopInv'
  OBVIOUS
<1>0. /\ exec \in [Call -> ExecPc] /\ tokens \subseteq Call
  BY DEF TypeInv, TypeOK
<1> USE <1>0 DEF StopInv, TokenReachable, TokenInUse, At, Goto, Ends, Polled, maps, signals
<1>1. CASE RegisterToken(i)
  BY <1>1 DEF RegisterToken
<1>2. CASE PreflightFails(i)
  BY <1>2 DEF PreflightFails
<1>3. CASE Unregistered(i)
  BY <1>3 DEF Unregistered
<1>4. CASE InsertChannel(i)
  BY <1>4 DEF InsertChannel
<1>5. CASE AnnounceConfirmation(i)
  BY <1>5 DEF AnnounceConfirmation
<1>6. CASE Confirmed(i)
  BY <1>6 DEF Confirmed
<1>7. CASE Refused(i)
  BY <1>7 DEF Refused
<1>8. CASE TimesOut(i)
  BY <1>8 DEF TimesOut
<1>9. CASE GivesUp(i)
  BY <1>9 DEF GivesUp
<1>10. CASE PrecheckPasses(i)
  BY <1>10 DEF PrecheckPasses
<1>11. CASE CancelledBeforeExecution(i)
  BY <1>11 DEF CancelledBeforeExecution
<1>12. CASE MarkRunning(i)
  BY <1>12 DEF MarkRunning
<1>13. CASE Attempt(i)
  BY <1>13 DEF Attempt
<1>14. CASE StreamChunks(i)
  BY <1>14 DEF StreamChunks
<1>15. CASE \E v \in Verdict \ {"none"} : CallReturns(i, v)
  BY <1>15 DEF CallReturns
<1>16. CASE Retry(i)
  BY <1>16 DEF Retry
<1>17. CASE RemoveToken(i)
  BY <1>17 DEF RemoveToken
<1>18. CASE Settle(i)
  BY <1>18 DEF Settle
<1> QED
  BY <1>1, <1>2, <1>3, <1>4, <1>5, <1>6, <1>7, <1>8, <1>9, <1>10, <1>11, <1>12, <1>13,
     <1>14, <1>15, <1>16, <1>17, <1>18 DEF ToolStep

LEMMA OtherReaches ==
  TypeInv /\ StopInv /\ [Next]_vars /\ (\A i \in Call : ~ToolStep(i)) => StopInv'
<1> SUFFICES ASSUME TypeInv, StopInv, [Next]_vars, \A i \in Call : ~ToolStep(i)
             PROVE  StopInv'
  OBVIOUS
<1>1. CASE DriverStep \/ SteeringChanges \/ UNCHANGED vars
  BY <1>1
  DEF DriverStep, CreateTask, BatchCheck, SingleCheck, Join, SteerOne, SteeringChanges,
      StopInv, TokenReachable, TokenInUse, vars, maps, signals, calls
<1>2. ASSUME NEW u \in User, AnswerChecks(u) \/ AnswerSends(u) PROVE StopInv'
  BY <1>2 DEF AnswerChecks, AnswerSends, StopInv, TokenReachable, TokenInUse, signals, calls
<1>3. ASSUME NEW c \in Canceller, TriggerToken(c) PROVE StopInv'
  <2>1. aim[c] \in Call
    BY DEF TypeInv, TypeOK, Caller
  <2> QED
    BY <1>3, <2>1 DEF TriggerToken, StopInv, TokenReachable, TokenInUse, calls
<1>4. ASSUME NEW c \in Canceller, CancellerStep(c), ~TriggerToken(c) PROVE StopInv'
  BY <1>4
  DEF CancellerStep, CancelStep, CancelTool, CancelDialogTurnTools, CancelNext, CloseChannel,
      MarkCancelled, StopInv, TokenReachable, TokenInUse, maps, signals, calls
<1> QED
  BY <1>1, <1>2, <1>3, <1>4 DEF Next, CancellerStep

LEMMA StopInvHolds == Spec => []StopInv
<1>1. TypeInv /\ StopInv /\ [Next]_vars => StopInv'
  BY ToolReaches, OtherReaches
<1> QED
  BY <1>1, InitTyped, NextTyped, InitReaches, PTL DEF Spec

\* Only an attempt that begins raises the counter.
AttemptOnly ==
  \A i \in Call : attempts'[i] > attempts[i] => Attempt(i) /\ i \notin cancelled

LEMMA ToolAttempts == \A i \in Call : TypeInv /\ ToolStep(i) => AttemptOnly
<1> SUFFICES ASSUME NEW i \in Call, TypeInv, ToolStep(i) PROVE AttemptOnly
  OBVIOUS
<1>0. attempts \in [Call -> Nat]
  BY Bounds DEF TypeInv, TypeOK
<1>1. CASE Attempt(i)
  BY <1>0, <1>1 DEF Attempt, AttemptOnly
<1>2. CASE Settle(i)
  BY <1>0, <1>2 DEF Settle, AttemptOnly
<1>3. CASE ~Attempt(i) /\ ~Settle(i)
  <2>1. attempts' = attempts
    BY <1>3
    DEF ToolStep, RegisterToken, PreflightFails, Unregistered, InsertChannel,
        AnnounceConfirmation, Confirmed, Refused, TimesOut, GivesUp, PrecheckPasses,
        CancelledBeforeExecution, MarkRunning, StreamChunks, CallReturns, Retry,
        RemoveToken, calls
  <2> QED
    BY <1>0, <2>1 DEF AttemptOnly
<1> QED
  BY <1>1, <1>2, <1>3

LEMMA StepAttempts == TypeInv /\ [Next]_vars => AttemptOnly
<1> SUFFICES ASSUME TypeInv, [Next]_vars PROVE AttemptOnly
  OBVIOUS
<1>1. ASSUME NEW i \in Call, ToolStep(i) PROVE AttemptOnly
  BY <1>1, ToolAttempts
<1>2. CASE \A i \in Call : ~ToolStep(i)
  <2>1. attempts' = attempts
    BY <1>2
    DEF Next, DriverStep, CreateTask, BatchCheck, SingleCheck, Join, SteerOne,
        SteeringChanges, AnswerChecks, AnswerSends, CancelTool, CancelDialogTurnTools,
        CancelStep, CancelNext, TriggerToken, CloseChannel, MarkCancelled, vars, calls
  <2> QED
    BY <2>1, Bounds DEF AttemptOnly, TypeInv, TypeOK
<1> QED
  BY <1>1, <1>2

\* Once a cancel_tool has come to a call that has its token, the tool is not called
\* any more, for any number of calls, attempts and cancellers (cancel_tool,
\* execute_with_retry).
THEOREM CancelEndsAttempts == Spec => CancelStopsAttempts
<1>1. TypeInv /\ StopInv /\ [Next]_vars
      => [\A i \in Call : attempts'[i] > attempts[i] => i \notin stopped]_vars
  BY StepAttempts DEF AttemptOnly, StopInv
<1> QED
  BY <1>1, InitTyped, NextTyped, StopInvHolds, PTL DEF Spec, CancelStopsAttempts

-----------------------------------------------------------------------------
(***************************************************************************)
(* Where calls may be while the driver works on the batch first .. last:   *)
(* before it all are answered, after it all are idle, and in it they have  *)
(* begun only once the driver joins them.                                  *)
(***************************************************************************)
EarlierAnswered == at # "create" => \A i \in Call : i < first => outcome[i] # "none"

BegunInBatch ==
  \A i \in Call : exec[i] # "idle" =>
    /\ at # "create"
    /\ i < first \/ (at = "join" /\ i <= last)

LaterUnanswered ==
  \A i \in Call : (at = "create" \/ i >= first) /\ exec[i] = "idle" => outcome[i] = "none"

AnsweredWhenDone ==
  \A i \in Call :
    /\ exec[i] \notin {"idle", "done"} => outcome[i] = "none"
    /\ exec[i] = "done" => outcome[i] \in {"Ok", "Err"}

BatchIsSafe == at = "join" => first = last \/ first .. last \subseteq Safe

OrderInv ==
  EarlierAnswered /\ BegunInBatch /\ LaterUnanswered /\ AnsweredWhenDone /\ BatchIsSafe

\* What the steps of one call do to the order's variables, whatever they do to
\* the others: the call begins, goes on, or ends.
CallBegins(i) ==
  /\ Polled(i) /\ exec'[i] \notin {"idle", "done"} /\ UNCHANGED outcome

CallGoesOn(i) ==
  /\ exec[i] \notin {"idle", "done"} /\ exec'[i] \notin {"idle", "done"}
  /\ UNCHANGED outcome

CallEnds(i) ==
  /\ Polled(i) \/ exec[i] \notin {"idle", "done"}
  /\ exec'[i] = "done"
  /\ \E r \in {"Ok", "Err"} : outcome' = [outcome EXCEPT ![i] = r]
  /\ \/ status'[i] \in Terminal
     \/ i \in Unknown /\ Polled(i) /\ status'[i] = status[i]

CallStep(i) ==
  /\ CallBegins(i) \/ CallGoesOn(i) \/ CallEnds(i)
  /\ \A k \in Call \ {i} : exec'[k] = exec[k] /\ status'[k] = status[k]
  /\ UNCHANGED driver

LEMMA ToolShape == \A i \in Call : TypeInv /\ ToolStep(i) => CallStep(i)
<1> SUFFICES ASSUME NEW i \in Call, TypeInv, ToolStep(i) PROVE CallStep(i)
  OBVIOUS
<1>0. exec \in [Call -> ExecPc] /\ status \in [Call -> ToolExecutionState]
  BY DEF TypeInv, TypeOK
<1> USE <1>0 DEF CallStep, CallBegins, CallGoesOn, CallEnds, At, Goto, Ends, Polled, Terminal,
                 maps
<1>1. CASE RegisterToken(i)
  BY <1>1 DEF RegisterToken
<1>2. CASE PreflightFails(i)
  BY <1>2 DEF PreflightFails
<1>3. CASE Unregistered(i)
  BY <1>3 DEF Unregistered
<1>4. CASE InsertChannel(i)
  BY <1>4 DEF InsertChannel
<1>5. CASE AnnounceConfirmation(i)
  BY <1>5 DEF AnnounceConfirmation
<1>6. CASE Confirmed(i)
  BY <1>6 DEF Confirmed
<1>7. CASE Refused(i)
  BY <1>7 DEF Refused
<1>8. CASE TimesOut(i)
  BY <1>8 DEF TimesOut
<1>9. CASE GivesUp(i)
  BY <1>9 DEF GivesUp
<1>10. CASE PrecheckPasses(i)
  BY <1>10 DEF PrecheckPasses
<1>11. CASE CancelledBeforeExecution(i)
  BY <1>11 DEF CancelledBeforeExecution
<1>12. CASE MarkRunning(i)
  BY <1>12 DEF MarkRunning
<1>13. CASE Attempt(i)
  BY <1>13 DEF Attempt
<1>14. CASE StreamChunks(i)
  BY <1>14 DEF StreamChunks
<1>15. CASE \E v \in Verdict \ {"none"} : CallReturns(i, v)
  BY <1>15 DEF CallReturns
<1>16. CASE Retry(i)
  BY <1>16 DEF Retry
<1>17. CASE RemoveToken(i)
  BY <1>17 DEF RemoveToken
<1>18. CASE Settle(i)
  BY <1>18 DEF Settle
<1> QED
  BY <1>1, <1>2, <1>3, <1>4, <1>5, <1>6, <1>7, <1>8, <1>9, <1>10, <1>11, <1>12, <1>13,
     <1>14, <1>15, <1>16, <1>17, <1>18 DEF ToolStep

\* Users, cancellers and steering have no part in the order, and leave only final
\* states behind.
Bystander ==
  /\ UNCHANGED <<driver, exec, outcome>>
  /\ \A k \in Call : status'[k] = status[k] \/ status'[k] = "Cancelled"

LEMMA CallersShape ==
  TypeInv /\ [Next]_vars /\ ~DriverStep /\ (\A i \in Call : ~ToolStep(i)) => Bystander
<1> SUFFICES ASSUME TypeInv, [Next]_vars, ~DriverStep, \A i \in Call : ~ToolStep(i)
             PROVE  Bystander
  OBVIOUS
<1>0. status \in [Call -> ToolExecutionState]
  BY DEF TypeInv, TypeOK
<1>1. CASE SteeringChanges \/ UNCHANGED vars
  BY <1>1 DEF SteeringChanges, Bystander, vars, maps, calls
<1>2. ASSUME NEW u \in User, AnswerChecks(u) \/ AnswerSends(u) PROVE Bystander
  BY <1>0, <1>2 DEF AnswerChecks, AnswerSends, Bystander, calls
<1>3. ASSUME NEW c \in Canceller, CancellerStep(c) PROVE Bystander
  BY <1>0, <1>3
  DEF CancellerStep, CancelStep, CancelTool, CancelDialogTurnTools, CancelNext, TriggerToken,
      CloseChannel, MarkCancelled, Bystander, maps, calls
<1> QED
  BY <1>1, <1>2, <1>3 DEF Next, CancellerStep

-----------------------------------------------------------------------------
LEMMA InitOrder == Init => OrderInv
BY Bounds
DEF Init, OrderInv, EarlierAnswered, BegunInBatch, LaterUnanswered, AnsweredWhenDone,
    BatchIsSafe, Call

\* When the batch first .. last is answered, the next one begins.
LEMMA AdvanceOrder ==
  ASSUME TypeInv, OrderInv, at \in {"join", "steer"}, Advance, UNCHANGED exec,
         \A i \in Call : i <= last => outcome'[i] # "none",
         \A i \in Call : i > last => outcome'[i] = outcome[i],
         \A i \in Call : exec[i] # "idle" => outcome'[i] = outcome[i]
  PROVE  OrderInv'
<1>1. /\ first \in Nat /\ last \in Nat /\ first <= last
  BY Bounds DEF TypeInv, TypeOK, DriverInRound
<1>2. /\ first' = last + 1 /\ last' = last /\ at' \in {"returned", "batch", "single"}
  BY DEF Advance, LoopHead
<1> USE <1>1, <1>2 DEF OrderInv, Call
<1>3. EarlierAnswered'
  BY Bounds DEF EarlierAnswered
<1>4. BegunInBatch'
  BY Bounds DEF BegunInBatch
<1>5. LaterUnanswered'
  BY Bounds DEF LaterUnanswered
<1>6. AnsweredWhenDone'
  BY DEF AnsweredWhenDone
<1>7. BatchIsSafe'
  BY DEF BatchIsSafe
<1> QED
  BY <1>3, <1>4, <1>5, <1>6, <1>7

LEMMA DriverOrder == TypeInv /\ OrderInv /\ DriverStep => OrderInv'
<1> SUFFICES ASSUME TypeInv, OrderInv, DriverStep PROVE OrderInv'
  OBVIOUS
<1>0. /\ at \in DriverPc /\ first \in Nat /\ last \in Nat
      /\ exec \in [Call -> ExecPc] /\ outcome \in [Call -> {"none", "Ok", "Err", "Steered"}]
      /\ DriverInRound
  BY Bounds DEF TypeInv, TypeOK
<1> USE <1>0, Bounds DEF DriverAt, calls
<1>1. CASE CreateTask
  <2>1. \A i \in Call : exec[i] = "idle" /\ outcome[i] = "none"
    BY <1>1 DEF CreateTask, OrderInv, BegunInBatch, LaterUnanswered
  <2>2. at' = "create" \/ (at' \in {"batch", "single"} /\ first' = 1)
    BY <1>1 DEF CreateTask, LoopHead
  <2> QED
    BY <1>1, <2>1, <2>2
    DEF CreateTask, OrderInv, EarlierAnswered, BegunInBatch, LaterUnanswered,
        AnsweredWhenDone, BatchIsSafe, Call
<1>2. CASE BatchCheck
  <2>1. at' = "join" => first' .. last' \subseteq Safe
    BY <1>2 DEF BatchCheck, EndsBatch
  <2> QED
    BY <1>2, <2>1
    DEF BatchCheck, OrderInv, EarlierAnswered, BegunInBatch, LaterUnanswered,
        AnsweredWhenDone, BatchIsSafe, Call
<1>3. CASE SingleCheck
  BY <1>3
  DEF SingleCheck, OrderInv, EarlierAnswered, BegunInBatch, LaterUnanswered,
      AnsweredWhenDone, BatchIsSafe, Call
<1>4. CASE Join
  <2>1. \A i \in Call : i <= last => outcome'[i] # "none"
    BY <1>4 DEF Join, OrderInv, EarlierAnswered, Call
  <2> QED
    BY <1>4, <2>1, AdvanceOrder DEF Join
<1>5. CASE SteerOne
  <2>1. first \in Call
    BY <1>5 DEF SteerOne, DriverInRound, Call, TypeInv, TypeOK
  <2>2. exec[first] = "idle" /\ UNCHANGED exec
    BY <1>5, <2>1 DEF SteerOne, OrderInv, BegunInBatch, Call
  <2>3. /\ outcome'[first] = "Steered"
        /\ \A i \in Call \ {first} : outcome'[i] = outcome[i]
    BY <1>5, <2>1 DEF SteerOne
  <2>4. CASE first < last
    <3>1. first' = first + 1 /\ at' = "steer"
      BY <1>5, <2>4 DEF SteerOne
    <3> QED
      BY <2>1, <2>2, <2>3, <3>1, <1>5
      DEF SteerOne, OrderInv, EarlierAnswered, BegunInBatch, LaterUnanswered,
          AnsweredWhenDone, BatchIsSafe, Call
  <2>5. CASE ~(first < last)
    <3>1. first = last /\ Advance /\ at = "steer"
      BY <1>5, <2>5 DEF SteerOne, DriverInRound
    <3>2. \A i \in Call : i <= last => outcome'[i] # "none"
      BY <2>3, <3>1 DEF OrderInv, EarlierAnswered, Call
    <3>3. \A i \in Call : i > last => outcome'[i] = outcome[i]
      BY <2>3, <3>1 DEF Call
    <3> QED
      BY <2>2, <2>3, <3>1, <3>2, <3>3, AdvanceOrder
  <2> QED
    BY <2>4, <2>5
<1> QED
  BY <1>1, <1>2, <1>3, <1>4, <1>5 DEF DriverStep

LEMMA CallOrder == \A i \in Call : TypeInv /\ OrderInv /\ CallStep(i) => OrderInv'
<1> SUFFICES ASSUME NEW i \in Call, TypeInv, OrderInv, CallStep(i) PROVE OrderInv'
  OBVIOUS
<1>0. /\ first \in Nat /\ last \in Nat /\ i \in Nat
      /\ outcome \in [Call -> {"none", "Ok", "Err", "Steered"}]
      /\ UNCHANGED <<at, first, last>>
      /\ \A k \in Call \ {i} : exec'[k] = exec[k]
  BY Bounds DEF TypeInv, TypeOK, CallStep, driver, Call
<1>1. Polled(i) => at = "join" /\ first <= i /\ i <= last /\ exec[i] = "idle"
  BY <1>0 DEF Polled, DriverAt, At
<1> USE <1>0, <1>1
    DEF OrderInv, EarlierAnswered, BegunInBatch, LaterUnanswered, AnsweredWhenDone, BatchIsSafe,
        Call
<1>2. CASE CallBegins(i)
  BY <1>2 DEF CallBegins
<1>3. CASE CallGoesOn(i)
  BY <1>3 DEF CallGoesOn
<1>4. CASE CallEnds(i)
  BY <1>4 DEF CallEnds
<1> QED
  BY <1>2, <1>3, <1>4 DEF CallStep

LEMMA BystanderOrder == OrderInv /\ Bystander => OrderInv'
BY DEF OrderInv, EarlierAnswered, BegunInBatch, LaterUnanswered, AnsweredWhenDone, BatchIsSafe,
       Bystander, driver

LEMMA NextOrder == TypeInv /\ OrderInv /\ [Next]_vars => OrderInv'
BY DriverOrder, ToolShape, CallOrder, CallersShape, BystanderOrder

LEMMA OrderInvariant == Spec => [](TypeInv /\ OrderInv)
BY InitTyped, NextTyped, InitOrder, NextOrder, PTL DEF Spec

-----------------------------------------------------------------------------
(***************************************************************************)
(* What is left when a call is answered.                                   *)
(***************************************************************************)
\* A call that has been created and not begun is queued, or already cancelled.
IdleIsQueued ==
  \A i \in Call : exec[i] = "idle" =>
    status[i] \in Terminal \cup {"Queued"} \/ (at = "create" /\ first <= i)

LeftBehind == EndedIsTerminal /\ SteeredNeverRan /\ IdleIsQueued

LEMMA DriverLeaves == TypeInv /\ OrderInv /\ LeftBehind /\ DriverStep => LeftBehind'
<1> SUFFICES ASSUME TypeInv, OrderInv, LeftBehind, DriverStep PROVE LeftBehind'
  OBVIOUS
<1> USE DEF LeftBehind, EndedIsTerminal, SteeredNeverRan, IdleIsQueued, At, DriverAt
<1>1. CASE CreateTask
  <2>1. first \in Nat /\ status \in [Call -> ToolExecutionState]
    BY Bounds DEF TypeInv, TypeOK
  <2>2. /\ \A i \in Call : outcome[i] = "none"
        /\ UNCHANGED <<exec, outcome>>
    BY <1>1, Bounds
    DEF CreateTask, OrderInv, BegunInBatch, LaterUnanswered, calls, TypeInv, TypeOK
  <2>3. IdleIsQueued'
    BY <1>1, <2>1, <2>2, Bounds DEF CreateTask, IdleIsQueued, Call
  <2> QED
    BY <2>2, <2>3
<1>2. CASE BatchCheck \/ SingleCheck \/ Join
  BY <1>2 DEF BatchCheck, SingleCheck, Join, maps, calls
<1>3. CASE SteerOne
  <2>1. first \in Call
    BY <1>3, Bounds DEF SteerOne, DriverInRound, Call, TypeInv, TypeOK
  <2>2. exec[first] = "idle" /\ UNCHANGED exec
    BY <1>3, <2>1 DEF SteerOne, OrderInv, BegunInBatch, Call
  <2> QED
    BY <1>3, <2>1, <2>2 DEF SteerOne, TypeInv, TypeOK, Terminal
<1> QED
  BY <1>1, <1>2, <1>3 DEF DriverStep

LEMMA CallLeaves ==
  \A i \in Call : TypeInv /\ OrderInv /\ LeftBehind /\ CallStep(i) => LeftBehind'
<1> SUFFICES ASSUME NEW i \in Call, TypeInv, OrderInv, LeftBehind, CallStep(i)
             PROVE  LeftBehind'
  OBVIOUS
<1>0. outcome \in [Call -> {"none", "Ok", "Err", "Steered"}]
  BY DEF TypeInv, TypeOK
<1>1. outcome[i] = "none"
  BY Bounds
  DEF CallStep, CallBegins, CallGoesOn, CallEnds, Polled, At, DriverAt, OrderInv,
      LaterUnanswered, AnsweredWhenDone, Call, TypeInv, TypeOK
<1>2. CASE UNCHANGED outcome
  BY <1>1, <1>2
  DEF CallStep, CallBegins, CallGoesOn, CallEnds, LeftBehind, EndedIsTerminal,
      SteeredNeverRan, IdleIsQueued, At, driver
<1>3. CASE CallEnds(i)
  <2>1. exec'[i] = "done" /\ UNCHANGED driver
    BY <1>3 DEF CallStep, CallEnds
  <2>2. IdleIsQueued'
    BY <2>1 DEF LeftBehind, CallStep, IdleIsQueued, driver
  <2>3. EndedIsTerminal'
    BY <1>0, <1>3
    DEF CallStep, CallEnds, LeftBehind, EndedIsTerminal, IdleIsQueued, Polled, DriverAt, At
  <2>4. SteeredNeverRan'
    BY <1>0, <1>3 DEF CallStep, CallEnds, LeftBehind, SteeredNeverRan, At
  <2> QED
    BY <2>2, <2>3, <2>4 DEF LeftBehind
<1> QED
  BY <1>2, <1>3 DEF CallStep, CallBegins, CallGoesOn

LEMMA BystanderLeaves == LeftBehind /\ Bystander => LeftBehind'
BY DEF LeftBehind, EndedIsTerminal, SteeredNeverRan, IdleIsQueued, Bystander, Terminal, At,
       driver

LEMMA AlwaysLeft == Spec => []LeftBehind
<1>1. Init => LeftBehind
  BY Bounds DEF Init, LeftBehind, EndedIsTerminal, SteeredNeverRan, IdleIsQueued, Call
<1>2. TypeInv /\ OrderInv /\ LeftBehind /\ [Next]_vars => LeftBehind'
  BY DriverLeaves, ToolShape, CallLeaves, CallersShape, BystanderLeaves
<1> QED
  BY <1>1, <1>2, OrderInvariant, PTL DEF Spec

\* A call of a known tool that has its result is in a final state and stays in
\* one: late rejects and cancels write nothing but Cancelled, and the driver
\* and the call itself write no more.
THEOREM EndsInFinalState == Spec => []EndedIsTerminal
<1>1. LeftBehind => EndedIsTerminal
  BY DEF LeftBehind
<1> QED
  BY <1>1, AlwaysLeft, PTL

\* A call that execute_tools answers as interrupted by steering was never
\* started and never will be.
THEOREM SteeredHasNoEffect == Spec => []SteeredNeverRan
<1>1. LeftBehind => SteeredNeverRan
  BY DEF LeftBehind
<1> QED
  BY <1>1, AlwaysLeft, PTL

-----------------------------------------------------------------------------
(***************************************************************************)
(* The refinement: a call that begins maps to Begin, one that ends or is   *)
(* steered to Answer, everything else to a stutter.                        *)
(***************************************************************************)
AbstractStage == [i \in Call |-> Stage(i)]

LEMMA DriverRefines ==
  TypeInv /\ OrderInv /\ DriverStep =>
    UNCHANGED AbstractStage \/ \E i \in Call : Ordered!Answer(i)
<1> SUFFICES ASSUME TypeInv, OrderInv, DriverStep
             PROVE  UNCHANGED AbstractStage \/ \E i \in Call : Ordered!Answer(i)
  OBVIOUS
<1>1. CASE CreateTask \/ BatchCheck \/ SingleCheck \/ Join
  BY <1>1 DEF CreateTask, BatchCheck, SingleCheck, Join, AbstractStage, Stage, At, calls
<1>2. CASE SteerOne
  <2>1. first \in Call /\ at = "steer"
    BY <1>2, Bounds DEF SteerOne, DriverAt, DriverInRound, Call, TypeInv, TypeOK
  <2>2. exec[first] = "idle" /\ UNCHANGED exec
    BY <1>2, <2>1 DEF SteerOne, OrderInv, BegunInBatch, Call
  <2>3. outcome[first] = "none"
    BY <2>1, <2>2 DEF OrderInv, LaterUnanswered, Call
  <2>4. /\ outcome'[first] = "Steered"
        /\ \A i \in Call \ {first} : outcome'[i] = outcome[i]
    BY <1>2, <2>1 DEF SteerOne, TypeInv, TypeOK
  <2>5. Ordered!Answer(first)
    BY <2>1, <2>2, <2>3, <2>4 DEF Ordered!Answer, Stage, At
  <2> QED
    BY <2>1, <2>5
<1> QED
  BY <1>1, <1>2 DEF DriverStep

LEMMA CallRefines ==
  \A i \in Call : TypeInv /\ OrderInv /\ CallStep(i) =>
    UNCHANGED AbstractStage \/ Ordered!Begin(i) \/ Ordered!Answer(i)
<1> SUFFICES ASSUME NEW i \in Call, TypeInv, OrderInv, CallStep(i)
             PROVE  UNCHANGED AbstractStage \/ Ordered!Begin(i) \/ Ordered!Answer(i)
  OBVIOUS
<1>0. /\ outcome \in [Call -> {"none", "Ok", "Err", "Steered"}]
      /\ first \in Nat /\ last \in Nat
      /\ \A k \in Call \ {i} : exec'[k] = exec[k]
  BY Bounds DEF TypeInv, TypeOK, CallStep
<1>1. outcome[i] = "none"
  BY Bounds
  DEF CallStep, CallBegins, CallGoesOn, CallEnds, Polled, At, DriverAt, OrderInv,
      LaterUnanswered, AnsweredWhenDone, Call, TypeInv, TypeOK
<1>2. CASE CallBegins(i)
  <2>1. /\ at = "join" /\ first <= i /\ i <= last
        /\ exec[i] = "idle" /\ exec'[i] # "idle" /\ UNCHANGED outcome
    BY <1>2, <1>0 DEF CallBegins, Polled, DriverAt, At, Call
  <2>2. ASSUME NEW j \in 1 .. (i - 1), Ordered!Conflict(j, i) PROVE Stage(j) = "answered"
    <3>1. j \in Call /\ j \in Nat /\ i \in Nat /\ j < i
      BY Bounds DEF Call
    <3>2. PICK k \in j .. i : k \notin Safe
      BY <2>2 DEF Ordered!Conflict
    <3>3. j < first
      BY <1>0, <2>1, <3>1, <3>2 DEF OrderInv, BatchIsSafe
    <3> QED
      BY <2>1, <3>1, <3>3 DEF OrderInv, EarlierAnswered, Stage
  <2>3. Stage(i) = "waiting" /\ Stage(i)' = "running"
    BY <1>1, <2>1 DEF Stage, At
  <2>4. \A k \in Call \ {i} : Stage(k)' = Stage(k)
    BY <1>0, <2>1 DEF Stage, At
  <2>5. \A j \in 1 .. (i - 1) : j \in Call
    BY Bounds DEF Call
  <2>6. Ordered!Begin(i)
    BY <2>2, <2>3, <2>4, <2>5 DEF Ordered!Begin
  <2> QED
    BY <2>6
<1>3. CASE CallGoesOn(i)
  BY <1>0, <1>3 DEF CallGoesOn, AbstractStage, Stage, At
<1>4. CASE CallEnds(i)
  <2>1. Stage(i) \in {"waiting", "running"} /\ Stage(i)' = "answered"
    BY <1>0, <1>1, <1>4 DEF CallEnds, Stage, At
  <2>2. \A k \in Call \ {i} : Stage(k)' = Stage(k)
    BY <1>0, <1>4 DEF CallEnds, Stage, At
  <2>3. Ordered!Answer(i)
    BY <2>1, <2>2 DEF Ordered!Answer
  <2> QED
    BY <2>3
<1> QED
  BY <1>2, <1>3, <1>4 DEF CallStep

LEMMA BystanderRefines == Bystander => UNCHANGED AbstractStage
BY DEF Bystander, AbstractStage, Stage, At

\* execute_tools respects "write-after-read dependencies" for every round and
\* every choice of safe calls, with and without allow_parallel: a call begins
\* only when every call it conflicts with before it has been answered.
THEOREM ImplementsOrder == Spec => CallsAreOrdered
<1>1. Init => Ordered!Init
  BY DEF Init, Ordered!Init, Ordered!Call, Call, Stage, At
<1>2. TypeInv /\ OrderInv /\ [Next]_vars => [Ordered!Next]_AbstractStage
  <2> SUFFICES ASSUME TypeInv, OrderInv, [Next]_vars PROVE [Ordered!Next]_AbstractStage
    OBVIOUS
  <2>1. CASE DriverStep
    BY <2>1, DriverRefines DEF Ordered!Next, Ordered!Call, Call
  <2>2. ASSUME NEW i \in Call, ToolStep(i) PROVE [Ordered!Next]_AbstractStage
    BY <2>2, ToolShape, CallRefines DEF Ordered!Next, Ordered!Call, Call
  <2>3. CASE ~DriverStep /\ \A i \in Call : ~ToolStep(i)
    BY <2>3, CallersShape, BystanderRefines
  <2> QED
    BY <2>1, <2>2, <2>3
<1> QED
  BY <1>1, <1>2, OrderInvariant, PTL DEF Spec, CallsAreOrdered, Ordered!Spec, AbstractStage
=============================================================================
