-------------------------- MODULE SubagentProofs ---------------------------
(***************************************************************************)
(* Subagents for any calls, limits and timeouts: the types, that what runs *)
(* holds its permits or is aborted, that a call leaves nothing behind, and *)
(* that its session and the record of its turn end as they should.         *)
(***************************************************************************)
EXTENDS Subagents, SequenceTheorems, TLAPS

(***************************************************************************)
(* Types.  A call chooses a limiter with the cap it has read, and keeps it *)
(* while it waits and runs.                                                *)
(***************************************************************************)
Chosen == {"global", "permitted", "created", "starting"} \cup Armed

LimitersKnown ==
  \A c \in Call : /\ at[c] = "choosing" => want[c] \in GlobalCaps
                  /\ at[c] \in Chosen => mine[c] \in GlobalLimiter

TypeInv == TypeOK /\ LimitersKnown

LEMMA Parameters ==
  /\ Background \subseteq Call /\ Timed \subseteq Call
  /\ ProfileCaps \subseteq Nat \ {0} /\ GlobalCaps \subseteq Nat \ {0}
  /\ None \notin Call /\ None \notin GlobalCaps /\ None \notin GlobalLimiter
BY SubagentAssumption DEF GlobalLimiter

LEMMA InitTyped == Init => TypeInv
<1> SUFFICES ASSUME Init PROVE TypeInv
  OBVIOUS
<1>1. waiters \in [Limiter -> Seq(Call)]
  BY DEF Init
<1> QED
  BY <1>1 DEF Init, TypeInv, TypeOK, LimitersKnown, Chosen, Armed, Early, Queued

\* Who leaves a queue leaves a queue.
LEMMA WithoutTyped ==
  ASSUME NEW queue \in Seq(Call), NEW c \in Call
  PROVE  Without(queue, c) \in Seq(Call)
<1>1. CASE \E i \in DOMAIN queue : queue[i] = c
  <2> DEFINE k == CHOOSE i \in DOMAIN queue : queue[i] = c
  <2>1. k \in 1 .. Len(queue)
    BY <1>1
  <2>2. Without(queue, c) = SubSeq(queue, 1, k - 1) \o SubSeq(queue, k + 1, Len(queue))
    BY <1>1 DEF Without, RemoveAt
  <2> HIDE DEF k
  <2>3. SubSeq(queue, 1, k - 1) \in Seq(Call)
    BY <2>1, SubSeqProperties
  <2>4. SubSeq(queue, k + 1, Len(queue)) \in Seq(Call)
    BY <2>1, SubSeqProperties
  <2> QED
    BY <2>2, <2>3, <2>4
<1> QED
  BY <1>1 DEF Without

\* A call that returns gives back all it has of the limiters.
LEMMA ReturnsTyped ==
  ASSUME TypeInv, NEW c \in Call, Returns(c)
  PROVE  /\ at' = [at EXCEPT ![c] = "over"]
         /\ at' \in [Call -> Early \cup Armed \cup {"idle", "over"}]
         /\ profile' = profile /\ current' = current
         /\ want' \in [Call -> GlobalCaps \cup {None}]
         /\ mine' \in [Call -> GlobalLimiter \cup {None}]
         /\ waiters' \in [Limiter -> Seq(Call)] /\ holders' \in [Limiter -> SUBSET Call]
         /\ deadline' \in [Call -> {"none", "ahead", "past"}]
         /\ outcome' \in [Call -> Outcome \cup {None}]
         /\ LimitersKnown'
<1>1. /\ at' = [at EXCEPT ![c] = "over"]
      /\ want' = [want EXCEPT ![c] = None] /\ mine' = [mine EXCEPT ![c] = None]
      /\ profile' = profile /\ current' = current
      /\ deadline' = [deadline EXCEPT ![c] = "none"]
      /\ outcome' = [outcome EXCEPT ![c] = None]
      /\ waiters' = [l \in Limiter |-> Without(waiters[l], c)]
      /\ holders' = [l \in Limiter |-> holders[l] \ {c}]
  BY DEF Returns, Releases, Unread, Goes
<1>2. waiters' \in [Limiter -> Seq(Call)]
  <2>1. \A l \in Limiter : Without(waiters[l], c) \in Seq(Call)
    BY WithoutTyped DEF TypeInv, TypeOK
  <2> QED
    BY <1>1, <2>1
<1>3. LimitersKnown'
  BY <1>1 DEF TypeInv, TypeOK, LimitersKnown, Chosen, Armed
<1> QED
  BY <1>1, <1>2, <1>3 DEF TypeInv, TypeOK

\* Joining a queue, and going from it to the holders.
LEMMA JoinTyped ==
  ASSUME TypeInv, NEW c \in Call, NEW l
  PROVE  [waiters EXCEPT ![l] = Append(@, c)] \in [Limiter -> Seq(Call)]
<1>1. \A k \in Limiter : waiters[k] \in Seq(Call) /\ Append(waiters[k], c) \in Seq(Call)
  BY DEF TypeInv, TypeOK
<1> QED
  BY <1>1 DEF TypeInv, TypeOK

LEMMA AcquiresTyped ==
  ASSUME TypeInv, NEW c \in Call, NEW l \in Limiter, Acquires(c, l)
  PROVE  waiters' \in [Limiter -> Seq(Call)] /\ holders' \in [Limiter -> SUBSET Call]
<1>1. waiters[l] \in Seq(Call) /\ waiters[l] # <<>>
  BY DEF Acquires, TypeInv, TypeOK
<1>2. Tail(waiters[l]) \in Seq(Call)
  BY <1>1
<1> QED
  BY <1>2 DEF Acquires, TypeInv, TypeOK

LEMMA QueueTyped ==
  ASSUME TypeInv, NEW c \in Call,
         \/ Begin(c) \/ AcquireProfile(c) \/ ChooseLimiter(c) \/ AcquireGlobal(c) \/ LeaveQueue(c)
  PROVE  TypeInv'
<1>1. CASE Begin(c) /\ CallerCancelled(c)
  <2>1. Returns(c)
    BY <1>1 DEF Begin
  <2> QED
    BY <1>1, <2>1, ReturnsTyped DEF Begin, TypeInv, TypeOK, running, turn, cancels
<1>2. CASE Begin(c) /\ ~CallerCancelled(c)
  <2>1. /\ at' = [at EXCEPT ![c] = "profile"]
        /\ deadline' \in [Call -> {"none", "ahead", "past"}]
        /\ waiters' \in [Limiter -> Seq(Call)]
    <3>1. /\ at' = [at EXCEPT ![c] = "profile"]
          /\ waiters' = [waiters EXCEPT ![<<"profile", profile[c]>>] = Append(@, c)]
      BY <1>2 DEF Begin, Goes
    <3>2. PICK d \in {"none", "ahead"} : deadline' = [deadline EXCEPT ![c] = d]
      BY <1>2 DEF Begin
    <3> QED
      BY <3>1, <3>2, JoinTyped DEF TypeInv, TypeOK
  <2>2. LimitersKnown'
    BY <1>2, <2>1 DEF Begin, TypeInv, TypeOK, LimitersKnown, Chosen, Armed
  <2> QED
    BY <1>2, <2>1, <2>2 DEF Begin, TypeInv, TypeOK, running, turn, cancels, Early, Queued
<1>3. CASE AcquireProfile(c)
  <2>1. PICK cap \in GlobalCaps : want' = [want EXCEPT ![c] = cap]
    BY <1>3 DEF AcquireProfile
  <2>2. /\ at' = [at EXCEPT ![c] = "choosing"]
        /\ waiters' \in [Limiter -> Seq(Call)] /\ holders' \in [Limiter -> SUBSET Call]
    <3>1. <<"profile", profile[c]>> \in Limiter
      BY DEF Limiter, ProfileLimiter, TypeInv, TypeOK
    <3> QED
      BY <1>3, <3>1, AcquiresTyped DEF AcquireProfile, Goes
  <2>3. LimitersKnown'
    BY <1>3, <2>1, <2>2 DEF AcquireProfile, TypeInv, TypeOK, LimitersKnown, Chosen, Armed
  <2> QED
    BY <1>3, <2>1, <2>2, <2>3
    DEF AcquireProfile, TypeInv, TypeOK, running, turn, cancels, Early, Queued
<1>4. CASE ChooseLimiter(c)
  <2>1. current' \in GlobalLimiter
    BY <1>4, Parameters DEF ChooseLimiter, TypeInv, TypeOK, LimitersKnown, GlobalLimiter
  <2>2. /\ at' = [at EXCEPT ![c] = "global"]
        /\ mine' = [mine EXCEPT ![c] = current'] /\ want' = [want EXCEPT ![c] = None]
        /\ waiters' \in [Limiter -> Seq(Call)]
    BY <1>4, JoinTyped DEF ChooseLimiter, Goes
  <2>3. LimitersKnown'
    BY <2>1, <2>2 DEF TypeInv, TypeOK, LimitersKnown, Chosen, Armed
  <2> QED
    BY <1>4, <2>1, <2>2, <2>3
    DEF ChooseLimiter, TypeInv, TypeOK, running, turn, cancels, Early, Queued
<1>5. CASE AcquireGlobal(c)
  <2>1. /\ at' = [at EXCEPT ![c] = "permitted"]
        /\ waiters' \in [Limiter -> Seq(Call)] /\ holders' \in [Limiter -> SUBSET Call]
    <3>1. mine[c] \in Limiter
      BY <1>5 DEF AcquireGlobal, Limiter, TypeInv, LimitersKnown, Chosen
    <3> QED
      BY <1>5, <3>1, AcquiresTyped DEF AcquireGlobal, Goes
  <2>2. LimitersKnown'
    BY <1>5, <2>1 DEF AcquireGlobal, TypeInv, TypeOK, LimitersKnown, Chosen, Armed
  <2> QED
    BY <1>5, <2>1, <2>2
    DEF AcquireGlobal, TypeInv, TypeOK, running, turn, cancels, Early, Queued
<1>6. CASE LeaveQueue(c)
  <2>1. Returns(c)
    BY <1>6 DEF LeaveQueue
  <2> QED
    BY <1>6, <2>1, ReturnsTyped DEF LeaveQueue, TypeInv, TypeOK, running, turn, cancels
<1> QED
  BY <1>1, <1>2, <1>3, <1>4, <1>5, <1>6

LEMMA StartTyped ==
  ASSUME TypeInv, NEW c \in Call,
         CreateSession(c) \/ StartTurn(c) \/ Launch(c) \/ Finish(c) \/ Drop(c)
  PROVE  TypeInv'
<1>1. /\ session' \in [Call -> {"none", "free", "processing"}]
      /\ task' \in [Call -> {"none", "running", "gone"} \cup Ended]
      /\ active' \subseteq Call /\ stopped' \subseteq Call
      /\ aborted' \subseteq Call /\ orphans' \subseteq Call
  <2>1. session' \in [Call -> {"none", "free", "processing"}]
    BY DEF CreateSession, StartTurn, Launch, Finish, Drop, TypeInv, TypeOK, turn
  <2>2. task' \in [Call -> {"none", "running", "gone"} \cup Ended]
    BY DEF CreateSession, StartTurn, Launch, Finish, Drop, TypeInv, TypeOK, running
  <2>3. /\ active' \subseteq Call /\ stopped' \subseteq Call
        /\ aborted' \subseteq Call /\ orphans' \subseteq Call
    BY DEF CreateSession, StartTurn, Launch, Finish, Drop, TypeInv, TypeOK, running
  <2> QED
    BY <2>1, <2>2, <2>3
<1>2. /\ record' = record /\ parentOver' = parentOver /\ parentCancelled' = parentCancelled
      /\ toolCancelled' = toolCancelled /\ cancelAt' = cancelAt /\ stop' = stop
  BY DEF CreateSession, StartTurn, Launch, Finish, Drop, turn, cancels
<1>3. CASE Returns(c)
  BY <1>1, <1>2, <1>3, ReturnsTyped DEF TypeInv, TypeOK
<1>4. CASE ~Returns(c)
  <2>1. PICK where \in {"created", "starting", "running"} :
          /\ at' = [at EXCEPT ![c] = where] /\ at[c] \in {"permitted", "created", "starting"}
          /\ UNCHANGED <<permits, deadline, outcome>>
    BY <1>4 DEF CreateSession, StartTurn, Launch, Finish, Drop, Goes
  <2>2. LimitersKnown'
    BY <2>1 DEF permits, TypeInv, TypeOK, LimitersKnown, Chosen, Armed
  <2> QED
    BY <1>1, <1>2, <2>1, <2>2 DEF permits, TypeInv, TypeOK, Early, Armed
<1> QED
  BY <1>3, <1>4

LEMMA WaitTyped ==
  ASSUME TypeInv, NEW c \in Call,
         Completed(c) \/ NoticeCancel(c) \/ NoticeDeadline(c) \/ Grace(c) \/ Settle(c)
  PROVE  TypeInv'
<1>1. PICK where \in Armed \ {"running"} :
        at' = [at EXCEPT ![c] = where] /\ at[c] \in Armed
  BY DEF Completed, NoticeCancel, NoticeDeadline, Grace, Settle, Goes, Armed
<1>2. UNCHANGED <<permits, active, orphans, parentOver, parentCancelled, toolCancelled, cancelAt, stop>>
  BY DEF Completed, NoticeCancel, NoticeDeadline, Grace, Settle, Stops, running, cancels
<1>3. /\ deadline' \in [Call -> {"none", "ahead", "past"}]
      /\ outcome' \in [Call -> Outcome \cup {None}]
  <2>1. deadline' \in [Call -> {"none", "ahead", "past"}]
    BY DEF Completed, NoticeCancel, NoticeDeadline, Grace, Settle, Unread, TypeInv, TypeOK
  <2>2. outcome' = outcome \/ \E r \in Outcome : outcome' = [outcome EXCEPT ![c] = r]
    BY DEF Completed, NoticeCancel, NoticeDeadline, Grace, Settle, Stops, Verdict, Outcome
  <2> QED
    BY <2>1, <2>2 DEF TypeInv, TypeOK
<1>4. /\ session' \in [Call -> {"none", "free", "processing"}]
      /\ record' \in [Call -> {None, "completed", "cancelled", "error"}]
  BY DEF Completed, NoticeCancel, NoticeDeadline, Grace, Settle, Stops, Frees, RecordOf,
         TypeInv, TypeOK, turn
<1>5. /\ task' \in [Call -> {"none", "running", "gone"} \cup Ended]
      /\ stopped' \subseteq Call /\ aborted' \subseteq Call
  BY DEF Completed, NoticeCancel, NoticeDeadline, Grace, Settle, Stops, Joins,
         TypeInv, TypeOK, running
<1>6. LimitersKnown'
  BY <1>1, <1>2 DEF permits, TypeInv, TypeOK, LimitersKnown, Chosen, Armed
<1> QED
  BY <1>1, <1>2, <1>3, <1>4, <1>5, <1>6 DEF permits, TypeInv, TypeOK

\* Nobody else moves a call or its permits.
LEMMA OutsideTyped ==
  ASSUME TypeInv, NEW c \in Call,
         \/ OrphanCleanup(c) \/ StopExecution(c) \/ SettleStopped(c) \/ TaskEnds(c)
         \/ CancelTool(c) \/ DeadlinePasses(c) \/ AdjustTimeout(c)
         \/ ListActive \/ CancelParent \/ ParentEnds
  PROVE  TypeInv' /\ at' = at /\ permits' = permits
<1>1. at' = at /\ permits' = permits /\ outcome' = outcome
  BY DEF OrphanCleanup, StopExecution, SettleStopped, TaskEnds, CancelTool, DeadlinePasses,
         AdjustTimeout, ListActive, CancelParent, ParentEnds
<1>2. deadline' \in [Call -> {"none", "ahead", "past"}]
  BY DEF OrphanCleanup, StopExecution, SettleStopped, TaskEnds, CancelTool, DeadlinePasses,
         AdjustTimeout, ListActive, CancelParent, ParentEnds, TypeInv, TypeOK
<1>3. /\ session' \in [Call -> {"none", "free", "processing"}]
      /\ record' \in [Call -> {None, "completed", "cancelled", "error"}]
  <2>1. CASE OrphanCleanup(c) \/ SettleStopped(c)
    BY <2>1 DEF OrphanCleanup, SettleStopped, Frees, TypeInv, TypeOK
  <2>2. CASE ~(OrphanCleanup(c) \/ SettleStopped(c))
    BY <2>2 DEF StopExecution, TaskEnds, CancelTool, DeadlinePasses, AdjustTimeout,
                ListActive, CancelParent, ParentEnds, TypeInv, TypeOK, turn
  <2> QED
    BY <2>1, <2>2
<1>4. /\ task' \in [Call -> {"none", "running", "gone"} \cup Ended]
      /\ active' \subseteq Call /\ stopped' \subseteq Call
      /\ aborted' \subseteq Call /\ orphans' \subseteq Call
  <2>1. CASE TaskEnds(c)
    <3>1. PICK t \in Ended \cup {"gone"} : task' = [task EXCEPT ![c] = t]
      BY <2>1 DEF TaskEnds
    <3> QED
      BY <2>1, <3>1 DEF TaskEnds, TypeInv, TypeOK
  <2>2. CASE ~TaskEnds(c)
    BY <2>2
    DEF OrphanCleanup, StopExecution, SettleStopped, CancelTool, DeadlinePasses, AdjustTimeout,
        ListActive, CancelParent, ParentEnds, TypeInv, TypeOK, running
  <2> QED
    BY <2>1, <2>2
<1>5. /\ parentOver' \in BOOLEAN /\ parentCancelled' \in BOOLEAN
      /\ toolCancelled' \subseteq Call \ Background
      /\ cancelAt' \in {"none", "tools", "listed"}
      /\ stop' \in [Call -> {"none", "listed", "triggered"}]
  BY DEF OrphanCleanup, StopExecution, SettleStopped, TaskEnds, CancelTool, DeadlinePasses,
         AdjustTimeout, ListActive, CancelParent, ParentEnds, InTool, TypeInv, TypeOK, cancels
<1>6. LimitersKnown'
  BY <1>1 DEF permits, TypeInv, LimitersKnown
<1> QED
  BY <1>1, <1>2, <1>3, <1>4, <1>5, <1>6 DEF permits, TypeInv, TypeOK

\* Every step of Next is one of these.
LEMMA NextTyped == TypeInv /\ [Next]_vars => TypeInv'
<1> SUFFICES ASSUME TypeInv, [Next]_vars PROVE TypeInv'
  OBVIOUS
<1>1. CASE UNCHANGED vars
  BY <1>1 DEF vars, permits, running, turn, cancels, TypeInv, TypeOK, LimitersKnown
<1>2. ASSUME NEW c \in Call, CallStep(c) \/ Begin(c) PROVE TypeInv'
  BY <1>2, QueueTyped, StartTyped, WaitTyped DEF CallStep
<1>3. ASSUME NEW c \in Call, Spawned(c) \/ TaskEnds(c) \/ (Outside(c) /\ ~Begin(c))
      PROVE  TypeInv'
  BY <1>3, OutsideTyped DEF Spawned, Outside
<1>4. CASE ListActive \/ CancelParent \/ ParentEnds
  <2>1. CASE Call = {}
    BY <1>4, <2>1
    DEF ListActive, CancelParent, ParentEnds, permits, running, turn, cancels, InTool,
        TypeInv, TypeOK, LimitersKnown
  <2>2. CASE Call # {}
    BY <1>4, <2>2, OutsideTyped
  <2> QED
    BY <2>1, <2>2
<1> QED
  BY <1>1, <1>2, <1>3, <1>4 DEF Next, Outside

LEMMA AlwaysTyped == Spec => []TypeInv
BY InitTyped, NextTyped, PTL DEF Spec

\* The state keeps its types: a call that waits at or runs under a limiter has one.
THEOREM TypesCorrect == Spec => []TypeOK
BY AlwaysTyped, PTL DEF TypeInv

-----------------------------------------------------------------------------
(***************************************************************************)
(* Permits.  A call holds what it has acquired until its future is gone,   *)
(* and an execution runs only for a call that waits for it, unless it has  *)
(* been aborted: nothing else gives a permit back.                         *)
(***************************************************************************)
PastGlobal == Chosen \ {"global"}
PastProfile == Chosen \cup {"choosing"}

PermitsHeld ==
  \A c \in Call : /\ at[c] \in PastProfile => c \in holders[<<"profile", profile[c]>>]
                  /\ at[c] \in PastGlobal => c \in holders[mine[c]]

RunsInsideCall ==
  \A c \in Call : /\ at[c] \notin Armed \cup {"over"} => task[c] = "none"
                  /\ c \in active => at[c] \in Armed
                  /\ task[c] = "running" /\ at[c] \in {"settling", "cleaning", "over"}
                       => c \in aborted

\* What a call does to its place: it returns, moves through a queue, or goes on with
\* what it holds.
LEMMA CallShape ==
  ASSUME NEW c \in Call, CallStep(c) \/ Begin(c)
  PROVE  \/ Returns(c)
         \/ Begin(c) /\ ~CallerCancelled(c)
         \/ AcquireProfile(c) \/ ChooseLimiter(c) \/ AcquireGlobal(c)
         \/ \E where \in PastGlobal : /\ at[c] \in PastGlobal
                                     /\ at' = [at EXCEPT ![c] = where]
                                     /\ permits' = permits
<1>1. CASE Begin(c) \/ LeaveQueue(c) \/ Finish(c) \/ Drop(c)
  BY <1>1 DEF Begin, LeaveQueue, Finish, Drop
<1>2. CASE CreateSession(c) \/ StartTurn(c) \/ Launch(c)
  BY <1>2 DEF CreateSession, StartTurn, Launch, Goes, PastGlobal, Chosen, Armed
<1>3. CASE Completed(c) \/ NoticeCancel(c) \/ NoticeDeadline(c) \/ Grace(c) \/ Settle(c)
  BY <1>3
  DEF Completed, NoticeCancel, NoticeDeadline, Grace, Settle, Stops, Goes, PastGlobal, Chosen, Armed
<1> QED
  BY <1>1, <1>2, <1>3 DEF CallStep

LEMMA PermitsStay ==
  ASSUME TypeInv, PermitsHeld, NEW c \in Call, CallStep(c) \/ Begin(c)
  PROVE  PermitsHeld'
<1>1. /\ at \in [Call -> Early \cup Armed \cup {"idle", "over"}]
      /\ profile \in [Call -> ProfileCaps] /\ mine \in [Call -> GlobalLimiter \cup {None}]
      /\ holders \in [Limiter -> SUBSET Call]
      /\ \A d \in Call : /\ <<"profile", profile[d]>> \in Limiter
                         /\ at[d] \in Chosen => mine[d] \in Limiter
  BY DEF TypeInv, TypeOK, LimitersKnown, Limiter, ProfileLimiter
<1>2. CASE Returns(c)
  <2>1. /\ at' = [at EXCEPT ![c] = "over"] /\ profile' = profile
        /\ mine' = [mine EXCEPT ![c] = None]
        /\ holders' = [l \in Limiter |-> holders[l] \ {c}]
    BY <1>2 DEF Returns, Releases, Goes
  <2> QED
    BY <1>1, <2>1 DEF PermitsHeld, PastGlobal, PastProfile, Chosen, Armed
<1>3. CASE Begin(c) /\ ~CallerCancelled(c)
  <2>1. at' = [at EXCEPT ![c] = "profile"] /\ UNCHANGED <<profile, mine, holders>>
    BY <1>3 DEF Begin, Goes
  <2> QED
    BY <1>1, <2>1 DEF PermitsHeld, PastGlobal, PastProfile, Chosen, Armed
<1>4. CASE AcquireProfile(c)
  <2>1. /\ at' = [at EXCEPT ![c] = "choosing"] /\ UNCHANGED <<profile, mine>>
        /\ holders' = [holders EXCEPT ![<<"profile", profile[c]>>] = @ \cup {c}]
    BY <1>4 DEF AcquireProfile, Acquires, Goes
  <2> QED
    BY <1>1, <2>1 DEF PermitsHeld, PastGlobal, PastProfile, Chosen, Armed
<1>5. CASE ChooseLimiter(c)
  <2>1. /\ at[c] = "choosing" /\ at' = [at EXCEPT ![c] = "global"]
        /\ UNCHANGED <<profile, holders>> /\ mine' = [mine EXCEPT ![c] = current']
    BY <1>5 DEF ChooseLimiter, Goes
  <2> QED
    BY <1>1, <2>1 DEF PermitsHeld, PastGlobal, PastProfile, Chosen, Armed
<1>6. CASE AcquireGlobal(c)
  <2>1. /\ at[c] = "global" /\ at' = [at EXCEPT ![c] = "permitted"]
        /\ UNCHANGED <<profile, mine>>
        /\ holders' = [holders EXCEPT ![mine[c]] = @ \cup {c}]
    BY <1>6 DEF AcquireGlobal, Acquires, Goes
  <2> QED
    BY <1>1, <2>1 DEF PermitsHeld, PastGlobal, PastProfile, Chosen, Armed
<1>7. ASSUME NEW where \in PastGlobal, at[c] \in PastGlobal,
             at' = [at EXCEPT ![c] = where], permits' = permits
      PROVE  PermitsHeld'
  BY <1>1, <1>7 DEF permits, PermitsHeld, PastGlobal, PastProfile, Chosen, Armed
<1> QED
  BY <1>2, <1>3, <1>4, <1>5, <1>6, <1>7, CallShape

\* A call that is over has given back everything, and gets nothing more.
LEMMA OverHoldsNothing ==
  ASSUME TypeInv, NothingLeft, NEW c \in Call, CallStep(c) \/ Begin(c),
         NEW d \in Call, at'[d] = "over", NEW l \in Limiter
  PROVE  d \notin holders'[l]
<1>1. at \in [Call -> Early \cup Armed \cup {"idle", "over"}] /\ holders \in [Limiter -> SUBSET Call]
  BY DEF TypeInv, TypeOK
<1>2. CASE Returns(c)
  BY <1>1, <1>2 DEF Returns, Releases, Goes, NothingLeft, Over
<1>3. CASE (Begin(c) /\ ~CallerCancelled(c)) \/ AcquireProfile(c) \/ ChooseLimiter(c) \/ AcquireGlobal(c)
  <2>1. /\ at[d] = "over" /\ d # c
        /\ holders'[l] = holders[l] \/ holders'[l] = holders[l] \cup {c}
    BY <1>1, <1>3
    DEF Begin, AcquireProfile, ChooseLimiter, AcquireGlobal, Acquires, Goes
  <2> QED
    BY <2>1 DEF NothingLeft, Over
<1>4. ASSUME NEW where \in PastGlobal, at' = [at EXCEPT ![c] = where], permits' = permits
      PROVE  d \notin holders'[l]
  BY <1>1, <1>4 DEF permits, NothingLeft, Over, PastGlobal, Chosen, Armed
<1> QED
  BY <1>2, <1>3, <1>4, CallShape

-----------------------------------------------------------------------------
(***************************************************************************)
(* Executions.  The call that launched an execution joins it, aborts it,   *)
(* or is dropped with the scope that aborts it.                            *)
(***************************************************************************)
LEMMA EarlyStep ==
  ASSUME TypeInv, RunsInsideCall, NEW c \in Call,
         \/ Begin(c) \/ AcquireProfile(c) \/ ChooseLimiter(c) \/ AcquireGlobal(c) \/ LeaveQueue(c)
         \/ CreateSession(c) \/ StartTurn(c) \/ Launch(c)
  PROVE  RunsInsideCall'
<1>1. /\ at \in [Call -> Early \cup Armed \cup {"idle", "over"}]
      /\ task \in [Call -> {"none", "running", "gone"} \cup Ended] /\ active \subseteq Call
  BY DEF TypeInv, TypeOK
<1>2. /\ at[c] \in Early \cup {"idle"}
      /\ at' = [at EXCEPT ![c] = at'[c]] /\ aborted' = aborted
  BY <1>1
  DEF Begin, AcquireProfile, ChooseLimiter, AcquireGlobal, LeaveQueue, CreateSession, StartTurn,
      Launch, Returns, Goes, running, Early, Queued
<1>3. CASE at'[c] = "running" /\ task' = [task EXCEPT ![c] = "running"] /\ active' = active \cup {c}
  BY <1>1, <1>2, <1>3 DEF RunsInsideCall, Early, Queued, Armed
<1>4. CASE at'[c] \in Early \cup {"over"} /\ task' = task /\ active' = active
  BY <1>1, <1>2, <1>4 DEF RunsInsideCall, Early, Queued, Armed
<1>5. CASE Launch(c)
  BY <1>1, <1>3, <1>4, <1>5 DEF Launch, Returns, Goes
<1>6. CASE ~Launch(c)
  BY <1>1, <1>4, <1>6
  DEF Begin, AcquireProfile, ChooseLimiter, AcquireGlobal, LeaveQueue, CreateSession, StartTurn,
      Returns, Goes, running, Early, Queued
<1> QED
  BY <1>5, <1>6

LEMMA ArmedStep ==
  ASSUME TypeInv, RunsInsideCall, NEW c \in Call,
         \/ Completed(c) \/ NoticeCancel(c) \/ NoticeDeadline(c) \/ Grace(c)
         \/ Settle(c) \/ Finish(c) \/ Drop(c)
  PROVE  RunsInsideCall'
<1>1. /\ at \in [Call -> Early \cup Armed \cup {"idle", "over"}]
      /\ task \in [Call -> {"none", "running", "gone"} \cup Ended] /\ active \subseteq Call
  BY DEF TypeInv, TypeOK
<1>2. CASE Completed(c) \/ Grace(c)
  <2>1. /\ at[c] \in Armed \ {"settling", "cleaning"} /\ at' = [at EXCEPT ![c] = "settling"]
        /\ task' = [task EXCEPT ![c] = IF @ = "running" THEN @ ELSE "gone"]
        /\ active' = active
        /\ aborted' = aborted \/ aborted' = aborted \cup {c}
        /\ task[c] = "running" => c \in aborted'
    BY <1>2 DEF Completed, Grace, Joins, Goes, Armed, Ended
  <2> QED
    BY <1>1, <2>1 DEF RunsInsideCall, Armed
<1>3. CASE NoticeCancel(c) \/ NoticeDeadline(c) \/ Settle(c)
  <2>1. /\ \/ at[c] = "running" /\ at' \in {[at EXCEPT ![c] = "cancelling"], [at EXCEPT ![c] = "expiring"]}
           \/ at[c] = "settling" /\ at' = [at EXCEPT ![c] = "cleaning"]
        /\ UNCHANGED <<task, active, aborted>>
    BY <1>3 DEF NoticeCancel, NoticeDeadline, Settle, Stops, Goes, running
  <2> QED
    BY <1>1, <2>1 DEF RunsInsideCall, Armed
<1>4. CASE Finish(c)
  <2>1. /\ at[c] = "cleaning" /\ at' = [at EXCEPT ![c] = "over"]
        /\ active' = active \ {c} /\ UNCHANGED <<task, aborted>>
    BY <1>4 DEF Finish, Returns, Goes
  <2> QED
    BY <1>1, <2>1 DEF RunsInsideCall, Armed
<1>5. CASE Drop(c) /\ at[c] \in Armed
  <2>1. /\ at' = [at EXCEPT ![c] = "over"] /\ active' = active \ {c}
        /\ task' = [task EXCEPT ![c] = IF @ = "running" THEN @ ELSE "gone"]
        /\ aborted' = IF task[c] = "running" THEN aborted \cup {c} ELSE aborted
    BY <1>5 DEF Drop, Returns, Goes
  <2> QED
    BY <1>1, <1>5, <2>1 DEF RunsInsideCall, Armed
<1>6. CASE Drop(c) /\ at[c] \notin Armed
  <2>1. /\ at[c] \in Early /\ at' = [at EXCEPT ![c] = "over"] /\ UNCHANGED <<task, active, aborted>>
    BY <1>6 DEF Drop, Returns, Goes
  <2> QED
    BY <1>1, <1>6, <2>1 DEF RunsInsideCall, Early, Queued, Armed
<1> QED
  BY <1>2, <1>3, <1>4, <1>5, <1>6

LEMMA OthersStep ==
  ASSUME TypeInv, RunsInsideCall, NEW c \in Call,
         \/ OrphanCleanup(c) \/ StopExecution(c) \/ SettleStopped(c) \/ TaskEnds(c)
         \/ CancelTool(c) \/ DeadlinePasses(c) \/ AdjustTimeout(c)
         \/ ListActive \/ CancelParent \/ ParentEnds
  PROVE  RunsInsideCall'
<1>1. at' = at
  BY OutsideTyped
<1>2. CASE TaskEnds(c)
  <2>1. PICK t \in Ended \cup {"gone"} : task' = [task EXCEPT ![c] = t]
    BY <1>2 DEF TaskEnds
  <2>2. task[c] = "running" /\ aborted' = aborted \ {c} /\ active' = active
    BY <1>2 DEF TaskEnds
  <2> QED
    BY <1>1, <2>1, <2>2 DEF RunsInsideCall, Ended, TypeInv, TypeOK
<1>3. CASE ~TaskEnds(c)
  <2>1. /\ task' = task /\ (active' = active \/ active' = active \ {c})
        /\ aborted' = aborted \/ aborted' = aborted \cup {c}
    BY <1>3
    DEF OrphanCleanup, StopExecution, SettleStopped, CancelTool, DeadlinePasses, AdjustTimeout,
        ListActive, CancelParent, ParentEnds, running
  <2> QED
    BY <1>1, <2>1 DEF RunsInsideCall
<1> QED
  BY <1>2, <1>3

-----------------------------------------------------------------------------
(***************************************************************************)
(* Sessions and records.  A session becomes Processing before anything     *)
(* runs in it; who settles a turn frees it, and so does the clean-up that  *)
(* a dropped call has ordered.                                             *)
(***************************************************************************)
FreedBeforeCleaning == \A c \in Call : at[c] = "cleaning" => session[c] # "processing"

SessionInv == FreedBeforeCleaning /\ SessionIsFreed

LEMMA SessionByCall ==
  ASSUME TypeInv, RunsInsideCall, SessionInv, NEW c \in Call, CallStep(c) \/ Begin(c)
  PROVE  SessionInv'
<1>1. /\ at \in [Call -> Early \cup Armed \cup {"idle", "over"}]
      /\ session \in [Call -> {"none", "free", "processing"}]
      /\ task \in [Call -> {"none", "running", "gone"} \cup Ended] /\ orphans \subseteq Call
  BY DEF TypeInv, TypeOK
<1>2. CASE Settle(c)
  <2>1. /\ at[c] = "settling" /\ at' = [at EXCEPT ![c] = "cleaning"] /\ UNCHANGED <<task, orphans>>
        /\ session' = [session EXCEPT ![c] = IF @ = "processing" THEN "free" ELSE @]
    BY <1>2 DEF Settle, Frees, Goes, running
  <2> QED
    BY <1>1, <2>1 DEF SessionInv, FreedBeforeCleaning, SessionIsFreed, Over
<1>3. CASE Finish(c)
  <2>1. /\ at[c] = "cleaning" /\ at' = [at EXCEPT ![c] = "over"]
        /\ UNCHANGED <<task, orphans, session>>
    BY <1>3 DEF Finish, Returns, Goes, turn
  <2> QED
    BY <1>1, <2>1 DEF SessionInv, FreedBeforeCleaning, SessionIsFreed, Over
<1>4. CASE Drop(c)
  <2>1. /\ at' = [at EXCEPT ![c] = "over"] /\ session' = session
        /\ \/ at[c] \in Armed /\ orphans' = orphans \cup {c}
              /\ task' = [task EXCEPT ![c] = IF @ = "running" THEN @ ELSE "gone"]
           \/ at[c] \notin Armed /\ UNCHANGED <<task, orphans>> /\ at[c] \in Early
    BY <1>4 DEF Drop, Returns, Goes, turn
  <2>2. at[c] \in Early => task[c] = "none"
    BY DEF RunsInsideCall, Early, Queued, Armed
  <2> QED
    BY <1>1, <2>1, <2>2 DEF SessionInv, FreedBeforeCleaning, SessionIsFreed, Over, Armed
<1>5. CASE Completed(c) \/ NoticeCancel(c) \/ NoticeDeadline(c) \/ Grace(c)
  <2>1. /\ at[c] \in Armed /\ UNCHANGED <<session, orphans>>
        /\ \E where \in {"cancelling", "expiring", "settling"} : at' = [at EXCEPT ![c] = where]
        /\ task' = task \/ task' = [task EXCEPT ![c] = IF @ = "running" THEN @ ELSE "gone"]
    BY <1>5 DEF Completed, NoticeCancel, NoticeDeadline, Grace, Stops, Joins, Goes, Armed, turn
  <2> QED
    BY <1>1, <2>1 DEF SessionInv, FreedBeforeCleaning, SessionIsFreed, Over, Armed
<1>6. CASE \/ Begin(c) \/ AcquireProfile(c) \/ ChooseLimiter(c) \/ AcquireGlobal(c) \/ LeaveQueue(c)
           \/ CreateSession(c) \/ StartTurn(c) \/ Launch(c)
  <2>1. /\ at[c] \in Early \cup {"idle"} /\ orphans' = orphans
        /\ \E where \in Early \cup {"over", "running"} : at' = [at EXCEPT ![c] = where]
        /\ \E state \in {"none", "free", "processing"} : session' = [session EXCEPT ![c] = state]
        /\ \/ task' = task
           \/ task' = [task EXCEPT ![c] = "running"] /\ at' = [at EXCEPT ![c] = "running"]
    BY <1>1, <1>6
    DEF Begin, AcquireProfile, ChooseLimiter, AcquireGlobal, LeaveQueue, CreateSession, StartTurn,
        Launch, Returns, Goes, running, turn, Early, Queued
  <2>2. task[c] = "none"
    BY <2>1 DEF RunsInsideCall, Early, Queued, Armed
  <2> QED
    BY <1>1, <2>1, <2>2 DEF SessionInv, FreedBeforeCleaning, SessionIsFreed, Over, Early, Queued
<1> QED
  BY <1>2, <1>3, <1>4, <1>5, <1>6 DEF CallStep

LEMMA SessionByOthers ==
  ASSUME TypeInv, SessionInv, NEW c \in Call,
         \/ OrphanCleanup(c) \/ StopExecution(c) \/ SettleStopped(c) \/ TaskEnds(c)
         \/ CancelTool(c) \/ DeadlinePasses(c) \/ AdjustTimeout(c)
         \/ ListActive \/ CancelParent \/ ParentEnds
  PROVE  SessionInv'
<1>1. at' = at
  BY OutsideTyped
<1>2. CASE OrphanCleanup(c) \/ SettleStopped(c)
  <2>1. /\ session' = [session EXCEPT ![c] = IF @ = "processing" THEN "free" ELSE @]
        /\ task' = task /\ (orphans' = orphans \/ orphans' = orphans \ {c})
    BY <1>2 DEF OrphanCleanup, SettleStopped, Frees
  <2> QED
    BY <1>1, <2>1 DEF SessionInv, FreedBeforeCleaning, SessionIsFreed, Over, TypeInv, TypeOK
<1>3. CASE TaskEnds(c)
  <2>1. PICK t \in Ended \cup {"gone"} : task' = [task EXCEPT ![c] = t]
    BY <1>3 DEF TaskEnds
  <2>2. task[c] = "running" /\ UNCHANGED <<session, orphans>>
    BY <1>3 DEF TaskEnds, turn
  <2> QED
    BY <1>1, <2>1, <2>2 DEF SessionInv, FreedBeforeCleaning, SessionIsFreed, Over, TypeInv, TypeOK
<1>4. CASE \/ StopExecution(c) \/ CancelTool(c) \/ DeadlinePasses(c) \/ AdjustTimeout(c)
           \/ ListActive \/ CancelParent \/ ParentEnds
  <2>1. UNCHANGED <<session, orphans, task>>
    BY <1>4
    DEF StopExecution, CancelTool, DeadlinePasses, AdjustTimeout, ListActive, CancelParent,
        ParentEnds, turn, running
  <2> QED
    BY <1>1, <2>1 DEF SessionInv, FreedBeforeCleaning, SessionIsFreed, Over
<1> QED
  BY <1>2, <1>3, <1>4

\* Nothing is stopped before the canceller has listed it.
StopsAreListed == \A c \in Call : stop[c] # "none" => cancelAt = "listed"

RecordInv == StopsAreListed /\ RecordAgrees

LEMMA RecordByCall ==
  ASSUME TypeInv, RecordInv, NEW c \in Call, CallStep(c) \/ Begin(c)
  PROVE  RecordInv'
<1>1. /\ at \in [Call -> Early \cup Armed \cup {"idle", "over"}]
      /\ record \in [Call -> {None, "completed", "cancelled", "error"}]
      /\ outcome \in [Call -> Outcome \cup {None}]
  BY DEF TypeInv, TypeOK
<1>2. stop' = stop /\ cancelAt' = cancelAt
  BY DEF CallStep, Begin, AcquireProfile, ChooseLimiter, AcquireGlobal, LeaveQueue, CreateSession,
         StartTurn, Launch, Completed, NoticeCancel, NoticeDeadline, Grace, Settle, Finish, Drop,
         Stops, cancels
<1>3. CASE Settle(c)
  <2>1. /\ at' = [at EXCEPT ![c] = "cleaning"] /\ outcome' = outcome
        /\ record' = [record EXCEPT ![c] = RecordOf(outcome[c])]
    BY <1>3 DEF Settle, Goes
  <2> QED
    BY <1>1, <1>2, <2>1 DEF RecordInv, StopsAreListed, RecordAgrees, RecordOf
<1>4. CASE ~Settle(c)
  <2>1. /\ record' = record
        /\ \E where \in (Early \cup Armed \cup {"over"}) \ {"cleaning"} : at' = [at EXCEPT ![c] = where]
        /\ outcome' = outcome \/ \E r \in Outcome \cup {None} : outcome' = [outcome EXCEPT ![c] = r]
    <3>1. CASE \/ Begin(c) \/ AcquireProfile(c) \/ ChooseLimiter(c) \/ AcquireGlobal(c)
               \/ LeaveQueue(c) \/ CreateSession(c) \/ StartTurn(c) \/ Launch(c)
               \/ Finish(c) \/ Drop(c)
      BY <3>1
      DEF Begin, AcquireProfile, ChooseLimiter, AcquireGlobal, LeaveQueue, CreateSession, StartTurn,
          Launch, Finish, Drop, Returns, Goes, turn, Early, Queued, Armed
    <3>2. CASE Completed(c) \/ NoticeCancel(c) \/ NoticeDeadline(c) \/ Grace(c)
      BY <3>2
      DEF Completed, NoticeCancel, NoticeDeadline, Grace, Stops, Verdict, Goes, turn, Outcome, Armed
    <3> QED
      BY <1>4, <3>1, <3>2 DEF CallStep
  <2> QED
    BY <1>1, <1>2, <2>1 DEF RecordInv, StopsAreListed, RecordAgrees
<1> QED
  BY <1>3, <1>4

LEMMA RecordByOthers ==
  ASSUME TypeInv, RecordInv, NEW c \in Call,
         \/ OrphanCleanup(c) \/ StopExecution(c) \/ SettleStopped(c) \/ TaskEnds(c)
         \/ CancelTool(c) \/ DeadlinePasses(c) \/ AdjustTimeout(c)
         \/ ListActive \/ CancelParent \/ ParentEnds
  PROVE  RecordInv'
<1>1. at' = at /\ outcome' = outcome
  BY OutsideTyped
  DEF OrphanCleanup, StopExecution, SettleStopped, TaskEnds, CancelTool, DeadlinePasses,
      AdjustTimeout, ListActive, CancelParent, ParentEnds
<1>2. CASE SettleStopped(c)
  <2>1. /\ stop[c] = "triggered" /\ stop' = [stop EXCEPT ![c] = "none"]
        /\ record' = [record EXCEPT ![c] = "cancelled"] /\ cancelAt' = cancelAt
    BY <1>2 DEF SettleStopped
  <2>2. cancelAt = "listed"
    BY <2>1 DEF RecordInv, StopsAreListed
  <2> QED
    BY <1>1, <2>1, <2>2 DEF RecordInv, StopsAreListed, RecordAgrees, TypeInv, TypeOK
<1>3. CASE StopExecution(c)
  BY <1>1, <1>3 DEF StopExecution, RecordInv, StopsAreListed, RecordAgrees, turn, TypeInv, TypeOK
<1>4. CASE ListActive \/ CancelParent
  BY <1>1, <1>4 DEF ListActive, CancelParent, RecordInv, StopsAreListed, RecordAgrees, turn
<1>5. CASE \/ OrphanCleanup(c) \/ TaskEnds(c) \/ CancelTool(c) \/ DeadlinePasses(c)
           \/ AdjustTimeout(c) \/ ParentEnds
  <2>1. UNCHANGED <<record, stop, cancelAt>>
    BY <1>5
    DEF OrphanCleanup, TaskEnds, CancelTool, DeadlinePasses, AdjustTimeout, ParentEnds, turn, cancels
  <2> QED
    BY <1>1, <2>1 DEF RecordInv, StopsAreListed, RecordAgrees
<1> QED
  BY <1>2, <1>3, <1>4, <1>5

-----------------------------------------------------------------------------
Inv == PermitsHeld /\ RunsInsideCall /\ NothingLeft /\ SessionInv /\ RecordInv

LEMMA InitInv == Init => Inv
BY DEF Init, Inv, PermitsHeld, RunsInsideCall, NothingLeft, SessionInv, FreedBeforeCleaning,
       SessionIsFreed, RecordInv, StopsAreListed, RecordAgrees, Over, PastProfile, PastGlobal,
       Chosen, Armed

LEMMA LeavesNothing ==
  ASSUME RunsInsideCall', \A c \in Call, l \in Limiter : at'[c] = "over" => c \notin holders'[l]
  PROVE  NothingLeft'
BY DEF NothingLeft, RunsInsideCall, Over, Armed

LEMMA InvByCall ==
  ASSUME TypeInv, Inv, NEW c \in Call, CallStep(c) \/ Begin(c)
  PROVE  Inv'
<1>1. RunsInsideCall'
  BY EarlyStep, ArmedStep DEF CallStep, Inv
<1>2. NothingLeft'
  BY <1>1, OverHoldsNothing, LeavesNothing DEF Inv
<1> QED
  BY <1>1, <1>2, PermitsStay, SessionByCall, RecordByCall DEF Inv

LEMMA InvByOthers ==
  ASSUME TypeInv, Inv, NEW c \in Call,
         \/ OrphanCleanup(c) \/ StopExecution(c) \/ SettleStopped(c) \/ TaskEnds(c)
         \/ CancelTool(c) \/ DeadlinePasses(c) \/ AdjustTimeout(c)
         \/ ListActive \/ CancelParent \/ ParentEnds
  PROVE  Inv'
<1>1. at' = at /\ permits' = permits
  BY OutsideTyped
<1>2. PermitsHeld'
  BY <1>1 DEF permits, Inv, PermitsHeld
<1>3. RunsInsideCall'
  BY OthersStep DEF Inv
<1>4. NothingLeft'
  BY <1>1, <1>3, LeavesNothing DEF permits, Inv, NothingLeft, Over
<1> QED
  BY <1>2, <1>3, <1>4, SessionByOthers, RecordByOthers DEF Inv

LEMMA NextInv == TypeInv /\ Inv /\ [Next]_vars => Inv'
<1> SUFFICES ASSUME TypeInv, Inv, [Next]_vars PROVE Inv'
  OBVIOUS
<1>1. CASE UNCHANGED vars
  BY <1>1
  DEF vars, permits, running, turn, cancels, Inv, PermitsHeld, RunsInsideCall, NothingLeft,
      SessionInv, FreedBeforeCleaning, SessionIsFreed, RecordInv, StopsAreListed, RecordAgrees, Over
<1>2. ASSUME NEW c \in Call, CallStep(c) \/ Begin(c) PROVE Inv'
  BY <1>2, InvByCall
<1>3. ASSUME NEW c \in Call, Spawned(c) \/ TaskEnds(c) \/ (Outside(c) /\ ~Begin(c))
      PROVE  Inv'
  BY <1>3, InvByOthers DEF Spawned, Outside
<1>4. CASE ListActive \/ CancelParent \/ ParentEnds
  <2>1. CASE Call = {}
    BY <2>1
    DEF Inv, PermitsHeld, RunsInsideCall, NothingLeft, SessionInv, FreedBeforeCleaning,
        SessionIsFreed, RecordInv, StopsAreListed, RecordAgrees
  <2>2. CASE Call # {}
    BY <1>4, <2>2, InvByOthers
  <2> QED
    BY <2>1, <2>2
<1> QED
  BY <1>1, <1>2, <1>3, <1>4 DEF Next, Outside

LEMMA AlwaysInv == Spec => []Inv
BY InitTyped, NextTyped, InitInv, NextInv, PTL DEF Spec

\* At any moment the executions that run and are not aborted hold a permit of their
\* profile's limiter and one of a global limiter, through every change of the limit,
\* every drop, cancel, failure and timeout.
THEOREM LimitsBindWhatRuns == Spec => []RunningHoldsPermits
<1>1. TypeInv /\ Inv => RunningHoldsPermits
  BY Parameters
  DEF TypeInv, LimitersKnown, Inv, PermitsHeld, RunsInsideCall, RunningHoldsPermits, Holds,
      PastProfile, PastGlobal, Chosen, Armed
<1> QED
  BY <1>1, AlwaysTyped, AlwaysInv, PTL

\* A call that is over has given back its permits and its entry, and its execution has
\* ended or been aborted, also when its future was dropped at an await.
THEOREM CallsLeaveNothing == Spec => []NothingLeft
BY AlwaysInv, PTL DEF Inv

\* No launched call that is over leaves its session Processing, unless the clean-up
\* its scope has spawned is still to run.
THEOREM SessionsAreFreed == Spec => []SessionIsFreed
BY AlwaysInv, PTL DEF Inv, SessionInv

\* The record of a turn says what its call returns, or that the parent's cancel has
\* settled it.
THEOREM RecordsAgree == Spec => []RecordAgrees
BY AlwaysInv, PTL DEF Inv, RecordInv
=============================================================================
