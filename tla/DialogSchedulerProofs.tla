----------------------- MODULE DialogSchedulerProofs -----------------------
(***************************************************************************)
(* What enqueue does to a queue of any length, the type invariant of       *)
(* DialogScheduler for every set of sessions, messages and callers, and    *)
(* the facts about its actions that the other proofs rest on.              *)
(***************************************************************************)
EXTENDS DialogScheduler, SequenceTheorems, FiniteSetTheorems, TLAPS

-----------------------------------------------------------------------------
(* The reordering half of enqueue keeps the length of every queue, and a   *)
(* queue that was sorted by priority stays sorted.                         *)

\* Every non-empty set of naturals has a least element, the one Min chooses.
LEMMA MinOfNat ==
  ASSUME NEW T, T \subseteq Nat, T # {}
  PROVE  Min(T) \in T /\ \A y \in T : Min(T) <= y
<1> DEFINE Below(x) == {y \in T : y <= x}
<1> DEFINE Initial == {Below(x) : x \in T}
<1>1. \A x \in T : IsFiniteSet(Below(x))
  <2> TAKE x \in T
  <2> QED BY FS_BoundedSetOfNaturals
<1>2. Initial \subseteq FiniteSubsetsOf(T) /\ Initial # {}
  BY <1>1 DEF FiniteSubsetsOf
<1>3. PICK X \in Initial : \A Y \in Initial : ~ (<<Y, X>> \in StrictSubsetOrdering(T))
  <2> HIDE DEF Initial
  <2> QED BY <1>2, FS_StrictSubsetOrderingWellFounded, WFMin
<1>4. PICK x \in T : X = Below(x)
  BY <1>3
<1>5. \A y \in T : x <= y
  <2> SUFFICES ASSUME NEW y \in T, y < x PROVE FALSE
    OBVIOUS
  <2>1. x \in Nat /\ y \in Nat /\ T \subseteq Nat
    OBVIOUS
  <2>2. Below(y) \subseteq X
    <3> SUFFICES ASSUME NEW z \in Below(y) PROVE z \in Below(x)
      BY <1>4
    <3> QED
      BY <2>1
  <2>3. x \in X /\ x \notin Below(y)
    BY <1>4, <2>1
  <2>4. <<Below(y), X>> \in StrictSubsetOrdering(T)
    <3>1. Below(y) \in SUBSET T /\ X \in SUBSET T
      BY <1>4
    <3>2. Below(y) # X
      BY <2>3
    <3> HIDE DEF Below
    <3> QED BY <2>2, <3>1, <3>2 DEF StrictSubsetOrdering
  <2> QED
    BY <1>3, <2>4
<1> QED
  BY <1>5 DEF Min

\* The insertion point that enqueue computes is a position of the queue, and
\* everything before it has at least the priority of the message.
LEMMA InsertPoint ==
  ASSUME NEW q \in Seq(Msg), NEW m \in Msg, Lower(q, m) # {}
  PROVE  /\ Min(Lower(q, m)) \in 1 .. Len(q)
         /\ Priority[q[Min(Lower(q, m))]] < Priority[m]
         /\ \A j \in 1 .. Min(Lower(q, m)) - 1 : ~ (Priority[q[j]] < Priority[m])
<1>1. Len(q) \in Nat
  BY LenProperties
<1>2. Lower(q, m) \subseteq Nat
  BY <1>1 DEF Lower
<1>3. PICK i : i = Min(Lower(q, m))
  OBVIOUS
<1>4. i \in Lower(q, m) /\ \A y \in Lower(q, m) : i <= y
  BY <1>2, <1>3, MinOfNat
<1>5. i \in 1 .. Len(q) /\ Priority[q[i]] < Priority[m]
  BY <1>4 DEF Lower
<1>6. ASSUME NEW j \in 1 .. i - 1 PROVE ~ (Priority[q[j]] < Priority[m])
  <2>1. j \in 1 .. Len(q) /\ ~ (i <= j)
    BY <1>1, <1>5
  <2> QED
    BY <1>4, <2>1 DEF Lower
<1> QED
  BY <1>3, <1>5, <1>6

\* The queue after enqueue, position by position: the new message m = q[Len(q)]
\* stands at i, what was before i has at least its priority, and what was at i
\* or behind has moved back by one.
LEMMA ReorderedShape ==
  ASSUME NEW q \in Seq(Msg), q # <<>>
  PROVE  /\ Reordered(q) \in Seq(Msg) /\ Len(Reordered(q)) = Len(q)
         /\ \E i \in 1 .. Len(q) :
              /\ \A j \in 1 .. Len(q) :
                   Reordered(q)[j] = IF j < i THEN q[j]
                                     ELSE IF j = i THEN q[Len(q)] ELSE q[j - 1]
              /\ \A j \in 1 .. i - 1 : ~ (Priority[q[j]] < Priority[q[Len(q)]])
              /\ i < Len(q) => Priority[q[i]] < Priority[q[Len(q)]]
<1> DEFINE n == Len(q)
<1> DEFINE m == q[n]
<1> DEFINE rest == SubSeq(q, 1, n - 1)
<1>1. n \in Nat \ {0} /\ m \in Msg /\ \A j \in 1 .. n : q[j] \in Msg
  BY EmptySeq, ElementOfSeq
<1>2. /\ rest \in Seq(Msg) /\ Len(rest) = n - 1
      /\ \A j \in 1 .. n - 1 : rest[j] = q[j]
  <2>1. /\ rest \in Seq(Msg)
        /\ Len(rest) = IF 1 <= n - 1 THEN n - 1 - 1 + 1 ELSE 0
        /\ \A j \in 1 .. n - 1 - 1 + 1 : rest[j] = q[1 + j - 1]
    BY <1>1, SubSeqProperties
  <2> HIDE DEF rest, n
  <2> QED BY <1>1, <2>1
<1>3. Reordered(q) = IF Lower(rest, m) = {} THEN q ELSE InsertAt(rest, Min(Lower(rest, m)), m)
  BY DEF Reordered, Last, Front
<1>4. CASE Lower(rest, m) = {}
  <2>1. \A j \in 1 .. n - 1 : ~ (Priority[q[j]] < Priority[m])
    <3> HIDE DEF rest, m, n
    <3> QED BY <1>1, <1>2, <1>4 DEF Lower
  <2> QED
    BY <1>1, <1>3, <1>4, <2>1
<1>5. CASE Lower(rest, m) # {}
  <2>1. PICK i : i = Min(Lower(rest, m))
    OBVIOUS
  <2>2. /\ i \in 1 .. n - 1 /\ Priority[rest[i]] < Priority[m]
        /\ \A j \in 1 .. i - 1 : ~ (Priority[rest[j]] < Priority[m])
    <3> HIDE DEF rest, m, n
    <3> QED BY <1>1, <1>2, <1>5, <2>1, InsertPoint
  <2> DEFINE left == SubSeq(rest, 1, i - 1)
  <2> DEFINE right == SubSeq(rest, i, n - 1)
  <2>3. Reordered(q) = left \o <<m>> \o right
    BY <1>2, <1>3, <1>5, <2>1 DEF InsertAt
  <2>4. /\ left \in Seq(Msg) /\ Len(left) = i - 1
        /\ \A j \in 1 .. i - 1 : left[j] = rest[j]
    <3>1. \A j \in 1 .. i - 1 : rest[j] \in Msg
      <4> HIDE DEF rest, n
      <4> QED BY <1>1, <1>2, <2>2
    <3>2. /\ left \in Seq(Msg)
          /\ Len(left) = IF 1 <= i - 1 THEN i - 1 - 1 + 1 ELSE 0
          /\ \A j \in 1 .. i - 1 - 1 + 1 : left[j] = rest[1 + j - 1]
      <4> HIDE DEF rest, n
      <4> QED BY <2>2, <3>1, SubSeqProperties
    <3> HIDE DEF left, rest, n, m
    <3> QED BY <1>1, <2>2, <3>2
  <2>5. /\ right \in Seq(Msg) /\ Len(right) = n - i
        /\ \A j \in 1 .. n - i : right[j] = rest[i + j - 1]
    <3>1. \A j \in i .. n - 1 : rest[j] \in Msg
      <4> HIDE DEF rest, n
      <4> QED BY <1>1, <1>2, <2>2
    <3>2. /\ right \in Seq(Msg)
          /\ Len(right) = IF i <= n - 1 THEN n - 1 - i + 1 ELSE 0
          /\ \A j \in 1 .. n - 1 - i + 1 : right[j] = rest[i + j - 1]
      <4> HIDE DEF rest, n
      <4> QED BY <1>1, <2>2, <3>1, SubSeqProperties
    <3> HIDE DEF right, rest, n, m
    <3> QED BY <1>1, <2>2, <3>2
  <2>6. /\ <<m>> \in Seq(Msg) /\ Len(<<m>>) = 1 /\ <<m>>[1] = m
    BY <1>1
  <2>7. /\ left \o <<m>> \in Seq(Msg) /\ Len(left \o <<m>>) = i
        /\ \A j \in 1 .. i : (left \o <<m>>)[j] = IF j < i THEN rest[j] ELSE m
    <3>1. /\ left \o <<m>> \in Seq(Msg) /\ Len(left \o <<m>>) = Len(left) + Len(<<m>>)
          /\ \A j \in 1 .. Len(left) + Len(<<m>>) :
               (left \o <<m>>)[j] = IF j <= Len(left) THEN left[j] ELSE <<m>>[j - Len(left)]
      <4> HIDE DEF left, m
      <4> QED BY <2>4, <2>6, ConcatProperties
    <3> HIDE DEF left, rest, n, m
    <3> QED BY <1>1, <2>2, <2>4, <2>6, <3>1
  <2>8. /\ Reordered(q) \in Seq(Msg) /\ Len(Reordered(q)) = n
        /\ \A j \in 1 .. n : Reordered(q)[j] =
             IF j < i THEN rest[j] ELSE IF j = i THEN m ELSE rest[j - 1]
    <3> DEFINE start == left \o <<m>>
    <3>0. start \in Seq(Msg) /\ right \in Seq(Msg)
      BY <2>5, <2>7
    <3>1. /\ start \o right \in Seq(Msg) /\ Len(start \o right) = Len(start) + Len(right)
          /\ \A j \in 1 .. Len(start) + Len(right) :
               (start \o right)[j] = IF j <= Len(start) THEN start[j] ELSE right[j - Len(start)]
      <4> HIDE DEF start, right
      <4> QED BY <3>0, ConcatProperties
    <3>2. Reordered(q) = start \o right
      BY <2>3
    <3>3. /\ Len(start) = i
          /\ \A j \in 1 .. i : start[j] = IF j < i THEN rest[j] ELSE m
      BY <2>7
    <3> HIDE DEF start, left, right, rest, n, m
    <3>4. Reordered(q) \in Seq(Msg) /\ Len(Reordered(q)) = n
      BY <1>1, <2>2, <2>5, <3>1, <3>2, <3>3
    <3>5. ASSUME NEW j \in 1 .. n
          PROVE  Reordered(q)[j] = IF j < i THEN rest[j] ELSE IF j = i THEN m ELSE rest[j - 1]
      <4>1. CASE j <= i
        BY <1>1, <2>2, <2>5, <3>1, <3>2, <3>3, <4>1
      <4>2. CASE j > i
        <5>1. j - i \in 1 .. n - i /\ i + (j - i) - 1 = j - 1
          BY <1>1, <2>2, <4>2
        <5>2. Reordered(q)[j] = right[j - i]
          BY <1>1, <2>2, <2>5, <3>1, <3>2, <3>3, <4>2
        <5> QED
          BY <1>1, <2>2, <2>5, <4>2, <5>1, <5>2
      <4> QED BY <1>1, <2>2, <4>1, <4>2
    <3> QED
      BY <3>4, <3>5
  <2> HIDE DEF rest, m, n
  <2>9. /\ i \in 1 .. n
        /\ \A j \in 1 .. n : Reordered(q)[j] =
             IF j < i THEN q[j] ELSE IF j = i THEN m ELSE q[j - 1]
    <3>1. i \in 1 .. n
      BY <1>1, <2>2
    <3>2. ASSUME NEW j \in 1 .. n
          PROVE  Reordered(q)[j] = IF j < i THEN q[j] ELSE IF j = i THEN m ELSE q[j - 1]
      <4>1. CASE j < i
        <5>1. j \in 1 .. n - 1
          BY <1>1, <2>2, <4>1
        <5> QED BY <1>2, <2>8, <4>1, <5>1
      <4>2. CASE j = i
        BY <2>2, <2>8, <4>2
      <4>3. CASE j > i
        <5>1. j - 1 \in 1 .. n - 1 /\ ~ (j < i) /\ j # i
          BY <1>1, <2>2, <4>3
        <5> QED BY <1>2, <2>8, <5>1
      <4> QED BY <1>1, <2>2, <4>1, <4>2, <4>3
    <3> QED
      BY <3>1, <3>2
  <2>10. /\ \A j \in 1 .. i - 1 : ~ (Priority[q[j]] < Priority[m])
         /\ Priority[q[i]] < Priority[m]
    BY <1>1, <1>2, <2>2
  <2> QED
    BY <2>8, <2>9, <2>10 DEF m, n
<1> QED
  BY <1>4, <1>5

LEMMA ReorderedType ==
  ASSUME NEW q \in Seq(Msg)
  PROVE  Reordered(q) \in Seq(Msg)
<1>1. CASE q = <<>>
  BY <1>1 DEF Reordered
<1>2. CASE q # <<>>
  BY <1>2, ReorderedShape
<1> QED
  BY <1>1, <1>2

\* A queue in dispatch order: higher priorities first.
SortedByPriority(q) ==
  \A i, j \in 1 .. Len(q) : i < j => ~ (Priority[q[i]] < Priority[q[j]])

\* "Higher-priority messages dispatched before lower-priority ones; FIFO ordering
\* within the same priority level": pushing a message at the end of a sorted queue
\* and reordering it (enqueue, when nothing comes between the two) gives a sorted
\* queue of the same length.
THEOREM EnqueueKeepsOrder ==
  ASSUME NEW q \in Seq(Msg), NEW m \in Msg, SortedByPriority(q)
  PROVE  /\ SortedByPriority(Reordered(Append(q, m)))
         /\ Len(Reordered(Append(q, m))) = Len(q) + 1
<1> DEFINE p == Append(q, m)
<1> DEFINE r == Reordered(p)
<1>1. /\ p \in Seq(Msg) /\ p # <<>> /\ Len(p) = Len(q) + 1 /\ Len(q) \in Nat
      /\ \A j \in 1 .. Len(q) : p[j] = q[j] /\ q[j] \in Msg
      /\ p[Len(p)] = m
  BY AppendProperties, LenProperties, ElementOfSeq
<1> HIDE DEF p
<1>2. PICK i \in 1 .. Len(p) :
        /\ \A j \in 1 .. Len(p) :
             r[j] = IF j < i THEN p[j] ELSE IF j = i THEN p[Len(p)] ELSE p[j - 1]
        /\ \A j \in 1 .. i - 1 : ~ (Priority[p[j]] < Priority[p[Len(p)]])
        /\ i < Len(p) => Priority[p[i]] < Priority[p[Len(p)]]
  BY <1>1, ReorderedShape
<1>3. Len(r) = Len(q) + 1
  BY <1>1, ReorderedShape
<1> HIDE DEF r
<1>4. \A e \in Msg : Priority[e] \in Int
  BY MessageAssumption DEF QueuePriority
<1> DEFINE old(j) == IF j < i THEN j ELSE j - 1
<1>5. \A j \in 1 .. Len(r) : j # i => old(j) \in 1 .. Len(q) /\ r[j] = q[old(j)]
  <2> SUFFICES ASSUME NEW j \in 1 .. Len(r), j # i
               PROVE  old(j) \in 1 .. Len(q) /\ r[j] = q[old(j)]
    OBVIOUS
  <2>1. CASE j < i
    <3>1. j \in 1 .. Len(q) /\ j \in 1 .. Len(p) /\ r[j] = p[j]
      BY <1>1, <1>2, <1>3, <2>1
    <3> QED BY <1>1, <2>1, <3>1
  <2>2. CASE j > i
    <3>1. j - 1 \in 1 .. Len(q) /\ r[j] = p[j - 1] /\ ~ (j < i)
      BY <1>1, <1>2, <1>3, <2>2
    <3> QED BY <1>1, <3>1
  <2> QED BY <1>1, <1>3, <2>1, <2>2
<1>6. r[i] = m
  BY <1>1, <1>2
<1>7. \A j \in 1 .. Len(q) : j < i => ~ (Priority[q[j]] < Priority[m])
  BY <1>1, <1>2
<1>8. \A j \in 1 .. Len(q) : j >= i => ~ (Priority[m] < Priority[q[j]])
  <2> SUFFICES ASSUME NEW j \in 1 .. Len(q), j >= i PROVE ~ (Priority[m] < Priority[q[j]])
    OBVIOUS
  <2>1. i \in 1 .. Len(q) /\ Priority[q[i]] < Priority[m]
    BY <1>1, <1>2
  <2>2. i = j \/ ~ (Priority[q[i]] < Priority[q[j]])
    BY <2>1 DEF SortedByPriority
  <2> QED
    BY <1>1, <1>4, <2>1, <2>2
<1>9. ASSUME NEW j \in 1 .. Len(r), NEW k \in 1 .. Len(r), j < k
      PROVE  ~ (Priority[r[j]] < Priority[r[k]])
  <2>1. CASE j = i
    <3>1. old(k) \in 1 .. Len(q) /\ old(k) >= i /\ r[k] = q[old(k)]
      BY <1>1, <1>3, <1>5, <1>9, <2>1
    <3> QED
      BY <1>6, <1>8, <2>1, <3>1
  <2>2. CASE k = i
    <3>1. old(j) \in 1 .. Len(q) /\ old(j) < i /\ r[j] = q[old(j)]
      BY <1>1, <1>3, <1>5, <1>9, <2>2
    <3> QED
      BY <1>6, <1>7, <2>2, <3>1
  <2>3. CASE j # i /\ k # i
    <3>1. old(j) \in 1 .. Len(q) /\ old(k) \in 1 .. Len(q) /\ old(j) < old(k)
      BY <1>1, <1>3, <1>5, <1>9, <2>3
    <3>2. r[j] = q[old(j)] /\ r[k] = q[old(k)]
      BY <1>5, <2>3
    <3> HIDE DEF old
    <3> QED
      BY <3>1, <3>2 DEF SortedByPriority
  <2> QED
    BY <2>1, <2>2, <2>3
<1> QED
  BY <1>3, <1>9 DEF SortedByPriority, r, p

-----------------------------------------------------------------------------
(* Types.                                                                  *)

\* What the program counters say of the locals: TypeOK alone is not inductive,
\* as a step stores the message, the turn or the session it holds in a local
\* that may be None at other points.
HasMessage ==
  {"called", "decide", "check", "push", "reorder", "yield", "snapshot", "drain",
   "begin", "persist", "spawn", "resolve", "insert", "failed"}

CallsAreSet ==
  /\ \A a \in External : call[a].msg \in Msg
  /\ pc[Handler] \in HasMessage => call[Handler].msg \in Msg
  /\ pc[Handler] # "recv" => job.session \in Session
  /\ \A a \in Submitter : pc[a] = "insert" => call[a].turn \in Msg
  /\ \A i \in Steering : pc[i] = "inject" => call[i].turn \in Msg

TasksAreSet ==
  \A t \in Task : task[t].phase \in {"ended", "settled"} => task[t].verdict \in Status

CancelsAreSet ==
  \A c \in Canceller :
    /\ pc[c] \in CancelPc => cancel[c].session \in Session
    /\ pc[c] = "suppress" => cancel[c].key \in Msg
    /\ pc[c] \in {"idle", "token"} => cancel[c].victim \in Msg

TypeInv == TypeOK /\ CallsAreSet /\ TasksAreSet /\ CancelsAreSet

-----------------------------------------------------------------------------
\* The processes are disjoint, and every submitter is a caller.
LEMMA Processes ==
  /\ Submitter \subseteq Caller /\ Steering \subseteq Caller /\ Caller \subseteq Process
  /\ Canceller \subseteq Process /\ Handler \in Submitter
  /\ External \subseteq Submitter /\ External \subseteq Msg /\ Background \subseteq External
  /\ Handler \notin External /\ Handler \notin Steering /\ Handler \notin Canceller
  /\ Submitter \cap Steering = {} /\ Submitter \cap Canceller = {}
  /\ Steering \cap Canceller = {}
  BY SchedulerAssumption DEF Process, Caller, Submitter

\* The session a submitter works on, at every point where it has one.
LEMMA SessionOfType ==
  ASSUME TypeInv, NEW a \in Submitter, pc[a] # "recv"
  PROVE  SessionOf(a) \in Session
<1>1. a \in Caller /\ call[a].msg \in Msg \cup {None}
  BY Processes DEF TypeInv, TypeOK, CallLocals
<1>2. CASE a = Handler
  BY <1>1, <1>2, SchedulerAssumption DEF TypeInv, CallsAreSet, SessionOf
<1>3. CASE a # Handler
  BY <1>3, SchedulerAssumption DEF TypeInv, CallsAreSet, SessionOf, Submitter
<1> QED
  BY <1>2, <1>3

\* A submitter with a message works on the session of that message.
LEMMA MessageType ==
  ASSUME TypeInv, NEW a \in Submitter, pc[a] \in HasMessage
  PROVE  call[a].msg \in Msg /\ SessionOf(a) = Target[call[a].msg] /\ SessionOf(a) \in Session
  BY SchedulerAssumption DEF TypeInv, CallsAreSet, SessionOf, Submitter, HasMessage

\* The locals after a step of one process, as conditions on what it assigns.
Locals ==
  /\ pc \in [Process -> PcLabel] /\ call \in [Caller -> CallLocals] /\ job \in JobLocals
  /\ cancel \in [Canceller -> CancelLocals]
  /\ CallsAreSet /\ CancelsAreSet

LEMMA FreshType == \A m \in Msg \cup {None} : Fresh(m) \in CallLocals /\ Fresh(m).msg = m
  BY DEF Fresh, CallLocals

\* Returning from submit or from a dispatch leaves well-formed locals.
LEMMA ReturnTypes ==
  ASSUME TypeInv, NEW a \in Submitter, NEW r \in SubmitResult,
         pc[a] # "recv", Return(a, r), UNCHANGED cancel
  PROVE  Locals' /\ result' \in [External -> SubmitResult]
<1> USE Processes
<1>0. /\ pc \in [Process -> PcLabel] /\ call \in [Caller -> CallLocals] /\ job \in JobLocals
      /\ cancel \in [Canceller -> CancelLocals] /\ result \in [External -> SubmitResult]
      /\ CallsAreSet /\ CancelsAreSet
  BY DEF TypeInv, TypeOK
<1>1. CASE a = Handler
  <2>1. Resume \in {"clear", "trynext", "recv"} /\ Resume \in PcLabel
    BY DEF Resume, AfterGoal, PcLabel, HandlerPc, SubmitPc
  <2>2. pc' = [pc EXCEPT ![Handler] = Resume] /\ pc'[Handler] = Resume
    BY <1>0, <1>1 DEF Return, Goto
  <2>3. /\ call' = [call EXCEPT ![Handler] = Fresh(None)]
        /\ \A b \in Caller : b # Handler => call'[b] = call[b]
    BY <1>0, <1>1 DEF Return
  <2>5. job' \in JobLocals /\ (Resume # "recv" => job'.session = job.session)
    <3>1. CASE Resume = "recv"
      BY <1>1, <3>1 DEF Return, NoJob, JobLocals
    <3>2. CASE Resume # "recv"
      BY <1>0, <1>1, <3>2 DEF Return, JobLocals
    <3> QED BY <3>1, <3>2
  <2>6. UNCHANGED result
    BY <1>1 DEF Return
  <2>7. pc' \in [Process -> PcLabel] /\ call' \in [Caller -> CallLocals]
    BY <1>0, <2>1, <2>2, <2>3, FreshType
  <2>8. CallsAreSet'
    <3>1. \A b \in External : call'[b].msg \in Msg
      BY <1>0, <2>3, SchedulerAssumption DEF CallsAreSet
    <3>2. pc'[Handler] \notin HasMessage /\ pc'[Handler] # "insert"
      BY <2>1, <2>2 DEF HasMessage
    <3>3. \A b \in Process : b # Handler => pc'[b] = pc[b]
      BY <1>0, <2>2
    <3>4. \A b \in Submitter : pc'[b] = "insert" => call'[b].turn \in Msg
      BY <1>0, <2>3, <3>2, <3>3 DEF CallsAreSet
    <3>5. \A i \in Steering : pc'[i] = "inject" => call'[i].turn \in Msg
      BY <1>0, <2>3, <3>3 DEF CallsAreSet
    <3>6. pc'[Handler] # "recv" => job'.session \in Session
      BY <1>0, <1>1, <2>2, <2>5 DEF CallsAreSet
    <3> QED
      BY <3>1, <3>2, <3>4, <3>5, <3>6 DEF CallsAreSet
  <2>9. CancelsAreSet'
    BY <1>0, <2>2 DEF CancelsAreSet
  <2> QED
    BY <1>0, <2>5, <2>6, <2>7, <2>8, <2>9 DEF Locals
<1>2. CASE a # Handler
  <2>1. a \in External
    BY <1>2 DEF Submitter
  <2>2. /\ pc' = [pc EXCEPT ![a] = "done"]
        /\ call' = [call EXCEPT ![a] = Fresh(a)]
        /\ job' = job /\ result' = [result EXCEPT ![a] = r]
    <3>1. pc' = [pc EXCEPT ![a] = "done"]
      BY <1>2 DEF Return, Goto
    <3>2. call' = [call EXCEPT ![a] = Fresh(a)]
      BY <1>2 DEF Return
    <3>3. job' = job
      BY <1>2 DEF Return
    <3>4. result' = [result EXCEPT ![a] = r]
      BY <2>1 DEF Return
    <3> QED
      BY <3>1, <3>2, <3>3, <3>4
  <2>3. pc' \in [Process -> PcLabel] /\ call' \in [Caller -> CallLocals]
        /\ result' \in [External -> SubmitResult]
    BY <1>0, <2>1, <2>2, FreshType DEF PcLabel
  <2>4. CallsAreSet'
    BY <1>0, <2>1, <2>2, FreshType DEF CallsAreSet
  <2>5. CancelsAreSet'
    BY <1>0, <2>2 DEF CancelsAreSet
  <2> QED
    BY <1>0, <2>2, <2>3, <2>4, <2>5 DEF Locals
<1> QED
  BY <1>1, <1>2

\* A submitter that goes on to another point of submit or start_turn.
LEMMA MoveTypes ==
  ASSUME TypeInv, NEW a \in Submitter, NEW l \in SubmitPc, pc[a] # "recv",
         Goto(a, l), UNCHANGED <<job, cancel>>,
         call' \in [Caller -> CallLocals],
         \A b \in Caller : b # a => call'[b] = call[b],
         a \in External \/ l \in HasMessage => call'[a].msg \in Msg,
         l = "insert" => call'[a].turn \in Msg
  PROVE  Locals'
<1> USE Processes
<1>0. /\ pc \in [Process -> PcLabel] /\ call \in [Caller -> CallLocals] /\ job \in JobLocals
      /\ cancel \in [Canceller -> CancelLocals] /\ CallsAreSet /\ CancelsAreSet
  BY DEF TypeInv, TypeOK
<1>1. /\ pc' \in [Process -> PcLabel] /\ pc'[a] = l
      /\ \A b \in Process : b # a => pc'[b] = pc[b]
  BY <1>0 DEF Goto, PcLabel
<1>2. CallsAreSet'
  <2>1. \A b \in External : call'[b].msg \in Msg
    BY <1>0 DEF CallsAreSet
  <2>2. pc'[Handler] \in HasMessage => call'[Handler].msg \in Msg
    BY <1>0, <1>1 DEF CallsAreSet
  <2>3. pc'[Handler] # "recv" => job'.session \in Session
    BY <1>0, <1>1 DEF CallsAreSet
  <2>4. \A b \in Submitter : pc'[b] = "insert" => call'[b].turn \in Msg
    BY <1>0, <1>1 DEF CallsAreSet
  <2>5. \A i \in Steering : pc'[i] = "inject" => call'[i].turn \in Msg
    BY <1>0, <1>1 DEF CallsAreSet
  <2> QED
    BY <2>1, <2>2, <2>3, <2>4, <2>5 DEF CallsAreSet
<1>3. CancelsAreSet'
  BY <1>0, <1>1 DEF CancelsAreSet
<1> QED
  BY <1>0, <1>1, <1>2, <1>3 DEF Locals

\* ... when it only moves on.
LEMMA GotoTypes ==
  ASSUME TypeInv, NEW a \in Submitter, NEW l \in SubmitPc, pc[a] # "recv",
         Goto(a, l), UNCHANGED <<call, job, cancel>>,
         l \in HasMessage => call[a].msg \in Msg, l # "insert"
  PROVE  Locals'
<1>1. call' \in [Caller -> CallLocals] /\ (a \in External => call'[a].msg \in Msg)
  BY DEF TypeInv, TypeOK, CallsAreSet
<1> QED
  BY <1>1, MoveTypes DEF TypeInv, TypeOK

\* The type invariant, variable group by variable group.
EngineTypes ==
  /\ state \in [Session -> SessionState] /\ inflight \in [Session -> Int]
  /\ token \in [Msg -> {"none", "live", "cancelled"}]
  /\ task \in [Task -> TaskRecord] /\ TasksAreSet
SchedulerTypes ==
  /\ queues \in [Session -> Seq(Msg)] /\ active \in [Session -> ActiveTurn \cup {NoEntry}]
  /\ suppressed \subseteq Session \X Msg /\ outcomes \in Seq(Outcome)
RoundTypes ==
  /\ yield \in [Session -> BOOLEAN] /\ buffer \in [Session -> SUBSET RoundInjection]
CountTypes ==
  /\ started \in [Msg -> 0 .. MaxStarts] /\ submits \in [Msg -> Nat]
ResultTypes == cleared \subseteq Msg /\ result \in [External -> SubmitResult]
DrainedTypes ==
  drained \subseteq [id : Steering \cup Background, by : {"engine", "handler"}, turn : Msg]

LEMMA TypeInvParts ==
  /\ TypeInv <=> /\ EngineTypes /\ SchedulerTypes /\ RoundTypes /\ Locals
                 /\ CountTypes /\ ResultTypes /\ DrainedTypes
  /\ TypeInv' <=> /\ EngineTypes' /\ SchedulerTypes' /\ RoundTypes' /\ Locals'
                  /\ CountTypes' /\ ResultTypes' /\ DrainedTypes'
  BY DEF TypeInv, TypeOK, EngineTypes, SchedulerTypes, RoundTypes, Locals, CountTypes,
         ResultTypes, DrainedTypes

\* Variables that a step leaves alone keep their types.
LEMMA UnchangedTypes ==
  ASSUME TypeInv
  PROVE  /\ UNCHANGED engine => EngineTypes'
         /\ UNCHANGED scheduler => SchedulerTypes'
         /\ UNCHANGED rounds => RoundTypes'
         /\ UNCHANGED <<started, submits>> => CountTypes'
         /\ UNCHANGED <<cleared, result>> => ResultTypes'
         /\ UNCHANGED drained => DrainedTypes'
         /\ UNCHANGED locals => Locals'
<1> USE TypeInvParts
<1>1. UNCHANGED engine => EngineTypes'
  BY DEF engine, EngineTypes, TasksAreSet
<1>2. UNCHANGED scheduler => SchedulerTypes'
  BY DEF scheduler, SchedulerTypes
<1>3. UNCHANGED rounds => RoundTypes'
  BY DEF rounds, RoundTypes
<1>4. /\ UNCHANGED <<started, submits>> => CountTypes'
      /\ UNCHANGED <<cleared, result>> => ResultTypes'
      /\ UNCHANGED drained => DrainedTypes'
  BY DEF CountTypes, ResultTypes, DrainedTypes
<1>5. UNCHANGED locals => Locals'
  BY DEF locals, Locals, CallsAreSet, CancelsAreSet
<1> QED
  BY <1>1, <1>2, <1>3, <1>4, <1>5

-----------------------------------------------------------------------------
LEMMA ClearTypes ==
  ASSUME TypeInv, NEW s \in Session, Clear(s)
  PROVE  queues' \in [Session -> Seq(Msg)] /\ cleared' \subseteq Msg
<1>1. queues \in [Session -> Seq(Msg)] /\ queues[s] \in Seq(Msg) /\ cleared \subseteq Msg
  BY DEF TypeInv, TypeOK
<1>2. ToSet(queues[s]) \subseteq Msg
  BY <1>1, LenProperties, ElementOfSeq DEF ToSet
<1> QED
  BY <1>1, <1>2, EmptySeq DEF Clear

\* Every step of submit, enqueue and try_start_next_queued keeps the types.
LEMMA SubmitTypes ==
  ASSUME TypeInv, NEW a \in Submitter, pc[a] # "recv",
         Submit(a) \/ SubmitStep(a) \/ DeliverBackground(a)
  PROVE  TypeInv'
<1> USE Processes
<1>0. /\ EngineTypes /\ SchedulerTypes /\ RoundTypes /\ Locals
      /\ CountTypes /\ ResultTypes /\ DrainedTypes
  BY TypeInvParts
<1>1. a \in Caller /\ call[a] \in CallLocals /\ SessionOf(a) \in Session
      /\ (a \in External => call[a].msg \in Msg)
      /\ (pc[a] \in HasMessage => call[a].msg \in Msg)
  BY <1>0, SessionOfType, MessageType DEF Locals, CallsAreSet
<1>2. \A l \in {"called", "decide", "check", "push", "reorder", "yield", "trynext",
               "dequeue", "snapshot", "drain", "begin", "persist", "spawn", "resolve",
               "insert", "failed", "inject"} : l \in SubmitPc
  BY DEF SubmitPc
<1>3. CASE DeliverBackground(a)
  <2>1. Locals'
    <3>1. PICK l \in {"inject", "called"} : Goto(a, l)
      BY <1>3 DEF DeliverBackground
    <3> QED
      BY <1>1, <1>2, <1>3, <3>1, GotoTypes DEF DeliverBackground
  <2> QED
    BY <1>3, <2>1, TypeInvParts, UnchangedTypes DEF DeliverBackground, history
<1>4. CASE InjectBackground(a)
  <2>1. Locals' /\ result' \in [External -> SubmitResult]
    BY <1>4, ReturnTypes DEF InjectBackground, SubmitResult
  <2>2. RoundTypes'
    <3>1. [id |-> a, turn |-> None] \in RoundInjection
      BY <1>4 DEF InjectBackground, RoundInjection
    <3> QED
      BY <1>0, <1>4, <3>1 DEF InjectBackground, RoundTypes
  <2> QED
    BY <1>0, <1>4, <2>1, <2>2, TypeInvParts, UnchangedTypes
    DEF InjectBackground, ResultTypes
<1>5. CASE Submit(a)
  <2>1. call' = [call EXCEPT ![a].seen = state[SessionOf(a)].kind]
    BY <1>5 DEF Submit
  <2>2. state[SessionOf(a)].kind \in {"Idle", "Processing", "Error"}
    BY <1>0, <1>1 DEF EngineTypes, SessionState, Idle, Error, Processing
  <2>3. call' \in [Caller -> CallLocals] /\ call'[a].msg = call[a].msg
        /\ \A b \in Caller : b # a => call'[b] = call[b]
    BY <1>0, <1>1, <2>1, <2>2 DEF Locals, CallLocals
  <2>4. call[a].msg \in Msg
    BY <1>1, <1>5 DEF Submit, At, HasMessage
  <2>5. Locals'
    BY <1>2, <1>5, <2>3, <2>4, MoveTypes DEF Submit
  <2> QED
    BY <1>5, <2>5, TypeInvParts, UnchangedTypes DEF Submit, history
<1>6. CASE SubmitDecide(a)
  <2>1. Locals'
    <3>1. PICK l \in {"snapshot", "check"} : Goto(a, l)
      BY <1>6 DEF SubmitDecide
    <3>2. call[a].msg \in Msg
      BY <1>1, <1>6 DEF SubmitDecide, At, HasMessage
    <3> QED
      BY <1>1, <1>2, <1>6, <3>1, <3>2, GotoTypes DEF SubmitDecide
  <2>2. \/ Clear(SessionOf(a)) \/ UNCHANGED <<queues, cleared>>
    BY <1>6 DEF SubmitDecide
  <2>3. SchedulerTypes' /\ ResultTypes'
    BY <1>0, <1>1, <1>6, <2>2, ClearTypes DEF SubmitDecide, SchedulerTypes, ResultTypes
  <2> QED
    BY <1>6, <2>1, <2>3, TypeInvParts, UnchangedTypes DEF SubmitDecide
<1>7. CASE EnqueueCheck(a)
  <2>1. Locals' /\ result' \in [External -> SubmitResult]
    <3>1. CASE Return(a, "Err")
      BY <1>7, <3>1, ReturnTypes DEF EnqueueCheck, SubmitResult
    <3>2. CASE Goto(a, "push") /\ UNCHANGED <<call, job, result>>
      <4>1. call[a].msg \in Msg
        BY <1>1, <1>7 DEF EnqueueCheck, At, HasMessage
      <4> QED
        BY <1>0, <1>2, <1>7, <3>2, <4>1, GotoTypes DEF EnqueueCheck, ResultTypes
    <3> QED
      BY <1>7, <3>1, <3>2 DEF EnqueueCheck
  <2> QED
    BY <1>0, <1>7, <2>1, TypeInvParts, UnchangedTypes DEF EnqueueCheck, ResultTypes
<1>8. CASE EnqueuePush(a)
  <2>1. call[a].msg \in Msg
    BY <1>1, <1>8 DEF EnqueuePush, At, HasMessage
  <2>2. Locals'
    BY <1>2, <1>8, <2>1, GotoTypes DEF EnqueuePush
  <2>3. Append(queues[SessionOf(a)], call[a].msg) \in Seq(Msg)
    BY <1>0, <1>1, <2>1, AppendProperties DEF SchedulerTypes
  <2>4. SchedulerTypes'
    BY <1>0, <1>1, <1>8, <2>3 DEF EnqueuePush, SchedulerTypes
  <2> QED
    BY <1>8, <2>2, <2>4, TypeInvParts, UnchangedTypes DEF EnqueuePush, history
<1>9. CASE EnqueueReorder(a)
  <2>1. call[a].msg \in Msg
    BY <1>1, <1>9 DEF EnqueueReorder, At, HasMessage
  <2>2. Locals'
    <3>1. PICK l \in {"yield", "trynext"} : Goto(a, l)
      BY <1>9 DEF EnqueueReorder
    <3> QED
      BY <1>2, <1>9, <2>1, <3>1, GotoTypes DEF EnqueueReorder
  <2>3. Reordered(queues[SessionOf(a)]) \in Seq(Msg)
    BY <1>0, <1>1, ReorderedType DEF SchedulerTypes
  <2>4. SchedulerTypes'
    BY <1>0, <1>1, <1>9, <2>3 DEF EnqueueReorder, SchedulerTypes
  <2> QED
    BY <1>9, <2>2, <2>4, TypeInvParts, UnchangedTypes DEF EnqueueReorder, history
<1>10. CASE RequestYield(a)
  <2>1. Locals' /\ result' \in [External -> SubmitResult]
    BY <1>10, ReturnTypes DEF RequestYield, SubmitResult
  <2>2. MayPreempt(call[a].msg) \in BOOLEAN
    BY DEF MayPreempt
  <2>3. RoundTypes'
    BY <1>0, <1>1, <1>10, <2>2 DEF RequestYield, RoundTypes
  <2> QED
    BY <1>0, <1>10, <2>1, <2>3, TypeInvParts, UnchangedTypes DEF RequestYield, ResultTypes
<1>11. CASE TryNextCheck(a)
  <2>1. Locals' /\ result' \in [External -> SubmitResult]
    <3>1. CASE Return(a, "Queued")
      BY <1>11, <3>1, ReturnTypes DEF TryNextCheck, SubmitResult
    <3>2. CASE Goto(a, "dequeue") /\ UNCHANGED <<call, job, result>>
      <4>1. "dequeue" \notin HasMessage
        BY DEF HasMessage
      <4> QED
        BY <1>0, <1>2, <1>11, <3>2, <4>1, GotoTypes DEF TryNextCheck, ResultTypes
    <3> QED
      BY <1>11, <3>1, <3>2 DEF TryNextCheck
  <2> QED
    BY <1>0, <1>11, <2>1, TypeInvParts, UnchangedTypes DEF TryNextCheck, ResultTypes
<1>12. CASE DequeueNext(a)
  <2> DEFINE s == SessionOf(a)
  <2>1. CASE queues[s] = <<>>
    <3>1. Locals' /\ result' \in [External -> SubmitResult]
      BY <1>12, <2>1, ReturnTypes DEF DequeueNext, SubmitResult
    <3>2. UNCHANGED scheduler
      BY <1>12, <2>1 DEF DequeueNext, scheduler
    <3> QED
      BY <1>0, <1>12, <3>1, <3>2, TypeInvParts, UnchangedTypes DEF DequeueNext, ResultTypes
  <2>2. CASE queues[s] # <<>>
    <3>1. Head(queues[s]) \in Msg /\ Tail(queues[s]) \in Seq(Msg)
      BY <1>0, <1>1, <2>2, HeadTailProperties DEF SchedulerTypes
    <3>2. /\ queues' = [queues EXCEPT ![s] = Tail(@)]
          /\ call' = [call EXCEPT ![a].msg = Head(queues[s]), ![a].queued = TRUE]
          /\ Goto(a, "snapshot") /\ UNCHANGED <<job, result, cancel>>
      BY <1>12, <2>2 DEF DequeueNext
    <3>3. call' \in [Caller -> CallLocals] /\ call'[a].msg \in Msg
          /\ \A b \in Caller : b # a => call'[b] = call[b]
      BY <1>0, <1>1, <3>1, <3>2 DEF Locals, CallLocals
    <3>4. Locals'
      BY <1>2, <3>2, <3>3, MoveTypes
    <3>5. SchedulerTypes'
      BY <1>0, <1>1, <1>12, <3>1, <3>2 DEF DequeueNext, SchedulerTypes
    <3> QED
      BY <1>12, <3>2, <3>4, <3>5, TypeInvParts, UnchangedTypes DEF DequeueNext
  <2> QED
    BY <2>1, <2>2
<1> QED
  BY <1>3, <1>4, <1>5, <1>6, <1>7, <1>8, <1>9, <1>10, <1>11, <1>12 DEF SubmitStep

\* Every step of start_turn and start_dialog_turn_internal keeps the types.
LEMMA StartTypes ==
  ASSUME TypeInv, NEW a \in Submitter, StartStep(a)
  PROVE  TypeInv'
<1> USE Processes
<1>0. /\ EngineTypes /\ SchedulerTypes /\ RoundTypes /\ Locals
      /\ CountTypes /\ ResultTypes /\ DrainedTypes
  BY TypeInvParts
<1>1. /\ pc[a] \in {"snapshot", "drain", "begin", "persist", "spawn", "resolve", "insert", "failed"}
      /\ pc[a] # "recv" /\ pc[a] \in HasMessage
  BY DEF StartStep, StartSnapshot, WaitSessionDrained, StartAborted, StartPersistedTurn,
         PersistFails, RegisterTurn, ContextFails, SpawnTurn, ResolveTurn, InsertActiveTurn,
         StartFailed, At, HasMessage
<1>2. /\ a \in Caller /\ call[a] \in CallLocals /\ call[a].msg \in Msg
      /\ SessionOf(a) = Target[call[a].msg] /\ SessionOf(a) \in Session
  BY <1>0, <1>1, MessageType DEF Locals
<1>3. \A l \in {"drain", "begin", "persist", "spawn", "resolve", "failed"} :
        l \in SubmitPc /\ l # "insert"
  BY DEF SubmitPc
<1>4. CASE StartSnapshot(a) \/ WaitSessionDrained(a) \/ StartAborted(a) \/ PersistFails(a)
  <2>1. PICK l \in {"failed", "drain", "begin"} : Goto(a, l)
    BY <1>4 DEF StartSnapshot, WaitSessionDrained, StartAborted, PersistFails
  <2>2. UNCHANGED <<engine, scheduler, rounds, call, job, cancel, history>>
    BY <1>4 DEF StartSnapshot, WaitSessionDrained, StartAborted, PersistFails
  <2>3. Locals'
    BY <1>1, <1>2, <1>3, <2>1, <2>2, GotoTypes
  <2> QED
    BY <2>2, <2>3, TypeInvParts, UnchangedTypes DEF history
<1>5. CASE StartPersistedTurn(a)
  <2>1. Locals'
    BY <1>1, <1>2, <1>3, <1>5, GotoTypes DEF StartPersistedTurn
  <2>2. EngineTypes'
    <3>1. Processing(call[a].msg) \in SessionState
      BY <1>2 DEF SessionState
    <3> QED
      BY <1>0, <1>2, <1>5, <3>1 DEF StartPersistedTurn, EngineTypes, TasksAreSet
  <2>3. CountTypes'
    BY <1>0, <1>2, <1>5, SchedulerAssumption DEF StartPersistedTurn, CountTypes
  <2> QED
    BY <1>5, <2>1, <2>2, <2>3, TypeInvParts, UnchangedTypes DEF StartPersistedTurn
<1>6. CASE RegisterTurn(a) \/ ContextFails(a)
  <2>1. PICK l \in {"spawn", "failed"} : Goto(a, l)
    BY <1>6 DEF RegisterTurn, ContextFails
  <2>2. UNCHANGED <<state, task, scheduler, rounds, call, job, cancel, history>>
    BY <1>6 DEF RegisterTurn, ContextFails
  <2>3. Locals'
    BY <1>1, <1>2, <1>3, <2>1, <2>2, GotoTypes
  <2>4. /\ inflight' \in [Session -> Int] /\ token' \in [Msg -> {"none", "live", "cancelled"}]
    BY <1>0, <1>2, <1>6 DEF RegisterTurn, ContextFails, EngineTypes
  <2>5. EngineTypes'
    BY <1>0, <2>2, <2>4 DEF EngineTypes, TasksAreSet
  <2> QED
    BY <2>2, <2>3, <2>5, TypeInvParts, UnchangedTypes DEF history
<1>7. CASE SpawnTurn(a)
  <2>1. Locals'
    BY <1>1, <1>2, <1>3, <1>7, GotoTypes DEF SpawnTurn
  <2>2. EngineTypes'
    <3> DEFINE t == <<call[a].msg, started[call[a].msg]>>
    <3>1. task' = [task EXCEPT ![t].phase = "running"]
      BY <1>7 DEF SpawnTurn
    <3>2. t \in Task => task'[t].phase = "running"
      BY <1>0, <3>1 DEF EngineTypes, TaskRecord
    <3>3. \A u \in Task : u # t => task'[u] = task[u]
      BY <1>0, <3>1 DEF EngineTypes
    <3>5. task' \in [Task -> TaskRecord]
      BY <1>0, <3>1 DEF EngineTypes, TaskRecord, Phase
    <3>6. TasksAreSet'
      BY <1>0, <3>2, <3>3 DEF EngineTypes, TasksAreSet
    <3> QED
      BY <1>0, <1>7, <3>5, <3>6 DEF SpawnTurn, EngineTypes
  <2> QED
    BY <1>7, <2>1, <2>2, TypeInvParts, UnchangedTypes DEF SpawnTurn, history
<1>8. CASE ResolveTurn(a)
  <2> DEFINE now == state[SessionOf(a)]
  <2>1. CASE now.kind = "Processing"
    <3>1. now.turn \in Msg
      BY <1>0, <1>2, <2>1 DEF EngineTypes, SessionState, Idle, Error, Processing
    <3>2. call' = [call EXCEPT ![a].turn = now.turn] /\ Goto(a, "insert")
      BY <1>8, <2>1 DEF ResolveTurn
    <3>3. call' \in [Caller -> CallLocals] /\ call'[a].msg \in Msg /\ call'[a].turn \in Msg
          /\ \A b \in Caller : b # a => call'[b] = call[b]
      BY <1>0, <1>2, <3>1, <3>2 DEF Locals, CallLocals
    <3>4. Locals'
      BY <1>1, <1>8, <3>2, <3>3, MoveTypes DEF ResolveTurn, SubmitPc
    <3> QED
      BY <1>8, <3>4, TypeInvParts, UnchangedTypes DEF ResolveTurn, history
  <2>2. CASE now.kind # "Processing"
    <3>1. Locals'
      BY <1>1, <1>2, <1>3, <1>8, <2>2, GotoTypes DEF ResolveTurn
    <3> QED
      BY <1>8, <3>1, TypeInvParts, UnchangedTypes DEF ResolveTurn, history
  <2> QED
    BY <2>1, <2>2
<1>9. CASE InsertActiveTurn(a)
  <2>1. Locals' /\ result' \in [External -> SubmitResult]
    <3>1. PICK r \in {"Queued", "Started"} : Return(a, r)
      BY <1>9 DEF InsertActiveTurn
    <3> QED
      BY <1>1, <1>9, <3>1, ReturnTypes DEF InsertActiveTurn, SubmitResult
  <2>2. call[a].turn \in Msg
    BY <1>0, <1>9 DEF InsertActiveTurn, At, Locals, CallsAreSet
  <2>3. SchedulerTypes'
    <3>1. [msg |-> call[a].msg, turn |-> call[a].turn] \in ActiveTurn
      BY <1>2, <2>2 DEF ActiveTurn
    <3> QED
      BY <1>0, <1>2, <1>9, <3>1 DEF InsertActiveTurn, SchedulerTypes
  <2> QED
    BY <1>0, <1>9, <2>1, <2>3, TypeInvParts, UnchangedTypes DEF InsertActiveTurn, ResultTypes
<1>10. CASE StartFailed(a)
  <2>1. Locals' /\ result' \in [External -> SubmitResult]
    BY <1>1, <1>10, ReturnTypes DEF StartFailed, SubmitResult
  <2>2. <<call[a].msg>> \o queues[SessionOf(a)] \in Seq(Msg)
    BY <1>0, <1>2, ConcatProperties DEF SchedulerTypes
  <2>3. SchedulerTypes'
    BY <1>0, <1>2, <1>10, <2>2 DEF StartFailed, SchedulerTypes
  <2> QED
    BY <1>0, <1>10, <2>1, <2>3, TypeInvParts, UnchangedTypes DEF StartFailed, ResultTypes
<1> QED
  BY <1>4, <1>5, <1>6, <1>7, <1>8, <1>9, <1>10 DEF StartStep

-----------------------------------------------------------------------------
\* A step of the outcome handler itself.
LEMMA HandlerMoves ==
  ASSUME TypeInv, NEW l \in {"recv", "clear", "goal", "called", "trynext"},
         Goto(Handler, l), UNCHANGED cancel, job' \in JobLocals,
         call' \in [Caller -> CallLocals],
         \A b \in Caller : b # Handler => call'[b] = call[b],
         l = "called" => call'[Handler].msg \in Msg,
         l # "recv" => job'.session \in Session
  PROVE  Locals'
<1> USE Processes
<1>0. /\ pc \in [Process -> PcLabel] /\ cancel \in [Canceller -> CancelLocals]
      /\ CallsAreSet /\ CancelsAreSet
  BY DEF TypeInv, TypeOK
<1>1. /\ pc' \in [Process -> PcLabel] /\ pc'[Handler] = l
      /\ \A b \in Process : b # Handler => pc'[b] = pc[b]
  BY <1>0 DEF Goto, PcLabel, SubmitPc, HandlerPc
<1>2. CallsAreSet'
  <2>1. \A b \in External : call'[b].msg \in Msg
    BY <1>0 DEF CallsAreSet
  <2>2. pc'[Handler] \in HasMessage => call'[Handler].msg \in Msg
    BY <1>1 DEF HasMessage
  <2>3. \A b \in Submitter : pc'[b] = "insert" => call'[b].turn \in Msg
    BY <1>0, <1>1 DEF CallsAreSet
  <2>4. \A i \in Steering : pc'[i] = "inject" => call'[i].turn \in Msg
    BY <1>0, <1>1 DEF CallsAreSet
  <2> QED
    BY <1>1, <2>1, <2>2, <2>3, <2>4 DEF CallsAreSet
<1>3. CancelsAreSet'
  BY <1>0, <1>1 DEF CancelsAreSet
<1> QED
  BY <1>0, <1>1, <1>2, <1>3 DEF Locals

\* Every step of run_outcome_handler keeps the types.
LEMMA HandlerTypes ==
  ASSUME TypeInv, HandlerStep
  PROVE  TypeInv'
<1> USE Processes
<1>0. /\ EngineTypes /\ SchedulerTypes /\ RoundTypes /\ Locals
      /\ CountTypes /\ ResultTypes /\ DrainedTypes
  BY TypeInvParts
<1>1. Handler \in Caller /\ call \in [Caller -> CallLocals] /\ job \in JobLocals
  BY <1>0 DEF Locals
<1>2. \A m \in Msg \cup {None}, stage \in {"none", "reply"}, e \in ActiveTurn \cup {NoEntry},
        o \in Outcome :
        HandlerCalls(m, stage, e, o) =>
          /\ job' \in JobLocals /\ job'.session \in Session
          /\ call' \in [Caller -> CallLocals] /\ call'[Handler].msg = m
          /\ \A b \in Caller : b # Handler => call'[b] = call[b]
  <2> SUFFICES ASSUME NEW m \in Msg \cup {None}, NEW stage \in {"none", "reply"},
                      NEW e \in ActiveTurn \cup {NoEntry}, NEW o \in Outcome,
                      HandlerCalls(m, stage, e, o)
               PROVE  /\ job' \in JobLocals /\ job'.session \in Session
                      /\ call' \in [Caller -> CallLocals] /\ call'[Handler].msg = m
                      /\ \A b \in Caller : b # Handler => call'[b] = call[b]
    OBVIOUS
  <2>1. job' \in JobLocals /\ job'.session \in Session
    BY DEF HandlerCalls, JobLocals, Outcome
  <2>2. /\ call' \in [Caller -> CallLocals] /\ call'[Handler].msg = m
        /\ \A b \in Caller : b # Handler => call'[b] = call[b]
    BY <1>1, FreshType DEF HandlerCalls
  <2> QED
    BY <2>1, <2>2
<1>3. CASE ReceiveOutcome
  <2> DEFINE o == Head(outcomes)
  <2> DEFINE s == o.session
  <2> DEFINE entry == active[s]
  <2>1. o \in Outcome /\ Tail(outcomes) \in Seq(Outcome) /\ s \in Session /\ o.turn \in Msg
    <3>1. o \in Outcome /\ Tail(outcomes) \in Seq(Outcome)
      BY <1>0, <1>3, HeadTailProperties DEF ReceiveOutcome, SchedulerTypes
    <3> QED
      BY <3>1 DEF Outcome
  <2>2. entry \in ActiveTurn \cup {NoEntry}
    BY <1>0, <2>1 DEF SchedulerTypes
  <2>3. \/ /\ entry # NoEntry /\ IsAgentSessionRequest(entry.msg)
           /\ HandlerCalls(ReplyTo[entry.msg], "reply", entry, o)
           /\ submits' = [submits EXCEPT ![ReplyTo[entry.msg]] = @ + 1]
           /\ Goto(Handler, "called")
        \/ /\ HandlerCalls(None, "none", entry, o) /\ Goto(Handler, "clear")
           /\ UNCHANGED submits
    BY <1>3 DEF ReceiveOutcome
  <2>4. /\ outcomes' = Tail(outcomes)
        /\ yield' = [yield EXCEPT ![s] = FALSE]
        /\ buffer' = [buffer EXCEPT ![s] = @ \ Eligible(s, o.turn)]
        /\ drained' = drained \cup
             {[id |-> i.id, by |-> "handler", turn |-> o.turn] : i \in Eligible(s, o.turn)}
        /\ suppressed' = suppressed \ {<<s, o.turn>>}
        /\ active' = [active EXCEPT ![s] = NoEntry]
        /\ UNCHANGED <<engine, queues, cancel, started, cleared, result>>
    BY <1>3 DEF ReceiveOutcome
  <2> HIDE DEF o, s, entry
  <2>5. Locals' /\ CountTypes'
    <3>1. CASE /\ entry # NoEntry /\ IsAgentSessionRequest(entry.msg)
               /\ HandlerCalls(ReplyTo[entry.msg], "reply", entry, o)
               /\ submits' = [submits EXCEPT ![ReplyTo[entry.msg]] = @ + 1]
               /\ Goto(Handler, "called")
      <4>1. entry.msg \in Msg /\ ReplyTo[entry.msg] \in Msg
        BY <2>2, <3>1, SchedulerAssumption DEF ActiveTurn, IsAgentSessionRequest
      <4>2. Locals'
        BY <1>2, <2>1, <2>2, <2>4, <3>1, <4>1, HandlerMoves
      <4>3. CountTypes'
        BY <1>0, <2>4, <3>1, <4>1 DEF CountTypes
      <4> QED BY <4>2, <4>3
    <3>2. CASE /\ HandlerCalls(None, "none", entry, o) /\ Goto(Handler, "clear")
               /\ UNCHANGED submits
      BY <1>0, <1>2, <2>1, <2>2, <2>4, <3>2, HandlerMoves DEF CountTypes
    <3> QED BY <2>3, <3>1, <3>2
  <2>6. SchedulerTypes'
    BY <1>0, <2>1, <2>4 DEF SchedulerTypes
  <2>7. RoundTypes'
    BY <1>0, <2>1, <2>4 DEF RoundTypes
  <2>8. DrainedTypes'
    BY <1>0, <2>1, <2>4 DEF DrainedTypes, RoundTypes, Eligible, RoundInjection
  <2> QED
    BY <2>4, <2>5, <2>6, <2>7, <2>8, TypeInvParts, UnchangedTypes
<1>4. CASE ClearAfterFailure
  <2>1. job.session \in Session
    BY <1>0, <1>4 DEF ClearAfterFailure, At, Locals, CallsAreSet
  <2>2. Locals'
    BY <1>0, <1>4, <2>1, HandlerMoves DEF ClearAfterFailure, Locals
  <2>3. Clear(job.session) \/ UNCHANGED <<queues, cleared>>
    BY <1>4 DEF ClearAfterFailure
  <2>4. SchedulerTypes' /\ ResultTypes'
    BY <1>0, <1>4, <2>1, <2>3, ClearTypes DEF ClearAfterFailure, SchedulerTypes, ResultTypes
  <2> QED
    BY <1>4, <2>2, <2>4, TypeInvParts, UnchangedTypes DEF ClearAfterFailure
<1>5. CASE GoalContinuation
  <2> DEFINE m == IF job.entry = NoEntry THEN None ELSE GoalMsg[job.entry.msg]
  <2>1. job.session \in Session
    BY <1>0, <1>5 DEF GoalContinuation, At, Locals, CallsAreSet
  <2>2. m \in Msg \cup {None}
    BY <1>1, SchedulerAssumption DEF JobLocals, ActiveTurn
  <2>3. \/ /\ m # None
           /\ call' = [call EXCEPT ![Handler] = Fresh(m)]
           /\ job' = [job EXCEPT !.stage = "goal"]
           /\ submits' = [submits EXCEPT ![m] = @ + 1]
           /\ Goto(Handler, "called")
        \/ /\ job' = IF AfterGoal(job.status) = "recv" THEN NoJob
                     ELSE [job EXCEPT !.stage = "dispatch"]
           /\ Goto(Handler, AfterGoal(job.status))
           /\ UNCHANGED <<call, submits>>
    BY <1>5 DEF GoalContinuation
  <2>4. UNCHANGED <<engine, scheduler, rounds, cancel, started, cleared, result, drained>>
    BY <1>5 DEF GoalContinuation
  <2> HIDE DEF m
  <2>5. Locals' /\ CountTypes'
    <3>1. CASE /\ m # None
               /\ call' = [call EXCEPT ![Handler] = Fresh(m)]
               /\ job' = [job EXCEPT !.stage = "goal"]
               /\ submits' = [submits EXCEPT ![m] = @ + 1]
               /\ Goto(Handler, "called")
      <4>1. job' \in JobLocals /\ job'.session \in Session
        BY <1>1, <2>1, <3>1 DEF JobLocals
      <4>2. /\ call' \in [Caller -> CallLocals] /\ call'[Handler].msg \in Msg
            /\ \A b \in Caller : b # Handler => call'[b] = call[b]
        BY <1>1, <2>2, <3>1, FreshType
      <4>3. CountTypes'
        BY <1>0, <2>2, <2>4, <3>1 DEF CountTypes
      <4> QED
        BY <2>4, <3>1, <4>1, <4>2, <4>3, HandlerMoves
    <3>2. CASE /\ job' = IF AfterGoal(job.status) = "recv" THEN NoJob
                         ELSE [job EXCEPT !.stage = "dispatch"]
               /\ Goto(Handler, AfterGoal(job.status))
               /\ UNCHANGED <<call, submits>>
      <4>1. AfterGoal(job.status) \in {"trynext", "recv"}
        BY DEF AfterGoal
      <4>2. job' \in JobLocals /\ (AfterGoal(job.status) # "recv" => job'.session \in Session)
        BY <1>1, <2>1, <3>2 DEF JobLocals, NoJob
      <4> QED
        BY <1>0, <1>1, <2>4, <3>2, <4>1, <4>2, HandlerMoves DEF CountTypes
    <3> QED BY <2>3, <3>1, <3>2
  <2> QED
    BY <2>4, <2>5, TypeInvParts, UnchangedTypes
<1> QED
  BY <1>3, <1>4, <1>5 DEF HandlerStep

-----------------------------------------------------------------------------
\* Every step of an execution task keeps the types.
LEMMA TaskTypes ==
  ASSUME TypeInv, NEW t \in Task, TaskStep(t)
  PROVE  TypeInv'
<1>0. /\ EngineTypes /\ SchedulerTypes /\ RoundTypes /\ Locals
      /\ CountTypes /\ ResultTypes /\ DrainedTypes
  BY TypeInvParts
<1>1. t[1] \in Msg /\ Target[t[1]] \in Session /\ task[t] \in TaskRecord
  BY <1>0, SchedulerAssumption DEF Task, EngineTypes
<1>2. CASE EngineInject(t)
  <2> DEFINE s == Target[t[1]]
  <2>1. /\ buffer' = [buffer EXCEPT ![s] = @ \ Eligible(s, t[1])]
        /\ drained' = drained \cup
             {[id |-> i.id, by |-> "engine", turn |-> t[1]] : i \in Eligible(s, t[1])}
        /\ UNCHANGED <<engine, scheduler, yield, locals, started, submits, cleared, result>>
    BY <1>2 DEF EngineInject
  <2>2. RoundTypes'
    BY <1>0, <1>1, <2>1 DEF RoundTypes
  <2>3. DrainedTypes'
    BY <1>0, <1>1, <2>1 DEF DrainedTypes, RoundTypes, Eligible, RoundInjection
  <2> QED
    BY <2>1, <2>2, <2>3, TypeInvParts, UnchangedTypes
<1>3. ASSUME NEW v \in Status, EngineReturns(t, v), yield' \in [Session -> BOOLEAN]
      PROVE  TypeInv'
  <2>1. EngineTypes'
    <3>1. /\ task' = [task EXCEPT ![t] = [phase |-> "ended", verdict |-> v]]
          /\ token' = [token EXCEPT ![t[1]] = "none"]
          /\ UNCHANGED <<state, inflight>>
      BY <1>3 DEF EngineReturns
    <3>2. [phase |-> "ended", verdict |-> v] \in TaskRecord
      BY DEF TaskRecord, Phase
    <3> QED
      BY <1>0, <1>1, <3>1, <3>2 DEF EngineTypes, TasksAreSet
  <2>2. RoundTypes'
    BY <1>0, <1>3 DEF EngineReturns, RoundTypes
  <2> QED
    BY <1>3, <2>1, <2>2, TypeInvParts, UnchangedTypes DEF EngineReturns, history
<1>4. CASE EngineAnswers(t) \/ EngineStops(t) \/ EngineCancelled(t) \/ EngineFails(t)
  <2>1. PICK v \in Status : EngineReturns(t, v) /\ UNCHANGED yield
    BY <1>4 DEF EngineAnswers, EngineStops, EngineCancelled, EngineFails, Status
  <2> QED
    BY <1>0, <1>3, <2>1 DEF RoundTypes
<1>5. CASE EngineYields(t)
  <2>1. PICK v \in {"Completed", "Failed"} : EngineReturns(t, v)
    BY <1>5 DEF EngineYields
  <2>2. yield' \in [Session -> BOOLEAN]
    BY <1>0, <1>5 DEF EngineYields, RoundTypes
  <2> QED
    BY <1>3, <2>1, <2>2 DEF Status
<1>6. ASSUME NEW ph \in {"settled", "notified", "dropped"},
             task' = [task EXCEPT ![t].phase = ph],
             ph = "settled" => task[t].verdict \in Status
      PROVE  task' \in [Task -> TaskRecord] /\ TasksAreSet'
  <2>1. task' \in [Task -> TaskRecord]
    BY <1>0, <1>1, <1>6 DEF EngineTypes, TaskRecord, Phase
  <2>2. task'[t].phase = ph /\ task'[t].verdict = task[t].verdict
    BY <1>0, <1>1, <1>6 DEF EngineTypes, TaskRecord
  <2>3. \A u \in Task : u # t => task'[u] = task[u]
    BY <1>0, <1>6 DEF EngineTypes
  <2> QED
    BY <1>0, <1>6, <2>1, <2>2, <2>3 DEF EngineTypes, TasksAreSet
<1>7. CASE EnginePanics(t)
  <2>1. EngineTypes'
    BY <1>0, <1>6, <1>7 DEF EnginePanics, EngineTypes
  <2> QED
    BY <1>7, <2>1, TypeInvParts, UnchangedTypes DEF EnginePanics, history
<1>8. \A new \in {Idle, Error} : \A s \in Session :
        IfProcessing(s, t[1], new) \in [Session -> SessionState]
  BY <1>0 DEF IfProcessing, EngineTypes, SessionState
<1>9. CASE TurnSettles(t)
  <2>1. task[t].verdict \in Status
    BY <1>0, <1>9 DEF TurnSettles, InPhase, EngineTypes, TasksAreSet
  <2>2. state' \in [Session -> SessionState]
    BY <1>1, <1>8, <1>9 DEF TurnSettles
  <2>3. EngineTypes'
    BY <1>0, <1>6, <1>9, <2>1, <2>2 DEF TurnSettles, EngineTypes
  <2> QED
    BY <1>9, <2>3, TypeInvParts, UnchangedTypes DEF TurnSettles, history
<1>10. CASE TurnNotifies(t)
  <2>1. [session |-> Target[t[1]], turn |-> t[1], status |-> task[t].verdict] \in Outcome
    BY <1>0, <1>1, <1>10 DEF TurnNotifies, InPhase, EngineTypes, TasksAreSet, Outcome
  <2>2. outcomes' \in Seq(Outcome)
    BY <1>0, <1>10, <2>1, AppendProperties DEF TurnNotifies, SchedulerTypes
  <2>3. SchedulerTypes'
    BY <1>0, <1>10, <2>2 DEF TurnNotifies, SchedulerTypes
  <2>4. EngineTypes'
    BY <1>0, <1>6, <1>10 DEF TurnNotifies, EngineTypes
  <2> QED
    BY <1>10, <2>3, <2>4, TypeInvParts, UnchangedTypes DEF TurnNotifies, history
<1>11. CASE GuardDrops(t)
  <2>1. state' \in [Session -> SessionState]
    BY <1>1, <1>8, <1>11 DEF GuardDrops
  <2>2. inflight' \in [Session -> Int]
    BY <1>0, <1>1, <1>11 DEF GuardDrops, EngineTypes
  <2>3. EngineTypes'
    BY <1>0, <1>6, <1>11, <2>1, <2>2 DEF GuardDrops, EngineTypes
  <2> QED
    BY <1>11, <2>3, TypeInvParts, UnchangedTypes DEF GuardDrops, history
<1> QED
  BY <1>2, <1>4, <1>5, <1>7, <1>9, <1>10, <1>11 DEF TaskStep, EngineEnds

-----------------------------------------------------------------------------
\* A step of a cancel: to its next point, or to its end.
LEMMA CancelMoves ==
  ASSUME TypeInv, NEW c \in Canceller, NEW l \in CancelPc \cup {"done"},
         Goto(c, l), UNCHANGED <<call, job>>,
         cancel' \in [Canceller -> CancelLocals],
         \A d \in Canceller : d # c => cancel'[d] = cancel[d],
         l \in CancelPc => cancel'[c].session \in Session,
         l = "suppress" => cancel'[c].key \in Msg,
         l \in {"idle", "token"} => cancel'[c].victim \in Msg
  PROVE  Locals'
<1> USE Processes
<1>0. /\ pc \in [Process -> PcLabel] /\ call \in [Caller -> CallLocals] /\ job \in JobLocals
      /\ CallsAreSet /\ CancelsAreSet
  BY DEF TypeInv, TypeOK
<1>1. /\ pc' \in [Process -> PcLabel] /\ pc'[c] = l
      /\ \A b \in Process : b # c => pc'[b] = pc[b]
  BY <1>0 DEF Goto, PcLabel
<1>2. CallsAreSet'
  BY <1>0, <1>1 DEF CallsAreSet
<1>3. CancelsAreSet'
  BY <1>0, <1>1 DEF CancelsAreSet
<1> QED
  BY <1>0, <1>1, <1>2, <1>3 DEF Locals

\* Every step of a cancel keeps the types.
LEMMA CancelTypes ==
  ASSUME TypeInv, NEW c \in Canceller, CancelBegin(c) \/ UserCancel(c) \/ CancelStep(c)
  PROVE  TypeInv'
<1>0. /\ EngineTypes /\ SchedulerTypes /\ RoundTypes /\ Locals
      /\ CountTypes /\ ResultTypes /\ DrainedTypes
  BY TypeInvParts
<1>1. /\ cancel \in [Canceller -> CancelLocals] /\ CancelsAreSet
      /\ state \in [Session -> SessionState] /\ active \in [Session -> ActiveTurn \cup {NoEntry}]
      /\ suppressed \subseteq Session \X Msg
  BY <1>0 DEF Locals, EngineTypes, SchedulerTypes
<1>2. CASE CancelBegin(c)
  <2>1. PICK s \in Session, key \in Msg \cup {None}, l \in {"suppress", "find"} :
          /\ cancel' = [cancel EXCEPT ![c] = [session |-> s, key |-> key, victim |-> None]]
          /\ Goto(c, l) /\ (l = "suppress" => key \in Msg)
    <3>1. PICK s \in Session :
            LET entry == active[s]
                own == /\ entry # NoEntry
                       /\ IsAgentSessionRequest(entry.msg)
                       /\ Target[ReplyTo[entry.msg]] = Requester[c]
            IN  /\ cancel' = [cancel EXCEPT ![c] =
                     [session |-> s, key |-> IF own THEN entry.turn ELSE None, victim |-> None]]
                /\ Goto(c, IF own THEN "suppress" ELSE "find")
      BY <1>2 DEF CancelBegin
    <3>2. active[s] # NoEntry => active[s].turn \in Msg
      BY <1>1 DEF ActiveTurn
    <3> QED
      BY <3>1, <3>2
  <2>2. [session |-> s, key |-> key, victim |-> None] \in CancelLocals
    BY DEF CancelLocals
  <2>3. Locals'
    BY <1>1, <1>2, <2>1, <2>2, CancelMoves DEF CancelBegin, CancelUnchanged, CancelPc
  <2> QED
    BY <1>0, <1>2, <2>3, TypeInvParts, UnchangedTypes
    DEF CancelBegin, CancelUnchanged, SchedulerTypes, history
<1>3. CASE UserCancel(c)
  <2>1. PICK m \in Msg :
          cancel' = [cancel EXCEPT ![c] = [session |-> Target[m], key |-> None, victim |-> m]]
    BY <1>3 DEF UserCancel
  <2>2. Target[m] \in Session /\ [session |-> Target[m], key |-> None, victim |-> m] \in CancelLocals
    BY SchedulerAssumption DEF CancelLocals
  <2>3. Locals'
    BY <1>1, <1>3, <2>1, <2>2, CancelMoves DEF UserCancel, CancelUnchanged, CancelPc
  <2> QED
    BY <1>0, <1>3, <2>3, TypeInvParts, UnchangedTypes
    DEF UserCancel, CancelUnchanged, SchedulerTypes, history
<1>4. CASE SuppressReply(c)
  <2>1. cancel[c].session \in Session /\ cancel[c].key \in Msg
    BY <1>1, <1>4 DEF SuppressReply, At, CancelsAreSet, CancelPc
  <2>2. Locals'
    BY <1>1, <1>4, <2>1, CancelMoves DEF SuppressReply, CancelUnchanged, CancelPc
  <2>3. SchedulerTypes'
    BY <1>0, <1>1, <1>4, <2>1 DEF SuppressReply, CancelUnchanged, SchedulerTypes
  <2> QED
    BY <1>4, <2>2, <2>3, TypeInvParts, UnchangedTypes DEF SuppressReply, CancelUnchanged, history
<1>5. CASE CancelFind(c)
  <2>1. cancel[c].session \in Session
    BY <1>1, <1>5 DEF CancelFind, At, CancelsAreSet, CancelPc
  <2>2. suppressed' \subseteq Session \X Msg
    BY <1>1, <1>5 DEF CancelFind
  <2>3. Locals'
    <3> DEFINE now == state[cancel[c].session]
    <3>1. CASE now.kind = "Processing"
      <4>1. now.turn \in Msg
        BY <1>1, <2>1, <3>1 DEF SessionState, Idle, Error, Processing
      <4>2. /\ cancel' = [cancel EXCEPT ![c].victim = now.turn] /\ Goto(c, "idle")
        BY <1>5, <3>1 DEF CancelFind
      <4>3. /\ cancel' \in [Canceller -> CancelLocals]
            /\ cancel'[c].session \in Session /\ cancel'[c].victim \in Msg
            /\ \A d \in Canceller : d # c => cancel'[d] = cancel[d]
        BY <1>1, <2>1, <4>1, <4>2 DEF CancelLocals
      <4> QED
        BY <1>5, <4>2, <4>3, CancelMoves DEF CancelFind, CancelUnchanged, CancelPc
    <3>2. CASE now.kind # "Processing"
      <4>1. Goto(c, "done") /\ UNCHANGED cancel
        BY <1>5, <3>2 DEF CancelFind
      <4> QED
        BY <1>1, <1>5, <4>1, CancelMoves DEF CancelFind, CancelUnchanged, CancelPc
    <3> QED BY <3>1, <3>2
  <2>4. SchedulerTypes'
    BY <1>0, <1>5, <2>2 DEF CancelFind, CancelUnchanged, SchedulerTypes
  <2> QED
    BY <1>5, <2>3, <2>4, TypeInvParts, UnchangedTypes DEF CancelFind, CancelUnchanged, history
<1>6. CASE CancelSetsIdle(c)
  <2>1. cancel[c].session \in Session /\ cancel[c].victim \in Msg
    BY <1>1, <1>6 DEF CancelSetsIdle, At, CancelsAreSet, CancelPc
  <2>2. PICK l \in {"token", "done"} : Goto(c, l)
    BY <1>6 DEF CancelSetsIdle
  <2>3. Locals'
    BY <1>1, <1>6, <2>1, <2>2, CancelMoves DEF CancelSetsIdle, CancelUnchanged, CancelPc
  <2>4. EngineTypes'
    BY <1>0, <1>1, <1>6
    DEF CancelSetsIdle, CancelUnchanged, IfProcessing, EngineTypes, TasksAreSet, SessionState
  <2>5. suppressed' \subseteq Session \X Msg
    BY <1>1, <1>6 DEF CancelSetsIdle
  <2>6. SchedulerTypes'
    BY <1>0, <1>6, <2>5 DEF CancelSetsIdle, CancelUnchanged, SchedulerTypes
  <2> QED
    BY <1>6, <2>3, <2>4, <2>6, TypeInvParts, UnchangedTypes
    DEF CancelSetsIdle, CancelUnchanged, history
<1>7. CASE CancelTriggersToken(c)
  <2>1. cancel[c].session \in Session /\ cancel[c].victim \in Msg
    BY <1>1, <1>7 DEF CancelTriggersToken, At, CancelsAreSet, CancelPc
  <2>2. Locals'
    BY <1>1, <1>7, CancelMoves DEF CancelTriggersToken, CancelUnchanged, CancelPc
  <2>3. EngineTypes'
    BY <1>0, <1>7, <2>1 DEF CancelTriggersToken, EngineTypes, TasksAreSet
  <2> QED
    BY <1>0, <1>7, <2>2, <2>3, TypeInvParts, UnchangedTypes
    DEF CancelTriggersToken, CancelUnchanged, SchedulerTypes, history
<1> QED
  BY <1>2, <1>3, <1>4, <1>5, <1>6, <1>7 DEF CancelStep

\* Both steps of submit_steering keep the types.
LEMMA SteeringTypes ==
  ASSUME TypeInv, NEW i \in Steering, SteerChecks(i) \/ SteerPushes(i)
  PROVE  TypeInv'
<1> USE Processes
<1>0. /\ EngineTypes /\ SchedulerTypes /\ RoundTypes /\ Locals
      /\ CountTypes /\ ResultTypes /\ DrainedTypes
  BY TypeInvParts
<1>1. /\ pc \in [Process -> PcLabel] /\ call \in [Caller -> CallLocals] /\ job \in JobLocals
      /\ cancel \in [Canceller -> CancelLocals] /\ CallsAreSet /\ CancelsAreSet
  BY <1>0 DEF Locals
<1>2. CASE SteerChecks(i)
  <2>1. PICK m \in Msg, l \in {"inject", "done"} :
          call' = [call EXCEPT ![i].turn = m] /\ Goto(i, l)
    BY <1>2 DEF SteerChecks
  <2>2. /\ call' \in [Caller -> CallLocals] /\ call'[i].turn = m
        /\ \A b \in Caller : b # i => call'[b] = call[b]
    BY <1>1, <2>1 DEF CallLocals
  <2>3. /\ pc' \in [Process -> PcLabel] /\ pc'[i] = l
        /\ \A b \in Process : b # i => pc'[b] = pc[b]
    BY <1>1, <2>1 DEF Goto, PcLabel, SubmitPc
  <2>4. UNCHANGED <<job, cancel>>
    BY <1>2 DEF SteerChecks
  <2>5. CallsAreSet'
    BY <1>1, <2>2, <2>3, <2>4 DEF CallsAreSet
  <2>6. CancelsAreSet'
    BY <1>1, <2>3, <2>4 DEF CancelsAreSet
  <2> QED
    BY <1>1, <1>2, <2>2, <2>3, <2>4, <2>5, <2>6, TypeInvParts, UnchangedTypes
    DEF SteerChecks, Locals, history
<1>3. CASE SteerPushes(i)
  <2>1. call[i].turn \in Msg /\ Target[call[i].turn] \in Session
    BY <1>1, <1>3, SchedulerAssumption DEF SteerPushes, At, CallsAreSet
  <2>2. RoundTypes'
    BY <1>0, <1>3, <2>1 DEF SteerPushes, RoundTypes, RoundInjection
  <2>3. /\ pc' \in [Process -> PcLabel] /\ pc'[i] = "done"
        /\ \A b \in Process : b # i => pc'[b] = pc[b]
    BY <1>1, <1>3 DEF SteerPushes, Goto, PcLabel
  <2>4. UNCHANGED <<call, job, cancel>>
    BY <1>3 DEF SteerPushes
  <2>5. CallsAreSet' /\ CancelsAreSet'
    BY <1>1, <2>3, <2>4 DEF CallsAreSet, CancelsAreSet
  <2> QED
    BY <1>1, <1>3, <2>2, <2>3, <2>4, <2>5, TypeInvParts, UnchangedTypes
    DEF SteerPushes, Locals, history
<1> QED
  BY <1>2, <1>3

-----------------------------------------------------------------------------
LEMMA InitTypes == Init => TypeInv
<1> SUFFICES ASSUME Init PROVE TypeInv
  OBVIOUS
<1> USE Processes, SchedulerAssumption DEF Init
<1>1. EngineTypes
  BY DEF EngineTypes, TasksAreSet, TaskRecord, Phase, SessionState
<1>2. SchedulerTypes /\ RoundTypes
  BY DEF SchedulerTypes, RoundTypes
<1>3. Locals
  <2>1. pc \in [Process -> PcLabel]
    BY DEF PcLabel, HandlerPc
  <2>2. call \in [Caller -> CallLocals]
    BY FreshType
  <2>3. job \in JobLocals /\ cancel \in [Canceller -> CancelLocals]
    BY DEF JobLocals, NoJob, CancelLocals
  <2>4. CallsAreSet
    BY FreshType DEF CallsAreSet, HasMessage
  <2>5. CancelsAreSet
    BY DEF CancelsAreSet, CancelPc
  <2> QED
    BY <2>1, <2>2, <2>3, <2>4, <2>5 DEF Locals
<1>4. CountTypes /\ ResultTypes /\ DrainedTypes
  BY DEF CountTypes, ResultTypes, SubmitResult, DrainedTypes
<1> QED
  BY <1>1, <1>2, <1>3, <1>4, TypeInvParts

\* One case per group of actions of Next.
LEMMA StepTypes ==
  ASSUME TypeInv, [Next]_vars
  PROVE  TypeInv'
<1>1. ASSUME NEW a \in External, Calls(a) PROVE TypeInv'
  <2>1. a \in Submitter /\ pc[a] # "recv" /\ (Submit(a) \/ DeliverBackground(a))
    BY <1>1, Processes DEF Calls, DeliverBackground, At
  <2> QED
    BY <2>1, SubmitTypes
<1>2. ASSUME NEW a \in Submitter, SubmitStep(a) PROVE TypeInv'
  <2>1. pc[a] # "recv"
    BY <1>2 DEF SubmitStep, InjectBackground, Submit, SubmitDecide, EnqueueCheck, EnqueuePush,
      EnqueueReorder, RequestYield, TryNextCheck, DequeueNext, At
  <2> QED
    BY <1>2, <2>1, SubmitTypes
<1>3. ASSUME NEW a \in Submitter, StartStep(a) PROVE TypeInv'
  BY <1>3, StartTypes
<1>4. CASE HandlerStep
  BY <1>4, HandlerTypes
<1>5. ASSUME NEW t \in Task, TaskStep(t) PROVE TypeInv'
  BY <1>5, TaskTypes
<1>6. ASSUME NEW c \in Canceller, CancelBegin(c) \/ UserCancel(c) \/ CancelStep(c) PROVE TypeInv'
  BY <1>6, CancelTypes
<1>7. ASSUME NEW i \in Steering, SteerChecks(i) \/ SteerPushes(i) PROVE TypeInv'
  BY <1>7, SteeringTypes
<1>8. CASE UNCHANGED vars
  BY <1>8, TypeInvParts, UnchangedTypes DEF vars, locals, history
<1> QED
  BY <1>1, <1>2, <1>3, <1>4, <1>5, <1>6, <1>7, <1>8 DEF Next

\* Every variable keeps its type, however many sessions, messages and callers
\* there are and whichever faults occur.
THEOREM TypeCorrect == Spec => []TypeOK
<1>1. TypeInv => TypeOK
  BY DEF TypeInv
<1> QED
  BY <1>1, InitTypes, StepTypes, PTL DEF Spec
=============================================================================
