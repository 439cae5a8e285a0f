------------------------ MODULE DialogMessageProofs ------------------------
(***************************************************************************)
(* Theorems about messages: each is in one place at a time, an accepted    *)
(* one is never lost, a request is answered at most once, and the life of  *)
(* a message is the one MessageLifecycle describes.  Then two counts: the  *)
(* active turns of a session, and the messages in its queue.               *)
(***************************************************************************)
EXTENDS DialogOwnershipProofs

-----------------------------------------------------------------------------
(* Where a message can be: in the queue of its session, or carried by a    *)
(* submitter that has not yet queued, started or given it up.              *)

StartTurnPc == {"snapshot", "drain", "begin", "failed"} \cup InStart
CarryPc == {"new", "called", "inject", "decide", "check", "push"} \cup StartTurnPc

Carrying(a) == pc[a] \in CarryPc
InQueue(m) == m \in ToSet(queues[Target[m]])
Awaits(m) == InQueue(m) \/ \E a \in Submitter : Carrying(a) /\ call[a].msg = m

\* It is the session's active turn, or the outcome handler, which has taken the
\* active turn, has not yet asked whether to continue its goal.
OnTurn(m) == active[Target[m]].msg = m
GoalAhead(m) == job.entry.msg = m /\ job.stage \in {"none", "reply"}

Submitted(m) == m \in External \/ submits[m] > 0
Child(m) == {ReplyTo[m], GoalMsg[m]} \ {None}

\* The locals of a submitter: an external caller works on its own message unless
\* it took another from the queue, the handler on a message of its own making.
CallAgrees(a) ==
  /\ call[a].queued => pc[a] \in StartTurnPc
  /\ a \in External /\ ~ call[a].queued => call[a].msg = a
  /\ a = Handler =>
       /\ Carrying(a) /\ ~ call[a].queued => call[a].msg \notin External
       /\ pc[a] \notin {"new", "inject"}
       /\ pc[a] \in {"clear", "goal"} => job.stage \in {"none", "reply"}
CallsAgree == \A a \in Submitter : CallAgrees(a)

OneEach(q) == \A i, j \in DOMAIN q : q[i] = q[j] => i = j
QueuesDiffer ==
  \A s \in Session : OneEach(queues[s]) /\ \A m \in ToSet(queues[s]) : Target[m] = s

\* No message is in two places.
PlacesDiffer ==
  /\ QueuesDiffer
  /\ \A a, b \in Submitter : Carrying(a) /\ Carrying(b) /\ call[a].msg = call[b].msg => a = b
  /\ \A a \in Submitter : Carrying(a) => ~ InQueue(call[a].msg)

\* A message that has become an active turn has run, and awaits nothing more.
EntriesAreOver ==
  /\ \A s \in Session : active[s] # NoEntry => Target[active[s].msg] = s
  /\ \A m \in Msg : OnTurn(m) => ~ Awaits(m) /\ started[m] > 0
  /\ \A m \in Msg : GoalAhead(m) => ~ Awaits(m) /\ ~ OnTurn(m) /\ started[m] > 0

\* The answer and the continuation of a message have not been submitted before its
\* outcome is handled, nor twice; nothing unsubmitted is anywhere.
SubmittedOnce ==
  \A m \in Msg :
    /\ Awaits(m) \/ OnTurn(m) \/ GoalAhead(m) \/ m \in cleared => Submitted(m)
    /\ \A c \in Child(m) :
         /\ Awaits(m) \/ OnTurn(m) => submits[c] = 0
         /\ GoalAhead(m) /\ c = GoalMsg[m] => submits[c] = 0
         /\ submits[c] <= 1 /\ (submits[c] > 0 => Submitted(m) /\ started[m] > 0)

ClearedIsOver == \A m \in Msg : Awaits(m) => m \notin cleared

\* An execution that has not been spawned has no task, and one that is being
\* started has been counted.
StartsAgree ==
  /\ \A a \in Submitter : pc[a] \in InStart => started[call[a].msg] > 0
  /\ \A a \in Submitter : pc[a] \in StartPc =>
       task[<<call[a].msg, started[call[a].msg]>>].phase = "none"
  /\ \A m \in Msg, k \in 1 .. MaxStarts : k > started[m] => task[<<m, k>>].phase = "none"

\* A message that reached the queue, whatever its caller has been told by now.
Pushed(m) ==
  result[m] = "Queued" \/ call[m].queued \/ pc[m] \in {"reorder", "yield", "trynext", "dequeue"}
Accounted(m) == InQueue(m) \/ Held(m) # {} \/ started[m] > 0 \/ m \in cleared
PushedIsAccounted == \A m \in External : Pushed(m) => Accounted(m)

MessageInv ==
  /\ CallsAgree /\ PlacesDiffer
  /\ EntriesAreOver /\ SubmittedOnce /\ ClearedIsOver
  /\ StartsAgree /\ PushedIsAccounted

-----------------------------------------------------------------------------
(* What the operations on one queue do to its messages.                    *)

LEMMA ToSetOf ==
  ASSUME NEW q \in Seq(Msg)
  PROVE  \A m : m \in ToSet(q) <=> \E i \in 1 .. Len(q) : q[i] = m
  BY DEF ToSet

LEMMA AppendOne ==
  ASSUME NEW q \in Seq(Msg), NEW m \in Msg, OneEach(q), m \notin ToSet(q)
  PROVE  OneEach(Append(q, m)) /\ ToSet(Append(q, m)) = ToSet(q) \cup {m}
<1> DEFINE p == Append(q, m)
<1>1. /\ p \in Seq(Msg) /\ Len(p) = Len(q) + 1 /\ Len(q) \in Nat
      /\ \A i \in 1 .. Len(q) : p[i] = q[i] /\ p[Len(q) + 1] = m
  BY AppendProperties, LenProperties
<1>2. DOMAIN p = 1 .. Len(q) + 1 /\ DOMAIN q = 1 .. Len(q) /\ p[Len(q) + 1] = m
  BY <1>1, AppendProperties, LenProperties
<1>3. \A i \in 1 .. Len(q) : q[i] # m
  BY <1>2 DEF ToSet
<1> HIDE DEF p
<1>4. OneEach(p)
  BY <1>1, <1>2, <1>3 DEF OneEach
<1>5. \A e : e \in ToSet(p) <=> e \in ToSet(q) \cup {m}
  BY <1>1, <1>2 DEF ToSet
<1> QED
  BY <1>4, <1>5 DEF p

LEMMA ConsOne ==
  ASSUME NEW q \in Seq(Msg), NEW m \in Msg, OneEach(q), m \notin ToSet(q)
  PROVE  OneEach(<<m>> \o q) /\ ToSet(<<m>> \o q) = ToSet(q) \cup {m}
<1> DEFINE p == <<m>> \o q
<1>0. <<m>> \in Seq(Msg) /\ Len(<<m>>) = 1 /\ <<m>>[1] = m
  OBVIOUS
<1>1. /\ p \in Seq(Msg) /\ Len(p) = 1 + Len(q) /\ Len(q) \in Nat
      /\ \A i \in 1 .. 1 + Len(q) : p[i] = IF i <= 1 THEN <<m>>[i] ELSE q[i - 1]
  BY <1>0, ConcatProperties, LenProperties
<1>2. DOMAIN p = 1 .. 1 + Len(q) /\ DOMAIN q = 1 .. Len(q)
  BY <1>1, LenProperties
<1>3. \A i \in 1 .. Len(q) : q[i] # m
  BY <1>2 DEF ToSet
<1> HIDE DEF p
<1>4. p[1] = m /\ \A i \in 2 .. 1 + Len(q) : p[i] = q[i - 1] /\ i - 1 \in 1 .. Len(q)
  BY <1>0, <1>1
<1>5. OneEach(p)
  <2>1. ASSUME NEW i \in 1 .. 1 + Len(q), NEW j \in 1 .. 1 + Len(q), p[i] = p[j]
        PROVE  i = j
    <3>0. \A k \in 2 .. 1 + Len(q) : p[k] # m
      BY <1>3, <1>4
    <3>1. CASE i = 1 \/ j = 1
      <4>1. i \notin 2 .. 1 + Len(q) \/ j \notin 2 .. 1 + Len(q)
        BY <3>1
      <4>2. i \notin 2 .. 1 + Len(q) /\ j \notin 2 .. 1 + Len(q)
        BY <1>1, <1>4, <2>1, <3>0, <4>1
      <4> QED
        BY <1>1, <4>2
    <3>2. CASE i # 1 /\ j # 1
      <4>1. i \in 2 .. 1 + Len(q) /\ j \in 2 .. 1 + Len(q)
        BY <1>1, <3>2
      <4>2. q[i - 1] = q[j - 1] /\ i - 1 \in 1 .. Len(q) /\ j - 1 \in 1 .. Len(q)
        BY <1>4, <2>1, <4>1
      <4>3. i - 1 = j - 1
        BY <1>2, <4>2 DEF OneEach
      <4> QED
        BY <4>1, <4>3
    <3> QED
      BY <3>1, <3>2
  <2> QED
    BY <1>2, <2>1 DEF OneEach
<1>6. ASSUME NEW e PROVE e \in ToSet(p) <=> e \in ToSet(q) \cup {m}
  <2>1. ASSUME e \in ToSet(p) PROVE e \in ToSet(q) \cup {m}
    <3>1. PICK i \in 1 .. 1 + Len(q) : e = p[i]
      BY <1>2, <2>1 DEF ToSet
    <3>2. i = 1 \/ i \in 2 .. 1 + Len(q)
      BY <1>1
    <3> QED
      BY <1>2, <1>4, <3>1, <3>2 DEF ToSet
  <2>2. ASSUME NEW i \in 1 .. Len(q) PROVE q[i] \in ToSet(p)
    <3>1. i + 1 \in 2 .. 1 + Len(q) /\ p[i + 1] = q[i]
      BY <1>1, <1>4
    <3> QED
      BY <1>2, <3>1 DEF ToSet
  <2>3. m \in ToSet(p)
    BY <1>1, <1>2, <1>4 DEF ToSet
  <2> QED
    BY <1>2, <2>1, <2>2, <2>3 DEF ToSet
<1> QED
  BY <1>5, <1>6 DEF p

LEMMA TailOne ==
  ASSUME NEW q \in Seq(Msg), q # <<>>, OneEach(q)
  PROVE  /\ OneEach(Tail(q)) /\ ToSet(Tail(q)) = ToSet(q) \ {Head(q)}
         /\ Head(q) \in ToSet(q) /\ Head(q) \in Msg
<1>1. /\ Len(q) \in Nat \ {0} /\ Tail(q) \in Seq(Msg) /\ Len(Tail(q)) = Len(q) - 1
      /\ \A i \in 1 .. Len(q) - 1 : Tail(q)[i] = q[i + 1]
      /\ Head(q) = q[1] /\ Head(q) \in Msg
  BY HeadTailProperties, EmptySeq
<1>2. DOMAIN Tail(q) = 1 .. Len(q) - 1 /\ DOMAIN q = 1 .. Len(q)
  BY <1>1, LenProperties
<1>3. \A i \in 1 .. Len(q) - 1 : i + 1 \in 2 .. Len(q)
  BY <1>1
<1>4. OneEach(Tail(q))
  BY <1>1, <1>2, <1>3 DEF OneEach
<1>5. ASSUME NEW e PROVE e \in ToSet(Tail(q)) <=> e \in ToSet(q) \ {q[1]}
  <2>1. ASSUME e \in ToSet(Tail(q)) PROVE e \in ToSet(q) \ {q[1]}
    <3>1. PICK i \in 1 .. Len(q) - 1 : e = q[i + 1]
      BY <1>1, <1>2, <2>1 DEF ToSet
    <3>2. i + 1 \in 1 .. Len(q) /\ 1 \in 1 .. Len(q) /\ i + 1 # 1
      BY <1>1
    <3> QED
      BY <1>2, <3>1, <3>2 DEF OneEach, ToSet
  <2>2. ASSUME e \in ToSet(q) \ {q[1]} PROVE e \in ToSet(Tail(q))
    <3>1. PICK i \in 1 .. Len(q) : e = q[i] /\ i # 1
      BY <1>2, <2>2 DEF ToSet
    <3>2. i - 1 \in 1 .. Len(q) - 1 /\ Tail(q)[i - 1] = e
      BY <1>1, <3>1
    <3> QED
      BY <1>2, <3>2 DEF ToSet
  <2> QED
    BY <2>1, <2>2
<1>6. q[1] \in ToSet(q)
  BY <1>1, <1>2 DEF ToSet
<1> QED
  BY <1>1, <1>4, <1>5, <1>6

LEMMA ReorderOne ==
  ASSUME NEW q \in Seq(Msg), OneEach(q)
  PROVE  OneEach(Reordered(q)) /\ ToSet(Reordered(q)) = ToSet(q)
<1>1. CASE q = <<>>
  BY <1>1 DEF Reordered
<1>2. CASE q # <<>>
  <2> DEFINE r == Reordered(q)
  <2> DEFINE n == Len(q)
  <2>0. n \in Nat \ {0}
    BY <1>2, EmptySeq
  <2>1. PICK i \in 1 .. n :
          /\ r \in Seq(Msg) /\ Len(r) = n
          /\ \A j \in 1 .. n : r[j] = IF j < i THEN q[j] ELSE IF j = i THEN q[n] ELSE q[j - 1]
    BY <1>2, ReorderedShape
  <2>2. DOMAIN r = 1 .. n /\ DOMAIN q = 1 .. n
    BY <2>1, LenProperties
  <2> HIDE DEF r, n
  \* The position in q of what is now at j, and back.
  <2> DEFINE old(j) == IF j < i THEN j ELSE IF j = i THEN n ELSE j - 1
  <2> DEFINE new(j) == IF j < i THEN j ELSE IF j = n THEN i ELSE j + 1
  <2>3. \A j \in 1 .. n : old(j) \in 1 .. n /\ r[j] = q[old(j)]
    BY <2>0, <2>1
  <2>4. \A j, k \in 1 .. n : old(j) = old(k) => j = k
    BY <2>0, <2>1
  <2>5. \A j \in 1 .. n : new(j) \in 1 .. n /\ old(new(j)) = j
    BY <2>0, <2>1
  <2> HIDE DEF old, new
  <2>6. OneEach(r)
    BY <2>2, <2>3, <2>4 DEF OneEach
  <2>7. \A e : e \in ToSet(r) <=> e \in ToSet(q)
    <3>1. \A j \in 1 .. n : r[j] \in ToSet(q)
      BY <2>2, <2>3 DEF ToSet
    <3>2. \A j \in 1 .. n : q[j] = r[new(j)] /\ new(j) \in 1 .. n
      BY <2>3, <2>5
    <3> QED
      BY <2>2, <3>1, <3>2 DEF ToSet
  <2> QED
    BY <2>6, <2>7 DEF r
<1> QED
  BY <1>1, <1>2

-----------------------------------------------------------------------------
(* What a step does to the queues, as sets of waiting messages.            *)

LEMMA QueueType ==
  ASSUME TypeInv, NEW s \in Session
  PROVE  queues[s] \in Seq(Msg) /\ \A m \in ToSet(queues[s]) : m \in Msg
<1>1. queues[s] \in Seq(Msg)
  BY DEF TypeInv, TypeOK
<1> QED
  BY <1>1, LenProperties, ElementOfSeq DEF ToSet

LEMMA PutQueue ==
  ASSUME TypeInv, QueuesDiffer, NEW m \in Msg, ~ InQueue(m),
         NEW q \in {Append(queues[Target[m]], m), <<m>> \o queues[Target[m]]},
         queues' = [queues EXCEPT ![Target[m]] = q]
  PROVE  QueuesDiffer' /\ \A n \in Msg : InQueue(n)' <=> InQueue(n) \/ n = m
<1>1. queues[Target[m]] \in Seq(Msg) /\ Target[m] \in Session
  BY QueueType, SchedulerAssumption
<1>2. OneEach(q) /\ ToSet(q) = ToSet(queues[Target[m]]) \cup {m}
  <2>1. OneEach(queues[Target[m]]) /\ m \notin ToSet(queues[Target[m]])
    BY <1>1 DEF QueuesDiffer, InQueue
  <2>2. CASE q = Append(queues[Target[m]], m)
    BY <1>1, <2>1, <2>2, AppendOne
  <2>3. CASE q = <<m>> \o queues[Target[m]]
    BY <1>1, <2>1, <2>3, ConsOne
  <2> QED
    BY <2>2, <2>3
<1>3. \A s \in Session : queues'[s] = IF s = Target[m] THEN q ELSE queues[s]
  BY DEF TypeInv, TypeOK
<1>4. QueuesDiffer'
  BY <1>2, <1>3 DEF QueuesDiffer
<1>5. \A n \in Msg : Target[n] \in Session
  BY SchedulerAssumption
<1>6. \A n \in Msg : InQueue(n)' <=> InQueue(n) \/ n = m
  BY <1>2, <1>3, <1>5 DEF InQueue
<1> QED
  BY <1>4, <1>6

LEMMA TakeQueue ==
  ASSUME TypeInv, QueuesDiffer, NEW s \in Session, queues[s] # <<>>,
         queues' = [queues EXCEPT ![s] = Tail(@)]
  PROVE  /\ Head(queues[s]) \in Msg /\ Target[Head(queues[s])] = s /\ InQueue(Head(queues[s]))
         /\ QueuesDiffer'
         /\ \A n \in Msg : InQueue(n)' <=> InQueue(n) /\ n # Head(queues[s])
<1>1. queues[s] \in Seq(Msg) /\ OneEach(queues[s])
  BY QueueType DEF QueuesDiffer
<1> DEFINE h == Head(queues[s])
<1>2. /\ OneEach(Tail(queues[s])) /\ ToSet(Tail(queues[s])) = ToSet(queues[s]) \ {h}
      /\ h \in ToSet(queues[s]) /\ h \in Msg
  BY <1>1, TailOne
<1>3. \A r \in Session : queues'[r] = IF r = s THEN Tail(queues[s]) ELSE queues[r]
  BY DEF TypeInv, TypeOK
<1> HIDE DEF h
<1>4. Target[h] = s /\ InQueue(h)
  BY <1>2 DEF QueuesDiffer, InQueue
<1>5. QueuesDiffer'
  BY <1>2, <1>3 DEF QueuesDiffer
<1>6. \A n \in Msg : Target[n] \in Session
  BY SchedulerAssumption
<1>7. \A n \in Msg : InQueue(n)' <=> InQueue(n) /\ n # h
  BY <1>2, <1>3, <1>4, <1>6 DEF InQueue
<1> QED
  BY <1>2, <1>4, <1>5, <1>7 DEF h

LEMMA ReorderQueue ==
  ASSUME TypeInv, QueuesDiffer, NEW s \in Session,
         queues' = [queues EXCEPT ![s] = Reordered(@)]
  PROVE  QueuesDiffer' /\ \A n \in Msg : InQueue(n)' <=> InQueue(n)
<1>1. OneEach(Reordered(queues[s])) /\ ToSet(Reordered(queues[s])) = ToSet(queues[s])
  BY QueueType, ReorderOne DEF QueuesDiffer
<1>2. \A r \in Session : queues'[r] = IF r = s THEN Reordered(queues[s]) ELSE queues[r]
  BY DEF TypeInv, TypeOK
<1>3. \A n \in Msg : Target[n] \in Session
  BY SchedulerAssumption
<1> QED
  BY <1>1, <1>2, <1>3 DEF QueuesDiffer, InQueue

LEMMA ClearQueue ==
  ASSUME TypeInv, QueuesDiffer, NEW s \in Session, Clear(s)
  PROVE  /\ QueuesDiffer'
         /\ \A n \in Msg : InQueue(n)' <=> InQueue(n) /\ Target[n] # s
         /\ \A n \in Msg : n \in cleared' <=> n \in cleared \/ (InQueue(n) /\ Target[n] = s)
<1>1. \A r \in Session : queues'[r] = IF r = s THEN <<>> ELSE queues[r]
  BY DEF Clear, TypeInv, TypeOK
<1>2. ToSet(<<>>) = {} /\ OneEach(<<>>)
  BY DEF ToSet, OneEach
<1>3. \A n \in Msg : Target[n] \in Session
  BY SchedulerAssumption
<1>4. \A n \in Msg : n \in ToSet(queues[s]) <=> InQueue(n) /\ Target[n] = s
  BY DEF QueuesDiffer, InQueue
<1>5. cleared' = cleared \cup ToSet(queues[s])
  BY DEF Clear
<1> QED
  BY <1>1, <1>2, <1>3, <1>4, <1>5 DEF QueuesDiffer, InQueue

-----------------------------------------------------------------------------
(* What a step of submitter a does to the message it carries.              *)

Stays(a) ==
  /\ Carrying(a) /\ Carrying(a)'
  /\ call'[a].msg = call[a].msg /\ call'[a].queued = call[a].queued
Rests(a) == ~ Carrying(a) /\ ~ Carrying(a)'
Leaves(a) == Carrying(a) /\ ~ Carrying(a)'
Picks(a) == ~ Carrying(a) /\ Carrying(a)'

LEMMA CarriedType ==
  ASSUME TypeInv, CallsAgree, NEW a \in Submitter, Carrying(a)
  PROVE  /\ call[a].msg \in Msg /\ Target[call[a].msg] \in Session
         /\ SessionOf(a) = Target[call[a].msg] /\ Awaits(call[a].msg)
<1>1. call[a].msg \in Msg
  <2>1. CASE a \in External
    BY <2>1 DEF TypeInv, CallsAreSet
  <2>2. CASE a = Handler
    <3>1. pc[a] \in HasMessage
      BY <2>2 DEF Carrying, CarryPc, StartTurnPc, InStart, CallsAgree, CallAgrees, HasMessage
    <3> QED
      BY <3>1, MessageType
  <2> QED
    BY <2>1, <2>2 DEF Submitter
<1> QED
  BY <1>1, SchedulerAssumption DEF SessionOf, Awaits

\* The others keep what they carry.
LEMMA OthersCarry ==
  ASSUME NEW a \in Submitter, Alone(a)
  PROVE  \A b \in Submitter : b # a =>
           /\ pc'[b] = pc[b] /\ call'[b] = call[b] /\ (Carrying(b)' <=> Carrying(b))
  BY Processes DEF Alone, Carrying

\* A step that adds nothing to the queues and picks nothing up.
LEMMA KeepPlaces ==
  ASSUME TypeInv, CallsAgree, PlacesDiffer, NEW a \in Submitter, Alone(a),
         Stays(a) \/ Rests(a) \/ Leaves(a),
         QueuesDiffer', \A n \in Msg : InQueue(n)' => InQueue(n)
  PROVE  /\ PlacesDiffer'
         /\ \A n \in Msg : Awaits(n)' => Awaits(n)
         /\ \A n \in Msg : Awaits(n)' /\ InQueue(n) => InQueue(n)'
         /\ Leaves(a) => \A n \in Msg : n = call[a].msg => ~ Awaits(n)'
<1>1. \A b \in Submitter : Carrying(b)' => Carrying(b) /\ call'[b].msg = call[b].msg
  BY OthersCarry DEF Stays, Rests, Leaves
<1>2. \A b \in Submitter : Carrying(b) => call[b].msg \in Msg
  BY CarriedType
<1>3. PlacesDiffer'
  BY <1>1, <1>2 DEF PlacesDiffer
<1>4. \A n \in Msg : Awaits(n)' => Awaits(n)
  BY <1>1 DEF Awaits
<1>5. \A n \in Msg : Awaits(n)' /\ InQueue(n) => InQueue(n)'
  BY <1>1 DEF Awaits, PlacesDiffer
<1>6. ASSUME Leaves(a), NEW n \in Msg, n = call[a].msg PROVE ~ Awaits(n)'
  <2>1. ~ InQueue(n) /\ ~ InQueue(n)'
    BY <1>6 DEF Leaves, PlacesDiffer
  <2>2. \A b \in Submitter : Carrying(b)' => call'[b].msg # n
    BY <1>1, <1>6 DEF Leaves, PlacesDiffer
  <2> QED
    BY <2>1, <2>2 DEF Awaits
<1> QED
  BY <1>3, <1>4, <1>5, <1>6

\* The message goes to the queue, at the end or, put back, in front.
Puts(a) ==
  /\ Leaves(a)
  /\ \E q \in {Append(queues[SessionOf(a)], call[a].msg), <<call[a].msg>> \o queues[SessionOf(a)]} :
       queues' = [queues EXCEPT ![SessionOf(a)] = q]

LEMMA PutPlaces ==
  ASSUME TypeInv, CallsAgree, PlacesDiffer, NEW a \in Submitter, Alone(a), Puts(a)
  PROVE  /\ PlacesDiffer'
         /\ \A n \in Msg : Awaits(n)' => Awaits(n)
         /\ \A n \in Msg : InQueue(n)' <=> InQueue(n) \/ n = call[a].msg
<1> DEFINE m == call[a].msg
<1>1. m \in Msg /\ SessionOf(a) = Target[m] /\ ~ InQueue(m) /\ Awaits(m)
  BY CarriedType DEF Puts, Leaves, PlacesDiffer
<1>2. QueuesDiffer' /\ \A n \in Msg : InQueue(n)' <=> InQueue(n) \/ n = m
  <2>1. PICK q \in {Append(queues[Target[m]], m), <<m>> \o queues[Target[m]]} :
          queues' = [queues EXCEPT ![Target[m]] = q]
    BY <1>1 DEF Puts
  <2> QED
    BY <1>1, <2>1, PutQueue DEF PlacesDiffer
<1>3. \A b \in Submitter : Carrying(b)' => Carrying(b) /\ b # a /\ call'[b].msg = call[b].msg
  BY OthersCarry DEF Puts, Leaves
<1>4. \A b \in Submitter : Carrying(b)' => call[b].msg \in Msg /\ call[b].msg # m
  BY <1>3, CarriedType DEF PlacesDiffer, Puts, Leaves
<1> HIDE DEF m
<1>5. PlacesDiffer'
  BY <1>2, <1>3, <1>4 DEF PlacesDiffer
<1>6. \A n \in Msg : Awaits(n)' => Awaits(n)
  BY <1>1, <1>2, <1>3 DEF Awaits
<1> QED
  BY <1>2, <1>5, <1>6 DEF m

\* A dispatcher takes the first message of a queue.
Takes(a, s) ==
  /\ Picks(a) /\ s \in Session /\ queues[s] # <<>>
  /\ queues' = [queues EXCEPT ![s] = Tail(@)]
  /\ call'[a].msg = Head(queues[s]) /\ call'[a].queued /\ pc'[a] = "snapshot"

LEMMA TakePlaces ==
  ASSUME TypeInv, CallsAgree, PlacesDiffer, NEW a \in Submitter, NEW s \in Session,
         Alone(a), Takes(a, s)
  PROVE  /\ PlacesDiffer'
         /\ \A n \in Msg : Awaits(n)' => Awaits(n)
         /\ call'[a].msg \in Msg /\ Target[call'[a].msg] = s /\ InQueue(call'[a].msg)
         /\ \A n \in Msg : InQueue(n)' <=> InQueue(n) /\ n # call'[a].msg
<1> DEFINE h == call'[a].msg
<1>1. /\ h \in Msg /\ Target[h] = s /\ InQueue(h) /\ QueuesDiffer'
      /\ \A n \in Msg : InQueue(n)' <=> InQueue(n) /\ n # h
  BY TakeQueue DEF Takes, PlacesDiffer
<1>2. \A b \in Submitter : b # a /\ Carrying(b)' => Carrying(b) /\ call'[b].msg = call[b].msg
  BY OthersCarry
<1>3. \A b \in Submitter : Carrying(b) => call[b].msg \in Msg /\ call[b].msg # h
  BY <1>1, CarriedType DEF PlacesDiffer
<1>4. PlacesDiffer'
  <2>1. ASSUME NEW b \in Submitter, NEW c \in Submitter,
               Carrying(b)', Carrying(c)', call'[b].msg = call'[c].msg
        PROVE  b = c
    BY <1>2, <1>3, <2>1 DEF PlacesDiffer
  <2>2. ASSUME NEW b \in Submitter, Carrying(b)' PROVE ~ InQueue(call[b].msg)'
    <3>1. CASE b = a
      BY <1>1, <3>1 DEF InQueue
    <3>2. CASE b # a
      BY <1>1, <1>2, <1>3, <2>2, <3>2 DEF PlacesDiffer, InQueue
    <3> QED
      BY <3>1, <3>2
  <2> QED
    BY <1>1, <2>1, <2>2 DEF PlacesDiffer
<1>5. \A n \in Msg : Awaits(n)' => Awaits(n)
  BY <1>1, <1>2 DEF Awaits
<1> QED
  BY <1>1, <1>4, <1>5

\* The handler makes a message of its own, which was nowhere before.
Bears(c) ==
  /\ Picks(Handler) /\ UNCHANGED queues
  /\ call'[Handler].msg = c /\ c \in Msg /\ ~ call'[Handler].queued /\ pc'[Handler] = "called"

LEMMA BearPlaces ==
  ASSUME TypeInv, CallsAgree, PlacesDiffer, NEW c \in Msg, Alone(Handler), Bears(c), ~ Awaits(c)
  PROVE  /\ PlacesDiffer'
         /\ \A n \in Msg : Awaits(n)' => Awaits(n) \/ n = c
<1>1. \A b \in Submitter : b # Handler /\ Carrying(b)' => Carrying(b) /\ call'[b].msg = call[b].msg
  BY OthersCarry, Processes
<1>2. \A b \in Submitter : Carrying(b) => call[b].msg \in Msg /\ call[b].msg # c
  BY CarriedType DEF Awaits
<1>3. \A n \in Msg : InQueue(n)' <=> InQueue(n)
  BY DEF Bears, InQueue
<1>4. QueuesDiffer'
  BY DEF Bears, PlacesDiffer, QueuesDiffer
<1>5. ASSUME NEW a \in Submitter, NEW b \in Submitter,
             Carrying(a)', Carrying(b)', call'[a].msg = call'[b].msg
      PROVE  a = b
  BY <1>1, <1>2, <1>5 DEF PlacesDiffer, Bears
<1>6. ASSUME NEW b \in Submitter, Carrying(b)' PROVE ~ InQueue(call[b].msg)'
  <2>1. CASE b = Handler
    BY <1>3, <2>1 DEF Bears, Awaits, InQueue
  <2>2. CASE b # Handler
    BY <1>1, <1>2, <1>3, <1>6, <2>2 DEF PlacesDiffer, InQueue
  <2> QED
    BY <2>1, <2>2
<1>7. \A n \in Msg : Awaits(n)' => Awaits(n) \/ n = c
  BY <1>1, <1>3 DEF Awaits, Bears
<1> QED
  BY <1>4, <1>5, <1>6, <1>7 DEF PlacesDiffer

-----------------------------------------------------------------------------
(* What has happened to each message agrees with where it is.              *)

Fates == EntriesAreOver /\ SubmittedOnce /\ ClearedIsOver

LEMMA ChildType ==
  \A m \in Msg : \A c \in Child(m) :
    /\ c \in Msg /\ c \notin External
    /\ \A n \in Msg : c \in Child(n) => n = m
    /\ ReplyTo[m] # None => ReplyTo[m] # GoalMsg[m]
<1>1. \A m \in Msg : \A c \in Child(m) : c \in Msg /\ c \notin External
  BY SchedulerAssumption, FreshAssumption DEF Child
<1>2. \A m, n \in Msg : \A c : c \in Child(m) /\ c \in Child(n) => n = m
  BY FreshAssumption DEF Child
<1>3. \A m \in Msg : ReplyTo[m] # None => ReplyTo[m] # GoalMsg[m]
  BY FreshAssumption
<1> QED
  BY <1>1, <1>2, <1>3

\* A step that submits nothing new: a message becomes an active turn only out of
\* a start, its goal is asked for only when it stops being one, and it is cleared
\* only out of the queue.
LEMMA SteadyFates ==
  ASSUME TypeInv, Fates, UNCHANGED submits,
         \A s \in Session : active'[s] # NoEntry => Target[active'[s].msg] = s,
         \A n \in Msg : started[n] > 0 => started'[n] > 0,
         \A n \in Msg : Awaits(n)' => Awaits(n),
         \A n \in Msg : OnTurn(n)' => OnTurn(n) \/ (Awaits(n) /\ ~ Awaits(n)' /\ started[n] > 0),
         \A n \in Msg : GoalAhead(n)' => GoalAhead(n) \/ (OnTurn(n) /\ ~ OnTurn(n)'),
         \A n \in Msg : n \in cleared' => n \in cleared \/ (Awaits(n) /\ ~ Awaits(n)')
  PROVE  Fates'
<1>1. EntriesAreOver'
  BY DEF Fates, EntriesAreOver
<1>2. \A n \in Msg : Submitted(n)' <=> Submitted(n)
  BY DEF Submitted
<1>3. SubmittedOnce'
  <2>1. ASSUME NEW m \in Msg
        PROVE  /\ (Awaits(m) \/ OnTurn(m) \/ GoalAhead(m) \/ m \in cleared)' => Submitted(m)'
               /\ (Awaits(m) \/ OnTurn(m))' => Awaits(m) \/ OnTurn(m)
               /\ GoalAhead(m)' => GoalAhead(m) \/ OnTurn(m)
    BY <1>2 DEF Fates, SubmittedOnce
  <2>2. ASSUME NEW m \in Msg, NEW c \in Child(m)
        PROVE  /\ (Awaits(m) \/ OnTurn(m))' => submits'[c] = 0
               /\ GoalAhead(m)' /\ c = GoalMsg[m] => submits'[c] = 0
               /\ submits'[c] <= 1 /\ (submits'[c] > 0 => Submitted(m)' /\ started'[m] > 0)
    BY <1>2, <2>1 DEF Fates, SubmittedOnce
  <2> QED
    BY <2>1, <2>2 DEF SubmittedOnce, Child
<1>4. ClearedIsOver'
  BY DEF Fates, ClearedIsOver
<1> QED
  BY <1>1, <1>3, <1>4 DEF Fates

\* The outcome handler submits message c, the answer to e or the continuation of
\* its goal, after e has left the active turn.
LEMMA BearFates ==
  ASSUME TypeInv, CallsAgree, PlacesDiffer, Fates, NEW e \in Msg, NEW c \in Child(e),
         Alone(Handler), Bears(c), submits' = [submits EXCEPT ![c] = @ + 1],
         UNCHANGED <<started, cleared>>,
         OnTurn(e) \/ (GoalAhead(e) /\ c = GoalMsg[e]), ~ OnTurn(e)',
         \A s \in Session : active'[s] # NoEntry => active'[s] = active[s],
         \A n \in Msg : OnTurn(n)' => OnTurn(n),
         \A n \in Msg : GoalAhead(n)' => n = e /\ c # GoalMsg[e] /\ OnTurn(e)
  PROVE  PlacesDiffer' /\ Fates'
<1>1. /\ c \in Msg /\ c \notin External /\ submits[c] = 0 /\ Submitted(e) /\ started[e] > 0
      /\ ~ Awaits(e) /\ \A n \in Msg : c \in Child(n) => n = e
  BY ChildType DEF Fates, SubmittedOnce, EntriesAreOver
<1>2. ~ Submitted(c)
  BY <1>1 DEF Submitted
<1>3. /\ ~ Awaits(c) /\ ~ OnTurn(c) /\ ~ GoalAhead(c) /\ c \notin cleared /\ c # e
      /\ \A d \in Child(c) : submits[d] = 0
  <2>1. \A d \in Child(c) : d \in Msg /\ submits[d] \in Nat
    BY <1>1, ChildType DEF TypeInv, TypeOK
  <2> QED
    BY <1>1, <1>2, <2>1 DEF Fates, SubmittedOnce
<1>4. PlacesDiffer' /\ \A n \in Msg : Awaits(n)' => Awaits(n) \/ n = c
  BY <1>1, <1>3, BearPlaces
<1>5. /\ submits'[c] = 1 /\ \A n \in Msg : n # c => submits'[n] = submits[n]
      /\ \A n \in Msg : Submitted(n)' <=> Submitted(n) \/ n = c
  BY <1>1 DEF TypeInv, TypeOK, Submitted
<1>6. EntriesAreOver'
  <2>1. \A s \in Session : active'[s] # NoEntry => Target[active'[s].msg] = s
    BY DEF Fates, EntriesAreOver
  <2>2. \A n \in Msg : OnTurn(n)' => ~ Awaits(n)' /\ started'[n] > 0
    BY <1>3, <1>4 DEF Fates, EntriesAreOver
  <2>3. \A n \in Msg : GoalAhead(n)' => ~ Awaits(n)' /\ ~ OnTurn(n)' /\ started'[n] > 0
    BY <1>1, <1>3, <1>4
  <2> QED
    BY <2>1, <2>2, <2>3 DEF EntriesAreOver
<1>7. ClearedIsOver'
  BY <1>3, <1>4 DEF Fates, ClearedIsOver
<1>8. SubmittedOnce'
  <2>1. ASSUME NEW m \in Msg
        PROVE  (Awaits(m) \/ OnTurn(m) \/ GoalAhead(m) \/ m \in cleared)' => Submitted(m)'
    BY <1>1, <1>4, <1>5 DEF Fates, SubmittedOnce
  <2>2. ASSUME NEW m \in Msg, NEW d \in Child(m)
        PROVE  /\ (Awaits(m) \/ OnTurn(m))' => submits'[d] = 0
               /\ GoalAhead(m)' /\ d = GoalMsg[m] => submits'[d] = 0
               /\ submits'[d] <= 1 /\ (submits'[d] > 0 => Submitted(m)' /\ started'[m] > 0)
    <3>0. d \in Msg
      BY ChildType
    <3>1. CASE m = e /\ d = c
      BY <1>1, <1>3, <1>4, <1>5, <3>1
    <3>2. CASE m = e /\ d # c
      <4>1. submits'[d] = submits[d]
        BY <1>5, <3>0, <3>2
      <4> QED
        BY <1>1, <1>3, <1>4, <1>5, <3>2, <4>1 DEF Fates, SubmittedOnce
    <3>3. CASE m = c
      <4>1. d # c /\ submits[d] = 0
        BY <1>1, <1>3, <2>2, <3>3
      <4> QED
        BY <1>5, <3>0, <4>1
    <3>4. CASE m # e /\ m # c
      <4>1. submits'[d] = submits[d]
        BY <1>1, <1>5, <2>2, <3>0, <3>4
      <4> QED
        BY <1>4, <1>5, <3>4, <4>1 DEF Fates, SubmittedOnce
    <3> QED
      BY <3>1, <3>2, <3>3, <3>4
  <2> QED
    BY <2>1, <2>2 DEF SubmittedOnce, Child
<1> QED
  BY <1>4, <1>6, <1>7, <1>8 DEF Fates

-----------------------------------------------------------------------------
(* The moves that the actions make.                                        *)

\* The locals of a agree after its step, which touches nobody else's.
LocalsAgree(a) ==
  /\ CallAgrees(a)' /\ (a # Handler => UNCHANGED job)
  /\ \A n \in Msg : GoalAhead(n)' => GoalAhead(n)
  /\ \A b \in External : b # a => result'[b] = result[b]

LEMMA ReturnMoves ==
  ASSUME TypeInv, CallsAgree, NEW a \in Submitter, NEW r, Return(a, r)
  PROVE  /\ Alone(a) /\ LocalsAgree(a) /\ ~ Carrying(a)' /\ pc'[a] \notin InStart /\ pc'[a] # "push"
         /\ a \in External => result'[a] = r /\ (Pushed(a)' => r = "Queued")
<1>0. /\ pc \in [Process -> PcLabel] /\ call \in [Caller -> CallLocals]
      /\ result \in [External -> SubmitResult] /\ a \in Process /\ a \in Caller
  BY Processes DEF TypeInv, TypeOK
<1>1. Alone(a) /\ ~ call'[a].queued
  BY <1>0, ReturnAlone DEF Return, Fresh
<1>2. CASE a = Handler
  <2>1. /\ pc'[a] = Resume /\ Resume \in {"clear", "trynext", "recv"} /\ UNCHANGED result
        /\ Resume = "clear" => job.stage = "reply" /\ job' = job
    BY <1>0, <1>2, Processes DEF Return, Goto, Resume, AfterGoal
  <2>2. ~ Carrying(a)' /\ pc'[a] \notin InStart /\ pc'[a] # "push"
    BY <2>1 DEF Carrying, CarryPc, StartTurnPc, InStart
  <2>3. CallAgrees(a)'
    BY <1>1, <1>2, <2>1, <2>2, Processes DEF CallAgrees
  <2>4. \A n \in Msg : GoalAhead(n)' => GoalAhead(n)
    <3>1. CASE job' = job
      BY <3>1 DEF GoalAhead
    <3>2. CASE job' = NoJob
      BY <3>2, SchedulerAssumption DEF GoalAhead, NoJob, NoEntry
    <3>3. CASE job' = [job EXCEPT !.stage = "dispatch"]
      <4>1. job'.stage = "dispatch"
        BY <3>3 DEF TypeInv, TypeOK, JobLocals
      <4> QED
        BY <4>1 DEF GoalAhead
    <3> QED
      BY <1>2, <3>1, <3>2, <3>3 DEF Return
  <2> QED
    BY <1>1, <1>2, <2>1, <2>2, <2>3, <2>4, Processes DEF LocalsAgree
<1>3. CASE a # Handler
  <2>1. a \in External
    BY <1>3 DEF Submitter
  <2>2. /\ pc'[a] = "done" /\ call'[a] = Fresh(a) /\ UNCHANGED job /\ result'[a] = r
        /\ \A b \in External : b # a => result'[b] = result[b]
    BY <1>0, <1>3, <2>1 DEF Return, Goto
  <2>3. CallAgrees(a)' /\ ~ Carrying(a)' /\ pc'[a] \notin InStart /\ pc'[a] # "push"
    BY <1>3, <2>2 DEF CallAgrees, Fresh, Carrying, CarryPc, StartTurnPc, InStart
  <2>4. Pushed(a)' => r = "Queued"
    BY <1>1, <2>2 DEF Pushed
  <2>5. \A n \in Msg : GoalAhead(n)' => GoalAhead(n)
    BY <2>2 DEF GoalAhead
  <2> QED
    BY <1>1, <1>3, <2>1, <2>2, <2>3, <2>4, <2>5 DEF LocalsAgree
<1> QED
  BY <1>2, <1>3

\* A step that goes on to l with the same message.
LEMMA GotoMoves ==
  ASSUME TypeInv, CallsAgree, NEW a \in Submitter, NEW l, Goto(a, l),
         UNCHANGED <<job, result>>, \A b \in Caller : b # a => call'[b] = call[b],
         call'[a].msg = call[a].msg, call'[a].queued = call[a].queued,
         l \notin {"new", "inject", "clear", "goal"} \/ a # Handler,
         call[a].queued => l \in StartTurnPc,
         l \in CarryPc => Carrying(a)
  PROVE  /\ Alone(a) /\ LocalsAgree(a) /\ pc'[a] = l
         /\ a \in External /\ Pushed(a)' =>
              Pushed(a) \/ l \in {"reorder", "yield", "trynext", "dequeue"}
         /\ l \in CarryPc => Stays(a)
         /\ l \notin CarryPc => ~ Carrying(a)'
<1>1. Alone(a) /\ pc'[a] = l
  BY GotoAlone, Processes
<1>2. /\ l \in CarryPc => Stays(a)
      /\ l \notin CarryPc => ~ Carrying(a)'
  BY <1>1 DEF Stays, Carrying
<1>3. CallAgrees(a)'
  BY <1>1, <1>2 DEF CallsAgree, CallAgrees, Stays
<1>4. LocalsAgree(a)
  BY <1>3 DEF LocalsAgree, GoalAhead
<1>5. Pushed(a)' => Pushed(a) \/ l \in {"reorder", "yield", "trynext", "dequeue"}
  BY <1>1 DEF Pushed
<1> QED
  BY <1>1, <1>2, <1>4, <1>5

LEMMA SubmitMoves ==
  ASSUME TypeInv, CallsAgree, NEW a \in Submitter,
         Submit(a) \/ SubmitStep(a) \/ DeliverBackground(a)
  PROVE  /\ Alone(a) /\ LocalsAgree(a) /\ UNCHANGED <<active, submits, started, task>>
         /\ pc[a] \notin InStart /\ pc'[a] \notin InStart
         /\ a \in External /\ Pushed(a)' => Pushed(a) \/ (Puts(a) /\ ~ call[a].queued)
         /\ pc'[a] = "push" =>
              Carrying(a) /\ UNCHANGED <<queues, call>> /\ Len(queues[SessionOf(a)]) < MaxQueueDepth
         /\ \/ UNCHANGED <<queues, cleared>> /\ (Stays(a) \/ Rests(a))
            \/ UNCHANGED <<queues, cleared>> /\ Leaves(a) /\ ~ call[a].queued
            \/ Stays(a) /\ SessionOf(a) \in Session /\ Clear(SessionOf(a))
            \/ UNCHANGED cleared /\ Puts(a) /\ ~ call[a].queued /\ pc[a] = "push"
            \/ /\ UNCHANGED cleared /\ Rests(a) /\ SessionOf(a) \in Session
               /\ queues' = [queues EXCEPT ![SessionOf(a)] = Reordered(@)]
            \/ UNCHANGED cleared /\ \E s \in Session : Takes(a, s)
<1> USE DEF CarryPc, StartTurnPc, InStart
<1>0. /\ a \in Process /\ a \in Caller /\ call \in [Caller -> CallLocals]
      /\ call[a] \in CallLocals
  BY Processes DEF TypeInv, TypeOK
<1>q. call[a].queued => pc[a] \in StartTurnPc
  BY DEF CallsAgree, CallAgrees
<1>1. CASE DeliverBackground(a)
  <2>1. PICK l \in {"inject", "called"} : Goto(a, l)
    BY <1>1 DEF DeliverBackground
  <2>2. /\ pc[a] = "new" /\ a # Handler /\ Carrying(a) /\ ~ call[a].queued
        /\ UNCHANGED <<job, result, call, active, submits, started, task, queues, cleared>>
    BY <1>1, <1>q, Processes DEF DeliverBackground, At, Carrying, engine, scheduler, history
  <2> QED
    BY <1>1, <2>1, <2>2, GotoMoves
<1>2. CASE InjectBackground(a)
  <2>1. /\ pc[a] = "inject" /\ Carrying(a) /\ ~ call[a].queued /\ Return(a, "Injected")
        /\ UNCHANGED <<active, submits, started, task, queues, cleared>>
    BY <1>2, <1>q DEF InjectBackground, At, Carrying, engine, scheduler
  <2> QED
    BY <2>1, ReturnMoves DEF Leaves
<1>3. CASE Submit(a)
  <2>1. /\ pc[a] \in {"called", "new"} /\ Carrying(a) /\ ~ call[a].queued
        /\ Goto(a, "decide")
        /\ call' = [call EXCEPT ![a].seen = state[SessionOf(a)].kind]
        /\ UNCHANGED <<job, result, active, submits, started, task, queues, cleared>>
    BY <1>3, <1>q DEF Submit, At, Carrying, engine, scheduler, history
  <2>2. /\ call'[a].msg = call[a].msg /\ call'[a].queued = call[a].queued
        /\ \A b \in Caller : b # a => call'[b] = call[b]
    BY <1>0, <2>1 DEF CallLocals
  <2> QED
    BY <2>1, <2>2, GotoMoves
<1>4. CASE SubmitDecide(a)
  <2>1. PICK l \in {"snapshot", "check"} : Goto(a, l)
    BY <1>4 DEF SubmitDecide
  <2>2. /\ pc[a] = "decide" /\ Carrying(a) /\ ~ call[a].queued
        /\ UNCHANGED <<job, result, call, active, submits, started, task>>
        /\ UNCHANGED <<queues, cleared>> \/ Clear(SessionOf(a))
    BY <1>4, <1>q DEF SubmitDecide, At, Carrying, engine
  <2>3. SessionOf(a) \in Session
    BY <2>2, CarriedType
  <2>4. /\ Alone(a) /\ LocalsAgree(a) /\ pc'[a] = l /\ Stays(a)
        /\ a \in External /\ Pushed(a)' => Pushed(a)
    BY <2>1, <2>2, GotoMoves
  <2> QED
    BY <2>1, <2>2, <2>3, <2>4
<1>5. CASE EnqueueCheck(a)
  <2>1. /\ pc[a] = "check" /\ Carrying(a) /\ ~ call[a].queued
        /\ UNCHANGED <<active, submits, started, task, queues, cleared>>
    BY <1>5, <1>q DEF EnqueueCheck, At, Carrying, engine, scheduler
  <2>2. CASE Return(a, "Err")
    BY <2>1, <2>2, ReturnMoves DEF Leaves
  <2>3. CASE /\ Goto(a, "push") /\ UNCHANGED <<call, job, result>>
             /\ ~ (Len(queues[SessionOf(a)]) >= MaxQueueDepth)
    <3>1. Len(queues[SessionOf(a)]) < MaxQueueDepth
      <4>1. queues[SessionOf(a)] \in Seq(Msg)
        BY <2>1, CarriedType, QueueType
      <4> QED
        BY <2>3, <4>1, LenProperties, SchedulerAssumption
    <3> QED
      BY <2>1, <2>3, <3>1, GotoMoves
  <2> QED
    BY <1>5, <2>2, <2>3 DEF EnqueueCheck
<1>6. CASE EnqueuePush(a)
  <2>1. /\ pc[a] = "push" /\ Carrying(a) /\ ~ call[a].queued /\ Goto(a, "reorder")
        /\ queues' = [queues EXCEPT ![SessionOf(a)] = Append(@, call[a].msg)]
        /\ UNCHANGED <<job, result, call, active, submits, started, task, cleared>>
    BY <1>6, <1>q DEF EnqueuePush, At, Carrying, engine, history
  <2>2. /\ Alone(a) /\ LocalsAgree(a) /\ pc'[a] = "reorder" /\ ~ Carrying(a)'
    BY <2>1, GotoMoves
  <2>3. SessionOf(a) \in Session
    BY <2>1, CarriedType
  <2>4. Puts(a)
    BY <2>1, <2>2 DEF Puts, Leaves
  <2> QED
    BY <2>1, <2>2, <2>4
<1>7. CASE EnqueueReorder(a)
  <2>1. PICK l \in {"yield", "trynext"} : Goto(a, l)
    BY <1>7 DEF EnqueueReorder
  <2>2. /\ pc[a] = "reorder" /\ ~ Carrying(a) /\ ~ call[a].queued
        /\ queues' = [queues EXCEPT ![SessionOf(a)] = Reordered(@)]
        /\ UNCHANGED <<job, result, call, active, submits, started, task, cleared>>
    BY <1>7, <1>q DEF EnqueueReorder, At, Carrying, engine, history
  <2>3. SessionOf(a) \in Session
    BY <2>2, MessageType DEF HasMessage
  <2>4. /\ Alone(a) /\ LocalsAgree(a) /\ pc'[a] = l /\ Rests(a)
    BY <2>1, <2>2, GotoMoves DEF Rests
  <2>5. Pushed(a)
    BY <2>2 DEF Pushed
  <2> QED
    BY <2>1, <2>2, <2>3, <2>4, <2>5
<1>8. CASE RequestYield(a)
  <2>1. /\ pc[a] = "yield" /\ ~ Carrying(a) /\ Pushed(a) /\ Return(a, "Queued")
        /\ UNCHANGED <<active, submits, started, task, queues, cleared>>
    BY <1>8 DEF RequestYield, At, Carrying, Pushed, engine, scheduler
  <2> QED
    BY <2>1, ReturnMoves DEF Rests
<1>9. CASE TryNextCheck(a)
  <2>1. /\ pc[a] = "trynext" /\ ~ Carrying(a) /\ Pushed(a) /\ ~ call[a].queued
        /\ UNCHANGED <<active, submits, started, task, queues, cleared>>
    BY <1>9, <1>q DEF TryNextCheck, At, Carrying, Pushed, engine, scheduler
  <2>2. CASE Return(a, "Queued")
    BY <2>1, <2>2, ReturnMoves DEF Rests
  <2>3. CASE Goto(a, "dequeue") /\ UNCHANGED <<call, job, result>>
    BY <2>1, <2>3, GotoMoves DEF Rests
  <2> QED
    BY <1>9, <2>2, <2>3 DEF TryNextCheck
<1>10. CASE DequeueNext(a)
  <2> DEFINE s == SessionOf(a)
  <2>1. /\ pc[a] = "dequeue" /\ ~ Carrying(a) /\ Pushed(a) /\ ~ call[a].queued
        /\ UNCHANGED <<active, submits, started, task, cleared>> /\ s \in Session
    BY <1>10, <1>q, SessionOfType DEF DequeueNext, At, Carrying, Pushed, engine, scheduler
  <2>2. CASE queues[s] = <<>>
    <3>1. Return(a, "Queued") /\ UNCHANGED queues
      BY <1>10, <2>2 DEF DequeueNext
    <3> QED
      BY <2>1, <3>1, ReturnMoves DEF Rests
  <2>3. CASE queues[s] # <<>>
    <3>1. /\ queues' = [queues EXCEPT ![s] = Tail(@)]
          /\ call' = [call EXCEPT ![a].msg = Head(queues[s]), ![a].queued = TRUE]
          /\ Goto(a, "snapshot") /\ UNCHANGED <<job, result>>
      BY <1>10, <2>3 DEF DequeueNext
    <3>2. /\ call'[a].msg = Head(queues[s]) /\ call'[a].queued
          /\ \A b \in Caller : b # a => call'[b] = call[b]
      BY <1>0, <3>1 DEF CallLocals
    <3> HIDE DEF s
    <3>3. Alone(a) /\ pc'[a] = "snapshot" /\ Carrying(a)'
      BY <1>0, <3>1, <3>2, GotoAlone DEF Carrying
    <3>4. Takes(a, s)
      BY <2>1, <2>3, <3>1, <3>2, <3>3 DEF Takes, Picks
    <3>5. CallAgrees(a)'
      BY <3>2, <3>3 DEF CallAgrees
    <3>6. LocalsAgree(a)
      BY <3>1, <3>5 DEF LocalsAgree, GoalAhead
    <3> QED
      BY <2>1, <3>3, <3>4, <3>6
  <2> QED
    BY <2>2, <2>3
<1> QED
  BY <1>1, <1>2, <1>3, <1>4, <1>5, <1>6, <1>7, <1>8, <1>9, <1>10 DEF SubmitStep

LEMMA StartMoves ==
  ASSUME TypeInv, CallsAgree, NEW a \in Submitter, StartStep(a)
  PROVE  /\ Alone(a) /\ LocalsAgree(a) /\ Carrying(a) /\ UNCHANGED <<submits, cleared>>
         /\ pc'[a] # "push" /\ (a \in External /\ Pushed(a)' => Pushed(a))
         /\ \/ Stays(a) /\ UNCHANGED <<queues, active>> /\ (pc'[a] \in InStart => pc[a] \in InStart)
            \/ StartPersistedTurn(a) /\ Stays(a) /\ pc[a] = "begin" /\ pc'[a] = "persist"
               /\ UNCHANGED <<queues, active>>
            \/ /\ Leaves(a) /\ pc[a] = "insert" /\ UNCHANGED <<queues, started>>
               /\ active' = [active EXCEPT ![Target[call[a].msg]] =
                               [msg |-> call[a].msg, turn |-> call[a].turn]]
            \/ /\ Leaves(a) /\ pc[a] = "failed" /\ ~ call[a].queued
               /\ UNCHANGED <<queues, active, started>>
            \/ /\ Puts(a) /\ pc[a] = "failed" /\ call[a].queued
               /\ UNCHANGED <<active, started>>
<1> USE DEF CarryPc, StartTurnPc, InStart
<1>0. /\ a \in Process /\ a \in Caller /\ call \in [Caller -> CallLocals]
      /\ call[a] \in CallLocals
  BY Processes DEF TypeInv, TypeOK
<1>1. ASSUME NEW l \in {"drain", "begin", "persist", "spawn", "resolve", "insert", "failed"},
             Goto(a, l), Carrying(a), UNCHANGED <<job, result>>,
             \A b \in Caller : b # a => call'[b] = call[b],
             call'[a].msg = call[a].msg, call'[a].queued = call[a].queued
      PROVE  /\ Alone(a) /\ LocalsAgree(a) /\ pc'[a] = l /\ Stays(a)
             /\ a \in External /\ Pushed(a)' => Pushed(a)
  BY <1>1, GotoMoves
<1>2. CASE StartSnapshot(a)
  <2>1. PICK l \in {"failed", "drain"} : Goto(a, l)
    BY <1>2 DEF StartSnapshot
  <2> QED
    BY <1>1, <1>2, <2>1 DEF StartSnapshot, At, Carrying, scheduler, history
<1>3. CASE WaitSessionDrained(a)
  BY <1>1, <1>3 DEF WaitSessionDrained, At, Carrying, scheduler, history
<1>4. CASE StartAborted(a)
  BY <1>1, <1>4 DEF StartAborted, At, Carrying, scheduler, history
<1>5. CASE StartPersistedTurn(a)
  <2>1. /\ Goto(a, "persist") /\ pc[a] = "begin" /\ Carrying(a)
        /\ UNCHANGED <<queues, active, call, job, result, submits, cleared>>
    BY <1>5 DEF StartPersistedTurn, At, Carrying, scheduler
  <2> QED
    BY <1>1, <1>5, <2>1
<1>6. CASE PersistFails(a)
  BY <1>1, <1>6 DEF PersistFails, At, Carrying, scheduler, history
<1>7. CASE RegisterTurn(a)
  BY <1>1, <1>7 DEF RegisterTurn, At, Carrying, scheduler, history
<1>8. CASE ContextFails(a)
  BY <1>1, <1>8 DEF ContextFails, At, Carrying, scheduler, history
<1>9. CASE SpawnTurn(a)
  <2>1. /\ Goto(a, "resolve") /\ pc[a] = "spawn" /\ Carrying(a)
        /\ UNCHANGED <<queues, active, call, job, result, submits, cleared>>
    BY <1>9 DEF SpawnTurn, At, Carrying, scheduler, history
  <2> QED
    BY <1>1, <2>1
<1>10. CASE ResolveTurn(a)
  <2>1. PICK l \in {"insert", "failed"} : Goto(a, l)
    BY <1>10 DEF ResolveTurn
  <2>2. /\ call'[a].msg = call[a].msg /\ call'[a].queued = call[a].queued
        /\ \A b \in Caller : b # a => call'[b] = call[b]
    BY <1>0, <1>10 DEF ResolveTurn, CallLocals
  <2>3. /\ pc[a] = "resolve" /\ Carrying(a)
        /\ UNCHANGED <<queues, active, job, result, submits, cleared>>
    BY <1>10 DEF ResolveTurn, At, Carrying, scheduler, history
  <2> QED
    BY <1>1, <2>1, <2>2, <2>3
<1>11. CASE InsertActiveTurn(a)
  <2>1. PICK r : Return(a, r) /\ (r = "Queued" => call[a].queued)
    BY <1>11 DEF InsertActiveTurn
  <2>2. /\ pc[a] = "insert" /\ Carrying(a) /\ UNCHANGED <<queues, started, submits, cleared>>
        /\ active' = [active EXCEPT ![SessionOf(a)] =
                        [msg |-> call[a].msg, turn |-> call[a].turn]]
    BY <1>11 DEF InsertActiveTurn, At, Carrying
  <2>3. SessionOf(a) = Target[call[a].msg]
    BY <2>2, CarriedType
  <2>4. a \in External /\ Pushed(a)' => Pushed(a)
    BY <2>1, ReturnMoves DEF Pushed
  <2> QED
    BY <2>1, <2>2, <2>3, <2>4, ReturnMoves DEF Leaves
<1>12. CASE StartFailed(a)
  <2>1. /\ pc[a] = "failed" /\ Carrying(a) /\ Return(a, "Err")
        /\ UNCHANGED <<active, started, submits, cleared>>
        /\ \/ ~ call[a].queued /\ UNCHANGED queues
           \/ /\ call[a].queued
              /\ queues' = [queues EXCEPT ![SessionOf(a)] = <<call[a].msg>> \o @]
    BY <1>12 DEF StartFailed, At, Carrying
  <2>2. SessionOf(a) \in Session
    BY <2>1, CarriedType
  <2>3. Leaves(a)
    BY <2>1, ReturnMoves DEF Leaves
  <2>4. call[a].queued => Puts(a)
    BY <2>1, <2>2, <2>3 DEF Puts
  <2> QED
    BY <2>1, <2>3, <2>4, ReturnMoves
<1> QED
  BY <1>2, <1>3, <1>4, <1>5, <1>6, <1>7, <1>8, <1>9, <1>10, <1>11, <1>12 DEF StartStep

\* A step of a task, of a cancel or of steering.
Bystands ==
  /\ UNCHANGED <<queues, active, job, started, submits, cleared, result>>
  /\ \A a \in Submitter : pc'[a] = pc[a] /\ call'[a] = call[a]

LEMMA TaskBystands ==
  ASSUME TypeInv, NEW t \in Task, TaskStep(t)
  PROVE  Bystands
<1>1. UNCHANGED <<queues, active, locals, started, submits, cleared, result>>
  BY DEF TaskStep, EngineInject, EngineEnds, EngineAnswers, EngineStops, EngineYields,
         EngineCancelled, EngineFails, EngineReturns, EnginePanics, TurnSettles, TurnNotifies,
         GuardDrops, scheduler, history
<1> QED
  BY <1>1 DEF Bystands, locals

LEMMA CancelBystands ==
  ASSUME TypeInv, NEW c \in Canceller, CancelBegin(c) \/ UserCancel(c) \/ CancelStep(c)
  PROVE  Bystands
<1>1. UNCHANGED <<queues, active, call, job, started, submits, cleared, result>>
  BY DEF CancelBegin, UserCancel, CancelStep, SuppressReply, CancelFind, CancelSetsIdle,
         CancelTriggersToken, CancelUnchanged, history
<1>2. \A a \in Submitter : a \in Process /\ a # c
  BY Processes
<1> QED
  BY <1>1, <1>2, CancelShape DEF Bystands, Alone

LEMMA SteeringBystands ==
  ASSUME TypeInv, NEW i \in Steering, SteerChecks(i) \/ SteerPushes(i)
  PROVE  Bystands
<1>1. UNCHANGED <<queues, active, job, started, submits, cleared, result>>
  BY DEF SteerChecks, SteerPushes, scheduler, history
<1>2. \A a \in Submitter : a \in Process /\ a \in Caller /\ a # i
  BY Processes
<1> QED
  BY <1>1, <1>2, SteeringShape DEF Bystands, Alone

-----------------------------------------------------------------------------
(* Every step keeps the places and the fates.                              *)

Placed == CallsAgree /\ PlacesDiffer /\ Fates

LEMMA OthersAgree ==
  ASSUME TypeInv, CallsAgree, NEW a \in Submitter, Alone(a), CallAgrees(a)',
         a # Handler => UNCHANGED job
  PROVE  CallsAgree'
<1>1. ASSUME NEW b \in Submitter, b # a PROVE CallAgrees(b)'
  <2>1. CallAgrees(b) /\ pc'[b] = pc[b] /\ call'[b] = call[b] /\ (b = Handler => UNCHANGED job)
    BY <1>1, OthersCarry DEF CallsAgree
  <2> QED
    BY <2>1 DEF CallAgrees, Carrying
<1> QED
  BY <1>1 DEF CallsAgree

LEMMA SubmitPlaces ==
  ASSUME TypeInv, Placed, NEW a \in Submitter, Submit(a) \/ SubmitStep(a) \/ DeliverBackground(a)
  PROVE  Placed'
<1>1. /\ CallsAgree /\ PlacesDiffer /\ Fates /\ Alone(a) /\ LocalsAgree(a)
      /\ UNCHANGED <<active, submits, started>>
  BY SubmitMoves DEF Placed
<1>2. CallsAgree'
  BY <1>1, OthersAgree DEF LocalsAgree
<1>3. ASSUME \A n \in Msg : Awaits(n)' => Awaits(n),
             \A n \in Msg : n \in cleared' => n \in cleared \/ (Awaits(n) /\ ~ Awaits(n)')
      PROVE  Fates'
  <2>1. \A n \in Msg : (OnTurn(n)' <=> OnTurn(n)) /\ (GoalAhead(n)' => GoalAhead(n))
    BY <1>1 DEF OnTurn, LocalsAgree
  <2>2. \A s \in Session : active'[s] # NoEntry => Target[active'[s].msg] = s
    BY <1>1 DEF Fates, EntriesAreOver
  <2>3. \A n \in Msg : started[n] > 0 => started'[n] > 0
    BY <1>1
  <2> QED
    BY <1>1, <1>3, <2>1, <2>2, <2>3, SteadyFates
<1>4. CASE UNCHANGED <<queues, cleared>> /\ (Stays(a) \/ Rests(a) \/ Leaves(a))
  <2>1. QueuesDiffer' /\ \A n \in Msg : InQueue(n)' <=> InQueue(n)
    BY <1>1, <1>4 DEF PlacesDiffer, QueuesDiffer, InQueue
  <2> QED
    BY <1>1, <1>2, <1>3, <1>4, <2>1, KeepPlaces DEF Placed
<1>5. CASE Stays(a) /\ SessionOf(a) \in Session /\ Clear(SessionOf(a))
  <2>1. /\ QueuesDiffer' /\ \A n \in Msg : InQueue(n)' => InQueue(n)
        /\ \A n \in Msg : n \in cleared' => n \in cleared \/ (InQueue(n) /\ ~ InQueue(n)')
    BY <1>1, <1>5, ClearQueue DEF PlacesDiffer
  <2>2. /\ PlacesDiffer' /\ \A n \in Msg : Awaits(n)' => Awaits(n)
        /\ \A n \in Msg : Awaits(n)' /\ InQueue(n) => InQueue(n)'
    BY <1>1, <1>5, <2>1, KeepPlaces
  <2> QED
    BY <1>2, <1>3, <2>1, <2>2 DEF Placed, Awaits
<1>6. CASE UNCHANGED cleared /\ Puts(a)
  BY <1>1, <1>2, <1>3, <1>6, PutPlaces DEF Placed
<1>7. CASE /\ UNCHANGED cleared /\ Rests(a) /\ SessionOf(a) \in Session
           /\ queues' = [queues EXCEPT ![SessionOf(a)] = Reordered(@)]
  <2>1. QueuesDiffer' /\ \A n \in Msg : InQueue(n)' => InQueue(n)
    BY <1>1, <1>7, ReorderQueue DEF PlacesDiffer
  <2> QED
    BY <1>1, <1>2, <1>3, <1>7, <2>1, KeepPlaces DEF Placed
<1>8. CASE UNCHANGED cleared /\ \E s \in Session : Takes(a, s)
  BY <1>1, <1>2, <1>3, <1>8, TakePlaces DEF Placed
<1> QED
  BY <1>4, <1>5, <1>6, <1>7, <1>8, SubmitMoves DEF Placed

LEMMA StartCounts ==
  ASSUME TypeInv, NEW a \in Submitter, StartStep(a)
  PROVE  \A n \in Msg : started[n] > 0 => started'[n] > 0
<1>1. CASE UNCHANGED started
  BY <1>1
<1>2. CASE StartPersistedTurn(a)
  <2>1. /\ started' = [started EXCEPT ![call[a].msg] = @ + 1] /\ started \in [Msg -> Nat]
        /\ call[a].msg \in Msg
    BY <1>2, MessageType DEF StartPersistedTurn, At, HasMessage, TypeInv, TypeOK
  <2> QED
    BY <2>1
<1> QED
  BY <1>1, <1>2, StartShape

LEMMA StartPlaces ==
  ASSUME TypeInv, Placed, StartsAgree, NEW a \in Submitter, StartStep(a)
  PROVE  Placed'
<1> DEFINE m == call[a].msg
<1>1. /\ CallsAgree /\ PlacesDiffer /\ Fates /\ Alone(a) /\ LocalsAgree(a) /\ Carrying(a)
      /\ UNCHANGED <<submits, cleared>>
  BY StartMoves DEF Placed
<1>2. CallsAgree'
  BY <1>1, OthersAgree DEF LocalsAgree
<1>3. m \in Msg /\ Target[m] \in Session /\ Awaits(m)
  BY <1>1, CarriedType
<1>4. \A n \in Msg : started[n] > 0 => started'[n] > 0
  BY StartCounts
<1>5. ASSUME \A n \in Msg : Awaits(n)' => Awaits(n),
             \A s \in Session : active'[s] # NoEntry => Target[active'[s].msg] = s,
             \A n \in Msg : OnTurn(n)' => OnTurn(n) \/ (Awaits(n) /\ ~ Awaits(n)' /\ started[n] > 0)
      PROVE  Fates'
  <2>1. \A n \in Msg : GoalAhead(n)' => GoalAhead(n)
    BY <1>1 DEF LocalsAgree
  <2> QED
    BY <1>1, <1>4, <1>5, <2>1, SteadyFates
<1>6. ASSUME UNCHANGED active
      PROVE  /\ \A s \in Session : active'[s] # NoEntry => Target[active'[s].msg] = s
             /\ \A n \in Msg : OnTurn(n)' => OnTurn(n)
  BY <1>1, <1>6 DEF OnTurn, Fates, EntriesAreOver
<1>7. UNCHANGED queues => QueuesDiffer' /\ \A n \in Msg : InQueue(n)' <=> InQueue(n)
  BY <1>1 DEF PlacesDiffer, QueuesDiffer, InQueue
<1>8. CASE (Stays(a) \/ Leaves(a)) /\ UNCHANGED <<queues, active>>
  BY <1>1, <1>2, <1>5, <1>6, <1>7, <1>8, KeepPlaces DEF Placed
<1>9. CASE /\ Leaves(a) /\ pc[a] = "insert" /\ UNCHANGED <<queues, started>>
           /\ active' = [active EXCEPT ![Target[m]] = [msg |-> m, turn |-> call[a].turn]]
  <2>1. /\ PlacesDiffer' /\ \A n \in Msg : Awaits(n)' => Awaits(n)
        /\ \A n \in Msg : n = m => ~ Awaits(n)'
    BY <1>1, <1>7, <1>9, KeepPlaces
  <2>2. started[m] > 0
    BY <1>9 DEF StartsAgree, InStart
  <2>3. \A s \in Session : active'[s] = IF s = Target[m] THEN [msg |-> m, turn |-> call[a].turn]
                                        ELSE active[s]
    BY <1>9 DEF TypeInv, TypeOK
  <2>4. \A n \in Msg : Target[n] \in Session
    BY SchedulerAssumption
  <2> HIDE DEF m
  <2>5. \A n \in Msg : OnTurn(n)' => OnTurn(n) \/ n = m
    BY <2>3, <2>4 DEF OnTurn
  <2>6. \A s \in Session : active'[s] # NoEntry => Target[active'[s].msg] = s
    BY <1>1, <2>3 DEF Fates, EntriesAreOver
  <2> QED
    BY <1>2, <1>3, <1>5, <2>1, <2>2, <2>5, <2>6 DEF Placed
<1>10. CASE Puts(a) /\ UNCHANGED active
  BY <1>1, <1>2, <1>5, <1>6, <1>10, PutPlaces DEF Placed
<1> QED
  BY <1>8, <1>9, <1>10, StartMoves DEF Placed

\* The outcome handler takes an outcome: the session's active turn is removed.
LEMMA ReceivePlaces ==
  ASSUME TypeInv, Placed, ReceiveOutcome
  PROVE  Placed'
<1> DEFINE s == Head(outcomes).session
<1> DEFINE entry == active[s]
<1>1. /\ CallsAgree /\ PlacesDiffer /\ Fates /\ Alone(Handler)
      /\ pc[Handler] = "recv" /\ ~ Carrying(Handler) /\ Handler \in Submitter
      /\ Handler \in Caller /\ Handler \in Process /\ pc \in [Process -> PcLabel]
      /\ call \in [Caller -> CallLocals]
  BY HandlerShape, Processes
  DEF Placed, ReceiveOutcome, HandlerStep, At, Carrying, CarryPc, StartTurnPc, InStart,
      TypeInv, TypeOK
<1>2. s \in Session
  <2>1. Head(outcomes) \in Outcome
    BY HeadTailProperties DEF ReceiveOutcome, TypeInv, TypeOK
  <2> QED
    BY <2>1 DEF Outcome
<1>3. /\ active' = [active EXCEPT ![s] = NoEntry]
      /\ UNCHANGED <<queues, started, cleared>>
      /\ \/ /\ entry # NoEntry /\ IsAgentSessionRequest(entry.msg)
            /\ call' = [call EXCEPT ![Handler] = Fresh(ReplyTo[entry.msg])]
            /\ job'.entry = entry /\ job'.stage = "reply"
            /\ submits' = [submits EXCEPT ![ReplyTo[entry.msg]] = @ + 1]
            /\ Goto(Handler, "called")
         \/ /\ call' = [call EXCEPT ![Handler] = Fresh(None)]
            /\ job'.entry = entry /\ job'.stage = "none"
            /\ Goto(Handler, "clear") /\ UNCHANGED submits
  BY DEF ReceiveOutcome, HandlerCalls
<1>4. /\ entry \in ActiveTurn \cup {NoEntry} /\ active'[s] = NoEntry
      /\ \A r \in Session : r # s => active'[r] = active[r]
      /\ None \notin Msg /\ \A n \in Msg : Target[n] \in Session
  BY <1>2, <1>3, SchedulerAssumption DEF TypeInv, TypeOK
<1> HIDE DEF s, entry
<1>5. \A n \in Msg : OnTurn(n)' <=> OnTurn(n) /\ Target[n] # s
  BY <1>4 DEF OnTurn, NoEntry
<1>6. \A n \in Msg : GoalAhead(n)' => entry.msg = n
  BY <1>3 DEF GoalAhead
<1>7. \A n \in Msg : entry.msg = n => OnTurn(n) /\ Target[n] = s /\ ~ OnTurn(n)'
  <2>1. ASSUME NEW n \in Msg, entry.msg = n PROVE Target[n] = s
    <3>1. entry # NoEntry
      BY <1>4, <2>1 DEF NoEntry
    <3> QED
      BY <1>1, <1>2, <2>1, <3>1 DEF Fates, EntriesAreOver, entry
  <2> QED
    BY <1>5, <2>1 DEF OnTurn, entry
<1>8. \A r \in Session : active'[r] # NoEntry => active'[r] = active[r] /\ Target[active'[r].msg] = r
  BY <1>1, <1>4 DEF Fates, EntriesAreOver
<1>9. CASE UNCHANGED submits /\ call' = [call EXCEPT ![Handler] = Fresh(None)]
           /\ job'.stage = "none" /\ Goto(Handler, "clear")
  <2>1. pc'[Handler] = "clear" /\ Rests(Handler)
    BY <1>1, <1>9 DEF Goto, Rests, Carrying, CarryPc, StartTurnPc, InStart
  <2>2. QueuesDiffer' /\ \A n \in Msg : InQueue(n)' => InQueue(n)
    BY <1>1, <1>3 DEF PlacesDiffer, QueuesDiffer, InQueue
  <2>3. PlacesDiffer' /\ \A n \in Msg : Awaits(n)' => Awaits(n)
    BY <1>1, <2>1, <2>2, KeepPlaces
  <2>4. CallAgrees(Handler)'
    <3>1. ~ call'[Handler].queued
      BY <1>1, <1>9 DEF Fresh
    <3> QED
      BY <1>9, <2>1, <3>1, Processes DEF CallAgrees, Rests
  <2>5. Fates'
    BY <1>1, <1>3, <1>5, <1>6, <1>7, <1>8, <1>9, <2>3, SteadyFates
  <2> QED
    BY <1>1, <2>3, <2>4, <2>5, OthersAgree DEF Placed
<1>10. CASE /\ entry # NoEntry /\ IsAgentSessionRequest(entry.msg)
            /\ call' = [call EXCEPT ![Handler] = Fresh(ReplyTo[entry.msg])]
            /\ submits' = [submits EXCEPT ![ReplyTo[entry.msg]] = @ + 1]
            /\ Goto(Handler, "called")
  <2>1. PICK e \in Msg : e = entry.msg /\ OnTurn(e) /\ ~ OnTurn(e)'
    BY <1>4, <1>7, <1>10 DEF ActiveTurn
  <2>2. PICK c \in Child(e) : c = ReplyTo[e] /\ c # GoalMsg[e] /\ c \in Msg /\ c \notin External
    BY <1>10, <2>1, ChildType DEF IsAgentSessionRequest, Child
  <2>3. call'[Handler] = Fresh(c) /\ pc'[Handler] = "called"
    BY <1>1, <1>10, <2>1, <2>2 DEF Goto
  <2>4. Bears(c)
    BY <1>1, <1>3, <2>2, <2>3 DEF Bears, Picks, Fresh, Carrying, CarryPc
  <2>5. PlacesDiffer' /\ Fates'
    <3>1. \A n \in Msg : GoalAhead(n)' => n = e /\ c # GoalMsg[e] /\ OnTurn(e)
      BY <1>6, <2>1, <2>2
    <3>2. submits' = [submits EXCEPT ![c] = @ + 1]
      BY <1>10, <2>1, <2>2
    <3>3. UNCHANGED <<started, cleared>>
      BY <1>3
    <3>4. \A r \in Session : active'[r] # NoEntry => active'[r] = active[r]
      BY <1>8
    <3>5. \A n \in Msg : OnTurn(n)' => OnTurn(n)
      BY <1>5
    <3> QED
      BY <1>1, <2>1, <2>4, <3>1, <3>2, <3>3, <3>4, <3>5, BearFates
  <2>6. CallAgrees(Handler)'
    BY <2>2, <2>3, Processes DEF CallAgrees, Fresh, Carrying
  <2> QED
    BY <1>1, <2>5, <2>6, OthersAgree DEF Placed
<1> QED
  BY <1>3, <1>9, <1>10

LEMMA ClearPlaces ==
  ASSUME TypeInv, Placed, ClearAfterFailure
  PROVE  Placed'
<1>1. /\ CallsAgree /\ PlacesDiffer /\ Fates /\ Alone(Handler)
      /\ pc[Handler] = "clear" /\ Handler \in Submitter
      /\ pc \in [Process -> PcLabel] /\ Handler \in Process
  BY HandlerShape, Processes DEF Placed, ClearAfterFailure, HandlerStep, At, TypeInv, TypeOK
<1>2. /\ pc'[Handler] = "goal" /\ UNCHANGED <<call, job, active, submits, started>>
      /\ Clear(job.session) \/ UNCHANGED <<queues, cleared>>
  BY <1>1 DEF ClearAfterFailure, Goto
<1>3. Rests(Handler) /\ job.session \in Session
  BY <1>1, <1>2
  DEF Rests, Carrying, CarryPc, StartTurnPc, InStart, TypeInv, CallsAreSet
<1>4. CallsAgree'
  <2>1. CallAgrees(Handler)'
    BY <1>1, <1>2, <1>3, Processes DEF CallsAgree, CallAgrees, Rests, StartTurnPc, InStart
  <2> QED
    BY <1>1, <2>1, OthersAgree
<1>5. /\ QueuesDiffer' /\ \A n \in Msg : InQueue(n)' => InQueue(n)
      /\ \A n \in Msg : n \in cleared' => n \in cleared \/ (InQueue(n) /\ ~ InQueue(n)')
  <2>1. CASE Clear(job.session)
    BY <1>1, <1>3, <2>1, ClearQueue DEF PlacesDiffer
  <2>2. CASE UNCHANGED <<queues, cleared>>
    BY <1>1, <2>2 DEF PlacesDiffer, QueuesDiffer, InQueue
  <2> QED
    BY <1>2, <2>1, <2>2
<1>6. /\ PlacesDiffer' /\ \A n \in Msg : Awaits(n)' => Awaits(n)
      /\ \A n \in Msg : Awaits(n)' /\ InQueue(n) => InQueue(n)'
  BY <1>1, <1>3, <1>5, KeepPlaces
<1>7. Fates'
  <2>1. \A n \in Msg : n \in cleared' => n \in cleared \/ (Awaits(n) /\ ~ Awaits(n)')
    BY <1>5, <1>6 DEF Awaits
  <2>2. \A n \in Msg : (OnTurn(n)' <=> OnTurn(n)) /\ (GoalAhead(n)' => GoalAhead(n))
    BY <1>2 DEF OnTurn, GoalAhead
  <2>3. \A s \in Session : active'[s] # NoEntry => Target[active'[s].msg] = s
    BY <1>1, <1>2 DEF Fates, EntriesAreOver
  <2> QED
    BY <1>1, <1>2, <1>6, <2>1, <2>2, <2>3, SteadyFates
<1> QED
  BY <1>4, <1>6, <1>7 DEF Placed

\* The outcome handler asks whether the goal is met, and may go on with it.
LEMMA GoalPlaces ==
  ASSUME TypeInv, Placed, GoalContinuation
  PROVE  Placed'
<1>1. /\ CallsAgree /\ PlacesDiffer /\ Fates /\ Alone(Handler)
      /\ pc[Handler] = "goal" /\ ~ Carrying(Handler) /\ Handler \in Submitter
      /\ Handler \in Caller /\ Handler \in Process /\ pc \in [Process -> PcLabel]
      /\ call \in [Caller -> CallLocals] /\ job \in JobLocals
  BY HandlerShape, Processes
  DEF Placed, GoalContinuation, HandlerStep, At, Carrying, CarryPc, StartTurnPc, InStart,
      TypeInv, TypeOK
<1>2. /\ UNCHANGED <<queues, active, started, cleared>>
      /\ \/ /\ job.entry # NoEntry /\ GoalMsg[job.entry.msg] # None
            /\ call' = [call EXCEPT ![Handler] = Fresh(GoalMsg[job.entry.msg])]
            /\ job' = [job EXCEPT !.stage = "goal"]
            /\ submits' = [submits EXCEPT ![GoalMsg[job.entry.msg]] = @ + 1]
            /\ Goto(Handler, "called")
         \/ /\ job' \in {NoJob, [job EXCEPT !.stage = "dispatch"]}
            /\ Goto(Handler, AfterGoal(job.status)) /\ UNCHANGED <<call, submits>>
  BY DEF GoalContinuation, scheduler
<1>3. /\ \A n \in Msg : OnTurn(n)' <=> OnTurn(n)
      /\ \A s \in Session : active'[s] # NoEntry =>
           active'[s] = active[s] /\ Target[active'[s].msg] = s
  BY <1>1, <1>2 DEF OnTurn, Fates, EntriesAreOver
<1>4. CASE /\ job' \in {NoJob, [job EXCEPT !.stage = "dispatch"]}
           /\ Goto(Handler, AfterGoal(job.status)) /\ UNCHANGED <<call, submits>>
  <2>1. pc'[Handler] \in {"trynext", "recv"} /\ Rests(Handler)
    BY <1>1, <1>4 DEF Goto, AfterGoal, Rests, Carrying, CarryPc, StartTurnPc, InStart
  <2>2. QueuesDiffer' /\ \A n \in Msg : InQueue(n)' => InQueue(n)
    BY <1>1, <1>2 DEF PlacesDiffer, QueuesDiffer, InQueue
  <2>3. PlacesDiffer' /\ \A n \in Msg : Awaits(n)' => Awaits(n)
    BY <1>1, <2>1, <2>2, KeepPlaces
  <2>4. CallsAgree'
    <3>1. CallAgrees(Handler)'
      BY <1>1, <1>4, <2>1, Processes DEF CallsAgree, CallAgrees, Rests, StartTurnPc, InStart
    <3> QED
      BY <1>1, <3>1, OthersAgree
  <2>5. \A n \in Msg : ~ GoalAhead(n)'
    <3>1. job'.stage = "dispatch" \/ job'.entry = NoEntry
      BY <1>1, <1>4 DEF JobLocals, NoJob
    <3> QED
      BY <3>1, SchedulerAssumption DEF GoalAhead, NoEntry
  <2>6. Fates'
    BY <1>1, <1>2, <1>3, <1>4, <2>3, <2>5, SteadyFates
  <2> QED
    BY <2>3, <2>4, <2>6 DEF Placed
<1>5. CASE /\ job.entry # NoEntry /\ GoalMsg[job.entry.msg] # None
           /\ call' = [call EXCEPT ![Handler] = Fresh(GoalMsg[job.entry.msg])]
           /\ job' = [job EXCEPT !.stage = "goal"]
           /\ submits' = [submits EXCEPT ![GoalMsg[job.entry.msg]] = @ + 1]
           /\ Goto(Handler, "called")
  <2>1. PICK e \in Msg : e = job.entry.msg
    BY <1>1, <1>5 DEF JobLocals, ActiveTurn
  <2>2. PICK c \in Child(e) : c = GoalMsg[e] /\ c \in Msg /\ c \notin External
    BY <1>5, <2>1, ChildType DEF Child
  <2>3. GoalAhead(e) /\ ~ OnTurn(e)
    BY <1>1, <2>1 DEF GoalAhead, CallsAgree, CallAgrees, Fates, EntriesAreOver
  <2>4. call'[Handler] = Fresh(c) /\ pc'[Handler] = "called" /\ job'.stage = "goal"
    BY <1>1, <1>5, <2>1, <2>2 DEF Goto, JobLocals
  <2>5. Bears(c)
    BY <1>1, <1>2, <2>2, <2>4 DEF Bears, Picks, Fresh, Carrying, CarryPc
  <2>6. PlacesDiffer' /\ Fates'
    <3>1. \A n \in Msg : ~ GoalAhead(n)'
      BY <2>4 DEF GoalAhead
    <3>2. submits' = [submits EXCEPT ![c] = @ + 1]
      BY <1>5, <2>1, <2>2
    <3> QED
      BY <1>1, <1>2, <1>3, <2>2, <2>3, <2>5, <3>1, <3>2, BearFates
  <2>7. CallAgrees(Handler)'
    BY <2>2, <2>4, Processes DEF CallAgrees, Fresh, Carrying
  <2> QED
    BY <1>1, <2>6, <2>7, OthersAgree DEF Placed
<1> QED
  BY <1>2, <1>4, <1>5

LEMMA BystanderPlaces ==
  ASSUME TypeInv, Placed, Bystands
  PROVE  Placed'
<1>1. \A a \in Submitter : Carrying(a)' <=> Carrying(a)
  BY DEF Bystands, Carrying
<1>2. \A n \in Msg : (InQueue(n)' <=> InQueue(n)) /\ (Awaits(n)' <=> Awaits(n))
  BY <1>1 DEF Bystands, InQueue, Awaits
<1>3. CallsAgree' /\ PlacesDiffer'
  BY <1>1 DEF Bystands, Placed, CallsAgree, CallAgrees, Carrying, PlacesDiffer, QueuesDiffer, InQueue
<1>4. Fates'
  <2>1. \A n \in Msg : (OnTurn(n)' <=> OnTurn(n)) /\ (GoalAhead(n)' <=> GoalAhead(n))
    BY DEF Bystands, OnTurn, GoalAhead
  <2>2. \A s \in Session : active'[s] # NoEntry => Target[active'[s].msg] = s
    BY DEF Bystands, Placed, Fates, EntriesAreOver
  <2> QED
    BY <1>2, <2>1, <2>2, SteadyFates DEF Bystands, Placed
<1> QED
  BY <1>3, <1>4 DEF Placed

-----------------------------------------------------------------------------
(* Executions agree with the starts that have been counted.                *)

\* The execution that a caller is about to spawn.
LEMMA NextTask ==
  ASSUME TypeInv, StartsAgree, NEW a \in Submitter, pc[a] \in InStart
  PROVE  /\ call[a].msg \in Msg /\ started[call[a].msg] \in 1 .. MaxStarts
         /\ <<call[a].msg, started[call[a].msg]>> \in Task
<1>1. call[a].msg \in Msg
  BY MessageType DEF InStart, HasMessage
<1>2. started[call[a].msg] \in 1 .. MaxStarts
  <2>1. started[call[a].msg] \in 0 .. MaxStarts /\ started[call[a].msg] > 0
    BY <1>1 DEF TypeInv, TypeOK, StartsAgree
  <2> QED
    BY <2>1, SchedulerAssumption
<1> QED
  BY <1>1, <1>2 DEF Task

LEMMA FrameAgrees ==
  ASSUME StartsAgree, UNCHANGED <<started, task>>,
         \A a \in Submitter : pc'[a] \in InStart => pc[a] \in InStart /\ call'[a].msg = call[a].msg,
         \A a \in Submitter : pc'[a] \in StartPc => pc[a] \in StartPc
  PROVE  StartsAgree'
<1>1. \A a \in Submitter : pc'[a] \in StartPc => pc'[a] \in InStart
  BY DEF StartPc, InStart
<1> QED
  BY <1>1 DEF StartsAgree

LEMMA StartAgrees ==
  ASSUME TypeInv, CallsAgree, PlacesDiffer, StartsAgree, NEW a \in Submitter, StartStep(a)
  PROVE  StartsAgree'
<1>1. /\ Alone(a) /\ Carrying(a) /\ (Stays(a) \/ Leaves(a))
      /\ ~ StartPersistedTurn(a) /\ pc'[a] \in InStart => Stays(a) /\ pc[a] \in InStart
  BY StartMoves DEF Puts, Leaves, Carrying, CarryPc, StartTurnPc
<1>2. \A b \in Submitter : b # a => pc'[b] = pc[b] /\ call'[b] = call[b]
  BY <1>1, OthersCarry
<1>3. \A b \in Submitter : b # a /\ pc[b] \in InStart => call[b].msg # call[a].msg
  BY <1>1 DEF PlacesDiffer, Carrying, CarryPc, StartTurnPc
<1>4. \A b \in Submitter : pc[b] \in StartPc => pc[b] \in InStart
  BY DEF StartPc, InStart
<1>5. \A m, n \in Msg, k, l \in 1 .. MaxStarts : <<m, k>> = <<n, l>> => m = n /\ k = l
  OBVIOUS
<1>6. CASE UNCHANGED <<task, started>> /\ ~ StartPersistedTurn(a)
           /\ (pc'[a] \in StartPc => pc[a] \in StartPc)
  BY <1>1, <1>2, <1>6, FrameAgrees DEF Stays
<1>7. CASE StartPersistedTurn(a) /\ pc'[a] = "persist" /\ UNCHANGED call
  <2> DEFINE m == call[a].msg
  <2>1. /\ m \in Msg /\ started[m] \in Nat /\ started[m] + 1 \in 1 .. MaxStarts
        /\ started' = [started EXCEPT ![m] = @ + 1] /\ UNCHANGED task
    <3>1. m \in Msg
      BY <1>7, MessageType DEF StartPersistedTurn, At, HasMessage
    <3>2. started[m] \in 0 .. MaxStarts /\ started[m] < MaxStarts /\ MaxStarts \in Nat
      BY <1>7, <3>1, SchedulerAssumption DEF StartPersistedTurn, TypeInv, TypeOK
    <3> QED
      BY <1>7, <3>1, <3>2 DEF StartPersistedTurn
  <2>2. started'[m] = started[m] + 1 /\ \A n \in Msg : n # m => started'[n] = started[n]
    BY <2>1 DEF TypeInv, TypeOK
  <2>3. ASSUME NEW b \in Submitter, b # a, pc'[b] \in InStart
        PROVE  pc[b] \in InStart /\ call'[b].msg = call[b].msg
               /\ started'[call[b].msg] = started[call[b].msg]
    BY <1>2, <1>3, <2>2, <2>3, NextTask
  <2>4. ASSUME NEW n \in Msg, NEW k \in 1 .. MaxStarts, k > started'[n]
        PROVE  task'[<<n, k>>].phase = "none"
    <3>1. started[n] \in Nat
      BY DEF TypeInv, TypeOK
    <3>2. k > started[n]
      BY <2>1, <2>2, <2>4, <3>1
    <3> QED
      BY <2>1, <3>2 DEF StartsAgree
  <2>5. ASSUME NEW b \in Submitter, pc'[b] \in InStart PROVE started'[call'[b].msg] > 0
    <3>1. CASE b = a
      BY <1>7, <2>1, <2>2, <3>1
    <3>2. CASE b # a
      BY <1>2, <2>3, <2>5, <3>2 DEF StartsAgree
    <3> QED
      BY <3>1, <3>2
  <2>6. ASSUME NEW b \in Submitter, pc'[b] \in StartPc
        PROVE  task'[<<call'[b].msg, started'[call'[b].msg]>>].phase = "none"
    <3>1. CASE b = a
      <4>1. task[<<m, started[m] + 1>>].phase = "none"
        BY <2>1 DEF StartsAgree
      <4> QED
        BY <1>7, <2>1, <2>2, <3>1, <4>1
    <3>2. CASE b # a
      <4>1. pc[b] \in StartPc /\ pc'[b] \in InStart
        BY <1>2, <1>4, <2>6, <3>2
      <4> QED
        BY <2>1, <2>3, <3>2, <4>1 DEF StartsAgree
    <3> QED
      BY <3>1, <3>2
  <2> QED
    BY <2>4, <2>5, <2>6 DEF StartsAgree
<1>8. CASE SpawnTurn(a) /\ pc'[a] = "resolve" /\ UNCHANGED <<started, call>>
  <2> DEFINE m == call[a].msg
  <2>1. pc[a] = "spawn" /\ pc[a] \in InStart /\ pc[a] \in StartPc
    BY <1>8 DEF SpawnTurn, At, InStart, StartPc
  <2>2. m \in Msg /\ started[m] \in 1 .. MaxStarts /\ <<m, started[m]>> \in Task
    BY <2>1, NextTask
  <2>3. \A u \in Task : u # <<m, started[m]>> => task'[u] = task[u]
    BY <1>8 DEF SpawnTurn, TypeInv, TypeOK
  <2>4. ASSUME NEW b \in Submitter, pc'[b] \in InStart
        PROVE  pc[b] \in InStart /\ started'[call'[b].msg] > 0
    BY <1>2, <1>8, <2>1, <2>4 DEF StartsAgree
  <2>5. ASSUME NEW b \in Submitter, pc'[b] \in StartPc
        PROVE  task'[<<call'[b].msg, started'[call'[b].msg]>>].phase = "none"
    <3>1. b # a /\ pc[b] \in StartPc /\ pc[b] \in InStart
      BY <1>2, <1>4, <1>8, <2>5 DEF StartPc
    <3> DEFINE u == <<call[b].msg, started[call[b].msg]>>
    <3>2. u \in Task /\ u # <<m, started[m]>> /\ task[u].phase = "none"
      BY <1>3, <2>2, <3>1, NextTask DEF StartsAgree
    <3> QED
      BY <1>8, <2>3, <3>2
  <2>6. ASSUME NEW n \in Msg, NEW k \in 1 .. MaxStarts, k > started'[n]
        PROVE  task'[<<n, k>>].phase = "none"
    <3>1. task[<<n, k>>].phase = "none" /\ <<n, k>> \in Task
      BY <1>8, <2>6 DEF StartsAgree, Task
    <3>2. <<n, k>> # <<m, started[m]>>
      <4>1. CASE n = m
        <5>1. k # started[m]
          BY <1>8, <2>2, <2>6, <4>1
        <5> QED
          BY <5>1
      <4>2. CASE n # m
        BY <4>2
      <4> QED
        BY <4>1, <4>2
    <3> QED
      BY <2>3, <3>1, <3>2
  <2> QED
    BY <2>4, <2>5, <2>6 DEF StartsAgree
<1>9. CASE RegisterTurn(a) /\ UNCHANGED <<task, started>>
  <2>1. pc[a] \in StartPc /\ ~ StartPersistedTurn(a)
    BY <1>9 DEF RegisterTurn, StartPersistedTurn, At, StartPc
  <2> QED
    BY <1>6, <1>9, <2>1
<1>10. CASE UNCHANGED <<task, started>> /\ pc'[a] \notin StartPc
  <2>1. ~ StartPersistedTurn(a)
    <3>1. SUFFICES ASSUME StartPersistedTurn(a) PROVE FALSE
      OBVIOUS
    <3>2. pc'[a] = "persist"
      BY <3>1, Processes DEF StartPersistedTurn, Goto, TypeInv, TypeOK
    <3> QED
      BY <1>10, <3>2 DEF StartPc
  <2> QED
    BY <1>6, <1>10, <2>1
<1> QED
  BY <1>7, <1>8, <1>9, <1>10, StartShape

LEMMA TaskAgrees ==
  ASSUME TypeInv, StartsAgree, NEW t \in Task, TaskStep(t)
  PROVE  StartsAgree'
<1>1. /\ UNCHANGED <<started, pc, call>> /\ \A u \in Task : u # t => task'[u] = task[u]
      /\ task[t].phase # "none"
  BY TaskShape
<1>2. \A u \in Task : task[u].phase = "none" => task'[u].phase = "none"
  BY <1>1
<1>3. ASSUME NEW a \in Submitter, pc[a] \in StartPc
      PROVE  task'[<<call[a].msg, started[call[a].msg]>>].phase = "none"
  <2>1. pc[a] \in InStart
    BY <1>3 DEF StartPc, InStart
  <2> QED
    BY <1>2, <1>3, <2>1, NextTask DEF StartsAgree
<1>4. \A m \in Msg, k \in 1 .. MaxStarts : <<m, k>> \in Task
  BY DEF Task
<1> QED
  BY <1>1, <1>2, <1>3, <1>4 DEF StartsAgree

LEMMA StepAgrees ==
  ASSUME TypeInv, CallsAgree, PlacesDiffer, StartsAgree, [Next]_vars
  PROVE  StartsAgree'
<1>1. ASSUME NEW p \in Process, Alone(p), UNCHANGED <<started, task>>,
             p \in Submitter => pc'[p] \notin InStart
      PROVE  StartsAgree'
  <2>1. \A a \in Submitter : pc'[a] \in InStart => pc'[a] = pc[a] /\ call'[a] = call[a]
    BY <1>1, Processes DEF Alone
  <2>2. \A a \in Submitter : pc'[a] \in StartPc => pc'[a] \in InStart
    BY DEF StartPc, InStart
  <2> QED
    BY <1>1, <2>1, <2>2, FrameAgrees
<1>2. ASSUME NEW a \in Submitter, Submit(a) \/ SubmitStep(a) \/ DeliverBackground(a)
      PROVE  StartsAgree'
  BY <1>1, <1>2, SubmitMoves, Processes
<1>3. ASSUME NEW a \in Submitter, StartStep(a) PROVE StartsAgree'
  BY <1>3, StartAgrees
<1>4. CASE HandlerStep
  <2>1. pc'[Handler] \in {"called", "clear", "goal", "trynext", "recv"}
    <3>1. /\ Handler \in Process /\ pc \in [Process -> PcLabel]
      BY Processes DEF TypeInv, TypeOK
    <3> QED
      BY <1>4, <3>1
      DEF HandlerStep, ReceiveOutcome, ClearAfterFailure, GoalContinuation, Goto, AfterGoal
  <2>2. pc'[Handler] \notin InStart
    BY <2>1 DEF InStart
  <2> QED
    BY <1>1, <1>4, <2>2, HandlerShape, Processes
<1>5. ASSUME NEW t \in Task, TaskStep(t) PROVE StartsAgree'
  BY <1>5, TaskAgrees
<1>6. ASSUME NEW c \in Canceller, CancelBegin(c) \/ UserCancel(c) \/ CancelStep(c)
      PROVE  StartsAgree'
  BY <1>1, <1>6, CancelShape, Processes
<1>7. ASSUME NEW i \in Steering, SteerChecks(i) \/ SteerPushes(i) PROVE StartsAgree'
  BY <1>1, <1>7, SteeringShape, Processes
<1>8. CASE UNCHANGED vars
  BY <1>8, FrameAgrees DEF vars, engine, locals, history
<1>9. ASSUME NEW a \in External, Calls(a) PROVE StartsAgree'
  BY <1>2, <1>9, Processes DEF Calls
<1> QED
  BY <1>2, <1>3, <1>4, <1>5, <1>6, <1>7, <1>8, <1>9 DEF Next

-----------------------------------------------------------------------------
(* A message that reached the queue stays accounted for.                   *)

LEMMA HeldKept ==
  ASSUME NEW a \in Submitter, Alone(a), NEW n,
         call[a].queued /\ call[a].msg = n => call'[a].queued /\ call'[a].msg = n
  PROVE  Held(n) # {} => Held(n)' # {}
<1>1. ASSUME NEW b \in Held(n) PROVE b \in Held(n)'
  BY OthersCarry DEF Held
<1> QED
  BY <1>1

LEMMA IdleHolds ==
  ASSUME CallsAgree, NEW a \in Submitter, Alone(a),
         Stays(a) \/ ~ Carrying(a) \/ ~ call[a].queued
  PROVE  \A n : Held(n) # {} => Held(n)' # {}
<1>1. Stays(a) \/ ~ call[a].queued
  BY DEF CallsAgree, CallAgrees, Carrying, CarryPc
<1> QED
  BY <1>1, HeldKept DEF Stays

LEMMA SubmitAccounts ==
  ASSUME TypeInv, MessageInv, NEW a \in Submitter,
         Submit(a) \/ SubmitStep(a) \/ DeliverBackground(a)
  PROVE  \A n \in Msg : Accounted(n) => Accounted(n)'
<1>1. CallsAgree /\ PlacesDiffer /\ Alone(a) /\ UNCHANGED started
  BY SubmitMoves DEF MessageInv
<1>2. CASE UNCHANGED <<queues, cleared>> /\ (Stays(a) \/ Rests(a) \/ (Leaves(a) /\ ~ call[a].queued))
  BY <1>1, <1>2, IdleHolds DEF Accounted, InQueue, Rests
<1>3. CASE Stays(a) /\ SessionOf(a) \in Session /\ Clear(SessionOf(a))
  <2>1. \A n \in Msg : InQueue(n) \/ n \in cleared => InQueue(n)' \/ n \in cleared'
    BY <1>1, <1>3, ClearQueue DEF PlacesDiffer
  <2> QED
    BY <1>1, <1>3, <2>1, IdleHolds DEF Accounted
<1>4. CASE UNCHANGED cleared /\ Puts(a) /\ ~ call[a].queued
  BY <1>1, <1>4, PutPlaces, IdleHolds DEF Accounted
<1>5. CASE /\ UNCHANGED cleared /\ Rests(a) /\ SessionOf(a) \in Session
           /\ queues' = [queues EXCEPT ![SessionOf(a)] = Reordered(@)]
  <2>1. \A n \in Msg : InQueue(n)' <=> InQueue(n)
    BY <1>1, <1>5, ReorderQueue DEF PlacesDiffer
  <2> QED
    BY <1>1, <1>5, <2>1, IdleHolds DEF Accounted, Rests
<1>6. CASE UNCHANGED cleared /\ \E s \in Session : Takes(a, s)
  <2>1. \A n \in Msg : InQueue(n) /\ n # call'[a].msg => InQueue(n)'
    BY <1>1, <1>6, TakePlaces
  <2>2. \A n \in Msg : n = call'[a].msg => Held(n)' # {}
    BY <1>6 DEF Takes, Held
  <2>3. \A n \in Msg : Held(n) # {} => Held(n)' # {}
    BY <1>1, <1>6, IdleHolds DEF Takes, Picks
  <2> QED
    BY <1>1, <1>6, <2>1, <2>2, <2>3 DEF Accounted
<1> QED
  BY <1>2, <1>3, <1>4, <1>5, <1>6, SubmitMoves DEF MessageInv

LEMMA StartAccounts ==
  ASSUME TypeInv, MessageInv, NEW a \in Submitter, StartStep(a)
  PROVE  \A n \in Msg : Accounted(n) => Accounted(n)'
<1>1. CallsAgree /\ PlacesDiffer /\ Alone(a) /\ Carrying(a) /\ UNCHANGED cleared
  BY StartMoves DEF MessageInv
<1>2. \A n \in Msg : started[n] > 0 => started'[n] > 0
  BY StartCounts
<1>3. CASE UNCHANGED queues /\ (Stays(a) \/ ~ call[a].queued)
  BY <1>1, <1>2, <1>3, IdleHolds DEF Accounted, InQueue
<1>4. CASE Leaves(a) /\ pc[a] = "insert" /\ UNCHANGED queues
  <2>1. \A n \in Msg : n = call[a].msg => started[n] > 0
    BY <1>4 DEF MessageInv, StartsAgree, InStart
  <2>2. \A n \in Msg : n # call[a].msg => (Held(n) # {} => Held(n)' # {})
    BY <1>1, HeldKept
  <2> QED
    BY <1>1, <1>2, <1>4, <2>1, <2>2 DEF Accounted, InQueue
<1>5. CASE Puts(a)
  <2>1. \A n \in Msg : InQueue(n) \/ n = call[a].msg => InQueue(n)'
    BY <1>1, <1>5, PutPlaces
  <2>2. \A n \in Msg : n # call[a].msg => (Held(n) # {} => Held(n)' # {})
    BY <1>1, HeldKept
  <2> QED
    BY <1>1, <1>2, <2>1, <2>2 DEF Accounted
<1> QED
  BY <1>3, <1>4, <1>5, StartMoves DEF MessageInv

LEMMA HandlerAccounts ==
  ASSUME TypeInv, MessageInv, HandlerStep
  PROVE  /\ \A n \in Msg : Accounted(n) => Accounted(n)'
         /\ Alone(Handler) /\ UNCHANGED result
<1>1. CallsAgree /\ PlacesDiffer /\ Alone(Handler) /\ Handler \in Submitter /\ UNCHANGED started
  BY HandlerShape, Processes DEF MessageInv
<1>2. ~ Carrying(Handler) /\ UNCHANGED result
  BY DEF HandlerStep, ReceiveOutcome, ClearAfterFailure, GoalContinuation, At, history,
         Carrying, CarryPc, StartTurnPc, InStart
<1>3. \A n \in Msg : InQueue(n) \/ n \in cleared => InQueue(n)' \/ n \in cleared'
  <2>1. CASE UNCHANGED <<queues, cleared>>
    BY <2>1 DEF InQueue
  <2>2. CASE ClearAfterFailure
    <3>1. job.session \in Session
      BY <2>2 DEF ClearAfterFailure, At, TypeInv, CallsAreSet
    <3> QED
      BY <1>1, <2>1, <2>2, <3>1, ClearQueue DEF ClearAfterFailure, PlacesDiffer
  <2> QED
    BY <2>1, <2>2 DEF HandlerStep, ReceiveOutcome, GoalContinuation, scheduler
<1> QED
  BY <1>1, <1>2, <1>3, IdleHolds DEF Accounted

LEMMA OthersPushed ==
  ASSUME TypeInv, NEW p \in Process, Alone(p), PushedIsAccounted,
         \A n \in Msg : Accounted(n) => Accounted(n)',
         \A n \in External : n # p => result'[n] = result[n],
         p \in External /\ Pushed(p)' => Accounted(p)'
  PROVE  PushedIsAccounted'
<1>1. \A n \in External : n \in Process /\ n \in Caller /\ n \in Msg
  BY Processes
<1>2. \A n \in External : n # p => (Pushed(n)' => Pushed(n))
  BY <1>1 DEF Alone, Pushed
<1> QED
  BY <1>1, <1>2 DEF PushedIsAccounted

LEMMA StepAccounts ==
  ASSUME TypeInv, MessageInv, [Next]_vars
  PROVE  PushedIsAccounted'
<1>0. PushedIsAccounted /\ CallsAgree /\ PlacesDiffer
  BY DEF MessageInv
<1>1. ASSUME NEW a \in Submitter, Submit(a) \/ SubmitStep(a) \/ DeliverBackground(a)
      PROVE  PushedIsAccounted'
  <2>1. /\ \A n \in Msg : Accounted(n) => Accounted(n)'
        /\ Alone(a) /\ LocalsAgree(a)
        /\ a \in External /\ Pushed(a)' => Pushed(a) \/ (Puts(a) /\ ~ call[a].queued)
    BY <1>0, <1>1, SubmitAccounts, SubmitMoves
  <2>2. ASSUME a \in External, Pushed(a)' PROVE Accounted(a)'
    <3>1. CASE Pushed(a)
      BY <1>0, <2>1, <2>2, <3>1, Processes DEF PushedIsAccounted
    <3>2. CASE Puts(a) /\ ~ call[a].queued
      <4>1. call[a].msg = a
        BY <1>0, <2>2, <3>2 DEF CallsAgree, CallAgrees
      <4> QED
        BY <1>0, <2>1, <2>2, <3>2, <4>1, PutPlaces, Processes DEF Accounted
    <3> QED
      BY <2>1, <2>2, <3>1, <3>2
  <2> QED
    BY <1>0, <2>1, <2>2, OthersPushed, Processes DEF LocalsAgree
<1>2. ASSUME NEW a \in Submitter, StartStep(a) PROVE PushedIsAccounted'
  <2>1. /\ \A n \in Msg : Accounted(n) => Accounted(n)'
        /\ Alone(a) /\ LocalsAgree(a) /\ (a \in External /\ Pushed(a)' => Pushed(a))
    BY <1>0, <1>2, StartAccounts, StartMoves
  <2>2. a \in External /\ Pushed(a)' => Accounted(a)'
    BY <1>0, <2>1, Processes DEF PushedIsAccounted
  <2> QED
    BY <1>0, <2>1, <2>2, OthersPushed, Processes DEF LocalsAgree
<1>3. CASE HandlerStep
  BY <1>0, <1>3, HandlerAccounts, OthersPushed, Processes
<1>4. CASE Bystands
  <2>1. \A n : Held(n)' = Held(n)
    BY <1>4 DEF Bystands, Held
  <2>2. \A n \in External : n \in Submitter /\ (Pushed(n)' <=> Pushed(n))
    BY <1>4, Processes DEF Bystands, Pushed
  <2> QED
    BY <1>0, <1>4, <2>1, <2>2 DEF PushedIsAccounted, Accounted, InQueue, Bystands
<1>5. CASE UNCHANGED vars
  BY <1>0, <1>4, <1>5 DEF vars, scheduler, locals, history, Bystands
<1>6. ASSUME NEW a \in External, Calls(a) PROVE PushedIsAccounted'
  BY <1>1, <1>6, Processes DEF Calls
<1> QED
  BY <1>1, <1>2, <1>3, <1>4, <1>5, <1>6, TaskBystands, CancelBystands, SteeringBystands DEF Next

-----------------------------------------------------------------------------
(* The invariant.                                                          *)

LEMMA InitMessages ==
  ASSUME Init
  PROVE  MessageInv
<1>1. ToSet(<<>>) = {}
  BY DEF ToSet
<1>2. /\ \A a \in External : pc[a] = "new" /\ call[a].msg = a /\ ~ call[a].queued /\ a \in Msg
      /\ pc[Handler] = "recv" /\ ~ call[Handler].queued
  <2>1. \A a \in Submitter : a \in Process /\ a \in Caller
    BY Processes
  <2>2. /\ \A a \in External : pc[a] = "new" /\ call[a] = Fresh(a)
        /\ pc[Handler] = "recv" /\ call[Handler] = Fresh(None)
    BY <2>1, Processes DEF Init
  <2>3. \A m : Fresh(m).msg = m /\ Fresh(m).queued = FALSE
    BY DEF Fresh
  <2> QED
    BY <2>2, <2>3, Processes
<1>3. \A a \in Submitter : a = Handler \/ a \in External
  BY DEF Submitter
<1>4. ~ Carrying(Handler)
  BY <1>2 DEF Carrying, CarryPc, StartTurnPc, InStart
<1>5. \A n \in Msg : ~ InQueue(n) /\ Target[n] \in Session
  BY <1>1, SchedulerAssumption DEF Init, InQueue
<1>6. CallsAgree
  BY <1>2, <1>3, <1>4, Processes DEF CallsAgree, CallAgrees
<1>7. PlacesDiffer
  <2>1. QueuesDiffer
    BY <1>1 DEF Init, QueuesDiffer, OneEach
  <2> QED
    BY <1>2, <1>3, <1>4, <1>5, <2>1 DEF PlacesDiffer
<1>8. \A n \in Msg : ~ OnTurn(n) /\ ~ GoalAhead(n) /\ (Awaits(n) => n \in External)
  <2>1. \A n \in Msg : Awaits(n) => n \in External
    BY <1>2, <1>3, <1>4, <1>5 DEF Awaits
  <2>2. None \notin Msg
    BY SchedulerAssumption
  <2> QED
    BY <1>5, <2>1, <2>2 DEF Init, OnTurn, GoalAhead, NoEntry, NoJob
<1>9. EntriesAreOver
  BY <1>8 DEF Init, EntriesAreOver
<1>10. SubmittedOnce
  <2>1. \A m \in Msg : \A c \in Child(m) : submits[c] = 0
    BY ChildType DEF Init
  <2> QED
    BY <1>8, <2>1 DEF SubmittedOnce, Submitted, Init
<1>11. ClearedIsOver
  BY DEF Init, ClearedIsOver
<1>12. StartsAgree
  <2>1. \A a \in Submitter : pc[a] \notin InStart /\ pc[a] \notin StartPc
    BY <1>2, <1>3 DEF InStart, StartPc
  <2>2. \A m \in Msg, k \in 1 .. MaxStarts : task[<<m, k>>].phase = "none"
    BY DEF Init, Task
  <2> QED
    BY <2>1, <2>2 DEF StartsAgree
<1>13. PushedIsAccounted
  <2>1. \A n \in External : result[n] = "none"
    BY DEF Init
  <2> QED
    BY <1>2, <2>1 DEF PushedIsAccounted, Pushed
<1> QED
  BY <1>6, <1>7, <1>9, <1>10, <1>11, <1>12, <1>13 DEF MessageInv

LEMMA StepPlaces ==
  ASSUME TypeInv, MessageInv, [Next]_vars
  PROVE  Placed'
<1>0. Placed /\ StartsAgree
  BY DEF MessageInv, Placed, Fates
<1>1. ASSUME NEW a \in Submitter, Submit(a) \/ SubmitStep(a) \/ DeliverBackground(a)
      PROVE  Placed'
  BY <1>0, <1>1, SubmitPlaces
<1>2. ASSUME NEW a \in Submitter, StartStep(a) PROVE Placed'
  BY <1>0, <1>2, StartPlaces
<1>3. CASE HandlerStep
  BY <1>0, <1>3, ReceivePlaces, ClearPlaces, GoalPlaces DEF HandlerStep
<1>4. CASE Bystands
  BY <1>0, <1>4, BystanderPlaces
<1>5. CASE UNCHANGED vars
  BY <1>4, <1>5 DEF vars, scheduler, locals, history, Bystands
<1>6. ASSUME NEW a \in External, Calls(a) PROVE Placed'
  BY <1>1, <1>6, Processes DEF Calls
<1> QED
  BY <1>1, <1>2, <1>3, <1>4, <1>5, <1>6, TaskBystands, CancelBystands, SteeringBystands DEF Next

LEMMA StepMessages ==
  ASSUME TypeInv, MessageInv, [Next]_vars
  PROVE  MessageInv'
BY StepPlaces, StepAgrees, StepAccounts DEF MessageInv, Placed, Fates

LEMMA MessagesKept == Spec => [](TypeInv /\ MessageInv)
<1>1. Init => TypeInv /\ MessageInv
  BY InitTypes, InitMessages
<1>2. TypeInv /\ MessageInv /\ [Next]_vars => TypeInv' /\ MessageInv'
  BY StepTypes, StepMessages
<1> QED
  BY <1>1, <1>2, PTL DEF Spec

-----------------------------------------------------------------------------
(* What the invariant says of each message.                                *)

LEMMA AtMostOne ==
  ASSUME NEW S, \A x, y \in S : x = y
  PROVE  Cardinality(S) \in {0, 1} /\ (Cardinality(S) # 0 => S # {})
<1>1. CASE S = {}
  BY <1>1, FS_EmptySet
<1>2. CASE S # {}
  <2>1. PICK x : S = {x}
    BY <1>2
  <2> QED
    BY <1>2, <2>1, FS_Singleton
<1> QED
  BY <1>1, <1>2

\* Whatever pushes, reorders, dequeues and put-backs interleave, a message waits
\* once in the queue or is with one dispatcher, never both (enqueue, dequeue_next
\* and requeue_front of scheduler.rs take the queue's lock one at a time).
THEOREM NeverTwice == Spec => []NeverQueuedTwice
<1>1. ASSUME TypeInv, MessageInv PROVE NeverQueuedTwice
  <2>0. CallsAgree /\ PlacesDiffer /\ QueuesDiffer
    BY <1>1 DEF MessageInv, PlacesDiffer
  <2>1. ASSUME NEW m \in External
        PROVE  Cardinality(Occurrences(m)) + Cardinality(Held(m)) <= 1
    <3>1. Target[m] \in Session
      BY Processes, SchedulerAssumption
    <3>2. \A i, j \in Occurrences(m) : i = j
      BY <2>0, <3>1 DEF QueuesDiffer, OneEach, Occurrences
    <3>3. \A a \in Held(m) : a \in Submitter /\ Carrying(a) /\ call[a].msg = m
      BY <2>0 DEF Held, CallsAgree, CallAgrees, Carrying, CarryPc
    <3>4. \A a, b \in Held(m) : a = b
      BY <2>0, <3>3 DEF PlacesDiffer
    <3>5. Occurrences(m) = {} \/ Held(m) = {}
      BY <2>0, <3>3 DEF PlacesDiffer, InQueue, Occurrences, ToSet
    <3>6. /\ Cardinality(Occurrences(m)) \in {0, 1}
          /\ Cardinality(Occurrences(m)) # 0 => Occurrences(m) # {}
      BY <3>2, AtMostOne
    <3>7. /\ Cardinality(Held(m)) \in {0, 1}
          /\ Cardinality(Held(m)) # 0 => Held(m) # {}
      BY <3>4, AtMostOne
    <3> QED
      BY <3>5, <3>6, <3>7
  <2> QED
    BY <2>1 DEF NeverQueuedTwice
<1> QED
  BY <1>1, MessagesKept, PTL

\* A message whose submit has answered Queued never vanishes: it waits, a dispatcher
\* has it, it ran, or a clear of the queue dropped it, on every error path of
\* start_turn and although submit returns before the dispatch.
THEOREM AcceptedAccounted == Spec => []AcceptedIsAccounted
<1>1. ASSUME MessageInv PROVE AcceptedIsAccounted
  BY <1>1 DEF MessageInv, PushedIsAccounted, Pushed, Accounted, AcceptedIsAccounted, InQueue
<1> QED
  BY <1>1, MessagesKept, PTL

\* The outcome handler answers a request, and continues a goal, at most once, and only
\* for a message that has run: it takes the session's active turn with each outcome,
\* and no message comes back to a queue once it has been an active turn.
THEOREM RepliesAreBounded == Spec => []RepliesBounded
<1>1. ASSUME MessageInv PROVE RepliesBounded
  BY <1>1 DEF MessageInv, SubmittedOnce, Child, RepliesBounded
<1> QED
  BY <1>1, MessagesKept, PTL

-----------------------------------------------------------------------------
(* The count of active turns.                                              *)

Live == {"running", "ended", "settled", "notified"}
CountIs(s) ==
  /\ IsFiniteSet(Registered(s)) /\ IsFiniteSet(Undropped(s))
  /\ inflight[s] = Cardinality(Registered(s)) + Cardinality(Undropped(s))
CountInv == \A s \in Session : CountIs(s)

\* Who is registered for session s, before and after a step of submitter a.
LEMMA RegisteredIs ==
  ASSUME TypeInv, NEW s
  PROVE  /\ Registered(s) = {a \in Submitter : pc[a] = "spawn" /\ Target[call[a].msg] = s}
         /\ \A a \in Submitter : pc[a] = "spawn" => call[a].msg \in Msg
<1>1. \A a \in Submitter : pc[a] = "spawn" =>
        call[a].msg \in Msg /\ SessionOf(a) = Target[call[a].msg]
  BY MessageType DEF HasMessage
<1> QED
  BY <1>1 DEF Registered

LEMMA FrameRegistered ==
  ASSUME TypeInv, NEW s,
         \A a \in Submitter : pc'[a] = "spawn" <=> pc[a] = "spawn",
         \A a \in Submitter : pc[a] = "spawn" => call'[a].msg = call[a].msg
  PROVE  Registered(s)' = Registered(s)
<1>1. \A a \in Submitter : pc[a] = "spawn" => call[a].msg # None
  BY RegisteredIs, SchedulerAssumption
<1> QED
  BY <1>1 DEF Registered, SessionOf

LEMMA FrameCounts ==
  ASSUME TypeInv, CountInv, UNCHANGED inflight,
         \A a \in Submitter : pc'[a] = "spawn" <=> pc[a] = "spawn",
         \A a \in Submitter : pc[a] = "spawn" => call'[a].msg = call[a].msg,
         \A t \in Task : task'[t].phase \in Live <=> task[t].phase \in Live
  PROVE  CountInv'
<1>1. ASSUME NEW s \in Session PROVE CountIs(s)'
  <2>1. Registered(s)' = Registered(s)
    BY FrameRegistered
  <2>2. Undropped(s)' = Undropped(s)
    BY DEF Undropped, Live
  <2> QED
    BY <2>1, <2>2 DEF CountInv, CountIs
<1> QED
  BY <1>1 DEF CountInv

\* ActiveTurnRegistration counts a start, its drop on an error takes it back, and
\* the spawned task takes it over.
LEMMA StartCountsTurns ==
  ASSUME TypeInv, CallsAgree, CountInv, StartsAgree, NEW a \in Submitter, StartStep(a)
  PROVE  CountInv'
<1>m. PICK m \in Msg, r \in Session : m = call[a].msg /\ r = Target[m] /\ r = SessionOf(a)
  BY StartMoves, CarriedType
<1>0. /\ Alone(a) /\ a \in Process /\ pc \in [Process -> PcLabel]
      /\ \A b \in Submitter : b # a => pc'[b] = pc[b] /\ call'[b] = call[b]
  BY StartShape, OthersCarry, Processes DEF TypeInv, TypeOK
<1>1. CASE UNCHANGED <<inflight, task>> /\ pc[a] # "spawn" /\ pc'[a] # "spawn"
  BY <1>0, <1>1, FrameCounts
<1>2. /\ inflight \in [Session -> Int] /\ task \in [Task -> TaskRecord]
      /\ \A s \in Session : IsFiniteSet(Registered(s)) /\ IsFiniteSet(Undropped(s))
      /\ \A s \in Session : inflight[s] = Cardinality(Registered(s)) + Cardinality(Undropped(s))
      /\ \A s \in Session : Cardinality(Registered(s)) \in Nat /\ Cardinality(Undropped(s)) \in Nat
  BY FS_CardinalityType DEF CountInv, CountIs, TypeInv, TypeOK
<1>3. \A b \in Submitter : pc[b] = "spawn" => call[b].msg # None
  BY RegisteredIs, SchedulerAssumption
<1>4. CASE RegisterTurn(a)
  <2>1. /\ pc[a] = "persist" /\ pc'[a] = "spawn" /\ UNCHANGED <<task, call>> /\ m # None
        /\ inflight' = [inflight EXCEPT ![r] = @ + 1]
    BY <1>m, <1>0, <1>4, SchedulerAssumption DEF RegisterTurn, At, Goto
  <2>2. /\ Registered(r)' = Registered(r) \cup {a} /\ a \notin Registered(r)
        /\ \A s \in Session : s # r => Registered(s)' = Registered(s)
    BY <1>m, <1>0, <1>3, <2>1 DEF Registered, SessionOf
  <2>3. \A s \in Session : Undropped(s)' = Undropped(s)
    BY <2>1 DEF Undropped
  <2>4. CountIs(r)'
    <3>1. /\ IsFiniteSet(Registered(r) \cup {a})
          /\ Cardinality(Registered(r) \cup {a}) = Cardinality(Registered(r)) + 1
      BY <1>2, <2>1, <2>2, FS_AddElement
    <3> QED
      BY <1>2, <2>1, <2>2, <2>3, <3>1 DEF CountIs
  <2>5. \A s \in Session : s # r => CountIs(s)'
    BY <1>2, <2>1, <2>2, <2>3 DEF CountIs
  <2> QED
    BY <2>4, <2>5 DEF CountInv
<1>5. ASSUME pc[a] = "spawn", pc'[a] # "spawn"
      PROVE  /\ a \in Registered(r)
             /\ Registered(r)' = Registered(r) \ {a}
             /\ \A s \in Session : s # r => Registered(s)' = Registered(s)
             /\ IsFiniteSet(Registered(r) \ {a})
             /\ Cardinality(Registered(r) \ {a}) = Cardinality(Registered(r)) - 1
  <2>1. /\ a \in Registered(r) /\ Registered(r)' = Registered(r) \ {a}
        /\ \A s \in Session : s # r => Registered(s)' = Registered(s)
    <3>1. a \in Registered(r) /\ \A s : s # r => a \notin Registered(s)
      BY <1>m, <1>5 DEF Registered
    <3>2. \A s : \A b \in Submitter : b \in Registered(s)' <=> b \in Registered(s) /\ b # a
      BY <1>0, <1>3, <1>5, <3>1 DEF Registered, SessionOf
    <3> QED
      BY <3>1, <3>2 DEF Registered
  <2> QED
    BY <1>2, <2>1, FS_RemoveElement
<1>6. CASE ContextFails(a)
  <2>1. pc[a] = "spawn" /\ pc'[a] = "failed" /\ UNCHANGED task
    BY <1>0, <1>6 DEF ContextFails, At, Goto
  <2>2. inflight' = [inflight EXCEPT ![r] = @ - 1]
    BY <1>m, <1>6 DEF ContextFails
  <2>3. \A s \in Session : Undropped(s)' = Undropped(s)
    BY <2>1 DEF Undropped
  <2>4. CountIs(r)'
    <3>1. /\ IsFiniteSet(Registered(r)')
          /\ Cardinality(Registered(r)') = Cardinality(Registered(r)) - 1
      BY <1>5, <2>1
    <3>2. inflight'[r] = inflight[r] - 1 /\ Undropped(r)' = Undropped(r)
      BY <1>2, <2>2, <2>3
    <3> QED
      BY <1>2, <3>1, <3>2 DEF CountIs
  <2>5. \A s \in Session : s # r => CountIs(s)'
    BY <1>2, <1>5, <2>1, <2>2, <2>3 DEF CountIs
  <2> QED
    BY <2>4, <2>5 DEF CountInv
<1>7. CASE SpawnTurn(a)
  <2>0. PICK t : t = <<m, started[m]>>
    OBVIOUS
  <2>1. pc[a] = "spawn" /\ pc'[a] = "resolve" /\ UNCHANGED inflight
    BY <1>0, <1>7 DEF SpawnTurn, At, Goto
  <2>2. t \in Task /\ task[t].phase = "none"
    BY <1>m, <2>0, <2>1, NextTask DEF StartsAgree, StartPc, InStart
  <2>3. task'[t].phase = "running" /\ \A u \in Task : u # t => task'[u] = task[u]
    BY <1>m, <1>2, <1>7, <2>0, <2>2 DEF SpawnTurn, TaskRecord
  <2>4. t[1] = m /\ Target[t[1]] = r
    BY <1>m, <2>0
  <2>5. /\ Undropped(r)' = Undropped(r) \cup {t} /\ t \notin Undropped(r)
        /\ \A s \in Session : s # r => Undropped(s)' = Undropped(s)
    BY <2>2, <2>3, <2>4 DEF Undropped
  <2>6. CountIs(r)'
    <3>1. /\ IsFiniteSet(Undropped(r) \cup {t})
          /\ Cardinality(Undropped(r) \cup {t}) = Cardinality(Undropped(r)) + 1
      BY <1>2, <2>4, <2>5, FS_AddElement
    <3>2. /\ IsFiniteSet(Registered(r)')
          /\ Cardinality(Registered(r)') = Cardinality(Registered(r)) - 1
      BY <1>5, <2>1
    <3> QED
      BY <1>2, <2>1, <2>5, <3>1, <3>2 DEF CountIs
  <2>7. \A s \in Session : s # r => CountIs(s)'
    BY <1>2, <1>5, <2>1, <2>5 DEF CountIs
  <2> QED
    BY <2>6, <2>7 DEF CountInv
<1>8. \/ RegisterTurn(a) \/ ContextFails(a) \/ SpawnTurn(a)
      \/ UNCHANGED <<inflight, task>> /\ pc[a] # "spawn" /\ pc'[a] # "spawn"
  <2>1. CASE InsertActiveTurn(a) \/ StartFailed(a)
    <3>1. UNCHANGED <<inflight, task>> /\ pc[a] \in {"insert", "failed"} /\ \E x : Return(a, x)
      BY <2>1 DEF InsertActiveTurn, StartFailed, At, engine
    <3> QED
      BY <3>1, ReturnAlone DEF StartPc
  <2>2. CASE ResolveTurn(a)
    <3>1. PICK l \in {"insert", "failed"} : Goto(a, l)
      BY <2>2 DEF ResolveTurn
    <3> QED
      BY <1>0, <2>2, <3>1 DEF ResolveTurn, At, Goto, engine
  <2>3. CASE StartSnapshot(a) \/ WaitSessionDrained(a) \/ StartAborted(a)
             \/ StartPersistedTurn(a) \/ PersistFails(a)
    <3>1. PICK l \in {"drain", "begin", "failed", "persist"} : Goto(a, l)
      BY <2>3 DEF StartSnapshot, WaitSessionDrained, StartAborted, StartPersistedTurn, PersistFails
    <3> QED
      BY <1>0, <2>3, <3>1 DEF StartSnapshot, WaitSessionDrained, StartAborted, StartPersistedTurn,
           PersistFails, At, Goto, engine
  <2> QED
    BY <2>1, <2>2, <2>3 DEF StartStep
<1> QED
  BY <1>1, <1>4, <1>6, <1>7, <1>8

\* The guard of an execution task is dropped once, whatever the task did.
LEMMA TaskCountsTurns ==
  ASSUME TypeInv, CountInv, NEW t \in Task, TaskStep(t)
  PROVE  CountInv'
<1>0. /\ task \in [Task -> TaskRecord] /\ inflight \in [Session -> Int]
      /\ t[1] \in Msg /\ Target[t[1]] \in Session
      /\ UNCHANGED <<pc, call>> /\ \A u \in Task : u # t => task'[u] = task[u]
  BY TaskShape, SchedulerAssumption DEF TypeInv, TypeOK, Task
<1>1. CASE UNCHANGED inflight /\ task[t].phase \in Live /\ task'[t].phase \in Live
  BY <1>0, <1>1, FrameCounts
<1>2. CASE GuardDrops(t)
  <2> DEFINE r == Target[t[1]]
  <2>1. /\ task[t].phase = "notified" /\ task'[t].phase = "dropped"
        /\ inflight' = [inflight EXCEPT ![r] = @ - 1]
    BY <1>0, <1>2 DEF GuardDrops, InPhase, TaskRecord
  <2>2. /\ t \in Undropped(r) /\ Undropped(r)' = Undropped(r) \ {t}
        /\ \A s \in Session : s # r => Undropped(s)' = Undropped(s)
    BY <1>0, <2>1 DEF Undropped
  <2>3. \A s \in Session : Registered(s)' = Registered(s)
    BY <1>0, FrameRegistered
  <2>4. /\ \A s \in Session : IsFiniteSet(Registered(s)) /\ IsFiniteSet(Undropped(s))
        /\ \A s \in Session : inflight[s] = Cardinality(Registered(s)) + Cardinality(Undropped(s))
        /\ \A s \in Session : Cardinality(Registered(s)) \in Nat /\ Cardinality(Undropped(s)) \in Nat
    BY FS_CardinalityType DEF CountInv, CountIs
  <2>5. r \in Session
    BY <1>0
  <2> HIDE DEF r
  <2>6. /\ IsFiniteSet(Undropped(r) \ {t})
        /\ Cardinality(Undropped(r) \ {t}) = Cardinality(Undropped(r)) - 1
    BY <2>2, <2>4, <2>5, FS_RemoveElement
  <2>7. CountIs(r)'
    BY <1>0, <2>1, <2>2, <2>3, <2>4, <2>5, <2>6 DEF CountIs
  <2>8. \A s \in Session : s # r => CountIs(s)'
    BY <1>0, <2>1, <2>2, <2>3, <2>4 DEF CountIs
  <2> QED
    BY <2>7, <2>8 DEF CountInv
<1>3. CASE EngineInject(t)
  BY <1>1, <1>3 DEF EngineInject, InPhase, engine, Live
<1>4. CASE EngineEnds(t)
  <2>1. UNCHANGED inflight /\ task[t].phase = "running" /\ task'[t].phase \in {"ended", "notified"}
    BY <1>0, <1>4 DEF EngineEnds, EngineAnswers, EngineStops, EngineYields, EngineCancelled,
       EngineFails, EnginePanics, EngineReturns, InPhase, TaskRecord
  <2> QED
    BY <1>1, <2>1 DEF Live
<1>5. CASE TurnSettles(t) \/ TurnNotifies(t)
  <2>1. /\ UNCHANGED inflight /\ task[t].phase \in {"ended", "settled"}
        /\ task'[t].phase \in {"settled", "notified"}
    BY <1>0, <1>5 DEF TurnSettles, TurnNotifies, InPhase, TaskRecord
  <2> QED
    BY <1>1, <2>1 DEF Live
<1> QED
  BY <1>2, <1>3, <1>4, <1>5 DEF TaskStep

LEMMA StepCounts ==
  ASSUME TypeInv, CallsAgree, StartsAgree, CountInv, [Next]_vars
  PROVE  CountInv'
<1>1. ASSUME NEW p \in Process, Alone(p), UNCHANGED <<inflight, task>>,
             p \in Submitter => pc[p] \notin StartPc /\ pc'[p] \notin StartPc
      PROVE  CountInv'
  <2>1. \A a \in Submitter : pc[a] = "spawn" \/ pc'[a] = "spawn" =>
          pc'[a] = pc[a] /\ call'[a] = call[a]
    BY <1>1, Processes DEF Alone, StartPc
  <2> QED
    BY <1>1, <2>1, FrameCounts
<1>2. ASSUME NEW a \in Submitter, Submit(a) \/ SubmitStep(a) \/ DeliverBackground(a)
      PROVE  CountInv'
  <2>1. UNCHANGED <<inflight, task>>
    BY <1>2 DEF Submit, DeliverBackground, SubmitStep, InjectBackground, SubmitDecide, EnqueueCheck,
       EnqueuePush, EnqueueReorder, RequestYield, TryNextCheck, DequeueNext, engine
  <2> QED
    BY <1>1, <1>2, <2>1, SubmitShape, Processes
<1>3. ASSUME NEW a \in Submitter, StartStep(a) PROVE CountInv'
  BY <1>3, StartCountsTurns
<1>4. CASE HandlerStep
  <2>1. UNCHANGED <<inflight, task>>
    BY <1>4 DEF HandlerStep, ReceiveOutcome, ClearAfterFailure, GoalContinuation, engine
  <2> QED
    BY <1>1, <1>4, <2>1, HandlerShape, Processes
<1>5. ASSUME NEW t \in Task, TaskStep(t) PROVE CountInv'
  BY <1>5, TaskCountsTurns
<1>6. ASSUME NEW c \in Canceller, CancelBegin(c) \/ UserCancel(c) \/ CancelStep(c)
      PROVE  CountInv'
  <2>1. UNCHANGED <<inflight, task>>
    BY <1>6 DEF CancelBegin, UserCancel, CancelStep, SuppressReply, CancelFind, CancelSetsIdle,
         CancelTriggersToken, engine
  <2> QED
    BY <1>1, <1>6, <2>1, CancelShape, Processes
<1>7. ASSUME NEW i \in Steering, SteerChecks(i) \/ SteerPushes(i) PROVE CountInv'
  <2>1. UNCHANGED <<inflight, task>>
    BY <1>7 DEF SteerChecks, SteerPushes, engine
  <2> QED
    BY <1>1, <1>7, <2>1, SteeringShape, Processes
<1>8. CASE UNCHANGED vars
  BY <1>8, FrameCounts DEF vars, engine, locals
<1>9. ASSUME NEW a \in External, Calls(a) PROVE CountInv'
  BY <1>2, <1>9, Processes DEF Calls
<1> QED
  BY <1>2, <1>3, <1>4, <1>5, <1>6, <1>7, <1>8, <1>9 DEF Next

\* active_turns_per_session is exactly the number of registered starts and live tasks
\* of the session, however many there are and whichever of them fails, is cancelled or
\* panics: wait_session_drained can wait for it to become 0.
THEOREM InflightExact == Spec => []InflightIsExact
<1>1. Init => CountInv
  <2> SUFFICES ASSUME Init PROVE CountInv
    OBVIOUS
  <2>1. ASSUME NEW s \in Session PROVE CountIs(s)
    <3>1. \A a \in Submitter : pc[a] # "spawn"
      BY Processes DEF Init
    <3>2. Registered(s) = {} /\ Undropped(s) = {} /\ inflight[s] = 0
      BY <3>1 DEF Init, Registered, Undropped
    <3> QED
      BY <3>2, FS_EmptySet DEF CountIs
  <2> QED
    BY <2>1 DEF CountInv
<1>2. TypeInv /\ MessageInv /\ CountInv /\ [Next]_vars => CountInv'
  BY StepCounts DEF MessageInv
<1>3. CountInv => InflightIsExact
  BY DEF CountInv, CountIs, InflightIsExact
<1> QED
  BY <1>1, <1>2, <1>3, MessagesKept, PTL DEF Spec

-----------------------------------------------------------------------------
(* DialogScheduler implements MessageLifecycle.                            *)

Places == [m \in External |-> Place(m)]

\* Where the message is that submitter a carries.
CarriedAt(a) ==
  IF call[a].queued THEN IF pc[a] \in InStart THEN "dispatching" ELSE "dispatcher"
  ELSE IF pc[a] \in InStart THEN "starting" ELSE "caller"

Located ==
  \A m \in External :
    /\ Place(m) = "queue" <=> InQueue(m)
    /\ \A a \in Submitter : Carrying(a) /\ call[a].msg = m => Place(m) = CarriedAt(a)
    /\ ~ Awaits(m) => Place(m) = IF m \in cleared THEN "dropped" ELSE "over"

LEMMA InvLocates == MessageInv => Located
<1> SUFFICES ASSUME MessageInv PROVE Located
  OBVIOUS
<1>0. CallsAgree /\ PlacesDiffer /\ ClearedIsOver
  BY DEF MessageInv
<1> SUFFICES ASSUME NEW m \in External
             PROVE  /\ Place(m) = "queue" <=> InQueue(m)
                    /\ \A a \in Submitter : Carrying(a) /\ call[a].msg = m => Place(m) = CarriedAt(a)
                    /\ ~ Awaits(m) => Place(m) = IF m \in cleared THEN "dropped" ELSE "over"
  BY DEF Located
<1>1. Place(m) = "queue" <=> InQueue(m)
  BY DEF Place, InQueue
<1>2. \A b \in Held(m) : b \in Submitter /\ Carrying(b) /\ call[b].msg = m /\ call[b].queued
  BY <1>0 DEF Held, CallsAgree, CallAgrees, Carrying, CarryPc
<1>3. ASSUME NEW a \in Submitter, Carrying(a), call[a].msg = m PROVE Place(m) = CarriedAt(a)
  <2>1. /\ ~ InQueue(m) /\ m \notin cleared /\ \A b \in Held(m) : b = a
    <3>1. Awaits(m) /\ m \in Msg
      BY <1>3, Processes DEF Awaits
    <3> QED
      BY <1>0, <1>2, <1>3, <3>1 DEF PlacesDiffer, ClearedIsOver
  <2>2. CASE call[a].queued
    <3>1. Held(m) = {a}
      BY <1>3, <2>1, <2>2 DEF Held
    <3> QED
      BY <2>1, <2>2, <3>1 DEF Place, InQueue, CarriedAt
  <2>3. CASE ~ call[a].queued
    <3>1. a = m
      BY <1>0, <1>3, <2>3 DEF CallsAgree, CallAgrees, Submitter
    <3>2. Held(m) = {}
      BY <1>2, <2>1, <2>3
    <3>3. pc[m] \in InStart \/ pc[m] \in Submitting
      BY <1>3, <3>1 DEF Carrying, CarryPc, StartTurnPc, Submitting
    <3> QED
      BY <1>3, <2>1, <2>3, <3>1, <3>2, <3>3 DEF Place, InQueue, CarriedAt
  <2> QED
    BY <2>2, <2>3
<1>4. ASSUME ~ Awaits(m) PROVE Place(m) = IF m \in cleared THEN "dropped" ELSE "over"
  <2>1. ~ InQueue(m) /\ Held(m) = {}
    BY <1>2, <1>4 DEF Awaits
  <2>2. call[m].msg = m => ~ Carrying(m)
    BY <1>4, Processes DEF Awaits
  <2>3. call[m].msg = m => pc[m] \notin InStart /\ pc[m] \notin Submitting
    BY <2>2 DEF Carrying, CarryPc, StartTurnPc, Submitting
  <2> QED
    BY <2>1, <2>3 DEF Place, InQueue
<1> QED
  BY <1>1, <1>3, <1>4

LEMMA InvLocatesNext == MessageInv' => Located'
BY InvLocates, PTL

\* Messages that a does not touch stay where they are.
LEMMA OthersStay ==
  ASSUME Located, Located', NEW a \in Submitter, Alone(a), NEW m \in External,
         InQueue(m)' <=> InQueue(m), m \in cleared' <=> m \in cleared,
         Carrying(a) => call[a].msg # m, Carrying(a)' => call'[a].msg # m
  PROVE  Place(m)' = Place(m)
<1>1. CASE InQueue(m)
  BY <1>1 DEF Located
<1>2. ASSUME NEW b \in Submitter, Carrying(b), call[b].msg = m PROVE Place(m)' = Place(m)
  <2>1. /\ b # a /\ Carrying(b)' /\ pc'[b] = pc[b] /\ call'[b] = call[b]
    BY <1>2, OthersCarry
  <2>2. CarriedAt(b)' = CarriedAt(b)
    BY <2>1 DEF CarriedAt
  <2> QED
    BY <1>2, <2>1, <2>2 DEF Located
<1>3. CASE ~ Awaits(m)
  <2>1. \A b \in Submitter : Carrying(b)' => call'[b].msg # m
    BY <1>3, OthersCarry DEF Awaits
  <2>2. ~ Awaits(m)'
    BY <1>3, <2>1 DEF Awaits
  <2> QED
    BY <1>3, <2>2 DEF Located
<1> QED
  BY <1>1, <1>2, <1>3 DEF Awaits

LEMMA NoneMoves ==
  ASSUME \A n \in External : Place(n)' = Place(n)
  PROVE  UNCHANGED Places
  BY DEF Places

LEMMA OneMoves ==
  ASSUME NEW m \in External, NEW to, Place(m)' = to,
         \A n \in External : n # m => Place(n)' = Place(n)
  PROVE  Lifecycle!Moves(m, Place(m), to)
<1>1. Places' = [Places EXCEPT ![m] = to]
  BY DEF Places
<1> QED
  BY <1>1 DEF Places, Lifecycle!Moves

\* The steps of a submitter, as steps of the life of the message it carries.
LEMMA StayRefines ==
  ASSUME Located, Located', NEW a \in Submitter, Alone(a), Stays(a), UNCHANGED <<queues, cleared>>
  PROVE  [Lifecycle!Next]_Places
<1> DEFINE m == call[a].msg
<1>1. \A n : InQueue(n)' <=> InQueue(n)
  BY DEF InQueue
<1>2. \A n \in External : n # m => Place(n)' = Place(n)
  BY <1>1, OthersStay DEF Stays
<1>3. CASE m \notin External
  BY <1>2, <1>3, NoneMoves
<1>4. CASE m \in External
  <2>0. PICK n \in External : n = m
    BY <1>4
  <2>1. Place(n) = CarriedAt(a) /\ Place(n)' = CarriedAt(a)'
    BY <2>0 DEF Stays, Located
  <2>2. Lifecycle!Moves(n, CarriedAt(a), CarriedAt(a)')
    BY <1>2, <2>0, <2>1, OneMoves
  <2>3. CASE CarriedAt(a)' = CarriedAt(a)
    BY <1>2, <2>0, <2>1, <2>3, NoneMoves
  <2>4. CASE CarriedAt(a)' # CarriedAt(a)
    <3>1. \/ CarriedAt(a) = "caller" /\ CarriedAt(a)' = "starting"
          \/ CarriedAt(a) = "starting" /\ CarriedAt(a)' = "caller"
          \/ CarriedAt(a) = "dispatcher" /\ CarriedAt(a)' = "dispatching"
          \/ CarriedAt(a) = "dispatching" /\ CarriedAt(a)' = "dispatcher"
      BY <2>4 DEF Stays, CarriedAt
    <3> QED
      BY <2>2, <3>1
      DEF Lifecycle!Next, Lifecycle!StartNow, Lifecycle!StartNowFails, Lifecycle!Start,
          Lifecycle!StartFails
  <2> QED
    BY <2>3, <2>4
<1> QED
  BY <1>3, <1>4

LEMMA RestRefines ==
  ASSUME Located, Located', NEW a \in Submitter, Alone(a), ~ Carrying(a),
         Carrying(a)' => call'[a].msg \notin External,
         \A n \in External : (InQueue(n)' <=> InQueue(n)) /\ (n \in cleared' <=> n \in cleared)
  PROVE  UNCHANGED Places
<1>1. \A n \in External : Place(n)' = Place(n)
  BY OthersStay
<1> QED
  BY <1>1, NoneMoves

LEMMA LeaveRefines ==
  ASSUME TypeInv, MessageInv, Located, Located', NEW a \in Submitter, Alone(a), Leaves(a),
         UNCHANGED <<queues, cleared>>, MessageInv', pc[a] \in InStart \/ ~ call[a].queued
  PROVE  [Lifecycle!Next]_Places
<1> DEFINE m == call[a].msg
<1>1. \A n : InQueue(n)' <=> InQueue(n)
  BY DEF InQueue
<1>2. \A n \in External : n # m => Place(n)' = Place(n)
  BY <1>1, OthersStay DEF Leaves
<1>3. CASE m \notin External
  BY <1>2, <1>3, NoneMoves
<1>4. CASE m \in External
  <2>0. PICK n \in External : n = m
    BY <1>4
  <2>1. Place(n) = CarriedAt(a)
    BY <2>0 DEF Leaves, Located
  <2>2. ~ Awaits(n)' /\ n \notin cleared
    <3>1. /\ CallsAgree /\ PlacesDiffer /\ QueuesDiffer' /\ ClearedIsOver
          /\ \A x \in Msg : InQueue(x)' => InQueue(x)
      BY <1>1 DEF MessageInv, PlacesDiffer
    <3>2. n \in Msg /\ Awaits(n)
      BY <2>0, Processes DEF Leaves, Awaits
    <3> QED
      BY <2>0, <3>1, <3>2, KeepPlaces DEF ClearedIsOver
  <2>3. Place(n)' = "over"
    BY <2>2 DEF Located
  <2>4. Lifecycle!Moves(n, CarriedAt(a), "over")
    BY <1>2, <2>0, <2>1, <2>3, OneMoves
  <2>5. CarriedAt(a) \in {"caller", "starting", "dispatching"}
    BY DEF CarriedAt
  <2> QED
    BY <2>4, <2>5 DEF Lifecycle!Next, Lifecycle!GiveUp, Lifecycle!Finish
<1> QED
  BY <1>3, <1>4

LEMMA PutRefines ==
  ASSUME TypeInv, MessageInv, Located, Located', NEW a \in Submitter, Alone(a), Puts(a),
         UNCHANGED cleared, pc[a] \notin InStart
  PROVE  [Lifecycle!Next]_Places
<1> DEFINE m == call[a].msg
<1>1. \A n \in Msg : InQueue(n)' <=> InQueue(n) \/ n = m
  BY PutPlaces DEF MessageInv
<1>2. \A n \in External : n # m => Place(n)' = Place(n)
  BY <1>1, OthersStay, Processes DEF Puts, Leaves
<1>3. CASE m \notin External
  BY <1>2, <1>3, NoneMoves
<1>4. CASE m \in External
  <2>0. PICK n \in External : n = m
    BY <1>4
  <2>1. Place(n) = CarriedAt(a) /\ Place(n)' = "queue"
    BY <1>1, <2>0, Processes DEF Puts, Leaves, Located
  <2>2. Lifecycle!Moves(n, CarriedAt(a), "queue")
    BY <1>2, <2>0, <2>1, OneMoves
  <2>3. CarriedAt(a) \in {"caller", "dispatcher"}
    BY DEF CarriedAt
  <2> QED
    BY <2>2, <2>3 DEF Lifecycle!Next, Lifecycle!Enqueue, Lifecycle!PutBack
<1> QED
  BY <1>3, <1>4

LEMMA TakeRefines ==
  ASSUME TypeInv, MessageInv, Located, Located', NEW a \in Submitter, NEW s \in Session,
         Alone(a), Takes(a, s), UNCHANGED cleared
  PROVE  [Lifecycle!Next]_Places
<1> DEFINE m == call'[a].msg
<1>1. InQueue(m) /\ \A n \in Msg : InQueue(n)' <=> InQueue(n) /\ n # m
  BY TakePlaces DEF MessageInv
<1>2. \A n \in External : n # m => Place(n)' = Place(n)
  BY <1>1, OthersStay, Processes DEF Takes, Picks
<1>3. CASE m \notin External
  BY <1>2, <1>3, NoneMoves
<1>4. CASE m \in External
  <2>0. PICK n \in External : n = m
    BY <1>4
  <2>1. Place(n) = "queue" /\ Place(n)' = CarriedAt(a)'
    BY <1>1, <2>0 DEF Takes, Picks, Located
  <2>2. CarriedAt(a)' = "dispatcher"
    BY DEF Takes, CarriedAt, InStart
  <2>3. Lifecycle!Moves(n, "queue", "dispatcher")
    BY <1>2, <2>0, <2>1, <2>2, OneMoves
  <2> QED
    BY <2>3 DEF Lifecycle!Next, Lifecycle!Take
<1> QED
  BY <1>3, <1>4

LEMMA ClearRefines ==
  ASSUME TypeInv, MessageInv, Located, Located', NEW a \in Submitter, NEW s \in Session,
         Alone(a), Clear(s), Rests(a) \/ (Stays(a) /\ pc[a] \notin InStart /\ pc'[a] \notin InStart),
         MessageInv'
  PROVE  Lifecycle!Clear(s)
<1>1. /\ \A n \in Msg : InQueue(n)' <=> InQueue(n) /\ Target[n] # s
      /\ \A n \in Msg : n \in cleared' <=> n \in cleared \/ (InQueue(n) /\ Target[n] = s)
  BY ClearQueue DEF MessageInv, PlacesDiffer
<1>2. ASSUME NEW n \in External
      PROVE  Place(n)' = IF Place(n) = "queue" /\ Target[n] = s THEN "dropped" ELSE Place(n)
  <2>0. n \in Msg
    BY Processes
  <2>1. CASE InQueue(n) /\ Target[n] = s
    <3>1. n \in cleared' /\ ~ Awaits(n)'
      BY <1>1, <2>0, <2>1 DEF MessageInv, ClearedIsOver
    <3> QED
      BY <2>1, <3>1 DEF Located
  <2>2. CASE ~ (InQueue(n) /\ Target[n] = s)
    <3>1. (InQueue(n)' <=> InQueue(n)) /\ (n \in cleared' <=> n \in cleared)
      BY <1>1, <2>0, <2>2
    <3>2. CASE Stays(a) /\ call[a].msg = n
      <4>1. CarriedAt(a)' = CarriedAt(a)
        BY <3>2 DEF Stays, Rests, CarriedAt
      <4>2. Place(n) = CarriedAt(a) /\ Place(n)' = CarriedAt(a)'
        BY <3>2 DEF Stays, Located
      <4> QED
        BY <2>2, <4>1, <4>2 DEF Located
    <3>3. CASE ~ (Stays(a) /\ call[a].msg = n)
      <4>1. Place(n)' = Place(n)
        BY <3>1, <3>3, OthersStay DEF Stays, Rests
      <4> QED
        BY <2>2, <4>1 DEF Located
    <3> QED
      BY <3>2, <3>3
  <2> QED
    BY <2>1, <2>2 DEF Located
<1>3. Places' = [n \in External |->
                   IF Places[n] = "queue" /\ Target[n] = s THEN "dropped" ELSE Places[n]]
  BY <1>2 DEF Places
<1> QED
  BY <1>3 DEF Lifecycle!Clear, Places

LEMMA StepRefines ==
  ASSUME TypeInv, MessageInv, MessageInv', [Next]_vars
  PROVE  [Lifecycle!Next]_Places
<1>0. Located /\ Located' /\ CallsAgree /\ CallsAgree' /\ PlacesDiffer
  BY InvLocates, InvLocatesNext DEF MessageInv
<1>1. ASSUME NEW a \in Submitter, Submit(a) \/ SubmitStep(a) \/ DeliverBackground(a)
      PROVE  [Lifecycle!Next]_Places
  <2>0. Alone(a) /\ pc[a] \notin InStart /\ pc'[a] \notin InStart
    BY <1>0, <1>1, SubmitMoves
  <2>1. CASE UNCHANGED <<queues, cleared>> /\ Stays(a)
    BY <1>0, <2>0, <2>1, StayRefines
  <2>2. CASE UNCHANGED <<queues, cleared>> /\ Rests(a)
    BY <1>0, <2>0, <2>2, RestRefines DEF Rests, InQueue
  <2>3. CASE UNCHANGED <<queues, cleared>> /\ Leaves(a) /\ ~ call[a].queued
    BY <1>0, <2>0, <2>3, LeaveRefines
  <2>4. CASE Stays(a) /\ SessionOf(a) \in Session /\ Clear(SessionOf(a))
    <3>1. Lifecycle!Clear(SessionOf(a))
      BY <1>0, <2>0, <2>4, ClearRefines
    <3> QED
      BY <2>4, <3>1 DEF Lifecycle!Next
  <2>5. CASE UNCHANGED cleared /\ Puts(a)
    BY <1>0, <2>0, <2>5, PutRefines
  <2>6. CASE /\ UNCHANGED cleared /\ Rests(a) /\ SessionOf(a) \in Session
             /\ queues' = [queues EXCEPT ![SessionOf(a)] = Reordered(@)]
    <3>1. \A n \in External : InQueue(n)' <=> InQueue(n)
      BY <1>0, <2>6, ReorderQueue, Processes DEF PlacesDiffer
    <3> QED
      BY <1>0, <2>0, <2>6, <3>1, RestRefines DEF Rests
  <2>7. CASE UNCHANGED cleared /\ \E s \in Session : Takes(a, s)
    BY <1>0, <2>0, <2>7, TakeRefines
  <2> QED
    BY <1>0, <1>1, <2>1, <2>2, <2>3, <2>4, <2>5, <2>6, <2>7, SubmitMoves
<1>2. ASSUME NEW a \in Submitter, StartStep(a) PROVE [Lifecycle!Next]_Places
  <2>0. Alone(a) /\ UNCHANGED cleared
    BY <1>0, <1>2, StartMoves
  <2>1. CASE Stays(a) /\ UNCHANGED queues
    BY <1>0, <2>0, <2>1, StayRefines
  <2>2. CASE Leaves(a) /\ UNCHANGED queues /\ (pc[a] = "insert" \/ ~ call[a].queued)
    BY <1>0, <2>0, <2>2, LeaveRefines DEF InStart
  <2>3. CASE Puts(a) /\ pc[a] = "failed"
    BY <1>0, <2>0, <2>3, PutRefines DEF InStart
  <2> QED
    BY <1>0, <1>2, <2>1, <2>2, <2>3, StartMoves
<1>3. CASE HandlerStep
  <2>0. /\ Handler \in Submitter /\ Alone(Handler) /\ ~ Carrying(Handler)
        /\ Carrying(Handler)' => call'[Handler].msg \notin External
    <3>1. Handler \in Submitter /\ Alone(Handler) /\ Handler \in Caller /\ call \in [Caller -> CallLocals]
      BY <1>3, HandlerShape, Processes DEF TypeInv, TypeOK
    <3>2. ~ Carrying(Handler)
      BY <1>3 DEF HandlerStep, ReceiveOutcome, ClearAfterFailure, GoalContinuation, At,
           Carrying, CarryPc, StartTurnPc, InStart
    <3>3. ~ call[Handler].queued
      BY <1>0, <3>1, <3>2 DEF CallsAgree, CallAgrees, Carrying, CarryPc
    <3>4. UNCHANGED call \/ \E m : call' = [call EXCEPT ![Handler] = Fresh(m)]
      BY <1>3 DEF HandlerStep, ReceiveOutcome, ClearAfterFailure, GoalContinuation, HandlerCalls
    <3>5. \A m : Fresh(m).queued = FALSE
      BY DEF Fresh
    <3>6. ~ call'[Handler].queued
      BY <3>1, <3>3, <3>4, <3>5
    <3> QED
      BY <1>0, <3>1, <3>2, <3>6 DEF CallsAgree, CallAgrees
  <2>1. CASE UNCHANGED <<queues, cleared>>
    BY <1>0, <2>0, <2>1, RestRefines DEF InQueue
  <2>2. CASE ClearAfterFailure /\ ~ UNCHANGED <<queues, cleared>>
    <3>1. Clear(job.session) /\ job.session \in Session
      BY <2>2 DEF ClearAfterFailure, At, TypeInv, CallsAreSet
    <3>2. Rests(Handler)
      <4>1. pc'[Handler] = "goal"
        BY <2>2, Processes DEF ClearAfterFailure, Goto, TypeInv, TypeOK
      <4> QED
        BY <2>0, <4>1 DEF Rests, Carrying, CarryPc, StartTurnPc, InStart
    <3>3. Lifecycle!Clear(job.session)
      BY <1>0, <2>0, <3>1, <3>2, ClearRefines
    <3> QED
      BY <3>1, <3>3 DEF Lifecycle!Next
  <2> QED
    BY <1>3, <2>1, <2>2 DEF HandlerStep, ReceiveOutcome, GoalContinuation, scheduler
<1>4. CASE Bystands
  <2>1. \A n \in External : Place(n)' = Place(n)
    BY <1>4, Processes DEF Bystands, Place, Held
  <2> QED
    BY <2>1, NoneMoves
<1>5. CASE UNCHANGED vars
  BY <1>4, <1>5 DEF vars, scheduler, locals, history, Bystands
<1>6. ASSUME NEW a \in External, Calls(a) PROVE [Lifecycle!Next]_Places
  BY <1>1, <1>6, Processes DEF Calls
<1> QED
  BY <1>1, <1>2, <1>3, <1>4, <1>5, <1>6, TaskBystands, CancelBystands, SteeringBystands DEF Next

\* DialogScheduler implements MessageLifecycle: for any number of sessions, messages and
\* dispatchers, a queued message leaves its queue only for one dispatcher, which starts
\* it or puts it back, or with a clear of that queue (try_start_next_queued, enqueue and
\* run_outcome_handler of scheduler.rs).
THEOREM ImplementsLifecycle == Spec => MessagesFollowLifecycle
<1>1. Init => Lifecycle!Init
  <2> SUFFICES ASSUME Init PROVE Places = [m \in External |-> "caller"]
    BY DEF Lifecycle!Init, Places
  <2>1. Located
    BY InitMessages, InvLocates
  <2>2. ASSUME NEW m \in External PROVE Place(m) = "caller"
    <3>1. m \in Submitter /\ m \in Caller /\ m \in Process /\ m # Handler
      BY Processes
    <3>2. pc[m] = "new" /\ call[m].msg = m /\ call[m].queued = FALSE
      BY <3>1 DEF Init, Fresh
    <3> QED
      BY <2>1, <3>1, <3>2 DEF Located, Carrying, CarryPc, CarriedAt, InStart
  <2> QED
    BY <2>2 DEF Places
<1>2. TypeInv /\ MessageInv /\ MessageInv' /\ [Next]_vars => [Lifecycle!Next]_Places
  BY StepRefines
<1> QED
  BY <1>1, <1>2, MessagesKept, PTL DEF Spec, MessagesFollowLifecycle, Lifecycle!Spec, Places

-----------------------------------------------------------------------------
(* How far a queue can grow.                                               *)

\* A submitter that will add a message to a queue without looking at its length: it is
\* past the check of enqueue, or has a message that it may put back.
Adding(a) == pc[a] = "push" \/ call[a].queued
Adders(s) == {a \in Submitter : Adding(a) /\ Target[call[a].msg] = s}

\* At most K of them work on one session at once.
Overlap(K) == \A s \in Session : IsFiniteSet(Adders(s)) /\ Cardinality(Adders(s)) <= K
DepthIs(s, K) == Len(queues[s]) + Cardinality(Adders(s)) <= MaxQueueDepth - 1 + K
DepthInv(K) == \A s \in Session : DepthIs(s, K)

LEMMA AddersAre ==
  ASSUME TypeInv, NEW K \in Nat, Overlap(K), NEW s \in Session
  PROVE  /\ IsFiniteSet(Adders(s)) /\ Cardinality(Adders(s)) \in Nat
         /\ Cardinality(Adders(s)) <= K /\ Len(queues[s]) \in Nat
  BY QueueType, LenProperties, FS_CardinalityType DEF Overlap

\* Nobody comes to add a message, and no queue gets longer.
LEMMA SameDepth ==
  ASSUME TypeInv, TypeInv', NEW K \in Nat, Overlap(K), DepthInv(K),
         \A a \in Submitter : Adding(a)' => Adding(a) /\ call'[a].msg = call[a].msg,
         \A s \in Session : Len(queues'[s]) <= Len(queues[s])
  PROVE  DepthInv(K)'
<1>1. ASSUME NEW s \in Session PROVE DepthIs(s, K)'
  <2>1. Adders(s)' \subseteq Adders(s)
    BY DEF Adders
  <2>2. Cardinality(Adders(s)') <= Cardinality(Adders(s))
    BY <2>1, AddersAre, FS_Subset
  <2>3. /\ Cardinality(Adders(s)) \in Nat
        /\ Len(queues[s]) \in Nat
    BY AddersAre
  <2>4. Cardinality(Adders(s)') \in Nat /\ Len(queues'[s]) \in Nat
    <3>1. IsFiniteSet(Adders(s)')
      BY <2>1, AddersAre, FS_Subset
    <3>2. queues'[s] \in Seq(Msg)
      BY DEF TypeInv, TypeOK
    <3> QED
      BY <3>1, <3>2, FS_CardinalityType, LenProperties
  <2>5. /\ Len(queues'[s]) <= Len(queues[s])
        /\ Len(queues[s]) + Cardinality(Adders(s)) <= MaxQueueDepth - 1 + K
    BY <1>1 DEF DepthInv, DepthIs
  <2> QED
    BY <2>2, <2>3, <2>4, <2>5, SchedulerAssumption DEF DepthIs
<1> QED
  BY <1>1 DEF DepthInv

\* The message that a was about to add is in the queue.
LEMMA PutDepth ==
  ASSUME TypeInv, CallsAgree, NEW K \in Nat, Overlap(K), DepthInv(K),
         NEW a \in Submitter, Alone(a), Puts(a), Adding(a), CallsAgree'
  PROVE  DepthInv(K)'
<1>1. PICK r \in Session : r = Target[call[a].msg] /\ r = SessionOf(a) /\ call[a].msg \in Msg
  BY CarriedType DEF Puts, Leaves
<1>2. Len(queues'[r]) = Len(queues[r]) + 1 /\ \A s \in Session : s # r => queues'[s] = queues[s]
  <2>1. queues[r] \in Seq(Msg) /\ queues \in [Session -> Seq(Msg)]
    BY DEF TypeInv, TypeOK
  <2>2. PICK q \in {Append(queues[r], call[a].msg), <<call[a].msg>> \o queues[r]} :
          queues' = [queues EXCEPT ![r] = q]
    BY <1>1 DEF Puts
  <2>3. Len(q) = Len(queues[r]) + 1
    <3>1. CASE q = Append(queues[r], call[a].msg)
      BY <1>1, <2>1, <3>1, AppendProperties
    <3>2. CASE q = <<call[a].msg>> \o queues[r]
      <4>1. <<call[a].msg>> \in Seq(Msg) /\ Len(<<call[a].msg>>) = 1
        BY <1>1
      <4>2. Len(q) = 1 + Len(queues[r]) /\ Len(queues[r]) \in Nat
        BY <2>1, <3>2, <4>1, ConcatProperties, LenProperties
      <4> QED
        BY <4>2
    <3> QED
      BY <3>1, <3>2
  <2> QED
    BY <2>1, <2>2, <2>3
<1>3. ~ Adding(a)'
  BY DEF Puts, Leaves, Carrying, CarryPc, Adding, CallsAgree, CallAgrees
<1>4. \A b \in Submitter : b # a => pc'[b] = pc[b] /\ call'[b] = call[b]
  BY OthersCarry
<1>5. \A s : Adders(s)' = Adders(s) \ {a}
  BY <1>3, <1>4 DEF Adders, Adding
<1>6. a \in Adders(r)
  BY <1>1 DEF Adders
<1>7. Cardinality(Adders(r)') = Cardinality(Adders(r)) - 1
  BY <1>5, <1>6, AddersAre, FS_RemoveElement
<1>8. DepthIs(r, K)'
  <2>1. /\ Len(queues[r]) + Cardinality(Adders(r)) <= MaxQueueDepth - 1 + K
        /\ Len(queues[r]) \in Nat /\ Cardinality(Adders(r)) \in Nat
    BY AddersAre DEF DepthInv, DepthIs
  <2> QED
    BY <1>2, <1>7, <2>1 DEF DepthIs
<1>9. ASSUME NEW s \in Session, s # r PROVE DepthIs(s, K)'
  <2>1. a \notin Adders(s)
    BY <1>1, <1>9 DEF Adders
  <2>2. Adders(s)' = Adders(s)
    BY <1>5, <2>1
  <2> QED
    BY <1>2, <1>9, <2>2 DEF DepthInv, DepthIs
<1> QED
  BY <1>8, <1>9 DEF DepthInv

\* A dispatcher takes a message that it may put back.
LEMMA TakeDepth ==
  ASSUME TypeInv, CallsAgree, PlacesDiffer, NEW K \in Nat, Overlap(K), DepthInv(K),
         NEW a \in Submitter, NEW r \in Session, Alone(a), Takes(a, r)
  PROVE  DepthInv(K)'
<1>1. /\ Target[call'[a].msg] = r /\ Adding(a)' /\ ~ Adding(a)
  <2>1. Target[call'[a].msg] = r
    BY TakePlaces
  <2>2. ~ Adding(a)
    BY DEF Takes, Picks, Carrying, CarryPc, Adding, CallsAgree, CallAgrees
  <2> QED
    BY <2>1, <2>2 DEF Takes, Adding
<1>2. Len(queues'[r]) = Len(queues[r]) - 1 /\ \A s \in Session : s # r => queues'[s] = queues[s]
  <2>1. queues[r] \in Seq(Msg) /\ queues[r] # <<>> /\ queues \in [Session -> Seq(Msg)]
    BY DEF TypeInv, TypeOK, Takes
  <2>2. Len(Tail(queues[r])) = Len(queues[r]) - 1
    BY <2>1, HeadTailProperties
  <2> QED
    BY <2>1, <2>2 DEF Takes
<1>3. \A b \in Submitter : b # a => pc'[b] = pc[b] /\ call'[b] = call[b]
  BY OthersCarry
<1>4. Adders(r)' = Adders(r) \cup {a} /\ \A s : s # r => Adders(s)' = Adders(s)
  BY <1>1, <1>3 DEF Adders, Adding
<1>5. a \notin Adders(r)
  BY <1>1 DEF Adders
<1>6. Cardinality(Adders(r)') = Cardinality(Adders(r)) + 1
  BY <1>4, <1>5, AddersAre, FS_AddElement
<1>7. DepthIs(r, K)'
  <2>1. /\ Len(queues[r]) + Cardinality(Adders(r)) <= MaxQueueDepth - 1 + K
        /\ Len(queues[r]) \in Nat /\ Cardinality(Adders(r)) \in Nat
    BY AddersAre DEF DepthInv, DepthIs
  <2> QED
    BY <1>2, <1>6, <2>1 DEF DepthIs
<1>8. ASSUME NEW s \in Session, s # r PROVE DepthIs(s, K)'
  BY <1>2, <1>4, <1>8 DEF DepthInv, DepthIs
<1> QED
  BY <1>7, <1>8 DEF DepthInv

LEMMA SubmitDepth ==
  ASSUME TypeInv, TypeInv', MessageInv, CallsAgree', NEW K \in Nat, Overlap(K), Overlap(K)', DepthInv(K),
         NEW a \in Submitter, Submit(a) \/ SubmitStep(a) \/ DeliverBackground(a)
  PROVE  DepthInv(K)'
<1>0. CallsAgree /\ PlacesDiffer /\ Alone(a)
  BY SubmitMoves DEF MessageInv
<1>1. \A b \in Submitter : b # a => pc'[b] = pc[b] /\ call'[b] = call[b]
  BY <1>0, OthersCarry
<1>2. queues \in [Session -> Seq(Msg)] /\ \A s \in Session : Len(queues[s]) \in Nat
  BY LenProperties DEF TypeInv, TypeOK
<1>3. ASSUME pc'[a] # "push", Stays(a) \/ Rests(a) \/ Leaves(a)
      PROVE  \A b \in Submitter : Adding(b)' => Adding(b) /\ call'[b].msg = call[b].msg
  <2>1. Adding(a)' => call'[a].queued
    BY <1>3 DEF Adding
  <2>2. call'[a].queued => Carrying(a)'
    BY DEF CallsAgree, CallAgrees, Carrying, CarryPc
  <2>3. Adding(a)' => Adding(a) /\ call'[a].msg = call[a].msg
    BY <1>3, <2>1, <2>2 DEF Stays, Rests, Leaves, Adding
  <2> QED
    BY <1>1, <2>3 DEF Adding
<1>4. CASE pc'[a] = "push"
  <2>1. PICK r \in Session :
          r = Target[call[a].msg] /\ UNCHANGED <<queues, call>> /\ Len(queues[r]) < MaxQueueDepth
    BY <1>0, <1>4, SubmitMoves, CarriedType
  <2>2. \A s \in Session : s # r => Adders(s)' = Adders(s)
    BY <1>1, <2>1 DEF Adders, Adding
  <2>3. DepthIs(r, K)'
    <3>1. Cardinality(Adders(r)') <= K /\ Cardinality(Adders(r)') \in Nat
      BY FS_CardinalityType DEF Overlap
    <3> QED
      BY <1>2, <2>1, <3>1, SchedulerAssumption DEF DepthIs
  <2>4. \A s \in Session : s # r => DepthIs(s, K)'
    BY <2>1, <2>2 DEF DepthInv, DepthIs
  <2> QED
    BY <2>3, <2>4 DEF DepthInv
<1>5. CASE pc'[a] # "push" /\ UNCHANGED queues /\ (Stays(a) \/ Rests(a) \/ Leaves(a))
  <2>1. \A s \in Session : Len(queues'[s]) <= Len(queues[s])
    BY <1>2, <1>5
  <2> QED
    BY <1>0, <1>3, <1>5, <2>1, SameDepth
<1>6. CASE pc'[a] # "push" /\ Stays(a) /\ SessionOf(a) \in Session /\ Clear(SessionOf(a))
  <2>1. \A s \in Session : Len(queues'[s]) <= Len(queues[s])
    <3>1. \A s \in Session : queues'[s] = IF s = SessionOf(a) THEN <<>> ELSE queues[s]
      BY <1>2, <1>6 DEF Clear
    <3> QED
      BY <1>2, <3>1
  <2> QED
    BY <1>0, <1>3, <1>6, <2>1, SameDepth
<1>7. CASE Puts(a) /\ pc[a] = "push"
  BY <1>0, <1>7, PutDepth DEF Adding
<1>8. CASE /\ pc'[a] # "push" /\ Rests(a) /\ SessionOf(a) \in Session
           /\ queues' = [queues EXCEPT ![SessionOf(a)] = Reordered(@)]
  <2>1. \A s \in Session : Len(queues'[s]) <= Len(queues[s])
    <3>1. ASSUME NEW q \in Seq(Msg) PROVE Len(Reordered(q)) = Len(q)
      <4>1. CASE q = <<>>
        BY <4>1 DEF Reordered
      <4>2. CASE q # <<>>
        BY <4>2, ReorderedShape
      <4> QED
        BY <4>1, <4>2
    <3>2. \A s \in Session :
            queues'[s] = IF s = SessionOf(a) THEN Reordered(queues[s]) ELSE queues[s]
      BY <1>2, <1>8
    <3> QED
      BY <1>2, <3>1, <3>2
  <2> QED
    BY <1>0, <1>3, <1>8, <2>1, SameDepth
<1>9. CASE \E s \in Session : Takes(a, s)
  BY <1>0, <1>9, TakeDepth
<1> QED
  BY <1>0, <1>4, <1>5, <1>6, <1>7, <1>8, <1>9, SubmitMoves

LEMMA StartDepth ==
  ASSUME TypeInv, TypeInv', MessageInv, CallsAgree', NEW K \in Nat, Overlap(K), DepthInv(K),
         NEW a \in Submitter, StartStep(a)
  PROVE  DepthInv(K)'
<1>1. CallsAgree /\ PlacesDiffer /\ Alone(a) /\ pc'[a] # "push"
  BY StartMoves DEF MessageInv
<1>2. CASE Puts(a) /\ call[a].queued
  BY <1>1, <1>2, PutDepth DEF Adding
<1>3. CASE (Stays(a) \/ Leaves(a)) /\ UNCHANGED queues
  <2>1. \A b \in Submitter : b # a => pc'[b] = pc[b] /\ call'[b] = call[b]
    BY <1>1, OthersCarry
  <2>2. call'[a].queued => Carrying(a)'
    BY DEF CallsAgree, CallAgrees, Carrying, CarryPc
  <2>3. \A b \in Submitter : Adding(b)' => Adding(b) /\ call'[b].msg = call[b].msg
    BY <1>1, <1>3, <2>1, <2>2 DEF Stays, Leaves, Adding
  <2>4. \A s \in Session : Len(queues[s]) \in Nat /\ queues'[s] = queues[s]
    BY <1>1, <1>3, AddersAre
  <2> QED
    BY <1>1, <2>3, <2>4, SameDepth
<1> QED
  BY <1>1, <1>2, <1>3, StartMoves

LEMMA StepDepth ==
  ASSUME TypeInv, TypeInv', MessageInv, MessageInv', NEW K \in Nat, Overlap(K), Overlap(K)', DepthInv(K), [Next]_vars
  PROVE  DepthInv(K)'
<1>0. CallsAgree /\ CallsAgree' /\ \A s \in Session : Len(queues[s]) \in Nat
  BY AddersAre DEF MessageInv
<1>1. ASSUME NEW a \in Submitter, Submit(a) \/ SubmitStep(a) \/ DeliverBackground(a)
      PROVE  DepthInv(K)'
  BY <1>0, <1>1, SubmitDepth
<1>2. ASSUME NEW a \in Submitter, StartStep(a) PROVE DepthInv(K)'
  BY <1>0, <1>2, StartDepth
<1>3. CASE HandlerStep
  <2>1. \A b \in Submitter : b # Handler => pc'[b] = pc[b] /\ call'[b] = call[b]
    BY <1>3, HandlerShape, OthersCarry, Processes
  <2>2. ~ Adding(Handler)'
    <3>1. pc'[Handler] # "push" /\ ~ Carrying(Handler)
      <4>1. pc[Handler] \in {"recv", "clear", "goal"}
        BY <1>3 DEF HandlerStep, ReceiveOutcome, ClearAfterFailure, GoalContinuation, At
      <4>2. \E l \in {"called", "clear", "goal", "trynext", "recv"} : Goto(Handler, l)
        BY <1>3 DEF HandlerStep, ReceiveOutcome, ClearAfterFailure, GoalContinuation, AfterGoal
      <4>3. pc'[Handler] # "push"
        BY <4>2, Processes DEF Goto, TypeInv, TypeOK
      <4> QED
        BY <4>1, <4>3 DEF Carrying, CarryPc, StartTurnPc, InStart
    <3>2. ~ call[Handler].queued
      BY <1>0, <3>1, Processes DEF CallsAgree, CallAgrees, Carrying, CarryPc
    <3>3. UNCHANGED call \/ \E m : call' = [call EXCEPT ![Handler] = Fresh(m)]
      BY <1>3 DEF HandlerStep, ReceiveOutcome, ClearAfterFailure, GoalContinuation, HandlerCalls
    <3>4. ~ call'[Handler].queued
      BY <3>2, <3>3, Processes DEF Fresh, TypeInv, TypeOK
    <3> QED
      BY <3>1, <3>4 DEF Adding
  <2>3. \A s \in Session : Len(queues'[s]) <= Len(queues[s])
    <3>1. CASE UNCHANGED queues
      BY <1>0, <3>1
    <3>2. CASE Clear(job.session)
      <4>1. \A s \in Session : queues'[s] = <<>> \/ queues'[s] = queues[s]
        BY <3>2 DEF Clear, TypeInv, TypeOK
      <4> QED
        BY <1>0, <4>1
    <3> QED
      BY <1>3, <3>1, <3>2 DEF HandlerStep, ReceiveOutcome, ClearAfterFailure, GoalContinuation,
         scheduler
  <2>4. \A b \in Submitter : Adding(b)' => Adding(b) /\ call'[b].msg = call[b].msg
    BY <2>1, <2>2 DEF Adding
  <2> QED
    BY <1>0, <2>3, <2>4, SameDepth
<1>4. CASE Bystands
  <2>1. \A b \in Submitter : Adding(b)' => Adding(b) /\ call'[b].msg = call[b].msg
    BY <1>4 DEF Bystands, Adding
  <2>2. \A s \in Session : Len(queues'[s]) <= Len(queues[s])
    BY <1>0, <1>4 DEF Bystands
  <2> QED
    BY <1>0, <2>1, <2>2, SameDepth
<1>5. CASE UNCHANGED vars
  BY <1>4, <1>5 DEF vars, scheduler, locals, history, Bystands
<1>6. ASSUME NEW a \in External, Calls(a) PROVE DepthInv(K)'
  BY <1>1, <1>6, Processes DEF Calls
<1> QED
  BY <1>1, <1>2, <1>3, <1>4, <1>5, <1>6, TaskBystands, CancelBystands, SteeringBystands DEF Next

\* enqueue checks MAX_QUEUE_DEPTH and pushes under separate locks, and requeue_front does
\* not check it at all. If at most K tasks are at once between the check and the push, or
\* between dequeue_next and the put-back, the queue of a session exceeds it by less than
\* K, however many messages come: put-backs and concurrent pushes do not add up over time.
\* One at a time (K = 1) keeps it.
THEOREM DepthStaysBounded ==
  ASSUME NEW K \in Nat
  PROVE  Spec /\ []Overlap(K) => [](\A s \in Session : Len(queues[s]) <= MaxQueueDepth - 1 + K)
<1> DEFINE Bounded == \A s \in Session : Len(queues[s]) <= MaxQueueDepth - 1 + K
<1>1. Init => DepthInv(K)
  <2> SUFFICES ASSUME Init, NEW s \in Session PROVE DepthIs(s, K)
    BY DEF DepthInv
  <2>1. \A a \in Submitter : ~ Adding(a)
    BY Processes DEF Init, Adding, Fresh
  <2>2. Adders(s) = {} /\ Len(queues[s]) = 0
    BY <2>1 DEF Adders, Init
  <2>3. Cardinality(Adders(s)) = 0
    BY <2>2, FS_EmptySet
  <2> QED
    BY <2>2, <2>3, SchedulerAssumption DEF DepthIs
<1>2. TypeInv /\ MessageInv /\ TypeInv' /\ MessageInv' /\ Overlap(K) /\ Overlap(K)'
        /\ DepthInv(K) /\ [Next]_vars => DepthInv(K)'
  BY StepDepth
<1>3. TypeInv /\ Overlap(K) /\ DepthInv(K) => Bounded
  <2> SUFFICES ASSUME TypeInv, Overlap(K), DepthInv(K), NEW s \in Session
               PROVE  Len(queues[s]) <= MaxQueueDepth - 1 + K
    OBVIOUS
  <2> QED
    BY AddersAre, SchedulerAssumption DEF DepthInv, DepthIs
<1> HIDE DEF Bounded
<1>4. Spec /\ []Overlap(K) => []Bounded
  BY <1>1, <1>2, <1>3, MessagesKept, PTL DEF Spec
<1> QED
  BY <1>4 DEF Bounded
=============================================================================
