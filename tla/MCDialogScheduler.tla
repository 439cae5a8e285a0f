------------------------- MODULE MCDialogScheduler -------------------------
(***************************************************************************)
(* Small instances of DialogScheduler.  u1, u2 are user messages, j1 a     *)
(* scheduled job, b1 a background result, r1 an agent-session request from *)
(* s1 to s2 whose auto-reply is p1, g1 the goal continuation of u1.        *)
(***************************************************************************)
EXTENDS DialogScheduler

CONSTANTS u1, u2, j1, b1, r1, p1, g1, s1, s2, c1, i1

SourceOf(m) ==
  CASE m \in {u1, u2} -> "DesktopUi"
    [] m = j1 -> "ScheduledJob"
    [] OTHER -> "AgentSession"

MCSource == [m \in Msg |-> SourceOf(m)]
MCPriority == [m \in Msg |-> DefaultPriority(SourceOf(m))]

\* Requests go to s2; replies and everything else belong to s1.
MCTarget == [m \in Msg |-> IF m \in {r1, u2, g1} /\ s2 \in Session THEN s2 ELSE s1]
MCReplyTo == [m \in Msg |-> IF m = r1 THEN p1 ELSE None]
MCGoalMsg == [m \in Msg |-> IF m \in {u1, r1} /\ g1 \in Msg THEN g1 ELSE None]

UserCancels == [c \in Canceller |-> None]
RequesterCancels == [c \in Canceller |-> s1]
=============================================================================
