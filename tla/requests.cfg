\* A request from s1 to s2, its auto-reply, a goal continuation in s2, and a cancel
\* by the requesting session or by a user, with every fault but the round limit.
\* Callers stop when their calls are answered, so the system may come to rest.
SPECIFICATION Spec
CONSTANTS
  u1 = u1  u2 = u2  j1 = j1  b1 = b1  r1 = r1  p1 = p1
  g1 = g1  s1 = s1  s2 = s2  c1 = c1  i1 = i1
  None = None  Handler = Handler
  Session = {s1, s2}
  Msg = {r1, p1, g1}
  External = {r1}
  Background = {}
  Steering = {}
  Canceller = {c1}
  Source <- MCSource
  Priority <- MCPriority
  Target <- MCTarget
  ReplyTo <- MCReplyTo
  GoalMsg <- MCGoalMsg
  Requester <- RequesterCancels
  MaxQueueDepth = 1
  ChannelCapacity = 2
  MaxStarts = 1
  Faults = {"start","persist","context","panic","drain_timeout"}
INVARIANT RepliesBounded
INVARIANT TypeOK
PROPERTY OnlyOwnerLeavesProcessing
CHECK_DEADLOCK FALSE
