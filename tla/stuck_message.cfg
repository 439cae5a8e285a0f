\* A message queued while the outcome handler finds the queue empty.
\* Callers stop when their calls are answered, so the system may come to rest.
SPECIFICATION FairSpec
CONSTANTS
  u1 = u1  u2 = u2  j1 = j1  b1 = b1  r1 = r1  p1 = p1
  g1 = g1  s1 = s1  s2 = s2  c1 = c1  i1 = i1
  None = None  Handler = Handler
  Session = {s1}
  Msg = {u1, j1}
  External = {u1, j1}
  Background = {}
  Steering = {}
  Canceller = {}
  Source <- MCSource
  Priority <- MCPriority
  Target <- MCTarget
  ReplyTo <- MCReplyTo
  GoalMsg <- MCGoalMsg
  Requester <- UserCancels
  MaxQueueDepth = 1
  ChannelCapacity = 2
  MaxStarts = 2
  Faults = {}
PROPERTY QueuedIsDispatched
CHECK_DEADLOCK FALSE
