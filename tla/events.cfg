\* A turn, a call beside the first of a batch, and a task that cancels, which may
\* still report when the turn is over; the queue holds two events and outgrows
\* that, a batch is one.
\* The turn ends and the front end waits, so the system may come to rest.
SPECIFICATION FairSpec
CONSTANTS
  Turns = 1
  Calls = {call}
  Cancellers = {canceller}
  MaxBody = 2
  BodyPriorities = {1}
  MaxQueueSize = 2
  BatchSize = 1
  StreamBuffer = 1
  None = None
  Hosts = {"desktop", "exec", "acp"}
INVARIANT TypeOK
INVARIANT BoundedQueue
INVARIANT NoLostWakeup
PROPERTY HandledInOrder
PROPERTY EndReachesDesktop
CHECK_DEADLOCK FALSE
