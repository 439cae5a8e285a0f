\* A queued turn of the job is cleared with its session's queue.
SPECIFICATION FairSpec
CONSTANTS
  Job = {j1}
  User = {u1}
  MaxTriggers = 2
  MaxIncidents = 1
PROPERTY RunTriggers
CHECK_DEADLOCK FALSE
