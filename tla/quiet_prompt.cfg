\* An ACP prompt whose queue, which nothing empties, is full.
\* The prompt never returns, so the system may come to rest.
SPECIFICATION FairSpec
CONSTANTS
  Turns = 2
  Calls = {}
  Cancellers = {}
  MaxBody = 1
  BodyPriorities = {1}
  MaxQueueSize = 2
  BatchSize = 2
  StreamBuffer = 4
  None = None
  Hosts = {"acp"}
PROPERTY PromptReturns
CHECK_DEADLOCK FALSE
