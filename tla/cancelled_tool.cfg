\* A cancel of a call that is about to ask for its confirmation, without a
\* confirmation timeout.
\* The round returns and callers stop when answered, so the system may rest.
SPECIFICATION FairSpec
CONSTANTS
  N = 2
  Safe = {1}
  Confirm = {1}
  Streams = {}
  Unknown = {}
  Refusable = {}
  User = {u}
  Canceller = {c}
  Parallel = TRUE
  ConfirmTimeout = FALSE
  MaxAttempts = 1
  Edits = {"original"}
PROPERTY CancelUnwinds
CHECK_DEADLOCK FALSE
