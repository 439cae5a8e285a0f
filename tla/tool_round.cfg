\* Two reads, the second streaming, then a write that needs a confirmation, in
\* a partitioned round with one user and one canceller.
\* The round returns and callers stop when answered, so the system may rest.
SPECIFICATION FairSpec
CONSTANTS
  N = 3
  Safe = {1, 2}
  Confirm = {3}
  Streams = {2}
  Unknown = {3}
  Refusable = {1}
  User = {u}
  Canceller = {c}
  Parallel = TRUE
  ConfirmTimeout = TRUE
  MaxAttempts = 2
  Edits = {"original"}
INVARIANT TypeOK
INVARIANT RunsOnlyIfConfirmed
INVARIANT EndedIsTerminal
INVARIANT SteeredNeverRan
PROPERTY CancelStopsAttempts
PROPERTY CallsAreOrdered
PROPERTY RoundReturns
CHECK_DEADLOCK FALSE
