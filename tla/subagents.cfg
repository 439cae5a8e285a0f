\* Two calls of a turn, one in the background and one, with a timeout, in the
\* foreground; profiles that allow one or two at once, and a global limit that the
\* user changes between one and two.
\* The turn ends, calls are answered and executions need not end, so all may rest.
SPECIFICATION FairSpec
CONSTANTS
  Call = {f, b}
  Background = {b}
  Timed = {f}
  ProfileCaps = {1, 2}
  GlobalCaps = {1, 2}
  f = f
  b = b
  None = None
INVARIANT TypeOK
INVARIANT RunningHoldsPermits
INVARIANT NothingLeft
INVARIANT SessionIsFreed
INVARIANT RecordAgrees
PROPERTY StoppedCallsEnd
PROPERTY WaitersAreServed
CHECK_DEADLOCK FALSE
