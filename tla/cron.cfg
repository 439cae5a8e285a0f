\* One job, two triggers of it, a user who runs it, one incident.
\* A job that waits for nothing and a service that cannot start may rest.
SPECIFICATION FairSpec
CONSTANTS
  Job = {j1}
  User = {u1}
  MaxTriggers = 2
  MaxIncidents = 1
INVARIANT TypeOK
INVARIANT RunsApart
INVARIANT ActiveIsAwaited
INVARIANT OneShotKept
PROPERTY TriggersRun
CHECK_DEADLOCK FALSE
