CONSTANTS
  Servers = {s1, s2}
  Environments <- MCEnvironments
  Failures = {"load", "filter", "subscribe"}
SPECIFICATION FairSpec
INVARIANTS TypeOK AllOrNothing SetUpOnce ExportersAreAsConfigured FailsForItsReason
INVARIANTS GatesFollowEndpoints FirstIsFlushed
PROPERTIES FlushCompletes
