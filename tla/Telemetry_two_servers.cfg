CONSTANTS
  Servers = {s1, s2}
  Environments <- ExportsAll
  Failures = {}
SPECIFICATION Spec
INVARIANT TelemetryIsFlushed
