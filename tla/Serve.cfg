CONSTANTS
  Listeners = {l1, l2}
  MaxConns = 2
  Faults = {"install", "err", "panic", "hook"}
SPECIFICATION FairSpec
INVARIANT OkIsClean
PROPERTIES
  NoTrafficAfterHook
  ImplementsLifecycle
  SignalLeavesLoop
  DrainIsBounded
  ClientsCannotHold
