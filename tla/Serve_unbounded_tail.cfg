CONSTANTS
  Listeners = {l1, l2}
  MaxConns = 1
  Faults = {}
SPECIFICATION FairSpec
PROPERTIES SignalEndsServe
