CONSTANTS
  Base <- MCBase
  Apps <- MCApps
  Reserved <- MCReserved
  TopLevel = ""
SPECIFICATION Spec
INVARIANTS TypeOK SchemaAsksOnlyTheNeeded SchemaAsksTheNeeded
PROPERTIES ImplementsResolution
