CONSTANTS
  Requests = {r1, r2}
  Methods = {"GET", "POST"}
  Inputs <- AllInputs
  Statuses = {200, 500}
  Codes = {0, 12, 13}
SPECIFICATION Spec
INVARIANTS TypeOK GaugeIsHeld OutcomeIsReal ProbesCollapse
PROPERTY ImplementsLedger
