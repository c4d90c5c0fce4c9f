CONSTANTS
  Requests = {r1}
  Methods = {"GET", "POST"}
  Inputs <- AllInputs
  Statuses = {200, 500}
  Codes = {0, 12, 13}
SPECIFICATION Spec
INVARIANT InFlightCancelsOut
