CONSTANTS
  Programs <- MCPrograms
  Ports <- MCPorts
  ConfigPort = 80
  Foreign <- MCForeign
  MaxStarts = 2
SPECIFICATION Spec
INVARIANTS EveryBindIsServed RestartsServe
PROPERTIES ImplementsStartup
