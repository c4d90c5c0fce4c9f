CONSTANTS
  Programs <- DefaultPrograms
  Ports <- MCPorts
  ConfigPort = 80
  Foreign = {}
  MaxStarts = 2
SPECIFICATION Spec
INVARIANT EveryStackIsServed
