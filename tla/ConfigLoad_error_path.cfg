CONSTANTS
  Loaders = {t1}
  Paths = {a, b}
  Types = {App}
  Default = config_toml
  Unset = Unset
  MaxCalls = 3
SPECIFICATION Spec
INVARIANT ErrorsNameTheirFile
