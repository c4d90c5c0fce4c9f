CONSTANTS
  Loaders = {t1, t2}
  Types = {App, Other}
  Paths = {a}
  Default = config_toml
  Unset = Unset
  MaxCalls = 2
SPECIFICATION Spec
INVARIANTS ProvenanceIsReal FreshErrorsNameTheirFile
PROPERTIES ImplementsWriteOnce
