SPECIFICATION Spec
CONSTANTS
  SharedSession = TRUE
  AbortsOnError = FALSE
  DefaultIsolation <- Serializable
  Asked = {}
  Retries = 1
  MaxDepth = 4
  MaxTx = 2
  MaxSavepoints = 2
  MaxWrites = 2
INVARIANTS TypeOK RolledBackIsGone
