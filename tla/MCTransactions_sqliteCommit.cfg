SPECIFICATION Spec
CONSTANTS
  SharedSession = TRUE
  AbortsOnError = FALSE
  DefaultIsolation <- Serializable
  Asked = {}
  Retries = 2
  MaxDepth = 3
  MaxTx = 2
  MaxSavepoints = 1
  MaxWrites = 1
INVARIANT ParentHasNoTransaction
