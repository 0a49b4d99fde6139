SPECIFICATION Spec
CONSTANTS
  SharedSession = FALSE
  AbortsOnError = TRUE
  DefaultIsolation <- ReadCommitted
  Asked = {}
  Retries = 2
  MaxDepth = 3
  MaxTx = 2
  MaxSavepoints = 1
  MaxWrites = 1
INVARIANT SerializationFailureIsRetried
