SPECIFICATION Spec
CONSTANTS
  SharedSession = FALSE
  AbortsOnError = FALSE
  DefaultIsolation <- ReadCommitted
  Asked = {}
  Retries = 1
  MaxDepth = 3
  MaxTx = 1
  MaxSavepoints = 1
  MaxWrites = 1
INVARIANT FailedIsNotDurable
