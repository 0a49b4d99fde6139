SPECIFICATION Spec
CONSTANTS
  SharedSession = FALSE
  AbortsOnError = TRUE
  DefaultIsolation <- ReadCommitted
  Asked <- ReadOnly
  Retries = 2
  MaxDepth = 4
  MaxTx = 2
  MaxSavepoints = 1
  MaxWrites = 2
INVARIANTS RolledBackIsGone KeptIsDurable OpenIsOwned RunningIsOpen
