CONSTANTS
  Parts = {"rows", "batch", "cache", "sqlite", "dialects", "errors", "drop", "information", "scan"}
  Caps <- MCCaps
  MaxRows = 3
  MaxArgs = 6
  Slices <- MCSlices
  ColumnCounts <- MCColumnCounts
  Goroutines = {g1, g2}
  Layouts <- MCLayouts
  Uses <- MCUses
  select = select
  insert = insert
  h1 = h1
  h2 = h2
  Texts = {select, insert}
  RowsOf <- TwoRowsOrNone
  Handles = {h1, h2}
  MaxStmts = 2
  ArgLists <- FewArgs
  Unsupported <- BadValue
  Valuers = {7}
  Columns <- MCColumns
  Keys <- MCKeys
  Data = {1, 2}
  Null = 0
  Wheres <- MCWheres
  Names <- MCNames
  Catalogs <- MCCatalogs
  Databases <- MCDatabases
  Filters <- MCFilters
  RelationNames <- MCRelationNames
  ColumnNames = {"b", "h"}
  RoutineNames <- MCRoutineNames
  Signatures <- MCSignatures
  Width = 5
  Narrow = 3
  Digits64 = 3
  Digits32 = 2
  Exponents64 = 5
  Exponents32 = 4
  LongFrom = 24
SPECIFICATION QueriesSpec
INVARIANTS
  RowsReleasedOnReturn
  ResultIsABeginning
  FailuresAreReported
  EachRowOnce
  BatchesFit
  StmtClosedBeforeEnd
  BatchFailuresReported
  ExecutesAsBuilt
  NoUseAfterFinalize
  RowsAreTheQuerys
  ExecRunsWithItsArguments
  NothingRunsWhenAllIsClosed
  SameInEveryDialect
  KnownErrorsAreClassified
  PredicatesAgree
  NothingIsLeft
  OrderNeverFails
  ChecksAreRestored
  AnswersAreTrue
  KeptOrRounded
PROPERTIES
  ImplementsAllOrNothing
