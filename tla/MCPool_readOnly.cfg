CONSTANTS
  Goroutines = {g1, g2}
  Pools = {{s1}, {s1, s2}}
  NoSession = none
  MaxDepth = 3
  ReadOnly = TRUE
SPECIFICATION MCPoolSpec
INVARIANT ReadOnlyIsEnforced
