-------------------------------- MODULE MCPool --------------------------------
(***************************************************************************)
(* Instances of Pool for TLC.  Goroutines that ask for a second session    *)
(* share two sessions, the others one, so that there is always something   *)
(* to wait for; the first keep the pool open and use it unwrapped.         *)
(***************************************************************************)
EXTENDS Pool, FiniteSets

MCPoolInit ==
  /\ PoolInit
  /\ doubles <=> Cardinality(Pooled) = 2

Unwrapped ==
  /\ pool = "open"
  /\ \A g \in Goroutines : \A i \in DOMAIN frames[g] : frames[g][i].fn # "masked"

MCPoolNext == PoolNext /\ (doubles => Unwrapped')

MCPoolSpec == MCPoolInit /\ [][MCPoolNext]_poolVars /\ PoolFairness

===============================================================================
