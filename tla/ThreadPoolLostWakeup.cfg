\* A started thread whose owner waits for its end.
CONSTANTS
  NumThreads = 1
  Kinds = {"plain"}
  Started = TRUE
  Unbound = {}
SPECIFICATION FairSpec
PROPERTIES
  DestroyReturns
\* Nothing is left to do once the pool is gone, or the owner sleeps for good.
CHECK_DEADLOCK FALSE
