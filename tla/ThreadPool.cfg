\* Event threads or plain threads, one of them without a function, destroyed at
\* any time: also before they have run, and when they never run.
CONSTANTS
  NumThreads = 3
  Kinds = {"event", "plain"}
  Started = FALSE
  Unbound = {2}
SPECIFICATION FairSpec
INVARIANTS
  ThreadOutlivesFunction
  LoopOutlivesFunction
PROPERTIES
  SleeperIsWoken
\* Nothing is left to do once the pool is gone, or the owner sleeps for good.
CHECK_DEADLOCK FALSE
