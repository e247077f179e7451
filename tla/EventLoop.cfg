\* A loop that its own thread or the main thread constructs, two threads that
\* add sessions before or after it runs, and two that quit it, one of them
\* from a handler.
CONSTANTS
  Threads = {main, worker, other}
  Creators = {main, worker}
  Runner = worker
  Posters = {main, other, worker}
  Quitters = {main, worker}
  MaxPosts = 2
  MaxTotal = 3
  EarlyPosts = {TRUE, FALSE}
  EpollInit = {"open", "invalid"}
  Timeouts = {"bounded", "forever"}
  NoThread = NoThread
  NoTask = NoTask
SPECIFICATION FairSpec
INVARIANTS
  EachTaskOnceInOrder
  OneThreadOneLoop
  NoIterationAfterQuit
PROPERTIES
  ImplementsQueue
  ChannelsStableDuringPoll
  TasksEventuallyRun
  QuitReturnsUnlessLive
\* The threads are done after quit(), and a handler that quits never returns.
CHECK_DEADLOCK FALSE
