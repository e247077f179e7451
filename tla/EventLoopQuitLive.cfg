\* A running pool loop with one session, told to quit by another thread.
CONSTANTS
  Threads = {main, worker, other}
  Creators = {main}
  Runner = worker
  Posters = {other}
  Quitters = {main}
  MaxPosts = 1
  MaxTotal = 1
  EarlyPosts = {FALSE}
  EpollInit = {"open"}
  Timeouts = {"bounded"}
  NoThread = NoThread
  NoTask = NoTask
SPECIFICATION FairSpec
PROPERTIES
  QuitReturns
\* The loop's thread stops for good in m_sessions.clear().
CHECK_DEADLOCK FALSE
