\* One loop under fairness, an HttpSession and an EchoClient socket that never
\* connected on one descriptor, partial sends, and a kernel that may refuse to
\* watch.
CONSTANTS
  Conns = {c1, c2}
  Fds = {f1}
  NumLoops = 1
  SecondOwner = {c1}
  Unconnected = {c2}
  MaxReqs = 2
  ReplySize = 2
  Room = 2
  NonBlock = {TRUE, FALSE}
  AddMayFail = TRUE
  NoConn = NoConn
  NoFd = NoFd
SPECIFICATION FairSpec
INVARIANTS
  PendingOutputWatched
  BatchIsAlive
  OnlyRemovalFreesSecondOwner
PROPERTIES
  PeerGoneReleases
  AcceptedIsServed
  OutputDrains
\* Once every connection was accepted and closed, nothing is left to do.
CHECK_DEADLOCK FALSE
