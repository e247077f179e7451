\* One connection whose peer reads slowly.
CONSTANTS
  Conns = {c1}
  Fds = {f1}
  NumLoops = 1
  SecondOwner = {c1}
  Unconnected = {}
  MaxReqs = 2
  ReplySize = 2
  Room = 2
  NonBlock = {TRUE, FALSE}
  AddMayFail = FALSE
  NoConn = NoConn
  NoFd = NoFd
SPECIFICATION Spec
INVARIANTS
  NoCloseWhenBusy
\* Once every connection was accepted and closed, nothing is left to do.
CHECK_DEADLOCK FALSE
