\* Three connections share two descriptors across two loops.
CONSTANTS
  Conns = {c1, c2, c3}
  Fds = {f1, f2}
  NumLoops = 2
  SecondOwner = {c1}
  Unconnected = {c3}
  MaxReqs = 0
  ReplySize = 1
  Room = 1
  NonBlock = {TRUE}
  AddMayFail = TRUE
  NoConn = NoConn
  NoFd = NoFd
SYMMETRY Symmetry
SPECIFICATION Spec
INVARIANTS
  ChannelsAgreeWithKernel
  ClosedOnceAndForAll
  RefusedLeavesNothing
PROPERTIES
  ImplementsRegistry
\* Once every connection was accepted and closed, nothing is left to do.
CHECK_DEADLOCK FALSE
