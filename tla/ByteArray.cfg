\* Blocks of three bytes, calls of up to five: writes within a block, to its
\* end, over one boundary and over two.  Three packets of which some are empty and
\* some hide what looks like a head, in any parts; the longest three do not fit.
\* All integers of eight bits, in bytes of four.
CONSTANTS
  BaseSize = 3
  MaxSize = 5
  MaxTotal = 8
  Uses = {"recv", "setMsg", "send", "read"}
  Sizes = {0, 1}
  Looks <- MCLooks
  MaxPackets = 3
  Room = 44
  Group = 3
  Width = 8
SPECIFICATION MCSpec
INVARIANTS
  NeverOffTheChain
  FirstBlockFifo
  PacketsInOrder
  IntegersReadBack
\* A call that throws ends the program, and MaxTotal the stream.
CHECK_DEADLOCK FALSE
