\* The read buffer of a connection.
CONSTANTS
  BaseSize = 3
  MaxSize = 4
  MaxTotal = 6
  Uses = {"recv", "read"}
SPECIFICATION Spec
INVARIANT
  Fifo
CHECK_DEADLOCK FALSE
