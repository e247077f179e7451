\* Three messages of every kind on one connection, partial sends of two-unit
\* replies, a peer that reads slowly or leaves.
CONSTANTS
  Case = 10
  NotFound = NotFound
  BadRequest = BadRequest
  Registrations <- MCRegistrations
  Paths <- MCPaths
  Kinds = {"request", "odd", "bad", "response", "badResponse", "unknown", "short", "long"}
  MaxMsgs = 3
  ReplySize = 2
  Room = 2
  NonBlock = {TRUE, FALSE}
SPECIFICATION FairSpec
INVARIANTS
  AnsweredInOrder
  NoneStranded
  OnlyStaleCallbackFrees
PROPERTIES
  OutputAbandonedOnlyFor
  ReadReturnsUnlessUnknown
\* A connection that is closed is never opened again.
CHECK_DEADLOCK FALSE
