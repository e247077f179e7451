\* Two timers, one-shot or periodic each, with periods that make a deadline
\* fall due at once or later, over four instants.
CONSTANTS
  Timers = {t1, t2}
  Cycles = {0, 1, 2}
  MaxNow = 3
SPECIFICATION FairSpec
INVARIANTS
  TreeIsOrdered
  DeadlineIsAPeriodAhead
  CancelBeatsOneShot
PROPERTIES
  CancelledStaysOut
  OneShotOnce
  DueIsCollected
