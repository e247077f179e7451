\* Two loaders whose file may change and whose loads may overlap, and a
\* thread that logs a message or sets a formatter;
\* and all patterns of up to five characters.
CONSTANTS
  App = app
  Root = root
  System = app
  Malformed = malformed
  Loggers <- MCLoggers
  Loaders = {l1, l2}
  Writers = {w}
  Documents <- MCDocuments
  Invalid <- MCInvalid
  Scalar = scalar
  List = list
  Formatters = {f1}
  Default = default
  MaxLoads = 1
  MaxEdits = 1
  MaxCalls = 1
  Nobody = nobody
  Characters = {"%", "m", "d", "z", "{", "}", " "}
  MaxPattern = 5
SPECIFICATION MCSpec
INVARIANTS
  OutputtersFollow
  ConfiguredWhenQuiet
  NoMessageLost
  PatternsWritten
PROPERTIES
  CallsReturn
\* The loads and messages end, and a thread may wait for its own spinlock.
CHECK_DEADLOCK FALSE
