------------------------------ MODULE MCLogging -------------------------------
(* The root logger and another one, and what the file says of them.  Before *)
(* anything of that happens, every short pattern is given to a formatter.   *)
EXTENDS Logging, LogFormatter, TLC

CONSTANTS
  App,
  Characters,    \* what patterns are made of
  MaxPattern     \* bound: their length

File(own) == [type |-> "FileLogOutputter", own |-> own]
Stdout == [type |-> "StdoutOutputter", own |-> FALSE]
Other == [type |-> "Console", own |-> FALSE]

MCLoggers == {Root, App}

First == App :> [level |-> Error, outputters |-> <<File(FALSE), Other>>]
Second == App :> [level |-> Unknown, outputters |-> <<Scalar, Stdout>>]
            @@ Root :> [level |-> 9, outputters |-> <<File(TRUE)>>]
Bad == App :> [level |-> List, outputters |-> <<>>]

\* Two values, none, one that does not convert, and one under names that are not
\* taken for "logs".
MCDocuments ==
  {Logs :> First, Logs :> Second, Logs :> Scalar, Logs :> Bad,
   <<"Logs">> :> Second @@ <<"app", "logs">> :> Second}

MCInvalid == {"Logs"}

VARIABLE pattern

MCInit == Init /\ pattern = <<>>

Lengthen ==
  /\ Init /\ Len(pattern) < MaxPattern
  /\ \E ch \in Characters : pattern' = Append(pattern, ch)
  /\ UNCHANGED vars

MCNext ==
  \/ Lengthen
  \/ pattern = <<>> /\ Next /\ UNCHANGED pattern

MCSpec == MCInit /\ [][MCNext]_<<vars, pattern>> /\ Fairness

\* The formatter says what each of the patterns says, or refuses it.
PatternsWritten == WrittenOrRefused(pattern)

=============================================================================
