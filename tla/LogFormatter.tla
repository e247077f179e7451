----------------------------- MODULE LogFormatter -----------------------------
(***************************************************************************)
(* The pattern of a log formatter (log/LogFormatter.cpp): how init() cuts  *)
(* it into items and what format() writes for them.                        *)
(*                                                                         *)
(* A pattern is a sequence of characters.  What is written is a sequence   *)
(* too: the characters of text, and for a directive the field of the log   *)
(* item with its format, which only a time has a use for.                  *)
(***************************************************************************)
LOCAL INSTANCE Naturals
LOCAL INSTANCE Sequences
LOCAL INSTANCE SequencesExt

\* s_format_items, and the field each of its classes writes.
FormatItems ==
  [m |-> "content", p |-> "level", r |-> "elapse", c |-> "loggerName", t |-> "threadId",
   n |-> "newline", d |-> "time", f |-> "file", l |-> "line", T |-> "tab",
   F |-> "fiberId", N |-> "threadName"]

\* Letters that name no field, of those a pattern uses.
OtherLetters == {"z"}
IsAlpha(ch) == ch \in DOMAIN FormatItems \cup OtherLetters

-----------------------------------------------------------------------------
\* An item is the sequence of what it writes: a character of text, or a field in
\* the format arg.
Text(str) == [i \in DOMAIN str |-> [field |-> "text", arg |-> <<str[i]>>]]
Directive(name, fmt) == <<[field |-> FormatItems[name], arg |-> fmt]>>

PatternError == Text(<<"<<pattern_error>>">>)
FormatError(str) == Text(<<"<<error_format %">> \o str \o <<">>">>)

\* The text gathered so far becomes an item of its own.
Flushed(s) == IF s.description = <<>> THEN s.items ELSE Append(s.items, Text(s.description))

\* Mutant: the character behind a directive is passed over.
MutNext(s, str, fmt, n) ==
  LET known == Len(str) = 1 /\ str[1] \in DOMAIN FormatItems IN
  [items |-> Append(Flushed(s), IF known THEN Directive(str[1], fmt) ELSE FormatError(str)),
   description |-> <<>>, next |-> n + 1, error |-> s.error \/ ~known]

\* A directive named str that ends in front of n.
Resolved(s, str, fmt, n) ==
  LET known == Len(str) = 1 /\ str[1] \in DOMAIN FormatItems IN
  [items |-> Append(Flushed(s), IF known THEN Directive(str[1], fmt) ELSE FormatError(str)),
   description |-> <<>>, next |-> n, error |-> s.error \/ ~known]

\* The first of the positions from .. Len(p) + 1 where the pattern stops or ends.
FirstStop(p, from, stops) ==
  CHOOSE n \in from .. Len(p) + 1 :
    /\ n > Len(p) \/ n \in stops
    /\ \A k \in from .. n - 1 : k \notin stops

\* What init() does at position i.  A name ends at "{" or at what is neither a
\* letter nor "}".  A first "%" of two is text and the second one is read again;
\* behind a brace that is not closed the text goes on with the name.
Scan(p, s, i) ==
  LET n == FirstStop(p, i + 1, {j \in DOMAIN p : ~IsAlpha(p[j]) /\ p[j] # "}"})
      k == FirstStop(p, n + 1, {j \in DOMAIN p : p[j] = "}"})
      str == SubSeq(p, i + 1, n - 1) IN
  IF p[i] # "%" \/ (i < Len(p) /\ p[i + 1] = "%")
  THEN [s EXCEPT !.description = Append(@, p[i]), !.next = i + 1]
  ELSE IF n > Len(p) \/ p[n] # "{" THEN Resolved(s, str, <<>>, n)
  ELSE IF k <= Len(p) THEN Resolved(s, str, SubSeq(p, n + 1, k - 1), k + 1)
  ELSE [s EXCEPT !.items = Append(@, PatternError), !.next = i + 1, !.error = TRUE]

init(p) ==
  LET start == [items |-> <<>>, description |-> <<>>, next |-> 1, error |-> FALSE]
      end == FoldLeft(LAMBDA s, i : IF i < s.next THEN s ELSE Scan(p, s, i), start,
                      [i \in DOMAIN p |-> i]) IN
  [items |-> Flushed(end), error |-> end.error]

isError(p) == init(p).error
format(p) == FlattenSeq(init(p).items)

-----------------------------------------------------------------------------
\* How a piece of output is asked for.
Asked(out) ==
  IF out.field = "text" THEN out.arg
  ELSE <<"%", CHOOSE name \in DOMAIN FormatItems : FormatItems[name] = out.field>>
         \o (IF out.arg = <<>> THEN <<>> ELSE <<"{">> \o out.arg \o <<"}">>)

Pair(p, i, c, d) == i < Len(p) /\ p[i] = c /\ p[i + 1] = d

\* A pattern is written in full and in order, or refused.  Putting back the
\* directives for what an accepted pattern writes gives the pattern: no character
\* is lost or written twice, at its end or between two directives.  Without
\* braces, what is accepted is known too: each "%" that is not followed by another
\* one has a single letter of a field behind it, and then no letter.
WrittenOrRefused(p) ==
  LET whole(i) == /\ i < Len(p) /\ p[i + 1] \in DOMAIN FormatItems
                  /\ i + 2 > Len(p) \/ ~IsAlpha(p[i + 2]) IN
  /\ ~isError(p) /\ ~(\E i \in DOMAIN p : Pair(p, i, "{", "}"))
       => FlattenSeq([i \in DOMAIN format(p) |-> Asked(format(p)[i])]) = p
  /\ ~Contains(p, "{") /\ ~Contains(p, "}")
       => (isError(p) <=> \E i \in DOMAIN p : p[i] = "%" /\ ~Pair(p, i, "%", "%") /\ ~whole(i))

=============================================================================
