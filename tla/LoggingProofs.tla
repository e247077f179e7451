----------------------------- MODULE LoggingProofs -----------------------------
(***************************************************************************)
(* Proofs about the loggers of Logging.tla, for any loggers, threads and   *)
(* documents, whatever these name.                                         *)
(*                                                                         *)
(* Listing is about what the loggers list, while values are set and        *)
(* formatters change.  Locking is about who holds the spinlocks: a thread  *)
(* holds the lock of a logger exactly while a call of log() in progress    *)
(* writes for it, and whatever it calls meanwhile is a message of the root *)
(* logger.                                                                 *)
(***************************************************************************)
EXTENDS Logging, SequenceTheorems, FiniteSetTheorems, WellFoundedInduction, TLAPS

\* A list of outputters; nothing is said of the types, flags and formatters that
\* documents name.
Outputter(T, O, F) == [type : T, own : O, formatter : F]

IsList(s) == \E T, O, F : s \in Seq(Outputter(T, O, F))

Listing ==
  /\ outputters = [l \in Loggers |-> outputters[l]]
  /\ formatter = [l \in Loggers |-> formatter[l]]
  /\ \A l \in Loggers : IsList(outputters[l])
  /\ OutputtersFollow
  /\ outputters[Root] = <<>> => Root \in cleared
  /\ NoMessageLost

-----------------------------------------------------------------------------
(* What changes a list.                                                    *)

LEMMA AppendList ==
  ASSUME NEW s, IsList(s), NEW type, NEW own, NEW f
  PROVE  /\ IsList(Append(s, [type |-> type, own |-> own, formatter |-> f]))
         /\ Append(s, [type |-> type, own |-> own, formatter |-> f]) # <<>>
<1>. DEFINE op == [type |-> type, own |-> own, formatter |-> f]
<1>1. PICK T, O, F : s \in Seq(Outputter(T, O, F))
  BY DEF IsList
<1>. DEFINE All == Outputter(T \cup {type}, O \cup {own}, F \cup {f})
<1>2. Outputter(T, O, F) \subseteq All /\ op \in All
  BY DEF Outputter
<1>3. s \in Seq(All)
  BY <1>1, <1>2, SeqMonotonic
<1>. HIDE DEF op, All
<1>4. Append(s, op) \in Seq(All) /\ Append(s, op) # <<>>
  BY <1>2, <1>3
<1>. QED
  BY <1>4 DEF IsList, op, All

Restyled(s, f) ==
  [i \in DOMAIN s |-> IF s[i].own THEN s[i] ELSE [s[i] EXCEPT !.formatter = f]]

LEMMA RestyleList ==
  ASSUME NEW s, IsList(s), NEW f
  PROVE  /\ IsList(Restyled(s, f)) /\ DOMAIN Restyled(s, f) = DOMAIN s
         /\ s # <<>> => Restyled(s, f) # <<>>
         /\ \A i \in DOMAIN s :
              /\ Restyled(s, f)[i].type = s[i].type
              /\ s[i].own => Restyled(s, f)[i] = s[i]
              /\ ~s[i].own => ~Restyled(s, f)[i].own /\ Restyled(s, f)[i].formatter = f
<1>1. PICK T, O, F : s \in Seq(Outputter(T, O, F))
  BY DEF IsList
<1>. DEFINE All == Outputter(T, O, F \cup {f})
<1>. HIDE DEF All
<1>2. DOMAIN s = 1 .. Len(s) /\ Len(s) \in Nat
  BY <1>1
<1>3. ASSUME NEW i \in DOMAIN s
      PROVE  /\ Restyled(s, f)[i] \in All /\ Restyled(s, f)[i].type = s[i].type
             /\ s[i].own => Restyled(s, f)[i] = s[i]
             /\ ~s[i].own => ~Restyled(s, f)[i].own /\ Restyled(s, f)[i].formatter = f
  <2>0. s[i] \in Outputter(T, O, F)
    BY <1>1, <1>2, ElementOfSeq
  <2>1. s[i] \in [type : T, own : O, formatter : F]
    BY <2>0 DEF Outputter
  <2>2. CASE s[i].own
    BY <2>1, <2>2 DEF Restyled, Outputter, All
  <2>3. CASE ~s[i].own
    <3>1. Restyled(s, f)[i] = [s[i] EXCEPT !.formatter = f]
      BY <2>3 DEF Restyled
    <3>2. [s[i] EXCEPT !.formatter = f] = [type |-> s[i].type, own |-> s[i].own, formatter |-> f]
      BY <2>1
    <3>. QED
      BY <2>1, <2>3, <3>1, <3>2 DEF Outputter, All
  <2>. QED
    BY <2>2, <2>3
<1>4. DOMAIN Restyled(s, f) = 1 .. Len(s)
  BY <1>2 DEF Restyled
<1>5. Restyled(s, f) \in Seq(All) /\ Len(Restyled(s, f)) = Len(s)
  <2>1. Restyled(s, f) = [i \in 1 .. Len(s) |-> Restyled(s, f)[i]]
    BY <1>2 DEF Restyled
  <2>2. \A i \in 1 .. Len(s) : Restyled(s, f)[i] \in All
    BY <1>2, <1>3
  <2>. QED
    BY <1>2, <2>1, <2>2
<1>6. s # <<>> => Restyled(s, f) # <<>>
  BY <1>1, <1>5
<1>. QED
  BY <1>2, <1>3, <1>4, <1>5, <1>6 DEF IsList, All

-----------------------------------------------------------------------------
(* Listing, one action at a time.                                          *)

LEMMA ListingFrame ==
  ASSUME Listing, UNCHANGED <<outputters, formatter, cleared, lost>>
  PROVE  Listing'
BY DEF Listing, OutputtersFollow, NoMessageLost

LEMMA InitListing == Init => Listing
<1>. SUFFICES ASSUME Init PROVE Listing
  OBVIOUS
<1>1. \A l \in Loggers : outputters[l] = (IF l = Root THEN <<Console(Default)>> ELSE <<>>)
                         /\ formatter[l] = Default
  BY DEF Init, Initial
<1>2. /\ outputters = [l \in Loggers |-> outputters[l]]
      /\ formatter = [l \in Loggers |-> formatter[l]]
  BY DEF Init
<1>3. IsList(<<>>)
  BY DEF IsList
<1>4. IsList(<<Console(Default)>>)
  <2>. DEFINE S == Outputter({"StdoutOutputter"}, {FALSE}, {Default})
              o == Console(Default)
  <2>1. o \in S
    BY DEF Console, Outputter
  <2>. HIDE DEF S, o
  <2>2. <<o>> \in Seq(S)
    BY <2>1
  <2>. QED
    BY <2>2 DEF IsList, S, o
<1>5. OutputtersFollow
  <2>. SUFFICES ASSUME NEW l \in Loggers, NEW i \in DOMAIN outputters[l]
                PROVE  outputters[l][i].formatter = formatter[l]
    BY DEF OutputtersFollow
  <2>1. l = Root /\ i = 1
    BY <1>1
  <2>. QED
    BY <1>1, <2>1 DEF Console
<1>6. outputters[Root] # <<>> /\ ~lost
  <2>1. outputters[Root] = <<Console(Default)>>
    BY <1>1, LoggingAssumption
  <2>2. ~lost
    BY DEF Init
  <2>. QED
    BY <2>1, <2>2
<1>. QED
  BY <1>1, <1>2, <1>3, <1>4, <1>5, <1>6 DEF Listing, NoMessageLost

LEMMA FormatterListing ==
  ASSUME Listing, NEW t \in Writers, setFormatter(t)
  PROVE  Listing'
<1>1. PICK l \in Loggers, f \in Formatters :
        /\ formatter' = [formatter EXCEPT ![l] = f]
        /\ outputters' = [outputters EXCEPT ![l] = Restyled(outputters[l], f)]
  BY DEF setFormatter, Restyled
<1>2. UNCHANGED <<cleared, lost>>
  BY DEF setFormatter
<1>3. \A k \in Loggers : /\ formatter'[k] = IF k = l THEN f ELSE formatter[k]
                         /\ outputters'[k] = IF k = l THEN Restyled(outputters[l], f)
                                             ELSE outputters[k]
  BY <1>1 DEF Listing
<1>4. /\ outputters' = [k \in Loggers |-> outputters'[k]]
      /\ formatter' = [k \in Loggers |-> formatter'[k]]
  BY <1>1 DEF Listing
<1>5. IsList(outputters[l])
  BY DEF Listing
<1>6. \A k \in Loggers : IsList(outputters'[k]) /\ (outputters'[k] = <<>> => outputters[k] = <<>>)
  BY <1>3, <1>5, RestyleList DEF Listing
<1>7. OutputtersFollow'
  <2>. SUFFICES ASSUME NEW k \in Loggers, NEW i \in DOMAIN outputters'[k], ~outputters'[k][i].own
                PROVE  outputters'[k][i].formatter = formatter'[k]
    BY DEF OutputtersFollow
  <2>1. CASE k = l
    <3>1. i \in DOMAIN outputters[l] /\ outputters'[k][i] = Restyled(outputters[l], f)[i]
      BY <1>3, <1>5, <2>1, RestyleList
    <3>2. ~outputters[l][i].own
      BY <1>5, <3>1, RestyleList
    <3>. QED
      BY <1>3, <1>5, <2>1, <3>1, <3>2, RestyleList
  <2>2. CASE k # l
    BY <1>3, <2>2 DEF Listing, OutputtersFollow
  <2>. QED
    BY <2>1, <2>2
<1>. QED
  BY <1>2, <1>4, <1>6, <1>7, LoggingAssumption DEF Listing, NoMessageLost

LEMMA AddListing ==
  ASSUME Listing, NEW t \in Loaders, addOutputter(t)
  PROVE  Listing'
<1>. DEFINE l == cur[t]
            own == Head(ops[t]).own
            f == IF own THEN Nobody ELSE formatter[l]
            op == [type |-> Head(ops[t]).type, own |-> own, formatter |-> f]
<1>1. /\ outputters' = [outputters EXCEPT ![l] = Append(@, op)]
      /\ UNCHANGED <<formatter, cleared, lost>>
  BY DEF addOutputter, Listener
<1>2. \A k \in Loggers : outputters'[k] = IF k = l THEN Append(outputters[k], op) ELSE outputters[k]
  BY <1>1 DEF Listing
<1>3. outputters' = [k \in Loggers |-> outputters'[k]]
  BY <1>1 DEF Listing
<1>4. \A k \in Loggers : IsList(Append(outputters[k], op)) /\ Append(outputters[k], op) # <<>>
  BY AppendList DEF Listing
<1>5. ~op.own => op.formatter = formatter[l]
  OBVIOUS
<1>. HIDE DEF op, l
<1>6. OutputtersFollow'
  <2>. SUFFICES ASSUME NEW k \in Loggers, NEW i \in DOMAIN outputters'[k], ~outputters'[k][i].own
                PROVE  outputters'[k][i].formatter = formatter[k]
    BY <1>1 DEF OutputtersFollow
  <2>1. CASE k = l
    <3>1. PICK S : outputters[k] \in Seq(S)
      BY DEF Listing, IsList
    <3>2. /\ Len(outputters[k]) \in Nat /\ DOMAIN outputters[k] = 1 .. Len(outputters[k])
          /\ DOMAIN Append(outputters[k], op) = 1 .. Len(outputters[k]) + 1
          /\ Append(outputters[k], op)[Len(outputters[k]) + 1] = op
          /\ \A j \in 1 .. Len(outputters[k]) : Append(outputters[k], op)[j] = outputters[k][j]
      BY <3>1
    <3>3. outputters'[k] = Append(outputters[k], op)
      BY <1>2, <2>1
    <3>4. CASE i = Len(outputters[k]) + 1
      BY <1>5, <2>1, <3>2, <3>3, <3>4
    <3>5. CASE i # Len(outputters[k]) + 1
      <4>1. i \in DOMAIN outputters[k] /\ outputters'[k][i] = outputters[k][i]
        BY <3>2, <3>3, <3>5
      <4>. QED
        BY <4>1 DEF Listing, OutputtersFollow
    <3>. QED
      BY <3>4, <3>5
  <2>2. CASE k # l
    BY <1>2, <2>2 DEF Listing, OutputtersFollow
  <2>. QED
    BY <2>1, <2>2
<1>7. outputters'[Root] = <<>> => Root \in cleared
  BY <1>2, <1>4, LoggingAssumption DEF Listing
<1>. QED
  BY <1>1, <1>2, <1>3, <1>4, <1>6, <1>7 DEF Listing, NoMessageLost

LEMMA ClearListing ==
  ASSUME Listing, NEW t \in Loaders, clearOutputters(t)
  PROVE  Listing'
<1>1. /\ outputters' = [outputters EXCEPT ![cur[t]] = <<>>]
      /\ cleared' = cleared \cup {cur[t]} /\ UNCHANGED <<formatter, lost>>
  BY DEF clearOutputters, Listener
<1>2. \A k \in Loggers : outputters'[k] = IF k = cur[t] THEN <<>> ELSE outputters[k]
  BY <1>1 DEF Listing
<1>3. outputters' = [k \in Loggers |-> outputters'[k]]
  BY <1>1 DEF Listing
<1>4. IsList(<<>>) /\ DOMAIN <<>> = {}
  BY DEF IsList
<1>5. OutputtersFollow'
  BY <1>1, <1>2, <1>4 DEF Listing, OutputtersFollow
<1>. QED
  BY <1>1, <1>2, <1>3, <1>4, <1>5, LoggingAssumption DEF Listing, NoMessageLost

LEMMA ListingHolds == Spec => []Listing
<1>1. Listing /\ [Next]_vars => Listing'
  <2>. SUFFICES ASSUME Listing, [Next]_vars PROVE Listing'
    OBVIOUS
  <2>1. CASE Edit \/ UNCHANGED vars
    <3>1. UNCHANGED <<outputters, formatter, cleared, lost>>
      BY <2>1 DEF Edit, vars, noted, loggers
    <3>. QED
      BY <3>1, ListingFrame
  <2>2. ASSUME NEW t \in Threads, Log(t) PROVE Listing'
    <3>1. UNCHANGED <<outputters, formatter, cleared>>
      BY <2>2 DEF Log, LogTest, LogLock, Outputs, FallsBack, LogUnlock, Writing, loggers
    <3>2. lost' => lost \/ outputters[Root] = <<>>
      <4>1. CASE FallsBack(t)
        <5>1. CASE Top(t).logger = Root
          BY <4>1, <5>1 DEF FallsBack
        <5>2. CASE Top(t).logger # Root
          BY <4>1, <5>2, LoggingAssumption DEF FallsBack, Parent
        <5>. QED
          BY <5>1, <5>2
      <4>2. CASE ~FallsBack(t)
        BY <2>2, <4>2 DEF Log, LogTest, LogLock, Outputs, LogUnlock
      <4>. QED
        BY <4>1, <4>2
    <3>. QED
      BY <3>1, <3>2 DEF Listing, OutputtersFollow, NoMessageLost
  <2>3. ASSUME NEW t \in Writers, LogCall(t) PROVE Listing'
    BY <2>3, ListingFrame DEF LogCall, loggers
  <2>4. ASSUME NEW t \in Loaders, LoadFromConfDir(t) \/ Load(t) PROVE Listing'
    <3>1. CASE addOutputter(t) \/ clearOutputters(t)
      BY <3>1, AddListing, ClearListing
    <3>2. CASE ~(addOutputter(t) \/ clearOutputters(t))
      <4>1. UNCHANGED <<outputters, formatter, cleared, lost>>
        BY <2>4, <3>2 DEF LoadFromConfDir, Compare, PassOver, Note, Load, LoadFails,
           LoadFromYaml, fromString, setValue, ClearLevel, ClearDone, SetLevel, Build, Construct, UnknownType, LoggerDone, ReadUnlock,
           Assign, Listener, loggers
      <4>. QED
        BY <4>1, ListingFrame
    <3>. QED
      BY <3>1, <3>2
  <2>. QED
    BY <2>1, <2>2, <2>3, <2>4, FormatterListing DEF Next
<1>. QED
  BY InitListing, <1>1, PTL DEF Spec

(***************************************************************************)
(* However addOutputter and setFormatter interleave (Logger.cpp:13-26 and  *)
(* 71-79), an outputter without a pattern of its own has the formatter its *)
(* logger has now.                                                         *)
(***************************************************************************)
THEOREM LoggingOutputtersFollow == Spec => []OutputtersFollow
<1>1. Listing => OutputtersFollow
  BY DEF Listing
<1>. QED
  BY <1>1, ListingHolds, PTL

(***************************************************************************)
(* Unless a value has named the root logger, its console is there at every *)
(* moment, and a message that falls back on it is not lost while the lists *)
(* of the other loggers are rebuilt (LogConfItem.h, Logger.cpp:93-117).     *)
(***************************************************************************)
THEOREM LoggingNoMessageLost == Spec => []NoMessageLost
<1>1. Listing => NoMessageLost
  BY DEF Listing
<1>. QED
  BY <1>1, ListingHolds, PTL
-----------------------------------------------------------------------------
(* The locks that a thread holds while it logs.                            *)

Levels == {Info, Error}

Frame == [logger : Loggers, level : Levels, at : {"test", "lock", "each"},
          i : Nat \ {0}]

\* The thread whose calls are s writes for l, and holds its lock.
Writes(s, l) == \E j \in 1 .. Len(s) : s[j].at = "each" /\ s[j].logger = l

\* A call that is not the innermost writes, unless it is the first of two that
\* were made one after the other.  What is called while a logger writes is the
\* root logger, and with an error while that one writes.
Nested(s) ==
  /\ \A j \in 2 .. Len(s) : s[j].at = "each" \/ (s[j].at = "test" /\ j = Len(s))
  /\ \A j \in 2 .. Len(s) : s[j].at = "each" =>
       /\ s[j - 1].logger = Root
       /\ s[j].logger = Root => s[j - 1].level = Error
  /\ \A j, k \in 1 .. Len(s) :
       s[j].at = "each" /\ s[k].at = "each" /\ s[j].logger = s[k].logger => j = k

Reopens == \E i \in DOMAIN outputters[Root] : outputters[Root][i].type = "FileLogOutputter"

Locking ==
  /\ stack \in [Threads -> Seq(Frame)]
  /\ owner \in [Loggers -> Threads \cup {Nobody}]
  /\ \A t \in Threads : Nested(stack[t])
  /\ \A t \in Threads, l \in Loggers : owner[l] = t <=> Writes(stack[t], l)
  /\ \A t \in Threads : \A j \in 2 .. Len(stack[t]) :
       stack[t][j].at = "each" /\ stack[t][j].logger = Root => Reopens

\* A thread that waits for a spinlock and holds another waits for the root's; and
\* if that is the one it holds, then because its file outputter reports to itself.
LockOrder ==
  \A t \in Threads : At(t, "lock") /\ (\E l \in Loggers : owner[l] = t) =>
    /\ Top(t).logger = Root
    /\ owner[Root] = t => ReportsToItself(t)

-----------------------------------------------------------------------------
(* What the steps of a call do to the calls of its thread.                 *)

\* r is s with another innermost call, or s with one more.
Tops(r, s, g) ==
  /\ r \in Seq(Frame) /\ Len(r) = Len(s) /\ r[1] = g
  /\ \A j \in 2 .. Len(s) : r[j] = s[j]

Pushed(r, s, g) ==
  /\ r \in Seq(Frame) /\ Len(r) = Len(s) + 1 /\ r[1] = g
  /\ \A j \in 1 .. Len(s) : r[j + 1] = s[j]

LEMMA PushStack ==
  ASSUME NEW s \in Seq(Frame), NEW g \in Frame
  PROVE  Pushed(<<g>> \o s, s, g) /\ <<g>> \o s # <<>>
<1>1. <<g>> \in Seq(Frame) /\ Len(<<g>>) = 1 /\ <<g>>[1] = g
  OBVIOUS
<1>2. /\ <<g>> \o s \in Seq(Frame) /\ Len(<<g>> \o s) = 1 + Len(s)
      /\ \A j \in 1 .. 1 + Len(s) : (<<g>> \o s)[j] = IF j <= 1 THEN <<g>>[j] ELSE s[j - 1]
  BY <1>1, ConcatProperties
<1>3. Len(s) \in Nat
  OBVIOUS
<1>. QED
  BY <1>1, <1>2, <1>3 DEF Pushed

LEMMA PairSeq ==
  ASSUME NEW a, NEW b
  PROVE  <<a>> \o <<b>> = <<a, b>>
<1>1. <<a>> \in Seq({a, b}) /\ <<b>> \in Seq({a, b}) /\ <<a, b>> \in Seq({a, b})
      /\ Len(<<a>>) = 1 /\ Len(<<b>>) = 1 /\ Len(<<a, b>>) = 2
      /\ <<a>>[1] = a /\ <<b>>[1] = b /\ <<a, b>>[1] = a /\ <<a, b>>[2] = b
  OBVIOUS
<1>2. /\ <<a>> \o <<b>> \in Seq({a, b}) /\ Len(<<a>> \o <<b>>) = 2
      /\ (<<a>> \o <<b>>)[1] = a /\ (<<a>> \o <<b>>)[2] = b
  BY <1>1, ConcatProperties
<1>3. \A i \in 1 .. 2 : (<<a>> \o <<b>>)[i] = <<a, b>>[i]
  <2>1. \A i \in 1 .. 2 : i = 1 \/ i = 2
    OBVIOUS
  <2>. QED
    BY <1>1, <1>2, <2>1
<1>. QED
  BY <1>1, <1>2, <1>3, SeqEqual

LEMMA PopStack ==
  ASSUME NEW s \in Seq(Frame), s # <<>>
  PROVE  /\ Pushed(s, Tail(s), Head(s)) /\ Head(s) = s[1] /\ Head(s) \in Frame
         /\ Tail(s) \in Seq(Frame) /\ Len(s) \in Nat \ {0}
<1>1. Len(s) \in Nat \ {0} /\ Head(s) = s[1]
  OBVIOUS
<1>2. s[1] \in Frame
  BY <1>1, ElementOfSeq
<1>3. Tail(s) \in Seq(Frame) /\ Len(Tail(s)) = Len(s) - 1
      /\ \A j \in 1 .. Len(s) - 1 : Tail(s)[j] = s[j + 1]
  BY <1>1
<1>. QED
  BY <1>1, <1>2, <1>3 DEF Pushed

LEMMA TopStack ==
  ASSUME NEW s \in Seq(Frame), s # <<>>, NEW g \in Frame
  PROVE  /\ Tops(<<g>> \o Tail(s), s, g) /\ Tops([s EXCEPT ![1] = g], s, g)
         /\ <<g>> \o Tail(s) \in Seq(Frame)
<1>1. Pushed(<<g>> \o Tail(s), Tail(s), g) /\ Pushed(s, Tail(s), Head(s)) /\ Len(Tail(s)) \in Nat
  BY PopStack, PushStack, LenProperties
<1>2. Tops(<<g>> \o Tail(s), s, g)
  <2>. SUFFICES ASSUME NEW j \in 2 .. Len(s)
                PROVE  (<<g>> \o Tail(s))[j] = s[j]
    BY <1>1 DEF Pushed, Tops
  <2>1. j - 1 \in 1 .. Len(Tail(s)) /\ (j - 1) + 1 = j
    BY <1>1 DEF Pushed
  <2>. QED
    BY <1>1, <2>1 DEF Pushed
<1>3. Tops([s EXCEPT ![1] = g], s, g)
  BY PopStack, ExceptSeq DEF Tops
<1>. QED
  BY <1>2, <1>3 DEF Tops

\* The innermost call goes on: what it still calls, and what it is called by, stay.
LEMMA TopNested ==
  ASSUME NEW s \in Seq(Frame), s # <<>>, Nested(s), NEW g \in Frame, NEW r, Tops(r, s, g),
         g.logger = s[1].logger, g.level = s[1].level,
         g.at = "each" => s[1].at = "each" \/ ~Writes(s, g.logger)
  PROVE  /\ Nested(r)
         /\ g.at = s[1].at => \A l : Writes(r, l) <=> Writes(s, l)
         /\ s[1].at # "each" /\ g.at # "each" => \A l : Writes(r, l) <=> Writes(s, l)
         /\ g.at = "each" => \A l : Writes(r, l) <=> Writes(s, l) \/ l = g.logger
<1>1. Len(s) \in Nat \ {0} /\ Len(r) = Len(s) /\ r[1] = g /\ \A j \in 2 .. Len(s) : r[j] = s[j]
  BY PopStack DEF Tops
<1>2. \A j \in 1 .. Len(s) : r[j].logger = s[j].logger /\ r[j].level = s[j].level /\ (j # 1 => r[j].at = s[j].at)
  BY <1>1
<1>3. g.at = "each" => \A l : Writes(r, l) <=> Writes(s, l) \/ l = g.logger
  BY <1>1, <1>2 DEF Writes
<1>4. g.at = s[1].at => \A l : Writes(r, l) <=> Writes(s, l)
  BY <1>1, <1>2 DEF Writes
<1>5. s[1].at # "each" /\ g.at # "each" => \A l : Writes(r, l) <=> Writes(s, l)
  BY <1>1, <1>2 DEF Writes
<1>6. \A j \in 2 .. Len(r) : r[j].at = "each" \/ (r[j].at = "test" /\ j = Len(r))
  BY <1>1, <1>2 DEF Nested
<1>7. \A j \in 2 .. Len(r) : r[j].at = "each" =>
        /\ r[j - 1].logger = Root
        /\ r[j].logger = Root => r[j - 1].level = Error
  <2>. SUFFICES ASSUME NEW j \in 2 .. Len(r), r[j].at = "each"
                PROVE  /\ r[j - 1].logger = Root
                       /\ r[j].logger = Root => r[j - 1].level = Error
    OBVIOUS
  <2>1. j \in 1 .. Len(s) /\ j \in 2 .. Len(s) /\ j - 1 \in 1 .. Len(s) /\ s[j].at = "each"
    BY <1>1
  <2>. QED
    BY <1>2, <2>1 DEF Nested
<1>8. ASSUME NEW j \in 1 .. Len(r), NEW k \in 1 .. Len(r),
             r[j].at = "each", r[k].at = "each", r[j].logger = r[k].logger
      PROVE  j = k
  <2>1. j \in 1 .. Len(s) /\ k \in 1 .. Len(s)
    BY <1>1
  <2>2. CASE s[j].at = "each" /\ s[k].at = "each"
    BY <1>2, <1>8, <2>1, <2>2 DEF Nested
  <2>3. CASE g.at = "each" /\ ~Writes(s, g.logger)
    <3>1. ASSUME NEW i \in 1 .. Len(s), i # 1, r[i].at = "each"
          PROVE  r[i].logger # g.logger
      BY <1>2, <2>3, <3>1 DEF Writes
    <3>2. CASE j # 1 /\ k # 1
      BY <1>2, <1>8, <2>1, <2>2, <3>2
    <3>3. CASE j = 1 \/ k = 1
      BY <1>1, <1>8, <2>1, <3>1, <3>3
    <3>. QED
      BY <3>2, <3>3
  <2>4. CASE g.at # "each" \/ s[1].at = "each"
    <3>1. s[j].at = "each" /\ s[k].at = "each"
      BY <1>1, <1>2, <1>8, <2>1, <2>4
    <3>. QED
      BY <2>2, <3>1
  <2>. QED
    BY <2>3, <2>4
<1>. QED
  BY <1>3, <1>4, <1>5, <1>6, <1>7, <1>8 DEF Nested

LEMMA PushNested ==
  ASSUME NEW s \in Seq(Frame), s # <<>>, Nested(s), NEW g \in Frame, NEW r, Pushed(r, s, g),
         g.at = "test",
         \/ s[1].at = "each" /\ g.logger = Root /\ (s[1].logger = Root => g.level = Error)
         \/ s[1].at = "test" /\ Len(s) = 1
  PROVE  Nested(r) /\ \A l : Writes(r, l) <=> Writes(s, l)
<1>1. /\ Len(s) \in Nat \ {0} /\ Len(r) = Len(s) + 1 /\ r[1] = g
      /\ \A j \in 1 .. Len(s) : r[j + 1] = s[j]
  BY PopStack DEF Pushed
<1>2. \A j \in 2 .. Len(r) : j - 1 \in 1 .. Len(s) /\ r[j] = s[j - 1]
  BY <1>1
<1>3. \A l : Writes(r, l) <=> Writes(s, l)
  <2>1. ASSUME NEW l, Writes(r, l) PROVE Writes(s, l)
    BY <1>1, <1>2, <2>1 DEF Writes
  <2>2. ASSUME NEW l, Writes(s, l) PROVE Writes(r, l)
    <3>1. PICK j \in 1 .. Len(s) : s[j].at = "each" /\ s[j].logger = l
      BY <2>2 DEF Writes
    <3>2. j + 1 \in 1 .. Len(r) /\ r[j + 1] = s[j]
      BY <1>1
    <3>. QED
      BY <3>1, <3>2 DEF Writes
  <2>. QED
    BY <2>1, <2>2
<1>4. Nested(r)
  <2>1. \A j \in 2 .. Len(r) : r[j].at = "each" \/ (r[j].at = "test" /\ j = Len(r))
    BY <1>1, <1>2 DEF Nested
  <2>2. ASSUME NEW j \in 2 .. Len(r), r[j].at = "each"
        PROVE  r[j - 1].logger = Root /\ (r[j].logger = Root => r[j - 1].level = Error)
    <3>1. CASE j = 2
      BY <1>1, <1>2, <2>2, <3>1
    <3>2. CASE j # 2
      <4>1. j - 1 \in 2 .. Len(s) /\ j - 1 \in 2 .. Len(r)
        BY <1>1, <3>2
      <4>. QED
        BY <1>2, <2>2, <4>1 DEF Nested
    <3>. QED
      BY <3>1, <3>2
  <2>3. ASSUME NEW j \in 1 .. Len(r), NEW k \in 1 .. Len(r),
               r[j].at = "each", r[k].at = "each", r[j].logger = r[k].logger
        PROVE  j = k
    <3>1. j # 1 /\ k # 1
      BY <1>1, <2>3
    <3>2. j \in 2 .. Len(r) /\ k \in 2 .. Len(r)
      BY <1>1, <3>1
    <3>3. j - 1 = k - 1
      BY <1>2, <2>3, <3>2 DEF Nested
    <3>. QED
      BY <3>3
  <2>. QED
    BY <2>1, <2>2, <2>3 DEF Nested
<1>. QED
  BY <1>3, <1>4

LEMMA PopNested ==
  ASSUME NEW s \in Seq(Frame), s # <<>>, Nested(s)
  PROVE  /\ Nested(Tail(s))
         /\ \A l : Writes(Tail(s), l) <=> Writes(s, l) /\ ~(s[1].at = "each" /\ l = s[1].logger)
<1>. DEFINE r == Tail(s)
<1>1. /\ Len(r) \in Nat /\ Len(s) = Len(r) + 1
      /\ \A j \in 1 .. Len(r) : s[j + 1] = r[j]
  BY PopStack, LenProperties DEF Pushed
<1>. HIDE DEF r
<1>2. \A j \in 1 .. Len(r) : j + 1 \in 2 .. Len(s) /\ r[j] = s[j + 1]
  BY <1>1
<1>3. Nested(r)
  <2>1. \A j \in 2 .. Len(r) : r[j].at = "each" \/ (r[j].at = "test" /\ j = Len(r))
    BY <1>1, <1>2 DEF Nested
  <2>2. ASSUME NEW j \in 2 .. Len(r), r[j].at = "each"
        PROVE  r[j - 1].logger = Root /\ (r[j].logger = Root => r[j - 1].level = Error)
    <3>1. r[j - 1] = s[j] /\ r[j] = s[j + 1] /\ j + 1 \in 2 .. Len(s) /\ (j + 1) - 1 = j
      <4>1. j - 1 \in 1 .. Len(r) /\ (j - 1) + 1 = j
        BY <1>1
      <4>. QED
        BY <1>1, <1>2, <4>1
    <3>. QED
      BY <2>2, <3>1 DEF Nested
  <2>3. ASSUME NEW j \in 1 .. Len(r), NEW k \in 1 .. Len(r),
               r[j].at = "each", r[k].at = "each", r[j].logger = r[k].logger
        PROVE  j = k
    <3>0. j + 1 \in 1 .. Len(s) /\ k + 1 \in 1 .. Len(s) /\ r[j] = s[j + 1] /\ r[k] = s[k + 1]
      BY <1>1, <1>2
    <3>1. j + 1 = k + 1
      BY <2>3, <3>0 DEF Nested
    <3>. QED
      BY <3>1
  <2>. QED
    BY <2>1, <2>2, <2>3 DEF Nested
<1>4. ASSUME NEW l, Writes(r, l)
      PROVE  Writes(s, l) /\ ~(s[1].at = "each" /\ l = s[1].logger)
  <2>1. PICK j \in 1 .. Len(r) : s[j + 1].at = "each" /\ s[j + 1].logger = l
    BY <1>2, <1>4 DEF Writes
  <2>. QED
    BY <1>1, <1>2, <2>1 DEF Nested, Writes
<1>5. ASSUME NEW l, Writes(s, l), ~(s[1].at = "each" /\ l = s[1].logger)
      PROVE  Writes(r, l)
  <2>1. PICK j \in 1 .. Len(s) : s[j].at = "each" /\ s[j].logger = l
    BY <1>5 DEF Writes
  <2>2. j # 1
    BY <1>5, <2>1
  <2>3. j - 1 \in 1 .. Len(r) /\ (j - 1) + 1 = j
    BY <1>1, <2>2
  <2>. QED
    BY <1>2, <2>1, <2>3 DEF Writes
<1>. QED
  BY <1>3, <1>4, <1>5 DEF r

-----------------------------------------------------------------------------
(* Locking, one action at a time.                                          *)

\* A call of thread t moves; the locks that change are its own.
LEMMA CallMoves ==
  ASSUME Locking, UNCHANGED outputters,
         NEW t \in Threads, NEW r \in Seq(Frame), stack' = [stack EXCEPT ![t] = r], Nested(r),
         owner' \in [Loggers -> Threads \cup {Nobody}],
         \A l \in Loggers : owner'[l] = t <=> Writes(r, l),
         \A l \in Loggers : owner'[l] = owner[l] \/ (owner[l] \in {t, Nobody} /\ owner'[l] \in {t, Nobody}),
         \A j \in 2 .. Len(r) : r[j].at = "each" /\ r[j].logger = Root => Reopens
  PROVE  Locking'
<1>1. \A u \in Threads : stack'[u] = IF u = t THEN r ELSE stack[u]
  BY DEF Locking
<1>2. stack' \in [Threads -> Seq(Frame)]
  BY DEF Locking
<1>3. \A u \in Threads : Nested(stack'[u])
  BY <1>1 DEF Locking
<1>4. ASSUME NEW u \in Threads, NEW l \in Loggers
      PROVE  owner'[l] = u <=> Writes(stack'[u], l)
  <2>1. CASE u = t
    BY <1>1, <2>1
  <2>2. CASE u # t
    <3>1. owner'[l] = u <=> owner[l] = u
      BY <2>2, LoggingAssumption
    <3>. QED
      BY <1>1, <2>2, <3>1 DEF Locking
  <2>. QED
    BY <2>1, <2>2
<1>5. Reopens' = Reopens
  BY DEF Reopens
<1>6. \A u \in Threads : \A j \in 2 .. Len(stack'[u]) :
        stack'[u][j].at = "each" /\ stack'[u][j].logger = Root => Reopens'
  BY <1>1, <1>5 DEF Locking
<1>. QED
  BY <1>2, <1>3, <1>4, <1>6 DEF Locking

\* No call moves, and the list of a logger whose lock is held stays.
LEMMA ListMoves ==
  ASSUME Locking, UNCHANGED <<stack, owner>>,
         \A l \in Loggers : ~Free(l) => outputters'[l] = outputters[l]
  PROVE  Locking'
<1>1. ASSUME NEW t \in Threads, NEW j \in 2 .. Len(stack[t]),
             stack[t][j].at = "each", stack[t][j].logger = Root
      PROVE  Reopens'
  <2>1. Len(stack[t]) \in Nat
    BY DEF Locking
  <2>2. Writes(stack[t], Root)
    BY <1>1, <2>1 DEF Writes
  <2>3. ~Free(Root)
    BY <2>2, LoggingAssumption DEF Locking, Free
  <2>4. Reopens
    BY <1>1 DEF Locking
  <2>. QED
    BY <2>3, <2>4, LoggingAssumption DEF Reopens
<1>. QED
  BY <1>1 DEF Locking

LEMMA CalledStack ==
  ASSUME NEW l \in Loggers, NEW lv \in Levels, NEW s \in Seq(Frame)
  PROVE  \/ Called(l, lv, s) = s
         \/ \E g \in Frame : /\ Pushed(Called(l, lv, s), s, g)
                             /\ g.logger = l /\ g.level = lv /\ g.at = "test"
<1>. DEFINE g == [logger |-> l, level |-> lv, at |-> "test", i |-> 1]
            r == Called(l, lv, s)
<1>1. g \in Frame /\ g.logger = l /\ g.level = lv /\ g.at = "test"
  BY DEF Frame
<1>2. r = s \/ r = <<g>> \o s
  BY DEF Called
<1>. HIDE DEF g, r
<1>3. r = s \/ Pushed(r, s, g)
  BY <1>1, <1>2, PushStack
<1>4. CASE r = s
  BY <1>4 DEF r
<1>5. CASE Pushed(r, s, g)
  <2>1. \E h \in Frame : Pushed(r, s, h) /\ h.logger = l /\ h.level = lv /\ h.at = "test"
    BY <1>1, <1>5
  <2>. QED
    BY <2>1 DEF r
<1>. QED
  BY <1>3, <1>4, <1>5

\* What a thread that was in no call has made.
Reports(r) == r \in Seq(Frame) /\ Len(r) <= 2 /\ \A j \in 1 .. Len(r) : r[j].at = "test"

LEMMA ReportMoves ==
  ASSUME Locking, UNCHANGED <<outputters, owner>>, NEW t \in Threads, stack[t] = <<>>,
         NEW r, Reports(r), stack' = [stack EXCEPT ![t] = r]
  PROVE  Locking'
<1>1. r \in Seq(Frame) /\ Len(r) \in 0 .. 2 /\ \A j \in 1 .. Len(r) : r[j].at = "test"
  <2>1. r \in Seq(Frame) /\ Len(r) <= 2 /\ \A j \in 1 .. Len(r) : r[j].at = "test"
    BY DEF Reports
  <2>2. Len(r) \in Nat
    BY <2>1
  <2>3. Len(r) \in 0 .. 2
    <3>. SUFFICES ASSUME NEW n \in Nat, n <= 2 PROVE n \in 0 .. 2
      BY <2>1, <2>2
    <3>. QED
      OBVIOUS
  <2>. QED
    BY <2>1, <2>3
<1>2. Nested(r) /\ \A l : ~Writes(r, l)
  <2>1. \A j \in 1 .. Len(r) : r[j].at # "each" /\ r[j].at = "test"
    BY <1>1
  <2>2. \A l : ~Writes(r, l)
    BY <2>1 DEF Writes
  <2>3. ASSUME NEW j \in 2 .. Len(r) PROVE r[j].at = "test" /\ j = Len(r) /\ r[j].at # "each"
    BY <1>1, <2>1
  <2>4. Nested(r)
    BY <2>1, <2>3 DEF Nested
  <2>. QED
    BY <2>2, <2>4
<1>3. \A l : ~Writes(stack[t], l)
  BY DEF Writes
<1>4. \A l \in Loggers : owner'[l] = t <=> Writes(r, l)
  BY <1>2, <1>3 DEF Locking
<1>5. owner' \in [Loggers -> Threads \cup {Nobody}]
  BY DEF Locking
<1>6. \A j \in 2 .. Len(r) : r[j].at # "each"
  BY <1>1
<1>. QED
  BY <1>1, <1>2, <1>4, <1>5, <1>6, CallMoves

LEMMA NoReport ==
  ASSUME NEW s, s = <<>>
  PROVE  Reports(s) /\ Len(s) = 0
BY DEF Reports

LEMMA OneReport ==
  ASSUME NEW l \in Loggers, NEW lv \in Levels, NEW s, Reports(s), Len(s) <= 1
  PROVE  Reports(Called(l, lv, s)) /\ Len(Called(l, lv, s)) <= Len(s) + 1
<1>1. s \in Seq(Frame) /\ Len(s) \in Nat /\ \A j \in 1 .. Len(s) : s[j].at = "test"
  BY DEF Reports
<1>. DEFINE r == Called(l, lv, s)
<1>2. \/ r = s
      \/ \E g \in Frame : Pushed(r, s, g) /\ g.at = "test"
  BY <1>1, CalledStack
<1>. HIDE DEF r
<1>3. ASSUME NEW g \in Frame, Pushed(r, s, g), g.at = "test"
      PROVE  Reports(r) /\ Len(r) = Len(s) + 1
  <2>1. /\ r \in Seq(Frame) /\ Len(r) = Len(s) + 1 /\ r[1] = g
        /\ \A j \in 1 .. Len(s) : r[j + 1] = s[j]
    BY <1>3 DEF Pushed
  <2>2. \A j \in 1 .. Len(r) : r[j].at = "test"
    <3>. SUFFICES ASSUME NEW j \in 1 .. Len(r) PROVE r[j].at = "test"
      OBVIOUS
    <3>1. CASE j = 1
      BY <1>3, <2>1, <3>1
    <3>2. CASE j # 1
      <4>1. j - 1 \in 1 .. Len(s) /\ (j - 1) + 1 = j
        BY <1>1, <2>1, <3>2
      <4>. QED
        BY <1>1, <2>1, <4>1
    <3>. QED
      BY <3>1, <3>2
  <2>. QED
    BY <1>1, <2>1, <2>2 DEF Reports
<1>4. Reports(r) /\ Len(r) <= Len(s) + 1
  BY <1>1, <1>2, <1>3
<1>. QED
  BY <1>4 DEF r

-----------------------------------------------------------------------------
LEMMA InitLocking == Init => Locking
<1>. SUFFICES ASSUME Init PROVE Locking
  OBVIOUS
<1>1. stack \in [Threads -> Seq(Frame)] /\ \A t \in Threads : Len(stack[t]) = 0
  BY DEF Init
<1>2. owner \in [Loggers -> Threads \cup {Nobody}] /\ \A l \in Loggers : owner[l] = Nobody
  BY DEF Init
<1>. QED
  BY <1>1, <1>2, LoggingAssumption DEF Locking, Nested, Writes

\* The innermost call of a thread in log().
LEMMA TopCall ==
  ASSUME Locking, NEW t \in Threads, NEW label, At(t, label)
  PROVE  /\ stack[t] \in Seq(Frame) /\ stack[t] # <<>> /\ Nested(stack[t])
         /\ Top(t) = stack[t][1] /\ Top(t) \in Frame /\ Top(t).at = label
         /\ stack[t] \in Seq(Frame) /\ Len(stack[t]) \in Nat \ {0}
         /\ \A l \in Loggers : owner[l] = t <=> Writes(stack[t], l)
         /\ Top(t).logger \in Loggers /\ Top(t).level \in Levels /\ Top(t).i \in Nat \ {0}
<1>1. stack[t] \in Seq(Frame) /\ stack[t] # <<>> /\ Nested(stack[t])
  BY DEF Locking, At
<1>2. Top(t) = stack[t][1] /\ Top(t) \in Frame /\ Len(stack[t]) \in Nat \ {0}
  BY <1>1, PopStack DEF Top
<1>3. Top(t).logger \in Loggers /\ Top(t).level \in Levels /\ Top(t).i \in Nat \ {0}
  BY <1>2 DEF Frame
<1>. QED
  BY <1>1, <1>2, <1>3 DEF Locking, At

LEMMA TestLocking ==
  ASSUME Locking, UNCHANGED outputters, NEW t \in Threads, LogTest(t)
  PROVE  Locking'
<1>. DEFINE s == stack[t]
            top == Top(t)
<1>1. At(t, "test") /\ UNCHANGED owner
  BY DEF LogTest
<1>2. /\ s \in Seq(Frame) /\ s # <<>> /\ Nested(s) /\ Len(s) \in Nat \ {0}
      /\ top = s[1] /\ top \in Frame /\ top.at = "test"
      /\ \A l \in Loggers : owner[l] = t <=> Writes(s, l)
  BY <1>1, TopCall
<1>3. owner' \in [Loggers -> Threads \cup {Nobody}]
  BY <1>1 DEF Locking
<1>4. \A j \in 2 .. Len(s) : s[j].at = "each" /\ s[j].logger = Root => Reopens
  BY DEF Locking
<1>5. CASE stack' = [stack EXCEPT ![t][1].at = "lock"]
  <2>. DEFINE g == [top EXCEPT !.at = "lock"]
              r == [s EXCEPT ![1] = g]
  <2>1. g \in Frame /\ g.logger = top.logger /\ g.level = top.level /\ g.at = "lock"
    BY <1>2 DEF Frame
  <2>2. stack' = [stack EXCEPT ![t] = r]
    BY <1>2, <1>5
  <2>. HIDE DEF g
  <2>3. Tops(r, s, g)
    BY <1>2, <2>1, TopStack
  <2>. HIDE DEF r, s, top
  <2>4. Nested(r) /\ \A l : Writes(r, l) <=> Writes(s, l)
    BY <1>2, <2>1, <2>3, TopNested
  <2>5. r \in Seq(Frame) /\ \A j \in 2 .. Len(r) : r[j] = s[j] /\ j \in 2 .. Len(s)
    BY <2>3 DEF Tops
  <2>6. \A j \in 2 .. Len(r) : r[j].at = "each" /\ r[j].logger = Root => Reopens
    BY <1>4, <2>5
  <2>. QED
    BY <1>1, <1>2, <1>3, <2>2, <2>4, <2>5, <2>6, CallMoves
<1>6. CASE Returns(t)
  <2>. DEFINE r == Tail(s)
  <2>1. stack' = [stack EXCEPT ![t] = r]
    BY <1>6 DEF Returns
  <2>2. Nested(r) /\ r \in Seq(Frame) /\ Pushed(s, r, s[1])
    BY <1>2, PopStack, PopNested
  <2>3. \A l : Writes(r, l) <=> Writes(s, l)
    BY <1>2, PopNested
  <2>. HIDE DEF r, s, top
  <2>4. \A j \in 2 .. Len(r) : r[j] = s[j + 1] /\ j + 1 \in 2 .. Len(s)
    <3>1. Len(r) \in Nat
      BY <2>2
    <3>. QED
      BY <2>2, <3>1 DEF Pushed
  <2>5. \A j \in 2 .. Len(r) : r[j].at = "each" /\ r[j].logger = Root => Reopens
    BY <1>4, <2>4
  <2>. QED
    BY <1>1, <1>2, <1>3, <2>1, <2>2, <2>3, <2>5, CallMoves
<1>. QED
  BY <1>5, <1>6 DEF LogTest

LEMMA LockLocking ==
  ASSUME Locking, UNCHANGED outputters, NEW t \in Threads, LogLock(t)
  PROVE  Locking'
<1>. DEFINE s == stack[t]
            top == Top(t)
            g == [top EXCEPT !.at = "each"]
            r == [s EXCEPT ![1] = g]
<1>1. /\ At(t, "lock") /\ owner[top.logger] = Nobody
      /\ owner' = [owner EXCEPT ![top.logger] = t]
      /\ stack' = [stack EXCEPT ![t][1].at = "each"]
  BY DEF LogLock, Lock, Free
<1>2. /\ s \in Seq(Frame) /\ s # <<>> /\ Nested(s) /\ Len(s) \in Nat \ {0}
      /\ top = s[1] /\ top \in Frame /\ top.at = "lock" /\ top.logger \in Loggers
      /\ \A l \in Loggers : owner[l] = t <=> Writes(s, l)
  BY <1>1, TopCall
<1>3. g \in Frame /\ g.logger = top.logger /\ g.level = top.level /\ g.at = "each"
  BY <1>2 DEF Frame
<1>4. stack' = [stack EXCEPT ![t] = r]
  BY <1>1, <1>2
<1>. HIDE DEF g
<1>5. Tops(r, s, g)
  BY <1>2, <1>3, TopStack
<1>6. ~Writes(s, g.logger)
  BY <1>1, <1>2, <1>3, LoggingAssumption
<1>7. \A l \in Loggers : owner'[l] = IF l = top.logger THEN t ELSE owner[l]
  BY <1>1, <1>2 DEF Locking
<1>8. \A j \in 2 .. Len(s) : s[j].at = "each" /\ s[j].logger = Root => Reopens
  BY DEF Locking
<1>. HIDE DEF r, s, top
<1>9. Nested(r) /\ \A l : Writes(r, l) <=> Writes(s, l) \/ l = g.logger
  BY <1>2, <1>3, <1>5, <1>6, TopNested
<1>10. r \in Seq(Frame) /\ \A j \in 2 .. Len(r) : r[j] = s[j] /\ j \in 2 .. Len(s)
  BY <1>5 DEF Tops
<1>11. \A l \in Loggers : owner'[l] = t <=> Writes(r, l)
  BY <1>2, <1>3, <1>7, <1>9
<1>12. \A j \in 2 .. Len(r) : r[j].at = "each" /\ r[j].logger = Root => Reopens
  BY <1>8, <1>10
<1>13. Nested(r) /\ r \in Seq(Frame)
  BY <1>9, <1>10
<1>14. owner' \in [Loggers -> Threads \cup {Nobody}]
  BY <1>1 DEF Locking
<1>15. \A l \in Loggers :
         owner'[l] = owner[l] \/ (owner[l] \in {t, Nobody} /\ owner'[l] \in {t, Nobody})
  BY <1>1, <1>7
<1>. QED
  BY <1>4, <1>11, <1>12, <1>13, <1>14, <1>15, CallMoves

\* The innermost call goes on to its next outputter, and may call the root logger.
LEMMA EachLocking ==
  ASSUME Locking, UNCHANGED <<outputters, owner>>, NEW t \in Threads, At(t, "each"),
         NEW r, NEW g, Tops(r, stack[t], g),
         g \in Frame, g.logger = Top(t).logger, g.level = Top(t).level, g.at = "each",
         NEW q, q = r \/ \E h : /\ Pushed(q, r, h) /\ h \in Frame /\ h.at = "test" /\ h.logger = Root
                                /\ g.logger = Root => h.level = Error /\ Reopens,
         stack' = [stack EXCEPT ![t] = q]
  PROVE  Locking'
<1>. DEFINE s == stack[t]
            top == Top(t)
<1>1. /\ s \in Seq(Frame) /\ s # <<>> /\ Nested(s) /\ Len(s) \in Nat \ {0}
      /\ top = s[1] /\ top \in Frame /\ top.at = "each" /\ top.logger \in Loggers
      /\ \A l \in Loggers : owner[l] = t <=> Writes(s, l)
  BY TopCall
<1>2. \A j \in 2 .. Len(s) : s[j].at = "each" /\ s[j].logger = Root => Reopens
  BY DEF Locking
<1>3. owner' \in [Loggers -> Threads \cup {Nobody}]
  BY DEF Locking
<1>4. Tops(r, s, g) /\ g.logger = top.logger /\ g.level = top.level
  OBVIOUS
<1>. HIDE DEF s, top
<1>5. Nested(r) /\ \A l : Writes(r, l) <=> Writes(s, l)
  BY <1>1, <1>4, TopNested
<1>6. /\ r \in Seq(Frame) /\ \A j \in 2 .. Len(r) : r[j] = s[j] /\ j \in 2 .. Len(s)
      /\ r[1] = g /\ Len(r) \in Nat \ {0} /\ r # <<>>
  BY <1>1, <1>4 DEF Tops
<1>7. \A j \in 2 .. Len(r) : r[j].at = "each" /\ r[j].logger = Root => Reopens
  BY <1>2, <1>6
<1>8. CASE q = r
  <2>1. stack' = [stack EXCEPT ![t] = r] /\ UNCHANGED <<outputters, owner>>
    BY <1>8
  <2>2. \A l \in Loggers : owner'[l] = t <=> Writes(r, l)
    BY <1>1, <1>5
  <2>3. \A l \in Loggers : owner'[l] = owner[l]
    OBVIOUS
  <2>. QED
    BY <1>3, <1>5, <1>6, <1>7, <2>1, <2>2, <2>3, CallMoves
<1>9. ASSUME NEW h, Pushed(q, r, h), h \in Frame, h.at = "test", h.logger = Root,
             g.logger = Root => h.level = Error /\ Reopens
      PROVE  Locking'
  <2>1. Nested(q) /\ \A l : Writes(q, l) <=> Writes(r, l)
    BY <1>5, <1>6, <1>9, PushNested
  <2>2. q \in Seq(Frame) /\ Len(q) = Len(r) + 1 /\ \A j \in 2 .. Len(q) : q[j] = r[j - 1]
    <3>1. \A j \in 2 .. Len(q) : j - 1 \in 1 .. Len(r) /\ (j - 1) + 1 = j
      BY <1>6, <1>9 DEF Pushed
    <3>. QED
      BY <1>9, <3>1 DEF Pushed
  <2>3. ASSUME NEW j \in 2 .. Len(q), q[j].at = "each", q[j].logger = Root
        PROVE  Reopens
    <3>1. CASE j = 2
      BY <1>6, <1>9, <2>2, <2>3, <3>1
    <3>2. CASE j # 2
      <4>1. j - 1 \in 2 .. Len(r)
        BY <1>6, <2>2, <3>2
      <4>. QED
        BY <1>7, <2>2, <2>3, <4>1
    <3>. QED
      BY <3>1, <3>2
  <2>4. \A l \in Loggers : (owner'[l] = t <=> Writes(q, l)) /\ owner'[l] = owner[l]
    BY <1>1, <1>5, <2>1
  <2>. QED
    BY <1>3, <2>1, <2>2, <2>3, <2>4, CallMoves
<1>. QED
  BY <1>8, <1>9

LEMMA OutputsLocking ==
  ASSUME Listing, Locking, UNCHANGED <<outputters, owner>>, NEW t \in Threads, Outputs(t)
  PROVE  Locking'
<1>. DEFINE s == stack[t]
            top == Top(t)
            g == [top EXCEPT !.i = @ + 1]
            r == <<g>> \o Tail(s)
            type == outputters[top.logger][top.i].type
<1>1. At(t, "each") /\ top.i <= Len(outputters[top.logger])
  BY DEF Outputs
<1>2. /\ s \in Seq(Frame) /\ s # <<>> /\ top \in Frame /\ top.at = "each"
      /\ top.logger \in Loggers /\ top.i \in Nat \ {0}
  BY <1>1, TopCall
<1>3. g \in Frame /\ g.logger = top.logger /\ g.level = top.level /\ g.at = "each"
  BY <1>2 DEF Frame
<1>4. PICK q : q \in reopen(type, r) /\ stack' = [stack EXCEPT ![t] = q]
  BY DEF Outputs
<1>. HIDE DEF g
<1>5. Tops(r, s, g) /\ r \in Seq(Frame)
  BY <1>2, <1>3, TopStack
<1>. HIDE DEF r
<1>6. q = r \/ (type = "FileLogOutputter" /\ q = Called(Root, Error, r))
  BY <1>4 DEF reopen
<1>7. Root \in Loggers /\ Error \in Levels
  BY LoggingAssumption DEF Levels
<1>8. Called(Root, Error, r) = r
      \/ \E h \in Frame : /\ Pushed(Called(Root, Error, r), r, h)
                          /\ h.logger = Root /\ h.level = Error /\ h.at = "test"
  BY <1>5, <1>7, CalledStack
<1>9. type = "FileLogOutputter" /\ g.logger = Root => Reopens
  <2>1. PICK S : outputters[top.logger] \in Seq(S)
    BY <1>2 DEF Listing, IsList
  <2>2. top.i \in DOMAIN outputters[top.logger]
    BY <1>1, <1>2, <2>1
  <2>. QED
    BY <1>3, <2>2 DEF Reopens
<1>. HIDE DEF type
<1>10. q = r \/ \E h : /\ Pushed(q, r, h) /\ h \in Frame /\ h.at = "test" /\ h.logger = Root
                       /\ g.logger = Root => h.level = Error /\ Reopens
  BY <1>6, <1>8, <1>9
<1>11. stack' = [stack EXCEPT ![t] = q]
  BY <1>4
<1>. QED
  BY <1>1, <1>3, <1>5, <1>10, <1>11, EachLocking

LEMMA FallsBackLocking ==
  ASSUME Locking, UNCHANGED <<outputters, owner>>, NEW t \in Threads, FallsBack(t)
  PROVE  Locking'
<1>. DEFINE s == stack[t]
            top == Top(t)
            g == [top EXCEPT !.i = @ + 1]
            r == <<g>> \o Tail(s)
            h == [logger |-> Root, level |-> top.level, at |-> "test", i |-> 1]
<1>1. At(t, "each")
  BY DEF FallsBack
<1>2. /\ s \in Seq(Frame) /\ s # <<>> /\ top \in Frame /\ top.at = "each"
      /\ top.logger \in Loggers /\ top.level \in Levels /\ top.i \in Nat \ {0}
  BY <1>1, TopCall
<1>3. g \in Frame /\ g.logger = top.logger /\ g.level = top.level /\ g.at = "each"
  BY <1>2 DEF Frame
<1>4. h \in Frame /\ h.at = "test" /\ h.logger = Root
  BY <1>2, LoggingAssumption DEF Frame
<1>5. \/ top.logger = Root /\ stack' = [stack EXCEPT ![t] = r]
      \/ top.logger # Root /\ stack' = [stack EXCEPT ![t] = <<h, g>> \o Tail(s)]
  BY LoggingAssumption DEF FallsBack, Parent
<1>. HIDE DEF g, h
<1>6. Tops(r, s, g) /\ r \in Seq(Frame)
  BY <1>2, <1>3, TopStack
<1>7. <<h, g>> \o Tail(s) = <<h>> \o r
  <2>1. <<h>> \in Seq(Frame) /\ <<g>> \in Seq(Frame) /\ Tail(s) \in Seq(Frame)
    BY <1>2, <1>3, <1>4, PopStack
  <2>2. <<h>> \o (<<g>> \o Tail(s)) = (<<h>> \o <<g>>) \o Tail(s)
    BY <2>1, ConcatAssociative
  <2>3. <<h>> \o <<g>> = <<h, g>>
    BY PairSeq
  <2>. QED
    BY <2>2, <2>3
<1>8. Pushed(<<h>> \o r, r, h)
  BY <1>4, <1>6, PushStack
<1>. DEFINE q == IF top.logger = Root THEN r ELSE <<h>> \o r
<1>9. stack' = [stack EXCEPT ![t] = q]
  BY <1>5, <1>7
<1>10. q = r \/ (top.logger # Root /\ Pushed(q, r, h))
  BY <1>8
<1>. HIDE DEF r, q
<1>11. q = r \/ \E k : /\ Pushed(q, r, k) /\ k \in Frame /\ k.at = "test" /\ k.logger = Root
                       /\ g.logger = Root => k.level = Error /\ Reopens
  BY <1>3, <1>4, <1>10
<1>. QED
  BY <1>1, <1>3, <1>6, <1>9, <1>11, EachLocking

LEMMA UnlockLocking ==
  ASSUME Locking, UNCHANGED outputters, NEW t \in Threads, LogUnlock(t)
  PROVE  Locking'
<1>. DEFINE s == stack[t]
            top == Top(t)
            r == Tail(s)
<1>1. /\ At(t, "each") /\ owner' = [owner EXCEPT ![top.logger] = Nobody]
      /\ stack' = [stack EXCEPT ![t] = r]
  BY DEF LogUnlock, Unlock, Returns
<1>2. /\ s \in Seq(Frame) /\ s # <<>> /\ Nested(s) /\ Len(s) \in Nat \ {0}
      /\ top = s[1] /\ top.at = "each" /\ top.logger \in Loggers
      /\ \A l \in Loggers : owner[l] = t <=> Writes(s, l)
  BY <1>1, TopCall
<1>3. Nested(r) /\ r \in Seq(Frame) /\ Pushed(s, r, s[1]) /\ Len(r) \in Nat
  BY <1>2, PopStack, PopNested
<1>4. \A l : Writes(r, l) <=> Writes(s, l) /\ l # top.logger
  BY <1>2, PopNested
<1>5. \A j \in 2 .. Len(s) : s[j].at = "each" /\ s[j].logger = Root => Reopens
  BY DEF Locking
<1>6. owner[top.logger] = t
  <2>1. Writes(s, top.logger)
    BY <1>2 DEF Writes
  <2>. QED
    BY <1>2, <2>1
<1>7. /\ owner' \in [Loggers -> Threads \cup {Nobody}]
      /\ \A l \in Loggers : owner'[l] = IF l = top.logger THEN Nobody ELSE owner[l]
  BY <1>1 DEF Locking
<1>. HIDE DEF r, s, top
<1>8. \A j \in 2 .. Len(r) : r[j] = s[j + 1] /\ j + 1 \in 2 .. Len(s)
  BY <1>3 DEF Pushed
<1>9. \A j \in 2 .. Len(r) : r[j].at = "each" /\ r[j].logger = Root => Reopens
  BY <1>5, <1>8
<1>10. \A l \in Loggers : owner'[l] = t <=> Writes(r, l)
  BY <1>2, <1>4, <1>7, LoggingAssumption
<1>11. \A l \in Loggers :
         owner'[l] = owner[l] \/ (owner[l] \in {t, Nobody} /\ owner'[l] \in {t, Nobody})
  BY <1>6, <1>7
<1>12. Nested(r) /\ r \in Seq(Frame) /\ stack' = [stack EXCEPT ![t] = r]
       /\ owner' \in [Loggers -> Threads \cup {Nobody}]
  BY <1>1, <1>3, <1>7
<1>. QED
  BY <1>9, <1>10, <1>11, <1>12, CallMoves

\* What a loader reports is one message, or two when it has found no node.
LEMMA LoadLocking ==
  ASSUME Listing, Locking, NEW t \in Loaders, LoadFromConfDir(t) \/ Load(t)
  PROVE  Locking'
<1>1. stack[t] = <<>> /\ t \in Threads /\ UNCHANGED owner
  BY DEF LoadFromConfDir, Compare, PassOver, Note, Load, LoadFails, LoadFromYaml, fromString,
     setValue, ClearLevel, clearOutputters, ClearDone, SetLevel, Build, Construct, UnknownType, addOutputter,
     LoggerDone, ReadUnlock, Assign, Listener, Step, Threads, loggers
<1>2. Root \in Loggers /\ System \in Loggers /\ Info \in Levels /\ Error \in Levels
  BY LoggingAssumption DEF Levels
<1>. DEFINE One(r) == r = stack[t] \/ \E l \in Loggers, lv \in Levels : r = Called(l, lv, stack[t])
<1>3. ASSUME NEW r, One(r) PROVE Reports(r) /\ Len(r) <= 1
  BY <1>1, <1>3, NoReport, OneReport
<1>4. ASSUME NEW r, One(r), UNCHANGED outputters, stack' = [stack EXCEPT ![t] = r]
      PROVE  Locking'
  BY <1>1, <1>3, <1>4, ReportMoves
<1>5. ASSUME NEW l \in Loggers, NEW lv \in Levels, UNCHANGED outputters, Calls(t, l, lv)
      PROVE  Locking'
  <2>1. stack' = [stack EXCEPT ![t] = Called(l, lv, stack[t])]
    BY <1>5 DEF Calls
  <2>. QED
    BY <1>4, <1>5, <2>1
<1>. HIDE DEF One
<1>6. CASE LoadFails(t) \/ fromString(t) \/ UnknownType(t) \/ Assign(t)
  <2>1. UNCHANGED outputters
    BY <1>6 DEF LoadFails, fromString, UnknownType, Build, Assign, loggers
  <2>2. Calls(t, System, Error) \/ Calls(t, System, Info) \/ Calls(t, Root, Info)
    BY <1>6 DEF LoadFails, fromString, UnknownType, Assign
  <2>. QED
    BY <1>2, <1>5, <2>1, <2>2
<1>7. CASE setValue(t)
  <2>1. UNCHANGED outputters
    BY <1>7 DEF setValue, loggers
  <2>2. Calls(t, System, Info) \/ Calls(t, Root, Info)
    BY <1>7 DEF setValue
  <2>. QED
    BY <1>2, <1>5, <2>1, <2>2
<1>8. CASE LoadFromYaml(t)
  <2>1. UNCHANGED outputters
    BY <1>8 DEF LoadFromYaml, loggers
  <2>2. PICK rest : /\ rest = stack[t] \/ rest = Called(System, Info, stack[t])
                    /\ \/ stack' = [stack EXCEPT ![t] = rest]
                       \/ stack' = [stack EXCEPT ![t] = Called(System, Error, rest)]
    BY <1>8 DEF LoadFromYaml
  <2>3. Reports(rest) /\ Len(rest) <= 1
    BY <1>2, <1>3, <2>2 DEF One
  <2>4. Reports(Called(System, Error, rest))
    BY <1>2, <2>3, OneReport
  <2>. QED
    BY <1>1, <2>1, <2>2, <2>3, <2>4, ReportMoves
<1>9. CASE Construct(t)
  <2>1. UNCHANGED outputters
    BY <1>9 DEF Construct, Build
  <2>2. PICK r : r \in reopen(Head(ops[t]).type, stack[t]) /\ stack' = [stack EXCEPT ![t] = r]
    BY <1>9 DEF Construct
  <2>3. r = stack[t] \/ r = Called(Root, Error, stack[t])
    BY <2>2 DEF reopen
  <2>. QED
    BY <1>2, <1>4, <2>1, <2>2, <2>3 DEF One
<1>10. CASE clearOutputters(t) \/ addOutputter(t)
  <2>1. UNCHANGED stack /\ Free(cur[t])
    BY <1>10 DEF clearOutputters, addOutputter
  <2>2. \A l \in Loggers : l # cur[t] => outputters'[l] = outputters[l]
    BY <1>10 DEF clearOutputters, addOutputter, Listing
  <2>. QED
    BY <1>1, <2>1, <2>2, ListMoves
<1>11. CASE \/ LoadFromConfDir(t) \/ PassOver(t) \/ Note(t) \/ ClearLevel(t) \/ ClearDone(t)
            \/ SetLevel(t) \/ LoggerDone(t) \/ ReadUnlock(t)
  <2>1. UNCHANGED <<stack, outputters>>
    BY <1>11 DEF LoadFromConfDir, PassOver, Note, Compare, ClearLevel, ClearDone, SetLevel, LoggerDone, ReadUnlock, loggers
  <2>. QED
    BY <1>1, <2>1, ListMoves
<1>. QED
  BY <1>6, <1>7, <1>8, <1>9, <1>10, <1>11 DEF Load

LEMMA LockingHolds == Spec => []Locking
<1>1. Listing /\ Locking /\ [Next]_vars => Locking'
  <2>. SUFFICES ASSUME Listing, Locking, [Next]_vars PROVE Locking'
    OBVIOUS
  <2>1. CASE Edit \/ UNCHANGED vars
    <3>1. UNCHANGED <<stack, owner, outputters>>
      BY <2>1 DEF Edit, vars, noted, loggers
    <3>. QED
      BY <3>1, ListMoves
  <2>2. ASSUME NEW t \in Threads, Log(t) PROVE Locking'
    <3>1. UNCHANGED outputters
      BY <2>2 DEF Log, LogTest, LogLock, Outputs, FallsBack, LogUnlock, Writing, loggers
    <3>2. (Outputs(t) \/ FallsBack(t)) => UNCHANGED <<outputters, owner>>
      BY <3>1 DEF Outputs, FallsBack
    <3>. QED
      BY <2>2, <3>1, <3>2, TestLocking, LockLocking, OutputsLocking, FallsBackLocking,
         UnlockLocking DEF Log
  <2>3. ASSUME NEW t \in Writers, LogCall(t) PROVE Locking'
    <3>1. PICK l \in Loggers : stack' = [stack EXCEPT ![t] = Called(l, Info, stack[t])]
      BY <2>3 DEF LogCall, Calls
    <3>2. stack[t] = <<>> /\ t \in Threads /\ UNCHANGED <<outputters, owner>> /\ Info \in Levels
      BY <2>3 DEF LogCall, loggers, Threads, Levels
    <3>3. Reports(Called(l, Info, stack[t]))
      BY <3>2, NoReport, OneReport
    <3>. QED
      BY <3>1, <3>2, <3>3, ReportMoves
  <2>4. ASSUME NEW t \in Writers, setFormatter(t) PROVE Locking'
    <3>1. PICK l \in Loggers : Free(l) /\ \A k \in Loggers : k # l => outputters'[k] = outputters[k]
      BY <2>4 DEF setFormatter, Listing
    <3>2. UNCHANGED <<stack, owner>>
      BY <2>4 DEF setFormatter
    <3>. QED
      BY <3>1, <3>2, ListMoves
  <2>. QED
    BY <2>1, <2>2, <2>3, <2>4, LoadLocking DEF Next
<1>. QED
  BY InitLocking, ListingHolds, <1>1, PTL DEF Spec

(***************************************************************************)
(* The spinlocks cannot be waited for in a circle of several threads.      *)
(* While log() holds the lock of a logger (Logger.cpp:99-117), it asks for *)
(* no lock but the root's, and while it holds that one, for none, unless   *)
(* a file outputter of the root logger fails and says so: then the thread  *)
(* waits for itself.                                                       *)
(***************************************************************************)
THEOREM LoggingLockOrder == Spec => []LockOrder
<1>1. Locking => LockOrder
  <2>. SUFFICES ASSUME Locking, NEW t \in Threads, At(t, "lock"),
                       NEW l \in Loggers, owner[l] = t
                PROVE  /\ Top(t).logger = Root
                       /\ owner[Root] = t => ReportsToItself(t)
    BY DEF LockOrder
  <2>. DEFINE s == stack[t]
  <2>1. /\ Nested(s) /\ Len(s) \in Nat \ {0} /\ s[1].at = "lock" /\ Top(t) = s[1]
        /\ \A k \in Loggers : owner[k] = t <=> Writes(s, k)
    BY TopCall
  <2>2. \A j \in 2 .. Len(s) : s[j].at = "each" /\ s[j].logger = Root => Reopens
    BY DEF Locking
  <2>. HIDE DEF s
  <2>3. PICK j \in 1 .. Len(s) : s[j].at = "each" /\ s[j].logger = l
    BY <2>1 DEF Writes
  <2>4. j # 1 /\ 2 \in 2 .. Len(s)
    BY <2>1, <2>3
  <2>5. s[2].at = "each"
    BY <2>1, <2>3, <2>4 DEF Nested
  <2>6. s[1].logger = Root
    BY <2>1, <2>4, <2>5 DEF Nested
  <2>7. ASSUME owner[Root] = t PROVE ReportsToItself(t)
    <3>1. PICK k \in 1 .. Len(s) : s[k].at = "each" /\ s[k].logger = Root
      BY <2>1, <2>7, LoggingAssumption DEF Writes
    <3>2. k \in 2 .. Len(s)
      BY <2>1, <3>1
    <3>3. k = 2
      <4>1. SUFFICES ASSUME k # 2 PROVE FALSE
        OBVIOUS
      <4>2. k - 1 \in 2 .. Len(s) /\ k - 1 # Len(s)
        BY <2>1, <3>2, <4>1
      <4>3. s[k - 1].logger = Root /\ s[k - 1].at = "each"
        BY <2>1, <3>1, <3>2, <4>2 DEF Nested
      <4>4. k - 1 = k
        BY <2>1, <3>1, <3>2, <4>2, <4>3 DEF Nested
      <4>. QED
        BY <2>1, <4>4
    <3>4. s[1].level = Error
      BY <2>1, <3>1, <3>2, <3>3 DEF Nested
    <3>5. Reopens
      BY <2>2, <3>1, <3>2
    <3>. QED
      BY <2>1, <2>6, <2>7, <3>4, <3>5 DEF ReportsToItself, Reopens
  <2>. QED
    BY <2>1, <2>6, <2>7
<1>. QED
  BY <1>1, LockingHolds, PTL
-----------------------------------------------------------------------------
(* What a loop over a list pushes back.                                    *)

LEMMA LeastPosition ==
  ASSUME NEW T \in SUBSET Nat, T # {}
  PROVE  \E x \in T : \A y \in T : x <= y
<1>. DEFINE U == {0 .. x : x \in T}
            R == StrictSubsetOrdering(Nat)
<1>1. U \subseteq FiniteSubsetsOf(Nat) /\ U # {}
  <2>1. ASSUME NEW x \in T PROVE 0 .. x \in FiniteSubsetsOf(Nat)
    <3>1. IsFiniteSet(0 .. x) /\ 0 .. x \subseteq Nat
      BY FS_Interval
    <3>. QED
      BY <3>1 DEF FiniteSubsetsOf
  <2>. QED
    BY <2>1
<1>2. IsWellFoundedOn(R, FiniteSubsetsOf(Nat))
  BY FS_StrictSubsetOrderingWellFounded
<1>3. PICK u \in U : \A v \in U : ~(<<v, u>> \in R)
  <2>. HIDE DEF U, R
  <2>. QED
    BY <1>1, <1>2, WFMin
<1>4. PICK x \in T : u = 0 .. x
  OBVIOUS
<1>5. ASSUME NEW y \in T, y < x PROVE FALSE
  <2>1. 0 .. y \in U /\ 0 .. y \subseteq 0 .. x /\ x \in 0 .. x /\ x \notin 0 .. y
    BY <1>5
  <2>2. <<0 .. y, 0 .. x>> \in R
    BY <2>1 DEF StrictSubsetOrdering
  <2>. QED
    BY <1>3, <1>4, <2>1, <2>2
<1>. QED
  BY <1>5

\* The list after a round, from the list before it.
Round(s, keep, before, n) == IF n \in keep THEN Append(before, s[n]) ELSE before

\* g is the list after each of the first m rounds.
Rounds(S, s, keep, g, m) ==
  g \in [0 .. m -> Seq(S)] /\ g[0] = <<>> /\ \A n \in 1 .. m : g[n] = Round(s, keep, g[n - 1], n)

\* The recursion of KeptUpTo has a solution: otherwise there would be a least
\* number of rounds that cannot be made.
LEMMA RoundsExist ==
  ASSUME NEW s, Len(s) \in Nat, NEW keep, NEW S,
         \A n \in 1 .. Len(s) : n \in keep => s[n] \in S,
         NEW m \in 0 .. Len(s)
  PROVE  \E g : Rounds(S, s, keep, g, m)
<1>. DEFINE N == Len(s)
            Bad == {k \in 0 .. N : ~\E g : Rounds(S, s, keep, g, k)}
<1>. SUFFICES Bad = {}
  OBVIOUS
<1>. SUFFICES ASSUME Bad # {} PROVE FALSE
  OBVIOUS
<1>1. PICK x \in Bad : \A y \in Bad : x <= y
  <2>1. Bad \in SUBSET Nat
    OBVIOUS
  <2>. HIDE DEF Bad
  <2>. QED
    BY <2>1, LeastPosition
<1>2. x \in 0 .. N /\ N \in Nat
  OBVIOUS
<1>3. CASE x = 0
  <2>. DEFINE g == [n \in 0 .. 0 |-> <<>>]
  <2>1. g \in [0 .. 0 -> Seq(S)] /\ g[0] = <<>> /\ 1 .. 0 = {}
    <3>1. <<>> \in Seq(S) /\ 0 \in 0 .. 0
      OBVIOUS
    <3>. QED
      BY <3>1
  <2>2. Rounds(S, s, keep, g, 0)
    BY <2>1 DEF Rounds
  <2>. QED
    BY <1>3, <2>2
<1>4. CASE x # 0
  <2>1. x - 1 \in 0 .. N /\ x - 1 \notin Bad
    BY <1>1, <1>2, <1>4
  <2>2. PICK g : Rounds(S, s, keep, g, x - 1)
    BY <2>1
  <2>. DEFINE h == [n \in 0 .. x |-> IF n < x THEN g[n] ELSE Round(s, keep, g[x - 1], x)]
  <2>3. /\ x - 1 \in Nat /\ 0 \in 0 .. x - 1 /\ x \in 1 .. N
        /\ \A n \in 0 .. x : n \in 0 .. x - 1 \/ n = x
    BY <1>2, <1>4
  <2>4. g \in [0 .. x - 1 -> Seq(S)] /\ g[0] = <<>>
        /\ \A n \in 1 .. x - 1 : g[n] = Round(s, keep, g[n - 1], n)
    BY <2>2 DEF Rounds
  <2>5. Round(s, keep, g[x - 1], x) \in Seq(S)
    <3>1. g[x - 1] \in Seq(S)
      BY <2>3, <2>4
    <3>2. x \in keep => s[x] \in S
      BY <2>3
    <3>. QED
      BY <3>1, <3>2 DEF Round
  <2>6. h \in [0 .. x -> Seq(S)]
    <3>1. ASSUME NEW n \in 0 .. x PROVE h[n] \in Seq(S)
      <4>1. CASE n < x
        <5>1. n \in 0 .. x - 1
          BY <1>2, <4>1
        <5>. QED
          BY <2>4, <4>1, <5>1
      <4>2. CASE ~(n < x)
        BY <2>5, <4>2
      <4>. QED
        BY <4>1, <4>2
    <3>. QED
      BY <3>1
  <2>7. h[0] = <<>>
    BY <1>2, <1>4, <2>3, <2>4
  <2>8. ASSUME NEW n \in 1 .. x PROVE h[n] = Round(s, keep, h[n - 1], n)
    <3>1. n - 1 \in 0 .. x /\ n - 1 < x /\ n \in 0 .. x
      BY <1>2
    <3>2. h[n - 1] = g[n - 1]
      BY <3>1
    <3>3. CASE n < x
      <4>1. n \in 1 .. x - 1 /\ h[n] = g[n]
        BY <1>2, <3>1, <3>3
      <4>. QED
        BY <2>4, <3>2, <4>1
    <3>4. CASE ~(n < x)
      <4>1. n = x /\ h[n] = Round(s, keep, g[x - 1], x)
        BY <1>2, <3>1, <3>4
      <4>. QED
        BY <3>2, <4>1
    <3>. QED
      BY <3>3, <3>4
  <2>. HIDE DEF h
  <2>9. Rounds(S, s, keep, h, x)
    BY <2>6, <2>7, <2>8 DEF Rounds
  <2>. QED
    BY <2>9
<1>. QED
  BY <1>3, <1>4

LEMMA KeptRounds ==
  ASSUME NEW s, Len(s) \in Nat, NEW keep, NEW S,
         \A n \in 1 .. Len(s) : n \in keep => s[n] \in S
  PROVE  Rounds(S, s, keep, KeptUpTo(s, keep), Len(s))
<1>. DEFINE N == Len(s)
            body(g) == [n \in 0 .. N |->
                          IF n = 0 THEN <<>>
                          ELSE IF n \in keep THEN Append(g[n - 1], s[n]) ELSE g[n - 1]]
            f == KeptUpTo(s, keep)
<1>0. N \in 0 .. Len(s)
  OBVIOUS
<1>1. PICK g : Rounds(S, s, keep, g, N)
  <2>. HIDE DEF N
  <2>1. \E g : Rounds(S, s, keep, g, N)
    BY <1>0, RoundsExist
  <2>. QED
    BY <2>1
<1>2. g \in [0 .. N -> Seq(S)] /\ g[0] = <<>>
      /\ \A n \in 1 .. N : g[n] = IF n \in keep THEN Append(g[n - 1], s[n]) ELSE g[n - 1]
  BY <1>1 DEF Rounds, Round
<1>3. g = body(g)
  <2>1. \A n \in 0 .. N : n # 0 => n \in 1 .. N
    OBVIOUS
  <2>2. \A n \in 0 .. N : g[n] = body(g)[n]
    BY <1>2, <2>1
  <2>. QED
    BY <1>2, <2>2
<1>4. f = CHOOSE h : h = body(h)
  BY DEF KeptUpTo
<1>5. f = body(f)
  <2>. HIDE DEF body, f
  <2>. QED
    BY <1>3, <1>4
<1>6. DOMAIN f = 0 .. N /\ f[0] = <<>>
      /\ \A n \in 1 .. N : f[n] = IF n \in keep THEN Append(f[n - 1], s[n]) ELSE f[n - 1]
  <2>. HIDE DEF f
  <2>1. DOMAIN f = 0 .. N
    BY <1>5
  <2>2. \A n \in 0 .. N : f[n] = IF n = 0 THEN <<>>
                                 ELSE IF n \in keep THEN Append(f[n - 1], s[n]) ELSE f[n - 1]
    BY <1>5
  <2>3. 0 \in 0 .. N /\ \A n \in 1 .. N : n \in 0 .. N /\ n # 0
    OBVIOUS
  <2>. QED
    BY <2>1, <2>2, <2>3
<1>. HIDE DEF f
<1>7. ASSUME NEW n \in 0 .. N PROVE f[n] = g[n]
  <2>. DEFINE Diff == {k \in 0 .. N : f[k] # g[k]}
  <2>. SUFFICES ASSUME Diff # {} PROVE FALSE
    OBVIOUS
  <2>1. PICK x \in Diff : \A y \in Diff : x <= y
    <3>1. Diff \in SUBSET Nat
      OBVIOUS
    <3>. HIDE DEF Diff
    <3>. QED
      BY <3>1, LeastPosition
  <2>2. x \in 1 .. N
    BY <1>2, <1>6
  <2>3. x - 1 \in 0 .. N /\ x - 1 \notin Diff
    BY <2>1, <2>2
  <2>4. f[x - 1] = g[x - 1]
    BY <2>3
  <2>5. f[x] = g[x]
    BY <1>2, <1>6, <2>2, <2>4
  <2>. QED
    BY <2>5
<1>8. f = [n \in 0 .. N |-> f[n]]
  <2>. HIDE DEF N
  <2>1. f = body(f)
    BY <1>5
  <2>. QED
    BY <2>1
<1>9. f = g
  BY <1>2, <1>7, <1>8
<1>. QED
  BY <1>1, <1>9 DEF f

-----------------------------------------------------------------------------
(* What documents say, and what loggers list of it.                        *)

Nodes  == {doc[Logs] : doc \in {d \in Documents : Logs \in DOMAIN d}}
Values == {<<>>} \cup {Converted(node) : node \in Nodes}

\* Every outputter that is named somewhere, and the console of the root logger.
Named(node) == UNION {{node[l].outputters[i] : i \in DOMAIN node[l].outputters} : l \in Entries(node)}
Outputters  == {Plain(op) : op \in UNION {Named(node) : node \in Nodes}} \cup {Plain(Console(Default))}

LEMMA PlainTwice ==
  ASSUME NEW op \in Outputters
  PROVE  op = [type |-> op.type, own |-> op.own] /\ Plain(op) = op
<1>1. PICK x : op = Plain(x)
  BY DEF Outputters
<1>2. op = [type |-> x.type, own |-> x.own]
  BY <1>1 DEF Plain
<1>. QED
  BY <1>2 DEF Plain

LEMMA ValueLists ==
  ASSUME NEW v \in Values, NEW l \in DOMAIN v
  PROVE  v[l].outputters \in Seq(Outputters)
<1>1. PICK node \in Nodes : v = Converted(node)
  <2>1. v # <<>>
    <3>1. DOMAIN <<>> = {}
      OBVIOUS
    <3>. QED
      BY <3>1
  <2>. QED
    BY <2>1 DEF Values
<1>. DEFINE list == node[l].outputters
            keep == {i \in DOMAIN list : list[i] # Scalar}
<1>2. l \in Entries(node) /\ v[l] = [node[l] EXCEPT !.outputters = Kept(list, keep)]
  BY <1>1 DEF Converted
<1>3. /\ node[l] = [level |-> node[l].level, outputters |-> list]
      /\ list \in Seq({list[i] : i \in DOMAIN list})
      /\ \A i \in DOMAIN list : list[i] = Scalar \/ list[i] = [type |-> list[i].type, own |-> list[i].own]
  <2>1. PICK doc \in Documents : Logs \in DOMAIN doc /\ node = doc[Logs]
    BY DEF Nodes
  <2>2. IsEntry(node[l])
    BY <1>2, <2>1, DocumentsAssumption
  <2>. QED
    BY <2>2 DEF IsEntry
<1>4. v[l].outputters = Kept(list, keep)
  <2>. DEFINE new == Kept(list, keep)
              entry == node[l]
              level0 == node[l].level
  <2>1. entry = [level |-> level0, outputters |-> list] /\ v[l] = [entry EXCEPT !.outputters = new]
    BY <1>2, <1>3
  <2>. HIDE DEF new, entry, level0, list
  <2>2. v[l].outputters = new
    BY <2>1
  <2>. QED
    BY <2>2 DEF new
<1>5. Len(list) \in Nat /\ DOMAIN list = 1 .. Len(list)
  <2>. DEFINE S == {list[i] : i \in DOMAIN list}
  <2>1. list \in Seq(S)
    BY <1>3
  <2>. HIDE DEF list, S
  <2>. QED
    BY <2>1
<1>6. ASSUME NEW i \in 1 .. Len(list), i \in keep PROVE list[i] \in Outputters
  <2>1. list[i] = Plain(list[i])
    BY <1>3, <1>6 DEF Plain
  <2>2. list[i] \in Named(node)
    BY <1>2, <1>5 DEF Named
  <2>3. list[i] \in UNION {Named(other) : other \in Nodes}
    BY <2>2
  <2>. QED
    BY <2>1, <2>3 DEF Outputters
<1>. HIDE DEF list, keep
<1>7. Rounds(Outputters, list, keep, KeptUpTo(list, keep), Len(list))
  BY <1>5, <1>6, KeptRounds
<1>8. Kept(list, keep) \in Seq(Outputters)
  <2>1. Len(list) \in 0 .. Len(list)
    BY <1>5
  <2>. QED
    BY <1>7, <2>1 DEF Kept, Rounds
<1>. QED
  BY <1>4, <1>8

\* The outputters of a known type among the first n of a list.
FirstKnown(list, n) == KeptUpTo(list, KnownTypes(list))[n]

LEMMA KnownRounds ==
  ASSUME NEW list \in Seq(Outputters)
  PROVE  /\ FirstKnown(list, 0) = <<>>
         /\ \A n \in 0 .. Len(list) : FirstKnown(list, n) \in Seq(Outputters)
         /\ \A n \in 1 .. Len(list) :
              FirstKnown(list, n) = IF list[n].type \in {"FileLogOutputter", "StdoutOutputter"}
                                    THEN Append(FirstKnown(list, n - 1), list[n])
                                    ELSE FirstKnown(list, n - 1)
<1>. DEFINE keep == KnownTypes(list)
            f == KeptUpTo(list, keep)
            N == Len(list)
<1>1. N \in Nat /\ DOMAIN list = 1 .. N
  OBVIOUS
<1>2. \A n \in 1 .. N : n \in keep => list[n] \in Outputters
  OBVIOUS
<1>3. Rounds(Outputters, list, keep, f, N)
  <2>. HIDE DEF keep
  <2>. QED
    BY <1>1, <1>2, KeptRounds
<1>4. f \in [0 .. N -> Seq(Outputters)] /\ f[0] = <<>>
      /\ \A n \in 1 .. N : f[n] = IF n \in keep THEN Append(f[n - 1], list[n]) ELSE f[n - 1]
  <2>. HIDE DEF f, keep
  <2>. QED
    BY <1>3 DEF Rounds, Round
<1>5. \A n : FirstKnown(list, n) = f[n]
  BY DEF FirstKnown
<1>6. \A n \in 1 .. N : n \in keep <=> list[n].type \in {"FileLogOutputter", "StdoutOutputter"}
  BY <1>1 DEF KnownTypes
<1>. HIDE DEF f, keep
<1>7. FirstKnown(list, 0) = <<>>
  BY <1>4, <1>5
<1>8. \A n \in 0 .. N : FirstKnown(list, n) \in Seq(Outputters)
  BY <1>4, <1>5
<1>9. \A n \in 1 .. N :
        FirstKnown(list, n) = IF list[n].type \in {"FileLogOutputter", "StdoutOutputter"}
                              THEN Append(FirstKnown(list, n - 1), list[n])
                              ELSE FirstKnown(list, n - 1)
  BY <1>4, <1>5, <1>6
<1>. QED
  BY <1>7, <1>8, <1>9

LEMMA ListedIs ==
  ASSUME NEW v \in Values, NEW l
  PROVE  /\ Listed(v, l) \in Seq(Outputters)
         /\ l \notin DOMAIN v => Listed(v, l) = <<>>
         /\ l \in DOMAIN v => Listed(v, l) = FirstKnown(v[l].outputters, Len(v[l].outputters))
<1>1. CASE l \in DOMAIN v
  <2>. DEFINE list == v[l].outputters
  <2>1. list \in Seq(Outputters)
    BY <1>1, ValueLists
  <2>2. Listed(v, l) = FirstKnown(list, Len(list))
    BY <1>1 DEF Listed, Kept, FirstKnown
  <2>. HIDE DEF list
  <2>3. Len(list) \in 0 .. Len(list)
    BY <2>1
  <2>4. FirstKnown(list, Len(list)) \in Seq(Outputters)
    BY <2>1, <2>3, KnownRounds
  <2>. QED
    BY <1>1, <2>2, <2>4 DEF list
<1>2. CASE l \notin DOMAIN v
  BY <1>2 DEF Listed
<1>. QED
  BY <1>1, <1>2

LEMMA PlainsAppend ==
  ASSUME NEW s, IsList(s), NEW type, NEW own, NEW f
  PROVE  Plains(Append(s, [type |-> type, own |-> own, formatter |-> f]))
           = Append(Plains(s), [type |-> type, own |-> own])
<1>. DEFINE op == [type |-> type, own |-> own, formatter |-> f]
            r == Append(s, op)
            p == Plains(s)
            q == [type |-> type, own |-> own]
<1>1. PICK S : s \in Seq(S)
  BY DEF IsList
<1>2. Plain(op) = q
  BY DEF Plain
<1>. HIDE DEF op, q
<1>3. /\ Len(s) \in Nat /\ DOMAIN s = 1 .. Len(s) /\ DOMAIN r = 1 .. Len(s) + 1
      /\ r[Len(s) + 1] = op /\ \A i \in 1 .. Len(s) : r[i] = s[i]
  BY <1>1
<1>4. p = [i \in 1 .. Len(s) |-> Plain(s[i])]
  BY <1>3 DEF Plains
<1>5. p \in Seq({Plain(s[i]) : i \in 1 .. Len(s)}) /\ Len(p) = Len(s)
  <2>. DEFINE T == {Plain(s[i]) : i \in 1 .. Len(s)}
  <2>1. \A i \in 1 .. Len(s) : Plain(s[i]) \in T
    OBVIOUS
  <2>. HIDE DEF T
  <2>2. p \in [1 .. Len(s) -> T]
    BY <1>4, <2>1
  <2>3. p \in Seq(T) /\ Len(p) = Len(s)
    <3>. HIDE DEF p
    <3>. QED
      BY <1>3, <2>2
  <2>. QED
    BY <2>3 DEF T
<1>6. Append(p, q) = [i \in 1 .. Len(s) + 1 |-> IF i = Len(s) + 1 THEN q ELSE p[i]]
  <2>. DEFINE T == {Plain(s[i]) : i \in 1 .. Len(s)} \cup {q}
              a == Append(p, q)
  <2>1. p \in Seq(T) /\ q \in T
    BY <1>5, SeqMonotonic
  <2>. HIDE DEF p, T
  <2>2. /\ a \in Seq(T) /\ Len(a) = Len(s) + 1
        /\ \A i \in 1 .. Len(s) + 1 : a[i] = IF i = Len(s) + 1 THEN q ELSE p[i]
    BY <1>3, <1>5, <2>1
  <2>. HIDE DEF a
  <2>3. a = [i \in 1 .. Len(s) + 1 |-> a[i]]
    BY <2>2
  <2>. QED
    BY <2>2, <2>3 DEF a
<1>7. Plains(r) = [i \in 1 .. Len(s) + 1 |-> Plain(r[i])]
  BY <1>3 DEF Plains
<1>8. ASSUME NEW i \in 1 .. Len(s) + 1
      PROVE  Plain(r[i]) = IF i = Len(s) + 1 THEN q ELSE p[i]
  <2>1. CASE i = Len(s) + 1
    BY <1>2, <1>3, <2>1
  <2>2. CASE i # Len(s) + 1
    <3>1. i \in 1 .. Len(s)
      BY <1>3, <2>2
    <3>. QED
      BY <1>3, <1>4, <2>2, <3>1
  <2>. QED
    BY <2>1, <2>2
<1>9. Plains(r) = Append(p, q)
  <2>. HIDE DEF r, p
  <2>. QED
    BY <1>6, <1>7, <1>8
<1>. QED
  BY <1>9 DEF op, q

LEMMA PlainsRestyled ==
  ASSUME NEW s, IsList(s), NEW f
  PROVE  Plains(Restyled(s, f)) = Plains(s)
<1>. DEFINE r == Restyled(s, f)
<1>1. /\ DOMAIN r = DOMAIN s
      /\ \A i \in DOMAIN s : r[i].type = s[i].type /\ (s[i].own => r[i] = s[i])
  BY RestyleList
<1>2. ASSUME NEW i \in DOMAIN s PROVE r[i].own = s[i].own
  <2>1. PICK T, O, F : s \in Seq(Outputter(T, O, F))
    BY DEF IsList
  <2>2. s[i] \in [type : T, own : O, formatter : F]
    <3>1. i \in 1 .. Len(s)
      BY <2>1
    <3>2. s[i] \in Outputter(T, O, F)
      BY <2>1, <3>1, ElementOfSeq
    <3>. QED
      BY <3>2 DEF Outputter
  <2>3. CASE s[i].own
    BY <1>1, <2>3
  <2>4. CASE ~s[i].own
    <3>1. r[i] = [s[i] EXCEPT !.formatter = f]
      BY <2>4 DEF Restyled
    <3>2. [s[i] EXCEPT !.formatter = f].own = s[i].own
      BY <2>2
    <3>. QED
      BY <3>1, <3>2
  <2>. QED
    BY <2>3, <2>4
<1>3. \A i \in DOMAIN s : Plain(r[i]) = Plain(s[i])
  BY <1>1, <1>2 DEF Plain
<1>. HIDE DEF r
<1>4. Plains(r) = Plains(s)
  BY <1>1, <1>3 DEF Plains
<1>. QED
  BY <1>4 DEF r

-----------------------------------------------------------------------------
(* A load at work.                                                         *)

Clearing == {"clear", "clearOutputters"}
Building == {"build", "list"}
Setting  == Clearing \cup Building \cup {"add", "assign"}

\* What a logger lists whatever the value of the item.
Base(l) == IF l \in cleared THEN <<>> ELSE Plains(Initial(l))

\* What it lists besides while thread t sets a value: first that of the old value,
\* then none, then that of the new one.
Expected(t, l) ==
  LET list == goal[t][l].outputters IN
  IF pc[t] = "convert" THEN Listed(val, l)
  ELSE IF pc[t] \in Clearing
  THEN IF l \in todo[t] \/ (pc[t] = "clearOutputters" /\ l = cur[t]) THEN Listed(val, l) ELSE <<>>
  ELSE IF pc[t] \in Building /\ l = cur[t] THEN FirstKnown(list, Len(list) - Len(ops[t]))
  ELSE IF l \in todo[t] THEN <<>> ELSE Listed(goal[t], l)

\* A logger that is worked on was to be visited and no longer is, and what is
\* still to be built for it is the rest of its list.
AtWork(t) ==
  LET list == goal[t][cur[t]].outputters IN
  /\ pc[t] = "clearOutputters" => cur[t] \notin todo[t]
  /\ pc[t] \in Building \cup {"add"} => todo[t] \subseteq DOMAIN goal[t]
  /\ pc[t] \in Building =>
       /\ cur[t] \in DOMAIN goal[t] /\ cur[t] \notin todo[t]
       /\ \E k \in 0 .. Len(list) : ops[t] = SubSeq(list, k + 1, Len(list))
  /\ pc[t] = "list" =>
       ops[t] # <<>> /\ Head(ops[t]).type \in {"FileLogOutputter", "StdoutOutputter"}
  /\ pc[t] = "assign" => todo[t] = {}

\* Thread t carries what the file says now.
Carries(t) ==
  goal[t] = IF pc[t] = "convert" THEN file.doc[Logs] ELSE Converted(file.doc[Logs])

\* If the time noted is that of the file, what the file says is about to be read,
\* or on its way, or stored.
Fresh ==
  modTime = file.time /\ ~sneaked /\ ReadableLogs(file.doc) =>
    \/ \E t \in Loaders : pc[t] = "parse"
    \/ \E t \in InLoad : Carries(t)
    \/ InLoad = {} /\ val = Converted(file.doc[Logs])

Shape ==
  /\ \A t \in Loaders : pc[t] \in {"idle", "compare", "parse", "convert"} \cup Setting
  /\ pc = [t \in Loaders |-> pc[t]] /\ goal = [t \in Loaders |-> goal[t]]
  /\ todo = [t \in Loaders |-> todo[t]] /\ cur = [t \in Loaders |-> cur[t]]
  /\ ops = [t \in Loaders |-> ops[t]]
  /\ \A t \in Loaders : /\ pc[t] = "convert" => goal[t] \in Nodes
                        /\ pc[t] \in Setting => goal[t] \in Values
  /\ val \in Values

Times ==
  /\ file = [doc |-> file.doc, time |-> file.time]
  /\ file.doc \in Documents \cup {Malformed}
  /\ file.time \in Nat /\ modTime \in Nat /\ modTime <= file.time
  /\ stat \in [Loaders -> Nat] /\ \A t \in Loaders : stat[t] <= file.time

Builds(t) == AtWork(t) /\ \A l \in Loggers : Has(l) = Base(l) \o Expected(t, l)

Alone == \A t, u \in InLoad : t = u
Rests == InLoad = {} => \A l \in Loggers : Has(l) = Base(l) \o Listed(val, l)
Works == \A t \in InLoad : Builds(t)

Configuring == Shape /\ Times /\ (~overlapped => Alone /\ Rests /\ Works /\ Fresh)

-----------------------------------------------------------------------------
(* The steps of a load, the threads at work in between.                    *)

LEMMA InLoadIs ==
  ASSUME Shape, NEW t \in Loaders
  PROVE  t \in InLoad <=> pc[t] \in {"convert"} \cup Setting
BY DEF Shape, InLoad, Setting, Clearing, Building

\* What the other loaders are at.
Others(t) ==
  \A u \in Loaders : u # t => /\ pc'[u] = pc[u] /\ goal'[u] = goal[u] /\ todo'[u] = todo[u]
                              /\ cur'[u] = cur[u] /\ ops'[u] = ops[u]

LEMMA ShapeStep ==
  ASSUME Shape, NEW t \in Loaders,
         pc' = [pc EXCEPT ![t] = pc'[t]], goal' = [goal EXCEPT ![t] = goal'[t]],
         todo' = [todo EXCEPT ![t] = todo'[t]], cur' = [cur EXCEPT ![t] = cur'[t]],
         ops' = [ops EXCEPT ![t] = ops'[t]],
         pc'[t] \in {"idle", "compare", "parse", "convert"} \cup Setting,
         pc'[t] = "convert" => goal'[t] \in Nodes,
         pc'[t] \in Setting => goal'[t] \in Values,
         val' \in Values
  PROVE  Shape' /\ Others(t)
<1>1. Others(t)
  BY DEF Shape, Others
<1>2. /\ pc' = [u \in Loaders |-> pc'[u]] /\ goal' = [u \in Loaders |-> goal'[u]]
      /\ todo' = [u \in Loaders |-> todo'[u]] /\ cur' = [u \in Loaders |-> cur'[u]]
      /\ ops' = [u \in Loaders |-> ops'[u]]
  BY DEF Shape
<1>3. ASSUME NEW u \in Loaders
      PROVE  /\ pc'[u] \in {"idle", "compare", "parse", "convert"} \cup Setting
             /\ pc'[u] = "convert" => goal'[u] \in Nodes
             /\ pc'[u] \in Setting => goal'[u] \in Values
  <2>1. CASE u = t
    BY <2>1
  <2>2. CASE u # t
    BY <1>1, <2>2 DEF Others, Shape
  <2>. QED
    BY <2>1, <2>2
<1>. QED
  BY <1>1, <1>2, <1>3 DEF Shape

\* No load moves, and no list changes but for formatters.
LEMMA ConfigFrame ==
  ASSUME Configuring, UNCHANGED <<disk, noted, val, pc, goal, todo, cur, ops, cleared, overlapped>>,
         \A l \in Loggers : Has(l)' = Has(l)
  PROVE  Configuring'
<1>1. Shape' /\ Times'
  BY DEF Configuring, Shape, Times, disk, noted
<1>2. InLoad' = InLoad
  BY DEF InLoad
<1>3. \A t, l : Base(l)' = Base(l) /\ Expected(t, l)' = Expected(t, l)
  BY DEF Base, Expected
<1>4. \A t : AtWork(t)' = AtWork(t)
  BY DEF AtWork
<1>5. Alone' = Alone /\ (Rests => Rests') /\ (Works => Works')
  BY <1>2, <1>3, <1>4 DEF Alone, Rests, Works, Builds
<1>6. Fresh => Fresh'
  BY <1>2 DEF Fresh, Carries, disk, noted
<1>. QED
  BY <1>1, <1>5, <1>6 DEF Configuring

\* A thread at work goes on.
LEMMA GoesOn ==
  ASSUME Configuring, NEW t \in InLoad, Shape', Others(t),
         UNCHANGED <<disk, noted, val, overlapped>>,
         pc'[t] \in {"convert"} \cup Setting,
         ~overlapped /\ Builds(t) => Builds(t)',
         Carries(t) => Carries(t)'
  PROVE  Configuring'
<1>1. Times'
  BY DEF Configuring, Times, disk, noted
<1>2. t \in Loaders
  BY DEF InLoad
<1>3. InLoad' = InLoad
  <2>1. ASSUME NEW u \in Loaders PROVE u \in InLoad' <=> u \in InLoad
    <3>1. CASE u = t
      BY <3>1 DEF InLoad, Setting, Clearing, Building
    <3>2. CASE u # t
      BY <3>2 DEF InLoad, Others
    <3>. QED
      BY <3>1, <3>2
  <2>. QED
    BY <2>1 DEF InLoad
<1>4. ASSUME ~overlapped PROVE Alone' /\ Rests' /\ Works' /\ Fresh'
  <2>1. Alone /\ Works /\ Fresh
    BY <1>4 DEF Configuring
  <2>2. InLoad = {t}
    BY <2>1 DEF Alone
  <2>3. Alone' /\ Rests' /\ Works'
    BY <1>3, <1>4, <2>1, <2>2 DEF Alone, Rests, Works
  <2>4. \A u \in Loaders : pc[u] = "parse" => pc'[u] = "parse"
    <3>1. pc[t] # "parse"
      BY DEF InLoad
    <3>. QED
      BY <3>1 DEF Others
  <2>5. Fresh'
    BY <1>3, <2>1, <2>2, <2>4 DEF Fresh, disk, noted
  <2>. QED
    BY <2>3, <2>5
<1>. QED
  BY <1>1, <1>4 DEF Configuring

\* A load is over.
LEMMA Returned ==
  ASSUME Configuring, NEW t \in InLoad, Shape', Others(t),
         UNCHANGED <<disk, noted, overlapped, outputters, cleared>>,
         pc'[t] = "idle",
         AtWork(t) => \A l \in Loggers : Expected(t, l) = Listed(val, l)',
         ReadableLogs(file.doc) /\ Carries(t) => val' = Converted(file.doc[Logs])
  PROVE  Configuring'
<1>1. Times'
  BY DEF Configuring, Times, disk, noted
<1>2. t \in Loaders
  BY DEF InLoad
<1>3. ASSUME ~overlapped PROVE Alone' /\ Rests' /\ Works' /\ Fresh'
  <2>1. Alone /\ Works /\ Fresh
    BY <1>3 DEF Configuring
  <2>2. InLoad = {t}
    BY <2>1 DEF Alone
  <2>3. InLoad' = {}
    BY <2>2 DEF InLoad, Others
  <2>4. \A l : Has(l)' = Has(l) /\ Base(l)' = Base(l)
    BY DEF Has, Base
  <2>5. \A l \in Loggers : Has(l)' = Base(l)' \o Listed(val, l)'
    BY <2>1, <2>4 DEF Works, Builds
  <2>6. Alone' /\ Rests' /\ Works'
    BY <2>3, <2>5 DEF Alone, Rests, Works
  <2>7. \A u \in Loaders : pc[u] = "parse" => pc'[u] = "parse"
    <3>1. pc[t] # "parse"
      BY DEF InLoad
    <3>. QED
      BY <3>1 DEF Others
  <2>8. Fresh'
    BY <2>1, <2>2, <2>3, <2>7 DEF Fresh, disk, noted
  <2>. QED
    BY <2>6, <2>8
<1>. QED
  BY <1>1, <1>3 DEF Configuring

-----------------------------------------------------------------------------
(* Lists that grow at their end, and the rest of a list.                   *)

LEMMA BaseIs ==
  ASSUME NEW l \in Loggers
  PROVE  Base(l) \in Seq(Outputters) /\ Plains(Initial(l)) \in Seq(Outputters)
<1>1. Plain(Console(Default)) \in Outputters
  BY DEF Outputters
<1>2. Plains(<<>>) = <<>>
  BY DEF Plains
<1>3. Plains(<<Console(Default)>>) \in Seq(Outputters)
  <2>. DEFINE o == Console(Default)
              p == Plain(o)
  <2>. HIDE DEF o, p
  <2>1. DOMAIN <<o>> = 1 .. 1 /\ \A i \in 1 .. 1 : <<o>>[i] = o
    OBVIOUS
  <2>2. Plains(<<o>>) = [i \in 1 .. 1 |-> p]
    BY <2>1 DEF Plains, p
  <2>3. p \in Outputters
    BY <1>1 DEF o, p
  <2>4. [i \in 1 .. 1 |-> p] \in Seq(Outputters)
    BY <2>3
  <2>. QED
    BY <2>2, <2>4 DEF o
<1>4. <<>> \in Seq(Outputters)
  OBVIOUS
<1>5. Plains(Initial(l)) \in Seq(Outputters)
  BY <1>2, <1>3, <1>4 DEF Initial
<1>. QED
  BY <1>4, <1>5 DEF Base

LEMMA AppendToConcat ==
  ASSUME NEW a \in Seq(Outputters), NEW b \in Seq(Outputters), NEW o \in Outputters
  PROVE  Append(a \o b, o) = a \o Append(b, o)
<1>1. <<o>> \in Seq(Outputters)
  OBVIOUS
<1>2. a \o b \in Seq(Outputters)
  BY ConcatProperties
<1>3. Append(a \o b, o) = (a \o b) \o <<o>>
  BY <1>2, AppendIsConcat
<1>4. (a \o b) \o <<o>> = a \o (b \o <<o>>)
  BY <1>1, ConcatAssociative
<1>5. Append(b, o) = b \o <<o>>
  BY AppendIsConcat
<1>. QED
  BY <1>3, <1>4, <1>5

LEMMA RestOfConcat ==
  ASSUME NEW a \in Seq(Outputters), NEW b \in Seq(Outputters)
  PROVE  SubSeq(a \o b, Len(a) + 1, Len(a \o b)) = b
<1>. DEFINE c == a \o b
            r == SubSeq(c, Len(a) + 1, Len(c))
<1>1. /\ Len(c) = Len(a) + Len(b) /\ Len(a) \in Nat /\ Len(b) \in Nat
      /\ \A i \in 1 .. Len(a) + Len(b) : c[i] = IF i <= Len(a) THEN a[i] ELSE b[i - Len(a)]
  BY ConcatProperties
<1>2. \A i \in Len(a) + 1 .. Len(c) : c[i] \in Outputters
  <2>1. c \in Seq(Outputters)
    BY ConcatProperties
  <2>2. \A i \in 1 .. Len(c) : c[i] \in Outputters
    BY <2>1, ElementOfSeq
  <2>. QED
    BY <1>1, <2>2
<1>. HIDE DEF c
<1>3. /\ r \in Seq(Outputters)
      /\ Len(r) = IF Len(a) + 1 <= Len(c) THEN Len(c) - (Len(a) + 1) + 1 ELSE 0
      /\ \A i \in 1 .. Len(c) - (Len(a) + 1) + 1 : r[i] = c[Len(a) + 1 + i - 1]
  <2>. DEFINE m == Len(a) + 1
              n == Len(c)
  <2>1. m \in Int /\ n \in Int /\ \A i \in m .. n : c[i] \in Outputters
    BY <1>1, <1>2
  <2>. HIDE DEF m, n
  <2>2. /\ SubSeq(c, m, n) \in Seq(Outputters)
        /\ Len(SubSeq(c, m, n)) = IF m <= n THEN n - m + 1 ELSE 0
        /\ \A i \in 1 .. n - m + 1 : SubSeq(c, m, n)[i] = c[m + i - 1]
    BY <2>1, SubSeqProperties
  <2>. QED
    BY <2>2 DEF m, n
<1>. DEFINE A == Len(a)
            B == Len(b)
<1>. HIDE DEF r, A, B
<1>4. Len(r) = B
  <2>1. Len(r) = IF A + 1 <= A + B THEN (A + B) - (A + 1) + 1 ELSE 0
    BY <1>1, <1>3 DEF A, B
  <2>2. A \in Nat /\ B \in Nat
    BY <1>1 DEF A, B
  <2>. QED
    BY <2>1, <2>2
<1>5. ASSUME NEW i \in 1 .. B PROVE r[i] = b[i]
  <2>0. A \in Nat /\ B \in Nat /\ i \in Nat /\ i >= 1
    BY <1>1 DEF A, B
  <2>1. r[i] = c[A + i]
    <3>1. (A + B) - (A + 1) + 1 = B /\ A + 1 + i - 1 = A + i
      BY <2>0
    <3>2. \A j \in 1 .. (A + B) - (A + 1) + 1 : r[j] = c[A + 1 + j - 1]
      BY <1>1, <1>3 DEF A, B
    <3>. QED
      BY <3>1, <3>2
  <2>2. A + i \in 1 .. A + B /\ ~(A + i <= A) /\ (A + i) - A = i
    BY <2>0
  <2>3. c[A + i] = IF A + i <= A THEN a[A + i] ELSE b[(A + i) - A]
    BY <1>1, <2>2 DEF A, B
  <2>. QED
    BY <2>1, <2>2, <2>3
<1>6. r = b
  BY <1>3, <1>4, <1>5, SeqEqual DEF B
<1>. QED
  BY <1>6 DEF c, r

\* The rest of a list after its first k.
Rest(list, k) == SubSeq(list, k + 1, Len(list))

LEMMA RestOf ==
  ASSUME NEW list \in Seq(Outputters), NEW k \in 0 .. Len(list)
  PROVE  /\ Len(list) - Len(Rest(list, k)) = k
         /\ Rest(list, k) = <<>> => k = Len(list)
         /\ Rest(list, k) # <<>> =>
              /\ k + 1 \in 1 .. Len(list) /\ Head(Rest(list, k)) = list[k + 1]
              /\ Tail(Rest(list, k)) = Rest(list, k + 1)
<1>. DEFINE N == Len(list)
<1>1. N \in Nat /\ k \in Nat /\ k <= N /\ \A i \in 1 .. N : list[i] \in Outputters
  BY ElementOfSeq
<1>2. Len(Rest(list, k)) = IF k + 1 <= N THEN N - (k + 1) + 1 ELSE 0
  <2>1. k + 1 \in Int /\ N \in Int /\ \A i \in k + 1 .. N : list[i] \in Outputters
    BY <1>1
  <2>. HIDE DEF N
  <2>2. Len(SubSeq(list, k + 1, N)) = IF k + 1 <= N THEN N - (k + 1) + 1 ELSE 0
    BY <2>1, SubSeqProperties
  <2>. QED
    BY <2>2 DEF Rest, N
<1>3. N - Len(Rest(list, k)) = k
  BY <1>1, <1>2
<1>4. ASSUME Rest(list, k) = <<>> PROVE k = N
  <2>1. Len(Rest(list, k)) = 0
    BY <1>4
  <2>. QED
    BY <1>1, <1>3, <2>1
<1>5. ASSUME Rest(list, k) # <<>>
      PROVE  /\ k + 1 \in 1 .. N /\ Head(Rest(list, k)) = list[k + 1]
             /\ Tail(Rest(list, k)) = Rest(list, k + 1)
  <2>1. k + 1 \in 1 .. N
    <3>1. CASE k = N
      <4>1. SubSeq(list, k + 1, N) = <<>>
        BY <1>1, <3>1, SubSeqEmpty
      <4>. QED
        BY <1>5, <4>1 DEF Rest
    <3>2. CASE k # N
      BY <1>1, <3>2
    <3>. QED
      BY <3>1, <3>2
  <2>2. N \in k + 1 .. N
    BY <1>1, <2>1
  <2>3. Head(SubSeq(list, k + 1, N)) = list[k + 1]
        /\ Tail(SubSeq(list, k + 1, N)) = SubSeq(list, (k + 1) + 1, N)
    BY <2>1, <2>2, HeadTailOfSubSeq
  <2>. QED
    BY <2>1, <2>3 DEF Rest
<1>. QED
  BY <1>3, <1>4, <1>5

LEMMA RestAll ==
  ASSUME NEW list \in Seq(Outputters)
  PROVE  0 \in 0 .. Len(list) /\ Rest(list, 0) = list
BY DEF Rest

-----------------------------------------------------------------------------
(* Configuring, one action at a time.                                      *)

LEMMA InitConfiguring == Init => Configuring
<1>. SUFFICES ASSUME Init PROVE Configuring
  OBVIOUS
<1>1. Shape
  BY DEF Init, Shape, Values, Setting
<1>2. Times
  BY DEF Init, Times
<1>3. InLoad = {}
  BY DEF Init, InLoad
<1>4. Rests
  <2>. SUFFICES ASSUME NEW l \in Loggers PROVE Has(l) = Base(l) \o Listed(val, l)
    BY DEF Rests
  <2>1. outputters[l] = Initial(l) /\ l \notin cleared /\ val = <<>>
    BY DEF Init
  <2>2. Listed(val, l) = <<>>
    <3>1. DOMAIN <<>> = {}
      OBVIOUS
    <3>. QED
      BY <2>1, <3>1 DEF Listed
  <2>3. Has(l) = Plains(Initial(l)) /\ Base(l) = Plains(Initial(l))
    BY <2>1 DEF Has, Base
  <2>. QED
    BY <2>2, <2>3, BaseIs, ConcatEmptySeq
<1>5. Fresh
  BY DEF Init, Fresh
<1>. QED
  BY <1>1, <1>2, <1>3, <1>4, <1>5 DEF Configuring, Alone, Works

\* The time of the file is later than the one noted, or its change was not told
\* from none.
LEMMA EditConfiguring == Configuring /\ Edit => Configuring'
<1>. SUFFICES ASSUME Configuring, Edit PROVE Configuring'
  OBVIOUS
<1>1. PICK doc \in Documents \cup {Malformed}, d \in {0, 1} :
        /\ file' = [doc |-> doc, time |-> file.time + d]
        /\ sneaked' = (sneaked \/ (d = 0 /\ modTime = file.time))
  BY DEF Edit
<1>2. UNCHANGED <<noted, val, outputters, pc, goal, todo, cur, ops, cleared, overlapped>>
  BY DEF Edit, loggers, loader
<1>3. Shape'
  BY <1>2 DEF Configuring, Shape
<1>4. /\ file.time \in Nat /\ modTime \in Nat /\ modTime <= file.time
      /\ stat \in [Loaders -> Nat] /\ \A t \in Loaders : stat[t] <= file.time
  BY DEF Configuring, Times
<1>5. file'.doc = doc /\ file'.time = file.time + d
  BY <1>1
<1>6. Times'
  <2>1. \A t \in Loaders : stat'[t] <= file'.time
    <3>. SUFFICES ASSUME NEW t \in Loaders PROVE stat'[t] <= file'.time
      OBVIOUS
    <3>1. stat'[t] = stat[t] /\ stat[t] \in Nat /\ stat[t] <= file.time
      BY <1>2, <1>4 DEF noted
    <3>. QED
      BY <1>4, <1>5, <3>1
  <2>2. modTime' = modTime /\ stat' = stat
    BY <1>2 DEF noted
  <2>3. file'.time \in Nat /\ modTime <= file'.time
    BY <1>4, <1>5
  <2>. QED
    BY <1>1, <1>4, <1>5, <2>1, <2>2, <2>3 DEF Times
<1>7. Fresh'
  <2>1. CASE d = 0
    <3>1. file'.time = file.time
      BY <1>4, <1>5, <2>1
    <3>. QED
      BY <1>1, <1>2, <2>1, <3>1 DEF Fresh, noted
  <2>2. CASE d = 1
    <3>1. modTime # file'.time
      BY <1>4, <1>5, <2>2
    <3>. QED
      BY <1>2, <3>1 DEF Fresh, noted
  <2>. QED
    BY <2>1, <2>2
<1>8. InLoad' = InLoad
  BY <1>2 DEF InLoad
<1>9. \A t, l : Base(l)' = Base(l) /\ Has(l)' = Has(l) /\ Expected(t, l)' = Expected(t, l)
  BY <1>2 DEF Base, Has, Expected
<1>10. \A t : AtWork(t)' = AtWork(t)
  BY <1>2 DEF AtWork
<1>11. Alone' = Alone /\ (Rests => Rests') /\ (Works => Works')
  BY <1>2, <1>8, <1>9, <1>10 DEF Alone, Rests, Works, Builds
<1>. QED
  BY <1>2, <1>3, <1>6, <1>7, <1>11 DEF Configuring

\* A thread that is setting no value reads the file, or has found nothing in it.
LEMMA ReadsOrNot ==
  ASSUME Configuring, NEW t \in Loaders,
         pc[t] \in {"idle", "compare", "parse"}, pc'[t] \in {"idle", "compare", "parse"},
         pc' = [pc EXCEPT ![t] = pc'[t]],
         UNCHANGED <<disk, val, outputters, goal, todo, cur, ops, cleared>>,
         modTime' \in {modTime, stat[t]}, overlapped => overlapped',
         stat' \in {stat, [stat EXCEPT ![t] = 0], [stat EXCEPT ![t] = file.time]},
         Fresh' \/ overlapped'
  PROVE  Configuring'
<1>1. Shape
  BY DEF Configuring
<1>2. Shape' /\ Others(t)
  <2>1. goal' = [goal EXCEPT ![t] = goal'[t]] /\ todo' = [todo EXCEPT ![t] = todo'[t]]
        /\ cur' = [cur EXCEPT ![t] = cur'[t]] /\ ops' = [ops EXCEPT ![t] = ops'[t]]
    BY <1>1 DEF Shape
  <2>2. val' \in Values /\ pc'[t] \notin {"convert"} \cup Setting
    BY <1>1 DEF Shape, Setting, Clearing, Building
  <2>. QED
    BY <1>1, <2>1, <2>2, ShapeStep
<1>3. Times'
  <2>1. /\ file.time \in Nat /\ modTime \in Nat /\ modTime <= file.time
        /\ stat \in [Loaders -> Nat] /\ \A u \in Loaders : stat[u] <= file.time
        /\ UNCHANGED file
    BY DEF Configuring, Times, disk
  <2>2. modTime' \in Nat /\ modTime' <= file.time
    BY <2>1
  <2>3. stat' \in [Loaders -> Nat]
    BY <2>1
  <2>4. ASSUME NEW u \in Loaders PROVE stat'[u] <= file.time
    <3>1. stat'[u] = stat[u] \/ stat'[u] = 0 \/ stat'[u] = file.time
      BY <2>1
    <3>. QED
      BY <2>1, <3>1
  <2>. QED
    BY <2>1, <2>2, <2>3, <2>4 DEF Configuring, Times
<1>4. InLoad' = InLoad
  <2>1. ASSUME NEW u \in Loaders PROVE u \in InLoad' <=> u \in InLoad
    BY <1>2 DEF InLoad, Others
  <2>. QED
    BY <2>1 DEF InLoad
<1>5. \A u \in InLoad : u # t /\ u \in Loaders
  BY DEF InLoad
<1>6. \A l : Base(l)' = Base(l) /\ Has(l)' = Has(l) /\ Listed(val, l)' = Listed(val, l)
  BY DEF Base, Has
<1>7. ASSUME NEW u \in InLoad
      PROVE  AtWork(u)' = AtWork(u) /\ \A l : Expected(u, l)' = Expected(u, l)
  <2>1. pc'[u] = pc[u]
    BY <1>2, <1>5 DEF Others
  <2>. QED
    BY <2>1 DEF AtWork, Expected
<1>8. Alone' = Alone /\ (Rests => Rests') /\ (Works => Works')
  BY <1>4, <1>6, <1>7 DEF Alone, Rests, Works, Builds
<1>. QED
  BY <1>2, <1>3, <1>8 DEF Configuring

LEMMA ReadConfiguring ==
  ASSUME Configuring, NEW t \in Loaders,
         LoadFromConfDir(t) \/ PassOver(t) \/ Note(t) \/ LoadFails(t)
  PROVE  Configuring'
<1>1. Shape /\ pc = [u \in Loaders |-> pc[u]]
  BY DEF Configuring, Shape
<1>2. UNCHANGED <<disk, val, outputters, goal, todo, cur, ops, cleared, overlapped>>
  BY DEF LoadFromConfDir, PassOver, Note, Compare, LoadFails, loggers
<1>3. CASE LoadFromConfDir(t) \/ PassOver(t)
  <2>1. /\ pc[t] \in {"idle", "compare"} /\ UNCHANGED modTime
        /\ stat' \in {[stat EXCEPT ![t] = 0], [stat EXCEPT ![t] = file.time]}
        /\ pc' = [pc EXCEPT ![t] = "compare"] \/ pc' = [pc EXCEPT ![t] = "idle"]
    BY <1>3 DEF LoadFromConfDir, PassOver, Compare, Step, Goes
  <2>2. pc'[t] \in {"idle", "compare"} /\ pc' = [pc EXCEPT ![t] = pc'[t]]
    BY <1>1, <2>1
  <2>3. \A u \in Loaders : u # t => pc'[u] = pc[u]
    BY <1>1, <2>1
  <2>4. InLoad' = InLoad /\ \A u \in InLoad : u # t /\ u \in Loaders
    BY <2>1, <2>2, <2>3 DEF InLoad
  <2>5. (\E u \in Loaders : pc[u] = "parse") => \E u \in Loaders : pc'[u] = "parse"
    BY <2>1, <2>3
  <2>6. \A u \in InLoad : Carries(u)' = Carries(u)
    BY <1>2, <2>3, <2>4 DEF Carries, disk
  <2>7. Fresh => Fresh'
    BY <1>2, <2>1, <2>4, <2>5, <2>6 DEF Fresh, disk
  <2>8. Fresh' \/ overlapped'
    BY <1>2, <2>7 DEF Configuring
  <2>. QED
    BY <1>2, <2>1, <2>2, <2>8, ReadsOrNot
<1>4. CASE Note(t)
  <2>1. /\ pc[t] = "compare" /\ pc' = [pc EXCEPT ![t] = "parse"]
        /\ modTime' = stat[t] /\ stat' = [stat EXCEPT ![t] = 0]
    BY <1>4 DEF Note, Compare, Step, Goes
  <2>2. pc'[t] = "parse" /\ pc' = [pc EXCEPT ![t] = pc'[t]]
    BY <1>1, <2>1
  <2>3. Fresh'
    BY <2>2 DEF Fresh
  <2>. QED
    BY <1>2, <2>1, <2>2, <2>3, ReadsOrNot
<1>5. CASE LoadFails(t)
  <2>1. /\ pc[t] = "parse" /\ pc' = [pc EXCEPT ![t] = "idle"] /\ UNCHANGED <<modTime, stat>>
        /\ file.doc = Malformed
    BY <1>5 DEF LoadFails, Step, Goes, noted
  <2>2. pc'[t] = "idle" /\ pc' = [pc EXCEPT ![t] = pc'[t]]
    BY <1>1, <2>1
  <2>3. Fresh'
    BY <1>2, <2>1 DEF Fresh, ReadableLogs, disk
  <2>. QED
    BY <1>2, <2>1, <2>2, <2>3, ReadsOrNot
<1>. QED
  BY <1>3, <1>4, <1>5

\* What is read is on its way; nothing else is, or two loads overlap.
LEMMA FoundConfiguring ==
  ASSUME Configuring, NEW t \in Loaders, LoadFromYaml(t)
  PROVE  Configuring'
<1>1. Shape /\ Times
  BY DEF Configuring
<1>2. /\ UNCHANGED <<disk, noted, val, outputters, todo, cur, ops, cleared>>
      /\ pc[t] = "parse" /\ file.doc # Malformed /\ overlapped' = (overlapped \/ InLoad # {})
  BY DEF LoadFromYaml, loggers, Step
<1>3. CASE ~SearchBase(file.doc)
  <2>1. pc' = [pc EXCEPT ![t] = "idle"] /\ UNCHANGED goal
    BY <1>3 DEF LoadFromYaml, Goes
  <2>2. pc'[t] = "idle" /\ pc' = [pc EXCEPT ![t] = pc'[t]]
    BY <1>1, <2>1 DEF Shape
  <2>3. Logs \notin DOMAIN file.doc
    BY <1>3, DocumentsAssumption DEF SearchBase, VisitNodesDFS
  <2>4. Fresh'
    BY <1>2, <2>3 DEF Fresh, ReadableLogs, disk, noted
  <2>. QED
    BY <1>2, <2>1, <2>2, <2>4, ReadsOrNot DEF noted
<1>4. CASE SearchBase(file.doc)
  <2>1. pc' = [pc EXCEPT ![t] = "convert"] /\ goal' = [goal EXCEPT ![t] = file.doc[Logs]]
    BY <1>4 DEF LoadFromYaml, Goes
  <2>2. /\ pc'[t] = "convert" /\ goal'[t] = file.doc[Logs]
        /\ pc' = [pc EXCEPT ![t] = pc'[t]] /\ goal' = [goal EXCEPT ![t] = goal'[t]]
        /\ todo' = [todo EXCEPT ![t] = todo'[t]] /\ cur' = [cur EXCEPT ![t] = cur'[t]]
        /\ ops' = [ops EXCEPT ![t] = ops'[t]]
    BY <1>1, <1>2, <2>1 DEF Shape
  <2>3. goal'[t] \in Nodes
    <3>1. Logs \in DOMAIN file.doc
      BY <1>4 DEF SearchBase, VisitNodesDFS
    <3>2. file.doc \in Documents
      BY <1>1, <1>2 DEF Times
    <3>. QED
      BY <2>2, <3>1, <3>2 DEF Nodes
  <2>4. Shape' /\ Others(t)
    <3>1. val' \in Values /\ "convert" \notin Setting
      BY <1>1, <1>2 DEF Shape, Setting, Clearing, Building
    <3>. QED
      BY <1>1, <2>2, <2>3, <3>1, ShapeStep
  <2>5. Times'
    BY <1>1, <1>2 DEF Times, disk, noted
  <2>6. ASSUME ~overlapped' PROVE Alone' /\ Rests' /\ Works' /\ Fresh'
    <3>1. InLoad = {} /\ ~overlapped
      BY <1>2, <2>6
    <3>2. Rests
      BY <3>1 DEF Configuring
    <3>3. InLoad' = {t}
      BY <2>2, <2>4, <3>1 DEF InLoad, Others
    <3>4. \A l : Has(l)' = Has(l) /\ Base(l)' = Base(l) /\ Listed(val, l)' = Listed(val, l)
      BY <1>2 DEF Has, Base
    <3>5. \A l : Expected(t, l)' = Listed(val, l)
      BY <1>2, <2>2 DEF Expected
    <3>6. AtWork(t)'
      BY <2>2 DEF AtWork, Building
    <3>7. \A l \in Loggers : Has(l)' = Base(l)' \o Expected(t, l)'
      BY <3>1, <3>2, <3>4, <3>5 DEF Rests
    <3>8. Works'
      BY <3>3, <3>6, <3>7 DEF Works, Builds
    <3>9. Carries(t)'
      BY <1>2, <2>2 DEF Carries, disk, noted
    <3>10. Fresh'
      BY <3>3, <3>9 DEF Fresh
    <3>. QED
      BY <3>3, <3>8, <3>10 DEF Alone, Rests
  <2>. QED
    BY <2>4, <2>5, <2>6 DEF Configuring
<1>. QED
  BY <1>3, <1>4

-----------------------------------------------------------------------------
(* Configuring, one step of a value that is being set at a time.           *)

\* No other loader moves.
Moves(t) ==
  /\ pc' = [pc EXCEPT ![t] = pc'[t]] /\ goal' = [goal EXCEPT ![t] = goal'[t]]
  /\ todo' = [todo EXCEPT ![t] = todo'[t]] /\ cur' = [cur EXCEPT ![t] = cur'[t]]
  /\ ops' = [ops EXCEPT ![t] = ops'[t]]

LEMMA LoadMoves ==
  ASSUME Configuring, NEW t \in Loaders, pc[t] \in {"convert"} \cup Setting, Moves(t),
         pc'[t] \in {"idle"} \cup Setting, pc'[t] \in Setting => goal'[t] \in Values,
         val' \in Values
  PROVE  t \in InLoad /\ Shape' /\ Others(t)
<1>1. Shape
  BY DEF Configuring
<1>2. pc'[t] # "convert" /\ pc'[t] \in {"idle", "compare", "parse", "convert"} \cup Setting
  BY DEF Setting, Clearing, Building
<1>3. Shape' /\ Others(t)
  BY <1>1, <1>2, ShapeStep DEF Moves
<1>4. t \in InLoad
  BY <1>1, InLoadIs
<1>. QED
  BY <1>3, <1>4

LEMMA GoalIs ==
  ASSUME Shape, NEW t \in Loaders
  PROVE  /\ pc[t] \in Setting => goal[t] \in Values
         /\ pc[t] = "convert" => Converted(goal[t]) \in Values
         /\ val \in Values
BY DEF Shape, Values

\* A value that is refused or not new leaves what is there.
LEMMA RefusedConfiguring ==
  ASSUME Configuring, NEW t \in Loaders,
         fromString(t) \/ (setValue(t) /\ Converted(goal[t]) = val)
  PROVE  Configuring'
<1>1. Shape
  BY DEF Configuring
<1>2. /\ pc[t] = "convert" /\ pc' = [pc EXCEPT ![t] = "idle"] /\ goal' = [goal EXCEPT ![t] = <<>>]
      /\ UNCHANGED <<disk, noted, val, overlapped, outputters, cleared, todo, cur, ops>>
  BY DEF fromString, setValue, Step, Goes, loggers
<1>3. Throws(goal[t]) \/ Converted(goal[t]) = val
  BY DEF fromString
<1>4. Moves(t) /\ pc'[t] = "idle"
  BY <1>1, <1>2 DEF Shape, Moves
<1>5. t \in InLoad /\ Shape' /\ Others(t)
  <2>1. pc[t] \in {"convert"} \cup Setting /\ "idle" \notin Setting
    BY <1>2 DEF Setting, Clearing, Building
  <2>. QED
    BY <1>1, <1>2, <1>4, <2>1, GoalIs, LoadMoves
<1>6. \A l : Expected(t, l) = Listed(val, l)'
  BY <1>2 DEF Expected
<1>7. ReadableLogs(file.doc) /\ Carries(t) => val' = Converted(file.doc[Logs])
  BY <1>2, <1>3 DEF Carries, ReadableLogs
<1>. QED
  BY <1>2, <1>4, <1>5, <1>6, <1>7, Returned

LEMMA AssignConfiguring ==
  ASSUME Configuring, NEW t \in Loaders, Assign(t)
  PROVE  Configuring'
<1>1. Shape
  BY DEF Configuring
<1>2. /\ pc[t] = "assign" /\ pc' = [pc EXCEPT ![t] = "idle"] /\ goal' = [goal EXCEPT ![t] = <<>>]
      /\ val' = goal[t]
      /\ UNCHANGED <<disk, noted, overlapped, outputters, cleared, todo, cur, ops>>
  BY DEF Assign, Step, Goes, loggers
<1>3. Moves(t) /\ pc'[t] = "idle" /\ t \in InLoad /\ Shape' /\ Others(t)
  <2>1. pc[t] \in Setting /\ "idle" \notin Setting
    BY <1>2 DEF Setting, Clearing, Building
  <2>2. val' \in Values
    BY <1>1, <1>2, <2>1, GoalIs
  <2>3. Moves(t) /\ pc'[t] = "idle"
    BY <1>1, <1>2 DEF Shape, Moves
  <2>. QED
    BY <2>1, <2>2, <2>3, LoadMoves
<1>4. ASSUME AtWork(t) PROVE \A l \in Loggers : Expected(t, l) = Listed(val, l)'
  <2>1. todo[t] = {}
    BY <1>2, <1>4 DEF AtWork
  <2>2. \A l : Listed(val, l)' = Listed(goal[t], l)
    BY <1>2 DEF Listed
  <2>. QED
    BY <1>2, <2>1, <2>2 DEF Expected, Clearing, Building
<1>5. Carries(t) => val' = Converted(file.doc[Logs])
  BY <1>2 DEF Carries
<1>. QED
  BY <1>2, <1>3, <1>4, <1>5, Returned

\* The listener begins with the loggers of the old value.
LEMMA SetConfiguring ==
  ASSUME Configuring, NEW t \in Loaders, setValue(t), Converted(goal[t]) # val
  PROVE  Configuring'
<1>1. Shape
  BY DEF Configuring
<1>. DEFINE g == Converted(goal[t])
<1>2. /\ pc[t] = "convert" /\ pc' = [pc EXCEPT ![t] = "clear"] /\ goal' = [goal EXCEPT ![t] = g]
      /\ todo' = [todo EXCEPT ![t] = DOMAIN val]
      /\ UNCHANGED <<disk, noted, val, overlapped, outputters, cleared, cur, ops>>
  BY DEF setValue, Step, Goes, loggers
<1>3. g \in Values /\ val \in Values
  BY <1>1, <1>2, GoalIs
<1>. HIDE DEF g
<1>4. "clear" \in Setting /\ pc[t] \in {"convert"} \cup Setting
  BY <1>2 DEF Setting, Clearing
<1>5. Moves(t) /\ pc'[t] = "clear" /\ goal'[t] = g /\ todo'[t] = DOMAIN val
  BY <1>1, <1>2 DEF Shape, Moves
<1>6. t \in InLoad /\ Shape' /\ Others(t)
  BY <1>2, <1>3, <1>4, <1>5, LoadMoves
<1>7. AtWork(t)'
  BY <1>5 DEF AtWork, Building
<1>8. \A l : Expected(t, l)' = Expected(t, l)
  BY <1>2, <1>5 DEF Expected, Clearing, Listed
<1>9. \A l : Has(l)' = Has(l) /\ Base(l)' = Base(l)
  BY <1>2 DEF Has, Base
<1>10. Builds(t) => Builds(t)'
  BY <1>7, <1>8, <1>9 DEF Builds
<1>11. Carries(t) => Carries(t)'
  BY <1>2, <1>5 DEF Carries, disk, noted, g
<1>. QED
  BY <1>2, <1>4, <1>5, <1>6, <1>10, <1>11, GoesOn

LEMMA ClearLevelConfiguring ==
  ASSUME Configuring, NEW t \in Loaders, ClearLevel(t)
  PROVE  Configuring'
<1>1. Shape
  BY DEF Configuring
<1>2. PICK k \in todo[t] : cur' = [cur EXCEPT ![t] = k] /\ todo' = [todo EXCEPT ![t] = @ \ {k}]
  BY DEF ClearLevel
<1>3. /\ pc[t] = "clear" /\ pc' = [pc EXCEPT ![t] = "clearOutputters"]
      /\ UNCHANGED <<disk, noted, val, overlapped, outputters, cleared, goal, ops>>
  BY DEF ClearLevel, Step, Goes, Listener
<1>4. "clearOutputters" \in Setting /\ pc[t] \in Setting
  BY <1>3 DEF Setting, Clearing
<1>5. /\ Moves(t) /\ pc'[t] = "clearOutputters" /\ goal'[t] = goal[t]
      /\ todo'[t] = todo[t] \ {k} /\ cur'[t] = k
  BY <1>1, <1>2, <1>3 DEF Shape, Moves
<1>6. t \in InLoad /\ Shape' /\ Others(t)
  BY <1>1, <1>3, <1>4, <1>5, GoalIs, LoadMoves
<1>7. AtWork(t)'
  BY <1>5 DEF AtWork, Building
<1>8. \A l : Expected(t, l)' = Expected(t, l)
  BY <1>2, <1>3, <1>5 DEF Expected, Clearing
<1>9. \A l : Has(l)' = Has(l) /\ Base(l)' = Base(l)
  BY <1>3 DEF Has, Base
<1>10. Builds(t) => Builds(t)'
  BY <1>7, <1>8, <1>9 DEF Builds
<1>11. Carries(t) => Carries(t)'
  BY <1>3, <1>5 DEF Carries, disk, noted
<1>. QED
  BY <1>3, <1>4, <1>5, <1>6, <1>10, <1>11, GoesOn

LEMMA ClearConfiguring ==
  ASSUME Listing, Configuring, NEW t \in Loaders, clearOutputters(t)
  PROVE  Configuring'
<1>1. Shape
  BY DEF Configuring
<1>2. /\ pc[t] = "clearOutputters" /\ pc' = [pc EXCEPT ![t] = "clear"]
      /\ cur' = [cur EXCEPT ![t] = Root]
      /\ outputters' = [outputters EXCEPT ![cur[t]] = <<>>] /\ cleared' = cleared \cup {cur[t]}
      /\ UNCHANGED <<disk, noted, val, overlapped, goal, todo, ops>>
  BY DEF clearOutputters, Step, Goes, Listener
<1>3. "clear" \in Setting /\ pc[t] \in Setting
  BY <1>2 DEF Setting, Clearing
<1>4. Moves(t) /\ pc'[t] = "clear" /\ goal'[t] = goal[t] /\ todo'[t] = todo[t]
  BY <1>1, <1>2 DEF Shape, Moves
<1>5. t \in InLoad /\ Shape' /\ Others(t)
  BY <1>1, <1>2, <1>3, <1>4, GoalIs, LoadMoves
<1>6. AtWork(t)'
  BY <1>4 DEF AtWork, Building
<1>7. ASSUME Builds(t), NEW l \in Loggers PROVE Has(l)' = Base(l)' \o Expected(t, l)'
  <2>1. CASE l = cur[t]
    <3>1. outputters'[l] = <<>>
      BY <1>2, <2>1 DEF Listing
    <3>2. Has(l)' = <<>>
      BY <3>1 DEF Has, Plains
    <3>3. Base(l)' = <<>>
      BY <1>2, <2>1 DEF Base
    <3>4. Expected(t, l)' = <<>>
      <4>1. l \notin todo[t]
        BY <1>2, <1>7, <2>1 DEF Builds, AtWork
      <4>. QED
        BY <1>4, <4>1 DEF Expected, Clearing
    <3>5. <<>> \o <<>> = <<>>
      OBVIOUS
    <3>. QED
      BY <3>2, <3>3, <3>4, <3>5
  <2>2. CASE l # cur[t]
    <3>1. Has(l)' = Has(l)
      BY <1>2, <2>2 DEF Has, Listing
    <3>2. Base(l)' = Base(l)
      BY <1>2, <2>2 DEF Base
    <3>3. Expected(t, l)' = Expected(t, l)
      BY <1>2, <1>4, <2>2 DEF Expected, Clearing
    <3>. QED
      BY <1>7, <3>1, <3>2, <3>3 DEF Builds
  <2>. QED
    BY <2>1, <2>2
<1>8. Builds(t) => Builds(t)'
  BY <1>6, <1>7 DEF Builds
<1>9. Carries(t) => Carries(t)'
  BY <1>2, <1>4 DEF Carries, disk, noted
<1>. QED
  BY <1>2, <1>3, <1>4, <1>5, <1>8, <1>9, GoesOn

\* A step that moves no list leaves what is expected of each logger.
LEMMA ListsStay ==
  ASSUME Configuring, NEW t \in Loaders, pc[t] \in Setting, Moves(t), pc'[t] \in Setting,
         UNCHANGED <<disk, noted, val, overlapped, outputters, cleared>>, goal'[t] = goal[t],
         AtWork(t) => AtWork(t)' /\ \A l \in Loggers : Expected(t, l)' = Expected(t, l)
  PROVE  Configuring'
<1>1. Shape
  BY DEF Configuring
<1>2. t \in InLoad /\ Shape' /\ Others(t)
  BY <1>1, GoalIs, LoadMoves
<1>3. \A l : Has(l)' = Has(l) /\ Base(l)' = Base(l)
  BY DEF Has, Base
<1>4. Builds(t) => Builds(t)'
  BY <1>3 DEF Builds
<1>5. Carries(t) => Carries(t)'
  <2>1. pc[t] # "convert" /\ pc'[t] # "convert"
    BY DEF Setting, Clearing, Building
  <2>. QED
    BY <2>1 DEF Carries, disk, noted
<1>. QED
  BY <1>2, <1>4, <1>5, GoesOn

LEMMA BetweenConfiguring ==
  ASSUME Configuring, NEW t \in Loaders, ClearDone(t) \/ ReadUnlock(t)
  PROVE  Configuring'
<1>1. Shape
  BY DEF Configuring
<1>2. /\ todo[t] = {}
      /\ UNCHANGED <<disk, noted, val, overlapped, outputters, cleared, goal, cur, ops>>
  BY DEF ClearDone, ReadUnlock, Listener
<1>3. CASE ClearDone(t)
  <2>1. /\ pc[t] = "clear" /\ pc' = [pc EXCEPT ![t] = "add"]
        /\ todo' = [todo EXCEPT ![t] = DOMAIN goal[t]]
    BY <1>3 DEF ClearDone, Step, Goes
  <2>2. Moves(t) /\ pc'[t] = "add" /\ goal'[t] = goal[t] /\ todo'[t] = DOMAIN goal[t]
    BY <1>1, <1>2, <2>1 DEF Shape, Moves
  <2>3. AtWork(t)'
    BY <2>2 DEF AtWork, Building
  <2>4. \A l : Expected(t, l) = <<>>
    BY <1>2, <2>1 DEF Expected, Clearing
  <2>5. \A l : Listed(goal[t], l)' = Listed(goal[t], l)
    BY <2>2 DEF Listed
  <2>6. \A l : Expected(t, l)' = <<>>
    BY <2>2, <2>5 DEF Expected, Clearing, Building, Listed
  <2>7. pc[t] \in Setting /\ pc'[t] \in Setting
    BY <2>1, <2>2 DEF Setting, Clearing
  <2>. QED
    BY <1>2, <2>2, <2>3, <2>4, <2>6, <2>7, ListsStay
<1>4. CASE ReadUnlock(t)
  <2>1. pc[t] = "add" /\ pc' = [pc EXCEPT ![t] = "assign"] /\ UNCHANGED todo
    BY <1>4 DEF ReadUnlock, Step, Goes
  <2>2. Moves(t) /\ pc'[t] = "assign" /\ goal'[t] = goal[t] /\ todo'[t] = {}
    BY <1>1, <1>2, <2>1 DEF Shape, Moves
  <2>3. AtWork(t)'
    BY <2>2 DEF AtWork, Building
  <2>4. \A l : Expected(t, l)' = Expected(t, l)
    BY <1>2, <2>1, <2>2 DEF Expected, Clearing, Building, Listed
  <2>5. pc[t] \in Setting /\ pc'[t] \in Setting
    BY <2>1, <2>2 DEF Setting, Clearing
  <2>. QED
    BY <1>2, <2>2, <2>3, <2>4, <2>5, ListsStay
<1>. QED
  BY <1>3, <1>4

\* The list of a logger that is worked on.
LEMMA ListOf ==
  ASSUME Shape, NEW t \in Loaders, pc[t] \in Setting, NEW l \in DOMAIN goal[t]
  PROVE  /\ goal[t][l].outputters \in Seq(Outputters)
         /\ Listed(goal[t], l) = FirstKnown(goal[t][l].outputters, Len(goal[t][l].outputters))
BY GoalIs, ValueLists, ListedIs

LEMMA SetLevelConfiguring ==
  ASSUME Configuring, NEW t \in Loaders, SetLevel(t)
  PROVE  Configuring'
<1>1. Shape
  BY DEF Configuring
<1>2. PICK k \in todo[t] : /\ cur' = [cur EXCEPT ![t] = k]
                           /\ ops' = [ops EXCEPT ![t] = goal[t][k].outputters]
                           /\ todo' = [todo EXCEPT ![t] = @ \ {k}]
  BY DEF SetLevel
<1>3. /\ pc[t] = "add" /\ pc' = [pc EXCEPT ![t] = "build"]
      /\ UNCHANGED <<disk, noted, val, overlapped, outputters, cleared, goal>>
  BY DEF SetLevel, Step, Goes, Listener
<1>. DEFINE list == goal[t][k].outputters
<1>4. /\ Moves(t) /\ pc'[t] = "build" /\ goal'[t] = goal[t]
      /\ cur'[t] = k /\ ops'[t] = list /\ todo'[t] = todo[t] \ {k}
  BY <1>1, <1>2, <1>3 DEF Shape, Moves
<1>5. pc[t] \in Setting /\ pc'[t] \in Setting
  BY <1>3, <1>4 DEF Setting, Building
<1>6. ASSUME AtWork(t) PROVE AtWork(t)' /\ \A l \in Loggers : Expected(t, l)' = Expected(t, l)
  <2>1. k \in DOMAIN goal[t] /\ todo[t] \subseteq DOMAIN goal[t]
    BY <1>2, <1>3, <1>6 DEF AtWork
  <2>2. list \in Seq(Outputters)
    BY <1>1, <1>5, <2>1, ListOf
  <2>. HIDE DEF list
  <2>3. 0 \in 0 .. Len(list) /\ list = SubSeq(list, 0 + 1, Len(list)) /\ Len(list) - Len(list) = 0
    BY <2>2, RestAll DEF Rest
  <2>4. AtWork(t)'
    <3>1. list = goal'[t][cur'[t]].outputters
      BY <1>4 DEF list
    <3>. QED
      BY <1>4, <2>1, <2>3, <3>1 DEF AtWork, Building
  <2>5. FirstKnown(list, 0) = <<>>
    BY <2>2, KnownRounds
  <2>6. ASSUME NEW l \in Loggers PROVE Expected(t, l)' = Expected(t, l)
    <3>1. CASE l = k
      <4>1. Expected(t, l) = <<>>
        BY <1>2, <1>3, <3>1 DEF Expected, Clearing, Building
      <4>2. Expected(t, l)' = FirstKnown(list, Len(list) - Len(list))
        BY <1>4, <3>1 DEF Expected, Clearing, Building, list, FirstKnown
      <4>. QED
        BY <2>3, <2>5, <4>1, <4>2
    <3>2. CASE l # k
      BY <1>3, <1>4, <3>2 DEF Expected, Clearing, Building, Listed
    <3>. QED
      BY <3>1, <3>2
  <2>. QED
    BY <2>4, <2>6
<1>. QED
  BY <1>3, <1>4, <1>5, <1>6, ListsStay

Known == {"FileLogOutputter", "StdoutOutputter"}

\* How far the list of the logger that is worked on is built.
Built(t, rest) ==
  LET list == goal[t][cur[t]].outputters IN FirstKnown(list, Len(list) - Len(rest))

LEMMA BuildStep ==
  ASSUME Shape, NEW t \in Loaders, pc[t] \in Building, AtWork(t)
  PROVE  LET list == goal[t][cur[t]].outputters
             o == Head(ops[t]) IN
         /\ cur[t] \in DOMAIN goal[t] /\ cur[t] \notin todo[t]
         /\ Expected(t, cur[t]) = Built(t, ops[t]) /\ Built(t, ops[t]) \in Seq(Outputters)
         /\ ops[t] = <<>> => Expected(t, cur[t]) = Listed(goal[t], cur[t])
         /\ ops[t] # <<>> =>
              /\ o \in Outputters
              /\ \E k \in 0 .. Len(list) : Tail(ops[t]) = SubSeq(list, k + 1, Len(list))
              /\ Built(t, Tail(ops[t])) = IF o.type \in Known THEN Append(Built(t, ops[t]), o)
                                          ELSE Built(t, ops[t])
<1>. DEFINE list == goal[t][cur[t]].outputters
            N == Len(list)
            o == Head(ops[t])
<1>1. cur[t] \in DOMAIN goal[t] /\ cur[t] \notin todo[t]
  BY DEF AtWork
<1>2. list \in Seq(Outputters) /\ Listed(goal[t], cur[t]) = FirstKnown(list, N)
  BY <1>1, ListOf DEF Setting
<1>3. PICK k \in 0 .. N : ops[t] = Rest(list, k)
  BY DEF AtWork, Rest
<1>4. \A rest : Built(t, rest) = FirstKnown(list, N - Len(rest))
  BY DEF Built
<1>5. Expected(t, cur[t]) = Built(t, ops[t])
  BY <1>4 DEF Expected, Clearing, Building
<1>. HIDE DEF list, o
<1>6. /\ N - Len(ops[t]) = k /\ (ops[t] = <<>> => k = N)
      /\ ops[t] # <<>> => k + 1 \in 1 .. N /\ Head(ops[t]) = list[k + 1] /\ Tail(ops[t]) = Rest(list, k + 1)
  BY <1>2, <1>3, RestOf
<1>7. Built(t, ops[t]) = FirstKnown(list, k) /\ FirstKnown(list, k) \in Seq(Outputters)
  BY <1>2, <1>4, <1>6, KnownRounds
<1>8. ops[t] = <<>> => Expected(t, cur[t]) = Listed(goal[t], cur[t])
  BY <1>2, <1>5, <1>6, <1>7
<1>9. ASSUME ops[t] # <<>>
      PROVE  /\ o \in Outputters
             /\ \E j \in 0 .. N : Tail(ops[t]) = SubSeq(list, j + 1, N)
             /\ Built(t, Tail(ops[t])) = IF o.type \in Known THEN Append(Built(t, ops[t]), o)
                                         ELSE Built(t, ops[t])
  <2>1. k + 1 \in 1 .. N /\ o = list[k + 1] /\ Tail(ops[t]) = Rest(list, k + 1)
    BY <1>6, <1>9 DEF o
  <2>2. k + 1 \in 0 .. N /\ (k + 1) - 1 = k
    BY <2>1
  <2>3. o \in Outputters
    BY <1>2, <2>1, ElementOfSeq
  <2>4. N - Len(Tail(ops[t])) = k + 1
    <3>1. N - Len(Rest(list, k + 1)) = k + 1
      BY <1>2, <2>2, RestOf
    <3>. QED
      BY <2>1, <3>1
  <2>5. Built(t, Tail(ops[t])) = FirstKnown(list, k + 1)
    BY <1>4, <2>4
  <2>. HIDE DEF N
  <2>6. FirstKnown(list, k + 1) = IF list[k + 1].type \in Known
                                  THEN Append(FirstKnown(list, (k + 1) - 1), list[k + 1])
                                  ELSE FirstKnown(list, (k + 1) - 1)
    BY <1>2, <2>1, KnownRounds DEF N, Known
  <2>7. \E j \in 0 .. N : Tail(ops[t]) = SubSeq(list, j + 1, N)
    BY <2>1, <2>2 DEF Rest, N
  <2>. QED
    BY <1>7, <2>1, <2>2, <2>3, <2>5, <2>6, <2>7
<1>. QED
  BY <1>1, <1>5, <1>7, <1>8, <1>9 DEF list, o

LEMMA DoneConfiguring ==
  ASSUME Configuring, NEW t \in Loaders, LoggerDone(t)
  PROVE  Configuring'
<1>1. Shape
  BY DEF Configuring
<1>2. /\ pc[t] = "build" /\ pc' = [pc EXCEPT ![t] = "add"] /\ cur' = [cur EXCEPT ![t] = Root]
      /\ ops[t] = <<>>
      /\ UNCHANGED <<disk, noted, val, overlapped, outputters, cleared, goal, todo, ops>>
  BY DEF LoggerDone, Step, Goes, Listener
<1>3. Moves(t) /\ pc'[t] = "add" /\ goal'[t] = goal[t] /\ todo'[t] = todo[t]
  BY <1>1, <1>2 DEF Shape, Moves
<1>4. pc[t] \in Setting /\ pc'[t] \in Setting
  BY <1>2, <1>3 DEF Setting, Building
<1>5. ASSUME AtWork(t) PROVE AtWork(t)' /\ \A l \in Loggers : Expected(t, l)' = Expected(t, l)
  <2>1. todo[t] \subseteq DOMAIN goal[t]
    BY <1>2, <1>5 DEF AtWork, Building
  <2>2. AtWork(t)'
    BY <1>3, <2>1 DEF AtWork, Building
  <2>3. cur[t] \notin todo[t] /\ Expected(t, cur[t]) = Listed(goal[t], cur[t])
    BY <1>1, <1>2, <1>5, BuildStep DEF Building
  <2>4. ASSUME NEW l \in Loggers PROVE Expected(t, l)' = Expected(t, l)
    <3>1. Expected(t, l)' = IF l \in todo[t] THEN <<>> ELSE Listed(goal[t], l)
      BY <1>3 DEF Expected, Clearing, Building, Listed
    <3>2. CASE l = cur[t]
      BY <2>3, <3>1, <3>2
    <3>3. CASE l # cur[t]
      BY <1>2, <3>1, <3>3 DEF Expected, Clearing, Building
    <3>. QED
      BY <3>2, <3>3
  <2>. QED
    BY <2>2, <2>4
<1>. QED
  BY <1>2, <1>3, <1>4, <1>5, ListsStay

\* An outputter is made, or its type is not known and it is passed over.
LEMMA ConstructConfiguring ==
  ASSUME Configuring, NEW t \in Loaders, Construct(t) \/ UnknownType(t)
  PROVE  Configuring'
<1>1. Shape
  BY DEF Configuring
<1>2. /\ pc[t] = "build" /\ ops[t] # <<>>
      /\ UNCHANGED <<disk, noted, val, overlapped, outputters, cleared, goal, todo, cur>>
  BY DEF Construct, UnknownType, Build, Step, Listener
<1>3. pc[t] \in Setting /\ pc[t] \in Building
  BY <1>2 DEF Setting, Building
<1>4. CASE Construct(t)
  <2>1. /\ pc' = [pc EXCEPT ![t] = "list"] /\ UNCHANGED ops
        /\ Head(ops[t]).type \in {"FileLogOutputter", "StdoutOutputter"}
    BY <1>4 DEF Construct, Goes
  <2>2. /\ Moves(t) /\ pc'[t] = "list" /\ goal'[t] = goal[t] /\ todo'[t] = todo[t]
        /\ cur'[t] = cur[t] /\ ops'[t] = ops[t]
    BY <1>1, <1>2, <2>1 DEF Shape, Moves
  <2>3. AtWork(t) => AtWork(t)'
    BY <1>2, <2>1, <2>2 DEF AtWork, Building
  <2>4. \A l : Expected(t, l)' = Expected(t, l)
    BY <1>2, <2>2 DEF Expected, Clearing, Building, FirstKnown, Listed
  <2>5. pc'[t] \in Setting
    BY <2>2 DEF Setting, Building
  <2>. QED
    BY <1>2, <1>3, <2>2, <2>3, <2>4, <2>5, ListsStay
<1>5. CASE UnknownType(t)
  <2>1. UNCHANGED pc /\ ops' = [ops EXCEPT ![t] = Tail(ops[t])] /\ Head(ops[t]).type \notin Known
    BY <1>5 DEF UnknownType, Known
  <2>2. /\ Moves(t) /\ pc'[t] = "build" /\ goal'[t] = goal[t] /\ todo'[t] = todo[t]
        /\ cur'[t] = cur[t] /\ ops'[t] = Tail(ops[t])
    BY <1>1, <1>2, <2>1 DEF Shape, Moves
  <2>3. ASSUME AtWork(t) PROVE AtWork(t)' /\ \A l \in Loggers : Expected(t, l)' = Expected(t, l)
    <3>. DEFINE list == goal[t][cur[t]].outputters
    <3>1. /\ Built(t, Tail(ops[t])) = Built(t, ops[t]) /\ Expected(t, cur[t]) = Built(t, ops[t])
          /\ \E k \in 0 .. Len(list) : Tail(ops[t]) = SubSeq(list, k + 1, Len(list))
      BY <1>1, <1>2, <1>3, <2>1, <2>3, BuildStep
    <3>2. list = goal'[t][cur'[t]].outputters
      BY <2>2
    <3>. HIDE DEF list
    <3>3. AtWork(t)'
      BY <1>2, <2>2, <2>3, <3>1, <3>2 DEF AtWork, Building
    <3>4. ASSUME NEW l \in Loggers PROVE Expected(t, l)' = Expected(t, l)
      <4>1. CASE l = cur[t]
        <5>1. Expected(t, l)' = Built(t, Tail(ops[t]))
          BY <2>2, <4>1 DEF Expected, Clearing, Building, Built, FirstKnown
        <5>. QED
          BY <3>1, <4>1, <5>1
      <4>2. CASE l # cur[t]
        BY <1>2, <2>2, <4>2 DEF Expected, Clearing, Building, Listed
      <4>. QED
        BY <4>1, <4>2
    <3>. QED
      BY <3>3, <3>4
  <2>4. pc'[t] \in Setting
    BY <2>2 DEF Setting, Building
  <2>. QED
    BY <1>2, <1>3, <2>2, <2>3, <2>4, ListsStay
<1>. QED
  BY <1>4, <1>5

LEMMA AddConfiguring ==
  ASSUME Listing, Configuring, NEW t \in Loaders, addOutputter(t)
  PROVE  Configuring'
<1>1. Shape
  BY DEF Configuring
<1>. DEFINE o == Head(ops[t])
            f == IF o.own THEN Nobody ELSE formatter[cur[t]]
            new == [type |-> o.type, own |-> o.own, formatter |-> f]
<1>2. /\ pc[t] = "list" /\ pc' = [pc EXCEPT ![t] = "build"]
      /\ ops' = [ops EXCEPT ![t] = Tail(ops[t])]
      /\ outputters' = [outputters EXCEPT ![cur[t]] = Append(outputters[cur[t]], new)]
      /\ UNCHANGED <<disk, noted, val, overlapped, cleared, goal, todo, cur>>
  BY DEF addOutputter, Step, Goes, Listener
<1>3. pc[t] \in Setting /\ pc[t] \in Building /\ "build" \in Setting
  BY <1>2 DEF Setting, Building
<1>4. /\ Moves(t) /\ pc'[t] = "build" /\ goal'[t] = goal[t] /\ todo'[t] = todo[t]
      /\ cur'[t] = cur[t] /\ ops'[t] = Tail(ops[t])
  BY <1>1, <1>2 DEF Shape, Moves
<1>5. t \in InLoad /\ Shape' /\ Others(t)
  <2>1. val' \in Values /\ goal'[t] \in Values
    BY <1>1, <1>2, <1>3, <1>4, GoalIs
  <2>. HIDE DEF new, f, o
  <2>. QED
    BY <1>3, <1>4, <2>1, LoadMoves
<1>6. ASSUME NEW l \in Loggers
      PROVE  Has(l)' = IF l = cur[t] THEN Append(Has(l), [type |-> o.type, own |-> o.own]) ELSE Has(l)
  <2>1. outputters'[l] = IF l = cur[t] THEN Append(outputters[l], new) ELSE outputters[l]
    BY <1>2 DEF Listing
  <2>2. Plains(Append(outputters[l], new)) = Append(Plains(outputters[l]), [type |-> o.type, own |-> o.own])
    BY PlainsAppend DEF Listing
  <2>. QED
    BY <2>1, <2>2 DEF Has
<1>. HIDE DEF new, f, o
<1>7. ASSUME Builds(t) PROVE Builds(t)'
  <2>. DEFINE list == goal[t][cur[t]].outputters
  <2>1. /\ AtWork(t) /\ ops[t] # <<>> /\ o.type \in Known
        /\ \A l \in Loggers : Has(l) = Base(l) \o Expected(t, l)
    BY <1>2, <1>7 DEF Builds, AtWork, o, Known
  <2>2. /\ Expected(t, cur[t]) = Built(t, ops[t]) /\ Built(t, ops[t]) \in Seq(Outputters)
        /\ \E k \in 0 .. Len(list) : Tail(ops[t]) = SubSeq(list, k + 1, Len(list))
        /\ o \in Outputters
        /\ Built(t, Tail(ops[t])) = Append(Built(t, ops[t]), o)
    BY <1>1, <1>3, <2>1, BuildStep DEF o
  <2>3. list = goal'[t][cur'[t]].outputters
    BY <1>4
  <2>. HIDE DEF list
  <2>4. AtWork(t)'
    BY <1>2, <1>4, <2>1, <2>2, <2>3 DEF AtWork, Building
  <2>5. \A l : Base(l)' = Base(l)
    BY <1>2 DEF Base
  <2>6. ASSUME NEW l \in Loggers PROVE Has(l)' = Base(l)' \o Expected(t, l)'
    <3>1. CASE l = cur[t]
      <4>1. Expected(t, l)' = Append(Built(t, ops[t]), o)
        <5>1. Expected(t, l)' = Built(t, Tail(ops[t]))
          BY <1>4, <3>1 DEF Expected, Clearing, Building, Built, FirstKnown
        <5>. QED
          BY <2>2, <5>1
      <4>2. Has(l)' = Append(Has(l), o)
        <5>1. o = [type |-> o.type, own |-> o.own]
          BY <2>2, PlainTwice
        <5>. QED
          BY <1>6, <3>1, <5>1
      <4>3. Has(l) = Base(l) \o Built(t, ops[t])
        BY <2>1, <2>2, <3>1
      <4>4. Append(Base(l) \o Built(t, ops[t]), o) = Base(l) \o Append(Built(t, ops[t]), o)
        <5>. DEFINE a == Base(l)
                    b == Built(t, ops[t])
        <5>1. a \in Seq(Outputters) /\ b \in Seq(Outputters) /\ o \in Outputters
          BY <2>2, BaseIs
        <5>. HIDE DEF a, b
        <5>2. Append(a \o b, o) = a \o Append(b, o)
          BY <5>1, AppendToConcat
        <5>. QED
          BY <5>2 DEF a, b
      <4>. QED
        BY <2>5, <4>1, <4>2, <4>3, <4>4
    <3>2. CASE l # cur[t]
      <4>1. Expected(t, l)' = Expected(t, l)
        BY <1>2, <1>4, <3>2 DEF Expected, Clearing, Building, Listed
      <4>. QED
        BY <1>6, <2>1, <2>5, <3>2, <4>1
    <3>. QED
      BY <3>1, <3>2
  <2>. QED
    BY <2>4, <2>6 DEF Builds
<1>8. Carries(t) => Carries(t)'
  BY <1>2, <1>4 DEF Carries, disk, noted
<1>. QED
  BY <1>2, <1>3, <1>4, <1>5, <1>7, <1>8, GoesOn

LEMMA LoadConfiguring ==
  ASSUME Listing, Configuring, NEW t \in Loaders, LoadFromConfDir(t) \/ Load(t)
  PROVE  Configuring'
<1>1. CASE LoadFromConfDir(t) \/ PassOver(t) \/ Note(t) \/ LoadFails(t)
  BY <1>1, ReadConfiguring
<1>2. CASE LoadFromYaml(t)
  BY <1>2, FoundConfiguring
<1>3. CASE fromString(t) \/ setValue(t)
  BY <1>3, RefusedConfiguring, SetConfiguring
<1>4. CASE ClearLevel(t) \/ clearOutputters(t)
  BY <1>4, ClearLevelConfiguring, ClearConfiguring
<1>5. CASE ClearDone(t) \/ ReadUnlock(t)
  BY <1>5, BetweenConfiguring
<1>6. CASE SetLevel(t) \/ LoggerDone(t)
  BY <1>6, SetLevelConfiguring, DoneConfiguring
<1>7. CASE Construct(t) \/ UnknownType(t)
  BY <1>7, ConstructConfiguring
<1>8. CASE addOutputter(t) \/ Assign(t)
  BY <1>8, AddConfiguring, AssignConfiguring
<1>. QED
  BY <1>1, <1>2, <1>3, <1>4, <1>5, <1>6, <1>7, <1>8 DEF Load

\* A formatter changes no type and no pattern.
LEMMA FormatterConfiguring ==
  ASSUME Listing, Configuring, NEW t \in Writers, setFormatter(t)
  PROVE  Configuring'
<1>1. PICK l \in Loggers, f \in Formatters :
        outputters' = [outputters EXCEPT ![l] = Restyled(outputters[l], f)]
  BY DEF setFormatter, Restyled
<1>2. UNCHANGED <<disk, noted, val, pc, goal, todo, cur, ops, cleared, overlapped>>
  BY DEF setFormatter, loader
<1>3. ASSUME NEW k \in Loggers PROVE Has(k)' = Has(k)
  <2>1. outputters'[k] = IF k = l THEN Restyled(outputters[k], f) ELSE outputters[k]
    BY <1>1 DEF Listing
  <2>2. IsList(outputters[k])
    BY DEF Listing
  <2>3. Plains(outputters'[k]) = Plains(outputters[k])
    BY <2>1, <2>2, PlainsRestyled
  <2>. QED
    BY <2>3 DEF Has
<1>. QED
  BY <1>2, <1>3, ConfigFrame

LEMMA ConfiguringHolds == Spec => []Configuring
<1>1. Listing /\ Configuring /\ [Next]_vars => Configuring'
  <2>. SUFFICES ASSUME Listing, Configuring, [Next]_vars PROVE Configuring'
    OBVIOUS
  <2>1. ASSUME UNCHANGED <<disk, noted, val, pc, goal, todo, cur, ops, cleared, overlapped>>,
               UNCHANGED outputters
        PROVE  Configuring'
    <3>1. \A l \in Loggers : Has(l)' = Has(l)
      BY <2>1 DEF Has
    <3>. QED
      BY <2>1, <3>1, ConfigFrame
  <2>2. CASE UNCHANGED vars
    BY <2>1, <2>2 DEF vars, noted, loader, loggers
  <2>3. ASSUME NEW t \in Threads, Log(t) PROVE Configuring'
    <3>1. UNCHANGED cleared
      BY <2>3 DEF Log, LogTest, LogLock, Outputs, FallsBack, LogUnlock, Writing
    <3>2. UNCHANGED <<disk, noted, val, pc, goal, todo, cur, ops, overlapped, outputters>>
      BY <2>3 DEF Log, LogTest, LogLock, Outputs, FallsBack, LogUnlock, Writing, loader, loggers
    <3>. QED
      BY <2>1, <3>1, <3>2
  <2>4. ASSUME NEW t \in Writers, LogCall(t) PROVE Configuring'
    BY <2>1, <2>4 DEF LogCall, loader, loggers
  <2>. QED
    BY <2>2, <2>3, <2>4, EditConfiguring, FormatterConfiguring, LoadConfiguring DEF Next
<1>. QED
  BY InitConfiguring, ListingHolds, <1>1, PTL DEF Spec

(***************************************************************************)
(* Once every load has returned (Config.cpp:62-92, ConfigItem.hpp:41-58),  *)
(* and unless two overlapped, each logger has the outputters of the stored *)
(* value, each once (LogConfItem.h:53-75), and the stored value is what    *)
(* the file says, unless the file is refused or has changed within the     *)
(* second that was noted.                                                  *)
(***************************************************************************)
THEOREM LoggingConfiguredWhenQuiet == Spec => []ConfiguredWhenQuiet
<1>1. Configuring => ConfiguredWhenQuiet
  <2>. SUFFICES ASSUME Configuring, \A t \in Loaders : pc[t] = "idle", ~overlapped
                PROVE  /\ \A l \in Loggers :
                            Has(l) = IF l \in cleared
                                     THEN SubSeq(Wanted(l), Len(Initial(l)) + 1, Len(Wanted(l)))
                                     ELSE Wanted(l)
                       /\ modTime = file.time /\ ~sneaked /\ ReadableLogs(file.doc)
                            => val = Converted(file.doc[Logs])
    BY DEF ConfiguredWhenQuiet
  <2>1. InLoad = {} /\ \A t \in Loaders : pc[t] # "parse"
    BY DEF InLoad
  <2>2. Shape /\ Rests /\ Fresh
    BY DEF Configuring
  <2>3. ASSUME NEW l \in Loggers
        PROVE  Has(l) = IF l \in cleared
                        THEN SubSeq(Wanted(l), Len(Initial(l)) + 1, Len(Wanted(l)))
                        ELSE Wanted(l)
    <3>. DEFINE first == Plains(Initial(l))
                v == Listed(val, l)
    <3>1. first \in Seq(Outputters) /\ v \in Seq(Outputters)
      BY <2>2, BaseIs, ListedIs DEF Shape
    <3>2. Has(l) = Base(l) \o v
      BY <2>1, <2>2 DEF Rests
    <3>3. Len(first) = Len(Initial(l))
      <4>1. Initial(l) \in Seq({Console(Default)})
        <5>. DEFINE o == Console(Default)
        <5>. HIDE DEF o
        <5>1. <<>> \in Seq({o}) /\ <<o>> \in Seq({o})
          OBVIOUS
        <5>. QED
          BY <5>1 DEF Initial, o
      <4>2. Len(Initial(l)) \in Nat /\ DOMAIN Initial(l) = 1 .. Len(Initial(l))
        BY <4>1
      <4>3. DOMAIN first = 1 .. Len(Initial(l))
        BY <4>2 DEF Plains
      <4>. HIDE DEF first
      <4>. QED
        BY <3>1, <4>2, <4>3
    <3>4. Wanted(l) = first \o v
      BY DEF Wanted
    <3>. HIDE DEF first, v
    <3>5. CASE l \in cleared
      <4>1. Has(l) = v
        BY <3>1, <3>2, <3>5, ConcatEmptySeq DEF Base
      <4>2. SubSeq(first \o v, Len(first) + 1, Len(first \o v)) = v
        BY <3>1, RestOfConcat
      <4>. QED
        BY <3>3, <3>4, <3>5, <4>1, <4>2
    <3>6. CASE l \notin cleared
      BY <3>2, <3>4, <3>6 DEF Base, first
    <3>. QED
      BY <3>5, <3>6
  <2>4. modTime = file.time /\ ~sneaked /\ ReadableLogs(file.doc) => val = Converted(file.doc[Logs])
    BY <2>1, <2>2 DEF Fresh
  <2>. QED
    BY <2>3, <2>4
<1>. QED
  BY <1>1, ConfiguringHolds, PTL

=============================================================================
