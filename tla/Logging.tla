------------------------------- MODULE Logging --------------------------------
(***************************************************************************)
(* The configuration item "logs" and the loggers it configures: threads    *)
(* that load the configuration file (config/), whose item notifies its     *)
(* listener before it takes the new value (ConfigItem.hpp), the listener   *)
(* that rebuilds the outputters (log/LogConfItem.h), and threads that log  *)
(* or set a formatter meanwhile (log/Logger.cpp).                          *)
(*                                                                         *)
(* The value of the item is a function from the loggers it names to the    *)
(* level and the outputters of each.  The read lock of the item is held    *)
(* across steps; the assignment under its write lock is one action.  The   *)
(* spinlock of a logger is held while its outputters write.  The mutex of  *)
(* an outputter is only taken by who holds that lock, or before the        *)
(* outputter is listed, and those of the two tables are leaves: they add   *)
(* no wait.                                                                *)
(***************************************************************************)
EXTENDS Naturals, Sequences, FiniteSets, ConfigFile

CONSTANTS
  Loggers, Root,
  System,        \* the logger of Config.cpp
  Loaders,       \* threads that call LoadFromConfDir
  Writers,       \* threads that log and call setFormatter
  Documents,     \* what the file may hold
  Malformed,     \* a file that is no YAML
  Formatters,    \* formatters set by Writers
  Default,       \* the formatter of a new logger
  MaxLoads,      \* bound: loads of each loader
  MaxEdits,      \* bound: changes of the file
  MaxCalls,      \* bound: messages and formatters of each writer
  Nobody

Threads == Loaders \cup Writers

ASSUME LoggingAssumption ==
  /\ {Root, System} \subseteq Loggers /\ Nobody \notin Threads \cup Loggers
  /\ Loaders \cap Writers = {} /\ Malformed \notin Documents
  /\ MaxLoads \in Nat /\ MaxEdits \in Nat /\ MaxCalls \in Nat

ASSUME DocumentsAssumption ==
  /\ IsNodeNameValid(Logs)
  /\ \A doc \in Documents : Logs \in DOMAIN doc =>
       \A l \in Entries(doc[Logs]) : IsEntry(doc[Logs][l])

\* The levels that are told apart.
Unknown == 0
Debug   == 1
Info    == 2
Error   == 4

VARIABLES
  file,          \* what is on disk: its document and the second of its last change
  modTime,       \* s_conf_file_mod_time of the file, 0 before it is noted
  stat,          \* what lstat() has told each loader
  val,           \* ConfigItem::m_val
  readers,       \* who holds the read lock of the item
  level,         \* Logger::m_level
  outputters,    \* Logger::m_outputters
  formatter,     \* Logger::m_formatter
  owner,         \* who holds Logger::m_mutex
  stack,         \* calls of Logger::log in progress, the innermost first
  pc,            \* where each loader is
  goal,          \* the node it has found, then the value it is setting
  todo,          \* loggers its listener has still to visit
  cur,           \* the logger it works on
  ops,           \* outputters still to be built for it
  calls,         \* calls each thread has made
  edits,         \* changes of the file
  cleared,       \* history: loggers whose outputters a listener has cleared
  overlapped,    \* history: a file was read before what was read earlier was stored
  sneaked,       \* history: the file changed without a new time
  lost           \* history: a message met no outputter at all

disk    == <<file, edits, sneaked>>
noted   == <<modTime, stat>>
loggers == <<level, outputters, formatter>>
loader  == <<pc, goal, todo, cur, ops>>
vars == <<disk, noted, val, readers, loggers, owner, stack, loader, calls,
          cleared, overlapped, lost>>

Console(f) == [type |-> "StdoutOutputter", own |-> FALSE, formatter |-> f]

\* LoggerManager gives the root logger a console, the others none.
Initial(l) == IF l = Root THEN <<Console(Default)>> ELSE <<>>

Init ==
  /\ file \in [doc : Documents \cup {Malformed}, time : {1}]
  /\ modTime = 0 /\ stat = [t \in Loaders |-> 0]
  /\ val = <<>> /\ readers = {}
  /\ level = [l \in Loggers |-> Debug]
  /\ outputters = [l \in Loggers |-> Initial(l)]
  /\ formatter = [l \in Loggers |-> Default]
  /\ owner = [l \in Loggers |-> Nobody]
  /\ stack = [t \in Threads |-> <<>>]
  /\ pc = [t \in Loaders |-> "idle"] /\ goal = [t \in Loaders |-> <<>>]
  /\ todo = [t \in Loaders |-> {}] /\ cur = [t \in Loaders |-> Root]
  /\ ops = [t \in Loaders |-> <<>>]
  /\ calls = [t \in Threads |-> 0] /\ edits = 0
  /\ cleared = {} /\ overlapped = FALSE /\ sneaked = FALSE /\ lost = FALSE

-----------------------------------------------------------------------------
(* Locks: a spinlock of a logger that is held across steps, or only within  *)
(* one; the read lock of the item, and its write lock within one step.      *)
Free(l) == owner[l] = Nobody
Lock(l, t) == Free(l) /\ owner' = [owner EXCEPT ![l] = t]
Unlock(l) == owner' = [owner EXCEPT ![l] = Nobody]

rdlock(t) == readers' = readers \cup {t}
rdunlock(t) == readers' = readers \ {t}
wrlocked == readers = {}

-----------------------------------------------------------------------------
(* Logger::log                                                             *)

\* A call as the macros make it: nothing happens below the level.
Called(l, lv, rest) ==
  IF level[l] > lv THEN rest
  ELSE <<[logger |-> l, level |-> lv, at |-> "test", i |-> 1]>> \o rest

Calls(t, l, lv) == stack' = [stack EXCEPT ![t] = Called(l, lv, @)]

Top(t) == Head(stack[t])
Returns(t) == stack' = [stack EXCEPT ![t] = Tail(@)]
At(t, label) == stack[t] # <<>> /\ Top(t).at = label
Writing == UNCHANGED <<disk, noted, val, readers, loggers, loader, calls, cleared, overlapped>>

LogCall(t) ==
  /\ stack[t] = <<>> /\ calls[t] < MaxCalls
  /\ calls' = [calls EXCEPT ![t] = @ + 1]
  /\ \E l \in Loggers : level[l] <= Info /\ Calls(t, l, Info)
  /\ UNCHANGED <<disk, noted, val, readers, loggers, owner, loader, cleared, overlapped, lost>>

LogTest(t) ==
  /\ At(t, "test")
  /\ IF Top(t).level >= level[Top(t).logger]
     THEN stack' = [stack EXCEPT ![t][1].at = "lock"]
     ELSE Returns(t)
  /\ Writing /\ UNCHANGED <<owner, lost>>

LogLock(t) ==
  /\ At(t, "lock") /\ Lock(Top(t).logger, t)
  /\ stack' = [stack EXCEPT ![t][1].at = "each"]
  /\ Writing /\ UNCHANGED lost

\* Mutant: the root logger falls back on itself.
MutSelf(l) == Root

\* m_root, which the root logger has none of.
Parent(l) == IF l = Root THEN Nobody ELSE Root

\* LogFileOutputter::reopen() says so to the root logger when it cannot open its
\* file; other outputters have none.
reopen(type, rest) ==
  {rest} \cup (IF type = "FileLogOutputter" THEN {Called(Root, Error, rest)} ELSE {})

\* The i'th outputter writes.  A file outputter may open its file anew first.
Outputs(t) ==
  LET l == Top(t).logger IN
  /\ At(t, "each") /\ Top(t).i <= Len(outputters[l])
  /\ \E calling \in reopen(outputters[l][Top(t).i].type,
                            <<[Top(t) EXCEPT !.i = @ + 1]>> \o Tail(stack[t])) :
       stack' = [stack EXCEPT ![t] = calling]
  /\ Writing /\ UNCHANGED <<owner, lost>>

\* A logger without outputters hands the message to the root logger.
FallsBack(t) ==
  LET l == Top(t).logger
      next == [Top(t) EXCEPT !.i = @ + 1] IN
  /\ At(t, "each") /\ outputters[l] = <<>> /\ Top(t).i = 1
  /\ IF Parent(l) = Nobody
     THEN stack' = [stack EXCEPT ![t] = <<next>> \o Tail(@)] /\ lost' = TRUE
     ELSE /\ stack' = [stack EXCEPT ![t] =
                         <<[logger |-> Parent(l), level |-> Top(t).level, at |-> "test", i |-> 1],
                           next>> \o Tail(@)]
          /\ UNCHANGED lost
  /\ Writing /\ UNCHANGED owner

LogUnlock(t) ==
  LET l == Top(t).logger IN
  /\ At(t, "each") /\ Top(t).i > Len(outputters[l]) /\ Top(t).i > 1
  /\ Unlock(l)
  /\ Returns(t)
  /\ Writing /\ UNCHANGED lost

Log(t) == LogTest(t) \/ LogLock(t) \/ Outputs(t) \/ FallsBack(t) \/ LogUnlock(t)

-----------------------------------------------------------------------------
(* Formatters                                                              *)

\* Mutant: the outputters keep the formatter they were listed with.
MutLoggerOnly(t) ==
  /\ stack[t] = <<>> /\ calls[t] < MaxCalls
  /\ calls' = [calls EXCEPT ![t] = @ + 1]
  /\ \E l \in Loggers, f \in Formatters :
       /\ Free(l)
       /\ formatter' = [formatter EXCEPT ![l] = f]
       /\ UNCHANGED outputters
  /\ UNCHANGED <<disk, noted, val, readers, level, owner, stack, loader, cleared,
                 overlapped, lost>>

\* Logger::setFormatter.
setFormatter(t) ==
  /\ stack[t] = <<>> /\ calls[t] < MaxCalls
  /\ calls' = [calls EXCEPT ![t] = @ + 1]
  /\ \E l \in Loggers, f \in Formatters :
       /\ Free(l)
       /\ formatter' = [formatter EXCEPT ![l] = f]
       /\ outputters' = [outputters EXCEPT ![l] =
                           [i \in DOMAIN @ |-> IF @[i].own THEN @[i]
                                               ELSE [@[i] EXCEPT !.formatter = f]]]
  /\ UNCHANGED <<disk, noted, val, readers, level, owner, stack, loader, cleared,
                 overlapped, lost>>

-----------------------------------------------------------------------------
(* Config::LoadFromConfDir, ConfigItem::setValue and the listener          *)

\* The file changes, in the second of its last change or in a later one.
Edit ==
  /\ edits < MaxEdits /\ edits' = edits + 1
  /\ \E doc \in Documents \cup {Malformed}, d \in {0, 1} :
       /\ file' = [doc |-> doc, time |-> file.time + d]
       /\ sneaked' = (sneaked \/ (d = 0 /\ modTime = file.time))
  /\ UNCHANGED <<noted, val, readers, loggers, owner, stack, loader, calls, cleared,
                 overlapped, lost>>

Step(t, from) == pc[t] = from /\ stack[t] = <<>>
Goes(t, to) == pc' = [pc EXCEPT ![t] = to]

\* lstat() of the file; then its time is compared with the one noted, and then it
\* is parsed.  No lock covers the three.
LoadFromConfDir(t) ==
  /\ Step(t, "idle") /\ calls[t] < MaxLoads
  /\ calls' = [calls EXCEPT ![t] = @ + 1]
  /\ stat' = [stat EXCEPT ![t] = file.time]
  /\ Goes(t, "compare")
  /\ UNCHANGED <<disk, modTime, val, readers, loggers, owner, stack, goal, todo, cur, ops,
                 cleared, overlapped, lost>>

Compare(t) ==
  /\ Step(t, "compare")
  /\ stat' = [stat EXCEPT ![t] = 0]
  /\ UNCHANGED <<disk, val, readers, loggers, owner, stack, goal, todo, cur, ops, calls,
                 cleared, overlapped, lost>>

\* A file whose time is the one noted is passed over.
PassOver(t) ==
  /\ Compare(t) /\ modTime = stat[t]
  /\ Goes(t, "idle")
  /\ UNCHANGED modTime

Note(t) ==
  /\ Compare(t) /\ modTime # stat[t]
  /\ modTime' = stat[t]
  /\ Goes(t, "parse")

\* Who has read a file and not yet stored or refused what it says.
InLoad == {u \in Loaders : pc[u] \notin {"idle", "compare", "parse"}}

\* LoadFile() throws: the time stays noted.
LoadFails(t) ==
  /\ Step(t, "parse") /\ file.doc = Malformed
  /\ Goes(t, "idle") /\ Calls(t, System, Error)
  /\ UNCHANGED <<disk, noted, val, readers, loggers, owner, goal, todo, cur, ops, calls,
                 cleared, overlapped, lost>>

\* The nodes of the file are visited, and names that are refused are reported;
\* without a node for the item the load is over.
LoadFromYaml(t) ==
  LET found == SearchBase(file.doc)
      rest  == IF found THEN stack[t] ELSE Called(System, Info, stack[t]) IN
  /\ Step(t, "parse") /\ file.doc # Malformed
  /\ IF found THEN goal' = [goal EXCEPT ![t] = file.doc[Logs]] /\ Goes(t, "convert")
     ELSE Goes(t, "idle") /\ UNCHANGED goal
  /\ stack' = [stack EXCEPT ![t] = IF VisitNodesDFS(file.doc) = DOMAIN file.doc THEN rest
                                   ELSE Called(System, Error, rest)]
  /\ overlapped' = (overlapped \/ InLoad # {})
  /\ UNCHANGED <<disk, noted, val, readers, loggers, owner, todo, cur, ops, calls,
                 cleared, lost>>

\* fromString() reports what its converter throws, and the value stays; the load
\* is reported as if it had not.
fromString(t) ==
  /\ Step(t, "convert") /\ Throws(goal[t])
  /\ goal' = [goal EXCEPT ![t] = <<>>]
  /\ Goes(t, "idle") /\ Calls(t, System, Info)
  /\ UNCHANGED <<disk, noted, val, readers, loggers, owner, todo, cur, ops, calls,
                 cleared, overlapped, lost>>

\* The beginning of setValue: the read lock, the comparison and the first words
\* of the listener.
setValue(t) ==
  /\ Step(t, "convert") /\ ~Throws(goal[t])
  /\ IF Converted(goal[t]) = val
     THEN /\ Goes(t, "idle") /\ Calls(t, System, Info)
          /\ goal' = [goal EXCEPT ![t] = <<>>]
          /\ UNCHANGED <<readers, todo>>
     ELSE /\ rdlock(t)
          /\ goal' = [goal EXCEPT ![t] = Converted(@)]
          /\ todo' = [todo EXCEPT ![t] = DOMAIN val]
          /\ Calls(t, Root, Info)
          /\ Goes(t, "clear")
  /\ UNCHANGED <<disk, noted, val, loggers, owner, cur, ops, calls, cleared, overlapped, lost>>

Listener == UNCHANGED <<disk, noted, val, formatter, goal, calls, overlapped, lost>>

\* Loggers of the old value: every message passes, and no outputter is left.
ClearLevel(t) ==
  /\ Step(t, "clear") /\ todo[t] # {}
  /\ \E l \in todo[t] :
       /\ level' = [level EXCEPT ![l] = Unknown]
       /\ cur' = [cur EXCEPT ![t] = l]
       /\ todo' = [todo EXCEPT ![t] = @ \ {l}]
  /\ Goes(t, "clearOutputters")
  /\ Listener /\ UNCHANGED <<readers, outputters, owner, stack, ops, cleared>>

\* Mutant: the outputters of the old value stay.
MutKeepOld(t) ==
  /\ Step(t, "clearOutputters") /\ Free(cur[t])
  /\ cleared' = cleared \cup {cur[t]}
  /\ Goes(t, "clear")
  /\ Listener /\ UNCHANGED <<readers, level, outputters, owner, stack, todo, cur, ops>>

clearOutputters(t) ==
  /\ Step(t, "clearOutputters") /\ Free(cur[t])
  /\ outputters' = [outputters EXCEPT ![cur[t]] = <<>>]
  /\ cleared' = cleared \cup {cur[t]}
  /\ cur' = [cur EXCEPT ![t] = Root]
  /\ Goes(t, "clear")
  /\ Listener /\ UNCHANGED <<readers, level, owner, stack, todo, ops>>

\* Mutant: every logger is cleared, named or not.
MutClearAll(t) ==
  /\ Step(t, "clear") /\ todo[t] = {} /\ Free(Root)
  /\ outputters' = [outputters EXCEPT ![Root] = <<>>]
  /\ todo' = [todo EXCEPT ![t] = DOMAIN goal[t]]
  /\ Goes(t, "add")
  /\ Listener /\ UNCHANGED <<readers, level, owner, stack, cur, ops, cleared>>

ClearDone(t) ==
  /\ Step(t, "clear") /\ todo[t] = {}
  /\ todo' = [todo EXCEPT ![t] = DOMAIN goal[t]]
  /\ Goes(t, "add")
  /\ Listener /\ UNCHANGED <<readers, level, outputters, owner, stack, cur, ops, cleared>>

\* Loggers of the new value: the level, if it has a known name, then the
\* outputters one by one.
SetLevel(t) ==
  /\ Step(t, "add") /\ todo[t] # {}
  /\ \E l \in todo[t] :
       /\ level' = [level EXCEPT ![l] = IF goal[t][l].level \in {Unknown, Debug, Info, Error}
                                        THEN goal[t][l].level ELSE @]
       /\ cur' = [cur EXCEPT ![t] = l]
       /\ ops' = [ops EXCEPT ![t] = goal[t][l].outputters]
       /\ todo' = [todo EXCEPT ![t] = @ \ {l}]
  /\ Goes(t, "build")
  /\ Listener /\ UNCHANGED <<readers, outputters, owner, stack, cleared>>

Build(t) ==
  /\ Step(t, "build") /\ ops[t] # <<>>
  /\ Listener /\ UNCHANGED <<readers, level, outputters, owner, todo, cur, cleared>>

\* make_shared of an outputter; a file that cannot be opened is reported.
Construct(t) ==
  /\ Build(t)
  /\ Head(ops[t]).type \in {"FileLogOutputter", "StdoutOutputter"}
  /\ \E calling \in reopen(Head(ops[t]).type, stack[t]) : stack' = [stack EXCEPT ![t] = calling]
  /\ Goes(t, "list")
  /\ UNCHANGED ops

UnknownType(t) ==
  /\ Build(t)
  /\ Head(ops[t]).type \notin {"FileLogOutputter", "StdoutOutputter"}
  /\ Calls(t, Root, Info)
  /\ ops' = [ops EXCEPT ![t] = Tail(@)]
  /\ UNCHANGED pc

\* An outputter without a pattern of its own gets the formatter of its logger.
addOutputter(t) ==
  LET l == cur[t]
      op == Head(ops[t]) IN
  /\ Step(t, "list") /\ Free(l)
  /\ outputters' = [outputters EXCEPT ![l] =
                      Append(@, [type |-> op.type, own |-> op.own,
                                 formatter |-> IF op.own THEN Nobody ELSE formatter[l]])]
  /\ ops' = [ops EXCEPT ![t] = Tail(@)]
  /\ Goes(t, "build")
  /\ Listener /\ UNCHANGED <<readers, level, owner, stack, todo, cur, cleared>>

LoggerDone(t) ==
  /\ Step(t, "build") /\ ops[t] = <<>>
  /\ cur' = [cur EXCEPT ![t] = Root]
  /\ Goes(t, "add")
  /\ Listener /\ UNCHANGED <<readers, level, outputters, owner, stack, todo, ops, cleared>>

\* The listener returns, and with it the read lock.
ReadUnlock(t) ==
  /\ Step(t, "add") /\ todo[t] = {}
  /\ rdunlock(t)
  /\ Goes(t, "assign")
  /\ Listener /\ UNCHANGED <<level, outputters, owner, stack, todo, cur, ops, cleared>>

\* m_val = v under the write lock; the load is reported.
Assign(t) ==
  /\ Step(t, "assign") /\ wrlocked
  /\ val' = goal[t]
  /\ goal' = [goal EXCEPT ![t] = <<>>]
  /\ Goes(t, "idle") /\ Calls(t, System, Info)
  /\ UNCHANGED <<disk, noted, readers, loggers, owner, todo, cur, ops, calls,
                 cleared, overlapped, lost>>

Load(t) ==
  \/ PassOver(t) \/ Note(t) \/ LoadFails(t) \/ LoadFromYaml(t) \/ fromString(t)
  \/ setValue(t) \/ ClearLevel(t) \/ clearOutputters(t) \/ ClearDone(t)
  \/ SetLevel(t) \/ Construct(t) \/ UnknownType(t) \/ addOutputter(t) \/ LoggerDone(t)
  \/ ReadUnlock(t) \/ Assign(t)

-----------------------------------------------------------------------------
Next ==
  \/ Edit
  \/ \E t \in Threads : Log(t)
  \/ \E t \in Writers : LogCall(t) \/ setFormatter(t)
  \/ \E t \in Loaders : LoadFromConfDir(t) \/ Load(t)

Spec == Init /\ [][Next]_vars

\* A thread inside a call keeps running.  Calls are bounded, so that no spinlock
\* is taken again and again while another thread waits for it.
Fairness == \A t \in Threads : WF_vars(Log(t) \/ (t \in Loaders /\ Load(t)))

FairSpec == Spec /\ Fairness

-----------------------------------------------------------------------------
\* A thread waits for the lock of the root logger which it holds itself, because
\* a file outputter of that logger could not open its file and reports it.
ReportsToItself(t) ==
  /\ At(t, "lock") /\ Top(t).logger = Root /\ owner[Root] = t
  /\ Top(t).level = Error /\ \E i \in DOMAIN outputters[Root] :
                               outputters[Root][i].type = "FileLogOutputter"

\* Every call of log() and of LoadFromConfDir() returns, whatever is configured
\* meanwhile, unless the root logger has a file outputter that fails: then a
\* thread waits for itself while it holds the root's spinlock.
CallsReturn ==
  []<>(\/ \A t \in Threads : stack[t] = <<>> /\ (t \in Loaders => pc[t] = "idle")
       \/ \E t \in Threads : ReportsToItself(t))

\* What is listed can write: an outputter without a pattern of its own has the
\* formatter its logger has now, however listing and setFormatter interleave.
OutputtersFollow ==
  \A l \in Loggers : \A i \in DOMAIN outputters[l] :
    ~outputters[l][i].own => outputters[l][i].formatter = formatter[l]

Plain(op) == [type |-> op.type, own |-> op.own]

Plains(list) == [i \in DOMAIN list |-> Plain(list[i])]

\* Where a list names outputters of a known type.
KnownTypes(list) == {i \in DOMAIN list : list[i].type \in {"FileLogOutputter", "StdoutOutputter"}}

Listed(v, l) == IF l \in DOMAIN v THEN Kept(v[l].outputters, KnownTypes(v[l].outputters)) ELSE <<>>

\* The outputters a value asks for, in order; the root's console is there until
\* a value that names the root is replaced.
Wanted(l) == Plains(Initial(l)) \o Listed(val, l)

Has(l) == Plains(outputters[l])

ReadableLogs(doc) == doc # Malformed /\ Logs \in DOMAIN doc /\ ~Throws(doc[Logs])

\* Once every load has returned, and unless two loads overlapped,
\* each logger has the outputters of the stored value, each once; and the value
\* stored is the one of the file, unless the file changed within the second
\* whose time was noted, is refused, or spells the name of the item otherwise.
ConfiguredWhenQuiet ==
  (\A t \in Loaders : pc[t] = "idle") /\ ~overlapped
    => /\ \A l \in Loggers :
            Has(l) = IF l \in cleared THEN SubSeq(Wanted(l), Len(Initial(l)) + 1, Len(Wanted(l)))
                     ELSE Wanted(l)
       /\ modTime = file.time /\ ~sneaked /\ ReadableLogs(file.doc) => val = Converted(file.doc[Logs])

\* No message that passes the level of its logger is dropped while outputters
\* are replaced, unless a value has named the root logger: its console catches
\* what finds no other outputter.
NoMessageLost == lost => Root \in cleared

=============================================================================
