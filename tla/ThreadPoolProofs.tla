--------------------------- MODULE ThreadPoolProofs ---------------------------
(***************************************************************************)
(* Proofs about the pools of ThreadPool.tla, for any number of threads.    *)
(*                                                                         *)
(* That a Thread object outlives its function rests on what the owner's    *)
(* m_isQuited means (Quited): set, it says that the thread has ended, or   *)
(* that the owner is still in the wait of Thread::quit() for it.  That an  *)
(* EventLoop outlives its loop() rests on the flag the loop keeps itself   *)
(* (Looping): it is set as long as the thread runs in the loop, and no     *)
(* loop is destroyed while it is set.                                      *)
(***************************************************************************)
EXTENDS ThreadPool, TLAPS

OwnerLabels == {"fresh", "starting", "idle", "quit", "free", "waitLoop", "testEnd",
                "falling", "asleep", "gone"}

ThreadLabels == {"none", "entry", "fence", "func", "setEnd", "notify", "done", "lost",
                 "undefined"}

TypeInv ==
  /\ kind \in {"event", "plain"}
  /\ opc \in OwnerLabels /\ cur \in Threads
  /\ poolQuited \in BOOLEAN /\ destroying \in BOOLEAN
  /\ tpc \in [Threads -> ThreadLabels]
  /\ isQuited \in [Threads -> BOOLEAN] /\ isEnd \in [Threads -> BOOLEAN]
  /\ quiting \in [Threads -> BOOLEAN] /\ running \in [Threads -> BOOLEAN]
  /\ loopAlive \in [Threads -> BOOLEAN] /\ threadAlive \in [Threads -> BOOLEAN]

\* Threads are started in order, each once.
NotStarted ==
  /\ opc = "fresh" => \A t \in Threads : tpc[t] = "none"
  /\ opc = "starting" => \A t \in cur .. NumThreads : tpc[t] = "none"

\* Inside the wait of Thread::quit().
Waiting == opc \in {"testEnd", "falling", "asleep"}

Quited == \A t \in Threads :
  /\ isEnd[t] => tpc[t] \in {"notify", "done", "lost"}
  /\ tpc[t] \in {"notify", "lost"} => isEnd[t]
  /\ isQuited[t] => isEnd[t] \/ (Waiting /\ cur = t)
  /\ ~threadAlive[t] => isEnd[t]

Inv == TypeInv /\ NotStarted /\ Quited

-----------------------------------------------------------------------------
LEMMA ThreadsType == NumThreads \in Nat \ {0} /\ Threads = 1 .. NumThreads
BY PoolAssumption DEF Threads

LEMMA InitInv == Init => Inv
<1>. SUFFICES ASSUME Init PROVE Inv
  OBVIOUS
<1>. USE ThreadsType, PoolAssumption DEF Init
<1>1. TypeInv
  <2>1. loopAlive \in [Threads -> BOOLEAN] /\ threadAlive \in [Threads -> BOOLEAN]
    <3>1. EventThreads \in BOOLEAN
      BY DEF EventThreads
    <3>. QED
      BY <3>1
  <2>2. /\ kind \in {"event", "plain"} /\ opc \in OwnerLabels /\ cur \in Threads
        /\ tpc \in [Threads -> ThreadLabels]
    BY DEF OwnerLabels, ThreadLabels
  <2>3. /\ isQuited \in [Threads -> BOOLEAN] /\ isEnd \in [Threads -> BOOLEAN]
        /\ quiting \in [Threads -> BOOLEAN] /\ running \in [Threads -> BOOLEAN]
        /\ poolQuited \in BOOLEAN /\ destroying \in BOOLEAN
    OBVIOUS
  <2>. QED
    BY <2>1, <2>2, <2>3 DEF TypeInv
<1>2. NotStarted
  BY DEF NotStarted
<1>3. Quited
  BY DEF Quited
<1>. QED
  BY <1>1, <1>2, <1>3 DEF Inv

\* The owner's loop over m_threads stays within it, and leaves fresh and
\* starting behind.
LEMMA AdvanceType ==
  ASSUME TypeInv, NEW q \in BOOLEAN, Advance(q)
  PROVE  /\ cur' \in Threads /\ poolQuited' \in BOOLEAN
         /\ opc' \in {"quit", "free", "idle", "gone"}
<1>1. CASE cur < NumThreads
  BY <1>1, ThreadsType DEF Advance, TypeInv
<1>2. CASE ~(cur < NumThreads)
  BY <1>2, ThreadsType DEF Advance, TypeInv
<1>. QED
  BY <1>1, <1>2

LEMMA OwnerInv ==
  ASSUME Inv, OwnerStep, UNCHANGED kind
  PROVE  Inv'
<1>. USE ThreadsType DEF Inv
<1>1. ASSUME start \/ quit \/ destroy PROVE Inv'
  <2>1. /\ UNCHANGED <<cur, poolQuited, tpc, flags, alive>>
        /\ opc' \in {"starting", "idle", "quit", "free"} /\ destroying' \in BOOLEAN
        /\ ~Waiting /\ (opc' = "starting" => opc = "fresh")
    BY <1>1 DEF start, quit, destroy, Waiting, TypeInv
  <2>2. TypeInv'
    BY <2>1 DEF TypeInv, OwnerLabels, flags, alive
  <2>3. NotStarted'
    BY <2>1 DEF NotStarted, TypeInv
  <2>4. Quited'
    BY <2>1 DEF Quited, flags, alive
  <2>. QED
    BY <2>2, <2>3, <2>4
<1>2. ASSUME run PROVE Inv'
  <2>1. /\ tpc' = [tpc EXCEPT ![cur] = "entry"] /\ tpc[cur] = "none"
        /\ UNCHANGED <<poolQuited, destroying, flags, alive>>
        /\ \/ cur = NumThreads /\ opc' = "idle" /\ cur' = 1
           \/ cur # NumThreads /\ cur' = cur + 1 /\ opc' = "starting"
        /\ \A t \in cur .. NumThreads : tpc[t] = "none"
        /\ ~Waiting
    BY <1>2 DEF run, NotStarted, TypeInv, Waiting
  <2>2. TypeInv'
    BY <2>1 DEF TypeInv, OwnerLabels, ThreadLabels, flags, alive
  <2>3. NotStarted'
    BY <2>1 DEF NotStarted, TypeInv
  <2>4. Quited'
    BY <2>1 DEF Quited, TypeInv, flags, alive
  <2>. QED
    BY <2>2, <2>3, <2>4
<1>3. ASSUME QuitIgnored PROVE Inv'
  <2>1. /\ opc = "quit" /\ Advance(TRUE)
        /\ UNCHANGED <<destroying, tpc, flags, alive>>
    BY <1>3 DEF QuitIgnored
  <2>2. TypeInv' /\ NotStarted'
    BY <2>1, AdvanceType DEF TypeInv, NotStarted, OwnerLabels, flags, alive
  <2>3. Quited'
    BY <2>1 DEF Quited, Waiting, flags, alive
  <2>. QED
    BY <2>2, <2>3
<1>4. ASSUME ThreadQuit PROVE Inv'
  <2>1. /\ opc = "quit" /\ opc' = "testEnd"
        /\ isQuited' = [isQuited EXCEPT ![cur] = TRUE]
        /\ UNCHANGED <<cur, poolQuited, destroying, tpc, isEnd, quiting, running, alive>>
    BY <1>4 DEF ThreadQuit
  <2>2. TypeInv' /\ NotStarted'
    BY <2>1 DEF TypeInv, NotStarted, OwnerLabels, alive
  <2>3. Quited'
    BY <2>1 DEF Quited, Waiting, TypeInv, alive
  <2>. QED
    BY <2>2, <2>3
<1>5. ASSUME LoopDestroy \/ LoopQuited PROVE Inv'
  <2>1. /\ opc \in {"free", "waitLoop"} /\ opc' \in {"free", "waitLoop"}
        /\ loopAlive' \in [Threads -> BOOLEAN] /\ quiting' \in [Threads -> BOOLEAN]
        /\ UNCHANGED <<cur, poolQuited, destroying, tpc, isQuited, isEnd, running, threadAlive>>
    BY <1>5 DEF LoopDestroy, LoopQuited, TypeInv, flags
  <2>2. TypeInv' /\ NotStarted'
    BY <2>1 DEF TypeInv, NotStarted, OwnerLabels
  <2>3. Quited'
    BY <2>1 DEF Quited, Waiting
  <2>. QED
    BY <2>2, <2>3
<1>6. ASSUME ThreadDestroy PROVE Inv'
  <2>1. CASE isQuited[cur]
    <3>1. /\ opc = "free" /\ Advance(FALSE) /\ isEnd[cur]
          /\ threadAlive' = [threadAlive EXCEPT ![cur] = FALSE]
          /\ UNCHANGED <<isQuited, destroying, tpc, isEnd, quiting, running, loopAlive>>
      BY <1>6, <2>1 DEF ThreadDestroy, Quited, Waiting, TypeInv
    <3>2. TypeInv' /\ NotStarted'
      BY <3>1, AdvanceType DEF TypeInv, NotStarted, OwnerLabels
    <3>3. Quited'
      BY <3>1 DEF Quited, Waiting, TypeInv
    <3>. QED
      BY <3>2, <3>3
  <2>2. CASE ~isQuited[cur]
    <3>1. /\ opc = "free" /\ opc' = "testEnd"
          /\ isQuited' = [isQuited EXCEPT ![cur] = TRUE]
          /\ UNCHANGED <<cur, poolQuited, threadAlive, destroying, tpc, isEnd, quiting,
                         running, loopAlive>>
      BY <1>6, <2>2 DEF ThreadDestroy
    <3>2. TypeInv' /\ NotStarted'
      BY <3>1 DEF TypeInv, NotStarted, OwnerLabels
    <3>3. Quited'
      BY <3>1 DEF Quited, Waiting, TypeInv
    <3>. QED
      BY <3>2, <3>3
  <2>. QED
    BY <2>1, <2>2
<1>7. ASSUME TestEnd PROVE Inv'
  <2>1. CASE isEnd[cur]
    <3>1. /\ opc = "testEnd" /\ AfterWait
          /\ UNCHANGED <<destroying, tpc, flags, alive>>
      BY <1>7, <2>1 DEF TestEnd
    <3>2. /\ cur' \in Threads /\ poolQuited' \in BOOLEAN
          /\ opc' \in {"quit", "free", "idle", "gone"}
      BY <3>1, AdvanceType DEF AfterWait, TypeInv
    <3>3. TypeInv' /\ NotStarted'
      BY <3>1, <3>2 DEF TypeInv, NotStarted, OwnerLabels, flags, alive
    <3>4. Quited'
      BY <2>1, <3>1 DEF Quited, flags, alive
    <3>. QED
      BY <3>3, <3>4
  <2>2. CASE ~isEnd[cur]
    <3>1. /\ opc = "testEnd" /\ opc' = "falling"
          /\ UNCHANGED <<cur, poolQuited, destroying, tpc, flags, alive>>
      BY <1>7, <2>2 DEF TestEnd
    <3>. QED
      BY <3>1 DEF TypeInv, NotStarted, Quited, Waiting, OwnerLabels, flags, alive
  <2>. QED
    BY <2>1, <2>2
<1>8. ASSUME FallAsleep PROVE Inv'
  BY <1>8 DEF FallAsleep, TypeInv, NotStarted, Quited, Waiting, OwnerLabels, flags, alive
<1>. QED
  BY <1>1, <1>2, <1>3, <1>4, <1>5, <1>6, <1>7, <1>8 DEF OwnerStep

LEMMA ThreadInv ==
  ASSUME Inv, NEW t \in Threads, ThreadStep(t), UNCHANGED kind
  PROVE  Inv'
<1>. USE ThreadsType DEF Inv
<1>1. /\ UNCHANGED <<cur, poolQuited, destroying, isQuited, quiting, loopAlive, threadAlive>>
      /\ opc' = opc \/ (opc = "asleep" /\ opc' = "testEnd")
  BY DEF ThreadStep, EnterFunction, LoopRunning, FunctionEnds, SetEnd, NotifyAll, owner,
         flags, alive
<1>2. running' \in [Threads -> BOOLEAN]
  BY DEF ThreadStep, EnterFunction, LoopRunning, FunctionEnds, SetEnd, NotifyAll, flags,
         TypeInv
\* A thread that was started goes to a label after none.
<1>3. PICK label \in ThreadLabels \ {"none", "entry"} : tpc' = [tpc EXCEPT ![t] = label]
  BY DEF ThreadStep, EnterFunction, LoopRunning, FunctionEnds, SetEnd, NotifyAll, Goto,
         ThreadLabels
<1>4. tpc[t] # "none"
  BY DEF ThreadStep, EnterFunction, LoopRunning, FunctionEnds, SetEnd, NotifyAll
\* It sets m_isEnd on its way to notify, and ends without only if it has not
\* begun.
<1>5. /\ isEnd' = [isEnd EXCEPT ![t] = isEnd[t] \/ label = "notify"]
      /\ isEnd[t] => label \in {"done", "lost"}
      /\ label = "lost" => isEnd[t]
  <2>1. CASE SetEnd(t)
    <3>1. label = "notify" /\ ~isEnd[t]
      BY <2>1, <1>3 DEF SetEnd, Goto, TypeInv, Quited
    <3>. QED
      BY <2>1, <3>1 DEF SetEnd
  <2>2. CASE NotifyAll(t)
    <3>1. label \in {"done", "lost"} /\ isEnd' = isEnd /\ isEnd[t]
      BY <2>2, <1>3 DEF NotifyAll, Goto, TypeInv, Quited, flags
    <3>. QED
      BY <3>1 DEF TypeInv
  <2>3. CASE EnterFunction(t) \/ LoopRunning(t) \/ FunctionEnds(t)
    <3>1. /\ label \in {"func", "fence", "undefined", "setEnd", "done"}
          /\ isEnd' = isEnd /\ ~isEnd[t]
      BY <2>3, <1>3 DEF EnterFunction, LoopRunning, FunctionEnds, Goto, TypeInv, Quited, flags
    <3>. QED
      BY <3>1 DEF TypeInv
  <2>. QED
    BY <2>1, <2>2, <2>3 DEF ThreadStep
<1>6. TypeInv'
  BY <1>1, <1>2, <1>3, <1>5 DEF TypeInv, OwnerLabels
<1>7. NotStarted'
  BY <1>1, <1>3, <1>4 DEF NotStarted, TypeInv
<1>8. Quited'
  <2>1. isEnd[t] => isEnd'[t]
    BY <1>5 DEF TypeInv
  <2>2. Waiting => Waiting'
    BY <1>1 DEF Waiting
  <2>3. TypeInv
    OBVIOUS
  <2>4. ASSUME NEW u \in Threads
        PROVE  /\ isEnd'[u] => tpc'[u] \in {"notify", "done", "lost"}
               /\ tpc'[u] \in {"notify", "lost"} => isEnd'[u]
               /\ isEnd[u] => isEnd'[u]
    <3>1. CASE u = t
      BY <1>3, <1>5, <3>1, <2>3 DEF TypeInv
    <3>2. CASE u # t
      BY <1>3, <1>5, <3>2, <2>3 DEF TypeInv, Quited
    <3>. QED
      BY <3>1, <3>2
  <2>. QED
    BY <1>1, <2>2, <2>4 DEF Quited
<1>. QED
  BY <1>6, <1>7, <1>8

LEMMA StutterInv == Inv /\ UNCHANGED vars => Inv'
BY DEF Inv, TypeInv, NotStarted, Quited, Waiting, vars, owner, flags, alive

LEMMA InvHolds == Spec => []Inv
<1>1. Inv /\ [Next]_vars => Inv'
  BY OwnerInv, ThreadInv, StutterInv DEF Next
<1>. QED
  BY InitInv, <1>1, PTL DEF Spec

\* A Thread object is destroyed only after its entry() has set m_isEnd,
\* whatever the number of threads and however the owner quits and destroys the
\* pool (Thread.cpp:36-45, 83-93).
THEOREM PoolThreadOutlivesFunction == Spec => []ThreadOutlivesFunction
<1>1. Inv => ThreadOutlivesFunction
  BY DEF Inv, Quited, ThreadOutlivesFunction
<1>. QED
  BY <1>1, InvHolds, PTL

-----------------------------------------------------------------------------
\* A thread in its loop() keeps the loop's m_isRunning, and the loop.
Looping == EventThreads => \A t \in Threads :
  tpc[t] = "func" => running[t] /\ loopAlive[t]

LEMMA InitLooping == Init => Looping
BY DEF Init, Looping

LEMMA OwnerLooping ==
  ASSUME Inv, Looping, OwnerStep, UNCHANGED kind
  PROVE  Looping'
<1>. USE ThreadsType DEF Inv, Looping, EventThreads
<1>1. ASSUME run PROVE Looping'
  BY <1>1 DEF run, flags, alive, TypeInv
<1>2. ASSUME LoopDestroy PROVE Looping'
  BY <1>2 DEF LoopDestroy, TypeInv
<1>3. ASSUME LoopQuited PROVE Looping'
  BY <1>3 DEF LoopQuited, flags, TypeInv
\* No other step of the owner touches a loop or the way a thread takes.
<1>4. ASSUME \/ start \/ quit \/ destroy \/ QuitIgnored \/ ThreadQuit
             \/ ThreadDestroy \/ TestEnd \/ FallAsleep
      PROVE  Looping'
  <2>1. UNCHANGED <<tpc, running, loopAlive>>
    BY <1>4 DEF start, quit, destroy, QuitIgnored, ThreadQuit, ThreadDestroy, TestEnd,
                FallAsleep, flags, alive
  <2>. QED
    BY <2>1
<1>. QED
  BY <1>1, <1>2, <1>3, <1>4 DEF OwnerStep

LEMMA ThreadLooping ==
  ASSUME Inv, Looping, NEW t \in Threads, ThreadStep(t), UNCHANGED kind
  PROVE  Looping'
<1>. USE DEF Inv, Looping, EventThreads
<1>1. ASSUME EnterFunction(t) PROVE Looping'
  BY <1>1 DEF EnterFunction, Goto, flags, alive, TypeInv
<1>2. ASSUME LoopRunning(t) PROVE Looping'
  BY <1>2 DEF LoopRunning, Goto, alive, TypeInv
<1>3. ASSUME FunctionEnds(t) PROVE Looping'
  BY <1>3 DEF FunctionEnds, Goto, alive, TypeInv
<1>4. ASSUME SetEnd(t) PROVE Looping'
  BY <1>4 DEF SetEnd, Goto, alive, TypeInv
<1>5. ASSUME NotifyAll(t) PROVE Looping'
  BY <1>5 DEF NotifyAll, Goto, flags, alive, TypeInv
<1>. QED
  BY <1>1, <1>2, <1>3, <1>4, <1>5 DEF ThreadStep

\* An EventLoop is never destroyed under a thread that runs in its loop(), for
\* any number of threads and at whatever moment the pool is destroyed
\* (EventLoop.cpp:13-30, EventThread.cpp:7-26).
THEOREM PoolLoopOutlivesFunction == Spec => []LoopOutlivesFunction
<1>1. Inv /\ Looping /\ [Next]_vars => Looping'
  <2>1. Looping /\ UNCHANGED vars => Looping'
    BY DEF Looping, EventThreads, vars, flags, alive
  <2>. QED
    BY <2>1, OwnerLooping, ThreadLooping DEF Next
<1>2. Looping => LoopOutlivesFunction
  BY DEF Looping, LoopOutlivesFunction
<1>. QED
  BY InvHolds, InitLooping, <1>1, <1>2, PTL DEF Spec
=============================================================================
