------------------------------ MODULE ThreadPool ------------------------------
(***************************************************************************)
(* A pool of threads and the Owner that starts, quits and destroys it      *)
(* (thread/Thread.cpp, thread/ThreadPool.hpp, network/event/EventThread.cpp*)
(* and the destructor of EventLoop).  The threads are EventThreads, whose  *)
(* function is the loop of an EventLoop they own, or plain Threads, whose  *)
(* function ends by itself.  The pool is started once, and every thread is *)
(* detached when it is started (EventThread::run does it; the owner of     *)
(* plain threads calls detach(), or ~thread would terminate the process).  *)
(*                                                                         *)
(* The handshake of EventLoop::quit() with loop() is EventLoop.tla's; here *)
(* it is one flag, waited for.  By the time a loop is destroyed no weak    *)
(* reference to it can be locked, so clearing its sessions cannot block.   *)
(***************************************************************************)
EXTENDS Naturals

CONSTANTS
  NumThreads,    \* m_size
  Kinds,         \* kinds of pool considered, within {"event", "plain"}
  Started,       \* may the owner skip start()?  TRUE: it always starts the pool
  Unbound        \* the plain threads that were bound to no function

ASSUME PoolAssumption ==
  /\ NumThreads \in Nat \ {0}
  /\ Kinds \subseteq {"event", "plain"} /\ Started \in BOOLEAN
  /\ Unbound \subseteq 1 .. NumThreads

Threads == 1 .. NumThreads

VARIABLES
  kind,          \* of all threads: EventThread or Thread
  opc,           \* where the owner is
  cur,           \* the thread the owner's loop over m_threads is at
  poolQuited,    \* ThreadPool::m_isQuited
  destroying,    \* ~ThreadPool has begun
  tpc,           \* where each thread is
  isQuited,      \* Thread::m_isQuited
  isEnd,         \* Thread::m_isEnd
  quiting,       \* EventLoop::m_isQuiting
  running,       \* EventLoop::m_isRunning
  loopAlive,     \* the EventLoop object exists
  threadAlive    \* the Thread object exists

owner  == <<opc, cur, poolQuited, destroying>>
flags  == <<isQuited, isEnd, quiting, running>>
alive  == <<loopAlive, threadAlive>>
vars   == <<kind, owner, tpc, flags, alive>>

EventThreads == kind = "event"

Init ==
  /\ kind \in Kinds
  /\ opc = "fresh" /\ cur = 1
  /\ poolQuited = FALSE /\ destroying = FALSE
  /\ tpc = [t \in Threads |-> "none"]
  /\ isQuited = [t \in Threads |-> FALSE] /\ isEnd = [t \in Threads |-> FALSE]
  /\ quiting = [t \in Threads |-> FALSE] /\ running = [t \in Threads |-> FALSE]
  /\ loopAlive = [t \in Threads |-> EventThreads]
  /\ threadAlive = [t \in Threads |-> TRUE]

-----------------------------------------------------------------------------
(* The owner: ThreadPool::start().                                         *)

start ==
  /\ opc = "fresh"
  /\ \/ opc' = "starting"
     \/ ~Started /\ opc' = "idle"
  /\ UNCHANGED <<cur, poolQuited, destroying, tpc, flags, alive>>

run ==
  /\ opc = "starting"
  /\ tpc' = [tpc EXCEPT ![cur] = "entry"]
  /\ IF cur = NumThreads THEN opc' = "idle" /\ cur' = 1
     ELSE cur' = cur + 1 /\ UNCHANGED opc
  /\ UNCHANGED <<poolQuited, destroying, flags, alive>>

-----------------------------------------------------------------------------
(* ThreadPool::quit() and the destructors, thread after thread.            *)

quit ==
  /\ opc = "idle"
  /\ opc' = "quit"
  /\ UNCHANGED <<cur, poolQuited, destroying, tpc, flags, alive>>

destroy ==
  /\ opc = "idle"
  /\ destroying' = TRUE
  /\ opc' = IF poolQuited THEN "free" ELSE "quit"
  /\ UNCHANGED <<cur, poolQuited, tpc, flags, alive>>

(* The loop over m_threads goes on, or quit() is over.                     *)
Advance(quitting) ==
  IF cur < NumThreads
  THEN /\ cur' = cur + 1
       /\ opc' = IF quitting THEN "quit" ELSE "free"
       /\ UNCHANGED poolQuited
  ELSE /\ cur' = 1
       /\ opc' = IF quitting /\ ~destroying THEN "idle"
                 ELSE IF quitting THEN "free" ELSE "gone"
       /\ poolQuited' = TRUE

(***************************************************************************)
(* EventThread::quit() returns unless m_isQuited, which only Thread::quit()*)
(* sets, and that is first called by ~Thread: the rest of it is never      *)
(* reached.  Thread::quit() returns if m_isQuited.                         *)
(***************************************************************************)
QuitIgnored ==
  /\ opc = "quit"
  /\ IF EventThreads THEN ~isQuited[cur] ELSE isQuited[cur]
  /\ Advance(TRUE)
  /\ UNCHANGED <<destroying, tpc, flags, alive>>

ThreadQuit ==
  /\ opc = "quit" /\ ~EventThreads /\ ~isQuited[cur]
  /\ isQuited' = [isQuited EXCEPT ![cur] = TRUE]
  /\ opc' = "testEnd"
  /\ UNCHANGED <<cur, poolQuited, destroying, tpc, isEnd, quiting, running, alive>>

(* ~EventThread calls EventThread::quit() to no effect, then m_loop goes.  *)
LoopDestroy ==
  /\ opc = "free" /\ loopAlive[cur]
  /\ IF quiting[cur] /\ ~running[cur]
     THEN /\ loopAlive' = [loopAlive EXCEPT ![cur] = FALSE] /\ UNCHANGED <<opc, quiting>>
     ELSE /\ quiting' = [quiting EXCEPT ![cur] = TRUE]
          /\ opc' = "waitLoop" /\ UNCHANGED loopAlive
  /\ UNCHANGED <<cur, poolQuited, destroying, tpc, isQuited, isEnd, running, threadAlive>>

(* Mutant: the destructor does not wait for the loop.                      *)
MutFreeRunning ==
  /\ opc = "waitLoop"
  /\ loopAlive' = [loopAlive EXCEPT ![cur] = FALSE]
  /\ opc' = "free"
  /\ UNCHANGED <<cur, poolQuited, destroying, tpc, flags, threadAlive>>

LoopQuited ==
  /\ opc = "waitLoop" /\ ~running[cur]
  /\ loopAlive' = [loopAlive EXCEPT ![cur] = FALSE]
  /\ opc' = "free"
  /\ UNCHANGED <<cur, poolQuited, destroying, tpc, flags, threadAlive>>

(* Mutant: ~Thread does not call quit().                                   *)
MutDestroyAtOnce ==
  /\ opc = "free" /\ ~loopAlive[cur]
  /\ threadAlive' = [threadAlive EXCEPT ![cur] = FALSE]
  /\ Advance(FALSE)
  /\ UNCHANGED <<destroying, tpc, flags, loopAlive>>

(* ~Thread: quit() unless m_isQuited.                                      *)
ThreadDestroy ==
  /\ opc = "free" /\ ~loopAlive[cur]
  /\ IF isQuited[cur]
     THEN /\ threadAlive' = [threadAlive EXCEPT ![cur] = FALSE]
          /\ Advance(FALSE)
          /\ UNCHANGED isQuited
     ELSE /\ isQuited' = [isQuited EXCEPT ![cur] = TRUE]
          /\ opc' = "testEnd"
          /\ UNCHANGED <<cur, poolQuited, threadAlive>>
  /\ UNCHANGED <<destroying, tpc, isEnd, quiting, running, loopAlive>>

(***************************************************************************)
(* m_cv.wait(lock, m_isEnd): the flag is tested, then the caller goes to   *)
(* sleep.  m_mutex does not order this with entry(), which takes no lock.  *)
(***************************************************************************)
(* EventThreads get here from ~Thread, plain Threads from the pool's quit. *)
AfterWait ==
  IF EventThreads THEN opc' = "free" /\ UNCHANGED <<cur, poolQuited>>
  ELSE Advance(TRUE)

TestEnd ==
  /\ opc = "testEnd"
  /\ IF isEnd[cur] THEN AfterWait
     ELSE opc' = "falling" /\ UNCHANGED <<cur, poolQuited>>
  /\ UNCHANGED <<destroying, tpc, flags, alive>>

FallAsleep ==
  /\ opc = "falling"
  /\ opc' = "asleep"
  /\ UNCHANGED <<cur, poolQuited, destroying, tpc, flags, alive>>

-----------------------------------------------------------------------------
(* A thread: Thread::entry() around its function.                          *)

Goto(t, label) == tpc' = [tpc EXCEPT ![t] = label]

(***************************************************************************)
(* A thread without a function is over at once: it neither sets m_isEnd nor*)
(* notifies.  loop() writes m_threadId of a loop that may be gone.         *)
(***************************************************************************)
EnterFunction(t) ==
  /\ tpc[t] = "entry"
  /\ Goto(t, IF ~EventThreads THEN IF t \in Unbound THEN "done" ELSE "func"
             ELSE IF loopAlive[t] THEN "fence" ELSE "undefined")
  /\ UNCHANGED <<owner, flags, alive>>

LoopRunning(t) ==
  /\ tpc[t] = "fence"
  /\ IF loopAlive[t]
     THEN running' = [running EXCEPT ![t] = TRUE] /\ Goto(t, "func")
     ELSE Goto(t, "undefined") /\ UNCHANGED running
  /\ UNCHANGED <<owner, isQuited, isEnd, quiting, alive>>

(* A plain function ends; a loop ends once it is told to quit.             *)
FunctionEnds(t) ==
  /\ tpc[t] = "func"
  /\ IF ~EventThreads THEN Goto(t, "setEnd") /\ UNCHANGED running
     ELSE IF ~loopAlive[t] THEN Goto(t, "undefined") /\ UNCHANGED running
     ELSE quiting[t] /\ running' = [running EXCEPT ![t] = FALSE] /\ Goto(t, "setEnd")
  /\ UNCHANGED <<owner, isQuited, isEnd, quiting, alive>>

SetEnd(t) ==
  /\ tpc[t] = "setEnd"
  /\ isEnd' = [isEnd EXCEPT ![t] = TRUE]
  /\ Goto(t, "notify")
  /\ UNCHANGED <<owner, isQuited, quiting, running, alive>>

(* Mutant: m_isEnd is set and nobody is notified.                          *)
MutNoNotify(t) ==
  /\ tpc[t] = "notify"
  /\ Goto(t, IF threadAlive[t] THEN "done" ELSE "lost")
  /\ UNCHANGED <<owner, flags, alive>>

NotifyAll(t) ==
  /\ tpc[t] = "notify"
  /\ IF threadAlive[t]
     THEN /\ Goto(t, "done")
          /\ opc' = IF opc = "asleep" /\ cur = t THEN "testEnd" ELSE opc
     ELSE Goto(t, "lost") /\ UNCHANGED opc
  /\ UNCHANGED <<cur, poolQuited, destroying, flags, alive>>

-----------------------------------------------------------------------------
OwnerStep ==
  \/ start \/ run \/ quit \/ destroy
  \/ QuitIgnored \/ ThreadQuit \/ LoopDestroy \/ LoopQuited \/ ThreadDestroy
  \/ TestEnd \/ FallAsleep

(* What the owner owes once it is inside a call.                           *)
OwnerInCall ==
  \/ run \/ QuitIgnored \/ ThreadQuit \/ LoopDestroy \/ LoopQuited
  \/ ThreadDestroy \/ TestEnd \/ FallAsleep

ThreadStep(t) ==
  EnterFunction(t) \/ LoopRunning(t) \/ FunctionEnds(t) \/ SetEnd(t) \/ NotifyAll(t)

Next == (OwnerStep \/ \E t \in Threads : ThreadStep(t)) /\ UNCHANGED kind

Spec == Init /\ [][Next]_vars

(* Calls make progress, and created threads run.                           *)
FairSpec ==
  /\ Spec
  /\ WF_vars(OwnerInCall /\ UNCHANGED kind)
  /\ \A t \in Threads : WF_vars(ThreadStep(t) /\ UNCHANGED kind)

-----------------------------------------------------------------------------
(* Properties.                                                             *)

(***************************************************************************)
(* A Thread object is destroyed only after its entry() has set m_isEnd: of *)
(* the thread only the notification may be left (Thread.cpp:83-93 with the *)
(* m_isQuited shortcut of ~Thread).                                        *)
(***************************************************************************)
ThreadOutlivesFunction ==
  \A t \in Threads : ~threadAlive[t] =>
    tpc[t] \in {"notify", "done", "lost"} /\ isEnd[t]

(***************************************************************************)
(* An EventLoop is never destroyed under a thread that runs in its loop(): *)
(* the loop's own quit() is all that protects it, because the members of   *)
(* an EventThread go before ~Thread waits (EventLoop.cpp:13-30).  Only a   *)
(* thread that has not come as far as m_isRunning = true can find its loop *)
(* gone.                                                                   *)
(***************************************************************************)
LoopOutlivesFunction ==
  EventThreads => \A t \in Threads : ~loopAlive[t] => tpc[t] # "func"

\* A thread that notifies nobody: it was never started, has no function, or went
\* into a loop destroyed before it ran.
Mute(t) ==
  \/ tpc[t] \in {"none", "undefined"}
  \/ t \in Unbound /\ tpc[t] = "done"

(***************************************************************************)
(* An owner that fell asleep before the thread set m_isEnd is woken, unless*)
(* the thread never sets it (Thread.cpp:32-42, 91; EventLoop.cpp:24-30).   *)
(***************************************************************************)
SleeperIsWoken ==
  \A t \in Threads :
    (opc = "asleep" /\ cur = t /\ ~isEnd[t]) ~> (opc # "asleep" \/ Mute(t))

(* A pool whose threads end is destroyed in the end.                       *)
DestroyReturns == destroying ~> (opc = "gone")
=============================================================================
