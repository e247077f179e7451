------------------------------ MODULE EventLoop ------------------------------
(***************************************************************************)
(* One EventLoop object (network/event/EventLoop.cpp) and the threads that *)
(* reach it: the creator that constructed it (its id is the constructor's  *)
(* default argument), the Runner that calls loop(), Posters that call      *)
(* addTask through addSession, and Quitters that call quit().              *)
(*                                                                         *)
(* A pool loop has creator # Runner (EventThread.cpp:7-26); the acceptor   *)
(* loop of a TcpServer has creator = Runner (TcpServer.cpp:8, 59).  A task *)
(* is the lambda of addSession, the one task posted across threads: task   *)
(* <<t, n>> is the n-th session that thread t adds.                        *)
(*                                                                         *)
(* m_mutex is held across steps only by the Runner's final block; every    *)
(* other critical section is one action that needs the mutex free.         *)
(***************************************************************************)
EXTENDS Naturals, Sequences, FiniteSets, Functions

CONSTANTS
  Threads,       \* every thread of the model
  Creators,      \* the threads that may construct the loop
  Runner,        \* the thread that calls loop()
  Posters,       \* the threads that call addSession
  Quitters,      \* the threads that call quit()
  MaxPosts,      \* bound: sessions each poster adds
  MaxTotal,      \* bound: sessions all posters add together
  EarlyPosts,    \* values of early considered, within BOOLEAN
  EpollInit,     \* outcomes of epoll_create considered, within {"open", "invalid"}
  Timeouts,      \* values next_timeout may start from, within {"bounded", "forever"}
  NoThread,      \* nobody
  NoTask         \* no task in hand

ASSUME ThreadsAssumption ==
  /\ Creators \subseteq Threads /\ Runner \in Threads
  /\ Posters \subseteq Threads /\ Quitters \subseteq Threads
  /\ NoThread \notin Threads

ASSUME BoundsAssumption ==
  /\ MaxPosts \in Nat /\ MaxTotal \in Nat
  /\ EarlyPosts \subseteq BOOLEAN
  /\ EpollInit \subseteq {"open", "invalid"}
  /\ Timeouts \subseteq {"bounded", "forever"}

Tasks == Posters \X (1 .. MaxPosts)

ASSUME NoTaskAssumption == NoTask \notin Tasks

VARIABLES
  threadId,      \* m_threadId: read and written without a lock
  mutex,         \* the holder of m_mutex between two actions
  quiting,       \* m_isQuiting
  running,       \* m_isRunning
  tasks,         \* m_tasks
  functions,     \* the list doTasks() swapped out, not yet run
  sessions,      \* m_sessions
  connected,     \* sessions whose connection is Connected; m_channels while epoll is open
  epoll,         \* state of m_epfd
  creator,       \* the thread that constructed the loop
  early,         \* does a poster call addTask before the Runner is in loop()?
  nextTimeout,   \* the never initialised local next_timeout of loop()
  pc,            \* where each thread is
  job,           \* the task each thread is executing, the session it handles
  posted,        \* how many sessions each poster has added
  ran,           \* history: <<task, thread>> in the order of execution
  dropped        \* history: sessions whose init() failed

setup == <<creator, early, nextTimeout>>

vars == <<threadId, mutex, quiting, running, tasks, functions, sessions,
          connected, epoll, setup, pc, job, posted, ran, dropped>>

flags   == <<quiting, running>>
queues  == <<tasks, functions>>
sockets == <<sessions, connected, epoll, setup>>
history == <<posted, ran, dropped>>

Goto(t, label) == pc' = [pc EXCEPT ![t] = label]

MutexFree == mutex = NoThread

isInLoopThread(t) == threadId = t

-----------------------------------------------------------------------------
(* The constructor.                                                        *)

Init ==
  /\ creator \in Creators /\ early \in EarlyPosts
  /\ threadId = creator
  /\ mutex = NoThread
  /\ quiting = FALSE /\ running = FALSE
  /\ tasks = <<>> /\ functions = <<>>
  /\ sessions = {} /\ connected = {}
  /\ epoll \in EpollInit
  /\ nextTimeout \in Timeouts
  /\ pc = [t \in Threads |-> "free"]
  /\ job = [t \in Threads |-> NoTask]
  /\ posted = [t \in Posters |-> 0]
  /\ ran = <<>> /\ dropped = {}

-----------------------------------------------------------------------------
(* addTask(), by any poster.  The test and what follows it are two steps.  *)

MayPost(t) ==
  /\ pc[t] = "free" /\ posted[t] < MaxPosts
  /\ FoldFunction(+, 0, posted) < MaxTotal
  /\ early \/ pc[Runner] \notin {"free", "fence"}

AddTaskTest(t) ==
  /\ MayPost(t)
  /\ posted' = [posted EXCEPT ![t] = @ + 1]
  /\ job' = [job EXCEPT ![t] = <<t, posted[t] + 1>>]
  /\ Goto(t, IF isInLoopThread(t) THEN "inline" ELSE "push")
  /\ UNCHANGED <<threadId, mutex, flags, queues, sockets, ran, dropped>>

(* Mutant: the task is put in front of the list.                           *)
MutPushFront(t) ==
  /\ pc[t] = "push" /\ MutexFree
  /\ tasks' = <<job[t]>> \o tasks
  /\ job' = [job EXCEPT ![t] = NoTask]
  /\ Goto(t, "free")
  /\ UNCHANGED <<threadId, mutex, flags, functions, sockets, history>>

AddTaskPush(t) ==
  /\ pc[t] = "push" /\ MutexFree
  /\ tasks' = Append(tasks, job[t])
  /\ job' = [job EXCEPT ![t] = NoTask]
  /\ Goto(t, "free")
  /\ UNCHANGED <<threadId, mutex, flags, functions, sockets, history>>

(***************************************************************************)
(* The body of addSession's lambda, executed by thread t: session->init(), *)
(* which reaches updateChannel(EPOLL_CTL_ADD) under m_mutex and is refused *)
(* off the loop's thread or without an epoll; then m_sessions.emplace,     *)
(* under no lock.                                                          *)
(***************************************************************************)
AfterTask(t) == IF pc[t] \in {"inline", "emplace"} THEN "free" ELSE "tasks"

(* Mutant: the thread is not checked.                                      *)
MutAnyThread(t) == epoll = "open"

updateChannel(t) == isInLoopThread(t) /\ epoll = "open"

SessionInit(t) ==
  /\ pc[t] \in {"inline", "exec"} /\ MutexFree
  /\ ran' = Append(ran, <<job[t], t>>)
  /\ \/ /\ updateChannel(t)
        /\ connected' = connected \cup {job[t]}
        /\ Goto(t, IF pc[t] = "inline" THEN "emplace" ELSE "execEmplace")
        /\ UNCHANGED <<job, dropped>>
     \/ /\ ~updateChannel(t)
        /\ dropped' = dropped \cup {job[t]}
        /\ job' = [job EXCEPT ![t] = NoTask]
        /\ Goto(t, AfterTask(t))
        /\ UNCHANGED connected
  /\ UNCHANGED <<threadId, mutex, flags, queues, sessions, epoll, setup, posted>>

Emplace(t) ==
  /\ pc[t] \in {"emplace", "execEmplace"}
  /\ sessions' = sessions \cup {job[t]}
  /\ job' = [job EXCEPT ![t] = NoTask]
  /\ Goto(t, AfterTask(t))
  /\ UNCHANGED <<threadId, mutex, flags, queues, connected, epoll, setup, history>>

-----------------------------------------------------------------------------
(* loop(), by the Runner.                                                  *)

(* Mutant: loop() keeps the id recorded by the constructor.                *)
MutKeepCreatorId ==
  /\ pc[Runner] = "free"
  /\ Goto(Runner, "fence")
  /\ UNCHANGED <<threadId, mutex, flags, queues, sockets, job, history>>

LoopEnter ==
  /\ pc[Runner] = "free"
  /\ threadId' = Runner
  /\ Goto(Runner, "fence")
  /\ UNCHANGED <<mutex, flags, queues, sockets, job, history>>

LoopRunning ==
  /\ pc[Runner] = "fence" /\ MutexFree
  /\ running' = TRUE
  /\ Goto(Runner, "test")
  /\ UNCHANGED <<threadId, mutex, quiting, queues, sockets, job, history>>

LoopTest ==
  /\ pc[Runner] = "test"
  /\ Goto(Runner, IF ~quiting /\ running THEN "poll" ELSE "end")
  /\ UNCHANGED <<threadId, mutex, flags, queues, sockets, job, history>>

(* epoll_wait on an invalid descriptor fails at once and ends the loop.    *)
PollFails ==
  /\ pc[Runner] = "poll" /\ epoll # "open"
  /\ Goto(Runner, "end")
  /\ UNCHANGED <<threadId, mutex, flags, queues, sockets, job, history>>

(* Mutant: an empty poll continues with the next iteration at once.        *)
MutPollContinue ==
  /\ pc[Runner] = "poll" /\ epoll = "open" /\ nextTimeout = "bounded"
  /\ Goto(Runner, "test")
  /\ UNCHANGED <<threadId, mutex, flags, queues, sockets, job, history>>

PollTimeout ==
  /\ pc[Runner] = "poll" /\ epoll = "open" /\ nextTimeout = "bounded"
  /\ Goto(Runner, "swap")
  /\ UNCHANGED <<threadId, mutex, flags, queues, sockets, job, history>>

(***************************************************************************)
(* A watched socket is ready and its handler runs; one session stands for  *)
(* the batch.  The handler may leave the session as it is, close its       *)
(* connection, or remove the session (HttpSession.cpp:48-51, inline because*)
(* the Runner is the loop's thread).  Closing takes m_mutex.               *)
(***************************************************************************)
PollEvent(s) ==
  /\ pc[Runner] = "poll" /\ epoll = "open" /\ s \in connected
  /\ job' = [job EXCEPT ![Runner] = s]
  /\ Goto(Runner, "handle")
  /\ UNCHANGED <<threadId, mutex, flags, queues, sockets, history>>

HandlerReturns ==
  /\ job' = [job EXCEPT ![Runner] = NoTask]
  /\ Goto(Runner, "swap")
  /\ UNCHANGED <<threadId, mutex, flags, queues, epoll, setup, history>>

HandleKeep ==
  /\ pc[Runner] = "handle"
  /\ HandlerReturns
  /\ UNCHANGED <<sessions, connected>>

HandleClose ==
  /\ pc[Runner] = "handle" /\ MutexFree
  /\ connected' = connected \ {job[Runner]}
  /\ HandlerReturns
  /\ UNCHANGED sessions

removeSession ==
  /\ pc[Runner] = "handle" /\ MutexFree
  /\ job[Runner] \in sessions
  /\ sessions' = sessions \ {job[Runner]}
  /\ connected' = connected \ {job[Runner]}
  /\ HandlerReturns

(* quit() called by a handler: the Runner waits for the end of its loop.   *)
HandlerQuits ==
  /\ pc[Runner] = "handle" /\ MutexFree /\ Runner \in Quitters
  /\ quiting' = TRUE
  /\ Goto(Runner, "waiting")
  /\ UNCHANGED <<threadId, mutex, running, queues, sockets, job, history>>

(* Mutant: the list is copied and m_tasks is not cleared.                  *)
MutCopyTasks ==
  /\ pc[Runner] = "swap" /\ MutexFree
  /\ functions' = tasks /\ UNCHANGED tasks
  /\ Len(ran) <= Cardinality(Tasks)
  /\ Goto(Runner, "tasks")
  /\ UNCHANGED <<threadId, mutex, flags, sockets, job, history>>

DoTasksSwap ==
  /\ pc[Runner] = "swap" /\ MutexFree
  /\ functions' = tasks /\ tasks' = <<>>
  /\ Goto(Runner, "tasks")
  /\ UNCHANGED <<threadId, mutex, flags, sockets, job, history>>

DoTasksNext ==
  /\ pc[Runner] = "tasks" /\ functions # <<>>
  /\ job' = [job EXCEPT ![Runner] = Head(functions)]
  /\ functions' = Tail(functions)
  /\ Goto(Runner, "exec")
  /\ UNCHANGED <<threadId, mutex, flags, tasks, sockets, history>>

(* doTasks() returns; the expired timers run and touch nothing of this.    *)
DoTasksReturn ==
  /\ pc[Runner] = "tasks" /\ functions = <<>>
  /\ Goto(Runner, "test")
  /\ UNCHANGED <<threadId, mutex, flags, queues, sockets, job, history>>

LoopEndLock ==
  /\ pc[Runner] = "end" /\ MutexFree
  /\ mutex' = Runner
  /\ Goto(Runner, "clear")
  /\ UNCHANGED <<threadId, flags, queues, sockets, job, history>>

(***************************************************************************)
(* m_sessions.clear() destroys the sessions and with them the connections. *)
(* ~TcpConnection of a connection still Connected calls onClose, disable   *)
(* and updateChannel, which locks m_mutex again: the thread waits for      *)
(* itself.  The step therefore needs every stored connection closed.       *)
(***************************************************************************)
LiveSessions == sessions \cap connected

(* Mutant: the end of the loop wakes nobody.                               *)
MutNoNotify ==
  /\ pc[Runner] = "clear" /\ LiveSessions = {}
  /\ sessions' = {}
  /\ running' = FALSE
  /\ mutex' = NoThread
  /\ Goto(Runner, "ended")
  /\ UNCHANGED <<threadId, quiting, queues, connected, epoll, setup, job, history>>

LoopClear ==
  /\ pc[Runner] = "clear" /\ LiveSessions = {}
  /\ sessions' = {}
  /\ running' = FALSE
  /\ mutex' = NoThread
  /\ pc' = [t \in Threads |->
              IF t = Runner THEN "ended"
              ELSE IF pc[t] = "waiting" THEN "woken" ELSE pc[t]]
  /\ UNCHANGED <<threadId, quiting, queues, connected, epoll, setup, job, history>>

-----------------------------------------------------------------------------
(* quit(), by a thread other than the Runner.  The wait releases m_mutex;  *)
(* once the predicate holds, the rest of quit() runs under it.             *)

(* Mutant: quit() does not wait for the loop.                              *)
MutNoWait(t) ==
  /\ Goto(t, "quited")
  /\ epoll' = IF epoll = "open" THEN "closed" ELSE epoll

FinishOrWait(t) ==
  IF running THEN Goto(t, "waiting") /\ UNCHANGED epoll
  ELSE /\ Goto(t, "quited")
       /\ epoll' = IF epoll = "open" THEN "closed" ELSE epoll

QuitLock(t) ==
  /\ t # Runner /\ pc[t] = "free" /\ MutexFree
  /\ quiting' = TRUE
  /\ FinishOrWait(t)
  /\ UNCHANGED <<threadId, mutex, running, queues, sessions, connected,
                 setup, job, history>>

QuitWake(t) ==
  /\ t # Runner /\ pc[t] = "woken" /\ MutexFree
  /\ FinishOrWait(t)
  /\ UNCHANGED <<threadId, mutex, flags, queues, sessions, connected,
                 setup, job, history>>

-----------------------------------------------------------------------------
PosterStep(t) == AddTaskTest(t) \/ AddTaskPush(t)

TaskStep(t) == SessionInit(t) \/ Emplace(t)

(* What the Runner does without waiting for the network.                   *)
RunnerStep ==
  \/ LoopEnter \/ LoopRunning \/ LoopTest
  \/ PollFails \/ PollTimeout
  \/ HandleKeep \/ HandleClose \/ removeSession \/ HandlerQuits
  \/ DoTasksSwap \/ DoTasksNext \/ DoTasksReturn
  \/ LoopEndLock \/ LoopClear

QuitterStep(t) == QuitLock(t) \/ QuitWake(t)

Next ==
  \/ RunnerStep
  \/ \E s \in Tasks : PollEvent(s)
  \/ \E t \in Posters : PosterStep(t)
  \/ \E t \in Posters \cup {Runner} : TaskStep(t)
  \/ \E t \in Quitters : QuitterStep(t)

(***************************************************************************)
(* A thread inside a call keeps running.  Nobody is obliged to post or to  *)
(* quit, and the network owes no event.                                    *)
(***************************************************************************)
Fairness ==
  /\ WF_vars(RunnerStep)
  /\ \A t \in Posters : WF_vars(AddTaskPush(t))
  /\ \A t \in Posters \cup {Runner} : WF_vars(TaskStep(t))
  /\ \A t \in Quitters : WF_vars(QuitWake(t))

Spec == Init /\ [][Next]_vars

FairSpec == Spec /\ Fairness

-----------------------------------------------------------------------------
(* Properties.                                                             *)

Occurrences(x, seq) == Cardinality({i \in 1 .. Len(seq) : seq[i] = x})

Holders(x) == {t \in Threads : job[t] = x /\ pc[t] \in {"push", "inline", "exec"}}

Executions(x) == {i \in 1 .. Len(ran) : ran[i][1] = x}

(* Each task posted is in m_tasks, in the swapped list, in the hands of one *)
(* thread, or was executed once.                                            *)
EachTaskInOnePlace ==
  \A x \in Tasks :
    Occurrences(x, tasks) + Occurrences(x, functions)
      + Cardinality(Holders(x)) + Cardinality(Executions(x))
    = IF x[2] <= posted[x[1]] THEN 1 ELSE 0

(* The sessions of one poster are initialised in the order it added them.  *)
PosterOrder ==
  \A i, j \in 1 .. Len(ran) :
    (i < j /\ ran[i][1][1] = ran[j][1][1]) => ran[i][1][2] < ran[j][1][2]

(***************************************************************************)
(* The push of addTask against the swap of doTasks (EventLoop.cpp:122-148):*)
(* no task is lost, run twice, or run before an earlier one of its poster, *)
(* whether they went through the queue or ran inline.                      *)
(***************************************************************************)
EachTaskOnceInOrder == EachTaskInOnePlace /\ PosterOrder

(***************************************************************************)
(* The loop implements one queue for all posters: m_tasks behind the list  *)
(* doTasks() swapped out, behind the task taken from that list.            *)
(***************************************************************************)
InHands == [t \in Posters |-> IF pc[t] \in {"push", "inline"} THEN job[t] ELSE NoTask]

Waiting ==
  (IF pc[Runner] = "exec" THEN <<job[Runner]>> ELSE <<>>) \o (functions \o tasks)

Executed == [i \in DOMAIN ran |-> ran[i][1]]

Queue == INSTANCE TaskQueue WITH
  hand <- InHands, queue <- Waiting, done <- Executed

(***************************************************************************)
(* The push, the swap outside the lock and the inline execution together   *)
(* behave as a queue that is first in, first out across all posters        *)
(* (EventLoop.cpp:122-148): the sessions of different threads, too, are    *)
(* initialised in the order of their pushes, and one that runs inline      *)
(* overtakes none of its own poster.                                       *)
(***************************************************************************)
ImplementsQueue == Queue!QueueSpec

(***************************************************************************)
(* Epoll::poll reads m_channels without m_mutex (EventLoop.cpp:41,         *)
(* Epoll.cpp:42-54): while the Runner is between the test of the loop and  *)
(* the end of its handlers, no other thread changes the map, not even one  *)
(* that passed addTask's test before loop() took over the loop's id.       *)
(***************************************************************************)
ChannelsStableDuringPoll ==
  [][pc[Runner] \in {"test", "poll", "handle"} /\ connected' # connected
       => pc'[Runner] # pc[Runner]]_vars

(***************************************************************************)
(* quit() closes the epoll descriptor only when nobody is in epoll_wait on *)
(* it, and once it has returned the loop polls no more, even when quit()   *)
(* came before loop() (EventLoop.cpp:35, 76-88).                           *)
(***************************************************************************)
InIteration == pc[Runner] \in {"poll", "handle", "swap", "tasks", "exec", "execEmplace"}

NoIterationAfterQuit ==
  ((\E t \in Quitters : pc[t] = "quited") \/ epoll = "closed") => ~InIteration

(***************************************************************************)
(* loop() overwrites m_threadId without a lock (EventLoop.cpp:26); until   *)
(* then the thread of the constructor passes for the loop's own.  Nobody   *)
(* is in that window when the loop's thread is its creator, or when the    *)
(* others wait until it is in loop().                                      *)
(***************************************************************************)
NoWindow == creator = Runner \/ ~early

(* A task runs in the thread that runs the loop, or, in the window, inline *)
(* in the creator that posted it.                                          *)
TasksRunInLoopThread ==
  \A i \in 1 .. Len(ran) :
    ran[i][2] = Runner \/ (~NoWindow /\ ran[i][2] = creator /\ ran[i][1][1] = creator)

(* m_sessions is changed under no lock (EventLoop.h:52, EventLoop.cpp:154): *)
(* outside the window, no two threads are about to change it.               *)
TouchesSessions(t) == pc[t] \in {"emplace", "execEmplace", "handle", "clear"}

SessionsTouchedByOneThread ==
  NoWindow => Cardinality({t \in Threads : TouchesSessions(t)}) <= 1

(* An accepted connection is refused only for want of an epoll, or when    *)
(* its poster passed addTask's test in the window and loop() took over     *)
(* before updateChannel's (EventLoop.cpp:99, 124).                         *)
NoSessionDropped ==
  \A x \in dropped : epoll # "open" \/ (~NoWindow /\ x[1] = creator)

(***************************************************************************)
(* One thread one loop (EventLoop.cpp:26, 99, 124): outside the start-up   *)
(* window only the loop's thread runs tasks and changes m_sessions, and no *)
(* accepted connection is dropped by the two tests of the thread's id.     *)
(***************************************************************************)
OneThreadOneLoop ==
  TasksRunInLoopThread /\ SessionsTouchedByOneThread /\ NoSessionDropped

(***************************************************************************)
(* Once posted, a task is executed unless the loop is told to quit, lost   *)
(* its epoll, or waits without limit because the uninitialised timeout was *)
(* negative (EventLoop.cpp:37-41); nothing wakes the poll for a task.      *)
(***************************************************************************)
WaitsForever == nextTimeout = "forever" /\ pc[Runner] = "poll"

TasksEventuallyRun ==
  \A x \in Tasks :
    (x[2] <= posted[x[1]]) ~>
      (Executions(x) # {} \/ quiting \/ epoll # "open" \/ WaitsForever)

(***************************************************************************)
(* quit() returns once the loop has ended.                                 *)
(***************************************************************************)
QuitReturns == \A t \in Quitters : (pc[t] = "waiting") ~> (pc[t] = "quited")

(***************************************************************************)
(* The only things that can keep quit() from returning are a session still *)
(* connected when the loop clears m_sessions under m_mutex, a handler that *)
(* waits for its own loop, and a poll without limit.                       *)
(***************************************************************************)
StuckInClear == pc[Runner] = "clear" /\ LiveSessions # {}

QuitReturnsUnlessLive ==
  \A t \in Quitters \ {Runner} :
    (pc[t] = "waiting") ~>
      (pc[t] = "quited" \/ StuckInClear \/ pc[Runner] = "waiting" \/ WaitsForever)
=============================================================================
