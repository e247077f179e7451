---------------------------- MODULE EventLoopProofs ----------------------------
(***************************************************************************)
(* Proofs about the loop of EventLoop.tla, for any threads, posters,       *)
(* quitters and bounds.                                                    *)
(*                                                                         *)
(* Control says where the threads can be together and whose m_threadId is; *)
(* the properties about threads follow from it.  That each task runs once  *)
(* and in order rests on Line: the executed tasks, the one in the Runner's *)
(* hands, the swapped list, m_tasks and the tasks about to be pushed form  *)
(* one line in which the tasks of a poster stand in the order of posting.  *)
(***************************************************************************)
EXTENDS EventLoop, TLAPS, FiniteSetTheorems, SequenceTheorems

Labels == {"free", "push", "inline", "emplace", "fence", "test", "poll", "handle", "swap",
           "tasks", "exec", "execEmplace", "end", "clear", "ended", "waiting", "woken",
           "quited"}

TypeInv ==
  /\ threadId \in Threads /\ mutex \in Threads \cup {NoThread}
  /\ quiting \in BOOLEAN /\ running \in BOOLEAN
  /\ tasks \in Seq(Tasks) /\ functions \in Seq(Tasks)
  /\ sessions \subseteq Tasks /\ connected \subseteq Tasks /\ dropped \subseteq Tasks
  /\ epoll \in {"open", "invalid", "closed"}
  /\ creator \in Threads /\ early \in BOOLEAN
  /\ nextTimeout \in {"bounded", "forever"}
  /\ pc \in [Threads -> Labels]
  /\ job \in [Threads -> Tasks \cup {NoTask}]
  /\ posted \in [Posters -> 0 .. MaxPosts]
  /\ ran \in Seq(Tasks \X Threads)

\* The Runner has not yet entered loop(); inside addTask() or its task.
PreLoop == {"free", "push", "inline", "emplace"}
Adding  == {"push", "inline", "emplace"}

Control ==
  /\ mutex = IF pc[Runner] = "clear" THEN Runner ELSE NoThread
  /\ threadId = IF pc[Runner] \in PreLoop THEN creator ELSE Runner
  /\ pc[Runner] \notin {"woken", "quited"}
  /\ pc[Runner] \in Adding => early
  /\ pc[Runner] \in {"inline", "emplace"} => creator = Runner
  /\ pc[Runner] \in {"exec", "execEmplace", "handle"} => job[Runner] \in Tasks
  /\ \A t \in Threads :
       /\ pc[t] \in Adding => t \in Posters /\ job[t] = <<t, posted[t]>> /\ job[t] \in Tasks
       /\ t # Runner =>
            /\ pc[t] \in Adding \cup {"free", "waiting", "woken", "quited"}
            /\ pc[t] \in {"inline", "emplace"} => t = creator /\ early
            /\ pc[t] \in {"waiting", "woken"} => quiting

\* While an iteration is in progress m_isRunning is set, and a quit() that has
\* returned, or closed the descriptor, has left m_isQuiting behind.
Quits ==
  /\ InIteration => running
  /\ (\E t \in Quitters : pc[t] = "quited") \/ epoll = "closed" => quiting /\ ~InIteration

Inv == TypeInv /\ Control /\ Quits

-----------------------------------------------------------------------------
LEMMA TaskPairs ==
  ASSUME NEW t \in Posters, NEW n \in 1 .. MaxPosts
  PROVE  /\ <<t, n>> \in Tasks /\ <<t, n>> # NoTask
         /\ <<t, n>>[1] = t /\ <<t, n>>[2] = n
BY NoTaskAssumption DEF Tasks

LEMMA TaskFields ==
  ASSUME NEW x \in Tasks
  PROVE  x[1] \in Posters /\ x[2] \in 1 .. MaxPosts /\ x = <<x[1], x[2]>>
BY DEF Tasks

LEMMA InitInv == Init => Inv
<1>. SUFFICES ASSUME Init PROVE Inv
  OBVIOUS
<1>. USE ThreadsAssumption, BoundsAssumption DEF Init
<1>1. TypeInv
  <2>1. tasks \in Seq(Tasks) /\ functions \in Seq(Tasks) /\ ran \in Seq(Tasks \X Threads)
    OBVIOUS
  <2>2. posted \in [Posters -> 0 .. MaxPosts]
    OBVIOUS
  <2>. QED
    BY <2>1, <2>2 DEF TypeInv, Labels
<1>2. Control
  BY DEF Control, PreLoop, Adding
<1>3. Quits
  BY DEF Quits, InIteration
<1>. QED
  BY <1>1, <1>2, <1>3 DEF Inv

-----------------------------------------------------------------------------
(* One action at a time.                                                   *)

LEMMA AddTaskInv ==
  ASSUME Inv, NEW t \in Posters, PosterStep(t)
  PROVE  Inv'
<1>. USE ThreadsAssumption, BoundsAssumption DEF Inv
<1>0. t \in Threads
  OBVIOUS
<1>1. CASE AddTaskTest(t)
  <2>1. posted[t] \in Nat /\ posted[t] < MaxPosts /\ posted[t] + 1 \in 1 .. MaxPosts
    <3>1. posted[t] \in 0 .. MaxPosts /\ posted[t] < MaxPosts
      BY <1>1 DEF AddTaskTest, MayPost, TypeInv
    <3>. QED
      BY <3>1
  <2>2. <<t, posted[t] + 1>> \in Tasks
    BY <2>1 DEF Tasks
  <2>3. /\ pc[t] = "free" /\ (early \/ pc[Runner] \notin {"free", "fence"})
        /\ posted' = [posted EXCEPT ![t] = @ + 1]
        /\ job' = [job EXCEPT ![t] = <<t, posted[t] + 1>>]
        /\ UNCHANGED <<threadId, mutex, flags, queues, sockets, ran, dropped>>
    BY <1>1 DEF AddTaskTest, MayPost
  <2>4. \/ threadId = t /\ pc' = [pc EXCEPT ![t] = "inline"]
        \/ threadId # t /\ pc' = [pc EXCEPT ![t] = "push"]
    BY <1>1 DEF AddTaskTest, Goto, isInLoopThread
  <2>5. TypeInv'
    <3>1. posted' \in [Posters -> 0 .. MaxPosts]
      BY <2>1, <2>3 DEF TypeInv
    <3>2. job' \in [Threads -> Tasks \cup {NoTask}] /\ pc' \in [Threads -> Labels]
      BY <2>2, <2>3, <2>4 DEF TypeInv, Labels
    <3>. QED
      BY <2>3, <3>1, <3>2 DEF TypeInv, flags, queues, sockets, setup
  <2>6. Control'
    <3>1. /\ pc' = [pc EXCEPT ![t] = pc'[t]]
          /\ \/ pc'[t] = "inline" /\ threadId = t
             \/ pc'[t] = "push"
      BY <1>0, <2>4 DEF TypeInv
    <3>2. /\ UNCHANGED <<threadId, mutex, quiting, creator, early>>
          /\ job'[t] = <<t, posted'[t]>> /\ job'[t] \in Tasks
          /\ \A u \in Threads : u # t => pc'[u] = pc[u] /\ job'[u] = job[u]
          /\ \A u \in Posters : u # t => posted'[u] = posted[u]
      BY <1>0, <2>2, <2>3, <3>1 DEF TypeInv, flags, sockets, setup
    <3>3. /\ t = Runner => early
          /\ pc[Runner] = "free" => threadId = creator
      BY <2>3 DEF Control, PreLoop
    <3>4. /\ mutex' = IF pc'[Runner] = "clear" THEN Runner ELSE NoThread
          /\ threadId' = IF pc'[Runner] \in PreLoop THEN creator' ELSE Runner
          /\ pc'[Runner] \notin {"woken", "quited"}
      <4>1. CASE t = Runner
        BY <2>3, <3>1, <3>2, <4>1 DEF Control, PreLoop
      <4>2. CASE t # Runner
        BY <3>2, <4>2 DEF Control
      <4>. QED
        BY <4>1, <4>2
    <3>5. /\ pc'[Runner] \in Adding => early'
          /\ pc'[Runner] \in {"inline", "emplace"} => creator' = Runner
          /\ pc'[Runner] \in {"exec", "execEmplace", "handle"} => job'[Runner] \in Tasks
      <4>1. CASE t = Runner
        BY <2>3, <3>1, <3>2, <3>3, <4>1
      <4>2. CASE t # Runner
        BY <3>2, <4>2 DEF Control
      <4>. QED
        BY <4>1, <4>2
    <3>6. ASSUME NEW u \in Threads
          PROVE  pc'[u] \in Adding => u \in Posters /\ job'[u] = <<u, posted'[u]>> /\ job'[u] \in Tasks
      <4>1. CASE u = t
        BY <3>2, <4>1
      <4>2. CASE u # t
        BY <3>2, <4>2 DEF Control
      <4>. QED
        BY <4>1, <4>2
    <3>7. ASSUME NEW u \in Threads, u # Runner
          PROVE  /\ pc'[u] \in Adding \cup {"free", "waiting", "woken", "quited"}
                 /\ pc'[u] \in {"inline", "emplace"} => u = creator' /\ early'
                 /\ pc'[u] \in {"waiting", "woken"} => quiting'
      <4>1. CASE u = t
        <5>1. pc[Runner] \in PreLoop => threadId = creator
          BY DEF Control
        <5>2. threadId = u => u = creator /\ pc[Runner] \in PreLoop
          BY <3>7 DEF Control
        <5>3. pc[Runner] \in PreLoop => early
          BY <2>3 DEF Control, PreLoop, Adding
        <5>. QED
          BY <3>1, <3>2, <4>1, <5>2, <5>3 DEF Adding
      <4>2. CASE u # t
        BY <3>2, <3>7, <4>2 DEF Control
      <4>. QED
        BY <4>1, <4>2
    <3>. QED
      BY <3>4, <3>5, <3>6, <3>7 DEF Control
  <2>7. Quits'
    BY <1>0, <2>3, <2>4 DEF TypeInv, Quits, InIteration, flags, sockets
  <2>. QED
    BY <2>5, <2>6, <2>7
<1>2. CASE AddTaskPush(t)
  <2>1. /\ pc[t] = "push" /\ job[t] \in Tasks
        /\ tasks' = Append(tasks, job[t])
        /\ job' = [job EXCEPT ![t] = NoTask]
        /\ pc' = [pc EXCEPT ![t] = "free"]
        /\ UNCHANGED <<threadId, mutex, flags, functions, sockets, history>>
    BY <1>0, <1>2 DEF AddTaskPush, Goto, Control, Adding
  <2>2. TypeInv'
    BY <1>0, <2>1 DEF TypeInv, Labels, flags, sockets, setup, history
  <2>3. Control'
    <3>1. /\ pc'[t] = "free" /\ UNCHANGED <<threadId, mutex, quiting, creator, early, posted>>
          /\ \A u \in Threads : u # t => pc'[u] = pc[u] /\ job'[u] = job[u]
      BY <1>0, <2>1 DEF TypeInv, flags, sockets, setup, history
    <3>2. /\ mutex' = IF pc'[Runner] = "clear" THEN Runner ELSE NoThread
          /\ threadId' = IF pc'[Runner] \in PreLoop THEN creator' ELSE Runner
          /\ pc'[Runner] \notin {"woken", "quited"}
          /\ pc'[Runner] \in Adding => early'
          /\ pc'[Runner] \in {"inline", "emplace"} => creator' = Runner
          /\ pc'[Runner] \in {"exec", "execEmplace", "handle"} => job'[Runner] \in Tasks
      <4>1. CASE t = Runner
        BY <2>1, <3>1, <4>1 DEF Control, PreLoop, Adding
      <4>2. CASE t # Runner
        BY <3>1, <4>2 DEF Control
      <4>. QED
        BY <4>1, <4>2
    <3>3. ASSUME NEW u \in Threads
          PROVE  /\ pc'[u] \in Adding => u \in Posters /\ job'[u] = <<u, posted'[u]>> /\ job'[u] \in Tasks
                 /\ u # Runner =>
                      /\ pc'[u] \in Adding \cup {"free", "waiting", "woken", "quited"}
                      /\ pc'[u] \in {"inline", "emplace"} => u = creator' /\ early'
                      /\ pc'[u] \in {"waiting", "woken"} => quiting'
      <4>1. CASE u = t
        BY <3>1, <4>1 DEF Adding
      <4>2. CASE u # t
        BY <3>1, <4>2 DEF Control
      <4>. QED
        BY <4>1, <4>2
    <3>. QED
      BY <3>2, <3>3 DEF Control
  <2>4. Quits'
    BY <1>0, <2>1 DEF TypeInv, Quits, InIteration, flags, sockets
  <2>. QED
    BY <2>2, <2>3, <2>4
<1>. QED
  BY <1>1, <1>2 DEF PosterStep

LEMMA TaskInv ==
  ASSUME Inv, NEW t \in Posters \cup {Runner}, TaskStep(t)
  PROVE  Inv'
<1>. USE ThreadsAssumption, BoundsAssumption DEF Inv
<1>0. t \in Threads
  OBVIOUS
<1>1. CASE SessionInit(t)
  <2>1. /\ pc[t] \in {"inline", "exec"} /\ job[t] \in Tasks
        /\ ran' = Append(ran, <<job[t], t>>)
        /\ connected' \subseteq Tasks /\ dropped' \subseteq Tasks
        /\ UNCHANGED <<threadId, mutex, flags, queues, sessions, epoll, setup, posted>>
    <3>1. pc[t] \in {"inline", "exec"} /\ ran' = Append(ran, <<job[t], t>>)
          /\ UNCHANGED <<threadId, mutex, flags, queues, sessions, epoll, setup, posted>>
      BY <1>1 DEF SessionInit
    <3>2. job[t] \in Tasks
      BY <1>0, <3>1 DEF Control, Adding
    <3>3. connected' \subseteq Tasks /\ dropped' \subseteq Tasks
      BY <1>1, <3>2 DEF SessionInit, TypeInv
    <3>. QED
      BY <3>1, <3>2, <3>3
  <2>2. \/ /\ pc' = [pc EXCEPT ![t] = IF pc[t] = "inline" THEN "emplace" ELSE "execEmplace"]
           /\ job' = job
        \/ /\ pc' = [pc EXCEPT ![t] = IF pc[t] = "inline" THEN "free" ELSE "tasks"]
           /\ job' = [job EXCEPT ![t] = NoTask]
    <3>1. CASE updateChannel(t)
      BY <1>1, <3>1 DEF SessionInit, Goto
    <3>2. CASE ~updateChannel(t)
      <4>1. AfterTask(t) = IF pc[t] = "inline" THEN "free" ELSE "tasks"
        BY <2>1 DEF AfterTask
      <4>. QED
        BY <1>1, <3>2, <4>1 DEF SessionInit, Goto
    <3>. QED
      BY <3>1, <3>2
  <2>3. TypeInv'
    <3>1. ran' \in Seq(Tasks \X Threads)
      BY <1>0, <2>1 DEF TypeInv
    <3>2. pc' \in [Threads -> Labels] /\ job' \in [Threads -> Tasks \cup {NoTask}]
      BY <1>0, <2>2 DEF TypeInv, Labels
    <3>. QED
      BY <2>1, <3>1, <3>2 DEF TypeInv, flags, queues, setup
  <2>4. Control'
    <3>. DEFINE label == pc'[t]
    <3>1. /\ pc' = [pc EXCEPT ![t] = label]
          /\ \/ pc[t] = "inline" /\ label \in {"emplace", "free"}
             \/ pc[t] = "exec" /\ label \in {"execEmplace", "tasks"} /\ t = Runner
          /\ label # "free" /\ label # "tasks" => job' = job
          /\ \A u \in Threads : u # t => job'[u] = job[u]
      BY <1>0, <2>1, <2>2 DEF TypeInv, Control, Adding
    <3>. HIDE DEF label
    <3>2. /\ mutex' = IF pc'[Runner] = "clear" THEN Runner ELSE NoThread
          /\ threadId' = IF pc'[Runner] \in PreLoop THEN creator' ELSE Runner
          /\ pc'[Runner] \notin {"woken", "quited"}
      BY <1>0, <2>1, <3>1 DEF TypeInv, Control, PreLoop, setup
    <3>3. /\ pc'[Runner] \in Adding => early'
          /\ pc'[Runner] \in {"inline", "emplace"} => creator' = Runner
          /\ pc'[Runner] \in {"exec", "execEmplace", "handle"} => job'[Runner] \in Tasks
      BY <1>0, <2>1, <3>1 DEF TypeInv, Control, Adding, setup
    <3>4. ASSUME NEW u \in Threads
          PROVE  pc'[u] \in Adding => u \in Posters /\ job'[u] = <<u, posted[u]>> /\ job'[u] \in Tasks
      BY <1>0, <2>1, <3>1 DEF TypeInv, Control, Adding
    <3>5. ASSUME NEW u \in Threads, u # Runner
          PROVE  /\ pc'[u] \in Adding \cup {"free", "waiting", "woken", "quited"}
                 /\ pc'[u] \in {"inline", "emplace"} => u = creator' /\ early'
                 /\ pc'[u] \in {"waiting", "woken"} => quiting'
      <4>0. UNCHANGED <<quiting, creator, early>>
        BY <2>1 DEF setup, flags
      <4>1. CASE u = t
        <5>1. pc[u] = "inline" /\ u = creator /\ early
          BY <3>1, <3>5, <4>1 DEF Control
        <5>2. pc'[u] \in {"emplace", "free"}
          BY <1>0, <3>1, <4>1, <5>1 DEF TypeInv
        <5>. QED
          BY <4>0, <5>1, <5>2 DEF Adding
      <4>2. CASE u # t
        BY <1>0, <3>1, <3>5, <4>0, <4>2 DEF TypeInv, Control
      <4>. QED
        BY <4>1, <4>2
    <3>. QED
      BY <2>1, <3>2, <3>3, <3>4, <3>5 DEF Control
  <2>5. Quits'
    BY <1>0, <2>1, <2>2 DEF TypeInv, Quits, InIteration, flags
  <2>. QED
    BY <2>3, <2>4, <2>5
<1>2. CASE Emplace(t)
  <2>1. /\ pc[t] \in {"emplace", "execEmplace"} /\ job[t] \in Tasks
        /\ sessions' = sessions \cup {job[t]}
        /\ job' = [job EXCEPT ![t] = NoTask]
        /\ pc' = [pc EXCEPT ![t] = IF pc[t] = "emplace" THEN "free" ELSE "tasks"]
        /\ UNCHANGED <<threadId, mutex, flags, queues, connected, epoll, setup, history>>
    BY <1>0, <1>2 DEF Emplace, AfterTask, Goto, Control, Adding, TypeInv
  <2>2. TypeInv'
    BY <1>0, <2>1 DEF TypeInv, Labels, flags, queues, setup, history
  <2>3. Control'
    <3>1. /\ \/ pc[t] = "emplace" /\ pc'[t] = "free"
             \/ pc[t] = "execEmplace" /\ pc'[t] = "tasks" /\ t = Runner
          /\ UNCHANGED <<threadId, mutex, quiting, creator, early, posted>>
          /\ \A u \in Threads : u # t => pc'[u] = pc[u] /\ job'[u] = job[u]
      BY <1>0, <2>1 DEF TypeInv, Control, Adding, flags, setup, history
    <3>2. /\ mutex' = IF pc'[Runner] = "clear" THEN Runner ELSE NoThread
          /\ threadId' = IF pc'[Runner] \in PreLoop THEN creator' ELSE Runner
          /\ pc'[Runner] \notin {"woken", "quited"}
          /\ pc'[Runner] \in Adding => early'
          /\ pc'[Runner] \in {"inline", "emplace"} => creator' = Runner
          /\ pc'[Runner] \in {"exec", "execEmplace", "handle"} => job'[Runner] \in Tasks
      <4>1. CASE t = Runner
        BY <3>1, <4>1 DEF Control, PreLoop, Adding
      <4>2. CASE t # Runner
        BY <3>1, <4>2 DEF Control
      <4>. QED
        BY <4>1, <4>2
    <3>3. ASSUME NEW u \in Threads
          PROVE  /\ pc'[u] \in Adding => u \in Posters /\ job'[u] = <<u, posted'[u]>> /\ job'[u] \in Tasks
                 /\ u # Runner =>
                      /\ pc'[u] \in Adding \cup {"free", "waiting", "woken", "quited"}
                      /\ pc'[u] \in {"inline", "emplace"} => u = creator' /\ early'
                      /\ pc'[u] \in {"waiting", "woken"} => quiting'
      <4>1. CASE u = t
        BY <3>1, <4>1 DEF Adding
      <4>2. CASE u # t
        BY <3>1, <4>2 DEF Control
      <4>. QED
        BY <4>1, <4>2
    <3>. QED
      BY <3>2, <3>3 DEF Control
  <2>4. Quits'
    BY <1>0, <2>1 DEF TypeInv, Quits, InIteration, flags
  <2>. QED
    BY <2>2, <2>3, <2>4
<1>. QED
  BY <1>1, <1>2 DEF TaskStep

\* The steps of loop() that change nothing but the Runner's place, m_threadId,
\* m_isRunning and m_mutex.
LEMMA LoopInv ==
  ASSUME Inv, \/ LoopEnter \/ LoopRunning \/ LoopTest \/ PollFails \/ PollTimeout
              \/ DoTasksReturn \/ LoopEndLock
  PROVE  Inv'
<1>. USE ThreadsAssumption DEF Inv
<1>1. /\ UNCHANGED <<quiting, queues, sockets, job, history>>
      /\ pc' \in [Threads -> Labels] /\ pc' = [pc EXCEPT ![Runner] = pc'[Runner]]
      /\ threadId' \in Threads /\ mutex' \in Threads \cup {NoThread} /\ running' \in BOOLEAN
  BY DEF LoopEnter, LoopRunning, LoopTest, PollFails, PollTimeout, DoTasksReturn, LoopEndLock,
         Goto, TypeInv, Labels, flags
<1>2. TypeInv'
  BY <1>1 DEF TypeInv, queues, sockets, setup, history
<1>3. Control'
  <2>1. /\ UNCHANGED <<quiting, creator, early, posted, job>>
        /\ \A u \in Threads : u # Runner => pc'[u] = pc[u]
    BY <1>1 DEF TypeInv, sockets, setup, history
  <2>2. /\ pc'[Runner] \in {"fence", "test", "poll", "end", "swap", "clear"}
        /\ mutex' = IF pc'[Runner] = "clear" THEN Runner ELSE NoThread
        /\ threadId' = Runner
    BY <1>1 DEF LoopEnter, LoopRunning, LoopTest, PollFails, PollTimeout, DoTasksReturn,
         LoopEndLock, Goto, TypeInv, Control, PreLoop, Adding, flags, MutexFree
  <2>3. /\ pc'[Runner] \notin Adding /\ pc'[Runner] \notin PreLoop
        /\ pc'[Runner] \notin {"woken", "quited", "exec", "execEmplace", "handle"}
    BY <2>2 DEF Adding, PreLoop
  <2>4. ASSUME NEW u \in Threads
        PROVE  /\ pc'[u] \in Adding => u \in Posters /\ job'[u] = <<u, posted'[u]>> /\ job'[u] \in Tasks
               /\ u # Runner =>
                    /\ pc'[u] \in Adding \cup {"free", "waiting", "woken", "quited"}
                    /\ pc'[u] \in {"inline", "emplace"} => u = creator' /\ early'
                    /\ pc'[u] \in {"waiting", "woken"} => quiting'
    <3>1. CASE u = Runner
      BY <2>3, <3>1
    <3>2. CASE u # Runner
      BY <2>1, <3>2 DEF Control
    <3>. QED
      BY <3>1, <3>2
  <2>. QED
    BY <2>2, <2>3, <2>4 DEF Control, Adding
<1>4. Quits'
  BY <1>1 DEF LoopEnter, LoopRunning, LoopTest, PollFails, PollTimeout, DoTasksReturn,
         LoopEndLock, Goto, TypeInv, Labels, Quits, InIteration, flags, sockets
<1>. QED
  BY <1>2, <1>3, <1>4

LEMMA HandlerInv ==
  ASSUME Inv, \/ \E s \in Tasks : PollEvent(s)
              \/ HandleKeep \/ HandleClose \/ removeSession \/ HandlerQuits
              \/ DoTasksSwap \/ DoTasksNext
  PROVE  Inv'
<1>. USE ThreadsAssumption DEF Inv
<1>1. /\ UNCHANGED <<threadId, mutex, running, epoll, setup, history>>
      /\ \/ UNCHANGED quiting
         \/ quiting' = TRUE /\ pc'[Runner] = "waiting"
      /\ sessions' \subseteq Tasks /\ connected' \subseteq Tasks
  BY DEF PollEvent, HandleKeep, HandleClose, removeSession, HandlerQuits, DoTasksSwap,
         DoTasksNext, HandlerReturns, Goto, TypeInv, flags, sockets
<1>2. PICK label \in {"handle", "swap", "waiting", "tasks", "exec"} :
        /\ pc' = [pc EXCEPT ![Runner] = label]
        /\ label = "waiting" \/ InIteration
        /\ pc[Runner] \in {"poll", "handle", "swap", "tasks"}
        /\ label \in {"handle", "exec"} => job'[Runner] \in Tasks
  <2>1. functions # <<>> => Head(functions) \in Tasks
    BY DEF TypeInv
  <2>. QED
    BY <2>1 DEF PollEvent, HandleKeep, HandleClose, removeSession, HandlerQuits, DoTasksSwap,
         DoTasksNext, HandlerReturns, Goto, TypeInv, InIteration
<1>3. job' \in [Threads -> Tasks \cup {NoTask}] /\ job' = [job EXCEPT ![Runner] = job'[Runner]]
  <2>1. functions # <<>> => Head(functions) \in Tasks
    BY DEF TypeInv
  <2>2. job' = job \/ \E x \in Tasks \cup {NoTask} : job' = [job EXCEPT ![Runner] = x]
    BY <2>1 DEF PollEvent, HandleKeep, HandleClose, removeSession, HandlerQuits, DoTasksSwap,
         DoTasksNext, HandlerReturns
  <2>3. job \in [Threads -> Tasks \cup {NoTask}]
    BY DEF TypeInv
  <2>. QED
    BY <2>2, <2>3
<1>4. tasks' \in Seq(Tasks) /\ functions' \in Seq(Tasks)
  <2>1. functions # <<>> => Tail(functions) \in Seq(Tasks)
    BY DEF TypeInv
  <2>2. <<>> \in Seq(Tasks)
    OBVIOUS
  <2>. QED
    BY <2>1, <2>2 DEF PollEvent, HandleKeep, HandleClose, removeSession, HandlerQuits,
       DoTasksSwap, DoTasksNext, HandlerReturns, TypeInv, queues
<1>5. TypeInv'
  BY <1>1, <1>2, <1>3, <1>4 DEF TypeInv, Labels, setup, history
<1>6. Control'
  <2>1. /\ pc'[Runner] = label /\ UNCHANGED <<threadId, mutex, creator, early, posted>>
        /\ quiting => quiting'
        /\ \A u \in Threads : u # Runner => pc'[u] = pc[u] /\ job'[u] = job[u]
    BY <1>1, <1>2, <1>3 DEF TypeInv, setup, history
  <2>2. /\ mutex' = IF pc'[Runner] = "clear" THEN Runner ELSE NoThread
        /\ threadId' = IF pc'[Runner] \in PreLoop THEN creator' ELSE Runner
    BY <1>2, <2>1 DEF Control, PreLoop
  <2>3. /\ pc'[Runner] \notin {"woken", "quited"} /\ pc'[Runner] \notin Adding
        /\ pc'[Runner] \notin {"inline", "emplace"}
        /\ pc'[Runner] \in {"exec", "execEmplace", "handle"} => job'[Runner] \in Tasks
    BY <1>2, <2>1 DEF Adding
  <2>4. ASSUME NEW u \in Threads
        PROVE  /\ pc'[u] \in Adding => u \in Posters /\ job'[u] = <<u, posted'[u]>> /\ job'[u] \in Tasks
               /\ u # Runner =>
                    /\ pc'[u] \in Adding \cup {"free", "waiting", "woken", "quited"}
                    /\ pc'[u] \in {"inline", "emplace"} => u = creator' /\ early'
                    /\ pc'[u] \in {"waiting", "woken"} => quiting'
    <3>1. CASE u = Runner
      BY <2>3, <3>1
    <3>2. CASE u # Runner
      BY <2>1, <3>2 DEF Control
    <3>. QED
      BY <3>1, <3>2
  <2>. QED
    BY <2>2, <2>3, <2>4 DEF Control
<1>7. Quits'
  BY <1>1, <1>2 DEF TypeInv, Quits, InIteration
<1>. QED
  BY <1>5, <1>6, <1>7

LEMMA ClearInv ==
  ASSUME Inv, LoopClear
  PROVE  Inv'
<1>. USE ThreadsAssumption DEF Inv, LoopClear
<1>1. TypeInv'
  BY DEF TypeInv, Labels, queues, setup, history
<1>2. Control'
  BY DEF TypeInv, Control, PreLoop, Adding, setup, history
<1>3. Quits'
  BY DEF TypeInv, Quits, InIteration, Control, Adding
<1>. QED
  BY <1>1, <1>2, <1>3

LEMMA QuitInv ==
  ASSUME Inv, NEW t \in Quitters, QuitterStep(t)
  PROVE  Inv'
<1>. USE ThreadsAssumption DEF Inv
<1>0. t \in Threads
  OBVIOUS
<1>1. /\ t # Runner /\ pc[t] \in {"free", "woken"} /\ FinishOrWait(t)
      /\ quiting' = TRUE
      /\ UNCHANGED <<threadId, mutex, running, queues, sessions, connected, setup, job, history>>
  BY <1>0 DEF QuitterStep, QuitLock, QuitWake, Control, flags, TypeInv
<1>2. \/ /\ running /\ pc' = [pc EXCEPT ![t] = "waiting"] /\ epoll' = epoll
      \/ /\ ~running /\ pc' = [pc EXCEPT ![t] = "quited"]
         /\ epoll' = IF epoll = "open" THEN "closed" ELSE epoll
  BY <1>1 DEF FinishOrWait, Goto
<1>3. TypeInv'
  BY <1>0, <1>1, <1>2 DEF TypeInv, Labels, queues, setup, history
<1>4. Control'
  BY <1>0, <1>1, <1>2 DEF TypeInv, Control, PreLoop, Adding, setup, history
<1>5. Quits'
  BY <1>0, <1>1, <1>2 DEF TypeInv, Quits, InIteration
<1>. QED
  BY <1>3, <1>4, <1>5

LEMMA StutterInv == Inv /\ UNCHANGED vars => Inv'
<1>. SUFFICES ASSUME Inv, UNCHANGED vars PROVE Inv'
  OBVIOUS
<1>. USE DEF Inv, vars, flags, queues, sockets, setup, history
<1>1. TypeInv'
  BY DEF TypeInv
<1>2. Control'
  BY DEF Control, PreLoop, Adding
<1>3. Quits'
  BY DEF Quits, InIteration
<1>. QED
  BY <1>1, <1>2, <1>3

LEMMA NextInv == Inv /\ [Next]_vars => Inv'
BY AddTaskInv, TaskInv, LoopInv, HandlerInv, ClearInv, QuitInv, StutterInv
   DEF Next, RunnerStep

LEMMA InvHolds == Spec => []Inv
BY InitInv, NextInv, PTL DEF Spec

-----------------------------------------------------------------------------
(* Threads.                                                                *)

\* quit() closes the descriptor, and returns, only when no iteration of the
\* loop is in progress, and none begins after it (EventLoop.cpp:35, 76-88).
THEOREM LoopNoIterationAfterQuit == Spec => []NoIterationAfterQuit
<1>1. Inv => NoIterationAfterQuit
  BY DEF Inv, Quits, NoIterationAfterQuit
<1>. QED
  BY <1>1, InvHolds, PTL

\* Who executes a task: the Runner, or in the window the creator that posted it.
LEMMA WhoRunsTasks ==
  ASSUME Inv, NEW t \in Posters \cup {Runner}, SessionInit(t)
  PROVE  /\ job[t] \in Tasks
         /\ \/ t = Runner /\ isInLoopThread(t)
            \/ t # Runner /\ t = creator /\ ~NoWindow /\ job[t][1] = t
<1>. USE ThreadsAssumption DEF Inv
<1>1. t \in Threads /\ pc[t] \in {"inline", "exec"}
  BY DEF SessionInit
<1>2. job[t] \in Tasks
  BY <1>1 DEF Control, Adding
<1>3. CASE t = Runner
  BY <1>1, <1>2, <1>3 DEF Control, PreLoop, Adding, isInLoopThread
<1>4. CASE t # Runner
  <2>1. pc[t] = "inline" /\ t = creator /\ early /\ job[t] = <<t, posted[t]>>
    BY <1>1, <1>4 DEF Control, Adding
  <2>. QED
    BY <1>2, <1>4, <2>1 DEF NoWindow
<1>. QED
  BY <1>3, <1>4

\* Only SessionInit adds to the histories, and a closed epoll stays closed.
LEMMA OthersKeepHistory ==
  ASSUME [Next]_vars, \A t \in Posters \cup {Runner} : ~SessionInit(t)
  PROVE  UNCHANGED <<ran, dropped, setup>> /\ (epoll # "open" => epoll' # "open")
<1>. USE DEF history, sockets, setup
<1>1. ASSUME NEW t \in Posters, PosterStep(t)
      PROVE  UNCHANGED <<ran, dropped, setup, epoll>>
  BY <1>1 DEF PosterStep, AddTaskTest, AddTaskPush
<1>2. ASSUME NEW t \in Posters \cup {Runner}, Emplace(t)
      PROVE  UNCHANGED <<ran, dropped, setup, epoll>>
  BY <1>2 DEF Emplace
<1>3. ASSUME RunnerStep \/ \E s \in Tasks : PollEvent(s)
      PROVE  UNCHANGED <<ran, dropped, setup, epoll>>
  BY <1>3 DEF RunnerStep, PollEvent, LoopEnter, LoopRunning, LoopTest, PollFails, PollTimeout,
     HandleKeep, HandleClose, removeSession, HandlerReturns, HandlerQuits, DoTasksSwap,
     DoTasksNext, DoTasksReturn, LoopEndLock, LoopClear
<1>4. ASSUME NEW t \in Quitters, QuitterStep(t)
      PROVE  UNCHANGED <<ran, dropped, setup>> /\ (epoll # "open" => epoll' = epoll)
  BY <1>4 DEF QuitterStep, QuitLock, QuitWake, FinishOrWait
<1>5. UNCHANGED vars => UNCHANGED <<ran, dropped, setup, epoll>>
  BY DEF vars
<1>. QED
  BY <1>1, <1>2, <1>3, <1>4, <1>5 DEF Next, TaskStep

LEMMA HistoryInv ==
  ASSUME Inv, [Next]_vars, TasksRunInLoopThread, NoSessionDropped
  PROVE  TasksRunInLoopThread' /\ NoSessionDropped'
<1>1. CASE \E t \in Posters \cup {Runner} : SessionInit(t)
  <2>1. PICK t \in Posters \cup {Runner} : SessionInit(t)
    BY <1>1
  <2>2. /\ ran' = Append(ran, <<job[t], t>>) /\ UNCHANGED <<epoll, setup>>
        /\ dropped' = dropped \/ (dropped' = dropped \cup {job[t]} /\ ~updateChannel(t))
    BY <2>1 DEF SessionInit
  <2>3. ran \in Seq(Tasks \X Threads) /\ t \in Threads /\ job[t] \in Tasks
    BY <2>1, WhoRunsTasks, ThreadsAssumption DEF Inv, TypeInv
  <2>4. NoWindow' = NoWindow /\ creator' = creator
    BY <2>2 DEF NoWindow, setup
  <2>5. TasksRunInLoopThread'
    <3>1. ASSUME NEW i \in 1 .. Len(ran')
          PROVE  ran'[i] = <<job[t], t>> \/ (i \in 1 .. Len(ran) /\ ran'[i] = ran[i])
      BY <2>2, <2>3
    <3>. QED
      BY <2>1, <2>4, <3>1, WhoRunsTasks DEF TasksRunInLoopThread
  <2>6. NoSessionDropped'
    BY <2>1, <2>2, <2>4, WhoRunsTasks DEF NoSessionDropped, updateChannel
  <2>. QED
    BY <2>5, <2>6
<1>2. CASE \A t \in Posters \cup {Runner} : ~SessionInit(t)
  <2>1. UNCHANGED <<ran, dropped, setup>> /\ (epoll # "open" => epoll' # "open")
    BY <1>2, OthersKeepHistory
  <2>. QED
    BY <2>1 DEF TasksRunInLoopThread, NoSessionDropped, NoWindow, setup
<1>. QED
  BY <1>1, <1>2

LEMMA OneToucher == Inv => SessionsTouchedByOneThread
<1>. SUFFICES ASSUME Inv, NoWindow
              PROVE  Cardinality({t \in Threads : TouchesSessions(t)}) <= 1
  BY DEF SessionsTouchedByOneThread
<1>1. {t \in Threads : TouchesSessions(t)} \in SUBSET {Runner}
  BY ThreadsAssumption DEF Inv, Control, Adding, TouchesSessions, NoWindow
<1>2. IsFiniteSet({Runner}) /\ Cardinality({Runner}) = 1
  BY FS_Singleton
<1>. QED
  BY <1>1, <1>2, FS_Subset

\* One thread one loop: outside the start-up window tasks run, and m_sessions
\* changes, in the loop's thread only, and neither test of the thread's id drops
\* an accepted connection (EventLoop.cpp:26, 99, 124, 154).
THEOREM LoopOneThreadOneLoop == Spec => []OneThreadOneLoop
<1>1. Init => TasksRunInLoopThread /\ NoSessionDropped
  BY DEF Init, TasksRunInLoopThread, NoSessionDropped
<1>2. Inv /\ TasksRunInLoopThread /\ NoSessionDropped => OneThreadOneLoop
  BY OneToucher DEF OneThreadOneLoop
<1>3. /\ Inv /\ TasksRunInLoopThread /\ NoSessionDropped /\ [Next]_vars
      => TasksRunInLoopThread' /\ NoSessionDropped'
  BY HistoryInv
<1>. QED
  BY InvHolds, <1>1, <1>2, <1>3, PTL DEF Spec

\* m_channels, which Epoll::poll reads without the mutex, does not change while
\* the Runner stays where it is between the loop's test and the end of its
\* handlers (EventLoop.cpp:41, 97-119).
THEOREM LoopChannelsStableDuringPoll == Spec => ChannelsStableDuringPoll
<1>. DEFINE Stable == pc[Runner] \in {"test", "poll", "handle"} /\ connected' # connected
                        => pc'[Runner] # pc[Runner]
<1>1. Inv /\ Next => Stable
  <2>. SUFFICES ASSUME Inv, Next, pc[Runner] \in {"test", "poll", "handle"},
                       connected' # connected
                PROVE  pc'[Runner] # pc[Runner]
    OBVIOUS
  <2>. USE ThreadsAssumption DEF Inv
  <2>1. ASSUME NEW t \in Posters \cup {Runner}, SessionInit(t) PROVE FALSE
    <3>1. updateChannel(t) /\ t \in Threads /\ pc[t] \in {"inline", "exec"}
      BY <2>1 DEF SessionInit
    <3>2. t = Runner
      BY <3>1 DEF updateChannel, isInLoopThread, Control, PreLoop
    <3>. QED
      BY <3>1, <3>2
  <2>2. ASSUME HandleClose \/ removeSession PROVE pc'[Runner] = "swap"
    BY <2>2 DEF HandleClose, removeSession, HandlerReturns, Goto, TypeInv
  <2>3. ASSUME RunnerStep, ~HandleClose, ~removeSession PROVE FALSE
    BY <2>3 DEF RunnerStep, LoopEnter, LoopRunning, LoopTest, PollFails, PollTimeout,
       HandleKeep, HandlerReturns, HandlerQuits, DoTasksSwap, DoTasksNext, DoTasksReturn,
       LoopEndLock, LoopClear, sockets
  <2>4. ASSUME NEW s \in Tasks, PollEvent(s) PROVE FALSE
    BY <2>4 DEF PollEvent, sockets
  <2>5. ASSUME NEW t \in Posters, PosterStep(t) PROVE FALSE
    BY <2>5 DEF PosterStep, AddTaskTest, AddTaskPush, sockets
  <2>6. ASSUME NEW t \in Posters \cup {Runner}, Emplace(t) PROVE FALSE
    BY <2>6 DEF Emplace
  <2>7. ASSUME NEW t \in Quitters, QuitterStep(t) PROVE FALSE
    BY <2>7 DEF QuitterStep, QuitLock, QuitWake
  <2>8. CASE RunnerStep
    BY <2>2, <2>3, <2>8
  <2>9. CASE ~RunnerStep
    BY <2>1, <2>4, <2>5, <2>6, <2>7, <2>9 DEF Next, TaskStep
  <2>. QED
    BY <2>8, <2>9
<1>2. Inv /\ [Next]_vars => [Stable]_vars
  BY <1>1
<1>3. Spec => [][Stable]_vars
  BY InvHolds, <1>2, PTL DEF Spec
<1>. QED
  BY <1>3 DEF ChannelsStableDuringPoll

-----------------------------------------------------------------------------
(* The line of tasks.                                                      *)

Before(x, y) == x[1] = y[1] => x[2] < y[2]

AllBefore(S, T) == \A x \in S, y \in T : Before(x, y)

InOrder(seq) == \A i, j \in 1 .. Len(seq) : i < j => Before(seq[i], seq[j])

Members(seq) == {seq[i] : i \in 1 .. Len(seq)}

Done   == {ran[i][1] : i \in 1 .. Len(ran)}
InExec == IF pc[Runner] = "exec" THEN {job[Runner]} ELSE {}
Queued == InExec \cup Members(functions) \cup Members(tasks)

\* The poster holds the last task it posted, pushed or executed by nobody yet.
Holding(t) == pc[t] \in {"push", "inline"}

Sorted ==
  /\ PosterOrder /\ InOrder(functions) /\ InOrder(tasks)
  /\ AllBefore(Done, Queued)
  /\ AllBefore(InExec, Members(functions) \cup Members(tasks))
  /\ AllBefore(Members(functions), Members(tasks))

\* Every task in the line was posted, and every posted task is in the line or
\* in the hands of its poster.
Complete ==
  /\ \A x \in Done \cup Queued :
       x[2] <= posted[x[1]] /\ (Holding(x[1]) => x[2] < posted[x[1]])
  /\ \A x \in Tasks :
       x[2] <= posted[x[1]] => x \in Done \cup Queued \/ (Holding(x[1]) /\ x[2] = posted[x[1]])

\* A task that runs inline overtakes no queued one of its poster.
InlineFirst ==
  /\ threadId = creator \/ pc[creator] = "inline" => \A x \in Queued : x[1] # creator
  /\ threadId = creator => pc[creator] # "push"

Swapped == pc[Runner] \notin {"tasks", "exec", "execEmplace"} => functions = <<>>

Line == Sorted /\ Complete /\ InlineFirst /\ Swapped

-----------------------------------------------------------------------------
(* Lists.                                                                  *)

LEMMA MembersOf ==
  ASSUME NEW S, NEW s \in Seq(S)
  PROVE  /\ Members(s) \subseteq S
         /\ \A e \in S : Members(Append(s, e)) = Members(s) \cup {e}
         /\ s # <<>> => Members(s) = {Head(s)} \cup Members(Tail(s))
<1>1. Members(s) \subseteq S
  BY DEF Members
<1>2. ASSUME NEW e \in S PROVE Members(Append(s, e)) = Members(s) \cup {e}
  <2>1. /\ Len(Append(s, e)) = Len(s) + 1 /\ Append(s, e)[Len(s) + 1] = e
        /\ \A i \in 1 .. Len(s) : Append(s, e)[i] = s[i]
    OBVIOUS
  <2>2. 1 .. Len(s) + 1 = (1 .. Len(s)) \cup {Len(s) + 1}
    OBVIOUS
  <2>. QED
    BY <2>1, <2>2 DEF Members
<1>3. ASSUME s # <<>> PROVE Members(s) = {Head(s)} \cup Members(Tail(s))
  <2>1. /\ Len(Tail(s)) = Len(s) - 1 /\ Head(s) = s[1] /\ Len(s) \in Nat \ {0}
        /\ \A i \in 1 .. Len(s) - 1 : Tail(s)[i] = s[i + 1]
    BY <1>3
  <2>2. ASSUME NEW x \in Members(s) PROVE x \in {Head(s)} \cup Members(Tail(s))
    <3>1. PICK i \in 1 .. Len(s) : x = s[i]
      BY DEF Members
    <3>2. CASE i = 1
      BY <2>1, <3>1, <3>2
    <3>3. CASE i # 1
      <4>1. i - 1 \in 1 .. Len(Tail(s)) /\ Tail(s)[i - 1] = x
        BY <2>1, <3>1, <3>3
      <4>. QED
        BY <4>1 DEF Members
    <3>. QED
      BY <3>2, <3>3
  <2>3. ASSUME NEW x \in Members(Tail(s)) PROVE x \in Members(s)
    <3>1. PICK i \in 1 .. Len(Tail(s)) : x = Tail(s)[i]
      BY DEF Members
    <3>2. i + 1 \in 1 .. Len(s) /\ x = s[i + 1]
      BY <2>1, <3>1
    <3>. QED
      BY <3>2 DEF Members
  <2>4. Head(s) \in Members(s)
    BY <2>1 DEF Members
  <2>. QED
    BY <2>2, <2>3, <2>4
<1>. QED
  BY <1>1, <1>2, <1>3

LEMMA OrderOf ==
  ASSUME NEW S, NEW s \in Seq(S), InOrder(s)
  PROVE  /\ \A e \in S : AllBefore(Members(s), {e}) => InOrder(Append(s, e))
         /\ s # <<>> => InOrder(Tail(s)) /\ AllBefore({Head(s)}, Members(Tail(s)))
<1>1. ASSUME NEW e \in S, AllBefore(Members(s), {e}) PROVE InOrder(Append(s, e))
  <2>1. /\ Len(Append(s, e)) = Len(s) + 1 /\ Append(s, e)[Len(s) + 1] = e
        /\ \A i \in 1 .. Len(s) : Append(s, e)[i] = s[i]
    OBVIOUS
  <2>2. \A i \in 1 .. Len(s) : Before(s[i], e)
    BY <1>1 DEF AllBefore, Members
  <2>. QED
    BY <2>1, <2>2 DEF InOrder
<1>2. ASSUME s # <<>> PROVE InOrder(Tail(s)) /\ AllBefore({Head(s)}, Members(Tail(s)))
  <2>1. /\ Len(Tail(s)) = Len(s) - 1 /\ Head(s) = s[1] /\ Len(s) \in Nat \ {0}
        /\ \A i \in 1 .. Len(s) - 1 : Tail(s)[i] = s[i + 1]
    BY <1>2
  <2>2. InOrder(Tail(s))
    BY <2>1 DEF InOrder
  <2>3. \A i \in 1 .. Len(Tail(s)) : Before(Head(s), Tail(s)[i])
    BY <2>1 DEF InOrder
  <2>. QED
    BY <2>2, <2>3 DEF AllBefore, Members
<1>. QED
  BY <1>1, <1>2

-----------------------------------------------------------------------------
(* The steps that move a task.                                             *)

LEMMA LineTypes ==
  ASSUME Inv
  PROVE  /\ Done \subseteq Tasks /\ InExec \subseteq Tasks
         /\ Members(functions) \subseteq Tasks /\ Members(tasks) \subseteq Tasks
         /\ Queued \subseteq Tasks
<1>1. Done \subseteq Tasks
  BY DEF Done, Inv, TypeInv
<1>2. InExec \subseteq Tasks
  BY DEF InExec, Inv, Control
<1>3. Members(functions) \subseteq Tasks /\ Members(tasks) \subseteq Tasks
  BY MembersOf DEF Inv, TypeInv
<1>. QED
  BY <1>1, <1>2, <1>3 DEF Queued

LEMMA TestLine ==
  ASSUME Inv, Line, NEW t \in Posters, AddTaskTest(t)
  PROVE  Line'
<1>. USE ThreadsAssumption DEF Inv
<1>1. /\ t \in Threads /\ pc[t] = "free"
      /\ posted' = [posted EXCEPT ![t] = @ + 1]
      /\ job' = [job EXCEPT ![t] = <<t, posted[t] + 1>>]
      /\ UNCHANGED <<tasks, functions, ran, threadId, creator>>
      /\ \/ threadId = t /\ pc' = [pc EXCEPT ![t] = "inline"]
         \/ threadId # t /\ pc' = [pc EXCEPT ![t] = "push"]
  BY DEF AddTaskTest, MayPost, isInLoopThread, Goto, queues, sockets, setup
<1>2. UNCHANGED <<Done, InExec, Queued, Members(functions), Members(tasks)>>
  <2>1. pc'[Runner] = "exec" <=> pc[Runner] = "exec"
    BY <1>1 DEF TypeInv
  <2>2. pc[Runner] = "exec" => job'[Runner] = job[Runner]
    BY <1>1 DEF TypeInv
  <2>3. UNCHANGED InExec
    BY <2>1, <2>2 DEF InExec
  <2>4. UNCHANGED <<Done, Members(functions), Members(tasks)>>
    BY <1>1 DEF Done, Members
  <2>. QED
    BY <2>3, <2>4 DEF Queued
<1>3. \A u \in Posters : posted[u] \in Nat /\ u \in Threads
  BY BoundsAssumption DEF TypeInv
<1>4. Sorted'
  BY <1>1, <1>2 DEF Line, Sorted, PosterOrder, InOrder
<1>5. Complete'
  <2>1. ASSUME NEW x \in Done \cup Queued
        PROVE  x[2] <= posted'[x[1]] /\ (Holding(x[1])' => x[2] < posted'[x[1]])
    <3>1. x[1] \in Posters /\ x[2] \in Nat
      BY LineTypes, TaskFields, BoundsAssumption
    <3>2. x[2] <= posted[x[1]] /\ (Holding(x[1]) => x[2] < posted[x[1]])
      BY DEF Line, Complete
    <3>. QED
      BY <1>1, <1>3, <3>1, <3>2 DEF Holding, TypeInv
  <2>2. ASSUME NEW x \in Tasks, x[2] <= posted'[x[1]], x \notin Done \cup Queued
        PROVE  Holding(x[1])' /\ x[2] = posted'[x[1]]
    <3>1. x[1] \in Posters /\ x[2] \in Nat
      BY TaskFields, BoundsAssumption
    <3>2. x[2] <= posted[x[1]] => Holding(x[1]) /\ x[2] = posted[x[1]]
      BY <2>2 DEF Line, Complete
    <3>. QED
      BY <1>1, <1>3, <2>2, <3>1, <3>2 DEF Holding, TypeInv
  <2>. QED
    BY <1>2, <2>1, <2>2 DEF Complete
<1>6. InlineFirst'
  BY <1>1, <1>2 DEF Line, InlineFirst, Control, PreLoop, TypeInv
<1>7. Swapped'
  BY <1>1 DEF Line, Swapped, TypeInv
<1>. QED
  BY <1>4, <1>5, <1>6, <1>7 DEF Line

LEMMA PushLine ==
  ASSUME Inv, Line, NEW t \in Posters, AddTaskPush(t)
  PROVE  Line'
<1>. USE ThreadsAssumption DEF Inv
<1>. DEFINE x == job[t]
<1>1. /\ t \in Threads /\ pc[t] = "push" /\ x \in Tasks /\ x = <<t, posted[t]>>
      /\ tasks' = Append(tasks, x)
      /\ pc' = [pc EXCEPT ![t] = "free"] /\ job' = [job EXCEPT ![t] = NoTask]
      /\ UNCHANGED <<functions, ran, threadId, creator, posted>>
  BY DEF AddTaskPush, Goto, sockets, setup, history, Control, Adding
<1>2. x[1] = t /\ x[2] = posted[t]
  BY <1>1
<1>. HIDE DEF x
<1>3. /\ UNCHANGED <<Done, InExec, Members(functions)>>
      /\ Members(tasks)' = Members(tasks) \cup {x}
      /\ Queued' = Queued \cup {x}
  <2>1. Members(tasks') = Members(tasks) \cup {x}
    BY <1>1, MembersOf DEF TypeInv
  <2>2. UNCHANGED <<Done, Members(functions)>>
    BY <1>1 DEF Done, Members
  <2>3. /\ pc'[Runner] = IF t = Runner THEN "free" ELSE pc[Runner]
        /\ t # Runner => job'[Runner] = job[Runner]
    BY <1>1 DEF TypeInv
  <2>4. UNCHANGED InExec
    <3>1. CASE t = Runner
      <4>1. pc[Runner] # "exec" /\ pc'[Runner] # "exec"
        BY <1>1, <2>3, <3>1
      <4>. QED
        BY <4>1 DEF InExec
    <3>2. CASE t # Runner
      BY <2>3, <3>2 DEF InExec
    <3>. QED
      BY <3>1, <3>2
  <2>. QED
    BY <2>1, <2>2, <2>4 DEF Queued, Members
<1>4. AllBefore(Done \cup Queued, {x})
  BY <1>1, <1>2 DEF Line, Complete, Holding, AllBefore, Before
<1>5. Sorted'
  <2>1. InOrder(tasks')
    <3>1. AllBefore(Members(tasks), {x})
      BY <1>4 DEF AllBefore, Queued
    <3>. QED
      BY <1>1, <3>1, OrderOf DEF Line, Sorted, TypeInv
  <2>2. /\ AllBefore(Done', Queued')
        /\ AllBefore(InExec', Members(functions)' \cup Members(tasks)')
        /\ AllBefore(Members(functions)', Members(tasks)')
    BY <1>3, <1>4 DEF Line, Sorted, AllBefore, Queued
  <2>3. PosterOrder' /\ InOrder(functions)'
    BY <1>1 DEF Line, Sorted, PosterOrder, InOrder
  <2>. QED
    BY <2>1, <2>2, <2>3 DEF Sorted, AllBefore, InOrder
<1>6. Complete'
  <2>1. ASSUME NEW y \in Done \cup Queued \cup {x}
        PROVE  y[2] <= posted[y[1]] /\ (Holding(y[1])' => y[2] < posted[y[1]])
    <3>1. y[1] \in Threads
      BY <1>1, LineTypes, TaskFields
    <3>2. CASE y = x
      BY <1>1, <1>2, <3>2, BoundsAssumption DEF Holding, TypeInv
    <3>3. CASE y \in Done \cup Queued
      BY <1>1, <3>1, <3>3 DEF Line, Complete, Holding, TypeInv
    <3>. QED
      BY <3>2, <3>3
  <2>2. ASSUME NEW y \in Tasks, y[2] <= posted[y[1]], y \notin Done \cup Queued \cup {x}
        PROVE  Holding(y[1])' /\ y[2] = posted[y[1]]
    <3>1. Holding(y[1]) /\ y[2] = posted[y[1]] /\ y[1] \in Posters /\ y = <<y[1], y[2]>>
      BY <2>2, TaskFields DEF Line, Complete
    <3>2. y[1] # t
      BY <1>1, <2>2, <3>1
    <3>. QED
      BY <1>1, <3>1, <3>2 DEF Holding, TypeInv
  <2>. QED
    BY <1>1, <1>3, <2>1, <2>2 DEF Complete
<1>7. InlineFirst'
  BY <1>1, <1>2, <1>3 DEF Line, InlineFirst, Control, TypeInv
<1>8. Swapped'
  BY <1>1 DEF Line, Swapped, TypeInv
<1>. QED
  BY <1>5, <1>6, <1>7, <1>8 DEF Line

LEMMA RunLine ==
  ASSUME Inv, Line, NEW t \in Posters \cup {Runner}, SessionInit(t)
  PROVE  Line'
<1>. USE ThreadsAssumption DEF Inv
<1>. DEFINE x == job[t]
<1>1. /\ t \in Threads /\ pc[t] \in {"inline", "exec"} /\ x \in Tasks
      /\ ran' = Append(ran, <<x, t>>)
      /\ UNCHANGED <<tasks, functions, threadId, creator, posted>>
  BY WhoRunsTasks DEF SessionInit, queues, setup
<1>2. /\ pc[t] = "exec" => t = Runner /\ InExec = {x}
      /\ pc[t] = "inline" => /\ x = <<t, posted[t]>> /\ t = creator /\ t \in Posters
                             /\ x[1] = t /\ x[2] = posted[t]
  <2>1. ASSUME pc[t] = "exec" PROVE t = Runner
    BY <1>1, <2>1 DEF Control, Adding
  <2>2. ASSUME pc[t] = "exec" PROVE InExec = {x}
    BY <2>1, <2>2 DEF InExec
  <2>3. ASSUME pc[t] = "inline" PROVE t = creator /\ t \in Posters /\ x = <<t, posted[t]>>
    BY <1>1, <2>3 DEF Control, Adding
  <2>. QED
    BY <2>1, <2>2, <2>3
<1>3. PICK label \in {"emplace", "execEmplace", "free", "tasks"} :
        /\ pc' = [pc EXCEPT ![t] = label]
        /\ pc[t] = "exec" => label \in {"execEmplace", "tasks"}
        /\ pc[t] = "inline" => label \in {"emplace", "free"}
  BY <1>1 DEF SessionInit, AfterTask, Goto
<1>4. \A u \in Threads \ {t} : job'[u] = job[u]
  BY DEF SessionInit, TypeInv
<1>. HIDE DEF x
<1>5. /\ Done' = Done \cup {x}
      /\ InExec' = InExec \ {x} /\ UNCHANGED <<Members(functions), Members(tasks)>>
      /\ Queued' = Queued \ {x}
  <2>0. ran \in Seq(Tasks \X Threads) /\ <<x, t>> \in Tasks \X Threads
    BY <1>1 DEF TypeInv
  <2>1. Done' = Done \cup {x}
    <3>1. /\ Len(ran') = Len(ran) + 1 /\ ran'[Len(ran) + 1] = <<x, t>>
          /\ \A i \in 1 .. Len(ran) : ran'[i] = ran[i]
      BY <1>1, <2>0
    <3>2. 1 .. Len(ran) + 1 = (1 .. Len(ran)) \cup {Len(ran) + 1}
      BY <2>0
    <3>. QED
      BY <3>1, <3>2 DEF Done
  <2>2. UNCHANGED <<Members(functions), Members(tasks)>>
    BY <1>1 DEF Members
  <2>3. CASE pc[t] = "exec"
    <3>1. InExec = {x} /\ InExec' = {}
      BY <1>1, <1>2, <1>3, <2>3 DEF InExec, TypeInv
    <3>2. x \notin Members(functions) \cup Members(tasks)
      <4>1. x[2] \in Nat
        BY <1>1, TaskFields, BoundsAssumption
      <4>. QED
        BY <3>1, <4>1 DEF Line, Sorted, AllBefore, Before
    <3>. QED
      BY <2>1, <2>2, <3>1, <3>2 DEF Queued
  <2>4. CASE pc[t] = "inline"
    <3>1. x \notin Queued
      BY <1>1, <1>2, <2>4 DEF Line, InlineFirst
    <3>2. UNCHANGED InExec
      BY <1>1, <1>2, <1>3, <1>4, <2>4 DEF InExec, TypeInv
    <3>. QED
      BY <2>1, <2>2, <3>1, <3>2 DEF Queued
  <2>. QED
    BY <1>1, <2>3, <2>4
\* What was executed comes before x, and x before what is still queued.
<1>6. AllBefore(Done, {x}) /\ AllBefore({x}, Queued \ {x})
  <2>1. CASE pc[t] = "exec"
    BY <1>2, <2>1 DEF Line, Sorted, AllBefore, Queued
  <2>2. CASE pc[t] = "inline"
    <3>1. \A y \in Queued : y[1] # t
      BY <1>2, <2>2 DEF Line, InlineFirst
    <3>2. \A y \in Done : y[1] = t => y[2] < posted[t]
      BY <2>2 DEF Line, Complete, Holding
    <3>. QED
      BY <1>2, <2>2, <3>1, <3>2 DEF AllBefore, Before
  <2>. QED
    BY <1>1, <2>1, <2>2
<1>7. Sorted'
  <2>1. PosterOrder'
    <3>1. /\ ran \in Seq(Tasks \X Threads) /\ Len(ran') = Len(ran) + 1
          /\ ran'[Len(ran) + 1] = <<x, t>>
          /\ \A i \in 1 .. Len(ran) : ran'[i] = ran[i]
      BY <1>1 DEF TypeInv
    <3>2. \A i \in 1 .. Len(ran) : Before(ran[i][1], x)
      BY <1>6 DEF AllBefore, Done
    <3>3. SUFFICES ASSUME NEW i \in 1 .. Len(ran'), NEW j \in 1 .. Len(ran'),
                          i < j, ran'[i][1][1] = ran'[j][1][1]
                   PROVE  ran'[i][1][2] < ran'[j][1][2]
      BY DEF PosterOrder
    <3>4. i \in 1 .. Len(ran) /\ ran'[i] = ran[i] /\ (j \in 1 .. Len(ran) \/ j = Len(ran) + 1)
      BY <3>1, <3>3
    <3>5. CASE j \in 1 .. Len(ran)
      <4>1. ran'[j] = ran[j]
        BY <3>1, <3>5
      <4>. QED
        BY <3>3, <3>4, <3>5, <4>1 DEF Line, Sorted, PosterOrder
    <3>6. CASE j = Len(ran) + 1
      <4>1. ran'[j][1] = x /\ Before(ran'[i][1], x)
        BY <3>1, <3>2, <3>4, <3>6
      <4>. QED
        BY <3>3, <4>1 DEF Before
    <3>. QED
      BY <3>4, <3>5, <3>6
  <2>2. /\ AllBefore(Done', Queued')
        /\ AllBefore(InExec', Members(functions)' \cup Members(tasks)')
        /\ AllBefore(Members(functions)', Members(tasks)')
    BY <1>5, <1>6 DEF Line, Sorted, AllBefore
  <2>3. InOrder(functions)' /\ InOrder(tasks)'
    BY <1>1 DEF Line, Sorted, InOrder
  <2>. QED
    BY <2>1, <2>2, <2>3 DEF Sorted, AllBefore
<1>8. Complete'
  <2>1. \A u \in Threads : Holding(u)' <=> Holding(u) /\ u # t
    BY <1>1, <1>2, <1>3 DEF Holding, TypeInv, Control, Adding
  <2>2. Done' \cup Queued' = Done \cup Queued \cup {x}
    BY <1>5
  <2>3. x[1] \in Threads /\ x[2] <= posted[x[1]] /\ (x[1] # t => x \in Queued)
    <3>1. posted[x[1]] \in Nat /\ x[1] \in Threads
      BY <1>1, TaskFields, BoundsAssumption DEF TypeInv
    <3>. QED
      BY <1>1, <1>2, <3>1 DEF Line, Complete, Queued
  <2>4. ASSUME NEW y \in Done \cup Queued \cup {x}
        PROVE  y[2] <= posted[y[1]] /\ (Holding(y[1])' => y[2] < posted[y[1]])
    <3>1. y[1] \in Threads
      BY <1>1, LineTypes, TaskFields
    <3>. QED
      BY <2>1, <2>3, <3>1 DEF Line, Complete
  <2>5. ASSUME NEW y \in Tasks, y[2] <= posted[y[1]], y \notin Done \cup Queued \cup {x}
        PROVE  Holding(y[1])' /\ y[2] = posted[y[1]]
    <3>1. Holding(y[1]) /\ y[2] = posted[y[1]] /\ y[1] \in Threads /\ y = <<y[1], y[2]>>
      BY <2>5, TaskFields DEF Line, Complete
    <3>2. y[1] # t
      BY <1>1, <1>2, <2>5, <3>1 DEF Holding
    <3>. QED
      BY <2>1, <3>1, <3>2
  <2>. QED
    BY <1>1, <2>2, <2>4, <2>5 DEF Complete
<1>9. InlineFirst'
  BY <1>1, <1>3, <1>5 DEF Line, InlineFirst, TypeInv
<1>10. Swapped'
  BY <1>1, <1>2, <1>3 DEF Line, Swapped, TypeInv
<1>. QED
  BY <1>7, <1>8, <1>9, <1>10 DEF Line

LEMMA SwapLine ==
  ASSUME Inv, Line, DoTasksSwap
  PROVE  Line'
<1>. USE ThreadsAssumption DEF Inv
<1>1. /\ pc[Runner] = "swap" /\ pc' = [pc EXCEPT ![Runner] = "tasks"]
      /\ functions = <<>> /\ functions' = tasks /\ tasks' = <<>>
      /\ UNCHANGED <<ran, threadId, creator, posted>>
  BY DEF DoTasksSwap, Goto, sockets, setup, history, Line, Swapped
<1>2. /\ UNCHANGED <<Done, InExec, Queued>> /\ InExec = {}
      /\ Members(functions)' = Members(tasks) /\ Members(tasks)' = {} /\ Members(functions) = {}
  BY <1>1 DEF Done, InExec, Queued, Members, TypeInv
<1>3. Sorted'
  BY <1>1, <1>2 DEF Line, Sorted, PosterOrder, InOrder, AllBefore
<1>4. \A u \in Threads : Holding(u)' <=> Holding(u)
  BY <1>1 DEF Holding, TypeInv
<1>5. Complete'
  <2>1. \A y \in Tasks : y[1] \in Threads
    BY TaskFields
  <2>. QED
    BY <1>1, <1>2, <1>4, <2>1, LineTypes DEF Line, Complete
<1>6. InlineFirst' /\ Swapped'
  BY <1>1, <1>2 DEF Line, InlineFirst, Swapped, TypeInv
<1>. QED
  BY <1>3, <1>5, <1>6 DEF Line

LEMMA NextLine ==
  ASSUME Inv, Line, DoTasksNext
  PROVE  Line'
<1>. USE ThreadsAssumption DEF Inv
<1>. DEFINE x == Head(functions)
<1>1. /\ pc[Runner] = "tasks" /\ pc' = [pc EXCEPT ![Runner] = "exec"]
      /\ functions # <<>> /\ functions' = Tail(functions) /\ tasks' = tasks
      /\ job' = [job EXCEPT ![Runner] = x] /\ x \in Tasks
      /\ UNCHANGED <<ran, threadId, creator, posted>>
  <2>1. functions # <<>> /\ functions \in Seq(Tasks)
    BY DEF DoTasksNext, TypeInv
  <2>2. x \in Tasks
    BY <2>1
  <2>3. UNCHANGED <<ran, threadId, creator, posted>>
    BY DEF DoTasksNext, sockets, setup, history
  <2>. QED
    BY <2>1, <2>2, <2>3 DEF DoTasksNext, Goto
<1>2. /\ UNCHANGED <<Done, Members(tasks)>> /\ InExec = {} /\ InExec' = {x}
      /\ Members(functions) = {x} \cup Members(functions)'
  <2>1. Members(functions) = {x} \cup Members(functions')
    BY <1>1, MembersOf DEF TypeInv
  <2>2. pc'[Runner] = "exec" /\ job'[Runner] = x
    BY <1>1 DEF TypeInv
  <2>3. InExec = {} /\ InExec' = {x}
    BY <1>1, <2>2 DEF InExec
  <2>4. UNCHANGED <<Done, Members(tasks)>>
    BY <1>1 DEF Done, Members
  <2>5. Members(functions)' = Members(functions')
    BY DEF Members
  <2>. HIDE DEF x
  <2>. QED
    BY <2>1, <2>3, <2>4, <2>5
<1>3. UNCHANGED Queued
  BY <1>2 DEF Queued
<1>4. Sorted'
  <2>1. InOrder(functions)' /\ AllBefore({x}, Members(functions)')
    <3>1. InOrder(Tail(functions)) /\ AllBefore({x}, Members(Tail(functions)))
      BY <1>1, OrderOf DEF Line, Sorted, TypeInv
    <3>. QED
      BY <1>1, <3>1 DEF InOrder, Members
  <2>. QED
    BY <1>1, <1>2, <1>3, <2>1 DEF Line, Sorted, PosterOrder, InOrder, AllBefore
<1>5. \A u \in Threads : Holding(u)' <=> Holding(u)
  BY <1>1 DEF Holding, TypeInv
<1>6. Complete'
  <2>1. \A y \in Tasks : y[1] \in Threads
    BY TaskFields
  <2>. QED
    BY <1>1, <1>2, <1>3, <1>5, <2>1, LineTypes DEF Line, Complete
<1>7. InlineFirst' /\ Swapped'
  BY <1>1, <1>3 DEF Line, InlineFirst, Swapped, TypeInv
<1>. QED
  BY <1>4, <1>6, <1>7 DEF Line

-----------------------------------------------------------------------------
(* The steps that move none.                                               *)

LEMMA OtherLine ==
  ASSUME Inv, Line,
         UNCHANGED <<tasks, functions, ran, posted, creator>>,
         \A u \in Threads : (Holding(u)' <=> Holding(u)) /\ (pc'[u] = "inline" <=> pc[u] = "inline")
                            /\ (pc'[u] = "push" <=> pc[u] = "push"),
         pc'[Runner] = "exec" <=> pc[Runner] = "exec",
         pc[Runner] = "exec" => job'[Runner] = job[Runner],
         pc[Runner] \notin {"tasks", "exec", "execEmplace"}
           => pc'[Runner] \notin {"tasks", "exec", "execEmplace"},
         pc'[Runner] \in {"tasks", "exec", "execEmplace"} \/ functions = <<>>,
         threadId' = creator => threadId = creator
  PROVE  Line'
<1>1. UNCHANGED <<Done, InExec, Queued, Members(functions), Members(tasks)>>
  BY DEF Done, InExec, Queued, Members
<1>2. Sorted'
  BY <1>1 DEF Line, Sorted, PosterOrder, InOrder, AllBefore
<1>3. Complete'
  <2>1. \A y \in Tasks : y[1] \in Threads
    BY TaskFields, ThreadsAssumption
  <2>. QED
    BY <1>1, <2>1, LineTypes DEF Line, Complete
<1>4. InlineFirst' /\ Swapped'
  BY <1>1 DEF Line, InlineFirst, Swapped, Inv, TypeInv
<1>. QED
  BY <1>2, <1>3, <1>4 DEF Line

LEMMA EmplaceLine ==
  ASSUME Inv, Line, NEW t \in Posters \cup {Runner}, Emplace(t)
  PROVE  Line'
<1>. USE ThreadsAssumption DEF Inv
<1>1. /\ t \in Threads /\ pc[t] \in {"emplace", "execEmplace"}
      /\ pc[t] = "execEmplace" => t = Runner
      /\ pc' = [pc EXCEPT ![t] = IF pc[t] = "emplace" THEN "free" ELSE "tasks"]
      /\ \A u \in Threads \ {t} : job'[u] = job[u]
      /\ UNCHANGED <<tasks, functions, ran, posted, creator, threadId>>
  BY DEF Emplace, AfterTask, Goto, queues, history, setup, TypeInv, Control, Adding
<1>2. CASE pc[t] = "emplace"
  BY <1>1, <1>2, OtherLine DEF TypeInv, Holding, Line, Swapped
<1>3. CASE pc[t] = "execEmplace"
  BY <1>1, <1>3, OtherLine DEF TypeInv, Holding, Line, Swapped
<1>. QED
  BY <1>1, <1>2, <1>3

LEMMA LoopLine ==
  ASSUME Inv, Line, \/ LoopEnter \/ LoopRunning \/ LoopTest \/ PollFails \/ PollTimeout
                    \/ DoTasksReturn \/ LoopEndLock
                    \/ HandleKeep \/ HandleClose \/ removeSession \/ HandlerQuits
                    \/ \E s \in Tasks : PollEvent(s)
  PROVE  Line'
<1>. USE ThreadsAssumption DEF Inv
<1>1. UNCHANGED <<tasks, functions, ran, posted, creator>>
  BY DEF LoopEnter, LoopRunning, LoopTest, PollFails, PollTimeout, DoTasksReturn, LoopEndLock,
     HandleKeep, HandleClose, removeSession, HandlerReturns, HandlerQuits, PollEvent, queues,
     sockets, setup, history
<1>2. threadId' = creator => threadId = creator
  BY DEF LoopEnter, LoopRunning, LoopTest, PollFails, PollTimeout, DoTasksReturn, LoopEndLock,
     HandleKeep, HandleClose, removeSession, HandlerReturns, HandlerQuits, PollEvent, Control,
     PreLoop
<1>3. PICK label \in {"fence", "test", "poll", "end", "swap", "clear", "waiting", "handle"} :
        pc' = [pc EXCEPT ![Runner] = label]
  BY DEF LoopEnter, LoopRunning, LoopTest, PollFails, PollTimeout, DoTasksReturn, LoopEndLock,
     HandleKeep, HandleClose, removeSession, HandlerReturns, HandlerQuits, PollEvent, Goto
<1>4. pc[Runner] \notin {"push", "inline", "exec", "execEmplace"}
  BY DEF LoopEnter, LoopRunning, LoopTest, PollFails, PollTimeout, DoTasksReturn, LoopEndLock,
     HandleKeep, HandleClose, removeSession, HandlerReturns, HandlerQuits, PollEvent
<1>5. functions = <<>>
  BY DEF LoopEnter, LoopRunning, LoopTest, PollFails, PollTimeout, DoTasksReturn, LoopEndLock,
     HandleKeep, HandleClose, removeSession, HandlerReturns, HandlerQuits, PollEvent, Line,
     Swapped
<1>. QED
  BY <1>1, <1>2, <1>3, <1>4, <1>5, OtherLine DEF TypeInv, Holding

LEMMA ClearLine ==
  ASSUME Inv, Line, LoopClear
  PROVE  Line'
<1>1. /\ UNCHANGED <<tasks, functions, ran, posted, creator, threadId, job>>
      /\ pc[Runner] = "clear" /\ functions = <<>>
  BY DEF LoopClear, queues, setup, history, Line, Swapped
<1>2. \A u \in Threads : pc'[u] = IF u = Runner THEN "ended"
                                  ELSE IF pc[u] = "waiting" THEN "woken" ELSE pc[u]
  BY DEF LoopClear
<1>. QED
  BY <1>1, <1>2, OtherLine, ThreadsAssumption DEF Holding

LEMMA QuitLine ==
  ASSUME Inv, Line, NEW t \in Quitters, QuitterStep(t)
  PROVE  Line'
<1>. USE ThreadsAssumption DEF Inv
<1>1. /\ UNCHANGED <<tasks, functions, ran, posted, creator, threadId, job>>
      /\ t \in Threads \ {Runner} /\ pc[t] \in {"free", "woken"}
  BY DEF QuitterStep, QuitLock, QuitWake, queues, setup, history
<1>2. PICK label \in {"waiting", "quited"} : pc' = [pc EXCEPT ![t] = label]
  BY DEF QuitterStep, QuitLock, QuitWake, FinishOrWait, Goto
<1>. QED
  BY <1>1, <1>2, OtherLine DEF TypeInv, Holding, Line, Swapped

LEMMA StutterLine ==
  ASSUME Inv, Line, UNCHANGED vars
  PROVE  Line'
BY OtherLine DEF vars, queues, setup, Holding, Line, Swapped

LEMMA LineHolds == Spec => []Line
<1>1. Init => Line
  <2>. SUFFICES ASSUME Init PROVE Line
    OBVIOUS
  <2>1. Done = {} /\ InExec = {} /\ Members(tasks) = {} /\ Members(functions) = {} /\ Queued = {}
    BY ThreadsAssumption DEF Init, Done, InExec, Queued, Members
  <2>2. Sorted
    BY <2>1 DEF Init, Sorted, PosterOrder, InOrder, AllBefore
  <2>3. Complete
    BY <2>1, TaskFields, BoundsAssumption DEF Init, Complete
  <2>4. InlineFirst /\ Swapped
    BY <2>1, ThreadsAssumption DEF Init, InlineFirst, Swapped
  <2>. QED
    BY <2>2, <2>3, <2>4 DEF Line
<1>2. Inv /\ Line /\ [Next]_vars => Line'
  <2>. SUFFICES ASSUME Inv, Line, [Next]_vars PROVE Line'
    OBVIOUS
  <2>1. CASE RunnerStep \/ \E s \in Tasks : PollEvent(s)
    BY <2>1, SwapLine, NextLine, LoopLine, ClearLine DEF RunnerStep
  <2>2. CASE \E t \in Posters : PosterStep(t)
    BY <2>2, TestLine, PushLine DEF PosterStep
  <2>3. CASE \E t \in Posters \cup {Runner} : TaskStep(t)
    BY <2>3, RunLine, EmplaceLine DEF TaskStep
  <2>4. CASE \E t \in Quitters : QuitterStep(t)
    BY <2>4, QuitLine
  <2>5. CASE UNCHANGED vars
    BY <2>5, StutterLine
  <2>. QED
    BY <2>1, <2>2, <2>3, <2>4, <2>5 DEF Next
<1>. QED
  BY InvHolds, <1>1, <1>2, PTL DEF Spec
-----------------------------------------------------------------------------
(* From the line to the count.                                             *)

LEMMA NotBeforeItself == \A x \in Tasks : ~Before(x, x)
<1>1. \A x \in Tasks : x[2] \in Nat
  BY TaskFields, BoundsAssumption
<1>. QED
  BY <1>1 DEF Before

LEMMA OccursAtMostOnce ==
  ASSUME NEW s \in Seq(Tasks), InOrder(s), NEW x \in Tasks
  PROVE  Occurrences(x, s) = IF x \in Members(s) THEN 1 ELSE 0
<1>. DEFINE At == {i \in 1 .. Len(s) : s[i] = x}
<1>1. CASE x \in Members(s)
  <2>1. PICK i \in 1 .. Len(s) : s[i] = x
    BY <1>1 DEF Members
  <2>2. \A j \in 1 .. Len(s) : s[j] = x => j = i
    BY <2>1, NotBeforeItself DEF InOrder
  <2>3. At = {i}
    BY <2>1, <2>2
  <2>. QED
    BY <1>1, <2>3, FS_Singleton DEF Occurrences
<1>2. CASE x \notin Members(s)
  <2>1. At = {}
    BY <1>2 DEF Members
  <2>. QED
    BY <1>2, <2>1, FS_EmptySet DEF Occurrences
<1>. QED
  BY <1>1, <1>2

LEMMA ExecutedAtMostOnce ==
  ASSUME Inv, Line, NEW x \in Tasks
  PROVE  Cardinality(Executions(x)) = IF x \in Done THEN 1 ELSE 0
<1>1. CASE x \in Done
  <2>1. PICK i \in 1 .. Len(ran) : ran[i][1] = x
    BY <1>1 DEF Done
  <2>2. x[2] \in Nat
    BY TaskFields, BoundsAssumption
  <2>3. \A j \in 1 .. Len(ran) : ran[j][1] = x => j = i
    BY <2>1, <2>2 DEF Line, Sorted, PosterOrder
  <2>4. Executions(x) = {i}
    BY <2>1, <2>3 DEF Executions
  <2>. QED
    BY <1>1, <2>4, FS_Singleton
<1>2. CASE x \notin Done
  <2>1. Executions(x) = {}
    BY <1>2 DEF Done, Executions
  <2>. QED
    BY <1>2, <2>1, FS_EmptySet
<1>. QED
  BY <1>1, <1>2

\* The one thread that has x in hand: its poster, or the Runner.
InHand(x) == Holding(x[1]) /\ x[2] = posted[x[1]]

LEMMA HeldByAtMostOne ==
  ASSUME Inv, Line, NEW x \in Tasks
  PROVE  Cardinality(Holders(x)) = IF x \in InExec \/ InHand(x) THEN 1 ELSE 0
<1>. USE ThreadsAssumption DEF Inv
<1>1. /\ x[1] \in Posters /\ x[1] \in Threads /\ x[2] \in Nat /\ posted[x[1]] \in Nat
      /\ x = <<x[1], x[2]>>
  BY TaskFields, BoundsAssumption DEF TypeInv
<1>2. ASSUME NEW t \in Holders(x)
      PROVE  \/ t = Runner /\ x \in InExec
             \/ t = x[1] /\ InHand(x)
  <2>1. t \in Threads /\ job[t] = x /\ pc[t] \in {"push", "inline", "exec"}
    BY DEF Holders
  <2>2. CASE pc[t] = "exec"
    <3>1. t = Runner
      BY <2>1, <2>2 DEF Control, Adding
    <3>. QED
      BY <2>1, <2>2, <3>1 DEF InExec
  <2>3. CASE pc[t] \in {"push", "inline"}
    <3>1. x = <<t, posted[t]>>
      BY <2>1, <2>3 DEF Control, Adding
    <3>2. x[1] = t /\ x[2] = posted[t]
      BY <3>1
    <3>. QED
      BY <2>3, <3>2 DEF InHand, Holding
  <2>. QED
    BY <2>1, <2>2, <2>3
<1>3. ~(x \in InExec /\ InHand(x))
  BY <1>1 DEF InHand, Line, Complete, Queued
<1>4. CASE x \in InExec
  <2>1. pc[Runner] = "exec" /\ job[Runner] = x
    BY <1>4 DEF InExec
  <2>2. Holders(x) = {Runner}
    BY <1>2, <1>3, <1>4, <2>1 DEF Holders
  <2>. QED
    BY <1>4, <2>2, FS_Singleton
<1>5. CASE InHand(x)
  <2>1. pc[x[1]] \in {"push", "inline"}
    BY <1>5 DEF InHand, Holding
  <2>2. job[x[1]] = <<x[1], posted[x[1]]>>
    BY <1>1, <2>1 DEF Control, Adding
  <2>3. job[x[1]] = x
    BY <1>1, <1>5, <2>2 DEF InHand
  <2>4. Holders(x) = {x[1]}
    BY <1>1, <1>2, <1>3, <1>5, <2>1, <2>3 DEF Holders
  <2>. QED
    BY <1>5, <2>4, FS_Singleton
<1>6. CASE x \notin InExec /\ ~InHand(x)
  <2>1. Holders(x) = {}
    BY <1>2, <1>6
  <2>. QED
    BY <1>6, <2>1, FS_EmptySet
<1>. QED
  BY <1>4, <1>5, <1>6

LEMMA LineCounts ==
  ASSUME Inv, Line
  PROVE  EachTaskOnceInOrder
<1>1. ASSUME NEW x \in Tasks
      PROVE  Occurrences(x, tasks) + Occurrences(x, functions)
               + Cardinality(Holders(x)) + Cardinality(Executions(x))
             = IF x[2] <= posted[x[1]] THEN 1 ELSE 0
  <2>1. /\ Occurrences(x, tasks) = IF x \in Members(tasks) THEN 1 ELSE 0
        /\ Occurrences(x, functions) = IF x \in Members(functions) THEN 1 ELSE 0
    BY OccursAtMostOnce DEF Inv, TypeInv, Line, Sorted
  <2>2. /\ Cardinality(Holders(x)) = IF x \in InExec \/ InHand(x) THEN 1 ELSE 0
        /\ Cardinality(Executions(x)) = IF x \in Done THEN 1 ELSE 0
    BY HeldByAtMostOne, ExecutedAtMostOnce
  <2>3. /\ ~(x \in Done /\ x \in Queued)
        /\ ~(x \in InExec /\ x \in Members(functions) \cup Members(tasks))
        /\ ~(x \in Members(functions) /\ x \in Members(tasks))
    BY NotBeforeItself DEF Line, Sorted, AllBefore
  <2>4. x[2] \in Nat /\ posted[x[1]] \in Nat
    BY TaskFields, BoundsAssumption DEF Inv, TypeInv
  <2>5. InHand(x) => x \notin Done \cup Queued /\ x[2] <= posted[x[1]]
    BY <2>4 DEF InHand, Line, Complete
  <2>6. x[2] <= posted[x[1]] <=> x \in Done \cup Queued \/ InHand(x)
    BY <2>4 DEF InHand, Line, Complete
  <2>7. x \in Queued <=> x \in InExec \/ x \in Members(functions) \/ x \in Members(tasks)
    BY DEF Queued
  <2>. HIDE DEF Queued, InHand
  <2>. QED
    BY <2>1, <2>2, <2>3, <2>5, <2>6, <2>7
<1>. QED
  BY <1>1 DEF EachTaskOnceInOrder, EachTaskInOnePlace, Line, Sorted

(***************************************************************************)
(* Whatever the interleaving of the pushes of addTask with the swap of     *)
(* doTasks (EventLoop.cpp:122-148), and whether a task goes through        *)
(* m_tasks or runs inline: each task posted is in one place until it is    *)
(* executed, is executed once, and after the earlier ones of its poster.   *)
(***************************************************************************)
THEOREM LoopEachTaskOnceInOrder == Spec => []EachTaskOnceInOrder
BY InvHolds, LineHolds, LineCounts, PTL

-----------------------------------------------------------------------------
(* The refinement: the line of tasks is the queue of TaskQueue.            *)

(* The queue's step, stated about the images of its variables.             *)
MappedStep ==
  \/ /\ Waiting # <<>> /\ Executed' = Append(Executed, Head(Waiting))
     /\ Waiting' = Tail(Waiting) /\ UNCHANGED <<posted, InHands>>
  \/ \E t \in Posters :
       /\ InHands[t] = NoTask
       /\ posted' = [posted EXCEPT ![t] = @ + 1]
       /\ InHands' = [InHands EXCEPT ![t] = <<t, posted[t] + 1>>]
       /\ UNCHANGED <<Waiting, Executed>>
  \/ \E t \in Posters :
       /\ InHands[t] # NoTask
       /\ InHands' = [InHands EXCEPT ![t] = NoTask] /\ posted' = posted
       /\ \/ Waiting' = Append(Waiting, InHands[t]) /\ Executed' = Executed
          \/ /\ \A i \in DOMAIN Waiting : Waiting[i][1] # t
             /\ Executed' = Append(Executed, InHands[t]) /\ Waiting' = Waiting
  \/ UNCHANGED <<posted, InHands, Waiting, Executed>>

LEMMA MappedStepIsQueueStep ==
  ASSUME MappedStep
  PROVE  [Queue!QueueNext]_(Queue!queueVars)
BY DEF MappedStep, Queue!QueueNext, Queue!queueVars, Queue!Post, Queue!HandOver, Queue!Push,
   Queue!ExecuteAtOnce, Queue!ExecuteNext

InTurn == IF pc[Runner] = "exec" THEN <<job[Runner]>> ELSE <<>>

LEMMA WaitingParts ==
  ASSUME Inv
  PROVE  /\ InTurn \in Seq(Tasks) /\ functions \o tasks \in Seq(Tasks)
         /\ Waiting = InTurn \o (functions \o tasks) /\ Waiting \in Seq(Tasks)
<1>1. InTurn \in Seq(Tasks)
  <2>1. CASE pc[Runner] = "exec"
    <3>1. job[Runner] \in Tasks
      BY <2>1 DEF Inv, Control
    <3>. QED
      BY <2>1, <3>1 DEF InTurn
  <2>2. CASE pc[Runner] # "exec"
    BY <2>2 DEF InTurn
  <2>. QED
    BY <2>1, <2>2
<1>2. functions \o tasks \in Seq(Tasks)
  BY ConcatProperties DEF Inv, TypeInv
<1>3. Waiting = InTurn \o (functions \o tasks)
  BY DEF Waiting, InTurn
<1>. QED
  BY <1>1, <1>2, <1>3, ConcatProperties

\* What waits in the queue of TaskQueue is what waits in the line.
LEMMA WaitingIsQueued ==
  ASSUME Inv, NEW i \in DOMAIN Waiting
  PROVE  Waiting[i] \in Queued
<1>. DEFINE rest == functions \o tasks
<1>1. /\ functions \in Seq(Tasks) /\ tasks \in Seq(Tasks) /\ rest \in Seq(Tasks)
      /\ InTurn \in Seq(Tasks) /\ Waiting = InTurn \o rest
  BY WaitingParts DEF Inv, TypeInv
<1>2. \A j \in 1 .. Len(rest) : rest[j] \in Members(functions) \cup Members(tasks)
  <2>1. /\ Len(rest) = Len(functions) + Len(tasks)
        /\ \A j \in 1 .. Len(functions) + Len(tasks) :
             rest[j] = IF j <= Len(functions) THEN functions[j] ELSE tasks[j - Len(functions)]
    BY <1>1, ConcatProperties
  <2>2. Len(functions) \in Nat /\ Len(tasks) \in Nat
    BY <1>1, LenProperties
  <2>. HIDE DEF rest
  <2>3. SUFFICES ASSUME NEW j \in 1 .. Len(rest)
                 PROVE  rest[j] \in Members(functions) \cup Members(tasks)
    OBVIOUS
  <2>4. CASE j <= Len(functions)
    <3>1. j \in 1 .. Len(functions) /\ rest[j] = functions[j]
      BY <2>1, <2>2, <2>4
    <3>. QED
      BY <3>1 DEF Members
  <2>5. CASE ~(j <= Len(functions))
    <3>1. j - Len(functions) \in 1 .. Len(tasks) /\ rest[j] = tasks[j - Len(functions)]
      BY <2>1, <2>2, <2>5
    <3>. QED
      BY <3>1 DEF Members
  <2>. QED
    BY <2>4, <2>5
<1>. HIDE DEF rest
<1>3. /\ DOMAIN Waiting = 1 .. Len(InTurn) + Len(rest)
      /\ Waiting[i] = IF i <= Len(InTurn) THEN InTurn[i] ELSE rest[i - Len(InTurn)]
  BY <1>1, ConcatProperties, LenProperties
<1>4. Len(InTurn) \in Nat /\ Len(rest) \in Nat
  BY <1>1, LenProperties
<1>5. CASE i <= Len(InTurn)
  <2>1. i \in 1 .. Len(InTurn) /\ Waiting[i] = InTurn[i]
    BY <1>3, <1>4, <1>5
  <2>2. pc[Runner] = "exec" /\ InTurn[i] = job[Runner]
    BY <2>1 DEF InTurn
  <2>. QED
    BY <2>1, <2>2 DEF Queued, InExec
<1>6. CASE ~(i <= Len(InTurn))
  <2>1. i - Len(InTurn) \in 1 .. Len(rest) /\ Waiting[i] = rest[i - Len(InTurn)]
    BY <1>3, <1>4, <1>6
  <2>. QED
    BY <1>2, <2>1 DEF Queued
<1>. QED
  BY <1>5, <1>6

\* What SessionInit adds to the history.
LEMMA ExecutedGrows ==
  ASSUME Inv, NEW x \in Tasks, NEW t \in Threads, ran' = Append(ran, <<x, t>>)
  PROVE  Executed' = Append(Executed, x)
<1>1. /\ ran \in Seq(Tasks \X Threads) /\ <<x, t>> \in Tasks \X Threads
      /\ Len(ran) \in Nat /\ DOMAIN ran = 1 .. Len(ran)
  BY DEF Inv, TypeInv
<1>2. /\ ran' \in Seq(Tasks \X Threads) /\ Len(ran') = Len(ran) + 1
      /\ ran'[Len(ran) + 1] = <<x, t>>
      /\ \A i \in 1 .. Len(ran) : ran'[i] = ran[i]
  BY <1>1, AppendProperties
<1>3. DOMAIN ran' = 1 .. Len(ran) + 1
  BY <1>2
<1>4. Executed \in Seq(Tasks) /\ Len(Executed) = Len(ran)
  <2>1. \A i \in 1 .. Len(ran) : ran[i][1] \in Tasks
    BY <1>1
  <2>. QED
    BY <1>1, <2>1 DEF Executed
<1>5. Executed' \in Seq(Tasks) /\ Len(Executed') = Len(ran) + 1
  <2>1. \A i \in 1 .. Len(ran) + 1 : ran'[i][1] \in Tasks
    BY <1>2
  <2>. QED
    BY <1>1, <1>3, <2>1 DEF Executed
<1>6. /\ Append(Executed, x) \in Seq(Tasks) /\ Len(Append(Executed, x)) = Len(ran) + 1
      /\ \A i \in 1 .. Len(ran) : Append(Executed, x)[i] = Executed[i]
      /\ Append(Executed, x)[Len(ran) + 1] = x
  BY <1>4, AppendProperties
<1>7. ASSUME NEW i \in 1 .. Len(ran) + 1
      PROVE  Executed'[i] = Append(Executed, x)[i]
  <2>1. CASE i = Len(ran) + 1
    BY <1>2, <1>3, <1>6, <2>1 DEF Executed
  <2>2. CASE i \in 1 .. Len(ran)
    BY <1>1, <1>2, <1>3, <1>6, <2>2 DEF Executed
  <2>3. i = Len(ran) + 1 \/ i \in 1 .. Len(ran)
    BY <1>1
  <2>. QED
    BY <2>1, <2>2, <2>3
<1>. QED
  BY <1>5, <1>6, <1>7, SeqEqual

\* A task pushed behind m_tasks is behind all that wait.
LEMMA PushedLast ==
  ASSUME Inv, NEW x \in Tasks
  PROVE  InTurn \o (functions \o Append(tasks, x)) = Append(InTurn \o (functions \o tasks), x)
<1>. DEFINE rest == functions \o tasks
<1>1. /\ functions \in Seq(Tasks) /\ tasks \in Seq(Tasks) /\ <<x>> \in Seq(Tasks)
      /\ rest \in Seq(Tasks) /\ InTurn \in Seq(Tasks)
  <2>1. functions \in Seq(Tasks) /\ tasks \in Seq(Tasks)
    BY DEF Inv, TypeInv
  <2>. QED
    BY <2>1, WaitingParts
<1>2. InTurn \o rest \in Seq(Tasks)
  BY <1>1, ConcatProperties
<1>3. Append(tasks, x) = tasks \o <<x>>
  BY <1>1, AppendIsConcat
<1>4. functions \o (tasks \o <<x>>) = rest \o <<x>>
  BY <1>1, ConcatAssociative
<1>. HIDE DEF rest
<1>5. InTurn \o (rest \o <<x>>) = (InTurn \o rest) \o <<x>>
  BY <1>1, ConcatAssociative
<1>6. Append(InTurn \o rest, x) = (InTurn \o rest) \o <<x>>
  BY <1>2, AppendIsConcat
<1>7. InTurn \o (functions \o Append(tasks, x)) = Append(InTurn \o rest, x)
  BY <1>3, <1>4, <1>5, <1>6
<1>. QED
  BY <1>7 DEF rest

LEMMA HeadOfConcat ==
  ASSUME NEW S, NEW x \in S, NEW s \in Seq(S)
  PROVE  <<x>> \o s # <<>> /\ Head(<<x>> \o s) = x /\ Tail(<<x>> \o s) = s
<1>. DEFINE all == <<x>> \o s
<1>1. /\ <<x>> \in Seq(S) /\ all \in Seq(S) /\ Len(all) = 1 + Len(s) /\ Len(s) \in Nat
      /\ \A i \in 1 .. 1 + Len(s) : all[i] = IF i <= 1 THEN x ELSE s[i - 1]
  BY ConcatProperties, LenProperties
<1>. HIDE DEF all
<1>2. all # <<>> /\ Head(all) = x
  <2>1. all # <<>>
    BY <1>1, EmptySeq
  <2>2. Head(all) = all[1] /\ 1 \in 1 .. 1 + Len(s)
    BY <1>1, <2>1
  <2>. QED
    BY <1>1, <2>1, <2>2
<1>3. /\ Tail(all) \in Seq(S) /\ Len(Tail(all)) = Len(s)
      /\ \A i \in 1 .. Len(s) : Tail(all)[i] = all[i + 1]
  BY <1>1, <1>2, HeadTailProperties
<1>4. \A i \in 1 .. Len(s) : Tail(all)[i] = s[i]
  BY <1>1, <1>3
<1>5. Tail(all) = s
  BY <1>3, <1>4, SeqEqual
<1>. QED
  BY <1>2, <1>5 DEF all

LEMMA HeadThenTail ==
  ASSUME NEW S, NEW s \in Seq(S), s # <<>>
  PROVE  Head(s) \in S /\ Tail(s) \in Seq(S) /\ s = <<Head(s)>> \o Tail(s)
<1>. DEFINE all == <<Head(s)>> \o Tail(s)
<1>1. /\ Head(s) \in S /\ Tail(s) \in Seq(S) /\ Len(Tail(s)) = Len(s) - 1 /\ Len(s) \in Nat \ {0}
      /\ Head(s) = s[1] /\ \A i \in 1 .. Len(s) - 1 : Tail(s)[i] = s[i + 1]
  BY HeadTailProperties, EmptySeq
<1>2. /\ all \in Seq(S) /\ Len(all) = Len(s)
      /\ \A i \in 1 .. Len(s) : all[i] = IF i <= 1 THEN Head(s) ELSE Tail(s)[i - 1]
  <2>1. <<Head(s)>> \in Seq(S) /\ Len(<<Head(s)>>) = 1 /\ <<Head(s)>>[1] = Head(s)
    BY <1>1
  <2>. QED
    BY <1>1, <2>1, ConcatProperties
<1>. HIDE DEF all
<1>3. \A i \in 1 .. Len(s) : all[i] = s[i]
  BY <1>1, <1>2
<1>4. s = all
  BY <1>2, <1>3, SeqEqual
<1>. QED
  BY <1>1, <1>4 DEF all

-----------------------------------------------------------------------------
(* One action at a time: a step of the queue, or none.                     *)

\* Nothing enters, moves or leaves.
LEMMA KeptIsStutter ==
  ASSUME Inv, UNCHANGED <<tasks, functions, ran, posted>>,
         \A u \in Threads : pc'[u] \in {"push", "inline"} <=> pc[u] \in {"push", "inline"},
         \A u \in Threads : pc[u] \in {"push", "inline"} => job'[u] = job[u],
         pc'[Runner] = "exec" <=> pc[Runner] = "exec",
         pc[Runner] = "exec" => job'[Runner] = job[Runner]
  PROVE  MappedStep
<1>1. Executed' = Executed
  BY DEF Executed
<1>2. Waiting' = Waiting
  BY DEF Waiting
<1>3. InHands' = InHands
  BY ThreadsAssumption DEF InHands
<1>. QED
  BY <1>1, <1>2, <1>3 DEF MappedStep

LEMMA TestIsPost ==
  ASSUME Inv, NEW t \in Posters, AddTaskTest(t)
  PROVE  MappedStep
<1>. USE ThreadsAssumption DEF Inv
<1>1. /\ t \in Threads /\ pc[t] = "free"
      /\ posted' = [posted EXCEPT ![t] = @ + 1]
      /\ job' = [job EXCEPT ![t] = <<t, posted[t] + 1>>]
      /\ UNCHANGED <<tasks, functions, ran>>
  <2>1. t \in Threads
    OBVIOUS
  <2>. QED
    BY <2>1 DEF AddTaskTest, MayPost, queues
<1>2. PICK label \in {"inline", "push"} : pc' = [pc EXCEPT ![t] = label]
  BY DEF AddTaskTest, Goto
<1>3. \A u \in Threads : /\ pc'[u] = IF u = t THEN label ELSE pc[u]
                         /\ job'[u] = IF u = t THEN <<t, posted[t] + 1>> ELSE job[u]
  BY <1>1, <1>2 DEF TypeInv
<1>4. InHands[t] = NoTask
  BY <1>1 DEF InHands
<1>5. InHands' = [InHands EXCEPT ![t] = <<t, posted[t] + 1>>]
  BY <1>1, <1>3 DEF InHands
<1>6. Executed' = Executed
  BY <1>1 DEF Executed
<1>7. Waiting' = Waiting
  <2>1. pc'[Runner] = "exec" <=> pc[Runner] = "exec"
    BY <1>1, <1>3
  <2>2. pc[Runner] = "exec" => job'[Runner] = job[Runner]
    BY <1>1, <1>3
  <2>. QED
    BY <1>1, <2>1, <2>2 DEF Waiting
<1>. QED
  BY <1>1, <1>4, <1>5, <1>6, <1>7 DEF MappedStep

\* A poster gives away the task in its hands; what the Runner takes next stays.
LEMMA HandsEmptied ==
  ASSUME Inv, NEW t \in Posters, pc[t] \in {"push", "inline"},
         \A u \in Threads : u # t => pc'[u] = pc[u] /\ job'[u] = job[u],
         pc'[t] \notin {"push", "inline", "exec"}
  PROVE  /\ InHands[t] = job[t] /\ InHands[t] # NoTask
         /\ InHands' = [InHands EXCEPT ![t] = NoTask]
         /\ InTurn' = InTurn
<1>1. t \in Threads /\ job[t] \in Tasks
  BY ThreadsAssumption DEF Inv, Control, Adding
<1>2. InHands[t] = job[t] /\ InHands[t] # NoTask
  BY <1>1, NoTaskAssumption DEF InHands
<1>3. InHands' = [InHands EXCEPT ![t] = NoTask]
  BY <1>1, ThreadsAssumption DEF InHands
<1>4. InTurn' = InTurn
  <2>1. CASE t = Runner
    BY <2>1 DEF InTurn
  <2>2. CASE t # Runner
    BY <2>2, ThreadsAssumption DEF InTurn
  <2>. QED
    BY <2>1, <2>2
<1>. QED
  BY <1>2, <1>3, <1>4

LEMMA PushIsPush ==
  ASSUME Inv, NEW t \in Posters, AddTaskPush(t)
  PROVE  MappedStep
<1>. USE ThreadsAssumption DEF Inv
<1>1. /\ t \in Threads /\ pc[t] = "push" /\ tasks' = Append(tasks, job[t])
      /\ pc' = [pc EXCEPT ![t] = "free"] /\ job' = [job EXCEPT ![t] = NoTask]
      /\ UNCHANGED <<functions, ran, posted>>
  BY DEF AddTaskPush, Goto, history
<1>2. /\ pc'[t] = "free" /\ job[t] \in Tasks
      /\ \A u \in Threads : u # t => pc'[u] = pc[u] /\ job'[u] = job[u]
  BY <1>1 DEF TypeInv, Control, Adding
<1>3. /\ InHands[t] = job[t] /\ InHands[t] # NoTask
      /\ InHands' = [InHands EXCEPT ![t] = NoTask]
      /\ InTurn' = InTurn
  BY <1>1, <1>2, HandsEmptied
<1>4. Waiting' = Append(Waiting, job[t])
  <2>1. Waiting' = InTurn' \o (functions' \o tasks')
    BY DEF Waiting, InTurn
  <2>2. InTurn \o (functions \o Append(tasks, job[t])) = Append(InTurn \o (functions \o tasks), job[t])
    BY <1>2, PushedLast
  <2>3. Waiting = InTurn \o (functions \o tasks)
    BY DEF Waiting, InTurn
  <2>. QED
    BY <1>1, <1>3, <2>1, <2>2, <2>3
<1>5. Executed' = Executed
  BY <1>1 DEF Executed
<1>. QED
  BY <1>1, <1>3, <1>4, <1>5 DEF MappedStep

LEMMA RunIsExecute ==
  ASSUME Inv, Line, NEW t \in Posters \cup {Runner}, SessionInit(t)
  PROVE  MappedStep
<1>. USE ThreadsAssumption DEF Inv
<1>1. /\ t \in Threads /\ pc[t] \in {"inline", "exec"} /\ job[t] \in Tasks
      /\ ran' = Append(ran, <<job[t], t>>)
      /\ UNCHANGED <<tasks, functions, posted>>
  BY WhoRunsTasks DEF SessionInit, queues
<1>2. PICK label \in {"emplace", "execEmplace", "free", "tasks"} : pc' = [pc EXCEPT ![t] = label]
  BY <1>1 DEF SessionInit, AfterTask, Goto
<1>3. /\ pc'[t] \in {"emplace", "execEmplace", "free", "tasks"}
      /\ \A u \in Threads : u # t => pc'[u] = pc[u] /\ job'[u] = job[u]
  <2>1. \A u \in Threads : u # t => job'[u] = job[u]
    BY <1>1 DEF SessionInit, TypeInv
  <2>. QED
    BY <1>1, <1>2, <2>1 DEF TypeInv
<1>4. Executed' = Append(Executed, job[t])
  BY <1>1, ExecutedGrows
<1>5. CASE pc[t] = "exec"
  <2>1. t = Runner
    BY <1>1, <1>5 DEF Control, Adding
  <2>2. InTurn = <<job[t]>> /\ InTurn' = <<>>
    BY <1>3, <1>5, <2>1 DEF InTurn
  <2>3. Waiting = <<job[t]>> \o (functions \o tasks) /\ Waiting' = functions \o tasks
    <3>1. Waiting' = InTurn' \o (functions' \o tasks')
      BY DEF Waiting, InTurn
    <3>2. functions \o tasks \in Seq(Tasks)
      BY WaitingParts
    <3>3. <<>> \o (functions \o tasks) = functions \o tasks
      BY <3>2, ConcatEmptySeq
    <3>. QED
      BY <1>1, <2>2, <3>1, <3>3, WaitingParts
  <2>4. Waiting # <<>> /\ Head(Waiting) = job[t] /\ Tail(Waiting) = functions \o tasks
    <3>1. functions \o tasks \in Seq(Tasks)
      BY WaitingParts
    <3>. QED
      BY <1>1, <2>3, <3>1, HeadOfConcat
  <2>5. InHands' = InHands
    BY <1>3, <1>5 DEF InHands
  <2>. QED
    BY <1>1, <1>4, <2>3, <2>4, <2>5 DEF MappedStep
<1>6. CASE pc[t] = "inline"
  <2>1. t = creator /\ t \in Posters
    BY <1>1, <1>6 DEF Control, Adding
  <2>2. /\ InHands[t] = job[t] /\ InHands[t] # NoTask
        /\ InHands' = [InHands EXCEPT ![t] = NoTask]
        /\ InTurn' = InTurn
    BY <1>3, <1>6, <2>1, HandsEmptied
  <2>3. Waiting' = Waiting
    BY <1>1, <2>2 DEF Waiting, InTurn
  <2>4. \A i \in DOMAIN Waiting : Waiting[i][1] # t
    BY <1>6, <2>1, WaitingIsQueued DEF Line, InlineFirst
  <2>. QED
    BY <1>1, <1>4, <2>1, <2>2, <2>3, <2>4 DEF MappedStep
<1>. QED
  BY <1>1, <1>5, <1>6

LEMMA SwapIsStutter ==
  ASSUME Inv, Line, DoTasksSwap
  PROVE  MappedStep
<1>. USE ThreadsAssumption DEF Inv
<1>1. /\ pc[Runner] = "swap" /\ pc' = [pc EXCEPT ![Runner] = "tasks"]
      /\ functions = <<>> /\ functions' = tasks /\ tasks' = <<>>
      /\ UNCHANGED <<ran, posted, job>>
  BY DEF DoTasksSwap, Goto, history, Line, Swapped
<1>2. \A u \in Threads : pc'[u] = IF u = Runner THEN "tasks" ELSE pc[u]
  BY <1>1 DEF TypeInv
<1>3. <<>> \o tasks = tasks /\ tasks \o <<>> = tasks
  <2>1. tasks \in Seq(Tasks)
    BY DEF TypeInv
  <2>. QED
    BY <2>1, ConcatEmptySeq
<1>4. Waiting' = Waiting
  <2>1. InTurn = <<>> /\ InTurn' = <<>>
    BY <1>1, <1>2 DEF InTurn
  <2>2. Waiting = InTurn \o (functions \o tasks) /\ Waiting' = InTurn' \o (functions' \o tasks')
    BY DEF Waiting, InTurn
  <2>3. functions \o tasks = tasks /\ functions' \o tasks' = tasks
    BY <1>1, <1>3
  <2>. QED
    BY <2>1, <2>2, <2>3
<1>5. InHands' = InHands
  BY <1>1, <1>2 DEF InHands
<1>. QED
  BY <1>1, <1>4, <1>5 DEF MappedStep, Executed

LEMMA NextIsStutter ==
  ASSUME Inv, DoTasksNext
  PROVE  MappedStep
<1>. USE ThreadsAssumption DEF Inv
<1>1. /\ pc[Runner] = "tasks" /\ pc' = [pc EXCEPT ![Runner] = "exec"]
      /\ functions # <<>> /\ functions' = Tail(functions) /\ tasks' = tasks
      /\ job' = [job EXCEPT ![Runner] = Head(functions)]
      /\ UNCHANGED <<ran, posted>>
  BY DEF DoTasksNext, Goto, history
<1>2. \A u \in Threads : /\ pc'[u] = IF u = Runner THEN "exec" ELSE pc[u]
                         /\ job'[u] = IF u = Runner THEN Head(functions) ELSE job[u]
  BY <1>1 DEF TypeInv
<1>3. Waiting' = Waiting
  <2>1. functions \in Seq(Tasks) /\ tasks \in Seq(Tasks)
    BY DEF TypeInv
  <2>2. /\ Head(functions) \in Tasks /\ Tail(functions) \in Seq(Tasks)
        /\ functions = <<Head(functions)>> \o Tail(functions)
    BY <1>1, <2>1, HeadThenTail
  <2>3. <<Head(functions)>> \in Seq(Tasks)
    BY <2>2
  <2>4. functions \o tasks = <<Head(functions)>> \o (Tail(functions) \o tasks)
    BY <2>1, <2>2, <2>3, ConcatAssociative
  <2>5. Waiting = functions \o tasks
    <3>1. InTurn = <<>>
      BY <1>1 DEF InTurn
    <3>2. functions \o tasks \in Seq(Tasks) /\ Waiting = InTurn \o (functions \o tasks)
      BY WaitingParts
    <3>3. <<>> \o (functions \o tasks) = functions \o tasks
      BY <3>2, ConcatEmptySeq
    <3>. QED
      BY <3>1, <3>2, <3>3
  <2>6. Waiting' = <<Head(functions)>> \o (Tail(functions) \o tasks)
    BY <1>1, <1>2 DEF Waiting
  <2>. QED
    BY <2>4, <2>5, <2>6
<1>4. InHands' = InHands
  BY <1>1, <1>2 DEF InHands
<1>. QED
  BY <1>1, <1>3, <1>4 DEF MappedStep, Executed

LEMMA LoopIsStutter ==
  ASSUME Inv, \/ LoopEnter \/ LoopRunning \/ LoopTest \/ PollFails \/ PollTimeout
              \/ DoTasksReturn \/ LoopEndLock
              \/ HandleKeep \/ HandleClose \/ removeSession \/ HandlerQuits
              \/ \E s \in Tasks : PollEvent(s)
  PROVE  MappedStep
<1>. USE ThreadsAssumption DEF Inv
<1>1. UNCHANGED <<tasks, functions, ran, posted>>
  BY DEF LoopEnter, LoopRunning, LoopTest, PollFails, PollTimeout, DoTasksReturn, LoopEndLock,
     HandleKeep, HandleClose, removeSession, HandlerReturns, HandlerQuits, PollEvent, queues,
     history
<1>2. PICK label \in {"fence", "test", "poll", "end", "swap", "clear", "waiting", "handle"} :
        pc' = [pc EXCEPT ![Runner] = label]
  BY DEF LoopEnter, LoopRunning, LoopTest, PollFails, PollTimeout, DoTasksReturn, LoopEndLock,
     HandleKeep, HandleClose, removeSession, HandlerReturns, HandlerQuits, PollEvent, Goto
<1>3. pc[Runner] \notin {"push", "inline", "exec"}
  BY DEF LoopEnter, LoopRunning, LoopTest, PollFails, PollTimeout, DoTasksReturn, LoopEndLock,
     HandleKeep, HandleClose, removeSession, HandlerReturns, HandlerQuits, PollEvent
<1>4. \A u \in Threads : u # Runner => job'[u] = job[u]
  BY DEF LoopEnter, LoopRunning, LoopTest, PollFails, PollTimeout, DoTasksReturn, LoopEndLock,
     HandleKeep, HandleClose, removeSession, HandlerReturns, HandlerQuits, PollEvent, TypeInv
<1>5. \A u \in Threads : pc'[u] = IF u = Runner THEN label ELSE pc[u]
  BY <1>2 DEF TypeInv
<1>. QED
  BY <1>1, <1>3, <1>4, <1>5, KeptIsStutter

LEMMA ClearIsStutter ==
  ASSUME Inv, LoopClear
  PROVE  MappedStep
<1>1. UNCHANGED <<tasks, functions, ran, posted, job>> /\ pc[Runner] = "clear"
  BY DEF LoopClear, queues, history
<1>2. \A u \in Threads : pc'[u] = IF u = Runner THEN "ended"
                                  ELSE IF pc[u] = "waiting" THEN "woken" ELSE pc[u]
  BY DEF LoopClear
<1>. QED
  BY <1>1, <1>2, KeptIsStutter, ThreadsAssumption

LEMMA QuitIsStutter ==
  ASSUME Inv, NEW t \in Quitters, QuitterStep(t)
  PROVE  MappedStep
<1>. USE ThreadsAssumption DEF Inv
<1>1. /\ UNCHANGED <<tasks, functions, ran, posted, job>>
      /\ t \in Threads \ {Runner} /\ pc[t] \in {"free", "woken"}
  BY DEF QuitterStep, QuitLock, QuitWake, queues, history
<1>2. PICK label \in {"waiting", "quited"} : pc' = [pc EXCEPT ![t] = label]
  BY DEF QuitterStep, QuitLock, QuitWake, FinishOrWait, Goto
<1>3. \A u \in Threads : pc'[u] = IF u = t THEN label ELSE pc[u]
  BY <1>2 DEF TypeInv
<1>. QED
  BY <1>1, <1>3, KeptIsStutter

LEMMA EmplaceIsStutter ==
  ASSUME Inv, NEW t \in Posters \cup {Runner}, Emplace(t)
  PROVE  MappedStep
<1>. USE ThreadsAssumption DEF Inv
<1>1. /\ t \in Threads /\ pc[t] \in {"emplace", "execEmplace"}
      /\ UNCHANGED <<tasks, functions, ran, posted>>
  BY DEF Emplace, queues, history
<1>2. PICK label \in {"free", "tasks"} : pc' = [pc EXCEPT ![t] = label]
  BY DEF Emplace, AfterTask, Goto
<1>3. \A u \in Threads : /\ pc'[u] = IF u = t THEN label ELSE pc[u]
                         /\ u # t => job'[u] = job[u]
  <2>1. job' = [job EXCEPT ![t] = NoTask]
    BY DEF Emplace
  <2>. QED
    BY <1>2, <2>1 DEF TypeInv
<1>. QED
  BY <1>1, <1>3, KeptIsStutter

LEMMA Mapped ==
  ASSUME Inv, Line, [Next]_vars
  PROVE  MappedStep
<1>1. CASE RunnerStep \/ \E s \in Tasks : PollEvent(s)
  BY <1>1, SwapIsStutter, NextIsStutter, LoopIsStutter, ClearIsStutter DEF RunnerStep
<1>2. CASE \E t \in Posters : PosterStep(t)
  BY <1>2, TestIsPost, PushIsPush DEF PosterStep
<1>3. CASE \E t \in Posters \cup {Runner} : TaskStep(t)
  BY <1>3, RunIsExecute, EmplaceIsStutter DEF TaskStep
<1>4. CASE \E t \in Quitters : QuitterStep(t)
  BY <1>4, QuitIsStutter
<1>5. CASE UNCHANGED vars
  BY <1>5, KeptIsStutter DEF vars, queues
<1>. QED
  BY <1>1, <1>2, <1>3, <1>4, <1>5 DEF Next

(***************************************************************************)
(* addTask, the swap of doTasks and the inline execution (EventLoop.cpp:   *)
(* 122-148) implement a single queue: whichever threads post, and whenever *)
(* the loop takes over its id, the pushed tasks are executed in the order  *)
(* of their pushes, and one that runs inline has none of its poster before *)
(* it.                                                                     *)
(***************************************************************************)
THEOREM LoopImplementsQueue == Spec => ImplementsQueue
<1>1. Init => Queue!QueueInit
  <2>. SUFFICES ASSUME Init PROVE Queue!QueueInit
    OBVIOUS
  <2>1. InHands = [t \in Posters |-> NoTask]
    BY ThreadsAssumption DEF Init, InHands
  <2>2. Waiting = <<>>
    <3>1. pc[Runner] # "exec" /\ functions = <<>> /\ tasks = <<>>
      BY ThreadsAssumption DEF Init
    <3>2. <<>> \o <<>> = <<>>
      OBVIOUS
    <3>. QED
      BY <3>1, <3>2 DEF Waiting
  <2>3. Executed = <<>>
    BY DEF Init, Executed
  <2>. QED
    BY <2>1, <2>2, <2>3 DEF Init, Queue!QueueInit
<1>2. Inv /\ Line /\ [Next]_vars => [Queue!QueueNext]_(Queue!queueVars)
  BY Mapped, MappedStepIsQueueStep
<1>. QED
  BY <1>1, <1>2, InvHolds, LineHolds, PTL DEF Spec, ImplementsQueue, Queue!QueueSpec
=============================================================================
