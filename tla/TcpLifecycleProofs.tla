-------------------------- MODULE TcpLifecycleProofs --------------------------
(* The safety of the life of accepted sockets, for any connections,        *)
(* descriptor numbers, loops and bounds.                                   *)
EXTENDS TcpLifecycle, TLAPS

-----------------------------------------------------------------------------
(* The inductive invariant.                                                *)

(* A receive buffer holds no more than its peer has sent.                  *)
TypeInv == TypeOK /\ \A c \in Conns : rx[c] <= sent[c]

(* The labels of a handler of the connection cur[l].                       *)
Handling == Labels \ {"poll", "next", "tasks"}

(* Where onClose() may return to.                                          *)
Returns == {"err", "errorCallback", "in", "readErrorCallback", "requests", "out", "next"}

(* A queued session is queued once, in the loop it was made for.           *)
QueueOK(l) ==
  /\ \A i \in 1 .. Len(tasks[l]) :
       life[tasks[l][i]] = "queued" /\ loopOf[tasks[l][i]] = l
  /\ \A i \in 1 .. Len(functions[l]) :
       life[functions[l][i]] = "queued" /\ loopOf[functions[l][i]] = l
  /\ \A i, j \in 1 .. Len(tasks[l]) : tasks[l][i] = tasks[l][j] => i = j
  /\ \A i, j \in 1 .. Len(functions[l]) : functions[l][i] = functions[l][j] => i = j
  /\ \A i \in 1 .. Len(tasks[l]), j \in 1 .. Len(functions[l]) :
       tasks[l][i] # functions[l][j]

QueueInv == \A l \in Loops : QueueOK(l)

(* An open socket belongs to a connection that is queued, alive or to be   *)
(* dropped.                                                                *)
OwnerInv ==
  \A f \in Fds : owner[f] # NoConn =>
    fd[owner[f]] = f /\ life[owner[f]] \in {"queued", "alive", "dropped"}

(* What the state and the life of a connection say of its descriptor.      *)
ConnOK(c) ==
  /\ state[c] = "Connected" =>
       life[c] = "alive" /\ fd[c] \in Fds /\ channels[loopOf[c]][fd[c]] = c
  /\ state[c] = "Disconnecting" =>
       /\ life[c] = "alive" /\ fd[c] \in Fds
       /\ cur[loopOf[c]] = c /\ at[loopOf[c]] \in {"shut", "notify"}
  /\ life[c] \in {"queued", "dropped"} => fd[c] \in Fds /\ owner[fd[c]] = c
  /\ (state[c] # "Disconnected" \/ life[c] \in {"none", "queued"}) => closes[c] = 0
  /\ refused[c] # "no" =>
       refused[c] = "kernel" /\ AddMayFail /\ life[c] \in {"dropped", "freed"}
  /\ life[c] = "dropped" => refused[c] # "no" /\ at[loopOf[c]] = "tasks"

ConnInv == \A c \in Conns : ConnOK(c)

(* Where a loop's thread is, and what it works on.                         *)
ThreadOK(l) ==
  /\ at[l] \in Handling =>
       /\ cur[l] \in Conns /\ cur[l] \notin batch[l]
       /\ loopOf[cur[l]] = l /\ life[cur[l]] \in {"alive", "freed"}
  /\ at[l] \in Closing => ret[l] \in Returns
  /\ at[l] = "disable" => state[cur[l]] = "Connected"
  /\ at[l] = "shut" =>
       /\ state[cur[l]] = "Disconnecting"
       /\ owner[fd[cur[l]]] = cur[l] /\ interest[fd[cur[l]]] = {}
  /\ at[l] = "notify" =>
       state[cur[l]] = "Disconnecting" /\ \A f \in Fds : owner[f] # cur[l]

ThreadInv == \A l \in Loops : ThreadOK(l)

Inv ==
  /\ TypeInv
  /\ QueueInv
  /\ OwnerInv
  /\ ChannelsAgreeWithKernel
  /\ ConnInv
  /\ ThreadInv
  /\ BatchIsAlive
  /\ ClosedOnceAndForAll

-----------------------------------------------------------------------------
(* Type correctness, one action at a time.                                 *)

LEMMA InitTypeInv == Init => TypeInv
<1>. SUFFICES ASSUME Init PROVE TypeInv
  OBVIOUS
<1>. USE LifecycleAssumption DEF Init
<1>1. KernelTypeOK /\ HistoryTypeOK /\ ConnTypeOK
  BY DEF KernelTypeOK, HistoryTypeOK, ConnTypeOK, Causes
<1>2. NetTypeOK /\ \A c \in Conns : rx[c] <= sent[c]
  BY DEF NetTypeOK
<1>3. FixedTypeOK
  BY DEF FixedTypeOK, Loops
<1>4. QueueTypeOK
  BY DEF QueueTypeOK
<1>5. ThreadTypeOK
  BY DEF ThreadTypeOK, Labels
<1>. QED
  BY <1>1, <1>2, <1>3, <1>4, <1>5 DEF TypeInv, TypeOK

LEMMA PeerTypeInv ==
  ASSUME TypeInv, NEW c \in Conns, Peer(c)
  PROVE  TypeInv'
<1>. USE LifecycleAssumption DEF TypeInv, TypeOK
<1>1. NetTypeOK' /\ \A d \in Conns : rx'[d] <= sent'[d]
  <2>. USE DEF NetTypeOK
  <2>1. CASE PeerSends(c)
    BY <2>1 DEF PeerSends
  <2>2. CASE PeerCloses(c)
    BY <2>2 DEF PeerCloses
  <2>3. CASE PeerResets(c)
    BY <2>3 DEF PeerResets
  <2>4. CASE PeerReads(c)
    BY <2>4 DEF PeerReads
  <2>. QED
    BY <2>1, <2>2, <2>3, <2>4 DEF Peer
<1>2. UNCHANGED <<kernel, next, fixed, conn, active, channels, queues, thread, history>>
  BY DEF Peer, PeerSends, PeerCloses, PeerResets, PeerReads
<1>3. KernelTypeOK' /\ FixedTypeOK' /\ ConnTypeOK' /\ HistoryTypeOK'
  BY <1>2 DEF kernel, fixed, conn, history, KernelTypeOK, FixedTypeOK, ConnTypeOK,
              HistoryTypeOK
<1>4. QueueTypeOK' /\ ThreadTypeOK'
  BY <1>2 DEF queues, thread, QueueTypeOK, ThreadTypeOK
<1>. QED
  BY <1>1, <1>3, <1>4

LEMMA NextLoopType == FixedTypeOK => getNextLoop \in 0 .. NumLoops - 1
BY LifecycleAssumption DEF FixedTypeOK, getNextLoop

LEMMA ConnectTypeInv ==
  ASSUME TypeInv, NEW c \in Conns, onConnect(c)
  PROVE  TypeInv'
<1>. USE LifecycleAssumption DEF TypeInv, TypeOK
<1>. DEFINE no == getNextLoop
<1>1. no + 1 \in Loops /\ no + 1 \in 0 .. NumLoops
  BY NextLoopType DEF Loops
<1>2. PICK f \in Fds, g \in NonBlock :
        /\ owner' = [owner EXCEPT ![f] = c]
        /\ fd' = [fd EXCEPT ![c] = f]
        /\ greedy' = [greedy EXCEPT ![c] = g]
  BY DEF onConnect
<1>3. UNCHANGED <<interest, net, state, target, rbuf, wbuf, removes, active, channels,
                 sessions, functions, thread, history>>
  BY DEF onConnect
<1>4. KernelTypeOK' /\ NetTypeOK' /\ \A d \in Conns : rx'[d] <= sent'[d]
  BY <1>2, <1>3 DEF KernelTypeOK, NetTypeOK, net
<1>5. FixedTypeOK'
  BY <1>1, <1>2 DEF onConnect, FixedTypeOK
<1>6. ConnTypeOK'
  BY <1>3 DEF onConnect, ConnTypeOK
<1>7. QueueTypeOK'
  <2>1. tasks' \in [Loops -> Seq(Conns)]
    BY <1>1 DEF onConnect, QueueTypeOK
  <2>. QED
    BY <1>3, <2>1 DEF QueueTypeOK
<1>8. ThreadTypeOK' /\ HistoryTypeOK'
  BY <1>3 DEF thread, history, ThreadTypeOK, HistoryTypeOK
<1>. QED
  BY <1>4, <1>5, <1>6, <1>7, <1>8

(* The steps of a loop between its handlers and its tasks.                 *)
Iteration(l) ==
  \/ poll(l) \/ PollTimeout(l) \/ NextChannel(l) \/ DoTasks(l) \/ TasksDone(l)

LEMMA IterationTypeInv ==
  ASSUME TypeInv, NEW l \in Loops, Iteration(l)
  PROVE  TypeInv'
<1>. USE LifecycleAssumption DEF TypeInv, TypeOK
<1>1. UNCHANGED <<kernel, net, next, fixed, conn, channels, sessions, ret, history>>
  BY DEF Iteration, poll, PollTimeout, NextChannel, DoTasks, TasksDone, queues
<1>2. KernelTypeOK' /\ NetTypeOK' /\ FixedTypeOK' /\ HistoryTypeOK'
      /\ \A d \in Conns : rx'[d] <= sent'[d]
  BY <1>1 DEF kernel, net, fixed, history, KernelTypeOK, NetTypeOK, FixedTypeOK,
              HistoryTypeOK
<1>3. active' \in [Conns -> SUBSET Events]
  <2>1. \A f \in Fds : Ready(f) \subseteq Events
    BY DEF Ready, Events, KernelTypeOK
  <2>2. CASE poll(l)
    <3>1. \A d \in Conns : UNION {Ready(f) : f \in {g \in Found(l) : channels[l][g] = d}} \subseteq Events
      BY <2>1 DEF Found
    <3>. QED
      BY <2>2, <3>1 DEF poll, ConnTypeOK
  <2>3. CASE UNCHANGED active
    BY <2>3 DEF ConnTypeOK
  <2>. QED
    BY <2>2, <2>3 DEF Iteration, PollTimeout, NextChannel, DoTasks, TasksDone
<1>4. ConnTypeOK'
  BY <1>1, <1>3 DEF conn, ConnTypeOK
<1>5. QueueTypeOK'
  <2>1. tasks' \in [Loops -> Seq(Conns)] /\ functions' \in [Loops -> Seq(Conns)]
    <3>1. CASE DoTasks(l)
      <4>1. tasks[l] \in Seq(Conns) /\ <<>> \in Seq(Conns)
        BY DEF QueueTypeOK
      <4>. QED
        BY <3>1, <4>1 DEF DoTasks, QueueTypeOK
    <3>2. CASE UNCHANGED queues
      BY <3>2 DEF queues, QueueTypeOK
    <3>. QED
      BY <3>1, <3>2 DEF Iteration, poll, PollTimeout, NextChannel, TasksDone
  <2>. QED
    BY <1>1, <2>1 DEF QueueTypeOK
<1>6. at' \in [Loops -> Labels]
  BY DEF Iteration, poll, PollTimeout, NextChannel, DoTasks, TasksDone, Goto, Labels, ThreadTypeOK
<1>7. cur' \in [Loops -> Conns \cup {NoConn}]
  BY DEF Iteration, poll, PollTimeout, NextChannel, DoTasks, TasksDone, ThreadTypeOK
<1>8. batch' \in [Loops -> SUBSET Conns]
  <2>1. CASE poll(l)
    <3>1. {channels[l][f] : f \in Found(l)} \in SUBSET Conns
      BY DEF QueueTypeOK, Found
    <3>2. batch' = [batch EXCEPT ![l] = {channels[l][f] : f \in Found(l)}]
      BY <2>1 DEF poll
    <3>. QED
      BY <3>1, <3>2 DEF ThreadTypeOK
  <2>2. CASE ~poll(l)
    BY <2>2 DEF Iteration, PollTimeout, NextChannel, DoTasks, TasksDone, ThreadTypeOK
  <2>. QED
    BY <2>1, <2>2
<1>9. ThreadTypeOK'
  BY <1>1, <1>6, <1>7, <1>8 DEF ThreadTypeOK
<1>. QED
  BY <1>2, <1>4, <1>5, <1>9

LEMMA SessionTypeInv ==
  ASSUME TypeInv, NEW l \in Loops, SessionInit(l)
  PROVE  TypeInv'
<1>. USE LifecycleAssumption DEF TypeInv, TypeOK
<1>1. UNCHANGED <<net, next, fixed, rbuf, wbuf, removes, active, tasks, thread, closes, cause>>
  BY DEF SessionInit
<1>. DEFINE c == Head(functions[l])
<1>2. c \in Conns /\ functions' = [functions EXCEPT ![l] = Tail(@)]
      /\ Tail(functions[l]) \in Seq(Conns)
  BY DEF SessionInit, QueueTypeOK
<1>3. InitSucceeds(l, c) \/ InitFails(l, c)
  BY DEF SessionInit
<1>. HIDE DEF c
<1>4. NetTypeOK' /\ FixedTypeOK' /\ ThreadTypeOK' /\ \A d \in Conns : rx'[d] <= sent'[d]
  BY <1>1 DEF net, fixed, thread, NetTypeOK, FixedTypeOK, ThreadTypeOK
<1>5. KernelTypeOK'
  BY <1>3 DEF InitSucceeds, InitFails, Refuse, KernelTypeOK
<1>6. ConnTypeOK'
  BY <1>1, <1>3 DEF InitSucceeds, InitFails, Refuse, ConnTypeOK
<1>7. QueueTypeOK'
  <2>1. channels' \in [Loops -> [Fds -> Conns \cup {NoConn}]]
    <3>1. [channels[l] EXCEPT ![fd[c]] = c] \in [Fds -> Conns \cup {NoConn}]
      BY <1>2 DEF QueueTypeOK
    <3>. QED
      BY <1>3, <3>1 DEF InitSucceeds, InitFails, Refuse, QueueTypeOK
  <2>2. sessions' \in [Loops -> SUBSET Conns]
    <3>1. sessions[l] \cup {c} \in SUBSET Conns
      BY <1>2 DEF QueueTypeOK
    <3>2. CASE InitSucceeds(l, c)
      BY <3>1, <3>2 DEF InitSucceeds, QueueTypeOK
    <3>3. CASE InitFails(l, c)
      BY <3>3 DEF InitFails, Refuse, QueueTypeOK
    <3>. QED
      BY <1>3, <3>2, <3>3
  <2>3. functions' \in [Loops -> Seq(Conns)] /\ tasks' \in [Loops -> Seq(Conns)]
    BY <1>1, <1>2 DEF QueueTypeOK
  <2>. QED
    BY <2>1, <2>2, <2>3 DEF QueueTypeOK
<1>8. HistoryTypeOK'
  BY <1>1, <1>2, <1>3 DEF InitSucceeds, InitFails, Refuse, HistoryTypeOK
<1>. QED
  BY <1>4, <1>5, <1>6, <1>7, <1>8

LEMMA DropTypeInv ==
  ASSUME TypeInv, NEW l \in Loops, DropTask(l)
  PROVE  TypeInv'
<1>. USE LifecycleAssumption DEF TypeInv, TypeOK
<1>1. PICK c \in Conns : life' = [life EXCEPT ![c] = "freed"]
                         /\ owner' = [owner EXCEPT ![fd[c]] = NoConn]
  BY DEF DropTask, Dropped
<1>2. UNCHANGED <<interest, net, next, fixed, state, target, rbuf, wbuf, removes, active,
                 channels, queues, thread, history>>
  BY DEF DropTask
<1>3. KernelTypeOK' /\ NetTypeOK' /\ FixedTypeOK' /\ \A d \in Conns : rx'[d] <= sent'[d]
  BY <1>1, <1>2 DEF net, fixed, KernelTypeOK, NetTypeOK, FixedTypeOK
<1>4. ConnTypeOK' /\ QueueTypeOK' /\ ThreadTypeOK' /\ HistoryTypeOK'
  BY <1>1, <1>2 DEF queues, thread, history, ConnTypeOK, QueueTypeOK, ThreadTypeOK,
     HistoryTypeOK
<1>. QED
  BY <1>3, <1>4

(* Calling onClose() only moves the thread and records the cause.          *)
LEMMA CallCloseType ==
  ASSUME TypeInv, NEW l \in Loops, NEW why \in Causes, NEW back \in Labels,
         CallClose(l, why, back)
  PROVE  at' \in [Loops -> Labels] /\ ret' \in [Loops -> Labels] /\ HistoryTypeOK'
BY DEF CallClose, Goto, history, TypeInv, TypeOK, ThreadTypeOK, HistoryTypeOK, Labels

LEMMA WriteType ==
  ASSUME TypeInv, NEW l \in Loops, NEW c \in Conns, NEW have \in Nat,
         NEW back \in Labels, onWrite(l, c, have, back)
  PROVE  /\ room' \in [Conns -> 0 .. Room] /\ wbuf' \in [Conns -> Nat]
         /\ interest' \in [Fds -> SUBSET {"IN", "OUT"}]
         /\ target' \in [Conns -> SUBSET {"IN", "OUT"}]
         /\ at' \in [Loops -> Labels] /\ ret' \in [Loops -> Labels] /\ HistoryTypeOK'
         /\ sessions' \in [Loops -> SUBSET Conns]
<1>. USE DEF TypeInv, TypeOK
<1>. DEFINE Good ==
         /\ room' \in [Conns -> 0 .. Room] /\ wbuf' \in [Conns -> Nat]
         /\ interest' \in [Fds -> SUBSET {"IN", "OUT"}]
         /\ target' \in [Conns -> SUBSET {"IN", "OUT"}]
         /\ at' \in [Loops -> Labels] /\ ret' \in [Loops -> Labels] /\ HistoryTypeOK'
         /\ sessions' \in [Loops -> SUBSET Conns]
<1>1. CASE /\ Goto(l, back) /\ wbuf' = [wbuf EXCEPT ![c] = have]
           /\ UNCHANGED <<ret, history, room, interest, target, sessions>>
  BY <1>1 DEF Goto, history, KernelTypeOK, NetTypeOK, ConnTypeOK, QueueTypeOK,
              ThreadTypeOK, HistoryTypeOK
<1>2. ASSUME NEW why \in Causes, CallClose(l, why, back),
             wbuf' = [wbuf EXCEPT ![c] = have], UNCHANGED <<room, interest, target, sessions>>
      PROVE  Good
  BY <1>2, CallCloseType DEF KernelTypeOK, NetTypeOK, ConnTypeOK, QueueTypeOK
<1>3. ASSUME NEW n \in 1 .. Room, Flushed(l, c, n, have),
             \/ removeSession(l, c) /\ CallClose(l, "removed", back)
             \/ Goto(l, back) /\ UNCHANGED <<ret, history, sessions>>
      PROVE  Good
  <2>1. room' \in [Conns -> 0 .. Room] /\ wbuf' \in [Conns -> Nat]
    BY <1>3, LifecycleAssumption DEF Flushed, NetTypeOK, ConnTypeOK
  <2>2. /\ interest' \in [Fds -> SUBSET {"IN", "OUT"}]
        /\ target' \in [Conns -> SUBSET {"IN", "OUT"}]
    BY <1>3 DEF Flushed, enableWriting, disableWriting, setTargetEvent, KernelTypeOK,
                ConnTypeOK
  <2>3. at' \in [Loops -> Labels] /\ ret' \in [Loops -> Labels] /\ HistoryTypeOK'
    <3>1. CASE CallClose(l, "removed", back)
      BY <3>1, CallCloseType DEF Causes
    <3>2. CASE Goto(l, back) /\ UNCHANGED <<ret, history>>
      BY <3>2 DEF Goto, history, ThreadTypeOK, HistoryTypeOK
    <3>. QED
      BY <1>3, <3>1, <3>2
  <2>4. sessions' \in [Loops -> SUBSET Conns]
    BY <1>3 DEF removeSession, QueueTypeOK
  <2>. QED
    BY <2>1, <2>2, <2>3, <2>4
<1>4. {"send error", "nothing to send", "would block"} \subseteq Causes
  BY DEF Causes
<1>. QED
  BY <1>1, <1>2, <1>3, <1>4 DEF onWrite

(* A handler's step leaves the loops' tasks and the acceptor alone.        *)
LEMMA HandlerTypeInv ==
  ASSUME TypeInv, ThreadInv, NEW l \in Loops, HandleEvent(l)
  PROVE  TypeInv'
<1>. USE LifecycleAssumption DEF TypeInv, TypeOK
<1>. DEFINE c == cur[l]
<1>1. c \in Conns
  <2>1. at[l] \in Handling
    BY DEF HandleEvent, EventClose, NoError, onError, ErrorCallback, NoRead, onRead,
           HandleRequest, RequestsDone, NoWrite, EventWrite, UseAfterFree, Step,
           Handling, Labels
  <2>. QED
    BY <2>1 DEF ThreadInv, ThreadOK
<1>2. UNCHANGED <<owner, fin, rst, sent, next, fixed, life, state, active, channels,
                 tasks, functions, batch, cur>>
  BY DEF HandleEvent, EventClose, NoError, onError, ErrorCallback, NoRead, onRead,
         HandleRequest, RequestsDone, NoWrite, EventWrite, UseAfterFree, Step, Quiet,
         kernel, net, conn, queues
<1>r. removes' \in [Conns -> BOOLEAN]
  <2>1. UNCHANGED removes \/ removes' = [removes EXCEPT ![c] = TRUE]
    BY DEF HandleEvent, EventClose, NoError, onError, ErrorCallback, NoRead, onRead,
           HandleRequest, RequestsDone, NoWrite, EventWrite, UseAfterFree, Step, Quiet,
           conn
  <2>. QED
    BY <2>1 DEF ConnTypeOK
<1>. DEFINE Rest == /\ interest' \in [Fds -> SUBSET {"IN", "OUT"}]
                    /\ target' \in [Conns -> SUBSET {"IN", "OUT"}]
                    /\ rx' \in [Conns -> 0 .. MaxReqs]
                    /\ \A d \in Conns : rx'[d] <= sent[d]
                    /\ room' \in [Conns -> 0 .. Room]
                    /\ rbuf' \in [Conns -> Nat] /\ wbuf' \in [Conns -> Nat]
                    /\ at' \in [Loops -> Labels] /\ ret' \in [Loops -> Labels]
                    /\ HistoryTypeOK' /\ sessions' \in [Loops -> SUBSET Conns]
<1>3. ASSUME Quiet, at' \in [Loops -> Labels], ret' \in [Loops -> Labels], HistoryTypeOK'
      PROVE  Rest
  BY <1>3 DEF Quiet, kernel, net, conn, queues, KernelTypeOK, NetTypeOK, ConnTypeOK,
              QueueTypeOK
<1>4. ASSUME NEW from \in Labels, NEW to \in Labels, Step(l, from, to)
      PROVE  Rest
  BY <1>3, <1>4 DEF Step, Goto, history, ThreadTypeOK, HistoryTypeOK
<1>5. ASSUME NEW why \in Causes, NEW back \in Labels, CallClose(l, why, back), Quiet
      PROVE  Rest
  BY <1>3, <1>5, CallCloseType
<1>6. ASSUME NEW have \in Nat, NEW back \in Labels, onWrite(l, c, have, back),
             UNCHANGED rx, rbuf' \in [Conns -> Nat]
      PROVE  Rest
  BY <1>1, <1>6, WriteType DEF NetTypeOK
<1>. HIDE DEF Rest, c
<1>7. ASSUME EventClose(l) PROVE Rest
  <2>1. CASE CallClose(l, "hangup", "err") /\ Quiet
    BY <1>5, <2>1 DEF Causes, Labels
  <2>2. CASE Goto(l, "err") /\ UNCHANGED <<ret, history>> /\ Quiet
    BY <1>3, <2>2 DEF Goto, history, Labels, ThreadTypeOK, HistoryTypeOK
  <2>. QED
    BY <1>7, <2>1, <2>2 DEF EventClose
<1>8. ASSUME onError(l) PROVE Rest
  BY <1>5, <1>8 DEF onError, Causes, Labels
<1>9. ASSUME NoError(l) \/ ErrorCallback(l) \/ NoRead(l) \/ RequestsDone(l) \/ NoWrite(l) PROVE Rest
  BY <1>4, <1>9 DEF NoError, ErrorCallback, NoRead, RequestsDone, NoWrite, Labels
<1>10. ASSUME UseAfterFree(l) PROVE Rest
  <2>1. Quiet /\ UNCHANGED <<ret, closes, cause, refused>>
    BY <1>10 DEF UseAfterFree, history
  <2>2. at' \in [Loops -> Labels]
    BY <1>10 DEF UseAfterFree, Goto, Labels, ThreadTypeOK
  <2>3. ret' \in [Loops -> Labels] /\ HistoryTypeOK'
    BY <2>1 DEF ThreadTypeOK, HistoryTypeOK
  <2>. QED
    BY <1>3, <2>1, <2>2, <2>3
<1>11. ASSUME onRead(l) PROVE Rest
  <2>1. /\ rx' \in [Conns -> 0 .. MaxReqs] /\ \A d \in Conns : rx'[d] <= sent[d]
        /\ rbuf' \in [Conns -> Nat]
    <3>1. \/ UNCHANGED <<rx, rbuf>>
          \/ /\ rx' = [rx EXCEPT ![c] = 0]
             /\ rbuf' = [rbuf EXCEPT ![c] = @ + rx[c]]
      BY <1>11 DEF c, onRead
    <3>2. \A d \in Conns : rx[d] \in Nat /\ sent[d] \in Nat /\ rbuf[d] \in Nat
      BY DEF NetTypeOK, ConnTypeOK
    <3>. QED
      BY <1>1, <3>1, <3>2 DEF NetTypeOK, ConnTypeOK
  <2>2. UNCHANGED <<interest, target, room, wbuf, sessions>>
    BY <1>11 DEF onRead, kernel, queues
  <2>3. at' \in [Loops -> Labels] /\ ret' \in [Loops -> Labels] /\ HistoryTypeOK'
    <3>1. CASE CallClose(l, "error", "readErrorCallback")
      BY <3>1, CallCloseType DEF Causes, Labels
    <3>2. CASE CallClose(l, "peer closed", "out")
      BY <3>2, CallCloseType DEF Causes, Labels
    <3>3. CASE (Goto(l, "out") \/ Goto(l, "requests")) /\ UNCHANGED <<ret, history>>
      BY <3>3 DEF Goto, history, Labels, ThreadTypeOK, HistoryTypeOK
    <3>. QED
      BY <1>11, <3>1, <3>2, <3>3 DEF onRead
  <2>. QED
    BY <2>1, <2>2, <2>3 DEF Rest, KernelTypeOK, NetTypeOK, ConnTypeOK, QueueTypeOK
<1>12. ASSUME HandleRequest(l) PROVE Rest
  <2>1. wbuf[c] + ReplySize \in Nat
    BY <1>1 DEF ConnTypeOK
  <2>2. rbuf' \in [Conns -> Nat] /\ UNCHANGED rx
    BY <1>1, <1>12 DEF c, HandleRequest, ConnTypeOK
  <2>. QED
    BY <1>6, <1>12, <2>1, <2>2 DEF c, HandleRequest, Labels
<1>13. ASSUME EventWrite(l) PROVE Rest
  <2>1. wbuf[c] \in Nat
    BY <1>1 DEF ConnTypeOK
  <2>2. rbuf' \in [Conns -> Nat] /\ UNCHANGED rx
    BY <1>1, <1>13 DEF EventWrite, ConnTypeOK
  <2>. QED
    BY <1>6, <1>13, <2>1, <2>2 DEF c, EventWrite, Labels
<1>14. Rest
  BY <1>7, <1>8, <1>9, <1>10, <1>11, <1>12, <1>13 DEF HandleEvent
<1>15. KernelTypeOK' /\ NetTypeOK' /\ FixedTypeOK' /\ \A d \in Conns : rx'[d] <= sent'[d]
  BY <1>2, <1>14 DEF Rest, fixed, KernelTypeOK, NetTypeOK, FixedTypeOK
<1>16. ConnTypeOK' /\ QueueTypeOK' /\ ThreadTypeOK'
  BY <1>2, <1>r, <1>14 DEF Rest, ConnTypeOK, QueueTypeOK, ThreadTypeOK
<1>. QED
  BY <1>14, <1>15, <1>16 DEF Rest

LEMMA CloseTypeInv ==
  ASSUME TypeInv, ThreadInv, NEW l \in Loops, OnClose(l)
  PROVE  TypeInv'
<1>. USE LifecycleAssumption DEF TypeInv, TypeOK
<1>1. UNCHANGED <<net, next, fixed, target, rbuf, wbuf, removes, active, queues, batch,
                 cur, ret, cause, refused>>
  BY DEF OnClose, CloseDisable, CloseSocket, CloseCallback, conn, history
<1>2. KernelTypeOK'
  BY DEF OnClose, CloseDisable, CloseSocket, CloseCallback, kernel, KernelTypeOK
<1>3. NetTypeOK' /\ FixedTypeOK' /\ \A d \in Conns : rx'[d] <= sent'[d]
  BY <1>1 DEF net, fixed, NetTypeOK, FixedTypeOK
<1>4. ConnTypeOK'
  BY <1>1 DEF OnClose, CloseDisable, CloseSocket, CloseCallback, conn, ConnTypeOK
<1>5. channels' \in [Loops -> [Fds -> Conns \cup {NoConn}]]
  <2>1. [channels[l] EXCEPT ![fd[cur[l]]] = NoConn] \in [Fds -> Conns \cup {NoConn}]
    BY DEF QueueTypeOK
  <2>. QED
    BY <2>1 DEF OnClose, CloseDisable, CloseSocket, CloseCallback, QueueTypeOK
<1>6. QueueTypeOK'
  BY <1>1, <1>5 DEF queues, QueueTypeOK
<1>7. at' \in [Loops -> Labels]
  BY DEF OnClose, CloseDisable, CloseSocket, CloseCallback, Goto, ThreadTypeOK, Labels
<1>8. ThreadTypeOK'
  BY <1>1, <1>7 DEF ThreadTypeOK
<1>9. closes' \in [Conns -> Nat]
  <2>1. closes[cur[l]] \in Nat \/ cur[l] \notin Conns
    BY DEF HistoryTypeOK
  <2>. QED
    BY <2>1 DEF OnClose, CloseDisable, CloseSocket, CloseCallback, history, HistoryTypeOK
<1>10. HistoryTypeOK'
  BY <1>1, <1>9 DEF HistoryTypeOK
<1>. QED
  BY <1>2, <1>3, <1>4, <1>6, <1>8, <1>10

-----------------------------------------------------------------------------
(* The rest of the invariant, one action at a time.                        *)

LEMMA InitInv == Init => Inv
<1>. SUFFICES ASSUME Init PROVE Inv
  OBVIOUS
<1>. USE LifecycleAssumption DEF Init
<1>1. TypeInv
  BY InitTypeInv
<1>2. QueueInv /\ OwnerInv /\ ConnInv
  BY DEF QueueInv, QueueOK, OwnerInv, ConnInv, ConnOK
<1>3. ThreadInv /\ BatchIsAlive
  BY DEF ThreadInv, ThreadOK, BatchIsAlive, Handling, Labels, Closing
<1>4. ChannelsAgreeWithKernel /\ ClosedOnceAndForAll
  BY DEF ChannelsAgreeWithKernel, ClosedOnceAndForAll
<1>. QED
  BY <1>1, <1>2, <1>3, <1>4 DEF Inv

(* What the invariant speaks of, apart from the types.                     *)
core == <<owner, interest, life, fd, loopOf, state, channels, tasks, functions, batch,
          cur, at, ret, closes, refused>>

LEMMA StutterInv ==
  ASSUME Inv, UNCHANGED core, TypeInv'
  PROVE  Inv'
<1>. USE DEF Inv, core
<1>1. QueueInv' /\ OwnerInv' /\ ConnInv'
  BY DEF QueueInv, QueueOK, OwnerInv, ConnInv, ConnOK
<1>2. ThreadInv' /\ BatchIsAlive'
  BY DEF ThreadInv, ThreadOK, BatchIsAlive
<1>3. ChannelsAgreeWithKernel' /\ ClosedOnceAndForAll'
  BY DEF ChannelsAgreeWithKernel, ClosedOnceAndForAll
<1>. QED
  BY <1>1, <1>2, <1>3

LEMMA PeerInv ==
  ASSUME Inv, NEW c \in Conns, Peer(c)
  PROVE  Inv'
<1>1. TypeInv'
  BY PeerTypeInv DEF Inv
<1>2. UNCHANGED core
  BY DEF Peer, PeerSends, PeerCloses, PeerResets, PeerReads, core, kernel, fixed, conn,
         queues, thread, history
<1>. QED
  BY <1>1, <1>2, StutterInv

(* An accepted socket gets a free number, which no loop watches.           *)
LEMMA ConnectInv ==
  ASSUME Inv, NEW c \in Conns, onConnect(c)
  PROVE  Inv'
<1>. USE DEF Inv
<1>1. TypeInv' /\ TypeOK
  BY ConnectTypeInv DEF TypeInv
<1>. DEFINE l == getNextLoop + 1
<1>2. l \in Loops
  BY NextLoopType, LifecycleAssumption DEF TypeInv, TypeOK, Loops
<1>3. PICK f \in Fds :
        /\ owner[f] = NoConn
        /\ owner' = [owner EXCEPT ![f] = c]
        /\ fd' = [fd EXCEPT ![c] = f]
  BY DEF onConnect
<1>4. /\ life[c] = "none"
      /\ life' = [life EXCEPT ![c] = "queued"]
      /\ loopOf' = [loopOf EXCEPT ![c] = l]
      /\ tasks' = [tasks EXCEPT ![l] = Append(@, c)]
      /\ UNCHANGED <<interest, state, channels, functions, batch, cur, at, ret, closes,
                     refused>>
  BY DEF onConnect, thread, history
<1>. HIDE DEF l
(* What changes, and what c was before.                                    *)
<1>5. /\ life'[c] = "queued" /\ loopOf'[c] = l /\ fd'[c] = f
      /\ \A d \in Conns : d # c =>
           life'[d] = life[d] /\ loopOf'[d] = loopOf[d] /\ fd'[d] = fd[d]
  BY <1>1, <1>3, <1>4 DEF TypeOK, FixedTypeOK, ConnTypeOK
<1>6. owner'[f] = c /\ \A g \in Fds : g # f => owner'[g] = owner[g]
  BY <1>1, <1>3 DEF TypeOK, KernelTypeOK
<1>7. state[c] = "Disconnected" /\ closes[c] = 0 /\ refused[c] = "no" /\ c # NoConn
  <2>1. ConnOK(c) /\ state[c] \in {"Disconnected", "Connected", "Disconnecting"}
    BY <1>1 DEF ConnInv, TypeOK, ConnTypeOK
  <2>. QED
    BY <1>4, <2>1, LifecycleAssumption DEF ConnOK
<1>8. \A g \in Fds : owner[g] # c /\ (owner[g] # NoConn => owner[g] \in Conns)
  BY <1>1, <1>4, <1>7 DEF OwnerInv, TypeOK, KernelTypeOK
<1>9. \A k \in Loops : \A d \in batch[k] : d \in Conns /\ d # c
  BY <1>1, <1>4 DEF BatchIsAlive, TypeOK, ThreadTypeOK
<1>10. OwnerInv'
  BY <1>3, <1>5, <1>6, <1>8 DEF OwnerInv
<1>11. ConnInv'
  <2>. SUFFICES ASSUME NEW d \in Conns
                PROVE  ConnOK(d)'
    BY DEF ConnInv
  <2>1. CASE d = c
    BY <1>3, <1>4, <1>5, <1>6, <1>7, <2>1 DEF ConnOK
  <2>2. CASE d # c
    <3>1. life[d] \in {"queued", "dropped"} => fd[d] # f
      BY <1>3, LifecycleAssumption DEF ConnInv, ConnOK
    <3>. QED
      BY <1>4, <1>5, <1>6, <2>2, <3>1 DEF ConnInv, ConnOK
  <2>. QED
    BY <2>1, <2>2
<1>12. ThreadInv'
  <2>. SUFFICES ASSUME NEW k \in Loops
                PROVE  ThreadOK(k)'
    BY DEF ThreadInv
  <2>1. CASE at[k] \in Handling
    <3>1. cur[k] \in Conns /\ cur[k] # c /\ ThreadOK(k)
      BY <1>4, <2>1 DEF ThreadInv, ThreadOK
    <3>2. at[k] = "shut" => fd[cur[k]] \in Fds /\ fd[cur[k]] # f
      BY <1>3, <3>1, LifecycleAssumption DEF ThreadOK, ConnInv, ConnOK
    <3>. QED
      BY <1>4, <1>5, <1>6, <2>1, <3>1, <3>2 DEF ThreadOK
  <2>2. CASE at[k] \notin Handling
    BY <1>4, <2>2 DEF ThreadOK, Handling, Labels, Closing
  <2>. QED
    BY <2>1, <2>2
<1>13. \A k \in Loops, g \in Fds : channels[k][g] # c /\ channels[k][f] = NoConn
  BY <1>3, <1>7, <1>8 DEF ChannelsAgreeWithKernel
<1>14. ChannelsAgreeWithKernel'
  <2>1. \A k \in Loops, g \in Fds : channels[k][g] # NoConn => channels[k][g] \in Conns
    BY <1>1 DEF TypeOK, QueueTypeOK
  <2>. QED
    BY <1>4, <1>5, <1>6, <1>13, <2>1 DEF ChannelsAgreeWithKernel
<1>15. BatchIsAlive'
  BY <1>4, <1>5, <1>9 DEF BatchIsAlive
<1>16. ClosedOnceAndForAll'
  BY <1>4, <1>6, <1>7 DEF ClosedOnceAndForAll
<1>18. QueueInv'
  <2>. SUFFICES ASSUME NEW k \in Loops
                PROVE  QueueOK(k)'
    BY DEF QueueInv
  <2>. DEFINE n == Len(tasks[l])
  <2>1. /\ \A i \in 1 .. Len(tasks[k]) : tasks[k][i] \in Conns /\ tasks[k][i] # c
        /\ \A i \in 1 .. Len(functions[k]) : functions[k][i] \in Conns /\ functions[k][i] # c
        /\ QueueOK(k)
    BY <1>1, <1>4 DEF QueueInv, QueueOK, TypeOK, QueueTypeOK
  <2>2. CASE k = l
    <3>1. tasks'[k] = Append(tasks[k], c) /\ tasks[k] \in Seq(Conns)
      BY <1>1, <1>4, <2>2 DEF TypeOK, QueueTypeOK
    <3>2. /\ Len(tasks'[k]) = n + 1 /\ n \in Nat
          /\ \A i \in 1 .. n : tasks'[k][i] = tasks[k][i]
          /\ tasks'[k][n + 1] = c
      BY <2>2, <3>1
    <3>3. \A i \in 1 .. n + 1 : i \in 1 .. n \/ i = n + 1
      BY <3>2
    <3>. QED
      BY <1>4, <1>5, <2>1, <2>2, <3>2, <3>3 DEF QueueOK
  <2>3. CASE k # l
    <3>1. tasks'[k] = tasks[k]
      BY <1>1, <1>4, <2>3 DEF TypeOK, QueueTypeOK
    <3>. QED
      BY <1>4, <1>5, <2>1, <3>1 DEF QueueOK
  <2>. QED
    BY <2>2, <2>3
<1>. QED
  BY <1>1, <1>10, <1>11, <1>12, <1>14, <1>15, <1>16, <1>18

(* An iteration between handlers moves no descriptor.                      *)
LEMMA IterationInv ==
  ASSUME Inv, NEW l \in Loops, Iteration(l)
  PROVE  Inv'
<1>. USE DEF Inv
<1>1. TypeInv' /\ TypeOK
  BY IterationTypeInv DEF TypeInv
<1>2. UNCHANGED <<owner, interest, life, fd, loopOf, state, channels, ret, closes, refused>>
  BY DEF Iteration, poll, PollTimeout, NextChannel, DoTasks, TasksDone, kernel, fixed, conn, history
<1>3. /\ at[l] \notin Handling /\ at'[l] \notin Closing
      /\ \A k \in Loops : k # l => at'[k] = at[k] /\ cur'[k] = cur[k] /\ batch'[k] = batch[k]
  BY <1>1 DEF Iteration, poll, PollTimeout, NextChannel, DoTasks, TasksDone, Goto, Handling, Labels, Closing,
              TypeOK, ThreadTypeOK
<1>4. OwnerInv' /\ ChannelsAgreeWithKernel'
  BY <1>2 DEF OwnerInv, ChannelsAgreeWithKernel
<1>5. ClosedOnceAndForAll'
  BY <1>2 DEF ClosedOnceAndForAll
(* A loop leaves its tasks when it has dropped those that failed.          *)
<1>d. \A c \in Conns : life[c] = "dropped" => at'[loopOf[c]] = "tasks"
  <2>. SUFFICES ASSUME NEW c \in Conns, life[c] = "dropped"
                PROVE  at'[loopOf[c]] = "tasks"
    OBVIOUS
  <2>1. at[loopOf[c]] = "tasks" /\ loopOf[c] \in Loops
    BY <1>1 DEF ConnInv, ConnOK, TypeOK, FixedTypeOK
  <2>2. CASE loopOf[c] = l
    <3>1. c \in Dropped(l)
      BY <2>2 DEF Dropped
    <3>. QED
      BY <2>1, <2>2, <3>1 DEF Iteration, poll, PollTimeout, NextChannel, DoTasks, TasksDone
  <2>. QED
    BY <1>3, <2>1, <2>2
<1>6. ConnInv'
  <2>. SUFFICES ASSUME NEW c \in Conns
                PROVE  ConnOK(c)'
    BY DEF ConnInv
  <2>1. ConnOK(c) /\ loopOf[c] \in Loops
    BY <1>1 DEF ConnInv, TypeOK, FixedTypeOK
  <2>2. state[c] = "Disconnecting" => loopOf[c] # l
    BY <1>3, <2>1 DEF ConnOK, Handling, Labels
  <2>. QED
    BY <1>2, <1>3, <1>d, <2>1, <2>2 DEF ConnOK
(* The batch holds what poll found, less what was taken out.               *)
<1>7. \A c \in batch'[l] : life[c] = "alive" /\ loopOf[c] = l /\ state[c] = "Connected"
  <2>1. CASE poll(l)
    <3>1. batch'[l] \subseteq {channels[l][f] : f \in {g \in Fds : channels[l][g] # NoConn}}
      BY <1>1, <2>1 DEF poll, Found, TypeOK, ThreadTypeOK
    <3>2. \A f \in Fds : channels[l][f] # NoConn =>
            /\ channels[l][f] \in Conns /\ loopOf[channels[l][f]] = l
            /\ state[channels[l][f]] = "Connected"
      BY <1>1 DEF ChannelsAgreeWithKernel, TypeOK, QueueTypeOK
    <3>3. \A c \in Conns : state[c] = "Connected" => life[c] = "alive"
      BY DEF ConnInv, ConnOK
    <3>. QED
      BY <3>1, <3>2, <3>3
  <2>2. CASE ~poll(l)
    <3>1. batch'[l] \subseteq batch[l]
      BY <1>1, <2>2 DEF Iteration, PollTimeout, NextChannel, DoTasks, TasksDone, TypeOK, ThreadTypeOK
    <3>. QED
      BY <3>1 DEF BatchIsAlive
  <2>. QED
    BY <2>1, <2>2
<1>8. BatchIsAlive'
  BY <1>2, <1>3, <1>7 DEF BatchIsAlive
<1>9. at'[l] \in Handling =>
        /\ cur'[l] \in Conns /\ cur'[l] \notin batch'[l]
        /\ loopOf[cur'[l]] = l /\ life[cur'[l]] = "alive"
  <2>1. CASE NextChannel(l)
    <3>1. PICK c \in batch[l] : /\ cur' = [cur EXCEPT ![l] = c]
                                /\ batch' = [batch EXCEPT ![l] = @ \ {c}]
      BY <2>1 DEF NextChannel
    <3>. QED
      BY <1>1, <3>1 DEF BatchIsAlive, TypeOK, ThreadTypeOK
  <2>2. CASE ~NextChannel(l)
    BY <1>1, <2>2 DEF Iteration, poll, PollTimeout, DoTasks, TasksDone, Goto, Handling, TypeOK, ThreadTypeOK
  <2>. QED
    BY <2>1, <2>2
<1>10. ThreadInv'
  <2>. SUFFICES ASSUME NEW k \in Loops
                PROVE  ThreadOK(k)'
    BY DEF ThreadInv
  <2>1. CASE k = l
    BY <1>2, <1>3, <1>9, <2>1 DEF ThreadOK, Closing
  <2>2. CASE k # l
    BY <1>2, <1>3, <2>2 DEF ThreadInv, ThreadOK
  <2>. QED
    BY <2>1, <2>2
<1>11. QueueInv'
  <2>. SUFFICES ASSUME NEW k \in Loops
                PROVE  QueueOK(k)'
    BY DEF QueueInv
  <2>1. CASE DoTasks(l) /\ k = l
    <3>1. tasks'[k] = <<>> /\ functions'[k] = tasks[k]
      BY <1>1, <2>1 DEF DoTasks, TypeOK, QueueTypeOK
    <3>2. Len(tasks'[k]) = 0
      BY <3>1
    <3>. QED
      BY <1>2, <3>1, <3>2 DEF QueueInv, QueueOK
  <2>2. CASE tasks'[k] = tasks[k] /\ functions'[k] = functions[k]
    <3>1. QueueOK(k) /\ life' = life /\ loopOf' = loopOf
      BY <1>2 DEF QueueInv
    <3>. QED
      BY <2>2, <3>1, SMTT(30) DEF QueueOK
  <2>3. CASE UNCHANGED queues
    BY <2>2, <2>3 DEF queues
  <2>4. CASE DoTasks(l) /\ k # l
    BY <1>1, <2>2, <2>4 DEF DoTasks, TypeOK, QueueTypeOK
  <2>. QED
    BY <2>1, <2>3, <2>4 DEF Iteration, poll, PollTimeout, NextChannel, TasksDone
<1>. QED
  BY <1>1, <1>4, <1>5, <1>6, <1>8, <1>10, <1>11

(* The queue that is worked on loses its head, which was queued only there. *)
LEMMA SessionQueue ==
  ASSUME Inv, NEW l \in Loops, SessionInit(l),
         \A d \in Conns : d # Head(functions[l]) => life'[d] = life[d]
  PROVE  QueueInv'
<1>. DEFINE c == Head(functions[l])
<1>1. /\ functions[l] # <<>> /\ functions[l] \in Seq(Conns) /\ tasks[l] \in Seq(Conns)
      /\ functions' = [functions EXCEPT ![l] = Tail(@)] /\ UNCHANGED <<tasks, loopOf>>
      /\ functions \in [Loops -> Seq(Conns)] /\ tasks \in [Loops -> Seq(Conns)]
  BY DEF SessionInit, fixed, Inv, TypeInv, TypeOK, QueueTypeOK
<1>2. QueueInv
  BY DEF Inv
<1>h. \A d \in Conns : d # c => life'[d] = life[d]
  OBVIOUS
<1>3. /\ c = functions[l][1] /\ c \in Conns /\ 1 \in 1 .. Len(functions[l])
      /\ Len(functions[l]) \in Nat /\ Len(functions[l]) >= 1
      /\ Len(functions'[l]) = Len(functions[l]) - 1
      /\ \A i \in 1 .. Len(functions'[l]) :
           functions'[l][i] = functions[l][i + 1] /\ i + 1 \in 1 .. Len(functions[l])
  BY <1>1
<1>. HIDE DEF c
<1>. SUFFICES ASSUME NEW k \in Loops
              PROVE  QueueOK(k)'
  BY DEF QueueInv
<1>4. QueueOK(k) /\ QueueOK(l)
  BY <1>2 DEF QueueInv
<1>5. CASE k = l
  <2>1. /\ \A i \in 1 .. Len(tasks[l]) : tasks[l][i] \in Conns /\ tasks[l][i] # c
        /\ \A i \in 1 .. Len(functions'[l]) :
             functions'[l][i] \in Conns /\ functions'[l][i] # c
    <3>1. \A i \in 1 .. Len(tasks[l]) : tasks[l][i] \in Conns
      BY <1>1
    <3>2. \A i \in 1 .. Len(tasks[l]) : tasks[l][i] # c
      BY <1>3, <1>4 DEF QueueOK
    <3>3. \A i \in 1 .. Len(functions[l]) : functions[l][i] \in Conns
      BY <1>1
    <3>4. \A i \in 1 .. Len(functions'[l]) : i + 1 # 1
      BY <1>3
    <3>5. \A i \in 1 .. Len(functions'[l]) : functions'[l][i] # c
      BY <1>3, <1>4, <3>4 DEF QueueOK
    <3>. QED
      BY <1>3, <3>1, <3>2, <3>3, <3>5
  <2>2. \A i \in 1 .. Len(tasks[l]) :
          life'[tasks[l][i]] = "queued" /\ loopOf[tasks[l][i]] = l
    BY <1>h, <1>4, <2>1 DEF QueueOK
  <2>3. \A i \in 1 .. Len(functions'[l]) :
          life'[functions'[l][i]] = "queued" /\ loopOf[functions'[l][i]] = l
    BY <1>h, <1>3, <1>4, <2>1 DEF QueueOK
  <2>4. \A i, j \in 1 .. Len(functions'[l]) : functions'[l][i] = functions'[l][j] => i = j
    BY <1>3, <1>4 DEF QueueOK
  <2>5. \A i \in 1 .. Len(tasks[l]), j \in 1 .. Len(functions'[l]) :
          tasks[l][i] # functions'[l][j]
    BY <1>3, <1>4 DEF QueueOK
  <2>. QED
    BY <1>1, <1>4, <1>5, <2>2, <2>3, <2>4, <2>5 DEF QueueOK
<1>6. CASE k # l
  <2>1. functions'[k] = functions[k] /\ functions[k] \in Seq(Conns) /\ tasks[k] \in Seq(Conns)
    BY <1>1, <1>6
  <2>2. loopOf[c] = l
    BY <1>3, <1>4 DEF QueueOK
  <2>3. /\ \A i \in 1 .. Len(tasks[k]) : tasks[k][i] \in Conns /\ tasks[k][i] # c
        /\ \A i \in 1 .. Len(functions[k]) : functions[k][i] \in Conns /\ functions[k][i] # c
    <3>1. /\ \A i \in 1 .. Len(tasks[k]) : tasks[k][i] \in Conns
          /\ \A i \in 1 .. Len(functions[k]) : functions[k][i] \in Conns
      BY <2>1
    <3>2. /\ \A i \in 1 .. Len(tasks[k]) : tasks[k][i] # c
          /\ \A i \in 1 .. Len(functions[k]) : functions[k][i] # c
      BY <1>4, <1>6, <2>2 DEF QueueOK
    <3>. QED
      BY <3>1, <3>2
  <2>4. /\ \A i \in 1 .. Len(tasks[k]) : life'[tasks[k][i]] = life[tasks[k][i]]
        /\ \A i \in 1 .. Len(functions[k]) : life'[functions[k][i]] = life[functions[k][i]]
    BY <1>h, <2>3
  <2>5. tasks' = tasks /\ loopOf' = loopOf
    BY <1>1
  <2>. QED
    BY <1>4, <2>1, <2>4, <2>5, SMTT(30) DEF QueueOK
<1>. QED
  BY <1>5, <1>6

LEMMA SessionInv ==
  ASSUME Inv, NEW l \in Loops, SessionInit(l)
  PROVE  Inv'
<1>. USE DEF Inv
<1>1. TypeInv' /\ TypeOK
  BY SessionTypeInv DEF TypeInv
<1>. DEFINE c == Head(functions[l])
            f == fd[c]
<1>2. /\ at[l] = "tasks" /\ functions[l] # <<>>
      /\ InitSucceeds(l, c) \/ InitFails(l, c)
      /\ UNCHANGED <<fd, loopOf, batch, cur, at, ret, closes>>
  BY DEF SessionInit, fixed, thread
<1>3. c \in Conns /\ life[c] = "queued" /\ loopOf[c] = l
  <2>1. functions[l] \in Seq(Conns) /\ QueueOK(l)
    BY <1>1 DEF TypeOK, QueueTypeOK, QueueInv
  <2>2. 1 \in 1 .. Len(functions[l]) /\ c = functions[l][1] /\ c \in Conns
    <3>1. functions[l] # <<>>
      BY <1>2
    <3>. QED
      BY <2>1, <3>1
  <2>. QED
    BY <2>1, <2>2 DEF QueueOK
<1>4. SessionInit(l) => (\A d \in Conns : d # c => life'[d] = life[d])
  BY <1>1, <1>2 DEF InitSucceeds, InitFails, Refuse, TypeOK, ConnTypeOK
<1>5. QueueInv'
  BY <1>4, SessionQueue
<1>. HIDE DEF c
<1>6. f \in Fds /\ owner[f] = c /\ state[c] = "Disconnected" /\ closes[c] = 0
  <2>1. ConnOK(c) /\ state[c] \in {"Disconnected", "Connected", "Disconnecting"}
    BY <1>1, <1>3 DEF ConnInv, TypeOK, ConnTypeOK
  <2>. QED
    BY <1>3, <2>1 DEF ConnOK
(* The number of a queued connection is in no channel map.                 *)
<1>7. \A k \in Loops : channels[k][f] = NoConn
  BY <1>6 DEF ChannelsAgreeWithKernel
<1>8. \A k \in Loops : c \notin batch[k] /\ (at[k] \in Handling => cur[k] # c)
  BY <1>3 DEF BatchIsAlive, ThreadInv, ThreadOK
<1>9. c # NoConn /\ \A g \in Fds : owner[g] = c => g = f
  BY <1>3, LifecycleAssumption DEF OwnerInv
<1>. HIDE DEF f
<1>10. f = fd[c]
  BY DEF f
<1>11. CASE InitSucceeds(l, c)
  <2>1. /\ UNCHANGED <<owner, refused>>
        /\ channels'[l][f] = c /\ interest'[f] = {"IN"}
        /\ state'[c] = "Connected" /\ life'[c] = "alive"
        /\ \A d \in Conns : d # c => state'[d] = state[d] /\ life'[d] = life[d]
        /\ \A g \in Fds : g # f => interest'[g] = interest[g]
        /\ \A k \in Loops, g \in Fds : (k # l \/ g # f) => channels'[k][g] = channels[k][g]
    BY <1>1, <1>3, <1>6, <1>10, <1>11 DEF InitSucceeds, TypeOK, KernelTypeOK, ConnTypeOK,
         QueueTypeOK
  <2>2. OwnerInv'
    <3>1. \A g \in Fds : owner[g] # NoConn => owner[g] \in Conns
      BY <1>1 DEF TypeOK, KernelTypeOK
    <3>. QED
      BY <1>2, <1>3, <2>1, <3>1 DEF OwnerInv
  <2>3. ChannelsAgreeWithKernel'
    <3>1. \A k \in Loops, g \in Fds : channels[k][g] # NoConn =>
            channels[k][g] \in Conns /\ channels[k][g] # c
      BY <1>1, <1>6 DEF ChannelsAgreeWithKernel, TypeOK, QueueTypeOK
    <3>. SUFFICES ASSUME NEW g \in Fds
                  PROVE  /\ \A k \in Loops : channels'[k][g] # NoConn =>
                              LET d == channels'[k][g] IN
                              /\ owner'[g] = d /\ fd'[d] = g /\ loopOf'[d] = k
                              /\ state'[d] = "Connected"
                         /\ (interest'[g] # {}) <=>
                              (\E k \in Loops : channels'[k][g] # NoConn)
      BY DEF ChannelsAgreeWithKernel
    <3>2. CASE g = f
      BY <1>2, <1>3, <1>6, <1>7, <1>9, <1>10, <2>1, <3>2, SMTT(30)
    <3>3. CASE g # f
      BY <1>2, <2>1, <3>1, <3>3 DEF ChannelsAgreeWithKernel
    <3>. QED
      BY <3>2, <3>3
  <2>4. ConnInv'
    <3>. SUFFICES ASSUME NEW d \in Conns
                  PROVE  ConnOK(d)'
      BY DEF ConnInv
    <3>1. CASE d = c
      <4>1. refused[c] = "no"
        BY <1>3 DEF ConnInv, ConnOK
      <4>. QED
        BY <1>2, <1>3, <1>6, <1>10, <2>1, <3>1, <4>1 DEF ConnOK
    <3>2. CASE d # c
      <4>1. ConnOK(d) /\ loopOf[d] \in Loops
        BY <1>1 DEF ConnInv, TypeOK, FixedTypeOK
      <4>2. state[d] = "Connected" => (loopOf[d] # l \/ fd[d] # f)
        BY <1>7, <4>1, LifecycleAssumption DEF ConnOK
      <4>. QED
        BY <1>2, <2>1, <3>2, <4>1, <4>2 DEF ConnOK
    <3>. QED
      BY <3>1, <3>2
  <2>5. ThreadInv'
    <3>. SUFFICES ASSUME NEW k \in Loops
                  PROVE  ThreadOK(k)'
      BY DEF ThreadInv
    <3>1. CASE at[k] \in Handling
      <4>1. cur[k] \in Conns /\ cur[k] # c /\ ThreadOK(k)
        BY <1>8, <3>1 DEF ThreadInv, ThreadOK
      <4>2. at[k] = "shut" => fd[cur[k]] \in Fds /\ fd[cur[k]] # f
        BY <1>6, <4>1 DEF ThreadOK, ConnInv, ConnOK
      <4>. QED
        BY <1>2, <2>1, <3>1, <4>1, <4>2 DEF ThreadOK
    <3>2. CASE at[k] \notin Handling
      BY <1>2, <3>2 DEF ThreadOK, Handling, Labels, Closing
    <3>. QED
      BY <3>1, <3>2
  <2>6. BatchIsAlive'
    <3>1. \A k \in Loops : \A d \in batch[k] : d \in Conns /\ d # c
      BY <1>1, <1>8 DEF TypeOK, ThreadTypeOK
    <3>. QED
      BY <1>2, <2>1, <3>1 DEF BatchIsAlive
  <2>7. ClosedOnceAndForAll'
    BY <1>2, <1>3, <1>6, <2>1 DEF ClosedOnceAndForAll
  <2>. QED
    BY <1>1, <1>5, <2>2, <2>3, <2>4, <2>5, <2>6, <2>7
<1>12. CASE InitFails(l, c)
  <2>1. /\ UNCHANGED <<channels, interest, state>>
        /\ refused'[c] = "kernel" /\ AddMayFail
        /\ \A d \in Conns : d # c => life'[d] = life[d] /\ refused'[d] = refused[d]
        /\ \A g \in Fds : g # f => owner'[g] = owner[g]
        /\ \/ owner'[f] = c /\ life'[c] = "dropped"
           \/ owner'[f] = NoConn /\ life'[c] = "freed"
    <3>1. CanAdd(l, c)
      BY <1>7, <1>10 DEF CanAdd
    <3>2. UNCHANGED <<channels, interest, state>> /\ AddMayFail
      BY <1>12, <3>1 DEF InitFails, Refuse
    <3>3. refused'[c] = "kernel" /\ \A d \in Conns : d # c => refused'[d] = refused[d]
      BY <1>1, <1>3, <1>12, <3>1 DEF InitFails, Refuse, TypeOK, HistoryTypeOK
    <3>4. CASE c \in SecondOwner
      BY <1>1, <1>3, <1>6, <1>12, <3>2, <3>3, <3>4
         DEF InitFails, Refuse, TypeOK, KernelTypeOK, ConnTypeOK
    <3>5. CASE c \notin SecondOwner
      BY <1>1, <1>3, <1>6, <1>10, <1>12, <3>2, <3>3, <3>5
         DEF InitFails, Refuse, TypeOK, KernelTypeOK, ConnTypeOK
    <3>. QED
      BY <3>4, <3>5
  <2>2. OwnerInv'
    <3>1. \A g \in Fds : owner[g] # NoConn => owner[g] \in Conns
      BY <1>1 DEF TypeOK, KernelTypeOK
    <3>. SUFFICES ASSUME NEW g \in Fds, owner'[g] # NoConn
                  PROVE  fd[owner'[g]] = g /\ life'[owner'[g]] \in {"queued", "alive", "dropped"}
      BY <1>2 DEF OwnerInv
    <3>2. CASE g = f
      BY <1>10, <2>1, <3>2
    <3>3. CASE g # f
      BY <1>9, <2>1, <3>1, <3>3 DEF OwnerInv
    <3>. QED
      BY <3>2, <3>3
  <2>3. ChannelsAgreeWithKernel'
    BY <1>2, <1>7, <2>1 DEF ChannelsAgreeWithKernel
  <2>4. ConnInv'
    <3>. SUFFICES ASSUME NEW d \in Conns
                  PROVE  ConnOK(d)'
      BY DEF ConnInv
    <3>1. CASE d = c
      BY <1>2, <1>3, <1>6, <1>10, <2>1, <3>1 DEF ConnOK
    <3>2. CASE d # c
      <4>1. ConnOK(d)
        BY DEF ConnInv
      <4>2. life[d] \in {"queued", "dropped"} => fd[d] # f
        BY <1>6, <3>2, <4>1 DEF ConnOK
      <4>. QED
        BY <1>2, <2>1, <3>2, <4>1, <4>2 DEF ConnOK
    <3>. QED
      BY <3>1, <3>2
  <2>5. ThreadInv'
    <3>. SUFFICES ASSUME NEW k \in Loops
                  PROVE  ThreadOK(k)'
      BY DEF ThreadInv
    <3>1. CASE at[k] \in Handling
      <4>1. cur[k] \in Conns /\ cur[k] # c /\ ThreadOK(k)
        BY <1>8, <3>1 DEF ThreadInv, ThreadOK
      <4>2. at[k] = "shut" => fd[cur[k]] \in Fds /\ fd[cur[k]] # f
        BY <1>6, <4>1 DEF ThreadOK, ConnInv, ConnOK
      <4>3. \A g \in Fds : owner[g] # cur[k] => owner'[g] # cur[k]
        BY <2>1, <4>1, LifecycleAssumption
      <4>. QED
        BY <1>2, <2>1, <3>1, <4>1, <4>2, <4>3 DEF ThreadOK
    <3>2. CASE at[k] \notin Handling
      BY <1>2, <3>2 DEF ThreadOK, Handling, Labels, Closing
    <3>. QED
      BY <3>1, <3>2
  <2>6. BatchIsAlive'
    <3>1. \A k \in Loops : \A d \in batch[k] : d \in Conns /\ d # c
      BY <1>1, <1>8 DEF TypeOK, ThreadTypeOK
    <3>. QED
      BY <1>2, <2>1, <3>1 DEF BatchIsAlive
  <2>7. ClosedOnceAndForAll'
    <3>1. \A d \in Conns : closes[d] > 0 => d # c
      BY <1>6
    <3>2. \A d \in Conns, g \in Fds : d # c /\ owner[g] # d => owner'[g] # d
      BY <2>1, LifecycleAssumption
    <3>. QED
      BY <1>2, <2>1, <3>1, <3>2 DEF ClosedOnceAndForAll
  <2>. QED
    BY <1>1, <1>5, <2>2, <2>3, <2>4, <2>5, <2>6, <2>7
<1>. QED
  BY <1>2, <1>11, <1>12

(* A dropped connection gives back a number that no loop watches.          *)
LEMMA DropInv ==
  ASSUME Inv, NEW l \in Loops, DropTask(l)
  PROVE  Inv'
<1>. USE DEF Inv
<1>1. TypeInv' /\ TypeOK
  BY DropTypeInv DEF TypeInv
<1>2. PICK c \in Conns : /\ life[c] = "dropped"
                         /\ life' = [life EXCEPT ![c] = "freed"]
                         /\ owner' = [owner EXCEPT ![fd[c]] = NoConn]
  BY DEF DropTask, Dropped
<1>3. UNCHANGED <<interest, fd, loopOf, state, channels, tasks, functions, batch, cur, at,
                 ret, closes, refused>>
  BY DEF DropTask, fixed, queues, thread, history
<1>. DEFINE f == fd[c]
<1>4. f \in Fds /\ owner[f] = c /\ state[c] = "Disconnected" /\ refused[c] # "no" /\ c # NoConn
  <2>1. ConnOK(c) /\ state[c] \in {"Disconnected", "Connected", "Disconnecting"}
    BY <1>1 DEF ConnInv, TypeOK, ConnTypeOK
  <2>. QED
    BY <1>2, <2>1, LifecycleAssumption DEF ConnOK
<1>5. /\ owner'[f] = NoConn /\ life'[c] = "freed"
      /\ \A d \in Conns : d # c => life'[d] = life[d]
      /\ \A g \in Fds : g # f => owner'[g] = owner[g]
  BY <1>1, <1>2, <1>4 DEF TypeOK, KernelTypeOK, ConnTypeOK
<1>6. f = fd[c]
  OBVIOUS
<1>. HIDE DEF f
<1>7. \A g \in Fds : owner[g] = c => g = f
  BY <1>4, <1>6 DEF OwnerInv
<1>8. \A g \in Fds : owner[g] # NoConn => owner[g] \in Conns
  BY <1>1 DEF TypeOK, KernelTypeOK
<1>9. \A k \in Loops : channels[k][f] = NoConn
  BY <1>4 DEF ChannelsAgreeWithKernel
<1>10. OwnerInv'
  BY <1>3, <1>5, <1>7, <1>8 DEF OwnerInv
<1>11. ChannelsAgreeWithKernel'
  BY <1>3, <1>5, <1>9 DEF ChannelsAgreeWithKernel
<1>12. ConnInv'
  <2>. SUFFICES ASSUME NEW d \in Conns
                PROVE  ConnOK(d)'
    BY DEF ConnInv
  <2>1. ConnOK(d)
    BY DEF ConnInv
  <2>2. CASE d = c
    BY <1>3, <1>4, <1>5, <2>1, <2>2 DEF ConnOK
  <2>3. CASE d # c
    <3>1. life[d] \in {"queued", "dropped"} => fd[d] # f
      BY <1>4, <2>1, <2>3 DEF ConnOK
    <3>. QED
      BY <1>3, <1>5, <2>1, <2>3, <3>1 DEF ConnOK
  <2>. QED
    BY <2>2, <2>3
<1>13. ThreadInv'
  <2>. SUFFICES ASSUME NEW k \in Loops
                PROVE  ThreadOK(k)'
    BY DEF ThreadInv
  <2>1. ThreadOK(k)
    BY DEF ThreadInv
  <2>2. CASE at[k] \in Handling
    <3>1. cur[k] \in Conns /\ cur[k] # c /\ cur[k] # NoConn
      BY <1>2, <2>1, <2>2, LifecycleAssumption DEF ThreadOK
    <3>2. at[k] = "shut" => fd[cur[k]] \in Fds /\ fd[cur[k]] # f
      BY <1>4, <2>1, <3>1 DEF ThreadOK, ConnInv, ConnOK
    <3>3. \A g \in Fds : owner[g] # cur[k] => owner'[g] # cur[k]
      BY <1>5, <3>1
    <3>. QED
      BY <1>3, <1>5, <2>1, <2>2, <3>1, <3>2, <3>3 DEF ThreadOK
  <2>3. CASE at[k] \notin Handling
    BY <1>3, <2>3 DEF ThreadOK, Handling, Labels, Closing
  <2>. QED
    BY <2>2, <2>3
<1>14. BatchIsAlive'
  <2>1. \A k \in Loops : \A d \in batch[k] : d \in Conns /\ d # c
    BY <1>1, <1>2 DEF BatchIsAlive, TypeOK, ThreadTypeOK
  <2>. QED
    BY <1>3, <1>5, <2>1 DEF BatchIsAlive
<1>15. ClosedOnceAndForAll'
  BY <1>3, <1>5, LifecycleAssumption DEF ClosedOnceAndForAll
<1>16. QueueInv'
  <2>. SUFFICES ASSUME NEW k \in Loops
                PROVE  QueueOK(k)'
    BY DEF QueueInv
  <2>1. QueueOK(k) /\ tasks[k] \in Seq(Conns) /\ functions[k] \in Seq(Conns)
    BY <1>1 DEF QueueInv, TypeOK, QueueTypeOK
  <2>2. /\ \A i \in 1 .. Len(tasks[k]) : tasks[k][i] \in Conns
        /\ \A i \in 1 .. Len(functions[k]) : functions[k][i] \in Conns
    BY <2>1
  <2>3. /\ \A i \in 1 .. Len(tasks[k]) : life'[tasks[k][i]] = "queued"
        /\ \A i \in 1 .. Len(functions[k]) : life'[functions[k][i]] = "queued"
    BY <1>2, <1>5, <2>1, <2>2 DEF QueueOK
  <2>. QED
    BY <1>3, <2>1, <2>3 DEF QueueOK
<1>. QED
  BY <1>1, <1>10, <1>11, <1>12, <1>13, <1>14, <1>15, <1>16

-----------------------------------------------------------------------------
(* The handlers: they watch for more or less, and at most start a close.   *)

(***************************************************************************)
(* Where a handler's step may take its thread: on, or into onClose() of a  *)
(* connection that is Connected.                                           *)
(***************************************************************************)
Moves(l) ==
  /\ \E label \in (Returns \cup {"disable", "undefined"}) :
       /\ at' = [at EXCEPT ![l] = label]
       /\ label = "disable" => state[cur[l]] = "Connected" /\ ret'[l] \in Returns
       /\ label = "undefined" => life[cur[l]] = "freed"
  /\ \A k \in Loops : k # l => ret'[k] = ret[k]
  /\ UNCHANGED <<closes, refused>>

LEMMA CallCloseMoves ==
  ASSUME TypeInv, ConnInv, NEW l \in Loops, NEW why, NEW back \in Returns,
         at[l] \notin Closing, cur[l] \in Conns, loopOf[cur[l]] = l, CallClose(l, why, back)
  PROVE  Moves(l)
<1>1. state[cur[l]] \in {"Disconnected", "Connected"}
  BY DEF TypeInv, TypeOK, ConnTypeOK, ConnInv, ConnOK, Closing
<1>2. CASE state[cur[l]] = "Disconnected"
  BY <1>2 DEF CallClose, Goto, history, Moves, Returns
<1>3. CASE state[cur[l]] = "Connected"
  <2>1. at' = [at EXCEPT ![l] = "disable"] /\ ret' = [ret EXCEPT ![l] = back]
        /\ UNCHANGED <<closes, refused>>
    BY <1>3 DEF CallClose, Goto
  <2>2. ret'[l] = back /\ \A k \in Loops : k # l => ret'[k] = ret[k]
    BY <2>1 DEF TypeInv, TypeOK, ThreadTypeOK
  <2>3. \E label \in (Returns \cup {"disable", "undefined"}) :
          /\ at' = [at EXCEPT ![l] = label]
          /\ label = "disable" => state[cur[l]] = "Connected" /\ ret'[l] \in Returns
          /\ label = "undefined" => life[cur[l]] = "freed"
    <3>1. "disable" # "undefined"
      OBVIOUS
    <3>. QED
      BY <1>3, <2>1, <2>2, <3>1
  <2>. QED
    BY <2>1, <2>2, <2>3 DEF Moves
<1>. QED
  BY <1>1, <1>2, <1>3

LEMMA GotoMoves ==
  ASSUME NEW l \in Loops, NEW back \in Returns \cup {"undefined"}, Goto(l, back),
         back = "undefined" => life[cur[l]] = "freed", UNCHANGED <<ret, closes, refused>>
  PROVE  Moves(l)
BY DEF Goto, Moves, Returns

(* A write changes what is watched, never whether it is watched.           *)
LEMMA WriteWatches ==
  ASSUME NEW l \in Loops, NEW c \in Conns, NEW have, NEW back, onWrite(l, c, have, back),
         TypeInv
  PROVE  \A f \in Fds : interest'[f] = {} <=> interest[f] = {}
<1>1. interest' = interest \/ \E events : /\ events # {} /\ interest[fd[c]] # {}
                                         /\ interest' = [interest EXCEPT ![fd[c]] = events]
  BY DEF onWrite, Flushed, enableWriting, disableWriting, setTargetEvent, CanChange
<1>. QED
  BY <1>1 DEF TypeInv, TypeOK, KernelTypeOK

LEMMA WriteMoves ==
  ASSUME TypeInv, ConnInv, NEW l \in Loops, NEW have, NEW back \in Returns,
         at[l] \notin Closing, cur[l] \in Conns, loopOf[cur[l]] = l,
         onWrite(l, cur[l], have, back)
  PROVE  Moves(l)
<1>1. \/ \E why : CallClose(l, why, back)
      \/ Goto(l, back) /\ UNCHANGED <<ret, closes, refused>>
  BY DEF onWrite, history
<1>2. back # "undefined"
  BY DEF Returns
<1>. QED
  BY <1>1, <1>2, CallCloseMoves, GotoMoves

(* What every step of a handler has in common.                             *)
LEMMA HandlerStep ==
  ASSUME Inv, NEW l \in Loops, HandleEvent(l)
  PROVE  /\ at[l] \in Handling \ Closing /\ Moves(l)
         /\ UNCHANGED <<owner, life, fd, loopOf, state, channels, tasks, functions,
                        batch, cur>>
         /\ \A f \in Fds : interest'[f] = {} <=> interest[f] = {}
<1>. USE DEF Inv
<1>1. at[l] \in Handling \ Closing
  BY DEF HandleEvent, EventClose, NoError, onError, ErrorCallback, NoRead, onRead,
         HandleRequest, RequestsDone, NoWrite, EventWrite, UseAfterFree, Step,
         Handling, Labels, Closing
<1>2. UNCHANGED <<owner, life, fd, loopOf, state, channels, tasks, functions, batch, cur>>
  BY DEF HandleEvent, EventClose, NoError, onError, ErrorCallback, NoRead, onRead,
         HandleRequest, RequestsDone, NoWrite, EventWrite, UseAfterFree, Step, Quiet,
         kernel, fixed, conn, queues
<1>3. at[l] \notin Closing /\ cur[l] \in Conns /\ loopOf[cur[l]] = l
  BY <1>1 DEF ThreadInv, ThreadOK
<1>. DEFINE Same == \A f \in Fds : interest'[f] = {} <=> interest[f] = {}
<1>4. ASSUME NEW back \in Returns \cup {"undefined"}, Goto(l, back), UNCHANGED <<ret, history>>,
             back = "undefined" => life[cur[l]] = "freed"
      PROVE  Moves(l)
  BY <1>4, GotoMoves DEF history
<1>5. ASSUME NEW why, NEW back \in Returns, CallClose(l, why, back)
      PROVE  Moves(l)
  BY <1>3, <1>5, CallCloseMoves
<1>6. ASSUME EventClose(l) PROVE Moves(l) /\ Same
  <2>1. Moves(l)
    BY <1>4, <1>5, <1>6 DEF EventClose, Returns
  <2>. QED
    BY <1>6, <2>1 DEF EventClose, Quiet, kernel
<1>7. ASSUME NoError(l) \/ ErrorCallback(l) \/ NoRead(l) \/ RequestsDone(l) \/ NoWrite(l)
      PROVE  Moves(l) /\ Same
  <2>1. Moves(l)
    BY <1>4, <1>7 DEF NoError, ErrorCallback, NoRead, RequestsDone, NoWrite, Step, Returns
  <2>. QED
    BY <1>7, <2>1 DEF NoError, ErrorCallback, NoRead, RequestsDone, NoWrite, Step, Quiet, kernel
<1>8. ASSUME onError(l) PROVE Moves(l) /\ Same
  <2>1. Moves(l)
    BY <1>5, <1>8 DEF onError, Returns
  <2>. QED
    BY <1>8, <2>1 DEF onError, Quiet, kernel
<1>9. ASSUME UseAfterFree(l) PROVE Moves(l) /\ Same
  <2>1. Moves(l)
    BY <1>4, <1>9 DEF UseAfterFree
  <2>. QED
    BY <1>9, <2>1 DEF UseAfterFree, Quiet, kernel
<1>10. ASSUME onRead(l) PROVE Moves(l) /\ Same
  <2>1. Moves(l)
    BY <1>4, <1>5, <1>10 DEF onRead, Returns
  <2>. QED
    BY <1>10, <2>1 DEF onRead, kernel
<1>11. ASSUME HandleRequest(l) PROVE Moves(l) /\ Same
  <2>1. onWrite(l, cur[l], wbuf[cur[l]] + ReplySize, "requests") /\ "requests" \in Returns
    BY <1>11 DEF HandleRequest, Returns
  <2>. QED
    BY <1>3, <2>1, WriteMoves, WriteWatches
<1>12. ASSUME EventWrite(l) PROVE Moves(l) /\ Same
  <2>1. onWrite(l, cur[l], wbuf[cur[l]], "next") /\ "next" \in Returns
    BY <1>12 DEF EventWrite, Returns
  <2>. QED
    BY <1>3, <2>1, WriteMoves, WriteWatches
<1>. HIDE DEF Same
<1>13. Moves(l) /\ Same
  BY <1>6, <1>7, <1>8, <1>9, <1>10, <1>11, <1>12 DEF HandleEvent
<1>. QED
  BY <1>1, <1>2, <1>13 DEF Same

LEMMA HandlerInv ==
  ASSUME Inv, NEW l \in Loops, HandleEvent(l)
  PROVE  Inv'
<1>. USE DEF Inv
<1>1. TypeInv' /\ TypeOK
  BY HandlerTypeInv DEF TypeInv
<1>2. /\ at[l] \in Handling /\ at[l] \notin Closing /\ Moves(l)
      /\ UNCHANGED <<owner, life, fd, loopOf, state, channels, tasks, functions, batch, cur>>
      /\ \A f \in Fds : interest'[f] = {} <=> interest[f] = {}
  BY HandlerStep
<1>3. /\ at'[l] \in Returns \cup {"disable", "undefined"}
      /\ at'[l] = "disable" => state[cur[l]] = "Connected" /\ ret'[l] \in Returns
      /\ \A k \in Loops : k # l => at'[k] = at[k] /\ ret'[k] = ret[k]
      /\ UNCHANGED <<closes, refused>>
  BY <1>1, <1>2 DEF Moves, TypeOK, ThreadTypeOK
<1>4. QueueInv' /\ OwnerInv' /\ BatchIsAlive'
  <2>1. UNCHANGED <<owner, life, fd, loopOf, state, tasks, functions, batch>>
    BY <1>2
  <2>2. QueueInv'
    <3>. SUFFICES ASSUME NEW k \in Loops
                  PROVE  QueueOK(k)'
      BY DEF QueueInv
    <3>1. QueueOK(k)
      BY DEF QueueInv
    <3>2. tasks' = tasks /\ functions' = functions /\ life' = life /\ loopOf' = loopOf
      BY <2>1
    <3>. QED
      BY <3>1, <3>2, Zenon DEF QueueOK
  <2>3. OwnerInv' /\ BatchIsAlive'
    BY <2>1 DEF OwnerInv, BatchIsAlive
  <2>. QED
    BY <2>2, <2>3
<1>5. ChannelsAgreeWithKernel'
  BY <1>2 DEF ChannelsAgreeWithKernel
<1>6. ClosedOnceAndForAll'
  BY <1>2, <1>3 DEF ClosedOnceAndForAll
<1>7. ConnInv'
  <2>. SUFFICES ASSUME NEW c \in Conns
                PROVE  ConnOK(c)'
    BY DEF ConnInv
  <2>1. ConnOK(c) /\ loopOf[c] \in Loops
    BY <1>1 DEF ConnInv, TypeOK, FixedTypeOK
  <2>2. state[c] = "Disconnecting" \/ life[c] = "dropped" => loopOf[c] # l
    BY <1>2, <2>1 DEF ConnOK, Closing, Handling
  <2>. QED
    BY <1>2, <1>3, <2>1, <2>2 DEF ConnOK
<1>8. ThreadInv'
  <2>. SUFFICES ASSUME NEW k \in Loops
                PROVE  ThreadOK(k)'
    BY DEF ThreadInv
  <2>1. CASE k = l
    BY <1>2, <1>3, <2>1 DEF ThreadInv, ThreadOK, Closing, Returns
  <2>2. CASE k # l
    <3>1. ThreadOK(k)
      BY DEF ThreadInv
    <3>2. at[k] = "shut" => fd[cur[k]] \in Fds
      BY <3>1 DEF ThreadOK, ConnInv, ConnOK, Handling, Labels
    <3>. QED
      BY <1>2, <1>3, <2>2, <3>1, <3>2 DEF ThreadOK
  <2>. QED
    BY <2>1, <2>2
<1>. QED
  BY <1>1, <1>4, <1>5, <1>6, <1>7, <1>8

-----------------------------------------------------------------------------
(* onClose().                                                              *)

(* What the three steps of onClose() have in common.                       *)
LEMMA CloseFrame ==
  ASSUME Inv, NEW l \in Loops, OnClose(l)
  PROVE  /\ UNCHANGED <<fd, loopOf, tasks, functions, batch, cur, ret, refused>>
         /\ cur[l] \in Conns /\ loopOf[cur[l]] = l /\ cur[l] \notin batch[l]
         /\ \A k \in Loops : k # l => at'[k] = at[k]
         /\ \A k \in Loops : k # l => (at[k] \in Handling => cur[k] # cur[l])
         /\ \A c \in Conns : c # cur[l] =>
              life'[c] = life[c] /\ state'[c] = state[c] /\ closes'[c] = closes[c]
<1>. USE DEF Inv, TypeInv, TypeOK
<1>1. UNCHANGED <<fd, loopOf, tasks, functions, batch, cur, ret, refused>>
  BY DEF OnClose, CloseDisable, CloseSocket, CloseCallback, fixed, queues, history
<1>2. at[l] \in Handling
  BY DEF OnClose, CloseDisable, CloseSocket, CloseCallback, Handling, Labels
<1>3. cur[l] \in Conns /\ loopOf[cur[l]] = l /\ cur[l] \notin batch[l]
  BY <1>2 DEF ThreadInv, ThreadOK
<1>4. \A k \in Loops : k # l => at'[k] = at[k]
  BY DEF OnClose, CloseDisable, CloseSocket, CloseCallback, Goto, ThreadTypeOK
<1>5. \A k \in Loops : k # l => (at[k] \in Handling => cur[k] # cur[l])
  BY <1>3 DEF ThreadInv, ThreadOK
<1>6. \A c \in Conns : c # cur[l] =>
        life'[c] = life[c] /\ state'[c] = state[c] /\ closes'[c] = closes[c]
  BY DEF OnClose, CloseDisable, CloseSocket, CloseCallback, conn, history, ConnTypeOK,
         HistoryTypeOK
<1>. QED
  BY <1>1, <1>3, <1>4, <1>5, <1>6

(* The conjuncts that onClose() cannot disturb at any of its steps.        *)
LEMMA CloseCommon ==
  ASSUME Inv, NEW l \in Loops, OnClose(l)
  PROVE  TypeInv' /\ QueueInv' /\ BatchIsAlive'
<1>. USE DEF Inv
<1>. DEFINE c == cur[l]
<1>1. TypeInv' /\ TypeOK
  BY CloseTypeInv DEF TypeInv
<1>2. /\ UNCHANGED <<fd, loopOf, tasks, functions, batch, cur>>
      /\ c \in Conns /\ loopOf[c] = l /\ c \notin batch[l]
      /\ \A d \in Conns : d # c => life'[d] = life[d] /\ state'[d] = state[d]
  BY CloseFrame
<1>3. life[c] # "queued"
  BY DEF OnClose, CloseDisable, CloseSocket, CloseCallback, ThreadInv, ThreadOK, Handling, Labels
<1>. HIDE DEF c
<1>4. BatchIsAlive'
  <2>. SUFFICES ASSUME NEW k \in Loops, NEW d \in batch[k]
                PROVE  life'[d] = "alive" /\ loopOf[d] = k /\ state'[d] = "Connected"
    BY <1>2 DEF BatchIsAlive
  <2>1. d \in Conns /\ d # c
    BY <1>1, <1>2 DEF BatchIsAlive, TypeOK, ThreadTypeOK
  <2>. QED
    BY <1>2, <2>1 DEF BatchIsAlive
<1>5. QueueInv'
  <2>. SUFFICES ASSUME NEW k \in Loops
                PROVE  QueueOK(k)'
    BY DEF QueueInv
  <2>1. QueueOK(k) /\ tasks[k] \in Seq(Conns) /\ functions[k] \in Seq(Conns)
    BY <1>1 DEF QueueInv, TypeOK, QueueTypeOK
  <2>2. /\ \A i \in 1 .. Len(tasks[k]) : tasks[k][i] \in Conns
        /\ \A i \in 1 .. Len(functions[k]) : functions[k][i] \in Conns
    BY <2>1
  <2>3. /\ \A i \in 1 .. Len(tasks[k]) : life'[tasks[k][i]] = "queued"
        /\ \A i \in 1 .. Len(functions[k]) : life'[functions[k][i]] = "queued"
    BY <1>2, <1>3, <2>1, <2>2 DEF QueueOK
  <2>. QED
    BY <1>2, <2>1, <2>3 DEF QueueOK
<1>. QED
  BY <1>1, <1>4, <1>5

(* m_channel->disable() always finds its entry and removes it.             *)
LEMMA CloseDisableInv ==
  ASSUME Inv, NEW l \in Loops, CloseDisable(l)
  PROVE  Inv'
<1>. USE DEF Inv
<1>. DEFINE c == cur[l]
            f == fd[c]
<1>1. TypeInv' /\ QueueInv' /\ BatchIsAlive' /\ TypeOK
  BY CloseCommon DEF OnClose, TypeInv
<1>2. /\ UNCHANGED <<fd, loopOf, batch, cur, ret, refused>>
      /\ c \in Conns /\ loopOf[c] = l /\ c \notin batch[l]
      /\ \A k \in Loops : k # l => at'[k] = at[k]
      /\ \A k \in Loops : k # l => (at[k] \in Handling => cur[k] # c)
      /\ \A d \in Conns : d # c => state'[d] = state[d]
  BY CloseFrame DEF OnClose
<1>3. ThreadOK(l) /\ ConnOK(c) /\ at[l] = "disable" /\ state[c] = "Connected"
  BY <1>2 DEF CloseDisable, ThreadInv, ThreadOK, ConnInv
<1>4. /\ f \in Fds /\ channels[l][f] = c /\ owner[f] = c /\ c # NoConn
      /\ life[c] = "alive" /\ closes[c] = 0 /\ refused[c] = "no"
  BY <1>2, <1>3, LifecycleAssumption DEF ConnOK, ChannelsAgreeWithKernel
<1>5. CanChange(l, c)
  BY <1>2, <1>4 DEF CanChange, ChannelsAgreeWithKernel
<1>6. UNCHANGED <<owner, life, closes>>
  BY DEF CloseDisable, history
<1>7. /\ state'[c] = "Disconnecting" /\ at'[l] = "shut"
      /\ channels'[l][f] = NoConn /\ interest'[f] = {}
      /\ \A g \in Fds : g # f => interest'[g] = interest[g]
      /\ \A k \in Loops, g \in Fds : (k # l \/ g # f) => channels'[k][g] = channels[k][g]
  BY <1>1, <1>2, <1>4, <1>5 DEF CloseDisable, Goto, TypeOK, KernelTypeOK, ConnTypeOK,
     QueueTypeOK, ThreadTypeOK
<1>. HIDE DEF c
<1>8. f = fd[c]
  OBVIOUS
<1>. HIDE DEF f
<1>9. \A k \in Loops : k # l => channels[k][f] = NoConn
  BY <1>2, <1>4 DEF ChannelsAgreeWithKernel
<1>10. OwnerInv'
  BY <1>2, <1>6 DEF OwnerInv
<1>11. ChannelsAgreeWithKernel'
  <2>. SUFFICES ASSUME NEW g \in Fds
                PROVE  /\ \A k \in Loops : channels'[k][g] # NoConn =>
                            LET d == channels'[k][g] IN
                            /\ owner[g] = d /\ fd[d] = g /\ loopOf[d] = k
                            /\ state'[d] = "Connected"
                       /\ (interest'[g] # {}) <=> (\E k \in Loops : channels'[k][g] # NoConn)
    BY <1>2, <1>6 DEF ChannelsAgreeWithKernel
  <2>1. CASE g = f
    BY <1>7, <1>9, <2>1
  <2>2. CASE g # f
    <3>1. \A k \in Loops : channels[k][g] # NoConn =>
            channels[k][g] \in Conns /\ channels[k][g] # c
      BY <1>1, <1>8, <2>2 DEF ChannelsAgreeWithKernel, TypeOK, QueueTypeOK
    <3>. QED
      BY <1>2, <1>7, <2>2, <3>1 DEF ChannelsAgreeWithKernel
  <2>. QED
    BY <2>1, <2>2
<1>12. ConnInv'
  <2>. SUFFICES ASSUME NEW d \in Conns
                PROVE  ConnOK(d)'
    BY DEF ConnInv
  <2>1. CASE d = c
    <3>1. cur[l] = c
      BY DEF c
    <3>. QED
      BY <1>2, <1>4, <1>6, <1>7, <1>8, <2>1, <3>1 DEF ConnOK
  <2>2. CASE d # c
    <3>1. ConnOK(d) /\ loopOf[d] \in Loops
      BY <1>1 DEF ConnInv, TypeOK, FixedTypeOK
    <3>2. state[d] = "Connected" => (loopOf[d] # l \/ fd[d] # f)
      BY <1>4, <2>2, <3>1 DEF ConnOK
    <3>3. state[d] = "Disconnecting" \/ life[d] = "dropped" => loopOf[d] # l
      BY <1>3, <3>1 DEF ConnOK
    <3>. QED
      BY <1>2, <1>6, <1>7, <2>2, <3>1, <3>2, <3>3 DEF ConnOK
  <2>. QED
    BY <2>1, <2>2
<1>13. ThreadInv'
  <2>. SUFFICES ASSUME NEW k \in Loops
                PROVE  ThreadOK(k)'
    BY DEF ThreadInv
  <2>1. CASE k = l
    <3>1. cur[l] = c
      BY DEF c
    <3>. QED
      BY <1>2, <1>3, <1>4, <1>6, <1>7, <1>8, <2>1, <3>1 DEF ThreadOK, Closing
  <2>2. CASE k # l
    <3>1. ThreadOK(k)
      BY DEF ThreadInv
    <3>2. CASE at[k] \in Handling
      <4>1. cur[k] \in Conns /\ cur[k] # c
        BY <1>2, <2>2, <3>1, <3>2 DEF ThreadOK
      <4>2. at[k] = "shut" => fd[cur[k]] \in Fds
        BY <3>1, <4>1 DEF ThreadOK, ConnInv, ConnOK
      <4>. QED
        BY <1>2, <1>6, <1>7, <2>2, <3>1, <4>1, <4>2 DEF ThreadOK
    <3>3. CASE at[k] \notin Handling
      BY <1>2, <2>2, <3>3 DEF ThreadOK, Handling, Labels, Closing
    <3>. QED
      BY <3>2, <3>3
  <2>. QED
    BY <2>1, <2>2
<1>14. ClosedOnceAndForAll'
  <2>1. \A d \in Conns : closes[d] > 0 => d # c
    BY <1>4
  <2>. QED
    BY <1>2, <1>6, <1>7, <1>4, <2>1, LifecycleAssumption DEF ClosedOnceAndForAll
<1>. QED
  BY <1>1, <1>10, <1>11, <1>12, <1>13, <1>14

(* m_socket->close() gives back a number that no loop watches any more.    *)
LEMMA CloseSocketInv ==
  ASSUME Inv, NEW l \in Loops, CloseSocket(l)
  PROVE  Inv'
<1>. USE DEF Inv
<1>. DEFINE c == cur[l]
            f == fd[c]
<1>1. TypeInv' /\ QueueInv' /\ BatchIsAlive' /\ TypeOK
  BY CloseCommon DEF OnClose, TypeInv
<1>2. /\ UNCHANGED <<fd, loopOf, batch, cur, ret, refused>>
      /\ c \in Conns /\ loopOf[c] = l /\ c \notin batch[l]
      /\ \A k \in Loops : k # l => at'[k] = at[k]
      /\ \A k \in Loops : k # l => (at[k] \in Handling => cur[k] # c)
  BY CloseFrame DEF OnClose
<1>3. ThreadOK(l) /\ ConnOK(c) /\ at[l] = "shut" /\ state[c] = "Disconnecting"
  BY <1>2 DEF CloseSocket, ThreadInv, ThreadOK, ConnInv
<1>4. /\ f \in Fds /\ owner[f] = c /\ interest[f] = {} /\ c # NoConn
      /\ life[c] = "alive"
  BY <1>2, <1>3, LifecycleAssumption DEF ConnOK, ThreadOK
<1>5. UNCHANGED <<life, state, channels, closes>>
  BY DEF CloseSocket, conn, history
<1>6. /\ at'[l] = "notify" /\ owner'[f] = NoConn
      /\ \A g \in Fds : g # f => owner'[g] = owner[g]
      /\ \A g \in Fds : interest'[g] = interest[g]
  BY <1>1, <1>4 DEF CloseSocket, Goto, TypeOK, KernelTypeOK, ThreadTypeOK
<1>. HIDE DEF c
<1>7. f = fd[c]
  OBVIOUS
<1>. HIDE DEF f
<1>8. \A k \in Loops : channels[k][f] = NoConn
  BY <1>4 DEF ChannelsAgreeWithKernel
<1>9. \A g \in Fds : owner[g] = c => g = f
  BY <1>4, <1>7 DEF OwnerInv
<1>10. OwnerInv'
  BY <1>2, <1>5, <1>6 DEF OwnerInv
<1>11. ChannelsAgreeWithKernel'
  BY <1>2, <1>5, <1>6, <1>8 DEF ChannelsAgreeWithKernel
<1>12. ConnInv'
  <2>. SUFFICES ASSUME NEW d \in Conns
                PROVE  ConnOK(d)'
    BY DEF ConnInv
  <2>1. ConnOK(d) /\ loopOf[d] \in Loops
    BY <1>1 DEF ConnInv, TypeOK, FixedTypeOK
  <2>2. CASE d = c
    BY <1>2, <1>3, <1>4, <1>5, <1>6, <2>1, <2>2 DEF ConnOK
  <2>3. CASE d # c
    <3>1. state[d] = "Disconnecting" \/ life[d] = "dropped" => loopOf[d] # l
      BY <1>3, <2>1, <2>3 DEF ConnOK, c
    <3>2. life[d] \in {"queued", "dropped"} => fd[d] # f
      BY <1>4, <2>1, <2>3 DEF ConnOK
    <3>. QED
      BY <1>2, <1>5, <1>6, <2>1, <2>3, <3>1, <3>2 DEF ConnOK
  <2>. QED
    BY <2>2, <2>3
<1>13. ThreadInv'
  <2>. SUFFICES ASSUME NEW k \in Loops
                PROVE  ThreadOK(k)'
    BY DEF ThreadInv
  <2>1. CASE k = l
    <3>1. cur[l] = c
      BY DEF c
    <3>2. \A g \in Fds : owner'[g] # c
      BY <1>4, <1>6, <1>9
    <3>. QED
      BY <1>2, <1>3, <1>4, <1>5, <1>6, <2>1, <3>1, <3>2 DEF ThreadOK, Closing
  <2>2. CASE k # l
    <3>1. ThreadOK(k)
      BY DEF ThreadInv
    <3>2. CASE at[k] \in Handling
      <4>1. cur[k] \in Conns /\ cur[k] # c /\ cur[k] # NoConn
        BY <1>2, <2>2, <3>1, <3>2, LifecycleAssumption DEF ThreadOK
      <4>2. at[k] = "shut" => fd[cur[k]] \in Fds /\ fd[cur[k]] # f
        BY <1>4, <3>1, <4>1 DEF ThreadOK, ConnInv, ConnOK
      <4>. QED
        BY <1>2, <1>5, <1>6, <2>2, <3>1, <4>1, <4>2 DEF ThreadOK
    <3>3. CASE at[k] \notin Handling
      BY <1>2, <2>2, <3>3 DEF ThreadOK, Handling, Labels, Closing
    <3>. QED
      BY <3>2, <3>3
  <2>. QED
    BY <2>1, <2>2
<1>14. ClosedOnceAndForAll'
  BY <1>5, <1>6, LifecycleAssumption DEF ClosedOnceAndForAll
<1>. QED
  BY <1>1, <1>10, <1>11, <1>12, <1>13, <1>14

(* The close callback runs for a connection that owns nothing any more.    *)
LEMMA CloseCallbackInv ==
  ASSUME Inv, NEW l \in Loops, CloseCallback(l)
  PROVE  Inv'
<1>. USE DEF Inv
<1>. DEFINE c == cur[l]
<1>1. TypeInv' /\ QueueInv' /\ BatchIsAlive' /\ TypeOK
  BY CloseCommon DEF OnClose, TypeInv
<1>2. /\ UNCHANGED <<fd, loopOf, batch, cur, ret, refused>>
      /\ c \in Conns /\ loopOf[c] = l /\ c \notin batch[l]
      /\ \A k \in Loops : k # l => at'[k] = at[k]
      /\ \A k \in Loops : k # l => (at[k] \in Handling => cur[k] # c)
      /\ \A d \in Conns : d # c =>
           life'[d] = life[d] /\ state'[d] = state[d] /\ closes'[d] = closes[d]
  BY CloseFrame DEF OnClose
<1>3. /\ ThreadOK(l) /\ ConnOK(c) /\ at[l] = "notify" /\ state[c] = "Disconnecting"
      /\ \A g \in Fds : owner[g] # c
  BY <1>2 DEF CloseCallback, ThreadInv, ThreadOK, ConnInv
<1>4. life[c] = "alive" /\ closes[c] = 0 /\ refused[c] = "no" /\ ret[l] \in Returns
  BY <1>2, <1>3 DEF ConnOK, ThreadOK, Closing
<1>5. UNCHANGED <<owner, interest, channels>>
  BY DEF CloseCallback, kernel
<1>6. /\ state'[c] = "Disconnected" /\ closes'[c] = 1 /\ life'[c] \in {"alive", "freed"}
      /\ at'[l] = ret[l]
  BY <1>1, <1>2, <1>4 DEF CloseCallback, Goto, TypeOK, ConnTypeOK, ThreadTypeOK, HistoryTypeOK
<1>7. cur[l] = c
  OBVIOUS
<1>. HIDE DEF c
<1>8. \A k \in Loops, g \in Fds : channels[k][g] # c
  BY <1>3, <1>2, LifecycleAssumption DEF ChannelsAgreeWithKernel
<1>9. \A g \in Fds : owner[g] # NoConn => owner[g] \in Conns
  BY <1>1 DEF TypeOK, KernelTypeOK
<1>10. OwnerInv'
  BY <1>2, <1>3, <1>5, <1>9 DEF OwnerInv
<1>11. ChannelsAgreeWithKernel'
  <2>1. \A k \in Loops, g \in Fds : channels[k][g] # NoConn => channels[k][g] \in Conns
    BY <1>1 DEF TypeOK, QueueTypeOK
  <2>. QED
    BY <1>2, <1>5, <1>8, <2>1 DEF ChannelsAgreeWithKernel
<1>12. ConnInv'
  <2>. SUFFICES ASSUME NEW d \in Conns
                PROVE  ConnOK(d)'
    BY DEF ConnInv
  <2>1. ConnOK(d) /\ loopOf[d] \in Loops
    BY <1>1 DEF ConnInv, TypeOK, FixedTypeOK
  <2>2. CASE d = c
    BY <1>2, <1>4, <1>6, <2>2 DEF ConnOK
  <2>3. CASE d # c
    <3>1. state[d] = "Disconnecting" \/ life[d] = "dropped" => loopOf[d] # l
      BY <1>3, <1>7, <2>1, <2>3 DEF ConnOK
    <3>. QED
      BY <1>2, <1>5, <2>1, <2>3, <3>1 DEF ConnOK
  <2>. QED
    BY <2>2, <2>3
<1>13. ThreadInv'
  <2>. SUFFICES ASSUME NEW k \in Loops
                PROVE  ThreadOK(k)'
    BY DEF ThreadInv
  <2>1. CASE k = l
    BY <1>2, <1>4, <1>6, <1>7, <2>1 DEF ThreadOK, Closing, Returns
  <2>2. CASE k # l
    <3>1. ThreadOK(k)
      BY DEF ThreadInv
    <3>2. CASE at[k] \in Handling
      <4>1. cur[k] \in Conns /\ cur[k] # c
        BY <1>2, <2>2, <3>1, <3>2 DEF ThreadOK
      <4>. QED
        BY <1>2, <1>5, <2>2, <3>1, <4>1 DEF ThreadOK
    <3>3. CASE at[k] \notin Handling
      BY <1>2, <2>2, <3>3 DEF ThreadOK, Handling, Labels, Closing
    <3>. QED
      BY <3>2, <3>3
  <2>. QED
    BY <2>1, <2>2
<1>14. ClosedOnceAndForAll'
  <2>. SUFFICES ASSUME NEW d \in Conns, closes'[d] > 0
                PROVE  /\ closes'[d] = 1 /\ state'[d] = "Disconnected"
                       /\ \A g \in Fds : owner[g] # d
                       /\ \A k \in Loops, g \in Fds : channels[k][g] # d
    BY <1>5 DEF ClosedOnceAndForAll
  <2>1. CASE d = c
    BY <1>3, <1>6, <1>8, <2>1
  <2>2. CASE d # c
    BY <1>2, <2>2 DEF ClosedOnceAndForAll
  <2>. QED
    BY <2>1, <2>2
<1>. QED
  BY <1>1, <1>10, <1>11, <1>12, <1>13, <1>14

LEMMA NextInv == Inv /\ [Next]_vars => Inv'
<1>. SUFFICES ASSUME Inv, [Next]_vars PROVE Inv'
  OBVIOUS
<1>1. ASSUME NEW c \in Conns, Peer(c) PROVE Inv'
  BY <1>1, PeerInv
<1>2. ASSUME NEW c \in Conns, onConnect(c) PROVE Inv'
  BY <1>2, ConnectInv
<1>3. ASSUME NEW l \in Loops, Iteration(l)
      PROVE  Inv'
  BY <1>3, IterationInv
<1>4. ASSUME NEW l \in Loops, SessionInit(l) \/ DropTask(l) PROVE Inv'
  BY <1>4, SessionInv, DropInv
<1>5. ASSUME NEW l \in Loops, HandleEvent(l) PROVE Inv'
  BY <1>5, HandlerInv
<1>6. ASSUME NEW l \in Loops, OnClose(l) PROVE Inv'
  BY <1>6, CloseDisableInv, CloseSocketInv, CloseCallbackInv DEF OnClose
<1>7. CASE UNCHANGED vars
  <2>1. TypeInv'
    BY <1>7 DEF vars, kernel, net, fixed, conn, queues, thread, history, Inv, TypeInv,
       TypeOK, KernelTypeOK, NetTypeOK, FixedTypeOK, ConnTypeOK, QueueTypeOK,
       ThreadTypeOK, HistoryTypeOK
  <2>2. UNCHANGED core
    BY <1>7 DEF vars, core, kernel, fixed, conn, queues, thread, history
  <2>. QED
    BY <2>1, <2>2, StutterInv
<1>. QED
  BY <1>1, <1>2, <1>3, <1>4, <1>5, <1>6, <1>7 DEF Next, LoopStep, Iteration

LEMMA Invariance == Spec => []Inv
<1>. QED
  BY InitInv, NextInv, PTL DEF Spec

(* Every variable keeps its type in every execution.                       *)
THEOREM LifecycleTypeCorrect == Spec => []TypeOK
<1>1. Inv => TypeOK
  BY DEF Inv, TypeInv
<1>. QED
  BY <1>1, Invariance, PTL

(* No loop ever has a channel for a descriptor that another connection or  *)
(* nobody owns, and the kernel watches exactly the descriptors with a      *)
(* channel: closing a connection leaves nothing behind that could reach,   *)
(* or lock out, the next owner of the number.                              *)
THEOREM LifecycleChannelsAgree == Spec => []ChannelsAgreeWithKernel
<1>1. Inv => ChannelsAgreeWithKernel
  BY DEF Inv
<1>. QED
  BY <1>1, Invariance, PTL

(* However many events, errors and failed writes ask for it, a connection  *)
(* is closed once, and it then holds no descriptor and no channel.         *)
THEOREM LifecycleClosedOnce == Spec => []ClosedOnceAndForAll
<1>1. Inv => ClosedOnceAndForAll
  BY DEF Inv
<1>. QED
  BY <1>1, Invariance, PTL

(* The raw channel pointers of m_activeChannels that are still to be       *)
(* handled belong to live connections of the loop.                         *)
THEOREM LifecycleBatchIsAlive == Spec => []BatchIsAlive
<1>1. Inv => BatchIsAlive
  BY DEF Inv
<1>. QED
  BY <1>1, Invariance, PTL

-----------------------------------------------------------------------------
(* Who frees a connection, and what a refused one leaves.                  *)

AboutToClose(c) == cur[loopOf[c]] = c /\ at[loopOf[c]] = "disable"

(***************************************************************************)
(* The handler of a connection whose session was removed: it is closed,    *)
(* and gone when the handler of the write returns; only the loop over its  *)
(* requests then goes on with it.                                          *)
(***************************************************************************)
HandlerOK(l) ==
  /\ refused[cur[l]] = "no"
  /\ at[l] = "undefined" => life[cur[l]] = "freed"
  /\ cur[l] \in SecondOwner /\ cause[cur[l]] = "removed" =>
       \/ at[l] \in Closing /\ ret[l] \in {"requests", "next"} /\ cur[l] \notin sessions[l]
       \/ at[l] \in {"requests", "undefined"} /\ ret[l] = "requests" /\ life[cur[l]] = "freed"

(***************************************************************************)
(* A connection is gone because its init() failed, or it was closed and    *)
(* had no second owner, or its session was removed; until then the session *)
(* is in its loop.                                                         *)
(***************************************************************************)
LivesInSession(c) ==
  /\ c \in SecondOwner /\ life[c] = "freed" => refused[c] # "no" \/ cause[c] = "removed"
  /\ c \in SecondOwner /\ life[c] = "alive" => cause[c] = "removed" \/ c \in sessions[loopOf[c]]
  /\ cause[c] = "removed" =>
       life[c] \in {"alive", "freed"} /\ (state[c] = "Connected" => AboutToClose(c))
  /\ \A l \in Loops : c \in sessions[l] => refused[c] = "no" /\ life[c] \in {"alive", "freed"}

FreedInv ==
  /\ \A c \in Conns : LivesInSession(c)
  /\ \A l \in Loops : at[l] \in Handling => HandlerOK(l)

(* What a step of a handler does to the thread, the cause and the session. *)
Handled(l) ==
  LET c == cur[l] IN
  \/ /\ UNCHANGED <<ret, cause, sessions>>
     /\ at[l] = "requests" /\ life[c] = "freed" => at'[l] = "undefined"
  \/ /\ state[c] = "Connected"
     /\ at'[l] = "disable"
     /\ \E why \in Causes, back \in Returns :
          /\ ret' = [ret EXCEPT ![l] = back]
          /\ cause' = [cause EXCEPT ![c] = why]
          /\ IF why = "removed"
             THEN back \in {"requests", "next"} /\ removeSession(l, c)
             ELSE UNCHANGED sessions

LEMMA CallCloseHandled ==
  ASSUME TypeInv, NEW l \in Loops, NEW why \in Causes, NEW back \in Returns,
         at[l] = "requests" => life[cur[l]] # "freed",
         why = "removed" => state[cur[l]] = "Connected" /\ back \in {"requests", "next"},
         state[cur[l]] # "Disconnecting", cur[l] \in Conns,
         CallClose(l, why, back),
         IF why = "removed" THEN removeSession(l, cur[l]) ELSE UNCHANGED sessions
  PROVE  Handled(l)
<1>1. state[cur[l]] \in {"Disconnected", "Connected"}
  BY DEF TypeInv, TypeOK, ConnTypeOK
<1>2. CASE state[cur[l]] = "Disconnected"
  BY <1>2 DEF CallClose, history, Handled
<1>3. CASE state[cur[l]] = "Connected"
  <2>1. /\ at' = [at EXCEPT ![l] = "disable"] /\ ret' = [ret EXCEPT ![l] = back]
        /\ cause' = [cause EXCEPT ![cur[l]] = why]
    BY <1>3 DEF CallClose, Goto
  <2>2. at'[l] = "disable"
    BY <2>1 DEF TypeInv, TypeOK, ThreadTypeOK
  <2>. QED
    BY <1>3, <2>1, <2>2 DEF Handled
<1>. QED
  BY <1>1, <1>2, <1>3

LEMMA WriteHandled ==
  ASSUME TypeInv, NEW l \in Loops, NEW have, NEW back \in {"requests", "next"},
         life[cur[l]] # "freed", state[cur[l]] # "Disconnecting", cur[l] \in Conns,
         onWrite(l, cur[l], have, back)
  PROVE  Handled(l)
<1>1. back \in Returns /\ "removed" \in Causes
  BY DEF Returns, Causes
<1>2. CASE Goto(l, back) /\ UNCHANGED <<ret, history, sessions>>
  BY <1>2 DEF history, Handled
<1>3. ASSUME NEW why \in Causes \ {"removed"}, CallClose(l, why, back), UNCHANGED sessions
      PROVE  Handled(l)
  BY <1>1, <1>3, CallCloseHandled
<1>4. CASE state[cur[l]] = "Connected" /\ removeSession(l, cur[l]) /\ CallClose(l, "removed", back)
  BY <1>1, <1>4, CallCloseHandled
<1>5. {"send error", "nothing to send", "would block"} \subseteq Causes \ {"removed"}
  BY DEF Causes
<1>. QED
  BY <1>2, <1>3, <1>4, <1>5 DEF onWrite

LEMMA HandlerHandled ==
  ASSUME Inv, NEW l \in Loops, HandleEvent(l)
  PROVE  Handled(l) /\ at[l] # "undefined"
<1>. USE DEF Inv
<1>0. at[l] # "undefined"
  BY DEF HandleEvent, EventClose, NoError, onError, ErrorCallback, NoRead, onRead,
         HandleRequest, RequestsDone, NoWrite, EventWrite, UseAfterFree, Step
<1>1. cur[l] \in Conns /\ state[cur[l]] # "Disconnecting"
  <2>1. at[l] \in Handling \ Closing
    BY HandlerStep
  <2>. QED
    BY <2>1 DEF ThreadInv, ThreadOK, ConnInv, ConnOK, Closing
<1>2. ASSUME NEW why \in Causes \ {"removed"}, NEW back \in Returns, CallClose(l, why, back),
             UNCHANGED sessions, at[l] # "requests"
      PROVE  Handled(l)
  BY <1>1, <1>2, CallCloseHandled
<1>3. ASSUME UNCHANGED <<ret, history, sessions>>, at[l] # "requests"
      PROVE  Handled(l)
  BY <1>3 DEF Handled, history
<1>4. {"hangup", "error", "peer closed"} \subseteq Causes \ {"removed"}
  BY DEF Causes
<1>5. ASSUME EventClose(l) PROVE Handled(l)
  <2>1. "err" \in Returns
    BY DEF Returns
  <2>. QED
    BY <1>2, <1>3, <1>4, <1>5, <2>1 DEF EventClose, Quiet, queues
<1>6. ASSUME NoError(l) \/ NoRead(l) \/ NoWrite(l) \/ ErrorCallback(l) PROVE Handled(l)
  BY <1>3, <1>6 DEF NoError, NoRead, NoWrite, ErrorCallback, Step, Quiet, queues
<1>7. ASSUME onError(l) PROVE Handled(l)
  <2>1. "errorCallback" \in Returns
    BY DEF Returns
  <2>. QED
    BY <1>2, <1>4, <1>7, <2>1 DEF onError, Quiet, queues
<1>8. ASSUME onRead(l) PROVE Handled(l)
  <2>1. {"readErrorCallback", "out"} \subseteq Returns
    BY DEF Returns
  <2>. QED
    BY <1>2, <1>3, <1>4, <1>8, <2>1 DEF onRead, queues
<1>9. ASSUME UseAfterFree(l) PROVE Handled(l)
  <2>1. at'[l] = "undefined"
    BY <1>9 DEF UseAfterFree, Goto, TypeInv, TypeOK, ThreadTypeOK
  <2>. QED
    BY <1>9, <2>1 DEF UseAfterFree, Quiet, queues, history, Handled
<1>10. ASSUME RequestsDone(l) PROVE Handled(l)
  BY <1>10 DEF RequestsDone, Step, Quiet, queues, history, Handled
<1>11. ASSUME HandleRequest(l) PROVE Handled(l)
  <2>1. onWrite(l, cur[l], wbuf[cur[l]] + ReplySize, "requests") /\ life[cur[l]] # "freed"
    BY <1>11 DEF HandleRequest
  <2>. QED
    BY <1>1, <2>1, WriteHandled
<1>12. ASSUME EventWrite(l) PROVE Handled(l)
  <2>1. onWrite(l, cur[l], wbuf[cur[l]], "next") /\ life[cur[l]] # "freed"
    BY <1>12 DEF EventWrite
  <2>. QED
    BY <1>1, <2>1, WriteHandled
<1>. QED
  BY <1>0, <1>5, <1>6, <1>7, <1>8, <1>9, <1>10, <1>11, <1>12 DEF HandleEvent

(* Steps that free nobody and let no handler go on.                        *)
LEMMA FreedFrame ==
  ASSUME Inv, FreedInv, UNCHANGED <<life, state, loopOf, cause, refused, sessions, ret>>,
         \A d \in Conns : AboutToClose(d) => AboutToClose(d)',
         \A k \in Loops : at'[k] \in Handling =>
           \/ at'[k] = at[k] /\ cur'[k] = cur[k]
           \/ /\ at'[k] # "undefined" /\ refused[cur'[k]] = "no"
              /\ cur'[k] \in SecondOwner => cause[cur'[k]] # "removed"
  PROVE  FreedInv'
<1>1. ASSUME NEW c \in Conns PROVE LivesInSession(c)'
  BY <1>1 DEF FreedInv, LivesInSession
<1>2. ASSUME NEW k \in Loops, at'[k] \in Handling PROVE HandlerOK(k)'
  <2>1. CASE at'[k] = at[k] /\ cur'[k] = cur[k]
    BY <1>2, <2>1 DEF FreedInv, HandlerOK
  <2>2. CASE /\ at'[k] # "undefined" /\ refused[cur'[k]] = "no"
             /\ cur'[k] \in SecondOwner => cause[cur'[k]] # "removed"
    BY <2>2 DEF HandlerOK
  <2>. QED
    BY <1>2, <2>1, <2>2
<1>. QED
  BY <1>1, <1>2 DEF FreedInv

LEMMA IterationFreed ==
  ASSUME Inv, FreedInv, NEW l \in Loops, Iteration(l)
  PROVE  FreedInv'
<1>. USE DEF Inv
<1>0. TypeOK
  BY DEF TypeInv
<1>1. UNCHANGED <<life, state, loopOf, cause, refused, sessions, ret>>
  BY DEF Iteration, poll, PollTimeout, NextChannel, DoTasks, TasksDone, fixed, conn, queues,
     history
<1>2. /\ at[l] \notin Handling
      /\ \A k \in Loops : k # l => at'[k] = at[k] /\ cur'[k] = cur[k]
      /\ at'[l] \in {"next", "hup", "tasks", "poll"}
      /\ at'[l] = "hup" => at[l] = "next" /\ cur'[l] \in batch[l]
  BY <1>0 DEF Iteration, poll, PollTimeout, NextChannel, DoTasks, TasksDone, Goto, Handling,
     TypeOK, ThreadTypeOK
<1>3. \A d \in Conns : AboutToClose(d) => AboutToClose(d)'
  BY <1>0, <1>1, <1>2 DEF AboutToClose, TypeOK, FixedTypeOK, Handling, Labels
<1>4. at'[l] \in Handling =>
        /\ at'[l] # "undefined" /\ refused[cur'[l]] = "no" /\ cause[cur'[l]] # "removed"
  <2>. SUFFICES ASSUME at'[l] \in Handling
                PROVE  /\ at'[l] # "undefined" /\ refused[cur'[l]] = "no"
                       /\ cause[cur'[l]] # "removed"
    OBVIOUS
  <2>1. at'[l] = "hup" /\ at[l] = "next"
    BY <1>2 DEF Handling
  <2>2. PICK d \in batch[l] : d = cur'[l] /\ d \in Conns
    BY <1>0, <1>2, <2>1 DEF TypeOK, ThreadTypeOK
  <2>3. life[d] = "alive" /\ loopOf[d] = l /\ state[d] = "Connected"
    BY DEF BatchIsAlive
  <2>4. refused[d] = "no"
    BY <2>2, <2>3 DEF ConnInv, ConnOK
  <2>5. cause[d] # "removed"
    BY <2>1, <2>2, <2>3 DEF FreedInv, LivesInSession, AboutToClose
  <2>. QED
    BY <2>1, <2>2, <2>4, <2>5
<1>. QED
  BY <1>1, <1>2, <1>3, <1>4, FreedFrame

LEMMA ConnectFreed ==
  ASSUME Inv, FreedInv, NEW c \in Conns, onConnect(c)
  PROVE  FreedInv'
<1>. USE DEF Inv
<1>0. TypeOK
  BY DEF TypeInv
<1>1. /\ UNCHANGED <<state, cause, refused, sessions, ret, at, cur>>
      /\ life[c] = "none" /\ life' = [life EXCEPT ![c] = "queued"]
      /\ \A d \in Conns : d # c => loopOf'[d] = loopOf[d]
  BY <1>0 DEF onConnect, thread, history, TypeOK, FixedTypeOK
<1>2. \A k \in Loops : at[k] \in Handling => cur[k] \in Conns /\ cur[k] # c
  BY <1>1 DEF ThreadInv, ThreadOK
<1>3. life'[c] = "queued" /\ \A d \in Conns : d # c => life'[d] = life[d]
  BY <1>0, <1>1 DEF TypeOK, ConnTypeOK
<1>4. ASSUME NEW d \in Conns PROVE LivesInSession(d)'
  <2>1. LivesInSession(d)
    BY DEF FreedInv
  <2>2. CASE d = c
    BY <1>1, <1>3, <2>1, <2>2 DEF LivesInSession
  <2>3. CASE d # c
    BY <1>1, <1>3, <2>1, <2>3 DEF LivesInSession, AboutToClose
  <2>. QED
    BY <2>2, <2>3
<1>5. ASSUME NEW k \in Loops, at'[k] \in Handling PROVE HandlerOK(k)'
  BY <1>1, <1>2, <1>3, <1>5 DEF FreedInv, HandlerOK
<1>. QED
  BY <1>4, <1>5 DEF FreedInv

(* The first connection in the list of tasks.                              *)
LEMMA HeadIsQueued ==
  ASSUME Inv, NEW l \in Loops, functions[l] # <<>>
  PROVE  /\ Head(functions[l]) \in Conns /\ life[Head(functions[l])] = "queued"
         /\ loopOf[Head(functions[l])] = l
<1>1. functions[l] \in Seq(Conns) /\ QueueOK(l)
  BY DEF Inv, TypeInv, TypeOK, QueueTypeOK, QueueInv
<1>2. 1 \in 1 .. Len(functions[l]) /\ Head(functions[l]) = functions[l][1]
      /\ Head(functions[l]) \in Conns
  BY <1>1
<1>. QED
  BY <1>1, <1>2 DEF QueueOK

(* The tasks: a session comes into the loop, or its connection is refused. *)
LEMMA TaskFreed ==
  ASSUME Inv, FreedInv, NEW l \in Loops, SessionInit(l) \/ DropTask(l)
  PROVE  FreedInv'
<1>. USE DEF Inv
<1>0. TypeOK
  BY DEF TypeInv
<1>1. UNCHANGED <<loopOf, cause, ret, at, cur>>
  BY DEF SessionInit, DropTask, fixed, thread, history
<1>2. PICK c \in Conns :
        /\ loopOf[c] = l /\ life[c] \in {"queued", "dropped"}
        /\ \/ InitSucceeds(l, c) /\ life[c] = "queued"
           \/ InitFails(l, c) /\ life[c] = "queued"
           \/ /\ life' = [life EXCEPT ![c] = "freed"] /\ life[c] = "dropped"
              /\ UNCHANGED <<state, refused, sessions>>
  BY HeadIsQueued DEF SessionInit, DropTask, Dropped, queues, history
<1>3. /\ \A d \in Conns : d # c =>
           life'[d] = life[d] /\ state'[d] = state[d] /\ refused'[d] = refused[d]
      /\ \A k \in Loops, d \in Conns : d # c => (d \in sessions'[k] <=> d \in sessions[k])
  <2>1. UNCHANGED sessions \/ sessions' = [sessions EXCEPT ![l] = @ \cup {c}]
    BY <1>2 DEF InitSucceeds, InitFails, Refuse
  <2>2. \A k \in Loops, d \in Conns : d # c => (d \in sessions'[k] <=> d \in sessions[k])
    BY <1>0, <2>1 DEF TypeOK, QueueTypeOK
  <2>3. \A d \in Conns : d # c =>
           life'[d] = life[d] /\ state'[d] = state[d] /\ refused'[d] = refused[d]
    BY <1>0, <1>2 DEF InitSucceeds, InitFails, Refuse, TypeOK, ConnTypeOK, HistoryTypeOK
  <2>. QED
    BY <2>2, <2>3
<1>4. \A k \in Loops : at[k] \in Handling => cur[k] \in Conns /\ cur[k] # c
  BY <1>2 DEF ThreadInv, ThreadOK
<1>5. cause[c] # "removed" /\ \A k \in Loops : c \notin sessions[k]
  BY <1>2 DEF FreedInv, LivesInSession
<1>6. LivesInSession(c)'
  <2>1. CASE InitSucceeds(l, c) /\ life[c] = "queued"
    <3>1. refused[c] = "no"
      BY <2>1 DEF ConnInv, ConnOK
    <3>2. life'[c] = "alive" /\ c \in sessions'[l] /\ refused'[c] = "no"
      BY <1>0, <2>1, <3>1 DEF InitSucceeds, TypeOK, ConnTypeOK, QueueTypeOK
    <3>. QED
      BY <1>1, <1>2, <1>5, <3>2 DEF LivesInSession
  <2>2. CASE InitFails(l, c)
    <3>1. life'[c] \in {"dropped", "freed"} /\ refused'[c] # "no" /\ UNCHANGED sessions
      BY <1>0, <2>2 DEF InitFails, Refuse, TypeOK, ConnTypeOK, HistoryTypeOK
    <3>. QED
      BY <1>1, <1>5, <3>1 DEF LivesInSession
  <2>3. CASE /\ life' = [life EXCEPT ![c] = "freed"] /\ life[c] = "dropped"
             /\ UNCHANGED <<state, refused, sessions>>
    <3>1. life'[c] = "freed" /\ refused'[c] # "no"
      BY <1>0, <2>3 DEF ConnInv, ConnOK, TypeOK, ConnTypeOK
    <3>. QED
      BY <1>1, <1>5, <2>3, <3>1 DEF LivesInSession
  <2>. QED
    BY <1>2, <2>1, <2>2, <2>3
<1>7. ASSUME NEW d \in Conns PROVE LivesInSession(d)'
  <2>1. LivesInSession(d) /\ loopOf[d] \in Loops
    BY <1>0 DEF FreedInv, TypeOK, FixedTypeOK
  <2>. QED
    BY <1>1, <1>3, <1>6, <2>1 DEF LivesInSession, AboutToClose
<1>8. ASSUME NEW k \in Loops, at'[k] \in Handling PROVE HandlerOK(k)'
  BY <1>1, <1>3, <1>4, <1>8 DEF FreedInv, HandlerOK
<1>. QED
  BY <1>7, <1>8 DEF FreedInv

LEMMA HandlerFreed ==
  ASSUME Inv, FreedInv, NEW l \in Loops, HandleEvent(l)
  PROVE  FreedInv'
<1>. USE DEF Inv
<1>0. TypeOK
  BY DEF TypeInv
<1>. DEFINE c == cur[l]
<1>1. /\ at[l] \in Handling /\ at[l] \notin Closing /\ Moves(l)
      /\ UNCHANGED <<life, loopOf, state, cur>>
  BY HandlerStep
<1>2. Handled(l) /\ at[l] # "undefined"
  BY HandlerHandled
<1>3. /\ UNCHANGED refused
      /\ \A k \in Loops : k # l => at'[k] = at[k] /\ ret'[k] = ret[k]
      /\ at'[l] = "undefined" => life[c] = "freed"
  BY <1>0, <1>1 DEF Moves, TypeOK, ThreadTypeOK, Returns
<1>4. /\ c \in Conns /\ loopOf[c] = l /\ HandlerOK(l)
      /\ \A k \in Loops : k # l => (at[k] \in Handling => cur[k] \in Conns /\ cur[k] # c)
  BY <1>1 DEF ThreadInv, ThreadOK, FreedInv
<1>5. \A d \in Conns : AboutToClose(d) => AboutToClose(d)' /\ loopOf[d] # l
  BY <1>0, <1>1, <1>3 DEF AboutToClose, Closing, TypeOK, FixedTypeOK
<1>6. CASE /\ UNCHANGED <<ret, cause, sessions>>
           /\ at[l] = "requests" /\ life[c] = "freed" => at'[l] = "undefined"
  <2>1. ASSUME NEW d \in Conns PROVE LivesInSession(d)'
    BY <1>1, <1>3, <1>5, <1>6 DEF FreedInv, LivesInSession
  <2>2. HandlerOK(l)'
    BY <1>1, <1>2, <1>3, <1>4, <1>6 DEF HandlerOK
  <2>3. ASSUME NEW k \in Loops, k # l, at'[k] \in Handling PROVE HandlerOK(k)'
    BY <1>1, <1>3, <1>6, <2>3 DEF FreedInv, HandlerOK
  <2>. QED
    BY <2>1, <2>2, <2>3 DEF FreedInv
<1>7. ASSUME state[c] = "Connected", at'[l] = "disable", NEW why \in Causes, NEW back \in Returns,
             ret' = [ret EXCEPT ![l] = back], cause' = [cause EXCEPT ![c] = why],
             IF why = "removed" THEN back \in {"requests", "next"} /\ removeSession(l, c)
                                ELSE UNCHANGED sessions
      PROVE  FreedInv'
  <2>1. /\ cause'[c] = why /\ \A d \in Conns : d # c => cause'[d] = cause[d]
        /\ ret'[l] = back
    BY <1>0, <1>4, <1>7 DEF TypeOK, ThreadTypeOK, HistoryTypeOK
  <2>2. /\ \A k \in Loops, d \in Conns : d # c => (d \in sessions'[k] <=> d \in sessions[k])
        /\ \A k \in Loops : c \in sessions'[k] => c \in sessions[k]
        /\ IF why = "removed" THEN c \notin sessions'[l]
                              ELSE c \in sessions[l] => c \in sessions'[l]
    BY <1>0, <1>7 DEF removeSession, TypeOK, QueueTypeOK
  <2>3. cause[c] # "removed" /\ life[c] = "alive" /\ refused[c] = "no"
    BY <1>4, <1>5, <1>7 DEF FreedInv, LivesInSession, ConnInv, ConnOK
  <2>4. AboutToClose(c)'
    BY <1>1, <1>4, <1>7 DEF AboutToClose
  <2>5. LivesInSession(c)
    BY <1>4 DEF FreedInv
  <2>6. LivesInSession(c)'
    BY <1>1, <1>3, <1>4, <2>1, <2>2, <2>3, <2>4, <2>5 DEF LivesInSession
  <2>. HIDE DEF c
  <2>7. ASSUME NEW d \in Conns, d # c PROVE LivesInSession(d)'
    <3>1. LivesInSession(d) /\ loopOf[d] \in Loops
      BY <1>0 DEF FreedInv, TypeOK, FixedTypeOK
    <3>. QED
      BY <1>1, <1>3, <1>5, <2>1, <2>2, <2>7, <3>1 DEF LivesInSession
  <2>8. HandlerOK(l)'
    <3>1. cur'[l] = c
      BY <1>1 DEF c
    <3>. QED
      BY <1>3, <1>7, <2>1, <2>2, <2>3, <3>1 DEF HandlerOK, Closing
  <2>9. ASSUME NEW k \in Loops, k # l, at'[k] \in Handling PROVE HandlerOK(k)'
    <3>1. cur[k] \in Conns /\ cur[k] # c /\ HandlerOK(k) /\ at'[k] = at[k] /\ ret'[k] = ret[k]
      BY <1>3, <1>4, <2>9 DEF FreedInv
    <3>2. cause'[cur[k]] = cause[cur[k]] /\ (cur[k] \in sessions'[k] <=> cur[k] \in sessions[k])
      BY <2>1, <2>2, <3>1
    <3>. QED
      BY <1>1, <1>3, <3>1, <3>2 DEF HandlerOK
  <2>. QED
    BY <1>1, <2>6, <2>7, <2>8, <2>9 DEF FreedInv, c
<1>. QED
  BY <1>2, <1>6, <1>7 DEF Handled

LEMMA CloseFreed ==
  ASSUME Inv, FreedInv, NEW l \in Loops, OnClose(l)
  PROVE  FreedInv'
<1>. USE DEF Inv
<1>0. TypeOK
  BY DEF TypeInv
<1>. DEFINE c == cur[l]
<1>1. /\ UNCHANGED <<cur, loopOf, ret, refused>> /\ c \in Conns /\ loopOf[c] = l
      /\ \A k \in Loops : k # l => at'[k] = at[k]
      /\ \A k \in Loops : k # l => (at[k] \in Handling => cur[k] # c)
      /\ \A d \in Conns : d # c => life'[d] = life[d] /\ state'[d] = state[d]
  BY CloseFrame
<1>2. UNCHANGED <<cause, sessions>>
  BY DEF OnClose, CloseDisable, CloseSocket, CloseCallback, history, queues
<1>3. at[l] \in Closing /\ at[l] \in Handling /\ HandlerOK(l) /\ ret[l] \in Returns
      /\ life[c] = "alive" /\ refused[c] = "no"
  <2>1. at[l] \in Closing /\ at[l] \in Handling
    BY DEF OnClose, CloseDisable, CloseSocket, CloseCallback, Closing, Handling, Labels
  <2>. QED
    BY <1>1, <2>1 DEF FreedInv, HandlerOK, ThreadInv, ThreadOK, ConnInv, ConnOK, Closing
<1>4. state'[c] # "Connected"
  <2>1. CASE CloseDisable(l)
    BY <1>0, <1>1, <2>1 DEF CloseDisable, TypeOK, ConnTypeOK
  <2>2. CASE CloseSocket(l)
    BY <2>2 DEF CloseSocket, conn, ThreadInv, ThreadOK
  <2>3. CASE CloseCallback(l)
    BY <1>0, <1>1, <2>3 DEF CloseCallback, TypeOK, ConnTypeOK
  <2>. QED
    BY <2>1, <2>2, <2>3 DEF OnClose
(* The thread goes on in onClose(), or returns when it is over.            *)
<1>5. \/ at'[l] \in {"shut", "notify"} /\ life'[c] = "alive"
      \/ /\ at'[l] = ret[l]
         /\ life'[c] = IF c \in SecondOwner /\ c \in sessions[l] THEN "alive" ELSE "freed"
  <2>1. CASE CloseDisable(l) \/ CloseSocket(l)
    BY <1>0, <1>3, <2>1 DEF CloseDisable, CloseSocket, conn, Goto, TypeOK, ThreadTypeOK
  <2>2. CASE CloseCallback(l)
    BY <1>0, <1>1, <1>3, <2>2 DEF CloseCallback, Goto, TypeOK, ThreadTypeOK, ConnTypeOK
  <2>. QED
    BY <2>1, <2>2 DEF OnClose
<1>6. LivesInSession(c)
  BY <1>1 DEF FreedInv
<1>7. LivesInSession(c)'
  BY <1>1, <1>2, <1>3, <1>4, <1>5, <1>6 DEF LivesInSession
<1>8. HandlerOK(l)' \/ at'[l] \notin Handling
  <2>1. CASE at'[l] \in {"shut", "notify"} /\ life'[c] = "alive"
    BY <1>1, <1>2, <1>3, <2>1 DEF HandlerOK, Closing
  <2>2. CASE /\ at'[l] = ret[l]
             /\ life'[c] = IF c \in SecondOwner /\ c \in sessions[l] THEN "alive" ELSE "freed"
    BY <1>1, <1>2, <1>3, <2>2 DEF HandlerOK, Closing, Returns, Handling
  <2>. QED
    BY <1>5, <2>1, <2>2
<1>. HIDE DEF c
<1>9. ASSUME NEW d \in Conns, d # c PROVE LivesInSession(d)'
  <2>1. LivesInSession(d) /\ loopOf[d] \in Loops
    BY <1>0 DEF FreedInv, TypeOK, FixedTypeOK
  <2>2. AboutToClose(d) => AboutToClose(d)'
    BY <1>1, <1>9, <2>1 DEF AboutToClose, c
  <2>. QED
    BY <1>1, <1>2, <1>9, <2>1, <2>2 DEF LivesInSession
<1>10. ASSUME NEW k \in Loops, k # l, at'[k] \in Handling PROVE HandlerOK(k)'
  <2>1. cur[k] \in Conns /\ cur[k] # c /\ HandlerOK(k) /\ at'[k] = at[k]
    BY <1>1, <1>10 DEF FreedInv, ThreadInv, ThreadOK
  <2>. QED
    BY <1>1, <1>2, <2>1 DEF HandlerOK
<1>. QED
  BY <1>1, <1>7, <1>8, <1>9, <1>10 DEF FreedInv, c

LEMMA FreedStep ==
  ASSUME Inv, FreedInv, [Next]_vars
  PROVE  FreedInv'
<1>1. CASE UNCHANGED <<life, state, loopOf, cause, refused, sessions, ret, at, cur>>
  BY <1>1 DEF FreedInv, LivesInSession, HandlerOK, AboutToClose
<1>2. CASE (\E c \in Conns : Peer(c)) \/ UNCHANGED vars
  BY <1>1, <1>2 DEF Peer, PeerSends, PeerCloses, PeerResets, PeerReads, vars, fixed, conn,
     queues, thread, history
<1>. QED
  BY <1>2, ConnectFreed, IterationFreed, TaskFreed, HandlerFreed, CloseFreed
     DEF Next, LoopStep, Iteration

LEMMA FreedInvariance == Spec => [](Inv /\ FreedInv)
<1>1. Init => FreedInv
  BY DEF Init, FreedInv, LivesInSession, Handling
<1>2. Inv /\ FreedInv /\ [Next]_vars => FreedInv'
  BY FreedStep
<1>. QED
  BY Invariance, <1>1, <1>2, PTL DEF Spec

(***************************************************************************)
(* Whatever the events, no accepted socket is turned away because of an    *)
(* entry its predecessor on the number left in the loop, and one that the  *)
(* kernel refuses leaves no entry, no session and, when the tasks of its   *)
(* loop are done, no open descriptor (HttpSession.cpp:17-25).              *)
(***************************************************************************)
THEOREM LifecycleRefusedLeavesNothing == Spec => []RefusedLeavesNothing
<1>1. Inv /\ FreedInv => RefusedLeavesNothing
  <2>. SUFFICES ASSUME Inv, FreedInv, NEW c \in Conns, refused[c] # "no"
                PROVE  /\ refused[c] = "kernel" /\ AddMayFail
                       /\ state[c] = "Disconnected" /\ c \notin sessions[loopOf[c]]
                       /\ \A l \in Loops, f \in Fds : channels[l][f] # c
                       /\ at[loopOf[c]] # "tasks" => \A f \in Fds : owner[f] # c
    BY DEF RefusedLeavesNothing
  <2>1. ConnOK(c) /\ c # NoConn /\ loopOf[c] \in Loops
        /\ state[c] \in {"Disconnected", "Connected", "Disconnecting"}
    BY LifecycleAssumption DEF Inv, TypeInv, TypeOK, ConnTypeOK, FixedTypeOK, ConnInv
  <2>2. refused[c] = "kernel" /\ AddMayFail /\ state[c] = "Disconnected"
    BY <2>1 DEF ConnOK
  <2>3. c \notin sessions[loopOf[c]]
    BY <2>1 DEF FreedInv, LivesInSession
  <2>4. \A l \in Loops, f \in Fds : channels[l][f] # c
    BY <2>1, <2>2 DEF Inv, ChannelsAgreeWithKernel
  <2>5. at[loopOf[c]] # "tasks" => \A f \in Fds : owner[f] # c
    BY <2>1 DEF Inv, OwnerInv, ConnOK
  <2>. QED
    BY <2>2, <2>3, <2>4, <2>5
<1>. QED
  BY FreedInvariance, <1>1, PTL

(***************************************************************************)
(* Whatever the events, a served connection of an HttpSession is freed by  *)
(* no close but that of its removed session, and a handler then goes on    *)
(* with it only in the loop over the requests (HttpSession.cpp:43-54).     *)
(***************************************************************************)
THEOREM LifecycleOnlyRemovalFrees == Spec => []OnlyRemovalFreesSecondOwner
<1>1. Inv /\ FreedInv => OnlyRemovalFreesSecondOwner
  <2>. SUFFICES ASSUME Inv, FreedInv PROVE OnlyRemovalFreesSecondOwner
    OBVIOUS
  <2>1. \A c \in SecondOwner : life[c] = "freed" => refused[c] # "no" \/ cause[c] = "removed"
    BY LifecycleAssumption DEF FreedInv, LivesInSession
  <2>2. ASSUME NEW l \in Loops, at[l] = "undefined", cur[l] \in SecondOwner
        PROVE  ret[l] = "requests"
    <3>1. at[l] \in Handling /\ HandlerOK(l)
      BY <2>2 DEF FreedInv, Handling, Labels
    <3>2. cause[cur[l]] = "removed"
      BY <2>1, <2>2, <3>1 DEF HandlerOK
    <3>. QED
      BY <2>2, <3>1, <3>2 DEF HandlerOK, Closing
  <2>. QED
    BY <2>1, <2>2 DEF OnlyRemovalFreesSecondOwner
<1>. QED
  BY FreedInvariance, <1>1, PTL

-----------------------------------------------------------------------------
(* What a connection still has to send, and what its loop watches for.     *)

(***************************************************************************)
(* The channel's record is what the kernel watches; unless onClose() has   *)
(* been called, EPOLLOUT is asked for exactly while there is output, inside*)
(* the handlers too.                                                       *)
(***************************************************************************)
Watching(c) ==
  /\ state[c] = "Connected" => interest[fd[c]] = target[c]
  /\ state[c] = "Connected" /\ ~AboutToClose(c) => (wbuf[c] > 0 <=> "OUT" \in target[c])
  /\ life[c] \in {"none", "queued"} => wbuf[c] = 0

WatchInv == \A c \in Conns : Watching(c)

(* A connected connection can change its entry, and no other has it.       *)
LEMMA OwnEntry ==
  ASSUME Inv, NEW c \in Conns, state[c] = "Connected"
  PROVE  /\ fd[c] \in Fds /\ loopOf[c] \in Loops /\ owner[fd[c]] = c
         /\ CanChange(loopOf[c], c)
<1>. USE DEF Inv
<1>1. fd[c] \in Fds /\ loopOf[c] \in Loops /\ channels[loopOf[c]][fd[c]] = c /\ c # NoConn
  BY LifecycleAssumption DEF ConnInv, ConnOK, TypeInv, TypeOK, FixedTypeOK
<1>2. owner[fd[c]] = c /\ interest[fd[c]] # {}
  BY <1>1 DEF ChannelsAgreeWithKernel
<1>. QED
  BY <1>1, <1>2 DEF CanChange

LEMMA WatchFrame ==
  ASSUME NEW d \in Conns, Watching(d),
         UNCHANGED <<state[d], fd[d], loopOf[d], target[d], wbuf[d]>>,
         life'[d] \in {"none", "queued"} => life[d] \in {"none", "queued"},
         state[d] = "Connected" => interest'[fd[d]] = interest[fd[d]],
         AboutToClose(d) => AboutToClose(d)'
  PROVE  Watching(d)'
BY DEF Watching

LEMMA ConnectWatch ==
  ASSUME Inv, WatchInv, NEW c \in Conns, onConnect(c)
  PROVE  WatchInv'
<1>. USE DEF Inv, TypeInv, TypeOK
<1>1. /\ UNCHANGED <<interest, state, target, wbuf, cur, at>>
      /\ life[c] = "none" /\ life' = [life EXCEPT ![c] = "queued"]
      /\ \A d \in Conns : d # c => fd'[d] = fd[d] /\ loopOf'[d] = loopOf[d]
  BY DEF onConnect, thread, FixedTypeOK
<1>2. state[c] # "Connected"
  BY <1>1 DEF ConnInv, ConnOK
<1>3. ASSUME NEW d \in Conns, d # c PROVE Watching(d)'
  BY <1>1, <1>3, WatchFrame DEF WatchInv, ConnTypeOK, AboutToClose
<1>4. Watching(c)'
  BY <1>1, <1>2 DEF WatchInv, Watching
<1>. QED
  BY <1>3, <1>4 DEF WatchInv

LEMMA SessionWatch ==
  ASSUME Inv, WatchInv, NEW l \in Loops, SessionInit(l)
  PROVE  WatchInv'
<1>. USE DEF Inv, TypeInv, TypeOK
<1>1. PICK c \in Conns : life[c] = "queued" /\ (InitSucceeds(l, c) \/ InitFails(l, c))
  <2>1. functions[l] \in Seq(Conns) /\ functions[l] # <<>> /\ QueueOK(l)
    BY DEF SessionInit, QueueTypeOK, QueueInv
  <2>2. 1 \in 1 .. Len(functions[l]) /\ Head(functions[l]) = functions[l][1]
        /\ Head(functions[l]) \in Conns
    BY <2>1
  <2>. QED
    BY <2>1, <2>2 DEF QueueOK, SessionInit
<1>2. /\ UNCHANGED <<fd, loopOf, wbuf, cur, at>>
      /\ InitSucceeds(l, c) \/ InitFails(l, c)
  BY <1>1 DEF SessionInit, fixed, thread
<1>3. /\ fd[c] \in Fds /\ owner[fd[c]] = c /\ state[c] # "Connected" /\ wbuf[c] = 0
  BY <1>1 DEF ConnInv, ConnOK, WatchInv, Watching
<1>4. ASSUME NEW d \in Conns, d # c PROVE Watching(d)'
  <2>1. state[d] = "Connected" => fd[d] # fd[c]
    BY <1>3, <1>4, OwnEntry
  <2>2. /\ UNCHANGED <<state[d], target[d], life[d]>>
        /\ state[d] = "Connected" => interest'[fd[d]] = interest[fd[d]]
    BY <1>2, <1>4, <2>1, OwnEntry DEF InitSucceeds, InitFails, Refuse, ConnTypeOK, KernelTypeOK
  <2>. QED
    BY <1>2, <2>2, WatchFrame DEF WatchInv, AboutToClose
<1>5. Watching(c)'
  <2>1. CASE InitSucceeds(l, c)
    <3>1. /\ interest'[fd[c]] = {"IN"} /\ target'[c] = {"IN"} /\ life'[c] = "alive"
      BY <1>1, <1>3, <2>1 DEF InitSucceeds, KernelTypeOK, ConnTypeOK
    <3>2. "OUT" \notin {"IN"}
      OBVIOUS
    <3>. QED
      BY <1>2, <1>3, <3>1, <3>2 DEF Watching
  <2>2. CASE InitFails(l, c)
    <3>1. life'[c] \in {"dropped", "freed"} /\ state'[c] # "Connected"
      BY <1>1, <1>3, <2>2 DEF InitFails, Refuse, ConnTypeOK
    <3>. QED
      BY <3>1 DEF Watching
  <2>. QED
    BY <1>2, <2>1, <2>2
<1>. QED
  BY <1>4, <1>5 DEF WatchInv

(* The write itself, for the connection whose handler runs.                *)
LEMMA WriteWatch ==
  ASSUME Inv, WatchInv, NEW l \in Loops, NEW c \in Conns, c = cur[l], at[l] \in Handling \ Closing,
         NEW have \in Nat, NEW back, onWrite(l, c, have, back),
         UNCHANGED <<state, life, fd, loopOf, cur>>
  PROVE  Watching(c)'
<1>. USE DEF Inv, TypeInv, TypeOK
<1>1. loopOf[c] = l /\ life[c] \in {"alive", "freed"}
  BY DEF ThreadInv, ThreadOK
<1>2. ~AboutToClose(c)
  BY <1>1 DEF AboutToClose, Closing
<1>3. CASE state[c] # "Connected"
  BY <1>1, <1>3 DEF Watching
<1>a. ASSUME state[c] = "Connected", NEW why, CallClose(l, why, back) PROVE AboutToClose(c)'
  BY <1>1, <1>a DEF CallClose, Goto, AboutToClose, ThreadTypeOK
<1>4. CASE state[c] = "Connected" /\ \E why : CallClose(l, why, back) /\ UNCHANGED <<interest, target>>
  BY <1>1, <1>4, <1>a DEF WatchInv, Watching
<1>5. ASSUME state[c] = "Connected", NEW n \in 1 .. Room, Flushed(l, c, n, have)
      PROVE  Watching(c)'
  <2>1. CanChange(l, c) /\ fd[c] \in Fds /\ interest[fd[c]] = target[c]
    BY <1>1, <1>5, OwnEntry DEF WatchInv, Watching
  <2>2. n \in 1 .. have /\ wbuf'[c] = have - n
    BY <1>5 DEF Flushed, ConnTypeOK
  <2>3. CASE n = have
    <3>1. "OUT" \notin target'[c] /\ interest'[fd[c]] = target'[c]
      <4>1. disableWriting(l, c)
        BY <1>5, <2>3 DEF Flushed
      <4>2. CASE "OUT" \notin target[c]
        BY <2>1, <4>1, <4>2 DEF disableWriting
      <4>3. CASE "OUT" \in target[c]
        <5>1. /\ interest' = [interest EXCEPT ![fd[c]] = {"IN"}]
              /\ target' = [target EXCEPT ![c] = {"IN"}]
          BY <2>1, <4>1, <4>3 DEF disableWriting, setTargetEvent
        <5>2. interest'[fd[c]] = {"IN"} /\ target'[c] = {"IN"}
          BY <2>1, <5>1 DEF ConnTypeOK, KernelTypeOK
        <5>. QED
          BY <5>2
      <4>. QED
        BY <4>2, <4>3
    <3>. QED
      BY <1>1, <2>2, <2>3, <3>1 DEF Watching
  <2>4. CASE n # have
    <3>1. "OUT" \in target'[c] /\ interest'[fd[c]] = target'[c]
      <4>1. enableWriting(l, c)
        BY <1>5, <2>4 DEF Flushed
      <4>2. CASE "OUT" \in target[c]
        BY <2>1, <4>1, <4>2 DEF enableWriting
      <4>3. CASE "OUT" \notin target[c]
        <5>. DEFINE more == target[c] \cup {"OUT"}
        <5>1. /\ interest' = [interest EXCEPT ![fd[c]] = more]
              /\ target' = [target EXCEPT ![c] = more]
          BY <2>1, <4>1, <4>3 DEF enableWriting, setTargetEvent
        <5>2. interest'[fd[c]] = more /\ target'[c] = more
          BY <2>1, <5>1 DEF ConnTypeOK, KernelTypeOK
        <5>. QED
          BY <5>2
      <4>. QED
        BY <4>2, <4>3
    <3>. QED
      BY <1>1, <2>2, <2>4, <3>1, LifecycleAssumption DEF Watching
  <2>. QED
    BY <2>3, <2>4
<1>. QED
  BY <1>3, <1>4, <1>5 DEF onWrite

LEMMA HandlerWatch ==
  ASSUME Inv, WatchInv, NEW l \in Loops, HandleEvent(l)
  PROVE  WatchInv'
<1>. USE DEF Inv, TypeInv, TypeOK
<1>1. /\ at[l] \in Handling \ Closing
      /\ UNCHANGED <<owner, life, fd, loopOf, state, cur>>
      /\ \A k \in Loops : k # l => at'[k] = at[k]
  BY HandlerStep DEF Moves, ThreadTypeOK
<1>2. PICK c \in Conns : loopOf[c] = l /\ c = cur[l]
  BY <1>1 DEF ThreadInv, ThreadOK
<1>3. \A d \in Conns : ~(d = c /\ AboutToClose(d)) /\ (d # c /\ AboutToClose(d) => AboutToClose(d)')
  BY <1>1, <1>2 DEF AboutToClose, Closing, FixedTypeOK
<1>4. CASE UNCHANGED <<interest, target, wbuf>>
  BY <1>1, <1>3, <1>4, WatchFrame DEF WatchInv
<1>5. ASSUME NEW have \in Nat, NEW back, onWrite(l, c, have, back)
      PROVE  WatchInv'
  <2>1. Watching(c)'
    BY <1>1, <1>2, <1>5, WriteWatch
  <2>2. /\ wbuf' = [wbuf EXCEPT ![c] = wbuf'[c]] /\ target' = [target EXCEPT ![c] = target'[c]]
        /\ \/ interest' = interest
           \/ owner[fd[c]] = c /\ interest' = [interest EXCEPT ![fd[c]] = interest'[fd[c]]]
    <3>1. PICK w \in {have, wbuf'[c]} : wbuf' = [wbuf EXCEPT ![c] = w]
      BY <1>2, <1>5 DEF onWrite, Flushed, ConnTypeOK
    <3>2. \/ UNCHANGED <<interest, target>>
          \/ \E events : setTargetEvent(l, c, events)
      BY <1>5 DEF onWrite, Flushed, enableWriting, disableWriting
    <3>. QED
      BY <1>2, <3>1, <3>2 DEF setTargetEvent, CanChange, ConnTypeOK, KernelTypeOK
  <2>3. ASSUME NEW d \in Conns, d # c PROVE Watching(d)'
    <3>1. state[d] = "Connected" => fd[d] \in Fds /\ owner[fd[d]] = d
      BY OwnEntry
    <3>2. UNCHANGED <<wbuf[d], target[d]>> /\ (state[d] = "Connected" => interest'[fd[d]] = interest[fd[d]])
      BY <2>2, <2>3, <3>1 DEF ConnTypeOK, KernelTypeOK
    <3>. QED
      BY <1>1, <1>3, <2>3, <3>2, WatchFrame DEF WatchInv
  <2>. QED
    BY <2>1, <2>3 DEF WatchInv
<1>6. CASE EventClose(l) \/ NoError(l) \/ onError(l) \/ ErrorCallback(l) \/ NoRead(l)
           \/ onRead(l) \/ RequestsDone(l) \/ NoWrite(l) \/ UseAfterFree(l)
  <2>1. UNCHANGED <<interest, target, wbuf>>
    BY <1>6 DEF EventClose, NoError, onError, ErrorCallback, NoRead, onRead, RequestsDone,
       NoWrite, UseAfterFree, Step, Quiet, kernel, conn
  <2>. QED
    BY <1>4, <2>1
<1>7. CASE HandleRequest(l) \/ EventWrite(l)
  <2>1. wbuf[c] \in Nat /\ wbuf[c] + ReplySize \in Nat
    BY <1>2, LifecycleAssumption DEF ConnTypeOK
  <2>. QED
    BY <1>2, <1>5, <1>7, <2>1 DEF HandleRequest, EventWrite
<1>. QED
  BY <1>6, <1>7 DEF HandleEvent

LEMMA CloseWatch ==
  ASSUME Inv, WatchInv, NEW l \in Loops, OnClose(l)
  PROVE  WatchInv'
<1>. USE DEF Inv, TypeInv, TypeOK
<1>1. PICK c \in Conns :
      /\ c = cur[l] /\ UNCHANGED <<fd, loopOf, cur>> /\ loopOf[c] = l
      /\ \A k \in Loops : k # l => at'[k] = at[k]
      /\ \A d \in Conns : d # c => life'[d] = life[d] /\ state'[d] = state[d]
  BY CloseFrame
<1>2. UNCHANGED <<target, wbuf>>
  BY DEF OnClose, CloseDisable, CloseSocket, CloseCallback, conn
<1>3. state'[c] # "Connected" /\ (life'[c] \in {"alive", "freed"})
  <2>1. life[c] \in {"alive", "freed"}
    BY <1>1 DEF OnClose, CloseDisable, CloseSocket, CloseCallback, ThreadInv, ThreadOK, Handling,
       Labels
  <2>2. CASE CloseDisable(l)
    BY <1>1, <2>1, <2>2 DEF CloseDisable, ConnTypeOK
  <2>3. CASE CloseSocket(l)
    BY <1>1, <2>1, <2>3 DEF CloseSocket, conn, ThreadInv, ThreadOK
  <2>4. CASE CloseCallback(l)
    BY <1>1, <2>1, <2>4 DEF CloseCallback, ConnTypeOK
  <2>. QED
    BY <2>2, <2>3, <2>4 DEF OnClose
<1>4. \/ interest' = interest
      \/ owner[fd[c]] = c /\ interest' = [interest EXCEPT ![fd[c]] = {}]
  BY <1>1 DEF OnClose, CloseDisable, CloseSocket, CloseCallback, kernel, CanChange, ThreadInv,
     ThreadOK
<1>5. ASSUME NEW d \in Conns, d # c PROVE Watching(d)'
  <2>1. state[d] = "Connected" => fd[d] \in Fds /\ owner[fd[d]] = d
    BY OwnEntry
  <2>2. state[d] = "Connected" => interest'[fd[d]] = interest[fd[d]]
    BY <1>4, <1>5, <2>1 DEF KernelTypeOK
  <2>3. AboutToClose(d) => AboutToClose(d)'
    BY <1>1, <1>5 DEF AboutToClose, FixedTypeOK
  <2>. QED
    BY <1>1, <1>2, <1>5, <2>2, <2>3, WatchFrame DEF WatchInv
<1>6. Watching(c)'
  BY <1>3 DEF Watching
<1>. QED
  BY <1>5, <1>6 DEF WatchInv

(* A dropped connection was never watched.                                 *)
LEMMA DropWatch ==
  ASSUME Inv, WatchInv, NEW l \in Loops, DropTask(l)
  PROVE  WatchInv'
<1>1. PICK c \in Conns : life' = [life EXCEPT ![c] = "freed"]
  BY DEF DropTask, Dropped
<1>2. UNCHANGED <<interest, state, fd, loopOf, target, wbuf, cur, at>>
  BY DEF DropTask, fixed, thread
<1>3. \A d \in Conns : life'[d] \in {"none", "queued"} => life[d] \in {"none", "queued"}
  BY <1>1 DEF Inv, TypeInv, TypeOK, ConnTypeOK
<1>. QED
  BY <1>2, <1>3, WatchFrame DEF WatchInv, AboutToClose

LEMMA WatchStep ==
  ASSUME Inv, WatchInv, [Next]_vars
  PROVE  WatchInv'
<1>1. ASSUME UNCHANGED <<interest, life, state, fd, loopOf, target, wbuf>>,
             \A d \in Conns : AboutToClose(d) => AboutToClose(d)'
      PROVE  WatchInv'
  BY <1>1, WatchFrame DEF WatchInv
<1>2. CASE (\E c \in Conns : Peer(c)) \/ UNCHANGED vars
  <2>1. UNCHANGED <<interest, life, state, fd, loopOf, target, wbuf, cur, at>>
    BY <1>2 DEF Peer, PeerSends, PeerCloses, PeerResets, PeerReads, vars, kernel, fixed, conn, thread
  <2>. QED
    BY <1>1, <2>1 DEF AboutToClose
<1>3. ASSUME NEW l \in Loops, Iteration(l)
      PROVE  WatchInv'
  <2>1. /\ UNCHANGED <<interest, life, state, fd, loopOf, target, wbuf>>
        /\ at[l] # "disable" /\ \A k \in Loops : k # l => at'[k] = at[k] /\ cur'[k] = cur[k]
    BY <1>3 DEF Iteration, poll, PollTimeout, NextChannel, DoTasks, TasksDone, Goto, kernel, fixed, conn, Inv, TypeInv,
       TypeOK, ThreadTypeOK
  <2>. QED
    BY <1>1, <2>1 DEF AboutToClose, Inv, TypeInv, TypeOK, FixedTypeOK
<1>. QED
  BY <1>2, <1>3, ConnectWatch, SessionWatch, DropWatch, HandlerWatch, CloseWatch
     DEF Next, LoopStep, Iteration

(***************************************************************************)
(* TcpConnection::onWrite and send keep EPOLLOUT and m_writeBuffer in step *)
(* (TcpConnection.cpp:101-109): outside its handlers a connection with     *)
(* output is watched for room to write, one without is not.                *)
(***************************************************************************)
THEOREM LifecyclePendingOutputWatched == Spec => []PendingOutputWatched
<1>1. Init => WatchInv
  BY DEF Init, WatchInv, Watching
<1>2. Inv /\ WatchInv /\ [Next]_vars => WatchInv'
  BY WatchStep
<1>3. Inv /\ WatchInv => PendingOutputWatched
  <2>. SUFFICES ASSUME Inv, WatchInv PROVE PendingOutputWatched
    OBVIOUS
  <2>1. \A c \in Conns : AboutToClose(c) => InHandler(c)
    BY DEF AboutToClose, InHandler, Inv, TypeInv, TypeOK, FixedTypeOK
  <2>. QED
    BY <2>1 DEF WatchInv, Watching, PendingOutputWatched, TargetIsInterest
<1>. QED
  BY Invariance, <1>1, <1>2, <1>3, PTL DEF Spec

-----------------------------------------------------------------------------
(* The refinement: what the network layers do with descriptor numbers is   *)
(* what DescriptorRegistry promises.                                       *)

(* In a reachable state the watch of the registry is read off the kernel.  *)
LEMMA WatchIsInterest ==
  ASSUME ChannelsAgreeWithKernel, NEW f \in Fds
  PROVE  WatchOf(f) = IF interest[f] # {} THEN owner[f] ELSE NoConn
BY DEF ChannelsAgreeWithKernel, WatchOf

Watched == [f \in Fds |-> IF interest[f] # {} THEN owner[f] ELSE NoConn]

Past == {c \in Conns : life[c] # "none"}

LEMMA WatchedIsWatch ==
  ASSUME ChannelsAgreeWithKernel
  PROVE  [f \in Fds |-> WatchOf(f)] = Watched
BY WatchIsInterest DEF Watched

(* The registry's step, stated about the kernel's own variables.           *)
MappedStep ==
  \/ \E f \in Fds, c \in Conns :
       /\ owner[f] = NoConn /\ c \notin Past
       /\ owner' = [owner EXCEPT ![f] = c] /\ Past' = Past \cup {c} /\ Watched' = Watched
  \/ \E f \in Fds :
       /\ owner[f] # NoConn /\ Watched[f] = NoConn
       /\ Watched' = [Watched EXCEPT ![f] = owner[f]] /\ owner' = owner /\ Past' = Past
  \/ \E f \in Fds :
       /\ Watched[f] # NoConn
       /\ Watched' = [Watched EXCEPT ![f] = NoConn] /\ owner' = owner /\ Past' = Past
  \/ \E f \in Fds :
       /\ owner[f] # NoConn /\ Watched[f] = NoConn
       /\ owner' = [owner EXCEPT ![f] = NoConn] /\ Watched' = Watched /\ Past' = Past
  \/ owner' = owner /\ Watched' = Watched /\ Past' = Past

LEMMA MappedStepIsRegistryStep ==
  ASSUME ChannelsAgreeWithKernel, ChannelsAgreeWithKernel', MappedStep
  PROVE  [Registry!RegistryNext]_(Registry!registryVars)
<1>1. [f \in Fds |-> WatchOf(f)] = Watched
  BY WatchedIsWatch
<1>2. [f \in Fds |-> WatchOf(f)]' = Watched'
  BY DEF ChannelsAgreeWithKernel, WatchOf, Watched
<1>. QED
  BY <1>1, <1>2 DEF MappedStep, Past, Registry!RegistryNext, Registry!registryVars,
     Registry!Open, Registry!Watch, Registry!Unwatch, Registry!Release

LEMMA Mapped == Inv /\ [Next]_vars => MappedStep
<1>. SUFFICES ASSUME Inv, [Next]_vars PROVE MappedStep
  OBVIOUS
<1>. USE DEF Inv
<1>0. TypeOK /\ KernelTypeOK /\ ConnTypeOK
  BY DEF TypeInv, TypeOK
<1>1. ASSUME UNCHANGED <<owner, interest, life>> PROVE MappedStep
  BY <1>1 DEF MappedStep, Watched, Past
<1>2. ASSUME NEW c \in Conns, Peer(c) PROVE MappedStep
  BY <1>1, <1>2 DEF Peer, PeerSends, PeerCloses, PeerResets, PeerReads, kernel, conn
<1>3. ASSUME NEW c \in Conns, onConnect(c) PROVE MappedStep
  <2>1. PICK f \in Fds : owner[f] = NoConn /\ owner' = [owner EXCEPT ![f] = c]
    BY <1>3 DEF onConnect
  <2>2. life[c] = "none" /\ life' = [life EXCEPT ![c] = "queued"] /\ UNCHANGED interest
    BY <1>3 DEF onConnect
  <2>3. interest[f] = {}
    BY <2>1, LifecycleAssumption, <1>0 DEF ChannelsAgreeWithKernel, QueueTypeOK, TypeOK
  <2>4. Watched' = Watched
    BY <1>0, <2>1, <2>2, <2>3 DEF Watched, KernelTypeOK
  <2>5. Past' = Past \cup {c} /\ c \notin Past
    BY <1>0, <2>2 DEF Past, ConnTypeOK
  <2>. QED
    BY <2>1, <2>4, <2>5 DEF MappedStep
<1>4. ASSUME NEW l \in Loops, Iteration(l)
      PROVE  MappedStep
  BY <1>1, <1>4 DEF Iteration, poll, PollTimeout, NextChannel, DoTasks, TasksDone, kernel, conn
(* The tasks move the descriptor of a connection that nobody watches.      *)
<1>t. ASSUME NEW c \in Conns, life[c] \in {"queued", "dropped"}
      PROVE  /\ fd[c] \in Fds /\ owner[fd[c]] = c /\ c # NoConn
             /\ interest[fd[c]] = {} /\ Watched[fd[c]] = NoConn
  <2>1. fd[c] \in Fds /\ owner[fd[c]] = c /\ c # NoConn /\ state[c] # "Connected"
    BY <1>t, LifecycleAssumption DEF ConnInv, ConnOK
  <2>2. interest[fd[c]] = {}
    BY <2>1 DEF ChannelsAgreeWithKernel
  <2>. QED
    BY <2>1, <2>2 DEF Watched
<1>r. ASSUME NEW c \in Conns, life[c] \in {"queued", "dropped"}, UNCHANGED interest,
             owner' = [owner EXCEPT ![fd[c]] = NoConn], Past' = Past
      PROVE  MappedStep
  <2>1. /\ fd[c] \in Fds /\ owner[fd[c]] = c /\ c # NoConn
        /\ interest[fd[c]] = {} /\ Watched[fd[c]] = NoConn
    BY <1>r, <1>t
  <2>2. Watched' = Watched
    BY <1>0, <1>r, <2>1 DEF Watched, KernelTypeOK
  <2>. QED
    BY <1>r, <2>1, <2>2 DEF MappedStep
<1>5. ASSUME NEW l \in Loops, SessionInit(l) PROVE MappedStep
  <2>. DEFINE c == Head(functions[l])
              f == fd[c]
  <2>1. c \in Conns /\ life[c] = "queued" /\ (InitSucceeds(l, c) \/ InitFails(l, c))
    BY <1>5, HeadIsQueued DEF SessionInit
  <2>. HIDE DEF c
  <2>2. /\ f \in Fds /\ owner[f] = c /\ c # NoConn
        /\ interest[f] = {} /\ Watched[f] = NoConn
    BY <1>t, <2>1
  <2>3. Past' = Past
    BY <1>0, <2>1 DEF InitSucceeds, InitFails, Refuse, Past, ConnTypeOK
  <2>4. CASE InitSucceeds(l, c)
    <3>1. UNCHANGED owner /\ interest' = [interest EXCEPT ![f] = {"IN"}]
      BY <2>4 DEF InitSucceeds
    <3>2. Watched' = [Watched EXCEPT ![f] = owner[f]]
      BY <1>0, <2>2, <3>1 DEF Watched, KernelTypeOK
    <3>. QED
      BY <2>2, <2>3, <3>1, <3>2 DEF MappedStep
  <2>5. CASE InitFails(l, c)
    <3>1. UNCHANGED interest
      BY <2>5 DEF InitFails, Refuse
    <3>2. CASE UNCHANGED owner
      BY <2>3, <3>1, <3>2 DEF MappedStep, Watched
    <3>3. CASE owner' = [owner EXCEPT ![fd[c]] = NoConn]
      BY <1>r, <2>1, <2>3, <3>1, <3>3
    <3>. QED
      BY <2>5, <3>2, <3>3 DEF InitFails, Refuse
  <2>. QED
    BY <2>1, <2>4, <2>5
<1>d. ASSUME NEW l \in Loops, DropTask(l) PROVE MappedStep
  <2>1. PICK c \in Conns : /\ life[c] = "dropped" /\ life' = [life EXCEPT ![c] = "freed"]
                           /\ owner' = [owner EXCEPT ![fd[c]] = NoConn]
    BY <1>d DEF DropTask, Dropped
  <2>2. UNCHANGED interest
    BY <1>d DEF DropTask
  <2>3. Past' = Past
    BY <1>0, <2>1 DEF Past, ConnTypeOK
  <2>. QED
    BY <1>r, <2>1, <2>2, <2>3
<1>6. ASSUME NEW l \in Loops, HandleEvent(l) PROVE MappedStep
  <2>1. UNCHANGED <<owner, life>> /\ \A f \in Fds : interest'[f] = {} <=> interest[f] = {}
    BY <1>6, HandlerStep
  <2>2. Watched' = Watched
    BY <2>1 DEF Watched
  <2>. QED
    BY <2>1, <2>2 DEF MappedStep, Past
<1>7. ASSUME NEW l \in Loops, OnClose(l) PROVE MappedStep
  <2>. DEFINE c == cur[l]
              f == fd[c]
  <2>1. ThreadOK(l) /\ c \in Conns /\ life[c] \in {"alive", "freed"} /\ c # NoConn
    BY <1>7, LifecycleAssumption DEF ThreadInv, ThreadOK, Handling, Labels, OnClose,
       CloseDisable, CloseSocket, CloseCallback
  <2>2. CASE CloseDisable(l)
    <3>1. at[l] = "disable" /\ state[c] = "Connected" /\ ConnOK(c) /\ loopOf[c] = l
      BY <2>1, <2>2 DEF CloseDisable, ThreadOK, Handling, Labels, ConnInv
    <3>2. f \in Fds /\ channels[l][f] = c /\ owner[f] = c /\ interest[f] # {}
      BY <2>1, <3>1 DEF ConnOK, ChannelsAgreeWithKernel
    <3>3. UNCHANGED <<owner, life>> /\ interest' = [interest EXCEPT ![f] = {}]
      BY <2>2, <3>2 DEF CloseDisable, CanChange
    <3>. HIDE DEF f, c
    <3>4. Watched[f] # NoConn /\ Watched' = [Watched EXCEPT ![f] = NoConn]
      BY <1>0, <2>1, <3>2, <3>3 DEF Watched, KernelTypeOK
    <3>. QED
      BY <3>2, <3>3, <3>4 DEF MappedStep, Past
  <2>3. CASE CloseSocket(l)
    <3>1. owner[f] = c /\ interest[f] = {}
      BY <2>1, <2>3 DEF CloseSocket, ThreadOK
    <3>2. f \in Fds
      BY <2>1, <2>3 DEF CloseSocket, ThreadOK, ConnInv, ConnOK
    <3>3. /\ UNCHANGED life
          /\ owner' = [owner EXCEPT ![f] = NoConn]
          /\ interest' = [interest EXCEPT ![f] = {}]
      BY <2>3 DEF CloseSocket, conn
    <3>. HIDE DEF f, c
    <3>4. Watched[f] = NoConn /\ Watched' = Watched
      BY <1>0, <3>1, <3>2, <3>3 DEF Watched, KernelTypeOK
    <3>. QED
      BY <2>1, <3>1, <3>2, <3>3, <3>4 DEF MappedStep, Past
  <2>4. CASE CloseCallback(l)
    <3>1. UNCHANGED <<owner, interest>>
      BY <2>4 DEF CloseCallback, kernel
    <3>2. Past' = Past
      BY <1>0, <2>1, <2>4 DEF CloseCallback, Past, ConnTypeOK
    <3>. QED
      BY <3>1, <3>2 DEF MappedStep, Watched
  <2>. QED
    BY <1>7, <2>2, <2>3, <2>4 DEF OnClose
<1>8. CASE UNCHANGED vars
  BY <1>1, <1>8 DEF vars, kernel, conn
<1>. QED
  BY <1>2, <1>3, <1>4, <1>5, <1>d, <1>6, <1>7, <1>8 DEF Next, LoopStep, Iteration

(* The loops and the acceptor together keep the promise of the registry:   *)
(* accepting is Open, init() is Watch or Release, disable() is Unwatch,    *)
(* close() and the end of a task whose init() failed are Release, and      *)
(* nothing else touches a descriptor number.                               *)
THEOREM LifecycleImplementsRegistry == Spec => ImplementsRegistry
<1>1. Init => Registry!RegistryInit
  BY DEF Init, Registry!RegistryInit, WatchOf
<1>2. Inv /\ Inv' /\ [Next]_vars => [Registry!RegistryNext]_(Registry!registryVars)
  BY Mapped, MappedStepIsRegistryStep DEF Inv
<1>. QED
  BY <1>1, <1>2, Invariance, PTL DEF Spec, ImplementsRegistry, Registry!RegistrySpec
=============================================================================
