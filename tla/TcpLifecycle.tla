----------------------------- MODULE TcpLifecycle -----------------------------
(***************************************************************************)
(* The life of accepted sockets: the acceptor thread that hands them to    *)
(* the pool's loops, and in each loop's thread Epoll, TcpChannel,          *)
(* TcpConnection and TcpSession (src/server/library/network).  The loops   *)
(* share nothing but descriptor numbers, which the kernel hands out again  *)
(* as soon as they are closed.                                             *)
(*                                                                         *)
(* A request is one complete message; its reply is ReplySize units of      *)
(* output.  EPOLLPRI and EPOLLRDHUP are in no interest set of the library, *)
(* and EPOLLHUP is reported whatever the interest.  Each loop is running   *)
(* (EventLoop.tla has its start and its end); its epoll_wait returns for   *)
(* an event, and whether it ever returns without one is left open.         *)
(***************************************************************************)
EXTENDS Naturals, Sequences, FiniteSets

CONSTANTS
  Conns,         \* connections, each with its channel, socket and session
  Fds,           \* descriptor numbers
  NumLoops,      \* size of the EventThreadPool
  SecondOwner,   \* connections of an HttpSession, which keeps a second reference
  Unconnected,   \* sockets whose connect() failed and was not checked (EchoClient)
  MaxReqs,       \* bound: requests a peer sends on one connection
  ReplySize,     \* units of output of one reply
  Room,          \* units that fit the kernel's send buffer
  NonBlock,      \* values the unset m_isNonBlock of an accepted socket may have
  AddMayFail,    \* may epoll_ctl(EPOLL_CTL_ADD) fail (ENOMEM, ENOSPC)?
  NoConn, NoFd

ASSUME LifecycleAssumption ==
  /\ NoConn \notin Conns /\ NoFd \notin Fds
  /\ NumLoops \in Nat \ {0}
  /\ SecondOwner \subseteq Conns /\ AddMayFail \in BOOLEAN
  /\ Unconnected \subseteq Conns /\ NonBlock \subseteq BOOLEAN
  /\ MaxReqs \in Nat /\ ReplySize \in Nat \ {0} /\ Room \in Nat \ {0}

Loops == 1 .. NumLoops

VARIABLES
  \* the kernel
  owner,         \* whose open socket each descriptor is
  interest,      \* what the loop's epoll instance watches it for, {} when not at all
  rx,            \* requests waiting in the receive buffer
  fin,           \* the peer has closed its side
  rst,           \* the peer has reset the connection
  room,          \* free units in the send buffer
  sent,          \* requests the peer has sent
  \* the acceptor
  next,          \* the static counter of getNextLoop()
  \* per connection
  life,          \* of the TcpConnection object
  fd,            \* TcpChannel::m_fd
  loopOf,        \* m_ownerLoop
  greedy,        \* TcpSocket::m_isNonBlock, which TcpSocket(SOCKET) leaves unset
  state,         \* TcpConnection::m_state
  target,        \* TcpChannel::m_targetEvent
  active,        \* TcpChannel::m_activeEvent
  rbuf,          \* requests in m_readBuffer
  wbuf,          \* units in m_writeBuffer
  removes,       \* m_writeCallback is set: it removes the session
  \* per loop
  channels,      \* Epoll::m_channels
  sessions,      \* EventLoop::m_sessions
  tasks,         \* EventLoop::m_tasks
  functions,     \* the list doTasks() is working on
  batch,         \* m_activeChannels not handled yet
  cur,           \* the connection whose handler runs
  at,            \* where the loop's thread is
  ret,           \* where onClose() returns to
  \* history
  closes,        \* how often the close callback ran
  cause,         \* what made onClose() run
  refused        \* why init() failed: the loop has an entry, or the kernel refuses

kernel  == <<owner, interest>>
net     == <<rx, fin, rst, room, sent>>
fixed   == <<fd, loopOf, greedy>>
conn    == <<life, state, target, rbuf, wbuf, removes>>
queues  == <<sessions, tasks, functions>>
thread  == <<batch, cur, at, ret>>
history == <<closes, cause, refused>>

vars == <<kernel, net, next, fixed, conn, active, channels, queues, thread, history>>

-----------------------------------------------------------------------------
Init ==
  /\ owner = [f \in Fds |-> NoConn]
  /\ interest = [f \in Fds |-> {}]
  /\ rx = [c \in Conns |-> 0] /\ sent = [c \in Conns |-> 0]
  /\ fin = [c \in Conns |-> FALSE] /\ rst = [c \in Conns |-> FALSE]
  /\ room = [c \in Conns |-> Room]
  /\ next = 0
  /\ life = [c \in Conns |-> "none"]
  /\ fd = [c \in Conns |-> NoFd]
  /\ loopOf = [c \in Conns |-> 1]
  /\ greedy = [c \in Conns |-> FALSE]
  /\ state = [c \in Conns |-> "Disconnected"]
  /\ target = [c \in Conns |-> {}] /\ active = [c \in Conns |-> {}]
  /\ rbuf = [c \in Conns |-> 0] /\ wbuf = [c \in Conns |-> 0]
  /\ removes = [c \in Conns |-> FALSE]
  /\ channels = [l \in Loops |-> [f \in Fds |-> NoConn]]
  /\ sessions = [l \in Loops |-> {}]
  /\ tasks = [l \in Loops |-> <<>>] /\ functions = [l \in Loops |-> <<>>]
  /\ batch = [l \in Loops |-> {}]
  /\ cur = [l \in Loops |-> NoConn]
  /\ at = [l \in Loops |-> "poll"] /\ ret = [l \in Loops |-> "poll"]
  /\ closes = [c \in Conns |-> 0]
  /\ cause = [c \in Conns |-> "none"]
  /\ refused = [c \in Conns |-> "no"]

-----------------------------------------------------------------------------
(* The peers.                                                              *)

Attached(c) == life[c] \in {"queued", "alive", "dropped"} /\ owner[fd[c]] = c

PeerSends(c) ==
  /\ Attached(c) /\ c \notin Unconnected
  /\ ~fin[c] /\ ~rst[c] /\ sent[c] < MaxReqs
  /\ sent' = [sent EXCEPT ![c] = @ + 1]
  /\ rx' = [rx EXCEPT ![c] = @ + 1]
  /\ UNCHANGED <<kernel, fin, rst, room, next, fixed, conn, active, channels,
                 queues, thread, history>>

PeerCloses(c) ==
  /\ Attached(c) /\ c \notin Unconnected
  /\ ~fin[c] /\ ~rst[c]
  /\ fin' = [fin EXCEPT ![c] = TRUE]
  /\ UNCHANGED <<kernel, rx, rst, room, sent, next, fixed, conn, active,
                 channels, queues, thread, history>>

(* What is in the receive buffer can still be read after a reset.          *)
PeerResets(c) ==
  /\ Attached(c) /\ c \notin Unconnected /\ ~rst[c]
  /\ rst' = [rst EXCEPT ![c] = TRUE]
  /\ UNCHANGED <<kernel, rx, fin, room, sent, next, fixed, conn, active, channels,
                 queues, thread, history>>

PeerReads(c) ==
  /\ Attached(c) /\ ~rst[c] /\ room[c] < Room
  /\ room' = [room EXCEPT ![c] = Room]
  /\ UNCHANGED <<kernel, rx, fin, rst, sent, next, fixed, conn, active,
                 channels, queues, thread, history>>

-----------------------------------------------------------------------------
(* The acceptor: onConnect(), getNextLoop() and addSession().              *)

getNextLoop == next % NumLoops

onConnect(c) ==
  /\ life[c] = "none"
  /\ \E f \in Fds, g \in NonBlock :
       /\ owner[f] = NoConn
       /\ owner' = [owner EXCEPT ![f] = c]
       /\ fd' = [fd EXCEPT ![c] = f]
       /\ greedy' = [greedy EXCEPT ![c] = g]
  /\ LET no == getNextLoop IN
       /\ loopOf' = [loopOf EXCEPT ![c] = no + 1]
       /\ tasks' = [tasks EXCEPT ![no + 1] = Append(@, c)]
       /\ next' = no + 1
  /\ life' = [life EXCEPT ![c] = "queued"]
  /\ UNCHANGED <<interest, net, state, target, rbuf, wbuf, removes, active, channels,
                 sessions, functions, thread, history>>

-----------------------------------------------------------------------------
(* Epoll::updateChannel, as far as the loop's thread gets with it.         *)

CanAdd(l, c) == channels[l][fd[c]] = NoConn

CanChange(l, c) == channels[l][fd[c]] = c /\ owner[fd[c]] = c /\ interest[fd[c]] # {}

(* TcpChannel::setTargetEvent.                                             *)
setTargetEvent(l, c, events) ==
  IF CanChange(l, c)
  THEN /\ interest' = [interest EXCEPT ![fd[c]] = events]
       /\ target' = [target EXCEPT ![c] = events]
  ELSE UNCHANGED <<interest, target>>

(* Mutant: output that is left over is not watched.                        *)
MutNeverEnable(l, c) == UNCHANGED <<interest, target>>

enableWriting(l, c) ==
  IF "OUT" \in target[c] THEN UNCHANGED <<interest, target>>
  ELSE setTargetEvent(l, c, target[c] \cup {"OUT"})

(* Mutant: EPOLLOUT stays in the interest after the last byte.             *)
MutNeverDisable(l, c) == UNCHANGED <<interest, target>>

disableWriting(l, c) ==
  IF "OUT" \notin target[c] THEN UNCHANGED <<interest, target>>
  ELSE setTargetEvent(l, c, {"IN"})

-----------------------------------------------------------------------------
(* One iteration of the loop: poll, the handlers, the tasks.               *)

Goto(l, label) == at' = [at EXCEPT ![l] = label]

Ready(f) ==
  LET c == owner[f] IN
  IF interest[f] = {} \/ c = NoConn THEN {}
  ELSE IF c \in Unconnected THEN {"HUP"} \cup (interest[f] \cap {"OUT"})
  ELSE (IF rx[c] > 0 \/ fin[c] \/ rst[c] THEN {"IN"} ELSE {})
       \cup (IF rst[c] THEN {"ERR", "HUP"} ELSE {})
       \cup (IF room[c] > 0 \/ rst[c] THEN interest[f] \cap {"OUT"} ELSE {})

(* What epoll_wait finds of a loop; a descriptor without a channel is      *)
(* passed over.                                                            *)
Found(l) ==
  {f \in Fds : Ready(f) # {} /\ channels[l][f] # NoConn /\ loopOf[owner[f]] = l}

(* Epoll::poll: epoll_wait returns for events.                             *)
poll(l) ==
  /\ at[l] = "poll" /\ Found(l) # {}
  /\ batch' = [batch EXCEPT ![l] = {channels[l][f] : f \in Found(l)}]
  /\ active' = [c \in Conns |->
                  IF \E f \in Found(l) : channels[l][f] = c
                  THEN UNION {Ready(f) : f \in {g \in Found(l) : channels[l][g] = c}}
                  ELSE active[c]]
  /\ Goto(l, "next")
  /\ UNCHANGED <<kernel, net, next, fixed, conn, channels, queues, cur, ret, history>>

(***************************************************************************)
(* epoll_wait returns without an event, at its time limit or for a signal. *)
(* Nothing makes it do so: the limit is a local that loop() reads before   *)
(* it was set and may be negative, and addTask() wakes nobody.  Without a  *)
(* task the iteration changes nothing.                                     *)
(***************************************************************************)
PollTimeout(l) ==
  /\ at[l] = "poll" /\ Found(l) = {} /\ tasks[l] # <<>>
  /\ batch' = [batch EXCEPT ![l] = {}]
  /\ Goto(l, "next")
  /\ UNCHANGED <<kernel, net, next, fixed, conn, active, channels, queues, cur, ret, history>>

(* Mutant: a channel stays in m_activeChannels after it was handled.       *)
MutKeepActive(l) ==
  /\ at[l] = "next" /\ batch[l] # {}
  /\ \E c \in batch[l] : cur' = [cur EXCEPT ![l] = c]
  /\ Goto(l, "hup")
  /\ UNCHANGED <<kernel, net, next, fixed, conn, active, channels, queues, batch, ret, history>>

NextChannel(l) ==
  /\ at[l] = "next" /\ batch[l] # {}
  /\ \E c \in batch[l] :
       /\ cur' = [cur EXCEPT ![l] = c]
       /\ batch' = [batch EXCEPT ![l] = @ \ {c}]
  /\ Goto(l, "hup")
  /\ UNCHANGED <<kernel, net, next, fixed, conn, active, channels, queues, ret, history>>

(* Mutant: m_tasks is cleared before it is swapped.                        *)
MutClearFirst(l) ==
  /\ at[l] = "next" /\ batch[l] = {}
  /\ cur' = [cur EXCEPT ![l] = NoConn]
  /\ functions' = [functions EXCEPT ![l] = <<>>]
  /\ tasks' = [tasks EXCEPT ![l] = <<>>]
  /\ Goto(l, "tasks")
  /\ UNCHANGED <<kernel, net, next, fixed, conn, active, channels, sessions,
                 batch, ret, history>>

DoTasks(l) ==
  /\ at[l] = "next" /\ batch[l] = {}
  /\ cur' = [cur EXCEPT ![l] = NoConn]
  /\ functions' = [functions EXCEPT ![l] = tasks[l]]
  /\ tasks' = [tasks EXCEPT ![l] = <<>>]
  /\ Goto(l, "tasks")
  /\ UNCHANGED <<kernel, net, next, fixed, conn, active, channels, sessions,
                 batch, ret, history>>

(***************************************************************************)
(* TcpSession::init and the rest of addSession's lambda.  When the channel *)
(* cannot be added init() resets its reference, which frees a connection   *)
(* that has no other; that of an HttpSession keeps its descriptor until    *)
(* doTasks() returns and destroys the task with the session in it.         *)
(***************************************************************************)
InitSucceeds(l, c) ==
  /\ CanAdd(l, c)
  /\ channels' = [channels EXCEPT ![l][fd[c]] = c]
  /\ interest' = [interest EXCEPT ![fd[c]] = {"IN"}]
  /\ target' = [target EXCEPT ![c] = {"IN"}]
  /\ state' = [state EXCEPT ![c] = "Connected"]
  /\ life' = [life EXCEPT ![c] = "alive"]
  /\ sessions' = [sessions EXCEPT ![l] = @ \cup {c}]
  /\ UNCHANGED <<owner, refused>>

Refuse(l, c) ==
  /\ ~CanAdd(l, c) \/ AddMayFail
  /\ refused' = [refused EXCEPT ![c] = IF CanAdd(l, c) THEN "kernel" ELSE "entry"]
  /\ IF c \in SecondOwner
     THEN life' = [life EXCEPT ![c] = "dropped"] /\ UNCHANGED owner
     ELSE life' = [life EXCEPT ![c] = "freed"] /\ owner' = [owner EXCEPT ![fd[c]] = NoConn]
  /\ UNCHANGED <<interest, target, state, sessions>>

(* Mutant: the entry is made before epoll_ctl is asked.                    *)
MutEntryFirst(l, c) ==
  /\ Refuse(l, c)
  /\ channels' = [channels EXCEPT ![l][fd[c]] = c]

InitFails(l, c) == Refuse(l, c) /\ UNCHANGED channels

SessionInit(l) ==
  /\ at[l] = "tasks" /\ functions[l] # <<>>
  /\ LET c == Head(functions[l]) IN InitSucceeds(l, c) \/ InitFails(l, c)
  /\ functions' = [functions EXCEPT ![l] = Tail(@)]
  /\ UNCHANGED <<net, next, fixed, rbuf, wbuf, removes, active, tasks, thread, closes, cause>>

Dropped(l) == {c \in Conns : life[c] = "dropped" /\ loopOf[c] = l}

(* The list of tasks is destroyed, and with it the sessions that failed.   *)
DropTask(l) ==
  /\ at[l] = "tasks" /\ functions[l] = <<>>
  /\ \E c \in Dropped(l) :
       /\ life' = [life EXCEPT ![c] = "freed"]
       /\ owner' = [owner EXCEPT ![fd[c]] = NoConn]
  /\ UNCHANGED <<interest, net, next, fixed, state, target, rbuf, wbuf, removes, active,
                 channels, queues, thread, history>>

TasksDone(l) ==
  /\ at[l] = "tasks" /\ functions[l] = <<>> /\ Dropped(l) = {}
  /\ Goto(l, "poll")
  /\ UNCHANGED <<kernel, net, next, fixed, conn, active, channels, queues,
                 batch, cur, ret, history>>

-----------------------------------------------------------------------------
(***************************************************************************)
(* TcpChannel::handleEvent: close, error, read, write, in this order and   *)
(* on the events of the last poll.  The callbacks are bound to the address *)
(* of the connection: a callback of a connection that is gone reads freed  *)
(* memory, and nothing is said of what that thread does afterwards.        *)
(***************************************************************************)
Quiet == UNCHANGED <<kernel, net, next, fixed, conn, active, channels, queues, batch, cur>>

Step(l, from, to) == at[l] = from /\ Goto(l, to) /\ UNCHANGED <<ret, history>> /\ Quiet

(* onClose() is called for the reason given; it returns at once when the   *)
(* connection is Disconnected already.                                     *)
CallClose(l, why, back) ==
  LET c == cur[l] IN
  IF state[c] = "Disconnected"
  THEN Goto(l, back) /\ UNCHANGED <<ret, history>>
  ELSE /\ Goto(l, "disable")
       /\ ret' = [ret EXCEPT ![l] = back]
       /\ cause' = [cause EXCEPT ![c] = why]
       /\ UNCHANGED <<closes, refused>>

UseAfterFree(l) ==
  /\ \/ at[l] = "err" /\ "ERR" \in active[cur[l]]
     \/ at[l] = "in" /\ "IN" \in active[cur[l]]
     \/ at[l] = "out" /\ "OUT" \in active[cur[l]]
     \/ at[l] \in {"errorCallback", "readErrorCallback", "requests"}
  /\ life[cur[l]] = "freed"
  /\ Goto(l, "undefined")
  /\ UNCHANGED <<ret, history>> /\ Quiet

EventClose(l) ==
  /\ at[l] = "hup"
  /\ IF "HUP" \in active[cur[l]] /\ "IN" \notin active[cur[l]]
     THEN CallClose(l, "hangup", "err")
     ELSE Goto(l, "err") /\ UNCHANGED <<ret, history>>
  /\ Quiet

NoError(l) == Step(l, "err", "in") /\ "ERR" \notin active[cur[l]]

onError(l) ==
  /\ at[l] = "err" /\ "ERR" \in active[cur[l]] /\ life[cur[l]] # "freed"
  /\ CallClose(l, "error", "errorCallback")
  /\ Quiet

(* No session sets m_errorCallback; onError only reads it.                 *)
ErrorCallback(l) ==
  /\ Step(l, "errorCallback", "in") \/ Step(l, "readErrorCallback", "out")
  /\ life[cur[l]] # "freed"

NoRead(l) == Step(l, "in", "out") /\ "IN" \notin active[cur[l]]

(* Mutant: the end of the stream is noticed only right after data.         *)
MutOnlyAfterData(c) == (fin[c] \/ rst[c]) /\ greedy[c] /\ rx[c] > 0

(* TcpSocket::recv meets the end of the stream or the error of a reset, in *)
(* this call of recvmsg or in the one after the data.                      *)
RecvFails(c) == (fin[c] \/ rst[c]) /\ (greedy[c] \/ rx[c] = 0)

(***************************************************************************)
(* TcpConnection::onRead with TcpSocket::recv: the result of recv depends  *)
(* on the state of the socket and on whether it reads on until the receive *)
(* buffer is empty.                                                        *)
(***************************************************************************)
onRead(l) ==
  LET c == cur[l] IN
  /\ at[l] = "in" /\ "IN" \in active[c] /\ life[c] # "freed"
  /\ \/ /\ state[c] # "Connected"
        /\ Goto(l, "out") /\ UNCHANGED <<ret, history, rx, rbuf>>
     \/ /\ state[c] = "Connected"
        /\ rbuf' = [rbuf EXCEPT ![c] = @ + rx[c]]
        /\ rx' = [rx EXCEPT ![c] = 0]
        /\ IF ~RecvFails(c) THEN Goto(l, "requests") /\ UNCHANGED <<ret, history>>
           ELSE IF rst[c] THEN CallClose(l, "error", "readErrorCallback")
           ELSE CallClose(l, "peer closed", "out")
  /\ UNCHANGED <<kernel, fin, rst, room, sent, next, fixed, life, state, target,
                 wbuf, removes, active, channels, queues, batch, cur>>

(***************************************************************************)
(* TcpConnection::onWrite with TcpSocket::send: everything that is not a   *)
(* positive count closes the connection, a full send buffer and an empty   *)
(* m_writeBuffer included.  After the last byte m_writeCallback, once it   *)
(* is set, erases the session and with it the connection, whose destructor *)
(* closes it.                                                              *)
(***************************************************************************)
SendFails(c) == rst[c] \/ c \in Unconnected

Flushed(l, c, n, have) ==
  /\ n \in 1 .. have /\ n <= room[c]
  /\ room' = [room EXCEPT ![c] = @ - n]
  /\ wbuf' = [wbuf EXCEPT ![c] = have - n]
  /\ IF n = have THEN disableWriting(l, c) ELSE enableWriting(l, c)

removeSession(l, c) == sessions' = [sessions EXCEPT ![l] = @ \ {c}]

onWrite(l, c, have, back) ==
  \/ /\ state[c] # "Connected"
     /\ Goto(l, back) /\ wbuf' = [wbuf EXCEPT ![c] = have]
     /\ UNCHANGED <<ret, history, room, interest, target, sessions>>
  \/ /\ state[c] = "Connected" /\ (SendFails(c) \/ have = 0 \/ room[c] = 0)
     /\ CallClose(l, IF SendFails(c) THEN "send error"
                     ELSE IF have = 0 THEN "nothing to send" ELSE "would block", back)
     /\ wbuf' = [wbuf EXCEPT ![c] = have]
     /\ UNCHANGED <<room, interest, target, sessions>>
  \/ /\ state[c] = "Connected" /\ ~SendFails(c)
     /\ \E n \in 1 .. Room :
          /\ Flushed(l, c, n, have)
          /\ IF removes[c] /\ n = have
             THEN removeSession(l, c) /\ CallClose(l, "removed", back)
             ELSE Goto(l, back) /\ UNCHANGED <<ret, history, sessions>>

(***************************************************************************)
(* The loop of onRead: each request is handled and its reply sent at once. *)
(* For a request without a Connection header an HttpSession then sets the  *)
(* write callback, too late for this reply.                                *)
(***************************************************************************)
HandleRequest(l) ==
  LET c == cur[l] IN
  /\ at[l] = "requests" /\ rbuf[c] > 0 /\ life[c] # "freed"
  /\ rbuf' = [rbuf EXCEPT ![c] = @ - 1]
  /\ onWrite(l, c, wbuf[c] + ReplySize, "requests")
  /\ \/ UNCHANGED removes
     \/ c \in SecondOwner /\ removes' = [removes EXCEPT ![c] = TRUE]
  /\ UNCHANGED <<owner, rx, fin, rst, sent, next, fixed, life, state, active,
                 channels, tasks, functions, batch, cur>>

RequestsDone(l) ==
  /\ Step(l, "requests", "out")
  /\ rbuf[cur[l]] = 0 /\ life[cur[l]] # "freed"

NoWrite(l) == Step(l, "out", "next") /\ "OUT" \notin active[cur[l]]

EventWrite(l) ==
  LET c == cur[l] IN
  /\ at[l] = "out" /\ "OUT" \in active[c] /\ life[c] # "freed"
  /\ onWrite(l, c, wbuf[c], "next")
  /\ UNCHANGED <<owner, rx, fin, rst, sent, next, fixed, life, state, rbuf, removes,
                 active, channels, tasks, functions, batch, cur>>

-----------------------------------------------------------------------------
(* Mutants: the entry of m_channels stays; nothing leaves the loop.        *)
MutKeepChannel(l) ==
  LET c == cur[l] IN
  /\ at[l] = "disable"
  /\ state' = [state EXCEPT ![c] = "Disconnecting"]
  /\ interest' = [interest EXCEPT ![fd[c]] = {}]
  /\ Goto(l, "shut")
  /\ UNCHANGED <<owner, channels, net, next, fixed, life, target, rbuf, wbuf, removes, active,
                 queues, batch, cur, ret, history>>

MutNoDisable(l) ==
  /\ at[l] = "disable"
  /\ state' = [state EXCEPT ![cur[l]] = "Disconnecting"]
  /\ Goto(l, "shut")
  /\ UNCHANGED <<kernel, channels, net, next, fixed, life, target, rbuf, wbuf, removes, active,
                 queues, batch, cur, ret, history>>

(***************************************************************************)
(* onClose(): Disconnecting, the channel leaves the loop, the socket is    *)
(* closed, Disconnected, and the close callback resets the session's       *)
(* reference (removeConnectionInLoop, inline in the loop's thread).  The   *)
(* session itself stays in m_sessions, and that of an HttpSession with its *)
(* second reference.                                                       *)
(***************************************************************************)
CloseDisable(l) ==
  LET c == cur[l] IN
  /\ at[l] = "disable"
  /\ state' = [state EXCEPT ![c] = "Disconnecting"]
  /\ IF CanChange(l, c)
     THEN /\ channels' = [channels EXCEPT ![l][fd[c]] = NoConn]
          /\ interest' = [interest EXCEPT ![fd[c]] = {}]
     ELSE UNCHANGED <<channels, interest>>
  /\ Goto(l, "shut")
  /\ UNCHANGED <<owner, net, next, fixed, life, target, rbuf, wbuf, removes, active,
                 queues, batch, cur, ret, history>>

(* Mutant: the socket is not closed.                                       *)
MutLeaveOpen(l) ==
  /\ at[l] = "shut"
  /\ Goto(l, "notify")
  /\ UNCHANGED <<kernel, net, next, fixed, conn, active, channels, queues, batch, cur, ret, history>>

CloseSocket(l) ==
  LET f == fd[cur[l]] IN
  /\ at[l] = "shut"
  /\ owner' = [owner EXCEPT ![f] = NoConn]
  /\ interest' = [interest EXCEPT ![f] = {}]
  /\ Goto(l, "notify")
  /\ UNCHANGED <<net, next, fixed, conn, active, channels, queues, batch, cur, ret, history>>

(* Mutant: the second reference does not count.                            *)
MutOneOwner(l) ==
  LET c == cur[l] IN
  /\ at[l] = "notify"
  /\ state' = [state EXCEPT ![c] = "Disconnected"]
  /\ closes' = [closes EXCEPT ![c] = @ + 1]
  /\ life' = [life EXCEPT ![c] = "freed"]
  /\ Goto(l, ret[l])
  /\ UNCHANGED <<kernel, net, next, fixed, target, rbuf, wbuf, removes, active, channels,
                 queues, batch, cur, ret, cause, refused>>

CloseCallback(l) ==
  LET c == cur[l] IN
  /\ at[l] = "notify"
  /\ state' = [state EXCEPT ![c] = "Disconnected"]
  /\ closes' = [closes EXCEPT ![c] = @ + 1]
  /\ life' = [life EXCEPT ![c] = IF c \in SecondOwner /\ c \in sessions[l] THEN @ ELSE "freed"]
  /\ Goto(l, ret[l])
  /\ UNCHANGED <<kernel, net, next, fixed, target, rbuf, wbuf, removes, active, channels,
                 queues, batch, cur, ret, cause, refused>>

-----------------------------------------------------------------------------
Peer(c) == PeerSends(c) \/ PeerCloses(c) \/ PeerResets(c) \/ PeerReads(c)

HandleEvent(l) ==
  \/ EventClose(l) \/ NoError(l) \/ onError(l) \/ ErrorCallback(l)
  \/ NoRead(l) \/ onRead(l) \/ HandleRequest(l) \/ RequestsDone(l)
  \/ NoWrite(l) \/ EventWrite(l)
  \/ UseAfterFree(l)

OnClose(l) == CloseDisable(l) \/ CloseSocket(l) \/ CloseCallback(l)

LoopStep(l) ==
  \/ poll(l) \/ NextChannel(l) \/ DoTasks(l) \/ SessionInit(l) \/ DropTask(l) \/ TasksDone(l)
  \/ HandleEvent(l) \/ OnClose(l)

Next ==
  \/ \E c \in Conns : Peer(c) \/ onConnect(c)
  \/ \E l \in Loops : LoopStep(l) \/ PollTimeout(l)

Spec == Init /\ [][Next]_vars

(***************************************************************************)
(* Each loop's thread keeps running and epoll_wait returns for an event,   *)
(* but owes no return without one; the peers read what they are sent.      *)
(***************************************************************************)
Fairness ==
  /\ \A l \in Loops : WF_vars(LoopStep(l))
  /\ \A c \in Conns : WF_vars(PeerReads(c))

FairSpec == Spec /\ Fairness

-----------------------------------------------------------------------------
(* Properties.                                                             *)

Labels == {"poll", "next", "hup", "err", "errorCallback", "in", "readErrorCallback",
           "requests", "out", "disable", "shut", "notify", "tasks", "undefined"}

(* Inside onClose().                                                       *)
Closing == {"disable", "shut", "notify"}

Events == {"IN", "OUT", "ERR", "HUP"}

Causes == {"none", "hangup", "error", "peer closed", "send error",
           "nothing to send", "would block", "removed"}

KernelTypeOK ==
  /\ owner \in [Fds -> Conns \cup {NoConn}]
  /\ interest \in [Fds -> SUBSET {"IN", "OUT"}]

NetTypeOK ==
  /\ rx \in [Conns -> 0 .. MaxReqs] /\ sent \in [Conns -> 0 .. MaxReqs]
  /\ fin \in [Conns -> BOOLEAN] /\ rst \in [Conns -> BOOLEAN]
  /\ room \in [Conns -> 0 .. Room]

FixedTypeOK ==
  /\ next \in 0 .. NumLoops
  /\ fd \in [Conns -> Fds \cup {NoFd}]
  /\ loopOf \in [Conns -> Loops]
  /\ greedy \in [Conns -> BOOLEAN]

ConnTypeOK ==
  /\ life \in [Conns -> {"none", "queued", "alive", "dropped", "freed"}]
  /\ state \in [Conns -> {"Disconnected", "Connected", "Disconnecting"}]
  /\ target \in [Conns -> SUBSET {"IN", "OUT"}]
  /\ active \in [Conns -> SUBSET Events]
  /\ rbuf \in [Conns -> Nat] /\ wbuf \in [Conns -> Nat]
  /\ removes \in [Conns -> BOOLEAN]

QueueTypeOK ==
  /\ channels \in [Loops -> [Fds -> Conns \cup {NoConn}]]
  /\ sessions \in [Loops -> SUBSET Conns]
  /\ tasks \in [Loops -> Seq(Conns)] /\ functions \in [Loops -> Seq(Conns)]

ThreadTypeOK ==
  /\ batch \in [Loops -> SUBSET Conns]
  /\ cur \in [Loops -> Conns \cup {NoConn}]
  /\ at \in [Loops -> Labels] /\ ret \in [Loops -> Labels]

HistoryTypeOK ==
  /\ closes \in [Conns -> Nat]
  /\ cause \in [Conns -> Causes]
  /\ refused \in [Conns -> {"no", "entry", "kernel"}]

(* Every variable keeps the shape the C++ declarations give it.            *)
TypeOK ==
  /\ KernelTypeOK /\ NetTypeOK /\ FixedTypeOK /\ ConnTypeOK
  /\ QueueTypeOK /\ ThreadTypeOK /\ HistoryTypeOK

(***************************************************************************)
(* The channel map of every loop and the kernel agree: an entry is the     *)
(* channel of the connection that owns the open descriptor and runs in     *)
(* this loop, and the descriptors watched are exactly those with an entry  *)
(* (Epoll.cpp:96-134 against TcpConnection.cpp:132-145).  An entry left    *)
(* behind would lock its descriptor number for every later connection.     *)
(***************************************************************************)
ChannelsAgreeWithKernel ==
  \A f \in Fds :
    /\ \A l \in Loops : channels[l][f] # NoConn =>
         LET c == channels[l][f] IN
         /\ owner[f] = c /\ fd[c] = f /\ loopOf[c] = l
         /\ state[c] = "Connected"
    /\ (interest[f] # {}) <=> (\E l \in Loops : channels[l][f] # NoConn)

(* The channel's record of its interest is what the kernel watches, for as *)
(* long as the connection is open (TcpChannel.cpp:107-143).                *)
TargetIsInterest ==
  \A c \in Conns : state[c] = "Connected" => interest[fd[c]] = target[c]

InHandler(c) == \E l \in Loops : cur[l] = c /\ at[l] \notin {"poll", "next", "tasks"}

(***************************************************************************)
(* Outside its own handlers a connection has unsent output exactly when    *)
(* its loop watches for EPOLLOUT: no reply waits for an event nobody asked *)
(* for, and no idle socket keeps the loop spinning (TcpConnection.cpp:     *)
(* 101-109).  The channel's own record of what it watches never disagrees. *)
(***************************************************************************)
PendingOutputWatched ==
  /\ TargetIsInterest
  /\ \A c \in Conns : (state[c] = "Connected" /\ ~InHandler(c)) =>
       (wbuf[c] > 0 <=> "OUT" \in interest[fd[c]])

(***************************************************************************)
(* The close callback runs at most once, and after it the connection is    *)
(* Disconnected, its descriptor given back and its channel out of its loop.*)
(***************************************************************************)
ClosedOnceAndForAll ==
  \A c \in Conns : closes[c] > 0 =>
    /\ closes[c] = 1
    /\ state[c] = "Disconnected"
    /\ \A f \in Fds : owner[f] # c
    /\ \A l \in Loops, f \in Fds : channels[l][f] # c

(***************************************************************************)
(* Only the kernel refuses a connection, never an entry its predecessor on *)
(* the descriptor left in the loop (Epoll.cpp:101-105); and a refused one  *)
(* leaves nothing behind: no entry of its own, no session, and once its    *)
(* loop is done with its tasks no open descriptor (EventLoop.h:44-53,      *)
(* HttpSession.cpp:17-25).                                                 *)
(***************************************************************************)
RefusedLeavesNothing ==
  \A c \in Conns : refused[c] # "no" =>
    /\ refused[c] = "kernel" /\ AddMayFail
    /\ state[c] = "Disconnected" /\ c \notin sessions[loopOf[c]]
    /\ \A l \in Loops, f \in Fds : channels[l][f] # c
    /\ at[loopOf[c]] # "tasks" => \A f \in Fds : owner[f] # c

(* A reader of m_activeChannels finds only connections of its own loop     *)
(* that are still alive: a handler closes no connection but its own.       *)
BatchIsAlive ==
  \A l \in Loops : \A c \in batch[l] :
    life[c] = "alive" /\ loopOf[c] = l /\ state[c] = "Connected"

(***************************************************************************)
(* The second reference saves an HttpSession's connection from every close *)
(* a handler makes: once served it is destroyed only by the removal of its *)
(* session, which the write callback makes, and used after that only by    *)
(* the loop over the requests of one read, when an earlier one of them set *)
(* the callback (HttpSession.cpp:13-54, TcpConnection.cpp:101-105).        *)
(***************************************************************************)
OnlyRemovalFreesSecondOwner ==
  /\ \A c \in SecondOwner : life[c] = "freed" => refused[c] # "no" \/ cause[c] = "removed"
  /\ \A l \in Loops : at[l] = "undefined" /\ cur[l] \in SecondOwner => ret[l] = "requests"

(***************************************************************************)
(* A full send buffer does not close a connection: the write is tried      *)
(* again when the socket is writable.                                      *)
(***************************************************************************)
NoCloseWhenBusy == \A c \in Conns : cause[c] # "would block"

(* The descriptor layer implements the abstract registry.                  *)
WatchOf(f) ==
  IF \E l \in Loops : channels[l][f] # NoConn
  THEN channels[CHOOSE l \in Loops : channels[l][f] # NoConn][f]
  ELSE NoConn

Registry == INSTANCE DescriptorRegistry WITH
  own <- owner,
  watch <- [f \in Fds |-> WatchOf(f)],
  past <- {c \in Conns : life[c] # "none"}

(***************************************************************************)
(* Descriptor numbers are watched only for their owner and released only   *)
(* when unwatched, across all loops and the acceptor.                      *)
(***************************************************************************)
ImplementsRegistry == Registry!RegistrySpec

(* The task that serves an accepted socket is in m_tasks, and its loop in  *)
(* an epoll_wait without an event.                                         *)
Waiting(c) ==
  /\ \E i \in DOMAIN tasks[loopOf[c]] : tasks[loopOf[c]][i] = c
  /\ at[loopOf[c]] = "poll" /\ Found(loopOf[c]) = {}

(***************************************************************************)
(* When the peer closes or resets, the descriptor of the connection is     *)
(* eventually given back, unless the thread of its loop has used a freed   *)
(* connection, or the connection waits for its task in a loop whose        *)
(* epoll_wait never returns again, which its peer's event cannot change    *)
(* (EventLoop.cpp:38-41, 121-135).                                         *)
(***************************************************************************)
PeerGoneReleases ==
  \A c \in Conns : (fin[c] \/ rst[c]) ~>
    \/ \A f \in Fds : owner[f] # c
    \/ at[loopOf[c]] = "undefined"
    \/ []Waiting(c)

(***************************************************************************)
(* Every accepted socket is eventually served or given back, with the same *)
(* two exceptions.                                                         *)
(***************************************************************************)
AcceptedIsServed ==
  \A c \in Conns : life[c] = "queued" ~>
    life[c] # "queued" \/ at[loopOf[c]] = "undefined" \/ []Waiting(c)

(***************************************************************************)
(* Output left in m_writeBuffer is eventually sent, or the connection is   *)
(* closed: EPOLLOUT ends every poll.                                       *)
(***************************************************************************)
OutputDrains ==
  \A c \in Conns : (wbuf[c] > 0) ~>
    wbuf[c] = 0 \/ state[c] = "Disconnected" \/ at[loopOf[c]] = "undefined"
=============================================================================
