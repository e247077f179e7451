# A TLA+ verification of UIConnect

UIConnect (`src/README.md`) is a small C++ framework for HTTP servers: one
reactor, one thread per loop. This directory models the parts of it whose
correctness depends on the order in which things happen, checks the models with
TLC and proves the most important results with TLAPS. All paths below are
relative to `src/server/library/` unless they say otherwise.

- `*.tla`: the models; `*Proofs.tla`: theorems about them; `MC*.tla` and
  `*.cfg`: the instances TLC checks.
- `PROJECT.json`: components, runs, the lines of the source each definition
  stands for, the mutants that show each property can fail, findings, hazards.

## 1. The system

```
 TcpServer / HttpServer (acceptor thread)
   m_loop: EventLoop ── Epoll ── TcpChannel of the listening socket
      │ onConnect: accept4, getNextLoop(), addSession
      ▼
 EventThreadPool ── EventThread × n, each a detached thread running
   EventLoop ─┬─ m_tasks        posted by any thread, run by the loop's thread
              ├─ m_sessions     id → TcpSession/HttpSession → TcpConnection
              ├─ Epoll          m_channels: fd → TcpChannel (weak)
              └─ TimerManager   timers, posted by anyone, run by the loop
   TcpConnection: TcpSocket + TcpChannel + m_readBuffer + m_writeBuffer
```

| component | state | operations | interacts with | hard because |
|---|---|---|---|---|
| Event loop (`network/event/EventLoop.*`) | `m_threadId`, `m_isRunning`, `m_isQuiting`, `m_tasks`, `m_sessions`, `m_mutex` + `m_cv` | `loop`, `addTask`, `doTasks`, `addSession`, `removeSession`, `updateChannel`, `quit` | called by the acceptor, by handlers and by whoever quits it | thread test and action are separate; locks held across destructors; nothing wakes the poll |
| Epoll and channels (`network/epoll`, `TcpChannel.*`) | `m_channels`, `m_targetEvent`, `m_activeEvent` | `updateChannel` (add, modify, delete), `poll`, `handleEvent` | kernel; connections | map, channel and kernel each keep a copy of the same fact; descriptor numbers are reused |
| Connections, sessions, acceptor (`TcpConnection.*`, `TcpSession.*`, `TcpServer.*`, `socket/TcpSocket.*`) | `m_state`, buffers, who owns whom | `onConnect`, `init`, `onRead`, `onWrite`, `onError`, `onClose`, `removeConnection` | loop, channel, peer | up to four callbacks for one event; partial sends; the close callback drops the owner |
| Threads and pools (`thread/`, `EventThread.*`, `EventThreadPool.*`) | `m_isEnd`, `m_isQuited`, members' lifetimes | `start`, `run`, `quit`, destructors | loops they own | detached threads, a condition variable notified without its mutex, destruction order |
| Timers (`TimerFunc.*`) | `m_timers` (ordered by `m_nextCallTime`), per timer `m_cb`, `m_cycle`, `m_nextCallTime` | `addTimer`, `cancel`, `refresh`, `reset`, `listExpiredCb` | loop runs what was collected, outside the lock | a key that changes while the object lives; cancelling what is already collected |
| Buffer (`ByteArray.*`, `Endian.h`, `socket/Buffer.*`) | chain of blocks, two positions, two block pointers, byte order | `write`, `read`, `getReadBuffers`, `getWriteBuffers`, `hasRead`, `hasWritten`; encoders and decoders | `TcpSocket::send`, `recv` | arithmetic at block boundaries; readers that do not move |
| Packets (`socket/Packet.*`, `Buffer::getPack`) | none | framing, checksum | `TcpConnection::onRead` | packets split over several receives |
| HTTP (`protocol/http`) | buffers, the write callback, `m_incompleteReqCnt` | `onRead`, `send`, `handleRequest` | mongrel2 parsers, dispatcher, loop | pipelined requests; sessions removed from their own handlers |
| Dispatcher (`reactor/`) | two static tables | `regist`, `fuzzyRegist`, `dispatch` | sessions of all loops | filled before the loops start |
| Configuration (`config/`) | items, listeners, the times of files | `LoadFromConfDir`, `LoadFromYaml`, `fromString`, `setValue` | the listener of "logs" | notify and assign under different locks; a file that changes while it is loaded |
| Logging (`log/`) | loggers, outputters, files | `log`, `setFormatter`, `reopen` | everything | locks nested in calls that log |
| Hooks (`hook/`) | table of descriptor items | `FDManager::get`, `del` | not in the build | growth of the table |

What makes each modelled part correct:

- *loop*: a task posted is executed exactly once, in order, by the loop's thread;
  the channel map is not changed under `epoll_wait`; `quit()` ends the iterations
  and returns.
- *channels and connections*: the channel maps, the channels and the kernel agree;
  a connection is closed exactly once; a descriptor number never carries anything
  over to its next owner; unsent output is always watched for.
- *threads*: nothing is destroyed under a running function; who waits is woken.
- *timers*: the tree stays ordered and complete; cancelled means cancelled; never
  before the period is over; what is overdue is run.
- *buffer and packets*: bytes come out in the order they went in; no access leaves
  the chain; packets are taken out in order, whatever the parts they arrive in;
  what is encoded is read back.
- *HTTP*: every request is answered in order, by the processor of its path; no
  complete request waits in the buffer; nothing runs on a freed session.
- *configuration and logging*: once loading is over the loggers are what the file
  says; no message is lost while they are rebuilt; no call waits for ever; a
  pattern is written in full or refused.

Section 7 has what is not modelled.

## 2. The modules

| module | models | lines of its own state |
|---|---|---|
| `EventLoop` | one loop and the threads that reach it | flags, queue, swapped queue, sessions, program counters |
| `TaskQueue` | *abstract*: one queue of tasks for all posters | four variables |
| `DescriptorRegistry` | *abstract*: who owns a descriptor number and for whom it is watched | three variables |
| `TcpLifecycle` | acceptor, loops, epoll, channels, connections, sessions, the kernel's sockets and the peers | kernel, per connection, per loop |
| `MCTcpLifecycle` | symmetry for TLC | |
| `ThreadPool` | pool, threads, the destructors and the condition variable | owner and thread program counters, flags, lifetimes |
| `Timer` | the timers of one loop | clock, pass, tree, timers |
| `ByteArray` | the buffer of a connection | positions, block pointers, bytes |
| `ByteCodec` | encoders and decoders over a buffer, byte order, zigzag | operators |
| `Packets` | sender, `Buffer::getPack` and the read handler around it | what is sent, has arrived, was taken out |
| `MCBuffer` | the three above side by side | a number to encode |
| `HttpDispatcher` | the two tables of processors | operators |
| `HttpSession` | one HTTP connection, its session, its peer | stream, buffers, connection, callbacks, the loop's thread |
| `MCHttpSession` | paths and registrations | |
| `ConfigFile` | the nodes of a document and the conversion of "logs" | operators |
| `Logging` | the configuration file, the item "logs", its listener, the loggers, threads that load, log and set formatters | file, item, loggers, call stacks |
| `LogFormatter` | the parser of patterns | operators |
| `MCLogging` | loggers and documents; all short patterns | a pattern |
| `DescriptorRegistryProofs`, `TcpLifecycleProofs`, `EventLoopProofs`, `ThreadPoolProofs`, `TimerProofs`, `HttpSessionProofs`, `LoggingProofs` | theorems about the module of that name | |
| `BufferProofs` | theorems about `ByteArray` and `Packets`, as `MCBuffer` joins them | |

They compose as the code does. `EventLoop` is the loop itself with sessions
reduced to what they do to the loop; `TcpLifecycle` takes running loops for
granted and looks at what their handlers do to sockets; `ThreadPool` takes a
loop as "runs until told to quit" and looks at lifetimes. `TcpLifecycle`
implements `DescriptorRegistry` (`ImplementsRegistry`), and `EventLoop` implements
`TaskQueue` (`ImplementsQueue`), both checked and proved.
`HttpSession` takes one connection out of `TcpLifecycle` and looks into its
messages, dispatching through `HttpDispatcher`; `Packets` is what another kind of
connection does with its buffer, the queue that `ByteArray` is within one block.
`Logging` loads what `ConfigFile` makes of a document.

### How the models correspond to the code

**EventLoop.** One action per step between two points at which another thread
can be seen: `AddTaskTest` is the thread test of `addTask`, `AddTaskPush` the
push under `m_mutex`; `updateChannel` makes its own test again. The runner goes
`LoopEnter`, `LoopRunning`, `LoopTest`, one of the polls, handlers,
`DoTasksSwap`, `DoTasksNext`..., and back, and ends in `LoopEndLock`,
`LoopClear`, which destroys the sessions while `m_mutex` is held. Quitters go
`QuitLock`, `QuitWake`, `FinishOrWait`. The creator of the loop is chosen
initially: a pool loop is constructed by another thread than the one that runs
it, so until `LoopEnter` the wrong thread passes for the loop's own
(`NoWindow` says when this cannot matter). `next_timeout` is read before it is
written: what it starts from is a nondeterministic choice. One session stands
for the batch of active channels; timers touch none of this state.

**TcpLifecycle.** Each loop's thread has a label; `handleEvent` is followed
callback by callback (`EventClose`, `onError`, `onRead`, `HandleRequest`,
`onWrite`, `EventWrite`) and `onClose` in its three parts (`CloseDisable`,
`CloseSocket`, `CloseCallback`), between which the acceptor may be handed the
same descriptor number. The kernel's side is `owner`, `interest`, the receive and
send buffers; the peer may send, close, reset and read at any time. What a
request contains is left out: a request is a unit, a reply `ReplySize` units.
`m_isNonBlock` is not initialised for accepted sockets, so each gets either
value. A plain `TcpSession` owns its connection alone, an `HttpSession` keeps a
second reference (`SecondOwner`). Its handler may set the write callback
(`removes`), which `onWrite` calls after the last byte: `removeSession` erases the
session, and the connection is closed and freed under whatever handler is
running. A connection the kernel refuses to watch is given up at once by a
`TcpSession`; that of an `HttpSession` lives on its second reference until the
list `doTasks` works on is destroyed (`dropped`, `DropTask`). A thread that would use
freed memory stops at the label "undefined". `poll` is an `epoll_wait` that returns for
an event, `PollTimeout` one that returns without one, after which tasks run; nothing
says that it ever does, since the timeout starts from an unset variable and
`addTask` wakes nobody. An iteration with neither event nor task is a stutter.

**ThreadPool.** The owner's calls, the thread's `entry()` step by step, and the
destructors in the order the members go. `kind` chooses a pool of event threads
or of plain threads. The pool is started once and its threads are detached. The owner
may destroy it at any moment after that, also while threads are on their way into
their loops: one that finds its loop gone stops at "undefined". A plain thread that
was bound to no function (`Unbound`) leaves `entry()` at once, without `m_isEnd` and
without a notification.

**Timer.** Callers (any thread, or a callback) and the pass of the loop.
`m_timers` is a set of pairs, timer and the deadline it was inserted under, so that
an entry whose key was changed behind the tree's back is an entry that `find()`
misses. `Construct` and `queue` are two steps because `addTimer` computes the
deadline before it locks; `ReadClock` and `listExpiredCb` likewise.

**ByteArray.** One action per call a connection makes of its buffers; the byte
loops of `write`, `read`, `getReadBuffers` and `getWriteBuffers` are given in
closed form (`Stored`, `ByteAt`, `GatheredAt`), including what they do beyond a
block. The k-th byte has the value k, so order and loss can be seen.

**ByteCodec.** An integer is a number below `2 ^ Width`, a byte has `Group + 1`
bits; each writer gives the bytes it would write, each reader what it makes of
them. The macros of `Endian.h` are given their values: they hide the ones of the
system, whose `BYTE_ORDER` equals neither, so every integer is swapped, whatever
`setIsLittleEndian()` was told.

**Packets.** A packet is its place in the stream: of each the model keeps its size and
where it ends, which is where the next one starts, and its *looks*: which two of
the bytes behind its head look like a head, by their distance from its end, and what
the eight bytes behind them read as, which may be any number. `LengthOf` is what the
length field holds, and `Consumed` that `getPack` takes it for the whole: it stops
ten bytes early, an even number, so that the search by twos (`Heads`) meets the next
head, unless two of the ten bytes look like one. Then what is taken out next is no
packet (`packet` 0), and what the search meets after that depends on its length. The
stream ends with the first block (`Room`), up to which the buffer is a queue.
Checksum and data are read from the wrong place, and the sum runs behind the end
of `packData`: whether a packet passes for valid is a choice.

**HttpDispatcher, HttpSession.** `Regist` is a call of `regist()` in `main()`; the
calls come one by one before the server runs (`Connect`), and the tables are state.
A path is the sequence of what follows its slashes, so `/` is one empty segment
(`Root`). `Matches` is the regular expression `(^str/+.*)|(str)`: the path itself and what
lies behind a further slash. That makes a fuzzy `/` match itself and `//...`, and not
`/a`. `Before` is the order of `std::map`.

Messages are kinds: what the parsers and `find()` tell apart. The peer sends the word
of a message and its rest in two units, and may close its side or reset the connection
at any time. A reset comes out of the poll as an error (`events`), out of `recv` as -1
(`RecvFails`) or out of `send` as -1, whichever the thread meets first; each closes.
One action per turn of the loop in `HttpConnection::onRead` (`handleRequest`,
`onParseRequestError`, `HandleResponse`, `onParseResponseError`, `HandleUnknown`,
`MessagesDone`), each with the `onWrite` it calls, which may close the connection or
run the write callback that frees it. The close is part of the action that makes it
and the poll one action, since no other thread sees them. A handler that would go on
in a freed session stops at "undefined".

**Logging.** A load goes `LoadFromConfDir` (`lstat`), `PassOver` or `Note` (the time
is compared with the one noted before, 0 if there is none, and noted), `LoadFromYaml` or
`LoadFails`, `fromString` or `setValue` (the read lock is taken), the listener
logger by logger (`ClearLevel`, `clearOutputters`, `SetLevel`, `Construct`,
`addOutputter`, ...), `ReadUnlock`, `Assign`. The file may change, and another load
run, between any two of these. The calls of `log()` a
thread is in are a stack, since outputters and the root logger log in turn; a
spinlock is held from `LogLock` to `LogUnlock`. Consecutive messages of one call
to one logger are one message. `LogFormatter` follows the two nested loops of
`init()` over their common index and is applied to a pattern that grows.

## 3. What is checked

Every property has a mutant in `PROJECT.json`: a definition changed the way a
plausible bug would change it, under which TLC finds the property violated.

| run | shows |
|---|---|
| `loop` | tasks are neither lost, doubled nor reordered (`EachTaskOnceInOrder`), whichever thread pushes first is served first (`ImplementsQueue`); outside the start-up window they run in the loop's thread, which alone touches the sessions, and none is dropped by the two thread tests (`OneThreadOneLoop`); the channel map is stable under poll (`ChannelsStableDuringPoll`); no iteration after `quit` (`NoIterationAfterQuit`); posted tasks run and `quit` returns, each with its exact exceptions (`TasksEventuallyRun`, `QuitReturnsUnlessLive`) |
| `lifecycle_two_loops` | across two loops that reuse each other's descriptor numbers, with a kernel that may refuse to watch: `ChannelsAgreeWithKernel`, `ClosedOnceAndForAll`, `ImplementsRegistry`; and a refused connection leaves no entry, no session and, once its loop is done with its tasks, no open descriptor (`RefusedLeavesNothing`) |
| `lifecycle_output` | partial sends, pipelined requests, a write callback that removes the session, a refusing kernel, sockets that never connected: `PendingOutputWatched`, `BatchIsAlive`; the connection of an `HttpSession` goes only with its session, and is used after that only by the loop over requests (`OnlyRemovalFreesSecondOwner`); and under fairness `PeerGoneReleases`, `AcceptedIsServed`, each with the exceptions it states, and `OutputDrains` |
| `pool` | of a pool destroyed at any moment: `ThreadOutlivesFunction`, `LoopOutlivesFunction`; and who waits is woken by every thread that comes to the end of a function (`SleeperIsWoken`) |
| `timer` | `TreeIsOrdered`, `DeadlineIsAPeriodAhead`, `CancelBeatsOneShot`, `CancelledStaysOut`, `OneShotOnce`, `DueIsCollected` |
| `buffer` | `NeverOffTheChain`; within the first block the buffer is a queue (`FirstBlockFifo`); packets in any parts are taken out in order, each once, up to the first that leaves what looks like a head behind (`PacketsInOrder`); what the encoders write is read back, as far as the readers can (`IntegersReadBack`) |
| `http` | with a peer that may also reset: requests are answered in order by a processor registered for their path, in the sense a caller of `regist()` would give it (`AnsweredInOrder`, `Expected`), none is left behind in the buffer (`NoneStranded`); exactly when a handler runs on its own freed session (`OnlyStaleCallbackFrees`), when output is cut off (`OutputAbandonedOnlyFor`) and when the read handler never returns (`ReadReturnsUnlessUnknown`) |
| `logging` | outputters have the formatter of their logger (`OutputtersFollow`); the loggers are what the file says once loads that did not overlap are over (`ConfiguredWhenQuiet`); a message is lost only when a value has taken the root's console (`NoMessageLost`); calls return unless the root's own file outputter cannot open its file (`CallsReturn`); patterns of up to five characters are written or refused (`PatternsWritten`) |

### Findings

Four runs are expected to end in a violation. Each shows that the code does not
do what its own comments say:

| run | what happens |
|---|---|
| `loop_quit_live` | `loop()` clears `m_sessions` with `m_mutex` held; the destructor of a connected session locks it again (`updateChannel`). The loop's thread stops, `quit()` never returns. |
| `lifecycle_busy` | a send buffer that is full (`EWOULDBLOCK`) takes the branch of a peer that has gone: the connection is closed. |
| `pool_lost_wakeup` | `m_isEnd` is set and notified without the mutex, between the waiter's test and its sleep: the destructor sleeps for good. |
| `buffer_fifo` | `hasWritten` steps the write block once too few when a write crosses or fills a block: what comes next overwrites the beginning of the buffer. In the model that is the second step; in the program, a receive of more than 4096 bytes on a fresh connection. |

Further defects are part of what a passing run says, as the exception its
property makes:

- `OnlyRemovalFreesSecondOwner`: the close callback of a plain `TcpSession` destroys
  the connection inside `onClose`, and `handleEvent` goes on to the next callback of
  the dead object. An `HttpSession` survives that by its second reference, but not
  the write callback, which drops both while `onRead` is still working.
- `RefusedLeavesNothing`: when the kernel refuses the channel of an `HttpSession`, the
  socket stays open until all other tasks of the same list have run.
- `AcceptedIsServed`, `PeerGoneReleases`: a connection whose task waits in a loop whose
  `epoll_wait` never returns is not initialised, and not closed when its peer leaves.
- `SleeperIsWoken`: a thread without a function never sets `m_isEnd`, so who waits for
  its end sleeps for good.
- `LoopOutlivesFunction`: the destructor of a loop does not wait for a thread that has not
  yet set `m_isRunning`, which then runs in an object that is gone.
- `OnlyStaleCallbackFrees`: `handleRequest` sets the write callback after `send()`
  has flushed. It fires under the next request, and erases the session whose
  handler is running.
- `ReadReturnsUnlessUnknown`: the loop over messages never ends on a message that is
  neither request nor response, which the body of a request is, since only its
  head is consumed.
- `OutputAbandonedOnlyFor`: a full send buffer cuts a reply off (`lifecycle_busy`).
- `CallsReturn`: `reopen()` logs to the root logger inside a call of the root logger,
  whose spinlock is not recursive.
- `ConfiguredWhenQuiet`: two loads that overlap may store the older file, and both
  add outputters; a change within the second whose time was noted is not loaded; a
  name with capitals is refused before names are put into lower case.
- `PacketsInOrder`: a valid packet with nothing behind it makes `getPack` throw, out
  of the loop. And the ten bytes that a packet leaves behind are searched for a head:
  if two of them look like one, what is taken out next is no packet, or `getPack`
  waits for as many bytes as the data behind them say.
- `IntegersReadBack`: integers of variable length are read back only if they fit one
  byte or all of their groups are equal, and a string is read from the bytes of its
  length.
- `FirstBlockFifo`: with more than one block unread `getReadBuffers` gives its last
  entry the length of the whole, so `sendmsg` reads beyond the block and `hasRead`
  throws; and `recv` throws when the buffer is exactly full.

### Bounds, and why they are enough

- `loop`: three threads and three tasks (`MaxTotal`, at most `MaxPosts` = 2 each):
  two posters racing, one of them the creator, a task behind another of the same
  poster, the runner posting to itself. Both values of `early`, of `epoll_create`
  and of the timeout. Two quitters, one of them the runner.
- `lifecycle_two_loops`: two descriptors for three connections, one of an `HttpSession`,
  one of a `TcpSession` and one that never connected, so that a number is reused in the
  same loop and in the other one while the first is still in `onClose`, and a refused
  one is reused too; no requests, which move no descriptor by themselves.
- `lifecycle_output`: `Room` = `ReplySize` = 2 and two requests, so that a reply is
  sent in parts, a second is appended to a first, the buffer is full, and the write
  callback set by one request is there for the next. An `HttpSession` and a socket
  that never connected, one behind the other on one number.
- `pool`: three threads, so that a first, a middle and a last are met; the middle one,
  in a pool of plain threads, has no function.
- `timer`: two timers, periods 0, 1 and 2, four instants: due at once, later, and
  beyond the horizon; two expiring in one pass. Time stops at `MaxNow`.
- `buffer`: blocks of three bytes, calls of up to five, eight bytes: within a block,
  to its end, over one and over two boundaries. Three packets of no or one byte of
  data, cut anywhere, in a block that the longest three do not fit; each may hide
  nothing, a pair at an even distance from its end with a length behind what is sent
  or within the next packet, or one at an odd distance. All integers of eight bits in
  bytes of four, with three groups, so that a first, a middle and a last byte are met.
- `http`: three messages, each of any of the eight kinds: the callback that an
  earlier request has set, the one it fires under, and one behind; a send buffer of
  one reply. Two sequences of registrations: fuzzy processors that shadow one another,
  one of them registered twice, beside one for `/`; and two cases between which the
  order of bytes decides.
- `logging`: two loaders of one load each and one edit of a file that begins with any
  document, so that two values are set one over the other and the file changes at any
  point of a load; documents that give two values, none, one that does not
  convert, none under the name, and one that is no YAML; one writer that logs a message
  or sets the formatter of one of two loggers. Patterns of up to five of seven
  characters: two directives, or one with braces and a character behind.

Deadlock checking is off only where the system ends (see each `.cfg`); `timer`
has it on.

### Fairness, and why the code justifies it

- `EventLoop!FairSpec`: weak fairness of each thread's own steps inside a call,
  because the operating system schedules it; a poll with a bounded timeout returns
  and one without does not have to; nobody is obliged to post or to quit.
- `TcpLifecycle!FairSpec`: each loop's thread goes on; `epoll_wait` returns for an event.
  It owes no return without one: `PollTimeout` is under no fairness, as the time
  limit comes from an unset variable (`EventLoop.cpp:38`) and nothing wakes the poll.
  Hence the exceptions of `PeerGoneReleases` and `AcceptedIsServed`. Peers owe nothing,
  except that one reads what was sent to it or goes away, which is what
  `OutputDrains` depends on.
- `ThreadPool!FairSpec`: created threads run, an owner inside a call goes on.
- `Timer!FairSpec`: a pass that has begun ends, the clock goes on. That the poll
  returns is *not* assumed: the loop never asks `getNextTimer()`, so
  `DueIsCollected` has it as its hypothesis (`[]<><<ReadClock>>_vars`).
- `HttpSession!FairSpec`: the loop's thread goes on; the peer owes nothing.
- `Logging!Fairness`: each thread inside a call goes on. Weak fairness is enough for
  who waits at a spinlock because the calls of the others are bounded; the code's
  spinlock promises nothing to a thread that others keep overtaking.

## 4. What is proved

All for any values of the constants that satisfy the named assumptions, which the
modules state next to their constants (`LifecycleAssumption`, `ThreadsAssumption`,
`BoundsAssumption`, `NoTaskAssumption`, `PoolAssumption`, `TimerAssumption`,
`ByteArrayAssumption`, `PacketsAssumption`, `HttpAssumption`, `LoggingAssumption`,
`DocumentsAssumption`; the registry and the queue need none). They say what the
constants are (sets, naturals, a null value that is not one of the values, entries of
a document with a level and a list) and nothing of the behaviour. Bounds such as
`MaxTotal` or `MaxMsgs` are constants like the others: the theorems hold whatever they
are. Every invariant below, as far as TLC can evaluate it, was checked on a small
instance before it was proved.

**`TcpLifecycleProofs`.** `LifecycleTypeCorrect`, `LifecycleChannelsAgree`,
`LifecycleClosedOnce`, `LifecycleRefusedLeavesNothing`, `LifecycleBatchIsAlive`
and `LifecycleImplementsRegistry`: any number of connections, descriptors and
loops. None of these is inductive. The invariant `Inv` adds
 - `OwnerInv`: an open descriptor's owner names it, and is queued, alive or dropped;
 - `ConnInv`: what each state of a connection says about its descriptor and where
   the thread that handles it is;
 - `ThreadInv`: what each label says of the connection in hand; in particular
   between `CloseDisable` and `CloseSocket` the descriptor is unwatched but still
   owned, which is why the acceptor cannot be given it yet;
 - `QueueInv`: a queued session is queued once, in its loop. Without it two loops
   might initialise one connection.
The proof has a lemma for each action (`PeerInv`, `ConnectInv`, `IterationInv`,
`SessionInv`, `DropInv`, `HandlerInv`, and the three parts of `onClose`), each with a
step per conjunct. The handlers share one lemma, `HandlerStep`, since they move no
descriptor. For the refinement, `WatchOf` reads the abstract `watch` off the channel
maps; `WatchedIsWatch` shows that under `Inv` at most one loop has an entry for a
descriptor, so the `CHOOSE` is determined, and `Mapped` that every step is a step of
the registry or a stutter.

`LifecycleOnlyRemovalFrees` adds `FreedInv`: the connection of an `HttpSession` that is
alive has its session in the loop or is being removed (`LivesInSession`), and the
handler whose write removes it is on its way through `onClose` back to the loop over
requests, or to the end of the event (`HandlerOK`).
`LifecyclePendingOutputWatched` adds `WatchInv`, for each connection by itself: what
it has in its write buffer, what its channel asks for and what the kernel watches
agree while it is connected; the write buffer is left out of this on the way to
`onClose`.

**`DescriptorRegistryProofs`.** In the registry a number is watched only for its
owner, and a connection owns at most one.

**`EventLoopProofs`.** `LoopNoIterationAfterQuit`, `LoopOneThreadOneLoop` and
`LoopChannelsStableDuringPoll` follow from `Inv`: the types, `Control` (who holds
`m_mutex`, whose `m_threadId` is, and which labels a thread other than the Runner
can be at) and `Quits` (while an iteration is in progress `m_isRunning` is set; a
`quit()` that has returned or closed the descriptor has left `m_isQuiting` behind and
no iteration in progress). `LoopEachTaskOnceInOrder` needs more: `Line` puts the
executed tasks, the one in the Runner's hands, the swapped list, `m_tasks` and the
tasks about to be pushed into one sequence. In it the tasks of
a poster stand in their order (`Sorted`), and every task posted is in it or in its
poster's hands (`Complete`). Outside it run only the creator's inline tasks, which
overtake nothing since no list holds a task of the creator then (`InlineFirst`).
The same line is the refinement of `LoopImplementsQueue`: the task taken from the
swapped list, the rest of that list and `m_tasks`, one after the other, are the
abstract `queue` (`Waiting`). A push appends to it and an execution takes its head;
the swap leaves it as it is because the last list was used up (`Swapped`), and so
does taking the next task; an inline run is `ExecuteAtOnce` by `InlineFirst`
(`RunIsExecute`). This orders the tasks of different posters too, which
`EachTaskOnceInOrder` does not; that one says where a task is meanwhile, which the
queue does not.

**`ThreadPoolProofs`.** `PoolThreadOutlivesFunction` rests on `Quited`: `m_isQuited` is
set only if the thread has ended or the owner is in the wait for it. It holds
although the wake-up can be lost (`pool_lost_wakeup`), since the owner then never
destroys anything. `PoolLoopOutlivesFunction` rests on `Looping`: a thread inside
`loop()` has `m_isRunning` set, for which the destructor waits, whenever it comes. It says
nothing of a thread that has not set the flag: that one may find its loop gone, which
TLC reaches ("undefined").

**`TimerProofs`.** The six safety properties of run `timer`, for any timers,
periods and time. `Inv` adds `Tree`: `<<t, d>>` is in the tree exactly if d is the
deadline of t and t is active; and `Spent`: the callback is gone once the timer is
cancelled, or is one-shot and collected. `DueTimers` says what a pass takes out;
the two action properties follow since only active timers are taken out.

**`BufferProofs`.** `BufferNeverOffTheChain`: for blocks of any size and calls of
any size no copy leaves the chain. `Chained` says why: the capacity is a number of
whole blocks, and the block pointers, which `hasRead` and `hasWritten` move as if every
call began at the start of a block, can only lag behind their positions
(`CopyStart`, `Advance`), while `addCapacityIfNotEnough` adds no less than is missing
(`Growing`). That lag is the very defect of `buffer_fifo`: bytes end up where others
are, but in the chain. `BufferFirstBlockFifo`: until the first block is full the
buffer is a queue and nothing throws. `First` says that both pointers are at block 0
and that cell i holds byte i + 1, so that what is taken out continues what was.

`BufferPacketsInOrder`: for packets of any sizes, cut anywhere, hiding any pairs that
look like a head in front of any lengths, within the first block. `Placed` says that each
packet starts where the one before it ends, and `OnTrack` that, for as long as no packet
taken out was deceptive, the read position is ten bytes short of the next one (or at the
beginning, before the first). Ten is even, so the search by twos meets the next head,
and what it sees before that is the few even distances that `Deceptive` names
(`UpToTen`, `Evens`, `FirstOfFew`): if none of them looks like a head the next packet is
found (`NextFound`), and else what is found is no packet. Beyond that point nothing is
claimed: what happens depends on the length that was found.

**`HttpSessionProofs`.** `HttpNoneStranded`, `HttpOnlyStaleCallbackFrees`,
`HttpOutputAbandonedOnlyFor` and `HttpAnsweredInOrder`, for any stream of messages
and any registrations. `Inv` relates the thread's place to the connection
(`Control`), the units arrived, received and used to each other (`Buffered`), the
loop over messages to what it leaves (`Stranded`), and the write callback to a
request in front of the current one that set it (`Removal`). For the closes of a
connection that was reset, `Reported` says that an error is reported of no other.

`HttpAnsweredInOrder` has two halves. `Answering` keeps the answers in step with the
requests taken out of the buffer. `Tabled` keeps the tables in step with the calls
of `regist()` (`Filled`: the last call for a path in the exact table, the first in the
fuzzy one), from which `DispatchExpected` concludes that `dispatch` finds what
`Expected` says of the calls alone. That rests on the order of `std::map` being
total and transitive (`Total`, `Transitive`), so that among the paths that match
there is always one that comes first (`OrderedMore`), and on a path above another
coming before it (`Above`). `Least`, the least element of a set of numbers, stands
for the induction: it follows from the well-foundedness of finite sets.

**`LoggingProofs`.** `LoggingOutputtersFollow` and `LoggingNoMessageLost` follow from
`Listing`: until a value has named the root logger its list is not empty, and every
outputter without a pattern of its own has its logger's formatter.
`LoggingNoMessageLost` needs `Nobody`, which also stands for the null pointer
`m_root`, to be no logger, which `LoggingAssumption` says. `LoggingLockOrder` is the
safety half of `CallsReturn`: a thread that waits for a spinlock while it holds
another waits for that of the root logger; if it holds that one itself, its file
outputter is reporting to itself. So there is no circle of several threads. `Locking`
says what the stack of a thread's calls looks like and that a lock is held
exactly by the thread with a call that writes for its logger.

`LoggingConfiguredWhenQuiet` is the correctness of a load, for any documents. Its
invariant `Configuring` says what each logger lists in the middle of one: `Base`, the
console that no value has cleared, followed by `Expected`, which is the list of the
old value until the logger is cleared, nothing until it is reached again, then the
outputters of a known type among those built so far (`AtWork`: what is still to be
built is a rest of the list), and in the end the list of the new value. `Fresh`
follows the file in the same way: if its time is the one that was noted, what it says
is about to be read, or is carried by a load, or is stored. Only loads that do not
overlap keep this; `Shape` and `Times` hold for all: no time that was noted, or that
`lstat` has told a loader, is later than that of the file. Each step of a load has its
lemma; they share `GoesOn`, `Returned`, `ListsStay` and `ReadsOrNot`.

Two loops over lists are in that statement, the converter's, which skips what is no
map, and the listener's, which skips unknown types. `Kept` gives their result as a
recursive function of the rounds made, and `RoundsExist` shows that the recursion
has a solution, `KeptRounds` that it is the one meant: were there rounds that cannot
be made, there would be a least number of them (`LeastPosition`, from the
well-foundedness of finite sets), which is what the library's induction would give.

### Only model-checked

- Liveness under fairness and everything about ENABLED, which the prover does not
  reach: `TasksEventuallyRun`, `QuitReturnsUnlessLive`, `PeerGoneReleases`,
  `AcceptedIsServed`, `OutputDrains`, `SleeperIsWoken`, `DueIsCollected`,
  `ReadReturnsUnlessUnknown`, `CallsReturn`.
- What folds and powers compute from data: what `LogFormatter` makes of a pattern
  (`PatternsWritten`) and `ByteCodec` of an integer (`IntegersReadBack`). The prover
  knows nothing of exponents and cannot instantiate the library's induction theorems.
  Where another proof needed induction, the model builds the data step by step, as
  `Regist` fills the tables and `Send` the stream of packets, or has a recursive
  function, as `Kept`.

## 5. Hazards

`PROJECT.json` lists, line by line, what in this code a test would hardly reach,
and which property would catch it going wrong; where there is none, why.

## 6. The plan

What is modelled is in section 2, and what is proved of it in section 4: of each
module with threads or callbacks, every safety property its run checks. What could be
stated next is that a pool loop implements what `TcpLifecycle` takes for granted of a
running loop.

What is left to model: `TcpServer::exit` over `EventLoop` and `ThreadPool`, once
something calls it, and `FDManager` once the hooks are built.

## 7. What is not modelled, and why

- *The tables of the HTTP parsers* are vendored (mongrel2); what they say of a
  message is data of `HttpSession`. The records of requests and responses are
  formatting.
- *Other configuration items and containers*, and the conversions to text: nothing
  listens to the items and nothing asks for the text. (`LogConfItem` would not
  survive it: its outputters are pushed as the text of the whole node.)
- *`ByteArray::clear`, `reset` and `refresh`, `Logger::delOutputter`,
  `TcpServer::exit`, `TcpChannel::disableReading`, `getNextTimer` and `join` of a
  pool*: nothing calls them on what is modelled.
- *Hooks*: `hook/Hook.cpp` is not built, includes headers that are not in the
  repository and is the only caller of `FDManager`.
- *Functions that return a value and have no `return`* (`ConfigItem::fromString`,
  `TcpSession::removeConnectionInLoop`) are taken to return something that nobody
  reads, as in the build of `CMakeLists.txt`, which does not optimise.
- *The destruction of a session that is erased while its connection is open* runs its
  close callback on itself; it is taken to close the socket and do no more.
- *The acceptor's own reference*: `onConnect` is one step, although it keeps its
  reference to the new session until it returns (`HttpServer.cpp:21-25`); see the hazard.
- *Races on single variables*: the map of file times (`config/Config.cpp`) and the
  flags that threads share without a lock are accessed as if each access were atomic.
- *`EPOLLHUP` without `EPOLLIN`* is reported only for sockets that never connected
  (`Unconnected`), which is when Linux reports it.
- *Session life control* (`checkValid`, `lifeControl`): the call is commented out
  (`network/TcpSession.cpp:36`).
- *An exception out of a handler* ends the program; `ByteArray` ends there.
- *Failing `accept`, `listen`, `bind`*: the server stops and nothing is left to check.
- *Locks* are part of the modules that use them; `Semaphore` and `CASLock` are unused.
- *Vendored code* under `src/server/external` and `src/server/lib`.
