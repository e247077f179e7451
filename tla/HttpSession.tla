----------------------------- MODULE HttpSession ------------------------------
(***************************************************************************)
(* One HTTP connection in the thread of its loop: HttpConnection with its  *)
(* loop over messages, HttpSession with its handler and the write callback *)
(* that removes it, and the dispatcher between them.                       *)
(*                                                                         *)
(* The peer sends messages in two units: the first holds the word up to    *)
(* the first space, the second the rest.  What the parsers and find() tell *)
(* apart of a message is its kind:                                         *)
(*   request, response        a head the parser accepts                    *)
(*   odd          a request the parser accepts and a callback flags        *)
(*   bad, badResponse         a head the parser refuses                    *)
(*   unknown      a first word that is neither                             *)
(*   short, long  a request's body, which is not consumed with its head:   *)
(*                no space in it, nor, if long, in the first 20 bytes      *)
(* The steps of closing and of polling are those of TcpLifecycle.tla, here *)
(* one action each.  m_incompleteReqCnt is read by lifeControl() only,     *)
(* whose call is commented out.                                            *)
(***************************************************************************)
EXTENDS HttpDispatcher

CONSTANTS
  Registrations, \* the sequences of calls of regist() considered
  Paths,         \* paths that are asked for
  Kinds,         \* kinds of messages sent, within AllKinds
  MaxMsgs,       \* bound: messages the peer sends
  ReplySize,     \* units of output of one reply
  Room,          \* units that fit the kernel's send buffer
  NonBlock,      \* values the unset m_isNonBlock may have
  BadRequest     \* the reply 400

AllKinds == {"request", "odd", "bad", "response", "badResponse", "unknown", "short", "long"}

ASSUME HttpAssumption ==
  /\ Case \in Nat \ {0} /\ Kinds \subseteq AllKinds
  /\ MaxMsgs \in Nat /\ ReplySize \in Nat \ {0} /\ Room \in Nat \ {0}
  /\ NonBlock \subseteq BOOLEAN
  /\ Paths \subseteq Seq(Nat)
  /\ Registrations \subseteq Seq([str : Seq(Nat), fuzzy : BOOLEAN])

\* keep: the request has a Connection header that is not empty.  An odd request
\* asks for the path / and has one.
Messages ==
  [is : Kinds \cap {"request"}, path : Paths, keep : BOOLEAN]
    \cup [is : Kinds \ {"request"}, path : {Root}, keep : {TRUE}]

VARIABLES
  regs,          \* the calls of regist() before the server runs
  registered,    \* how many of them have returned
  table,         \* the tables of HttpDispatcher
  greedy,        \* TcpSocket::m_isNonBlock
  stream,        \* what the peer has begun to send
  arrived,       \* units the peer has sent
  fin,           \* the peer has closed its side
  rst,           \* the peer has reset the connection
  room,          \* free units in the send buffer
  got,           \* units recv() has put into m_readBuffer
  used,          \* messages taken out of m_readBuffer
  wbuf,          \* units in m_writeBuffer
  writing,       \* EPOLLOUT is in the interest
  state,         \* TcpConnection::m_state: "None" before there is a connection,
                 \* "Freed" after its destructor
  kept,          \* is the session in EventLoop::m_sessions?
  removes,       \* the write callback that removes the session is set
  events,        \* m_activeEvent
  at,            \* where the loop's thread is, "setup" before it runs
  answers        \* history: the replies appended to m_writeBuffer

peer == <<stream, arrived, fin, rst>>
dispatcher == <<regs, registered, table>>
vars == <<dispatcher, greedy, peer, room, got, used, wbuf, writing, state, kept, removes,
          events, at, answers>>

Init ==
  /\ regs \in Registrations /\ registered = 0 /\ table = EmptyTable /\ greedy \in NonBlock
  /\ stream = <<>> /\ arrived = 0 /\ fin = FALSE /\ rst = FALSE /\ room = Room
  /\ got = 0 /\ used = 0 /\ wbuf = 0 /\ writing = FALSE
  /\ state = "None" /\ kept = FALSE /\ removes = FALSE
  /\ events = {} /\ at = "setup" /\ answers = <<>>

-----------------------------------------------------------------------------
\* main() registers its processors before it runs the server.
Regist ==
  /\ at = "setup" /\ registered < Len(regs)
  /\ registered' = registered + 1
  /\ table' = regist(table, regs[registered + 1], registered + 1)
  /\ UNCHANGED <<regs, greedy, peer, room, got, used, wbuf, writing, state, kept,
                 removes, events, at, answers>>

\* The server runs and a connection comes in.
Connect ==
  /\ at = "setup" /\ registered = Len(regs)
  /\ state' = "Connected" /\ kept' = TRUE /\ at' = "poll"
  /\ UNCHANGED <<dispatcher, greedy, peer, room, got, used, wbuf, writing, removes,
                 events, answers>>

-----------------------------------------------------------------------------
\* The peer: the word of a message, its rest, the end of the stream, a reset, and
\* reading.  Behind a body it sends a request.
PeerActs(a) ==
  /\ state = "Connected" /\ ~rst
  /\ a
  /\ UNCHANGED <<dispatcher, greedy, got, used, wbuf, writing, state, kept, removes, events,
                 at, answers>>

SendWord == \E msg \in Messages : PeerActs(
  /\ ~fin /\ Len(stream) < MaxMsgs /\ arrived = 2 * Len(stream)
  /\ stream # <<>> /\ Last(stream).is \in {"short", "long"} => msg.is = "request"
  /\ stream' = Append(stream, msg) /\ arrived' = arrived + 1
  /\ UNCHANGED <<fin, rst, room>>)

SendRest == PeerActs(
  /\ ~fin /\ arrived < 2 * Len(stream)
  /\ arrived' = arrived + 1
  /\ UNCHANGED <<stream, fin, rst, room>>)

SendFin == PeerActs(~fin /\ fin' = TRUE /\ UNCHANGED <<stream, arrived, rst, room>>)

\* What has arrived before the reset can still be read.
SendReset == PeerActs(rst' = TRUE /\ UNCHANGED <<stream, arrived, fin, room>>)

PeerReads == PeerActs(room < Room /\ room' = Room /\ UNCHANGED peer)

-----------------------------------------------------------------------------
\* The loop's thread.
Unread == got - 2 * used
HeadOf == stream[used + 1]

\* String2HttpMethod and the search for HTTP/1.x.
Classify(kind) ==
  CASE kind \in {"request", "odd", "bad"} -> "method"
    [] kind \in {"response", "badResponse"} -> "version"
    [] OTHER -> "unknown"

\* What find() puts in front of the first space among the first 20 bytes, as it
\* is classified.  The word of a message behind a short body runs together with
\* the body.
Word ==
  IF Unread = 0 THEN "none"
  ELSE IF HeadOf.is = "long" \/ (HeadOf.is = "short" /\ Unread <= 2) THEN "none"
  ELSE Classify(HeadOf.is)

\* The parsers over what is unread.  The callbacks of the request parser set
\* m_error for a version it does not know, and the parser goes on.
RequestParser ==
  [isFinished |-> Unread >= 2 /\ HeadOf.is \in {"request", "odd"},
   hasError |-> Unread >= 2 /\ HeadOf.is \in {"odd", "bad"}]

ResponseParser ==
  [isFinished |-> Unread >= 2 /\ HeadOf.is = "response",
   hasError |-> Unread >= 2 /\ HeadOf.is = "badResponse"]

\* A reset is reported as IN, ERR and HUP, so that the first test of
\* handleEvent(), for HUP without IN, does not hold of a connection that was
\* accepted.
poll ==
  /\ at = "poll" /\ state = "Connected"
  /\ events' = (IF arrived > got \/ fin THEN {"IN"} ELSE {})
                 \cup (IF rst THEN {"IN", "ERR", "HUP"} ELSE {})
                 \cup (IF writing /\ (room > 0 \/ rst) THEN {"OUT"} ELSE {})
  /\ events' # {}
  /\ at' = "in"
  /\ UNCHANGED <<dispatcher, greedy, peer, room, got, used, wbuf, writing, state, kept,
                 removes, answers>>

\* recv() meets the end of the stream or the error of a reset, in this call of
\* recvmsg or in the one after the data.
RecvFails == (fin \/ rst) /\ (greedy \/ arrived = got)

\* handleEvent() up to the loop of onRead(): onError() comes first, and onRead()
\* returns at once for a connection it has closed.  The close callback resets the
\* session's reference, and the session stays in m_sessions.
onRead ==
  /\ at = "in"
  /\ \/ /\ "ERR" \in events
        /\ at' = "out" /\ state' = "Disconnected" /\ UNCHANGED got
     \/ /\ events \cap {"ERR", "IN"} = {}
        /\ at' = "out" /\ UNCHANGED <<got, state>>
     \/ /\ "ERR" \notin events /\ "IN" \in events
        /\ got' = arrived
        /\ IF RecvFails THEN at' = "out" /\ state' = "Disconnected"
           ELSE at' = "messages" /\ UNCHANGED state
  /\ UNCHANGED <<dispatcher, greedy, peer, room, used, wbuf, writing, kept, removes, events, answers>>

\* HttpRequest::getHeader("Connection", "") == "".
NoConnection == ~HeadOf.keep

\* Mutants: the callback also runs while output is left; it is set before the
\* reply is sent.
MutCallbackAlways(n, have) == removes

MutCallbackFirst(n, have) == n = have /\ (removes \/ (at = "messages" /\ NoConnection))

\* onWrite() calls the write callback once the buffer is empty.
CallsBack(n, have) == removes /\ n = have

\* TcpConnection::onWrite with the buffer holding have units: everything that
\* is not a positive count closes, the error after a reset too.  The write callback,
\* once set, erases the session, with it the connection, and closes its socket.  A
\* connection that is neither closed nor freed by this is left in the state given.
onWrite(have, left) ==
  \/ /\ state # "Connected"
     /\ wbuf' = have /\ UNCHANGED <<room, writing, state, kept>>
  \/ /\ state = "Connected" /\ (rst \/ have = 0 \/ room = 0)
     /\ state' = "Disconnected" /\ wbuf' = have /\ UNCHANGED <<room, writing, kept>>
  \/ /\ state = "Connected" /\ ~rst
     /\ \E n \in 1 .. Room :
          /\ n <= have /\ n <= room
          /\ room' = room - n /\ wbuf' = have - n /\ writing' = (n < have)
          /\ IF CallsBack(n, have)
             THEN state' = "Freed" /\ kept' = FALSE
             ELSE state' = left /\ UNCHANGED kept

Replies(text) == answers' = Append(answers, [to |-> used + 1, reply |-> text])

\* The rest of a handler that runs on a freed connection and session is
\* undefined.
Back(label) == at' = IF state' = "Freed" THEN "undefined" ELSE label

InLoop == at = "messages" /\ UNCHANGED <<dispatcher, greedy, peer, got, events>>

\* The first of the tests that holds: a request that is finished is handled
\* whatever a callback has set.
NextIs(what) ==
  \/ Word = "method" /\ what = IF RequestParser.isFinished THEN "request"
                               ELSE IF RequestParser.hasError THEN "bad request" ELSE "part"
  \/ Word = "version" /\ what = IF ResponseParser.isFinished THEN "response"
                                ELSE IF ResponseParser.hasError THEN "bad response" ELSE "part"
  \/ Word \in {"none", "unknown"} /\ what = Word

\* Mutant: the loop ends after one request.
MutOneRequest ==
  /\ InLoop /\ NextIs("request")
  /\ used' = used + 1
  /\ Replies(dispatch(table, HeadOf.path))
  /\ onWrite(wbuf + ReplySize, "Connected")
  /\ removes' = (removes \/ ~HeadOf.keep)
  /\ Back("out")

\* A whole request: hasRead() of its head, dispatch, the reply, and then the write
\* callback that removes the session, for a request without a Connection header.
handleRequest ==
  /\ InLoop /\ NextIs("request")
  /\ used' = used + 1
  /\ Replies(dispatch(table, HeadOf.path))
  /\ onWrite(wbuf + ReplySize, "Connected")
  /\ removes' = (removes \/ NoConnection)
  /\ Back("messages")

\* A head the parser refuses: 400, then onClose() as a task that runs inline.
\* The message stays in the buffer.
onParseRequestError ==
  /\ InLoop /\ NextIs("bad request")
  /\ Replies(BadRequest)
  /\ onWrite(wbuf + ReplySize, "Disconnected")
  /\ Back("out")
  /\ UNCHANGED <<used, removes>>

Closed == IF state = "Connected" THEN "Disconnected" ELSE state

HandleResponse ==
  /\ InLoop /\ NextIs("response")
  /\ used' = used + 1
  /\ UNCHANGED <<room, wbuf, writing, state, kept, removes, at, answers>>

onParseResponseError ==
  /\ InLoop /\ NextIs("bad response")
  /\ state' = Closed /\ at' = "out"
  /\ UNCHANGED <<room, used, wbuf, writing, kept, removes, answers>>

\* Neither request nor response: the connection is closed, nothing is taken out
\* of the buffer and the loop goes on.
HandleUnknown ==
  /\ InLoop /\ NextIs("unknown")
  /\ state' = Closed
  /\ UNCHANGED <<room, used, wbuf, writing, kept, removes, at, answers>>

\* Mutant: the loop goes on with a message that is not complete.
MutAwaitRest ==
  /\ InLoop /\ NextIs("none")
  /\ at' = "out"
  /\ UNCHANGED <<room, used, wbuf, writing, state, kept, removes, answers>>

\* The loop ends without a word, or with a message that is not complete.
MessagesDone ==
  /\ InLoop /\ (NextIs("none") \/ NextIs("part"))
  /\ at' = "out"
  /\ UNCHANGED <<room, used, wbuf, writing, state, kept, removes, answers>>

\* The write handler, on the events of the poll; nothing of the connection is
\* used after it, so a session may be erased here.
EventWrite ==
  /\ at = "out" /\ at' = "poll"
  /\ IF "OUT" \in events THEN onWrite(wbuf, "Connected")
     ELSE UNCHANGED <<room, wbuf, writing, state, kept>>
  /\ events' = {}
  /\ UNCHANGED <<dispatcher, greedy, peer, got, used, removes, answers>>

-----------------------------------------------------------------------------
MessageStep ==
  \/ handleRequest \/ onParseRequestError \/ HandleResponse \/ onParseResponseError
  \/ HandleUnknown \/ MessagesDone

LoopStep == poll \/ onRead \/ MessageStep \/ EventWrite

Next == Regist \/ Connect \/ SendWord \/ SendRest \/ SendFin \/ SendReset \/ PeerReads \/ LoopStep

Spec == Init /\ [][Next]_vars

\* The loop's thread keeps running; the peer owes nothing.
FairSpec == Spec /\ WF_vars(LoopStep)

-----------------------------------------------------------------------------
Due(k) ==
  /\ answers[k].to \in 1 .. used /\ stream[answers[k].to].is \in {"request", "odd"}
  /\ answers[k].reply \in Expected(regs, stream[answers[k].to].path)

Refused(k) ==
  /\ k = Len(answers) /\ answers[k].to = used + 1 /\ used < Len(stream)
  /\ HeadOf.is = "bad" /\ state # "Connected" /\ answers[k].reply = BadRequest

\* Every request that was taken out of the buffer is answered, once, in the
\* order of the stream and with a reply its path is registered for; nothing else
\* is answered but a head the parser refuses, with 400, and that once and last.
AnsweredInOrder ==
  /\ \A j, k \in 1 .. Len(answers) : j < k => answers[j].to < answers[k].to
  /\ \A i \in 1 .. used :
       stream[i].is \in {"request", "odd"} => \E k \in 1 .. Len(answers) : answers[k].to = i
  /\ \A k \in 1 .. Len(answers) : Due(k) \/ Refused(k)

\* A read leaves no complete message behind: when the thread is back in the poll
\* only part of a message, or the body of a request, is in the buffer, so that
\* no answer waits for the peer to send more.
NoneStranded ==
  at = "poll" /\ state = "Connected" => Unread <= 1 \/ HeadOf.is \in {"short", "long"}

\* The session is destroyed inside its own handler only when an earlier request
\* without a Connection header was answered at once: the write callback was set
\* too late for its reply and fires under the next one.  A connection that asks
\* for one reply, or whose every request has the header, is never used after it
\* was freed.
OnlyStaleCallbackFrees ==
  at = "undefined" => \E i \in 1 .. Last(answers).to - 1 : ~stream[i].keep

\* Output is abandoned only for a peer that has closed or reset, a message that is
\* refused, or a send buffer that is full: neither a stale EPOLLOUT nor the
\* removal of a session cuts a reply short.
OutputAbandonedOnlyFor ==
  [][state = "Connected" /\ state' # "Connected" /\ wbuf' > 0
       => fin \/ rst \/ room = 0 \/ Word = "unknown" \/ HeadOf.is \in {"bad", "badResponse"}]_vars

\* A read handler comes back to its loop unless the next word is neither that of
\* a request nor that of a response, which includes a body in front of the next
\* request.
ReadReturnsUnlessUnknown == at = "messages" ~> at # "messages" \/ Word = "unknown"

=============================================================================
