------------------------------- MODULE Packets --------------------------------
(***************************************************************************)
(* Packets on a connection: a sender that writes whole packets             *)
(* (network/socket/Packet.cpp), and the read handler of TcpConnection that *)
(* takes them out of its buffer with Buffer::getPack, whatever the parts   *)
(* they arrive in.                                                         *)
(*                                                                         *)
(* A packet is two bytes of head, eight of length, two of command, the     *)
(* data and two of checksum; the length counts what follows it.  Of the    *)
(* bytes behind its head a packet tells where two of them look like a head *)
(* and what the eight bytes behind these read as, some of which may be the *)
(* next packet's: any number.  The buffer is a queue of bytes, as ByteArray*)
(* is until its first block is full, and the stream ends there.            *)
(***************************************************************************)
EXTENDS Integers, Sequences

CONSTANTS
  Sizes,         \* bytes of data in a packet
  Looks,         \* what packets hide: lengths, by the distance of a pair from the packet's end
  MaxPackets,    \* bound: packets sent
  Room           \* bytes of the first block

VARIABLES
  sent,          \* of each packet sent: its data's size, where it ends in the stream, its looks
  arrived,       \* bytes that have arrived: m_writePos
  readPos,       \* m_readPos
  at,            \* where the read handler is: "poll", "packets" or "thrown"
  taken          \* history: packets taken out

vars == <<sent, arrived, readPos, at, taken>>

HeadSize   == 2
LengthSize == 8
\* The value of the length field: command, data and checksum.
LengthOf(size) == size + 4
PackSize(size) == HeadSize + LengthSize + LengthOf(size)

\* Where a packet starts in the stream.
Start(k) == IF k = 1 THEN 0 ELSE sent[k - 1].end
Total == Start(Len(sent) + 1)

Init == sent = <<>> /\ arrived = 0 /\ readPos = 0 /\ at = "poll" /\ taken = <<>>

-----------------------------------------------------------------------------
Send ==
  /\ Len(sent) < MaxPackets
  /\ \E n \in Sizes, looks \in Looks :
       /\ DOMAIN looks \subseteq HeadSize .. PackSize(n) - HeadSize
       /\ sent' = Append(sent, [size |-> n, end |-> Total + PackSize(n), looks |-> looks])
  /\ UNCHANGED <<arrived, readPos, at, taken>>

\* The beginning of TcpConnection::onRead: some of the bytes on their way.
onRead ==
  /\ at = "poll" /\ arrived < Total
  /\ \E n \in arrived + 1 .. Total : n < Room /\ arrived' = n
  /\ at' = "packets"
  /\ UNCHANGED <<sent, readPos, taken>>

\* The packet a position is in, and whether its two bytes are, or look like, a head.
PacketAt(p) == CHOOSE k \in DOMAIN sent : Start(k) <= p /\ p < sent[k].end
IsHead(p) == p = Start(PacketAt(p))
LooksLikeHead(p) == IsHead(p) \/ sent[PacketAt(p)].end - p \in DOMAIN sent[PacketAt(p)].looks

\* The search for a head: two bytes, and two more, up to the end of what arrived.
Heads == {p \in readPos .. arrived - HeadSize : (p - readPos) % HeadSize = 0 /\ LooksLikeHead(p)}
Found == CHOOSE p \in Heads : \A q \in Heads : p <= q

\* read() throws behind the last byte, also when it looks for a length there.
Throws ==
  /\ at = "packets" /\ Heads = {}
  /\ at' = "thrown"
  /\ UNCHANGED <<sent, arrived, readPos, taken>>

\* The eight bytes behind a head.
LengthAt(p) ==
  IF IsHead(p) THEN LengthOf(sent[PacketAt(p)].size)
  ELSE sent[PacketAt(p)].looks[sent[PacketAt(p)].end - p]

Complete ==
  /\ arrived - (Found + HeadSize) >= LengthSize
  /\ arrived - (Found + HeadSize + LengthSize) >= LengthAt(Found)

Incomplete ==
  /\ at = "packets" /\ Heads # {} /\ ~Complete
  /\ at' = "poll"
  /\ UNCHANGED <<sent, arrived, readPos, taken>>

\* Mutant: what is taken out ends within the checksum.
MutConsumed(p) == p + HeadSize + LengthSize + LengthAt(p) - 1

\* The length is taken for that of the whole packet: ten bytes stay behind.
Consumed(p) == p + LengthAt(p)

\* The checksum is read from the middle of the packet and compared with the sum
\* of bytes of which the last ones are behind the end of packData: a packet with
\* data is valid or not, one without is not, for its length is no checksum.
Valid(p) == IF IsHead(p) /\ sent[PacketAt(p)].size = 0 THEN {FALSE} ELSE BOOLEAN

\* A packet is taken out, or what looks like one: packet 0.  The handler looks
\* for the next one only if it was valid.
getPack ==
  /\ at = "packets" /\ Heads # {} /\ Complete
  /\ readPos' = Consumed(Found)
  /\ \E valid \in Valid(Found) :
       /\ at' = IF valid THEN "packets" ELSE "poll"
       /\ taken' = Append(taken, [packet |-> IF IsHead(Found) THEN PacketAt(Found) ELSE 0,
                                  valid |-> valid])
  /\ UNCHANGED <<sent, arrived>>

Next == Send \/ onRead \/ Throws \/ Incomplete \/ getPack

Spec == Init /\ [][Next]_vars

-----------------------------------------------------------------------------
\* Two of the ten bytes a packet leaves behind are where the search looks for a
\* head, and look like one.
Deceptive(k) == k \in DOMAIN sent /\ \E d \in DOMAIN sent[k].looks : d <= 10 /\ d % HeadSize = 0

\* None of the first n packets does.
Honest(n) == \A k \in 1 .. n : ~Deceptive(k)

\* Packets are taken out in the order sent, each once and none passed over, up to
\* and with the first of them that leaves what looks like a head among the ten
\* bytes that stay behind each: what is taken out next is no packet, although the
\* next one may have arrived.  Up to there getPack throws only if no head has
\* arrived whole behind what was taken out.
PacketsInOrder ==
  /\ \A i \in DOMAIN taken : Honest(i - 1) => taken[i].packet = i
  /\ \A i \in DOMAIN taken : Deceptive(i - 1) /\ Honest(i - 2) => taken[i].packet = 0
  /\ at = "thrown" /\ Honest(Len(taken)) => arrived < Start(Len(taken) + 1) + HeadSize

=============================================================================
