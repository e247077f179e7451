------------------------------- MODULE MCBuffer -------------------------------
(* The chain of blocks, packets on the buffer it implements, and the        *)
(* encoders.  The three share their initial state and nothing else.         *)
EXTENDS ByteArray, ByteCodec

CONSTANTS Sizes, Looks, MaxPackets, Room

\* A packet may hide any pairs that look like heads, in front of any lengths.
ASSUME PacketsAssumption ==
  /\ Sizes \subseteq Nat /\ MaxPackets \in Nat /\ Room \in Nat
  /\ \A looks \in Looks : DOMAIN looks \subseteq Nat /\ looks \in [DOMAIN looks -> Nat]

\* Nothing, or a pair at an even or odd distance from the end, with a length that
\* ends within the next packet or behind all that is sent.
MCLooks == [{} -> {0}] \cup [{2} -> {30}] \cup [{5} -> {4}] \cup [{10} -> {3}]

VARIABLES
  sent, arrived, position, at, taken,   \* of Packets
  number                                \* an integer that is encoded

P == INSTANCE Packets WITH readPos <- position

packets == <<sent, arrived, position, at, taken>>

MCInit == Init /\ P!Init /\ number = 0

MCNext ==
  \/ Next /\ P!Init /\ number = 0 /\ UNCHANGED <<packets, number>>
  \/ P!Next /\ Init /\ number = 0 /\ UNCHANGED <<vars, number>>
  \/ /\ Init /\ P!Init
     /\ number + 1 \in Unsigned /\ number' = number + 1
     /\ UNCHANGED <<vars, packets>>

MCSpec == MCInit /\ [][MCNext]_<<vars, packets, number>>

\* Packets come out in the order sent, each once, up to the first that leaves
\* what looks like a head behind.
PacketsInOrder == P!PacketsInOrder

\* Encoded integers are read back.
IntegersReadBack == ReadsBack(number)

=============================================================================
