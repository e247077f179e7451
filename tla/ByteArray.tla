------------------------------ MODULE ByteArray ------------------------------
(***************************************************************************)
(* The buffer of a connection (ByteArray.cpp), with the calls through      *)
(* which connections use it: TcpSocket::recv and Buffer::setMsg put bytes  *)
(* in, TcpSocket::send and read() with hasRead() take them out.            *)
(*                                                                         *)
(* Memory is a chain of blocks of BaseSize bytes; m_readPos and m_writePos *)
(* count from the first byte ever and never go back, m_readBlock and       *)
(* m_writeBlock are moved along by hasRead() and hasWritten().  Blocks are *)
(* numbered from 0 along the chain, and cells are the bytes of the chain.  *)
(* The k-th byte that is put in has the value k; a byte from beyond the    *)
(* end of a block, or from one never written, is 0.                        *)
(*                                                                         *)
(* What is not modelled: the encoders built on write() and read(), and     *)
(* clear(), reset() and refresh(), which nothing calls on a connection's   *)
(* buffers.  No caller passes an empty message.                            *)
(***************************************************************************)
EXTENDS Naturals, Sequences

CONSTANTS
  BaseSize,      \* m_baseSize (4096 in the code)
  MaxSize,       \* bound: bytes put in by one call
  MaxTotal,      \* bound: bytes put in
  Uses           \* how the buffer is used, within the four calls

ASSUME ByteArrayAssumption ==
  /\ BaseSize \in Nat \ {0} /\ MaxSize \in Nat \ {0} /\ MaxTotal \in Nat
  /\ Uses \subseteq {"recv", "setMsg", "send", "read"}

VARIABLES
  capacity, readPos, writePos, readBlock, writeBlock,
  cells,         \* the bytes of the chain of blocks
  out,           \* history: the bytes taken out
  error          \* "throw": out_of_range left the call; "chain": a null next block was used

vars == <<capacity, readPos, writePos, readBlock, writeBlock, cells, out, error>>

Blocks   == capacity \div BaseSize
FreeSize == capacity - writePos
Unread   == writePos - readPos
CeilDiv(a, b) == (a + b - 1) \div b

Init ==
  /\ capacity = BaseSize
  /\ readPos = 0 /\ writePos = 0 /\ readBlock = 0 /\ writeBlock = 0
  /\ cells = [i \in 0 .. BaseSize - 1 |-> 0]
  /\ out = <<>> /\ error = "none"

-----------------------------------------------------------------------------
\* Whole blocks that are missing, rounded down.
MutGrowDown(cap, pos, size) ==
  IF cap - pos >= size THEN cap
  ELSE cap + BaseSize * ((size - (cap - pos)) \div BaseSize)

\* addCapacityIfNotEnough: one and a half times what is missing, in blocks.
Grown(cap, pos, size) ==
  IF cap - pos >= size THEN cap
  ELSE cap + BaseSize * CeilDiv(3 * (size - (cap - pos)), 2 * BaseSize)

\* Where in the chain a copy to or from a position starts.
At(block, pos) == block * BaseSize + (pos % BaseSize)

\* The chain, cap bytes long, after bytes first, first + 1... were copied to it.
Stored(mem, cap, block, pos, first, size) ==
  [i \in 0 .. cap - 1 |->
     IF i >= At(block, pos) /\ i < At(block, pos) + size THEN first + (i - At(block, pos))
     ELSE IF i \in DOMAIN mem THEN mem[i] ELSE 0]

\* hasRead and hasWritten step over a block per BaseSize bytes, from wherever
\* in a block the position is.
Advanced(block, size) == block + CeilDiv(size, BaseSize) - 1

\* Reading starts at the beginning of the block.
MutByteAt(i) == cells[(readBlock + i \div BaseSize) * BaseSize + (i % BaseSize)]

\* Byte i of what is read from the read position on: a block is left after
\* BaseSize bytes, also the first one, where the position may be in the middle.
ByteAt(i) ==
  LET offset == (IF i < BaseSize THEN readPos % BaseSize ELSE 0) + (i % BaseSize) IN
  IF offset < BaseSize THEN cells[(readBlock + i \div BaseSize) * BaseSize + offset] ELSE 0

\* Byte i of what getReadBuffers hands to sendmsg: the last buffer is given the
\* length of the whole, so there are Gathered bytes of it.
Gathered == (CeilDiv(Unread, BaseSize) - 1) * BaseSize + Unread
GatheredAt(i) ==
  LET last   == CeilDiv(Unread, BaseSize) - 1
      block  == IF i \div BaseSize < last THEN i \div BaseSize ELSE last
      offset == (IF block = 0 THEN readPos % BaseSize ELSE 0) + (i - block * BaseSize) IN
  IF offset < BaseSize THEN cells[(readBlock + block) * BaseSize + offset] ELSE 0

-----------------------------------------------------------------------------
Running == error = "none"
Fails(how) == error' = how /\ UNCHANGED <<capacity, readPos, writePos, readBlock, writeBlock, cells>>

\* Buffer::setMsg: write(), then hasWritten().
setMsg == \E size \in 1 .. MaxSize :
  LET cap == Grown(capacity, writePos, size) IN
  /\ Running /\ "setMsg" \in Uses /\ writePos + size <= MaxTotal
  /\ IF At(writeBlock, writePos) + size > cap
     THEN Fails("chain")
     ELSE /\ cells' = Stored(cells, cap, writeBlock, writePos, writePos + 1, size)
          /\ capacity' = cap
          /\ writePos' = writePos + size /\ writeBlock' = Advanced(writeBlock, size)
          /\ UNCHANGED <<readPos, readBlock, error>>
  /\ UNCHANGED out

\* TcpSocket::recv when recvmsg fills no more than the free space.
recvFits == \E size \in 1 .. MaxSize :
  /\ Running /\ "recv" \in Uses /\ writePos + size <= MaxTotal
  /\ size <= FreeSize
  /\ IF At(writeBlock, writePos) + FreeSize > capacity
     THEN Fails("chain")
     ELSE /\ cells' = Stored(cells, capacity, writeBlock, writePos, writePos + 1, size)
          /\ writePos' = writePos + size /\ writeBlock' = Advanced(writeBlock, size)
          /\ UNCHANGED <<capacity, readPos, readBlock, error>>
  /\ UNCHANGED out

\* TcpSocket::recv when it fills the free space and goes on in extrabuf, which
\* is written after it.  hasWritten() of no free space throws.
recvExtra == \E size \in 1 .. MaxSize :
  LET extra == size - FreeSize
      cap   == Grown(capacity, capacity, extra)
      block == Advanced(writeBlock, FreeSize) IN
  /\ Running /\ "recv" \in Uses /\ writePos + size <= MaxTotal
  /\ size > FreeSize
  /\ CASE FreeSize = 0 -> Fails("throw")
       [] FreeSize > 0 /\ (At(writeBlock, writePos) + FreeSize > capacity
                            \/ At(block, capacity) + extra > cap) -> Fails("chain")
       [] OTHER ->
            /\ cells' = Stored(Stored(cells, capacity, writeBlock, writePos, writePos + 1, FreeSize),
                               cap, block, capacity, capacity + 1, extra)
            /\ capacity' = cap
            /\ writePos' = writePos + size /\ writeBlock' = Advanced(block, extra)
            /\ UNCHANGED <<readPos, readBlock, error>>
  /\ UNCHANGED out

\* read() of what is unread, of which hasRead() takes the first size bytes.
read == \E size \in 1 .. Unread :
  /\ Running /\ "read" \in Uses
  /\ IF readBlock + (Unread - 1) \div BaseSize >= Blocks
     THEN Fails("chain") /\ UNCHANGED out
     ELSE /\ out' = out \o [i \in 1 .. size |-> ByteAt(i - 1)]
          /\ readPos' = readPos + size /\ readBlock' = Advanced(readBlock, size)
          /\ UNCHANGED <<capacity, writePos, writeBlock, cells, error>>

\* TcpSocket::send: sendmsg takes some of what it is given; hasRead() throws
\* if that is more than there was.
send == \E size \in 1 .. Gathered :
  /\ Running /\ "send" \in Uses /\ Unread > 0
  /\ IF readBlock + CeilDiv(Unread, BaseSize) - 1 >= Blocks
     THEN Fails("chain") /\ UNCHANGED out
     ELSE /\ out' = out \o [i \in 1 .. size |-> GatheredAt(i - 1)]
          /\ IF size > Unread
             THEN Fails("throw")
             ELSE /\ readPos' = readPos + size /\ readBlock' = Advanced(readBlock, size)
                  /\ UNCHANGED <<capacity, writePos, writeBlock, cells, error>>

Next == setMsg \/ recvFits \/ recvExtra \/ read \/ send
Spec == Init /\ [][Next]_vars

-----------------------------------------------------------------------------
\* No call walks off the end of the chain of blocks: addCapacityIfNotEnough adds
\* enough for every write, and neither block pointer passes its position.
NeverOffTheChain == error # "chain"

\* Bytes come out in the order they were put in: the out'th byte taken is the
\* out'th byte written.
Fifo == \A i \in DOMAIN out : out[i] = i

\* Until the first block is full the buffer is a queue that loses and changes
\* nothing, however calls put in and take out parts, and no call throws.
FirstBlockFifo ==
  /\ writePos <= BaseSize => Fifo
  /\ writePos < BaseSize => error # "throw"

=============================================================================
