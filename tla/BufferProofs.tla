------------------------------ MODULE BufferProofs ------------------------------
(***************************************************************************)
(* Proofs about the buffer of a connection (ByteArray.tla), for blocks of  *)
(* any size, calls of any size and any number of them, and about the       *)
(* packets that are taken out of it (Packets.tla), for packets of any      *)
(* sizes that arrive in any parts.                                         *)
(*                                                                         *)
(* Chained is about the chain of blocks and the positions in it, First     *)
(* about what the first block holds.  Beyond the first block bytes do get  *)
(* lost, so there is no more to prove.  Framed is about the read position  *)
(* between the packets, for as long as none of those taken out leaves what *)
(* looks like a head behind.                                               *)
(***************************************************************************)
EXTENDS MCBuffer, Integers, SequenceTheorems, TLAPS

\* A number of whole blocks.
Whole(size) == \E n \in Nat \ {0} : size = BaseSize * n

\* The positions are within the chain, and no block pointer has passed its
\* position, although hasRead() and hasWritten() round as if every call began
\* where a block does.
Chained ==
  /\ readPos \in Nat /\ writePos \in Nat /\ readBlock \in Nat /\ writeBlock \in Nat
  /\ Whole(capacity)
  /\ readPos <= writePos /\ writePos <= capacity
  /\ BaseSize * readBlock <= readPos /\ BaseSize * writeBlock <= writePos
  /\ NeverOffTheChain

\* While the first block is not left: what is written is where it belongs, and
\* what has been taken out is what was put in first.
First ==
  writePos <= BaseSize =>
    /\ readBlock = 0 /\ writeBlock = 0
    /\ DOMAIN cells = 0 .. capacity - 1
    /\ \A i \in 0 .. writePos - 1 : cells[i] = i + 1
    /\ out \in Seq(Nat) /\ Len(out) = readPos /\ Fifo
    /\ writePos < BaseSize => error # "throw"

-----------------------------------------------------------------------------
(* Arithmetic.                                                             *)

LEMMA Division ==
  ASSUME NEW a \in Nat, NEW b \in Nat \ {0}
  PROVE  /\ a \div b \in Nat /\ a % b \in 0 .. b - 1
         /\ a = b * (a \div b) + (a % b)
OBVIOUS

LEMMA Products ==
  ASSUME NEW b \in Nat \ {0}, NEW m \in Nat, NEW n \in Nat
  PROVE  /\ m <= n => b * m <= b * n
         /\ b * m < b * n => m < n
         /\ b * m \in Nat /\ b * m = m * b /\ b * (m + n) = b * m + b * n
<1>1. m <= n => b * m <= b * n
  OBVIOUS
<1>2. b * m < b * n => m < n
  OBVIOUS
<1>3. b * m \in Nat /\ b * m = m * b
  OBVIOUS
<1>4. b * (m + n) = b * m + b * n
  OBVIOUS
<1>. QED BY <1>1, <1>2, <1>3, <1>4

LEMMA Small ==
  ASSUME NEW a \in Nat, NEW b \in Nat \ {0}, a < b
  PROVE  a \div b = 0 /\ a % b = a
OBVIOUS

LEMMA Ceil ==
  ASSUME NEW a \in Nat \ {0}, NEW b \in Nat \ {0}
  PROVE  /\ CeilDiv(a, b) \in Nat \ {0} /\ CeilDiv(a, b) - 1 \in Nat
         /\ a <= b * CeilDiv(a, b) /\ b * (CeilDiv(a, b) - 1) < a
<1>1. a + b - 1 \in Nat
  OBVIOUS
<1>. DEFINE q == (a + b - 1) \div b
<1>2. q \in Nat /\ (a + b - 1) % b \in 0 .. b - 1 /\ a + b - 1 = b * q + ((a + b - 1) % b)
  BY <1>1, Division
<1>. HIDE DEF q
<1>3. q # 0
  BY <1>2
<1>4. a <= b * q /\ b * (q - 1) = b * q - b
  BY <1>2
<1>. QED
  BY <1>2, <1>3, <1>4 DEF CeilDiv, q

LEMMA CeilOne ==
  ASSUME NEW a \in Nat \ {0}, NEW b \in Nat \ {0}, a <= b
  PROVE  CeilDiv(a, b) = 1
<1>1. CeilDiv(a, b) - 1 \in Nat /\ CeilDiv(a, b) \in Nat /\ b * (CeilDiv(a, b) - 1) < a
  BY Ceil
<1>2. b * (CeilDiv(a, b) - 1) < b * 1
  BY <1>1
<1>3. CeilDiv(a, b) - 1 < 1
  BY <1>1, <1>2, Products
<1>. QED
  BY <1>1, <1>3

LEMMA Exact ==
  ASSUME NEW n \in Nat, NEW b \in Nat \ {0}
  PROVE  (b * n) \div b = n
<1>. DEFINE q == (b * n) \div b
<1>1. b * n \in Nat
  BY Products
<1>2. PICK r \in 0 .. b - 1 : q \in Nat /\ b * n = b * q + r
  BY <1>1, Division
<1>. HIDE DEF q
<1>3. b * n < b * (q + 1) /\ b * q < b * (n + 1)
  BY <1>2, Products
<1>4. n < q + 1 /\ q < n + 1
  BY <1>2, <1>3, Products
<1>. QED
  BY <1>2, <1>4 DEF q

-----------------------------------------------------------------------------
(* The operators of the buffer.                                            *)

LEMMA BlockSize == BaseSize \in Nat \ {0}
BY ByteArrayAssumption

\* A copy that starts in a block which is not past the position starts no later
\* than there.
LEMMA CopyStart ==
  ASSUME NEW block \in Nat, NEW pos \in Nat, BaseSize * block <= pos
  PROVE  At(block, pos) \in Nat /\ At(block, pos) <= pos
<1>. DEFINE q == pos \div BaseSize
            r == pos % BaseSize
<1>1. q \in Nat /\ r \in 0 .. BaseSize - 1 /\ pos = BaseSize * q + r
  BY BlockSize, Division
<1>2. At(block, pos) = BaseSize * block + r /\ BaseSize * block \in Nat
  BY BlockSize, Products DEF At
<1>. HIDE DEF q, r
<1>3. BaseSize * block < BaseSize * (q + 1)
  BY <1>1, <1>2, BlockSize, Products
<1>4. block <= q
  BY <1>1, <1>3, BlockSize, Products
<1>5. BaseSize * block <= BaseSize * q /\ BaseSize * q \in Nat
  BY <1>1, <1>4, BlockSize, Products
<1>. QED
  BY <1>1, <1>2, <1>5, BlockSize

LEMMA Advance ==
  ASSUME NEW block \in Nat, NEW pos \in Nat, BaseSize * block <= pos, NEW size \in Nat \ {0}
  PROVE  Advanced(block, size) \in Nat /\ BaseSize * Advanced(block, size) <= pos + size
<1>. DEFINE c == CeilDiv(size, BaseSize) - 1
<1>1. c \in Nat /\ BaseSize * c < size
  BY BlockSize, Ceil
<1>2. CeilDiv(size, BaseSize) \in Nat
  BY BlockSize, Ceil
<1>3. Advanced(block, size) = block + c
  BY <1>2 DEF Advanced
<1>. HIDE DEF c
<1>4. BaseSize * (block + c) = BaseSize * block + BaseSize * c
      /\ BaseSize * block \in Nat /\ BaseSize * c \in Nat
  BY <1>1, BlockSize, Products
<1>. QED
  BY <1>1, <1>3, <1>4

\* addCapacityIfNotEnough adds whole blocks, and enough of them.
LEMMA Growing ==
  ASSUME NEW cap, Whole(cap), NEW pos \in Nat, pos <= cap, NEW size \in Nat \ {0}
  PROVE  /\ Whole(Grown(cap, pos, size))
         /\ cap <= Grown(cap, pos, size) /\ pos + size <= Grown(cap, pos, size)
         /\ Grown(cap, pos, size) \in Nat
<1>0. PICK n \in Nat \ {0} : cap = BaseSize * n
  BY DEF Whole
<1>1. cap \in Nat
  BY <1>0, BlockSize, Products
<1>2. CASE cap - pos >= size
  BY <1>1, <1>2 DEF Grown
<1>3. CASE ~(cap - pos >= size)
  <2>. DEFINE m == size - (cap - pos)
              c == CeilDiv(3 * m, 2 * BaseSize)
  <2>1. m \in Nat \ {0} /\ 3 * m \in Nat \ {0} /\ 2 * BaseSize \in Nat \ {0}
    BY <1>1, <1>3, BlockSize
  <2>2. c \in Nat \ {0} /\ 3 * m <= (2 * BaseSize) * c
    BY <2>1, Ceil
  <2>3. Grown(cap, pos, size) = cap + BaseSize * c
    BY <1>3 DEF Grown
  <2>. HIDE DEF m, c
  <2>4. (2 * BaseSize) * c = 2 * (BaseSize * c) /\ BaseSize * c \in Nat
    BY <2>2, BlockSize
  <2>5. m <= BaseSize * c
    BY <2>1, <2>2, <2>4
  <2>6. pos + size <= cap + BaseSize * c
    BY <1>1, <2>1, <2>4, <2>5 DEF m
  <2>7. cap + BaseSize * c = BaseSize * (n + c) /\ n + c \in Nat \ {0}
    BY <1>0, <2>2, BlockSize, Products
  <2>8. Whole(cap + BaseSize * c)
    BY <2>7 DEF Whole
  <2>. QED
    BY <1>1, <2>3, <2>4, <2>6, <2>8
<1>. QED
  BY <1>2, <1>3

\* The blocks that hold what is unread are in the chain.
LEMMA InChain ==
  ASSUME Chained, Unread > 0
  PROVE  /\ ~(readBlock + ((Unread - 1) \div BaseSize) >= Blocks)
         /\ ~(readBlock + CeilDiv(Unread, BaseSize) - 1 >= Blocks)
<1>1. PICK n \in Nat \ {0} : capacity = BaseSize * n
  BY DEF Chained, Whole
<1>2. Blocks = n /\ capacity \in Nat
  BY <1>1, BlockSize, Exact, Products DEF Blocks
<1>3. /\ readPos \in Nat /\ writePos \in Nat /\ readBlock \in Nat /\ writePos <= capacity
      /\ Unread \in Nat \ {0} /\ Unread - 1 \in Nat /\ readPos + Unread = writePos
      /\ BaseSize * readBlock <= readPos
  BY DEF Chained, Unread
<1>4. ASSUME NEW q \in Nat, BaseSize * q < Unread PROVE readBlock + q < n
  <2>1. BaseSize * (readBlock + q) = BaseSize * readBlock + BaseSize * q
        /\ BaseSize * readBlock \in Nat /\ BaseSize * q \in Nat
    BY <1>3, BlockSize, Products
  <2>2. BaseSize * (readBlock + q) < BaseSize * n
    BY <1>1, <1>2, <1>3, <1>4, <2>1
  <2>. QED
    BY <1>3, <2>2, BlockSize, Products
<1>5. (Unread - 1) \div BaseSize \in Nat /\ BaseSize * ((Unread - 1) \div BaseSize) < Unread
  <2>. DEFINE q == (Unread - 1) \div BaseSize
  <2>1. PICK r \in 0 .. BaseSize - 1 : q \in Nat /\ Unread - 1 = BaseSize * q + r
    BY <1>3, BlockSize, Division
  <2>2. BaseSize * q \in Nat
    BY <2>1, BlockSize, Products
  <2>. HIDE DEF q
  <2>3. q \in Nat /\ BaseSize * q < Unread
    BY <1>3, <2>1, <2>2, BlockSize
  <2>. QED
    BY <2>3 DEF q
<1>6. /\ CeilDiv(Unread, BaseSize) - 1 \in Nat /\ CeilDiv(Unread, BaseSize) \in Nat
      /\ BaseSize * (CeilDiv(Unread, BaseSize) - 1) < Unread
  BY <1>3, BlockSize, Ceil
<1>7. readBlock + (CeilDiv(Unread, BaseSize) - 1) < n
  BY <1>4, <1>6
<1>8. readBlock + ((Unread - 1) \div BaseSize) < n
  BY <1>4, <1>5
<1>. QED
  BY <1>2, <1>3, <1>5, <1>6, <1>7, <1>8

-----------------------------------------------------------------------------
(* Chained, one call at a time.                                            *)

LEMMA InitChained == Init => Chained
<1>. SUFFICES ASSUME Init PROVE Chained
  OBVIOUS
<1>1. capacity = BaseSize * 1 /\ 1 \in Nat \ {0}
  BY BlockSize DEF Init
<1>2. BaseSize * 0 = 0
  BY BlockSize
<1>. QED
  BY <1>1, <1>2, BlockSize DEF Init, Chained, NeverOffTheChain, Whole

\* A write that has room.
LEMMA WriteChained ==
  ASSUME Chained, NEW size \in Nat \ {0}, Whole(capacity'),
         writePos' = writePos + size, writePos' <= capacity',
         UNCHANGED <<readPos, readBlock, error>>, BaseSize * writeBlock' <= writePos', writeBlock' \in Nat
  PROVE  Chained'
BY DEF Chained, NeverOffTheChain

LEMMA SetMsgChained == Chained /\ setMsg => Chained'
<1>. SUFFICES ASSUME Chained, setMsg PROVE Chained'
  OBVIOUS
<1>1. PICK size \in 1 .. MaxSize :
        LET cap == Grown(capacity, writePos, size) IN
        IF At(writeBlock, writePos) + size > cap
        THEN Fails("chain")
        ELSE /\ cells' = Stored(cells, cap, writeBlock, writePos, writePos + 1, size)
             /\ capacity' = cap
             /\ writePos' = writePos + size /\ writeBlock' = Advanced(writeBlock, size)
             /\ UNCHANGED <<readPos, readBlock, error>>
  BY DEF setMsg
<1>. DEFINE cap == Grown(capacity, writePos, size)
<1>2. size \in Nat \ {0} /\ writePos \in Nat /\ writeBlock \in Nat
      /\ BaseSize * writeBlock <= writePos /\ writePos <= capacity
  BY ByteArrayAssumption DEF Chained
<1>3. Whole(capacity)
  BY DEF Chained
<1>4. /\ Whole(cap)
      /\ writePos + size <= cap /\ cap \in Nat
  BY <1>2, <1>3, Growing
<1>5. At(writeBlock, writePos) \in Nat /\ At(writeBlock, writePos) <= writePos
  BY <1>2, CopyStart
<1>. HIDE DEF cap
<1>6. ~(At(writeBlock, writePos) + size > cap)
  BY <1>2, <1>4, <1>5
<1>7. capacity' = cap /\ writePos' = writePos + size /\ writeBlock' = Advanced(writeBlock, size)
      /\ UNCHANGED <<readPos, readBlock, error>>
  BY <1>1, <1>6 DEF cap
<1>8. writeBlock' \in Nat /\ BaseSize * writeBlock' <= writePos'
  BY <1>2, <1>7, Advance
<1>. QED
  BY <1>2, <1>4, <1>7, <1>8, WriteChained

LEMMA FitsChained == Chained /\ recvFits => Chained'
<1>. SUFFICES ASSUME Chained, recvFits PROVE Chained'
  OBVIOUS
<1>1. PICK size \in 1 .. MaxSize :
        /\ size <= FreeSize
        /\ IF At(writeBlock, writePos) + FreeSize > capacity
           THEN Fails("chain")
           ELSE /\ writePos' = writePos + size /\ writeBlock' = Advanced(writeBlock, size)
                /\ UNCHANGED <<capacity, readPos, readBlock, error>>
  BY DEF recvFits
<1>2. size \in Nat \ {0} /\ writePos \in Nat /\ writeBlock \in Nat
      /\ BaseSize * writeBlock <= writePos /\ writePos <= capacity
  BY ByteArrayAssumption DEF Chained
<1>3. Whole(capacity) /\ capacity \in Nat
  <2>1. PICK n \in Nat \ {0} : capacity = BaseSize * n
    BY DEF Chained, Whole
  <2>. QED
    BY <2>1, BlockSize, Products DEF Chained
<1>5. At(writeBlock, writePos) \in Nat /\ At(writeBlock, writePos) <= writePos
  BY <1>2, CopyStart
<1>6. ~(At(writeBlock, writePos) + FreeSize > capacity)
  BY <1>2, <1>3, <1>5 DEF FreeSize
<1>7. writePos' = writePos + size /\ writeBlock' = Advanced(writeBlock, size)
      /\ UNCHANGED <<capacity, readPos, readBlock, error>>
  BY <1>1, <1>6
<1>8. writeBlock' \in Nat /\ BaseSize * writeBlock' <= writePos'
  BY <1>2, <1>7, Advance
<1>9. writePos' <= capacity'
  BY <1>1, <1>2, <1>3, <1>7 DEF FreeSize
<1>. QED
  BY <1>2, <1>3, <1>7, <1>8, <1>9, WriteChained

LEMMA ExtraChained == Chained /\ recvExtra => Chained'
<1>. SUFFICES ASSUME Chained, recvExtra PROVE Chained'
  OBVIOUS
<1>1. PICK size \in 1 .. MaxSize :
        LET extra == size - FreeSize
            cap   == Grown(capacity, capacity, extra)
            block == Advanced(writeBlock, FreeSize) IN
        /\ size > FreeSize
        /\ CASE FreeSize = 0 -> Fails("throw")
             [] FreeSize > 0 /\ (At(writeBlock, writePos) + FreeSize > capacity
                                  \/ At(block, capacity) + extra > cap) -> Fails("chain")
             [] OTHER ->
                  /\ cells' = Stored(Stored(cells, capacity, writeBlock, writePos, writePos + 1, FreeSize),
                                     cap, block, capacity, capacity + 1, extra)
                  /\ capacity' = cap
                  /\ writePos' = writePos + size /\ writeBlock' = Advanced(block, extra)
                  /\ UNCHANGED <<readPos, readBlock, error>>
  BY DEF recvExtra
<1>. DEFINE extra == size - FreeSize
            cap   == Grown(capacity, capacity, extra)
            block == Advanced(writeBlock, FreeSize)
<1>2. size \in Nat \ {0} /\ writePos \in Nat /\ writeBlock \in Nat
      /\ BaseSize * writeBlock <= writePos /\ writePos <= capacity
  BY ByteArrayAssumption DEF Chained
<1>3. Whole(capacity) /\ capacity \in Nat
  <2>1. PICK n \in Nat \ {0} : capacity = BaseSize * n
    BY DEF Chained, Whole
  <2>. QED
    BY <2>1, BlockSize, Products DEF Chained
<1>4. capacity \in Nat /\ FreeSize \in Nat /\ writePos + FreeSize = capacity
      /\ extra \in Nat \ {0} /\ capacity + extra = writePos + size
  BY <1>1, <1>2, <1>3 DEF FreeSize
<1>. HIDE DEF extra
<1>5. CASE FreeSize = 0
  <2>1. Fails("throw")
    BY <1>1, <1>5
  <2>. QED
    BY <2>1 DEF Fails, Chained, NeverOffTheChain
<1>6. CASE FreeSize > 0
  <2>1. /\ Whole(cap)
        /\ capacity + extra <= cap /\ cap \in Nat
    BY <1>3, <1>4, Growing
  <2>2. At(writeBlock, writePos) \in Nat /\ At(writeBlock, writePos) <= writePos
    BY <1>2, CopyStart
  <2>. HIDE DEF cap
  <2>3. block \in Nat /\ BaseSize * block <= writePos + FreeSize
    <3>1. FreeSize \in Nat \ {0}
      BY <1>4, <1>6
    <3>. QED
      BY <1>2, <3>1, Advance
  <2>. HIDE DEF block
  <2>4. At(block, capacity) \in Nat /\ At(block, capacity) <= capacity
    BY <1>4, <2>3, CopyStart
  <2>5. ~(At(writeBlock, writePos) + FreeSize > capacity) /\ ~(At(block, capacity) + extra > cap)
    BY <1>2, <1>4, <2>1, <2>2, <2>4
  <2>6. capacity' = cap /\ writePos' = writePos + size /\ writeBlock' = Advanced(block, extra)
        /\ UNCHANGED <<readPos, readBlock, error>>
    BY <1>1, <1>6, <2>5 DEF extra, cap, block
  <2>7. writeBlock' \in Nat /\ BaseSize * writeBlock' <= writePos'
    BY <1>4, <2>3, <2>6, Advance
  <2>8. writePos' <= capacity'
    BY <1>4, <2>1, <2>6
  <2>. QED
    BY <1>2, <2>1, <2>6, <2>7, <2>8, WriteChained
<1>. QED
  BY <1>4, <1>5, <1>6

\* What is read was there.
LEMMA TakeChained ==
  ASSUME Chained, NEW size \in Nat \ {0}, size <= Unread,
         readPos' = readPos + size, readBlock' = Advanced(readBlock, size),
         UNCHANGED <<capacity, writePos, writeBlock, error>>
  PROVE  Chained'
<1>1. readPos \in Nat /\ writePos \in Nat /\ readBlock \in Nat /\ BaseSize * readBlock <= readPos
  BY DEF Chained
<1>2. readBlock' \in Nat /\ BaseSize * readBlock' <= readPos'
  BY <1>1, Advance
<1>3. readPos' \in Nat /\ readPos' <= writePos
  BY <1>1 DEF Unread
<1>. QED
  BY <1>2, <1>3 DEF Chained, NeverOffTheChain

LEMMA ReadChained == Chained /\ read => Chained'
<1>. SUFFICES ASSUME Chained, read PROVE Chained'
  OBVIOUS
<1>1. PICK size \in 1 .. Unread :
        IF readBlock + ((Unread - 1) \div BaseSize) >= Blocks
        THEN Fails("chain")
        ELSE /\ readPos' = readPos + size /\ readBlock' = Advanced(readBlock, size)
             /\ UNCHANGED <<capacity, writePos, writeBlock, error>>
  BY DEF read
<1>2. Unread \in Nat \ {0} /\ size \in Nat \ {0} /\ size <= Unread
  BY DEF Chained, Unread
<1>3. ~(readBlock + ((Unread - 1) \div BaseSize) >= Blocks)
  BY <1>2, InChain
<1>. QED
  BY <1>1, <1>2, <1>3, TakeChained

LEMMA SendChained == Chained /\ send => Chained'
<1>. SUFFICES ASSUME Chained, send PROVE Chained'
  OBVIOUS
<1>1. PICK size \in 1 .. Gathered :
        /\ Unread > 0
        /\ IF readBlock + CeilDiv(Unread, BaseSize) - 1 >= Blocks
           THEN Fails("chain")
           ELSE IF size > Unread
                THEN Fails("throw")
                ELSE /\ readPos' = readPos + size /\ readBlock' = Advanced(readBlock, size)
                     /\ UNCHANGED <<capacity, writePos, writeBlock, error>>
  BY DEF send
<1>2. Unread \in Nat \ {0}
  BY <1>1 DEF Chained, Unread
<1>3. readBlock \in Nat /\ CeilDiv(Unread, BaseSize) \in Nat \ {0} /\ CeilDiv(Unread, BaseSize) - 1 \in Nat
  BY <1>2, BlockSize, Ceil DEF Chained
<1>4. ~(readBlock + CeilDiv(Unread, BaseSize) - 1 >= Blocks)
  BY <1>1, InChain
<1>5. size \in Nat \ {0}
  <2>1. Gathered = BaseSize * (CeilDiv(Unread, BaseSize) - 1) + Unread
        /\ BaseSize * (CeilDiv(Unread, BaseSize) - 1) \in Nat
    BY <1>2, <1>3, BlockSize, Products DEF Gathered
  <2>. QED
    BY <1>2, <2>1
<1>6. CASE size > Unread
  <2>1. Fails("throw")
    BY <1>1, <1>4, <1>6
  <2>. QED
    BY <2>1 DEF Fails, Chained, NeverOffTheChain
<1>7. CASE ~(size > Unread)
  <2>1. size <= Unread
    BY <1>2, <1>5, <1>7
  <2>. QED
    BY <1>1, <1>4, <1>5, <1>7, <2>1, TakeChained
<1>. QED
  BY <1>6, <1>7

LEMMA ChainedHolds == Spec => []Chained
<1>1. Chained /\ [Next]_vars => Chained'
  <2>1. Chained /\ UNCHANGED vars => Chained'
    BY DEF Chained, NeverOffTheChain, vars
  <2>. QED
    BY <2>1, SetMsgChained, FitsChained, ExtraChained, ReadChained, SendChained DEF Next
<1>. QED
  BY InitChained, <1>1, PTL DEF Spec

\* addCapacityIfNotEnough adds enough for every write, and hasRead() and
\* hasWritten() never take a block pointer past its position, so that no call
\* uses the null next block of the last one: for every size of blocks and every
\* sequence of calls.
THEOREM BufferNeverOffTheChain == Spec => []NeverOffTheChain
BY ChainedHolds, PTL DEF Chained

-----------------------------------------------------------------------------
(* First, one call at a time.                                              *)

\* The chain has a first block, and positions in it.
LEMMA FirstBlock ==
  ASSUME Chained
  PROVE  /\ capacity \in Nat /\ BaseSize <= capacity
         /\ readPos \in Nat /\ writePos \in Nat /\ readPos <= writePos /\ writePos <= capacity
<1>1. PICK n \in Nat \ {0} : capacity = BaseSize * n
  BY DEF Chained, Whole
<1>2. BaseSize * 1 <= BaseSize * n /\ BaseSize * n \in Nat
  BY BlockSize, Products
<1>. QED
  BY <1>1, <1>2, BlockSize DEF Chained

LEMMA InitFirst == Init => First
<1>. SUFFICES ASSUME Init PROVE First
  OBVIOUS
<1>1. out \in Seq(Nat) /\ Len(out) = 0 /\ Fifo
  BY EmptySeq DEF Init, Fifo
<1>. QED
  BY <1>1, BlockSize DEF Init, First

\* A write that ends in the first block stays where it belongs.
LEMMA WriteFirst ==
  ASSUME Chained, First, NEW size \in Nat \ {0}, writePos + size <= BaseSize,
         cells' = Stored(cells, capacity, writeBlock, writePos, writePos + 1, size),
         writePos' = writePos + size, writeBlock' = Advanced(writeBlock, size),
         UNCHANGED <<capacity, readPos, readBlock, out, error>>
  PROVE  First'
<1>1. /\ capacity \in Nat /\ BaseSize <= capacity /\ BaseSize \in Nat \ {0}
      /\ writePos \in Nat /\ writePos < BaseSize /\ size <= BaseSize
  BY FirstBlock, BlockSize
<1>2. /\ readBlock = 0 /\ writeBlock = 0
      /\ DOMAIN cells = 0 .. capacity - 1
      /\ \A i \in 0 .. writePos - 1 : cells[i] = i + 1
      /\ out \in Seq(Nat) /\ Len(out) = readPos /\ Fifo
      /\ error # "throw"
  BY <1>1 DEF First
<1>3. writePos % BaseSize = writePos
  BY <1>1, Small
<1>4. At(writeBlock, writePos) = writePos
  BY <1>1, <1>2, <1>3 DEF At
<1>5. cells' = [i \in 0 .. capacity - 1 |->
                  IF i >= writePos /\ i < writePos + size THEN (writePos + 1) + (i - writePos)
                  ELSE IF i \in DOMAIN cells THEN cells[i] ELSE 0]
  BY <1>4 DEF Stored
<1>6. DOMAIN cells' = 0 .. capacity' - 1
  BY <1>5
<1>7. ASSUME NEW i \in 0 .. writePos' - 1 PROVE cells'[i] = i + 1
  <2>1. i \in 0 .. capacity - 1 /\ i \in DOMAIN cells
    BY <1>1, <1>2
  <2>2. CASE i >= writePos
    <3>1. cells'[i] = (writePos + 1) + (i - writePos)
      BY <1>1, <1>5, <2>1, <2>2
    <3>. QED
      BY <1>1, <3>1
  <2>3. CASE ~(i >= writePos)
    <3>1. cells'[i] = cells[i] /\ i \in 0 .. writePos - 1
      BY <1>1, <1>5, <2>1, <2>3
    <3>. QED
      BY <1>2, <3>1
  <2>. QED
    BY <2>2, <2>3
<1>8. CeilDiv(size, BaseSize) = 1
  BY <1>1, CeilOne
<1>9. writeBlock' = 0
  BY <1>2, <1>8 DEF Advanced
<1>10. Fifo'
  BY <1>2 DEF Fifo
<1>. QED
  BY <1>2, <1>6, <1>7, <1>9, <1>10 DEF First

\* What is taken out of the first block is what comes next.
LEMMA TakeFirst ==
  ASSUME Chained, First, writePos <= BaseSize, NEW size \in Nat \ {0}, size <= Unread,
         out' = out \o [i \in 1 .. size |-> readPos + i],
         readPos' = readPos + size, readBlock' = Advanced(readBlock, size),
         UNCHANGED <<capacity, writePos, writeBlock, cells, error>>
  PROVE  First'
<1>1. readPos \in Nat /\ writePos \in Nat /\ readPos + size <= writePos /\ size <= BaseSize
  BY FirstBlock, BlockSize DEF Unread
<1>2. /\ readBlock = 0 /\ out \in Seq(Nat) /\ Len(out) = readPos /\ Fifo
  BY DEF First
<1>3. CeilDiv(size, BaseSize) = 1
  BY <1>1, BlockSize, CeilOne
<1>4. readBlock' = 0
  BY <1>2, <1>3 DEF Advanced
<1>. DEFINE bytes == [i \in 1 .. size |-> readPos + i]
<1>5. bytes \in Seq(Nat) /\ Len(bytes) = size /\ \A i \in 1 .. size : bytes[i] = readPos + i
  <2>1. \A i \in 1 .. size : readPos + i \in Nat
    BY <1>1
  <2>2. bytes \in [1 .. size -> Nat] /\ size \in Nat
    BY <2>1
  <2>3. bytes \in Seq(Nat) /\ Len(bytes) = size
    BY <2>2
  <2>. QED
    BY <2>3
<1>6. out' = out \o bytes
  OBVIOUS
<1>. HIDE DEF bytes
<1>7. /\ out \o bytes \in Seq(Nat) /\ Len(out \o bytes) = readPos + size
      /\ \A i \in 1 .. readPos + size :
           (out \o bytes)[i] = IF i <= readPos THEN out[i] ELSE bytes[i - readPos]
  <2>1. /\ out \o bytes \in Seq(Nat) /\ Len(out \o bytes) = Len(out) + Len(bytes)
        /\ \A i \in 1 .. Len(out) + Len(bytes) :
             (out \o bytes)[i] = IF i <= Len(out) THEN out[i] ELSE bytes[i - Len(out)]
    BY <1>2, <1>5, ConcatProperties
  <2>. QED
    BY <1>2, <1>5, <2>1
<1>8. ASSUME NEW i \in 1 .. readPos + size PROVE (out \o bytes)[i] = i
  <2>1. CASE i <= readPos
    <3>1. i \in DOMAIN out
      BY <1>1, <1>2, <2>1
    <3>. QED
      BY <1>2, <1>7, <2>1, <3>1 DEF Fifo
  <2>2. CASE ~(i <= readPos)
    <3>1. i - readPos \in 1 .. size /\ readPos + (i - readPos) = i
      BY <1>1, <2>2
    <3>. QED
      BY <1>5, <1>7, <2>2, <3>1
  <2>. QED
    BY <2>1, <2>2
<1>9. DOMAIN (out \o bytes) = 1 .. readPos + size
  BY <1>1, <1>7
<1>10. Fifo'
  BY <1>6, <1>8, <1>9 DEF Fifo
<1>. QED
  BY <1>1, <1>2, <1>4, <1>6, <1>7, <1>10 DEF First

\* In the first block, read() and getReadBuffers start at the read position.
LEMMA BytesInFirst ==
  ASSUME Chained, First, writePos <= BaseSize, NEW i \in Nat, i < Unread
  PROVE  /\ ByteAt(i) = readPos + (i + 1) /\ GatheredAt(i) = readPos + (i + 1)
         /\ Gathered = Unread
<1>1. /\ BaseSize \in Nat \ {0} /\ readPos \in Nat /\ writePos \in Nat /\ Unread \in Nat \ {0}
      /\ readPos < BaseSize /\ i < BaseSize /\ Unread <= BaseSize
      /\ readPos + i \in 0 .. writePos - 1 /\ readPos + i < BaseSize
  BY FirstBlock, BlockSize DEF Unread
<1>2. readBlock = 0 /\ \A k \in 0 .. writePos - 1 : cells[k] = k + 1
  BY DEF First
<1>3. cells[readPos + i] = readPos + (i + 1)
  BY <1>1, <1>2
<1>4. readPos % BaseSize = readPos /\ i % BaseSize = i /\ i \div BaseSize = 0
  BY <1>1, Small
<1>5. CeilDiv(Unread, BaseSize) - 1 = 0
  BY <1>1, CeilOne
<1>6. 0 * BaseSize = 0
  BY <1>1
<1>7. ByteAt(i) = cells[readPos + i]
  BY <1>1, <1>2, <1>4, <1>6 DEF ByteAt
<1>8. GatheredAt(i) = cells[readPos + i]
  BY <1>1, <1>2, <1>4, <1>5, <1>6 DEF GatheredAt
<1>9. Gathered = Unread
  BY <1>1, <1>5, <1>6 DEF Gathered
<1>. QED
  BY <1>3, <1>7, <1>8, <1>9

LEMMA SetMsgFirst == Chained /\ First /\ setMsg => First'
<1>. SUFFICES ASSUME Chained, First, setMsg, writePos' <= BaseSize PROVE First'
  BY DEF First
<1>1. PICK size \in 1 .. MaxSize :
        LET cap == Grown(capacity, writePos, size) IN
        /\ IF At(writeBlock, writePos) + size > cap
           THEN Fails("chain")
           ELSE /\ cells' = Stored(cells, cap, writeBlock, writePos, writePos + 1, size)
                /\ capacity' = cap
                /\ writePos' = writePos + size /\ writeBlock' = Advanced(writeBlock, size)
                /\ UNCHANGED <<readPos, readBlock, error>>
        /\ UNCHANGED out
  BY DEF setMsg
<1>2. size \in Nat \ {0}
  BY ByteArrayAssumption
<1>3. CASE At(writeBlock, writePos) + size > Grown(capacity, writePos, size)
  <2>1. Fails("chain") /\ UNCHANGED out
    BY <1>1, <1>3
  <2>. QED
    BY <2>1 DEF Fails, First, Fifo
<1>4. CASE ~(At(writeBlock, writePos) + size > Grown(capacity, writePos, size))
  <2>1. writePos' = writePos + size
    BY <1>1, <1>4
  <2>2. capacity - writePos >= size /\ writePos + size <= BaseSize
    BY <1>2, <2>1, FirstBlock, BlockSize
  <2>3. Grown(capacity, writePos, size) = capacity
    BY <2>2 DEF Grown
  <2>. QED
    BY <1>1, <1>2, <1>4, <2>2, <2>3, WriteFirst
<1>. QED
  BY <1>3, <1>4

LEMMA FitsFirst == Chained /\ First /\ recvFits => First'
<1>. SUFFICES ASSUME Chained, First, recvFits, writePos' <= BaseSize PROVE First'
  BY DEF First
<1>1. PICK size \in 1 .. MaxSize :
        /\ IF At(writeBlock, writePos) + FreeSize > capacity
           THEN Fails("chain")
           ELSE /\ cells' = Stored(cells, capacity, writeBlock, writePos, writePos + 1, size)
                /\ writePos' = writePos + size /\ writeBlock' = Advanced(writeBlock, size)
                /\ UNCHANGED <<capacity, readPos, readBlock, error>>
        /\ UNCHANGED out
  BY DEF recvFits
<1>2. size \in Nat \ {0}
  BY ByteArrayAssumption
<1>3. CASE Fails("chain")
  BY <1>1, <1>3 DEF Fails, First, Fifo
<1>4. CASE ~Fails("chain")
  BY <1>1, <1>2, <1>4, WriteFirst
<1>. QED
  BY <1>3, <1>4

\* What does not fit in the free space is not in the first block.
LEMMA ExtraFirst == Chained /\ First /\ recvExtra => First'
<1>. SUFFICES ASSUME Chained, First, recvExtra, writePos' <= BaseSize PROVE First'
  BY DEF First
<1>1. PICK size \in 1 .. MaxSize :
        /\ size > FreeSize
        /\ \/ FreeSize = 0 /\ Fails("throw")
           \/ Fails("chain")
           \/ writePos' = writePos + size
        /\ UNCHANGED out
  BY FirstBlock DEF recvExtra, FreeSize
<1>2. size \in Nat \ {0} /\ capacity \in Nat /\ writePos \in Nat /\ BaseSize <= capacity
  BY ByteArrayAssumption, FirstBlock
<1>3. CASE FreeSize = 0 /\ Fails("throw")
  <2>1. writePos' = writePos /\ ~(writePos < BaseSize)
    BY <1>2, <1>3, BlockSize DEF FreeSize, Fails
  <2>. QED
    BY <1>1, <1>3, <2>1 DEF Fails, First, Fifo
<1>4. CASE Fails("chain")
  BY <1>1, <1>4 DEF Fails, First, Fifo
<1>5. CASE writePos' = writePos + size
  BY <1>1, <1>2, <1>5, BlockSize DEF FreeSize
<1>. QED
  BY <1>1, <1>3, <1>4, <1>5

LEMMA ReadFirst == Chained /\ First /\ read => First'
<1>. SUFFICES ASSUME Chained, First, read, writePos' <= BaseSize PROVE First'
  BY DEF First
<1>1. PICK size \in 1 .. Unread :
        \/ Fails("chain") /\ UNCHANGED out
        \/ /\ out' = out \o [i \in 1 .. size |-> ByteAt(i - 1)]
           /\ readPos' = readPos + size /\ readBlock' = Advanced(readBlock, size)
           /\ UNCHANGED <<capacity, writePos, writeBlock, cells, error>>
  BY DEF read
<1>2. CASE Fails("chain") /\ UNCHANGED out
  BY <1>2 DEF Fails, First, Fifo
<1>3. CASE /\ out' = out \o [i \in 1 .. size |-> ByteAt(i - 1)]
           /\ readPos' = readPos + size /\ readBlock' = Advanced(readBlock, size)
           /\ UNCHANGED <<capacity, writePos, writeBlock, cells, error>>
  <2>1. writePos <= BaseSize /\ Unread \in Nat /\ size \in Nat \ {0} /\ size <= Unread
    BY <1>3, FirstBlock DEF Unread
  <2>2. ASSUME NEW i \in 1 .. size PROVE ByteAt(i - 1) = readPos + i
    <3>1. i - 1 \in Nat /\ i - 1 < Unread /\ (i - 1) + 1 = i
      BY <2>1
    <3>2. ByteAt(i - 1) = readPos + ((i - 1) + 1)
      BY <2>1, <3>1, BytesInFirst
    <3>. QED
      BY <3>1, <3>2
  <2>3. [i \in 1 .. size |-> ByteAt(i - 1)] = [i \in 1 .. size |-> readPos + i]
    BY <2>2
  <2>. QED
    BY <1>3, <2>1, <2>3, TakeFirst
<1>. QED
  BY <1>1, <1>2, <1>3

LEMMA SendFirst == Chained /\ First /\ send => First'
<1>. SUFFICES ASSUME Chained, First, send, writePos' <= BaseSize PROVE First'
  BY DEF First
<1>1. PICK size \in 1 .. Gathered :
        /\ Unread > 0
        /\ \/ Fails("chain") /\ UNCHANGED out
           \/ /\ out' = out \o [i \in 1 .. size |-> GatheredAt(i - 1)]
              /\ IF size > Unread
                 THEN Fails("throw")
                 ELSE /\ readPos' = readPos + size /\ readBlock' = Advanced(readBlock, size)
                      /\ UNCHANGED <<capacity, writePos, writeBlock, cells, error>>
  BY DEF send
<1>2. CASE Fails("chain") /\ UNCHANGED out
  BY <1>2 DEF Fails, First, Fifo
<1>3. CASE /\ out' = out \o [i \in 1 .. size |-> GatheredAt(i - 1)]
           /\ IF size > Unread
              THEN Fails("throw")
              ELSE /\ readPos' = readPos + size /\ readBlock' = Advanced(readBlock, size)
                   /\ UNCHANGED <<capacity, writePos, writeBlock, cells, error>>
  <2>1. writePos <= BaseSize /\ Unread \in Nat \ {0}
    BY <1>1, <1>3, FirstBlock DEF Unread, Fails
  <2>2. Gathered = Unread
    <3>1. 0 \in Nat /\ 0 < Unread
      BY <2>1
    <3>. QED
      BY <2>1, <3>1, BytesInFirst
  <2>3. size \in Nat \ {0} /\ size <= Unread /\ ~(size > Unread)
    BY <2>1, <2>2
  <2>4. ASSUME NEW i \in 1 .. size PROVE GatheredAt(i - 1) = readPos + i
    <3>1. i - 1 \in Nat /\ i - 1 < Unread /\ (i - 1) + 1 = i
      BY <2>1, <2>3
    <3>2. GatheredAt(i - 1) = readPos + ((i - 1) + 1)
      BY <2>1, <3>1, BytesInFirst
    <3>. QED
      BY <3>1, <3>2
  <2>5. [i \in 1 .. size |-> GatheredAt(i - 1)] = [i \in 1 .. size |-> readPos + i]
    BY <2>4
  <2>. QED
    BY <1>3, <2>1, <2>3, <2>5, TakeFirst
<1>. QED
  BY <1>1, <1>2, <1>3

\* Until the first block is full, what read() and TcpSocket::send take out is
\* what setMsg() and TcpSocket::recv put in, in that order, and no call throws:
\* for every size of blocks, whatever the sizes of the calls.
THEOREM BufferFirstBlockFifo == Spec => []FirstBlockFifo
<1>1. Chained /\ First /\ [Next]_vars => First'
  <2>1. First /\ UNCHANGED vars => First'
    BY DEF First, Fifo, vars
  <2>. QED
    BY <2>1, SetMsgFirst, FitsFirst, ExtraFirst, ReadFirst, SendFirst DEF Next
<1>2. Chained /\ First => FirstBlockFifo
  <2>1. Chained => (writePos < BaseSize => writePos <= BaseSize)
    BY FirstBlock, BlockSize
  <2>. QED
    BY <2>1 DEF First, FirstBlockFifo
<1>. QED
  BY InitFirst, ChainedHolds, <1>1, <1>2, PTL DEF Spec

-----------------------------------------------------------------------------
(* Packets.                                                                *)

Packet == [size : Sizes, end : Nat, looks : Looks]

\* The next packet to be taken out.
Ahead == Len(taken) + 1

\* Packets lie end to end in the stream, and what they hide lies behind their
\* heads.
Placed ==
  /\ sent \in Seq(Packet)
  /\ \A k \in 1 .. Len(sent) :
       /\ sent[k].end = P!Start(k) + P!PackSize(sent[k].size)
       /\ DOMAIN sent[k].looks \subseteq 2 .. sent[k].size + 12
  /\ \A j, k \in 1 .. Len(sent) + 1 : j < k => P!Start(j) + 14 <= P!Start(k)
  /\ arrived \in Nat /\ arrived <= P!Total
  /\ \E T : taken \in Seq(T)

\* What is taken out is one packet after the other for as long as none of them is
\* deceptive.
Counted == \A i \in 1 .. Len(taken) : P!Honest(i - 1) => i \in 1 .. Len(sent)

\* Up to there, ten bytes of the packet last taken out are still in front of the
\* next: an even number, so that the search by twos does not step over its head.
OnTrack ==
  P!Honest(Len(taken) - 1) =>
    IF Len(taken) = 0 THEN position = 0
    ELSE position = P!Start(Ahead) - 10 /\ P!Start(Ahead) <= arrived

Framed == Placed /\ Counted /\ OnTrack /\ PacketsInOrder

LEMMA Places ==
  ASSUME Placed
  PROVE  /\ Len(sent) \in Nat /\ Len(taken) \in Nat /\ P!Start(1) = 0
         /\ DOMAIN sent = 1 .. Len(sent) /\ DOMAIN taken = 1 .. Len(taken)
         /\ \A k \in 1 .. Len(sent) + 1 : P!Start(k) \in Nat
         /\ \A k \in 1 .. Len(sent) :
              /\ sent[k] \in Packet /\ sent[k].size \in Nat
              /\ P!PackSize(sent[k].size) = sent[k].size + 14
              /\ P!LengthOf(sent[k].size) = sent[k].size + 4
              /\ sent[k].end = P!Start(k + 1)
              /\ P!Start(k + 1) = P!Start(k) + sent[k].size + 14
<1>1. /\ Len(sent) \in Nat /\ Len(taken) \in Nat /\ P!Start(1) = 0
      /\ DOMAIN sent = 1 .. Len(sent) /\ DOMAIN taken = 1 .. Len(taken)
  BY DEF Placed, P!Start
<1>2. \A k \in 1 .. Len(sent) : sent[k] \in Packet
  BY DEF Placed
<1>3. \A k \in 1 .. Len(sent) : sent[k].size \in Nat /\ sent[k].end \in Nat
  BY <1>2, PacketsAssumption DEF Packet
<1>4. ASSUME NEW k \in 1 .. Len(sent) + 1 PROVE P!Start(k) \in Nat
  <2>1. k = 1 \/ k - 1 \in 1 .. Len(sent)
    BY <1>1
  <2>. QED
    BY <1>3, <2>1 DEF P!Start
<1>5. ASSUME NEW k \in 1 .. Len(sent)
      PROVE  /\ P!PackSize(sent[k].size) = sent[k].size + 14
             /\ P!LengthOf(sent[k].size) = sent[k].size + 4
             /\ sent[k].end = P!Start(k + 1)
             /\ P!Start(k + 1) = P!Start(k) + sent[k].size + 14
  <2>1. P!Start(k) \in Nat /\ sent[k].size \in Nat
    BY <1>1, <1>3, <1>4
  <2>2. P!PackSize(sent[k].size) = sent[k].size + 14 /\ P!LengthOf(sent[k].size) = sent[k].size + 4
    BY <2>1 DEF P!PackSize, P!LengthOf, P!HeadSize, P!LengthSize
  <2>3. P!Start(k + 1) = sent[k].end
    <3>1. k + 1 # 1 /\ (k + 1) - 1 = k
      BY <1>1
    <3>. QED
      BY <3>1 DEF P!Start
  <2>4. sent[k].end = P!Start(k) + P!PackSize(sent[k].size)
    BY DEF Placed
  <2>. QED
    BY <2>1, <2>2, <2>3, <2>4
<1>. QED
  BY <1>1, <1>2, <1>3, <1>4, <1>5

\* Packets do not overlap.
LEMMA Within ==
  ASSUME Placed, NEW k \in 1 .. Len(sent), NEW p \in Int,
         P!Start(k) <= p, p < sent[k].end
  PROVE  P!PacketAt(p) = k
<1>1. /\ Len(sent) \in Nat /\ DOMAIN sent = 1 .. Len(sent)
      /\ \A j \in 1 .. Len(sent) + 1 : P!Start(j) \in Nat
      /\ \A j \in 1 .. Len(sent) : sent[j].end = P!Start(j + 1)
  BY Places
<1>2. \A i, j \in 1 .. Len(sent) + 1 : i < j => P!Start(i) + 14 <= P!Start(j)
  BY DEF Placed
<1>3. ASSUME NEW i \in 1 .. Len(sent), NEW j \in 1 .. Len(sent), i < j
      PROVE  sent[i].end <= P!Start(j)
  <2>1. i + 1 \in 1 .. Len(sent) + 1 /\ j \in 1 .. Len(sent) + 1
    BY <1>1
  <2>2. CASE i + 1 = j
    BY <1>1, <2>1, <2>2
  <2>3. CASE i + 1 # j
    <3>0. i + 1 < j
      BY <1>1, <1>3, <2>3
    <3>1. P!Start(i + 1) + 14 <= P!Start(j)
      BY <1>2, <2>1, <3>0
    <3>. QED
      BY <1>1, <2>1, <3>1
  <2>. QED
    BY <2>2, <2>3
<1>4. ASSUME NEW j \in DOMAIN sent, P!Start(j) <= p, p < sent[j].end, j # k PROVE FALSE
  <2>1. j \in 1 .. Len(sent) /\ (j < k \/ k < j)
    BY <1>1, <1>4
  <2>2. /\ P!Start(j) \in Nat /\ P!Start(k) \in Nat
        /\ sent[j].end \in Nat /\ sent[k].end \in Nat
    <3>1. j \in 1 .. Len(sent) + 1 /\ j + 1 \in 1 .. Len(sent) + 1
      BY <1>1, <2>1
    <3>2. k \in 1 .. Len(sent) + 1 /\ k + 1 \in 1 .. Len(sent) + 1
      BY <1>1
    <3>. QED
      BY <1>1, <2>1, <3>1, <3>2
  <2>. QED
    BY <1>3, <1>4, <2>1, <2>2
<1>. QED
  BY <1>1, <1>4 DEF P!PacketAt

\* The ten bytes in front of the next packet, on track.
LEMMA Remains ==
  ASSUME Framed, Len(taken) # 0, P!Honest(Len(taken) - 1),
         NEW p \in Int, position <= p, p < P!Start(Ahead)
  PROVE  /\ P!PacketAt(p) = Len(taken) /\ ~P!IsHead(p)
         /\ P!LooksLikeHead(p) <=>
              P!Start(Ahead) - p \in DOMAIN sent[Len(taken)].looks
<1>1. Len(taken) \in 1 .. Len(sent)
  BY Places DEF Framed, Counted
<1>2. PICK k \in 1 .. Len(sent) : k = Len(taken) /\ Ahead = k + 1
  BY <1>1 DEF Ahead
<1>3. /\ position = P!Start(Ahead) - 10 /\ P!Start(k) \in Nat /\ P!Start(Ahead) \in Nat
      /\ sent[k].end = P!Start(Ahead) /\ P!Start(Ahead) = P!Start(k) + sent[k].size + 14
      /\ sent[k].size \in Nat
  <2>1. k \in 1 .. Len(sent) + 1 /\ k + 1 \in 1 .. Len(sent) + 1
    BY Places DEF Framed
  <2>. QED
    BY <1>2, <2>1, Places DEF Framed, OnTrack
<1>4. P!Start(k) < p /\ p < sent[k].end
  BY <1>3
<1>5. P!PacketAt(p) = k
  BY <1>3, <1>4, Within DEF Framed
<1>. QED
  BY <1>2, <1>3, <1>4, <1>5 DEF P!IsHead, P!LooksLikeHead

\* How far the next packet is from the read position, on track.
LEMMA Distance ==
  ASSUME Framed, P!Honest(Len(taken) - 1)
  PROVE  /\ Ahead \in 1 .. Len(sent) + 1 /\ P!Start(Ahead) \in Nat
         /\ position \in Nat /\ position <= P!Start(Ahead)
         /\ (P!Start(Ahead) - position) % P!HeadSize = 0
         /\ Len(taken) = 0 => position = P!Start(Ahead)
         /\ Len(taken) # 0 => /\ position = P!Start(Ahead) - 10 /\ P!Start(Ahead) <= arrived
                              /\ Len(taken) \in 1 .. Len(sent)
<1>1. /\ Len(taken) \in Nat /\ Len(sent) \in Nat /\ P!Start(1) = 0
      /\ \A k \in 1 .. Len(sent) + 1 : P!Start(k) \in Nat
  BY Places DEF Framed
<1>2. CASE Len(taken) = 0
  <2>1. position = 0 /\ Ahead = 1 /\ 0 % 2 = 0
    BY <1>2 DEF Framed, OnTrack, Ahead
  <2>. QED
    BY <1>1, <1>2, <2>1 DEF P!HeadSize
<1>3. CASE Len(taken) # 0
  <2>1. Len(taken) \in 1 .. Len(sent)
    BY <1>1, <1>3 DEF Framed, Counted
  <2>2. position = P!Start(Ahead) - 10 /\ P!Start(Ahead) <= arrived
    BY <1>3 DEF Framed, OnTrack
  <2>3. Ahead \in 1 .. Len(sent) + 1 /\ P!Start(Ahead) \in Nat
    BY <1>1, <2>1 DEF Ahead
  <2>4. 10 <= P!Start(Ahead)
    <3>1. 1 \in 1 .. Len(sent) + 1 /\ 1 < Ahead
      BY <1>1, <2>1 DEF Ahead
    <3>2. P!Start(1) + 14 <= P!Start(Ahead)
      BY <2>3, <3>1 DEF Framed, Placed
    <3>. QED
      BY <1>1, <2>3, <3>2
  <2>5. P!Start(Ahead) - position = 10 /\ position \in Nat
    BY <2>2, <2>3, <2>4
  <2>6. 10 % 2 = 0
    OBVIOUS
  <2>. QED
    BY <1>3, <2>1, <2>2, <2>3, <2>5, <2>6 DEF P!HeadSize
<1>. QED
  BY <1>2, <1>3


LEMMA UpToTen ==
  ASSUME NEW a \in Int, NEW b \in Int, a + b = 10, a % 2 = 0
  PROVE  b % 2 = 0
OBVIOUS

LEMMA Evens ==
  ASSUME NEW a \in Nat, a % 2 = 0
  PROVE  a \in {0, 2, 4, 6} \/ 8 <= a
OBVIOUS

\* Of positions two apart, of which one is among the first five, one is the first.
LEMMA FirstOfFew ==
  ASSUME NEW x \in Nat, NEW H, NEW q \in H, q < x + 10,
         \A p \in H : p \in Int /\ x <= p /\ (p - x) % 2 = 0
  PROVE  \E p \in H : \A r \in H : p <= r
<1>1. ASSUME NEW p \in H
      PROVE  p \in Int /\ (p \in {x, x + 2, x + 4, x + 6} \/ x + 8 <= p)
  <2>1. p \in Int /\ x <= p /\ (p - x) % 2 = 0
    OBVIOUS
  <2>2. p - x \in Nat
    BY <2>1
  <2>3. p - x \in {0, 2, 4, 6} \/ 8 <= p - x
    BY <2>1, <2>2, Evens
  <2>. QED
    BY <2>1, <2>3
<1>2. q \in {x, x + 2, x + 4, x + 6, x + 8}
  <2>1. q \in Int /\ (q - x) % 2 = 0 /\ x <= q /\ (q \in {x, x + 2, x + 4, x + 6} \/ x + 8 <= q)
    BY <1>1
  <2>2. CASE x + 8 <= q
    <3>1. q = x + 8 \/ q = x + 9
      BY <2>1, <2>2
    <3>2. q # x + 9
      BY <2>1
    <3>. QED
      BY <3>1, <3>2
  <2>. QED
    BY <2>1, <2>2
<1>. DEFINE From(y) == \A r \in H : y <= r
<1>3. From(x)
  BY <1>1
<1>4. x \notin H => From(x + 2)
  BY <1>1
<1>5. x \notin H /\ x + 2 \notin H => From(x + 4)
  BY <1>1
<1>6. x \notin H /\ x + 2 \notin H /\ x + 4 \notin H => From(x + 6)
  BY <1>1
<1>7. x \notin H /\ x + 2 \notin H /\ x + 4 \notin H /\ x + 6 \notin H => From(x + 8)
  BY <1>1
<1>8. \E p \in H : From(p)
  <2>. HIDE DEF From
  <2>. QED
    BY <1>2, <1>3, <1>4, <1>5, <1>6, <1>7
<1>. QED
  BY <1>8

\* If none of the packets taken out was deceptive, getPack finds the next one, or
\* none.
LEMMA NextFound ==
  ASSUME Framed, P!Honest(Len(taken))
  PROVE  /\ P!Heads # {} => P!Found = P!Start(Ahead) /\ Ahead \in 1 .. Len(sent)
         /\ P!Heads = {} => arrived < P!Start(Ahead) + P!HeadSize
<1>1. /\ Len(sent) \in Nat /\ Len(taken) \in Nat /\ arrived \in Nat /\ P!HeadSize = 2
      /\ P!Honest(Len(taken) - 1) /\ Ahead = Len(taken) + 1
  BY Places DEF Framed, Placed, P!HeadSize, P!Honest, Ahead
<1>2. /\ Ahead \in 1 .. Len(sent) + 1 /\ P!Start(Ahead) \in Nat
      /\ position \in Nat /\ position <= P!Start(Ahead)
      /\ (P!Start(Ahead) - position) % P!HeadSize = 0
      /\ Len(taken) = 0 => position = P!Start(Ahead)
      /\ Len(taken) # 0 => position = P!Start(Ahead) - 10 /\ Len(taken) \in 1 .. Len(sent)
  BY <1>1, Distance
\* Nothing in front of the next packet looks like a head.
<1>3. ASSUME NEW p \in P!Heads PROVE p \in Int /\ P!Start(Ahead) <= p /\ p + 2 <= arrived
  <2>1. /\ p \in Int /\ position <= p /\ p + 2 <= arrived
        /\ (p - position) % 2 = 0 /\ P!LooksLikeHead(p)
    BY <1>1, <1>2 DEF P!Heads
  <2>2. ASSUME p < P!Start(Ahead) PROVE FALSE
    <3>1. Len(taken) # 0
      BY <1>2, <2>1, <2>2
    <3>2. PICK d \in Int : d = P!Start(Ahead) - p
      BY <1>2, <2>1
    <3>3. d \in DOMAIN sent[Len(taken)].looks
      <4>1. p \in Int /\ position <= p /\ p < P!Start(Ahead) /\ P!Start(Ahead) - p = d
        BY <2>1, <2>2, <3>2
      <4>2. P!LooksLikeHead(p) <=> P!Start(Ahead) - p \in DOMAIN sent[Len(taken)].looks
        BY <1>1, <3>1, <4>1, Remains
      <4>. QED
        BY <2>1, <4>1, <4>2
    <3>4. position = P!Start(Ahead) - 10
      BY <1>2, <3>1
    <3>5. d <= 10 /\ d % 2 = 0
      <4>1. PICK a \in Nat : a = P!Start(Ahead)
        BY <1>2
      <4>2. PICK x \in Nat : x = position
        BY <1>2
      <4>3. d = a - p /\ x = a - 10 /\ x <= p /\ p \in Int /\ (p - x) % 2 = 0
        BY <2>1, <3>2, <3>4, <4>1, <4>2
      <4>4. (p - x) + d = 10 /\ p - x \in Nat
        BY <4>3
      <4>. QED
        BY <4>3, <4>4, UpToTen
    <3>6. Len(taken) \in DOMAIN sent /\ ~P!Deceptive(Len(taken))
      BY <1>1, <1>2, <3>1, Places DEF P!Honest, Framed
    <3>. QED
      BY <1>1, <3>3, <3>5, <3>6 DEF P!Deceptive
  <2>. QED
    BY <1>2, <2>1, <2>2
<1>4. ASSUME P!Start(Ahead) + 2 <= arrived
      PROVE  Ahead \in 1 .. Len(sent) /\ P!Start(Ahead) \in P!Heads
  <2>1. Ahead \in 1 .. Len(sent)
    <3>1. Ahead # Len(sent) + 1
      BY <1>1, <1>2, <1>4 DEF Framed, Placed, P!Total
    <3>. QED
      BY <1>1, <1>2, <3>1
  <2>2. P!Start(Ahead) < sent[Ahead].end
    <3>1. /\ sent[Ahead].size \in Nat
          /\ sent[Ahead].end = P!Start(Ahead) + sent[Ahead].size + 14
      BY <2>1, Places DEF Framed
    <3>. QED
      BY <1>2, <3>1
  <2>3. P!PacketAt(P!Start(Ahead)) = Ahead
    BY <1>2, <2>1, <2>2, Within DEF Framed
  <2>4. P!LooksLikeHead(P!Start(Ahead))
    BY <2>3 DEF P!LooksLikeHead, P!IsHead
  <2>. QED
    BY <1>1, <1>2, <1>4, <2>1, <2>4 DEF P!Heads
<1>5. ASSUME P!Heads # {} PROVE P!Found = P!Start(Ahead) /\ Ahead \in 1 .. Len(sent)
  <2>1. PICK p \in P!Heads : TRUE
    BY <1>5
  <2>2. P!Start(Ahead) + 2 <= arrived
    BY <1>1, <1>2, <1>3, <2>1
  <2>3. P!Start(Ahead) \in P!Heads /\ \A q \in P!Heads : P!Start(Ahead) <= q
    BY <1>3, <1>4, <2>2
  <2>4. P!Found \in P!Heads /\ \A q \in P!Heads : P!Found <= q
    BY <2>3 DEF P!Found
  <2>5. P!Found \in Int /\ P!Found <= P!Start(Ahead) /\ P!Start(Ahead) <= P!Found
    BY <1>3, <2>3, <2>4
  <2>. QED
    BY <1>2, <1>4, <2>2, <2>5
<1>6. ASSUME P!Heads = {} PROVE arrived < P!Start(Ahead) + P!HeadSize
  BY <1>1, <1>2, <1>4, <1>6
<1>. QED
  BY <1>5, <1>6

\* If the one taken out last was the first deceptive one, getPack finds no packet.
LEMMA NoneFound ==
  ASSUME Framed, P!Honest(Len(taken) - 1), P!Deceptive(Len(taken)), P!Heads # {}
  PROVE  ~P!IsHead(P!Found)
<1>1. /\ Len(sent) \in Nat /\ Len(taken) \in Nat /\ arrived \in Nat /\ P!HeadSize = 2
      /\ DOMAIN sent = 1 .. Len(sent)
  BY Places DEF Framed, Placed, P!HeadSize
<1>2. Len(taken) \in 1 .. Len(sent)
  BY <1>1 DEF P!Deceptive
<1>3. /\ P!Start(Ahead) \in Nat /\ position \in Nat /\ position = P!Start(Ahead) - 10
      /\ P!Start(Ahead) <= arrived
  BY <1>1, <1>2, Distance
<1>4. PICK d \in DOMAIN sent[Len(taken)].looks : d <= 10 /\ d % 2 = 0
  BY <1>1 DEF P!Deceptive
<1>5. d \in Nat /\ 2 <= d
  <2>1. DOMAIN sent[Len(taken)].looks \subseteq 2 .. sent[Len(taken)].size + 12
    BY <1>2 DEF Framed, Placed
  <2>2. d \in 2 .. sent[Len(taken)].size + 12
    BY <2>1
  <2>3. sent[Len(taken)].size \in Nat
    BY <1>2, Places DEF Framed
  <2>. QED
    BY <2>2, <2>3
<1>6. PICK q \in Int : q = P!Start(Ahead) - d
  BY <1>3, <1>5
<1>7. q \in P!Heads /\ q < P!Start(Ahead)
  <2>1. position <= q /\ q < P!Start(Ahead) /\ P!Start(Ahead) - q = d
    BY <1>3, <1>4, <1>5, <1>6
  <2>2. P!LooksLikeHead(q)
    BY <1>1, <1>2, <1>4, <2>1, Remains
  <2>3. q + 2 <= arrived
    BY <1>1, <1>3, <1>5, <1>6
  <2>4. (q - position) % 2 = 0
    <3>1. d + (q - position) = 10 /\ q - position \in Int
      BY <1>3, <1>5, <1>6
    <3>. QED
      BY <1>4, <1>5, <3>1, UpToTen
  <2>. QED
    BY <1>1, <1>3, <2>1, <2>2, <2>3, <2>4 DEF P!Heads
<1>8. \A p \in P!Heads : p \in Int /\ position <= p /\ (p - position) % 2 = 0
  BY <1>1, <1>3 DEF P!Heads
<1>9. \E p \in P!Heads : \A r \in P!Heads : p <= r
  <2>1. q < position + 10
    BY <1>3, <1>7
  <2>. QED
    BY <1>3, <1>7, <1>8, <2>1, FirstOfFew
<1>10. P!Found \in P!Heads /\ P!Found <= q
  BY <1>7, <1>9 DEF P!Found
<1>11. P!Found \in Int /\ position <= P!Found /\ P!Found < P!Start(Ahead)
  BY <1>3, <1>6, <1>7, <1>8, <1>10
<1>. QED
  BY <1>1, <1>2, <1>11, Remains

LEMMA InitFramed == P!Init => Framed
<1>. SUFFICES ASSUME P!Init PROVE Framed
  OBVIOUS
<1>1. /\ sent \in Seq(Packet) /\ taken \in Seq({}) /\ Len(sent) = 0 /\ Len(taken) = 0
      /\ DOMAIN taken = {} /\ arrived = 0 /\ position = 0 /\ at = "poll"
  BY DEF P!Init
<1>2. P!Total = 0
  BY <1>1 DEF P!Total, P!Start
<1>3. Placed
  <2>1. 1 .. Len(sent) = {} /\ 1 .. Len(sent) + 1 = {1}
    BY <1>1
  <2>. QED
    BY <1>1, <1>2, <2>1 DEF Placed
<1>4. Counted /\ OnTrack /\ PacketsInOrder
  BY <1>1 DEF Counted, OnTrack, PacketsInOrder, P!PacketsInOrder
<1>. QED
  BY <1>3, <1>4 DEF Framed

LEMMA SendPlaced ==
  ASSUME Placed, P!Send
  PROVE  /\ Placed'
         /\ UNCHANGED <<arrived, position, at, taken>>
         /\ Len(sent') = Len(sent) + 1
         /\ \A k \in 1 .. Len(sent) : sent'[k] = sent[k]
         /\ \A k \in 1 .. Len(sent) + 1 : P!Start(k)' = P!Start(k)
<1>1. PICK n \in Sizes, looks \in Looks :
        /\ DOMAIN looks \subseteq P!HeadSize .. P!PackSize(n) - P!HeadSize
        /\ sent' = Append(sent, [size |-> n, end |-> P!Total + P!PackSize(n), looks |-> looks])
  BY DEF P!Send
<1>2. UNCHANGED <<arrived, position, at, taken>>
  BY DEF P!Send
<1>0. PICK m : m = Len(sent)
  OBVIOUS
<1>. DEFINE new == [size |-> n, end |-> P!Total + P!PackSize(n), looks |-> looks]
<1>3. m \in Nat /\ \A k \in 1 .. m + 1 : P!Start(k) \in Nat
  BY <1>0, Places
<1>4. /\ n \in Nat /\ P!Total \in Nat /\ P!PackSize(n) = n + 14 /\ P!Total = P!Start(m + 1)
      /\ P!HeadSize = 2
  <2>1. n \in Nat
    BY PacketsAssumption
  <2>. QED
    BY <1>0, <1>3, <2>1 DEF P!Total, P!PackSize, P!LengthOf, P!HeadSize, P!LengthSize
<1>5. /\ new \in Packet /\ new.size = n /\ new.end = P!Total + (n + 14)
      /\ DOMAIN new.looks \subseteq 2 .. new.size + 12
  <2>1. P!PackSize(n) - P!HeadSize = n + 12
    BY <1>4
  <2>. QED
    BY <1>1, <1>4, <2>1 DEF Packet
<1>6. sent \in Seq(Packet) /\ sent' = Append(sent, new)
  BY <1>1 DEF Placed
<1>. HIDE DEF new
<1>7. /\ sent' \in Seq(Packet) /\ Len(sent') = m + 1
      /\ \A k \in 1 .. m : sent'[k] = sent[k]
      /\ sent'[m + 1] = new
  BY <1>0, <1>3, <1>5, <1>6
<1>8. ASSUME NEW k \in 1 .. m + 1 PROVE P!Start(k)' = P!Start(k)
  <2>1. k = 1 \/ k - 1 \in 1 .. m
    BY <1>3
  <2>. QED
    BY <1>7, <2>1 DEF P!Start
<1>9. P!Start(m + 2)' = P!Total + (n + 14)
  <2>1. m + 2 # 1 /\ (m + 2) - 1 = m + 1
    BY <1>3
  <2>2. P!Start(m + 2)' = new.end
    BY <1>7, <2>1 DEF P!Start
  <2>. QED
    BY <1>5, <2>2
<1>10. \A k \in 1 .. Len(sent') :
         /\ sent'[k].end = P!Start(k)' + P!PackSize(sent'[k].size)
         /\ DOMAIN sent'[k].looks \subseteq 2 .. sent'[k].size + 12
  <2>. SUFFICES ASSUME NEW k \in 1 .. m + 1
                PROVE  /\ sent'[k].end = P!Start(k)' + P!PackSize(sent'[k].size)
                       /\ DOMAIN sent'[k].looks \subseteq 2 .. sent'[k].size + 12
    BY <1>7
  <2>1. CASE k \in 1 .. m
    <3>1. /\ sent[k].end = P!Start(k) + P!PackSize(sent[k].size)
          /\ DOMAIN sent[k].looks \subseteq 2 .. sent[k].size + 12
      BY <1>0, <2>1 DEF Placed
    <3>. QED
      BY <1>7, <1>8, <2>1, <3>1
  <2>2. CASE k = m + 1
    <3>1. P!Start(k)' = P!Total
      BY <1>4, <1>8, <2>2
    <3>. QED
      BY <1>4, <1>5, <1>7, <2>2, <3>1
  <2>. QED
    BY <1>3, <2>1, <2>2
<1>11. \A j, k \in 1 .. Len(sent') + 1 : j < k => P!Start(j)' + 14 <= P!Start(k)'
  <2>. SUFFICES ASSUME NEW j \in 1 .. m + 2, NEW k \in 1 .. m + 2, j < k
                PROVE  P!Start(j)' + 14 <= P!Start(k)'
    BY <1>3, <1>7
  <2>1. j \in 1 .. m + 1 /\ P!Start(j)' = P!Start(j) /\ P!Start(j) \in Nat
    BY <1>3, <1>8
  <2>2. CASE k \in 1 .. m + 1
    <3>1. P!Start(j) + 14 <= P!Start(k)
      BY <1>0, <2>1, <2>2 DEF Placed
    <3>. QED
      BY <1>8, <2>1, <2>2, <3>1
  <2>3. CASE k = m + 2
    <3>1. P!Start(j) <= P!Start(m + 1)
      <4>1. CASE j = m + 1
        BY <2>1, <4>1
      <4>2. CASE j # m + 1
        <5>1. j < m + 1 /\ m + 1 \in 1 .. m + 1
          BY <1>3, <2>1, <4>2
        <5>2. P!Start(j) + 14 <= P!Start(m + 1) /\ P!Start(m + 1) \in Nat
          BY <1>0, <1>3, <2>1, <5>1 DEF Placed
        <5>. QED
          BY <2>1, <5>2
      <4>. QED
        BY <4>1, <4>2
    <3>. QED
      BY <1>4, <1>9, <2>1, <2>3, <3>1
  <2>. QED
    BY <1>3, <2>2, <2>3
<1>12. P!Total' = P!Total + (n + 14)
  <2>1. P!Total' = P!Start(m + 2)'
    <3>1. Len(sent') + 1 = m + 2
      BY <1>3, <1>7
    <3>. QED
      BY <3>1 DEF P!Total
  <2>. QED
    BY <1>9, <2>1
<1>13. arrived' \in Nat /\ arrived' <= P!Total' /\ \E T : taken' \in Seq(T)
  BY <1>2, <1>4, <1>12 DEF Placed
<1>. QED
  BY <1>0, <1>2, <1>7, <1>8, <1>10, <1>11, <1>13 DEF Placed

LEMMA SendFramed == Framed /\ P!Send => Framed'
<1>. SUFFICES ASSUME Framed, P!Send PROVE Framed'
  OBVIOUS
<1>1. /\ Placed' /\ UNCHANGED <<arrived, position, at, taken>>
      /\ Len(sent') = Len(sent) + 1
      /\ \A k \in 1 .. Len(sent) : sent'[k] = sent[k]
      /\ \A k \in 1 .. Len(sent) + 1 : P!Start(k)' = P!Start(k)
  BY SendPlaced DEF Framed
<1>2. /\ Len(sent) \in Nat /\ Len(taken) \in Nat /\ Len(sent') \in Nat
      /\ DOMAIN sent = 1 .. Len(sent) /\ DOMAIN taken = 1 .. Len(taken)
      /\ DOMAIN sent' = 1 .. Len(sent')
  BY <1>1, Places DEF Framed, Placed
<1>3. \A k \in 1 .. Len(sent) : P!Deceptive(k)' <=> P!Deceptive(k)
  BY <1>1, <1>2 DEF P!Deceptive
<1>4. ASSUME NEW i \in Int, P!Honest(i)' PROVE P!Honest(i)
  <2>. SUFFICES ASSUME NEW k \in 1 .. i, P!Deceptive(k) PROVE FALSE
    BY DEF P!Honest
  <2>1. k \in 1 .. Len(sent)
    BY <1>2 DEF P!Deceptive
  <2>. QED
    BY <1>3, <1>4, <2>1 DEF P!Honest
<1>5. Counted'
  BY <1>1, <1>2, <1>4 DEF Framed, Counted
<1>6. P!Honest(Len(taken) - 1) => Ahead \in 1 .. Len(sent) + 1 /\ P!Start(Ahead)' = P!Start(Ahead)
  <2>1. P!Honest(Len(taken) - 1) => Ahead \in 1 .. Len(sent) + 1
    BY Distance
  <2>2. Ahead' = Ahead
    BY <1>1 DEF Ahead
  <2>. QED
    BY <1>1, <2>1, <2>2 DEF P!Start, Ahead
<1>7. OnTrack'
  <2>1. P!Honest(Len(taken) - 1)' => P!Honest(Len(taken) - 1)
    BY <1>1, <1>2, <1>4
  <2>. QED
    BY <1>1, <1>6, <2>1 DEF Framed, OnTrack
<1>8. PacketsInOrder'
  <2>1. \A i \in DOMAIN taken' : P!Honest(i - 1)' => taken'[i].packet = i
    BY <1>1, <1>2, <1>4 DEF Framed, PacketsInOrder, P!PacketsInOrder
  <2>2. ASSUME NEW i \in DOMAIN taken', P!Deceptive(i - 1)', P!Honest(i - 2)'
        PROVE  taken'[i].packet = 0
    <3>1. i \in 1 .. Len(taken) /\ i - 1 \in 1 .. Len(taken)
      BY <1>1, <1>2, <2>2 DEF P!Deceptive
    <3>2. P!Honest((i - 1) - 1)
      <4>1. (i - 1) - 1 = i - 2 /\ i - 2 \in Int
        BY <3>1
      <4>. QED
        BY <1>4, <2>2, <4>1
    <3>3. i - 1 \in 1 .. Len(sent)
      BY <3>1, <3>2 DEF Framed, Counted
    <3>4. P!Deceptive(i - 1) /\ P!Honest(i - 2)
      BY <1>3, <1>4, <2>2, <3>1, <3>3
    <3>. QED
      BY <1>1, <1>2, <3>1, <3>4 DEF Framed, PacketsInOrder, P!PacketsInOrder
  <2>3. at' = "thrown" /\ P!Honest(Len(taken))' =>
          arrived' < P!Start(Len(taken) + 1)' + P!HeadSize
    <3>1. P!Honest(Len(taken))' => P!Honest(Len(taken)) /\ P!Honest(Len(taken) - 1)
      BY <1>1, <1>2, <1>4 DEF P!Honest
    <3>. QED
      BY <1>1, <1>6, <3>1 DEF Framed, PacketsInOrder, P!PacketsInOrder, Ahead, P!HeadSize
  <2>. QED
    BY <2>1, <2>2, <2>3 DEF PacketsInOrder, P!PacketsInOrder
<1>. QED
  BY <1>1, <1>5, <1>7, <1>8 DEF Framed

\* A step that sends nothing.
LEMMA SameStream ==
  ASSUME UNCHANGED sent
  PROVE  /\ P!Total' = P!Total /\ \A k : P!Start(k)' = P!Start(k)
         /\ \A k : P!Deceptive(k)' = P!Deceptive(k)
         /\ \A k : P!Honest(k)' = P!Honest(k)
BY DEF P!Total, P!Start, P!Deceptive, P!Honest, P!HeadSize

\* And takes nothing out.
LEMMA SameOrder ==
  ASSUME Framed, UNCHANGED <<sent, position, taken>>,
         arrived' \in Nat, arrived <= arrived', arrived' <= P!Total,
         at' = "thrown" /\ P!Honest(Len(taken)) => arrived' < P!Start(Ahead) + P!HeadSize
  PROVE  Framed'
<1>1. /\ P!Total' = P!Total /\ \A k : P!Start(k)' = P!Start(k)
      /\ \A k : P!Deceptive(k)' = P!Deceptive(k)
      /\ \A k : P!Honest(k)' = P!Honest(k)
  BY SameStream
<1>2. Placed'
  BY <1>1 DEF Framed, Placed
<1>3. Counted'
  BY <1>1 DEF Framed, Counted
<1>4. OnTrack'
  <2>1. P!Honest(Len(taken) - 1) => P!Start(Ahead) \in Nat
    BY Distance
  <2>2. arrived \in Nat /\ Ahead' = Ahead
    BY DEF Framed, Placed, Ahead
  <2>3. P!Honest(Len(taken) - 1)' = P!Honest(Len(taken) - 1) /\ P!Start(Ahead)' = P!Start(Ahead)
    BY <1>1, <2>2 DEF P!Start, P!Honest, P!Deceptive, P!HeadSize, Ahead
  <2>. QED
    BY <2>1, <2>2, <2>3 DEF Framed, OnTrack
<1>5. PacketsInOrder'
  <2>1. P!Honest(Len(taken))' = P!Honest(Len(taken)) /\ P!Start(Len(taken) + 1)' = P!Start(Ahead)
    BY <1>1 DEF P!Start, P!Honest, P!Deceptive, P!HeadSize, Ahead
  <2>. QED
    BY <1>1, <2>1 DEF Framed, PacketsInOrder, P!PacketsInOrder, P!HeadSize
<1>. QED
  BY <1>2, <1>3, <1>4, <1>5 DEF Framed

LEMMA ReceiveFramed == Framed /\ P!onRead => Framed'
<1>. SUFFICES ASSUME Framed, P!onRead PROVE Framed'
  OBVIOUS
<1>1. PICK n \in arrived + 1 .. P!Total : arrived' = n
  BY DEF P!onRead
<1>2. at' = "packets" /\ UNCHANGED <<sent, position, taken>>
  BY DEF P!onRead
<1>3. arrived \in Nat /\ P!Total \in Nat
  BY Places DEF Framed, Placed, P!Total
<1>. QED
  BY <1>1, <1>2, <1>3, SameOrder

LEMMA IncompleteFramed == Framed /\ P!Incomplete => Framed'
<1>. SUFFICES ASSUME Framed, P!Incomplete PROVE Framed'
  OBVIOUS
<1>1. at' = "poll" /\ UNCHANGED <<sent, arrived, position, taken>>
  BY DEF P!Incomplete
<1>2. arrived \in Nat /\ arrived <= P!Total
  BY DEF Framed, Placed
<1>. QED
  BY <1>1, <1>2, SameOrder

LEMMA ThrowsFramed == Framed /\ P!Throws => Framed'
<1>. SUFFICES ASSUME Framed, P!Throws PROVE Framed'
  OBVIOUS
<1>1. P!Heads = {} /\ UNCHANGED <<sent, arrived, position, taken>>
  BY DEF P!Throws
<1>2. arrived \in Nat /\ arrived <= P!Total
  BY DEF Framed, Placed
<1>3. P!Honest(Len(taken)) => arrived' < P!Start(Ahead) + P!HeadSize
  BY <1>1, NextFound
<1>. QED
  BY <1>1, <1>2, <1>3, SameOrder

LEMMA GetPackFramed == Framed /\ P!getPack => Framed'
<1>. SUFFICES ASSUME Framed, P!getPack PROVE Framed'
  OBVIOUS
<1>1. /\ P!Heads # {} /\ P!Complete /\ UNCHANGED <<sent, arrived>>
      /\ position' = P!Consumed(P!Found) /\ at' \in {"packets", "poll"}
  BY DEF P!getPack
<1>. DEFINE packet == IF P!IsHead(P!Found) THEN P!PacketAt(P!Found) ELSE 0
<1>2. PICK valid : taken' = Append(taken, [packet |-> packet, valid |-> valid])
  BY DEF P!getPack
<1>0. PICK n : n = Len(taken)
  OBVIOUS
<1>. DEFINE new == [packet |-> packet, valid |-> valid]
<1>3. n \in Nat /\ Len(sent) \in Nat /\ Ahead = n + 1 /\ DOMAIN taken = 1 .. n
  BY <1>0, Places DEF Ahead, Framed
<1>4. new.packet = packet /\ taken' = Append(taken, new)
  BY <1>2
<1>. HIDE DEF new
<1>5. /\ \E T : taken' \in Seq(T)
      /\ Len(taken') = n + 1 /\ DOMAIN taken' = 1 .. n + 1
      /\ \A i \in 1 .. n : taken'[i] = taken[i]
      /\ taken'[n + 1] = new
  <2>1. PICK T : taken \in Seq(T)
    BY DEF Framed, Placed
  <2>2. taken \in Seq(T \cup {new})
    BY <2>1
  <2>. QED
    BY <1>3, <1>4, <2>2
<1>6. /\ \A k : P!Start(k)' = P!Start(k) /\ P!Total' = P!Total
      /\ \A k : P!Deceptive(k)' = P!Deceptive(k)
      /\ \A k : P!Honest(k)' = P!Honest(k)
  BY <1>1, SameStream
<1>. HIDE DEF packet
\* What is taken out, and what stays.
<1>7. ASSUME P!Honest(n)
      PROVE  /\ packet = n + 1 /\ n + 1 \in 1 .. Len(sent)
             /\ position' = P!Start(n + 2) - 10 /\ P!Start(n + 2) <= arrived
  <2>1. P!Found = P!Start(n + 1) /\ n + 1 \in 1 .. Len(sent)
    BY <1>0, <1>1, <1>3, <1>7, NextFound
  <2>2. PICK k \in 1 .. Len(sent) : k = n + 1 /\ k + 1 = n + 2
    BY <1>3, <2>1
  <2>3. /\ P!Start(k) \in Nat /\ P!Start(k + 1) \in Nat /\ sent[k].size \in Nat
        /\ P!LengthOf(sent[k].size) = sent[k].size + 4
        /\ sent[k].end = P!Start(k + 1)
        /\ P!Start(k + 1) = P!Start(k) + sent[k].size + 14
    <3>1. k \in 1 .. Len(sent) + 1 /\ k + 1 \in 1 .. Len(sent) + 1
      BY <1>3
    <3>. QED
      BY <3>1, Places DEF Framed
  <2>4. P!PacketAt(P!Found) = k
    <3>1. P!Found = P!Start(k) /\ P!Start(k) < sent[k].end
      BY <2>1, <2>2, <2>3
    <3>. QED
      BY <2>3, <3>1, Within DEF Framed
  <2>5. P!IsHead(P!Found)
    BY <2>1, <2>2, <2>4 DEF P!IsHead
  <2>6. P!LengthAt(P!Found) = sent[k].size + 4
    BY <2>3, <2>4, <2>5 DEF P!LengthAt
  <2>7. position' = P!Start(k) + (sent[k].size + 4)
    BY <1>1, <2>1, <2>2, <2>6 DEF P!Consumed
  <2>8. P!Start(k + 1) <= arrived
    <3>0. P!Found = P!Start(k)
      BY <2>1, <2>2
    <3>1. arrived - (P!Start(k) + 2 + 8) >= sent[k].size + 4
      BY <1>1, <2>6, <3>0 DEF P!Complete, P!HeadSize, P!LengthSize
    <3>2. arrived \in Nat
      BY DEF Framed, Placed
    <3>3. PICK a, b, c \in Nat : a = P!Start(k) /\ b = sent[k].size /\ c = arrived
      BY <2>3, <3>2
    <3>4. a + b + 14 <= c
      <4>1. c - (a + 2 + 8) >= b + 4
        BY <3>1, <3>3
      <4>. QED
        BY <4>1
    <3>. QED
      BY <2>3, <3>3, <3>4
  <2>9. packet = n + 1
    BY <2>2, <2>4, <2>5 DEF packet
  <2>10. position' = P!Start(k + 1) - 10
    BY <2>3, <2>7
  <2>. QED
    BY <2>1, <2>2, <2>8, <2>9, <2>10
<1>8. Placed'
  BY <1>1, <1>5, <1>6 DEF Framed, Placed
<1>9. Counted'
  <2>. SUFFICES ASSUME NEW i \in 1 .. n + 1, P!Honest(i - 1)
                PROVE  i \in 1 .. Len(sent)
    BY <1>1, <1>5, <1>6 DEF Counted
  <2>1. CASE i \in 1 .. n
    BY <1>0, <2>1 DEF Framed, Counted
  <2>2. CASE i = n + 1
    <3>1. i - 1 = n
      BY <1>3, <2>2
    <3>. QED
      BY <1>7, <2>2, <3>1
  <2>. QED
    BY <1>3, <2>1, <2>2
<1>10. OnTrack'
  <2>1. Len(taken') - 1 = n /\ Len(taken') # 0 /\ Ahead' = n + 2
    BY <1>3, <1>5 DEF Ahead
  <2>2. P!Start(Ahead)' = P!Start(n + 2)
    <3>1. P!Start(Ahead)' = P!Start(n + 2)'
      BY <2>1 DEF P!Start
    <3>. QED
      BY <1>6, <3>1
  <2>3. P!Honest(Len(taken) - 1)' = P!Honest(n)
    <3>1. P!Honest(Len(taken) - 1)' = P!Honest(n)'
      BY <2>1 DEF P!Honest
    <3>. QED
      BY <1>6, <3>1
  <2>. QED
    BY <1>1, <1>7, <2>1, <2>2, <2>3 DEF OnTrack
<1>11. PacketsInOrder'
  <2>1. ASSUME NEW i \in 1 .. n + 1, P!Honest(i - 1) PROVE taken'[i].packet = i
    <3>1. CASE i \in 1 .. n
      BY <1>3, <1>5, <2>1, <3>1 DEF Framed, PacketsInOrder, P!PacketsInOrder
    <3>2. CASE i = n + 1
      <4>1. i - 1 = n
        BY <1>0, <1>3, <3>2
      <4>. QED
        BY <1>4, <1>5, <1>7, <2>1, <3>2, <4>1
    <3>. QED
      BY <1>3, <3>1, <3>2
  <2>2. ASSUME NEW i \in 1 .. n + 1, P!Deceptive(i - 1), P!Honest(i - 2)
        PROVE  taken'[i].packet = 0
    <3>1. CASE i \in 1 .. n
      BY <1>3, <1>5, <2>2, <3>1 DEF Framed, PacketsInOrder, P!PacketsInOrder
    <3>2. CASE i = n + 1
      <4>1. i - 1 = Len(taken) /\ i - 2 = Len(taken) - 1
        BY <1>0, <1>3, <3>2
      <4>2. ~P!IsHead(P!Found)
        BY <1>1, <2>2, <4>1, NoneFound
      <4>. QED
        BY <1>4, <1>5, <3>2, <4>2 DEF packet
    <3>. QED
      BY <1>3, <3>1, <3>2
  <2>3. at' # "thrown"
    BY <1>1
  <2>. QED
    BY <1>5, <1>6, <2>1, <2>2, <2>3 DEF PacketsInOrder, P!PacketsInOrder
<1>. QED
  BY <1>8, <1>9, <1>10, <1>11 DEF Framed

\* Whatever parts the stream arrives in, whichever packets pass for valid and
\* whatever they hide, for as long as the buffer is a queue: getPack takes out the
\* packets in the order sent, each once, up to and with the first that leaves what
\* looks like a head among the ten bytes that stay behind, because the length field
\* is taken for the length of the whole; what it takes out next is no packet; and
\* up to there read() throws in it only when no head has arrived behind the last
\* packet taken out (Buffer.cpp:27-77).
THEOREM BufferPacketsInOrder == P!Spec => []PacketsInOrder
<1>1. Framed /\ [P!Next]_(P!vars) => Framed'
  <2>1. ASSUME Framed, UNCHANGED P!vars PROVE Framed'
    <3>1. UNCHANGED <<sent, arrived, position, at, taken>>
      BY <2>1 DEF P!vars
    <3>2. /\ arrived \in Nat /\ arrived <= P!Total
          /\ at = "thrown" /\ P!Honest(Len(taken)) => arrived < P!Start(Ahead) + P!HeadSize
      BY <2>1 DEF Framed, Placed, PacketsInOrder, P!PacketsInOrder, Ahead
    <3>. QED
      BY <2>1, <3>1, <3>2, SameOrder
  <2>. QED
    BY <2>1, SendFramed, ReceiveFramed, IncompleteFramed, ThrowsFramed, GetPackFramed DEF P!Next
<1>2. Framed => PacketsInOrder
  BY DEF Framed
<1>. QED
  BY InitFramed, <1>1, <1>2, PTL DEF P!Spec

================================================================================
