-------------------------- MODULE BlockBufferProofs --------------------------
(***************************************************************************)
(* Proofs about BlockBuffer, for every block size, maximum, set of strings *)
(* and of positions, and any number of buffers.                            *)
(*                                                                         *)
(* The invariant has two parts: what the memory of each buffer holds, and  *)
(* that the shared counter is the sum over the buffers.  On top of both,   *)
(* BlockBuffer is shown to implement TextBuffer.                           *)
(***************************************************************************)
EXTENDS BlockBuffer, TLAPS

Plus == INSTANCE FoldTheorems WITH op <- +

Cells == Bytes \cup {Junk}

-----------------------------------------------------------------------------
(* Arithmetic in blocks. *)

LEMMA BlockSizeType == BlockSize \in Nat \ {0}
BY BufferAssumption

(* Division with remainder. *)
LEMMA DivMod ==
    ASSUME NEW m \in Nat
    PROVE  /\ m \div BlockSize \in Nat
           /\ (m % BlockSize) \in 0..(BlockSize - 1)
           /\ m = BlockSize * (m \div BlockSize) + (m % BlockSize)
<1>1. m \div BlockSize \in Nat
  BY BlockSizeType
<1>2. (m % BlockSize) \in 0..(BlockSize - 1)
  BY BlockSizeType
<1>3. m = BlockSize * (m \div BlockSize) + (m % BlockSize)
  BY BlockSizeType
<1> QED  BY <1>1, <1>2, <1>3

USE BufferAssumption

LEMMA Distributes ==
    \A i, j, k \in Nat : (i + j) * k = i * k + j * k
OBVIOUS

(* Rounding up gives enough blocks for more bytes. *)
LEMMA RoundedUp ==
    ASSUME NEW k \in Nat, NEW more \in Nat
    PROVE  LET n == k + more \div BlockSize
                      + (IF more % BlockSize > 0 THEN 1 ELSE 0)
           IN  n \in Nat /\ n >= k /\ n * BlockSize >= k * BlockSize + more
<1> DEFINE q == more \div BlockSize
           r == more % BlockSize
<1>1. q \in Nat /\ r \in 0..(BlockSize - 1) /\ more = BlockSize * q + r
  BY DivMod
<1> HIDE DEF q, r
<1>2. CASE r = 0
  <2>1. more = q * BlockSize
    BY <1>1, <1>2
  <2>2. (k + q) * BlockSize = k * BlockSize + q * BlockSize
    BY <1>1, Distributes
  <2>3. k * BlockSize \in Nat
    OBVIOUS
  <2> QED  BY <1>1, <1>2, <2>1, <2>2, <2>3 DEF q, r
<1>3. CASE r > 0
  <2>1. more < q * BlockSize + BlockSize
    BY <1>1
  <2>2. /\ (k + (q + 1)) * BlockSize = k * BlockSize + (q + 1) * BlockSize
        /\ (q + 1) * BlockSize = q * BlockSize + 1 * BlockSize
    BY <1>1, Distributes
  <2>3. k * BlockSize \in Nat /\ q * BlockSize \in Nat
    BY <1>1
  <2>4. k + q + 1 = k + (q + 1)
    BY <1>1
  <2> QED  BY <1>1, <1>3, <2>1, <2>2, <2>3, <2>4 DEF q, r
<1> QED  BY <1>1, <1>2, <1>3

-----------------------------------------------------------------------------
(* Memory. *)

(* What memmove leaves: cells in number as before, the bytes at their place. *)
LEMMA MovedType ==
    ASSUME NEW cells \in Seq(Cells), NEW at \in Nat, NEW bytes \in Seq(Cells)
    PROVE  /\ Moved(cells, at, bytes) \in Seq(Cells)
           /\ Len(Moved(cells, at, bytes)) = Len(cells)
           /\ \A i \in 1..Len(cells) :
                 Moved(cells, at, bytes)[i] =
                    IF i - at \in 1..Len(bytes) THEN bytes[i - at] ELSE cells[i]
<1>1. DOMAIN cells = 1..Len(cells) /\ DOMAIN bytes = 1..Len(bytes)
  OBVIOUS
<1>2. \A i \in 1..Len(cells) : cells[i] \in Cells
  OBVIOUS
<1>3. \A i \in 1..Len(bytes) : bytes[i] \in Cells
  OBVIOUS
<1>4. Moved(cells, at, bytes) =
         [i \in 1..Len(cells) |->
            IF i - at \in 1..Len(bytes) THEN bytes[i - at] ELSE cells[i]]
  BY <1>1 DEF Moved
<1> QED  BY <1>1, <1>2, <1>3, <1>4

LEMMA UnwrittenType ==
    ASSUME NEW n \in Nat
    PROVE  Unwritten(n) \in Seq(Cells) /\ Len(Unwritten(n)) = n
BY DEF Unwritten, Cells

(* What a buffer must be, and what an operation must leave in it: cells     *)
(* that are as many as there are blocks for, the first size of them written. *)
Sound(cells, blocks, size) ==
    /\ cells \in Seq(Cells)
    /\ blocks \in Nat /\ blocks <= max_blocks
    /\ size \in Nat /\ size <= Len(cells)
    /\ Len(cells) = blocks * BlockSize
    /\ \A i \in 1..size : cells[i] # Junk

MemoryInv ==
    /\ m_data \in [Buffers -> Seq(Cells)]
    /\ m_block \in [Buffers -> Nat]
    /\ m_size \in [Buffers -> Nat]
    /\ m_maxblocks \in [Buffers -> 0..max_blocks]
    /\ \A b \in Buffers : Sound(m_data[b], m_block[b], m_size[b])

(* A call that leaves sound memory in one buffer keeps the invariant. *)
LEMMA HoldsSound ==
    ASSUME MemoryInv, NEW b \in Buffers, NEW cells, NEW blocks, NEW size,
           Sound(cells, blocks, size), Holds(b, cells, blocks, size),
           m_maxblocks' \in [Buffers -> 0..max_blocks]
    PROVE  MemoryInv'
<1> DEFINE kept == [i \in DOMAIN cells |-> IF i <= size THEN cells[i] ELSE Junk]
<1>1. /\ cells \in Seq(Cells) /\ blocks \in Nat /\ size \in Nat
      /\ DOMAIN cells = 1..Len(cells)
      /\ \A i \in 1..Len(cells) : cells[i] \in Cells
  BY DEF Sound
<1>2. /\ kept \in Seq(Cells) /\ Len(kept) = Len(cells)
      /\ \A i \in 1..Len(cells) : kept[i] = IF i <= size THEN cells[i] ELSE Junk
  BY <1>1 DEF Cells
<1>3. Sound(kept, blocks, size)
  BY <1>1, <1>2 DEF Sound
<1>4. /\ m_data' = [m_data EXCEPT ![b] = kept]
      /\ m_block' = [m_block EXCEPT ![b] = blocks]
      /\ m_size' = [m_size EXCEPT ![b] = size]
  BY DEF Holds
<1> HIDE DEF kept
<1>5. /\ m_data' \in [Buffers -> Seq(Cells)]
      /\ m_block' \in [Buffers -> Nat]
      /\ m_size' \in [Buffers -> Nat]
  BY <1>1, <1>2, <1>4 DEF MemoryInv
<1>6. \A c \in Buffers : Sound(m_data'[c], m_block'[c], m_size'[c])
  BY <1>3, <1>4 DEF MemoryInv
<1> QED  BY <1>5, <1>6 DEF MemoryInv

(* The memory increase_capacity(n) provides has room for n more bytes, and  *)
(* the data in it.                                                          *)
LEMMA MemoryProvided ==
    ASSUME MemoryInv, NEW b \in Buffers, NEW size \in Nat, size <= m_size[b],
           NEW n \in Nat,
           HasRoom(b, size, n) \/ newblock(b, size, n) <= m_maxblocks[b]
    PROVE  /\ Sound(Memory(b, size, n), Blocks(b, size, n), size)
           /\ size + n <= Len(Memory(b, size, n))
           /\ \A i \in 1..size : Memory(b, size, n)[i] = m_data[b][i]
<1>1. Sound(m_data[b], m_block[b], m_size[b]) /\ m_maxblocks[b] \in 0..max_blocks
  BY DEF MemoryInv
<1>2. /\ capacity(b) = Len(m_data[b]) /\ capacity(b) \in Nat
      /\ size <= capacity(b) /\ m_block[b] \in Nat
  BY <1>1 DEF capacity, Sound
<1>3. CASE HasRoom(b, size, n)
  <2>1. Sound(m_data[b], m_block[b], size)
    BY <1>1, <1>2 DEF Sound
  <2> QED  BY <1>2, <1>3, <2>1 DEF HasRoom, Memory, Blocks
<1>4. CASE ~ HasRoom(b, size, n)
  <2> DEFINE more == n - (capacity(b) - size)
             new == newblock(b, size, n)
  <2>1. more \in Nat
    BY <1>2, <1>4 DEF HasRoom
  <2>2. /\ new \in Nat /\ new >= m_block[b]
        /\ new * BlockSize >= m_block[b] * BlockSize + more
    BY <1>2, <2>1, RoundedUp DEF newblock
  <2>3. new * BlockSize \in Nat /\ new * BlockSize >= size + n
    <3>1. new * BlockSize \in Nat
      BY <2>2
    <3>2. new * BlockSize >= capacity(b) + more
      BY <2>2 DEF capacity
    <3> HIDE DEF new
    <3> QED  BY <1>2, <3>1, <3>2
  <2>4. new <= max_blocks
    BY <1>1, <1>4, <2>2
  <2> DEFINE data == SubSeq(m_data[b], 1, size)
             cells == Moved(Unwritten(new * BlockSize), 0, data)
  <2>5. /\ data \in Seq(Cells) /\ Len(data) = size
        /\ \A i \in 1..size : data[i] = m_data[b][i]
    BY <1>1, <1>2 DEF Sound
  <2>6. Unwritten(new * BlockSize) \in Seq(Cells)
        /\ Len(Unwritten(new * BlockSize)) = new * BlockSize
    BY <2>3, UnwrittenType
  <2>7. Memory(b, size, n) = cells /\ Blocks(b, size, n) = new
    BY <1>4 DEF Memory, Blocks
  <2> HIDE DEF new, data, more
  <2>8. /\ cells \in Seq(Cells) /\ Len(cells) = new * BlockSize
        /\ \A i \in 1..Len(cells) : i <= size => cells[i] = data[i]
    <3> DEFINE fresh == Unwritten(new * BlockSize)
               total == new * BlockSize
    <3>1. fresh \in Seq(Cells) /\ Len(fresh) = total /\ total \in Nat
      BY <2>3, <2>6
    <3>2. cells = Moved(fresh, 0, data)
      OBVIOUS
    <3> HIDE DEF cells, fresh, total
    <3>3. /\ cells \in Seq(Cells) /\ Len(cells) = Len(fresh)
          /\ \A i \in 1..Len(fresh) :
                cells[i] = IF i - 0 \in 1..Len(data) THEN data[i - 0] ELSE fresh[i]
      BY <2>5, <3>1, <3>2, MovedType
    <3>4. \A i \in 1..Len(cells) : i <= size => cells[i] = data[i]
      <4> SUFFICES ASSUME NEW i \in 1..Len(cells), i <= size
                   PROVE  cells[i] = data[i]
        OBVIOUS
      <4>1. i \in Nat /\ i >= 1
        BY <3>1, <3>3
      <4>2. i - 0 = i
        BY <4>1
      <4>3. i \in 1..Len(data) /\ i \in 1..Len(fresh)
        BY <2>5, <3>3, <4>1
      <4> QED  BY <3>3, <4>2, <4>3
    <3> QED  BY <3>1, <3>3, <3>4 DEF total
  <2> HIDE DEF cells
  <2>9. \A i \in 1..size : cells[i] # Junk
    <3>1. \A i \in 1..size : m_data[b][i] # Junk
      <4>1. m_size[b] \in Nat /\ \A i \in 1..m_size[b] : m_data[b][i] # Junk
        BY <1>1 DEF Sound
      <4>2. \A i \in 1..size : i \in 1..m_size[b]
        BY <4>1
      <4> QED  BY <4>1, <4>2
    <3> QED  BY <2>3, <2>5, <2>8, <3>1
  <2>10. Sound(cells, new, size)
    BY <2>2, <2>3, <2>4, <2>8, <2>9 DEF Sound
  <2>11. \A i \in 1..size : cells[i] = m_data[b][i]
    <3>1. \A i \in 1..size : i \in 1..Len(cells) /\ i <= size
      BY <2>3, <2>8
    <3> QED  BY <2>5, <2>8, <3>1
  <2> QED  BY <2>3, <2>7, <2>8, <2>10, <2>11
<1> QED  BY <1>3, <1>4

(* Written bytes behind the data keep it sound. *)
LEMMA WrittenBehind ==
    ASSUME NEW cells, NEW blocks, NEW size, Sound(cells, blocks, size),
           NEW s \in Seq(Bytes), size + Len(s) <= Len(cells)
    PROVE  Sound(Moved(cells, size, s), blocks, size + Len(s))
<1>1. /\ cells \in Seq(Cells) /\ size \in Nat /\ Len(cells) \in Nat
      /\ s \in Seq(Cells) /\ Len(s) \in Nat
      /\ \A i \in 1..Len(s) : s[i] # Junk
  <2>1. \A i \in 1..Len(s) : s[i] \in Bytes
    OBVIOUS
  <2>2. s \in Seq(Cells)
    BY DEF Cells
  <2> QED  BY <2>1, <2>2 DEF Sound
<1>2. /\ Moved(cells, size, s) \in Seq(Cells)
      /\ Len(Moved(cells, size, s)) = Len(cells)
      /\ \A i \in 1..Len(cells) :
            Moved(cells, size, s)[i] =
               IF i - size \in 1..Len(s) THEN s[i - size] ELSE cells[i]
  BY <1>1, MovedType
<1> DEFINE moved == Moved(cells, size, s)
<1> HIDE DEF moved
<1>3. \A i \in 1..(size + Len(s)) : moved[i] # Junk
  <2> SUFFICES ASSUME NEW i \in 1..(size + Len(s)) PROVE moved[i] # Junk
    OBVIOUS
  <2>1. i \in 1..Len(cells)
    BY <1>1
  <2>2. CASE i <= size
    BY <1>1, <1>2, <2>1, <2>2 DEF moved, Sound
  <2>3. CASE i > size
    BY <1>1, <1>2, <2>1, <2>3 DEF moved
  <2> QED  BY <1>1, <2>2, <2>3
<1> QED  BY <1>1, <1>2, <1>3 DEF Sound, moved

(* One lemma for each operation. *)
LEMMA AppendToSound ==
    ASSUME MemoryInv, NEW b \in Buffers, NEW size \in Nat, size <= m_size[b],
           NEW s \in Seq(Bytes), AppendTo(b, size, s), UNCHANGED m_maxblocks
    PROVE  MemoryInv'
<1>1. m_maxblocks' \in [Buffers -> 0..max_blocks] /\ Len(s) \in Nat
  BY DEF MemoryInv
<1>2. CASE Increases(b, size, Len(s), Moved(Memory(b, size, Len(s)), size, s),
                     size + Len(s))
  <2>1. /\ Sound(Memory(b, size, Len(s)), Blocks(b, size, Len(s)), size)
        /\ size + Len(s) <= Len(Memory(b, size, Len(s)))
    BY <1>1, <1>2, MemoryProvided DEF Increases
  <2>2. Sound(Moved(Memory(b, size, Len(s)), size, s), Blocks(b, size, Len(s)),
              size + Len(s))
    BY <2>1, WrittenBehind
  <2> QED  BY <1>1, <1>2, <2>2, HoldsSound DEF Increases
<1>3. CASE IncreaseFails(b, size, Len(s))
  <2>1. Sound(m_data[b], m_block[b], size)
    BY DEF MemoryInv, Sound
  <2> QED  BY <1>1, <1>3, <2>1, HoldsSound DEF IncreaseFails
<1> QED  BY <1>2, <1>3 DEF AppendTo

LEMMA ReserveSound ==
    ASSUME MemoryInv, NEW b \in Buffers, NEW n \in Counts, reserve(b, n)
    PROVE  MemoryInv'
<1> DEFINE more == n - capacity(b)
<1>1. /\ m_maxblocks' = m_maxblocks
      /\ m_maxblocks' \in [Buffers -> 0..max_blocks] /\ n \in Nat
      /\ Sound(m_data[b], m_block[b], m_size[b])
  BY DEF MemoryInv, reserve
<1>2. capacity(b) \in Nat /\ m_size[b] \in Nat /\ m_size[b] <= m_size[b]
  BY <1>1 DEF Sound, capacity
<1>3. CASE UNCHANGED bufferVars
  BY <1>1, <1>3 DEF MemoryInv, bufferVars
<1>4. CASE n > capacity(b) /\ Increases(b, m_size[b], more,
                  Memory(b, m_size[b], more), m_size[b])
  <2>1. more \in Nat
    BY <1>1, <1>2, <1>4
  <2> HIDE DEF more
  <2>2. Sound(Memory(b, m_size[b], more), Blocks(b, m_size[b], more), m_size[b])
    BY <1>2, <1>4, <2>1, MemoryProvided DEF Increases
  <2> QED  BY <1>1, <1>4, <2>2, HoldsSound DEF Increases
<1>5. CASE IncreaseFails(b, m_size[b], more)
  BY <1>1, <1>5, HoldsSound DEF IncreaseFails
<1> QED  BY <1>3, <1>4, <1>5 DEF reserve

LEMMA FreeSound ==
    ASSUME MemoryInv, NEW b \in Buffers, free(b),
           m_maxblocks' \in [Buffers -> 0..max_blocks]
    PROVE  MemoryInv'
<1>1. Sound(<<>>, 0, 0)
  BY DEF Sound
<1> QED  BY <1>1, HoldsSound DEF free

LEMMA ResizeSound ==
    ASSUME MemoryInv, NEW b \in Buffers, NEW n \in Counts, resize(b, n)
    PROVE  MemoryInv'
<1>1. /\ UNCHANGED m_maxblocks
      /\ m_maxblocks' \in [Buffers -> 0..max_blocks] /\ n \in Nat
      /\ Sound(m_data[b], m_block[b], m_size[b])
      /\ m_size[b] \in Nat
  BY DEF MemoryInv, resize
<1>2. CASE n > m_size[b]
  <2>1. n - m_size[b] \in Nat
    BY <1>1, <1>2
  <2>2. [i \in 1..(n - m_size[b]) |-> Zero] \in Seq(Bytes)
    BY <2>1
  <2> QED  BY <1>1, <1>2, <2>2, AppendToSound DEF resize
<1>3. CASE n <= m_size[b]
  <2>1. Sound(m_data[b], m_block[b], n)
    BY <1>1, <1>3 DEF Sound
  <2> QED  BY <1>1, <1>3, <2>1, HoldsSound DEF resize
<1> QED  BY <1>1, <1>2, <1>3

(* Written bytes inside of the data keep it sound. *)
LEMMA OverwrittenSound ==
    ASSUME NEW cells, NEW blocks, NEW size, Sound(cells, blocks, size),
           NEW pos \in Nat, NEW s \in Seq(Bytes), pos + Len(s) <= size
    PROVE  Sound(Moved(cells, pos, s), blocks, size)
<1> DEFINE moved == Moved(cells, pos, s)
<1>1. /\ cells \in Seq(Cells) /\ s \in Seq(Cells) /\ Len(s) \in Nat
      /\ size \in Nat /\ size <= Len(cells) /\ Len(cells) \in Nat
      /\ \A i \in 1..size : cells[i] # Junk
  BY DEF Sound, Cells
<1>2. /\ moved \in Seq(Cells) /\ Len(moved) = Len(cells)
      /\ \A i \in 1..Len(cells) :
            moved[i] = IF i - pos \in 1..Len(s) THEN s[i - pos] ELSE cells[i]
  BY <1>1, MovedType
<1>3. \A i \in 1..Len(s) : s[i] # Junk
  <2>1. \A i \in 1..Len(s) : s[i] \in Bytes
    OBVIOUS
  <2> QED  BY <2>1
<1> HIDE DEF moved
<1>4. \A i \in 1..size : moved[i] # Junk
  <2>1. \A i \in 1..size : i \in 1..Len(cells)
    BY <1>1
  <2> QED  BY <1>1, <1>2, <1>3, <2>1
<1> QED  BY <1>1, <1>2, <1>4 DEF Sound, moved

LEMMA ReplaceSound ==
    ASSUME MemoryInv, NEW b \in Buffers, NEW pos \in Counts, NEW s \in Strings,
           replace(b, pos, s)
    PROVE  MemoryInv'
<1>1. /\ UNCHANGED m_maxblocks
      /\ m_maxblocks' \in [Buffers -> 0..max_blocks]
      /\ pos \in Nat /\ s \in Seq(Bytes) /\ Len(s) \in Nat
      /\ Sound(m_data[b], m_block[b], m_size[b])
      /\ m_size[b] \in Nat
  BY DEF MemoryInv, replace
<1>2. CASE AppendTo(b, m_size[b], s)
  BY <1>1, <1>2, AppendToSound
<1>3. CASE pos < m_size[b] /\ AppendTo(b, pos, s)
  BY <1>1, <1>3, AppendToSound
<1>4. CASE /\ pos < m_size[b] /\ pos + Len(s) < m_size[b]
           /\ Holds(b, Moved(m_data[b], pos, s), m_block[b], m_size[b])
  <2>1. Sound(Moved(m_data[b], pos, s), m_block[b], m_size[b])
    BY <1>1, <1>4, OverwrittenSound
  <2> QED  BY <1>1, <1>4, <2>1, HoldsSound
<1> QED  BY <1>1, <1>2, <1>3, <1>4 DEF replace

(* What SubSeq returns of cells from an offset on. *)
LEMMA Behind ==
    ASSUME NEW cells \in Seq(Cells), NEW at \in Nat, NEW size \in Nat,
           size <= Len(cells)
    PROVE  /\ SubSeq(cells, at + 1, size) \in Seq(Cells)
           /\ Len(SubSeq(cells, at + 1, size)) = IF at < size THEN size - at ELSE 0
           /\ \A i \in 1..Len(SubSeq(cells, at + 1, size)) :
                 SubSeq(cells, at + 1, size)[i] = cells[at + i]
<1>1. CASE at < size
  <2>1. SubSeq(cells, at + 1, size) = [i \in 1..(size - at) |-> cells[at + i]]
    BY <1>1
  <2>2. \A i \in 1..(size - at) : cells[at + i] \in Cells
    BY <1>1
  <2> QED  BY <1>1, <2>1, <2>2
<1>2. CASE ~ (at < size)
  <2>1. SubSeq(cells, at + 1, size) = <<>>
    BY <1>2
  <2> QED  BY <1>2, <2>1
<1> QED  BY <1>1, <1>2

(* The bytes behind the erased ones move forward over them. *)
LEMMA ClosedType ==
    ASSUME MemoryInv, NEW b \in Buffers, NEW pos \in Nat, NEW n \in Nat
    PROVE  LET rest == SubSeq(m_data[b], pos + n + 1, m_size[b]) IN
           /\ rest \in Seq(Cells)
           /\ Len(rest) = IF pos + n < m_size[b] THEN m_size[b] - (pos + n) ELSE 0
           /\ \A i \in 1..Len(rest) : rest[i] = m_data[b][pos + n + i]
           /\ Closed(b, pos, n) \in Seq(Cells)
           /\ Len(Closed(b, pos, n)) = Len(m_data[b])
           /\ \A i \in 1..Len(m_data[b]) :
                 Closed(b, pos, n)[i] =
                    IF i - pos \in 1..Len(rest) THEN rest[i - pos]
                    ELSE m_data[b][i]
<1>1. /\ m_size[b] \in Nat /\ m_data[b] \in Seq(Cells)
      /\ m_size[b] <= Len(m_data[b])
  BY DEF MemoryInv, Sound
<1> DEFINE rest == SubSeq(m_data[b], pos + n + 1, m_size[b])
<1>2. /\ rest \in Seq(Cells)
      /\ Len(rest) = IF pos + n < m_size[b] THEN m_size[b] - (pos + n) ELSE 0
      /\ \A i \in 1..Len(rest) : rest[i] = m_data[b][pos + n + i]
  <2> DEFINE at == pos + n
  <2>1. at \in Nat /\ rest = SubSeq(m_data[b], at + 1, m_size[b])
    BY <1>1
  <2> HIDE DEF at, rest
  <2>2. /\ rest \in Seq(Cells)
        /\ Len(rest) = IF at < m_size[b] THEN m_size[b] - at ELSE 0
        /\ \A i \in 1..Len(rest) : rest[i] = m_data[b][at + i]
    BY <1>1, <2>1, Behind
  <2> QED  BY <2>2 DEF at
<1>3. /\ Closed(b, pos, n) \in Seq(Cells)
      /\ Len(Closed(b, pos, n)) = Len(m_data[b])
      /\ \A i \in 1..Len(m_data[b]) :
            Closed(b, pos, n)[i] =
               IF i - pos \in 1..Len(rest) THEN rest[i - pos] ELSE m_data[b][i]
  <2>1. Closed(b, pos, n) = Moved(m_data[b], pos, rest)
    BY DEF Closed
  <2> HIDE DEF rest
  <2>2. /\ Moved(m_data[b], pos, rest) \in Seq(Cells)
        /\ Len(Moved(m_data[b], pos, rest)) = Len(m_data[b])
        /\ \A i \in 1..Len(m_data[b]) :
              Moved(m_data[b], pos, rest)[i] =
                 IF i - pos \in 1..Len(rest) THEN rest[i - pos]
                 ELSE m_data[b][i]
    <3> DEFINE cells == m_data[b]
    <3>1. cells \in Seq(Cells) /\ rest \in Seq(Cells) /\ pos \in Nat
      BY <1>1, <1>2
    <3> HIDE DEF cells
    <3>2. /\ Moved(cells, pos, rest) \in Seq(Cells)
          /\ Len(Moved(cells, pos, rest)) = Len(cells)
          /\ \A i \in 1..Len(cells) :
                Moved(cells, pos, rest)[i] =
                   IF i - pos \in 1..Len(rest) THEN rest[i - pos] ELSE cells[i]
      BY ONLY <3>1, MovedType
    <3> QED  BY ONLY <3>2 DEF cells
  <2> QED  BY <2>1, <2>2
<1> QED  BY <1>2, <1>3

LEMMA ClosedSound ==
    ASSUME MemoryInv, NEW b \in Buffers, NEW pos \in Nat, NEW n \in Nat,
           pos <= m_size[b]
    PROVE  Sound(Closed(b, pos, n), m_block[b],
                 IF n >= m_size[b] - pos THEN pos ELSE m_size[b] - n)
<1> DEFINE left == IF n >= m_size[b] - pos THEN pos ELSE m_size[b] - n
           rest == SubSeq(m_data[b], pos + n + 1, m_size[b])
<1>1. /\ Sound(m_data[b], m_block[b], m_size[b])
      /\ m_size[b] \in Nat /\ Len(m_data[b]) \in Nat
      /\ m_size[b] <= Len(m_data[b])
  BY DEF MemoryInv, Sound
<1>2. /\ rest \in Seq(Cells)
      /\ Len(rest) = IF pos + n < m_size[b] THEN m_size[b] - (pos + n) ELSE 0
      /\ \A i \in 1..Len(rest) : rest[i] = m_data[b][pos + n + i]
      /\ Closed(b, pos, n) \in Seq(Cells)
      /\ Len(Closed(b, pos, n)) = Len(m_data[b])
      /\ \A i \in 1..Len(m_data[b]) :
            Closed(b, pos, n)[i] =
               IF i - pos \in 1..Len(rest) THEN rest[i - pos] ELSE m_data[b][i]
  BY ClosedType, ZenonT(80)
<1>3. left \in Nat /\ left <= m_size[b]
  BY <1>1
<1>4. \A i \in 1..left : Closed(b, pos, n)[i] # Junk
  <2> SUFFICES ASSUME NEW i \in 1..left PROVE Closed(b, pos, n)[i] # Junk
    OBVIOUS
  <2>1. i \in 1..m_size[b] /\ i \in 1..Len(m_data[b]) /\ m_data[b][i] # Junk
    BY <1>1, <1>3, SMTT(40) DEF Sound
  <2>2. CASE i - pos \in 1..Len(rest)
    <3>1. pos + n + (i - pos) \in 1..m_size[b]
      <4> DEFINE k == i - pos
      <4>1. i \in Nat /\ k \in 1..Len(rest)
        <5> HIDE DEF left, rest
        <5>1. i \in Nat
          BY <1>3
        <5> QED  BY <2>2, <5>1
      <4> HIDE DEF k, rest
      <4>2. k <= m_size[b] - (pos + n) /\ k \in Nat /\ k >= 1
        BY <1>1, <1>2, <4>1
      <4>3. pos + n + k \in 1..m_size[b]
        BY <1>1, <4>2
      <4> QED  BY <4>3 DEF k
    <3> QED  BY <1>1, <1>2, <1>3, <2>1, <2>2, <3>1 DEF Sound
  <2>3. CASE i - pos \notin 1..Len(rest)
    BY <1>2, <2>1, <2>3
  <2> QED  BY <2>2, <2>3
<1>5. Sound(Closed(b, pos, n), m_block[b], left)
  BY <1>1, <1>2, <1>3, <1>4, SMTT(40) DEF Sound
<1> QED  BY <1>5

LEMMA EraseSound ==
    ASSUME MemoryInv, NEW b \in Buffers, NEW pos \in Counts, NEW n \in Counts,
           NEW hold \in BOOLEAN, erase(b, pos, n, hold)
    PROVE  MemoryInv'
<1> DEFINE left == IF n >= m_size[b] - pos THEN pos ELSE m_size[b] - n
<1>1. /\ m_maxblocks' \in [Buffers -> 0..max_blocks]
      /\ pos \in Nat /\ n \in Nat /\ pos <= m_size[b]
  BY DEF MemoryInv, erase
<1>2. CASE free(b)
  BY <1>1, <1>2, FreeSound
<1>3. CASE Holds(b, Closed(b, pos, n), m_block[b], left)
  <2>1. Sound(Closed(b, pos, n), m_block[b], left)
    BY <1>1, ClosedSound
  <2> HIDE DEF left
  <2> QED  BY <1>1, <1>3, <2>1, HoldsSound
<1> QED  BY <1>2, <1>3 DEF erase

LEMMA InitMemory == Init => MemoryInv
<1>1. Sound(<<>>, 0, 0)
  BY DEF Sound
<1> QED  BY <1>1 DEF Init, MemoryInv

LEMMA NextMemory == MemoryInv /\ [Next]_vars => MemoryInv'
<1> SUFFICES ASSUME MemoryInv, [Next]_vars PROVE MemoryInv'
  OBVIOUS
<1>1. CASE UNCHANGED vars
  BY <1>1 DEF MemoryInv, vars, bufferVars
<1>2. ASSUME NEW b \in Buffers, NEW s \in Strings, append(b, s) PROVE MemoryInv'
  <2>1. m_size[b] \in Nat /\ m_size[b] <= m_size[b] /\ s \in Seq(Bytes)
    BY DEF MemoryInv
  <2> QED  BY <1>2, <2>1, AppendToSound DEF append
<1>3. ASSUME NEW b \in Buffers, NEW n \in Counts, set_max_blocks(b, n)
      PROVE  MemoryInv'
  BY <1>3 DEF set_max_blocks, MemoryInv, bufferVars
<1>4. ASSUME NEW b \in Buffers, Renew(b) PROVE MemoryInv'
  <2>1. m_maxblocks' \in [Buffers -> 0..max_blocks]
    BY <1>4 DEF Renew, MemoryInv
  <2> QED  BY <1>4, <2>1, FreeSound DEF Renew
<1> QED  BY <1>1, <1>2, <1>3, <1>4, ReserveSound, ResizeSound, ReplaceSound,
            EraseSound DEF Next

(* The data always fits the memory, the memory the maximum, and every byte   *)
(* of the data was written, whichever allocations fail.                      *)
THEOREM MemoryIsSound == Spec => []WithinCapacity
<1>1. Init => MemoryInv
  BY InitMemory
<1>2. MemoryInv /\ [Next]_vars => MemoryInv'
  BY NextMemory
<1>3. MemoryInv => WithinCapacity
  BY DEF MemoryInv, Sound, WithinCapacity, capacity
<1> QED  BY <1>1, <1>2, <1>3, PTL DEF Spec

-----------------------------------------------------------------------------
(* The shared counter. *)

Total(f) == MapThenSumSet(LAMBDA x : f[x], Buffers)

LEMMA SumRun ==
    ASSUME NEW f
    PROVE  \E h : Plus!ChosenRun(h, 0, f, Buffers) /\ Total(f) = h[Buffers]
<1>1. IsFiniteSet(Buffers)
  BY BufferAssumption
<1>2. Plus!IsFiniteSet(Buffers)
  BY <1>1 DEF IsFiniteSet, Plus!IsFiniteSet
<1>3. Total(f) = Plus!ChosenFold(0, f, Buffers)
  BY DEF Total, MapThenSumSet, MapThenFoldSet, Plus!ChosenFold, Plus!MapThenFoldSet
<1> QED  BY <1>2, <1>3, Plus!FoldChosenRun

LEMMA Sums ==
    ASSUME NEW f \in [Buffers -> Nat], NEW g \in [Buffers -> Nat],
           NEW b \in Buffers, \A x \in Buffers \ {b} : g[x] = f[x]
    PROVE  /\ Total(f) \in Nat
           /\ Total(g) =
                 Total(f) + (g[b] - f[b])
           /\ f[b] <= Total(f)
<1>1. IsFiniteSet(Buffers)
  BY BufferAssumption
<1>2. PICK F : Plus!ChosenRun(F, 0, f, Buffers) /\ Total(f) = F[Buffers]
  BY SumRun
<1>3. PICK G : Plus!ChosenRun(G, 0, g, Buffers) /\ Total(g) = G[Buffers]
  BY SumRun
<1> DEFINE P == {s \in SUBSET Buffers :
                   /\ F[s] \in Nat /\ G[s] \in Nat
                   /\ IF b \in s THEN G[s] = F[s] + (g[b] - f[b]) /\ f[b] <= F[s]
                      ELSE G[s] = F[s]}
<1>4. {} \in P
  <2>1. F[{}] = 0 /\ G[{}] = 0
    BY <1>2, <1>3 DEF Plus!ChosenRun
  <2> QED  BY <2>1
<1>5. ASSUME NEW s \in SUBSET Buffers, s # {}, \A x \in s : s \ {x} \in P
      PROVE  s \in P
  <2>1. Plus!AnyOf(s) \in s /\ Plus!AnyOf(s) \in Buffers
    BY <1>5 DEF Plus!AnyOf
  <2> DEFINE t == s \ {Plus!AnyOf(s)}
  <2>2. F[s] = f[Plus!AnyOf(s)] + F[t] /\ G[s] = g[Plus!AnyOf(s)] + G[t] /\ t \in P
    BY <1>2, <1>3, <1>5, <2>1 DEF Plus!ChosenRun
  <2>3. f[Plus!AnyOf(s)] \in Nat /\ g[Plus!AnyOf(s)] \in Nat /\ f[b] \in Nat /\ g[b] \in Nat
    BY <2>1
  <2>4. CASE Plus!AnyOf(s) = b
    BY <2>1, <2>2, <2>3, <2>4
  <2>5. CASE Plus!AnyOf(s) # b
    <3>1. g[Plus!AnyOf(s)] = f[Plus!AnyOf(s)] /\ (b \in s <=> b \in t)
      BY <2>1, <2>5
    <3> HIDE DEF t
    <3> QED  BY <2>2, <2>3, <3>1
  <2> QED  BY <2>4, <2>5
<1>6. Buffers \in P
  <2> HIDE DEF P
  <2>1. Plus!Grows(P, Buffers)
    BY <1>4, <1>5 DEF Plus!Grows
  <2>2. \A s \in SUBSET Buffers : s \in P
    <3>1. Plus!IsFiniteSet(Buffers)
      BY <1>1 DEF IsFiniteSet, Plus!IsFiniteSet
    <3> QED  BY <3>1, <2>1, Plus!InductSubsets
  <2> QED  BY <2>2
<1> QED  BY <1>2, <1>3, <1>6

(* What a call does to the blocks of one buffer and to the counters. *)
CountsBlocks(b) ==
    /\ \E n \in Nat :
          /\ m_block' = [m_block EXCEPT ![b] = n]
          /\ s_current_total_blocks' = s_current_total_blocks + (n - m_block[b])
    /\ \/ /\ s_current_total_blocks' <= s_current_total_blocks
          /\ UNCHANGED s_peak_total_blocks
       \/ s_peak_total_blocks' = Larger(s_peak_total_blocks, s_current_total_blocks')

CountInv ==
    /\ s_current_total_blocks = Total(m_block)
    /\ s_current_total_blocks \in Nat
    /\ s_peak_total_blocks \in Nat
    /\ s_peak_total_blocks >= s_current_total_blocks

Answers == {"yes", "full", "nomem"}

LEMMA CountsKeep ==
    ASSUME MemoryInv, CountInv, NEW b \in Buffers, CountsBlocks(b)
    PROVE  CountInv'
<1>1. PICK n \in Nat :
         /\ m_block' = [m_block EXCEPT ![b] = n]
         /\ s_current_total_blocks' = s_current_total_blocks + (n - m_block[b])
  BY DEF CountsBlocks
<1>2. /\ m_block \in [Buffers -> Nat] /\ m_block' \in [Buffers -> Nat]
      /\ m_block'[b] = n /\ \A x \in Buffers \ {b} : m_block'[x] = m_block[x]
  BY <1>1 DEF MemoryInv
<1>3. /\ Total(m_block) \in Nat /\ m_block[b] <= Total(m_block)
      /\ Total(m_block') = Total(m_block) + (n - m_block[b])
  BY <1>2, Sums
<1>4. /\ s_current_total_blocks' = Total(m_block')
      /\ s_current_total_blocks \in Nat /\ s_current_total_blocks' \in Nat
  BY <1>1, <1>2, <1>3 DEF CountInv
<1>5. /\ s_peak_total_blocks' \in Nat
      /\ s_peak_total_blocks' >= s_current_total_blocks'
  BY <1>4 DEF CountsBlocks, CountInv, Larger
<1> QED  BY <1>4, <1>5 DEF CountInv

(* Growth, failure and everything that leaves the blocks alone. *)
LEMMA IncreaseCounts ==
    ASSUME MemoryInv, NEW b \in Buffers, NEW size \in Nat, size <= m_size[b],
           NEW n \in Nat, NEW cells, NEW left, Increases(b, size, n, cells, left)
    PROVE  UNCHANGED <<m_block, totals>> \/ CountsBlocks(b)
<1>1. /\ m_block \in [Buffers -> Nat]
      /\ m_block' = [m_block EXCEPT ![b] = Blocks(b, size, n)]
  BY DEF MemoryInv, Increases, Holds
<1>2. CASE HasRoom(b, size, n)
  BY <1>1, <1>2 DEF Increases, Blocks
<1>3. CASE ~ HasRoom(b, size, n)
  <2>1. Blocks(b, size, n) \in Nat
    BY MemoryProvided DEF Increases, Sound
  <2>2. newblock(b, size, n) = Blocks(b, size, n)
    BY <1>3 DEF Blocks
  <2> QED  BY <1>1, <1>3, <2>1, <2>2 DEF Increases, Counted, CountsBlocks
<1> QED  BY <1>2, <1>3

LEMMA SameBlocks ==
    ASSUME MemoryInv, NEW b \in Buffers, NEW cells, NEW size,
           Holds(b, cells, m_block[b], size), UNCHANGED totals
    PROVE  UNCHANGED <<m_block, totals>>
BY DEF MemoryInv, Holds

LEMMA AppendToCounts ==
    ASSUME MemoryInv, NEW b \in Buffers, NEW size \in Nat, size <= m_size[b],
           NEW s \in Seq(Bytes), AppendTo(b, size, s)
    PROVE  /\ UNCHANGED <<m_block, totals>> \/ CountsBlocks(b)
           /\ answer' \in Answers
<1>1. Len(s) \in Nat
  OBVIOUS
<1>2. CASE Increases(b, size, Len(s), Moved(Memory(b, size, Len(s)), size, s),
                     size + Len(s))
  BY <1>1, <1>2, IncreaseCounts DEF Increases, Answers
<1>3. CASE IncreaseFails(b, size, Len(s))
  BY <1>3, SameBlocks DEF IncreaseFails, Answers
<1> QED  BY <1>2, <1>3 DEF AppendTo

LEMMA FreeCounts ==
    ASSUME MemoryInv, CountInv, NEW b \in Buffers, free(b)
    PROVE  CountsBlocks(b)
<1>1. m_block[b] \in Nat /\ m_block' = [m_block EXCEPT ![b] = 0]
  BY DEF MemoryInv, free, Holds
<1>2. s_current_total_blocks \in Nat
  BY DEF CountInv
<1>3. /\ s_current_total_blocks' = s_current_total_blocks + (0 - m_block[b])
      /\ s_current_total_blocks' <= s_current_total_blocks
      /\ UNCHANGED s_peak_total_blocks
  BY <1>1, <1>2 DEF free
<1> QED  BY <1>1, <1>3 DEF CountsBlocks

LEMMA EveryCallCounts ==
    ASSUME MemoryInv, CountInv, answer \in Answers, Next
    PROVE  /\ UNCHANGED <<m_block, totals>> \/ \E b \in Buffers : CountsBlocks(b)
           /\ answer' \in Answers
<1> DEFINE Goal == /\ \/ UNCHANGED <<m_block, totals>>
                      \/ \E b \in Buffers : CountsBlocks(b)
                   /\ answer' \in Answers
<1>1. PICK b \in Buffers :
         \/ \E s \in Strings : append(b, s)
         \/ \E s \in Strings, pos \in Counts : replace(b, pos, s)
         \/ \E n \in Counts : reserve(b, n) \/ resize(b, n) \/ set_max_blocks(b, n)
         \/ \E pos, n \in Counts, hold \in BOOLEAN : erase(b, pos, n, hold)
         \/ Renew(b)
  BY DEF Next
<1>2. /\ m_size[b] \in Nat /\ m_size[b] <= m_size[b]
      /\ Sound(m_data[b], m_block[b], m_size[b])
  BY DEF MemoryInv
<1>3. ASSUME NEW size \in Nat, size <= m_size[b], NEW s \in Seq(Bytes),
             AppendTo(b, size, s)
      PROVE  Goal
  BY <1>3, AppendToCounts
<1>4. ASSUME NEW cells, NEW size, Holds(b, cells, m_block[b], size),
             UNCHANGED totals, answer' \in Answers
      PROVE  Goal
  BY <1>4, SameBlocks
<1>5. ASSUME free(b), answer' = "yes" PROVE Goal
  BY <1>5, FreeCounts DEF Answers
<1> HIDE DEF Goal
<1>6. ASSUME NEW s \in Strings, append(b, s) PROVE Goal
  BY <1>2, <1>3, <1>6 DEF append
<1>7. ASSUME NEW s \in Strings, NEW pos \in Counts, replace(b, pos, s) PROVE Goal
  <2>1. pos \in Nat /\ s \in Seq(Bytes) /\ (pos < m_size[b] => pos <= m_size[b])
    BY <1>2
  <2>2. CASE AppendTo(b, m_size[b], s)
    BY <1>2, <1>3, <2>1, <2>2
  <2>3. CASE pos < m_size[b] /\ AppendTo(b, pos, s)
    BY <1>3, <2>1, <2>3
  <2>4. CASE /\ Holds(b, Moved(m_data[b], pos, s), m_block[b], m_size[b])
             /\ answer' = "yes" /\ UNCHANGED totals
    BY <1>4, <2>4 DEF Answers
  <2> QED  BY <1>7, <2>2, <2>3, <2>4 DEF replace
<1>8. ASSUME NEW n \in Counts, reserve(b, n) PROVE Goal
  <2> DEFINE more == n - capacity(b)
  <2>1. n \in Nat
    OBVIOUS
  <2>2. CASE UNCHANGED <<bufferVars, totals>> /\ answer' = "yes"
    BY <2>2 DEF bufferVars, Answers, Goal
  <2>3. CASE n > capacity(b) /\ Increases(b, m_size[b], more,
                  Memory(b, m_size[b], more), m_size[b])
    <3>1. more \in Nat
      <4>1. m_block[b] \in Nat
        BY <1>2 DEF Sound
      <4>2. capacity(b) \in Nat
        BY <4>1 DEF capacity
      <4> QED  BY <2>1, <2>3, <4>2
    <3> HIDE DEF more
    <3>2. UNCHANGED <<m_block, totals>> \/ CountsBlocks(b)
      BY <1>2, <2>3, <3>1, IncreaseCounts
    <3> QED  BY <2>3, <3>2 DEF Increases, Answers, Goal
  <2>4. CASE IncreaseFails(b, m_size[b], more)
    <3> HIDE DEF more
    <3> QED  BY <1>4, <2>4 DEF IncreaseFails, Answers
  <2> QED  BY <1>8, <2>2, <2>3, <2>4 DEF reserve
<1>9. ASSUME NEW n \in Counts, resize(b, n) PROVE Goal
  <2>1. n \in Nat
    OBVIOUS
  <2>2. CASE n > m_size[b]
    <3>1. [i \in 1..(n - m_size[b]) |-> Zero] \in Seq(Bytes)
      BY <1>2, <2>1, <2>2
    <3> QED  BY <1>2, <1>3, <1>9, <2>1, <2>2, <3>1 DEF resize
  <2>3. CASE n <= m_size[b]
    BY <1>2, <1>4, <1>9, <2>1, <2>3 DEF resize, Answers
  <2> QED  BY <1>2, <2>1, <2>2, <2>3
<1>10. ASSUME NEW n \in Counts, set_max_blocks(b, n) PROVE Goal
  BY <1>10 DEF set_max_blocks, bufferVars, Goal
<1>11. ASSUME NEW pos \in Counts, NEW n \in Counts, NEW hold \in BOOLEAN,
              erase(b, pos, n, hold)
       PROVE  Goal
  BY <1>4, <1>5, <1>11 DEF erase, Answers
<1>12. ASSUME Renew(b) PROVE Goal
  BY <1>5, <1>12 DEF Renew
<1> QED  BY <1>1, <1>6, <1>7, <1>8, <1>9, <1>10, <1>11, <1>12 DEF Goal

BufferInv == MemoryInv /\ CountInv /\ answer \in Answers

LEMMA InitBuffer == Init => BufferInv
<1> SUFFICES ASSUME Init PROVE BufferInv
  OBVIOUS
<1>1. MemoryInv
  BY InitMemory
<1>2. PICK h : Plus!ChosenRun(h, 0, m_block, Buffers) /\ Total(m_block) = h[Buffers]
  BY SumRun
<1>3. Total(m_block) = 0
  <2> DEFINE P == {s \in SUBSET Buffers : h[s] = 0}
  <2>1. {} \in P
    BY <1>2 DEF Plus!ChosenRun
  <2>2. ASSUME NEW s \in SUBSET Buffers, s # {}, \A x \in s : s \ {x} \in P
        PROVE  s \in P
    <3>1. Plus!AnyOf(s) \in s /\ Plus!AnyOf(s) \in Buffers
      BY <2>2 DEF Plus!AnyOf
    <3>2. h[s] = m_block[Plus!AnyOf(s)] + h[s \ {Plus!AnyOf(s)}]
      BY <1>2, <2>2 DEF Plus!ChosenRun
    <3> QED  BY <2>2, <3>1, <3>2, SMTT(40) DEF Init
  <2>3. Plus!Grows(P, Buffers) /\ Plus!IsFiniteSet(Buffers)
    BY <2>1, <2>2 DEF Plus!Grows, IsFiniteSet, Plus!IsFiniteSet
  <2>4. \A s \in SUBSET Buffers : s \in P
    <3> HIDE DEF P
    <3> QED  BY <2>3, Plus!InductSubsets
  <2> QED  BY <1>2, <2>4
<1> QED  BY <1>1, <1>3 DEF Init, BufferInv, CountInv, Answers

LEMMA NextBuffer == BufferInv /\ [Next]_vars => BufferInv'
<1> SUFFICES ASSUME BufferInv, [Next]_vars PROVE BufferInv'
  OBVIOUS
<1>1. MemoryInv'
  BY NextMemory DEF BufferInv
<1>2. ASSUME UNCHANGED <<m_block, totals>> PROVE CountInv'
  BY <1>2 DEF BufferInv, CountInv, totals
<1>3. CASE UNCHANGED vars
  BY <1>1, <1>2, <1>3 DEF BufferInv, vars, bufferVars
<1>4. CASE Next
  BY <1>1, <1>2, <1>4, EveryCallCounts, CountsKeep DEF BufferInv
<1> QED  BY <1>3, <1>4

(* What the memory of each buffer holds, and what the shared counters are    *)
(* of it, is kept by every call, whichever allocations fail.                 *)
THEOREM BufferInvariant == Spec => []BufferInv
BY InitBuffer, NextBuffer, PTL DEF Spec

(* Every variable keeps its type, for any number of buffers that share the  *)
(* counters, any block size and limits.                                     *)
THEOREM TypeCorrect == Spec => []TypeOK
<1>1. BufferInv => TypeOK
  <2> SUFFICES ASSUME BufferInv PROVE TypeOK
    OBVIOUS
  <2> QED  BY DEF BufferInv, MemoryInv, CountInv, Sound, Answers, Cells, TypeOK
<1> QED  BY <1>1, BufferInvariant, PTL

(* The counter that the buffers share is the sum of their blocks, through   *)
(* growth, failure, erasure and destruction of any of them; the peak is one *)
(* of it.                                                                   *)
THEOREM CounterIsTheSum == Spec => []TotalsMatch
<1>1. BufferInv => TotalsMatch
  BY DEF BufferInv, CountInv, TotalsMatch, Total
<1> QED  BY <1>1, BufferInvariant, PTL

-----------------------------------------------------------------------------
(* Texts: the implementation of TextBuffer. *)

LEMMA SameText ==
    ASSUME NEW s \in Seq(Cells), NEW t \in Seq(Cells), Len(s) = Len(t),
           \A i \in 1..Len(s) : s[i] = t[i]
    PROVE  s = t
OBVIOUS

LEMMA Joined ==
    ASSUME NEW s \in Seq(Cells), NEW t \in Seq(Cells)
    PROVE  /\ s \o t \in Seq(Cells) /\ Len(s \o t) = Len(s) + Len(t)
           /\ \A i \in 1..(Len(s) + Len(t)) :
                 (s \o t)[i] = IF i <= Len(s) THEN s[i] ELSE t[i - Len(s)]
OBVIOUS

LEMMA Front ==
    ASSUME NEW cells \in Seq(Cells), NEW n \in Nat, n <= Len(cells)
    PROVE  /\ SubSeq(cells, 1, n) \in Seq(Cells) /\ Len(SubSeq(cells, 1, n)) = n
           /\ \A i \in 1..n : SubSeq(cells, 1, n)[i] = cells[i]
OBVIOUS

LEMMA Halves ==
    ASSUME NEW cells \in Seq(Cells), NEW n \in Nat, NEW size \in Nat,
           n <= size, size <= Len(cells)
    PROVE  SubSeq(cells, 1, size) = SubSeq(cells, 1, n) \o SubSeq(cells, n + 1, size)
<1> DEFINE l == SubSeq(cells, 1, size)
           first == SubSeq(cells, 1, n)
           rest == SubSeq(cells, n + 1, size)
<1>1. l \in Seq(Cells) /\ Len(l) = size /\ \A i \in 1..size : l[i] = cells[i]
  BY Front
<1>2. first \in Seq(Cells) /\ Len(first) = n /\ \A i \in 1..n : first[i] = cells[i]
  BY Front
<1>3. /\ rest \in Seq(Cells) /\ Len(rest) = size - n
      /\ \A i \in 1..Len(rest) : rest[i] = cells[n + i]
  BY Behind
<1> HIDE DEF l, first, rest
<1>4. /\ first \o rest \in Seq(Cells) /\ Len(first \o rest) = size
      /\ \A i \in 1..size :
            (first \o rest)[i] = IF i <= n THEN first[i] ELSE rest[i - n]
  BY <1>2, <1>3, Joined
<1>5. ASSUME NEW i \in 1..size PROVE l[i] = (first \o rest)[i]
  <2>1. CASE i <= n
    BY <1>1, <1>2, <1>4, <2>1
  <2>2. CASE ~ (i <= n)
    <3>1. i - n \in 1..Len(rest) /\ n + (i - n) = i
      BY <1>3, <2>2
    <3>2. rest[i - n] = cells[n + (i - n)]
      BY <1>3, <3>1
    <3> QED  BY <1>1, <1>4, <2>2, <3>1, <3>2
  <2> QED  BY <2>1, <2>2
<1> QED  BY <1>1, <1>4, <1>5, SameText DEF l, first, rest

(* The text of a buffer is the first m_size bytes of its memory. *)
LEMMA TextOf ==
    ASSUME MemoryInv, NEW b \in Buffers
    PROVE  /\ Len(SubSeq(m_data[b], 1, m_size[b])) = m_size[b]
           /\ \A n \in 0..m_size[b] : Text!Start(b, n) = SubSeq(m_data[b], 1, n)
           /\ \A n \in Nat : Text!Rest(b, n) = SubSeq(m_data[b], n + 1, m_size[b])
<1>1. /\ m_data[b] \in Seq(Cells) /\ m_size[b] \in Nat
      /\ m_size[b] <= Len(m_data[b])
  BY DEF MemoryInv, Sound
<1> DEFINE text == SubSeq(m_data[b], 1, m_size[b])
<1>2. /\ text \in Seq(Cells) /\ Len(text) = m_size[b]
      /\ \A i \in 1..m_size[b] : text[i] = m_data[b][i]
  BY <1>1, Front
<1> HIDE DEF text
<1>3. ASSUME NEW n \in 0..m_size[b] PROVE SubSeq(text, 1, n) = SubSeq(m_data[b], 1, n)
  BY <1>1, <1>2, <1>3
<1>4. ASSUME NEW n \in Nat
      PROVE  SubSeq(text, n + 1, m_size[b]) = SubSeq(m_data[b], n + 1, m_size[b])
  <2> DEFINE r == SubSeq(text, n + 1, m_size[b])
             q == SubSeq(m_data[b], n + 1, m_size[b])
  <2>1. /\ r \in Seq(Cells) /\ Len(r) = IF n < m_size[b] THEN m_size[b] - n ELSE 0
        /\ \A i \in 1..Len(r) : r[i] = text[n + i]
    BY <1>1, <1>2, Behind, SMTT(40)
  <2>2. /\ q \in Seq(Cells) /\ Len(q) = IF n < m_size[b] THEN m_size[b] - n ELSE 0
        /\ \A i \in 1..Len(q) : q[i] = m_data[b][n + i]
    BY <1>1, Behind
  <2> HIDE DEF r, q
  <2>3. \A i \in 1..Len(r) : n + i \in 1..m_size[b]
    BY <1>1, <2>1
  <2>4. r = q
    BY <1>2, <2>1, <2>2, <2>3, SameText
  <2> QED  BY <2>4 DEF r, q
<1>5. Text!Start(b, 0) = Text!Start(b, 0) /\ [c \in Buffers |-> SubSeq(m_data[c], 1, m_size[c])][b] = text
  BY DEF text
<1> QED  BY <1>2, <1>3, <1>4, <1>5 DEF text, Text!Start, Text!Rest

texts == [b \in Buffers |-> SubSeq(m_data[b], 1, m_size[b])]

TextBecomes(b, t) == texts' = [texts EXCEPT ![b] = t]

(* A call that leaves sound memory in one buffer has changed its text.      *)
LEMMA HoldsText ==
    ASSUME MemoryInv, NEW b \in Buffers, NEW cells, NEW blocks, NEW size,
           Sound(cells, blocks, size), Holds(b, cells, blocks, size)
    PROVE  TextBecomes(b, SubSeq(cells, 1, size))
<1> DEFINE kept == [i \in DOMAIN cells |-> IF i <= size THEN cells[i] ELSE Junk]
<1>1. /\ cells \in Seq(Cells) /\ size \in Nat /\ size <= Len(cells)
      /\ DOMAIN cells = 1..Len(cells)
      /\ \A i \in 1..Len(cells) : cells[i] \in Cells
  BY DEF Sound
<1>2. kept \in Seq(Cells) /\ Len(kept) = Len(cells)
      /\ \A i \in 1..size : kept[i] = cells[i]
  BY <1>1 DEF Cells
<1>3. m_data' = [m_data EXCEPT ![b] = kept] /\ m_size' = [m_size EXCEPT ![b] = size]
  BY DEF Holds
<1>4. m_data \in [Buffers -> Seq(Cells)] /\ m_size \in [Buffers -> Nat]
  BY DEF MemoryInv
<1> HIDE DEF kept
<1>5. SubSeq(kept, 1, size) = SubSeq(cells, 1, size)
  BY <1>1, <1>2, Front, SameText
<1>6. \A c \in Buffers : SubSeq(m_data'[c], 1, m_size'[c]) =
         IF c = b THEN SubSeq(cells, 1, size) ELSE SubSeq(m_data[c], 1, m_size[c])
  BY <1>3, <1>4, <1>5
<1> QED  BY <1>6 DEF TextBecomes, texts

LEMMA SameLimit ==
    ASSUME UNCHANGED m_maxblocks
    PROVE  UNCHANGED [b \in Buffers |-> m_maxblocks[b] * BlockSize]
OBVIOUS

(* Less than all blocks that would be needed are too few. *)
LEMMA TooMany ==
    ASSUME NEW k \in Nat, NEW more \in Nat, more > 0, NEW m \in Nat,
           k + more \div BlockSize + (IF more % BlockSize > 0 THEN 1 ELSE 0) > m
    PROVE  k * BlockSize + more > m * BlockSize
<1> DEFINE q == more \div BlockSize
           r == more % BlockSize
<1>1. q \in Nat /\ r \in 0..(BlockSize - 1) /\ more = BlockSize * q + r
  BY DivMod
<1>2. k + q + (IF r > 0 THEN 1 ELSE 0) > m
  OBVIOUS
<1> HIDE DEF q, r
<1>3. PICK p \in Nat : p >= m /\ k * BlockSize + more > p * BlockSize
  <2>1. k * BlockSize \in Nat /\ q * BlockSize \in Nat
    BY <1>1
  <2>2. CASE r > 0
    <3>1. more > q * BlockSize
      BY <1>1, <2>2
    <3>2. (k + q) * BlockSize = k * BlockSize + q * BlockSize
      BY <1>1, Distributes
    <3>3. k + q \in Nat /\ k + q >= m
      BY <1>1, <1>2, <2>2
    <3>4. k * BlockSize + more > (k + q) * BlockSize
      BY <2>1, <3>1, <3>2
    <3> QED  BY <3>3, <3>4
  <2>3. CASE r = 0
    <3>1. more = q * BlockSize
      BY <1>1, <2>3
    <3>2. q # 0
      BY <3>1
    <3> DEFINE p == q - 1
    <3>3. p \in Nat /\ q = p + 1
      BY <1>1, <3>2
    <3> HIDE DEF p
    <3>4. (p + 1) * BlockSize = p * BlockSize + 1 * BlockSize
      BY <3>3, Distributes
    <3>5. (k + p) * BlockSize = k * BlockSize + p * BlockSize
      BY <3>3, Distributes
    <3>6. k + p \in Nat /\ k + p >= m
      BY <1>2, <2>3, <3>3
    <3>7. p * BlockSize \in Nat
      BY <3>3
    <3> QED  BY <2>1, <3>1, <3>3, <3>4, <3>5, <3>6, <3>7
  <2> QED  BY <1>1, <2>2, <2>3
<1>4. PICK d \in Nat : p = m + d
  <2>1. p - m \in Nat /\ p = m + (p - m)
    BY <1>3
  <2> QED  BY <2>1
<1>5. (m + d) * BlockSize = m * BlockSize + d * BlockSize
  BY Distributes
<1>6. d * BlockSize \in Nat /\ m * BlockSize \in Nat /\ k * BlockSize \in Nat
  OBVIOUS
<1> QED  BY <1>3, <1>4, <1>5, <1>6

(* "full" is answered only if the text would be longer than the limit.      *)
LEMMA FullIsFull ==
    ASSUME MemoryInv, NEW b \in Buffers, NEW size \in Nat, size <= m_size[b],
           NEW n \in Nat, ~ HasRoom(b, size, n), newblock(b, size, n) > m_maxblocks[b]
    PROVE  size + n > m_maxblocks[b] * BlockSize
<1>1. /\ m_block[b] \in Nat /\ m_maxblocks[b] \in Nat /\ m_size[b] \in Nat
      /\ m_size[b] <= m_block[b] * BlockSize
  BY DEF MemoryInv, Sound
<1>2. capacity(b) = m_block[b] * BlockSize /\ capacity(b) \in Nat
  BY <1>1 DEF capacity
<1> DEFINE more == n - (capacity(b) - size)
<1>3. more \in Nat /\ more > 0
  BY <1>2 DEF HasRoom
<1>4. m_block[b] + more \div BlockSize
          + (IF more % BlockSize > 0 THEN 1 ELSE 0) > m_maxblocks[b]
  BY DEF newblock
<1>5. size + n = capacity(b) + more
  BY <1>2
<1> HIDE DEF more
<1>6. m_block[b] * BlockSize + more > m_maxblocks[b] * BlockSize
  BY <1>1, <1>3, <1>4, TooMany
<1> QED  BY <1>2, <1>5, <1>6

(* Bytes moved behind the first n are put behind them. *)
LEMMA MovedBehind ==
    ASSUME NEW cells \in Seq(Cells), NEW n \in Nat, NEW s \in Seq(Cells),
           n + Len(s) <= Len(cells)
    PROVE  SubSeq(Moved(cells, n, s), 1, n + Len(s)) = SubSeq(cells, 1, n) \o s
<1> DEFINE moved == Moved(cells, n, s)
           l == SubSeq(moved, 1, n + Len(s))
           first == SubSeq(cells, 1, n)
<1>1. /\ moved \in Seq(Cells) /\ Len(moved) = Len(cells)
      /\ \A i \in 1..Len(cells) :
            moved[i] = IF i - n \in 1..Len(s) THEN s[i - n] ELSE cells[i]
  BY MovedType
<1> HIDE DEF moved
<1>2. /\ l \in Seq(Cells) /\ Len(l) = n + Len(s)
      /\ \A i \in 1..(n + Len(s)) : l[i] = moved[i]
  BY <1>1, Front
<1>3. first \in Seq(Cells) /\ Len(first) = n /\ \A i \in 1..n : first[i] = cells[i]
  BY Front
<1> HIDE DEF l, first
<1>4. /\ first \o s \in Seq(Cells) /\ Len(first \o s) = n + Len(s)
      /\ \A i \in 1..(n + Len(s)) :
            (first \o s)[i] = IF i <= n THEN first[i] ELSE s[i - n]
  BY <1>3, Joined
<1>5. ASSUME NEW i \in 1..(n + Len(s)) PROVE l[i] = (first \o s)[i]
  <2>1. i \in 1..Len(cells) /\ i \in Nat /\ Len(s) \in Nat
    OBVIOUS
  <2>2. CASE i <= n
    BY <1>1, <1>2, <1>3, <1>4, <2>1, <2>2
  <2>3. CASE ~ (i <= n)
    <3>1. i - n \in 1..Len(s)
      BY <2>1, <2>3
    <3>2. moved[i] = s[i - n]
      BY <1>1, <2>1, <3>1
    <3> QED  BY <1>2, <1>4, <2>1, <2>3, <3>2
  <2> QED  BY <2>2, <2>3
<1>6. l = first \o s
  BY <1>2, <1>4, <1>5, SameText
<1> QED  BY <1>6 DEF l, first, moved

(* The operations. *)

LEMMA AppendToText ==
    ASSUME MemoryInv, NEW b \in Buffers, NEW size \in Nat, size <= m_size[b],
           NEW s \in Seq(Bytes), AppendTo(b, size, s)
    PROVE  Text!Extend(b, size, s)
<1>1. /\ Len(s) \in Nat /\ s \in Seq(Cells)
      /\ m_size[b] \in Nat /\ Sound(m_data[b], m_block[b], m_size[b])
  BY DEF MemoryInv, Cells
<1>2. Text!Start(b, size) = SubSeq(m_data[b], 1, size)
  <2>1. size \in 0..m_size[b]
    BY <1>1
  <2> QED  BY <2>1, TextOf
<1>3. CASE Increases(b, size, Len(s), Moved(Memory(b, size, Len(s)), size, s),
                     size + Len(s))
  <2> DEFINE cells == Memory(b, size, Len(s))
             blocks == Blocks(b, size, Len(s))
             moved == Moved(cells, size, s)
  <2>1. /\ Sound(cells, blocks, size) /\ size + Len(s) <= Len(cells)
        /\ \A i \in 1..size : cells[i] = m_data[b][i]
    BY <1>1, <1>3, MemoryProvided DEF Increases
  <2>2. Holds(b, moved, blocks, size + Len(s)) /\ answer' = "yes"
    BY <1>3 DEF Increases
  <2> HIDE DEF cells, blocks
  <2>3. Sound(moved, blocks, size + Len(s))
    BY <2>1, WrittenBehind
  <2>4. cells \in Seq(Cells) /\ size <= Len(cells)
    BY <2>1 DEF Sound
  <2>5. SubSeq(moved, 1, size + Len(s)) = SubSeq(cells, 1, size) \o s
    BY <1>1, <2>1, <2>4, MovedBehind
  <2>6. SubSeq(cells, 1, size) = SubSeq(m_data[b], 1, size)
    <3>1. m_data[b] \in Seq(Cells) /\ size <= Len(m_data[b])
      BY <1>1 DEF Sound
    <3> QED  BY <2>1, <2>4, <3>1, Front, SameText
  <2> HIDE DEF moved
  <2>7. TextBecomes(b, SubSeq(moved, 1, size + Len(s)))
    BY <2>2, <2>3, HoldsText
  <2> QED  BY <1>2, <2>2, <2>5, <2>6, <2>7 DEF Text!Extend, Text!Becomes,
                TextBecomes, texts
<1>4. CASE IncreaseFails(b, size, Len(s))
  <2>1. Sound(m_data[b], m_block[b], size)
    BY <1>1 DEF Sound
  <2>2. TextBecomes(b, SubSeq(m_data[b], 1, size))
    BY <1>4, <2>1, HoldsText DEF IncreaseFails
  <2>3. CASE newblock(b, size, Len(s)) > m_maxblocks[b]
    <3>1. size + Len(s) > m_maxblocks[b] * BlockSize
      BY <1>1, <1>4, <2>3, FullIsFull DEF IncreaseFails
    <3>2. answer' = "full"
      BY <1>4, <2>3 DEF IncreaseFails
    <3> QED  BY <1>2, <2>2, <3>1, <3>2 DEF Text!Extend, Text!Becomes,
                TextBecomes, texts
  <2>4. CASE ~ (newblock(b, size, Len(s)) > m_maxblocks[b])
    <3>1. answer' = "nomem"
      BY <1>4, <2>4 DEF IncreaseFails
    <3> QED  BY <1>2, <2>2, <3>1 DEF Text!Extend, Text!Becomes,
                TextBecomes, texts
  <2> QED  BY <2>3, <2>4
<1> QED  BY <1>3, <1>4 DEF AppendTo

LEMMA AppendText ==
    ASSUME MemoryInv, NEW b \in Buffers, NEW s \in Strings, append(b, s)
    PROVE  Text!Add(b, s)
<1>1. /\ m_size[b] \in Nat /\ m_size[b] <= m_size[b] /\ s \in Seq(Bytes)
  BY DEF MemoryInv
<1>2. Text!Extend(b, m_size[b], s)
  BY <1>1, AppendToText DEF append
<1> QED  BY <1>2, TextOf, SameLimit DEF append, Text!Add

(* The bytes of a buffer after a failed or a successful reserve. *)
LEMMA ReserveText ==
    ASSUME MemoryInv, NEW b \in Buffers, NEW n \in Counts, reserve(b, n)
    PROVE  Text!Reserve(b)
<1> DEFINE more == n - capacity(b)
<1>1. /\ n \in Nat /\ UNCHANGED m_maxblocks /\ m_size[b] \in Nat /\ m_size[b] <= m_size[b]
      /\ Sound(m_data[b], m_block[b], m_size[b])
      /\ m_data[b] \in Seq(Cells) /\ m_size[b] <= Len(m_data[b])
  BY DEF MemoryInv, Sound, reserve
<1>2. ASSUME TextBecomes(b, SubSeq(m_data[b], 1, m_size[b])) PROVE UNCHANGED texts
  BY <1>2 DEF TextBecomes, texts
<1>3. CASE UNCHANGED bufferVars /\ answer' = "yes"
  BY <1>1, <1>3, SameLimit DEF bufferVars, Text!Reserve, texts
<1>4. CASE n > capacity(b) /\ Increases(b, m_size[b], more,
                  Memory(b, m_size[b], more), m_size[b])
  <2>1. more \in Nat
    <3>1. m_block[b] \in Nat
      BY <1>1 DEF Sound
    <3>2. capacity(b) \in Nat
      BY <3>1 DEF capacity
    <3> QED  BY <1>1, <1>4, <3>2
  <2> HIDE DEF more
  <2> DEFINE cells == Memory(b, m_size[b], more)
  <2>2. /\ Sound(cells, Blocks(b, m_size[b], more), m_size[b])
        /\ \A i \in 1..m_size[b] : cells[i] = m_data[b][i]
    BY <1>1, <1>4, <2>1, MemoryProvided DEF Increases
  <2>3. Holds(b, cells, Blocks(b, m_size[b], more), m_size[b]) /\ answer' = "yes"
    BY <1>4 DEF Increases
  <2> HIDE DEF cells
  <2>4. TextBecomes(b, SubSeq(cells, 1, m_size[b]))
    BY <2>2, <2>3, HoldsText
  <2>5. SubSeq(cells, 1, m_size[b]) = SubSeq(m_data[b], 1, m_size[b])
    <3>1. cells \in Seq(Cells) /\ m_size[b] <= Len(cells)
      BY <2>2 DEF Sound
    <3> QED  BY <1>1, <2>2, <3>1, Front, SameText
  <2>6. UNCHANGED texts
    BY <1>2, <2>4, <2>5
  <2> QED  BY <1>1, <2>3, <2>6, SameLimit DEF Text!Reserve, texts
<1>5. CASE IncreaseFails(b, m_size[b], more)
  <2> HIDE DEF more
  <2>1. /\ Holds(b, m_data[b], m_block[b], m_size[b]) /\ answer' \in {"full", "nomem"}
    BY <1>5 DEF IncreaseFails
  <2>2. TextBecomes(b, SubSeq(m_data[b], 1, m_size[b]))
    BY <1>1, <2>1, HoldsText
  <2> QED  BY <1>1, <1>2, <2>1, <2>2, SameLimit DEF Text!Reserve, texts
<1> QED  BY <1>3, <1>4, <1>5 DEF reserve

LEMMA ResizeText ==
    ASSUME MemoryInv, NEW b \in Buffers, NEW n \in Counts, resize(b, n)
    PROVE  Text!Resize(b, n)
<1>1. /\ n \in Nat /\ m_size[b] \in Nat /\ m_size[b] <= m_size[b]
      /\ Sound(m_data[b], m_block[b], m_size[b])
  BY DEF MemoryInv
<1>2. CASE n > m_size[b]
  <2>1. [i \in 1..(n - m_size[b]) |-> Zero] \in Seq(Bytes)
    BY <1>1, <1>2
  <2>2. AppendTo(b, m_size[b], [i \in 1..(n - m_size[b]) |-> Zero])
    BY <1>1, <1>2 DEF resize
  <2>3. Text!Extend(b, m_size[b], [i \in 1..(n - m_size[b]) |-> Zero])
    BY <1>1, <2>1, <2>2, AppendToText
  <2>4. texts[b] = SubSeq(m_data[b], 1, m_size[b]) /\ Len(texts[b]) = m_size[b]
    BY TextOf DEF texts
  <2>5. UNCHANGED m_maxblocks
    BY DEF resize
  <2>6. /\ n > Len(texts[b])
        /\ Text!Extend(b, Len(texts[b]), [i \in 1..(n - Len(texts[b])) |-> Zero])
    BY <1>2, <2>3, <2>4
  <2> QED  BY <2>5, <2>6, SameLimit DEF Text!Resize, texts
<1>3. CASE n <= m_size[b]
  <2>1. Holds(b, m_data[b], m_block[b], n) /\ answer' = "yes"
    BY <1>1, <1>3 DEF resize
  <2>2. Sound(m_data[b], m_block[b], n)
    BY <1>1, <1>3 DEF Sound
  <2>3. TextBecomes(b, SubSeq(m_data[b], 1, n))
    BY <2>1, <2>2, HoldsText
  <2>4. Text!Start(b, n) = SubSeq(m_data[b], 1, n)
    <3>1. n \in 0..m_size[b]
      BY <1>1, <1>3
    <3> QED  BY <3>1, TextOf
  <2> QED  BY <1>3, <2>1, <2>3, <2>4, TextOf, SameLimit DEF resize, Text!Resize, Text!Becomes,
                TextBecomes, texts
<1> QED  BY <1>1, <1>2, <1>3

LEMMA ReplaceText ==
    ASSUME MemoryInv, NEW b \in Buffers, NEW pos \in Counts, NEW s \in Strings,
           replace(b, pos, s)
    PROVE  Text!Replace(b, pos, s)
<1>1. /\ UNCHANGED m_maxblocks
      /\ pos \in Nat /\ s \in Seq(Bytes) /\ s \in Seq(Cells) /\ Len(s) \in Nat
      /\ Sound(m_data[b], m_block[b], m_size[b])
      /\ m_size[b] \in Nat /\ m_size[b] <= m_size[b]
      /\ m_data[b] \in Seq(Cells) /\ m_size[b] <= Len(m_data[b])
  BY DEF MemoryInv, replace, Sound, Cells
<1>2. texts[b] = SubSeq(m_data[b], 1, m_size[b]) /\ Len(texts[b]) = m_size[b]
  BY TextOf DEF texts
<1>3. CASE pos >= m_size[b]
  <2>1. Text!Extend(b, Len(texts[b]), s)
    BY <1>1, <1>2, <1>3, AppendToText DEF replace
  <2> QED  BY <1>1, <1>2, <1>3, <2>1, SameLimit DEF Text!Replace, texts
<1>4. CASE pos < m_size[b] /\ pos + Len(s) >= m_size[b]
  <2>1. Text!Extend(b, pos, s)
    BY <1>1, <1>4, AppendToText DEF replace
  <2> QED  BY <1>1, <1>2, <1>4, <2>1, SameLimit DEF Text!Replace, texts
<1>5. CASE pos < m_size[b] /\ pos + Len(s) < m_size[b]
  <2> DEFINE moved == Moved(m_data[b], pos, s)
             n == pos + Len(s)
             rest == SubSeq(m_data[b], n + 1, m_size[b])
  <2>1. /\ Holds(b, moved, m_block[b], m_size[b]) /\ answer' = "yes"
    BY <1>1, <1>5 DEF replace
  <2>2. Sound(moved, m_block[b], m_size[b])
    BY <1>1, <1>5, OverwrittenSound
  <2>3. TextBecomes(b, SubSeq(moved, 1, m_size[b]))
    <3> HIDE DEF moved
    <3> QED  BY <2>1, <2>2, HoldsText
  <2>4. /\ moved \in Seq(Cells) /\ Len(moved) = Len(m_data[b])
        /\ \A i \in 1..Len(m_data[b]) :
              moved[i] = IF i - pos \in 1..Len(s) THEN s[i - pos] ELSE m_data[b][i]
    BY <1>1, MovedType
  <2>5. SubSeq(moved, 1, m_size[b]) = SubSeq(moved, 1, n) \o SubSeq(moved, n + 1, m_size[b])
    <3>1. n \in Nat /\ n <= m_size[b] /\ m_size[b] <= Len(moved)
      BY <1>1, <1>5, <2>4
    <3> HIDE DEF moved, n
    <3> QED  BY <1>1, <2>4, <3>1, Halves, ZenonT(60)
  <2>6. SubSeq(moved, 1, n) = SubSeq(m_data[b], 1, pos) \o s
    <3>1. pos + Len(s) <= Len(m_data[b])
      BY <1>1, <1>5
    <3> QED  BY <1>1, <3>1, MovedBehind
  <2>7. SubSeq(moved, n + 1, m_size[b]) = rest
    <3> DEFINE r == SubSeq(moved, n + 1, m_size[b])
    <3>1. n \in Nat /\ m_size[b] <= Len(moved)
      BY <1>1, <2>4
    <3> HIDE DEF moved, n
    <3>2. /\ r \in Seq(Cells) /\ Len(r) = IF n < m_size[b] THEN m_size[b] - n ELSE 0
          /\ \A i \in 1..Len(r) : r[i] = moved[n + i]
      BY <1>1, <2>4, <3>1, Behind
    <3>3. /\ rest \in Seq(Cells)
          /\ Len(rest) = IF n < m_size[b] THEN m_size[b] - n ELSE 0
          /\ \A i \in 1..Len(rest) : rest[i] = m_data[b][n + i]
      BY <1>1, <3>1, Behind, SMTT(40)
    <3> HIDE DEF r, rest
    <3>4. ASSUME NEW i \in 1..Len(r) PROVE moved[n + i] = m_data[b][n + i]
      <4>1. i \in Nat /\ i >= 1 /\ i <= m_size[b] - n
        BY <1>1, <3>1, <3>2
      <4>2. n + i \in 1..Len(m_data[b])
        BY <1>1, <3>1, <4>1
      <4>3. (n + i) - pos \notin 1..Len(s)
        BY <1>1, <4>1 DEF n
      <4> QED  BY <2>4, <4>2, <4>3
    <3> QED  BY <3>2, <3>3, <3>4, SameText DEF r
  <2>8. /\ Text!Start(b, pos) = SubSeq(m_data[b], 1, pos)
        /\ Text!Rest(b, pos + Len(s)) = rest
    <3>1. pos \in 0..m_size[b] /\ pos + Len(s) \in Nat
      BY <1>1, <1>5
    <3> QED  BY <3>1, TextOf
  <2> HIDE DEF moved, rest
  <2>9. TextBecomes(b, Text!Start(b, pos) \o s \o Text!Rest(b, pos + Len(s)))
    BY <2>3, <2>5, <2>6, <2>7, <2>8
  <2> QED  BY <1>1, <1>2, <1>5, <2>1, <2>9, SameLimit
           DEF Text!Replace, Text!Becomes, TextBecomes, texts
<1> QED  BY <1>1, <1>3, <1>4, <1>5

LEMMA EraseText ==
    ASSUME MemoryInv, NEW b \in Buffers, NEW pos \in Counts, NEW n \in Counts,
           NEW hold \in BOOLEAN, erase(b, pos, n, hold)
    PROVE  Text!Erase(b, pos, n)
<1> DEFINE left == IF n >= m_size[b] - pos THEN pos ELSE m_size[b] - n
           rest == SubSeq(m_data[b], pos + n + 1, m_size[b])
           text == SubSeq(m_data[b], 1, pos) \o rest
<1>1. /\ UNCHANGED m_maxblocks /\ answer' = "yes"
      /\ pos \in Nat /\ n \in Nat /\ pos <= m_size[b]
      /\ m_size[b] \in Nat
      /\ m_data[b] \in Seq(Cells) /\ m_size[b] <= Len(m_data[b])
  BY DEF MemoryInv, erase, Sound
<1>2. texts[b] = SubSeq(m_data[b], 1, m_size[b]) /\ Len(texts[b]) = m_size[b]
  BY TextOf DEF texts
<1>3. Sound(Closed(b, pos, n), m_block[b], left)
  BY <1>1, ClosedSound
<1>4. SubSeq(Closed(b, pos, n), 1, left) = text
  <2>1. /\ rest \in Seq(Cells)
        /\ Len(rest) = IF pos + n < m_size[b] THEN m_size[b] - (pos + n) ELSE 0
    BY <1>1, ClosedType
  <2>2. Closed(b, pos, n) = Moved(m_data[b], pos, rest)
    BY DEF Closed
  <2> HIDE DEF rest
  <2>3. left = pos + Len(rest) /\ pos + Len(rest) <= Len(m_data[b])
    BY <1>1, <2>1, SMTT(40)
  <2>4. SubSeq(Moved(m_data[b], pos, rest), 1, pos + Len(rest)) = text
    BY <1>1, <2>1, <2>3, MovedBehind
  <2> HIDE DEF left, text
  <2> QED  BY <2>2, <2>3, <2>4
<1>5. TextBecomes(b, text)
  <2>1. CASE Holds(b, Closed(b, pos, n), m_block[b], left)
    <3>1. TextBecomes(b, SubSeq(Closed(b, pos, n), 1, left))
      <4> HIDE DEF left
      <4> QED  BY <1>3, <2>1, HoldsText
    <3> HIDE DEF text, left
    <3> QED  BY <1>4, <3>1
  <2>2. CASE left = 0 /\ free(b)
    <3>1. Sound(<<>>, 0, 0) /\ Holds(b, <<>>, 0, 0)
      BY <2>2 DEF Sound, free
    <3>2. TextBecomes(b, SubSeq(<<>>, 1, 0))
      BY <3>1, HoldsText
    <3>3. SubSeq(Closed(b, pos, n), 1, 0) = <<>> /\ SubSeq(<<>>, 1, 0) = <<>>
      <4>1. Closed(b, pos, n) \in Seq(Cells)
        BY <1>3 DEF Sound
      <4> QED  BY <4>1
    <3>4. text = <<>>
      <4> HIDE DEF text, left
      <4> QED  BY <1>4, <2>2, <3>3
    <3> HIDE DEF text
    <3> QED  BY <3>2, <3>3, <3>4
  <2> QED  BY <2>1, <2>2 DEF erase
<1>6. text = Text!Start(b, pos) \o Text!Rest(b, pos + n)
  <2>1. pos \in 0..m_size[b] /\ pos + n \in Nat
    BY <1>1
  <2>2. Text!Start(b, pos) = SubSeq(m_data[b], 1, pos) /\ Text!Rest(b, pos + n) = rest
    BY <2>1, TextOf
  <2> QED  BY <2>2
<1> HIDE DEF text
<1>7. TextBecomes(b, Text!Start(b, pos) \o Text!Rest(b, pos + n))
  BY <1>5, <1>6
<1> QED  BY <1>1, <1>2, <1>7, SameLimit
         DEF Text!Erase, Text!Becomes, TextBecomes, texts

LEMMA MaxBlocksText ==
    ASSUME MemoryInv, NEW b \in Buffers, NEW n \in Counts, set_max_blocks(b, n)
    PROVE  Text!SetLimit(b)
<1> DEFINE k == IF n > max_blocks THEN max_blocks ELSE n
<1>1. k \in 0..max_blocks /\ m_maxblocks \in [Buffers -> 0..max_blocks]
  BY DEF MemoryInv
<1>2. m_maxblocks' = [m_maxblocks EXCEPT ![b] = k]
      /\ UNCHANGED <<m_data, m_size, answer>>
  BY DEF set_max_blocks, bufferVars
<1> HIDE DEF k
<1>3. [c \in Buffers |-> m_maxblocks[c] * BlockSize]'
         = [[c \in Buffers |-> m_maxblocks[c] * BlockSize] EXCEPT ![b] = k * BlockSize]
  BY <1>1, <1>2
<1> QED  BY <1>1, <1>2, <1>3 DEF Text!SetLimit

LEMMA RenewText ==
    ASSUME MemoryInv, NEW b \in Buffers, Renew(b)
    PROVE  Text!Renew(b)
<1>1. Sound(<<>>, 0, 0) /\ Holds(b, <<>>, 0, 0)
  BY DEF Sound, free, Renew
<1>2. TextBecomes(b, SubSeq(<<>>, 1, 0)) /\ SubSeq(<<>>, 1, 0) = <<>>
  BY <1>1, HoldsText
<1>3. TextBecomes(b, <<>>)
  BY <1>2
<1>4. /\ m_maxblocks \in [Buffers -> 0..max_blocks]
      /\ m_maxblocks' = [m_maxblocks EXCEPT ![b] = max_blocks]
      /\ answer' = "yes" /\ max_blocks \in 0..max_blocks
  BY DEF MemoryInv, Renew
<1>5. [c \in Buffers |-> m_maxblocks[c] * BlockSize]'
         = [[c \in Buffers |-> m_maxblocks[c] * BlockSize]
               EXCEPT ![b] = max_blocks * BlockSize]
  BY <1>4
<1> QED  BY <1>3, <1>4, <1>5 DEF Text!Renew, Text!Becomes, TextBecomes, texts

LEMMA InitText == Init => Text!Init
<1> SUFFICES ASSUME Init PROVE Text!Init
  OBVIOUS
<1>1. texts = [b \in Buffers |-> <<>>]
  BY DEF Init, texts
<1>2. [b \in Buffers |-> m_maxblocks[b] * BlockSize]
         \in [Buffers -> {k * BlockSize : k \in 0..max_blocks}]
  BY DEF Init
<1> QED  BY <1>1, <1>2 DEF Init, Text!Init, texts

LEMMA NextText ==
    MemoryInv /\ [Next]_vars
      => [Text!Next]_<<[b \in Buffers |-> SubSeq(m_data[b], 1, m_size[b])],
                       [b \in Buffers |-> m_maxblocks[b] * BlockSize], answer>>
<1>1. CASE UNCHANGED vars
  BY <1>1 DEF vars, bufferVars
<1>2. ASSUME MemoryInv, Next PROVE Text!Next
  BY <1>2, AppendText, ReserveText, ResizeText, ReplaceText, EraseText,
     MaxBlocksText, RenewText DEF Next, Text!Next
<1> QED  BY <1>1, <1>2

(* The blocks, the moves of bytes and the failures of a buffer amount to    *)
(* operations on a text: what fails leaves what was kept, and "full" is     *)
(* answered only to what would be longer than the limit.                    *)
THEOREM BufferIsText == Spec => ImplementsText
<1>1. Init => Text!Init
  BY InitText
<1>2. MemoryInv /\ [Next]_vars
        => [Text!Next]_<<[b \in Buffers |-> SubSeq(m_data[b], 1, m_size[b])],
                         [b \in Buffers |-> m_maxblocks[b] * BlockSize], answer>>
  BY NextText
<1> QED  BY <1>1, <1>2, InitMemory, NextMemory, PTL
         DEF Spec, ImplementsText, Text!Spec
=============================================================================
