----------------------------- MODULE BlockBuffer -----------------------------
(***************************************************************************)
(* BlockBuffer (net/blockbuffer.h): byte buffers in memory that grows by   *)
(* whole blocks, as m_input and m_output of the sockets are.  Buffers of   *)
(* one instantiation of the template share two static counters.            *)
(*                                                                         *)
(* m_data is the memory itself, one cell per byte of capacity, so that the *)
(* offsets and lengths of every memcpy and memmove are those of the code.  *)
(* Cells beyond m_size are never read before they are written: what they   *)
(* hold is not represented, they are Junk.                                 *)
(***************************************************************************)
EXTENDS Integers, FiniteSets, FiniteSetsExt, Sequences

CONSTANTS
    Buffers,       \* the objects of one instantiation
    Bytes,
    Zero,          \* what resize fills with by default
    Junk,          \* the content of a cell that was not written
    BlockSize,     \* requested_size of the allocator
    max_blocks,    \* the template's MaxBlocks
    Strings,       \* the strings callers append and replace with
    Counts         \* the positions and lengths callers pass

ASSUME BufferAssumption ==
    /\ IsFiniteSet(Buffers)
    /\ BlockSize \in Nat \ {0}
    /\ max_blocks \in Nat \ {0}
    /\ Zero \in Bytes /\ Junk \notin Bytes
    /\ Strings \subseteq Seq(Bytes)
    /\ Counts \subseteq Nat

VARIABLES
    m_data, m_size, m_block, m_maxblocks,
    s_current_total_blocks, s_peak_total_blocks,
    answer    \* of the last call: yes; full or nomem, why it was false

bufferVars == <<m_data, m_size, m_block>>
totals == <<s_current_total_blocks, s_peak_total_blocks>>
vars == <<bufferVars, m_maxblocks, totals, answer>>

capacity(b) == m_block[b] * BlockSize

Unwritten(n) == [i \in 1..n |-> Junk]

(* memmove(cells + at, bytes, Len(bytes)) *)
Moved(cells, at, bytes) ==
    [i \in DOMAIN cells |->
        IF i - at \in DOMAIN bytes THEN bytes[i - at] ELSE cells[i]]

Init ==
    /\ m_data = [b \in Buffers |-> <<>>]
    /\ m_size = [b \in Buffers |-> 0]
    /\ m_block = [b \in Buffers |-> 0]
    /\ m_maxblocks = [b \in Buffers |-> max_blocks]
    /\ s_current_total_blocks = 0
    /\ s_peak_total_blocks = 0
    /\ answer = "yes"

(* The object's three fields after a call that leaves size bytes in cells. *)
Holds(b, cells, blocks, size) ==
    /\ m_data' = [m_data EXCEPT ![b] =
                     [i \in DOMAIN cells |-> IF i <= size THEN cells[i] ELSE Junk]]
    /\ m_block' = [m_block EXCEPT ![b] = blocks]
    /\ m_size' = [m_size EXCEPT ![b] = size]

(***************************************************************************)
(* increase_capacity(n) of a buffer that holds size bytes: how many blocks *)
(* it has afterwards, what the memory then is, and the counters.           *)
(***************************************************************************)
HasRoom(b, size, n) == capacity(b) - size >= n

(* Wrong: a whole number of blocks gets one more. *)
newblock_RoundsUp(b, size, n) ==
    LET more == n - (capacity(b) - size)
    IN  m_block[b] + more \div BlockSize + 1

(* Wrong: the last, partial block is forgotten. *)
newblock_RoundsDown(b, size, n) ==
    LET more == n - (capacity(b) - size)
    IN  m_block[b] + more \div BlockSize

newblock(b, size, n) ==
    LET more == n - (capacity(b) - size)
    IN  m_block[b] + more \div BlockSize
           + (IF more % BlockSize > 0 THEN 1 ELSE 0)

Blocks(b, size, n) ==
    IF HasRoom(b, size, n) THEN m_block[b] ELSE newblock(b, size, n)

Memory(b, size, n) ==
    IF HasRoom(b, size, n) THEN m_data[b]
    ELSE Moved(Unwritten(newblock(b, size, n) * BlockSize), 0,
               SubSeq(m_data[b], 1, size))

Larger(x, y) == IF x > y THEN x ELSE y

(* Wrong: counts the old blocks of the buffer again. *)
Counted_Twice(b, blocks) ==
    /\ s_current_total_blocks' = s_current_total_blocks + blocks
    /\ s_peak_total_blocks' = Larger(s_peak_total_blocks, s_current_total_blocks')

(* Wrong: counts the first memory of a buffer, and not its growth. *)
Counted_FirstOnly(b, blocks) ==
    /\ s_current_total_blocks' = s_current_total_blocks
                                     + (IF m_block[b] = 0 THEN blocks ELSE 0)
    /\ s_peak_total_blocks' = Larger(s_peak_total_blocks, s_current_total_blocks')

Counted(b, blocks) ==
    /\ s_current_total_blocks' = s_current_total_blocks + (blocks - m_block[b])
    /\ s_peak_total_blocks' = Larger(s_peak_total_blocks, s_current_total_blocks')

(* It succeeds, and the caller leaves left bytes in the memory it then has. *)
Increases(b, size, n, cells, left) ==
    /\ HasRoom(b, size, n) \/ newblock(b, size, n) <= m_maxblocks[b]
    /\ Holds(b, cells, Blocks(b, size, n), left)
    /\ IF HasRoom(b, size, n) THEN UNCHANGED totals
       ELSE Counted(b, newblock(b, size, n))
    /\ answer' = "yes"

(* It fails: too many blocks, or ordered_malloc returned 0. *)
IncreaseFails(b, size, n) ==
    /\ ~ HasRoom(b, size, n)
    /\ Holds(b, m_data[b], m_block[b], size)
    /\ answer' = IF newblock(b, size, n) > m_maxblocks[b] THEN "full" ELSE "nomem"
    /\ UNCHANGED totals

-----------------------------------------------------------------------------
(* The operations. *)

AppendTo(b, size, s) ==
    \/ Increases(b, size, Len(s), Moved(Memory(b, size, Len(s)), size, s),
                 size + Len(s))
    \/ IncreaseFails(b, size, Len(s))

append(b, s) == AppendTo(b, m_size[b], s) /\ UNCHANGED m_maxblocks

reserve(b, n) ==
    /\ LET more == n - capacity(b) IN
       \/ /\ n <= capacity(b)
          /\ answer' = "yes"
          /\ UNCHANGED <<bufferVars, totals>>
       \/ /\ n > capacity(b)
          /\ \/ Increases(b, m_size[b], more, Memory(b, m_size[b], more),
                          m_size[b])
             \/ IncreaseFails(b, m_size[b], more)
    /\ UNCHANGED m_maxblocks

resize(b, n) ==
    /\ \/ /\ n > m_size[b]
          /\ AppendTo(b, m_size[b], [i \in 1..(n - m_size[b]) |-> Zero])
       \/ /\ n <= m_size[b]
          /\ Holds(b, m_data[b], m_block[b], n)
          /\ answer' = "yes"
          /\ UNCHANGED totals
    /\ UNCHANGED m_maxblocks

(* Up to the end of the data the text is cut first and appended to then, so *)
(* that a failure loses what was cut.                                       *)
replace(b, pos, s) ==
    /\ \/ pos >= m_size[b] /\ AppendTo(b, m_size[b], s)
       \/ /\ pos < m_size[b] /\ pos + Len(s) >= m_size[b]
          /\ AppendTo(b, pos, s)
       \/ /\ pos < m_size[b] /\ pos + Len(s) < m_size[b]
          /\ Holds(b, Moved(m_data[b], pos, s), m_block[b], m_size[b])
          /\ answer' = "yes"
          /\ UNCHANGED totals
    /\ UNCHANGED m_maxblocks

(* free(), on a buffer without data, or from the destructor. *)
free(b) ==
    /\ Holds(b, <<>>, 0, 0)
    /\ s_current_total_blocks' = s_current_total_blocks - m_block[b]
    /\ UNCHANGED s_peak_total_blocks

(* The memory after the bytes from pos + n on were moved to pos. *)
Closed(b, pos, n) ==
    Moved(m_data[b], pos, SubSeq(m_data[b], pos + n + 1, m_size[b]))

erase(b, pos, n, hold) ==
    /\ pos <= m_size[b]
    /\ LET left == IF n >= m_size[b] - pos THEN pos ELSE m_size[b] - n IN
       IF left = 0 /\ ~ hold THEN free(b)
       ELSE /\ Holds(b, Closed(b, pos, n), m_block[b], left)
            /\ UNCHANGED totals
    /\ answer' = "yes"
    /\ UNCHANGED m_maxblocks

(* It may leave the buffer with more blocks than it may have from now on. *)
set_max_blocks(b, n) ==
    /\ m_maxblocks' = [m_maxblocks EXCEPT ![b] = IF n > max_blocks
                                                 THEN max_blocks ELSE n]
    /\ UNCHANGED <<bufferVars, totals, answer>>

(* The buffer is destroyed, and a new one constructed. *)
Renew(b) ==
    /\ free(b)
    /\ m_maxblocks' = [m_maxblocks EXCEPT ![b] = max_blocks]
    /\ answer' = "yes"

Next ==
    \E b \in Buffers :
       \/ \E s \in Strings : append(b, s)
       \/ \E s \in Strings, pos \in Counts : replace(b, pos, s)
       \/ \E n \in Counts : reserve(b, n) \/ resize(b, n) \/ set_max_blocks(b, n)
       \/ \E pos, n \in Counts, hold \in BOOLEAN : erase(b, pos, n, hold)
       \/ Renew(b)

Spec == Init /\ [][Next]_vars

-----------------------------------------------------------------------------
TypeOK ==
    /\ \A b \in Buffers : m_data[b] \in Seq(Bytes \cup {Junk})
    /\ m_size \in [Buffers -> Nat]
    /\ m_block \in [Buffers -> Nat]
    /\ m_maxblocks \in [Buffers -> 0..max_blocks]
    /\ s_current_total_blocks \in Nat
    /\ s_peak_total_blocks \in Nat
    /\ answer \in {"yes", "full", "nomem"}

(* blockbuffer.h:94: the data fits the memory, for every sequence of calls  *)
(* and whichever of them fail; the memory never exceeds the template's      *)
(* maximum, and every byte of the data was written.                         *)
WithinCapacity ==
    \A b \in Buffers :
       /\ m_size[b] <= capacity(b)
       /\ m_block[b] <= max_blocks
       /\ Len(m_data[b]) = capacity(b)
       /\ \A i \in 1..m_size[b] : m_data[b][i] # Junk

(* The shared counter is what the buffers hold together, through growth,    *)
(* failure, erasure and destruction of any of them; the peak is a peak.     *)
TotalsMatch ==
    /\ s_current_total_blocks = MapThenSumSet(LAMBDA b : m_block[b], Buffers)
    /\ s_peak_total_blocks >= s_current_total_blocks

(* The arithmetic in blocks and the moves of bytes amount to operations on  *)
(* a text.  blockbuffer.h:200-203 promises that a failing increase_capacity *)
(* leaves the data alone; that it does not fail when a smaller number of    *)
(* blocks would do follows from the guard of "full".                        *)
Text == INSTANCE TextBuffer
            WITH text <- [b \in Buffers |-> SubSeq(m_data[b], 1, m_size[b])],
                 limit <- [b \in Buffers |-> m_maxblocks[b] * BlockSize],
                 Limits <- {k * BlockSize : k \in 0..max_blocks}

ImplementsText == Text!Spec
=============================================================================
