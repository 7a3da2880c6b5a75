------------------------------- MODULE YQueue -------------------------------
(***************************************************************************)
(* yqueue_t (yqueue.hpp): a queue in chunks of N slots.  The writer owns   *)
(* the back and the end, the reader owns the front; the only places both   *)
(* touch are spare_chunk, the next pointers and the heap.  A chunk that    *)
(* the reader has emptied is kept as the spare and used again by the       *)
(* writer, so one address is many places of the stream in turn.            *)
(*                                                                         *)
(* unpush has no caller in the servers, and prev is read by unpush only.   *)
(***************************************************************************)
EXTENDS Sequences, FiniteSets, Integers

CONSTANTS
  N,        \* slots of a chunk (10000 in the servers)
  Chunks,   \* the addresses malloc may return
  Null      \* the null pointer

ASSUME NAssumption      == N \in Nat /\ N > 1
\* The null pointer is the address of no chunk and of no slot.
ASSUME ChunksAssumption == Null \notin Chunks \cup (Chunks \X (0 .. N - 1))

VARIABLES
  heap,     \* the chunks that are allocated
  values,   \* contents of the slots of every chunk
  next,     \* chunk_t::next
  begin,    \* begin_chunk and begin_pos: the front, reader's
  back,     \* back_chunk and back_pos: the terminator, writer's
  end,      \* end_chunk and end_pos: the slot of the next push, writer's
  spare,    \* spare_chunk
  fresh,    \* sc: the chunk the writer took for its next chunk
  emptied,  \* o: the chunk the reader has just left
  old       \* cs: the spare that o replaced

writerEnd == <<back, end, fresh>>
readerEnd == <<begin, emptied, old>>
queueVars == <<heap, values, next, spare, writerEnd, readerEnd>>

Slots     == 0 .. N - 1
Addresses == Chunks \X Slots
Chunk(a)  == a[1]
Slot(a)   == a[2]

\* What a slot holds before anything is stored in it.
Garbage == 0

\* The constructor, and the push of the first terminator by ypipe_t.
QueueInit ==
  /\ \E first \in Chunks :
       /\ heap  = {first}
       /\ begin = <<first, 0>>
       /\ back  = <<first, 0>>
       /\ end   = <<first, 1>>
  /\ values = [k \in Chunks |-> [i \in Slots |-> Garbage]]
  /\ next   = [k \in Chunks |-> Null]
  /\ spare = Null /\ fresh = Null /\ emptied = Null /\ old = Null

-----------------------------------------------------------------------------
(* The writer: queue.back () = item, then push.                            *)

StoreBack(item) ==
  /\ values' = [values EXCEPT ![Chunk(back)][Slot(back)] = item]
  /\ UNCHANGED <<heap, next, spare, writerEnd, readerEnd>>

\* ++end_pos != N is false: the chunk is full.
ChunkFullLate == Slot(end) = N
ChunkFull     == Slot(end) + 1 = N

\* push up to ++end_pos.
AdvanceBack ==
  /\ back' = end
  /\ end'  = [end EXCEPT ![2] = @ + 1]
  /\ UNCHANGED <<heap, values, next, spare, fresh, readerEnd>>

\* spare_chunk.xchg (NULL), as one step and as a load and a store.
TakeSpareKeep == fresh' = spare /\ UNCHANGED spare
TakeSpare     == fresh' = spare /\ spare' = Null

ExchangeSpare ==
  /\ TakeSpare
  /\ UNCHANGED <<heap, values, next, back, end, readerEnd>>

\* end_chunk->next = k, and the end moves there.
LinkChunk(k) ==
  /\ next' = [next EXCEPT ![Chunk(end)] = k]
  /\ end'  = <<k, 0>>
  /\ fresh' = Null
  /\ UNCHANGED <<values, back, spare, readerEnd>>

LinkSpare == fresh # Null /\ LinkChunk(fresh) /\ UNCHANGED heap

LinkNew ==
  /\ fresh = Null
  /\ \E k \in Chunks \ heap : LinkChunk(k) /\ heap' = heap \cup {k}

-----------------------------------------------------------------------------
(* The reader: front, then pop.                                            *)

Front == values[Chunk(begin)][Slot(begin)]

\* ++begin_pos == N: the chunk is empty.
ChunkEmpty == Slot(begin) + 1 = N

PopSlot ==
  /\ begin' = [begin EXCEPT ![2] = @ + 1]
  /\ UNCHANGED <<heap, values, next, spare, emptied, old, writerEnd>>

\* The front moves to the next chunk.
PopChunk ==
  /\ begin'   = <<next[Chunk(begin)], 0>>
  /\ emptied' = Chunk(begin)
  /\ UNCHANGED <<heap, values, next, spare, old, writerEnd>>

\* spare_chunk.xchg (o)
ReplaceSpare ==
  /\ spare'   = emptied
  /\ old'     = spare
  /\ emptied' = Null
  /\ UNCHANGED <<heap, values, next, begin, writerEnd>>

\* free (cs), which may be free (NULL).
Freed == {old}

FreeOld ==
  /\ heap' = heap \ Freed
  /\ old'  = Null
  /\ UNCHANGED <<values, next, spare, begin, emptied, writerEnd>>

-----------------------------------------------------------------------------
(* The chunks of the queue, from the front to the end.                     *)

Linked ==
  LET step[n \in 0 .. Cardinality(heap)] ==
        IF n = 0 THEN Chunk(begin)
        ELSE IF step[n - 1] \in {Chunk(end), Null} THEN step[n - 1]
        ELSE next[step[n - 1]]
  IN  {step[n] : n \in DOMAIN step}

\* The chunks held outside the queue, by the spare pointer or by a thread.
Held == <<spare, fresh, emptied, old>>

QueueTypeOK ==
  /\ heap \subseteq Chunks
  /\ values \in [Chunks -> [Slots -> Nat]]
  /\ next \in [Chunks -> Chunks \cup {Null}]
  /\ begin \in Addresses /\ back \in Addresses
  /\ end \in Chunks \X (0 .. N)
  /\ {spare, fresh, emptied, old} \subseteq Chunks \cup {Null}
=============================================================================
