----------------------------- MODULE YPipeProofs -----------------------------
(***************************************************************************)
(* Proofs about YPipe, for every size of a chunk, every heap and any       *)
(* number of items.  The chunks of the queue have numbers: the ch[m] of m  *)
(* in lo .. hi are linked one to the next, and slot s of ch[m] is place    *)
(* m * N + s of the stream, counted from 0.  An address stands for one     *)
(* place at a time; the invariant says which.                              *)
(***************************************************************************)
EXTENDS YPipe, FiniteSetTheorems, TLAPS

Base(m) == m * N

\* Address a is place p of the stream.
IsAt(lo, hi, ch, a, p) ==
  \E m \in lo .. hi : a[1] = ch[m] /\ a[2] \in Slots /\ Base(m) + a[2] = p

\* The places of the front and of the terminator.
ReadPlace  == IF rpc = "pop" THEN Len(got) - 1 ELSE Len(got)
WritePlace == IF wpc = "push" THEN written - 1 ELSE written

\* The numbered chunks are linked, from the front to the end.
Chain(lo, hi, ch) ==
  /\ lo \in Nat /\ hi \in Nat /\ lo <= hi
  /\ ch \in [0 .. hi -> Chunks]
  /\ \A i, j \in lo .. hi : ch[i] = ch[j] => i = j
  /\ \A j \in lo .. hi : j < hi => next[ch[j]] = ch[j + 1]
  /\ Chunk(begin) = ch[lo] /\ Base(lo) + Slot(begin) = ReadPlace
  /\ Chunk(end) = ch[hi] /\ Base(hi) + Slot(end) = WritePlace + 1
  /\ IsAt(lo, hi, ch, back, WritePlace)
  /\ wpc \in {"exchange", "link"} <=> Slot(end) = N

\* The pointers of ypipe_t.
Pointers(lo, hi, ch) ==
  /\ IsAt(lo, hi, ch, w, flushed)
  /\ f = IF wpc \in {"flush", "set"} THEN back ELSE w
  /\ r # Null => \E p \in Len(got) .. flushed : IsAt(lo, hi, ch, r, p)

\* Every place from the front to the last item written holds its item.
Stored(lo, hi, ch) ==
  \A m \in lo .. hi : \A s \in Slots :
    Base(m) + s \in ReadPlace .. written - 1 => values[ch[m]][s] = Base(m) + s + 1

\* Chunks outside the queue are held once.
Owned(lo, hi, ch) ==
  /\ heap = {ch[m] : m \in lo .. hi} \cup ({Held[i] : i \in 1 .. 4} \ {Null})
  /\ \A i \in 1 .. 4 : \A m \in lo .. hi : Held[i] # ch[m]
  /\ \A i, j \in 1 .. 4 : Held[i] = Held[j] /\ Held[i] # Null => i = j
  /\ fresh # Null => wpc = "link"
  /\ emptied # Null => rpc = "spare"
  /\ old # Null => rpc = "free"

\* How far writer and reader are, and what that says of c.
Progress ==
  /\ flushed = IF wpc = "idle" THEN written ELSE written - 1
  /\ got = [i \in 1 .. Len(got) |-> i]
  /\ IF rpc = "pop" THEN Len(got) \in 1 .. flushed ELSE Len(got) \in 0 .. flushed
  /\ c \in {w, Null}
  /\ c = Null => rpc = "idle" /\ Len(got) = flushed
  /\ wpc = "set" => c = Null

Shape(lo, hi, ch) ==
  /\ Chain(lo, hi, ch)
  /\ Pointers(lo, hi, ch)
  /\ Stored(lo, hi, ch)
  /\ Owned(lo, hi, ch)

PipeInv ==
  /\ TypeOK
  /\ Progress
  /\ \E lo, hi \in Nat : \E ch \in [0 .. hi -> Chunks] : Shape(lo, hi, ch)
-----------------------------------------------------------------------------
(* Places and addresses.                                                   *)

LEMMA BaseNext ==
  ASSUME NEW m \in Nat
  PROVE  Base(m) \in Nat /\ Base(m + 1) = Base(m) + N
  BY NAssumption DEF Base

\* Chunks do not overlap.
LEMMA BaseLess ==
  ASSUME NEW m \in Nat, NEW n \in Nat, m < n
  PROVE  Base(m) + N <= Base(n)
<1>1. PICK d \in Nat : n = m + 1 + d
  <2>1. n - m - 1 \in Nat /\ n = m + 1 + (n - m - 1)
    OBVIOUS
  <2> QED BY <2>1
<1>2. d * N \in Nat /\ m * N \in Nat
  BY <1>1, NAssumption
<1>3. (m + 1 + d) * N = m * N + N + d * N
  BY <1>1, NAssumption
<1> QED BY <1>1, <1>2, <1>3, NAssumption DEF Base

\* An address is at one place, and a place has one address.
LEMMA OnePlace ==
  ASSUME NEW lo \in Nat, NEW hi \in Nat, NEW ch, \A i, j \in lo .. hi : ch[i] = ch[j] => i = j,
         NEW a, NEW p, NEW q, IsAt(lo, hi, ch, a, p), IsAt(lo, hi, ch, a, q)
  PROVE  p = q
  BY DEF IsAt

LEMMA OneAddress ==
  ASSUME NEW lo \in Nat, NEW hi \in Nat, NEW ch,
         NEW a \in Addresses, NEW b \in Addresses, NEW p,
         IsAt(lo, hi, ch, a, p), IsAt(lo, hi, ch, b, p)
  PROVE  a = b
<1>1. PICK m \in lo .. hi : a[1] = ch[m] /\ a[2] \in Slots /\ Base(m) + a[2] = p
  BY DEF IsAt
<1>2. PICK n \in lo .. hi : b[1] = ch[n] /\ b[2] \in Slots /\ Base(n) + b[2] = p
  BY DEF IsAt
<1>3. m \in Nat /\ n \in Nat
  OBVIOUS
<1>4. Base(m) \in Nat /\ Base(n) \in Nat /\ N \in Nat
  BY <1>3, BaseNext, NAssumption
<1>5. a[2] \in 0 .. N - 1 /\ b[2] \in 0 .. N - 1
  BY <1>1, <1>2 DEF Slots
<1>6. ~(m < n)
  BY <1>1, <1>2, <1>3, <1>4, <1>5, BaseLess
<1>7. ~(n < m)
  BY <1>1, <1>2, <1>3, <1>4, <1>5, BaseLess
<1>8. m = n
  BY <1>3, <1>6, <1>7
<1>9. a[2] = b[2]
  <2>1. Base(m) = Base(n)
    BY <1>8
  <2>2. PICK k : k = Base(m)
    OBVIOUS
  <2>3. PICK i : i = a[2]
    OBVIOUS
  <2>4. PICK j : j = b[2]
    OBVIOUS
  <2>5. k \in Nat /\ i \in Int /\ j \in Int /\ k + i = k + j
    BY <1>1, <1>2, <1>4, <1>5, <2>1, <2>2, <2>3, <2>4
  <2> QED BY ONLY <2>3, <2>4, <2>5
<1> QED BY <1>1, <1>2, <1>8, <1>9 DEF Addresses

\* What is behind the first chunk is still there when that chunk is left.
LEMMA BehindFirst ==
  ASSUME NEW lo \in Nat, NEW hi \in Nat, NEW ch, NEW a, NEW p \in Nat,
         IsAt(lo, hi, ch, a, p), Base(lo + 1) <= p
  PROVE  IsAt(lo + 1, hi, ch, a, p)
<1>1. PICK m \in lo .. hi : a[1] = ch[m] /\ a[2] \in Slots /\ Base(m) + a[2] = p
  BY DEF IsAt
<1>2. m # lo
  BY <1>1, BaseNext, NAssumption DEF Slots
<1> QED BY <1>1, <1>2 DEF IsAt

\* A chunk behind the last one changes no address.
LEMMA LongerChain ==
  ASSUME NEW lo \in Nat, NEW hi \in Nat, NEW ch, NEW ch2, \A m \in lo .. hi : ch2[m] = ch[m],
         NEW a, NEW p, IsAt(lo, hi, ch, a, p)
  PROVE  IsAt(lo, hi + 1, ch2, a, p)
<1>1. PICK m \in lo .. hi : a[1] = ch[m] /\ a[2] \in Slots /\ Base(m) + a[2] = p
  BY DEF IsAt
<1>2. m \in lo .. hi + 1 /\ ch2[m] = ch[m]
  OBVIOUS
<1> QED BY <1>1, <1>2 DEF IsAt

LEMMA FrontIsAt ==
  ASSUME TypeOK, NEW lo, NEW hi, NEW ch, Chain(lo, hi, ch)
  PROVE  IsAt(lo, hi, ch, begin, ReadPlace)
<1>1. begin \in Addresses /\ lo \in lo .. hi
  BY DEF TypeOK, QueueTypeOK, Chain
<1> QED BY <1>1 DEF IsAt, Chain, Addresses, Chunk, Slot

\* TypeOK without the sets that are written to be short.
LEMMA Types ==
  ASSUME TypeOK
  PROVE  /\ heap \subseteq Chunks
         /\ values \in [Chunks -> [Slots -> Nat]]
         /\ next \in [Chunks -> Chunks \cup {Null}]
         /\ begin \in Addresses /\ back \in Addresses /\ end \in Chunks \X (0 .. N)
         /\ spare \in Chunks \cup {Null} /\ fresh \in Chunks \cup {Null}
         /\ emptied \in Chunks \cup {Null} /\ old \in Chunks \cup {Null}
         /\ c \in Addresses \cup {Null} /\ r \in Addresses \cup {Null}
         /\ w \in Addresses /\ f \in Addresses
         /\ wpc \in {"idle", "push", "exchange", "link", "mark", "flush", "set"}
         /\ rpc \in {"idle", "pop", "spare", "free"}
         /\ written \in Nat /\ flushed \in Nat /\ got \in Seq(Nat) /\ Len(got) \in Nat
         /\ N \in Nat /\ N > 1 /\ Null \notin Chunks /\ Null \notin Addresses
<1>1. Null \notin Addresses /\ Null \notin Chunks /\ N \in Nat /\ N > 1
  BY NAssumption, ChunksAssumption DEF Addresses, Slots
<1> QED BY <1>1 DEF TypeOK, QueueTypeOK
-----------------------------------------------------------------------------
(* What the steps leave as it was.                                         *)

ChainVars == <<next, begin, back, end>>
HeldVars  == <<heap, spare, fresh, emptied, old>>

LEMMA ChainKept ==
  ASSUME NEW lo, NEW hi, NEW ch, Chain(lo, hi, ch), UNCHANGED ChainVars,
         ReadPlace' = ReadPlace, WritePlace' = WritePlace,
         wpc' \in {"exchange", "link"} <=> wpc \in {"exchange", "link"}
  PROVE  Chain(lo, hi, ch)'
<1>1. Chunk(begin)' = Chunk(begin) /\ Slot(begin)' = Slot(begin)
  BY DEF ChainVars, Chunk, Slot
<1>2. Chunk(end)' = Chunk(end) /\ Slot(end)' = Slot(end)
  BY DEF ChainVars, Chunk, Slot
<1>3. IsAt(lo, hi, ch, back, WritePlace)'
  BY DEF Chain, ChainVars, IsAt
<1> QED BY <1>1, <1>2, <1>3 DEF Chain, ChainVars

LEMMA PointersKept ==
  ASSUME NEW lo, NEW hi, NEW ch, Pointers(lo, hi, ch),
         UNCHANGED <<w, f, r, back, flushed>>, Len(got)' = Len(got),
         wpc' \in {"flush", "set"} <=> wpc \in {"flush", "set"}
  PROVE  Pointers(lo, hi, ch)'
  BY DEF Pointers, IsAt

LEMMA StoredKept ==
  ASSUME NEW lo, NEW hi, NEW ch, Stored(lo, hi, ch), UNCHANGED values,
         ReadPlace' = ReadPlace, written' = written
  PROVE  Stored(lo, hi, ch)'
  BY DEF Stored

LEMMA OwnedKept ==
  ASSUME NEW lo, NEW hi, NEW ch, Owned(lo, hi, ch), UNCHANGED HeldVars,
         wpc = "link" => wpc' = "link", rpc \in {"spare", "free"} => rpc' = rpc
  PROVE  Owned(lo, hi, ch)'
<1>1. Held' = Held
  BY DEF Held, HeldVars
<1> QED BY <1>1 DEF Owned, HeldVars
-----------------------------------------------------------------------------
(* The writer.                                                             *)

LEMMA WriteStep ==
  ASSUME TypeOK, Progress, NEW lo, NEW hi, NEW ch, Shape(lo, hi, ch), Write
  PROVE  TypeOK' /\ Progress' /\ Shape(lo, hi, ch)'
<1>1. /\ wpc = "idle" /\ wpc' = "push" /\ written' = written + 1
      /\ UNCHANGED <<c, w, f, r, rpc, flushed, got, ChainVars, HeldVars>>
      /\ values' = [values EXCEPT ![Chunk(back)][Slot(back)] = written + 1]
  BY DEF Write, WriterGoto, StoreBack, writerEnd, readerEnd, ChainVars, HeldVars
<1>2. /\ written \in Nat /\ back \in Addresses /\ Len(got) \in Nat
      /\ values \in [Chunks -> [Slots -> Nat]]
  BY Types
<1>3. ReadPlace' = ReadPlace /\ WritePlace' = WritePlace /\ WritePlace = written
  BY <1>1, <1>2 DEF ReadPlace, WritePlace
<1>4. Chain(lo, hi, ch)' /\ Pointers(lo, hi, ch)' /\ Owned(lo, hi, ch)'
  BY <1>1, <1>3, ChainKept, PointersKept, OwnedKept DEF Shape, ChainVars
<1>5. Stored(lo, hi, ch)'
  <2> SUFFICES ASSUME NEW m \in lo .. hi, NEW s \in Slots,
                      Base(m) + s \in ReadPlace .. written
               PROVE  values'[ch[m]][s] = Base(m) + s + 1
    <3>1. written' - 1 = written
      BY <1>1, <1>2
    <3> QED BY <1>3, <3>1 DEF Stored
  <2>1. /\ lo \in Nat /\ hi \in Nat /\ m \in Nat /\ ch[m] \in Chunks /\ <<ch[m], s>> \in Addresses
        /\ s \in Nat /\ Base(m) \in Nat
    <3>1. lo \in Nat /\ hi \in Nat /\ ch \in [0 .. hi -> Chunks]
      BY DEF Shape, Chain
    <3>2. m \in 0 .. hi /\ m \in Nat /\ s \in Nat
      BY <3>1, NAssumption DEF Slots
    <3> QED BY <3>1, <3>2, BaseNext DEF Addresses
  <2>2. IsAt(lo, hi, ch, <<ch[m], s>>, Base(m) + s)
    BY DEF IsAt
  <2>3. CASE Base(m) + s = written
    <3>1. IsAt(lo, hi, ch, back, written)
      BY <1>3 DEF Shape, Chain
    <3>2. back = <<ch[m], s>>
      BY <1>2, <2>1, <2>2, <2>3, <3>1, OneAddress
    <3> QED BY <1>1, <1>2, <2>1, <2>3, <3>2 DEF Chunk, Slot
  <2>4. CASE Base(m) + s # written
    <3>1. <<ch[m], s>> # back
      <4>1. IsAt(lo, hi, ch, back, written)
        BY <1>3 DEF Shape, Chain
      <4>2. \A i, j \in lo .. hi : ch[i] = ch[j] => i = j
        BY DEF Shape, Chain
      <4> QED BY <2>1, <2>2, <2>4, <4>1, <4>2, OnePlace
    <3>2. ch[m] # Chunk(back) \/ s # Slot(back)
      BY <1>2, <3>1 DEF Chunk, Slot, Addresses
    <3>3. values'[ch[m]][s] = values[ch[m]][s]
      BY <1>1, <1>2, <2>1, <3>2
    <3>4. Base(m) + s \in ReadPlace .. written - 1
      BY <1>2, <2>1, <2>4 DEF ReadPlace
    <3> QED BY <3>3, <3>4 DEF Shape, Stored
  <2> QED BY <2>3, <2>4
<1>6. Progress'
  <2>1. flushed = written
    BY <1>1 DEF Progress
  <2>2. written' - 1 = written
    BY <1>1, <1>2
  <2> QED BY <1>1, <2>1, <2>2 DEF Progress
<1>7. TypeOK'
  <2>1. values' \in [Chunks -> [Slots -> Nat]]
    BY <1>1, <1>2 DEF Chunk, Slot, Addresses
  <2> QED BY <1>1, <1>2, <2>1 DEF TypeOK, QueueTypeOK, ChainVars, HeldVars
<1> QED BY <1>4, <1>5, <1>6, <1>7 DEF Shape

LEMMA PushStep ==
  ASSUME TypeOK, Progress, NEW lo, NEW hi, NEW ch, Shape(lo, hi, ch), Push
  PROVE  TypeOK' /\ Progress' /\ Shape(lo, hi, ch)'
<1>1. /\ wpc = "push" /\ wpc' = (IF ChunkFull THEN "exchange" ELSE "mark")
      /\ UNCHANGED <<c, w, f, r, rpc, written, flushed, got, values, next, begin, HeldVars>>
      /\ back' = end /\ end' = [end EXCEPT ![2] = @ + 1]
  BY DEF Push, WriterGoto, AdvanceBack, readerEnd, HeldVars
<1>2. /\ written \in Nat /\ Len(got) \in Nat /\ end \in Chunks \X (0 .. N) /\ N \in Nat /\ N > 1
      /\ w \in Addresses
  BY Types
<1>3. ReadPlace' = ReadPlace /\ WritePlace' = WritePlace + 1
  BY <1>1, <1>2 DEF ReadPlace, WritePlace
<1>4. Slot(end) # N
  BY <1>1 DEF Shape, Chain
<1>5. end \in Addresses /\ end' = <<Chunk(end), Slot(end) + 1>> /\ end' \in Chunks \X (0 .. N)
  BY <1>1, <1>2, <1>4 DEF Addresses, Slots, Slot, Chunk
<1>6. Chain(lo, hi, ch)'
  <2>1. IsAt(lo, hi, ch, end, WritePlace + 1)
    <3>1. hi \in lo .. hi /\ Chunk(end) = ch[hi] /\ Base(hi) + Slot(end) = WritePlace + 1
      BY DEF Shape, Chain
    <3> QED BY <1>5, <3>1 DEF IsAt, Chunk, Slot, Addresses
  <2>2. Base(hi) + Slot(end)' = WritePlace' + 1
    <3>1. Base(hi) \in Nat /\ Base(hi) + Slot(end) = WritePlace + 1 /\ Slot(end) \in Nat
      BY <1>2, BaseNext DEF Shape, Chain, Slot
    <3>2. Slot(end)' = Slot(end) + 1
      BY <1>5 DEF Slot
    <3>3. WritePlace \in Int
      BY <1>2 DEF WritePlace
    <3> QED BY <1>3, <3>1, <3>2, <3>3
  <2>3. wpc' \in {"exchange", "link"} <=> Slot(end)' = N
    BY <1>1, <1>2, <1>5 DEF ChunkFull, Slot
  <2>4. Chunk(end)' = Chunk(end) /\ Chunk(begin)' = Chunk(begin) /\ Slot(begin)' = Slot(begin)
    BY <1>1, <1>5 DEF Chunk, Slot
  <2>5. IsAt(lo, hi, ch, back, WritePlace)'
    BY <1>1, <1>3, <2>1 DEF IsAt
  <2> QED BY <1>1, <1>3, <2>2, <2>3, <2>4, <2>5 DEF Shape, Chain
<1>7. Pointers(lo, hi, ch)'
  BY <1>1 DEF Shape, Pointers, IsAt
<1>8. Stored(lo, hi, ch)' /\ Owned(lo, hi, ch)'
  BY <1>1, <1>3, StoredKept, OwnedKept DEF Shape
<1>9. Progress'
  BY <1>1 DEF Progress
<1>10. TypeOK'
  BY <1>1, <1>5 DEF TypeOK, QueueTypeOK, HeldVars
<1> QED BY <1>6, <1>7, <1>8, <1>9, <1>10 DEF Shape

LEMMA ExchangeStep ==
  ASSUME TypeOK, Progress, NEW lo, NEW hi, NEW ch, Shape(lo, hi, ch), PushExchange
  PROVE  TypeOK' /\ Progress' /\ Shape(lo, hi, ch)'
<1>1. /\ wpc = "exchange" /\ wpc' = "link" /\ fresh' = spare /\ spare' = Null
      /\ UNCHANGED <<c, w, f, r, rpc, written, flushed, got, values, ChainVars,
                     heap, emptied, old>>
  BY DEF PushExchange, WriterGoto, ExchangeSpare, TakeSpare, readerEnd, ChainVars
<1>2. ReadPlace' = ReadPlace /\ WritePlace' = WritePlace
  BY <1>1 DEF ReadPlace, WritePlace
<1>3. Chain(lo, hi, ch)' /\ Pointers(lo, hi, ch)' /\ Stored(lo, hi, ch)'
  BY <1>1, <1>2, ChainKept, PointersKept, StoredKept DEF Shape, ChainVars
<1>4. fresh = Null
  BY <1>1 DEF Shape, Owned
<1>5. Owned(lo, hi, ch)'
  <2>1. Held = <<spare, Null, emptied, old>> /\ Held' = <<Null, spare, emptied, old>>
    BY <1>1, <1>4 DEF Held
  <2>2. \A m \in lo .. hi : Null # ch[m]
    BY Types DEF Shape, Chain
  <2> QED BY <1>1, <2>1, <2>2 DEF Shape, Owned
<1>6. Progress' /\ TypeOK'
  BY <1>1 DEF Progress, TypeOK, QueueTypeOK, ChainVars
<1> QED BY <1>3, <1>5, <1>6 DEF Shape

LEMMA LinkStep ==
  ASSUME TypeOK, Progress, NEW lo, NEW hi, NEW ch, Shape(lo, hi, ch), PushLink,
         NEW ch2, NEW k, LinkChunk(k), (LinkSpare /\ k = fresh) \/ (LinkNew /\ k \notin heap),
         heap' = heap \cup {k}, k \in Chunks,
         ch2 = [m \in 0 .. hi + 1 |-> IF m = hi + 1 THEN k ELSE ch[m]]
  PROVE  TypeOK' /\ Progress' /\ Shape(lo, hi + 1, ch2)'
<1>1. /\ wpc = "link" /\ wpc' = "mark" /\ fresh' = Null /\ end' = <<k, 0>>
      /\ next' = [next EXCEPT ![Chunk(end)] = k]
      /\ UNCHANGED <<c, w, f, r, rpc, written, flushed, got, values, begin, back,
                     spare, emptied, old>>
  BY DEF PushLink, WriterGoto, LinkChunk, readerEnd
<1>2. /\ written \in Nat /\ Len(got) \in Nat /\ end \in Chunks \X (0 .. N) /\ N \in Nat /\ N > 1
      /\ next \in [Chunks -> Chunks \cup {Null}] /\ Null \notin Chunks
  BY Types
<1>3. /\ lo \in Nat /\ hi \in Nat /\ lo <= hi /\ ch \in [0 .. hi -> Chunks]
      /\ \A i, j \in lo .. hi : ch[i] = ch[j] => i = j
      /\ \A j \in lo .. hi : j < hi => next[ch[j]] = ch[j + 1]
      /\ Chunk(begin) = ch[lo] /\ Base(lo) + Slot(begin) = ReadPlace
      /\ Chunk(end) = ch[hi] /\ Base(hi) + Slot(end) = WritePlace + 1
      /\ IsAt(lo, hi, ch, back, WritePlace) /\ Slot(end) = N
  BY <1>1 DEF Shape, Chain
<1>4. /\ ReadPlace' = ReadPlace /\ WritePlace' = WritePlace /\ WritePlace = written
      /\ ReadPlace \in Int
  BY <1>1, <1>2 DEF ReadPlace, WritePlace
<1>5. /\ hi + 1 \in Nat /\ lo <= hi + 1 /\ ch2 \in [0 .. hi + 1 -> Chunks]
      /\ ch2[hi + 1] = k /\ \A m \in lo .. hi : ch2[m] = ch[m] /\ ch2[m] \in Chunks
  BY <1>3
<1>6. /\ \A m \in lo .. hi : ch[m] # k
      /\ \A m \in lo .. hi + 1 : m \in lo .. hi \/ m = hi + 1
  <2>1. CASE k = fresh
    <3>1. Held[2] = k
      BY <2>1 DEF Held
    <3> QED BY <1>3, <3>1 DEF Shape, Owned
  <2>2. CASE k \notin heap
    BY <1>3, <2>2 DEF Shape, Owned
  <2> QED BY <1>3, <2>1, <2>2
<1>7. Base(hi) \in Nat /\ Base(hi + 1) = Base(hi) + N /\ Base(hi + 1) = written + 1
  <2>1. Base(hi) \in Nat /\ Base(hi + 1) = Base(hi) + N
    BY <1>3, BaseNext
  <2> QED BY <1>3, <1>4, <2>1
<1>8. Chain(lo, hi + 1, ch2)'
  <2>1. \A i, j \in lo .. hi + 1 : ch2[i] = ch2[j] => i = j
    BY <1>3, <1>5, <1>6
  <2>2. \A j \in lo .. hi + 1 : j < hi + 1 => next'[ch2[j]] = ch2[j + 1]
    <3> SUFFICES ASSUME NEW j \in lo .. hi PROVE next'[ch2[j]] = ch2[j + 1]
      BY <1>3
    <3>1. CASE j = hi
      BY <1>1, <1>2, <1>3, <1>5, <3>1
    <3>2. CASE j # hi
      <4>1. ch[j] # ch[hi] /\ ch[j] \in Chunks /\ j + 1 \in lo .. hi /\ j < hi
        BY <1>3, <3>2
      <4>2. next'[ch[j]] = next[ch[j]]
        BY <1>1, <1>2, <1>3, <4>1
      <4> QED BY <1>3, <1>5, <4>1, <4>2
    <3> QED BY <3>1, <3>2
  <2>3. /\ Chunk(end)' = k /\ Slot(end)' = 0
        /\ Chunk(begin)' = Chunk(begin) /\ Slot(begin)' = Slot(begin)
    BY <1>1 DEF Chunk, Slot
  <2>4. IsAt(lo, hi + 1, ch2, back, WritePlace)
    BY <1>3, <1>5, LongerChain
  <2>5. IsAt(lo, hi + 1, ch2, back, WritePlace)'
    BY <1>1, <1>4, <2>4 DEF IsAt
  <2>6. Base(hi + 1) + Slot(end)' = WritePlace' + 1
    BY <1>2, <1>4, <1>7, <2>3
  <2>7. Chunk(begin)' = ch2[lo] /\ Base(lo) + Slot(begin)' = ReadPlace'
    BY <1>3, <1>4, <1>5, <2>3
  <2>8. ~(wpc' \in {"exchange", "link"}) /\ Slot(end)' # N
    BY <1>1, <1>2, <2>3
  <2> QED BY <1>3, <1>5, <2>1, <2>2, <2>3, <2>5, <2>6, <2>7, <2>8 DEF Chain
<1>9. Pointers(lo, hi + 1, ch2)'
  <2>1. Pointers(lo, hi, ch)
    BY DEF Shape
  <2>2. \A a, p : IsAt(lo, hi, ch, a, p) => IsAt(lo, hi + 1, ch2, a, p)
    BY <1>3, <1>5, LongerChain
  <2> QED BY <1>1, <2>1, <2>2 DEF Pointers
<1>10. Stored(lo, hi + 1, ch2)'
  <2> SUFFICES ASSUME NEW m \in lo .. hi + 1, NEW s \in Slots,
                      Base(m) + s \in ReadPlace .. written - 1
               PROVE  values[ch2[m]][s] = Base(m) + s + 1
    BY <1>1, <1>4 DEF Stored
  <2>1. m # hi + 1
    BY <1>2, <1>7 DEF Slots
  <2> QED BY <1>3, <1>5, <1>6, <2>1 DEF Shape, Stored
<1>11. Owned(lo, hi + 1, ch2)'
  <2>1. Owned(lo, hi, ch)
    BY DEF Shape
  <2>2. Held = <<spare, fresh, emptied, old>> /\ Held' = <<spare, Null, emptied, old>>
    BY <1>1 DEF Held
  <2>3. {ch2[m] : m \in lo .. hi + 1} = {ch[m] : m \in lo .. hi} \cup {k}
    BY <1>3, <1>5, <1>6
  <2>4. fresh = k \/ (fresh = Null /\ k \notin heap)
    BY DEF LinkNew
  <2>5. \A i \in 1 .. 4 : Held'[i] = Null \/ (Held'[i] = Held[i] /\ Held[i] # k)
    <3>1. \A i \in 1 .. 4 : Held[i] = k => i = 2
      <4>1. CASE fresh = k
        BY <1>2, <2>1, <2>2, <4>1 DEF Owned
      <4>2. CASE k \notin heap
        BY <1>2, <2>1, <4>2 DEF Owned
      <4> QED BY <2>4, <4>1, <4>2
    <3> QED BY <2>2, <3>1
  <2>6. {Held[i] : i \in 1 .. 4} \ {Null, k} = {Held'[i] : i \in 1 .. 4} \ {Null}
    <3>1. \A i \in 1 .. 4 : Held[i] \in {Null, k} \/ Held[i] = Held'[i]
      BY <2>2, <2>4
    <3> QED BY <2>5, <3>1
  <2>7. heap' = {ch2[m] : m \in lo .. hi + 1} \cup ({Held'[i] : i \in 1 .. 4} \ {Null})
    <3> DEFINE A == {ch[m] : m \in lo .. hi}
               H == {Held[i] : i \in 1 .. 4}
    <3>1. heap = A \cup (H \ {Null})
      BY <2>1 DEF Owned
    <3>2. heap \cup {k} = A \cup {k} \cup (H \ {Null, k})
      <4> HIDE DEF A, H
      <4> QED BY <1>2, <3>1
    <3> QED BY <2>3, <2>6, <3>2
  <2>8. \A i \in 1 .. 4 : \A m \in lo .. hi + 1 : Held'[i] # ch2[m]
    BY <1>2, <1>5, <1>6, <2>1, <2>5 DEF Owned
  <2>9. \A i, j \in 1 .. 4 : Held'[i] = Held'[j] /\ Held'[i] # Null => i = j
    BY <2>1, <2>5 DEF Owned
  <2> QED BY <1>1, <2>1, <2>7, <2>8, <2>9 DEF Owned
<1>12. Progress'
  BY <1>1 DEF Progress
<1>13. TypeOK'
  <2>1. next' \in [Chunks -> Chunks \cup {Null}]
    BY <1>1, <1>2 DEF Chunk
  <2>2. end' \in Chunks \X (0 .. N)
    BY <1>1, <1>2
  <2> QED BY <1>1, <2>1, <2>2 DEF TypeOK, QueueTypeOK
<1> QED BY <1>8, <1>9, <1>10, <1>11, <1>12, <1>13 DEF Shape

LEMMA MarkStep ==
  ASSUME TypeOK, Progress, NEW lo, NEW hi, NEW ch, Shape(lo, hi, ch), Mark
  PROVE  TypeOK' /\ Progress' /\ Shape(lo, hi, ch)'
<1>1. /\ wpc = "mark" /\ wpc' = "flush" /\ f' = back
      /\ UNCHANGED <<c, w, r, rpc, written, flushed, got, values, ChainVars, HeldVars>>
  BY DEF Mark, FlushPoint, WriterGoto, queueVars, writerEnd, readerEnd, ChainVars, HeldVars
<1>2. ReadPlace' = ReadPlace /\ WritePlace' = WritePlace
  BY <1>1 DEF ReadPlace, WritePlace
<1>3. Chain(lo, hi, ch)' /\ Stored(lo, hi, ch)' /\ Owned(lo, hi, ch)'
  BY <1>1, <1>2, ChainKept, StoredKept, OwnedKept DEF Shape
<1>4. Pointers(lo, hi, ch)'
  BY <1>1 DEF Shape, Pointers, IsAt, ChainVars
<1>5. Progress'
  BY <1>1 DEF Progress
<1>6. TypeOK'
  BY <1>1, Types DEF TypeOK, QueueTypeOK, ChainVars, HeldVars
<1> QED BY <1>3, <1>4, <1>5, <1>6 DEF Shape

\* Both ways to flush: everything written can be read now.
LEMMA FlushStep ==
  ASSUME TypeOK, Progress, NEW lo, NEW hi, NEW ch, Shape(lo, hi, ch), Flush \/ FlushSet
  PROVE  TypeOK' /\ Progress' /\ Shape(lo, hi, ch)'
<1>1. /\ wpc \in {"flush", "set"} /\ wpc' = "idle" /\ c' = f /\ w' = f /\ flushed' = written
      /\ UNCHANGED <<f, r, rpc, written, got, values, ChainVars, HeldVars>>
  BY DEF Flush, FlushSet, WAfterSet, WriterGoto, queueVars, writerEnd, readerEnd,
         ChainVars, HeldVars
<1>2. ReadPlace' = ReadPlace /\ WritePlace' = WritePlace /\ WritePlace = written
  BY <1>1 DEF ReadPlace, WritePlace
<1>3. Chain(lo, hi, ch)' /\ Stored(lo, hi, ch)' /\ Owned(lo, hi, ch)'
  BY <1>1, <1>2, ChainKept, StoredKept, OwnedKept DEF Shape
<1>4. written \in Nat /\ Len(got) \in Nat /\ f \in Addresses /\ Null \notin Addresses
  BY Types
<1>5. f = back /\ IsAt(lo, hi, ch, f, written)
  BY <1>1, <1>2 DEF Shape, Chain, Pointers
<1>6. flushed = written - 1 /\ flushed \in Int
  <2>1. flushed = written - 1
    BY <1>1 DEF Progress
  <2> QED BY <1>4, <2>1
<1>7. Pointers(lo, hi, ch)'
  <2>1. IsAt(lo, hi, ch, w, flushed)'
    BY <1>1, <1>5 DEF IsAt
  <2>2. r # Null => \E p \in Len(got) .. written : IsAt(lo, hi, ch, r, p)
    BY <1>4, <1>6 DEF Shape, Pointers
  <2>3. r' # Null => \E p \in Len(got') .. flushed' : IsAt(lo, hi, ch, r', p)
    BY <1>1, <2>2
  <2> QED BY <1>1, <2>1, <2>3 DEF Pointers
<1>8. Progress'
  <2>1. rpc = "pop" => Len(got) \in 1 .. written
    BY <1>4, <1>6 DEF Progress
  <2>2. rpc # "pop" => Len(got) \in 0 .. written
    <3>1. rpc # "pop" => Len(got) \in 0 .. flushed
      BY DEF Progress
    <3> QED BY <1>4, <1>6, <3>1
  <2>3. got = [i \in 1 .. Len(got) |-> i]
    BY DEF Progress
  <2> QED BY <1>1, <1>4, <2>1, <2>2, <2>3 DEF Progress
<1>9. TypeOK'
  BY <1>1, <1>4 DEF TypeOK, QueueTypeOK, ChainVars, HeldVars
<1> QED BY <1>3, <1>7, <1>8, <1>9 DEF Shape

LEMMA FlushFailsStep ==
  ASSUME TypeOK, Progress, NEW lo, NEW hi, NEW ch, Shape(lo, hi, ch), FlushFails
  PROVE  TypeOK' /\ Progress' /\ Shape(lo, hi, ch)'
<1>1. /\ wpc = "flush" /\ wpc' = "set" /\ c # w
      /\ UNCHANGED <<c, w, f, r, rpc, written, flushed, got, values, ChainVars, HeldVars>>
  BY DEF FlushFails, WriterGoto, queueVars, writerEnd, readerEnd, ChainVars, HeldVars
<1>2. ReadPlace' = ReadPlace /\ WritePlace' = WritePlace
  BY <1>1 DEF ReadPlace, WritePlace
<1>3. Chain(lo, hi, ch)' /\ Pointers(lo, hi, ch)' /\ Stored(lo, hi, ch)' /\ Owned(lo, hi, ch)'
  BY <1>1, <1>2, ChainKept, PointersKept, StoredKept, OwnedKept DEF Shape, ChainVars
<1>4. Progress'
  BY <1>1 DEF Progress
<1>5. TypeOK'
  BY <1>1 DEF TypeOK, QueueTypeOK, ChainVars, HeldVars
<1> QED BY <1>3, <1>4, <1>5 DEF Shape
-----------------------------------------------------------------------------
(* The reader.                                                             *)

\* A prefetched value is at the front, and it is the next item.
LEMMA FrontItem ==
  ASSUME TypeOK, Progress, NEW lo, NEW hi, NEW ch, Shape(lo, hi, ch), rpc = "idle", Prefetched
  PROVE  Len(got) < flushed /\ Front = Len(got) + 1 /\ c # Null
<1>1. /\ lo \in Nat /\ hi \in Nat /\ lo <= hi
      /\ begin \in Addresses /\ r \in Addresses /\ begin # r
      /\ Len(got) \in Nat /\ flushed \in Nat /\ written \in Nat
  BY Types DEF Shape, Chain, Prefetched
<1>2. ReadPlace = Len(got) /\ IsAt(lo, hi, ch, begin, ReadPlace)
  BY FrontIsAt DEF Shape, ReadPlace
<1>3. PICK p \in Len(got) .. flushed : IsAt(lo, hi, ch, r, p)
  BY DEF Shape, Pointers, Prefetched
<1>4. p # Len(got)
  BY <1>1, <1>2, <1>3, OneAddress
<1>5. Len(got) < flushed
  BY <1>1, <1>3, <1>4
<1>6. flushed <= written
  <2>1. flushed = written \/ flushed = written - 1
    BY DEF Progress
  <2> QED BY <1>1, <2>1
<1>7. Front = Len(got) + 1
  <2>1. /\ Chunk(begin) = ch[lo] /\ Base(lo) + Slot(begin) = Len(got) /\ Slot(begin) \in Slots
        /\ lo \in lo .. hi
    BY <1>1, <1>2 DEF Shape, Chain, Slot, Addresses
  <2>2. Base(lo) + Slot(begin) \in ReadPlace .. written - 1
    BY <1>1, <1>2, <1>5, <1>6, <2>1
  <2> QED BY <2>1, <2>2 DEF Shape, Stored, Front
<1>8. c # Null
  <2>1. c = Null => Len(got) = flushed
    BY DEF Progress
  <2> QED BY <1>1, <1>5, <2>1
<1> QED BY <1>5, <1>7, <1>8

\* c and the front are equal exactly if everything flushed was read.
LEMMA FrontIsC ==
  ASSUME TypeOK, Progress, NEW lo, NEW hi, NEW ch, Shape(lo, hi, ch), rpc = "idle"
  PROVE  /\ c # Null => (c = begin <=> Len(got) = flushed)
         /\ c = begin => c # Null
<1>1. /\ lo \in Nat /\ hi \in Nat /\ begin \in Addresses /\ w \in Addresses /\ Null \notin Addresses
      /\ \A i, j \in lo .. hi : ch[i] = ch[j] => i = j
  BY Types DEF Shape, Chain
<1>2. IsAt(lo, hi, ch, begin, Len(got)) /\ IsAt(lo, hi, ch, w, flushed)
  BY FrontIsAt DEF Shape, ReadPlace, Pointers
<1>3. w = begin <=> Len(got) = flushed
  BY <1>1, <1>2, OnePlace, OneAddress
<1> QED BY <1>1, <1>3 DEF Progress

LEMMA PrefetchStep ==
  ASSUME TypeOK, Progress, NEW lo, NEW hi, NEW ch, Shape(lo, hi, ch), Prefetch
  PROVE  TypeOK' /\ Progress' /\ Shape(lo, hi, ch)'
<1>1. /\ rpc = "idle" /\ r' = c /\ c' = CasFront
      /\ UNCHANGED <<w, f, wpc, rpc, written, flushed, got, values, ChainVars, HeldVars>>
  BY DEF Prefetch, queueVars, writerEnd, readerEnd, ChainVars, HeldVars
<1>2. ReadPlace' = ReadPlace /\ WritePlace' = WritePlace
  BY <1>1 DEF ReadPlace, WritePlace
<1>3. Chain(lo, hi, ch)' /\ Stored(lo, hi, ch)' /\ Owned(lo, hi, ch)'
  BY <1>1, <1>2, ChainKept, StoredKept, OwnedKept DEF Shape
<1>4. Len(got) \in 0 .. flushed /\ flushed \in Nat /\ c \in {w, Null}
  BY <1>1, Types DEF Progress
<1>5. Pointers(lo, hi, ch)'
  <2>1. flushed \in Len(got) .. flushed /\ IsAt(lo, hi, ch, w, flushed)
    BY <1>4 DEF Shape, Pointers
  <2>2. c # Null => \E p \in Len(got) .. flushed : IsAt(lo, hi, ch, c, p)
    BY <1>4, <2>1
  <2> QED BY <1>1, <2>2 DEF Shape, Pointers, IsAt, ChainVars
<1>6. c' \in {c, Null} /\ (c' = Null => Len(got) = flushed)
  BY <1>1, FrontIsC DEF CasFront, Progress
<1>7. Progress'
  <2>1. wpc = "set" => c' = Null
    BY <1>6 DEF Progress
  <2>2. c' \in {w, Null}
    BY <1>4, <1>6
  <2> QED BY <1>1, <1>6, <2>1, <2>2 DEF Progress
<1>8. TypeOK'
  BY <1>1, <1>6, Types DEF TypeOK, QueueTypeOK, ChainVars, HeldVars
<1> QED BY <1>3, <1>5, <1>7, <1>8 DEF Shape

LEMMA ReadStep ==
  ASSUME TypeOK, Progress, NEW lo, NEW hi, NEW ch, Shape(lo, hi, ch), Read
  PROVE  TypeOK' /\ Progress' /\ Shape(lo, hi, ch)'
<1>1. /\ rpc = "idle" /\ rpc' = "pop" /\ got' = Append(got, Front)
      /\ UNCHANGED <<c, w, f, r, wpc, written, flushed, values, ChainVars, HeldVars>>
  BY DEF Read, queueVars, writerEnd, readerEnd, ChainVars, HeldVars
<1>2. /\ Len(got) < flushed /\ Front = Len(got) + 1 /\ c # Null
  BY <1>1, FrontItem DEF Read
<1>3. got \in Seq(Nat) /\ Len(got) \in Nat /\ flushed \in Nat /\ written \in Nat
  BY Types
<1>4. got' \in Seq(Nat) /\ Len(got') = Len(got) + 1
  BY <1>1, <1>2, <1>3
<1>5. ReadPlace' = ReadPlace /\ WritePlace' = WritePlace
  BY <1>1, <1>3, <1>4 DEF ReadPlace, WritePlace
<1>6. Chain(lo, hi, ch)' /\ Stored(lo, hi, ch)' /\ Owned(lo, hi, ch)'
  BY <1>1, <1>5, ChainKept, StoredKept, OwnedKept DEF Shape
<1>7. Pointers(lo, hi, ch)'
  <2>1. r # Null => \E p \in Len(got) + 1 .. flushed : IsAt(lo, hi, ch, r, p)
    <3> SUFFICES ASSUME r # Null
                 PROVE  \E p \in Len(got) + 1 .. flushed : IsAt(lo, hi, ch, r, p)
      OBVIOUS
    <3>1. PICK p \in Len(got) .. flushed : IsAt(lo, hi, ch, r, p)
      BY DEF Shape, Pointers
    <3>2. p # Len(got)
      <4>1. IsAt(lo, hi, ch, begin, Len(got))
        BY <1>1, FrontIsAt DEF Shape, ReadPlace
      <4>2. lo \in Nat /\ hi \in Nat /\ begin \in Addresses /\ r \in Addresses /\ begin # r
        BY Types DEF Shape, Chain, Read, Prefetched
      <4> QED BY <3>1, <4>1, <4>2, OneAddress
    <3> QED BY <1>3, <3>1, <3>2
  <2>2. w' = w /\ f' = f /\ r' = r /\ back' = back /\ flushed' = flushed /\ wpc' = wpc
    BY <1>1 DEF ChainVars
  <2> QED BY <1>4, <2>1, <2>2 DEF Shape, Pointers, IsAt
<1>8. Progress'
  <2>1. got' = [i \in 1 .. Len(got') |-> i]
    <3>1. \A i \in 1 .. Len(got') : got'[i] = i
      <4> SUFFICES ASSUME NEW i \in 1 .. Len(got) + 1 PROVE got'[i] = i
        BY <1>4
      <4>1. CASE i = Len(got) + 1
        BY <1>1, <1>2, <1>3, <4>1
      <4>2. CASE i \in 1 .. Len(got)
        <5>1. got[i] = i
          BY <4>2 DEF Progress
        <5> QED BY <1>1, <1>3, <4>2, <5>1
      <4> QED BY <1>3, <4>1, <4>2
    <3> QED BY <1>4, <3>1
  <2>2. Len(got') \in 1 .. flushed
    BY <1>2, <1>3, <1>4
  <2> QED BY <1>1, <1>2, <2>1, <2>2 DEF Progress
<1>9. TypeOK'
  BY <1>1, <1>4 DEF TypeOK, QueueTypeOK, ChainVars, HeldVars
<1> QED BY <1>6, <1>7, <1>8, <1>9 DEF Shape

LEMMA PopSlotStep ==
  ASSUME TypeOK, Progress, NEW lo, NEW hi, NEW ch, Shape(lo, hi, ch), Pop, ~ChunkEmpty
  PROVE  TypeOK' /\ Progress' /\ Shape(lo, hi, ch)'
<1>1. /\ rpc = "pop" /\ rpc' = "idle" /\ begin' = [begin EXCEPT ![2] = @ + 1]
      /\ UNCHANGED <<c, w, f, r, wpc, written, flushed, got, values, next, back, end, HeldVars>>
  BY DEF Pop, PopSlot, writerEnd, HeldVars
<1>2. begin \in Addresses /\ Len(got) \in Nat /\ N \in Nat
  BY Types
<1>3. /\ begin' = <<Chunk(begin), Slot(begin) + 1>> /\ begin' \in Addresses
      /\ Slot(begin) \in Nat
  BY <1>1, <1>2 DEF ChunkEmpty, Addresses, Slots, Chunk, Slot
<1>4. /\ ReadPlace = Len(got) - 1 /\ ReadPlace' = Len(got) /\ WritePlace' = WritePlace
  BY <1>1 DEF ReadPlace, WritePlace
<1>5. Chain(lo, hi, ch)'
  <2>1. Chunk(begin)' = Chunk(begin) /\ Slot(begin)' = Slot(begin) + 1
    BY <1>3 DEF Chunk, Slot
  <2>2. Base(lo) + Slot(begin)' = ReadPlace'
    <3>1. Base(lo) \in Nat /\ Base(lo) + Slot(begin) = Len(got) - 1
      BY <1>4, BaseNext DEF Shape, Chain
    <3> QED BY <1>2, <1>3, <1>4, <2>1, <3>1
  <2>3. Chunk(end)' = Chunk(end) /\ Slot(end)' = Slot(end)
    BY <1>1 DEF Chunk, Slot
  <2>4. IsAt(lo, hi, ch, back, WritePlace)'
    BY <1>1, <1>4 DEF Shape, Chain, IsAt
  <2> QED BY <1>1, <1>4, <2>1, <2>2, <2>3, <2>4 DEF Shape, Chain
<1>6. Pointers(lo, hi, ch)' /\ Owned(lo, hi, ch)'
  BY <1>1, PointersKept, OwnedKept DEF Shape
<1>7. Stored(lo, hi, ch)'
  <2> SUFFICES ASSUME NEW m \in lo .. hi, NEW s \in Slots,
                      Base(m) + s \in Len(got) .. written - 1
               PROVE  values[ch[m]][s] = Base(m) + s + 1
    BY <1>1, <1>4 DEF Stored
  <2>1. Base(m) + s \in ReadPlace .. written - 1
    BY <1>2, <1>4
  <2> QED BY <2>1 DEF Shape, Stored
<1>8. Progress'
  <2>1. Len(got) \in 1 .. flushed /\ c # Null
    BY <1>1 DEF Progress
  <2>2. Len(got) \in 0 .. flushed
    BY <2>1
  <2> QED BY <1>1, <2>1, <2>2 DEF Progress
<1>9. TypeOK'
  BY <1>1, <1>3 DEF TypeOK, QueueTypeOK, HeldVars
<1> QED BY <1>5, <1>6, <1>7, <1>8, <1>9 DEF Shape

\* A chunk that is read to its end is not the last one.
LEMMA NotLast ==
  ASSUME TypeOK, Progress, NEW lo, NEW hi, NEW ch, Shape(lo, hi, ch), rpc = "pop", ChunkEmpty
  PROVE  lo < hi /\ Base(lo + 1) = Len(got) /\ lo + 1 \in Nat
<1>1. /\ lo \in Nat /\ hi \in Nat /\ lo <= hi /\ N \in Nat /\ N > 1
      /\ Len(got) \in Nat /\ written \in Nat /\ flushed \in Nat /\ Slot(end) \in 0 .. N
  BY Types DEF Shape, Chain, Slot
<1>2. Slot(begin) = N - 1
  <2>1. Slot(begin) \in 0 .. N - 1
    BY Types DEF Addresses, Slots, Slot
  <2> QED BY <1>1, <2>1 DEF ChunkEmpty
<1>3. Base(lo) \in Nat /\ Base(lo + 1) = Base(lo) + N /\ Base(lo) + Slot(begin) = Len(got) - 1
  BY <1>1, BaseNext DEF Shape, Chain, ReadPlace
<1>4. Base(lo + 1) = Len(got)
  BY <1>1, <1>2, <1>3
<1>5. lo # hi
  <2>1. Base(hi) + Slot(end) = WritePlace + 1
    BY DEF Shape, Chain
  <2>2. Len(got) <= flushed
    BY <1>1 DEF Progress
  <2>3. flushed <= WritePlace
    <3>1. CASE wpc = "idle"
      BY <1>1, <3>1 DEF Progress, WritePlace
    <3>2. CASE wpc # "idle"
      BY <1>1, <3>2 DEF Progress, WritePlace
    <3> QED BY <3>1, <3>2
  <2>4. WritePlace \in Int
    BY <1>1 DEF WritePlace
  <2> QED BY <1>1, <1>3, <1>4, <2>1, <2>2, <2>3, <2>4
<1> QED BY <1>1, <1>4, <1>5

LEMMA PopChunkStep ==
  ASSUME TypeOK, Progress, NEW lo, NEW hi, NEW ch, Shape(lo, hi, ch), Pop, ChunkEmpty
  PROVE  TypeOK' /\ Progress' /\ Shape(lo + 1, hi, ch)' /\ lo + 1 \in Nat
<1>1. /\ rpc = "pop" /\ rpc' = "spare"
      /\ begin' = <<next[Chunk(begin)], 0>> /\ emptied' = Chunk(begin)
      /\ UNCHANGED <<c, w, f, r, wpc, written, flushed, got, values, next, back, end,
                     heap, spare, fresh, old>>
  BY DEF Pop, PopChunk, writerEnd
<1>2. /\ lo \in Nat /\ hi \in Nat /\ lo < hi /\ lo + 1 \in Nat /\ Base(lo + 1) = Len(got)
      /\ N \in Nat /\ N > 1 /\ Len(got) \in Nat /\ Null \notin Chunks /\ flushed \in Nat
  BY <1>1, NotLast, Types DEF Shape, Chain
<1>3. /\ ch \in [0 .. hi -> Chunks] /\ \A i, j \in lo .. hi : ch[i] = ch[j] => i = j
      /\ Chunk(begin) = ch[lo] /\ lo \in lo .. hi /\ lo + 1 \in lo .. hi
      /\ next[ch[lo]] = ch[lo + 1] /\ ch[lo] \in Chunks /\ ch[lo + 1] \in Chunks
      /\ \A m \in lo + 1 .. hi : m \in lo .. hi /\ ch[m] # ch[lo]
      /\ \A m \in lo .. hi : m = lo \/ m \in lo + 1 .. hi
  BY <1>2 DEF Shape, Chain
<1>4. /\ ReadPlace = Len(got) - 1 /\ ReadPlace' = Len(got) /\ WritePlace' = WritePlace
  BY <1>1 DEF ReadPlace, WritePlace
<1>5. \A a : \A p \in Nat : IsAt(lo, hi, ch, a, p) /\ Len(got) <= p => IsAt(lo + 1, hi, ch, a, p)
  BY <1>2, BehindFirst
<1>6. Len(got) <= flushed /\ flushed <= WritePlace /\ WritePlace \in Nat
  <2>1. written \in Nat /\ (wpc # "idle" => flushed = written - 1)
        /\ (wpc = "idle" => flushed = written)
    BY Types DEF Progress
  <2>2. Len(got) <= flushed
    BY <1>1, <1>2 DEF Progress
  <2> QED BY <1>2, <2>1, <2>2 DEF WritePlace
<1>7. Chain(lo + 1, hi, ch)'
  <2>1. Chunk(begin)' = ch[lo + 1] /\ Slot(begin)' = 0
    BY <1>1, <1>3 DEF Chunk, Slot
  <2>2. Chunk(end)' = Chunk(end) /\ Slot(end)' = Slot(end)
    BY <1>1 DEF Chunk, Slot
  <2>3. IsAt(lo + 1, hi, ch, back, WritePlace)
    <3>1. IsAt(lo, hi, ch, back, WritePlace)
      BY DEF Shape, Chain
    <3> QED BY <1>2, <1>5, <1>6, <3>1
  <2>4. IsAt(lo + 1, hi, ch, back, WritePlace)'
    BY <1>1, <1>4, <2>3 DEF IsAt
  <2>5. Base(lo + 1) + Slot(begin)' = ReadPlace'
    BY <1>2, <1>4, <2>1
  <2> QED BY <1>1, <1>2, <1>3, <1>4, <2>1, <2>2, <2>4, <2>5 DEF Shape, Chain
<1>8. Pointers(lo + 1, hi, ch)'
  <2>1. IsAt(lo + 1, hi, ch, w, flushed)
    BY <1>2, <1>5, <1>6 DEF Shape, Pointers
  <2>2. r # Null => \E p \in Len(got) .. flushed : IsAt(lo + 1, hi, ch, r, p)
    <3> SUFFICES ASSUME r # Null
                 PROVE  \E p \in Len(got) .. flushed : IsAt(lo + 1, hi, ch, r, p)
      OBVIOUS
    <3>1. PICK p \in Len(got) .. flushed : IsAt(lo, hi, ch, r, p)
      BY DEF Shape, Pointers
    <3> QED BY <1>2, <1>5, <3>1
  <2> QED BY <1>1, <2>1, <2>2 DEF Shape, Pointers, IsAt
<1>9. Stored(lo + 1, hi, ch)'
  <2> SUFFICES ASSUME NEW m \in lo + 1 .. hi, NEW s \in Slots,
                      Base(m) + s \in Len(got) .. written - 1
               PROVE  values[ch[m]][s] = Base(m) + s + 1
    BY <1>1, <1>4 DEF Stored
  <2>1. Base(m) + s \in ReadPlace .. written - 1
    BY <1>2, <1>4
  <2> QED BY <1>3, <2>1 DEF Shape, Stored
<1>10. Owned(lo + 1, hi, ch)'
  <2>1. Owned(lo, hi, ch) /\ emptied = Null
    BY <1>1 DEF Shape, Owned
  <2>2. Held = <<spare, fresh, Null, old>> /\ Held' = <<spare, fresh, ch[lo], old>>
    BY <1>1, <1>3, <2>1 DEF Held
  <2>3. \A i \in 1 .. 4 : i # 3 => Held'[i] = Held[i]
    BY <2>2
  <2>4. Held[3] = Null /\ Held'[3] = ch[lo] /\ ch[lo] # Null
    BY <1>2, <1>3, <2>2
  <2>5. {ch[m] : m \in lo .. hi} = {ch[m] : m \in lo + 1 .. hi} \cup {ch[lo]}
    BY <1>3
  <2>6. {Held'[i] : i \in 1 .. 4} \ {Null} = ({Held[i] : i \in 1 .. 4} \ {Null}) \cup {ch[lo]}
    BY <2>3, <2>4
  <2>7. heap' = {ch[m] : m \in lo + 1 .. hi} \cup ({Held'[i] : i \in 1 .. 4} \ {Null})
    BY <1>1, <2>1, <2>5, <2>6 DEF Owned
  <2>8. \A i \in 1 .. 4 : \A m \in lo + 1 .. hi : Held'[i] # ch[m]
    BY <1>3, <2>1, <2>3, <2>4 DEF Owned
  <2>9. \A i, j \in 1 .. 4 : Held'[i] = Held'[j] /\ Held'[i] # Null => i = j
    <3>1. \A i \in 1 .. 4 : Held[i] # ch[lo]
      BY <1>3, <2>1 DEF Owned
    <3> QED BY <2>1, <2>3, <2>4, <3>1 DEF Owned
  <2> QED BY <1>1, <2>1, <2>7, <2>8, <2>9 DEF Owned
<1>11. Progress'
  <2>1. Len(got) \in 1 .. flushed /\ c # Null
    BY <1>1 DEF Progress
  <2>2. Len(got) \in 0 .. flushed
    BY <2>1
  <2> QED BY <1>1, <2>1, <2>2 DEF Progress
<1>12. TypeOK'
  <2>1. begin' \in Addresses /\ emptied' \in Chunks \cup {Null}
    BY <1>1, <1>2, <1>3 DEF Addresses, Slots
  <2> QED BY <1>1, <2>1 DEF TypeOK, QueueTypeOK
<1> QED BY <1>2, <1>7, <1>8, <1>9, <1>10, <1>11, <1>12 DEF Shape

LEMMA SpareStep ==
  ASSUME TypeOK, Progress, NEW lo, NEW hi, NEW ch, Shape(lo, hi, ch), PopSpare
  PROVE  TypeOK' /\ Progress' /\ Shape(lo, hi, ch)'
<1>1. /\ rpc = "spare" /\ rpc' = "free" /\ spare' = emptied /\ old' = spare /\ emptied' = Null
      /\ UNCHANGED <<c, w, f, r, wpc, written, flushed, got, values, ChainVars, heap, fresh>>
  BY DEF PopSpare, ReplaceSpare, writerEnd, ChainVars
<1>2. ReadPlace' = ReadPlace /\ WritePlace' = WritePlace
  BY <1>1 DEF ReadPlace, WritePlace
<1>3. Chain(lo, hi, ch)' /\ Pointers(lo, hi, ch)' /\ Stored(lo, hi, ch)'
  BY <1>1, <1>2, ChainKept, PointersKept, StoredKept DEF Shape, ChainVars
<1>4. Owned(lo, hi, ch)'
  <2>1. Owned(lo, hi, ch) /\ old = Null
    BY <1>1 DEF Shape, Owned
  <2>2. Held = <<spare, fresh, emptied, Null>> /\ Held' = <<emptied, fresh, Null, spare>>
    BY <1>1, <2>1 DEF Held
  <2>3. \A m \in lo .. hi : Null # ch[m]
    BY Types DEF Shape, Chain
  <2> QED BY <1>1, <2>1, <2>2, <2>3 DEF Owned
<1>5. Progress' /\ TypeOK'
  BY <1>1 DEF Progress, TypeOK, QueueTypeOK, ChainVars
<1> QED BY <1>3, <1>4, <1>5 DEF Shape

LEMMA FreeStep ==
  ASSUME TypeOK, Progress, NEW lo, NEW hi, NEW ch, Shape(lo, hi, ch), PopFree
  PROVE  TypeOK' /\ Progress' /\ Shape(lo, hi, ch)'
<1>1. /\ rpc = "free" /\ rpc' = "idle" /\ heap' = heap \ {old} /\ old' = Null
      /\ UNCHANGED <<c, w, f, r, wpc, written, flushed, got, values, ChainVars,
                     spare, fresh, emptied>>
  BY DEF PopFree, FreeOld, Freed, writerEnd, ChainVars
<1>2. ReadPlace' = ReadPlace /\ WritePlace' = WritePlace
  BY <1>1 DEF ReadPlace, WritePlace
<1>3. Chain(lo, hi, ch)' /\ Pointers(lo, hi, ch)' /\ Stored(lo, hi, ch)'
  BY <1>1, <1>2, ChainKept, PointersKept, StoredKept DEF Shape, ChainVars
<1>4. Owned(lo, hi, ch)'
  <2>1. Owned(lo, hi, ch)
    BY DEF Shape
  <2>2. Held = <<spare, fresh, emptied, old>> /\ Held' = <<spare, fresh, emptied, Null>>
    BY <1>1 DEF Held
  <2>3. \A m \in lo .. hi : Null # ch[m] /\ old # ch[m]
    <3>1. Held[4] = old
      BY <2>2
    <3> QED BY <2>1, <3>1, Types DEF Shape, Chain, Owned
  <2>4. {Held'[i] : i \in 1 .. 4} \ {Null} = ({Held[i] : i \in 1 .. 4} \ {Null}) \ {old}
    <3>1. \A i \in 1 .. 3 : Held[i] # old \/ old = Null
      BY <2>1, <2>2 DEF Owned
    <3> QED BY <2>2, <3>1
  <2>5. heap' = {ch[m] : m \in lo .. hi} \cup ({Held'[i] : i \in 1 .. 4} \ {Null})
    BY <1>1, <2>1, <2>3, <2>4 DEF Owned
  <2> QED BY <1>1, <2>1, <2>2, <2>3, <2>5 DEF Owned
<1>5. Progress' /\ TypeOK'
  BY <1>1 DEF Progress, TypeOK, QueueTypeOK, ChainVars
<1> QED BY <1>3, <1>4, <1>5 DEF Shape
-----------------------------------------------------------------------------
(* The invariant.                                                          *)

LEMMA InvInit ==
  ASSUME Init
  PROVE  PipeInv
<1>1. PICK first \in Chunks : /\ heap = {first} /\ begin = <<first, 0>>
                              /\ back = <<first, 0>> /\ end = <<first, 1>>
  BY DEF Init, QueueInit
<1>2. /\ values = [k \in Chunks |-> [i \in Slots |-> Garbage]]
      /\ next = [k \in Chunks |-> Null]
      /\ spare = Null /\ fresh = Null /\ emptied = Null /\ old = Null
      /\ c = back /\ w = back /\ f = back /\ r = back
      /\ wpc = "idle" /\ rpc = "idle" /\ written = 0 /\ flushed = 0 /\ got = <<>>
  BY DEF Init, QueueInit
<1>3. N \in Nat /\ N > 1 /\ Null \notin Chunks /\ 0 \in Slots
  BY NAssumption, ChunksAssumption DEF Slots
<1>4. Len(got) = 0 /\ ReadPlace = 0 /\ WritePlace = 0
  BY <1>2 DEF ReadPlace, WritePlace
<1>5. TypeOK
  <2>1. values \in [Chunks -> [Slots -> Nat]]
    BY <1>2 DEF Garbage
  <2>2. got \in Seq(Nat)
    BY <1>2
  <2> QED BY <1>1, <1>2, <1>3, <2>1, <2>2 DEF TypeOK, QueueTypeOK, Addresses
<1>6. Progress
  BY <1>1, <1>2, <1>4 DEF Progress
<1>7. PICK ch : ch = [m \in 0 .. 0 |-> first]
  OBVIOUS
<1>8. Base(0) = 0 /\ 0 .. 0 = {0} /\ ch \in [0 .. 0 -> Chunks] /\ ch[0] = first
  BY <1>1, <1>3, <1>7 DEF Base
<1>9. IsAt(0, 0, ch, back, 0)
  BY <1>1, <1>3, <1>8 DEF IsAt
<1>10. Chain(0, 0, ch)
  BY <1>1, <1>2, <1>3, <1>4, <1>8, <1>9 DEF Chain, Chunk, Slot
<1>11. Pointers(0, 0, ch)
  BY <1>2, <1>4, <1>9 DEF Pointers
<1>12. Stored(0, 0, ch)
  BY <1>2, <1>4 DEF Stored
<1>13. Owned(0, 0, ch)
  <2>1. Held = <<Null, Null, Null, Null>>
    BY <1>2 DEF Held
  <2>2. {Held[i] : i \in 1 .. 4} \ {Null} = {} /\ {ch[m] : m \in 0 .. 0} = {first}
    BY <1>8, <2>1
  <2> QED BY <1>1, <1>2, <1>3, <1>8, <2>1, <2>2 DEF Owned
<1>14. Shape(0, 0, ch)
  BY <1>10, <1>11, <1>12, <1>13 DEF Shape
<1> QED BY <1>5, <1>6, <1>8, <1>14 DEF PipeInv

LEMMA LinkKeeps ==
  ASSUME TypeOK, Progress, NEW lo, NEW hi, NEW ch, Shape(lo, hi, ch), PushLink
  PROVE  PipeInv'
<1>1. PICK k : /\ LinkChunk(k) /\ heap' = heap \cup {k} /\ k \in Chunks
               /\ (LinkSpare /\ k = fresh) \/ (LinkNew /\ k \notin heap)
  <2>1. CASE LinkSpare
    <3>1. fresh # Null /\ LinkChunk(fresh) /\ heap' = heap /\ Held[2] = fresh
      BY <2>1 DEF LinkSpare, Held
    <3>2. fresh \in heap /\ heap \subseteq Chunks
      BY <3>1, Types DEF Shape, Owned
    <3>3. heap' = heap \cup {fresh}
      BY <3>1, <3>2
    <3> QED BY <2>1, <3>1, <3>2, <3>3
  <2>2. CASE LinkNew
    BY <2>2 DEF LinkNew
  <2> QED BY <2>1, <2>2 DEF PushLink
<1>2. lo \in Nat /\ hi \in Nat /\ hi + 1 \in Nat /\ ch \in [0 .. hi -> Chunks]
  BY DEF Shape, Chain
<1>3. PICK ch2 : ch2 = [m \in 0 .. hi + 1 |-> IF m = hi + 1 THEN k ELSE ch[m]]
  OBVIOUS
<1>4. ch2 \in [0 .. hi + 1 -> Chunks]
  BY <1>1, <1>2, <1>3
<1>5. TypeOK' /\ Progress' /\ Shape(lo, hi + 1, ch2)'
  BY <1>1, <1>3, LinkStep
<1> QED BY <1>2, <1>4, <1>5 DEF PipeInv

LEMMA InvStep ==
  ASSUME PipeInv, [Next]_vars
  PROVE  PipeInv'
<1>1. TypeOK /\ Progress
  BY DEF PipeInv
<1>2. PICK lo \in Nat, hi \in Nat : \E ch \in [0 .. hi -> Chunks] : Shape(lo, hi, ch)
  BY DEF PipeInv
<1>3. PICK ch \in [0 .. hi -> Chunks] : Shape(lo, hi, ch)
  BY <1>2
<1>4. CASE \/ Write \/ Push \/ PushExchange \/ Mark \/ Flush \/ FlushFails \/ FlushSet
           \/ Prefetch \/ Read \/ (Pop /\ ~ChunkEmpty) \/ PopSpare \/ PopFree
  <2>1. TypeOK' /\ Progress' /\ Shape(lo, hi, ch)'
    BY <1>1, <1>3, <1>4, WriteStep, PushStep, ExchangeStep, MarkStep, FlushStep,
       FlushFailsStep, PrefetchStep, ReadStep, PopSlotStep, SpareStep, FreeStep
  <2> QED BY <2>1 DEF PipeInv
<1>5. CASE PushLink
  BY <1>1, <1>3, <1>5, LinkKeeps
<1>6. CASE Pop /\ ChunkEmpty
  <2>1. TypeOK' /\ Progress' /\ Shape(lo + 1, hi, ch)' /\ lo + 1 \in Nat
    BY <1>1, <1>3, <1>6, PopChunkStep
  <2> QED BY <2>1 DEF PipeInv
<1>7. CASE UNCHANGED vars
  <2>1. /\ UNCHANGED <<c, w, f, r, wpc, rpc, written, flushed, got, values,
                       ChainVars, HeldVars>>
    BY <1>7 DEF vars, pipeVars, queueVars, writerEnd, readerEnd, ChainVars, HeldVars
  <2>2. ReadPlace' = ReadPlace /\ WritePlace' = WritePlace
    BY <2>1 DEF ReadPlace, WritePlace
  <2>3. Chain(lo, hi, ch)' /\ Pointers(lo, hi, ch)' /\ Stored(lo, hi, ch)' /\ Owned(lo, hi, ch)'
    BY <1>3, <2>1, <2>2, ChainKept, PointersKept, StoredKept, OwnedKept DEF Shape, ChainVars
  <2>4. Progress' /\ TypeOK'
    BY <1>1, <2>1 DEF Progress, TypeOK, QueueTypeOK, ChainVars, HeldVars
  <2> QED BY <2>3, <2>4 DEF PipeInv, Shape
<1> QED BY <1>4, <1>5, <1>6, <1>7 DEF Next, WriterGoesOn, Reader

(***************************************************************************)
(* What PipeInv says of chunks, pointers and items holds at every access   *)
(* of the writer and the reader.                                           *)
(***************************************************************************)
THEOREM Invariance == Spec => []PipeInv
<1>1. Init => PipeInv
  BY InvInit
<1>2. PipeInv /\ [Next]_vars => PipeInv'
  BY InvStep
<1> QED BY <1>1, <1>2, PTL DEF Spec

(***************************************************************************)
(* The variables of queue and pipe always have their types.                *)
(***************************************************************************)
THEOREM Typed == Spec => []TypeOK
<1>1. PipeInv => TypeOK
  BY DEF PipeInv
<1> QED BY <1>1, Invariance, PTL

(***************************************************************************)
(* check_read compares addresses that are used again, and is right.        *)
(***************************************************************************)
THEOREM AddressesTell == Spec => []AddressTellsPlace
<1>1. PipeInv => AddressTellsPlace
  <2> SUFFICES ASSUME PipeInv PROVE AddressTellsPlace
    OBVIOUS
  <2>1. PICK lo \in Nat, hi \in Nat : \E ch \in [0 .. hi -> Chunks] : Shape(lo, hi, ch)
    BY DEF PipeInv
  <2>2. PICK ch \in [0 .. hi -> Chunks] : Shape(lo, hi, ch)
    BY <2>1
  <2> QED BY <2>2, FrontIsC DEF PipeInv, AddressTellsPlace
<1> QED BY <1>1, Invariance, PTL

(***************************************************************************)
(* The plain store of flush overwrites nothing: c is null then and stays   *)
(* null, and nothing flushed is unread.                                    *)
(***************************************************************************)
THEOREM StoreIsSafe == Spec => []NullMeansDrained
<1>1. PipeInv => NullMeansDrained
  BY DEF PipeInv, Progress, NullMeansDrained
<1> QED BY <1>1, Invariance, PTL
-----------------------------------------------------------------------------
(* The chunks one finds from the front by following next.                  *)

FollowsNext(g) ==
  g = [n \in 0 .. Cardinality(heap) |->
         IF n = 0 THEN Chunk(begin)
         ELSE IF g[n - 1] \in {Chunk(end), Null} THEN g[n - 1]
         ELSE next[g[n - 1]]]

LEMMA LinkedFollows ==
  ASSUME NEW g0, FollowsNext(g0)
  PROVE  \E g : FollowsNext(g) /\ Linked = {g[n] : n \in DOMAIN g}
<1>1. PICK g : g = CHOOSE h : FollowsNext(h)
  OBVIOUS
<1>2. FollowsNext(g)
  BY <1>1
<1>3. Linked = {g[n] : n \in DOMAIN g}
  BY <1>1 DEF Linked, FollowsNext
<1> QED BY <1>2, <1>3

(***************************************************************************)
(* Of the lengths of intervals 0 .. n one is the shortest: a set of        *)
(* natural numbers has a least element.                                    *)
(***************************************************************************)
LEMMA LeastNumber ==
  ASSUME NEW S \in SUBSET Nat, S # {}
  PROVE  \E m \in S : \A k \in S : m <= k
<1> DEFINE Upto == {0 .. n : n \in S}
<1>1. Upto \subseteq FiniteSubsetsOf(Nat)
  <2>1. \A n \in Nat : IsFiniteSet(0 .. n)
    BY FS_Interval
  <2> QED BY <2>1 DEF FiniteSubsetsOf
<1>2. Upto # {}
  OBVIOUS
<1>3. IsWellFoundedOn(StrictSubsetOrdering(Nat), FiniteSubsetsOf(Nat))
  BY FS_StrictSubsetOrderingWellFounded
<1> HIDE DEF Upto
<1>4. \E I \in Upto : \A J \in Upto : <<J, I>> \notin StrictSubsetOrdering(Nat)
  BY <1>1, <1>2, <1>3, WFMin
<1>5. PICK m \in S : \A J \in Upto : <<J, 0 .. m>> \notin StrictSubsetOrdering(Nat)
  BY <1>4 DEF Upto
<1>6. ASSUME NEW k \in S, k < m PROVE FALSE
  <2>1. 0 .. k \in Upto
    BY DEF Upto
  <2>2. 0 .. k \subseteq 0 .. m /\ 0 .. k # 0 .. m
    <3>1. m \in 0 .. m /\ m \notin 0 .. k
      BY <1>6
    <3> QED BY <3>1, <1>6
  <2>3. <<0 .. k, 0 .. m>> \in StrictSubsetOrdering(Nat)
    BY <2>2 DEF StrictSubsetOrdering
  <2> QED BY <2>1, <2>3, <1>5
<1> QED BY <1>6

LEMMA OneFollowsNext ==
  ASSUME NEW g, NEW h, FollowsNext(g), FollowsNext(h), Cardinality(heap) \in Nat
  PROVE  g = h
<1> DEFINE K == Cardinality(heap)
           S == {n \in 0 .. K : g[n] # h[n]}
<1>1. ASSUME NEW e, FollowsNext(e)
      PROVE  /\ DOMAIN e = 0 .. K /\ e[0] = Chunk(begin) /\ e = [n \in DOMAIN e |-> e[n]]
             /\ \A n \in 1 .. K :
                  e[n] = IF e[n - 1] \in {Chunk(end), Null} THEN e[n - 1] ELSE next[e[n - 1]]
  <2> DEFINE val(n) == IF n = 0 THEN Chunk(begin)
                       ELSE IF e[n - 1] \in {Chunk(end), Null} THEN e[n - 1]
                       ELSE next[e[n - 1]]
  <2>1. e = [n \in 0 .. K |-> val(n)]
    BY <1>1 DEF FollowsNext
  <2>2. val(0) = Chunk(begin)
    OBVIOUS
  <2>3. \A n \in 1 .. K : val(n) = IF e[n - 1] \in {Chunk(end), Null} THEN e[n - 1]
                                   ELSE next[e[n - 1]]
    OBVIOUS
  <2> HIDE DEF val, K
  <2>4. DOMAIN e = 0 .. K /\ \A n \in 0 .. K : e[n] = val(n)
    BY <2>1
  <2>5. 0 \in 0 .. K /\ \A n \in 1 .. K : n \in 0 .. K
    BY DEF K
  <2> QED BY <2>1, <2>2, <2>3, <2>4, <2>5
<1>2. CASE S = {}
  <2>1. \A n \in 0 .. K : g[n] = h[n]
    BY <1>2
  <2> QED BY <1>1, <2>1
<1>3. CASE S # {}
  <2>1. S \in SUBSET Nat
    OBVIOUS
  <2>2. PICK m \in S : \A n \in S : m <= n
    BY <1>3, <2>1, LeastNumber
  <2>3. m \in 1 .. K
    BY <1>1, <2>2
  <2>4. m - 1 \in 0 .. K /\ m - 1 \notin S
    BY <2>1, <2>2, <2>3
  <2>5. g[m - 1] = h[m - 1]
    BY <2>4
  <2>6. g[m] = h[m]
    BY <1>1, <2>3, <2>5
  <2> QED BY <2>2, <2>6
<1> QED BY <1>2, <1>3

\* A sequence without repetition has as many elements as numbers.
LEMMA ImageSize ==
  ASSUME NEW S, IsFiniteSet(S), NEW e, \A i, j \in S : e[i] = e[j] => i = j
  PROVE  /\ IsFiniteSet({e[i] : i \in S})
         /\ Cardinality({e[i] : i \in S}) = Cardinality(S)
<1> DEFINE T == {e[i] : i \in S}
           h == [i \in S |-> e[i]]
<1>1. h \in [S -> T] /\ \A i \in S : h[i] = e[i]
  OBVIOUS
<1>3. h \in Injection(S, T)
  BY <1>1 DEF Injection, IsInjective
<1>4. h \in Surjection(S, T)
  BY <1>1 DEF Surjection
<1> HIDE DEF T, h
<1>2. IsFiniteSet(T) /\ Cardinality(T) = Cardinality(S)
  BY <1>3, <1>4, FS_Surjection
<1> QED BY <1>2 DEF T

InChain(lo, hi, ch) == {ch[m] : m \in lo .. hi}
HeldAt              == {i \in DOMAIN Held : Held[i] # Null}

LEMMA HeapSize ==
  ASSUME TypeOK, NEW lo, NEW hi, NEW ch, Shape(lo, hi, ch)
  PROVE  /\ heap = InChain(lo, hi, ch) \cup {Held[i] : i \in HeldAt}
         /\ Cardinality(heap) = Cardinality(InChain(lo, hi, ch)) + Cardinality(HeldAt)
         /\ Cardinality(heap) \in Nat /\ hi - lo < Cardinality(heap)
<1> DEFINE held == {i \in DOMAIN Held : Held[i] # Null}
           A == {ch[m] : m \in lo .. hi}
           H == {Held[i] : i \in held}
<1>0. DOMAIN Held = 1 .. 4
  BY DEF Held
<1>1. /\ lo \in Nat /\ hi \in Nat /\ lo <= hi
      /\ \A i, j \in lo .. hi : ch[i] = ch[j] => i = j
  BY DEF Shape, Chain
<1>2. IsFiniteSet(lo .. hi) /\ Cardinality(lo .. hi) = hi - lo + 1
  BY <1>1, FS_Interval
<1>3. IsFiniteSet(A) /\ Cardinality(A) = hi - lo + 1
  BY <1>1, <1>2, ImageSize
<1>4. IsFiniteSet(held) /\ Cardinality(held) \in Nat
  <2>1. IsFiniteSet(1 .. 4)
    <3>1. PICK n \in Nat : n = 4
      OBVIOUS
    <3>2. IsFiniteSet(1 .. n)
      BY FS_Interval
    <3> QED BY <3>1, <3>2, Zenon
  <2>2. IsFiniteSet(held)
    BY <1>0, <2>1, FS_Subset
  <2> QED BY <2>2, FS_CardinalityType
<1>5. \A i, j \in held : Held[i] = Held[j] => i = j
  BY <1>0 DEF Shape, Owned
<1>6. IsFiniteSet(H) /\ Cardinality(H) = Cardinality(held)
  <2> HIDE DEF held
  <2> QED BY <1>4, <1>5, ImageSize
<1>7. heap = A \cup H /\ A \cap H = {}
  BY <1>0 DEF Shape, Owned
<1>8. Cardinality(A \cap H) = 0
  BY <1>7, FS_EmptySet
<1> HIDE DEF held, A, H
<1>9. IsFiniteSet(heap) /\ Cardinality(heap) = Cardinality(A) + Cardinality(held)
  <2>1. /\ IsFiniteSet(A \cup H)
        /\ Cardinality(A \cup H) = Cardinality(A) + Cardinality(H) - Cardinality(A \cap H)
    BY <1>3, <1>6, FS_Union
  <2> QED BY <1>1, <1>3, <1>4, <1>6, <1>7, <1>8, <2>1
<1>10. Cardinality(heap) \in Nat /\ hi - lo < Cardinality(heap)
  BY <1>1, <1>3, <1>4, <1>9
<1> QED BY <1>3, <1>7, <1>9, <1>10 DEF held, A, H, InChain, HeldAt

LEMMA LinkedIsChain ==
  ASSUME TypeOK, NEW lo, NEW hi, NEW ch, Shape(lo, hi, ch)
  PROVE  Linked = {ch[m] : m \in lo .. hi}
<1> DEFINE K == Cardinality(heap)
           g == [n \in 0 .. K |-> IF lo + n <= hi THEN ch[lo + n] ELSE ch[hi]]
<1>1. /\ lo \in Nat /\ hi \in Nat /\ lo <= hi /\ ch \in [0 .. hi -> Chunks]
      /\ \A i, j \in lo .. hi : ch[i] = ch[j] => i = j
      /\ \A j \in lo .. hi : j < hi => next[ch[j]] = ch[j + 1]
      /\ Chunk(begin) = ch[lo] /\ Chunk(end) = ch[hi]
      /\ \A j \in lo .. hi : ch[j] # Null
  BY Types DEF Shape, Chain
<1>2. K \in Nat /\ hi - lo < K
  BY HeapSize
<1> HIDE DEF K
<1>3. \A n \in 0 .. K :
        g[n] = IF n = 0 THEN Chunk(begin)
               ELSE IF g[n - 1] \in {Chunk(end), Null} THEN g[n - 1]
               ELSE next[g[n - 1]]
  <2> SUFFICES ASSUME NEW n \in 1 .. K
               PROVE  g[n] = IF g[n - 1] \in {Chunk(end), Null} THEN g[n - 1]
                             ELSE next[g[n - 1]]
    BY <1>1, <1>2
  <2>1. n - 1 \in 0 .. K /\ n \in 0 .. K /\ hi \in lo .. hi
    BY <1>1, <1>2
  <2>2. CASE lo + n <= hi
    <3> DEFINE j == lo + (n - 1)
    <3>1. j \in lo .. hi /\ j < hi /\ j + 1 = lo + n
      BY <1>1, <2>2
    <3>2. g[n - 1] = ch[j] /\ g[n] = ch[j + 1]
      BY <2>1, <2>2, <3>1
    <3> HIDE DEF j
    <3>3. ch[j] # ch[hi] /\ ch[j] # Null /\ next[ch[j]] = ch[j + 1]
      BY <1>1, <2>1, <3>1
    <3> QED BY <1>1, <3>2, <3>3
  <2>3. CASE ~(lo + n <= hi)
    <3>1. g[n] = ch[hi]
      BY <2>1, <2>3
    <3>2. g[n - 1] = ch[hi]
      <4>1. CASE lo + (n - 1) <= hi
        <5>1. lo + (n - 1) = hi
          BY <1>1, <2>3, <4>1
        <5> QED BY <2>1, <5>1
      <4>2. CASE ~(lo + (n - 1) <= hi)
        BY <2>1, <4>2
      <4> QED BY <4>1, <4>2
    <3> QED BY <1>1, <3>1, <3>2
  <2> QED BY <2>2, <2>3
<1>4. FollowsNext(g)
  <2> DEFINE body == [n \in 0 .. K |->
                        IF n = 0 THEN Chunk(begin)
                        ELSE IF g[n - 1] \in {Chunk(end), Null} THEN g[n - 1]
                        ELSE next[g[n - 1]]]
  <2>1. g = body
    <3>1. g = [n \in 0 .. K |-> g[n]]
      OBVIOUS
    <3> QED BY <1>3, <3>1
  <2> QED BY <2>1 DEF FollowsNext, K
<1>5. PICK h : FollowsNext(h) /\ Linked = {h[n] : n \in DOMAIN h}
  BY <1>4, LinkedFollows
<1>6. h = g
  BY <1>2, <1>4, <1>5, OneFollowsNext DEF K
<1>7. Linked = {g[n] : n \in 0 .. K}
  BY <1>5, <1>6
<1>8. \A n \in 0 .. K : \E m \in lo .. hi : g[n] = ch[m]
  BY <1>1, <1>2
<1>9. \A m \in lo .. hi : m - lo \in 0 .. K /\ g[m - lo] = ch[m]
  <2> SUFFICES ASSUME NEW m \in lo .. hi PROVE m - lo \in 0 .. K /\ g[m - lo] = ch[m]
    OBVIOUS
  <2>1. m - lo \in 0 .. K /\ lo + (m - lo) = m /\ m <= hi
    BY <1>1, <1>2
  <2> QED BY <2>1
<1> HIDE DEF g
<1> QED BY <1>7, <1>8, <1>9

(***************************************************************************)
(* Every chunk that is allocated has exactly one place, whatever the two   *)
(* threads do with spare_chunk: nothing is leaked, freed twice or used     *)
(* after it was freed.                                                     *)
(***************************************************************************)
THEOREM OwnedOnce == Spec => []ChunksOwnedOnce
<1>1. ASSUME PipeInv PROVE ChunksOwnedOnce
  <2>1. PICK lo \in Nat, hi \in Nat : \E ch \in [0 .. hi -> Chunks] : Shape(lo, hi, ch)
    BY <1>1 DEF PipeInv
  <2>2. PICK ch \in [0 .. hi -> Chunks] : Shape(lo, hi, ch)
    BY <2>1
  <2>3. TypeOK
    BY <1>1 DEF PipeInv
  <2>4. Linked = {ch[m] : m \in lo .. hi}
    BY <2>2, <2>3, LinkedIsChain
  <2>6. Chunk(back) \in Linked /\ Chunk(end) \in Linked
    <3>1. hi \in lo .. hi /\ Chunk(end) = ch[hi]
      BY <2>2 DEF Shape, Chain
    <3>2. \E m \in lo .. hi : Chunk(back) = ch[m]
      BY <2>2 DEF Shape, Chain, IsAt, Chunk
    <3> QED BY <2>4, <3>1, <3>2
  <2>7. /\ heap = Linked \cup {Held[i] : i \in HeldAt}
        /\ Cardinality(heap) = Cardinality(Linked) + Cardinality(HeldAt)
    <3>1. Linked = InChain(lo, hi, ch)
      BY <2>4 DEF InChain
    <3> QED BY <2>2, <2>3, <3>1, HeapSize
  <2> QED BY <2>6, <2>7 DEF ChunksOwnedOnce, HeldAt
<1> QED BY <1>1, Invariance, PTL
-----------------------------------------------------------------------------
(* The promise of Fifo, without its fairness.                              *)

LEMMA InsideAfter ==
  ASSUME NEW a \in Nat, NEW b \in Nat, a <= b
  PROVE  LET inside(n, m) == [i \in 1 .. m - n |-> n + i]
         IN  /\ inside(a, b + 1) = Append(inside(a, b), b + 1)
             /\ a < b => /\ inside(a, b) # <<>> /\ Head(inside(a, b)) = a + 1
                         /\ inside(a + 1, b) = Tail(inside(a, b))
             /\ Len(inside(a, b)) = b - a
<1> DEFINE inside(n, m) == [i \in 1 .. m - n |-> n + i]
<1>1. PICK k \in Nat : k = b - a
  BY a <= b
<1>2. inside(a, b) \in Seq(Nat) /\ Len(inside(a, b)) = k
  BY <1>1
<1>3. inside(a, b + 1) = Append(inside(a, b), b + 1)
  <2>1. b + 1 - a = k + 1
    BY <1>1
  <2>2. inside(a, b + 1) \in Seq(Nat) /\ Len(inside(a, b + 1)) = k + 1
    BY <2>1
  <2>3. Append(inside(a, b), b + 1) \in Seq(Nat) /\ Len(Append(inside(a, b), b + 1)) = k + 1
    BY <1>2
  <2>4. \A i \in 1 .. k + 1 : inside(a, b + 1)[i] = Append(inside(a, b), b + 1)[i]
    <3> SUFFICES ASSUME NEW i \in 1 .. k + 1
                 PROVE  Append(inside(a, b), b + 1)[i] = a + i
      BY <2>1
    <3>1. CASE i = k + 1
      BY <1>1, <1>2, <3>1
    <3>2. CASE i \in 1 .. k
      <4>1. inside(a, b)[i] = a + i
        BY <1>1, <3>2
      <4> HIDE DEF inside
      <4> QED BY <1>2, <3>2, <4>1
    <3>3. i = k + 1 \/ i \in 1 .. k
      BY <1>1
    <3> QED BY <3>1, <3>2, <3>3
  <2> HIDE DEF inside
  <2> QED BY <2>2, <2>3, <2>4
<1>4. ASSUME a < b
      PROVE  /\ inside(a, b) # <<>> /\ Head(inside(a, b)) = a + 1
             /\ inside(a + 1, b) = Tail(inside(a, b))
  <2>1. k > 0 /\ b - (a + 1) = k - 1 /\ k - 1 \in Nat
    BY <1>1, <1>4
  <2>2. inside(a, b) # <<>> /\ Head(inside(a, b)) = a + 1
    BY <1>1, <1>2, <2>1
  <2>3. inside(a + 1, b) \in Seq(Nat) /\ Len(inside(a + 1, b)) = k - 1
    BY <2>1
  <2>4. /\ Tail(inside(a, b)) \in Seq(Nat) /\ Len(Tail(inside(a, b))) = k - 1
        /\ \A i \in 1 .. k - 1 : Tail(inside(a, b))[i] = inside(a, b)[i + 1]
    <3> HIDE DEF inside
    <3> QED BY <1>2, <2>1, <2>2
  <2>5. \A i \in 1 .. k - 1 : inside(a + 1, b)[i] = Tail(inside(a, b))[i]
    BY <1>1, <2>1, <2>4
  <2> HIDE DEF inside
  <2> QED BY <2>2, <2>3, <2>4, <2>5
<1> QED BY <1>1, <1>2, <1>3, <1>4

Inside == [i \in 1 .. written - Len(got) |-> Len(got) + i]

LEMMA FifoStep ==
  ASSUME PipeInv, [Next]_vars
  PROVE  [Promise!Next]_<<Inside, got>>
<1>1. TypeOK /\ Progress
  BY DEF PipeInv
<1>2. PICK lo \in Nat, hi \in Nat : \E ch \in [0 .. hi -> Chunks] : Shape(lo, hi, ch)
  BY DEF PipeInv
<1>3. PICK ch \in [0 .. hi -> Chunks] : Shape(lo, hi, ch)
  BY <1>2
<1>4. /\ got \in Seq(Nat) /\ Len(got) \in Nat /\ written \in Nat /\ flushed \in Nat
  BY <1>1, Types
<1>5. Len(got) <= written /\ flushed <= written
  <2>1. flushed = written \/ flushed = written - 1
    BY <1>1 DEF Progress
  <2>2. Len(got) <= flushed
    <3>1. CASE rpc = "pop"
      BY <1>1, <1>4, <3>1 DEF Progress
    <3>2. CASE rpc # "pop"
      <4>1. Len(got) \in 0 .. flushed
        BY <1>1, <3>2 DEF Progress
      <4> QED BY <1>4, <4>1
    <3> QED BY <3>1, <3>2
  <2> QED BY <1>4, <2>1, <2>2
<1>6. CASE Write
  <2>1. written < MaxItems /\ written' = written + 1 /\ got' = got
    BY <1>6 DEF Write
  <2>2. Len(Inside) = written - Len(got) /\ Inside' = Append(Inside, written + 1)
    BY <1>4, <1>5, <2>1, InsideAfter DEF Inside
  <2>3. Len(got) + Len(Inside) + 1 = written + 1 /\ written + 1 <= MaxItems
    BY <1>4, <2>1, <2>2, MaxItemsAssumption
  <2>4. Promise!Put
    BY <2>1, <2>2, <2>3 DEF Promise!Put, Inside
  <2> QED BY <2>4 DEF Promise!Next
<1>7. CASE Read
  <2>1. /\ Len(got) < flushed /\ Front = Len(got) + 1
        /\ got' = Append(got, Front) /\ written' = written
    BY <1>1, <1>3, <1>7, FrontItem DEF Read
  <2>2. Len(got') = Len(got) + 1 /\ Len(got) < written
    BY <1>4, <1>5, <2>1
  <2>3. Inside # <<>> /\ Head(Inside) = Len(got) + 1 /\ Inside' = Tail(Inside)
    <3>1. PICK a \in Nat, b \in Nat : a = Len(got) /\ b = written
      BY <1>4
    <3>2. /\ [i \in 1 .. b - a |-> a + i] # <<>> /\ Head([i \in 1 .. b - a |-> a + i]) = a + 1
          /\ [i \in 1 .. b - (a + 1) |-> a + 1 + i] = Tail([i \in 1 .. b - a |-> a + i])
      BY <1>5, <2>2, <3>1, InsideAfter
    <3>3. Inside = [i \in 1 .. b - a |-> a + i]
      BY <3>1 DEF Inside
    <3>4. Inside' = [i \in 1 .. b - (a + 1) |-> a + 1 + i]
      BY <2>1, <2>2, <3>1 DEF Inside
    <3> QED BY <3>1, <3>2, <3>3, <3>4
  <2>4. Promise!Take
    BY <2>1, <2>3 DEF Promise!Take, Inside
  <2> QED BY <2>4 DEF Promise!Next
<1>8. CASE UNCHANGED <<written, got>>
  BY <1>8 DEF Inside
<1>9. CASE Push \/ PushExchange \/ PushLink \/ Mark \/ Flush \/ FlushFails \/ FlushSet
  BY <1>8, <1>9 DEF Push, PushExchange, PushLink, Mark, Flush, FlushFails, FlushSet
<1>10. CASE Prefetch \/ Pop \/ PopSpare \/ PopFree \/ UNCHANGED vars
  BY <1>8, <1>10 DEF Prefetch, Pop, PopSpare, PopFree, vars, pipeVars
<1> QED BY <1>6, <1>7, <1>9, <1>10 DEF Next, WriterGoesOn, Reader

(***************************************************************************)
(* The items come out in the order in which they went in, each once,       *)
(* whatever the interleaving and wherever malloc places chunks.            *)
(***************************************************************************)
THEOREM KeepsOrder == Spec => Promise!Init /\ [][Promise!Next]_(Promise!fifoVars)
<1>1. Init => Promise!Init
  <2> SUFFICES ASSUME Init PROVE Promise!Init
    OBVIOUS
  <2>1. got = <<>> /\ written = 0
    BY DEF Init
  <2>2. Inside = <<>>
    BY <2>1 DEF Inside
  <2> QED BY <2>1, <2>2 DEF Promise!Init, Inside
<1>2. PipeInv /\ [Next]_vars => [Promise!Next]_(Promise!fifoVars)
  BY FifoStep DEF Promise!fifoVars, Inside
<1> QED BY <1>1, <1>2, Invariance, PTL DEF Spec
=============================================================================
