------------------------------- MODULE YPipe --------------------------------
(***************************************************************************)
(* ypipe_t (ypipe.hpp) as the servers use it: the event loop thread writes *)
(* a complete item and flushes it, the parser thread polls read.  The      *)
(* contention between them is the atomic pointer c: "past the last flushed *)
(* item", or null when the reader has found nothing.  ypipe_t takes a      *)
(* reader that found nothing to be asleep; this one comes back at once.    *)
(*                                                                         *)
(* A step ends where the other thread can see a difference: a store, an    *)
(* atomic operation, malloc and free.                                      *)
(***************************************************************************)
EXTENDS YQueue

CONSTANT MaxItems   \* bound: how many items are written

ASSUME MaxItemsAssumption == MaxItems \in Nat

VARIABLES
  c,        \* past the last flushed item, or Null
  w,        \* the first unflushed item, writer's
  f,        \* the first item not to be flushed, writer's
  r,        \* the first item not prefetched, reader's
  wpc,      \* where the writer is
  rpc,      \* where the reader is
  written,  \* history: how many items were stored
  flushed,  \* history: how many items the reader may see
  got       \* history: the items read, in order

pipeVars == <<c, w, f, r, wpc, rpc, written, flushed, got>>
vars == <<queueVars, pipeVars>>

Init ==
  /\ QueueInit
  /\ c = back /\ w = back /\ f = back /\ r = back
  /\ wpc = "idle" /\ rpc = "idle"
  /\ written = 0 /\ flushed = 0 /\ got = <<>>

-----------------------------------------------------------------------------
(* The event loop: write (data, false), flush ().                          *)

WriterGoto(from, to) == wpc = from /\ wpc' = to

Write ==
  /\ written < MaxItems
  /\ WriterGoto("idle", "push")
  /\ StoreBack(written + 1)
  /\ written' = written + 1
  /\ UNCHANGED <<c, w, f, r, rpc, flushed, got>>

Push ==
  /\ WriterGoto("push", IF ChunkFull THEN "exchange" ELSE "mark")
  /\ AdvanceBack
  /\ UNCHANGED <<c, w, f, r, rpc, written, flushed, got>>

PushExchange ==
  /\ WriterGoto("exchange", "link")
  /\ ExchangeSpare
  /\ UNCHANGED <<c, w, f, r, rpc, written, flushed, got>>

PushLink ==
  /\ WriterGoto("link", "mark")
  /\ LinkSpare \/ LinkNew
  /\ UNCHANGED <<c, w, f, r, rpc, written, flushed, got>>

\* &queue.back (), the terminator behind the item that was written.
FlushPointEnd == end
FlushPoint    == back

\* The end of write: f = &queue.back ().
Mark ==
  /\ WriterGoto("mark", "flush")
  /\ f' = FlushPoint
  /\ UNCHANGED <<queueVars, c, w, r, rpc, written, flushed, got>>

\* flush, c.cas (w, f) == w: the reader has not found the pipe empty.  After a
\* write there is something to flush: w # f.
Flush ==
  /\ WriterGoto("flush", "idle")
  /\ c = w
  /\ c' = f
  /\ w' = f
  /\ flushed' = written
  /\ UNCHANGED <<queueVars, f, r, rpc, written, got>>

\* flush, c.cas (w, f) != w.
FlushFails ==
  /\ WriterGoto("flush", "set")
  /\ c # w
  /\ UNCHANGED <<queueVars, c, w, f, r, rpc, written, flushed, got>>

\* w after c.set (f).
WAfterSetStale == w
WAfterSet      == f

\* c.set (f), which is not a compare-and-swap.
FlushSet ==
  /\ WriterGoto("set", "idle")
  /\ c' = f
  /\ w' = WAfterSet
  /\ flushed' = written
  /\ UNCHANGED <<queueVars, f, r, rpc, written, got>>

-----------------------------------------------------------------------------
(* The parser: read (&data) in an endless loop.                            *)

\* check_read: was the value prefetched already?
PrefetchedUnchecked == begin # r
Prefetched          == begin # r /\ r # Null

\* check_read, c.cas (&queue.front (), NULL).
CasFrontAlways == Null
CasFront       == IF c = begin THEN Null ELSE c

Prefetch ==
  /\ rpc = "idle"
  /\ ~Prefetched
  /\ r' = c
  /\ c' = CasFront
  /\ UNCHANGED <<queueVars, w, f, wpc, rpc, written, flushed, got>>

Read ==
  /\ rpc = "idle"
  /\ Prefetched
  /\ got' = Append(got, Front)
  /\ rpc' = "pop"
  /\ UNCHANGED <<queueVars, c, w, f, r, wpc, written, flushed>>

Pop ==
  /\ rpc = "pop"
  /\ IF ChunkEmpty THEN PopChunk /\ rpc' = "spare"
                   ELSE PopSlot /\ rpc' = "idle"
  /\ UNCHANGED <<c, w, f, r, wpc, written, flushed, got>>

PopSpare ==
  /\ rpc = "spare"
  /\ ReplaceSpare
  /\ rpc' = "free"
  /\ UNCHANGED <<c, w, f, r, wpc, written, flushed, got>>

PopFree ==
  /\ rpc = "free"
  /\ FreeOld
  /\ rpc' = "idle"
  /\ UNCHANGED <<c, w, f, r, wpc, written, flushed, got>>

-----------------------------------------------------------------------------
WriterGoesOn ==
  \/ Push
  \/ PushExchange
  \/ PushLink
  \/ Mark
  \/ Flush
  \/ FlushFails
  \/ FlushSet

Reader ==
  \/ Prefetch
  \/ Read
  \/ Pop
  \/ PopSpare
  \/ PopFree

Next == Write \/ WriterGoesOn \/ Reader

Spec == Init /\ [][Next]_vars

\* A write that has begun goes on, and the parser's loop never rests.
FairSpec == Spec /\ WF_vars(WriterGoesOn) /\ WF_vars(Reader)

-----------------------------------------------------------------------------
TypeOK ==
  /\ QueueTypeOK
  /\ {c, r} \subseteq Addresses \cup {Null}
  /\ {w, f} \subseteq Addresses
  /\ wpc \in {"idle", "push", "exchange", "link", "mark", "flush", "set"}
  /\ rpc \in {"idle", "pop", "spare", "free"}
  /\ written \in Nat /\ flushed \in Nat
  /\ got \in Seq(Nat)

(***************************************************************************)
(* Every chunk that is allocated has exactly one place: in the queue, as   *)
(* the spare, or in the hands of one thread that passes it on.  So nothing *)
(* is leaked, freed twice or used after free, although the two threads     *)
(* exchange chunks through spare_chunk without a lock (yqueue.hpp:112,     *)
(* yqueue.hpp:168).                                                        *)
(***************************************************************************)
ChunksOwnedOnce ==
  LET held == {i \in DOMAIN Held : Held[i] # Null}
  IN  /\ heap = Linked \cup {Held[i] : i \in held}
      /\ Cardinality(heap) = Cardinality(Linked) + Cardinality(held)
      /\ Chunk(back) \in Linked /\ Chunk(end) \in Linked

(***************************************************************************)
(* check_read compares addresses, and addresses are used again.  Still     *)
(* equal addresses mean that everything flushed has been read              *)
(* (ypipe.hpp:136).                                                        *)
(***************************************************************************)
AddressTellsPlace ==
  rpc = "idle" /\ c # Null => (c = begin <=> Len(got) = flushed)

(***************************************************************************)
(* flush sets c without a compare-and-swap when it takes the reader to be  *)
(* asleep (ypipe.hpp:109-114).  The parser is not asleep, it goes on       *)
(* polling; but while the writer is there c stays null and nothing flushed *)
(* is unread, so the plain store overwrites nothing.                       *)
(***************************************************************************)
NullMeansDrained ==
  /\ wpc = "set" => c = Null
  /\ c = Null => Len(got) = flushed

(***************************************************************************)
(* "During pipe's lifetime r should never be NULL" (ypipe.hpp:139).        *)
(***************************************************************************)
PrefetchNeverNull == r # Null

(***************************************************************************)
(* The pipe is a FIFO that loses nothing, whatever the interleaving of     *)
(* event loop and parser and wherever malloc places chunks; and what was   *)
(* written arrives, although the event loop ignores the result of flush,   *)
(* which asks it to wake the reader up (protocol.cpp:94-95).               *)
(***************************************************************************)
Promise == INSTANCE Fifo WITH
  taken  <- got,
  inside <- [i \in 1 .. written - Len(got) |-> Len(got) + i]

ImplementsFifo == Promise!Spec
=============================================================================
