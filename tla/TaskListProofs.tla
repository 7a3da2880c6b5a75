--------------------------- MODULE TaskListProofs ---------------------------
(***************************************************************************)
(* Proofs about TaskList, for every number of nodes, tasks and sends.  The *)
(* list is a ring: ch[0] is the header, and next leads from each ch[j] to  *)
(* the one after it.  An append and an erase change the ring by one store  *)
(* each; the other store, to prev, may still be to come.                   *)
(***************************************************************************)
EXTENDS TaskList, FiniteSetTheorems, WellFoundedInduction, TLAPS

-----------------------------------------------------------------------------
(* The invariant.                                                          *)

\* The places that have ever been handed out with a task in them.
Known == {Head} \cup {m \in Nodes : data[m] \in added}

TypeInv ==
  /\ TypeOK
  /\ \A x \in Places : next[x] \in Known /\ prev[x] \in Known
  /\ new \in Known /\ last \in Known /\ iter \in Known
  /\ cur \in Known /\ nn \in Known /\ pp \in Known
  /\ \A m \in heap : data[m] \in added
  /\ \A l, m \in heap : data[l] = data[m] => l = m
  /\ dpc \in {"run", "step", "step2", "erase"} => cur # Head
  /\ dpc \in {"unhook", "unhook2", "free"} => iter # Head
  /\ apc = "idle" <=> new = Head

\* The place behind ch[j].
After(n, ch, j) == IF j < n THEN ch[j + 1] ELSE Head

Ring(n, ch) ==
  /\ n \in Nat /\ ch \in [0 .. n -> Places]
  /\ ch[0] = Head
  /\ \A i, j \in 0 .. n : ch[i] = ch[j] => i = j
  /\ \A j \in 0 .. n : next[ch[j]] = After(n, ch, j)
  /\ \A j \in 0 .. n : ~Pending(After(n, ch, j)) => prev[After(n, ch, j)] = ch[j]
  /\ Members = {ch[j] : j \in 1 .. n}

\* An append goes behind the last node.
Appending(n, ch) ==
  /\ apc = "link" => /\ new \in heap /\ last = ch[n]
                     /\ next[new] = Head /\ prev[new] = last
  /\ apc = "close" => new = ch[n]

\* An erase knows the neighbours, and the last node is not erased meanwhile.
Erasing(n, ch) ==
  /\ dpc = "unhook" => \E k \in 1 .. n : /\ iter = ch[k] /\ pp = ch[k - 1]
                                         /\ nn = After(n, ch, k)
  /\ dpc = "unhook2" => \E k \in 0 .. n : pp = ch[k] /\ nn = After(n, ch, k)
  /\ dpc \in {"unhook", "unhook2"} /\ nn = Head => apc = "idle"
  /\ dpc \in {"unhook", "unhook2", "free"} => iter \in heap /\ iter # new

\* The iterators are in the list.
Iterators(n, ch) ==
  dpc \notin {"unhook2", "free"} =>
    iter \in {ch[j] : j \in 0 .. n} /\ cur \in {ch[j] : j \in 0 .. n}

ListInv(n, ch) == Ring(n, ch) /\ Appending(n, ch) /\ Erasing(n, ch) /\ Iterators(n, ch)

\* As long as iter is where the loop is, what has ended is being erased.
EndInv ==
  /\ dpc # "aborted"
  /\ dpc \in {"run", "step", "erase"} => iter = cur
  /\ erased \subseteq ended
  /\ \A m \in heap :
       data[m] \in ended => m = iter /\ dpc \in {"erase", "unhook", "unhook2", "free"}
  /\ dpc \in {"erase", "unhook", "unhook2", "free"} => data[iter] \in ended

TaskInv ==
  /\ TypeInv
  /\ ~collided => \E n \in Nat : \E ch \in [0 .. n -> Places] : ListInv(n, ch)
  /\ ~collided /\ ~lagged => EndInv
-----------------------------------------------------------------------------
(* Types.                                                                  *)

LEMMA Types ==
  ASSUME TypeInv
  PROVE  /\ rereads \in BOOLEAN /\ lagged \in BOOLEAN /\ collided \in BOOLEAN
         /\ next \in [Places -> Places] /\ prev \in [Places -> Places]
         /\ heap \subseteq Nodes /\ Head \notin heap
         /\ data \in [Nodes -> Tasks] /\ left \in [Tasks -> 1 .. Sends]
         /\ new \in Places /\ last \in Places /\ iter \in Places
         /\ cur \in Places /\ nn \in Places /\ pp \in Places
         /\ added \subseteq Tasks /\ ended \subseteq added /\ erased \subseteq added
         /\ Known \subseteq Places
<1>1. TypeOK
  BY DEF TypeInv
<1>2. lagged \in BOOLEAN /\ collided \in BOOLEAN
  BY <1>1, Zenon DEF TypeOK
<1>3. next \in [Places -> Places] /\ prev \in [Places -> Places]
  BY <1>1, Zenon DEF TypeOK
<1>4. /\ new \in Places /\ last \in Places /\ iter \in Places
      /\ cur \in Places /\ nn \in Places /\ pp \in Places
  BY <1>1 DEF TypeOK
<1>5. Known \subseteq Places
  BY DEF Known, Places
<1> QED BY <1>1, <1>2, <1>3, <1>4, <1>5, HeadAssumption DEF TypeOK

\* The types of the next state, one variable at a time.
LEMMA TypeFrom ==
  ASSUME rereads' \in BOOLEAN, lagged' \in BOOLEAN, collided' \in BOOLEAN,
         next' \in [Places -> Places], prev' \in [Places -> Places],
         heap' \subseteq Nodes, data' \in [Nodes -> Tasks],
         left' \in [Tasks -> 1 .. Sends],
         apc' \in {"idle", "link", "close"},
         dpc' \in {"begin", "empty", "range", "run", "step", "step2", "erase",
                   "unhook", "unhook2", "free", "hung", "aborted"},
         new' \in Places, last' \in Places, iter' \in Places,
         cur' \in Places, nn' \in Places, pp' \in Places,
         added' \subseteq Tasks, ended' \subseteq added', erased' \subseteq added'
  PROVE  TypeOK'
<1>1. {lagged', collided'} \subseteq BOOLEAN
  BY Zenon
<1>2. {next', prev'} \subseteq [Places -> Places]
  BY Zenon
<1>3. {new', last', iter', cur', nn', pp'} \subseteq Places
  OBVIOUS
<1>4. Places' = Places
  BY DEF Places
<1> QED BY <1>1, <1>2, <1>3, <1>4 DEF TypeOK

LEMMA AppendTypes ==
  ASSUME TypeInv, NEW t \in Tasks, Append(t)
  PROVE  TypeInv'
<1>1. PICK n \in Nodes \ heap :
        /\ new' = n /\ heap' = heap \cup {n}
        /\ data' = [data EXCEPT ![n] = t]
        /\ next' = [next EXCEPT ![n] = Head]
        /\ prev' = [prev EXCEPT ![n] = prev[Head]]
  BY DEF Append
<1>2. /\ t \notin added /\ added' = added \cup {t} /\ last' = prev[Head]
      /\ apc' = "link" /\ apc = "idle" /\ collided' = (collided \/ ErasingLast)
      /\ UNCHANGED <<rereads, left, dpc, iter, cur, nn, pp, ended, erased, lagged>>
  BY DEF Append, loop
<1>3. n \in Places /\ Head \in Places /\ n # Head
  BY HeadAssumption DEF Places
<1>4. Known \subseteq Known' /\ n \in Known' /\ Head \in Known
  BY <1>1, <1>2, Types DEF Known
<1>5. TypeOK'
  <2>1. collided' \in BOOLEAN
    BY <1>2, Types, Zenon DEF ErasingLast
  <2>2. next' \in [Places -> Places] /\ prev' \in [Places -> Places]
    BY <1>1, <1>3, Types
  <2>3. heap' \subseteq Nodes /\ data' \in [Nodes -> Tasks]
    BY <1>1, Types
  <2>4. added' \subseteq Tasks /\ ended' \subseteq added' /\ erased' \subseteq added'
    BY <1>2, Types
  <2>5. new' \in Places /\ last' \in Places
    BY <1>1, <1>2, <1>3, Types
  <2>6. dpc' = dpc /\ iter' \in Places /\ cur' \in Places /\ nn' \in Places /\ pp' \in Places
    BY <1>2, Types
  <2>7. rereads' \in BOOLEAN /\ lagged' \in BOOLEAN /\ left' \in [Tasks -> 1 .. Sends]
    BY <1>2, Types
  <2> QED BY <1>2, <2>1, <2>2, <2>3, <2>4, <2>5, <2>6, <2>7, TypeFrom DEF TypeInv, TypeOK
<1>6. \A x \in Places : next'[x] \in Known' /\ prev'[x] \in Known'
  BY <1>1, <1>3, <1>4, Types DEF TypeInv
<1>7. /\ new' \in Known' /\ last' \in Known' /\ iter' \in Known'
      /\ cur' \in Known' /\ nn' \in Known' /\ pp' \in Known'
  BY <1>1, <1>2, <1>3, <1>4 DEF TypeInv
<1>8. \A m \in heap' : data'[m] \in added'
  BY <1>1, <1>2, Types DEF TypeInv
<1>9. \A l, m \in heap' : data'[l] = data'[m] => l = m
  BY <1>1, <1>2, Types DEF TypeInv
<1>10. Places' = Places
  BY DEF Places
<1> QED BY <1>1, <1>2, <1>3, <1>5, <1>6, <1>7, <1>8, <1>9, <1>10 DEF TypeInv

\* A store of one pointer.
LEMMA StoreTypes ==
  ASSUME TypeInv, Link \/ Close \/ Unhook \/ Unhook2
  PROVE  TypeInv'
<1>1. /\ UNCHANGED <<rereads, heap, data, left, added, iter, cur, nn, pp>>
      /\ UNCHANGED <<ended, erased, lagged, collided>>
  BY DEF Link, Close, Unhook, Unhook2, parser, loop, history
<1>2. Known' = Known /\ Places' = Places /\ Head \in Known
  BY <1>1 DEF Known, Places
<1>3. /\ next' \in [Places -> Places] /\ \A x \in Places : next'[x] \in Known
      /\ prev' \in [Places -> Places] /\ \A x \in Places : prev'[x] \in Known
  <2>1. CASE Link
    BY <2>1, Types DEF Link, TypeInv
  <2>2. CASE Close
    BY <2>2, Types DEF Close, LastAfterAppend, TypeInv
  <2>3. CASE Unhook
    BY <2>3, Types DEF Unhook, TypeInv
  <2>4. CASE Unhook2
    BY <2>4, Types DEF Unhook2, TypeInv
  <2> QED BY <2>1, <2>2, <2>3, <2>4
<1>4. new' \in Known /\ last' \in Known
  BY <1>2 DEF Link, Close, Unhook, Unhook2, parser, TypeInv
<1>5. /\ apc' \in {"idle", "link", "close"}
      /\ apc' = "idle" <=> new' = Head
  <2>1. CASE Link
    BY <2>1 DEF Link, TypeInv
  <2>2. CASE Close
    BY <2>2 DEF Close
  <2>3. CASE Unhook \/ Unhook2
    <3>1. apc' = apc /\ new' = new
      BY <2>3 DEF Unhook, Unhook2, parser
    <3> QED BY <3>1 DEF TypeInv, TypeOK
  <2> QED BY <2>1, <2>2, <2>3
<1>6. \/ dpc' = dpc
      \/ dpc = "unhook" /\ dpc' = "unhook2"
      \/ dpc = "unhook2" /\ dpc' = "free"
  BY DEF Link, Close, Unhook, Unhook2, loop, Goto
<1>7. dpc' \in {"begin", "empty", "range", "run", "step", "step2", "erase",
                "unhook", "unhook2", "free", "hung", "aborted"}
  BY <1>6 DEF TypeInv, TypeOK
<1>8. TypeOK'
  <2>1. new' \in Places /\ last' \in Places
    BY <1>4, Types
  <2>2. /\ rereads' \in BOOLEAN /\ lagged' \in BOOLEAN /\ collided' \in BOOLEAN
        /\ heap' \subseteq Nodes /\ data' \in [Nodes -> Tasks]
        /\ left' \in [Tasks -> 1 .. Sends]
        /\ iter' \in Places /\ cur' \in Places /\ nn' \in Places /\ pp' \in Places
        /\ added' \subseteq Tasks /\ ended' \subseteq added' /\ erased' \subseteq added'
    BY <1>1, Types
  <2> QED BY <1>3, <1>5, <1>7, <2>1, <2>2, TypeFrom
<1>9. /\ dpc' \in {"run", "step", "step2", "erase"} => cur' # Head
      /\ dpc' \in {"unhook", "unhook2", "free"} => iter' # Head
  BY <1>1, <1>6 DEF TypeInv
<1> QED BY <1>1, <1>2, <1>3, <1>4, <1>5, <1>8, <1>9 DEF TypeInv

\* A step of the downloader that leaves the list alone.
LEMMA MoveTypes ==
  ASSUME TypeInv, UnchangedList,
         left' \in [Tasks -> 1 .. Sends], lagged' \in BOOLEAN, collided' \in BOOLEAN,
         dpc' \in {"begin", "empty", "range", "run", "step", "step2", "erase",
                   "unhook", "unhook2", "free", "hung", "aborted"},
         iter' \in Known, cur' \in Known, nn' \in Known, pp' \in Known,
         ended' \subseteq added, erased' = erased,
         dpc' \in {"run", "step", "step2", "erase"} => cur' # Head,
         dpc' \in {"unhook", "unhook2", "free"} => iter' # Head
  PROVE  TypeInv'
<1>1. UNCHANGED <<rereads, next, prev, heap, data, apc, new, last, added>>
  BY DEF UnchangedList, links, parser
<1>2. Known' = Known /\ Places' = Places
  BY <1>1 DEF Known, Places
<1>3. TypeOK'
  <2>1. iter' \in Places /\ cur' \in Places /\ nn' \in Places /\ pp' \in Places
    BY Types
  <2>2. apc' \in {"idle", "link", "close"}
    BY <1>1 DEF TypeInv, TypeOK
  <2> QED BY <1>1, <2>1, <2>2, Types, TypeFrom
<1>4. /\ \A x \in Places : next'[x] \in Known /\ prev'[x] \in Known
      /\ new' \in Known /\ last' \in Known
      /\ \A m \in heap' : data'[m] \in added'
      /\ \A l, m \in heap' : data'[l] = data'[m] => l = m
      /\ apc' = "idle" <=> new' = Head
  BY <1>1 DEF TypeInv
<1> QED BY <1>1, <1>2, <1>3, <1>4 DEF TypeInv

\* What the downloader reads or holds is known.
LEMMA ReadKnown ==
  ASSUME TypeInv
  PROVE  /\ Head \in Known /\ next[Head] \in Known
         /\ next[cur] \in Known /\ next[iter] \in Known /\ prev[iter] \in Known
         /\ iter \in Known /\ cur \in Known /\ nn \in Known /\ pp \in Known
         /\ cur # Head => cur \in Nodes /\ data[cur] \in added
         /\ iter # Head => iter \in Nodes /\ data[iter] \in added
<1>1. Head \in Places
  BY DEF Places
<1> QED BY <1>1, Types DEF TypeInv, Known, Places

LEMMA ReachTypes ==
  ASSUME TypeInv, UnchangedList, UNCHANGED <<left, nn, pp, ended, erased, collided>>,
         NEW x \in Known, Reach(x), iter' \in Known
  PROVE  TypeInv'
<1>1. lagged' \in BOOLEAN
  BY Types, Zenon DEF Reach
<1>2. cur' = x /\ dpc' \in {"begin", "run"} /\ (dpc' = "run" => x # Head)
  BY DEF Reach
<1>3. /\ left' \in [Tasks -> 1 .. Sends] /\ collided' \in BOOLEAN
      /\ nn' \in Known /\ pp' \in Known /\ ended' \subseteq added /\ erased' = erased
  BY Types, ReadKnown
<1> QED BY <1>1, <1>2, <1>3, MoveTypes

\* The steps of the loop.
LEMMA LoopTypes ==
  ASSUME TypeInv,
         \/ Begin \/ Empty \/ RangeFor \/ BeginOnce \/ RunAgain \/ RunEnds
         \/ StepIter \/ StepLoop \/ StepOnce
  PROVE  TypeInv'
<1>1. UnchangedList /\ nn' = nn /\ pp' = pp /\ erased' = erased /\ collided' = collided
  BY DEF Begin, Empty, RangeFor, BeginOnce, RunAgain, RunEnds, StepIter, StepLoop,
         StepOnce, history
<1>2. CASE RangeFor \/ StepLoop \/ StepOnce
  <2>1. UNCHANGED <<left, nn, pp, ended, erased, collided>>
    BY <1>2 DEF RangeFor, StepLoop, StepOnce
  <2>2. iter' \in Known /\ (Reach(next[Head]) \/ Reach(next[cur]))
    BY <1>2, ReadKnown DEF RangeFor, StepLoop, StepOnce
  <2> QED BY <1>1, <2>1, <2>2, ReadKnown, ReachTypes
<1>3. CASE Begin \/ Empty \/ BeginOnce \/ StepIter
  <2>1. left' = left /\ ended' = ended /\ lagged' = lagged
    BY <1>3 DEF Begin, Empty, BeginOnce, StepIter, history
  <2>2. iter' \in Known /\ cur' \in Known
    BY <1>3, ReadKnown DEF Begin, Empty, BeginOnce, StepIter
  <2>3. /\ dpc' \in {"empty", "begin", "range", "hung", "run", "step2"}
        /\ dpc' = "run" => cur' # Head
        /\ dpc' = "step2" => cur' = cur /\ dpc = "step"
    BY <1>3 DEF Begin, Empty, BeginOnce, StepIter, Goto
  <2>4. dpc' \in {"run", "step", "step2", "erase"} => cur' # Head
    BY <2>3 DEF TypeInv
  <2> QED BY <1>1, <2>1, <2>2, <2>3, <2>4, Types, ReadKnown, MoveTypes
<1>4. CASE RunAgain
  <2>1. /\ left' = [left EXCEPT ![data[cur]] = @ - 1] /\ left[data[cur]] > 1
        /\ dpc = "run" /\ dpc' = "step"
        /\ UNCHANGED <<iter, cur, ended, lagged>>
    BY <1>4 DEF RunAgain, MoreToSend, Goto, history
  <2>2. cur # Head
    BY <2>1 DEF TypeInv
  <2>3. data[cur] \in Tasks
    BY <2>2, ReadKnown, Types
  <2>4. left' \in [Tasks -> 1 .. Sends]
    <3>1. PICK b : b = data[cur]
      OBVIOUS
    <3>2. left[b] \in 1 .. Sends /\ left[b] > 1 /\ Sends \in Nat
      BY <2>1, <2>3, <3>1, Types, SendsAssumption
    <3>3. left[b] - 1 \in 1 .. Sends
      BY <3>2
    <3> QED BY <2>1, <3>1, <3>3, Types
  <2> QED BY <1>1, <2>1, <2>2, <2>4, Types, ReadKnown, MoveTypes
<1>5. CASE RunEnds
  <2>1. /\ ended' = ended \cup {data[cur]} /\ dpc = "run" /\ dpc' = "erase"
        /\ UNCHANGED <<left, iter, cur, lagged>>
    BY <1>5 DEF RunEnds, Goto
  <2>2. cur # Head
    BY <2>1 DEF TypeInv
  <2>3. ended' \subseteq added
    BY <2>1, <2>2, ReadKnown, Types
  <2> QED BY <1>1, <2>1, <2>2, <2>3, Types, ReadKnown, MoveTypes
<1> QED BY <1>2, <1>3, <1>4, <1>5

LEMMA EraseTypes ==
  ASSUME TypeInv, Erase \/ EraseEnd \/ Free
  PROVE  TypeInv'
<1>1. CASE Erase
  <2>1. /\ UnchangedList /\ dpc' = "unhook" /\ iter # Head /\ iter' = iter
        /\ nn' = next[iter] /\ pp' = prev[iter]
        /\ collided' = (collided \/ (apc # "idle" /\ next[iter] = Head))
        /\ UNCHANGED <<left, cur, ended, erased, lagged>>
    BY <1>1 DEF Erase, ErasedNode, Goto
  <2>2. collided' \in BOOLEAN
    BY <2>1, Types, Zenon
  <2> QED BY <2>1, <2>2, Types, ReadKnown, MoveTypes
<1>2. CASE EraseEnd
  <2>1. /\ UnchangedList /\ dpc' = "aborted"
        /\ UNCHANGED <<left, iter, cur, nn, pp, ended, erased, lagged, collided>>
    BY <1>2 DEF EraseEnd, Goto, history
  <2> QED BY <2>1, Types, ReadKnown, MoveTypes
<1>3. CASE Free
  <2>1. /\ dpc = "free" /\ dpc' = "begin" /\ heap' = heap \ {iter}
        /\ erased' = erased \cup {data[iter]}
        /\ iter' = Head /\ cur' = Head /\ nn' = Head /\ pp' = Head
        /\ UNCHANGED <<rereads, next, prev, data, left, apc, new, last, added>>
        /\ UNCHANGED <<ended, lagged, collided>>
    BY <1>3 DEF Free, Goto, links, parser
  <2>2. iter # Head
    BY <2>1 DEF TypeInv
  <2>3. Known' = Known /\ Places' = Places /\ Head \in Places
    BY <2>1 DEF Known, Places
  <2>4. erased' \subseteq added
    BY <2>1, <2>2, ReadKnown, Types
  <2>5. TypeOK'
    <3>1. apc' \in {"idle", "link", "close"}
      BY <2>1 DEF TypeInv, TypeOK
    <3> QED BY <2>1, <2>3, <2>4, <3>1, Types, TypeFrom
  <2>6. /\ \A x \in Places : next'[x] \in Known /\ prev'[x] \in Known
        /\ new' \in Known /\ last' \in Known
        /\ \A m \in heap' : data'[m] \in added'
        /\ \A l, m \in heap' : data'[l] = data'[m] => l = m
        /\ apc' = "idle" <=> new' = Head
    BY <2>1 DEF TypeInv
  <2> QED BY <2>1, <2>3, <2>5, <2>6, ReadKnown DEF TypeInv
<1> QED BY <1>1, <1>2, <1>3
-----------------------------------------------------------------------------
(* The ring.                                                               *)

LEMMA RingPlaces ==
  ASSUME TypeInv, NEW n, NEW ch, Ring(n, ch)
  PROVE  /\ n \in Nat /\ 0 \in 0 .. n /\ n \in 0 .. n
         /\ \A j \in 1 .. n : ch[j] \in Members /\ ch[j] \in heap /\ ch[j] # Head
         /\ \A x \in {ch[j] : j \in 0 .. n} :
              /\ x \in Places /\ next[x] \in {ch[j] : j \in 0 .. n}
              /\ x # Head => x \in Members /\ x \in heap
         /\ \A j \in 0 .. n : After(n, ch, j) \in {ch[i] : i \in 0 .. n}
<1>1. n \in Nat /\ 0 \in 0 .. n /\ n \in 0 .. n
  BY DEF Ring
<1>2. \A j \in 1 .. n : ch[j] \in Members /\ ch[j] \in heap /\ ch[j] # Head
  BY Types DEF Ring, Members
<1>3. \A j \in 0 .. n : After(n, ch, j) \in {ch[i] : i \in 0 .. n}
  <2> SUFFICES ASSUME NEW j \in 0 .. n
               PROVE  After(n, ch, j) \in {ch[i] : i \in 0 .. n}
    OBVIOUS
  <2>1. CASE j < n
    <3>1. j + 1 \in 0 .. n
      BY <1>1, <2>1
    <3> QED BY <2>1, <3>1 DEF After
  <2>2. CASE ~(j < n)
    BY <1>1, <2>2 DEF After, Ring
  <2> QED BY <2>1, <2>2
<1>4. \A j \in 0 .. n : j = 0 \/ j \in 1 .. n
  BY <1>1
<1>5. ch[0] = Head /\ (\A j \in 0 .. n : ch[j] \in Places /\ next[ch[j]] = After(n, ch, j))
  BY DEF Ring
<1> QED BY <1>1, <1>2, <1>3, <1>4, <1>5

\* Two places are not before the same one.
LEMMA AfterOnce ==
  ASSUME NEW n, NEW ch, Ring(n, ch), NEW i \in 0 .. n, NEW j \in 0 .. n,
         After(n, ch, i) = After(n, ch, j)
  PROVE  i = j
<1>1. /\ n \in Nat /\ ch[0] = Head
      /\ \A k, l \in 0 .. n : ch[k] = ch[l] => k = l
  BY DEF Ring
<1>2. \A k \in 0 .. n : k < n => k + 1 \in 0 .. n /\ k + 1 # 0 /\ After(n, ch, k) = ch[k + 1]
  BY <1>1 DEF After
<1>3. \A k \in 0 .. n : k < n => After(n, ch, k) # Head
  <2> SUFFICES ASSUME NEW k \in 0 .. n, k < n PROVE After(n, ch, k) # Head
    OBVIOUS
  <2>1. k + 1 \in 0 .. n /\ k + 1 # 0 /\ After(n, ch, k) = ch[k + 1]
    BY <1>2
  <2>2. 0 \in 0 .. n
    BY <1>1
  <2> QED BY <1>1, <2>1, <2>2
<1>4. \A k \in 0 .. n : ~(k < n) => k = n /\ After(n, ch, k) = Head
  BY <1>1 DEF After
<1>5. CASE i < n /\ j < n
  <2>1. ch[i + 1] = ch[j + 1] /\ i + 1 \in 0 .. n /\ j + 1 \in 0 .. n
    BY <1>2, <1>5
  <2>2. i + 1 = j + 1
    BY <1>1, <2>1
  <2> QED BY <1>1, <2>2
<1>6. CASE ~(i < n /\ j < n)
  BY <1>3, <1>4, <1>6
<1> QED BY <1>5, <1>6

\* The last place, and where it is.
LEMMA LastPlace ==
  ASSUME NEW n, NEW ch, Ring(n, ch), NEW k \in 0 .. n
  PROVE  /\ k = n <=> After(n, ch, k) = Head
         /\ k < n => After(n, ch, k) = ch[k + 1]
<1>1. n \in Nat /\ n \in 0 .. n
  BY DEF Ring
<1>2. After(n, ch, n) = Head /\ (k < n => After(n, ch, k) = ch[k + 1])
  BY <1>1 DEF After
<1> QED BY <1>1, <1>2, AfterOnce

\* A step that leaves list and node alone, and stays out of the erase.
LEMMA MoveKeeps ==
  ASSUME NEW n, NEW ch, ListInv(n, ch), UnchangedList,
         dpc \notin {"unhook", "unhook2", "free"},
         dpc' \notin {"unhook", "unhook2", "free"},
         iter' \in {ch[j] : j \in 0 .. n}, cur' \in {ch[j] : j \in 0 .. n}
  PROVE  ListInv(n, ch)'
<1>1. UNCHANGED <<next, prev, heap, apc, new, last>>
  BY DEF UnchangedList, links, parser
<1>2. Members' = Members /\ Places' = Places
  BY <1>1 DEF Members, Places
<1>3. \A x : Pending(x)' <=> Pending(x)
  BY <1>1 DEF Pending
<1>4. \A j : After(n, ch, j)' = After(n, ch, j)
  BY DEF After
<1>5. Ring(n, ch)'
  BY <1>1, <1>2, <1>3, <1>4 DEF ListInv, Ring
<1>6. Appending(n, ch)'
  BY <1>1 DEF ListInv, Appending
<1>7. Erasing(n, ch)' /\ Iterators(n, ch)'
  BY DEF Erasing, Iterators
<1> QED BY <1>5, <1>6, <1>7 DEF ListInv

LEMMA LoopKeeps ==
  ASSUME TypeInv, NEW n, NEW ch, ListInv(n, ch),
         \/ Begin \/ Empty \/ RangeFor \/ BeginOnce \/ RunAgain \/ RunEnds
         \/ StepIter \/ StepLoop \/ StepOnce
  PROVE  ListInv(n, ch)'
<1>1. UnchangedList
  BY DEF Begin, Empty, RangeFor, BeginOnce, RunAgain, RunEnds, StepIter, StepLoop, StepOnce
<1>2. /\ dpc \in {"begin", "empty", "range", "run", "step", "step2"}
      /\ dpc' \in {"begin", "empty", "range", "run", "step", "step2", "erase", "hung"}
  BY DEF Begin, Empty, RangeFor, BeginOnce, RunAgain, RunEnds, StepIter, StepLoop,
         StepOnce, Goto, Reach
<1>3. /\ iter' \in {iter, next[Head], next[iter], next[cur]}
      /\ cur' \in {cur, next[Head], next[cur]}
  BY DEF Begin, Empty, RangeFor, BeginOnce, RunAgain, RunEnds, StepIter, StepLoop,
         StepOnce, Reach
<1>4. iter \in {ch[j] : j \in 0 .. n} /\ cur \in {ch[j] : j \in 0 .. n}
  BY <1>2 DEF ListInv, Iterators
<1>5. Head \in {ch[j] : j \in 0 .. n}
  <2>1. 0 \in 0 .. n /\ ch[0] = Head
    BY RingPlaces DEF ListInv, Ring
  <2> QED BY <2>1
<1>6. \A x \in {ch[j] : j \in 0 .. n} : next[x] \in {ch[j] : j \in 0 .. n}
  BY RingPlaces DEF ListInv
<1> QED BY <1>1, <1>2, <1>3, <1>4, <1>5, <1>6, MoveKeeps

LEMMA AbortKeeps ==
  ASSUME NEW n, NEW ch, ListInv(n, ch), EraseEnd
  PROVE  ListInv(n, ch)'
<1>1. /\ UnchangedList /\ dpc = "erase" /\ dpc' = "aborted" /\ iter' = iter /\ cur' = cur
  BY DEF EraseEnd, Goto
<1>2. iter \in {ch[j] : j \in 0 .. n} /\ cur \in {ch[j] : j \in 0 .. n}
  BY <1>1 DEF ListInv, Iterators
<1> QED BY <1>1, <1>2, MoveKeeps

LEMMA AppendKeeps ==
  ASSUME TypeInv, NEW n, NEW ch, ListInv(n, ch), NEW t \in Tasks, Append(t), ~collided'
  PROVE  ListInv(n, ch)'
<1>1. PICK m \in Nodes \ heap :
        /\ new' = m /\ heap' = heap \cup {m}
        /\ next' = [next EXCEPT ![m] = Head]
        /\ prev' = [prev EXCEPT ![m] = prev[Head]]
  BY DEF Append
<1>2. /\ last' = prev[Head] /\ apc = "idle" /\ apc' = "link" /\ ~ErasingLast
      /\ UNCHANGED <<dpc, iter, cur, nn, pp>>
  BY DEF Append, loop
<1>3. m # Head /\ m \in Places /\ (\A j \in 0 .. n : ch[j] # m /\ ch[j] \in Places)
  <2>1. m # Head /\ m \in Places
    BY HeadAssumption DEF Places
  <2>2. \A j \in 0 .. n : ch[j] = Head \/ ch[j] \in heap
    BY RingPlaces DEF ListInv
  <2> QED BY <2>1, <2>2, RingPlaces DEF ListInv
<1>4. \A x \in Places : x # m => next'[x] = next[x] /\ prev'[x] = prev[x]
  BY <1>1, Types
<1>5. next'[m] = Head /\ prev'[m] = prev[Head]
  BY <1>1, <1>3, Types
<1>6. Members' = Members
  BY <1>1, <1>2 DEF Members
<1>7. \A x : Pending(x)' <=> Pending(x)
  BY <1>2 DEF Pending
<1>8. \A j : After(n, ch, j)' = After(n, ch, j)
  BY DEF After
<1>9. \A j \in 0 .. n : After(n, ch, j) # m /\ After(n, ch, j) \in Places
  BY <1>3, RingPlaces DEF ListInv
<1>10. Ring(n, ch)'
  <2>1. /\ n \in Nat /\ ch \in [0 .. n -> Places'] /\ ch[0] = Head
        /\ \A i, j \in 0 .. n : ch[i] = ch[j] => i = j
    BY DEF ListInv, Ring, Places
  <2>2. \A j \in 0 .. n : next'[ch[j]] = After(n, ch, j)
    BY <1>3, <1>4 DEF ListInv, Ring
  <2>3. \A j \in 0 .. n : ~Pending(After(n, ch, j)) => prev'[After(n, ch, j)] = ch[j]
    BY <1>4, <1>9 DEF ListInv, Ring
  <2>4. Members' = {ch[j] : j \in 1 .. n}
    BY <1>6 DEF ListInv, Ring
  <2> QED BY <1>7, <1>8, <2>1, <2>2, <2>3, <2>4 DEF Ring
<1>11. Appending(n, ch)'
  <2>1. After(n, ch, n) = Head /\ n \in 0 .. n
    BY RingPlaces, LastPlace DEF ListInv
  <2>2. ~Pending(Head)
    BY <1>2 DEF Pending, ErasingLast
  <2>3. prev[Head] = ch[n]
    BY <2>1, <2>2 DEF ListInv, Ring
  <2> QED BY <1>1, <1>2, <1>5, <2>3 DEF Appending
<1>12. Erasing(n, ch)'
  <2>1. dpc = "unhook" => \E k \in 1 .. n : /\ iter = ch[k] /\ pp = ch[k - 1]
                                            /\ nn = After(n, ch, k)
    BY DEF ListInv, Erasing
  <2>2. dpc = "unhook2" => \E k \in 0 .. n : pp = ch[k] /\ nn = After(n, ch, k)
    BY DEF ListInv, Erasing
  <2>3. dpc \in {"unhook", "unhook2"} => nn # Head
    BY <1>2 DEF ErasingLast
  <2>4. dpc \in {"unhook", "unhook2", "free"} => iter \in heap' /\ iter # m
    BY <1>1 DEF ListInv, Erasing
  <2> QED BY <1>1, <1>2, <1>8, <2>1, <2>2, <2>3, <2>4 DEF Erasing
<1>13. Iterators(n, ch)'
  BY <1>2 DEF ListInv, Iterators
<1> QED BY <1>10, <1>11, <1>12, <1>13 DEF ListInv

\* The node behind the last one of the ring.
Longer(n, ch, x) == [j \in 0 .. n + 1 |-> IF j \in 0 .. n THEN ch[j] ELSE x]

LEMMA LongerRing ==
  ASSUME NEW n \in Nat, NEW ch \in [0 .. n -> Places], NEW x \in Places
  PROVE  /\ Longer(n, ch, x) \in [0 .. n + 1 -> Places]
         /\ \A j \in 0 .. n : Longer(n, ch, x)[j] = ch[j]
         /\ Longer(n, ch, x)[n + 1] = x
         /\ \A j \in 0 .. n - 1 : After(n + 1, Longer(n, ch, x), j) = After(n, ch, j)
         /\ After(n + 1, Longer(n, ch, x), n) = x
         /\ After(n + 1, Longer(n, ch, x), n + 1) = Head
<1> DEFINE ch2 == Longer(n, ch, x)
<1>1. ch2 \in [0 .. n + 1 -> Places]
  BY DEF Longer
<1>2. \A j \in 0 .. n : ch2[j] = ch[j]
  BY DEF Longer
<1>3. ch2[n + 1] = x
  BY DEF Longer
<1> HIDE DEF ch2
<1>4. \A j \in 0 .. n - 1 : After(n + 1, ch2, j) = After(n, ch, j)
  BY <1>2 DEF After
<1>5. After(n + 1, ch2, n) = x /\ After(n + 1, ch2, n + 1) = Head
  BY <1>3 DEF After
<1> QED BY <1>1, <1>2, <1>3, <1>4, <1>5 DEF ch2

LEMMA LinkKeeps ==
  ASSUME TypeInv, NEW n, NEW ch, ListInv(n, ch), Link
  PROVE  ListInv(n + 1, Longer(n, ch, new))'
<1>1. /\ apc = "link" /\ apc' = "close" /\ next' = [next EXCEPT ![last] = new]
      /\ UNCHANGED <<prev, heap, new, last, dpc, iter, cur, nn, pp>>
  BY DEF Link, loop
<1>2. new \in heap /\ last = ch[n] /\ next[new] = Head /\ prev[new] = last /\ new # Head
  BY <1>1 DEF ListInv, Appending, TypeInv
<1>3. /\ n \in Nat /\ ch \in [0 .. n -> Places] /\ ch[0] = Head
      /\ \A i, j \in 0 .. n : ch[i] = ch[j] => i = j
      /\ \A j \in 0 .. n : next[ch[j]] = After(n, ch, j)
      /\ \A j \in 0 .. n : ~Pending(After(n, ch, j)) => prev[After(n, ch, j)] = ch[j]
      /\ Members = {ch[j] : j \in 1 .. n}
  BY DEF ListInv, Ring
<1>4. \A j \in 0 .. n : ch[j] # new /\ ch[j] \in Places
  <2>1. \A j \in 0 .. n : ch[j] = Head \/ ch[j] \in Members
    BY RingPlaces DEF ListInv
  <2>2. new \notin Members
    BY <1>1 DEF Members
  <2> QED BY <1>2, <1>3, <2>1, <2>2
<1> DEFINE c == Longer(n, ch, new)
<1>5. PICK d : d = c
  OBVIOUS
<1>6. new \in Places
  BY Types
<1>7. /\ d \in [0 .. n + 1 -> Places] /\ d[n + 1] = new /\ d[0] = Head
      /\ \A j \in 0 .. n : d[j] = ch[j]
      /\ \A j \in 0 .. n - 1 : After(n + 1, d, j) = After(n, ch, j)
      /\ After(n + 1, d, n) = new /\ After(n + 1, d, n + 1) = Head
  <2>1. 0 \in 0 .. n
    BY <1>3
  <2>2. /\ c \in [0 .. n + 1 -> Places]
        /\ \A j \in 0 .. n : c[j] = ch[j]
        /\ c[n + 1] = new
        /\ \A j \in 0 .. n - 1 : After(n + 1, c, j) = After(n, ch, j)
        /\ After(n + 1, c, n) = new
        /\ After(n + 1, c, n + 1) = Head
    <3>1. n \in Nat /\ ch \in [0 .. n -> Places]
      BY <1>3
    <3> QED BY ONLY <3>1, <1>6, LongerRing, Zenon
  <2> HIDE DEF c
  <2> QED BY <1>3, <1>5, <2>1, <2>2
<1>8. c' = d
  <2>1. new' = new
    BY <1>1
  <2> QED BY <1>5, <2>1 DEF Longer
<1> HIDE DEF c
<1>9. \A j \in 0 .. n + 1 : j \in 0 .. n - 1 \/ j = n \/ j = n + 1
  BY <1>3
<1>10. \A j \in 0 .. n - 1 : j \in 0 .. n /\ ch[j] # ch[n] /\ After(n, ch, j) # Head
  <2>1. n \in 0 .. n /\ \A j \in 0 .. n - 1 : j \in 0 .. n /\ j # n
    BY <1>3
  <2> QED BY <1>3, <2>1, LastPlace DEF ListInv
<1>11. \A x : x # Head => (Pending(x)' <=> Pending(x))
  BY <1>1 DEF Pending
<1>12. \A j : After(n + 1, d, j)' = After(n + 1, d, j)
  BY DEF After
<1>13. next'[ch[n]] = new /\ \A x \in Places : x # ch[n] => next'[x] = next[x]
  <2>1. ch[n] \in Places
    BY <1>3
  <2> QED BY <1>1, <1>2, <2>1, Types
<1>14. Ring(n + 1, d)'
  <2>1. /\ n + 1 \in Nat /\ d \in [0 .. n + 1 -> Places'] /\ d[0] = Head
    BY <1>3, <1>7 DEF Places
  <2>2. \A i, j \in 0 .. n + 1 : d[i] = d[j] => i = j
    <3>1. \A j \in 0 .. n + 1 : j \in 0 .. n \/ j = n + 1
      BY <1>3
    <3> QED BY <1>3, <1>4, <1>7, <3>1
  <2>3. \A j \in 0 .. n + 1 : next'[d[j]] = After(n + 1, d, j)
    <3>1. \A j \in 0 .. n - 1 : next'[d[j]] = After(n + 1, d, j)
      BY <1>3, <1>4, <1>7, <1>10, <1>13
    <3>2. next'[d[n]] = After(n + 1, d, n)
      BY <1>3, <1>7, <1>13
    <3>3. next'[d[n + 1]] = After(n + 1, d, n + 1)
      <4>1. new # ch[n]
        BY <1>3, <1>4
      <4> QED BY <1>2, <1>6, <1>7, <1>13, <4>1
    <3> QED BY <1>9, <3>1, <3>2, <3>3
  <2>4. \A j \in 0 .. n + 1 : ~Pending(After(n + 1, d, j))' => prev'[After(n + 1, d, j)] = d[j]
    <3>1. \A j \in 0 .. n - 1 : ~Pending(After(n + 1, d, j))' => prev'[After(n + 1, d, j)] = d[j]
      BY <1>1, <1>3, <1>7, <1>10, <1>11, <1>12
    <3>2. prev'[After(n + 1, d, n)] = d[n]
      BY <1>1, <1>2, <1>3, <1>7
    <3>3. Pending(After(n + 1, d, n + 1))'
      BY <1>1, <1>7, <1>12 DEF Pending
    <3> QED BY <1>9, <3>1, <3>2, <3>3
  <2>5. Members' = {d[j] : j \in 1 .. n + 1}
    <3>1. Members' = Members \cup {new}
      <4>1. dpc \in {"unhook2", "free"} => iter # new
        BY DEF ListInv, Erasing
      <4> QED BY <1>1, <1>2, <4>1 DEF Members
    <3>2. \A j \in 1 .. n + 1 : (j \in 1 .. n /\ d[j] = ch[j]) \/ (j = n + 1 /\ d[j] = new)
      BY <1>3, <1>7
    <3>3. n + 1 \in 1 .. n + 1 /\ \A j \in 1 .. n : j \in 1 .. n + 1 /\ d[j] = ch[j]
      BY <1>3, <1>7
    <3> QED BY <1>3, <1>7, <3>1, <3>2, <3>3
  <2> QED BY <1>12, <2>1, <2>2, <2>3, <2>4, <2>5 DEF Ring
<1>15. Appending(n + 1, d)'
  BY <1>1, <1>7 DEF Appending
<1>16. Erasing(n + 1, d)'
  <2>1. dpc \in {"unhook", "unhook2"} => nn # Head
    BY <1>1 DEF ListInv, Erasing
  <2>2. \A k \in 0 .. n : After(n, ch, k) # Head => k \in 0 .. n - 1
    <3>1. \A k \in 0 .. n : k # n => k \in 0 .. n - 1
      BY <1>3
    <3> QED BY <3>1, LastPlace DEF ListInv
  <2>3. dpc = "unhook" => \E k \in 1 .. n + 1 : /\ iter = d[k] /\ pp = d[k - 1]
                                                /\ nn = After(n + 1, d, k)
    <3> SUFFICES ASSUME dpc = "unhook"
                 PROVE  \E k \in 1 .. n + 1 : /\ iter = d[k] /\ pp = d[k - 1]
                                              /\ nn = After(n + 1, d, k)
      OBVIOUS
    <3>1. PICK k \in 1 .. n : iter = ch[k] /\ pp = ch[k - 1] /\ nn = After(n, ch, k)
      BY DEF ListInv, Erasing
    <3>2. k \in 0 .. n /\ k - 1 \in 0 .. n /\ k \in 1 .. n + 1
      BY <1>3
    <3>3. k \in 0 .. n - 1
      BY <2>1, <2>2, <3>1, <3>2
    <3> QED BY <1>7, <3>1, <3>2, <3>3
  <2>4. dpc = "unhook2" => \E k \in 0 .. n + 1 : pp = d[k] /\ nn = After(n + 1, d, k)
    <3> SUFFICES ASSUME dpc = "unhook2"
                 PROVE  \E k \in 0 .. n + 1 : pp = d[k] /\ nn = After(n + 1, d, k)
      OBVIOUS
    <3>1. PICK k \in 0 .. n : pp = ch[k] /\ nn = After(n, ch, k)
      BY DEF ListInv, Erasing
    <3>2. k \in 0 .. n - 1 /\ k \in 0 .. n + 1
      BY <1>3, <2>1, <2>2, <3>1
    <3> QED BY <1>7, <3>1, <3>2
  <2>5. dpc \in {"unhook", "unhook2", "free"} => iter \in heap /\ iter # new
    BY DEF ListInv, Erasing
  <2> QED BY <1>1, <1>12, <2>1, <2>3, <2>4, <2>5 DEF Erasing
<1>17. Iterators(n + 1, d)'
  <2>1. \A j \in 0 .. n : j \in 0 .. n + 1 /\ d[j] = ch[j]
    BY <1>3, <1>7
  <2>2. \A x \in {ch[j] : j \in 0 .. n} : x \in {d[j] : j \in 0 .. n + 1}
    BY <2>1
  <2> QED BY <1>1, <2>2 DEF ListInv, Iterators
<1>18. ListInv(n + 1, d)'
  BY <1>14, <1>15, <1>16, <1>17 DEF ListInv
<1>19. ListInv(n + 1, c)' <=> ListInv(n + 1, d)'
  BY <1>8 DEF ListInv, Ring, Appending, Erasing, Iterators, After
<1> QED BY <1>18, <1>19 DEF c

LEMMA CloseKeeps ==
  ASSUME TypeInv, NEW n, NEW ch, ListInv(n, ch), Close
  PROVE  ListInv(n, ch)'
<1>1. /\ apc = "close" /\ apc' = "idle" /\ prev' = [prev EXCEPT ![Head] = new]
      /\ new' = Head
      /\ UNCHANGED <<next, heap, dpc, iter, cur, nn, pp>>
  BY DEF Close, LastAfterAppend, loop
<1>2. new = ch[n]
  BY <1>1 DEF ListInv, Appending
<1>3. Head \in Places /\ Head \notin heap
  BY Types DEF Places
<1>4. prev'[Head] = new /\ \A x \in Places : x # Head => prev'[x] = prev[x]
  BY <1>1, <1>3, Types
<1>5. Members' = Members
  BY <1>1, <1>3 DEF Members
<1>6. \A x : x # Head => (Pending(x)' <=> Pending(x))
  BY <1>1 DEF Pending
<1>7. \A j : After(n, ch, j)' = After(n, ch, j)
  BY DEF After
<1>8. Ring(n, ch)'
  <2>1. /\ n \in Nat /\ ch \in [0 .. n -> Places'] /\ ch[0] = Head
        /\ \A i, j \in 0 .. n : ch[i] = ch[j] => i = j
        /\ \A j \in 0 .. n : next[ch[j]] = After(n, ch, j)
        /\ Members' = {ch[j] : j \in 1 .. n}
    BY <1>5 DEF ListInv, Ring, Places
  <2>2. \A j \in 0 .. n : ~Pending(After(n, ch, j))' => prev'[After(n, ch, j)] = ch[j]
    <3> SUFFICES ASSUME NEW j \in 0 .. n, ~Pending(After(n, ch, j))'
                 PROVE  prev'[After(n, ch, j)] = ch[j]
      OBVIOUS
    <3>1. CASE After(n, ch, j) = Head
      <4>1. j = n
        BY <3>1, LastPlace DEF ListInv
      <4> QED BY <1>2, <1>4, <3>1, <4>1
    <3>2. CASE After(n, ch, j) # Head
      <4>1. After(n, ch, j) \in Places
        BY RingPlaces DEF ListInv
      <4>2. ~Pending(After(n, ch, j))
        BY <1>6, <1>7, <3>2
      <4> QED BY <1>4, <3>2, <4>1, <4>2 DEF ListInv, Ring
    <3> QED BY <3>1, <3>2
  <2> QED BY <1>1, <1>7, <2>1, <2>2 DEF Ring
<1>9. Appending(n, ch)'
  BY <1>1 DEF Appending
<1>10. Erasing(n, ch)'
  <2>1. dpc \in {"unhook", "unhook2", "free"} => iter \in heap /\ iter # Head
    BY <1>3 DEF ListInv, Erasing
  <2>2. /\ dpc = "unhook" => \E k \in 1 .. n : /\ iter = ch[k] /\ pp = ch[k - 1]
                                               /\ nn = After(n, ch, k)
        /\ dpc = "unhook2" => \E k \in 0 .. n : pp = ch[k] /\ nn = After(n, ch, k)
    BY DEF ListInv, Erasing
  <2> QED BY <1>1, <1>7, <2>1, <2>2 DEF Erasing
<1>11. Iterators(n, ch)'
  BY <1>1 DEF ListInv, Iterators
<1> QED BY <1>8, <1>9, <1>10, <1>11 DEF ListInv

LEMMA EraseKeeps ==
  ASSUME TypeInv, NEW n, NEW ch, ListInv(n, ch), Erase, ~collided'
  PROVE  ListInv(n, ch)'
<1>1. /\ dpc = "erase" /\ dpc' = "unhook" /\ iter # Head /\ iter' = iter
      /\ nn' = next[iter] /\ pp' = prev[iter]
      /\ ~(apc # "idle" /\ next[iter] = Head)
      /\ UNCHANGED <<next, prev, heap, apc, new, last, cur>>
  BY DEF Erase, ErasedNode, Goto, UnchangedList, links, parser
<1>2. /\ n \in Nat /\ ch[0] = Head
      /\ \A j \in 0 .. n : next[ch[j]] = After(n, ch, j)
      /\ \A j \in 0 .. n : ~Pending(After(n, ch, j)) => prev[After(n, ch, j)] = ch[j]
      /\ Members = {ch[j] : j \in 1 .. n}
  BY DEF ListInv, Ring
<1>3. PICK k \in 0 .. n : iter = ch[k]
  BY <1>1 DEF ListInv, Iterators
<1>4. k \in 1 .. n /\ k - 1 \in 0 .. n /\ k - 1 < n /\ (k - 1) + 1 = k
  BY <1>1, <1>2, <1>3
<1>5. next[iter] = After(n, ch, k)
  BY <1>2, <1>3
<1>6. prev[iter] = ch[k - 1]
  <2>1. After(n, ch, k - 1) = iter
    BY <1>3, <1>4 DEF After
  <2>2. ~Pending(iter)
    BY <1>1 DEF Pending
  <2> QED BY <1>2, <1>4, <2>1, <2>2
<1>7. iter \in heap /\ iter # new
  <2>1. iter \in Members
    BY <1>2, <1>3, <1>4
  <2>2. apc \in {"idle", "link", "close"}
    BY DEF TypeInv, TypeOK
  <2>3. CASE apc = "idle"
    BY <1>1, <2>1, <2>3 DEF TypeInv, Members
  <2>4. CASE apc = "link"
    BY <2>1, <2>4 DEF Members
  <2>5. CASE apc = "close"
    <3>1. new = ch[n] /\ n \in 0 .. n
      BY <1>2, <2>5 DEF ListInv, Appending
    <3>2. next[new] = Head
      BY <1>2, <3>1, LastPlace DEF ListInv
    <3> QED BY <1>1, <2>1, <2>5, <3>2 DEF Members
  <2> QED BY <2>2, <2>3, <2>4, <2>5
<1>8. Members' = Members
  BY <1>1 DEF Members
<1>9. \A x : Pending(x)' <=> Pending(x)
  BY <1>1 DEF Pending
<1>10. \A j : After(n, ch, j)' = After(n, ch, j)
  BY DEF After
<1>11. Ring(n, ch)'
  BY <1>1, <1>8, <1>9, <1>10 DEF ListInv, Ring, Places
<1>12. Appending(n, ch)'
  BY <1>1 DEF ListInv, Appending
<1>13. Erasing(n, ch)'
  BY <1>1, <1>3, <1>4, <1>5, <1>6, <1>7, <1>10 DEF Erasing
<1>14. Iterators(n, ch)'
  BY <1>1 DEF ListInv, Iterators
<1> QED BY <1>11, <1>12, <1>13, <1>14 DEF ListInv

LEMMA Unhook2Keeps ==
  ASSUME TypeInv, NEW n, NEW ch, ListInv(n, ch), Unhook2
  PROVE  ListInv(n, ch)'
<1>1. /\ dpc = "unhook2" /\ dpc' = "free" /\ prev' = [prev EXCEPT ![nn] = pp]
      /\ UNCHANGED <<next, heap, apc, new, last, iter, cur, nn, pp>>
  BY DEF Unhook2, Goto, parser
<1>2. PICK k \in 0 .. n : pp = ch[k] /\ nn = After(n, ch, k)
  BY <1>1 DEF ListInv, Erasing
<1>3. prev'[nn] = pp /\ \A x \in Places : x # nn => prev'[x] = prev[x]
  BY <1>1, Types
<1>4. Members' = Members
  BY <1>1 DEF Members
<1>5. \A x : x # nn => (Pending(x)' <=> Pending(x))
  BY <1>1 DEF Pending
<1>6. \A j : After(n, ch, j)' = After(n, ch, j)
  BY DEF After
<1>7. \A j \in 0 .. n : After(n, ch, j) \in Places
  BY RingPlaces DEF ListInv
<1>8. Ring(n, ch)'
  <2>1. /\ n \in Nat /\ ch \in [0 .. n -> Places'] /\ ch[0] = Head
        /\ \A i, j \in 0 .. n : ch[i] = ch[j] => i = j
        /\ \A j \in 0 .. n : next[ch[j]] = After(n, ch, j)
        /\ Members' = {ch[j] : j \in 1 .. n}
    BY <1>4 DEF ListInv, Ring, Places
  <2>2. \A j \in 0 .. n : ~Pending(After(n, ch, j))' => prev'[After(n, ch, j)] = ch[j]
    <3> SUFFICES ASSUME NEW j \in 0 .. n, ~Pending(After(n, ch, j))'
                 PROVE  prev'[After(n, ch, j)] = ch[j]
      OBVIOUS
    <3>1. CASE After(n, ch, j) = nn
      <4>1. j = k
        BY <1>2, <3>1, AfterOnce DEF ListInv
      <4> QED BY <1>2, <1>3, <3>1, <4>1
    <3>2. CASE After(n, ch, j) # nn
      <4>1. ~Pending(After(n, ch, j))
        BY <1>5, <1>6, <3>2
      <4> QED BY <1>3, <1>7, <3>2, <4>1 DEF ListInv, Ring
    <3> QED BY <3>1, <3>2
  <2> QED BY <1>1, <1>6, <2>1, <2>2 DEF Ring
<1>9. Appending(n, ch)'
  <2>1. apc = "link" => new # nn
    <3>1. \A x \in {ch[j] : j \in 0 .. n} : x = Head \/ x \in Members
      BY RingPlaces DEF ListInv
    <3>2. nn \in {ch[j] : j \in 0 .. n}
      BY <1>2, RingPlaces DEF ListInv
    <3>3. apc = "link" => new # Head /\ new \notin Members
      BY DEF TypeInv, Members
    <3> QED BY <3>1, <3>2, <3>3
  <2> QED BY <1>1, <1>3, <2>1, Types DEF ListInv, Appending
<1>10. Erasing(n, ch)'
  BY <1>1 DEF ListInv, Erasing
<1>11. Iterators(n, ch)'
  BY <1>1 DEF Iterators
<1> QED BY <1>8, <1>9, <1>10, <1>11 DEF ListInv

LEMMA FreeKeeps ==
  ASSUME TypeInv, NEW n, NEW ch, ListInv(n, ch), Free
  PROVE  ListInv(n, ch)'
<1>1. /\ dpc = "free" /\ dpc' = "begin" /\ heap' = heap \ {iter}
      /\ iter' = Head /\ cur' = Head
      /\ UNCHANGED <<next, prev, apc, new, last>>
  BY DEF Free, Goto, links, parser
<1>2. iter \in heap /\ iter # new
  BY <1>1 DEF ListInv, Erasing
<1>3. Members' = Members
  BY <1>1, Types DEF Members
<1>4. \A x : Pending(x)' <=> Pending(x)
  BY <1>1 DEF Pending
<1>5. \A j : After(n, ch, j)' = After(n, ch, j)
  BY DEF After
<1>6. Ring(n, ch)'
  BY <1>1, <1>3, <1>4, <1>5 DEF ListInv, Ring, Places
<1>7. Appending(n, ch)'
  BY <1>1, <1>2 DEF ListInv, Appending
<1>8. Erasing(n, ch)'
  BY <1>1 DEF Erasing
<1>9. Iterators(n, ch)'
  <2>1. 0 \in 0 .. n /\ ch[0] = Head
    BY RingPlaces DEF ListInv, Ring
  <2> QED BY <1>1, <2>1 DEF Iterators
<1> QED BY <1>6, <1>7, <1>8, <1>9 DEF ListInv

\* The ring without its place k.
Shorter(n, ch, k) == [j \in 0 .. n - 1 |-> IF j < k THEN ch[j] ELSE ch[j + 1]]

LEMMA ShorterRing ==
  ASSUME NEW n \in Nat, NEW ch \in [0 .. n -> Places], NEW k \in 1 .. n
  PROVE  /\ Shorter(n, ch, k) \in [0 .. n - 1 -> Places]
         /\ \A j \in 0 .. k - 1 : Shorter(n, ch, k)[j] = ch[j]
         /\ \A j \in k .. n - 1 : Shorter(n, ch, k)[j] = ch[j + 1]
         /\ \A j \in 0 .. k - 2 : After(n - 1, Shorter(n, ch, k), j) = After(n, ch, j)
         /\ \A j \in k - 1 .. n - 1 :
              After(n - 1, Shorter(n, ch, k), j) = After(n, ch, j + 1)
<1> DEFINE d == Shorter(n, ch, k)
<1>1. d \in [0 .. n - 1 -> Places]
  BY DEF Shorter
<1>2. \A j \in 0 .. k - 1 : d[j] = ch[j]
  BY DEF Shorter
<1>3. \A j \in k .. n - 1 : d[j] = ch[j + 1]
  BY DEF Shorter
<1> HIDE DEF d
<1>4. \A j \in 0 .. k - 2 : After(n - 1, d, j) = After(n, ch, j)
  <2> SUFFICES ASSUME NEW j \in 0 .. k - 2
               PROVE  After(n - 1, d, j) = After(n, ch, j)
    OBVIOUS
  <2>1. j < n - 1 /\ j < n /\ j + 1 \in 0 .. k - 1
    OBVIOUS
  <2> QED BY <1>2, <2>1 DEF After
<1>5. \A j \in k - 1 .. n - 1 : After(n - 1, d, j) = After(n, ch, j + 1)
  <2> SUFFICES ASSUME NEW j \in k - 1 .. n - 1
               PROVE  After(n - 1, d, j) = After(n, ch, j + 1)
    OBVIOUS
  <2>1. CASE j < n - 1
    <3>1. j + 1 \in k .. n - 1 /\ j + 1 < n
      BY <2>1
    <3>2. d[j + 1] = ch[(j + 1) + 1]
      BY <1>3, <3>1
    <3> QED BY <2>1, <3>1, <3>2 DEF After
  <2>2. CASE ~(j < n - 1)
    <3>1. ~(j + 1 < n)
      BY <2>2
    <3> QED BY <2>2, <3>1 DEF After
  <2> QED BY <2>1, <2>2
<1> QED BY <1>1, <1>2, <1>3, <1>4, <1>5 DEF d

LEMMA UnhookKeeps ==
  ASSUME TypeInv, NEW n, NEW ch, ListInv(n, ch), Unhook
  PROVE  \E k \in 1 .. n : ListInv(n - 1, Shorter(n, ch, k))'
<1>1. /\ dpc = "unhook" /\ dpc' = "unhook2" /\ next' = [next EXCEPT ![pp] = nn]
      /\ UNCHANGED <<prev, heap, apc, new, last, iter, cur, nn, pp>>
  BY DEF Unhook, Goto, parser
<1>2. PICK k \in 1 .. n : iter = ch[k] /\ pp = ch[k - 1] /\ nn = After(n, ch, k)
  BY <1>1 DEF ListInv, Erasing
<1>3. /\ n \in Nat /\ ch \in [0 .. n -> Places] /\ ch[0] = Head
      /\ \A i, j \in 0 .. n : ch[i] = ch[j] => i = j
      /\ \A j \in 0 .. n : next[ch[j]] = After(n, ch, j)
      /\ \A j \in 0 .. n : ~Pending(After(n, ch, j)) => prev[After(n, ch, j)] = ch[j]
      /\ Members = {ch[j] : j \in 1 .. n}
  BY DEF ListInv, Ring
<1> DEFINE c == Shorter(n, ch, k)
<1>4. PICK d : d = c
  OBVIOUS
<1>5. c' = d
  BY <1>4 DEF Shorter
<1>6. /\ c \in [0 .. n - 1 -> Places]
      /\ \A j \in 0 .. k - 1 : c[j] = ch[j]
      /\ \A j \in k .. n - 1 : c[j] = ch[j + 1]
      /\ \A j \in 0 .. k - 2 : After(n - 1, c, j) = After(n, ch, j)
      /\ \A j \in k - 1 .. n - 1 : After(n - 1, c, j) = After(n, ch, j + 1)
  <2>1. n \in Nat /\ ch \in [0 .. n -> Places]
    BY <1>3
  <2> QED BY ONLY <2>1, ShorterRing, Zenon
<1> HIDE DEF c
<1>7. /\ d \in [0 .. n - 1 -> Places]
      /\ \A j \in 0 .. k - 1 : d[j] = ch[j]
      /\ \A j \in k .. n - 1 : d[j] = ch[j + 1]
      /\ \A j \in 0 .. k - 2 : After(n - 1, d, j) = After(n, ch, j)
      /\ \A j \in k - 1 .. n - 1 : After(n - 1, d, j) = After(n, ch, j + 1)
  BY ONLY <1>4, <1>6, Zenon
<1>8. k - 1 \in 0 .. n /\ k - 1 \in 0 .. k - 1 /\ k - 1 \in k - 1 .. n - 1 /\ (k - 1) + 1 = k
  BY <1>3
<1>9. \A j \in 0 .. n - 1 : j \in 0 .. k - 2 \/ j = k - 1 \/ j \in k .. n - 1
  BY <1>3
<1>10. \A j \in 0 .. n - 1 : \/ j \in 0 .. k - 1 /\ j \in 0 .. n /\ j # k /\ d[j] = ch[j]
                             \/ j \in k .. n - 1 /\ j + 1 \in 0 .. n /\ j + 1 # k
                                /\ d[j] = ch[j + 1]
  <2>1. \A j \in 0 .. n - 1 : \/ j \in 0 .. k - 1 /\ j \in 0 .. n /\ j # k
                              \/ j \in k .. n - 1 /\ j + 1 \in 0 .. n /\ j + 1 # k
    BY <1>3
  <2> QED BY <1>7, <2>1
<1>11. \A x : x # nn => (Pending(x)' <=> Pending(x))
  BY <1>1 DEF Pending
<1>12. \A j : After(n - 1, d, j)' = After(n - 1, d, j)
  BY DEF After
<1>13. next'[ch[k - 1]] = nn /\ \A x \in Places : x # ch[k - 1] => next'[x] = next[x]
  BY <1>1, <1>2, <1>3, <1>8, Types
<1>14. \A j \in 0 .. n : j # k - 1 => ch[j] \in Places /\ ch[j] # ch[k - 1] /\ next'[ch[j]] = After(n, ch, j)
  <2>1. \A j \in 0 .. n : j # k - 1 => ch[j] \in Places /\ ch[j] # ch[k - 1]
    BY <1>3, <1>8
  <2> QED BY <1>3, <1>13, <2>1
<1>15. Ring(n - 1, d)'
  <2>1. n - 1 \in Nat /\ d \in [0 .. n - 1 -> Places'] /\ d[0] = Head
    <3>1. 0 \in 0 .. k - 1 /\ n - 1 \in Nat
      BY <1>3
    <3> QED BY <1>3, <1>7, <3>1 DEF Places
  <2>2. \A i, j \in 0 .. n - 1 : d[i] = d[j] => i = j
    <3> SUFFICES ASSUME NEW i \in 0 .. n - 1, NEW j \in 0 .. n - 1, d[i] = d[j]
                 PROVE  i = j
      OBVIOUS
    <3>1. CASE i \in 0 .. k - 1 /\ j \in 0 .. k - 1
      <4>1. i \in 0 .. n /\ j \in 0 .. n
        BY <1>3
      <4> QED BY <1>3, <1>7, <3>1, <4>1
    <3>2. CASE i \in k .. n - 1 /\ j \in k .. n - 1
      <4>1. i + 1 \in 0 .. n /\ j + 1 \in 0 .. n
        BY <1>3
      <4>2. i + 1 = j + 1
        BY <1>3, <1>7, <3>2, <4>1
      <4> QED BY <4>2
    <3>3. CASE i \in 0 .. k - 1 /\ j \in k .. n - 1
      <4>1. i \in 0 .. n /\ j + 1 \in 0 .. n /\ i # j + 1
        BY <1>3, <3>3
      <4> QED BY <1>3, <1>7, <3>3, <4>1
    <3>4. CASE i \in k .. n - 1 /\ j \in 0 .. k - 1
      <4>1. i + 1 \in 0 .. n /\ j \in 0 .. n /\ i + 1 # j
        BY <1>3, <3>4
      <4> QED BY <1>3, <1>7, <3>4, <4>1
    <3> QED BY <1>10, <3>1, <3>2, <3>3, <3>4
  <2>3. \A j \in 0 .. n - 1 : next'[d[j]] = After(n - 1, d, j)
    <3>1. \A j \in 0 .. k - 2 : next'[d[j]] = After(n - 1, d, j)
      <4>1. \A j \in 0 .. k - 2 : j \in 0 .. k - 1 /\ j \in 0 .. n /\ j # k - 1
        BY <1>3
      <4> QED BY <1>7, <1>14, <4>1
    <3>2. next'[d[k - 1]] = After(n - 1, d, k - 1)
      <4>1. d[k - 1] = ch[k - 1] /\ After(n - 1, d, k - 1) = After(n, ch, k)
        BY <1>7, <1>8
      <4> QED BY <1>2, <1>13, <4>1
    <3>3. \A j \in k .. n - 1 : next'[d[j]] = After(n - 1, d, j)
      <4>1. \A j \in k .. n - 1 : j + 1 \in 0 .. n /\ j + 1 # k - 1 /\ j \in k - 1 .. n - 1
        BY <1>3
      <4> QED BY <1>7, <1>14, <4>1
    <3> QED BY <1>9, <3>1, <3>2, <3>3
  <2>4. \A j \in 0 .. n - 1 : ~Pending(After(n - 1, d, j))' => prev'[After(n - 1, d, j)] = d[j]
    <3>0. Pending(nn)'
      BY <1>1 DEF Pending
    <3>1. \A j \in 0 .. k - 2 : ~Pending(After(n - 1, d, j))' => prev'[After(n - 1, d, j)] = d[j]
      <4>1. \A j \in 0 .. k - 2 : j \in 0 .. n /\ j \in 0 .. k - 1
        BY <1>3
      <4> QED BY <1>1, <1>3, <1>7, <1>11, <1>12, <3>0, <4>1
    <3>2. Pending(After(n - 1, d, k - 1))'
      <4>1. After(n - 1, d, k - 1) = nn
        BY <1>2, <1>7, <1>8
      <4> QED BY <1>1, <1>12, <4>1 DEF Pending
    <3>3. \A j \in k .. n - 1 : ~Pending(After(n - 1, d, j))' => prev'[After(n - 1, d, j)] = d[j]
      <4>1. \A j \in k .. n - 1 : j + 1 \in 0 .. n /\ j \in k - 1 .. n - 1
        BY <1>3
      <4> QED BY <1>1, <1>3, <1>7, <1>11, <1>12, <3>0, <4>1
    <3> QED BY <1>9, <3>1, <3>2, <3>3
  <2>5. Members' = {d[j] : j \in 1 .. n - 1}
    <3>1. Members' = Members \ {iter}
      BY <1>1 DEF Members
    <3>2. \A j \in 1 .. n - 1 : d[j] \in Members'
      <4>1. \A j \in 1 .. n - 1 : \E i \in 1 .. n : i # k /\ d[j] = ch[i]
        <5> SUFFICES ASSUME NEW j \in 1 .. n - 1
                     PROVE  \E i \in 1 .. n : i # k /\ d[j] = ch[i]
          OBVIOUS
        <5>1. j \in 1 .. n /\ j + 1 \in 1 .. n /\ j \in 0 .. n - 1
          BY <1>3
        <5> QED BY <1>10, <5>1
      <4>2. \A i \in 1 .. n : i \in 0 .. n /\ k \in 0 .. n
        BY <1>3
      <4> QED BY <1>2, <1>3, <3>1, <4>1, <4>2
    <3>3. \A i \in 1 .. n : i # k => \E j \in 1 .. n - 1 : d[j] = ch[i]
      <4> SUFFICES ASSUME NEW i \in 1 .. n, i # k
                   PROVE  \E j \in 1 .. n - 1 : d[j] = ch[i]
        OBVIOUS
      <4>1. CASE i < k
        <5>1. i \in 1 .. n - 1 /\ i \in 0 .. k - 1
          BY <1>3, <4>1
        <5> QED BY <1>7, <5>1
      <4>2. CASE i > k
        <5>1. i - 1 \in 1 .. n - 1 /\ i - 1 \in k .. n - 1 /\ (i - 1) + 1 = i
          BY <1>3, <4>2
        <5> QED BY <1>7, <5>1
      <4> QED BY <4>1, <4>2
    <3>4. \A x \in Members' : \E j \in 1 .. n - 1 : x = d[j]
      BY <1>2, <1>3, <3>1, <3>3
    <3> QED BY <3>2, <3>4
  <2> QED BY <1>12, <2>1, <2>2, <2>3, <2>4, <2>5 DEF Ring
<1>16. Appending(n - 1, d)'
  <2>1. apc # "idle" => d[n - 1] = ch[n]
    <3> SUFFICES ASSUME apc # "idle" PROVE d[n - 1] = ch[n]
      OBVIOUS
    <3>1. nn # Head
      BY <1>1 DEF ListInv, Erasing
    <3>2. k # n /\ k \in 0 .. n
      BY <1>2, <1>3, <3>1, LastPlace DEF ListInv
    <3>3. n - 1 \in k .. n - 1 /\ (n - 1) + 1 = n
      BY <1>3, <3>2
    <3> QED BY <1>7, <3>3
  <2>2. apc = "link" => new # ch[k - 1]
    <3>1. ch[k - 1] = Head \/ ch[k - 1] \in Members
      BY <1>8, RingPlaces DEF ListInv
    <3>2. apc = "link" => new # Head /\ new \notin Members
      BY DEF TypeInv, Members
    <3> QED BY <3>1, <3>2
  <2> QED BY <1>1, <1>13, <2>1, <2>2, Types DEF ListInv, Appending
<1>17. Erasing(n - 1, d)'
  <2>1. pp = d[k - 1] /\ nn = After(n - 1, d, k - 1) /\ k - 1 \in 0 .. n - 1
    BY <1>2, <1>3, <1>7, <1>8
  <2> QED BY <1>1, <1>12, <2>1 DEF ListInv, Erasing
<1>18. Iterators(n - 1, d)'
  BY <1>1 DEF Iterators
<1>19. ListInv(n - 1, d)'
  BY <1>15, <1>16, <1>17, <1>18 DEF ListInv
<1>20. ListInv(n - 1, c)' <=> ListInv(n - 1, d)'
  BY <1>5 DEF ListInv, Ring, Appending, Erasing, Iterators, After
<1> QED BY <1>19, <1>20 DEF c

-----------------------------------------------------------------------------
(* What has ended.                                                         *)

\* A task that runs, or that is to be erased, is in a node of the list.
LEMMA InList ==
  ASSUME TypeInv, NEW n, NEW ch, ListInv(n, ch), dpc \notin {"unhook2", "free"}
  PROVE  /\ iter # Head => iter \in heap
         /\ cur # Head => cur \in heap
<1>1. iter \in {ch[j] : j \in 0 .. n} /\ cur \in {ch[j] : j \in 0 .. n}
  BY DEF ListInv, Iterators
<1> QED BY <1>1, RingPlaces DEF ListInv

LEMMA AppendEnds ==
  ASSUME TypeInv, NEW n, NEW ch, ListInv(n, ch), EndInv, NEW t \in Tasks, Append(t)
  PROVE  EndInv'
<1>1. PICK m \in Nodes \ heap :
        heap' = heap \cup {m} /\ data' = [data EXCEPT ![m] = t]
  BY DEF Append
<1>2. t \notin added /\ UNCHANGED <<dpc, iter, cur, ended, erased>>
  BY DEF Append, loop
<1>3. /\ data'[m] = t /\ t \notin ended
      /\ \A x \in heap : data'[x] = data[x]
  BY <1>1, <1>2, Types
<1>4. dpc \in {"erase", "unhook", "unhook2", "free"} => iter \in heap
  <2>1. dpc = "erase" => iter # Head
    BY DEF EndInv, TypeInv
  <2>2. dpc = "erase" => iter \in heap
    BY <2>1, InList
  <2> QED BY <2>2 DEF ListInv, Erasing
<1>5. \A x \in heap' :
        data'[x] \in ended => x = iter /\ dpc \in {"erase", "unhook", "unhook2", "free"}
  BY <1>1, <1>3 DEF EndInv
<1>6. dpc \in {"erase", "unhook", "unhook2", "free"} => data'[iter] \in ended
  BY <1>3, <1>4 DEF EndInv
<1> QED BY <1>2, <1>5, <1>6 DEF EndInv

LEMMA StoreEnds ==
  ASSUME EndInv, Link \/ Close \/ Unhook \/ Unhook2
  PROVE  EndInv'
<1>1. UNCHANGED <<heap, data, iter, cur, ended, erased>>
  BY DEF Link, Close, Unhook, Unhook2, loop, history
<1>2. \/ dpc' = dpc
      \/ dpc = "unhook" /\ dpc' = "unhook2"
      \/ dpc = "unhook2" /\ dpc' = "free"
  BY DEF Link, Close, Unhook, Unhook2, loop, Goto
<1> QED BY <1>1, <1>2 DEF EndInv

LEMMA LoopEnds ==
  ASSUME TypeInv, NEW n, NEW ch, ListInv(n, ch), EndInv, ~lagged',
         \/ Begin \/ Empty \/ RangeFor \/ BeginOnce \/ RunAgain \/ RunEnds
         \/ StepIter \/ StepLoop \/ StepOnce
  PROVE  EndInv'
<1>1. UNCHANGED <<heap, data, erased>>
  BY DEF Begin, Empty, RangeFor, BeginOnce, RunAgain, RunEnds, StepIter, StepLoop,
         StepOnce, UnchangedList, history
<1>2. dpc \in {"begin", "empty", "range", "run", "step", "step2"}
  BY DEF Begin, Empty, RangeFor, BeginOnce, RunAgain, RunEnds, StepIter, StepLoop,
         StepOnce, Goto
<1>3. \A m \in heap : data[m] \notin ended
  BY <1>2 DEF EndInv
<1>4. CASE RunEnds
  <2>1. /\ dpc = "run" /\ dpc' = "erase" /\ ended' = ended \cup {data[cur]}
        /\ iter' = iter /\ cur' = cur
    BY <1>4 DEF RunEnds, Goto
  <2>2. iter = cur /\ cur # Head
    BY <2>1 DEF EndInv, TypeInv
  <2>3. cur \in heap
    BY <2>1, <2>2, InList
  <2>4. \A m \in heap : data[m] \in ended' => m = iter
    BY <1>3, <2>1, <2>2, <2>3 DEF TypeInv
  <2> QED BY <1>1, <2>1, <2>2, <2>4 DEF EndInv
<1>5. CASE RangeFor \/ StepLoop \/ StepOnce
  <2>1. /\ ended' = ended /\ dpc' \in {"begin", "run"}
        /\ dpc' = "run" => iter' = cur'
    BY <1>5 DEF RangeFor, StepLoop, StepOnce, Reach
  <2> QED BY <1>1, <1>3, <2>1 DEF EndInv
<1>6. CASE Begin \/ Empty \/ BeginOnce \/ RunAgain \/ StepIter
  <2>1. /\ ended' = ended
        /\ dpc' \in {"begin", "empty", "range", "hung", "run", "step", "step2"}
        /\ dpc' \in {"run", "step"} => iter' = cur'
    BY <1>6 DEF Begin, Empty, BeginOnce, RunAgain, StepIter, Goto, history, EndInv
  <2> QED BY <1>1, <1>3, <2>1 DEF EndInv
<1> QED BY <1>4, <1>5, <1>6

LEMMA EraseEnds ==
  ASSUME TypeInv, EndInv, Erase \/ EraseEnd \/ Free
  PROVE  EndInv'
<1>1. CASE Erase
  <2>1. /\ dpc = "erase" /\ dpc' = "unhook" /\ iter' = iter
        /\ UNCHANGED <<heap, data, cur, ended, erased>>
    BY <1>1 DEF Erase, ErasedNode, Goto, UnchangedList
  <2> QED BY <2>1 DEF EndInv
<1>2. CASE EraseEnd
  BY <1>2 DEF EraseEnd, ErasedNode, Goto, EndInv, TypeInv
<1>3. CASE Free
  <2>1. /\ dpc = "free" /\ dpc' = "begin" /\ heap' = heap \ {iter}
        /\ erased' = erased \cup {data[iter]} /\ UNCHANGED <<data, ended>>
    BY <1>3 DEF Free, Goto
  <2> QED BY <2>1 DEF EndInv
<1> QED BY <1>1, <1>2, <1>3
-----------------------------------------------------------------------------
(* The invariant holds.                                                    *)

LEMMA InvInit == Init => TaskInv
<1> SUFFICES ASSUME Init PROVE TaskInv
  OBVIOUS
<1>1. \E t \in Tasks : TRUE
  BY TasksAssumption
<1>2. (CHOOSE t \in Tasks : TRUE) \in Tasks
  BY <1>1
<1>3. TypeOK
  <2>1. Head \in Places
    BY DEF Places
  <2>2. {next, prev} \subseteq [Places -> Places]
    BY <2>1, Zenon DEF Init
  <2>3. {lagged, collided} \subseteq BOOLEAN
    BY Zenon DEF Init
  <2>4. data \in [Nodes -> Tasks]
    BY <1>2, Zenon DEF Init
  <2>5. left \in [Tasks -> 1 .. Sends]
    BY SendsAssumption DEF Init
  <2> QED BY <2>1, <2>2, <2>3, <2>4, <2>5 DEF Init, TypeOK
<1>4. TypeInv
  BY <1>3 DEF Init, TypeInv, Known
<1> DEFINE c == [j \in 0 .. 0 |-> Head]
<1>5. ListInv(0, c)
  <2>1. c \in [0 .. 0 -> Places] /\ c[0] = Head
    BY DEF Places
  <2> HIDE DEF c
  <2>2. \A j \in 0 .. 0 : j = 0 /\ After(0, c, j) = Head
    BY DEF After
  <2>3. Members = {} /\ {c[j] : j \in 1 .. 0} = {}
    BY DEF Init, Members
  <2>4. next[Head] = Head /\ prev[Head] = Head
    BY DEF Init, Places
  <2>5. Ring(0, c)
    BY <2>1, <2>2, <2>3, <2>4 DEF Ring
  <2>6. 0 \in 0 .. 0
    OBVIOUS
  <2>7. Iterators(0, c)
    BY <2>1, <2>6 DEF Iterators, Init
  <2> QED BY <2>5, <2>7 DEF ListInv, Appending, Erasing, Init
<1>6. \E n \in Nat : \E ch \in [0 .. n -> Places] : ListInv(n, ch)
  <2>1. c \in [0 .. 0 -> Places] /\ 0 \in Nat
    BY DEF Places
  <2> HIDE DEF c
  <2> QED BY <1>5, <2>1
<1>7. EndInv
  BY DEF Init, EndInv
<1> QED BY <1>4, <1>6, <1>7 DEF TaskInv

\* Nothing but the listed actions happens.
LEMMA Steps ==
  ASSUME Next
  PROVE  \/ \E t \in Tasks : Append(t)
         \/ Link \/ Close \/ Unhook \/ Unhook2
         \/ Begin \/ Empty \/ RangeFor \/ BeginOnce \/ RunAgain \/ RunEnds
         \/ StepIter \/ StepLoop \/ StepOnce
         \/ Erase \/ EraseEnd \/ Free
  BY DEF Next, AddDownTask, Parser, Downloader

LEMMA Histories ==
  ASSUME TypeInv, Next
  PROVE  (collided => collided') /\ (lagged => lagged')
  BY Types DEF Next, AddDownTask, Parser, Downloader, Append, Link, Close, Begin, Empty,
     RangeFor, BeginOnce, RunAgain, RunEnds, StepIter, StepLoop, StepOnce, Erase,
     EraseEnd, Unhook, Unhook2, Free, Reach, history

LEMMA TypeStep ==
  ASSUME TypeInv, Next
  PROVE  TypeInv'
  BY Steps, AppendTypes, StoreTypes, LoopTypes, EraseTypes

LEMMA ListStep ==
  ASSUME TypeInv, NEW n, NEW ch, ListInv(n, ch), Next, ~collided'
  PROVE  \E m \in Nat : \E d \in [0 .. m -> Places] : ListInv(m, d)'
<1>1. \E m, d : ListInv(m, d)'
  <2>1. CASE \E t \in Tasks : Append(t)
    BY <2>1, AppendKeeps
  <2>2. CASE Link
    BY <2>2, LinkKeeps
  <2>3. CASE Close
    BY <2>3, CloseKeeps
  <2>4. CASE Unhook
    BY <2>4, UnhookKeeps
  <2>5. CASE Unhook2
    BY <2>5, Unhook2Keeps
  <2>6. CASE \/ Begin \/ Empty \/ RangeFor \/ BeginOnce \/ RunAgain \/ RunEnds
             \/ StepIter \/ StepLoop \/ StepOnce
    BY <2>6, LoopKeeps
  <2>7. CASE Erase
    BY <2>7, EraseKeeps
  <2>8. CASE EraseEnd
    BY <2>8, AbortKeeps
  <2>9. CASE Free
    BY <2>9, FreeKeeps
  <2> QED BY <2>1, <2>2, <2>3, <2>4, <2>5, <2>6, <2>7, <2>8, <2>9, Steps
<1>2. PICK m, d : ListInv(m, d)'
  BY <1>1
<1>3. m \in Nat /\ d \in [0 .. m -> Places]
  BY <1>2 DEF ListInv, Ring, Places
<1> QED BY <1>2, <1>3

LEMMA EndStep ==
  ASSUME TypeInv, NEW n, NEW ch, ListInv(n, ch), EndInv, Next, ~lagged'
  PROVE  EndInv'
<1>1. CASE \E t \in Tasks : Append(t)
  BY <1>1, AppendEnds
<1>2. CASE Link \/ Close \/ Unhook \/ Unhook2
  BY <1>2, StoreEnds
<1>3. CASE \/ Begin \/ Empty \/ RangeFor \/ BeginOnce \/ RunAgain \/ RunEnds
           \/ StepIter \/ StepLoop \/ StepOnce
  BY <1>3, LoopEnds
<1>4. CASE Erase \/ EraseEnd \/ Free
  BY <1>4, EraseEnds
<1> QED BY <1>1, <1>2, <1>3, <1>4, Steps

LEMMA InvStep == TaskInv /\ [Next]_vars => TaskInv'
<1> SUFFICES ASSUME TaskInv, [Next]_vars PROVE TaskInv'
  OBVIOUS
<1>1. CASE Next
  <2>1. TypeInv /\ TypeInv'
    BY <1>1, TypeStep DEF TaskInv
  <2>2. (collided => collided') /\ (lagged => lagged')
    BY <1>1, <2>1, Histories
  <2>3. ~collided' => (\E n \in Nat : \E ch \in [0 .. n -> Places] : ListInv(n, ch))'
    <3>1. Places' = Places
      BY DEF Places
    <3> QED BY <1>1, <2>1, <2>2, <3>1, ListStep DEF TaskInv
  <2>4. ~collided' /\ ~lagged' => EndInv'
    BY <1>1, <2>1, <2>2, EndStep DEF TaskInv
  <2> QED BY <2>1, <2>3, <2>4 DEF TaskInv
<1>2. CASE UNCHANGED vars
  <2>1. UNCHANGED <<rereads, next, prev, heap, data, left, apc, new, last, added, dpc,
                    iter, cur, nn, pp, ended, erased, lagged, collided>>
    BY <1>2 DEF vars, links, parser, loop, history
  <2>2. TypeInv'
    BY <2>1 DEF TaskInv, TypeInv, TypeOK, Known, Places
  <2>3. EndInv' <=> EndInv
    BY <2>1 DEF EndInv
  <2>4. Places' = Places /\ Members' = Members
    BY <2>1 DEF Places, Members
  <2>5. \A n, ch : Ring(n, ch)' <=> Ring(n, ch)
    BY <2>1, <2>4 DEF Ring, Pending, After
  <2>6. \A n, ch : ListInv(n, ch)' <=> ListInv(n, ch)
    BY <2>1, <2>5 DEF ListInv, Appending, Erasing, Iterators, After
  <2> QED BY <2>1, <2>2, <2>3, <2>4, <2>6 DEF TaskInv
<1> QED BY <1>1, <1>2

(***************************************************************************)
(* What TaskInv says holds at every step of the parser and the downloader. *)
(***************************************************************************)
THEOREM Invariance == Spec => []TaskInv
<1>1. Init => TaskInv
  BY InvInit
<1>2. TaskInv /\ [Next]_vars => TaskInv'
  BY InvStep
<1> QED BY <1>1, <1>2, PTL DEF Spec

(***************************************************************************)
(* Every variable has its type, after a race as well: what has ended or    *)
(* been erased was added before, for no pointer leads to a node that has   *)
(* never held a task (download.cpp:17-22, 31).                             *)
(***************************************************************************)
THEOREM Typed == Spec => []TypeOK
<1>1. TaskInv => TypeOK
  BY DEF TaskInv, TypeInv
<1> QED BY <1>1, Invariance, PTL

(***************************************************************************)
(* The node that is erased is that of the task that has ended, unless one  *)
(* of the two races has happened (download.cpp:17-22).                     *)
(***************************************************************************)
THEOREM ErasesTheEnded == Spec => []EndedOnce
<1>1. ASSUME TaskInv PROVE EndedOnce
  <2> SUFFICES ASSUME ~collided, ~lagged
               PROVE  /\ dpc # "aborted" /\ erased \subseteq ended
                      /\ dpc = "run" => cur \in heap /\ data[cur] \notin ended
    BY DEF EndedOnce
  <2>1. TypeInv /\ EndInv
    BY <1>1 DEF TaskInv
  <2>2. PICK n, ch : ListInv(n, ch)
    BY <1>1 DEF TaskInv
  <2>3. ASSUME dpc = "run" PROVE cur \in heap /\ data[cur] \notin ended
    <3>1. cur # Head
      BY <2>1, <2>3 DEF TypeInv
    <3>2. cur \in heap
      BY <2>1, <2>2, <2>3, <3>1, InList
    <3> QED BY <2>1, <2>3, <3>2 DEF EndInv
  <2> QED BY <2>1, <2>3 DEF EndInv
<1> QED BY <1>1, Invariance, PTL
-----------------------------------------------------------------------------
(* The ring is what the walk along next finds.                             *)

LEMMA LeastNumber ==
  ASSUME NEW S \in SUBSET Nat, S # {}
  PROVE  \E m \in S : \A k \in S : m <= k
<1> DEFINE Upto == {0 .. n : n \in S}
<1>1. Upto \subseteq FiniteSubsetsOf(Nat)
  <2>1. \A n \in Nat : IsFiniteSet(0 .. n)
    BY FS_Interval
  <2> QED BY <2>1 DEF FiniteSubsetsOf
<1>2. Upto # {}
  OBVIOUS
<1>3. IsWellFoundedOn(StrictSubsetOrdering(Nat), FiniteSubsetsOf(Nat))
  BY FS_StrictSubsetOrderingWellFounded
<1> HIDE DEF Upto
<1>4. \E I \in Upto : \A J \in Upto : <<J, I>> \notin StrictSubsetOrdering(Nat)
  BY <1>1, <1>2, <1>3, WFMin
<1>5. PICK m \in S : \A J \in Upto : <<J, 0 .. m>> \notin StrictSubsetOrdering(Nat)
  BY <1>4 DEF Upto
<1>6. ASSUME NEW k \in S, k < m PROVE FALSE
  <2>1. 0 .. k \in Upto
    BY DEF Upto
  <2>2. 0 .. k \subseteq 0 .. m /\ 0 .. k # 0 .. m
    <3>1. m \in 0 .. m /\ m \notin 0 .. k
      BY <1>6
    <3> QED BY <3>1, <1>6
  <2>3. <<0 .. k, 0 .. m>> \in StrictSubsetOrdering(Nat)
    BY <2>2 DEF StrictSubsetOrdering
  <2> QED BY <2>1, <2>3, <1>5
<1> QED BY <1>6

\* The step function of Chain.
Walks(g) ==
  g = [i \in 0 .. Cardinality(Nodes) |-> IF i = 0 THEN Head ELSE next[g[i - 1]]]

LEMMA ChainWalks ==
  ASSUME NEW g, Walks(g)
  PROVE  \E h : Walks(h) /\ Chain = {h[i] : i \in DOMAIN h}
<1>1. PICK h : h = CHOOSE e : Walks(e)
  OBVIOUS
<1>2. Walks(h)
  BY <1>1
<1>3. Chain = {h[i] : i \in DOMAIN h}
  BY <1>1 DEF Chain, Walks
<1> QED BY <1>2, <1>3

LEMMA WalkSteps ==
  ASSUME NEW g, Walks(g), Cardinality(Nodes) \in Nat
  PROVE  /\ DOMAIN g = 0 .. Cardinality(Nodes) /\ g[0] = Head
         /\ \A i \in 1 .. Cardinality(Nodes) : g[i] = next[g[i - 1]]
<1> DEFINE K == Cardinality(Nodes)
           val(i) == IF i = 0 THEN Head ELSE next[g[i - 1]]
<1>1. g = [i \in 0 .. K |-> val(i)]
  BY DEF Walks
<1>2. val(0) = Head
  OBVIOUS
<1>3. \A i \in 1 .. K : val(i) = next[g[i - 1]]
  OBVIOUS
<1> HIDE DEF val, K
<1>4. DOMAIN g = 0 .. K /\ \A i \in 0 .. K : g[i] = val(i)
  BY <1>1
<1>5. 0 \in 0 .. K /\ \A i \in 1 .. K : i \in 0 .. K
  BY DEF K
<1> QED BY <1>2, <1>3, <1>4, <1>5 DEF K

\* The walk goes round the ring.
Round(n, h, k) ==
  /\ h \in [0 .. k -> 0 .. n] /\ h[0] = 0
  /\ \A i \in 1 .. k : h[i] = IF h[i - 1] < n THEN h[i - 1] + 1 ELSE 0

LEMMA RoundExists ==
  ASSUME NEW n \in Nat, NEW k \in Nat
  PROVE  \E h : Round(n, h, k)
<1> DEFINE S == {m \in Nat : ~ \E h : Round(n, h, m)}
<1>1. CASE S = {}
  BY <1>1
<1>2. CASE S # {}
  <2>1. PICK m \in S : \A i \in S : m <= i
    <3>1. S \in SUBSET Nat
      OBVIOUS
    <3> QED BY <1>2, <3>1, LeastNumber
  <2>2. m # 0
    <3> DEFINE z == [i \in 0 .. 0 |-> 0]
    <3>1. Round(n, z, 0)
      BY DEF Round
    <3> QED BY <2>1, <3>1
  <2>3. m - 1 \in Nat /\ m \in Nat /\ m - 1 \notin S
    BY <2>1, <2>2
  <2>4. PICK h : Round(n, h, m - 1)
    BY <2>3
  <2> DEFINE last1 == IF h[m - 1] < n THEN h[m - 1] + 1 ELSE 0
             g == [i \in 0 .. m |-> IF i \in 0 .. m - 1 THEN h[i] ELSE last1]
  <2>5. h \in [0 .. m - 1 -> 0 .. n] /\ h[0] = 0 /\ m - 1 \in 0 .. m - 1
    BY <2>3, <2>4 DEF Round
  <2>6. h[m - 1] \in 0 .. n
    BY <2>5
  <2>7. last1 \in 0 .. n
    BY <2>6
  <2>8. g \in [0 .. m -> 0 .. n] /\ (\A i \in 0 .. m - 1 : g[i] = h[i]) /\ g[m] = last1
    <3> HIDE DEF last1
    <3>1. \A i \in 0 .. m - 1 : i \in 0 .. m
      BY <2>3
    <3>2. m \in 0 .. m /\ m \notin 0 .. m - 1
      BY <2>3
    <3> QED BY <2>5, <2>7, <3>1, <3>2
  <2> HIDE DEF g
  <2>9. \A i \in 1 .. m : g[i] = IF g[i - 1] < n THEN g[i - 1] + 1 ELSE 0
    <3>1. \A i \in 1 .. m - 1 : g[i] = IF g[i - 1] < n THEN g[i - 1] + 1 ELSE 0
      <4>1. \A i \in 1 .. m - 1 : i \in 0 .. m - 1 /\ i - 1 \in 0 .. m - 1
        BY <2>3
      <4> QED BY <2>4, <2>8, <4>1 DEF Round
    <3>2. g[m] = IF g[m - 1] < n THEN g[m - 1] + 1 ELSE 0
      BY <2>5, <2>8
    <3>3. \A i \in 1 .. m : i \in 1 .. m - 1 \/ i = m
      BY <2>3
    <3> QED BY <3>1, <3>2, <3>3
  <2>10. g[0] = 0
    <3>1. 0 \in 0 .. m - 1
      BY <2>3
    <3> QED BY <2>5, <2>8, <3>1
  <2>11. Round(n, g, m)
    BY <2>8, <2>9, <2>10 DEF Round
  <2> QED BY <2>1, <2>11
<1> QED BY <1>1, <1>2

\* It has been everywhere after n steps.
LEMMA RoundCovers ==
  ASSUME NEW n \in Nat, NEW k \in Nat, n <= k, NEW h, Round(n, h, k), NEW j \in 0 .. n
  PROVE  h[j] = j
<1> DEFINE S == {i \in 0 .. n : h[i] # i}
<1>1. CASE S = {}
  BY <1>1
<1>2. CASE S # {}
  <2>1. PICK m \in S : \A i \in S : m <= i
    <3>1. S \in SUBSET Nat
      OBVIOUS
    <3> QED BY <1>2, <3>1, LeastNumber
  <2>2. m \in 0 .. n /\ h[m] # m /\ m # 0
    BY <2>1 DEF Round
  <2>3. m - 1 \in 0 .. n /\ m \in 1 .. k /\ m - 1 < n /\ (m - 1) + 1 = m /\ m - 1 \notin S
    BY <2>1, <2>2
  <2>4. h[m - 1] = m - 1
    BY <2>3
  <2>5. h[m] = m
    BY <2>3, <2>4 DEF Round
  <2> QED BY <2>2, <2>5
<1> QED BY <1>1, <1>2

\* The nodes of the ring are different ones.
LEMMA RingFits ==
  ASSUME TypeInv, NEW n, NEW ch, Ring(n, ch)
  PROVE  Cardinality(Nodes) \in Nat /\ n <= Cardinality(Nodes)
<1>1. /\ n \in Nat /\ \A i, j \in 0 .. n : ch[i] = ch[j] => i = j
      /\ Members = {ch[j] : j \in 1 .. n}
  BY DEF Ring
<1> DEFINE T == {ch[j] : j \in 1 .. n}
           h == [j \in 1 .. n |-> ch[j]]
<1>2. h \in [1 .. n -> T] /\ \A j \in 1 .. n : h[j] = ch[j]
  OBVIOUS
<1>3. h \in Injection(1 .. n, T)
  <2>1. \A i, j \in 1 .. n : ch[i] = ch[j] => i = j
    BY <1>1
  <2> QED BY <1>2, <2>1 DEF Injection, IsInjective
<1>4. h \in Surjection(1 .. n, T)
  BY <1>2 DEF Surjection
<1> HIDE DEF T, h
<1>5. IsFiniteSet(1 .. n) /\ Cardinality(1 .. n) = n
  BY <1>1, FS_Interval
<1>6. IsFiniteSet(T) /\ Cardinality(T) = n
  BY <1>3, <1>4, <1>5, FS_Surjection
<1>7. T \subseteq Nodes
  BY <1>1, Types DEF T, Members
<1>8. Cardinality(Nodes) \in Nat
  BY NodesAssumption, FS_CardinalityType
<1>9. Cardinality(T) <= Cardinality(Nodes)
  BY <1>7, NodesAssumption, FS_Subset
<1> QED BY <1>6, <1>8, <1>9

LEMMA ChainIsRing ==
  ASSUME TypeInv, NEW n, NEW ch, Ring(n, ch)
  PROVE  Chain = {ch[j] : j \in 0 .. n}
<1> DEFINE K == Cardinality(Nodes)
<1>1. K \in Nat /\ n \in Nat /\ n <= K
  <2>1. n \in Nat
    BY DEF Ring
  <2>2. Cardinality(Nodes) \in Nat /\ n <= Cardinality(Nodes)
    BY ONLY TypeInv, Ring(n, ch), RingFits, Zenon
  <2> QED BY <2>1, <2>2
<1>2. /\ ch[0] = Head /\ (\A j \in 0 .. n : next[ch[j]] = After(n, ch, j))
  BY DEF Ring
<1>3. PICK h : Round(n, h, K)
  BY <1>1, RoundExists
<1>4. h \in [0 .. K -> 0 .. n] /\ h[0] = 0
      /\ \A i \in 1 .. K : h[i] = IF h[i - 1] < n THEN h[i - 1] + 1 ELSE 0
  BY <1>3 DEF Round
<1> DEFINE w == [i \in 0 .. K |-> ch[h[i]]]
<1> HIDE DEF K
<1>5. \A i \in 1 .. K : ch[h[i]] = next[ch[h[i - 1]]]
  <2> SUFFICES ASSUME NEW i \in 1 .. K PROVE ch[h[i]] = next[ch[h[i - 1]]]
    OBVIOUS
  <2>1. i - 1 \in 0 .. K
    BY <1>1
  <2>2. h[i - 1] \in 0 .. n
    BY <1>4, <2>1
  <2>3. next[ch[h[i - 1]]] = After(n, ch, h[i - 1])
    BY <1>2, <2>2
  <2> QED BY <1>2, <1>4, <2>3 DEF After
<1>6. \A i \in 0 .. K : w[i] = IF i = 0 THEN Head ELSE next[w[i - 1]]
  <2> SUFFICES ASSUME NEW i \in 0 .. K
               PROVE  w[i] = IF i = 0 THEN Head ELSE next[w[i - 1]]
    OBVIOUS
  <2>1. CASE i = 0
    BY <1>2, <1>4, <2>1
  <2>2. CASE i # 0
    <3>1. i \in 1 .. K /\ i - 1 \in 0 .. K
      BY <1>1, <2>2
    <3> QED BY <1>5, <2>2, <3>1
  <2> QED BY <2>1, <2>2
<1>7. Walks(w)
  <2> DEFINE body == [i \in 0 .. K |-> IF i = 0 THEN Head ELSE next[w[i - 1]]]
  <2>1. w = body
    <3>1. w = [i \in 0 .. K |-> w[i]]
      OBVIOUS
    <3> QED BY <1>6, <3>1
  <2> QED BY <2>1 DEF Walks, K
<1>8. PICK g : Walks(g) /\ Chain = {g[i] : i \in DOMAIN g}
  BY <1>7, ChainWalks
<1>9. /\ DOMAIN g = 0 .. K /\ g[0] = Head
      /\ \A i \in 1 .. K : g[i] = next[g[i - 1]]
  BY <1>1, <1>8, WalkSteps DEF K
<1> HIDE DEF w
<1>10. \A i \in 0 .. K : g[i] = ch[h[i]]
  <2> DEFINE S == {i \in 0 .. K : g[i] # ch[h[i]]}
  <2>1. CASE S = {}
    BY <2>1
  <2>2. CASE S # {}
    <3>1. PICK m \in S : \A i \in S : m <= i
      <4>1. S \in SUBSET Nat
        OBVIOUS
      <4> QED BY <2>2, <4>1, LeastNumber
    <3>2. m \in 0 .. K /\ g[m] # ch[h[m]] /\ m # 0
      BY <1>2, <1>4, <1>9, <3>1
    <3>3. m \in 1 .. K /\ m - 1 \in 0 .. K /\ m - 1 \notin S
      BY <1>1, <3>1, <3>2
    <3>4. g[m - 1] = ch[h[m - 1]]
      BY <3>3
    <3> QED BY <1>5, <1>9, <3>2, <3>3, <3>4
  <2> QED BY <2>1, <2>2
<1>11. Chain = {ch[h[i]] : i \in 0 .. K}
  BY <1>8, <1>9, <1>10
<1>12. \A i \in 0 .. K : h[i] \in 0 .. n
  BY <1>4
<1>13. \A j \in 0 .. n : j \in 0 .. K /\ h[j] = j
  <2>1. \A j \in 0 .. n : j \in 0 .. K
    BY <1>1
  <2>2. \A j \in 0 .. n : h[j] = j
    BY <1>1, <1>3, RoundCovers
  <2> QED BY <2>1, <2>2
<1> QED BY <1>11, <1>12, <1>13

(***************************************************************************)
(* Short of a collision the list holds the nodes that were appended and    *)
(* not erased, and prev leads back, wherever the two threads stand in      *)
(* their four stores (download.cpp:31 against download.cpp:19).            *)
(***************************************************************************)
THEOREM StaysWhole == Spec => []ListIntact
<1>1. ASSUME TaskInv PROVE ListIntact
  <2> SUFFICES ASSUME ~collided
               PROVE  /\ Chain = Members \cup {Head}
                      /\ \A x \in Chain : ~Pending(next[x]) => prev[next[x]] = x
    BY DEF ListIntact
  <2>1. TypeInv
    BY <1>1 DEF TaskInv
  <2>2. PICK n, ch : ListInv(n, ch)
    BY <1>1 DEF TaskInv
  <2>3. /\ n \in Nat /\ ch[0] = Head
        /\ \A j \in 0 .. n : next[ch[j]] = After(n, ch, j)
        /\ \A j \in 0 .. n : ~Pending(After(n, ch, j)) => prev[After(n, ch, j)] = ch[j]
        /\ Members = {ch[j] : j \in 1 .. n}
    BY <2>2 DEF ListInv, Ring
  <2>4. Chain = {ch[j] : j \in 0 .. n}
    BY <2>1, <2>2, ChainIsRing DEF ListInv
  <2>5. Chain = Members \cup {Head}
    <3>1. \A j \in 0 .. n : j = 0 \/ j \in 1 .. n
      BY <2>3
    <3>2. 0 \in 0 .. n /\ \A j \in 1 .. n : j \in 0 .. n
      BY <2>3
    <3> QED BY <2>3, <2>4, <3>1, <3>2
  <2>6. \A x \in Chain : ~Pending(next[x]) => prev[next[x]] = x
    BY <2>3, <2>4
  <2> QED BY <2>5, <2>6
<1> QED BY <1>1, Invariance, PTL
=============================================================================
