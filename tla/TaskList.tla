------------------------------ MODULE TaskList ------------------------------
(***************************************************************************)
(* Download::downloadTask: a std::list to which the parser appends         *)
(* (addDownTask) while the downloader walks over it and erases the task    *)
(* that is finished, without a lock (download.cpp).                        *)
(*                                                                         *)
(* The accesses race.  A step is one access to a pointer both threads use, *)
(* in the order in which libstdc++ makes them: _M_hook loads the last node *)
(* once and then stores twice, _M_unhook loads twice and then stores       *)
(* twice.  The size of the list is changed by both and read by neither.    *)
(* What the builds do differently is the variable rereads.                 *)
(*                                                                         *)
(* Two histories say when the race can do harm.  lagged: iter, the second  *)
(* iterator of the loop, is not where the loop is.  collided: an append    *)
(* and the erase of the last node overlap.                                 *)
(***************************************************************************)
EXTENDS FiniteSets, Integers

CONSTANTS
  Nodes,    \* the addresses of list nodes; malloc gives out a freed one again
  Head,     \* the header node inside the list object
  Tasks,    \* what is appended, each once
  Sends     \* how many sends a task takes at most

ASSUME HeadAssumption    == Head \notin Nodes
ASSUME NodesAssumption   == IsFiniteSet(Nodes)
ASSUME TasksAssumption   == Tasks # {}
ASSUME SendsAssumption   == Sends \in Nat \ {0}

VARIABLES
  rereads,     \* begin, empty and the loop each read the list (no optimisation);
               \* else the compiler reads the first node once per pass
  next, prev,  \* _M_next and _M_prev of the header and the nodes
  heap,        \* the nodes that are allocated
  data,        \* the task in a node
  left,        \* sends a task still takes
  apc,         \* where the parser is in emplace_back
  new, last,   \* its node, and the node it found last
  dpc,         \* where the downloader is
  iter,        \* its iterator iter
  cur,         \* the iterator inside the range-based for
  nn, pp,      \* what _M_unhook has loaded
  added,       \* history: the tasks given to addDownTask
  ended,       \* history: the tasks whose run has returned false
  erased,      \* history: the tasks whose node was erased
  lagged, collided

links   == <<next, prev>>
parser  == <<apc, new, last, added>>
loop    == <<dpc, iter, cur, nn, pp>>
history == <<ended, erased, lagged, collided>>
vars    == <<rereads, links, heap, data, left, parser, loop, history>>

Places == Nodes \cup {Head}

Init ==
  /\ rereads \in BOOLEAN
  /\ next = [x \in Places |-> Head] /\ prev = [x \in Places |-> Head]
  /\ heap = {}
  /\ data = [n \in Nodes |-> CHOOSE t \in Tasks : TRUE]
  /\ left = [t \in Tasks |-> Sends]
  /\ apc = "idle" /\ new = Head /\ last = Head
  /\ dpc = "begin" /\ iter = Head /\ cur = Head /\ nn = Head /\ pp = Head
  /\ added = {} /\ ended = {} /\ erased = {}
  /\ lagged = FALSE /\ collided = FALSE

-----------------------------------------------------------------------------
(* The parser: downloadTask.emplace_back (data, run).                      *)

\* The erase of the last node has loaded its links and not yet stored both.
ErasingLast == dpc \in {"unhook", "unhook2"} /\ nn = Head

\* The node is made and filled, and _M_hook loads the last node.
Append(t) ==
  /\ dpc # "aborted"
  /\ apc = "idle"
  /\ t \notin added
  /\ \E n \in Nodes \ heap :
       /\ new'  = n
       /\ heap' = heap \cup {n}
       /\ data' = [data EXCEPT ![n] = t]
       /\ next' = [next EXCEPT ![n] = Head]
       /\ prev' = [prev EXCEPT ![n] = prev[Head]]
  /\ last'  = prev[Head]
  /\ added' = added \cup {t}
  /\ collided' = (collided \/ ErasingLast)
  /\ apc' = "link"
  /\ UNCHANGED <<rereads, left, loop, ended, erased, lagged>>

Link ==
  /\ dpc # "aborted"
  /\ apc = "link"
  /\ next' = [next EXCEPT ![last] = new]
  /\ apc' = "close"
  /\ UNCHANGED <<rereads, prev, heap, data, left, new, last, added, loop,
                 history>>

\* What the header takes for its last node after an append.
LastAfterAppendStale == last
LastAfterAppend      == new

Close ==
  /\ dpc # "aborted"
  /\ apc = "close"
  /\ prev' = [prev EXCEPT ![Head] = LastAfterAppend]
  /\ apc' = "idle" /\ new' = Head /\ last' = Head
  /\ UNCHANGED <<rereads, next, heap, data, left, added, loop, history>>

-----------------------------------------------------------------------------
(* The downloader.                                                         *)

Goto(from, to) == dpc = from /\ dpc' = to

UnchangedList == UNCHANGED <<rereads, links, heap, data, parser>>

\* iter = downloadTask.begin ()
Begin ==
  /\ rereads
  /\ Goto("begin", "empty")
  /\ iter' = next[Head]
  /\ UnchangedList /\ UNCHANGED <<left, cur, nn, pp, history>>

\* if (downloadTask.empty ()) continue;
Empty ==
  /\ Goto("empty", IF next[Head] = Head THEN "begin" ELSE "range")
  /\ UnchangedList /\ UNCHANGED <<left, iter, cur, nn, pp, history>>

\* The loop reaches x: it ends there or runs the task.
Reach(x) ==
  /\ cur' = x
  /\ dpc' = IF x = Head THEN "begin" ELSE "run"
  /\ lagged' = (lagged \/ (x # Head /\ iter' # x))

\* for (auto &tmp : downloadTask)
RangeFor ==
  /\ dpc = "range"
  /\ UNCHANGED iter
  /\ Reach(next[Head])
  /\ UnchangedList /\ UNCHANGED <<left, nn, pp, ended, erased, collided>>

\* The three of them when the first node is kept in a register: an empty list
\* is compared with itself for ever.
BeginOnce ==
  /\ ~rereads
  /\ dpc = "begin"
  /\ iter' = next[Head]
  /\ cur'  = next[Head]
  /\ dpc'  = IF next[Head] = Head THEN "hung" ELSE "run"
  /\ UnchangedList /\ UNCHANGED <<left, nn, pp, history>>

\* The task has more to send than this send takes.
MoreToSendLate(t) == left[t] >= 1
MoreToSend(t)     == left[t] > 1

\* tmp.second (...): Download::run sends and wants to be called again.
RunAgain ==
  /\ Goto("run", "step")
  /\ MoreToSend(data[cur])
  /\ left' = [left EXCEPT ![data[cur]] = @ - 1]
  /\ UnchangedList /\ UNCHANGED <<iter, cur, nn, pp, history>>

\* Everything is sent, or the send has failed: run has closed the descriptors.
RunEnds ==
  /\ Goto("run", "erase")
  /\ ended' = ended \cup {data[cur]}
  /\ UnchangedList /\ UNCHANGED <<left, iter, cur, nn, pp>>
  /\ UNCHANGED <<erased, lagged, collided>>

\* iter++; without optimisation the loop's own step comes after it.
StepIter ==
  /\ rereads
  /\ Goto("step", "step2")
  /\ iter' = next[iter]
  /\ UnchangedList /\ UNCHANGED <<left, cur, nn, pp, history>>

StepLoop ==
  /\ dpc = "step2"
  /\ UNCHANGED iter
  /\ Reach(next[cur])
  /\ UnchangedList /\ UNCHANGED <<left, nn, pp, ended, erased, collided>>

StepOnce ==
  /\ ~rereads
  /\ dpc = "step"
  /\ iter' = next[cur]
  /\ Reach(next[cur])
  /\ UnchangedList /\ UNCHANGED <<left, nn, pp, ended, erased, collided>>

\* The node that is erased when the task at cur is finished.
ErasedFirst == next[Head]
ErasedAfter == next[iter]
ErasedNode  == iter

\* downloadTask.erase (iter): _M_unhook loads the neighbours.
Erase ==
  /\ Goto("erase", "unhook")
  /\ ErasedNode # Head
  /\ iter' = ErasedNode
  /\ nn' = next[ErasedNode]
  /\ pp' = prev[ErasedNode]
  /\ collided' = (collided \/ (apc # "idle" /\ next[ErasedNode] = Head))
  /\ UnchangedList /\ UNCHANGED <<left, cur, ended, erased, lagged>>

\* erase (end ()): the header is no node of the heap, free aborts.
EraseEnd ==
  /\ Goto("erase", "aborted")
  /\ ErasedNode = Head
  /\ UnchangedList /\ UNCHANGED <<left, iter, cur, nn, pp, history>>

Unhook ==
  /\ Goto("unhook", "unhook2")
  /\ next' = [next EXCEPT ![pp] = nn]
  /\ UNCHANGED <<rereads, prev, heap, data, left, parser, iter, cur, nn, pp,
                 history>>

Unhook2 ==
  /\ Goto("unhook2", "free")
  /\ prev' = [prev EXCEPT ![nn] = pp]
  /\ UNCHANGED <<rereads, next, heap, data, left, parser, iter, cur, nn, pp,
                 history>>

\* The node is destroyed, and break leaves the loop.
Free ==
  /\ Goto("free", "begin")
  /\ heap'   = heap \ {iter}
  /\ erased' = erased \cup {data[iter]}
  /\ iter' = Head /\ cur' = Head /\ nn' = Head /\ pp' = Head
  /\ UNCHANGED <<rereads, links, data, left, parser>>
  /\ UNCHANGED <<ended, lagged, collided>>

-----------------------------------------------------------------------------
Parser == Link \/ Close

Downloader ==
  \/ Begin \/ Empty \/ RangeFor \/ BeginOnce
  \/ RunAgain \/ RunEnds
  \/ StepIter \/ StepLoop \/ StepOnce
  \/ Erase \/ EraseEnd \/ Unhook \/ Unhook2 \/ Free

AddDownTask == \E t \in Tasks : Append(t)

Next == AddDownTask \/ Parser \/ Downloader

Spec == Init /\ [][Next]_vars

\* An append that has begun goes on, and the downloader's loop never rests.
FairSpec == Spec /\ WF_vars(Parser) /\ WF_vars(Downloader)

-----------------------------------------------------------------------------
TypeOK ==
  /\ rereads \in BOOLEAN
  /\ {next, prev} \subseteq [Places -> Places]
  /\ heap \subseteq Nodes
  /\ data \in [Nodes -> Tasks]
  /\ left \in [Tasks -> 1 .. Sends]
  /\ apc \in {"idle", "link", "close"}
  /\ dpc \in {"begin", "empty", "range", "run", "step", "step2", "erase",
              "unhook", "unhook2", "free", "hung", "aborted"}
  /\ {new, last, iter, cur, nn, pp} \subseteq Places
  /\ added \subseteq Tasks /\ ended \subseteq added /\ erased \subseteq added
  /\ {lagged, collided} \subseteq BOOLEAN

\* The places from the header along next, up to the header again.
Chain ==
  LET step[i \in 0 .. Cardinality(Nodes)] ==
        IF i = 0 THEN Head ELSE next[step[i - 1]]
  IN  {step[i] : i \in DOMAIN step}

\* The nodes that belong to the list at this point of both operations.
Members ==
  {n \in heap : /\ n = new => apc # "link"
                /\ n = iter => dpc \notin {"unhook2", "free"}}

\* The place whose prev is being stored, and what it will be.
Pending(x) ==
  \/ x = Head /\ apc = "close"
  \/ x = nn /\ dpc = "unhook2"

(***************************************************************************)
(* Short of a collision the list is whole at every point: its nodes are    *)
(* the nodes that were appended and not erased, and prev is the way back,  *)
(* except where a store of one of the two operations is still to come      *)
(* (download.cpp:31 against download.cpp:19).                              *)
(***************************************************************************)
ListIntact ==
  ~collided /\ dpc # "aborted" =>
    /\ Chain = Members \cup {Head}
    /\ \A x \in Chain : ~Pending(next[x]) => prev[next[x]] = x

(***************************************************************************)
(* Short of a collision, and as long as the second iterator is where the   *)
(* loop is, the node that is erased is that of the finished task: no task  *)
(* is dropped half sent, and none is run again with descriptors that it    *)
(* has closed (download.cpp:17-22).                                        *)
(***************************************************************************)
EndedOnce ==
  ~collided /\ ~lagged =>
    /\ dpc # "aborted"
    /\ erased \subseteq ended
    /\ dpc = "run" => cur \in heap /\ data[cur] \notin ended

(***************************************************************************)
(* A task the parser adds is sent to its end, whatever the other tasks do, *)
(* unless one of the two races happens.  Only without optimisation: with   *)
(* the list read once per pass, the downloader never leaves an empty list. *)
(***************************************************************************)
EveryTaskEnds ==
  \A t \in Tasks : rereads /\ t \in added ~> (t \in erased \/ collided \/ lagged)
=============================================================================
