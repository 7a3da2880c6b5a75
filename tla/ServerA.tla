------------------------------ MODULE ServerA -------------------------------
(***************************************************************************)
(* servera (main.cpp), the older server in one file.  Each transfer is a   *)
(* task of the pool; what it is to send, and to whom, it reads through a   *)
(* pointer to data, the record into which the parser reads every frame.    *)
(* The parser does not wait for the task: the next frame of any client     *)
(* overwrites the record, and a running task reads the new clientFd at its *)
(* next send.  The history overwritten says when that has happened.        *)
(*                                                                         *)
(* The record is copied in two parts, because the copy races with the      *)
(* tasks that read it.  The pipe is a FIFO (YPipe), the pool's list a      *)
(* sequence; but a thread that has found it empty and does not wait yet is *)
(* passed by the notify of the next task, here as in ThreadPool.  A frame  *)
(* arrives in one piece (Framing).                                         *)
(***************************************************************************)
EXTENDS Peers

CONSTANT
  Pools     \* how many threads the pool has beside the parser: one of these

ASSUME PoolsAssumption == Pools \subseteq Nat \ {0}

VARIABLES
  stalled,  \* the clients that no longer read, their buffers full
  exited,   \* main has returned
  pipe,     \* memoryPool
  data,     \* the parser's record: function, clientFd, buf
  ppc,      \* where the parser is
  queue,    \* ThreadPool::tasks
  wpc,      \* where a thread of the pool is
  job,      \* locals of its task: the mapped file, fileFd, count, fileSize
  wait,     \* where an idle thread is in condition.wait: awake or about to take
            \* a task, in the gap between predicate and wait, blocked; passed
            \* and lost: the same, when a notify came in the gap
  overwritten  \* history: data was written while a task was to read it

parserVars == <<pipe, data, ppc, overwritten>>
poolVars   == <<queue, wpc, wait, job>>
vars == <<peerVars, stalled, exited, parserVars, poolVars>>

Workers == DOMAIN wpc
WaitStates == {"awake", "gap", "blocked", "passed", "lost"}
NoData  == [fn |-> "none", clientFd |-> NoFd, buf |-> <<"none", Nobody, 0>>]
NoJob   == [p |-> Nobody, file |-> NoFd, count |-> 0, left |-> 0]

\* The parser is a task of the pool too: if its notify is missed, it never runs.
ParserStarts == ppc \in {"read", "unstarted"}

Init ==
  /\ PeersInit
  /\ stalled = {} /\ exited = FALSE
  /\ pipe = <<>>
  /\ data = NoData
  /\ ParserStarts
  /\ queue = <<>>
  /\ \E n \in Pools : /\ wpc = [w \in 1 .. n |-> "idle"]
                      /\ job = [w \in 1 .. n |-> NoJob]
                      /\ wait = [w \in 1 .. n |-> "awake"]
  /\ overwritten = FALSE

-----------------------------------------------------------------------------
(* The clients and LWork::exec.  An event with nothing to receive is       *)
(* skipped, also when the client has left: its socket stays open.          *)

ClientStep(c) ==
  /\ Connect(c) \/ Confirm(c) \/ Leave(c)
  /\ UNCHANGED <<stalled, exited, parserVars, poolVars>>

\* The client stays but reads no more, and what was sent fills its buffers.
Stall(c) ==
  /\ got[c] # <<>> /\ ~Complete(c)
  /\ c \notin gone \cup stalled
  /\ stalled' = stalled \cup {c}
  /\ UNCHANGED <<peerVars, exited, parserVars, poolVars>>

Accept ==
  /\ TakeConnection
  /\ UNCHANGED <<stalled, exited, parserVars, poolVars>>

\* exec returns, and so does main: the process is gone with all it had.
Return ==
  /\ exited' = TRUE
  /\ table' = Closed(Fds)
  /\ pipe' = <<>>
  /\ data' = NoData
  /\ ppc' = "read"
  /\ queue' = <<>>
  /\ wpc' = [w \in Workers |-> "idle"]
  /\ wait' = [w \in Workers |-> "awake"]
  /\ job' = [w \in Workers |-> NoJob]
  /\ UNCHANGED <<backlog, accepted, gone, phase, told, from, rx, got, unopened, stalled,
                 overwritten>>

\* accept has no descriptor.
AcceptFails == backlog # <<>> /\ ~HasFree /\ Return

\* A signal has come: EINTR.
EpollWaitFails == Return

\* memoryPool.write (data, false), flush
WritePipe(frame) == pipe' = Append(pipe, frame)

RecvFrame(x) ==
  /\ TakeFrame(x)
  /\ LET c == Owner(x)
     IN  WritePipe([fn |-> rx[c][1], clientFd |-> x, buf |-> <<rx[c][1], c, rx[c][2]>>])
  /\ UNCHANGED <<stalled, exited, data, ppc, overwritten, poolVars>>

-----------------------------------------------------------------------------
(* The parser.                                                             *)

\* Some task has still to read data, or reads it at every send.
InUse == queue # <<>> \/ \E w \in Workers : wpc[w] # "idle"

\* memoryPool.read (&data), up to buf.
ReadHeader ==
  /\ ppc = "read" /\ pipe # <<>>
  /\ data' = [data EXCEPT !.fn = Head(pipe).fn, !.clientFd = Head(pipe).clientFd]
  /\ overwritten' = (overwritten \/ InUse)
  /\ ppc' = "readBuf"
  /\ UNCHANGED <<peerVars, pipe, queue, wait>>

\* and buf.
ReadBuf ==
  /\ ppc = "readBuf"
  /\ data' = [data EXCEPT !.buf = Head(pipe).buf]
  /\ pipe' = Tail(pipe)
  /\ ppc' = "handle"
  /\ UNCHANGED <<peerVars, overwritten, queue, wait>>

Handle(fns) ==
  /\ ppc = "handle" /\ data.fn \in fns
  /\ ppc' = "read"
  /\ UNCHANGED <<backlog, accepted, gone, from, rx, got, pipe, data, overwritten>>

HandleNormal ==
  /\ Handle({"Normal"})
  /\ \E fileFd \in Numbers :
       Open(data.buf[2], fileFd) /\ Reply(data.clientFd, "offered", fileFd)
  /\ UNCHANGED <<queue, wait>>

FileNotExit ==
  /\ Handle({"Normal", "Resume"})
  /\ Reply(data.clientFd, "refused", NoFd)
  /\ UNCHANGED <<table, unopened, queue, wait>>

(***************************************************************************)
(* While the list is empty an idle thread tests it, comes into the gap, is *)
(* blocked and perhaps wakes up again, which only a notify can tell: where *)
(* it is, is decided when a task is added.                                 *)
(***************************************************************************)
Waiting ==
  {now \in [Workers -> WaitStates] :
     \A w \in Workers :
       \/ now[w] = wait[w]
       \/ wpc[w] = "idle" /\ queue = <<>> /\ now[w] \in {"gap", "blocked"}}

\* condition.notify_one.  It passes by the threads in the gap.
NotifyNobody(now) == wait' = now

NotifyOne(now) ==
  LET Blocked == {w \in Workers : now[w] \in {"blocked", "lost"}}
  IN  \/ \E w \in Blocked : wait' = [now EXCEPT ![w] = "awake"]
      \/ /\ Blocked = {}
         /\ wait' = [w \in Workers |-> IF now[w] = "gap" THEN "passed" ELSE now[w]]

\* addTask ([](Data *data) {...}, &data)
AddTask(task) ==
  /\ queue' = Append(queue, task)
  /\ \E now \in Waiting : NotifyOne(now)

HandleEnsure ==
  /\ Handle({"Ensure"})
  /\ AddTask("ensure")
  /\ UNCHANGED <<table, phase, told, unopened>>

HandleResume ==
  /\ Handle({"Resume"})
  /\ Reply(data.clientFd, "receiving", NoFd)
  /\ AddTask("resume")
  /\ UNCHANGED <<table, unopened>>

Parser ==
  /\ \/ ReadHeader
     \/ ReadBuf
     \/ HandleNormal
     \/ FileNotExit
     \/ HandleEnsure
     \/ HandleResume
  /\ UNCHANGED <<stalled, exited, wpc, job>>

-----------------------------------------------------------------------------
(* The tasks.                                                              *)

GoTo(w, here, there) == wpc[w] = here /\ wpc' = [wpc EXCEPT ![w] = there]

\* From here on a notify finds the thread.
Block(w) ==
  /\ \/ wait[w] = "gap" /\ wait' = [wait EXCEPT ![w] = "blocked"]
     \/ wait[w] = "passed" /\ wait' = [wait EXCEPT ![w] = "lost"]
  /\ UNCHANGED <<peerVars, queue, wpc, job>>

SpuriousWakeup(w) ==
  /\ wait[w] \in {"blocked", "lost"}
  /\ wait' = [wait EXCEPT ![w] = "awake"]
  /\ UNCHANGED <<peerVars, stalled, exited, parserVars, queue, wpc, job>>

Take(w) ==
  /\ wait[w] = "awake" /\ queue # <<>>
  /\ GoTo(w, "idle", Head(queue))
  /\ queue' = Tail(queue)
  /\ wait' = IF queue' = <<>> THEN [v \in Workers |-> "awake"] ELSE wait
  /\ UNCHANGED <<peerVars, job>>

(***************************************************************************)
(* The task of a confirmed download: atol, atoi, mmap.  buf should hold a  *)
(* size and a descriptor; a request read in their place is a name, which   *)
(* counts as size 0, and a place, which is taken for the descriptor.       *)
(***************************************************************************)
MapConfirmed(w) ==
  /\ GoTo(w, "ensure", "send")
  /\ LET sized == data.buf[1] = "Ensure"
         fd    == data.buf[3]
     IN  job' = [job EXCEPT ![w] =
           [p     |-> IF sized /\ IsFile(fd) THEN Owner(fd) ELSE Nobody,
            file  |-> fd,
            count |-> 0,
            left  |-> IF sized THEN SizeOf(fd) ELSE 0]]
  /\ UNCHANGED <<peerVars, queue, wait>>

(***************************************************************************)
(* The task of a resume after its usleep: open, fstat, atol, mmap.  A size *)
(* in the place of the name is no file, and open fails.                    *)
(***************************************************************************)
MapResumed(w) ==
  /\ GoTo(w, "resume", "send")
  /\ LET named == data.buf[1] # "Ensure"
         count == data.buf[3]
     IN  \E fileFd \in Numbers :
           /\ IF named THEN Open(data.buf[2], fileFd)
                       ELSE fileFd = NoFd /\ UNCHANGED <<table, unopened>>
           /\ job' = [job EXCEPT ![w] =
                [p     |-> IF fileFd = NoFd THEN Nobody ELSE data.buf[2],
                 file  |-> fileFd,
                 count |-> count,
                 left  |-> SizeOf(fileFd) - count]]
  /\ UNCHANGED <<backlog, accepted, gone, phase, told, from, rx, got, queue, wait>>

\* The count of a task after a send of n bytes.
CountAfterKept(w, n) == job[w].count
CountAfter(w, n)     == job[w].count + n

\* What one send may take of the rest.
SendableBeyond(w) == 1 .. job[w].left + 1
Sendable(w)       == 1 .. job[w].left

\* if (fileSize <= 0)
SentAllBelow(left) == left < 0
SentAllEarly(left) == left <= 1
SentAll(left)      == left <= 0

\* send to data->clientFd takes n bytes; those to a client that has left are
\* lost.
Send(w) ==
  /\ wpc[w] = "send"
  /\ IsSock(data.clientFd) /\ Owner(data.clientFd) \notin stalled
  /\ job[w].p # Nobody
  /\ \E n \in Sendable(w) :
       /\ job' = [job EXCEPT ![w].count = CountAfter(w, n), ![w].left = @ - n]
       /\ Deliver(data.clientFd, job[w].p, job[w].count, n)
       /\ wpc' = [wpc EXCEPT ![w] = IF SentAll(job[w].left - n) THEN "close" ELSE @]
  /\ UNCHANGED <<table, backlog, accepted, gone, phase, told, from, rx, unopened, queue,
                 wait>>

\* There is nothing to send, or less.
SendNothing(w) ==
  /\ GoTo(w, "send", "close")
  /\ SentAll(job[w].left)
  /\ UNCHANGED <<peerVars, queue, job, wait>>

\* EPIPE.  After any other error (EBADF, EFAULT, EAGAIN) the task tries again:
\* no step.
SendFails(w) ==
  /\ GoTo(w, "send", "close")
  /\ IsSock(data.clientFd) /\ Owner(data.clientFd) \in gone
  /\ UNCHANGED <<peerVars, queue, job, wait>>

\* munmap of 2^32 = 0 bytes fails, so errno is EPIPE no more; close
\* (data->clientFd), close (fileFd), return.
Close(w) ==
  /\ GoTo(w, "close", "idle")
  /\ table' = Closed({data.clientFd, job[w].file})
  /\ job' = [job EXCEPT ![w] = NoJob]
  /\ UNCHANGED <<backlog, accepted, gone, phase, told, from, rx, got, unopened, queue,
                 wait>>

Worker(w) ==
  /\ ~exited
  /\ \/ Block(w)
     \/ Take(w)
     \/ MapConfirmed(w)
     \/ MapResumed(w)
     \/ Send(w)
     \/ SendNothing(w)
     \/ SendFails(w)
     \/ Close(w)
  /\ UNCHANGED <<stalled, exited, parserVars>>

-----------------------------------------------------------------------------
ParserThread == ~exited /\ Parser
Receive      == ~exited /\ \E x \in Fds : RecvFrame(x)
Confirms     == ~exited /\ \E c \in Clients : Confirm(c) /\ ClientStep(c)

Next ==
  \/ \E c \in Clients : ~exited /\ (ClientStep(c) \/ Stall(c))
  \/ ~exited /\ (Accept \/ AcceptFails \/ EpollWaitFails)
  \/ Receive
  \/ ParserThread
  \/ \E w \in Workers : Worker(w) \/ (~exited /\ SpuriousWakeup(w))

Spec == Init /\ [][Next]_vars

(***************************************************************************)
(* The threads are loops that never rest, every frame has its event        *)
(* (Server!NothingUnseen), and clienta confirms an offer.  An accept may   *)
(* be missing: it depends on the edges of the listening socket (Server).   *)
(* A thread that is blocked depends on a notify: no wakeup is spurious of  *)
(* necessity.                                                              *)
(***************************************************************************)
FairSpec ==
  /\ Spec
  /\ WF_rx(Receive) /\ WF_parserVars(ParserThread) /\ WF_phase(Confirms)
  /\ \A w \in UNION {1 .. n : n \in Pools} : WF_poolVars(w \in Workers /\ Worker(w))

-----------------------------------------------------------------------------
Buffers == (Requests \cup {"none"}) \X (Clients \cup {Nobody}) \X Nat
Records == [fn : Requests \cup {"none"}, clientFd : Numbers, buf : Buffers]

TypeOK ==
  /\ PeersTypeOK
  /\ stalled \subseteq accepted /\ {exited, overwritten} \subseteq BOOLEAN
  /\ pipe \in Seq(Records) /\ data \in Records
  /\ ppc \in {"unstarted", "read", "readBuf", "handle"}
  /\ queue \in Seq({"ensure", "resume"})
  /\ \E n \in Pools : /\ wpc \in [1 .. n -> {"idle", "ensure", "resume", "send", "close"}]
                      /\ wait \in [1 .. n -> WaitStates]
  /\ \A w \in Workers :
       job[w].p # Nobody => job[w].left \in 0 .. Bytes - job[w].count

(***************************************************************************)
(* As long as no frame is read while a transfer is queued or running, a    *)
(* client gets its own file, in order, from where it asked to start, and   *)
(* its socket is not closed before it has everything, unless its file did  *)
(* not open or the process has ended; although the task asks for the       *)
(* client again at every send (main.cpp:104) and goes by numbers that are  *)
(* used again.                                                             *)
(***************************************************************************)
OwnBytes ==
  ~overwritten =>
    \A c \in Clients :
      /\ OwnPrefix(c)
      /\ Shut(c) /\ c \notin gone => Complete(c) \/ c \in unopened \/ exited

\* The thread is blocked and has missed a notify.
Lost(w) == wait[w] = "lost"

(***************************************************************************)
(* Every client that is accepted, stays and reads is served, as long as no *)
(* frame is read while a transfer is queued or running, and no notify is   *)
(* missed: neither that of the parser at the start nor that of a transfer, *)
(* which then waits beside a blocked thread (threadpool.cpp:31).           *)
(***************************************************************************)
EveryClientServed ==
  \A c \in Clients :
    c \in accepted ~> \/ Complete(c) \/ phase[c] = "refused"
                      \/ c \in gone \cup stalled \cup unopened
                      \/ overwritten \/ exited \/ ppc = "unstarted"
                      \/ queue # <<>> /\ \E w \in Workers : Lost(w)

(***************************************************************************)
(* A transfer keeps its thread of the pool until it ends (main.cpp:102,    *)
(* main.cpp:159), and it does not end while the client stays and does not  *)
(* read, or while the send has an error other than EPIPE.  A task waits    *)
(* for ever only if every thread is kept in one of these ways, or blocked  *)
(* since it missed a notify (threadpool.cpp:31).                           *)
(***************************************************************************)
Kept(w) ==
  /\ wpc[w] = "send" /\ job[w].left > 0
  /\ \/ job[w].p = Nobody
     \/ ~IsSock(data.clientFd)
     \/ Owner(data.clientFd) \in stalled \ gone

WaitsOnlyForKept ==
  <>[](queue # <<>>) => <>[](\A w \in Workers : Kept(w) \/ Lost(w))

(***************************************************************************)
(* servera keeps the promise of Transfers step by step, until a frame is   *)
(* read while a transfer is queued or running, an open fails, or the       *)
(* process has ended.                                                      *)
(***************************************************************************)
Promise == INSTANCE Transfers WITH
  released <- gone \cup {c \in Clients : phase[c] = "refused"},
  closed   <- {c \in Clients : Shut(c)},
  broken   <- overwritten \/ unopened # {} \/ exited

ImplementsTransfers == Promise!Spec
=============================================================================
