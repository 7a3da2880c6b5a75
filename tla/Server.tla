------------------------------- MODULE Server -------------------------------
(***************************************************************************)
(* The three threads of Server over all its connections: the event loop    *)
(* (wrapper.cpp, protocol.cpp), the parser (parsing.cpp, analytical.cpp)   *)
(* and the downloader (download.cpp).  They pass bare descriptor numbers   *)
(* to each other; a number that one thread has closed means something else *)
(* after the next accept or open.                                          *)
(*                                                                         *)
(* The pipe is a FIFO (YPipe), and a frame arrives in one piece (Framing). *)
(* The list of tasks is a sequence until the two threads that change it    *)
(* meet in it (TaskList); there this model ends.                           *)
(***************************************************************************)
EXTENDS Peers

VARIABLES
  knock,    \* an edge of the listening socket that epoll has not reported
  edge,     \* the clients whose socket has such an edge
  batch,    \* events[] of epoll_wait still to be handled
  eagain,   \* errno of the event loop's thread is EAGAIN
  pipe,     \* memoryPool: the frames written and not yet read
  job,      \* the resume the parser is in usleep for, in a sequence
  tasks,    \* downloadTask
  at,       \* the task the downloader is at
  errno,    \* of the downloader's thread: EPIPE, EBADF or other
  running,  \* the tasks the pool has started, or ever will
  dead,     \* the process has died
  raced,    \* parser and downloader have changed downloadTask at once
  taken,    \* history: the clients whose file another's munmap has unmapped
  cut,      \* history: the clients whose transfer another's errno has ended
  missed,   \* history: a waiting connection has no edge to come
  strayed   \* history: a number was used that had got another meaning

loopVars   == <<knock, batch, eagain, missed>>
parserVars == <<pipe, job>>
taskVars   == <<tasks, at, errno, taken, cut>>
poolVars   == <<running, raced>>
vars == <<peerVars, edge, dead, strayed, loopVars, parserVars, taskVars, poolVars>>

Listen == <<0, Free>>

\* What is at the address of a mapping that munmap has taken away.
Hole == "hole"
ASSUME HoleAssumption == {Nobody, Hole} \cap Clients = {}

Both == {"parser", "downloader"}

Up == ~dead /\ ~raced

\* Something has happened to the client's socket that epoll watches.
Notice(c) == edge' = IF c \in accepted /\ ~Shut(c) THEN edge \cup {c} ELSE edge

\* What is left of the edges when the numbers in S are closed.
EdgeWithout(S) == edge \ {Owner(x) : x \in {y \in S : IsSock(y)}}

\* The pool takes its tasks in order; one whose notify was missed stays in
\* its list (ThreadPool).
PoolStarts == running \in {{}, {"parser"}, Both}

Init ==
  /\ PeersInit
  /\ knock = FALSE /\ edge = {} /\ batch = {} /\ eagain = FALSE
  /\ pipe = <<>> /\ job = <<>>
  /\ tasks = <<>> /\ at = 1 /\ errno = "other"
  /\ dead = FALSE /\ raced = FALSE /\ missed = FALSE /\ strayed = FALSE
  /\ taken = {} /\ cut = {}
  /\ PoolStarts

-----------------------------------------------------------------------------
(* The clients.                                                            *)

Arrive(c) ==
  /\ Connect(c)
  /\ knock' = TRUE
  /\ missed' = (missed \/ backlog # <<>>)
  /\ UNCHANGED <<edge, dead, poolVars, strayed, batch, eagain, parserVars, taskVars>>

\* The client has acknowledged data: EPOLLOUT.
Writable(c) == c \in accepted \ gone /\ got[c] # <<>> /\ UNCHANGED peerVars

Signal(c) ==
  /\ Confirm(c) \/ Leave(c) \/ Writable(c)
  /\ Notice(c)
  /\ UNCHANGED <<dead, poolVars, strayed, loopVars, parserVars, taskVars>>

-----------------------------------------------------------------------------
(* Wrapper::exec: epoll_wait, then one run per event.                      *)

\* The events epoll has to report, each with whom it is about.
Reported ==
  (IF knock THEN {Listen} ELSE {})
    \cup {<<x, table[x]>> : x \in {y \in Fds : IsSock(y) /\ Owner(y) \in edge}}

EpollWait ==
  /\ batch = {} /\ Reported # {}
  /\ batch' = Reported
  /\ knock' = FALSE
  /\ edge' = {}
  /\ UNCHANGED <<peerVars, dead, poolVars, strayed, eagain, missed, parserVars,
                 taskVars>>

\* epoll_ctl (EPOLL_CTL_ADD) reports what is there already.
WatchLate(c) == UNCHANGED edge
Watch(c)     == edge' = edge \cup {c}

\* SocketProtocol::run: one accept per event.
Accept ==
  /\ Listen \in batch
  /\ batch' = batch \ {Listen}
  /\ TakeConnection
  /\ Watch(Head(backlog))
  /\ UNCHANGED <<dead, poolVars, strayed, knock, eagain, missed, parserVars,
                 taskVars>>

\* No descriptor is free: EMFILE.  The connection goes on waiting, its edge is
\* used up.
AcceptFails ==
  /\ Listen \in batch
  /\ ~HasFree
  /\ batch' = batch \ {Listen}
  /\ missed' = TRUE
  /\ eagain' = FALSE
  /\ UNCHANGED <<peerVars, edge, dead, poolVars, strayed, knock, parserVars,
                 taskVars>>

\* An event on descriptor x is taken from the batch; its meaning may have
\* changed since epoll_wait.
TakeEvent(x) ==
  \E e \in batch : /\ e # Listen /\ e[1] = x
                   /\ batch' = batch \ {e}
                   /\ strayed' = (strayed \/ table[x] # e[2])

\* close (clientFd), whatever it is now.
CloseFd(x) ==
  /\ table' = Closed({x})
  /\ edge' = EdgeWithout({x})
  /\ UNCHANGED <<backlog, accepted, gone, phase, told, from, rx, got, unopened>>

\* ClientProtocol::run: recv returns a frame, which goes into the pipe.
RecvFrame(x) ==
  /\ TakeEvent(x)
  /\ TakeFrame(x)
  /\ LET c == Owner(x)
     IN  pipe' = Append(pipe, [fn |-> rx[c][1], arg |-> rx[c][2], fd |-> x, name |-> c])
  /\ UNCHANGED <<edge, dead, poolVars, knock, eagain, missed, job, taskVars>>

\* recv has nothing: EAGAIN.
RecvNothing(x) ==
  /\ TakeEvent(x)
  /\ IsSock(x)
  /\ rx[Owner(x)] = NoFrame /\ Owner(x) \notin gone
  /\ eagain' = TRUE
  /\ UNCHANGED <<peerVars, edge, dead, poolVars, knock, missed, parserVars, taskVars>>

\* recv returns 0 and leaves errno alone: the socket stays open after EAGAIN.
RecvEof(x) ==
  /\ TakeEvent(x)
  /\ IsSock(x)
  /\ rx[Owner(x)] = NoFrame /\ Owner(x) \in gone
  /\ IF eagain THEN UNCHANGED <<peerVars, edge>> ELSE CloseFd(x)
  /\ UNCHANGED <<dead, poolVars, knock, eagain, missed, parserVars, taskVars>>

\* recv fails with something else (ECONNRESET, EBADF, ENOTSOCK).
RecvFails(x) ==
  /\ TakeEvent(x)
  /\ IsSock(x) => rx[Owner(x)] = NoFrame /\ Owner(x) \in gone
  /\ eagain' = FALSE
  /\ CloseFd(x)
  /\ UNCHANGED <<dead, poolVars, knock, missed, parserVars, taskVars>>

EventLoop ==
  /\ Up
  /\ \/ EpollWait
     \/ Accept
     \/ AcceptFails
     \/ \E x \in Fds : RecvFrame(x) \/ RecvNothing(x) \/ RecvEof(x) \/ RecvFails(x)

-----------------------------------------------------------------------------
(* The parser: one handler per frame.  data is the record it has read.     *)

\* The number in a record still means the socket it came from.
Stray(frame) == table[frame.fd] # Sock(frame.name)

\* memoryPool.read (&data)
data == Head(pipe)

ReadPipe(fns) ==
  /\ job = <<>> /\ pipe # <<>>
  /\ data.fn \in fns
  /\ pipe' = Tail(pipe)

NormalAnalytical ==
  /\ ReadPipe({"Normal"})
  /\ \E fileFd \in Numbers : Open(data.name, fileFd) /\ Reply(data.fd, "offered", fileFd)
  /\ strayed' = (strayed \/ Stray(data))
  /\ UNCHANGED <<backlog, accepted, gone, from, rx, got, edge, dead, poolVars,
                 loopVars, job, taskVars>>

\* Either handler: access does not find the file.
FileNotExit ==
  /\ ReadPipe({"Normal", "Resume"})
  /\ Reply(data.fd, "refused", NoFd)
  /\ strayed' = (strayed \/ Stray(data))
  /\ UNCHANGED <<table, backlog, accepted, gone, from, rx, got, unopened, edge, dead,
                 poolVars, loopVars, job, taskVars>>

\* The tasks, when p is what is mapped now at the addresses of those in S.
Remap(S, p) ==
  [i \in DOMAIN tasks |-> IF i \in S THEN [tasks[i] EXCEPT !.p = p] ELSE tasks[i]]

(***************************************************************************)
(* mmap and addDownTask: p is whose file is mapped, if any.  The kernel    *)
(* may place it where a mapping was taken away from another task, which    *)
(* then sends what it finds there.                                         *)
(***************************************************************************)
AddDownTask(fileFd, clientFd, fileSize, offset, p, name) ==
  \E S \in SUBSET {i \in DOMAIN tasks : tasks[i].p = Hole /\ p # Nobody} :
    tasks' = Append(Remap(S, p),
                    [file |-> fileFd, sock |-> clientFd, left |-> fileSize,
                     offset |-> offset, p |-> p, name |-> name])

EnsureAnalytical ==
  /\ ReadPipe({"Ensure"})
  /\ AddDownTask(data.arg, data.fd, SizeOf(data.arg), 0,
                 IF IsFile(data.arg) THEN Owner(data.arg) ELSE Nobody, data.name)
  /\ strayed' = (\/ strayed
                 \/ data.arg # NoFd /\ table[data.arg] # File(data.name))
  /\ UNCHANGED <<peerVars, edge, dead, poolVars, loopVars, job, at, errno, taken,
                 cut>>

\* ContinuinglyAnalytical: the reply, then usleep.
ContinuinglyAnalytical ==
  /\ ReadPipe({"Resume"})
  /\ Reply(data.fd, "receiving", NoFd)
  /\ job' = <<data>>
  /\ strayed' = (strayed \/ Stray(data))
  /\ UNCHANGED <<table, backlog, accepted, gone, from, rx, got, unopened, edge, dead,
                 poolVars, loopVars, taskVars>>

\* count, where the resume starts.
CountFromStart(frame) == 0
Count(frame)          == frame.arg

AfterUsleep ==
  /\ job # <<>>
  /\ job' = <<>>
  /\ LET frame == Head(job)
     IN  \E fileFd \in Numbers :
           /\ Open(frame.name, fileFd)
           /\ AddDownTask(fileFd, frame.fd, SizeOf(fileFd) - frame.arg, Count(frame),
                          IF fileFd = NoFd THEN Nobody ELSE frame.name, frame.name)
  /\ UNCHANGED <<backlog, accepted, gone, phase, told, from, rx, got, edge, dead,
                 poolVars, strayed, loopVars, pipe, at, errno, taken, cut>>

ParserThread ==
  /\ Up /\ "parser" \in running
  /\ \/ NormalAnalytical
     \/ FileNotExit
     \/ EnsureAnalytical
     \/ ContinuinglyAnalytical
     \/ AfterUsleep

-----------------------------------------------------------------------------
(* The downloader: Download::run for the task it is at.                    *)

task == tasks[at]

\* The loop goes on to the next task, or from the last one to the first.
GoOn == at' = IF at < Len(tasks) THEN at + 1 ELSE 1

FatalAny == {"EPIPE", "EBADF", "other"}
Fatal    == {"EPIPE", "EBADF"}

\* The errno behind the two closes when it is e before them.
AfterCloses(e) ==
  IF IsClosed(task.sock) \/ IsClosed(task.file) \/ task.sock = task.file
  THEN "EBADF" ELSE e

\* downloadTask.erase (iter)
Without(s) == SubSeq(s, 1, at - 1) \o SubSeq(s, at + 1, Len(s))

(***************************************************************************)
(* munmap (p, 4294967295).  It fails with EINVAL where nothing is mapped,  *)
(* where addresses have 32 bits, and within 4 GB of their end.             *)
(***************************************************************************)
MunmapFails ==
  /\ tasks' = Without(tasks)
  /\ errno' = AfterCloses("other")
  /\ UNCHANGED taken

(***************************************************************************)
(* Otherwise it takes away what is mapped in the 4 GB above p as well,     *)
(* which may be other transfers' files from their first byte on: one of    *)
(* which only bytes already sent go loses nothing, the others are in S.    *)
(* It leaves errno, which is e, alone.                                     *)
(***************************************************************************)
Munmap(e) ==
  /\ task.p # Nobody
  /\ \E S \in SUBSET {i \in DOMAIN tasks \ {at} : tasks[i].p \in Clients} :
       /\ tasks' = Without(Remap(S, Hole))
       /\ taken' = taken \cup {tasks[i].name : i \in S}
  /\ errno' = AfterCloses(e)

\* munmap, close (clientFd), close (fileFd), and the task is erased.
TearDown(e) ==
  /\ MunmapFails \/ Munmap(e)
  /\ table' = Closed({task.sock, task.file})
  /\ edge' = EdgeWithout({task.sock, task.file})
  /\ at' = 1
  /\ UNCHANGED dead

\* The libraries' code or data was above p, or a stack: the process dies.
Die ==
  /\ task.p # Nobody
  /\ dead' = TRUE
  /\ table' = Closed(Fds)
  /\ edge' = {}
  /\ UNCHANGED <<errno, tasks, at, taken>>

\* The task ends, with e in errno.
EndTask(e) ==
  /\ TearDown(e) \/ Die
  /\ strayed' = (\/ strayed
                 \/ table[task.sock] # Sock(task.name)
                 \/ task.file # NoFd /\ table[task.file] # File(task.name))
  /\ UNCHANGED <<backlog, accepted, gone, phase, told, from, rx, unopened, loopVars,
                 parserVars, poolVars>>

\* What one send of the task may take.
SendableBeyond == 1 .. task.left + 1
Sendable       == 1 .. task.left

CanSend == IsSock(task.sock) /\ task.p \in Clients /\ task.left > 0

\* The send succeeds and leaves errno alone: there is more to send.
SendPart ==
  /\ CanSend
  /\ errno \notin Fatal
  /\ \E n \in Sendable :
       /\ n < task.left
       /\ Deliver(task.sock, task.p, task.offset, n)
       /\ tasks' = [tasks EXCEPT ![at] = [task EXCEPT !.left = @ - n,
                                                      !.offset = @ + n]]
  /\ strayed' = (strayed \/ table[task.sock] # Sock(task.name))
  /\ GoOn
  /\ UNCHANGED <<table, backlog, accepted, gone, phase, told, from, rx, unopened,
                 edge, dead, poolVars, loopVars, parserVars, errno, taken, cut>>

\* The send succeeds with the last byte.
SendLast ==
  /\ CanSend
  /\ errno \notin Fatal
  /\ task.left \in Sendable
  /\ Deliver(task.sock, task.p, task.offset, task.left)
  /\ EndTask(errno)
  /\ UNCHANGED cut

\* The send succeeds, but errno is still that of an earlier call.
SendStaleErrno ==
  /\ CanSend
  /\ errno \in Fatal
  /\ \E n \in Sendable : Deliver(task.sock, task.p, task.offset, n)
  /\ EndTask(errno)
  /\ cut' = cut \cup {task.name}

\* send finds the descriptor closed (EBADF), or the client's end (EPIPE).
Unreachable ==
  IsClosed(task.sock) \/ (IsSock(task.sock) /\ Owner(task.sock) \in gone)
SendError == IF IsClosed(task.sock) THEN "EBADF" ELSE "EPIPE"

\* There is nothing to send, or less: a place behind the end of the file.
SendNothing ==
  /\ task.left <= 0
  /\ \E e \in {errno, SendError} : (e # errno => Unreachable) /\ EndTask(e)
  /\ UNCHANGED <<got, cut>>

SendFatal ==
  /\ task.left > 0
  /\ Unreachable
  /\ EndTask(SendError)
  /\ UNCHANGED <<got, cut>>

\* The buffer is full, or the error is one that is not looked for (EFAULT,
\* ENOTSOCK): the task stays.
SendAgain ==
  /\ task.left > 0
  /\ ~IsClosed(task.sock)
  /\ errno' = "other"
  /\ GoOn
  /\ UNCHANGED <<peerVars, edge, dead, poolVars, strayed, loopVars, parserVars, tasks,
                 taken, cut>>

DownloaderThread ==
  /\ Up /\ "downloader" \in running /\ tasks # <<>>
  /\ \/ SendPart
     \/ SendLast
     \/ SendStaleErrno
     \/ SendNothing
     \/ SendFatal
     \/ SendAgain

ClientStep(c) == Up /\ (Arrive(c) \/ Signal(c))

(***************************************************************************)
(* The parser appends a task while the downloader is at the start of its   *)
(* walk or erases the last node (TaskList: lagged, collided).  What then   *)
(* becomes of the list is not followed here.                               *)
(***************************************************************************)
Appending == job # <<>> \/ (pipe # <<>> /\ data.fn = "Ensure")

Race ==
  /\ Up /\ running = Both /\ Appending
  /\ raced' = TRUE
  /\ UNCHANGED <<peerVars, edge, dead, strayed, loopVars, parserVars, taskVars,
                 running>>

-----------------------------------------------------------------------------
Next ==
  \/ \E c \in Clients : ClientStep(c)
  \/ EventLoop
  \/ ParserThread
  \/ DownloaderThread
  \/ Race

Spec == Init /\ [][Next]_vars

(***************************************************************************)
(* The threads the pool has started never rest; clienta confirms           *)
(* what it is offered and empties its receive buffer, so that the sends to *)
(* it cannot find the buffer full for ever.  No client takes more than     *)
(* Bytes, so that fairness to the sends of all clients is fairness to      *)
(* those of each.                                                          *)
(***************************************************************************)
Confirms == Up /\ \E c \in Clients : Confirm(c) /\ Signal(c)

Sends == Up /\ "downloader" \in running /\ tasks # <<>> /\ (SendPart \/ SendLast)

FairSpec ==
  /\ Spec
  /\ WF_batch(EventLoop) /\ WF_parserVars(ParserThread) /\ WF_taskVars(DownloaderThread)
  /\ WF_phase(Confirms) /\ SF_taskVars(Sends)

-----------------------------------------------------------------------------
Frames == [fn : Requests, arg : Nat, fd : Fds, name : Clients]
Tasks  == [file : Numbers, sock : Fds, left : Int, offset : Nat,
           p : Clients \cup {Nobody, Hole}, name : Clients]

TypeOK ==
  /\ PeersTypeOK
  /\ edge \subseteq accepted
  /\ {knock, eagain, dead, raced, missed, strayed} \subseteq BOOLEAN
  /\ running \subseteq Both /\ taken \subseteq Clients /\ cut \subseteq Clients
  /\ batch \subseteq {Listen} \cup {<<x, Sock(c)>> : x \in Fds, c \in Clients}
  /\ pipe \in Seq(Frames) /\ job \in Seq(Frames)
  /\ tasks \in Seq(Tasks)
  /\ \A i \in DOMAIN tasks : tasks[i].offset + tasks[i].left = SizeOf(tasks[i].file)
  /\ at \in 1 .. Len(tasks) + 1
  /\ errno \in {"EPIPE", "EBADF", "other"}

(***************************************************************************)
(* What a client receives is its own file, in order, from where it asked   *)
(* to start, whatever the other clients do and whatever becomes of their   *)
(* mappings (download.cpp:43): only a client whose own file was taken away *)
(* may get something else.  This is so as long as no thread has used a     *)
(* descriptor number after it had changed hands (protocol.cpp:68,          *)
(* analytical.cpp:72, download.cpp:44) and the list is a list.             *)
(***************************************************************************)
OwnBytes == ~strayed /\ ~raced => \A c \in Clients \ taken : OwnPrefix(c)

(***************************************************************************)
(* The server does not close the socket of a client that stays before the  *)
(* client has everything, unless the errno of another transfer has cut it  *)
(* short (download.cpp:42); and that happens only after a client has left: *)
(* EPIPE stays in errno when the munmap behind it succeeds.  Except that a *)
(* number has changed hands, an open has failed (both leave EBADF), or     *)
(* the process or the list is gone.                                        *)
(***************************************************************************)
Broken == strayed \/ unopened # {} \/ dead \/ raced

CutShortHasCause ==
  ~Broken =>
    /\ \A c \in Clients :
         Shut(c) /\ c \notin gone /\ phase[c] # "refused" => Complete(c) \/ c \in cut
    /\ cut # {} => gone # {}

(***************************************************************************)
(* The event loop handles one connection and one frame per edge            *)
(* (protocol.cpp:36, protocol.cpp:65).  Every frame that has arrived still *)
(* has an event to come, and so has every connection unless two of them    *)
(* came on one edge or accept has failed.                                  *)
(***************************************************************************)
NothingUnseen ==
  /\ backlog # <<>> => knock \/ Listen \in batch \/ missed
  /\ \A c \in accepted :
       rx[c] # NoFrame =>
         \/ Shut(c)
         \/ c \in edge
         \/ \E e \in batch \ {Listen} : table[e[1]] = Sock(c)

(***************************************************************************)
(* Every client that is accepted, and stays, gets the rest of its file,    *)
(* also when others leave at any time.  Except the clients whose file or   *)
(* errno another transfer has spoiled, and a server of which the pool has  *)
(* not started both loops, because it missed a notify.                     *)
(***************************************************************************)
EveryClientServed ==
  \A c \in Clients :
    c \in accepted ~> \/ Complete(c) \/ phase[c] = "refused"
                      \/ c \in gone \cup taken \cup cut
                      \/ Broken \/ running # Both

(***************************************************************************)
(* The server keeps the promise of Transfers step by step, through accept, *)
(* resumes, closes and reused numbers, until one of the following happens: *)
(* a thread uses a number that has changed hands, an open fails, munmap    *)
(* takes away the file of another transfer, an old errno ends one, the     *)
(* list is changed by two threads at once, or the process dies.            *)
(***************************************************************************)
Promise == INSTANCE Transfers WITH
  released <- gone \cup {c \in Clients : phase[c] = "refused"},
  closed   <- {c \in Clients : Shut(c)},
  broken   <- Broken \/ taken # {} \/ cut # {}

ImplementsTransfers == Promise!Spec
=============================================================================
