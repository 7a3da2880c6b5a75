---------------------------- MODULE ServerProofs ----------------------------
(***************************************************************************)
(* Proofs about Server: its types, what a client receives, when its socket *)
(* is closed, that no frame is left unseen, and that every step is one of  *)
(* Transfers until the promise breaks; for any clients, files and numbers  *)
(* of descriptors.                                                         *)
(***************************************************************************)
EXTENDS Server, PeersProofs

-----------------------------------------------------------------------------
(* The invariant.                                                          *)

TypeInv ==
  /\ TypeOK
  /\ \A f \in Elems(pipe) : <<f.fn, f.arg>> \in Messages
  /\ \A f \in Elems(job) : <<f.fn, f.arg>> \in Messages /\ f.fn = "Resume"
  /\ Len(job) <= 1
  /\ IF tasks = <<>> THEN at = 1 ELSE at <= Len(tasks)

(***************************************************************************)
(* What the server has to do for a client is in one place: a frame in its  *)
(* socket, a record in the pipe, a resume in usleep, or a task.            *)
(***************************************************************************)
InSocket(c) == rx[c] # NoFrame
InPipe(c)   == \E f \in Elems(pipe) : f.name = c
InJob(c)    == \E f \in Elems(job) : f.name = c
InTasks(c)  == \E t \in Elems(tasks) : t.name = c

OnePlace(c) ==
  /\ InSocket(c) => ~InPipe(c) /\ ~InJob(c) /\ ~InTasks(c)
  /\ InPipe(c) => ~InJob(c) /\ ~InTasks(c)
  /\ InJob(c) => ~InTasks(c)
  /\ phase[c] \in {"away", "refused", "offered"} =>
       ~InSocket(c) /\ ~InPipe(c) /\ ~InJob(c) /\ ~InTasks(c)
  /\ phase[c] = "asked" => ~InJob(c) /\ ~InTasks(c)
  /\ InSocket(c) => (rx[c][1] = "Ensure" <=> phase[c] = "receiving")

\* A record in the pipe is an Ensure exactly if the client is confirming.
PlaceOf(c) ==
  /\ OnePlace(c)
  /\ \A f \in Elems(pipe) : f.name = c => (f.fn = "Ensure" <=> phase[c] = "receiving")

(***************************************************************************)
(* Where a client asked to start goes with the request, and a task is as   *)
(* far as its client, also when another's munmap has taken its file away.  *)
(***************************************************************************)
StartOf(fn, arg) == IF fn = "Resume" THEN arg ELSE 0

BytesOf(c) ==
  /\ phase[c] \in {"away", "asked", "offered"} => got[c] = <<>>
  /\ phase[c] \in {"away", "offered"} => from[c] = 0
  /\ InSocket(c) => got[c] = <<>> /\ from[c] = StartOf(rx[c][1], rx[c][2])
  /\ \A f \in Elems(pipe) \cup Elems(job) :
       f.name = c => got[c] = <<>> /\ from[c] = StartOf(f.fn, f.arg)
  /\ \A t \in Elems(tasks) :
       t.name = c => /\ t.p \in {Nobody, c} \/ c \in taken
                     /\ c \in gone \/ t.offset = from[c] + Len(got[c])

Orderly ==
  /\ Distinct(pipe) /\ Distinct(tasks)
  /\ \A c \in Clients : PlaceOf(c) /\ BytesOf(c)

\* A task does not go behind the end of the file.
InRange == \A c \in Clients : from[c] + Len(got[c]) <= Bytes

(***************************************************************************)
(* As long as every open succeeds, every task has its file, errno is EPIPE *)
(* only if somebody has left, and a socket was closed for a reason.        *)
(***************************************************************************)
Done(c) == Complete(c) \/ c \in gone \/ phase[c] = "refused"

FilesInv ==
  /\ \A c \in Clients :
       /\ phase[c] = "offered" => told[c] # NoFd
       /\ InSocket(c) /\ rx[c][1] = "Ensure" => rx[c][2] # NoFd
  /\ \A f \in Elems(pipe) : f.fn = "Ensure" => f.arg # NoFd
  /\ \A t \in Elems(tasks) : t.file # NoFd

ErrnoInv ==
  /\ errno # "EBADF"
  /\ errno = "EPIPE" \/ cut # {} => gone # {}

CauseInv ==
  /\ FilesInv
  /\ ErrnoInv
  /\ \A c \in Clients : Shut(c) => Done(c) \/ c \in cut

\* Two connections have shared an edge if two wait.
EdgeInv == NothingUnseen /\ (missed \/ Len(backlog) <= 1)

ServerInv ==
  /\ TypeInv
  /\ ConnInv
  /\ EdgeInv
  /\ OwnBytes
  /\ ~(strayed \/ dead) => Orderly /\ InRange
  /\ ~Broken => CauseInv
-----------------------------------------------------------------------------
(* Sequences of records as sets of them.                                   *)

\* s without its element k.
Dropped(s, k) == SubSeq(s, 1, k - 1) \o SubSeq(s, k + 1, Len(s))

LEMMA DroppedElems ==
  ASSUME NEW S, NEW s \in Seq(S), NEW k \in 1 .. Len(s)
  PROVE  /\ Dropped(s, k) \in Seq(S) /\ s[k] \in Elems(s) /\ s[k] \in S
         /\ Elems(Dropped(s, k)) \subseteq Elems(s)
         /\ Distinct(s) => /\ Distinct(Dropped(s, k))
                           /\ \A e \in Elems(Dropped(s, k)) : e.name # s[k].name
<1> DEFINE u == SubSeq(s, 1, k - 1)
           v == SubSeq(s, k + 1, Len(s))
           old == [i \in 1 .. Len(s) - 1 |-> IF i < k THEN i ELSE i + 1]
<1>1. /\ u \in Seq(S) /\ Len(u) = k - 1 /\ \A i \in 1 .. k - 1 : u[i] = s[i]
      /\ v \in Seq(S) /\ Len(v) = Len(s) - k /\ \A i \in 1 .. Len(s) - k : v[i] = s[k + i]
      /\ Len(s) \in Nat /\ DOMAIN s = 1 .. Len(s) /\ k \in DOMAIN s
  OBVIOUS
<1> HIDE DEF u, v
<1>2. u \o v \in Seq(S) /\ Len(u \o v) = Len(s) - 1
  <2>1. u \o v \in Seq(S) /\ Len(u \o v) = Len(u) + Len(v)
    BY <1>1, ConcatProperties
  <2> QED BY <1>1, <2>1
<1>3. DOMAIN (u \o v) = 1 .. Len(s) - 1
  BY <1>2, LenProperties
<1>4. ASSUME NEW i \in 1 .. Len(s) - 1
      PROVE  (u \o v)[i] = s[old[i]] /\ old[i] \in DOMAIN s /\ old[i] # k
  <2>1. CASE i < k
    <3>1. (u \o v)[i] = u[i] /\ i \in 1 .. k - 1
      BY <1>1, <2>1
    <3> QED BY <1>1, <3>1, <2>1
  <2>2. CASE i >= k
    <3>1. (u \o v)[i] = v[i - (k - 1)] /\ i - (k - 1) \in 1 .. Len(s) - k
      BY <1>1, <2>2
    <3>2. v[i - (k - 1)] = s[k + (i - (k - 1))] /\ k + (i - (k - 1)) = i + 1
      BY <1>1, <3>1
    <3> QED BY <1>1, <3>1, <3>2, <2>2
  <2> QED BY <1>1, <2>1, <2>2
<1>5. \A i, j \in 1 .. Len(s) - 1 : old[i] = old[j] => i = j
  BY <1>1
<1>6. Dropped(s, k) = u \o v
  BY DEF Dropped, u, v
<1> HIDE DEF old
<1>7. Elems(u \o v) \subseteq Elems(s)
  BY <1>3, <1>4 DEF Elems
<1>8. ASSUME Distinct(s)
      PROVE  Distinct(u \o v) /\ \A e \in Elems(u \o v) : e.name # s[k].name
  <2> DEFINE w == u \o v
  <2>1. /\ DOMAIN w = 1 .. Len(s) - 1
        /\ \A i \in DOMAIN w : w[i] = s[old[i]] /\ old[i] \in DOMAIN s /\ old[i] # k
    BY <1>3, <1>4
  <2> HIDE DEF w
  <2>2. ASSUME NEW i \in DOMAIN w, NEW j \in DOMAIN w, w[i].name = w[j].name PROVE i = j
    <3>1. old[i] = old[j]
      BY <2>1, <2>2, <1>8 DEF Distinct
    <3> QED BY <2>1, <3>1, <1>5
  <2>3. \A i \in DOMAIN w : w[i].name # s[k].name
    BY <1>1, <2>1, <1>8 DEF Distinct
  <2>4. Distinct(w) /\ \A e \in Elems(w) : e.name # s[k].name
    BY <2>2, <2>3 DEF Distinct, Elems
  <2> QED BY <2>4 DEF w
<1>9. s[k] \in Elems(s) /\ s[k] \in S
  BY <1>1 DEF Elems
<1> QED BY <1>2, <1>6, <1>7, <1>8, <1>9

LEMMA ExceptElems ==
  ASSUME NEW S, NEW s \in Seq(S), NEW k \in 1 .. Len(s), NEW e \in S,
         NEW u \in Seq(S), Len(u) = Len(s), u[k] = e,
         \A i \in DOMAIN s : i # k => u[i] = s[i]
  PROVE  Elems(u) \subseteq Elems(s) \cup {e}
BY DEF Elems

LEMMA ExceptDistinct ==
  ASSUME NEW S, NEW s \in Seq(S), NEW k \in 1 .. Len(s), NEW e \in S,
         NEW u \in Seq(S), Len(u) = Len(s), u[k] = e,
         \A i \in DOMAIN s : i # k => u[i] = s[i],
         Distinct(s), NEW n, e.name = n, s[k].name = n
  PROVE  /\ Distinct(u)
         /\ \A d \in Elems(u) : d = e \/ (d \in Elems(s) /\ d.name # n)
<1>1. DOMAIN u = DOMAIN s /\ k \in DOMAIN s
  OBVIOUS
<1> QED BY <1>1 DEF Elems, Distinct
-----------------------------------------------------------------------------
(* Types.                                                                  *)

\* The steps that send to a client and may end its transfer.
SendSteps == SendPart \/ SendLast \/ SendStaleErrno \/ SendNothing \/ SendFatal

TornDown == \E e : TearDown(e)

Ends ==
  /\ TornDown \/ Die
  /\ \E e : EndTask(e)

LEMMA EndCases ==
  ASSUME SendLast \/ SendStaleErrno \/ SendNothing \/ SendFatal
  PROVE  Ends
<1>1. ASSUME NEW e, EndTask(e) PROVE Ends
  BY <1>1 DEF EndTask, Ends, TornDown
<1> QED BY <1>1 DEF SendLast, SendStaleErrno, SendNothing, SendFatal

LEMMA NextCases ==
  ASSUME [Next]_vars
  PROVE  \/ \E c \in Clients : Arrive(c) \/ Signal(c)
         \/ EpollWait \/ Accept \/ AcceptFails
         \/ \E x \in Fds : RecvFrame(x) \/ RecvNothing(x) \/ RecvEof(x) \/ RecvFails(x)
         \/ NormalAnalytical \/ FileNotExit \/ EnsureAnalytical
         \/ ContinuinglyAnalytical \/ AfterUsleep
         \/ tasks # <<>> /\ SendSteps
         \/ tasks # <<>> /\ SendAgain
         \/ Race
         \/ UNCHANGED vars
BY DEF Next, ClientStep, EventLoop, ParserThread, DownloaderThread, SendSteps

(***************************************************************************)
(* The task the downloader is at is one of the list's.                     *)
(***************************************************************************)
LEMMA TaskTyped ==
  ASSUME TypeInv, tasks # <<>>
  PROVE  /\ at \in 1 .. Len(tasks) /\ task \in Tasks /\ task \in Elems(tasks)
         /\ task.file \in Numbers /\ task.sock \in Fds /\ task.name \in Clients
         /\ task.left \in Int /\ task.offset \in Nat
         /\ task.p \in Clients \cup {Nobody, Hole}
         /\ task.offset + task.left <= Bytes
<1>1. at \in 1 .. Len(tasks) /\ tasks \in Seq(Tasks)
  BY DEF TypeInv, TypeOK
<1>2. task \in Tasks /\ at \in DOMAIN tasks
  BY <1>1 DEF task
<1>3. task.offset + task.left = SizeOf(task.file)
  BY <1>2 DEF TypeInv, TypeOK, task
<1>4. SizeOf(task.file) <= Bytes
  BY NumbersAssumption DEF SizeOf
<1>5. task \in Elems(tasks)
  BY <1>2 DEF Elems, task
<1> QED BY <1>1, <1>2, <1>3, <1>4, <1>5 DEF Tasks

(***************************************************************************)
(* The list after n bytes of that task are sent.                           *)
(***************************************************************************)
LEMMA SentTask ==
  ASSUME TypeInv, tasks # <<>>, NEW n \in Nat,
         tasks' = [tasks EXCEPT ![at] = [task EXCEPT !.left = @ - n, !.offset = @ + n]]
  PROVE  \E e \in Tasks :
           /\ e.file = task.file /\ e.p = task.p /\ e.name = task.name
           /\ e.left = task.left - n /\ e.offset = task.offset + n
           /\ tasks' \in Seq(Tasks) /\ Len(tasks') = Len(tasks)
           /\ Elems(tasks') \subseteq Elems(tasks) \cup {e}
           /\ Distinct(tasks) =>
                /\ Distinct(tasks')
                /\ \A d \in Elems(tasks') : d = e \/ (d \in Elems(tasks) /\ d.name # task.name)
<1>1. PICK e : e = [task EXCEPT !.left = @ - n, !.offset = @ + n]
  OBVIOUS
<1>2. /\ task \in Tasks /\ at \in 1 .. Len(tasks) /\ task.left \in Int /\ task.offset \in Nat
      /\ tasks \in Seq(Tasks)
  BY TaskTyped DEF TypeInv, TypeOK
<1>3. /\ task.file \in Numbers /\ task.sock \in Fds
      /\ task.p \in Clients \cup {Nobody, Hole} /\ task.name \in Clients
  BY <1>2 DEF Tasks
<1>4. e = [file |-> task.file, sock |-> task.sock, left |-> task.left - n,
           offset |-> task.offset + n, p |-> task.p, name |-> task.name]
  BY <1>1, <1>2 DEF Tasks
<1>5. e \in Tasks /\ e.file = task.file /\ e.p = task.p /\ e.name = task.name
      /\ e.left = task.left - n /\ e.offset = task.offset + n
  <2>1. task.left - n \in Int /\ task.offset + n \in Nat
    BY <1>2
  <2> QED BY <1>3, <1>4, <2>1 DEF Tasks
<1>6. tasks' = [tasks EXCEPT ![at] = e]
  BY <1>1
<1>7. tasks \in Seq(Tasks) /\ at \in 1 .. Len(tasks) /\ e \in Tasks
  BY <1>2, <1>5
<1>8. /\ tasks' \in Seq(Tasks) /\ Len(tasks') = Len(tasks)
      /\ tasks'[at] = e /\ \A i \in DOMAIN tasks : i # at => tasks'[i] = tasks[i]
  BY <1>6, <1>7
<1>9. Elems(tasks') \subseteq Elems(tasks) \cup {e}
  BY ONLY <1>7, <1>8, ExceptElems
<1>10. ASSUME Distinct(tasks)
       PROVE  /\ Distinct(tasks')
              /\ \A d \in Elems(tasks') : d = e \/ (d \in Elems(tasks) /\ d.name # task.name)
  <2>1. PICK c : c = task.name
    OBVIOUS
  <2>2. Distinct(tasks) /\ e.name = c /\ tasks[at].name = c
    BY <1>5, <1>10, <2>1 DEF task
  <2>3. /\ Distinct(tasks')
        /\ \A d \in Elems(tasks') : d = e \/ (d \in Elems(tasks) /\ d.name # c)
    BY ONLY <1>7, <1>8, <2>2, ExceptDistinct
  <2> QED BY <2>1, <2>3
<1> QED BY <1>5, <1>8, <1>9, <1>10

(***************************************************************************)
(* The record the parser reads.                                            *)
(***************************************************************************)
LEMMA DataTyped ==
  ASSUME TypeInv, NEW fns, ReadPipe(fns)
  PROVE  /\ data \in Frames /\ data \in Elems(pipe)
         /\ data.fn \in fns /\ data.fd \in Fds /\ data.name \in Clients
         /\ <<data.fn, data.arg>> \in Messages
         /\ data.fn = "Ensure" => data.arg \in Numbers
         /\ data.fn = "Resume" => data.arg \in 0 .. Bytes
<1>1. pipe \in Seq(Frames) /\ pipe # <<>> /\ data.fn \in fns
  BY DEF ReadPipe, TypeInv, TypeOK
<1>2. data \in Frames /\ data \in Elems(pipe)
  BY <1>1, TailElems DEF data
<1>3. <<data.fn, data.arg>> \in Messages
  BY <1>2 DEF TypeInv
<1> QED BY <1>1, <1>2, <1>3 DEF Frames, Messages

\* The resume the parser is in usleep for.
LEMMA JobTyped ==
  ASSUME TypeInv, job # <<>>
  PROVE  /\ Head(job) \in Frames /\ Head(job) \in Elems(job)
         /\ Head(job).fd \in Fds /\ Head(job).name \in Clients
         /\ Head(job).fn = "Resume" /\ Head(job).arg \in 0 .. Bytes
<1>1. job \in Seq(Frames)
  BY DEF TypeInv, TypeOK
<1>2. Head(job) \in Frames /\ Head(job) \in Elems(job)
  BY <1>1, TailElems
<1>3. <<Head(job).fn, Head(job).arg>> \in Messages /\ Head(job).fn = "Resume"
  BY <1>2 DEF TypeInv
<1> QED BY <1>2, <1>3 DEF Frames, Messages

(***************************************************************************)
(* What a send does to the table and to what clients have received.        *)
(***************************************************************************)
LEMMA EndTaskTable ==
  ASSUME PeersTypeOK, Ends
  PROVE  /\ \E n \in Limits : table' \in [1 .. n -> Owners]
         /\ Fds' = Fds /\ Numbers' = Numbers /\ Messages' = Messages
         /\ edge' \subseteq edge
<1>1. \E S : table' = Closed(S)
  BY DEF Ends, TornDown, TearDown, Die
<1>2. edge' \subseteq edge
  BY DEF Ends, TornDown, TearDown, Die, EdgeWithout
<1> QED BY <1>1, <1>2, TableClosed

LEMMA SendsPeers ==
  ASSUME TypeInv, tasks # <<>>, SendSteps
  PROVE  PeersTypeOK' /\ Fds' = Fds /\ Numbers' = Numbers /\ Messages' = Messages
         /\ edge' \subseteq edge /\ accepted' = accepted
<1>1. PeersTypeOK
  BY DEF TypeInv, TypeOK
<1>2. got' \in [Clients -> Seq(Clients \X (1 .. Bytes))]
  <2>1. ASSUME NEW n \in Nat, n <= task.left, CanSend,
               Deliver(task.sock, task.p, task.offset, n)
        PROVE  got' \in [Clients -> Seq(Clients \X (1 .. Bytes))]
    <3>1. IsSock(task.sock) /\ task.p \in Clients /\ task.offset \in Nat
          /\ task.offset + n <= Bytes
      BY <2>1, TaskTyped, NumbersAssumption DEF CanSend
    <3> QED BY <1>1, <2>1, <3>1, DeliverTyped
  <2>2. task.left \in Int
    BY TaskTyped
  <2>3. CASE SendPart
    BY <2>1, <2>2, <2>3 DEF SendPart, Sendable
  <2>4. CASE SendLast
    BY <2>1, <2>2, <2>4 DEF SendLast, Sendable
  <2>5. CASE SendStaleErrno
    BY <2>1, <2>2, <2>5 DEF SendStaleErrno, Sendable
  <2>6. CASE SendNothing \/ SendFatal
    BY <1>1, <2>6 DEF SendNothing, SendFatal, PeersTypeOK
  <2> QED BY <2>3, <2>4, <2>5, <2>6 DEF SendSteps
<1>3. /\ \E n \in Limits : table' \in [1 .. n -> Owners]
      /\ Fds' = Fds /\ Numbers' = Numbers /\ Messages' = Messages
      /\ edge' \subseteq edge
  <2>1. CASE Ends
    BY <1>1, <2>1, EndTaskTable
  <2>2. CASE SendPart
    <3>1. table' = table /\ edge' = edge
      BY <2>2 DEF SendPart
    <3> QED BY <1>1, <3>1, TableSame DEF PeersTypeOK
  <2> QED BY <2>1, <2>2, EndCases DEF SendSteps
<1>4. UNCHANGED <<backlog, accepted, gone, phase, told, from, rx, unopened>>
  BY DEF SendSteps, SendPart, SendLast, SendStaleErrno, SendNothing, SendFatal, EndTask
<1> QED BY <1>1, <1>2, <1>3, <1>4 DEF PeersTypeOK, Owners

(***************************************************************************)
(* Every step keeps the types of what the clients and the table are.       *)
(***************************************************************************)
LEMMA StepPeers ==
  ASSUME TypeInv, [Next]_vars
  PROVE  PeersTypeOK' /\ Fds' = Fds /\ Numbers' = Numbers /\ Messages' = Messages
<1> DEFINE Typed == PeersTypeOK' /\ Fds' = Fds /\ Numbers' = Numbers /\ Messages' = Messages
<1>0. PeersTypeOK
  BY DEF TypeInv, TypeOK
<1> SUFFICES Typed
  OBVIOUS
<1> HIDE DEF Typed
<1>1. ASSUME \/ \E c \in Clients : Connect(c) \/ Confirm(c) \/ Leave(c)
             \/ TakeConnection
             \/ \E x \in Fds : TakeFrame(x)
             \/ UNCHANGED peerVars
      PROVE  Typed
  BY <1>0, <1>1, PeersStepTyped DEF Typed
<1>2. ASSUME NEW c \in Clients, Arrive(c) \/ Signal(c) PROVE Typed
  <2>1. Connect(c) \/ Confirm(c) \/ Leave(c) \/ UNCHANGED peerVars
    BY <1>2 DEF Arrive, Signal, Writable
  <2> QED BY <1>1, <2>1
<1>3. CASE EpollWait \/ Accept \/ AcceptFails
  <2>1. TakeConnection \/ UNCHANGED peerVars
    BY <1>3 DEF EpollWait, Accept, AcceptFails
  <2> QED BY <1>1, <2>1
<1>4. ASSUME NEW x \in Fds, CloseFd(x) PROVE Typed
  <2>1. /\ \E n \in Limits : table' \in [1 .. n -> Owners]
        /\ Fds' = Fds /\ Numbers' = Numbers /\ Messages' = Messages
    BY <1>0, <1>4, TableClosed DEF CloseFd
  <2>2. UNCHANGED <<backlog, accepted, gone, phase, told, from, rx, got, unopened>>
    BY <1>4 DEF CloseFd
  <2> QED BY <1>0, <2>1, <2>2 DEF Typed, PeersTypeOK, Owners
<1>5. ASSUME NEW x \in Fds, RecvFrame(x) \/ RecvNothing(x) \/ RecvEof(x) \/ RecvFails(x)
      PROVE  Typed
  <2>1. TakeFrame(x) \/ UNCHANGED peerVars \/ CloseFd(x)
    BY <1>5 DEF RecvFrame, RecvNothing, RecvEof, RecvFails, peerVars
  <2> QED BY <1>1, <1>4, <2>1
<1>6. CASE NormalAnalytical
  <2>1. PICK x \in Numbers : Open(data.name, x) /\ Reply(data.fd, "offered", x)
    BY <1>6 DEF NormalAnalytical
  <2>2. data.name \in Clients /\ data.fd \in Fds
    BY <1>6, DataTyped DEF NormalAnalytical
  <2>3. /\ \E n \in Limits : table' \in [1 .. n -> Owners]
        /\ Fds' = Fds /\ Numbers' = Numbers /\ Messages' = Messages
        /\ unopened' \subseteq Clients
    BY <1>0, <2>1, <2>2, OpenTyped
  <2>4. /\ phase' \in [Clients -> {"away", "asked", "refused", "offered", "receiving"}]
        /\ told' \in [Clients -> Numbers]
    BY <1>0, <2>1, ReplyTyped
  <2>5. UNCHANGED <<backlog, accepted, gone, from, rx, got>>
    BY <1>6 DEF NormalAnalytical
  <2> QED BY <1>0, <2>3, <2>4, <2>5 DEF Typed, PeersTypeOK, Owners
<1>7. CASE FileNotExit \/ ContinuinglyAnalytical
  <2>1. Reply(data.fd, "refused", NoFd) \/ Reply(data.fd, "receiving", NoFd)
    BY <1>7 DEF FileNotExit, ContinuinglyAnalytical
  <2>2. /\ phase' \in [Clients -> {"away", "asked", "refused", "offered", "receiving"}]
        /\ told' \in [Clients -> Numbers]
    BY <1>0, <2>1, ReplyTyped, FdsAreNumbers
  <2>3. UNCHANGED <<table, backlog, accepted, gone, from, rx, got, unopened>>
    BY <1>7 DEF FileNotExit, ContinuinglyAnalytical
  <2>4. Fds' = Fds /\ Numbers' = Numbers /\ Messages' = Messages
    BY <2>3, TableSame
  <2> QED BY <1>0, <2>2, <2>3, <2>4 DEF Typed, PeersTypeOK, Owners
<1>8. CASE EnsureAnalytical
  <2>1. UNCHANGED peerVars
    BY <1>8 DEF EnsureAnalytical
  <2> QED BY <1>1, <2>1
<1>9. CASE AfterUsleep
  <2>1. PICK x \in Numbers : Open(Head(job).name, x)
    BY <1>9 DEF AfterUsleep
  <2>2. Head(job).name \in Clients
    BY <1>9, JobTyped DEF AfterUsleep
  <2>3. /\ \E n \in Limits : table' \in [1 .. n -> Owners]
        /\ Fds' = Fds /\ Numbers' = Numbers /\ Messages' = Messages
        /\ unopened' \subseteq Clients
    BY <1>0, <2>1, <2>2, OpenTyped
  <2>4. UNCHANGED <<backlog, accepted, gone, phase, told, from, rx, got>>
    BY <1>9 DEF AfterUsleep
  <2> QED BY <1>0, <2>3, <2>4 DEF Typed, PeersTypeOK, Owners
<1>10. CASE tasks # <<>> /\ SendSteps
  BY <1>10, SendsPeers DEF Typed
<1>11. CASE SendAgain \/ Race \/ UNCHANGED vars
  <2>1. UNCHANGED peerVars
    BY <1>11 DEF SendAgain, Race, vars
  <2> QED BY <1>1, <2>1
<1> QED
  BY <1>2, <1>3, <1>5, <1>6, <1>7, <1>8, <1>9, <1>10, <1>11, NextCases

(***************************************************************************)
(* The event loop's variables keep their types.                            *)
(***************************************************************************)
LEMMA StepLoop ==
  ASSUME TypeInv, ConnInv, [Next]_vars
  PROVE  /\ edge' \subseteq accepted'
         /\ {knock, eagain, dead, raced, missed, strayed}' \subseteq BOOLEAN
         /\ batch' \subseteq {Listen} \cup {<<x, Sock(c)>> : x \in Fds, c \in Clients}
<1> DEFINE Events == {Listen} \cup {<<x, Sock(c)>> : x \in Fds, c \in Clients}
           Loop == /\ edge' \subseteq accepted'
                   /\ {knock, eagain, dead, raced, missed, strayed}' \subseteq BOOLEAN
                   /\ batch' \subseteq Events
<1>0. /\ PeersTypeOK /\ edge \subseteq accepted /\ batch \subseteq Events
      /\ knock \in BOOLEAN /\ eagain \in BOOLEAN /\ dead \in BOOLEAN /\ raced \in BOOLEAN
      /\ missed \in BOOLEAN /\ strayed \in BOOLEAN
  BY DEF TypeInv, TypeOK
<1> SUFFICES Loop
  OBVIOUS
<1> HIDE DEF Events
<1>2. ASSUME NEW c \in Clients, Arrive(c) PROVE Loop
  BY <1>0, <1>2 DEF Arrive, Connect, poolVars
<1>3. ASSUME NEW c \in Clients, Signal(c) PROVE Loop
  <2>1. UNCHANGED <<knock, batch, eagain, missed, dead, raced, strayed>>
        /\ accepted' = accepted
    BY <1>3 DEF Signal, loopVars, poolVars, Confirm, Leave, Writable, peerVars
  <2>2. edge' \subseteq accepted
    BY <1>0, <1>3 DEF Signal, Notice
  <2> QED BY <1>0, <2>1, <2>2
<1>4. CASE EpollWait
  <2>1. Reported \subseteq Events
    <3>1. \A y \in Fds : IsSock(y) => <<y, table[y]>> \in Events
      BY <1>0, SockMeans DEF Events
    <3> QED BY <3>1 DEF Reported, Events
  <2> QED BY <1>0, <1>4, <2>1 DEF EpollWait, peerVars, poolVars
<1>5. CASE Accept
  BY <1>0, <1>5 DEF Accept, Watch, TakeConnection, poolVars
<1>6. CASE AcceptFails
  BY <1>0, <1>6 DEF AcceptFails, peerVars, poolVars
<1>7. ASSUME NEW x \in Fds, RecvFrame(x) \/ RecvNothing(x) \/ RecvEof(x) \/ RecvFails(x)
      PROVE  Loop
  <2>1. PICK e \in batch : batch' = batch \ {e} /\ strayed' = (strayed \/ table[x] # e[2])
    BY <1>7 DEF RecvFrame, RecvNothing, RecvEof, RecvFails, TakeEvent
  <2>2. strayed' \in BOOLEAN /\ batch' \subseteq batch
    BY <2>1, <1>0
  <2>3. UNCHANGED <<knock, missed, dead, raced>> /\ eagain' \in BOOLEAN
    BY <1>0, <1>7 DEF RecvFrame, RecvNothing, RecvEof, RecvFails, poolVars
  <2>4. edge' \subseteq edge /\ accepted' = accepted
    BY <1>7 DEF RecvFrame, RecvNothing, RecvEof, RecvFails, TakeFrame, CloseFd,
                EdgeWithout, peerVars
  <2> QED BY <1>0, <2>2, <2>3, <2>4
<1>8. CASE NormalAnalytical \/ FileNotExit \/ EnsureAnalytical
           \/ ContinuinglyAnalytical \/ AfterUsleep
  <2>1. UNCHANGED <<edge, accepted, knock, batch, eagain, missed, dead, raced>>
    BY <1>8 DEF NormalAnalytical, FileNotExit, EnsureAnalytical, ContinuinglyAnalytical,
                AfterUsleep, loopVars, poolVars, peerVars
  <2>2. strayed' \in BOOLEAN
    BY <1>0, <1>8 DEF NormalAnalytical, FileNotExit, EnsureAnalytical,
                      ContinuinglyAnalytical, AfterUsleep
  <2> QED BY <1>0, <2>1, <2>2
<1>9. CASE tasks # <<>> /\ SendSteps
  <2>1. UNCHANGED <<knock, batch, eagain, missed, raced>>
    BY <1>9 DEF SendSteps, SendPart, SendLast, SendStaleErrno, SendNothing, SendFatal,
                EndTask, loopVars, poolVars
  <2>2. strayed' \in BOOLEAN /\ dead' \in BOOLEAN
    BY <1>0, <1>9 DEF SendSteps, SendPart, SendLast, SendStaleErrno, SendNothing, SendFatal,
                      EndTask, TearDown, Die
  <2>3. edge' \subseteq edge /\ accepted' = accepted
    BY <1>9, SendsPeers
  <2> QED BY <1>0, <2>1, <2>2, <2>3
<1>10. CASE SendAgain \/ Race \/ UNCHANGED vars
  BY <1>0, <1>10 DEF SendAgain, Race, vars, loopVars, poolVars, peerVars
<1> QED
  BY <1>2, <1>3, <1>4, <1>5, <1>6, <1>7, <1>8, <1>9, <1>10, NextCases

\* So do what the pool has started, and the histories of the downloader.
LEMMA StepPool ==
  ASSUME TypeInv, [Next]_vars
  PROVE  /\ running' \subseteq Both /\ taken' \subseteq Clients /\ cut' \subseteq Clients
         /\ running' = running /\ taken \subseteq taken' /\ cut \subseteq cut'
<1>0. /\ running \subseteq Both /\ taken \subseteq Clients /\ cut \subseteq Clients
      /\ \A i \in DOMAIN tasks : tasks[i].name \in Clients
  <2>1. tasks \in Seq(Tasks)
    BY DEF TypeInv, TypeOK
  <2>2. \A i \in DOMAIN tasks : tasks[i] \in Tasks
    BY <2>1
  <2>3. \A t \in Tasks : t.name \in Clients
    BY DEF Tasks
  <2> QED BY <2>2, <2>3 DEF TypeInv, TypeOK
<1>1. running' = running
  <2>1. ASSUME NEW c \in Clients, Arrive(c) \/ Signal(c) PROVE running' = running
    BY <2>1 DEF Arrive, Signal, poolVars
  <2>2. CASE EpollWait \/ Accept \/ AcceptFails \/ NormalAnalytical \/ FileNotExit
             \/ EnsureAnalytical \/ ContinuinglyAnalytical \/ AfterUsleep
    BY <2>2 DEF EpollWait, Accept, AcceptFails, NormalAnalytical, FileNotExit,
                EnsureAnalytical, ContinuinglyAnalytical, AfterUsleep, poolVars
  <2>3. ASSUME NEW x \in Fds, RecvFrame(x) \/ RecvNothing(x) \/ RecvEof(x) \/ RecvFails(x)
        PROVE  running' = running
    BY <2>3 DEF RecvFrame, RecvNothing, RecvEof, RecvFails, poolVars
  <2>4. CASE SendSteps
    BY <2>4 DEF SendSteps, SendPart, SendLast, SendStaleErrno, SendNothing, SendFatal,
                EndTask, poolVars
  <2>5. CASE SendAgain \/ Race \/ UNCHANGED vars
    BY <2>5 DEF SendAgain, Race, vars, poolVars
  <2> QED BY <2>1, <2>2, <2>3, <2>4, <2>5, NextCases
<1>2. CASE ~(tasks # <<>> /\ SendSteps)
  <2>1. UNCHANGED <<taken, cut>>
    <3>1. ASSUME NEW c \in Clients, Arrive(c) \/ Signal(c) PROVE UNCHANGED <<taken, cut>>
      BY <3>1 DEF Arrive, Signal, taskVars
    <3>2. CASE EpollWait \/ Accept \/ AcceptFails \/ NormalAnalytical \/ FileNotExit
               \/ EnsureAnalytical \/ ContinuinglyAnalytical \/ AfterUsleep
      BY <3>2 DEF EpollWait, Accept, AcceptFails, NormalAnalytical, FileNotExit,
                  EnsureAnalytical, ContinuinglyAnalytical, AfterUsleep, taskVars
    <3>3. ASSUME NEW x \in Fds, RecvFrame(x) \/ RecvNothing(x) \/ RecvEof(x) \/ RecvFails(x)
          PROVE  UNCHANGED <<taken, cut>>
      BY <3>3 DEF RecvFrame, RecvNothing, RecvEof, RecvFails, taskVars
    <3>4. CASE SendAgain \/ Race \/ UNCHANGED vars
      BY <3>4 DEF SendAgain, Race, vars, taskVars
    <3> QED BY <1>2, <3>1, <3>2, <3>3, <3>4, NextCases
  <2> QED BY <1>0, <1>1, <2>1
<1>3. CASE tasks # <<>> /\ SendSteps
  <2>1. taken \subseteq taken' /\ taken' \subseteq Clients
    <3>1. CASE SendPart
      BY <1>0, <3>1 DEF SendPart
    <3>2. CASE Ends
      BY <1>0, <3>2 DEF Ends, TornDown, TearDown, MunmapFails, Munmap, Die
    <3> QED BY <1>3, <3>1, <3>2, EndCases DEF SendSteps
  <2>2. cut' = cut \/ cut' = cut \cup {task.name}
    BY <1>3 DEF SendSteps, SendPart, SendLast, SendStaleErrno, SendNothing, SendFatal
  <2> QED BY <1>0, <1>1, <1>3, <2>1, <2>2, TaskTyped
<1> QED BY <1>2, <1>3

(***************************************************************************)
(* A frame in a socket is what RecvFrame makes a record of.                *)
(***************************************************************************)
LEMMA RecvFrameMeans ==
  ASSUME TypeInv, NEW x \in Fds, RecvFrame(x)
  PROVE  \E c \in Clients :
           /\ table[x] = Sock(c) /\ Owner(x) = c /\ InSocket(c)
           /\ rx[c] \in Messages /\ rx[c] = <<rx[c][1], rx[c][2]>>
           /\ rx' = [rx EXCEPT ![c] = NoFrame]
           /\ [fn |-> rx[c][1], arg |-> rx[c][2], fd |-> x, name |-> c] \in Frames
           /\ pipe' = Append(pipe, [fn |-> rx[c][1], arg |-> rx[c][2], fd |-> x, name |-> c])
<1> DEFINE c == Owner(x)
<1>0. PeersTypeOK
  BY DEF TypeInv, TypeOK
<1>1. IsSock(x) /\ rx[c] # NoFrame /\ rx' = [rx EXCEPT ![c] = NoFrame]
  BY DEF RecvFrame, TakeFrame
<1>2. c \in Clients /\ table[x] = Sock(c)
  BY <1>0, <1>1, SockMeans
<1>3. rx[c] \in Messages
  BY <1>0, <1>1, <1>2 DEF PeersTypeOK
<1>4. rx[c] = <<rx[c][1], rx[c][2]>> /\ rx[c][1] \in Requests /\ rx[c][2] \in Nat
  <2>1. Numbers \subseteq Nat /\ 0 .. Bytes \subseteq Nat
    BY <1>0, FdsAreNumbers, NumbersAssumption
  <2>2. /\ "Normal" \in Requests /\ "Resume" \in Requests /\ "Ensure" \in Requests
        /\ 0 \in Nat
    BY DEF Requests
  <2>3. PICK fn \in Requests, arg \in Nat : rx[c] = <<fn, arg>>
    <3>1. \A m \in {"Normal"} \X {0} : m = <<"Normal", 0>>
      OBVIOUS
    <3>2. \A m \in {"Resume"} \X (0 .. Bytes) : \E n \in 0 .. Bytes : m = <<"Resume", n>>
      OBVIOUS
    <3>3. \A m \in {"Ensure"} \X Numbers : \E n \in Numbers : m = <<"Ensure", n>>
      OBVIOUS
    <3> QED BY <1>3, <2>1, <2>2, <3>1, <3>2, <3>3 DEF Messages
  <2> QED BY <2>3
<1>5. pipe' = Append(pipe, [fn |-> rx[c][1], arg |-> rx[c][2], fd |-> x, name |-> c])
  BY DEF RecvFrame
<1> QED BY <1>1, <1>2, <1>3, <1>4, <1>5 DEF Frames, InSocket

(***************************************************************************)
(* The parser's records keep their types.                                  *)
(***************************************************************************)
LEMMA StepParser ==
  ASSUME TypeInv, [Next]_vars
  PROVE  /\ pipe' \in Seq(Frames) /\ job' \in Seq(Frames) /\ Len(job') <= 1
         /\ \A f \in Elems(pipe') : <<f.fn, f.arg>> \in Messages
         /\ \A f \in Elems(job') : <<f.fn, f.arg>> \in Messages /\ f.fn = "Resume"
<1> DEFINE PipeOK == /\ pipe' \in Seq(Frames)
                     /\ \A f \in Elems(pipe') : <<f.fn, f.arg>> \in Messages
           JobOK  == /\ job' \in Seq(Frames) /\ Len(job') <= 1
                     /\ \A f \in Elems(job') : <<f.fn, f.arg>> \in Messages /\ f.fn = "Resume"
<1> SUFFICES PipeOK /\ JobOK
  OBVIOUS
<1>1. /\ pipe \in Seq(Frames) /\ \A f \in Elems(pipe) : <<f.fn, f.arg>> \in Messages
      /\ job \in Seq(Frames) /\ Len(job) <= 1
      /\ \A f \in Elems(job) : <<f.fn, f.arg>> \in Messages /\ f.fn = "Resume"
  BY DEF TypeInv, TypeOK
<1>2. ASSUME pipe' = pipe PROVE PipeOK
  BY <1>1, <1>2
<1>3. ASSUME job' = job PROVE JobOK
  BY <1>1, <1>3
<1>4. ASSUME NEW x \in Fds, RecvFrame(x) PROVE PipeOK /\ JobOK
  <2>1. PICK c \in Clients :
          /\ rx[c] \in Messages /\ rx[c] = <<rx[c][1], rx[c][2]>>
          /\ [fn |-> rx[c][1], arg |-> rx[c][2], fd |-> x, name |-> c] \in Frames
          /\ pipe' = Append(pipe, [fn |-> rx[c][1], arg |-> rx[c][2], fd |-> x, name |-> c])
    BY <1>4, RecvFrameMeans
  <2> DEFINE e == [fn |-> rx[c][1], arg |-> rx[c][2], fd |-> x, name |-> c]
  <2>2. pipe' \in Seq(Frames) /\ Elems(pipe') = Elems(pipe) \cup {e}
    BY <1>1, <2>1, AppendElems
  <2>3. <<e.fn, e.arg>> \in Messages
    BY <2>1
  <2>4. PipeOK
    BY <1>1, <2>2, <2>3
  <2>5. job' = job
    BY <1>4 DEF RecvFrame
  <2> QED BY <2>4, <2>5, <1>3
<1>5. ASSUME NEW fns, ReadPipe(fns) PROVE PipeOK
  <2>1. pipe' = Tail(pipe) /\ pipe # <<>>
    BY <1>5 DEF ReadPipe
  <2> QED BY <1>1, <2>1, TailElems
<1>6. CASE NormalAnalytical \/ FileNotExit \/ EnsureAnalytical
  BY <1>5, <1>3, <1>6 DEF NormalAnalytical, FileNotExit, EnsureAnalytical
<1>7. CASE ContinuinglyAnalytical
  <2>1. ReadPipe({"Resume"}) /\ job' = <<data>>
    BY <1>7 DEF ContinuinglyAnalytical
  <2>2. data \in Frames /\ <<data.fn, data.arg>> \in Messages /\ data.fn = "Resume"
    BY <2>1, DataTyped
  <2>3. Elems(job') = {data} /\ job' \in Seq(Frames) /\ Len(job') = 1
    BY <2>1, <2>2 DEF Elems
  <2> QED BY <1>5, <2>1, <2>2, <2>3
<1>8. CASE AfterUsleep
  <2>1. job' = <<>> /\ pipe' = pipe
    BY <1>8 DEF AfterUsleep
  <2>2. Elems(job') = {} /\ job' \in Seq(Frames) /\ Len(job') = 0
    BY <2>1 DEF Elems
  <2> QED BY <1>2, <2>1, <2>2
<1>9. ASSUME UNCHANGED <<pipe, job>> PROVE PipeOK /\ JobOK
  BY <1>2, <1>3, <1>9
<1>10. ASSUME NEW c \in Clients, Arrive(c) \/ Signal(c) PROVE UNCHANGED <<pipe, job>>
  BY <1>10 DEF Arrive, Signal, parserVars
<1>11. CASE EpollWait \/ Accept \/ AcceptFails \/ SendAgain \/ Race \/ UNCHANGED vars
  BY <1>9, <1>11 DEF EpollWait, Accept, AcceptFails, SendAgain, Race, parserVars, vars
<1>12. ASSUME NEW x \in Fds, RecvNothing(x) \/ RecvEof(x) \/ RecvFails(x)
       PROVE  UNCHANGED <<pipe, job>>
  BY <1>12 DEF RecvNothing, RecvEof, RecvFails, parserVars
<1>13. CASE SendSteps
  BY <1>9, <1>13 DEF SendSteps, SendPart, SendLast, SendStaleErrno, SendNothing, SendFatal,
                     EndTask, parserVars
<1> HIDE DEF PipeOK, JobOK
<1> QED
  BY <1>4, <1>6, <1>7, <1>8, <1>9, <1>10, <1>11, <1>12, <1>13, NextCases

(***************************************************************************)
(* The list of tasks keeps its type, and the downloader stays in it.       *)
(***************************************************************************)
TaskListOK ==
  /\ tasks \in Seq(Tasks)
  /\ \A t \in Elems(tasks) : t.offset + t.left = SizeOf(t.file)
  /\ at \in 1 .. Len(tasks) + 1
  /\ IF tasks = <<>> THEN at = 1 ELSE at <= Len(tasks)
  /\ errno \in {"EPIPE", "EBADF", "other"}

LEMMA TaskListIsOK ==
  ASSUME TypeInv
  PROVE  TaskListOK
<1>1. \A t \in Elems(tasks) : t.offset + t.left = SizeOf(t.file)
  BY DEF TypeInv, TypeOK, Elems
<1> QED BY <1>1 DEF TaskListOK, TypeInv, TypeOK

(***************************************************************************)
(* The same task, though another file, or none, may be mapped for it now.  *)
(***************************************************************************)
Like(t, u) ==
  /\ t.file = u.file /\ t.sock = u.sock /\ t.left = u.left
  /\ t.offset = u.offset /\ t.name = u.name

LEMMA RemapElems ==
  ASSUME tasks \in Seq(Tasks), NEW S, S \subseteq DOMAIN tasks,
         NEW p \in Clients \cup {Nobody, Hole}
  PROVE  /\ Remap(S, p) \in Seq(Tasks) /\ Len(Remap(S, p)) = Len(tasks)
         /\ \A i \in DOMAIN tasks : Like(Remap(S, p)[i], tasks[i])
         /\ \A t \in Elems(Remap(S, p)) : \E i \in DOMAIN tasks :
              Like(t, tasks[i]) /\ (t.p = tasks[i].p \/ i \in S)
         /\ Distinct(tasks) => Distinct(Remap(S, p))
<1>1. PICK r : r = Remap(S, p)
  OBVIOUS
<1>2. /\ DOMAIN tasks = 1 .. Len(tasks) /\ Len(tasks) \in Nat /\ DOMAIN r = DOMAIN tasks
      /\ \A i \in DOMAIN tasks : tasks[i] \in Tasks
      /\ r = [i \in DOMAIN tasks |-> IF i \in S THEN [tasks[i] EXCEPT !.p = p] ELSE tasks[i]]
  BY <1>1 DEF Remap
<1>3. ASSUME NEW i \in DOMAIN tasks
      PROVE  r[i] \in Tasks /\ Like(r[i], tasks[i]) /\ (r[i].p = tasks[i].p \/ i \in S)
  <2>1. CASE i \in S
    <3>1. r[i] = [tasks[i] EXCEPT !.p = p] /\ tasks[i] \in Tasks
      BY <1>2, <2>1
    <3> QED BY <2>1, <3>1 DEF Tasks, Like
  <2>2. CASE i \notin S
    BY <1>2, <2>2 DEF Like
  <2> QED BY <2>1, <2>2
<1>4. r \in Seq(Tasks) /\ Len(r) = Len(tasks)
  BY <1>2, <1>3
<1>5. \A t \in Elems(r) : \E i \in DOMAIN tasks :
        Like(t, tasks[i]) /\ (t.p = tasks[i].p \/ i \in S)
  BY <1>2, <1>3 DEF Elems
<1>6. Distinct(tasks) => Distinct(r)
  BY <1>2, <1>3 DEF Distinct, Like
<1> QED BY <1>1, <1>3, <1>4, <1>5, <1>6

\* A task is added behind the others.
LEMMA AddedTasks ==
  ASSUME tasks \in Seq(Tasks), NEW file \in Numbers, NEW sock \in Fds, NEW size \in Int,
         NEW offset \in Nat, NEW p \in Clients \cup {Nobody}, NEW name \in Clients,
         AddDownTask(file, sock, size, offset, p, name)
  PROVE  \E e \in Tasks :
           /\ e.file = file /\ e.left = size /\ e.offset = offset /\ e.p = p /\ e.name = name
           /\ tasks' \in Seq(Tasks) /\ Len(tasks') = Len(tasks) + 1
           /\ \A t \in Elems(tasks') :
                t = e \/ \E u \in Elems(tasks) : Like(t, u) /\ (t.p = u.p \/ u.p = Hole)
           /\ Distinct(tasks) /\ (\A u \in Elems(tasks) : u.name # name) => Distinct(tasks')
<1>1. PICK e : e = [file |-> file, sock |-> sock, left |-> size,
                    offset |-> offset, p |-> p, name |-> name]
  OBVIOUS
<1>2. PICK S \in SUBSET {i \in DOMAIN tasks : tasks[i].p = Hole /\ p # Nobody} :
        tasks' = Append(Remap(S, p), e)
  BY <1>1 DEF AddDownTask
<1>3. PICK r : r = Remap(S, p)
  OBVIOUS
<1>4. /\ r \in Seq(Tasks) /\ Len(r) = Len(tasks)
      /\ \A t \in Elems(r) : \E i \in DOMAIN tasks :
           Like(t, tasks[i]) /\ (t.p = tasks[i].p \/ i \in S)
      /\ Distinct(tasks) => Distinct(r)
  BY <1>2, <1>3, RemapElems
<1>5. /\ e \in Tasks /\ e.file = file /\ e.left = size /\ e.offset = offset
      /\ e.p = p /\ e.name = name
  BY <1>1 DEF Tasks
<1>6. /\ tasks' \in Seq(Tasks) /\ Len(tasks') = Len(tasks) + 1
      /\ Elems(tasks') = Elems(r) \cup {e}
      /\ Distinct(r) /\ (\A d \in Elems(r) : d.name # e.name) => Distinct(tasks')
  BY <1>2, <1>3, <1>4, <1>5, AppendElems
<1>7. \A t \in Elems(r) : \E u \in Elems(tasks) : Like(t, u) /\ (t.p = u.p \/ u.p = Hole)
  BY <1>2, <1>4 DEF Elems
<1>8. (\A u \in Elems(tasks) : u.name # name) => \A d \in Elems(r) : d.name # e.name
  BY <1>5, <1>7 DEF Like
<1> QED BY <1>4, <1>5, <1>6, <1>7, <1>8

(***************************************************************************)
(* The end of a task leaves the others in the list, though what is mapped  *)
(* for them may be gone.                                                   *)
(***************************************************************************)
LEMMA TearDownTasks ==
  ASSUME TypeInv, tasks # <<>>, TornDown
  PROVE  /\ tasks' \in Seq(Tasks) /\ taken \subseteq taken'
         /\ \A t \in Elems(tasks') : \E u \in Elems(tasks) :
              Like(t, u) /\ (t.p = u.p \/ t.name \in taken')
         /\ Distinct(tasks) =>
              Distinct(tasks') /\ \A t \in Elems(tasks') : t.name # task.name
<1>1. tasks \in Seq(Tasks) /\ at \in 1 .. Len(tasks) /\ DOMAIN tasks = 1 .. Len(tasks)
  BY TaskTyped DEF TypeInv, TypeOK
<1>2. PICK S \in SUBSET DOMAIN tasks :
        /\ tasks' = Dropped(Remap(S, Hole), at)
        /\ taken' = taken \cup {tasks[i].name : i \in S}
  <2>1. PICK e : TearDown(e)
    BY DEF TornDown
  <2>2. ASSUME NEW s PROVE SubSeq(s, 1, at - 1) \o SubSeq(s, at + 1, Len(s)) = Dropped(s, at)
    BY DEF Dropped
  <2>3. CASE MunmapFails
    <3>1. Remap({}, Hole) = tasks
      BY <1>1 DEF Remap
    <3>2. tasks' = Dropped(Remap({}, Hole), at) /\ taken' = taken \cup {tasks[i].name : i \in {}}
      BY <2>3, <3>1 DEF MunmapFails, Without, Dropped
    <3> QED BY <3>2
  <2>4. CASE Munmap(e)
    BY <2>4 DEF Munmap, Without, Dropped
  <2> QED BY <2>1, <2>3, <2>4 DEF TearDown
<1>3. PICK r : r = Remap(S, Hole)
  OBVIOUS
<1>4. /\ r \in Seq(Tasks) /\ Len(r) = Len(tasks) /\ Like(r[at], tasks[at])
      /\ \A t \in Elems(r) : \E i \in DOMAIN tasks :
           Like(t, tasks[i]) /\ (t.p = tasks[i].p \/ i \in S)
      /\ Distinct(tasks) => Distinct(r)
  BY <1>1, <1>3, RemapElems
<1>5. /\ tasks' \in Seq(Tasks) /\ Elems(tasks') \subseteq Elems(r)
      /\ Distinct(r) => /\ Distinct(tasks')
                        /\ \A t \in Elems(tasks') : t.name # r[at].name
  BY <1>1, <1>2, <1>3, <1>4, DroppedElems
<1>6. \A t \in Elems(r) : \E u \in Elems(tasks) :
        Like(t, u) /\ (t.p = u.p \/ t.name \in taken')
  BY <1>2, <1>4 DEF Elems, Like
<1>7. r[at].name = task.name
  BY <1>4 DEF Like, task
<1> QED BY <1>2, <1>4, <1>5, <1>6, <1>7

LEMMA AddDownTaskTyped ==
  ASSUME TaskListOK, NEW file \in Numbers, NEW sock \in Fds, NEW size \in Int,
         NEW offset \in Nat, NEW p \in Clients \cup {Nobody}, NEW name \in Clients,
         offset + size = SizeOf(file), at' = at, errno' = errno,
         AddDownTask(file, sock, size, offset, p, name)
  PROVE  /\ tasks' \in Seq(Tasks)
         /\ \A t \in Elems(tasks') : t.offset + t.left = SizeOf(t.file)
         /\ at' \in 1 .. Len(tasks') + 1
         /\ IF tasks' = <<>> THEN at' = 1 ELSE at' <= Len(tasks')
         /\ errno' \in {"EPIPE", "EBADF", "other"}
<1>1. tasks \in Seq(Tasks)
  BY DEF TaskListOK
<1>2. PICK e \in Tasks :
        /\ e.file = file /\ e.left = size /\ e.offset = offset
        /\ tasks' \in Seq(Tasks) /\ Len(tasks') = Len(tasks) + 1
        /\ \A t \in Elems(tasks') :
             t = e \/ \E u \in Elems(tasks) : Like(t, u) /\ (t.p = u.p \/ u.p = Hole)
  <2>1. \E e \in Tasks :
          /\ e.file = file /\ e.left = size /\ e.offset = offset /\ e.p = p /\ e.name = name
          /\ tasks' \in Seq(Tasks) /\ Len(tasks') = Len(tasks) + 1
          /\ \A t \in Elems(tasks') :
               t = e \/ \E u \in Elems(tasks) : Like(t, u) /\ (t.p = u.p \/ u.p = Hole)
          /\ Distinct(tasks) /\ (\A u \in Elems(tasks) : u.name # name) => Distinct(tasks')
    BY <1>1, AddedTasks
  <2> QED BY <2>1
<1>3. tasks' \in Seq(Tasks) /\ Len(tasks') = Len(tasks) + 1
  BY <1>2
<1>4. \A t \in Elems(tasks') : t.offset + t.left = SizeOf(t.file)
  BY <1>2 DEF TaskListOK, Like
<1>5. at \in Nat /\ at >= 1 /\ at <= Len(tasks) + 1 /\ Len(tasks) \in Nat
  BY <1>1 DEF TaskListOK
<1>6. tasks' # <<>>
  BY <1>1, <1>3
<1> QED BY <1>3, <1>4, <1>5, <1>6 DEF TaskListOK

\* The downloader goes on to a task of a list as long as its own.
LEMMA GoOnTyped ==
  ASSUME TypeInv, tasks # <<>>, Len(tasks') = Len(tasks), GoOn
  PROVE  at' \in 1 .. Len(tasks')
<1>1. at \in 1 .. Len(tasks) /\ Len(tasks) \in Nat
  BY TaskTyped DEF TypeInv, TypeOK
<1> QED BY <1>1 DEF GoOn

LEMMA StepTasks ==
  ASSUME TypeInv, [Next]_vars
  PROVE  /\ tasks' \in Seq(Tasks)
         /\ \A t \in Elems(tasks') : t.offset + t.left = SizeOf(t.file)
         /\ at' \in 1 .. Len(tasks') + 1
         /\ IF tasks' = <<>> THEN at' = 1 ELSE at' <= Len(tasks')
         /\ errno' \in {"EPIPE", "EBADF", "other"}
<1> DEFINE Goal == /\ tasks' \in Seq(Tasks)
                   /\ \A t \in Elems(tasks') : t.offset + t.left = SizeOf(t.file)
                   /\ at' \in 1 .. Len(tasks') + 1
                   /\ IF tasks' = <<>> THEN at' = 1 ELSE at' <= Len(tasks')
                   /\ errno' \in {"EPIPE", "EBADF", "other"}
<1> SUFFICES Goal
  OBVIOUS
<1>0. PeersTypeOK /\ TaskListOK
  BY TaskListIsOK DEF TypeInv, TypeOK
<1>1. ASSUME UNCHANGED <<tasks, at, errno>> PROVE Goal
  BY <1>0, <1>1 DEF TaskListOK
<1>2. CASE EnsureAnalytical
  <2>1. ReadPipe({"Ensure"})
    BY <1>2 DEF EnsureAnalytical
  <2>2. data.arg \in Numbers /\ data.fd \in Fds /\ data.name \in Clients
    BY <2>1, DataTyped
  <2> DEFINE p == IF IsFile(data.arg) THEN Owner(data.arg) ELSE Nobody
  <2>3. p \in Clients \cup {Nobody}
    BY <1>0, FileMeans
  <2>4. SizeOf(data.arg) \in Int /\ 0 \in Nat /\ 0 + SizeOf(data.arg) = SizeOf(data.arg)
    BY NumbersAssumption DEF SizeOf
  <2>5. AddDownTask(data.arg, data.fd, SizeOf(data.arg), 0, p, data.name)
        /\ at' = at /\ errno' = errno
    BY <1>2 DEF EnsureAnalytical
  <2> HIDE DEF p
  <2> QED BY <1>0, <2>2, <2>3, <2>4, <2>5, AddDownTaskTyped
<1>3. CASE AfterUsleep
  <2> DEFINE frame == Head(job)
  <2>1. PICK fileFd \in Numbers :
          AddDownTask(fileFd, frame.fd, SizeOf(fileFd) - frame.arg, Count(frame),
                      IF fileFd = NoFd THEN Nobody ELSE frame.name, frame.name)
    BY <1>3 DEF AfterUsleep
  <2>2. frame.fd \in Fds /\ frame.name \in Clients /\ frame.arg \in 0 .. Bytes
    BY <1>3, JobTyped DEF AfterUsleep
  <2> DEFINE p == IF fileFd = NoFd THEN Nobody ELSE frame.name
  <2>3. p \in Clients \cup {Nobody}
    BY <2>2
  <2>4. /\ SizeOf(fileFd) - frame.arg \in Int /\ Count(frame) \in Nat
        /\ Count(frame) + (SizeOf(fileFd) - frame.arg) = SizeOf(fileFd)
    BY <2>2, NumbersAssumption DEF SizeOf, Count
  <2>5. at' = at /\ errno' = errno
    BY <1>3 DEF AfterUsleep
  <2>6. AddDownTask(fileFd, frame.fd, SizeOf(fileFd) - frame.arg, Count(frame), p, frame.name)
    BY <2>1
  <2> HIDE DEF p, frame
  <2> QED BY <1>0, <2>2, <2>3, <2>4, <2>5, <2>6, AddDownTaskTyped
<1>4. CASE tasks # <<>> /\ SendPart
  <2>1. PICK n \in Sendable :
          /\ n < task.left
          /\ tasks' = [tasks EXCEPT ![at] = [task EXCEPT !.left = @ - n, !.offset = @ + n]]
    BY <1>4 DEF SendPart
  <2>2. n \in Nat /\ task \in Elems(tasks) /\ task.left \in Int /\ task.offset \in Nat
    BY <1>4, <2>1, TaskTyped DEF Sendable
  <2>3. PICK e \in Tasks :
          /\ e.file = task.file /\ e.left = task.left - n /\ e.offset = task.offset + n
          /\ tasks' \in Seq(Tasks) /\ Len(tasks') = Len(tasks)
          /\ Elems(tasks') \subseteq Elems(tasks) \cup {e}
    BY <1>4, <2>1, <2>2, SentTask
  <2>4. e.offset + e.left = SizeOf(e.file)
    <3>1. task.offset + task.left = SizeOf(task.file)
      BY <1>0, <2>2 DEF TaskListOK
    <3>2. (task.offset + n) + (task.left - n) = task.offset + task.left
      BY <2>2
    <3> QED BY <2>3, <3>1, <3>2
  <2>5. /\ tasks' \in Seq(Tasks) /\ Len(tasks') = Len(tasks)
        /\ Elems(tasks') \subseteq Elems(tasks) \cup {e}
    BY <2>3
  <2>6. at' \in 1 .. Len(tasks')
    BY <1>4, <2>5, GoOnTyped DEF SendPart
  <2>7. \A t \in Elems(tasks') : t.offset + t.left = SizeOf(t.file)
    BY <1>0, <2>4, <2>5 DEF TaskListOK
  <2>8. errno' = errno
    BY <1>4 DEF SendPart
  <2>9. tasks' # <<>> /\ Len(tasks') \in Nat
    BY <2>5, <2>6
  <2> QED BY <1>0, <2>5, <2>6, <2>7, <2>8, <2>9 DEF TaskListOK
<1>5. ASSUME tasks # <<>>, NEW e \in {"EPIPE", "EBADF", "other"}, EndTask(e) PROVE Goal
  <2>1. CASE TearDown(e)
    <3>1. /\ tasks' \in Seq(Tasks)
          /\ \A t \in Elems(tasks') : \E u \in Elems(tasks) : Like(t, u)
      BY <1>5, <2>1, TearDownTasks DEF TornDown
    <3>2. at' = 1
      BY <2>1 DEF TearDown
    <3>3. errno' \in {"EPIPE", "EBADF", "other"}
      BY <1>5, <2>1 DEF TearDown, MunmapFails, Munmap, AfterCloses
    <3>4. \A t \in Elems(tasks') : t.offset + t.left = SizeOf(t.file)
      BY <1>0, <3>1 DEF TaskListOK, Like
    <3>5. Len(tasks') \in Nat /\ (tasks' # <<>> => Len(tasks') >= 1)
      BY <3>1
    <3> QED BY <3>1, <3>2, <3>3, <3>4, <3>5
  <2>2. CASE Die
    BY <1>1, <2>2 DEF Die
  <2> QED BY <1>5, <2>1, <2>2 DEF EndTask
<1>6. CASE tasks # <<>> /\ SendAgain
  <2>1. tasks' = tasks /\ errno' = "other" /\ GoOn
    BY <1>6 DEF SendAgain
  <2>2. at' \in 1 .. Len(tasks')
    BY <1>6, <2>1, GoOnTyped
  <2> QED BY <1>0, <1>6, <2>1, <2>2 DEF TaskListOK
<1> HIDE DEF Goal
<1>7. CASE NormalAnalytical \/ FileNotExit \/ ContinuinglyAnalytical \/ UNCHANGED vars
           \/ EpollWait \/ Accept \/ AcceptFails \/ Race
  BY <1>1, <1>7 DEF NormalAnalytical, FileNotExit, ContinuinglyAnalytical, EpollWait,
                    Accept, AcceptFails, Race, taskVars, vars
<1>8. ASSUME NEW c \in Clients, Arrive(c) \/ Signal(c) PROVE UNCHANGED <<tasks, at, errno>>
  BY <1>8 DEF Arrive, Signal, taskVars
<1>9. ASSUME NEW x \in Fds, RecvFrame(x) \/ RecvNothing(x) \/ RecvEof(x) \/ RecvFails(x)
      PROVE  UNCHANGED <<tasks, at, errno>>
  BY <1>9 DEF RecvFrame, RecvNothing, RecvEof, RecvFails, taskVars
<1>10. ASSUME SendSteps
       PROVE  SendPart \/ \E e \in {"EPIPE", "EBADF", "other"} : EndTask(e)
  <2>1. errno \in {"EPIPE", "EBADF", "other"}
    BY <1>0 DEF TaskListOK
  <2>2. SendError \in {"EPIPE", "EBADF", "other"}
    BY DEF SendError
  <2> QED BY <1>10, <2>1, <2>2 DEF SendSteps, SendLast, SendStaleErrno, SendNothing, SendFatal
<1> QED
  BY <1>1, <1>2, <1>3, <1>4, <1>5, <1>6, <1>7, <1>8, <1>9, <1>10, NextCases

(***************************************************************************)
(* Together.                                                               *)
(***************************************************************************)
LEMMA TypeStep ==
  ASSUME TypeInv, ConnInv, [Next]_vars
  PROVE  TypeInv'
<1>1. PeersTypeOK' /\ Fds' = Fds /\ Numbers' = Numbers /\ Messages' = Messages
  BY StepPeers
<1>2. Frames' = Frames /\ Tasks' = Tasks
  BY <1>1 DEF Frames, Tasks
<1>3. /\ edge' \subseteq accepted'
      /\ {knock, eagain, dead, raced, missed, strayed}' \subseteq BOOLEAN
      /\ batch' \subseteq {Listen} \cup {<<x, Sock(c)>> : x \in Fds, c \in Clients}
      /\ running' \subseteq Both /\ taken' \subseteq Clients /\ cut' \subseteq Clients
  BY StepLoop, StepPool
<1>4. /\ pipe' \in Seq(Frames) /\ job' \in Seq(Frames) /\ Len(job') <= 1
      /\ \A f \in Elems(pipe') : <<f.fn, f.arg>> \in Messages
      /\ \A f \in Elems(job') : <<f.fn, f.arg>> \in Messages /\ f.fn = "Resume"
  BY StepParser
<1>5. /\ tasks' \in Seq(Tasks)
      /\ \A t \in Elems(tasks') : t.offset + t.left = SizeOf(t.file)
      /\ at' \in 1 .. Len(tasks') + 1
      /\ IF tasks' = <<>> THEN at' = 1 ELSE at' <= Len(tasks')
      /\ errno' \in {"EPIPE", "EBADF", "other"}
  BY StepTasks
<1>6. \A i \in DOMAIN tasks' : tasks'[i].offset + tasks'[i].left = SizeOf(tasks'[i].file)
  BY <1>5 DEF Elems
<1>7. batch' \subseteq {Listen} \cup {<<x, Sock(c)>> : x \in Fds', c \in Clients}
  BY <1>1, <1>3
<1>8. TypeOK'
  BY <1>1, <1>2, <1>3, <1>4, <1>5, <1>6, <1>7
     DEF TypeOK, SizeOf, Listen, Sock, Free, NoFd, Both
<1> QED BY <1>1, <1>4, <1>5, <1>8 DEF TypeInv, Elems
-----------------------------------------------------------------------------
(* Connections and edges.                                                  *)

(***************************************************************************)
(* How a step may change the table: accept takes a free number for a       *)
(* socket, open one for a file, and the others only close.                 *)
(***************************************************************************)
Opens == \E x \in Fds : \E p \in Clients :
           table[x] = Free /\ table' = [table EXCEPT ![x] = File(p)]

Closes == \E S : /\ table' = Closed(S)
                 /\ \A c \in edge : c \in edge' \/ S = Fds \/ c \notin EdgeWithout(S)

LEMMA StepTable ==
  ASSUME TypeInv, [Next]_vars
  PROVE  \/ Accept
         \/ table' = table /\ (edge \subseteq edge' \/ EpollWait)
         \/ Opens /\ edge' = edge
         \/ Closes
<1> DEFINE Same == table' = table /\ (edge \subseteq edge' \/ EpollWait)
           Goal == Accept \/ Same \/ (Opens /\ edge' = edge) \/ Closes
<1> SUFFICES Goal
  OBVIOUS
<1>0. PeersTypeOK
  BY DEF TypeInv, TypeOK
<1>1. ASSUME NEW c \in Clients, Arrive(c) \/ Signal(c) PROVE Same
  BY <1>1 DEF Arrive, Signal, Connect, Confirm, Leave, Writable, Notice, peerVars
<1>2. CASE EpollWait \/ AcceptFails \/ FileNotExit \/ EnsureAnalytical
           \/ ContinuinglyAnalytical \/ SendAgain \/ Race \/ UNCHANGED vars
  BY <1>2 DEF EpollWait, AcceptFails, FileNotExit, EnsureAnalytical,
              ContinuinglyAnalytical, SendAgain, Race, vars, peerVars
<1>3. ASSUME NEW x \in Fds, CloseFd(x) PROVE Closes
  BY <1>3 DEF CloseFd, Closes
<1>4. ASSUME NEW x \in Fds, RecvFrame(x) \/ RecvNothing(x) \/ RecvEof(x) \/ RecvFails(x)
      PROVE  Same \/ Closes
  BY <1>3, <1>4 DEF RecvFrame, RecvNothing, RecvEof, RecvFails, TakeFrame, peerVars
<1>5. ASSUME NEW p \in Clients, NEW x \in Numbers, Open(p, x), edge' = edge
      PROVE  Same \/ Opens
  <2>1. table' = table \/ (x \in Fds /\ table[x] = Free /\ table' = [table EXCEPT ![x] = File(p)])
    BY <1>0, <1>5, OpenTyped
  <2> QED BY <1>5, <2>1 DEF Opens
<1>6. CASE NormalAnalytical
  <2>1. \E x \in Numbers : Open(data.name, x)
    BY <1>6 DEF NormalAnalytical
  <2>2. data.name \in Clients /\ edge' = edge
    BY <1>6, DataTyped DEF NormalAnalytical
  <2> QED BY <1>5, <2>1, <2>2
<1>7. CASE AfterUsleep
  <2>1. \E x \in Numbers : Open(Head(job).name, x)
    BY <1>7 DEF AfterUsleep
  <2>2. Head(job).name \in Clients /\ edge' = edge
    BY <1>7, JobTyped DEF AfterUsleep
  <2> QED BY <1>5, <2>1, <2>2
<1>8. CASE SendSteps
  <2>1. CASE SendPart
    BY <2>1 DEF SendPart
  <2>2. CASE TornDown
    BY <2>2 DEF TornDown, TearDown, Closes
  <2>3. CASE Die
    BY <2>3 DEF Die, Closes
  <2>4. SendPart \/ TornDown \/ Die
    BY <1>8, EndCases DEF SendSteps, Ends
  <2> QED BY <2>1, <2>2, <2>3, <2>4
<1> HIDE DEF Same
<1> QED BY <1>1, <1>2, <1>4, <1>6, <1>7, <1>8, NextCases DEF Same

(***************************************************************************)
(* Except for accept, a step makes no sockets; and except for epoll_wait   *)
(* too, whoever loses a socket or an edge is shut.                         *)
(***************************************************************************)
LEMMA StepSocks ==
  ASSUME TypeInv, ConnInv, [Next]_vars, ~Accept
  PROVE  /\ \A x \in Fds : \A c \in Clients : table'[x] = Sock(c) => table[x] = Sock(c)
         /\ \A c \in accepted : \A x \in Fds :
              table[x] = Sock(c) => table'[x] = Sock(c) \/ \A y \in Fds : table'[y] # Sock(c)
         /\ \A c \in edge :
              c \in edge' \/ EpollWait \/ \A y \in Fds : table'[y] # Sock(c)
<1>0. PeersTypeOK /\ edge \subseteq Clients /\ accepted \subseteq Clients
  BY DEF TypeInv, TypeOK, PeersTypeOK
<1>u. \A x, y \in Fds : \A c \in Clients : table[x] = Sock(c) /\ table[y] = Sock(c) => x = y
  BY DEF ConnInv
<1>1. CASE table' = table /\ (edge \subseteq edge' \/ EpollWait)
  BY <1>1
<1>2. CASE Opens /\ edge' = edge
  <2>1. PICK x \in Fds, p \in Clients :
          table[x] = Free /\ table' = [table EXCEPT ![x] = File(p)]
    BY <1>2 DEF Opens
  <2>2. File(p) \in Owners
    BY DEF Owners
  <2>3. table'[x] = File(p) /\ \A y \in Fds : y # x => table'[y] = table[y]
    BY <1>0, <2>1, <2>2, TableAfter
  <2>4. \A c : Sock(c) # Free /\ Sock(c) # File(p)
    BY Kinds
  <2> QED BY <1>2, <2>1, <2>3, <2>4
<1>3. CASE Closes
  <2>1. PICK S : /\ table' = Closed(S)
                 /\ \A c \in edge : c \in edge' \/ S = Fds \/ c \notin EdgeWithout(S)
    BY <1>3 DEF Closes
  <2>2. \A y \in Fds : table'[y] = IF y \in S THEN Free ELSE table[y]
    BY <1>0, <2>1, TableClosed
  <2>3. \A c : Sock(c) # Free
    BY Kinds
  <2>4. ASSUME NEW c \in Clients, NEW x \in Fds, table[x] = Sock(c), x \in S,
               NEW y \in Fds
        PROVE  table'[y] # Sock(c)
    BY <2>2, <2>3, <2>4, <1>u
  <2>5. ASSUME NEW c \in edge, c \notin EdgeWithout(S)
        PROVE  \E x \in Fds : x \in S /\ table[x] = Sock(c)
    <3>1. \E x \in S : IsSock(x) /\ c = Owner(x)
      BY <2>5 DEF EdgeWithout
    <3> QED BY <1>0, <3>1, SockMeans
  <2>6. \A c : \A x \in Fds : table'[x] = Sock(c) => table[x] = Sock(c)
    BY <2>2, <2>3
  <2>7. \A c \in edge : c \in edge' \/ \A y \in Fds : table'[y] # Sock(c)
    <3>1. CASE S = Fds
      BY <3>1, <2>2, <2>3
    <3>2. ASSUME NEW c \in edge, c \notin EdgeWithout(S), NEW y \in Fds
          PROVE  table'[y] # Sock(c)
      BY <1>0, <2>4, <2>5, <3>2
    <3> QED BY <2>1, <3>1, <3>2
  <2>8. \A c \in accepted : \A x \in Fds :
          table[x] = Sock(c) => table'[x] = Sock(c) \/ \A y \in Fds : table'[y] # Sock(c)
    BY <1>0, <2>2, <2>4
  <2> QED BY <1>0, <2>6, <2>7, <2>8
<1> QED BY <1>1, <1>2, <1>3, StepTable

(***************************************************************************)
(* Nobody goes back to being away, and only one who is not can leave.      *)
(***************************************************************************)
LEMMA StepClients ==
  ASSUME TypeInv, [Next]_vars, ~Accept, \A c \in Clients : ~Arrive(c)
  PROVE  /\ UNCHANGED <<accepted, backlog, from>>
         /\ \A c \in Clients : phase'[c] = "away" => phase[c] = "away" /\ (c \in gone' => c \in gone)
<1> DEFINE Keeps == \A c \in Clients :
                      phase'[c] = "away" => phase[c] = "away" /\ (c \in gone' => c \in gone)
           Goal == UNCHANGED <<accepted, backlog, from>> /\ Keeps
<1> SUFFICES Goal
  OBVIOUS
<1>0. PeersTypeOK
  BY DEF TypeInv, TypeOK
<1>1. ASSUME UNCHANGED <<accepted, backlog, from, phase, gone>> PROVE Goal
  BY <1>1
<1>2. ASSUME NEW c \in Clients, Signal(c) PROVE Goal
  BY <1>0, <1>2 DEF Signal, Confirm, Leave, Writable, peerVars, PeersTypeOK
<1>3. ASSUME NEW x, NEW to \in {"refused", "offered", "receiving"}, NEW n,
             Reply(x, to, n), UNCHANGED <<accepted, backlog, from, gone>>
      PROVE  Goal
  BY <1>0, <1>3, ReplyKeeps
<1> HIDE DEF Goal
<1>4. CASE NormalAnalytical \/ FileNotExit \/ ContinuinglyAnalytical
  BY <1>3, <1>4 DEF NormalAnalytical, FileNotExit, ContinuinglyAnalytical
<1>5. CASE EpollWait \/ AcceptFails \/ EnsureAnalytical \/ AfterUsleep \/ SendAgain
           \/ Race \/ UNCHANGED vars
  BY <1>1, <1>5 DEF EpollWait, AcceptFails, EnsureAnalytical, AfterUsleep, SendAgain,
                    Race, vars, peerVars
<1>6. ASSUME NEW x \in Fds, RecvFrame(x) \/ RecvNothing(x) \/ RecvEof(x) \/ RecvFails(x)
      PROVE  UNCHANGED <<accepted, backlog, from, phase, gone>>
  BY <1>6 DEF RecvFrame, RecvNothing, RecvEof, RecvFails, TakeFrame, CloseFd, peerVars
<1>7. ASSUME SendSteps PROVE UNCHANGED <<accepted, backlog, from, phase, gone>>
  BY <1>7 DEF SendSteps, SendPart, SendLast, SendStaleErrno, SendNothing, SendFatal, EndTask
<1> QED BY <1>1, <1>2, <1>4, <1>5, <1>6, <1>7, NextCases

LEMMA ConnStep ==
  ASSUME TypeInv, ConnInv, [Next]_vars
  PROVE  ConnInv'
<1>0. PeersTypeOK
  BY DEF TypeInv, TypeOK
<1>1. Fds' = Fds
  BY StepPeers
<1>2. ASSUME NEW c \in Clients, Arrive(c) PROVE ConnInv'
  BY <1>0, <1>2, ConnectConn DEF Arrive
<1>3. CASE Accept
  BY <1>0, <1>3, AcceptConn DEF Accept
<1>4. CASE ~Accept /\ \A c \in Clients : ~Arrive(c)
  <2>1. /\ UNCHANGED <<accepted, backlog>>
        /\ \A c \in Clients : phase'[c] = "away" => phase[c] = "away" /\ (c \in gone' => c \in gone)
    BY <1>4, StepClients
  <2>2. \A x \in Fds : \A c \in Clients : table'[x] = Sock(c) => table[x] = Sock(c)
    BY <1>4, StepSocks
  <2> QED BY <1>1, <2>1, <2>2, OtherConn
<1> QED BY <1>2, <1>3, <1>4

(***************************************************************************)
(* A step that brings no frame, and takes no event of a frame that stays,  *)
(* leaves nothing unseen.                                                  *)
(***************************************************************************)
LEMMA EventTyped ==
  ASSUME TypeInv, NEW e \in batch \ {Listen}
  PROVE  e[1] \in Fds /\ \E c \in Clients : e = <<e[1], Sock(c)>>
BY DEF TypeInv, TypeOK

LEMMA FdIsNoListen ==
  ASSUME TypeInv, NEW x \in Fds, NEW m
  PROVE  <<x, m>> # Listen
<1>1. PeersTypeOK
  BY DEF TypeInv, TypeOK
<1>2. x # 0
  BY <1>1, FdsAreNumbers DEF NoFd
<1> QED BY <1>2 DEF Listen

LEMMA EdgeKept ==
  ASSUME TypeInv, ConnInv, EdgeInv, [Next]_vars, ~Accept, ~EpollWait,
         UNCHANGED <<backlog, accepted, knock, missed>>,
         \A c \in accepted : rx'[c] # NoFrame => rx[c] # NoFrame,
         Listen \in batch => Listen \in batch',
         \A e \in batch \ {Listen} :
           e \in batch' \/ \A c \in accepted : table[e[1]] = Sock(c) => rx'[c] = NoFrame
  PROVE  EdgeInv'
<1>0. accepted \subseteq Clients
  BY DEF TypeInv, TypeOK, PeersTypeOK
<1>1. Fds' = Fds
  BY StepPeers
<1>2. /\ \A x \in Fds : \A c \in Clients : table'[x] = Sock(c) => table[x] = Sock(c)
      /\ \A c \in accepted : \A x \in Fds :
           table[x] = Sock(c) => table'[x] = Sock(c) \/ \A y \in Fds : table'[y] # Sock(c)
      /\ \A c \in edge : c \in edge' \/ \A y \in Fds : table'[y] # Sock(c)
  BY StepSocks
<1>3. ASSUME NEW c \in accepted, rx'[c] # NoFrame
      PROVE  \/ Shut(c)' \/ c \in edge'
             \/ \E e \in batch' \ {Listen} : table'[e[1]] = Sock(c)
  <2>1. ASSUME \A y \in Fds : table'[y] # Sock(c) PROVE Shut(c)'
    BY <1>1, <2>1 DEF Shut, Sock
  <2>2. CASE Shut(c)
    BY <1>0, <1>2, <2>1, <2>2 DEF Shut
  <2>3. CASE c \in edge
    BY <1>2, <2>1, <2>3
  <2>4. ASSUME NEW e \in batch \ {Listen}, table[e[1]] = Sock(c)
        PROVE  Shut(c)' \/ \E d \in batch' \ {Listen} : table'[d[1]] = Sock(c)
    <3>1. e \in batch' /\ e[1] \in Fds
      BY <1>3, <2>4, EventTyped
    <3> QED BY <1>2, <2>1, <2>4, <3>1
  <2> QED BY <1>3, <2>2, <2>3, <2>4 DEF EdgeInv, NothingUnseen
<1>4. backlog' # <<>> => knock' \/ Listen \in batch' \/ missed'
  BY DEF EdgeInv, NothingUnseen
<1> QED BY <1>3, <1>4 DEF EdgeInv, NothingUnseen, Listen, Sock, Free

LEMMA EdgeStep ==
  ASSUME TypeInv, ConnInv, EdgeInv, [Next]_vars
  PROVE  EdgeInv'
<1>0. /\ PeersTypeOK /\ backlog \in Seq(Clients) /\ accepted \subseteq Clients
      /\ edge \subseteq accepted /\ rx \in [Clients -> {NoFrame} \cup Messages]
      /\ knock \in BOOLEAN /\ missed \in BOOLEAN
  BY DEF TypeInv, TypeOK, PeersTypeOK
<1>1. Fds' = Fds
  BY StepPeers
<1>2. \A c \in accepted : rx[c] # NoFrame =>
        Shut(c) \/ c \in edge \/ \E e \in batch \ {Listen} : table[e[1]] = Sock(c)
  BY DEF EdgeInv, NothingUnseen
<1>3. ASSUME UNCHANGED table, accepted' = accepted, edge \subseteq edge', batch' = batch,
             \A c \in accepted : rx'[c] # NoFrame => rx[c] # NoFrame \/ Shut(c) \/ c \in edge',
             backlog' # <<>> => knock' \/ Listen \in batch' \/ missed',
             missed' \/ Len(backlog') <= 1
      PROVE  EdgeInv'
  <2>1. \A c \in accepted : Shut(c)' = Shut(c)
    BY <1>1, <1>3 DEF Shut, Sock
  <2>2. ASSUME NEW c \in accepted, rx'[c] # NoFrame
        PROVE  Shut(c)' \/ c \in edge' \/ \E e \in batch' \ {Listen} : table'[e[1]] = Sock(c)
    BY <1>2, <1>3, <2>1, <2>2
  <2> QED BY <1>3, <2>2 DEF EdgeInv, NothingUnseen, Listen, Sock, Free
<1>4. ASSUME NEW c \in Clients, Arrive(c) PROVE EdgeInv'
  <2>1. /\ phase[c] = "away" /\ backlog' = Append(backlog, c)
        /\ UNCHANGED <<table, accepted, edge, batch>> /\ knock' = TRUE
        /\ missed' = (missed \/ backlog # <<>>)
        /\ \A d \in Clients : d # c => rx'[d] = rx[d]
    BY <1>0, <1>4 DEF Arrive, Connect
  <2>2. c \notin accepted
    BY <2>1 DEF ConnInv
  <2>3. missed' \/ Len(backlog') <= 1
    <3>1. backlog = <<>> => Len(backlog') <= 1
      BY <2>1
    <3>2. backlog # <<>> => missed'
      BY <2>1
    <3> QED BY <3>1, <3>2, Zenon
  <2> QED BY <1>0, <1>3, <2>1, <2>2, <2>3
<1>5. ASSUME NEW c \in Clients, Signal(c) PROVE EdgeInv'
  <2>1. /\ UNCHANGED <<table, accepted, backlog, batch, knock, missed>>
        /\ \A d \in Clients : d # c => rx'[d] = rx[d]
    BY <1>0, <1>5 DEF Signal, Confirm, Leave, Writable, peerVars, loopVars
  <2>2. edge \subseteq edge' /\ (c \in accepted => Shut(c) \/ c \in edge')
    BY <1>5 DEF Signal, Notice
  <2>3. /\ backlog' # <<>> => knock' \/ Listen \in batch' \/ missed'
        /\ missed' \/ Len(backlog') <= 1
    BY <2>1 DEF EdgeInv, NothingUnseen
  <2> QED BY <1>0, <1>3, <2>1, <2>2, <2>3
<1>6. CASE EpollWait
  <2>1. /\ batch = {} /\ batch' = Reported /\ UNCHANGED <<table, accepted, backlog, rx, missed>>
    BY <1>6 DEF EpollWait, peerVars
  <2>2. knock => Listen \in batch'
    BY <2>1 DEF Reported
  <2>3. ASSUME NEW c \in accepted, rx'[c] # NoFrame
        PROVE  Shut(c)' \/ \E e \in batch' \ {Listen} : table'[e[1]] = Sock(c)
    <3>1. Shut(c) \/ c \in edge
      BY <1>2, <2>1, <2>3
    <3>2. Shut(c) => Shut(c)'
      BY <1>1, <2>1 DEF Shut, Sock
    <3>3. CASE ~Shut(c)
      <4>1. PICK x \in Fds : table[x] = Sock(c)
        BY <1>1, <3>3 DEF Shut
      <4>2. IsSock(x) /\ Owner(x) = c
        BY <4>1, MeansSock
      <4>3. <<x, table[x]>> \in batch' /\ <<x, table[x]>> # Listen
        BY <2>1, <3>1, <3>3, <4>2, FdIsNoListen DEF Reported
      <4> QED BY <2>1, <4>1, <4>3
    <3> QED BY <3>2, <3>3
  <2>4. /\ backlog' # <<>> => knock' \/ Listen \in batch' \/ missed'
        /\ missed' \/ Len(backlog') <= 1
    BY <2>1, <2>2 DEF EdgeInv, NothingUnseen
  <2> QED BY <2>1, <2>3, <2>4 DEF EdgeInv, NothingUnseen, Listen, Sock, Free
<1>7. CASE Accept
  <2> DEFINE x == LowestFree
             c == Head(backlog)
  <2>1. /\ backlog # <<>> /\ table' = [table EXCEPT ![x] = Sock(c)]
        /\ accepted' = accepted \cup {c} /\ backlog' = Tail(backlog)
        /\ edge' = edge \cup {c} /\ batch' = batch \ {Listen}
        /\ UNCHANGED <<rx, missed>>
    BY <1>7 DEF Accept, TakeConnection, Watch
  <2>2. x \in Fds /\ table[x] = Free
    BY <1>0, <1>7, LowestFreeIsFree DEF Accept, TakeConnection
  <2>3. c \in Clients /\ c \in Elems(backlog) /\ Len(backlog') = Len(backlog) - 1
    BY <1>0, <2>1, TailElems
  <2>4. Sock(c) \in Owners
    BY <2>3 DEF Owners
  <2>5. table'[x] = Sock(c) /\ \A y \in Fds : y # x => table'[y] = table[y]
    BY <1>0, <2>1, <2>2, <2>4, TableAfter
  <2>6. missed' \/ (Len(backlog') = 0 /\ backlog' = <<>>)
    <3>1. missed \/ Len(backlog) <= 1
      BY DEF EdgeInv
    <3>2. Len(backlog) \in Nat /\ Len(backlog) >= 1
      BY <1>0, <2>1
    <3>3. Len(backlog') = 0 => backlog' = <<>>
      BY <1>0, <2>1, <3>2
    <3> QED BY <2>1, <2>3, <3>1, <3>2, <3>3
  <2> HIDE DEF x, c
  <2>7. ASSUME NEW d \in accepted', rx'[d] # NoFrame
        PROVE  Shut(d)' \/ d \in edge' \/ \E e \in batch' \ {Listen} : table'[e[1]] = Sock(d)
    <3>1. CASE d = c
      BY <2>1, <3>1
    <3>2. CASE d # c
      <4>1. d \in accepted /\ rx[d] # NoFrame
        BY <2>1, <2>7, <3>2
      <4>2. Shut(d) => Shut(d)'
        <5>1. \A y \in Fds : table[y] # Sock(d) => table'[y] # Sock(d)
          BY <2>5, <3>2, Kinds
        <5> QED BY <1>1, <2>1, <4>1, <5>1 DEF Shut, Sock
      <4>3. ASSUME NEW e \in batch \ {Listen}, table[e[1]] = Sock(d)
            PROVE  e \in batch' \ {Listen} /\ table'[e[1]] = Sock(d)
        <5>1. e[1] \in Fds /\ e[1] # x
          BY <2>2, <4>3, EventTyped, Kinds
        <5> QED BY <2>1, <2>5, <4>3, <5>1
      <4> QED BY <1>2, <2>1, <4>1, <4>2, <4>3
    <3> QED BY <3>1, <3>2
  <2>8. /\ backlog' # <<>> => knock' \/ Listen \in batch' \/ missed'
        /\ missed' \/ Len(backlog') <= 1
    BY <2>6
  <2> QED BY <2>7, <2>8 DEF EdgeInv, NothingUnseen, Listen, Sock, Free
<1>8. CASE AcceptFails
  <2>1. /\ batch' = batch \ {Listen} /\ missed' = TRUE
        /\ UNCHANGED <<table, accepted, rx, edge>>
    BY <1>8 DEF AcceptFails, peerVars
  <2>2. \A d \in accepted : Shut(d)' = Shut(d)
    BY <1>1, <2>1 DEF Shut, Sock
  <2>3. ASSUME NEW d \in accepted, rx'[d] # NoFrame
        PROVE  Shut(d)' \/ d \in edge' \/ \E e \in batch' \ {Listen} : table'[e[1]] = Sock(d)
    BY <1>2, <2>1, <2>2, <2>3
  <2> QED BY <2>1, <2>3 DEF EdgeInv, NothingUnseen, Listen, Sock, Free
<1>9. CASE ~Accept /\ ~EpollWait /\ ~AcceptFails /\ \A c \in Clients : ~Arrive(c) /\ ~Signal(c)
  <2>1. UNCHANGED <<backlog, accepted>>
    BY <1>9, StepClients
  <2>2. ASSUME NEW x \in Fds, RecvFrame(x) \/ RecvNothing(x) \/ RecvEof(x) \/ RecvFails(x)
        PROVE  EdgeInv'
    <3>1. PICK e \in batch : e # Listen /\ e[1] = x /\ batch' = batch \ {e}
      BY <2>2 DEF RecvFrame, RecvNothing, RecvEof, RecvFails, TakeEvent
    <3>2. knock' = knock /\ missed' = missed
      BY <2>2 DEF RecvFrame, RecvNothing, RecvEof, RecvFails
    <3>3. /\ \A c \in accepted : rx'[c] # NoFrame => rx[c] # NoFrame
          /\ \A c \in accepted : table[x] = Sock(c) => rx'[c] = NoFrame
      <4>1. CASE RecvFrame(x)
        <5>1. PICK c \in Clients : table[x] = Sock(c) /\ rx' = [rx EXCEPT ![c] = NoFrame]
          BY <4>1, RecvFrameMeans
        <5>2. \A d : Sock(d) = Sock(c) => d = c
          BY Kinds
        <5> QED BY <1>0, <5>1, <5>2
      <4>2. CASE RecvNothing(x) \/ RecvEof(x) \/ RecvFails(x)
        <5>1. rx' = rx
          BY <4>2 DEF RecvNothing, RecvEof, RecvFails, CloseFd, peerVars
        <5>2. IsSock(x) => rx[Owner(x)] = NoFrame
          BY <4>2 DEF RecvNothing, RecvEof, RecvFails
        <5>3. \A c \in accepted : table[x] = Sock(c) => rx[c] = NoFrame
          BY <5>2, MeansSock
        <5> QED BY <5>1, <5>3
      <4> QED BY <2>2, <4>1, <4>2
    <3>4. /\ Listen \in batch => Listen \in batch'
          /\ \A d \in batch \ {Listen} :
               d \in batch' \/ \A c \in accepted : table[d[1]] = Sock(c) => rx'[c] = NoFrame
      BY <3>1, <3>3
    <3> QED BY <1>9, <2>1, <3>2, <3>3, <3>4, EdgeKept
  <2>3. ASSUME UNCHANGED <<rx, batch, knock, missed>> PROVE EdgeInv'
    BY <1>9, <2>1, <2>3, EdgeKept
  <2>4. CASE NormalAnalytical \/ FileNotExit \/ EnsureAnalytical \/ ContinuinglyAnalytical
             \/ AfterUsleep \/ SendAgain \/ Race \/ UNCHANGED vars
    BY <2>3, <2>4 DEF NormalAnalytical, FileNotExit, EnsureAnalytical, ContinuinglyAnalytical,
                      AfterUsleep, SendAgain, Race, vars, loopVars, peerVars
  <2>5. CASE SendSteps
    BY <2>3, <2>5 DEF SendSteps, SendPart, SendLast, SendStaleErrno, SendNothing, SendFatal,
                      EndTask, loopVars
  <2> QED BY <1>9, <2>2, <2>4, <2>5, NextCases
<1> QED BY <1>4, <1>5, <1>6, <1>7, <1>8, <1>9
-----------------------------------------------------------------------------
(* What there is to do for a client, and what it has received.             *)

(***************************************************************************)
(* A step that is about one client leaves the others as they are.          *)
(***************************************************************************)
OnlyAbout(c) ==
  /\ \A d \in Clients \ {c} :
       phase'[d] = phase[d] /\ rx'[d] = rx[d] /\ from'[d] = from[d] /\ got'[d] = got[d]
  /\ gone \subseteq gone' /\ taken \subseteq taken'
  /\ \A f \in Elems(pipe') : f.name = c \/ f \in Elems(pipe)
  /\ \A f \in Elems(job') : f.name = c \/ f \in Elems(job)
  /\ \A t \in Elems(tasks') :
       \/ t.name = c
       \/ \E u \in Elems(tasks) : Like(t, u) /\ (t.p = u.p \/ t.name \in taken')

LEMMA OthersOrderly ==
  ASSUME Orderly, NEW c \in Clients, OnlyAbout(c), NEW d \in Clients, d # c
  PROVE  PlaceOf(d)' /\ BytesOf(d)'
<1>1. /\ phase'[d] = phase[d] /\ rx'[d] = rx[d] /\ from'[d] = from[d] /\ got'[d] = got[d]
      /\ d \in gone => d \in gone'
      /\ d \in taken => d \in taken'
  BY DEF OnlyAbout
<1>2. /\ \A f \in Elems(pipe') : f.name = d => f \in Elems(pipe)
      /\ \A f \in Elems(job') : f.name = d => f \in Elems(job)
      /\ \A t \in Elems(tasks') :
           t.name = d => \E u \in Elems(tasks) :
             u.name = d /\ u.offset = t.offset /\ (t.p = u.p \/ d \in taken')
  BY DEF OnlyAbout, Like
<1>3. PlaceOf(d) /\ BytesOf(d)
  BY DEF Orderly
<1>4. /\ InSocket(d)' <=> InSocket(d)
      /\ InPipe(d)' => InPipe(d)
      /\ InJob(d)' => InJob(d)
      /\ InTasks(d)' => InTasks(d)
  BY <1>1, <1>2 DEF InSocket, InPipe, InJob, InTasks, NoFrame, Elems
<1>5. PlaceOf(d)'
  <2>1. OnePlace(d)'
    BY <1>1, <1>3, <1>4 DEF PlaceOf, OnePlace
  <2>2. \A f \in Elems(pipe') : f.name = d => (f.fn = "Ensure" <=> phase'[d] = "receiving")
    BY <1>1, <1>2, <1>3 DEF PlaceOf
  <2> QED BY <2>1, <2>2 DEF PlaceOf, Elems
<1>6. BytesOf(d)'
  <2>1. /\ phase'[d] \in {"away", "asked", "offered"} => got'[d] = <<>>
        /\ phase'[d] \in {"away", "offered"} => from'[d] = 0
        /\ InSocket(d)' => got'[d] = <<>> /\ from'[d] = StartOf(rx'[d][1], rx'[d][2])
    BY <1>1, <1>3, <1>4 DEF BytesOf
  <2>2. \A f \in Elems(pipe') \cup Elems(job') :
          f.name = d => got'[d] = <<>> /\ from'[d] = StartOf(f.fn, f.arg)
    BY <1>1, <1>2, <1>3 DEF BytesOf
  <2>3. \A t \in Elems(tasks') :
          t.name = d => /\ t.p \in {Nobody, d} \/ d \in taken'
                        /\ d \in gone' \/ t.offset = from'[d] + Len(got'[d])
    BY <1>1, <1>2, <1>3 DEF BytesOf
  <2> QED BY <2>1, <2>2, <2>3 DEF BytesOf, Elems, StartOf, Nobody
<1> QED BY <1>5, <1>6

\* So it is enough to look at the one.
LEMMA OneOrderly ==
  ASSUME Orderly, NEW c \in Clients, OnlyAbout(c),
         Distinct(pipe'), Distinct(tasks'), PlaceOf(c)', BytesOf(c)'
  PROVE  Orderly'
<1>1. \A d \in Clients : PlaceOf(d)' /\ BytesOf(d)'
  BY OthersOrderly
<1> QED BY <1>1 DEF Orderly, Distinct

LEMMA SameOrderly ==
  ASSUME Orderly, UNCHANGED <<phase, rx, from, got, pipe, job, tasks>>,
         gone \subseteq gone', taken \subseteq taken'
  PROVE  Orderly'
<1>1. ASSUME NEW d \in Clients PROVE PlaceOf(d)' /\ BytesOf(d)'
  <2>1. PlaceOf(d) /\ BytesOf(d)
    BY DEF Orderly
  <2> QED BY <2>1 DEF PlaceOf, BytesOf, OnePlace, InSocket, InPipe, InJob, InTasks,
                      Elems, NoFrame, StartOf, Nobody
<1> QED BY <1>1 DEF Orderly, Distinct

(***************************************************************************)
(* The clients' own steps.                                                 *)
(***************************************************************************)
LEMMA ClientsOrderly ==
  ASSUME TypeInv, ConnInv, Orderly, NEW c \in Clients, Arrive(c) \/ Signal(c)
  PROVE  Orderly'
<1>0. PeersTypeOK /\ phase \in [Clients -> {"away", "asked", "refused", "offered", "receiving"}]
      /\ rx \in [Clients -> {NoFrame} \cup Messages] /\ from \in [Clients -> 0 .. Bytes]
  BY DEF TypeInv, TypeOK, PeersTypeOK
<1>1. PlaceOf(c) /\ BytesOf(c)
  BY DEF Orderly
<1>2. ASSUME UNCHANGED <<got, pipe, job, tasks, taken>>, gone' = gone,
             phase[c] \in {"away", "offered"}, phase'[c] \in {"asked", "receiving"},
             \A d \in Clients \ {c} :
               phase'[d] = phase[d] /\ rx'[d] = rx[d] /\ from'[d] = from[d],
             rx'[c][1] = "Ensure" <=> phase'[c] = "receiving",
             from'[c] = StartOf(rx'[c][1], rx'[c][2])
      PROVE  Orderly'
  <2>1. OnlyAbout(c)
    BY <1>2 DEF OnlyAbout, Like
  <2>2. ~InPipe(c) /\ ~InJob(c) /\ ~InTasks(c) /\ got[c] = <<>>
    BY <1>1, <1>2 DEF PlaceOf, BytesOf, OnePlace
  <2>3. /\ ~InPipe(c)' /\ ~InJob(c)' /\ ~InTasks(c)' /\ got'[c] = <<>>
        /\ \A f \in Elems(pipe') \cup Elems(job') \cup Elems(tasks') : f.name # c
    BY <2>2, <1>2 DEF InPipe, InJob, InTasks, Elems
  <2>4. PlaceOf(c)'
    <3>1. OnePlace(c)'
      BY <2>3, <1>2 DEF OnePlace
    <3> QED BY <3>1, <2>3 DEF PlaceOf, Elems
  <2>5. BytesOf(c)'
    BY <2>3, <1>2 DEF BytesOf, Elems, StartOf
  <2>6. Distinct(pipe') /\ Distinct(tasks')
    BY <1>2 DEF Orderly
  <2> QED BY <2>1, <2>4, <2>5, <2>6, OneOrderly
<1>3. CASE Arrive(c)
  <2>1. /\ UNCHANGED <<got, pipe, job, tasks, gone, taken>>
        /\ phase[c] = "away" /\ phase' = [phase EXCEPT ![c] = "asked"]
        /\ \/ rx' = [rx EXCEPT ![c] = <<"Normal", 0>>] /\ UNCHANGED from
           \/ \E n \in 0 .. Bytes :
                /\ rx' = [rx EXCEPT ![c] = <<"Resume", n>>]
                /\ from' = [from EXCEPT ![c] = n]
    BY <1>3 DEF Arrive, Connect, parserVars, taskVars
  <2>2. from[c] = 0
    BY <1>1, <2>1 DEF BytesOf
  <2>3. \A d \in Clients \ {c} :
          phase'[d] = phase[d] /\ rx'[d] = rx[d] /\ from'[d] = from[d]
    BY <1>0, <2>1
  <2>4. rx'[c][1] # "Ensure" /\ from'[c] = StartOf(rx'[c][1], rx'[c][2])
    BY <1>0, <2>1, <2>2 DEF StartOf
  <2>5. phase'[c] = "asked"
    BY <1>0, <2>1
  <2> QED BY <1>2, <2>1, <2>3, <2>4, <2>5
<1>4. CASE Signal(c)
  <2>0. UNCHANGED <<pipe, job, tasks, taken>>
    BY <1>4 DEF Signal, parserVars, taskVars
  <2>1. CASE Confirm(c)
    <3>1. /\ UNCHANGED <<got, gone, from>> /\ phase[c] = "offered"
          /\ phase'[c] = "receiving" /\ rx'[c] = <<"Ensure", told[c]>>
          /\ \A d \in Clients \ {c} : phase'[d] = phase[d] /\ rx'[d] = rx[d]
      BY <1>0, <2>1 DEF Confirm
    <3>2. from[c] = 0
      BY <1>1, <3>1 DEF BytesOf
    <3>3. from'[c] = StartOf(rx'[c][1], rx'[c][2]) /\ rx'[c][1] = "Ensure"
      BY <3>1, <3>2 DEF StartOf
    <3> QED BY <1>2, <2>0, <3>1, <3>3
  <2>2. CASE Leave(c) \/ Writable(c)
    <3>1. UNCHANGED <<phase, rx, from, got>> /\ gone \subseteq gone'
      BY <2>2 DEF Leave, Writable, peerVars
    <3> QED BY <2>0, <3>1, SameOrderly
  <2> QED BY <1>4, <2>1, <2>2 DEF Signal
<1> QED BY <1>3, <1>4

(***************************************************************************)
(* recv: the frame goes from the socket to the pipe.                       *)
(***************************************************************************)
LEMMA RecvOrderly ==
  ASSUME TypeInv, Orderly, NEW x \in Fds, RecvFrame(x)
  PROVE  Orderly'
<1>1. PICK c \in Clients :
        /\ InSocket(c) /\ rx' = [rx EXCEPT ![c] = NoFrame]
        /\ [fn |-> rx[c][1], arg |-> rx[c][2], fd |-> x, name |-> c] \in Frames
        /\ pipe' = Append(pipe, [fn |-> rx[c][1], arg |-> rx[c][2], fd |-> x, name |-> c])
  BY RecvFrameMeans
<1> DEFINE e == [fn |-> rx[c][1], arg |-> rx[c][2], fd |-> x, name |-> c]
<1>2. UNCHANGED <<phase, from, got, gone, job, tasks, taken>>
  BY DEF RecvFrame, TakeFrame, taskVars
<1>3. pipe \in Seq(Frames) /\ rx \in [Clients -> {NoFrame} \cup Messages]
  BY DEF TypeInv, TypeOK, PeersTypeOK
<1>4. PlaceOf(c) /\ BytesOf(c)
  BY DEF Orderly
<1>5. ~InPipe(c) /\ ~InJob(c) /\ ~InTasks(c)
  BY <1>1, <1>4 DEF PlaceOf, OnePlace
<1>6. e.name = c /\ e.fn = rx[c][1] /\ e.arg = rx[c][2] /\ e \in Frames
  BY <1>1
<1>7. pipe' = Append(pipe, e)
  BY <1>1
<1> HIDE DEF e
<1>8. Elems(pipe') = Elems(pipe) \cup {e} /\ Distinct(pipe')
  <2>1. \A d \in Elems(pipe) : d.name # e.name
    BY <1>5, <1>6 DEF InPipe
  <2>2. Distinct(pipe)
    BY DEF Orderly
  <2> QED BY <1>3, <1>6, <1>7, <2>1, <2>2, AppendElems
<1>9. OnlyAbout(c)
  BY <1>1, <1>2, <1>3, <1>6, <1>8 DEF OnlyAbout, Like
<1>10. /\ ~InSocket(c)' /\ ~InJob(c)' /\ ~InTasks(c)'
       /\ \A f \in Elems(pipe') : f.name = c => f = e
       /\ \A f \in Elems(job') \cup Elems(tasks') : f.name # c
  <2>1. rx'[c] = NoFrame
    BY <1>1, <1>3
  <2> QED BY <1>2, <1>5, <1>8, <2>1 DEF InSocket, InPipe, InJob, InTasks, Elems, NoFrame
<1>11. PlaceOf(c)'
  <2>1. OnePlace(c)'
    BY <1>1, <1>2, <1>4, <1>10 DEF PlaceOf, OnePlace
  <2>2. e.fn = "Ensure" <=> phase'[c] = "receiving"
    BY <1>1, <1>2, <1>4, <1>6 DEF PlaceOf, OnePlace
  <2> QED BY <2>1, <2>2, <1>10 DEF PlaceOf, Elems
<1>12. BytesOf(c)'
  <2>1. got'[c] = <<>> /\ from'[c] = StartOf(e.fn, e.arg)
    BY <1>1, <1>2, <1>4, <1>6 DEF BytesOf
  <2>2. phase'[c] \in {"away", "offered"} => from'[c] = 0
    BY <1>2, <1>4 DEF BytesOf
  <2> QED BY <1>10, <2>1, <2>2 DEF BytesOf, Elems, StartOf
<1>13. Distinct(tasks')
  BY <1>2 DEF Orderly
<1> QED BY <1>8, <1>9, <1>11, <1>12, <1>13, OneOrderly

(***************************************************************************)
(* The parser reads the only record there is for the client.               *)
(***************************************************************************)
LEMMA ReadOrderly ==
  ASSUME TypeInv, Orderly, NEW fns, ReadPipe(fns)
  PROVE  LET c == data.name
         IN  /\ c \in Clients /\ PlaceOf(c) /\ BytesOf(c)
             /\ Distinct(pipe') /\ job = <<>>
             /\ \A f \in Elems(pipe') : f \in Elems(pipe) /\ f.name # c
             /\ ~InSocket(c) /\ ~InJob(c) /\ ~InTasks(c)
             /\ got[c] = <<>> /\ from[c] = StartOf(data.fn, data.arg)
             /\ phase[c] = IF data.fn = "Ensure" THEN "receiving" ELSE "asked"
<1> DEFINE c == data.name
<1>0. phase \in [Clients -> {"away", "asked", "refused", "offered", "receiving"}]
  BY DEF TypeInv, TypeOK, PeersTypeOK
<1>1. /\ pipe \in Seq(Frames) /\ pipe # <<>> /\ pipe' = Tail(pipe) /\ job = <<>>
      /\ data = Head(pipe) /\ Distinct(pipe)
  BY DEF TypeInv, TypeOK, ReadPipe, data, Orderly
<1>2. c \in Clients /\ data \in Elems(pipe)
  BY DataTyped
<1>3. PlaceOf(c) /\ BytesOf(c)
  BY <1>2 DEF Orderly
<1>4. InPipe(c)
  BY <1>2 DEF InPipe
<1>5. /\ ~InSocket(c) /\ ~InJob(c) /\ ~InTasks(c)
      /\ phase[c] \notin {"away", "refused", "offered"}
      /\ data.fn = "Ensure" <=> phase[c] = "receiving"
      /\ got[c] = <<>> /\ from[c] = StartOf(data.fn, data.arg)
  BY <1>2, <1>3, <1>4 DEF PlaceOf, OnePlace, BytesOf
<1>6. /\ Distinct(pipe')
      /\ \A f \in Elems(pipe') : f \in Elems(pipe) /\ f.name # c
  BY <1>1, TailElems
<1> QED BY <1>0, <1>1, <1>2, <1>3, <1>5, <1>6

LEMMA ParserOrderly ==
  ASSUME TypeInv, Orderly, ~strayed',
         NormalAnalytical \/ FileNotExit \/ ContinuinglyAnalytical
  PROVE  Orderly'
<1>c. PICK c : c = data.name
  OBVIOUS
<1>0. PeersTypeOK
  BY DEF TypeInv, TypeOK
<1>1. \/ ReadPipe({"Normal"}) /\ NormalAnalytical
      \/ ReadPipe({"Normal", "Resume"}) /\ FileNotExit
      \/ ReadPipe({"Resume"}) /\ ContinuinglyAnalytical
  BY DEF NormalAnalytical, FileNotExit, ContinuinglyAnalytical
<1>2. /\ c \in Clients /\ PlaceOf(c) /\ BytesOf(c)
      /\ Distinct(pipe') /\ job = <<>>
      /\ \A f \in Elems(pipe') : f \in Elems(pipe) /\ f.name # c
      /\ ~InSocket(c) /\ ~InJob(c) /\ ~InTasks(c)
      /\ got[c] = <<>> /\ from[c] = StartOf(data.fn, data.arg) /\ data.fd \in Fds
      /\ phase[c] = IF data.fn = "Ensure" THEN "receiving" ELSE "asked"
  BY <1>1, <1>c, ReadOrderly, DataTyped
<1>3. phase[c] = "asked" /\ data.fn \in {"Normal", "Resume"}
  BY <1>1, <1>2 DEF ReadPipe
<1>4. table[data.fd] = Sock(c)
  BY <1>c DEF NormalAnalytical, FileNotExit, ContinuinglyAnalytical, Stray
<1>5. UNCHANGED <<rx, from, got, gone, tasks, taken>>
  BY DEF NormalAnalytical, FileNotExit, ContinuinglyAnalytical, taskVars
<1>6. \E to \in {"refused", "offered", "receiving"} :
        /\ \E n : Reply(data.fd, to, n)
        /\ \/ NormalAnalytical /\ to = "offered"
           \/ FileNotExit /\ to = "refused"
           \/ ContinuinglyAnalytical /\ to = "receiving"
  BY DEF NormalAnalytical, FileNotExit, ContinuinglyAnalytical
<1>7. PICK to \in {"refused", "offered", "receiving"} :
        /\ phase'[c] = to /\ \A d \in Clients \ {c} : phase'[d] = phase[d]
        /\ \/ NormalAnalytical /\ to = "offered"
           \/ FileNotExit /\ to = "refused"
           \/ ContinuinglyAnalytical /\ to = "receiving"
  BY <1>0, <1>2, <1>3, <1>4, <1>6, OwnReply
<1>8. \/ job' = job /\ to # "receiving" /\ (to = "offered" => data.fn = "Normal")
      \/ job' = <<data>> /\ to = "receiving"
  BY <1>1, <1>7 DEF NormalAnalytical, FileNotExit, ContinuinglyAnalytical, ReadPipe
<1>9. \A f \in Elems(job') : f = data /\ to = "receiving"
  BY <1>2, <1>8 DEF Elems
<1>10. OnlyAbout(c)
  BY <1>2, <1>5, <1>7, <1>9, <1>c DEF OnlyAbout, Like
<1>11. /\ ~InSocket(c)' /\ ~InPipe(c)' /\ ~InTasks(c)'
       /\ \A f \in Elems(pipe') \cup Elems(tasks') : f.name # c
       /\ to # "receiving" => ~InJob(c)'
  BY <1>2, <1>5, <1>9 DEF InSocket, InPipe, InJob, InTasks, Elems, NoFrame
<1>12. PlaceOf(c)'
  <2>1. OnePlace(c)'
    BY <1>7, <1>11 DEF OnePlace
  <2> QED BY <2>1, <1>11 DEF PlaceOf, Elems
<1>13. BytesOf(c)'
  <2>1. got'[c] = <<>> /\ from'[c] = StartOf(data.fn, data.arg)
    BY <1>2, <1>5
  <2>2. to = "offered" => from'[c] = 0
    BY <1>8, <2>1 DEF StartOf
  <2> QED BY <1>7, <1>9, <1>11, <2>1, <2>2 DEF BytesOf, Elems, StartOf
<1>14. Distinct(tasks')
  BY <1>5 DEF Orderly
<1> QED BY <1>2, <1>10, <1>12, <1>13, <1>14, OneOrderly

(***************************************************************************)
(* Both ways to a task: the client's place in the file goes with it.       *)
(***************************************************************************)
LEMMA TaskOrderly ==
  ASSUME TypeInv, Orderly, NEW c \in Clients, NEW file \in Numbers, NEW sock \in Fds,
         NEW size \in Int, NEW offset \in Nat, NEW p \in {Nobody, c},
         AddDownTask(file, sock, size, offset, p, c),
         UNCHANGED <<phase, rx, from, got, gone, taken>>, Distinct(pipe'),
         phase[c] \notin {"away", "asked", "refused", "offered"},
         ~InSocket(c), ~InTasks(c), got[c] = <<>>, offset = from[c],
         \A f \in Elems(pipe') : f \in Elems(pipe) /\ f.name # c,
         \A f \in Elems(job') : f \in Elems(job) /\ f.name # c
  PROVE  Orderly'
<1>1. tasks \in Seq(Tasks) /\ Distinct(tasks)
  BY DEF TypeInv, TypeOK, Orderly
<1>2. \A u \in Elems(tasks) : u.name # c
  BY DEF InTasks
<1>3. PICK e \in Tasks :
        /\ e.offset = offset /\ e.p = p /\ e.name = c
        /\ \A t \in Elems(tasks') :
             t = e \/ \E u \in Elems(tasks) : Like(t, u) /\ (t.p = u.p \/ u.p = Hole)
        /\ Distinct(tasks')
  <2>1. p \in Clients \cup {Nobody}
    OBVIOUS
  <2>2. \E e \in Tasks :
          /\ e.file = file /\ e.left = size /\ e.offset = offset /\ e.p = p /\ e.name = c
          /\ tasks' \in Seq(Tasks) /\ Len(tasks') = Len(tasks) + 1
          /\ \A t \in Elems(tasks') :
               t = e \/ \E u \in Elems(tasks) : Like(t, u) /\ (t.p = u.p \/ u.p = Hole)
          /\ Distinct(tasks) /\ (\A u \in Elems(tasks) : u.name # c) => Distinct(tasks')
    <3>1. ASSUME tasks \in Seq(Tasks), NEW q \in Clients \cup {Nobody},
                 AddDownTask(file, sock, size, offset, q, c)
          PROVE  \E e \in Tasks :
                   /\ e.file = file /\ e.left = size /\ e.offset = offset
                   /\ e.p = q /\ e.name = c
                   /\ tasks' \in Seq(Tasks) /\ Len(tasks') = Len(tasks) + 1
                   /\ \A t \in Elems(tasks') :
                        t = e \/ \E u \in Elems(tasks) : Like(t, u) /\ (t.p = u.p \/ u.p = Hole)
                   /\ Distinct(tasks) /\ (\A u \in Elems(tasks) : u.name # c)
                        => Distinct(tasks')
      BY <3>1, AddedTasks
    <3> QED BY <1>1, <2>1, <3>1
  <2> QED BY <1>1, <1>2, <2>2
<1>h. \A u \in Elems(tasks) : u.p = Hole => u.name \in taken
  <2>1. ASSUME NEW u \in Elems(tasks), u.p = Hole PROVE u.name \in taken
    <3>1. u.name \in Clients
      <4>1. PICK i \in DOMAIN tasks : u = tasks[i]
        BY <2>1 DEF Elems
      <4>2. u \in Tasks
        BY <1>1, <4>1
      <4> QED BY <4>2 DEF Tasks
    <3>2. u.p \in {Nobody, u.name} \/ u.name \in taken
      BY <3>1 DEF Orderly, BytesOf
    <3> QED BY <2>1, <3>1, <3>2, HoleAssumption DEF Hole, Nobody
  <2> QED BY <2>1
<1>4. OnlyAbout(c)
  BY <1>3, <1>h DEF OnlyAbout, Like
<1>5. ~InSocket(c)' /\ ~InPipe(c)' /\ ~InJob(c)'
  BY DEF InSocket, InPipe, InJob, Elems, NoFrame
<1>6. PlaceOf(c)'
  <2>1. OnePlace(c)'
    BY <1>5 DEF OnePlace
  <2> QED BY <2>1 DEF PlaceOf, Elems
<1>7. BytesOf(c)'
  <2>1. \A t \in Elems(tasks') : t.name = c => t = e
    BY <1>2, <1>3 DEF Like
  <2>2. e.p \in {Nobody, c} /\ e.offset = from'[c] + Len(got'[c])
    BY <1>3
  <2> QED BY <1>5, <2>1, <2>2 DEF BytesOf, Elems, StartOf, Nobody
<1> QED BY <1>3, <1>4, <1>6, <1>7, OneOrderly

LEMMA EnsureOrderly ==
  ASSUME TypeInv, Orderly, ~strayed', EnsureAnalytical
  PROVE  Orderly'
<1> DEFINE c == data.name
           p == IF IsFile(data.arg) THEN Owner(data.arg) ELSE Nobody
<1>0. PeersTypeOK
  BY DEF TypeInv, TypeOK
<1>1. ReadPipe({"Ensure"})
  BY DEF EnsureAnalytical
<1>2. /\ c \in Clients /\ Distinct(pipe') /\ job = <<>>
      /\ \A f \in Elems(pipe') : f \in Elems(pipe) /\ f.name # c
      /\ ~InSocket(c) /\ ~InTasks(c)
      /\ got[c] = <<>> /\ from[c] = StartOf(data.fn, data.arg)
      /\ data.fn = "Ensure" /\ phase[c] = "receiving"
      /\ data.arg \in Numbers /\ data.fd \in Fds
  BY <1>1, ReadOrderly, DataTyped
<1>3. from[c] = 0
  BY <1>2 DEF StartOf
<1>4. p \in {Nobody, c}
  <2>1. data.arg = NoFd \/ table[data.arg] = File(c)
    BY DEF EnsureAnalytical
  <2>2. CASE data.arg = NoFd
    BY <1>0, <2>2, FdsAreNumbers DEF IsFile
  <2>3. CASE data.arg # NoFd
    <3>1. data.arg \in Fds
      BY <1>2, <2>3 DEF Numbers
    <3> QED BY <2>1, <2>3, <3>1, MeansFile
  <2> QED BY <2>2, <2>3
<1>5. /\ AddDownTask(data.arg, data.fd, SizeOf(data.arg), 0, p, c)
      /\ UNCHANGED <<phase, rx, from, got, gone, job>>
  BY DEF EnsureAnalytical, peerVars
<1>t. taken' = taken
  BY DEF EnsureAnalytical
<1>6. SizeOf(data.arg) \in Int /\ 0 \in Nat
  BY NumbersAssumption DEF SizeOf
<1>7. \A f \in Elems(job') : f \in Elems(job) /\ f.name # c
  BY <1>2, <1>5 DEF Elems
<1> HIDE DEF c, p
<1> QED BY <1>2, <1>3, <1>4, <1>5, <1>t, <1>6, <1>7, TaskOrderly

LEMMA AfterUsleepOrderly ==
  ASSUME TypeInv, Orderly, AfterUsleep
  PROVE  Orderly'
<1> DEFINE frame == Head(job)
           c == frame.name
<1>0. phase \in [Clients -> {"away", "asked", "refused", "offered", "receiving"}]
  BY DEF TypeInv, TypeOK, PeersTypeOK
<1>1. PICK fileFd \in Numbers :
        AddDownTask(fileFd, frame.fd, SizeOf(fileFd) - frame.arg, Count(frame),
                    IF fileFd = NoFd THEN Nobody ELSE frame.name, frame.name)
  BY DEF AfterUsleep
<1>2. /\ job # <<>> /\ job' = <<>>
      /\ UNCHANGED <<phase, rx, from, got, gone, pipe, taken>>
  BY DEF AfterUsleep
<1>3. /\ frame \in Elems(job) /\ frame.fd \in Fds /\ c \in Clients
      /\ frame.fn = "Resume" /\ frame.arg \in 0 .. Bytes
  BY <1>2, JobTyped
<1>4. PlaceOf(c) /\ BytesOf(c) /\ InJob(c)
  BY <1>3 DEF Orderly, InJob
<1>5. /\ ~InSocket(c) /\ ~InPipe(c) /\ ~InTasks(c)
      /\ phase[c] \notin {"away", "asked", "refused", "offered"}
  BY <1>4 DEF PlaceOf, OnePlace
<1>6. got[c] = <<>> /\ Count(frame) = from[c]
  BY <1>3, <1>4 DEF BytesOf, StartOf, Count
<1> DEFINE p == IF fileFd = NoFd THEN Nobody ELSE c
<1>7. /\ AddDownTask(fileFd, frame.fd, SizeOf(fileFd) - frame.arg, Count(frame), p, c)
      /\ SizeOf(fileFd) - frame.arg \in Int /\ Count(frame) \in Nat /\ p \in {Nobody, c}
  BY <1>1, <1>3, NumbersAssumption DEF SizeOf, Count
<1>8. /\ \A f \in Elems(pipe') : f \in Elems(pipe) /\ f.name # c
      /\ \A f \in Elems(job') : f \in Elems(job) /\ f.name # c
      /\ Distinct(pipe')
  BY <1>2, <1>5 DEF InPipe, Elems, Orderly
<1> HIDE DEF c, p, frame
<1> QED BY <1>2, <1>3, <1>5, <1>6, <1>7, <1>8, TaskOrderly

(***************************************************************************)
(* The task's number is still the client's socket, and what is sent is of  *)
(* the client's file.                                                      *)
(***************************************************************************)
LEMMA SendMeans ==
  ASSUME TypeInv, Orderly, ~strayed', tasks # <<>>, SendSteps,
         NEW c, c = task.name
  PROVE  /\ c \in Clients /\ task.sock \in Fds /\ table[task.sock] = Sock(c)
         /\ PlaceOf(c) /\ BytesOf(c) /\ InTasks(c)
         /\ ~InSocket(c) /\ ~InPipe(c) /\ ~InJob(c) /\ phase[c] = "receiving"
         /\ task.p \in {Nobody, c} \/ c \in taken
         /\ c \in gone \/ task.offset = from[c] + Len(got[c])
         /\ Ends => task.file = NoFd \/ table[task.file] = File(c)
         /\ UNCHANGED <<phase, rx, from, gone, pipe, job, unopened>>
<1>1. c \in Clients /\ task \in Elems(tasks) /\ task.sock \in Fds
  BY TaskTyped
<1>2. PlaceOf(c) /\ BytesOf(c) /\ InTasks(c)
  BY <1>1 DEF Orderly, InTasks
<1>3. /\ ~InSocket(c) /\ ~InPipe(c) /\ ~InJob(c)
      /\ phase[c] \notin {"away", "asked", "refused", "offered"}
  BY <1>2 DEF PlaceOf, OnePlace
<1>4. phase[c] = "receiving"
  BY <1>1, <1>3 DEF TypeInv, TypeOK, PeersTypeOK
<1>5. /\ task.p \in {Nobody, c} \/ c \in taken
      /\ c \in gone \/ task.offset = from[c] + Len(got[c])
  BY <1>1, <1>2 DEF BytesOf
<1>6. /\ table[task.sock] = Sock(c)
      /\ Ends => task.file = NoFd \/ table[task.file] = File(c)
  <2>1. CASE SendPart
    BY <2>1 DEF SendPart, Ends, EndTask
  <2>2. CASE Ends
    BY <2>2 DEF Ends, EndTask
  <2> QED BY <2>1, <2>2, EndCases DEF SendSteps
<1>7. UNCHANGED <<phase, rx, from, gone, pipe, job, unopened>>
  BY DEF SendSteps, SendPart, SendLast, SendStaleErrno, SendNothing, SendFatal, EndTask, parserVars
<1> QED BY <1>1, <1>2, <1>3, <1>4, <1>5, <1>6, <1>7

(***************************************************************************)
(* What one send delivers: n bytes, unless the client has left; of its own *)
(* file, unless that was taken away.                                       *)
(***************************************************************************)
Delivered(c, n) ==
  /\ \A d \in Clients \ {c} : got'[d] = got[d]
  /\ c \in gone => got' = got
  /\ c \notin gone => Len(got'[c]) = Len(got[c]) + n
  /\ c \notin taken => OwnPrefix(c)' /\ (c \notin gone => Receives(c, n))

LEMMA AnyReceived ==
  ASSUME PeersTypeOK, NEW x \in Fds, NEW c \in Clients, table[x] = Sock(c),
         NEW n \in Nat, NEW p, NEW i, Deliver(x, p, i, n)
  PROVE  /\ \A d \in Clients \ {c} : got'[d] = got[d]
         /\ c \in gone => got' = got
         /\ c \notin gone => Len(got'[c]) = Len(got[c]) + n
<1> DEFINE part == [j \in 1 .. n |-> <<p, i + j>>]
<1>1. Owner(x) = c
  BY MeansSock
<1>2. got \in [Clients -> Seq(Clients \X (1 .. Bytes))] /\ DOMAIN got = Clients
  BY DEF PeersTypeOK
<1>3. part \in Seq({<<p, i + j>> : j \in 1 .. n}) /\ Len(part) = n
  OBVIOUS
<1>4. got' = IF c \in gone THEN got ELSE [got EXCEPT ![c] = @ \o part]
  BY <1>1 DEF Deliver
<1> HIDE DEF part
<1>5. CASE c \notin gone
  <2>1. got'[c] = got[c] \o part /\ \A d \in Clients \ {c} : got'[d] = got[d]
    BY <1>2, <1>4, <1>5
  <2>2. PICK A, B : got[c] \in Seq(A) /\ part \in Seq(B)
    BY <1>2, <1>3
  <2>3. got[c] \in Seq(A \cup B) /\ part \in Seq(A \cup B)
    BY <2>2
  <2>4. Len(got[c] \o part) = Len(got[c]) + Len(part)
    BY <2>3, ConcatProperties
  <2> QED BY <1>3, <1>5, <2>1, <2>4
<1> QED BY <1>4, <1>5

LEMMA SendDelivers ==
  ASSUME TypeInv, Orderly, \A d \in Clients \ taken : OwnPrefix(d), ~strayed',
         tasks # <<>>, SendSteps, NEW c, c = task.name
  PROVE  /\ SendPart => \E n \in 1 .. task.left :
              /\ Delivered(c, n)
              /\ tasks' = [tasks EXCEPT ![at] = [task EXCEPT !.left = @ - n, !.offset = @ + n]]
         /\ SendLast => Delivered(c, task.left) /\ task.left \in Nat /\ task.left > 0
         /\ SendStaleErrno => \E n \in 1 .. task.left : Delivered(c, n)
         /\ SendNothing \/ SendFatal => got' = got
<1>0. PeersTypeOK /\ task.left \in Int
  BY TaskTyped DEF TypeInv, TypeOK
<1>1. /\ c \in Clients /\ task.sock \in Fds /\ table[task.sock] = Sock(c)
      /\ task.p \in {Nobody, c} \/ c \in taken
      /\ c \in gone \/ task.offset = from[c] + Len(got[c])
      /\ UNCHANGED from
  BY SendMeans
<1>2. ASSUME NEW n \in Nat, CanSend, Deliver(task.sock, task.p, task.offset, n)
      PROVE  Delivered(c, n)
  <2>1. /\ \A d \in Clients \ {c} : got'[d] = got[d]
        /\ c \in gone => got' = got
        /\ c \notin gone => Len(got'[c]) = Len(got[c]) + n
    BY <1>0, <1>1, <1>2, AnyReceived
  <2>2. ASSUME c \notin taken PROVE OwnPrefix(c)' /\ (c \notin gone => Receives(c, n))
    <3>1. task.p = c \/ task.p = Nobody
      BY <1>1, <2>2
    <3>2. CASE task.p = c
      <4>1. Deliver(task.sock, c, task.offset, n) /\ OwnPrefix(c)
        BY <1>1, <1>2, <2>2, <3>2
      <4> QED BY <1>0, <1>1, <4>1, Received
    <3> QED BY <3>1, <3>2, <1>2, HoleAssumption DEF CanSend
  <2> QED BY <2>1, <2>2 DEF Delivered
<1>3. ASSUME SendPart
      PROVE  \E n \in 1 .. task.left :
               /\ Delivered(c, n)
               /\ tasks' = [tasks EXCEPT ![at] = [task EXCEPT !.left = @ - n, !.offset = @ + n]]
  <2>1. PICK n \in Sendable :
          /\ Deliver(task.sock, task.p, task.offset, n)
          /\ tasks' = [tasks EXCEPT ![at] = [task EXCEPT !.left = @ - n, !.offset = @ + n]]
    BY <1>3 DEF SendPart
  <2>2. n \in 1 .. task.left /\ n \in Nat /\ CanSend
    BY <1>0, <1>3, <2>1 DEF SendPart, Sendable
  <2>3. Delivered(c, n)
    BY <1>2, <2>1, <2>2
  <2> QED BY <2>1, <2>2, <2>3
<1>4. ASSUME SendLast PROVE Delivered(c, task.left) /\ task.left \in Nat /\ task.left > 0
  BY <1>0, <1>2, <1>4 DEF SendLast, Sendable
<1>5. ASSUME SendStaleErrno PROVE \E n \in 1 .. task.left : Delivered(c, n)
  BY <1>0, <1>2, <1>5 DEF SendStaleErrno, Sendable
<1>6. SendNothing \/ SendFatal => got' = got
  BY DEF SendNothing, SendFatal
<1> QED BY <1>3, <1>4, <1>5, <1>6

(***************************************************************************)
(* A send that goes on takes the task as far as the client.                *)
(***************************************************************************)
LEMMA SendPartOrderly ==
  ASSUME TypeInv, Orderly, \A d \in Clients \ taken : OwnPrefix(d), ~strayed',
         tasks # <<>>, SendPart
  PROVE  Orderly'
<1>c. PICK c : c = task.name
  OBVIOUS
<1>0. SendSteps
  BY DEF SendSteps
<1>1. /\ c \in Clients /\ PlaceOf(c) /\ BytesOf(c)
      /\ ~InSocket(c) /\ ~InPipe(c) /\ ~InJob(c) /\ phase[c] = "receiving"
      /\ task.p \in {Nobody, c} \/ c \in taken
      /\ c \in gone \/ task.offset = from[c] + Len(got[c])
      /\ UNCHANGED <<phase, rx, from, gone, pipe, job>>
  BY <1>0, <1>c, SendMeans
<1>t. taken' = taken
  BY DEF SendPart
<1>2. PICK n \in 1 .. task.left :
        /\ Delivered(c, n)
        /\ tasks' = [tasks EXCEPT ![at] = [task EXCEPT !.left = @ - n, !.offset = @ + n]]
  BY <1>0, <1>c, SendDelivers
<1>3. n \in Nat /\ task.offset \in Nat
  BY TaskTyped
<1>4. Distinct(tasks)
  BY DEF Orderly
<1>5. PICK e \in Tasks :
        /\ e.p = task.p /\ e.name = c /\ e.offset = task.offset + n
        /\ Distinct(tasks')
        /\ \A d \in Elems(tasks') : d = e \/ (d \in Elems(tasks) /\ d.name # c)
  BY <1>2, <1>3, <1>4, <1>c, SentTask
<1>6. Distinct(tasks') /\ \A d \in Elems(tasks') : d = e \/ (d \in Elems(tasks) /\ d.name # c)
  BY <1>5
<1>7. OnlyAbout(c)
  BY <1>1, <1>t, <1>2, <1>5, <1>6 DEF OnlyAbout, Delivered, Like
<1>8. ~InSocket(c)' /\ ~InPipe(c)' /\ ~InJob(c)'
  BY <1>1 DEF InSocket, InPipe, InJob, Elems, NoFrame
<1>9. PlaceOf(c)'
  <2>1. OnePlace(c)'
    BY <1>1, <1>8 DEF OnePlace
  <2> QED BY <2>1, <1>1, <1>8 DEF PlaceOf, InPipe, Elems
<1>10. BytesOf(c)'
  <2>1. \A t \in Elems(tasks') : t.name = c => t = e
    BY <1>6
  <2>2. /\ e.p \in {Nobody, c} \/ c \in taken'
        /\ c \in gone' \/ e.offset = from'[c] + Len(got'[c])
    <3>1. c \notin gone => Len(got'[c]) = Len(got[c]) + n
      BY <1>2 DEF Delivered
    <3>2. got[c] \in Seq(Clients \X (1 .. Bytes)) /\ from[c] \in Nat
      BY <1>1, NumbersAssumption DEF TypeInv, TypeOK, PeersTypeOK
    <3>3. Len(got[c]) \in Nat
      BY <3>2
    <3> QED BY <1>1, <1>t, <1>2, <1>3, <1>5, <3>1, <3>2, <3>3
  <2> QED BY <1>1, <1>8, <2>1, <2>2 DEF BytesOf, InPipe, InJob, Elems, StartOf, Nobody
<1>11. Distinct(pipe')
  BY <1>1 DEF Orderly
<1> QED BY <1>1, <1>6, <1>7, <1>9, <1>10, <1>11, OneOrderly

(***************************************************************************)
(* The end of a task: nothing is left to do for the client.                *)
(***************************************************************************)
LEMMA TearDownOrderly ==
  ASSUME TypeInv, Orderly, \A d \in Clients \ taken : OwnPrefix(d), ~strayed',
         tasks # <<>>, SendSteps, TornDown, ~SendPart
  PROVE  Orderly'
<1>c. PICK c : c = task.name
  OBVIOUS
<1>1. /\ c \in Clients /\ PlaceOf(c) /\ BytesOf(c)
      /\ ~InSocket(c) /\ ~InPipe(c) /\ ~InJob(c) /\ phase[c] = "receiving"
      /\ UNCHANGED <<phase, rx, from, gone, pipe, job>>
  BY <1>c, SendMeans
<1>2. \A d \in Clients \ {c} : got'[d] = got[d]
  BY <1>c, SendDelivers DEF SendSteps, Delivered
<1>3. Distinct(tasks)
  BY DEF Orderly
<1>4. /\ \A t \in Elems(tasks') : \E u \in Elems(tasks) :
           Like(t, u) /\ (t.p = u.p \/ t.name \in taken')
      /\ Distinct(tasks') /\ taken \subseteq taken'
      /\ \A t \in Elems(tasks') : t.name # c
  BY <1>c, <1>3, TearDownTasks
<1>5. OnlyAbout(c)
  BY <1>1, <1>2, <1>4 DEF OnlyAbout
<1>6. ~InSocket(c)' /\ ~InPipe(c)' /\ ~InJob(c)' /\ ~InTasks(c)'
  BY <1>1, <1>4 DEF InSocket, InPipe, InJob, InTasks, Elems, NoFrame
<1>7. PlaceOf(c)'
  <2>1. OnePlace(c)'
    BY <1>1, <1>6 DEF OnePlace
  <2> QED BY <2>1, <1>6 DEF PlaceOf, InPipe, Elems
<1>8. BytesOf(c)'
  BY <1>1, <1>6 DEF BytesOf, InPipe, InJob, InTasks, Elems
<1>9. Distinct(pipe')
  BY <1>1 DEF Orderly
<1> QED BY <1>1, <1>4, <1>5, <1>7, <1>8, <1>9, OneOrderly

(***************************************************************************)
(* Numbers once misused and a process once dead stay so.                   *)
(***************************************************************************)
LEMMA Stays ==
  ASSUME [Next]_vars
  PROVE  /\ strayed => strayed'
         /\ unopened \subseteq unopened'
         /\ ~Up => UNCHANGED vars
         /\ gone \subseteq gone'
<1>1. ~Up => UNCHANGED vars
  BY DEF Next, ClientStep, EventLoop, ParserThread, DownloaderThread, Race
<1>2. strayed => strayed'
  <2>1. ASSUME NEW c \in Clients, Arrive(c) \/ Signal(c) PROVE strayed' = strayed
    BY <2>1 DEF Arrive, Signal
  <2>2. CASE EpollWait \/ Accept \/ AcceptFails \/ AfterUsleep \/ SendAgain \/ Race
             \/ UNCHANGED vars
    BY <2>2 DEF EpollWait, Accept, AcceptFails, AfterUsleep, SendAgain, Race, vars
  <2>3. ASSUME NEW x \in Fds, RecvFrame(x) \/ RecvNothing(x) \/ RecvEof(x) \/ RecvFails(x)
        PROVE  strayed => strayed'
    BY <2>3 DEF RecvFrame, RecvNothing, RecvEof, RecvFails, TakeEvent
  <2>4. CASE NormalAnalytical \/ FileNotExit \/ EnsureAnalytical \/ ContinuinglyAnalytical
    BY <2>4 DEF NormalAnalytical, FileNotExit, EnsureAnalytical, ContinuinglyAnalytical
  <2>5. CASE SendSteps
    BY <2>5 DEF SendSteps, SendPart, SendLast, SendStaleErrno, SendNothing, SendFatal, EndTask
  <2> QED BY <2>1, <2>2, <2>3, <2>4, <2>5, NextCases
<1>3. unopened \subseteq unopened' /\ gone \subseteq gone'
  <2>1. ASSUME NEW c \in Clients, Arrive(c) \/ Signal(c)
        PROVE  unopened' = unopened /\ gone \subseteq gone'
    BY <2>1 DEF Arrive, Signal, Connect, Confirm, Leave, Writable, peerVars
  <2>2. CASE EpollWait \/ Accept \/ AcceptFails \/ SendAgain \/ Race \/ UNCHANGED vars
    BY <2>2 DEF EpollWait, Accept, TakeConnection, AcceptFails, SendAgain, Race, vars, peerVars
  <2>3. ASSUME NEW x \in Fds, RecvFrame(x) \/ RecvNothing(x) \/ RecvEof(x) \/ RecvFails(x)
        PROVE  UNCHANGED <<unopened, gone>>
    BY <2>3 DEF RecvFrame, RecvNothing, RecvEof, RecvFails, TakeFrame, CloseFd, peerVars
  <2>4. CASE NormalAnalytical \/ AfterUsleep
    BY <2>4 DEF NormalAnalytical, AfterUsleep, Open
  <2>5. CASE FileNotExit \/ EnsureAnalytical \/ ContinuinglyAnalytical
    BY <2>5 DEF FileNotExit, EnsureAnalytical, ContinuinglyAnalytical, peerVars
  <2>6. CASE SendSteps
    BY <2>6 DEF SendSteps, SendPart, SendLast, SendStaleErrno, SendNothing, SendFatal, EndTask
  <2> QED BY <2>1, <2>2, <2>3, <2>4, <2>5, <2>6, NextCases
<1> QED BY <1>1, <1>2, <1>3

(***************************************************************************)
(* Only a client's arrival and a send change what belongs to a client.     *)
(***************************************************************************)
LEMMA Quiet ==
  ASSUME [Next]_vars, \A c \in Clients : ~Arrive(c), ~(tasks # <<>> /\ SendSteps)
  PROVE  UNCHANGED <<from, got>>
<1>1. ASSUME NEW c \in Clients, Signal(c) PROVE UNCHANGED <<from, got>>
  BY <1>1 DEF Signal, Confirm, Leave, Writable, peerVars
<1>2. CASE EpollWait \/ Accept \/ AcceptFails
  BY <1>2 DEF EpollWait, Accept, TakeConnection, AcceptFails, peerVars
<1>3. ASSUME NEW x \in Fds, RecvFrame(x) \/ RecvNothing(x) \/ RecvEof(x) \/ RecvFails(x)
      PROVE  UNCHANGED <<from, got>>
  BY <1>3 DEF RecvFrame, RecvNothing, RecvEof, RecvFails, TakeFrame, CloseFd, peerVars
<1>4. CASE NormalAnalytical \/ FileNotExit \/ EnsureAnalytical \/ ContinuinglyAnalytical
           \/ AfterUsleep
  BY <1>4 DEF NormalAnalytical, FileNotExit, EnsureAnalytical, ContinuinglyAnalytical,
              AfterUsleep, peerVars
<1>5. CASE SendAgain \/ Race \/ UNCHANGED vars
  BY <1>5 DEF SendAgain, Race, vars, peerVars
<1> QED BY <1>1, <1>2, <1>3, <1>4, <1>5, NextCases

LEMMA OwnBytesStep ==
  ASSUME ServerInv, [Next]_vars
  PROVE  OwnBytes'
<1> SUFFICES ASSUME ~strayed', ~raced', NEW d \in Clients, d \notin taken'
             PROVE  OwnPrefix(d)'
  BY DEF OwnBytes
<1>1. /\ TypeInv /\ ConnInv /\ ~strayed /\ ~raced /\ d \notin taken
      /\ \A c \in Clients \ taken : OwnPrefix(c)
  <2>1. TypeInv /\ ConnInv /\ ~strayed
    BY Stays DEF ServerInv
  <2>2. ~raced
    BY Stays DEF Up, vars, poolVars
  <2>3. d \notin taken
    BY <2>1, StepPool
  <2> QED BY <2>1, <2>2, <2>3 DEF ServerInv, OwnBytes
<1>2. CASE UNCHANGED <<from, got>>
  BY <1>1, <1>2 DEF OwnPrefix
<1>3. CASE dead
  BY <1>2, <1>3, Stays DEF Up, vars, peerVars
<1>4. CASE ~dead
  <2>1. Orderly
    BY <1>1, <1>4 DEF ServerInv
  <2>2. ASSUME NEW c \in Clients, Arrive(c) PROVE OwnPrefix(d)'
    <3>1. got' = got /\ phase[c] = "away" /\ (d # c => from'[d] = from[d])
      BY <1>1, <2>2 DEF Arrive, Connect, TypeInv, TypeOK, PeersTypeOK
    <3>2. CASE d = c
      <4>1. got'[d] = <<>>
        BY <2>1, <3>1, <3>2 DEF Orderly, BytesOf
      <4> QED BY <4>1 DEF OwnPrefix
    <3>3. CASE d # c
      BY <1>1, <3>1, <3>3 DEF OwnPrefix
    <3> QED BY <3>2, <3>3
  <2>3. CASE tasks # <<>> /\ SendSteps
    <3>1. UNCHANGED from
      BY <2>3 DEF SendSteps, SendPart, SendLast, SendStaleErrno, SendNothing, SendFatal, EndTask
    <3>2. PICK c : c = task.name
      OBVIOUS
    <3>3. got' = got \/ \E n : Delivered(c, n)
      BY <1>1, <2>1, <2>3, <3>2, SendDelivers DEF SendSteps
    <3>4. d = c => OwnPrefix(c)' \/ got' = got
      BY <1>1, <3>3 DEF Delivered
    <3>5. d = c \/ got'[d] = got[d]
      BY <3>3 DEF Delivered
    <3> QED BY <1>1, <1>2, <3>1, <3>4, <3>5 DEF OwnPrefix
  <2> QED BY <1>2, <2>2, <2>3, Quiet
<1> QED BY <1>3, <1>4

LEMMA OrderlyStep ==
  ASSUME ServerInv, [Next]_vars, ~strayed', ~dead'
  PROVE  Orderly'
<1>1. /\ TypeInv /\ ConnInv /\ ~strayed /\ ~dead /\ Orderly
      /\ gone \subseteq gone' /\ taken \subseteq taken'
  BY Stays, StepPool DEF ServerInv, Up, vars
<1>2. ASSUME NEW c \in Clients, Arrive(c) \/ Signal(c) PROVE Orderly'
  BY <1>1, <1>2, ClientsOrderly
<1>3. CASE UNCHANGED <<phase, rx, from, got, pipe, job, tasks>>
  BY <1>1, <1>3, SameOrderly
<1>4. CASE EpollWait \/ Accept \/ AcceptFails \/ SendAgain \/ Race \/ UNCHANGED vars
  BY <1>3, <1>4 DEF EpollWait, Accept, TakeConnection, AcceptFails, SendAgain, Race, vars,
                    peerVars, parserVars, taskVars
<1>o. CASE raced
  BY <1>4, <1>o, Stays DEF Up
<1>5. ASSUME NEW x \in Fds, RecvNothing(x) \/ RecvEof(x) \/ RecvFails(x)
      PROVE  UNCHANGED <<phase, rx, from, got, pipe, job, tasks>>
  BY <1>5 DEF RecvNothing, RecvEof, RecvFails, CloseFd, peerVars, parserVars, taskVars
<1>6. ASSUME NEW x \in Fds, RecvFrame(x) PROVE Orderly'
  BY <1>1, <1>6, RecvOrderly
<1>7. CASE NormalAnalytical \/ FileNotExit \/ ContinuinglyAnalytical
  BY <1>1, <1>7, ParserOrderly
<1>8. CASE EnsureAnalytical \/ AfterUsleep
  BY <1>1, <1>8, EnsureOrderly, AfterUsleepOrderly
<1>9. CASE tasks # <<>> /\ SendSteps /\ ~raced
  <2>0. \A c \in Clients \ taken : OwnPrefix(c)
    BY <1>1, <1>9 DEF ServerInv, OwnBytes
  <2>1. CASE SendPart
    BY <1>1, <1>9, <2>0, <2>1, SendPartOrderly
  <2>2. CASE ~SendPart
    <3>1. TornDown
      BY <1>9, <2>2, EndCases DEF SendSteps, Ends, Die
    <3> QED BY <1>1, <1>9, <2>0, <2>2, <3>1, TearDownOrderly
  <2> QED BY <2>1, <2>2
<1> QED BY <1>2, <1>3, <1>4, <1>o, <1>5, <1>6, <1>7, <1>8, <1>9, NextCases

LEMMA InRangeStep ==
  ASSUME ServerInv, [Next]_vars, ~strayed', ~dead'
  PROVE  InRange'
<1>1. TypeInv /\ ~strayed /\ ~dead /\ Orderly /\ InRange
  BY Stays DEF ServerInv, Up, vars
<1>2. CASE UNCHANGED <<from, got>>
  BY <1>1, <1>2 DEF InRange
<1>3. ASSUME NEW c \in Clients, Arrive(c) PROVE InRange'
  <2>1. /\ got' = got /\ phase[c] = "away"
        /\ \A d \in Clients \ {c} : from'[d] = from[d]
        /\ from'[c] \in {from[c]} \cup 0 .. Bytes
    BY <1>1, <1>3 DEF Arrive, Connect, TypeInv, TypeOK, PeersTypeOK
  <2>2. got'[c] = <<>> /\ from[c] = 0
    BY <1>1, <2>1 DEF Orderly, BytesOf
  <2>3. from'[c] + Len(got'[c]) <= Bytes
    BY <2>1, <2>2, NumbersAssumption
  <2> QED BY <1>1, <2>1, <2>3 DEF InRange
<1>4. CASE tasks # <<>> /\ SendSteps /\ ~raced
  <2>1. PICK c : c = task.name
    OBVIOUS
  <2>2. \A d \in Clients \ taken : OwnPrefix(d)
    BY <1>1, <1>4 DEF ServerInv, OwnBytes
  <2>3. /\ c \in Clients
        /\ c \in gone \/ task.offset = from[c] + Len(got[c])
        /\ from' = from /\ task.left \in Int /\ task.offset \in Nat
        /\ task.offset + task.left <= Bytes
    BY <1>1, <1>4, <2>1, SendMeans, TaskTyped
  <2>4. got' = got \/ \E n \in 1 .. task.left : Delivered(c, n)
    <3>1. /\ SendPart \/ SendStaleErrno => \E n \in 1 .. task.left : Delivered(c, n)
          /\ SendLast => Delivered(c, task.left) /\ task.left \in Nat /\ task.left > 0
          /\ SendNothing \/ SendFatal => got' = got
      BY <1>1, <1>4, <2>1, <2>2, SendDelivers, ZenonT(40)
    <3>2. SendLast => task.left \in 1 .. task.left
      BY <3>1
    <3> QED BY <1>4, <3>1, <3>2 DEF SendSteps
  <2>5. ASSUME NEW n \in 1 .. task.left, Delivered(c, n) PROVE InRange'
    <3>1. from[c] \in Nat /\ Len(got[c]) \in Nat /\ Bytes \in Nat
      BY <1>1, <2>3, PrefixIsPart, NumbersAssumption DEF TypeInv, TypeOK
    <3>2. from'[c] + Len(got'[c]) <= Bytes
      BY <1>1, <2>3, <2>5, <3>1 DEF Delivered, InRange
    <3>3. \A d \in Clients \ {c} : from'[d] + Len(got'[d]) <= Bytes
      BY <1>1, <2>3, <2>5 DEF Delivered, InRange
    <3> QED BY <3>2, <3>3 DEF InRange
  <2> QED BY <1>2, <2>3, <2>4, <2>5
<1>5. CASE raced
  BY <1>2, <1>5, Stays DEF Up, vars, peerVars
<1> QED BY <1>2, <1>3, <1>4, <1>5, Quiet
-----------------------------------------------------------------------------
(* When a socket is closed.                                                *)

(***************************************************************************)
(* The close of a client's socket shuts this client only, if the other     *)
(* number closed with it is a file or none.                                *)
(***************************************************************************)
LEMMA ShutBy ==
  ASSUME TypeInv, ConnInv, accepted' = accepted, Fds' = Fds,
         NEW x \in Fds, NEW c \in Clients, table[x] = Sock(c),
         NEW S, x \in S, table' = Closed(S),
         \A y \in S : y = x \/ y \notin Fds \/ \A p : table[y] # Sock(p)
  PROVE  /\ ~Shut(c)
         /\ \A d \in Clients : Shut(d)' <=> Shut(d) \/ d = c
<1>0. PeersTypeOK
  BY DEF TypeInv, TypeOK
<1>1. \A y \in Fds : table'[y] = IF y \in S THEN Free ELSE table[y]
  BY <1>0, TableClosed
<1>2. /\ c \in accepted
      /\ \A y \in Fds : table[y] = Sock(c) => y = x
  BY DEF ConnInv
<1>3. \A p : Sock(p) # Free /\ (Sock(p) = Sock(c) => p = c)
  BY Kinds
<1>4. \A y \in Fds : table'[y] # Sock(c)
  BY <1>1, <1>2, <1>3
<1>5. \A d : d # c => \A y \in Fds : table'[y] = Sock(d) <=> table[y] = Sock(d)
  BY <1>1, <1>3
<1> QED BY <1>2, <1>4, <1>5 DEF Shut, Sock

(***************************************************************************)
(* As long as no number has changed hands, a socket is closed by recv when *)
(* the client has left, or at the end of its task.                         *)
(***************************************************************************)
ClosedByRecv(c) ==
  /\ c \in gone
  /\ UNCHANGED <<phase, from, got, gone, unopened, rx, told, pipe, tasks, errno, cut>>

ClosedByTask(c) ==
  tasks # <<>> /\ SendSteps /\ ~SendPart /\ TornDown /\ c = task.name

LEMMA ShutStep ==
  ASSUME TypeInv, ConnInv, [Next]_vars, ~strayed', ~dead', ~dead
  PROVE  \/ /\ \A d \in Clients : Shut(d)' <=> Shut(d)
            /\ ~(tasks # <<>> /\ SendSteps /\ ~SendPart)
         \/ \E c \in Clients :
              /\ ~Shut(c) /\ \A d \in Clients : Shut(d)' <=> Shut(d) \/ d = c
              /\ ClosedByRecv(c) \/ ClosedByTask(c)
<1> DEFINE NotShut == /\ \A d \in Clients : Shut(d)' <=> Shut(d)
                      /\ ~(tasks # <<>> /\ SendSteps /\ ~SendPart)
           IsShut == \E c \in Clients :
              /\ ~Shut(c) /\ \A d \in Clients : Shut(d)' <=> Shut(d) \/ d = c
              /\ ClosedByRecv(c) \/ ClosedByTask(c)
<1> SUFFICES NotShut \/ IsShut
  OBVIOUS
<1>0. PeersTypeOK /\ Fds' = Fds
  BY StepPeers DEF TypeInv, TypeOK
<1>1. CASE tasks # <<>> /\ SendSteps /\ ~SendPart
  <2>1. TornDown
    BY <1>1, EndCases DEF SendSteps, Ends, Die
  <2>2. Ends /\ accepted' = accepted
    BY <1>1, EndCases DEF SendSteps, Ends, EndTask
  <2>3. PICK c : c = task.name
    OBVIOUS
  <2>4. /\ c \in Clients /\ task.sock \in Fds /\ table[task.sock] = Sock(c)
        /\ task.file = NoFd \/ table[task.file] = File(c)
    BY <1>1, <2>2, <2>3, TaskTyped DEF Ends, EndTask
  <2> DEFINE S == {task.sock, task.file}
  <2>5. table' = Closed(S) /\ task.sock \in S
    BY <2>1 DEF TornDown, TearDown
  <2>6. \A y \in S : y = task.sock \/ y \notin Fds \/ \A p : table[y] # Sock(p)
    <3>1. NoFd \notin Fds
      BY <1>0, FdsAreNumbers
    <3> QED BY <2>4, <3>1, Kinds
  <2> HIDE DEF S
  <2>7. ~Shut(c) /\ \A d \in Clients : Shut(d)' <=> Shut(d) \/ d = c
    BY <1>0, <2>2, <2>4, <2>5, <2>6, ShutBy
  <2>8. ClosedByTask(c)
    BY <1>1, <2>1, <2>3 DEF ClosedByTask
  <2> QED BY <2>4, <2>7, <2>8
<1>2. ASSUME NEW x \in Fds, CloseFd(x), RecvEof(x) \/ RecvFails(x) PROVE IsShut
  <2>1. PICK e \in batch : e # Listen /\ e[1] = x /\ strayed' = (strayed \/ table[x] # e[2])
    BY <1>2 DEF RecvEof, RecvFails, TakeEvent
  <2>2. PICK c \in Clients : e = <<x, Sock(c)>>
    BY <2>1, EventTyped
  <2>3. table[x] = Sock(c)
    <3>1. table[x] = e[2]
      BY <2>1, Zenon
    <3>2. e[2] = Sock(c)
      BY <2>2
    <3> QED BY <3>1, <3>2
  <2>4. IsSock(x) /\ Owner(x) = c
    BY <2>3, MeansSock
  <2>5. c \in gone
    BY <1>2, <2>4 DEF RecvEof, RecvFails
  <2>6. table' = Closed({x}) /\ accepted' = accepted
    BY <1>2 DEF CloseFd
  <2>7. ~Shut(c) /\ \A d \in Clients : Shut(d)' <=> Shut(d) \/ d = c
    BY <1>0, <2>3, <2>6, ShutBy
  <2>8. ClosedByRecv(c)
    BY <1>2, <2>5 DEF ClosedByRecv, CloseFd, RecvEof, RecvFails, parserVars, taskVars
  <2> QED BY <2>7, <2>8
<1>3. ASSUME UNCHANGED <<table, accepted>> PROVE \A d \in Clients : Shut(d)' <=> Shut(d)
  BY <1>0, <1>3 DEF Shut, Sock
<1>4. ASSUME Opens, accepted' = accepted PROVE \A d \in Clients : Shut(d)' <=> Shut(d)
  <2>1. PICK x \in Fds, p \in Clients :
          table[x] = Free /\ table' = [table EXCEPT ![x] = File(p)]
    BY <1>4 DEF Opens
  <2>2. File(p) \in Owners
    BY DEF Owners
  <2>3. table'[x] = File(p) /\ \A y \in Fds : y # x => table'[y] = table[y]
    BY <1>0, <2>1, <2>2, TableAfter
  <2>4. \A d : \A y \in Fds : table'[y] = Sock(d) <=> table[y] = Sock(d)
    BY <2>1, <2>3, Kinds
  <2> QED BY <1>0, <1>4, <2>4 DEF Shut, Sock
<1>5. CASE Accept
  <2> DEFINE x == LowestFree
             c == Head(backlog)
  <2>1. /\ backlog # <<>> /\ table' = [table EXCEPT ![x] = Sock(c)]
        /\ accepted' = accepted \cup {c}
    BY <1>5 DEF Accept, TakeConnection
  <2>2. x \in Fds /\ table[x] = Free
    BY <1>0, <1>5, LowestFreeIsFree DEF Accept, TakeConnection
  <2>3. c \in Clients /\ c \in Elems(backlog)
    BY <1>0, <2>1, TailElems DEF PeersTypeOK
  <2>4. Sock(c) \in Owners
    BY <2>3 DEF Owners
  <2>5. table'[x] = Sock(c) /\ \A y \in Fds : y # x => table'[y] = table[y]
    BY <1>0, <2>1, <2>2, <2>4, TableAfter
  <2>6. c \notin accepted
    BY <2>3 DEF ConnInv
  <2> HIDE DEF x, c
  <2>7. ASSUME NEW d \in Clients PROVE Shut(d)' <=> Shut(d)
    <3>1. CASE d = c
      BY <1>0, <2>2, <2>5, <2>6, <3>1 DEF Shut, Sock
    <3>2. CASE d # c
      <4>1. \A y \in Fds : table'[y] = Sock(d) <=> table[y] = Sock(d)
        BY <2>2, <2>5, <3>2, Kinds
      <4> QED BY <1>0, <2>1, <3>2, <4>1 DEF Shut, Sock
    <3> QED BY <3>1, <3>2
  <2> QED BY <1>1, <2>7
<1>6. CASE ~Accept /\ ~(tasks # <<>> /\ SendSteps /\ ~SendPart)
  <2>1. accepted' = accepted
    <3>1. ASSUME NEW c \in Clients, Arrive(c) PROVE accepted' = accepted
      BY <3>1 DEF Arrive, Connect
    <3> QED BY <1>6, <3>1, StepClients
  <2>2. CASE table' = table
    BY <1>3, <1>6, <2>1, <2>2
  <2>3. CASE Opens
    BY <1>4, <1>6, <2>1, <2>3
  <2>4. ASSUME NEW x \in Fds, RecvFrame(x) \/ RecvNothing(x) \/ RecvEof(x) \/ RecvFails(x)
        PROVE  table' = table \/ (CloseFd(x) /\ (RecvEof(x) \/ RecvFails(x)))
    BY <2>4 DEF RecvFrame, RecvNothing, RecvEof, RecvFails, TakeFrame, peerVars
  <2>5. ASSUME NEW c \in Clients, Arrive(c) \/ Signal(c) PROVE table' = table
    BY <2>5 DEF Arrive, Signal, Connect, Confirm, Leave, Writable, peerVars
  <2>6. ASSUME EpollWait \/ AcceptFails \/ FileNotExit \/ EnsureAnalytical
               \/ ContinuinglyAnalytical \/ SendAgain \/ SendPart \/ Race \/ UNCHANGED vars
        PROVE  table' = table
    BY <2>6 DEF EpollWait, AcceptFails, FileNotExit, EnsureAnalytical,
                ContinuinglyAnalytical, SendAgain, SendPart, Race, vars, peerVars
  <2>7. ASSUME NormalAnalytical \/ AfterUsleep PROVE table' = table \/ Opens
    <3>1. CASE NormalAnalytical
      <4>1. PICK x \in Numbers : Open(data.name, x)
        BY <3>1 DEF NormalAnalytical
      <4>2. data.name \in Clients
        BY <3>1, DataTyped DEF NormalAnalytical
      <4> QED BY <1>0, <4>1, <4>2, OpenTyped DEF Opens
    <3>2. CASE AfterUsleep
      <4>1. PICK x \in Numbers : Open(Head(job).name, x)
        BY <3>2 DEF AfterUsleep
      <4>2. Head(job).name \in Clients
        BY <3>2, JobTyped DEF AfterUsleep
      <4> QED BY <1>0, <4>1, <4>2, OpenTyped DEF Opens
    <3> QED BY <2>7, <3>1, <3>2
  <2> QED BY <1>2, <1>6, <2>2, <2>3, <2>4, <2>5, <2>6, <2>7, NextCases
<1> QED BY <1>1, <1>5, <1>6

(***************************************************************************)
(* What is over for a client that is shut does not change any more.        *)
(***************************************************************************)
LEMMA DoneStays ==
  ASSUME TypeInv, ConnInv, Orderly, \A d \in Clients \ taken : OwnPrefix(d), [Next]_vars,
         ~strayed',
         NEW c \in Clients, Shut(c), Done(c)
  PROVE  Done(c)'
<1>0. PeersTypeOK
  BY DEF TypeInv, TypeOK
<1>1. c \in accepted /\ phase[c] # "away" /\ \A x \in Fds : table[x] # Sock(c)
  BY DEF Shut, ConnInv
<1>2. from'[c] = from[c] /\ got'[c] = got[c]
  <2>1. ASSUME NEW d \in Clients, Arrive(d) PROVE from'[c] = from[c] /\ got'[c] = got[c]
    <3>1. d # c
      BY <1>1, <2>1 DEF Arrive, Connect
    <3> QED BY <1>0, <2>1, <3>1 DEF Arrive, Connect, PeersTypeOK
  <2>2. CASE tasks # <<>> /\ SendSteps
    <3>1. PICK d : d = task.name
      OBVIOUS
    <3>2. d # c
      BY <1>1, <2>2, <3>1, SendMeans
    <3>3. got' = got \/ \E n : Delivered(d, n)
      BY <2>2, <3>1, SendDelivers DEF SendSteps
    <3>4. from' = from
      BY <2>2, <3>1, SendMeans
    <3> QED BY <3>2, <3>3, <3>4 DEF Delivered
  <2> QED BY <2>1, <2>2, Quiet
<1>3. phase[c] = "refused" => phase'[c] = "refused"
  <2>1. ASSUME NEW d \in Clients, Arrive(d) \/ Signal(d)
        PROVE  phase[c] = "refused" => phase'[c] = "refused"
    BY <1>0, <2>1 DEF Arrive, Signal, Connect, Confirm, Leave, Writable, peerVars, PeersTypeOK
  <2>2. CASE NormalAnalytical \/ FileNotExit \/ ContinuinglyAnalytical
    <3>1. \E to \in {"refused", "offered", "receiving"} : \E n : Reply(data.fd, to, n)
      BY <2>2 DEF NormalAnalytical, FileNotExit, ContinuinglyAnalytical
    <3> QED BY <1>0, <3>1, ReplyKeeps
  <2>3. CASE UNCHANGED phase
    BY <2>3
  <2>4. CASE EpollWait \/ Accept \/ AcceptFails \/ EnsureAnalytical \/ AfterUsleep \/ SendAgain
             \/ Race \/ UNCHANGED vars
    BY <2>3, <2>4 DEF EpollWait, Accept, TakeConnection, AcceptFails, EnsureAnalytical,
                      AfterUsleep, SendAgain, Race, vars, peerVars
  <2>5. ASSUME NEW x \in Fds, RecvFrame(x) \/ RecvNothing(x) \/ RecvEof(x) \/ RecvFails(x)
        PROVE  UNCHANGED phase
    BY <2>5 DEF RecvFrame, RecvNothing, RecvEof, RecvFails, TakeFrame, CloseFd, peerVars
  <2>6. CASE SendSteps
    BY <2>3, <2>6 DEF SendSteps, SendPart, SendLast, SendStaleErrno, SendNothing, SendFatal, EndTask
  <2> QED BY <2>1, <2>2, <2>3, <2>4, <2>5, <2>6, NextCases
<1> QED BY <1>2, <1>3, Stays DEF Done, Complete

(***************************************************************************)
(* The end of a task finds the client with its whole file, or gone, unless *)
(* the EPIPE of one who left has ended it.                                 *)
(***************************************************************************)
LEMMA EndIsDone ==
  ASSUME TypeInv, Orderly, InRange, CauseInv, \A d \in Clients \ taken : OwnPrefix(d),
         ~strayed', ~dead', NEW c, ClosedByTask(c)
  PROVE  /\ Done(c)' \/ c \in cut'
         /\ ErrnoInv'
         /\ \/ c \in gone \/ c \in cut'
            \/ SendLast /\ Delivered(c, Bytes - from[c] - Len(got[c]))
            \/ got' = got /\ Len(got[c]) = Bytes - from[c]
<1>1. /\ tasks # <<>> /\ SendSteps /\ ~SendPart /\ TornDown /\ c = task.name
      /\ Ends
  BY EndCases DEF ClosedByTask, SendSteps
<1>2. /\ c \in Clients /\ task.sock \in Fds /\ table[task.sock] = Sock(c)
      /\ c \in gone \/ task.offset = from[c] + Len(got[c])
      /\ task.file = NoFd \/ table[task.file] = File(c)
      /\ UNCHANGED <<from, gone>>
  BY <1>1, SendMeans
<1>3. /\ task \in Elems(tasks) /\ task.file \in Numbers
      /\ task.left \in Int /\ task.offset \in Nat
  BY <1>1, TaskTyped
<1>4. task.file # NoFd /\ ErrnoInv
  BY <1>3 DEF CauseInv, FilesInv
<1>5. task.file \in Fds
  BY <1>3, <1>4 DEF Numbers
<1>6. ~IsClosed(task.sock) /\ ~IsClosed(task.file)
  BY <1>2, <1>4, <1>5, MeansSock, MeansFile
<1>g. Unreachable => c \in gone /\ SendError = "EPIPE"
  <2>1. Owner(task.sock) = c
    BY <1>2, MeansSock
  <2> QED BY <1>6, <2>1 DEF Unreachable, SendError
<1>7. ErrnoInv'
  <2>1. ASSUME NEW e, EndTask(e) PROVE errno' \in {e, "other"}
    <3>1. TearDown(e)
      BY <2>1 DEF EndTask, Die
    <3>2. task.sock # task.file
      BY <1>2, <1>4, Kinds
    <3> QED BY <1>6, <3>1, <3>2 DEF TearDown, MunmapFails, Munmap, AfterCloses
  <2>2. PICK e : EndTask(e) /\ (e = errno \/ (Unreachable /\ e = SendError))
    BY <1>1 DEF SendSteps, SendLast, SendStaleErrno, SendNothing, SendFatal
  <2>3. errno' \in {errno, "EPIPE", "other"} /\ (errno' = "EPIPE" => gone # {})
    BY <1>4, <1>g, <2>1, <2>2 DEF ErrnoInv
  <2>4. cut' = cut \/ SendStaleErrno
    BY <1>1 DEF SendSteps, SendLast, SendNothing, SendFatal
  <2>5. SendStaleErrno => gone # {}
    BY <1>4 DEF SendStaleErrno, Fatal, ErrnoInv
  <2> QED BY <1>2, <1>4, <2>3, <2>4, <2>5 DEF ErrnoInv
<1>8. task.offset + task.left = Bytes
  <2>1. task.offset + task.left = SizeOf(task.file)
    BY <1>3, TaskListIsOK DEF TaskListOK
  <2> QED BY <1>4, <2>1 DEF SizeOf
<1>9. from[c] \in Nat /\ Len(got[c]) \in Nat /\ Bytes \in Nat
      /\ from[c] + Len(got[c]) <= Bytes
  BY <1>2, PrefixIsPart, NumbersAssumption DEF TypeInv, TypeOK, InRange
<1>10. CASE c \in gone
  BY <1>2, <1>7, <1>10 DEF Done
<1>11. CASE c \notin gone
  <2>1. task.left = Bytes - from[c] - Len(got[c])
    BY <1>2, <1>3, <1>8, <1>9, <1>11
  <2>2. CASE SendLast
    <3>1. Delivered(c, task.left)
      BY <1>1, <2>2, SendDelivers
    <3>2. Len(got'[c]) = Len(got[c]) + task.left
      BY <1>11, <3>1 DEF Delivered
    <3>3. Len(got'[c]) = Bytes - from'[c]
      BY <1>2, <1>9, <2>1, <3>2
    <3> QED BY <1>7, <2>1, <2>2, <3>1, <3>3 DEF Done, Complete
  <2>3. SendStaleErrno => c \in cut'
    BY <1>1 DEF SendStaleErrno
  <2>4. ~SendFatal
    BY <1>g, <1>11 DEF SendFatal
  <2>5. CASE SendNothing
    <3>1. got' = got /\ task.left <= 0
      BY <2>5 DEF SendNothing
    <3>2. Len(got[c]) = Bytes - from[c]
      BY <1>9, <2>1, <3>1
    <3> QED BY <1>2, <1>7, <3>1, <3>2 DEF Done, Complete
  <2> QED BY <1>1, <1>7, <2>2, <2>3, <2>4, <2>5 DEF SendSteps
<1> QED BY <1>10, <1>11

LEMMA OpenSucceeds ==
  ASSUME NEW p, NEW x, Open(p, x), unopened' = {}, PeersTypeOK
  PROVE  x # NoFd
<1>1. CASE HasFree /\ x = LowestFree
  BY <1>1, LowestFreeIsFree, FdsAreNumbers
<1>2. CASE unopened' = unopened \cup {p}
  BY <1>2
<1> QED BY <1>1, <1>2 DEF Open

LEMMA FilesStep ==
  ASSUME TypeInv, FilesInv, [Next]_vars, ~strayed', unopened' = {}
  PROVE  FilesInv'
<1> DEFINE ClientsOK == \A c \in Clients :
                          /\ phase'[c] = "offered" => told'[c] # NoFd
                          /\ InSocket(c)' /\ rx'[c][1] = "Ensure" => rx'[c][2] # NoFd
           PipeOK  == \A f \in Elems(pipe') : f.fn = "Ensure" => f.arg # NoFd
           TasksOK == \A t \in Elems(tasks') : t.file # NoFd
<1> SUFFICES ClientsOK /\ PipeOK /\ TasksOK
  BY DEF FilesInv, Elems, NoFd
<1>0. /\ PeersTypeOK /\ pipe \in Seq(Frames) /\ tasks \in Seq(Tasks)
      /\ phase \in [Clients -> {"away", "asked", "refused", "offered", "receiving"}]
      /\ rx \in [Clients -> {NoFrame} \cup Messages] /\ told \in [Clients -> Numbers]
  BY DEF TypeInv, TypeOK, PeersTypeOK
<1>1. ASSUME UNCHANGED <<phase, told, rx>> PROVE ClientsOK
  BY <1>1 DEF FilesInv, InSocket, NoFrame
<1>2. ASSUME pipe' = pipe PROVE PipeOK
  BY <1>2 DEF FilesInv
<1>3. ASSUME tasks' = tasks PROVE TasksOK
  BY <1>3 DEF FilesInv
<1>4. ASSUME NEW fns, ReadPipe(fns) PROVE PipeOK
  <2>1. pipe # <<>> /\ pipe' = Tail(pipe)
    BY <1>4 DEF ReadPipe
  <2>2. Elems(pipe') \subseteq Elems(pipe)
    BY <1>0, <2>1, TailElems
  <2> QED BY <2>2 DEF FilesInv
<1>5. ASSUME NEW c \in Clients, Arrive(c) \/ Signal(c) PROVE ClientsOK /\ PipeOK /\ TasksOK
  <2>1. UNCHANGED <<pipe, tasks>>
    BY <1>5 DEF Arrive, Signal, parserVars, taskVars
  <2>2. CASE Leave(c) \/ Writable(c)
    BY <1>1, <1>2, <1>3, <2>1, <2>2 DEF Leave, Writable, peerVars
  <2>3. CASE Connect(c)
    <3>1. /\ phase' = [phase EXCEPT ![c] = "asked"] /\ told' = told
          /\ rx'[c][1] # "Ensure" /\ \A d \in Clients \ {c} : rx'[d] = rx[d]
      BY <1>0, <2>3 DEF Connect
    <3>2. ClientsOK
      BY <1>0, <3>1 DEF FilesInv, InSocket, NoFrame
    <3> QED BY <1>2, <1>3, <2>1, <3>2
  <2>4. CASE Confirm(c)
    <3>1. /\ phase' = [phase EXCEPT ![c] = "receiving"] /\ told' = told
          /\ rx'[c][2] = told[c] /\ told[c] # NoFd /\ \A d \in Clients \ {c} : rx'[d] = rx[d]
      BY <1>0, <2>4 DEF Confirm, FilesInv
    <3>2. ClientsOK
      BY <1>0, <3>1 DEF FilesInv, InSocket, NoFrame
    <3> QED BY <1>2, <1>3, <2>1, <3>2
  <2> QED BY <1>5, <2>2, <2>3, <2>4 DEF Arrive, Signal
<1>6. ASSUME NEW x \in Fds, RecvFrame(x) PROVE ClientsOK /\ PipeOK /\ TasksOK
  <2>1. PICK c \in Clients :
          /\ InSocket(c) /\ rx' = [rx EXCEPT ![c] = NoFrame]
          /\ [fn |-> rx[c][1], arg |-> rx[c][2], fd |-> x, name |-> c] \in Frames
          /\ pipe' = Append(pipe, [fn |-> rx[c][1], arg |-> rx[c][2], fd |-> x, name |-> c])
    BY <1>6, RecvFrameMeans
  <2> DEFINE e == [fn |-> rx[c][1], arg |-> rx[c][2], fd |-> x, name |-> c]
  <2>2. Elems(pipe') = Elems(pipe) \cup {e}
    BY <1>0, <2>1, AppendElems
  <2>3. e.fn = "Ensure" => e.arg # NoFd
    BY <2>1 DEF FilesInv
  <2> HIDE DEF e
  <2>4. PipeOK
    BY <2>2, <2>3 DEF FilesInv
  <2>5. UNCHANGED <<phase, told, tasks>>
    BY <1>6 DEF RecvFrame, TakeFrame, taskVars
  <2>6. rx'[c] = NoFrame /\ \A d \in Clients \ {c} : rx'[d] = rx[d]
    BY <1>0, <2>1
  <2>7. ClientsOK
    BY <2>5, <2>6 DEF FilesInv, InSocket, NoFrame
  <2> QED BY <1>3, <2>4, <2>5, <2>7
<1>7. CASE NormalAnalytical \/ FileNotExit \/ ContinuinglyAnalytical
  <2>1. PipeOK /\ UNCHANGED <<rx, tasks>>
    BY <1>4, <1>7 DEF NormalAnalytical, FileNotExit, ContinuinglyAnalytical, taskVars
  <2>2. \E to \in {"refused", "offered", "receiving"} : \E n :
          Reply(data.fd, to, n) /\ (to = "offered" => n # NoFd)
    <3>1. CASE NormalAnalytical
      <4>1. PICK x \in Numbers : Open(data.name, x) /\ Reply(data.fd, "offered", x)
        BY <3>1 DEF NormalAnalytical
      <4>2. x # NoFd
        BY <1>0, <4>1, OpenSucceeds
      <4> QED BY <4>1, <4>2
    <3>2. CASE FileNotExit
      BY <3>2 DEF FileNotExit
    <3>3. CASE ContinuinglyAnalytical
      BY <3>3 DEF ContinuinglyAnalytical
    <3> QED BY <1>7, <3>1, <3>2, <3>3
  <2>a. PICK to \in {"refused", "offered", "receiving"} :
          \E n : Reply(data.fd, to, n) /\ (to = "offered" => n # NoFd)
    BY <2>2
  <2>3. PICK n : Reply(data.fd, to, n) /\ (to = "offered" => n # NoFd)
    BY <2>a
  <2>4. \A c \in Clients : \/ phase'[c] = phase[c] /\ told'[c] = told[c]
                           \/ phase'[c] = to /\ told'[c] = n
    <3>1. PeersTypeOK
      BY <1>0
    <3> QED BY <2>3, <3>1, ReplyKeeps
  <2>5. ClientsOK
    BY <2>1, <2>3, <2>4 DEF FilesInv, InSocket, NoFrame
  <2> QED BY <1>3, <2>1, <2>5
<1>8. ASSUME NEW file \in Numbers, NEW sock \in Fds, NEW size \in Int, NEW offset \in Nat,
             NEW p \in Clients \cup {Nobody}, NEW name \in Clients,
             AddDownTask(file, sock, size, offset, p, name), file # NoFd
      PROVE  TasksOK
  <2>1. PICK e : /\ e.file = file
                 /\ \A t \in Elems(tasks') : t = e \/ \E u \in Elems(tasks) : Like(t, u)
    BY <1>0, <1>8, AddedTasks
  <2> QED BY <1>8, <2>1 DEF FilesInv, Like
<1>9. CASE EnsureAnalytical
  <2>1. ReadPipe({"Ensure"}) /\ UNCHANGED <<phase, told, rx>>
    BY <1>9 DEF EnsureAnalytical, peerVars
  <2>2. /\ data.arg \in Numbers /\ data.fd \in Fds /\ data.name \in Clients
        /\ data \in Elems(pipe) /\ data.fn = "Ensure"
    BY <2>1, DataTyped
  <2>3. data.arg # NoFd /\ data.arg \in Fds
    BY <2>2 DEF FilesInv, Numbers
  <2>4. table[data.arg] = File(data.name)
    BY <1>9, <2>3 DEF EnsureAnalytical
  <2>5. IsFile(data.arg) /\ Owner(data.arg) = data.name
    BY <2>3, <2>4, MeansFile
  <2>6. AddDownTask(data.arg, data.fd, SizeOf(data.arg), 0, data.name, data.name)
    BY <1>9, <2>5 DEF EnsureAnalytical
  <2>7. SizeOf(data.arg) \in Int /\ 0 \in Nat
    BY NumbersAssumption DEF SizeOf
  <2>8. TasksOK
    BY <1>8, <2>2, <2>3, <2>6, <2>7
  <2> QED BY <1>1, <1>4, <2>1, <2>8
<1>10. CASE AfterUsleep
  <2> DEFINE frame == Head(job)
  <2>1. PICK x \in Numbers :
          /\ Open(frame.name, x)
          /\ AddDownTask(x, frame.fd, SizeOf(x) - frame.arg, Count(frame),
                         IF x = NoFd THEN Nobody ELSE frame.name, frame.name)
    BY <1>10 DEF AfterUsleep
  <2>2. frame.fd \in Fds /\ frame.name \in Clients /\ frame.arg \in 0 .. Bytes
    BY <1>10, JobTyped DEF AfterUsleep
  <2>3. x # NoFd
    BY <1>0, <2>1, OpenSucceeds
  <2>4. SizeOf(x) - frame.arg \in Int /\ Count(frame) \in Nat
    BY <2>2, NumbersAssumption DEF SizeOf, Count
  <2>5. AddDownTask(x, frame.fd, SizeOf(x) - frame.arg, Count(frame), frame.name, frame.name)
    BY <2>1, <2>3
  <2> HIDE DEF frame
  <2>6. TasksOK
    BY <1>8, <2>2, <2>3, <2>4, <2>5
  <2>7. UNCHANGED <<phase, told, rx, pipe>>
    BY <1>10 DEF AfterUsleep
  <2> QED BY <1>1, <1>2, <2>6, <2>7
<1>11. CASE tasks # <<>> /\ SendSteps
  <2>1. UNCHANGED <<phase, told, rx, pipe>>
    BY <1>11 DEF SendSteps, SendPart, SendLast, SendStaleErrno, SendNothing, SendFatal,
                 EndTask, parserVars
  <2>2. CASE SendPart
    <3>1. PICK n \in Sendable :
            tasks' = [tasks EXCEPT ![at] = [task EXCEPT !.left = @ - n, !.offset = @ + n]]
      BY <2>2 DEF SendPart
    <3>2. n \in Nat /\ task \in Elems(tasks)
      BY <1>11, <3>1, TaskTyped DEF Sendable
    <3>3. PICK e \in Tasks :
            /\ e.file = task.file
            /\ Elems(tasks') \subseteq Elems(tasks) \cup {e}
      BY <1>11, <3>1, <3>2, SentTask
    <3>4. e.file # NoFd
      BY <3>2, <3>3 DEF FilesInv
    <3>5. TasksOK
      BY <3>3, <3>4 DEF FilesInv
    <3> QED BY <1>1, <1>2, <2>1, <3>5
  <2>3. CASE TornDown
    <3>1. \A t \in Elems(tasks') : \E u \in Elems(tasks) : Like(t, u)
      BY <1>11, <2>3, TearDownTasks
    <3>2. TasksOK
      BY <3>1 DEF FilesInv, Like
    <3> QED BY <1>1, <1>2, <2>1, <3>2
  <2>4. CASE Die
    BY <1>1, <1>2, <1>3, <2>1, <2>4 DEF Die
  <2> QED BY <1>11, <2>2, <2>3, <2>4, EndCases DEF SendSteps, Ends
<1>12. ASSUME UNCHANGED <<phase, told, rx, pipe, tasks>>
       PROVE  ClientsOK /\ PipeOK /\ TasksOK
  BY <1>1, <1>2, <1>3, <1>12
<1>13. ASSUME EpollWait \/ Accept \/ AcceptFails \/ SendAgain \/ Race \/ UNCHANGED vars
       PROVE  UNCHANGED <<phase, told, rx, pipe, tasks>>
  BY <1>13 DEF EpollWait, Accept, TakeConnection, AcceptFails, SendAgain, Race, vars,
               peerVars, parserVars, taskVars
<1>14. ASSUME NEW x \in Fds, RecvNothing(x) \/ RecvEof(x) \/ RecvFails(x)
       PROVE  UNCHANGED <<phase, told, rx, pipe, tasks>>
  BY <1>14 DEF RecvNothing, RecvEof, RecvFails, CloseFd, peerVars, parserVars, taskVars
<1> HIDE DEF ClientsOK, PipeOK, TasksOK
<1> QED BY <1>5, <1>6, <1>7, <1>9, <1>10, <1>11, <1>12, <1>13, <1>14, NextCases

LEMMA ErrnoStep ==
  ASSUME [Next]_vars, ~(tasks # <<>> /\ SendSteps /\ ~SendPart)
  PROVE  errno' \in {errno, "other"} /\ cut' = cut
<1> DEFINE Quietly == errno' \in {errno, "other"} /\ cut' = cut
<1>1. ASSUME NEW c \in Clients, Arrive(c) \/ Signal(c) PROVE Quietly
  BY <1>1 DEF Arrive, Signal, taskVars
<1>2. ASSUME \/ EpollWait \/ Accept \/ AcceptFails \/ NormalAnalytical \/ FileNotExit
             \/ EnsureAnalytical \/ ContinuinglyAnalytical \/ AfterUsleep \/ Race
             \/ UNCHANGED vars
      PROVE  Quietly
  BY <1>2 DEF EpollWait, Accept, AcceptFails, NormalAnalytical, FileNotExit,
              EnsureAnalytical, ContinuinglyAnalytical, AfterUsleep, Race, vars, taskVars
<1>3. ASSUME NEW x \in Fds, RecvFrame(x) \/ RecvNothing(x) \/ RecvEof(x) \/ RecvFails(x)
      PROVE  Quietly
  BY <1>3 DEF RecvFrame, RecvNothing, RecvEof, RecvFails, taskVars
<1>4. ASSUME SendPart \/ SendAgain PROVE Quietly
  BY <1>4 DEF SendPart, SendAgain
<1>n. \/ \E c \in Clients : Arrive(c) \/ Signal(c)
      \/ \/ EpollWait \/ Accept \/ AcceptFails \/ NormalAnalytical \/ FileNotExit
         \/ EnsureAnalytical \/ ContinuinglyAnalytical \/ AfterUsleep \/ Race
         \/ UNCHANGED vars
      \/ \E x \in Fds : RecvFrame(x) \/ RecvNothing(x) \/ RecvEof(x) \/ RecvFails(x)
      \/ SendPart \/ SendAgain
  BY NextCases
<1> HIDE DEF Quietly
<1>5. Quietly
  BY <1>1, <1>2, <1>3, <1>4, <1>n
<1> QED BY <1>5 DEF Quietly

LEMMA CauseStep ==
  ASSUME ServerInv, [Next]_vars, ~Broken'
  PROVE  CauseInv'
<1>1. ~strayed' /\ unopened' = {} /\ ~dead' /\ ~raced'
  BY DEF Broken
<1>2. ~strayed /\ unopened = {} /\ ~dead /\ ~raced
  BY <1>1, Stays DEF Up, vars, poolVars
<1>3. /\ TypeInv /\ ConnInv /\ Orderly /\ InRange /\ CauseInv
      /\ \A c \in Clients \ taken : OwnPrefix(c)
  BY <1>2 DEF ServerInv, Broken, OwnBytes
<1>s. cut \subseteq cut' /\ gone \subseteq gone'
  BY <1>3, Stays, StepPool
<1>4. FilesInv'
  BY <1>1, <1>3, FilesStep DEF CauseInv
<1>5. \A c \in Clients : Shut(c) => Done(c)' \/ c \in cut'
  BY <1>1, <1>3, <1>s, DoneStays DEF CauseInv
<1>6. CASE /\ \A d \in Clients : Shut(d)' <=> Shut(d)
           /\ ~(tasks # <<>> /\ SendSteps /\ ~SendPart)
  <2>1. ErrnoInv'
    BY <1>3, <1>6, <1>s, ErrnoStep DEF CauseInv, ErrnoInv
  <2>2. \A c \in Clients : Shut(c)' => Done(c)' \/ c \in cut'
    BY <1>5, <1>6
  <2> QED BY <1>4, <2>1, <2>2 DEF CauseInv
<1>7. ASSUME NEW c \in Clients, \A d \in Clients : Shut(d)' <=> Shut(d) \/ d = c,
             ClosedByRecv(c) \/ ClosedByTask(c)
      PROVE  CauseInv'
  <2>1. (Done(c)' \/ c \in cut') /\ ErrnoInv'
    <3>1. CASE ClosedByRecv(c)
      BY <1>3, <3>1 DEF ClosedByRecv, CauseInv, Done, ErrnoInv
    <3>2. CASE ClosedByTask(c)
      BY <1>1, <1>3, <3>2, EndIsDone
    <3> QED BY <1>7, <3>1, <3>2
  <2>2. \A d \in Clients : Shut(d)' => Done(d)' \/ d \in cut'
    BY <1>5, <1>7, <2>1
  <2> QED BY <1>4, <2>1, <2>2 DEF CauseInv
<1> QED BY <1>1, <1>2, <1>3, <1>6, <1>7, ShutStep
-----------------------------------------------------------------------------
(* The invariant, and what it says of every state.                         *)

LEMMA InvInit ==
  ASSUME Init
  PROVE  ServerInv
<1>1. PICK n \in Limits : table = [x \in 1 .. n |-> Free]
  BY DEF Init, PeersInit
<1>2. /\ n \in Nat /\ Fds = 1 .. n /\ \A x \in Fds : table[x] = Free
      /\ table \in [1 .. n -> Owners]
  BY <1>1, NumbersAssumption DEF Fds, Owners
<1>3. /\ backlog = <<>> /\ accepted = {} /\ gone = {} /\ unopened = {}
      /\ phase = [c \in Clients |-> "away"] /\ told = [c \in Clients |-> NoFd]
      /\ from = [c \in Clients |-> 0] /\ rx = [c \in Clients |-> NoFrame]
      /\ got = [c \in Clients |-> <<>>]
      /\ knock = FALSE /\ edge = {} /\ batch = {} /\ eagain = FALSE
      /\ pipe = <<>> /\ job = <<>> /\ tasks = <<>> /\ at = 1 /\ errno = "other"
      /\ dead = FALSE /\ raced = FALSE /\ missed = FALSE /\ strayed = FALSE
      /\ taken = {} /\ cut = {} /\ running \in {{}, {"parser"}, Both}
  BY DEF Init, PeersInit, PoolStarts
<1>4. PeersTypeOK
  <2>1. got \in [Clients -> Seq(Clients \X (1 .. Bytes))]
    BY <1>3
  <2>2. told \in [Clients -> Numbers] /\ from \in [Clients -> 0 .. Bytes]
    BY <1>3, NumbersAssumption DEF Numbers
  <2>3. rx \in [Clients -> {NoFrame} \cup Messages] /\ backlog \in Seq(Clients)
    BY <1>3
  <2> QED BY <1>2, <1>3, <2>1, <2>2, <2>3 DEF PeersTypeOK
<1>5. Elems(pipe) = {} /\ Elems(job) = {} /\ Elems(tasks) = {} /\ Elems(backlog) = {}
  BY <1>3 DEF Elems
<1>6. TypeInv
  <2>1. edge \subseteq accepted /\ errno \in {"EPIPE", "EBADF", "other"}
    BY <1>3
  <2>5. {knock, eagain, dead, raced, missed, strayed} \subseteq BOOLEAN
    <3>1. \A e \in {knock, eagain, dead, raced, missed, strayed} : e \in BOOLEAN
      BY <1>3
    <3> QED BY ONLY <3>1, Zenon
  <2>7. running \subseteq Both /\ taken \subseteq Clients /\ cut \subseteq Clients
    BY <1>3 DEF Both
  <2>6. \A S : batch \subseteq S
    BY <1>3
  <2>2. pipe \in Seq(Frames) /\ job \in Seq(Frames) /\ tasks \in Seq(Tasks)
    BY <1>3
  <2>3. /\ \A i \in DOMAIN tasks : tasks[i].offset + tasks[i].left = SizeOf(tasks[i].file)
        /\ at \in 1 .. Len(tasks) + 1
    BY <1>3
  <2>4. TypeOK
    <3> DEFINE B == {Listen} \cup {<<x, Sock(c)>> : x \in Fds, c \in Clients}
    <3>1. batch \subseteq B
      <4> HIDE DEF B
      <4> QED BY <2>6
    <3> QED BY ONLY <1>4, <2>1, <2>2, <2>3, <2>5, <2>7, <3>1 DEF TypeOK
  <2> QED BY <1>3, <1>5, <2>4 DEF TypeInv
<1>7. ConnInv
  <2>1. \A x \in Fds : \A c \in Clients : table[x] # Sock(c)
    BY <1>2, Kinds
  <2> QED BY <1>3, <1>5, <2>1 DEF ConnInv
<1>8. EdgeInv
  <2>1. backlog = <<>> /\ Len(backlog) <= 1
    BY <1>3
  <2> QED BY <1>3, <2>1 DEF EdgeInv, NothingUnseen
<1>9. OwnBytes
  BY <1>3 DEF OwnBytes, OwnPrefix
<1>10. Orderly
  BY <1>3, <1>5 DEF Orderly, Distinct, PlaceOf, BytesOf, OnePlace, InSocket, InPipe,
                    InJob, InTasks
<1>11. CauseInv
  <2>1. FilesInv
    BY <1>3, <1>5 DEF FilesInv, InSocket
  <2> QED BY <1>3, <2>1 DEF CauseInv, ErrnoInv, Shut
<1>12. InRange
  BY <1>3, NumbersAssumption DEF InRange
<1> QED BY <1>6, <1>7, <1>8, <1>9, <1>10, <1>11, <1>12 DEF ServerInv

LEMMA InvStep ==
  ASSUME ServerInv, [Next]_vars
  PROVE  ServerInv'
<1>1. TypeInv' /\ ConnInv' /\ EdgeInv'
  BY TypeStep, ConnStep, EdgeStep DEF ServerInv
<1>2. OwnBytes'
  BY OwnBytesStep
<1>3. ~(strayed' \/ dead') => Orderly' /\ InRange'
  BY OrderlyStep, InRangeStep
<1>4. ~Broken' => CauseInv'
  BY CauseStep
<1> QED BY <1>1, <1>2, <1>3, <1>4 DEF ServerInv

(***************************************************************************)
(* What ServerInv says holds at every step of the event loop, the parser,  *)
(* the downloader and the clients.                                         *)
(***************************************************************************)
THEOREM Invariance == Spec => []ServerInv
<1>1. Init => ServerInv
  BY InvInit
<1>2. ServerInv /\ [Next]_vars => ServerInv'
  BY InvStep
<1> QED BY <1>1, <1>2, PTL DEF Spec

(***************************************************************************)
(* The variables of the three threads always have their types.             *)
(***************************************************************************)
THEOREM Typed == Spec => []TypeOK
<1>1. ServerInv => TypeOK
  BY DEF ServerInv, TypeInv
<1> QED BY <1>1, Invariance, PTL

(***************************************************************************)
(* As long as no number has changed hands and the list is a list, each     *)
(* client whose file no munmap has taken away has its own bytes in order,  *)
(* however the three threads and the other clients interleave.             *)
(***************************************************************************)
THEOREM BytesAreOwn == Spec => []OwnBytes
<1>1. ServerInv => OwnBytes
  BY DEF ServerInv
<1> QED BY <1>1, Invariance, PTL

(***************************************************************************)
(* Every frame has an event to come, and so has every connection unless    *)
(* two came on one edge or accept has failed.                              *)
(***************************************************************************)
THEOREM NoneUnseen == Spec => []NothingUnseen
<1>1. ServerInv => NothingUnseen
  BY DEF ServerInv, EdgeInv
<1> QED BY <1>1, Invariance, PTL

(***************************************************************************)
(* A socket is closed before the client has everything for one of the      *)
(* causes named only; an errno that ends the transfer of another than it   *)
(* was meant for is that of a client who left.                             *)
(***************************************************************************)
THEOREM OnlyForCause == Spec => []CutShortHasCause
<1>1. ServerInv => CutShortHasCause
  BY DEF ServerInv, CauseInv, ErrnoInv, CutShortHasCause, Done
<1> QED BY <1>1, Invariance, PTL
-----------------------------------------------------------------------------
(* The promise of Transfers, step by step.                                 *)

Released == gone \cup {c \in Clients : phase[c] = "refused"}
ShutOnes == {c \in Clients : Shut(c)}
Spoilt   == Broken \/ taken # {} \/ cut # {}

LEMMA ReleasedStep ==
  ASSUME TypeInv, [Next]_vars
  PROVE  Released' = Released \/ \E c \in Clients : Released' = Released \cup {c}
<1>0. /\ PeersTypeOK
      /\ phase \in [Clients -> {"away", "asked", "refused", "offered", "receiving"}]
  <2>1. PeersTypeOK
    BY DEF TypeInv, TypeOK
  <2> QED BY <2>1 DEF PeersTypeOK
<1>1. ASSUME UNCHANGED <<phase, gone>> PROVE Released' = Released
  BY <1>1 DEF Released
<1>2. ASSUME NEW c \in Clients, NEW to, NEW number, NEW x, Owner(x) = c, IsSock(x),
             Reply(x, to, number), gone' = gone
      PROVE  Released' \in {Released, Released \cup {c}}
  <2>1. CASE phase[c] = "asked" /\ phase' = [phase EXCEPT ![c] = to]
    <3>1. phase'[c] = to /\ \A d \in Clients \ {c} : phase'[d] = phase[d]
      BY <1>0, <2>1
    <3> QED BY <1>2, <2>1, <3>1 DEF Released
  <2>2. CASE phase' = phase
    BY <1>1, <1>2, <2>2
  <2> QED BY <1>2, <2>1, <2>2 DEF Reply
<1>3. ASSUME NEW x \in Fds, NEW to, NEW number, Reply(x, to, number), gone' = gone
      PROVE  Released' = Released \/ \E c \in Clients : Released' = Released \cup {c}
  <2>1. CASE IsSock(x)
    <3>1. PICK c \in Clients : table[x] = Sock(c)
      BY <1>0, <2>1, SockMeans
    <3>2. Owner(x) = c
      BY <3>1 DEF Owner, Sock
    <3> QED BY <1>2, <1>3, <2>1, <3>2
  <2>2. CASE ~IsSock(x)
    BY <1>1, <1>3, <2>2 DEF Reply
  <2> QED BY <2>1, <2>2
<1>4. ASSUME NEW c \in Clients, Arrive(c) \/ Signal(c)
      PROVE  Released' = Released \/ Released' = Released \cup {c}
  <2>1. CASE Arrive(c) \/ Confirm(c)
    <3>1. /\ gone' = gone
          /\ \E to \in {"asked", "receiving"} :
               phase[c] # "refused" /\ phase' = [phase EXCEPT ![c] = to]
      BY <2>1 DEF Arrive, Connect, Confirm
    <3>2. \A d \in Clients : phase'[d] = "refused" <=> phase[d] = "refused"
      BY <1>0, <3>1
    <3> QED BY <3>1, <3>2 DEF Released
  <2>2. CASE Leave(c)
    BY <2>2 DEF Leave, Released
  <2>3. CASE Writable(c)
    BY <1>1, <2>3 DEF Writable, peerVars
  <2> QED BY <1>4, <2>1, <2>2, <2>3 DEF Signal
<1>5. CASE EpollWait \/ Accept \/ AcceptFails
  BY <1>1, <1>5 DEF EpollWait, Accept, TakeConnection, AcceptFails, peerVars
<1>6. ASSUME NEW x \in Fds, RecvFrame(x) \/ RecvNothing(x) \/ RecvEof(x) \/ RecvFails(x)
      PROVE  UNCHANGED <<phase, gone>>
  BY <1>6 DEF RecvFrame, RecvNothing, RecvEof, RecvFails, TakeFrame, CloseFd, peerVars
<1>7. CASE NormalAnalytical \/ FileNotExit \/ ContinuinglyAnalytical
  <2>1. PICK x : x = data.fd
    OBVIOUS
  <2>2. x \in Fds
    BY <1>7, <2>1, DataTyped DEF NormalAnalytical, FileNotExit, ContinuinglyAnalytical, ReadPipe
  <2>3. gone' = gone /\ \E to, number : Reply(x, to, number)
    BY <1>7, <2>1 DEF NormalAnalytical, FileNotExit, ContinuinglyAnalytical
  <2> QED BY <1>3, <2>2, <2>3
<1>8. CASE EnsureAnalytical \/ AfterUsleep
  BY <1>1, <1>8 DEF EnsureAnalytical, AfterUsleep, peerVars
<1>9. CASE tasks # <<>> /\ SendSteps
  BY <1>1, <1>9 DEF SendSteps, SendPart, SendLast, SendStaleErrno, SendNothing, SendFatal, EndTask
<1>10. CASE SendAgain \/ Race \/ UNCHANGED vars
  BY <1>1, <1>10 DEF SendAgain, Race, vars, peerVars
<1> QED BY <1>1, <1>4, <1>5, <1>6, <1>7, <1>8, <1>9, <1>10, NextCases

LEMMA PromiseInit ==
  ASSUME Init
  PROVE  Promise!Init
<1>1. /\ from = [c \in Clients |-> 0] /\ got = [c \in Clients |-> <<>>]
      /\ accepted = {} /\ gone = {} /\ unopened = {}
      /\ phase = [c \in Clients |-> "away"] /\ dead = FALSE /\ strayed = FALSE
      /\ raced = FALSE /\ taken = {} /\ cut = {}
  BY DEF Init, PeersInit
<1>2. from \in [Clients -> 0 .. Bytes]
  BY <1>1, NumbersAssumption
<1>3. gone \cup {c \in Clients : phase[c] = "refused"} = {}
  BY <1>1
<1>4. {c \in Clients : Shut(c)} = {}
  BY <1>1 DEF Shut
<1>5. (Broken \/ taken # {} \/ cut # {}) = FALSE
  BY <1>1 DEF Broken
<1> QED BY <1>1, <1>2, <1>3, <1>4, <1>5 DEF Promise!Init

(***************************************************************************)
(* Closing a socket is a step of the promise: the client has left, or has  *)
(* everything, perhaps with the last bytes sent just before.               *)
(***************************************************************************)
LEMMA CloseKeepsPromise ==
  ASSUME ServerInv, ~Spoilt, ~Spoilt', NEW c \in Clients, ~Shut(c),
         ShutOnes' = ShutOnes \cup {c}, ClosedByRecv(c) \/ ClosedByTask(c)
  PROVE  Promise!Close(c)
<1>1. /\ TypeInv /\ Orderly /\ InRange /\ CauseInv /\ ~strayed' /\ ~dead'
      /\ c \notin taken /\ c \notin cut' /\ \A d \in Clients \ taken : OwnPrefix(d)
  BY DEF ServerInv, Spoilt, Broken, OwnBytes
<1>2. PeersTypeOK
  BY <1>1 DEF TypeInv, TypeOK
<1>3. /\ UNCHANGED <<from, gone, phase>>
      /\ (c \in gone /\ got' = got) \/ Receives(c, Promise!Rest(c))
  <2>1. CASE ClosedByRecv(c)
    BY <2>1 DEF ClosedByRecv
  <2>2. CASE ClosedByTask(c)
    <3>1. /\ tasks # <<>> /\ SendSteps /\ c = task.name
          /\ \/ c \in gone
             \/ SendLast /\ Delivered(c, Bytes - from[c] - Len(got[c]))
             \/ got' = got /\ Len(got[c]) = Bytes - from[c]
      BY <1>1, <2>2, EndIsDone DEF ClosedByTask
    <3>2. UNCHANGED <<from, gone, phase>>
      BY <1>1, <3>1, SendMeans
    <3>3. c \in gone => got' = got
      <4>1. CASE SendPart
        BY <2>2, <4>1 DEF ClosedByTask
      <4>2. CASE ~SendPart
        BY <1>1, <3>1, <4>2, SendDelivers DEF SendSteps, Delivered
      <4> QED BY <4>1, <4>2
    <3>4. CASE c \notin gone /\ SendLast /\ Delivered(c, Bytes - from[c] - Len(got[c]))
      BY <1>1, <3>2, <3>4 DEF Delivered, Promise!Rest
    <3>5. CASE got' = got /\ Len(got[c]) = Bytes - from[c]
      <4>1. got \in [Clients -> Seq(Clients \X (1 .. Bytes))] /\ from \in [Clients -> 0 .. Bytes]
            /\ Bytes \in Nat
        BY <1>2, NumbersAssumption DEF PeersTypeOK
      <4>2. Promise!Rest(c) = 0
        BY <3>5, <4>1 DEF Promise!Rest
      <4>3. got[c] \o [i \in 1 .. 0 |-> <<c, from[c] + Len(got[c]) + i>>] = got[c]
        BY <4>1
      <4>4. Receives(c, 0)
        BY <3>5, <4>1, <4>3 DEF Receives
      <4> QED BY <3>2, <4>2, <4>4
    <3> QED BY <3>1, <3>2, <3>3, <3>4, <3>5
  <2> QED BY <2>1, <2>2
<1>4. (Broken \/ taken # {} \/ cut # {})' = (Broken \/ taken # {} \/ cut # {})
  BY DEF Spoilt
<1>5. Released' = Released /\ (c \in gone => c \in Released)
  BY <1>3 DEF Released
<1>6. Receives(c, Promise!Rest(c)) => Promise!Receive(c, Promise!Rest(c))
  BY DEF Receives, Promise!Receive
<1> QED BY <1>3, <1>4, <1>5, <1>6 DEF Promise!Close, Released, ShutOnes

LEMMA PromiseStep ==
  ASSUME ServerInv, ServerInv', [Next]_vars
  PROVE  [Promise!Next]_(Promise!vars)
<1>1. CASE Spoilt'
  <2>1. (Broken \/ taken # {} \/ cut # {})' = TRUE
    BY <1>1 DEF Spoilt, Broken
  <2> QED BY <2>1 DEF Promise!Next, Promise!Break
<1>2. CASE ~Spoilt'
  <2>1. ~Spoilt
    <3>1. TypeInv /\ taken' = {} /\ cut' = {} /\ ~Broken'
      BY <1>2 DEF Spoilt, ServerInv
    <3>2. taken = {} /\ cut = {}
      BY <3>1, StepPool
    <3>3. ~Broken
      BY <3>1, Stays DEF Broken, Up, vars, poolVars
    <3> QED BY <3>2, <3>3 DEF Spoilt
  <2>2. /\ TypeInv /\ ConnInv /\ Orderly /\ CauseInv /\ ~strayed' /\ ~dead' /\ ~dead
        /\ taken = {} /\ \A d \in Clients \ taken : OwnPrefix(d)
    BY <1>2, <2>1 DEF ServerInv, Spoilt, Broken, OwnBytes
  <2>3. PeersTypeOK
    BY <2>2 DEF TypeInv, TypeOK
  <2>4. (Broken \/ taken # {} \/ cut # {})' = (Broken \/ taken # {} \/ cut # {})
    BY <1>2, <2>1 DEF Spoilt
  <2>5. ASSUME NEW c \in Clients, Arrive(c)
        PROVE  Promise!Ask(c)
    <3>1. /\ phase[c] = "away" /\ phase' = [phase EXCEPT ![c] = "asked"]
          /\ UNCHANGED <<table, accepted, gone, got>>
          /\ UNCHANGED from \/ \E n \in 0 .. Bytes : from' = [from EXCEPT ![c] = n]
      BY <2>5 DEF Arrive, Connect
    <3>2. /\ phase \in [Clients -> {"away", "asked", "refused", "offered", "receiving"}]
          /\ from \in [Clients -> 0 .. Bytes]
      BY <2>3 DEF PeersTypeOK
    <3>3. \E n \in 0 .. Bytes : from' = [from EXCEPT ![c] = n]
      <4>1. CASE UNCHANGED from
        <5>1. from' = [from EXCEPT ![c] = from[c]] /\ from[c] \in 0 .. Bytes
          BY <3>2, <4>1
        <5> QED BY <5>1
      <4> QED BY <3>1, <4>1
    <3>4. got[c] = <<>>
      BY <2>2, <3>1 DEF Orderly, BytesOf
    <3>5. ~Shut(c) /\ ShutOnes' = ShutOnes
      <4>1. c \notin accepted
        BY <2>2, <3>1 DEF ConnInv
      <4>2. \A d \in Clients : Shut(d)' <=> Shut(d)
        BY <3>1 DEF Shut, Fds
      <4> QED BY <4>1, <4>2 DEF Shut, ShutOnes
    <3>6. \A d \in Clients : phase'[d] = "refused" <=> phase[d] = "refused"
      BY <3>1, <3>2
    <3>7. Released' = Released
      BY <3>1, <3>6 DEF Released
    <3> QED BY <2>4, <3>1, <3>3, <3>4, <3>5, <3>7 DEF Promise!Ask, Released, ShutOnes
  <2>6. ASSUME tasks # <<>>, SendPart
        PROVE  Promise!Next \/ UNCHANGED Promise!vars
    <3>1. PICK c : c = task.name
      OBVIOUS
    <3>2. SendSteps
      BY <2>6 DEF SendSteps
    <3>3. /\ c \in Clients /\ task.sock \in Fds /\ table[task.sock] = Sock(c)
          /\ c \in gone \/ task.offset = from[c] + Len(got[c])
          /\ task \in Elems(tasks) /\ task.file \in Numbers
          /\ task.left \in Int /\ task.offset \in Nat
      BY <2>2, <2>6, <3>1, <3>2, SendMeans, TaskTyped
    <3>4. /\ UNCHANGED <<phase, from, gone>> /\ ShutOnes' = ShutOnes
          /\ Released' = Released
      <4>1. UNCHANGED <<phase, from, gone, table, accepted>>
        BY <2>6 DEF SendPart
      <4>2. \A d \in Clients : Shut(d)' <=> Shut(d)
        BY <4>1 DEF Shut, Fds
      <4> QED BY <4>1, <4>2 DEF ShutOnes, Released
    <3>5. PICK n \in 1 .. task.left : Delivered(c, n)
      BY <2>2, <2>6, <3>1, <3>2, SendDelivers
    <3>6. CASE c \in gone
      BY <2>4, <3>4, <3>5, <3>6 DEF Delivered, Promise!vars, Released, ShutOnes
    <3>7. CASE c \notin gone
      <4>1. task.offset + task.left = Bytes /\ Bytes \in Nat
        BY <2>2, <3>3, NumbersAssumption DEF CauseInv, FilesInv, TypeInv, TypeOK, Elems, SizeOf
      <4>2. from[c] \in Nat /\ Len(got[c]) \in Nat
        <5>1. from[c] \in 0 .. Bytes /\ got[c] \in Seq(Clients \X (1 .. Bytes))
          BY <2>3, <3>3 DEF PeersTypeOK
        <5> QED BY <4>1, <5>1
      <4>3. n \in 1 .. Promise!Rest(c)
        BY <3>3, <3>5, <3>7, <4>1, <4>2 DEF Promise!Rest
      <4>4. Promise!Receive(c, n)
        BY <2>2, <3>5, <3>7 DEF Delivered, Receives, Promise!Receive
      <4>5. ~Shut(c)
        BY <3>3 DEF Shut
      <4>6. Promise!Transfer(c)
        BY <2>4, <3>4, <4>3, <4>4, <4>5 DEF Promise!Transfer, Released, ShutOnes
      <4> QED BY <3>3, <4>6 DEF Promise!Next
    <3> QED BY <3>6, <3>7
  <2>7. CASE /\ \A c \in Clients : ~Arrive(c)
             /\ ~(tasks # <<>> /\ SendPart)
    <3>1. ASSUME NEW c \in Clients, ~Shut(c), ClosedByRecv(c) \/ ClosedByTask(c),
                 \A d \in Clients : Shut(d)' <=> Shut(d) \/ d = c
          PROVE  Promise!Next
      <4>1. ShutOnes' = ShutOnes \cup {c}
        BY <3>1 DEF ShutOnes
      <4> QED BY <1>2, <2>1, <3>1, <4>1, CloseKeepsPromise DEF Promise!Next
    <3>2. CASE /\ \A d \in Clients : Shut(d)' <=> Shut(d)
               /\ ~(tasks # <<>> /\ SendSteps /\ ~SendPart)
      <4>1. UNCHANGED <<from, got>>
        BY <2>7, <3>2, Quiet
      <4>2. ShutOnes' = ShutOnes
        BY <3>2 DEF ShutOnes
      <4>3. Released' = Released \/ \E c \in Clients : Released' = Released \cup {c}
        BY <2>2, ReleasedStep
      <4> QED BY <2>4, <4>1, <4>2, <4>3
              DEF Promise!Next, Promise!Release, Promise!vars, Released, ShutOnes
    <3> QED BY <2>2, <3>1, <3>2, ShutStep
  <2> QED BY <2>5, <2>6, <2>7 DEF Promise!Next
<1> QED BY <1>1, <1>2

(***************************************************************************)
(* Every step of the three threads is a step of the promise, until a       *)
(* number is used that has changed hands, an open fails, munmap takes the  *)
(* file of another transfer away, an old errno ends one, the list is       *)
(* changed by two threads at once, or the process dies.                    *)
(***************************************************************************)
THEOREM KeepsPromise == Spec => ImplementsTransfers
<1>1. Init => Promise!Init
  BY PromiseInit
<1>2. ServerInv /\ ServerInv' /\ [Next]_vars => [Promise!Next]_(Promise!vars)
  BY PromiseStep
<1> QED BY <1>1, <1>2, Invariance, PTL DEF Spec, ImplementsTransfers, Promise!Spec
=============================================================================
