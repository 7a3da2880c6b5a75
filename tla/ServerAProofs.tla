--------------------------- MODULE ServerAProofs ----------------------------
(***************************************************************************)
(* Proofs about ServerA: its types, and that as long as no frame is read   *)
(* while a transfer is queued or running, each client gets its own bytes   *)
(* and every step is one of Transfers; for any clients, files, numbers of  *)
(* descriptors and threads.                                                *)
(***************************************************************************)
EXTENDS ServerA, PeersProofs

-----------------------------------------------------------------------------
(* The invariant.                                                          *)

\* What the parser reads into data is made of a frame that was received.
Real(buf)  == buf[1] \in Requests /\ buf[2] \in Clients /\ <<buf[1], buf[3]>> \in Messages
IsFrame(f) == f.fn = f.buf[1] /\ f.clientFd \in Fds /\ Real(f.buf)

Jobs == [p : Clients \cup {Nobody}, file : Nat, count : Nat, left : Int]

ParserInv ==
  /\ pipe \in Seq(Records) /\ \A f \in Elems(pipe) : IsFrame(f)
  /\ data \in Records
  /\ ppc \in {"unstarted", "read", "readBuf", "handle"}
  /\ ppc = "readBuf" => /\ pipe # <<>> /\ data.fn = Head(pipe).fn
                        /\ data.clientFd = Head(pipe).clientFd
  /\ ppc = "handle" => IsFrame(data)

WorkersInv ==
  /\ queue \in Seq({"ensure", "resume"})
  /\ \E n \in Pools : wpc \in [1 .. n -> {"idle", "ensure", "resume", "send", "close"}]
  /\ job \in [Workers -> Jobs] /\ wait \in [Workers -> WaitStates]
  /\ \A w \in Workers : job[w].p # Nobody => job[w].left \in 0 .. Bytes - job[w].count

TypeInv ==
  /\ PeersTypeOK
  /\ stalled \subseteq accepted /\ exited \in BOOLEAN /\ overwritten \in BOOLEAN
  /\ ParserInv
  /\ WorkersInv
  /\ InUse => Real(data.buf)
  /\ \A c \in Clients : got[c] # <<>> => c \in accepted

(***************************************************************************)
(* At most one transfer is queued or running, and none while the parser    *)
(* has a frame.                                                            *)
(***************************************************************************)
OneTask ==
  /\ Len(queue) <= 1
  /\ queue # <<>> => \A w \in Workers : wpc[w] = "idle"
  /\ \A v, w \in Workers : wpc[v] # "idle" /\ wpc[w] # "idle" => v = w
  /\ InUse => ppc = "read"

(***************************************************************************)
(* What the server has to do for a client is in one place: a frame in its  *)
(* socket, in the pipe or with the parser, or the transfer.                *)
(***************************************************************************)
InSocket(c) == rx[c] # NoFrame
InPipe(c)   == \E f \in Elems(pipe) : f.buf[2] = c
InHand(c)   == ppc = "handle" /\ data.buf[2] = c
InTask(c)   == InUse /\ data.buf[2] = c

OnePlace ==
  /\ \A i, j \in DOMAIN pipe : pipe[i].buf[2] = pipe[j].buf[2] => i = j
  /\ \A c \in Clients : /\ InSocket(c) => ~InPipe(c) /\ ~InHand(c) /\ ~InTask(c)
                        /\ InPipe(c) => ~InHand(c) /\ ~InTask(c)

(***************************************************************************)
(* The number a client is told is that of its file.  Where it asked to     *)
(* start goes with the frame.                                              *)
(***************************************************************************)
FileOf(c, x) == \/ x = NoFd /\ c \in unopened
                \/ x \in Fds /\ table[x] = File(c)

StartOf(fn, arg) == IF fn = "Resume" THEN arg ELSE 0

Request(c, fn, arg) ==
  /\ phase[c] = IF fn = "Ensure" THEN "receiving" ELSE "asked"
  /\ got[c] = <<>> /\ from[c] = StartOf(fn, arg)
  /\ fn = "Ensure" => FileOf(c, arg)

FrameInv(f) ==
  /\ table[f.clientFd] = Sock(f.buf[2])
  /\ Request(f.buf[2], f.buf[1], f.buf[3])

ClientInv(c) ==
  /\ phase[c] \in {"away", "offered"} => got[c] = <<>> /\ from[c] = 0
  /\ phase[c] = "offered" => FileOf(c, told[c])
  /\ InSocket(c) => Request(c, rx[c][1], rx[c][2])

RequestInv ==
  /\ \A c \in Clients : ClientInv(c)
  /\ \A f \in Elems(pipe) : FrameInv(f)
  /\ ppc = "handle" => FrameInv(data)

(***************************************************************************)
(* A transfer that has not begun is for the frame in data; one that runs   *)
(* is as far as its client.                                                *)
(***************************************************************************)
Waits(kind, c) ==
  /\ data.buf[1] = IF kind = "ensure" THEN "Ensure" ELSE "Resume"
  /\ got[c] = <<>> /\ from[c] = StartOf(data.buf[1], data.buf[3])
  /\ kind = "ensure" => FileOf(c, data.buf[3])

Runs(w, c) ==
  /\ FileOf(c, job[w].file)
  /\ job[w].file = NoFd => job[w].p = Nobody /\ job[w].left <= 0
  /\ job[w].file # NoFd =>
       /\ job[w].p = c /\ job[w].left >= 0 /\ job[w].count + job[w].left = Bytes
       /\ c \in gone \/ job[w].count = from[c] + Len(got[c])
  /\ wpc[w] = "close" => c \in gone \/ job[w].left <= 0

TaskInv ==
  /\ InUse => /\ phase[data.buf[2]] = "receiving"
              /\ table[data.clientFd] = Sock(data.buf[2]) /\ data.clientFd \in Fds
  /\ \A kind \in Elems(queue) : Waits(kind, data.buf[2])
  /\ \A w \in Workers :
       /\ wpc[w] \in {"ensure", "resume"} => Waits(wpc[w], data.buf[2])
       /\ wpc[w] \in {"send", "close"} => Runs(w, data.buf[2])

Orderly == OneTask /\ OnePlace /\ RequestInv /\ TaskInv

ServerAInv ==
  /\ TypeInv
  /\ ConnInv
  /\ OwnBytes
  /\ ~overwritten /\ ~exited => Orderly
-----------------------------------------------------------------------------
(* Types.                                                                  *)

\* Nothing happens but in the waits of the threads.
Still == UNCHANGED <<peerVars, stalled, exited, parserVars, queue, wpc, job>>

LEMMA NextCases ==
  ASSUME [Next]_vars
  PROVE  \/ /\ ~exited
            /\ \/ \E c \in Clients : ClientStep(c) \/ Stall(c)
               \/ Accept \/ Return
               \/ \E x \in Fds : RecvFrame(x)
               \/ /\ \/ ReadHeader \/ ReadBuf \/ HandleNormal \/ FileNotExit
                     \/ HandleEnsure \/ HandleResume
                  /\ UNCHANGED <<stalled, exited, wpc, job>>
               \/ /\ \E w \in Workers : \/ Take(w) \/ MapConfirmed(w) \/ MapResumed(w) \/ Send(w)
                                        \/ SendNothing(w) \/ SendFails(w) \/ Close(w)
                  /\ UNCHANGED <<stalled, exited, pipe, data, ppc, overwritten>>
         \/ Still
BY DEF Next, Receive, ParserThread, Parser, Worker, parserVars, AcceptFails, EpollWaitFails,
       Block, SpuriousWakeup, Still, vars, poolVars

\* A buffer read from the pipe names a client's file and a place or number.
LEMMA RealMeans ==
  ASSUME PeersTypeOK, NEW buf \in Buffers, Real(buf)
  PROVE  /\ buf[2] \in Clients /\ buf[3] \in Nat
         /\ buf[1] = "Ensure" => buf[3] \in Numbers
         /\ buf[1] # "Ensure" => buf[3] \in 0 .. Bytes
         /\ buf[1] = "Normal" => buf[3] = 0
<1>1. buf[3] \in Nat
  BY DEF Buffers
<1>2. <<buf[1], buf[3]>> \in Messages
  BY DEF Real
<1>3. 0 \in 0 .. Bytes
  BY NumbersAssumption
<1> QED BY <1>1, <1>2, <1>3 DEF Messages, Real

\* The bytes a worker sends are in its file.
LEMMA SendRange ==
  ASSUME TypeInv, NEW w \in Workers, job[w].p # Nobody, NEW n \in Sendable(w)
  PROVE  /\ job[w] \in Jobs /\ job[w].p \in Clients /\ job[w].count \in Nat /\ n \in Nat
         /\ job[w].left \in Nat /\ job[w].left - n \in Nat
         /\ job[w].count + job[w].left <= Bytes
         /\ n >= 1
<1>1. job[w] \in Jobs /\ job[w].left \in 0 .. Bytes - job[w].count
  BY DEF TypeInv, WorkersInv
<1>2. job[w].p \in Clients /\ job[w].count \in Nat /\ job[w].left \in Int
  BY <1>1 DEF Jobs
<1>3. n \in 1 .. job[w].left
  BY DEF Sendable
<1>4. Bytes \in Nat
  BY NumbersAssumption
<1> QED BY <1>1, <1>2, <1>3, <1>4

\* What the clients and the kernel hold stays well typed.
LEMMA StepPeers ==
  ASSUME TypeInv, [Next]_vars
  PROVE  PeersTypeOK' /\ Fds' = Fds /\ Numbers' = Numbers /\ Messages' = Messages
<1>0. PeersTypeOK /\ data.clientFd \in Numbers /\ data \in Records
  BY DEF TypeInv, ParserInv, Records
<1>1. ASSUME NEW c \in Clients, ClientStep(c)
      PROVE  PeersTypeOK' /\ Fds' = Fds /\ Numbers' = Numbers /\ Messages' = Messages
  BY <1>0, <1>1, PeersStepTyped DEF ClientStep
<1>2. CASE Accept \/ \E x \in Fds : RecvFrame(x)
  BY <1>0, <1>2, PeersStepTyped DEF Accept, RecvFrame
<1>3. CASE UNCHANGED peerVars
  BY <1>0, <1>3, PeersStepTyped
<1>4. CASE Return
  <2>1. /\ table' = Closed(Fds)
        /\ UNCHANGED <<backlog, accepted, gone, phase, told, from, rx, got, unopened>>
    BY <1>4 DEF Return
  <2> QED BY <1>0, <2>1, TableClosed DEF PeersTypeOK, Owners
<1>5. CASE HandleNormal
  <2>1. PICK x \in Numbers : Open(data.buf[2], x) /\ Reply(data.clientFd, "offered", x)
    BY <1>5 DEF HandleNormal
  <2>2. data.buf[2] \in Clients
    BY <1>5 DEF HandleNormal, Handle, TypeInv, ParserInv, IsFrame, Real
  <2>3. /\ \E n \in Limits : table' \in [1 .. n -> Owners]
        /\ Fds' = Fds /\ Numbers' = Numbers /\ Messages' = Messages
        /\ unopened' \subseteq Clients
    BY <1>0, <2>1, <2>2, OpenTyped
  <2>4. /\ phase' \in [Clients -> {"away", "asked", "refused", "offered", "receiving"}]
        /\ told' \in [Clients -> Numbers]
    BY <1>0, <2>1, ReplyTyped
  <2>5. UNCHANGED <<backlog, accepted, gone, from, rx, got>>
    BY <1>5 DEF HandleNormal, Handle
  <2> QED BY <1>0, <2>3, <2>4, <2>5 DEF PeersTypeOK, Owners
<1>6. CASE FileNotExit \/ HandleResume \/ HandleEnsure
  <2>1. UNCHANGED <<table, backlog, accepted, gone, from, rx, got, unopened>>
    BY <1>6 DEF FileNotExit, HandleResume, HandleEnsure, Handle
  <2>2. NoFd \in Numbers
    BY DEF Numbers
  <2>3. /\ phase' \in [Clients -> {"away", "asked", "refused", "offered", "receiving"}]
        /\ told' \in [Clients -> Numbers]
    <3>1. CASE HandleEnsure
      BY <1>0, <3>1 DEF HandleEnsure, PeersTypeOK
    <3>2. CASE FileNotExit
      BY <1>0, <2>2, <3>2, ReplyTyped DEF FileNotExit
    <3>3. CASE HandleResume
      BY <1>0, <2>2, <3>3, ReplyTyped DEF HandleResume
    <3> QED BY <1>6, <3>1, <3>2, <3>3
  <2>4. Fds' = Fds /\ Numbers' = Numbers /\ Messages' = Messages
    BY <2>1, TableSame
  <2> QED BY <1>0, <2>1, <2>3, <2>4 DEF PeersTypeOK, Owners
<1>7. ASSUME NEW w \in Workers, MapResumed(w)
      PROVE  PeersTypeOK' /\ Fds' = Fds /\ Numbers' = Numbers /\ Messages' = Messages
  <2>1. UNCHANGED <<backlog, accepted, gone, phase, told, from, rx, got>>
    BY <1>7 DEF MapResumed
  <2>2. (\E x \in Numbers : Open(data.buf[2], x)) \/ UNCHANGED <<table, unopened>>
    BY <1>7 DEF MapResumed
  <2>3. data.buf[2] \in Clients
    <3>1. InUse
      BY <1>7 DEF MapResumed, GoTo, InUse
    <3> QED BY <3>1 DEF TypeInv, Real
  <2>4. CASE \E x \in Numbers : Open(data.buf[2], x)
    <3>1. /\ \E n \in Limits : table' \in [1 .. n -> Owners]
          /\ Fds' = Fds /\ Numbers' = Numbers /\ Messages' = Messages
          /\ unopened' \subseteq Clients
      BY <1>0, <2>3, <2>4, OpenTyped
    <3> QED BY <1>0, <2>1, <3>1 DEF PeersTypeOK, Owners
  <2>5. CASE UNCHANGED <<table, unopened>>
    BY <1>0, <2>1, <2>5, PeersStepTyped DEF peerVars
  <2> QED BY <2>2, <2>4, <2>5
<1>8. ASSUME NEW w \in Workers, Send(w)
      PROVE  PeersTypeOK' /\ Fds' = Fds /\ Numbers' = Numbers /\ Messages' = Messages
  <2>1. /\ UNCHANGED <<table, backlog, accepted, gone, phase, told, from, rx, unopened>>
        /\ IsSock(data.clientFd) /\ job[w].p # Nobody
    BY <1>8 DEF Send
  <2>2. PICK n \in Sendable(w) : Deliver(data.clientFd, job[w].p, job[w].count, n)
    BY <1>8 DEF Send
  <2>3. /\ job[w].p \in Clients /\ job[w].count \in Nat /\ n \in Nat
        /\ job[w].count + n <= Bytes
    <3>1. Bytes \in Nat
      BY NumbersAssumption
    <3> QED BY <2>1, <3>1, SendRange
  <2>4. got' \in [Clients -> Seq(Clients \X (1 .. Bytes))]
    BY <1>0, <2>1, <2>2, <2>3, DeliverTyped
  <2>5. Fds' = Fds /\ Numbers' = Numbers /\ Messages' = Messages
    BY <2>1, TableSame
  <2> QED BY <1>0, <2>1, <2>4, <2>5 DEF PeersTypeOK, Owners
<1>9. ASSUME NEW w \in Workers, Close(w)
      PROVE  PeersTypeOK' /\ Fds' = Fds /\ Numbers' = Numbers /\ Messages' = Messages
  <2>1. /\ table' = Closed({data.clientFd, job[w].file})
        /\ UNCHANGED <<backlog, accepted, gone, phase, told, from, rx, got, unopened>>
    BY <1>9 DEF Close
  <2> QED BY <1>0, <2>1, TableClosed DEF PeersTypeOK, Owners
<1>10. ASSUME NEW w \in Workers, Take(w) \/ MapConfirmed(w) \/ SendNothing(w) \/ SendFails(w)
       PROVE  UNCHANGED peerVars
  BY <1>10 DEF Take, MapConfirmed, SendNothing, SendFails
<1>11. ASSUME NEW c \in Clients, Stall(c) PROVE UNCHANGED peerVars
  BY <1>11 DEF Stall
<1>12. CASE ReadHeader \/ ReadBuf \/ Still
  BY <1>3, <1>12 DEF ReadHeader, ReadBuf, Still
<1> QED BY <1>1, <1>2, <1>3, <1>4, <1>5, <1>6, <1>7, <1>8, <1>9, <1>10, <1>11, <1>12, NextCases

LEMMA FrameKept ==
  ASSUME Fds' = Fds, Messages' = Messages
  PROVE  /\ \A f : IsFrame(f)' <=> IsFrame(f)
         /\ \A buf : Real(buf)' <=> Real(buf)
BY DEF IsFrame, Real, Requests

\* A frame that is received, as the parser will see it.
LEMMA RecvFrameMeans ==
  ASSUME TypeInv, NEW x \in Fds, RecvFrame(x)
  PROVE  \E c \in Clients, f \in Records :
           /\ table[x] = Sock(c) /\ rx[c] # NoFrame
           /\ f.fn = rx[c][1] /\ f.clientFd = x
           /\ f.buf[1] = rx[c][1] /\ f.buf[2] = c /\ f.buf[3] = rx[c][2]
           /\ IsFrame(f)
           /\ pipe' = Append(pipe, f)
           /\ rx' = [rx EXCEPT ![c] = NoFrame]
           /\ UNCHANGED <<table, backlog, accepted, gone, phase, told, from, got, unopened>>
           /\ UNCHANGED <<stalled, exited, data, ppc, overwritten, queue, wpc, job>>
<1>0. PeersTypeOK
  BY DEF TypeInv
<1>1. /\ IsSock(x) /\ rx[Owner(x)] # NoFrame
      /\ rx' = [rx EXCEPT ![Owner(x)] = NoFrame]
      /\ UNCHANGED <<table, backlog, accepted, gone, phase, told, from, got, unopened>>
      /\ UNCHANGED <<stalled, exited, data, ppc, overwritten, queue, wpc, job>>
  BY DEF RecvFrame, TakeFrame, poolVars
<1>2. PICK c \in Clients : c = Owner(x) /\ table[x] = Sock(c)
  BY <1>0, <1>1, SockMeans
<1>3. rx[c] \in Messages
  BY <1>0, <1>1, <1>2 DEF PeersTypeOK
<1>4. PICK f : f = [fn |-> rx[c][1], clientFd |-> x, buf |-> <<rx[c][1], c, rx[c][2]>>]
  OBVIOUS
<1>5. pipe' = Append(pipe, f)
  BY <1>2, <1>4 DEF RecvFrame, WritePipe
<1>6. rx[c][1] \in Requests /\ rx[c][2] \in Nat /\ rx[c] = <<rx[c][1], rx[c][2]>>
  <2>1. Numbers \subseteq Nat /\ 0 .. Bytes \subseteq Nat /\ 0 \in Nat
    BY <1>0, FdsAreNumbers, NumbersAssumption
  <2>2. PICK fn \in Requests, arg \in Nat : rx[c] = <<fn, arg>>
    <3>1. \A m \in {"Normal"} \X {0} : m = <<"Normal", 0>>
      OBVIOUS
    <3>2. \A m \in {"Resume"} \X (0 .. Bytes) : \E n \in 0 .. Bytes : m = <<"Resume", n>>
      OBVIOUS
    <3>3. \A m \in {"Ensure"} \X Numbers : \E n \in Numbers : m = <<"Ensure", n>>
      OBVIOUS
    <3>4. "Normal" \in Requests /\ "Resume" \in Requests /\ "Ensure" \in Requests
      BY DEF Requests
    <3> QED BY <1>3, <2>1, <3>1, <3>2, <3>3, <3>4 DEF Messages
  <2> QED BY <2>2
<1>7. f \in Records
  BY <1>4, <1>6 DEF Records, Buffers, Numbers
<1>8. IsFrame(f)
  <2>1. f.fn = rx[c][1] /\ f.clientFd = x /\ f.buf = <<rx[c][1], c, rx[c][2]>>
    BY <1>4
  <2>2. f.buf[1] = rx[c][1] /\ f.buf[2] = c /\ f.buf[3] = rx[c][2]
    BY <2>1
  <2> QED BY <1>3, <1>6, <2>1, <2>2 DEF IsFrame, Real
<1>9. f.buf[1] = rx[c][1] /\ f.buf[2] = c /\ f.buf[3] = rx[c][2]
  BY <1>4
<1>10. f.fn = rx[c][1] /\ f.clientFd = x
  BY <1>4
<1> QED BY <1>1, <1>2, <1>5, <1>7, <1>8, <1>9, <1>10

\* What the parser copies.
LEMMA ReadMeans ==
  ASSUME TypeInv
  PROVE  /\ ReadHeader =>
              /\ data' \in Records /\ Head(pipe) \in Records /\ IsFrame(Head(pipe))
              /\ data'.fn = Head(pipe).fn /\ data'.clientFd = Head(pipe).clientFd
              /\ data'.buf = data.buf
         /\ ReadBuf =>
              /\ data' \in Records /\ data' = Head(pipe) /\ IsFrame(Head(pipe))
              /\ pipe # <<>> /\ Head(pipe) \in Elems(pipe)
              /\ pipe' = Tail(pipe) /\ pipe' \in Seq(Records) /\ Elems(pipe') \subseteq Elems(pipe)
<1>0. data \in Records /\ pipe \in Seq(Records) /\ \A f \in Elems(pipe) : IsFrame(f)
  BY DEF TypeInv, ParserInv
<1>1. ASSUME ReadHeader
      PROVE  /\ data' \in Records /\ Head(pipe) \in Records /\ IsFrame(Head(pipe))
             /\ data'.fn = Head(pipe).fn /\ data'.clientFd = Head(pipe).clientFd
             /\ data'.buf = data.buf
  <2>1. PICK h : h = Head(pipe)
    OBVIOUS
  <2>2. h \in Records /\ h \in Elems(pipe)
    BY <1>0, <1>1, <2>1, TailElems DEF ReadHeader
  <2>3. /\ h.fn \in Requests \cup {"none"} /\ h.clientFd \in Numbers
        /\ data.buf \in Buffers
    BY <1>0, <2>2 DEF Records
  <2>4. data' = [fn |-> h.fn, clientFd |-> h.clientFd, buf |-> data.buf]
    BY <1>0, <1>1, <2>1 DEF ReadHeader, Records
  <2>5. data' \in Records
    BY <2>3, <2>4 DEF Records
  <2> QED BY <1>0, <2>1, <2>2, <2>4, <2>5
<1>2. ASSUME ReadBuf
      PROVE  /\ data' \in Records /\ data' = Head(pipe) /\ IsFrame(Head(pipe))
             /\ pipe # <<>> /\ Head(pipe) \in Elems(pipe)
             /\ pipe' = Tail(pipe) /\ pipe' \in Seq(Records) /\ Elems(pipe') \subseteq Elems(pipe)
  <2>1. PICK h : h = Head(pipe)
    OBVIOUS
  <2>2. /\ pipe # <<>> /\ data.fn = h.fn /\ data.clientFd = h.clientFd /\ pipe' = Tail(pipe)
        /\ data' = [data EXCEPT !.buf = h.buf]
    BY <1>2, <2>1 DEF ReadBuf, TypeInv, ParserInv
  <2>3. /\ h \in Records /\ h \in Elems(pipe)
        /\ Tail(pipe) \in Seq(Records) /\ Elems(Tail(pipe)) \subseteq Elems(pipe)
    BY <1>0, <2>1, <2>2, TailElems
  <2>4. data' = [fn |-> h.fn, clientFd |-> h.clientFd, buf |-> h.buf]
    BY <1>0, <2>2 DEF Records
  <2>5. h = [fn |-> h.fn, clientFd |-> h.clientFd, buf |-> h.buf]
    BY <2>3 DEF Records
  <2>6. data' = h
    BY <2>4, <2>5
  <2> QED BY <1>0, <2>1, <2>2, <2>3, <2>6
<1> QED BY <1>1, <1>2

LEMMA StepParser ==
  ASSUME TypeInv, [Next]_vars
  PROVE  ParserInv'
<1>0. /\ pipe \in Seq(Records) /\ (\A f \in Elems(pipe) : IsFrame(f)) /\ data \in Records
  BY DEF TypeInv, ParserInv
<1>1. Fds' = Fds /\ Numbers' = Numbers /\ Messages' = Messages
  BY StepPeers
<1>2. /\ \A f : IsFrame(f)' <=> IsFrame(f)
      /\ \A buf : Real(buf)' <=> Real(buf)
  BY <1>1, FrameKept
<1>3. Records' = Records
  BY <1>1 DEF Records, Buffers, Requests
<1>4. CASE UNCHANGED <<pipe, data, ppc>>
  <2>1. Elems(pipe') = Elems(pipe)
    BY <1>4
  <2>2. IsFrame(data)' <=> IsFrame(data)
    BY <1>1, <1>4 DEF IsFrame, Real, Requests
  <2> QED BY <1>2, <1>3, <1>4, <2>1, <2>2 DEF TypeInv, ParserInv, Elems
<1>5. ASSUME NEW x \in Fds, RecvFrame(x) PROVE ParserInv'
  <2>1. PICK f \in Records : IsFrame(f) /\ pipe' = Append(pipe, f) /\ UNCHANGED <<data, ppc>>
    BY <1>5, RecvFrameMeans
  <2>2. pipe' \in Seq(Records) /\ Elems(pipe') = Elems(pipe) \cup {f}
    BY <1>0, <2>1, AppendElems
  <2>3. \A g \in Elems(pipe') : IsFrame(g)
    BY <1>0, <2>1, <2>2
  <2>4. pipe # <<>> => pipe' # <<>> /\ Head(pipe') = Head(pipe)
    BY <1>0, <2>1
  <2>5. IsFrame(data)' <=> IsFrame(data)
    BY <1>1, <2>1 DEF IsFrame, Real, Requests
  <2> QED BY <1>2, <1>3, <2>1, <2>2, <2>3, <2>4, <2>5 DEF TypeInv, ParserInv, Elems
<1>6. CASE ReadHeader
  <2>1. /\ pipe # <<>> /\ ppc' = "readBuf" /\ pipe' = pipe
    BY <1>6 DEF ReadHeader
  <2>2. /\ data' \in Records /\ data'.fn = Head(pipe).fn /\ data'.clientFd = Head(pipe).clientFd
    BY <1>6, ReadMeans
  <2> QED BY <1>0, <1>2, <1>3, <2>1, <2>2 DEF ParserInv, Elems
<1>7. CASE ReadBuf
  <2>1. ppc' = "handle"
    BY <1>7 DEF ReadBuf
  <2>2. /\ data' \in Records /\ data' = Head(pipe) /\ IsFrame(Head(pipe))
        /\ pipe' \in Seq(Records) /\ Elems(pipe') \subseteq Elems(pipe)
    BY <1>7, ReadMeans
  <2>3. IsFrame(data)' <=> IsFrame(Head(pipe))
    BY <1>1, <2>2 DEF IsFrame, Real, Requests
  <2>4. \A f \in Elems(pipe') : IsFrame(f)
    BY <1>0, <2>2
  <2> QED BY <1>2, <1>3, <2>1, <2>2, <2>3, <2>4 DEF ParserInv, Elems
<1>8. CASE HandleNormal \/ FileNotExit \/ HandleEnsure \/ HandleResume
  <2>1. ppc' = "read" /\ UNCHANGED <<pipe, data>>
    BY <1>8 DEF HandleNormal, FileNotExit, HandleEnsure, HandleResume, Handle
  <2> QED BY <1>0, <1>2, <1>3, <2>1 DEF ParserInv, Elems
<1>9. ASSUME NEW c \in Clients, ClientStep(c) \/ Stall(c) PROVE UNCHANGED <<pipe, data, ppc>>
  BY <1>9 DEF ClientStep, Stall, parserVars
<1>10. CASE Accept \/ Still
  BY <1>4, <1>10 DEF Accept, parserVars, Still
<1>11. CASE Return
  <2>1. pipe' = <<>> /\ ppc' = "read" /\ data' = NoData
    BY <1>11 DEF Return
  <2>2. NoData \in Records
    BY DEF NoData, Records, Buffers, Numbers, NoFd
  <2> QED BY <1>3, <2>1, <2>2 DEF ParserInv, Elems
<1> QED BY <1>4, <1>5, <1>6, <1>7, <1>8, <1>9, <1>10, <1>11, NextCases

(***************************************************************************)
(* The pool's threads and their jobs.                                      *)
(***************************************************************************)
Places == {"idle", "ensure", "resume", "send", "close"}

LEMMA WpcSet ==
  ASSUME TypeInv, NEW w \in Workers, NEW there \in Places, wpc' = [wpc EXCEPT ![w] = there]
  PROVE  /\ \E n \in Pools : wpc' \in [1 .. n -> Places]
         /\ Workers' = Workers
         /\ wpc'[w] = there /\ \A v \in Workers : v # w => wpc'[v] = wpc[v]
<1>1. PICK n \in Pools : wpc \in [1 .. n -> Places]
  BY DEF TypeInv, WorkersInv, Places
<1>2. wpc' \in [1 .. n -> Places] /\ w \in 1 .. n
  BY <1>1 DEF Workers
<1> QED BY <1>1, <1>2 DEF Workers

LEMMA JobSet ==
  ASSUME TypeInv, NEW w \in Workers, NEW e \in Jobs, job' = [job EXCEPT ![w] = e],
         Workers' = Workers, e.p # Nobody => e.left \in 0 .. Bytes - e.count
  PROVE  /\ job' \in [Workers' -> Jobs]
         /\ \A v \in Workers' : job'[v].p # Nobody => job'[v].left \in 0 .. Bytes - job'[v].count
         /\ job'[w] = e /\ \A v \in Workers : v # w => job'[v] = job[v]
<1>1. /\ job \in [Workers -> Jobs]
      /\ \A v \in Workers : job[v].p # Nobody => job[v].left \in 0 .. Bytes - job[v].count
  BY DEF TypeInv, WorkersInv
<1>2. /\ job'[w] = e /\ \A v \in Workers : v # w => job'[v] = job[v]
      /\ job' \in [Workers -> Jobs]
  BY <1>1
<1>3. \A v \in Workers' : job'[v].p # Nobody => job'[v].left \in 0 .. Bytes - job'[v].count
  BY <1>1, <1>2
<1> QED BY <1>2, <1>3

\* What a task makes of the record when it begins.
LEMMA MapMeans ==
  ASSUME TypeInv, NEW w \in Workers, MapConfirmed(w) \/ MapResumed(w)
  PROVE  /\ InUse /\ Real(data.buf) /\ data.buf \in Buffers
         /\ \E e \in Jobs :
              /\ job' = [job EXCEPT ![w] = e]
              /\ e.p # Nobody => e.left \in 0 .. Bytes - e.count
              /\ MapConfirmed(w) =>
                   /\ e.file = data.buf[3] /\ e.count = 0
                   /\ data.buf[1] = "Ensure" =>
                        /\ e.p = IF IsFile(e.file) THEN Owner(e.file) ELSE Nobody
                        /\ e.left = SizeOf(e.file)
              /\ MapResumed(w) =>
                   /\ e.file \in Numbers /\ e.count = data.buf[3]
                   /\ e.left = SizeOf(e.file) - e.count
                   /\ e.p = IF e.file = NoFd THEN Nobody ELSE data.buf[2]
                   /\ IF data.buf[1] = "Ensure"
                      THEN e.file = NoFd /\ UNCHANGED <<table, unopened>>
                      ELSE Open(data.buf[2], e.file)
<1>0. PeersTypeOK /\ data.buf \in Buffers
  BY DEF TypeInv, ParserInv, Records
<1>1. InUse /\ Real(data.buf)
  <2>1. wpc[w] # "idle"
    BY DEF MapConfirmed, MapResumed, GoTo
  <2>2. InUse
    BY <2>1 DEF InUse
  <2> QED BY <2>2 DEF TypeInv
<1>2. /\ data.buf[2] \in Clients /\ data.buf[3] \in Nat
      /\ data.buf[1] # "Ensure" => data.buf[3] \in 0 .. Bytes
  BY <1>0, <1>1, RealMeans
<1>3. Bytes \in Nat /\ NoFd \notin Fds /\ Numbers \subseteq Nat
  BY <1>0, NumbersAssumption, FdsAreNumbers
<1> DEFINE Means(e) == 
              /\ job' = [job EXCEPT ![w] = e]
              /\ e.p # Nobody => e.left \in 0 .. Bytes - e.count
              /\ MapConfirmed(w) =>
                   /\ e.file = data.buf[3] /\ e.count = 0
                   /\ data.buf[1] = "Ensure" =>
                        /\ e.p = IF IsFile(e.file) THEN Owner(e.file) ELSE Nobody
                        /\ e.left = SizeOf(e.file)
              /\ MapResumed(w) =>
                   /\ e.file \in Numbers /\ e.count = data.buf[3]
                   /\ e.left = SizeOf(e.file) - e.count
                   /\ e.p = IF e.file = NoFd THEN Nobody ELSE data.buf[2]
                   /\ IF data.buf[1] = "Ensure"
                      THEN e.file = NoFd /\ UNCHANGED <<table, unopened>>
                      ELSE Open(data.buf[2], e.file)
<1>4. ~(MapConfirmed(w) /\ MapResumed(w))
  BY DEF MapConfirmed, MapResumed, GoTo
<1>5. CASE MapConfirmed(w)
  <2>1. PICK fd : fd = data.buf[3]
    OBVIOUS
  <2>2. PICK p : p = IF data.buf[1] = "Ensure" /\ IsFile(fd) THEN Owner(fd) ELSE Nobody
    OBVIOUS
  <2>3. PICK left : left = IF data.buf[1] = "Ensure" THEN SizeOf(fd) ELSE 0
    OBVIOUS
  <2>4. PICK e : e = [p |-> p, file |-> fd, count |-> 0, left |-> left]
    OBVIOUS
  <2>5. job' = [job EXCEPT ![w] = e]
    BY <1>5, <2>1, <2>2, <2>3, <2>4 DEF MapConfirmed
  <2>6. p \in Clients \cup {Nobody} /\ (p # Nobody => data.buf[1] = "Ensure" /\ fd \in Fds)
    BY <1>0, <2>2, FileMeans
  <2>7. left \in Int /\ (p # Nobody => left = Bytes)
    BY <1>3, <2>3, <2>6 DEF SizeOf
  <2>8. e \in Jobs /\ (p # Nobody => e.left \in 0 .. Bytes - e.count)
    BY <1>2, <1>3, <2>1, <2>4, <2>6, <2>7 DEF Jobs
  <2>9. e.p = p /\ e.file = fd /\ e.count = 0 /\ e.left = left
    BY <2>4
  <2>10. Means(e)
    BY <1>4, <1>5, <2>1, <2>2, <2>3, <2>5, <2>8, <2>9
  <2> QED BY <1>1, <1>0, <2>8, <2>10
<1>6. CASE MapResumed(w)
  <2>1. PICK fd \in Numbers :
          /\ IF data.buf[1] # "Ensure" THEN Open(data.buf[2], fd)
                                       ELSE fd = NoFd /\ UNCHANGED <<table, unopened>>
          /\ job' = [job EXCEPT ![w] =
                       [p     |-> IF fd = NoFd THEN Nobody ELSE data.buf[2],
                        file  |-> fd,
                        count |-> data.buf[3],
                        left  |-> SizeOf(fd) - data.buf[3]]]
    BY <1>6 DEF MapResumed
  <2>2. PICK p : p = IF fd = NoFd THEN Nobody ELSE data.buf[2]
    OBVIOUS
  <2>3. PICK left : left = SizeOf(fd) - data.buf[3]
    OBVIOUS
  <2>4. PICK e : e = [p |-> p, file |-> fd, count |-> data.buf[3], left |-> left]
    OBVIOUS
  <2>5. job' = [job EXCEPT ![w] = e]
    BY <2>1, <2>2, <2>3, <2>4
  <2>6. p \in Clients \cup {Nobody} /\ (p # Nobody => data.buf[1] # "Ensure" /\ fd # NoFd)
    BY <1>2, <2>1, <2>2
  <2>7. left \in Int /\ (p # Nobody => left = Bytes - data.buf[3])
    BY <1>2, <1>3, <2>3, <2>6 DEF SizeOf
  <2>8. e \in Jobs
    BY <1>2, <1>3, <2>1, <2>4, <2>6, <2>7 DEF Jobs
  <2>9. e.p = p /\ e.file = fd /\ e.count = data.buf[3] /\ e.left = left
    BY <2>4
  <2>10. p # Nobody => e.left \in 0 .. Bytes - e.count
    BY <1>2, <1>3, <2>6, <2>7, <2>9
  <2>11. Means(e)
    BY <1>4, <1>6, <2>1, <2>2, <2>3, <2>5, <2>9, <2>10
  <2> QED BY <1>1, <1>0, <2>8, <2>11
<1> QED BY <1>5, <1>6

\* What a send makes of the job.
LEMMA SendMeans ==
  ASSUME TypeInv, NEW w \in Workers, Send(w)
  PROVE  \E n \in Sendable(w), e \in Jobs :
           /\ wpc[w] = "send" /\ job[w].p # Nobody /\ IsSock(data.clientFd)
           /\ e.p = job[w].p /\ e.file = job[w].file
           /\ e.count = job[w].count + n /\ e.left = job[w].left - n
           /\ e.left \in 0 .. Bytes - e.count
           /\ job' = [job EXCEPT ![w] = e]
           /\ Deliver(data.clientFd, job[w].p, job[w].count, n)
           /\ wpc' = [wpc EXCEPT ![w] = IF e.left <= 0 THEN "close" ELSE "send"]
<1>1. PICK n \in Sendable(w) :
        /\ wpc[w] = "send" /\ job[w].p # Nobody /\ IsSock(data.clientFd)
        /\ job' = [job EXCEPT ![w].count = job[w].count + n, ![w].left = @ - n]
        /\ Deliver(data.clientFd, job[w].p, job[w].count, n)
        /\ wpc' = [wpc EXCEPT ![w] = IF job[w].left - n <= 0 THEN "close" ELSE @]
  BY DEF Send, CountAfter, SentAll
<1>2. PICK r : r = job[w]
  OBVIOUS
<1>3. /\ r \in Jobs /\ r.count \in Nat /\ n \in Nat
      /\ r.left \in Nat /\ r.left - n \in Nat /\ r.count + r.left <= Bytes
  BY <1>1, <1>2, SendRange
<1>4. PICK e : e = [r EXCEPT !.count = r.count + n, !.left = r.left - n]
  OBVIOUS
<1>5. e = [p |-> r.p, file |-> r.file, count |-> r.count + n, left |-> r.left - n]
  BY <1>3, <1>4 DEF Jobs
<1>6. /\ e.p = r.p /\ e.file = r.file /\ e.count = r.count + n /\ e.left = r.left - n
  BY <1>5
<1>7. e \in Jobs
  BY <1>3, <1>5 DEF Jobs
<1>8. job' = [job EXCEPT ![w] = e]
  BY <1>1, <1>2, <1>4 DEF TypeInv, WorkersInv
<1>9. e.left \in 0 .. Bytes - e.count
  BY <1>3, <1>6, NumbersAssumption
<1>10. wpc' = [wpc EXCEPT ![w] = IF e.left <= 0 THEN "close" ELSE "send"]
  BY <1>1, <1>2, <1>6
<1> QED BY <1>1, <1>2, <1>6, <1>7, <1>8, <1>9, <1>10

\* How a step may change the queue.
LEMMA QueueStep ==
  ASSUME TypeInv, [Next]_vars
  PROVE  /\ queue' \in Seq({"ensure", "resume"})
         /\ \/ queue' = queue
            \/ HandleEnsure /\ queue' = Append(queue, "ensure")
            \/ HandleResume /\ queue' = Append(queue, "resume")
            \/ \E w \in Workers : Take(w) /\ queue # <<>> /\ queue' = Tail(queue)
            \/ Return /\ queue' = <<>>
<1>0. queue \in Seq({"ensure", "resume"})
  BY DEF TypeInv, WorkersInv
<1>1. CASE HandleEnsure
  <2>1. queue' = Append(queue, "ensure")
    BY <1>1 DEF HandleEnsure, AddTask
  <2> QED BY <1>0, <1>1, <2>1
<1>2. CASE HandleResume
  <2>1. queue' = Append(queue, "resume")
    BY <1>2 DEF HandleResume, AddTask
  <2> QED BY <1>0, <1>2, <2>1
<1>3. ASSUME NEW w \in Workers, Take(w)
      PROVE  queue # <<>> /\ queue' = Tail(queue) /\ queue' \in Seq({"ensure", "resume"})
  BY <1>0, <1>3 DEF Take
<1>4. ASSUME NEW w \in Workers, \/ MapConfirmed(w) \/ MapResumed(w) \/ Send(w)
                                \/ SendNothing(w) \/ SendFails(w) \/ Close(w)
      PROVE  queue' = queue
  BY <1>4 DEF MapConfirmed, MapResumed, Send, SendNothing, SendFails, Close
<1>5. ASSUME NEW c \in Clients, ClientStep(c) \/ Stall(c) PROVE queue' = queue
  BY <1>5 DEF ClientStep, Stall, poolVars
<1>6. ASSUME NEW x \in Fds, RecvFrame(x) PROVE queue' = queue
  BY <1>6 DEF RecvFrame, poolVars
<1>7. CASE Accept \/ ReadHeader \/ ReadBuf \/ HandleNormal \/ FileNotExit \/ Still
  <2>1. queue' = queue
    BY <1>7 DEF Accept, ReadHeader, ReadBuf, HandleNormal, FileNotExit, Still, poolVars
  <2> QED BY <1>0, <2>1
<1>8. CASE Return
  BY <1>8 DEF Return
<1> QED BY <1>0, <1>1, <1>2, <1>3, <1>4, <1>5, <1>6, <1>7, <1>8, NextCases

\* Only its own steps move a thread of the pool.
LEMMA PoolStill ==
  ASSUME [Next]_vars
  PROVE  \/ UNCHANGED <<wpc, job>>
         \/ Return
         \/ \E w \in Workers :
              /\ \/ Take(w) \/ MapConfirmed(w) \/ MapResumed(w) \/ Send(w)
                 \/ SendNothing(w) \/ SendFails(w) \/ Close(w)
              /\ UNCHANGED <<stalled, exited, pipe, data, ppc, overwritten>>
<1>1. ASSUME NEW c \in Clients, ClientStep(c) \/ Stall(c) PROVE UNCHANGED <<wpc, job>>
  BY <1>1 DEF ClientStep, Stall, poolVars
<1>2. ASSUME NEW x \in Fds, RecvFrame(x) PROVE UNCHANGED <<wpc, job>>
  BY <1>2 DEF RecvFrame, poolVars
<1>3. CASE Accept \/ Still
  BY <1>3 DEF Accept, Still, poolVars
<1> QED BY <1>1, <1>2, <1>3, NextCases

\* Where the threads are in their waits.
LEMMA WaitStep ==
  ASSUME TypeInv, [Next]_vars
  PROVE  wait' \in [Workers -> WaitStates]
<1>0. wait \in [Workers -> WaitStates]
  BY DEF TypeInv, WorkersInv
<1>1. ASSUME NEW w \in Workers, NEW s \in WaitStates, wait' = [wait EXCEPT ![w] = s]
      PROVE  wait' \in [Workers -> WaitStates]
  BY <1>0, <1>1
<1>2. ASSUME NEW w \in Workers, Block(w) \/ SpuriousWakeup(w) \/ Take(w)
      PROVE  wait' \in [Workers -> WaitStates]
  <2>1. "awake" \in WaitStates /\ "blocked" \in WaitStates /\ "lost" \in WaitStates
    BY DEF WaitStates
  <2> QED BY <1>0, <1>1, <1>2, <2>1 DEF Block, SpuriousWakeup, Take
<1>3. ASSUME HandleEnsure \/ HandleResume PROVE wait' \in [Workers -> WaitStates]
  <2>1. PICK now \in Waiting : NotifyOne(now)
    BY <1>3 DEF HandleEnsure, HandleResume, AddTask
  <2>2. now \in [Workers -> WaitStates]
    BY <2>1 DEF Waiting
  <2>3. "awake" \in WaitStates /\ "passed" \in WaitStates
    BY DEF WaitStates
  <2> QED BY <2>1, <2>2, <2>3 DEF NotifyOne
<1>4. CASE Return
  BY <1>4 DEF Return, WaitStates
<1>5. ASSUME wait' = wait PROVE wait' \in [Workers -> WaitStates]
  BY <1>0, <1>5
<1>6. ASSUME NEW c \in Clients, ClientStep(c) \/ Stall(c) PROVE wait' = wait
  BY <1>6 DEF ClientStep, Stall, poolVars
<1>7. ASSUME NEW x \in Fds, RecvFrame(x) PROVE wait' = wait
  BY <1>7 DEF RecvFrame, poolVars
<1>8. CASE Accept \/ ReadHeader \/ ReadBuf \/ HandleNormal \/ FileNotExit
  BY <1>5, <1>8 DEF Accept, ReadHeader, ReadBuf, HandleNormal, FileNotExit, poolVars
<1>9. ASSUME NEW w \in Workers, \/ MapConfirmed(w) \/ MapResumed(w) \/ Send(w)
                                \/ SendNothing(w) \/ SendFails(w) \/ Close(w)
      PROVE  wait' = wait
  BY <1>9 DEF MapConfirmed, MapResumed, Send, SendNothing, SendFails, Close
<1> QED BY <1>2, <1>3, <1>4, <1>5, <1>6, <1>7, <1>8, <1>9
        DEF Next, Receive, ParserThread, Parser, Worker, AcceptFails, EpollWaitFails, vars,
            poolVars

LEMMA StepWorkers ==
  ASSUME TypeInv, [Next]_vars
  PROVE  WorkersInv'
<1> DEFINE PoolOK == /\ Workers' = Workers
                     /\ \E n \in Pools : wpc' \in [1 .. n -> Places]
                     /\ job' \in [Workers' -> Jobs]
                     /\ \A v \in Workers' : job'[v].p # Nobody
                                              => job'[v].left \in 0 .. Bytes - job'[v].count
<1>0. /\ \E n \in Pools : wpc \in [1 .. n -> Places]
      /\ job \in [Workers -> Jobs]
      /\ \A v \in Workers : job[v].p # Nobody => job[v].left \in 0 .. Bytes - job[v].count
  BY DEF TypeInv, WorkersInv, Places
<1>1. ASSUME NEW w \in Workers, job' = job, NEW there \in Places, wpc' = [wpc EXCEPT ![w] = there]
      PROVE  PoolOK
  <2>1. Workers' = Workers /\ \E n \in Pools : wpc' \in [1 .. n -> Places]
    BY <1>1, WpcSet
  <2> QED BY <1>0, <1>1, <2>1
<1>2. ASSUME NEW w \in Workers, NEW e \in Jobs, job' = [job EXCEPT ![w] = e],
             e.p # Nobody => e.left \in 0 .. Bytes - e.count,
             NEW there \in Places, wpc' = [wpc EXCEPT ![w] = there]
      PROVE  PoolOK
  <2>1. Workers' = Workers /\ \E n \in Pools : wpc' \in [1 .. n -> Places]
    BY <1>2, WpcSet
  <2> QED BY <1>2, <2>1, JobSet
<1>3. ASSUME UNCHANGED <<wpc, job>> PROVE PoolOK
  BY <1>0, <1>3 DEF Workers
<1> HIDE DEF PoolOK
<1>4. ASSUME NEW w \in Workers,
             \/ Take(w) \/ MapConfirmed(w) \/ MapResumed(w) \/ Send(w)
             \/ SendNothing(w) \/ SendFails(w) \/ Close(w)
      PROVE  PoolOK
  <2>1. CASE Take(w)
    <3>1. queue # <<>> /\ job' = job /\ wpc' = [wpc EXCEPT ![w] = Head(queue)]
      BY <2>1 DEF Take, GoTo
    <3>2. Head(queue) \in Places
      BY <3>1 DEF TypeInv, WorkersInv, Places
    <3> QED BY <1>1, <3>1, <3>2
  <2>2. CASE SendNothing(w) \/ SendFails(w)
    <3>1. job' = job /\ wpc' = [wpc EXCEPT ![w] = "close"] /\ "close" \in Places
      BY <2>2 DEF SendNothing, SendFails, GoTo, Places
    <3> QED BY <1>1, <3>1
  <2>3. CASE MapConfirmed(w) \/ MapResumed(w)
    <3>1. wpc' = [wpc EXCEPT ![w] = "send"] /\ "send" \in Places
      BY <2>3 DEF MapConfirmed, MapResumed, GoTo, Places
    <3>2. PICK e \in Jobs : /\ job' = [job EXCEPT ![w] = e]
                            /\ e.p # Nobody => e.left \in 0 .. Bytes - e.count
      BY <2>3, MapMeans
    <3> QED BY <1>2, <3>1, <3>2
  <2>4. CASE Send(w)
    <3>1. PICK n \in Sendable(w), e \in Jobs :
            /\ job' = [job EXCEPT ![w] = e] /\ e.left \in 0 .. Bytes - e.count
            /\ wpc' = [wpc EXCEPT ![w] = IF e.left <= 0 THEN "close" ELSE "send"]
      BY <2>4, SendMeans
    <3>2. "close" \in Places /\ "send" \in Places
      BY DEF Places
    <3>3. PICK there \in Places : wpc' = [wpc EXCEPT ![w] = there]
      BY <3>1, <3>2
    <3> QED BY <1>2, <3>1, <3>3
  <2>5. CASE Close(w)
    <3>1. /\ job' = [job EXCEPT ![w] = NoJob]
          /\ wpc' = [wpc EXCEPT ![w] = "idle"] /\ "idle" \in Places
      BY <2>5 DEF Close, GoTo, Places
    <3>2. NoJob \in Jobs /\ NoJob.p = Nobody
      BY DEF NoJob, Jobs, NoFd
    <3> QED BY <1>2, <3>1, <3>2
  <2> QED BY <1>4, <2>1, <2>2, <2>3, <2>4, <2>5
<1>5. ASSUME Return PROVE PoolOK
  <2>1. wpc' = [w \in Workers |-> "idle"] /\ job' = [w \in Workers |-> NoJob]
    BY <1>5 DEF Return
  <2>2. PICK n \in Pools : wpc \in [1 .. n -> Places]
    BY <1>0
  <2>3. Workers = 1 .. n /\ Workers' = Workers /\ "idle" \in Places
    BY <2>1, <2>2 DEF Workers, Places
  <2>4. NoJob \in Jobs /\ NoJob.p = Nobody
    BY DEF NoJob, Jobs, NoFd
  <2> QED BY <2>1, <2>2, <2>3, <2>4 DEF PoolOK
<1>6. PoolOK
  BY <1>3, <1>4, <1>5, PoolStill
<1>7. queue' \in Seq({"ensure", "resume"})
  BY QueueStep
<1>8. wait' \in [Workers -> WaitStates]
  BY WaitStep
<1> QED BY <1>6, <1>7, <1>8 DEF WorkersInv, PoolOK, Places, Jobs

\* Only the parser reads into data, and only it adds transfers.
LEMMA InUseStep ==
  ASSUME TypeInv, [Next]_vars
  PROVE  /\ InUse' => InUse \/ HandleEnsure \/ HandleResume
         /\ data' = data \/ ReadHeader \/ ReadBuf \/ Return
         /\ Return => ~InUse'
         /\ HandleEnsure \/ HandleResume => UNCHANGED <<data, wpc, job, exited, overwritten>>
<1>0. \/ UNCHANGED <<wpc, job>>
      \/ Return
      \/ \E w \in Workers :
           \/ Take(w) \/ MapConfirmed(w) \/ MapResumed(w) \/ Send(w)
           \/ SendNothing(w) \/ SendFails(w) \/ Close(w)
  BY PoolStill
<1>1. ASSUME NEW w \in Workers,
             \/ Take(w) \/ MapConfirmed(w) \/ MapResumed(w) \/ Send(w)
             \/ SendNothing(w) \/ SendFails(w) \/ Close(w)
      PROVE  InUse
  <2>1. CASE Take(w)
    BY <2>1 DEF Take, InUse
  <2>2. CASE ~Take(w)
    <3>1. wpc[w] # "idle"
      BY <1>1, <2>2 DEF MapConfirmed, MapResumed, Send, SendNothing, SendFails, Close, GoTo
    <3> QED BY <3>1 DEF InUse
  <2> QED BY <2>1, <2>2
<1>2. ASSUME UNCHANGED <<wpc, job>>, InUse'
      PROVE  InUse \/ HandleEnsure \/ HandleResume
  <2>1. \/ queue' = queue \/ HandleEnsure \/ HandleResume \/ \E w \in Workers : Take(w)
        \/ queue' = <<>>
    BY QueueStep
  <2>2. queue' = queue \/ queue' = <<>> => InUse
    BY <1>2 DEF InUse, Workers
  <2> QED BY <1>1, <2>1, <2>2
<1>3. data' = data \/ ReadHeader \/ ReadBuf \/ Return
  <2>1. ASSUME NEW c \in Clients, ClientStep(c) \/ Stall(c) PROVE data' = data
    BY <2>1 DEF ClientStep, Stall, parserVars
  <2>2. ASSUME NEW x \in Fds, RecvFrame(x) PROVE data' = data
    BY <2>2 DEF RecvFrame
  <2>3. CASE Accept \/ Still
    BY <2>3 DEF Accept, Still, parserVars
  <2>4. CASE HandleNormal \/ FileNotExit \/ HandleEnsure \/ HandleResume
    BY <2>4 DEF HandleNormal, FileNotExit, HandleEnsure, HandleResume, Handle
  <2> QED BY <2>1, <2>2, <2>3, <2>4, NextCases
<1>4. ASSUME HandleEnsure \/ HandleResume
      PROVE  UNCHANGED <<data, wpc, job, exited, overwritten>>
  <2>1. UNCHANGED <<data, overwritten>> /\ ppc = "handle" /\ ppc' = "read" /\ queue' # <<>>
    BY <1>4 DEF HandleEnsure, HandleResume, Handle, AddTask, TypeInv, WorkersInv
  <2>2. ASSUME NEW c \in Clients, ClientStep(c) \/ Stall(c) PROVE ppc' = ppc
    BY <2>2 DEF ClientStep, Stall, parserVars
  <2>3. ASSUME NEW x \in Fds, RecvFrame(x) PROVE ppc' = ppc
    BY <2>3 DEF RecvFrame
  <2>4. (Accept \/ Still => ppc' = ppc) /\ (Return => queue' = <<>>)
    BY DEF Accept, Return, Still, parserVars
  <2>5. UNCHANGED <<stalled, exited, wpc, job>>
    BY <2>1, <2>2, <2>3, <2>4, NextCases
  <2> QED BY <2>1, <2>5
<1>5. Return => ~InUse'
  BY DEF Return, InUse, Workers
<1> QED BY <1>0, <1>1, <1>2, <1>3, <1>4, <1>5

LEMMA RealStep ==
  ASSUME TypeInv, [Next]_vars, InUse'
  PROVE  Real(data.buf)'
<1>1. \A buf : Real(buf)' <=> Real(buf)
  BY StepPeers, FrameKept
<1>2. PICK b : b = data'.buf
  OBVIOUS
<1>3. CASE ReadBuf
  <2>1. IsFrame(data')
    BY <1>3, ReadMeans
  <2>2. Real(b)
    BY <1>2, <2>1 DEF IsFrame
  <2> QED BY <1>1, <1>2, <2>2 DEF Real, Requests
<1>4. CASE ~ReadBuf
  <2>1. data'.buf = data.buf
    BY <1>4, InUseStep, ReadMeans
  <2>2. CASE InUse
    <3>1. Real(b)
      BY <1>2, <2>1, <2>2 DEF TypeInv
    <3> QED BY <1>1, <1>2, <3>1 DEF Real, Requests
  <2>3. CASE HandleEnsure \/ HandleResume
    <3>1. ppc = "handle"
      BY <2>3 DEF HandleEnsure, HandleResume, Handle
    <3>2. Real(b)
      BY <1>2, <2>1, <3>1 DEF TypeInv, ParserInv, IsFrame
    <3> QED BY <1>1, <1>2, <3>2 DEF Real, Requests
  <2> QED BY <2>2, <2>3, InUseStep
<1> QED BY <1>3, <1>4

\* Only a send brings bytes, to a client that has been accepted.
LEMMA GotStep ==
  ASSUME TypeInv, ConnInv, [Next]_vars
  PROVE  /\ accepted \subseteq accepted'
         /\ \A c \in Clients : got'[c] # <<>> => got[c] # <<>> \/ c \in accepted
<1>0. PeersTypeOK
  BY DEF TypeInv
<1>1. ASSUME NEW w \in Workers, Send(w)
      PROVE  /\ accepted' = accepted
             /\ \A c \in Clients : got'[c] # <<>> => got[c] # <<>> \/ c \in accepted
  <2>1. PICK n \in Sendable(w) : /\ IsSock(data.clientFd)
                                 /\ Deliver(data.clientFd, job[w].p, job[w].count, n)
    BY <1>1, SendMeans
  <2>2. PICK o \in Clients : o = Owner(data.clientFd) /\ table[data.clientFd] = Sock(o)
                             /\ data.clientFd \in Fds
    BY <1>0, <2>1, SockMeans
  <2>3. o \in accepted
    BY <2>2 DEF ConnInv
  <2>4. \A c \in Clients : c = o \/ got'[c] = got[c]
    BY <1>0, <2>1, <2>2 DEF Deliver, PeersTypeOK
  <2>5. accepted' = accepted
    BY <1>1 DEF Send
  <2> QED BY <2>3, <2>4, <2>5
<1>2. ASSUME NEW c \in Clients, ClientStep(c) \/ Stall(c) PROVE UNCHANGED <<accepted, got>>
  BY <1>2 DEF ClientStep, Stall, Connect, Confirm, Leave, peerVars
<1>3. ASSUME NEW x \in Fds, RecvFrame(x) PROVE UNCHANGED <<accepted, got>>
  BY <1>3 DEF RecvFrame, TakeFrame
<1>4. CASE Accept
  BY <1>4 DEF Accept, TakeConnection
<1>5. CASE Return \/ ReadHeader \/ ReadBuf \/ HandleNormal \/ FileNotExit
           \/ HandleEnsure \/ HandleResume \/ Still
  <2>1. UNCHANGED <<accepted, got>>
    BY <1>5 DEF Return, ReadHeader, ReadBuf, HandleNormal, FileNotExit, HandleEnsure,
                HandleResume, Handle, Still, peerVars
  <2> QED BY <2>1
<1>6. ASSUME NEW w \in Workers, \/ Take(w) \/ MapConfirmed(w) \/ MapResumed(w)
                                \/ SendNothing(w) \/ SendFails(w) \/ Close(w)
      PROVE  UNCHANGED <<accepted, got>>
  BY <1>6 DEF Take, MapConfirmed, MapResumed, SendNothing, SendFails, Close, peerVars
<1> QED BY <1>1, <1>2, <1>3, <1>4, <1>5, <1>6, NextCases

LEMMA TypeStep ==
  ASSUME TypeInv, ConnInv, [Next]_vars
  PROVE  TypeInv'
<1>1. PeersTypeOK'
  BY StepPeers
<1>2. ParserInv'
  BY StepParser
<1>3. WorkersInv'
  BY StepWorkers
<1>4. InUse' => Real(data.buf)'
  BY RealStep
<1>5. accepted \subseteq accepted' /\ \A c \in Clients : got'[c] # <<>> => c \in accepted'
  BY GotStep DEF TypeInv
<1>6. exited' \in BOOLEAN /\ overwritten' \in BOOLEAN /\ stalled' \subseteq accepted'
  <2>1. /\ exited \in BOOLEAN /\ overwritten \in BOOLEAN /\ stalled \subseteq accepted
        /\ (InUse \in BOOLEAN)
    BY DEF TypeInv, InUse
  <2>2. ASSUME NEW c \in Clients, Stall(c) PROVE c \in accepted
    BY <2>2 DEF TypeInv, Stall
  <2>3. \/ stalled' = stalled
        \/ \E c \in Clients : c \in accepted /\ stalled' = stalled \cup {c}
    <3>1. ASSUME NEW c \in Clients, ClientStep(c) PROVE stalled' = stalled
      BY <3>1 DEF ClientStep
    <3>2. ASSUME NEW c \in Clients, Stall(c) PROVE c \in accepted /\ stalled' = stalled \cup {c}
      BY <2>2, <3>2 DEF Stall
    <3>3. ASSUME NEW x \in Fds, RecvFrame(x) PROVE stalled' = stalled
      BY <3>3 DEF RecvFrame
    <3>4. CASE Accept \/ Return \/ Still
      BY <3>4 DEF Accept, Return, Still
    <3> QED BY <3>1, <3>2, <3>3, <3>4, NextCases
  <2>4. exited' = exited \/ exited' = TRUE
    <3>1. ASSUME NEW c \in Clients, ClientStep(c) \/ Stall(c) PROVE exited' = exited
      BY <3>1 DEF ClientStep, Stall
    <3>2. ASSUME NEW x \in Fds, RecvFrame(x) PROVE exited' = exited
      BY <3>2 DEF RecvFrame
    <3>3. CASE Accept \/ Return \/ Still
      BY <3>3 DEF Accept, Return, Still
    <3> QED BY <3>1, <3>2, <3>3, NextCases
  <2>5. overwritten' = overwritten \/ ReadHeader
    <3>1. ASSUME NEW c \in Clients, ClientStep(c) \/ Stall(c) PROVE overwritten' = overwritten
      BY <3>1 DEF ClientStep, Stall, parserVars
    <3>2. ASSUME NEW x \in Fds, RecvFrame(x) PROVE overwritten' = overwritten
      BY <3>2 DEF RecvFrame
    <3>3. CASE Accept \/ Return \/ Still
      BY <3>3 DEF Accept, Return, Still, parserVars
    <3>4. CASE ReadBuf \/ HandleNormal \/ FileNotExit \/ HandleEnsure \/ HandleResume
      BY <3>4 DEF ReadBuf, HandleNormal, FileNotExit, HandleEnsure, HandleResume, Handle
    <3> QED BY <3>1, <3>2, <3>3, <3>4, NextCases
  <2>6. ReadHeader => overwritten' \in BOOLEAN
    BY DEF ReadHeader
  <2>7. overwritten' \in BOOLEAN
    BY <2>1, <2>5, <2>6, Zenon
  <2>8. exited' \in BOOLEAN
    BY <2>1, <2>4, Zenon
  <2>9. stalled' \subseteq accepted'
    BY <1>5, <2>1, <2>3
  <2> QED BY <2>7, <2>8, <2>9
<1> QED BY <1>1, <1>2, <1>3, <1>4, <1>5, <1>6 DEF TypeInv
-----------------------------------------------------------------------------
(* The table and the connections.                                          *)

(***************************************************************************)
(* How a step may change the table: accept takes a free number for a       *)
(* socket, open one for a file, and the others only close.                 *)
(***************************************************************************)
Opens == \E x \in Fds : \E p \in Clients :
           table[x] = Free /\ table' = [table EXCEPT ![x] = File(p)]

LEMMA OpenOpens ==
  ASSUME PeersTypeOK, NEW p \in Clients, NEW x \in Numbers, Open(p, x)
  PROVE  table' = table \/ Opens
BY OpenTyped DEF Opens

LEMMA StepTable ==
  ASSUME TypeInv, [Next]_vars
  PROVE  Accept \/ Return \/ table' = table \/ Opens \/ \E w \in Workers : Close(w)
<1>0. PeersTypeOK
  BY DEF TypeInv
<1>1. ASSUME NEW c \in Clients, ClientStep(c) \/ Stall(c) PROVE table' = table
  BY <1>1 DEF ClientStep, Connect, Confirm, Leave, Stall, peerVars
<1>2. ASSUME NEW x \in Fds, RecvFrame(x) PROVE table' = table
  BY <1>2 DEF RecvFrame, TakeFrame
<1>3. CASE ReadHeader \/ ReadBuf \/ FileNotExit \/ HandleEnsure \/ HandleResume \/ Still
  <2>1. table' = table
    BY <1>3 DEF ReadHeader, ReadBuf, FileNotExit, HandleEnsure, HandleResume, Still, peerVars
  <2> QED BY <2>1
<1>4. CASE HandleNormal
  <2>1. data.buf[2] \in Clients
    BY <1>4 DEF HandleNormal, Handle, TypeInv, ParserInv, IsFrame, Real
  <2>2. \E x \in Numbers : Open(data.buf[2], x)
    BY <1>4 DEF HandleNormal
  <2> QED BY <1>0, <2>1, <2>2, OpenOpens
<1>5. ASSUME NEW w \in Workers, MapResumed(w) PROVE table' = table \/ Opens
  <2>1. /\ Real(data.buf)
        /\ \/ UNCHANGED table
           \/ \E x \in Numbers : Open(data.buf[2], x)
    <3>1. Real(data.buf)
      BY <1>5, MapMeans
    <3> QED BY <1>5, <3>1 DEF MapResumed
  <2> QED BY <1>0, <2>1, OpenOpens DEF Real
<1>6. ASSUME NEW w \in Workers, \/ Take(w) \/ MapConfirmed(w) \/ Send(w)
                                \/ SendNothing(w) \/ SendFails(w)
      PROVE  table' = table
  BY <1>6 DEF Take, MapConfirmed, Send, SendNothing, SendFails, peerVars
<1> HIDE DEF Opens
<1> QED BY <1>1, <1>2, <1>3, <1>4, <1>5, <1>6, NextCases

\* What was opened takes no number that was in use.
LEMMA OpensMeans ==
  ASSUME PeersTypeOK, Opens
  PROVE  \A y \in Fds : \/ table'[y] = table[y]
                        \/ table[y] = Free /\ \E p \in Clients : table'[y] = File(p)
<1>1. PICK x \in Fds, p \in Clients :
        table[x] = Free /\ table' = [table EXCEPT ![x] = File(p)]
  BY DEF Opens
<1>2. File(p) \in Owners
  BY DEF Owners
<1>3. table'[x] = File(p) /\ \A y \in Fds : y # x => table'[y] = table[y]
  BY <1>1, <1>2, TableAfter
<1> QED BY <1>1, <1>3

LEMMA AcceptMeans ==
  ASSUME PeersTypeOK, TakeConnection
  PROVE  \A y \in Fds : \/ table'[y] = table[y]
                        \/ table[y] = Free /\ \E p \in Clients : table'[y] = Sock(p)
<1> DEFINE x == LowestFree
           c == Head(backlog)
<1>1. x \in Fds /\ table[x] = Free /\ table' = [table EXCEPT ![x] = Sock(c)]
  BY LowestFreeIsFree DEF TakeConnection
<1>2. c \in Clients
  BY DEF TakeConnection, PeersTypeOK
<1> HIDE DEF x, c
<1>3. Sock(c) \in Owners
  BY <1>2 DEF Owners
<1>4. table'[x] = Sock(c) /\ \A y \in Fds : y # x => table'[y] = table[y]
  BY <1>1, <1>3, TableAfter
<1> QED BY <1>1, <1>2, <1>4

\* Except for accept, a step makes no sockets.
LEMMA StepSocks ==
  ASSUME TypeInv, [Next]_vars, ~Accept
  PROVE  \A x \in Fds : \A c \in Clients : table'[x] = Sock(c) => table[x] = Sock(c)
<1>0. PeersTypeOK
  BY DEF TypeInv
<1>1. \A p, q : Sock(p) # File(q) /\ Sock(p) # Free
  BY Kinds
<1>2. CASE Opens
  BY <1>0, <1>1, <1>2, OpensMeans
<1>3. ASSUME NEW S, table' = Closed(S)
      PROVE  \A x \in Fds : \A c \in Clients : table'[x] = Sock(c) => table[x] = Sock(c)
  BY <1>0, <1>1, <1>3, TableClosed
<1>4. CASE Return \/ \E w \in Workers : Close(w)
  BY <1>3, <1>4 DEF Return, Close
<1> QED BY <1>2, <1>4, StepTable

(***************************************************************************)
(* Nobody goes back to being away, and only one who is not can leave.      *)
(***************************************************************************)
LEMMA StepClients ==
  ASSUME TypeInv, [Next]_vars, \A c \in Clients : ~Connect(c)
  PROVE  /\ from' = from /\ (~Accept => UNCHANGED <<accepted, backlog>>)
         /\ \A c \in Clients : phase'[c] = "away" => phase[c] = "away" /\ (c \in gone' => c \in gone)
<1> DEFINE Keeps == \A c \in Clients :
                      phase'[c] = "away" => phase[c] = "away" /\ (c \in gone' => c \in gone)
           Goal == from' = from /\ (~Accept => UNCHANGED <<accepted, backlog>>) /\ Keeps
<1> SUFFICES Goal
  OBVIOUS
<1>0. PeersTypeOK
  BY DEF TypeInv
<1>1. ASSUME UNCHANGED <<accepted, backlog, from, phase, gone>> PROVE Goal
  BY <1>1
<1>2. ASSUME NEW c \in Clients, ClientStep(c) PROVE Goal
  BY <1>0, <1>2 DEF ClientStep, Confirm, Leave, PeersTypeOK
<1>3. ASSUME NEW x, NEW to \in {"refused", "offered", "receiving"}, NEW n,
             Reply(x, to, n), UNCHANGED <<accepted, backlog, from, gone>>
      PROVE  Goal
  BY <1>0, <1>3, ReplyKeeps
<1>4. CASE Accept
  BY <1>4 DEF Accept, TakeConnection
<1> HIDE DEF Goal
<1>5. CASE HandleNormal \/ FileNotExit \/ HandleResume
  <2>1. UNCHANGED <<accepted, backlog, from, gone>>
    BY <1>5 DEF HandleNormal, FileNotExit, HandleResume, Handle
  <2>2. \E to \in {"refused", "offered", "receiving"} : \E n : Reply(data.clientFd, to, n)
    BY <1>5 DEF HandleNormal, FileNotExit, HandleResume
  <2> QED BY <1>3, <2>1, <2>2
<1>6. CASE Return \/ ReadHeader \/ ReadBuf \/ HandleEnsure \/ Still
  <2>1. UNCHANGED <<accepted, backlog, from, phase, gone>>
    BY <1>6 DEF Return, ReadHeader, ReadBuf, HandleEnsure, Handle, Still, peerVars
  <2> QED BY <1>1, <2>1
<1>7. ASSUME NEW x \in Fds, RecvFrame(x)
      PROVE  UNCHANGED <<accepted, backlog, from, phase, gone>>
  BY <1>7 DEF RecvFrame, TakeFrame
<1>8. ASSUME NEW w \in Workers, \/ Take(w) \/ MapConfirmed(w) \/ MapResumed(w) \/ Send(w)
                                \/ SendNothing(w) \/ SendFails(w) \/ Close(w)
      PROVE  UNCHANGED <<accepted, backlog, from, phase, gone>>
  BY <1>8 DEF Take, MapConfirmed, MapResumed, Send, SendNothing, SendFails, Close, peerVars
<1>9. ASSUME NEW c \in Clients, Stall(c) PROVE UNCHANGED <<accepted, backlog, from, phase, gone>>
  BY <1>9 DEF Stall, peerVars
<1> QED BY <1>1, <1>2, <1>4, <1>5, <1>6, <1>7, <1>8, <1>9, NextCases

LEMMA ConnStep ==
  ASSUME TypeInv, ConnInv, [Next]_vars
  PROVE  ConnInv'
<1>0. PeersTypeOK /\ Fds' = Fds
  BY StepPeers DEF TypeInv
<1>1. ASSUME NEW c \in Clients, Connect(c) PROVE ConnInv'
  BY <1>0, <1>1, ConnectConn
<1>2. CASE Accept
  BY <1>0, <1>2, AcceptConn DEF Accept
<1>3. CASE ~Accept /\ \A c \in Clients : ~Connect(c)
  <2>1. /\ UNCHANGED <<accepted, backlog>>
        /\ \A c \in Clients : phase'[c] = "away" => phase[c] = "away" /\ (c \in gone' => c \in gone)
    BY <1>3, StepClients
  <2>2. \A x \in Fds : \A c \in Clients : table'[x] = Sock(c) => table[x] = Sock(c)
    BY <1>3, StepSocks
  <2> QED BY <1>0, <2>1, <2>2, OtherConn
<1> QED BY <1>1, <1>2, <1>3
-----------------------------------------------------------------------------
(* One transfer at a time.                                                 *)

(***************************************************************************)
(* A step that is about one client leaves the others as they are.          *)
(***************************************************************************)
Keeps(c) ==
  /\ \A x : FileOf(c, x) => FileOf(c, x)'
  /\ \A x \in Fds : table[x] = Sock(c) => table'[x] = Sock(c)

Undisturbed(c) ==
  /\ phase'[c] = phase[c] /\ told'[c] = told[c] /\ rx'[c] = rx[c]
  /\ from'[c] = from[c] /\ got'[c] = got[c]
  /\ Keeps(c)

LEMMA UndisturbedRequest ==
  ASSUME NEW c, Undisturbed(c)
  PROVE  \A fn, arg : Request(c, fn, arg) => Request(c, fn, arg)'
BY DEF Undisturbed, Keeps, Request, StartOf

LEMMA UndisturbedClient ==
  ASSUME NEW c, Undisturbed(c), ClientInv(c)
  PROVE  ClientInv(c)'
<1>1. PICK t : t = told[c] /\ t = told'[c]
  BY DEF Undisturbed
<1>2. PICK fn : fn = rx[c][1] /\ fn = rx'[c][1]
  BY DEF Undisturbed
<1>3. PICK arg : arg = rx[c][2] /\ arg = rx'[c][2]
  BY DEF Undisturbed
<1>4. /\ phase'[c] \in {"away", "offered"} => got'[c] = <<>> /\ from'[c] = 0
      /\ phase'[c] = "offered" => FileOf(c, t)'
      /\ InSocket(c)' => Request(c, fn, arg)'
  <2>1. InSocket(c)' => InSocket(c)
    BY DEF InSocket, Undisturbed, NoFrame
  <2>2. Request(c, fn, arg) => Request(c, fn, arg)'
    BY UndisturbedRequest
  <2>3. FileOf(c, t) => FileOf(c, t)'
    BY DEF Undisturbed, Keeps
  <2> QED BY <1>1, <1>2, <1>3, <2>1, <2>2, <2>3 DEF ClientInv, Undisturbed
<1>5. phase'[c] = "offered" => FileOf(c, told[c])'
  BY <1>1, <1>4 DEF FileOf, NoFd, File
<1>6. InSocket(c)' => Request(c, rx[c][1], rx[c][2])'
  BY <1>2, <1>3, <1>4 DEF Request, StartOf, FileOf, NoFd, File
<1> QED BY <1>4, <1>5, <1>6 DEF ClientInv

LEMMA UndisturbedFrame ==
  ASSUME NEW f, IsFrame(f), Undisturbed(f.buf[2]), FrameInv(f)
  PROVE  FrameInv(f)'
<1>1. Request(f.buf[2], f.buf[1], f.buf[3])'
  BY UndisturbedRequest DEF FrameInv
<1>2. table'[f.clientFd] = Sock(f.buf[2])
  BY DEF FrameInv, IsFrame, Undisturbed, Keeps
<1> QED BY <1>1, <1>2 DEF FrameInv, Sock

(***************************************************************************)
(* So for RequestInv it is enough to look at the others.                   *)
(***************************************************************************)
LEMMA RequestStep ==
  ASSUME TypeInv, RequestInv, NEW T,
         \A d \in Clients \ T : Undisturbed(d),
         \A d \in T : ClientInv(d)',
         \A f \in Elems(pipe') : FrameInv(f)' \/ (f \in Elems(pipe) /\ f.buf[2] \notin T),
         ppc' = "handle" => FrameInv(data)'
  PROVE  RequestInv'
<1>1. ASSUME NEW d \in Clients PROVE ClientInv(d)'
  BY UndisturbedClient DEF RequestInv
<1>2. ASSUME NEW f \in Elems(pipe') PROVE FrameInv(f)'
  <2>1. CASE f \in Elems(pipe) /\ f.buf[2] \notin T
    <3>1. IsFrame(f) /\ FrameInv(f)
      BY <2>1 DEF TypeInv, ParserInv, RequestInv
    <3>2. f.buf[2] \in Clients \ T
      BY <2>1, <3>1 DEF IsFrame, Real
    <3> QED BY <3>1, <3>2, UndisturbedFrame
  <2> QED BY <2>1
<1> QED BY <1>1, <1>2 DEF RequestInv, Elems

(***************************************************************************)
(* The pipe's records and what is in them.                                 *)
(***************************************************************************)
InPlace(c) == /\ InSocket(c) => ~InPipe(c) /\ ~InHand(c) /\ ~InTask(c)
              /\ InPipe(c) => ~InHand(c) /\ ~InTask(c)

Single(s) == \A i, j \in DOMAIN s : s[i].buf[2] = s[j].buf[2] => i = j

LEMMA PlaceStep ==
  ASSUME OnePlace, NEW T, Single(pipe'),
         \A d \in Clients \ T : /\ InSocket(d)' => InSocket(d)
                                /\ InPipe(d)' => InPipe(d)
                                /\ InHand(d)' => InHand(d)
                                /\ InTask(d)' => InTask(d),
         \A d \in T : InPlace(d)'
  PROVE  OnePlace'
<1>1. ASSUME NEW d \in Clients PROVE InPlace(d)'
  BY DEF OnePlace, InPlace
<1>2. /\ \A i, j \in DOMAIN pipe' : pipe'[i].buf[2] = pipe'[j].buf[2] => i = j
      /\ \A d \in Clients : /\ InSocket(d)' => ~InPipe(d)' /\ ~InHand(d)' /\ ~InTask(d)'
                            /\ InPipe(d)' => ~InHand(d)' /\ ~InTask(d)'
  BY <1>1 DEF InPlace, Single
<1> QED BY <1>2 DEF OnePlace

\* The threads whose job and place do not change, and their client's state.
LEMMA UndisturbedTask ==
  ASSUME NEW c, Undisturbed(c), gone \subseteq gone', data'.buf = data.buf
  PROVE  /\ \A kind : Waits(kind, c) => Waits(kind, c)'
         /\ \A w : Runs(w, c) /\ wpc'[w] = wpc[w] /\ job'[w] = job[w] => Runs(w, c)'
<1>1. ASSUME NEW kind, Waits(kind, c) PROVE Waits(kind, c)'
  <2>1. PICK x : x = data.buf[3] /\ x = data'.buf[3]
    OBVIOUS
  <2>2. /\ data'.buf[1] = IF kind = "ensure" THEN "Ensure" ELSE "Resume"
        /\ got'[c] = <<>> /\ from'[c] = StartOf(data'.buf[1], data'.buf[3])
        /\ kind = "ensure" => FileOf(c, x)'
    BY <1>1, <2>1 DEF Waits, Undisturbed, Keeps, StartOf
  <2> QED BY <2>1, <2>2 DEF Waits, StartOf, FileOf, NoFd, File
<1>2. ASSUME NEW w, Runs(w, c), wpc'[w] = wpc[w], job'[w] = job[w] PROVE Runs(w, c)'
  <2>1. PICK x : x = job[w].file /\ x = job'[w].file
    BY <1>2
  <2>2. FileOf(c, x)'
    BY <1>2, <2>1 DEF Runs, Undisturbed, Keeps
  <2>3. FileOf(c, job[w].file)'
    BY <2>1, <2>2 DEF FileOf, NoFd, File
  <2> QED BY <1>2, <2>3 DEF Runs, Undisturbed, NoFd, Nobody
<1> QED BY <1>1, <1>2

LEMMA KeepsIf ==
  ASSUME Fds' = Fds, unopened \subseteq unopened', NEW c,
         \A y \in Fds : table'[y] = table[y] \/ (table[y] # Sock(c) /\ table[y] # File(c))
  PROVE  Keeps(c)
<1>1. ASSUME NEW x, FileOf(c, x) PROVE FileOf(c, x)'
  BY <1>1 DEF FileOf, NoFd, File
<1> QED BY <1>1 DEF Keeps

LEMMA AllKept ==
  ASSUME PeersTypeOK, unopened \subseteq unopened', table' = table \/ Opens \/ TakeConnection
  PROVE  \A c : Keeps(c)
<1>1. \A y \in Fds : table'[y] = table[y] \/ table[y] = Free
  BY OpensMeans, AcceptMeans
<1>2. Fds' = Fds
  BY TableSame, PeersStepTyped, TableAfter DEF Opens, Owners
<1> QED BY <1>1, <1>2, KeepsIf, Kinds

LEMMA IdleMeans ==
  ASSUME ~InUse
  PROVE  /\ queue = <<>> /\ \A w \in Workers : wpc[w] = "idle"
         /\ \A c : ~InTask(c)
BY DEF InUse, InTask

LEMMA IdleTask ==
  ASSUME ~InUse'
  PROVE  TaskInv' /\ OneTask'
<1>1. queue' = <<>> /\ \A w \in Workers' : wpc'[w] = "idle"
  BY DEF InUse
<1>2. Elems(queue') = {} /\ Len(queue') = 0
  BY <1>1 DEF Elems
<1>3. TaskInv'
  BY <1>1, <1>2 DEF TaskInv, Elems
<1>4. OneTask'
  BY <1>1, <1>2 DEF OneTask
<1> QED BY <1>3, <1>4

LEMMA TaskSame ==
  ASSUME TypeInv, TaskInv, UNCHANGED <<queue, wpc, job>>, gone \subseteq gone', Fds' = Fds,
         InUse => data' = data /\ Undisturbed(data.buf[2])
  PROVE  TaskInv'
<1>1. CASE ~InUse
  <2>1. ~InUse'
    BY <1>1 DEF InUse, Workers
  <2> QED BY <2>1, IdleTask
<1>2. CASE InUse
  <2>1. PICK c : c = data.buf[2] /\ c = data'.buf[2]
    BY <1>2
  <2>2. /\ data' = data /\ Undisturbed(c) /\ Workers' = Workers
    BY <1>2, <2>1 DEF Workers
  <2>3. /\ phase[c] = "receiving" /\ table[data.clientFd] = Sock(c) /\ data.clientFd \in Fds
        /\ \A kind \in Elems(queue) : Waits(kind, c)
        /\ \A w \in Workers :
             /\ wpc[w] \in {"ensure", "resume"} => Waits(wpc[w], c)
             /\ wpc[w] \in {"send", "close"} => Runs(w, c)
    BY <1>2, <2>1 DEF TaskInv
  <2>4. /\ \A kind : Waits(kind, c) => Waits(kind, c)'
        /\ \A w : Runs(w, c) => Runs(w, c)'
    BY <2>2, UndisturbedTask
  <2>5. phase'[c] = "receiving" /\ table'[data'.clientFd] = Sock(c) /\ data'.clientFd \in Fds'
    BY <2>2, <2>3 DEF Undisturbed, Keeps
  <2>6. ASSUME NEW kind \in Elems(queue) PROVE Waits(kind, data.buf[2])'
    <3>1. Waits(kind, c)'
      BY <2>3, <2>4, <2>6
    <3> QED BY <2>1, <3>1 DEF Waits, FileOf, StartOf, NoFd, File
  <2>7. ASSUME NEW w \in Workers
        PROVE  /\ wpc'[w] \in {"ensure", "resume"} => Waits(wpc[w], data.buf[2])'
               /\ wpc'[w] \in {"send", "close"} => Runs(w, data.buf[2])'
    <3>1. PICK kind : kind = wpc[w] /\ kind = wpc'[w]
      OBVIOUS
    <3>2. /\ kind \in {"ensure", "resume"} => Waits(kind, c)'
          /\ kind \in {"send", "close"} => Runs(w, c)'
      BY <2>3, <2>4, <2>7, <3>1
    <3>3. kind \in {"ensure", "resume"} => Waits(wpc[w], data.buf[2])'
      BY <2>1, <3>1, <3>2 DEF Waits, FileOf, StartOf, NoFd, File
    <3>4. kind \in {"send", "close"} => Runs(w, data.buf[2])'
      BY <2>1, <3>1, <3>2 DEF Runs, FileOf, NoFd, File, Nobody
    <3> QED BY <3>1, <3>3, <3>4
  <2>8. Elems(queue') = Elems(queue)
    OBVIOUS
  <2> QED BY <2>1, <2>2, <2>5, <2>6, <2>7, <2>8 DEF TaskInv, Elems, Sock
<1> QED BY <1>1, <1>2

\* One who has not asked, or has an answer, is not being served.
LEMMA NotBusy ==
  ASSUME TypeInv, Orderly, NEW c \in Clients, phase[c] \notin {"asked", "receiving"}
  PROVE  ~InSocket(c) /\ ~InPipe(c) /\ ~InHand(c) /\ ~InTask(c)
<1>1. \A fn, arg : ~Request(c, fn, arg)
  BY DEF Request
<1>2. ~InSocket(c)
  BY <1>1 DEF Orderly, RequestInv, ClientInv
<1>3. ~InPipe(c)
  BY <1>1 DEF Orderly, RequestInv, FrameInv, InPipe
<1>4. ~InHand(c)
  BY <1>1 DEF Orderly, RequestInv, FrameInv, InHand
<1>5. ~InTask(c)
  BY DEF Orderly, TaskInv, InTask
<1> QED BY <1>2, <1>3, <1>4, <1>5

(***************************************************************************)
(* A step of clients the server has nothing to do for, or of the kernel.   *)
(***************************************************************************)
LEMMA OutsideOrderly ==
  ASSUME TypeInv, Orderly, UNCHANGED <<pipe, data, ppc, queue, wpc, job>>, Fds' = Fds,
         gone \subseteq gone', NEW T,
         \A d \in T : ~InPipe(d) /\ ~InHand(d) /\ ~InTask(d) /\ ClientInv(d)',
         \A d \in Clients \ T : Undisturbed(d)
  PROVE  Orderly'
<1>1. /\ \A d : /\ InPipe(d)' <=> InPipe(d)
                /\ InHand(d)' <=> InHand(d)
                /\ InTask(d)' <=> InTask(d)
      /\ InUse' <=> InUse
      /\ Elems(pipe') = Elems(pipe)
  BY DEF InPipe, InHand, InTask, InUse, Elems, Workers
<1>2. OneTask'
  BY DEF Orderly, OneTask, InUse, Workers
<1>3. OnePlace'
  <2>1. Single(pipe') /\ OnePlace
    BY DEF Orderly, OnePlace, Single
  <2>2. \A d \in Clients \ T : InSocket(d)' <=> InSocket(d)
    BY DEF InSocket, Undisturbed, NoFrame
  <2>3. \A d \in T : InPlace(d)'
    BY <1>1 DEF InPlace
  <2> QED BY <1>1, <2>1, <2>2, <2>3, PlaceStep
<1>4. RequestInv'
  <2>1. \A f \in Elems(pipe') : f \in Elems(pipe) /\ f.buf[2] \notin T
    BY <1>1 DEF InPipe
  <2>2. ASSUME ppc' = "handle" PROVE FrameInv(data)'
    <3>1. PICK f : f = data /\ f = data'
      OBVIOUS
    <3>2. IsFrame(f) /\ FrameInv(f) /\ f.buf[2] \in Clients
      BY <2>2, <3>1 DEF TypeInv, ParserInv, IsFrame, Real, Orderly, RequestInv
    <3>3. f.buf[2] \notin T
      BY <2>2, <3>1 DEF InHand
    <3>4. FrameInv(f)'
      BY <3>2, <3>3, UndisturbedFrame
    <3> QED BY <3>1, <3>4 DEF FrameInv, Request, StartOf, FileOf, Sock, File, NoFd
  <2>3. RequestInv
    BY DEF Orderly
  <2> QED BY <2>1, <2>2, <2>3, RequestStep
<1>5. TaskInv'
  <2>1. ASSUME InUse PROVE Undisturbed(data.buf[2])
    <3>1. data.buf[2] \in Clients
      BY <2>1 DEF TypeInv, Real
    <3>2. data.buf[2] \notin T
      BY <2>1 DEF InTask
    <3> QED BY <3>1, <3>2
  <2>2. TaskInv
    BY DEF Orderly
  <2> QED BY <2>1, <2>2, TaskSame
<1> QED BY <1>2, <1>3, <1>4, <1>5 DEF Orderly

LEMMA ClientsOrderly ==
  ASSUME TypeInv, ConnInv, Orderly, [Next]_vars, NEW c \in Clients,
         ClientStep(c) \/ Stall(c) \/ Accept
  PROVE  Orderly'
<1>0. /\ PeersTypeOK /\ Fds' = Fds
      /\ phase \in [Clients -> {"away", "asked", "refused", "offered", "receiving"}]
      /\ rx \in [Clients -> {NoFrame} \cup Messages] /\ from \in [Clients -> 0 .. Bytes]
  BY StepPeers DEF TypeInv, PeersTypeOK
<1>1. UNCHANGED <<pipe, data, ppc, queue, wpc, job>>
  BY DEF ClientStep, Stall, Accept, parserVars, poolVars
<1>2. ClientInv(c)
  BY DEF Orderly, RequestInv
<1>3. CASE Connect(c) \/ Confirm(c)
  <2>0. \A d : Keeps(d)
    <3>1. table' = table /\ unopened' = unopened
      BY <1>3 DEF Connect, Confirm
    <3> QED BY <1>0, <3>1, AllKept
  <2>1. /\ phase[c] \in {"away", "offered"} /\ UNCHANGED <<got, told, gone>>
        /\ got[c] = <<>> /\ from[c] = 0
        /\ \A d \in Clients \ {c} :
             phase'[d] = phase[d] /\ rx'[d] = rx[d] /\ from'[d] = from[d]
    BY <1>0, <1>2, <1>3 DEF Connect, Confirm, ClientInv
  <2>2. ~InPipe(c) /\ ~InHand(c) /\ ~InTask(c)
    BY <2>1, NotBusy
  <2>3. \A d \in Clients \ {c} : Undisturbed(d)
    BY <2>0, <2>1 DEF Undisturbed
  <2>4. ClientInv(c)'
    <3>1. CASE Connect(c)
      <4>1. /\ phase'[c] = "asked"
            /\ rx'[c][1] # "Ensure" /\ from'[c] = StartOf(rx'[c][1], rx'[c][2])
        BY <1>0, <2>1, <3>1 DEF Connect, StartOf
      <4> QED BY <2>1, <4>1 DEF ClientInv, Request, StartOf
    <3>2. CASE Confirm(c)
      <4>1. PICK t : t = told[c]
        OBVIOUS
      <4>2. phase'[c] = "receiving" /\ rx'[c] = <<"Ensure", t>> /\ from'[c] = 0
        BY <1>0, <2>1, <3>2, <4>1 DEF Confirm
      <4>3. FileOf(c, t)'
        BY <1>2, <2>0, <3>2, <4>1 DEF Confirm, ClientInv, Keeps
      <4>4. Request(c, "Ensure", t)'
        BY <2>1, <4>2, <4>3 DEF Request, StartOf
      <4>5. Request(c, rx[c][1], rx[c][2])'
        BY <4>2, <4>4 DEF Request, StartOf, FileOf, NoFd, File
      <4> QED BY <4>2, <4>5 DEF ClientInv
    <3> QED BY <1>3, <3>1, <3>2
  <2>5. gone \subseteq gone'
    BY <2>1
  <2>6. PICK T : T = {c}
    OBVIOUS
  <2>7. \A d \in T : ~InPipe(d) /\ ~InHand(d) /\ ~InTask(d) /\ ClientInv(d)'
    <3>1. ASSUME NEW d \in T
          PROVE  ~InPipe(d) /\ ~InHand(d) /\ ~InTask(d) /\ ClientInv(d)'
      <4>1. d = c
        BY <2>6
      <4>2. ClientInv(d)'
        BY <2>4, <4>1 DEF ClientInv, InSocket, Request, StartOf, FileOf, NoFd, File, NoFrame
      <4> QED BY <2>2, <4>1, <4>2
    <3> QED BY <3>1
  <2>8. \A d \in Clients \ T : Undisturbed(d)
    BY <2>3, <2>6
  <2> QED BY <1>0, <1>1, <2>5, <2>7, <2>8, OutsideOrderly
<1>4. CASE Leave(c) \/ Stall(c) \/ Accept
  <2>1. UNCHANGED <<phase, told, rx, from, got, unopened>> /\ gone \subseteq gone'
    BY <1>4 DEF Leave, Stall, Accept, TakeConnection, peerVars
  <2>2. table' = table \/ TakeConnection
    BY <1>4 DEF Leave, Stall, Accept, peerVars
  <2>3. \A d : Keeps(d)
    BY <1>0, <2>1, <2>2, AllKept
  <2>4. \A d \in Clients : Undisturbed(d)
    BY <2>1, <2>3 DEF Undisturbed
  <2>5. PICK T : T = {}
    OBVIOUS
  <2>6. /\ \A d \in T : ~InPipe(d) /\ ~InHand(d) /\ ~InTask(d) /\ ClientInv(d)'
        /\ \A d \in Clients \ T : Undisturbed(d)
    BY <2>4, <2>5
  <2> QED BY <1>0, <1>1, <2>1, <2>6, OutsideOrderly
<1> QED BY <1>3, <1>4 DEF ClientStep

LEMMA DataKept ==
  ASSUME TypeInv, RequestInv, data' = data, ppc = "handle", Undisturbed(data.buf[2])
  PROVE  FrameInv(data)'
<1>1. PICK f : f = data /\ f = data'
  OBVIOUS
<1>2. IsFrame(f) /\ FrameInv(f) /\ Undisturbed(f.buf[2])
  BY <1>1 DEF TypeInv, ParserInv, RequestInv
<1>3. FrameInv(f)'
  BY <1>2, UndisturbedFrame
<1> QED BY <1>1, <1>3 DEF FrameInv, Request, StartOf, FileOf, Sock, File, NoFd

(***************************************************************************)
(* The frame goes from the socket to the pipe.                             *)
(***************************************************************************)
LEMMA SingleAppend ==
  ASSUME NEW S, NEW s \in Seq(S), NEW e \in S, Single(s), \A g \in Elems(s) : g.buf[2] # e.buf[2]
  PROVE  Single(Append(s, e))
<1> DEFINE u == Append(s, e)
<1>1. /\ Len(s) \in Nat /\ DOMAIN s = 1 .. Len(s) /\ DOMAIN u = 1 .. Len(s) + 1
      /\ u[Len(s) + 1] = e /\ \A i \in 1 .. Len(s) : u[i] = s[i]
  OBVIOUS
<1> HIDE DEF u
<1>2. \A i \in DOMAIN s : s[i].buf[2] # e.buf[2]
  BY DEF Elems
<1>3. \A i \in DOMAIN u : IF i \in DOMAIN s THEN u[i] = s[i] ELSE i = Len(s) + 1 /\ u[i] = e
  BY <1>1
<1>4. Single(u)
  BY <1>2, <1>3 DEF Single
<1> QED BY <1>4 DEF u

LEMMA SingleTail ==
  ASSUME NEW S, NEW s \in Seq(S), s # <<>>, Single(s)
  PROVE  Single(Tail(s)) /\ \A g \in Elems(Tail(s)) : g.buf[2] # Head(s).buf[2]
<1>1. /\ Head(s) = s[1] /\ 1 \in DOMAIN s
      /\ \A i \in DOMAIN Tail(s) : Tail(s)[i] = s[i + 1] /\ i + 1 \in DOMAIN s /\ i \in Nat /\ i >= 1
  OBVIOUS
<1>2. Single(Tail(s))
  BY <1>1 DEF Single
<1>3. \A i \in DOMAIN Tail(s) : Tail(s)[i].buf[2] # Head(s).buf[2]
  BY <1>1 DEF Single
<1> QED BY <1>2, <1>3 DEF Elems

LEMMA RecvOrderly ==
  ASSUME TypeInv, Orderly, NEW x \in Fds, RecvFrame(x)
  PROVE  Orderly'
<1>0. PeersTypeOK /\ pipe \in Seq(Records) /\ rx \in [Clients -> {NoFrame} \cup Messages]
  BY DEF TypeInv, PeersTypeOK, ParserInv
<1>1. PICK c \in Clients, f \in Records :
        /\ table[x] = Sock(c) /\ rx[c] # NoFrame
        /\ f.fn = rx[c][1] /\ f.clientFd = x
        /\ f.buf[1] = rx[c][1] /\ f.buf[2] = c /\ f.buf[3] = rx[c][2]
        /\ IsFrame(f)
        /\ pipe' = Append(pipe, f)
        /\ rx' = [rx EXCEPT ![c] = NoFrame]
        /\ UNCHANGED <<table, backlog, accepted, gone, phase, told, from, got, unopened>>
        /\ UNCHANGED <<stalled, exited, data, ppc, overwritten, queue, wpc, job>>
  BY RecvFrameMeans
<1>2. InSocket(c) /\ ~InPipe(c) /\ ~InHand(c) /\ ~InTask(c)
  BY <1>1 DEF Orderly, OnePlace, InSocket
<1>3. PICK fn, arg : fn = rx[c][1] /\ arg = rx[c][2]
  OBVIOUS
<1>4. Request(c, fn, arg) /\ phase[c] \in {"asked", "receiving"}
  BY <1>2, <1>3 DEF Orderly, RequestInv, ClientInv, Request
<1>5. Elems(pipe') = Elems(pipe) \cup {f}
  BY <1>0, <1>1, AppendElems
<1>6. \A d : Keeps(d)
  BY <1>0, <1>1, AllKept
<1>7. PICK T : T = {c}
  OBVIOUS
<1>8. \A d \in Clients \ T : Undisturbed(d)
  BY <1>0, <1>1, <1>6, <1>7 DEF Undisturbed
<1>9. ~InSocket(c)'
  BY <1>0, <1>1 DEF InSocket, NoFrame
<1>10. Fds' = Fds
  BY <1>1, TableSame
<1>11. OneTask'
  BY <1>1 DEF Orderly, OneTask, InUse, Workers
<1>12. OnePlace'
  <2>1. Single(pipe')
    <3>1. Single(pipe) /\ \A g \in Elems(pipe) : g.buf[2] # f.buf[2]
      BY <1>1, <1>2 DEF Orderly, OnePlace, Single, InPipe
    <3> QED BY <1>0, <1>1, <3>1, SingleAppend
  <2>2. ASSUME NEW d \in Clients \ T
        PROVE  /\ InSocket(d)' => InSocket(d)
               /\ InPipe(d)' => InPipe(d)
               /\ InHand(d)' => InHand(d)
               /\ InTask(d)' => InTask(d)
    <3>1. InSocket(d)' => InSocket(d)
      BY <1>8 DEF InSocket, Undisturbed, NoFrame
    <3>2. InPipe(d)' => InPipe(d)
      BY <1>1, <1>5, <1>7 DEF InPipe, Elems
    <3> QED BY <1>1, <3>1, <3>2 DEF InHand, InTask, InUse, Workers
  <2>3. ASSUME NEW d \in T PROVE InPlace(d)'
    <3>1. d = c
      BY <1>7
    <3>2. ~InSocket(d)'
      BY <1>0, <1>1, <3>1 DEF InSocket, NoFrame
    <3>3. ~InHand(d)' /\ ~InTask(d)'
      BY <1>1, <1>2, <3>1 DEF InHand, InTask, InUse, Workers
    <3> QED BY <3>2, <3>3 DEF InPlace
  <2> QED BY <2>1, <2>2, <2>3, PlaceStep DEF Orderly
<1>13. RequestInv'
  <2>1. ASSUME NEW d \in T PROVE ClientInv(d)'
    <3>1. d = c
      BY <1>7
    <3>2. ~InSocket(d)' /\ phase'[d] \notin {"away", "offered"}
      BY <1>0, <1>1, <1>4, <3>1 DEF InSocket, NoFrame
    <3> QED BY <3>2 DEF ClientInv
  <2>2. ASSUME NEW g \in Elems(pipe') PROVE FrameInv(g)' \/ (g \in Elems(pipe) /\ g.buf[2] \notin T)
    <3>1. CASE g = f
      <4>1. Request(c, fn, arg)'
        BY <1>1, <1>4, <1>6 DEF Request, StartOf, Keeps
      <4>2. FrameInv(g)'
        BY <1>1, <1>3, <3>1, <4>1 DEF FrameInv, Sock
      <4> QED BY <4>2
    <3>2. CASE g # f
      BY <1>2, <1>5, <1>7, <3>2 DEF InPipe
    <3> QED BY <3>1, <3>2
  <2>3. ASSUME ppc' = "handle" PROVE FrameInv(data)'
    <3>1. ppc = "handle" /\ data' = data /\ data.buf[2] \in Clients \ T
      BY <1>1, <1>2, <1>7, <2>3 DEF InHand, TypeInv, ParserInv, IsFrame, Real
    <3> QED BY <1>8, <3>1, DataKept DEF Orderly
  <2> QED BY <1>8, <2>1, <2>2, <2>3, RequestStep DEF Orderly
<1>14. TaskInv'
  <2>1. ASSUME InUse PROVE data' = data /\ Undisturbed(data.buf[2])
    <3>1. data.buf[2] \in Clients \ T
      BY <1>2, <1>7, <2>1 DEF InTask, TypeInv, Real
    <3> QED BY <1>1, <1>8, <3>1
  <2>2. gone \subseteq gone' /\ UNCHANGED <<queue, wpc, job>>
    BY <1>1
  <2> QED BY <1>10, <2>1, <2>2, TaskSame DEF Orderly
<1> QED BY <1>11, <1>12, <1>13, <1>14 DEF Orderly

(***************************************************************************)
(* The parser reads a frame while there is no transfer.                    *)
(***************************************************************************)
LEMMA ReadOrderly ==
  ASSUME TypeInv, Orderly, ~overwritten', ReadHeader \/ ReadBuf, UNCHANGED <<exited, wpc, job>>
  PROVE  Orderly'
<1>0. PeersTypeOK /\ pipe \in Seq(Records)
  BY DEF TypeInv, ParserInv
<1>1. UNCHANGED <<peerVars, queue, wpc, job>>
  BY DEF ReadHeader, ReadBuf
<1>2. ~InUse
  BY DEF ReadHeader, ReadBuf, Orderly, OneTask
<1>3. ~InUse' /\ \A d : ~InTask(d)'
  BY <1>1, <1>2 DEF InUse, InTask, Workers
<1>4. OneTask' /\ TaskInv'
  BY <1>3, IdleTask
<1>5. \A d : Keeps(d)
  BY <1>0, <1>1, AllKept DEF peerVars
<1>6. \A d \in Clients : Undisturbed(d)
  BY <1>1, <1>5 DEF Undisturbed, peerVars
<1>7. \A d \in Clients : InSocket(d)' => InSocket(d)
  BY <1>1 DEF InSocket, NoFrame, peerVars
<1>e. PICK T : T = {}
  OBVIOUS
<1>8. CASE ReadHeader
  <2>1. pipe' = pipe /\ ppc' = "readBuf" /\ ppc = "read"
    BY <1>8 DEF ReadHeader
  <2>2. OnePlace'
    <3>1. \A d \in Clients \ T : /\ InSocket(d)' => InSocket(d)
                                 /\ InPipe(d)' => InPipe(d)
                                 /\ InHand(d)' => InHand(d)
                                 /\ InTask(d)' => InTask(d)
      BY <1>3, <1>7, <2>1 DEF InPipe, InHand, Elems
    <3>2. Single(pipe')
      BY <2>1 DEF Orderly, OnePlace, Single
    <3>3. \A d \in T : InPlace(d)'
      BY <1>e
    <3> QED BY <3>1, <3>2, <3>3, PlaceStep DEF Orderly
  <2>3. RequestInv'
    <3>1. \A f \in Elems(pipe') : f \in Elems(pipe) /\ f.buf[2] \notin T
      BY <1>e, <2>1 DEF Elems
    <3>2. ppc' # "handle"
      BY <2>1
    <3>3. /\ \A d \in T : ClientInv(d)'
          /\ \A d \in Clients \ T : Undisturbed(d)
      BY <1>e, <1>6
    <3> QED BY <3>1, <3>2, <3>3, RequestStep DEF Orderly
  <2> QED BY <1>4, <2>2, <2>3 DEF Orderly
<1>9. CASE ReadBuf
  <2>1. PICK h : /\ h = Head(pipe) /\ data' = h /\ IsFrame(h) /\ pipe # <<>> /\ h \in Elems(pipe)
                 /\ pipe' = Tail(pipe) /\ Elems(pipe') \subseteq Elems(pipe)
    BY <1>9, ReadMeans
  <2>2. PICK c \in Clients : c = h.buf[2]
    BY <2>1 DEF IsFrame, Real
  <2>3. InPipe(c)
    BY <2>1, <2>2 DEF InPipe
  <2>4. ~InSocket(c)
    BY <2>3 DEF Orderly, OnePlace
  <2>5. Single(pipe') /\ \A g \in Elems(pipe') : g.buf[2] # c
    <3>1. Single(pipe)
      BY DEF Orderly, OnePlace, Single
    <3> QED BY <1>0, <2>1, <2>2, <3>1, SingleTail
  <2>6. ppc' = "handle"
    BY <1>9 DEF ReadBuf
  <2>7. OnePlace'
    <3>1. ASSUME NEW d \in Clients \ {c}
          PROVE  /\ InSocket(d)' => InSocket(d)
                 /\ InPipe(d)' => InPipe(d)
                 /\ InHand(d)' => InHand(d)
                 /\ InTask(d)' => InTask(d)
      <4>1. ~InHand(d)'
        BY <2>1, <2>2 DEF InHand
      <4> QED BY <1>3, <1>7, <2>1, <4>1 DEF InPipe, Elems
    <3>3. PICK U : U = {c}
      OBVIOUS
    <3>4. ASSUME NEW d \in U PROVE InPlace(d)'
      <4>1. d = c
        BY <3>3
      <4>2. ~InSocket(d)' /\ ~InPipe(d)'
        BY <1>7, <2>4, <2>5, <4>1 DEF InPipe, Elems
      <4> QED BY <4>2 DEF InPlace
    <3>5. \A d \in Clients \ U : /\ InSocket(d)' => InSocket(d)
                                 /\ InPipe(d)' => InPipe(d)
                                 /\ InHand(d)' => InHand(d)
                                 /\ InTask(d)' => InTask(d)
      BY <3>1, <3>3
    <3> QED BY <2>5, <3>4, <3>5, PlaceStep DEF Orderly
  <2>8. RequestInv'
    <3>1. \A f \in Elems(pipe') : f \in Elems(pipe) /\ f.buf[2] \notin T
      BY <1>e, <2>1
    <3>2. FrameInv(data)'
      <4>1. FrameInv(h)
        BY <2>1 DEF Orderly, RequestInv
      <4>2. FrameInv(h)'
        BY <1>6, <2>1, <2>2, <4>1, UndisturbedFrame
      <4> QED BY <2>1, <4>2 DEF FrameInv, Request, StartOf, FileOf, Sock, File, NoFd
    <3>3. /\ \A d \in T : ClientInv(d)'
          /\ \A d \in Clients \ T : Undisturbed(d)
      BY <1>e, <1>6
    <3> QED BY <3>1, <3>2, <3>3, RequestStep DEF Orderly
  <2> QED BY <1>4, <2>7, <2>8 DEF Orderly
<1> QED BY <1>8, <1>9

(***************************************************************************)
(* The frame in the parser's hand.                                         *)
(***************************************************************************)
LEMMA HandMeans ==
  ASSUME TypeInv, Orderly, ppc = "handle"
  PROVE  \E c \in Clients :
           /\ c = data.buf[2] /\ table[data.clientFd] = Sock(c) /\ data.clientFd \in Fds
           /\ data.fn = data.buf[1] /\ IsFrame(data)
           /\ Request(c, data.buf[1], data.buf[3])
           /\ InHand(c) /\ ~InSocket(c) /\ ~InPipe(c) /\ ~InUse
<1>1. IsFrame(data) /\ FrameInv(data) /\ ~InUse
  BY DEF TypeInv, ParserInv, Orderly, OneTask, RequestInv
<1>2. PICK c \in Clients : c = data.buf[2]
  BY <1>1 DEF IsFrame, Real
<1>3. InHand(c)
  BY <1>2 DEF InHand
<1>4. ~InSocket(c) /\ ~InPipe(c)
  BY <1>3 DEF Orderly, OnePlace
<1> QED BY <1>1, <1>2, <1>3, <1>4 DEF FrameInv, IsFrame

LEMMA HandOrderly ==
  ASSUME TypeInv, Orderly, NEW S, Handle(S), NEW c \in Clients, c = data.buf[2],
         \A d \in Clients \ {c} : Undisturbed(d),
         phase'[c] \in {"away", "offered"} => got[c] = <<>> /\ from[c] = 0,
         phase'[c] = "offered" => FileOf(c, told[c])'
  PROVE  OnePlace' /\ RequestInv'
<1>1. ~InSocket(c) /\ ~InPipe(c) /\ ~InUse
  BY HandMeans DEF Handle
<1>2. /\ ppc' = "read" /\ UNCHANGED <<pipe, data, rx, from, got>>
  BY DEF Handle
<1>3. PICK T : T = {c}
  OBVIOUS
<1>4. \A d : (InSocket(d)' <=> InSocket(d)) /\ (InPipe(d)' <=> InPipe(d)) /\ ~InHand(d)'
  BY <1>2 DEF InSocket, InPipe, InHand, NoFrame, Elems
<1>5. OnePlace'
  <2>1. \A d \in Clients \ T : ~InTask(d)'
    BY <1>2, <1>3 DEF InTask
  <2>2. ASSUME NEW d \in T PROVE InPlace(d)'
    <3>1. ~InSocket(d)' /\ ~InPipe(d)'
      BY <1>1, <1>3, <1>4
    <3> QED BY <3>1 DEF InPlace
  <2>3. Single(pipe') /\ OnePlace
    BY <1>2 DEF Orderly, OnePlace, Single
  <2> QED BY <1>4, <2>1, <2>2, <2>3, PlaceStep
<1>6. RequestInv'
  <2>1. ASSUME NEW d \in T PROVE ClientInv(d)'
    <3>1. d = c /\ ~InSocket(d)'
      BY <1>1, <1>3, <1>4
    <3>2. phase'[d] = "offered" => FileOf(d, told[d])'
      BY <3>1 DEF FileOf, NoFd, File
    <3> QED BY <1>2, <3>1, <3>2 DEF ClientInv
  <2>2. \A f \in Elems(pipe') : f \in Elems(pipe) /\ f.buf[2] \notin T
    BY <1>1, <1>2, <1>3 DEF InPipe, Elems
  <2>3. ppc' # "handle"
    BY <1>2
  <2>4. \A d \in Clients \ T : Undisturbed(d)
    BY <1>3
  <2> QED BY <2>1, <2>2, <2>3, <2>4, RequestStep DEF Orderly
<1> QED BY <1>5, <1>6

\* The parser answers.
LEMMA AnswerOrderly ==
  ASSUME TypeInv, Orderly, HandleNormal \/ FileNotExit, UNCHANGED <<exited, wpc, job>>
  PROVE  Orderly'
<1>0. PeersTypeOK
  BY DEF TypeInv
<1>1. ppc = "handle" /\ UNCHANGED <<queue, gone, from, got, rx, data>> /\ data.fn \in {"Normal", "Resume"}
  BY DEF HandleNormal, FileNotExit, Handle
<1>2. PICK c \in Clients :
        /\ c = data.buf[2] /\ table[data.clientFd] = Sock(c) /\ data.clientFd \in Fds
        /\ data.fn = data.buf[1] /\ Request(c, data.buf[1], data.buf[3]) /\ ~InUse
  BY <1>1, HandMeans
<1>3. phase[c] = "asked" /\ got[c] = <<>>
  BY <1>1, <1>2 DEF Request
<1>4. ~InUse'
  BY <1>1, <1>2 DEF InUse, Workers
<1>5. OneTask' /\ TaskInv'
  BY <1>4, IdleTask
<1>6. CASE HandleNormal
  <2>1. PICK x \in Numbers : Open(c, x) /\ Reply(data.clientFd, "offered", x)
    BY <1>2, <1>6 DEF HandleNormal
  <2>2. /\ phase'[c] = "offered" /\ told'[c] = x
        /\ \A d \in Clients \ {c} : phase'[d] = phase[d] /\ told'[d] = told[d]
    BY <1>0, <1>2, <1>3, <2>1, OwnReply
  <2>3. from[c] = 0
    BY <1>2, <1>6 DEF HandleNormal, Handle, Request, StartOf
  <2>4. FileOf(c, told[c])'
    <3>1. /\ unopened \subseteq unopened' /\ Fds' = Fds
          /\ x = NoFd => c \in unopened' /\ table' = table
          /\ x # NoFd => x \in Fds /\ table' = [table EXCEPT ![x] = File(c)]
      BY <1>0, <2>1, OpenTyped
    <3>2. x # NoFd => table'[x] = File(c)
      BY <1>0, <3>1 DEF Fds
    <3> QED BY <2>2, <3>1, <3>2 DEF FileOf, NoFd, File
  <2>5. \A d : Keeps(d)
    <3>1. unopened \subseteq unopened' /\ (table' = table \/ Opens)
      BY <1>0, <2>1, OpenTyped, OpenOpens
    <3> QED BY <1>0, <3>1, AllKept
  <2>6. \A d \in Clients \ {c} : Undisturbed(d)
    BY <1>1, <2>2, <2>5 DEF Undisturbed
  <2>7. Handle({"Normal"})
    BY <1>6 DEF HandleNormal
  <2>8. OnePlace' /\ RequestInv'
    BY <1>2, <1>3, <2>3, <2>4, <2>6, <2>7, HandOrderly
  <2> QED BY <1>5, <2>8 DEF Orderly
<1>7. CASE FileNotExit
  <2>1. Reply(data.clientFd, "refused", NoFd) /\ UNCHANGED <<table, unopened>>
    BY <1>7 DEF FileNotExit
  <2>2. /\ phase'[c] = "refused"
        /\ \A d \in Clients \ {c} : phase'[d] = phase[d] /\ told'[d] = told[d]
    BY <1>0, <1>2, <1>3, <2>1, OwnReply
  <2>3. \A d : Keeps(d)
    BY <1>0, <2>1, AllKept
  <2>4. \A d \in Clients \ {c} : Undisturbed(d)
    BY <1>1, <2>2, <2>3 DEF Undisturbed
  <2>5. Handle({"Normal", "Resume"})
    BY <1>7 DEF FileNotExit
  <2>6. OnePlace' /\ RequestInv'
    BY <1>2, <2>2, <2>4, <2>5, HandOrderly
  <2> QED BY <1>5, <2>6 DEF Orderly
<1> QED BY <1>6, <1>7

\* The parser adds the transfer, the only one.
LEMMA AddOrderly ==
  ASSUME TypeInv, Orderly, HandleEnsure \/ HandleResume, UNCHANGED <<exited, wpc, job>>
  PROVE  Orderly'
<1>0. PeersTypeOK
  BY DEF TypeInv
<1>1. /\ ppc = "handle" /\ ppc' = "read" /\ UNCHANGED <<gone, from, got, rx, data, table, unopened>>
      /\ data.fn \in {"Ensure", "Resume"}
  BY DEF HandleEnsure, HandleResume, Handle
<1>2. PICK c \in Clients :
        /\ c = data.buf[2] /\ table[data.clientFd] = Sock(c) /\ data.clientFd \in Fds
        /\ data.fn = data.buf[1] /\ Request(c, data.buf[1], data.buf[3]) /\ ~InUse
  BY <1>1, HandMeans
<1>3. \A d : Keeps(d)
  BY <1>0, <1>1, AllKept
<1>4. PICK kind : /\ kind \in {"ensure", "resume"} /\ queue' = Append(queue, kind)
                  /\ kind = "ensure" => HandleEnsure
                  /\ kind = "resume" => HandleResume
  BY DEF HandleEnsure, HandleResume, AddTask
<1>5. /\ phase'[c] = "receiving"
      /\ \A d \in Clients \ {c} : phase'[d] = phase[d] /\ told'[d] = told[d]
  <2>1. CASE HandleEnsure
    <3>1. phase[c] = "receiving" /\ phase' = phase /\ told' = told
      BY <1>2, <2>1 DEF HandleEnsure, Handle, Request
    <3> QED BY <3>1
  <2>2. CASE HandleResume
    <3>1. phase[c] = "asked" /\ Reply(data.clientFd, "receiving", NoFd)
      BY <1>2, <2>2 DEF HandleResume, Handle, Request
    <3> QED BY <1>0, <1>2, <3>1, OwnReply
  <2> QED BY <2>1, <2>2
<1>6. \A d \in Clients \ {c} : Undisturbed(d)
  BY <1>1, <1>3, <1>5 DEF Undisturbed
<1>7. \E S : Handle(S)
  BY DEF HandleEnsure, HandleResume
<1>8. OnePlace' /\ RequestInv'
  BY <1>2, <1>5, <1>6, <1>7, HandOrderly
<1>9. queue = <<>> /\ \A w \in Workers : wpc[w] = "idle"
  BY <1>2, IdleMeans
<1>10. queue' = <<kind>> /\ Len(queue') = 1 /\ Elems(queue') = {kind} /\ Workers' = Workers
  BY <1>4, <1>9 DEF Elems, Workers
<1>11. OneTask'
  BY <1>1, <1>9, <1>10 DEF OneTask
<1>12. TaskInv'
  <2>1. Waits(kind, data.buf[2])'
    <3>1. PICK arg : arg = data.buf[3] /\ arg = data'.buf[3]
      BY <1>1
    <3>2. /\ data.buf[1] = IF kind = "ensure" THEN "Ensure" ELSE "Resume"
          /\ got[c] = <<>> /\ from[c] = StartOf(data.buf[1], arg)
          /\ kind = "ensure" => FileOf(c, arg)
      BY <1>2, <1>4, <3>1 DEF Request, HandleEnsure, HandleResume, Handle
    <3>3. FileOf(c, arg) => FileOf(c, arg)'
      BY <1>3 DEF Keeps
    <3> QED BY <1>1, <1>2, <3>1, <3>2, <3>3 DEF Waits, StartOf, FileOf, NoFd, File
  <2>2. phase'[data'.buf[2]] = "receiving"
    BY <1>1, <1>2, <1>5
  <2>3. table'[data'.clientFd] = Sock(data.buf[2])' /\ data'.clientFd \in Fds'
    BY <1>1, <1>2 DEF Sock, Fds
  <2>4. \A w \in Workers' : wpc'[w] = "idle"
    BY <1>9, <1>10
  <2>5. \A k \in Elems(queue') : Waits(k, data.buf[2])'
    BY <1>10, <2>1
  <2> QED BY <2>2, <2>3, <2>4, <2>5 DEF TaskInv, Elems
<1> QED BY <1>8, <1>11, <1>12 DEF Orderly

(***************************************************************************)
(* The transfer.                                                           *)
(***************************************************************************)
LEMMA TaskMeans ==
  ASSUME TypeInv, Orderly, InUse
  PROVE  \E c \in Clients :
           /\ c = data.buf[2] /\ phase[c] = "receiving"
           /\ table[data.clientFd] = Sock(c) /\ data.clientFd \in Fds
           /\ ppc = "read" /\ ~InSocket(c) /\ ~InPipe(c)
           /\ \A w \in Workers : wpc[w] # "idle" =>
                /\ queue = <<>> /\ \A v \in Workers : v # w => wpc[v] = "idle"
                /\ wpc[w] \in {"ensure", "resume"} => Waits(wpc[w], c)
                /\ wpc[w] \in {"send", "close"} => Runs(w, c)
<1>1. PICK c \in Clients : c = data.buf[2]
  BY DEF TypeInv, Real
<1>2. InTask(c)
  BY <1>1 DEF InTask
<1>3. ~InSocket(c) /\ ~InPipe(c)
  BY <1>2 DEF Orderly, OnePlace
<1> QED BY <1>1, <1>3 DEF Orderly, OneTask, TaskInv

LEMMA TransferOrderly ==
  ASSUME TypeInv, Orderly, InUse, NEW c \in Clients, c = data.buf[2],
         UNCHANGED <<pipe, data, ppc, rx, phase, from>>,
         \A d \in Clients \ {c} : Undisturbed(d)
  PROVE  OnePlace' /\ RequestInv'
<1>1. ~InSocket(c) /\ ~InPipe(c) /\ ppc = "read" /\ phase[c] = "receiving"
  BY TaskMeans
<1>2. PICK T : T = {c}
  OBVIOUS
<1>3. \A d : (InSocket(d)' <=> InSocket(d)) /\ (InPipe(d)' <=> InPipe(d)) /\ ~InHand(d)'
  BY <1>1 DEF InSocket, InPipe, InHand, NoFrame, Elems
<1>4. OnePlace'
  <2>1. \A d \in Clients \ T : ~InTask(d)'
    BY <1>2 DEF InTask
  <2>2. ASSUME NEW d \in T PROVE InPlace(d)'
    <3>1. ~InSocket(d)' /\ ~InPipe(d)'
      BY <1>1, <1>2, <1>3
    <3> QED BY <3>1 DEF InPlace
  <2>3. Single(pipe') /\ OnePlace
    BY DEF Orderly, OnePlace, Single
  <2> QED BY <1>3, <2>1, <2>2, <2>3, PlaceStep
<1>5. RequestInv'
  <2>1. ASSUME NEW d \in T PROVE ClientInv(d)'
    <3>1. ~InSocket(d)' /\ phase'[d] = "receiving"
      BY <1>1, <1>2, <1>3
    <3> QED BY <3>1 DEF ClientInv
  <2>2. \A f \in Elems(pipe') : f \in Elems(pipe) /\ f.buf[2] \notin T
    BY <1>1, <1>2 DEF InPipe, Elems
  <2>3. ppc' # "handle"
    BY <1>1
  <2>4. \A d \in Clients \ T : Undisturbed(d)
    BY <1>2
  <2> QED BY <2>1, <2>2, <2>3, <2>4, RequestStep DEF Orderly
<1> QED BY <1>4, <1>5

LEMMA RunOrderly ==
  ASSUME TypeInv, Orderly, NEW w \in Workers, wpc[w] # "idle", NEW c \in Clients, c = data.buf[2],
         NEW there \in {"send", "close"}, wpc' = [wpc EXCEPT ![w] = there],
         UNCHANGED <<queue, pipe, data, ppc, rx, phase, from>>, Fds' = Fds,
         \A d \in Clients \ {c} : Undisturbed(d), Keeps(c), Runs(w, c)'
  PROVE  Orderly'
<1>1. InUse
  BY DEF InUse
<1>2. /\ phase[c] = "receiving" /\ table[data.clientFd] = Sock(c) /\ data.clientFd \in Fds
      /\ ppc = "read" /\ queue = <<>> /\ \A v \in Workers : v # w => wpc[v] = "idle"
  BY <1>1, TaskMeans
<1>3. OnePlace' /\ RequestInv'
  BY <1>1, TransferOrderly
<1>4. Workers' = Workers /\ wpc'[w] = there /\ \A v \in Workers : v # w => wpc'[v] = wpc[v]
  <2>1. there \in Places
    BY DEF Places
  <2> QED BY <2>1, WpcSet
<1>5. queue' = <<>> /\ Len(queue') = 0 /\ Elems(queue') = {}
  BY <1>2 DEF Elems
<1>6. OneTask'
  BY <1>2, <1>4, <1>5 DEF OneTask
<1>7. TaskInv'
  <2>1. phase'[data'.buf[2]] = "receiving" /\ table'[data'.clientFd] = Sock(data.buf[2])'
        /\ data'.clientFd \in Fds'
    BY <1>2 DEF Keeps, Sock
  <2>2. Runs(w, data.buf[2])'
    BY DEF Runs, FileOf, NoFd, File, Nobody
  <2>3. \A v \in Workers' : v = w \/ wpc'[v] = "idle"
    BY <1>2, <1>4
  <2> QED BY <1>4, <1>5, <2>1, <2>2, <2>3 DEF TaskInv, Elems
<1> QED BY <1>3, <1>6, <1>7 DEF Orderly

\* A thread of the pool begins the transfer.
LEMMA TakeOrderly ==
  ASSUME TypeInv, Orderly, NEW w \in Workers, Take(w), UNCHANGED <<pipe, data, ppc>>
  PROVE  Orderly'
<1>0. PeersTypeOK /\ queue \in Seq({"ensure", "resume"})
  BY DEF TypeInv, WorkersInv
<1>1. /\ queue # <<>> /\ queue' = Tail(queue) /\ UNCHANGED <<peerVars, job>> /\ wpc[w] = "idle"
      /\ wpc' = [wpc EXCEPT ![w] = Head(queue)]
  BY DEF Take, GoTo
<1>2. InUse /\ Len(queue) <= 1 /\ \A v \in Workers : wpc[v] = "idle"
  BY <1>1 DEF InUse, Orderly, OneTask
<1>3. PICK kind : kind = Head(queue)
  OBVIOUS
<1>4. kind \in {"ensure", "resume"} /\ kind \in Elems(queue) /\ queue' = <<>>
  BY <1>0, <1>1, <1>2, <1>3, TailElems
<1>5. PICK c \in Clients :
        /\ c = data.buf[2] /\ phase[c] = "receiving" /\ ppc = "read"
        /\ table[data.clientFd] = Sock(c) /\ data.clientFd \in Fds
  BY <1>2, TaskMeans
<1>6. \A d : Keeps(d)
  BY <1>0, <1>1, AllKept DEF peerVars
<1>7. \A d \in Clients : Undisturbed(d)
  BY <1>1, <1>6 DEF Undisturbed, peerVars
<1>8. OnePlace' /\ RequestInv'
  BY <1>1, <1>2, <1>5, <1>7, TransferOrderly DEF peerVars
<1>9. Workers' = Workers /\ wpc'[w] = kind /\ \A v \in Workers : v # w => wpc'[v] = "idle"
  <2>1. kind \in Places
    BY <1>4 DEF Places
  <2> QED BY <1>1, <1>2, <1>3, <2>1, WpcSet
<1>10. Len(queue') = 0 /\ Elems(queue') = {}
  BY <1>4 DEF Elems
<1>11. OneTask'
  BY <1>4, <1>5, <1>9, <1>10 DEF OneTask
<1>12. TaskInv'
  <2>1. Waits(kind, c)
    BY <1>4, <1>5 DEF Orderly, TaskInv
  <2>2. Waits(kind, c)'
    BY <1>1, <1>7, <2>1, UndisturbedTask DEF peerVars
  <2>3. Waits(wpc[w], data.buf[2])'
    BY <1>5, <1>9, <2>2 DEF Waits, FileOf, StartOf, NoFd, File
  <2>4. phase'[data'.buf[2]] = "receiving" /\ table'[data'.clientFd] = Sock(data.buf[2])'
        /\ data'.clientFd \in Fds'
    BY <1>1, <1>5 DEF Sock, peerVars, Fds
  <2>5. \A v \in Workers' : v = w \/ wpc'[v] = "idle"
    BY <1>9
  <2>6. wpc'[w] \notin {"send", "close"}
    BY <1>4, <1>9
  <2> QED BY <1>10, <2>3, <2>4, <2>5, <2>6 DEF TaskInv, Elems
<1> QED BY <1>8, <1>11, <1>12 DEF Orderly

\* The task opens or finds the client's own file.
LEMMA MapOrderly ==
  ASSUME TypeInv, Orderly, NEW w \in Workers, MapConfirmed(w) \/ MapResumed(w),
         UNCHANGED <<pipe, data, ppc>>, [Next]_vars
  PROVE  Orderly'
<1>0. PeersTypeOK /\ Bytes \in Nat /\ Fds' = Fds
  BY StepPeers, NumbersAssumption DEF TypeInv
<1>1. InUse /\ data.buf \in Buffers /\ Real(data.buf)
  BY MapMeans
<1>2. PICK e \in Jobs :
        /\ job' = [job EXCEPT ![w] = e]
        /\ e.p # Nobody => e.left \in 0 .. Bytes - e.count
        /\ MapConfirmed(w) =>
             /\ e.file = data.buf[3] /\ e.count = 0
             /\ data.buf[1] = "Ensure" =>
                  /\ e.p = IF IsFile(e.file) THEN Owner(e.file) ELSE Nobody
                  /\ e.left = SizeOf(e.file)
        /\ MapResumed(w) =>
             /\ e.file \in Numbers /\ e.count = data.buf[3]
             /\ e.left = SizeOf(e.file) - e.count
             /\ e.p = IF e.file = NoFd THEN Nobody ELSE data.buf[2]
             /\ IF data.buf[1] = "Ensure"
                THEN e.file = NoFd /\ UNCHANGED <<table, unopened>>
                ELSE Open(data.buf[2], e.file)
  BY MapMeans
<1>3. /\ wpc[w] \in {"ensure", "resume"} /\ wpc' = [wpc EXCEPT ![w] = "send"]
      /\ MapConfirmed(w) => wpc[w] = "ensure"
      /\ MapResumed(w) => wpc[w] = "resume"
      /\ UNCHANGED <<gone, phase, told, from, rx, got, queue>>
  BY DEF MapConfirmed, MapResumed, GoTo, peerVars
<1>4. PICK c \in Clients : c = data.buf[2] /\ Waits(wpc[w], c)
  BY <1>1, <1>3, TaskMeans
<1>5. Workers' = Workers /\ wpc'[w] = "send" /\ job'[w] = e
  <2>1. "send" \in Places
    BY DEF Places
  <2>2. Workers' = Workers /\ wpc'[w] = "send"
    BY <1>3, <2>1, WpcSet
  <2> QED BY <1>2, <2>2, JobSet
<1>6. e.file \in Nat /\ e.count \in Nat /\ e.left \in Int
  BY DEF Jobs
<1>7. CASE MapConfirmed(w)
  <2>1. /\ e.file = data.buf[3] /\ e.count = 0 /\ e.left = SizeOf(e.file)
        /\ e.p = IF IsFile(e.file) THEN Owner(e.file) ELSE Nobody
        /\ got[c] = <<>> /\ from[c] = 0 /\ FileOf(c, e.file)
    BY <1>2, <1>3, <1>4, <1>7 DEF Waits, StartOf
  <2>2. table' = table /\ unopened' = unopened
    BY <1>7 DEF MapConfirmed, peerVars
  <2>3. \A d : Keeps(d)
    BY <1>0, <2>2, AllKept
  <2>4. e.file = NoFd => e.p = Nobody /\ e.left <= 0
    <3>1. NoFd \notin Fds
      BY <1>0, FdsAreNumbers
    <3> QED BY <2>1, <3>1 DEF SizeOf, IsFile
  <2>5. e.file # NoFd => e.p = c /\ e.left = Bytes
    <3>1. e.file # NoFd => e.file \in Fds /\ table[e.file] = File(c)
      BY <2>1 DEF FileOf
    <3> QED BY <2>1, <3>1, MeansFile DEF SizeOf
  <2>6. Len(got[c]) = 0
    BY <2>1
  <2>7. FileOf(c, e.file)'
    BY <2>1, <2>3 DEF Keeps
  <2>8. FileOf(c, job[w].file)'
    BY <1>5, <2>7 DEF FileOf, NoFd, File
  <2>9. Runs(w, c)'
    BY <1>0, <1>3, <1>5, <1>6, <2>1, <2>4, <2>5, <2>6, <2>8 DEF Runs, NoFd, Nobody
  <2>10. \A d \in Clients : Undisturbed(d)
    BY <1>3, <2>3 DEF Undisturbed
  <2> QED BY <1>0, <1>3, <1>4, <2>3, <2>9, <2>10, RunOrderly
<1>8. CASE MapResumed(w)
  <2>1. /\ e.file \in Numbers /\ e.count = data.buf[3]
        /\ e.left = SizeOf(e.file) - e.count
        /\ e.p = IF e.file = NoFd THEN Nobody ELSE c
        /\ got[c] = <<>> /\ from[c] = e.count /\ Open(c, e.file)
    BY <1>2, <1>3, <1>4, <1>8 DEF Waits, StartOf
  <2>2. /\ unopened \subseteq unopened'
        /\ e.file = NoFd => c \in unopened'
        /\ e.file # NoFd => e.file \in Fds /\ table' = [table EXCEPT ![e.file] = File(c)]
    BY <1>0, <2>1, OpenTyped
  <2>3. \A d : Keeps(d)
    <3>1. table' = table \/ Opens
      BY <1>0, <2>1, OpenOpens
    <3> QED BY <1>0, <2>2, <3>1, AllKept
  <2>4. FileOf(c, e.file)'
    <3>1. e.file # NoFd => table'[e.file] = File(c)
      BY <1>0, <2>2 DEF Fds
    <3> QED BY <1>0, <2>2, <3>1 DEF FileOf, NoFd, File
  <2>5. FileOf(c, job[w].file)'
    BY <1>5, <2>4 DEF FileOf, NoFd, File
  <2>6. e.file = NoFd => e.p = Nobody /\ e.left <= 0
    BY <1>6, <2>1 DEF SizeOf
  <2>7. e.file # NoFd => e.p = c /\ e.count + e.left = Bytes /\ e.left >= 0
    <3>1. e.count \in 0 .. Bytes
      <4>1. from[c] \in 0 .. Bytes
        BY <1>0 DEF PeersTypeOK
      <4> QED BY <2>1, <4>1
    <3> QED BY <1>0, <2>1, <3>1 DEF SizeOf
  <2>8. Len(got[c]) = 0
    BY <2>1
  <2>9. Runs(w, c)'
    BY <1>0, <1>3, <1>5, <1>6, <2>1, <2>5, <2>6, <2>7, <2>8 DEF Runs, NoFd, Nobody
  <2>10. \A d \in Clients : Undisturbed(d)
    BY <1>3, <2>3 DEF Undisturbed
  <2> QED BY <1>0, <1>3, <1>4, <2>3, <2>9, <2>10, RunOrderly
<1> QED BY <1>7, <1>8

(***************************************************************************)
(* What a send brings, and to whom.                                        *)
(***************************************************************************)
LEMMA SendBrings ==
  ASSUME TypeInv, Orderly, \A d \in Clients : OwnPrefix(d), NEW w \in Workers, Send(w)
  PROVE  \E c \in Clients, n \in 1 .. job[w].left, e \in Jobs :
           /\ c = data.buf[2] /\ Runs(w, c) /\ job[w].file # NoFd /\ wpc[w] = "send"
           /\ table[data.clientFd] = Sock(c) /\ data.clientFd \in Fds
           /\ e.p = job[w].p /\ e.file = job[w].file
           /\ e.count = job[w].count + n /\ e.left = job[w].left - n
           /\ job' = [job EXCEPT ![w] = e]
           /\ wpc' = [wpc EXCEPT ![w] = IF e.left <= 0 THEN "close" ELSE "send"]
           /\ \A d \in Clients \ {c} : got'[d] = got[d]
           /\ \A d \in Clients : OwnPrefix(d)'
           /\ c \in gone => got' = got
           /\ c \notin gone => Receives(c, n) /\ Len(got'[c]) = Len(got[c]) + n
<1>0. PeersTypeOK
  BY DEF TypeInv
<1>1. PICK n \in Sendable(w), e \in Jobs :
        /\ wpc[w] = "send" /\ job[w].p # Nobody
        /\ e.p = job[w].p /\ e.file = job[w].file
        /\ e.count = job[w].count + n /\ e.left = job[w].left - n
        /\ job' = [job EXCEPT ![w] = e]
        /\ Deliver(data.clientFd, job[w].p, job[w].count, n)
        /\ wpc' = [wpc EXCEPT ![w] = IF e.left <= 0 THEN "close" ELSE "send"]
  BY SendMeans
<1>2. InUse
  BY <1>1 DEF InUse
<1>3. PICK c \in Clients :
        /\ c = data.buf[2] /\ Runs(w, c) /\ table[data.clientFd] = Sock(c) /\ data.clientFd \in Fds
  BY <1>1, <1>2, TaskMeans
<1>4. job[w].file # NoFd /\ job[w].p = c /\ (c \in gone \/ job[w].count = from[c] + Len(got[c]))
  BY <1>1, <1>3 DEF Runs
<1>5. n \in 1 .. job[w].left /\ n \in Nat
  BY DEF Sendable
<1>6. PICK o : o = job[w].count
  OBVIOUS
<1>7. /\ UNCHANGED from /\ Deliver(data.clientFd, c, o, n) /\ OwnPrefix(c)
      /\ c \in gone \/ o = from[c] + Len(got[c])
  BY <1>1, <1>4, <1>6 DEF Send
<1>8. /\ \A d \in Clients \ {c} : got'[d] = got[d]
      /\ OwnPrefix(c)'
      /\ c \in gone => got' = got
      /\ c \notin gone => Receives(c, n) /\ Len(got'[c]) = Len(got[c]) + n
  BY <1>0, <1>3, <1>5, <1>7, Received
<1>9. ASSUME NEW d \in Clients PROVE OwnPrefix(d)'
  <2>1. CASE d = c
    BY <1>8, <2>1 DEF OwnPrefix
  <2>2. CASE d # c
    BY <1>7, <1>8, <2>2 DEF OwnPrefix
  <2> QED BY <2>1, <2>2
<1> QED BY <1>1, <1>3, <1>4, <1>5, <1>8, <1>9

LEMMA SendOrderly ==
  ASSUME TypeInv, Orderly, \A d \in Clients : OwnPrefix(d), NEW w \in Workers, Send(w),
         UNCHANGED <<pipe, data, ppc>>
  PROVE  Orderly'
<1>0. PeersTypeOK
  BY DEF TypeInv
<1>1. PICK c \in Clients, n \in 1 .. job[w].left, e \in Jobs :
        /\ c = data.buf[2] /\ Runs(w, c) /\ job[w].file # NoFd /\ wpc[w] = "send"
        /\ e.p = job[w].p /\ e.file = job[w].file
        /\ e.count = job[w].count + n /\ e.left = job[w].left - n
        /\ job' = [job EXCEPT ![w] = e]
        /\ wpc' = [wpc EXCEPT ![w] = IF e.left <= 0 THEN "close" ELSE "send"]
        /\ \A d \in Clients \ {c} : got'[d] = got[d]
        /\ c \in gone => got' = got
        /\ c \notin gone => Len(got'[c]) = Len(got[c]) + n
  BY SendBrings
<1>2. UNCHANGED <<table, unopened, phase, told, from, rx, gone, queue>>
  BY DEF Send
<1>3. Fds' = Fds
  BY <1>2, TableSame
<1>4. \A d : Keeps(d)
  BY <1>0, <1>2, AllKept
<1>5. \A d \in Clients \ {c} : Undisturbed(d)
  BY <1>1, <1>2, <1>4 DEF Undisturbed
<1>6. PICK there : there = IF e.left <= 0 THEN "close" ELSE "send"
  OBVIOUS
<1>7. there \in {"send", "close"} /\ there \in Places /\ wpc' = [wpc EXCEPT ![w] = there]
  BY <1>1, <1>6 DEF Places
<1>8. Workers' = Workers /\ wpc'[w] = there /\ job'[w] = e
  <2>1. Workers' = Workers /\ wpc'[w] = there
    BY <1>7, WpcSet
  <2>2. job'[w] = e
    BY <1>1 DEF TypeInv, WorkersInv
  <2> QED BY <2>1, <2>2
<1>9. /\ job[w].count \in Nat /\ job[w].left \in Int /\ n \in Nat
      /\ from[c] \in Nat /\ Len(got[c]) \in Nat /\ Bytes \in Nat
  <2>1. job[w] \in Jobs
    BY DEF TypeInv, WorkersInv
  <2>2. job[w].count \in Nat /\ job[w].left \in Int
    BY <2>1 DEF Jobs
  <2>3. from[c] \in Nat /\ Len(got[c]) \in Nat
    BY <1>0, PrefixIsPart
  <2> QED BY <2>2, <2>3, NumbersAssumption
<1>10. Runs(w, c)'
  <2>1. /\ FileOf(c, e.file) /\ e.p = c
        /\ job[w].left >= 0 /\ job[w].count + job[w].left = Bytes
        /\ c \in gone \/ job[w].count = from[c] + Len(got[c])
    BY <1>1 DEF Runs
  <2>2. /\ e.left >= 0 /\ e.count + e.left = Bytes
        /\ c \in gone \/ e.count = from[c] + Len(got'[c])
    BY <1>1, <1>9, <2>1
  <2>3. FileOf(c, e.file)'
    BY <1>4, <2>1 DEF Keeps
  <2>4. FileOf(c, job[w].file)'
    BY <1>8, <2>3 DEF FileOf, NoFd, File
  <2>5. wpc'[w] = "close" => e.left <= 0
    BY <1>6, <1>8
  <2> QED BY <1>1, <1>2, <1>8, <2>1, <2>2, <2>4, <2>5 DEF Runs, NoFd, Nobody
<1>11. wpc[w] # "idle"
  BY <1>1
<1> QED BY <1>1, <1>2, <1>3, <1>4, <1>5, <1>7, <1>10, <1>11, RunOrderly

\* Everything is sent, or the client has left.
LEMMA EndOrderly ==
  ASSUME TypeInv, Orderly, NEW w \in Workers, SendNothing(w) \/ SendFails(w),
         UNCHANGED <<pipe, data, ppc>>
  PROVE  Orderly'
<1>0. PeersTypeOK
  BY DEF TypeInv
<1>1. /\ wpc[w] = "send" /\ wpc' = [wpc EXCEPT ![w] = "close"] /\ UNCHANGED <<peerVars, queue, job>>
      /\ SentAll(job[w].left) \/ (IsSock(data.clientFd) /\ Owner(data.clientFd) \in gone)
  BY DEF SendNothing, SendFails, GoTo
<1>2. InUse
  BY <1>1 DEF InUse
<1>3. PICK c \in Clients :
        /\ c = data.buf[2] /\ Runs(w, c) /\ table[data.clientFd] = Sock(c) /\ data.clientFd \in Fds
  BY <1>1, <1>2, TaskMeans
<1>4. c \in gone \/ job[w].left <= 0
  BY <1>1, <1>3, MeansSock DEF SentAll
<1>5. \A d : Keeps(d)
  BY <1>0, <1>1, AllKept DEF peerVars
<1>6. \A d \in Clients : Undisturbed(d)
  BY <1>1, <1>5 DEF Undisturbed, peerVars
<1>7. Runs(w, c)'
  <2>1. PICK x : x = job[w].file
    OBVIOUS
  <2>2. FileOf(c, x)'
    BY <1>3, <1>5, <2>1 DEF Keeps, Runs
  <2>3. FileOf(c, job[w].file)'
    BY <1>1, <2>1, <2>2 DEF FileOf, NoFd, File
  <2> QED BY <1>1, <1>3, <1>4, <2>3 DEF Runs, NoFd, Nobody, peerVars
<1>8. /\ Fds' = Fds /\ UNCHANGED <<rx, phase, from>>
  BY <1>1, TableSame DEF peerVars
<1>9. "close" \in {"send", "close"} /\ wpc[w] # "idle"
  BY <1>1
<1> QED BY <1>1, <1>3, <1>5, <1>6, <1>7, <1>8, <1>9, RunOrderly

(***************************************************************************)
(* What is closed is the client's own socket and file.                     *)
(***************************************************************************)
LEMMA CloseMeans ==
  ASSUME TypeInv, Orderly, NEW w \in Workers, Close(w)
  PROVE  \E c \in Clients :
           /\ c = data.buf[2] /\ Runs(w, c) /\ wpc[w] = "close"
           /\ table[data.clientFd] = Sock(c) /\ data.clientFd \in Fds
           /\ table'[data.clientFd] = Free /\ Fds' = Fds
           /\ \A y \in Fds : \/ table'[y] = table[y]
                             \/ y = data.clientFd
                             \/ table[y] = File(c) /\ table'[y] = Free
<1>0. PeersTypeOK
  BY DEF TypeInv
<1>1. wpc[w] = "close" /\ table' = Closed({data.clientFd, job[w].file})
  BY DEF Close, GoTo
<1>2. InUse
  BY <1>1 DEF InUse
<1>3. PICK c \in Clients :
        /\ c = data.buf[2] /\ Runs(w, c) /\ table[data.clientFd] = Sock(c) /\ data.clientFd \in Fds
  BY <1>1, <1>2, TaskMeans
<1>4. job[w].file = NoFd \/ table[job[w].file] = File(c)
  BY <1>3 DEF Runs, FileOf
<1>5. /\ Fds' = Fds
      /\ \A y \in Fds : table'[y] = IF y \in {data.clientFd, job[w].file} THEN Free ELSE table[y]
  BY <1>0, <1>1, TableClosed
<1>6. NoFd \notin Fds
  BY <1>0, FdsAreNumbers
<1> QED BY <1>1, <1>3, <1>4, <1>5, <1>6

LEMMA CloseOrderly ==
  ASSUME TypeInv, Orderly, NEW w \in Workers, Close(w), UNCHANGED <<pipe, data, ppc>>
  PROVE  Orderly'
<1>1. PICK c \in Clients :
        /\ c = data.buf[2] /\ wpc[w] = "close" /\ Fds' = Fds
        /\ table[data.clientFd] = Sock(c) /\ data.clientFd \in Fds
        /\ \A y \in Fds : \/ table'[y] = table[y]
                          \/ y = data.clientFd
                          \/ table[y] = File(c) /\ table'[y] = Free
  BY CloseMeans
<1>2. /\ UNCHANGED <<gone, phase, told, from, rx, got, unopened, queue>>
      /\ wpc' = [wpc EXCEPT ![w] = "idle"]
  BY DEF Close, GoTo
<1>3. InUse
  BY <1>1 DEF InUse
<1>4. \A d \in Clients \ {c} : Undisturbed(d)
  <2>1. ASSUME NEW d \in Clients \ {c} PROVE Keeps(d)
    <3>1. \A y \in Fds : table'[y] = table[y] \/ (table[y] # Sock(d) /\ table[y] # File(d))
      BY <1>1, <2>1, Kinds
    <3> QED BY <1>1, <1>2, <3>1, KeepsIf
  <2> QED BY <1>2, <2>1 DEF Undisturbed
<1>5. OnePlace' /\ RequestInv'
  BY <1>1, <1>2, <1>3, <1>4, TransferOrderly
<1>6. ~InUse'
  <2>1. "idle" \in Places
    BY DEF Places
  <2>2. Workers' = Workers /\ wpc'[w] = "idle" /\ \A v \in Workers : v # w => wpc'[v] = wpc[v]
    BY <1>2, <2>1, WpcSet
  <2>3. queue = <<>> /\ \A v \in Workers : v # w => wpc[v] = "idle"
    BY <1>1, <1>3, TaskMeans
  <2> QED BY <1>2, <2>2, <2>3 DEF InUse
<1> QED BY <1>5, <1>6, IdleTask DEF Orderly

LEMMA OrderlyStep ==
  ASSUME ServerAInv, [Next]_vars, ~overwritten', ~exited'
  PROVE  Orderly'
<1>1. TypeInv /\ ConnInv
  BY DEF ServerAInv
<1>2. CASE Still
  <2>1. /\ UNCHANGED <<pipe, data, ppc, queue, wpc, job, phase, told, rx, from, got, gone, unopened>>
        /\ table' = table /\ ~overwritten /\ ~exited
    BY <1>2 DEF Still, peerVars, parserVars
  <2>2. Orderly /\ PeersTypeOK
    BY <2>1 DEF ServerAInv, TypeInv
  <2>3. \A d : Keeps(d)
    BY <2>1, <2>2, AllKept
  <2>4. \A d \in Clients : Undisturbed(d)
    BY <2>1, <2>3 DEF Undisturbed
  <2>5. PICK T : T = {}
    OBVIOUS
  <2>6. /\ \A d \in T : ~InPipe(d) /\ ~InHand(d) /\ ~InTask(d) /\ ClientInv(d)'
        /\ \A d \in Clients \ T : Undisturbed(d)
    BY <2>4, <2>5
  <2>7. Fds' = Fds /\ gone \subseteq gone'
    BY <2>1, TableSame
  <2> QED BY <1>1, <2>1, <2>2, <2>6, <2>7, OutsideOrderly
<1>3. CASE ~Still
  <2>1. ~exited
    BY <1>3, NextCases
  <2>2. ASSUME NEW c \in Clients, ClientStep(c) \/ Stall(c) PROVE overwritten' = overwritten
    BY <2>2 DEF ClientStep, Stall, parserVars
  <2>3. ASSUME NEW x \in Fds, RecvFrame(x) PROVE overwritten' = overwritten
    BY <2>3 DEF RecvFrame
  <2>4. CASE ReadHeader
    <3>1. ~overwritten
      BY <2>4 DEF ReadHeader
    <3>2. UNCHANGED <<exited, wpc, job>>
      <4>1. ppc' # ppc
        BY <2>4 DEF ReadHeader
      <4>2. ASSUME NEW c \in Clients, ClientStep(c) \/ Stall(c) PROVE ppc' = ppc
        BY <4>2 DEF ClientStep, Stall, parserVars
      <4>3. ASSUME NEW x \in Fds, RecvFrame(x) PROVE ppc' = ppc
        BY <4>3 DEF RecvFrame
      <4>4. Accept \/ Return => ppc' = ppc
        BY DEF Accept, Return, parserVars
      <4> QED BY <1>3, <4>1, <4>2, <4>3, <4>4, NextCases
    <3> QED BY <1>1, <2>1, <2>4, <3>1, <3>2, ReadOrderly DEF ServerAInv
  <2>5. CASE ~ReadHeader
    <3>1. overwritten' = overwritten
      <4>1. CASE Accept \/ Return
        BY <4>1 DEF Accept, Return, parserVars
      <4>2. CASE ReadBuf \/ HandleNormal \/ FileNotExit \/ HandleEnsure \/ HandleResume
        BY <4>2 DEF ReadBuf, HandleNormal, FileNotExit, HandleEnsure, HandleResume, Handle
      <4> QED BY <1>3, <2>2, <2>3, <2>5, <4>1, <4>2, NextCases
    <3>2. Orderly /\ \A d \in Clients : OwnPrefix(d)
      BY <2>1, <3>1 DEF ServerAInv, OwnBytes
    <3>3. ASSUME NEW c \in Clients, ClientStep(c) \/ Stall(c) PROVE Orderly'
      BY <1>1, <3>2, <3>3, ClientsOrderly
    <3>4. CASE Accept
      <4>1. PICK c \in Clients : c = Head(backlog)
        BY <1>1, <3>4 DEF Accept, TakeConnection, TypeInv, PeersTypeOK
      <4> QED BY <1>1, <3>2, <3>4, <4>1, ClientsOrderly
    <3>5. ~Return
      BY DEF Return
    <3>6. ASSUME NEW x \in Fds, RecvFrame(x) PROVE Orderly'
      BY <1>1, <3>2, <3>6, RecvOrderly
    <3>7. CASE /\ ReadBuf \/ HandleNormal \/ FileNotExit \/ HandleEnsure \/ HandleResume
               /\ UNCHANGED <<stalled, exited, wpc, job>>
      BY <1>1, <3>2, <3>7, ReadOrderly, AnswerOrderly, AddOrderly
    <3>8. ASSUME NEW w \in Workers,
                 \/ Take(w) \/ MapConfirmed(w) \/ MapResumed(w) \/ Send(w)
                 \/ SendNothing(w) \/ SendFails(w) \/ Close(w),
                 UNCHANGED <<pipe, data, ppc>>
          PROVE  Orderly'
      BY <1>1, <3>2, <3>8, TakeOrderly, MapOrderly, SendOrderly, EndOrderly, CloseOrderly
    <3> QED BY <1>3, <2>5, <3>3, <3>4, <3>5, <3>6, <3>7, <3>8, NextCases
  <2> QED BY <2>4, <2>5
<1> QED BY <1>2, <1>3
-----------------------------------------------------------------------------
(* Own bytes, and a socket closed for a cause.                             *)

\* Only connect, a send and the accept that fails change these.
LEMMA Stays ==
  ASSUME TypeInv, [Next]_vars
  PROVE  /\ gone \subseteq gone' /\ unopened \subseteq unopened'
         /\ exited => exited' /\ got' = got /\ from' = from
         /\ overwritten => overwritten'
         /\ exited' => exited \/ Return
         /\ got' = got \/ \E w \in Workers : Send(w)
         /\ from' = from \/ \E c \in Clients : Connect(c)
<1> DEFINE Calm == UNCHANGED <<gone, unopened, got, from, exited, overwritten>>
           Goal == /\ gone \subseteq gone' /\ unopened \subseteq unopened'
                   /\ exited => exited' /\ got' = got /\ from' = from
                   /\ overwritten => overwritten'
                   /\ exited' => exited \/ Return
                   /\ got' = got \/ \E w \in Workers : Send(w)
                   /\ from' = from \/ \E c \in Clients : Connect(c)
<1> SUFFICES Goal
  OBVIOUS
<1>0. PeersTypeOK
  BY DEF TypeInv
<1>1. Calm => Goal
  OBVIOUS
<1>2. CASE Still
  BY <1>2 DEF Still, peerVars, parserVars
<1>3. ASSUME NEW c \in Clients, ~exited, ClientStep(c) \/ Stall(c) PROVE Goal
  BY <1>3 DEF ClientStep, Connect, Confirm, Leave, Stall, peerVars, parserVars
<1>4. CASE ~exited /\ (Accept \/ Return)
  BY <1>4 DEF Accept, Return, TakeConnection, parserVars
<1>5. ASSUME NEW x \in Fds, RecvFrame(x) PROVE Calm
  BY <1>5 DEF RecvFrame, TakeFrame
<1>6. ASSUME ReadHeader, UNCHANGED <<stalled, exited, wpc, job>> PROVE Goal
  BY <1>6 DEF ReadHeader, peerVars
<1>7. ASSUME ReadBuf \/ FileNotExit \/ HandleEnsure \/ HandleResume,
             UNCHANGED <<stalled, exited, wpc, job>>
      PROVE  Calm
  BY <1>7 DEF ReadBuf, FileNotExit, HandleEnsure, HandleResume, Handle, peerVars
<1>8. ASSUME HandleNormal, UNCHANGED <<stalled, exited, wpc, job>> PROVE Goal
  <2>1. unopened \subseteq unopened'
    BY <1>8 DEF HandleNormal, Open
  <2> QED BY <1>8, <2>1 DEF HandleNormal, Handle
<1>9. ASSUME NEW w \in Workers, UNCHANGED <<exited, overwritten>>,
             \/ Take(w) \/ MapConfirmed(w) \/ SendNothing(w) \/ SendFails(w) \/ Close(w)
      PROVE  Calm
  BY <1>9 DEF Take, MapConfirmed, SendNothing, SendFails, Close, peerVars
<1>10. ASSUME NEW w \in Workers, UNCHANGED <<exited, overwritten>>, MapResumed(w)
       PROVE  Goal
  <2>1. unopened \subseteq unopened'
    BY <1>10 DEF MapResumed, Open
  <2> QED BY <1>10, <2>1 DEF MapResumed
<1>11. ASSUME NEW w \in Workers, UNCHANGED <<exited, overwritten>>, Send(w), ~exited
       PROVE  Goal
  BY <1>11 DEF Send
<1> HIDE DEF Goal, Calm
<1> QED BY <1>1, <1>2, <1>3, <1>4, <1>5, <1>6, <1>7, <1>8, <1>9, <1>10, <1>11, NextCases

(***************************************************************************)
(* A step shuts at most the client whose transfer it ends.                 *)
(***************************************************************************)
LEMMA ShutSame ==
  ASSUME TypeInv, ConnInv, [Next]_vars, ~Return, \A w \in Workers : ~Close(w)
  PROVE  \A d \in Clients : Shut(d)' <=> Shut(d)
<1>0. PeersTypeOK /\ Fds' = Fds
  BY StepPeers DEF TypeInv
<1>1. CASE Accept
  <2>1. PICK x \in Fds : x = LowestFree /\ table[x] = Free
    BY <1>0, <1>1, LowestFreeIsFree DEF Accept, TakeConnection
  <2>2. PICK h \in Clients : h = Head(backlog) /\ h \in Elems(backlog)
    BY <1>0, <1>1, TailElems DEF Accept, TakeConnection, PeersTypeOK
  <2>3. table' = [table EXCEPT ![x] = Sock(h)] /\ accepted' = accepted \cup {h}
    BY <1>1, <2>1, <2>2 DEF Accept, TakeConnection
  <2>4. Sock(h) \in Owners
    BY DEF Owners
  <2>5. table'[x] = Sock(h) /\ \A y \in Fds : y # x => table'[y] = table[y]
    BY <1>0, <2>1, <2>3, <2>4, TableAfter
  <2>6. h \notin accepted
    BY <2>2 DEF ConnInv
  <2>7. \A p : Sock(p) # Free /\ (Sock(p) = Sock(h) => p = h)
    BY Kinds
  <2>8. ASSUME NEW d \in Clients PROVE Shut(d)' <=> Shut(d)
    <3>1. CASE d = h
      <4>1. table'[x] = Sock(d) /\ d \notin accepted
        BY <2>5, <2>6, <3>1
      <4> QED BY <1>0, <4>1 DEF Shut, Sock
    <3>2. CASE d # h
      <4>1. \A y \in Fds : table'[y] = Sock(d) <=> table[y] = Sock(d)
        BY <2>1, <2>5, <2>7, <3>2
      <4> QED BY <1>0, <2>3, <3>2, <4>1 DEF Shut, Sock
    <3> QED BY <3>1, <3>2
  <2> QED BY <2>8
<1>2. CASE ~Accept
  <2>1. accepted' = accepted
    <3>1. ASSUME NEW c \in Clients, Connect(c) PROVE accepted' = accepted
      BY <3>1 DEF Connect
    <3> QED BY <1>2, <3>1, StepClients
  <2>2. \A y \in Fds : \A d \in Clients : table'[y] = Sock(d) <=> table[y] = Sock(d)
    <3>1. table' = table \/ Opens
      BY <1>2, StepTable
    <3> QED BY <1>0, <3>1, OpensMeans, Kinds
  <2> QED BY <1>0, <2>1, <2>2 DEF Shut, Sock
<1> QED BY <1>1, <1>2

LEMMA ShutClose ==
  ASSUME TypeInv, ConnInv, Orderly, NEW w \in Workers, Close(w)
  PROVE  \E c \in Clients :
           /\ Runs(w, c) /\ wpc[w] = "close"
           /\ ~Shut(c) /\ \A d \in Clients : Shut(d)' <=> Shut(d) \/ d = c
<1>1. PICK c \in Clients :
        /\ Runs(w, c) /\ wpc[w] = "close" /\ Fds' = Fds
        /\ table[data.clientFd] = Sock(c) /\ data.clientFd \in Fds
        /\ table'[data.clientFd] = Free
        /\ \A y \in Fds : \/ table'[y] = table[y]
                          \/ y = data.clientFd
                          \/ table[y] = File(c) /\ table'[y] = Free
  BY CloseMeans
<1>2. accepted' = accepted
  BY DEF Close
<1>3. c \in accepted /\ \A y \in Fds : table[y] = Sock(c) => y = data.clientFd
  BY <1>1 DEF ConnInv
<1>4. \A p, q : Sock(p) # Free /\ (Sock(p) = Sock(q) => p = q) /\ Sock(p) # File(q)
  BY Kinds
<1>5. ~Shut(c)
  BY <1>1 DEF Shut
<1>6. \A y \in Fds : table'[y] # Sock(c)
  BY <1>1, <1>3, <1>4
<1>7. ASSUME NEW d \in Clients, d # c, NEW y \in Fds
      PROVE  table'[y] = Sock(d) <=> table[y] = Sock(d)
  BY <1>1, <1>4, <1>7
<1>8. ASSUME NEW d \in Clients PROVE Shut(d)' <=> Shut(d) \/ d = c
  <2>1. CASE d = c
    BY <1>1, <1>2, <1>3, <1>6, <2>1 DEF Shut, Sock
  <2>2. CASE d # c
    BY <1>1, <1>2, <1>7, <2>2 DEF Shut, Sock
  <2> QED BY <2>1, <2>2
<1> QED BY <1>1, <1>5, <1>8

\* The transfer that ends has sent everything, unless the client has left.
LEMMA EndIsDone ==
  ASSUME TypeInv, NEW w \in Workers, NEW c \in Clients, Runs(w, c), wpc[w] = "close"
  PROVE  c \in gone \/ c \in unopened \/ Complete(c)
<1>0. PeersTypeOK
  BY DEF TypeInv
<1>1. CASE job[w].file = NoFd
  BY <1>1, FdsAreNumbers, <1>0 DEF Runs, FileOf
<1>2. CASE job[w].file # NoFd /\ c \notin gone
  <2>1. /\ job[w].left >= 0 /\ job[w].left <= 0 /\ job[w].count + job[w].left = Bytes
        /\ job[w].count = from[c] + Len(got[c])
    BY <1>2 DEF Runs
  <2>2. job[w] \in Jobs
    BY DEF TypeInv, WorkersInv
  <2>3. job[w].count \in Nat /\ job[w].left \in Int
    BY <2>2 DEF Jobs
  <2>4. from[c] \in Nat /\ Len(got[c]) \in Nat
    BY <1>0, PrefixIsPart
  <2> QED BY <2>1, <2>3, <2>4, NumbersAssumption DEF Complete
<1> QED BY <1>1, <1>2

LEMMA PrefixStep ==
  ASSUME ServerAInv, [Next]_vars, ~overwritten', NEW c \in Clients
  PROVE  OwnPrefix(c)'
<1>1. TypeInv /\ ~overwritten /\ \A d \in Clients : OwnPrefix(d)
  BY Stays DEF ServerAInv, OwnBytes
<1>2. CASE got' = got /\ from' = from
  BY <1>1, <1>2 DEF OwnPrefix
<1>3. CASE ~(got' = got /\ from' = from)
  <2>1. ~exited /\ Orderly
    BY <1>1, <1>3, Stays DEF ServerAInv
  <2>2. ASSUME NEW w \in Workers, Send(w) PROVE OwnPrefix(c)'
    BY <1>1, <2>1, <2>2, SendBrings
  <2>3. ASSUME NEW d \in Clients, Connect(d) PROVE OwnPrefix(c)'
    <3>1. got[d] = <<>> /\ got' = got /\ \A e \in Clients \ {d} : from'[e] = from[e]
      <4>1. phase[d] = "away" /\ ClientInv(d)
        BY <2>1, <2>3 DEF Connect, Orderly, RequestInv
      <4> QED BY <1>1, <2>3, <4>1 DEF Connect, ClientInv, TypeInv, PeersTypeOK
    <3>2. CASE c = d
      <4>1. got'[c] = <<>> /\ Len(got'[c]) = 0
        BY <3>1, <3>2
      <4>2. [i \in 1 .. 0 |-> <<c, from'[c] + i>>] = <<>>
        OBVIOUS
      <4> QED BY <4>1, <4>2 DEF OwnPrefix
    <3>3. CASE c # d
      BY <1>1, <3>1, <3>3 DEF OwnPrefix
    <3> QED BY <3>2, <3>3
  <2> QED BY <1>1, <1>3, <2>2, <2>3, Stays
<1> QED BY <1>2, <1>3

(***************************************************************************)
(* What a client has whose socket is closed stays as it is.                *)
(***************************************************************************)
LEMMA ShutKeeps ==
  ASSUME ServerAInv, [Next]_vars, ~overwritten', ~exited', NEW c \in Clients, Shut(c)
  PROVE  from'[c] = from[c] /\ got'[c] = got[c]
<1>1. TypeInv /\ ConnInv /\ Orderly /\ \A d \in Clients : OwnPrefix(d)
  BY Stays DEF ServerAInv, OwnBytes
<1>2. PeersTypeOK
  BY <1>1 DEF TypeInv
<1>3. from'[c] = from[c]
  <2>1. ASSUME NEW d \in Clients, Connect(d) PROVE from'[c] = from[c]
    <3>1. d # c
      BY <1>1, <2>1 DEF Connect, Shut, ConnInv
    <3> QED BY <1>2, <2>1, <3>1 DEF Connect, PeersTypeOK
  <2> QED BY <1>1, <2>1, Stays
<1>4. got'[c] = got[c]
  <2>1. ASSUME NEW w \in Workers, Send(w) PROVE got'[c] = got[c]
    <3>1. PICK d \in Clients :
            /\ table[data.clientFd] = Sock(d) /\ data.clientFd \in Fds
            /\ \A e \in Clients \ {d} : got'[e] = got[e]
      BY <1>1, <2>1, SendBrings
    <3>2. c # d
      BY <3>1 DEF Shut
    <3> QED BY <3>1, <3>2
  <2> QED BY <1>1, <2>1, Stays
<1> QED BY <1>3, <1>4

LEMMA OwnBytesStep ==
  ASSUME ServerAInv, [Next]_vars
  PROVE  OwnBytes'
<1> SUFFICES ASSUME ~overwritten', NEW c \in Clients
             PROVE  /\ OwnPrefix(c)'
                    /\ (Shut(c) /\ c \notin gone => Complete(c) \/ c \in unopened \/ exited)'
  BY DEF OwnBytes
<1>1. OwnPrefix(c)'
  BY PrefixStep
<1>2. ASSUME Shut(c)', c \notin gone', ~exited'
      PROVE  Complete(c)' \/ c \in unopened'
  <2>1. /\ TypeInv /\ ConnInv /\ Orderly /\ OwnBytes /\ ~exited /\ ~overwritten
        /\ gone \subseteq gone' /\ unopened \subseteq unopened'
    BY <1>2, Stays DEF ServerAInv
  <2>2. CASE Shut(c)
    <3>1. from'[c] = from[c] /\ got'[c] = got[c]
      BY <1>2, <2>2, ShutKeeps
    <3>2. Complete(c) \/ c \in unopened
      BY <1>2, <2>1, <2>2 DEF OwnBytes
    <3> QED BY <2>1, <3>1, <3>2 DEF Complete
  <2>3. CASE ~Shut(c)
    <3>1. ~Return
      BY <1>2 DEF Return
    <3>2. PICK w \in Workers : Close(w)
      BY <1>2, <2>1, <2>3, <3>1, ShutSame
    <3>3. Runs(w, c) /\ wpc[w] = "close"
      BY <1>2, <2>1, <2>3, <3>2, ShutClose
    <3>4. c \in gone \/ c \in unopened \/ Complete(c)
      BY <2>1, <3>3, EndIsDone
    <3>5. UNCHANGED <<from, got>>
      BY <3>2 DEF Close
    <3> QED BY <1>2, <2>1, <3>4, <3>5 DEF Complete
  <2> QED BY <2>2, <2>3
<1> QED BY <1>1, <1>2
-----------------------------------------------------------------------------
(* The invariant, and what it says of every state.                         *)

LEMMA InvInit ==
  ASSUME Init
  PROVE  ServerAInv
<1>1. PICK n \in Limits : table = [x \in 1 .. n |-> Free]
  BY DEF Init, PeersInit
<1>2. /\ n \in Nat /\ Fds = 1 .. n /\ \A x \in Fds : table[x] = Free
      /\ table \in [1 .. n -> Owners]
  BY <1>1, NumbersAssumption DEF Fds, Owners
<1>3. /\ backlog = <<>> /\ accepted = {} /\ gone = {} /\ unopened = {}
      /\ phase = [c \in Clients |-> "away"] /\ told = [c \in Clients |-> NoFd]
      /\ from = [c \in Clients |-> 0] /\ rx = [c \in Clients |-> NoFrame]
      /\ got = [c \in Clients |-> <<>>]
      /\ stalled = {} /\ exited = FALSE /\ pipe = <<>> /\ queue = <<>>
      /\ ppc \in {"read", "unstarted"}
      /\ data = [fn |-> "none", clientFd |-> NoFd, buf |-> <<"none", Nobody, 0>>]
      /\ overwritten = FALSE
  BY DEF Init, PeersInit, ParserStarts, NoData
<1>4. PICK m \in Pools : /\ wpc = [w \in 1 .. m |-> "idle"]
                         /\ job = [w \in 1 .. m |-> NoJob]
                         /\ wait = [w \in 1 .. m |-> "awake"]
  BY DEF Init
<1>5. PeersTypeOK
  <2>1. got \in [Clients -> Seq(Clients \X (1 .. Bytes))]
    BY <1>3
  <2>2. told \in [Clients -> Numbers] /\ from \in [Clients -> 0 .. Bytes]
    BY <1>3, NumbersAssumption DEF Numbers
  <2>3. rx \in [Clients -> {NoFrame} \cup Messages] /\ backlog \in Seq(Clients)
    BY <1>3
  <2> QED BY <1>2, <1>3, <2>1, <2>2, <2>3 DEF PeersTypeOK
<1>6. Elems(pipe) = {} /\ Elems(queue) = {} /\ Elems(backlog) = {}
  BY <1>3 DEF Elems
<1>7. Workers = 1 .. m /\ \A w \in Workers : wpc[w] = "idle" /\ job[w] = NoJob
  BY <1>4 DEF Workers
<1>8. ~InUse
  BY <1>3, <1>7 DEF InUse
<1>9. TypeInv
  <2>1. data \in Records
    BY <1>3 DEF Records, Buffers, Numbers
  <2>2. pipe \in Seq(Records)
    BY <1>3
  <2>3. ParserInv
    BY <1>3, <1>6, <2>1, <2>2 DEF ParserInv
  <2>4. NoJob \in Jobs
    BY DEF NoJob, Jobs, NoFd
  <2>5. job \in [Workers -> Jobs] /\ wait \in [Workers -> WaitStates]
    BY <1>4, <1>7, <2>4 DEF WaitStates
  <2>6. \A w \in Workers : job[w].p # Nobody => job[w].left \in 0 .. Bytes - job[w].count
    BY <1>7 DEF NoJob
  <2>7. queue \in Seq({"ensure", "resume"})
    BY <1>3
  <2>8. wpc \in [1 .. m -> {"idle", "ensure", "resume", "send", "close"}]
    BY <1>4
  <2>9. WorkersInv
    BY <2>5, <2>6, <2>7, <2>8 DEF WorkersInv
  <2> QED BY <1>3, <1>5, <1>8, <2>3, <2>9 DEF TypeInv
<1>10. ConnInv
  <2>1. \A x \in Fds : \A c \in Clients : table[x] # Sock(c)
    BY <1>2, Kinds
  <2> QED BY <1>3, <1>6, <2>1 DEF ConnInv
<1>11. OwnBytes
  BY <1>3 DEF OwnBytes, OwnPrefix, Shut
<1>12. Orderly
  <2>1. OneTask
    BY <1>3, <1>7, <1>8 DEF OneTask
  <2>2. OnePlace
    <3>1. \A c \in Clients : ~InSocket(c) /\ ~InPipe(c)
      BY <1>3, <1>6 DEF InSocket, InPipe
    <3> QED BY <1>3, <3>1 DEF OnePlace
  <2>3. RequestInv
    BY <1>3, <1>6 DEF RequestInv, ClientInv, InSocket
  <2>4. TaskInv
    BY <1>6, <1>7, <1>8 DEF TaskInv
  <2> QED BY <2>1, <2>2, <2>3, <2>4 DEF Orderly
<1> QED BY <1>9, <1>10, <1>11, <1>12 DEF ServerAInv

LEMMA InvStep ==
  ASSUME ServerAInv, [Next]_vars
  PROVE  ServerAInv'
<1>1. TypeInv' /\ ConnInv'
  BY TypeStep, ConnStep DEF ServerAInv
<1>2. OwnBytes'
  BY OwnBytesStep
<1>3. ~overwritten' /\ ~exited' => Orderly'
  BY OrderlyStep
<1> QED BY <1>1, <1>2, <1>3 DEF ServerAInv

(***************************************************************************)
(* What ServerAInv says holds at every step of the loop, the parser, the   *)
(* pool's threads and the clients.                                         *)
(***************************************************************************)
THEOREM Invariance == Spec => []ServerAInv
<1>1. Init => ServerAInv
  BY InvInit
<1>2. ServerAInv /\ [Next]_vars => ServerAInv'
  BY InvStep
<1> QED BY <1>1, <1>2, PTL DEF Spec

(***************************************************************************)
(* The variables of the loop, the parser and the pool's threads always     *)
(* have their types, and no transfer goes past the end of its file.        *)
(***************************************************************************)
THEOREM Typed == Spec => []TypeOK
<1>1. ServerAInv => TypeOK
  <2> SUFFICES ASSUME TypeInv PROVE TypeOK
    BY DEF ServerAInv
  <2>1. exited \in BOOLEAN /\ overwritten \in BOOLEAN
    BY DEF TypeInv
  <2>2. \A e \in {exited, overwritten} : e \in BOOLEAN
    BY ONLY <2>1, Zenon
  <2>3. {exited, overwritten} \subseteq BOOLEAN
    BY ONLY <2>2, Zenon
  <2>4. PICK n \in Pools : wpc \in [1 .. n -> {"idle", "ensure", "resume", "send", "close"}]
    BY DEF TypeInv, WorkersInv
  <2>5. wait \in [1 .. n -> WaitStates]
    BY <2>4 DEF TypeInv, WorkersInv, Workers
  <2> QED BY <2>3, <2>4, <2>5 DEF TypeInv, ParserInv, WorkersInv, TypeOK
<1> QED BY <1>1, Invariance, PTL

(***************************************************************************)
(* As long as no frame is read into the record that a transfer uses, each  *)
(* client has its own bytes in order, and its socket is closed only when   *)
(* it has everything, has left, or its file did not open.                  *)
(***************************************************************************)
THEOREM BytesAreOwn == Spec => []OwnBytes
<1>1. ServerAInv => OwnBytes
  BY DEF ServerAInv
<1> QED BY <1>1, Invariance, PTL
-----------------------------------------------------------------------------
(* The promise of Transfers, step by step.                                 *)

Released == gone \cup {c \in Clients : phase[c] = "refused"}
ShutOnes == {c \in Clients : Shut(c)}
Broken   == overwritten \/ unopened # {} \/ exited

LEMMA ReplyReleases ==
  ASSUME PeersTypeOK, NEW x \in Fds, NEW to, NEW number, Reply(x, to, number), gone' = gone
  PROVE  Released' = Released \/ \E c \in Clients : Released' = Released \cup {c}
<1>1. phase \in [Clients -> {"away", "asked", "refused", "offered", "receiving"}]
  BY DEF PeersTypeOK
<1>2. CASE phase' = phase
  BY <1>2 DEF Released
<1>3. CASE phase' # phase
  <2>1. IsSock(x) /\ phase[Owner(x)] = "asked" /\ phase' = [phase EXCEPT ![Owner(x)] = to]
    BY <1>3 DEF Reply
  <2>2. PICK c \in Clients : table[x] = Sock(c)
    BY <2>1, SockMeans
  <2>3. Owner(x) = c
    BY <2>2 DEF Owner, Sock
  <2>4. phase[c] = "asked" /\ phase'[c] = to /\ \A d \in Clients \ {c} : phase'[d] = phase[d]
    BY <1>1, <2>1, <2>3
  <2>5. Released' = IF to = "refused" THEN Released \cup {c} ELSE Released
    BY <2>4 DEF Released
  <2> QED BY <2>5
<1> QED BY <1>2, <1>3

LEMMA ReleasedStep ==
  ASSUME TypeInv, [Next]_vars
  PROVE  Released' = Released \/ \E c \in Clients : Released' = Released \cup {c}
<1>0. /\ PeersTypeOK
      /\ phase \in [Clients -> {"away", "asked", "refused", "offered", "receiving"}]
  BY DEF TypeInv, PeersTypeOK
<1> DEFINE Goal == Released' = Released \/ \E c \in Clients : Released' = Released \cup {c}
<1> SUFFICES Goal
  OBVIOUS
<1>1. UNCHANGED <<phase, gone>> => Goal
  BY DEF Released
<1>2. ASSUME NEW c \in Clients, Connect(c) \/ Confirm(c) PROVE Goal
  <2>1. /\ gone' = gone
        /\ \E to \in {"asked", "receiving"} :
             phase[c] # "refused" /\ phase' = [phase EXCEPT ![c] = to]
    BY <1>2 DEF Connect, Confirm
  <2>2. \A d \in Clients : phase'[d] = "refused" <=> phase[d] = "refused"
    BY <1>0, <2>1
  <2> QED BY <2>1, <2>2 DEF Released
<1>3. ASSUME NEW c \in Clients, Leave(c) PROVE Goal
  BY <1>3 DEF Leave, Released
<1>4. ASSUME HandleNormal \/ FileNotExit \/ HandleResume PROVE Goal
  <2>1. PICK x : x = data.clientFd
    OBVIOUS
  <2>2. x \in Fds
    BY <1>4, <2>1 DEF HandleNormal, FileNotExit, HandleResume, Handle, TypeInv, ParserInv, IsFrame
  <2>3. gone' = gone /\ \E to, number : Reply(x, to, number)
    BY <1>4, <2>1 DEF HandleNormal, FileNotExit, HandleResume, Handle
  <2> QED BY <1>0, <2>2, <2>3, ReplyReleases
<1> HIDE DEF Goal
<1>5. ASSUME NEW c \in Clients, ClientStep(c) \/ Stall(c) PROVE Goal
  BY <1>1, <1>2, <1>3, <1>5 DEF ClientStep, Stall, peerVars
<1>6. CASE Accept \/ Return
  BY <1>1, <1>6 DEF Accept, Return, TakeConnection
<1>7. ASSUME NEW x \in Fds, RecvFrame(x) PROVE Goal
  BY <1>1, <1>7 DEF RecvFrame, TakeFrame
<1>8. CASE ReadHeader \/ ReadBuf \/ HandleEnsure
  BY <1>1, <1>8 DEF ReadHeader, ReadBuf, HandleEnsure, Handle, peerVars
<1>9. ASSUME NEW w \in Workers,
             \/ Take(w) \/ MapConfirmed(w) \/ MapResumed(w) \/ Send(w)
             \/ SendNothing(w) \/ SendFails(w) \/ Close(w)
      PROVE  Goal
  BY <1>1, <1>9 DEF Take, MapConfirmed, MapResumed, Send, SendNothing, SendFails, Close, peerVars
<1>10. CASE Still
  BY <1>1, <1>10 DEF Still, peerVars
<1> QED BY <1>4, <1>5, <1>6, <1>7, <1>8, <1>9, <1>10, NextCases

LEMMA PromiseInit ==
  ASSUME Init
  PROVE  Promise!Init
<1>1. /\ from = [c \in Clients |-> 0] /\ got = [c \in Clients |-> <<>>]
      /\ accepted = {} /\ gone = {} /\ unopened = {}
      /\ phase = [c \in Clients |-> "away"] /\ exited = FALSE /\ overwritten = FALSE
  BY DEF Init, PeersInit
<1>2. from \in [Clients -> 0 .. Bytes]
  BY <1>1, NumbersAssumption
<1>3. gone \cup {c \in Clients : phase[c] = "refused"} = {}
  BY <1>1
<1>4. {c \in Clients : Shut(c)} = {}
  BY <1>1 DEF Shut
<1>5. (overwritten \/ unopened # {} \/ exited) = FALSE
  BY <1>1
<1> QED BY <1>1, <1>2, <1>3, <1>4, <1>5 DEF Promise!Init

(***************************************************************************)
(* The four kinds of steps the promise sees, while it is not broken.       *)
(***************************************************************************)
LEMMA ConnectAsks ==
  ASSUME TypeInv, ConnInv, Orderly, NEW c \in Clients, Connect(c), Broken' = Broken
  PROVE  Promise!Ask(c)
<1>1. /\ phase[c] = "away" /\ phase' = [phase EXCEPT ![c] = "asked"]
      /\ UNCHANGED <<table, accepted, gone, got>>
      /\ UNCHANGED from \/ \E n \in 0 .. Bytes : from' = [from EXCEPT ![c] = n]
  BY DEF Connect
<1>2. /\ phase \in [Clients -> {"away", "asked", "refused", "offered", "receiving"}]
      /\ from \in [Clients -> 0 .. Bytes]
  BY DEF TypeInv, PeersTypeOK
<1>3. \E n \in 0 .. Bytes : from' = [from EXCEPT ![c] = n]
  <2>1. CASE UNCHANGED from
    <3>1. from' = [from EXCEPT ![c] = from[c]] /\ from[c] \in 0 .. Bytes
      BY <1>2, <2>1
    <3> QED BY <3>1
  <2> QED BY <1>1, <2>1
<1>4. got[c] = <<>>
  BY <1>1 DEF Orderly, RequestInv, ClientInv
<1>5. ~Shut(c) /\ ShutOnes' = ShutOnes
  <2>1. c \notin accepted
    BY <1>1 DEF ConnInv
  <2>2. \A d \in Clients : Shut(d)' <=> Shut(d)
    BY <1>1 DEF Shut, Fds
  <2> QED BY <2>1, <2>2 DEF Shut, ShutOnes
<1>6. Released' = Released
  <2>1. \A d \in Clients : phase'[d] = "refused" <=> phase[d] = "refused"
    BY <1>1, <1>2
  <2> QED BY <1>1, <2>1 DEF Released
<1> QED BY <1>1, <1>3, <1>4, <1>5, <1>6 DEF Promise!Ask, Released, ShutOnes, Broken

LEMMA SendTransfers ==
  ASSUME TypeInv, Orderly, \A d \in Clients : OwnPrefix(d), NEW w \in Workers, Send(w),
         Broken' = Broken
  PROVE  Promise!Next \/ UNCHANGED Promise!vars
<1>1. PICK c \in Clients, n \in 1 .. job[w].left :
        /\ Runs(w, c) /\ job[w].file # NoFd
        /\ table[data.clientFd] = Sock(c) /\ data.clientFd \in Fds
        /\ c \in gone => got' = got
        /\ c \notin gone => Receives(c, n)
  BY SendBrings
<1>2. UNCHANGED <<table, accepted, phase, from, gone>>
  BY DEF Send
<1>3. ShutOnes' = ShutOnes /\ Released' = Released
  <2>1. \A d \in Clients : Shut(d)' <=> Shut(d)
    BY <1>2 DEF Shut, Fds
  <2> QED BY <1>2, <2>1 DEF ShutOnes, Released
<1>4. CASE c \in gone
  BY <1>1, <1>2, <1>3, <1>4 DEF Promise!vars, Released, ShutOnes, Broken
<1>5. CASE c \notin gone
  <2>1. /\ job[w].count + job[w].left = Bytes /\ job[w].count = from[c] + Len(got[c])
    BY <1>1, <1>5 DEF Runs
  <2>2. job[w].count \in Nat /\ job[w].left \in Int /\ Bytes \in Nat
    BY NumbersAssumption DEF TypeInv, WorkersInv, Jobs
  <2>3. from[c] \in Nat /\ Len(got[c]) \in Nat
    BY PrefixIsPart DEF TypeInv
  <2>4. n \in 1 .. Promise!Rest(c)
    BY <2>1, <2>2, <2>3 DEF Promise!Rest
  <2>5. Promise!Receive(c, n)
    BY <1>1, <1>5 DEF Receives, Promise!Receive
  <2>6. ~Shut(c)
    BY <1>1 DEF Shut
  <2>7. Promise!Transfer(c)
    BY <1>2, <1>3, <2>4, <2>5, <2>6 DEF Promise!Transfer, Released, ShutOnes, Broken
  <2> QED BY <2>7 DEF Promise!Next
<1> QED BY <1>4, <1>5

LEMMA CloseCloses ==
  ASSUME TypeInv, ConnInv, Orderly, NEW w \in Workers, Close(w), unopened = {}, Broken' = Broken
  PROVE  Promise!Next
<1>0. PeersTypeOK
  BY DEF TypeInv
<1>1. PICK c \in Clients :
        /\ Runs(w, c) /\ wpc[w] = "close"
        /\ ~Shut(c) /\ \A d \in Clients : Shut(d)' <=> Shut(d) \/ d = c
  BY ShutClose
<1>2. UNCHANGED <<phase, from, got, gone>>
  BY DEF Close
<1>3. c \in gone \/ Complete(c)
  BY <1>1, EndIsDone
<1>4. ShutOnes' = ShutOnes \cup {c} /\ Released' = Released
  BY <1>1, <1>2 DEF ShutOnes, Released
<1>5. CASE c \in gone
  <2>1. Promise!Close(c)
    BY <1>1, <1>2, <1>4, <1>5 DEF Promise!Close, Released, ShutOnes, Broken
  <2> QED BY <2>1 DEF Promise!Next
<1>6. CASE Complete(c)
  <2>1. /\ got \in [Clients -> Seq(Clients \X (1 .. Bytes))] /\ from[c] \in 0 .. Bytes
        /\ Bytes \in Nat
    BY <1>0, NumbersAssumption DEF PeersTypeOK
  <2>2. Promise!Rest(c) = 0
    BY <1>6, <2>1 DEF Promise!Rest, Complete
  <2>3. got[c] \o [i \in 1 .. 0 |-> <<c, from[c] + Len(got[c]) + i>>] = got[c]
    BY <2>1
  <2>4. Receives(c, 0)
    BY <1>2, <2>1, <2>3 DEF Receives
  <2>5. Promise!Receive(c, Promise!Rest(c))
    BY <2>2, <2>4 DEF Receives, Promise!Receive
  <2>6. Promise!Close(c)
    BY <1>1, <1>2, <1>4, <2>5 DEF Promise!Close, Released, ShutOnes, Broken
  <2> QED BY <2>6 DEF Promise!Next
<1> QED BY <1>3, <1>5, <1>6

LEMMA PromiseStep ==
  ASSUME ServerAInv, [Next]_vars
  PROVE  [Promise!Next]_(Promise!vars)
<1>1. CASE Broken'
  <2>1. (overwritten \/ unopened # {} \/ exited)' = TRUE
    BY <1>1 DEF Broken
  <2> QED BY <2>1 DEF Promise!Next, Promise!Break
<1>2. CASE ~Broken'
  <2>1. ~Broken /\ Broken' = Broken
    BY <1>2, Stays DEF ServerAInv, Broken
  <2>2. /\ TypeInv /\ ConnInv /\ Orderly /\ unopened = {}
        /\ \A d \in Clients : OwnPrefix(d)
    BY <2>1 DEF ServerAInv, Broken, OwnBytes
  <2>3. ASSUME NEW c \in Clients, Connect(c) PROVE Promise!Next
    BY <2>1, <2>2, <2>3, ConnectAsks DEF Promise!Next
  <2>4. ASSUME NEW w \in Workers, Send(w) PROVE Promise!Next \/ UNCHANGED Promise!vars
    BY <2>1, <2>2, <2>4, SendTransfers
  <2>5. ASSUME NEW w \in Workers, Close(w) PROVE Promise!Next
    BY <2>1, <2>2, <2>5, CloseCloses
  <2>6. CASE /\ \A c \in Clients : ~Connect(c)
             /\ \A w \in Workers : ~Send(w) /\ ~Close(w)
    <3>1. UNCHANGED <<from, got>>
      BY <2>2, <2>6, Stays
    <3>2. ShutOnes' = ShutOnes
      <4>1. ~Return
        BY <1>2 DEF Return, Broken
      <4>2. \A d \in Clients : Shut(d)' <=> Shut(d)
        BY <2>2, <2>6, <4>1, ShutSame
      <4> QED BY <4>2 DEF ShutOnes
    <3>3. Released' = Released \/ \E c \in Clients : Released' = Released \cup {c}
      BY <2>2, ReleasedStep
    <3> QED BY <2>1, <3>1, <3>2, <3>3
            DEF Promise!Next, Promise!Release, Promise!vars, Released, ShutOnes, Broken
  <2> QED BY <2>3, <2>4, <2>5, <2>6
<1> QED BY <1>1, <1>2

(***************************************************************************)
(* Every step of the loop, the parser and the pool's threads is a step of  *)
(* the promise, until a frame is read into the record that a transfer      *)
(* uses, an open fails or the process has ended.                           *)
(***************************************************************************)
THEOREM KeepsPromise == Spec => ImplementsTransfers
<1>1. Init => Promise!Init
  BY PromiseInit
<1>2. ServerAInv /\ [Next]_vars => [Promise!Next]_(Promise!vars)
  BY PromiseStep
<1> QED BY <1>1, <1>2, Invariance, PTL DEF Spec, ImplementsTransfers, Promise!Spec
=============================================================================
