------------------------------ MODULE Transfer ------------------------------
(***************************************************************************)
(* The server's side of one connection: the handlers the parser thread     *)
(* runs for a frame (analytical.cpp) and the calls of Download::run the    *)
(* downloader thread makes for the connection's task (download.cpp).       *)
(*                                                                         *)
(* Whatever ends a connection early (the process dies, the task is torn    *)
(* down because of another task's error) is ServerGone or ConnectionReset. *)
(***************************************************************************)
EXTENDS Connection

CONSTANTS
  Chunk,     \* MAX_SOCKET_BUF_SIZE: the most one send is asked to take
  AckInTime  \* the client reads the reply to a resume within usleep(30000)

ASSUME ChunkAssumption     == Chunk \in Nat \ {0}
ASSUME AckInTimeAssumption == AckInTime \in BOOLEAN

VARIABLE toSend   \* downloadData.fileSize: bytes the task still has to send

Least(a, b) == IF a < b THEN a ELSE b

Handled == request' = "none"

(***************************************************************************)
(* NormalAnalytical.  access says whether the file is there; the size goes *)
(* out with the descriptor, which stays open until the transfer.           *)
(***************************************************************************)
NormalAnalytical ==
  /\ request = "Normal"
  /\ srv = "idle"
  /\ Handled
  /\ \/ reply' = "FileExit" /\ srv' = "offered"
     \/ reply' = "FileNotExit" /\ UNCHANGED srv
  /\ UNCHANGED <<reqArg, peerOpen, offset, inFlight, toSend>>

\* EnsureAnalytical: the client has confirmed the size it was sent.
EnsureAnalytical ==
  /\ request = "Ensure"
  /\ srv = "offered"
  /\ Handled
  /\ srv' = "sending"
  /\ offset' = 0
  /\ toSend' = reqArg
  /\ UNCHANGED <<reqArg, reply, peerOpen, inFlight>>

\* ContinuinglyAnalytical up to its usleep: the reply to a resume.
ContinuinglyAnalytical ==
  /\ request = "BreakPointContinue"
  /\ srv = "idle"
  /\ Handled
  /\ \/ reply' = "Ensure" /\ srv' = "acked"
     \/ reply' = "FileNotExit" /\ UNCHANGED srv
  /\ UNCHANGED <<reqArg, peerOpen, offset, inFlight, toSend>>

\* What a resume leaves to send: fileSize - count.
RemainingShort(count) == Size - count - 1
RemainingWhole(count) == Size
Remaining(count)      == Size - count

\* Where a resume starts: the number behind the name in the frame's body.
ResumeFromStart == 0
ResumeFrom      == reqArg

(***************************************************************************)
(* ContinuinglyAnalytical after its usleep: the rest of the file becomes a *)
(* task.  The pause is there for the client to read the reply by itself;   *)
(* AckInTime says that it is long enough.                                  *)
(***************************************************************************)
AfterUsleep ==
  /\ srv = "acked"
  /\ AckInTime => reply = "none" \/ ~peerOpen
  /\ srv' = "sending"
  /\ offset' = ResumeFrom
  /\ toSend' = Remaining(ResumeFrom)
  /\ UNCHANGED <<request, reqArg, reply, peerOpen, inFlight>>

\* What one send may take: nothing when nothing is left, else what fits.
SendableBeyondEnd == 1 .. Least(Chunk, SockBuf - inFlight)

Sendable ==
  IF toSend <= 0 THEN {0}
  ELSE 1 .. Least(Least(Chunk, toSend), SockBuf - inFlight)

(***************************************************************************)
(* Download::run with a send that takes n bytes.  The task that has sent   *)
(* everything closes the socket.  A full buffer is EAGAIN: no step.        *)
(***************************************************************************)
SendChunk ==
  /\ srv = "sending"
  /\ \E n \in Sendable :
       /\ offset'   = offset + n
       /\ inFlight' = inFlight + n
       /\ toSend'   = toSend - n
       /\ srv'      = IF toSend - n <= 0 THEN "done" ELSE srv
  /\ UNCHANGED <<request, reqArg, reply, peerOpen>>

\* Download::run with a send that fails with EPIPE: the task is torn down.
SendFails ==
  /\ srv = "sending"
  /\ ~peerOpen
  /\ srv' = "lost"
  /\ UNCHANGED <<request, reqArg, reply, peerOpen, offset, inFlight, toSend>>

\* The socket is closed before everything was sent; what was sent arrives.
ServerGone ==
  /\ srv \in {"idle", "offered", "acked", "sending"}
  /\ srv' = "lost"
  /\ UNCHANGED <<request, reqArg, reply, peerOpen, offset, inFlight, toSend>>

\* The connection breaks: the client's next recv reports an error.
ConnectionReset ==
  /\ peerOpen
  /\ srv # "reset"
  /\ srv' = "reset"
  /\ UNCHANGED <<request, reqArg, reply, peerOpen, offset, inFlight, toSend>>

ParserStep ==
  \/ NormalAnalytical
  \/ EnsureAnalytical
  \/ ContinuinglyAnalytical
  \/ AfterUsleep

DownloaderStep == SendChunk \/ SendFails

TransferTypeOK == toSend \in 0 .. Size
=============================================================================
