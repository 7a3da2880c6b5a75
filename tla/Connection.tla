----------------------------- MODULE Connection -----------------------------
(***************************************************************************)
(* The TCP connection between clienta and a server, as both programs use   *)
(* it.  A frame is one unit: the 47 bytes of a request and the 20 (or 7)   *)
(* bytes of a reply each go out in one send.  File data is counted in      *)
(* bytes: TCP keeps the order, so the data in flight is determined by how  *)
(* many bytes were sent and not yet read.  The functions of a frame have   *)
(* the names of Structure::Function.                                       *)
(***************************************************************************)
EXTENDS Integers

CONSTANTS
  Size,     \* length of the file on the server, st_size of the source
  SockBuf   \* bytes the kernel buffers of a connection hold (SO_SNDBUF)

ASSUME SizeAssumption    == Size \in Nat
ASSUME SockBufAssumption == SockBuf \in Nat \ {0}

VARIABLES
  request,   \* frame sent by the client and not yet handled by the server
  reqArg,    \* the number in the body of the client's last frame
  reply,     \* frame sent by the server and not yet read by the client
  srv,       \* what the server does with this connection
  peerOpen,  \* the client's end is open
  offset,    \* source offset of the next byte the server sends
  inFlight   \* data bytes sent and not yet read

connVars == <<request, reqArg, reply, srv, peerOpen, offset, inFlight>>

Requests == {"none", "Normal", "BreakPointContinue", "Ensure"}
Replies  == {"none", "FileNotExit", "FileExit", "Ensure"}

(***************************************************************************)
(* idle: accepted;  offered: the size was sent, Ensure is awaited;  acked: *)
(* a resume was acknowledged, the handler is in usleep;  sending: a        *)
(* download task exists;  done: everything was sent and the socket closed; *)
(* lost: the socket was closed early, what was sent still arrives;  reset: *)
(* the next recv of the client fails.                                      *)
(***************************************************************************)
ServerStates ==
  {"idle", "offered", "acked", "sending", "done", "lost", "reset"}

\* The client's recv returns 0: nothing is left and the server has closed.
AtEof == inFlight = 0 /\ srv \in {"done", "lost"}

\* Source offset of the next data byte the client reads.
Head == offset - inFlight

\* connect, and the send of the first frame.
Dial(function, arg) ==
  /\ request'  = function
  /\ reqArg'   = arg
  /\ reply'    = "none"
  /\ srv'      = "idle"
  /\ peerOpen' = TRUE
  /\ offset'   = 0
  /\ inFlight' = 0

\* The client's socket is closed, by close or by the end of the process.
HangUp ==
  /\ peerOpen' = FALSE
  /\ UNCHANGED <<request, reqArg, reply, srv, offset, inFlight>>

ConnectionTypeOK ==
  /\ request  \in Requests
  /\ reqArg   \in 0 .. Size
  /\ reply    \in Replies
  /\ srv      \in ServerStates
  /\ peerOpen \in BOOLEAN
  /\ offset   \in 0 .. Size
  /\ inFlight \in 0 .. SockBuf
=============================================================================
