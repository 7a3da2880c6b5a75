------------------------------- MODULE Client -------------------------------
(***************************************************************************)
(* clienta/main.cpp: one run after another of the download client on one   *)
(* host, and the files they leave to each other on its disk.               *)
(*                                                                         *)
(*   part    the mapped file "<name>.tmp" the data is received into        *)
(*   saved   ./.tmpFile, the offset a run interrupted by ^C leaves behind  *)
(*   final   the file part is renamed to once it is complete               *)
(*                                                                         *)
(* A byte of a file is the source offset it was read at, so the byte at    *)
(* offset i is right iff it is i.  Hole is the zero ftruncate fills with.  *)
(***************************************************************************)
EXTENDS Connection

CONSTANTS
  RecvMax,        \* MAX_BUF_SIZE: the most one recv of file data returns
  HandshakeRoom,  \* what is left of buffer[128] behind a reply
  CarefulUser,    \* the user resumes only what an interrupted run announced
  MaxRuns         \* bound on the number of times the client is started

ASSUME RecvMaxAssumption       == RecvMax \in Nat \ {0}
ASSUME HandshakeRoomAssumption == HandshakeRoom \in Nat
ASSUME CarefulUserAssumption   == CarefulUser \in BOOLEAN
ASSUME MaxRunsAssumption       == MaxRuns \in Nat

VARIABLES
  cpc,         \* where the client is; "down": no client process exists
  resuming,    \* argv[1] is "-C"
  mapped,      \* p # nullptr
  breakCount,  \* bytes of the file received, over all its runs
  fileSize,    \* bytes still to receive
  length,      \* what the last recv returned
  runs,        \* how many times the client was started
  partSize, partData, finalSize, finalData, saved,
  saveMatches, \* history: saved was written by a run that had this part open
  swallowed    \* history: file data this run read into the handshake buffer

processVars == <<cpc, resuming, mapped, breakCount, fileSize, length, runs>>
partVars    == <<partSize, partData>>
finalVars   == <<finalSize, finalData>>
saveVars    == <<saved, saveMatches>>
clientVars  == <<processVars, partVars, finalVars, saveVars, swallowed>>

Offsets == 0 .. Size - 1
Hole    == -1
Absent  == -1    \* the size of a file that does not exist, an offset not saved
Empty   == [i \in Offsets |-> Hole]

ClientInit ==
  /\ cpc = "down" /\ resuming = FALSE /\ mapped = FALSE
  /\ breakCount = 0 /\ fileSize = 0 /\ length = 0 /\ runs = 0
  /\ partSize = Absent /\ partData = Empty
  /\ finalSize = Absent /\ finalData = Empty
  /\ saved = Absent /\ saveMatches = FALSE
  /\ swallowed = 0

Goto(from, to) == cpc = from /\ cpc' = to

-----------------------------------------------------------------------------
(* Starting the client.                                                    *)

Start(resume, from) ==
  /\ runs < MaxRuns
  /\ Goto("down", "handshake")
  /\ runs'       = runs + 1
  /\ resuming'   = resume
  /\ mapped'     = FALSE
  /\ breakCount' = from
  /\ fileSize'   = 0
  /\ length'     = 0
  /\ swallowed'  = 0
  /\ UNCHANGED <<partVars, finalVars, saveVars>>

\* clienta <ip> <remote file> <local file>
StartNormal == Start(FALSE, 0) /\ Dial("Normal", 0)

\* clienta -C: everything comes from ./.tmpFile.
StartResume ==
  /\ saved # Absent
  /\ CarefulUser => saveMatches
  /\ Start(TRUE, saved)
  /\ Dial("BreakPointContinue", saved)

-----------------------------------------------------------------------------
(* The handshake: one recv of up to 128 bytes, whose first frame counts.   *)
(* File data that has arrived behind the reply is read with it and dropped.*)

ReadReply(function, to) ==
  /\ reply = function
  /\ Goto("handshake", to)
  /\ reply' = "none"
  /\ \E n \in 0 .. HandshakeRoom :
       /\ n <= inFlight
       /\ inFlight'  = inFlight - n
       /\ swallowed' = n
  /\ UNCHANGED <<resuming, mapped, breakCount, length, runs>>
  /\ UNCHANGED <<partVars, finalVars, saveVars>>
  /\ UNCHANGED <<srv, offset>>

\* case 2: exit.
ReplyFileNotExit ==
  /\ ReadReply("FileNotExit", "down")
  /\ peerOpen' = FALSE
  /\ UNCHANGED <<fileSize, request, reqArg>>

\* case 3: the size is confirmed with an Ensure frame.
ReplyFileExit ==
  /\ ReadReply("FileExit", "open")
  /\ fileSize' = Size
  /\ request'  = "Ensure"
  /\ reqArg'   = Size
  /\ UNCHANGED peerOpen

\* case 4: the answer to a resume.
ReplyEnsure ==
  /\ ReadReply("Ensure", "open")
  /\ UNCHANGED <<fileSize, request, reqArg, peerOpen>>

\* The connection ends before a reply: the scan for the frame's magic number
\* runs out of the buffer.  The process crashes, or it never gets any further.
HandshakeLost ==
  /\ (srv = "lost" /\ reply = "none") \/ srv = "reset"
  /\ Goto("handshake", "down")
  /\ HangUp
  /\ UNCHANGED <<resuming, mapped, breakCount, fileSize, length, runs>>
  /\ UNCHANGED <<partVars, finalVars, saveVars, swallowed>>

-----------------------------------------------------------------------------
(* Opening and mapping the file.                                           *)

\* open(fileName, O_RDWR | O_CREAT)
OpenPart ==
  /\ Goto("open", "truncate")
  /\ partSize' = IF partSize = Absent THEN 0 ELSE partSize
  /\ UNCHANGED <<resuming, mapped, breakCount, fileSize, length, runs>>
  /\ UNCHANGED <<partData, finalVars, saveVars, swallowed, connVars>>

\* ftruncate(fd, fileSize), not on a resume
TruncatePart ==
  /\ Goto("truncate", "map")
  /\ partSize' = IF resuming THEN partSize ELSE fileSize
  /\ UNCHANGED <<resuming, mapped, breakCount, fileSize, length, runs>>
  /\ UNCHANGED <<partData, finalVars, saveVars, swallowed, connVars>>

\* fstat and mmap: an empty file is not mapped, but p is not nullptr either.
MapPart ==
  /\ Goto("map", "recv")
  /\ fileSize' = partSize - breakCount
  /\ mapped'   = TRUE
  /\ UNCHANGED <<resuming, breakCount, length, runs>>
  /\ UNCHANGED <<partVars, finalVars, saveVars, swallowed, connVars>>

-----------------------------------------------------------------------------
(* The receive loop.  recv stores the data in the file; breakCount and     *)
(* fileSize follow in steps of their own, and ^C comes between any two.    *)

Stored(n) ==
  [i \in Offsets |->
     IF i \in breakCount .. breakCount + n - 1
     THEN Head + (i - breakCount)
     ELSE partData[i]]

RecvData ==
  /\ partSize > 0
  /\ Goto("recv", "count")
  /\ \E n \in 1 .. RecvMax :
       /\ n <= inFlight
       /\ length'   = n
       /\ partData' = Stored(n)
       /\ inFlight' = inFlight - n
  /\ UNCHANGED <<resuming, mapped, breakCount, fileSize, runs, partSize>>
  /\ UNCHANGED <<finalVars, saveVars, swallowed>>
  /\ UNCHANGED <<request, reqArg, reply, srv, peerOpen, offset>>

\* recv returns 0: it is counted like data.
RecvEof ==
  /\ AtEof
  /\ Goto("recv", "count")
  /\ length' = 0
  /\ UNCHANGED <<resuming, mapped, breakCount, fileSize, runs>>
  /\ UNCHANGED <<partVars, finalVars, saveVars, swallowed, connVars>>

\* recv fails: the connection was reset, or (EFAULT) p is no mapping.  The run
\* exits, and saves nothing.
RecvError ==
  /\ srv = "reset" \/ (partSize = 0 /\ inFlight > 0)
  /\ Goto("recv", "down")
  /\ HangUp
  /\ UNCHANGED <<resuming, mapped, breakCount, fileSize, length, runs>>
  /\ UNCHANGED <<partVars, finalVars, saveVars, swallowed>>

Count ==
  /\ Goto("count", "check")
  /\ breakCount' = breakCount + length
  /\ UNCHANGED <<resuming, mapped, fileSize, length, runs>>
  /\ UNCHANGED <<partVars, finalVars, saveVars, swallowed, connVars>>

\* Nothing is left to receive.
CompleteEarly(left) == left <= 1
Complete(left)      == left <= 0

Check ==
  /\ cpc = "check"
  /\ fileSize' = fileSize - length
  /\ cpc' = IF Complete(fileSize - length) THEN "finish" ELSE "recv"
  /\ UNCHANGED <<resuming, mapped, breakCount, length, runs>>
  /\ UNCHANGED <<partVars, finalVars, saveVars, swallowed, connVars>>

\* close, and the mv of part over final.
Finish ==
  /\ Goto("finish", "exiting")
  /\ HangUp
  /\ finalSize'   = partSize
  /\ finalData'   = partData
  /\ partSize'    = Absent
  /\ partData'    = Empty
  /\ saveMatches' = FALSE
  /\ UNCHANGED <<resuming, mapped, breakCount, fileSize, length, runs>>
  /\ UNCHANGED <<saved, swallowed>>

\* close, and an mv that fails or is stopped by the ^C of the terminal.
FinishNotMoved ==
  /\ Goto("finish", "exiting")
  /\ HangUp
  /\ UNCHANGED <<resuming, mapped, breakCount, fileSize, length, runs>>
  /\ UNCHANGED <<partVars, finalVars, saveVars, swallowed>>

Exit ==
  /\ Goto("exiting", "down")
  /\ UNCHANGED <<resuming, mapped, breakCount, fileSize, length, runs>>
  /\ UNCHANGED <<partVars, finalVars, saveVars, swallowed, connVars>>

-----------------------------------------------------------------------------
(* The SIGINT handler Stop, and what no handler sees.                      *)

\* Stop with p = nullptr: exit at once, ./.tmpFile stays as it was.
StopUnmapped ==
  /\ cpc \notin {"down", "stop"}
  /\ ~mapped
  /\ cpc' = "down"
  /\ HangUp
  /\ UNCHANGED <<resuming, mapped, breakCount, fileSize, length, runs>>
  /\ UNCHANGED <<partVars, finalVars, saveVars, swallowed>>

\* Stop up to its open: ./.tmpFile is removed, the socket closed.
StopRemove ==
  /\ cpc \notin {"down", "stop"}
  /\ mapped
  /\ cpc' = "stop"
  /\ saved' = Absent
  /\ HangUp
  /\ UNCHANGED <<resuming, mapped, breakCount, fileSize, length, runs>>
  /\ UNCHANGED <<partVars, finalVars, saveMatches, swallowed>>

\* The offset Stop writes into ./.tmpFile.
OffsetToSaveAhead == breakCount + length
OffsetToSave      == breakCount

\* The rest of Stop: breakCount is written and the process ends.
StopWrite ==
  /\ Goto("stop", "down")
  /\ saved' = OffsetToSave
  /\ saveMatches' = (partSize # Absent)
  /\ UNCHANGED <<resuming, mapped, breakCount, fileSize, length, runs>>
  /\ UNCHANGED <<partVars, finalVars, swallowed, connVars>>

\* The process is killed; its files stay.
Kill ==
  /\ cpc # "down"
  /\ cpc' = "down"
  /\ HangUp
  /\ UNCHANGED <<resuming, mapped, breakCount, fileSize, length, runs>>
  /\ UNCHANGED <<partVars, finalVars, saveVars, swallowed>>

-----------------------------------------------------------------------------
\* The steps the program takes by itself.
ClientStep ==
  \/ ReplyFileNotExit \/ ReplyFileExit \/ ReplyEnsure
  \/ OpenPart \/ TruncatePart \/ MapPart
  \/ RecvData \/ RecvEof \/ RecvError \/ Count \/ Check
  \/ Finish \/ FinishNotMoved \/ Exit
  \/ StopWrite

\* What happens to it.
ClientEvent ==
  \/ StartNormal \/ StartResume
  \/ HandshakeLost
  \/ StopUnmapped \/ StopRemove
  \/ Kill

ClientTypeOK ==
  /\ cpc \in {"down", "handshake", "open", "truncate", "map", "recv", "count",
              "check", "finish", "exiting", "stop"}
  /\ resuming    \in BOOLEAN
  /\ mapped      \in BOOLEAN
  /\ breakCount  \in 0 .. Size
  /\ fileSize    \in -Size .. Size
  /\ length      \in 0 .. Size
  /\ runs        \in 0 .. MaxRuns
  /\ partSize    \in {Absent, 0, Size}
  /\ partData    \in [Offsets -> Offsets \cup {Hole}]
  /\ finalSize   \in {Absent, 0, Size}
  /\ finalData   \in [Offsets -> Offsets \cup {Hole}]
  /\ saved       \in {Absent} \cup 0 .. Size
  /\ saveMatches \in BOOLEAN
  /\ swallowed   \in 0 .. HandshakeRoom
=============================================================================
