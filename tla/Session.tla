------------------------------ MODULE Session -------------------------------
(***************************************************************************)
(* A user downloads one file: clienta (module Client), the server's side   *)
(* of its connection (module Transfer) and the connection between them.    *)
(* The user interrupts, kills, restarts and resumes the client, and the    *)
(* server or the connection may go away at any time.                       *)
(***************************************************************************)
EXTENDS Client, Transfer

vars == <<connVars, clientVars, toSend>>

Init ==
  /\ ClientInit
  /\ request = "none" /\ reqArg = 0 /\ reply = "none"
  /\ srv = "lost" /\ peerOpen = FALSE
  /\ offset = 0 /\ inFlight = 0
  /\ toSend = 0

ClientThread     == ClientStep /\ UNCHANGED toSend
ParserThread     == ParserStep /\ UNCHANGED clientVars
DownloaderThread == DownloaderStep /\ UNCHANGED clientVars

Event ==
  \/ ClientEvent /\ UNCHANGED toSend
  \/ (ServerGone \/ ConnectionReset) /\ UNCHANGED clientVars

Next == ClientThread \/ ParserThread \/ DownloaderThread \/ Event

(***************************************************************************)
(* Each of the three threads runs a loop that is never left waiting for    *)
(* anything but the scheduler.  Nothing is assumed about the user, the     *)
(* network or the fate of the server.                                      *)
(***************************************************************************)
Fairness ==
  WF_vars(ClientThread) /\ WF_vars(ParserThread) /\ WF_vars(DownloaderThread)

Spec     == Init /\ [][Next]_vars
FairSpec == Spec /\ Fairness

-----------------------------------------------------------------------------
TypeOK == ConnectionTypeOK /\ ClientTypeOK /\ TransferTypeOK

RightBelow(data, k) == \A i \in Offsets : i < k => data[i] = i

(***************************************************************************)
(* A finished file is the source, byte for byte, whatever sequence of ^C,  *)
(* kills, restarts, resumes and server failures led to it: the counters of *)
(* client and server (main.cpp 252-327, analytical.cpp 106-117,            *)
(* download.cpp 34-61) and ./.tmpFile never drift apart.  It rests on the  *)
(* pause of analytical.cpp 101 (AckInTime) and on a user who resumes only  *)
(* a part some interrupted run was saved for (CarefulUser).                *)
(***************************************************************************)
FinalCorrect ==
  finalSize # Absent => finalSize = Size /\ RightBelow(finalData, Size)

(***************************************************************************)
(* The offset in ./.tmpFile never runs ahead of the data: wherever ^C or a *)
(* kill hit the receive loop, and also while a later run overwrites the    *)
(* same part, every byte below the saved offset is right (main.cpp 30-47   *)
(* against 269-287).                                                       *)
(***************************************************************************)
SavedPrefixCorrect ==
  saved # Absent /\ saveMatches => partSize = Size /\ RightBelow(partData, saved)

(***************************************************************************)
(* Even for a user who resumes with a stale ./.tmpFile, no byte is ever    *)
(* stored at another place than its own: a byte of part or of a finished   *)
(* file is right or was never received.                                    *)
(***************************************************************************)
NoMisplacedByte ==
  \A i \in Offsets : partData[i] \in {i, Hole} /\ finalData[i] \in {i, Hole}

(***************************************************************************)
(* When a reply and file data share one recv, the data is lost to the      *)
(* handshake buffer (main.cpp 180-231) and the rest of the file arrives    *)
(* early.  The run that lost it never completes: it does not rename what   *)
(* it received.                                                            *)
(***************************************************************************)
SwallowedNeverFinishes ==
  swallowed > 0 => cpc \notin {"finish", "exiting"}

(***************************************************************************)
(* Every run of the client ends, unless the server side went away: client  *)
(* and server agree on how many bytes the transfer has, so the receive     *)
(* loop, which takes end-of-file for data of length 0 (main.cpp 269-287),  *)
(* is never left short.                                                    *)
(***************************************************************************)
RunEnds == cpc # "down" ~> (cpc = "down" \/ srv \in {"lost", "reset"})

(***************************************************************************)
(* The session implements Delivery: bytes received by one run survive its  *)
(* end and the start of the next one (no step of main.cpp takes a right    *)
(* byte out of part before the final mv), and mv comes when all are there. *)
(***************************************************************************)
Received == {i \in Offsets : partData[i] = i}

D == INSTANCE Delivery WITH have <- Received, delivered <- (finalSize # Absent)

ImplementsDelivery == D!Spec

(***************************************************************************)
(* structure.h 17-18: the server sends 2 (the file does not exist) and 3   *)
(* (the file exists); 4 is a frame the client sends.                       *)
(***************************************************************************)
ServerSendsDocumented == reply \in {"none", "FileNotExit", "FileExit"}
=============================================================================
