----------------------------- MODULE SessionInv -----------------------------
(***************************************************************************)
(* The inductive invariant of Session: what relates the client's counters, *)
(* the connection, the server's task and the files on the disk in every    *)
(* state, from which the properties of Session follow.                     *)
(***************************************************************************)
EXTENDS Session

Preparing == {"handshake", "open", "truncate", "map"}
Receiving == {"recv", "count", "check", "finish"}

\* Bytes the client's part has got: a recv counts before breakCount does.
Got == breakCount + (IF cpc = "count" THEN length ELSE 0)

(***************************************************************************)
(* The client and the server's side of its connection agree.               *)
(***************************************************************************)
TaskAgrees ==
  /\ srv = "sending" => toSend = Size - offset
  /\ request = "Ensure" => reqArg = Size

\* Before the transfer: nothing was sent, and what was asked for still holds.
AskedFor ==
  /\ srv \in {"idle", "offered", "acked"} =>
       inFlight = 0 /\ swallowed = 0 /\ cpc \notin {"count", "check", "finish"}
  /\ srv = "idle" => cpc = "handshake"
  /\ srv = "idle" /\ request = "Normal" => ~resuming
  /\ srv = "idle" /\ request = "BreakPointContinue" =>
       resuming /\ reqArg = breakCount
  /\ srv = "offered" => ~resuming /\ breakCount = 0
  /\ srv = "acked" => resuming /\ reqArg = breakCount
  /\ request = "Ensure" => reply = "none"

\* A reply is read in the handshake, by the run it is meant for.
ReplyAgrees ==
  /\ reply # "none" => cpc = "handshake"
  /\ reply = "FileExit" => ~resuming /\ inFlight = 0 /\ srv \notin {"idle", "acked", "sending"}
  /\ reply = "Ensure" => resuming /\ srv # "idle"
  /\ cpc = "handshake" => swallowed = 0

\* The next byte the client reads is the next one it needs, but for swallowed.
InStep ==
  srv = "sending" \/ inFlight > 0 \/ swallowed > 0 => Head = Got + swallowed

LinkInv ==
  /\ TaskAgrees
  /\ peerOpen <=> cpc \notin {"down", "stop", "exiting"}
  /\ peerOpen => AskedFor /\ ReplyAgrees /\ InStep

\* The client's counters agree with each other and with the file it mapped.
CounterInv ==
  /\ cpc \in Preparing => ~mapped
  /\ cpc \in Preparing /\ ~resuming => breakCount = 0
  /\ cpc \in {"open", "truncate"} /\ ~resuming => fileSize = Size
  /\ cpc \in {"truncate", "map"} \cup Receiving => partSize # Absent
  /\ cpc \in {"recv", "count"} => fileSize = partSize - breakCount
  /\ cpc = "count" => breakCount + length <= Size
  /\ cpc = "check" =>
       fileSize = partSize - breakCount + length /\ length <= breakCount
  /\ cpc = "finish" => breakCount >= partSize

Inv == TypeOK /\ LinkInv /\ CounterInv

-----------------------------------------------------------------------------
(* With AckInTime: nothing is swallowed, so every byte lands at its place. *)

Unswallowed ==
  /\ swallowed = 0
  /\ peerOpen /\ reply # "none" => inFlight = 0 /\ srv # "sending"

PlacedInv == Unswallowed /\ NoMisplacedByte

-----------------------------------------------------------------------------
(* With CarefulUser: only a file of the full size is received into.        *)

SizeInv ==
  /\ saveMatches => partSize = Size
  /\ cpc \in Preparing /\ resuming => partSize = Size
  /\ cpc \in {"map"} \cup Receiving => partSize = Size
  /\ cpc \in {"stop", "exiting"} => partSize \in {Absent, Size}

-----------------------------------------------------------------------------
(* With both: what was received is the source, up to the counted byte.     *)

DataInv ==
  /\ cpc \in Preparing \cup Receiving => RightBelow(partData, Got)
  /\ cpc \in {"stop", "exiting"} /\ partSize # Absent =>
       RightBelow(partData, breakCount)
  /\ SavedPrefixCorrect
  /\ FinalCorrect
(***************************************************************************)
(* All of it: what every state satisfies, whatever the constants are.      *)
(* client and server agree byte for byte on what was sent, received,       *)
(* counted and saved (main.cpp 180-327, analytical.cpp 26-117).            *)
(***************************************************************************)
InductiveInv ==
  /\ Inv
  /\ AckInTime => PlacedInv
  /\ CarefulUser => SizeInv
  /\ AckInTime /\ CarefulUser => DataInv
=============================================================================
