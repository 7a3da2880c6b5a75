---------------------------- MODULE SessionProofs ----------------------------
(***************************************************************************)
(* Theorems about Session, for every length of file, every buffer size and *)
(* every number of runs.                                                   *)
(***************************************************************************)
EXTENDS SessionInv, TLAPS

USE SizeAssumption, SockBufAssumption, ChunkAssumption, AckInTimeAssumption,
    RecvMaxAssumption, HandshakeRoomAssumption, CarefulUserAssumption,
    MaxRunsAssumption

-----------------------------------------------------------------------------
(* The inductive invariant, conjunct by conjunct and action by action.     *)

(***************************************************************************)
(* Nothing is there before the first run.                                  *)
(***************************************************************************)
LEMMA InvInit == Init => Inv
<1> SUFFICES ASSUME Init PROVE Inv
  OBVIOUS
<1>1. /\ peerOpen \in BOOLEAN /\ resuming \in BOOLEAN
      /\ mapped \in BOOLEAN /\ saveMatches \in BOOLEAN
      /\ ~peerOpen
  BY Zenon DEF Init, ClientInit
<1>2. ConnectionTypeOK /\ TransferTypeOK
  <2>1. /\ request = "none" /\ reqArg = 0 /\ reply = "none" /\ srv = "lost"
        /\ offset = 0 /\ inFlight = 0 /\ toSend = 0
    BY DEF Init
  <2> QED BY <1>1, <2>1 DEF ConnectionTypeOK, TransferTypeOK, Requests, Replies,
             ServerStates
<1>3. ClientTypeOK
  <2>1. /\ cpc = "down" /\ breakCount = 0 /\ fileSize = 0 /\ length = 0
        /\ runs = 0 /\ partSize = Absent /\ finalSize = Absent
        /\ saved = Absent /\ swallowed = 0
    BY DEF Init, ClientInit
  <2>2. Empty \in [Offsets -> Offsets \cup {Hole}]
    BY DEF Empty
  <2>3. partData = Empty /\ finalData = Empty
    BY Zenon DEF Init, ClientInit
  <2> QED BY <1>1, <2>1, <2>2, <2>3 DEF ClientTypeOK, Absent
<1>4. LinkInv /\ CounterInv
  BY <1>1 DEF Init, ClientInit, LinkInv, TaskAgrees, CounterInv, Preparing,
     Receiving
<1> QED BY <1>2, <1>3, <1>4 DEF Inv, TypeOK

(***************************************************************************)
(* Every step keeps the types: in particular no counter leaves the file.   *)
(***************************************************************************)
LEMMA TypeStep == Inv /\ [Next]_vars => TypeOK'
<1> SUFFICES ASSUME Inv, [Next]_vars PROVE TypeOK'
  OBVIOUS
<1>b. HangUp \/ peerOpen' = FALSE => peerOpen' \in BOOLEAN
  BY Zenon DEF HangUp
<1> USE DEF Inv, TypeOK, ConnectionTypeOK, ClientTypeOK, TransferTypeOK,
        Requests, Replies, ServerStates, Offsets, Hole, Absent, Empty,
        connVars, processVars, partVars, finalVars, saveVars, clientVars,
        Goto, HangUp, Dial
<1>1. CASE ClientStep /\ UNCHANGED toSend
  <2>1. CASE ReplyFileNotExit BY <1>1, <1>b, <2>1 DEF ReplyFileNotExit, ReadReply
  <2>2. CASE ReplyFileExit BY <1>1, <2>2 DEF ReplyFileExit, ReadReply
  <2>3. CASE ReplyEnsure BY <1>1, <2>3 DEF ReplyEnsure, ReadReply
  <2>4. CASE OpenPart BY <1>1, <2>4 DEF OpenPart
  <2>5. CASE TruncatePart BY <1>1, <2>5 DEF TruncatePart, CounterInv
  <2>6. CASE MapPart BY <1>1, <2>6 DEF MapPart, CounterInv
  <2>7. CASE RecvData 
    BY <1>1, <2>7 DEF RecvData, Stored, LinkInv, InStep, Head, Got
  <2>8. CASE RecvEof BY <1>1, <2>8 DEF RecvEof
  <2>9. CASE RecvError BY <1>1, <1>b, <2>9 DEF RecvError
  <2>10. CASE Count BY <1>1, <2>10 DEF Count, CounterInv
  <2>11. CASE Check BY <1>1, <2>11 DEF Check, Complete, CounterInv, Receiving
  <2>12. CASE Finish BY <1>1, <1>b, <2>12 DEF Finish
  <2>13. CASE FinishNotMoved BY <1>1, <1>b, <2>13 DEF FinishNotMoved
  <2>14. CASE Exit BY <1>1, <2>14 DEF Exit
  <2>15. CASE StopWrite BY <1>1, <2>15 DEF StopWrite, OffsetToSave
  <2> QED BY <1>1, <2>1, <2>2, <2>3, <2>4, <2>5, <2>6, <2>7, <2>8, <2>9, <2>10,
             <2>11, <2>12, <2>13, <2>14, <2>15 DEF ClientStep
<1>2. CASE ParserStep /\ UNCHANGED clientVars
  <2>1. CASE NormalAnalytical BY <1>2, <2>1 DEF NormalAnalytical, Handled
  <2>2. CASE EnsureAnalytical BY <1>2, <2>2 DEF EnsureAnalytical, Handled
  <2>3. CASE ContinuinglyAnalytical
    BY <1>2, <2>3 DEF ContinuinglyAnalytical, Handled
  <2>4. CASE AfterUsleep
    BY <1>2, <2>4 DEF AfterUsleep, ResumeFrom, Remaining
  <2> QED BY <1>2, <2>1, <2>2, <2>3, <2>4 DEF ParserStep
<1>3. CASE DownloaderStep /\ UNCHANGED clientVars
  BY <1>3 DEF DownloaderStep, SendChunk, SendFails, Sendable, Least, LinkInv,
     TaskAgrees
<1>4. CASE Event
  <2>1. CASE (StartNormal \/ StartResume) /\ UNCHANGED toSend
    <3>1. peerOpen' \in BOOLEAN /\ resuming' \in BOOLEAN /\ mapped' \in BOOLEAN
      BY <2>1, Zenon DEF StartNormal, StartResume, Start
    <3> QED BY <2>1, <3>1 DEF StartNormal, StartResume, Start
  <2>2. CASE /\ HandshakeLost \/ StopUnmapped \/ StopRemove \/ Kill
             /\ UNCHANGED toSend
    <3>1. peerOpen' \in BOOLEAN
      BY <2>2, <1>b, Zenon DEF HandshakeLost, StopUnmapped, StopRemove, Kill
    <3>2. CASE HandshakeLost BY <2>2, <3>1, <3>2 DEF HandshakeLost
    <3>3. CASE StopUnmapped BY <2>2, <3>1, <3>3 DEF StopUnmapped
    <3>4. CASE StopRemove BY <2>2, <3>1, <3>4 DEF StopRemove
    <3>5. CASE Kill BY <2>2, <3>1, <3>5 DEF Kill
    <3> QED BY <2>2, <3>2, <3>3, <3>4, <3>5
  <2>3. CASE (ServerGone \/ ConnectionReset) /\ UNCHANGED clientVars
    BY <2>3 DEF ServerGone, ConnectionReset
  <2> QED BY <1>4, <2>1, <2>2, <2>3 DEF Event, ClientEvent
<1>5. CASE UNCHANGED vars
  BY <1>5 DEF vars
<1> QED
  BY <1>1, <1>2, <1>3, <1>4, <1>5
     DEF Next, ClientThread, ParserThread, DownloaderThread

(***************************************************************************)
(* Every step keeps client, connection and task in agreement.              *)
(***************************************************************************)
LEMMA LinkStep ==
  ASSUME Inv, TypeOK', [Next]_vars
  PROVE  LinkInv'
<1> USE DEF Inv, TypeOK, ConnectionTypeOK, ClientTypeOK, TransferTypeOK,
        Requests, Replies, ServerStates, Offsets, Hole, Absent, connVars,
        processVars, partVars, finalVars, saveVars, clientVars, Goto, HangUp,
        Dial, AtEof, LinkInv, TaskAgrees, AskedFor, ReplyAgrees, InStep, Head,
        Got, CounterInv, Preparing, Receiving
<1>1. CASE ClientStep /\ UNCHANGED toSend
  <2>1. CASE ReplyFileNotExit BY <1>1, <2>1 DEF ReplyFileNotExit, ReadReply
  <2>2. CASE ReplyFileExit BY <1>1, <2>2 DEF ReplyFileExit, ReadReply
  <2>3. CASE ReplyEnsure BY <1>1, <2>3 DEF ReplyEnsure, ReadReply
  <2>4. CASE OpenPart BY <1>1, <2>4 DEF OpenPart
  <2>5. CASE TruncatePart BY <1>1, <2>5 DEF TruncatePart
  <2>6. CASE MapPart BY <1>1, <2>6 DEF MapPart
  <2>7. CASE RecvData BY <1>1, <2>7 DEF RecvData
  <2>8. CASE RecvEof BY <1>1, <2>8 DEF RecvEof
  <2>9. CASE RecvError BY <1>1, <2>9 DEF RecvError
  <2>10. CASE Count BY <1>1, <2>10 DEF Count
  <2>11. CASE Check BY <1>1, <2>11 DEF Check, Complete
  <2>12. CASE Finish BY <1>1, <2>12 DEF Finish
  <2>13. CASE FinishNotMoved BY <1>1, <2>13 DEF FinishNotMoved
  <2>14. CASE Exit BY <1>1, <2>14 DEF Exit
  <2>15. CASE StopWrite BY <1>1, <2>15 DEF StopWrite, OffsetToSave
  <2> QED BY <1>1, <2>1, <2>2, <2>3, <2>4, <2>5, <2>6, <2>7, <2>8, <2>9,
             <2>10, <2>11, <2>12, <2>13, <2>14, <2>15 DEF ClientStep
<1>2. CASE ParserStep /\ UNCHANGED clientVars
  <2>1. CASE NormalAnalytical BY <1>2, <2>1 DEF NormalAnalytical, Handled
  <2>2. CASE EnsureAnalytical BY <1>2, <2>2 DEF EnsureAnalytical, Handled
  <2>3. CASE ContinuinglyAnalytical
    BY <1>2, <2>3 DEF ContinuinglyAnalytical, Handled
  <2>4. CASE AfterUsleep BY <1>2, <2>4 DEF AfterUsleep, ResumeFrom, Remaining
  <2> QED BY <1>2, <2>1, <2>2, <2>3, <2>4 DEF ParserStep
<1>3. CASE DownloaderStep /\ UNCHANGED clientVars
  <2>1. CASE SendChunk BY <1>3, <2>1 DEF SendChunk, Sendable, Least
  <2>2. CASE SendFails BY <1>3, <2>2 DEF SendFails
  <2> QED BY <1>3, <2>1, <2>2 DEF DownloaderStep
<1>4. CASE ClientEvent /\ UNCHANGED toSend
  <2>1. CASE StartNormal BY <1>4, <2>1 DEF StartNormal, Start
  <2>2. CASE StartResume BY <1>4, <2>2 DEF StartResume, Start
  <2>3. CASE HandshakeLost BY <1>4, <2>3 DEF HandshakeLost
  <2>4. CASE StopUnmapped BY <1>4, <2>4 DEF StopUnmapped
  <2>5. CASE StopRemove BY <1>4, <2>5 DEF StopRemove
  <2>6. CASE Kill BY <1>4, <2>6 DEF Kill
  <2> QED BY <1>4, <2>1, <2>2, <2>3, <2>4, <2>5, <2>6 DEF ClientEvent
<1>5. CASE (ServerGone \/ ConnectionReset) /\ UNCHANGED clientVars
  <2>1. CASE ServerGone BY <1>5, <2>1 DEF ServerGone
  <2>2. CASE ConnectionReset BY <1>5, <2>2 DEF ConnectionReset
  <2> QED BY <1>5, <2>1, <2>2
<1>6. CASE UNCHANGED vars BY <1>6 DEF vars
<1> QED
  BY <1>1, <1>2, <1>3, <1>4, <1>5, <1>6
     DEF Next, ClientThread, ParserThread, DownloaderThread, Event

(***************************************************************************)
(* Every step keeps the client's counters in agreement.                    *)
(***************************************************************************)
LEMMA CounterStep ==
  ASSUME Inv, TypeOK', [Next]_vars
  PROVE  CounterInv'
<1> USE DEF Inv, TypeOK, ConnectionTypeOK, ClientTypeOK, TransferTypeOK,
        Requests, Replies, ServerStates, Offsets, Hole, Absent, connVars,
        processVars, partVars, finalVars, saveVars, clientVars, Goto, HangUp,
        Dial, LinkInv, AskedFor, ReplyAgrees, InStep, Head, Got, CounterInv,
        Preparing, Receiving
<1>1. CASE ClientStep /\ UNCHANGED toSend
  <2>1. CASE ReplyFileNotExit BY <1>1, <2>1 DEF ReplyFileNotExit, ReadReply
  <2>2. CASE ReplyFileExit BY <1>1, <2>2 DEF ReplyFileExit, ReadReply
  <2>3. CASE ReplyEnsure BY <1>1, <2>3 DEF ReplyEnsure, ReadReply
  <2>4. CASE OpenPart BY <1>1, <2>4 DEF OpenPart
  <2>5. CASE TruncatePart BY <1>1, <2>5 DEF TruncatePart
  <2>6. CASE MapPart BY <1>1, <2>6 DEF MapPart
  <2>7. CASE RecvData BY <1>1, <2>7 DEF RecvData
  <2>8. CASE RecvEof BY <1>1, <2>8 DEF RecvEof
  <2>9. CASE RecvError BY <1>1, <2>9 DEF RecvError
  <2>10. CASE Count BY <1>1, <2>10 DEF Count
  <2>11. CASE Check BY <1>1, <2>11 DEF Check, Complete
  <2>12. CASE Finish BY <1>1, <2>12 DEF Finish
  <2>13. CASE FinishNotMoved BY <1>1, <2>13 DEF FinishNotMoved
  <2>14. CASE Exit BY <1>1, <2>14 DEF Exit
  <2>15. CASE StopWrite BY <1>1, <2>15 DEF StopWrite, OffsetToSave
  <2> QED BY <1>1, <2>1, <2>2, <2>3, <2>4, <2>5, <2>6, <2>7, <2>8, <2>9,
             <2>10, <2>11, <2>12, <2>13, <2>14, <2>15 DEF ClientStep
<1>2. CASE ParserStep /\ UNCHANGED clientVars
  <2>1. CASE NormalAnalytical BY <1>2, <2>1 DEF NormalAnalytical, Handled
  <2>2. CASE EnsureAnalytical BY <1>2, <2>2 DEF EnsureAnalytical, Handled
  <2>3. CASE ContinuinglyAnalytical
    BY <1>2, <2>3 DEF ContinuinglyAnalytical, Handled
  <2>4. CASE AfterUsleep BY <1>2, <2>4 DEF AfterUsleep, ResumeFrom, Remaining
  <2> QED BY <1>2, <2>1, <2>2, <2>3, <2>4 DEF ParserStep
<1>3. CASE DownloaderStep /\ UNCHANGED clientVars
  <2>1. CASE SendChunk BY <1>3, <2>1 DEF SendChunk, Sendable, Least
  <2>2. CASE SendFails BY <1>3, <2>2 DEF SendFails
  <2> QED BY <1>3, <2>1, <2>2 DEF DownloaderStep
<1>4. CASE ClientEvent /\ UNCHANGED toSend
  <2>1. CASE StartNormal BY <1>4, <2>1 DEF StartNormal, Start
  <2>2. CASE StartResume BY <1>4, <2>2 DEF StartResume, Start
  <2>3. CASE HandshakeLost BY <1>4, <2>3 DEF HandshakeLost
  <2>4. CASE StopUnmapped BY <1>4, <2>4 DEF StopUnmapped
  <2>5. CASE StopRemove BY <1>4, <2>5 DEF StopRemove
  <2>6. CASE Kill BY <1>4, <2>6 DEF Kill
  <2> QED BY <1>4, <2>1, <2>2, <2>3, <2>4, <2>5, <2>6 DEF ClientEvent
<1>5. CASE (ServerGone \/ ConnectionReset) /\ UNCHANGED clientVars
  <2>1. CASE ServerGone BY <1>5, <2>1 DEF ServerGone
  <2>2. CASE ConnectionReset BY <1>5, <2>2 DEF ConnectionReset
  <2> QED BY <1>5, <2>1, <2>2
<1>6. CASE UNCHANGED vars BY <1>6 DEF vars
<1> QED
  BY <1>1, <1>2, <1>3, <1>4, <1>5, <1>6
     DEF Next, ClientThread, ParserThread, DownloaderThread, Event

(***************************************************************************)
(* Every step puts what it stores at its place, if nothing is swallowed.   *)
(***************************************************************************)
LEMMA PlacedStep ==
  ASSUME AckInTime, Inv, PlacedInv, TypeOK', [Next]_vars
  PROVE  PlacedInv'
<1> USE DEF Inv, TypeOK, ConnectionTypeOK, ClientTypeOK, TransferTypeOK,
        Requests, Replies, ServerStates, Offsets, Hole, Absent, connVars,
        processVars, partVars, finalVars, saveVars, clientVars, Goto, HangUp,
        Dial, LinkInv, AskedFor, ReplyAgrees, InStep, Head, Got, CounterInv,
        PlacedInv, Unswallowed, NoMisplacedByte
<1>1. CASE ClientStep /\ UNCHANGED toSend
  <2>1. CASE ReplyFileNotExit BY <1>1, <2>1 DEF ReplyFileNotExit, ReadReply
  <2>2. CASE ReplyFileExit BY <1>1, <2>2 DEF ReplyFileExit, ReadReply
  <2>3. CASE ReplyEnsure BY <1>1, <2>3 DEF ReplyEnsure, ReadReply
  <2>4. CASE OpenPart BY <1>1, <2>4 DEF OpenPart
  <2>5. CASE TruncatePart BY <1>1, <2>5 DEF TruncatePart
  <2>6. CASE MapPart BY <1>1, <2>6 DEF MapPart
  <2>7. CASE RecvData BY <1>1, <2>7 DEF RecvData, Stored
  <2>8. CASE RecvEof BY <1>1, <2>8 DEF RecvEof
  <2>9. CASE RecvError BY <1>1, <2>9 DEF RecvError
  <2>10. CASE Count BY <1>1, <2>10 DEF Count
  <2>11. CASE Check BY <1>1, <2>11 DEF Check, Complete
  <2>12. CASE Finish BY <1>1, <2>12 DEF Finish, Empty
  <2>13. CASE FinishNotMoved BY <1>1, <2>13 DEF FinishNotMoved
  <2>14. CASE Exit BY <1>1, <2>14 DEF Exit
  <2>15. CASE StopWrite BY <1>1, <2>15 DEF StopWrite, OffsetToSave
  <2> QED BY <1>1, <2>1, <2>2, <2>3, <2>4, <2>5, <2>6, <2>7, <2>8, <2>9,
             <2>10, <2>11, <2>12, <2>13, <2>14, <2>15 DEF ClientStep
<1>2. CASE ParserStep /\ UNCHANGED clientVars
  <2>1. CASE NormalAnalytical BY <1>2, <2>1 DEF NormalAnalytical, Handled
  <2>2. CASE EnsureAnalytical BY <1>2, <2>2 DEF EnsureAnalytical, Handled
  <2>3. CASE ContinuinglyAnalytical
    BY <1>2, <2>3 DEF ContinuinglyAnalytical, Handled
  <2>4. CASE AfterUsleep BY <1>2, <2>4 DEF AfterUsleep, ResumeFrom, Remaining
  <2> QED BY <1>2, <2>1, <2>2, <2>3, <2>4 DEF ParserStep
<1>3. CASE DownloaderStep /\ UNCHANGED clientVars
  <2>1. CASE SendChunk BY <1>3, <2>1 DEF SendChunk, Sendable, Least
  <2>2. CASE SendFails BY <1>3, <2>2 DEF SendFails
  <2> QED BY <1>3, <2>1, <2>2 DEF DownloaderStep
<1>4. CASE ClientEvent /\ UNCHANGED toSend
  <2>1. CASE StartNormal BY <1>4, <2>1 DEF StartNormal, Start
  <2>2. CASE StartResume BY <1>4, <2>2 DEF StartResume, Start
  <2>3. CASE HandshakeLost BY <1>4, <2>3 DEF HandshakeLost
  <2>4. CASE StopUnmapped BY <1>4, <2>4 DEF StopUnmapped
  <2>5. CASE StopRemove BY <1>4, <2>5 DEF StopRemove
  <2>6. CASE Kill BY <1>4, <2>6 DEF Kill
  <2> QED BY <1>4, <2>1, <2>2, <2>3, <2>4, <2>5, <2>6 DEF ClientEvent
<1>5. CASE (ServerGone \/ ConnectionReset) /\ UNCHANGED clientVars
  <2>1. CASE ServerGone BY <1>5, <2>1 DEF ServerGone
  <2>2. CASE ConnectionReset BY <1>5, <2>2 DEF ConnectionReset
  <2> QED BY <1>5, <2>1, <2>2
<1>6. CASE UNCHANGED vars BY <1>6 DEF vars
<1> QED
  BY <1>1, <1>2, <1>3, <1>4, <1>5, <1>6
     DEF Next, ClientThread, ParserThread, DownloaderThread, Event

(***************************************************************************)
(* Every step keeps the size of a file that is received into.              *)
(***************************************************************************)
LEMMA SizeStep ==
  ASSUME CarefulUser, Inv, SizeInv, TypeOK', [Next]_vars
  PROVE  SizeInv'
<1> USE DEF Inv, TypeOK, ConnectionTypeOK, ClientTypeOK, TransferTypeOK,
        Requests, Replies, ServerStates, Offsets, Hole, Absent, connVars,
        processVars, partVars, finalVars, saveVars, clientVars, Goto, HangUp,
        Dial, LinkInv, ReplyAgrees, AskedFor, CounterInv, SizeInv, Preparing,
        Receiving
<1>1. CASE ClientStep /\ UNCHANGED toSend
  <2>1. CASE ReplyFileNotExit BY <1>1, <2>1 DEF ReplyFileNotExit, ReadReply
  <2>2. CASE ReplyFileExit BY <1>1, <2>2 DEF ReplyFileExit, ReadReply
  <2>3. CASE ReplyEnsure BY <1>1, <2>3 DEF ReplyEnsure, ReadReply
  <2>4. CASE OpenPart BY <1>1, <2>4 DEF OpenPart
  <2>5. CASE TruncatePart BY <1>1, <2>5 DEF TruncatePart
  <2>6. CASE MapPart BY <1>1, <2>6 DEF MapPart
  <2>7. CASE RecvData BY <1>1, <2>7 DEF RecvData
  <2>8. CASE RecvEof BY <1>1, <2>8 DEF RecvEof
  <2>9. CASE RecvError BY <1>1, <2>9 DEF RecvError
  <2>10. CASE Count BY <1>1, <2>10 DEF Count
  <2>11. CASE Check BY <1>1, <2>11 DEF Check, Complete
  <2>12. CASE Finish BY <1>1, <2>12 DEF Finish
  <2>13. CASE FinishNotMoved BY <1>1, <2>13 DEF FinishNotMoved
  <2>14. CASE Exit BY <1>1, <2>14 DEF Exit
  <2>15. CASE StopWrite BY <1>1, <2>15 DEF StopWrite, OffsetToSave
  <2> QED BY <1>1, <2>1, <2>2, <2>3, <2>4, <2>5, <2>6, <2>7, <2>8, <2>9,
             <2>10, <2>11, <2>12, <2>13, <2>14, <2>15 DEF ClientStep
<1>2. CASE ParserStep /\ UNCHANGED clientVars
  <2>1. CASE NormalAnalytical BY <1>2, <2>1 DEF NormalAnalytical, Handled
  <2>2. CASE EnsureAnalytical BY <1>2, <2>2 DEF EnsureAnalytical, Handled
  <2>3. CASE ContinuinglyAnalytical
    BY <1>2, <2>3 DEF ContinuinglyAnalytical, Handled
  <2>4. CASE AfterUsleep BY <1>2, <2>4 DEF AfterUsleep, ResumeFrom, Remaining
  <2> QED BY <1>2, <2>1, <2>2, <2>3, <2>4 DEF ParserStep
<1>3. CASE DownloaderStep /\ UNCHANGED clientVars
  <2>1. CASE SendChunk BY <1>3, <2>1 DEF SendChunk, Sendable, Least
  <2>2. CASE SendFails BY <1>3, <2>2 DEF SendFails
  <2> QED BY <1>3, <2>1, <2>2 DEF DownloaderStep
<1>4. CASE ClientEvent /\ UNCHANGED toSend
  <2>1. CASE StartNormal BY <1>4, <2>1 DEF StartNormal, Start
  <2>2. CASE StartResume BY <1>4, <2>2 DEF StartResume, Start
  <2>3. CASE HandshakeLost BY <1>4, <2>3 DEF HandshakeLost
  <2>4. CASE StopUnmapped BY <1>4, <2>4 DEF StopUnmapped
  <2>5. CASE StopRemove BY <1>4, <2>5 DEF StopRemove
  <2>6. CASE Kill BY <1>4, <2>6 DEF Kill
  <2> QED BY <1>4, <2>1, <2>2, <2>3, <2>4, <2>5, <2>6 DEF ClientEvent
<1>5. CASE (ServerGone \/ ConnectionReset) /\ UNCHANGED clientVars
  <2>1. CASE ServerGone BY <1>5, <2>1 DEF ServerGone
  <2>2. CASE ConnectionReset BY <1>5, <2>2 DEF ConnectionReset
  <2> QED BY <1>5, <2>1, <2>2
<1>6. CASE UNCHANGED vars BY <1>6 DEF vars
<1> QED
  BY <1>1, <1>2, <1>3, <1>4, <1>5, <1>6
     DEF Next, ClientThread, ParserThread, DownloaderThread, Event

(***************************************************************************)
(* Every step keeps the received part of the file right.                   *)
(***************************************************************************)
LEMMA DataStep ==
  ASSUME AckInTime, CarefulUser, Inv, PlacedInv, SizeInv, DataInv, TypeOK',
         [Next]_vars
  PROVE  DataInv'
<1> USE DEF Inv, TypeOK, ConnectionTypeOK, ClientTypeOK, TransferTypeOK,
        Requests, Replies, ServerStates, Offsets, Hole, Absent, connVars,
        processVars, partVars, finalVars, saveVars, clientVars, Goto, HangUp,
        Dial, LinkInv, ReplyAgrees, AskedFor, CounterInv, SizeInv, Preparing,
        Receiving, PlacedInv, Unswallowed, InStep, Head, Got, DataInv,
        RightBelow, SavedPrefixCorrect, FinalCorrect
<1>1. CASE ClientStep /\ UNCHANGED toSend
  <2>1. CASE ReplyFileNotExit BY <1>1, <2>1 DEF ReplyFileNotExit, ReadReply
  <2>2. CASE ReplyFileExit BY <1>1, <2>2 DEF ReplyFileExit, ReadReply
  <2>3. CASE ReplyEnsure BY <1>1, <2>3 DEF ReplyEnsure, ReadReply
  <2>4. CASE OpenPart BY <1>1, <2>4 DEF OpenPart
  <2>5. CASE TruncatePart BY <1>1, <2>5 DEF TruncatePart
  <2>6. CASE MapPart BY <1>1, <2>6 DEF MapPart
  <2>7. CASE RecvData BY <1>1, <2>7 DEF RecvData, Stored
  <2>8. CASE RecvEof BY <1>1, <2>8 DEF RecvEof
  <2>9. CASE RecvError BY <1>1, <2>9 DEF RecvError
  <2>10. CASE Count BY <1>1, <2>10 DEF Count
  <2>11. CASE Check BY <1>1, <2>11 DEF Check, Complete
  <2>12. CASE Finish BY <1>1, <2>12 DEF Finish, Empty
  <2>13. CASE FinishNotMoved BY <1>1, <2>13 DEF FinishNotMoved
  <2>14. CASE Exit BY <1>1, <2>14 DEF Exit
  <2>15. CASE StopWrite BY <1>1, <2>15 DEF StopWrite, OffsetToSave
  <2> QED BY <1>1, <2>1, <2>2, <2>3, <2>4, <2>5, <2>6, <2>7, <2>8, <2>9,
             <2>10, <2>11, <2>12, <2>13, <2>14, <2>15 DEF ClientStep
<1>2. CASE ParserStep /\ UNCHANGED clientVars
  <2>1. CASE NormalAnalytical BY <1>2, <2>1 DEF NormalAnalytical, Handled
  <2>2. CASE EnsureAnalytical BY <1>2, <2>2 DEF EnsureAnalytical, Handled
  <2>3. CASE ContinuinglyAnalytical
    BY <1>2, <2>3 DEF ContinuinglyAnalytical, Handled
  <2>4. CASE AfterUsleep BY <1>2, <2>4 DEF AfterUsleep, ResumeFrom, Remaining
  <2> QED BY <1>2, <2>1, <2>2, <2>3, <2>4 DEF ParserStep
<1>3. CASE DownloaderStep /\ UNCHANGED clientVars
  <2>1. CASE SendChunk BY <1>3, <2>1 DEF SendChunk, Sendable, Least
  <2>2. CASE SendFails BY <1>3, <2>2 DEF SendFails
  <2> QED BY <1>3, <2>1, <2>2 DEF DownloaderStep
<1>4. CASE ClientEvent /\ UNCHANGED toSend
  <2>1. CASE StartNormal BY <1>4, <2>1 DEF StartNormal, Start
  <2>2. CASE StartResume BY <1>4, <2>2 DEF StartResume, Start
  <2>3. CASE HandshakeLost BY <1>4, <2>3 DEF HandshakeLost
  <2>4. CASE StopUnmapped BY <1>4, <2>4 DEF StopUnmapped
  <2>5. CASE StopRemove BY <1>4, <2>5 DEF StopRemove
  <2>6. CASE Kill BY <1>4, <2>6 DEF Kill
  <2> QED BY <1>4, <2>1, <2>2, <2>3, <2>4, <2>5, <2>6 DEF ClientEvent
<1>5. CASE (ServerGone \/ ConnectionReset) /\ UNCHANGED clientVars
  <2>1. CASE ServerGone BY <1>5, <2>1 DEF ServerGone
  <2>2. CASE ConnectionReset BY <1>5, <2>2 DEF ConnectionReset
  <2> QED BY <1>5, <2>1, <2>2
<1>6. CASE UNCHANGED vars BY <1>6 DEF vars
<1> QED
  BY <1>1, <1>2, <1>3, <1>4, <1>5, <1>6
     DEF Next, ClientThread, ParserThread, DownloaderThread, Event

-----------------------------------------------------------------------------
(* The properties.                                                         *)

(***************************************************************************)
(* client and server agree in every state, whatever the user does: the     *)
(* task sends exactly what is missing, no counter leaves the file, and, as *)
(* far as AckInTime and CarefulUser hold, every byte is at its place, the  *)
(* part has the full size and its counted bytes are right.                 *)
(***************************************************************************)
THEOREM InductiveInvCorrect == Spec => []InductiveInv
<1>1. Init => InductiveInv
  <2>1. Init => PlacedInv /\ SizeInv /\ DataInv
    BY DEF Init, ClientInit, PlacedInv, Unswallowed, NoMisplacedByte, Empty,
       SizeInv, DataInv, Preparing, Receiving, SavedPrefixCorrect, FinalCorrect
  <2> QED BY InvInit, <2>1 DEF InductiveInv
<1>2. InductiveInv /\ [Next]_vars => InductiveInv'
  <2> SUFFICES ASSUME InductiveInv, [Next]_vars PROVE InductiveInv'
    OBVIOUS
  <2>1. Inv' /\ TypeOK'
    BY TypeStep, LinkStep, CounterStep DEF InductiveInv, Inv
  <2>2. AckInTime => PlacedInv'
    BY <2>1, PlacedStep DEF InductiveInv
  <2>3. CarefulUser => SizeInv'
    BY <2>1, SizeStep DEF InductiveInv
  <2>4. AckInTime /\ CarefulUser => DataInv'
    BY <2>1, DataStep DEF InductiveInv
  <2> QED BY <2>1, <2>2, <2>3, <2>4 DEF InductiveInv
<1> QED BY <1>1, <1>2, PTL DEF Spec

(***************************************************************************)
(* Every variable has its type: the counters stay within the file.         *)
(***************************************************************************)
THEOREM TypeCorrect == Spec => []TypeOK
<1>1. InductiveInv => TypeOK
  BY DEF InductiveInv, Inv
<1> QED BY InductiveInvCorrect, <1>1, PTL

(***************************************************************************)
(* A byte of part or of a finished file is right or was never received,    *)
(* also for a user who resumes with a stale ./.tmpFile.                    *)
(***************************************************************************)
THEOREM PlacedCorrect ==
  ASSUME AckInTime
  PROVE  Spec => []NoMisplacedByte
<1>1. InductiveInv => NoMisplacedByte
  BY DEF InductiveInv, PlacedInv
<1> QED BY InductiveInvCorrect, <1>1, PTL

(***************************************************************************)
(* With a user who resumes only what was saved, and replies read in time,  *)
(* every byte below the saved offset is right, wherever ^C or a kill hit.  *)
(***************************************************************************)
THEOREM SavedCorrect ==
  ASSUME AckInTime, CarefulUser
  PROVE  Spec => []SavedPrefixCorrect
<1>1. InductiveInv => SavedPrefixCorrect
  BY DEF InductiveInv, DataInv
<1> QED BY InductiveInvCorrect, <1>1, PTL

(***************************************************************************)
(* Under the same conditions a finished file is the source, whatever       *)
(* sequence of ^C, kills, restarts, resumes and failures led to it.        *)
(***************************************************************************)
THEOREM FinishedCorrect ==
  ASSUME AckInTime, CarefulUser
  PROVE  Spec => []FinalCorrect
<1>1. InductiveInv => FinalCorrect
  BY DEF InductiveInv, DataInv
<1> QED BY InductiveInvCorrect, <1>1, PTL

(***************************************************************************)
(* A run is on its way out only after it was complete.                     *)
(***************************************************************************)
LEMMA ExitingStep ==
  ASSUME [Next]_vars, cpc' = "exiting"
  PROVE  cpc \in {"finish", "exiting"} /\ swallowed' = swallowed
<1> USE DEF Goto, clientVars, processVars
<1>1. CASE ClientStep
  BY <1>1 DEF ClientStep, ReplyFileNotExit, ReplyFileExit, ReplyEnsure,
     ReadReply, OpenPart, TruncatePart, MapPart, RecvData, RecvEof, RecvError,
     Count, Check, Finish, FinishNotMoved, Exit, StopWrite
<1>2. CASE ClientEvent
  BY <1>2 DEF ClientEvent, StartNormal, StartResume, Start, HandshakeLost,
     StopUnmapped, StopRemove, Kill
<1>3. CASE UNCHANGED clientVars
  BY <1>3
<1> QED
  BY <1>1, <1>2, <1>3 DEF Next, ClientThread, ParserThread, DownloaderThread,
     Event, vars

(***************************************************************************)
(* A run that lost file data to the handshake buffer never completes, even *)
(* if replies are read late.                                               *)
(***************************************************************************)
THEOREM SwallowedCorrect ==
  ASSUME CarefulUser
  PROVE  Spec => []SwallowedNeverFinishes
<1>1. Init => SwallowedNeverFinishes
  BY DEF Init, ClientInit, SwallowedNeverFinishes
<1>2. InductiveInv => TypeOK /\ (cpc = "finish" => swallowed = 0)
  BY DEF InductiveInv, Inv, LinkInv, AskedFor, InStep, Head, Got, CounterInv,
     SizeInv, Receiving, TypeOK, ConnectionTypeOK, ClientTypeOK
<1>3. ASSUME SwallowedNeverFinishes, [Next]_vars, InductiveInv, InductiveInv'
      PROVE  SwallowedNeverFinishes'
  <2>1. CASE cpc' = "exiting"
    BY <1>2, <1>3, <2>1, ExitingStep DEF SwallowedNeverFinishes
  <2>2. CASE cpc' = "finish"
    <3>1. TypeOK' /\ swallowed' = 0
      BY <1>3, <2>2
         DEF InductiveInv, Inv, LinkInv, AskedFor, InStep, Head, Got, CounterInv,
             SizeInv, Receiving, TypeOK, ConnectionTypeOK, ClientTypeOK
    <3> QED BY <3>1 DEF SwallowedNeverFinishes
  <2>3. CASE cpc' \notin {"finish", "exiting"}
    BY <2>3 DEF SwallowedNeverFinishes
  <2> QED BY <2>1, <2>2, <2>3
<1> QED BY InductiveInvCorrect, <1>1, <1>3, PTL DEF Spec

-----------------------------------------------------------------------------
(* Session implements Delivery.                                            *)

(***************************************************************************)
(* Only the final mv takes received bytes out of part.                     *)
(***************************************************************************)
LEMMA KeepStep ==
  ASSUME AckInTime, Inv, PlacedInv, TypeOK', [Next]_vars
  PROVE  \/ Finish
         \/ finalSize' = finalSize /\ Received \subseteq Received'
<1> SUFFICES ASSUME ~Finish
             PROVE  /\ finalSize' = finalSize
                    /\ \A i \in Offsets : partData[i] = i => partData'[i] = i
  BY DEF Received
<1> USE DEF Goto, clientVars, partVars, finalVars
<1>1. CASE ClientStep
  <2>1. CASE RecvData
    <3>1. Head = breakCount
      BY <2>1 DEF RecvData, Inv, LinkInv, InStep, Got, PlacedInv, Unswallowed,
         TypeOK, ConnectionTypeOK, ClientTypeOK
    <3>2. PICK n \in 1 .. RecvMax : partData' = Stored(n)
      BY <2>1 DEF RecvData
    <3>3. finalSize' = finalSize
      BY <2>1 DEF RecvData
    <3> QED
      BY <3>1, <3>2, <3>3
         DEF Stored, Offsets, Inv, TypeOK, ClientTypeOK
  <2> QED
    BY <1>1, <2>1 DEF ClientStep, ReplyFileNotExit, ReplyFileExit, ReplyEnsure,
       ReadReply, OpenPart, TruncatePart, MapPart, RecvEof, RecvError, Count,
       Check, FinishNotMoved, Exit, StopWrite
<1>2. CASE ClientEvent
  BY <1>2 DEF ClientEvent, StartNormal, StartResume, Start, HandshakeLost,
     StopUnmapped, StopRemove, Kill
<1>3. CASE UNCHANGED clientVars
  BY <1>3
<1> QED
  BY <1>1, <1>2, <1>3 DEF Next, ClientThread, ParserThread, DownloaderThread,
     Event, vars

(***************************************************************************)
(* A step of Session delivers the complete file, adds to what was received *)
(* or changes neither.                                                     *)
(***************************************************************************)
LEMMA DeliveryStep ==
  ASSUME AckInTime, Inv, PlacedInv, SizeInv, DataInv, TypeOK', [Next]_vars
  PROVE  [D!Next]_<<Received, finalSize # Absent>>
<1>1. CASE Finish
  <2>1. RightBelow(partData, breakCount) /\ breakCount >= Size /\ partSize = Size
    BY <1>1 DEF Finish, Goto, DataInv, Got, Inv, CounterInv, SizeInv, Receiving,
       TypeOK, ClientTypeOK
  <2>2. Received = D!Bytes
    BY <2>1 DEF Received, D!Bytes, RightBelow, Offsets, Inv, TypeOK,
       ClientTypeOK
  <2>3. Received' = {}
    BY <1>1 DEF Finish, Received, Empty, Hole, Offsets
  <2>4. (finalSize # Absent)' = TRUE
    BY <1>1, <2>1 DEF Finish, Absent
  <2> QED BY <2>2, <2>3, <2>4 DEF D!Next, D!Deliver
<1>2. CASE finalSize' = finalSize /\ Received \subseteq Received'
  <2>1. Received' \in SUBSET D!Bytes /\ Received' = Received \cup Received'
    BY <1>2 DEF Received, D!Bytes, Offsets
  <2>2. (finalSize # Absent)' = (finalSize # Absent)
    BY <1>2 DEF Absent
  <2> QED BY <2>1, <2>2 DEF D!Next, D!Receive
<1> QED BY <1>1, <1>2, KeepStep

(***************************************************************************)
(* Whatever happens to client, server and connection, received bytes are   *)
(* kept until the complete file is handed over.                            *)
(***************************************************************************)
THEOREM SessionImplementsDelivery ==
  ASSUME AckInTime, CarefulUser
  PROVE  Spec => ImplementsDelivery
<1>1. Init => D!Init
  <2>1. Init => Received = {}
    BY DEF Init, ClientInit, Received, Empty, Hole, Offsets
  <2>2. Init => (finalSize # Absent) = FALSE
    BY DEF Init, ClientInit
  <2> QED BY <2>1, <2>2 DEF D!Init
<1>2. InductiveInv /\ InductiveInv' /\ [Next]_vars
        => [D!Next]_<<Received, finalSize # Absent>>
  BY DeliveryStep DEF InductiveInv, Inv
<1> QED
  BY InductiveInvCorrect, <1>1, <1>2, PTL DEF Spec, ImplementsDelivery, D!Spec
=============================================================================
