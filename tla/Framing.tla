------------------------------ MODULE Framing -------------------------------
(***************************************************************************)
(* How a server finds frames in what recv returns (Server/protocol.cpp,    *)
(* servera/main.cpp).  TCP cuts the stream anywhere and recv takes         *)
(* whatever has arrived.  It goes to the front of a buffer that all        *)
(* clients share and nobody clears: servera's is global, and Server's lies *)
(* on the stack where the one of the previous call was.  The server looks  *)
(* for the first magic number in the whole buffer, takes the frame behind  *)
(* it and forgets the rest, also what belongs to the next frame.           *)
(*                                                                         *)
(* The unit is a part of a frame: half of the magic number, version and    *)
(* function, the body.                                                     *)
(***************************************************************************)
EXTENDS Sequences, FiniteSets, Integers

CONSTANTS
  Clients,
  Capacity  \* units in the buffer

FrameLength == 4

ASSUME ClientsAssumption  == IsFiniteSet(Clients)
ASSUME CapacityAssumption == Capacity \in Nat /\ Capacity >= 2 * FrameLength

VARIABLES
  sent,     \* the frames a client has sent
  taken,    \* how many units of them recv has taken
  buffer,   \* what is in the buffer, the parts of earlier frames too
  handled,  \* the records made from a client's events
  torn      \* history: the clients with a frame that recv did not take whole

vars == <<sent, taken, buffer, handled, torn>>

\* A client asks for its file, and confirms it when the reply has come.
Functions == <<"Normal", "Ensure">>

Magic1 == <<"78", "56">>
Magic2 == <<"34", "12">>
Junk   == <<"junk">>

Header(fn)     == <<"FD", fn>>
Headers        == {Header(fn) : fn \in {"Normal", "Ensure"}}
Body(c, fn)    == <<c, fn>>
Frame(c, fn)   == <<Magic1, Magic2, Header(fn), Body(c, fn)>>
Record(fn, b)  == [fn |-> fn, body |-> b]

\* Everything that a client sends, one frame after the other.
Stream(c) == Frame(c, Functions[1]) \o Frame(c, Functions[2])

Init ==
  /\ sent = [c \in Clients |-> 0]
  /\ taken = [c \in Clients |-> 0]
  /\ buffer = [i \in 1 .. Capacity |-> Junk]
  /\ handled = [c \in Clients |-> <<>>]
  /\ torn = {}

-----------------------------------------------------------------------------
\* One send of a whole frame; the second after an answer to a request.
SendFrame(c) ==
  /\ sent[c] < Len(Functions)
  /\ sent[c] > 0 => \E i \in DOMAIN handled[c] : handled[c][i].fn = "Normal"
  /\ sent' = [sent EXCEPT ![c] = @ + 1]
  /\ UNCHANGED <<taken, buffer, handled, torn>>

-----------------------------------------------------------------------------
(* ClientProtocol::run, and the same lines of LWork::exec.                 *)

\* if (length <= 0): an event may come when there is nothing to receive.
NothingNever(c, n) == FALSE
Nothing(c, n)      == n = taken[c]

(***************************************************************************)
(* The buffer after recv: behind the received part is what was there.  On  *)
(* the stack a stretch of it may have been written over since.             *)
(***************************************************************************)
FilledInFront(part, old) == part \o old
Filled(part, old)        == part \o SubSeq(old, Len(part) + 1, Capacity)

WrittenOver(stretch) == [i \in 1 .. Capacity |-> IF i \in stretch THEN Junk ELSE buffer[i]]

Stale == {WrittenOver(i .. j) : i, j \in 1 .. Capacity}

MagicsIn(b)     == {i \in 1 .. Capacity - 1 : b[i] = Magic1 /\ b[i + 1] = Magic2}
MagicInFront(b) == 1
FirstMagic(b)   == CHOOSE i \in MagicsIn(b) : \A j \in MagicsIn(b) : i <= j

UnitAt(b, i) == IF i <= Capacity THEN b[i] ELSE Junk

\* The record of the frame behind the first magic number, if 0xFD follows it.
\* Without one the check is of a byte behind the buffer, whatever it is.
RecordsIn(b) ==
  IF MagicsIn(b) = {}
  THEN {<<>>, <<Record("junk", Junk)>>}
  ELSE LET i == FirstMagic(b)
       IN  {IF UnitAt(b, i + 2) \in Headers
            THEN <<Record(UnitAt(b, i + 2)[2], UnitAt(b, i + 3))>>
            ELSE <<>>}

Whole(c, n) == taken[c] % FrameLength = 0 /\ n % FrameLength = 0

\* n units of the client's stream have arrived so far.
Recv(c) ==
  \E n \in taken[c] .. sent[c] * FrameLength :
    /\ ~Nothing(c, n)
    /\ \E old \in Stale :
         /\ buffer' = Filled(SubSeq(Stream(c), taken[c] + 1, n), old)
         /\ \E records \in RecordsIn(buffer') :
              handled' = [handled EXCEPT ![c] = @ \o records]
    /\ taken' = [taken EXCEPT ![c] = n]
    /\ torn' = IF Whole(c, n) THEN torn ELSE torn \cup {c}
    /\ UNCHANGED sent

Next == \E c \in Clients : SendFrame(c) \/ Recv(c)

Spec == Init /\ [][Next]_vars

-----------------------------------------------------------------------------
Units == {Magic1, Magic2, Junk} \cup Headers
           \cup (Clients \X {"Normal", "Ensure"})

TypeOK ==
  /\ \A c \in Clients : /\ taken[c] \in 0 .. sent[c] * FrameLength
                        /\ sent[c] \in 0 .. Len(Functions)
  /\ buffer \in [1 .. Capacity -> Units]
  /\ \A c \in Clients : handled[c] \in
       Seq([fn : {"Normal", "Ensure", "junk"}, body : Units])
  /\ torn \subseteq Clients

OwnRecord(c, k) == Record(Functions[k], Body(c, Functions[k]))

(***************************************************************************)
(* A client whose frames are received whole has each of them handled once, *)
(* in order, with its own name and number, whatever is in the buffer from  *)
(* the torn frames of the others (protocol.cpp:64, servera/main.cpp:44).   *)
(***************************************************************************)
OwnFrames ==
  \A c \in Clients \ torn :
    handled[c] = [k \in 1 .. taken[c] \div FrameLength |-> OwnRecord(c, k)]

(***************************************************************************)
(* A torn frame does not spoil the next one: a frame that one recv takes   *)
(* whole is handled, also behind the rest of an earlier one                *)
(* (protocol.cpp:74), unless it is the second one in that recv.            *)
(***************************************************************************)
FirstWhole(c) == (taken[c] + FrameLength - 1) \div FrameLength + 1

NextFrameFound ==
  [][\A c \in Clients :
       taken'[c] # taken[c] /\ FirstWhole(c) * FrameLength <= taken'[c] =>
         handled'[c] = Append(handled[c], OwnRecord(c, FirstWhole(c)))]_vars
=============================================================================
