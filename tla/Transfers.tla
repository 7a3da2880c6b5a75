----------------------------- MODULE Transfers -----------------------------
(***************************************************************************)
(* What a download server promises its clients, whatever its threads do:   *)
(* a client receives its own file in order, from the place it asked for;   *)
(* its connection is closed when it has everything, or has itself left or  *)
(* been refused; and nothing comes after the closing.  Server and ServerA  *)
(* implement this until the promise breaks: they say by which steps it may. *)
(***************************************************************************)
EXTENDS Sequences, Integers

CONSTANTS Clients, Bytes

VARIABLES
  from,     \* the place in its file where a client asked to start
  got,      \* what a client has received: file and position of each byte
  released, \* the clients that have left, or whose file does not exist
  closed,   \* the clients whose connection the server has closed
  broken    \* the server keeps the promise no more

vars == <<from, got, released, closed, broken>>

Init ==
  /\ from \in [Clients -> 0 .. Bytes]
  /\ got = [c \in Clients |-> <<>>]
  /\ released = {} /\ closed = {} /\ broken = FALSE

Rest(c) == Bytes - from[c] - Len(got[c])

Ask(c) ==
  /\ got[c] = <<>> /\ c \notin closed
  /\ \E n \in 0 .. Bytes : from' = [from EXCEPT ![c] = n]
  /\ UNCHANGED <<got, released, closed, broken>>

Release(c) ==
  /\ released' = released \cup {c}
  /\ UNCHANGED <<from, got, closed, broken>>

\* The next n bytes of the client's file arrive.
Receive(c, n) ==
  got' = [got EXCEPT ![c] =
            @ \o [i \in 1 .. n |-> <<c, from[c] + Len(@) + i>>]]

Transfer(c) ==
  /\ c \notin closed
  /\ \E n \in 1 .. Rest(c) : Receive(c, n)
  /\ UNCHANGED <<from, released, closed, broken>>

\* The connection is closed, with the last bytes or after them.
Close(c) ==
  /\ c \notin closed
  /\ \/ Receive(c, Rest(c))
     \/ c \in released /\ UNCHANGED got
  /\ closed' = closed \cup {c}
  /\ UNCHANGED <<from, released, broken>>

\* From here on anything may happen.
Break == broken' = TRUE

Next ==
  \/ \E c \in Clients : Ask(c) \/ Release(c) \/ Transfer(c) \/ Close(c)
  \/ Break

Spec == Init /\ [][Next]_vars

-----------------------------------------------------------------------------
OwnPrefix(c) == got[c] = [i \in 1 .. Len(got[c]) |-> <<c, from[c] + i>>]

(***************************************************************************)
(* A client has nothing but its own file, in order, from where it asked.   *)
(***************************************************************************)
OwnBytes == ~broken => \A c \in Clients : OwnPrefix(c)

(***************************************************************************)
(* The connection of a client that stays is closed only behind the last    *)
(* byte of its file.                                                       *)
(***************************************************************************)
ClosedComplete ==
  ~broken => \A c \in closed \ released : Rest(c) = 0
=============================================================================
