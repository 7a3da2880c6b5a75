-------------------------------- MODULE Peers --------------------------------
(***************************************************************************)
(* What Server and servera have in common: clients that ask for one file   *)
(* each, as a server sees clienta (main.cpp), and the server's table of    *)
(* descriptors.  The kernel gives the lowest free number to a new socket   *)
(* or file, so a number that was closed soon means something else.         *)
(***************************************************************************)
EXTENDS Sequences, FiniteSets, Integers

CONSTANTS
  Clients,  \* each connects once and asks for a file of its own
  Limits,   \* how many descriptors the process may have: one of these
  Bytes     \* length of every file

ASSUME ClientsAssumption == IsFiniteSet(Clients)
ASSUME NumbersAssumption == Limits \subseteq Nat /\ Bytes \in Nat \ {0}

VARIABLES
  table,    \* what a descriptor is: a socket or a file, and whose
  backlog,  \* connections not accepted yet
  accepted, \* the clients whose connection was accepted
  gone,     \* the clients that have closed their end
  phase,    \* what a client does
  told,     \* the number of the file's descriptor that a client was sent
  from,     \* the place in the file a client asked to start at
  rx,       \* the frame in the receive buffer of a client's socket
  got,      \* the bytes a client has received: file and position
  unopened  \* history: the clients for whom open has returned -1

peerVars == <<table, backlog, accepted, gone, phase, told, from, rx, got, unopened>>

NoFd    == 0     \* -1 in the code
Nobody  == "nobody"
NoFrame == <<>>

Fds     == DOMAIN table
Free    == <<"free">>
Sock(c) == <<"sock", c>>
File(c) == <<"file", c>>

IsSock(x)   == x \in Fds /\ table[x][1] = "sock"
IsFile(x)   == x \in Fds /\ table[x][1] = "file"
IsClosed(x) == x \notin Fds \/ table[x] = Free
Owner(x)    == table[x][2]

HasFree    == \E x \in Fds : table[x] = Free
LowestFree == CHOOSE x \in Fds : /\ table[x] = Free
                                 /\ \A y \in 1 .. x - 1 : table[y] # Free

\* The server has closed the client's socket.
Shut(c) == c \in accepted /\ \A x \in Fds : table[x] # Sock(c)

\* The table after close of all numbers in S, whatever they are.
Closed(S) == [x \in Fds |-> IF x \in S THEN Free ELSE table[x]]

PeersInit ==
  /\ \E n \in Limits : table = [x \in 1 .. n |-> Free]
  /\ backlog = <<>> /\ accepted = {} /\ gone = {} /\ unopened = {}
  /\ phase = [c \in Clients |-> "away"]
  /\ told = [c \in Clients |-> NoFd]
  /\ from = [c \in Clients |-> 0]
  /\ rx = [c \in Clients |-> NoFrame]
  /\ got = [c \in Clients |-> <<>>]

-----------------------------------------------------------------------------
(* The clients.                                                            *)

\* connect and the first frame: a fresh download, or a resume from a place.
Connect(c) ==
  /\ phase[c] = "away"
  /\ \/ rx' = [rx EXCEPT ![c] = <<"Normal", 0>>] /\ UNCHANGED from
     \/ \E n \in 0 .. Bytes :
          /\ rx' = [rx EXCEPT ![c] = <<"Resume", n>>]
          /\ from' = [from EXCEPT ![c] = n]
  /\ phase' = [phase EXCEPT ![c] = "asked"]
  /\ backlog' = Append(backlog, c)
  /\ UNCHANGED <<table, accepted, gone, told, got, unopened>>

\* The size and the descriptor have arrived: the client confirms them.
Confirm(c) ==
  /\ phase[c] = "offered" /\ c \notin gone
  /\ phase' = [phase EXCEPT ![c] = "receiving"]
  /\ rx' = [rx EXCEPT ![c] = <<"Ensure", told[c]>>]
  /\ UNCHANGED <<table, backlog, accepted, gone, told, from, got, unopened>>

\* The client's end is closed.
Leave(c) ==
  /\ phase[c] # "away" /\ c \notin gone
  /\ gone' = gone \cup {c}
  /\ UNCHANGED <<table, backlog, accepted, phase, told, from, rx, got, unopened>>

-----------------------------------------------------------------------------
(* What a server does with sockets and files.                              *)

\* accept: the first of the waiting connections gets a number.
TakeConnection ==
  /\ backlog # <<>> /\ HasFree
  /\ table' = [table EXCEPT ![LowestFree] = Sock(Head(backlog))]
  /\ accepted' = accepted \cup {Head(backlog)}
  /\ backlog' = Tail(backlog)
  /\ UNCHANGED <<gone, phase, told, from, rx, got, unopened>>

\* recv takes the frame that has come on socket x.
TakeFrame(x) ==
  /\ IsSock(x) /\ rx[Owner(x)] # NoFrame
  /\ rx' = [rx EXCEPT ![Owner(x)] = NoFrame]
  /\ UNCHANGED <<table, backlog, accepted, gone, phase, told, from, got, unopened>>

\* open of a client's file returns x.  It may fail although access has found
\* the file: it is not writable, or no descriptor is free.
Open(c, x) ==
  \/ /\ HasFree /\ x = LowestFree
     /\ table' = [table EXCEPT ![x] = File(c)]
     /\ UNCHANGED unopened
  \/ /\ x = NoFd
     /\ unopened' = unopened \cup {c}
     /\ UNCHANGED table

\* st_size after fstat (x): 0 if that has failed.
SizeOf(x) == IF x = NoFd THEN 0 ELSE Bytes

\* A reply goes to whoever has the descriptor now, if he waits for one.
Reply(fd, to, number) ==
  IF IsSock(fd) /\ phase[Owner(fd)] = "asked"
  THEN /\ phase' = [phase EXCEPT ![Owner(fd)] = to]
       /\ told'  = [told EXCEPT ![Owner(fd)] = number]
  ELSE UNCHANGED <<phase, told>>

\* n bytes of file p behind offset go to whoever has the descriptor now.
Deliver(fd, p, offset, n) ==
  got' = IF Owner(fd) \in gone THEN got
         ELSE [got EXCEPT ![Owner(fd)] = @ \o [i \in 1 .. n |-> <<p, offset + i>>]]

-----------------------------------------------------------------------------
Requests == {"Normal", "Resume", "Ensure"}
Numbers  == {NoFd} \cup Fds
Owners   == {Free} \cup {Sock(c) : c \in Clients} \cup {File(c) : c \in Clients}

\* What a client may send: with which place or number.
Messages == ({"Normal"} \X {0}) \cup ({"Resume"} \X (0 .. Bytes)) \cup ({"Ensure"} \X Numbers)

PeersTypeOK ==
  /\ \E n \in Limits : table \in [1 .. n -> Owners]
  /\ accepted \subseteq Clients /\ gone \subseteq Clients /\ unopened \subseteq Clients
  /\ backlog \in Seq(Clients)
  /\ phase \in [Clients -> {"away", "asked", "refused", "offered", "receiving"}]
  /\ told \in [Clients -> Numbers] /\ from \in [Clients -> 0 .. Bytes]
  /\ rx \in [Clients -> {NoFrame} \cup Messages]
  /\ got \in [Clients -> Seq(Clients \X (1 .. Bytes))]

Complete(c) == Len(got[c]) = Bytes - from[c]

\* The client has its own file, in order, from where it asked to start.
OwnPrefix(c) == got[c] = [i \in 1 .. Len(got[c]) |-> <<c, from[c] + i>>]
=============================================================================
