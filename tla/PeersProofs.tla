---------------------------- MODULE PeersProofs -----------------------------
(***************************************************************************)
(* Lemmas on the table of descriptors and the clients (Peers), for the     *)
(* proofs about Server and ServerA; and what follows from the promise of   *)
(* Transfers, which both keep, for any clients and files.                  *)
(***************************************************************************)
EXTENDS Peers, FiniteSetTheorems, SequenceTheorems, WellFoundedInduction, TLAPS

(***************************************************************************)
(* Numbers.                                                                *)
(***************************************************************************)

(***************************************************************************)
(* A set of natural numbers has a least element, because the intervals up  *)
(* to its elements have a least one.                                       *)
(***************************************************************************)
LEMMA LeastNumber ==
  ASSUME NEW S \in SUBSET Nat, S # {}
  PROVE  \E m \in S : \A k \in S : m <= k
<1> DEFINE Upto == {0 .. n : n \in S}
<1>1. Upto \subseteq FiniteSubsetsOf(Nat)
  <2>1. \A n \in Nat : IsFiniteSet(0 .. n)
    BY FS_Interval
  <2> QED BY <2>1 DEF FiniteSubsetsOf
<1>2. Upto # {}
  OBVIOUS
<1>3. IsWellFoundedOn(StrictSubsetOrdering(Nat), FiniteSubsetsOf(Nat))
  BY FS_StrictSubsetOrderingWellFounded
<1> HIDE DEF Upto
<1>4. \E I \in Upto : \A J \in Upto : <<J, I>> \notin StrictSubsetOrdering(Nat)
  BY <1>1, <1>2, <1>3, WFMin
<1>5. PICK m \in S : \A J \in Upto : <<J, 0 .. m>> \notin StrictSubsetOrdering(Nat)
  BY <1>4 DEF Upto
<1>6. ASSUME NEW k \in S, k < m PROVE FALSE
  <2>1. 0 .. k \in Upto
    BY DEF Upto
  <2>2. 0 .. k \subseteq 0 .. m /\ 0 .. k # 0 .. m
    <3>1. m \in 0 .. m /\ m \notin 0 .. k
      BY <1>6
    <3> QED BY <3>1, <1>6
  <2>3. <<0 .. k, 0 .. m>> \in StrictSubsetOrdering(Nat)
    BY <2>2 DEF StrictSubsetOrdering
  <2> QED BY <2>1, <2>3, <1>5
<1> QED BY <1>6

(***************************************************************************)
(* The number a new descriptor gets is free.                               *)
(***************************************************************************)
LEMMA LowestFreeIsFree ==
  ASSUME PeersTypeOK, HasFree
  PROVE  LowestFree \in Fds /\ table[LowestFree] = Free
<1> DEFINE S == {x \in Fds : table[x] = Free}
<1>1. PICK n \in Nat : Fds = 1 .. n
  BY NumbersAssumption DEF PeersTypeOK, Fds
<1>2. S \in SUBSET Nat /\ S # {}
  BY <1>1 DEF HasFree
<1>3. PICK m \in S : \A k \in S : m <= k
  BY <1>2, LeastNumber
<1>4. \A y \in 1 .. m - 1 : y \in Fds /\ y < m
  BY <1>1, <1>3
<1>5. m \in Fds /\ table[m] = Free /\ \A y \in 1 .. m - 1 : table[y] # Free
  BY <1>1, <1>3, <1>4
<1> QED BY <1>5 DEF LowestFree

(***************************************************************************)
(* What a descriptor may be are different things.                          *)
(***************************************************************************)
LEMMA Kinds ==
  /\ \A p : /\ Sock(p) # Free /\ File(p) # Free
            /\ Sock(p)[1] = "sock" /\ Sock(p)[2] = p
            /\ File(p)[1] = "file" /\ File(p)[2] = p
  /\ \A p, q : Sock(p) # File(q) /\ (Sock(p) = Sock(q) => p = q)
                                 /\ (File(p) = File(q) => p = q)
  /\ Free[1] = "free"
BY DEF Sock, File, Free

LEMMA FdsAreNumbers ==
  ASSUME PeersTypeOK
  PROVE  /\ Fds \subseteq Nat \ {0} /\ Numbers \subseteq Nat
         /\ NoFd \in Numbers /\ NoFd \notin Fds
BY NumbersAssumption DEF PeersTypeOK, Fds, Numbers, NoFd

LEMMA SockMeans ==
  ASSUME PeersTypeOK, NEW x, IsSock(x)
  PROVE  x \in Fds /\ Owner(x) \in Clients /\ table[x] = Sock(Owner(x))
<1>1. x \in Fds /\ table[x][1] = "sock"
  BY DEF IsSock
<1>2. table[x] \in Owners
  BY <1>1 DEF PeersTypeOK, Fds
<1>3. PICK p \in Clients : table[x] = Sock(p)
  BY <1>1, <1>2, Kinds DEF Owners
<1> QED BY <1>1, <1>3, Kinds DEF Owner

LEMMA FileMeans ==
  ASSUME PeersTypeOK, NEW x, IsFile(x)
  PROVE  x \in Fds /\ Owner(x) \in Clients /\ table[x] = File(Owner(x))
<1>1. x \in Fds /\ table[x][1] = "file"
  BY DEF IsFile
<1>2. table[x] \in Owners
  BY <1>1 DEF PeersTypeOK, Fds
<1>3. PICK p \in Clients : table[x] = File(p)
  BY <1>1, <1>2, Kinds DEF Owners
<1> QED BY <1>1, <1>3, Kinds DEF Owner

LEMMA MeansSock ==
  ASSUME NEW x \in Fds, NEW p, table[x] = Sock(p)
  PROVE  IsSock(x) /\ Owner(x) = p /\ ~IsClosed(x) /\ ~IsFile(x)
BY Kinds DEF IsSock, IsFile, IsClosed, Owner

LEMMA MeansFile ==
  ASSUME NEW x \in Fds, NEW p, table[x] = File(p)
  PROVE  IsFile(x) /\ Owner(x) = p /\ ~IsClosed(x) /\ ~IsSock(x)
BY Kinds DEF IsSock, IsFile, IsClosed, Owner

(***************************************************************************)
(* The table after a descriptor is made, or some are closed.               *)
(***************************************************************************)
LEMMA TableAfter ==
  ASSUME PeersTypeOK, NEW x \in Fds, NEW v \in Owners, table' = [table EXCEPT ![x] = v]
  PROVE  /\ \E n \in Limits : table' \in [1 .. n -> Owners]
         /\ Fds' = Fds /\ Numbers' = Numbers /\ Messages' = Messages
         /\ table'[x] = v /\ \A y \in Fds : y # x => table'[y] = table[y]
<1>1. PICK n \in Limits : table \in [1 .. n -> Owners]
  BY DEF PeersTypeOK
<1>2. table' \in [1 .. n -> Owners] /\ Fds' = Fds
  BY <1>1 DEF Fds
<1> QED BY <1>1, <1>2 DEF Fds, Numbers, Messages

LEMMA TableClosed ==
  ASSUME PeersTypeOK, NEW S, table' = Closed(S)
  PROVE  /\ \E n \in Limits : table' \in [1 .. n -> Owners]
         /\ Fds' = Fds /\ Numbers' = Numbers /\ Messages' = Messages
         /\ \A y \in Fds : table'[y] = IF y \in S THEN Free ELSE table[y]
<1>1. PICK n \in Limits : table \in [1 .. n -> Owners]
  BY DEF PeersTypeOK
<1>2. table' \in [1 .. n -> Owners] /\ Fds' = Fds
  BY <1>1 DEF Closed, Fds, Owners
<1> QED BY <1>1, <1>2 DEF Closed, Fds, Numbers, Messages

LEMMA TableSame ==
  ASSUME table' = table
  PROVE  Fds' = Fds /\ Numbers' = Numbers /\ Messages' = Messages
BY DEF Fds, Numbers, Messages
(***************************************************************************)
(* Each step that Peers describes as a whole keeps the types.              *)
(***************************************************************************)
LEMMA PeersStepTyped ==
  ASSUME PeersTypeOK,
         \/ \E p \in Clients : Connect(p) \/ Confirm(p) \/ Leave(p)
         \/ TakeConnection
         \/ \E x \in Fds : TakeFrame(x)
         \/ UNCHANGED peerVars
  PROVE  PeersTypeOK' /\ Fds' = Fds /\ Numbers' = Numbers /\ Messages' = Messages
<1>1. CASE TakeConnection
  <2>1. LowestFree \in Fds
    BY <1>1, LowestFreeIsFree DEF TakeConnection
  <2>2. Head(backlog) \in Clients /\ Tail(backlog) \in Seq(Clients)
    BY <1>1 DEF TakeConnection, PeersTypeOK
  <2>3. Sock(Head(backlog)) \in Owners
    BY <2>2 DEF Owners
  <2>4. /\ \E n \in Limits : table' \in [1 .. n -> Owners]
        /\ Fds' = Fds /\ Numbers' = Numbers /\ Messages' = Messages
    BY <1>1, <2>1, <2>3, TableAfter DEF TakeConnection
  <2> QED BY <1>1, <2>2, <2>4 DEF TakeConnection, PeersTypeOK, Owners
<1>2. ASSUME table' = table
      PROVE  PeersTypeOK'
  <2>1. Fds' = Fds /\ Numbers' = Numbers /\ Messages' = Messages
    BY <1>2, TableSame
  <2>2. ASSUME NEW p \in Clients, Connect(p) PROVE PeersTypeOK'
    <3>1. /\ <<"Normal", 0>> \in Messages
          /\ \A n \in 0 .. Bytes : <<"Resume", n>> \in Messages
      BY DEF Messages
    <3>2. rx' \in [Clients -> {NoFrame} \cup Messages] /\ from' \in [Clients -> 0 .. Bytes]
      BY <2>2, <3>1 DEF Connect, PeersTypeOK
    <3>3. /\ backlog' \in Seq(Clients)
          /\ phase' \in [Clients -> {"away", "asked", "refused", "offered", "receiving"}]
      BY <2>2 DEF Connect, PeersTypeOK
    <3> QED BY <1>2, <2>1, <2>2, <3>2, <3>3 DEF Connect, PeersTypeOK, Owners
  <2>3. ASSUME NEW p \in Clients, Confirm(p) PROVE PeersTypeOK'
    <3>1. <<"Ensure", told[p]>> \in Messages
      BY DEF Messages, PeersTypeOK
    <3> QED BY <2>1, <2>3, <3>1 DEF Confirm, PeersTypeOK, Owners
  <2>4. ASSUME NEW p \in Clients, Leave(p) PROVE PeersTypeOK'
    BY <2>1, <2>4 DEF Leave, PeersTypeOK, Owners
  <2>5. ASSUME NEW x \in Fds, TakeFrame(x) PROVE PeersTypeOK'
    BY <2>1, <2>5 DEF TakeFrame, PeersTypeOK, Owners
  <2>6. CASE UNCHANGED peerVars
    BY <2>1, <2>6 DEF peerVars, PeersTypeOK, Owners
  <2>7. CASE TakeConnection
    BY <1>1, <2>7
  <2> QED BY <2>2, <2>3, <2>4, <2>5, <2>6, <2>7
<1>3. TakeConnection \/ table' = table
  BY DEF Connect, Confirm, Leave, TakeFrame, peerVars
<1>4. ASSUME table' = table
      PROVE  Fds' = Fds /\ Numbers' = Numbers /\ Messages' = Messages
  BY <1>4, TableSame
<1> QED BY <1>1, <1>2, <1>3, <1>4

(***************************************************************************)
(* The parts of other steps.                                               *)
(***************************************************************************)
LEMMA OpenTyped ==
  ASSUME PeersTypeOK, NEW p \in Clients, NEW x \in Numbers, Open(p, x)
  PROVE  /\ \E n \in Limits : table' \in [1 .. n -> Owners]
         /\ Fds' = Fds /\ Numbers' = Numbers /\ Messages' = Messages
         /\ unopened \subseteq unopened' /\ unopened' \subseteq Clients
         /\ x = NoFd => p \in unopened' /\ table' = table
         /\ x # NoFd => /\ unopened' = unopened /\ table[x] = Free
                         /\ x \in Fds /\ table' = [table EXCEPT ![x] = File(p)]
<1>1. CASE HasFree /\ x = LowestFree /\ table' = [table EXCEPT ![x] = File(p)]
           /\ UNCHANGED unopened
  <2>1. x \in Fds /\ table[x] = Free
    BY <1>1, LowestFreeIsFree
  <2>2. File(p) \in Owners
    BY DEF Owners
  <2> QED BY <1>1, <2>1, <2>2, TableAfter, FdsAreNumbers DEF PeersTypeOK
<1>2. CASE x = NoFd /\ unopened' = unopened \cup {p} /\ UNCHANGED table
  BY <1>2, TableSame DEF PeersTypeOK
<1> QED BY <1>1, <1>2 DEF Open

LEMMA ReplyTyped ==
  ASSUME PeersTypeOK, NEW x, NEW to \in {"refused", "offered", "receiving"},
         NEW n \in Numbers, Reply(x, to, n)
  PROVE  /\ phase' \in [Clients -> {"away", "asked", "refused", "offered", "receiving"}]
         /\ told' \in [Clients -> Numbers]
BY DEF Reply, PeersTypeOK

\* Only who asked, and has the number now, takes a reply.
LEMMA ReplyKeeps ==
  ASSUME PeersTypeOK, NEW x, NEW to \in {"refused", "offered", "receiving"},
         NEW n, Reply(x, to, n)
  PROVE  \A c \in Clients : \/ phase'[c] = phase[c] /\ told'[c] = told[c]
                            \/ /\ IsSock(x) /\ c = Owner(x) /\ phase[c] = "asked"
                               /\ phase'[c] = to /\ told'[c] = n
BY DEF Reply, PeersTypeOK

(***************************************************************************)
(* A number that has not changed hands is the client's own socket.         *)
(***************************************************************************)
LEMMA OwnReply ==
  ASSUME PeersTypeOK, NEW x \in Fds, NEW c \in Clients, table[x] = Sock(c),
         phase[c] = "asked", NEW to \in {"refused", "offered", "receiving"},
         NEW n, Reply(x, to, n)
  PROVE  /\ phase'[c] = to /\ told'[c] = n
         /\ \A d \in Clients \ {c} : phase'[d] = phase[d] /\ told'[d] = told[d]
<1>1. IsSock(x) /\ Owner(x) = c
  BY MeansSock
<1>2. phase' = [phase EXCEPT ![c] = to] /\ told' = [told EXCEPT ![c] = n]
  BY <1>1 DEF Reply
<1> QED BY <1>2 DEF PeersTypeOK

LEMMA DeliverTyped ==
  ASSUME PeersTypeOK, NEW x, IsSock(x), NEW p \in Clients, NEW i \in Nat, NEW n \in Nat,
         i + n <= Bytes, Deliver(x, p, i, n)
  PROVE  got' \in [Clients -> Seq(Clients \X (1 .. Bytes))]
<1> DEFINE Places == Clients \X (1 .. Bytes)
           part   == [j \in 1 .. n |-> <<p, i + j>>]
<1>1. Owner(x) \in Clients
  BY SockMeans
<1>2. part \in Seq(Places)
  BY NumbersAssumption
<1>3. got \in [Clients -> Seq(Places)]
  BY DEF PeersTypeOK
<1>4. got' = IF Owner(x) \in gone THEN got ELSE [got EXCEPT ![Owner(x)] = @ \o part]
  BY DEF Deliver
<1> HIDE DEF Places, part
<1>5. got[Owner(x)] \o part \in Seq(Places)
  BY <1>1, <1>2, <1>3
<1>6. got' \in [Clients -> Seq(Places)]
  BY <1>1, <1>3, <1>4, <1>5
<1> QED BY <1>6 DEF Places

(***************************************************************************)
(* What a client has received, as parts of files.                          *)
(***************************************************************************)
\* A client's own file from place a on, n bytes of it.
Part(c, a, n) == [i \in 1 .. n |-> <<c, a + i>>]

(***************************************************************************)
(* A part of a file has the length it was made with.                       *)
(***************************************************************************)
LEMMA PartLength ==
  ASSUME NEW c, NEW a \in Nat, NEW n \in Nat
  PROVE  Part(c, a, n) \in Seq({c} \X Nat) /\ Len(Part(c, a, n)) = n
  BY DEF Part

(***************************************************************************)
(* A part of a file and the next bytes of it are a longer part.            *)
(***************************************************************************)
LEMMA PartGrows ==
  ASSUME NEW c, NEW a \in Nat, NEW n \in Nat, NEW m \in Nat
  PROVE  Part(c, a, n) \o [i \in 1 .. m |-> <<c, a + n + i>>] = Part(c, a, n + m)
<1> DEFINE Places == {c} \X Nat
           s == Part(c, a, n)
           t == [i \in 1 .. m |-> <<c, a + n + i>>]
           u == Part(c, a, n + m)
<1>1. s \in Seq(Places) /\ Len(s) = n
  BY PartLength
<1>2. t \in Seq(Places) /\ Len(t) = m
  OBVIOUS
<1>3. u \in Seq(Places) /\ Len(u) = n + m
  BY PartLength
<1>4. \A i \in 1 .. n + m : u[i] = <<c, a + i>>
  BY DEF Part
<1>5. \A i \in 1 .. n : s[i] = <<c, a + i>>
  BY DEF Part
<1>6. \A i \in 1 .. m : t[i] = <<c, a + n + i>>
  OBVIOUS
<1> HIDE DEF Places, s, t, u
<1>7. s \o t \in Seq(Places) /\ Len(s \o t) = n + m
  BY <1>1, <1>2
<1>8. ASSUME NEW i \in 1 .. n + m
      PROVE  (s \o t)[i] = u[i]
  <2>1. CASE i <= n
    <3>1. (s \o t)[i] = s[i]
      BY <2>1, <1>1, <1>2
    <3>2. i \in 1 .. n
      BY <2>1
    <3>3. QED BY <3>1, <3>2, <1>4, <1>5
  <2>2. CASE i > n
    <3>1. (s \o t)[i] = t[i - n] /\ i - n \in 1 .. m
      BY <2>2, <1>1, <1>2
    <3>2. a + n + (i - n) = a + i
      OBVIOUS
    <3>3. t[i - n] = <<c, a + i>>
      BY <3>1, <3>2, <1>6
    <3>4. u[i] = <<c, a + i>>
      BY <1>4
    <3>5. (s \o t)[i] = t[i - n]
      BY <3>1
    <3>6. QED BY <3>3, <3>4, <3>5, Zenon
  <2>3. i <= n \/ i > n
    OBVIOUS
  <2>4. QED BY <2>1, <2>2, <2>3, Zenon
<1>9. s \o t = u
  BY <1>3, <1>7, <1>8
<1>10. QED
  BY <1>9 DEF s, t, u

LEMMA PrefixIsPart ==
  ASSUME PeersTypeOK, NEW c \in Clients
  PROVE  /\ from[c] \in Nat /\ Len(got[c]) \in Nat /\ from[c] <= Bytes
         /\ OwnPrefix(c) <=> got[c] = Part(c, from[c], Len(got[c]))
<1>1. from[c] \in 0 .. Bytes /\ got[c] \in Seq(Clients \X (1 .. Bytes))
  BY DEF PeersTypeOK
<1>2. Len(got[c]) \in Nat /\ from[c] \in Nat /\ from[c] <= Bytes
  BY <1>1, NumbersAssumption
<1> QED BY <1>2 DEF OwnPrefix, Part

(***************************************************************************)
(* The next bytes of the client's own file, sent to its socket, are a step *)
(* of Transfers and leave it with its own bytes.                           *)
(***************************************************************************)
Receives(c, n) ==
  got' = [got EXCEPT ![c] = @ \o [i \in 1 .. n |-> <<c, from[c] + Len(@) + i>>]]

LEMMA Received ==
  ASSUME PeersTypeOK, NEW x \in Fds, NEW c \in Clients, table[x] = Sock(c),
         OwnPrefix(c), NEW n \in Nat, NEW o, c \in gone \/ o = from[c] + Len(got[c]),
         Deliver(x, c, o, n), UNCHANGED from
  PROVE  /\ \A d \in Clients \ {c} : got'[d] = got[d]
         /\ OwnPrefix(c)'
         /\ c \in gone => got' = got
         /\ c \notin gone => Receives(c, n) /\ Len(got'[c]) = Len(got[c]) + n
<1>1. Owner(x) = c
  BY MeansSock
<1>2. got \in [Clients -> Seq(Clients \X (1 .. Bytes))] /\ DOMAIN got = Clients
  BY DEF PeersTypeOK
<1>3. CASE c \in gone
  <2>1. got' = got
    BY <1>1, <1>3 DEF Deliver
  <2> QED BY <1>3, <2>1 DEF OwnPrefix
<1>4. CASE c \notin gone
  <2> DEFINE m == Len(got[c])
             a == from[c]
  <2>1. got' = [got EXCEPT ![c] = @ \o [i \in 1 .. n |-> <<c, o + i>>]] /\ o = a + m
    BY <1>1, <1>4 DEF Deliver
  <2>2. Receives(c, n)
    BY <2>1 DEF Receives
  <2>3. a \in Nat /\ m \in Nat /\ got[c] = Part(c, a, m)
    BY PrefixIsPart
  <2>4. got'[c] = got[c] \o [i \in 1 .. n |-> <<c, a + m + i>>]
    BY <1>2, <2>1
  <2> HIDE DEF m, a
  <2>5. got'[c] = Part(c, a, m + n)
    <3>1. Part(c, a, m) \o [i \in 1 .. n |-> <<c, a + m + i>>] = Part(c, a, m + n)
      BY <2>3, PartGrows
    <3> QED BY <2>3, <2>4, <3>1, Zenon
  <2>6. Len(got'[c]) = m + n
    <3>1. m + n \in Nat
      BY <2>3
    <3>2. Len(Part(c, a, m + n)) = m + n
      BY <2>3, <3>1, PartLength
    <3> QED BY <2>5, <3>2, Zenon
  <2>7. from'[c] = a
    BY DEF a
  <2>8. OwnPrefix(c)'
    BY <2>5, <2>6, <2>7 DEF OwnPrefix, Part
  <2>9. \A d \in Clients \ {c} : got'[d] = got[d]
    BY <1>2, <2>1
  <2> QED BY <1>4, <2>2, <2>6, <2>8, <2>9 DEF m
<1> QED BY <1>3, <1>4
-----------------------------------------------------------------------------
(* Sequences as sets.                                                      *)

Elems(s) == {s[i] : i \in DOMAIN s}

\* No two of the records are made for the same client.
Distinct(s) == \A i, j \in DOMAIN s : s[i].name = s[j].name => i = j

LEMMA AppendElems ==
  ASSUME NEW S, NEW s \in Seq(S), NEW e \in S
  PROVE  /\ Append(s, e) \in Seq(S) /\ Len(Append(s, e)) = Len(s) + 1
         /\ Elems(Append(s, e)) = Elems(s) \cup {e}
         /\ Distinct(s) /\ (\A d \in Elems(s) : d.name # e.name) => Distinct(Append(s, e))
<1> DEFINE u == Append(s, e)
<1>1. /\ u \in Seq(S) /\ Len(u) = Len(s) + 1 /\ Len(s) \in Nat
      /\ DOMAIN s = 1 .. Len(s) /\ DOMAIN u = 1 .. Len(s) + 1
      /\ u[Len(s) + 1] = e /\ \A i \in 1 .. Len(s) : u[i] = s[i]
  OBVIOUS
<1> HIDE DEF u
<1>2. \A i \in DOMAIN u : IF i \in DOMAIN s THEN u[i] = s[i] ELSE i = Len(s) + 1 /\ u[i] = e
  BY <1>1
<1>3. DOMAIN s \subseteq DOMAIN u /\ Len(s) + 1 \in DOMAIN u
  BY <1>1
<1>4. Elems(u) = Elems(s) \cup {e}
  BY <1>1, <1>2, <1>3 DEF Elems
<1>5. ASSUME Distinct(s), \A d \in Elems(s) : d.name # e.name PROVE Distinct(u)
  BY <1>2, <1>5 DEF Elems, Distinct
<1> QED BY <1>1, <1>4, <1>5 DEF u

LEMMA TailElems ==
  ASSUME NEW S, NEW s \in Seq(S), s # <<>>
  PROVE  /\ Head(s) \in Elems(s) /\ Head(s) \in S
         /\ Tail(s) \in Seq(S) /\ Len(Tail(s)) = Len(s) - 1
         /\ Elems(Tail(s)) \subseteq Elems(s)
         /\ Elems(s) = Elems(Tail(s)) \cup {Head(s)}
         /\ Distinct(s) => /\ Distinct(Tail(s))
                           /\ \A e \in Elems(Tail(s)) : e.name # Head(s).name
<1>1. /\ Head(s) = s[1] /\ 1 \in DOMAIN s /\ Len(s) \in Nat /\ DOMAIN s = 1 .. Len(s)
      /\ Tail(s) \in Seq(S) /\ DOMAIN Tail(s) = 1 .. Len(s) - 1
      /\ Len(Tail(s)) = Len(s) - 1
      /\ \A i \in DOMAIN Tail(s) : Tail(s)[i] = s[i + 1] /\ i + 1 \in DOMAIN s
  OBVIOUS
<1>2. \A i \in DOMAIN s : i = 1 \/ (i - 1 \in DOMAIN Tail(s) /\ s[i] = Tail(s)[i - 1])
  BY <1>1
<1>3. Elems(s) = Elems(Tail(s)) \cup {Head(s)}
  <2> DEFINE u == Tail(s)
             h == Head(s)
  <2>1. /\ \A i \in DOMAIN s : s[i] = h \/ \E j \in DOMAIN u : s[i] = u[j]
        /\ \A j \in DOMAIN u : \E i \in DOMAIN s : u[j] = s[i]
        /\ \E i \in DOMAIN s : h = s[i]
    BY <1>1, <1>2
  <2> HIDE DEF u, h
  <2>2. Elems(s) = Elems(u) \cup {h}
    BY <2>1 DEF Elems
  <2> QED BY <2>2 DEF u, h
<1>4. ASSUME Distinct(s) PROVE Distinct(Tail(s))
  BY <1>1, <1>4 DEF Distinct
<1>5. ASSUME Distinct(s), NEW i \in DOMAIN Tail(s), Tail(s)[i].name = Head(s).name
      PROVE  FALSE
  BY <1>1, <1>5 DEF Distinct
<1>6. \A e \in Elems(Tail(s)) : \E i \in DOMAIN Tail(s) : e = Tail(s)[i]
  BY DEF Elems
<1>7. Head(s) \in S
  BY <1>1
<1> QED BY <1>1, <1>3, <1>4, <1>5, <1>6, <1>7

-----------------------------------------------------------------------------
(***************************************************************************)
(* A client is away, then waits for accept, then has at most one socket.   *)
(***************************************************************************)
ConnInv ==
  /\ \A c \in Clients :
       phase[c] = "away" => c \notin accepted \cup Elems(backlog) \cup gone
  /\ \A i, j \in DOMAIN backlog : backlog[i] = backlog[j] => i = j
  /\ accepted \cap Elems(backlog) = {}
  /\ \A x \in Fds : \A c \in Clients : table[x] = Sock(c) => c \in accepted
  /\ \A x, y \in Fds : \A c \in Clients : table[x] = Sock(c) /\ table[y] = Sock(c) => x = y

LEMMA ConnectConn ==
  ASSUME PeersTypeOK, ConnInv, NEW c \in Clients, Connect(c)
  PROVE  ConnInv'
<1>0. /\ backlog \in Seq(Clients)
      /\ phase \in [Clients -> {"away", "asked", "refused", "offered", "receiving"}]
  BY DEF PeersTypeOK
<1>1. /\ phase[c] = "away" /\ phase' = [phase EXCEPT ![c] = "asked"]
      /\ backlog' = Append(backlog, c) /\ UNCHANGED <<table, accepted, gone>>
  BY DEF Connect
<1>2. c \notin accepted /\ c \notin Elems(backlog)
  BY <1>1 DEF ConnInv
<1>3. Elems(backlog') = Elems(backlog) \cup {c}
  BY <1>0, <1>1, AppendElems
<1>4. \A i, j \in DOMAIN backlog' : backlog'[i] = backlog'[j] => i = j
  <2>1. /\ Len(backlog) \in Nat /\ DOMAIN backlog = 1 .. Len(backlog)
        /\ DOMAIN backlog' = 1 .. Len(backlog) + 1 /\ backlog'[Len(backlog) + 1] = c
        /\ \A i \in 1 .. Len(backlog) : backlog'[i] = backlog[i]
    BY <1>0, <1>1
  <2>2. \A i \in 1 .. Len(backlog) : backlog'[i] # c
    BY <1>2, <2>1 DEF Elems
  <2>3. \A i \in DOMAIN backlog' : i \in 1 .. Len(backlog) \/ i = Len(backlog) + 1
    BY <2>1
  <2> QED BY <2>1, <2>2, <2>3 DEF ConnInv
<1>5. \A d \in Clients : phase'[d] = "away" => d # c /\ phase[d] = "away"
  BY <1>0, <1>1
<1>6. \A d \in Clients : phase'[d] = "away" => d \notin accepted' \cup Elems(backlog') \cup gone'
  BY <1>1, <1>3, <1>5 DEF ConnInv
<1>7. accepted' \cap Elems(backlog') = {}
  BY <1>1, <1>2, <1>3 DEF ConnInv
<1>8. Fds' = Fds
  BY <1>1, TableSame
<1> QED BY <1>1, <1>4, <1>6, <1>7, <1>8 DEF ConnInv, Sock, Elems

LEMMA AcceptConn ==
  ASSUME PeersTypeOK, ConnInv, TakeConnection
  PROVE  ConnInv'
<1> DEFINE x == LowestFree
           c == Head(backlog)
<1>0. backlog \in Seq(Clients)
  BY DEF PeersTypeOK
<1>1. /\ backlog # <<>> /\ table' = [table EXCEPT ![x] = Sock(c)]
      /\ accepted' = accepted \cup {c} /\ backlog' = Tail(backlog)
      /\ UNCHANGED <<gone, phase>>
  BY DEF TakeConnection
<1>2. x \in Fds /\ table[x] = Free
  BY LowestFreeIsFree DEF TakeConnection
<1>3. c \in Clients /\ c \in Elems(backlog) /\ Elems(backlog') \subseteq Elems(backlog)
  BY <1>0, <1>1, TailElems
<1>4. c \notin Elems(backlog')
  <2>1. /\ Len(backlog) \in Nat /\ c = backlog[1] /\ 1 \in DOMAIN backlog
        /\ \A i \in DOMAIN backlog' : backlog'[i] = backlog[i + 1] /\ i + 1 \in DOMAIN backlog
                                        /\ i \in Nat /\ i >= 1
    BY <1>0, <1>1
  <2>2. \A i \in DOMAIN backlog' : backlog'[i] # c
    BY <2>1 DEF ConnInv
  <2> QED BY <2>2 DEF Elems
<1>5. \A i, j \in DOMAIN backlog' : backlog'[i] = backlog'[j] => i = j
  <2>1. \A i \in DOMAIN backlog' : backlog'[i] = backlog[i + 1] /\ i + 1 \in DOMAIN backlog
                                     /\ i \in Nat
    BY <1>0, <1>1
  <2> QED BY <2>1 DEF ConnInv
<1>6. Sock(c) \in Owners
  BY <1>3 DEF Owners
<1>7. /\ table'[x] = Sock(c) /\ \A y \in Fds : y # x => table'[y] = table[y]
      /\ Fds' = Fds
  BY <1>1, <1>2, <1>6, TableAfter
<1> HIDE DEF x, c
<1>8. \A y \in Fds : \A d \in Clients :
        table'[y] = Sock(d) => IF y = x THEN d = c ELSE table[y] = Sock(d) /\ d \in accepted
  BY <1>7, Kinds DEF ConnInv
<1>9. c \notin accepted
  BY <1>3 DEF ConnInv
<1>10. \A y \in Fds : \A d \in Clients : table'[y] = Sock(d) => d \in accepted'
  BY <1>1, <1>8
<1>11. \A y, z \in Fds : \A d \in Clients :
         table'[y] = Sock(d) /\ table'[z] = Sock(d) => y = z
  BY <1>8, <1>9 DEF ConnInv
<1>12. \A d \in Clients : phase'[d] = "away" => d \notin accepted' \cup Elems(backlog') \cup gone'
  BY <1>1, <1>3 DEF ConnInv
<1>13. accepted' \cap Elems(backlog') = {}
  BY <1>1, <1>3, <1>4 DEF ConnInv
<1> QED BY <1>5, <1>7, <1>10, <1>11, <1>12, <1>13 DEF ConnInv, Sock, Elems

LEMMA OtherConn ==
  ASSUME ConnInv, UNCHANGED <<accepted, backlog>>, Fds' = Fds,
         \A c \in Clients : phase'[c] = "away" => phase[c] = "away" /\ (c \in gone' => c \in gone),
         \A x \in Fds : \A c \in Clients : table'[x] = Sock(c) => table[x] = Sock(c)
  PROVE  ConnInv'
<1>1. \A c \in Clients : phase'[c] = "away" => c \notin accepted' \cup Elems(backlog') \cup gone'
  BY DEF ConnInv
<1>2. Elems(backlog') = Elems(backlog)
  OBVIOUS
<1> QED BY <1>1, <1>2 DEF ConnInv, Sock, Elems
-----------------------------------------------------------------------------
(* What follows from the promise of Transfers for whoever keeps it.        *)

VARIABLES released, closed, broken  \* of Transfers: each server says what they are

Pact == INSTANCE Transfers

PartInv(c) ==
  /\ from[c] \in 0 .. Bytes
  /\ \E n \in 0 .. Bytes - from[c] : got[c] = Part(c, from[c], n)
  /\ c \in closed => got[c] = Part(c, from[c], Bytes - from[c]) \/ c \in released

PromisedInv ==
  ~broken =>
    /\ DOMAIN from = Clients /\ DOMAIN got = Clients /\ closed \subseteq Clients
    /\ \A c \in Clients : PartInv(c)

(***************************************************************************)
(* What PromisedInv says of one client, with the length of what it has.    *)
(***************************************************************************)
LEMMA PartMeans ==
  ASSUME Bytes \in Nat, NEW c, PartInv(c)
  PROVE  /\ from[c] \in 0 .. Bytes
         /\ \E k \in 0 .. Bytes - from[c] : /\ got[c] = Part(c, from[c], k)
                                          /\ Len(got[c]) = k
                                          /\ Pact!Rest(c) = Bytes - from[c] - k
         /\ Pact!Rest(c) \in Nat
<1>1. from[c] \in 0 .. Bytes
  BY DEF PartInv
<1>2. PICK k \in 0 .. Bytes - from[c] : got[c] = Part(c, from[c], k)
  BY DEF PartInv
<1>3. from[c] \in Nat /\ k \in Nat /\ Bytes - from[c] - k \in Nat
  BY <1>1
<1>4. Len(Part(c, from[c], k)) = k
  BY <1>3, PartLength
<1>5. Len(got[c]) = k
  BY <1>2, <1>4
<1>6. Pact!Rest(c) = Bytes - from[c] - k
  BY <1>5 DEF Pact!Rest
<1>7. QED
  BY <1>1, <1>2, <1>3, <1>5, <1>6

LEMMA PromisedInit ==
  ASSUME Bytes \in Nat, Pact!Init
  PROVE  PromisedInv
<1>1. ASSUME NEW c \in Clients
      PROVE  <<>> = Part(c, from[c], 0) /\ from[c] \in 0 .. Bytes
  BY DEF Part, Pact!Init
<1>2. QED
  BY <1>1 DEF Pact!Init, PromisedInv, PartInv

LEMMA PromisedStep ==
  ASSUME Bytes \in Nat, PromisedInv, [Pact!Next]_(Pact!vars)
  PROVE  PromisedInv'
<1> SUFFICES ASSUME ~broken' PROVE PromisedInv'
  BY DEF PromisedInv
<1> USE DEF PromisedInv
<1>1. ~broken
  BY DEF Pact!Next, Pact!Ask, Pact!Release, Pact!Transfer, Pact!Close, Pact!Break,
         Pact!vars
<1>2. ASSUME NEW c \in Clients, Pact!Ask(c) PROVE PromisedInv'
  <2>1. PICK n \in 0 .. Bytes : from' = [from EXCEPT ![c] = n]
    BY <1>2 DEF Pact!Ask
  <2>2. <<>> = Part(c, n, 0)
    BY DEF Part
  <2>3. PartInv(c)'
    BY <1>1, <1>2, <2>1, <2>2 DEF Pact!Ask, PartInv
  <2>4. \A d \in Clients \ {c} : PartInv(d)'
    BY <1>1, <1>2, <2>1 DEF Pact!Ask, PartInv
  <2>5. QED BY <1>1, <1>2, <2>1, <2>3, <2>4 DEF Pact!Ask
<1>3. ASSUME NEW c \in Clients, Pact!Release(c) PROVE PromisedInv'
  <2>1. \A d \in Clients : PartInv(d)'
    BY <1>1, <1>3 DEF Pact!Release, PartInv
  <2>2. QED BY <1>1, <1>3, <2>1 DEF Pact!Release
<1>4. ASSUME NEW c \in Clients, NEW n \in 0 .. Pact!Rest(c), Pact!Receive(c, n), UNCHANGED from
      PROVE  /\ DOMAIN got' = Clients
             /\ \E k \in 0 .. Bytes - from[c] : got'[c] = Part(c, from[c], k)
             /\ n = Pact!Rest(c) => got'[c] = Part(c, from[c], Bytes - from[c])
             /\ \A d \in Clients \ {c} : got'[d] = got[d]
  <2>1. from[c] \in 0 .. Bytes
    BY <1>1, PartMeans
  <2>2. PICK k \in 0 .. Bytes - from[c] :
          got[c] = Part(c, from[c], k) /\ Len(got[c]) = k /\ Pact!Rest(c) = Bytes - from[c] - k
    BY <1>1, PartMeans
  <2>3. got'[c] = Part(c, from[c], k) \o [i \in 1 .. n |-> <<c, from[c] + k + i>>]
    BY <1>1, <1>4, <2>2 DEF Pact!Receive
  <2>4. k + n \in 0 .. Bytes - from[c] /\ from[c] \in Nat /\ k \in Nat /\ n \in Nat
    BY <2>1, <2>2
  <2>5. got'[c] = Part(c, from[c], k + n)
    BY <2>3, <2>4, PartGrows
  <2>6. n = Pact!Rest(c) => k + n = Bytes - from[c]
    BY <2>1, <2>2
  <2>7. QED BY <1>1, <1>4, <2>5, <2>4, <2>6 DEF Pact!Receive
<1>5. ASSUME NEW c \in Clients, Pact!Transfer(c) PROVE PromisedInv'
  <2>1. PICK n \in 1 .. Pact!Rest(c) : Pact!Receive(c, n)
    BY <1>5 DEF Pact!Transfer
  <2>2. c \notin closed /\ UNCHANGED <<from, released, closed, broken>>
    BY <1>5 DEF Pact!Transfer
  <2>3. Pact!Rest(c) \in Nat /\ n \in 0 .. Pact!Rest(c)
    BY <1>1, PartMeans
  <2>4. /\ DOMAIN got' = Clients
        /\ \E k \in 0 .. Bytes - from[c] : got'[c] = Part(c, from[c], k)
        /\ \A d \in Clients \ {c} : got'[d] = got[d]
    BY <1>4, <2>1, <2>2, <2>3
  <2>5. PartInv(c)'
    BY <1>1, <2>2, <2>4 DEF PartInv
  <2>6. \A d \in Clients \ {c} : PartInv(d)'
    BY <1>1, <2>2, <2>4 DEF PartInv
  <2>7. QED BY <1>1, <2>2, <2>5, <2>6, <2>4
<1>6. ASSUME NEW c \in Clients, Pact!Close(c) PROVE PromisedInv'
  <2>1. c \notin closed /\ closed' = closed \cup {c} /\ UNCHANGED <<from, released, broken>>
    BY <1>6 DEF Pact!Close
  <2>2. CASE Pact!Receive(c, Pact!Rest(c))
    <3>1. Pact!Rest(c) \in 0 .. Pact!Rest(c)
      BY <1>1, PartMeans
    <3>2. /\ DOMAIN got' = Clients
          /\ \E k \in 0 .. Bytes - from[c] : got'[c] = Part(c, from[c], k)
          /\ got'[c] = Part(c, from[c], Bytes - from[c])
          /\ \A d \in Clients \ {c} : got'[d] = got[d]
      BY <1>4, <2>1, <2>2, <3>1
    <3>3. PartInv(c)'
      BY <1>1, <2>1, <3>2 DEF PartInv
    <3>4. \A d \in Clients \ {c} : PartInv(d)'
      BY <1>1, <2>1, <3>2 DEF PartInv
    <3>5. QED BY <1>1, <2>1, <3>2, <3>3, <3>4
  <2>3. CASE c \in released /\ UNCHANGED got
    <3>1. \A d \in Clients : PartInv(d)'
      BY <1>1, <2>1, <2>3 DEF PartInv
    <3>2. QED BY <1>1, <2>1, <2>3, <3>1
  <2>4. QED BY <1>6, <2>2, <2>3 DEF Pact!Close
<1>7. CASE UNCHANGED Pact!vars
  <2>1. \A d \in Clients : PartInv(d)'
    BY <1>1, <1>7 DEF Pact!vars, PartInv
  <2>2. QED BY <1>1, <1>7, <2>1 DEF Pact!vars
<1>8. QED BY <1>2, <1>3, <1>5, <1>6, <1>7 DEF Pact!Next, Pact!Break

(***************************************************************************)
(* As long as the promise is not broken, a client has its own bytes only,  *)
(* and is not cut short: Server and ServerA, which implement Transfers,    *)
(* inherit both.                                                           *)
(***************************************************************************)
THEOREM Promised ==
  ASSUME Bytes \in Nat
  PROVE  Pact!Spec => [](Pact!OwnBytes /\ Pact!ClosedComplete)
<1>1. Pact!Init => PromisedInv
  BY PromisedInit
<1>2. PromisedInv /\ [Pact!Next]_(Pact!vars) => PromisedInv'
  BY PromisedStep
<1>3. PromisedInv => Pact!OwnBytes /\ Pact!ClosedComplete
  <2> SUFFICES ASSUME PromisedInv, ~broken, NEW c \in Clients
               PROVE  OwnPrefix(c) /\ (c \in closed \ released => Pact!Rest(c) = 0)
    BY DEF PromisedInv, Pact!OwnBytes, Pact!ClosedComplete, Pact!OwnPrefix, OwnPrefix
  <2>1. PartInv(c)
    BY DEF PromisedInv
  <2>2. PICK n \in 0 .. Bytes - from[c] : got[c] = Part(c, from[c], n) /\ Len(got[c]) = n
    BY <2>1, PartMeans
  <2>3. OwnPrefix(c)
    BY <2>2 DEF OwnPrefix, Part
  <2>4. ASSUME c \in closed \ released PROVE Pact!Rest(c) = 0
    <3>1. got[c] = Part(c, from[c], Bytes - from[c])
      BY <2>1, <2>4 DEF PartInv
    <3>2. from[c] \in Nat /\ Bytes - from[c] \in Nat
      BY <2>1, PartMeans
    <3>3. Len(Part(c, from[c], Bytes - from[c])) = Bytes - from[c]
      BY <3>2, PartLength
    <3>4. QED BY <3>1, <3>2, <3>3 DEF Pact!Rest
  <2>5. QED BY <2>3, <2>4
<1>4. QED
  BY <1>1, <1>2, <1>3, PTL DEF Pact!Spec
=============================================================================
