--------------------------- MODULE FramingProofs ----------------------------
(***************************************************************************)
(* Proofs about Framing: types, that whole frames are handled once, in     *)
(* order, and that a frame received whole is found behind the rest of an   *)
(* earlier one; for any clients and any buffer that holds two frames.      *)
(***************************************************************************)
EXTENDS Framing, FiniteSetTheorems, SequenceTheorems, WellFoundedInduction, TLAPS

-----------------------------------------------------------------------------
(* The invariant.                                                          *)

Records == [fn : {"Normal", "Ensure", "junk"}, body : Units]

TypeInv ==
  /\ sent \in [Clients -> 0 .. 2] /\ taken \in [Clients -> 0 .. 8]
  /\ \A c \in Clients : taken[c] <= 4 * sent[c]
  /\ buffer \in [1 .. Capacity -> Units]
  /\ handled \in [Clients -> Seq(Records)]
  /\ torn \subseteq Clients

(***************************************************************************)
(* A client whose frames were received whole has had each handled.  It     *)
(* sends the second one after the first was handled, so it never has two   *)
(* under way.                                                              *)
(***************************************************************************)
WholeInv(c) ==
  /\ taken[c] \in {0, 4, 8}
  /\ handled[c] = [k \in 1 .. taken[c] \div FrameLength |-> OwnRecord(c, k)]
  /\ taken[c] = 0 => sent[c] <= 1

FramingInv == TypeInv /\ \A c \in Clients \ torn : WholeInv(c)
-----------------------------------------------------------------------------
(* Numbers.                                                                *)

(***************************************************************************)
(* A set of natural numbers has a least element, because the intervals up  *)
(* to its elements have a least one.                                       *)
(***************************************************************************)
LEMMA LeastNumber ==
  ASSUME NEW S \in SUBSET Nat, S # {}
  PROVE  \E m \in S : \A k \in S : m <= k
<1> DEFINE Upto == {0 .. n : n \in S}
<1>1. Upto \subseteq FiniteSubsetsOf(Nat)
  <2>1. \A n \in Nat : IsFiniteSet(0 .. n)
    BY FS_Interval
  <2> QED BY <2>1 DEF FiniteSubsetsOf
<1>2. Upto # {}
  OBVIOUS
<1>3. IsWellFoundedOn(StrictSubsetOrdering(Nat), FiniteSubsetsOf(Nat))
  BY FS_StrictSubsetOrderingWellFounded
<1> HIDE DEF Upto
<1>4. \E I \in Upto : \A J \in Upto : <<J, I>> \notin StrictSubsetOrdering(Nat)
  BY <1>1, <1>2, <1>3, WFMin
<1>5. PICK m \in S : \A J \in Upto : <<J, 0 .. m>> \notin StrictSubsetOrdering(Nat)
  BY <1>4 DEF Upto
<1>6. ASSUME NEW k \in S, k < m PROVE FALSE
  <2>1. 0 .. k \in Upto
    BY DEF Upto
  <2>2. 0 .. k \subseteq 0 .. m /\ 0 .. k # 0 .. m
    <3>1. m \in 0 .. m /\ m \notin 0 .. k
      BY <1>6
    <3> QED BY <3>1, <1>6
  <2>3. <<0 .. k, 0 .. m>> \in StrictSubsetOrdering(Nat)
    BY <2>2 DEF StrictSubsetOrdering
  <2> QED BY <2>1, <2>3, <1>5
<1> QED BY <1>6

-----------------------------------------------------------------------------
(* Streams and the buffer.                                                 *)

\* No other unit is taken for the first half of a magic number.
LEMMA Different ==
  ASSUME NEW c, NEW fn \in {"Normal", "Ensure"}
  PROVE  /\ Magic2 # Magic1 /\ Header(fn) # Magic1 /\ Body(c, fn) # Magic1
         /\ Header(fn) \in Headers
BY DEF Magic1, Magic2, Header, Headers, Body

LEMMA StreamIs ==
  ASSUME NEW c \in Clients
  PROVE  /\ Stream(c) \in Seq(Units) /\ Len(Stream(c)) = 8
         /\ Stream(c)[1] = Magic1 /\ Stream(c)[2] = Magic2
         /\ Stream(c)[3] = Header("Normal") /\ Stream(c)[4] = Body(c, "Normal")
         /\ Stream(c)[5] = Magic1 /\ Stream(c)[6] = Magic2
         /\ Stream(c)[7] = Header("Ensure") /\ Stream(c)[8] = Body(c, "Ensure")
         /\ \A i \in 1 .. 8 : Stream(c)[i] \in Units
<1>1. PICK s : s = <<Magic1, Magic2, Header("Normal"), Body(c, "Normal")>>
  OBVIOUS
<1>2. PICK t : t = <<Magic1, Magic2, Header("Ensure"), Body(c, "Ensure")>>
  OBVIOUS
<1>3. PICK r : r = s \o t
  OBVIOUS
<1>4. Stream(c) = r
  BY <1>1, <1>2, <1>3 DEF Stream, Frame, Functions
<1>5. /\ Magic1 \in Units /\ Magic2 \in Units
      /\ \A fn \in {"Normal", "Ensure"} : Header(fn) \in Units /\ Body(c, fn) \in Units
  BY DEF Units, Headers, Body
<1>6. s \in Seq(Units) /\ Len(s) = 4 /\ t \in Seq(Units) /\ Len(t) = 4
  BY <1>1, <1>2, <1>5
<1>7. /\ s[1] = Magic1 /\ s[2] = Magic2 /\ s[3] = Header("Normal") /\ s[4] = Body(c, "Normal")
      /\ t[1] = Magic1 /\ t[2] = Magic2 /\ t[3] = Header("Ensure") /\ t[4] = Body(c, "Ensure")
  BY <1>1, <1>2
<1>8. /\ r \in Seq(Units) /\ Len(r) = Len(s) + Len(t)
      /\ \A i \in 1 .. Len(s) + Len(t) : r[i] = IF i <= Len(s) THEN s[i] ELSE t[i - Len(s)]
  BY <1>3, <1>6, ConcatProperties
<1>9. \A i \in 1 .. 8 : r[i] = IF i <= 4 THEN s[i] ELSE t[i - 4]
  BY ONLY <1>6, <1>8
<1>10. /\ r[1] = s[1] /\ r[2] = s[2] /\ r[3] = s[3] /\ r[4] = s[4]
       /\ r[5] = t[1] /\ r[6] = t[2] /\ r[7] = t[3] /\ r[8] = t[4]
  BY ONLY <1>9
<1>11. r \in Seq(Units) /\ Len(r) = 8
  BY ONLY <1>6, <1>8
<1>12. \A i \in 1 .. 8 : r[i] \in Units
  BY <1>11, ElementOfSeq
<1> QED BY <1>4, <1>7, <1>10, <1>11, <1>12

\* What one recv takes.
LEMMA PartIs ==
  ASSUME NEW c \in Clients, NEW t \in 0 .. 8, NEW n \in t .. 8
  PROVE  /\ SubSeq(Stream(c), t + 1, n) \in Seq(Units)
         /\ Len(SubSeq(Stream(c), t + 1, n)) = n - t
         /\ \A i \in 1 .. n - t : SubSeq(Stream(c), t + 1, n)[i] = Stream(c)[t + i]
<1>1. Stream(c) \in Seq(Units) /\ Len(Stream(c)) = 8
  BY StreamIs
<1>2. PICK m \in Int : m = t + 1
  OBVIOUS
<1>3. n \in Int /\ \A i \in m .. n : Stream(c)[i] \in Units
  <2>1. \A i \in 1 .. 8 : Stream(c)[i] \in Units
    BY StreamIs
  <2>2. n \in Int /\ \A i \in m .. n : i \in 1 .. 8
    BY <1>2
  <2> QED BY <2>1, <2>2
<1>4. PICK part : part = SubSeq(Stream(c), m, n)
  OBVIOUS
<1>5. /\ part \in Seq(Units) /\ Len(part) = IF m <= n THEN n - m + 1 ELSE 0
      /\ \A i \in 1 .. n - m + 1 : part[i] = Stream(c)[m + i - 1]
  BY <1>3, <1>4, SubSeqProperties
<1>6. Len(part) = n - t /\ n - m + 1 = n - t
  BY <1>2, <1>5
<1>7. ASSUME NEW i \in 1 .. n - t PROVE part[i] = Stream(c)[t + i]
  <2>1. m + i - 1 = t + i
    BY <1>2
  <2> QED BY <1>5, <1>6, <2>1
<1> QED BY <1>2, <1>4, <1>5, <1>6, <1>7

\* It lies in front of the buffer, which keeps its length.
LEMMA FilledIs ==
  ASSUME NEW part \in Seq(Units), Len(part) <= Capacity, NEW old \in [1 .. Capacity -> Units]
  PROVE  /\ Filled(part, old) \in [1 .. Capacity -> Units]
         /\ \A i \in 1 .. Len(part) : Filled(part, old)[i] = part[i]
<1>1. Capacity \in Nat /\ Len(part) \in Nat
  BY CapacityAssumption
<1>2. PICK rest : rest = SubSeq(old, Len(part) + 1, Capacity)
  OBVIOUS
<1>3. old \in Seq(Units) /\ Len(old) = Capacity
  BY <1>1
<1>4. rest \in Seq(Units) /\ Len(rest) = Capacity - Len(part)
  BY <1>1, <1>2, <1>3
<1>5. part \o rest \in Seq(Units) /\ Len(part \o rest) = Capacity
  BY <1>1, <1>4
<1>6. \A i \in 1 .. Len(part) : (part \o rest)[i] = part[i]
  BY <1>1, <1>4
<1>7. part \o rest \in [1 .. Capacity -> Units]
  <2>1. PICK r : r = part \o rest
    OBVIOUS
  <2>2. r \in Seq(Units) /\ Len(r) = Capacity
    BY <1>5, <2>1
  <2>3. r \in [1 .. Capacity -> Units]
    BY ONLY <2>2
  <2> QED BY <2>1, <2>3
<1> QED BY <1>2, <1>6, <1>7 DEF Filled

LEMMA JunkTyped ==
  ASSUME TypeInv, NEW old \in Stale
  PROVE  old \in [1 .. Capacity -> Units]
BY DEF TypeInv, Stale, WrittenOver, Units

(***************************************************************************)
(* The first magic number is one, if there is any.                         *)
(***************************************************************************)
LEMMA FirstIsMagic ==
  ASSUME NEW b, MagicsIn(b) # {}
  PROVE  FirstMagic(b) \in MagicsIn(b)
<1>1. MagicsIn(b) \in SUBSET Nat
  BY CapacityAssumption DEF MagicsIn
<1>2. PICK m \in MagicsIn(b) : \A k \in MagicsIn(b) : m <= k
  BY <1>1, LeastNumber
<1> QED BY <1>2 DEF FirstMagic

LEMMA RecordsTyped ==
  ASSUME NEW b \in [1 .. Capacity -> Units], NEW r \in RecordsIn(b)
  PROVE  r \in Seq(Records)
<1>1. Junk \in Units
  BY DEF Units
<1>2. CASE MagicsIn(b) = {}
  <2>1. Record("junk", Junk) \in Records
    BY <1>1 DEF Record, Records
  <2>2. r = <<>> \/ r = <<Record("junk", Junk)>>
    BY <1>2 DEF RecordsIn
  <2>3. PICK e \in Records : e = Record("junk", Junk)
    BY <2>1
  <2>4. <<>> \in Seq(Records) /\ <<e>> \in Seq(Records)
    OBVIOUS
  <2> QED BY ONLY <2>2, <2>3, <2>4, Zenon
<1>3. CASE MagicsIn(b) # {}
  <2>1. PICK i : i = FirstMagic(b)
    OBVIOUS
  <2>2. i \in 1 .. Capacity - 1 /\ Capacity \in Nat
    BY <1>3, <2>1, FirstIsMagic, CapacityAssumption DEF MagicsIn
  <2>3. UnitAt(b, i + 3) \in Units
    BY <1>1, <2>2 DEF UnitAt
  <2>4. ASSUME UnitAt(b, i + 2) \in Headers
        PROVE  Record(UnitAt(b, i + 2)[2], UnitAt(b, i + 3)) \in Records
    <3>1. PICK fn \in {"Normal", "Ensure"} : UnitAt(b, i + 2) = <<"FD", fn>>
      BY <2>4 DEF Headers, Header
    <3>2. UnitAt(b, i + 2)[2] = fn
      BY <3>1
    <3> QED BY <2>3, <3>2 DEF Record, Records
  <2>5. \/ r = <<>>
        \/ /\ UnitAt(b, i + 2) \in Headers
           /\ r = <<Record(UnitAt(b, i + 2)[2], UnitAt(b, i + 3))>>
    BY <1>3, <2>1 DEF RecordsIn
  <2>6. \A e \in Records : <<e>> \in Seq(Records)
    OBVIOUS
  <2>7. <<>> \in Seq(Records)
    OBVIOUS
  <2> QED BY ONLY <2>4, <2>5, <2>6, <2>7, Zenon
<1> QED BY <1>2, <1>3

(***************************************************************************)
(* A frame in the buffer is taken, if no unit before it looks like the     *)
(* start of one.                                                           *)
(***************************************************************************)
LEMMA FrameTaken ==
  ASSUME NEW b, NEW p \in Nat \ {0}, p + 3 <= Capacity, NEW fn \in {"Normal", "Ensure"},
         b[p] = Magic1, b[p + 1] = Magic2, b[p + 2] = Header(fn),
         \A i \in 1 .. p - 1 : b[i] # Magic1
  PROVE  RecordsIn(b) = {<<Record(fn, b[p + 3])>>}
<1>0. Capacity \in Nat
  BY CapacityAssumption
<1>1. p \in MagicsIn(b)
  BY <1>0 DEF MagicsIn
<1>2. \A j \in MagicsIn(b) : p <= j
  <2>1. ASSUME NEW j \in MagicsIn(b), ~(p <= j) PROVE FALSE
    <3>1. j \in 1 .. p - 1 /\ b[j] = Magic1
      BY <1>0, <2>1 DEF MagicsIn
    <3> QED BY <3>1
  <2> QED BY <2>1
<1>3. FirstMagic(b) = p
  <2>1. FirstMagic(b) \in MagicsIn(b) /\ \A j \in MagicsIn(b) : FirstMagic(b) <= j
    BY <1>1, <1>2 DEF FirstMagic
  <2>2. FirstMagic(b) <= p /\ p <= FirstMagic(b) /\ FirstMagic(b) \in Nat
    BY <1>0, <1>1, <1>2, <2>1 DEF MagicsIn
  <2> QED BY <2>2
<1>4. UnitAt(b, p + 2) = Header(fn) /\ UnitAt(b, p + 3) = b[p + 3]
  BY <1>0 DEF UnitAt
<1>5. Header(fn) \in Headers /\ Header(fn)[2] = fn
  BY DEF Headers, Header
<1> QED BY <1>1, <1>3, <1>4, <1>5 DEF RecordsIn

(***************************************************************************)
(* A frame that one recv takes whole is taken for the next record, also    *)
(* behind the rest of an earlier frame.                                    *)
(***************************************************************************)
LEMMA NextIsTaken ==
  ASSUME TypeInv, NEW c \in Clients, NEW n \in taken[c] .. 4 * sent[c], n # taken[c],
         FirstWhole(c) * FrameLength <= n, NEW old \in Stale
  PROVE  RecordsIn(Filled(SubSeq(Stream(c), taken[c] + 1, n), old))
           = {<<OwnRecord(c, FirstWhole(c))>>}
<1>1. PICK t \in 0 .. 8 : t = taken[c]
  BY DEF TypeInv
<1>2. n \in t .. 8
  BY <1>1 DEF TypeInv
<1>3. PICK part : part = SubSeq(Stream(c), t + 1, n)
  OBVIOUS
<1>4. PICK b : b = Filled(part, old)
  OBVIOUS
<1>5. /\ part \in Seq(Units) /\ Len(part) = n - t
      /\ \A i \in 1 .. n - t : part[i] = Stream(c)[t + i]
  BY <1>2, <1>3, PartIs
<1>6. Capacity \in Nat /\ 8 <= Capacity
  BY CapacityAssumption DEF FrameLength
<1>7. \A i \in 1 .. n - t : b[i] = Stream(c)[t + i]
  <2>1. Len(part) <= Capacity
    BY <1>2, <1>5, <1>6
  <2>2. \A i \in 1 .. Len(part) : b[i] = part[i]
    BY <1>4, <1>5, <2>1, FilledIs, JunkTyped
  <2> QED BY <1>5, <2>2
<1>8. CASE t = 0
  <2>1. FirstWhole(c) = 1 /\ 4 <= n
    BY <1>1, <1>8 DEF FirstWhole, FrameLength
  <2>2. b[1] = Magic1 /\ b[2] = Magic2 /\ b[3] = Header("Normal") /\ b[4] = Body(c, "Normal")
    BY <1>2, <1>7, <1>8, <2>1, StreamIs
  <2>3. RecordsIn(b) = {<<Record("Normal", Body(c, "Normal"))>>}
    <3>1. b[1 + 1] = Magic2 /\ b[1 + 2] = Header("Normal") /\ b[1 + 3] = Body(c, "Normal")
          /\ \A i \in 1 .. 1 - 1 : b[i] # Magic1
      BY <2>2
    <3>2. 1 \in Nat \ {0} /\ 1 + 3 <= Capacity
      BY <1>6
    <3> QED BY <2>2, <3>1, <3>2, FrameTaken
  <2> QED BY <1>1, <1>3, <1>4, <2>1, <2>3 DEF OwnRecord, Functions
<1>9. CASE t \in 1 .. 4
  <2>1. FirstWhole(c) = 2 /\ n = 8
    <3>1. (t + 4 - 1) \div 4 = 1
      BY <1>9
    <3> QED BY <1>1, <1>2, <3>1 DEF FirstWhole, FrameLength
  <2>2. PICK p \in 1 .. 4 : p = 5 - t
    BY <1>9
  <2>3. /\ b[p] = Magic1 /\ b[p + 1] = Magic2
        /\ b[p + 2] = Header("Ensure") /\ b[p + 3] = Body(c, "Ensure")
    <3>1. /\ p \in 1 .. 8 - t /\ p + 1 \in 1 .. 8 - t /\ p + 2 \in 1 .. 8 - t /\ p + 3 \in 1 .. 8 - t
          /\ t + p = 5 /\ t + (p + 1) = 6 /\ t + (p + 2) = 7 /\ t + (p + 3) = 8
      BY <1>9, <2>2
    <3> QED BY <1>7, <2>1, <3>1, StreamIs
  <2>4. ASSUME NEW i \in 1 .. p - 1 PROVE b[i] # Magic1
    <3>1. i \in 1 .. 8 - t /\ t + i \in 2 .. 4
      BY <1>9, <2>2, <2>4
    <3>2. t + i = 2 \/ t + i = 3 \/ t + i = 4
      BY <3>1
    <3>3. b[i] \in {Magic2, Header("Normal"), Body(c, "Normal")}
      BY <1>7, <2>1, <3>1, <3>2, StreamIs
    <3> QED BY <3>3, Different
  <2>5. RecordsIn(b) = {<<Record("Ensure", Body(c, "Ensure"))>>}
    <3>1. p \in Nat \ {0} /\ p + 3 <= Capacity
      BY <1>6
    <3> QED BY <2>3, <2>4, <3>1, FrameTaken
  <2> QED BY <1>1, <1>3, <1>4, <2>1, <2>5 DEF OwnRecord, Functions
<1>10. CASE t \in 5 .. 8
  <2>1. FirstWhole(c) = 3
    <3>1. (t + 4 - 1) \div 4 = 2
      BY <1>10
    <3> QED BY <1>1, <3>1 DEF FirstWhole, FrameLength
  <2>2. 12 <= n
    BY <2>1 DEF FrameLength
  <2> QED BY <1>2, <2>2
<1> QED BY <1>8, <1>9, <1>10
-----------------------------------------------------------------------------
(* The invariant, and what it says of every state and step.                *)

LEMMA InvInit ==
  ASSUME Init
  PROVE  FramingInv
<1>1. TypeInv
  <2>1. buffer \in [1 .. Capacity -> Units]
    BY DEF Init, Units
  <2>2. sent \in [Clients -> 0 .. 2] /\ taken \in [Clients -> 0 .. 8]
    BY DEF Init
  <2>3. handled \in [Clients -> Seq(Records)]
    BY DEF Init
  <2>4. torn \subseteq Clients /\ \A c \in Clients : taken[c] <= 4 * sent[c]
    BY DEF Init
  <2> QED BY <2>1, <2>2, <2>3, <2>4 DEF TypeInv
<1>2. ASSUME NEW c \in Clients PROVE WholeInv(c)
  <2>1. taken[c] = 0 /\ sent[c] = 0 /\ handled[c] = <<>>
    BY DEF Init
  <2>2. 0 \div 4 = 0
    OBVIOUS
  <2> QED BY <2>1, <2>2 DEF WholeInv, FrameLength
<1> QED BY <1>1, <1>2 DEF FramingInv

\* What a step of recv is, with the records it makes.
LEMMA RecvMeans ==
  ASSUME TypeInv, NEW c \in Clients, Recv(c)
  PROVE  \E n \in taken[c] .. 4 * sent[c], old \in Stale :
           /\ n # taken[c] /\ n \in 0 .. 8
           /\ buffer' = Filled(SubSeq(Stream(c), taken[c] + 1, n), old)
           /\ buffer' \in [1 .. Capacity -> Units]
           /\ \E records \in RecordsIn(buffer') :
                handled' = [handled EXCEPT ![c] = @ \o records]
           /\ taken' = [taken EXCEPT ![c] = n]
           /\ torn' = IF Whole(c, n) THEN torn ELSE torn \cup {c}
           /\ sent' = sent
<1>1. PICK n \in taken[c] .. sent[c] * FrameLength :
        /\ ~Nothing(c, n)
        /\ \E old \in Stale :
             /\ buffer' = Filled(SubSeq(Stream(c), taken[c] + 1, n), old)
             /\ \E records \in RecordsIn(buffer') :
                  handled' = [handled EXCEPT ![c] = @ \o records]
        /\ taken' = [taken EXCEPT ![c] = n]
        /\ torn' = IF Whole(c, n) THEN torn ELSE torn \cup {c}
        /\ UNCHANGED sent
  BY DEF Recv
<1>2. sent[c] \in 0 .. 2 /\ taken[c] \in 0 .. 8
  BY DEF TypeInv
<1>3. n \in taken[c] .. 4 * sent[c] /\ n # taken[c] /\ n \in taken[c] .. 8 /\ n \in 0 .. 8
  BY <1>1, <1>2 DEF FrameLength, Nothing
<1>4. PICK old \in Stale :
        /\ buffer' = Filled(SubSeq(Stream(c), taken[c] + 1, n), old)
        /\ \E records \in RecordsIn(buffer') :
             handled' = [handled EXCEPT ![c] = @ \o records]
  BY <1>1
<1>5. buffer' \in [1 .. Capacity -> Units]
  <2>1. PICK part : part = SubSeq(Stream(c), taken[c] + 1, n)
    OBVIOUS
  <2>2. part \in Seq(Units) /\ Len(part) = n - taken[c]
    BY <1>2, <1>3, <2>1, PartIs
  <2>3. Len(part) <= Capacity
    BY <1>2, <1>3, <2>2, CapacityAssumption DEF FrameLength
  <2> QED BY <1>4, <2>1, <2>2, <2>3, FilledIs, JunkTyped
<1> QED BY <1>1, <1>3, <1>4, <1>5

LEMMA TypeStep ==
  ASSUME TypeInv, [Next]_vars
  PROVE  TypeInv'
<1>1. ASSUME NEW c \in Clients, SendFrame(c) PROVE TypeInv'
  <2>1. /\ sent[c] < 2 /\ sent' = [sent EXCEPT ![c] = @ + 1]
        /\ UNCHANGED <<taken, buffer, handled, torn>>
    BY <1>1 DEF SendFrame, Functions
  <2>2. /\ sent \in [Clients -> 0 .. 2] /\ taken \in [Clients -> 0 .. 8]
        /\ \A d \in Clients : taken[d] <= 4 * sent[d]
    BY DEF TypeInv
  <2>3. PICK m \in 0 .. 2 : m = sent[c] + 1
    BY <2>1, <2>2
  <2>4. sent' = [sent EXCEPT ![c] = m]
    BY <2>1, <2>3
  <2>5. sent' \in [Clients -> 0 .. 2]
    BY <2>2, <2>4
  <2>6. ASSUME NEW d \in Clients PROVE taken'[d] <= 4 * sent'[d]
    <3>1. sent'[d] = IF d = c THEN sent[d] + 1 ELSE sent[d]
      BY <2>2, <2>3, <2>4
    <3>2. taken'[d] = taken[d] /\ taken[d] <= 4 * sent[d]
          /\ taken[d] \in Nat /\ sent[d] \in Nat
      BY <2>1, <2>2
    <3> QED BY <3>1, <3>2
  <2> QED BY <2>1, <2>5, <2>6 DEF TypeInv
<1>2. ASSUME NEW c \in Clients, Recv(c) PROVE TypeInv'
  <2>1. PICK n \in taken[c] .. 4 * sent[c] :
          /\ n \in 0 .. 8 /\ buffer' \in [1 .. Capacity -> Units]
          /\ \E records \in RecordsIn(buffer') :
               handled' = [handled EXCEPT ![c] = @ \o records]
          /\ taken' = [taken EXCEPT ![c] = n]
          /\ torn' = IF Whole(c, n) THEN torn ELSE torn \cup {c}
          /\ sent' = sent
    BY <1>2, RecvMeans
  <2>2. handled' \in [Clients -> Seq(Records)]
    <3>1. PICK records \in Seq(Records) : handled' = [handled EXCEPT ![c] = @ \o records]
      BY <2>1, RecordsTyped
    <3>2. handled[c] \in Seq(Records)
      BY DEF TypeInv
    <3>3. PICK h \in Seq(Records) : h = handled[c] \o records
      BY <3>2, ConcatProperties
    <3> QED BY <3>1, <3>3 DEF TypeInv
  <2>3. taken' \in [Clients -> 0 .. 8] /\ \A d \in Clients : taken'[d] <= 4 * sent'[d]
    BY <2>1 DEF TypeInv
  <2> QED BY <2>1, <2>2, <2>3 DEF TypeInv
<1>3. CASE UNCHANGED vars
  BY <1>3 DEF vars, TypeInv
<1> QED BY <1>1, <1>2, <1>3 DEF Next

(***************************************************************************)
(* A step makes one record of the next whole frame, if it takes that.      *)
(***************************************************************************)
LEMMA NextHandled ==
  ASSUME TypeInv, NEW c \in Clients, Recv(c), FirstWhole(c) * FrameLength <= taken'[c]
  PROVE  handled'[c] = Append(handled[c], OwnRecord(c, FirstWhole(c)))
<1>1. PICK n \in taken[c] .. 4 * sent[c], old \in Stale :
        /\ n # taken[c]
        /\ buffer' = Filled(SubSeq(Stream(c), taken[c] + 1, n), old)
        /\ \E records \in RecordsIn(buffer') :
             handled' = [handled EXCEPT ![c] = @ \o records]
        /\ taken' = [taken EXCEPT ![c] = n]
  BY RecvMeans
<1>2. taken'[c] = n
  BY <1>1 DEF TypeInv
<1>3. PICK e : e = OwnRecord(c, FirstWhole(c))
  OBVIOUS
<1>4. RecordsIn(buffer') = {<<e>>}
  BY <1>1, <1>2, <1>3, NextIsTaken
<1>5. handled' = [handled EXCEPT ![c] = @ \o <<e>>] /\ handled \in [Clients -> Seq(Records)]
  BY <1>1, <1>4 DEF TypeInv
<1>6. e \in Records
  <2>1. <<e>> \in Seq(Records)
    <3>1. buffer' \in [1 .. Capacity -> Units]
      BY RecvMeans
    <3> QED BY <1>4, <3>1, RecordsTyped
  <2> QED BY <2>1
<1>7. PICK h \in Seq(Records) : h = handled[c]
  BY <1>5
<1>8. h \o <<e>> = Append(h, e)
  BY <1>6, <1>7
<1> QED BY <1>3, <1>5, <1>7, <1>8

\* The records of some frames, and the next one.
LEMMA OneMore ==
  ASSUME NEW c, NEW k \in Nat
  PROVE  Append([i \in 1 .. k |-> OwnRecord(c, i)], OwnRecord(c, k + 1))
           = [i \in 1 .. k + 1 |-> OwnRecord(c, i)]
<1>1. PICK S : S = {OwnRecord(c, i) : i \in Nat}
  OBVIOUS
<1>2. PICK s : s = [i \in 1 .. k |-> OwnRecord(c, i)]
  OBVIOUS
<1>3. PICK t : t = [i \in 1 .. k + 1 |-> OwnRecord(c, i)]
  OBVIOUS
<1>4. PICK e \in S : e = OwnRecord(c, k + 1)
  BY <1>1
<1>5. s \in [1 .. k -> S] /\ t \in [1 .. k + 1 -> S]
  BY <1>1, <1>2, <1>3
<1>6. s \in Seq(S) /\ Len(s) = k /\ t \in Seq(S) /\ Len(t) = k + 1
  BY <1>5
<1>7. /\ \A i \in 1 .. k : s[i] = t[i]
      /\ t[k + 1] = e
  BY <1>2, <1>3, <1>4
<1>8. Append(s, e) = t
  BY <1>6, <1>7
<1> QED BY <1>2, <1>3, <1>4, <1>8

LEMMA WholeStep ==
  ASSUME FramingInv, [Next]_vars, NEW c \in Clients \ torn'
  PROVE  WholeInv(c)'
<1>1. TypeInv /\ c \in Clients
  BY DEF FramingInv
<1>2. ASSUME NEW d \in Clients, SendFrame(d) PROVE WholeInv(c)'
  <2>1. /\ sent' = [sent EXCEPT ![d] = @ + 1] /\ UNCHANGED <<taken, handled, torn>>
        /\ sent[d] > 0 => \E i \in DOMAIN handled[d] : handled[d][i].fn = "Normal"
    BY <1>2 DEF SendFrame
  <2>2. WholeInv(c)
    BY <2>1 DEF FramingInv
  <2>3. sent[c] \in 0 .. 2 /\ sent'[c] = IF c = d THEN sent[c] + 1 ELSE sent[c]
    BY <1>1, <2>1 DEF TypeInv
  <2>4. ASSUME taken[c] = 0, c = d PROVE sent[c] = 0
    <3>1. 0 \div 4 = 0
      OBVIOUS
    <3>2. DOMAIN handled[c] = 1 .. 0
      BY <2>2, <2>4, <3>1 DEF WholeInv, FrameLength
    <3> QED BY <2>1, <2>3, <2>4, <3>2
  <2>5. taken'[c] = 0 => sent'[c] <= 1
    BY <2>1, <2>2, <2>3, <2>4 DEF WholeInv
  <2> QED BY <2>1, <2>2, <2>5 DEF WholeInv
<1>3. ASSUME NEW d \in Clients, Recv(d) PROVE WholeInv(c)'
  <2>1. PICK n \in taken[d] .. 4 * sent[d], old \in Stale :
          /\ n # taken[d] /\ n \in 0 .. 8
          /\ \E records : handled' = [handled EXCEPT ![d] = @ \o records]
          /\ taken' = [taken EXCEPT ![d] = n]
          /\ torn' = IF Whole(d, n) THEN torn ELSE torn \cup {d}
          /\ sent' = sent
    BY <1>1, <1>3, RecvMeans
  <2>2. WholeInv(c)
    BY <2>1 DEF FramingInv
  <2>3. CASE c # d
    <3>1. taken'[c] = taken[c] /\ handled'[c] = handled[c] /\ sent'[c] = sent[c]
      BY <1>1, <2>1, <2>3 DEF TypeInv
    <3> QED BY <2>2, <3>1 DEF WholeInv
  <2>4. CASE c = d
    <3>1. n % 4 = 0 /\ taken[c] \in {0, 4, 8} /\ taken'[c] = n
      BY <1>1, <2>1, <2>2, <2>4 DEF Whole, FrameLength, WholeInv, TypeInv
    <3>2. sent[c] \in 0 .. 2 /\ (taken[c] = 0 => sent[c] <= 1)
      BY <1>1, <2>2 DEF WholeInv, TypeInv
    <3>3. \/ taken[c] = 0 /\ n = 4
          \/ taken[c] = 4 /\ n = 8
      BY <2>1, <2>4, <3>1, <3>2
    <3>4. PICK k \in {0, 1} : taken[c] = 4 * k /\ n = 4 * (k + 1)
      BY <3>3
    <3>5. /\ taken[c] \div FrameLength = k /\ n \div FrameLength = k + 1
          /\ FirstWhole(c) = k + 1 /\ FirstWhole(c) * FrameLength <= n
      <4>1. (0 + 4 - 1) \div 4 = 0 /\ (4 + 4 - 1) \div 4 = 1 /\ 0 \div 4 = 0 /\ 4 \div 4 = 1
            /\ 8 \div 4 = 2
        OBVIOUS
      <4> QED BY <3>4, <4>1 DEF FirstWhole, FrameLength
    <3>6. handled'[c] = Append(handled[c], OwnRecord(c, k + 1))
      BY <1>1, <1>3, <2>4, <3>1, <3>5, NextHandled
    <3>7. handled[c] = [i \in 1 .. k |-> OwnRecord(c, i)]
      BY <2>2, <3>5 DEF WholeInv
    <3>8. handled'[c] = [i \in 1 .. k + 1 |-> OwnRecord(c, i)]
      <4>1. k \in Nat
        BY <3>4
      <4> QED BY <3>6, <3>7, <4>1, OneMore
    <3>9. n \in {0, 4, 8} /\ n # 0
      BY <3>3
    <3> QED BY <3>1, <3>5, <3>8, <3>9 DEF WholeInv, OwnRecord, Record, Functions, Body, FrameLength
  <2> QED BY <2>3, <2>4
<1>4. CASE UNCHANGED vars
  BY <1>4 DEF vars, FramingInv, WholeInv
<1> QED BY <1>2, <1>3, <1>4 DEF Next

(***************************************************************************)
(* What FramingInv says holds after every frame sent and every recv,       *)
(* wherever TCP cuts.                                                      *)
(***************************************************************************)
THEOREM Invariance == Spec => []FramingInv
<1>1. Init => FramingInv
  BY InvInit
<1>2. FramingInv /\ [Next]_vars => FramingInv'
  BY TypeStep, WholeStep DEF FramingInv
<1> QED BY <1>1, <1>2, PTL DEF Spec

(***************************************************************************)
(* What recv takes, the buffer and the records always have their types,    *)
(* wherever in the buffer a magic number is found.                         *)
(***************************************************************************)
THEOREM Typed == Spec => []TypeOK
<1>1. FramingInv => TypeOK
  <2> SUFFICES ASSUME TypeInv PROVE TypeOK
    BY DEF FramingInv
  <2>1. ASSUME NEW c \in Clients
        PROVE  /\ taken[c] \in 0 .. sent[c] * FrameLength /\ sent[c] \in 0 .. Len(Functions)
               /\ handled[c] \in Seq([fn : {"Normal", "Ensure", "junk"}, body : Units])
    <3>1. sent[c] \in 0 .. 2 /\ taken[c] \in 0 .. 8 /\ taken[c] <= 4 * sent[c]
          /\ handled[c] \in Seq(Records)
      BY DEF TypeInv
    <3>2. FrameLength = 4 /\ Len(Functions) = 2
      BY DEF FrameLength, Functions
    <3>3. taken[c] \in 0 .. sent[c] * FrameLength
      BY <3>1, <3>2
    <3> QED BY <3>1, <3>2, <3>3 DEF Records
  <2> QED BY <2>1 DEF TypeInv, TypeOK
<1> QED BY <1>1, Invariance, PTL

(***************************************************************************)
(* The frames of a client that are received whole are handled each once    *)
(* and in order, whatever the frames of the others leave in the buffer.    *)
(***************************************************************************)
THEOREM FramesAreOwn == Spec => []OwnFrames
<1>1. FramingInv => OwnFrames
  BY DEF FramingInv, WholeInv, OwnFrames
<1> QED BY <1>1, Invariance, PTL

(***************************************************************************)
(* A frame that one recv takes whole is handled, also behind the rest of   *)
(* a torn one.                                                             *)
(***************************************************************************)
THEOREM FindsTheNext == Spec => NextFrameFound
<1> DEFINE Found ==
      \A c \in Clients :
        taken'[c] # taken[c] /\ FirstWhole(c) * FrameLength <= taken'[c] =>
          handled'[c] = Append(handled[c], OwnRecord(c, FirstWhole(c)))
<1>1. FramingInv /\ [Next]_vars => [Found]_vars
  <2> SUFFICES ASSUME TypeInv, Next, NEW c \in Clients, taken'[c] # taken[c],
                      FirstWhole(c) * FrameLength <= taken'[c]
               PROVE  handled'[c] = Append(handled[c], OwnRecord(c, FirstWhole(c)))
    BY DEF FramingInv
  <2>1. PICK d \in Clients : SendFrame(d) \/ Recv(d)
    BY DEF Next
  <2>2. Recv(d)
    BY <2>1 DEF SendFrame
  <2>3. c = d
    <3>1. \E n : taken' = [taken EXCEPT ![d] = n]
      BY <2>2, RecvMeans
    <3> QED BY <3>1 DEF TypeInv
  <2> QED BY <2>2, <2>3, NextHandled
<1> QED BY <1>1, Invariance, PTL DEF Spec, NextFrameFound
=============================================================================
