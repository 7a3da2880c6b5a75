------------------------------ MODULE Delivery ------------------------------
(***************************************************************************)
(* What a download promises its user, whatever happens on the way: bytes   *)
(* that have been received are kept until the file is complete, and only a *)
(* complete file is handed over.                                           *)
(***************************************************************************)
EXTENDS Integers

CONSTANT Size    \* length of the file

VARIABLES
  have,      \* offsets whose byte has been received and is right
  delivered  \* the user has the file

Bytes == 0 .. Size - 1

Init ==
  /\ have = {}
  /\ delivered = FALSE

\* More of the file has arrived.
Receive ==
  /\ \E B \in SUBSET Bytes : have' = have \cup B
  /\ UNCHANGED delivered

\* The complete file is handed over; a further download starts from nothing.
Deliver ==
  /\ have = Bytes
  /\ have' = {}
  /\ delivered' = TRUE

Next == Receive \/ Deliver

Spec == Init /\ [][Next]_<<have, delivered>>
=============================================================================
