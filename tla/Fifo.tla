-------------------------------- MODULE Fifo --------------------------------
(***************************************************************************)
(* What the pipe between the event loop and the parser promises: items     *)
(* come out in the order they went in, each once, and no item stays inside *)
(* for ever.                                                               *)
(***************************************************************************)
EXTENDS Sequences, Integers

CONSTANT MaxItems   \* bound: how many items are put in

VARIABLES
  inside,   \* the items put in and not yet taken, in order
  taken     \* every item taken, in order

fifoVars == <<inside, taken>>

Init == inside = <<>> /\ taken = <<>>

\* Items are numbered in the order in which they are put in.
Put ==
  LET item == Len(taken) + Len(inside) + 1
  IN  /\ item <= MaxItems
      /\ inside' = Append(inside, item)
      /\ UNCHANGED taken

Take ==
  /\ inside # <<>>
  /\ taken'  = Append(taken, Head(inside))
  /\ inside' = Tail(inside)

Next == Put \/ Take

Spec == Init /\ [][Next]_fifoVars /\ WF_fifoVars(Take)
=============================================================================
