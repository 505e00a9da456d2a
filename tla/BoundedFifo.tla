---------------------------- MODULE BoundedFifo ----------------------------
(***************************************************************************)
(* What the bounded channel promises the code that uses it, with no mutex, *)
(* condition variable or thread in sight: a FIFO buffer of at most         *)
(* Capacity values.  A value can be put while both sides are open, can be  *)
(* got as long as the receiving side is open, even when the sending side   *)
(* is closed, and is thrown away only when the receiving side closes.      *)
(***************************************************************************)
EXTENDS Naturals, Sequences

CONSTANTS Values, Capacity

VARIABLES buffer, putOpen, getOpen, delivered

vars == <<buffer, putOpen, getOpen, delivered>>

Init == buffer = <<>> /\ putOpen = TRUE /\ getOpen = TRUE /\ delivered = <<>>

Put(v) ==
  /\ putOpen /\ getOpen
  /\ Len(buffer) < Capacity
  /\ buffer' = Append(buffer, v)
  /\ UNCHANGED <<putOpen, getOpen, delivered>>

Get ==
  /\ getOpen
  /\ buffer /= <<>>
  /\ buffer' = Tail(buffer)
  /\ delivered' = Append(delivered, Head(buffer))
  /\ UNCHANGED <<putOpen, getOpen>>

ClosePut == putOpen /\ putOpen' = FALSE /\ UNCHANGED <<buffer, getOpen, delivered>>

CloseGet ==
  /\ getOpen
  /\ getOpen' = FALSE
  /\ buffer' = <<>>
  /\ UNCHANGED <<putOpen, delivered>>

Next == (\E v \in Values : Put(v)) \/ Get \/ ClosePut \/ CloseGet

Spec == Init /\ [][Next]_vars

\* A value that can be got is eventually got, or the receiving side closes.
FairSpec == Spec /\ WF_vars(Get)

=============================================================================
