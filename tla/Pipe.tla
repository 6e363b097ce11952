------------------------------- MODULE Pipe --------------------------------
(***************************************************************************)
(* What a tunnel direction promises: the chunks written at one end come    *)
(* out at the other end once each, in order.  Short is the set of byte     *)
(* counts a chunk may have lost at its end on the way: {0} for a faithful  *)
(* pipe.                                                                   *)
(***************************************************************************)
EXTENDS Integers, Sequences

CONSTANTS Sizes, Short

VARIABLES written, delivered

Init == written = << >> /\ delivered = << >>

Write(len) == written' = Append(written, len) /\ UNCHANGED delivered

Deliver ==
  LET k == Len(delivered) + 1
  IN  /\ k <= Len(written)
      /\ \E s \in Short :
            delivered' = Append(delivered, [k |-> k, n |-> written[k] - s])
      /\ UNCHANGED written

Next == Deliver \/ \E len \in Sizes : Write(len)

Spec == Init /\ [][Next]_<<written, delivered>>
=============================================================================
