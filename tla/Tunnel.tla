------------------------------- MODULE Tunnel -------------------------------
(***************************************************************************)
(* What udp_connection promises the applications at its two ends, whatever *)
(* backend it drives: a peer opens at most once and is over for good, it   *)
(* writes and is handed data only in between, and it is handed no more     *)
(* chunks than its peer has written.                                       *)
(***************************************************************************)
EXTENDS Integers

VARIABLES phase, written, delivered

vars == <<phase, written, delivered>>

Peers == {"c", "s"}
Other(p) == IF p = "c" THEN "s" ELSE "c"

Init ==
  /\ phase = [p \in Peers |-> "before"]
  /\ written = [p \in Peers |-> 0]
  /\ delivered = [p \in Peers |-> 0]

Open(p) ==
  /\ phase[p] = "before"
  /\ phase' = [phase EXCEPT ![p] = "open"]
  /\ UNCHANGED <<written, delivered>>

Write(p) ==
  /\ phase[p] = "open"
  /\ written' = [written EXCEPT ![p] = @ + 1]
  /\ UNCHANGED <<phase, delivered>>

Deliver(p) ==
  /\ phase[p] = "open"
  /\ delivered[p] < written[Other(p)]
  /\ delivered' = [delivered EXCEPT ![p] = @ + 1]
  /\ UNCHANGED <<phase, written>>

Close(p) ==
  /\ phase[p] # "over"
  /\ phase' = [phase EXCEPT ![p] = "over"]
  /\ UNCHANGED <<written, delivered>>

Next == \E p \in Peers : Open(p) \/ Write(p) \/ Deliver(p) \/ Close(p)

Spec == Init /\ [][Next]_vars
=============================================================================
