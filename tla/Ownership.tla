----------------------------- MODULE Ownership -----------------------------
(***************************************************************************)
(* The contract of udp_transport.h on sockets, abstractly.  Every socket   *)
(* has exactly one holder, the application or a transport, from the moment *)
(* it is opened to the moment its holder closes it.  The application may   *)
(* hand a socket over to a transport; a transport never hands one back.    *)
(***************************************************************************)
EXTENDS Naturals

CONSTANTS Transports, MaxSockets

VARIABLE holder

Sockets == 1 .. MaxSockets

Init == holder = [n \in Sockets |-> "unopened"]

Open(n, h) ==
  /\ holder[n] = "unopened"
  /\ holder' = [holder EXCEPT ![n] = h]

HandOver(n, t) ==
  /\ holder[n] = "app"
  /\ holder' = [holder EXCEPT ![n] = t]

Close(n) ==
  /\ holder[n] \in Transports \cup {"app"}
  /\ holder' = [holder EXCEPT ![n] = "closed"]

\* Opened and closed in one call: init_udp failing on a socket of its own.
OpenAndClose(n) ==
  /\ holder[n] = "unopened"
  /\ holder' = [holder EXCEPT ![n] = "closed"]

Next ==
  \E n \in Sockets :
    \/ \E h \in Transports \cup {"app"} : Open(n, h)
    \/ \E t \in Transports : HandOver(n, t)
    \/ Close(n) \/ OpenAndClose(n)

Spec == Init /\ [][Next]_holder
=============================================================================
