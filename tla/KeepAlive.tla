----------------------------- MODULE KeepAlive -----------------------------
(***************************************************************************)
(* The clocks of udp_connection's loop (udp_conn.c:161-310) in two peers   *)
(* that are connected: the keep-alive deadline next_ka_us, the count of    *)
(* missed keep-alives and the network between them.  A tick is a part of   *)
(* the five seconds of ka_interval_us.  A process acts without delay: it   *)
(* handles what is readable and what is due before time goes on.           *)
(*                                                                         *)
(* events says which backend both peers drive.  One without process_events *)
(* (chownat) sends a datagram as keep-alive and counts the misses; one     *)
(* with it (ossl_quic) sends nothing, counts nothing and wakes the loop    *)
(* for timers of its own.                                                  *)
(***************************************************************************)
EXTENDS Integers

CONSTANTS Interval,  \* ka_interval_us, in ticks
          KaMiss,    \* ka_miss_threshold
          Delay      \* bound: the longest a datagram is under way, in ticks

\* Ticks without any I/O after which a peer is dropped.
Patience == (KaMiss + 1) * Interval

ASSUME ClockAssumption ==
  /\ Interval \in Nat \ {0}
  /\ KaMiss \in Nat
  /\ Delay \in Nat
  /\ Delay < Patience

Peers == {"c", "s"}
Other(p) == IF p = "c" THEN "s" ELSE "c"

\* "02" stands for what disconnect sends, "data" for any other datagram.
Msgs == [t : {"data", "02"}, age : 0 .. Delay]
Fresh(t) == [t |-> t, age |-> 0]

VARIABLES
  events,     \* is process_events # NULL ?
  ended,      \* why the loop has ended ("no": it has not)
  left,       \* ticks to next_ka_us
  threshold,  \* keep-alives in a row without any I/O
  net,        \* datagrams on their way to each peer
  lost,       \* history: has the network lost a datagram?
  silence,    \* history: ticks since the loop saw I/O, as far as Patience
  kas,        \* history: calls of udp_send_ka since then, as far as KaMiss + 1
  sentAgo,    \* history: ticks since a peer sent a datagram, as far as Patience
  lax         \* history: has it ever paused for Patience - Delay ticks?

vars == <<events, ended, left, threshold, net, lost, silence, kas, sentAgo, lax>>

Init ==
  /\ events \in BOOLEAN
  /\ ended = [p \in Peers |-> "no"]
  /\ left = [p \in Peers |-> Interval]
  /\ threshold = [p \in Peers |-> 0]
  /\ net = [p \in Peers |-> {}]
  /\ lost = FALSE
  /\ silence = [p \in Peers |-> 0]
  /\ kas = [p \in Peers |-> 0]
  /\ sentAgo = [p \in Peers |-> 0]
  /\ lax = [p \in Peers |-> FALSE]

-----------------------------------------------------------------------------
Running(p) == ended[p] = "no"

\* p consumes the datagrams in and sends the kinds in out.
Exchange(p, in, out) ==
  /\ net' = [net EXCEPT ![p] = @ \ in, ![Other(p)] = @ \cup {Fresh(t) : t \in out}]
  /\ sentAgo' = IF out = {} THEN sentAgo ELSE [sentAgo EXCEPT ![p] = 0]
  /\ UNCHANGED <<events, lost, lax>>

\* Faulty: the count of missed keep-alives goes on.
TouchUncounted(p) ==
  /\ left' = [left EXCEPT ![p] = Interval]
  /\ silence' = [silence EXCEPT ![p] = 0]
  /\ kas' = [kas EXCEPT ![p] = 0]
  /\ UNCHANGED threshold

\* A readable socket, or payload drained from the backend: the count and the
\* deadline start again.
Touch(p) ==
  /\ threshold' = [threshold EXCEPT ![p] = 0]
  /\ left' = [left EXCEPT ![p] = Interval]
  /\ silence' = [silence EXCEPT ![p] = 0]
  /\ kas' = [kas EXCEPT ![p] = 0]

\* The loop calls udp_send_ka.
SendKa(p) == kas' = [kas EXCEPT ![p] = IF @ <= KaMiss THEN @ + 1 ELSE @]

Stop(p, why) == ended' = [ended EXCEPT ![p] = why]

\* tcp_recv reads input and udp_send sends it.
Input(p) ==
  /\ Running(p)
  /\ Touch(p)
  /\ Exchange(p, {}, {"data"})
  /\ UNCHANGED ended

\* tcp_recv reports the end of the input; the loop disconnects.
InputEnds(p) ==
  /\ Running(p)
  /\ Stop(p, "local")
  /\ Exchange(p, {}, {"02"})
  /\ UNCHANGED <<left, threshold, silence, kas>>

\* udp_recv; it may send an answer itself.
Receive(p, m) ==
  /\ Running(p)
  /\ m \in net[p] /\ m.t = "data"
  /\ Touch(p)
  /\ \E out \in {{}, {"data"}} : Exchange(p, {m}, out)
  /\ UNCHANGED ended

ReceiveEnd(p, m) ==
  /\ Running(p)
  /\ m \in net[p] /\ m.t = "02"
  /\ Stop(p, "peer")
  /\ Exchange(p, {m}, {})
  /\ UNCHANGED <<left, threshold, silence, kas>>

\* The deadline has passed and no socket is readable.
Due(p) == Running(p) /\ left[p] = 0

\* Faulty: one more miss than configured.
CountLate(p) ==
  /\ threshold[p] <= KaMiss
  /\ threshold' = [threshold EXCEPT ![p] = @ + 1]

\* threshold # ka_miss_threshold: count.
Count(p) ==
  /\ threshold[p] # KaMiss
  /\ threshold' = [threshold EXCEPT ![p] = @ + 1]

KeepAliveSent(p) ==
  /\ Due(p) /\ ~events
  /\ Count(p)
  /\ SendKa(p)
  /\ Exchange(p, {}, {"data"})
  /\ left' = [left EXCEPT ![p] = Interval]
  /\ UNCHANGED <<ended, silence>>

\* threshold = ka_miss_threshold: a last keep-alive, then disconnect.
KeepAliveMissed(p) ==
  /\ Due(p) /\ ~events
  /\ threshold[p] = KaMiss
  /\ SendKa(p)
  /\ Exchange(p, {}, {"data", "02"})
  /\ Stop(p, "silence")
  /\ UNCHANGED <<left, threshold, silence>>

\* A backend with process_events sends nothing and is not counted.
KeepAliveIgnored(p) ==
  /\ Due(p) /\ events
  /\ SendKa(p)
  /\ left' = [left EXCEPT ![p] = Interval]
  /\ UNCHANGED <<events, ended, threshold, net, lost, silence, sentAgo, lax>>

\* Faulty: any timeout of select is taken for the keep-alive's.
WakeSends(p) ==
  /\ Running(p) /\ left[p] > 0
  /\ SendKa(p)
  /\ Exchange(p, {}, IF events THEN {} ELSE {"data"})
  /\ UNCHANGED <<ended, left, threshold, silence>>

\* select returns early, for a timer of the backend or a signal: nothing.
Wake(p) ==
  /\ Running(p) /\ left[p] > 0
  /\ UNCHANGED vars

-----------------------------------------------------------------------------
Lose(p) ==
  /\ \E m \in net[p] : net' = [net EXCEPT ![p] = @ \ {m}]
  /\ lost' = TRUE
  /\ UNCHANGED <<events, ended, left, threshold, silence, kas, sentAgo, lax>>

Crash(p) ==
  /\ Running(p)
  /\ Stop(p, "crash")
  /\ UNCHANGED <<events, left, threshold, net, lost, silence, kas, sentAgo, lax>>

Later(n) == IF n < Patience THEN n + 1 ELSE n

\* Time passes, once nothing is due.
Tick ==
  /\ \A p \in Peers : Running(p) =>
       left[p] > 0 /\ \A m \in net[p] : m.age < Delay
  /\ left' = [p \in Peers |-> IF Running(p) THEN left[p] - 1 ELSE left[p]]
  /\ net' = [p \in Peers |->
       IF Running(p) THEN {[m EXCEPT !.age = @ + 1] : m \in net[p]} ELSE {}]
  /\ silence' = [p \in Peers |-> IF Running(p) THEN Later(silence[p]) ELSE silence[p]]
  /\ sentAgo' = [p \in Peers |-> Later(sentAgo[p])]
  /\ lax' = [p \in Peers |-> lax[p] \/ sentAgo'[p] >= Patience - Delay]
  /\ UNCHANGED <<events, ended, threshold, lost, kas>>

Step(p) ==
  \/ Input(p) \/ InputEnds(p)
  \/ \E m \in net[p] : Receive(p, m) \/ ReceiveEnd(p, m)
  \/ KeepAliveSent(p) \/ KeepAliveMissed(p) \/ KeepAliveIgnored(p)
  \/ Wake(p) \/ Lose(p) \/ Crash(p)

Next == Tick \/ \E p \in Peers : Step(p)

Spec == Init /\ [][Next]_vars

-----------------------------------------------------------------------------
TypeOK ==
  /\ events \in BOOLEAN
  /\ ended \in [Peers -> {"no", "local", "peer", "silence", "crash"}]
  /\ left \in [Peers -> 0 .. Interval]
  /\ threshold \in [Peers -> 0 .. KaMiss]
  /\ net \in [Peers -> SUBSET Msgs]
  /\ lost \in BOOLEAN
  /\ silence \in [Peers -> 0 .. Patience]
  /\ kas \in [Peers -> 0 .. KaMiss + 1]
  /\ sentAgo \in [Peers -> 0 .. Patience]
  /\ lax \in [Peers -> BOOLEAN]

\* Why: the calls of udp_send_ka and the deadline together measure the silence.
ClockReadsSilence ==
  \A p \in Peers : Running(p) =>
    silence[p] = IF kas[p] <= KaMiss THEN kas[p] * Interval + (Interval - left[p])
                                    ELSE Patience

\* Why: a peer that has never paused for long is not pausing for long now.
PausesAreKnown == \A p \in Peers : ~lax[p] => sentAgo[p] < Patience - Delay

\* Why: without losses, the silence of p is no longer than the last pause of
\* its peer and the way of the datagram that ended it.
SilenceExplained ==
  \A p \in Peers :
    Running(p) /\ ~lost /\ ~lax[Other(p)] =>
      \/ net[p] = {} /\ silence[p] <= sentAgo[Other(p)]
      \/ \E m \in net[p] : silence[p] <= m.age + (Patience - Delay - 1)

(***************************************************************************)
(* A loop never waits longer than ka_miss_threshold + 1 intervals without  *)
(* I/O: a peer that has crashed, or whose disconnect was lost, is dropped  *)
(* then (udp_conn.c:283-307).  Local input counts as I/O (udp_conn.c:250), *)
(* so this says nothing of a process whose own writer never pauses.        *)
(***************************************************************************)
SilentPeerDropped ==
  ~events => \A p \in Peers :
    Running(p) => silence[p] < Patience \/ (silence[p] = Patience /\ Due(p))

(***************************************************************************)
(* A peer is dropped for silence only when the network has lost something  *)
(* or the peer itself once sent nothing for that long, but for the way of  *)
(* a datagram (udp_conn.c:250, 282, 302-306): neither the order of a       *)
(* datagram and a deadline nor the other's count can make it happen.       *)
(***************************************************************************)
DropsOnlyPausedPeer ==
  \A p \in Peers : ended[p] = "silence" => lost \/ lax[Other(p)]

(***************************************************************************)
(* udp_send_ka is called once for every whole interval without I/O, by     *)
(* either backend's loop: an event timer, a signal or a deadline that I/O  *)
(* has moved makes it neither early nor late, never twice and never not at *)
(* all.  What chownat counts as missed is the number of these calls; the   *)
(* loop of a backend with process_events counts nothing (udp_conn.c:213-   *)
(* 226, 241, 280-307).                                                     *)
(***************************************************************************)
KeepAlivesCountIntervals ==
  \A p \in Peers :
    /\ silence[p] \in kas[p] * Interval .. (kas[p] + 1) * Interval
    /\ Running(p) => threshold[p] = IF events THEN 0 ELSE kas[p]

\* The inductive invariant.
IInv ==
  /\ TypeOK
  /\ ClockReadsSilence
  /\ KeepAlivesCountIntervals
  /\ PausesAreKnown
  /\ SilenceExplained
  /\ DropsOnlyPausedPeer

=============================================================================
