--------------------------- MODULE QuicHolePunch ---------------------------
(***************************************************************************)
(* ossl_quic_hole_punching of ossl_quic.c, run by a client and a server,   *)
(* either of them behind a NAT, over a path that delivers within a bounded *)
(* time or not at all.                                                     *)
(*                                                                         *)
(* Time passes in ticks of one msleep(50).  What a process does between    *)
(* two waits takes no time; each step here is one such stretch.  A probe   *)
(* is "01"; "ka" is the single byte that only opens the server's NAT.      *)
(*                                                                         *)
(* No signal handlers are installed by the programs, so EINTR, which the   *)
(* code retries, does not occur.                                           *)
(***************************************************************************)
EXTENDS Integers, Sequences, SequencesExt, FiniteSets

CONSTANTS Window,     \* rounds of the transient phase, 10 in the code
          Retry,      \* SO_RCVTIMEO in ticks: 20 are one second
          Delay,      \* ticks a datagram may travel
          MaxQueue,   \* datagrams a socket's receive buffer holds
          MaxFaults   \* bound: losses, repetitions and failing calls

ASSUME TimingAssumption ==
  Window \in Nat \ {0} /\ Retry \in Nat \ {0} /\ Delay \in Nat
ASSUME BoundsAssumption ==
  MaxQueue \in Nat /\ MaxFaults \in Nat

Peers == {"client", "server"}
Kinds == {"01", "ka"}
Other(p) == IF p = "client" THEN "server" ELSE "client"

VARIABLES
  pc,       \* "bound", "discover", "transient", or how the function returned
  queue,    \* the socket's receive buffer
  flight,   \* the datagrams on their way to a peer, with their age
  timer,    \* ticks until recv or msleep returns
  left,     \* rounds of the transient phase left
  punched,  \* hole_punched
  mapped,   \* the peers an arriving datagram reaches: no NAT, or an open one
  faults

vars == <<pc, queue, flight, timer, left, punched, mapped, faults>>

Init ==
  /\ pc = [p \in Peers |-> "bound"]
  /\ queue = [p \in Peers |-> <<>>]
  /\ flight = [p \in Peers |-> <<>>]
  /\ timer = [p \in Peers |-> 0]
  /\ left = [p \in Peers |-> 0]
  /\ punched = [p \in Peers |-> FALSE]
  /\ mapped \in SUBSET Peers
  /\ faults = 0

-----------------------------------------------------------------------------
\* Sending opens the sender's NAT for the peer.
Send(p, kind) ==
  /\ flight' = [flight EXCEPT ![Other(p)] = Append(@, [kind |-> kind, age |-> 0])]
  /\ mapped' = mapped \cup {p}

Wait(p, ticks) == timer' = [timer EXCEPT ![p] = ticks]

\* The head of the discovery loop: the client probes, the server listens.
LookOut(p) ==
  /\ Wait(p, Retry)
  /\ IF p = "client" THEN Send(p, "01") ELSE UNCHANGED <<flight, mapped>>

\* udp_connection gets to hole_punching; init has bound the socket long since.
Start(p) ==
  /\ pc[p] = "bound"
  /\ pc' = [pc EXCEPT ![p] = "discover"]
  /\ LookOut(p)
  /\ UNCHANGED <<queue, left, punched, faults>>

\* A probe ends discovery; the first round of the transient phase begins.
Discovers(p) ==
  /\ pc[p] = "discover"
  /\ queue[p] # <<>> /\ Head(queue[p]) = "01"
  /\ queue' = [queue EXCEPT ![p] = Tail(@)]
  /\ pc' = [pc EXCEPT ![p] = "transient"]
  /\ left' = [left EXCEPT ![p] = Window]
  /\ Send(p, "01")
  /\ Wait(p, 1)
  /\ UNCHANGED <<punched, faults>>

\* Anything else starts the loop again at once.
Overlooks(p) ==
  /\ pc[p] = "discover"
  /\ queue[p] # <<>> /\ Head(queue[p]) # "01"
  /\ queue' = [queue EXCEPT ![p] = Tail(@)]
  /\ LookOut(p)
  /\ UNCHANGED <<pc, left, punched, faults>>

\* Faulty: the server probes, as it did when discovery was symmetric.
TimesOutProbing(p) ==
  /\ pc[p] = "discover" /\ queue[p] = <<>> /\ timer[p] = 0
  /\ Send(p, "01")
  /\ Wait(p, Retry)
  /\ UNCHANGED <<pc, queue, left, punched, faults>>

\* recv times out: the server's keep-alive, the client's next probe.
TimesOut(p) ==
  /\ pc[p] = "discover" /\ queue[p] = <<>> /\ timer[p] = 0
  /\ Send(p, IF p = "client" THEN "01" ELSE "ka")
  /\ Wait(p, Retry)
  /\ UNCHANGED <<pc, queue, left, punched, faults>>

\* The receive without waiting that ends a round; none once hole_punched is set.
Poll(p) ==
  IF punched[p] \/ queue[p] = <<>>
  THEN UNCHANGED <<queue, punched>>
  ELSE /\ punched' = [punched EXCEPT ![p] = Head(queue[p]) = "01"]
       /\ queue' = [queue EXCEPT ![p] = Tail(@)]

\* Faulty: a peer that has heard a probe sends no more of its own.
NextRoundQuiet(p) ==
  /\ pc[p] = "transient" /\ timer[p] = 0 /\ left[p] > 1
  /\ Poll(p)
  /\ left' = [left EXCEPT ![p] = @ - 1]
  /\ IF punched'[p] THEN UNCHANGED <<flight, mapped>> ELSE Send(p, "01")
  /\ Wait(p, 1)
  /\ UNCHANGED <<pc, faults>>

NextRound(p) ==
  /\ pc[p] = "transient" /\ timer[p] = 0 /\ left[p] > 1
  /\ Poll(p)
  /\ left' = [left EXCEPT ![p] = @ - 1]
  /\ Send(p, "01")
  /\ Wait(p, 1)
  /\ UNCHANGED <<pc, faults>>

\* Faulty: the phase ends with the first probe heard, not with its last round.
ReturnsEarly(p) ==
  /\ pc[p] = "transient" /\ timer[p] = 0
  /\ Poll(p)
  /\ left[p] = 1 \/ punched'[p]
  /\ pc' = [pc EXCEPT ![p] = IF punched'[p] THEN "open" ELSE "failed"]
  /\ UNCHANGED <<flight, timer, left, mapped, faults>>

\* The last round decides.
Returns(p) ==
  /\ pc[p] = "transient" /\ timer[p] = 0 /\ left[p] = 1
  /\ Poll(p)
  /\ pc' = [pc EXCEPT ![p] = IF punched'[p] THEN "open" ELSE "failed"]
  /\ UNCHANGED <<flight, timer, left, mapped, faults>>

\* sendto or recv fails.
CallFails(p) ==
  /\ faults < MaxFaults
  /\ pc[p] \in {"discover", "transient"}
  /\ faults' = faults + 1
  /\ pc' = [pc EXCEPT ![p] = "error"]
  /\ UNCHANGED <<queue, flight, timer, left, punched, mapped>>

-----------------------------------------------------------------------------
Listens(p) == pc[p] \in {"bound", "discover", "transient"}

\* A datagram arrives.  It is dropped by a NAT that is not open and by a full
\* buffer; what arrives after the end is QUIC's to discard.
Arrives(p, i) ==
  /\ flight' = [flight EXCEPT ![p] = RemoveAt(@, i)]
  /\ queue' = IF p \in mapped /\ Listens(p) /\ Len(queue[p]) < MaxQueue
              THEN [queue EXCEPT ![p] = Append(@, flight[p][i].kind)]
              ELSE queue
  /\ UNCHANGED <<pc, timer, left, punched, mapped, faults>>

Loses(p, i) ==
  /\ faults < MaxFaults
  /\ faults' = faults + 1
  /\ flight' = [flight EXCEPT ![p] = RemoveAt(@, i)]
  /\ UNCHANGED <<pc, queue, timer, left, punched, mapped>>

Repeats(p, i) ==
  /\ faults < MaxFaults
  /\ faults' = faults + 1
  /\ flight' = [flight EXCEPT ![p] = Append(@, flight[p][i])]
  /\ UNCHANGED <<pc, queue, timer, left, punched, mapped>>

\* A process that need not wait does not, and no datagram is late.
Idle(p) ==
  /\ pc[p] = "discover" => queue[p] = <<>> /\ timer[p] > 0
  /\ pc[p] = "transient" => timer[p] > 0
  /\ \A i \in DOMAIN flight[p] : flight[p][i].age < Delay

Tick ==
  /\ \A p \in Peers : Idle(p)
  /\ timer' = [p \in Peers |-> IF timer[p] > 0 THEN timer[p] - 1 ELSE 0]
  /\ flight' = [p \in Peers |->
                  [i \in DOMAIN flight[p] |-> [flight[p][i] EXCEPT !.age = @ + 1]]]
  /\ UNCHANGED <<pc, queue, left, punched, mapped, faults>>

Runs(p) ==
  Discovers(p) \/ Overlooks(p) \/ TimesOut(p) \/ NextRound(p) \/ Returns(p)

Next ==
  \/ \E p \in Peers : Start(p) \/ Runs(p) \/ CallFails(p)
  \/ \E p \in Peers : \E i \in DOMAIN flight[p] :
       Arrives(p, i) \/ Loses(p, i) \/ Repeats(p, i)
  \/ Tick

Spec == Init /\ [][Next]_vars

\* Both programs get to hole_punching, time passes, and what is due happens.
FairSpec ==
  /\ Spec
  /\ WF_vars(Tick)
  /\ \A p \in Peers :
       /\ WF_vars(Start(p)) /\ WF_vars(Runs(p))
       /\ WF_vars(\E i \in DOMAIN flight[p] : Arrives(p, i))

-----------------------------------------------------------------------------
TypeOK ==
  /\ pc \in [Peers -> {"bound", "discover", "transient", "open", "failed", "error"}]
  /\ queue \in [Peers -> Seq(Kinds)]
  /\ \A p \in Peers : Len(queue[p]) <= MaxQueue
  /\ flight \in [Peers -> Seq([kind : Kinds, age : 0 .. Delay])]
  /\ timer \in [Peers -> 0 .. Retry]
  /\ left \in [Peers -> 0 .. Window]
  /\ punched \in [Peers -> BOOLEAN]
  /\ mapped \subseteq Peers
  /\ faults \in 0 .. MaxFaults

\* left is 0 until discovery is over, and never again.
Discovered(p) == left[p] # 0

\* A probe on its way to p, or in its socket.
ProbeFor(p) ==
  \/ \E i \in DOMAIN flight[p] : flight[p][i].kind = "01"
  \/ \E i \in DOMAIN queue[p] : queue[p][i] = "01"

(***************************************************************************)
(* "Only the client initiates discovery" (ossl_quic.c:440): when the       *)
(* client has discovered the server, the server has discovered the client, *)
(* so the client's transient phase never runs while the server still waits *)
(* to be triggered, whatever is lost, late or repeated.                    *)
(***************************************************************************)
ServerDiscoversFirst == Discovered("client") => Discovered("server")

\* Why: until then the server sends no probe.
ServerWaitsForTrigger == ProbeFor("client") => Discovered("server")

InPhase == \A p \in Peers : pc[p] = "transient" => Discovered(p)

\* The inductive invariant.
IInv == TypeOK /\ InPhase /\ ServerWaitsForTrigger /\ ServerDiscoversFirst

(***************************************************************************)
(* On a path as fast as the timing requires and with no more faults than   *)
(* it forgives, hole punching succeeds on both sides, whatever NATs there  *)
(* are, whoever starts first and by how much (ossl_quic.c:440-507), unless *)
(* a call fails.                                                           *)
(***************************************************************************)
BothOpen == <>[](\/ \A p \in Peers : pc[p] = "open"
                 \/ \E p \in Peers : pc[p] = "error")

-----------------------------------------------------------------------------
(***************************************************************************)
(* When hole punching is in time.  A tenth of a second each way and one    *)
(* fault are within what the code's half second of rounds forgives, with   *)
(* any buffer but a tiny one.                                              *)
(***************************************************************************)
InTime ==
  /\ Delay < Retry
  /\ 2 * Delay + MaxFaults + 3 <= Window
  /\ Delay + 2 * MaxFaults + 3 <= Window
  /\ MaxFaults + 2 <= MaxQueue

CallsSucceed == \A p \in Peers : pc[p] # "error"

(***************************************************************************)
(* In time, no peer gives up: however the probes of the two phases are     *)
(* lost, late, repeated or queued behind keep-alives, each peer polls one  *)
(* before its last round is over (ossl_quic.c:486-519).                    *)
(***************************************************************************)
NobodyFails == CallsSucceed => \A p \in Peers : pc[p] # "failed"

\* Since p's transient phase began: ticks, and probes sent.
Elapsed(p) == Window - left[p] + 1 - timer[p]
Sent(p) == Window - left[p] + 1

\* How many ticks after the server's phase the client's began.
Lag == Elapsed("server") - Elapsed("client")

Probe(age) == [kind |-> "01", age |-> age]

\* The probes numbered first to last, one a tick, that path no longer holds
\* when the first of a phase is elapsed ticks old.
Absent(path, elapsed, first, last) ==
  {n \in first .. last :
     \A i \in DOMAIN path : path[i] # Probe(elapsed - n + 1)}

\* The probes of p's phase, from the one numbered first on, not on the path.
Gone(p, first) == Absent(flight[Other(p)], Elapsed(p), first, Sent(p))

KeepAlives(path) == {i \in DOMAIN path : path[i].kind = "ka"}

Probes(socket) == {i \in DOMAIN socket : socket[i] = "01"}

\* The keep-alives in a socket that hold up a probe: those behind the first
\* one, or all.
InTheWay(socket, all) ==
  {i \in DOMAIN socket :
     socket[i] = "ka" /\ (all \/ \E h \in 1 .. i - 1 : socket[h] = "01")}

\* The client takes what has come out of its socket at once, or one a tick.
Settled ==
  \/ pc["client"] \notin {"bound", "discover"}
  \/ Discovered("server") /\ Elapsed("server") >= 1

\* Why: where a peer is says what it has done.
Course ==
  /\ pc["client"] = "bound" =>
       ~Discovered("server") /\ flight["server"] = <<>> /\ queue["server"] = <<>>
  /\ pc["client"] # "bound" => "client" \in mapped
  /\ \A p \in Peers :
       /\ pc[p] \in {"bound", "discover"} => ~Discovered(p)
       /\ pc[p] \in {"transient", "open", "failed"} => Discovered(p)
       /\ pc[p] = "transient" => p \in mapped /\ timer[p] <= 1

\* Why: the client sends probes only, the server a keep-alive now and then.
Traffic ==
  /\ Probes(queue["server"]) = DOMAIN queue["server"]
  /\ KeepAlives(flight["server"]) = {}
  /\ pc["server"] = "bound" => KeepAlives(flight["client"]) = {}
  /\ pc["server"] = "discover" =>
       \A i \in KeepAlives(flight["client"]) :
         flight["client"][i].age + timer["server"] >= Retry

KeepAlivesAreFew ==
  Cardinality(KeepAlives(flight["client"]))
    + Cardinality(InTheWay(queue["client"], Settled)) <= 1 + faults

\* Why: an answer reaches a client that discovers before long.
ClientIsAnswered ==
  Discovered("server") /\ pc["client"] = "discover" =>
    /\ pc["server"] = "transient"
    /\ Elapsed("server") <= Delay + faults + 1
    /\ Probes(queue["client"]) # {} \/ Cardinality(Gone("server", 2)) <= faults

\* Why: a client in its phase has heard, will hear what it has, or what the
\* server has sent since.
ClientHears ==
  pc["client"] = "transient" =>
    \/ punched["client"]
    \/ \E i \in Probes(queue["client"]) : i <= left["client"]
    \/ /\ Probes(queue["client"]) = {}
       /\ pc["server"] = "transient"
       /\ Cardinality(Gone("server", Lag + 2)) <= faults
       /\ Cardinality(Gone("server", Lag + 2)) + Lag <= Delay + faults + 1

\* Why: so has a server, or the client will start its phase in time.
ServerHears ==
  pc["server"] = "transient" =>
    \/ punched["server"]
    \/ queue["server"] # <<>>
    \/ pc["client"] = "discover"
    \/ /\ pc["client"] = "transient"
       /\ Cardinality(Gone("client", 1)) <= faults
       /\ Cardinality(Gone("client", 1)) + Lag <= Delay + faults + 1

\* The inductive invariant when hole punching is in time.
PunchInv ==
  /\ IInv
  /\ Course
  /\ Traffic
  /\ CallsSucceed =>
       /\ KeepAlivesAreFew
       /\ ClientIsAnswered
       /\ ClientHears
       /\ ServerHears
  /\ NobodyFails
=============================================================================
