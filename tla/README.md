# A verification development of the UDP tunnel

The repository connects two programs behind NATs over UDP and carries either
application callbacks or a TCP stream between them. A generic loop
(`udp_conn.c`) drives one of two backends through a table of functions:
`chownat.c`, a small protocol of its own, and `ossl_quic.c`, QUIC by OpenSSL.
These modules state what the protocol and its driver promise, check it with TLC
on small instances and prove the main part of it with TLAPS for every instance.

Paths below are relative to `source/libs/protocols/`.

## Inventory

| part | state | operations | modelled in |
|---|---|---|---|
| chownat, data plane (`chownat/src/chownat.c:389-512`) | `id`, `expected`, `buffer[256]`, `sizes[256]` | `udp_send`, `udp_recv` of 08 and 09 | `ChownatData`, `ChownatStream`, `ChownatUnordered`, `ChownatOrdered` |
| chownat, session (`chownat.c:16-387`) | `closed`, loop counters, what is blocked where | `init`, `hole_punching`, `connect`, `disconnect_send`, `disconnect_recv`, `udp_send_ka`, `deinit` | `Chownat` |
| udp_conn, the loop (`udp_conn/src/udp_conn.c`) | `threshold`, keep-alive deadline | `tcp_bind`, `tcp_recv`, `tcp_send`, `udp_connection` | `Chownat` and `QuicSession`, as it drives either backend; `KeepAlive`, its clocks |
| udp_transport (`udp_conn/src/udp_transport.c`) | `ops`, `fd`, `owns_fd`, `tcp_fd` | `init_udp`, `send`, `recv`, `wait`, `set_tcp_fd`, `close` | `UdpTransport`, `Ownership` |
| ossl_quic, hole punching (`ossl_quic/src/ossl_quic.c:411-525`) | `hole_punched`, the round, what is in the socket | `hole_punching` | `QuicHolePunch` |
| ossl_quic, session (`ossl_quic.c:222-293, 527-911`) | `conn`, `listener`, `closed`, `close_status` | `connect`, `process_events`, `pending_data`, `udp_send`, `udp_recv`, `disconnect`, `deinit` | `QuicSession` |
| quic_like, utils, `chownat/` (the original programs), `sim/`, tests | | | not modelled |

How they interact. An application calls `udp_conn_init`, `udp_connection` and
`udp_conn_deinit`. `udp_connection` first binds the local TCP socket and runs the
backend's `hole_punching` and `connect` (the client binds first, the server
last), then loops in `select` over the UDP and the TCP socket: TCP input goes
out by `udp_send`, a datagram goes through `udp_recv` to the TCP socket, five
seconds without input send a keep-alive, and after `ka_miss_threshold` of them
in a row the loop disconnects. Backend functions call the application's
callback, from which it may send and disconnect. A backend with `process_events`
(QUIC) is asked for its events before every wait, its pending data is drained
then, and its timers shorten the wait. Each process has one thread;
all concurrency is between the two processes and the network between them.

What is hard here, and what each part must therefore guarantee:

* the handshakes are three-byte messages without a session, a direction or a
  number; `03` answers `01`, `02` and `03`. A late or repeated one may complete
  the wrong handshake. A peer must open, and close, only because of what the
  other has done.
* either last message of a handshake may be lost: one peer goes on, the other
  does not. Whatever happens, neither may be left behind for ever.
* datagrams are lost, repeated and overtaken. The application must get the
  bytes that were written, in order.
* ids wrap after 256 chunks, and nothing stops the writer from running ahead.
* repairs are triggered by data only, and every unexpected datagram triggers
  one: they must happen and they must end.
* the loop has one deadline and one count for everything: input, datagrams,
  keep-alives of its own and of the peer. A silent peer must be dropped in the
  time the constants give, a live one must not.
* QUIC's loop ends from six places (events, reading, writing, a callback, the
  local application, `deinit`), some of them inside another. The session must
  be shut down and reported once, and `OK` must mean something.
* `SSL_connect` has two ways to fail and `connect` looks for one; a shutdown may
  fail, or run out of its five seconds.
* OpenSSL empties the socket ahead of the loop: what it holds must be handed out
  although the socket is not readable any more.
* QUIC's hole punching has no handshake: each peer listens for half a second from
  the moment it has heard the other. The two windows must overlap.
* a UDP socket may belong to the transport or to the application, init may fail
  at six places, and the kernel reuses descriptor numbers: every socket must be
  closed once, by its holder.

`PROJECT.json` lists each such point at its line ("hazards"), with the
properties that cover it, or the reason why none does.

## Modules

* `ChownatData` — the data plane as operators: ids that wrap (`Inc`), the
  datagrams of a first transmission (`Original`) and of a repair
  (`Retransmitted`), the ids a NACK makes the sender repeat (`ResentIds`).
  A chunk, the argument of one `udp_send`, is its place in the stream and its
  length. The bytes themselves do not matter: the code never looks at them.
* `ChownatStream` — one direction of a connection without its network:
  the sender's `id`, `buffer`, the receiver's `expected`, the handlers
  (`StoreChunk`, `Accept`, `Reject`) and the histories `written` and
  `delivered`. `08` only touches a peer's sending half and `09` only its
  receiving half, so the two directions are independent.
* `ChownatUnordered` — that stream over a network that loses, repeats
  and reorders: sets of datagrams ever sent. A network of this kind has the
  behaviours of every other one, so what holds here holds on every path.
* `ChownatOrdered` — that stream over a path that loses but keeps the order.
  What needs order to be true, and what needs datagrams to arrive (liveness),
  is stated here. `LossyReplies` says whether NACKs and repairs may be lost too.
* `Pipe` — what a tunnel direction promises, abstractly: chunks come out once
  each, in order, possibly short of one of the byte counts in `Short`.
* `Tunnel` — what `udp_connection` promises the applications at its two ends,
  abstractly and for either backend: a peer opens at most once and is over for
  good, it writes and is handed data only in between, and is handed no more
  than its peer has written. `Chownat` and `QuicSession` implement it.
* `Chownat` — a client and a server over chownat, from the end of `init` to the
  end of `deinit`. `pc` names the `recv`, `accept` or `select` a process is
  blocked in; a step runs from there to the next one. `deliver` is the `send()`
  in which `tcp_send` waits for the local reader, without a timeout. The comment
  of an action names the branch of the code it is. Chunks have no contents here, only ids.
  A lost datagram is one that nobody ever receives.
* `KeepAlive` — the loop's clocks in two connected peers: `left` is the time to
  `next_ka_us`, `threshold` the count of missed keep-alives; a tick is a part of
  the five seconds of `ka_interval_us`. `events` is the kind of backend, chosen
  by `Init`. `silence`, `kas` (the calls of `udp_send_ka` in that silence),
  `sentAgo`, `lax` and `lost` are histories the properties speak of.
* `QuicSession` — a client and a server over QUIC, from the end of `init` to the
  end of `deinit`. `pc` names the part of `udp_connection` or `ossl_quic.c` a
  process is in, `at` and `caller` what it returns to from a callback or from
  `disconnect`. OpenSSL is there by what its calls may return (`ssl`,
  `arrived`, `bye`): a reliable stream, a close that follows the acknowledgement
  of what was written, an error at any time.
* `QuicHolePunch` — `ossl_quic_hole_punching` in a client and a server, with
  time: a tick is one `msleep(50)`. A step is what a process does between two
  waits. An arriving datagram is dropped by a NAT its peer has not opened by
  sending (`mapped`), or waits in `queue`, the socket's buffer, from the moment
  `init` has bound the socket: old probes and keep-alives meet the function when
  it starts.
* `UdpTransport` — the transports of a process over the kernel's table of
  descriptors and an application that keeps to `udp_transport.h`. `data`,
  `tcpFd` and `ops` are the fields of the code; `given` remembers the sockets
  behind the numbers. No protocol uses the transport yet; its only clients are
  its tests.
* `Ownership` — what that header promises, abstractly: a socket passes from the
  application to a transport, and is closed once, by its holder.
* `ChownatProofs`, `ChownatTunnelProofs`, `ChownatUnorderedProofs`,
  `ChownatOrderedProofs`, `KeepAliveProofs`, `QuicSessionProofs`, `QuicHolePunchProofs`,
  `UdpTransportProofs` — the theorems.

Definitions whose comment starts with "Faulty" are used by no other definition:
they are wrong versions of the one that follows, each a mistake one could make
in that code. Replacing the right version by the wrong one must make a run fail;
which one, and for which property, is in `PROJECT.json` ("mutants").

## Runs

Run one with `tlc -config <run>.cfg <module>`.

| run | module | question |
|---|---|---|
| `unordered_pipe` | `ChownatUnordered` | the inductive invariant, `InOrder`, `PieceOfChunk`; refinement of `Pipe` |
| `ordered_laps` | `ChownatOrdered` | the inductive invariant, `WholeLapsOff`, `SlipsOnlyWhenLapped` over two laps and more |
| `ordered_repair` | `ChownatOrdered` | liveness: `GapHeals`, `RepairEnds`; the promises of each step behind them, `NoRepairForgotten`, `RepairsRunDown`, and their invariant `RepairInv` |
| `session_safety` | `Chownat` | the inductive invariant, `OpensOnEvidence`, `ClosesOnRequest`, `DataBetweenOpenPeers`; refinement of `Tunnel` |
| `session_ends` | `Chownat` | liveness: `PeersEndTogether`, `HolePunchingEnds`; `AloneRunsDown`, the promise of each step behind the first |
| `transport_fds` | `UdpTransport` | the inductive invariant, `OneCloser`, `DescriptorsAreThoseGiven`; refinement of `Ownership` |
| `punch_opens` | `QuicHolePunch` | the inductive invariants `IInv` and `PunchInv`, `ServerDiscoversFirst`, `NobodyFails`; liveness: `BothOpen`, on a path within the timing |
| `keepalive` | `KeepAlive` | the inductive invariant, `SilentPeerDropped`, `DropsOnlyPausedPeer`, `KeepAlivesCountIntervals`, for both kinds of backend |
| `quic_session` | `QuicSession` | the inductive invariant, `OkMeansOrderly`, `DisconnectReports`; refinement of `Tunnel`; liveness: `EndReachesPeer`, `ArrivedIsDelivered`; `EndRunsDown`, the promise of each step behind the first |

Three runs are expected to fail, each on one statement of the sources that the
code does not keep:

| run | statement | what TLC finds |
|---|---|---|
| `ordered_whole_chunks` | the laboratory compares the bytes received with those sent (`sim/patchbay/src/patchbay.rs:65`) | a repair is sent without room for its header (`chownat.c:485`): the chunk arrives without its last three bytes |
| `ordered_lost_data` | LOST_DATA is reported when the data "is already retransmited" (`chownat.c:488`) | after a NACK across the wrap the loop at line 478 sends nothing |
| `quic_whole_stream` | the same comparison of the laboratory | `process_events` disconnects on the peer's close (`ossl_quic.c:892`) before the loop has drained what arrived, and was acknowledged, before it: the end of the stream is lost |

Other things a reader of the code may not expect are part of what the passing
properties say, and hold:

* a writer one lap ahead makes the chunk 256 places further pass for the expected
  one; nothing else does (`SlipsOnlyWhenLapped`);
* a lost chunk of one or two bytes is repeated as a datagram too short to be
  anything but a keep-alive (`chownat.c:485`, `460`). Its gap never closes, and
  the datagrams behind it feed NACKs and repairs for ever: with `Sizes = {2, 5}`
  in `ordered_repair`, TLC refutes `GapHeals`. That run, and the
  theorems on repairs, are therefore about chunks no shorter than the header;
* the `03` of a client that has given up and is disconnecting opens the server
  (the second disjunct of `OpensOnEvidence`);
* the attempts to disconnect are bounded by `conn_max_attempts`;
  `dconn_max_attempts` is read nowhere;
* the receipt of a keep-alive puts off the receiver's own. Two idle peers with
  nearly the same clock can keep one of them silent until it is dropped: without
  a loss, this is the only way to be (`lax` in `DropsOnlyPausedPeer`);
* `OK` of QUIC is no proof that there was a connection: an `SSL` object that was
  never connected (`ossl_quic.c:633-637`) can be closed in good order
  (`OkMeansOrderly` says only that no error was lost and nothing written is missing);
* a process whose local reader has stopped reading never drops its peer: it waits
  in `send()` and sees neither a `02` nor the clock (`Stuck`, for both backends);
* DISCONNECTED is called twice when the CONNECTED callback disconnects, because
  `connect` resets `closed` afterwards (`DisconnectReports`).

### Bounds

`SeqSpace` is 256 in the code. The ids are only ever incremented and compared,
so what they can go wrong by is a lap; with 3 ids and 4 or 7 chunks a run has
one or more full laps, old repairs of an earlier lap and NACKs across the wrap.
`unordered_pipe` has one id more than chunks, because the refinement holds for one
lap only; that its invariants hold past the wrap, on that network, is proved. `Sizes` has a length
above the header's (a repair loses its end) and one below (a repair becomes a
runt that is taken for a keep-alive). `MaxSend` and `MaxRecv` end the history
sequences; `MaxFlight` bounds a channel of the ordered path, which drops what
exceeds it as it may drop anything.

In `Chownat`, `session_ends` has two attempts, which distinguish "again" from "the
last one" in every loop, and `session_safety` one attempt with two reads and a
repetition: two chunks are needed for one of them to be lost and really resent,
one repetition doubles any one datagram, the handshake's included. `KaMiss = 1`
tells a first miss from the last one. A datagram waits in a set, so any later one
can overtake it, and nobody need ever receive it.
`CHECK_DEADLOCK FALSE` everywhere: a finished session, a stream whose chunks
have all been written and delivered, really stops.

`keepalive` has three ticks in an interval, so that a deadline can be anywhere
between two events of the peer, one miss before the last, and datagrams that are
under way for up to one tick. `quic_session` has two chunks from the client, so
that one can be handed out and the other not, and one from the server;
`quic_whole_stream` needs the client's only.

`transport_fds` has two transports, so that one may harm the other, four
descriptors of which `select` takes three, and four sockets, so that numbers are
reused. `punch_opens` has the code's own constants, ten rounds of 50 ms and a
timeout of 20 ticks, one-way delays of up to 100 ms and one lost or repeated
datagram. `BothOpen` needs such bounds: with five rounds, two ticks of delay and
one fault TLC finds one peer open and the other failed. On slower and
worse paths `ServerDiscoversFirst` is proved, not run. Three places in a socket's
buffer let an old datagram wait in front of two new ones, or fill it.

`ordered_repair` has fewer chunks than ids, no lost repairs and chunks of three
bytes, the shortest the repairs can bring back: what its properties assume. All
six chunks may be on the path at once.

### Fairness

* `ChownatOrdered!FairSpec`: a queued datagram is received, because `select`
  returns at once for as long as one is. Nothing says that the writer writes or
  that a datagram survives; `GapHeals` is about those that did.
* `Chownat!FairSpec`: a process that is blocked gets what it waits for or times
  out (`SO_RCVTIMEO`; the deadline of `select`). No datagram need arrive, the
  local application need not connect, read or write anything, and no process need
  be killed. So `accept` and the `send()` of `tcp_send` (`udp_conn.c:114`), which
  have no timeout, may last for ever: `PeersEndTogether` excepts a client nobody
  connects to and a process whose reader is `Stuck`. The timeout of a loop that ignores what it receives is not put off for
  ever because the traffic is finite: `MaxReads` bounds what TCP hands over, and
  a peer without input is silent for five seconds at a time while the tests set
  a timeout of one second. With endless input on one side the two liveness
  properties do not hold; that is one of the hazards.

* `QuicSession!FairSpec`: a process goes on when nothing holds it up (`Advance`),
  `select` because it times out; and OpenSSL gives up on a peer that is gone,
  by its idle timeout or the close that peer has sent. Strong fairness there: the
  process looks at the connection again and again, not all the time. Nothing is
  assumed of the path, of hole punching, of the application or of the local
  reader; `Stuck` is the process whose reader never reads, which `send` waits for.
* `QuicHolePunch!FairSpec`: both programs get to `hole_punching`, time passes,
  and a process that need not wait runs before it does. The last is what the
  timing of the code presupposes; a slow process is a slow path.

## Proofs

`ChownatUnorderedProofs`: from `SeqSpaceAssumption`, `SizesAssumption` and
`BoundsAssumption`, for every number of ids, set of lengths and length of run,

* `Invariance`: `Spec => []IInv`. `PieceOfChunk` alone is not inductive: what is
  delivered was in flight, what is in flight was sent from a slot, so the
  invariant says of each datagram (`InFlight`) and of each slot (`SlotsFilled`)
  that it is a written chunk. That the loop bound `i < id` never reads an empty
  slot is the part about `i >= id`.
* `DeliveryInOrder`: `FirstLap`, the id of a datagram determines its chunk until
  the ids wrap.
* `ImplementsPipe`: with `MaxSend < SeqSpace` every step is a step of `Pipe` or
  leaves it alone. The assumption is what the code needs and does not check.

`ChownatOrderedProofs`: from the same and `PathAssumption`, `Invariance`,
`OnlyLapsAreLost` and `LapsAloneBreakOrder` (`SlipsOnlyWhenLapped`): on an ordered
path the 256 ids are enough for a stream of any length, but for a writer more
than a lap ahead. An id is the place of its chunk up to laps (`IdsAreResidues`);
which lap follows from two facts: a repair is made of slots of the sender's last
lap (`SlotsOfThisLap`), and so nothing on the path is a lap older than what is in
front of it or has arrived (`NoneIsALapOld`). A chunk with the expected id that is
neither is the expected one.

The same module proves what repairs rest on, from `Repairable`: the stream is
shorter than a lap, no chunk is shorter than the header, and NACKs and
retransmissions get through (originals may still be lost). Each is needed: without
the first a NACK across the wrap is not answered, without the second a repair is no
chunk, and a lost repair is asked for again only if something follows.
`RepairInvariance` is the invariant `RepairInv`: within a lap an id is the place of
its chunk, so that no NACK asks for more than the reader misses.
`RepairsAreOwed` (`NoRepairForgotten`): a chunk seen on the path stays there, or is
behind a NACK that will repeat it, until it is delivered. `RepairsAreFinite`
(`RepairsRunDown`): every step but `udp_send` makes `Work` smaller, a tuple of
natural numbers in the order of a dictionary. Its order is the argument: a delivery
outweighs everything; a NACK that is out of date is answered by repeats the reader
will drop, each with one more NACK, but these name what it expects now; such a NACK
puts the expected chunk on the path if it is not there; and once it is, each
dropped datagram in front of it is exchanged for one NACK, each NACK for datagrams
behind it.

`ChownatProofs`: from `SeqSpaceAssumption`, `SizesAssumption` and
`ConfigAssumption`, for every number of attempts, misses, reads and repetitions,
`Invariance` and its parts `OpeningIsJustified`, `ClosingIsRequested` and
`DataIsBetweenOpenPeers`. The three properties speak of what both processes have
done; a step sees one process and a datagram. `DatagramEvidence` says what the
sender of each kind of datagram must have done before, `PlaceEvidence` what a
process must have done to be where it is, and the steps carry one into the other.
`SurvivorEnds` (`AloneRunsDown`): once one process is gone, each step makes the
tuple `Left` of the other smaller in the order of a dictionary: repetitions, reads,
datagrams still to come, the place in the program, and the attempts left in the
outer and the inner loop. The order says why counts that start again do no harm: a
count is reset only by a datagram, of which there will be no more, or by going on.

`ChownatTunnelProofs`: from the same and `MaxReads < SeqSpace` (a session that
carries fewer chunks than there are ids; again what the code needs and does not
check), `ImplementsTunnel`: every step of a session is one of `Tunnel` or leaves
it alone. That no more is handed out than was written needs `LapInv`: before the
ids wrap, what is on its way, and what a peer expects next, has an id the other
has used.

`QuicSessionProofs`: from `WritesAssumption`, for every number of chunks,
`Invariance`, `OkIsOrderly`, `DisconnectIsReported` and `ImplementsTunnel`.
`OkMeansOrderly` speaks of the end and of what happened long before it:
`EndIsExplained` carries the reason of an end without error through every way to
disconnect. `ReportsCounted` says for each place how often DISCONNECTED has been
called, and that the only closing ever undone is the one in the CONNECTED callback.
`EndsRunDown` (`EndRunsDown`): once OpenSSL has ended the connection every step of
that process leaves it with less to read, or as much and at a place nearer to the
end of `deinit`. The loop has one way back to its top, and `process_events` bars it.

`KeepAliveProofs`: from `ClockAssumption`, for every interval, threshold and
delay, `Invariance`, `SilenceIsBounded` and `DropsArePauses`. The two clocks of a
process together read how long it has heard nothing (`ClockReadsSilence`); without
a loss, that is no more than the peer's last pause and the age of the datagram that
ended it (`SilenceExplained`). `KeepAlivesAreDue` is `KeepAlivesCountIntervals`:
`udp_send_ka` is called once for every whole interval of that silence, neither
more nor less often, and chownat's count is the number of these calls; the call
that QUIC ignores is counted in `kas` all the same.

`UdpTransportProofs`: from `TableAssumption`, for every number of transports,
descriptors and sockets, `Invariance`, `ExactlyOneCloser`,
`TransportsKeepTheirSockets` and `ImplementsOwnership`. The invariant speaks of
the parties one by one: what the application holds is open, what a transport owns is open and not the
application's, what it borrows is, no two own the same, nothing open is without a
holder. A new socket cannot disturb them because its number was free; a close
cannot because only its closer used the number. For the contract the sockets need
one thing more, that no two descriptors stand for the same one (`Numbered`).

`QuicHolePunchProofs`: from `TimingAssumption` and `BoundsAssumption`,
`Invariance` and `OnlyClientInitiates`. `ServerDiscoversFirst` is not inductive:
the probe that lets the client discover may have been under way for long, so
`ServerWaitsForTrigger` says it of every probe in flight or in the client's socket.

From `InTime` as well, for every window, timeout, delay, size of the socket's
buffer and number of faults it allows, `PunchInvariance` and `NobodyFailsInTime`:
no peer reaches the end of its ten rounds without having polled a probe, whatever
the NATs, the starting times and the order of arrival. With the code's half second
`InTime` allows two ticks of delay with up to two faults, or three ticks with
one. It is
sufficient, not necessary: with a delay of two ticks and no fault it asks for
seven rounds, and TLC finds that five are enough and four are not. The argument
counts. `Gone` are the probes a phase has sent early enough to matter that its
path no longer holds. While their receiver has heard none of them each was lost,
so there are no more than `faults` of them; and since a probe sent `Delay` ticks
ago has either arrived or is gone, the phase they belong to is young. That is
`ClientIsAnswered`, `ClientHears` and `ServerHears`, one for each wait. The client
polls one datagram in a round, so keep-alives in its socket cost it rounds:
`KeepAlivesAreFew` says that there is at most one of the server's own, because the
server sends them `Retry` ticks apart and `Delay < Retry`, and one for each
repetition. `NobodyFails` is about runs in which no call fails (`CallsSucceed`).

Five theorems are the safety halves of liveness properties: `RepairsAreOwed` and
`RepairsAreFinite` of `GapHeals` and `RepairEnds`, `SurvivorEnds` of
`PeersEndTogether`, `EndsRunDown` of `EndReachesPeer`, and `NobodyFailsInTime` is
that of `BothOpen`. What they leave to TLC is that a step which can be taken is
taken: TLAPS has no rules for fairness and ENABLED here, and none for the
induction over the tuples. Only model-checked are therefore the liveness
properties themselves, and the failing runs, which are counterexamples.
`HolePunchingEnds` and `ArrivedIsDelivered` have no such half of their own.

## Not modelled, and the plan

Not modelled at all: the original chownat programs (`chownat/`), which are not
built and from which `chownat.c` was written; `quic_like`, a stub; `utils` (command
line and printing); the laboratory in `sim/`, whose networks are those of the
models. None of them holds state a session depends on.

Left out of the modules above:

* `init` of the two backends: socket options, contexts, certificates. When it
  fails the application stops before there is a session.
* descriptors in the two backends. `disconnect_recv` and `deinit` close the same
  numbers (`chownat.c:376`, `ossl_quic.c:206` and `253`, `udp_conn.c:30` and `67`);
  `udp_transport`, modelled with its descriptors, is to replace that handling.
* addresses (the model has two peers), the contents of chunks, and a datagram
  shorter than three bytes other than a keep-alive in the session (its first
  byte decides which handshake message it can be taken for).
* time in the sessions, except that timeouts happen. `KeepAlive` has the loop's
  clocks without the session, with only data and the final `02` as messages.
* waits without a deadline: discovery in `hole_punching` of QUIC and
  `SSL_accept_connection` return when the peer does its part, and for ever wait
  when it does not. `QuicSession` assumes no fairness there.
* the inside of OpenSSL: loss, repair and flow control of the QUIC stream.
* in `UdpTransport`, `send`, `recv` and `wait`: they change neither the transport
  nor the table. In `QuicHolePunch`, EINTR (no program installs a signal handler);
  a failing `setsockopt` is a failing call.

To do, in this order:

1. Descriptors in the two backends, in the manner of `UdpTransport`: which close
   hits a number that is somebody else's by then.
2. Addresses: a third party's datagrams, which chownat takes for the peer's.
3. The session and its clocks in one module, for the liveness of a session with
   endless input on one side.
