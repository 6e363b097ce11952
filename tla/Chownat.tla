------------------------------ MODULE Chownat ------------------------------
(***************************************************************************)
(* A chownat session between a client "c" and a server "s": hole punching, *)
(* connection, data exchange, keep-alive and disconnection, as             *)
(* udp_connection drives chownat.c in the two processes, from the end of   *)
(* init to the end of deinit.                                              *)
(*                                                                         *)
(* pc says in which recv or select a process is blocked:                   *)
(*   "bind"   udp_conn.c tcp_bind: accept (client), connect (server)       *)
(*   "hp"     hole_punching, client                                        *)
(*   "wait"   hole_punching, server, before an "01"                        *)
(*   "ack"    hole_punching, server, answering "01" with "03"              *)
(*   "loop"   the select loop of udp_connection                            *)
(*   "deliver"  the callback of received data, then tcp_send, which blocks *)
(*              while the local reader does                                *)
(*   "dsend"  disconnect_send, called by the loop or by deinit             *)
(*   "drecv"  disconnect_recv                                              *)
(*   "done"   after deinit, or after exit                                  *)
(* A step runs from one blocking call to the next.  A recv that times out  *)
(* receives NoMsg.  A datagram is lost when nobody ever receives it: any   *)
(* recv may time out whatever is on its way.  TCP input also stands for    *)
(* what an application without a tunnel sends from its callbacks.          *)
(***************************************************************************)
EXTENDS ChownatData, FiniteSets

CONSTANTS MaxAttempts,  \* conn_max_attempts
          KaMiss,       \* ka_miss_threshold
          MaxReads,     \* bound: chunks a process reads from TCP
          MaxDup        \* bound: datagrams the network repeats

ASSUME ConfigAssumption ==
  MaxAttempts \in Nat \ {0} /\ KaMiss \in Nat /\ MaxReads \in Nat /\ MaxDup \in Nat

Peers == {"c", "s"}
Other(p) == IF p = "c" THEN "s" ELSE "c"

Msgs == [t : {"01", "02", "03", "08", "09", "ka"}, seq : Ids]
Ctl(t) == [t |-> t, seq |-> 0]
Numbered(t, i) == [t |-> t, seq |-> i]
NoMsg == Ctl("none")

VARIABLES
  pc, attempts,          \* where each process is, the attempts of its loop
  outer,                 \* the server's outer attempts while it is in "ack"
  threshold,             \* keep-alives in a row without any I/O
  id, expected,          \* chownat_data_t
  net,                   \* datagrams on their way to each process, the lost among them
  dups, reads,           \* used up of MaxDup and MaxReads
  connected, acked, closing, got   \* history, see below

(***************************************************************************)
(* History: connected[p] the CONNECTED callback has run, acked the server  *)
(* has answered an "01", closing[p] p has called disconnect_send, got[p]   *)
(* the number of chunks p has delivered.                                   *)
(***************************************************************************)
vars == <<pc, attempts, outer, threshold, id, expected, net, dups,
          reads, connected, acked, closing, got>>

dataVars == <<id, expected, got, reads>>

Init ==
  /\ pc = [p \in Peers |-> IF p = "c" THEN "bind" ELSE "wait"]
  /\ attempts = [p \in Peers |-> 0]
  /\ outer = 0
  /\ threshold = [p \in Peers |-> 0]
  /\ id = [p \in Peers |-> 0]
  /\ expected = [p \in Peers |-> 0]
  /\ net = [p \in Peers |-> {}]
  /\ dups = 0
  /\ reads = [p \in Peers |-> 0]
  /\ connected = [p \in Peers |-> FALSE]
  /\ acked = FALSE
  /\ closing = [p \in Peers |-> FALSE]
  /\ got = [p \in Peers |-> 0]

-----------------------------------------------------------------------------
\* p sends the datagrams out.
Send(p, out) ==
  /\ net' = [net EXCEPT ![Other(p)] = @ \cup out]
  /\ UNCHANGED dups

\* p receives m, which the network may be about to deliver again, or times
\* out (NoMsg), and sends out.
Recv(p, m, out) ==
  \/ /\ m = NoMsg
     /\ Send(p, out)
  \/ /\ m \in net[p]
     /\ net' = [net EXCEPT ![p] = @ \ {m}, ![Other(p)] = @ \cup out]
     /\ UNCHANGED dups
  \/ /\ m \in net[p]
     /\ dups < MaxDup
     /\ dups' = dups + 1
     /\ net' = [net EXCEPT ![Other(p)] = @ \cup out]

\* Control passes to another loop, which starts its own count of attempts.
Enter(p, loop) ==
  /\ pc' = [pc EXCEPT ![p] = loop]
  /\ attempts' = [attempts EXCEPT ![p] = 0]

\* Another attempt of the loop p is in, if it has one left.
Again(p) ==
  /\ attempts[p] + 1 < MaxAttempts
  /\ attempts' = [attempts EXCEPT ![p] = @ + 1]
  /\ UNCHANGED pc

LastAttempt(p) == attempts[p] + 1 = MaxAttempts

\* p enters disconnect_send, its first "02" sent by the caller.
Disconnect(p) ==
  /\ Enter(p, "dsend")
  /\ closing' = [closing EXCEPT ![p] = TRUE]

\* The end of disconnect_send and disconnect_recv, and deinit.
Finish(p) ==
  /\ Enter(p, "done")
  /\ id' = [id EXCEPT ![p] = 0]
  /\ expected' = [expected EXCEPT ![p] = 0]
  /\ UNCHANGED <<outer, threshold, reads, connected, acked, closing, got>>

-----------------------------------------------------------------------------
(***************************************************************************)
(* Connecting.                                                             *)
(***************************************************************************)
\* The client's accept returns; hole_punching sends its first "01".
ClientAccept ==
  /\ pc["c"] = "bind"
  /\ Enter("c", "hp")
  /\ Send("c", {Ctl("01")})
  /\ UNCHANGED <<outer, threshold, dataVars, connected, acked, closing>>

\* The client's tcp_bind fails: deinit still disconnects.
ClientBindFails ==
  /\ pc["c"] = "bind"
  /\ Disconnect("c")
  /\ Send("c", {Ctl("02")})
  /\ UNCHANGED <<outer, threshold, dataVars, connected, acked>>

\* Faulty: whatever arrives opens the connection.
ClientOpensOnAnything ==
  /\ pc["c"] = "hp"
  /\ \E m \in net["c"] : Recv("c", m, {Ctl("03")})
  /\ Enter("c", "loop")
  /\ connected' = [connected EXCEPT !["c"] = TRUE]
  /\ UNCHANGED <<outer, threshold, dataVars, acked, closing>>

\* hole_punching, client: "03" arrives.
ClientOpens ==
  /\ pc["c"] = "hp"
  /\ Recv("c", Ctl("03"), {Ctl("03")})
  /\ Enter("c", "loop")
  /\ connected' = [connected EXCEPT !["c"] = TRUE]
  /\ UNCHANGED <<outer, threshold, dataVars, acked, closing>>

\* Faulty: attempts++ is missing.
ClientRetriesUncounted(m) ==
  /\ pc["c"] = "hp"
  /\ m # Ctl("03")
  /\ Recv("c", m, {Ctl("01")})
  /\ UNCHANGED <<pc, attempts, outer, threshold, dataVars, connected,
                 acked, closing>>

\* hole_punching, client: a timeout or anything else uses up an attempt.
ClientRetries(m) ==
  /\ pc["c"] = "hp"
  /\ m # Ctl("03")
  /\ Again("c")
  /\ Recv("c", m, {Ctl("01")})
  /\ UNCHANGED <<outer, threshold, dataVars, connected, acked, closing>>

ClientGivesUp(m) ==
  /\ pc["c"] = "hp"
  /\ m # Ctl("03")
  /\ LastAttempt("c")
  /\ Disconnect("c")
  /\ Recv("c", m, {Ctl("02")})
  /\ UNCHANGED <<outer, threshold, dataVars, connected, acked>>

\* hole_punching, server: "01" arrives; the inner loop starts.
ServerAnswers ==
  /\ pc["s"] = "wait"
  /\ Recv("s", Ctl("01"), {Ctl("03")})
  /\ outer' = attempts["s"]
  /\ Enter("s", "ack")
  /\ acked' = TRUE
  /\ UNCHANGED <<threshold, dataVars, connected, closing>>

\* hole_punching, server: anything else is dropped and not counted.
ServerIgnores(m) ==
  /\ pc["s"] = "wait"
  /\ m \notin {Ctl("01"), NoMsg}
  /\ Recv("s", m, {})
  /\ UNCHANGED <<pc, attempts, outer, threshold, dataVars, connected,
                 acked, closing>>

\* hole_punching, server: a timeout sends a keep-alive and is counted.
ServerWaits ==
  /\ pc["s"] = "wait"
  /\ Again("s")
  /\ Send("s", {Ctl("ka")})
  /\ UNCHANGED <<outer, threshold, dataVars, connected, acked, closing>>

ServerGivesUp ==
  /\ pc["s"] = "wait"
  /\ LastAttempt("s")
  /\ Disconnect("s")
  /\ Send("s", {Ctl("ka"), Ctl("02")})
  /\ UNCHANGED <<outer, threshold, dataVars, connected, acked>>

\* Faulty: whatever arrives confirms the connection.
ServerOpensOnAnything ==
  /\ pc["s"] = "ack"
  /\ \E m \in net["s"] : Recv("s", m, {})
  /\ Enter("s", "bind")
  /\ UNCHANGED <<outer, threshold, dataVars, connected, acked, closing>>

\* The inner loop: "03" arrives and hole_punching succeeds.
ServerOpens ==
  /\ pc["s"] = "ack"
  /\ Recv("s", Ctl("03"), {})
  /\ Enter("s", "bind")
  /\ UNCHANGED <<outer, threshold, dataVars, connected, acked, closing>>

\* The inner loop: anything else is dropped, not counted, and answered "03".
ServerRepeats(m) ==
  /\ pc["s"] = "ack"
  /\ m \notin {Ctl("03"), NoMsg}
  /\ Recv("s", m, {Ctl("03")})
  /\ UNCHANGED <<pc, attempts, outer, threshold, dataVars, connected,
                 acked, closing>>

\* The inner loop: a timeout is counted; at the last one the outer loop goes
\* on where it was.
ServerRetries ==
  /\ pc["s"] = "ack"
  /\ Again("s")
  /\ Send("s", {Ctl("03")})
  /\ UNCHANGED <<outer, threshold, dataVars, connected, acked, closing>>

ServerWaitsAgain ==
  /\ pc["s"] = "ack"
  /\ LastAttempt("s")
  /\ pc' = [pc EXCEPT !["s"] = "wait"]
  /\ attempts' = [attempts EXCEPT !["s"] = outer]
  /\ UNCHANGED <<outer, threshold, dataVars, net, dups, connected,
                 acked, closing>>

\* The server's tcp_bind succeeds and connect runs the CONNECTED callback.
ServerConnects ==
  /\ pc["s"] = "bind"
  /\ Enter("s", "loop")
  /\ connected' = [connected EXCEPT !["s"] = TRUE]
  /\ UNCHANGED <<outer, threshold, dataVars, net, dups, acked, closing>>

Connecting ==
  \/ ClientAccept \/ ClientBindFails \/ ClientOpens
  \/ \E m \in net["c"] \cup {NoMsg} : ClientRetries(m) \/ ClientGivesUp(m)
  \/ ServerAnswers \/ ServerWaits \/ ServerGivesUp
  \/ ServerOpens \/ ServerRetries \/ ServerWaitsAgain \/ ServerConnects
  \/ \E m \in net["s"] : ServerIgnores(m) \/ ServerRepeats(m)

-----------------------------------------------------------------------------
(***************************************************************************)
(* The loop.  Any readable socket, TCP or UDP, resets the threshold.       *)
(***************************************************************************)
ResetThreshold(p) == threshold' = [threshold EXCEPT ![p] = 0]

\* The application has the word: TCP is readable, or its callback runs.
Served(p) == pc[p] \in {"loop", "deliver"}

\* tcp_recv reads a chunk and udp_send sends it, or the callback sends one.
ReadTcp(p) ==
  /\ Served(p)
  /\ reads[p] < MaxReads
  /\ reads' = [reads EXCEPT ![p] = @ + 1]
  /\ id' = [id EXCEPT ![p] = Inc(@)]
  /\ Send(p, {Numbered("09", id[p])})
  /\ ResetThreshold(p)
  /\ UNCHANGED <<pc, attempts, outer, expected, connected, acked,
                 closing, got>>

\* TCP ends or fails, for tcp_recv or tcp_send, or udp_send does, or the
\* application disconnects.
EndTcp(p) ==
  /\ Served(p)
  /\ Disconnect(p)
  /\ Send(p, {Ctl("02")})
  /\ ResetThreshold(p)
  /\ UNCHANGED <<outer, dataVars, connected, acked>>

\* udp_recv of a keep-alive, a late handshake message or a stray "01".
RecvOther(p, m) ==
  /\ pc[p] = "loop"
  /\ m.t \in {"ka", "03", "01"}
  /\ Recv(p, m, {})
  /\ ResetThreshold(p)
  /\ UNCHANGED <<pc, attempts, outer, dataVars, connected, acked, closing>>

\* udp_recv of a NACK.
RecvNack(p, m) ==
  /\ pc[p] = "loop"
  /\ m.t = "08"
  /\ Recv(p, m, {Numbered("09", i) : i \in ResentIds(m.seq, id[p])})
  /\ ResetThreshold(p)
  /\ UNCHANGED <<pc, attempts, outer, dataVars, connected, acked, closing>>

\* udp_recv of unexpected data.
RecvUnexpected(p, m) ==
  /\ pc[p] = "loop"
  /\ m.t = "09" /\ m.seq # expected[p]
  /\ Recv(p, m, {Numbered("08", expected[p])})
  /\ ResetThreshold(p)
  /\ UNCHANGED <<pc, attempts, outer, dataVars, connected, acked, closing>>

\* Faulty: the server takes data before the handshake is over.
AcceptEarly(p, m) ==
  /\ pc[p] \in {"loop", "ack"}
  /\ m.t = "09" /\ m.seq = expected[p]
  /\ expected' = [expected EXCEPT ![p] = Inc(@)]
  /\ got' = [got EXCEPT ![p] = @ + 1]
  /\ ResetThreshold(p)
  /\ UNCHANGED <<outer, id, reads, connected, acked>>

\* udp_recv of the expected data, handed to the application.
Accept(p, m) ==
  /\ pc[p] = "loop"
  /\ m.t = "09" /\ m.seq = expected[p]
  /\ expected' = [expected EXCEPT ![p] = Inc(@)]
  /\ got' = [got EXCEPT ![p] = @ + 1]
  /\ ResetThreshold(p)
  /\ UNCHANGED <<outer, id, reads, connected, acked>>

RecvExpected(p, m) ==
  /\ Accept(p, m)
  /\ Recv(p, m, {})
  /\ pc' = [pc EXCEPT ![p] = "deliver"]
  /\ UNCHANGED <<attempts, closing>>

\* The callback returns and the local application takes the chunk.
TcpTakes(p) ==
  /\ pc[p] = "deliver"
  /\ pc' = [pc EXCEPT ![p] = "loop"]
  /\ UNCHANGED <<attempts, outer, threshold, dataVars, net, dups, connected,
                 acked, closing>>

\* Faulty: a handshake message ends the session too.
RecvDisconnectOrLate(p, m) ==
  /\ pc[p] = "loop"
  /\ m.t \in {"02", "03"}
  /\ Recv(p, m, {Ctl("03")})
  /\ Enter(p, "drecv")
  /\ ResetThreshold(p)
  /\ UNCHANGED <<outer, dataVars, connected, acked, closing>>

\* udp_recv of "02".
RecvDisconnect(p, m) ==
  /\ pc[p] = "loop"
  /\ m.t = "02"
  /\ Recv(p, m, {Ctl("03")})
  /\ Enter(p, "drecv")
  /\ ResetThreshold(p)
  /\ UNCHANGED <<outer, dataVars, connected, acked, closing>>

\* recv fails after select: closed = 1 and nothing is sent, ever.
RecvFails(p) ==
  /\ pc[p] = "loop"
  /\ Enter(p, "done")
  /\ ResetThreshold(p)
  /\ UNCHANGED <<outer, dataVars, net, dups, connected, acked, closing>>

\* Five seconds without I/O: a keep-alive, and one more miss.
KeepAlive(p) ==
  /\ pc[p] = "loop"
  /\ threshold[p] # KaMiss
  /\ threshold' = [threshold EXCEPT ![p] = @ + 1]
  /\ Send(p, {Ctl("ka")})
  /\ UNCHANGED <<pc, attempts, outer, dataVars, connected, acked, closing>>

\* Faulty: at the threshold the count starts again.
KeepAliveMissedForgotten(p) ==
  /\ pc[p] = "loop"
  /\ threshold[p] = KaMiss
  /\ Send(p, {Ctl("ka")})
  /\ ResetThreshold(p)
  /\ UNCHANGED <<pc, attempts, outer, dataVars, connected, acked, closing>>

\* The same, with the threshold reached; the count ends with the loop.
KeepAliveMissed(p) ==
  /\ pc[p] = "loop"
  /\ threshold[p] = KaMiss
  /\ Disconnect(p)
  /\ Send(p, {Ctl("ka"), Ctl("02")})
  /\ UNCHANGED <<outer, threshold, dataVars, connected, acked>>

Loop(p) ==
  \/ ReadTcp(p) \/ EndTcp(p) \/ TcpTakes(p)
  \/ RecvFails(p) \/ KeepAlive(p) \/ KeepAliveMissed(p)
  \/ \E m \in net[p] :
       \/ RecvOther(p, m) \/ RecvNack(p, m) \/ RecvUnexpected(p, m)
       \/ RecvExpected(p, m) \/ RecvDisconnect(p, m)

-----------------------------------------------------------------------------
(***************************************************************************)
(* Disconnecting.                                                          *)
(***************************************************************************)
\* disconnect_send: "03" confirms, and is confirmed in turn.
DisconnectConfirmed(p) ==
  /\ pc[p] = "dsend"
  /\ Recv(p, Ctl("03"), {Ctl("03")})
  /\ Finish(p)

\* disconnect_send: a timeout or anything else uses up an attempt.
DisconnectRetries(p, m) ==
  /\ pc[p] = "dsend"
  /\ m # Ctl("03")
  /\ Again(p)
  /\ Recv(p, m, {Ctl("02")})
  /\ UNCHANGED <<outer, threshold, dataVars, connected, acked, closing>>

DisconnectGivesUp(p, m) ==
  /\ pc[p] = "dsend"
  /\ m # Ctl("03")
  /\ LastAttempt(p)
  /\ Recv(p, m, {})
  /\ Finish(p)

\* disconnect_recv: "03" ends it.
PeerConfirms(p) ==
  /\ pc[p] = "drecv"
  /\ Recv(p, Ctl("03"), {})
  /\ Finish(p)

\* disconnect_recv: anything else is dropped, not counted, and answered "03".
PeerRepeats(p, m) ==
  /\ pc[p] = "drecv"
  /\ m \notin {Ctl("03"), NoMsg}
  /\ Recv(p, m, {Ctl("03")})
  /\ UNCHANGED <<pc, attempts, outer, threshold, dataVars, connected,
                 acked, closing>>

\* disconnect_recv: a timeout is counted.
PeerRetries(p) ==
  /\ pc[p] = "drecv"
  /\ Again(p)
  /\ Send(p, {Ctl("03")})
  /\ UNCHANGED <<outer, threshold, dataVars, connected, acked, closing>>

PeerGivesUp(p) ==
  /\ pc[p] = "drecv"
  /\ LastAttempt(p)
  /\ Finish(p)
  /\ UNCHANGED <<net, dups>>

Disconnecting(p) ==
  \/ DisconnectConfirmed(p)
  \/ \E m \in net[p] \cup {NoMsg} : DisconnectRetries(p, m) \/ DisconnectGivesUp(p, m)
  \/ PeerConfirms(p) \/ PeerRetries(p) \/ PeerGivesUp(p)
  \/ \E m \in net[p] : PeerRepeats(p, m)

-----------------------------------------------------------------------------
\* exit(errno), when a keep-alive cannot be sent or the server's tcp_bind
\* cannot connect; or the process is killed.
Exit(p) ==
  /\ pc[p] # "done"
  /\ pc' = [pc EXCEPT ![p] = "done"]
  /\ UNCHANGED <<attempts, outer, threshold, dataVars, net, dups, connected,
                 acked, closing>>

Next ==
  \/ Connecting
  \/ \E p \in Peers : Loop(p) \/ Disconnecting(p) \/ Exit(p)

Spec == Init /\ [][Next]_vars

(***************************************************************************)
(* Fairness.  A process blocked in recv or select gets what it waits for   *)
(* or times out: recv by SO_RCVTIMEO, select by the keep-alive deadline;   *)
(* the kernel lets the server's connect return.  Nothing is assumed of     *)
(* what has no timeout: the client's accept, and the callback and send()   *)
(* of "deliver", which return when the local application pleases.  Nor is  *)
(* it assumed that a datagram arrives or that TCP does anything.  A        *)
(* timeout is not put off for ever by traffic because traffic without a    *)
(* timeout is finite: TCP input is (MaxReads), and in the code a peer with *)
(* nothing to send is silent for 5 s, the tests' recv timeout being 1 s.   *)
(***************************************************************************)
Timeout(p) ==
  \/ p = "c" /\ (ClientRetries(NoMsg) \/ ClientGivesUp(NoMsg))
  \/ p = "s" /\ \/ ServerWaits \/ ServerGivesUp
                \/ ServerRetries \/ ServerWaitsAgain \/ ServerConnects
  \/ KeepAlive(p) \/ KeepAliveMissed(p)
  \/ DisconnectRetries(p, NoMsg) \/ DisconnectGivesUp(p, NoMsg)
  \/ PeerRetries(p) \/ PeerGivesUp(p)

FairSpec == Spec /\ \A p \in Peers : WF_vars(Timeout(p))

-----------------------------------------------------------------------------
TypeOK ==
  /\ pc \in [Peers -> {"bind", "hp", "wait", "ack", "loop", "deliver",
                      "dsend", "drecv", "done"}]
  /\ attempts \in [Peers -> 0 .. MaxAttempts - 1]
  /\ outer \in 0 .. MaxAttempts - 1
  /\ threshold \in [Peers -> 0 .. KaMiss]
  /\ id \in [Peers -> Ids]
  /\ expected \in [Peers -> Ids]
  /\ net \in [Peers -> SUBSET Msgs]
  /\ dups \in 0 .. MaxDup
  /\ reads \in [Peers -> 0 .. MaxReads]
  /\ connected \in [Peers -> BOOLEAN]
  /\ acked \in BOOLEAN
  /\ closing \in [Peers -> BOOLEAN]
  /\ got \in [Peers -> Nat]

(***************************************************************************)
(* "03" carries no session or direction, and answers "01", "02" and "03"   *)
(* alike.  Even so, whatever the network loses, repeats or delays, the     *)
(* client opens only for a server that has had its "01", and the server    *)
(* only for a client that has opened or that, refused, is disconnecting    *)
(* (chownat.c:176-183, 205-226, 296-299).                                  *)
(***************************************************************************)
OpensOnEvidence ==
  /\ connected["c"] => acked
  /\ connected["s"] => acked /\ (connected["c"] \/ closing["c"])

(***************************************************************************)
(* A process ends its session by disconnect_recv only when its peer has    *)
(* called disconnect_send: no stale, early or repeated handshake message   *)
(* makes an open process hang up (chownat.c:464-468).                      *)
(***************************************************************************)
ClosesOnRequest == \A p \in Peers : pc[p] = "drecv" => closing[Other(p)]

(***************************************************************************)
(* Data is handed to the application only after this process's own         *)
(* CONNECTED callback, and only from a peer that has had its own; what     *)
(* arrives during the handshakes is never delivered (chownat.c:216-229,    *)
(* 289-301, 495-506).                                                      *)
(***************************************************************************)
DataBetweenOpenPeers ==
  \A p \in Peers : got[p] > 0 => connected[p] /\ connected[Other(p)]

-----------------------------------------------------------------------------
(***************************************************************************)
(* Why: each kind of datagram in the network, and each place a process can *)
(* be in, is evidence of what its sender has done before.                  *)
(***************************************************************************)
DatagramEvidence ==
  /\ \A p \in Peers : Ctl("03") \in net[p] => acked
  /\ Ctl("03") \in net["s"] => connected["c"] \/ closing["c"]
  /\ \A p \in Peers : \A m \in net[p] :
       /\ m.t = "02" => closing[Other(p)]
       /\ m.t = "09" => connected[Other(p)]

PlaceEvidence ==
  /\ \A p \in Peers :
       /\ pc[p] \in {"loop", "deliver", "drecv"} => connected[p]
       /\ pc[p] = "dsend" => closing[p]
  /\ pc["s"] = "ack" => acked
  /\ pc["s"] = "bind" => acked /\ (connected["c"] \/ closing["c"])

\* The inductive invariant.
IInv ==
  /\ TypeOK
  /\ DatagramEvidence
  /\ PlaceEvidence
  /\ OpensOnEvidence
  /\ ClosesOnRequest
  /\ DataBetweenOpenPeers

-----------------------------------------------------------------------------
\* What the abstract tunnel sees of a peer.
Phase == [p \in Peers |-> IF pc[p] = "done" THEN "over"
                          ELSE IF connected[p] THEN "open" ELSE "before"]

T == INSTANCE Tunnel WITH phase <- Phase, written <- reads, delivered <- got

(***************************************************************************)
(* A session implements the abstract tunnel that the QUIC backend does     *)
(* too: what a peer is handed, after its own CONNECTED callback and before *)
(* the end of its deinit, its peer has read from TCP, whatever is repeated *)
(* or resent (chownat.c:389-432, 474-511).  This is about sessions shorter *)
(* than a lap of the ids; ChownatOrdered shows what longer ones may do.    *)
(***************************************************************************)
TunnelSpec == T!Spec

-----------------------------------------------------------------------------
\* The local reader of p never takes what tcp_send is waiting to hand over.
Stuck(p) == <>[](pc[p] = "deliver")

(***************************************************************************)
(* No process outlives its peer for ever: by "02", by the handshake's      *)
(* attempts or by missed keep-alives it ends too (chownat.c:162, 195, 211, *)
(* 281, 350; udp_conn.c:304-306).  Two waits have no timeout and are       *)
(* excepted: the client's accept, and send() in tcp_send once the local    *)
(* reader is stuck for good (udp_conn.c:114).                              *)
(***************************************************************************)
PeersEndTogether ==
  \A p \in Peers :
    \/ Stuck(Other(p))
    \/ pc[p] = "done" ~> \/ pc[Other(p)] = "done"
                         \/ Other(p) = "c" /\ pc["c"] = "bind"

\* What a process that has lost its peer can still do, the most important
\* first: meet a repetition, read, receive, go on to another place, try again.
Place(p) ==
  CASE pc[p] = "done" -> 0
    [] pc[p] \in {"dsend", "drecv"} -> 1
    [] pc[p] = "loop" -> 2
    [] pc[p] = "deliver" -> 3
    [] pc[p] = "hp" \/ (pc[p] = "bind" /\ p = "s") -> 4
    [] OTHER -> 5

OuterAttempts(p) ==
  CASE pc[p] = "ack" -> 2 * (MaxAttempts - outer) + 1
    [] pc[p] = "wait" -> 2 * (MaxAttempts - attempts[p])
    [] OTHER -> 0

Patience(p) ==
  IF pc[p] = "loop" THEN KaMiss - threshold[p] ELSE MaxAttempts - attempts[p]

Left(p) == << MaxDup - dups, MaxReads - reads[p], Cardinality(net[p]),
              Place(p), OuterAttempts(p), Patience(p) >>

\* v comes before w in the order of dictionaries.
Below(v, w) ==
  \E i \in 1 .. 6 : v[i] < w[i] /\ \A h \in 1 .. i - 1 : v[h] = w[h]

(***************************************************************************)
(* Once its peer is gone a process goes downhill: the attempts that start  *)
(* again in another loop, the counts that a message resets and the         *)
(* messages that no loop counts never lead back to where it has been       *)
(* (chownat.c:162-234, 281-301, 350-373; udp_conn.c:288-306).              *)
(***************************************************************************)
AloneRunsDown ==
  [][ \A p \in Peers : pc[Other(p)] = "done" => Below(Left(p)', Left(p)) ]_vars

(***************************************************************************)
(* hole_punching returns, although the server's loops do not count the     *)
(* messages they drop (chownat.c:195-234).                                 *)
(***************************************************************************)
HolePunchingEnds ==
  \A p \in Peers :
    pc[p] \in {"hp", "wait", "ack"} ~> pc[p] \notin {"hp", "wait", "ack"}

=============================================================================
