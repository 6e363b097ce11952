---------------------------- MODULE QuicSession ----------------------------
(***************************************************************************)
(* A QUIC session between a client "c" and a server "s", as udp_connection *)
(* drives ossl_quic.c in the two processes: from the end of init to the    *)
(* end of deinit.  The QUIC connection itself is OpenSSL's and appears     *)
(* here by what its calls may return.                                      *)
(*                                                                         *)
(* pc says which part of the code a process is in:                         *)
(*   "hp", "bind"  hole_punching, tcp_bind                                 *)
(*   "connect"     SSL_connect (client), SSL_accept_connection (server)    *)
(*   "callback"    the application's CONNECTED or RECV_DATA callback       *)
(*   "loop"        the top of udp_connection's loop, process_events        *)
(*   "drain"       the loop over pending_data                              *)
(*   "select", "recv"  select, and udp_recv of a readable UDP socket       *)
(*   "deliver"     tcp_send, which blocks while the local reader does      *)
(*   "shutdown"    finish_shutdown, called by disconnect                   *)
(*   "returned"    between udp_connection and deinit                       *)
(*   "done"        after deinit, or killed                                 *)
(***************************************************************************)
EXTENDS Integers

CONSTANTS ClientWrites, ServerWrites  \* bounds: chunks a peer writes

ASSUME WritesAssumption == ClientWrites \in Nat /\ ServerWrites \in Nat

Peers == {"c", "s"}
Other(p) == IF p = "c" THEN "s" ELSE "c"
MaxWrites(p) == IF p = "c" THEN ClientWrites ELSE ServerWrites

VARIABLES
  pc,
  at,        \* what called the callback or tcp_send p is in, or "none"
  caller,    \* what called the disconnect p is in, or "none"
  closed,    \* data->closed
  status,    \* data->close_status
  final,     \* what deinit returned
  ssl,       \* data->conn, see below
  session,   \* has a handshake completed?
  bye,       \* has the peer's OpenSSL sent its CONNECTION_CLOSE?
  written, arrived, delivered,  \* chunks p has written, chunks for p
  connected, discs, early       \* history, see below

(***************************************************************************)
(* ssl[p] is "none" (NULL), "new" (never connected), "up", "closing"       *)
(* (SSL_shutdown has been called), "normal" or "error": it has ended, with *)
(* the error code zero or another.                                         *)
(*                                                                         *)
(* History: connected[p], the CONNECTED callback has run; discs[p], how    *)
(* often DISCONNECTED has; early[p], how often the CONNECTED callback has  *)
(* itself disconnected.                                                    *)
(***************************************************************************)
dataVars == <<written, arrived, delivered>>
tlsVars == <<ssl, session, bye>>
closeVars == <<closed, status, final, discs>>

vars == <<pc, at, caller, connected, early, dataVars, tlsVars, closeVars>>

Init ==
  /\ pc = [p \in Peers |-> IF p = "c" THEN "bind" ELSE "hp"]
  /\ at = [p \in Peers |-> "none"]
  /\ caller = [p \in Peers |-> "none"]
  /\ closed = [p \in Peers |-> FALSE]
  /\ status = [p \in Peers |-> "ok"]
  /\ final = [p \in Peers |-> "none"]
  /\ ssl = [p \in Peers |-> "none"]
  /\ session = FALSE
  /\ bye = [p \in Peers |-> FALSE]
  /\ written = [p \in Peers |-> 0]
  /\ arrived = [p \in Peers |-> 0]
  /\ delivered = [p \in Peers |-> 0]
  /\ connected = [p \in Peers |-> FALSE]
  /\ discs = [p \in Peers |-> 0]
  /\ early = [p \in Peers |-> 0]

-----------------------------------------------------------------------------
Ended(p) == ssl[p] \in {"normal", "error"}
Alive(p) == ssl[p] \in {"up", "closing"}
Pending(p) == delivered[p] < arrived[p]

Goto(p, place) == pc' = [pc EXCEPT ![p] = place]

\* The callback and tcp_send are over.
Back(p) == at' = [at EXCEPT ![p] = "none"]

\* disconnect, called while closed is false and data->conn is set.
Disconnect(p, by) ==
  /\ Goto(p, "shutdown")
  /\ caller' = [caller EXCEPT ![p] = by]
  /\ ssl' = [ssl EXCEPT ![p] = IF @ = "up" THEN "closing" ELSE @]
  /\ UNCHANGED <<connected, session, bye, dataVars, closed, final, discs>>

-----------------------------------------------------------------------------
(***************************************************************************)
(* Connecting.  The client binds first, the server last.                   *)
(***************************************************************************)
SetUp(p) ==
  /\ \/ pc[p] = "bind" /\ Goto(p, IF p = "c" THEN "hp" ELSE "connect")
     \/ pc[p] = "hp" /\ Goto(p, IF p = "c" THEN "connect" ELSE "bind")
  /\ UNCHANGED <<at, caller, connected, early, dataVars, tlsVars, closeVars>>

\* A server that cannot connect to its local daemon exits: see Kill.
SetUpFails(p) ==
  /\ pc[p] = "hp" \/ (p = "c" /\ pc[p] = "bind")
  /\ Goto(p, "returned")
  /\ UNCHANGED <<at, caller, connected, early, dataVars, tlsVars, closeVars>>

\* connect goes on to its callback with a connection in state st.
Connected(p, st) ==
  /\ pc[p] = "connect"
  /\ Goto(p, "callback")
  /\ at' = [at EXCEPT ![p] = "connect"]
  /\ ssl' = [ssl EXCEPT ![p] = st]
  /\ connected' = [connected EXCEPT ![p] = TRUE]
  /\ UNCHANGED <<caller, early, bye, dataVars, closeVars>>

ClientConnects == pc["s"] = "connect" /\ Connected("c", "up") /\ session' = TRUE

\* SSL_connect returns a negative value, after a handshake that failed or on
\* a connection pre_connect did not finish: taken for success.
ClientMisconnects ==
  /\ \E st \in {"new", "error"} : Connected("c", st)
  /\ UNCHANGED session

ServerAccepts == session /\ Connected("s", "up") /\ UNCHANGED session

\* SSL_connect returns 0, SSL_accept_connection NULL, or the non-blocking mode
\* cannot be set.
ConnectFails(p) ==
  /\ pc[p] = "connect"
  /\ \E st \in {"none", "new", "error"} :
       /\ p = "s" => st = "none"
       /\ ssl' = [ssl EXCEPT ![p] = st]
  /\ Goto(p, "returned")
  /\ UNCHANGED <<at, caller, connected, early, session, bye, dataVars, closeVars>>

-----------------------------------------------------------------------------
(***************************************************************************)
(* The application's callbacks.                                            *)
(***************************************************************************)
\* udp_send, as far as SSL_write_ex takes the chunk.
Write(p) ==
  /\ ~closed[p] /\ ssl[p] = "up" /\ written[p] < MaxWrites(p)
  /\ written' = [written EXCEPT ![p] = @ + 1]
  /\ UNCHANGED <<arrived, delivered>>

CallbackWrites(p) ==
  /\ pc[p] = "callback"
  /\ Write(p)
  /\ UNCHANGED <<pc, at, caller, connected, early, tlsVars, closeVars>>

CallbackDisconnects(p) ==
  /\ pc[p] = "callback" /\ ~closed[p]
  /\ Disconnect(p, "callback")
  /\ UNCHANGED at
  /\ early' = IF at[p] = "connect" THEN [early EXCEPT ![p] = 1] ELSE early
  /\ UNCHANGED status

\* connect returns; it resets closed whatever its callback has done.
ConnectReturns(p) ==
  /\ pc[p] = "callback" /\ at[p] = "connect"
  /\ closed' = [closed EXCEPT ![p] = FALSE]
  /\ Goto(p, "loop")
  /\ Back(p)
  /\ UNCHANGED <<caller, connected, early, dataVars, tlsVars, status,
                 final, discs>>

\* Faulty: the loop goes on after the callback has disconnected.
RecvReturnsOpen(p) ==
  /\ pc[p] = "callback" /\ at[p] # "connect"
  /\ Goto(p, "deliver")
  /\ UNCHANGED <<at, caller, connected, early, dataVars, tlsVars, closeVars>>

\* udp_recv returns, to tcp_send unless the callback has disconnected.
RecvReturns(p) ==
  /\ pc[p] = "callback" /\ at[p] # "connect"
  /\ \/ closed[p] /\ Goto(p, "returned") /\ Back(p)
     \/ ~closed[p] /\ Goto(p, "deliver") /\ UNCHANGED at
  /\ UNCHANGED <<caller, connected, early, dataVars, tlsVars, closeVars>>

-----------------------------------------------------------------------------
(***************************************************************************)
(* The loop.                                                               *)
(***************************************************************************)
\* record_close_status: the first error is kept.
Recorded(p) ==
  IF ssl[p] = "error" THEN [status EXCEPT ![p] = "err"] ELSE status

\* Faulty: an orderly close is recorded and otherwise ignored.
EventsEndOnError(p) ==
  /\ pc[p] = "loop" /\ Ended(p)
  /\ status' = Recorded(p)
  /\ \/ /\ ssl[p] = "error"
        /\ Disconnect(p, "events")
        /\ UNCHANGED <<at, early>>
     \/ /\ ssl[p] = "normal"
        /\ Goto(p, "drain")
        /\ UNCHANGED <<at, caller, connected, early, dataVars, tlsVars, closed,
                       final, discs>>

\* process_events finds the connection ended: no data is drained any more.
EventsEnd(p) ==
  /\ pc[p] = "loop" /\ Ended(p)
  /\ status' = Recorded(p)
  /\ Disconnect(p, "events")
  /\ UNCHANGED <<at, early>>

EventsPass(p) ==
  /\ pc[p] = "loop" /\ ~Ended(p)
  /\ Goto(p, "drain")
  /\ UNCHANGED <<at, caller, connected, early, dataVars, tlsVars, closeVars>>

\* SSL_handle_events, get_timeout, select or the clock fails.
LoopFails(p) ==
  /\ pc[p] \in {"loop", "drain", "select"}
  /\ Goto(p, "returned")
  /\ UNCHANGED <<at, caller, connected, early, dataVars, tlsVars, closeVars>>

\* udp_recv reads a chunk, in the loop over pending_data or after select.
ReadChunk(p) ==
  /\ pc[p] \in {"drain", "recv"}
  /\ Pending(p)
  /\ delivered' = [delivered EXCEPT ![p] = @ + 1]
  /\ at' = [at EXCEPT ![p] = pc[p]]
  /\ Goto(p, "callback")
  /\ UNCHANGED <<caller, connected, early, written, arrived, tlsVars, closeVars>>

\* SSL_read_ex fails on a connection that has ended or never was one.
ReadFails(p) ==
  /\ pc[p] = "recv" \/ (pc[p] = "drain" /\ Pending(p))
  /\ ~Alive(p)
  /\ Disconnect(p, "loop")
  /\ UNCHANGED <<at, early, status>>

\* SSL_read_ex wants more.
ReadNothing(p) ==
  /\ pc[p] = "recv"
  /\ ~Pending(p)
  /\ Goto(p, "loop")
  /\ UNCHANGED <<at, caller, connected, early, dataVars, tlsVars, closeVars>>

\* Faulty: the loop waits although OpenSSL holds data.
DrainSkipped(p) ==
  /\ pc[p] = "drain"
  /\ Goto(p, "select")
  /\ UNCHANGED <<at, caller, connected, early, dataVars, tlsVars, closeVars>>

\* pending_data is 0.
Drained(p) ==
  /\ pc[p] = "drain"
  /\ ~Pending(p) \/ ~Alive(p)
  /\ Goto(p, "select")
  /\ UNCHANGED <<at, caller, connected, early, dataVars, tlsVars, closeVars>>

TcpTakes(p) ==
  /\ pc[p] = "deliver"
  /\ Goto(p, IF at[p] = "drain" THEN "drain" ELSE "loop")
  /\ Back(p)
  /\ UNCHANGED <<caller, connected, early, dataVars, tlsVars, closeVars>>

TcpFails(p) ==
  /\ pc[p] = "deliver"
  /\ Disconnect(p, "loop")
  /\ Back(p)
  /\ UNCHANGED <<early, status>>

\* TCP is readable and udp_send takes the input; UDP may be readable too.
Input(p) ==
  /\ pc[p] = "select"
  /\ Write(p)
  /\ \E place \in {"recv", "loop"} : Goto(p, place)
  /\ UNCHANGED <<at, caller, connected, early, tlsVars, closeVars>>

\* TCP ends or fails, or SSL_write_ex does not take the input at once.
InputFails(p) ==
  /\ pc[p] = "select"
  /\ Disconnect(p, "loop")
  /\ UNCHANGED <<at, early, status>>

\* UDP is readable, or a timeout: the keep-alive sends nothing.
Wakes(p) ==
  /\ pc[p] = "select"
  /\ \E place \in {"recv", "loop"} : Goto(p, place)
  /\ UNCHANGED <<at, caller, connected, early, dataVars, tlsVars, closeVars>>

-----------------------------------------------------------------------------
(***************************************************************************)
(* Disconnecting.                                                          *)
(***************************************************************************)
\* Faulty: SSL_shutdown has merely begun, and that is taken for success.
ShutdownSendsEarly(p) ==
  /\ pc[p] = "shutdown" /\ ssl[p] = "closing"
  /\ ssl' = [ssl EXCEPT ![p] = "normal"]
  /\ bye' = [bye EXCEPT ![Other(p)] = TRUE]
  /\ UNCHANGED <<pc, at, caller, connected, early, session, dataVars, closeVars>>

\* SSL_shutdown: once all that was written is acknowledged, the connection is
\* closed with the error code zero.
ShutdownSends(p) ==
  /\ pc[p] = "shutdown" /\ ssl[p] = "closing"
  /\ arrived[Other(p)] = written[p]
  /\ ssl' = [ssl EXCEPT ![p] = "normal"]
  /\ bye' = [bye EXCEPT ![Other(p)] = TRUE]
  /\ UNCHANGED <<pc, at, caller, connected, early, session, dataVars, closeVars>>

\* What the caller of disconnect does next; deinit returns the status st.
CallerGoesOn(p, st) ==
  /\ caller' = [caller EXCEPT ![p] = "none"]
  /\ \/ caller[p] = "callback" /\ Goto(p, "callback") /\ UNCHANGED final
     \/ caller[p] \in {"events", "loop"} /\ Goto(p, "returned") /\ UNCHANGED final
     \/ /\ caller[p] = "deinit"
        /\ Goto(p, "done")
        /\ final' = [final EXCEPT ![p] = st]

\* Faulty: closed is set by a shutdown without error only.
FinishDisconnectIfOk(p, st) ==
  /\ pc[p] = "shutdown"
  /\ status' = [status EXCEPT ![p] = st]
  /\ closed' = [closed EXCEPT ![p] = st = "ok"]
  /\ discs' = [discs EXCEPT ![p] = @ + 1]
  /\ CallerGoesOn(p, st)
  /\ UNCHANGED <<at, connected, early, dataVars, tlsVars>>

\* The rest of disconnect: closed for good, and reported, whatever the status.
FinishDisconnect(p, st) ==
  /\ pc[p] = "shutdown"
  /\ status' = [status EXCEPT ![p] = st]
  /\ closed' = [closed EXCEPT ![p] = TRUE]
  /\ discs' = [discs EXCEPT ![p] = @ + 1]
  /\ CallerGoesOn(p, st)
  /\ UNCHANGED <<at, connected, early, dataVars, tlsVars>>

\* SSL_shutdown returns 1: by this side's close, the peer's, or an error; or
\* there was never anything to close.
ShutdownCompletes(p) ==
  /\ ssl[p] \in {"normal", "error", "new"}
  /\ FinishDisconnect(p, Recorded(p)[p])

\* The five seconds are over, or a call fails.
ShutdownFails(p) == FinishDisconnect(p, "err")

\* deinit: a session that is not closed is disconnected now.
Deinit(p) ==
  /\ pc[p] = "returned"
  /\ closed[p]
  /\ Goto(p, "done")
  /\ final' = [final EXCEPT ![p] = status[p]]
  /\ UNCHANGED <<at, caller, connected, early, dataVars, tlsVars, closed,
                 status, discs>>

DeinitDisconnects(p) ==
  /\ pc[p] = "returned"
  /\ ~closed[p] /\ ssl[p] # "none"
  /\ Disconnect(p, "deinit")
  /\ UNCHANGED <<at, early, status>>

\* The same without a connection: an error, but reported all the same.
DeinitUnconnected(p) ==
  /\ pc[p] = "returned"
  /\ ~closed[p] /\ ssl[p] = "none"
  /\ Goto(p, "done")
  /\ closed' = [closed EXCEPT ![p] = TRUE]
  /\ status' = [status EXCEPT ![p] = "err"]
  /\ final' = [final EXCEPT ![p] = "err"]
  /\ discs' = [discs EXCEPT ![p] = @ + 1]
  /\ UNCHANGED <<at, caller, connected, early, dataVars, tlsVars>>

\* exit(errno) in the server's tcp_bind, or the process is killed.
Kill(p) ==
  /\ pc[p] # "done"
  /\ Goto(p, "done")
  /\ Back(p)
  /\ caller' = [caller EXCEPT ![p] = "none"]
  /\ UNCHANGED <<connected, early, dataVars, tlsVars, closeVars>>

-----------------------------------------------------------------------------
(***************************************************************************)
(* The connection, as p's OpenSSL sees it in the calls that handle events: *)
(* SSL_handle_events, an SSL_read_ex that finds nothing, SSL_shutdown, and *)
(* the end of an SSL_read_ex that has found something.                     *)
(***************************************************************************)
\* One call cannot see both a chunk and the close that its acknowledgement has
\* allowed: what SSL_handle_events brings arrives in "drain".
DataArrives(p) ==
  /\ pc[p] \in {"drain", "recv", "shutdown"} /\ Alive(p)
  /\ arrived[p] < written[Other(p)]
  /\ arrived' = [arrived EXCEPT ![p] = @ + 1]
  /\ UNCHANGED <<pc, at, caller, connected, early, written, delivered,
                 tlsVars, closeVars>>

End(p, how) ==
  /\ \/ pc[p] \in {"loop", "shutdown"}
     \/ pc[p] = "recv" /\ ~Pending(p)
     \/ pc[p] = "callback" /\ at[p] # "connect"
  /\ Alive(p)
  /\ ssl' = [ssl EXCEPT ![p] = how]
  /\ UNCHANGED <<pc, at, caller, connected, early, session, bye, dataVars,
                 closeVars>>

ByeArrives(p) == bye[p] /\ End(p, "normal")

\* The idle timeout, or an error of the protocol or of the path.
ConnectionLost(p) == End(p, "error")

-----------------------------------------------------------------------------
\* What p does as soon as it can: it neither waits for the application nor for
\* the other peer, but in select, which times out.
Advance(p) ==
  \/ ConnectReturns(p) \/ RecvReturns(p) \/ EventsEnd(p) \/ EventsPass(p)
  \/ ReadChunk(p) \/ ReadFails(p) \/ ReadNothing(p) \/ Drained(p) \/ Wakes(p)
  \/ ShutdownSends(p) \/ ShutdownCompletes(p) \/ ShutdownFails(p)

Step(p) ==
  \/ Advance(p)
  \/ SetUp(p) \/ SetUpFails(p) \/ ConnectFails(p)
  \/ CallbackWrites(p) \/ CallbackDisconnects(p)
  \/ LoopFails(p) \/ TcpTakes(p) \/ TcpFails(p) \/ Input(p) \/ InputFails(p)
  \/ Deinit(p) \/ DeinitDisconnects(p) \/ DeinitUnconnected(p) \/ Kill(p)
  \/ DataArrives(p) \/ ByeArrives(p) \/ ConnectionLost(p)

Next ==
  \/ ClientConnects \/ ClientMisconnects \/ ServerAccepts
  \/ \E p \in Peers : Step(p)

Spec == Init /\ [][Next]_vars

(***************************************************************************)
(* Fairness.  A process goes on when nothing holds it up, and OpenSSL      *)
(* gives up on a peer that is gone.  Nothing is assumed of the path, of    *)
(* the application, of hole punching, nor of the local reader tcp_send     *)
(* waits for.                                                              *)
(***************************************************************************)
LosesGonePeer(p) == pc[Other(p)] = "done" /\ ConnectionLost(p)

FairSpec ==
  /\ Spec
  /\ \A p \in Peers : WF_vars(Advance(p)) /\ SF_vars(LosesGonePeer(p))

-----------------------------------------------------------------------------
TypeOK ==
  /\ pc \in [Peers -> {"hp", "bind", "connect", "callback", "loop", "drain",
                       "select", "recv", "deliver", "shutdown", "returned", "done"}]
  /\ at \in [Peers -> {"none", "connect", "drain", "recv"}]
  /\ caller \in [Peers -> {"none", "callback", "events", "loop", "deinit"}]
  /\ closed \in [Peers -> BOOLEAN]
  /\ status \in [Peers -> {"ok", "err"}]
  /\ final \in [Peers -> {"none", "ok", "err"}]
  /\ ssl \in [Peers -> {"none", "new", "up", "closing", "normal", "error"}]
  /\ session \in BOOLEAN
  /\ bye \in [Peers -> BOOLEAN]
  /\ written \in [Peers -> Nat]
  /\ arrived \in [Peers -> Nat]
  /\ delivered \in [Peers -> Nat]
  /\ connected \in [Peers -> BOOLEAN]
  /\ discs \in [Peers -> 0 .. 2]
  /\ early \in [Peers -> 0 .. 1]

(***************************************************************************)
(* deinit returns OK only if all that was written has arrived, or the peer *)
(* closed first and in good order.  An error of the connection, of a       *)
(* handshake SSL_connect reported with a negative value, or of a shutdown  *)
(* that ran out of time is never lost on the way, whoever disconnects and  *)
(* however often (ossl_quic.c:637, 705-710, 738-761, 814-822, 264).  It is *)
(* no proof that there ever was a connection: an SSL object that was       *)
(* never connected can be closed in good order (ossl_quic.c:633-637).      *)
(***************************************************************************)
OkMeansOrderly ==
  \A p \in Peers :
    final[p] = "ok" =>
      /\ ssl[p] # "error"
      /\ arrived[Other(p)] = written[p] \/ bye[p]

(***************************************************************************)
(* DISCONNECTED is called once for a session, by deinit at the latest,     *)
(* whether or not it ever connected and whether or not the shutdown failed;*)
(* and once more when the CONNECTED callback disconnects, because connect  *)
(* forgets that it did (ossl_quic.c:671, 238, 811-821).                    *)
(***************************************************************************)
DisconnectReports ==
  \A p \in Peers :
    /\ discs[p] <= 1 + early[p]
    /\ final[p] # "none" => discs[p] = 1 + early[p]

\* Why: chunks are written, arrive and are delivered in that order.
ChunksFlow ==
  \A p \in Peers : delivered[p] <= arrived[p] /\ arrived[p] <= written[Other(p)]

\* Why: an end without error has a reason, and a session that was closed with
\* the status OK has ended so or has never been one.
EndIsExplained ==
  \A p \in Peers :
    /\ ssl[p] = "normal" => arrived[Other(p)] = written[p] \/ bye[p]
    /\ ssl[p] \in {"none", "new"} => written[p] = 0
    /\ closed[p] /\ status[p] = "ok" => ssl[p] \in {"normal", "new"}
    /\ final[p] # "none" =>
         pc[p] = "done" /\ closed[p] /\ final[p] = status[p] /\ discs[p] = 1 + early[p]

\* Why: where a process is tells whether it has connected and is closed.
PlaceEvidence ==
  \A p \in Peers :
    /\ pc[p] \in {"hp", "bind", "connect"} =>
         ~connected[p] /\ ~closed[p] /\ ssl[p] = "none" /\ early[p] = 0
    /\ pc[p] \in {"loop", "drain", "select", "recv", "deliver", "callback"} => connected[p]
    /\ pc[p] = "shutdown" /\ caller[p] = "callback" => connected[p]
    /\ pc[p] = "deliver" => at[p] # "connect"
    /\ pc[p] \in {"loop", "drain", "select", "recv", "deliver", "shutdown"} => ~closed[p]
    /\ at[p] # "none" => \/ pc[p] \in {"callback", "deliver"}
                         \/ pc[p] = "shutdown" /\ caller[p] = "callback"

\* Why: each closing was reported, and the one connect undoes is the early one.
ReportsCounted ==
  \A p \in Peers :
    /\ discs[p] <= 1 + early[p]
    /\ pc[p] # "done" => discs[p] = (IF at[p] = "connect" THEN 0 ELSE early[p])
                                    + (IF closed[p] THEN 1 ELSE 0)
    /\ pc[p] = "callback" /\ at[p] = "connect" => (closed[p] <=> early[p] = 1)
    /\ pc[p] = "shutdown" /\ at[p] = "connect" => early[p] = 1

\* The inductive invariant.
IInv ==
  /\ TypeOK
  /\ ChunksFlow
  /\ EndIsExplained
  /\ PlaceEvidence
  /\ ReportsCounted

\* What the abstract tunnel sees of a peer.
Phase == [p \in Peers |-> IF discs[p] > early[p] THEN "over"
                          ELSE IF connected[p] THEN "open" ELSE "before"]

T == INSTANCE Tunnel WITH phase <- Phase

(***************************************************************************)
(* The session implements the abstract tunnel: it is over with the         *)
(* DISCONNECTED that follows connect, and nothing is written or handed out *)
(* after that, by whichever of the loop, its callbacks and deinit it came. *)
(***************************************************************************)
TunnelSpec == T!Spec

Over(p) == pc[p] \in {"returned", "done"}
Stuck(p) == <>[](pc[p] = "deliver")

(***************************************************************************)
(* When one process is gone, in good order or not, the other one's         *)
(* udp_connection returns, unless its own local reader holds it up         *)
(* (udp_conn.c:168-175, 114; ossl_quic.c:886-896).                         *)
(***************************************************************************)
EndReachesPeer ==
  \A p \in Peers :
    Stuck(p) \/ ((pc[Other(p)] = "done" /\ Alive(p)) ~> Over(p))

\* How far p is from the end of deinit, not counting what it has yet to read.
Place(p) ==
  CASE pc[p] = "done" -> 0
    [] pc[p] = "shutdown" /\ caller[p] = "deinit" -> 1
    [] pc[p] = "returned" -> 2
    [] pc[p] = "shutdown" /\ caller[p] \in {"events", "loop"} -> 3
    [] pc[p] = "loop" -> 4
    [] pc[p] = "recv" -> 5
    [] pc[p] = "select" -> 6
    [] pc[p] = "drain" -> 7
    [] pc[p] = "deliver" -> 8
    [] pc[p] = "callback" /\ closed[p] -> 9
    [] pc[p] = "shutdown" /\ caller[p] = "callback" -> 10
    [] OTHER -> 11

Left(p) == arrived[p] - delivered[p]

\* p has not moved, or has one chunk less to read, or is nearer to the end.
RunsDown(p) ==
  /\ UNCHANGED written[p]
  /\ \/ UNCHANGED <<pc[p], caller[p], closed[p], arrived[p], delivered[p]>>
     \/ Left(p)' < Left(p)
     \/ Left(p)' = Left(p) /\ Place(p)' < Place(p)

(***************************************************************************)
(* A connection that has ended stays so, and each step that p, or its      *)
(* application, then takes comes closer to the end of deinit: the loop     *)
(* cannot go round again but for a chunk it still reads, neither a         *)
(* callback that disconnects nor the reset of closed by connect brings it  *)
(* back, and nothing is written or arrives any more (ossl_quic.c:886-896,  *)
(* 671; udp_conn.c:168-204).                                               *)
(***************************************************************************)
EndRunsDown == [][\A p \in Peers : Ended(p) => Ended(p)' /\ RunsDown(p)]_vars

(***************************************************************************)
(* What OpenSSL holds for p is handed out although the socket is not       *)
(* readable any more and nothing else arrives, while the connection lasts  *)
(* (udp_conn.c:177-204).                                                   *)
(***************************************************************************)
ArrivedIsDelivered ==
  \A p \in Peers :
    Stuck(p) \/ \A n \in 1 .. MaxWrites(Other(p)) :
      arrived[p] = n ~> (delivered[p] >= n \/ ~Alive(p) \/ Over(p) \/ closed[p])

-----------------------------------------------------------------------------
(***************************************************************************)
(* A claim of the sources that the code does not keep.                     *)
(***************************************************************************)
\* sim/patchbay/src/patchbay.rs:65, the payload received is the one sent: when
\* process_events ends a session because the peer, all of whose chunks have been
\* acknowledged, has closed it, they have all been handed out.
WholeStream ==
  \A p \in Peers :
    caller[p] = "events" /\ ssl[p] = "normal" /\ bye[p] /\ early[p] = 0
      => delivered[p] = written[Other(p)]
=============================================================================
