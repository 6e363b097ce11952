------------------------ MODULE ChownatTunnelProofs ------------------------
(***************************************************************************)
(* A chownat session that carries fewer chunks than there are ids          *)
(* implements the abstract tunnel, for every number of attempts, misses    *)
(* and repeated datagrams.                                                 *)
(***************************************************************************)
EXTENDS ChownatProofs

Opening == {"bind", "hp", "wait", "ack"}

\* The ids count the chunks, nothing is under way that was not read, and a peer
\* that is still opening has not opened.
LapInv ==
  /\ \A p \in Peers : pc[p] # "done" => id[p] = reads[p] /\ expected[p] = got[p]
  /\ \A p \in Peers : got[p] <= reads[Other(p)]
  /\ \A p \in Peers : \A m \in net[p] : m.t = "09" => m.seq < reads[Other(p)]
  /\ \A p \in Peers : pc[p] \in Opening => ~connected[p]

\* No data is sent.
NoData == \A q \in Peers : \A m \in net'[q] : m.t = "09" => m \in net[q]

\* The places of all but p, and whether they have opened.
OthersStay(p) ==
  \A q \in Peers : q # p => pc'[q] = pc[q] /\ connected'[q] = connected[q]

\* Datagrams of other kinds are no data.
LEMMA MovesNoData ==
  ASSUME NEW p \in Peers, NEW out, Moves(p, out), \A m \in out : m.t # "09"
  PROVE  NoData
BY OtherPeer DEF Moves, NoData

LEMMA SendsNoData ==
  ASSUME TypeOK, NEW p \in Peers, NEW out,
         \/ out = {}
         \/ \E t \in {"01", "02", "03", "ka"} : out = {Ctl(t)}
         \/ out = {Ctl("ka"), Ctl("02")}
         \/ \E i \in Ids : out = {Numbered("08", i)},
         Send(p, out) \/ \E m : Recv(p, m, out)
  PROVE  NoData
<1>1. out \in SUBSET Msgs
  BY ControlMsgs, NumberedMsgs
<1>2. \A m \in out : m.t # "09"
  BY DEF Ctl, Numbered
<1>3. Moves(p, out)
  BY <1>1, SendMoves, RecvMoves
<1> QED
  BY <1>2, <1>3, MovesNoData

-----------------------------------------------------------------------------
(***************************************************************************)
(* The steps of a peer, by what the tunnel sees of them.                   *)
(***************************************************************************)
\* p goes on, or is disconnecting.
Invisible(p) ==
  /\ UNCHANGED <<dataVars, connected>>
  /\ NoData
  /\ \A q \in Peers : q # p => pc'[q] = pc[q]
  /\ pc[p] # "done" /\ pc'[p] # "done"
  /\ pc'[p] \in Opening => pc[p] \in Opening

\* p opens.
Opens(p) ==
  /\ UNCHANGED dataVars
  /\ NoData
  /\ pc[p] \in Opening
  /\ pc' = [pc EXCEPT ![p] = "loop"]
  /\ connected' = [connected EXCEPT ![p] = TRUE]

\* p is done.
Ends(p) ==
  /\ UNCHANGED <<got, reads, connected>>
  /\ \A q \in Peers : q # p => id'[q] = id[q] /\ expected'[q] = expected[q]
  /\ NoData
  /\ pc[p] # "done" /\ pc' = [pc EXCEPT ![p] = "done"]

LEMMA ConnectingIsSeen ==
  ASSUME TypeOK, Connecting
  PROVE  \/ \E p \in Peers : Invisible(p)
         \/ \E p \in Peers : Opens(p)
<1>1. "c" \in Peers /\ "s" \in Peers
  BY DEF Peers
<1>2. ASSUME \/ ClientAccept \/ ClientBindFails
             \/ \E m \in net["c"] \cup {NoMsg} : ClientRetries(m) \/ ClientGivesUp(m)
      PROVE  Invisible("c")
  <2>1. NoData
    BY <1>1, <1>2, SendsNoData
       DEF ClientAccept, ClientBindFails, ClientRetries, ClientGivesUp
  <2> QED
    BY <1>1, <1>2, <2>1
       DEF ClientAccept, ClientBindFails, ClientRetries, ClientGivesUp, Invisible,
           Disconnect, Enter, Again, TypeOK, Opening, dataVars
<1>3. ASSUME \/ ServerAnswers \/ ServerWaits \/ ServerGivesUp
             \/ ServerOpens \/ ServerRetries \/ ServerWaitsAgain
             \/ \E m \in net["s"] : ServerIgnores(m) \/ ServerRepeats(m)
      PROVE  Invisible("s")
  <2>1. NoData
    <3>1. CASE ServerWaitsAgain
      BY <3>1 DEF ServerWaitsAgain, NoData
    <3> QED
      BY <1>1, <1>3, <3>1, SendsNoData
         DEF ServerAnswers, ServerWaits, ServerGivesUp, ServerOpens, ServerRetries,
             ServerIgnores, ServerRepeats
  <2> QED
    BY <1>1, <1>3, <2>1
       DEF ServerAnswers, ServerWaits, ServerGivesUp, ServerOpens, ServerRetries,
           ServerWaitsAgain, ServerIgnores, ServerRepeats, Invisible,
           Disconnect, Enter, Again, TypeOK, Opening, dataVars
<1>4. ASSUME ClientOpens PROVE Opens("c")
  <2>1. NoData
    BY <1>1, <1>4, SendsNoData DEF ClientOpens
  <2> QED
    BY <1>4, <2>1 DEF ClientOpens, Opens, Enter, Opening
<1>5. ASSUME ServerConnects PROVE Opens("s")
  BY <1>5 DEF ServerConnects, Opens, Enter, Opening, NoData
<1> QED
  BY <1>1, <1>2, <1>3, <1>4, <1>5 DEF Connecting

\* p reads a chunk and sends it.
Reads(p) ==
  /\ ReadTcp(p)
  /\ UNCHANGED <<got, expected, pc, connected>>

\* p hands out the chunk of m.
HandsOut(p, m) ==
  /\ Accept(p, m)
  /\ m \in net[p]
  /\ NoData
  /\ UNCHANGED <<id, reads, connected>>
  /\ \A q \in Peers : q # p => pc'[q] = pc[q]
  /\ pc'[p] = "deliver"

\* p answers a NACK: what is under way was read.
Resends(p) ==
  /\ UNCHANGED <<dataVars, connected, pc>>
  /\ pc[p] # "done"
  /\ \A q \in Peers : \A m \in net'[q] :
       m.t = "09" => m \in net[q] \/ (q = Other(p) /\ m.seq < id[p])

\* What any step is to the tunnel.
Seen(p) ==
  \/ Invisible(p) \/ Opens(p) \/ Ends(p) \/ Reads(p) \/ Resends(p)
  \/ \E m \in net[p] : HandsOut(p, m)

LEMMA LoopIsSeen ==
  ASSUME IInv, NEW p \in Peers, Loop(p)
  PROVE  Seen(p)
<1>0. TypeOK
  BY DEF IInv
<1>1. ASSUME \/ EndTcp(p) \/ TcpTakes(p) \/ KeepAlive(p) \/ KeepAliveMissed(p)
             \/ \E m \in net[p] : RecvOther(p, m) \/ RecvDisconnect(p, m)
      PROVE  Invisible(p)
  <2>1. NoData
    <3>1. CASE TcpTakes(p)
      BY <3>1 DEF TcpTakes, NoData
    <3> QED
      BY <1>0, <1>1, <3>1, SendsNoData
         DEF EndTcp, KeepAlive, KeepAliveMissed, RecvOther, RecvDisconnect
  <2> QED
    BY <1>0, <1>1, <2>1
       DEF EndTcp, Served, TcpTakes, KeepAlive, KeepAliveMissed, RecvOther, RecvDisconnect, Invisible,
           Disconnect, Enter, TypeOK, Opening, dataVars
<1>2. ASSUME NEW m \in net[p], RecvUnexpected(p, m) PROVE Invisible(p)
  <2>1. expected[p] \in Ids
    BY <1>0 DEF TypeOK
  <2>2. NoData
    BY <1>0, <1>2, <2>1, SendsNoData DEF RecvUnexpected
  <2> QED
    BY <1>2, <2>2 DEF RecvUnexpected, Invisible, Opening, dataVars
<1>3. ASSUME ReadTcp(p) PROVE Reads(p)
  BY <1>3 DEF ReadTcp, Reads
<1>4. ASSUME NEW m \in net[p], RecvExpected(p, m)
      PROVE  HandsOut(p, m)
  <2>1. NoData
    BY <1>0, <1>4, SendsNoData DEF RecvExpected
  <2> QED
    BY <1>0, <1>4, <2>1 DEF RecvExpected, HandsOut, Accept, TypeOK
<1>5. ASSUME NEW m \in net[p], RecvNack(p, m) PROVE Resends(p)
  <2> DEFINE out == {Numbered("09", i) : i \in ResentIds(m.seq, id[p])}
  <2>1. id[p] \in Ids /\ m.seq \in Ids
    BY <1>0 DEF TypeOK, Msgs
  <2>2. \A i \in ResentIds(m.seq, id[p]) : i \in Ids /\ i < id[p]
    BY <2>1, SeqSpaceAssumption DEF ResentIds, Ids
  <2>3. out \in SUBSET Msgs /\ \A n \in out : n.seq < id[p]
    <3>1. ASSUME NEW n \in out PROVE n \in Msgs /\ n.seq < id[p]
      <4>1. PICK i \in ResentIds(m.seq, id[p]) : n = Numbered("09", i)
        OBVIOUS
      <4>2. i \in Ids /\ i < id[p]
        BY <2>2
      <4>3. n \in Msgs
        BY <4>1, <4>2, NumberedMsgs
      <4>4. n.seq = i
        BY <4>1 DEF Numbered
      <4> QED
        BY <4>2, <4>3, <4>4
    <3> QED
      BY <3>1
  <2>4. Moves(p, out)
    BY <1>0, <1>5, <2>3, RecvMoves DEF RecvNack
  <2>5. \A q \in Peers : \A n \in net'[q] : n \in net[q] \/ (q = Other(p) /\ n \in out)
    BY <2>4, OtherPeer DEF Moves
  <2> QED
    BY <1>5, <2>3, <2>5 DEF RecvNack, Resends
<1>6. ASSUME RecvFails(p) PROVE Ends(p)
  BY <1>0, <1>6 DEF RecvFails, Ends, Enter, NoData, dataVars
<1> QED
  BY <1>1, <1>2, <1>3, <1>4, <1>5, <1>6 DEF Loop, Seen

LEMMA DisconnectingIsSeen ==
  ASSUME IInv, NEW p \in Peers, Disconnecting(p) \/ Exit(p)
  PROVE  Seen(p)
<1>0. TypeOK
  BY DEF IInv
<1>1. ASSUME \/ \E m \in net[p] \cup {NoMsg} : DisconnectRetries(p, m)
             \/ PeerRetries(p)
             \/ \E m \in net[p] : PeerRepeats(p, m)
      PROVE  Invisible(p)
  <2>1. NoData
    BY <1>0, <1>1, SendsNoData DEF DisconnectRetries, PeerRetries, PeerRepeats
  <2> QED
    BY <1>0, <1>1, <2>1
       DEF DisconnectRetries, PeerRetries, PeerRepeats, Invisible, Again, TypeOK,
           Opening, dataVars
<1>2. ASSUME \/ DisconnectConfirmed(p) \/ PeerConfirms(p) \/ PeerGivesUp(p)
             \/ \E m \in net[p] \cup {NoMsg} : DisconnectGivesUp(p, m)
      PROVE  Ends(p)
  <2>1. NoData
    <3>1. CASE PeerGivesUp(p)
      BY <3>1 DEF PeerGivesUp, NoData
    <3> QED
      BY <1>0, <1>2, <3>1, SendsNoData
         DEF DisconnectConfirmed, PeerConfirms, DisconnectGivesUp
  <2> QED
    BY <1>0, <1>2, <2>1
       DEF DisconnectConfirmed, PeerConfirms, PeerGivesUp, DisconnectGivesUp, Ends,
           Finish, Enter, TypeOK
<1>3. ASSUME Exit(p) PROVE Ends(p)
  BY <1>0, <1>3 DEF Exit, Ends, NoData, dataVars
<1> QED
  BY <1>1, <1>2, <1>3 DEF Disconnecting, Seen

LEMMA NextIsSeen ==
  ASSUME IInv, Next
  PROVE  \E p \in Peers : Seen(p)
BY ConnectingIsSeen, LoopIsSeen, DisconnectingIsSeen DEF Next, Seen, IInv

-----------------------------------------------------------------------------
(***************************************************************************)
(* The ids of a session without a lap count its chunks.                    *)
(***************************************************************************)
LEMMA InitLapInv == Init => LapInv
BY OtherPeer DEF Init, LapInv, Peers, Opening

\* Neither the sender nor the receiver gets as far as the last id.
LEMMA NoWrap ==
  ASSUME MaxReads < SeqSpace, TypeOK, LapInv, NEW p \in Peers
  PROVE  /\ reads[p] < MaxReads /\ id[p] = reads[p] => Inc(id[p]) = reads[p] + 1
         /\ \A m \in net[p] : m.t = "09" => Inc(m.seq) = m.seq + 1
<1>1. reads[p] \in Nat /\ reads[Other(p)] \in 0 .. MaxReads
  BY OtherPeer, ConfigAssumption DEF TypeOK
<1>2. \A m \in net[p] : m.seq \in Nat
  BY SeqSpaceAssumption DEF TypeOK, Msgs, Ids
<1> QED
  BY <1>1, <1>2, SeqSpaceAssumption, ConfigAssumption DEF LapInv, Inc

LEMMA SeenKeepsLapInv ==
  ASSUME MaxReads < SeqSpace, IInv, LapInv, NEW p \in Peers, Seen(p)
  PROVE  LapInv'
<1>0. TypeOK
  BY DEF IInv
<1>1. CASE Invisible(p) \/ Opens(p)
  BY <1>0, <1>1, OtherPeer DEF Invisible, Opens, LapInv, NoData, Opening, TypeOK, dataVars
<1>2. CASE Ends(p)
  BY <1>0, <1>2, OtherPeer DEF Ends, LapInv, NoData, Opening, TypeOK
<1>3. CASE Resends(p)
  <2>1. id[p] = reads[p]
    BY <1>3 DEF Resends, LapInv
  <2>2. \A q \in Peers : \A m \in net'[q] : m.t = "09" => m.seq < reads'[Other(q)]
    BY <1>3, <2>1, OtherPeer DEF Resends, LapInv, dataVars, Other, Peers
  <2> QED
    BY <1>3, <2>2 DEF Resends, LapInv, dataVars
<1>4. CASE Reads(p)
  <2>1. id[p] = reads[p] /\ reads[p] < MaxReads /\ reads[p] \in Nat
    BY <1>0, <1>4, ConfigAssumption DEF Reads, ReadTcp, Served, LapInv, TypeOK
  <2>2. /\ reads' = [reads EXCEPT ![p] = reads[p] + 1]
        /\ id' = [id EXCEPT ![p] = reads[p] + 1]
    BY <1>0, <1>4, <2>1, NoWrap DEF Reads, ReadTcp
  <2>3. \A q \in Peers : /\ reads'[q] \in Nat /\ reads[q] \in Nat /\ reads'[q] >= reads[q]
    BY <1>0, <2>1, <2>2, ConfigAssumption DEF TypeOK
  <2>4. reads'[p] = reads[p] + 1 /\ id'[p] = reads'[p]
        /\ \A q \in Peers : q # p => reads'[q] = reads[q] /\ id'[q] = id[q]
    BY <1>0, <2>2 DEF TypeOK
  <2>5. \A q \in Peers : \A m \in net'[q] : m.t = "09" => m.seq < reads'[Other(q)]
    <3>1. \A q \in Peers : \A m \in net'[q] :
            m \in net[q] \/ (q = Other(p) /\ m = Numbered("09", id[p]))
      BY <1>0, <1>4, OtherPeer DEF Reads, ReadTcp, Send, TypeOK
    <3>2. ASSUME NEW q \in Peers, NEW m \in net'[q], m.t = "09"
          PROVE  m.seq < reads'[Other(q)]
      <4>1. CASE m \in net[q]
        <5>1. m.seq < reads[Other(q)] /\ m.seq \in Nat
          BY <1>0, <3>2, <4>1, SeqSpaceAssumption DEF LapInv, TypeOK, Msgs, Ids
        <5> QED
          BY <2>3, <5>1, OtherPeer
      <4>2. CASE q = Other(p) /\ m = Numbered("09", id[p])
        <5>1. Other(q) = p /\ m.seq = reads[p]
          BY <2>1, <4>2 DEF Other, Peers, Numbered
        <5> QED
          BY <2>1, <2>4, <5>1
      <4> QED
        BY <3>1, <3>2, <4>1, <4>2
    <3> QED
      BY <3>2
  <2>6. \A q \in Peers : got'[q] <= reads'[Other(q)]
    <3>1. \A q \in Peers : got'[q] = got[q] /\ got[q] \in Nat
      BY <1>0, <1>4 DEF Reads, TypeOK
    <3> QED
      BY <2>3, <3>1, OtherPeer DEF LapInv
  <2>7. \A q \in Peers : pc'[q] # "done" => id'[q] = reads'[q] /\ expected'[q] = got'[q]
    BY <1>4, <2>4 DEF Reads, LapInv
  <2>8. \A q \in Peers : pc'[q] \in Opening => ~connected'[q]
    BY <1>4 DEF Reads, LapInv
  <2> QED
    BY <2>5, <2>6, <2>7, <2>8 DEF LapInv
<1>5. ASSUME NEW m \in net[p], HandsOut(p, m) PROVE LapInv'
  <2>1. /\ pc[p] = "loop" /\ m.t = "09" /\ m.seq = expected[p] /\ expected[p] = got[p]
        /\ got[p] < reads[Other(p)]
    BY <1>5 DEF HandsOut, Accept, LapInv
  <2>2. /\ got' = [got EXCEPT ![p] = got[p] + 1]
        /\ expected' = [expected EXCEPT ![p] = got[p] + 1]
    BY <1>0, <1>5, <2>1, NoWrap DEF HandsOut, Accept
  <2>3. /\ got'[p] = got[p] + 1 /\ expected'[p] = got'[p]
        /\ \A q \in Peers : q # p => got'[q] = got[q] /\ expected'[q] = expected[q]
    BY <1>0, <2>2 DEF TypeOK
  <2>4. \A q \in Peers : got'[q] <= reads'[Other(q)]
    <3>1. got[p] \in Nat /\ reads[Other(p)] \in Nat
      BY <1>0, OtherPeer, ConfigAssumption DEF TypeOK
    <3> QED
      BY <1>5, <2>1, <2>3, <3>1 DEF HandsOut, LapInv
  <2>5. \A q \in Peers : \A n \in net'[q] : n.t = "09" => n.seq < reads'[Other(q)]
    BY <1>5 DEF HandsOut, NoData, LapInv
  <2>6. \A q \in Peers : pc'[q] # "done" => id'[q] = reads'[q] /\ expected'[q] = got'[q]
    BY <1>5, <2>1, <2>3 DEF HandsOut, LapInv
  <2>7. \A q \in Peers : pc'[q] \in Opening => ~connected'[q]
    BY <1>5 DEF HandsOut, LapInv, Opening
  <2> QED
    BY <2>4, <2>5, <2>6, <2>7 DEF LapInv
<1> QED
  BY <1>1, <1>2, <1>3, <1>4, <1>5 DEF Seen

-----------------------------------------------------------------------------
(***************************************************************************)
(* The refinement.                                                         *)
(***************************************************************************)
LEMMA SamePeers == T!Peers = Peers /\ \A p : T!Other(p) = Other(p)
BY DEF T!Peers, Peers, T!Other, Other

LEMMA SeenRefines ==
  ASSUME IInv, LapInv, NEW p \in Peers, Seen(p)
  PROVE  T!Next \/ UNCHANGED T!vars
<1>0. TypeOK
  BY DEF IInv
<1>1. CASE Invisible(p) \/ Resends(p)
  <2>1. UNCHANGED <<reads, got>> /\ Phase' = Phase
    BY <1>1 DEF Invisible, Resends, dataVars, Phase
  <2> QED
    BY <2>1 DEF T!vars
<1>2. CASE Opens(p)
  <2>1. Phase[p] = "before" /\ Phase' = [Phase EXCEPT ![p] = "open"]
    BY <1>0, <1>2 DEF Opens, Phase, LapInv, Opening, TypeOK
  <2> QED
    BY SamePeers, <1>2, <2>1 DEF T!Open, T!Next, Opens, dataVars
<1>3. CASE Ends(p)
  <2>1. Phase[p] # "over" /\ Phase' = [Phase EXCEPT ![p] = "over"]
    BY <1>0, <1>3 DEF Ends, Phase, TypeOK
  <2> QED
    BY SamePeers, <1>3, <2>1 DEF T!Close, T!Next, Ends
<1>4. CASE Reads(p)
  <2>1. Phase[p] = "open" /\ Phase' = Phase
    BY <1>4 DEF Reads, ReadTcp, Served, Phase, IInv, PlaceEvidence
  <2> QED
    BY SamePeers, <1>4, <2>1 DEF T!Write, T!Next, Reads, ReadTcp
<1>5. ASSUME NEW m \in net[p], HandsOut(p, m) PROVE T!Next
  <2>1. Phase[p] = "open"
    BY <1>5 DEF HandsOut, Accept, Phase, IInv, PlaceEvidence
  <2>2. Phase' = Phase
    BY <1>5 DEF HandsOut, Accept, Phase
  <2>3. got[p] < reads[Other(p)]
    BY <1>5 DEF HandsOut, Accept, LapInv
  <2> QED
    BY SamePeers, <1>5, <2>1, <2>2, <2>3 DEF T!Deliver, T!Next, HandsOut, Accept
<1> QED
  BY <1>1, <1>2, <1>3, <1>4, <1>5 DEF Seen

LEMMA InitRefines == Init => T!Init
BY SamePeers DEF Init, T!Init, Phase

(***************************************************************************)
(* A session of fewer chunks than there are ids, 256 in the code, is a     *)
(* tunnel: nothing is written or handed out before CONNECTED or after the  *)
(* end of deinit, and no chunk is handed out that the peer has not read,   *)
(* whatever the network repeats, delays or makes the peers send again.     *)
(***************************************************************************)
THEOREM ImplementsTunnel ==
  ASSUME MaxReads < SeqSpace
  PROVE  Spec => TunnelSpec
<1>1. LapInv /\ IInv /\ [Next]_vars => LapInv'
  <2>1. CASE UNCHANGED vars
    BY <2>1 DEF vars, LapInv
  <2> QED
    BY <2>1, NextIsSeen, SeenKeepsLapInv
<1>2. Spec => []LapInv
  BY <1>1, InitLapInv, Invariance, PTL DEF Spec
<1>3. IInv /\ LapInv /\ [Next]_vars => [T!Next]_T!vars
  <2>1. CASE UNCHANGED vars
    BY <2>1 DEF vars, T!vars, Phase
  <2> QED
    BY <2>1, NextIsSeen, SeenRefines
<1> QED
  BY <1>2, <1>3, InitRefines, Invariance, PTL DEF Spec, TunnelSpec, T!Spec
=============================================================================
