--------------------------- MODULE ChownatProofs ---------------------------
(***************************************************************************)
(* Proofs about the chownat session, for every number of attempts, every   *)
(* keep-alive threshold, every sequence space and every bound.             *)
(***************************************************************************)
EXTENDS Chownat, FiniteSetTheorems, TLAPS

\* The network part of a step in which p receives at most one datagram and
\* sends those of out.
Moves(p, out) ==
  /\ net' \in [Peers -> SUBSET Msgs]
  /\ net'[p] \subseteq net[p]
  /\ net'[Other(p)] \subseteq net[Other(p)] \cup out
  /\ dups' \in 0 .. MaxDup

\* The step leaves p with the evidence for the datagrams of out.
Justified(p, out) ==
  /\ Ctl("03") \in out => acked' /\ (p = "c" => connected'["c"] \/ closing'["c"])
  /\ \A m \in out : /\ m.t = "02" => closing'[p]
                    /\ m.t = "09" => connected'[p]

\* Where a process can be.
Places == {"bind", "hp", "wait", "ack", "loop", "deliver", "dsend", "drecv", "done"}

\* Evidence is never withdrawn.
HistoryGrows ==
  /\ acked => acked'
  /\ \A p \in Peers : /\ connected[p] => connected'[p]
                      /\ closing[p] => closing'[p]

\* The datagrams without a number are datagrams.
LEMMA ControlMsgs ==
  /\ Ctl("01") \in Msgs /\ Ctl("02") \in Msgs /\ Ctl("03") \in Msgs
  /\ Ctl("ka") \in Msgs /\ NoMsg \notin Msgs
BY SeqSpaceAssumption DEF Ctl, Msgs, Ids, NoMsg

\* The numbered ones are, too.
LEMMA NumberedMsgs ==
  ASSUME NEW i \in Ids
  PROVE  Numbered("08", i) \in Msgs /\ Numbered("09", i) \in Msgs
BY DEF Numbered, Msgs

\* An id incremented is an id.
LEMMA IncIsId ==
  ASSUME NEW i \in Ids
  PROVE  Inc(i) \in Ids
BY SeqSpaceAssumption DEF Ids, Inc

LEMMA OtherPeer ==
  ASSUME NEW p \in Peers
  PROVE  /\ Other(p) \in Peers /\ Other(p) # p
         /\ \A q \in Peers : q = p \/ q = Other(p)
         /\ (p = "s") = (Other(p) = "c")
BY DEF Other, Peers

\* Sending is such a step.
LEMMA SendMoves ==
  ASSUME TypeOK, NEW p \in Peers, NEW out \in SUBSET Msgs, Send(p, out)
  PROVE  Moves(p, out)
BY OtherPeer DEF Send, Moves, TypeOK

\* Receiving and sending is, whether the datagram is repeated or not.
LEMMA RecvMoves ==
  ASSUME TypeOK, NEW p \in Peers, NEW m, NEW out \in SUBSET Msgs, Recv(p, m, out)
  PROVE  Moves(p, out) /\ (m = NoMsg \/ m \in net[p])
<1>1. CASE m = NoMsg /\ Send(p, out)
  BY <1>1, SendMoves
<1>2. CASE /\ m \in net[p]
           /\ net' = [net EXCEPT ![p] = @ \ {m}, ![Other(p)] = @ \cup out]
           /\ UNCHANGED dups
  BY <1>2, OtherPeer DEF Moves, TypeOK
<1>3. CASE /\ m \in net[p]
           /\ dups < MaxDup
           /\ dups' = dups + 1
           /\ net' = [net EXCEPT ![Other(p)] = @ \cup out]
  BY <1>3, OtherPeer, ConfigAssumption DEF Moves, TypeOK
<1> QED
  BY <1>1, <1>2, <1>3 DEF Recv

\* A step that justifies what it sends keeps the evidence in the network.
LEMMA MovesKeepEvidence ==
  ASSUME DatagramEvidence, NEW p \in Peers, NEW out,
         Moves(p, out), Justified(p, out), HistoryGrows
  PROVE  DatagramEvidence'
<1>1. ASSUME NEW q \in Peers, NEW m \in net'[q]
      PROVE  m \in net[q] \/ (q = Other(p) /\ m \in out)
  BY <1>1, OtherPeer DEF Moves
<1>2. ASSUME NEW q \in Peers, Ctl("03") \in net'[q]
      PROVE  acked'
  BY <1>1, <1>2 DEF DatagramEvidence, Justified, HistoryGrows
<1>3. ASSUME Ctl("03") \in net'["s"]
      PROVE  connected'["c"] \/ closing'["c"]
  <2>1. "s" \in Peers /\ "c" \in Peers
    BY DEF Peers
  <2>2. CASE Ctl("03") \in net["s"]
    BY <2>1, <2>2 DEF DatagramEvidence, HistoryGrows
  <2>3. CASE "s" = Other(p) /\ Ctl("03") \in out
    BY <2>3 DEF Justified, Other, Peers
  <2> QED
    BY <2>1, <2>2, <2>3, <1>1, <1>3
<1>4. ASSUME NEW q \in Peers, NEW m \in net'[q]
      PROVE  /\ m.t = "02" => closing'[Other(q)]
             /\ m.t = "09" => connected'[Other(q)]
  <2>1. CASE m \in net[q]
    BY <2>1, OtherPeer DEF DatagramEvidence, HistoryGrows
  <2>2. CASE q = Other(p) /\ m \in out
    <3>1. Other(q) = p
      BY <2>2 DEF Other, Peers
    <3> QED
      BY <2>2, <3>1 DEF Justified
  <2> QED
    BY <2>1, <2>2, <1>1
<1> QED
  BY <1>2, <1>3, <1>4 DEF DatagramEvidence

-----------------------------------------------------------------------------
(***************************************************************************)
(* Types.                                                                  *)
(***************************************************************************)
\* What Enter and Again do to the place and the attempts of p.
LEMMA EnterType ==
  ASSUME TypeOK, NEW p \in Peers,
         NEW loop \in Places,
         Enter(p, loop)
  PROVE  /\ pc' \in [Peers -> Places]
         /\ attempts' \in [Peers -> 0 .. MaxAttempts - 1]
BY ConfigAssumption DEF Enter, TypeOK, Places

LEMMA AgainType ==
  ASSUME TypeOK, NEW p \in Peers, Again(p)
  PROVE  /\ pc' = pc
         /\ attempts' \in [Peers -> 0 .. MaxAttempts - 1]
BY ConfigAssumption DEF Again, TypeOK

LEMMA ThresholdType ==
  ASSUME TypeOK, NEW p \in Peers,
         \/ ResetThreshold(p)
         \/ /\ threshold[p] # KaMiss
            /\ threshold' = [threshold EXCEPT ![p] = @ + 1]
  PROVE  threshold' \in [Peers -> 0 .. KaMiss]
BY ConfigAssumption DEF ResetThreshold, TypeOK

-----------------------------------------------------------------------------
(***************************************************************************)
(* Evidence.  Steps differ in where they leave the process.                *)
(***************************************************************************)
\* Everything of the invariant but the types and the network.
ProcessEvidence ==
  /\ PlaceEvidence
  /\ OpensOnEvidence
  /\ ClosesOnRequest
  /\ DataBetweenOpenPeers

\* A step within a loop.
LEMMA StaysKeeps ==
  ASSUME IInv, UNCHANGED <<pc, connected, acked, closing, got>>
  PROVE  HistoryGrows /\ ProcessEvidence'
BY DEF IInv, HistoryGrows, ProcessEvidence, PlaceEvidence, OpensOnEvidence,
       ClosesOnRequest, DataBetweenOpenPeers

\* A step into disconnect_send.
LEMMA DisconnectKeeps ==
  ASSUME IInv, NEW p \in Peers, Disconnect(p),
         UNCHANGED <<connected, acked>>,
         \/ got' = got
         \/ /\ connected[p] /\ connected[Other(p)]
            /\ got' = [got EXCEPT ![p] = @ + 1]
  PROVE  HistoryGrows /\ closing'[p] /\ ProcessEvidence'
BY OtherPeer DEF Disconnect, Enter, IInv, TypeOK, HistoryGrows, ProcessEvidence,
       PlaceEvidence, OpensOnEvidence, ClosesOnRequest, DataBetweenOpenPeers

\* A step out of the session.
LEMMA DoneKeeps ==
  ASSUME IInv, NEW p \in Peers, pc' = [pc EXCEPT ![p] = "done"],
         UNCHANGED <<connected, acked, closing, got>>
  PROVE  HistoryGrows /\ ProcessEvidence'
BY OtherPeer DEF IInv, TypeOK, HistoryGrows, ProcessEvidence,
       PlaceEvidence, OpensOnEvidence, ClosesOnRequest, DataBetweenOpenPeers

\* The parts together make up the invariant.
LEMMA PartsMakeIInv ==
  ASSUME IInv, TypeOK', ProcessEvidence', HistoryGrows,
         NEW p \in Peers, NEW out, Moves(p, out), Justified(p, out)
  PROVE  IInv'
BY MovesKeepEvidence DEF IInv, ProcessEvidence

\* ClientAccept keeps the invariant.
LEMMA ClientAcceptKeeps ==
  ASSUME IInv, ClientAccept
  PROVE  IInv'
<1> DEFINE out == {Ctl("01")}
<1>0. TypeOK /\ "c" \in Peers /\ "s" \in Peers
  BY DEF IInv, Peers
<1>1. out \in SUBSET Msgs
  BY ControlMsgs
<1>2. Moves("c", out)
  BY <1>0, <1>1, SendMoves DEF ClientAccept
<1>3. TypeOK'
  <2>1. /\ pc' \in [Peers -> Places]
        /\ attempts' \in [Peers -> 0 .. MaxAttempts - 1]
    BY <1>0, EnterType DEF Places, ClientAccept
  <2> QED
    BY <1>0, <1>2, <2>1 DEF ClientAccept, Moves, TypeOK, dataVars, Places
<1>5. HistoryGrows /\ ProcessEvidence'
  BY <1>0, OtherPeer DEF ClientAccept, Enter, dataVars, IInv, TypeOK, HistoryGrows, ProcessEvidence,
     PlaceEvidence, OpensOnEvidence, ClosesOnRequest, DataBetweenOpenPeers, DatagramEvidence, Other
<1>6. Justified("c", out)
  BY DEF Justified, Ctl, Numbered
<1> QED
  BY <1>0, <1>2, <1>3, <1>5, <1>6, PartsMakeIInv

\* ClientBindFails keeps the invariant.
LEMMA ClientBindFailsKeeps ==
  ASSUME IInv, ClientBindFails
  PROVE  IInv'
<1> DEFINE out == {Ctl("02")}
<1>0. TypeOK /\ "c" \in Peers /\ "s" \in Peers
  BY DEF IInv, Peers
<1>1. out \in SUBSET Msgs
  BY ControlMsgs
<1>2. Moves("c", out)
  BY <1>0, <1>1, SendMoves DEF ClientBindFails
<1>3. TypeOK'
  <2>1. /\ pc' \in [Peers -> Places]
        /\ attempts' \in [Peers -> 0 .. MaxAttempts - 1]
    BY <1>0, EnterType DEF Places, ClientBindFails, Disconnect
  <2> QED
    BY <1>0, <1>2, <2>1 DEF ClientBindFails, Disconnect, Moves, TypeOK, dataVars, Places
<1>4. HistoryGrows /\ closing'["c"] /\ ProcessEvidence'
  BY <1>0, DisconnectKeeps DEF ClientBindFails, dataVars
<1>6. Justified("c", out)
  BY <1>4 DEF Justified, Ctl
<1> QED
  BY <1>0, <1>2, <1>3, <1>4, <1>6, PartsMakeIInv

\* ClientOpens keeps the invariant.
LEMMA ClientOpensKeeps ==
  ASSUME IInv, ClientOpens
  PROVE  IInv'
<1> DEFINE out == {Ctl("03")}
<1>0. TypeOK /\ "c" \in Peers /\ "s" \in Peers
  BY DEF IInv, Peers
<1>1. out \in SUBSET Msgs
  BY ControlMsgs
<1>2. Moves("c", out)
  BY <1>0, <1>1, RecvMoves DEF ClientOpens
<1>3. TypeOK'
  <2>1. /\ pc' \in [Peers -> Places]
        /\ attempts' \in [Peers -> 0 .. MaxAttempts - 1]
    BY <1>0, EnterType DEF Places, ClientOpens
  <2> QED
    BY <1>0, <1>2, <2>1 DEF ClientOpens, Moves, TypeOK, dataVars, Places
<1>4. Ctl("03") \in net["c"]
  BY <1>0, <1>1, RecvMoves DEF ClientOpens, NoMsg, Ctl
<1>5. HistoryGrows /\ ProcessEvidence'
  BY <1>4, <1>0, OtherPeer DEF ClientOpens, Enter, dataVars, IInv, TypeOK, HistoryGrows, ProcessEvidence,
     PlaceEvidence, OpensOnEvidence, ClosesOnRequest, DataBetweenOpenPeers, DatagramEvidence, Other
<1>6. Justified("c", out)
  BY <1>0, <1>4, <1>5 DEF ClientOpens, Justified, Ctl, IInv, TypeOK, DatagramEvidence, HistoryGrows
<1> QED
  BY <1>0, <1>2, <1>3, <1>5, <1>6, PartsMakeIInv

\* ClientRetries keeps the invariant.
LEMMA ClientRetriesKeeps ==
  ASSUME IInv, NEW m, ClientRetries(m)
  PROVE  IInv'
<1> DEFINE out == {Ctl("01")}
<1>0. TypeOK /\ "c" \in Peers /\ "s" \in Peers
  BY DEF IInv, Peers
<1>1. out \in SUBSET Msgs
  BY ControlMsgs
<1>2. Moves("c", out)
  BY <1>0, <1>1, RecvMoves DEF ClientRetries
<1>3. TypeOK'
  <2>1. pc' = pc /\ attempts' \in [Peers -> 0 .. MaxAttempts - 1]
    BY <1>0, AgainType DEF ClientRetries
  <2> QED
    BY <1>0, <1>2, <2>1 DEF ClientRetries, Moves, TypeOK, dataVars, Places
<1>4. HistoryGrows /\ ProcessEvidence'
  BY StaysKeeps DEF ClientRetries, Again, dataVars
<1>6. Justified("c", out)
  BY DEF Justified, Ctl, Numbered
<1> QED
  BY <1>0, <1>2, <1>3, <1>4, <1>6, PartsMakeIInv

\* ClientGivesUp keeps the invariant.
LEMMA ClientGivesUpKeeps ==
  ASSUME IInv, NEW m, ClientGivesUp(m)
  PROVE  IInv'
<1> DEFINE out == {Ctl("02")}
<1>0. TypeOK /\ "c" \in Peers /\ "s" \in Peers
  BY DEF IInv, Peers
<1>1. out \in SUBSET Msgs
  BY ControlMsgs
<1>2. Moves("c", out)
  BY <1>0, <1>1, RecvMoves DEF ClientGivesUp
<1>3. TypeOK'
  <2>1. /\ pc' \in [Peers -> Places]
        /\ attempts' \in [Peers -> 0 .. MaxAttempts - 1]
    BY <1>0, EnterType DEF Places, ClientGivesUp, Disconnect
  <2> QED
    BY <1>0, <1>2, <2>1 DEF ClientGivesUp, Disconnect, Moves, TypeOK, dataVars, Places
<1>4. HistoryGrows /\ closing'["c"] /\ ProcessEvidence'
  BY <1>0, DisconnectKeeps DEF ClientGivesUp, dataVars
<1>6. Justified("c", out)
  BY <1>4 DEF Justified, Ctl
<1> QED
  BY <1>0, <1>2, <1>3, <1>4, <1>6, PartsMakeIInv

\* ServerAnswers keeps the invariant.
LEMMA ServerAnswersKeeps ==
  ASSUME IInv, ServerAnswers
  PROVE  IInv'
<1> DEFINE out == {Ctl("03")}
<1>0. TypeOK /\ "c" \in Peers /\ "s" \in Peers
  BY DEF IInv, Peers
<1>1. out \in SUBSET Msgs
  BY ControlMsgs
<1>2. Moves("s", out)
  BY <1>0, <1>1, RecvMoves DEF ServerAnswers
<1>3. TypeOK'
  <2>1. /\ pc' \in [Peers -> Places]
        /\ attempts' \in [Peers -> 0 .. MaxAttempts - 1]
    BY <1>0, EnterType DEF Places, ServerAnswers
  <2> QED
    BY <1>0, <1>2, <2>1 DEF ServerAnswers, Moves, TypeOK, dataVars, Places
<1>4. Ctl("01") \in net["s"]
  BY <1>0, <1>1, RecvMoves DEF ServerAnswers, NoMsg, Ctl
<1>5. HistoryGrows /\ ProcessEvidence'
  BY <1>4, <1>0, OtherPeer DEF ServerAnswers, Enter, dataVars, IInv, TypeOK, HistoryGrows, ProcessEvidence,
     PlaceEvidence, OpensOnEvidence, ClosesOnRequest, DataBetweenOpenPeers, DatagramEvidence, Other
<1>6. Justified("s", out)
  BY DEF ServerAnswers, Justified, Ctl
<1> QED
  BY <1>0, <1>2, <1>3, <1>5, <1>6, PartsMakeIInv

\* ServerIgnores keeps the invariant.
LEMMA ServerIgnoresKeeps ==
  ASSUME IInv, NEW m, ServerIgnores(m)
  PROVE  IInv'
<1> DEFINE out == {}
<1>0. TypeOK /\ "c" \in Peers /\ "s" \in Peers
  BY DEF IInv, Peers
<1>1. out \in SUBSET Msgs
  BY ControlMsgs
<1>2. Moves("s", out)
  BY <1>0, <1>1, RecvMoves DEF ServerIgnores
<1>3. TypeOK'
  <2> QED
    BY <1>0, <1>2 DEF ServerIgnores, Moves, TypeOK, dataVars, Places
<1>4. HistoryGrows /\ ProcessEvidence'
  BY StaysKeeps DEF ServerIgnores, dataVars
<1>6. Justified("s", out)
  BY DEF Justified
<1> QED
  BY <1>0, <1>2, <1>3, <1>4, <1>6, PartsMakeIInv

\* ServerWaits keeps the invariant.
LEMMA ServerWaitsKeeps ==
  ASSUME IInv, ServerWaits
  PROVE  IInv'
<1> DEFINE out == {Ctl("ka")}
<1>0. TypeOK /\ "c" \in Peers /\ "s" \in Peers
  BY DEF IInv, Peers
<1>1. out \in SUBSET Msgs
  BY ControlMsgs
<1>2. Moves("s", out)
  BY <1>0, <1>1, SendMoves DEF ServerWaits
<1>3. TypeOK'
  <2>1. pc' = pc /\ attempts' \in [Peers -> 0 .. MaxAttempts - 1]
    BY <1>0, AgainType DEF ServerWaits
  <2> QED
    BY <1>0, <1>2, <2>1 DEF ServerWaits, Moves, TypeOK, dataVars, Places
<1>4. HistoryGrows /\ ProcessEvidence'
  BY StaysKeeps DEF ServerWaits, Again, dataVars
<1>6. Justified("s", out)
  BY DEF Justified, Ctl, Numbered
<1> QED
  BY <1>0, <1>2, <1>3, <1>4, <1>6, PartsMakeIInv

\* ServerGivesUp keeps the invariant.
LEMMA ServerGivesUpKeeps ==
  ASSUME IInv, ServerGivesUp
  PROVE  IInv'
<1> DEFINE out == {Ctl("ka"), Ctl("02")}
<1>0. TypeOK /\ "c" \in Peers /\ "s" \in Peers
  BY DEF IInv, Peers
<1>1. out \in SUBSET Msgs
  BY ControlMsgs
<1>2. Moves("s", out)
  BY <1>0, <1>1, SendMoves DEF ServerGivesUp
<1>3. TypeOK'
  <2>1. /\ pc' \in [Peers -> Places]
        /\ attempts' \in [Peers -> 0 .. MaxAttempts - 1]
    BY <1>0, EnterType DEF Places, ServerGivesUp, Disconnect
  <2> QED
    BY <1>0, <1>2, <2>1 DEF ServerGivesUp, Disconnect, Moves, TypeOK, dataVars, Places
<1>4. HistoryGrows /\ closing'["s"] /\ ProcessEvidence'
  BY <1>0, DisconnectKeeps DEF ServerGivesUp, dataVars
<1>6. Justified("s", out)
  BY <1>4 DEF Justified, Ctl
<1> QED
  BY <1>0, <1>2, <1>3, <1>4, <1>6, PartsMakeIInv

\* ServerOpens keeps the invariant.
LEMMA ServerOpensKeeps ==
  ASSUME IInv, ServerOpens
  PROVE  IInv'
<1> DEFINE out == {}
<1>0. TypeOK /\ "c" \in Peers /\ "s" \in Peers
  BY DEF IInv, Peers
<1>1. out \in SUBSET Msgs
  BY ControlMsgs
<1>2. Moves("s", out)
  BY <1>0, <1>1, RecvMoves DEF ServerOpens
<1>3. TypeOK'
  <2>1. /\ pc' \in [Peers -> Places]
        /\ attempts' \in [Peers -> 0 .. MaxAttempts - 1]
    BY <1>0, EnterType DEF Places, ServerOpens
  <2> QED
    BY <1>0, <1>2, <2>1 DEF ServerOpens, Moves, TypeOK, dataVars, Places
<1>4. Ctl("03") \in net["s"]
  BY <1>0, <1>1, RecvMoves DEF ServerOpens, NoMsg, Ctl
<1>5. HistoryGrows /\ ProcessEvidence'
  BY <1>4, <1>0, OtherPeer DEF ServerOpens, Enter, dataVars, IInv, TypeOK, HistoryGrows, ProcessEvidence,
     PlaceEvidence, OpensOnEvidence, ClosesOnRequest, DataBetweenOpenPeers, DatagramEvidence, Other
<1>6. Justified("s", out)
  BY DEF Justified
<1> QED
  BY <1>0, <1>2, <1>3, <1>5, <1>6, PartsMakeIInv

\* ServerRepeats keeps the invariant.
LEMMA ServerRepeatsKeeps ==
  ASSUME IInv, NEW m, ServerRepeats(m)
  PROVE  IInv'
<1> DEFINE out == {Ctl("03")}
<1>0. TypeOK /\ "c" \in Peers /\ "s" \in Peers
  BY DEF IInv, Peers
<1>1. out \in SUBSET Msgs
  BY ControlMsgs
<1>2. Moves("s", out)
  BY <1>0, <1>1, RecvMoves DEF ServerRepeats
<1>3. TypeOK'
  <2> QED
    BY <1>0, <1>2 DEF ServerRepeats, Moves, TypeOK, dataVars, Places
<1>4. HistoryGrows /\ ProcessEvidence'
  BY StaysKeeps DEF ServerRepeats, dataVars
<1>6. Justified("s", out)
  BY <1>4 DEF ServerRepeats, Justified, Ctl, IInv, PlaceEvidence, HistoryGrows
<1> QED
  BY <1>0, <1>2, <1>3, <1>4, <1>6, PartsMakeIInv

\* ServerRetries keeps the invariant.
LEMMA ServerRetriesKeeps ==
  ASSUME IInv, ServerRetries
  PROVE  IInv'
<1> DEFINE out == {Ctl("03")}
<1>0. TypeOK /\ "c" \in Peers /\ "s" \in Peers
  BY DEF IInv, Peers
<1>1. out \in SUBSET Msgs
  BY ControlMsgs
<1>2. Moves("s", out)
  BY <1>0, <1>1, SendMoves DEF ServerRetries
<1>3. TypeOK'
  <2>1. pc' = pc /\ attempts' \in [Peers -> 0 .. MaxAttempts - 1]
    BY <1>0, AgainType DEF ServerRetries
  <2> QED
    BY <1>0, <1>2, <2>1 DEF ServerRetries, Moves, TypeOK, dataVars, Places
<1>4. HistoryGrows /\ ProcessEvidence'
  BY StaysKeeps DEF ServerRetries, Again, dataVars
<1>6. Justified("s", out)
  BY <1>4 DEF ServerRetries, Justified, Ctl, IInv, PlaceEvidence, HistoryGrows
<1> QED
  BY <1>0, <1>2, <1>3, <1>4, <1>6, PartsMakeIInv

\* ServerWaitsAgain keeps the invariant.
LEMMA ServerWaitsAgainKeeps ==
  ASSUME IInv, ServerWaitsAgain
  PROVE  IInv'
<1> DEFINE out == {}
<1>0. TypeOK /\ "c" \in Peers /\ "s" \in Peers
  BY DEF IInv, Peers
<1>1. out \in SUBSET Msgs
  BY ControlMsgs
<1>2. Moves("s", out)
  BY <1>0 DEF ServerWaitsAgain, TypeOK, Moves
<1>3. TypeOK'
  <2>1. /\ pc' \in [Peers -> Places]
        /\ attempts' \in [Peers -> 0 .. MaxAttempts - 1]
    BY <1>0 DEF ServerWaitsAgain, TypeOK, Places
  <2> QED
    BY <1>0, <1>2, <2>1 DEF ServerWaitsAgain, Moves, TypeOK, dataVars, Places
<1>5. HistoryGrows /\ ProcessEvidence'
  BY <1>0, OtherPeer DEF ServerWaitsAgain, dataVars, IInv, TypeOK, HistoryGrows, ProcessEvidence,
     PlaceEvidence, OpensOnEvidence, ClosesOnRequest, DataBetweenOpenPeers, DatagramEvidence, Other
<1>6. Justified("s", out)
  BY DEF Justified
<1> QED
  BY <1>0, <1>2, <1>3, <1>5, <1>6, PartsMakeIInv

\* ServerConnects keeps the invariant.
LEMMA ServerConnectsKeeps ==
  ASSUME IInv, ServerConnects
  PROVE  IInv'
<1> DEFINE out == {}
<1>0. TypeOK /\ "c" \in Peers /\ "s" \in Peers
  BY DEF IInv, Peers
<1>1. out \in SUBSET Msgs
  BY ControlMsgs
<1>2. Moves("s", out)
  BY <1>0 DEF ServerConnects, TypeOK, Moves
<1>3. TypeOK'
  <2>1. /\ pc' \in [Peers -> Places]
        /\ attempts' \in [Peers -> 0 .. MaxAttempts - 1]
    BY <1>0, EnterType DEF Places, ServerConnects
  <2> QED
    BY <1>0, <1>2, <2>1 DEF ServerConnects, Moves, TypeOK, dataVars, Places
<1>5. HistoryGrows /\ ProcessEvidence'
  BY <1>0, OtherPeer DEF ServerConnects, Enter, dataVars, IInv, TypeOK, HistoryGrows, ProcessEvidence,
     PlaceEvidence, OpensOnEvidence, ClosesOnRequest, DataBetweenOpenPeers, DatagramEvidence, Other
<1>6. Justified("s", out)
  BY DEF Justified
<1> QED
  BY <1>0, <1>2, <1>3, <1>5, <1>6, PartsMakeIInv

\* ReadTcp keeps the invariant.
LEMMA ReadTcpKeeps ==
  ASSUME IInv, NEW p \in Peers, ReadTcp(p)
  PROVE  IInv'
<1> DEFINE out == {Numbered("09", id[p])}
<1>0. TypeOK /\ "c" \in Peers /\ "s" \in Peers
  BY DEF IInv, Peers
<1>1. out \in SUBSET Msgs
  BY <1>0, NumberedMsgs DEF TypeOK
<1>2. Moves(p, out)
  BY <1>0, <1>1, SendMoves DEF ReadTcp
<1>3. TypeOK'
  <2>1. threshold' \in [Peers -> 0 .. KaMiss]
    BY <1>0, ThresholdType DEF ReadTcp
  <2>2. id' \in [Peers -> Ids]
    BY <1>0, IncIsId DEF ReadTcp, TypeOK, Places
  <2>3. reads' \in [Peers -> 0 .. MaxReads]
    BY <1>0, ConfigAssumption DEF ReadTcp, TypeOK, Places
  <2> QED
    BY <1>0, <1>2, <2>1, <2>2, <2>3 DEF ReadTcp, Moves, TypeOK, dataVars, Places
<1>4. HistoryGrows /\ ProcessEvidence'
  BY StaysKeeps DEF ReadTcp, dataVars
<1>6. Justified(p, out)
  BY <1>4 DEF ReadTcp, Served, Justified, Ctl, Numbered, IInv, PlaceEvidence, HistoryGrows
<1> QED
  BY <1>0, <1>2, <1>3, <1>4, <1>6, PartsMakeIInv

\* EndTcp keeps the invariant.
LEMMA EndTcpKeeps ==
  ASSUME IInv, NEW p \in Peers, EndTcp(p)
  PROVE  IInv'
<1> DEFINE out == {Ctl("02")}
<1>0. TypeOK /\ "c" \in Peers /\ "s" \in Peers
  BY DEF IInv, Peers
<1>1. out \in SUBSET Msgs
  BY ControlMsgs
<1>2. Moves(p, out)
  BY <1>0, <1>1, SendMoves DEF EndTcp
<1>3. TypeOK'
  <2>1. /\ pc' \in [Peers -> Places]
        /\ attempts' \in [Peers -> 0 .. MaxAttempts - 1]
    BY <1>0, EnterType DEF Places, EndTcp, Disconnect
  <2>2. threshold' \in [Peers -> 0 .. KaMiss]
    BY <1>0, ThresholdType DEF EndTcp
  <2> QED
    BY <1>0, <1>2, <2>1, <2>2 DEF EndTcp, Disconnect, Moves, TypeOK, dataVars, Places
<1>4. HistoryGrows /\ closing'[p] /\ ProcessEvidence'
  BY <1>0, DisconnectKeeps DEF EndTcp, dataVars
<1>6. Justified(p, out)
  BY <1>4 DEF Justified, Ctl
<1> QED
  BY <1>0, <1>2, <1>3, <1>4, <1>6, PartsMakeIInv

\* RecvOther keeps the invariant.
LEMMA RecvOtherKeeps ==
  ASSUME IInv, NEW p \in Peers, NEW m, RecvOther(p, m)
  PROVE  IInv'
<1> DEFINE out == {}
<1>0. TypeOK /\ "c" \in Peers /\ "s" \in Peers
  BY DEF IInv, Peers
<1>1. out \in SUBSET Msgs
  BY ControlMsgs
<1>2. Moves(p, out)
  BY <1>0, <1>1, RecvMoves DEF RecvOther
<1>3. TypeOK'
  <2>1. threshold' \in [Peers -> 0 .. KaMiss]
    BY <1>0, ThresholdType DEF RecvOther
  <2> QED
    BY <1>0, <1>2, <2>1 DEF RecvOther, Moves, TypeOK, dataVars, Places
<1>4. HistoryGrows /\ ProcessEvidence'
  BY StaysKeeps DEF RecvOther, dataVars
<1>6. Justified(p, out)
  BY DEF Justified
<1> QED
  BY <1>0, <1>2, <1>3, <1>4, <1>6, PartsMakeIInv

\* RecvNack keeps the invariant.
LEMMA RecvNackKeeps ==
  ASSUME IInv, NEW p \in Peers, NEW m \in net[p], RecvNack(p, m)
  PROVE  IInv'
<1> DEFINE out == {Numbered("09", i) : i \in ResentIds(m.seq, id[p])}
<1>0. TypeOK /\ "c" \in Peers /\ "s" \in Peers
  BY DEF IInv, Peers
<1>1. out \in SUBSET Msgs
  <2>1. m.seq \in Ids /\ id[p] \in Ids
    BY <1>0 DEF TypeOK, Msgs
  <2>2. ResentIds(m.seq, id[p]) \subseteq Ids
    BY <2>1, SeqSpaceAssumption DEF ResentIds, Ids
  <2> QED
    BY <2>2, NumberedMsgs
<1>2. Moves(p, out)
  BY <1>0, <1>1, RecvMoves DEF RecvNack
<1>3. TypeOK'
  <2>1. threshold' \in [Peers -> 0 .. KaMiss]
    BY <1>0, ThresholdType DEF RecvNack
  <2> QED
    BY <1>0, <1>2, <2>1 DEF RecvNack, Moves, TypeOK, dataVars, Places
<1>4. HistoryGrows /\ ProcessEvidence'
  BY StaysKeeps DEF RecvNack, dataVars
<1>5. connected'[p]
  BY DEF RecvNack, IInv, PlaceEvidence
<1>6. Justified(p, out)
  <2>1. \A r \in out : r.t = "09"
    BY DEF Numbered
  <2>2. Ctl("03").t = "03" /\ Ctl("02").t = "02"
    BY DEF Ctl
  <2> QED
    BY <1>5, <2>1, <2>2 DEF Justified
<1> QED
  BY <1>0, <1>2, <1>3, <1>4, <1>6, PartsMakeIInv

\* RecvUnexpected keeps the invariant.
LEMMA RecvUnexpectedKeeps ==
  ASSUME IInv, NEW p \in Peers, NEW m, RecvUnexpected(p, m)
  PROVE  IInv'
<1> DEFINE out == {Numbered("08", expected[p])}
<1>0. TypeOK /\ "c" \in Peers /\ "s" \in Peers
  BY DEF IInv, Peers
<1>1. out \in SUBSET Msgs
  BY <1>0, NumberedMsgs DEF TypeOK
<1>2. Moves(p, out)
  BY <1>0, <1>1, RecvMoves DEF RecvUnexpected
<1>3. TypeOK'
  <2>1. threshold' \in [Peers -> 0 .. KaMiss]
    BY <1>0, ThresholdType DEF RecvUnexpected
  <2> QED
    BY <1>0, <1>2, <2>1 DEF RecvUnexpected, Moves, TypeOK, dataVars, Places
<1>4. HistoryGrows /\ ProcessEvidence'
  BY StaysKeeps DEF RecvUnexpected, dataVars
<1>6. Justified(p, out)
  BY DEF Justified, Ctl, Numbered
<1> QED
  BY <1>0, <1>2, <1>3, <1>4, <1>6, PartsMakeIInv

\* RecvExpected keeps the invariant.
LEMMA RecvExpectedKeeps ==
  ASSUME IInv, NEW p \in Peers, NEW m, RecvExpected(p, m)
  PROVE  IInv'
<1> DEFINE out == {}
<1>0. TypeOK /\ "c" \in Peers /\ "s" \in Peers
  BY DEF IInv, Peers
<1>1. out \in SUBSET Msgs
  BY ControlMsgs
<1>2. Moves(p, out)
  BY <1>0, <1>1, RecvMoves DEF RecvExpected
<1>3. TypeOK'
  <2>1. threshold' \in [Peers -> 0 .. KaMiss]
    BY <1>0, ThresholdType DEF RecvExpected, Accept
  <2>2. expected' \in [Peers -> Ids] /\ got' \in [Peers -> Nat]
    BY <1>0, IncIsId DEF RecvExpected, Accept, TypeOK, Places
  <2>3. pc' \in [Peers -> Places]
    BY <1>0 DEF RecvExpected, TypeOK, Places
  <2> QED
    BY <1>0, <1>2, <2>1, <2>2, <2>3 DEF Places, RecvExpected, Accept, Moves, TypeOK, dataVars
<1>4. connected[p] /\ connected[Other(p)]
  <2>1. m \in net[p] /\ m.t = "09"
    BY <1>0, <1>1, RecvMoves DEF RecvExpected, Accept, NoMsg, Ctl
  <2> QED
    BY <2>1 DEF RecvExpected, Accept, IInv, PlaceEvidence, DatagramEvidence
<1>5. HistoryGrows /\ ProcessEvidence'
  BY <1>4, OtherPeer DEF RecvExpected, Accept, IInv, TypeOK, HistoryGrows, ProcessEvidence,
     PlaceEvidence, OpensOnEvidence, ClosesOnRequest, DataBetweenOpenPeers
<1>6. Justified(p, out)
  BY DEF Justified
<1> QED
  BY <1>0, <1>2, <1>3, <1>5, <1>6, PartsMakeIInv

\* TcpTakes keeps the invariant.
LEMMA TcpTakesKeeps ==
  ASSUME IInv, NEW p \in Peers, TcpTakes(p)
  PROVE  IInv'
<1> DEFINE out == {}
<1>0. TypeOK /\ "c" \in Peers /\ "s" \in Peers
  BY DEF IInv, Peers
<1>2. Moves(p, out)
  BY <1>0 DEF TcpTakes, TypeOK, Moves
<1>3. TypeOK'
  <2>1. pc' \in [Peers -> Places]
    BY <1>0 DEF TcpTakes, TypeOK, Places
  <2> QED
    BY <1>0, <1>2, <2>1 DEF TcpTakes, Moves, TypeOK, dataVars, Places
<1>5. HistoryGrows /\ ProcessEvidence'
  BY OtherPeer DEF TcpTakes, dataVars, IInv, TypeOK, HistoryGrows, ProcessEvidence,
     PlaceEvidence, OpensOnEvidence, ClosesOnRequest, DataBetweenOpenPeers
<1>6. Justified(p, out)
  BY DEF Justified
<1> QED
  BY <1>0, <1>2, <1>3, <1>5, <1>6, PartsMakeIInv

\* RecvDisconnect keeps the invariant.
LEMMA RecvDisconnectKeeps ==
  ASSUME IInv, NEW p \in Peers, NEW m, RecvDisconnect(p, m)
  PROVE  IInv'
<1> DEFINE out == {Ctl("03")}
<1>0. TypeOK /\ "c" \in Peers /\ "s" \in Peers
  BY DEF IInv, Peers
<1>1. out \in SUBSET Msgs
  BY ControlMsgs
<1>2. Moves(p, out)
  BY <1>0, <1>1, RecvMoves DEF RecvDisconnect
<1>3. TypeOK'
  <2>1. /\ pc' \in [Peers -> Places]
        /\ attempts' \in [Peers -> 0 .. MaxAttempts - 1]
    BY <1>0, EnterType DEF Places, RecvDisconnect
  <2>2. threshold' \in [Peers -> 0 .. KaMiss]
    BY <1>0, ThresholdType DEF RecvDisconnect
  <2> QED
    BY <1>0, <1>2, <2>1, <2>2 DEF RecvDisconnect, Moves, TypeOK, dataVars, Places
<1>4. m \in net[p]
  BY <1>0, <1>1, RecvMoves DEF RecvDisconnect, NoMsg, Ctl
<1>5. HistoryGrows /\ ProcessEvidence'
  BY <1>4, <1>0, OtherPeer DEF RecvDisconnect, Enter, dataVars, IInv, TypeOK, HistoryGrows, ProcessEvidence,
     PlaceEvidence, OpensOnEvidence, ClosesOnRequest, DataBetweenOpenPeers, DatagramEvidence, Other
<1>6. Justified(p, out)
  BY <1>5 DEF RecvDisconnect, Justified, Ctl, Peers, IInv, PlaceEvidence, OpensOnEvidence, HistoryGrows
<1> QED
  BY <1>0, <1>2, <1>3, <1>5, <1>6, PartsMakeIInv

\* RecvFails keeps the invariant.
LEMMA RecvFailsKeeps ==
  ASSUME IInv, NEW p \in Peers, RecvFails(p)
  PROVE  IInv'
<1> DEFINE out == {}
<1>0. TypeOK /\ "c" \in Peers /\ "s" \in Peers
  BY DEF IInv, Peers
<1>1. out \in SUBSET Msgs
  BY ControlMsgs
<1>2. Moves(p, out)
  BY <1>0 DEF RecvFails, TypeOK, Moves
<1>3. TypeOK'
  <2>1. /\ pc' \in [Peers -> Places]
        /\ attempts' \in [Peers -> 0 .. MaxAttempts - 1]
    BY <1>0, EnterType DEF Places, RecvFails
  <2>2. threshold' \in [Peers -> 0 .. KaMiss]
    BY <1>0, ThresholdType DEF RecvFails
  <2> QED
    BY <1>0, <1>2, <2>1, <2>2 DEF RecvFails, Moves, TypeOK, dataVars, Places
<1>4. HistoryGrows /\ ProcessEvidence'
  BY DoneKeeps DEF RecvFails, Enter, dataVars
<1>6. Justified(p, out)
  BY DEF Justified
<1> QED
  BY <1>0, <1>2, <1>3, <1>4, <1>6, PartsMakeIInv

\* KeepAlive keeps the invariant.
LEMMA KeepAliveKeeps ==
  ASSUME IInv, NEW p \in Peers, KeepAlive(p)
  PROVE  IInv'
<1> DEFINE out == {Ctl("ka")}
<1>0. TypeOK /\ "c" \in Peers /\ "s" \in Peers
  BY DEF IInv, Peers
<1>1. out \in SUBSET Msgs
  BY ControlMsgs
<1>2. Moves(p, out)
  BY <1>0, <1>1, SendMoves DEF KeepAlive
<1>3. TypeOK'
  <2>1. threshold' \in [Peers -> 0 .. KaMiss]
    BY <1>0, ThresholdType, ConfigAssumption DEF KeepAlive, TypeOK, Places
  <2> QED
    BY <1>0, <1>2, <2>1 DEF KeepAlive, Moves, TypeOK, dataVars, Places
<1>4. HistoryGrows /\ ProcessEvidence'
  BY StaysKeeps DEF KeepAlive, dataVars
<1>6. Justified(p, out)
  BY DEF Justified, Ctl, Numbered
<1> QED
  BY <1>0, <1>2, <1>3, <1>4, <1>6, PartsMakeIInv

\* KeepAliveMissed keeps the invariant.
LEMMA KeepAliveMissedKeeps ==
  ASSUME IInv, NEW p \in Peers, KeepAliveMissed(p)
  PROVE  IInv'
<1> DEFINE out == {Ctl("ka"), Ctl("02")}
<1>0. TypeOK /\ "c" \in Peers /\ "s" \in Peers
  BY DEF IInv, Peers
<1>1. out \in SUBSET Msgs
  BY ControlMsgs
<1>2. Moves(p, out)
  BY <1>0, <1>1, SendMoves DEF KeepAliveMissed
<1>3. TypeOK'
  <2>1. /\ pc' \in [Peers -> Places]
        /\ attempts' \in [Peers -> 0 .. MaxAttempts - 1]
    BY <1>0, EnterType DEF Places, KeepAliveMissed, Disconnect
  <2> QED
    BY <1>0, <1>2, <2>1 DEF KeepAliveMissed, Disconnect, Moves, TypeOK, dataVars, Places
<1>4. HistoryGrows /\ closing'[p] /\ ProcessEvidence'
  BY <1>0, DisconnectKeeps DEF KeepAliveMissed, dataVars
<1>6. Justified(p, out)
  BY <1>4 DEF Justified, Ctl
<1> QED
  BY <1>0, <1>2, <1>3, <1>4, <1>6, PartsMakeIInv

\* DisconnectConfirmed keeps the invariant.
LEMMA DisconnectConfirmedKeeps ==
  ASSUME IInv, NEW p \in Peers, DisconnectConfirmed(p)
  PROVE  IInv'
<1> DEFINE out == {Ctl("03")}
<1>0. TypeOK /\ "c" \in Peers /\ "s" \in Peers
  BY DEF IInv, Peers
<1>1. out \in SUBSET Msgs
  BY ControlMsgs
<1>2. Moves(p, out)
  BY <1>0, <1>1, RecvMoves DEF DisconnectConfirmed
<1>3. TypeOK'
  <2>1. /\ pc' \in [Peers -> Places]
        /\ attempts' \in [Peers -> 0 .. MaxAttempts - 1]
    BY <1>0, EnterType DEF Places, DisconnectConfirmed, Finish
  <2>2. id' \in [Peers -> Ids] /\ expected' \in [Peers -> Ids]
    BY <1>0, SeqSpaceAssumption DEF DisconnectConfirmed, Finish, TypeOK, Ids, Places
  <2> QED
    BY <1>0, <1>2, <2>1, <2>2 DEF DisconnectConfirmed, Finish, Moves, TypeOK, dataVars, Places
<1>4. HistoryGrows /\ ProcessEvidence'
  BY DoneKeeps DEF DisconnectConfirmed, Finish, Enter, dataVars
<1>5. Ctl("03") \in net[p]
  BY <1>0, <1>1, RecvMoves DEF DisconnectConfirmed, NoMsg, Ctl
<1>6. Justified(p, out)
  BY <1>4, <1>5 DEF DisconnectConfirmed, Finish, Justified, Ctl, IInv, DatagramEvidence, PlaceEvidence, HistoryGrows
<1> QED
  BY <1>0, <1>2, <1>3, <1>4, <1>6, PartsMakeIInv

\* DisconnectRetries keeps the invariant.
LEMMA DisconnectRetriesKeeps ==
  ASSUME IInv, NEW p \in Peers, NEW m, DisconnectRetries(p, m)
  PROVE  IInv'
<1> DEFINE out == {Ctl("02")}
<1>0. TypeOK /\ "c" \in Peers /\ "s" \in Peers
  BY DEF IInv, Peers
<1>1. out \in SUBSET Msgs
  BY ControlMsgs
<1>2. Moves(p, out)
  BY <1>0, <1>1, RecvMoves DEF DisconnectRetries
<1>3. TypeOK'
  <2>1. pc' = pc /\ attempts' \in [Peers -> 0 .. MaxAttempts - 1]
    BY <1>0, AgainType DEF DisconnectRetries
  <2> QED
    BY <1>0, <1>2, <2>1 DEF DisconnectRetries, Moves, TypeOK, dataVars, Places
<1>4. HistoryGrows /\ ProcessEvidence'
  BY StaysKeeps DEF DisconnectRetries, Again, dataVars
<1>6. Justified(p, out)
  BY <1>4 DEF DisconnectRetries, Justified, Ctl, IInv, PlaceEvidence, HistoryGrows
<1> QED
  BY <1>0, <1>2, <1>3, <1>4, <1>6, PartsMakeIInv

\* DisconnectGivesUp keeps the invariant.
LEMMA DisconnectGivesUpKeeps ==
  ASSUME IInv, NEW p \in Peers, NEW m, DisconnectGivesUp(p, m)
  PROVE  IInv'
<1> DEFINE out == {}
<1>0. TypeOK /\ "c" \in Peers /\ "s" \in Peers
  BY DEF IInv, Peers
<1>1. out \in SUBSET Msgs
  BY ControlMsgs
<1>2. Moves(p, out)
  BY <1>0, <1>1, RecvMoves DEF DisconnectGivesUp
<1>3. TypeOK'
  <2>1. /\ pc' \in [Peers -> Places]
        /\ attempts' \in [Peers -> 0 .. MaxAttempts - 1]
    BY <1>0, EnterType DEF Places, DisconnectGivesUp, Finish
  <2>2. id' \in [Peers -> Ids] /\ expected' \in [Peers -> Ids]
    BY <1>0, SeqSpaceAssumption DEF DisconnectGivesUp, Finish, TypeOK, Ids, Places
  <2> QED
    BY <1>0, <1>2, <2>1, <2>2 DEF DisconnectGivesUp, Finish, Moves, TypeOK, dataVars, Places
<1>4. HistoryGrows /\ ProcessEvidence'
  BY DoneKeeps DEF DisconnectGivesUp, Finish, Enter, dataVars
<1>6. Justified(p, out)
  BY DEF Justified
<1> QED
  BY <1>0, <1>2, <1>3, <1>4, <1>6, PartsMakeIInv

\* PeerConfirms keeps the invariant.
LEMMA PeerConfirmsKeeps ==
  ASSUME IInv, NEW p \in Peers, PeerConfirms(p)
  PROVE  IInv'
<1> DEFINE out == {}
<1>0. TypeOK /\ "c" \in Peers /\ "s" \in Peers
  BY DEF IInv, Peers
<1>1. out \in SUBSET Msgs
  BY ControlMsgs
<1>2. Moves(p, out)
  BY <1>0, <1>1, RecvMoves DEF PeerConfirms
<1>3. TypeOK'
  <2>1. /\ pc' \in [Peers -> Places]
        /\ attempts' \in [Peers -> 0 .. MaxAttempts - 1]
    BY <1>0, EnterType DEF Places, PeerConfirms, Finish
  <2>2. id' \in [Peers -> Ids] /\ expected' \in [Peers -> Ids]
    BY <1>0, SeqSpaceAssumption DEF PeerConfirms, Finish, TypeOK, Ids, Places
  <2> QED
    BY <1>0, <1>2, <2>1, <2>2 DEF PeerConfirms, Finish, Moves, TypeOK, dataVars, Places
<1>4. HistoryGrows /\ ProcessEvidence'
  BY DoneKeeps DEF PeerConfirms, Finish, Enter, dataVars
<1>6. Justified(p, out)
  BY DEF Justified
<1> QED
  BY <1>0, <1>2, <1>3, <1>4, <1>6, PartsMakeIInv

\* PeerRepeats keeps the invariant.
LEMMA PeerRepeatsKeeps ==
  ASSUME IInv, NEW p \in Peers, NEW m, PeerRepeats(p, m)
  PROVE  IInv'
<1> DEFINE out == {Ctl("03")}
<1>0. TypeOK /\ "c" \in Peers /\ "s" \in Peers
  BY DEF IInv, Peers
<1>1. out \in SUBSET Msgs
  BY ControlMsgs
<1>2. Moves(p, out)
  BY <1>0, <1>1, RecvMoves DEF PeerRepeats
<1>3. TypeOK'
  <2> QED
    BY <1>0, <1>2 DEF PeerRepeats, Moves, TypeOK, dataVars, Places
<1>4. HistoryGrows /\ ProcessEvidence'
  BY StaysKeeps DEF PeerRepeats, dataVars
<1>6. Justified(p, out)
  BY <1>4 DEF PeerRepeats, Justified, Ctl, Peers, IInv, PlaceEvidence, OpensOnEvidence, HistoryGrows
<1> QED
  BY <1>0, <1>2, <1>3, <1>4, <1>6, PartsMakeIInv

\* PeerRetries keeps the invariant.
LEMMA PeerRetriesKeeps ==
  ASSUME IInv, NEW p \in Peers, PeerRetries(p)
  PROVE  IInv'
<1> DEFINE out == {Ctl("03")}
<1>0. TypeOK /\ "c" \in Peers /\ "s" \in Peers
  BY DEF IInv, Peers
<1>1. out \in SUBSET Msgs
  BY ControlMsgs
<1>2. Moves(p, out)
  BY <1>0, <1>1, SendMoves DEF PeerRetries
<1>3. TypeOK'
  <2>1. pc' = pc /\ attempts' \in [Peers -> 0 .. MaxAttempts - 1]
    BY <1>0, AgainType DEF PeerRetries
  <2> QED
    BY <1>0, <1>2, <2>1 DEF PeerRetries, Moves, TypeOK, dataVars, Places
<1>4. HistoryGrows /\ ProcessEvidence'
  BY StaysKeeps DEF PeerRetries, Again, dataVars
<1>6. Justified(p, out)
  BY <1>4 DEF PeerRetries, Justified, Ctl, Peers, IInv, PlaceEvidence, OpensOnEvidence, HistoryGrows
<1> QED
  BY <1>0, <1>2, <1>3, <1>4, <1>6, PartsMakeIInv

\* PeerGivesUp keeps the invariant.
LEMMA PeerGivesUpKeeps ==
  ASSUME IInv, NEW p \in Peers, PeerGivesUp(p)
  PROVE  IInv'
<1> DEFINE out == {}
<1>0. TypeOK /\ "c" \in Peers /\ "s" \in Peers
  BY DEF IInv, Peers
<1>1. out \in SUBSET Msgs
  BY ControlMsgs
<1>2. Moves(p, out)
  BY <1>0 DEF PeerGivesUp, TypeOK, Moves
<1>3. TypeOK'
  <2>1. /\ pc' \in [Peers -> Places]
        /\ attempts' \in [Peers -> 0 .. MaxAttempts - 1]
    BY <1>0, EnterType DEF Places, PeerGivesUp, Finish
  <2>2. id' \in [Peers -> Ids] /\ expected' \in [Peers -> Ids]
    BY <1>0, SeqSpaceAssumption DEF PeerGivesUp, Finish, TypeOK, Ids, Places
  <2> QED
    BY <1>0, <1>2, <2>1, <2>2 DEF PeerGivesUp, Finish, Moves, TypeOK, dataVars, Places
<1>4. HistoryGrows /\ ProcessEvidence'
  BY DoneKeeps DEF PeerGivesUp, Finish, Enter, dataVars
<1>6. Justified(p, out)
  BY DEF Justified
<1> QED
  BY <1>0, <1>2, <1>3, <1>4, <1>6, PartsMakeIInv

\* Exit keeps the invariant.
LEMMA ExitKeeps ==
  ASSUME IInv, NEW p \in Peers, Exit(p)
  PROVE  IInv'
<1> DEFINE out == {}
<1>0. TypeOK /\ "c" \in Peers /\ "s" \in Peers
  BY DEF IInv, Peers
<1>1. out \in SUBSET Msgs
  BY ControlMsgs
<1>2. Moves(p, out)
  BY <1>0 DEF Exit, TypeOK, Moves
<1>3. TypeOK'
  <2>1. /\ pc' \in [Peers -> Places]
        /\ attempts' \in [Peers -> 0 .. MaxAttempts - 1]
    BY <1>0 DEF Exit, TypeOK, Places
  <2> QED
    BY <1>0, <1>2, <2>1 DEF Exit, Moves, TypeOK, dataVars, Places
<1>4. HistoryGrows /\ ProcessEvidence'
  BY DoneKeeps DEF Exit, dataVars
<1>6. Justified(p, out)
  BY DEF Justified
<1> QED
  BY <1>0, <1>2, <1>3, <1>4, <1>6, PartsMakeIInv

-----------------------------------------------------------------------------
\* Initially nobody knows anything, and nothing is on its way.
LEMMA InitIInv == Init => IInv
<1> SUFFICES ASSUME Init PROVE IInv
  OBVIOUS
<1>1. 0 \in Ids /\ 0 \in 0 .. MaxAttempts - 1 /\ 0 \in 0 .. KaMiss
      /\ 0 \in 0 .. MaxDup /\ 0 \in 0 .. MaxReads
  BY SeqSpaceAssumption, ConfigAssumption DEF Ids
<1>2. TypeOK
  BY <1>1 DEF Init, TypeOK, Peers
<1> QED
  BY <1>2 DEF Init, IInv, DatagramEvidence, PlaceEvidence, OpensOnEvidence,
     ClosesOnRequest, DataBetweenOpenPeers, Peers

\* Every step keeps the inductive invariant.
LEMMA NextIInv == IInv /\ [Next]_vars => IInv'
<1> SUFFICES ASSUME IInv, [Next]_vars PROVE IInv'
  OBVIOUS
<1>1. CASE Connecting
  BY <1>1, ClientAcceptKeeps, ClientBindFailsKeeps, ClientOpensKeeps,
    ServerAnswersKeeps, ServerWaitsKeeps, ServerGivesUpKeeps,
    ServerOpensKeeps, ServerRetriesKeeps, ServerWaitsAgainKeeps,
    ServerConnectsKeeps, ClientRetriesKeeps, ClientGivesUpKeeps,
    ServerIgnoresKeeps, ServerRepeatsKeeps DEF Connecting
<1>2. CASE \E p \in Peers : Loop(p)
  BY <1>2, ReadTcpKeeps, EndTcpKeeps, RecvOtherKeeps, RecvNackKeeps,
    RecvUnexpectedKeeps, RecvExpectedKeeps, TcpTakesKeeps,
    RecvDisconnectKeeps, RecvFailsKeeps, KeepAliveKeeps, KeepAliveMissedKeeps
    DEF Loop
<1>3. CASE \E p \in Peers : Disconnecting(p)
  BY <1>3, DisconnectConfirmedKeeps, DisconnectRetriesKeeps,
    DisconnectGivesUpKeeps, PeerConfirmsKeeps, PeerRepeatsKeeps,
    PeerRetriesKeeps, PeerGivesUpKeeps DEF Disconnecting
<1>4. CASE \E p \in Peers : Exit(p)
  BY <1>4, ExitKeeps
<1>5. CASE UNCHANGED vars
  BY <1>5 DEF vars, IInv, TypeOK, DatagramEvidence, PlaceEvidence, OpensOnEvidence,
     ClosesOnRequest, DataBetweenOpenPeers
<1> QED
  BY <1>1, <1>2, <1>3, <1>4, <1>5 DEF Next

-----------------------------------------------------------------------------
\* The inductive invariant holds of every session.
THEOREM Invariance == Spec => []IInv
<1> QED
  BY InitIInv, NextIInv, PTL DEF Spec

\* The state of the two processes and of the network keeps its types.
THEOREM TypeCorrect == Spec => []TypeOK
<1>1. IInv => TypeOK
  BY DEF IInv
<1> QED
  BY <1>1, Invariance, PTL

(***************************************************************************)
(* The client opens only for a server that has had its "01", the server    *)
(* only for a client that has opened or, refused, is disconnecting.        *)
(***************************************************************************)
THEOREM OpeningIsJustified == Spec => []OpensOnEvidence
<1>1. IInv => OpensOnEvidence
  BY DEF IInv
<1> QED
  BY <1>1, Invariance, PTL

(***************************************************************************)
(* Only a peer that has called disconnect_send makes a process hang up by  *)
(* disconnect_recv.                                                        *)
(***************************************************************************)
THEOREM ClosingIsRequested == Spec => []ClosesOnRequest
<1>1. IInv => ClosesOnRequest
  BY DEF IInv
<1> QED
  BY <1>1, Invariance, PTL

\* Data is delivered only between processes that have both been connected.
THEOREM DataIsBetweenOpenPeers == Spec => []DataBetweenOpenPeers
<1>1. IInv => DataBetweenOpenPeers
  BY DEF IInv
<1> QED
  BY <1>1, Invariance, PTL

-----------------------------------------------------------------------------
(***************************************************************************)
(* A process that has lost its peer.                                       *)
(***************************************************************************)
\* There are finitely many datagrams.
LEMMA FinitelyManyMsgs ==
  ASSUME NEW S \in SUBSET Msgs
  PROVE  IsFiniteSet(S) /\ Cardinality(S) \in Nat
<1> DEFINE kinds == {"01", "02", "03", "08", "09", "ka"}
           f == [x \in kinds \X Ids |-> [t |-> x[1], seq |-> x[2]]]
<1>1. IsFiniteSet(kinds)
  <2>1. IsFiniteSet({"01"}) /\ IsFiniteSet({"02"}) /\ IsFiniteSet({"03"})
        /\ IsFiniteSet({"08"}) /\ IsFiniteSet({"09"}) /\ IsFiniteSet({"ka"})
    BY FS_Singleton
  <2>2. kinds = {"01"} \cup ({"02"} \cup ({"03"} \cup ({"08"} \cup ({"09"} \cup {"ka"}))))
    OBVIOUS
  <2> HIDE DEF kinds
  <2> QED
    BY <2>1, <2>2, FS_Union
<1>2. IsFiniteSet(Ids)
  BY SeqSpaceAssumption, FS_Interval DEF Ids
<1>3. IsFiniteSet(kinds \X Ids)
  BY <1>1, <1>2, FS_Product
<1>4. f \in Surjection(kinds \X Ids, Msgs)
  <2>1. f \in [kinds \X Ids -> Msgs]
    BY DEF Msgs
  <2>2. \A m \in Msgs : \E x \in kinds \X Ids : f[x] = m
    <3> SUFFICES ASSUME NEW m \in Msgs PROVE \E x \in kinds \X Ids : f[x] = m
      OBVIOUS
    <3>1. <<m.t, m.seq>> \in kinds \X Ids /\ f[<<m.t, m.seq>>] = m
      BY DEF Msgs
    <3> QED
      BY <3>1
  <2> HIDE DEF f, kinds
  <2> QED
    BY <2>1, <2>2 DEF Surjection
<1> HIDE DEF f, kinds
<1>5. IsFiniteSet(Msgs)
  BY <1>3, <1>4, FS_Surjection
<1> QED
  BY <1>5, FS_Subset, FS_CardinalityType

\* The numbers of Left.
LEMMA LeftIsNatural ==
  ASSUME TypeOK, NEW p \in Peers
  PROVE  /\ dups \in Nat /\ MaxDup - dups \in Nat /\ MaxReads - reads[p] \in Nat
         /\ IsFiniteSet(net[p]) /\ Cardinality(net[p]) \in Nat
         /\ net[p] \subseteq Msgs /\ reads[p] \in Nat
         /\ attempts[p] \in Nat /\ MaxAttempts - attempts[p] \in Nat
         /\ outer \in Nat /\ MaxAttempts - outer \in Nat
         /\ threshold[p] \in Nat /\ KaMiss - threshold[p] \in Nat
<1>1. net[p] \in SUBSET Msgs
  BY DEF TypeOK
<1>2. IsFiniteSet(net[p]) /\ Cardinality(net[p]) \in Nat
  BY <1>1, FinitelyManyMsgs
<1> QED
  BY <1>1, <1>2, ConfigAssumption DEF TypeOK

\* p has received a datagram: there is one less on its way, or one repetition.
LEMMA HeardIsLess ==
  ASSUME TypeOK, NEW p \in Peers, NEW m, NEW out, m # NoMsg,
         Recv(p, m, out), UNCHANGED reads
  PROVE  Below(Left(p)', Left(p))
<1>1. CASE m \in net[p] /\ UNCHANGED dups /\ net'[p] = net[p] \ {m}
  <2>1. Cardinality(net'[p]) = Cardinality(net[p]) - 1
    BY <1>1, LeftIsNatural, FS_RemoveElement
  <2>2. Left(p)'[3] < Left(p)[3]
    BY <2>1, LeftIsNatural DEF Left
  <2>3. 3 \in 1 .. 6 /\ \A h \in 1 .. 3 - 1 : Left(p)'[h] = Left(p)[h]
    <3>1. Left(p)'[1] = Left(p)[1] /\ Left(p)'[2] = Left(p)[2]
      BY <1>1 DEF Left
    <3> QED
      BY <3>1
  <2> QED
    BY <2>2, <2>3 DEF Below
<1>2. CASE dups' = dups + 1
  <2>1. Left(p)'[1] < Left(p)[1]
    BY <1>2, LeftIsNatural, ConfigAssumption DEF Left
  <2>2. 1 \in 1 .. 6 /\ \A h \in 1 .. 1 - 1 : Left(p)'[h] = Left(p)[h]
    OBVIOUS
  <2> QED
    BY <2>1, <2>2 DEF Below
<1>3. \/ m \in net[p] /\ UNCHANGED dups /\ net'[p] = net[p] \ {m}
      \/ dups' = dups + 1
  BY OtherPeer DEF Recv, TypeOK
<1> QED
  BY <1>1, <1>2, <1>3

\* p has heard nothing and read nothing.
Quiet(p) == UNCHANGED <<dups, reads>> /\ net'[p] = net[p]

LEMMA SendIsQuiet ==
  ASSUME TypeOK, NEW p \in Peers, NEW out, Send(p, out), UNCHANGED reads
  PROVE  Quiet(p)
BY OtherPeer DEF Send, Quiet, TypeOK

LEMMA TimeoutIsQuiet ==
  ASSUME TypeOK, NEW p \in Peers, NEW out, Recv(p, NoMsg, out), UNCHANGED reads
  PROVE  Quiet(p)
<1>1. NoMsg \notin net[p]
  BY ControlMsgs DEF TypeOK
<1> QED
  BY <1>1, SendIsQuiet DEF Recv

\* It has gone on to another place.
LEMMA PlaceIsLess ==
  ASSUME NEW p \in Peers, Quiet(p), Place(p)' < Place(p)
  PROVE  Below(Left(p)', Left(p))
<1>1. Left(p)'[4] < Left(p)[4] /\ 4 \in 1 .. 6
  BY DEF Left
<1>2. \A h \in 1 .. 4 - 1 : Left(p)'[h] = Left(p)[h]
  <2>1. Left(p)'[1] = Left(p)[1] /\ Left(p)'[2] = Left(p)[2] /\ Left(p)'[3] = Left(p)[3]
    BY DEF Left, Quiet
  <2> QED
    BY <2>1
<1> QED
  BY <1>1, <1>2 DEF Below

\* It has used up an attempt of the outer loop.
LEMMA OuterIsLess ==
  ASSUME NEW p \in Peers, Quiet(p), Place(p)' = Place(p),
         OuterAttempts(p)' < OuterAttempts(p)
  PROVE  Below(Left(p)', Left(p))
<1>1. Left(p)'[5] < Left(p)[5] /\ 5 \in 1 .. 6
  BY DEF Left
<1>2. \A h \in 1 .. 5 - 1 : Left(p)'[h] = Left(p)[h]
  <2>1. /\ Left(p)'[1] = Left(p)[1] /\ Left(p)'[2] = Left(p)[2]
        /\ Left(p)'[3] = Left(p)[3] /\ Left(p)'[4] = Left(p)[4]
    BY DEF Left, Quiet
  <2> QED
    BY <2>1
<1> QED
  BY <1>1, <1>2 DEF Below

\* It has used up an attempt, or a keep-alive.
LEMMA PatienceIsLess ==
  ASSUME NEW p \in Peers, Quiet(p), Place(p)' = Place(p),
         OuterAttempts(p)' = OuterAttempts(p), Patience(p)' < Patience(p)
  PROVE  Below(Left(p)', Left(p))
<1>1. Left(p)'[6] < Left(p)[6] /\ 6 \in 1 .. 6
  BY DEF Left
<1>2. \A h \in 1 .. 6 - 1 : Left(p)'[h] = Left(p)[h]
  <2>1. /\ Left(p)'[1] = Left(p)[1] /\ Left(p)'[2] = Left(p)[2] /\ Left(p)'[3] = Left(p)[3]
        /\ Left(p)'[4] = Left(p)[4] /\ Left(p)'[5] = Left(p)[5]
    BY DEF Left, Quiet
  <2> QED
    BY <2>1
<1> QED
  BY <1>1, <1>2 DEF Below

\* The two kinds of quiet steps.
LEMMA EnterIsLess ==
  ASSUME TypeOK, NEW p \in Peers, NEW loop, Quiet(p), Enter(p, loop),
         \/ loop = "done" /\ pc[p] # "done"
         \/ loop \in {"dsend", "drecv"} /\ pc[p] \notin {"done", "dsend", "drecv"}
         \/ loop = "loop" /\ pc[p] \in {"hp", "bind", "wait", "ack"}
         \/ loop = "hp" /\ pc[p] = "bind" /\ p = "c"
         \/ loop = "bind" /\ p = "s" /\ pc[p] \in {"wait", "ack"}
  PROVE  Below(Left(p)', Left(p))
<1>1. pc'[p] = loop
  BY DEF Enter, TypeOK
<1>2. Place(p)' < Place(p)
  BY <1>1 DEF Place, Peers
<1> QED
  BY <1>2, PlaceIsLess

LEMMA AgainIsLess ==
  ASSUME TypeOK, NEW p \in Peers, Quiet(p), Again(p), UNCHANGED outer,
         pc[p] \in {"hp", "wait", "ack", "dsend", "drecv"}
  PROVE  Below(Left(p)', Left(p))
<1>1. pc' = pc /\ attempts'[p] = attempts[p] + 1 /\ attempts[p] + 1 < MaxAttempts
  BY DEF Again, TypeOK
<1>2. Place(p)' = Place(p)
  BY <1>1 DEF Place
<1>3. MaxAttempts - attempts'[p] < MaxAttempts - attempts[p]
  BY <1>1, LeftIsNatural, ConfigAssumption
<1>4. CASE pc[p] = "wait"
  <2>1. OuterAttempts(p)' < OuterAttempts(p)
    BY <1>1, <1>3, <1>4, LeftIsNatural, ConfigAssumption DEF OuterAttempts
  <2> QED
    BY <1>2, <2>1, OuterIsLess
<1>5. CASE pc[p] # "wait"
  <2>1. OuterAttempts(p)' = OuterAttempts(p)
    BY <1>1, <1>5 DEF OuterAttempts
  <2>2. Patience(p)' < Patience(p)
    BY <1>1, <1>3 DEF Patience
  <2> QED
    BY <1>2, <2>1, <2>2, PatienceIsLess
<1> QED
  BY <1>4, <1>5

\* A process that is done takes no steps.
LEMMA DoneIsDone ==
  ASSUME NEW p \in Peers, pc[p] = "done"
  PROVE  /\ ~Loop(p) /\ ~Disconnecting(p) /\ ~Exit(p)
<1>1. ~Loop(p)
  BY DEF Loop, ReadTcp, EndTcp, Served, TcpTakes, RecvFails, KeepAlive, KeepAliveMissed,
         RecvOther, RecvNack, RecvUnexpected, RecvExpected, Accept, RecvDisconnect
<1>2. ~Disconnecting(p)
  BY DEF Disconnecting, DisconnectConfirmed, DisconnectRetries, DisconnectGivesUp,
         PeerConfirms, PeerRetries, PeerGivesUp, PeerRepeats
<1>3. ~Exit(p)
  BY DEF Exit
<1> QED
  BY <1>1, <1>2, <1>3

\* The steps of the client before the loop.
LEMMA ClientConnectingIsLess ==
  ASSUME TypeOK, pc["s"] = "done", Connecting
  PROVE  Below(Left("c")', Left("c"))
<1>0. "c" \in Peers
  BY DEF Peers
<1>1. CASE ClientAccept
  BY <1>0, <1>1, SendIsQuiet, EnterIsLess DEF ClientAccept, dataVars
<1>2. CASE ClientBindFails
  BY <1>0, <1>2, SendIsQuiet, EnterIsLess DEF ClientBindFails, Disconnect, dataVars
<1>3. CASE ClientOpens
  <2>1. Ctl("03") # NoMsg
    BY DEF Ctl, NoMsg
  <2> QED
    BY <1>0, <1>3, <2>1, HeardIsLess DEF ClientOpens, dataVars
<1>4. ASSUME NEW m, ClientRetries(m) PROVE Below(Left("c")', Left("c"))
  <2>1. CASE m = NoMsg
    BY <1>0, <1>4, <2>1, TimeoutIsQuiet, AgainIsLess DEF ClientRetries, dataVars
  <2>2. CASE m # NoMsg
    BY <1>0, <1>4, <2>2, HeardIsLess DEF ClientRetries, dataVars
  <2> QED
    BY <2>1, <2>2
<1>5. ASSUME NEW m, ClientGivesUp(m) PROVE Below(Left("c")', Left("c"))
  <2>1. CASE m = NoMsg
    BY <1>0, <1>5, <2>1, TimeoutIsQuiet, EnterIsLess DEF ClientGivesUp, Disconnect, dataVars
  <2>2. CASE m # NoMsg
    BY <1>0, <1>5, <2>2, HeardIsLess DEF ClientGivesUp, dataVars
  <2> QED
    BY <2>1, <2>2
<1> QED
  BY <1>1, <1>2, <1>3, <1>4, <1>5
     DEF Connecting, ServerAnswers, ServerWaits, ServerGivesUp, ServerOpens, ServerRetries,
         ServerWaitsAgain, ServerConnects, ServerIgnores, ServerRepeats

\* The steps of the server before the loop.
LEMMA ServerConnectingIsLess ==
  ASSUME TypeOK, pc["c"] = "done", Connecting
  PROVE  Below(Left("s")', Left("s"))
<1>0. "s" \in Peers
  BY DEF Peers
<1>1. CASE ServerAnswers
  <2>1. Ctl("01") # NoMsg
    BY DEF Ctl, NoMsg
  <2> QED
    BY <1>0, <1>1, <2>1, HeardIsLess DEF ServerAnswers, dataVars
<1>2. ASSUME NEW m, ServerIgnores(m) PROVE Below(Left("s")', Left("s"))
  BY <1>0, <1>2, HeardIsLess DEF ServerIgnores, dataVars
<1>3. CASE ServerWaits
  BY <1>0, <1>3, SendIsQuiet, AgainIsLess DEF ServerWaits, dataVars
<1>4. CASE ServerGivesUp
  BY <1>0, <1>4, SendIsQuiet, EnterIsLess DEF ServerGivesUp, Disconnect, dataVars
<1>5. CASE ServerOpens
  <2>1. Ctl("03") # NoMsg
    BY DEF Ctl, NoMsg
  <2> QED
    BY <1>0, <1>5, <2>1, HeardIsLess DEF ServerOpens, dataVars
<1>6. ASSUME NEW m, ServerRepeats(m) PROVE Below(Left("s")', Left("s"))
  BY <1>0, <1>6, HeardIsLess DEF ServerRepeats, dataVars
<1>7. CASE ServerRetries
  BY <1>0, <1>7, SendIsQuiet, AgainIsLess DEF ServerRetries, dataVars
<1>8. CASE ServerWaitsAgain
  \* the outer loop goes on with the attempts it had left
  <2>1. Quiet("s")
    BY <1>8 DEF ServerWaitsAgain, Quiet, dataVars
  <2>2. pc["s"] = "ack" /\ pc'["s"] = "wait" /\ attempts'["s"] = outer
    BY <1>0, <1>8 DEF ServerWaitsAgain, TypeOK
  <2>3. Place("s")' = Place("s")
    BY <2>2 DEF Place
  <2>4. OuterAttempts("s")' < OuterAttempts("s")
    BY <1>0, <2>2, LeftIsNatural DEF OuterAttempts
  <2> QED
    BY <1>0, <2>1, <2>3, <2>4, OuterIsLess
<1>9. CASE ServerConnects
  <2>1. Quiet("s")
    BY <1>9 DEF ServerConnects, Quiet, dataVars
  <2> QED
    BY <1>0, <1>9, <2>1, EnterIsLess DEF ServerConnects
<1> QED
  BY <1>1, <1>2, <1>3, <1>4, <1>5, <1>6, <1>7, <1>8, <1>9
     DEF Connecting, ClientAccept, ClientBindFails, ClientOpens, ClientRetries, ClientGivesUp

\* The steps of the loop.
LEMMA LoopIsLess ==
  ASSUME TypeOK, NEW p \in Peers, Loop(p)
  PROVE  Below(Left(p)', Left(p))
<1>0. pc[p] \in {"loop", "deliver"}
  BY DEF Loop, ReadTcp, EndTcp, Served, TcpTakes, RecvFails, KeepAlive, KeepAliveMissed,
         RecvOther, RecvNack, RecvUnexpected, RecvExpected, Accept, RecvDisconnect
<1>1. CASE ReadTcp(p)
  <2>1. reads'[p] = reads[p] + 1 /\ dups' = dups
    BY <1>1 DEF ReadTcp, Send, TypeOK
  <2>2. Left(p)'[2] < Left(p)[2]
    BY <2>1, LeftIsNatural, ConfigAssumption DEF Left
  <2>3. Left(p)'[1] = Left(p)[1]
    BY <2>1 DEF Left
  <2>4. 2 \in 1 .. 6 /\ \A h \in 1 .. 2 - 1 : Left(p)'[h] = Left(p)[h]
    BY <2>3
  <2> QED
    BY <2>2, <2>4 DEF Below
<1>2. CASE EndTcp(p)
  BY <1>0, <1>2, SendIsQuiet, EnterIsLess DEF EndTcp, Disconnect, dataVars
<1>3. CASE RecvFails(p)
  <2>1. Quiet(p)
    BY <1>3 DEF RecvFails, Quiet, dataVars
  <2> QED
    BY <1>0, <1>3, <2>1, EnterIsLess DEF RecvFails
<1>4. CASE KeepAlive(p)
  <2>1. Quiet(p)
    BY <1>4, SendIsQuiet DEF KeepAlive, dataVars
  <2>2. threshold'[p] = threshold[p] + 1 /\ pc' = pc
    BY <1>4 DEF KeepAlive, TypeOK
  <2>3. Place(p)' = Place(p) /\ OuterAttempts(p)' = OuterAttempts(p)
    BY <1>4, <2>2 DEF Place, OuterAttempts, KeepAlive
  <2>4. Patience(p)' < Patience(p)
    BY <1>4, <2>2, LeftIsNatural, ConfigAssumption DEF KeepAlive, Patience
  <2> QED
    BY <2>1, <2>3, <2>4, PatienceIsLess
<1>5. CASE KeepAliveMissed(p)
  BY <1>0, <1>5, SendIsQuiet, EnterIsLess DEF KeepAliveMissed, Disconnect, dataVars
<1>6. ASSUME NEW m \in net[p],
             \/ RecvOther(p, m) \/ RecvNack(p, m) \/ RecvUnexpected(p, m)
             \/ RecvExpected(p, m) \/ RecvDisconnect(p, m)
      PROVE  Below(Left(p)', Left(p))
  <2>1. m # NoMsg
    BY ControlMsgs DEF TypeOK
  <2>2. UNCHANGED reads /\ \E out : Recv(p, m, out)
    BY <1>6 DEF RecvOther, RecvNack, RecvUnexpected, RecvExpected,
                RecvDisconnect, Accept, dataVars
  <2> QED
    BY <2>1, <2>2, HeardIsLess
<1>7. CASE TcpTakes(p)
  <2>1. Quiet(p)
    BY <1>7 DEF TcpTakes, Quiet, dataVars
  <2>2. Place(p)' < Place(p)
    BY <1>7 DEF TcpTakes, Place, TypeOK
  <2> QED
    BY <2>1, <2>2, PlaceIsLess
<1> QED
  BY <1>1, <1>2, <1>3, <1>4, <1>5, <1>6, <1>7 DEF Loop

\* The steps of disconnecting.
LEMMA DisconnectingIsLess ==
  ASSUME TypeOK, NEW p \in Peers, Disconnecting(p)
  PROVE  Below(Left(p)', Left(p))
<1>1. ASSUME NEW m, m # NoMsg,
             \/ DisconnectRetries(p, m) \/ DisconnectGivesUp(p, m) \/ PeerRepeats(p, m)
      PROVE  Below(Left(p)', Left(p))
  <2>1. UNCHANGED reads /\ \E out : Recv(p, m, out)
    BY <1>1 DEF DisconnectRetries, DisconnectGivesUp, PeerRepeats, Finish, dataVars
  <2> QED
    BY <1>1, <2>1, HeardIsLess
<1>2. CASE DisconnectConfirmed(p) \/ PeerConfirms(p)
  <2>1. UNCHANGED reads /\ Ctl("03") # NoMsg /\ \E out : Recv(p, Ctl("03"), out)
    BY <1>2 DEF DisconnectConfirmed, PeerConfirms, Finish, Ctl, NoMsg
  <2> QED
    BY <2>1, HeardIsLess
<1>3. CASE DisconnectRetries(p, NoMsg)
  BY <1>3, TimeoutIsQuiet, AgainIsLess DEF DisconnectRetries, dataVars
<1>4. CASE DisconnectGivesUp(p, NoMsg)
  BY <1>4, TimeoutIsQuiet, EnterIsLess DEF DisconnectGivesUp, Finish
<1>5. CASE PeerRetries(p)
  BY <1>5, SendIsQuiet, AgainIsLess DEF PeerRetries, dataVars
<1>6. CASE PeerGivesUp(p)
  <2>1. Quiet(p)
    BY <1>6 DEF PeerGivesUp, Finish, Quiet
  <2> QED
    BY <1>6, <2>1, EnterIsLess DEF PeerGivesUp, Finish
<1>7. ASSUME NEW m \in net[p], PeerRepeats(p, m) PROVE Below(Left(p)', Left(p))
  BY <1>1, <1>7 DEF PeerRepeats
<1> QED
  BY <1>1, <1>2, <1>3, <1>4, <1>5, <1>6, <1>7 DEF Disconnecting

(***************************************************************************)
(* A process whose peer is gone goes downhill: Left is made of natural     *)
(* numbers, and each of its steps makes it smaller.  With a process that   *)
(* is not stuck for ever this is why PeersEndTogether holds.               *)
(***************************************************************************)
THEOREM SurvivorEnds == Spec => AloneRunsDown
<1>1. ASSUME TypeOK, Next, NEW p \in Peers, pc[Other(p)] = "done"
      PROVE  Below(Left(p)', Left(p))
  <2>1. CASE Connecting
    <3>1. \/ p = "c" /\ Other(p) = "s"
          \/ p = "s" /\ Other(p) = "c"
      BY DEF Peers, Other
    <3> QED
      BY <1>1, <2>1, <3>1, ClientConnectingIsLess, ServerConnectingIsLess
  <2>2. ASSUME NEW q \in Peers, Loop(q) \/ Disconnecting(q) \/ Exit(q)
        PROVE  Below(Left(p)', Left(p))
    <3>1. q = p
      BY <1>1, <2>2, OtherPeer, DoneIsDone
    <3>2. CASE Exit(p)
      <4>1. Quiet(p)
        BY <3>2 DEF Exit, Quiet, dataVars
      <4>2. pc[p] # "done" /\ pc'[p] = "done"
        BY <1>1, <3>2 DEF Exit, TypeOK
      <4>3. Place(p)' < Place(p)
        BY <4>2 DEF Place
      <4> QED
        BY <4>1, <4>3, PlaceIsLess
    <3> QED
      BY <1>1, <2>2, <3>1, <3>2, LoopIsLess, DisconnectingIsLess
  <2> QED
    BY <1>1, <2>1, <2>2 DEF Next
<1>2. TypeOK /\ [Next]_vars =>
        [\A p \in Peers : pc[Other(p)] = "done" => Below(Left(p)', Left(p))]_vars
  BY <1>1
<1> QED
  BY <1>2, TypeCorrect, PTL DEF Spec, AloneRunsDown
=============================================================================
