-------------------------- MODULE QuicSessionProofs --------------------------
(***************************************************************************)
(* What a QUIC session reports at its end, and that it implements the      *)
(* abstract tunnel, for any number of chunks.                              *)
(***************************************************************************)
EXTENDS QuicSession, TLAPS

USE DEF Peers, Other

\* The initial state satisfies the inductive invariant.
LEMMA InitIInv == Init => IInv
<1> SUFFICES ASSUME Init PROVE IInv
  OBVIOUS
<1> USE DEF Init
<1>1. TypeOK
  <2>1. /\ 0 \in 0 .. 2 /\ 0 \in 0 .. 1 /\ 0 \in Nat
    BY SMT
  <2>2. /\ written \in [Peers -> Nat] /\ arrived \in [Peers -> Nat]
        /\ delivered \in [Peers -> Nat]
        /\ discs \in [Peers -> 0 .. 2] /\ early \in [Peers -> 0 .. 1]
    BY <2>1
  <2> QED
    BY <2>2 DEF TypeOK
<1>2. ChunksFlow /\ EndIsExplained /\ PlaceEvidence /\ ReportsCounted
  BY DEF ChunksFlow, EndIsExplained, PlaceEvidence, ReportsCounted
<1> QED
  BY <1>1, <1>2 DEF IInv

LEMMA ConnectReturnsIInv ==
  ASSUME IInv, NEW p \in Peers, ConnectReturns(p)
  PROVE  IInv'
<1> USE DEF ConnectReturns, Goto, Back, dataVars, tlsVars, closeVars
<1>1. TypeOK'
  BY DEF IInv, TypeOK
<1>2. ChunksFlow'
  BY DEF IInv, TypeOK, ChunksFlow
<1>3. EndIsExplained'
  BY DEF IInv, TypeOK, ChunksFlow, EndIsExplained, PlaceEvidence, ReportsCounted
<1>4. PlaceEvidence'
  BY DEF IInv, TypeOK, PlaceEvidence
<1>5. ReportsCounted'
  BY DEF IInv, TypeOK, PlaceEvidence, ReportsCounted
<1> QED
  BY <1>1, <1>2, <1>3, <1>4, <1>5 DEF IInv

LEMMA RecvReturnsIInv ==
  ASSUME IInv, NEW p \in Peers, RecvReturns(p)
  PROVE  IInv'
<1> USE DEF RecvReturns, Goto, Back, dataVars, tlsVars, closeVars
<1>1. TypeOK'
  BY DEF IInv, TypeOK
<1>2. ChunksFlow'
  BY DEF IInv, TypeOK, ChunksFlow
<1>3. EndIsExplained'
  BY DEF IInv, TypeOK, ChunksFlow, EndIsExplained, PlaceEvidence, ReportsCounted
<1>4. PlaceEvidence'
  BY DEF IInv, TypeOK, PlaceEvidence
<1>5. ReportsCounted'
  BY DEF IInv, TypeOK, PlaceEvidence, ReportsCounted
<1> QED
  BY <1>1, <1>2, <1>3, <1>4, <1>5 DEF IInv

LEMMA EventsEndIInv ==
  ASSUME IInv, NEW p \in Peers, EventsEnd(p)
  PROVE  IInv'
<1> USE DEF EventsEnd, Goto, Disconnect, Recorded, Ended, Alive, Pending, dataVars, tlsVars, closeVars
<1>1. TypeOK'
  BY DEF IInv, TypeOK
<1>2. ChunksFlow'
  BY DEF IInv, TypeOK, ChunksFlow
<1>3. EndIsExplained'
  BY DEF IInv, TypeOK, ChunksFlow, EndIsExplained, PlaceEvidence, ReportsCounted
<1>4. PlaceEvidence'
  BY DEF IInv, TypeOK, PlaceEvidence
<1>5. ReportsCounted'
  BY DEF IInv, TypeOK, PlaceEvidence, ReportsCounted
<1> QED
  BY <1>1, <1>2, <1>3, <1>4, <1>5 DEF IInv

LEMMA EventsPassIInv ==
  ASSUME IInv, NEW p \in Peers, EventsPass(p)
  PROVE  IInv'
<1> USE DEF EventsPass, Goto, Ended, Alive, Pending, dataVars, tlsVars, closeVars
<1>1. TypeOK'
  BY DEF IInv, TypeOK
<1>2. ChunksFlow'
  BY DEF IInv, TypeOK, ChunksFlow
<1>3. EndIsExplained'
  BY DEF IInv, TypeOK, ChunksFlow, EndIsExplained, PlaceEvidence, ReportsCounted
<1>4. PlaceEvidence'
  BY DEF IInv, TypeOK, PlaceEvidence
<1>5. ReportsCounted'
  BY DEF IInv, TypeOK, PlaceEvidence, ReportsCounted
<1> QED
  BY <1>1, <1>2, <1>3, <1>4, <1>5 DEF IInv

LEMMA ReadChunkIInv ==
  ASSUME IInv, NEW p \in Peers, ReadChunk(p)
  PROVE  IInv'
<1> USE DEF ReadChunk, Goto, Pending, dataVars, tlsVars, closeVars
<1>1. TypeOK'
  BY DEF IInv, TypeOK
<1>2. ChunksFlow'
  BY DEF IInv, TypeOK, ChunksFlow
<1>3. EndIsExplained'
  BY DEF IInv, TypeOK, ChunksFlow, EndIsExplained, PlaceEvidence, ReportsCounted
<1>4. PlaceEvidence'
  BY DEF IInv, TypeOK, PlaceEvidence
<1>5. ReportsCounted'
  BY DEF IInv, TypeOK, PlaceEvidence, ReportsCounted
<1> QED
  BY <1>1, <1>2, <1>3, <1>4, <1>5 DEF IInv

LEMMA ReadFailsIInv ==
  ASSUME IInv, NEW p \in Peers, ReadFails(p)
  PROVE  IInv'
<1> USE DEF ReadFails, Goto, Disconnect, Alive, Pending, dataVars, tlsVars, closeVars
<1>1. TypeOK'
  BY DEF IInv, TypeOK
<1>2. ChunksFlow'
  BY DEF IInv, TypeOK, ChunksFlow
<1>3. EndIsExplained'
  BY DEF IInv, TypeOK, ChunksFlow, EndIsExplained, PlaceEvidence, ReportsCounted
<1>4. PlaceEvidence'
  BY DEF IInv, TypeOK, PlaceEvidence
<1>5. ReportsCounted'
  BY DEF IInv, TypeOK, PlaceEvidence, ReportsCounted
<1> QED
  BY <1>1, <1>2, <1>3, <1>4, <1>5 DEF IInv

LEMMA ReadNothingIInv ==
  ASSUME IInv, NEW p \in Peers, ReadNothing(p)
  PROVE  IInv'
<1> USE DEF ReadNothing, Goto, Pending, dataVars, tlsVars, closeVars
<1>1. TypeOK'
  BY DEF IInv, TypeOK
<1>2. ChunksFlow'
  BY DEF IInv, TypeOK, ChunksFlow
<1>3. EndIsExplained'
  BY DEF IInv, TypeOK, ChunksFlow, EndIsExplained, PlaceEvidence, ReportsCounted
<1>4. PlaceEvidence'
  BY DEF IInv, TypeOK, PlaceEvidence
<1>5. ReportsCounted'
  BY DEF IInv, TypeOK, PlaceEvidence, ReportsCounted
<1> QED
  BY <1>1, <1>2, <1>3, <1>4, <1>5 DEF IInv

LEMMA DrainedIInv ==
  ASSUME IInv, NEW p \in Peers, Drained(p)
  PROVE  IInv'
<1> USE DEF Drained, Goto, Alive, Pending, dataVars, tlsVars, closeVars
<1>1. TypeOK'
  BY DEF IInv, TypeOK
<1>2. ChunksFlow'
  BY DEF IInv, TypeOK, ChunksFlow
<1>3. EndIsExplained'
  BY DEF IInv, TypeOK, ChunksFlow, EndIsExplained, PlaceEvidence, ReportsCounted
<1>4. PlaceEvidence'
  BY DEF IInv, TypeOK, PlaceEvidence
<1>5. ReportsCounted'
  BY DEF IInv, TypeOK, PlaceEvidence, ReportsCounted
<1> QED
  BY <1>1, <1>2, <1>3, <1>4, <1>5 DEF IInv

LEMMA WakesIInv ==
  ASSUME IInv, NEW p \in Peers, Wakes(p)
  PROVE  IInv'
<1> USE DEF Wakes, Goto, dataVars, tlsVars, closeVars
<1>1. TypeOK'
  BY DEF IInv, TypeOK
<1>2. ChunksFlow'
  BY DEF IInv, TypeOK, ChunksFlow
<1>3. EndIsExplained'
  BY DEF IInv, TypeOK, ChunksFlow, EndIsExplained, PlaceEvidence, ReportsCounted
<1>4. PlaceEvidence'
  BY DEF IInv, TypeOK, PlaceEvidence
<1>5. ReportsCounted'
  BY DEF IInv, TypeOK, PlaceEvidence, ReportsCounted
<1> QED
  BY <1>1, <1>2, <1>3, <1>4, <1>5 DEF IInv

LEMMA ShutdownSendsIInv ==
  ASSUME IInv, NEW p \in Peers, ShutdownSends(p)
  PROVE  IInv'
<1> USE DEF ShutdownSends, dataVars, tlsVars, closeVars
<1>1. TypeOK'
  BY DEF IInv, TypeOK
<1>2. ChunksFlow'
  BY DEF IInv, TypeOK, ChunksFlow
<1>3. EndIsExplained'
  BY DEF IInv, TypeOK, ChunksFlow, EndIsExplained, PlaceEvidence, ReportsCounted
<1>4. PlaceEvidence'
  BY DEF IInv, TypeOK, PlaceEvidence
<1>5. ReportsCounted'
  BY DEF IInv, TypeOK, PlaceEvidence, ReportsCounted
<1> QED
  BY <1>1, <1>2, <1>3, <1>4, <1>5 DEF IInv

LEMMA ShutdownCompletesIInv ==
  ASSUME IInv, NEW p \in Peers, ShutdownCompletes(p)
  PROVE  IInv'
<1> USE DEF ShutdownCompletes, Goto, Recorded, FinishDisconnect, CallerGoesOn, dataVars, tlsVars, closeVars
<1>1. TypeOK'
  BY DEF IInv, TypeOK, PlaceEvidence, ReportsCounted
<1>2. ChunksFlow'
  BY DEF IInv, TypeOK, ChunksFlow
<1>3. EndIsExplained'
  BY DEF IInv, TypeOK, ChunksFlow, EndIsExplained, PlaceEvidence, ReportsCounted
<1>4. PlaceEvidence'
  BY DEF IInv, TypeOK, PlaceEvidence
<1>5. ReportsCounted'
  BY DEF IInv, TypeOK, PlaceEvidence, ReportsCounted
<1> QED
  BY <1>1, <1>2, <1>3, <1>4, <1>5 DEF IInv

LEMMA ShutdownFailsIInv ==
  ASSUME IInv, NEW p \in Peers, ShutdownFails(p)
  PROVE  IInv'
<1> USE DEF ShutdownFails, Goto, FinishDisconnect, CallerGoesOn, dataVars, tlsVars, closeVars
<1>1. TypeOK'
  BY DEF IInv, TypeOK, PlaceEvidence, ReportsCounted
<1>2. ChunksFlow'
  BY DEF IInv, TypeOK, ChunksFlow
<1>3. EndIsExplained'
  BY DEF IInv, TypeOK, ChunksFlow, EndIsExplained, PlaceEvidence, ReportsCounted
<1>4. PlaceEvidence'
  BY DEF IInv, TypeOK, PlaceEvidence
<1>5. ReportsCounted'
  BY DEF IInv, TypeOK, PlaceEvidence, ReportsCounted
<1> QED
  BY <1>1, <1>2, <1>3, <1>4, <1>5 DEF IInv

LEMMA SetUpIInv ==
  ASSUME IInv, NEW p \in Peers, SetUp(p)
  PROVE  IInv'
<1> USE DEF SetUp, Goto, dataVars, tlsVars, closeVars
<1>1. TypeOK'
  BY DEF IInv, TypeOK
<1>2. ChunksFlow'
  BY DEF IInv, TypeOK, ChunksFlow
<1>3. EndIsExplained'
  BY DEF IInv, TypeOK, ChunksFlow, EndIsExplained, PlaceEvidence, ReportsCounted
<1>4. PlaceEvidence'
  BY DEF IInv, TypeOK, PlaceEvidence
<1>5. ReportsCounted'
  BY DEF IInv, TypeOK, PlaceEvidence, ReportsCounted
<1> QED
  BY <1>1, <1>2, <1>3, <1>4, <1>5 DEF IInv

LEMMA SetUpFailsIInv ==
  ASSUME IInv, NEW p \in Peers, SetUpFails(p)
  PROVE  IInv'
<1> USE DEF SetUpFails, Goto, dataVars, tlsVars, closeVars
<1>1. TypeOK'
  BY DEF IInv, TypeOK
<1>2. ChunksFlow'
  BY DEF IInv, TypeOK, ChunksFlow
<1>3. EndIsExplained'
  BY DEF IInv, TypeOK, ChunksFlow, EndIsExplained, PlaceEvidence, ReportsCounted
<1>4. PlaceEvidence'
  BY DEF IInv, TypeOK, PlaceEvidence
<1>5. ReportsCounted'
  BY DEF IInv, TypeOK, PlaceEvidence, ReportsCounted
<1> QED
  BY <1>1, <1>2, <1>3, <1>4, <1>5 DEF IInv

LEMMA ConnectFailsIInv ==
  ASSUME IInv, NEW p \in Peers, ConnectFails(p)
  PROVE  IInv'
<1> USE DEF ConnectFails, Goto, dataVars, tlsVars, closeVars
<1>1. TypeOK'
  BY DEF IInv, TypeOK
<1>2. ChunksFlow'
  BY DEF IInv, TypeOK, ChunksFlow
<1>3. EndIsExplained'
  BY DEF IInv, TypeOK, ChunksFlow, EndIsExplained, PlaceEvidence, ReportsCounted
<1>4. PlaceEvidence'
  BY DEF IInv, TypeOK, PlaceEvidence
<1>5. ReportsCounted'
  BY DEF IInv, TypeOK, PlaceEvidence, ReportsCounted
<1> QED
  BY <1>1, <1>2, <1>3, <1>4, <1>5 DEF IInv

LEMMA CallbackWritesIInv ==
  ASSUME IInv, NEW p \in Peers, CallbackWrites(p)
  PROVE  IInv'
<1> USE DEF CallbackWrites, Write, MaxWrites, dataVars, tlsVars, closeVars
<1>1. TypeOK'
  BY DEF IInv, TypeOK
<1>2. ChunksFlow'
  BY DEF IInv, TypeOK, ChunksFlow
<1>3. EndIsExplained'
  BY DEF IInv, TypeOK, ChunksFlow, EndIsExplained, PlaceEvidence, ReportsCounted
<1>4. PlaceEvidence'
  BY DEF IInv, TypeOK, PlaceEvidence
<1>5. ReportsCounted'
  BY DEF IInv, TypeOK, PlaceEvidence, ReportsCounted
<1> QED
  BY <1>1, <1>2, <1>3, <1>4, <1>5 DEF IInv

LEMMA CallbackDisconnectsIInv ==
  ASSUME IInv, NEW p \in Peers, CallbackDisconnects(p)
  PROVE  IInv'
<1> USE DEF CallbackDisconnects, Goto, Disconnect, dataVars, tlsVars, closeVars
<1>1. TypeOK'
  BY DEF IInv, TypeOK
<1>2. ChunksFlow'
  BY DEF IInv, TypeOK, ChunksFlow
<1>3. EndIsExplained'
  BY DEF IInv, TypeOK, ChunksFlow, EndIsExplained, PlaceEvidence, ReportsCounted
<1>4. PlaceEvidence'
  BY DEF IInv, TypeOK, PlaceEvidence
<1>5. ReportsCounted'
  BY DEF IInv, TypeOK, PlaceEvidence, ReportsCounted
<1> QED
  BY <1>1, <1>2, <1>3, <1>4, <1>5 DEF IInv

LEMMA LoopFailsIInv ==
  ASSUME IInv, NEW p \in Peers, LoopFails(p)
  PROVE  IInv'
<1> USE DEF LoopFails, Goto, dataVars, tlsVars, closeVars
<1>1. TypeOK'
  BY DEF IInv, TypeOK
<1>2. ChunksFlow'
  BY DEF IInv, TypeOK, ChunksFlow
<1>3. EndIsExplained'
  BY DEF IInv, TypeOK, ChunksFlow, EndIsExplained, PlaceEvidence, ReportsCounted
<1>4. PlaceEvidence'
  BY DEF IInv, TypeOK, PlaceEvidence
<1>5. ReportsCounted'
  BY DEF IInv, TypeOK, PlaceEvidence, ReportsCounted
<1> QED
  BY <1>1, <1>2, <1>3, <1>4, <1>5 DEF IInv

LEMMA TcpTakesIInv ==
  ASSUME IInv, NEW p \in Peers, TcpTakes(p)
  PROVE  IInv'
<1> USE DEF TcpTakes, Goto, Back, dataVars, tlsVars, closeVars
<1>1. TypeOK'
  BY DEF IInv, TypeOK
<1>2. ChunksFlow'
  BY DEF IInv, TypeOK, ChunksFlow
<1>3. EndIsExplained'
  BY DEF IInv, TypeOK, ChunksFlow, EndIsExplained, PlaceEvidence, ReportsCounted
<1>4. PlaceEvidence'
  BY DEF IInv, TypeOK, PlaceEvidence
<1>5. ReportsCounted'
  BY DEF IInv, TypeOK, PlaceEvidence, ReportsCounted
<1> QED
  BY <1>1, <1>2, <1>3, <1>4, <1>5 DEF IInv

LEMMA TcpFailsIInv ==
  ASSUME IInv, NEW p \in Peers, TcpFails(p)
  PROVE  IInv'
<1> USE DEF TcpFails, Goto, Back, Disconnect, dataVars, tlsVars, closeVars
<1>1. TypeOK'
  BY DEF IInv, TypeOK
<1>2. ChunksFlow'
  BY DEF IInv, TypeOK, ChunksFlow
<1>3. EndIsExplained'
  BY DEF IInv, TypeOK, ChunksFlow, EndIsExplained, PlaceEvidence, ReportsCounted
<1>4. PlaceEvidence'
  BY DEF IInv, TypeOK, PlaceEvidence
<1>5. ReportsCounted'
  BY DEF IInv, TypeOK, PlaceEvidence, ReportsCounted
<1> QED
  BY <1>1, <1>2, <1>3, <1>4, <1>5 DEF IInv

LEMMA InputIInv ==
  ASSUME IInv, NEW p \in Peers, Input(p)
  PROVE  IInv'
<1> USE DEF Input, Goto, Write, MaxWrites, dataVars, tlsVars, closeVars
<1>1. TypeOK'
  BY DEF IInv, TypeOK
<1>2. ChunksFlow'
  BY DEF IInv, TypeOK, ChunksFlow
<1>3. EndIsExplained'
  BY DEF IInv, TypeOK, ChunksFlow, EndIsExplained, PlaceEvidence, ReportsCounted
<1>4. PlaceEvidence'
  BY DEF IInv, TypeOK, PlaceEvidence
<1>5. ReportsCounted'
  BY DEF IInv, TypeOK, PlaceEvidence, ReportsCounted
<1> QED
  BY <1>1, <1>2, <1>3, <1>4, <1>5 DEF IInv

LEMMA InputFailsIInv ==
  ASSUME IInv, NEW p \in Peers, InputFails(p)
  PROVE  IInv'
<1> USE DEF InputFails, Goto, Disconnect, dataVars, tlsVars, closeVars
<1>1. TypeOK'
  BY DEF IInv, TypeOK
<1>2. ChunksFlow'
  BY DEF IInv, TypeOK, ChunksFlow
<1>3. EndIsExplained'
  BY DEF IInv, TypeOK, ChunksFlow, EndIsExplained, PlaceEvidence, ReportsCounted
<1>4. PlaceEvidence'
  BY DEF IInv, TypeOK, PlaceEvidence
<1>5. ReportsCounted'
  BY DEF IInv, TypeOK, PlaceEvidence, ReportsCounted
<1> QED
  BY <1>1, <1>2, <1>3, <1>4, <1>5 DEF IInv

LEMMA DeinitIInv ==
  ASSUME IInv, NEW p \in Peers, Deinit(p)
  PROVE  IInv'
<1> USE DEF Deinit, Goto, dataVars, tlsVars, closeVars
<1>1. TypeOK'
  BY DEF IInv, TypeOK
<1>2. ChunksFlow'
  BY DEF IInv, TypeOK, ChunksFlow
<1>3. EndIsExplained'
  BY DEF IInv, TypeOK, ChunksFlow, EndIsExplained, PlaceEvidence, ReportsCounted
<1>4. PlaceEvidence'
  BY DEF IInv, TypeOK, PlaceEvidence
<1>5. ReportsCounted'
  BY DEF IInv, TypeOK, PlaceEvidence, ReportsCounted
<1> QED
  BY <1>1, <1>2, <1>3, <1>4, <1>5 DEF IInv

LEMMA DeinitDisconnectsIInv ==
  ASSUME IInv, NEW p \in Peers, DeinitDisconnects(p)
  PROVE  IInv'
<1> USE DEF DeinitDisconnects, Goto, Disconnect, dataVars, tlsVars, closeVars
<1>1. TypeOK'
  BY DEF IInv, TypeOK
<1>2. ChunksFlow'
  BY DEF IInv, TypeOK, ChunksFlow
<1>3. EndIsExplained'
  BY DEF IInv, TypeOK, ChunksFlow, EndIsExplained, PlaceEvidence, ReportsCounted
<1>4. PlaceEvidence'
  BY DEF IInv, TypeOK, PlaceEvidence
<1>5. ReportsCounted'
  BY DEF IInv, TypeOK, PlaceEvidence, ReportsCounted
<1> QED
  BY <1>1, <1>2, <1>3, <1>4, <1>5 DEF IInv

LEMMA DeinitUnconnectedIInv ==
  ASSUME IInv, NEW p \in Peers, DeinitUnconnected(p)
  PROVE  IInv'
<1> USE DEF DeinitUnconnected, Goto, dataVars, tlsVars, closeVars
<1>1. TypeOK'
  BY DEF IInv, TypeOK, PlaceEvidence, ReportsCounted
<1>2. ChunksFlow'
  BY DEF IInv, TypeOK, ChunksFlow
<1>3. EndIsExplained'
  BY DEF IInv, TypeOK, ChunksFlow, EndIsExplained, PlaceEvidence, ReportsCounted
<1>4. PlaceEvidence'
  BY DEF IInv, TypeOK, PlaceEvidence
<1>5. ReportsCounted'
  BY DEF IInv, TypeOK, PlaceEvidence, ReportsCounted
<1> QED
  BY <1>1, <1>2, <1>3, <1>4, <1>5 DEF IInv

LEMMA KillIInv ==
  ASSUME IInv, NEW p \in Peers, Kill(p)
  PROVE  IInv'
<1> USE DEF Kill, Goto, Back, dataVars, tlsVars, closeVars
<1>1. TypeOK'
  BY DEF IInv, TypeOK
<1>2. ChunksFlow'
  BY DEF IInv, TypeOK, ChunksFlow
<1>3. EndIsExplained'
  BY DEF IInv, TypeOK, ChunksFlow, EndIsExplained, PlaceEvidence, ReportsCounted
<1>4. PlaceEvidence'
  BY DEF IInv, TypeOK, PlaceEvidence
<1>5. ReportsCounted'
  BY DEF IInv, TypeOK, PlaceEvidence, ReportsCounted
<1> QED
  BY <1>1, <1>2, <1>3, <1>4, <1>5 DEF IInv

LEMMA DataArrivesIInv ==
  ASSUME IInv, NEW p \in Peers, DataArrives(p)
  PROVE  IInv'
<1> USE DEF DataArrives, Alive, Pending, dataVars, tlsVars, closeVars
<1>1. TypeOK'
  BY DEF IInv, TypeOK
<1>2. ChunksFlow'
  BY DEF IInv, TypeOK, ChunksFlow
<1>3. EndIsExplained'
  BY DEF IInv, TypeOK, ChunksFlow, EndIsExplained, PlaceEvidence, ReportsCounted
<1>4. PlaceEvidence'
  BY DEF IInv, TypeOK, PlaceEvidence
<1>5. ReportsCounted'
  BY DEF IInv, TypeOK, PlaceEvidence, ReportsCounted
<1> QED
  BY <1>1, <1>2, <1>3, <1>4, <1>5 DEF IInv

LEMMA ByeArrivesIInv ==
  ASSUME IInv, NEW p \in Peers, ByeArrives(p)
  PROVE  IInv'
<1> USE DEF ByeArrives, End, Alive, Pending, dataVars, tlsVars, closeVars
<1>1. TypeOK'
  BY DEF IInv, TypeOK
<1>2. ChunksFlow'
  BY DEF IInv, TypeOK, ChunksFlow
<1>3. EndIsExplained'
  BY DEF IInv, TypeOK, ChunksFlow, EndIsExplained, PlaceEvidence, ReportsCounted
<1>4. PlaceEvidence'
  BY DEF IInv, TypeOK, PlaceEvidence
<1>5. ReportsCounted'
  BY DEF IInv, TypeOK, PlaceEvidence, ReportsCounted
<1> QED
  BY <1>1, <1>2, <1>3, <1>4, <1>5 DEF IInv

LEMMA ConnectionLostIInv ==
  ASSUME IInv, NEW p \in Peers, ConnectionLost(p)
  PROVE  IInv'
<1> USE DEF ConnectionLost, End, Alive, Pending, dataVars, tlsVars, closeVars
<1>1. TypeOK'
  BY DEF IInv, TypeOK
<1>2. ChunksFlow'
  BY DEF IInv, TypeOK, ChunksFlow
<1>3. EndIsExplained'
  BY DEF IInv, TypeOK, ChunksFlow, EndIsExplained, PlaceEvidence, ReportsCounted
<1>4. PlaceEvidence'
  BY DEF IInv, TypeOK, PlaceEvidence
<1>5. ReportsCounted'
  BY DEF IInv, TypeOK, PlaceEvidence, ReportsCounted
<1> QED
  BY <1>1, <1>2, <1>3, <1>4, <1>5 DEF IInv

LEMMA ClientConnectsIInv ==
  ASSUME IInv, ClientConnects
  PROVE  IInv'
<1> USE DEF ClientConnects, Goto, Connected, dataVars, tlsVars, closeVars
<1>1. TypeOK'
  BY DEF IInv, TypeOK
<1>2. ChunksFlow'
  BY DEF IInv, TypeOK, ChunksFlow
<1>3. EndIsExplained'
  BY DEF IInv, TypeOK, ChunksFlow, EndIsExplained, PlaceEvidence, ReportsCounted
<1>4. PlaceEvidence'
  BY DEF IInv, TypeOK, PlaceEvidence
<1>5. ReportsCounted'
  BY DEF IInv, TypeOK, PlaceEvidence, ReportsCounted
<1> QED
  BY <1>1, <1>2, <1>3, <1>4, <1>5 DEF IInv

LEMMA ClientMisconnectsIInv ==
  ASSUME IInv, ClientMisconnects
  PROVE  IInv'
<1> USE DEF ClientMisconnects, Goto, Connected, dataVars, tlsVars, closeVars
<1>1. TypeOK'
  BY DEF IInv, TypeOK
<1>2. ChunksFlow'
  BY DEF IInv, TypeOK, ChunksFlow
<1>3. EndIsExplained'
  BY DEF IInv, TypeOK, ChunksFlow, EndIsExplained, PlaceEvidence, ReportsCounted
<1>4. PlaceEvidence'
  BY DEF IInv, TypeOK, PlaceEvidence
<1>5. ReportsCounted'
  BY DEF IInv, TypeOK, PlaceEvidence, ReportsCounted
<1> QED
  BY <1>1, <1>2, <1>3, <1>4, <1>5 DEF IInv

LEMMA ServerAcceptsIInv ==
  ASSUME IInv, ServerAccepts
  PROVE  IInv'
<1> USE DEF ServerAccepts, Goto, Connected, dataVars, tlsVars, closeVars
<1>1. TypeOK'
  BY DEF IInv, TypeOK
<1>2. ChunksFlow'
  BY DEF IInv, TypeOK, ChunksFlow
<1>3. EndIsExplained'
  BY DEF IInv, TypeOK, ChunksFlow, EndIsExplained, PlaceEvidence, ReportsCounted
<1>4. PlaceEvidence'
  BY DEF IInv, TypeOK, PlaceEvidence
<1>5. ReportsCounted'
  BY DEF IInv, TypeOK, PlaceEvidence, ReportsCounted
<1> QED
  BY <1>1, <1>2, <1>3, <1>4, <1>5 DEF IInv

\* Every step keeps the inductive invariant.
LEMMA NextIInv == IInv /\ [Next]_vars => IInv'
<1> SUFFICES ASSUME IInv, [Next]_vars PROVE IInv'
  OBVIOUS
<1>1. CASE ClientConnects \/ ClientMisconnects \/ ServerAccepts
  BY <1>1, ClientConnectsIInv, ClientMisconnectsIInv, ServerAcceptsIInv
<1>2. ASSUME NEW p \in Peers, Step(p) PROVE IInv'
  <2>1. CASE Advance(p)
    BY <2>1,
      ConnectReturnsIInv, RecvReturnsIInv, EventsEndIInv, EventsPassIInv,
      ReadChunkIInv, ReadFailsIInv, ReadNothingIInv, DrainedIInv, WakesIInv,
      ShutdownSendsIInv, ShutdownCompletesIInv, ShutdownFailsIInv
      DEF Advance
  <2>2. CASE ~Advance(p)
    BY <1>2, <2>2,
      SetUpIInv, SetUpFailsIInv, ConnectFailsIInv, CallbackWritesIInv,
      CallbackDisconnectsIInv, LoopFailsIInv, TcpTakesIInv, TcpFailsIInv,
      InputIInv, InputFailsIInv, DeinitIInv, DeinitDisconnectsIInv,
      DeinitUnconnectedIInv, KillIInv, DataArrivesIInv, ByeArrivesIInv,
      ConnectionLostIInv
      DEF Step
  <2> QED
    BY <2>1, <2>2
<1>3. CASE UNCHANGED vars
  BY <1>3 DEF vars, dataVars, tlsVars, closeVars, IInv, TypeOK, ChunksFlow,
     EndIsExplained, PlaceEvidence, ReportsCounted, MaxWrites
<1> QED
  BY <1>1, <1>2, <1>3 DEF Next

\* The inductive invariant holds in every reachable state.
THEOREM Invariance == Spec => []IInv
BY InitIInv, NextIInv, PTL DEF Spec

(***************************************************************************)
(* deinit returns OK only if all that was written has arrived, or the peer *)
(* closed first, and never hides an error of the connection.               *)
(***************************************************************************)
THEOREM OkIsOrderly == Spec => []OkMeansOrderly
<1>1. IInv => OkMeansOrderly
  <2> SUFFICES ASSUME IInv, NEW p \in Peers, final[p] = "ok"
               PROVE  ssl[p] # "error" /\ (arrived[Other(p)] = written[p] \/ bye[p])
    BY DEF OkMeansOrderly
  <2>1. ssl[p] \in {"normal", "new"}
    BY DEF IInv, EndIsExplained
  <2>2. CASE ssl[p] = "normal"
    BY <2>2 DEF IInv, EndIsExplained
  <2>3. CASE ssl[p] = "new"
    BY <2>3 DEF IInv, TypeOK, ChunksFlow, EndIsExplained
  <2> QED
    BY <2>1, <2>2, <2>3
<1> QED
  BY <1>1, Invariance, PTL

(***************************************************************************)
(* Each session is reported over exactly once, whether it ever connected   *)
(* and whether its shutdown failed or not; once more when the CONNECTED    *)
(* callback disconnects.                                                   *)
(***************************************************************************)
THEOREM DisconnectIsReported == Spec => []DisconnectReports
<1>1. IInv => DisconnectReports
  BY DEF IInv, EndIsExplained, ReportsCounted, DisconnectReports
<1> QED
  BY <1>1, Invariance, PTL

-----------------------------------------------------------------------------
(***************************************************************************)
(* An ended connection runs down: a step of p that neither reads nor       *)
(* belongs to a connection alive takes p forward.                          *)
(***************************************************************************)
\* In its callbacks and in the loop.
LEMMA LoopStepsForward ==
  ASSUME IInv, NEW p \in Peers, Ended(p),
         \/ ConnectReturns(p) \/ RecvReturns(p) \/ EventsEnd(p)
         \/ EventsPass(p) \/ ReadFails(p) \/ ReadNothing(p) \/ Drained(p)
         \/ Wakes(p) \/ LoopFails(p) \/ TcpTakes(p) \/ TcpFails(p)
         \/ InputFails(p)
  PROVE  Ended(p)' /\ RunsDown(p)
<1> USE DEF Goto, Back, Disconnect, Ended, RunsDown, Left, Place, dataVars, tlsVars, closeVars
<1>1. CASE ConnectReturns(p) \/ RecvReturns(p)
  BY <1>1 DEF ConnectReturns, RecvReturns, IInv, TypeOK, PlaceEvidence
<1>2. CASE EventsEnd(p) \/ EventsPass(p) \/ LoopFails(p)
  BY <1>2 DEF EventsEnd, EventsPass, LoopFails, IInv, TypeOK
<1>3. CASE ReadFails(p) \/ ReadNothing(p) \/ Drained(p)
  BY <1>3 DEF ReadFails, ReadNothing, Drained, IInv, TypeOK
<1>4. CASE Wakes(p) \/ InputFails(p)
  BY <1>4 DEF Wakes, InputFails, IInv, TypeOK
<1>5. CASE TcpTakes(p) \/ TcpFails(p)
  BY <1>5 DEF TcpTakes, TcpFails, IInv, TypeOK
<1> QED
  BY <1>1, <1>2, <1>3, <1>4, <1>5

\* In disconnect and in deinit.
LEMMA EndStepsForward ==
  ASSUME IInv, NEW p \in Peers, Ended(p),
         \/ ShutdownCompletes(p) \/ ShutdownFails(p) \/ CallbackDisconnects(p)
         \/ Deinit(p) \/ DeinitDisconnects(p) \/ Kill(p)
  PROVE  Ended(p)' /\ RunsDown(p)
<1> USE DEF Goto, Back, Disconnect, Ended, RunsDown, Left, Place, dataVars, tlsVars, closeVars
<1>1. CASE CallbackDisconnects(p)
  <2>1. Place(p) = 11
    BY <1>1 DEF CallbackDisconnects
  <2>2. pc'[p] = "shutdown" /\ caller'[p] = "callback"
    BY <1>1 DEF CallbackDisconnects, IInv, TypeOK
  <2>3. Place(p)' = 10
    BY <2>2
  <2>4. UNCHANGED dataVars /\ Ended(p)'
    BY <1>1 DEF CallbackDisconnects, IInv, TypeOK
  <2> HIDE DEF Place
  <2>5. Place(p)' < Place(p) /\ Left(p)' = Left(p)
    BY <2>1, <2>3, <2>4
  <2> QED
    BY <2>4, <2>5
<1>2. CASE \E st \in {"ok", "err"} : FinishDisconnect(p, st)
  <2>1. PICK st \in {"ok", "err"} : FinishDisconnect(p, st)
    BY <1>2
  <2>2. pc[p] = "shutdown" /\ closed'[p] /\ UNCHANGED <<dataVars, ssl>>
    BY <2>1 DEF FinishDisconnect, IInv, TypeOK
  <2>3. Place(p)' < Place(p)
    <3>1. CASE caller[p] = "callback"
      <4>1. pc'[p] = "callback"
        BY <2>1, <3>1 DEF FinishDisconnect, CallerGoesOn, IInv, TypeOK
      <4> QED
        BY <2>2, <3>1, <4>1
    <3>2. CASE caller[p] \in {"events", "loop"}
      <4>1. pc'[p] = "returned"
        BY <2>1, <3>2 DEF FinishDisconnect, CallerGoesOn, IInv, TypeOK
      <4> QED
        BY <2>2, <3>2, <4>1
    <3>3. CASE caller[p] = "deinit"
      <4>1. pc'[p] = "done"
        BY <2>1, <3>3 DEF FinishDisconnect, CallerGoesOn, IInv, TypeOK
      <4> QED
        BY <2>2, <3>3, <4>1
    <3> QED
      BY <2>1, <3>1, <3>2, <3>3 DEF FinishDisconnect, CallerGoesOn
  <2> HIDE DEF Place
  <2> QED
    BY <2>2, <2>3 DEF IInv, TypeOK
<1>3. CASE Deinit(p) \/ DeinitDisconnects(p)
  BY <1>3 DEF Deinit, DeinitDisconnects, IInv, TypeOK
<1>4. CASE Kill(p)
  BY <1>4 DEF Kill, IInv, TypeOK
<1>5. Recorded(p)[p] \in {"ok", "err"}
  BY DEF Recorded, IInv, TypeOK
<1> QED
  BY <1>1, <1>2, <1>3, <1>4, <1>5 DEF ShutdownCompletes, ShutdownFails

\* A chunk that is read is one less.
LEMMA ReadRunsDown ==
  ASSUME IInv, NEW p \in Peers, Ended(p), ReadChunk(p)
  PROVE  Ended(p)' /\ RunsDown(p)
BY DEF ReadChunk, Ended, RunsDown, Left, tlsVars, IInv, TypeOK

\* Nothing else can happen to p.
LEMMA NothingElse ==
  ASSUME IInv, NEW p \in Peers, Ended(p)
  PROVE  /\ ~SetUp(p) /\ ~SetUpFails(p) /\ ~ConnectFails(p) /\ ~CallbackWrites(p)
         /\ ~Input(p) /\ ~DeinitUnconnected(p) /\ ~ShutdownSends(p)
         /\ ~DataArrives(p) /\ ~ByeArrives(p) /\ ~ConnectionLost(p)
         /\ \A st : ~Connected(p, st)
BY DEF SetUp, SetUpFails, ConnectFails, CallbackWrites, Input, Write, DeinitUnconnected,
   ShutdownSends, DataArrives, ByeArrives, ConnectionLost, End, Connected, Ended, Alive,
   IInv, PlaceEvidence

\* A step of the other peer leaves p where it is.
LEMMA OtherStep ==
  ASSUME IInv, NEW p \in Peers, NEW q \in Peers \ {p}, Ended(p),
         Step(q) \/ (\E st : Connected(q, st))
  PROVE  Ended(p)' /\ RunsDown(p)
<1> USE DEF Goto, Back, Disconnect, Ended, RunsDown, dataVars, tlsVars, closeVars
<1>1. CASE Advance(q)
  BY <1>1 DEF Advance, ConnectReturns, RecvReturns, EventsEnd, EventsPass, ReadChunk,
     ReadFails, ReadNothing, Drained, Wakes, ShutdownSends, ShutdownCompletes,
     ShutdownFails, FinishDisconnect, CallerGoesOn, IInv, TypeOK
<1>2. CASE \/ SetUp(q) \/ SetUpFails(q) \/ ConnectFails(q) \/ CallbackWrites(q)
           \/ CallbackDisconnects(q) \/ LoopFails(q) \/ TcpTakes(q) \/ TcpFails(q)
  BY <1>2 DEF SetUp, SetUpFails, ConnectFails, CallbackWrites, Write,
     CallbackDisconnects, LoopFails, TcpTakes, TcpFails, IInv, TypeOK
<1>3. CASE \/ Input(q) \/ InputFails(q) \/ Deinit(q) \/ DeinitDisconnects(q)
           \/ DeinitUnconnected(q) \/ Kill(q) \/ DataArrives(q) \/ ByeArrives(q)
           \/ ConnectionLost(q)
  BY <1>3 DEF Input, Write, InputFails, Deinit, DeinitDisconnects, DeinitUnconnected,
     Kill, DataArrives, ByeArrives, ConnectionLost, End, IInv, TypeOK
<1>4. CASE \E st : Connected(q, st)
  BY <1>4 DEF Connected, IInv, TypeOK
<1> QED
  BY <1>1, <1>2, <1>3, <1>4 DEF Step

\* Every step, whoever takes it, runs an ended connection down.
LEMMA StepRunsDown ==
  ASSUME IInv, Next, NEW p \in Peers, Ended(p)
  PROVE  Ended(p)' /\ RunsDown(p)
<1>1. CASE \E q \in Peers, st \in {"up", "new", "error"} : Connected(q, st)
  BY <1>1, NothingElse, OtherStep
<1>2. CASE Step(p)
  BY <1>2, NothingElse, LoopStepsForward, EndStepsForward, ReadRunsDown DEF Step, Advance
<1>3. CASE \E q \in Peers \ {p} : Step(q)
  BY <1>3, OtherStep
<1> QED
  BY <1>1, <1>2, <1>3 DEF Next, ClientConnects, ClientMisconnects, ServerAccepts

(***************************************************************************)
(* A session whose connection has ended runs down, whatever its            *)
(* application, its peer and the path do: no more steps than its place and *)
(* what it has still to read allow are left until deinit has returned.     *)
(***************************************************************************)
THEOREM EndsRunDown == Spec => EndRunsDown
<1>1. IInv /\ [Next]_vars => [\A p \in Peers : Ended(p) => Ended(p)' /\ RunsDown(p)]_vars
  BY StepRunsDown
<1> QED
  BY <1>1, Invariance, PTL DEF Spec, EndRunsDown

-----------------------------------------------------------------------------
(***************************************************************************)
(* The refinement.  A step that changes nothing the tunnel sees is none of *)
(* its steps; the others are one each.                                     *)
(***************************************************************************)
USE DEF T!Peers, T!Other

TunnelVars == <<written, delivered, connected, discs, early>>

\* Most steps are invisible.
LEMMA InvisibleSteps ==
  ASSUME NEW p \in Peers,
         \/ ConnectReturns(p) \/ RecvReturns(p) \/ EventsEnd(p) \/ EventsPass(p)
         \/ ReadFails(p) \/ ReadNothing(p) \/ Drained(p) \/ Wakes(p) \/ ShutdownSends(p)
         \/ SetUp(p) \/ SetUpFails(p) \/ ConnectFails(p) \/ LoopFails(p) \/ TcpTakes(p)
         \/ TcpFails(p) \/ InputFails(p) \/ Deinit(p) \/ DeinitDisconnects(p) \/ Kill(p)
         \/ DataArrives(p) \/ ByeArrives(p) \/ ConnectionLost(p)
  PROVE  UNCHANGED TunnelVars
BY DEF TunnelVars, dataVars, tlsVars, closeVars, Disconnect, End,
   ConnectReturns, RecvReturns, EventsEnd, EventsPass, ReadFails, ReadNothing,
   Drained, Wakes, ShutdownSends, SetUp, SetUpFails, ConnectFails, LoopFails,
   TcpTakes, TcpFails, InputFails, Deinit, DeinitDisconnects, Kill, DataArrives,
   ByeArrives, ConnectionLost

\* A step of one peer changes its phase only.
LEMMA PhaseStep ==
  ASSUME IInv, NEW p \in Peers, UNCHANGED early,
         \A q \in Peers \ {p} : discs'[q] = discs[q] /\ connected'[q] = connected[q]
  PROVE  Phase' = [Phase EXCEPT ![p] = Phase'[p]]
BY DEF Phase

\* Connecting opens the tunnel.
LEMMA ConnectedOpens ==
  ASSUME IInv, NEW p \in Peers, NEW st, Connected(p, st)
  PROVE  T!Open(p)
<1>1. discs[p] = 0 /\ early[p] = 0 /\ ~connected[p]
  BY DEF Connected, IInv, TypeOK, PlaceEvidence, ReportsCounted
<1>2. /\ UNCHANGED <<early, discs>>
      /\ connected' = [connected EXCEPT ![p] = TRUE]
  BY DEF Connected, closeVars
<1>3. Phase[p] = "before" /\ Phase'[p] = "open"
  BY <1>1, <1>2 DEF IInv, TypeOK, Phase
<1>4. Phase' = [Phase EXCEPT ![p] = Phase'[p]]
  BY <1>2, PhaseStep DEF IInv, TypeOK
<1> QED
  BY <1>3, <1>4 DEF T!Open, Connected, dataVars

\* A peer writes while its tunnel is open.
LEMMA WriteWrites ==
  ASSUME IInv, NEW p \in Peers, CallbackWrites(p) \/ Input(p)
  PROVE  T!Write(p)
<1>1. Phase[p] = "open"
  BY DEF CallbackWrites, Input, Write, IInv, TypeOK, PlaceEvidence, ReportsCounted, Phase
<1>2. UNCHANGED <<connected, discs, early, delivered>>
      /\ written' = [written EXCEPT ![p] = @ + 1]
  BY DEF CallbackWrites, Input, Write, closeVars
<1> QED
  BY <1>1, <1>2 DEF T!Write, Phase

\* A chunk handed out was written, and the tunnel is open.
LEMMA ReadDelivers ==
  ASSUME IInv, NEW p \in Peers, ReadChunk(p)
  PROVE  T!Deliver(p)
<1>1. Phase[p] = "open"
  BY DEF ReadChunk, IInv, TypeOK, PlaceEvidence, ReportsCounted, Phase
<1>2. delivered[p] < written[Other(p)]
  BY DEF ReadChunk, Pending, IInv, TypeOK, ChunksFlow
<1>3. UNCHANGED <<connected, discs, early, written>>
      /\ delivered' = [delivered EXCEPT ![p] = @ + 1]
  BY DEF ReadChunk, closeVars
<1> QED
  BY <1>1, <1>2, <1>3 DEF T!Deliver, Phase

\* DISCONNECTED ends the tunnel, unless connect is going to undo it.
LEMMA FinishCloses ==
  ASSUME IInv, NEW p \in Peers, NEW st, FinishDisconnect(p, st)
  PROVE  T!Close(p) \/ UNCHANGED T!vars
<1>1. UNCHANGED <<connected, early, written, delivered>>
      /\ discs' = [discs EXCEPT ![p] = @ + 1]
  BY DEF FinishDisconnect, dataVars
<1>2. discs[p] = IF at[p] = "connect" THEN 0 ELSE early[p]
  BY DEF FinishDisconnect, IInv, TypeOK, PlaceEvidence, ReportsCounted
<1>3. CASE at[p] = "connect"
  <2>1. early[p] = 1
    BY <1>3 DEF FinishDisconnect, IInv, ReportsCounted
  <2>2. Phase' = Phase
    BY <1>1, <1>2, <1>3, <2>1 DEF IInv, TypeOK, Phase
  <2> QED
    BY <1>1, <2>2 DEF T!vars
<1>4. CASE at[p] # "connect"
  <2>1. Phase[p] # "over" /\ Phase'[p] = "over"
    BY <1>1, <1>2, <1>4 DEF IInv, TypeOK, Phase
  <2>2. Phase' = [Phase EXCEPT ![p] = Phase'[p]]
    BY <1>1, PhaseStep DEF IInv, TypeOK
  <2> QED
    BY <1>1, <2>1, <2>2 DEF T!Close
<1> QED
  BY <1>3, <1>4

\* deinit ends the tunnel of a peer that never connected.
LEMMA DeinitCloses ==
  ASSUME IInv, NEW p \in Peers, DeinitUnconnected(p)
  PROVE  T!Close(p)
<1>1. UNCHANGED <<connected, early, written, delivered>>
      /\ discs' = [discs EXCEPT ![p] = @ + 1]
  BY DEF DeinitUnconnected, dataVars
<1>2. discs[p] = early[p]
  BY DEF DeinitUnconnected, IInv, TypeOK, PlaceEvidence, ReportsCounted
<1>3. Phase[p] # "over" /\ Phase'[p] = "over"
  BY <1>1, <1>2 DEF IInv, TypeOK, Phase
<1>4. Phase' = [Phase EXCEPT ![p] = Phase'[p]]
  BY <1>1, PhaseStep DEF IInv, TypeOK
<1> QED
  BY <1>1, <1>3, <1>4 DEF T!Close

\* A disconnect the CONNECTED callback asks for does not end the tunnel.
LEMMA CallbackKeepsPhase ==
  ASSUME IInv, NEW p \in Peers, CallbackDisconnects(p)
  PROVE  UNCHANGED T!vars
<1>1. /\ UNCHANGED <<connected, discs, written, delivered>>
      /\ early' = IF at[p] = "connect" THEN [early EXCEPT ![p] = 1] ELSE early
  BY DEF CallbackDisconnects, Disconnect, dataVars
<1>2. at[p] = "connect" => discs[p] = 0
  BY DEF CallbackDisconnects, IInv, TypeOK, ReportsCounted
<1>3. Phase' = Phase
  <2>1. CASE at[p] = "connect"
    <3>1. early[p] = 0
      BY <2>1 DEF CallbackDisconnects, IInv, TypeOK, ReportsCounted
    <3> QED
      BY <1>1, <1>2, <2>1, <3>1 DEF IInv, TypeOK, Phase
  <2>2. CASE at[p] # "connect"
    BY <1>1, <2>2 DEF Phase
  <2> QED
    BY <2>1, <2>2
<1> QED
  BY <1>1, <1>3 DEF T!vars

\* Every step is a step of the tunnel or leaves it alone.
LEMMA StepRefines == IInv /\ [Next]_vars => [T!Next]_T!vars
<1> SUFFICES ASSUME IInv, [Next]_vars PROVE T!Next \/ UNCHANGED T!vars
  OBVIOUS
<1>0. UNCHANGED TunnelVars => UNCHANGED T!vars
  BY DEF TunnelVars, T!vars, Phase
<1>1. CASE ClientConnects \/ ClientMisconnects \/ ServerAccepts
  BY <1>1, ConnectedOpens DEF ClientConnects, ClientMisconnects, ServerAccepts, T!Next
<1>2. ASSUME NEW p \in Peers, Step(p) PROVE T!Next \/ UNCHANGED T!vars
  <2>1. CASE CallbackWrites(p) \/ Input(p)
    BY <2>1, WriteWrites DEF T!Next
  <2>2. CASE ReadChunk(p)
    BY <2>2, ReadDelivers DEF T!Next
  <2>3. CASE ShutdownCompletes(p) \/ ShutdownFails(p)
    BY <2>3, FinishCloses DEF ShutdownCompletes, ShutdownFails, T!Next
  <2>4. CASE DeinitUnconnected(p)
    BY <2>4, DeinitCloses DEF T!Next
  <2>5. CASE CallbackDisconnects(p)
    BY <2>5, CallbackKeepsPhase
  <2> QED
    BY <1>0, <1>2, <2>1, <2>2, <2>3, <2>4, <2>5, InvisibleSteps DEF Step, Advance
<1>3. CASE UNCHANGED vars
  BY <1>0, <1>3 DEF vars, TunnelVars, dataVars, closeVars
<1> QED
  BY <1>1, <1>2, <1>3 DEF Next

\* A QUIC session is a tunnel, from its first state on.
LEMMA InitRefines == Init => T!Init
BY DEF Init, T!Init, Phase

(***************************************************************************)
(* A session implements the abstract tunnel: it opens once, is over for    *)
(* good with the DISCONNECTED that follows connect, and nothing is written *)
(* or handed out before or after.                                          *)
(***************************************************************************)
THEOREM ImplementsTunnel == Spec => TunnelSpec
BY InitRefines, StepRefines, Invariance, PTL DEF Spec, TunnelSpec, T!Spec
=============================================================================
