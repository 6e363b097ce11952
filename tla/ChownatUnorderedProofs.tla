----------------------- MODULE ChownatUnorderedProofs -----------------------
(***************************************************************************)
(* Proofs about the data stream over an arbitrary UDP network, for every   *)
(* number of ids, every set of chunk lengths and every bound.              *)
(***************************************************************************)
EXTENDS ChownatUnordered, TLAPS

\* Incrementing an id yields an id, and below the wrap the next number.
LEMMA IncIsId ==
  ASSUME NEW i \in Ids
  PROVE  /\ Inc(i) \in Ids
         /\ i + 1 < SeqSpace => Inc(i) = i + 1
BY SeqSpaceAssumption DEF Ids, Inc

\* A datagram made from a chunk, whole or as a retransmission, is well typed.
LEMMA DatagramType ==
  ASSUME NEW i \in Ids, NEW c \in Chunks
  PROVE  Original(i, c) \in Datagrams /\ Retransmitted(i, c) \in Datagrams
BY DEF Original, Retransmitted, Datagram, Datagrams, Chunks, HeaderLen

\* The ids a NACK makes the sender run through are ids below its own.
LEMMA ResentAreIds ==
  ASSUME NEW got \in Ids, NEW n \in Ids, NEW i \in ResentIds(got, n)
  PROVE  i \in Ids /\ i < n
BY SeqSpaceAssumption DEF Ids, ResentIds

-----------------------------------------------------------------------------
\* Initially nothing is stored, sent or delivered.
LEMMA InitIInv == Init => IInv
<1> SUFFICES ASSUME Init PROVE IInv
  OBVIOUS
<1> USE SeqSpaceAssumption DEF Init, StreamInit, Ids, EmptySlot
<1>1. TypeOK
  BY DEF TypeOK, StreamTypeOK, Chunks, Datagrams
<1>2. SlotsFilled
  BY DEF SlotsFilled
<1>3. PieceOfChunk /\ FirstLap
  BY DEF PieceOfChunk, FirstLap
<1> QED
  BY <1>1, <1>2, <1>3 DEF IInv

-----------------------------------------------------------------------------
\* udp_send keeps the invariant: it fills the slot whose turn it is.
LEMMA UdpSendIInv ==
  ASSUME IInv, NEW len \in Sizes, UdpSend(len)
  PROVE  IInv'
<1> DEFINE c == NextChunk(len)
<1> USE SeqSpaceAssumption, SizesAssumption
<1>1. /\ id \in Ids /\ buffer \in [Ids -> Chunks] /\ written \in Seq(Sizes)
      /\ expected \in Ids /\ delivered \in Seq([k : Nat, n : Nat])
      /\ data \subseteq Datagrams /\ nacks \subseteq Ids
  BY DEF IInv, TypeOK, StreamTypeOK
<1>2. /\ buffer' = [buffer EXCEPT ![id] = c]
      /\ written' = Append(written, len)
      /\ id' = Inc(id)
      /\ expected' = expected /\ delivered' = delivered
      /\ data' = data \cup {Original(id, c)}
      /\ nacks' = nacks
  BY DEF UdpSend, StoreChunk, receiverVars
<1>3. /\ c \in Chunks /\ c.k = Len(written) + 1 /\ c.len = len
      /\ len \in Nat
  BY <1>1 DEF NextChunk, Chunks
<1>4. /\ Len(written') = Len(written) + 1
      /\ written'[Len(written) + 1] = len
      /\ \A k \in 1 .. Len(written) : written'[k] = written[k]
      /\ Len(written) \in Nat /\ Len(delivered) \in Nat
  BY <1>1, <1>2
<1>5. TypeOK'
  <2>1. id' \in Ids
    BY <1>1, <1>2, IncIsId
  <2>2. buffer' \in [Ids -> Chunks]
    BY <1>1, <1>2, <1>3
  <2>3. written' \in Seq(Sizes)
    BY <1>1, <1>2
  <2>4. data' \subseteq Datagrams
    BY <1>1, <1>2, <1>3, DatagramType
  <2> QED
    BY <1>1, <1>2, <2>1, <2>2, <2>3, <2>4 DEF TypeOK, StreamTypeOK
<1>6. SlotsFilled'
  <2> SUFFICES ASSUME NEW i \in Ids
               PROVE  \/ buffer'[i] = EmptySlot /\ i >= id' /\ Len(written') < SeqSpace
                      \/ /\ buffer'[i].k \in 1 .. Len(written')
                         /\ buffer'[i].len = written'[buffer'[i].k]
    BY DEF SlotsFilled
  <2>1. CASE i = id
    BY <2>1, <1>1, <1>2, <1>3, <1>4
  <2>2. CASE i # id
    <3>1. buffer'[i] = buffer[i]
      BY <2>2, <1>1, <1>2
    <3>2. CASE buffer[i].k \in 1 .. Len(written) /\ buffer[i].len = written[buffer[i].k]
      BY <3>1, <3>2, <1>4
    <3>3. CASE buffer[i] = EmptySlot /\ i >= id /\ Len(written) < SeqSpace
      <4>1. id = Len(written)
        BY <3>3 DEF IInv, FirstLap
      <4>2. i > id /\ id + 1 < SeqSpace
        BY <3>3, <2>2, <1>1 DEF Ids
      <4>3. id' = id + 1
        BY <4>2, <1>1, <1>2, IncIsId
      <4> QED
        BY <4>1, <4>2, <4>3, <3>1, <3>3, <1>1, <1>4 DEF Ids
    <3> QED
      BY <3>2, <3>3 DEF IInv, SlotsFilled
  <2> QED
    BY <2>1, <2>2
<1>7. (\A d \in data : InFlight(d))'
  <2>1. \A d \in data : d.k \in 1 .. Len(written')
                        /\ d.n \in {written'[d.k], written'[d.k] - HeaderLen}
    BY <1>4 DEF IInv, InFlight
  <2>2. Original(id, c).k = Len(written) + 1 /\ Original(id, c).n = len
    BY <1>3, <1>1 DEF Original, Datagram, HeaderLen
  <2> QED
    BY <2>1, <2>2, <1>2, <1>4 DEF InFlight
<1>8. PieceOfChunk'
  BY <1>2, <1>4 DEF IInv, PieceOfChunk
<1>9. FirstLap'
  <2> SUFFICES ASSUME Len(written') < SeqSpace
               PROVE  /\ id' = Len(written')
                      /\ expected' = Len(delivered')
                      /\ Len(delivered') <= Len(written')
                      /\ \A i \in 0 .. id' - 1 : buffer'[i].k = i + 1
                      /\ \A d \in data' : d.k = d.seq + 1
                      /\ \A j \in 1 .. Len(delivered') : delivered'[j].k = j
    BY DEF FirstLap
  <2>1. /\ id = Len(written)
        /\ expected = Len(delivered)
        /\ Len(delivered) <= Len(written)
        /\ \A i \in 0 .. id - 1 : buffer[i].k = i + 1
        /\ \A d \in data : d.k = d.seq + 1
        /\ \A j \in 1 .. Len(delivered) : delivered[j].k = j
    BY <1>4 DEF IInv, FirstLap
  <2>2. id' = id + 1
    BY <2>1, <1>1, <1>2, <1>4, IncIsId
  <2>3. \A i \in 0 .. id' - 1 : buffer'[i].k = i + 1
    BY <2>1, <2>2, <1>1, <1>2, <1>3 DEF Ids
  <2>4. Original(id, c).k = Original(id, c).seq + 1
    BY <2>1, <1>3 DEF Original, Datagram
  <2> QED
    BY <2>1, <2>2, <2>3, <2>4, <1>2, <1>4
<1> QED
  BY <1>5, <1>6, <1>7, <1>8, <1>9 DEF IInv

\* udp_recv of the expected datagram keeps the invariant.
LEMMA RecvExpectedIInv ==
  ASSUME IInv, NEW d \in data, RecvExpected(d)
  PROVE  IInv'
<1> USE SeqSpaceAssumption, SizesAssumption
<1>1. /\ id \in Ids /\ buffer \in [Ids -> Chunks] /\ written \in Seq(Sizes)
      /\ expected \in Ids /\ delivered \in Seq([k : Nat, n : Nat])
      /\ data \subseteq Datagrams /\ nacks \subseteq Ids
  BY DEF IInv, TypeOK, StreamTypeOK
<1>2. /\ d.n >= 0 /\ d.seq = expected
      /\ expected' = Inc(expected)
      /\ delivered' = Append(delivered, Piece(d))
      /\ id' = id /\ buffer' = buffer /\ written' = written
      /\ data' = data /\ nacks' = nacks
  BY DEF RecvExpected, Accept, senderVars
<1>3. /\ Piece(d) \in [k : Nat, n : Nat]
      /\ Piece(d).k = d.k /\ Piece(d).n = d.n
  BY <1>1, <1>2 DEF Piece, Datagrams
<1>4. /\ Len(delivered') = Len(delivered) + 1
      /\ delivered'[Len(delivered) + 1] = Piece(d)
      /\ \A j \in 1 .. Len(delivered) : delivered'[j] = delivered[j]
      /\ Len(delivered) \in Nat /\ Len(written) \in Nat
  BY <1>1, <1>2, <1>3
<1>5. InFlight(d)
  BY DEF IInv
<1>6. TypeOK'
  BY <1>1, <1>2, <1>3, IncIsId DEF TypeOK, StreamTypeOK
<1>7. SlotsFilled'
  BY <1>2 DEF IInv, SlotsFilled
<1>8. (\A e \in data : InFlight(e))'
  BY <1>2 DEF IInv, InFlight
<1>9. PieceOfChunk'
  <2> SUFFICES ASSUME NEW j \in 1 .. Len(delivered')
               PROVE  /\ delivered'[j].k \in 1 .. Len(written)
                      /\ delivered'[j].n \in {written[delivered'[j].k],
                                              written[delivered'[j].k] - HeaderLen}
    BY <1>2 DEF PieceOfChunk
  <2>1. CASE j = Len(delivered) + 1
    BY <2>1, <1>3, <1>4, <1>5 DEF InFlight
  <2>2. CASE j # Len(delivered) + 1
    BY <2>2, <1>4 DEF IInv, PieceOfChunk
  <2> QED
    BY <2>1, <2>2
<1>10. FirstLap'
  <2> SUFFICES ASSUME Len(written) < SeqSpace
               PROVE  /\ id = Len(written)
                      /\ expected' = Len(delivered')
                      /\ Len(delivered') <= Len(written)
                      /\ \A i \in 0 .. id - 1 : buffer[i].k = i + 1
                      /\ \A e \in data : e.k = e.seq + 1
                      /\ \A j \in 1 .. Len(delivered') : delivered'[j].k = j
    BY <1>2 DEF FirstLap
  <2>1. /\ id = Len(written)
        /\ expected = Len(delivered)
        /\ \A i \in 0 .. id - 1 : buffer[i].k = i + 1
        /\ \A e \in data : e.k = e.seq + 1
        /\ \A j \in 1 .. Len(delivered) : delivered[j].k = j
    BY DEF IInv, FirstLap
  <2>2. d.k = Len(delivered) + 1
    BY <2>1, <1>2
  <2>3. Len(delivered) + 1 <= Len(written)
    BY <2>2, <1>4, <1>5 DEF InFlight
  <2>4. expected' = expected + 1
    BY <2>1, <2>3, <1>1, <1>2, <1>4, IncIsId
  <2>5. \A j \in 1 .. Len(delivered') : delivered'[j].k = j
    BY <2>1, <2>2, <1>3, <1>4
  <2> QED
    BY <2>1, <2>3, <2>4, <2>5, <1>4
<1> QED
  BY <1>6, <1>7, <1>8, <1>9, <1>10 DEF IInv

\* A NACK sent keeps the invariant: it asks for an id.
LEMMA RecvUnexpectedIInv ==
  ASSUME IInv, NEW d \in data, RecvUnexpected(d)
  PROVE  IInv'
<1>1. /\ id' = id /\ buffer' = buffer /\ written' = written
      /\ expected' = expected /\ delivered' = delivered
      /\ data' = data /\ nacks' = nacks \cup {expected}
  BY DEF RecvUnexpected, Reject, streamVars
<1>2. TypeOK'
  BY <1>1 DEF IInv, TypeOK, StreamTypeOK
<1> QED
  BY <1>1, <1>2 DEF IInv, SlotsFilled, InFlight, PieceOfChunk, FirstLap

\* The retransmission loop keeps the invariant: it reads filled slots only.
LEMMA RecvNackIInv ==
  ASSUME IInv, NEW got \in nacks, RecvNack(got)
  PROVE  IInv'
<1> DEFINE R(i) == Retransmitted(i, buffer[i])
<1> USE SeqSpaceAssumption
<1>1. /\ id' = id /\ buffer' = buffer /\ written' = written
      /\ expected' = expected /\ delivered' = delivered
      /\ data' = data \cup {R(i) : i \in ResentIds(got, id)}
      /\ nacks' = nacks
  BY DEF RecvNack, streamVars
<1>2. /\ id \in Ids /\ buffer \in [Ids -> Chunks] /\ got \in Ids
      /\ data \subseteq Datagrams /\ written \in Seq(Sizes)
  BY DEF IInv, TypeOK, StreamTypeOK
<1>3. ASSUME NEW i \in ResentIds(got, id)
      PROVE  /\ R(i) \in Datagrams
             /\ R(i).k = buffer[i].k /\ R(i).seq = i
             /\ R(i).k \in 1 .. Len(written)
             /\ R(i).n = written[R(i).k] - HeaderLen
  <2>1. i \in Ids /\ i < id
    BY <1>2, ResentAreIds
  <2>2. buffer[i].k \in 1 .. Len(written) /\ buffer[i].len = written[buffer[i].k]
    BY <2>1, <1>2 DEF IInv, SlotsFilled, Ids
  <2> QED
    BY <2>1, <2>2, <1>2, DatagramType DEF Retransmitted, Datagram
<1>4. TypeOK'
  BY <1>1, <1>2, <1>3 DEF IInv, TypeOK, StreamTypeOK
<1>5. SlotsFilled' /\ PieceOfChunk'
  BY <1>1 DEF IInv, SlotsFilled, PieceOfChunk
<1>6. (\A d \in data : InFlight(d))'
  BY <1>1, <1>3 DEF IInv, InFlight
<1>7. FirstLap'
  <2>1. ASSUME Len(written) < SeqSpace
        PROVE  \A d \in data' : d.k = d.seq + 1
    <3>1. ASSUME NEW i \in ResentIds(got, id)
          PROVE  R(i).k = R(i).seq + 1
      <4>1. i \in 0 .. id - 1
        BY <1>2, ResentAreIds DEF Ids
      <4> QED
        BY <4>1, <2>1, <1>3 DEF IInv, FirstLap
    <3> QED
      BY <3>1, <2>1, <1>1 DEF IInv, FirstLap
  <2> QED
    BY <2>1, <1>1 DEF IInv, FirstLap
<1> QED
  BY <1>4, <1>5, <1>6, <1>7 DEF IInv

-----------------------------------------------------------------------------
\* The inductive invariant holds of every behaviour.
THEOREM Invariance == Spec => []IInv
<1>1. Init => IInv
  BY InitIInv
<1>2. IInv /\ [Next]_vars => IInv'
  <2> SUFFICES ASSUME IInv, [Next]_vars PROVE IInv'
    OBVIOUS
  <2>1. ASSUME NEW len \in Sizes, UdpSend(len) PROVE IInv'
    BY <2>1, UdpSendIInv
  <2>2. ASSUME NEW d \in data, RecvExpected(d) PROVE IInv'
    BY <2>2, RecvExpectedIInv
  <2>3. ASSUME NEW d \in data, RecvUnexpected(d) PROVE IInv'
    BY <2>3, RecvUnexpectedIInv
  <2>4. ASSUME NEW got \in nacks, RecvNack(got) PROVE IInv'
    BY <2>4, RecvNackIInv
  <2>5. CASE UNCHANGED vars
    BY <2>5 DEF vars, IInv, TypeOK, StreamTypeOK, SlotsFilled, InFlight,
                PieceOfChunk, FirstLap
  <2> QED
    BY <2>1, <2>2, <2>3, <2>4, <2>5 DEF Next
<1> QED
  BY <1>1, <1>2, PTL DEF Spec

\* The state of chownat_data_t keeps its types.
THEOREM TypeCorrect == Spec => []TypeOK
<1>1. IInv => TypeOK
  BY DEF IInv
<1> QED
  BY <1>1, Invariance, PTL

(***************************************************************************)
(* Whatever the network loses, repeats or reorders, a connection that has  *)
(* carried fewer than SeqSpace chunks has delivered a prefix of them.      *)
(***************************************************************************)
THEOREM DeliveryInOrder == Spec => []InOrder
<1>1. IInv => InOrder
  BY DEF IInv, FirstLap, InOrder
<1> QED
  BY <1>1, Invariance, PTL

(***************************************************************************)
(* With no bound on the stream: a delivered piece is one written chunk,    *)
(* whole or short of its last HeaderLen bytes, never a mixture.            *)
(***************************************************************************)
THEOREM PiecesAreChunks == Spec => []PieceOfChunk
<1>1. IInv => PieceOfChunk
  BY DEF IInv
<1> QED
  BY <1>1, Invariance, PTL

(***************************************************************************)
(* A connection of fewer than SeqSpace chunks implements the pipe whose    *)
(* chunks may come out without their last HeaderLen bytes.                 *)
(***************************************************************************)
THEOREM ImplementsPipe ==
  ASSUME MaxSend < SeqSpace
  PROVE  Spec => PipeSpec
<1> USE SeqSpaceAssumption, BoundsAssumption
<1>1. Init => CutPipe!Init
  BY DEF Init, StreamInit, CutPipe!Init
<1> DEFINE Short1 == Len(written) <= MaxSend
<1>2. IInv /\ Short1 /\ [Next]_vars => [CutPipe!Next]_<<written, delivered>>
  <2> SUFFICES ASSUME IInv, Short1, [Next]_vars
               PROVE  [CutPipe!Next]_<<written, delivered>>
    OBVIOUS
  <2>1. ASSUME NEW len \in Sizes, UdpSend(len)
        PROVE  CutPipe!Next
    BY <2>1 DEF UdpSend, StoreChunk, receiverVars, CutPipe!Next, CutPipe!Write
  <2>2. ASSUME NEW d \in data, RecvExpected(d)
        PROVE  CutPipe!Next
    <3>1. /\ written \in Seq(Sizes) /\ delivered \in Seq([k : Nat, n : Nat])
          /\ d \in Datagrams
      BY DEF IInv, TypeOK, StreamTypeOK
    <3>2. /\ d.seq = expected /\ written' = written
          /\ delivered' = Append(delivered, [k |-> d.k, n |-> d.n])
      BY <2>2 DEF RecvExpected, Accept, senderVars, Piece
    <3>3. d.k = Len(delivered) + 1
      BY <3>1, <3>2 DEF IInv, FirstLap
    <3>4. /\ d.k \in 1 .. Len(written)
          /\ d.n \in {written[d.k], written[d.k] - HeaderLen}
      BY DEF IInv, InFlight
    <3>5. written[d.k] \in Int
      <4>1. d.k \in 1 .. Len(written)
        BY <3>4
      <4>2. written[d.k] \in Sizes
        BY <4>1, <3>1
      <4>3. \A len \in Sizes : len \in Int
        BY SizesAssumption
      <4> QED
        BY <4>2, <4>3
    <3>6. \E s \in {0, HeaderLen} : d.n = written[d.k] - s
      BY <3>4, <3>5 DEF HeaderLen
    <3>7. CutPipe!Deliver
      BY <3>1, <3>2, <3>3, <3>4, <3>6 DEF CutPipe!Deliver
    <3> QED
      BY <3>7 DEF CutPipe!Next
  <2>3. ASSUME NEW d \in data, RecvUnexpected(d)
        PROVE  UNCHANGED <<written, delivered>>
    BY <2>3 DEF RecvUnexpected, Reject, streamVars
  <2>4. ASSUME NEW got \in nacks, RecvNack(got)
        PROVE  UNCHANGED <<written, delivered>>
    BY <2>4 DEF RecvNack, streamVars
  <2>5. CASE UNCHANGED vars
    BY <2>5 DEF vars
  <2> QED
    BY <2>1, <2>2, <2>3, <2>4, <2>5 DEF Next
<1>3. Init => Short1
  BY DEF Init, StreamInit
<1>4. TypeOK /\ Short1 /\ [Next]_vars => Short1'
  <2> SUFFICES ASSUME TypeOK, Short1, [Next]_vars PROVE Short1'
    OBVIOUS
  <2>1. written \in Seq(Sizes)
    BY DEF TypeOK, StreamTypeOK
  <2>2. ASSUME NEW len \in Sizes, UdpSend(len)
        PROVE  Short1'
    BY <2>1, <2>2 DEF UdpSend, StoreChunk
  <2>3. ASSUME NEW d \in data, RecvExpected(d) \/ RecvUnexpected(d)
        PROVE  Short1'
    BY <2>3 DEF RecvExpected, RecvUnexpected, Accept, Reject, senderVars, streamVars
  <2>4. ASSUME NEW got \in nacks, RecvNack(got)
        PROVE  Short1'
    BY <2>4 DEF RecvNack, streamVars
  <2>5. CASE UNCHANGED vars
    BY <2>5 DEF vars
  <2> QED
    BY <2>2, <2>3, <2>4, <2>5 DEF Next
<1> QED
  BY <1>1, <1>2, <1>3, <1>4, Invariance, TypeCorrect, PTL
  DEF Spec, PipeSpec, CutPipe!Spec
=============================================================================
