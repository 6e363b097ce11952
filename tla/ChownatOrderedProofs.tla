------------------------ MODULE ChownatOrderedProofs ------------------------
(***************************************************************************)
(* On a path that keeps the order, a stream of any length is put wrong by  *)
(* nothing but a writer more than a lap ahead.  What the ids say of a      *)
(* chunk, its place up to laps, is arithmetic; that it is the right lap    *)
(* follows from what the ring of slots and the order of the path allow.    *)
(***************************************************************************)
EXTENDS ChownatOrdered, FiniteSetTheorems, TLAPS

-----------------------------------------------------------------------------
(***************************************************************************)
(* Residues.                                                               *)
(***************************************************************************)
LEMMA Residue ==
  ASSUME NEW n \in Int
  PROVE  n % SeqSpace \in Ids
BY SeqSpaceAssumption DEF Ids

LEMMA Quotient ==
  ASSUME NEW n \in Int
  PROVE  \E q \in Int : n = SeqSpace * q + (n % SeqSpace)
<1>1. (n \div SeqSpace) \in Int
  BY SeqSpaceAssumption
<1>2. n = SeqSpace * (n \div SeqSpace) + (n % SeqSpace)
  BY SeqSpaceAssumption
<1> QED
  BY <1>1, <1>2

LEMMA NaturalQuotient ==
  ASSUME NEW n \in Nat
  PROVE  \E q \in Nat : SeqSpace * q \in Nat /\ n = SeqSpace * q + (n % SeqSpace)
<1> PICK q \in Int : n = SeqSpace * q + (n % SeqSpace)
  BY Quotient
<1> DEFINE r == n % SeqSpace
<1>1. r \in Int /\ 0 <= r /\ r < SeqSpace /\ n = SeqSpace * q + r
  BY Residue, SeqSpaceAssumption DEF Ids
<1> HIDE DEF r
<1>2. SeqSpace * q > -SeqSpace /\ SeqSpace * q \in Int
  BY <1>1, SeqSpaceAssumption
<1>3. q > -1
  BY <1>2, SeqSpaceAssumption
<1>4. q \in Nat /\ SeqSpace * q \in Nat
  BY <1>3, SeqSpaceAssumption
<1> QED
  BY <1>1, <1>4 DEF r

LEMMA ResidueOf ==
  ASSUME NEW q \in Int, NEW r \in Ids
  PROVE  (SeqSpace * q + r) % SeqSpace = r
BY SeqSpaceAssumption DEF Ids

\* Counting up, an id remains the residue of the count.
LEMMA IncCounts ==
  ASSUME NEW n \in Nat
  PROVE  Inc(n % SeqSpace) = (n + 1) % SeqSpace
<1> PICK q \in Int : n = SeqSpace * q + (n % SeqSpace)
  BY Quotient
<1> DEFINE r == n % SeqSpace
<1>1. r \in Ids
  BY Residue
<1>2. n + 1 = SeqSpace * q + (r + 1)
  BY <1>1, SeqSpaceAssumption DEF Ids
<1> HIDE DEF r
<1>3. CASE r + 1 = SeqSpace
  <2>1. n + 1 = SeqSpace * (q + 1) + 0 /\ q + 1 \in Int /\ 0 \in Ids
    BY <1>2, <1>3, SeqSpaceAssumption DEF Ids
  <2>2. (n + 1) % SeqSpace = 0
    BY <2>1, ResidueOf
  <2> QED
    BY <1>3, <2>2 DEF Inc, r
<1>4. CASE r + 1 # SeqSpace
  <2>1. r + 1 \in Ids
    BY <1>1, <1>4, SeqSpaceAssumption DEF Ids
  <2>2. (n + 1) % SeqSpace = r + 1
    BY <1>2, <2>1, ResidueOf
  <2> QED
    BY <1>4, <2>2 DEF Inc, r
<1> QED
  BY <1>3, <1>4

\* The chunk in slot i of this lap, when n have been written.
LEMMA SlotOfThisLap ==
  ASSUME NEW n \in Nat, NEW i \in Nat, i < n % SeqSpace,
         NEW k, k = n - (n % SeqSpace) + i + 1
  PROVE  k \in 1 .. n /\ (k - 1) % SeqSpace = i /\ n < k + SeqSpace - 1
<1> PICK q \in Nat : SeqSpace * q \in Nat /\ n = SeqSpace * q + (n % SeqSpace)
  BY NaturalQuotient
<1> DEFINE r == n % SeqSpace
           m == SeqSpace * q
<1>1. /\ r \in Int /\ i < r /\ r < SeqSpace /\ m \in Nat /\ n = m + r
      /\ k = n - r + i + 1
  BY Residue, SeqSpaceAssumption DEF Ids
<1>2. i \in Ids
  BY <1>1, SeqSpaceAssumption DEF Ids
<1>3. (m + i) % SeqSpace = i
  BY <1>2, ResidueOf
<1> HIDE DEF r, m
<1>4. k - 1 = m + i /\ k \in 1 .. n /\ n < k + SeqSpace - 1
  BY <1>1, SeqSpaceAssumption
<1> QED
  BY <1>3, <1>4

\* Numbers with the same residue are whole laps apart.
LEMMA LapsApart ==
  ASSUME NEW a \in Int, NEW b \in Int, a % SeqSpace = b % SeqSpace
  PROVE  \E q \in Int : a - b = SeqSpace * q
<1> PICK q \in Int : a = SeqSpace * q + (a % SeqSpace)
  BY Quotient
<1> PICK p \in Int : b = SeqSpace * p + (b % SeqSpace)
  BY Quotient
<1>1. a % SeqSpace \in Int /\ q - p \in Int
  BY Residue, SeqSpaceAssumption DEF Ids
<1>2. a - b = SeqSpace * (q - p)
  BY <1>1, SeqSpaceAssumption
<1> QED
  BY <1>1, <1>2

LEMMA LapsHaveNoResidue ==
  ASSUME NEW a \in Int, NEW b \in Int, a % SeqSpace = b % SeqSpace
  PROVE  (a - b) % SeqSpace = 0
<1> PICK q \in Int : a - b = SeqSpace * q
  BY LapsApart
<1>1. a - b = SeqSpace * q + 0 /\ 0 \in Ids
  BY SeqSpaceAssumption DEF Ids
<1> QED
  BY <1>1, ResidueOf

\* Less than a lap apart, they are the same.
LEMMA NearIsEqual ==
  ASSUME NEW a \in Int, NEW b \in Int, a % SeqSpace = b % SeqSpace,
         a < b + SeqSpace, b < a + SeqSpace
  PROVE  a = b
<1> PICK q \in Int : a - b = SeqSpace * q
  BY LapsApart
<1>1. q < 1 /\ q > -1
  BY SeqSpaceAssumption
<1> QED
  BY <1>1, SeqSpaceAssumption

-----------------------------------------------------------------------------
(***************************************************************************)
(* What the path makes of the datagrams handed to it.                      *)
(***************************************************************************)
\* What is left of a sequence consists of its elements.
LEMMA LeftOver ==
  ASSUME NEW D, NEW s \in Seq(D), NEW t \in Subsequences(s)
  PROVE  t \in Seq(D) /\ \A j \in 1 .. Len(t) : \E i \in 1 .. Len(s) : t[j] = s[i]
<1>0. PICK n \in 0 .. Len(s) :
        \E f \in [1 .. n -> DOMAIN s] : t = [j \in 1 .. n |-> s[f[j]]]
  BY DEF Subsequences
<1>1. PICK f \in [1 .. n -> DOMAIN s] : t = [j \in 1 .. n |-> s[f[j]]]
  BY <1>0
<1>2. \A j \in 1 .. n : f[j] \in 1 .. Len(s) /\ s[f[j]] \in D
  BY <1>1
<1>3. n \in Nat
  OBVIOUS
<1>4. t \in Seq(D) /\ Len(t) = n
  BY <1>1, <1>2, <1>3
<1> QED
  BY <1>1, <1>2, <1>4

\* The answer to a NACK is the slots from the one it names to the last.
LEMMA AnswerIs ==
  ASSUME NEW got \in Ids, id \in Ids, buffer \in [Ids -> Chunks]
  PROVE  /\ Retransmission(got) \in Seq(Datagrams)
         /\ \A j \in 1 .. Len(Retransmission(got)) :
              \E i \in 0 .. id - 1 : Retransmission(got)[j] = Retransmitted(i, buffer[i])
<1> DEFINE ids == got .. id - 1
<1>1. /\ got \in Int /\ id - 1 \in Int /\ \A i \in ids : i \in Ids /\ i \in 0 .. id - 1
  BY SeqSpaceAssumption DEF Ids
<1>2. /\ IsFiniteSet(ids)
      /\ Cardinality(ids) = IF got > id - 1 THEN 0 ELSE (id - 1) - got + 1
  BY <1>1, FS_Interval
<1>3. ASSUME NEW j \in 1 .. Cardinality(ids) PROVE Nth(ids, j) \in ids
  <2>1. got <= id - 1 /\ Cardinality(ids) = id - got /\ got + j - 1 \in ids
    BY <1>1, <1>2
  <2>2. {h \in ids : h <= got + j - 1} = got .. got + j - 1
    BY <1>1, <2>1
  <2>3. Cardinality(got .. got + j - 1) = j
    <3>1. got + j - 1 \in Int /\ ~(got > got + j - 1)
      BY <1>1
    <3>2. Cardinality(got .. got + j - 1) = (got + j - 1) - got + 1
      BY <1>1, <3>1, FS_Interval
    <3> QED
      BY <1>1, <3>2
  <2>4. \E i \in ids : Cardinality({h \in ids : h <= i}) = j
    BY <2>1, <2>2, <2>3
  <2> QED
    BY <2>4 DEF Nth
<1>4. Cardinality(ids) \in Nat
  BY <1>1, <1>2
<1>5. Retransmission(got) = [j \in 1 .. Cardinality(ids) |->
                               Retransmitted(Nth(ids, j), buffer[Nth(ids, j)])]
  BY DEF Retransmission, ResentIds
<1> HIDE DEF ids
<1>6. ASSUME NEW i \in ids PROVE Retransmitted(i, buffer[i]) \in Datagrams
  <2>1. i \in Ids /\ buffer[i] \in Chunks
    BY <1>1
  <2> QED
    BY <2>1 DEF Retransmitted, Datagram, Datagrams, Chunks, HeaderLen
<1>7. Retransmission(got) \in Seq(Datagrams) /\ Len(Retransmission(got)) = Cardinality(ids)
  BY <1>3, <1>4, <1>5, <1>6
<1>8. \A j \in 1 .. Cardinality(ids) :
        Retransmission(got)[j] = Retransmitted(Nth(ids, j), buffer[Nth(ids, j)])
  BY <1>5
<1> QED
  BY <1>1, <1>3, <1>7, <1>8
-----------------------------------------------------------------------------
(***************************************************************************)
(* The invariant.                                                          *)
(***************************************************************************)
\* Nothing is on its way at first.
LEMMA InitIInv == Init => IInv
<1> SUFFICES ASSUME Init PROVE IInv
  OBVIOUS
<1>0. 0 % SeqSpace = 0 /\ 0 \in Ids
  BY SeqSpaceAssumption DEF Ids
<1>1. TypeOK
  BY <1>0 DEF Init, StreamInit, TypeOK, StreamTypeOK, EmptySlot, Chunks
<1> QED
  BY <1>0, <1>1 DEF Init, StreamInit, IInv, SlotsOfThisLap, IdsAreResidues, NoneIsALapOld

\* The datagrams of t continue the path data: they carry recent chunks.
Continues(t) ==
  \A j \in 1 .. Len(t) :
    /\ t[j].k \in 1 .. Len(written)'
    /\ t[j].seq = (t[j].k - 1) % SeqSpace
    /\ Len(written)' < t[j].k + SeqSpace - 1

\* What the sender appends keeps the path in order.
LEMMA SenderKeeps ==
  ASSUME IInv, NEW t \in Seq(Datagrams), Continues(t), data' = data \o t,
         UNCHANGED <<expected, delivered>>,
         Len(written)' \in Nat, Len(written) <= Len(written)'
  PROVE  data' \in Seq(Datagrams) /\ IdsAreResidues' /\ NoneIsALapOld'
<1>0. /\ data \in Seq(Datagrams) /\ Len(data) \in Nat /\ Len(t) \in Nat
      /\ Len(delivered) \in Nat /\ Len(written) \in Nat
      /\ SeqSpace \in Nat /\ SeqSpace >= 2
  BY SeqSpaceAssumption DEF IInv, TypeOK, StreamTypeOK
<1>1. /\ data' \in Seq(Datagrams) /\ Len(data') = Len(data) + Len(t)
      /\ \A m \in 1 .. Len(data') :
           data'[m] = IF m <= Len(data) THEN data[m] ELSE t[m - Len(data)]
  BY <1>0
<1>2. \A m \in 1 .. Len(data) : data[m].k \in Nat /\ data[m].k <= Len(written)
  BY <1>0 DEF IInv, IdsAreResidues
<1>3. \A j \in 1 .. Len(delivered) : delivered[j].k \in Nat /\ delivered[j].k <= Len(written)
  BY <1>0 DEF IInv, IdsAreResidues
<1>4. \A j \in 1 .. Len(t) : t[j].k \in Nat /\ t[j].k <= Len(written)'
  BY DEF Continues
<1>5. IdsAreResidues'
  <2>1. ASSUME NEW m \in 1 .. Len(data')
        PROVE  data'[m].k \in 1 .. Len(written)' /\ data'[m].seq = (data'[m].k - 1) % SeqSpace
    <3>1. CASE m <= Len(data)
      <4>1. data'[m] = data[m] /\ m \in 1 .. Len(data)
        BY <1>0, <1>1, <3>1
      <4> QED
        BY <1>0, <4>1 DEF IInv, IdsAreResidues
    <3>2. CASE ~(m <= Len(data))
      <4>1. data'[m] = t[m - Len(data)] /\ m - Len(data) \in 1 .. Len(t)
        BY <1>0, <1>1, <3>2
      <4> QED
        BY <4>1 DEF Continues
    <3> QED
      BY <3>1, <3>2
  <2>2. \A j \in 1 .. Len(delivered) : delivered[j].k \in 1 .. Len(written)'
    BY <1>0 DEF IInv, IdsAreResidues
  <2> QED
    BY <2>1, <2>2 DEF IInv, IdsAreResidues
<1>6. NoneIsALapOld'
  <2> SUFFICES ASSUME NEW m \in 1 .. Len(data')
               PROVE  /\ \A j \in 1 .. Len(delivered) : delivered[j].k < data'[m].k + SeqSpace - 1
                      /\ \A h \in 1 .. m - 1 : data'[h].k < data'[m].k + SeqSpace - 1
    BY DEF NoneIsALapOld
  <2>1. CASE m <= Len(data)
    <3>1. data'[m] = data[m] /\ m \in 1 .. Len(data)
      BY <1>0, <1>1, <2>1
    <3>2. \A h \in 1 .. m - 1 : data'[h] = data[h]
      BY <1>0, <1>1, <2>1
    <3> QED
      BY <3>1, <3>2 DEF IInv, NoneIsALapOld
  <2>2. CASE ~(m <= Len(data))
    <3>1. data'[m] = t[m - Len(data)] /\ m - Len(data) \in 1 .. Len(t)
      BY <1>0, <1>1, <2>2
    <3>2. Len(written)' < data'[m].k + SeqSpace - 1 /\ data'[m].k \in Nat
      BY <1>4, <3>1 DEF Continues
    <3>3. \A h \in 1 .. m - 1 : data'[h].k \in Nat /\ data'[h].k <= Len(written)'
      <4> SUFFICES ASSUME NEW h \in 1 .. m - 1
                   PROVE  data'[h].k \in Nat /\ data'[h].k <= Len(written)'
        OBVIOUS
      <4>1. CASE h <= Len(data)
        <5>1. h \in 1 .. Len(data) /\ data'[h] = data[h]
          BY <1>0, <1>1, <4>1
        <5> QED
          BY <1>0, <1>2, <5>1
      <4>2. CASE ~(h <= Len(data))
        <5>1. data'[h] = t[h - Len(data)] /\ h - Len(data) \in 1 .. Len(t)
          BY <1>0, <1>1, <4>2
        <5> QED
          BY <1>4, <5>1
      <4> QED
        BY <4>1, <4>2
    <3>4. \A j \in 1 .. Len(delivered) : delivered[j].k \in Nat /\ delivered[j].k <= Len(written)'
      BY <1>0, <1>3
    <3>5. ASSUME NEW k \in Nat, k <= Len(written)' PROVE k < data'[m].k + SeqSpace - 1
      BY <1>0, <3>2, <3>5
    <3> QED
      BY <3>3, <3>4, <3>5
  <2> QED
    BY <2>1, <2>2
<1> QED
  BY <1>1, <1>5, <1>6

\* A chunk written takes the next id, and its datagram, if it survives, is the
\* most recent one.
LEMMA UdpSendIInv ==
  ASSUME IInv, NEW len \in Sizes, UdpSend(len)
  PROVE  IInv'
<1> DEFINE n == Len(written)
<1>0. /\ n \in Nat /\ SeqSpace \in Nat /\ SeqSpace >= 2 /\ id \in Ids /\ id = n % SeqSpace
      /\ id \in Nat /\ len \in Nat
  BY SeqSpaceAssumption, SizesAssumption DEF IInv, TypeOK, StreamTypeOK, SlotsOfThisLap, Ids
<1>1. /\ written' = Append(written, len) /\ Len(written)' = n + 1 /\ written' \in Seq(Sizes)
  BY DEF UdpSend, StoreChunk, IInv, TypeOK, StreamTypeOK
<1>2. NextChunk(len) \in Chunks /\ NextChunk(len).k = n + 1
  BY <1>0 DEF NextChunk, Chunks
<1>3. /\ Original(id, NextChunk(len)) \in Datagrams
      /\ Original(id, NextChunk(len)).k = n + 1 /\ Original(id, NextChunk(len)).seq = id
  BY <1>0, <1>2 DEF Original, Datagram, Datagrams, HeaderLen, NextChunk
<1>4. PICK t \in Seq(Datagrams) :
        /\ data' = data \o t
        /\ \A j \in 1 .. Len(t) : t[j] = Original(id, NextChunk(len))
  <2> DEFINE one == <<Original(id, NextChunk(len))>>
  <2>1. /\ one \in Seq(Datagrams)
        /\ \A i \in 1 .. Len(one) : one[i] = Original(id, NextChunk(len))
    BY <1>3
  <2>2. data \in Seq(Datagrams)
    BY DEF IInv, TypeOK
  <2>3. data' \in Lossy(data, one)
    BY DEF UdpSend
  <2> HIDE DEF one
  <2>4. PICK t \in Subsequences(one) : data' = data \o t
    BY <2>3 DEF Lossy
  <2>5. t \in Seq(Datagrams) /\ \A j \in 1 .. Len(t) : \E i \in 1 .. Len(one) : t[j] = one[i]
    BY <2>1, LeftOver
  <2> QED
    BY <2>1, <2>4, <2>5
<1>5. Continues(t)
  <2>1. (n + 1) - 1 = n /\ n + 1 \in 1 .. n + 1
    BY <1>0
  <2>2. n + 1 < (n + 1) + SeqSpace - 1
    BY <1>0
  <2> QED
    BY <1>0, <1>1, <1>3, <1>4, <2>1, <2>2 DEF Continues
<1>6. id' = Inc(id) /\ buffer' = [buffer EXCEPT ![id] = NextChunk(len)]
      /\ UNCHANGED <<expected, delivered, nacks>>
  BY DEF UdpSend, StoreChunk, receiverVars
<1>7. data' \in Seq(Datagrams) /\ IdsAreResidues' /\ NoneIsALapOld'
  <2>1. Len(written)' \in Nat /\ Len(written) <= Len(written)'
    BY <1>0, <1>1
  <2>2. UNCHANGED <<expected, delivered>> /\ data' = data \o t
    BY <1>4, <1>6
  <2> QED
    BY <1>5, <2>1, <2>2, SenderKeeps
<1>8. TypeOK'
  <2>1. Inc(id) \in Ids
    BY <1>0 DEF Inc, Ids
  <2> QED
    BY <1>1, <1>2, <1>6, <1>7, <2>1 DEF IInv, TypeOK, StreamTypeOK
<1>9. SlotsOfThisLap'
  <2>1. id' = (n + 1) % SeqSpace
    BY <1>0, <1>6, IncCounts
  <2>2. ASSUME NEW i \in 0 .. id' - 1 PROVE buffer'[i].k = (n + 1) - id' + i + 1
    <3>1. id' = id + 1
      BY <1>0, <1>6, <2>2 DEF Inc
    <3>2. CASE i = id
      <4>1. buffer'[id] = NextChunk(len)
        BY <1>0, <1>6 DEF IInv, TypeOK, StreamTypeOK
      <4> QED
        BY <1>0, <1>2, <3>1, <3>2, <4>1
    <3>3. CASE i # id
      <4>1. i \in 0 .. id - 1 /\ buffer'[i] = buffer[i]
        BY <1>0, <1>6, <3>1, <3>3 DEF IInv, TypeOK, StreamTypeOK, Ids
      <4>2. buffer[i].k = n - id + i + 1
        BY <4>1 DEF IInv, SlotsOfThisLap
      <4> QED
        BY <1>0, <3>1, <4>1, <4>2
    <3> QED
      BY <3>2, <3>3
  <2> QED
    BY <1>1, <2>1, <2>2 DEF SlotsOfThisLap
<1> QED
  BY <1>7, <1>8, <1>9 DEF IInv
\* A NACK is answered with slots of this lap.
LEMMA RecvNackIInv ==
  ASSUME IInv, RecvNack
  PROVE  IInv'
<1> DEFINE n == Len(written)
           got == Head(nacks)
           answer == Retransmission(got)
<1>0. /\ n \in Nat /\ SeqSpace \in Nat /\ SeqSpace >= 2 /\ id \in Ids /\ id = n % SeqSpace
      /\ buffer \in [Ids -> Chunks] /\ data \in Seq(Datagrams)
      /\ got \in Ids /\ nacks' \in Seq(Ids) /\ UNCHANGED streamVars
  BY SeqSpaceAssumption
     DEF IInv, TypeOK, StreamTypeOK, SlotsOfThisLap, RecvNack
<1>1. /\ answer \in Seq(Datagrams)
      /\ \A j \in 1 .. Len(answer) :
           \E i \in 0 .. id - 1 : answer[j] = Retransmitted(i, buffer[i])
  BY <1>0, AnswerIs
<1>2. data' \in Replied(data, answer)
  BY DEF RecvNack
<1> HIDE DEF answer
<1>3. PICK t \in Seq(Datagrams) :
        /\ data' = data \o t
        /\ \A j \in 1 .. Len(t) : \E h \in 1 .. Len(answer) : t[j] = answer[h]
  <2>1. PICK t : data' = data \o t /\ (t = answer \/ t \in Subsequences(answer))
    BY <1>2 DEF Replied, Lossy
  <2>2. t \in Seq(Datagrams) /\ \A j \in 1 .. Len(t) : \E h \in 1 .. Len(answer) : t[j] = answer[h]
    BY <1>1, <2>1, LeftOver
  <2> QED
    BY <2>1, <2>2
<1>4. Continues(t)
  <2> SUFFICES ASSUME NEW j \in 1 .. Len(t)
               PROVE  /\ t[j].k \in 1 .. n
                      /\ t[j].seq = (t[j].k - 1) % SeqSpace
                      /\ n < t[j].k + SeqSpace - 1
    BY <1>0 DEF Continues, streamVars
  <2>1. PICK i \in 0 .. id - 1 : t[j] = Retransmitted(i, buffer[i])
    BY <1>1, <1>3
  <2>2. t[j].k = n - id + i + 1 /\ t[j].seq = i /\ i \in Ids
    <3>1. buffer[i].k = n - id + i + 1
      BY DEF IInv, SlotsOfThisLap
    <3>2. t[j].k = buffer[i].k /\ t[j].seq = i
      BY <2>1 DEF Retransmitted, Datagram
    <3> QED
      BY <1>0, <3>1, <3>2 DEF Ids
  <2>3. i \in Nat /\ i < n % SeqSpace /\ t[j].k = n - (n % SeqSpace) + i + 1
    BY <1>0, <2>2 DEF Ids
  <2>4. n \in Nat
    BY <1>0
  <2> HIDE DEF n
  <2>5. /\ t[j].k \in 1 .. n /\ (t[j].k - 1) % SeqSpace = i
        /\ n < t[j].k + SeqSpace - 1
    BY <2>3, <2>4, SlotOfThisLap
  <2> QED
    BY <2>2, <2>5
<1>5. data' \in Seq(Datagrams) /\ IdsAreResidues' /\ NoneIsALapOld'
  <2>1. Len(written)' \in Nat /\ Len(written) <= Len(written)'
    BY <1>0 DEF streamVars
  <2>2. UNCHANGED <<expected, delivered>> /\ data' = data \o t
    BY <1>0, <1>3 DEF streamVars
  <2> QED
    BY <1>4, <2>1, <2>2, SenderKeeps
<1> QED
  BY <1>0, <1>5 DEF IInv, TypeOK, StreamTypeOK, SlotsOfThisLap, streamVars

\* The first datagram leaves the path.
LEMMA HeadLeaves ==
  ASSUME IInv, data # << >>, data' = Tail(data)
  PROVE  /\ Head(data) \in Datagrams /\ Head(data) = data[1] /\ 1 \in 1 .. Len(data)
         /\ data' \in Seq(Datagrams) /\ Len(data) \in Nat /\ Len(data') = Len(data) - 1
         /\ \A m \in 1 .. Len(data') : data'[m] = data[m + 1] /\ m + 1 \in 1 .. Len(data)
BY DEF IInv, TypeOK

\* A datagram that is not handed out changes nothing but the path.
LEMMA DiscardIInv ==
  ASSUME IInv, data # << >>, data' = Tail(data), UNCHANGED streamVars,
         nacks' \in Seq(Ids)
  PROVE  IInv'
<1>1. TypeOK' /\ SlotsOfThisLap'
  BY HeadLeaves DEF streamVars, IInv, TypeOK, StreamTypeOK, SlotsOfThisLap
<1>2. IdsAreResidues'
  BY HeadLeaves DEF streamVars, IInv, IdsAreResidues
<1>3. NoneIsALapOld'
  <2> SUFFICES ASSUME NEW m \in 1 .. Len(data')
               PROVE  /\ \A j \in 1 .. Len(delivered) : delivered[j].k < data'[m].k + SeqSpace - 1
                      /\ \A h \in 1 .. m - 1 : data'[h].k < data'[m].k + SeqSpace - 1
    BY DEF NoneIsALapOld, streamVars
  <2>1. data'[m] = data[m + 1] /\ m + 1 \in 1 .. Len(data)
    BY HeadLeaves
  <2>2. \A h \in 1 .. m - 1 : data'[h] = data[h + 1] /\ h + 1 \in 1 .. (m + 1) - 1
    BY HeadLeaves
  <2> QED
    BY <2>1, <2>2 DEF IInv, NoneIsALapOld
<1> QED
  BY <1>1, <1>2, <1>3 DEF IInv

\* The chunk handed out is the expected one, up to laps.
LEMMA RecvExpectedIInv ==
  ASSUME IInv, RecvExpected
  PROVE  IInv'
<1> DEFINE d == Head(data)
           l == Len(delivered)
<1>0. /\ d \in Datagrams /\ d = data[1] /\ 1 \in 1 .. Len(data)
      /\ data' \in Seq(Datagrams) /\ Len(data) \in Nat
      /\ \A m \in 1 .. Len(data') : data'[m] = data[m + 1] /\ m + 1 \in 1 .. Len(data)
      /\ l \in Nat /\ d.n >= 0 /\ d.seq = expected /\ d.n \in Int
      /\ UNCHANGED <<id, buffer, written, nacks>> /\ expected' = Inc(expected)
  BY HeadLeaves DEF RecvExpected, Accept, senderVars, Datagrams, IInv, TypeOK, StreamTypeOK
<1>1. /\ delivered' = Append(delivered, Piece(d)) /\ Len(delivered') = l + 1
      /\ delivered' \in Seq([k : Nat, n : Nat])
      /\ delivered'[l + 1].k = d.k /\ \A j \in 1 .. l : delivered'[j] = delivered[j]
  <2>1. Piece(d) \in [k : Nat, n : Nat] /\ Piece(d).k = d.k
    BY <1>0 DEF Piece, Datagrams
  <2>2. delivered' = Append(delivered, Piece(d)) /\ delivered \in Seq([k : Nat, n : Nat])
    BY DEF RecvExpected, Accept, IInv, TypeOK, StreamTypeOK
  <2> HIDE DEF d
  <2> QED
    BY <1>0, <2>1, <2>2
<1>2. d.k \in 1 .. Len(written) /\ (d.k - 1) % SeqSpace = l % SeqSpace
  BY <1>0 DEF IInv, IdsAreResidues
<1> HIDE DEF d
<1>3. TypeOK'
  <2>1. Inc(expected) \in Ids
    BY SeqSpaceAssumption DEF Inc, Ids, IInv, TypeOK, StreamTypeOK
  <2> QED
    BY <1>0, <1>1, <2>1 DEF IInv, TypeOK, StreamTypeOK
<1>4. SlotsOfThisLap'
  BY <1>0 DEF IInv, SlotsOfThisLap
<1>5. IdsAreResidues'
  <2>1. expected' = (l + 1) % SeqSpace
    BY <1>0, IncCounts DEF IInv, IdsAreResidues
  <2>2. ASSUME NEW j \in 1 .. l + 1
        PROVE  /\ delivered'[j].k \in 1 .. Len(written)
               /\ (delivered'[j].k - 1) % SeqSpace = (j - 1) % SeqSpace
    <3>1. CASE j = l + 1
      <4>1. j - 1 = l
        BY <1>0, <3>1
      <4> QED
        BY <1>1, <1>2, <3>1, <4>1
    <3>2. CASE j # l + 1
      <4>1. j \in 1 .. l
        BY <1>0, <3>2
      <4> QED
        BY <1>1, <4>1 DEF IInv, IdsAreResidues
    <3> QED
      BY <3>1, <3>2
  <2>3. \A m \in 1 .. Len(data') :
          data'[m].k \in 1 .. Len(written) /\ data'[m].seq = (data'[m].k - 1) % SeqSpace
    BY <1>0 DEF IInv, IdsAreResidues
  <2> QED
    BY <1>0, <1>1, <2>1, <2>2, <2>3 DEF IdsAreResidues
<1>6. NoneIsALapOld'
  <2> SUFFICES ASSUME NEW m \in 1 .. Len(data')
               PROVE  /\ \A j \in 1 .. l + 1 : delivered'[j].k < data'[m].k + SeqSpace - 1
                      /\ \A h \in 1 .. m - 1 : data'[h].k < data'[m].k + SeqSpace - 1
    BY <1>1 DEF NoneIsALapOld
  <2>1. data'[m] = data[m + 1] /\ m + 1 \in 1 .. Len(data) /\ m \in Nat \ {0}
    BY <1>0
  <2>2. \A h \in 1 .. m - 1 : data'[h] = data[h + 1] /\ h + 1 \in 1 .. (m + 1) - 1
    BY <1>0, HeadLeaves DEF RecvExpected
  <2>3. 1 \in 1 .. (m + 1) - 1
    BY <2>1
  <2>4. d.k < data'[m].k + SeqSpace - 1
    BY <1>0, <2>1, <2>3 DEF IInv, NoneIsALapOld
  <2>5. ASSUME NEW j \in 1 .. l + 1 PROVE delivered'[j].k < data'[m].k + SeqSpace - 1
    <3>1. CASE j = l + 1
      BY <1>1, <2>4, <3>1
    <3>2. CASE j # l + 1
      <4>1. j \in 1 .. l
        BY <1>0, <3>2
      <4> QED
        BY <1>1, <2>1, <4>1 DEF IInv, NoneIsALapOld
    <3> QED
      BY <3>1, <3>2
  <2> QED
    BY <2>1, <2>2, <2>5 DEF IInv, NoneIsALapOld
<1> QED
  BY <1>3, <1>4, <1>5, <1>6 DEF IInv

\* Every step keeps the invariant.
LEMMA NextIInv == IInv /\ [Next]_vars => IInv'
<1> SUFFICES ASSUME IInv, [Next]_vars PROVE IInv'
  OBVIOUS
<1>1. CASE RecvUnexpected
  <2>1. expected \in Ids /\ nacks \in Seq(Ids)
    BY DEF IInv, TypeOK, StreamTypeOK
  <2> DEFINE one == <<expected>>
  <2>2. one \in Seq(Ids)
    BY <2>1
  <2>3. nacks' \in Replied(nacks, one)
    BY <1>1 DEF RecvUnexpected
  <2> HIDE DEF one
  <2>4. nacks' \in Seq(Ids)
    <3>1. PICK t : nacks' = nacks \o t /\ (t = one \/ t \in Subsequences(one))
      BY <2>3 DEF Replied, Lossy
    <3>2. t \in Seq(Ids)
      BY <2>2, <3>1, LeftOver
    <3> QED
      BY <2>1, <3>1, <3>2
  <2> QED
    BY <1>1, <2>4, DiscardIInv DEF RecvUnexpected, Reject
<1>2. CASE RecvRunt
  <2>1. nacks' \in Seq(Ids)
    BY <1>2 DEF RecvRunt, IInv, TypeOK
  <2> QED
    BY <1>2, <2>1, DiscardIInv DEF RecvRunt
<1>3. CASE UNCHANGED vars
  BY <1>3 DEF vars, IInv, TypeOK, StreamTypeOK, SlotsOfThisLap, IdsAreResidues, NoneIsALapOld
<1> QED
  BY <1>1, <1>2, <1>3, UdpSendIInv, RecvExpectedIInv, RecvNackIInv DEF Next, Recv

(***************************************************************************)
(* The inductive invariant holds in every reachable state, for every       *)
(* number of ids, set of lengths, length of run and kind of path.          *)
(***************************************************************************)
THEOREM Invariance == Spec => []IInv
BY InitIInv, NextIInv, PTL DEF Spec

(***************************************************************************)
(* What udp_recv hands out is whole laps away from what it should be, or   *)
(* not away at all (chownat.c:495-506).                                    *)
(***************************************************************************)
THEOREM OnlyLapsAreLost == Spec => []WholeLapsOff
<1>1. IInv => WholeLapsOff
  <2> SUFFICES ASSUME IInv, NEW j \in 1 .. Len(delivered)
               PROVE  (delivered[j].k - j) % SeqSpace = 0
    BY DEF WholeLapsOff
  <2>1. /\ delivered[j].k - 1 \in Int /\ j - 1 \in Int
        /\ (delivered[j].k - 1) % SeqSpace = (j - 1) % SeqSpace
    BY DEF IInv, IdsAreResidues
  <2>2. ((delivered[j].k - 1) - (j - 1)) % SeqSpace = 0
    BY <2>1, LapsHaveNoResidue
  <2>3. (delivered[j].k - 1) - (j - 1) = delivered[j].k - j
    BY DEF IInv, IdsAreResidues
  <2> QED
    BY <2>2, <2>3
<1> QED
  BY <1>1, Invariance, PTL

(***************************************************************************)
(* A stream that has been in order stays so unless the writer is more than *)
(* a lap ahead (chownat.c:402-419, 495-506).                               *)
(***************************************************************************)
THEOREM LapsAloneBreakOrder == Spec => SlipsOnlyWhenLapped
<1>1. ASSUME IInv, [Next]_vars, InOrderSoFar, Len(written) - Len(delivered) <= SeqSpace
      PROVE  InOrderSoFar'
  <2>1. CASE UNCHANGED delivered
    BY <1>1, <2>1 DEF InOrderSoFar
  <2>2. CASE RecvExpected
    <3> DEFINE d == Head(data)
               l == Len(delivered)
    <3>1. /\ d = data[1] /\ 1 \in 1 .. Len(data) /\ d.seq = expected
          /\ delivered' = Append(delivered, Piece(d)) /\ l \in Nat
          /\ delivered \in Seq([k : Nat, n : Nat])
      BY <1>1, <2>2, HeadLeaves DEF RecvExpected, Accept, IInv, TypeOK, StreamTypeOK
    <3>2. /\ d.k \in 1 .. Len(written) /\ (d.k - 1) % SeqSpace = l % SeqSpace
          /\ Len(written) \in Nat
      BY <1>1, <3>1 DEF IInv, IdsAreResidues, TypeOK, StreamTypeOK
    <3>3. d.k - 1 < l + SeqSpace
      BY <1>1, <3>1, <3>2, SeqSpaceAssumption
    <3>4. l < (d.k - 1) + SeqSpace
      <4>1. CASE l = 0
        BY <3>2, <4>1, SeqSpaceAssumption
      <4>2. CASE l # 0
        <5>1. l \in 1 .. l /\ delivered[l].k = l
          BY <1>1, <3>1, <4>2 DEF InOrderSoFar
        <5>2. delivered[l].k < d.k + SeqSpace - 1
          BY <1>1, <3>1, <5>1 DEF IInv, NoneIsALapOld
        <5> QED
          BY <3>1, <3>2, <5>1, <5>2, SeqSpaceAssumption
      <4> QED
        BY <4>1, <4>2
    <3>5. d.k - 1 = l
      BY <3>1, <3>2, <3>3, <3>4, NearIsEqual
    <3>6. Piece(d).k = l + 1
      BY <3>1, <3>2, <3>5 DEF Piece
    <3> HIDE DEF d
    <3> QED
      BY <1>1, <3>1, <3>6 DEF InOrderSoFar
  <2> QED
    BY <1>1, <2>1, <2>2
       DEF Next, Recv, UdpSend, StoreChunk, RecvUnexpected, Reject, RecvRunt, RecvNack,
           streamVars, receiverVars, vars
<1>2. IInv /\ [Next]_vars =>
        [ InOrderSoFar =>
            \/ InOrderSoFar'
            \/ Len(written) - Len(delivered) > SeqSpace ]_vars
  <2>1. IInv => Len(written) \in Nat /\ Len(delivered) \in Nat
    BY DEF IInv, TypeOK, StreamTypeOK
  <2> QED
    BY <1>1, <2>1, SeqSpaceAssumption
<1> QED
  BY <1>2, Invariance, PTL DEF Spec, SlipsOnlyWhenLapped
-----------------------------------------------------------------------------
(***************************************************************************)
(* Repairs.  From here on the stream is shorter than a lap, its chunks are *)
(* no shorter than the header, and NACKs and retransmissions get through;  *)
(* originals may still be lost.                                            *)
(***************************************************************************)
Repairable ==
  /\ LossyReplies = FALSE
  /\ MaxSend < SeqSpace
  /\ \A len \in Sizes : len >= HeaderLen

\* In the answer to a NACK the slots are in their order.
LEMMA AnswerInOrder ==
  ASSUME NEW got \in Ids, id \in Ids, buffer \in [Ids -> Chunks]
  PROVE  /\ Retransmission(got) \in Seq(Datagrams)
         /\ Len(Retransmission(got)) = IF got < id THEN id - got ELSE 0
         /\ \A j \in 1 .. Len(Retransmission(got)) :
              Retransmission(got)[j] = Retransmitted(got + j - 1, buffer[got + j - 1])
<1> DEFINE ids == got .. id - 1
<1>1. got \in Nat /\ id \in Nat
  BY SeqSpaceAssumption DEF Ids
<1>2. ASSUME NEW i \in ids PROVE Cardinality({h \in ids : h <= i}) = i - got + 1
  <2>1. {h \in ids : h <= i} = got .. i /\ i \in Int /\ ~(got > i)
    BY <1>1
  <2>2. Cardinality(got .. i) = i - got + 1
    BY <1>1, <2>1, FS_Interval
  <2> QED
    BY <2>1, <2>2
<1>3. Cardinality(ids) = IF got < id THEN id - got ELSE 0
  <2>1. id - 1 \in Int /\ got \in Int
    BY <1>1
  <2>2. Cardinality(ids) = IF got > id - 1 THEN 0 ELSE (id - 1) - got + 1
    BY <2>1, FS_Interval
  <2> HIDE DEF ids
  <2> QED
    BY <1>1, <2>2
<1>4. ASSUME NEW j \in 1 .. Cardinality(ids) PROVE Nth(ids, j) = got + j - 1
  <2>1. got + j - 1 \in ids
    BY <1>1, <1>3
  <2>2. Cardinality({h \in ids : h <= got + j - 1}) = j
    <3>1. Cardinality({h \in ids : h <= got + j - 1}) = (got + j - 1) - got + 1
      BY <1>2, <2>1
    <3> QED
      BY <1>1, <3>1
  <2>3. ASSUME NEW i \in ids, Cardinality({h \in ids : h <= i}) = j
        PROVE  i = got + j - 1
    BY <1>1, <1>2, <2>3
  <2> HIDE DEF ids
  <2> QED
    BY <2>1, <2>2, <2>3 DEF Nth
<1>5. Retransmission(got) = [j \in 1 .. Cardinality(ids) |->
                               Retransmitted(Nth(ids, j), buffer[Nth(ids, j)])]
  BY DEF Retransmission, ResentIds
<1>6. Cardinality(ids) \in Nat
  BY <1>1, <1>3
<1>7. Len(Retransmission(got)) = Cardinality(ids)
  BY <1>5, <1>6
<1> HIDE DEF ids
<1> QED
  BY <1>3, <1>4, <1>5, <1>6, <1>7, AnswerIs

\* Before the ids wrap, an id is the number of chunks before its own.
LEMMA FirstLapIds ==
  ASSUME RepairInv
  PROVE  /\ Len(written) \in Nat /\ Len(delivered) \in Nat /\ SeqSpace \in Nat
         /\ Len(data) \in Nat /\ Len(nacks) \in Nat
         /\ id = Len(written) /\ expected = Len(delivered)
         /\ \A i \in 0 .. id - 1 : buffer[i].k = i + 1
         /\ \A m \in 1 .. Len(data) :
              data[m].k \in 1 .. Len(written) /\ data[m].seq = data[m].k - 1
<1>1. /\ Len(written) \in Nat /\ Len(delivered) \in Nat /\ SeqSpace \in Nat
      /\ Len(data) \in Nat /\ Len(nacks) \in Nat
      /\ Len(delivered) <= Len(written) /\ Len(written) < SeqSpace
  BY SeqSpaceAssumption DEF RepairInv, IInv, TypeOK, StreamTypeOK
<1>2. \A n \in Nat : n < SeqSpace => n % SeqSpace = n
  BY <1>1
<1>3. id = Len(written) /\ expected = Len(delivered)
  BY <1>1, <1>2 DEF RepairInv, IInv, SlotsOfThisLap, IdsAreResidues
<1>4. ASSUME NEW i \in 0 .. id - 1 PROVE buffer[i].k = i + 1
  <2>1. buffer[i].k = Len(written) - id + i + 1
    BY DEF RepairInv, IInv, SlotsOfThisLap
  <2> QED
    BY <1>1, <1>3, <2>1
<1>5. ASSUME NEW m \in 1 .. Len(data)
      PROVE  data[m].k \in 1 .. Len(written) /\ data[m].seq = data[m].k - 1
  <2>1. data[m].k \in 1 .. Len(written) /\ data[m].seq = (data[m].k - 1) % SeqSpace
    BY DEF RepairInv, IInv, IdsAreResidues
  <2>2. data[m].k - 1 \in Nat /\ data[m].k - 1 < SeqSpace
    BY <1>1, <2>1
  <2> QED
    BY <1>2, <2>1, <2>2
<1> QED
  BY <1>1, <1>3, <1>4, <1>5

\* What RecvNack puts on the path: the chunks from the one named to the last.
LEMMA NackIsAnswered ==
  ASSUME Repairable, RepairInv, RecvNack
  PROVE  LET g == Head(nacks)
         IN  /\ g \in Nat /\ g = nacks[1] /\ g <= expected /\ 1 \in 1 .. Len(nacks)
             /\ Len(nacks') = Len(nacks) - 1
             /\ \A j \in 1 .. Len(nacks') : nacks'[j] = nacks[j + 1]
             /\ Len(data') = Len(data) + (IF g < id THEN id - g ELSE 0)
             /\ \A m \in 1 .. Len(data) : data'[m] = data[m]
             /\ \A m \in Len(data) + 1 .. Len(data') :
                  LET i == g + (m - Len(data)) - 1
                  IN  /\ i \in 0 .. id - 1
                      /\ data'[m].k = i + 1 /\ data'[m].seq = i /\ data'[m].n >= 0
<1> DEFINE g == Head(nacks)
           answer == Retransmission(g)
<1>1. /\ nacks \in Seq(Ids) /\ nacks # << >> /\ nacks' = Tail(nacks)
      /\ id \in Ids /\ buffer \in [Ids -> Chunks] /\ data \in Seq(Datagrams)
  BY DEF RepairInv, IInv, TypeOK, StreamTypeOK, RecvNack
<1>2. /\ g \in Ids /\ g \in Nat /\ g = nacks[1] /\ 1 \in 1 .. Len(nacks)
      /\ Len(nacks') = Len(nacks) - 1
      /\ \A j \in 1 .. Len(nacks') : nacks'[j] = nacks[j + 1]
  BY <1>1, SeqSpaceAssumption DEF Ids
<1>3. g <= expected
  BY <1>2 DEF RepairInv
<1>4. data' = data \o answer
  BY DEF RecvNack, Replied, Repairable
<1>5. /\ answer \in Seq(Datagrams)
      /\ Len(answer) = IF g < id THEN id - g ELSE 0
      /\ \A j \in 1 .. Len(answer) : answer[j] = Retransmitted(g + j - 1, buffer[g + j - 1])
  BY <1>1, <1>2, AnswerInOrder
<1> HIDE DEF g, answer
<1>6. /\ Len(data') = Len(data) + Len(answer)
      /\ \A m \in 1 .. Len(data) : data'[m] = data[m]
      /\ \A m \in Len(data) + 1 .. Len(data') : data'[m] = answer[m - Len(data)]
                                                /\ m - Len(data) \in 1 .. Len(answer)
  BY <1>1, <1>4, <1>5
<1>7. ASSUME NEW m \in Len(data) + 1 .. Len(data'),
             NEW i, i = g + (m - Len(data)) - 1
      PROVE  /\ i \in 0 .. id - 1
             /\ data'[m].k = i + 1 /\ data'[m].seq = i /\ data'[m].n >= 0
  <2>1. m - Len(data) \in 1 .. Len(answer) /\ data'[m] = answer[m - Len(data)]
    BY <1>6
  <2>2. i \in 0 .. id - 1
    <3> PICK h \in 1 .. Len(answer) : h = m - Len(data)
      BY <2>1
    <3>1. id \in Nat /\ g < id /\ h <= id - g
      BY <1>2, <1>5, FirstLapIds
    <3>2. i = g + h - 1
      BY <1>7
    <3> QED
      BY <1>2, <3>1, <3>2
  <2>3. data'[m] = Retransmitted(i, buffer[i])
    BY <1>5, <1>7, <2>1
  <2>4. buffer[i].k = i + 1 /\ buffer[i].len >= HeaderLen /\ buffer[i].len \in Nat
    <3>1. i \in Ids
      BY <2>2, FirstLapIds DEF RepairInv, Ids
    <3> QED
      BY <1>1, <2>2, <3>1, FirstLapIds DEF RepairInv, Chunks
  <2> QED
    BY <2>2, <2>3, <2>4 DEF Retransmitted, Datagram, HeaderLen
<1> QED
  BY <1>2, <1>3, <1>5, <1>6, <1>7 DEF g

\* What RecvUnexpected puts in the way of the writer: the expected id.
LEMMA NackIsSent ==
  ASSUME Repairable, RepairInv, RecvUnexpected
  PROVE  /\ Len(nacks') = Len(nacks) + 1 /\ nacks'[Len(nacks) + 1] = expected
         /\ \A j \in 1 .. Len(nacks) : nacks'[j] = nacks[j]
<1>1. nacks' = nacks \o <<expected>>
  BY DEF RecvUnexpected, Replied, Repairable
<1>2. nacks \in Seq(Ids) /\ expected \in Ids
  BY DEF RepairInv, IInv, TypeOK, StreamTypeOK
<1> QED
  BY <1>1, <1>2

-----------------------------------------------------------------------------
\* Nothing to repair at first.
LEMMA InitRepairInv == Repairable /\ Init => RepairInv
<1> SUFFICES ASSUME Init PROVE RepairInv
  OBVIOUS
<1>1. IInv
  BY InitIInv
<1> QED
  BY <1>1, SeqSpaceAssumption DEF Init, StreamInit, RepairInv

\* A datagram that leaves the path leaves the others, which count.
LEMMA RestCounts ==
  ASSUME RepairInv, data # << >>, data' = Tail(data)
  PROVE  \A m \in 1 .. Len(data') : data'[m].n >= 0
<1>1. \A m \in 1 .. Len(data') : data'[m] = data[m + 1] /\ m + 1 \in 1 .. Len(data)
  BY HeadLeaves DEF RepairInv
<1> QED
  BY <1>1 DEF RepairInv

\* A new chunk is no shorter than the header, nor is it beyond the lap.
LEMMA UdpSendRepairInv ==
  ASSUME Repairable, RepairInv, NEW len \in Sizes, UdpSend(len), IInv'
  PROVE  RepairInv'
<1>1. /\ Len(written) < MaxSend /\ Len(written') = Len(written) + 1
      /\ buffer' = [buffer EXCEPT ![id] = NextChunk(len)] /\ id' = Inc(id)
      /\ UNCHANGED <<expected, delivered, nacks>>
      /\ len \in Nat /\ len >= HeaderLen /\ MaxSend < SeqSpace /\ MaxSend \in Nat
  BY SizesAssumption, BoundsAssumption
     DEF UdpSend, StoreChunk, receiverVars, Repairable, RepairInv, IInv, TypeOK, StreamTypeOK
<1>2. Len(delivered') <= Len(written') /\ Len(written') < SeqSpace
  BY <1>1, FirstLapIds DEF RepairInv
<1>3. ASSUME NEW i \in 0 .. id' - 1 PROVE buffer'[i].len >= HeaderLen
  <2>1. id \in Ids /\ buffer \in [Ids -> Chunks]
    BY DEF RepairInv, IInv, TypeOK, StreamTypeOK
  <2>2. i \in 0 .. id /\ i \in Ids
    BY <1>1, <2>1, SeqSpaceAssumption DEF Inc, Ids
  <2>3. CASE i = id
    BY <1>1, <2>1, <2>3 DEF NextChunk
  <2>4. CASE i # id
    <3>1. i \in 0 .. id - 1
      BY <2>1, <2>2, <2>4 DEF Ids
    <3>2. buffer'[i] = buffer[i]
      BY <1>1, <2>1, <2>2, <2>4
    <3> QED
      BY <3>1, <3>2 DEF RepairInv
  <2> QED
    BY <2>3, <2>4
<1>4. ASSUME NEW m \in 1 .. Len(data') PROVE data'[m].n >= 0
  <2> DEFINE one == <<Original(id, NextChunk(len))>>
  <2>1. one[1].n >= 0 /\ Len(one) = 1
    BY <1>1 DEF Original, Datagram, NextChunk, HeaderLen
  <2>2. one \in Seq(Datagrams)
    <3>1. NextChunk(len).k \in Nat /\ NextChunk(len).len = len /\ id \in Ids
      BY <1>1, FirstLapIds DEF NextChunk, RepairInv, IInv, TypeOK, StreamTypeOK
    <3>2. Original(id, NextChunk(len)) \in Datagrams
      BY <1>1, <3>1 DEF Original, Datagram, Datagrams, HeaderLen
    <3> QED
      BY <3>2
  <2>3. data \in Seq(Datagrams) /\ data' \in Lossy(data, one)
    BY DEF RepairInv, IInv, TypeOK, UdpSend
  <2> HIDE DEF one
  <2>4. PICK t \in Subsequences(one) : data' = data \o t
    BY <2>3 DEF Lossy
  <2>5. t \in Seq(Datagrams) /\ \A j \in 1 .. Len(t) : \E i \in 1 .. Len(one) : t[j] = one[i]
    BY <2>2, LeftOver
  <2>6. CASE m \in 1 .. Len(data)
    <3>1. data'[m] = data[m]
      BY <2>3, <2>4, <2>5, <2>6
    <3> QED
      BY <2>6, <3>1 DEF RepairInv
  <2>7. CASE m \notin 1 .. Len(data)
    <3>1. data'[m] = t[m - Len(data)] /\ m - Len(data) \in 1 .. Len(t)
      BY <2>3, <2>4, <2>5, <2>7
    <3> QED
      BY <2>1, <2>5, <3>1
  <2> QED
    BY <2>6, <2>7
<1> QED
  BY <1>1, <1>2, <1>3, <1>4 DEF RepairInv

\* The chunk handed out is not beyond the last one written.
LEMMA RecvExpectedRepairInv ==
  ASSUME RepairInv, RecvExpected, IInv'
  PROVE  /\ RepairInv'
         /\ Len(delivered') = Len(delivered) + 1
         /\ Head(data).k = Len(delivered) + 1
<1>1. /\ Head(data) = data[1] /\ 1 \in 1 .. Len(data) /\ Head(data).seq = expected
      /\ delivered' = Append(delivered, Piece(Head(data))) /\ expected' = Inc(expected)
      /\ UNCHANGED <<id, buffer, written, nacks>> /\ data # << >> /\ data' = Tail(data)
  BY HeadLeaves DEF RecvExpected, Accept, senderVars, RepairInv
<1>2. /\ Len(delivered') = Len(delivered) + 1
      /\ Head(data).k = Len(delivered) + 1 /\ Head(data).k <= Len(written)
  <2>1. Len(delivered') = Len(delivered) + 1
    BY <1>1 DEF RepairInv, IInv, TypeOK, StreamTypeOK
  <2>2. data[1].k \in 1 .. Len(written) /\ data[1].seq = data[1].k - 1 /\ expected = Len(delivered)
    BY <1>1, FirstLapIds
  <2>3. Len(written) \in Nat /\ Len(delivered) \in Nat
    BY FirstLapIds
  <2> QED
    BY <1>1, <2>1, <2>2, <2>3
<1>3. expected' >= expected
  BY <1>1, <1>2, FirstLapIds DEF Inc, RepairInv
<1>4. \A j \in 1 .. Len(nacks) : nacks[j] <= expected'
  <2>1. nacks \in Seq(Ids) /\ expected \in Ids /\ expected' \in Ids
    BY <1>1, SeqSpaceAssumption DEF RepairInv, IInv, TypeOK, StreamTypeOK, Inc, Ids
  <2>2. ASSUME NEW j \in 1 .. Len(nacks) PROVE nacks[j] <= expected'
    <3>1. nacks[j] \in Int /\ expected \in Int /\ expected' \in Int /\ nacks[j] <= expected
      BY <2>1, SeqSpaceAssumption DEF RepairInv, Ids
    <3> QED
      BY <1>3, <3>1
  <2> QED
    BY <2>2
<1> QED
  BY <1>1, <1>2, <1>4, RestCounts, FirstLapIds DEF RepairInv

\* Every step keeps the invariant of a stream that can be repaired.
LEMMA NextRepairInv == Repairable /\ RepairInv /\ [Next]_vars => RepairInv'
<1> SUFFICES ASSUME Repairable, RepairInv, [Next]_vars PROVE RepairInv'
  OBVIOUS
<1>0. IInv'
  BY NextIInv DEF RepairInv
<1>1. CASE \E len \in Sizes : UdpSend(len)
  BY <1>0, <1>1, UdpSendRepairInv
<1>2. CASE RecvExpected
  BY <1>0, <1>2, RecvExpectedRepairInv
<1>3. CASE RecvUnexpected
  <2>1. data # << >> /\ data' = Tail(data) /\ UNCHANGED streamVars
    BY <1>3 DEF RecvUnexpected, Reject
  <2>2. \A j \in 1 .. Len(nacks') : nacks'[j] <= expected
    <3>1. expected \in Nat
      BY FirstLapIds
    <3> QED
      BY <1>3, <3>1, NackIsSent, FirstLapIds DEF RepairInv
  <2> QED
    BY <1>0, <2>1, <2>2, RestCounts DEF RepairInv, streamVars
<1>4. CASE RecvRunt
  <2>1. data # << >> /\ data' = Tail(data) /\ UNCHANGED <<streamVars, nacks>>
    BY <1>4 DEF RecvRunt
  <2> QED
    BY <1>0, <2>1, RestCounts DEF RepairInv, streamVars
<1>5. CASE RecvNack
  <2>1. UNCHANGED streamVars
    BY <1>5 DEF RecvNack
  <2>2. \A m \in 1 .. Len(data') : data'[m].n >= 0
    <3> SUFFICES ASSUME NEW m \in 1 .. Len(data') PROVE data'[m].n >= 0
      OBVIOUS
    <3>1. m \in 1 .. Len(data) \/ m \in Len(data) + 1 .. Len(data')
      BY FirstLapIds
    <3> QED
      BY <1>5, <3>1, NackIsAnswered DEF RepairInv
  <2>3. \A j \in 1 .. Len(nacks') : nacks'[j] <= expected
    <3> SUFFICES ASSUME NEW j \in 1 .. Len(nacks') PROVE nacks'[j] <= expected
      OBVIOUS
    <3>1. nacks'[j] = nacks[j + 1] /\ Len(nacks') = Len(nacks) - 1
      BY <1>5, NackIsAnswered
    <3>2. j + 1 \in 1 .. Len(nacks)
      BY <3>1, FirstLapIds
    <3> QED
      BY <3>1, <3>2 DEF RepairInv
  <2> QED
    BY <1>0, <2>1, <2>2, <2>3 DEF RepairInv, streamVars
<1>6. CASE UNCHANGED vars
  BY <1>0, <1>6 DEF vars, RepairInv
<1> QED
  BY <1>1, <1>2, <1>3, <1>4, <1>5, <1>6 DEF Next, Recv

(***************************************************************************)
(* What repairs rest on holds as long as NACKs and retransmissions get     *)
(* through, the stream is shorter than a lap and no chunk is shorter than  *)
(* the header (chownat.c:402-419, 474-507).                                *)
(***************************************************************************)
THEOREM RepairInvariance == Repairable => (Spec => []RepairInv)
<1> SUFFICES ASSUME Repairable PROVE Spec => []RepairInv
  OBVIOUS
<1> QED
  BY InitRepairInv, NextRepairInv, PTL DEF Spec

(***************************************************************************)
(* A chunk that has been on the path remains owed until it is delivered:   *)
(* nothing that is dropped for being early is forgotten.                   *)
(***************************************************************************)
THEOREM RepairsAreOwed == Repairable => (Spec => NoRepairForgotten)
<1> SUFFICES ASSUME Repairable PROVE Spec => NoRepairForgotten
  OBVIOUS
<1>1. ASSUME RepairInv, [Next]_vars, NEW n \in 1 .. Len(written), Owed(n)
      PROVE  Owed(n)'
  <2>0. IInv' /\ n \in Nat /\ n <= Len(written)
    BY <1>1, NextIInv, FirstLapIds DEF RepairInv
  <2>1. CASE \E len \in Sizes : UdpSend(len)
    <3>1. UNCHANGED <<delivered, nacks>> /\ \E t : t \in Seq(Datagrams) /\ data' = data \o t
      <4> PICK len \in Sizes : UdpSend(len)
        BY <2>1
      <4> DEFINE one == <<Original(id, NextChunk(len))>>
      <4>1. one \in Seq(Datagrams)
        <5>1. NextChunk(len).k \in Nat /\ NextChunk(len).len = len /\ id \in Ids /\ len \in Nat
          BY <1>1, FirstLapIds, SizesAssumption DEF NextChunk, RepairInv, IInv, TypeOK, StreamTypeOK
        <5>2. Original(id, NextChunk(len)) \in Datagrams
          BY <5>1 DEF Original, Datagram, Datagrams, HeaderLen
        <5> QED
          BY <5>2
      <4>2. data' \in Lossy(data, one) /\ UNCHANGED <<delivered, nacks>>
        BY DEF UdpSend, StoreChunk, receiverVars
      <4> HIDE DEF one
      <4>3. PICK t \in Subsequences(one) : data' = data \o t
        BY <4>2 DEF Lossy
      <4> QED
        BY <4>1, <4>2, <4>3, LeftOver
    <3>2. data \in Seq(Datagrams)
      BY <1>1 DEF RepairInv, IInv, TypeOK
    <3>3. \A j \in 1 .. Len(data) : j \in 1 .. Len(data') /\ data'[j] = data[j]
      BY <3>1, <3>2
    <3> QED
      BY <1>1, <3>1, <3>3 DEF Owed
  <2>2. CASE RecvExpected
    <3>1. /\ Len(delivered') = Len(delivered) + 1 /\ data[1].k = Len(delivered) + 1
          /\ UNCHANGED nacks
          /\ \A j \in 1 .. Len(data) : j = 1 \/ (j - 1 \in 1 .. Len(data') /\ data'[j - 1] = data[j])
      BY <1>1, <2>0, <2>2, RecvExpectedRepairInv, HeadLeaves DEF RecvExpected, RepairInv
    <3>2. Len(delivered) \in Nat
      BY <1>1, FirstLapIds
    <3>3. CASE Len(delivered) >= n
      BY <2>0, <3>1, <3>2, <3>3 DEF Owed
    <3>4. CASE \E j \in 1 .. Len(data) : data[j].k = n
      <4> PICK j \in 1 .. Len(data) : data[j].k = n
        BY <3>4
      <4>1. CASE j = 1
        BY <2>0, <3>1, <3>2, <4>1 DEF Owed
      <4>2. CASE j # 1
        BY <3>1, <4>2 DEF Owed
      <4> QED
        BY <4>1, <4>2
    <3>5. CASE \E j \in 1 .. Len(nacks) : nacks[j] < n
      BY <3>1, <3>5 DEF Owed
    <3> QED
      BY <1>1, <3>3, <3>4, <3>5 DEF Owed
  <2>3. CASE RecvUnexpected
    <3>1. /\ UNCHANGED <<delivered, expected>>
          /\ \A j \in 1 .. Len(data) : j = 1 \/ (j - 1 \in 1 .. Len(data') /\ data'[j - 1] = data[j])
      BY <1>1, <2>3, HeadLeaves DEF RecvUnexpected, Reject, streamVars, RepairInv
    <3>2. CASE Len(delivered) < n
      \* the NACK just sent names a chunk before n
      <4>1. nacks'[Len(nacks) + 1] < n /\ Len(nacks) + 1 \in 1 .. Len(nacks')
        BY <1>1, <2>3, <3>2, NackIsSent, FirstLapIds
      <4> QED
        BY <4>1 DEF Owed
    <3>3. CASE ~(Len(delivered) < n)
      <4>1. Len(delivered') >= n
        BY <1>1, <2>0, <3>1, <3>3, FirstLapIds
      <4> QED
        BY <4>1 DEF Owed
    <3> QED
      BY <3>2, <3>3
  <2>4. CASE RecvRunt
    <3>1. data[1].n < 0 /\ 1 \in 1 .. Len(data) /\ data[1] \in Datagrams
      BY <1>1, <2>4, HeadLeaves DEF RecvRunt, RepairInv
    <3>2. data[1].n \in Int /\ data[1].n >= 0
      BY <1>1, <3>1 DEF RepairInv, Datagrams
    <3> QED
      BY <3>1, <3>2
  <2>5. CASE RecvNack
    <3>1. UNCHANGED delivered
      BY <2>5 DEF RecvNack, streamVars
    <3>2. CASE Len(delivered) >= n
      BY <3>1, <3>2 DEF Owed
    <3>3. CASE \E j \in 1 .. Len(data) : data[j].k = n
      <4>1. \A j \in 1 .. Len(data) : j \in 1 .. Len(data') /\ data'[j] = data[j]
        BY <1>1, <2>5, NackIsAnswered, FirstLapIds
      <4> QED
        BY <3>3, <4>1 DEF Owed
    <3>4. CASE Head(nacks) < n
      <4> DEFINE g == Head(nacks)
                 m == Len(data) + (n - g)
      <4>1. g \in Nat /\ g < id /\ n <= id /\ id \in Nat /\ Len(data) \in Nat
        BY <1>1, <2>0, <2>5, <3>4, NackIsAnswered, FirstLapIds
      <4>2. Len(data') = Len(data) + (id - g)
        BY <1>1, <2>5, <4>1, NackIsAnswered
      <4>3. m \in Len(data) + 1 .. Len(data') /\ g + (m - Len(data)) - 1 = n - 1
        BY <2>0, <3>4, <4>1, <4>2
      <4>4. data'[m].k = (n - 1) + 1
        BY <1>1, <2>5, <4>3, NackIsAnswered
      <4>5. m \in 1 .. Len(data') /\ (n - 1) + 1 = n
        BY <2>0, <4>1, <4>3
      <4> QED
        BY <4>4, <4>5 DEF Owed
    <3>5. CASE \E j \in 1 .. Len(nacks) : j # 1 /\ nacks[j] < n
      <4> PICK j \in 1 .. Len(nacks) : j # 1 /\ nacks[j] < n
        BY <3>5
      <4>1. Len(nacks') = Len(nacks) - 1 /\ \A i \in 1 .. Len(nacks') : nacks'[i] = nacks[i + 1]
        BY <1>1, <2>5, NackIsAnswered
      <4>2. j - 1 \in 1 .. Len(nacks') /\ (j - 1) + 1 = j
        BY <1>1, <4>1, FirstLapIds
      <4>3. nacks'[j - 1] = nacks[j]
        BY <4>1, <4>2
      <4> QED
        BY <4>2, <4>3 DEF Owed
    <3> QED
      BY <1>1, <2>5, <3>2, <3>3, <3>4, <3>5, NackIsAnswered DEF Owed
  <2>6. CASE UNCHANGED vars
    BY <1>1, <2>6 DEF vars, Owed
  <2> QED
    BY <1>1, <2>1, <2>2, <2>3, <2>4, <2>5, <2>6 DEF Next, Recv
<1>2. RepairInv /\ [Next]_vars =>
        [\A n \in 1 .. Len(written) : Owed(n) => Owed(n)']_vars
  BY <1>1
<1> QED
  BY <1>2, RepairInvariance, PTL DEF Spec, NoRepairForgotten

-----------------------------------------------------------------------------
(***************************************************************************)
(* Repairs end.                                                            *)
(***************************************************************************)
\* The places of a queue that are left when its first element leaves.
LEMMA MovesUp ==
  ASSUME NEW n \in Nat, NEW S \in SUBSET (1 .. n), NEW T,
         T = {j \in 1 .. n - 1 : j + 1 \in S}
  PROVE  /\ Cardinality(S) \in Nat
         /\ Cardinality(T) = IF 1 \in S THEN Cardinality(S) - 1 ELSE Cardinality(S)
<1>1. IsFiniteSet(1 .. n)
  BY FS_Interval
<1>2. IsFiniteSet(S) /\ Cardinality(S) \in Nat
  BY <1>1, FS_Subset, FS_CardinalityType
<1> DEFINE R == S \ {1}
<1>3. IsFiniteSet(R) /\ Cardinality(R) = IF 1 \in S THEN Cardinality(S) - 1 ELSE Cardinality(S)
  BY <1>2, FS_RemoveElement
<1> DEFINE f == [j \in R |-> j - 1]
<1>4. f \in [R -> T]
  <2> SUFFICES ASSUME NEW j \in R PROVE j - 1 \in T
    OBVIOUS
  <2>1. j \in 2 .. n /\ j \in S
    OBVIOUS
  <2>2. j - 1 \in 1 .. n - 1 /\ (j - 1) + 1 = j
    BY <2>1
  <2> QED
    BY <2>1, <2>2
<1>5. \A a, b \in R : f[a] = f[b] => a = b
  OBVIOUS
<1>6. \A t \in T : \E j \in R : f[j] = t
  <2> SUFFICES ASSUME NEW t \in T PROVE \E j \in R : f[j] = t
    OBVIOUS
  <2>1. t + 1 \in R /\ (t + 1) - 1 = t
    OBVIOUS
  <2> QED
    BY <2>1
<1> HIDE DEF f, R
<1>7. f \in Bijection(R, T)
  BY <1>4, <1>5, <1>6 DEF Bijection, Injection, IsInjective, Surjection
<1>8. Cardinality(T) = Cardinality(R)
  BY <1>3, <1>7, FS_Bijection DEF ExistsBijection
<1> QED
  BY <1>2, <1>3, <1>8

\* Work consists of numbers, so nothing is Below it for ever.
LEMMA WorkIsNatural ==
  ASSUME RepairInv
  PROVE  /\ Len(written) - Len(delivered) \in Nat
         /\ Cardinality(Outdated) \in Nat /\ Cardinality(InFront) \in Nat
         /\ Outdated \in SUBSET (1 .. Len(nacks)) /\ InFront \in SUBSET (1 .. Len(data))
<1>1. IsFiniteSet(1 .. Len(nacks)) /\ IsFiniteSet(1 .. Len(data))
  BY FirstLapIds, FS_Interval
<1>2. Outdated \in SUBSET (1 .. Len(nacks)) /\ InFront \in SUBSET (1 .. Len(data))
  BY DEF Outdated, InFront
<1>3. Cardinality(Outdated) \in Nat /\ Cardinality(InFront) \in Nat
  BY <1>1, <1>2, FS_Subset, FS_CardinalityType
<1>4. Len(written) - Len(delivered) \in Nat
  BY FirstLapIds DEF RepairInv
<1> QED
  BY <1>2, <1>3, <1>4

\* A chunk is handed out.
LEMMA DeliveryIsWork ==
  ASSUME RepairInv, RecvExpected, IInv'
  PROVE  Below(Work', Work)
<1>1. UNCHANGED written /\ Len(delivered') = Len(delivered) + 1
  BY RecvExpectedRepairInv DEF RecvExpected, Accept, senderVars
<1>2. Len(written') - Len(delivered') < Len(written) - Len(delivered)
  BY <1>1, FirstLapIds
<1>3. Work'[1] < Work[1]
  BY <1>2 DEF Work
<1>4. 1 \in 1 .. 4 /\ \A h \in 1 .. 1 - 1 : Work'[h] = Work[h]
  OBVIOUS
<1> QED
  BY <1>3, <1>4 DEF Below

\* A datagram that is not the expected one leaves the front of the path; the
\* NACK it may cause counts for less.
LEMMA DropIsWork ==
  ASSUME Repairable, RepairInv, RecvUnexpected
  PROVE  Below(Work', Work)
<1>1. /\ Head(data) = data[1] /\ 1 \in 1 .. Len(data) /\ data[1].seq # expected
      /\ UNCHANGED streamVars /\ Len(data') = Len(data) - 1 /\ Len(data) \in Nat
      /\ \A m \in 1 .. Len(data') : data'[m] = data[m + 1] /\ m + 1 \in 1 .. Len(data)
      /\ \A m \in 1 .. Len(data) : m = 1 \/ (m - 1 \in 1 .. Len(data') /\ data'[m - 1] = data[m])
  BY HeadLeaves DEF RecvUnexpected, Reject, RepairInv
<1>2. Comes' = Comes
  BY <1>1 DEF Comes, streamVars
<1>3. 1 \in InFront
  BY <1>1 DEF InFront
<1>4. InFront' = {j \in 1 .. Len(data) - 1 : j + 1 \in InFront}
  <2> DEFINE Fits(m) == data[m].seq = expected /\ data[m].n >= 0
             FitsThen(m) == data'[m].seq = expected /\ data'[m].n >= 0
  <2>1. \A m \in 1 .. Len(data) - 1 : FitsThen(m) <=> Fits(m + 1)
    BY <1>1
  <2>2. ~Fits(1)
    BY <1>1
  <2>3. InFront' = {j \in 1 .. Len(data) - 1 : \A h \in 1 .. j : ~FitsThen(h)}
    BY <1>1 DEF InFront, streamVars
  <2>4. InFront = {j \in 1 .. Len(data) : \A h \in 1 .. j : ~Fits(h)}
    BY DEF InFront
  <2> HIDE DEF Fits, FitsThen
  <2>5. ASSUME NEW j \in 1 .. Len(data) - 1
        PROVE  (\A h \in 1 .. j : ~FitsThen(h)) <=> (\A h \in 1 .. j + 1 : ~Fits(h))
    <3>1. ASSUME \A h \in 1 .. j : ~FitsThen(h), NEW h \in 1 .. j + 1 PROVE ~Fits(h)
      <4>1. CASE h = 1
        BY <2>2, <4>1
      <4>2. CASE h # 1
        <5>1. h - 1 \in 1 .. j /\ h - 1 \in 1 .. Len(data) - 1 /\ (h - 1) + 1 = h
          BY <1>1, <4>2
        <5> QED
          BY <2>1, <3>1, <5>1
      <4> QED
        BY <4>1, <4>2
    <3>2. ASSUME \A h \in 1 .. j + 1 : ~Fits(h), NEW h \in 1 .. j PROVE ~FitsThen(h)
      <4>1. h + 1 \in 1 .. j + 1 /\ h \in 1 .. Len(data) - 1
        BY <1>1
      <4> QED
        BY <2>1, <3>2, <4>1
    <3> QED
      BY <3>1, <3>2
  <2>6. \A j \in 1 .. Len(data) - 1 : j + 1 \in 1 .. Len(data)
    BY <1>1
  <2> QED
    BY <2>3, <2>4, <2>5, <2>6
<1>5. Cardinality(InFront') = Cardinality(InFront) - 1
  BY <1>1, <1>3, <1>4, MovesUp, WorkIsNatural
<1>6. Outdated' = Outdated /\ Len(nacks') = Len(nacks) + 1
  <2>1. expected' = expected
    BY <1>1 DEF streamVars
  <2> QED
    BY <2>1, NackIsSent, FirstLapIds DEF Outdated
<1>7. 2 * Cardinality(InFront') + Len(nacks') < 2 * Cardinality(InFront) + Len(nacks)
  BY <1>5, <1>6, WorkIsNatural, FirstLapIds
<1>8. Work'[4] < Work[4] /\ 4 \in 1 .. 4
  BY <1>7 DEF Work
<1>9. \A h \in 1 .. 4 - 1 : Work'[h] = Work[h]
  <2>1. Work'[1] = Work[1]
    BY <1>1 DEF Work, streamVars
  <2>2. Work'[2] = Work[2]
    BY <1>6 DEF Work
  <2>3. Work'[3] = Work[3]
    BY <1>2 DEF Work
  <2> QED
    BY <2>1, <2>2, <2>3
<1> QED
  BY <1>8, <1>9 DEF Below

\* A NACK is used up.  Its answer begins with the expected datagram, unless
\* the NACK is older than the last delivery or nothing is missing.
LEMMA AnswerIsWork ==
  ASSUME Repairable, RepairInv, RecvNack
  PROVE  Below(Work', Work)
<1> DEFINE g == Head(nacks)
           n == Len(data)
<1>1. /\ g \in Nat /\ g = nacks[1] /\ g <= expected /\ 1 \in 1 .. Len(nacks)
      /\ Len(nacks') = Len(nacks) - 1 /\ Len(nacks) \in Nat
      /\ \A j \in 1 .. Len(nacks) - 1 : nacks'[j] = nacks[j + 1]
      /\ Len(data') = n + (IF g < id THEN id - g ELSE 0)
      /\ \A m \in 1 .. n : data'[m] = data[m]
      /\ UNCHANGED <<written, delivered, expected>>
      /\ n \in Nat /\ id \in Nat /\ id = Len(written) /\ expected = Len(delivered)
      /\ expected <= id
  BY NackIsAnswered, FirstLapIds DEF RecvNack, streamVars, RepairInv
<1>2. Outdated' = {j \in 1 .. Len(nacks) - 1 : j + 1 \in Outdated}
  <2>1. Outdated' = {j \in 1 .. Len(nacks) - 1 : nacks[j + 1] # expected}
    BY <1>1 DEF Outdated
  <2>2. \A j \in 1 .. Len(nacks) - 1 : j + 1 \in 1 .. Len(nacks)
    BY <1>1
  <2> QED
    BY <2>1, <2>2 DEF Outdated
<1>3. Cardinality(Outdated') =
        IF 1 \in Outdated THEN Cardinality(Outdated) - 1 ELSE Cardinality(Outdated)
  <2>1. Len(nacks) \in Nat /\ Outdated \in SUBSET (1 .. Len(nacks))
    BY <1>1, WorkIsNatural
  <2> QED
    BY <1>2, <2>1, MovesUp
<1>4. Work'[1] = Work[1]
  BY <1>1 DEF Work
<1>5. CASE g # expected
  <2>1. 1 \in Outdated
    BY <1>1, <1>5 DEF Outdated
  <2>2. Work'[2] < Work[2]
    BY <1>3, <2>1, WorkIsNatural DEF Work
  <2>3. 2 \in 1 .. 4 /\ \A h \in 1 .. 2 - 1 : Work'[h] = Work[h]
    BY <1>4
  <2> QED
    BY <2>2, <2>3 DEF Below
<1>6. CASE g = expected
  <2>1. 1 \notin Outdated
    BY <1>1, <1>6 DEF Outdated
  <2>2. Work'[2] = Work[2]
    BY <1>3, <2>1 DEF Work
  <2>3. CASE ~Comes /\ Comes'
    <3>1. Work'[3] < Work[3]
      BY <2>3 DEF Work
    <3>2. 3 \in 1 .. 4 /\ \A h \in 1 .. 3 - 1 : Work'[h] = Work[h]
      BY <1>4, <2>2
    <3> QED
      BY <3>1, <3>2 DEF Below
  <2>4. CASE Comes' = Comes /\ InFront' = InFront
    <3>1. Work'[3] = Work[3]
      BY <2>4 DEF Work
    <3>2. 2 * Cardinality(InFront') + Len(nacks') < 2 * Cardinality(InFront) + Len(nacks)
      BY <1>1, <2>4, WorkIsNatural
    <3>3. Work'[4] < Work[4]
      BY <3>2 DEF Work
    <3>4. 4 \in 1 .. 4 /\ \A h \in 1 .. 4 - 1 : Work'[h] = Work[h]
      BY <1>4, <2>2, <3>1
    <3> QED
      BY <3>3, <3>4 DEF Below
  <2>5. CASE Comes
    <3>1. PICK j \in 1 .. n : data[j].seq = expected /\ data[j].n >= 0
      BY <2>5 DEF Comes
    <3>2. n <= Len(data') /\ Len(data') \in Nat
      BY <1>1
    <3>3. Comes'
      BY <1>1, <3>1, <3>2 DEF Comes
    <3>4. InFront' = InFront
      <4>1. ASSUME NEW i \in 1 .. Len(data'), i \notin 1 .. n
            PROVE  \E h \in 1 .. i : data'[h].seq = expected' /\ data'[h].n >= 0
        <5>1. j \in 1 .. i /\ data'[j] = data[j]
          BY <1>1, <3>1, <3>2, <4>1
        <5> QED
          BY <1>1, <3>1, <5>1
      <4>2. ASSUME NEW i \in 1 .. n
            PROVE  /\ i \in 1 .. Len(data')
                   /\ \A h \in 1 .. i : data'[h] = data[h]
        BY <1>1, <3>2
      <4> QED
        BY <1>1, <4>1, <4>2 DEF InFront
    <3> QED
      BY <2>4, <2>5, <3>3, <3>4
  <2>6. CASE ~Comes
    <3>1. CASE g < id
      <4>1. n + 1 \in n + 1 .. Len(data') /\ n + 1 \in 1 .. Len(data')
        BY <1>1, <3>1
      <4>2. g + ((n + 1) - n) - 1 = g
        BY <1>1
      <4>3. data'[n + 1].seq = g /\ data'[n + 1].n >= 0
        BY <4>1, <4>2, NackIsAnswered
      <4>4. Comes'
        BY <1>1, <1>6, <4>1, <4>3 DEF Comes
      <4> QED
        BY <2>3, <2>6, <4>4
    <3>2. CASE ~(g < id)
      <4>1. Len(data') = Len(data)
        BY <1>1, <3>2
      <4>2. Comes' = Comes
        BY <1>1, <4>1 DEF Comes
      <4>3. ASSUME NEW i \in 1 .. n PROVE \A h \in 1 .. i : data'[h] = data[h]
        BY <1>1
      <4>4. InFront' = InFront
        BY <1>1, <4>1, <4>3 DEF InFront
      <4> QED
        BY <2>4, <4>2, <4>4
    <3> QED
      BY <3>1, <3>2
  <2> QED
    BY <2>5, <2>6
<1> QED
  BY <1>5, <1>6

(***************************************************************************)
(* Repairs run down: Work is made of natural numbers, and every step that  *)
(* is not a udp_send makes it smaller.  With a fair receiver this is why   *)
(* RepairEnds holds, and with RepairsAreOwed why GapHeals does.            *)
(***************************************************************************)
THEOREM RepairsAreFinite == Repairable => (Spec => RepairsRunDown)
<1> SUFFICES ASSUME Repairable PROVE Spec => RepairsRunDown
  OBVIOUS
<1>1. ASSUME RepairInv, Next, UNCHANGED written PROVE Below(Work', Work)
  <2>0. IInv'
    BY <1>1, NextIInv DEF RepairInv
  <2>1. CASE \E len \in Sizes : UdpSend(len)
    <3>1. Len(written') = Len(written) + 1
      BY <2>1 DEF UdpSend, StoreChunk
    <3> QED
      BY <1>1, <3>1, FirstLapIds
  <2>2. CASE RecvRunt
    <3>1. data[1].n < 0 /\ 1 \in 1 .. Len(data)
      BY <1>1, <2>2, HeadLeaves DEF RecvRunt, RepairInv
    <3>2. data[1] \in Datagrams
      BY <3>1, <1>1 DEF RepairInv, IInv, TypeOK
    <3>3. data[1].n \in Int /\ data[1].n >= 0
      BY <1>1, <3>1, <3>2 DEF RepairInv, Datagrams
    <3> QED
      BY <3>1, <3>3
  <2> QED
    BY <1>1, <2>0, <2>1, <2>2, DeliveryIsWork, DropIsWork, AnswerIsWork DEF Next, Recv
<1>2. RepairInv /\ [Next]_vars => [UNCHANGED written => Below(Work', Work)]_vars
  BY <1>1
<1> QED
  BY <1>2, RepairInvariance, PTL DEF Spec, RepairsRunDown
=============================================================================
