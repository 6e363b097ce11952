--------------------------- MODULE ChownatOrdered ---------------------------
(***************************************************************************)
(* The data stream of chownat.c over a path that loses datagrams but keeps *)
(* their order, such as the laboratory's.  data and nacks are the two      *)
(* directions.  Losses happen on sending: the path drops any of the        *)
(* datagrams handed to it, those beyond MaxFlight among them.              *)
(***************************************************************************)
EXTENDS ChownatStream, FiniteSets

CONSTANTS LossyReplies,  \* may NACKs and retransmissions be lost too?
          MaxFlight      \* bound: datagrams in a direction that loses some

ASSUME PathAssumption == LossyReplies \in BOOLEAN /\ MaxFlight \in Nat

VARIABLES data, nacks

vars == <<id, buffer, written, expected, delivered, data, nacks>>

\* The sequences left of s when any of its elements may be dropped.
Subsequences(s) ==
  LET Increasing(n) == {f \in [1 .. n -> DOMAIN s] :
                          \A i, j \in 1 .. n : i < j => f[i] < f[j]}
  IN  UNION {{[j \in 1 .. n |-> s[f[j]]] : f \in Increasing(n)} : n \in 0 .. Len(s)}

Lossy(channel, msgs) ==
  {channel \o t : t \in {u \in Subsequences(msgs) : Len(channel \o u) <= MaxFlight}}

Replied(channel, msgs) ==
  IF LossyReplies THEN Lossy(channel, msgs) ELSE {channel \o msgs}

Init ==
  /\ StreamInit
  /\ data = << >>
  /\ nacks = << >>

UdpSend(len) ==
  /\ StoreChunk(len)
  /\ data' \in Lossy(data, <<Original(id, NextChunk(len))>>)
  /\ UNCHANGED nacks

RecvExpected ==
  /\ data # << >>
  /\ Accept(Head(data))
  /\ data' = Tail(data)
  /\ UNCHANGED nacks

RecvUnexpected ==
  /\ data # << >>
  /\ Reject(Head(data))
  /\ data' = Tail(data)
  /\ nacks' \in Replied(nacks, <<expected>>)

\* udp_recv, fewer than HeaderLen bytes: a keep-alive, ignored.
RecvRunt ==
  /\ data # << >>
  /\ Head(data).n < 0
  /\ data' = Tail(data)
  /\ UNCHANGED <<streamVars, nacks>>

\* The j-th smallest of ids.
Nth(ids, j) == CHOOSE i \in ids : Cardinality({h \in ids : h <= i}) = j

\* The datagrams that answer the NACK got, in the order of the loop.
Retransmission(got) ==
  LET ids == ResentIds(got, id)
  IN  [j \in 1 .. Cardinality(ids) |->
         Retransmitted(Nth(ids, j), buffer[Nth(ids, j)])]

\* udp_recv, "08".
RecvNack ==
  /\ nacks # << >>
  /\ nacks' = Tail(nacks)
  /\ data' \in Replied(data, Retransmission(Head(nacks)))
  /\ UNCHANGED streamVars

Recv == RecvExpected \/ RecvUnexpected \/ RecvRunt

Next == (\E len \in Sizes : UdpSend(len)) \/ Recv \/ RecvNack

Spec == Init /\ [][Next]_vars

\* select() wakes udp_connection's loop for as long as a datagram is queued.
FairSpec == Spec /\ WF_vars(Recv) /\ WF_vars(RecvNack)

-----------------------------------------------------------------------------
TypeOK ==
  /\ StreamTypeOK
  /\ data \in Seq(Datagrams)
  /\ nacks \in Seq(Ids)

InOrderSoFar == \A j \in 1 .. Len(delivered) : delivered[j].k = j

(***************************************************************************)
(* On a path that keeps the order the ids are enough for a stream of any   *)
(* length, except when the writer runs more than a lap ahead of the        *)
(* reader, which udp_send never prevents (chownat.c:402-419): only then    *)
(* can udp_recv hand out a chunk that is not the next one.                 *)
(***************************************************************************)
SlipsOnlyWhenLapped ==
  [][ InOrderSoFar =>
        \/ InOrderSoFar'
        \/ Len(written) - Len(delivered) > SeqSpace ]_vars

(***************************************************************************)
(* When NACKs and retransmissions get through, every chunk written before  *)
(* one that reaches the receiver is delivered in the end                   *)
(* (chownat.c:474-507): any chunk still on its way will be covered.        *)
(***************************************************************************)
GapHeals ==
  \A n \in 1 .. MaxSend :
    (\E j \in 1 .. Len(data) : data[j].k = n) ~> Len(delivered) >= n

(***************************************************************************)
(* Repairs end: with no more chunks written, the exchange of NACKs and     *)
(* retransmissions they cause dies out (chownat.c:474-507), although every *)
(* unexpected datagram, a repeated one too, is answered with a NACK.       *)
(***************************************************************************)
RepairEnds == <>[](data = << >> /\ nacks = << >>)

-----------------------------------------------------------------------------
(***************************************************************************)
(* The two liveness properties are about streams shorter than a lap, with  *)
(* chunks no shorter than the header, whose repairs get through.  What     *)
(* they rest on are two promises of each step.                             *)
(***************************************************************************)
\* Chunk n has been delivered, or is on the path, or a NACK is that repeats it.
Owed(n) ==
  \/ Len(delivered) >= n
  \/ \E j \in 1 .. Len(data) : data[j].k = n
  \/ \E j \in 1 .. Len(nacks) : nacks[j] < n

(***************************************************************************)
(* No step forgets a repair: a chunk that has been on the path is there,   *)
(* will be asked for again, or has been delivered, although a datagram     *)
(* that comes too early is dropped and not kept (chownat.c:476-507).       *)
(***************************************************************************)
NoRepairForgotten ==
  [][ \A n \in 1 .. Len(written) : Owed(n) => Owed(n)' ]_vars

\* Is the datagram the reader waits for on the path?  What is in front of it?
Comes == \E j \in 1 .. Len(data) : data[j].seq = expected /\ data[j].n >= 0
InFront ==
  {j \in 1 .. Len(data) :
     \A h \in 1 .. j : ~(data[h].seq = expected /\ data[h].n >= 0)}

\* The NACKs sent before the last delivery.
Outdated == {j \in 1 .. Len(nacks) : nacks[j] # expected}

\* What is left to do, the most important first.
Work ==
  << Len(written) - Len(delivered),
     Cardinality(Outdated),
     IF Comes THEN 0 ELSE 1,
     2 * Cardinality(InFront) + Len(nacks) >>

\* v comes before w in the order of dictionaries.
Below(v, w) ==
  \E i \in 1 .. 4 : v[i] < w[i] /\ \A h \in 1 .. i - 1 : v[h] = w[h]

(***************************************************************************)
(* Every step but a udp_send leaves less to do: the repairs that repairs   *)
(* cause, and the NACKs those cause, cannot go round in a circle           *)
(* (chownat.c:478-499).                                                    *)
(***************************************************************************)
RepairsRunDown == [][ UNCHANGED written => Below(Work', Work) ]_vars

-----------------------------------------------------------------------------
\* Why: the slots below id are those of this lap.
SlotsOfThisLap ==
  /\ id = Len(written) % SeqSpace
  /\ \A i \in 0 .. id - 1 : buffer[i].k = Len(written) - id + i + 1

\* Why: an id is the place of its chunk, up to laps.
IdsAreResidues ==
  /\ expected = Len(delivered) % SeqSpace
  /\ \A m \in 1 .. Len(data) :
       data[m].k \in 1 .. Len(written) /\ data[m].seq = (data[m].k - 1) % SeqSpace
  /\ \A j \in 1 .. Len(delivered) :
       /\ delivered[j].k \in 1 .. Len(written)
       /\ (delivered[j].k - 1) % SeqSpace = (j - 1) % SeqSpace

\* Why: nothing on the path is a lap behind what is before it or has arrived.
NoneIsALapOld ==
  \A m \in 1 .. Len(data) :
    /\ \A j \in 1 .. Len(delivered) : delivered[j].k < data[m].k + SeqSpace - 1
    /\ \A h \in 1 .. m - 1 : data[h].k < data[m].k + SeqSpace - 1

\* The inductive invariant.
IInv ==
  /\ TypeOK
  /\ SlotsOfThisLap
  /\ IdsAreResidues
  /\ NoneIsALapOld

\* The same for a stream shorter than a lap, with chunks no shorter than the
\* header: every datagram counts, and a NACK names what is missing or older.
RepairInv ==
  /\ IInv
  /\ Len(delivered) <= Len(written) /\ Len(written) < SeqSpace
  /\ \A i \in 0 .. id - 1 : buffer[i].len >= HeaderLen
  /\ \A m \in 1 .. Len(data) : data[m].n >= 0
  /\ \A j \in 1 .. Len(nacks) : nacks[j] <= expected

-----------------------------------------------------------------------------
(***************************************************************************)
(* Claims of the sources that the code does not keep.                      *)
(***************************************************************************)
\* chownat.c:488: at the LOST_DATA callback the data "is already
\* retransmited".  RecvNack is that handler; got # id says that the peer
\* still misses a chunk.
LostDataIsResent ==
  [][ (nacks # << >> /\ nacks' = Tail(nacks) /\ Head(nacks) # id)
        => Len(data') > Len(data) ]_vars

\* The tunnel delivers whole chunks.
WholePipe == INSTANCE Pipe WITH Short <- {0}
WholeChunks == WholePipe!Spec
=============================================================================
