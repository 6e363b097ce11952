-------------------------- MODULE ChownatUnordered --------------------------
(***************************************************************************)
(* The data stream of chownat.c over the network UDP really offers: a      *)
(* datagram may be lost, repeated and overtaken.  data and nacks are the   *)
(* datagrams ever sent in each direction; a datagram that is never         *)
(* received was lost, one received twice was repeated.  A runt (n < 0) is  *)
(* taken for a keep-alive, which changes nothing: a stuttering step.       *)
(***************************************************************************)
EXTENDS ChownatStream

VARIABLES data, nacks

vars == <<id, buffer, written, expected, delivered, data, nacks>>

Init ==
  /\ StreamInit
  /\ data = {}
  /\ nacks = {}

UdpSend(len) ==
  /\ StoreChunk(len)
  /\ data' = data \cup {Original(id, NextChunk(len))}
  /\ UNCHANGED nacks

RecvExpected(d) ==
  /\ Accept(d)
  /\ UNCHANGED <<data, nacks>>

RecvUnexpected(d) ==
  /\ Reject(d)
  /\ nacks' = nacks \cup {expected}
  /\ UNCHANGED data

\* udp_recv, "08".
RecvNack(got) ==
  /\ data' = data \cup {Retransmitted(i, buffer[i]) : i \in ResentIds(got, id)}
  /\ UNCHANGED <<streamVars, nacks>>

Next ==
  \/ \E len \in Sizes : UdpSend(len)
  \/ \E d \in data : RecvExpected(d)
  \/ \E d \in data : RecvUnexpected(d)
  \/ \E got \in nacks : RecvNack(got)

Spec == Init /\ [][Next]_vars

-----------------------------------------------------------------------------
TypeOK ==
  /\ StreamTypeOK
  /\ data \subseteq Datagrams
  /\ nacks \subseteq Ids

(***************************************************************************)
(* Whatever is in flight, however old, is a chunk that was written, under  *)
(* the id it was stored under, whole or short of HeaderLen bytes.          *)
(***************************************************************************)
InFlight(d) ==
  /\ d.k \in 1 .. Len(written)
  /\ d.n \in {written[d.k], written[d.k] - HeaderLen}

(***************************************************************************)
(* A NACK never makes the sender read a slot it has not filled, nor send   *)
(* under an id another chunk's contents: the loop bound i < id suffices    *)
(* (chownat.c:478-485).                                                    *)
(***************************************************************************)
SlotsFilled ==
  \A i \in Ids :
    \/ buffer[i] = EmptySlot /\ i >= id /\ Len(written) < SeqSpace
    \/ /\ buffer[i].k \in 1 .. Len(written)
       /\ buffer[i].len = written[buffer[i].k]

\* Before the ids wrap, chunk k lives in slot k - 1.
FirstLap ==
  Len(written) < SeqSpace =>
    /\ id = Len(written)
    /\ expected = Len(delivered)
    /\ Len(delivered) <= Len(written)
    /\ \A i \in 0 .. id - 1 : buffer[i].k = i + 1
    /\ \A d \in data : d.k = d.seq + 1
    /\ \A j \in 1 .. Len(delivered) : delivered[j].k = j

\* The inductive invariant.
IInv ==
  /\ TypeOK
  /\ SlotsFilled
  /\ \A d \in data : InFlight(d)
  /\ PieceOfChunk
  /\ FirstLap

-----------------------------------------------------------------------------
\* The pipe this stream is, with retransmitted chunks cut short.
CutPipe == INSTANCE Pipe WITH Short <- {0, HeaderLen}

(***************************************************************************)
(* While a connection carries fewer than SeqSpace chunks it is a pipe that *)
(* never loses its place, though a chunk may come out without its last     *)
(* HeaderLen bytes.                                                        *)
(***************************************************************************)
PipeSpec == CutPipe!Spec
=============================================================================
