--------------------------- MODULE ChownatStream ---------------------------
(***************************************************************************)
(* One direction of a chownat connection: the sending peer's id, buffer[]  *)
(* and sizes[], the receiving peer's expected, and the data handlers of    *)
(* udp_send and udp_recv without the network between them.  The modules    *)
(* that extend this one add a network.  The other direction is the same,   *)
(* and independent: "08" touches only a peer's sending half, "09" only its *)
(* receiving half.                                                         *)
(*                                                                         *)
(* written and delivered are history: the lengths of the chunks given to   *)
(* udp_send, and the pieces copied out by udp_recv.                        *)
(***************************************************************************)
EXTENDS ChownatData

CONSTANTS MaxSend,   \* bound: chunks written in one behaviour
          MaxRecv    \* bound: pieces delivered in one behaviour

ASSUME BoundsAssumption == MaxSend \in Nat /\ MaxRecv \in Nat

VARIABLES id, buffer, written, expected, delivered

senderVars == <<id, buffer, written>>
receiverVars == <<expected, delivered>>
streamVars == <<id, buffer, written, expected, delivered>>

StreamInit ==
  /\ id = 0
  /\ buffer = [i \in Ids |-> EmptySlot]
  /\ written = << >>
  /\ expected = 0
  /\ delivered = << >>

\* The chunk that the next udp_send of len bytes stores.
NextChunk(len) == [k |-> Len(written) + 1, len |-> len]

\* Faulty: the chunk is stored after id++.
StoreChunkAhead(len) ==
  /\ Len(written) < MaxSend
  /\ buffer' = [buffer EXCEPT ![Inc(id)] = NextChunk(len)]
  /\ written' = Append(written, len)
  /\ id' = Inc(id)
  /\ UNCHANGED receiverVars

\* udp_send: store the chunk under id and advance; there is no window check.
StoreChunk(len) ==
  /\ Len(written) < MaxSend
  /\ buffer' = [buffer EXCEPT ![id] = NextChunk(len)]
  /\ written' = Append(written, len)
  /\ id' = Inc(id)
  /\ UNCHANGED receiverVars

\* Faulty: any id from expected on is accepted.
AcceptAhead(d) ==
  /\ Len(delivered) < MaxRecv
  /\ d.n >= 0
  /\ d.seq >= expected
  /\ expected' = Inc(expected)
  /\ delivered' = Append(delivered, Piece(d))
  /\ UNCHANGED senderVars

\* Faulty: expected++ is missing.
AcceptAgain(d) ==
  /\ Len(delivered) < MaxRecv
  /\ d.n >= 0
  /\ d.seq = expected
  /\ delivered' = Append(delivered, Piece(d))
  /\ UNCHANGED <<senderVars, expected>>

\* udp_recv, "09" with got == expected.
Accept(d) ==
  /\ Len(delivered) < MaxRecv
  /\ d.n >= 0
  /\ d.seq = expected
  /\ expected' = Inc(expected)
  /\ delivered' = Append(delivered, Piece(d))
  /\ UNCHANGED senderVars

\* udp_recv, "09" with got != expected: the caller sends the NACK "08" expected.
Reject(d) ==
  /\ d.n >= 0
  /\ d.seq # expected
  /\ UNCHANGED streamVars

-----------------------------------------------------------------------------
StreamTypeOK ==
  /\ id \in Ids
  /\ buffer \in [Ids -> Chunks]
  /\ written \in Seq(Sizes)
  /\ expected \in Ids
  /\ delivered \in Seq([k : Nat, n : Nat])

(***************************************************************************)
(* As long as fewer than SeqSpace chunks have been written, the pieces     *)
(* udp_recv hands out are the chunks 1, 2, 3, ... without a gap, a         *)
(* repetition or a swap (chownat.c:495-506).                               *)
(***************************************************************************)
InOrder ==
  Len(written) < SeqSpace =>
    /\ Len(delivered) <= Len(written)
    /\ \A j \in 1 .. Len(delivered) : delivered[j].k = j

(***************************************************************************)
(* On a path that keeps the order, however long the connection lives and   *)
(* whatever is lost, the piece at place j is a chunk whole laps of the id  *)
(* counter away from the j-th: ids alone can put the stream wrong by       *)
(* multiples of SeqSpace only (chownat.c:495-501).                         *)
(***************************************************************************)
WholeLapsOff ==
  \A j \in 1 .. Len(delivered) : (delivered[j].k - j) % SeqSpace = 0

(***************************************************************************)
(* A piece is the chunk written at its place, whole or, when it came by    *)
(* retransmission, short of exactly its last HeaderLen bytes               *)
(* (chownat.c:485 against chownat.c:419).                                  *)
(***************************************************************************)
PieceOfChunk ==
  \A j \in 1 .. Len(delivered) :
    LET p == delivered[j]
    IN  /\ p.k \in 1 .. Len(written)
        /\ p.n \in {written[p.k], written[p.k] - HeaderLen}
=============================================================================
