---------------------------- MODULE ChownatData ----------------------------
(***************************************************************************)
(* The data plane of chownat.c as pure operators: sequence ids that wrap,  *)
(* the ring of sent chunks kept for retransmission, and what the receiver  *)
(* sees of a datagram of a given length.                                   *)
(*                                                                         *)
(* A chunk is one call of udp_send: its place k in the stream (1, 2, ...)  *)
(* stands for its bytes, len is nbytes.                                    *)
(***************************************************************************)
EXTENDS Integers, Sequences

CONSTANTS SeqSpace,  \* number of sequence ids: 256 in the code
          Sizes      \* the chunk lengths handed to udp_send

ASSUME SeqSpaceAssumption == SeqSpace \in Nat /\ SeqSpace >= 2
ASSUME SizesAssumption == Sizes \subseteq Nat \ {0}

\* Every datagram starts with '0', '9' (or '8') and an id.
HeaderLen == 3

Ids == 0 .. SeqSpace - 1

\* Faulty: the test is one off, id > 256.
IncLate(i) == IF i = SeqSpace THEN 0 ELSE i + 1

\* id++; if(id == 256) id = 0.
Inc(i) == IF i + 1 = SeqSpace THEN 0 ELSE i + 1

Chunks == [k : Nat, len : Nat]

\* The contents of a slot of buffer[] and sizes[] after init's memset.
EmptySlot == [k |-> 0, len |-> 0]

(***************************************************************************)
(* The "09" datagram of chunk c under id i when sendto is asked for total  *)
(* bytes: n of them are payload.  With fewer than HeaderLen bytes in all   *)
(* (n < 0) udp_recv takes the datagram for a keep-alive.                   *)
(***************************************************************************)
Datagram(i, c, total) == [seq |-> i, k |-> c.k, n |-> total - HeaderLen]

Datagrams == [seq : Ids, k : Nat, n : Int]

\* Faulty: the header is written after id++.
OriginalAhead(i, c) == Datagram(Inc(i), c, c.len + HeaderLen)

\* Faulty: the whole slot is sent, whatever the length of the chunk.
RetransmittedSlot(i, c) == Datagram(i, c, 1027)

Original(i, c) == Datagram(i, c, c.len + HeaderLen)

\* The answer to a NACK passes sizes[i], without the header, to sendto.
Retransmitted(i, c) == Datagram(i, c, c.len)

\* Faulty: i <= id.
ResentIdsOneMore(got, id) == got .. id

\* Faulty: only the packet the NACK names.
ResentIdsOnlyGot(got, id) == IF got < id THEN {got} ELSE {}

\* Faulty: the last packet at least, so that no NACK goes unanswered.
ResentIdsOrLast(got, id) == IF got < id THEN got .. id - 1 ELSE {id - 1}

\* for(uint8_t i = got; i < id; i++): nothing at all when got >= id.
ResentIds(got, id) == got .. id - 1

\* What reaches the application of the chunk in datagram d.
Piece(d) == [k |-> d.k, n |-> d.n]
=============================================================================
