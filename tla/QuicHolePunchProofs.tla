------------------------ MODULE QuicHolePunchProofs ------------------------
(***************************************************************************)
(* Who triggers whom in hole punching, for every window, timeout, delay,   *)
(* buffer and number of faults.                                            *)
(***************************************************************************)
EXTENDS QuicHolePunch, SequenceTheorems, FiniteSetTheorems, TLAPS

Msgs == [kind : Kinds, age : 0 .. Delay]

\* The two ways a probe may be on its way to the client.
Flying == \E i \in DOMAIN flight["client"] : flight["client"][i].kind = "01"
Queued == \E i \in DOMAIN queue["client"] : queue["client"][i] = "01"

LEMMA ProbeForClient == ProbeFor("client") <=> Flying \/ Queued
  BY DEF ProbeFor, Flying, Queued

-----------------------------------------------------------------------------
\* Removing an element moves those behind it up.
LEMMA RemovedAt ==
  ASSUME NEW S, NEW s \in Seq(S), NEW i \in DOMAIN s
  PROVE  /\ RemoveAt(s, i) \in Seq(S)
         /\ Len(RemoveAt(s, i)) = Len(s) - 1
         /\ \A j \in 1 .. Len(s) - 1 : RemoveAt(s, i)[j] = IF j < i THEN s[j] ELSE s[j + 1]
<1> DEFINE before == SubSeq(s, 1, i - 1)
           after == SubSeq(s, i + 1, Len(s))
<1>1. i \in 1 .. Len(s) /\ Len(s) \in Nat
  OBVIOUS
<1>2. /\ before \in Seq(S) /\ Len(before) = i - 1
      /\ \A j \in 1 .. Len(before) : before[j] = s[j]
  BY <1>1, SubSeqProperties
<1>3. /\ after \in Seq(S) /\ Len(after) = Len(s) - i
      /\ \A j \in 1 .. Len(after) : after[j] = s[i + j]
  BY <1>1, SubSeqProperties
<1> HIDE DEF before, after
<1>4. /\ before \o after \in Seq(S)
      /\ Len(before \o after) = Len(before) + Len(after)
      /\ \A j \in 1 .. Len(before) + Len(after) :
           (before \o after)[j] =
             IF j <= Len(before) THEN before[j] ELSE after[j - Len(before)]
  BY <1>2, <1>3, ConcatProperties
<1>5. Len(before) + Len(after) = Len(s) - 1
  BY <1>1, <1>2, <1>3
<1>6. ASSUME NEW j \in 1 .. Len(s) - 1
      PROVE  (before \o after)[j] = IF j < i THEN s[j] ELSE s[j + 1]
  <2>1. CASE j < i
    BY <1>1, <1>2, <1>4, <1>5, <2>1
  <2>2. CASE ~(j < i)
    <3>1. j - Len(before) \in 1 .. Len(after) /\ i + (j - Len(before)) = j + 1
      BY <1>1, <1>2, <1>3, <2>2
    <3>2. (before \o after)[j] = after[j - Len(before)]
      BY <1>1, <1>2, <1>4, <1>5, <2>2
    <3> QED
      BY <1>3, <2>2, <3>1, <3>2
  <2> QED
    BY <2>1, <2>2
<1>7. RemoveAt(s, i) = before \o after
  BY DEF RemoveAt, before, after
<1> QED
  BY <1>4, <1>5, <1>6, <1>7

\* Removing an element brings none into a sequence.
LEMMA Removed ==
  ASSUME NEW S, NEW s \in Seq(S), NEW i \in DOMAIN s
  PROVE  /\ RemoveAt(s, i) \in Seq(S)
         /\ \A j \in DOMAIN RemoveAt(s, i) : \E k \in DOMAIN s : RemoveAt(s, i)[j] = s[k]
<1>1. i \in 1 .. Len(s) /\ Len(s) \in Nat
  OBVIOUS
<1>2. ASSUME NEW j \in 1 .. Len(s) - 1
      PROVE  \E k \in DOMAIN s : RemoveAt(s, i)[j] = s[k]
  <2>1. RemoveAt(s, i)[j] = IF j < i THEN s[j] ELSE s[j + 1]
    BY RemovedAt
  <2>2. j \in DOMAIN s /\ j + 1 \in DOMAIN s
    BY <1>1
  <2> QED
    BY <2>1, <2>2
<1>3. DOMAIN RemoveAt(s, i) = 1 .. Len(s) - 1
  BY RemovedAt
<1> QED
  BY <1>2, <1>3, RemovedAt

\* What the type invariant says of the datagrams on their way to p.
LEMMA InFlight ==
  ASSUME TypeOK, NEW p \in Peers
  PROVE  /\ flight[p] \in Seq(Msgs)
         /\ Len(flight[p]) \in Nat /\ DOMAIN flight[p] = 1 .. Len(flight[p])
         /\ \A i \in DOMAIN flight[p] : flight[p][i] \in Msgs
<1>1. flight[p] \in Seq(Msgs)
  BY DEF TypeOK, Msgs
<1> QED
  BY <1>1

LEMMA Waiting ==
  ASSUME TypeOK, NEW p \in Peers, NEW n \in {1, Retry}, Wait(p, n)
  PROVE  timer' \in [Peers -> 0 .. Retry]
<1>1. n \in 0 .. Retry
  BY TimingAssumption
<1> QED
  BY <1>1 DEF Wait, TypeOK

LEMMA OneMoreFault ==
  ASSUME TypeOK, faults < MaxFaults
  PROVE  faults + 1 \in 0 .. MaxFaults
BY BoundsAssumption DEF TypeOK

\* A datagram sent to the client is a probe only if the server sent one.
LEMMA Sending ==
  ASSUME TypeOK, NEW p \in Peers, NEW kind \in Kinds, Send(p, kind)
  PROVE  /\ flight' \in [Peers -> Seq(Msgs)]
         /\ mapped' \subseteq Peers
         /\ Flying' => Flying \/ (p = "server" /\ kind = "01")
<1> DEFINE m == [kind |-> kind, age |-> 0]
           s == flight[Other(p)]
<1>1. Other(p) \in Peers
  BY DEF Peers, Other
<1>2. m \in Msgs /\ s \in Seq(Msgs)
  <2>1. 0 \in 0 .. Delay
    BY TimingAssumption
  <2>2. m \in Msgs
    BY <2>1 DEF Msgs
  <2> QED
    BY <1>1, <2>2 DEF TypeOK, Msgs
<1>3. /\ Append(s, m) \in Seq(Msgs) /\ Len(Append(s, m)) = Len(s) + 1
      /\ \A j \in 1 .. Len(s) : Append(s, m)[j] = s[j]
      /\ Append(s, m)[Len(s) + 1] = m
  BY <1>2, AppendProperties
<1>4. flight' = [flight EXCEPT ![Other(p)] = Append(s, m)]
  BY <1>1 DEF Send, TypeOK
<1>5. flight' \in [Peers -> Seq(Msgs)]
  BY <1>1, <1>3, <1>4 DEF TypeOK, Msgs
<1>6. CASE p = "client"
  <2>1. flight'["client"] = flight["client"]
    BY <1>4, <1>6 DEF Other, TypeOK, Peers
  <2> QED
    BY <1>5, <2>1 DEF Flying, Send, TypeOK
<1>7. CASE p = "server"
  <2>1. flight'["client"] = Append(s, m) /\ s = flight["client"]
    BY <1>4, <1>7 DEF Other, TypeOK, Peers
  <2>2. ASSUME NEW j \in DOMAIN flight'["client"], flight'["client"][j].kind = "01"
        PROVE  Flying \/ kind = "01"
    BY <1>2, <1>3, <2>1, <2>2 DEF Flying
  <2> QED
    BY <1>5, <1>7, <2>2 DEF Flying, Send, TypeOK
<1> QED
  BY <1>6, <1>7 DEF Peers

\* Taking a datagram out of a socket leaves only old ones there.
LEMMA Receiving ==
  ASSUME TypeOK, NEW p \in Peers, queue[p] # <<>>,
         queue' = [queue EXCEPT ![p] = Tail(@)]
  PROVE  /\ queue' \in [Peers -> Seq(Kinds)]
         /\ \A q \in Peers : Len(queue'[q]) <= MaxQueue
         /\ Queued' => Queued
         /\ p = "client" /\ Head(queue[p]) = "01" => Queued
<1>1. queue[p] \in Seq(Kinds) /\ queue' = [queue EXCEPT ![p] = Tail(queue[p])]
  BY DEF TypeOK
<1>2. /\ Tail(queue[p]) \in Seq(Kinds) /\ Len(Tail(queue[p])) = Len(queue[p]) - 1
      /\ \A i \in 1 .. Len(Tail(queue[p])) : Tail(queue[p])[i] = queue[p][i + 1]
  BY <1>1, HeadTailProperties
<1>3. 1 \in DOMAIN queue[p] /\ Head(queue[p]) = queue[p][1] /\ Len(queue[p]) \in Nat
  BY <1>1
<1>4. /\ queue'[p] = Tail(queue[p])
      /\ \A q \in Peers : q # p => queue'[q] = queue[q]
      /\ queue' \in [Peers -> Seq(Kinds)]
  BY <1>1, <1>2 DEF TypeOK
<1>5. \A q \in Peers : Len(queue'[q]) <= MaxQueue
  BY <1>2, <1>3, <1>4, BoundsAssumption DEF TypeOK
<1>6. Queued' => Queued
  <2>1. CASE p = "client"
    BY <1>1, <1>2, <1>3, <1>4, <2>1 DEF Queued
  <2>2. CASE p # "client"
    BY <1>4, <2>2 DEF Queued, Peers
  <2> QED
    BY <2>1, <2>2
<1>7. p = "client" /\ Head(queue[p]) = "01" => Queued
  BY <1>3 DEF Queued
<1> QED
  BY <1>4, <1>5, <1>6, <1>7

\* At the head of the discovery loop the server sends nothing.
LEMMA LookingOut ==
  ASSUME TypeOK, NEW p \in Peers, LookOut(p)
  PROVE  /\ flight' \in [Peers -> Seq(Msgs)]
         /\ mapped' \subseteq Peers
         /\ timer' \in [Peers -> 0 .. Retry]
         /\ Flying' => Flying
<1>1. timer' \in [Peers -> 0 .. Retry]
  BY TimingAssumption DEF LookOut, Wait, TypeOK
<1>2. CASE p = "client"
  BY <1>1, <1>2, Sending DEF LookOut, Kinds
<1>3. CASE p # "client"
  BY <1>1, <1>3 DEF LookOut, TypeOK, Flying, Msgs
<1> QED
  BY <1>2, <1>3

\* A round's receive.
LEMMA Polling ==
  ASSUME TypeOK, NEW p \in Peers, Poll(p)
  PROVE  /\ queue' \in [Peers -> Seq(Kinds)]
         /\ \A q \in Peers : Len(queue'[q]) <= MaxQueue
         /\ punched' \in [Peers -> BOOLEAN]
         /\ Queued' => Queued
<1>1. CASE punched[p] \/ queue[p] = <<>>
  BY <1>1 DEF Poll, TypeOK, Queued
<1>2. CASE ~(punched[p] \/ queue[p] = <<>>)
  <2>1. punched' \in [Peers -> BOOLEAN]
    BY <1>2 DEF Poll, TypeOK
  <2> QED
    BY <1>2, <2>1, Receiving DEF Poll
<1> QED
  BY <1>1, <1>2

-----------------------------------------------------------------------------
\* The parts of the invariant that are not types follow from these.
LEMMA Triggered ==
  ASSUME IInv, Flying' => Flying, Queued' => Flying \/ Queued,
         UNCHANGED left,
         \A p \in Peers : pc'[p] = "transient" => pc[p] = "transient"
  PROVE  /\ InPhase'
         /\ ServerWaitsForTrigger'
         /\ ServerDiscoversFirst'
BY DEF IInv, InPhase, ServerWaitsForTrigger, ServerDiscoversFirst, Discovered,
   ProbeFor, Flying, Queued

\* The initial state satisfies the invariant.
LEMMA InitIInv == Init => IInv
BY TimingAssumption, BoundsAssumption
   DEF Init, IInv, TypeOK, InPhase, ServerWaitsForTrigger, ServerDiscoversFirst,
       Discovered, ProbeFor, Peers, Kinds

LEMMA StartIInv ==
  ASSUME IInv, NEW p \in Peers, Start(p) PROVE IInv'
<1>1. TypeOK'
  BY LookingOut DEF IInv, Start, TypeOK, Msgs
<1>2. InPhase' /\ ServerWaitsForTrigger' /\ ServerDiscoversFirst'
  BY LookingOut, Triggered DEF IInv, Start, TypeOK, Queued
<1> QED
  BY <1>1, <1>2 DEF IInv

\* The client discovers with a probe, and only the server can have sent it.
LEMMA DiscoversIInv ==
  ASSUME IInv, NEW p \in Peers, Discovers(p) PROVE IInv'
<1>1. /\ flight' \in [Peers -> Seq(Msgs)] /\ mapped' \subseteq Peers
      /\ Flying' => Flying \/ p = "server"
  BY Sending DEF IInv, Discovers, Kinds
<1>2. /\ queue' \in [Peers -> Seq(Kinds)]
      /\ \A q \in Peers : Len(queue'[q]) <= MaxQueue
      /\ Queued' => Queued
      /\ p = "client" => Queued
  BY Receiving DEF IInv, Discovers
<1>3. left' = [left EXCEPT ![p] = Window] /\ Window # 0 /\ Window \in 0 .. Window
  BY TimingAssumption DEF Discovers
<1>4. TypeOK'
  <2>1. timer' \in [Peers -> 0 .. Retry]
    BY Waiting DEF IInv, Discovers
  <2>2. left' \in [Peers -> 0 .. Window]
    BY <1>3 DEF IInv, TypeOK
  <2> QED
    BY <1>1, <1>2, <2>1, <2>2 DEF IInv, Discovers, TypeOK, Msgs
<1>5. InPhase'
  BY <1>3 DEF IInv, Discovers, InPhase, Discovered, TypeOK
<1>6. ServerWaitsForTrigger' /\ ServerDiscoversFirst'
  BY <1>1, <1>2, <1>3, ProbeForClient
     DEF IInv, ServerWaitsForTrigger, ServerDiscoversFirst, Discovered, TypeOK, Peers,
         ProbeFor, Flying, Queued
<1> QED
  BY <1>4, <1>5, <1>6 DEF IInv

LEMMA OverlooksIInv ==
  ASSUME IInv, NEW p \in Peers, Overlooks(p) PROVE IInv'
<1>1. TypeOK'
  BY LookingOut, Receiving DEF IInv, Overlooks, TypeOK, Msgs
<1>2. InPhase' /\ ServerWaitsForTrigger' /\ ServerDiscoversFirst'
  BY LookingOut, Receiving, Triggered DEF IInv, Overlooks
<1> QED
  BY <1>1, <1>2 DEF IInv

\* What the server sends on a timeout is no probe.
LEMMA TimesOutIInv ==
  ASSUME IInv, NEW p \in Peers, TimesOut(p) PROVE IInv'
<1>1. /\ flight' \in [Peers -> Seq(Msgs)] /\ mapped' \subseteq Peers
      /\ Flying' => Flying
  BY Sending DEF IInv, TimesOut, Kinds, Peers
<1>2. TypeOK'
  BY <1>1, Waiting DEF IInv, TimesOut, TypeOK, Msgs
<1>3. InPhase' /\ ServerWaitsForTrigger' /\ ServerDiscoversFirst'
  BY <1>1, Triggered DEF IInv, TimesOut, Queued
<1> QED
  BY <1>2, <1>3 DEF IInv

\* A server in its transient phase probes, but it has discovered the client.
LEMMA NextRoundIInv ==
  ASSUME IInv, NEW p \in Peers, NextRound(p) PROVE IInv'
<1>1. /\ flight' \in [Peers -> Seq(Msgs)] /\ mapped' \subseteq Peers
      /\ Flying' => Flying \/ p = "server"
  BY Sending DEF IInv, NextRound, Kinds
<1>2. /\ left' = [left EXCEPT ![p] = left[p] - 1]
      /\ left[p] \in 0 .. Window /\ left[p] > 1
      /\ left[p] - 1 \in 0 .. Window /\ left[p] - 1 # 0
  BY TimingAssumption DEF IInv, NextRound, TypeOK
<1>3. TypeOK'
  <2>1. timer' \in [Peers -> 0 .. Retry]
    BY Waiting DEF IInv, NextRound
  <2>2. left' \in [Peers -> 0 .. Window]
    BY <1>2 DEF IInv, TypeOK
  <2> QED
    BY <1>1, <2>1, <2>2, Polling DEF IInv, NextRound, TypeOK, Msgs
<1>4. \A q \in Peers : Discovered(q)' <=> Discovered(q)
  BY <1>2 DEF IInv, Discovered, TypeOK
<1>5. InPhase'
  BY <1>4 DEF IInv, NextRound, InPhase
<1>6. p = "server" => Discovered("server")
  BY <1>2 DEF Discovered
<1>7. Queued' => Queued
  BY Polling DEF IInv, NextRound
<1>8. ServerWaitsForTrigger' /\ ServerDiscoversFirst'
  BY <1>1, <1>4, <1>6, <1>7
     DEF IInv, ServerWaitsForTrigger, ServerDiscoversFirst, Peers, ProbeFor, Flying, Queued
<1> QED
  BY <1>3, <1>5, <1>8 DEF IInv

LEMMA ReturnsIInv ==
  ASSUME IInv, NEW p \in Peers, Returns(p) PROVE IInv'
<1>1. TypeOK'
  BY Polling DEF IInv, Returns, TypeOK
<1>2. InPhase' /\ ServerWaitsForTrigger' /\ ServerDiscoversFirst'
  BY Polling, Triggered DEF IInv, Returns, TypeOK, Flying
<1> QED
  BY <1>1, <1>2 DEF IInv

LEMMA CallFailsIInv ==
  ASSUME IInv, NEW p \in Peers, CallFails(p) PROVE IInv'
<1>1. TypeOK'
  BY OneMoreFault DEF IInv, CallFails, TypeOK
<1>2. InPhase' /\ ServerWaitsForTrigger' /\ ServerDiscoversFirst'
  BY Triggered DEF IInv, CallFails, TypeOK, Flying, Queued
<1> QED
  BY <1>1, <1>2 DEF IInv

-----------------------------------------------------------------------------
\* Taking a datagram off the path leaves only old ones there.
LEMMA Leaving ==
  ASSUME TypeOK, NEW p \in Peers, NEW i \in DOMAIN flight[p],
         flight' = [flight EXCEPT ![p] = RemoveAt(@, i)]
  PROVE  flight' \in [Peers -> Seq(Msgs)] /\ (Flying' => Flying)
<1>1. flight[p] \in Seq(Msgs) /\ flight' = [flight EXCEPT ![p] = RemoveAt(flight[p], i)]
  BY DEF TypeOK, Msgs
<1>2. /\ RemoveAt(flight[p], i) \in Seq(Msgs)
      /\ \A j \in DOMAIN RemoveAt(flight[p], i) :
           \E k \in DOMAIN flight[p] : RemoveAt(flight[p], i)[j] = flight[p][k]
  BY <1>1, Removed
<1>3. /\ flight' \in [Peers -> Seq(Msgs)]
      /\ flight'[p] = RemoveAt(flight[p], i)
      /\ \A q \in Peers : q # p => flight'[q] = flight[q]
  BY <1>1, <1>2 DEF TypeOK, Msgs
<1> QED
  BY <1>2, <1>3 DEF Flying, Peers

LEMMA ArrivesIInv ==
  ASSUME IInv, NEW p \in Peers, NEW i \in DOMAIN flight[p], Arrives(p, i) PROVE IInv'
<1> DEFINE kind == flight[p][i].kind
<1>1. flight' \in [Peers -> Seq(Msgs)] /\ (Flying' => Flying)
  BY Leaving DEF IInv, Arrives
<1>2. flight[p] \in Seq(Msgs) /\ flight[p][i] \in Msgs /\ kind \in Kinds
  BY InFlight DEF IInv, Msgs
<1>3. /\ queue' \in [Peers -> Seq(Kinds)]
      /\ \A q \in Peers : Len(queue'[q]) <= MaxQueue
      /\ Queued' => Queued \/ (p = "client" /\ kind = "01")
  <2>1. CASE queue' = queue
    BY <2>1 DEF IInv, TypeOK, Queued
  <2>2. CASE queue' # queue
    <3>1. /\ Len(queue[p]) < MaxQueue
          /\ queue' = [queue EXCEPT ![p] = Append(queue[p], kind)]
      BY <2>2 DEF Arrives, IInv, TypeOK
    <3>2. /\ Append(queue[p], kind) \in Seq(Kinds)
          /\ Len(Append(queue[p], kind)) = Len(queue[p]) + 1
          /\ \A j \in 1 .. Len(queue[p]) : Append(queue[p], kind)[j] = queue[p][j]
          /\ Append(queue[p], kind)[Len(queue[p]) + 1] = kind
      BY <1>2, AppendProperties DEF IInv, TypeOK
    <3>3. Len(queue[p]) \in Nat /\ queue[p] \in Seq(Kinds)
      BY DEF IInv, TypeOK
    <3> HIDE DEF kind
    <3>4. /\ queue' \in [Peers -> Seq(Kinds)]
          /\ queue'[p] = Append(queue[p], kind)
          /\ \A q \in Peers : q # p => queue'[q] = queue[q]
      BY <3>1, <3>2 DEF IInv, TypeOK
    <3>5. \A q \in Peers : Len(queue'[q]) <= MaxQueue
      BY <3>1, <3>2, <3>3, <3>4, BoundsAssumption DEF IInv, TypeOK
    <3>6. Queued' => Queued \/ (p = "client" /\ kind = "01")
      <4>1. CASE p = "client"
        BY <3>2, <3>3, <3>4, <4>1 DEF Queued
      <4>2. CASE p # "client"
        BY <3>4, <4>2 DEF Queued, Peers
      <4> QED
        BY <4>1, <4>2
    <3> QED
      BY <3>4, <3>5, <3>6
  <2> QED
    BY <2>1, <2>2
<1>4. Queued' => Flying \/ Queued
  BY <1>3 DEF Flying
<1>5. TypeOK'
  BY <1>1, <1>3 DEF IInv, Arrives, TypeOK, Msgs
<1>6. InPhase' /\ ServerWaitsForTrigger' /\ ServerDiscoversFirst'
  BY <1>1, <1>4, Triggered DEF Arrives
<1> QED
  BY <1>5, <1>6 DEF IInv

LEMMA LosesIInv ==
  ASSUME IInv, NEW p \in Peers, NEW i \in DOMAIN flight[p], Loses(p, i) PROVE IInv'
<1>1. flight' \in [Peers -> Seq(Msgs)] /\ (Flying' => Flying)
  BY Leaving DEF IInv, Loses
<1>2. TypeOK'
  BY <1>1, OneMoreFault DEF IInv, Loses, TypeOK, Msgs
<1>3. InPhase' /\ ServerWaitsForTrigger' /\ ServerDiscoversFirst'
  BY <1>1, Triggered DEF Loses, Queued
<1> QED
  BY <1>2, <1>3 DEF IInv

LEMMA RepeatsIInv ==
  ASSUME IInv, NEW p \in Peers, NEW i \in DOMAIN flight[p], Repeats(p, i) PROVE IInv'
<1> DEFINE m == flight[p][i]
<1>1. /\ flight[p] \in Seq(Msgs) /\ m \in Msgs /\ Len(flight[p]) \in Nat
      /\ flight' = [flight EXCEPT ![p] = Append(flight[p], m)]
  BY InFlight DEF IInv, TypeOK, Repeats
<1>2. /\ Append(flight[p], m) \in Seq(Msgs)
      /\ Len(Append(flight[p], m)) = Len(flight[p]) + 1
      /\ \A j \in 1 .. Len(flight[p]) : Append(flight[p], m)[j] = flight[p][j]
      /\ Append(flight[p], m)[Len(flight[p]) + 1] = m
  BY <1>1, AppendProperties
<1>3. /\ flight' \in [Peers -> Seq(Msgs)]
      /\ flight'[p] = Append(flight[p], m)
      /\ \A q \in Peers : q # p => flight'[q] = flight[q]
  BY <1>1, <1>2 DEF IInv, TypeOK, Msgs
<1>4. Flying' => Flying
  <2>1. CASE p = "client"
    BY <1>1, <1>2, <1>3, <2>1 DEF Flying
  <2>2. CASE p # "client"
    BY <1>3, <2>2 DEF Flying, Peers
  <2> QED
    BY <2>1, <2>2
<1>5. TypeOK'
  BY <1>3, OneMoreFault DEF IInv, Repeats, TypeOK, Msgs
<1>6. InPhase' /\ ServerWaitsForTrigger' /\ ServerDiscoversFirst'
  BY <1>4, Triggered DEF Repeats, Queued
<1> QED
  BY <1>5, <1>6 DEF IInv

\* Time passes only while no datagram is late.
LEMMA TickIInv ==
  ASSUME IInv, Tick PROVE IInv'
<1>1. ASSUME NEW p \in Peers
      PROVE  /\ flight'[p] \in Seq(Msgs)
             /\ DOMAIN flight'[p] = DOMAIN flight[p]
             /\ \A i \in DOMAIN flight[p] : flight'[p][i].kind = flight[p][i].kind
  <2>1. flight[p] \in Seq(Msgs) /\ DOMAIN flight[p] = 1 .. Len(flight[p]) /\ Len(flight[p]) \in Nat
    BY InFlight DEF IInv
  <2>2. flight'[p] = [i \in 1 .. Len(flight[p]) |-> [flight[p][i] EXCEPT !.age = @ + 1]]
    BY <2>1 DEF Tick
  <2>3. ASSUME NEW i \in 1 .. Len(flight[p])
        PROVE  /\ [flight[p][i] EXCEPT !.age = @ + 1] \in Msgs
               /\ [flight[p][i] EXCEPT !.age = @ + 1].kind = flight[p][i].kind
    <3>1. flight[p][i] \in Msgs /\ flight[p][i].age < Delay
      BY <2>1 DEF Tick, Idle
    <3>2. flight[p][i].age + 1 \in 0 .. Delay
      BY <3>1, TimingAssumption DEF Msgs
    <3> QED
      BY <3>1, <3>2 DEF Msgs
  <2> QED
    BY <2>1, <2>2, <2>3
<1>2. flight' \in [Peers -> Seq(Msgs)]
  <2>1. flight' = [p \in Peers |-> flight'[p]]
    BY DEF Tick
  <2> QED
    BY <1>1, <2>1
<1>3. timer' \in [Peers -> 0 .. Retry]
  BY TimingAssumption DEF IInv, TypeOK, Tick
<1>4. Flying' => Flying
  BY <1>1 DEF Flying, Peers
<1>5. TypeOK'
  BY <1>2, <1>3 DEF IInv, Tick, TypeOK, Msgs
<1>6. InPhase' /\ ServerWaitsForTrigger' /\ ServerDiscoversFirst'
  BY <1>4, Triggered DEF Tick, Queued
<1> QED
  BY <1>5, <1>6 DEF IInv

-----------------------------------------------------------------------------
LEMMA NextIInv == IInv /\ [Next]_vars => IInv'
<1> SUFFICES ASSUME IInv, [Next]_vars PROVE IInv'
  OBVIOUS
<1>1. CASE UNCHANGED vars
  BY <1>1 DEF vars, IInv, TypeOK, InPhase, ServerWaitsForTrigger, ServerDiscoversFirst,
     Discovered, ProbeFor
<1> QED
  BY <1>1, StartIInv, DiscoversIInv, OverlooksIInv, TimesOutIInv, NextRoundIInv, ReturnsIInv,
     CallFailsIInv, ArrivesIInv, LosesIInv, RepeatsIInv, TickIInv DEF Next, Runs

\* The inductive invariant holds in every reachable state.
THEOREM Invariance == Spec => []IInv
<1>1. Init => IInv
  BY InitIInv
<1>2. IInv /\ [Next]_vars => IInv'
  BY NextIInv
<1> QED
  BY <1>1, <1>2, PTL DEF Spec

(***************************************************************************)
(* The client's transient phase begins only after the server's             *)
(* (ossl_quic.c:440, 477), on any path.                                    *)
(***************************************************************************)
THEOREM OnlyClientInitiates == Spec => []ServerDiscoversFirst
<1>1. IInv => ServerDiscoversFirst
  BY DEF IInv
<1> QED
  BY Invariance, <1>1, PTL

-----------------------------------------------------------------------------
(***************************************************************************)
(* What a path no longer holds.                                            *)
(***************************************************************************)
LEMMA AbsentIsFinite ==
  ASSUME NEW path, NEW e \in Int, NEW first \in Int, NEW last \in Int
  PROVE  /\ IsFiniteSet(Absent(path, e, first, last))
         /\ Cardinality(Absent(path, e, first, last)) \in Nat
<1>1. IsFiniteSet(first .. last)
  BY FS_Interval
<1>2. Absent(path, e, first, last) \in SUBSET (first .. last)
  BY DEF Absent
<1>3. IsFiniteSet(Absent(path, e, first, last))
  BY <1>1, <1>2, FS_Subset
<1> QED
  BY <1>3, FS_CardinalityType

\* A probe older than Delay is not there: so many are gone when the first is
\* older than that.
LEMMA OldOnesAreGone ==
  ASSUME NEW path \in Seq(Msgs), NEW e \in Int, NEW first \in Int, NEW last \in Int,
         e <= last
  PROVE  e - Delay - first + 1 <= Cardinality(Absent(path, e, first, last))
<1> DEFINE old == first .. (e - Delay)
<1>1. ASSUME NEW n \in old
      PROVE  n \in Absent(path, e, first, last)
  <2>1. n \in first .. last /\ e - n + 1 \notin 0 .. Delay
    BY <1>1, TimingAssumption
  <2>2. ASSUME NEW i \in DOMAIN path
        PROVE  path[i] # Probe(e - n + 1)
    <3>1. path[i] \in Msgs
      OBVIOUS
    <3>2. path[i].age \in 0 .. Delay
      BY <3>1 DEF Msgs
    <3>3. Probe(e - n + 1).age = e - n + 1
      BY DEF Probe
    <3> QED
      BY <2>1, <3>2, <3>3
  <2> QED
    BY <2>1, <2>2 DEF Absent
<1>2. /\ old \in SUBSET Absent(path, e, first, last)
      /\ IsFiniteSet(Absent(path, e, first, last))
      /\ Cardinality(Absent(path, e, first, last)) \in Nat
  BY <1>1, AbsentIsFinite
<1>3. Cardinality(old) <= Cardinality(Absent(path, e, first, last))
  BY <1>2, FS_Subset
<1>4. e - Delay \in Int
  BY TimingAssumption
<1>5. Cardinality(old) = IF first > e - Delay THEN 0 ELSE e - Delay - first + 1
  BY <1>4, FS_Interval
<1> HIDE DEF old
<1> QED
  BY <1>2, <1>3, <1>4, <1>5

\* None are gone for something else sent,
LEMMA NoneGoneBySending ==
  ASSUME NEW path \in Seq(Msgs), NEW m \in Msgs,
         NEW e \in Int, NEW first \in Int, NEW last \in Int
  PROVE  Cardinality(Absent(Append(path, m), e, first, last))
           <= Cardinality(Absent(path, e, first, last))
<1>1. \A i \in DOMAIN path : i \in DOMAIN Append(path, m) /\ Append(path, m)[i] = path[i]
  BY AppendProperties
<1>2. Absent(Append(path, m), e, first, last) \in SUBSET Absent(path, e, first, last)
  BY <1>1 DEF Absent
<1> QED
  BY <1>2, AbsentIsFinite, FS_Subset

\* nor with the next one sent,
LEMMA NoneGoneByProbing ==
  ASSUME NEW path \in Seq(Msgs), NEW e \in Int, NEW first \in Int
  PROVE  Cardinality(Absent(Append(path, Probe(0)), e, first, e + 1))
           <= Cardinality(Absent(path, e, first, e))
<1>1. Probe(0) \in Msgs
  BY TimingAssumption DEF Probe, Msgs, Kinds
<1>2. /\ \A i \in DOMAIN path :
           /\ i \in DOMAIN Append(path, Probe(0))
           /\ Append(path, Probe(0))[i] = path[i]
      /\ Len(path) + 1 \in DOMAIN Append(path, Probe(0))
      /\ Append(path, Probe(0))[Len(path) + 1] = Probe(0)
  BY <1>1, AppendProperties
<1>3. e - (e + 1) + 1 = 0
  OBVIOUS
<1>4. e + 1 \notin Absent(Append(path, Probe(0)), e, first, e + 1)
  BY <1>2, <1>3 DEF Absent
<1>5. ASSUME NEW n \in Absent(Append(path, Probe(0)), e, first, e + 1)
      PROVE  n \in Absent(path, e, first, e)
  <2>1. n \in first .. e
    BY <1>4 DEF Absent
  <2>2. \A i \in DOMAIN path : path[i] # Probe(e - n + 1)
    BY <1>2 DEF Absent
  <2> QED
    BY <2>1, <2>2 DEF Absent
<1> QED
  BY <1>5, AbsentIsFinite, FS_Subset

\* and at most one with what is taken off the path, none if that is no probe.
LEMMA OneGoneByRemoval ==
  ASSUME NEW path \in Seq(Msgs), NEW i \in DOMAIN path,
         NEW e \in Int, NEW first \in Int, NEW last \in Int
  PROVE  /\ Cardinality(Absent(RemoveAt(path, i), e, first, last))
              <= Cardinality(Absent(path, e, first, last)) + 1
         /\ path[i].kind # "01" =>
              Cardinality(Absent(RemoveAt(path, i), e, first, last))
                <= Cardinality(Absent(path, e, first, last))
<1> DEFINE rest == RemoveAt(path, i)
           lost == e - path[i].age + 1
           gone == Absent(path, e, first, last)
           then == Absent(rest, e, first, last)
<1>1. /\ i \in 1 .. Len(path) /\ Len(path) \in Nat
      /\ rest \in Seq(Msgs) /\ Len(rest) = Len(path) - 1
      /\ \A j \in 1 .. Len(path) - 1 : rest[j] = IF j < i THEN path[j] ELSE path[j + 1]
  <2>1. i \in 1 .. Len(path) /\ Len(path) \in Nat
    OBVIOUS
  <2> QED
    BY <2>1, RemovedAt
<1>2. path[i] \in Msgs /\ path[i].age \in Int
  <2>1. path[i] \in Msgs
    OBVIOUS
  <2>2. path[i].age \in 0 .. Delay
    BY <2>1 DEF Msgs
  <2> QED
    BY <2>1, <2>2, TimingAssumption
<1> HIDE DEF rest
<1>3. ASSUME NEW k \in DOMAIN path, k # i
      PROVE  \E j \in DOMAIN rest : rest[j] = path[k]
  <2>1. k \in 1 .. Len(path)
    OBVIOUS
  <2>2. CASE k < i
    BY <1>1, <2>1, <2>2
  <2>3. CASE ~(k < i)
    <3>1. k - 1 \in 1 .. Len(path) - 1 /\ ~(k - 1 < i) /\ (k - 1) + 1 = k
      BY <1>1, <1>3, <2>1, <2>3
    <3> QED
      BY <1>1, <3>1
  <2> QED
    BY <2>2, <2>3
<1>4. ASSUME NEW n \in then, n \notin gone
      PROVE  n = lost /\ path[i].kind = "01"
  <2>1. n \in first .. last
    BY <1>4 DEF Absent
  <2>2. PICK k \in DOMAIN path : path[k] = Probe(e - n + 1)
    BY <1>4, <2>1 DEF Absent
  <2>3. k = i
    BY <1>3, <1>4, <2>2 DEF Absent
  <2>4. path[i].kind = "01" /\ path[i].age = e - n + 1
    BY <2>2, <2>3 DEF Probe
  <2> QED
    BY <1>2, <2>1, <2>4
<1>5. /\ IsFiniteSet(gone) /\ Cardinality(gone) \in Nat
      /\ IsFiniteSet(then) /\ Cardinality(then) \in Nat
  BY AbsentIsFinite
<1> HIDE DEF gone, then, lost
<1>6. Cardinality(then) <= Cardinality(gone) + 1
  <2>1. then \in SUBSET (gone \cup {lost})
    BY <1>4
  <2>2. IsFiniteSet(gone \cup {lost}) /\ Cardinality(gone \cup {lost}) <= Cardinality(gone) + 1
    <3>1. /\ IsFiniteSet(gone \cup {lost})
          /\ Cardinality(gone \cup {lost}) =
               IF lost \in gone THEN Cardinality(gone) ELSE Cardinality(gone) + 1
      BY <1>5, FS_AddElement
    <3> QED
      BY <1>5, <3>1
  <2>3. Cardinality(then) <= Cardinality(gone \cup {lost}) /\ Cardinality(gone \cup {lost}) \in Nat
    BY <2>1, <2>2, FS_Subset, FS_CardinalityType
  <2> QED
    BY <1>5, <2>2, <2>3
<1>7. path[i].kind # "01" => Cardinality(then) <= Cardinality(gone)
  <2>1. path[i].kind # "01" => then \in SUBSET gone
    BY <1>4
  <2> QED
    BY <1>5, <2>1, FS_Subset
<1> QED
  BY <1>6, <1>7 DEF gone, then, rest

Older(path) == [i \in DOMAIN path |-> [path[i] EXCEPT !.age = @ + 1]]

\* Time passes for all alike.
LEMMA NoneGoneByTime ==
  ASSUME NEW path \in Seq(Msgs), NEW e \in Int, NEW first \in Int, NEW last \in Int
  PROVE  Absent(Older(path), e + 1, first, last) = Absent(path, e, first, last)
<1>1. ASSUME NEW i \in DOMAIN path, NEW n \in first .. last
      PROVE  Older(path)[i] = Probe(e + 1 - n + 1) <=> path[i] = Probe(e - n + 1)
  <2>1. path[i] \in Msgs
    OBVIOUS
  <2>2. path[i].age \in Int /\ path[i] = [kind |-> path[i].kind, age |-> path[i].age]
    BY <2>1 DEF Msgs
  <2>3. Older(path)[i] = [kind |-> path[i].kind, age |-> path[i].age + 1]
    BY <2>2 DEF Older
  <2>4. path[i].age + 1 = e + 1 - n + 1 <=> path[i].age = e - n + 1
    BY <2>2
  <2> QED
    BY <2>2, <2>3, <2>4 DEF Probe
<1>2. DOMAIN Older(path) = DOMAIN path
  BY DEF Older
<1> QED
  BY <1>1, <1>2 DEF Absent

-----------------------------------------------------------------------------
(***************************************************************************)
(* Counting keep-alives on the path and in the client's socket.            *)
(***************************************************************************)
\* Moving up what is behind place i counts nothing twice.
LEMMA MovingUp ==
  ASSUME NEW S, NEW T \in SUBSET Int, NEW i \in Int, IsFiniteSet(S),
         \A j \in T : (IF j < i THEN j ELSE j + 1) \in S
  PROVE  IsFiniteSet(T) /\ Cardinality(T) <= Cardinality(S)
<1> DEFINE f == [j \in T |-> IF j < i THEN j ELSE j + 1]
<1>1. f \in [T -> S]
  OBVIOUS
<1>2. ASSUME NEW j \in T, NEW k \in T, f[j] = f[k]
      PROVE  j = k
  BY <1>2
<1>3. f \in Injection(T, S)
  BY <1>1, <1>2 DEF Injection, IsInjective
<1> QED
  BY <1>3, FS_Injection

LEMMA CountedKeepAlives ==
  ASSUME NEW path \in Seq(Msgs)
  PROVE  /\ KeepAlives(path) \in SUBSET Int
         /\ IsFiniteSet(KeepAlives(path))
         /\ Cardinality(KeepAlives(path)) \in Nat
<1>1. DOMAIN path = 1 .. Len(path) /\ Len(path) \in Nat
  OBVIOUS
<1>2. IsFiniteSet(1 .. Len(path))
  BY <1>1, FS_Interval
<1>3. KeepAlives(path) \in SUBSET (1 .. Len(path))
  BY <1>1 DEF KeepAlives
<1>4. IsFiniteSet(KeepAlives(path))
  BY <1>2, <1>3, FS_Subset
<1> QED
  BY <1>3, <1>4, FS_CardinalityType

LEMMA KeepAlivesSent ==
  ASSUME NEW path \in Seq(Msgs), NEW m \in Msgs
  PROVE  /\ m.kind # "ka" => KeepAlives(Append(path, m)) = KeepAlives(path)
         /\ Cardinality(KeepAlives(Append(path, m)))
              <= Cardinality(KeepAlives(path)) + 1
<1> DEFINE last == Len(path) + 1
<1>1. /\ DOMAIN path = 1 .. Len(path) /\ Len(path) \in Nat
      /\ DOMAIN Append(path, m) = 1 .. Len(path) + 1
      /\ \A i \in 1 .. Len(path) : Append(path, m)[i] = path[i]
      /\ Append(path, m)[Len(path) + 1] = m
  BY AppendProperties
<1>2. KeepAlives(Append(path, m)) =
        IF m.kind = "ka" THEN KeepAlives(path) \cup {last} ELSE KeepAlives(path)
  <2>1. ASSUME NEW i \in 1 .. Len(path) + 1
        PROVE  Append(path, m)[i].kind = "ka" <=>
                 (i \in KeepAlives(path) \/ (i = last /\ m.kind = "ka"))
    <3>1. CASE i = last
      BY <1>1, <3>1 DEF KeepAlives
    <3>2. CASE i # last
      <4>1. i \in 1 .. Len(path)
        BY <1>1, <3>2
      <4> QED
        BY <1>1, <3>2, <4>1 DEF KeepAlives
    <3> QED
      BY <3>1, <3>2
  <2>2. \A i \in KeepAlives(path) : i \in 1 .. Len(path) + 1
    BY <1>1 DEF KeepAlives
  <2>3. last \in 1 .. Len(path) + 1
    BY <1>1
  <2>4. KeepAlives(Append(path, m)) =
          {i \in 1 .. Len(path) + 1 : Append(path, m)[i].kind = "ka"}
    BY <1>1 DEF KeepAlives
  <2> HIDE DEF last
  <2> QED
    BY <2>1, <2>2, <2>3, <2>4
<1>3. IsFiniteSet(KeepAlives(path)) /\ Cardinality(KeepAlives(path)) \in Nat
  BY CountedKeepAlives
<1>4. Cardinality(KeepAlives(path) \cup {last}) =
        IF last \in KeepAlives(path) THEN Cardinality(KeepAlives(path))
        ELSE Cardinality(KeepAlives(path)) + 1
  BY <1>3, FS_AddElement
<1> QED
  BY <1>2, <1>3, <1>4

LEMMA KeepAlivesRemoved ==
  ASSUME NEW path \in Seq(Msgs), NEW i \in DOMAIN path
  PROVE  /\ Cardinality(KeepAlives(RemoveAt(path, i))) <= Cardinality(KeepAlives(path))
         /\ path[i].kind = "ka" =>
              Cardinality(KeepAlives(RemoveAt(path, i))) + 1
                <= Cardinality(KeepAlives(path))
<1> DEFINE rest == RemoveAt(path, i)
           others == KeepAlives(path) \ {i}
<1>1. i \in 1 .. Len(path) /\ Len(path) \in Nat /\ DOMAIN path = 1 .. Len(path)
  OBVIOUS
<1>2. /\ rest \in Seq(Msgs) /\ Len(rest) = Len(path) - 1
      /\ \A j \in 1 .. Len(path) - 1 : rest[j] = IF j < i THEN path[j] ELSE path[j + 1]
  BY RemovedAt
<1> HIDE DEF rest
<1>3. /\ IsFiniteSet(KeepAlives(path)) /\ Cardinality(KeepAlives(path)) \in Nat
      /\ KeepAlives(rest) \in SUBSET Int /\ Cardinality(KeepAlives(rest)) \in Nat
  BY <1>2, CountedKeepAlives
<1>4. /\ IsFiniteSet(others)
      /\ Cardinality(others) = IF i \in KeepAlives(path)
                               THEN Cardinality(KeepAlives(path)) - 1
                               ELSE Cardinality(KeepAlives(path))
  BY <1>3, FS_RemoveElement
<1>5. ASSUME NEW j \in KeepAlives(rest)
      PROVE  (IF j < i THEN j ELSE j + 1) \in others
  <2>1. j \in 1 .. Len(path) - 1 /\ rest[j].kind = "ka"
    BY <1>2 DEF KeepAlives
  <2>2. CASE j < i
    <3>1. rest[j] = path[j] /\ j \in 1 .. Len(path) /\ j # i
      BY <1>1, <1>2, <2>1, <2>2
    <3> QED
      BY <1>1, <2>1, <2>2, <3>1 DEF KeepAlives
  <2>3. CASE ~(j < i)
    <3>1. rest[j] = path[j + 1] /\ j + 1 \in 1 .. Len(path) /\ j + 1 # i
      BY <1>1, <1>2, <2>1, <2>3
    <3> QED
      BY <1>1, <2>1, <2>3, <3>1 DEF KeepAlives
  <2> QED
    BY <2>2, <2>3
<1> HIDE DEF others
<1>6. Cardinality(KeepAlives(rest)) <= Cardinality(others)
  <2>1. i \in Int /\ IsFiniteSet(others) /\ KeepAlives(rest) \in SUBSET Int
    BY <1>1, <1>3, <1>4
  <2> QED
    BY <1>5, <2>1, MovingUp
<1>7. path[i].kind = "ka" => i \in KeepAlives(path)
  BY DEF KeepAlives
<1> QED
  BY <1>3, <1>4, <1>6, <1>7 DEF rest

\* Those left have been there,
LEMMA KeepAlivesLeft ==
  ASSUME NEW path \in Seq(Msgs), NEW i \in DOMAIN path
  PROVE  \A j \in KeepAlives(RemoveAt(path, i)) :
           \E k \in KeepAlives(path) : RemoveAt(path, i)[j] = path[k]
<1>1. \A j \in DOMAIN RemoveAt(path, i) : \E k \in DOMAIN path : RemoveAt(path, i)[j] = path[k]
  BY Removed
<1> QED
  BY <1>1 DEF KeepAlives

\* and so have those before the one sent.
LEMMA KeepAlivesBefore ==
  ASSUME NEW path \in Seq(Msgs), NEW m \in Msgs
  PROVE  \A j \in KeepAlives(Append(path, m)) :
           \/ Append(path, m)[j] = m
           \/ j \in KeepAlives(path) /\ Append(path, m)[j] = path[j]
<1>1. /\ DOMAIN path = 1 .. Len(path) /\ Len(path) \in Nat
      /\ DOMAIN Append(path, m) = 1 .. Len(path) + 1
      /\ \A j \in 1 .. Len(path) : Append(path, m)[j] = path[j]
      /\ Append(path, m)[Len(path) + 1] = m
  BY AppendProperties
<1> TAKE j \in KeepAlives(Append(path, m))
<1>2. j \in 1 .. Len(path) + 1 /\ Append(path, m)[j].kind = "ka"
  BY <1>1 DEF KeepAlives
<1>3. CASE j = Len(path) + 1
  BY <1>1, <1>3
<1>4. CASE j \in 1 .. Len(path)
  BY <1>1, <1>2, <1>4 DEF KeepAlives
<1> QED
  BY <1>1, <1>2, <1>3, <1>4

LEMMA KeepAlivesAge ==
  ASSUME NEW path \in Seq(Msgs)
  PROVE  KeepAlives(Older(path)) = KeepAlives(path)
<1>1. ASSUME NEW i \in DOMAIN path
      PROVE  Older(path)[i].kind = path[i].kind
  <2>1. path[i] \in Msgs
    OBVIOUS
  <2> QED
    BY <2>1 DEF Older, Msgs
<1>2. DOMAIN Older(path) = DOMAIN path
  BY DEF Older
<1> QED
  BY <1>1, <1>2 DEF KeepAlives

LEMMA CountedInTheWay ==
  ASSUME NEW socket \in Seq(Kinds), NEW all \in BOOLEAN
  PROVE  /\ InTheWay(socket, all) \in SUBSET (1 .. Len(socket))
         /\ IsFiniteSet(InTheWay(socket, all))
         /\ Cardinality(InTheWay(socket, all)) \in Nat
<1>1. DOMAIN socket = 1 .. Len(socket) /\ Len(socket) \in Nat
  OBVIOUS
<1>2. IsFiniteSet(1 .. Len(socket))
  BY <1>1, FS_Interval
<1>3. InTheWay(socket, all) \in SUBSET (1 .. Len(socket))
  BY <1>1 DEF InTheWay
<1>4. IsFiniteSet(InTheWay(socket, all))
  BY <1>2, <1>3, FS_Subset
<1> QED
  BY <1>3, <1>4, FS_CardinalityType

LEMMA InTheWayArriving ==
  ASSUME NEW socket \in Seq(Kinds), NEW kind \in Kinds, NEW all \in BOOLEAN
  PROVE  /\ kind # "ka" =>
              Cardinality(InTheWay(Append(socket, kind), all))
                <= Cardinality(InTheWay(socket, all))
         /\ Cardinality(InTheWay(Append(socket, kind), all))
              <= Cardinality(InTheWay(socket, all)) + 1
<1> DEFINE last == Len(socket) + 1
           then == Append(socket, kind)
<1>1. /\ DOMAIN socket = 1 .. Len(socket) /\ Len(socket) \in Nat
      /\ then \in Seq(Kinds) /\ DOMAIN then = 1 .. Len(socket) + 1
      /\ \A i \in 1 .. Len(socket) : then[i] = socket[i]
      /\ then[Len(socket) + 1] = kind
  BY AppendProperties
<1> HIDE DEF then
<1>2. ASSUME NEW i \in InTheWay(then, all)
      PROVE  i \in InTheWay(socket, all) \/ (i = last /\ kind = "ka")
  <2>1. i \in 1 .. Len(socket) + 1 /\ then[i] = "ka"
    BY <1>1 DEF InTheWay
  <2>2. CASE i = last
    BY <1>1, <2>1, <2>2
  <2>3. CASE i # last
    <3>1. i \in 1 .. Len(socket) /\ socket[i] = "ka"
      BY <1>1, <2>1, <2>3
    <3>2. \A h \in 1 .. i - 1 : then[h] = socket[h]
      BY <1>1, <3>1
    <3> QED
      BY <1>1, <3>1, <3>2 DEF InTheWay
  <2> QED
    BY <2>2, <2>3
<1>3. /\ IsFiniteSet(InTheWay(socket, all)) /\ Cardinality(InTheWay(socket, all)) \in Nat
      /\ IsFiniteSet(InTheWay(then, all)) /\ Cardinality(InTheWay(then, all)) \in Nat
  BY <1>1, CountedInTheWay
<1>4. /\ IsFiniteSet(InTheWay(socket, all) \cup {last})
      /\ Cardinality(InTheWay(socket, all) \cup {last}) =
           IF last \in InTheWay(socket, all) THEN Cardinality(InTheWay(socket, all))
           ELSE Cardinality(InTheWay(socket, all)) + 1
  BY <1>3, FS_AddElement
<1>5. InTheWay(then, all) \in SUBSET (InTheWay(socket, all) \cup {last})
  BY <1>2
<1>6. Cardinality(InTheWay(then, all)) <= Cardinality(InTheWay(socket, all) \cup {last})
  BY <1>4, <1>5, FS_Subset
<1>7. kind # "ka" => InTheWay(then, all) \in SUBSET InTheWay(socket, all)
  BY <1>2
<1>8. kind # "ka" => Cardinality(InTheWay(then, all)) <= Cardinality(InTheWay(socket, all))
  BY <1>3, <1>7, FS_Subset
<1> QED
  BY <1>3, <1>4, <1>6, <1>8 DEF then

\* Once settled the client may count them all when it takes a probe.
LEMMA InTheWayTaken ==
  ASSUME NEW socket \in Seq(Kinds), socket # <<>>,
         NEW all \in BOOLEAN, NEW then \in BOOLEAN,
         then => all \/ Head(socket) = "01"
  PROVE  Cardinality(InTheWay(Tail(socket), then)) <= Cardinality(InTheWay(socket, all))
<1>1. /\ DOMAIN socket = 1 .. Len(socket) /\ Len(socket) \in Nat /\ Len(socket) >= 1
      /\ Head(socket) = socket[1]
      /\ Tail(socket) \in Seq(Kinds) /\ DOMAIN Tail(socket) = 1 .. Len(socket) - 1
      /\ \A i \in 1 .. Len(socket) - 1 : Tail(socket)[i] = socket[i + 1]
  BY HeadTailProperties
<1>2. ASSUME NEW j \in InTheWay(Tail(socket), then)
      PROVE  (IF j < 0 THEN j ELSE j + 1) \in InTheWay(socket, all)
  <2>1. j \in 1 .. Len(socket) - 1 /\ Tail(socket)[j] = "ka"
    BY <1>1 DEF InTheWay
  <2>2. j + 1 \in 1 .. Len(socket) /\ socket[j + 1] = "ka" /\ ~(j < 0)
    BY <1>1, <2>1
  <2>3. all \/ \E h \in 1 .. j : socket[h] = "01"
    <3>1. CASE then
      <4>1. 1 \in 1 .. j
        BY <2>1
      <4> QED
        BY <1>1, <3>1, <4>1
    <3>2. CASE ~then
      <4>1. PICK h \in 1 .. j - 1 : Tail(socket)[h] = "01"
        BY <3>2 DEF InTheWay
      <4>2. h + 1 \in 1 .. j /\ socket[h + 1] = "01"
        BY <1>1, <2>1, <4>1
      <4> QED
        BY <4>2
    <3> QED
      BY <3>1, <3>2
  <2>4. (j + 1) - 1 = j
    BY <2>1
  <2> QED
    BY <1>1, <2>2, <2>3, <2>4 DEF InTheWay
<1>3. IsFiniteSet(InTheWay(socket, all))
  BY CountedInTheWay
<1> DEFINE S == InTheWay(socket, all)
           T == InTheWay(Tail(socket), then)
<1>4. T \in SUBSET Int
  <2>1. T \in SUBSET (1 .. Len(Tail(socket)))
    BY <1>1, CountedInTheWay
  <2> HIDE DEF T
  <2> QED
    BY <2>1
<1>5. IsFiniteSet(S) /\ \A j \in T : (IF j < 0 THEN j ELSE j + 1) \in S
  BY <1>2, <1>3
<1> HIDE DEF S, T
<1>6. Cardinality(T) <= Cardinality(S)
  <2>1. 0 \in Int
    OBVIOUS
  <2> QED
    BY <1>4, <1>5, <2>1, MovingUp, Zenon
<1> QED
  BY <1>6 DEF S, T

\* Where no probe is, all are in the way of one that comes.
LEMMA OnlyInTheWay ==
  ASSUME NEW socket \in Seq(Kinds), Probes(socket) = {}
  PROVE  /\ Len(socket) <= Cardinality(InTheWay(socket, TRUE))
         /\ InTheWay(socket, FALSE) = {}
<1>1. DOMAIN socket = 1 .. Len(socket) /\ Len(socket) \in Nat
  OBVIOUS
<1>2. \A i \in 1 .. Len(socket) : socket[i] = "ka"
  BY <1>1 DEF Probes, Kinds
<1>3. InTheWay(socket, TRUE) = 1 .. Len(socket)
  BY <1>1, <1>2 DEF InTheWay
<1>4. Cardinality(1 .. Len(socket)) = Len(socket)
  BY <1>1, FS_Interval
<1>5. InTheWay(socket, FALSE) = {}
  <2>1. ASSUME NEW i \in 1 .. Len(socket), NEW h \in 1 .. i - 1
        PROVE  socket[h] # "01"
    BY <1>1, <1>2
  <2> QED
    BY <1>1, <2>1 DEF InTheWay
<1>6. Len(socket) <= Cardinality(InTheWay(socket, TRUE))
  <2>1. Len(socket) <= Cardinality(1 .. Len(socket))
    BY <1>1, <1>4
  <2> QED
    BY <1>3, <2>1
<1> QED
  BY <1>5, <1>6

\* A probe is no further back than the keep-alives in the way.
LEMMA ProbeIsNear ==
  ASSUME NEW socket \in Seq(Kinds), Probes(socket) # {}, NEW n \in Nat,
         Cardinality(InTheWay(socket, TRUE)) <= n
  PROVE  \E i \in Probes(socket) : i <= n + 1
<1>1. DOMAIN socket = 1 .. Len(socket) /\ Len(socket) \in Nat
  OBVIOUS
<1>2. PICK k \in 1 .. Len(socket) : socket[k] = "01"
  BY <1>1 DEF Probes
<1>3. SUFFICES ASSUME \A i \in Probes(socket) : ~(i <= n + 1) PROVE FALSE
  OBVIOUS
<1>4. k > n + 1
  BY <1>1, <1>2, <1>3 DEF Probes
<1>5. ASSUME NEW i \in 1 .. n + 1
      PROVE  i \in InTheWay(socket, TRUE)
  <2>1. i \in 1 .. Len(socket) /\ i <= n + 1
    BY <1>1, <1>2, <1>4
  <2>2. socket[i] # "01"
    BY <1>1, <1>3, <2>1 DEF Probes
  <2> QED
    BY <1>1, <2>1, <2>2 DEF InTheWay, Kinds
<1> DEFINE S == InTheWay(socket, TRUE)
<1>6. IsFiniteSet(S) /\ Cardinality(S) \in Nat /\ Cardinality(S) <= n
  BY CountedInTheWay
<1>7. (1 .. n + 1) \in SUBSET S
  BY <1>5
<1> HIDE DEF S
<1>8. Cardinality(1 .. n + 1) <= Cardinality(S)
  BY <1>6, <1>7, FS_Subset
<1>9. Cardinality(1 .. n + 1) = n + 1
  BY FS_Interval
<1> QED
  BY <1>6, <1>8, <1>9

-----------------------------------------------------------------------------
(***************************************************************************)
(* Where the peers are, and what is on the path, in every reachable state. *)
(***************************************************************************)
LEMMA TickShifts ==
  ASSUME TypeOK, Tick
  PROVE  \A p \in Peers : flight'[p] = Older(flight[p])
BY DEF Tick, Older

\* Until it is bound nothing is sent to the server.
LEMMA NothingForServer ==
  ASSUME TypeOK, TypeOK', Course, Next, pc'["client"] = "bound"
  PROVE  flight'["server"] = <<>> /\ queue'["server"] = <<>>
<1>1. pc["client"] = "bound" /\ flight["server"] = <<>> /\ queue["server"] = <<>>
  <2>1. pc["client"] = "bound"
    BY DEF Next, Start, Runs, Discovers, Overlooks, TimesOut, NextRound, Returns, CallFails,
       Arrives, Loses, Repeats, Tick, TypeOK, Peers
  <2> QED
    BY <2>1 DEF Course
<1>2. CASE Tick
  <2>1. flight'["server"] \in Seq(Msgs) /\ DOMAIN flight'["server"] = {}
    BY <1>1, <1>2, TickShifts DEF TypeOK, Msgs, Older, Peers
  <2>2. /\ Len(flight'["server"]) \in Nat
        /\ 1 .. Len(flight'["server"]) = {}
    BY <2>1, LenProperties
  <2>3. 1 \notin 1 .. Len(flight'["server"])
    BY <2>2
  <2>4. Len(flight'["server"]) = 0
    BY <2>2, <2>3
  <2> QED
    BY <1>1, <1>2, <2>1, <2>4 DEF Tick
<1>3. ASSUME NEW p \in Peers, NEW i \in DOMAIN flight[p],
             Arrives(p, i) \/ Loses(p, i) \/ Repeats(p, i)
      PROVE  flight'["server"] = <<>> /\ queue'["server"] = <<>>
  <2>1. p = "client"
    BY <1>1, <1>3 DEF Peers
  <2> QED
    BY <1>1, <1>3, <2>1 DEF Arrives, Loses, Repeats, TypeOK, Peers
<1>4. ASSUME NEW p \in Peers, Start(p) \/ Runs(p) \/ CallFails(p)
      PROVE  flight'["server"] = <<>> /\ queue'["server"] = <<>>
  <2>1. CASE p = "client"
    BY <1>1, <1>4, <2>1 DEF Start, Runs, Discovers, Overlooks, TimesOut, NextRound, Returns,
       CallFails, TypeOK, Peers
  <2>2. CASE p = "server"
    BY <1>1, <1>4, <2>2 DEF Start, Runs, Discovers, Overlooks, TimesOut, NextRound, Returns,
       CallFails, LookOut, Send, Poll, Other, TypeOK, Peers
  <2> QED
    BY <2>1, <2>2 DEF Peers
<1> QED
  BY <1>2, <1>3, <1>4 DEF Next

LEMMA CourseKept ==
  ASSUME IInv, IInv', Course, Next
  PROVE  Course'
<1>1. TypeOK /\ TypeOK'
  BY DEF IInv
<1>2. ASSUME NEW p \in Peers
      PROVE  /\ pc'[p] \in {"bound", "discover"} => ~Discovered(p)'
             /\ pc'[p] \in {"transient", "open", "failed"} => Discovered(p)'
             /\ pc'[p] = "transient" => p \in mapped' /\ timer'[p] <= 1
  <2>1. ASSUME NEW q \in Peers, Start(q) \/ Runs(q) \/ CallFails(q)
        PROVE  /\ pc'[p] \in {"bound", "discover"} => ~Discovered(p)'
               /\ pc'[p] \in {"transient", "open", "failed"} => Discovered(p)'
               /\ pc'[p] = "transient" => p \in mapped' /\ timer'[p] <= 1
    <3>1. CASE Start(q)
      BY <1>1, <3>1, TimingAssumption
         DEF Course, Start, LookOut, Send, Wait, Discovered, TypeOK
    <3>2. CASE Discovers(q)
      BY <1>1, <3>2, TimingAssumption
         DEF Course, Discovers, Send, Wait, Discovered, TypeOK
    <3>3. CASE Overlooks(q)
      BY <1>1, <3>3, TimingAssumption
         DEF Course, Overlooks, LookOut, Send, Wait, Discovered, TypeOK
    <3>4. CASE TimesOut(q)
      BY <1>1, <3>4, TimingAssumption
         DEF Course, TimesOut, Send, Wait, Discovered, TypeOK
    <3>5. CASE NextRound(q)
      <4>1. left[q] > 1 /\ left[q] \in Int /\ left'[q] = left[q] - 1
        BY <1>1, <3>5, TimingAssumption DEF NextRound, TypeOK
      <4>2. left'[q] # 0 /\ left[q] # 0
        BY <4>1
      <4>3. /\ \A r \in Peers : r # q => left'[r] = left[r] /\ timer'[r] = timer[r]
            /\ pc' = pc /\ timer'[q] = 1 /\ mapped' = mapped \cup {q}
        BY <1>1, <3>5 DEF NextRound, Send, Wait, TypeOK
      <4>4. CASE p = q
        BY <4>2, <4>3, <4>4 DEF Course, Discovered
      <4>5. CASE p # q
        BY <4>3, <4>5 DEF Course, Discovered
      <4> QED
        BY <4>4, <4>5
    <3>6. CASE Returns(q)
      BY <1>1, <3>6 DEF Course, Returns, Discovered, TypeOK
    <3>7. CASE CallFails(q)
      BY <1>1, <3>7 DEF Course, CallFails, Discovered, TypeOK
    <3> QED
      BY <2>1, <3>1, <3>2, <3>3, <3>4, <3>5, <3>6, <3>7 DEF Runs
  <2>2. CASE Tick
    BY <1>1, <2>2, TimingAssumption DEF Course, Tick, Discovered, TypeOK
  <2>3. ASSUME NEW q \in Peers, NEW i \in DOMAIN flight[q],
               Arrives(q, i) \/ Loses(q, i) \/ Repeats(q, i)
        PROVE  UNCHANGED <<pc, left, mapped, timer>>
    BY <2>3 DEF Arrives, Loses, Repeats
  <2> QED
    BY <2>1, <2>2, <2>3 DEF Next, Course, Discovered
<1>3. pc'["client"] # "bound" => "client" \in mapped'
  <2>1. mapped \subseteq mapped'
    BY DEF Next, Start, Runs, Discovers, Overlooks, TimesOut, NextRound, Returns, CallFails,
       Arrives, Loses, Repeats, Tick, LookOut, Send
  <2>2. CASE pc["client"] = "bound" /\ pc'["client"] # "bound"
    <3>1. Start("client") \/ pc' = pc
      BY <1>1, <2>2 DEF Next, Start, Runs, Discovers, Overlooks, TimesOut, NextRound, Returns,
         CallFails, Arrives, Loses, Repeats, Tick, TypeOK, Peers
    <3> QED
      BY <2>2, <3>1 DEF Start, LookOut, Send
  <2> QED
    BY <2>1, <2>2 DEF Course
<1>4. pc'["client"] = "bound" =>
        ~Discovered("server")' /\ flight'["server"] = <<>> /\ queue'["server"] = <<>>
  <2> SUFFICES ASSUME pc'["client"] = "bound"
               PROVE  ~Discovered("server")'
    BY <1>1, NothingForServer
  <2>1. pc["client"] = "bound"
    BY <1>1 DEF Next, Start, Runs, Discovers, Overlooks, TimesOut, NextRound, Returns, CallFails,
       Arrives, Loses, Repeats, Tick, TypeOK, Peers
  <2>2. /\ ~Discovered("server") /\ queue["server"] = <<>>
        /\ pc["server"] # "transient"
    BY <2>1 DEF Course, IInv, InPhase, Peers
  <2>3. left'["server"] = left["server"]
    BY <1>1, <2>2 DEF Next, Start, Runs, Discovers, Overlooks, TimesOut, NextRound, Returns,
       CallFails, Arrives, Loses, Repeats, Tick, TypeOK, Peers
  <2> QED
    BY <2>2, <2>3 DEF Discovered
<1> QED
  BY <1>2, <1>3, <1>4 DEF Course

\* What a send does to the two directions.
LEMMA SendAppends ==
  ASSUME TypeOK, NEW p \in Peers, NEW kind \in Kinds, Send(p, kind)
  PROVE  /\ [kind |-> kind, age |-> 0] \in Msgs
         /\ p = "client" =>
              /\ flight'["server"] = Append(flight["server"], [kind |-> kind, age |-> 0])
              /\ flight'["client"] = flight["client"]
         /\ p = "server" =>
              /\ flight'["client"] = Append(flight["client"], [kind |-> kind, age |-> 0])
              /\ flight'["server"] = flight["server"]
<1>1. 0 \in 0 .. Delay
  BY TimingAssumption
<1>2. [kind |-> kind, age |-> 0] \in Msgs
  BY <1>1 DEF Msgs
<1> QED
  BY <1>2 DEF Send, Other, TypeOK, Peers

LEMMA LookOutAppends ==
  ASSUME TypeOK, NEW p \in Peers, LookOut(p)
  PROVE  /\ timer' = [timer EXCEPT ![p] = Retry]
         /\ p = "client" =>
              /\ flight'["server"] = Append(flight["server"], Probe(0))
              /\ flight'["client"] = flight["client"]
         /\ p = "server" => flight' = flight
<1>1. CASE p = "client"
  BY <1>1, SendAppends DEF LookOut, Wait, Kinds, Probe, Peers
<1>2. CASE p = "server"
  BY <1>2 DEF LookOut, Wait
<1> QED
  BY <1>1, <1>2 DEF Peers

LEMMA ProbeIsMsg == Probe(0) \in Msgs /\ Probe(0).kind = "01"
  BY TimingAssumption DEF Probe, Msgs, Kinds

\* What a peer's step leaves alone,
LEMMA OwnStep ==
  ASSUME TypeOK, NEW p \in Peers, Start(p) \/ Runs(p) \/ CallFails(p)
  PROVE  /\ flight'[p] = flight[p]
         /\ \A q \in Peers : q # p =>
              /\ pc'[q] = pc[q] /\ queue'[q] = queue[q] /\ timer'[q] = timer[q]
              /\ left'[q] = left[q] /\ punched'[q] = punched[q]
<1>1. ASSUME NEW kind \in Kinds, Send(p, kind)
      PROVE  flight'[p] = flight[p]
  BY <1>1, SendAppends DEF Peers
<1>2. LookOut(p) => flight'[p] = flight[p]
  BY <1>1 DEF LookOut, Kinds
<1>3. flight'[p] = flight[p]
  BY <1>1, <1>2 DEF Start, Runs, Discovers, Overlooks, TimesOut, NextRound, Returns, CallFails,
     Kinds
<1>4. LookOut(p) => timer' = [timer EXCEPT ![p] = Retry]
  BY DEF LookOut, Wait
<1>5. Poll(p) => \A q \in Peers : q # p => queue'[q] = queue[q] /\ punched'[q] = punched[q]
  BY DEF Poll, TypeOK
<1>6. ASSUME NEW q \in Peers, q # p
      PROVE  /\ pc'[q] = pc[q] /\ queue'[q] = queue[q] /\ timer'[q] = timer[q]
             /\ left'[q] = left[q] /\ punched'[q] = punched[q]
  BY <1>4, <1>5, <1>6
     DEF Start, Runs, Discovers, Overlooks, TimesOut, NextRound, Returns, CallFails,
         Wait, TypeOK
<1> QED
  BY <1>3, <1>6

\* and a datagram's.
LEMMA OnThePath ==
  ASSUME TypeOK, NEW p \in Peers, NEW i \in DOMAIN flight[p],
         Arrives(p, i) \/ Loses(p, i) \/ Repeats(p, i)
  PROVE  /\ UNCHANGED <<pc, timer, left, punched, mapped>>
         /\ \A q \in Peers : q # p => flight'[q] = flight[q] /\ queue'[q] = queue[q]
         /\ \/ /\ Arrives(p, i) /\ faults' = faults
               /\ flight'[p] = RemoveAt(flight[p], i)
               /\ queue'[p] = IF p \in mapped /\ Listens(p) /\ Len(queue[p]) < MaxQueue
                              THEN Append(queue[p], flight[p][i].kind) ELSE queue[p]
            \/ /\ Loses(p, i) /\ faults' = faults + 1
               /\ flight'[p] = RemoveAt(flight[p], i) /\ queue'[p] = queue[p]
            \/ /\ Repeats(p, i) /\ faults' = faults + 1
               /\ flight'[p] = Append(flight[p], flight[p][i]) /\ queue'[p] = queue[p]
<1>1. CASE Arrives(p, i)
  BY <1>1 DEF Arrives, TypeOK
<1>2. CASE Loses(p, i)
  BY <1>2 DEF Loses, TypeOK
<1>3. CASE Repeats(p, i)
  BY <1>3 DEF Repeats, TypeOK
<1> QED
  BY <1>1, <1>2, <1>3

\* The client's direction carries probes only,
LEMMA ProbesOnlyToServer ==
  ASSUME TypeOK, KeepAlives(flight["server"]) = {}, Next
  PROVE  KeepAlives(flight'["server"]) = {}
<1>0. flight["server"] \in Seq(Msgs)
  BY InFlight DEF Peers
<1>1. CASE flight'["server"] = Append(flight["server"], Probe(0))
  BY <1>0, <1>1, ProbeIsMsg, KeepAlivesSent
<1>2. ASSUME NEW i \in DOMAIN flight["server"],
             flight'["server"] = RemoveAt(flight["server"], i)
      PROVE  KeepAlives(flight'["server"]) = {}
  <2>1. KeepAlives(RemoveAt(flight["server"], i)) = {}
    BY <1>0, KeepAlivesLeft
  <2> QED
    BY <1>2, <2>1
<1>3. ASSUME NEW i \in DOMAIN flight["server"],
             flight'["server"] = Append(flight["server"], flight["server"][i])
      PROVE  KeepAlives(flight'["server"]) = {}
  <2>1. flight["server"][i] \in Msgs /\ flight["server"][i].kind # "ka"
    BY <1>0 DEF KeepAlives
  <2> QED
    BY <1>0, <1>3, <2>1, KeepAlivesSent
<1>4. CASE Tick
  BY <1>0, <1>4, TickShifts, KeepAlivesAge DEF Peers
<1>5. ASSUME NEW p \in Peers, Start(p) \/ Runs(p) \/ CallFails(p)
      PROVE  \/ flight'["server"] = Append(flight["server"], Probe(0))
             \/ flight'["server"] = flight["server"]
  <2>1. CASE p = "client"
    BY <1>5, <2>1, SendAppends, LookOutAppends
       DEF Start, Runs, Discovers, Overlooks, TimesOut, NextRound, Returns, CallFails,
           Kinds, Probe
  <2>2. CASE p = "server"
    BY <1>5, <2>2, SendAppends, LookOutAppends
       DEF Start, Runs, Discovers, Overlooks, TimesOut, NextRound, Returns, CallFails, Kinds
  <2> QED
    BY <2>1, <2>2 DEF Peers
<1>6. ASSUME NEW p \in Peers, NEW i \in DOMAIN flight[p],
             Arrives(p, i) \/ Loses(p, i) \/ Repeats(p, i)
      PROVE  KeepAlives(flight'["server"]) = {}
  <2>1. CASE p = "client"
    BY <1>6, <2>1, OnThePath DEF Peers
  <2>2. CASE p = "server"
    BY <1>2, <1>3, <1>6, <2>2, OnThePath
  <2> QED
    BY <2>1, <2>2 DEF Peers
<1> QED
  BY <1>1, <1>4, <1>5, <1>6 DEF Next

\* and so does its socket.
LEMMA ProbesOnlyAtServer ==
  ASSUME TypeOK, KeepAlives(flight["server"]) = {},
         Probes(queue["server"]) = DOMAIN queue["server"], Next
  PROVE  Probes(queue'["server"]) = DOMAIN queue'["server"]
<1>1. queue["server"] \in Seq(Kinds) /\ \A i \in DOMAIN queue["server"] : queue["server"][i] = "01"
  BY DEF TypeOK, Peers, Probes
<1>2. CASE queue["server"] # <<>> /\ queue'["server"] = Tail(queue["server"])
  <2>1. /\ DOMAIN Tail(queue["server"]) = 1 .. Len(queue["server"]) - 1
        /\ Len(queue["server"]) \in Nat /\ DOMAIN queue["server"] = 1 .. Len(queue["server"])
        /\ \A i \in 1 .. Len(queue["server"]) - 1 :
             Tail(queue["server"])[i] = queue["server"][i + 1]
    BY <1>1, <1>2, HeadTailProperties
  <2>2. \A i \in 1 .. Len(queue["server"]) - 1 : i + 1 \in DOMAIN queue["server"]
    BY <2>1
  <2> QED
    BY <1>1, <1>2, <2>1, <2>2 DEF Probes
<1>3. CASE queue'["server"] = Append(queue["server"], "01")
  <2>1. /\ DOMAIN Append(queue["server"], "01") = 1 .. Len(queue["server"]) + 1
        /\ Len(queue["server"]) \in Nat /\ DOMAIN queue["server"] = 1 .. Len(queue["server"])
        /\ \A i \in 1 .. Len(queue["server"]) :
             Append(queue["server"], "01")[i] = queue["server"][i]
        /\ Append(queue["server"], "01")[Len(queue["server"]) + 1] = "01"
    BY <1>1, AppendProperties DEF Kinds
  <2> QED
    BY <1>1, <1>3, <2>1 DEF Probes
<1>4. CASE queue'["server"] = queue["server"]
  BY <1>1, <1>4 DEF Probes
<1>5. \/ queue["server"] # <<>> /\ queue'["server"] = Tail(queue["server"])
      \/ queue'["server"] = Append(queue["server"], "01")
      \/ queue'["server"] = queue["server"]
  <2>1. ASSUME NEW i \in DOMAIN flight["server"], Arrives("server", i)
        PROVE  \/ queue'["server"] = Append(queue["server"], "01")
               \/ queue'["server"] = queue["server"]
    <3>1. flight["server"][i] \in Msgs /\ flight["server"][i].kind # "ka"
      BY InFlight DEF KeepAlives, Peers
    <3>2. flight["server"][i].kind = "01"
      BY <3>1 DEF Msgs, Kinds
    <3> QED
      BY <2>1, <3>2 DEF Arrives, TypeOK, Peers
  <2>2. ASSUME NEW i \in DOMAIN flight["client"], Arrives("client", i)
        PROVE  queue'["server"] = queue["server"]
    BY <2>2 DEF Arrives, TypeOK, Peers
  <2>3. ASSUME NEW p \in Peers, Start(p) \/ Runs(p) \/ CallFails(p)
        PROVE  \/ queue["server"] # <<>> /\ queue'["server"] = Tail(queue["server"])
               \/ queue'["server"] = queue["server"]
    BY <2>3 DEF Start, Runs, Discovers, Overlooks, TimesOut, NextRound, Returns, CallFails,
       Poll, TypeOK, Peers
  <2> QED
    BY <2>1, <2>2, <2>3 DEF Next, Loses, Repeats, Tick, Peers
<1> QED
  BY <1>2, <1>3, <1>4, <1>5

\* Keep-alives are a timeout apart, so the server sends the next when the last
\* has long arrived.
LEMMA KeepAlivesRare ==
  ASSUME IInv, IInv', Course, Traffic, Next
  PROVE  /\ pc'["server"] = "bound" => KeepAlives(flight'["client"]) = {}
         /\ pc'["server"] = "discover" =>
              \A i \in KeepAlives(flight'["client"]) :
                flight'["client"][i].age + timer'["server"] >= Retry
<1> DEFINE path == flight["client"]
<1>1. /\ TypeOK /\ TypeOK' /\ path \in Seq(Msgs)
      /\ timer["server"] \in Nat /\ Retry \in Nat /\ Delay \in Nat
      /\ \A i \in DOMAIN path : path[i] \in Msgs /\ path[i].age \in Nat
  <2>1. path \in Seq(Msgs) /\ \A i \in DOMAIN path : path[i] \in Msgs
    BY InFlight DEF IInv, Peers
  <2> QED
    BY <2>1, TimingAssumption DEF IInv, TypeOK, Msgs, Peers
<1>2. ASSUME NEW p \in Peers, Start(p) \/ Runs(p) \/ CallFails(p), p = "client"
      PROVE  /\ flight'["client"] = path
             /\ timer'["server"] = timer["server"] /\ pc'["server"] = pc["server"]
  BY <1>1, <1>2, OwnStep DEF Peers
<1>3. ASSUME NEW p \in Peers, Start(p), p = "server"
      PROVE  flight'["client"] = path /\ KeepAlives(path) = {}
  BY <1>1, <1>3, LookOutAppends DEF Start, Traffic
<1>4. ASSUME NEW p \in Peers, Discovers(p) \/ NextRound(p) \/ Returns(p) \/ CallFails(p),
             p = "server"
      PROVE  pc'["server"] \notin {"bound", "discover"}
  BY <1>1, <1>4 DEF Discovers, NextRound, Returns, CallFails, TypeOK
<1>5. ASSUME NEW p \in Peers, Overlooks(p), p = "server"
      PROVE  /\ pc'["server"] = "discover" /\ timer'["server"] = Retry
             /\ flight'["client"] = path
  <2>1. LookOut("server") /\ pc' = pc /\ pc["server"] = "discover"
    BY <1>5 DEF Overlooks
  <2>2. timer' = [timer EXCEPT !["server"] = Retry] /\ flight' = flight
    BY <1>1, <2>1, LookOutAppends DEF Peers
  <2> QED
    BY <1>1, <2>1, <2>2 DEF TypeOK, Peers
<1>6. ASSUME NEW p \in Peers, TimesOut(p), p = "server"
      PROVE  /\ pc'["server"] = "discover" /\ timer'["server"] = Retry
             /\ flight'["client"] \in Seq(Msgs)
             /\ \A i \in KeepAlives(flight'["client"]) : flight'["client"][i].age \in Nat
  <2>1. pc'["server"] = "discover" /\ timer'["server"] = Retry
    BY <1>1, <1>6 DEF TimesOut, Wait, TypeOK
  <2>2. flight'["client"] \in Seq(Msgs)
    BY <1>1 DEF TypeOK, Msgs, Peers
  <2>3. ASSUME NEW i \in KeepAlives(flight'["client"])
        PROVE  flight'["client"][i].age \in Nat
    <3>1. i \in DOMAIN flight'["client"]
      BY DEF KeepAlives
    <3>2. flight'["client"][i] \in Msgs
      BY <2>2, <3>1
    <3> QED
      BY <1>1, <3>2 DEF Msgs
  <2> QED
    BY <2>1, <2>2, <2>3
<1>7. CASE Tick
  <2>1. /\ flight'["client"] = Older(path) /\ KeepAlives(Older(path)) = KeepAlives(path)
        /\ pc' = pc
    BY <1>1, <1>7, TickShifts, KeepAlivesAge DEF Tick, Peers
  <2>2. ASSUME NEW i \in KeepAlives(path)
        PROVE  Older(path)[i].age = path[i].age + 1
    BY <1>1 DEF KeepAlives, Older, Msgs
  <2>3. pc["server"] = "discover" => timer'["server"] = timer["server"] - 1
    BY <1>7 DEF Tick, Idle, Peers
  <2>4. \A i \in KeepAlives(path) : i \in DOMAIN path
    BY DEF KeepAlives
  <2> QED
    BY <1>1, <2>1, <2>2, <2>3, <2>4 DEF Traffic
<1>8. ASSUME NEW p \in Peers, NEW i \in DOMAIN flight[p],
             Arrives(p, i) \/ Loses(p, i) \/ Repeats(p, i)
      PROVE  /\ pc' = pc /\ timer' = timer
             /\ \A j \in KeepAlives(flight'["client"]) :
                  \E k \in KeepAlives(path) : flight'["client"][j] = path[k]
  <2>1. pc' = pc /\ timer' = timer
    BY <1>1, <1>8, OnThePath
  <2>2. CASE p = "server"
    BY <1>1, <1>8, <2>1, <2>2, OnThePath DEF Peers
  <2>3. CASE p = "client" /\ flight'["client"] = RemoveAt(path, i)
    BY <1>1, <2>1, <2>3, KeepAlivesLeft
  <2>4. CASE p = "client" /\ flight'["client"] = Append(path, path[i])
    <3>1. path[i].kind = "ka" => i \in KeepAlives(path)
      BY <2>4 DEF KeepAlives
    <3>2. /\ path[i] \in Msgs
          /\ \A j \in KeepAlives(Append(path, path[i])) :
               \/ Append(path, path[i])[j] = path[i]
               \/ j \in KeepAlives(path) /\ Append(path, path[i])[j] = path[j]
      BY <1>1, <2>4, KeepAlivesBefore
    <3>3. \A j \in KeepAlives(Append(path, path[i])) : Append(path, path[i])[j].kind = "ka"
      BY DEF KeepAlives
    <3> HIDE DEF path
    <3>4. \A j \in KeepAlives(Append(path, path[i])) :
             \E k \in KeepAlives(path) : Append(path, path[i])[j] = path[k]
      BY <3>1, <3>2, <3>3
    <3> QED
      BY <2>1, <2>4, <3>4
  <2>5. p = "client" => \/ flight'["client"] = RemoveAt(path, i)
                       \/ flight'["client"] = Append(path, path[i])
    BY <1>1, <1>8, OnThePath
  <2> QED
    BY <2>1, <2>2, <2>3, <2>4, <2>5 DEF Peers
<1>9. ASSUME NEW p \in Peers, Start(p) \/ Runs(p) \/ CallFails(p)
      PROVE  /\ pc'["server"] = "bound" => KeepAlives(flight'["client"]) = {}
             /\ pc'["server"] = "discover" =>
                  \A i \in KeepAlives(flight'["client"]) :
                    flight'["client"][i].age + timer'["server"] >= Retry
  <2>1. CASE p = "client"
    BY <1>2, <1>9, <2>1 DEF Traffic
  <2>2. CASE p = "server"
    <3>1. \A i \in KeepAlives(path) : i \in DOMAIN path
      BY DEF KeepAlives
    <3>2. Start(p) => pc'["server"] = "discover"
      BY <1>1, <2>2 DEF Start, TypeOK
    <3> QED
      BY <1>1, <1>3, <1>4, <1>5, <1>6, <1>9, <2>2, <3>1, <3>2 DEF Runs
  <2> QED
    BY <2>1, <2>2 DEF Peers
<1>10. ASSUME NEW p \in Peers, NEW i \in DOMAIN flight[p],
             Arrives(p, i) \/ Loses(p, i) \/ Repeats(p, i)
       PROVE  /\ pc'["server"] = "bound" => KeepAlives(flight'["client"]) = {}
              /\ pc'["server"] = "discover" =>
                   \A j \in KeepAlives(flight'["client"]) :
                     flight'["client"][j].age + timer'["server"] >= Retry
  BY <1>8, <1>10 DEF Traffic
<1> QED
  BY <1>7, <1>9, <1>10 DEF Next

LEMMA TrafficKept ==
  ASSUME IInv, IInv', Course, Traffic, Next
  PROVE  Traffic'
<1>1. KeepAlives(flight'["server"]) = {} /\ Probes(queue'["server"]) = DOMAIN queue'["server"]
  BY ProbesOnlyToServer, ProbesOnlyAtServer DEF IInv, Traffic
<1> QED
  BY <1>1, KeepAlivesRare DEF Traffic

-----------------------------------------------------------------------------
(***************************************************************************)
(* The clocks of the two phases.                                           *)
(***************************************************************************)
LEMMA Bounds ==
  /\ Window \in Nat /\ Window >= 1 /\ Retry \in Nat /\ Delay \in Nat
  /\ MaxQueue \in Nat /\ MaxFaults \in Nat
BY TimingAssumption, BoundsAssumption

LEMMA Clock ==
  ASSUME TypeOK, NEW p \in Peers
  PROVE  /\ left[p] \in Nat /\ left[p] <= Window /\ timer[p] \in Nat
         /\ Elapsed(p) \in Int /\ Elapsed(p) = Window - left[p] + 1 - timer[p]
         /\ Sent(p) \in Int /\ Sent(p) = Elapsed(p) + timer[p]
         /\ faults \in Nat /\ faults <= MaxFaults
<1>1. /\ left[p] \in Nat /\ left[p] <= Window /\ timer[p] \in Nat
      /\ faults \in Nat /\ faults <= MaxFaults
  BY Bounds DEF TypeOK
<1> QED
  BY <1>1, Bounds DEF Elapsed, Sent

LEMMA ClockNext ==
  ASSUME TypeOK', NEW p \in Peers
  PROVE  /\ left'[p] \in Nat /\ left'[p] <= Window /\ timer'[p] \in Nat
         /\ Elapsed(p)' \in Int /\ Elapsed(p)' = Window - left'[p] + 1 - timer'[p]
         /\ Sent(p)' \in Int /\ Sent(p)' = Elapsed(p)' + timer'[p]
         /\ faults' \in Nat /\ faults' <= MaxFaults
<1>1. /\ left'[p] \in Nat /\ left'[p] <= Window /\ timer'[p] \in Nat
      /\ faults' \in Nat /\ faults' <= MaxFaults
  BY Bounds DEF TypeOK
<1> QED
  BY <1>1, Bounds DEF Elapsed, Sent

\* Another's step leaves a clock alone,
LEMMA ClockStays ==
  ASSUME TypeOK, NEW p \in Peers, left'[p] = left[p], timer'[p] = timer[p]
  PROVE  Elapsed(p)' = Elapsed(p) /\ Sent(p)' = Sent(p)
BY DEF Elapsed, Sent

\* as does a round, which sends one more probe,
LEMMA ClockOfRound ==
  ASSUME TypeOK, TypeOK', NEW p \in Peers, NextRound(p)
  PROVE  /\ Sent(p) = Elapsed(p)
         /\ Elapsed(p)' = Elapsed(p) /\ Sent(p)' = Elapsed(p) + 1
<1>1. /\ left'[p] = left[p] - 1 /\ timer'[p] = 1 /\ timer[p] = 0
  BY DEF NextRound, Wait, TypeOK
<1> QED
  BY <1>1, Clock, ClockNext, Bounds

\* a phase begins at 0 with the first probe,
LEMMA ClockOfDiscovery ==
  ASSUME TypeOK, TypeOK', NEW p \in Peers, Discovers(p)
  PROVE  Elapsed(p)' = 0 /\ Sent(p)' = 1 /\ left'[p] = Window
<1>1. left'[p] = Window /\ timer'[p] = 1
  BY DEF Discovers, Wait, TypeOK
<1> QED
  BY <1>1, ClockNext, Bounds

\* and ends when its last round is over.
LEMMA ClockOfReturn ==
  ASSUME TypeOK, NEW p \in Peers, Returns(p)
  PROVE  Elapsed(p) = Window /\ Sent(p) = Window /\ left[p] = 1
<1>1. left[p] = 1 /\ timer[p] = 0
  BY DEF Returns
<1> QED
  BY <1>1, Clock, Bounds

LEMMA ClockTicks ==
  ASSUME TypeOK, TypeOK', NEW p \in Peers, Tick, pc[p] = "transient"
  PROVE  /\ Elapsed(p)' = Elapsed(p) + 1 /\ Sent(p)' = Sent(p)
         /\ Elapsed(p) + 1 <= Sent(p)
<1>1. left'[p] = left[p] /\ timer[p] > 0 /\ timer'[p] = timer[p] - 1
  BY DEF Tick, Idle
<1> QED
  BY <1>1, Clock, ClockNext, Bounds

\* A peer in its phase has sent for every tick, and may send no more this tick.
LEMMA ClockInPhase ==
  ASSUME TypeOK, Course, NEW p \in Peers, pc[p] = "transient"
  PROVE  Elapsed(p) >= 0 /\ Elapsed(p) <= Sent(p) /\ Sent(p) <= Elapsed(p) + 1
<1>1. timer[p] <= 1
  BY DEF Course
<1> QED
  BY <1>1, Clock, Bounds

LEMMA Distance ==
  ASSUME TypeOK
  PROVE  Lag \in Int /\ Lag = Elapsed("server") - Elapsed("client")
<1>1. Elapsed("server") \in Int /\ Elapsed("client") \in Int
  BY Clock DEF Peers
<1> QED
  BY <1>1 DEF Lag

\* The probes of a phase that are gone, and how many at least.
LEMMA Counted ==
  ASSUME TypeOK, NEW p \in Peers, NEW first \in Int
  PROVE  /\ Gone(p, first) = Absent(flight[Other(p)], Elapsed(p), first, Sent(p))
         /\ Cardinality(Gone(p, first)) \in Nat
         /\ Elapsed(p) - Delay - first + 1 <= Cardinality(Gone(p, first))
<1>1. /\ Elapsed(p) \in Int /\ Sent(p) \in Int /\ Elapsed(p) <= Sent(p)
      /\ Other(p) \in Peers /\ flight[Other(p)] \in Seq(Msgs)
  BY Clock, InFlight DEF Peers, Other
<1>2. Gone(p, first) = Absent(flight[Other(p)], Elapsed(p), first, Sent(p))
  BY DEF Gone
<1> QED
  BY <1>1, <1>2, AbsentIsFinite, OldOnesAreGone

\* None are gone that have not been sent.
LEMMA NoneToMiss ==
  ASSUME NEW path, NEW e \in Int, NEW first \in Int, NEW last \in Int, last < first
  PROVE  Cardinality(Absent(path, e, first, last)) = 0
<1>1. Absent(path, e, first, last) = {}
  BY DEF Absent
<1> QED
  BY <1>1, FS_EmptySet

-----------------------------------------------------------------------------
\* A client that was not settled is settled by its first probe only, or by time.
LEMMA SettledBefore ==
  ASSUME IInv, IInv', Course, Course',
         NEW p \in Peers, Start(p) \/ Runs(p), Settled'
  PROVE  Settled \/ (p = "client" /\ Discovers(p))
<1>1. TypeOK /\ TypeOK' /\ p \in {"client", "server"}
      /\ "client" \in Peers /\ "server" \in Peers
  BY DEF IInv, Peers
<1>2. CASE p = "client"
  <2>1. Elapsed("server")' = Elapsed("server") /\ left'["server"] = left["server"]
    BY <1>1, <1>2, OwnStep, ClockStays
  <2>2. ~Discovers("client") =>
          \/ pc'["client"] \in {"bound", "discover"}
          \/ pc["client"] = "transient"
    BY <1>1, <1>2 DEF Start, Runs, Overlooks, TimesOut, NextRound, Returns, TypeOK
  <2> QED
    BY <1>2, <2>1, <2>2 DEF Settled, Discovered
<1>3. CASE p = "server"
  <2>1. pc'["client"] = pc["client"]
    BY <1>1, <1>3, OwnStep
  <2>2. CASE Start(p) \/ Overlooks(p) \/ TimesOut(p)
    <3>1. pc'["server"] = "discover"
      BY <1>1, <1>3, <2>2 DEF Start, Overlooks, TimesOut, TypeOK
    <3>2. ~Discovered("server")'
      BY <1>1, <3>1 DEF Course
    <3> QED
      BY <2>1, <3>2 DEF Settled
  <2>3. CASE Discovers(p)
    <3>1. Elapsed("server")' = 0
      BY <1>1, <1>3, <2>3, ClockOfDiscovery
    <3> QED
      BY <2>1, <3>1 DEF Settled
  <2>4. CASE NextRound(p)
    <3>1. Elapsed("server")' = Elapsed("server") /\ Discovered("server")
      BY <1>1, <1>3, <2>4, ClockOfRound DEF NextRound, Course
    <3> QED
      BY <2>1, <3>1 DEF Settled
  <2>5. CASE Returns(p)
    <3>1. Elapsed("server")' = Elapsed("server") /\ left' = left
      BY <1>1, <1>3, <2>5, ClockStays DEF Returns
    <3> QED
      BY <2>1, <3>1 DEF Settled, Discovered
  <2> QED
    BY <2>2, <2>3, <2>4, <2>5 DEF Runs
<1> QED
  BY <1>1, <1>2, <1>3

\* What comes off the client's socket adds nothing to the count.
LEMMA KeepAlivesTaken ==
  ASSUME IInv, IInv', Course, Course', KeepAlivesAreFew,
         NEW p \in Peers, Start(p) \/ Runs(p)
  PROVE  Cardinality(InTheWay(queue'["client"], Settled'))
           <= Cardinality(InTheWay(queue["client"], Settled))
<1> DEFINE socket == queue["client"]
<1>1. TypeOK /\ "client" \in Peers /\ socket \in Seq(Kinds)
  BY DEF IInv, TypeOK, Peers
<1>2. Settled \in BOOLEAN /\ Settled' \in BOOLEAN
  BY DEF Settled
<1>3. Settled' => Settled \/ (p = "client" /\ Discovers(p))
  BY SettledBefore
<1>4. CASE queue'["client"] = socket /\ ~(p = "client" /\ Discovers(p))
  <2>1. InTheWay(socket, Settled') \in SUBSET InTheWay(socket, Settled)
    BY <1>3, <1>4 DEF InTheWay
  <2>2. IsFiniteSet(InTheWay(socket, Settled))
    BY <1>1, <1>2, CountedInTheWay
  <2> QED
    BY <1>4, <2>1, <2>2, FS_Subset
<1>5. CASE p = "client" /\ socket # <<>> /\ queue'["client"] = Tail(socket)
           /\ (Discovers(p) => Head(socket) = "01")
  BY <1>1, <1>2, <1>3, <1>5, InTheWayTaken
<1>6. CASE p = "client"
  BY <1>1, <1>4, <1>5, <1>6
     DEF Start, Runs, Discovers, Overlooks, TimesOut, NextRound, Returns, Poll, IInv, TypeOK
<1>7. CASE p = "server"
  BY <1>1, <1>4, <1>7, OwnStep
<1> QED
  BY <1>6, <1>7 DEF Peers

\* The server sends a keep-alive when none is left, and no probe has come yet.
LEMMA KeepAliveAlone ==
  ASSUME InTime, IInv, Course, Traffic, CallsSucceed, TimesOut("server")
  PROVE  /\ KeepAlives(flight["client"]) = {}
         /\ InTheWay(queue["client"], Settled) = {}
<1>1. /\ pc["server"] = "discover" /\ timer["server"] = 0
      /\ TypeOK /\ "client" \in Peers /\ "server" \in Peers
      /\ flight["client"] \in Seq(Msgs) /\ queue["client"] \in Seq(Kinds)
  BY InFlight DEF TimesOut, IInv, TypeOK, Peers
<1>2. ASSUME NEW i \in KeepAlives(flight["client"])
      PROVE  FALSE
  <2>1. i \in DOMAIN flight["client"] /\ flight["client"][i].age + timer["server"] >= Retry
    BY <1>1 DEF Traffic, KeepAlives
  <2>2. flight["client"][i].age \in 0 .. Delay
    BY <1>1, <2>1, InFlight DEF Msgs
  <2> QED
    BY <1>1, <2>1, <2>2, Bounds DEF InTime
<1>3. ~Discovered("server")
  BY <1>1 DEF Course
<1>4. Probes(queue["client"]) = {}
  BY <1>3 DEF IInv, ServerWaitsForTrigger, ProbeFor, Probes
<1>5. ~Settled
  <2>1. ~Discovered("client")
    BY <1>3 DEF IInv, ServerDiscoversFirst
  <2>2. pc["client"] \in {"bound", "discover"}
    BY <1>1, <2>1 DEF Course, CallsSucceed, TypeOK
  <2> QED
    BY <1>3, <2>2 DEF Settled
<1>6. InTheWay(queue["client"], FALSE) = {}
  BY <1>1, <1>4, OnlyInTheWay
<1>7. Settled = FALSE
  BY <1>5 DEF Settled
<1> QED
  BY <1>2, <1>6, <1>7

LEMMA KeepAlivesKept ==
  ASSUME InTime, PunchInv, IInv', Course', CallsSucceed, Next, CallsSucceed'
  PROVE  KeepAlivesAreFew'
<1> DEFINE path == flight["client"]
           socket == queue["client"]
           there == Cardinality(KeepAlives(path))
           here == Cardinality(InTheWay(socket, Settled))
<1>1. /\ IInv /\ Course /\ Traffic /\ TypeOK /\ TypeOK'
      /\ "client" \in Peers /\ "server" \in Peers
      /\ KeepAlivesAreFew
  BY DEF PunchInv, IInv, Peers
<1>2. path \in Seq(Msgs) /\ socket \in Seq(Kinds) /\ Settled \in BOOLEAN
  BY <1>1, InFlight DEF TypeOK, Settled
<1>3. there \in Nat /\ here \in Nat /\ there + here <= 1 + faults /\ faults \in Nat
  BY <1>1, <1>2, CountedKeepAlives, CountedInTheWay, Clock DEF KeepAlivesAreFew
<1>4. /\ flight'["client"] \in Seq(Msgs) /\ queue'["client"] \in Seq(Kinds)
      /\ Settled' \in BOOLEAN
  BY <1>1 DEF TypeOK, Msgs, Settled
<1>5. /\ Cardinality(KeepAlives(flight'["client"])) \in Nat
      /\ Cardinality(InTheWay(queue'["client"], Settled')) \in Nat
  BY <1>4, CountedKeepAlives, CountedInTheWay
<1> HIDE DEF path, socket, there, here
<1>6. ASSUME NEW p \in Peers, Start(p) \/ Runs(p), ~(p = "server" /\ TimesOut(p))
      PROVE  KeepAlivesAreFew'
  <2>1. Cardinality(InTheWay(queue'["client"], Settled')) <= here
    BY <1>1, <1>6, KeepAlivesTaken DEF here, socket
  <2>2. \/ flight'["client"] = path
        \/ flight'["client"] = Append(path, Probe(0))
    <3>1. CASE p = "client"
      BY <1>1, <1>6, <3>1, OwnStep DEF path
    <3>2. CASE p = "server"
      BY <1>1, <1>6, <3>2, SendAppends, LookOutAppends
         DEF Start, Runs, Discovers, Overlooks, NextRound, Returns, Kinds, Probe, path
    <3> QED
      BY <3>1, <3>2 DEF Peers
  <2>3. Cardinality(KeepAlives(flight'["client"])) = there
    BY <1>2, <2>2, ProbeIsMsg, KeepAlivesSent DEF there
  <2>4. faults' = faults
    BY <1>6 DEF Start, Runs, Discovers, Overlooks, TimesOut, NextRound, Returns
  <2> QED
    BY <1>3, <1>5, <2>1, <2>3, <2>4 DEF KeepAlivesAreFew
<1>7. CASE TimesOut("server")
  <2>1. Cardinality(InTheWay(queue'["client"], Settled')) <= here
    BY <1>1, <1>7, KeepAlivesTaken DEF Runs, here, socket
  <2>2. there = 0 /\ here = 0
    BY <1>1, <1>7, KeepAliveAlone, FS_EmptySet DEF there, here, path, socket
  <2>3. /\ flight'["client"] = Append(path, [kind |-> "ka", age |-> 0])
        /\ [kind |-> "ka", age |-> 0] \in Msgs
    BY <1>1, <1>7, SendAppends DEF TimesOut, Kinds, path
  <2>4. Cardinality(KeepAlives(flight'["client"])) <= there + 1
    BY <1>2, <2>3, KeepAlivesSent DEF there
  <2>5. faults' = faults
    BY <1>7 DEF TimesOut
  <2> QED
    BY <1>3, <1>5, <2>1, <2>2, <2>4, <2>5 DEF KeepAlivesAreFew
<1>8. ASSUME NEW p \in Peers, CallFails(p)
      PROVE  FALSE
  BY <1>1, <1>8 DEF CallFails, CallsSucceed, TypeOK
<1>9. ASSUME NEW p \in Peers, NEW i \in DOMAIN flight[p],
             Arrives(p, i) \/ Loses(p, i) \/ Repeats(p, i)
      PROVE  KeepAlivesAreFew'
  <2>1. Settled' = Settled
    <3>1. pc' = pc /\ left' = left /\ timer' = timer
      BY <1>1, <1>9, OnThePath
    <3>2. Elapsed("server")' = Elapsed("server")
      BY <1>1, <3>1, ClockStays
    <3> QED
      BY <3>1, <3>2 DEF Settled, Discovered
  <2>2. CASE p = "server"
    <3>1. flight'["client"] = path /\ queue'["client"] = socket /\ faults' \in {faults, faults + 1}
      BY <1>1, <1>9, <2>2, OnThePath DEF path, socket
    <3> QED
      BY <1>3, <2>1, <3>1 DEF KeepAlivesAreFew, there, here
  <2>3. CASE p = "client" /\ Arrives(p, i)
    <3>0. i \in DOMAIN path /\ path[i] \in Msgs /\ path[i].kind \in Kinds
      <4>1. i \in DOMAIN path /\ path[i] \in Msgs
        BY <1>1, <2>3, InFlight DEF path
      <4> QED
        BY <4>1 DEF Msgs
    <3>1. /\ flight'["client"] = RemoveAt(path, i) /\ faults' = faults
          /\ (queue'["client"] = socket \/ queue'["client"] = Append(socket, path[i].kind))
      BY <1>1, <2>3 DEF Arrives, TypeOK, path, socket
    <3>2. /\ Cardinality(KeepAlives(flight'["client"])) <= there
          /\ path[i].kind = "ka" => Cardinality(KeepAlives(flight'["client"])) + 1 <= there
      BY <1>2, <3>0, <3>1, KeepAlivesRemoved DEF there
    <3>3. /\ Cardinality(InTheWay(queue'["client"], Settled)) <= here + 1
          /\ path[i].kind # "ka" =>
               Cardinality(InTheWay(queue'["client"], Settled)) <= here
      <4>1. CASE queue'["client"] = socket
        BY <1>3, <4>1 DEF here
      <4>2. CASE queue'["client"] = Append(socket, path[i].kind)
        BY <1>2, <3>0, <4>2, InTheWayArriving DEF here
      <4> QED
        BY <3>1, <4>1, <4>2
    <3> QED
      BY <1>3, <1>5, <2>1, <3>1, <3>2, <3>3 DEF KeepAlivesAreFew
  <2>4. CASE p = "client" /\ Loses(p, i)
    <3>1. /\ i \in DOMAIN path /\ flight'["client"] = RemoveAt(path, i)
          /\ queue'["client"] = socket /\ faults' = faults + 1
      BY <1>1, <2>4 DEF path, socket, Loses, TypeOK
    <3>2. Cardinality(KeepAlives(flight'["client"])) <= there
      BY <1>2, <3>1, KeepAlivesRemoved DEF there
    <3> QED
      BY <1>3, <1>5, <2>1, <3>1, <3>2 DEF KeepAlivesAreFew, here
  <2>5. CASE p = "client" /\ Repeats(p, i)
    <3>1. /\ i \in DOMAIN path /\ path[i] \in Msgs
          /\ flight'["client"] = Append(path, path[i])
          /\ queue'["client"] = socket /\ faults' = faults + 1
      BY <1>1, <2>5, InFlight DEF path, socket, Repeats, TypeOK
    <3>2. Cardinality(KeepAlives(flight'["client"])) <= there + 1
      BY <1>2, <3>1, KeepAlivesSent DEF there
    <3> QED
      BY <1>3, <1>5, <2>1, <3>1, <3>2 DEF KeepAlivesAreFew, here
  <2> QED
    BY <1>9, <2>2, <2>3, <2>4, <2>5 DEF Peers
<1>10. CASE Tick
  <2>1. /\ flight'["client"] = Older(path) /\ queue'["client"] = socket
        /\ pc' = pc /\ left' = left /\ faults' = faults
    BY <1>1, <1>10, TickShifts DEF Tick, path, socket
  <2>2. Cardinality(KeepAlives(flight'["client"])) = there
    BY <1>2, <2>1, KeepAlivesAge DEF there
  <2>3. CASE Settled' = Settled
    BY <1>3, <2>1, <2>2, <2>3 DEF KeepAlivesAreFew, here
  <2>4. CASE Settled' # Settled
    <3>1. pc["client"] = "discover"
      <4>1. pc["client"] \in {"bound", "discover"}
        BY <2>1, <2>4 DEF Settled
      <4>2. pc["client"] = "bound" => ~Discovered("server") /\ ~Discovered("server")'
        BY <1>1, <2>1 DEF Course, Discovered
      <4> QED
        BY <2>1, <2>4, <4>1, <4>2 DEF Settled
    <3>2. socket = <<>>
      BY <1>1, <1>10, <3>1 DEF Tick, Idle, socket
    <3>3. InTheWay(socket, Settled') = {}
      BY <3>2 DEF InTheWay
    <3>4. Cardinality(InTheWay(queue'["client"], Settled')) = 0
      BY <2>1, <3>3, FS_EmptySet
    <3> QED
      BY <1>3, <2>1, <2>2, <3>4 DEF KeepAlivesAreFew
  <2> QED
    BY <2>3, <2>4
<1> QED
  BY <1>6, <1>7, <1>8, <1>9, <1>10 DEF Next

-----------------------------------------------------------------------------
(***************************************************************************)
(* The probes in a socket.                                                 *)
(***************************************************************************)
LEMMA ProbesArriving ==
  ASSUME NEW socket \in Seq(Kinds), NEW kind \in Kinds
  PROVE  /\ Probes(socket) \subseteq Probes(Append(socket, kind))
         /\ kind # "01" => Probes(Append(socket, kind)) = Probes(socket)
         /\ kind = "01" => Len(socket) + 1 \in Probes(Append(socket, kind))
<1>1. /\ DOMAIN socket = 1 .. Len(socket) /\ Len(socket) \in Nat
      /\ DOMAIN Append(socket, kind) = 1 .. Len(socket) + 1
      /\ \A i \in 1 .. Len(socket) : Append(socket, kind)[i] = socket[i]
      /\ Append(socket, kind)[Len(socket) + 1] = kind
  BY AppendProperties
<1>2. ASSUME NEW i \in Probes(socket)
      PROVE  i \in Probes(Append(socket, kind))
  BY <1>1 DEF Probes
<1>3. ASSUME NEW i \in Probes(Append(socket, kind)), kind # "01"
      PROVE  i \in Probes(socket)
  BY <1>1, <1>3 DEF Probes
<1>4. kind = "01" => Len(socket) + 1 \in Probes(Append(socket, kind))
  BY <1>1 DEF Probes
<1> QED
  BY <1>2, <1>3, <1>4

LEMMA ProbesTaken ==
  ASSUME NEW socket \in Seq(Kinds), socket # <<>>
  PROVE  /\ Head(socket) # "01" => \A i \in Probes(socket) : i - 1 \in Probes(Tail(socket))
         /\ \A j \in Probes(Tail(socket)) : j + 1 \in Probes(socket)
         /\ 1 \in Probes(socket) => Head(socket) = "01"
<1>1. /\ DOMAIN socket = 1 .. Len(socket) /\ Len(socket) \in Nat /\ Len(socket) >= 1
      /\ Head(socket) = socket[1]
      /\ Tail(socket) \in Seq(Kinds) /\ DOMAIN Tail(socket) = 1 .. Len(socket) - 1
      /\ \A i \in 1 .. Len(socket) - 1 : Tail(socket)[i] = socket[i + 1]
  BY HeadTailProperties
<1>2. ASSUME NEW i \in Probes(socket), Head(socket) # "01"
      PROVE  i - 1 \in Probes(Tail(socket))
  <2>1. i \in 1 .. Len(socket) /\ socket[i] = "01" /\ i # 1
    BY <1>1, <1>2 DEF Probes
  <2>2. i - 1 \in 1 .. Len(socket) - 1 /\ (i - 1) + 1 = i
    BY <1>1, <2>1
  <2> QED
    BY <1>1, <2>1, <2>2 DEF Probes
<1>3. ASSUME NEW j \in Probes(Tail(socket))
      PROVE  j + 1 \in Probes(socket)
  BY <1>1 DEF Probes
<1>4. 1 \in Probes(socket) => Head(socket) = "01"
  BY <1>1 DEF Probes
<1> QED
  BY <1>2, <1>3, <1>4

\* A fault costs one probe; what arrives and is none costs none.
LEMMA GoneOnThePath ==
  ASSUME TypeOK, NEW p \in Peers, NEW i \in DOMAIN flight[p],
         Arrives(p, i) \/ Loses(p, i) \/ Repeats(p, i),
         ~(Arrives(p, i) /\ flight[p][i].kind = "01"),
         NEW e \in Int, NEW first \in Int, NEW last \in Int
  PROVE  Cardinality(Absent(flight'[p], e, first, last)) + faults
           <= Cardinality(Absent(flight[p], e, first, last)) + faults'
<1> DEFINE path == flight[p]
           gone == Cardinality(Absent(path, e, first, last))
<1>1. path \in Seq(Msgs) /\ path[i] \in Msgs /\ faults \in Nat /\ gone \in Nat
  BY InFlight, AbsentIsFinite, Clock
<1>2. /\ Cardinality(Absent(RemoveAt(path, i), e, first, last)) \in Nat
      /\ Cardinality(Absent(Append(path, path[i]), e, first, last)) \in Nat
  BY AbsentIsFinite
<1>3. CASE Arrives(p, i) /\ path[i].kind # "01"
  <2>1. flight'[p] = RemoveAt(path, i) /\ faults' = faults
    BY <1>3 DEF Arrives, TypeOK
  <2>2. Cardinality(Absent(RemoveAt(path, i), e, first, last)) <= gone
    BY <1>1, <1>3, OneGoneByRemoval
  <2> QED
    BY <1>1, <1>2, <2>1, <2>2
<1>4. CASE Loses(p, i)
  <2>1. flight'[p] = RemoveAt(path, i) /\ faults' = faults + 1
    BY <1>4 DEF Loses, TypeOK
  <2>2. Cardinality(Absent(RemoveAt(path, i), e, first, last)) <= gone + 1
    BY <1>1, OneGoneByRemoval
  <2> QED
    BY <1>1, <1>2, <2>1, <2>2
<1>5. CASE Repeats(p, i)
  <2>1. flight'[p] = Append(path, path[i]) /\ faults' = faults + 1
    BY <1>5 DEF Repeats, TypeOK
  <2>2. Cardinality(Absent(Append(path, path[i]), e, first, last)) <= gone
    BY <1>1, NoneGoneBySending
  <2> QED
    BY <1>1, <1>2, <2>1, <2>2
<1> QED
  BY <1>3, <1>4, <1>5

\* A settled client has room for a probe if it holds none.
LEMMA ProbeGetsIn ==
  ASSUME InTime, PunchInv, CallsSucceed, NEW i \in DOMAIN flight["client"],
         Arrives("client", i), flight["client"][i].kind = "01",
         pc["client"] \in {"discover", "transient"}, Settled,
         Probes(queue["client"]) = {}
  PROVE  /\ Len(queue["client"]) <= 1 + faults
         /\ queue'["client"] = Append(queue["client"], "01")
<1> DEFINE socket == queue["client"]
           here == Cardinality(InTheWay(socket, TRUE))
<1>1. /\ TypeOK /\ socket \in Seq(Kinds) /\ Len(socket) \in Nat /\ "client" \in Peers
      /\ flight["client"] \in Seq(Msgs) /\ faults \in Nat /\ faults <= MaxFaults
  <2>1. TypeOK /\ "client" \in Peers
    BY DEF PunchInv, IInv, Peers
  <2>2. socket \in Seq(Kinds) /\ Len(socket) \in Nat
    BY <2>1 DEF TypeOK
  <2> QED
    BY <2>1, <2>2, InFlight, Clock
<1>2. Settled = TRUE
  BY DEF Settled
<1>3. /\ Cardinality(KeepAlives(flight["client"])) \in Nat /\ here \in Nat
      /\ Cardinality(KeepAlives(flight["client"])) + here <= 1 + faults
  BY <1>1, <1>2, CountedKeepAlives, CountedInTheWay DEF PunchInv, KeepAlivesAreFew
<1>4. Len(socket) <= here
  BY <1>1, OnlyInTheWay
<1> HIDE DEF here
<1>5. Len(socket) <= 1 + faults /\ Len(socket) < MaxQueue
  BY <1>1, <1>3, <1>4, Bounds DEF InTime
<1>6. "client" \in mapped /\ Listens("client")
  BY DEF PunchInv, Course, Listens
<1> QED
  BY <1>1, <1>5, <1>6 DEF Arrives, TypeOK

-----------------------------------------------------------------------------
(***************************************************************************)
(* Step by step: a client that discovers is answered.                      *)
(***************************************************************************)
LEMMA ClientIsAnsweredKept ==
  ASSUME InTime, PunchInv, IInv', Course', CallsSucceed, Next, CallsSucceed'
  PROVE  ClientIsAnswered'
<1> DEFINE path == flight["client"]
           socket == queue["client"]
           e == Elapsed("server")
           s == Sent("server")
           gone == Cardinality(Gone("server", 2))
           gone2 == Cardinality(Absent(flight'["client"], Elapsed("server")', 2, Sent("server")'))
<1>1. /\ IInv /\ Course /\ Traffic /\ TypeOK /\ TypeOK' /\ ClientIsAnswered
      /\ "client" \in Peers /\ "server" \in Peers
  BY DEF PunchInv, IInv, Peers
<1>2. /\ path \in Seq(Msgs) /\ socket \in Seq(Kinds)
      /\ flight'["client"] \in Seq(Msgs) /\ queue'["client"] \in Seq(Kinds)
  BY <1>1, InFlight DEF TypeOK, Msgs
<1>3. /\ e \in Int /\ s \in Int /\ timer["server"] \in Nat /\ s = e + timer["server"]
      /\ Elapsed("server")' \in Int /\ Sent("server")' \in Int
      /\ faults \in Nat /\ faults <= MaxFaults /\ faults' \in Nat /\ faults' <= MaxFaults
  BY <1>1, Clock, ClockNext
<1>4. gone = Cardinality(Absent(path, e, 2, s)) /\ gone \in Nat
  BY <1>1, Counted DEF Other
<1>5. Cardinality(Gone("server", 2)') = gone2 /\ gone2 \in Nat
  <2>1. Gone("server", 2)' = Absent(flight'["client"], Elapsed("server")', 2, Sent("server")')
    BY DEF Gone, Other
  <2> QED
    BY <1>3, <2>1, AbsentIsFinite
<1> HIDE DEF gone, gone2
<1> SUFFICES ASSUME Discovered("server")', pc'["client"] = "discover"
             PROVE  /\ pc'["server"] = "transient"
                    /\ Elapsed("server")' <= Delay + faults' + 1
                    /\ Probes(queue'["client"]) # {} \/ gone2 <= faults'
  BY <1>5 DEF ClientIsAnswered
<1> DEFINE Goal == /\ pc'["server"] = "transient"
                   /\ Elapsed("server")' <= Delay + faults' + 1
                   /\ Probes(queue'["client"]) # {} \/ gone2 <= faults'
<1>6. CASE Discovers("server")
  <2>1. pc'["server"] = "transient" /\ Elapsed("server")' = 0 /\ Sent("server")' = 1
    BY <1>1, <1>6, ClockOfDiscovery DEF Discovers, TypeOK
  <2>2. gone2 = 0
    BY <2>1, NoneToMiss DEF gone2
  <2> QED
    BY <1>3, <2>1, <2>2, Bounds
<1>7. CASE NextRound("server")
  <2>1. /\ pc' = pc /\ faults' = faults /\ queue'["client"] = socket
        /\ Discovered("server") /\ s = e /\ Elapsed("server")' = e /\ Sent("server")' = e + 1
    BY <1>1, <1>7, OwnStep, ClockOfRound DEF NextRound, Course, Runs
  <2>2. flight'["client"] = Append(path, Probe(0))
    BY <1>1, <1>7, SendAppends DEF NextRound, Kinds, Probe
  <2>3. gone2 <= gone
    BY <1>2, <1>3, <1>4, <2>1, <2>2, NoneGoneByProbing DEF gone2
  <2> QED
    BY <1>1, <1>3, <1>4, <1>5, <2>1, <2>3 DEF ClientIsAnswered, gone
<1>8. CASE Returns("server")
  <2>1. /\ pc["client"] = "discover" /\ Discovered("server") /\ e = Window
    BY <1>1, <1>8, OwnStep, ClockOfReturn DEF Returns, Course, Runs
  <2>2. Window <= Delay + faults + 1
    BY <1>1, <2>1 DEF ClientIsAnswered
  <2> QED
    BY <1>3, <2>2, Bounds DEF InTime
<1>9. CASE Start("server") \/ Overlooks("server") \/ TimesOut("server")
  <2>1. pc'["server"] = "discover"
    BY <1>1, <1>9 DEF Start, Overlooks, TimesOut, TypeOK
  <2> QED
    BY <1>1, <2>1 DEF Course
<1>10. CASE Start("client") \/ Runs("client")
  <2>1. /\ flight'["client"] = path /\ pc'["server"] = pc["server"] /\ faults' = faults
        /\ Elapsed("server")' = e /\ Sent("server")' = s /\ Discovered("server")
    <3>1. /\ flight'["client"] = path /\ pc'["server"] = pc["server"]
          /\ left'["server"] = left["server"] /\ timer'["server"] = timer["server"]
      BY <1>1, <1>10, OwnStep
    <3>2. faults' = faults
      BY <1>10 DEF Start, Runs, Discovers, Overlooks, TimesOut, NextRound, Returns
    <3> QED
      BY <1>1, <3>1, <3>2, ClockStays DEF Discovered
  <2>2. gone2 = gone
    BY <1>4, <2>1 DEF gone2
  <2>3. pc["client"] = "discover"
    BY <1>1, <1>10, <2>1
       DEF Start, Runs, Discovers, Overlooks, TimesOut, NextRound, Returns, Course, TypeOK
  <2>4. CASE queue'["client"] = socket
    BY <1>1, <2>1, <2>2, <2>3, <2>4 DEF ClientIsAnswered, gone
  <2>5. CASE Overlooks("client")
    <3>1. queue'["client"] = Tail(socket) /\ socket # <<>> /\ Head(socket) # "01"
      BY <1>1, <2>5 DEF Overlooks, TypeOK
    <3>2. Probes(socket) # {} => Probes(Tail(socket)) # {}
      BY <1>2, <3>1, ProbesTaken
    <3> QED
      BY <1>1, <2>1, <2>2, <2>3, <3>1, <3>2 DEF ClientIsAnswered, gone
  <2>6. queue'["client"] = socket \/ Overlooks("client")
    BY <1>1, <1>10, <2>3 DEF Start, Runs, Discovers, TimesOut, NextRound, Returns, TypeOK
  <2> QED
    BY <2>4, <2>5, <2>6
<1>11. ASSUME NEW p \in Peers, CallFails(p)
       PROVE  FALSE
  BY <1>1, <1>11 DEF CallFails, CallsSucceed, TypeOK
<1>12. ASSUME NEW p \in Peers, NEW i \in DOMAIN flight[p],
              Arrives(p, i) \/ Loses(p, i) \/ Repeats(p, i)
       PROVE  Goal
  <2>1. /\ pc' = pc /\ faults' \in {faults, faults + 1} /\ Discovered("server")
        /\ Elapsed("server")' = e /\ Sent("server")' = s
    BY <1>1, <1>12, OnThePath, ClockStays DEF Discovered
  <2>2. /\ pc["server"] = "transient" /\ e <= Delay + faults + 1
        /\ Probes(socket) # {} \/ gone <= faults
    BY <1>1, <2>1 DEF ClientIsAnswered, gone
  <2>3. CASE Probes(queue'["client"]) # {} \/ gone2 <= faults'
    BY <1>3, <2>1, <2>2, <2>3, Bounds
  <2>4. CASE p = "server"
    <3>1. flight'["client"] = path /\ queue'["client"] = socket
      BY <1>1, <1>12, <2>4, OnThePath
    <3>2. gone2 = gone
      BY <1>4, <2>1, <3>1 DEF gone2
    <3> QED
      BY <1>3, <1>4, <2>1, <2>2, <2>3, <3>1, <3>2
  <2>5. CASE p = "client" /\ ~(Arrives(p, i) /\ path[i].kind = "01")
    <3>1. gone2 + faults <= gone + faults'
      BY <1>1, <1>3, <1>4, <1>12, <2>1, <2>5, GoneOnThePath DEF gone2
    <3>2. queue'["client"] = socket \/ queue'["client"] = Append(socket, path[i].kind)
      BY <1>1, <1>12, <2>5, OnThePath
    <3>3. path[i].kind \in Kinds
      BY <1>1, <2>5, InFlight DEF Msgs
    <3>4. Probes(socket) \subseteq Probes(queue'["client"])
      BY <1>2, <3>2, <3>3, ProbesArriving
    <3>5. Probes(queue'["client"]) # {} \/ gone2 <= faults'
      BY <1>3, <1>4, <1>5, <2>2, <3>1, <3>4
    <3> QED
      BY <2>3, <3>5
  <2>6. CASE p = "client" /\ Arrives(p, i) /\ path[i].kind = "01"
    <3>1. i \in DOMAIN path /\ "01" \in Kinds
      BY <2>6 DEF Kinds
    <3>2. queue'["client"] = socket \/ queue'["client"] = Append(socket, "01")
      BY <1>1, <1>12, <2>6, OnThePath
    <3>3. CASE queue'["client"] = Append(socket, "01")
      BY <1>2, <2>3, <3>1, <3>3, ProbesArriving
    <3>4. CASE queue'["client"] = socket /\ Probes(socket) # {}
      BY <2>3, <3>4
    <3>5. CASE Probes(socket) = {} /\ Settled
      <4>1. queue'["client"] = Append(socket, "01")
        BY <2>1, <2>6, <3>1, <3>5, ProbeGetsIn
      <4> QED
        BY <3>3, <4>1
    <3>6. CASE ~Settled
      <4>1. e < 1 /\ s <= e + 1
        BY <1>1, <1>3, <2>1, <2>2, <3>6, ClockInPhase DEF Settled
      <4>2. s < 2
        BY <1>3, <4>1
      <4>3. gone2 = 0
        BY <1>3, <2>1, <4>2, NoneToMiss DEF gone2
      <4> QED
        BY <1>3, <2>3, <4>3
    <3> QED
      BY <3>2, <3>3, <3>4, <3>5, <3>6
  <2> QED
    BY <2>4, <2>5, <2>6 DEF Peers
<1>13. CASE Tick
  <2>1. /\ pc' = pc /\ faults' = faults /\ queue'["client"] = socket
        /\ left' = left /\ flight'["client"] = Older(path)
    BY <1>1, <1>13, TickShifts DEF Tick
  <2>2. Discovered("server") /\ socket = <<>>
    BY <1>1, <1>13, <2>1 DEF Tick, Idle, Discovered
  <2>3. Probes(socket) = {}
    BY <2>2 DEF Probes
  <2>4. pc["server"] = "transient" /\ gone <= faults
    BY <1>1, <2>1, <2>2, <2>3 DEF ClientIsAnswered, gone
  <2>5. Elapsed("server")' = e + 1 /\ Sent("server")' = s /\ e + 1 <= s
    BY <1>1, <1>13, <2>4, ClockTicks
  <2>6. gone2 = gone
    BY <1>2, <1>3, <1>4, <2>1, <2>5, NoneGoneByTime DEF gone2
  <2>7. (e + 1) - Delay - 2 + 1 <= gone2
    BY <1>2, <1>3, <2>5, OldOnesAreGone DEF gone2
  <2> QED
    BY <1>3, <1>4, <2>1, <2>4, <2>5, <2>6, <2>7, Bounds
<1> QED
  BY <1>6, <1>7, <1>8, <1>9, <1>10, <1>11, <1>12, <1>13 DEF Next, Runs, Peers

-----------------------------------------------------------------------------
(***************************************************************************)
(* Step by step: a client in its phase hears.                              *)
(***************************************************************************)
\* While it has nothing to hear, no more than so many of its rounds are over.
LEMMA ClientHasTime ==
  ASSUME TypeOK, Cardinality(Gone("server", Lag + 2)) <= faults
  PROVE  Elapsed("client") <= Delay + faults + 1
<1>1. /\ Lag \in Int /\ Lag = Elapsed("server") - Elapsed("client")
      /\ Elapsed("server") \in Int /\ Elapsed("client") \in Int /\ faults \in Nat
  BY Distance, Clock DEF Peers
<1>2. Lag + 2 \in Int
  BY <1>1
<1>3. /\ Cardinality(Gone("server", Lag + 2)) \in Nat
      /\ Elapsed("server") - Delay - (Lag + 2) + 1 <= Cardinality(Gone("server", Lag + 2))
  BY <1>2, Counted DEF Peers
<1> QED
  BY <1>1, <1>3, Bounds

\* The phase of a client that discovers begins soon enough.
LEMMA ClientBegins ==
  ASSUME InTime, PunchInv, CallsSucceed, IInv', Discovers("client")
  PROVE  ClientHears'
<1> DEFINE socket == queue["client"]
           e == Elapsed("server")
           s == Sent("server")
<1>1. /\ TypeOK /\ TypeOK' /\ Course /\ "client" \in Peers /\ "server" \in Peers
      /\ ClientIsAnswered /\ KeepAlivesAreFew
  BY DEF PunchInv, IInv, Peers
<1>2. /\ socket \in Seq(Kinds) /\ socket # <<>> /\ Head(socket) = "01"
      /\ queue'["client"] = Tail(socket) /\ Tail(socket) \in Seq(Kinds)
  <2>1. /\ socket \in Seq(Kinds) /\ socket # <<>> /\ Head(socket) = "01"
        /\ queue'["client"] = Tail(socket)
    BY <1>1 DEF Discovers, TypeOK
  <2> QED
    BY <2>1, HeadTailProperties
<1>3. /\ pc["client"] = "discover" /\ pc'["server"] = pc["server"] /\ faults' = faults
      /\ Elapsed("client")' = 0 /\ left'["client"] = Window
      /\ Elapsed("server")' = e /\ Sent("server")' = s
      /\ left'["server"] = left["server"]
  BY <1>1, OwnStep, ClockStays, ClockOfDiscovery DEF Discovers, Runs
<1>4. Discovered("server")
  BY <1>3, Bounds DEF IInv, ServerDiscoversFirst, Discovered
<1>5. pc["server"] = "transient" /\ e <= Delay + faults + 1
  BY <1>1, <1>3, <1>4 DEF ClientIsAnswered
<1>6. /\ e \in Int /\ s \in Int /\ e >= 0 /\ s <= e + 1
      /\ faults \in Nat /\ faults <= MaxFaults
  BY <1>1, <1>5, Clock, ClockInPhase
<1>7. Lag' = e
  BY <1>3, <1>6 DEF Lag
<1>8. CASE Probes(Tail(socket)) # {}
  <2> DEFINE here == Cardinality(InTheWay(socket, Settled))
             then == Cardinality(InTheWay(Tail(socket), TRUE))
  <2>1. then <= here
    BY <1>2, InTheWayTaken DEF Settled
  <2>2. here \in Nat /\ then \in Nat
    BY <1>2, CountedInTheWay DEF Settled
  <2>3. /\ flight["client"] \in Seq(Msgs)
        /\ Cardinality(KeepAlives(flight["client"])) \in Nat
        /\ Cardinality(KeepAlives(flight["client"])) + here <= 1 + faults
    BY <1>1, InFlight, CountedKeepAlives DEF KeepAlivesAreFew
  <2> HIDE DEF here, then
  <2>4. then <= 1 + faults /\ 1 + faults \in Nat
    BY <1>6, <2>1, <2>2, <2>3
  <2>5. \E i \in Probes(Tail(socket)) : i <= (1 + faults) + 1
    BY <1>2, <1>8, <2>4, ProbeIsNear DEF then
  <2>6. PICK i \in Probes(Tail(socket)) : i <= (1 + faults) + 1
    BY <2>5
  <2>7. i \in Int
    BY <1>2 DEF Probes
  <2>8. i <= left'["client"]
    BY <1>3, <1>6, <2>6, <2>7, Bounds DEF InTime
  <2> QED
    BY <1>2, <2>6, <2>8 DEF ClientHears
<1>9. CASE Probes(Tail(socket)) = {}
  <2>1. Gone("server", Lag + 2)' = Absent(flight'["client"], e, e + 2, s)
    BY <1>3, <1>7 DEF Gone, Other
  <2>2. e + 2 \in Int /\ s < e + 2
    BY <1>6
  <2>3. Cardinality(Gone("server", Lag + 2)') = 0
    BY <1>6, <2>1, <2>2, NoneToMiss
  <2> QED
    BY <1>2, <1>3, <1>5, <1>6, <1>7, <1>9, <2>3, Bounds DEF ClientHears
<1> QED
  BY <1>8, <1>9

LEMMA ClientHearsKept ==
  ASSUME InTime, PunchInv, IInv', Course', CallsSucceed, Next, CallsSucceed'
  PROVE  ClientHears'
<1> DEFINE path == flight["client"]
           socket == queue["client"]
           e == Elapsed("server")
           s == Sent("server")
           first == Lag + 2
           gone == Cardinality(Gone("server", Lag + 2))
           gone2 == Cardinality(Absent(flight'["client"], Elapsed("server")', Lag' + 2,
                                       Sent("server")'))
           Awaited == /\ Probes(socket) = {} /\ pc["server"] = "transient"
                      /\ gone <= faults /\ gone + Lag <= Delay + faults + 1
<1>1. /\ IInv /\ Course /\ Traffic /\ TypeOK /\ TypeOK' /\ ClientHears
      /\ "client" \in Peers /\ "server" \in Peers
  BY DEF PunchInv, IInv, Peers
<1>2. /\ path \in Seq(Msgs) /\ socket \in Seq(Kinds)
      /\ flight'["client"] \in Seq(Msgs) /\ queue'["client"] \in Seq(Kinds)
  BY <1>1, InFlight DEF TypeOK, Msgs
<1>3. /\ e \in Int /\ s \in Int /\ timer["server"] \in Nat /\ s = e + timer["server"]
      /\ Elapsed("server")' \in Int /\ Sent("server")' \in Int
      /\ Elapsed("client") \in Int /\ Elapsed("client")' \in Int
      /\ faults \in Nat /\ faults <= MaxFaults /\ faults' \in Nat /\ faults' <= MaxFaults
  BY <1>1, Clock, ClockNext
<1>4. /\ Lag \in Int /\ first \in Int /\ Lag = e - Elapsed("client")
      /\ Lag' = Elapsed("server")' - Elapsed("client")'
      /\ Lag' \in Int /\ Lag' + 2 \in Int
  BY <1>3 DEF Lag
<1>5. /\ gone = Cardinality(Absent(path, e, first, s)) /\ gone \in Nat
      /\ e - Delay - first + 1 <= gone
  BY <1>1, <1>4, Counted DEF Other
<1>6. Cardinality(Gone("server", Lag + 2)') = gone2 /\ gone2 \in Nat
  <2>1. Gone("server", Lag + 2)' = Absent(flight'["client"], Elapsed("server")', Lag' + 2,
                                          Sent("server")')
    BY DEF Gone, Other
  <2> QED
    BY <1>3, <1>4, <2>1, AbsentIsFinite
<1> DEFINE Goal == \/ punched'["client"]
                   \/ \E i \in Probes(queue'["client"]) : i <= left'["client"]
                   \/ /\ Probes(queue'["client"]) = {} /\ pc'["server"] = "transient"
                      /\ gone2 <= faults' /\ gone2 + Lag' <= Delay + faults' + 1
<1> HIDE DEF gone, gone2, first
<1>7. SUFFICES ASSUME pc'["client"] = "transient"
               PROVE  Goal
  BY <1>6 DEF ClientHears
<1>8. Discovered("server")'
  BY <1>1, <1>7 DEF Course, IInv, ServerDiscoversFirst
<1>9. CASE Discovers("client")
  <2>1. ClientHears'
    BY <1>1, <1>9, ClientBegins
  <2> QED
    BY <1>6, <1>7, <2>1 DEF ClientHears
<1>10. pc["client"] = "transient" \/ Discovers("client")
  BY <1>1, <1>7
     DEF Next, Start, Runs, Discovers, Overlooks, TimesOut, NextRound, Returns, CallFails,
         Arrives, Loses, Repeats, Tick, TypeOK, Peers
<1>11. SUFFICES ASSUME pc["client"] = "transient" PROVE Goal
  BY <1>9, <1>10
<1>12. \/ punched["client"]
       \/ \E i \in Probes(socket) : i <= left["client"]
       \/ Awaited
  BY <1>1, <1>11 DEF ClientHears, gone
<1>13. Discovered("server") /\ pc["server"] \notin {"bound", "discover"}
  BY <1>1, <1>11 DEF Course, IInv, ServerDiscoversFirst
<1>14. CASE NextRound("client")
  <2>1. /\ Elapsed("client")' = Elapsed("client") /\ left'["client"] = left["client"] - 1
        /\ Elapsed("server")' = e /\ Sent("server")' = s /\ Lag' = Lag
        /\ flight'["client"] = path /\ faults' = faults /\ pc' = pc
        /\ left["client"] \in Int
    <3>1. /\ Elapsed("client")' = Elapsed("client") /\ left'["client"] = left["client"] - 1
          /\ Elapsed("server")' = e /\ Sent("server")' = s
          /\ flight'["client"] = path /\ faults' = faults /\ pc' = pc
      BY <1>1, <1>14, OwnStep, ClockStays, ClockOfRound DEF NextRound, Runs, TypeOK
    <3> QED
      BY <1>1, <1>4, <3>1, Clock
  <2>2. gone2 = gone
    BY <1>5, <2>1 DEF gone2, first
  <2>3. CASE punched["client"]
    BY <1>1, <1>14, <2>3 DEF NextRound, Poll
  <2>4. CASE ~punched["client"] /\ socket = <<>>
    <3>1. queue'["client"] = socket /\ Probes(socket) = {}
      BY <1>14, <2>4 DEF NextRound, Poll, Probes
    <3> QED
      BY <1>12, <2>1, <2>2, <2>4, <3>1
  <2>5. CASE ~punched["client"] /\ socket # <<>> /\ Head(socket) = "01"
    BY <1>1, <1>14, <2>5 DEF NextRound, Poll, TypeOK
  <2>6. CASE ~punched["client"] /\ socket # <<>> /\ Head(socket) # "01"
    <3>1. queue'["client"] = Tail(socket)
      BY <1>1, <1>14, <2>6 DEF NextRound, Poll, TypeOK
    <3>2. /\ \A i \in Probes(socket) : i \in Int /\ i - 1 \in Probes(Tail(socket))
          /\ \A j \in Probes(Tail(socket)) : j + 1 \in Probes(socket)
      BY <1>2, <2>6, ProbesTaken DEF Probes
    <3>3. CASE \E i \in Probes(socket) : i <= left["client"]
      <4>1. PICK i \in Probes(socket) : i <= left["client"]
        BY <3>3
      <4>2. i - 1 \in Probes(queue'["client"]) /\ i - 1 <= left'["client"]
        BY <2>1, <3>1, <3>2, <4>1
      <4> QED
        BY <4>2
    <3>4. CASE Awaited
      BY <2>1, <2>2, <3>1, <3>2, <3>4
    <3> QED
      BY <1>12, <2>6, <3>3, <3>4
  <2> QED
    BY <2>3, <2>4, <2>5, <2>6
<1>15. CASE NextRound("server")
  <2>1. /\ s = e /\ Elapsed("server")' = e /\ Sent("server")' = e + 1
        /\ Elapsed("client")' = Elapsed("client") /\ left'["client"] = left["client"]
        /\ queue'["client"] = socket /\ punched'["client"] = punched["client"]
        /\ faults' = faults /\ pc' = pc /\ Lag' = Lag
    <3>1. /\ s = e /\ Elapsed("server")' = e /\ Sent("server")' = e + 1
          /\ Elapsed("client")' = Elapsed("client") /\ left'["client"] = left["client"]
          /\ queue'["client"] = socket /\ punched'["client"] = punched["client"]
          /\ faults' = faults /\ pc' = pc
      BY <1>1, <1>15, OwnStep, ClockStays, ClockOfRound DEF NextRound, Runs
    <3> QED
      BY <1>4, <3>1
  <2>2. flight'["client"] = Append(path, Probe(0))
    BY <1>1, <1>15, SendAppends DEF NextRound, Kinds, Probe
  <2>3. gone2 <= gone
    BY <1>2, <1>3, <1>4, <1>5, <2>1, <2>2, NoneGoneByProbing DEF gone2, first
  <2> QED
    BY <1>3, <1>4, <1>5, <1>6, <1>12, <2>1, <2>3, Bounds
<1>16. CASE Returns("server")
  <2>1. /\ e = Window /\ queue'["client"] = socket
        /\ punched'["client"] = punched["client"] /\ left'["client"] = left["client"]
    BY <1>1, <1>16, OwnStep, ClockOfReturn DEF Runs
  <2>2. ~Awaited
    BY <1>3, <1>4, <1>5, <2>1, Bounds DEF InTime, first
  <2> QED
    BY <1>12, <2>1, <2>2
<1>17. ASSUME NEW p \in Peers, NEW i \in DOMAIN flight[p],
              Arrives(p, i) \/ Loses(p, i) \/ Repeats(p, i)
       PROVE  Goal
  <2>1. /\ pc' = pc /\ faults' \in {faults, faults + 1}
        /\ left' = left /\ punched' = punched
        /\ Elapsed("server")' = e /\ Sent("server")' = s
        /\ Elapsed("client")' = Elapsed("client") /\ Lag' = Lag
    <3>1. /\ pc' = pc /\ faults' \in {faults, faults + 1}
          /\ left' = left /\ punched' = punched
          /\ Elapsed("server")' = e /\ Sent("server")' = s
          /\ Elapsed("client")' = Elapsed("client")
      BY <1>1, <1>17, OnThePath, ClockStays
    <3> QED
      BY <1>4, <3>1
  <2>2. CASE p = "server"
    <3>1. flight'["client"] = path /\ queue'["client"] = socket
      BY <1>1, <1>17, <2>2, OnThePath
    <3>2. gone2 = gone
      BY <1>5, <2>1, <3>1 DEF gone2, first
    <3> QED
      BY <1>3, <1>4, <1>5, <1>12, <2>1, <3>1, <3>2, Bounds
  <2>3. CASE p = "client"
    <3>1. /\ i \in DOMAIN path /\ path[i].kind \in Kinds
          /\ (queue'["client"] = socket \/ queue'["client"] = Append(socket, path[i].kind))
      <4>1. i \in DOMAIN path /\ path[i] \in Msgs
        BY <1>1, <2>3, InFlight
      <4> QED
        BY <1>1, <1>17, <2>3, <4>1, OnThePath DEF Msgs
    <3>2. Probes(socket) \subseteq Probes(queue'["client"])
      BY <1>2, <3>1, ProbesArriving
    <3>3. CASE punched["client"] \/ \E j \in Probes(socket) : j <= left["client"]
      BY <2>1, <3>2, <3>3
    <3>4. CASE Awaited /\ ~(Arrives(p, i) /\ path[i].kind = "01")
      <4>1. gone2 + faults <= gone + faults'
        BY <1>1, <1>3, <1>4, <1>5, <1>17, <2>1, <2>3, <3>4, GoneOnThePath DEF gone2, first
      <4>2. Probes(queue'["client"]) = {}
        <5>1. CASE Arrives(p, i)
          BY <1>2, <3>1, <3>4, <5>1, ProbesArriving
        <5>2. CASE ~Arrives(p, i)
          <6>1. queue'["client"] = socket
            BY <1>17, <2>3, <5>2 DEF Loses, Repeats
          <6> QED
            BY <3>4, <6>1
        <5> QED
          BY <5>1, <5>2
      <4> QED
        BY <1>3, <1>4, <1>5, <1>6, <2>1, <3>4, <4>1, <4>2, Bounds
    <3>5. CASE Awaited /\ Arrives(p, i) /\ path[i].kind = "01"
      <4>1. Settled
        BY <1>11 DEF Settled
      <4>2. Len(socket) <= 1 + faults /\ queue'["client"] = Append(socket, "01")
        BY <1>11, <2>3, <3>1, <3>5, <4>1, ProbeGetsIn
      <4>3. Len(socket) + 1 \in Probes(queue'["client"]) /\ Len(socket) \in Nat
        BY <1>2, <4>2, ProbesArriving DEF Kinds
      <4>4. Elapsed("client") <= Delay + faults + 1
        BY <1>1, <3>5, ClientHasTime DEF gone
      <4>5. left["client"] >= Window - Elapsed("client") /\ left["client"] \in Nat
        <5>1. timer["client"] <= 1
          BY <1>1, <1>11 DEF Course
        <5> QED
          BY <1>1, <5>1, Clock, Bounds
      <4>6. Len(socket) + 1 <= left'["client"]
        BY <1>3, <2>1, <4>2, <4>3, <4>4, <4>5, Bounds DEF InTime
      <4> QED
        BY <4>3, <4>6
    <3> QED
      BY <1>12, <3>3, <3>4, <3>5
  <2> QED
    BY <2>2, <2>3 DEF Peers
<1>18. CASE Tick
  <2>1. /\ pc' = pc /\ faults' = faults /\ queue'["client"] = socket
        /\ left' = left /\ punched' = punched /\ flight'["client"] = Older(path)
    BY <1>1, <1>18, TickShifts DEF Tick
  <2>2. CASE Awaited
    <3>1. /\ Elapsed("server")' = e + 1 /\ Sent("server")' = s
          /\ Elapsed("client")' = Elapsed("client") + 1
      BY <1>1, <1>11, <1>18, <2>2, ClockTicks
    <3>2. Lag' = Lag
      BY <1>3, <1>4, <3>1
    <3>3. gone2 = gone
      <4>1. Absent(Older(path), e + 1, first, s) = Absent(path, e, first, s)
        <5>1. path \in Seq(Msgs) /\ e \in Int /\ s \in Int /\ first \in Int
          BY <1>2, <1>3, <1>4
        <5> HIDE DEF path, e, s
        <5> QED
          BY <5>1, NoneGoneByTime, Zenon
      <4>2. gone2 = Cardinality(Absent(Older(path), e + 1, first, s))
        BY <2>1, <3>1, <3>2 DEF gone2, first
      <4> QED
        BY <1>5, <4>1, <4>2
    <3> QED
      BY <2>1, <2>2, <3>2, <3>3
  <2> QED
    BY <1>12, <2>1, <2>2
<1>19. ASSUME NEW p \in Peers, CallFails(p)
       PROVE  FALSE
  BY <1>1, <1>19 DEF CallFails, CallsSucceed, TypeOK
<1>20. ASSUME NEW p \in Peers, Start(p) \/ Runs(p)
       PROVE  Goal
  BY <1>7, <1>11, <1>13, <1>14, <1>15, <1>16, <1>20, <1>1
     DEF Start, Runs, Discovers, Overlooks, TimesOut, Returns, TypeOK, Peers
<1> QED
  BY <1>17, <1>18, <1>19, <1>20 DEF Next

-----------------------------------------------------------------------------
(***************************************************************************)
(* Step by step: a server in its phase hears.                              *)
(***************************************************************************)
LEMMA ServerHearsKept ==
  ASSUME InTime, PunchInv, IInv', Course', CallsSucceed, Next, CallsSucceed'
  PROVE  ServerHears'
<1> DEFINE path == flight["server"]
           socket == queue["server"]
           e == Elapsed("client")
           s == Sent("client")
           gone == Cardinality(Gone("client", 1))
           gone2 == Cardinality(Absent(flight'["server"], Elapsed("client")', 1, Sent("client")'))
           Awaited == /\ pc["client"] = "transient"
                      /\ gone <= faults /\ gone + Lag <= Delay + faults + 1
<1>1. /\ IInv /\ Course /\ Traffic /\ TypeOK /\ TypeOK' /\ ServerHears /\ ClientIsAnswered
      /\ "client" \in Peers /\ "server" \in Peers
  BY DEF PunchInv, IInv, Peers
<1>2. /\ path \in Seq(Msgs) /\ socket \in Seq(Kinds)
      /\ flight'["server"] \in Seq(Msgs)
  BY <1>1, InFlight DEF TypeOK, Msgs
<1>3. /\ e \in Int /\ s \in Int
      /\ Elapsed("server") \in Int /\ Elapsed("server")' \in Int
      /\ Elapsed("client")' \in Int /\ Sent("client")' \in Int
      /\ faults \in Nat /\ faults <= MaxFaults /\ faults' \in Nat /\ faults' <= MaxFaults
  BY <1>1, Clock, ClockNext
<1>4. /\ Lag \in Int /\ Lag = Elapsed("server") - e
      /\ Lag' = Elapsed("server")' - Elapsed("client")' /\ Lag' \in Int
  BY <1>3 DEF Lag
<1>5. /\ gone = Cardinality(Absent(path, e, 1, s)) /\ gone \in Nat
      /\ e - Delay - 1 + 1 <= gone
  BY <1>1, Counted DEF Other
<1>6. Cardinality(Gone("client", 1)') = gone2 /\ gone2 \in Nat
  <2>1. Gone("client", 1)' = Absent(flight'["server"], Elapsed("client")', 1, Sent("client")')
    BY DEF Gone, Other
  <2> QED
    BY <1>3, <2>1, AbsentIsFinite
<1> DEFINE Goal == \/ punched'["server"]
                   \/ queue'["server"] # <<>>
                   \/ pc'["client"] = "discover"
                   \/ /\ pc'["client"] = "transient"
                      /\ gone2 <= faults' /\ gone2 + Lag' <= Delay + faults' + 1
<1> HIDE DEF gone, gone2
<1>7. SUFFICES ASSUME pc'["server"] = "transient"
               PROVE  Goal
  BY <1>6 DEF ServerHears
<1>8. CASE Discovers("server")
  <2>1. pc["server"] = "discover" /\ socket # <<>> /\ pc'["client"] = pc["client"]
    BY <1>1, <1>8, OwnStep DEF Discovers, Runs
  <2>2. pc["client"] # "bound"
    BY <2>1 DEF PunchInv, Course
  <2>3. ~Discovered("server") /\ ~Discovered("client")
    BY <1>1, <2>1 DEF Course, IInv, ServerDiscoversFirst
  <2>4. pc["client"] = "discover"
    BY <1>1, <2>2, <2>3 DEF Course, CallsSucceed, TypeOK
  <2> QED
    BY <2>1, <2>4
<1>9. pc["server"] = "transient" \/ Discovers("server")
  BY <1>1, <1>7
     DEF Next, Start, Runs, Discovers, Overlooks, TimesOut, NextRound, Returns, CallFails,
         Arrives, Loses, Repeats, Tick, TypeOK, Peers
<1>10. SUFFICES ASSUME pc["server"] = "transient" PROVE Goal
  BY <1>8, <1>9
<1>11. punched["server"] \/ socket # <<>> \/ pc["client"] = "discover" \/ Awaited
  BY <1>1, <1>10 DEF ServerHears, gone
<1>12. CASE NextRound("server")
  <2>1. /\ Elapsed("client")' = e /\ Sent("client")' = s /\ Lag' = Lag
        /\ flight'["server"] = path /\ faults' = faults /\ pc' = pc
    <3>1. /\ Elapsed("client")' = e /\ Sent("client")' = s
          /\ Elapsed("server")' = Elapsed("server")
          /\ flight'["server"] = path /\ faults' = faults /\ pc' = pc
      BY <1>1, <1>12, OwnStep, ClockStays, ClockOfRound DEF NextRound, Runs
    <3> QED
      BY <1>4, <3>1
  <2>2. gone2 = gone
    BY <1>5, <2>1 DEF gone2
  <2>3. CASE punched["server"]
    BY <1>12, <2>3 DEF NextRound, Poll
  <2>4. CASE ~punched["server"] /\ socket # <<>>
    <3>1. Head(socket) = "01"
      <4>1. 1 \in DOMAIN socket /\ Head(socket) = socket[1]
        BY <1>2, <2>4
      <4> QED
        BY <1>1, <4>1 DEF Traffic, Probes
    <3> QED
      BY <1>1, <1>12, <2>4, <3>1 DEF NextRound, Poll, TypeOK
  <2>5. CASE ~punched["server"] /\ socket = <<>>
    BY <1>11, <2>1, <2>2, <2>5
  <2> QED
    BY <2>3, <2>4, <2>5
<1>13. CASE Discovers("client")
  <2>1. /\ Elapsed("client")' = 0 /\ Sent("client")' = 1 /\ pc'["client"] = "transient"
        /\ left'["client"] = Window
        /\ Elapsed("server")' = Elapsed("server") /\ left'["server"] = left["server"]
        /\ faults' = faults /\ pc["client"] = "discover"
    BY <1>1, <1>13, OwnStep, ClockStays, ClockOfDiscovery DEF Discovers, Runs, TypeOK
  <2>2. Discovered("server")
    BY <2>1, Bounds DEF IInv, ServerDiscoversFirst, Discovered
  <2>3. Elapsed("server") <= Delay + faults + 1
    BY <1>1, <2>1, <2>2 DEF ClientIsAnswered
  <2>4. flight'["server"] = Append(path, Probe(0))
    BY <1>1, <1>13, SendAppends DEF Discovers, Kinds, Probe
  <2>5. Cardinality(Absent(Append(path, Probe(0)), 0, 1, 0 + 1))
          <= Cardinality(Absent(path, 0, 1, 0))
    BY <1>2, NoneGoneByProbing
  <2>6. Cardinality(Absent(path, 0, 1, 0)) = 0
    BY NoneToMiss
  <2>7. gone2 = 0
    BY <1>6, <2>1, <2>4, <2>5, <2>6 DEF gone2
  <2> QED
    BY <1>3, <1>4, <2>1, <2>3, <2>7, Bounds
<1>14. CASE NextRound("client")
  <2>1. /\ s = e /\ Elapsed("client")' = e /\ Sent("client")' = e + 1
        /\ queue'["server"] = socket /\ punched'["server"] = punched["server"]
        /\ faults' = faults /\ pc' = pc /\ Lag' = Lag
    <3>1. /\ s = e /\ Elapsed("client")' = e /\ Sent("client")' = e + 1
          /\ Elapsed("server")' = Elapsed("server")
          /\ queue'["server"] = socket /\ punched'["server"] = punched["server"]
          /\ faults' = faults /\ pc' = pc
      BY <1>1, <1>14, OwnStep, ClockStays, ClockOfRound DEF NextRound, Runs
    <3> QED
      BY <1>4, <3>1
  <2>2. flight'["server"] = Append(path, Probe(0))
    BY <1>1, <1>14, SendAppends DEF NextRound, Kinds, Probe
  <2>3. gone2 <= gone
    BY <1>2, <1>3, <1>5, <2>1, <2>2, NoneGoneByProbing DEF gone2
  <2>4. CASE Awaited
    <3>1. gone2 <= faults' /\ gone2 + Lag' <= Delay + faults' + 1
      <4> HIDE DEF e, s
      <4> QED
        BY <1>3, <1>4, <1>5, <1>6, <2>1, <2>3, Bounds, <2>4
    <3> QED
      BY <2>1, <2>4, <3>1
  <2> QED
    BY <1>11, <2>1, <2>4
<1>15. CASE Returns("client")
  <2>1. /\ e = Window /\ queue'["server"] = socket /\ pc["client"] = "transient"
        /\ punched'["server"] = punched["server"]
    BY <1>1, <1>15, OwnStep, ClockOfReturn DEF Returns, Runs
  <2>2. ~Awaited
    BY <1>3, <1>4, <1>5, <2>1, Bounds DEF InTime
  <2> QED
    BY <1>11, <2>1, <2>2
<1>16. CASE Overlooks("client") \/ TimesOut("client") \/ Start("client")
  BY <1>1, <1>16 DEF Overlooks, TimesOut, Start, TypeOK
<1>17. ASSUME NEW p \in Peers, NEW i \in DOMAIN flight[p],
              Arrives(p, i) \/ Loses(p, i) \/ Repeats(p, i)
       PROVE  Goal
  <2>1. /\ pc' = pc /\ faults' \in {faults, faults + 1} /\ punched' = punched
        /\ Elapsed("client")' = e /\ Sent("client")' = s /\ Lag' = Lag
    <3>1. /\ pc' = pc /\ faults' \in {faults, faults + 1} /\ punched' = punched
          /\ Elapsed("client")' = e /\ Sent("client")' = s
          /\ Elapsed("server")' = Elapsed("server")
      BY <1>1, <1>17, OnThePath, ClockStays
    <3> QED
      BY <1>4, <3>1
  <2>2. CASE p = "client"
    <3>1. flight'["server"] = path /\ queue'["server"] = socket
      BY <1>1, <1>17, <2>2, OnThePath
    <3>2. gone2 = gone
      BY <1>5, <2>1, <3>1 DEF gone2
    <3>3. CASE Awaited
      <4>1. gone2 <= faults' /\ gone2 + Lag' <= Delay + faults' + 1
        <5> HIDE DEF e, s
        <5> QED
          BY <1>3, <1>4, <1>5, <2>1, <3>1, <3>2, Bounds, <3>3
      <4> QED
        BY <2>1, <3>3, <4>1
    <3> QED
      BY <1>11, <2>1, <3>1, <3>3
  <2>3. CASE p = "server" /\ Arrives(p, i)
    <3>1. "server" \in mapped /\ Listens("server")
      BY <1>1, <1>10 DEF Course, Listens
    <3>2. \/ Len(socket) >= MaxQueue /\ queue'["server"] = socket
          \/ queue'["server"] = Append(socket, path[i].kind)
      <4>1. Len(socket) \in Nat
        BY <1>2
      <4> QED
        BY <1>1, <2>3, <3>1, <4>1, Bounds DEF Arrives, TypeOK
    <3>3. MaxQueue # 0
      BY Bounds DEF InTime
    <3>4. Len(socket) >= MaxQueue => socket # <<>>
      BY <3>3, Bounds
    <3>5. Append(socket, path[i].kind) # <<>>
      <4>1. path[i] \in Msgs
        BY <1>1, <2>3, InFlight
      <4>2. path[i].kind \in Kinds
        BY <4>1 DEF Msgs
      <4> QED
        BY <1>2, <4>2
    <3> QED
      BY <3>2, <3>4, <3>5
  <2>4. CASE p = "server" /\ ~Arrives(p, i)
    <3>1. queue'["server"] = socket
      BY <1>17, <2>4 DEF Loses, Repeats
    <3>2. gone2 + faults <= gone + faults'
      BY <1>1, <1>3, <1>5, <1>17, <2>1, <2>4, GoneOnThePath DEF gone2
    <3>3. CASE Awaited
      <4>1. gone2 <= faults' /\ gone2 + Lag' <= Delay + faults' + 1
        <5> HIDE DEF e, s
        <5> QED
          BY <1>3, <1>4, <1>5, <1>6, <2>1, <3>1, <3>2, Bounds, <3>3
      <4> QED
        BY <2>1, <3>3, <4>1
    <3> QED
      BY <1>11, <2>1, <3>1, <3>3
  <2> QED
    BY <2>2, <2>3, <2>4 DEF Peers
<1>18. CASE Tick
  <2>1. /\ pc' = pc /\ faults' = faults /\ queue'["server"] = socket
        /\ punched' = punched /\ flight'["server"] = Older(path)
    BY <1>1, <1>18, TickShifts DEF Tick
  <2>2. CASE Awaited
    <3>1. /\ Elapsed("client")' = e + 1 /\ Sent("client")' = s
          /\ Elapsed("server")' = Elapsed("server") + 1
      BY <1>1, <1>10, <1>18, <2>2, ClockTicks
    <3>2. Lag' = Lag
      BY <1>3, <1>4, <3>1
    <3>3. gone2 = gone
      <4>1. Absent(Older(path), e + 1, 1, s) = Absent(path, e, 1, s)
        <5>1. path \in Seq(Msgs) /\ e \in Int /\ s \in Int /\ 1 \in Int
          BY <1>2, <1>3
        <5> HIDE DEF path, e, s
        <5> QED
          BY <5>1, NoneGoneByTime, Zenon
      <4>2. gone2 = Cardinality(Absent(Older(path), e + 1, 1, s))
        BY <2>1, <3>1 DEF gone2
      <4> QED
        BY <1>5, <4>1, <4>2
    <3> QED
      BY <2>1, <2>2, <3>2, <3>3
  <2> QED
    BY <1>11, <2>1, <2>2
<1>19. ASSUME NEW p \in Peers, CallFails(p)
       PROVE  FALSE
  BY <1>1, <1>19 DEF CallFails, CallsSucceed, TypeOK
<1>20. ASSUME NEW p \in Peers, Start(p) \/ Runs(p)
       PROVE  Goal
  BY <1>1, <1>7, <1>10, <1>12, <1>13, <1>14, <1>15, <1>16, <1>20
     DEF Start, Runs, Discovers, Overlooks, TimesOut, Returns, TypeOK, Peers
<1> QED
  BY <1>17, <1>18, <1>19, <1>20 DEF Next

-----------------------------------------------------------------------------
(***************************************************************************)
(* The last round: a peer that has not heard by now hears in its poll.     *)
(***************************************************************************)
LEMMA ClientOpens ==
  ASSUME InTime, PunchInv, CallsSucceed, Returns("client")
  PROVE  punched'["client"]
<1> DEFINE socket == queue["client"]
           gone == Cardinality(Gone("server", Lag + 2))
<1>1. /\ TypeOK /\ ClientHears /\ "client" \in Peers /\ "server" \in Peers
      /\ socket \in Seq(Kinds) /\ pc["client"] = "transient" /\ left["client"] = 1
  BY DEF PunchInv, IInv, TypeOK, Peers, Returns
<1>2. CASE punched["client"]
  BY <1>2 DEF Returns, Poll
<1>3. CASE ~punched["client"] /\ \E i \in Probes(socket) : i <= 1
  <2>1. 1 \in Probes(socket) /\ socket # <<>>
    <3>1. PICK i \in Probes(socket) : i <= 1
      BY <1>3
    <3>2. i \in 1 .. Len(socket) /\ Len(socket) \in Nat
      BY <1>1 DEF Probes
    <3> QED
      BY <3>1, <3>2
  <2>2. Head(socket) = "01"
    BY <1>1, <2>1, ProbesTaken
  <2> QED
    BY <1>1, <1>3, <2>1, <2>2 DEF Returns, Poll, TypeOK
<1>4. CASE gone <= faults
  <2>1. Elapsed("client") <= Delay + faults + 1
    BY <1>1, <1>4, ClientHasTime
  <2>2. Elapsed("client") = Window
    BY <1>1, ClockOfReturn
  <2> QED
    BY <1>1, <2>1, <2>2, Clock, Bounds DEF InTime
<1> QED
  BY <1>1, <1>2, <1>3, <1>4 DEF ClientHears

LEMMA ServerOpens ==
  ASSUME InTime, PunchInv, CallsSucceed, Returns("server")
  PROVE  punched'["server"]
<1> DEFINE socket == queue["server"]
           gone == Cardinality(Gone("client", 1))
<1>1. /\ TypeOK /\ Traffic /\ Course /\ ServerHears /\ ClientIsAnswered
      /\ "client" \in Peers /\ "server" \in Peers
      /\ socket \in Seq(Kinds) /\ pc["server"] = "transient"
  BY DEF PunchInv, IInv, TypeOK, Peers, Returns
<1>2. CASE punched["server"]
  BY <1>2 DEF Returns, Poll
<1>3. CASE ~punched["server"] /\ socket # <<>>
  <2>1. 1 \in DOMAIN socket /\ Head(socket) = socket[1]
    BY <1>1, <1>3
  <2>2. Head(socket) = "01"
    BY <1>1, <2>1 DEF Traffic, Probes
  <2> QED
    BY <1>1, <1>3, <2>2 DEF Returns, Poll, TypeOK
<1>4. /\ Elapsed("server") = Window /\ faults \in Nat /\ faults <= MaxFaults
      /\ Elapsed("client") \in Int
  BY <1>1, Clock, ClockOfReturn
<1>5. CASE pc["client"] = "discover"
  <2>1. Discovered("server")
    BY <1>1 DEF Course
  <2>2. Window <= Delay + faults + 1
    BY <1>1, <1>4, <1>5, <2>1 DEF ClientIsAnswered
  <2> QED
    BY <1>4, <2>2, Bounds DEF InTime
<1>6. CASE gone + Lag <= Delay + faults + 1
  <2>1. gone \in Nat /\ Elapsed("client") - Delay - 1 + 1 <= gone
    BY <1>1, Counted
  <2>2. Lag \in Int /\ Lag = Window - Elapsed("client")
    BY <1>1, <1>4, Distance
  <2> HIDE DEF gone
  <2> QED
    BY <1>4, <1>6, <2>1, <2>2, Bounds DEF InTime
<1> QED
  BY <1>1, <1>2, <1>3, <1>5, <1>6 DEF ServerHears

LEMMA NobodyFailsKept ==
  ASSUME InTime, PunchInv, CallsSucceed, Next, CallsSucceed'
  PROVE  NobodyFails'
<1>1. TypeOK /\ \A p \in Peers : pc[p] # "failed"
  BY DEF PunchInv, IInv, NobodyFails
<1>2. ASSUME NEW p \in Peers, pc'[p] = "failed"
      PROVE  Returns(p) /\ ~punched'[p]
  <2>1. Returns(p)
    BY <1>1, <1>2
       DEF Next, Start, Runs, Discovers, Overlooks, TimesOut, NextRound, Returns, CallFails,
           Arrives, Loses, Repeats, Tick, TypeOK
  <2> QED
    BY <1>1, <1>2, <2>1 DEF Returns, TypeOK
<1> QED
  BY <1>2, ClientOpens, ServerOpens DEF NobodyFails, Peers

-----------------------------------------------------------------------------
LEMMA InitPunchInv == InTime /\ Init => PunchInv
<1> SUFFICES ASSUME Init PROVE PunchInv
  OBVIOUS
<1>1. IInv
  BY InitIInv
<1>2. Course
  BY DEF Init, Course, Discovered, Peers
<1>3. Traffic
  BY DEF Init, Traffic, Probes, KeepAlives, Peers
<1>4. KeepAlivesAreFew
  <2>1. KeepAlives(flight["client"]) = {} /\ InTheWay(queue["client"], Settled) = {}
    BY DEF Init, KeepAlives, InTheWay, Peers
  <2>2. /\ Cardinality(KeepAlives(flight["client"])) = 0
        /\ Cardinality(InTheWay(queue["client"], Settled)) = 0
    BY <2>1, FS_EmptySet
  <2>3. faults = 0
    BY DEF Init
  <2> QED
    BY <2>2, <2>3 DEF KeepAlivesAreFew
<1>5. ClientIsAnswered /\ ClientHears /\ ServerHears /\ NobodyFails
  BY DEF Init, ClientIsAnswered, ClientHears, ServerHears, NobodyFails, Peers
<1> QED
  BY <1>1, <1>2, <1>3, <1>4, <1>5 DEF PunchInv

LEMMA NextPunchInv == InTime /\ PunchInv /\ [Next]_vars => PunchInv'
<1> SUFFICES ASSUME InTime, PunchInv, [Next]_vars PROVE PunchInv'
  OBVIOUS
<1>1. IInv'
  BY NextIInv DEF PunchInv
<1>2. CASE UNCHANGED vars
  BY <1>1, <1>2
     DEF vars, PunchInv, Course, Traffic, CallsSucceed, KeepAlivesAreFew, ClientIsAnswered,
         ClientHears, ServerHears, NobodyFails, Discovered, Settled, Gone, Elapsed, Sent, Lag
<1>3. CASE Next
  <2>1. Course' /\ Traffic'
    BY <1>1, <1>3, CourseKept, TrafficKept DEF PunchInv
  <2>2. CallsSucceed' => CallsSucceed
    BY <1>3 DEF PunchInv, IInv, CallsSucceed, Next, Start, Runs, Discovers, Overlooks, TimesOut,
       NextRound, Returns, CallFails, Arrives, Loses, Repeats, Tick, TypeOK
  <2>3. CASE CallsSucceed'
    BY <1>1, <1>3, <2>1, <2>2, <2>3, KeepAlivesKept, ClientIsAnsweredKept, ClientHearsKept,
       ServerHearsKept, NobodyFailsKept DEF PunchInv
  <2>4. CASE ~CallsSucceed'
    BY <1>1, <2>1, <2>4 DEF PunchInv, NobodyFails
  <2> QED
    BY <2>3, <2>4
<1> QED
  BY <1>2, <1>3

(***************************************************************************)
(* When hole punching is in time, its inductive invariant holds in every   *)
(* reachable state, for every window, timeout, delay, buffer and number of *)
(* faults for which it is.                                                 *)
(***************************************************************************)
THEOREM PunchInvariance == InTime => (Spec => []PunchInv)
<1> SUFFICES ASSUME InTime PROVE Spec => []PunchInv
  OBVIOUS
<1>1. Init => PunchInv
  BY InitPunchInv
<1>2. PunchInv /\ [Next]_vars => PunchInv'
  BY NextPunchInv
<1> QED
  BY <1>1, <1>2, PTL DEF Spec

(***************************************************************************)
(* In time, no peer leaves its transient phase without having polled a     *)
(* probe (ossl_quic.c:486-519), whatever the NATs, the order of arrival    *)
(* and the faults forgiven.                                                *)
(***************************************************************************)
THEOREM NobodyFailsInTime == InTime => (Spec => []NobodyFails)
<1> SUFFICES ASSUME InTime PROVE Spec => []NobodyFails
  OBVIOUS
<1>1. PunchInv => NobodyFails
  BY DEF PunchInv
<1>2. Spec => []PunchInv
  BY PunchInvariance
<1> QED
  BY <1>1, <1>2, PTL
=============================================================================
