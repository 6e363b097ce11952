--------------------------- MODULE KeepAliveProofs ---------------------------
(***************************************************************************)
(* What the keep-alives of the loop achieve, for every interval, threshold *)
(* and delay.                                                              *)
(***************************************************************************)
EXTENDS KeepAlive, TLAPS

USE DEF Peers, Other

LEMMA PatienceIsNatural == Patience \in Nat /\ Patience > 0
BY ClockAssumption, SMT DEF Patience

\* The products the clock is made of.
LEMMA Products ==
  ASSUME NEW n \in 0 .. KaMiss + 1
  PROVE  /\ n * Interval \in Nat /\ n * Interval <= Patience
         /\ (n + 1) * Interval = n * Interval + Interval
         /\ n # KaMiss + 1 => n * Interval + Interval <= Patience
         /\ n = KaMiss => n * Interval + Interval = Patience
         /\ n = KaMiss + 1 => n * Interval = Patience
BY ClockAssumption, SMT DEF Patience

\* The initial state satisfies the inductive invariant.
LEMMA InitIInv == Init => IInv
<1> SUFFICES ASSUME Init PROVE IInv
  OBVIOUS
<1> USE ClockAssumption, PatienceIsNatural DEF Init, Running
<1>1. TypeOK
  <2>1. /\ 0 \in 0 .. Interval /\ Interval \in 0 .. Interval
        /\ 0 \in 0 .. KaMiss /\ 0 \in 0 .. Patience /\ 0 \in 0 .. KaMiss + 1
    BY SMT
  <2>2. /\ left \in [Peers -> 0 .. Interval] /\ threshold \in [Peers -> 0 .. KaMiss]
        /\ silence \in [Peers -> 0 .. Patience] /\ sentAgo \in [Peers -> 0 .. Patience]
        /\ kas \in [Peers -> 0 .. KaMiss + 1]
    BY <2>1
  <2> QED
    BY <2>2 DEF TypeOK
<1>2. ClockReadsSilence
  BY DEF ClockReadsSilence
<1>6. KeepAlivesCountIntervals
  <2>1. silence = [p \in Peers |-> 0] /\ 0 * Interval = 0 /\ (0 + 1) * Interval = Interval
    OBVIOUS
  <2> QED
    BY <2>1 DEF KeepAlivesCountIntervals
<1>3. PausesAreKnown
  BY DEF PausesAreKnown
<1>4. SilenceExplained
  BY DEF SilenceExplained
<1>5. DropsOnlyPausedPeer
  BY DEF DropsOnlyPausedPeer
<1> QED
  BY <1>1, <1>2, <1>3, <1>4, <1>5, <1>6 DEF IInv

\* A peer that sends, or that is handed what its peer has sent, leaves the
\* silence of both explained.
LEMMA ExchangeExplained ==
  ASSUME IInv, NEW p \in Peers, NEW in, NEW out \in SUBSET {"data", "02"},
         Exchange(p, in, out),
         \A q \in Peers : ended'[q] = "no" => ended[q] = "no",
         silence'[Other(p)] = silence[Other(p)],
         \/ silence'[p] = 0
         \/ silence'[p] = silence[p] /\ in = {}
         \/ ended'[p] # "no"
  PROVE  SilenceExplained'
<1> USE ClockAssumption, PatienceIsNatural
<1>1. SUFFICES ASSUME NEW q \in Peers, Running(q)', ~lost', ~lax'[Other(q)]
               PROVE  \/ net'[q] = {} /\ silence'[q] <= sentAgo'[Other(q)]
                      \/ \E m \in net'[q] : silence'[q] <= m.age + (Patience - Delay - 1)
  BY DEF SilenceExplained, Running
<1>2. /\ \/ net[q] = {} /\ silence[q] <= sentAgo[Other(q)]
         \/ \E m \in net[q] : silence[q] <= m.age + (Patience - Delay - 1)
      /\ ended[q] = "no"
  BY <1>1 DEF IInv, SilenceExplained, Running, Exchange
<1>3. /\ silence[q] \in 0 .. Patience /\ sentAgo[Other(q)] \in 0 .. Patience
      /\ \A m \in net[q] : m.age \in 0 .. Delay
      /\ Fresh("data").age = 0 /\ Fresh("02").age = 0
  BY DEF IInv, TypeOK, Msgs, Fresh
<1>4. CASE q = p
  <2>1. net'[p] = net[p] \ in /\ sentAgo'[Other(p)] = sentAgo[Other(p)]
    BY DEF Exchange, IInv, TypeOK
  <2>2. \A m \in net[p] : m.age \in 0 .. Delay
    BY <1>3, <1>4
  <2>3. CASE silence'[p] = 0 /\ net'[p] = {}
    BY <1>3, <1>4, <2>1, <2>3
  <2>4. CASE silence'[p] = 0 /\ net'[p] # {}
    <3>1. PICK m \in net'[p] : TRUE
      BY <2>4
    <3>2. m.age \in 0 .. Delay
      BY <2>1, <2>2, <3>1
    <3>3. 0 <= m.age + (Patience - Delay - 1)
      BY <3>2
    <3> QED
      BY <1>4, <2>4, <3>1, <3>3
  <2>5. CASE silence'[p] = silence[p] /\ in = {}
    BY <1>2, <1>4, <2>1, <2>5
  <2>6. CASE ended'[p] # "no"
    BY <1>1, <1>4, <2>6 DEF Running
  <2> QED
    BY <2>3, <2>4, <2>5, <2>6
<1>5. CASE q = Other(p)
  <2>1. net'[q] = net[q] \cup {Fresh(m) : m \in out}
    BY <1>5 DEF Exchange, IInv, TypeOK
  <2>2. silence'[q] = silence[q]
    BY <1>5
  <2>3. CASE out = {}
    <3>1. net'[q] = net[q] /\ sentAgo' = sentAgo
      BY <2>1, <2>3 DEF Exchange
    <3> QED
      BY <1>2, <2>2, <3>1
  <2>4. CASE out # {} /\ net[q] = {}
    <3>1. PICK m \in out : TRUE
      BY <2>4
    <3>2. Fresh(m) \in net'[q] /\ Fresh(m).age = 0
      BY <1>3, <2>1, <3>1
    <3>3. sentAgo[Other(q)] < Patience - Delay
      BY <1>1 DEF IInv, PausesAreKnown, Exchange
    <3>4. silence'[q] <= Fresh(m).age + (Patience - Delay - 1)
      BY <1>2, <1>3, <2>2, <2>4, <3>2, <3>3
    <3> QED
      BY <3>2, <3>4
  <2>5. CASE net[q] # {}
    <3>1. PICK m \in net[q] : silence[q] <= m.age + (Patience - Delay - 1)
      BY <1>2, <2>5
    <3> QED
      BY <2>1, <2>2, <3>1
  <2> QED
    BY <2>3, <2>4, <2>5
<1> QED
  BY <1>4, <1>5

-----------------------------------------------------------------------------
(***************************************************************************)
(* The clock.  A step starts it again, stops it or, when it is due, calls  *)
(* udp_send_ka.                                                            *)
(***************************************************************************)
Touched(p) ==
  silence'[p] = 0 /\ kas'[p] = 0 /\ threshold'[p] = 0 /\ left'[p] = Interval

Frozen(p) ==
  /\ UNCHANGED <<silence[p], kas[p], threshold[p], left[p]>>
  /\ ended'[p] = "no" => ended[p] = "no"

Called(p) ==
  /\ Due(p) /\ silence'[p] = silence[p]
  /\ kas'[p] = IF kas[p] <= KaMiss THEN kas[p] + 1 ELSE kas[p]
  /\ ended'[p] = "no" =>
       /\ left'[p] = Interval
       /\ threshold'[p] = IF events THEN threshold[p] ELSE threshold[p] + 1

LEMMA ClockKept ==
  ASSUME IInv, TypeOK', events' = events,
         \A p \in Peers : Touched(p) \/ Frozen(p) \/ Called(p)
  PROVE  ClockReadsSilence' /\ KeepAlivesCountIntervals'
<1> DEFINE Reads(p) ==
             Running(p) => silence[p] = IF kas[p] <= KaMiss
                                        THEN kas[p] * Interval + (Interval - left[p])
                                        ELSE Patience
           Counts(p) ==
             /\ silence[p] \in kas[p] * Interval .. (kas[p] + 1) * Interval
             /\ Running(p) => threshold[p] = IF events THEN 0 ELSE kas[p]
<1> SUFFICES ASSUME NEW p \in Peers PROVE Reads(p)' /\ Counts(p)'
  BY DEF ClockReadsSilence, KeepAlivesCountIntervals
<1>1. Reads(p) /\ Counts(p)
  BY DEF IInv, ClockReadsSilence, KeepAlivesCountIntervals
<1>2. /\ kas[p] \in 0 .. KaMiss + 1 /\ silence[p] \in 0 .. Patience
      /\ left[p] \in 0 .. Interval /\ threshold[p] \in 0 .. KaMiss
      /\ Interval \in Nat /\ KaMiss \in Nat /\ Patience \in Nat
  BY ClockAssumption, PatienceIsNatural DEF IInv, TypeOK
<1>3. CASE Touched(p)
  <2>1. 0 * Interval = 0 /\ (0 + 1) * Interval = Interval
    BY <1>2
  <2> QED
    BY <1>2, <1>3, <2>1 DEF Touched
<1>4. CASE Frozen(p)
  BY <1>1, <1>4 DEF Frozen, Running
<1>5. CASE Called(p)
  <2>0. Running(p) /\ left[p] = 0
    BY <1>5 DEF Called, Due
  <2>1. CASE kas[p] <= KaMiss
    <3>1. kas'[p] = kas[p] + 1 /\ kas'[p] \in 0 .. KaMiss + 1
      BY <1>2, <1>5, <2>1 DEF Called
    <3>2. silence'[p] = kas'[p] * Interval
      <4>1. silence[p] = kas[p] * Interval + Interval
        <5>1. kas[p] * Interval \in Nat
          BY <1>2, Products
        <5> QED
          BY <1>1, <1>2, <2>0, <2>1, <5>1
      <4>2. (kas[p] + 1) * Interval = kas[p] * Interval + Interval
        BY <1>2, Products
      <4> QED
        BY <1>5, <3>1, <4>1, <4>2 DEF Called
    <3>3. /\ kas'[p] * Interval \in Nat
          /\ (kas'[p] + 1) * Interval = kas'[p] * Interval + Interval
          /\ kas'[p] = KaMiss + 1 => kas'[p] * Interval = Patience
      BY <3>1, Products
    <3>4. Reads(p)'
      <4>1. CASE ended'[p] = "no"
        <5>1. left'[p] = Interval
          BY <1>5, <4>1 DEF Called
        <5>2. kas'[p] * Interval + (Interval - Interval) = kas'[p] * Interval
          BY <1>2, <3>3
        <5>3. ~(kas'[p] <= KaMiss) => kas'[p] = KaMiss + 1
          BY <1>2, <3>1
        <5> QED
          BY <3>2, <3>3, <5>1, <5>2, <5>3
      <4>2. CASE ended'[p] # "no"
        BY <4>2 DEF Running
      <4> QED
        BY <4>1, <4>2
    <3>5. silence'[p] \in kas'[p] * Interval .. (kas'[p] + 1) * Interval
      BY <1>2, <3>2, <3>3
    <3>6. Running(p)' => threshold'[p] = IF events' THEN 0 ELSE kas'[p]
      BY <1>1, <1>5, <2>0, <3>1 DEF Called, Running
    <3> QED
      BY <3>4, <3>5, <3>6
  <2>2. CASE ~(kas[p] <= KaMiss)
    <3>1. kas'[p] = kas[p] /\ silence'[p] = silence[p] /\ silence[p] = Patience
      BY <1>1, <1>5, <2>0, <2>2 DEF Called
    <3>2. Running(p)' => threshold'[p] = IF events' THEN 0 ELSE kas'[p]
      <4>1. events
        BY <1>1, <1>2, <2>0, <2>2
      <4> QED
        BY <1>1, <1>5, <2>0, <4>1 DEF Called, Running
    <3> QED
      BY <1>1, <2>2, <3>1, <3>2
  <2> QED
    BY <2>1, <2>2
<1> QED
  BY <1>3, <1>4, <1>5

-----------------------------------------------------------------------------
LEMMA InputIInv ==
  ASSUME IInv, NEW p \in Peers, Input(p)
  PROVE  IInv'
<1> USE ClockAssumption, PatienceIsNatural DEF Input, Exchange, Touch, Fresh, Running
<1>1. TypeOK'
  BY DEF IInv, TypeOK, Msgs
<1>2. ClockReadsSilence' /\ KeepAlivesCountIntervals'
  <2>1. \A q \in Peers : Touched(q) \/ Frozen(q)
    BY DEF IInv, TypeOK, Touched, Frozen
  <2> QED
    BY <1>1, <2>1, ClockKept
<1>3. PausesAreKnown'
  BY DEF IInv, TypeOK, Msgs, PausesAreKnown
<1>4. SilenceExplained'
  <2>1. /\ silence'[p] = 0 /\ silence'[Other(p)] = silence[Other(p)] /\ ended' = ended
        /\ Exchange(p, {}, {"data"})
    BY DEF IInv, TypeOK
  <2>2. {"data"} \in SUBSET {"data", "02"} /\ {} = {}
    OBVIOUS
  <2>3. \A q \in Peers : ended'[q] = "no" => ended[q] = "no"
    BY <2>1
  <2> HIDE DEF Exchange, Running
  <2> QED
    BY <2>1, <2>2, <2>3, ExchangeExplained
<1>5. DropsOnlyPausedPeer'
  BY DEF IInv, TypeOK, Msgs, DropsOnlyPausedPeer
<1> QED
  BY <1>1, <1>2, <1>3, <1>4, <1>5 DEF IInv

LEMMA InputEndsIInv ==
  ASSUME IInv, NEW p \in Peers, InputEnds(p)
  PROVE  IInv'
<1> USE ClockAssumption, PatienceIsNatural DEF InputEnds, Exchange, Stop, Fresh, Running
<1>1. TypeOK'
  BY DEF IInv, TypeOK, Msgs
<1>2. ClockReadsSilence' /\ KeepAlivesCountIntervals'
  <2>1. \A q \in Peers : Frozen(q)
    BY DEF IInv, TypeOK, Frozen
  <2> QED
    BY <1>1, <2>1, ClockKept
<1>3. PausesAreKnown'
  BY DEF IInv, TypeOK, Msgs, PausesAreKnown
<1>4. SilenceExplained'
  <2>1. /\ silence' = silence /\ ended' = [ended EXCEPT ![p] = "local"]
        /\ Exchange(p, {}, {"02"})
    BY DEF IInv, TypeOK
  <2>2. \A q \in Peers : ended'[q] = "no" => ended[q] = "no"
    BY <2>1 DEF IInv, TypeOK
  <2>3. {"02"} \in SUBSET {"data", "02"} /\ {"data", "02"} \in SUBSET {"data", "02"}
    OBVIOUS
  <2> HIDE DEF Exchange, Running
  <2> QED
    BY <2>1, <2>2, <2>3, ExchangeExplained
<1>5. DropsOnlyPausedPeer'
  BY DEF IInv, TypeOK, Msgs, DropsOnlyPausedPeer
<1> QED
  BY <1>1, <1>2, <1>3, <1>4, <1>5 DEF IInv

LEMMA ReceiveIInv ==
  ASSUME IInv, NEW p \in Peers, NEW m, Receive(p, m)
  PROVE  IInv'
<1> USE ClockAssumption, PatienceIsNatural DEF Receive, Exchange, Touch, Fresh, Running
<1>1. TypeOK'
  BY DEF IInv, TypeOK, Msgs
<1>2. ClockReadsSilence' /\ KeepAlivesCountIntervals'
  <2>1. \A q \in Peers : Touched(q) \/ Frozen(q)
    BY DEF IInv, TypeOK, Touched, Frozen
  <2> QED
    BY <1>1, <2>1, ClockKept
<1>3. PausesAreKnown'
  BY DEF IInv, TypeOK, Msgs, PausesAreKnown
<1>4. SilenceExplained'
  <2>1. PICK out \in {{}, {"data"}} : Exchange(p, {m}, out)
    OBVIOUS
  <2>2. silence'[p] = 0 /\ silence'[Other(p)] = silence[Other(p)] /\ ended' = ended
    BY DEF IInv, TypeOK
  <2> QED
    BY <2>1, <2>2, ExchangeExplained
<1>5. DropsOnlyPausedPeer'
  BY DEF IInv, TypeOK, Msgs, DropsOnlyPausedPeer
<1> QED
  BY <1>1, <1>2, <1>3, <1>4, <1>5 DEF IInv

LEMMA ReceiveEndIInv ==
  ASSUME IInv, NEW p \in Peers, NEW m, ReceiveEnd(p, m)
  PROVE  IInv'
<1> USE ClockAssumption, PatienceIsNatural DEF ReceiveEnd, Exchange, Stop, Fresh, Running
<1>1. TypeOK'
  BY DEF IInv, TypeOK, Msgs
<1>2. ClockReadsSilence' /\ KeepAlivesCountIntervals'
  <2>1. \A q \in Peers : Frozen(q)
    BY DEF IInv, TypeOK, Frozen
  <2> QED
    BY <1>1, <2>1, ClockKept
<1>3. PausesAreKnown'
  BY DEF IInv, TypeOK, Msgs, PausesAreKnown
<1>4. SilenceExplained'
  BY DEF IInv, TypeOK, Msgs, PausesAreKnown, SilenceExplained
<1>5. DropsOnlyPausedPeer'
  BY DEF IInv, TypeOK, Msgs, DropsOnlyPausedPeer
<1> QED
  BY <1>1, <1>2, <1>3, <1>4, <1>5 DEF IInv

LEMMA KeepAliveSentIInv ==
  ASSUME IInv, NEW p \in Peers, KeepAliveSent(p)
  PROVE  IInv'
<1> USE ClockAssumption, PatienceIsNatural DEF KeepAliveSent, SendKa, Exchange, Due, Count, Fresh, Running
<1>1. TypeOK'
  BY DEF IInv, TypeOK, Msgs
<1>2. ClockReadsSilence' /\ KeepAlivesCountIntervals'
  <2>1. \A q \in Peers : Called(q) \/ Frozen(q)
    BY DEF IInv, TypeOK, Called, Frozen
  <2> QED
    BY <1>1, <2>1, ClockKept
<1>3. PausesAreKnown'
  BY DEF IInv, TypeOK, Msgs, PausesAreKnown
<1>4. SilenceExplained'
  <2>1. /\ silence' = silence /\ ended' = ended
        /\ Exchange(p, {}, {"data"})
    BY DEF IInv, TypeOK
  <2>2. {"data"} \in SUBSET {"data", "02"} /\ {} = {}
    OBVIOUS
  <2>3. \A q \in Peers : ended'[q] = "no" => ended[q] = "no"
    BY <2>1
  <2> HIDE DEF Exchange, Running
  <2> QED
    BY <2>1, <2>2, <2>3, ExchangeExplained
<1>5. DropsOnlyPausedPeer'
  BY DEF IInv, TypeOK, Msgs, DropsOnlyPausedPeer
<1> QED
  BY <1>1, <1>2, <1>3, <1>4, <1>5 DEF IInv

LEMMA KeepAliveMissedIInv ==
  ASSUME IInv, NEW p \in Peers, KeepAliveMissed(p)
  PROVE  IInv'
<1> USE ClockAssumption, PatienceIsNatural DEF KeepAliveMissed, SendKa, Exchange, Stop, Due, Fresh, Running
<1>1. TypeOK'
  BY DEF IInv, TypeOK, Msgs
<1>2. ClockReadsSilence' /\ KeepAlivesCountIntervals'
  <2>1. \A q \in Peers : Called(q) \/ Frozen(q)
    BY DEF IInv, TypeOK, Called, Frozen
  <2> QED
    BY <1>1, <2>1, ClockKept
<1>3. PausesAreKnown'
  BY DEF IInv, TypeOK, Msgs, PausesAreKnown
<1>4. SilenceExplained'
  <2>1. /\ silence' = silence /\ ended' = [ended EXCEPT ![p] = "silence"]
        /\ Exchange(p, {}, {"data", "02"})
    BY DEF IInv, TypeOK
  <2>2. \A q \in Peers : ended'[q] = "no" => ended[q] = "no"
    BY <2>1 DEF IInv, TypeOK
  <2>3. {"02"} \in SUBSET {"data", "02"} /\ {"data", "02"} \in SUBSET {"data", "02"}
    OBVIOUS
  <2> HIDE DEF Exchange, Running
  <2> QED
    BY <2>1, <2>2, <2>3, ExchangeExplained
<1>5. DropsOnlyPausedPeer'
  \* p was silent for Patience: its peer had paused, or a loss made it seem so.
  <2>1. silence[p] = Patience
    <3>1. kas[p] = KaMiss /\ KaMiss * Interval \in Nat /\ KaMiss * Interval + Interval = Patience
      BY Products DEF IInv, KeepAlivesCountIntervals
    <3> QED
      BY <3>1 DEF IInv, ClockReadsSilence
  <2>2. lost \/ lax[Other(p)]
    <3> SUFFICES ASSUME ~lost, ~lax[Other(p)] PROVE FALSE
      OBVIOUS
    <3>1. \A m \in net[p] : m.age \in 0 .. Delay
      BY DEF IInv, TypeOK, Msgs
    <3>2. sentAgo[Other(p)] < Patience - Delay /\ sentAgo[Other(p)] \in Nat
      BY DEF IInv, TypeOK, PausesAreKnown
    <3> QED
      BY <2>1, <3>1, <3>2 DEF IInv, SilenceExplained
  <2> QED
    BY <2>2 DEF IInv, TypeOK, DropsOnlyPausedPeer
<1> QED
  BY <1>1, <1>2, <1>3, <1>4, <1>5 DEF IInv

LEMMA KeepAliveIgnoredIInv ==
  ASSUME IInv, NEW p \in Peers, KeepAliveIgnored(p)
  PROVE  IInv'
<1> USE ClockAssumption, PatienceIsNatural DEF KeepAliveIgnored, SendKa, Due, Running
<1>1. TypeOK'
  BY DEF IInv, TypeOK, Msgs
<1>2. ClockReadsSilence' /\ KeepAlivesCountIntervals'
  <2>1. \A q \in Peers : Called(q) \/ Frozen(q)
    BY DEF IInv, TypeOK, Called, Frozen
  <2> QED
    BY <1>1, <2>1, ClockKept
<1>3. PausesAreKnown'
  BY DEF IInv, TypeOK, Msgs, PausesAreKnown
<1>4. SilenceExplained'
  BY DEF IInv, TypeOK, Msgs, PausesAreKnown, SilenceExplained
<1>5. DropsOnlyPausedPeer'
  BY DEF IInv, TypeOK, Msgs, DropsOnlyPausedPeer
<1> QED
  BY <1>1, <1>2, <1>3, <1>4, <1>5 DEF IInv

LEMMA LoseIInv ==
  ASSUME IInv, NEW p \in Peers, Lose(p)
  PROVE  IInv'
<1> USE ClockAssumption, PatienceIsNatural DEF Lose, Running
<1>1. TypeOK'
  BY DEF IInv, TypeOK, Msgs
<1>2. ClockReadsSilence' /\ KeepAlivesCountIntervals'
  <2>1. \A q \in Peers : Frozen(q)
    BY DEF IInv, TypeOK, Frozen
  <2> QED
    BY <1>1, <2>1, ClockKept
<1>3. PausesAreKnown'
  BY DEF IInv, TypeOK, Msgs, PausesAreKnown
<1>4. SilenceExplained'
  BY DEF IInv, TypeOK, Msgs, PausesAreKnown, SilenceExplained
<1>5. DropsOnlyPausedPeer'
  BY DEF IInv, TypeOK, Msgs, DropsOnlyPausedPeer
<1> QED
  BY <1>1, <1>2, <1>3, <1>4, <1>5 DEF IInv

LEMMA CrashIInv ==
  ASSUME IInv, NEW p \in Peers, Crash(p)
  PROVE  IInv'
<1> USE ClockAssumption, PatienceIsNatural DEF Crash, Stop, Running
<1>1. TypeOK'
  BY DEF IInv, TypeOK, Msgs
<1>2. ClockReadsSilence' /\ KeepAlivesCountIntervals'
  <2>1. \A q \in Peers : Frozen(q)
    BY DEF IInv, TypeOK, Frozen
  <2> QED
    BY <1>1, <2>1, ClockKept
<1>3. PausesAreKnown'
  BY DEF IInv, TypeOK, Msgs, PausesAreKnown
<1>4. SilenceExplained'
  BY DEF IInv, TypeOK, Msgs, PausesAreKnown, SilenceExplained
<1>5. DropsOnlyPausedPeer'
  BY DEF IInv, TypeOK, Msgs, DropsOnlyPausedPeer
<1> QED
  BY <1>1, <1>2, <1>3, <1>4, <1>5 DEF IInv

LEMMA TickIInv ==
  ASSUME IInv, Tick
  PROVE  IInv'
<1> USE ClockAssumption, PatienceIsNatural DEF Tick, Later, Running
<1>0. /\ \A n \in 0 .. Patience : Later(n) \in 0 .. Patience /\ Later(n) >= n /\ Later(n) <= n + 1
      /\ \A a, b \in 0 .. Patience : a <= b => Later(a) <= Later(b)
  OBVIOUS
<1>1. TypeOK'
  <2>1. left' \in [Peers -> 0 .. Interval]
    BY DEF IInv, TypeOK
  <2>2. net' \in [Peers -> SUBSET Msgs]
    <3>1. ASSUME NEW p \in Peers, Running(p), NEW m \in net[p]
          PROVE  [m EXCEPT !.age = @ + 1] \in Msgs
      <4>1. m \in Msgs /\ m.age < Delay
        BY <3>1 DEF IInv, TypeOK
      <4>2. m.age + 1 \in 0 .. Delay
        BY <4>1 DEF Msgs
      <4> QED
        BY <4>1, <4>2 DEF Msgs
    <3> QED
      BY <3>1
  <2>3. silence' \in [Peers -> 0 .. Patience] /\ sentAgo' \in [Peers -> 0 .. Patience]
    BY <1>0 DEF IInv, TypeOK
  <2>4. lax' \in [Peers -> BOOLEAN]
    BY DEF IInv, TypeOK
  <2> QED
    BY <2>1, <2>2, <2>3, <2>4 DEF IInv, TypeOK
<1>2. ClockReadsSilence' /\ KeepAlivesCountIntervals'
  <2> SUFFICES ASSUME NEW p \in Peers
               PROVE  /\ Running(p)' => silence'[p] =
                           IF kas'[p] <= KaMiss
                           THEN kas'[p] * Interval + (Interval - left'[p]) ELSE Patience
                      /\ silence'[p] \in kas'[p] * Interval .. (kas'[p] + 1) * Interval
                      /\ Running(p)' => threshold'[p] = IF events' THEN 0 ELSE kas'[p]
    BY DEF ClockReadsSilence, KeepAlivesCountIntervals
  <2>1. /\ Running(p) => silence[p] =
             IF kas[p] <= KaMiss THEN kas[p] * Interval + (Interval - left[p]) ELSE Patience
        /\ silence[p] \in kas[p] * Interval .. (kas[p] + 1) * Interval
        /\ Running(p) => threshold[p] = IF events THEN 0 ELSE kas[p]
    BY DEF IInv, ClockReadsSilence, KeepAlivesCountIntervals
  <2>2. /\ kas'[p] = kas[p] /\ threshold'[p] = threshold[p] /\ ended'[p] = ended[p]
        /\ events' = events
    OBVIOUS
  <2>3. CASE ~Running(p)
    <3>1. silence'[p] = silence[p]
      BY <2>3
    <3> QED
      BY <2>1, <2>2, <2>3, <3>1
  <2>4. CASE Running(p) /\ kas[p] <= KaMiss
    <3>1. /\ left[p] \in 1 .. Interval /\ left'[p] = left[p] - 1
          /\ silence'[p] = Later(silence[p]) /\ kas[p] \in 0 .. KaMiss + 1
      BY <2>4 DEF IInv, TypeOK
    <3> DEFINE k == kas[p] * Interval
               n == (kas[p] + 1) * Interval
    <3>2. k \in Nat /\ n = k + Interval /\ k + Interval <= Patience
      BY <2>4, <3>1, Products
    <3>3. silence[p] = k + (Interval - left[p])
      BY <2>1, <2>4
    <3> HIDE DEF k, n
    <3>4. silence'[p] = k + (Interval - left'[p]) /\ silence'[p] \in k .. n
      BY <3>1, <3>2, <3>3
    <3> QED
      BY <2>1, <2>2, <2>4, <3>4 DEF k, n
  <2>5. CASE Running(p) /\ ~(kas[p] <= KaMiss)
    <3>1. silence[p] = Patience
      BY <2>1, <2>5
    <3>2. silence'[p] = Patience
      BY <2>5, <3>1
    <3> QED
      BY <2>1, <2>2, <2>5, <3>1, <3>2
  <2> QED
    BY <2>3, <2>4, <2>5
<1>3. PausesAreKnown'
  <2> SUFFICES ASSUME NEW p \in Peers, ~lax'[p] PROVE sentAgo'[p] < Patience - Delay
    BY DEF PausesAreKnown
  <2>1. ~(sentAgo'[p] >= Patience - Delay)
    BY DEF IInv, TypeOK
  <2>2. sentAgo'[p] \in 0 .. Patience
    BY <1>1 DEF TypeOK
  <2> QED
    BY <2>1, <2>2
<1>4. SilenceExplained'
  <2> SUFFICES ASSUME NEW p \in Peers, Running(p)', ~lost', ~lax'[Other(p)]
               PROVE  \/ net'[p] = {} /\ silence'[p] <= sentAgo'[Other(p)]
                      \/ \E m \in net'[p] : silence'[p] <= m.age + (Patience - Delay - 1)
    BY DEF SilenceExplained
  <2>1. ~lax[Other(p)] /\ Running(p) /\ ~lost
    BY DEF IInv, TypeOK
  <2>2. /\ silence'[p] = Later(silence[p]) /\ sentAgo'[Other(p)] = Later(sentAgo[Other(p)])
        /\ net'[p] = {[m EXCEPT !.age = @ + 1] : m \in net[p]}
        /\ silence[p] \in 0 .. Patience /\ sentAgo[Other(p)] \in 0 .. Patience
    BY <2>1 DEF IInv, TypeOK
  <2>3. CASE net[p] = {} /\ silence[p] <= sentAgo[Other(p)]
    BY <1>0, <2>2, <2>3
  <2>4. ASSUME NEW m \in net[p], silence[p] <= m.age + (Patience - Delay - 1)
        PROVE  \E n \in net'[p] : silence'[p] <= n.age + (Patience - Delay - 1)
    <3>1. m \in Msgs /\ m.age \in 0 .. Delay
      BY DEF IInv, TypeOK, Msgs
    <3>2. [m EXCEPT !.age = @ + 1] \in net'[p] /\ [m EXCEPT !.age = @ + 1].age = m.age + 1
      BY <2>2, <3>1 DEF Msgs
    <3>3. silence'[p] <= [m EXCEPT !.age = @ + 1].age + (Patience - Delay - 1)
      BY <1>0, <2>2, <2>4, <3>1, <3>2
    <3> QED
      BY <3>2, <3>3
  <2> QED
    BY <2>1, <2>3, <2>4 DEF IInv, SilenceExplained
<1>5. DropsOnlyPausedPeer'
  BY DEF IInv, TypeOK, DropsOnlyPausedPeer
<1> QED
  BY <1>1, <1>2, <1>3, <1>4, <1>5 DEF IInv

\* Every step keeps the inductive invariant.
LEMMA NextIInv == IInv /\ [Next]_vars => IInv'
<1> SUFFICES ASSUME IInv, [Next]_vars PROVE IInv'
  OBVIOUS
<1>1. CASE Tick
  BY <1>1, TickIInv
<1>2. ASSUME NEW p \in Peers, Step(p) PROVE IInv'
  <2>1. CASE UNCHANGED vars
    BY <2>1 DEF vars, IInv, TypeOK, ClockReadsSilence, KeepAlivesCountIntervals, PausesAreKnown,
       SilenceExplained, DropsOnlyPausedPeer, Running
  <2> QED
    BY <1>2, <2>1, InputIInv, InputEndsIInv, ReceiveIInv, ReceiveEndIInv,
       KeepAliveSentIInv, KeepAliveMissedIInv, KeepAliveIgnoredIInv, LoseIInv, CrashIInv
       DEF Step, Wake
<1>3. CASE UNCHANGED vars
  BY <1>3 DEF vars, IInv, TypeOK, ClockReadsSilence, KeepAlivesCountIntervals, PausesAreKnown,
     SilenceExplained, DropsOnlyPausedPeer, Running
<1> QED
  BY <1>1, <1>2, <1>3 DEF Next

\* The inductive invariant holds in every reachable state.
THEOREM Invariance == Spec => []IInv
BY InitIInv, NextIInv, PTL DEF Spec

(***************************************************************************)
(* A loop waits ka_miss_threshold + 1 intervals for a silent peer and no   *)
(* longer, whatever the network does.                                      *)
(***************************************************************************)
THEOREM SilenceIsBounded == Spec => []SilentPeerDropped
<1>1. IInv => SilentPeerDropped
  <2> SUFFICES ASSUME IInv, ~events, NEW p \in Peers, Running(p)
               PROVE  silence[p] < Patience \/ (silence[p] = Patience /\ Due(p))
    BY DEF SilentPeerDropped
  <2> DEFINE k == kas[p] * Interval
  <2>1. /\ kas[p] = threshold[p] /\ threshold[p] \in 0 .. KaMiss
        /\ left[p] \in 0 .. Interval
    BY DEF IInv, TypeOK, KeepAlivesCountIntervals
  <2>2. silence[p] = k + (Interval - left[p])
    BY <2>1, ClockAssumption DEF IInv, ClockReadsSilence
  <2>3. k \in Nat /\ k + Interval <= Patience
    BY <2>1, Products, ClockAssumption
  <2> HIDE DEF k
  <2> QED
    BY <2>1, <2>2, <2>3, ClockAssumption, PatienceIsNatural DEF Due
<1> QED
  BY <1>1, Invariance, PTL

(***************************************************************************)
(* Without losses, only a peer that has itself paused for nearly that long *)
(* is dropped.                                                             *)
(***************************************************************************)
THEOREM DropsArePauses == Spec => []DropsOnlyPausedPeer
<1>1. IInv => DropsOnlyPausedPeer
  BY DEF IInv
<1> QED
  BY <1>1, Invariance, PTL

(***************************************************************************)
(* udp_send_ka is called once for every whole interval without I/O, and    *)
(* chownat counts each of these calls.                                     *)
(***************************************************************************)
THEOREM KeepAlivesAreDue == Spec => []KeepAlivesCountIntervals
<1>1. IInv => KeepAlivesCountIntervals
  BY DEF IInv
<1> QED
  BY <1>1, Invariance, PTL
=============================================================================
