--------------------------- MODULE VirtioNetProofs ---------------------------
(* What holds of the network device for every set of offered features, ring   *)
(* sizes, backlog and number of frames.                                      *)
EXTENDS VirtioNet, SequenceTheorems, FiniteSetTheorems, TLAPS

(* Each part is kept by itself, given the types.                              *)
IInv == TypeOK /\ FeaturesHonest /\ FramesInOrder /\ RxNoticed /\ NoTxForgotten

Frame == 1..MaxFrames

-----------------------------------------------------------------------------
(* The chains that can be popped are the first ones of their queue.           *)
LEMMA PoppableBound ==
    ASSUME NEW chains \in Seq(Kind), NEW kinds
    PROVE  Poppable(chains, kinds) \in 0..Len(chains)
<1> DEFINE S == {n \in DOMAIN chains : \A i \in 1..n : chains[i] \in kinds}
<1>1. Len(chains) \in Nat /\ DOMAIN chains = 1..Len(chains)
  BY LenProperties
<1>2. IsFiniteSet(1..Len(chains)) /\ Cardinality(1..Len(chains)) = Len(chains)
  BY <1>1, FS_Interval
<1>3. S \in SUBSET (1..Len(chains))
  BY <1>1
<1>4. IsFiniteSet(S) /\ Cardinality(S) <= Len(chains)
  BY <1>2, <1>3, FS_Subset
<1>5. Cardinality(S) \in Nat
  BY <1>4, FS_CardinalityType
<1> QED BY <1>1, <1>4, <1>5 DEF Poppable

(* A sequence cut in two: both parts are sequences and make up the whole.     *)
LEMMA Cut ==
    ASSUME NEW S, NEW s \in Seq(S), NEW n \in 0..Len(s)
    PROVE  /\ SubSeq(s, 1, n) \in Seq(S) /\ SubSeq(s, n + 1, Len(s)) \in Seq(S)
           /\ Len(SubSeq(s, n + 1, Len(s))) <= Len(s)
           /\ SubSeq(s, 1, n) \o SubSeq(s, n + 1, Len(s)) = s
<1>1. Len(s) \in Nat /\ \A i \in 1..Len(s) : s[i] \in S
  BY LenProperties, ElementOfSeq
<1>2. SubSeq(s, 1, n) \in Seq(S)
  BY <1>1, SubSeqProperties
<1>3. /\ SubSeq(s, n + 1, Len(s)) \in Seq(S)
      /\ Len(SubSeq(s, n + 1, Len(s))) <= Len(s)
  <2>1. n + 1 \in Int /\ \A i \in (n + 1)..Len(s) : s[i] \in S
    BY <1>1
  <2>2. /\ SubSeq(s, n + 1, Len(s)) \in Seq(S)
        /\ Len(SubSeq(s, n + 1, Len(s)))
              = IF n + 1 <= Len(s) THEN Len(s) - (n + 1) + 1 ELSE 0
    BY <1>1, <2>1, SubSeqProperties
  <2> QED BY <1>1, <2>2
<1>4. SubSeq(s, 1, n) \o SubSeq(s, n + 1, Len(s)) = SubSeq(s, 1, Len(s))
  <2>1. 1 \in 1..(Len(s) + 1) /\ n \in (1 - 1)..Len(s) /\ Len(s) \in n..Len(s)
    BY <1>1
  <2> QED BY <2>1, ConcatAdjacentSubSeq
<1>5. SubSeq(s, 1, Len(s)) = s
  BY SubSeqFull
<1> QED BY <1>2, <1>3, <1>4, <1>5

(* Concatenation of frame sequences is associative.                           *)
LEMMA FramesAssociative ==
    \A s, t, u \in Seq(Frame) : (s \o t) \o u = s \o (t \o u)
  BY ConcatAssociative

(* The queues are two.                                                       *)
LEMMA TwoQueues ==
    ASSUME QueuesAssumption
    PROVE  Queue = {TX, RX} /\ TX # RX
  BY DEF QueuesAssumption, Queue, TX, RX

(* pumpRx moves frames from the backlog to used buffers in their order, and   *)
(* tells of it.                                                              *)
LEMMA Pumped ==
    ASSUME QueuesAssumption, TypeOK, NEW pending \in Seq(Frame), PumpRx(pending),
           polling' = polling
    PROVE  /\ rxUsed' \in Seq(Frame) /\ rxQueue' \in Seq(Frame)
           /\ Len(rxQueue') <= Len(pending)
           /\ rxUsed' \o rxQueue' = rxUsed \o pending
           /\ avail' \in [Queue -> Seq(Kind)] /\ avail'[TX] = avail[TX]
           /\ hushed' \in BOOLEAN /\ isr' \in BOOLEAN
           /\ RxNoticed => RxNoticed'
<1> DEFINE n == IF RX \in enabled
                THEN Least(Len(pending), Poppable(avail[RX], {"ok"})) ELSE 0
<1>1. /\ rxUsed \in Seq(Frame) /\ avail \in [Queue -> Seq(Kind)] /\ avail[RX] \in Seq(Kind)
      /\ {isr, hushed, polling} \subseteq BOOLEAN /\ RX \in Queue /\ TX # RX
  BY TwoQueues DEF TypeOK, PciTypeOK, Frame
<1>2. n \in 0..Len(pending) /\ n \in 0..Len(avail[RX])
  <2>1. Len(pending) \in Nat /\ Len(avail[RX]) \in Nat
    BY <1>1, LenProperties
  <2>2. Poppable(avail[RX], {"ok"}) \in 0..Len(avail[RX])
    BY <1>1, PoppableBound
  <2> QED BY <2>1, <2>2 DEF Least
<1>3. /\ rxQueue' = SubSeq(pending, n + 1, Len(pending))
      /\ rxUsed' = rxUsed \o SubSeq(pending, 1, n)
      /\ avail' = [avail EXCEPT ![RX] = SubSeq(@, n + 1, Len(@))]
      /\ hushed' = (hushed \/ (n # 0 /\ EventIdxNegotiated))
      /\ IF n = 0 THEN isr' = isr ELSE \E notify \in MayNotify : isr' = (isr \/ notify)
  BY DEF PumpRx
<1> HIDE DEF n
<1>4. /\ SubSeq(pending, 1, n) \in Seq(Frame) /\ rxQueue' \in Seq(Frame)
      /\ Len(rxQueue') <= Len(pending)
      /\ SubSeq(pending, 1, n) \o rxQueue' = pending
  BY <1>2, <1>3, Cut
<1>5. rxUsed' \in Seq(Frame)
  BY <1>1, <1>3, <1>4, ConcatProperties
<1>6. rxUsed' \o rxQueue' = rxUsed \o pending
  <2>1. (rxUsed \o SubSeq(pending, 1, n)) \o rxQueue'
           = rxUsed \o (SubSeq(pending, 1, n) \o rxQueue')
    BY <1>1, <1>4, FramesAssociative
  <2> QED BY <1>3, <1>4, <2>1
<1>7. avail' \in [Queue -> Seq(Kind)] /\ avail'[TX] = avail[TX]
  <2>1. SubSeq(avail[RX], n + 1, Len(avail[RX])) \in Seq(Kind)
    BY <1>1, <1>2, Cut
  <2> QED BY <1>1, <1>3, <2>1
<1>8. hushed' \in BOOLEAN /\ isr' \in BOOLEAN
  BY <1>1, <1>3 DEF MayNotify
<1>9. ASSUME RxNoticed PROVE RxNoticed'
  <2>1. CASE n = 0
    <3>1. SubSeq(pending, 1, n) = << >>
      BY <2>1, SubSeqEmpty
    <3>2. rxUsed' = rxUsed
      BY <1>1, <1>3, <3>1, ConcatEmptySeq
    <3> QED BY <1>3, <1>9, <2>1, <3>2 DEF RxNoticed
  <2>2. CASE n # 0 /\ EventIdxNegotiated
    BY <1>3, <2>2 DEF RxNoticed
  <2>3. CASE n # 0 /\ ~EventIdxNegotiated
    <3>1. isr' = (isr \/ ~polling)
      BY <1>3, <2>3 DEF MayNotify
    <3> QED BY <1>1, <3>1 DEF RxNoticed
  <2> QED BY <2>1, <2>2, <2>3
<1> QED BY <1>4, <1>5, <1>6, <1>7, <1>8, <1>9

-----------------------------------------------------------------------------
(* The history of frames keeps its form when the backlog is pumped.           *)
LEMMA PumpedInOrder ==
    ASSUME NEW pending \in Seq(Frame), got \in Seq(Frame), rxUsed \in Seq(Frame),
           rxUsed' \in Seq(Frame), rxQueue' \in Seq(Frame), got' = got,
           rxUsed' \o rxQueue' = rxUsed \o pending
    PROVE  got' \o rxUsed' \o rxQueue' = got \o rxUsed \o pending
<1>1. (got \o rxUsed') \o rxQueue' = got \o (rxUsed' \o rxQueue')
  BY FramesAssociative
<1>2. (got \o rxUsed) \o pending = got \o (rxUsed \o pending)
  BY FramesAssociative
<1> QED BY <1>1, <1>2

(* One more frame, at the end of what is numbered from 1 on.                  *)
LEMMA OneMore ==
    ASSUME NEW k \in Nat, NEW s \in Seq(Frame), NEW t \in Seq(Frame), k + 1 \in Frame,
           s \o t = [i \in 1..k |-> i]
    PROVE  s \o Append(t, k + 1) = [i \in 1..(k + 1) |-> i]
<1> DEFINE u == s \o t
<1>1. u \in Seq(Frame) /\ Append(t, k + 1) \in Seq(Frame)
  BY ConcatProperties, AppendProperties
<1>2. Len(u) = k
  <2>1. DOMAIN u = 1..k /\ DOMAIN u = 1..Len(u) /\ Len(u) \in Nat
    BY <1>1, LenProperties
  <2> QED BY <2>1
<1>3. s \o Append(t, k + 1) = Append(u, k + 1)
  <2>1. Append(t, k + 1) = t \o <<k + 1>> /\ Append(u, k + 1) = u \o <<k + 1>>
    BY <1>1, AppendIsConcat
  <2>2. <<k + 1>> \in Seq(Frame)
    OBVIOUS
  <2>3. (s \o t) \o <<k + 1>> = s \o (t \o <<k + 1>>)
    BY <2>2, FramesAssociative
  <2> QED BY <2>1, <2>3
<1>4. /\ Append(u, k + 1) \in Seq(Frame) /\ Len(Append(u, k + 1)) = k + 1
      /\ \A i \in 1..k : Append(u, k + 1)[i] = i
      /\ Append(u, k + 1)[k + 1] = k + 1
  <2>1. \A i \in 1..k : u[i] = i
    OBVIOUS
  <2> HIDE DEF u
  <2> QED BY <1>1, <1>2, <2>1, AppendProperties
<1>5. Append(u, k + 1) \in [1..(k + 1) -> Frame]
  BY <1>4, LenProperties
<1>6. \A i \in 1..(k + 1) : Append(u, k + 1)[i] = i
  BY <1>4
<1> QED BY <1>3, <1>5, <1>6
-----------------------------------------------------------------------------
(* Negotiation keeps FEATURES_OK honest, and leaves queues and ISR alone.      *)
LEMMA NegotiateStep ==
    ASSUME QueuesAssumption, PciTypeOK, FeaturesHonest, Negotiate
    PROVE  /\ PciTypeOK' /\ FeaturesHonest'
           /\ enabled' = enabled /\ isr' = isr
<1>1. ASSUME NEW val \in 1..2, WriteDriverFeatureSelect(val)
      PROVE  PciTypeOK' /\ FeaturesHonest' /\ enabled' = enabled /\ isr' = isr
  <2>1. driverFeatureSelect' \in {0, 1}
    BY <1>1 DEF WriteDriverFeatureSelect
  <2> QED BY <1>1, <2>1 DEF WriteDriverFeatureSelect, PciTypeOK, FeaturesHonest
<1>2. ASSUME NEW word \in {LowWord, HighWord}, NEW features \in Writable(word),
             SetFeatures(word, features)
      PROVE  PciTypeOK' /\ FeaturesHonest' /\ enabled' = enabled /\ isr' = isr
  <2>1. features \subseteq Feature
    BY <1>2 DEF Writable, Feature
  <2>2. /\ PciTypeOK' /\ enabled' = enabled /\ isr' = isr
        /\ late' = ("FEATURES_OK" \in deviceStatus) /\ deviceStatus' = deviceStatus
    BY <1>2, <2>1 DEF SetFeatures, PciTypeOK
  <2> QED BY <2>2 DEF FeaturesHonest
<1>3. ASSUME NEW status \in {{"DRIVER"}, Status}, SetDeviceStatus(status)
      PROVE  PciTypeOK' /\ FeaturesHonest' /\ enabled' = enabled /\ isr' = isr
  <2>1. PciTypeOK' /\ enabled' = enabled /\ isr' = isr
    BY <1>3 DEF SetDeviceStatus, PciTypeOK, Status
  <2>2. ASSUME "FEATURES_OK" \in deviceStatus', ~late'
        PROVE  Acceptable(driverFeatures)
    <3>1. CASE "FEATURES_OK" \in deviceStatus
      BY <1>3, <2>2, <3>1 DEF SetDeviceStatus, FeaturesHonest, Acceptable
    <3>2. CASE "FEATURES_OK" \notin deviceStatus
      BY <1>3, <2>2, <3>2 DEF SetDeviceStatus
    <3> QED BY <3>1, <3>2
  <2>3. driverFeatures' = driverFeatures
    BY <1>3 DEF SetDeviceStatus
  <2> QED BY <2>1, <2>2, <2>3 DEF FeaturesHonest, Acceptable
<1>4. ASSUME NEW val \in 0..NumQueues, WriteQueueSelect(val)
      PROVE  PciTypeOK' /\ FeaturesHonest' /\ enabled' = enabled /\ isr' = isr
  <2>1. selectedQueueIdx' \in Queue
    BY <1>4 DEF WriteQueueSelect, Queue, QueuesAssumption
  <2> QED BY <1>4, <2>1 DEF WriteQueueSelect, negotiationVars, PciTypeOK, FeaturesHonest
<1> QED BY <1>1, <1>2, <1>3, <1>4 DEF Negotiate, WriteDriverFeature, WriteLegacyFeatures

(* What onQueueNotify does to each queue, and that nothing poppable is left.   *)
LEMMA NotifyStep ==
    ASSUME QueuesAssumption, IInv, NEW q \in Queue, OnQueueNotify(q),
           got' = got, polling' = polling
    PROVE  /\ rxUsed' \in Seq(Frame) /\ rxQueue' \in Seq(Frame)
           /\ Len(rxQueue') <= Len(rxQueue)
           /\ got' \o rxUsed' \o rxQueue' = got \o rxUsed \o rxQueue
           /\ avail' \in [Queue -> Seq(Kind)]
           /\ hushed' \in BOOLEAN /\ isr' \in BOOLEAN /\ threw' \in BOOLEAN
           /\ RxNoticed'
           /\ q = TX /\ TX \in enabled => avail'[TX] = << >> \/ threw'
           /\ q = RX => avail'[TX] = avail[TX] /\ threw' = threw
<1>1. /\ rxUsed \in Seq(Frame) /\ rxQueue \in Seq(Frame) /\ got \in Seq(Frame)
      /\ avail \in [Queue -> Seq(Kind)] /\ avail[TX] \in Seq(Kind)
      /\ {hushed, isr, threw} \subseteq BOOLEAN /\ RxNoticed
      /\ Queue = {TX, RX} /\ TX # RX
  BY TwoQueues DEF IInv, TypeOK, PciTypeOK, Frame
<1>2. Len(rxQueue) \in Nat
  BY <1>1, LenProperties
<1>3. CASE ~NotifyQueue(q)
  BY <1>1, <1>2, <1>3 DEF OnQueueNotify, RxNoticed, NotifyQueue
<1>4. CASE NotifyQueue(q) /\ q = TX
  <2> DEFINE n    == Poppable(avail[TX], {"ok"})
             gone == IF n < Len(avail[TX]) /\ avail[TX][n + 1] = "huge" THEN n + 1 ELSE n
  <2>1. NotifyTx
    BY <1>4 DEF OnQueueNotify
  <2>2. /\ threw' = (n < Len(avail[TX]) /\ gone < Len(avail[TX]))
        /\ avail' = [avail EXCEPT ![TX] = SubSeq(@, gone + 1, Len(@))]
        /\ UNCHANGED <<rxQueue, rxUsed, isr, hushed>>
    BY <2>1 DEF NotifyTx
  <2>3. Len(avail[TX]) \in Nat /\ n \in 0..Len(avail[TX])
    BY <1>1, PoppableBound, LenProperties
  <2>4. gone \in 0..Len(avail[TX]) /\ n <= gone
    BY <2>3
  <2> HIDE DEF n, gone
  <2>5. SubSeq(avail[TX], gone + 1, Len(avail[TX])) \in Seq(Kind)
    BY <1>1, <2>4, Cut
  <2>6. avail' \in [Queue -> Seq(Kind)] /\ threw' \in BOOLEAN
    BY <1>1, <2>2, <2>5
  <2>7. avail'[TX] = << >> \/ threw'
    <3>1. CASE gone < Len(avail[TX])
      <4>1. n < Len(avail[TX])
        BY <2>3, <2>4, <3>1
      <4> QED BY <2>2, <3>1, <4>1
    <3>2. CASE gone = Len(avail[TX])
      <4>1. SubSeq(avail[TX], gone + 1, Len(avail[TX])) = << >>
        BY <2>3, <3>2, SubSeqEmpty
      <4> QED BY <1>1, <2>2, <4>1
    <3> QED BY <2>3, <2>4, <3>1, <3>2
  <2> QED BY <1>1, <1>2, <1>4, <2>2, <2>6, <2>7 DEF RxNoticed
<1>5. CASE NotifyQueue(q) /\ q = RX
  <2>1. PumpRx(rxQueue) /\ threw' = threw
    BY <1>1, <1>5 DEF OnQueueNotify, NotifyRx
  <2>2. /\ rxUsed' \in Seq(Frame) /\ rxQueue' \in Seq(Frame)
        /\ Len(rxQueue') <= Len(rxQueue)
        /\ rxUsed' \o rxQueue' = rxUsed \o rxQueue
        /\ avail' \in [Queue -> Seq(Kind)] /\ avail'[TX] = avail[TX]
        /\ hushed' \in BOOLEAN /\ isr' \in BOOLEAN
        /\ RxNoticed'
    BY <1>1, <2>1, Pumped DEF IInv
  <2>3. got' \o rxUsed' \o rxQueue' = got \o rxUsed \o rxQueue
    BY <1>1, <2>2, PumpedInOrder
  <2> QED BY <1>1, <1>5, <2>1, <2>2, <2>3
<1> QED BY <1>1, <1>3, <1>4, <1>5
-----------------------------------------------------------------------------
(* The initial state.                                                        *)
LEMMA Initially ==
    ASSUME QueuesAssumption, SizeAssumption, Init
    PROVE  IInv
<1>1. Queue = {TX, RX} /\ 0 \in Queue
  BY TwoQueues DEF TX, RX
<1>2. MaxFrames \in Nat /\ MaxPending \in Nat
  BY DEF SizeAssumption
<1>3. << >> \in Seq(Kind) /\ << >> \in Seq(Frame) /\ Len(rxQueue) = 0
  BY EmptySeq DEF Init
<1>4. TypeOK
  BY <1>1, <1>2, <1>3 DEF Init, PciInit, TypeOK, PciTypeOK, Frame
<1>5. FramesInOrder
  <2>1. << >> \o << >> \o << >> = << >>
    BY <1>3, ConcatEmptySeq
  <2>2. [i \in 1..0 |-> i] = << >>
    OBVIOUS
  <2> QED BY <2>1, <2>2 DEF Init, FramesInOrder
<1>6. FeaturesHonest /\ RxNoticed /\ NoTxForgotten
  BY DEF Init, PciInit, FeaturesHonest, RxNoticed, NoTxForgotten
<1> QED BY <1>4, <1>5, <1>6 DEF IInv

(* Every step keeps the invariant.                                           *)
LEMMA Inductive ==
    ASSUME QueuesAssumption, SizeAssumption, IInv, [Next]_vars
    PROVE  IInv'
<1> USE DEF IInv
<1>1. /\ rxUsed \in Seq(Frame) /\ rxQueue \in Seq(Frame) /\ got \in Seq(Frame)
      /\ avail \in [Queue -> Seq(Kind)] /\ avail[TX] \in Seq(Kind) /\ avail[RX] \in Seq(Kind)
      /\ Queue = {TX, RX} /\ TX # RX /\ 0 \in Queue
      /\ MaxFrames \in Nat /\ MaxPending \in Nat
  BY TwoQueues DEF TypeOK, Frame, SizeAssumption, TX, RX
<1>2. Len(rxQueue) \in Nat /\ Len(rxQueue) <= MaxPending
  BY <1>1, LenProperties DEF TypeOK
<1>3. CASE Configure
  <2>1. PciTypeOK' /\ FeaturesHonest' /\ enabled' = enabled /\ isr' = isr
    BY <1>3, NegotiateStep DEF Configure, TypeOK
  <2> QED BY <1>3, <2>1 DEF Configure, netVars, TypeOK, FramesInOrder, RxNoticed, NoTxForgotten
<1>4. CASE EnableQueue
  <2>1. /\ enabled' \subseteq Queue /\ UNCHANGED <<negotiationVars, selectedQueueIdx, isr>>
    BY <1>4 DEF EnableQueue, WriteQueueEnable, WriteLegacyPfn, SetEnabled, TypeOK, PciTypeOK
  <2>2. kick' = kick \cup {q \in enabled' \ enabled : avail[q] # << >>}
        /\ UNCHANGED <<rxQueue, avail, rxUsed, got, polling, accepted, hushed, threw>>
    BY <1>4 DEF EnableQueue
  <2>3. TypeOK' /\ FeaturesHonest' /\ FramesInOrder' /\ RxNoticed'
    BY <2>1, <2>2
       DEF negotiationVars, TypeOK, PciTypeOK, FeaturesHonest, FramesInOrder, RxNoticed
  <2>4. NoTxForgotten'
    BY <2>2 DEF NoTxForgotten
  <2> QED BY <2>3, <2>4
<1>5. CASE Restart
  <2>1. UNCHANGED driverFeatureSelect /\ deviceStatus' = {} /\ driverFeatures' = {}
        /\ late' = FALSE /\ selectedQueueIdx' = 0 /\ enabled' = {} /\ isr' = FALSE
        /\ rxQueue' = << >> /\ avail' = [q \in Queue |-> << >>] /\ rxUsed' = << >>
        /\ kick' = {} /\ got' = << >> /\ polling' = FALSE
        /\ accepted' = 0 /\ hushed' = FALSE /\ threw' = FALSE
    BY <1>5 DEF Restart, NetReset, Reset
  <2>2. << >> \in Seq(Kind) /\ << >> \in Seq(Frame) /\ Len(rxQueue') = 0
    BY <2>1, EmptySeq
  <2>3. TypeOK'
    <3>1. PciTypeOK'
      BY <1>1, <2>1 DEF TypeOK, PciTypeOK
    <3>2. avail' \in [Queue -> Seq(Kind)] /\ Len(rxQueue') <= MaxPending
      BY <1>1, <2>1, <2>2
    <3>3. {rxQueue', rxUsed', got'} \subseteq Seq(1..MaxFrames)
      BY <2>1, <2>2 DEF Frame
    <3>4. accepted' \in 0..MaxFrames
      BY <1>1, <2>1
    <3>5. kick' \subseteq Queue
      BY <2>1
    <3>6. {polling', hushed', threw'} \subseteq BOOLEAN
      BY <2>1
    <3> QED BY <3>1, <3>2, <3>3, <3>4, <3>5, <3>6 DEF TypeOK
  <2>4. FramesInOrder'
    <3>1. << >> \o << >> \o << >> = << >>
      BY <2>2, ConcatEmptySeq
    <3>2. [i \in 1..0 |-> i] = << >>
      OBVIOUS
    <3> QED BY <2>1, <3>1, <3>2 DEF FramesInOrder
  <2> QED BY <2>1, <2>3, <2>4 DEF FeaturesHonest, RxNoticed, NoTxForgotten
<1>6. CASE Receive
  <2> DEFINE pending == Append(rxQueue, accepted + 1)
  <2>1. /\ accepted \in Nat /\ accepted + 1 \in Frame /\ Len(rxQueue) + 1 <= MaxPending
        /\ accepted' = accepted + 1 /\ PumpRx(pending)
        /\ UNCHANGED <<negotiationVars, selectedQueueIdx, enabled, kick, got, polling, threw>>
    BY <1>1, <1>2, <1>6 DEF Receive, TypeOK, Frame
  <2>2. pending \in Seq(Frame) /\ Len(pending) = Len(rxQueue) + 1
    BY <1>1, <2>1, AppendProperties
  <2> HIDE DEF pending
  <2>3. /\ rxUsed' \in Seq(Frame) /\ rxQueue' \in Seq(Frame)
        /\ Len(rxQueue') <= Len(pending)
        /\ rxUsed' \o rxQueue' = rxUsed \o pending
        /\ avail' \in [Queue -> Seq(Kind)] /\ avail'[TX] = avail[TX]
        /\ hushed' \in BOOLEAN /\ isr' \in BOOLEAN
        /\ RxNoticed'
    BY <2>1, <2>2, Pumped
  <2>4. Len(rxQueue') <= MaxPending
    <3>1. Len(rxQueue') \in Nat
      BY <2>3, LenProperties
    <3> QED BY <1>1, <1>2, <2>1, <2>2, <2>3, <3>1
  <2>5. TypeOK'
    <3>1. accepted' \in 0..MaxFrames
      BY <2>1 DEF Frame
    <3>2. PciTypeOK'
      BY <2>1, <2>3 DEF TypeOK, PciTypeOK, negotiationVars
    <3> QED BY <1>1, <2>1, <2>3, <2>4, <3>1, <3>2 DEF TypeOK, Frame
  <2>6. FramesInOrder'
    <3>1. got' \o rxUsed' \o rxQueue' = got \o rxUsed \o pending
      BY <1>1, <2>1, <2>2, <2>3, PumpedInOrder
    <3>2. got \o rxUsed \in Seq(Frame)
      BY <1>1, ConcatProperties
    <3>3. (got \o rxUsed) \o pending = [i \in 1..(accepted + 1) |-> i]
      BY <1>1, <2>1, <3>2, OneMore DEF FramesInOrder, pending
    <3> QED BY <2>1, <3>1, <3>3 DEF FramesInOrder
  <2> QED
    BY <2>1, <2>3, <2>5, <2>6 DEF FeaturesHonest, NoTxForgotten, negotiationVars
<1>7. ASSUME NEW kind \in Kind, OfferRx(kind) \/ OfferTx(kind)
      PROVE  IInv'
  <2>1. PICK q \in Queue :
            /\ avail' = [avail EXCEPT ![q] = Append(@, kind)]
            /\ kick' = kick \cup {q}
            /\ UNCHANGED <<pciVars, rxQueue, rxUsed, got, polling, accepted, hushed, threw>>
    BY <1>1, <1>7 DEF OfferRx, OfferTx
  <2>2. Append(avail[q], kind) \in Seq(Kind)
    BY <1>1, AppendProperties
  <2>3. TypeOK' /\ FeaturesHonest' /\ FramesInOrder' /\ RxNoticed'
    BY <1>1, <2>1, <2>2
       DEF pciVars, negotiationVars, TypeOK, PciTypeOK, FeaturesHonest, FramesInOrder, RxNoticed
  <2>4. NoTxForgotten'
    <3>1. CASE q = TX
      BY <2>1, <3>1 DEF NoTxForgotten
    <3>2. CASE q # TX
      BY <1>1, <2>1, <3>2 DEF NoTxForgotten, pciVars
    <3> QED BY <3>1, <3>2
  <2> QED BY <2>3, <2>4
<1>8. ASSUME NEW q \in Queue, Ring(q)
      PROVE  IInv'
  <2>1. /\ kick' = kick \ {q} /\ OnQueueNotify(q)
        /\ UNCHANGED <<negotiationVars, selectedQueueIdx, enabled, got, polling, accepted>>
    BY <1>8 DEF Ring
  <2>2. /\ rxUsed' \in Seq(Frame) /\ rxQueue' \in Seq(Frame)
        /\ Len(rxQueue') <= Len(rxQueue)
        /\ got' \o rxUsed' \o rxQueue' = got \o rxUsed \o rxQueue
        /\ avail' \in [Queue -> Seq(Kind)]
        /\ hushed' \in BOOLEAN /\ isr' \in BOOLEAN /\ threw' \in BOOLEAN
        /\ RxNoticed'
        /\ q = TX /\ TX \in enabled => avail'[TX] = << >> \/ threw'
        /\ q = RX => avail'[TX] = avail[TX] /\ threw' = threw
    BY <2>1, NotifyStep
  <2>3. Len(rxQueue') <= MaxPending
    <3>1. Len(rxQueue') \in Nat
      BY <2>2, LenProperties
    <3> QED BY <1>1, <1>2, <2>2, <3>1
  <2>4. TypeOK'
    BY <1>1, <2>1, <2>2, <2>3 DEF TypeOK, PciTypeOK, negotiationVars, Frame
  <2>5. FeaturesHonest' /\ FramesInOrder'
    BY <2>1, <2>2 DEF FeaturesHonest, FramesInOrder, negotiationVars
  <2>6. NoTxForgotten'
    <3>1. CASE q = TX
      BY <2>1, <2>2, <3>1 DEF NoTxForgotten
    <3>2. CASE q = RX
      BY <1>1, <2>1, <2>2, <3>2 DEF NoTxForgotten
    <3> QED BY <1>1, <3>1, <3>2
  <2> QED BY <2>2, <2>4, <2>5, <2>6
<1>9. CASE Interrupt \/ Poll
  <2>1. /\ UNCHANGED <<negotiationVars, selectedQueueIdx, enabled>>
        /\ UNCHANGED <<rxQueue, avail, kick, accepted, threw>>
        /\ isr' \in {isr, FALSE} /\ polling' \in BOOLEAN
    BY <1>9 DEF Interrupt, Poll, ReadIsr, pciVars, TypeOK
  <2>2. CASE Take
    <3>1. got' = got \o rxUsed /\ rxUsed' = << >> /\ hushed' = FALSE
      BY <2>2 DEF Take
    <3>2. /\ got' \in Seq(Frame) /\ rxUsed' \in Seq(Frame)
          /\ got' \o rxUsed' = got \o rxUsed
      BY <1>1, <3>1, ConcatProperties, ConcatEmptySeq, EmptySeq
    <3>3. TypeOK'
      BY <1>1, <2>1, <3>1, <3>2 DEF TypeOK, PciTypeOK, negotiationVars, Frame
    <3> QED
      BY <2>1, <3>1, <3>2, <3>3
         DEF FeaturesHonest, FramesInOrder, RxNoticed, NoTxForgotten, negotiationVars
  <2>3. CASE UNCHANGED <<got, rxUsed, hushed>> /\ (polling' = TRUE \/ rxUsed = << >>)
    <3>1. TypeOK'
      BY <1>1, <2>1, <2>3 DEF TypeOK, PciTypeOK, negotiationVars, Frame
    <3>2. FeaturesHonest' /\ FramesInOrder'
      BY <2>1, <2>3 DEF FeaturesHonest, FramesInOrder, negotiationVars
    <3>3. RxNoticed'
      BY <2>3 DEF RxNoticed
    <3>4. NoTxForgotten'
      BY <2>1 DEF NoTxForgotten
    <3> QED BY <3>1, <3>2, <3>3, <3>4
  <2> QED BY <1>9, <2>2, <2>3 DEF Interrupt, Poll
<1>10. CASE UNCHANGED vars
  BY <1>10
     DEF vars, pciVars, negotiationVars, netVars, TypeOK, PciTypeOK, FeaturesHonest,
         FramesInOrder, RxNoticed, NoTxForgotten
<1> QED BY <1>3, <1>4, <1>5, <1>6, <1>7, <1>8, <1>9, <1>10 DEF Next

-----------------------------------------------------------------------------
(* The invariant holds in every reachable state.                              *)
LEMMA Invariant == Spec => []IInv
<1>1. Init => IInv
  BY QueuesAssumption, SizeAssumption, Initially
<1>2. IInv /\ [Next]_vars => IInv'
  BY QueuesAssumption, SizeAssumption, Inductive
<1> QED BY <1>1, <1>2, PTL DEF Spec

(* Type correctness: among others, the backlog never exceeds its limit        *)
(* (virtio_net.js:73).                                                       *)
THEOREM TypeCorrect == Spec => []TypeOK
<1>1. IInv => TypeOK
  BY DEF IInv
<1> QED BY <1>1, Invariant, PTL

(* FEATURES_OK tells the truth unless features were written after it          *)
(* (virtio_pci_device.js:379-397).                                           *)
THEOREM FeaturesHonestCorrect == Spec => []FeaturesHonest
<1>1. IInv => FeaturesHonest
  BY DEF IInv
<1> QED BY <1>1, Invariant, PTL

(* Frames reach the guest in the order of their acceptance, each once, and    *)
(* none of an earlier driver's (virtio_net.js:72-100, 128-132).              *)
THEOREM FramesInOrderCorrect == Spec => []FramesInOrder
<1>1. IInv => FramesInOrder
  BY DEF IInv
<1> QED BY <1>1, Invariant, PTL

(* A used buffer not yet seen has an interrupt pending or a poll ahead, but   *)
(* for EVENT_IDX (virtio_net.js:95, virtqueue.js:338-365).                   *)
THEOREM RxNoticedCorrect == Spec => []RxNoticed
<1>1. IInv => RxNoticed
  BY DEF IInv
<1> QED BY <1>1, Invariant, PTL

(* A chain in the transmit queue has a doorbell ahead, or is behind one that  *)
(* threw (virtio_net.js:108-122).                                            *)
THEOREM NoTxForgottenCorrect == Spec => []NoTxForgotten
<1>1. IInv => NoTxForgotten
  BY DEF IInv
<1> QED BY <1>1, Invariant, PTL
=============================================================================
