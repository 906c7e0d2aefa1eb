------------------------------ MODULE HostProofs ------------------------------
(* The parts of the worker that face the host page: the watchdog, for every   *)
(* interval, timeout and delay with Interval plus MaxDelay below Timeout, and  *)
(* the keyboard, for every set of keys and every size of its two queues.       *)
EXTENDS VmWatchdog, VirtioInput, SequenceTheorems, FiniteSetTheorems, WellFoundedInduction, TLAPS

Ping == [seq : 1..MaxSeq, age : Nat]

(* Pings are outstanding in the order they were issued, so each of their      *)
(* pongs will be accepted, and the oldest has waited longest.                 *)
PingsOrdered ==
    \A i \in DOMAIN pings :
        /\ pings[i].seq \in (ackedSeq + 1)..seq /\ pings[i].age <= MaxDelay
        /\ \A j \in DOMAIN pings : i < j => pings[i].seq < pings[j].seq /\ pings[j].age <= pings[i].age

(* No tick of an active watchdog with a timer has yet found the worker silent  *)
(* for Timeout.                                                              *)
SilenceBounded == isActive /\ timerId => silence < Timeout + phase

(* Of a live worker such a watchdog has heard since the last tick, or the oldest ping was  *)
(* issued within an Interval of its last sign of life.                        *)
AliveHeard ==
    isActive /\ timerId /\ ~hung =>
        IF pings = <<>> THEN silence <= phase ELSE silence <= Interval + pings[1].age

(* The history variable counts at most the silence it is compared with.       *)
WatchedIsSilent ==
    /\ watched <= silence
    /\ ~hung \/ ~isActive => watched = 0
    /\ hung => pings = <<>>

(* The type invariant, taken apart for the provers.                           *)
Numbers ==
    /\ seq \in 0..MaxSeq /\ ackedSeq \in 0..seq /\ watched \in Nat
    /\ silence \in 0..(Timeout + Interval) /\ phase \in 0..Interval
Flags ==
    timerId \in BOOLEAN /\ isActive \in BOOLEAN /\ hung \in BOOLEAN /\ timedOut \in BOOLEAN

Types == Numbers /\ Flags /\ pings \in Seq(Ping)

IInv == Types /\ PingsOrdered /\ SilenceBounded /\ AliveHeard /\ WatchedIsSilent /\ NoFalseKill

-----------------------------------------------------------------------------
(* A further ping goes to the end; the oldest goes when it is answered; time   *)
(* makes all of them older.                                                  *)
LEMMA Issued ==
    ASSUME NEW q \in Seq(Ping), NEW p \in Ping
    PROVE  /\ Append(q, p) \in Seq(Ping)
           /\ DOMAIN q = 1..Len(q) /\ Len(q) \in Nat
           /\ DOMAIN Append(q, p) = 1..(Len(q) + 1)
           /\ \A i \in 1..Len(q) : Append(q, p)[i] = q[i]
           /\ Append(q, p)[Len(q) + 1] = p
           /\ Append(q, p) # <<>>
BY AppendProperties, LenProperties

LEMMA Answered ==
    ASSUME NEW q \in Seq(Ping), q # <<>>
    PROVE  /\ Tail(q) \in Seq(Ping) /\ Head(q) = q[1]
           /\ Len(q) \in Nat \ {0} /\ DOMAIN q = 1..Len(q)
           /\ DOMAIN Tail(q) = 1..(Len(q) - 1)
           /\ \A i \in 1..(Len(q) - 1) : Tail(q)[i] = q[i + 1]
BY HeadTailProperties, LenProperties, EmptySeq

LEMMA Elements ==
    ASSUME NEW q \in Seq(Ping)
    PROVE  /\ DOMAIN q = 1..Len(q) /\ Len(q) \in Nat /\ (q # <<>> => 1 \in 1..Len(q))
           /\ \A i \in 1..Len(q) : q[i].age \in Nat /\ q[i].seq \in Nat
<1>1. DOMAIN q = 1..Len(q) /\ Len(q) \in Nat /\ (q # <<>> => 1 \in 1..Len(q))
  BY LenProperties, EmptySeq
<1>2. \A i \in 1..Len(q) : q[i] \in Ping
  BY ElementOfSeq
<1>3. \A p \in Ping : p.age \in Nat /\ p.seq \in Nat
  BY DEF Ping
<1>4. QED BY <1>1, <1>2, <1>3

Older(q) == [i \in DOMAIN q |-> [q[i] EXCEPT !.age = @ + 1]]

LEMMA Aged ==
    ASSUME NEW q \in Seq(Ping)
    PROVE  /\ Older(q) \in Seq(Ping) /\ DOMAIN Older(q) = DOMAIN q
           /\ (Older(q) = <<>> <=> q = <<>>)
           /\ \A i \in DOMAIN q :
                 Older(q)[i].seq = q[i].seq /\ Older(q)[i].age = q[i].age + 1
<1> DEFINE r == Older(q)
<1>1. Len(q) \in Nat /\ DOMAIN q = 1..Len(q) /\ \A i \in 1..Len(q) : q[i] \in Ping
  BY LenProperties, ElementOfSeq
<1>2. \A i \in 1..Len(q) :
        /\ r[i] \in Ping /\ r[i].seq = q[i].seq /\ r[i].age = q[i].age + 1
  BY <1>1 DEF Ping, Older
<1>3. r \in [1..Len(q) -> Ping]
  BY <1>1, <1>2 DEF Older
<1> HIDE DEF r
<1>4. r \in Seq(Ping)
  BY <1>1, <1>3, SeqDef
<1>5. r = <<>> <=> q = <<>>
  BY <1>1, <1>3, <1>4, EmptySeq, LenProperties
<1>6. QED BY <1>1, <1>2, <1>3, <1>4, <1>5 DEF r

LEMMA InitIInv == Init => IInv
<1> SUFFICES ASSUME Init PROVE IInv
  OBVIOUS
<1>1. pings \in Seq(Ping)
  BY EmptySeq DEF Init
<1>2. DOMAIN pings = {}
  BY DEF Init
<1>3. Numbers
  BY TimeAssumption DEF Init, Numbers, TimeAssumption
<1>4. Flags
  BY DEF Init, Flags
<1>5. PingsOrdered
  BY <1>2 DEF PingsOrdered
<1>6. SilenceBounded /\ AliveHeard /\ WatchedIsSilent /\ NoFalseKill
  BY DEF Init, SilenceBounded, AliveHeard, WatchedIsSilent, NoFalseKill
<1>7. QED BY <1>1, <1>3, <1>4, <1>5, <1>6 DEF IInv, Types

(* Calls of the runtime: they end a silence or the watch, and touch no ping.   *)
LEMMA CallsKeepIInv ==
    ASSUME IInv, Start \/ Pause \/ Resume \/ Stop \/ TickPaused
    PROVE  IInv'
<1>1. UNCHANGED <<seq, ackedSeq, pings, hung, timedOut>>
  BY DEF Start, Pause, Resume, Stop, TickPaused
<1>2. PingsOrdered' /\ NoFalseKill' /\ pings' \in Seq(Ping)
  BY <1>1 DEF IInv, Types, PingsOrdered, NoFalseKill
<1>3. (silence' = 0 \/ silence' = silence) /\ (phase' = 0 \/ phase' = phase)
      /\ (watched' = 0 \/ UNCHANGED <<watched, isActive, silence>>)
      /\ (isActive' => silence' = 0)
  BY DEF Start, Pause, Resume, Stop, TickPaused
<1>4. Numbers'
  BY <1>1, <1>3, TimeAssumption DEF IInv, Types, Numbers, TimeAssumption
<1>5. Flags'
  BY <1>1 DEF IInv, Types, Flags, Start, Pause, Resume, Stop, TickPaused
<1>6. SilenceBounded'
  <2>1. 0 < Timeout + phase'
    <3>1. phase' \in 0..Interval
      BY <1>4 DEF Numbers
    <3>2. Timeout \in Nat \ {0} /\ Interval \in Nat
      BY TimeAssumption DEF TimeAssumption
    <3>3. phase' \in Nat
      BY <3>1, <3>2
    <3>4. \A t \in Nat \ {0}, p \in Nat : 0 < t + p
      OBVIOUS
    <3>5. QED BY <3>2, <3>3, <3>4
  <2>2. QED BY <1>3, <2>1 DEF SilenceBounded
<1>7. WatchedIsSilent'
  BY <1>1, <1>3, <1>4 DEF IInv, WatchedIsSilent, Numbers
<1>8. AliveHeard'
  <2>1. pings' # <<>> => pings'[1].age \in Nat
    BY <1>2, Elements
  <2>2. QED BY <1>3, <1>4, <2>1, TimeAssumption DEF AliveHeard, Numbers, TimeAssumption
<1>9. QED BY <1>2, <1>4, <1>5, <1>6, <1>7, <1>8 DEF IInv, Types

(* The tick that gives up finds a hung worker: a live one has been heard of    *)
(* within Interval plus MaxDelay.                                             *)
LEMMA TimeoutKeepsIInv ==
    ASSUME IInv, TickTimeout
    PROVE  IInv'
<1>1. /\ UNCHANGED <<seq, ackedSeq, silence, pings, hung>> /\ isActive' = FALSE
      /\ phase' = 0 /\ watched' = 0 /\ timerId' = FALSE /\ timedOut' = TRUE
      /\ isActive /\ timerId /\ silence >= Timeout
  BY DEF TickTimeout, TickDue
<1>2. hung
  <2>1. SUFFICES ASSUME ~hung PROVE FALSE
    OBVIOUS
  <2>2. pings # <<>> => pings[1].age \in Nat /\ pings[1].age <= MaxDelay
    BY Elements DEF IInv, Types, PingsOrdered
  <2>3. silence <= Interval \/ (silence <= Interval + pings[1].age /\ pings # <<>>)
    BY <1>1, <2>1, TimeAssumption DEF IInv, AliveHeard, Types, Numbers, TimeAssumption
  <2>4. QED BY <1>1, <2>2, <2>3, TimeAssumption DEF IInv, Types, Numbers, TimeAssumption
<1>3. Numbers'
  BY <1>1, TimeAssumption DEF IInv, Types, Numbers, TimeAssumption
<1>4. Flags' /\ pings' \in Seq(Ping)
  BY <1>1 DEF IInv, Types, Flags
<1>5. PingsOrdered'
  BY <1>1 DEF IInv, PingsOrdered
<1>6. WatchedIsSilent'
  BY <1>1, <1>3 DEF IInv, WatchedIsSilent, Numbers
<1>7. SilenceBounded' /\ AliveHeard' /\ NoFalseKill'
  BY <1>1, <1>2 DEF SilenceBounded, AliveHeard, NoFalseKill
<1>8. QED BY <1>3, <1>4, <1>5, <1>6, <1>7 DEF IInv, Types

(* A ping to a live worker is the newest of those outstanding; one to a hung   *)
(* worker leaves no trace but its number.                                     *)
LEMMA PingKeepsIInv ==
    ASSUME IInv, TickPing
    PROVE  IInv'
<1> DEFINE p == [seq |-> seq + 1, age |-> 0]
<1>1. /\ UNCHANGED <<ackedSeq, silence, timerId, isActive, hung, watched, timedOut>>
      /\ phase = Interval /\ phase' = 0 /\ seq' = seq + 1 /\ silence < Timeout /\ isActive /\ timerId
      /\ seq < MaxSeq
      /\ pings' = IF hung THEN pings ELSE Append(pings, p)
  BY DEF TickPing, TickDue
<1>2. seq \in Nat /\ ackedSeq \in 0..seq /\ silence \in Nat /\ pings \in Seq(Ping)
      /\ MaxSeq \in Nat /\ MaxDelay \in Nat /\ Interval \in Nat \ {0}
  BY TimeAssumption DEF IInv, Types, Numbers, TimeAssumption
<1>3. p \in Ping /\ p.seq = seq + 1 /\ p.age = 0
  BY <1>1, <1>2 DEF Ping
<1> HIDE DEF p
<1>4. pings' \in Seq(Ping)
  BY <1>1, <1>2, <1>3, Issued
<1>5. Numbers'
  BY <1>1, <1>2 DEF IInv, Types, Numbers
<1>6. Flags'
  BY <1>1 DEF IInv, Types, Flags
<1>7. SilenceBounded'
  <2>1. silence < Timeout + 0
    BY <1>1, <1>2, TimeAssumption DEF TimeAssumption
  <2>2. QED BY <1>1, <2>1 DEF IInv, SilenceBounded
<1>8. WatchedIsSilent'
  <2>1. hung => pings' = pings
    BY <1>1
  <2>2. QED BY <1>1, <2>1 DEF IInv, WatchedIsSilent
<1>9. NoFalseKill'
  BY <1>1 DEF IInv, NoFalseKill
<1>10. PingsOrdered' /\ AliveHeard'
  <2>1. CASE hung
    <3>1. pings' = <<>>
      BY <1>1, <2>1 DEF IInv, WatchedIsSilent
    <3>2. DOMAIN pings' = {}
      BY <3>1
    <3>3. QED BY <1>1, <2>1, <3>2 DEF PingsOrdered, AliveHeard
  <2>2. CASE ~hung
    <3>1. pings' = Append(pings, p)
      BY <1>1, <2>2
    <3>2. /\ DOMAIN pings = 1..Len(pings) /\ Len(pings) \in Nat
          /\ DOMAIN pings' = 1..(Len(pings) + 1)
          /\ \A i \in 1..Len(pings) : pings'[i] = pings[i]
          /\ pings'[Len(pings) + 1] = p /\ pings' # <<>>
      BY <1>2, <1>3, <3>1, Issued
    <3>3. \A i \in 1..Len(pings) : pings[i].age \in Nat /\ pings[i].seq \in Nat
      BY <1>2, Elements
    <3>4. \A i \in 1..Len(pings) :
            /\ pings[i].seq \in (ackedSeq + 1)..seq /\ pings[i].age <= MaxDelay
            /\ \A j \in 1..Len(pings) :
                 i < j => pings[i].seq < pings[j].seq /\ pings[j].age <= pings[i].age
      BY <3>2 DEF IInv, PingsOrdered
    <3>5. PingsOrdered'
      <4>1. ASSUME NEW i \in DOMAIN pings'
            PROVE  pings'[i].seq \in (ackedSeq' + 1)..seq' /\ pings'[i].age <= MaxDelay
        BY <1>1, <1>2, <1>3, <3>2, <3>3, <3>4
      <4>2. ASSUME NEW i \in DOMAIN pings', NEW j \in DOMAIN pings', i < j
            PROVE  pings'[i].seq < pings'[j].seq /\ pings'[j].age <= pings'[i].age
        <5>1. i \in 1..Len(pings)
          BY <3>2, <4>2
        <5>2. QED BY <1>1, <1>2, <1>3, <3>2, <3>3, <3>4, <4>2, <5>1
      <4>3. QED BY <4>1, <4>2 DEF PingsOrdered
    <3>6. AliveHeard'
      <4>1. CASE pings = <<>>
        <5>1. Len(pings) = 0 /\ silence <= phase
          BY <1>1, <2>2, <4>1, EmptySeq DEF IInv, AliveHeard
        <5>2. pings'[1] = p
          BY <3>2, <5>1
        <5>3. QED BY <1>1, <1>2, <1>3, <3>2, <5>1, <5>2 DEF AliveHeard
      <4>2. CASE pings # <<>>
        <5>1. pings'[1] = pings[1]
          BY <1>2, <3>2, <4>2, Elements
        <5>2. QED BY <1>1, <2>2, <3>2, <4>2, <5>1 DEF IInv, AliveHeard
      <4>3. QED BY <4>1, <4>2
    <3>7. QED BY <3>5, <3>6
  <2>3. QED BY <2>1, <2>2
<1>11. QED BY <1>4, <1>5, <1>6, <1>7, <1>8, <1>9, <1>10 DEF IInv, Types

(* Every pong of a live worker is accepted, newer pings or not.                *)
LEMMA PongKeepsIInv ==
    ASSUME IInv, HandlePong
    PROVE  IInv'
<1>1. /\ UNCHANGED <<seq, timerId, phase, isActive, hung, watched, timedOut>>
      /\ pings # <<>> /\ ~hung /\ pings' = Tail(pings)
  BY DEF HandlePong
<1>2. seq \in Nat /\ ackedSeq \in 0..seq /\ pings \in Seq(Ping) /\ phase \in Nat
      /\ Timeout \in Nat /\ Interval \in Nat /\ 0 < Timeout
  BY TimeAssumption DEF IInv, Types, Numbers, TimeAssumption
<1>3. /\ pings' \in Seq(Ping) /\ Head(pings) = pings[1]
      /\ Len(pings) \in Nat \ {0} /\ DOMAIN pings = 1..Len(pings)
      /\ DOMAIN pings' = 1..(Len(pings) - 1)
      /\ \A i \in 1..(Len(pings) - 1) : pings'[i] = pings[i + 1]
  BY <1>1, <1>2, Answered
<1>4. \A i \in 1..Len(pings) : pings[i].age \in Nat /\ pings[i].seq \in Nat
  BY <1>2, Elements
<1>5. \A i \in 1..Len(pings) :
        /\ pings[i].seq \in (ackedSeq + 1)..seq /\ pings[i].age <= MaxDelay
        /\ \A j \in 1..Len(pings) :
             i < j => pings[i].seq < pings[j].seq /\ pings[j].age <= pings[i].age
  BY <1>3 DEF IInv, PingsOrdered
<1>6. pings[1].seq \in (ackedSeq + 1)..seq
  BY <1>3, <1>5
<1>7. ackedSeq' = pings[1].seq /\ silence' = 0
  BY <1>2, <1>3, <1>6 DEF HandlePong, Accepts
<1>8. Numbers'
  BY <1>1, <1>2, <1>6, <1>7 DEF IInv, Types, Numbers
<1>9. Flags'
  BY <1>1 DEF IInv, Types, Flags
<1>10. PingsOrdered'
  <2>1. ASSUME NEW i \in 1..(Len(pings) - 1)
        PROVE  pings'[i].seq \in (ackedSeq' + 1)..seq' /\ pings'[i].age <= MaxDelay
    <3>1. pings'[i] = pings[i + 1] /\ i + 1 \in 1..Len(pings)
          /\ 1 \in 1..Len(pings) /\ 1 < i + 1
      BY <1>3
    <3>2. QED BY <1>1, <1>2, <1>4, <1>5, <1>7, <3>1
  <2>2. ASSUME NEW i \in 1..(Len(pings) - 1), NEW j \in 1..(Len(pings) - 1), i < j
        PROVE  pings'[i].seq < pings'[j].seq /\ pings'[j].age <= pings'[i].age
    <3>1. pings'[i] = pings[i + 1] /\ i + 1 \in 1..Len(pings)
          /\ pings'[j] = pings[j + 1] /\ j + 1 \in 1..Len(pings) /\ i + 1 < j + 1
      BY <1>3, <2>2
    <3>2. QED BY <1>5, <3>1
  <2>3. QED BY <1>3, <2>1, <2>2 DEF PingsOrdered
<1>11. AliveHeard'
  <2>1. pings' # <<>> => pings'[1].age \in Nat
    BY <1>3, Elements
  <2>2. QED BY <1>1, <1>2, <1>7, <2>1 DEF AliveHeard
<1>12. SilenceBounded'
  BY <1>1, <1>2, <1>7 DEF IInv, SilenceBounded
<1>13. WatchedIsSilent' /\ NoFalseKill'
  BY <1>1, <1>7 DEF IInv, WatchedIsSilent, NoFalseKill
<1>14. QED BY <1>3, <1>8, <1>9, <1>10, <1>11, <1>12, <1>13 DEF IInv, Types

(* From here on only the silence grows.                                       *)
LEMMA HangKeepsIInv ==
    ASSUME IInv, Hang
    PROVE  IInv'
<1>1. /\ UNCHANGED <<seq, ackedSeq, silence, timerId, phase, isActive, watched, timedOut>>
      /\ ~hung /\ hung' = TRUE /\ pings' = <<>>
  BY DEF Hang
<1>2. pings' \in Seq(Ping) /\ DOMAIN pings' = {}
  BY <1>1, EmptySeq
<1>3. Numbers' /\ Flags'
  BY <1>1 DEF IInv, Types, Numbers, Flags
<1>4. PingsOrdered'
  BY <1>2 DEF PingsOrdered
<1>5. SilenceBounded' /\ AliveHeard' /\ WatchedIsSilent' /\ NoFalseKill'
  BY <1>1 DEF IInv, SilenceBounded, AliveHeard, WatchedIsSilent, NoFalseKill
<1>6. QED BY <1>2, <1>3, <1>4, <1>5 DEF IInv, Types

(* Time does not pass a timer that is due or a pong that is owed.              *)
LEMMA ElapseKeepsIInv ==
    ASSUME IInv, Elapse
    PROVE  IInv'
<1>1. /\ UNCHANGED <<seq, ackedSeq, timerId, isActive, hung, timedOut>>
      /\ ~TickDue /\ ~PongDue
      /\ silence' = (IF silence < Timeout + Interval THEN silence + 1 ELSE silence)
      /\ phase' = (IF timerId THEN phase + 1 ELSE phase)
      /\ pings' = Older(pings)
      /\ watched' = (IF hung /\ isActive /\ watched < Timeout + Interval
                     THEN watched + 1 ELSE watched)
  BY DEF Elapse, Older
<1>2. pings \in Seq(Ping) /\ watched \in Nat /\ phase \in 0..Interval
      /\ Timeout \in Nat /\ Interval \in Nat /\ MaxDelay \in Nat
      /\ silence \in 0..(Timeout + Interval)
  BY TimeAssumption DEF IInv, Types, Numbers, TimeAssumption
<1>3. /\ pings' \in Seq(Ping) /\ DOMAIN pings' = DOMAIN pings /\ (pings' = <<>> <=> pings = <<>>)
      /\ \A i \in DOMAIN pings : pings'[i].seq = pings[i].seq /\ pings'[i].age = pings[i].age + 1
  BY <1>1, <1>2, Aged
<1>4. /\ DOMAIN pings = 1..Len(pings) /\ Len(pings) \in Nat /\ (pings # <<>> => 1 \in 1..Len(pings))
      /\ \A i \in 1..Len(pings) : pings[i].age \in Nat /\ pings[i].seq \in Nat
  BY <1>2, Elements
<1>5. /\ phase' \in 0..Interval /\ (timerId => phase' = phase + 1)
      /\ silence' \in 0..(Timeout + Interval) /\ silence' <= silence + 1 /\ silence <= silence'
  BY <1>1, <1>2 DEF TickDue
<1>6. Numbers'
  BY <1>1, <1>2, <1>5 DEF IInv, Types, Numbers
<1>7. Flags'
  BY <1>1 DEF IInv, Types, Flags
<1>8. \A i \in 1..Len(pings) :
        /\ pings[i].seq \in (ackedSeq + 1)..seq /\ pings[i].age <= MaxDelay
        /\ \A j \in 1..Len(pings) :
             i < j => pings[i].seq < pings[j].seq /\ pings[j].age <= pings[i].age
  BY <1>4 DEF IInv, PingsOrdered
<1>9. ASSUME NEW i \in 1..Len(pings)
      PROVE  pings[i].age + 1 <= MaxDelay
  <2>1. pings # <<>> /\ ~hung
    <3>1. pings # <<>>
      BY <1>2, <1>4, <1>9, EmptySeq
    <3>2. QED BY <3>1 DEF IInv, WatchedIsSilent
  <2>2. Head(pings) = pings[1] /\ 1 \in 1..Len(pings)
    BY <1>2, <1>4, <2>1, Answered
  <2>3. pings[1].age < MaxDelay
    <3>1. pings[1].age \in Nat /\ ~(Head(pings).age >= MaxDelay)
      BY <1>1, <1>4, <2>1, <2>2 DEF PongDue
    <3>2. QED BY <1>2, <2>2, <3>1
  <2>4. pings[i].age <= pings[1].age
    <3>1. i \in Nat /\ (i = 1 \/ 1 < i) /\ pings[i].age \in Nat
      BY <1>4, <1>9
    <3>2. QED BY <1>8, <1>9, <2>2, <3>1
  <2>5. QED BY <1>2, <1>4, <2>2, <2>3, <2>4
<1>10. PingsOrdered'
  <2>1. ASSUME NEW i \in 1..Len(pings)
        PROVE  pings'[i].seq \in (ackedSeq' + 1)..seq' /\ pings'[i].age <= MaxDelay
    BY <1>1, <1>3, <1>4, <1>8, <1>9
  <2>2. ASSUME NEW i \in 1..Len(pings), NEW j \in 1..Len(pings), i < j
        PROVE  pings'[i].seq < pings'[j].seq /\ pings'[j].age <= pings'[i].age
    <3>1. /\ pings'[i].seq = pings[i].seq /\ pings'[i].age = pings[i].age + 1
          /\ pings'[j].seq = pings[j].seq /\ pings'[j].age = pings[j].age + 1
      BY <1>3, <1>4
    <3>2. pings[i].seq < pings[j].seq /\ pings[j].age <= pings[i].age
      BY <1>8, <2>2
    <3>3. pings[i].age \in Nat /\ pings[j].age \in Nat
      BY <1>4
    <3>4. QED BY <3>1, <3>2, <3>3
  <2>3. QED BY <1>3, <1>4, <2>1, <2>2 DEF PingsOrdered
<1>11. SilenceBounded'
  BY <1>1, <1>2, <1>5 DEF IInv, SilenceBounded
<1>12. AliveHeard'
  <2>1. CASE pings = <<>>
    BY <1>1, <1>2, <1>3, <1>5, <2>1 DEF IInv, AliveHeard, SilenceBounded
  <2>2. CASE pings # <<>>
    <3>1. pings'[1].age = pings[1].age + 1 /\ pings[1].age \in Nat
      BY <1>3, <1>4, <2>2
    <3>2. isActive /\ timerId /\ ~hung => silence <= Interval + pings[1].age
      BY <2>2 DEF IInv, AliveHeard
    <3>3. isActive /\ timerId /\ ~hung => silence' <= Interval + pings'[1].age
      <4>1. silence \in Nat /\ silence' \in Nat /\ silence' <= silence + 1
        BY <1>2, <1>5
      <4>2. QED BY <1>2, <3>1, <3>2, <4>1
    <3>4. pings' # <<>> /\ isActive' = isActive /\ timerId' = timerId /\ hung' = hung
      BY <1>1, <1>3, <2>2
    <3>5. QED BY <3>3, <3>4 DEF AliveHeard
  <2>3. QED BY <2>1, <2>2
<1>13. WatchedIsSilent'
  <2>1. /\ silence' = (IF silence < Timeout + Interval THEN silence + 1 ELSE silence)
        /\ (watched' = watched + 1 /\ watched < Timeout + Interval) \/ watched' = watched
    BY <1>1
  <2>2. watched <= silence /\ (~hung \/ ~isActive => watched = 0) /\ (hung => pings = <<>>)
    BY DEF IInv, WatchedIsSilent
  <2>3. watched' <= silence'
    BY <1>1, <1>2, <1>5, <2>1, <2>2
  <2>4. QED BY <1>1, <1>3, <2>2, <2>3 DEF WatchedIsSilent
<1>14. NoFalseKill'
  BY <1>1 DEF IInv, NoFalseKill
<1>15. QED BY <1>3, <1>6, <1>7, <1>10, <1>11, <1>12, <1>13, <1>14 DEF IInv, Types

LEMMA IInvAlways == Spec => []IInv
<1>1. IInv /\ [Next]_vars => IInv'
  <2> SUFFICES ASSUME IInv, [Next]_vars PROVE IInv'
    OBVIOUS
  <2>1. CASE UNCHANGED vars
    BY <2>1 DEF vars, IInv, Types, Numbers, Flags, PingsOrdered, SilenceBounded, AliveHeard,
                WatchedIsSilent, NoFalseKill
  <2>2. QED BY <2>1, CallsKeepIInv, TimeoutKeepsIInv, PingKeepsIInv, PongKeepsIInv,
               HangKeepsIInv, ElapseKeepsIInv DEF Next
<1>2. QED BY <1>1, InitIInv, PTL DEF Spec

-----------------------------------------------------------------------------
(* Numbers stay in range and pings are well-formed, for any constants.         *)
THEOREM TypeCorrect == Spec => []TypeOK
<1>1. IInv => TypeOK
  BY DEF IInv, Types, Numbers, Flags, Ping, TypeOK
<1>2. QED BY <1>1, IInvAlways, PTL

(* A live worker is never given up, for any interval, timeout and delay: the   *)
(* silence of one that answers within MaxDelay never exceeds Interval plus     *)
(* MaxDelay, however many newer pings overtake its pongs (vm_runtime.js:71).   *)
THEOREM NoFalseKillCorrect == Spec => []NoFalseKill
<1>1. IInv => NoFalseKill
  BY DEF IInv
<1>2. QED BY <1>1, IInvAlways, PTL

(* A hung worker is found within Timeout plus Interval of active watching, by  *)
(* every watchdog that was not resumed after it was stopped.                  *)
THEOREM HangDetectedCorrect == Spec => []HangDetected
<1>1. IInv => HangDetected
  <2>1. SUFFICES ASSUME IInv PROVE HangDetected
    OBVIOUS
  <2>2. Timeout \in Nat /\ 0 < Timeout /\ phase \in 0..Interval /\ silence \in Nat
        /\ watched \in Nat /\ Interval \in Nat \ {0}
    BY <2>1, TimeAssumption DEF IInv, Types, Numbers, TimeAssumption
  <2>3. CASE isActive /\ timerId
    <3>1. silence < Timeout + phase /\ watched <= silence
      BY <2>1, <2>3 DEF IInv, SilenceBounded, WatchedIsSilent
    <3>2. QED BY <2>2, <3>1 DEF HangDetected
  <2>4. CASE ~isActive
    <3>1. watched = 0
      BY <2>1, <2>4 DEF IInv, WatchedIsSilent
    <3>2. QED BY <2>2, <3>1 DEF HangDetected
  <2>5. QED BY <2>3, <2>4 DEF HangDetected, Unwatched
<1>2. QED BY <1>1, IInvAlways, PTL

-----------------------------------------------------------------------------
(* Sets of numbers have a least element: induction, without an operator as  *)
(* a parameter.                                                             *)
LEMMA InOrder == \A x, y \in Nat : y < x => <<y, x>> \in OpToRel(<, Nat)
BY Zenon DEF OpToRel

LEMMA LeastElement ==
    ASSUME NEW T \in SUBSET Nat, T # {}
    PROVE  \E x \in T : \A y \in T : x <= y
<1>1. \E x \in T : \A y \in T : ~ (<<y, x>> \in OpToRel(<, Nat))
  BY NatLessThanWellFounded, WFMin, Zenon
<1>2. PICK x \in T : \A y \in T : ~ (<<y, x>> \in OpToRel(<, Nat))
  BY <1>1, Zenon
<1>3. \A y \in T : ~(y < x)
  BY <1>2, InOrder, Zenon
<1> QED BY <1>3

(* And a greatest one, when it has a bound.                                 *)
LEMMA Greatest ==
    ASSUME NEW L \in Nat, NEW T \in SUBSET (1..L), T # {}
    PROVE  \E x \in T : \A y \in T : y <= x
<1> DEFINE U == {n \in Nat : \A y \in T : y <= n}
<1>1. L \in U
  OBVIOUS
<1>2. PICK x \in U : \A n \in U : x <= n
  <2>1. U \in SUBSET Nat
    OBVIOUS
  <2> HIDE DEF U
  <2> QED BY <1>1, <2>1, LeastElement
<1>3. x \in Nat /\ \A y \in T : y \in Nat /\ y <= x /\ y >= 1
  OBVIOUS
<1>4. x \in T
  <2> SUFFICES ASSUME x \notin T PROVE FALSE
    OBVIOUS
  <2>1. x - 1 \in Nat /\ ~(x <= x - 1)
    <3>1. PICK y \in T : y \in Nat /\ y <= x /\ y >= 1
      BY <1>3
    <3> QED BY <1>3, <3>1
  <2>2. ASSUME NEW y \in T PROVE y <= x - 1
    <3>1. y \in Nat /\ y <= x /\ y # x
      BY <1>3
    <3> QED BY <1>3, <3>1
  <2>3. x - 1 \in U
    BY <2>1, <2>2
  <2> QED BY <1>2, <2>1, <2>3
<1> QED BY <1>3, <1>4

-----------------------------------------------------------------------------
(* A sequence of events.                                                    *)
LEMMA Events ==
    ASSUME NEW q \in Seq(Event)
    PROVE  /\ Len(q) \in Nat /\ DOMAIN q = 1..Len(q)
           /\ \A i \in 1..Len(q) : q[i] \in Event /\ q[i].code \in Key /\ q[i].value \in {0, 1}
           /\ \A k : EventsOf(k, q) = {i \in 1..Len(q) : q[i].code = k}
<1>1. Len(q) \in Nat /\ DOMAIN q = 1..Len(q) /\ \A i \in 1..Len(q) : q[i] \in Event
  BY LenProperties, ElementOfSeq
<1> QED BY <1>1 DEF EventsOf, Event

(* The keys down after all events of a queue, its positions spelt out.      *)
LEMMA AfterIs ==
    ASSUME NEW d, NEW q
    PROVE  After(d, q) =
               {k \in Key : IF EventsOf(k, q) = {} THEN k \in d
                            ELSE \E i \in EventsOf(k, q) :
                                     q[i].value = 1 /\ \A j \in EventsOf(k, q) : j <= i}
<1>1. \A k : EventsOf(k, q) \cap DOMAIN q = EventsOf(k, q)
  BY DEF EventsOf
<1> QED BY <1>1 DEF After, AfterAt

(* One more event decides about its key and no other.                       *)
LEMMA AfterPushed ==
    ASSUME NEW q \in Seq(Event), NEW e \in Event, NEW d \in SUBSET Key
    PROVE  After(d, Append(q, e)) = With(After(d, q), e.code, e.value)
<1> DEFINE t == Append(q, e)
<1>1. /\ t \in Seq(Event) /\ Len(t) = Len(q) + 1 /\ t[Len(q) + 1] = e
      /\ \A i \in 1..Len(q) : t[i] = q[i]
  BY AppendProperties
<1>2. Len(q) \in Nat /\ e.code \in Key /\ e.value \in {0, 1}
  BY Events DEF Event
<1> HIDE DEF t
<1>3. \A i \in 1..Len(t) : i \in 1..Len(q) \/ i = Len(q) + 1
  BY <1>1, <1>2
<1>4. \A k : EventsOf(k, t) = EventsOf(k, q) \cup (IF k = e.code THEN {Len(q) + 1} ELSE {})
  <2>1. \A k : /\ EventsOf(k, t) = {i \in 1..Len(t) : t[i].code = k}
               /\ EventsOf(k, q) = {i \in 1..Len(q) : q[i].code = k}
    BY <1>1, Events
  <2>2. \A i \in 1..Len(q) : i \in 1..Len(t)
    BY <1>1, <1>2
  <2>3. Len(q) + 1 \in 1..Len(t)
    BY <1>1, <1>2
  <2> QED BY <1>1, <1>3, <2>1, <2>2, <2>3
<1>5. ASSUME NEW k \in Key, k # e.code
      PROVE  k \in After(d, t) <=> k \in After(d, q)
  <2>1. EventsOf(k, t) = EventsOf(k, q)
    BY <1>4, <1>5
  <2>2. EventsOf(k, q) = {i \in 1..Len(q) : q[i].code = k}
    BY Events
  <2>3. \A i \in EventsOf(k, q) : t[i] = q[i]
    BY <1>1, <2>2
  <2> QED BY <2>1, <2>3, AfterIs
<1>6. e.code \in After(d, t) <=> e.value = 1
  <2>1. /\ EventsOf(e.code, t) = EventsOf(e.code, q) \cup {Len(q) + 1}
        /\ \A j \in EventsOf(e.code, q) : j \in Nat /\ j < Len(q) + 1
    BY <1>2, <1>4, Events
  <2>2. \A i \in EventsOf(e.code, t) :
            (\A j \in EventsOf(e.code, t) : j <= i) <=> i = Len(q) + 1
    <3> SUFFICES ASSUME NEW i \in EventsOf(e.code, t)
                 PROVE  (\A j \in EventsOf(e.code, t) : j <= i) <=> i = Len(q) + 1
      OBVIOUS
    <3>1. CASE i = Len(q) + 1
      <4>1. \A j \in EventsOf(e.code, t) : j <= i
        <5> SUFFICES ASSUME NEW j \in EventsOf(e.code, t) PROVE j <= i
          OBVIOUS
        <5>1. (j \in Nat /\ j < Len(q) + 1) \/ j = Len(q) + 1
          BY <2>1
        <5> QED BY <1>2, <3>1, <5>1
      <4> QED BY <3>1, <4>1
    <3>2. CASE i # Len(q) + 1
      <4>1. i \in Nat /\ i < Len(q) + 1
        BY <2>1, <3>2
      <4>2. ~(Len(q) + 1 <= i) /\ Len(q) + 1 \in EventsOf(e.code, t)
        BY <1>2, <2>1, <4>1
      <4> QED BY <3>2, <4>2
    <3> QED BY <3>1, <3>2
  <2>3. t[Len(q) + 1].value = e.value /\ Len(q) + 1 \in EventsOf(e.code, t)
    BY <1>1, <2>1
  <2> QED BY <1>2, <2>2, <2>3, AfterIs
<1>7. After(d, t) \subseteq Key /\ After(d, q) \subseteq Key
  BY AfterIs
<1> QED BY <1>2, <1>5, <1>6, <1>7 DEF With, t

(* Without its oldest event a queue leaves no more keys down, but one whose *)
(* only event was that key-up.                                              *)
LEMMA AfterDropped ==
    ASSUME NEW q \in Seq(Event), q # <<>>, NEW d \in SUBSET Key
    PROVE  After(d, Tail(q)) \subseteq
               After(d, q) \cup {k \in Key : /\ q[1] = [code |-> k, value |-> 0]
                                             /\ EventsOf(k, Tail(q)) = {}}
<1> DEFINE t == Tail(q)
<1>1. /\ Len(q) \in Nat /\ Len(q) >= 1 /\ t \in Seq(Event) /\ Len(t) = Len(q) - 1
      /\ \A i \in 1..Len(t) : t[i] = q[i + 1]
  BY HeadTailProperties, LenProperties, EmptySeq
<1> HIDE DEF t
<1>2. \A k : /\ EventsOf(k, t) = {i \in 1..Len(t) : t[i].code = k}
             /\ EventsOf(k, q) = {i \in 1..Len(q) : q[i].code = k}
  BY <1>1, Events
<1>3. \A i \in 1..Len(t) : i \in Nat /\ i + 1 \in 1..Len(q) /\ i + 1 # 1
  BY <1>1
<1>4. \A i \in 1..Len(q) : i = 1 \/ (i \in Nat /\ i - 1 \in 1..Len(t) /\ (i - 1) + 1 = i)
  BY <1>1
<1> SUFFICES ASSUME NEW k \in Key, k \in After(d, t), k \notin After(d, q)
             PROVE  q[1] = [code |-> k, value |-> 0] /\ EventsOf(k, t) = {}
  BY AfterIs DEF t
<1>5. EventsOf(k, t) = {}
  <2> SUFFICES ASSUME EventsOf(k, t) # {} PROVE FALSE
    OBVIOUS
  <2>1. PICK i \in EventsOf(k, t) : t[i].value = 1 /\ \A j \in EventsOf(k, t) : j <= i
    BY AfterIs
  <2>2. i \in 1..Len(t) /\ i + 1 \in EventsOf(k, q) /\ q[i + 1].value = 1
    BY <1>1, <1>2, <1>3, <2>1
  <2>3. ASSUME NEW j \in EventsOf(k, q) PROVE j <= i + 1
    <3>1. CASE j = 1
      BY <1>1, <2>2, <3>1
    <3>2. CASE j # 1
      <4>1. j \in Nat /\ j - 1 \in 1..Len(t) /\ (j - 1) + 1 = j
        BY <1>2, <1>4, <3>2
      <4>2. t[j - 1] = q[j]
        BY <1>1, <4>1
      <4>3. j - 1 \in EventsOf(k, t)
        BY <1>2, <4>1, <4>2
      <4>4. j - 1 <= i
        BY <2>1, <4>3
      <4> QED BY <1>1, <2>2, <4>1, <4>4
    <3> QED BY <3>1, <3>2
  <2> QED BY <2>2, <2>3, AfterIs
<1>6. k \in d
  BY <1>5, AfterIs
<1>7. EventsOf(k, q) # {}
  BY <1>6, AfterIs
<1>8. EventsOf(k, q) = {1} /\ q[1].code = k
  <2>1. ASSUME NEW i \in EventsOf(k, q) PROVE i = 1
    <3> SUFFICES ASSUME i # 1 PROVE FALSE
      OBVIOUS
    <3>1. i \in Nat /\ i - 1 \in 1..Len(t) /\ (i - 1) + 1 = i
      BY <1>2, <1>4
    <3>2. t[i - 1] = q[i]
      BY <1>1, <3>1
    <3>3. i - 1 \in EventsOf(k, t)
      BY <1>2, <3>1, <3>2
    <3> QED BY <1>5, <3>3
  <2> QED BY <1>2, <1>7, <2>1
<1>9. 1 \in 1..Len(q) /\ q[1] \in Event /\ q[1].value \in {0, 1}
  BY <1>1, Events
<1>10. q[1].value # 1
  <2> SUFFICES ASSUME q[1].value = 1 PROVE k \in After(d, q)
    OBVIOUS
  <2>1. 1 \in EventsOf(k, q) /\ \A j \in EventsOf(k, q) : j <= 1
    BY <1>8
  <2> QED BY <1>8, <2>1, AfterIs
<1> QED BY <1>5, <1>8, <1>9, <1>10 DEF Event

(* When the first n events have been handled and those of G among them have *)
(* arrived, no key is down that was not to be, but one whose last event was *)
(* a key-up among the lost ones.                                            *)
LEMMA AfterHandled ==
    ASSUME NEW q \in Seq(Event), NEW d \in SUBSET Key, NEW n \in 0..Len(q), NEW G \in SUBSET (1..n)
    PROVE  /\ SubSeq(q, n + 1, Len(q)) \in Seq(Event)
           /\ Len(SubSeq(q, n + 1, Len(q))) = Len(q) - n
           /\ After(AfterAt(d, q, G), SubSeq(q, n + 1, Len(q))) \subseteq
                  After(d, q) \cup
                  {k \in Key : \E i \in EventsOf(k, q) \cap ((1..n) \ G) :
                                  q[i].value = 0 /\ \A j \in EventsOf(k, q) : j <= i}
<1> DEFINE b == SubSeq(q, n + 1, Len(q))
<1>0. Len(q) \in Nat /\ n \in Nat /\ n <= Len(q)
  BY LenProperties
<1>2. /\ b \in Seq(Event) /\ Len(b) = Len(q) - n /\ \A i \in 1..(Len(q) - n) : b[i] = q[i + n]
  <2>1. \A i \in (n + 1)..Len(q) : q[i] \in Event
    BY <1>0, Events
  <2>2. /\ b \in Seq(Event) /\ Len(b) = IF n + 1 <= Len(q) THEN Len(q) - (n + 1) + 1 ELSE 0
        /\ \A i \in 1..(Len(q) - (n + 1) + 1) : b[i] = q[(n + 1) + i - 1]
    BY <1>0, <2>1, SubSeqProperties
  <2> HIDE DEF b
  <2>3. \A i \in 1..(Len(q) - n) : i \in 1..(Len(q) - (n + 1) + 1) /\ (n + 1) + i - 1 = i + n
    BY <1>0
  <2> QED BY <1>0, <2>2, <2>3
<1> HIDE DEF b
<1>3. \A k : /\ EventsOf(k, b) = {i \in 1..(Len(q) - n) : q[i + n].code = k}
             /\ EventsOf(k, q) = {i \in 1..Len(q) : q[i].code = k}
  <2>1. \A k : /\ EventsOf(k, b) = {i \in 1..(Len(q) - n) : b[i].code = k}
               /\ EventsOf(k, q) = {i \in 1..Len(q) : q[i].code = k}
    BY <1>2, Events
  <2>2. \A k : {i \in 1..(Len(q) - n) : b[i].code = k} = {i \in 1..(Len(q) - n) : q[i + n].code = k}
    BY <1>2
  <2> QED BY <2>1, <2>2
<1>4. /\ \A i \in 1..n : i \in 1..Len(q)
      /\ \A i \in 1..(Len(q) - n) : i \in Nat /\ i + n \in 1..Len(q)
      /\ \A i \in 1..Len(q) : i \in 1..n \/ (i - n \in 1..(Len(q) - n) /\ (i - n) + n = i)
  BY <1>0
<1> SUFFICES ASSUME NEW k \in Key, k \in After(AfterAt(d, q, G), b), k \notin After(d, q)
             PROVE  \E i \in EventsOf(k, q) \cap ((1..n) \ G) :
                        q[i].value = 0 /\ \A j \in EventsOf(k, q) : j <= i
  <2>1. After(AfterAt(d, q, G), b) \subseteq Key
    BY AfterIs
  <2> QED BY <1>2, <2>1 DEF b
<1>5. EventsOf(k, b) = {}
  <2> SUFFICES ASSUME EventsOf(k, b) # {} PROVE FALSE
    OBVIOUS
  <2>1. PICK i \in EventsOf(k, b) : b[i].value = 1 /\ \A j \in EventsOf(k, b) : j <= i
    BY AfterIs
  <2>2. i \in 1..(Len(q) - n) /\ i + n \in EventsOf(k, q) /\ q[i + n].value = 1
    BY <1>2, <1>3, <1>4, <2>1
  <2>3. ASSUME NEW j \in EventsOf(k, q) PROVE j <= i + n
    <3>1. CASE j \in 1..n
      BY <1>0, <2>2, <3>1
    <3>2. CASE j \notin 1..n
      <4>1. j \in 1..Len(q) /\ j - n \in 1..(Len(q) - n) /\ (j - n) + n = j /\ q[j].code = k
        BY <1>3, <1>4, <3>2
      <4>2. j - n \in EventsOf(k, b)
        BY <1>3, <4>1
      <4>3. j - n <= i
        BY <2>1, <4>2
      <4> QED BY <1>0, <2>2, <4>1, <4>3
    <3> QED BY <3>1, <3>2
  <2> QED BY <2>2, <2>3, AfterIs
<1>6. k \in AfterAt(d, q, G)
  BY <1>5, AfterIs
<1>7. \A i \in EventsOf(k, q) : i \in 1..n
  <2> SUFFICES ASSUME NEW i \in EventsOf(k, q), i \notin 1..n PROVE FALSE
    OBVIOUS
  <2>1. i - n \in 1..(Len(q) - n) /\ q[(i - n) + n].code = k
    BY <1>3, <1>4
  <2>2. i - n \in EventsOf(k, b)
    BY <1>3, <2>1
  <2> QED BY <1>5, <2>2
<1>8. EventsOf(k, q) # {}
  <2> SUFFICES ASSUME EventsOf(k, q) = {} PROVE k \in After(d, q)
    OBVIOUS
  <2>1. k \in d
    BY <1>6 DEF AfterAt
  <2> QED BY <2>1, AfterIs
<1>9. PICK i \in EventsOf(k, q) : \A j \in EventsOf(k, q) : j <= i
  <2>1. EventsOf(k, q) \in SUBSET (1..Len(q))
    BY <1>3
  <2> QED BY <1>0, <1>8, <2>1, Greatest
<1>10. q[i].value # 1
  BY <1>9, AfterIs
<1>11. q[i].value \in {0, 1}
  BY <1>3, Events DEF Event
<1>12. i \notin G
  <2> SUFFICES ASSUME i \in G PROVE FALSE
    OBVIOUS
  <2>1. PICK h \in EventsOf(k, q) \cap G :
            q[h].value = 1 /\ \A j \in EventsOf(k, q) \cap G : j <= h
    BY <1>6, <1>9 DEF AfterAt
  <2>2. i <= h /\ h <= i /\ i \in Nat /\ h \in Nat
    BY <1>3, <1>9, <2>1
  <2> QED BY <1>10, <2>1, <2>2
<1> QED BY <1>7, <1>9, <1>10, <1>11, <1>12

(* What the queue functions work on; and a queue that leaves no key down    *)
(* but those of ks and the missed ones.                                     *)
Snapshot == [pending : Seq(Event), buffers : Seq(Chain), down : SUBSET Key, missed : SUBSET Key]
Sound(s, ks) ==
    /\ s \in Snapshot /\ Len(s.pending) <= MaxPending /\ Len(s.buffers) <= QSize
    /\ After(s.down, s.pending) \subseteq ks \cup s.missed

(* What pumpQueue handles is a prefix of the events and of the chains.      *)
LEMMA HandledPrefix ==
    ASSUME NEW s \in Snapshot
    PROVE  \E n \in 0..Len(s.pending) :
               /\ n \in 0..Len(s.buffers)
               /\ Handled(s) = 1..n /\ Cardinality(Handled(s)) = n
<1> DEFINE m == Least(Len(s.pending), Len(s.buffers))
           T == {n \in Nat : n <= m /\ \A i \in Handled(s) : i <= n}
<1>1. /\ s.pending \in Seq(Event) /\ s.buffers \in Seq(Chain)
      /\ Len(s.pending) \in Nat /\ Len(s.buffers) \in Nat
  BY LenProperties DEF Snapshot
<1>2. m \in Nat /\ m <= Len(s.pending) /\ m <= Len(s.buffers)
  BY <1>1 DEF Least
<1> HIDE DEF m
<1>3. Handled(s) = {i \in 1..m : enabled /\ \A j \in 1..i : s.buffers[j] # "malformed"}
  BY DEF Handled, m
<1>4. m \in T
  BY <1>2, <1>3
<1>5. PICK n \in T : \A y \in T : n <= y
  <2>1. T \in SUBSET Nat
    OBVIOUS
  <2> HIDE DEF T
  <2> QED BY <1>4, <2>1, LeastElement
<1>6. n \in Nat /\ n <= m /\ \A i \in Handled(s) : i <= n
  OBVIOUS
<1>7. Handled(s) \subseteq 1..n
  BY <1>3, <1>6
<1>8. n = 0 \/ n \in Handled(s)
  <2> SUFFICES ASSUME n # 0, n \notin Handled(s) PROVE FALSE
    OBVIOUS
  <2>1. n - 1 \in Nat /\ n - 1 <= m /\ ~(n <= n - 1)
    BY <1>2, <1>6
  <2>2. ASSUME NEW i \in Handled(s) PROVE i <= n - 1
    <3>1. i \in Nat /\ i <= n /\ i # n
      BY <1>3, <1>6
    <3> QED BY <1>6, <3>1
  <2>3. n - 1 \in T
    BY <2>1, <2>2
  <2> QED BY <1>5, <2>1, <2>3
<1> HIDE DEF T
<1>9. 1..n \subseteq Handled(s)
  <2> SUFFICES ASSUME NEW i \in 1..n PROVE i \in Handled(s)
    OBVIOUS
  <2>1. n \in Handled(s)
    BY <1>6, <1>8
  <2>2. i \in 1..m /\ \A j \in 1..i : j \in 1..n
    BY <1>2, <1>6
  <2> QED BY <1>3, <2>1, <2>2
<1>10. Cardinality(1..n) = n
  <2>1. Cardinality(1..n) = IF 1 > n THEN 0 ELSE n - 1 + 1
    BY <1>6, FS_Interval
  <2> QED BY <1>6, <2>1
<1>11. n \in 0..Len(s.pending) /\ n \in 0..Len(s.buffers)
  BY <1>1, <1>2, <1>6
<1>12. Handled(s) = 1..n
  BY <1>7, <1>9
<1> QED BY <1>10, <1>11, <1>12

(* Delivery changes nothing about it: a key-up it loses is a missed one.    *)
LEMMA PumpedSound ==
    ASSUME NEW s, NEW ks, Sound(s, ks)
    PROVE  Sound(Pumped(s), ks)
<1>1. /\ s \in Snapshot /\ s.pending \in Seq(Event) /\ s.buffers \in Seq(Chain)
      /\ s.down \in SUBSET Key /\ s.missed \in SUBSET Key
      /\ Len(s.pending) <= MaxPending /\ Len(s.buffers) <= QSize
      /\ After(s.down, s.pending) \subseteq ks \cup s.missed
  BY DEF Sound, Snapshot
<1>2. /\ Len(s.pending) \in Nat /\ Len(s.buffers) \in Nat
      /\ MaxPending \in Nat /\ QSize \in Nat
  BY <1>1, LenProperties, InputAssumption
<1>3. PICK n \in 0..Len(s.pending) :
          n \in 0..Len(s.buffers) /\ Handled(s) = 1..n /\ Cardinality(Handled(s)) = n
  BY <1>1, HandledPrefix
<1> DEFINE b == SubSeq(s.pending, n + 1, Len(s.pending))
           c == SubSeq(s.buffers, n + 1, Len(s.buffers))
           G == Good(s)
<1>4. G \in SUBSET (1..n)
  BY <1>3 DEF Good
<1>5. /\ b \in Seq(Event) /\ Len(b) = Len(s.pending) - n
      /\ After(AfterAt(s.down, s.pending, G), b) \subseteq After(s.down, s.pending) \cup LostUps(s)
  <2> HIDE DEF G
  <2>1. LostUps(s) = {k \in Key : \E i \in EventsOf(k, s.pending) \cap ((1..n) \ G) :
                        s.pending[i].value = 0 /\ \A j \in EventsOf(k, s.pending) : j <= i}
    BY <1>3 DEF LostUps, G
  <2> QED BY <1>1, <1>4, <2>1, AfterHandled
<1>6. c \in Seq(Chain) /\ Len(c) <= QSize
  <2>1. \A i \in (n + 1)..Len(s.buffers) : s.buffers[i] \in Chain
    BY <1>1, <1>2, <1>3, ElementOfSeq
  <2>2. c \in Seq(Chain) /\ Len(c) = IF n + 1 <= Len(s.buffers)
                                      THEN Len(s.buffers) - (n + 1) + 1 ELSE 0
    BY <1>2, <1>3, <2>1, SubSeqProperties
  <2> HIDE DEF c
  <2> QED BY <1>1, <1>2, <1>3, <2>2
<1>7. Pumped(s) = [s EXCEPT !.pending = b, !.buffers = c, !.down = AfterAt(s.down, s.pending, G),
                            !.missed = s.missed \cup LostUps(s)]
  BY <1>3 DEF Pumped
<1> HIDE DEF b, c, G
<1>8. /\ Pumped(s) \in Snapshot /\ Pumped(s).pending = b /\ Pumped(s).buffers = c
      /\ Pumped(s).down = AfterAt(s.down, s.pending, G)
      /\ Pumped(s).missed = s.missed \cup LostUps(s)
  <2>1. AfterAt(s.down, s.pending, G) \in SUBSET Key /\ s.missed \cup LostUps(s) \in SUBSET Key
    BY <1>1 DEF AfterAt, LostUps
  <2> QED BY <1>1, <1>5, <1>6, <1>7, <2>1 DEF Snapshot
<1>9. Len(b) <= MaxPending
  BY <1>1, <1>2, <1>3, <1>5
<1> QED BY <1>1, <1>5, <1>6, <1>8, <1>9 DEF Sound

(* An event decides about its key, and a full queue misses a key-up at most. *)
LEMMA EnqueuedSound ==
    ASSUME NEW s, NEW ks, Sound(s, ks), NEW k \in Key, NEW v \in {0, 1}
    PROVE  Sound(Enqueued(s, KeyEvent(k, v)), With(ks, k, v))
<1> DEFINE e == KeyEvent(k, v)
           q == Append(s.pending, e)
           full == Len(q) > MaxPending
           r == IF full THEN Tail(q) ELSE q
           dropped == {j \in Key : full /\ q[1] = [code |-> j, value |-> 0]
                                   /\ EventsOf(j, Tail(q)) = {}}
           t == [s EXCEPT !.pending = r, !.missed = (s.missed \ {e.code}) \cup dropped]
<1>1. /\ s \in Snapshot /\ s.pending \in Seq(Event) /\ s.buffers \in Seq(Chain)
      /\ s.down \in SUBSET Key /\ s.missed \in SUBSET Key
      /\ Len(s.pending) <= MaxPending /\ Len(s.buffers) <= QSize
      /\ After(s.down, s.pending) \subseteq ks \cup s.missed
  BY DEF Sound, Snapshot
<1>2. e \in Event /\ e.code = k /\ e.value = v
  BY DEF KeyEvent, Event
<1>3. Enqueued(s, e) = Pumped(t)
  BY DEF Enqueued
<1> HIDE DEF e
<1>4. q \in Seq(Event) /\ q # <<>> /\ Len(q) = Len(s.pending) + 1 /\ Len(s.pending) \in Nat
  <2>1. q \in Seq(Event) /\ Len(q) = Len(s.pending) + 1 /\ Len(s.pending) \in Nat
    BY <1>1, <1>2, AppendProperties, LenProperties
  <2> QED BY <2>1, EmptySeq, LenProperties
<1>5. After(s.down, q) = With(After(s.down, s.pending), k, v)
  BY <1>1, <1>2, AfterPushed
<1>6. After(s.down, q) \subseteq With(ks, k, v) \cup (s.missed \ {k})
  BY <1>1, <1>5 DEF With
<1> HIDE DEF q
<1>7. r \in Seq(Event) /\ Len(r) <= MaxPending
  <2>1. Tail(q) \in Seq(Event) /\ Len(Tail(q)) = Len(q) - 1
    BY <1>4, HeadTailProperties
  <2>2. MaxPending \in Nat
    BY InputAssumption
  <2>3. CASE full
    BY <1>1, <1>4, <2>1, <2>2, <2>3
  <2>4. CASE ~full
    BY <1>4, <2>2, <2>4
  <2> QED BY <2>3, <2>4
<1>8. After(s.down, r) \subseteq After(s.down, q) \cup dropped
  <2>1. CASE full
    BY <1>1, <1>4, <2>1, AfterDropped
  <2>2. CASE ~full
    BY <2>2
  <2> QED BY <2>1, <2>2
<1>9. dropped \in SUBSET Key
  OBVIOUS
<1> HIDE DEF r, dropped
<1>10. /\ t \in Snapshot /\ t.pending = r /\ t.down = s.down /\ t.buffers = s.buffers
       /\ t.missed = (s.missed \ {k}) \cup dropped
  BY <1>1, <1>2, <1>7, <1>9 DEF Snapshot
<1> HIDE DEF t
<1>11. Sound(t, With(ks, k, v))
  BY <1>1, <1>6, <1>7, <1>8, <1>10 DEF Sound
<1> QED BY <1>3, <1>11, PumpedSound DEF e

(* The key-ups are given to every key of the set.                           *)
LEMMA Orders ==
    ASSUME NEW S, IsFiniteSet(S), NEW keys \in SetToSeqs(S)
    PROVE  /\ Len(keys) \in Nat /\ \A n \in 1..Len(keys) : keys[n] \in S
           /\ \A k \in S : \E n \in 1..Len(keys) : keys[n] = k
<1> DEFINE N == Cardinality(S)
<1>1. N \in Nat /\ keys \in [1..N -> S] /\ \A i, j \in 1..N : i # j => keys[i] # keys[j]
  BY FS_CardinalityType DEF SetToSeqs
<1>2. Len(keys) = N
  BY <1>1
<1>3. IsFiniteSet(1..N) /\ Cardinality(1..N) = N
  <2>1. IsFiniteSet(1..N) /\ Cardinality(1..N) = IF 1 > N THEN 0 ELSE N - 1 + 1
    BY <1>1, FS_Interval
  <2> QED BY <1>1, <2>1
<1>4. keys \in Injection(1..N, S)
  BY <1>1 DEF Injection, IsInjective
<1>5. keys \in Surjection(1..N, S)
  BY <1>3, <1>4, FS_Injection
<1> QED BY <1>1, <1>2, <1>5 DEF Surjection

(* Focus loss: when all key-ups are queued, no key is down but missed ones. *)
LEMMA ReleasedSound ==
    ASSUME NEW S \in SUBSET Key, NEW s, Sound(s, S), NEW keys \in SetToSeqs(S)
    PROVE  Sound(Released(s, keys), {})
<1> DEFINE N    == Len(keys)
           Up(n) == KeyEvent(keys[n], 0)
           c    == CHOOSE f : f = [n \in 0..N |-> IF n = 0 THEN s ELSE Enqueued(f[n - 1], Up(n))]
           Left(n) == S \ {keys[m] : m \in 1..n}
<1>0. IsFiniteSet(S)
  BY InputAssumption, FS_Subset
<1>1. /\ N \in Nat /\ \A n \in 1..N : keys[n] \in S /\ keys[n] \in Key
      /\ \A k \in S : \E n \in 1..N : keys[n] = k
  BY <1>0, Orders
<1>2. Released(s, keys) = c[N]
  BY DEF Released
<1> HIDE DEF N, c
<1>3. ASSUME NEW n \in 1..N, NEW t, Sound(t, Left(n - 1))
      PROVE  Sound(Enqueued(t, Up(n)), Left(n))
  <2>1. n \in Nat /\ n - 1 \in Nat /\ 1..n = 1..(n - 1) \cup {n}
    BY <1>1
  <2>2. With(Left(n - 1), keys[n], 0) = Left(n)
    BY <2>1 DEF With
  <2> HIDE DEF Left
  <2>3. Sound(Enqueued(t, KeyEvent(keys[n], 0)), With(Left(n - 1), keys[n], 0))
    BY <1>1, <1>3, EnqueuedSound
  <2> QED BY <2>2, <2>3
<1>4. Left(0) = S /\ Left(N) = {}
  BY <1>1
<1> HIDE DEF Left
<1>5. \E g : g = [n \in 0..N |-> IF n = 0 THEN s ELSE Enqueued(g[n - 1], Up(n))]
  <2> DEFINE Runs(g, n) == /\ DOMAIN g = 0..n /\ g[0] = s
                           /\ \A m \in 1..n : g[m] = Enqueued(g[m - 1], Up(m))
             T == {n \in 0..N : ~ \E g : g = [m \in 0..n |-> g[m]] /\ Runs(g, n)}
  <2>1. T = {}
    <3> SUFFICES ASSUME T # {} PROVE FALSE
      OBVIOUS
    <3>1. PICK x \in T : \A y \in T : x <= y
      <4>1. T \in SUBSET Nat
        BY <1>1
      <4> HIDE DEF T
      <4> QED BY <4>1, LeastElement
    <3>2. x \in 0..N /\ ~ \E g : g = [m \in 0..x |-> g[m]] /\ Runs(g, x)
      OBVIOUS
    <3>3. CASE x = 0
      <4> DEFINE g == [m \in 0..0 |-> s]
      <4>1. g = [m \in 0..0 |-> g[m]] /\ Runs(g, 0)
        OBVIOUS
      <4> QED BY <3>2, <3>3, <4>1
    <3>4. CASE x # 0
      <4>1. x - 1 \in 0..N /\ x - 1 \in Nat /\ ~(x <= x - 1) /\ x \in Nat /\ x >= 1
        BY <1>1, <3>4
      <4>2. PICK g : g = [m \in 0..(x - 1) |-> g[m]] /\ Runs(g, x - 1)
        BY <3>1, <4>1
      <4> DEFINE h == [m \in 0..x |-> IF m = x THEN Enqueued(g[x - 1], Up(x)) ELSE g[m]]
      <4>3. h = [m \in 0..x |-> h[m]] /\ DOMAIN h = 0..x
        OBVIOUS
      <4>4. h[0] = s
        BY <4>1, <4>2
      <4>5. \A m \in 1..x : h[m] = Enqueued(h[m - 1], Up(m))
        <5> SUFFICES ASSUME NEW m \in 1..x PROVE h[m] = Enqueued(h[m - 1], Up(m))
          OBVIOUS
        <5>1. m \in 0..x /\ m - 1 \in 0..x /\ m - 1 # x
          BY <4>1
        <5>2. h[m - 1] = g[m - 1]
          BY <5>1
        <5>3. CASE m = x
          BY <5>1, <5>2, <5>3
        <5>4. CASE m # x
          <6>1. m \in 1..(x - 1)
            BY <4>1, <5>4
          <6>2. h[m] = g[m]
            BY <5>1, <5>4
          <6> QED BY <4>2, <5>2, <6>1, <6>2
        <5> QED BY <5>3, <5>4
      <4> HIDE DEF h
      <4> QED BY <3>2, <4>3, <4>4, <4>5
    <3> QED BY <3>3, <3>4
  <2>2. PICK g : g = [m \in 0..N |-> g[m]] /\ Runs(g, N)
    BY <1>1, <2>1
  <2>3. \A n \in 0..N : g[n] = IF n = 0 THEN s ELSE Enqueued(g[n - 1], Up(n))
    <3> SUFFICES ASSUME NEW n \in 0..N
                 PROVE  g[n] = IF n = 0 THEN s ELSE Enqueued(g[n - 1], Up(n))
      OBVIOUS
    <3>1. n = 0 \/ n \in 1..N
      BY <1>1
    <3> QED BY <2>2, <3>1
  <2>4. g = [n \in 0..N |-> IF n = 0 THEN s ELSE Enqueued(g[n - 1], Up(n))]
    BY <2>2, <2>3
  <2> QED BY <2>4
<1>6. c = [n \in 0..N |-> IF n = 0 THEN s ELSE Enqueued(c[n - 1], Up(n))]
  BY <1>5, Zenon DEF c
<1>7. c[0] = s /\ \A n \in 1..N : c[n] = Enqueued(c[n - 1], Up(n))
  <2>1. 0 \in 0..N /\ \A n \in 1..N : n \in 0..N /\ n # 0
    BY <1>1
  <2> QED BY <1>6, <2>1
<1> HIDE DEF Up
<1>8. \A n \in 0..N : Sound(c[n], Left(n))
  <2> DEFINE T == {n \in 0..N : ~ Sound(c[n], Left(n))}
  <2> SUFFICES ASSUME T # {} PROVE FALSE
    OBVIOUS
  <2>1. T \in SUBSET Nat
    BY <1>1
  <2>2. PICK x \in T : \A y \in T : x <= y
    <3> HIDE DEF T
    <3> QED BY <2>1, LeastElement
  <2>3. x \in 0..N /\ ~ Sound(c[x], Left(x))
    OBVIOUS
  <2>4. x # 0
    BY <1>4, <1>7, <2>3
  <2>5. x \in 1..N /\ x - 1 \in 0..N /\ ~(x <= x - 1)
    BY <1>1, <2>3, <2>4
  <2>6. Sound(c[x - 1], Left(x - 1))
    BY <2>2, <2>5
  <2>7. Sound(Enqueued(c[x - 1], Up(x)), Left(x))
    BY <1>3, <2>5, <2>6 DEF Up
  <2> QED BY <1>7, <2>3, <2>5, <2>7
<1> QED BY <1>1, <1>2, <1>4, <1>8

(* The state as the queue functions see it.                                 *)
LEMMA SoundHere ==
    ASSUME InputTypeOK
    PROVE  Sound(Here, held) <=> NoStuckKey
<1>1. Here \in Snapshot /\ Len(Here.pending) <= MaxPending /\ Len(Here.buffers) <= QSize
  BY DEF InputTypeOK, Here, Snapshot
<1>2. Here.pending = pendingHost /\ Here.down = guestDown /\ Here.missed = missed
  BY DEF Here
<1> QED BY <1>1, <1>2 DEF Sound, NoStuckKey

(* A step that leaves the queue in such a state.                            *)
LEMMA SoundNext ==
    ASSUME NEW s, Sound(s, held'), Becomes(s), enabled' \in BOOLEAN, toKick' \in BOOLEAN,
           pressed' \subseteq Key, held' \subseteq Key
    PROVE  InputTypeOK' /\ NoStuckKey'
<1>1. /\ s.pending \in Seq(Event) /\ s.buffers \in Seq(Chain) /\ s.down \subseteq Key
      /\ s.missed \subseteq Key /\ Len(s.pending) <= MaxPending /\ Len(s.buffers) <= QSize
      /\ After(s.down, s.pending) \subseteq held' \cup s.missed
  BY DEF Sound, Snapshot
<1>2. pendingHost' = s.pending /\ buffers' = s.buffers /\ guestDown' = s.down /\ missed' = s.missed
  BY DEF Becomes
<1>3. InputTypeOK'
  BY <1>1, <1>2 DEF InputTypeOK
<1>4. NoStuckKey'
  BY <1>1, <1>2 DEF NoStuckKey, After, AfterAt, EventsOf
<1> QED BY <1>3, <1>4

(* Nothing is down when there was nothing and nothing comes.                *)
LEMMA NothingDown == After({}, <<>>) = {}
<1>1. \A k \in Key : EventsOf(k, <<>>) = {}
  BY DEF EventsOf
<1> QED BY <1>1, AfterIs

(* One step of the keyboard, action by action.                              *)
LEMMA InputStep ==
    ASSUME InputTypeOK, NoStuckKey, [InputNext]_inputVars
    PROVE  InputTypeOK' /\ NoStuckKey'
<1>0. /\ Sound(Here, held)
      /\ enabled \in BOOLEAN /\ toKick \in BOOLEAN
      /\ buffers \in Seq(Chain) /\ Len(buffers) <= QSize
      /\ pressed \subseteq Key /\ held \subseteq Key
  BY SoundHere DEF InputTypeOK
<1>1. ASSUME NEW k \in Key, NEW v \in {0, 1}, HandleDomKey(k, v)
      PROVE  InputTypeOK' /\ NoStuckKey'
  <2>1. Sound(Enqueued(Here, KeyEvent(k, v)), With(held, k, v))
    BY <1>0, EnqueuedSound
  <2>2. /\ With(held, k, v) \subseteq Key /\ With(pressed, k, v) \subseteq Key
    BY <1>0 DEF With
  <2>3. /\ Becomes(Enqueued(Here, KeyEvent(k, v)))
        /\ held' = With(held, k, v) /\ pressed' = With(pressed, k, v)
        /\ enabled' = enabled /\ toKick' = toKick
    BY <1>1 DEF HandleDomKey, driverVars
  <2> QED BY <1>0, <2>1, <2>2, <2>3, SoundNext
<1>2. ASSUME NEW k \in Key, NEW v \in {0, 1}, InputEvent(k, v)
      PROVE  InputTypeOK' /\ NoStuckKey'
  <2>1. Sound(Enqueued(Here, KeyEvent(k, v)), With(held, k, v))
    BY <1>0, EnqueuedSound
  <2>2. With(held, k, v) \subseteq Key
    BY <1>0 DEF With
  <2>3. /\ Becomes(Enqueued(Here, KeyEvent(k, v)))
        /\ held' = With(held, k, v) /\ pressed' = pressed
        /\ enabled' = enabled /\ toKick' = toKick
    BY <1>2 DEF InputEvent, driverVars
  <2> QED BY <1>0, <2>1, <2>2, <2>3, SoundNext
<1>3. CASE HandleFocusLoss
  <2> DEFINE s0 == [Here EXCEPT !.missed = @ \cup (held \ pressed)]
  <2>1. Sound(s0, pressed)
    <3>1. /\ Here \in Snapshot /\ Len(Here.pending) <= MaxPending /\ Len(Here.buffers) <= QSize
          /\ After(Here.down, Here.pending) \subseteq held \cup Here.missed
      BY <1>0 DEF Sound
    <3>2. /\ s0 \in Snapshot /\ s0.pending = Here.pending /\ s0.down = Here.down
          /\ s0.buffers = Here.buffers
          /\ s0.missed = Here.missed \cup (held \ pressed)
      BY <1>0, <3>1 DEF Snapshot
    <3> HIDE DEF s0
    <3> QED BY <3>1, <3>2 DEF Sound
  <2>2. PICK keys \in SetToSeqs(pressed) : Becomes(Released(s0, keys))
    BY <1>3 DEF HandleFocusLoss
  <2>3. /\ held' = {} /\ pressed' = {} /\ enabled' = enabled /\ toKick' = toKick
    BY <1>3 DEF HandleFocusLoss, driverVars
  <2> HIDE DEF s0
  <2>4. Sound(Released(s0, keys), {})
    BY <1>0, <2>1, ReleasedSound
  <2> QED BY <1>0, <2>2, <2>3, <2>4, SoundNext
<1>4. CASE Reset
  <2>1. <<>> \in Seq(Event) /\ <<>> \in Seq(Chain) /\ Len(<<>>) = 0
        /\ 0 <= MaxPending /\ 0 <= QSize
    BY InputAssumption
  <2>2. InputTypeOK'
    BY <1>0, <1>4, <2>1 DEF Reset, InputTypeOK
  <2>3. NoStuckKey'
    BY <1>4, NothingDown DEF Reset, NoStuckKey, After, AfterAt, EventsOf
  <2> QED BY <2>2, <2>3
<1>5. CASE Enable
  <2>1. Becomes(Here) /\ held' = held /\ enabled' = TRUE /\ toKick' = toKick /\ pressed' = pressed
    BY <1>5 DEF Enable, Becomes, Here
  <2> QED BY <1>0, <2>1, SoundNext
<1>6. CASE PostBuffer
  <2>1. buffers' \in Seq(Chain) /\ Len(buffers') <= QSize
    <3>1. PICK c \in Chain : buffers' = Append(buffers, c)
      BY <1>6 DEF PostBuffer
    <3>2. Len(buffers) < QSize /\ Len(buffers) \in Nat /\ QSize \in Nat
      BY <1>0, <1>6, LenProperties, InputAssumption DEF PostBuffer
    <3>3. buffers' \in Seq(Chain) /\ Len(buffers') = Len(buffers) + 1
      BY <1>0, <3>1, AppendProperties
    <3> QED BY <3>2, <3>3
  <2>2. InputTypeOK'
    BY <2>1, <1>6 DEF PostBuffer, InputTypeOK
  <2>3. NoStuckKey'
    BY <1>6 DEF PostBuffer, NoStuckKey, After, AfterAt, EventsOf
  <2> QED BY <2>2, <2>3
<1>7. CASE OnQueueNotify
  <2>1. /\ Becomes(Pumped(Here)) /\ held' = held /\ enabled' = enabled /\ toKick' = FALSE
        /\ pressed' = pressed
    BY <1>7 DEF OnQueueNotify
  <2> QED BY <1>0, <2>1, PumpedSound, SoundNext
<1>8. CASE UNCHANGED inputVars
  <2>1. /\ Becomes(Here) /\ held' = held /\ enabled' = enabled /\ toKick' = toKick
        /\ pressed' = pressed
    BY <1>8 DEF inputVars, driverVars, Becomes, Here
  <2> QED BY <1>0, <2>1, SoundNext
<1> QED BY <1>1, <1>2, <1>3, <1>4, <1>5, <1>6, <1>7, <1>8 DEF InputNext, KeyInput, Driver

LEMMA InputStart ==
    ASSUME InputInit
    PROVE  InputTypeOK /\ NoStuckKey
<1>1. <<>> \in Seq(Event) /\ <<>> \in Seq(Chain) /\ Len(<<>>) = 0
      /\ 0 <= MaxPending /\ 0 <= QSize
  BY InputAssumption
<1>2. InputTypeOK
  BY <1>1 DEF InputInit, InputTypeOK
<1> QED BY <1>2, NothingDown DEF InputInit, NoStuckKey

-----------------------------------------------------------------------------
(* The queue stays within MaxPending, the chains within the event queue, for  *)
(* any set of keys and any sizes (virtio_input.js:104).                     *)
THEOREM InputTypeCorrect == InputSpec => []InputTypeOK
<1>1. InputInit => InputTypeOK /\ NoStuckKey
  BY InputStart
<1>2. InputTypeOK /\ NoStuckKey /\ [InputNext]_inputVars => (InputTypeOK /\ NoStuckKey)'
  BY InputStep
<1> QED BY <1>1, <1>2, PTL DEF InputSpec

(* Once what is queued has arrived, the guest takes no key for down that the *)
(* host does not, but those whose key-up was missed: for any set of keys, in *)
(* whatever order focus loss releases them (virtio_input.js:77).            *)
THEOREM NoStuckKeyCorrect == InputSpec => []NoStuckKey
<1>1. InputInit => InputTypeOK /\ NoStuckKey
  BY InputStart
<1>2. InputTypeOK /\ NoStuckKey /\ [InputNext]_inputVars => (InputTypeOK /\ NoStuckKey)'
  BY InputStep
<1> QED BY <1>1, <1>2, PTL DEF InputSpec

=============================================================================
