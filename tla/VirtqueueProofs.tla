---------------------------- MODULE VirtqueueProofs ----------------------------
(* The ring engine implements the contract of a virtqueue for every queue     *)
(* size, every index modulus the size divides and every number of wraps, and  *)
(* no interrupt a sleeping driver waits for is lost.                          *)
EXTENDS Virtqueue, SequenceTheorems, FiniteSetTheorems, TLAPS

-----------------------------------------------------------------------------
(* Two counters that wrap: indices at Mod, slots at QSize.                    *)

LEMMA Divides == \A m \in Nat \ {0}, x \in Int : (x - (x % m)) % m = 0
BY SMTT(30)

(* Division, with the quotient and the remainder named.                       *)
LEMMA Division ==
    ASSUME NEW x \in Int, NEW m \in Nat \ {0}
    PROVE  \E k \in Int : \E r \in 0..(m - 1) : x = m * k + r /\ x % m = r
<1>1. PICK r \in 0..(m - 1) : r = x % m
  OBVIOUS
<1>2. (x - (x % m)) % m = 0
  BY Divides
<1>3. PICK y \in Int : y = x - r
  BY <1>1
<1>4. y % m = 0
  BY <1>1, <1>2, <1>3
<1>5. PICK k \in Int : y = m * k
  BY <1>4
<1>6. x = y + r
  BY <1>3
<1>7. x = m * k + r
  BY <1>5, <1>6
<1>8. QED BY <1>1, <1>7

LEMMA Remainder ==
    ASSUME NEW m \in Nat \ {0}, NEW k \in Int, NEW r \in 0..(m - 1)
    PROVE  (m * k + r) % m = r
OBVIOUS

LEMMA IncStep == \A i \in Idx : Inc(i) = IF i = Mod - 1 THEN 0 ELSE i + 1
BY ModAssumption, QSizeAssumption DEF Idx, Inc

LEMMA MinusValue ==
    \A i, j \in Idx : Minus(i, j) = IF i >= j THEN i - j ELSE i - j + Mod
<1> SUFFICES ASSUME NEW i \in Idx, NEW j \in Idx
             PROVE  Minus(i, j) = IF i >= j THEN i - j ELSE i - j + Mod
  OBVIOUS
<1> DEFINE x == i - j
<1>1. x \in Int /\ x \in (-Mod)..(Mod - 1) /\ x # -Mod /\ Mod \in Nat \ {0}
  BY ModAssumption, QSizeAssumption DEF Idx
<1> HIDE DEF x
<1>2. x % Mod = IF x >= 0 THEN x ELSE x + Mod
  BY <1>1
<1>3. QED BY <1>2 DEF x, Minus, Idx, ModAssumption

LEMMA IndexSteps ==
    ASSUME NEW lo \in Idx, NEW hi \in Idx
    PROVE  /\ Inc(lo) \in Idx
           /\ Minus(hi, lo) \in 0..(Mod - 1)
           /\ Minus(hi, lo) = 0 <=> hi = lo
           /\ Minus(hi, lo) < Mod - 1 => Minus(Inc(hi), lo) = Minus(hi, lo) + 1
           /\ hi # lo => Minus(hi, Inc(lo)) = Minus(hi, lo) - 1
<1>1. Inc(lo) \in Idx /\ Inc(hi) \in Idx /\ Mod \in Nat /\ Mod > 1
  BY IncStep, ModAssumption, QSizeAssumption DEF Idx
<1> DEFINE d == Minus(hi, lo)
<1>2. d = IF hi >= lo THEN hi - lo ELSE hi - lo + Mod
  BY MinusValue
<1>3. Minus(Inc(hi), lo) = IF Inc(hi) >= lo THEN Inc(hi) - lo ELSE Inc(hi) - lo + Mod
  BY <1>1, MinusValue
<1>4. Minus(hi, Inc(lo)) = IF hi >= Inc(lo) THEN hi - Inc(lo) ELSE hi - Inc(lo) + Mod
  BY <1>1, MinusValue
<1>5. /\ Inc(lo) = IF lo = Mod - 1 THEN 0 ELSE lo + 1
      /\ Inc(hi) = IF hi = Mod - 1 THEN 0 ELSE hi + 1
  BY IncStep
<1> HIDE DEF d
<1>6. d \in 0..(Mod - 1) /\ (d = 0 <=> hi = lo)
  BY <1>1, <1>2 DEF Idx
<1>7. d < Mod - 1 => Minus(Inc(hi), lo) = d + 1
  BY <1>1, <1>2, <1>3, <1>5 DEF Idx
<1>8. hi # lo => Minus(hi, Inc(lo)) = d - 1
  BY <1>1, <1>2, <1>4, <1>5 DEF Idx
<1>9. QED BY <1>1, <1>6, <1>7, <1>8 DEF d

(* A whole turn of the indices is a whole number of turns of the slots.       *)
LEMMA SlotTurn ==
    ASSUME NEW x \in Int
    PROVE  (x + Mod) % QSize = x % QSize /\ x % QSize \in Slot
<1>1. PICK k \in Int, r \in 0..(QSize - 1) : x = QSize * k + r /\ x % QSize = r
  BY Division, QSizeAssumption
<1>2. PICK c \in Int : Mod = QSize * c
  <2>1. PICK c \in Int, z \in 0..(QSize - 1) : Mod = QSize * c + z /\ Mod % QSize = z
    <3>1. Mod \in Int
      BY ModAssumption
    <3>2. QED BY <3>1, Division, QSizeAssumption
  <2>2. Mod = QSize * c
    BY <2>1, ModAssumption, QSizeAssumption
  <2>3. QED BY <2>2
<1>3. PICK q \in Int : q = k + c
  OBVIOUS
<1>4. QSize * q = QSize * k + QSize * c
  BY <1>3, QSizeAssumption
<1>5. x + Mod = QSize * q + r
  BY <1>1, <1>2, <1>4, QSizeAssumption
<1>6. (x + Mod) % QSize = r
  BY <1>5, Remainder, QSizeAssumption
<1>7. QED BY <1>1, <1>6 DEF Slot

(* Fewer than QSize steps never come back to a slot.                          *)
LEMMA SlotsApart ==
    ASSUME NEW x \in Int, NEW y \in Int, x < y, y < x + QSize
    PROVE  x % QSize # y % QSize
<1> SUFFICES ASSUME x % QSize = y % QSize PROVE FALSE
  OBVIOUS
<1>1. PICK j \in Int, r \in 0..(QSize - 1) : x = QSize * j + r /\ x % QSize = r
  BY Division, QSizeAssumption
<1>2. PICK k \in Int, s \in 0..(QSize - 1) : y = QSize * k + s /\ y % QSize = s
  BY Division, QSizeAssumption
<1>3. PICK d \in Int : d = k - j
  OBVIOUS
<1>4. QSize * d = QSize * k - QSize * j
  BY <1>3, QSizeAssumption
<1>5. y - x = QSize * d
  BY <1>1, <1>2, <1>4, QSizeAssumption
<1>6. d >= 1 => QSize * d >= QSize
  BY QSizeAssumption
<1>7. d <= 0 => QSize * d <= 0
  BY QSizeAssumption
<1>8. QED BY <1>5, <1>6, <1>7, QSizeAssumption

-----------------------------------------------------------------------------
(* The live part of a ring as a queue.                                        *)

Store(ring, hi, h) == [ring EXCEPT ![hi % QSize] = h]

RingQ(ring, lo, hi) == [i \in 1..Minus(hi, lo) |-> ring[(lo + i - 1) % QSize]]

LEMMA RingSeq ==
    ASSUME NEW ring \in [Slot -> Chain], NEW lo \in Idx, NEW hi \in Idx
    PROVE  /\ RingQ(ring, lo, hi) \in Seq(Chain)
           /\ Len(RingQ(ring, lo, hi)) = Minus(hi, lo)
           /\ \A i \in 1..Minus(hi, lo) : RingQ(ring, lo, hi)[i] = ring[(lo + i - 1) % QSize]
           /\ lo = hi => RingQ(ring, lo, hi) = <<>>
<1> DEFINE n == Minus(hi, lo)
           q == RingQ(ring, lo, hi)
<1>1. n \in Nat /\ (n = 0 <=> hi = lo)
  BY IndexSteps, ModAssumption DEF Idx
<1>2. \A i \in 1..n : ring[(lo + i - 1) % QSize] \in Chain
  <2> SUFFICES ASSUME NEW i \in 1..n PROVE ring[(lo + i - 1) % QSize] \in Chain
    OBVIOUS
  <2>1. lo + i - 1 \in Int
    BY <1>1 DEF Idx
  <2>2. (lo + i - 1) % QSize \in Slot
    BY <2>1, SlotTurn
  <2>3. QED BY <2>2
<1>3. q = [i \in 1..n |-> ring[(lo + i - 1) % QSize]]
  BY DEF RingQ
<1> HIDE DEF n, q
<1>4. q \in Seq(Chain) /\ Len(q) = n
  <2>1. q \in [1..n -> Chain]
    BY <1>2, <1>3
  <2>2. q \in Seq(Chain)
    BY <1>1, <2>1
  <2>3. QED BY <1>1, <2>1, <2>2, LenProperties
<1>5. \A i \in 1..n : q[i] = ring[(lo + i - 1) % QSize]
  BY <1>3
<1>6. n = 0 => q = <<>>
  BY <1>4, EmptySeq
<1>7. QED BY <1>1, <1>4, <1>5, <1>6 DEF n, q

(* Writing the slot at hi appends, as long as the ring is not full.           *)
LEMMA RingPush ==
    ASSUME NEW ring \in [Slot -> Chain], NEW lo \in Idx, NEW hi \in Idx, NEW h \in Chain,
           Minus(hi, lo) < QSize
    PROVE  RingQ(Store(ring, hi, h), lo, Inc(hi)) = Append(RingQ(ring, lo, hi), h)
<1> DEFINE n == Minus(hi, lo)
           new == Store(ring, hi, h)
           q == RingQ(ring, lo, hi)
           end == Inc(hi)
           r == RingQ(new, lo, end)
<1>1. n \in Nat /\ n < QSize /\ end \in Idx /\ Minus(end, lo) = n + 1
  BY IndexSteps, ModAssumption, QSizeAssumption DEF Idx
<1>2. hi % QSize \in Slot
  BY SlotTurn DEF Idx
<1>3. new \in [Slot -> Chain]
  BY <1>2 DEF Store
<1>4. hi % QSize = (lo + n) % QSize
  <2>1. n = IF hi >= lo THEN hi - lo ELSE hi - lo + Mod
    BY MinusValue
  <2>2. lo + n = hi \/ lo + n = hi + Mod
    BY <2>1, ModAssumption DEF Idx
  <2>3. QED BY <2>2, SlotTurn DEF Idx
<1>5. /\ q \in Seq(Chain) /\ Len(q) = n
      /\ \A i \in 1..n : q[i] = ring[(lo + i - 1) % QSize]
  BY RingSeq
<1> HIDE DEF n, new, end
<1>6. /\ r \in Seq(Chain) /\ Len(r) = n + 1
      /\ \A i \in 1..(n + 1) : r[i] = new[(lo + i - 1) % QSize]
  <2> DEFINE m == Minus(end, lo)
  <2>1. /\ r \in Seq(Chain) /\ Len(r) = m
        /\ \A i \in 1..m : r[i] = new[(lo + i - 1) % QSize]
    BY <1>1, <1>3, RingSeq
  <2> HIDE DEF r
  <2>2. QED BY <1>1, <2>1
<1>7. \A i \in 1..n : r[i] = q[i]
  <2> SUFFICES ASSUME NEW i \in 1..n PROVE r[i] = q[i]
    OBVIOUS
  <2>1. lo + i - 1 \in Int /\ lo + n \in Int /\ lo + i - 1 < lo + n
        /\ lo + n < (lo + i - 1) + QSize
    BY <1>1, QSizeAssumption, ModAssumption DEF Idx
  <2>2. (lo + i - 1) % QSize # hi % QSize
    BY <1>4, <2>1, SlotsApart
  <2>3. (lo + i - 1) % QSize \in Slot
    BY <2>1, SlotTurn
  <2>4. new[(lo + i - 1) % QSize] = ring[(lo + i - 1) % QSize]
    BY <2>2, <2>3 DEF new, Store
  <2>5. i \in 1..(n + 1)
    BY <1>1
  <2>6. QED BY <1>5, <1>6, <2>4, <2>5
<1>8. r[n + 1] = h
  <2>1. lo + (n + 1) - 1 = lo + n
    BY <1>1 DEF Idx
  <2>2. n + 1 \in 1..(n + 1)
    BY <1>1
  <2>3. r[n + 1] = new[hi % QSize]
    BY <1>4, <1>6, <2>1, <2>2
  <2>4. QED BY <1>2, <2>3 DEF new, Store
<1> HIDE DEF q, r
<1>9. r = Append(q, h)
  <2>1. Append(q, h) \in Seq(Chain) /\ Len(Append(q, h)) = n + 1
        /\ Append(q, h)[n + 1] = h /\ \A i \in 1..n : Append(q, h)[i] = q[i]
    BY <1>5, AppendProperties
  <2>2. \A i \in 1..(n + 1) : r[i] = Append(q, h)[i]
    BY <1>1, <1>7, <1>8, <2>1
  <2>3. QED BY <1>6, <2>1, <2>2, SeqEqual
<1>10. QED BY <1>9 DEF q, r, new, end

(* Moving lo takes the head off.                                              *)
LEMMA RingPop ==
    ASSUME NEW ring \in [Slot -> Chain], NEW lo \in Idx, NEW hi \in Idx, hi # lo
    PROVE  /\ RingQ(ring, lo, hi) # <<>>
           /\ Head(RingQ(ring, lo, hi)) = ring[lo % QSize]
           /\ RingQ(ring, Inc(lo), hi) = Tail(RingQ(ring, lo, hi))
<1> DEFINE n == Minus(hi, lo)
           q == RingQ(ring, lo, hi)
           r == RingQ(ring, Inc(lo), hi)
<1>1. n \in 0..(Mod - 1) /\ n # 0 /\ Inc(lo) \in Idx /\ Minus(hi, Inc(lo)) = n - 1
  BY IndexSteps
<1> HIDE DEF n
<1>2. n \in Nat \ {0}
  BY <1>1, ModAssumption
<1>3. /\ q \in Seq(Chain) /\ Len(q) = n
      /\ \A i \in 1..n : q[i] = ring[(lo + i - 1) % QSize]
  BY RingSeq DEF n
<1>4. /\ r \in Seq(Chain) /\ Len(r) = n - 1
      /\ \A i \in 1..(n - 1) : r[i] = ring[(Inc(lo) + i - 1) % QSize]
  <2> DEFINE m == Minus(hi, Inc(lo))
  <2>1. /\ r \in Seq(Chain) /\ Len(r) = m
        /\ \A i \in 1..m : r[i] = ring[(Inc(lo) + i - 1) % QSize]
    BY <1>1, RingSeq
  <2> HIDE DEF r
  <2>2. QED BY <1>1, <2>1
<1>5. \A i \in 1..(n - 1) : r[i] = q[i + 1]
  <2> SUFFICES ASSUME NEW i \in 1..(n - 1) PROVE r[i] = q[i + 1]
    OBVIOUS
  <2>1. lo + (i + 1) - 1 = lo + i /\ lo + i \in Int /\ Inc(lo) + i - 1 \in Int
        /\ i + 1 \in 1..n
    BY <1>1, <1>2 DEF Idx
  <2>2. Inc(lo) + i - 1 = lo + i \/ (Inc(lo) + i - 1) + Mod = lo + i
    BY <1>1, <1>2, IncStep, ModAssumption DEF Idx
  <2>3. (Inc(lo) + i - 1) % QSize = (lo + i) % QSize
    BY <2>1, <2>2, SlotTurn
  <2>4. QED BY <1>3, <1>4, <2>1, <2>3
<1>6. q[1] = ring[lo % QSize]
  <2>1. 1 \in 1..n /\ lo + 1 - 1 = lo
    BY <1>2 DEF Idx
  <2>2. QED BY <1>3, <2>1
<1> HIDE DEF q, r
<1>7. q # <<>> /\ Head(q) = q[1] /\ Tail(q) \in Seq(Chain) /\ Len(Tail(q)) = n - 1
      /\ \A i \in 1..(n - 1) : Tail(q)[i] = q[i + 1]
  BY <1>2, <1>3, HeadTailProperties, EmptySeq
<1>8. r = Tail(q)
  BY <1>4, <1>5, <1>7, SeqEqual
<1>9. QED BY <1>6, <1>7, <1>8 DEF q, r

-----------------------------------------------------------------------------
(* Where the chains are: with the driver (f), offered (a), at the device (d)  *)
(* or completed (u).                                                          *)

Once(s) == \A i, j \in 1..Len(s) : s[i] = s[j] => i = j

Places(f, a, d, u) ==
    /\ f \subseteq Chain /\ d \subseteq Chain /\ a \in Seq(Chain) /\ u \in Seq(Chain)
    /\ Once(a) /\ Once(u) /\ f \cap d = {}
    /\ \A i \in 1..Len(a) : a[i] \notin f /\ a[i] \notin d
    /\ \A i \in 1..Len(u) : u[i] \notin f /\ u[i] \notin d
    /\ \A i \in 1..Len(a) : \A j \in 1..Len(u) : a[i] # u[j]

(* A queue of distinct chains that leaves one out is not full.                *)
LEMMA RoomForOneMore ==
    ASSUME NEW s \in Seq(Chain), Once(s), NEW h \in Chain,
           \A i \in 1..Len(s) : s[i] # h
    PROVE  Len(s) < QSize
<1>1. IsFiniteSet(Chain) /\ Cardinality(Chain) = QSize
  BY FS_Interval, QSizeAssumption DEF Chain
<1>2. IsFiniteSet(Chain \ {h}) /\ Cardinality(Chain \ {h}) = QSize - 1
  BY <1>1, FS_RemoveElement
<1>3. Len(s) \in Nat /\ s \in [1..Len(s) -> Chain]
  BY LenProperties
<1>4. IsFiniteSet(1..Len(s)) /\ Cardinality(1..Len(s)) = Len(s)
  <2>1. 1 \in Int /\ Len(s) \in Int /\ (1 > Len(s) => Len(s) = 0) /\ Len(s) - 1 + 1 = Len(s)
    BY <1>3
  <2>2. QED BY <2>1, FS_Interval
<1>5. s \in [1..Len(s) -> Chain \ {h}]
  BY <1>3
<1>6. ~(QSize - 1 < Len(s))
  <2> SUFFICES ASSUME QSize - 1 < Len(s) PROVE FALSE
    OBVIOUS
  <2>1. \E i, j \in 1..Len(s) : i # j /\ s[i] = s[j]
    BY <1>2, <1>4, <1>5, FS_PigeonHole
  <2>2. QED BY <2>1 DEF Once
<1>7. QED BY <1>3, <1>6, QSizeAssumption

LEMMA PlacesOffer ==
    ASSUME NEW f, NEW a, NEW d, NEW u, Places(f, a, d, u), NEW h \in f
    PROVE  Len(a) < QSize /\ h \in Chain /\ Places(f \ {h}, Append(a, h), d, u)
<1>1. h \in Chain /\ a \in Seq(Chain) /\ Once(a) /\ \A i \in 1..Len(a) : a[i] # h
  BY DEF Places
<1>2. Len(a) < QSize
  BY <1>1, RoomForOneMore
<1> DEFINE b == Append(a, h)
<1>3. /\ Len(a) \in Nat /\ b \in Seq(Chain) /\ Len(b) = Len(a) + 1
      /\ b[Len(a) + 1] = h /\ \A i \in 1..Len(a) : b[i] = a[i]
  BY <1>1, AppendProperties, LenProperties
<1> HIDE DEF b
<1>4. \A i \in 1..Len(b) : i \in 1..Len(a) \/ i = Len(a) + 1
  BY <1>3
<1>5. Once(b)
  BY <1>1, <1>3, <1>4 DEF Once
<1>6. Places(f \ {h}, b, d, u)
  BY <1>3, <1>4, <1>5 DEF Places
<1>7. QED BY <1>1, <1>2, <1>6 DEF b

LEMMA PlacesConsume ==
    ASSUME NEW f, NEW a, NEW d, NEW u, Places(f, a, d, u), a # <<>>
    PROVE  Places(f, Tail(a), d \cup {Head(a)}, u)
<1>1. /\ a \in Seq(Chain) /\ Len(a) \in Nat \ {0}
  BY EmptySeq DEF Places
<1> DEFINE b == Tail(a)
           h == Head(a)
<1>2. /\ h \in Chain /\ h = a[1] /\ b \in Seq(Chain) /\ Len(b) = Len(a) - 1
      /\ \A i \in 1..Len(b) : b[i] = a[i + 1]
  BY <1>1, HeadTailProperties
<1> HIDE DEF b, h
<1>3. 1 \in 1..Len(a) /\ \A i \in 1..Len(b) : i + 1 \in 1..Len(a) /\ i + 1 # 1
  BY <1>1, <1>2
<1>4. Once(b)
  BY <1>1, <1>2, <1>3 DEF Once, Places
<1>5. \A i \in 1..Len(b) : b[i] # h
  BY <1>2, <1>3 DEF Once, Places
<1>6. Places(f, b, d \cup {h}, u)
  BY <1>2, <1>3, <1>4, <1>5 DEF Places
<1>7. QED BY <1>6 DEF b, h

LEMMA PlacesComplete ==
    ASSUME NEW f, NEW a, NEW d, NEW u, Places(f, a, d, u), NEW h \in d
    PROVE  Len(u) < QSize /\ h \in Chain /\ Places(f, a, d \ {h}, Append(u, h))
<1>1. h \in Chain /\ u \in Seq(Chain) /\ Once(u) /\ \A i \in 1..Len(u) : u[i] # h
  BY DEF Places
<1>2. Len(u) < QSize
  BY <1>1, RoomForOneMore
<1> DEFINE b == Append(u, h)
<1>3. /\ Len(u) \in Nat /\ b \in Seq(Chain) /\ Len(b) = Len(u) + 1
      /\ b[Len(u) + 1] = h /\ \A i \in 1..Len(u) : b[i] = u[i]
  BY <1>1, AppendProperties, LenProperties
<1> HIDE DEF b
<1>4. \A i \in 1..Len(b) : i \in 1..Len(u) \/ i = Len(u) + 1
  BY <1>3
<1>5. Once(b)
  BY <1>1, <1>3, <1>4 DEF Once
<1>6. Places(f, a, d \ {h}, b)
  BY <1>3, <1>4, <1>5 DEF Places
<1>7. QED BY <1>1, <1>2, <1>6 DEF b

LEMMA PlacesReap ==
    ASSUME NEW f, NEW a, NEW d, NEW u, Places(f, a, d, u), u # <<>>
    PROVE  Places(f \cup {Head(u)}, a, d, Tail(u))
<1>1. /\ u \in Seq(Chain) /\ Len(u) \in Nat \ {0}
  BY EmptySeq DEF Places
<1> DEFINE b == Tail(u)
           h == Head(u)
<1>2. /\ h \in Chain /\ h = u[1] /\ b \in Seq(Chain) /\ Len(b) = Len(u) - 1
      /\ \A i \in 1..Len(b) : b[i] = u[i + 1]
  BY <1>1, HeadTailProperties
<1> HIDE DEF b, h
<1>3. 1 \in 1..Len(u) /\ \A i \in 1..Len(b) : i + 1 \in 1..Len(u) /\ i + 1 # 1
  BY <1>1, <1>2
<1>4. Once(b)
  BY <1>1, <1>2, <1>3 DEF Once, Places
<1>5. \A i \in 1..Len(b) : b[i] # h
  BY <1>2, <1>3 DEF Once, Places
<1>6. Places(f \cup {h}, a, d, b)
  BY <1>2, <1>3, <1>4, <1>5 DEF Places
<1>7. QED BY <1>6 DEF b, h

-----------------------------------------------------------------------------
(* The invariant: the device's copy of the used index is the one in memory,   *)
(* a queue that is not set up is empty, and every chain is in one place.      *)

Avail == IF enabled THEN AvailQ ELSE <<>>
Used  == IF enabled THEN UsedQ ELSE <<>>

Idle ==
    /\ free = Chain /\ inFlight = {} /\ driver = "asleep"
    /\ lastAvailIdx = 0 /\ lastUsedIdx = 0 /\ seenUsedIdx = 0

IInv ==
    /\ TypeOK
    /\ enabled => usedIdx = lastUsedIdx
    /\ ~enabled => Idle
    /\ Places(free, Avail, inFlight, Used)

LEMMA Queues ==
    /\ AvailQ = RingQ(availRing, lastAvailIdx, availIdx)
    /\ UsedQ = RingQ(usedRing, seenUsedIdx, usedIdx)
    /\ AvailQ' = RingQ(availRing', lastAvailIdx', availIdx')
    /\ UsedQ' = RingQ(usedRing', seenUsedIdx', usedIdx')
BY DEF AvailQ, UsedQ, RingQ, Minus

LEMMA Slots ==
    ASSUME TypeOK
    PROVE  /\ availIdx \in Idx /\ lastAvailIdx \in Idx /\ usedIdx \in Idx
           /\ lastUsedIdx \in Idx /\ seenUsedIdx \in Idx /\ 0 \in Idx
           /\ Inc(availIdx) \in Idx /\ Inc(lastAvailIdx) \in Idx
           /\ Inc(lastUsedIdx) \in Idx /\ Inc(seenUsedIdx) \in Idx
           /\ availIdx % QSize \in Slot /\ lastAvailIdx % QSize \in Slot
           /\ lastUsedIdx % QSize \in Slot /\ seenUsedIdx % QSize \in Slot
<1>1. /\ availIdx \in Idx /\ lastAvailIdx \in Idx /\ usedIdx \in Idx
      /\ lastUsedIdx \in Idx /\ seenUsedIdx \in Idx
  BY DEF TypeOK
<1>2. Idx \subseteq Int /\ 0 \in Idx
  BY ModAssumption, QSizeAssumption DEF Idx
<1>3. \A i \in Idx : Inc(i) \in Idx /\ i % QSize \in Slot
  BY <1>2, IndexSteps, SlotTurn
<1>4. QED BY <1>1, <1>2, <1>3

LEMMA PlacesNext ==
    Places(free, Avail, inFlight, Used)' <=> Places(free', Avail', inFlight', Used')
BY DEF Places, Once

LEMMA NothingYet == Places(Chain, <<>>, {}, <<>>)
BY EmptySeq DEF Places, Once

LEMMA Zero == 0 \in Idx /\ 0 \in Chain
BY ModAssumption, QSizeAssumption DEF Idx, Chain

LEMMA TypeInit == Init => TypeOK
BY Zero DEF Init, TypeOK

LEMMA TypeStep ==
    ASSUME TypeOK, [Next]_vars
    PROVE  TypeOK'
<1> USE DEF TypeOK
<1>1. CASE PopDescriptorChain
  BY <1>1, Slots DEF PopDescriptorChain, memVars, driverVars
<1>2. ASSUME NEW h \in Chain, CompleteChain(h) PROVE TypeOK'
  BY <1>2, Slots DEF CompleteChain, PushUsed, driverVars
<1>3. CASE Reset
  BY <1>3, Slots DEF Reset, memVars
<1>4. CASE Setup
  BY <1>4, Zero DEF Setup, ZeroRings, driverVars
<1>5. ASSUME NEW h \in Chain, Offer(h) PROVE TypeOK'
  BY <1>5, Slots DEF Offer, deviceVars
<1>6. CASE Interrupt
  BY <1>6 DEF Interrupt
<1>7. CASE Reap
  <2>1. usedRing[seenUsedIdx % QSize] \in Chain
    BY Slots
  <2>2. QED BY <1>7, <2>1, Slots DEF Reap, memVars, deviceVars
<1>8. CASE EnableCallbacks
  BY <1>8 DEF EnableCallbacks, deviceVars
<1>9. CASE Recheck
  BY <1>9 DEF Recheck, deviceVars
<1>10. CASE UNCHANGED vars
  BY <1>10 DEF vars, memVars, deviceVars, driverVars
<1>11. QED BY <1>1, <1>2, <1>3, <1>4, <1>5, <1>6, <1>7, <1>8, <1>9, <1>10
            DEF Next, Device, Driver

-----------------------------------------------------------------------------
(* Each step is the contract's step on the queues, or leaves them alone.      *)

LEMMA ConsumeStep ==
    ASSUME IInv, PopDescriptorChain
    PROVE  Contract!Consume /\ Places(free, Avail, inFlight, Used)'
<1>1. /\ Avail = RingQ(availRing, lastAvailIdx, availIdx)
      /\ Avail' = RingQ(availRing, Inc(lastAvailIdx), availIdx)
      /\ Used' = Used /\ free' = free
      /\ inFlight' = inFlight \cup {availRing[lastAvailIdx % QSize]}
      /\ lastAvailIdx # availIdx
  BY Queues DEF PopDescriptorChain, HasAvailable, Avail, Used, memVars, driverVars
<1>2. Avail # <<>> /\ Head(Avail) = availRing[lastAvailIdx % QSize] /\ Avail' = Tail(Avail)
  BY <1>1, Slots, RingPop DEF IInv, TypeOK
<1>3. Contract!Consume
  BY <1>1, <1>2 DEF Contract!Consume, Avail, Used
<1>4. Places(free, Tail(Avail), inFlight \cup {Head(Avail)}, Used)
  BY <1>2, PlacesConsume DEF IInv
<1>5. QED BY <1>1, <1>2, <1>3, <1>4, PlacesNext

LEMMA CompleteStep ==
    ASSUME IInv, NEW h \in Chain, CompleteChain(h)
    PROVE  Contract!Complete(h) /\ Places(free, Avail, inFlight, Used)'
<1>1. Len(Used) < QSize /\ Places(free, Avail, inFlight \ {h}, Append(Used, h))
  BY PlacesComplete DEF IInv, CompleteChain
<1>2. /\ Used = RingQ(usedRing, seenUsedIdx, usedIdx)
      /\ Used' = RingQ(Store(usedRing, usedIdx, h), seenUsedIdx, Inc(usedIdx))
      /\ Avail' = Avail /\ free' = free /\ inFlight' = inFlight \ {h} /\ h \in inFlight
  BY Queues DEF IInv, CompleteChain, PushUsed, Store, Avail, Used, driverVars
<1>3. Minus(usedIdx, seenUsedIdx) < QSize
  <2>1. usedRing \in [Slot -> Chain] /\ usedIdx \in Idx /\ seenUsedIdx \in Idx
    BY DEF IInv, TypeOK
  <2>2. Len(RingQ(usedRing, seenUsedIdx, usedIdx)) = Minus(usedIdx, seenUsedIdx)
    BY <2>1, RingSeq
  <2>3. QED BY <1>1, <1>2, <2>2
<1>4. Used' = Append(Used, h)
  <2>1. usedRing \in [Slot -> Chain] /\ usedIdx \in Idx /\ seenUsedIdx \in Idx
    BY DEF IInv, TypeOK
  <2>2. RingQ(Store(usedRing, usedIdx, h), seenUsedIdx, Inc(usedIdx))
          = Append(RingQ(usedRing, seenUsedIdx, usedIdx), h)
    BY <1>3, <2>1, RingPush
  <2>3. QED BY <1>2, <2>2
<1>5. Contract!Complete(h)
  BY <1>2, <1>4 DEF Contract!Complete, Avail, Used
<1>6. QED BY <1>1, <1>2, <1>4, <1>5, PlacesNext

LEMMA OfferStep ==
    ASSUME IInv, NEW h \in Chain, Offer(h)
    PROVE  Contract!Offer(h) /\ Places(free, Avail, inFlight, Used)'
<1>1. Len(Avail) < QSize /\ Places(free \ {h}, Append(Avail, h), inFlight, Used)
  BY PlacesOffer DEF IInv, Offer
<1>2. /\ Avail = RingQ(availRing, lastAvailIdx, availIdx)
      /\ Avail' = RingQ(Store(availRing, availIdx, h), lastAvailIdx, Inc(availIdx))
      /\ Used' = Used /\ free' = free \ {h} /\ inFlight' = inFlight /\ h \in free
  BY Queues DEF IInv, Offer, Store, Avail, Used, deviceVars
<1>3. Minus(availIdx, lastAvailIdx) < QSize
  <2>1. availRing \in [Slot -> Chain] /\ availIdx \in Idx /\ lastAvailIdx \in Idx
    BY DEF IInv, TypeOK
  <2>2. Len(RingQ(availRing, lastAvailIdx, availIdx)) = Minus(availIdx, lastAvailIdx)
    BY <2>1, RingSeq
  <2>3. QED BY <1>1, <1>2, <2>2
<1>4. Avail' = Append(Avail, h)
  <2>1. availRing \in [Slot -> Chain] /\ availIdx \in Idx /\ lastAvailIdx \in Idx
    BY DEF IInv, TypeOK
  <2>2. RingQ(Store(availRing, availIdx, h), lastAvailIdx, Inc(availIdx))
          = Append(RingQ(availRing, lastAvailIdx, availIdx), h)
    BY <1>3, <2>1, RingPush
  <2>3. QED BY <1>2, <2>2
<1>5. Contract!Offer(h)
  BY <1>2, <1>4 DEF Contract!Offer, Avail, Used
<1>6. QED BY <1>1, <1>2, <1>4, <1>5, PlacesNext

LEMMA ReapStep ==
    ASSUME IInv, Reap
    PROVE  Contract!Reap /\ Places(free, Avail, inFlight, Used)'
<1>1. /\ Used = RingQ(usedRing, seenUsedIdx, usedIdx)
      /\ Used' = RingQ(usedRing, Inc(seenUsedIdx), usedIdx)
      /\ Avail' = Avail /\ inFlight' = inFlight
      /\ free' = free \cup {usedRing[seenUsedIdx % QSize]}
      /\ seenUsedIdx # usedIdx
  BY Queues DEF Reap, Avail, Used, memVars, deviceVars
<1>2. Used # <<>> /\ Head(Used) = usedRing[seenUsedIdx % QSize] /\ Used' = Tail(Used)
  BY <1>1, Slots, RingPop DEF IInv, TypeOK
<1>3. Contract!Reap
  BY <1>1, <1>2 DEF Contract!Reap, Avail, Used
<1>4. Places(free \cup {Head(Used)}, Avail, inFlight, Tail(Used))
  BY <1>2, PlacesReap DEF IInv
<1>5. QED BY <1>1, <1>2, <1>3, <1>4, PlacesNext

LEMMA ResetStep ==
    ASSUME IInv, Reset
    PROVE  Contract!Reset /\ Places(free, Avail, inFlight, Used)'
<1>1. Avail' = <<>> /\ Used' = <<>> /\ free' = Chain /\ inFlight' = {} /\ inFlight = {}
  BY DEF Reset, Avail, Used
<1>2. Contract!Reset
  BY <1>1 DEF Contract!Reset, Avail, Used
<1>3. QED BY <1>1, <1>2, NothingYet, PlacesNext

(* Setting the rings up makes both empty, as they were said to be.            *)
LEMMA SetupStep ==
    ASSUME IInv, Setup
    PROVE  UNCHANGED <<free, Avail, inFlight, Used>>
<1>1. /\ Avail = <<>> /\ Used = <<>> /\ free' = free /\ inFlight' = inFlight
      /\ Avail' = RingQ(availRing', 0, 0) /\ Used' = RingQ(usedRing', 0, 0)
      /\ availRing' \in [Slot -> Chain] /\ usedRing' \in [Slot -> Chain]
  BY Zero, Queues DEF IInv, Idle, Setup, ZeroRings, Avail, Used, driverVars
<1>2. Avail' = <<>> /\ Used' = <<>>
  BY <1>1, Slots, RingSeq DEF IInv
<1>3. QED BY <1>1, <1>2

LEMMA QuietStep ==
    ASSUME Interrupt \/ EnableCallbacks \/ Recheck \/ UNCHANGED vars
    PROVE  UNCHANGED <<free, Avail, inFlight, Used>>
BY Queues DEF Interrupt, EnableCallbacks, Recheck, vars, memVars, deviceVars, driverVars,
              Avail, Used

LEMMA IndexStep ==
    ASSUME IInv, [Next]_vars
    PROVE  (enabled' => usedIdx' = lastUsedIdx') /\ (~enabled' => Idle')
<1> USE DEF IInv, Idle
<1>1. CASE PopDescriptorChain
  BY <1>1 DEF PopDescriptorChain, HasAvailable, memVars, driverVars
<1>2. ASSUME NEW h \in Chain, CompleteChain(h)
      PROVE  (enabled' => usedIdx' = lastUsedIdx') /\ (~enabled' => Idle')
  BY <1>2 DEF CompleteChain, PushUsed, driverVars
<1>3. CASE Reset
  BY <1>3 DEF Reset, memVars
<1>4. CASE Setup
  BY <1>4 DEF Setup, ZeroRings, driverVars
<1>5. ASSUME NEW h \in Chain, Offer(h)
      PROVE  (enabled' => usedIdx' = lastUsedIdx') /\ (~enabled' => Idle')
  BY <1>5 DEF Offer, deviceVars
<1>6. CASE Interrupt
  BY <1>6 DEF Interrupt
<1>7. CASE Reap
  BY <1>7 DEF Reap, memVars, deviceVars
<1>8. CASE EnableCallbacks
  BY <1>8 DEF EnableCallbacks, deviceVars
<1>9. CASE Recheck
  BY <1>9 DEF Recheck, deviceVars
<1>10. CASE UNCHANGED vars
  BY <1>10 DEF vars, memVars, deviceVars, driverVars
<1>11. QED BY <1>1, <1>2, <1>3, <1>4, <1>5, <1>6, <1>7, <1>8, <1>9, <1>10
            DEF Next, Device, Driver

LEMMA InitStep == Init => IInv /\ Contract!Init
<1> SUFFICES ASSUME Init PROVE IInv /\ Contract!Init
  OBVIOUS
<1>1. ~enabled /\ free = Chain /\ Avail = <<>> /\ inFlight = {} /\ Used = <<>>
  BY DEF Init, Avail, Used
<1>2. IInv
  BY <1>1, TypeInit, NothingYet DEF IInv, Idle, Init
<1>3. Contract!Init
  BY <1>1 DEF Contract!Init, Avail, Used
<1>4. QED BY <1>2, <1>3

LEMMA StepMaps ==
    ASSUME IInv, [Next]_vars
    PROVE  IInv' /\ [Contract!Next]_(Contract!contractVars)
<1>1. TypeOK' /\ (enabled' => usedIdx' = lastUsedIdx') /\ (~enabled' => Idle')
  BY TypeStep, IndexStep DEF IInv
<1> DEFINE Kept == Places(free, Avail, inFlight, Used)'
           Stutters == UNCHANGED <<free, Avail, inFlight, Used>>
<1>2. Stutters => Kept /\ UNCHANGED Contract!contractVars
  <2>1. Stutters => UNCHANGED Contract!contractVars
    BY DEF Contract!contractVars, Avail, Used
  <2>2. Stutters => Kept
    BY PlacesNext DEF IInv
  <2>3. QED BY <2>1, <2>2
<1> HIDE DEF Kept, Stutters
<1>3. Kept /\ (Contract!Next \/ UNCHANGED Contract!contractVars)
  <2>1. CASE PopDescriptorChain
    BY <2>1, ConsumeStep DEF Contract!Next, Kept
  <2>2. ASSUME NEW h \in Chain, CompleteChain(h)
        PROVE  Kept /\ Contract!Next
    BY <2>2, CompleteStep DEF Contract!Next, Kept
  <2>3. CASE Reset
    BY <2>3, ResetStep DEF Contract!Next, Kept
  <2>4. CASE Setup
    BY <2>4, <1>2, SetupStep DEF Stutters
  <2>5. ASSUME NEW h \in Chain, Offer(h)
        PROVE  Kept /\ Contract!Next
    BY <2>5, OfferStep DEF Contract!Next, Kept
  <2>6. CASE Interrupt \/ EnableCallbacks \/ Recheck \/ UNCHANGED vars
    BY <2>6, <1>2, QuietStep DEF Stutters
  <2>7. CASE Reap
    BY <2>7, ReapStep DEF Contract!Next, Kept
  <2>8. QED BY <2>1, <2>2, <2>3, <2>4, <2>5, <2>6, <2>7 DEF Next, Device, Driver
<1>4. QED BY <1>1, <1>3 DEF IInv, Kept

-----------------------------------------------------------------------------
(* TypeOK of the rings, device and driver, at every size and modulus.         *)
THEOREM TypeCorrect == Spec => []TypeOK
<1>1. IInv /\ [Next]_vars => IInv'
  BY StepMaps
<1>2. IInv => TypeOK
  BY DEF IInv
<1>3. QED BY InitStep, <1>1, <1>2, PTL DEF Spec

(* Every chain is with the driver, offered, at the device or completed, in    *)
(* one of these places and there once; so the rings never run over            *)
(* (virtqueue.js:306-333 checks neither).                                     *)
THEOREM PlacesCorrect == Spec => []Places(free, Avail, inFlight, Used)
<1>1. IInv /\ [Next]_vars => IInv'
  BY StepMaps
<1>2. IInv => Places(free, Avail, inFlight, Used)
  BY DEF IInv
<1>3. QED BY InitStep, <1>1, <1>2, PTL DEF Spec

(* ImplementsContract: popDescriptorChain, pushUsed and reset between them    *)
(* lose, duplicate and reorder no chain, across every wrap of the indices.    *)
THEOREM ContractImplemented == Spec => ImplementsContract
<1>1. IInv /\ [Next]_vars => IInv' /\ [Contract!Next]_(Contract!contractVars)
  BY StepMaps
<1>2. QED BY InitStep, <1>1, PTL DEF Spec, ImplementsContract, Contract!Spec

-----------------------------------------------------------------------------
(* The driver's silence ends before it sleeps.                                *)
SilentWhileReaping == ~eventIdx /\ enabled /\ noInterrupt => driver = "reaping"

LEMMA NoticeStep ==
    ASSUME IInv, SilentWhileReaping, NoLostInterrupt, [Next]_vars
    PROVE  (SilentWhileReaping /\ NoLostInterrupt)'
<1> USE DEF SilentWhileReaping, NoLostInterrupt
<1>1. CASE PopDescriptorChain
  BY <1>1 DEF PopDescriptorChain, HasAvailable, memVars, driverVars
<1>2. ASSUME NEW h \in Chain, CompleteChain(h)
      PROVE  (SilentWhileReaping /\ NoLostInterrupt)'
  BY <1>2 DEF CompleteChain, PushUsed, NeedNotify, driverVars
<1>3. CASE Reset
  BY <1>3 DEF Reset
<1>4. CASE Setup
  BY <1>4 DEF Setup, ZeroRings, driverVars, IInv, Idle
<1>5. ASSUME NEW h \in Chain, Offer(h)
      PROVE  (SilentWhileReaping /\ NoLostInterrupt)'
  BY <1>5 DEF Offer, deviceVars
<1>6. CASE Interrupt
  BY <1>6 DEF Interrupt
<1>7. CASE Reap
  BY <1>7 DEF Reap, memVars, deviceVars
<1>8. CASE EnableCallbacks
  BY <1>8 DEF EnableCallbacks, deviceVars
<1>9. CASE Recheck
  BY <1>9 DEF Recheck, deviceVars
<1>10. CASE UNCHANGED vars
  BY <1>10 DEF vars, memVars, deviceVars, driverVars
<1>11. QED BY <1>1, <1>2, <1>3, <1>4, <1>5, <1>6, <1>7, <1>8, <1>9, <1>10
            DEF Next, Device, Driver

(* NoLostInterrupt: shouldNotify after each push, and the driver's last look  *)
(* after it asked for interrupts, leave no gap between them.                  *)
THEOREM NoLostInterruptCorrect == Spec => []NoLostInterrupt
<1>1. Init => IInv /\ SilentWhileReaping /\ NoLostInterrupt
  BY InitStep DEF Init, SilentWhileReaping, NoLostInterrupt
<1>2. IInv /\ SilentWhileReaping /\ NoLostInterrupt /\ [Next]_vars
        => (IInv /\ SilentWhileReaping /\ NoLostInterrupt)'
  BY StepMaps, NoticeStep
<1>3. QED BY <1>1, <1>2, PTL DEF Spec
=============================================================================
