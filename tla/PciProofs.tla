------------------------------- MODULE PciProofs -------------------------------
(* The PCI side of the machine.  The interrupt controller first: what holds of *)
(* shared INTx lines for every set of devices and lines.  Then the worker's    *)
(* latch for every bound: the controller inside the worker is still the        *)
(* controller, and no change of a line is lost but to an overflow that is      *)
(* remembered.  Then the address windows of the bus, for any number of slots.  *)
EXTENDS IrqDelivery, PciBus, SequenceTheorems, FiniteSetTheorems, WellFoundedInduction, TLAPS

(* The conjuncts lean on each other: that a released line may be lowered      *)
(* needs LineLevel, and that a Command write makes the holders exact again    *)
(* for a device whose mask was changed behind the controller's back needs     *)
(* HoldersPending, which knows that it holds nothing unless it is pending.    *)
IInv == TypeOK /\ LineLevel /\ HoldersExact /\ HoldersPending /\ StatusMirrorsIsr

(* Taking a hold keeps the line and its holder set in step, for any line.     *)
LEMMA HoldKeepsLevel ==
    ASSUME LineOfAssumption, TypeOK, LineLevel, NEW d \in Device, Hold(d)
    PROVE  /\ activeIrqLines' \in [Line -> SUBSET Device]
           /\ vmLine' \in [Line -> BOOLEAN]
           /\ LineLevel'
<1>1. LineOf[d] \in Line
  BY DEF LineOfAssumption
<1>2. activeIrqLines' \in [Line -> SUBSET Device] /\ vmLine' \in [Line -> BOOLEAN]
  BY <1>1 DEF Hold, TypeOK
<1>3. ASSUME NEW l \in Line \ HostLine
      PROVE  vmLine'[l] <=> activeIrqLines'[l] # {}
  <2>1. CASE l = LineOf[d]
    <3>1. d \in activeIrqLines'[l]
      BY <1>1, <2>1 DEF Hold, TypeOK
    <3>2. vmLine'[l]
      BY <1>1, <2>1 DEF Hold, TypeOK, LineLevel
    <3>3. QED BY <3>1, <3>2
  <2>2. CASE l # LineOf[d]
    BY <1>1, <2>2 DEF Hold, TypeOK, LineLevel
  <2>3. QED BY <2>1, <2>2
<1>4. QED BY <1>2, <1>3 DEF LineLevel

(* So does giving one up.                                                     *)
LEMMA ReleaseKeepsLevel ==
    ASSUME LineOfAssumption, TypeOK, LineLevel, NEW d \in Device, Release(d)
    PROVE  /\ activeIrqLines' \in [Line -> SUBSET Device]
           /\ vmLine' \in [Line -> BOOLEAN]
           /\ LineLevel'
<1>1. LineOf[d] \in Line
  BY DEF LineOfAssumption
<1>2. activeIrqLines' \in [Line -> SUBSET Device] /\ vmLine' \in [Line -> BOOLEAN]
  BY <1>1 DEF Release, TypeOK
<1>3. ASSUME NEW l \in Line \ HostLine
      PROVE  vmLine'[l] <=> activeIrqLines'[l] # {}
  <2>1. CASE l = LineOf[d] /\ activeIrqLines[l] = {d}
    BY <1>1, <2>1 DEF Release, TypeOK
  <2>2. CASE l = LineOf[d] /\ activeIrqLines[l] # {d}
    <3>1. activeIrqLines[l] # {} <=> activeIrqLines'[l] # {}
      BY <1>1, <2>2 DEF Release, TypeOK
    <3>2. vmLine' = vmLine
      BY <2>2 DEF Release
    <3>3. QED BY <3>1, <3>2 DEF LineLevel
  <2>3. CASE l # LineOf[d]
    BY <1>1, <2>3 DEF Release, TypeOK, LineLevel
  <2>4. QED BY <2>1, <2>2, <2>3
<1>4. QED BY <1>2, <1>3 DEF LineLevel

(* A hold, of a device with something latched, is one of its own line.        *)
LEMMA HoldKeepsPending ==
    ASSUME LineOfAssumption, TypeOK, HoldersPending, NEW d \in Device, Hold(d),
           deviceIsr'[d] # {},
           \A e \in Device : deviceIsr[e] # {} => deviceIsr'[e] # {}
    PROVE  HoldersPending'
<1>1. SUFFICES ASSUME NEW l \in Line, NEW e \in activeIrqLines'[l]
               PROVE  LineOf[e] = l /\ deviceIsr'[e] # {}
  BY DEF HoldersPending
<1>2. activeIrqLines'[l] =
        IF l = LineOf[d] THEN activeIrqLines[l] \cup {d} ELSE activeIrqLines[l]
  BY DEF Hold, TypeOK, LineOfAssumption
<1>3. CASE e = d /\ l = LineOf[d]
  BY <1>3
<1>4. CASE e \in activeIrqLines[l]
  <2>1. e \in Device
    BY <1>4 DEF TypeOK
  <2>2. QED BY <1>4, <2>1 DEF HoldersPending
<1>5. QED BY <1>2, <1>3, <1>4

(* A release of a device, whatever becomes of its own latch, leaves no other  *)
(* device's hold without reason.                                              *)
LEMMA ReleaseKeepsPending ==
    ASSUME LineOfAssumption, TypeOK, HoldersPending, NEW d \in Device, Release(d),
           \A e \in Device \ {d} : deviceIsr'[e] = deviceIsr[e]
    PROVE  HoldersPending'
<1>1. SUFFICES ASSUME NEW l \in Line, NEW e \in activeIrqLines'[l]
               PROVE  LineOf[e] = l /\ deviceIsr'[e] # {}
  BY DEF HoldersPending
<1>2. activeIrqLines'[l] =
        IF l = LineOf[d] THEN activeIrqLines[l] \ {d} ELSE activeIrqLines[l]
  BY DEF Release, TypeOK, LineOfAssumption
<1>3. e \in activeIrqLines[l] /\ e \in Device /\ (l = LineOf[d] => e # d)
  BY <1>2 DEF TypeOK
<1>4. LineOf[e] = l /\ deviceIsr[e] # {}
  BY <1>3 DEF HoldersPending
<1>5. e # d
  BY <1>3, <1>4
<1>6. QED BY <1>3, <1>4, <1>5

LEMMA InitIInv == Init => IInv
BY LineOfAssumption
DEF Init, IInv, TypeOK, LineLevel, HoldersExact, HoldersPending, StatusMirrorsIsr,
    LineOfAssumption

LEMMA AssertKeepsIInv ==
    ASSUME IInv, NEW d \in Device, NEW b \in IsrBit, AssertDeviceIrq(d, b)
    PROVE  IInv'
<1> USE LineOfAssumption DEF IInv
<1>1. LineOf[d] \in Line
  BY DEF LineOfAssumption
<1>2. deviceIsr' \in [Device -> SUBSET IsrBit] /\ intxStatus' \in [Device -> BOOLEAN]
      /\ statusBehind' \subseteq Device /\ maskBehind' \subseteq Device
      /\ StatusMirrorsIsr' /\ UNCHANGED intxDis
  BY DEF AssertDeviceIrq, TypeOK, StatusMirrorsIsr
<1>3. deviceIsr'[d] # {} /\ \A e \in Device : deviceIsr[e] # {} => deviceIsr'[e] # {}
  BY DEF AssertDeviceIrq, TypeOK
<1>4. CASE intxDis[d]
  <2>1. UNCHANGED <<activeIrqLines, vmLine, intxDis, maskBehind>>
    BY <1>4 DEF AssertDeviceIrq
  <2>2. LineLevel' /\ TypeOK'
    BY <1>2, <2>1 DEF LineLevel, TypeOK
  <2>3. HoldersExact'
    BY <1>4, <2>1 DEF HoldersExact, AssertDeviceIrq, TypeOK
  <2>4. HoldersPending'
    BY <1>3, <2>1 DEF HoldersPending, TypeOK
  <2>5. QED BY <1>2, <2>2, <2>3, <2>4
<1>5. CASE ~intxDis[d]
  <2>1. Hold(d) /\ UNCHANGED intxDis /\ maskBehind' = maskBehind \ {d}
    BY <1>5 DEF AssertDeviceIrq
  <2>2. LineLevel' /\ TypeOK'
    BY <1>2, <2>1, HoldKeepsLevel DEF TypeOK
  <2>3. HoldersExact'
    <3>1. ASSUME NEW e \in Device \ maskBehind', e # d
          PROVE  e \in activeIrqLines'[LineOf[e]] <=> deviceIsr'[e] # {} /\ ~intxDis'[e]
      BY <2>1, <3>1 DEF HoldersExact, AssertDeviceIrq, TypeOK, Hold, LineOfAssumption
    <3>2. d \in activeIrqLines'[LineOf[d]]
      BY <1>1, <2>1 DEF Hold, TypeOK
    <3>3. QED BY <1>3, <1>5, <2>1, <3>1, <3>2 DEF HoldersExact
  <2>4. HoldersPending'
    BY <1>3, <2>1, HoldKeepsPending
  <2>5. QED BY <1>2, <2>2, <2>3, <2>4
<1>6. QED BY <1>4, <1>5

LEMMA ReadKeepsIInv ==
    ASSUME IInv, NEW d \in Device, ReadIsrStatus(d)
    PROVE  IInv'
<1> USE LineOfAssumption DEF IInv
<1>1. LineOf[d] \in Line
  BY DEF LineOfAssumption
<1>2. Release(d) /\ UNCHANGED intxDis /\ maskBehind' = maskBehind \ {d}
  BY DEF ReadIsrStatus
<1>3. deviceIsr' \in [Device -> SUBSET IsrBit] /\ intxStatus' \in [Device -> BOOLEAN]
      /\ statusBehind' \subseteq Device /\ maskBehind' \subseteq Device
      /\ StatusMirrorsIsr'
  BY DEF ReadIsrStatus, TypeOK, StatusMirrorsIsr
<1>4. LineLevel' /\ TypeOK'
  BY <1>2, <1>3, ReleaseKeepsLevel DEF TypeOK
<1>5. HoldersExact'
  <2>1. ASSUME NEW e \in Device \ maskBehind', e # d
        PROVE  e \in activeIrqLines'[LineOf[e]] <=> deviceIsr'[e] # {} /\ ~intxDis'[e]
    BY <1>2, <2>1 DEF HoldersExact, ReadIsrStatus, TypeOK, Release, LineOfAssumption
  <2>2. d \notin activeIrqLines'[LineOf[d]] /\ deviceIsr'[d] = {}
    BY <1>1, <1>2 DEF ReadIsrStatus, Release, TypeOK
  <2>3. QED BY <2>1, <2>2 DEF HoldersExact
<1>6. HoldersPending'
  <2>1. \A e \in Device \ {d} : deviceIsr'[e] = deviceIsr[e]
    BY DEF ReadIsrStatus, TypeOK
  <2>2. QED BY <1>2, <2>1, ReleaseKeepsPending
<1>7. QED BY <1>3, <1>4, <1>5, <1>6

LEMMA CommandKeepsIInv ==
    ASSUME IInv, NEW d \in Device, NEW v \in BOOLEAN, SetCommandRegister(d, v)
    PROVE  IInv'
<1> USE LineOfAssumption DEF IInv
<1>1. LineOf[d] \in Line
  BY DEF LineOfAssumption
<1>2. intxDis' = [intxDis EXCEPT ![d] = v] /\ maskBehind' = maskBehind \ {d}
      /\ UNCHANGED <<deviceIsr, intxStatus, statusBehind>>
  BY DEF SetCommandRegister
<1>3. StatusMirrorsIsr'
  BY <1>2 DEF StatusMirrorsIsr
<1>4. CASE v /\ Release(d)
  <2>1. LineLevel' /\ TypeOK'
    BY <1>2, <1>4, ReleaseKeepsLevel DEF TypeOK
  <2>2. HoldersExact'
    <3>1. ASSUME NEW e \in Device \ maskBehind', e # d
          PROVE  e \in activeIrqLines'[LineOf[e]] <=> deviceIsr'[e] # {} /\ ~intxDis'[e]
      BY <1>2, <1>4, <3>1 DEF HoldersExact, TypeOK, Release, LineOfAssumption
    <3>2. d \notin activeIrqLines'[LineOf[d]] /\ intxDis'[d]
      BY <1>1, <1>2, <1>4 DEF Release, TypeOK
    <3>3. QED BY <3>1, <3>2 DEF HoldersExact
  <2>3. HoldersPending'
    BY <1>2, <1>4, ReleaseKeepsPending
  <2>4. QED BY <1>3, <2>1, <2>2, <2>3
<1>5. CASE ~v /\ deviceIsr[d] # {} /\ Hold(d)
  <2>1. LineLevel' /\ TypeOK'
    BY <1>2, <1>5, HoldKeepsLevel DEF TypeOK
  <2>2. HoldersExact'
    <3>1. ASSUME NEW e \in Device \ maskBehind', e # d
          PROVE  e \in activeIrqLines'[LineOf[e]] <=> deviceIsr'[e] # {} /\ ~intxDis'[e]
      BY <1>2, <1>5, <3>1 DEF HoldersExact, TypeOK, Hold, LineOfAssumption
    <3>2. d \in activeIrqLines'[LineOf[d]] /\ deviceIsr'[d] # {} /\ ~intxDis'[d]
      BY <1>1, <1>2, <1>5 DEF Hold, TypeOK
    <3>3. QED BY <3>1, <3>2 DEF HoldersExact
  <2>3. HoldersPending'
    BY <1>2, <1>5, HoldKeepsPending
  <2>4. QED BY <1>3, <2>1, <2>2, <2>3
<1>6. CASE ~v /\ deviceIsr[d] = {} /\ UNCHANGED <<activeIrqLines, vmLine>>
  <2>1. LineLevel' /\ TypeOK'
    BY <1>2, <1>6 DEF TypeOK, LineLevel
  <2>2. HoldersExact'
    <3>1. ASSUME NEW e \in Device \ maskBehind', e # d
          PROVE  e \in activeIrqLines'[LineOf[e]] <=> deviceIsr'[e] # {} /\ ~intxDis'[e]
      BY <1>2, <1>6, <3>1 DEF HoldersExact, TypeOK
    <3>2. d \notin activeIrqLines'[LineOf[d]] /\ deviceIsr'[d] = {}
      BY <1>1, <1>2, <1>6 DEF HoldersPending
    <3>3. QED BY <3>1, <3>2 DEF HoldersExact
  <2>3. HoldersPending'
    BY <1>2, <1>6 DEF HoldersPending
  <2>4. QED BY <1>3, <2>1, <2>2, <2>3
<1>7. QED BY <1>4, <1>5, <1>6 DEF SetCommandRegister

LEMMA ByteKeepsIInv ==
    ASSUME IInv, NEW d \in Device, NEW v \in BOOLEAN,
           WriteCommandByte(d, v) \/ WriteStatus(d, v)
    PROVE  IInv'
<1> USE DEF IInv, TypeOK, LineLevel, HoldersExact, HoldersPending, StatusMirrorsIsr
<1>1. CASE WriteCommandByte(d, v)
  BY <1>1 DEF WriteCommandByte
<1>2. CASE WriteStatus(d, v)
  BY <1>2 DEF WriteStatus
<1>3. QED BY <1>1, <1>2

LEMMA HostKeepsIInv ==
    ASSUME IInv, NEW l \in HostLine, NEW v \in BOOLEAN, AssertIrq(l, v)
    PROVE  IInv'
BY HostLineAssumption
DEF IInv, TypeOK, LineLevel, HoldersExact, HoldersPending, StatusMirrorsIsr, AssertIrq,
    HostLineAssumption, history

LEMMA StepIInv == IInv /\ [Next]_vars => IInv'
<1> SUFFICES ASSUME IInv, [Next]_vars PROVE IInv'
  OBVIOUS
<1>1. CASE DeviceNext
  BY <1>1, AssertKeepsIInv, ReadKeepsIInv, CommandKeepsIInv, ByteKeepsIInv DEF DeviceNext
<1>2. CASE \E l \in HostLine, v \in BOOLEAN : AssertIrq(l, v)
  BY <1>2, HostKeepsIInv
<1>3. CASE UNCHANGED vars
  BY <1>3 DEF vars, history, IInv, TypeOK, LineLevel, HoldersExact, HoldersPending,
              StatusMirrorsIsr
<1>4. QED BY <1>1, <1>2, <1>3 DEF Next

LEMMA IInvAlways == Spec => []IInv
BY InitIInv, StepIInv, PTL DEF Spec

(* Every latch, holder set and line keeps its type, for any number of devices. *)
THEOREM TypeCorrect == Spec => []TypeOK
<1>1. IInv => TypeOK
  BY DEF IInv
<1>2. QED BY <1>1, IInvAlways, PTL

(* The level the VM sees never gets out of step with the set of holders.       *)
THEOREM LineLevelCorrect == Spec => []LineLevel
<1>1. IInv => LineLevel
  BY DEF IInv
<1>2. QED BY <1>1, IInvAlways, PTL

(* The holders are exactly the devices with an unmasked, unread interrupt, and  *)
(* every step of the controller repairs what a byte write left inexact.         *)
THEOREM HoldersCorrect == Spec => []HoldersExact
<1>1. IInv => HoldersExact
  BY DEF IInv
<1>2. QED BY <1>1, IInvAlways, PTL

(* Whatever access widths the guest uses, an acknowledged device holds nothing. *)
THEOREM HoldersPendingCorrect == Spec => []HoldersPending
<1>1. IInv => HoldersPending
  BY DEF IInv
<1>2. QED BY <1>1, IInvAlways, PTL

-----------------------------------------------------------------------------
(* The latch.                                                                  *)

Change == Line \X BOOLEAN

(* NeverDropped is inductive as it stands, next to what the controller keeps.  *)
DInv == IInv /\ DeliveryTypeOK /\ NeverDropped

-----------------------------------------------------------------------------
(* A step of the worker is one of the controller, or leaves it alone.          *)
LEMMA StepOfController == [DeliveryNext]_<<vars, deliveryVars>> => [Next]_vars
BY DEF DeliveryNext, DeviceStep, CmdInjectIrq, RunQuantum, Next

(* A device moves at most one line, so one callback tells all of a step.       *)
LEMMA OneLineAtATime ==
    ASSUME TypeOK, DeviceNext
    PROVE  \A l, k \in Line : vmLine'[l] # vmLine[l] /\ vmLine'[k] # vmLine[k] => l = k
<1>1. ASSUME NEW d \in Device, Hold(d) \/ Release(d)
      PROVE  \A l \in Line : vmLine'[l] # vmLine[l] => l = LineOf[d]
  BY <1>1, LineOfAssumption DEF Hold, Release, TypeOK, LineOfAssumption
<1>2. \/ vmLine' = vmLine
      \/ \E d \in Device : Hold(d) \/ Release(d)
  BY DEF DeviceNext, AssertDeviceIrq, ReadIsrStatus, SetCommandRegister,
         WriteCommandByte, WriteStatus
<1>3. QED BY <1>1, <1>2

-----------------------------------------------------------------------------
(* What the latched changes make of the levels.                                *)

(* The newest change decides its line and no other.                            *)
LEMMA AfterAppend ==
    ASSUME NEW q \in Seq(Change), NEW level \in [Line -> BOOLEAN],
           NEW l \in Line, NEW v \in BOOLEAN
    PROVE  /\ After(level, Append(q, <<l, v>>))[l] = v
           /\ \A k \in Line \ {l} :
                  After(level, Append(q, <<l, v>>))[k] = After(level, q)[k]
<1> DEFINE c == <<l, v>>
           r == Append(q, c)
           n == Len(q) + 1
<1>1. c \in Change /\ c[1] = l /\ c[2] = v
  BY DEF Change
<1>2. Len(q) \in Nat /\ DOMAIN q = 1..Len(q) /\ DOMAIN r = 1..n /\ r[n] = c
      /\ \A i \in 1..Len(q) : r[i] = q[i]
  BY <1>1, AppendProperties, LenProperties
<1> HIDE DEF c, r, n
<1>3. n \in ChangesOf(l, r) /\ \A i \in ChangesOf(l, r) : i \in 1..n
  BY <1>1, <1>2 DEF ChangesOf, n
<1>4. After(level, r)[l] = v
  <2>1. \A i \in ChangesOf(l, r) : i <= n
    BY <1>2, <1>3 DEF n
  <2>2. \A i \in ChangesOf(l, r) : (\A j \in ChangesOf(l, r) : j <= i) => i = n
    BY <1>2, <1>3 DEF n
  <2>3. (\E i \in ChangesOf(l, r) : r[i][2] /\ \A j \in ChangesOf(l, r) : j <= i)
          <=> r[n][2]
    BY <1>3, <2>1, <2>2
  <2>4. After(level, r)[l]
          = (\E i \in ChangesOf(l, r) : r[i][2] /\ \A j \in ChangesOf(l, r) : j <= i)
    BY <1>3 DEF After
  <2>5. QED BY <1>1, <1>2, <2>3, <2>4
<1>5. ASSUME NEW k \in Line \ {l}
      PROVE  After(level, r)[k] = After(level, q)[k]
  <2>1. ChangesOf(k, r) = ChangesOf(k, q)
    BY <1>1, <1>2 DEF ChangesOf, n
  <2>2. \A i \in ChangesOf(k, q) : r[i] = q[i]
    BY <1>2 DEF ChangesOf
  <2>3. QED BY <2>1, <2>2 DEF After
<1>6. QED BY <1>4, <1>5 DEF r, c

(* Without its oldest change the latch says the same of every line that has    *)
(* a later one, and of all other lines.                                        *)
LEMMA AfterTail ==
    ASSUME NEW q \in Seq(Change), q # <<>>, NEW level \in [Line -> BOOLEAN],
           NEW k \in Line, k # q[1][1] \/ ChangesOf(k, Tail(q)) # {}
    PROVE  After(level, Tail(q))[k] = After(level, q)[k]
<1> DEFINE t == Tail(q)
           n == Len(t)
<1>1. n \in Nat /\ Len(q) = n + 1 /\ DOMAIN q = 1..(n + 1) /\ DOMAIN t = 1..n
      /\ \A i \in 1..n : t[i] = q[i + 1]
  BY HeadTailProperties, LenProperties
<1> HIDE DEF t, n
<1>2. \A i \in Nat : i \in ChangesOf(k, t) <=> i + 1 \in ChangesOf(k, q) /\ i # 0
  BY <1>1 DEF ChangesOf
<1>3. \A i \in ChangesOf(k, q) : i \in Nat /\ (i = 1 \/ i - 1 \in ChangesOf(k, t))
  BY <1>1, <1>2 DEF ChangesOf
<1>4. \A i \in ChangesOf(k, t) : i \in Nat \ {0} /\ t[i] = q[i + 1]
  BY <1>1 DEF ChangesOf
<1>5. CASE ChangesOf(k, t) = {}
  <2>1. ChangesOf(k, q) = {}
    <3>1. k # q[1][1]
      BY <1>5 DEF t
    <3>2. 1 \notin ChangesOf(k, q)
      BY <3>1 DEF ChangesOf
    <3>3. QED BY <1>3, <1>5, <3>2
  <2>2. QED BY <1>5, <2>1 DEF After, t
<1>6. CASE ChangesOf(k, t) # {}
  <2>1. ChangesOf(k, q) # {}
    BY <1>2, <1>4, <1>6
  <2>2. ASSUME NEW i \in ChangesOf(k, t), t[i][2], \A j \in ChangesOf(k, t) : j <= i
        PROVE  \E m \in ChangesOf(k, q) : q[m][2] /\ \A j \in ChangesOf(k, q) : j <= m
    <3>1. i + 1 \in ChangesOf(k, q) /\ q[i + 1][2]
      BY <1>2, <1>4, <2>2
    <3>2. \A j \in ChangesOf(k, q) : j <= i + 1
      BY <1>3, <1>4, <2>2
    <3>3. QED BY <3>1, <3>2
  <2>3. ASSUME NEW m \in ChangesOf(k, q), q[m][2], \A j \in ChangesOf(k, q) : j <= m
        PROVE  \E i \in ChangesOf(k, t) : t[i][2] /\ \A j \in ChangesOf(k, t) : j <= i
    <3>1. PICK i \in ChangesOf(k, t) : TRUE
      BY <1>6
    <3>2. i + 1 \in ChangesOf(k, q) /\ i \in Nat \ {0}
      BY <1>2, <1>4
    <3>3. m # 1 /\ m \in Nat
      BY <1>3, <2>3, <3>2
    <3>4. m - 1 \in ChangesOf(k, t)
      BY <1>3, <3>3
    <3>5. t[m - 1][2]
      BY <1>4, <2>3, <3>3, <3>4
    <3>6. \A j \in ChangesOf(k, t) : j <= m - 1
      BY <1>2, <1>4, <2>3, <3>3
    <3>7. QED BY <3>4, <3>5, <3>6
  <2>4. QED BY <1>6, <2>1, <2>2, <2>3 DEF After, t
<1>7. QED BY <1>5, <1>6

(* An empty latch changes nothing.                                              *)
LEMMA AfterNothing ==
    ASSUME NEW level \in [Line -> BOOLEAN], NEW l \in Line
    PROVE  After(level, <<>>)[l] = level[l]
<1>1. ChangesOf(l, <<>>) = {}
  BY DEF ChangesOf
<1>2. QED BY <1>1 DEF After

LEMMA AfterType ==
    ASSUME NEW q, NEW level \in [Line -> BOOLEAN]
    PROVE  After(level, q) \in [Line -> BOOLEAN]
BY DEF After

-----------------------------------------------------------------------------
(* The callback for a line tells it and may forget another line's last change, *)
(* which it remembers as lost.                                                 *)
LEMMA LatchKeeps ==
    ASSUME DeliveryTypeOK, NeverDropped, NEW l \in Line, Latch(l),
           vmLine' \in [Line -> BOOLEAN], UNCHANGED <<delivered, cpuLevel>>,
           \A k \in Line \ {l} : vmLine'[k] = vmLine[k]
    PROVE  /\ pendingIrqs' \in Seq(Change) /\ Len(pendingIrqs') <= MaxLatch
           /\ lost' \subseteq Line
           /\ NeverDropped'
<1> DEFINE c == <<l, vmLine'[l]>>
           q == Append(pendingIrqs, c)
           full == Len(q) > MaxLatch
<1>1. pendingIrqs \in Seq(Change) /\ Len(pendingIrqs) \in Nat
      /\ Len(pendingIrqs) <= MaxLatch /\ delivered \in [Line -> BOOLEAN]
      /\ lost \subseteq Line /\ MaxLatch \in Nat \ {0} /\ vmLine'[l] \in BOOLEAN
  BY LenProperties, LatchAssumption DEF DeliveryTypeOK, Change, LatchAssumption
<1>2. c \in Change
  BY <1>1 DEF Change
<1>3. q \in Seq(Change) /\ Len(q) = Len(pendingIrqs) + 1
  BY <1>1, <1>2, AppendProperties
<1>4. q # <<>>
  BY <1>1, <1>3, EmptySeq
<1>5. q[1] \in Change /\ q[1][1] \in Line
  <2>1. q[1] \in Change
    BY <1>1, <1>3, ElementOfSeq
  <2>2. QED BY <2>1 DEF Change
<1>6. Tail(q) \in Seq(Change) /\ Len(Tail(q)) = Len(pendingIrqs)
  BY <1>1, <1>3, <1>4, HeadTailProperties
<1>7. After(delivered, q)[l] = vmLine'[l]
      /\ \A k \in Line \ {l} : After(delivered, q)[k] = After(delivered, pendingIrqs)[k]
  BY <1>1, AfterAppend
<1>8. \A k \in Line : k \notin lost \/ k = l => After(delivered, q)[k] = vmLine'[k]
  BY <1>7 DEF NeverDropped
<1>9. pendingIrqs' = (IF full THEN Tail(q) ELSE q)
      /\ lost' = (lost \ {l}) \cup
            (IF full /\ ChangesOf(q[1][1], Tail(q)) = {} THEN {q[1][1]} ELSE {})
  BY DEF Latch
<1> HIDE DEF c, q
<1>10. pendingIrqs' \in Seq(Change) /\ Len(pendingIrqs') <= MaxLatch
  BY <1>1, <1>3, <1>6, <1>9
<1>11. lost' \subseteq Line
  BY <1>1, <1>5, <1>9
<1>12. ASSUME NEW k \in Line \ lost'
       PROVE  After(delivered', pendingIrqs')[k] = vmLine'[k]
  <2>1. k \notin lost \/ k = l
    BY <1>9
  <2>2. CASE ~full
    BY <1>8, <1>9, <2>1, <2>2
  <2>3. CASE full
    <3>1. k # q[1][1] \/ ChangesOf(k, Tail(q)) # {}
      BY <1>9, <2>3
    <3>2. After(delivered, Tail(q))[k] = After(delivered, q)[k]
      BY <1>1, <1>3, <1>4, <3>1, AfterTail
    <3>3. QED BY <1>8, <1>9, <2>1, <2>3, <3>2
  <2>4. QED BY <2>2, <2>3
<1>13. QED BY <1>10, <1>11, <1>12 DEF NeverDropped

LEMMA InitDInv == DeliveryInit => DInv
<1> SUFFICES ASSUME DeliveryInit PROVE DInv
  OBVIOUS
<1>1. IInv
  BY InitIInv DEF DeliveryInit
<1>2. delivered \in [Line -> BOOLEAN] /\ cpuLevel \in [Line -> BOOLEAN] /\ pendingIrqs = <<>> /\ lost = {}
      /\ \A l \in Line : vmLine[l] = delivered[l]
  BY DEF DeliveryInit, Init
<1>3. pendingIrqs \in Seq(Change) /\ Len(pendingIrqs) <= MaxLatch
  BY <1>2, EmptySeq, LatchAssumption DEF LatchAssumption
<1>4. DeliveryTypeOK
  BY <1>1, <1>2, <1>3 DEF DeliveryTypeOK, IInv, Change
<1>5. NeverDropped
  BY <1>2, AfterNothing DEF NeverDropped
<1>6. QED BY <1>1, <1>4, <1>5 DEF DInv

LEMMA StepDInv == DInv /\ [DeliveryNext]_<<vars, deliveryVars>> => DInv'
<1> SUFFICES ASSUME DInv, [DeliveryNext]_<<vars, deliveryVars>> PROVE DInv'
  OBVIOUS
<1>1. IInv'
  BY StepOfController, StepIInv DEF DInv
<1>2. TypeOK /\ DeliveryTypeOK /\ NeverDropped /\ TypeOK'
      /\ vmLine' \in [Line -> BOOLEAN]
  BY <1>1 DEF DInv, IInv, TypeOK
<1> SUFFICES DeliveryTypeOK' /\ NeverDropped'
  BY <1>1 DEF DInv
<1>3. ASSUME NEW l \in Line, Latch(l), UNCHANGED <<delivered, cpuLevel>>,
             \A k \in Line \ {l} : vmLine'[k] = vmLine[k]
      PROVE  DeliveryTypeOK' /\ NeverDropped'
  <2>1. /\ pendingIrqs' \in Seq(Change) /\ Len(pendingIrqs') <= MaxLatch
        /\ lost' \subseteq Line
        /\ NeverDropped'
    BY <1>2, <1>3, LatchKeeps
  <2>2. delivered' \in [Line -> BOOLEAN] /\ cpuLevel' \in [Line -> BOOLEAN]
    BY <1>2, <1>3 DEF DeliveryTypeOK
  <2>3. QED BY <1>2, <2>1, <2>2 DEF DeliveryTypeOK, Change
<1>4. ASSUME UNCHANGED <<vmLine, deliveryVars>>
      PROVE  DeliveryTypeOK' /\ NeverDropped'
  <2>1. DeliveryTypeOK'
    BY <1>2, <1>4 DEF DeliveryTypeOK, deliveryVars
  <2>2. NeverDropped'
    BY <1>2, <1>4 DEF NeverDropped, deliveryVars, After
  <2>3. QED BY <2>1, <2>2
<1>5. CASE DeviceStep
  <2>1. CASE vmLine' = vmLine
    BY <1>4, <1>5, <2>1 DEF DeviceStep, Callback, deliveryVars
  <2>2. CASE vmLine' # vmLine
    <3>1. PICK l \in Line : vmLine'[l] # vmLine[l] /\ Latch(l) /\ UNCHANGED <<delivered, cpuLevel>>
      BY <1>5, <2>2 DEF DeviceStep, Callback
    <3>2. \A k \in Line \ {l} : vmLine'[k] = vmLine[k]
      BY <1>2, <1>5, <3>1, OneLineAtATime DEF DeviceStep
    <3>3. QED BY <1>3, <3>1, <3>2
  <2>3. QED BY <2>1, <2>2
<1>6. ASSUME NEW l \in HostLine, NEW v \in BOOLEAN, CmdInjectIrq(l, v)
      PROVE  DeliveryTypeOK' /\ NeverDropped'
  <2>1. l \in Line
    BY HostLineAssumption DEF HostLineAssumption
  <2>2. \A k \in Line \ {l} : vmLine'[k] = vmLine[k]
    BY <1>2, <1>6, <2>1 DEF CmdInjectIrq, AssertIrq, TypeOK
  <2>3. QED BY <1>3, <1>6, <2>1, <2>2 DEF CmdInjectIrq
<1>7. CASE RunQuantum
  <2>1. delivered' = After(delivered, pendingIrqs) /\ pendingIrqs' = <<>>
        /\ vmLine' = vmLine /\ lost' = lost
    BY <1>7 DEF RunQuantum, vars
  <2>2. delivered' \in [Line -> BOOLEAN] /\ cpuLevel' \in [Line -> BOOLEAN]
    BY <1>2, <1>7, <2>1, AfterType DEF DeliveryTypeOK, RunQuantum, Taken
  <2>3. pendingIrqs' \in Seq(Change) /\ Len(pendingIrqs') <= MaxLatch
    BY <2>1, EmptySeq, LatchAssumption DEF LatchAssumption
  <2>4. DeliveryTypeOK'
    BY <1>2, <2>1, <2>2, <2>3 DEF DeliveryTypeOK, Change
  <2>5. ASSUME NEW l \in Line \ lost
        PROVE  After(delivered', pendingIrqs')[l] = vmLine'[l]
    BY <1>2, <2>1, <2>2, <2>5, AfterNothing DEF NeverDropped
  <2>6. NeverDropped'
    BY <2>1, <2>5 DEF NeverDropped
  <2>7. QED BY <2>4, <2>6
<1>8. CASE UNCHANGED <<vars, deliveryVars>>
  BY <1>4, <1>8 DEF vars
<1>9. QED BY <1>5, <1>6, <1>7, <1>8 DEF DeliveryNext

LEMMA DInvAlways == DeliverySpec => []DInv
BY InitDInv, StepDInv, PTL DEF DeliverySpec

-----------------------------------------------------------------------------
(* Inside the worker the controller does nothing but what it does alone, so    *)
(* everything proved of it holds here: the quantum, the latch and the host's   *)
(* commands are stutters or AssertIrq of the controller's own specification.   *)
THEOREM DeliveryImplementsController == DeliverySpec => Spec
<1>1. DeliveryInit => Init
  BY DEF DeliveryInit
<1>2. QED BY <1>1, StepOfController, PTL DEF DeliverySpec, Spec

(* The latch keeps its bound and its type, whatever the bound.                 *)
THEOREM DeliveryTypeCorrect == DeliverySpec => []DeliveryTypeOK
<1>1. DInv => DeliveryTypeOK
  BY DEF DInv
<1>2. QED BY <1>1, DInvAlways, PTL

(* For any bound of the latch, number of devices and lines: once the latch is  *)
(* drained every line was delivered at the controller's level, but for those   *)
(* whose last change an overflow of the latch dropped (vm_worker.js:92, 211).  *)
THEOREM NeverDroppedCorrect == DeliverySpec => []NeverDropped
<1>1. DInv => NeverDropped
  BY DEF DInv
<1>2. QED BY <1>1, DInvAlways, PTL

-----------------------------------------------------------------------------
(* Sets of numbers have a least element: induction, without an operator as  *)
(* a parameter.                                                             *)
LEMMA InOrder == \A x, y \in Nat : y < x => <<y, x>> \in OpToRel(<, Nat)
BY Zenon DEF OpToRel

LEMMA LeastElement ==
    ASSUME NEW T \in SUBSET Nat, T # {}
    PROVE  \E x \in T : \A y \in T : x <= y
<1>1. \E x \in T : \A y \in T : ~ (<<y, x>> \in OpToRel(<, Nat))
  BY NatLessThanWellFounded, WFMin, Zenon
<1>2. PICK x \in T : \A y \in T : ~ (<<y, x>> \in OpToRel(<, Nat))
  BY <1>1, Zenon
<1>3. \A y \in T : ~(y < x)
  BY <1>2, InOrder, Zenon
<1> QED BY <1>3

-----------------------------------------------------------------------------
(* The one BAR of a device in each space.                                   *)
BarOf(space) == CHOOSE b \in Bar : Type(b) = space

LEMMA Bars ==
    ASSUME NEW space \in Space
    PROVE  BarOf(space) \in Bar /\ \A b \in Bar : Type(b) = space <=> b = BarOf(space)
<1>1. Type(0) = "io" /\ Type(1) = "mmio" /\ \A b \in Bar : b = 0 \/ b = 1
  BY DEF Type, Bar
<1>2. CASE space = "io"
  <2>1. BarOf(space) = 0
    BY <1>1, <1>2 DEF BarOf, Bar
  <2> QED BY <1>1, <1>2, <2>1 DEF Bar
<1>3. CASE space = "mmio"
  <2>1. BarOf(space) = 1
    BY <1>1, <1>3 DEF BarOf, Bar
  <2> QED BY <1>1, <1>3, <2>1 DEF Bar
<1> QED BY <1>2, <1>3 DEF Space

(* A table of the windows of the devices in slots below n, in the order of  *)
(* their slots.                                                             *)
Entry == [slot : Slot, base : Word]
Active(devices, bases, bar) == {s \in devices : bases[<<s, bar>>] # 0}
Lists(t, devices, bases, bar, n) ==
    /\ t \in Seq(Entry)
    /\ \A i \in 1..Len(t) :
           /\ t[i].slot < n /\ t[i].slot \in Active(devices, bases, bar)
           /\ t[i].base = bases[<<t[i].slot, bar>>]
    /\ \A i, j \in 1..Len(t) : i < j => t[i].slot < t[j].slot
    /\ \A s \in Active(devices, bases, bar) : s < n => \E i \in 1..Len(t) : t[i].slot = s

(* One round of the loop.                                                   *)
LEMMA NextSlot ==
    ASSUME NEW devices \in SUBSET Slot, NEW bases \in [Slot \X Bar -> Word], NEW bar \in Bar,
           NEW n \in 1..NumSlots, NEW t, Lists(t, devices, bases, bar, n - 1)
    PROVE  Lists(IF n - 1 \in devices /\ bases[<<n - 1, bar>>] # 0
                 THEN Append(t, [slot |-> n - 1, base |-> bases[<<n - 1, bar>>]]) ELSE t,
                 devices, bases, bar, n)
<1>1. n \in Nat /\ n - 1 \in Nat /\ n - 1 \in Slot /\ NumSlots \in Nat
  BY SlotsAssumption DEF Slot
<1>2. \A s \in Slot : s \in Nat /\ (s < n <=> s < n - 1 \/ s = n - 1)
  BY <1>1 DEF Slot
<1>3. /\ t \in Seq(Entry) /\ Len(t) \in Nat
      /\ \A i \in 1..Len(t) : /\ t[i].slot < n - 1 /\ t[i].slot \in Active(devices, bases, bar)
                              /\ t[i].slot \in Slot /\ t[i].base = bases[<<t[i].slot, bar>>]
      /\ \A i, j \in 1..Len(t) : i < j => t[i].slot < t[j].slot
      /\ \A s \in Active(devices, bases, bar) : s < n - 1 => \E i \in 1..Len(t) : t[i].slot = s
  <2>1. t \in Seq(Entry) /\ Len(t) \in Nat /\ \A i \in 1..Len(t) : t[i] \in Entry
    BY LenProperties, ElementOfSeq DEF Lists
  <2> QED BY <2>1 DEF Lists, Entry
<1>4. CASE n - 1 \in devices /\ bases[<<n - 1, bar>>] # 0
  <2> DEFINE m == [slot |-> n - 1, base |-> bases[<<n - 1, bar>>]]
             u == Append(t, m)
  <2>1. m \in Entry /\ m.slot = n - 1 /\ m.base = bases[<<n - 1, bar>>]
    BY <1>1 DEF Entry
  <2>2. n - 1 \in Active(devices, bases, bar)
    BY <1>4 DEF Active
  <2> HIDE DEF m
  <2>3. /\ u \in Seq(Entry) /\ Len(u) = Len(t) + 1 /\ u[Len(t) + 1] = m
        /\ \A i \in 1..Len(t) : u[i] = t[i]
    BY <1>3, <2>1, AppendProperties
  <2> HIDE DEF u
  <2>4. /\ \A i \in 1..Len(u) : i \in 1..Len(t) \/ i = Len(t) + 1
        /\ \A i \in 1..Len(t) : i \in 1..Len(u) /\ i < Len(t) + 1 /\ ~(Len(t) + 1 < i)
        /\ Len(t) + 1 \in 1..Len(u) /\ ~(Len(t) + 1 < Len(t) + 1)
    BY <1>3, <2>3
  <2>5. \A i \in 1..Len(u) : /\ u[i].slot < n /\ u[i].slot \in Active(devices, bases, bar)
                             /\ u[i].base = bases[<<u[i].slot, bar>>]
    <3> SUFFICES ASSUME NEW i \in 1..Len(u)
                 PROVE  /\ u[i].slot < n /\ u[i].slot \in Active(devices, bases, bar)
                        /\ u[i].base = bases[<<u[i].slot, bar>>]
      OBVIOUS
    <3>1. CASE i \in 1..Len(t)
      <4>1. u[i] = t[i] /\ t[i].slot < n - 1 /\ t[i].slot \in Slot
        BY <1>3, <2>3, <3>1
      <4>2. t[i].slot < n
        BY <1>2, <4>1
      <4> QED BY <1>3, <3>1, <4>1, <4>2
    <3>2. CASE i = Len(t) + 1
      <4>1. u[i] = m /\ n - 1 < n
        BY <1>1, <2>3, <3>2
      <4> QED BY <2>1, <2>2, <4>1
    <3> QED BY <2>4, <3>1, <3>2
  <2>6. \A i, j \in 1..Len(u) : i < j => u[i].slot < u[j].slot
    <3> SUFFICES ASSUME NEW i \in 1..Len(u), NEW j \in 1..Len(u), i < j
                 PROVE  u[i].slot < u[j].slot
      OBVIOUS
    <3>1. i \in 1..Len(t) /\ u[i] = t[i]
      <4>1. i # Len(t) + 1
        BY <1>3, <2>3
      <4> QED BY <2>3, <2>4, <4>1
    <3>2. CASE j \in 1..Len(t)
      <4>1. u[j] = t[j]
        BY <2>3, <3>2
      <4> QED BY <1>3, <3>1, <3>2, <4>1
    <3>3. CASE j = Len(t) + 1
      <4>1. u[j].slot = n - 1 /\ t[i].slot < n - 1
        BY <1>3, <2>1, <2>3, <3>1, <3>3
      <4> QED BY <3>1, <4>1
    <3> QED BY <2>4, <3>2, <3>3
  <2>7. \A s \in Active(devices, bases, bar) : s < n => \E i \in 1..Len(u) : u[i].slot = s
    <3> SUFFICES ASSUME NEW s \in Active(devices, bases, bar), s < n
                 PROVE  \E i \in 1..Len(u) : u[i].slot = s
      OBVIOUS
    <3>1. s < n - 1 \/ s = n - 1
      BY <1>2 DEF Active
    <3> QED BY <1>3, <2>1, <2>3, <2>4, <3>1
  <2>8. Lists(u, devices, bases, bar, n)
    BY <2>3, <2>5, <2>6, <2>7 DEF Lists
  <2> QED BY <1>4, <2>8 DEF u, m
<1>5. CASE ~(n - 1 \in devices /\ bases[<<n - 1, bar>>] # 0)
  <2>1. \A s \in Active(devices, bases, bar) : s \in Slot /\ s # n - 1
    BY <1>5 DEF Active
  <2>2. Lists(t, devices, bases, bar, n)
    BY <1>2, <1>3, <2>1 DEF Lists
  <2> QED BY <1>5, <2>2
<1> QED BY <1>4, <1>5

(* The whole loop.                                                          *)
LEMMA ActiveBarsList ==
    ASSUME NEW devices \in SUBSET Slot, NEW bases \in [Slot \X Bar -> Word], NEW space \in Space
    PROVE  Lists(ActiveBars(devices, bases, space), devices, bases, BarOf(space), NumSlots)
<1> DEFINE bar == BarOf(space)
           Round(n, t) == IF n - 1 \in devices /\ bases[<<n - 1, bar>>] # 0
                          THEN Append(t, [slot |-> n - 1, base |-> bases[<<n - 1, bar>>]]) ELSE t
           below == CHOOSE f :
                        f = [n \in 0..NumSlots |-> IF n = 0 THEN <<>> ELSE Round(n, f[n - 1])]
<1>1. NumSlots \in Nat /\ bar \in Bar
  BY SlotsAssumption, Bars
<1>2. ActiveBars(devices, bases, space) = below[NumSlots]
  BY DEF ActiveBars, BarOf
<1>3. Lists(<<>>, devices, bases, bar, 0)
  <2>1. <<>> \in Seq(Entry) /\ Len(<<>>) = 0 /\ 1..0 = {}
    OBVIOUS
  <2>2. \A s \in devices : ~(s < 0)
    BY DEF Slot
  <2> QED BY <2>1, <2>2 DEF Lists, Active
<1>4. ASSUME NEW n \in 1..NumSlots, NEW t, Lists(t, devices, bases, bar, n - 1)
      PROVE  Lists(Round(n, t), devices, bases, bar, n)
  <2> HIDE DEF bar
  <2> QED BY <1>1, <1>4, NextSlot
<1> HIDE DEF below, bar, Round
<1>5. \E g : g = [n \in 0..NumSlots |-> IF n = 0 THEN <<>> ELSE Round(n, g[n - 1])]
  <2> DEFINE Runs(g, n) == /\ DOMAIN g = 0..n /\ g[0] = <<>>
                           /\ \A m \in 1..n : g[m] = Round(m, g[m - 1])
             T == {n \in 0..NumSlots : ~ \E g : g = [m \in 0..n |-> g[m]] /\ Runs(g, n)}
  <2>1. T = {}
    <3> SUFFICES ASSUME T # {} PROVE FALSE
      OBVIOUS
    <3>1. PICK x \in T : \A y \in T : x <= y
      <4>1. T \in SUBSET Nat
        BY <1>1
      <4> HIDE DEF T
      <4> QED BY <4>1, LeastElement
    <3>2. x \in 0..NumSlots /\ ~ \E g : g = [m \in 0..x |-> g[m]] /\ Runs(g, x)
      OBVIOUS
    <3>3. CASE x = 0
      <4> DEFINE g == [m \in 0..0 |-> <<>>]
      <4>1. g = [m \in 0..0 |-> g[m]] /\ Runs(g, 0)
        OBVIOUS
      <4> QED BY <3>2, <3>3, <4>1
    <3>4. CASE x # 0
      <4>1. x - 1 \in 0..NumSlots /\ x - 1 \in Nat /\ ~(x <= x - 1) /\ x \in Nat /\ x >= 1
        BY <1>1, <3>4
      <4>2. PICK g : g = [m \in 0..(x - 1) |-> g[m]] /\ Runs(g, x - 1)
        BY <3>1, <4>1
      <4> DEFINE h == [m \in 0..x |-> IF m = x THEN Round(x, g[x - 1]) ELSE g[m]]
      <4>3. h = [m \in 0..x |-> h[m]] /\ DOMAIN h = 0..x
        OBVIOUS
      <4>4. h[0] = <<>>
        BY <4>1, <4>2
      <4>5. \A m \in 1..x : h[m] = Round(m, h[m - 1])
        <5> SUFFICES ASSUME NEW m \in 1..x PROVE h[m] = Round(m, h[m - 1])
          OBVIOUS
        <5>1. m \in 0..x /\ m - 1 \in 0..x /\ m - 1 # x
          BY <4>1
        <5>2. h[m - 1] = g[m - 1]
          BY <5>1
        <5>3. CASE m = x
          BY <5>1, <5>2, <5>3
        <5>4. CASE m # x
          <6>1. m \in 1..(x - 1)
            BY <4>1, <5>4
          <6>2. h[m] = g[m]
            BY <5>1, <5>4
          <6> QED BY <4>2, <5>2, <6>1, <6>2
        <5> QED BY <5>3, <5>4
      <4> HIDE DEF h
      <4> QED BY <3>2, <4>3, <4>4, <4>5
    <3> QED BY <3>3, <3>4
  <2>2. PICK g : g = [m \in 0..NumSlots |-> g[m]] /\ Runs(g, NumSlots)
    BY <1>1, <2>1
  <2>3. \A n \in 0..NumSlots : g[n] = IF n = 0 THEN <<>> ELSE Round(n, g[n - 1])
    <3> SUFFICES ASSUME NEW n \in 0..NumSlots
                 PROVE  g[n] = IF n = 0 THEN <<>> ELSE Round(n, g[n - 1])
      OBVIOUS
    <3>1. n = 0 \/ n \in 1..NumSlots
      BY <1>1
    <3> QED BY <2>2, <3>1
  <2>4. g = [n \in 0..NumSlots |-> IF n = 0 THEN <<>> ELSE Round(n, g[n - 1])]
    BY <2>2, <2>3
  <2> QED BY <2>4
<1>6. below = [n \in 0..NumSlots |-> IF n = 0 THEN <<>> ELSE Round(n, below[n - 1])]
  BY <1>5, Zenon DEF below
<1>7. below[0] = <<>> /\ \A n \in 1..NumSlots : below[n] = Round(n, below[n - 1])
  <2>1. 0 \in 0..NumSlots /\ \A n \in 1..NumSlots : n \in 0..NumSlots /\ n # 0
    BY <1>1
  <2> QED BY <1>6, <2>1
<1>8. \A n \in 0..NumSlots : Lists(below[n], devices, bases, bar, n)
  <2> DEFINE T == {n \in 0..NumSlots : ~ Lists(below[n], devices, bases, bar, n)}
  <2> SUFFICES ASSUME T # {} PROVE FALSE
    OBVIOUS
  <2>1. T \in SUBSET Nat
    BY <1>1
  <2>2. PICK x \in T : \A y \in T : x <= y
    <3> HIDE DEF T
    <3> QED BY <2>1, LeastElement
  <2>3. x \in 0..NumSlots /\ ~ Lists(below[x], devices, bases, bar, x)
    OBVIOUS
  <2>4. x # 0
    BY <1>3, <1>7, <2>3
  <2>5. x \in 1..NumSlots /\ x - 1 \in 0..NumSlots /\ ~(x <= x - 1)
    BY <1>1, <2>3, <2>4
  <2>6. Lists(below[x - 1], devices, bases, bar, x - 1)
    BY <2>2, <2>5
  <2>7. Lists(Round(x, below[x - 1]), devices, bases, bar, x)
    BY <1>4, <2>5, <2>6
  <2> QED BY <1>7, <2>3, <2>5, <2>7
<1> QED BY <1>1, <1>2, <1>8 DEF bar

(* The tables are the ones of the devices and bases there are now; and a    *)
(* register that is not torn reads back as the base.                        *)
Mapped    == \A space \in Space : bars[space] = ActiveBars(slots, base, space)
ReadsBack == \A r \in (Slot \X Bar) \ torn : pciSpace[r] = base[r]

BusIInv == BusTypeOK /\ Mapped /\ ReadsBack

(* The first entry that holds an address is of a device that shows it, or of  *)
(* one whose register misleads, and none that truly shows it comes before:   *)
(* the tables are complete and ordered by slot.                              *)
LEMMA FirstWins ==
    ASSUME BusIInv, NEW space \in Space, NEW address \in Address
    PROVE  /\ Route(space, address) # None =>
                \E r \in slots \X Bar : /\ r[1] = Route(space, address) /\ Type(r[2]) = space
                                       /\ r \in Shown(space, address) \cup Misleading
           /\ \A r \in Shown(space, address) \ Misleading : Route(space, address) <= r[1]
<1> DEFINE bar  == BarOf(space)
           t    == bars[space]
           On(b)  == address \in b..(b + Size - 1)
           hits == {i \in DOMAIN t : address \in t[i].base..(t[i].base + Size - 1)}
           all  == Shown(space, address)
           first == CHOOSE i \in hits : \A j \in hits : i <= j
<1>0. /\ slots \in SUBSET Slot /\ base \in [Slot \X Bar -> Word]
      /\ t = ActiveBars(slots, base, space)
      /\ \A r \in (Slot \X Bar) \ torn : pciSpace[r] = base[r]
  BY DEF BusIInv, BusTypeOK, Mapped, ReadsBack
<1>1. bar \in Bar /\ \A b \in Bar : Type(b) = space <=> b = bar
  BY Bars
<1>2. Route(space, address) = IF hits = {} THEN None ELSE t[first].slot
  BY DEF Route
<1>3. Lists(t, slots, base, bar, NumSlots)
  BY <1>0, ActiveBarsList
<1> HIDE DEF bar, t
<1>4. /\ Len(t) \in Nat /\ DOMAIN t = 1..Len(t)
      /\ \A i \in 1..Len(t) : /\ t[i].slot \in Active(slots, base, bar)
                              /\ t[i].base = base[<<t[i].slot, bar>>]
      /\ \A i, j \in 1..Len(t) : i < j => t[i].slot < t[j].slot
      /\ \A s \in Active(slots, base, bar) : s < NumSlots => \E i \in 1..Len(t) : t[i].slot = s
  BY <1>3, LenProperties DEF Lists
<1>5. \A s \in Slot : s \in Nat /\ s < NumSlots
  BY SlotsAssumption DEF Slot
<1>6. \A s \in Active(slots, base, bar) : s \in Slot /\ s \in slots /\ base[<<s, bar>>] # 0
  BY <1>0 DEF Active
<1>7. \A i \in hits : /\ <<t[i].slot, bar>> \in slots \X Bar /\ Type(bar) = space
                      /\ <<t[i].slot, bar>> \in all \cup Misleading
  <2> SUFFICES ASSUME NEW i \in hits
               PROVE  /\ <<t[i].slot, bar>> \in slots \X Bar /\ Type(bar) = space
                      /\ <<t[i].slot, bar>> \in all \cup Misleading
    OBVIOUS
  <2> DEFINE r == <<t[i].slot, bar>>
  <2>1. /\ t[i].slot \in Slot /\ t[i].slot \in slots /\ t[i].base = base[r] /\ base[r] # 0
        /\ On(t[i].base)
    BY <1>4, <1>6
  <2>2. r \in Slot \X Bar /\ r \in slots \X Bar /\ r[2] = bar /\ Type(r[2]) = space
    BY <1>1, <2>1
  <2>3. CASE r \in Misleading
    BY <1>1, <2>2, <2>3
  <2>4. CASE r \notin Misleading
    <3>1. r \notin torn /\ r \notin sizing
      BY <2>4 DEF Misleading
    <3>2. ReadPciConfig(r) = base[r]
      BY <1>0, <2>2, <3>1 DEF ReadPciConfig
    <3> HIDE DEF r
    <3>3. r \in all
      BY <2>1, <2>2, <3>2 DEF Shown
    <3> QED BY <1>1, <2>2, <3>3 DEF r
  <2> QED BY <2>3, <2>4
<1>8. \A r \in all \ Misleading : r[1] \in Slot /\ \E i \in hits : t[i].slot = r[1]
  <2> SUFFICES ASSUME NEW r \in all \ Misleading
               PROVE  r[1] \in Slot /\ \E i \in hits : t[i].slot = r[1]
    OBVIOUS
  <2>1. /\ r \in slots \X Bar /\ Type(r[2]) = space
        /\ ReadPciConfig(r) # 0 /\ On(ReadPciConfig(r))
    BY DEF Shown
  <2>2. /\ r[1] \in slots /\ r[1] \in Slot /\ r[2] \in Bar /\ r = <<r[1], r[2]>>
        /\ r \in Slot \X Bar
    BY <1>0, <2>1
  <2>3. r[2] = bar /\ r = <<r[1], bar>>
    BY <1>1, <2>1, <2>2
  <2>4. ReadPciConfig(r) = base[r]
    BY <1>0, <2>2 DEF ReadPciConfig, Misleading
  <2>5. r[1] \in Active(slots, base, bar)
    BY <2>1, <2>2, <2>3, <2>4 DEF Active
  <2>6. PICK i \in 1..Len(t) : t[i].slot = r[1]
    BY <1>4, <1>5, <2>2, <2>5
  <2>7. t[i].base = base[r]
    BY <1>4, <2>3, <2>6
  <2>8. i \in hits
    BY <1>4, <2>1, <2>4, <2>6, <2>7
  <2> QED BY <2>2, <2>6, <2>8
<1> HIDE DEF hits, all
<1>9. CASE hits = {}
  <2>1. all \ Misleading = {} /\ Route(space, address) = None
    BY <1>2, <1>8, <1>9
  <2> QED BY <2>1 DEF all
<1>10. CASE hits # {}
  <2>1. \A i \in hits : i \in 1..Len(t) /\ i \in Nat
    BY <1>4 DEF hits
  <2>2. \E i \in hits : \A j \in hits : i <= j
    <3>1. hits \in SUBSET Nat
      BY <2>1
    <3> QED BY <1>10, <3>1, LeastElement
  <2>3. first \in hits /\ \A j \in hits : first <= j
    BY <2>2
  <2> HIDE DEF first
  <2> DEFINE s == t[first].slot
  <2>4. s \in Slot
    BY <1>4, <1>6, <2>1, <2>3
  <2>5. \A r \in all \ Misleading : s <= r[1]
    <3> SUFFICES ASSUME NEW r \in all \ Misleading PROVE s <= r[1]
      OBVIOUS
    <3>1. PICK j \in hits : t[j].slot = r[1]
      BY <1>8
    <3>2. first = j \/ first < j
      BY <2>1, <2>3
    <3>3. s \in Nat /\ t[j].slot \in Nat
      BY <1>4, <1>5, <1>6, <2>1, <2>4
    <3> HIDE DEF s
    <3>4. s = t[j].slot \/ s < t[j].slot
      BY <1>4, <2>1, <2>3, <3>2 DEF s
    <3> QED BY <3>1, <3>3, <3>4
  <2>6. <<s, bar>> \in slots \X Bar /\ Type(bar) = space /\ <<s, bar>> \in all \cup Misleading
    BY <1>7, <2>3
  <2>7. Route(space, address) = s
    BY <1>2, <1>10
  <2> HIDE DEF s
  <2>8. <<s, bar>>[1] = s /\ <<s, bar>>[2] = bar
    OBVIOUS
  <2>9. \E r \in slots \X Bar : r[1] = s /\ Type(r[2]) = space /\ r \in all \cup Misleading
    BY <2>6, <2>8
  <2> QED BY <2>5, <2>7, <2>9 DEF all
<1> QED BY <1>9, <1>10

(* The tables after a rebuild.                                              *)
LEMMA Rebuilt ==
    ASSUME RebuildBarMappings, slots' \in SUBSET Slot, base' \in [Slot \X Bar -> Word]
    PROVE  bars' \in [Space -> Seq(Entry)] /\ Mapped'
<1>1. bars' = [space \in Space |-> ActiveBars(slots', base', space)]
  BY DEF RebuildBarMappings
<1>2. \A space \in Space : ActiveBars(slots', base', space) \in Seq(Entry)
  <2> TAKE space \in Space
  <2>1. Lists(ActiveBars(slots', base', space), slots', base', BarOf(space), NumSlots)
    BY ActiveBarsList
  <2> QED BY <2>1 DEF Lists
<1>3. Mapped'
  BY <1>1 DEF Mapped
<1> QED BY <1>1, <1>2, <1>3

LEMMA Kept ==
    ASSUME Mapped, slots' = slots, base' = base, bars' = bars
    PROVE  Mapped'
<1> SUFFICES ASSUME NEW space \in Space PROVE bars'[space] = ActiveBars(slots', base', space)
  BY DEF Mapped
<1>1. bars[space] = ActiveBars(slots, base, space)
  BY DEF Mapped
<1> QED BY <1>1

(* Half a register replaced.                                                *)
LEMMA Halves ==
    ASSUME NEW word \in Word, NEW value \in 0..(Half - 1)
    PROVE  /\ (value * Half) + (word % Half) \in Word
           /\ ((word \div Half) * Half) + value \in Word
<1>1. Half \in Nat /\ Half >= 1 /\ value \in Nat /\ value <= Half - 1 /\ word \in Nat
      /\ word < Half * Half /\ Half * Half \in Nat
  BY SizeAssumption DEF Word
<1> DEFINE lo == word % Half
           hi == word \div Half
<1>2. lo \in 0..(Half - 1) /\ hi \in Nat /\ word = Half * hi + lo
  BY <1>1
<1> HIDE DEF lo, hi
<1>3. \A a \in Nat, b \in Nat : a <= Half - 1 /\ b <= Half - 1 =>
                                  a * Half + b \in Nat /\ a * Half + b < Half * Half
  <2> SUFFICES ASSUME NEW a \in Nat, NEW b \in Nat, a <= Half - 1, b <= Half - 1
               PROVE  a * Half + b \in Nat /\ a * Half + b < Half * Half
    OBVIOUS
  <2>1. a * Half \in Nat /\ a * Half <= (Half - 1) * Half
    BY <1>1
  <2>2. (Half - 1) * Half = Half * Half - Half
    BY <1>1
  <2> QED BY <1>1, <2>1, <2>2
<1>4. hi <= Half - 1
  <2>1. CASE hi >= Half
    <3>1. Half * hi >= Half * Half
      BY <1>1, <1>2, <2>1
    <3> QED BY <1>1, <1>2, <3>1
  <2> QED BY <1>1, <1>2, <2>1
<1>5. value * Half + lo < Half * Half /\ hi * Half + value < Half * Half
      /\ value * Half + lo \in Nat /\ hi * Half + value \in Nat
  BY <1>1, <1>2, <1>3, <1>4
<1>6. \A x \in Nat : x < Half * Half => x \in Word
  BY <1>1 DEF Word
<1> QED BY <1>5, <1>6 DEF lo, hi

LEMMA BusStart ==
    ASSUME BusInit
    PROVE  BusIInv
<1>1. 0 \in Word /\ 0 \in Slot /\ 0 \in Bar /\ 0..0 = {0}
  <2>1. Half \in Nat /\ Half >= 1 /\ NumSlots \in Nat /\ NumSlots >= 1
    BY SlotsAssumption, SizeAssumption
  <2>2. Half * Half >= 1 /\ Half * Half \in Nat
    BY <2>1
  <2> QED BY <2>1, <2>2 DEF Word, Slot, Bar
<1>2. /\ slots = {} /\ torn = {} /\ sizing = {} /\ pciSpace = [r \in Slot \X Bar |-> 0]
      /\ base = pciSpace /\ bars = [space \in Space |-> <<>>]
      /\ configAddress = [enable |-> FALSE, slot |-> 0, bar |-> 0]
  BY DEF BusInit
<1>3. BusTypeOK
  BY <1>1, <1>2 DEF BusTypeOK
<1>4. Mapped
  <2> SUFFICES ASSUME NEW space \in Space PROVE bars[space] = ActiveBars(slots, base, space)
    BY DEF Mapped
  <2> DEFINE t == ActiveBars(slots, base, space)
  <2>1. Lists(t, slots, base, BarOf(space), NumSlots)
    BY <1>2, <1>3, ActiveBarsList DEF BusTypeOK
  <2> HIDE DEF t
  <2>2. Active(slots, base, BarOf(space)) = {}
    BY <1>2 DEF Active
  <2>3. t \in Seq(Entry) /\ Len(t) \in Nat /\ 1..Len(t) = {}
    BY <2>1, <2>2, LenProperties DEF Lists
  <2>4. t = <<>>
    <3>1. Len(t) = 0
      BY <2>3
    <3> QED BY <2>3, <3>1, EmptySeq
  <2> QED BY <1>2, <2>4 DEF t
<1>5. ReadsBack
  BY <1>2 DEF ReadsBack
<1> QED BY <1>3, <1>4, <1>5 DEF BusIInv

(* One step of the bus, action by action.                                   *)
LEMMA BusStep ==
    ASSUME BusIInv, [BusNext]_busVars
    PROVE  BusIInv'
<1>0. /\ slots \in SUBSET Slot /\ sizing \subseteq Slot \X Bar /\ torn \subseteq Slot \X Bar
      /\ configAddress \in [enable : BOOLEAN, slot : Slot, bar : Bar]
      /\ pciSpace \in [Slot \X Bar -> Word] /\ base \in [Slot \X Bar -> Word]
      /\ bars \in [Space -> Seq(Entry)] /\ Selected \in Slot \X Bar
      /\ Mapped /\ ReadsBack
  BY DEF BusIInv, BusTypeOK, Entry, Selected
<1>1. ASSUME NEW slot \in Slot, RegisterDevice(slot)
      PROVE  BusIInv'
  <2>1. /\ slots' \in SUBSET Slot /\ RebuildBarMappings
        /\ UNCHANGED <<configAddress, pciSpace, base, sizing, torn>>
    BY <1>0, <1>1 DEF RegisterDevice
  <2>2. bars' \in [Space -> Seq(Entry)] /\ Mapped'
    BY <1>0, <2>1, Rebuilt
  <2>3. BusTypeOK'
    BY <1>0, <2>1, <2>2 DEF BusTypeOK, Entry
  <2>4. ReadsBack'
    BY <1>0, <2>1 DEF ReadsBack
  <2> QED BY <2>2, <2>3, <2>4 DEF BusIInv
<1>2. ASSUME NEW enable \in BOOLEAN, NEW slot \in Slot, NEW bar \in Bar,
             WriteConfigAddress(enable, slot, bar)
      PROVE  BusIInv'
  <2>1. /\ configAddress' \in [enable : BOOLEAN, slot : Slot, bar : Bar]
        /\ UNCHANGED <<slots, pciSpace, base, sizing, bars, torn>>
    BY <1>2 DEF WriteConfigAddress
  <2>2. BusTypeOK'
    BY <1>0, <2>1 DEF BusTypeOK, Entry
  <2>3. Mapped' /\ ReadsBack'
    BY <1>0, <2>1, Kept DEF ReadsBack
  <2> QED BY <2>2, <2>3 DEF BusIInv
<1>3. CASE Probe
  <2>1. /\ sizing' \subseteq Slot \X Bar
        /\ UNCHANGED <<slots, configAddress, pciSpace, base, bars, torn>>
    BY <1>0, <1>3 DEF Probe
  <2>2. BusTypeOK'
    BY <1>0, <2>1 DEF BusTypeOK, Entry
  <2>3. Mapped' /\ ReadsBack'
    BY <1>0, <2>1, Kept DEF ReadsBack
  <2> QED BY <2>2, <2>3 DEF BusIInv
<1>4. ASSUME NEW word \in Word, Assign(word)
      PROVE  BusIInv'
  <2>1. /\ base' = [base EXCEPT ![Selected] = word]
        /\ pciSpace' = [pciSpace EXCEPT ![Selected] = word]
        /\ sizing' = sizing \ {Selected} /\ torn' = torn \ {Selected}
        /\ slots' = slots /\ configAddress' = configAddress /\ RebuildBarMappings
    BY <1>4 DEF Assign
  <2>2. base' \in [Slot \X Bar -> Word] /\ pciSpace' \in [Slot \X Bar -> Word]
    BY <1>0, <2>1
  <2>3. bars' \in [Space -> Seq(Entry)] /\ Mapped'
    BY <1>0, <2>1, <2>2, Rebuilt
  <2>4. BusTypeOK'
    BY <1>0, <2>1, <2>2, <2>3 DEF BusTypeOK, Entry
  <2>5. ReadsBack'
    <3> SUFFICES ASSUME NEW r \in (Slot \X Bar) \ torn' PROVE pciSpace'[r] = base'[r]
      BY DEF ReadsBack
    <3>1. CASE r = Selected
      BY <1>0, <2>1, <3>1
    <3>2. CASE r # Selected
      <4>1. r \in (Slot \X Bar) \ torn
        BY <2>1, <3>2
      <4> QED BY <1>0, <2>1, <3>2, <4>1 DEF ReadsBack
    <3> QED BY <3>1, <3>2
  <2> QED BY <2>3, <2>4, <2>5 DEF BusIInv
<1>5. ASSUME NEW high \in BOOLEAN, NEW value \in 0..(Half - 1), AssignHalf(high, value)
      PROVE  BusIInv'
  <2> DEFINE word == pciSpace[Selected]
             new  == IF high THEN (value * Half) + (word % Half)
                     ELSE ((word \div Half) * Half) + value
  <2>1. /\ pciSpace' = [pciSpace EXCEPT ![Selected] = new] /\ torn' = torn \cup {Selected}
        /\ UNCHANGED <<slots, configAddress, base, sizing, bars>>
    BY <1>5 DEF AssignHalf
  <2>2. new \in Word
    <3>1. word \in Word
      BY <1>0
    <3> HIDE DEF word
    <3>2. /\ (value * Half) + (word % Half) \in Word
          /\ ((word \div Half) * Half) + value \in Word
      BY <3>1, Halves
    <3> QED BY <3>2
  <2> HIDE DEF new
  <2>3. pciSpace' \in [Slot \X Bar -> Word]
    BY <1>0, <2>1, <2>2
  <2>4. BusTypeOK'
    BY <1>0, <2>1, <2>3 DEF BusTypeOK, Entry
  <2>5. Mapped'
    BY <1>0, <2>1, Kept
  <2>6. ReadsBack'
    <3> SUFFICES ASSUME NEW r \in (Slot \X Bar) \ torn' PROVE pciSpace'[r] = base'[r]
      BY DEF ReadsBack
    <3>1. r \in (Slot \X Bar) \ torn /\ r # Selected
      BY <2>1
    <3> QED BY <1>0, <2>1, <3>1 DEF ReadsBack
  <2> QED BY <2>4, <2>5, <2>6 DEF BusIInv
<1>6. CASE UNCHANGED busVars
  <2>1. UNCHANGED <<slots, configAddress, pciSpace, base, sizing, bars, torn>>
    BY <1>6 DEF busVars
  <2>2. BusTypeOK'
    BY <1>0, <2>1 DEF BusTypeOK, Entry
  <2>3. Mapped' /\ ReadsBack'
    BY <1>0, <2>1, Kept DEF ReadsBack
  <2> QED BY <2>2, <2>3 DEF BusIInv
<1> QED BY <1>1, <1>2, <1>3, <1>4, <1>5, <1>6 DEF BusNext, WriteConfigData

-----------------------------------------------------------------------------
(* Registers and tables hold addresses of the bus, for any number of slots, *)
(* widths of registers and sizes of windows.                                *)
THEOREM BusTypeCorrect == BusSpec => []BusTypeOK
<1>1. BusInit => BusIInv
  BY BusStart
<1>2. BusIInv /\ [BusNext]_busVars => BusIInv'
  BY BusStep
<1>3. BusIInv => BusTypeOK
  BY DEF BusIInv
<1> QED BY <1>1, <1>2, <1>3, PTL DEF BusSpec

(* Whatever is registered, sized, moved and laid over each other in whatever *)
(* order, an address is answered by the first device whose register, as it   *)
(* reads back, says so, but for registers being sized or torn               *)
(* (pci_bus.js:72-86), for any number of slots and any widths.              *)
THEOREM AnswersWhereShownCorrect == BusSpec => []AnswersWhereShown
<1>1. BusInit => BusIInv
  BY BusStart
<1>2. BusIInv /\ [BusNext]_busVars => BusIInv'
  BY BusStep
<1>3. BusIInv => AnswersWhereShown
  BY FirstWins DEF AnswersWhereShown
<1> QED BY <1>1, <1>2, <1>3, PTL DEF BusSpec

=============================================================================
