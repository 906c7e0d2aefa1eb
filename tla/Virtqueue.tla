------------------------------ MODULE Virtqueue ------------------------------
(***************************************************************************)
(* A split virtqueue: the device half is Virtqueue (src/virtio/virtqueue.js) *)
(* used as the devices under src/io use it, the driver half is external: a  *)
(* guest kernel that disables callbacks while it reaps, re-enables them,    *)
(* looks once more and then sleeps until the next interrupt.                *)
(*                                                                         *)
(* Indices run modulo Mod (2^16 in the code), the rings have QSize slots,   *)
(* and any number of consumed chains may be outstanding at the device and   *)
(* complete in any order.  Chains are well-formed (DescriptorChain treats   *)
(* the others).  The device works in whole turns of the worker, so a        *)
(* completion with its notification is one step, and so is a guest step.    *)
(***************************************************************************)
EXTENDS Integers, Sequences, FiniteSets

CONSTANTS
    QSize,     \* queue size
    Mod        \* index modulus

ASSUME QSizeAssumption == QSize \in Nat \ {0}
ASSUME ModAssumption   == Mod \in Nat /\ Mod > QSize /\ Mod % QSize = 0

Slot == 0..(QSize - 1)
Chain == 0..(QSize - 1)    \* head descriptor indices
Idx  == 0..(Mod - 1)

VARIABLES
    \* guest memory
    availIdx, availRing, usedIdx, usedRing,
    noInterrupt,       \* avail.flags & VRING_AVAIL_F_NO_INTERRUPT
    usedEvent,         \* the driver's event index, at the end of the avail ring
    \* device
    enabled,           \* enabled, with the ring addresses set
    lastAvailIdx, lastUsedIdx, notifiedUsedIdx,
    inFlight,          \* heads popped and not yet pushed
    irq,               \* an interrupt of this queue is pending
    eventIdx,          \* VIRTIO_F_RING_EVENT_IDX negotiated
    \* driver (external)
    free,              \* heads the driver owns
    seenUsedIdx,       \* used entries reaped
    driver             \* "asleep" | "reaping" | "rechecking"

memVars    == <<availIdx, availRing, usedIdx, usedRing, noInterrupt, usedEvent>>
deviceVars == <<enabled, lastAvailIdx, lastUsedIdx, notifiedUsedIdx, inFlight, irq, eventIdx>>
driverVars == <<free, seenUsedIdx, driver>>
vars == <<memVars, deviceVars, driverVars>>

TypeOK ==
    /\ {availIdx, usedIdx, lastAvailIdx, lastUsedIdx, notifiedUsedIdx, seenUsedIdx,
        usedEvent} \subseteq Idx
    /\ availRing \in [Slot -> Chain] /\ usedRing \in [Slot -> Chain]
    /\ noInterrupt \in BOOLEAN /\ enabled \in BOOLEAN /\ irq \in BOOLEAN
    /\ eventIdx \in BOOLEAN
    /\ inFlight \subseteq Chain /\ free \subseteq Chain
    /\ driver \in {"asleep", "reaping", "rechecking"}

ZeroRings ==
    /\ availIdx' = 0 /\ availRing' = [s \in Slot |-> 0]
    /\ usedIdx' = 0 /\ usedRing' = [s \in Slot |-> 0]
    /\ noInterrupt' = FALSE /\ usedEvent' = 0

Init ==
    /\ availIdx = 0 /\ availRing = [s \in Slot |-> 0]
    /\ usedIdx = 0 /\ usedRing = [s \in Slot |-> 0]
    /\ noInterrupt = FALSE /\ usedEvent = 0
    /\ enabled = FALSE /\ lastAvailIdx = 0 /\ lastUsedIdx = 0 /\ notifiedUsedIdx = 0
    /\ inFlight = {} /\ irq = FALSE /\ eventIdx \in BOOLEAN
    /\ free = Chain /\ seenUsedIdx = 0 /\ driver = "asleep"

Inc(i)      == (i + 1) % Mod
Minus(i, j) == (i - j) % Mod      \* the code's (i - j) & 0xFFFF

-----------------------------------------------------------------------------
(* Device.                                                                 *)

HasAvailable == enabled /\ lastAvailIdx # availIdx

(* popDescriptorChain of a well-formed chain.                              *)
PopDescriptorChain ==
    /\ HasAvailable
    /\ inFlight' = inFlight \cup {availRing[lastAvailIdx % QSize]}
    /\ lastAvailIdx' = Inc(lastAvailIdx)
    /\ UNCHANGED <<memVars, enabled, lastUsedIdx, notifiedUsedIdx, irq, eventIdx, driverVars>>

\* Mutant: every entry is written to the first slot of the ring.
PushUsedFixedSlot(h) ==
    /\ usedRing' = [usedRing EXCEPT ![0] = h]
    /\ lastUsedIdx' = Inc(lastUsedIdx)
    /\ usedIdx' = Inc(lastUsedIdx)

PushUsed(h) ==
    /\ usedRing' = [usedRing EXCEPT ![lastUsedIdx % QSize] = h]
    /\ lastUsedIdx' = Inc(lastUsedIdx)
    /\ usedIdx' = Inc(lastUsedIdx)

(* The word shouldNotify compares with: avail_event behind the used ring,   *)
(* which belongs to the device and which nothing but the driver's zeroing   *)
(* of the rings ever writes.                                               *)
AvailEvent == 0

\* Mutant: the driver's flag is read the wrong way round.
NeedNotifyInverted(new) == noInterrupt

(* shouldNotify, evaluated after PushUsed made new the used index.         *)
NeedNotify(new) ==
    IF ~eventIdx THEN ~noInterrupt
    ELSE Minus(new - 1, AvailEvent) <
           (IF new = notifiedUsedIdx THEN 1 ELSE Minus(new, notifiedUsedIdx))

(* completeChain: push, and raise the interrupt if the driver wants it.    *)
CompleteChain(h) ==
    /\ enabled /\ h \in inFlight
    /\ inFlight' = inFlight \ {h}
    /\ PushUsed(h)
    /\ IF NeedNotify(Inc(lastUsedIdx))
       THEN /\ irq' = TRUE
            /\ notifiedUsedIdx' = IF eventIdx THEN Inc(lastUsedIdx) ELSE notifiedUsedIdx
       ELSE UNCHANGED <<irq, notifiedUsedIdx>>
    /\ UNCHANGED <<availIdx, availRing, noInterrupt, usedEvent, enabled, lastAvailIdx, eventIdx,
                   driverVars>>

\* Mutant: the used index survives a reset.
ResetKeepsUsedIdx ==
    /\ enabled /\ inFlight = {}
    /\ enabled' = FALSE /\ lastAvailIdx' = 0 /\ notifiedUsedIdx' = 0 /\ irq' = FALSE
    /\ free' = Chain /\ seenUsedIdx' = 0 /\ driver' = "asleep"
    /\ UNCHANGED <<memVars, inFlight, lastUsedIdx, eventIdx>>

(* A device reset while nothing is in flight, with clearDevice; the driver  *)
(* takes its buffers back.                                                 *)
Reset ==
    /\ enabled /\ inFlight = {}
    /\ enabled' = FALSE /\ lastAvailIdx' = 0 /\ lastUsedIdx' = 0 /\ notifiedUsedIdx' = 0
    /\ irq' = FALSE
    /\ free' = Chain /\ seenUsedIdx' = 0 /\ driver' = "asleep"
    /\ UNCHANGED <<memVars, inFlight, eventIdx>>

-----------------------------------------------------------------------------
(* Driver.                                                                 *)

(* Zeroed rings, their addresses, then the enable bit.                     *)
Setup ==
    /\ ~enabled
    /\ ZeroRings
    /\ enabled' = TRUE
    /\ UNCHANGED <<lastAvailIdx, lastUsedIdx, notifiedUsedIdx, inFlight, irq, eventIdx, driverVars>>

Offer(h) ==
    /\ enabled /\ h \in free
    /\ free' = free \ {h}
    /\ availRing' = [availRing EXCEPT ![availIdx % QSize] = h]
    /\ availIdx' = Inc(availIdx)
    /\ UNCHANGED <<usedIdx, usedRing, noInterrupt, usedEvent, deviceVars, seenUsedIdx, driver>>

(* The interrupt handler acknowledges and disables callbacks.              *)
Interrupt ==
    /\ enabled /\ irq /\ driver = "asleep"
    /\ irq' = FALSE /\ driver' = "reaping"
    /\ noInterrupt' = ~eventIdx
    /\ UNCHANGED <<availIdx, availRing, usedIdx, usedRing, usedEvent, enabled,
                   lastAvailIdx, lastUsedIdx, notifiedUsedIdx, inFlight, eventIdx, free, seenUsedIdx>>

Reap ==
    /\ enabled /\ driver = "reaping" /\ seenUsedIdx # usedIdx
    /\ free' = free \cup {usedRing[seenUsedIdx % QSize]}
    /\ seenUsedIdx' = Inc(seenUsedIdx)
    /\ UNCHANGED <<memVars, deviceVars, driver>>

EnableCallbacks ==
    /\ enabled /\ driver = "reaping" /\ seenUsedIdx = usedIdx
    /\ driver' = "rechecking"
    /\ noInterrupt' = FALSE /\ usedEvent' = seenUsedIdx
    /\ UNCHANGED <<availIdx, availRing, usedIdx, usedRing, deviceVars, free, seenUsedIdx>>

Recheck ==
    /\ enabled /\ driver = "rechecking"
    /\ IF seenUsedIdx = usedIdx
       THEN driver' = "asleep" /\ UNCHANGED noInterrupt
       ELSE driver' = "reaping" /\ noInterrupt' = ~eventIdx
    /\ UNCHANGED <<availIdx, availRing, usedIdx, usedRing, usedEvent, deviceVars, free, seenUsedIdx>>

-----------------------------------------------------------------------------
Device == PopDescriptorChain \/ \E h \in Chain : CompleteChain(h)
Driver == Setup \/ Interrupt \/ Reap \/ EnableCallbacks \/ Recheck \/ \E h \in Chain : Offer(h)
Next == Device \/ Driver \/ Reset

Spec == Init /\ [][Next]_vars

(* The worker keeps running devices and guest: every device completes what  *)
(* it consumed, and the driver's handler runs on.  Nobody has to offer or   *)
(* reset.                                                                   *)
FairSpec ==
    /\ Spec
    /\ WF_vars(PopDescriptorChain)
    /\ \A h \in Chain : WF_vars(CompleteChain(h))
    /\ WF_vars(Interrupt) /\ WF_vars(Reap) /\ WF_vars(EnableCallbacks) /\ WF_vars(Recheck)

-----------------------------------------------------------------------------
(* What the rings hold.                                                     *)
AvailQ == [i \in 1..Minus(availIdx, lastAvailIdx) |-> availRing[(lastAvailIdx + i - 1) % QSize]]
UsedQ  == [i \in 1..Minus(usedIdx, seenUsedIdx)   |-> usedRing[(seenUsedIdx + i - 1) % QSize]]

(* After a reset the old rings mean nothing until they are set up again.    *)
Contract == INSTANCE VirtqueueContract WITH
    avail  <- IF enabled THEN AvailQ ELSE <<>>,
    device <- inFlight,
    used   <- IF enabled THEN UsedQ ELSE <<>>

(* The ring engine implements the contract: no chain is lost, duplicated or *)
(* reordered, across index wrap-around and resets of an idle device.        *)
ImplementsContract == Contract!Spec

(* A driver that sleeps with a completion unseen has an interrupt coming    *)
(* (virtqueue.js:338-363, virtio_blk.js:298-303).  With EVENT_IDX that is   *)
(* false: the device compares with a word nobody writes (AvailEvent), where *)
(* the driver announces usedEvent, and stays silent.                       *)
NoLostInterrupt ==
    ~eventIdx /\ enabled /\ driver = "asleep" /\ seenUsedIdx # usedIdx => irq

(* Every chain offered comes back to the driver, or the device is reset;    *)
(* with EVENT_IDX the driver may never be told.                            *)
EveryChainReturns ==
    \A h \in Chain : (~eventIdx /\ enabled /\ h \notin free) ~> (h \in free)

=============================================================================
