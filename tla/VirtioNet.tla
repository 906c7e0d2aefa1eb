------------------------------ MODULE VirtioNet ------------------------------
(***************************************************************************)
(* The network device, src/io/net/virtio_net.js, on its transport           *)
(* (VirtioPci), with the host's proxy that hands it frames and the guest    *)
(* driver, which is external.  Queue 0 transmits and queue 1 receives, as   *)
(* the code numbers them.                                                  *)
(*                                                                         *)
(* Frames are numbered in the order the device accepts them, anew after    *)
(* each reset; a refused one leaves no trace.  Every handler runs in one    *)
(* turn of the worker.  What transmit() does with a frame is telemetry (the *)
(* tunnel is a stub), and so is the link state.                            *)
(***************************************************************************)
EXTENDS VirtioPci, Sequences, FiniteSets

CONSTANTS
    TxSize, RxSize,  \* sizes the driver gives the queues
    MaxPending,  \* frames the device holds for the guest
    MaxFrames    \* bound: frames accepted between two resets

TX == 0
RX == 1

ASSUME SizeAssumption   == {TxSize, RxSize, MaxPending} \subseteq Nat \ {0} /\ MaxFrames \in Nat
ASSUME QueuesAssumption == NumQueues = 2

(* Chains: well-formed, refused by popDescriptorChain, or (readable) longer *)
(* in total than an array can be.                                          *)
Kind == {"ok", "bad", "huge"}

VARIABLES
    \* the device
    rxQueue,      \* frames waiting for a buffer of the guest
    \* the rings
    avail,        \* chains offered and not yet popped, per queue
    rxUsed,       \* frames in used buffers, not yet seen by the driver
    \* the driver
    kick,         \* queues it has put chains in and not rung for yet
    got,          \* frames it has taken from used buffers
    polling,      \* it looks for used buffers by itself, with interrupts off
    \* history
    accepted,     \* how many frames the device has accepted since the last reset
    hushed,       \* a used buffer not yet seen was used under EVENT_IDX
    threw         \* an exception ended the last drain of the transmit queue early

netVars == <<rxQueue, avail, rxUsed, kick, got, polling, accepted, hushed, threw>>
vars == <<pciVars, netVars>>

TypeOK ==
    /\ PciTypeOK
    /\ {rxQueue, rxUsed, got} \subseteq Seq(1..MaxFrames)
    /\ Len(rxQueue) <= MaxPending
    /\ avail \in [Queue -> Seq(Kind)]
    /\ accepted \in 0..MaxFrames /\ kick \subseteq Queue
    /\ {polling, hushed, threw} \subseteq BOOLEAN

Init ==
    /\ PciInit
    /\ rxQueue = <<>> /\ avail = [q \in Queue |-> <<>>] /\ rxUsed = <<>>
    /\ kick = {} /\ got = <<>> /\ polling = FALSE /\ accepted = 0 /\ hushed = FALSE /\ threw = FALSE

-----------------------------------------------------------------------------
(* The device.                                                             *)

Least(a, b) == IF a < b THEN a ELSE b

(* How many chains at the head of a queue can be popped.                    *)
Poppable(chains, kinds) ==
    Cardinality({n \in DOMAIN chains : \A i \in 1..n : chains[i] \in kinds})

(* What shouldNotify (Virtqueue) may make of used buffers: with EVENT_IDX    *)
(* either answer, otherwise VRING_AVAIL_F_NO_INTERRUPT decides, which the    *)
(* driver sets while it polls.                                             *)
MayNotify == IF EventIdxNegotiated THEN BOOLEAN ELSE {~polling}

\* Mutant: only the drain that empties the backlog interrupts.
PumpRxQuiet(pending) ==
    LET n == IF RX \in enabled
             THEN Least(Len(pending), Poppable(avail[RX], {"ok"})) ELSE 0 IN
    /\ rxQueue' = SubSeq(pending, n + 1, Len(pending))
    /\ rxUsed' = rxUsed \o SubSeq(pending, 1, n)
    /\ avail' = [avail EXCEPT ![RX] = SubSeq(@, n + 1, Len(@))]
    /\ hushed' = (hushed \/ (n # 0 /\ EventIdxNegotiated))
    /\ IF n = 0 \/ n < Len(pending) THEN UNCHANGED isr
       ELSE \E notify \in MayNotify : isr' = (isr \/ notify)

(* pumpRx with these frames pending: frames and buffers are matched until   *)
(* either runs out or a chain is refused, which stays at the head.  Each    *)
(* used buffer interrupts, unless the driver has it suppressed.             *)
PumpRx(pending) ==
    LET n == IF RX \in enabled
             THEN Least(Len(pending), Poppable(avail[RX], {"ok"})) ELSE 0 IN
    /\ rxQueue' = SubSeq(pending, n + 1, Len(pending))
    /\ rxUsed' = rxUsed \o SubSeq(pending, 1, n)
    /\ avail' = [avail EXCEPT ![RX] = SubSeq(@, n + 1, Len(@))]
    /\ hushed' = (hushed \/ (n # 0 /\ EventIdxNegotiated))
    /\ IF n = 0 THEN UNCHANGED isr
       ELSE \E notify \in MayNotify : isr' = (isr \/ notify)

(* receive: refused when the device holds MaxPending frames.                *)
Receive ==
    /\ accepted < MaxFrames
    /\ Len(rxQueue) < MaxPending
    /\ accepted' = accepted + 1
    /\ PumpRx(Append(rxQueue, accepted + 1))
    /\ UNCHANGED <<negotiationVars, selectedQueueIdx, enabled, kick, got, polling, threw>>

\* Mutant: a doorbell of the receive queue is not acted upon.
NotifyRxIgnored == UNCHANGED <<rxQueue, avail, rxUsed, isr, hushed, threw>>

(* onQueueNotify(1).                                                       *)
NotifyRx ==
    /\ PumpRx(rxQueue)
    /\ UNCHANGED threw

(* onQueueNotify(0): chains are transmitted and used, without ever an       *)
(* interrupt, up to one that throws.  A refused chain stays at the head;    *)
(* one too long to be copied has been popped by then, and is gone.          *)
NotifyTx ==
    LET n     == Poppable(avail[TX], {"ok"})
        fails == n < Len(avail[TX])
        gone  == IF fails /\ avail[TX][n + 1] = "huge" THEN n + 1 ELSE n IN
    /\ threw' = (fails /\ gone < Len(avail[TX]))
    /\ avail' = [avail EXCEPT ![TX] = SubSeq(@, gone + 1, Len(@))]
    /\ UNCHANGED <<rxQueue, rxUsed, isr, hushed>>

\* Mutant: the queues are numbered the other way round.
OnQueueNotifySwapped(q) ==
    IF NotifyQueue(q) THEN (IF q = RX THEN NotifyTx ELSE NotifyRx)
    ELSE UNCHANGED <<rxQueue, avail, rxUsed, isr, hushed, threw>>

(* The doorbell.                                                           *)
OnQueueNotify(q) ==
    IF NotifyQueue(q) THEN (IF q = TX THEN NotifyTx ELSE NotifyRx)
    ELSE UNCHANGED <<rxQueue, avail, rxUsed, isr, hushed, threw>>

\* Mutant: frames of the old driver survive the reset.
NetResetKeepsFrames ==
    /\ Reset
    /\ UNCHANGED rxQueue

(* The driver takes its buffers back, used or not.                          *)
NetReset ==
    /\ Reset
    /\ rxQueue' = <<>>

-----------------------------------------------------------------------------
(* The guest.                                                              *)

Configure == Negotiate /\ UNCHANGED netVars

(* A driver that enables a queue again rings for what is in it.             *)
EnableQueue ==
    /\ \/ \E val \in 0..1 : WriteQueueEnable(val)
       \/ \E pfn \in 0..1 : WriteLegacyPfn(pfn)
    /\ kick' = kick \cup {q \in enabled' \ enabled : avail[q] # <<>>}
    /\ UNCHANGED <<rxQueue, avail, rxUsed, got, polling, accepted, hushed, threw>>

Restart ==
    /\ NetReset
    /\ avail' = [q \in Queue |-> <<>>] /\ rxUsed' = <<>>
    /\ kick' = {} /\ got' = <<>> /\ polling' = FALSE
    /\ accepted' = 0 /\ hushed' = FALSE /\ threw' = FALSE

OfferRx(kind) ==
    /\ kind # "huge"
    /\ RX \in enabled /\ Len(avail[RX]) + Len(rxUsed) < RxSize
    /\ avail' = [avail EXCEPT ![RX] = Append(@, kind)]
    /\ kick' = kick \cup {RX}
    /\ UNCHANGED <<pciVars, rxQueue, rxUsed, got, polling, accepted, hushed, threw>>

(* Nobody interrupts for transmitted chains: the driver takes them back     *)
(* when it has something to send.                                          *)
OfferTx(kind) ==
    /\ TX \in enabled /\ Len(avail[TX]) < TxSize
    /\ avail' = [avail EXCEPT ![TX] = Append(@, kind)]
    /\ kick' = kick \cup {TX}
    /\ UNCHANGED <<pciVars, rxQueue, rxUsed, got, polling, accepted, hushed, threw>>

Ring(q) ==
    /\ q \in kick
    /\ kick' = kick \ {q}
    /\ OnQueueNotify(q)
    /\ UNCHANGED <<negotiationVars, selectedQueueIdx, enabled, got, polling, accepted>>

(* The interrupt handler reads the ISR.  It takes every used buffer, or     *)
(* leaves that to a poll and turns the interrupts of the queue off.         *)
Take == got' = got \o rxUsed /\ rxUsed' = <<>> /\ hushed' = FALSE
Interrupt ==
    /\ isr
    /\ ReadIsr
    /\ \/ Take /\ UNCHANGED polling
       \/ polling' = TRUE /\ UNCHANGED <<got, rxUsed, hushed>>
    /\ UNCHANGED <<rxQueue, avail, kick, accepted, threw>>

(* A poll (NAPI) takes used buffers until it finds none.  It then turns     *)
(* interrupts on and looks once more; the window between the two is         *)
(* Virtqueue's.                                                            *)
Poll ==
    /\ polling
    /\ \/ rxUsed # <<>> /\ Take /\ UNCHANGED polling
       \/ rxUsed = <<>> /\ polling' = FALSE /\ UNCHANGED <<got, rxUsed, hushed>>
    /\ UNCHANGED <<pciVars, rxQueue, avail, kick, accepted, threw>>

-----------------------------------------------------------------------------
Next ==
    \/ Configure \/ EnableQueue \/ Restart
    \/ Receive
    \/ \E kind \in Kind : OfferRx(kind) \/ OfferTx(kind)
    \/ \E q \in Queue : Ring(q)
    \/ Interrupt \/ Poll

Spec == Init /\ [][Next]_vars

(* The driver rings for what it put in, handles its interrupts, polls, and  *)
(* keeps buffers in the receive queue.                                     *)
FairSpec ==
    /\ Spec
    /\ \A q \in Queue : WF_vars(Ring(q))
    /\ WF_vars(Interrupt) /\ WF_vars(Poll) /\ WF_vars(OfferRx("ok"))

-----------------------------------------------------------------------------
(* Frames reach the guest in the order they were accepted, each once, and   *)
(* none of an earlier driver's (virtio_net.js:72-100, 128-132).             *)
FramesInOrder == got \o rxUsed \o rxQueue = [n \in 1..accepted |-> n]

(* The guest is told: while a used buffer has not been seen, an interrupt   *)
(* is pending, whether the frame was delivered as it arrived or later, when *)
(* a buffer was offered (virtio_net.js:95), or the driver is still to look  *)
(* by itself: one that polls with VRING_AVAIL_F_NO_INTERRUPT set gets none   *)
(* (virtqueue.js:341-344).  With EVENT_IDX shouldNotify may have suppressed  *)
(* it.                                                                     *)
RxNoticed == rxUsed # <<>> => isr \/ polling \/ hushed

(* Every accepted frame reaches the driver, unless the device is reset, the *)
(* queue disabled, EVENT_IDX in use, or a refused chain is at the head,     *)
(* which nothing but a reset removes (virtio_net.js:99).  (MaxFrames bounds *)
(* how often there is one frame more.)                                     *)
FramesDelivered ==
    Len(got) < accepted
        ~> \/ Len(got) = accepted \/ RX \notin enabled \/ hushed
           \/ avail[RX] # <<>> /\ Head(avail[RX]) = "bad"

(* No chain of the transmit queue waits for a doorbell that nobody will     *)
(* ring, unless the last drain ended in an exception, which is swallowed    *)
(* with the chains behind it still queued (virtio_net.js:108-122).          *)
NoTxForgotten == TX \in enabled /\ avail[TX] # <<>> => TX \in kick \/ threw

=============================================================================
