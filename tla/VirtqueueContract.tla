-------------------------- MODULE VirtqueueContract --------------------------
(***************************************************************************)
(* What a split virtqueue promises, without rings and indices: every buffer *)
(* is in one place, chains reach the device in the order they were offered, *)
(* each consumed chain comes back once, and completions are seen in the     *)
(* order they were made ("exactly one used entry written per consumed      *)
(* chain", PROJECT.md:68).                                                  *)
(***************************************************************************)
EXTENDS Sequences

CONSTANT Chain   \* descriptor chain heads

VARIABLES
    free,     \* owned by the driver
    avail,    \* offered, in order
    device,   \* consumed by the device, not yet completed
    used      \* completed, in order, not yet seen by the driver

contractVars == <<free, avail, device, used>>

Init == free = Chain /\ avail = <<>> /\ device = {} /\ used = <<>>

Offer(h) ==
    /\ h \in free
    /\ free' = free \ {h} /\ avail' = Append(avail, h)
    /\ UNCHANGED <<device, used>>

Consume ==
    /\ avail # <<>>
    /\ device' = device \cup {Head(avail)} /\ avail' = Tail(avail)
    /\ UNCHANGED <<free, used>>

Complete(h) ==
    /\ h \in device
    /\ device' = device \ {h} /\ used' = Append(used, h)
    /\ UNCHANGED <<free, avail>>

Reap ==
    /\ used # <<>>
    /\ free' = free \cup {Head(used)} /\ used' = Tail(used)
    /\ UNCHANGED <<avail, device>>

(* A device reset with nothing consumed gives every buffer back.           *)
Reset ==
    /\ device = {}
    /\ free' = Chain /\ avail' = <<>> /\ used' = <<>>
    /\ UNCHANGED device

Next == Consume \/ Reap \/ Reset \/ \E h \in Chain : Offer(h) \/ Complete(h)
Spec == Init /\ [][Next]_contractVars
=============================================================================
