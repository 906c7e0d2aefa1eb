----------------------------- MODULE IrqDelivery -----------------------------
(***************************************************************************)
(* IrqController inside the worker (src/vm/vm_worker.js): every call of its *)
(* callback is latched as a level change in pendingIrqs, and a quantum       *)
(* delivers all latched changes before the next one is scheduled: each goes  *)
(* to the log of deliveries and to the backend's deliverIrq, if there is one. *)
(* Whether a backend takes it is the backend's affair.  Guest and devices    *)
(* act between two quanta as well as inside one.                            *)
(***************************************************************************)
EXTENDS IrqController, Naturals, Sequences

CONSTANT MaxLatch    \* bound of pendingIrqs in the code, 1024

ASSUME LatchAssumption == MaxLatch \in Nat \ {0}

VARIABLES
    pendingIrqs,     \* latched level changes, as <<line, level>>
    delivered,       \* the level of each line last delivered (deliveredIrqs)
    cpuLevel,        \* the level of each line a backend last took
    lost             \* history: lines whose last change a full latch dropped

deliveryVars == <<pendingIrqs, delivered, cpuLevel, lost>>

DeliveryTypeOK ==
    /\ TypeOK
    /\ pendingIrqs \in Seq(Line \X BOOLEAN) /\ Len(pendingIrqs) <= MaxLatch
    /\ delivered \in [Line -> BOOLEAN] /\ cpuLevel \in [Line -> BOOLEAN]
    /\ lost \subseteq Line

DeliveryInit ==
    /\ Init
    /\ pendingIrqs = <<>> /\ lost = {}
    /\ delivered = [l \in Line |-> FALSE] /\ cpuLevel = [l \in Line |-> FALSE]

-----------------------------------------------------------------------------
ChangesOf(l, q) == {i \in DOMAIN q : q[i][1] = l}

\* Mutant: a full latch refuses the newest change.
LatchRefuses(l) ==
    /\ pendingIrqs' = IF Len(pendingIrqs) = MaxLatch THEN pendingIrqs
                      ELSE Append(pendingIrqs, <<l, vmLine'[l]>>)
    /\ lost' = lost \ {l}

(* The callback of cmdInit: the oldest change goes when there are too many. *)
Latch(l) ==
    LET q == Append(pendingIrqs, <<l, vmLine'[l]>>)
        full == Len(q) > MaxLatch
        dropped == IF full /\ ChangesOf(q[1][1], Tail(q)) = {} THEN {q[1][1]} ELSE {}
    IN /\ pendingIrqs' = IF full THEN Tail(q) ELSE q
       /\ lost' = (lost \ {l}) \cup dropped

(* The controller calls back for a line whose level it changed.             *)
Callback ==
    /\ IF vmLine' = vmLine THEN UNCHANGED <<pendingIrqs, lost>>
       ELSE \E l \in Line : vmLine'[l] # vmLine[l] /\ Latch(l)
    /\ UNCHANGED <<delivered, cpuLevel>>

DeviceStep == DeviceNext /\ Callback

(* CMD_INJECT_IRQ: assertIrq calls back each time, change or not.           *)
CmdInjectIrq(l, level) ==
    /\ AssertIrq(l, level)
    /\ Latch(l)
    /\ UNCHANGED <<delivered, cpuLevel>>

(* The levels after the changes q, when those of level were before.         *)
After(level, q) ==
    [l \in Line |->
        IF ChangesOf(l, q) = {} THEN level[l]
        ELSE \E i \in ChangesOf(l, q) : q[i][2] /\ \A j \in ChangesOf(l, q) : j <= i]

(* A backend takes some of the changes: none where there is no backend (the *)
(* stub) or it has no path for them (v86 owns its interrupt controller), and *)
(* not those on which deliverIrq throws.  The worker goes on all the same.  *)
Taken(q) ==
    \E taken \in SUBSET DOMAIN q :
        cpuLevel' = After(cpuLevel, [i \in taken |-> q[i]])

\* Mutant: a quantum delivers the oldest change and clears the latch.
RunQuantumOne ==
    /\ pendingIrqs # <<>>
    /\ pendingIrqs' = <<>>
    /\ delivered' = After(delivered, <<Head(pendingIrqs)>>)
    /\ Taken(pendingIrqs)
    /\ UNCHANGED <<vars, lost>>

(* runQuantum: consumePendingIrqs and the delivery of each.                 *)
RunQuantum ==
    /\ pendingIrqs # <<>>
    /\ pendingIrqs' = <<>>
    /\ delivered' = After(delivered, pendingIrqs)
    /\ Taken(pendingIrqs)
    /\ UNCHANGED <<vars, lost>>

(* External: the guest's handler of a shared line.  While the CPU sees the  *)
(* line HIGH the kernel calls the handler of every device on it, and each   *)
(* reads its ISR: a way DeviceStep happens, named for its fairness.         *)
LineHandler(d) == cpuLevel[LineOf[d]] /\ ReadIsrStatus(d) /\ Callback

-----------------------------------------------------------------------------
DeliveryNext ==
    \/ DeviceStep
    \/ \E l \in HostLine, v \in BOOLEAN : CmdInjectIrq(l, v)
    \/ RunQuantum

DeliverySpec == DeliveryInit /\ [][DeliveryNext]_<<vars, deliveryVars>>

(* While the VM runs, quanta follow one another and execute the handlers.   *)
FairDelivery ==
    /\ DeliverySpec
    /\ WF_<<vars, deliveryVars>>(RunQuantum)
    /\ \A d \in Device : WF_<<vars, deliveryVars>>(LineHandler(d))

-----------------------------------------------------------------------------
(* "The CPU loop drains each quantum (fail-closed: never silently dropped)" *)
(* (vm_worker.js:92) as far as the bound of the latch lets it be: once the  *)
(* latch is drained every line was delivered at the controller's level,     *)
(* except a line whose last change an overflow dropped, and that one is     *)
(* right again from its next change on.                                     *)
NeverDropped ==
    \A l \in Line \ lost : After(delivered, pendingIrqs)[l] = vmLine[l]

(* A quantum comes by which the level delivered of a line is the controller's, *)
(* unless an overflow intervenes.                                           *)
LevelsDelivered ==
    \A l \in Line : l \notin lost /\ delivered[l] # vmLine[l]
                        ~> l \in lost \/ delivered[l] = vmLine[l]

(* What was delivered of a line did not reach a CPU: deliverIrq threw, or    *)
(* there is no backend or none that takes interrupts, which is how it is     *)
(* with the stub and with v86 (vm_worker.js:525-527, v86_backend.js:148-155). *)
Untaken(l) == delivered[l] # cpuLevel[l]

(* An unmasked interrupt is eventually acknowledged or masked, from the     *)
(* latch of the device through the shared line and the worker's latch to    *)
(* the handler, although other devices on the line are acknowledged before  *)
(* it: read-to-clear of one never takes the line of another down.  The       *)
(* exceptions are a mask written behind the controller's back, an overflow  *)
(* and a backend that did not take the line's level.                        *)
InterruptServed ==
    \A d \in Device :
        LET l == LineOf[d]
            settled == deviceIsr[d] = {} \/ intxDis[d] \/ d \in maskBehind
                       \/ l \in lost \/ Untaken(l)
        IN  ~settled ~> settled

=============================================================================
