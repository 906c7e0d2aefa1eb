---------------------------- MODULE IrqController ----------------------------
(***************************************************************************)
(* Shared, level-triggered PCI INTx lines: src/virtio/irq_controller.js    *)
(* and the PCI configuration writes of virtio_pci_device.js that reach it. *)
(*                                                                         *)
(* A device latches ISR bits, mirrors "something is latched" in the PCI    *)
(* Status register, and holds its line HIGH unless PCI Command.INTX_DIS    *)
(* masks it.  The line is shared: the VM callback fires only when the set  *)
(* of holders becomes non-empty or empty.                                  *)
(*                                                                         *)
(* The guest driver is external: it masks and unmasks, reads the ISR from  *)
(* a line handler or by polling, and resets devices.                       *)
(***************************************************************************)
EXTENDS Naturals

CONSTANTS
    Device,     \* the VirtioPciDevice instances on the bus
    Line,       \* the interrupt lines of the VM
    LineOf,     \* device.irqLine
    IsrBit,     \* VIRTIO_ISR_QUEUE, VIRTIO_ISR_CONFIG
    HostLine    \* lines driven directly by injectIrq / CMD_INJECT_IRQ

ASSUME LineOfAssumption   == LineOf \in [Device -> Line]
ASSUME HostLineAssumption == HostLine \subseteq Line

VARIABLES
    deviceIsr,       \* latched ISR bits of each device
    activeIrqLines,  \* the devices that hold each line HIGH
    intxDis,         \* PCI Command bit 10 of each device
    intxStatus,      \* PCI Status bit 3 of each device
    vmLine,          \* what vmIrqCallback last told the VM about each line
    maskBehind,      \* history: devices whose mask was written behind the
                     \*   controller's back, and not looked at by it since
    statusBehind     \* history: the same of the PCI Status bit

history == <<maskBehind, statusBehind>>
vars == <<deviceIsr, activeIrqLines, intxDis, intxStatus, vmLine, history>>

TypeOK ==
    /\ deviceIsr \in [Device -> SUBSET IsrBit]
    /\ activeIrqLines \in [Line -> SUBSET Device]
    /\ intxDis \in [Device -> BOOLEAN]
    /\ intxStatus \in [Device -> BOOLEAN]
    /\ vmLine \in [Line -> BOOLEAN]
    /\ maskBehind \subseteq Device /\ statusBehind \subseteq Device

Init ==
    /\ deviceIsr = [d \in Device |-> {}]
    /\ activeIrqLines = [l \in Line |-> {}]
    /\ intxDis = [d \in Device |-> FALSE]
    /\ intxStatus = [d \in Device |-> FALSE]
    /\ vmLine = [l \in Line |-> FALSE]
    /\ maskBehind = {} /\ statusBehind = {}

-----------------------------------------------------------------------------
(* The two ways a device's hold on its line changes.  vmIrqCallback is     *)
(* called for the first holder and for the last one only.                  *)

Hold(d) ==
    LET l == LineOf[d] IN
    /\ activeIrqLines' = [activeIrqLines EXCEPT ![l] = @ \cup {d}]
    /\ vmLine' = IF activeIrqLines[l] = {}
                 THEN [vmLine EXCEPT ![l] = TRUE] ELSE vmLine

\* Mutant: the line is lowered although another device still holds it.
ReleaseSharedLow(d) ==
    LET l == LineOf[d] IN
    /\ activeIrqLines' = [activeIrqLines EXCEPT ![l] = @ \ {d}]
    /\ vmLine' = IF d \in activeIrqLines[l]
                 THEN [vmLine EXCEPT ![l] = FALSE] ELSE vmLine

Release(d) ==
    LET l == LineOf[d] IN
    /\ activeIrqLines' = [activeIrqLines EXCEPT ![l] = @ \ {d}]
    /\ vmLine' = IF activeIrqLines[l] = {d}
                 THEN [vmLine EXCEPT ![l] = FALSE] ELSE vmLine

(* assertDeviceIrq: latch, mirror in PCI Status, and hold the line unless masked. *)
AssertDeviceIrq(d, bit) ==
    /\ deviceIsr' = [deviceIsr EXCEPT ![d] = @ \cup {bit}]
    /\ intxStatus' = [intxStatus EXCEPT ![d] = TRUE]
    /\ statusBehind' = statusBehind \ {d}
    /\ IF intxDis[d] THEN UNCHANGED <<activeIrqLines, vmLine, maskBehind>>
       ELSE Hold(d) /\ maskBehind' = maskBehind \ {d}
    /\ UNCHANGED intxDis

(* readIsrStatus, from BAR0 0x13 or BAR1 0x100, and clearDevice of a reset. *)
ReadIsrStatus(d) ==
    /\ deviceIsr' = [deviceIsr EXCEPT ![d] = {}]
    /\ intxStatus' = [intxStatus EXCEPT ![d] = FALSE]
    /\ Release(d)
    /\ maskBehind' = maskBehind \ {d} /\ statusBehind' = statusBehind \ {d}
    /\ UNCHANGED intxDis

\* Mutant: unmasking does not raise the line of a pending interrupt.
UnmaskForgetsPending(d, disable) ==
    /\ intxDis' = [intxDis EXCEPT ![d] = disable]
    /\ maskBehind' = maskBehind \ {d}
    /\ IF disable THEN Release(d) ELSE UNCHANGED <<activeIrqLines, vmLine>>
    /\ UNCHANGED <<deviceIsr, intxStatus, statusBehind>>

\* Mutant: unmasking raises the line without looking at the latch.
UnmaskAlwaysHolds(d, disable) ==
    /\ intxDis' = [intxDis EXCEPT ![d] = disable]
    /\ maskBehind' = maskBehind \ {d}
    /\ IF disable THEN Release(d) ELSE Hold(d)
    /\ UNCHANGED <<deviceIsr, intxStatus, statusBehind>>

(* A 2- or 4-byte write of PCI Command: store it and run setCommandRegister. *)
SetCommandRegister(d, disable) ==
    /\ intxDis' = [intxDis EXCEPT ![d] = disable]
    /\ maskBehind' = maskBehind \ {d}
    /\ \/ /\ disable
          /\ Release(d)
       \/ /\ ~disable /\ deviceIsr[d] # {}
          /\ Hold(d)
       \/ /\ ~disable /\ deviceIsr[d] = {}
          /\ UNCHANGED <<activeIrqLines, vmLine>>
    /\ UNCHANGED <<deviceIsr, intxStatus, statusBehind>>

(* A 1-byte write of the upper Command byte (offset 5): the generic store  *)
(* at the end of writePciConfig, which does not tell the controller.       *)
WriteCommandByte(d, disable) ==
    /\ intxDis' = [intxDis EXCEPT ![d] = disable]
    /\ maskBehind' = maskBehind \cup {d}
    /\ UNCHANGED <<deviceIsr, activeIrqLines, intxStatus, vmLine, statusBehind>>

(* A write of PCI Status (offset 6): the same generic store; the bit is not *)
(* read-only here.                                                          *)
WriteStatus(d, bit) ==
    /\ intxStatus' = [intxStatus EXCEPT ![d] = bit]
    /\ statusBehind' = statusBehind \cup {d}
    /\ UNCHANGED <<deviceIsr, activeIrqLines, intxDis, vmLine, maskBehind>>

(* assertIrq: the host drives a line without going through the holders.    *)
AssertIrq(l, level) ==
    /\ vmLine' = [vmLine EXCEPT ![l] = level]
    /\ UNCHANGED <<deviceIsr, activeIrqLines, intxDis, intxStatus, history>>

-----------------------------------------------------------------------------
DeviceNext ==
    \/ \E d \in Device, b \in IsrBit : AssertDeviceIrq(d, b)
    \/ \E d \in Device : ReadIsrStatus(d)
    \/ \E d \in Device, v \in BOOLEAN : SetCommandRegister(d, v)
    \/ \E d \in Device, v \in BOOLEAN : WriteCommandByte(d, v)
    \/ \E d \in Device, v \in BOOLEAN : WriteStatus(d, v)

Next == DeviceNext \/ \E l \in HostLine, v \in BOOLEAN : AssertIrq(l, v)
Spec == Init /\ [][Next]_vars

-----------------------------------------------------------------------------
(* The level the VM sees on a device line is HIGH exactly while some device *)
(* holds the line: the first-holder and last-holder callbacks never get out *)
(* of step with the set (irq_controller.js:74-85, 106-113, 131-147).        *)
LineLevel ==
    \A l \in Line \ HostLine : vmLine[l] <=> activeIrqLines[l] # {}

(* A device holds its own line exactly while it has an unacknowledged       *)
(* interrupt that is not masked.  Configuration writes the controller does  *)
(* not hear of break this for their device only, and only until the next    *)
(* 2-byte Command write, ISR read or unmasked interrupt puts it right.      *)
HoldersExact ==
    \A d \in Device \ maskBehind :
        d \in activeIrqLines[LineOf[d]] <=> deviceIsr[d] # {} /\ ~intxDis[d]

(* Whatever the guest writes, no device holds a line with nothing latched   *)
(* or another device's line, so one ISR read per device always lowers a     *)
(* line: no interrupt storm can outlive its acknowledgements.               *)
HoldersPending ==
    \A l \in Line : \A d \in activeIrqLines[l] :
        LineOf[d] = l /\ deviceIsr[d] # {}

(* PCI Status.INTX_STATUS tells a polling guest the truth about the latch,  *)
(* masked or not, until the guest writes PCI Status itself, and again from  *)
(* the next interrupt or ISR read on (irq_controller.js:64-70, 99-103).     *)
StatusMirrorsIsr ==
    \A d \in Device \ statusBehind : intxStatus[d] <=> deviceIsr[d] # {}

=============================================================================
