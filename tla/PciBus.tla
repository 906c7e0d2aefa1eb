------------------------------- MODULE PciBus -------------------------------
(***************************************************************************)
(* The PCI host bridge, src/virtio/pci_bus.js, with the base address        *)
(* registers of the devices behind it (virtio_pci_device.js): configuration *)
(* accesses through the address latch, and the tables that say which device *)
(* answers an I/O or memory access.                                        *)
(*                                                                         *)
(* An address, and the content of a register, is a number of two halves     *)
(* (16 bits in the code, Half values here); a register may be written whole *)
(* or by halves.  A window is Size addresses long and may start anywhere,   *)
(* as the code rounds an address to 4 or 16 and not to the size.  The type  *)
(* bits of a register and the decoding bits of Command, which the code does *)
(* not consult, are left out.  The guest is external.                      *)
(***************************************************************************)
EXTENDS Naturals, Sequences, FiniteSets

CONSTANTS
    NumSlots,   \* slots of the bus: 32
    Half,       \* values of half a register: 2^16
    Size,       \* addresses of a window: 64 for BAR0, 4096 for BAR1
    MaxTorn     \* bound: registers written by halves at a time

ASSUME SlotsAssumption == NumSlots \in Nat \ {0} /\ MaxTorn \in Nat
ASSUME SizeAssumption  == Half \in Nat \ {0, 1} /\ Size \in Nat \ {0}

Slot    == 0..(NumSlots - 1)
Bar     == {0, 1}                         \* the others have size 0 in every device
Type(b) == IF b = 0 THEN "io" ELSE "mmio"
Space   == {"io", "mmio"}
Word    == 0..(Half * Half - 1)
Address == 0..(Half * Half + Size - 1)
None    == NumSlots

VARIABLES
    slots,          \* slots with a device
    configAddress,  \* the latch at port 0xCF8: enable bit, slot, register
    pciSpace,       \* the registers as stored in configuration space
    base, sizing,   \* the device's own view of its BARs
    bars,           \* ioBars and mmioBars
    torn            \* history: registers written by halves since they were last
                    \*   written whole
busVars == <<slots, configAddress, pciSpace, base, sizing, bars, torn>>

BusTypeOK ==
    /\ slots \subseteq Slot
    /\ configAddress \in [enable : BOOLEAN, slot : Slot, bar : Bar]
    /\ {pciSpace, base} \subseteq [Slot \X Bar -> Word] /\ sizing \subseteq Slot \X Bar
    /\ bars \in [Space -> Seq([slot : Slot, base : Word])]
    /\ torn \subseteq Slot \X Bar

BusInit ==
    /\ slots = {}
    /\ configAddress = [enable |-> FALSE, slot |-> 0, bar |-> 0]
    /\ pciSpace = [r \in Slot \X Bar |-> 0] /\ base = pciSpace /\ sizing = {}
    /\ bars = [space \in Space |-> <<>>]
    /\ torn = {}

-----------------------------------------------------------------------------
(* The routing tables.                                                     *)

(* getActiveBars of the devices, in the order of their slots.               *)
ActiveBars(devices, bases, space) ==
    LET bar == CHOOSE b \in Bar : Type(b) = space
        below[n \in 0..NumSlots] ==
            IF n = 0 THEN <<>>
            ELSE IF n - 1 \in devices /\ bases[<<n - 1, bar>>] # 0
                 THEN Append(below[n - 1], [slot |-> n - 1, base |-> bases[<<n - 1, bar>>]])
                 ELSE below[n - 1]
    IN below[NumSlots]

\* Mutant: a device's entry is replaced by one at the end of its table.
RebuildBarMappingsAppending ==
    bars' = [space \in Space |->
                LET same(m)  == \E i \in DOMAIN bars[space] : bars[space][i] = m
                    fresh(m) == ~same(m)
                    new == ActiveBars(slots', base', space)
                    kept(m) == \E i \in DOMAIN new : new[i] = m IN
                SelectSeq(bars[space], kept) \o SelectSeq(new, fresh)]

RebuildBarMappings ==
    bars' = [space \in Space |-> ActiveBars(slots', base', space)]

(* readIo, writeIo, readMmio, writeMmio: the first window that holds the    *)
(* address answers; nobody does elsewhere.                                 *)
Route(space, address) ==
    LET window(m) == m.base..(m.base + Size - 1)
        hits      == {i \in DOMAIN bars[space] : address \in window(bars[space][i])} IN
    IF hits = {} THEN None
    ELSE bars[space][CHOOSE i \in hits : \A j \in hits : i <= j].slot

(* registerDevice: an occupied slot is refused.                            *)
RegisterDevice(slot) ==
    /\ slot \notin slots
    /\ slots' = slots \cup {slot}
    /\ UNCHANGED <<configAddress, pciSpace, base, sizing, torn>>
    /\ RebuildBarMappings

-----------------------------------------------------------------------------
(* Configuration accesses.                                                 *)

WriteConfigAddress(enable, slot, bar) ==
    /\ configAddress' = [enable |-> enable, slot |-> slot, bar |-> bar]
    /\ UNCHANGED <<slots, pciSpace, base, sizing, bars, torn>>

Selected == <<configAddress.slot, configAddress.bar>>

(* An access to the data port reaches a device.                            *)
Reaches == configAddress.enable /\ configAddress.slot \in slots

(* All ones in a 4-byte write: reads return the size mask instead of the     *)
(* register from now on, and the device stays where it is.                 *)
Probe ==
    /\ Reaches
    /\ sizing' = sizing \cup {Selected}
    /\ UNCHANGED <<slots, configAddress, pciSpace, base, bars, torn>>

(* Any other 4-byte write moves the window.                                *)
Assign(word) ==
    /\ Reaches
    /\ sizing' = sizing \ {Selected} /\ torn' = torn \ {Selected}
    /\ base' = [base EXCEPT ![Selected] = word]
    /\ pciSpace' = [pciSpace EXCEPT ![Selected] = word]
    /\ UNCHANGED <<slots, configAddress>>
    /\ RebuildBarMappings

(* A 2-byte write goes to configuration space only.                        *)
AssignHalf(high, value) ==
    LET word == pciSpace[Selected] IN
    /\ Reaches /\ Cardinality(torn \cup {Selected}) <= MaxTorn
    /\ pciSpace' = [pciSpace EXCEPT ![Selected] =
                       IF high THEN (value * Half) + (word % Half)
                       ELSE ((word \div Half) * Half) + value]
    /\ torn' = torn \cup {Selected}
    /\ UNCHANGED <<slots, configAddress, base, sizing, bars>>

WriteConfigData ==
    \/ Probe
    \/ \E word \in Word : Assign(word)
    \/ \E high \in BOOLEAN, value \in 0..(Half - 1) : AssignHalf(high, value)

BusNext ==
    \/ \E slot \in Slot : RegisterDevice(slot)
    \/ \E enable \in BOOLEAN, slot \in Slot, bar \in Bar : WriteConfigAddress(enable, slot, bar)
    \/ WriteConfigData

BusSpec == BusInit /\ [][BusNext]_busVars

-----------------------------------------------------------------------------
(* A 4-byte read of a register: the size mask while it is being sized.      *)
ReadPciConfig(r) == IF r \in sizing THEN (Half * Half) - Size ELSE pciSpace[r]

(* The registers that, read back, say that the address is theirs.           *)
Shown(space, address) ==
    {r \in slots \X Bar :
        /\ Type(r[2]) = space /\ ReadPciConfig(r) # 0
        /\ address \in ReadPciConfig(r)..(ReadPciConfig(r) + Size - 1)}

(* Registers that need not tell where their device is: one being sized reads *)
(* back as its mask, one written by halves as what was written, and in both  *)
(* cases the device stays where it was (virtio_pci_device.js:211-221, 265-267). *)
Misleading == torn \cup sizing

(* An address is answered only by a device whose register says so, or is     *)
(* misleading, and by none behind the first that says so truly, in whatever  *)
(* order devices came, were moved over each other and were sized             *)
(* (pci_bus.js:72-86, virtio_pci_device.js:247-260).  Where no register is    *)
(* misleading it is answered by exactly the first that shows it.            *)
AnswersWhereShown ==
    \A space \in Space, address \in Address :
        LET owner == Route(space, address) IN
        /\ owner # None =>
              \E r \in slots \X Bar : /\ r[1] = owner /\ Type(r[2]) = space
                                     /\ r \in Shown(space, address) \cup Misleading
        /\ \A r \in Shown(space, address) \ Misleading : owner <= r[1]

=============================================================================
