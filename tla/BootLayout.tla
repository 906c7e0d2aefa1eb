----------------------------- MODULE BootLayout -----------------------------
(***************************************************************************)
(* Where direct boot puts things in guest memory: setupLinuxBoot of         *)
(* src/boot/boot_manager.js, with the header it parses and the memory map   *)
(* it hands to the kernel, on the checked accesses of src/vm/guest_mem.js.  *)
(*                                                                         *)
(* The functions are pure but for the bytes they write; a region is what a  *)
(* step writes, and what matters is where the regions lie.  An image is     *)
(* described by the sizes and header fields that decide that.              *)
(***************************************************************************)
EXTENDS Integers

Page            == 4096
HalfWord        == 2147483648   \* 2^31
Unsigned32      == 0..(HalfWord + HalfWord - 1)
BootParamsAddr  == 589824       \* 0x90000
HeaderOffset    == 497          \* 0x1F1, of the header in image and boot_params
CmdlineAddr     == 131072       \* 0x20000
Code32StartAddr == 1048576      \* 0x100000
Conventional    == 651264       \* 0x9F000, where conventional memory ends
MinRam          == 4194304      \* 0x400000

(* A region is the half-open interval from its start to its end.            *)
Region(start, length) == [start |-> start, end |-> start + length]
Disjoint(r, s) == r.end <= s.start \/ s.end <= r.start
Within(r, s)   == s.start <= r.start /\ r.end <= s.end

(* What the caller passes, and the fields of the setup header.  A command   *)
(* line has its terminator.                                                *)
Boot == [ramSize     : Nat,
         kernelSize  : Nat,
         magic       : BOOLEAN,
         version     : Nat,
         setupSects  : 0..255,
         code32Start : Unsigned32,
         initrdMax   : Unsigned32,
         hasInitrd   : BOOLEAN,
         initrdSize  : Nat,
         cmdlineSize : Nat \ {0}]

-----------------------------------------------------------------------------
(* parseSetupHeader.                                                       *)

HeaderAccepted(b) == b.kernelSize >= 592 /\ b.magic /\ b.version >= 514

SetupSize(b) == ((IF b.setupSects = 0 THEN 4 ELSE b.setupSects) + 1) * 512

Code32Start(b) == IF b.code32Start = 0 THEN Code32StartAddr ELSE b.code32Start

(* Before version 2.03 the header has no such field.                        *)
InitrdAddrMax(b) == IF b.version >= 515 THEN b.initrdMax ELSE 939524095

-----------------------------------------------------------------------------
(* setupLinuxBoot.                                                         *)

Least(x, y) == IF x < y THEN x ELSE y
Most(x, y)  == IF x > y THEN x ELSE y

Ram(b) == Region(0, b.ramSize)

(* validateRange: what an access must lie within.                           *)
InRange(b, r) == 0 <= r.start /\ r.end <= b.ramSize

(* The bytes of the image before the end of its setup part, from 0x1F1 on,  *)
(* and those behind it, if there are any.                                  *)
SetupHeader(b) ==
    Region(BootParamsAddr + HeaderOffset, Least(SetupSize(b), b.kernelSize) - HeaderOffset)
Kernel(b) == Region(Code32Start(b), Most(0, b.kernelSize - SetupSize(b)))

BootParams == Region(BootParamsAddr, Page)
Cmdline(b) == Region(CmdlineAddr, b.cmdlineSize)

UpperLimit(b) == Least(InitrdAddrMax(b), b.ramSize)

(* x & ~0xFFF, a signed 32-bit integer.                                     *)
PageDown(x) == LET down == x - (x % Page) IN
               IF x < HalfWord THEN down ELSE down - HalfWord - HalfWord

InitrdStart(b) == PageDown(UpperLimit(b) - b.initrdSize)
Initrd(b) == Region(InitrdStart(b), b.initrdSize)

(* No step throws.                                                         *)
Accepted(b) ==
    /\ HeaderAccepted(b)
    /\ b.ramSize >= MinRam
    /\ InRange(b, SetupHeader(b)) /\ InRange(b, Cmdline(b)) /\ InRange(b, Kernel(b))
    /\ b.hasInitrd => /\ b.initrdSize <= UpperLimit(b)
                       /\ InitrdStart(b) >= Kernel(b).end
                       /\ InRange(b, Initrd(b))

(* buildE820Map: usable, reserved, usable.                                  *)
E820Map(b) == << [region |-> Region(0, Conventional), usable |-> TRUE],
                 [region |-> Region(Conventional, Code32StartAddr - Conventional),
                  usable |-> FALSE],
                 [region |-> Region(Code32StartAddr, b.ramSize - Code32StartAddr),
                  usable |-> TRUE] >>

(* A setup_sects byte allows no more setup part than this: where a kernel   *)
(* must not load, which the code does not check.                            *)
SetupLimit == BootParamsAddr + 256 * 512

=============================================================================
