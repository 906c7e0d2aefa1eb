# A TLA+ development of the Android-WebGPU virtual machine

The repository runs a guest Linux in the browser: a VM runtime on the main
thread, a worker that executes CPU quanta and carries the virtio devices, and
device back ends over browser APIs.  This directory models the parts of it whose
correctness depends on order, concurrency and failure, checks the models with
TLC, and proves with TLAPS every invariant and action property that TLC checks, and
every refinement, for every value of the constants.  Paths below are relative to
`src/` of the repository.

## 1. The system

### Inventory

| Component (code) | State | Operations | Talks to |
|---|---|---|---|
| Interrupt controller (`src/virtio/irq_controller.js`) | ISR latch per device, holders per line | assertDeviceIrq, readIsrStatus, setCommandRegister, assertIrq, clearDevice | devices (calls), PCI config space, VM callback |
| PCI transport (`src/virtio/virtio_pci_device.js`) | config space, BARs, features, queue registers, device status | config and BAR accesses, notifyQueue, reset | bus, queues, controller, device hooks |
| PCI bus (`src/virtio/pci_bus.js`) | devices by slot, address latch, routing tables | registerDevice, configuration accesses, I/O and MMIO dispatch | devices, CPU back end |
| Interrupt latch (`src/vm/vm_worker.js`) | `pendingIrqs`, at most 1024 | callback, CMD_INJECT_IRQ, drain per quantum | controller, CPU back end |
| VM lifecycle (`src/vm/vm_runtime.js`, `vm_worker.js`) | two state machines, quantum timer, attach acks | create, loadBoot, start, pause, resume, reset, destroy, attachV86, attachDevice, and the worker's commands | two FIFO message channels, timers |
| Watchdog (`src/vm/vm_runtime.js`) | ping and ack numbers, last pong, timer | start, stop, pause, resume, tick, handlePong | worker by CMD_PING and EVT_PONG |
| Virtqueue (`src/virtio/virtqueue.js`) | ring indices, last notified index | popDescriptorChain, pushUsed, shouldNotify, reset | guest memory shared with the driver |
| Block device (`src/io/block/virtio_blk.js`) | `isProcessing`, the request awaited | processQueue, handleRequestChain, completeChain | virtqueue, DiskActor (promises) |
| DiskActor (`src/storage/disk_actor.js`) | backend, transaction queue, checksums | init, readSectors, writeSectors, flush, close | OPFS, IndexedDB, memory |
| Input device (`src/io/input/virtio_input.js`) | pressed keys, queued events | handleDomKey, handleFocusLoss, enqueueHostEvent, pumpQueue, reset | DOM, CMD_INPUT_EVENT, event queue |
| GPU transport (`src/gpu_transport/`) | resources, scanouts, fences | control-queue commands, flush, reset | virtqueue, compositor |
| Network device (`src/io/net/virtio_net.js`) | frames waiting for a buffer, link, telemetry | receive, onQueueNotify, reset | transport, virtqueue, host proxy |
| Console, rng, rtc, sound (`src/io/`) | bounded queues and logs | queue notify, host send and receive | virtqueue, host |
| Boot loader (`src/boot/boot_manager.js`, `src/vm/guest_mem.js`) | none: regions of guest memory it writes | setupLinuxBoot, parseSetupHeader, buildE820Map | guest memory |
| Images, adapters (`src/storage/image_store.js`, `src/vm/v86_*`) | cached images | straight-line | guest memory, network |
| Rust crates (`crates/`) | compositor layers, bridge resources, overlays | protocol decoding, drawing | wgpu |

Everything on one side of a message channel runs in one thread: an operation is
atomic up to its first `await`, timer or message, and those are the points where
others come in between.  The guest runs between and inside quanta and shares
memory and registers with the devices.

### What is hard, and what makes each part correct

* **Interrupts.** A line is shared and level-triggered; latching, masking and
  acknowledging come in any order, and some configuration writes bypass the
  controller.  The line must be HIGH exactly while held, a hold must have an
  unmasked cause, and an interrupt must reach the guest's handler through the
  bounded latch.
* **Lifecycle.** The host changes its state when it *sends* a command and again
  when an event *arrives*; commands are not acknowledged, `create()` goes on after
  an await, an attach races its timeout, and an in-process worker's events survive
  `terminate()`.  There must be one chain of quanta, a running VM must be watched,
  a paused one must not execute, and both sides must agree when messages settle.
* **Watchdog.** Pongs may be late and overtaken by newer pings; a live worker must
  not be killed and a hung one must be found in time.
* **Virtqueue.** The parser reads tables the guest wrote: it must end, refuse what
  is malformed and accept the rest.  The rings wrap at two different sizes, and
  suppressing an interrupt races the driver's decision to sleep.
* **Block device.** One asynchronous loop serves notifies that arrive while it
  waits, a device reset does not end the wait, and not every exception is caught.
* **Storage.** Calls overlap, `init()` is lazy and falls back, transactions fail,
  `close()` bypasses the queue, and the page may go away.
* **Input.** Bounded queues drop events, and a dropped key-up is a stuck key.
* **Transport.** Feature words come through two BARs and a selector that survives a
  reset; a feature set is accepted once and used ever after.  Windows are sized, moved
  and laid over each other, and the routing tables must follow.
* **Network.** Frames and buffers meet in either order, a reset comes between, and an
  exception in the middle of a drain is swallowed.
* **Boot.** Regions are placed by sizes and header fields that come from an image, with
  32-bit arithmetic, and are hardly compared with each other.
* **GPU.** Commands fail halfway, exceptions are swallowed with a chain in hand, fences
  must complete only for work that was done and in order, scanouts outlive or precede
  their resources, and a device reset must forget all of it.

`PROJECT.json` lists each hazard at its line with the properties that watch it.

## 2. Modules

Bookkeeping the code does not have is marked *history* where it is declared: it
records what happened and never enables or disables anything.  It lets an
invariant be stated for everything the code can do, with its exceptions named,
rather than for a restricted environment.

| Module | Models | Composes |
|---|---|---|
| `IrqController` | irq_controller.js and the PCI configuration writes that reach it or bypass it | |
| `IrqDelivery` | the worker's latch, host injection, delivery per quantum, the guest's shared handlers | extends `IrqController` |
| `VmLifecycle` | VmRuntime and VmWorkerCore with the channels between them | |
| `VmWatchdog` | VmWatchdog over time | |
| `DescriptorChain` | popDescriptorChain and parseIndirectTable | |
| `VirtqueueContract` | abstract: what a virtqueue promises | |
| `Virtqueue` | rings, pushUsed, shouldNotify, reset, with a driver | implements `VirtqueueContract` |
| `VirtioBlk` | the block device's loop between ring and disk | implements `VirtqueueContract` |
| `DiskActor` | the storage actor over stores that survive a reload | |
| `VirtioPci` | the register interface of a virtio device: negotiation, status, queues, doorbell, ISR | |
| `VirtioNet` | the network device, the host's proxy and its driver | extends `VirtioPci` |
| `PciBus` | the bus, its routing tables and the base address registers | |
| `BootLayout` | direct boot as pure operators over image sizes | |
| `VirtioInput` | the keyboard from the DOM to the guest | |
| `VirtioGpu` | the GPU's control queue and resource registry | |
| `MCIrqDelivery`, `MCVmLifecycle` | instances for TLC | |
| `PciProofs` | theorems of controller, delivery and bus | extends `IrqDelivery`, `PciBus` |
| `VmLifecycleProofs` | theorems of the lifecycle | extends `MCVmLifecycle` |
| `HostProofs` | theorems of watchdog and keyboard | extends `VmWatchdog`, `VirtioInput` |
| `GuestMemProofs` | theorems of descriptor parser and boot | extends `DescriptorChain`, `BootLayout` |
| `VirtqueueProofs` | theorems of the rings | extends `Virtqueue` |
| `StorageProofs` | theorems of storage actor and block device | extends `DiskActor`, `VirtioBlk` |
| `VirtioGpuProofs`, `VirtioNetProofs` | theorems | extend the module of their name |

A module of theorems extends up to two components that have nothing to do with each
other; so that their names differ, those of `VirtioBlk`, `VirtioInput` and `PciBus`
carry a prefix (`BlkSpec`, `InputSpec`, `BusSpec`).

How state and actions correspond to the code:

* **IrqController.** `deviceIsr`, `activeIrqLines` are the two maps of the class;
  `intxDis`, `intxStatus` are PCI Command bit 10 and Status bit 3; `vmLine` is what
  the callback last said.  A device reset (`clearDevice`) is `ReadIsrStatus`.  A
  1-byte write of the upper Command byte and a write of Status take the generic
  store at the end of `writePciConfig`: `WriteCommandByte`, `WriteStatus`.
  `maskBehind` and `statusBehind` remember devices written that way until the
  controller next touches them.
* **IrqDelivery.** `Latch` is the callback of `cmdInit` with its `shift()`,
  `RunQuantum` drains the latch: `delivered` is the level last recorded for a line in
  `deliveredIrqs`, `cpuLevel` the one a backend last took.  The two differ at will
  (`Taken`): the stub has no `deliverIrq`, that of v86 has no path for host lines, and
  what it throws is swallowed.  `lost` remembers lines whose last change an overflow
  dropped.
* **VmLifecycle.** One action per call on VmRuntime, per event and per command of
  the worker, and one for each timer.  `cmd` and `evt` are the channels;
  `timers` counts pending quantum timeouts; `workerRef` tells a real Worker from
  the in-process core, which differ in what `terminate()` takes with it: a real worker
  goes with its backend, and `v86Attached` of the host stays.
* **VmWatchdog.** Time passes in units and stops for a due timer or an owed pong.
  `isActive` and `timerId` are separate, as in the code: `Resume` sets the one without
  looking at the other.
* **DescriptorChain.** One step per loop iteration.  A descriptor is a record of
  kind, direction and next index; out-of-range addresses and malformed lengths are
  kinds, since validateRange either accepts or throws.  `Chains` says what a
  chain is without walking: a path through the table, or one to an
  indirect descriptor followed by a path through its table.  It is `WellFormed` when
  none of its read-only buffers comes after a writable one.  `Picks` says that a list
  holds the buffers of one direction, each at its rank among them.
* **Virtqueue.** Indices are modulo `Mod`, slots modulo `QSize`.  The driver
  disables callbacks, reaps, enables them and looks once more before it sleeps.
  `eventIdx` is VIRTIO_F_RING_EVENT_IDX, chosen at the start: `AvailEvent`, the word
  `shouldNotify` then reads, is 0 for ever, since no code writes it.
* **VirtioBlk.** `current` is the request whose handler is on the stack or awaits
  the disk.  `cut` remembers that the last reset cut such a request off, `lost` the
  chains whose handler threw: `THROWS_LATE` is a request whose handler throws before it
  asks the disk (an unreadable header, a status byte out of range, more data than an
  array can hold), `BAD_STATUS` one whose status byte cannot be written after the disk
  answered, so that the catch block throws as well.
* **DiskActor.** Calls are numbered and a write stores its number, so that "later"
  is "larger".  `cache` and `durable` are the contents of a store before and after
  its flush; `raced` remembers that a call was made while another ran `init()`, and
  `opened` which store each page worked on.  `Opening` chooses, each time, which of the
  stores open: one whose handle this actor holds never does, any other may fail.
* **VirtioPci.** A register write is an action, whichever BAR it comes through; a
  feature word is a set of feature names, with an offered and an unoffered bit in the
  low word and VERSION_1 in the high one.  `late` remembers that features were written
  after FEATURES_OK had been accepted.
* **VirtioNet.** `rxQueue` is the backlog, `avail` and `rxUsed` the rings (which
  `Virtqueue` implements) and `kick` the queues the driver still has to ring for.
  Frames are numbered as they are accepted.  `polling` is a driver that took its
  interrupt by setting VRING_AVAIL_F_NO_INTERRUPT and polls until it finds nothing, as
  NAPI does.  `hushed` remembers a buffer used under
  EVENT_IDX, `threw` that an exception ended the last drain of the transmit queue.
* **PciBus.** `pciSpace` is what configuration space stores, `base` and `sizing` the
  device's view, `bars` the tables that route: `ActiveBars` builds one slot by slot as
  the code does, and `Route` takes the first entry that holds the address.
  `ReadPciConfig` is what a register reads back: its size mask while it is being sized.
  `torn` remembers registers written by halves, which change the first and not the
  second.
* **BootLayout.** An image is the record of its sizes and header fields; a region is
  what a step writes; `Accepted` is that no step throws.
* **VirtioInput.** `pressed` and `pendingHost` are the device's; `held` and
  `guestDown` are the keys the two ends have down; `missed` remembers keys whose
  key-up was dropped or never made.  `buffers` are the chains the driver posted: one that
  is too short or not writable uses up an event, which is lost, and a malformed one stops
  `pumpQueue` with the event still queued.
* **VirtioGpu.** One action per command, in the loop of `onQueueNotify`, during which
  the guest does not run (`busy`).  A command is a record of operation, resource and
  fence; the rings are the sequences `avail` and `used` (which `Virtqueue`
  implements).  `UNREADABLE` is every packet answered ERR_UNSPEC, among them
  SET_SCANOUT, TRANSFER and FLUSH of the virtio specification's size: the code reads
  them 32 bytes into the payload, behind their end.  `onFrame` says whether the device
  was made with a frame callback (the default one is not); `framed` and `frameThrew`
  remember for which flushes it returned and threw, `lost` the chains popped and never
  answered (`OVERLONG`), `inherited` the fence completed before the last reset,
  `unrefShown` that the resource on the scanout was unreferenced.

## 3. What TLC checks

| Run | Distinct states | Shows |
|---|---|---|
| `IrqDelivery` | 295,200 | lines follow holders, holders follow latches and masks, what is delivered follows the lines, unmasked interrupts whose level a backend takes are served |
| `VmLifecycle` | 5,473,298 | one quantum chain, a running VM is watched, a paused one rests, only booted CPUs run, attachments are real while there is a worker, careful callers see agreement |
| `VmWatchdog` | 14,613 | no live worker is given up, every hung one is unless the watchdog was resumed without a timer |
| `DescriptorChain` | 2,469,404 | the parser ends, refuses no well-formed chain and accepts only those and chains misordered across a table, and its length check never fires |
| `Virtqueue` | 37,651 | the rings implement the contract, all chains return, and without EVENT_IDX no interrupt is lost |
| `VirtioBlk` | 385,796 | the device implements the contract unless a reset cuts a request off, statuses are honest, requests return unless their handler throws |
| `DiskActor` | 821,873 | order, read-your-writes, durability of flush, checksums, every call settles |
| `VirtioInput` | 157,975 | no key sticks unless its key-up was dropped, never made or lost in a short buffer; released keys come up unless the queue is blocked |
| `VirtioGpu` | 1,366,808 | scanouts show resources that exist, fences and frames tell the truth, every command is answered unless its chain was lost or waits behind one that was |
| `VirtioNet` | 1,219,200 | accepted features stay honest unless written late, frames arrive in order and are announced and delivered, transmit chains are not forgotten |
| `PciBus` | 566,280 | the device that answers an address is the one whose register, read back, shows it, unless it is being sized or was half written |
| `VmLifecycleDestroy` | violation | a destroyed VM becomes READY again |

Each property has a mutant of the code in its module, marked as such, that makes
TLC find it violated.  The type invariants (`TypeOK`, `DeliveryTypeOK`) and
`StatusMirrorsIsr` document the state and carry the induction of section 4; no run
checks them on their own, and those of every state machine are theorems.

**Bounds.**  *IrqDelivery*: two devices on one line (first and last holder, and one that
stays), one injected line, a latch of two, which two sources overflow; a backend takes
any part of what a quantum delivers. The code never tells one ISR bit from another (it
ors them in and clears all), so one bit is enough; the theorems hold for any.
*VmLifecycle*: `MaxCmd = 2`, `MaxEvt = 4` let commands cross events in both directions,
and `CMD_INIT` alone posts two events; two attach calls may overlap.  A call is simply
not made while the bound is reached.  *VmWatchdog*: interval 3, timeout 9, pongs up to 5
late, so that up to two newer pings overtake an answer; eight pings.  *DescriptorChain*:
all tables with three ring and two table descriptors, enough for every kind of loop, for
a chain of the full length and for an indirect table after a buffer; and every head,
with one past the queue for all that are. *Virtqueue*: a ring of two with indices modulo
8 wraps both several times; the theorems hold for any.  *VirtioBlk*: two chains, so that
one waits while the other is served.  *DiskActor*: four calls and one reload on one
sector: two writes, something that comes between them, and a look at the result; sectors
do not interact.  The browser has both persistent stores; one that has fewer is one
whose others always fail to open. Once calls have raced with `init()` all but
`EveryCallSettles` says nothing any more, so only the first three calls may race
(`MaxRaced`). *VirtioInput*: two keys, four queued events, two buffers of any kind.
*VirtioGpu*: two chains; one resource, for the code never relates two (an id that is 0
or not created is the other case); three fences between resets, which start below, at
and above those completed before.  *VirtioNet*: a feature word is written with no bit or
one, the selector with 0, 1 and 2 (bit 0 counts), the queue selector with one index too
many; two receive buffers and a backlog of two, so that either runs out first; three
frames, so that one waits behind a full backlog.  With `TxSize = 1` no chain waits
behind one too long to be copied; the theorem about transmit chains covers every size.
*PciBus*: two slots; addresses of two halves of one bit and windows of two addresses, so
that windows touch, overlap and start inside each other; one register at a time half
written.

**Fairness.**  Weak fairness only, and only for what the event loop or the guest kernel
goes on doing: quanta while the VM runs and the handlers of a line the CPU sees HIGH
(`IrqDelivery`); the loop, the disk's answer, and a driver that notifies, reaps and sets
a reset device up (`VirtioBlk`); devices completing what they consumed and the driver's
interrupt handler (`Virtqueue`); storage answering (`DiskActor`); a driver that posts
buffers and kicks (`VirtioInput`); the handler's loop and a driver that notifies and
reaps (`VirtioGpu`); a driver that rings for what it put in, handles its interrupts,
goes on polling once it polls, and keeps buffers in the receive queue (`VirtioNet`); the
loop of the parser (`DescriptorChain`).  No caller, key, frame or device request is ever
forced.

**Deadlock** is checked where the system can always go on; `VmWatchdog` (after a
timeout), `DescriptorChain` (after the walk) and `DiskActor` (after the last call)
really stop.

**Refinement.**  `Virtqueue` implements `VirtqueueContract` with the mapping of the live
part of the rings to sequences.  `VirtioBlk` implements it as long as no reset cuts a
request off, and again from the next idle reset on; a chain whose handler threw is, for
the contract, still at the device (`Held`), from where only a reset takes it.  Both are
also proved.

## 4. What is proved

Each theorem holds for every value of the constants that satisfies the named
assumptions of its module.  Together they state every invariant, every action
property and every refinement that a passing run checks; the type invariants are
among them.  What stays model-checked is liveness.

**Interrupt controller** (`PciProofs`; every device has one of the lines,
host lines are lines): `TypeCorrect`, `LineLevelCorrect`, `HoldersCorrect`,
`HoldersPendingCorrect`.  The inductive invariant is `TypeOK /\ LineLevel /\
HoldersExact /\ HoldersPending /\ StatusMirrorsIsr`.  None of the parts is inductive
alone: that the last holder's release lowers the line needs `LineLevel`; that a
2-byte Command write makes the holders exact again for a device whose mask was
changed by a byte write needs `HoldersPending`, for unmasking a device with nothing
latched leaves the set of holders as it is.  One lemma per operation, on top of
lemmas about taking and giving up a hold.

**Interrupt delivery** (`PciProofs`; any latch): every step of the worker is a
step of the controller or leaves it alone, so `DeliveryImplementsController` carries
the theorems above over.  `DeliveryTypeCorrect`, `NeverDroppedCorrect`: next to the
controller's invariant `NeverDropped` is inductive as it stands.  The argument is
about what a sequence of changes makes of the levels: a change appended decides its
line and no other (`AfterAppend`), dropping the oldest disturbs a line only if
nothing newer of that line follows (`AfterTail`), and a device step moves at most one
line (`OneLineAtATime`), so that one callback tells all of it.

**PCI bus** (`PciProofs`; any number of slots, width of registers and size of
windows): `BusTypeCorrect`, `AnswersWhereShownCorrect`.  The invariant says that the
tables are those of the devices and bases there are now (`Mapped`), and that a
register not written by halves stores the base (`ReadsBack`), which is what is read back
unless it is being sized.  A table lists
the windows of the devices slot by slot (`Lists`, by induction over the slots), so
the first entry that holds an address is of the lowest device that shows it
(`FirstWins`).

**Watchdog** (`HostProofs`; interval and delay together below the timeout):
`TypeCorrect`, `NoFalseKillCorrect`, `HangDetectedCorrect`.  The invariant says that
outstanding pings are ordered by number and age (`PingsOrdered`), that no tick has yet
found an active watchdog silent for the timeout (`SilenceBounded`), that the oldest
unanswered ping of a live worker was issued within one interval of its last sign of life
(`AliveHeard`), both while the timer runs, and that the history variable of
`HangDetected` counts at most the silence (`WatchedIsSilent`).

**Keyboard** (`HostProofs`; any keys, any size of the two queues): `InputTypeCorrect`,
`NoStuckKeyCorrect`.  A queue is `Sound` for a set of keys if playing it leaves no
other key down but the missed ones; each queue function keeps that, those that
drop an event by remembering what they dropped.  Focus loss releases the keys one by
one in an order the code does not fix: `Released` is sound after every prefix, by
induction over its length.

**Lifecycle** (`VmLifecycleProofs`; either kind of worker, any number of attachments,
channels of any length): `TypeCorrect`; `OneQuantumChainCorrect`, which is inductive by
itself; `AttachTruthfulCorrect`, with the fact that an acknowledgement on its way from a
worker that lives is of an attachment that exists (`EventsAttached`);
`ExecutesBootedCorrect`, with what is in the channels: a host that believes its VM
booted has sent the registers (`HostBooted`), no start command overtakes them
(`StartsBooted`), and the worker tells of a booted state only when it is in one
(`EventsBooted`).

What is said of settled messages (`RunningIsWatchedCorrect`, `PausedSettledCorrect`)
rests on `Watches`: what the *last* command and the *last* event of a kind still on
their way will make of the other side.  A CPU that stopped has told so after it told
that it runs (`StopTold`); of a watchdog that pauses or is off, the host's last word
to the worker was a pause or a reset, on its way or obeyed (`PausedWatch`,
`StoppedWatch`); a host that calls a running CPU PAUSED will hear better or has asked
it to pause (`PauseAsked`); and the ack that `create()` waits for precedes every error
(`AckFirst`).  `AgreementIfCarefulCorrect` adds `InStep`, of callers that wait: at most
one command is on its way and the worker is in the state for it, and with none on its
way the host agrees with the worker once it has heard everything.

**Virtqueue** (`VirtqueueProofs`; any queue size and any index modulus it divides):
`TypeCorrect`; `PlacesCorrect`, every chain is with the driver, offered, at the device
or completed, in one place and there once; `ContractImplemented`, that the rings
implement the contract; `NoLostInterruptCorrect`.  The argument goes from arithmetic
upwards: indices that wrap at the modulus and slots that wrap at the queue size stay
in step because one divides the other (`SlotTurn`), and fewer than a queue size of
steps do not return to a slot (`SlotsApart`); so storing at the upper index appends
to the live part of a ring that is not full (`RingPush`), and moving the lower one
takes its head (`RingPop`).  That a ring is not full where the code pushes, which it
never checks, follows from `Places` by the pigeonhole principle (`RoomForOneMore`).
`NoLostInterrupt` needs that the driver is silent only while it reaps
(`SilentWhileReaping`).

**Descriptor parser** (`GuestMemProofs`; any queue size and table length, any tables and
head): `ParserTypeCorrect`; `NeverTooLongCorrect`, the check for over-long chains behind
the loop detection is dead code, for a walk that stands on an unvisited descriptor has
visited fewer than there are (`RoomForCurr`); `WalkIsBounded`, every step uses up some
of a budget of `QSize + TableLen + 2`, which is what `Terminates` says without the
fairness; and `ParserExactCorrect`, that what is accepted is what is well-formed or
misordered across the border of a table only (`OnlyAcross`).  The
walk stands at the end of a *trail* (`Trail`, `Standing`), a path that may yet close a
loop, and has handed out the buffers before it (`Handed`).  The tables name one path
from a head, so every path that reaches an end goes along the trail (`Agrees`) and what
stops the walk stops all of them (`Doomed`, `GivesUp`: the parser refuses only where no
well-formed chain is); where the walk ends, the trail is itself a path (`Arrived`).  An
indirect table is a second walk behind the path that led there.

**Boot** (`GuestMemProofs`; any image and RAM size): `InitrdPlaced`, an accepted initrd
lies on a page behind the kernel, within RAM and below the header's limit, although the
page mask makes addresses of 2 GB and above negative: those are refused by the
comparison with the kernel's end.  `OverlapsNamed` says of the other regions, which the
code compares with nothing, when they overlap: the command line meets boot_params
exactly when it is longer than 458752 bytes; kernel and initrd never meet; either can
meet boot_params and the header copied into it only if the header loads the kernel below
`SetupLimit` (0xB0000, as far as the largest setup part reaches); and from 1 MB on,
where kernels load unless their header says otherwise, both lie in the part of the
memory map that is usable.  Nothing is assumed but that `setupLinuxBoot` throws nothing.
There is nothing to run here; TLC would only try a few sizes.

**Storage actor** (`StorageProofs`; any browser, sectors, calls and reloads):
`TypeCorrect`, `FlushDurableCorrect`, `ReadsLatestCorrect`, `ChecksumsMatchCorrect`,
`OrderedWritesCorrect`.  As long as nothing has raced with `init()` the invariant
`Settled` holds: the queue is in call order and no call in progress is older than
one that had its turn (`Turns`); a page works on one backend, the one
its first `init()` ended with (`OneBackend`), and what it stores is older than every call in progress
(`Ordered`); a write that returned is in the store or overwritten by a later one, a
read returned nothing newer than itself nor older than the last write before it, and
what a flush followed is durable (`Kept`, `Seen`, `Saved`); a recorded checksum is that
of the last write queued (`Recorded`).  Which stores open is chosen anew each time, so
pages need not work on the same one: durability is said of the store a page works on and
of later pages that work on it too, and reading back what was written of every page that
works on a persistent store, for any setting of the actor.

**Block device** (`StorageProofs`; any chains and requests): `BlkTypeCorrect`,
`HonestStatusCorrect`, `ImplementsContractCorrect`.  `BlkIInv` says that every chain is
in one place and the request at the disk is still what its chain asks (`OnePlace`),
unless a reset cut one off (`cut`), whose late completion then puts a chain into a ring
that no longer knows it.  With it every step is one of the contract or unseen by it, the
one of a handler that throws included: it leaves the chain where it is, at the device.

**GPU** (`VirtioGpuProofs`; any chains, resources and fences): `TypeCorrect`,
`ShownExistsCorrect`, `FenceHonestCorrect`, `FramesAnsweredCorrect`.  `Shown` is inductive
over resources, backing and scanout alone.  Of the fences the invariant says that they
count up along the rings, the used ones below those waiting (`Counted`), so a command
whose fence is above what the last reset left behind is never refused for its order.
Serving a command has eight alternatives, and `Served` says once what they share; the
chain that throws is served by none of them and only leaves the ring (`ThrowKeeps`).  Of
frames the invariant holds of the two outcomes of the callback together (`Handed`).

**Network device** (`VirtioNetProofs`; any queue sizes, offered features and
backlog): `TypeCorrect`, `FeaturesHonestCorrect`, `FramesInOrderCorrect`,
`RxNoticedCorrect`, `NoTxForgottenCorrect`.  Given the types each part is kept by
itself; the lemmas are about cutting a sequence in two (`Cut`) and about what one
drain moves (`Pumped`).

**Induction over data.**  The library's induction theorems take an operator as a
parameter, which the provers cannot instantiate.  Where a proof needs induction it
cites `LeastElement` instead, that every set of numbers that is not empty has a least
element (from `NatLessThanWellFounded` and `WFMin`), and looks at the least
counterexample: so are the recursive functions of `PciBus` and `VirtioInput` and the
paths of `DescriptorChain` reasoned about.

**Only model-checked:** liveness, since the provers know nothing of ENABLED, on which
fairness rests: `InterruptServed` and `LevelsDelivered`, `Terminates`,
`EveryChainReturns`, `EveryRequestReturns`, `EveryCallSettles`, `KeysComeUp`,
`EveryCommandReturns`, `FramesDelivered`.

## 5. Where code and documentation disagree

Shown by the violation run: `create()` sets READY after its await whatever happened
meanwhile (`src/vm/vm_runtime.js:366`), and events of an in-process worker survive
`terminate()`: a destroyed VM comes back.

Met while modelling and visible as the named exceptions of passing properties:

* with EVENT_IDX `shouldNotify` compares with `avail_event`
  (`virtqueue.js:347`), which the device should write and nobody does, instead of the
  driver's `used_event`; the transport offers the feature as supported
  (`virtio_pci_device.js:95`; `eventIdx` in `NoLostInterrupt`, `hushed` in
  `RxNoticed`);
* when a driver polls with VRING_AVAIL_F_NO_INTERRUPT set, no frame is announced, as the
  flag asks (`virtqueue.js:341`; `polling` in `RxNoticed`);
* `init()` has no guard against a second concurrent one (`disk_actor.js:298`), and
  what is then written and flushed may not be where the next load looks, against :432
  (`raced` in `FlushDurableUnraced` and `OrderedWrites`);
* the cascade falls through on any failure of a store, a handle held by another tab
  included (`disk_actor.js:323-337`): what one page flushed into one store a later page,
  which works on another or in memory, does not find (`opened` in `FlushDurable`);
* features written after they were accepted are not looked at again
  (`virtio_pci_device.js:389`; `late` in `FeaturesHonest`);
* a 2-byte write of a BAR changes what is read back and not where the device is
  (`virtio_pci_device.js:265`), and a BAR that is being sized reads back as its mask while
  the device stays where it was (`:211-221`; `Misleading` in `AnswersWhereShown`);
* a 1-byte Command write changes INTX_DIS behind the controller
  (`virtio_pci_device.js:265`; `maskBehind` in `HoldersExact`);
* an exception ends the drain of the transmit queue without a trace: what is behind
  stays queued, and a chain longer than an array can be has lost its used entry
  (`virtio_net.js:122`, against `plan.md:298`; `threw` in `NoTxForgotten`); and a
  refused chain at the head of the receive queue blocks it until a reset
  (`virtio_net.js:99`; the exception of `FramesDelivered`);
* an overflowing latch drops the only change of a line (`vm_worker.js:211`, against
  the comment at :92; `lost` in `NeverDropped`);
* a level is recorded as delivered whether or not a backend took it: the stub has no
  interrupt controller, v86 owns one that host lines do not reach
  (`v86_backend.js:23-25, 148-155`), and what `deliverIrq` throws is swallowed
  (`vm_worker.js:521-530`); an unmasked interrupt is then never served (`Untaken` in
  `InterruptServed`);
* the watchdog's `resume()` after a `stop()`, as after a reset and a late PAUSED event,
  leaves it active without a timer: it notices no hang until the next `start()`
  (`vm_runtime.js:88-91`; `Unwatched` in `HangDetected`);
* `destroy()` and the watchdog end a worker and its backend and leave `v86Attached` set
  (`vm_runtime.js:272-282, 506-514`); after the watchdog `reset()`, `loadBoot()` and
  `start()` are let through to nobody (`wAlive` in `AttachTruthful`);
* `start()` from PAUSED leaves the worker paused (`vm_worker.js:264`, against
  `vm_runtime.js:440`; careful callers in `AgreementIfCareful`);
* `pause()` resolves before the worker has paused (`vm_runtime.js:475`), so
  `PausedSettled` speaks of settled messages;
* a reset keeps the registers of the last boot (`vm_worker.js:294`, against
  `vm_runtime.js:492`; `CmdReset` leaves `regs`);
* reads of an indirect table after writable ring descriptors are accepted
  (`virtqueue.js:252`), although :135-137 promises the read/write ordering of the chain
  (`OnlyAcross` in `ParserExact`);
* a failed write leaves its checksum (`disk_actor.js:408`; the exception of
  `ChecksumsMatch`);
* a full event queue drops key-ups, focus loss does not release keys that came
  as CMD_INPUT_EVENT, and an event goes into a buffer that is too short for it and is
  gone (`virtio_input.js:57`, `vm_worker.js:445`, `virtio_input.js:99-101`; `missed` in
  `NoStuckKey`); a malformed chain blocks the event queue, its exception swallowed
  (`virtio_input.js:88, 106`; `Unusable` in `KeysComeUp`);
* an exception outside the inner try of a request, or inside its catch block, leaves
  `handleRequestChain` with the chain consumed and no used entry
  (`virtio_blk.js:162-167, 206, 242`, against `PROJECT.md:68` and `plan.md:298`; `lost`
  in the contract's mapping and the exception of `EveryRequestReturns`);
* a malformed chain blocks the block device until a reset (`virtio_blk.js:131`; the
  exception of `EveryRequestReturns`), and the GPU likewise (`virtio_gpu.js:161`); a GPU
  command too long to be copied is popped, swallowed and never answered, and those
  behind it wait for another doorbell (`virtio_gpu.js:165, 221`; `lost` and `Stranded`
  in `EveryCommandReturns`);
* a flush is answered OK without a frame when there is no `onFrame`, as in the default
  device (`vm_worker.js:31, 46`), or when it throws (`virtio_gpu.js:128-130`; `onFrame`
  and `frameThrew` in `FramesAnswered`);
* a disk operation that settles after a device reset completes into the ring set up
  since (`virtio_blk.js:195`; `cut` in the contract's mapping);
* the GPU remembers the last completed fence across a reset and refuses the fences of
  the next driver until they pass it (`resource_registry.js:69`; `inherited` in
  `FenceHonest`);
* a resource is destroyed while the scanout shows it, and its id can be created
  anew (`resource_registry.js:46`, against `plan.md:418`; `unrefShown` in
  `ShownExists`).

Seen in the code, and part of the models without a property of their own: the network
device never interrupts for transmitted chains (`virtio_net.js:120`), so `OfferTx` is a
driver that looks by itself; it numbers its queues the other way round than the virtio
specification (transmit is 0); a queue index that does not exist selects the last
queue (`virtio_pci_device.js:367`); `driverFeatureSelect` survives a reset.  Of direct
boot the theorem `OverlapsNamed` shows that neither the command line's length nor the
kernel's load address is compared with boot_params (`boot_manager.js:85-149`).  About
data that no model holds: the network's config space says link up whatever the link
is (`virtio_net.js:40`), the GPU's response header carries no fence
(`virtio_gpu.js:182`), a fence id of 0 is completed as 1 and one beyond 2^53 is rounded
(`:127, :178`), its cursor queue has no handler (`:156`), and a frame is truncated to the
receive buffer it meets (`virtio_net.js:88-94`).

## 6. What is not modelled, and why

* Console, rng, rtc, sound: synchronous devices whose queues add nothing to
  `Virtqueue` and `VirtioNet`; the console's bounded log is planned.
* Of the transport: PCI capabilities, the read side of the registers, ring addresses
  and sizes (the driver writes them before it enables a queue), config space.
* Of the boot loader: register values and the fields of boot_params.  Of GuestMem,
  `validateRange` is the condition `InRange` of `BootLayout`, and in the other models
  an address is in range or is not; its accessors are byte copies, and
  `scatterGather` is called by tests only.
* Image store, v86 adapter and back end, host probes, event log, validation loop:
  pure I/O, wrappers of the vendored emulator, or straight-line code.
* The Rust crates: protocol decoding and drawing; the bridge's resource protocol
  is planned as a second implementation of the GPU commands.
* In the modelled parts: contents of config space, data copied to and from guest
  memory, sector arithmetic, serial and log events, pointer input.  A second
  `create()` while the first waits is not among the calls.

## 7. Plan

In order of importance:

1. **Proofs**: that the storage actor implements an atomic store, one read or write of
   a sector at a time, until calls race with `init()`: `OrderedWrites` and `ReadsLatest`
   are its two halves; and, as for the parser (`WalkIsBounded`), a quantity that every
   turn of the settling of storage calls uses up.
2. **GPU**: an abstract specification of resources, scanout and fences that
   `VirtioGpu` implements from one reset to the next, and the Rust bridge
   (`crates/virtio_gpu_bridge`) as its second implementation.
3. **Composition** of `Virtqueue` and `IrqDelivery`: from a used entry to the
   handler that reaps it, over the real line instead of one bit.
4. **Console, image store, v86 back end**: the bounded log and its readers, the cache
   of verified images, and the hand-over of a run to the emulator.
