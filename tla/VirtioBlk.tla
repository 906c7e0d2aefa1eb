------------------------------ MODULE VirtioBlk ------------------------------
(***************************************************************************)
(* The block device, src/io/block/virtio_blk.js, between its request queue  *)
(* and the storage actor: one processQueue loop that pops a chain, awaits   *)
(* the disk and completes the chain, while the guest keeps offering chains, *)
(* notifying, and may reset the device at any moment.                       *)
(*                                                                         *)
(* The rings are abstracted to what they hold (Virtqueue implements that),  *)
(* the storage actor to a promise that resolves or rejects (DiskActor has   *)
(* its inside).  The loop and its await survive a device reset: VirtioBlk   *)
(* has no onReset.                                                         *)
(***************************************************************************)
EXTENDS Naturals, Sequences

CONSTANTS
    Chain,      \* descriptor chain heads
    Request,    \* what the driver may ask for
    ReadOnly    \* options.readOnly

(* The requests of the specification, an unknown type, data of a wrong     *)
(* length, a chain without header or status, a chain that                  *)
(* popDescriptorChain throws on, and two that handleRequestChain throws on: *)
(* "THROWS_LATE" before any disk operation (more data to write than a       *)
(* Uint8Array can have, or an answer for a status byte at address -1, which *)
(* an empty last descriptor at 0 has), "BAD_STATUS" after one, for such a   *)
(* byte.                                                                   *)
ASSUME RequestAssumption ==
    Request \subseteq {"IN", "OUT", "FLUSH", "GET_ID", "OTHER", "UNALIGNED", "NO_STATUS",
                      "THROWS", "THROWS_LATE", "BAD_STATUS"}
ASSUME ReadOnlyAssumption == ReadOnly \in BOOLEAN

VARIABLES
    \* guest memory and driver (external)
    free,          \* chains the driver owns
    request,       \* what each offered chain asks for
    status,        \* the status byte of each chain
    avail,         \* offered chains, in order
    used,          \* used entries the driver has not seen, in order
    kicked,        \* the driver has yet to write its queue notify
    \* device
    enabled,
    isProcessing,
    current,       \* the chain handleRequestChain works on: {} or one record
    diskDid,       \* history: the outcome of each chain's disk operation
    cut,           \* history: the last reset cut off a request in progress
                   \*   that has not been dropped since
    lost           \* history: chains consumed whose handler threw, until a reset

driverVars == <<free, request, avail, kicked>>
blkVars == <<driverVars, status, used, enabled, isProcessing, current, diskDid, cut, lost>>

BlkTypeOK ==
    /\ free \subseteq Chain /\ request \in [Chain -> Request \cup {"nothing"}]
    /\ status \in [Chain -> {"none", "OK", "IOERR", "UNSUPP"}]
    /\ avail \in Seq(Chain) /\ used \in Seq(Chain) /\ kicked \in BOOLEAN
    /\ enabled \in BOOLEAN /\ isProcessing \in BOOLEAN
    /\ current \in SUBSET [head : Chain, request : Request]
    /\ current # {} => isProcessing /\ \E c \in current : current = {c}
    /\ diskDid \in [Chain -> {"nothing", "resolved", "rejected"}] /\ cut \in BOOLEAN
    /\ lost \subseteq Chain

BlkInit ==
    /\ free = Chain /\ request = [c \in Chain |-> "nothing"]
    /\ status = [c \in Chain |-> "none"]
    /\ avail = <<>> /\ used = <<>> /\ kicked = FALSE
    /\ enabled = FALSE /\ isProcessing = FALSE /\ current = {}
    /\ diskDid = [c \in Chain |-> "nothing"] /\ cut = FALSE /\ lost = {}

-----------------------------------------------------------------------------
(* Device.                                                                 *)

(* notifyQueue: ignored when the queue is disabled or a loop runs already.  *)
Notify ==
    /\ enabled /\ kicked
    /\ kicked' = FALSE
    /\ isProcessing' = TRUE
    /\ UNCHANGED <<free, request, avail, status, used, enabled, current, diskDid, cut, lost>>

HasAvailable == enabled /\ avail # <<>>

(* The next turn of the while loop.                                        *)
Pop ==
    /\ isProcessing /\ current = {} /\ HasAvailable
    /\ request[Head(avail)] # "THROWS"
    /\ current' = {[head |-> Head(avail), request |-> request[Head(avail)]]}
    /\ avail' = Tail(avail)
    /\ UNCHANGED <<free, request, kicked, status, used, enabled, isProcessing, diskDid, cut, lost>>

(* popDescriptorChain throws before it advances: the finally block starts   *)
(* over on the same chain until the stack overflows, and the loop is gone.  *)
PopThrows ==
    /\ isProcessing /\ current = {} /\ HasAvailable
    /\ request[Head(avail)] = "THROWS"
    /\ isProcessing' = FALSE
    /\ UNCHANGED <<driverVars, status, used, enabled, current, diskDid, cut, lost>>

\* Mutant: one chain per notify, an if in place of the while.
LoopEndsEarly ==
    /\ isProcessing /\ current = {}
    /\ isProcessing' = FALSE
    /\ UNCHANGED <<driverVars, status, used, enabled, current, diskDid, cut, lost>>

LoopEnds ==
    /\ isProcessing /\ current = {} /\ ~HasAvailable
    /\ isProcessing' = FALSE
    /\ UNCHANGED <<driverVars, status, used, enabled, current, diskDid, cut, lost>>

AsksDisk(r) == r \in {"IN", "FLUSH", "BAD_STATUS"} \/ (r = "OUT" /\ ~ReadOnly)

\* Mutant: a request is completed twice.
CompleteChainTwice(c, s) ==
    /\ status' = IF s = "none" THEN status ELSE [status EXCEPT ![c] = s]
    /\ used' = IF enabled THEN used \o <<c, c>> ELSE used
    /\ current' = {} /\ cut' = (cut /\ enabled)
    /\ UNCHANGED <<isProcessing, lost>>

(* completeChain after the status byte; a reset queue has no ring to push   *)
(* to, and the used entry is dropped.                                      *)
CompleteChain(c, s) ==
    /\ status' = IF s = "none" THEN status ELSE [status EXCEPT ![c] = s]
    /\ used' = IF enabled THEN Append(used, c) ELSE used
    /\ current' = {} /\ cut' = (cut /\ enabled)
    /\ UNCHANGED <<isProcessing, lost>>

(* An exception nobody catches ends handleRequestChain, the chain consumed  *)
(* and no used entry written, and with it the loop; its finally block       *)
(* starts another one if there is more.                                    *)
LoseChain(c) ==
    /\ current' = {} /\ cut' = (cut /\ enabled)
    /\ lost' = IF cut THEN lost ELSE lost \cup {c}
    /\ isProcessing' = HasAvailable
    /\ UNCHANGED <<status, used>>

(* Requests that never reach the disk.                                     *)
ImmediateStatus(r) ==
    CASE r = "GET_ID"    -> "OK"
      [] r = "OTHER"     -> "UNSUPP"
      [] r = "NO_STATUS" -> "none"
      [] OTHER           -> "IOERR"

CompleteNow ==
    \E c \in current :
        /\ ~AsksDisk(c.request)
        /\ IF c.request = "THROWS_LATE" THEN LoseChain(c.head)
           ELSE CompleteChain(c.head, ImmediateStatus(c.request))
        /\ UNCHANGED <<driverVars, enabled, diskDid>>

(* The status byte of a disk operation: when it cannot be written, the      *)
(* catch block throws as the try block did.                                *)
Answer(c, s) ==
    IF c.request = "BAD_STATUS" THEN LoseChain(c.head) ELSE CompleteChain(c.head, s)

DiskResolves ==
    \E c \in current :
        /\ AsksDisk(c.request)
        /\ diskDid' = [diskDid EXCEPT ![c.head] = "resolved"]
        /\ Answer(c, "OK")
        /\ UNCHANGED <<driverVars, enabled>>

\* Mutant: the catch block is missing and a rejection completes like a success.
DiskRejectsAsOk ==
    \E c \in current :
        /\ AsksDisk(c.request)
        /\ diskDid' = [diskDid EXCEPT ![c.head] = "rejected"]
        /\ Answer(c, "OK")
        /\ UNCHANGED <<driverVars, enabled>>

DiskRejects ==
    \E c \in current :
        /\ AsksDisk(c.request)
        /\ diskDid' = [diskDid EXCEPT ![c.head] = "rejected"]
        /\ Answer(c, "IOERR")
        /\ UNCHANGED <<driverVars, enabled>>

(* VirtioPciDevice.reset: the queue forgets its rings; isProcessing and the *)
(* awaited operation stay.  It cannot fall into a turn of the loop.         *)
Reset ==
    /\ enabled
    /\ \A c \in current : AsksDisk(c.request)
    /\ enabled' = FALSE /\ cut' = (current # {}) /\ lost' = {}
    /\ free' = Chain /\ avail' = <<>> /\ used' = <<>> /\ kicked' = FALSE
    /\ UNCHANGED <<request, status, isProcessing, current, diskDid>>

-----------------------------------------------------------------------------
(* Driver (external).                                                      *)

Setup ==
    /\ ~enabled
    /\ enabled' = TRUE
    /\ UNCHANGED <<driverVars, status, used, isProcessing, current, diskDid, cut, lost>>

Offer(c, r) ==
    /\ enabled /\ c \in free
    /\ free' = free \ {c}
    /\ request' = [request EXCEPT ![c] = r]
    /\ status' = [status EXCEPT ![c] = "none"]
    /\ diskDid' = [diskDid EXCEPT ![c] = "nothing"]
    /\ avail' = Append(avail, c) /\ kicked' = TRUE
    /\ UNCHANGED <<used, enabled, isProcessing, current, cut, lost>>

Reap ==
    /\ enabled /\ used # <<>>
    /\ free' = free \cup {Head(used)} /\ used' = Tail(used)
    /\ UNCHANGED <<request, avail, kicked, status, enabled>>
    /\ UNCHANGED <<isProcessing, current, diskDid, cut, lost>>

-----------------------------------------------------------------------------
Loop == Pop \/ PopThrows \/ LoopEnds \/ CompleteNow
Disk == DiskResolves \/ DiskRejects
Driver == Setup \/ Reap \/ \E c \in Chain, r \in Request : Offer(c, r)

BlkNext == Notify \/ Loop \/ Disk \/ Driver \/ Reset
BlkSpec == BlkInit /\ [][BlkNext]_blkVars

(* The worker's event loop runs on, the disk answers, the driver writes its *)
(* notify, reaps, and sets a reset device up again.                        *)
BlkFairSpec ==
    /\ BlkSpec
    /\ WF_blkVars(Notify) /\ WF_blkVars(Loop) /\ WF_blkVars(Disk)
    /\ WF_blkVars(Reap) /\ WF_blkVars(Setup)

-----------------------------------------------------------------------------
Elements(s) == {s[i] : i \in DOMAIN s}
Heads == {c.head : c \in current}

(* Unless a reset cut a request off, the device keeps the virtqueue's       *)
(* promise: no chain lost, completed twice or out of order, one used entry  *)
(* for each.  A chain whose handler threw counts as one it is still at: it  *)
(* holds it until a reset.  After a reset that cut a request off it keeps   *)
(* the promise again from the next reset of an idle device on, or from the  *)
(* moment the request is dropped because the queue is still disabled        *)
(* (virtio_blk.js:117-138, 298-303).                                        *)
Held     == Heads \cup lost
Contract == INSTANCE VirtqueueContract WITH device <- Held
Promise  ==
    \/ ~cut /\ Contract!Next
    \/ (cut \/ lost # {}) /\ Contract!Init'
    \/ cut'
ImplementsContract == Contract!Init /\ [][Promise]_<<free, avail, Held, used, cut>>

(* What the driver reads in a completed chain is what the disk did: OK only *)
(* for an operation that resolved, an error for one that did not ("A failed *)
(* browser storage op completes the request with an error", plan.md:320).   *)
HonestStatus ==
    ~cut => \A c \in Elements(used) :
        AsksDisk(request[c]) =>
            /\ diskDid[c] # "nothing"
            /\ status[c] = "OK" <=> diskDid[c] = "resolved"

(* Every request comes back or waits behind a malformed one, also when it   *)
(* was offered while the loop was still waiting for an operation from       *)
(* before a reset, unless it is one that its handler throws on.             *)
EveryRequestReturns ==
    \A c \in Chain :
        c \notin free ~>
            \/ c \in free
            \/ request[c] \in {"THROWS_LATE", "BAD_STATUS"}
            \/ \E b \in Elements(avail) : request[b] = "THROWS"

=============================================================================
