------------------------------ MODULE VirtioGpu ------------------------------
(***************************************************************************)
(* The control queue of src/gpu_transport/virtio_gpu.js and the resource    *)
(* registry of resource_registry.js behind it: resources and their backing, *)
(* the one scanout, fences, frames, and what a device reset forgets.        *)
(*                                                                         *)
(* onQueueNotify serves every available chain before the guest runs again:  *)
(* while busy nothing but the loop moves.  The rings are abstracted to what *)
(* they hold (Virtqueue implements that).  Packets that the device cannot   *)
(* read as a command are one kind: 3D and unknown types, headers cut short, *)
(* and SET_SCANOUT, TRANSFER and FLUSH packets that end where the virtio    *)
(* specification ends them, before the offsets this code reads.  OVERLONG   *)
(* is a packet longer than an array can be.                                *)
(***************************************************************************)
EXTENDS Naturals, Sequences

CONSTANTS
    Chain,      \* descriptor chain heads
    ResourceId, \* the resource ids the driver uses; 0 is the id of none
    MaxFence    \* bound: fence ids the driver hands out between two resets

ASSUME ResourceIdAssumption == ResourceId \subseteq Nat \ {0}
ASSUME MaxFenceAssumption   == MaxFence \in Nat

VARIABLES
    \* guest memory and driver (external)
    free,           \* chains the driver owns
    request,        \* the command in each offered chain
    response,       \* the response type in each chain
    avail,          \* offered chains, in order
    used,           \* used entries the driver has not seen, in order
    kicked,         \* the driver has yet to write its queue notify
    lastFence,      \* the last fence id the driver handed out since the reset
    \* device
    enabled,
    busy,           \* onQueueNotify is running
    onFrame,        \* options.onFrame is a function; the default device has none
    resources,      \* ids in registry.resources
    backed,         \* those with a backing
    scanout,        \* {scanouts.get(0).resourceId}, {} when there is no entry
    completedFence,
    \* history
    framed,         \* flushes whose frame onFrame took
    frameThrew,     \* flushes on whose frame onFrame threw
    lost,           \* chains popped and never answered
    inherited,      \* completedFence at the last reset
    unrefShown      \* the resource on the scanout was unreferenced since

driverVars == <<free, request, avail, kicked, lastFence>>
gpuVars == <<resources, backed, scanout, completedFence>>
frameVars == <<framed, frameThrew>>
historyVars == <<frameVars, lost, inherited, unrefShown>>
vars == <<driverVars, response, used, enabled, busy, onFrame, gpuVars, historyVars>>

Fenced == {"TRANSFER", "FLUSH"}
Id == ResourceId \cup {0}
NoRequest == [op |-> "NONE", id |-> 0, fence |-> 0]
Request ==
    [op : {"CREATE", "SCANOUT"}, id : Id, fence : {0}] \cup
    [op : {"UNREF", "ATTACH", "DETACH"}, id : ResourceId, fence : {0}] \cup
    [op : Fenced, id : ResourceId, fence : 0..MaxFence] \cup
    [op : {"DISPLAY_INFO", "MALFORMED", "UNREADABLE", "THROWS", "OVERLONG"},
     id : {0}, fence : {0}]

TypeOK ==
    /\ free \subseteq Chain /\ request \in [Chain -> Request \cup {NoRequest}]
    /\ response \in [Chain -> {"none", "OK", "RESOURCE", "PARAMETER", "UNSPEC"}]
    /\ avail \in Seq(Chain) /\ used \in Seq(Chain)
    /\ kicked \in BOOLEAN /\ enabled \in BOOLEAN /\ busy \in BOOLEAN
    /\ onFrame \in BOOLEAN
    /\ lastFence \in 0..MaxFence /\ completedFence \in 0..MaxFence /\ inherited \in 0..MaxFence
    /\ backed \subseteq resources /\ resources \subseteq ResourceId
    /\ scanout \in {{}} \cup {{i} : i \in Id}
    /\ framed \subseteq Chain /\ frameThrew \subseteq Chain /\ lost \subseteq Chain
    /\ unrefShown \in BOOLEAN

Init ==
    /\ free = Chain /\ request = [c \in Chain |-> NoRequest]
    /\ response = [c \in Chain |-> "none"]
    /\ avail = <<>> /\ used = <<>> /\ kicked = FALSE /\ lastFence = 0
    /\ enabled = FALSE /\ busy = FALSE /\ onFrame \in BOOLEAN
    /\ resources = {} /\ backed = {} /\ scanout = {} /\ completedFence = 0
    /\ framed = {} /\ frameThrew = {} /\ lost = {} /\ inherited = 0 /\ unrefShown = FALSE

-----------------------------------------------------------------------------
(* The loop of onQueueNotify(0).                                           *)

(* notifyQueue drops the notification of a disabled queue.                  *)
OnQueueNotify ==
    /\ enabled /\ kicked /\ ~busy
    /\ kicked' = FALSE /\ busy' = TRUE
    /\ UNCHANGED <<free, request, avail, lastFence, response, used, enabled, onFrame>>
    /\ UNCHANGED <<gpuVars, historyVars>>

(* The next chain holds one of the commands ops.                            *)
Serving(c, ops) == busy /\ avail # <<>> /\ c = Head(avail) /\ request[c].op \in ops

\* Mutant: the used entry is only written for commands that succeed.
AnswerOnlyOk(c, reply) ==
    /\ response' = [response EXCEPT ![c] = reply]
    /\ avail' = Tail(avail)
    /\ used' = IF reply = "OK" THEN Append(used, c) ELSE used
    /\ UNCHANGED <<free, request, kicked, lastFence, enabled, busy, onFrame, lost, inherited>>

(* The response header goes to guest memory, the used entry into the ring.  *)
Answer(c, reply) ==
    /\ response' = [response EXCEPT ![c] = reply]
    /\ avail' = Tail(avail) /\ used' = Append(used, c)
    /\ UNCHANGED <<free, request, kicked, lastFence, enabled, busy, onFrame, lost, inherited>>

(* RESOURCE_CREATE_2D: a new id, or an error that changes nothing (0 stands *)
(* for bad dimensions too, which are answered the same).                    *)
Create2D(c) ==
    /\ Serving(c, {"CREATE"})
    /\ LET id == request[c].id IN
       IF id \in ResourceId \ resources
       THEN Answer(c, "OK") /\ resources' = resources \cup {id}
       ELSE Answer(c, "RESOURCE") /\ UNCHANGED resources
    /\ UNCHANGED <<backed, scanout, completedFence, frameVars, unrefShown>>

(* RESOURCE_UNREF: unmapped, then destroyed; the scanout is not looked at.  *)
Unref(c) ==
    /\ Serving(c, {"UNREF"})
    /\ LET id == request[c].id IN
       IF id \in resources
       THEN /\ Answer(c, "OK")
            /\ resources' = resources \ {id} /\ backed' = backed \ {id}
            /\ unrefShown' = (unrefShown \/ id \in scanout)
       ELSE Answer(c, "RESOURCE") /\ UNCHANGED <<resources, backed, unrefShown>>
    /\ UNCHANGED <<scanout, completedFence, frameVars>>

(* RESOURCE_ATTACH_BACKING and RESOURCE_DETACH_BACKING.                     *)
Backing(c) ==
    /\ Serving(c, {"ATTACH", "DETACH"})
    /\ LET id == request[c].id IN
       IF id \in resources
       THEN /\ Answer(c, "OK")
            /\ backed' = IF request[c].op = "ATTACH" THEN backed \cup {id} ELSE backed \ {id}
       ELSE Answer(c, "RESOURCE") /\ UNCHANGED backed
    /\ UNCHANGED <<resources, scanout, completedFence, frameVars, unrefShown>>

(* SET_SCANOUT of an existing resource, or of 0 to clear the display.       *)
SetScanout(c) ==
    /\ Serving(c, {"SCANOUT"})
    /\ LET id == request[c].id IN
       IF id \in resources \cup {0}
       THEN Answer(c, "OK") /\ scanout' = {id} /\ unrefShown' = FALSE
       ELSE Answer(c, "RESOURCE") /\ UNCHANGED <<scanout, unrefShown>>
    /\ UNCHANGED <<resources, backed, completedFence, frameVars>>

(* completeFence throws on a fence that is not above the last completed one. *)
InOrder(f) == f = 0 \/ f > completedFence
Completed(f) == IF f = 0 THEN completedFence ELSE f

(* The frame of a flush goes to onFrame, when there is one; what it throws  *)
(* is swallowed.                                                           *)
Present(c) ==
    IF request[c].op = "FLUSH" /\ onFrame
    THEN \/ framed' = framed \cup {c} /\ UNCHANGED frameThrew
         \/ frameThrew' = frameThrew \cup {c} /\ UNCHANGED framed
    ELSE UNCHANGED frameVars

\* Mutant: the fence is completed before the backing is looked at.
TransferOrFlushFenceFirst(c) ==
    /\ Serving(c, Fenced)
    /\ LET r == request[c] IN
       \/ /\ ~InOrder(r.fence)
          /\ Answer(c, "PARAMETER") /\ UNCHANGED <<completedFence, frameVars>>
       \/ /\ InOrder(r.fence) /\ completedFence' = Completed(r.fence)
          /\ IF r.id \in backed THEN Answer(c, "OK") /\ Present(c)
                                ELSE Answer(c, "RESOURCE") /\ UNCHANGED frameVars
    /\ UNCHANGED <<resources, backed, scanout, unrefShown>>

\* Mutant: the frame is presented before its fence is completed.
TransferOrFlushFrameFirst(c) ==
    /\ Serving(c, Fenced)
    /\ LET r == request[c] IN
       \/ /\ r.id \notin backed
          /\ Answer(c, "RESOURCE") /\ UNCHANGED <<completedFence, frameVars>>
       \/ /\ r.id \in backed /\ Present(c)
          /\ IF InOrder(r.fence)
             THEN Answer(c, "OK") /\ completedFence' = Completed(r.fence)
             ELSE Answer(c, "PARAMETER") /\ UNCHANGED completedFence
    /\ UNCHANGED <<resources, backed, scanout, unrefShown>>

(* TRANSFER_TO_HOST_2D and RESOURCE_FLUSH: a known resource with a backing, *)
(* then the fence, then the frame of a flush.                               *)
TransferOrFlush(c) ==
    /\ Serving(c, Fenced)
    /\ LET r == request[c] IN
       \/ /\ r.id \notin backed
          /\ Answer(c, "RESOURCE") /\ UNCHANGED <<completedFence, frameVars>>
       \/ /\ r.id \in backed /\ ~InOrder(r.fence)
          /\ Answer(c, "PARAMETER") /\ UNCHANGED <<completedFence, frameVars>>
       \/ /\ r.id \in backed /\ InOrder(r.fence)
          /\ Answer(c, "OK") /\ completedFence' = Completed(r.fence) /\ Present(c)
    /\ UNCHANGED <<resources, backed, scanout, unrefShown>>

(* What is answered from the packet alone: the display's size; an error for *)
(* a backing list of no or too many entries, and for a scanout other than 0; *)
(* ERR_UNSPEC for everything the device cannot read as a command.           *)
Stateless(c, op, reply) ==
    Serving(c, {op}) /\ Answer(c, reply) /\ UNCHANGED <<gpuVars, frameVars, unrefShown>>
GetDisplayInfo(c) == Stateless(c, "DISPLAY_INFO", "OK")
Malformed(c) == Stateless(c, "MALFORMED", "PARAMETER")
Unreadable(c) == Stateless(c, "UNREADABLE", "UNSPEC")

(* No chain is left, or popDescriptorChain throws on the next one, which    *)
(* stays where it is; the exception is swallowed.                           *)
LoopEnds ==
    /\ busy /\ (avail # <<>> => request[Head(avail)].op = "THROWS")
    /\ busy' = FALSE
    /\ UNCHANGED <<driverVars, response, used, enabled, onFrame, gpuVars, historyVars>>

(* The array for an overlong packet cannot be made, which throws once the   *)
(* chain is popped: swallowed, and the chain has no used entry.             *)
LoopThrows(c) ==
    /\ Serving(c, {"OVERLONG"})
    /\ avail' = Tail(avail) /\ lost' = lost \cup {c}
    /\ busy' = FALSE
    /\ UNCHANGED <<free, request, kicked, lastFence, response, used, enabled, onFrame, gpuVars>>
    /\ UNCHANGED <<frameVars, inherited, unrefShown>>

-----------------------------------------------------------------------------
\* Mutant: the scanout entry outlives the resources.
ResetKeepsScanouts ==
    /\ enabled /\ ~busy
    /\ enabled' = FALSE
    /\ resources' = {} /\ backed' = {} /\ unrefShown' = FALSE
    /\ free' = Chain /\ avail' = <<>> /\ used' = <<>> /\ kicked' = FALSE /\ lastFence' = 0
    /\ request' = [c \in Chain |-> NoRequest] /\ response' = [c \in Chain |-> "none"]
    /\ framed' = {} /\ frameThrew' = {} /\ lost' = {} /\ inherited' = completedFence
    /\ UNCHANGED <<busy, onFrame, scanout, completedFence>>

(* VirtioGpu.reset: queues, resources and scanouts go; the registry keeps   *)
(* completedFence.  The driver starts over, its fence ids included.         *)
Reset ==
    /\ enabled /\ ~busy
    /\ enabled' = FALSE
    /\ resources' = {} /\ backed' = {} /\ scanout' = {} /\ unrefShown' = FALSE
    /\ free' = Chain /\ avail' = <<>> /\ used' = <<>> /\ kicked' = FALSE /\ lastFence' = 0
    /\ request' = [c \in Chain |-> NoRequest] /\ response' = [c \in Chain |-> "none"]
    /\ framed' = {} /\ frameThrew' = {} /\ lost' = {} /\ inherited' = completedFence
    /\ UNCHANGED <<busy, onFrame, completedFence>>

(* Driver (external): fence ids count up, as the Linux driver's do.         *)
Setup ==
    /\ ~enabled /\ enabled' = TRUE
    /\ UNCHANGED <<driverVars, response, used, busy, onFrame, gpuVars, historyVars>>

Offer(c, r) ==
    /\ enabled /\ ~busy /\ c \in free
    /\ r.fence \in {0, lastFence + 1}
    /\ lastFence' = IF r.fence = 0 THEN lastFence ELSE r.fence
    /\ request' = [request EXCEPT ![c] = r]
    /\ free' = free \ {c} /\ avail' = Append(avail, c) /\ kicked' = TRUE
    /\ UNCHANGED <<response, used, enabled, busy, onFrame, gpuVars, historyVars>>

Reap ==
    /\ ~busy /\ used # <<>>
    /\ LET c == Head(used) IN
       /\ free' = free \cup {c} /\ used' = Tail(used)
       /\ request' = [request EXCEPT ![c] = NoRequest]
       /\ response' = [response EXCEPT ![c] = "none"]
       /\ framed' = framed \ {c} /\ frameThrew' = frameThrew \ {c}
    /\ UNCHANGED <<avail, kicked, lastFence, enabled, busy, onFrame, gpuVars>>
    /\ UNCHANGED <<lost, inherited, unrefShown>>

-----------------------------------------------------------------------------
Serve(c) ==
    \/ Create2D(c) \/ Unref(c) \/ Backing(c)
    \/ SetScanout(c) \/ TransferOrFlush(c)
    \/ GetDisplayInfo(c) \/ Malformed(c) \/ Unreadable(c)
Loop == LoopEnds \/ \E c \in Chain : LoopThrows(c) \/ Serve(c)
Next ==
    \/ OnQueueNotify \/ Loop
    \/ Reset \/ Setup \/ Reap \/ \E c \in Chain, r \in Request : Offer(c, r)
Spec == Init /\ [][Next]_vars

(* The handler runs to its end; the driver writes its notify and reaps.     *)
FairSpec == Spec /\ WF_vars(OnQueueNotify) /\ WF_vars(Loop) /\ WF_vars(Reap)

-----------------------------------------------------------------------------
Elements(s) == {s[i] : i \in DOMAIN s}

(* The scanout never names a resource that is not there: a lookup guards    *)
(* SET_SCANOUT, and a reset forgets both.  The exception is a resource that *)
(* the driver unreferences while it is shown: nothing takes it off the      *)
(* scanout, and its id can be given to a new resource ("never reused while  *)
(* referenced", plan.md:418).                                               *)
ShownExists == ~unrefShown => scanout \subseteq resources \cup {0}

(* A completed fence tells the truth: the command that carries it was done, *)
(* and a command that was refused for its resource has not completed its    *)
(* fence.  A driver that counts its fences up is refused for their order    *)
(* only because the device remembers fences from before a reset.            *)
FenceHonest ==
    \A c \in Elements(used) :
        request[c].op \in Fenced /\ request[c].fence > inherited =>
            /\ response[c] # "PARAMETER"
            /\ response[c] = "OK" => request[c].fence <= completedFence
            /\ response[c] # "OK" => completedFence # request[c].fence

(* A frame goes to onFrame exactly for the flushes that are answered OK, so *)
(* never for one whose fence was refused ("A frame is presented only after  *)
(* its fence or explicit completion is observed", plan.md:170).  An OK      *)
(* promises the driver no more: the device may have no onFrame (the default *)
(* one has none), and one that throws is not heard (virtio_gpu.js:128-130). *)
FramesAnswered ==
    \A c \in Elements(used) :
        c \in framed \cup frameThrew <=>
            onFrame /\ request[c].op = "FLUSH" /\ response[c] = "OK"

(* A chain left behind by a loop that threw: the doorbell that would bring  *)
(* it back is rung for the next chain offered, if there is one.             *)
Stranded(c) == c \in Elements(avail) /\ lost # {} /\ ~kicked /\ ~busy

(* Every command comes back, refused ones too, or waits behind a chain that *)
(* popDescriptorChain throws on, which only a reset removes.  An overlong   *)
(* chain is lost, and those behind it wait for another doorbell             *)
(* (virtio_gpu.js:165-166, 221).                                           *)
EveryCommandReturns ==
    \A c \in Chain :
        c \notin free
            ~> \/ c \in free \cup lost \/ Stranded(c)
               \/ \E b \in Elements(avail) : request[b].op = "THROWS"

=============================================================================
