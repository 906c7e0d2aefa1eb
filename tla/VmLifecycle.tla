----------------------------- MODULE VmLifecycle -----------------------------
(***************************************************************************)
(* The VM lifecycle: VmRuntime on the main thread (src/vm/vm_runtime.js)   *)
(* and VmWorkerCore in its worker (src/vm/vm_worker.js), joined by two     *)
(* FIFO message channels.                                                  *)
(*                                                                         *)
(* The host changes its own state optimistically when it SENDS a command,  *)
(* and again whenever a state event of the worker ARRIVES, so the two      *)
(* state machines run apart while messages are in flight.  The worker is   *)
(* never asked whether it obeyed; only the watchdog watches it.            *)
(*                                                                         *)
(* The worker is a real Worker, whose queued messages die with it, or,     *)
(* where none can be had, the core that initInProcessWorker runs on the    *)
(* host's event loop and whose posted events survive terminate().          *)
(***************************************************************************)
EXTENDS Naturals, Sequences

CONSTANTS
    WorkerKind,  \* the kinds of worker that create() may end up with
    AllowStub,   \* options.allowStub
    MaxCmd,      \* bound: commands in flight
    MaxEvt,      \* bound: events in flight
    MaxAttach    \* bound: attachV86({bundleUrl}) calls

ASSUME ModeAssumption  == WorkerKind \subseteq {"core", "worker"} /\ AllowStub \in BOOLEAN
ASSUME BoundAssumption == MaxCmd \in Nat /\ MaxEvt \in Nat /\ MaxAttach \in Nat

VmState == {"UNINITIALIZED", "READY", "CONFIGURED", "RUNNING", "PAUSED",
            "ERROR", "DESTROYED"}
AttachId == 1..MaxAttach

VARIABLES
    vmState,      \* VmRuntime.state
    createWait,   \* create() awaits its CMD_INIT ack or the 50 ms timer
    workerRef,    \* VmRuntime.worker: none, the in-process core, a real Worker
    v86Attached,  \* VmRuntime.v86Attached
    attachCalls,  \* number of attachV86 calls made so far
    attachWait,   \* attachV86 calls that still await their ack
    wdActive,     \* watchdog.isActive
    wdTimer,      \* watchdog.timerId # null
    wAlive,       \* the worker exists and was not terminated
    wState,       \* VmWorkerCore.state
    regs,         \* CPU registers: as constructed, or set by CMD_LOAD_BOOT
    isRunning,
    isPaused,
    timers,       \* pending runQuantum timeouts
    executed,     \* instructionsExecuted > 0
    wV86,         \* VmWorkerCore.v86 holds a backend
    loading,      \* CMD_ATTACH_V86 imports in progress
    cmd,          \* messages to the worker
    evt           \* messages to the host

hostVars   == <<vmState, createWait, workerRef>>
attachVars == <<v86Attached, attachCalls, attachWait>>
wdVars     == <<wdActive, wdTimer>>
runVars    == <<isRunning, isPaused, timers, executed>>
workerVars == <<wAlive, wState, regs, runVars, wV86, loading>>
vars == <<hostVars, attachVars, wdVars, workerVars, cmd, evt>>

Cmd == [type : {"INIT", "LOAD_BOOT", "START", "PAUSE", "RESUME", "RESET", "REGISTER"}]
       \cup [type : {"ATTACH"}, id : AttachId]
Evt == [type : {"STATE"}, state : VmState] \cup [type : {"READY", "ERROR"}]
       \cup [type : {"ATTACHED"}, id : AttachId]

TypeOK ==
    /\ vmState \in VmState /\ wState \in VmState
    /\ createWait \in BOOLEAN /\ workerRef \in {"null"} \cup WorkerKind /\ v86Attached \in BOOLEAN
    /\ attachCalls \in 0..MaxAttach /\ attachWait \subseteq AttachId
    /\ wdActive \in BOOLEAN /\ wdTimer \in BOOLEAN
    /\ wAlive \in BOOLEAN /\ regs \in {"initial", "boot"}
    /\ isRunning \in BOOLEAN /\ isPaused \in BOOLEAN /\ timers \in Nat /\ executed \in BOOLEAN
    /\ wV86 \in BOOLEAN /\ loading \subseteq AttachId
    /\ cmd \in Seq(Cmd) /\ evt \in Seq(Evt)

Init ==
    /\ vmState = "UNINITIALIZED" /\ createWait = FALSE /\ workerRef = "null"
    /\ v86Attached = FALSE /\ attachCalls = 0 /\ attachWait = {}
    /\ wdActive = FALSE /\ wdTimer = FALSE
    /\ wAlive = FALSE /\ wState = "UNINITIALIZED" /\ regs = "initial"
    /\ isRunning = FALSE /\ isPaused = FALSE /\ timers = 0 /\ executed = FALSE
    /\ wV86 = FALSE /\ loading = {}
    /\ cmd = <<>> /\ evt = <<>>

-----------------------------------------------------------------------------
(* Messages and the watchdog.                                              *)

(* sendWorkerMessage: lost when there is no worker or it was terminated.   *)
Send(m) ==
    /\ Len(cmd) < MaxCmd
    /\ cmd' = IF workerRef # "null" /\ wAlive THEN Append(cmd, m) ELSE cmd

StateEvt(s) == [type |-> "STATE", state |-> s]
Post(ms) ==
    /\ Len(evt) + Len(ms) <= MaxEvt
    /\ evt' = evt \o ms

WatchdogStart  == wdActive' = TRUE /\ wdTimer' = TRUE
WatchdogStop   == wdActive' = FALSE /\ wdTimer' = FALSE
WatchdogPause  == wdActive' = FALSE /\ UNCHANGED wdTimer
WatchdogResume == wdActive' = TRUE /\ UNCHANGED wdTimer

(* worker.terminate(): the in-process core goes DESTROYED and ignores what *)
(* is still queued for it, but its own events and imports are timers and   *)
(* promises of the host; a real Worker takes both queues and its backend    *)
(* with it, and nobody tells v86Attached.                                   *)
Terminate ==
    /\ wAlive' = FALSE /\ wState' = "DESTROYED"
    /\ isRunning' = FALSE /\ isPaused' = FALSE /\ timers' = 0
    /\ cmd' = <<>>
    /\ evt' = IF workerRef = "core" THEN evt ELSE <<>>
    /\ loading' = IF workerRef = "core" THEN loading ELSE {}
    /\ wV86' = (workerRef = "core" /\ wV86)
    /\ UNCHANGED <<regs, executed>>

-----------------------------------------------------------------------------
(* Calls on VmRuntime.  A call that throws or returns early changes nothing *)
(* and is not a step.                                                       *)

Create ==
    /\ vmState = "UNINITIALIZED" /\ workerRef = "null"
    /\ createWait' = TRUE /\ workerRef' \in WorkerKind /\ wAlive' = TRUE
    /\ cmd' = <<[type |-> "INIT"]>>
    /\ UNCHANGED <<vmState, attachVars, wdVars, wState, regs, runVars, wV86, loading, evt>>

(* The continuation of create(), whatever happened while it waited.        *)
CreateReturns == createWait' = FALSE /\ vmState' = "READY"

CreateTimer ==
    /\ createWait
    /\ CreateReturns
    /\ UNCHANGED <<workerRef, attachVars, wdVars, workerVars, cmd, evt>>

LoadBoot ==
    /\ vmState \in {"READY", "CONFIGURED"}
    /\ Send([type |-> "LOAD_BOOT"])
    /\ vmState' = "CONFIGURED"
    /\ UNCHANGED <<createWait, workerRef, attachVars, wdVars, workerVars, evt>>

\* Mutant: start() is accepted before loadBoot().
StartUnbooted ==
    /\ vmState \in {"READY", "CONFIGURED", "PAUSED"}
    /\ v86Attached \/ AllowStub
    /\ Send([type |-> "START"])
    /\ WatchdogStart
    /\ vmState' = "RUNNING"
    /\ UNCHANGED <<createWait, workerRef, attachVars, workerVars, evt>>

Start ==
    /\ vmState \in {"CONFIGURED", "PAUSED"}
    /\ v86Attached \/ AllowStub
    /\ Send([type |-> "START"])
    /\ WatchdogStart
    /\ vmState' = "RUNNING"
    /\ UNCHANGED <<createWait, workerRef, attachVars, workerVars, evt>>

Pause ==
    /\ vmState = "RUNNING"
    /\ Send([type |-> "PAUSE"])
    /\ WatchdogPause
    /\ vmState' = "PAUSED"
    /\ UNCHANGED <<createWait, workerRef, attachVars, workerVars, evt>>

\* Mutant: the watchdog stays paused when the VM resumes.
ResumeUnwatched ==
    /\ vmState = "PAUSED"
    /\ Send([type |-> "RESUME"])
    /\ vmState' = "RUNNING"
    /\ UNCHANGED <<createWait, workerRef, attachVars, wdVars, workerVars, evt>>

Resume ==
    /\ vmState = "PAUSED"
    /\ Send([type |-> "RESUME"])
    /\ WatchdogResume
    /\ vmState' = "RUNNING"
    /\ UNCHANGED <<createWait, workerRef, attachVars, workerVars, evt>>

Reset ==
    /\ vmState # "DESTROYED"
    /\ WatchdogStop
    /\ Send([type |-> "RESET"])
    /\ vmState' = "READY"
    /\ UNCHANGED <<createWait, workerRef, attachVars, workerVars, evt>>

(* CMD_DESTROY is posted and overtaken by terminate() in the same call.    *)
Destroy ==
    /\ WatchdogStop
    /\ vmState' = "DESTROYED" /\ workerRef' = "null"
    /\ IF workerRef # "null" THEN Terminate ELSE UNCHANGED <<workerVars, cmd, evt>>
    /\ UNCHANGED <<createWait, attachVars>>

(* attachV86({bundleUrl}) up to its await, and its timeout.                *)
AttachV86 ==
    /\ vmState # "DESTROYED" /\ attachCalls < MaxAttach
    /\ Send([type |-> "ATTACH", id |-> attachCalls + 1])
    /\ attachCalls' = attachCalls + 1
    /\ attachWait' = attachWait \cup {attachCalls + 1}
    /\ UNCHANGED <<hostVars, v86Attached, wdVars, workerVars, evt>>

\* Mutant: a timed-out attach is taken for an attached one.
AttachTimeoutAttached(i) ==
    /\ i \in attachWait
    /\ attachWait' = attachWait \ {i}
    /\ v86Attached' = TRUE
    /\ UNCHANGED <<hostVars, attachCalls, wdVars, workerVars, cmd, evt>>

AttachTimeout(i) ==
    /\ i \in attachWait
    /\ attachWait' = attachWait \ {i}
    /\ UNCHANGED <<hostVars, v86Attached, attachCalls, wdVars, workerVars, cmd, evt>>

(* attachV86(backend object), in process only: attached at once.           *)
AttachBackend ==
    /\ workerRef = "core" /\ vmState # "DESTROYED"
    /\ v86Attached' = TRUE /\ wV86' = TRUE
    /\ UNCHANGED <<hostVars, attachCalls, attachWait, wdVars, wAlive, wState, regs,
                   runVars, loading, cmd, evt>>

(* attachDevice on a real worker; in process it registers synchronously.   *)
AttachDevice ==
    /\ workerRef = "worker" /\ vmState \notin {"DESTROYED", "UNINITIALIZED"}
    /\ Send([type |-> "REGISTER"])
    /\ UNCHANGED <<hostVars, attachVars, wdVars, workerVars, evt>>

(* The watchdog found no pong for timeoutMs: the worker is dead, hung or slow. *)
WatchdogTimeout ==
    /\ wdActive /\ wdTimer
    /\ WatchdogStop
    /\ vmState' = "ERROR"
    /\ IF workerRef # "null" THEN Terminate ELSE UNCHANGED <<workerVars, cmd, evt>>
    /\ UNCHANGED <<createWait, workerRef, attachVars>>

(* handleWorkerMessage.                                                    *)
RecvState ==
    /\ Head(evt).type = "STATE"
    /\ vmState' = IF vmState = "ERROR" THEN vmState ELSE Head(evt).state
    /\ UNCHANGED <<createWait, attachVars, wdVars>>

RecvReady ==
    /\ Head(evt).type = "READY"
    /\ IF createWait THEN CreateReturns ELSE UNCHANGED <<createWait, vmState>>
    /\ UNCHANGED <<attachVars, wdVars>>

RecvAttached ==
    /\ Head(evt).type = "ATTACHED"
    /\ v86Attached' = (v86Attached \/ Head(evt).id \in attachWait)
    /\ attachWait' = attachWait \ {Head(evt).id}
    /\ UNCHANGED <<vmState, createWait, attachCalls, wdVars>>

RecvError ==
    /\ Head(evt).type = "ERROR"
    /\ WatchdogStop
    /\ vmState' = "ERROR"
    /\ UNCHANGED <<createWait, attachVars>>

HostRecv ==
    /\ evt # <<>>
    /\ evt' = Tail(evt)
    /\ RecvState \/ RecvReady \/ RecvAttached \/ RecvError
    /\ UNCHANGED <<workerRef, workerVars, cmd>>

-----------------------------------------------------------------------------
(* VmWorkerCore: handleMessage.                                            *)

CmdInit ==
    /\ Head(cmd).type = "INIT"
    /\ wState' = "READY"
    /\ Post(<<StateEvt("READY"), [type |-> "READY"]>>)
    /\ UNCHANGED <<regs, runVars, loading>>

CmdLoadBoot ==
    /\ Head(cmd).type = "LOAD_BOOT"
    /\ regs' = "boot"
    /\ wState' = "CONFIGURED"
    /\ Post(<<StateEvt("CONFIGURED")>>)
    /\ UNCHANGED <<runVars, loading>>

StartRefused == ~AllowStub /\ ~wV86

StartRuns ==
    /\ isRunning' = TRUE /\ isPaused' = FALSE
    /\ wState' = "RUNNING"
    /\ Post(<<StateEvt("RUNNING")>>)
    /\ timers' = timers + 1
    /\ UNCHANGED executed

\* Mutant: a second start schedules a second chain of quanta.
CmdStartAgain ==
    /\ Head(cmd).type = "START"
    /\ IF StartRefused
       THEN Post(<<[type |-> "ERROR"]>>) /\ UNCHANGED <<wState, runVars>>
       ELSE StartRuns
    /\ UNCHANGED <<regs, loading>>

CmdStart ==
    /\ Head(cmd).type = "START"
    /\ IF StartRefused
       THEN Post(<<[type |-> "ERROR"]>>) /\ UNCHANGED <<wState, runVars>>
       ELSE IF isRunning THEN UNCHANGED <<wState, runVars, evt>>
       ELSE StartRuns
    /\ UNCHANGED <<regs, loading>>

\* Mutant: the pause is announced but the pending quantum is left to run on.
CmdPauseKeepsRunning ==
    /\ Head(cmd).type = "PAUSE"
    /\ IF isRunning /\ ~isPaused
       THEN wState' = "PAUSED" /\ Post(<<StateEvt("PAUSED")>>)
       ELSE UNCHANGED <<wState, evt>>
    /\ UNCHANGED <<regs, runVars, loading>>

CmdPause ==
    /\ Head(cmd).type = "PAUSE"
    /\ IF isRunning /\ ~isPaused
       THEN /\ isPaused' = TRUE /\ timers' = 0
            /\ wState' = "PAUSED"
            /\ Post(<<StateEvt("PAUSED")>>)
       ELSE UNCHANGED <<isPaused, timers, wState, evt>>
    /\ UNCHANGED <<regs, isRunning, executed, loading>>

CmdResume ==
    /\ Head(cmd).type = "RESUME"
    /\ IF isRunning /\ isPaused
       THEN /\ isPaused' = FALSE /\ timers' = timers + 1
            /\ wState' = "RUNNING"
            /\ Post(<<StateEvt("RUNNING")>>)
       ELSE UNCHANGED <<isPaused, timers, wState, evt>>
    /\ UNCHANGED <<regs, isRunning, executed, loading>>

\* Mutant: the host is not told that the reset happened, and the CPU runs on.
CmdResetSilent ==
    /\ Head(cmd).type = "RESET"
    /\ executed' = FALSE
    /\ UNCHANGED <<regs, wState, isRunning, isPaused, timers, loading, evt>>

(* cmdReset: stops the CPU and resets the devices; registers keep their values. *)
CmdReset ==
    /\ Head(cmd).type = "RESET"
    /\ isRunning' = FALSE /\ isPaused' = FALSE /\ timers' = 0 /\ executed' = FALSE
    /\ wState' = "READY"
    /\ Post(<<StateEvt("READY")>>)
    /\ UNCHANGED <<regs, loading>>

CmdAttachV86 ==
    /\ Head(cmd).type = "ATTACH"
    /\ loading' = loading \cup {Head(cmd).id}
    /\ UNCHANGED <<wState, regs, runVars, evt>>

CmdRegisterDevice ==
    /\ Head(cmd).type = "REGISTER"
    /\ \/ UNCHANGED evt
       \/ Post(<<[type |-> "ERROR"]>>)
    /\ UNCHANGED <<wState, regs, runVars, loading>>

WorkerRecv ==
    /\ wAlive /\ cmd # <<>>
    /\ cmd' = Tail(cmd)
    /\ \/ CmdInit \/ CmdLoadBoot \/ CmdStart \/ CmdPause \/ CmdResume
       \/ CmdReset \/ CmdAttachV86 \/ CmdRegisterDevice
    /\ UNCHANGED <<hostVars, attachVars, wdVars, wAlive, wV86>>

(* The import of CMD_ATTACH_V86 settles: backend attached, or an error.    *)
AttachLoaded(i) ==
    /\ i \in loading
    /\ loading' = loading \ {i}
    /\ wV86' = TRUE
    /\ Post(<<[type |-> "ATTACHED", id |-> i]>>)
    /\ UNCHANGED <<hostVars, attachVars, wdVars, wAlive, wState, regs, runVars, cmd>>

AttachFailed(i) ==
    /\ i \in loading
    /\ loading' = loading \ {i}
    /\ Post(<<[type |-> "ERROR"]>>)
    /\ UNCHANGED <<hostVars, attachVars, wdVars, wAlive, wState, regs, runVars, wV86, cmd>>

(* A quantum timeout fires.  It runs the CPU and schedules the next one,   *)
(* or the CPU faults (handleCpuFault).                                     *)
QuantumRuns == timers > 0 /\ isRunning /\ ~isPaused

RunQuantum ==
    /\ wAlive /\ timers > 0
    /\ IF QuantumRuns THEN executed' = TRUE /\ UNCHANGED timers
       ELSE timers' = timers - 1 /\ UNCHANGED executed
    /\ UNCHANGED <<hostVars, attachVars, wdVars, wAlive, wState, regs, isRunning,
                   isPaused, wV86, loading, cmd, evt>>

CpuFault ==
    /\ wAlive /\ QuantumRuns
    /\ timers' = timers - 1
    /\ isRunning' = FALSE /\ wState' = "ERROR"
    /\ Post(<<[type |-> "ERROR"]>>)
    /\ UNCHANGED <<hostVars, attachVars, wdVars, wAlive, regs, isPaused, executed, wV86, loading, cmd>>

-----------------------------------------------------------------------------
Calls == \/ Create \/ LoadBoot \/ Pause \/ Resume \/ Reset \/ Destroy
         \/ AttachV86 \/ AttachBackend \/ AttachDevice
System == \/ CreateTimer \/ WatchdogTimeout \/ HostRecv \/ WorkerRecv
          \/ RunQuantum \/ CpuFault
          \/ \E i \in AttachId : AttachTimeout(i) \/ AttachLoaded(i) \/ AttachFailed(i)

Next == Calls \/ Start \/ System
Spec == Init /\ [][Next]_vars

(* No message is on its way in either direction and create() has returned. *)
Settled == cmd = <<>> /\ evt = <<>> /\ ~createWait /\ wAlive

(* Careful callers wait for the worker's answer before the next call        *)
(* (destroy() excepted) and leave PAUSED with resume() only.  Faults, failed *)
(* attachments and the watchdog still strike at any time.                   *)
Quiet == Settled \/ workerRef = "null"
NextQuiet == \/ Quiet /\ Calls
             \/ Quiet /\ vmState = "CONFIGURED" /\ Start
             \/ Destroy
             \/ System

-----------------------------------------------------------------------------
(* Exactly one quantum timeout is pending while the CPU runs and none while *)
(* it is paused or stopped, over every order of start, pause, resume, reset *)
(* and fault: no second chain, no quantum after a pause                     *)
(* (vm_worker.js:258-310, 467-470, 544-552).                                *)
OneQuantumChain == timers = IF isRunning /\ ~isPaused THEN 1 ELSE 0

(* Once messages have settled, a VM the host calls RUNNING is watched, so a *)
(* hang is noticed: pause, resume, reset and late state events cannot leave *)
(* it running with the watchdog off (vm_runtime.js:447-501, 233-237).       *)
RunningIsWatched == Settled /\ vmState = "RUNNING" => wdActive /\ wdTimer

(* Once messages have settled, a VM the host calls PAUSED executes nothing, *)
(* whatever commands crossed on the way.                                    *)
PausedSettled == Settled /\ vmState = "PAUSED" => ~QuantumRuns

(* The CPU never runs before CMD_LOAD_BOOT has set its registers, although  *)
(* the host checks its own state and not the worker's.                      *)
ExecutesBooted == isRunning => regs = "boot"

(* The host believes in an attached backend only if the worker has one, so  *)
(* a start() the host lets through is never run by the stub, and late acks, *)
(* timeouts and failed imports do not change that (vm_runtime.js:425-436).  *)
(* The exception is a worker that was terminated, by destroy() or by the     *)
(* watchdog: the belief outlives it, and after reset() and loadBoot() a      *)
(* start() is let through to nobody (vm_runtime.js:272-282, 506-514).        *)
AttachTruthful == v86Attached => wV86 \/ ~wAlive

(* For careful callers the two state machines agree when messages settle,   *)
(* unless the host holds the VM for failed ...                              *)
Agreement == Settled => vmState \in {wState, "ERROR"}

(* ... and a RUNNING VM executes.                                           *)
RunningMeansRunning == Settled /\ vmState = "RUNNING" => QuantumRuns

(* A destroyed VM stays destroyed: "must reject, state stays DESTROYED"     *)
(* (m1_stress_challenge_test.mjs:486).                                      *)
DestroyedTerminal == [][vmState = "DESTROYED" => vmState' = "DESTROYED"]_vars

=============================================================================
