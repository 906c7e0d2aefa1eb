--------------------------- MODULE VmLifecycleProofs ---------------------------
(* The VM lifecycle for every kind of worker, any number of attachments and   *)
(* channels of any length.                                                   *)
EXTENDS MCVmLifecycle, SequenceTheorems, TLAPS

Within(q) == {q[i] : i \in DOMAIN q}

Loads(q) == \E m \in Within(q) : m.type = "LOAD_BOOT"

(* No start overtakes the boot that goes before it.                           *)
StartsAfterBoot(q, booted) ==
    \A i \in DOMAIN q : q[i].type = "START" =>
        booted \/ \E j \in 1..(i - 1) : q[j].type = "LOAD_BOOT"

Booted == {"CONFIGURED", "RUNNING", "PAUSED"}

(* A host that believes its VM booted has sent the registers, ...             *)
HostBooted == wAlive /\ vmState \in Booted => regs = "boot" \/ Loads(cmd)

(* ... its start commands follow them, ...                                    *)
StartsBooted == StartsAfterBoot(cmd, regs = "boot")

(* ... and the worker tells of a booted state only when it is in one.         *)
EventsBooted ==
    \A m \in Within(evt) : m.type = "STATE" /\ m.state \in Booted => regs = "boot"

(* A backend that was attached is still there, or its worker is not.          *)
Kept == wV86 \/ ~wAlive

(* An acknowledged attachment is one.                                         *)
EventsAttached == \A m \in Within(evt) : m.type = "ATTACHED" => Kept

(* Nothing is attached to a VM that was never created.                        *)
NoneAttached == workerRef = "null" /\ vmState = "UNINITIALIZED" => ~v86Attached

(* A worker that lives is one the host can send to.                           *)
WorkerKept == wAlive => workerRef # "null"

Boots    == ExecutesBooted /\ HostBooted /\ StartsBooted /\ EventsBooted /\ WorkerKept
Attaches == AttachTruthful /\ EventsAttached /\ NoneAttached

(* The type invariant in three parts.                                         *)
HostTypes ==
    /\ vmState \in VmState /\ createWait \in BOOLEAN /\ workerRef \in {"null"} \cup WorkerKind
    /\ v86Attached \in BOOLEAN /\ attachCalls \in 0..MaxAttach /\ attachWait \subseteq AttachId
    /\ wdActive \in BOOLEAN /\ wdTimer \in BOOLEAN
WorkerTypes ==
    /\ wAlive \in BOOLEAN /\ wState \in VmState /\ regs \in {"initial", "boot"}
    /\ isRunning \in BOOLEAN /\ isPaused \in BOOLEAN /\ timers \in Nat /\ executed \in BOOLEAN
    /\ wV86 \in BOOLEAN /\ loading \subseteq AttachId
Channels == cmd \in Seq(Cmd) /\ evt \in Seq(Evt)
Types == HostTypes /\ WorkerTypes /\ Channels

-----------------------------------------------------------------------------
(* Channels.                                                                 *)

LEMMA Extended ==
    ASSUME NEW S, NEW q \in Seq(S), NEW r \in Seq(S)
    PROVE  q \o r \in Seq(S) /\ Within(q \o r) \subseteq Within(q) \cup Within(r)
<1>1. q \o r \in Seq(S) /\ Len(q \o r) = Len(q) + Len(r)
      /\ \A i \in 1..(Len(q) + Len(r)) :
            (q \o r)[i] = IF i <= Len(q) THEN q[i] ELSE r[i - Len(q)]
  BY ConcatProperties
<1>2. Len(q) \in Nat /\ Len(r) \in Nat /\ DOMAIN q = 1..Len(q) /\ DOMAIN r = 1..Len(r)
      /\ DOMAIN (q \o r) = 1..(Len(q) + Len(r))
  BY <1>1, LenProperties
<1>3. ASSUME NEW i \in 1..(Len(q) + Len(r))
      PROVE  (q \o r)[i] \in Within(q) \cup Within(r)
  <2>1. CASE i <= Len(q)
    BY <1>1, <1>2, <2>1 DEF Within
  <2>2. CASE i > Len(q)
    <3>1. (q \o r)[i] = r[i - Len(q)] /\ i - Len(q) \in 1..Len(r)
      BY <1>1, <1>2, <2>2
    <3>2. QED BY <1>2, <3>1 DEF Within
  <2>3. QED BY <1>2, <2>1, <2>2
<1>4. QED BY <1>1, <1>2, <1>3 DEF Within

LEMMA Received ==
    ASSUME NEW S, NEW q \in Seq(S), q # <<>>
    PROVE  /\ Tail(q) \in Seq(S) /\ Within(Tail(q)) \subseteq Within(q)
           /\ Head(q) \in S /\ Head(q) \in Within(q)
           /\ Len(q) \in Nat \ {0} /\ DOMAIN q = 1..Len(q) /\ DOMAIN Tail(q) = 1..(Len(q) - 1)
           /\ Head(q) = q[1]
           /\ \A i \in 1..(Len(q) - 1) : Tail(q)[i] = q[i + 1]
<1>1. Tail(q) \in Seq(S) /\ Head(q) \in S /\ Head(q) = q[1]
      /\ Len(q) \in Nat \ {0} /\ DOMAIN q = 1..Len(q) /\ DOMAIN Tail(q) = 1..(Len(q) - 1)
      /\ \A i \in 1..(Len(q) - 1) : Tail(q)[i] = q[i + 1]
  BY HeadTailProperties, LenProperties, EmptySeq
<1>2. Head(q) \in Within(q)
  BY <1>1 DEF Within
<1>3. \A i \in 1..(Len(q) - 1) : i + 1 \in 1..Len(q)
  BY <1>1
<1>4. Within(Tail(q)) \subseteq Within(q)
  BY <1>1, <1>3 DEF Within
<1>5. QED BY <1>1, <1>2, <1>4

LEMMA Sent ==
    ASSUME NEW S, NEW q \in Seq(S), NEW m \in S
    PROVE  /\ Append(q, m) \in Seq(S) /\ Within(Append(q, m)) = Within(q) \cup {m}
           /\ DOMAIN q = 1..Len(q) /\ Len(q) \in Nat
           /\ DOMAIN Append(q, m) = 1..(Len(q) + 1)
           /\ \A i \in 1..Len(q) : Append(q, m)[i] = q[i]
           /\ Append(q, m)[Len(q) + 1] = m
<1>1. /\ Append(q, m) \in Seq(S)
      /\ DOMAIN q = 1..Len(q) /\ Len(q) \in Nat
      /\ DOMAIN Append(q, m) = 1..(Len(q) + 1)
      /\ \A i \in 1..Len(q) : Append(q, m)[i] = q[i]
      /\ Append(q, m)[Len(q) + 1] = m
  BY AppendProperties, LenProperties
<1>2. 1..(Len(q) + 1) = 1..Len(q) \cup {Len(q) + 1}
  BY <1>1
<1>3. QED BY <1>1, <1>2 DEF Within

(* What a sent command does to the order of starts ...                        *)
LEMMA SentInOrder ==
    ASSUME NEW S, NEW q \in Seq(S), NEW m \in S, NEW booted \in BOOLEAN,
           StartsAfterBoot(q, booted), m.type = "START" => booted \/ Loads(q)
    PROVE  StartsAfterBoot(Append(q, m), booted)
<1>1. /\ DOMAIN q = 1..Len(q) /\ Len(q) \in Nat
      /\ DOMAIN Append(q, m) = 1..(Len(q) + 1)
      /\ \A i \in 1..Len(q) : Append(q, m)[i] = q[i]
      /\ Append(q, m)[Len(q) + 1] = m
  BY Sent
<1>2. ASSUME NEW i \in 1..(Len(q) + 1), Append(q, m)[i].type = "START", ~booted
      PROVE  \E j \in 1..(i - 1) : Append(q, m)[j].type = "LOAD_BOOT"
  <2>1. CASE i = Len(q) + 1
    <3>1. PICK j \in 1..Len(q) : q[j].type = "LOAD_BOOT"
      BY <1>1, <1>2, <2>1 DEF Loads, Within
    <3>2. QED BY <1>1, <2>1, <3>1
  <2>2. CASE i \in 1..Len(q)
    <3>1. PICK j \in 1..(i - 1) : q[j].type = "LOAD_BOOT"
      BY <1>1, <1>2, <2>2 DEF StartsAfterBoot
    <3>2. QED BY <1>1, <2>2, <3>1
  <2>3. QED BY <1>1, <2>1, <2>2
<1>3. QED BY <1>1, <1>2 DEF StartsAfterBoot

(* ... and what a handled one does.                                           *)
LEMMA ReceivedInOrder ==
    ASSUME NEW S, NEW q \in Seq(S), q # <<>>, NEW booted \in BOOLEAN, StartsAfterBoot(q, booted)
    PROVE  /\ Head(q).type = "START" => booted
           /\ StartsAfterBoot(Tail(q), booted \/ Head(q).type = "LOAD_BOOT")
           /\ Loads(q) => Loads(Tail(q)) \/ Head(q).type = "LOAD_BOOT"
<1>1. /\ Len(q) \in Nat \ {0} /\ DOMAIN q = 1..Len(q) /\ DOMAIN Tail(q) = 1..(Len(q) - 1)
      /\ Head(q) = q[1]
      /\ \A i \in 1..(Len(q) - 1) : Tail(q)[i] = q[i + 1]
  BY Received
<1>2. Head(q).type = "START" => booted
  BY <1>1 DEF StartsAfterBoot
<1>3. ASSUME NEW i \in 1..(Len(q) - 1), Tail(q)[i].type = "START", ~booted,
             Head(q).type # "LOAD_BOOT"
      PROVE  \E j \in 1..(i - 1) : Tail(q)[j].type = "LOAD_BOOT"
  <2>1. i + 1 \in 1..Len(q) /\ q[i + 1].type = "START"
    BY <1>1, <1>3
  <2>2. PICK j \in 1..((i + 1) - 1) : q[j].type = "LOAD_BOOT"
    BY <1>1, <1>3, <2>1 DEF StartsAfterBoot
  <2>3. j - 1 \in 1..(i - 1)
    BY <1>1, <1>3, <2>2
  <2>4. Tail(q)[j - 1] = q[j]
    BY <1>1, <2>3
  <2>5. QED BY <2>2, <2>3, <2>4
<1>4. ASSUME Loads(q), Head(q).type # "LOAD_BOOT"
      PROVE  Loads(Tail(q))
  <2>1. PICK j \in 1..Len(q) : q[j].type = "LOAD_BOOT"
    BY <1>1, <1>4 DEF Loads, Within
  <2>2. j - 1 \in 1..(Len(q) - 1)
    BY <1>1, <1>4, <2>1
  <2>3. Tail(q)[j - 1] = q[j]
    BY <1>1, <2>2
  <2>4. QED BY <1>1, <2>1, <2>2, <2>3 DEF Loads, Within
<1>5. QED BY <1>1, <1>2, <1>3, <1>4 DEF StartsAfterBoot

LEMMA MessageTypes ==
    /\ \A t \in {"INIT", "LOAD_BOOT", "START", "PAUSE", "RESUME", "RESET", "REGISTER"} :
          [type |-> t] \in Cmd
    /\ \A i \in AttachId : [type |-> "ATTACH", id |-> i] \in Cmd
    /\ \A st \in VmState : StateEvt(st) \in Evt
    /\ \A t \in {"READY", "ERROR"} : [type |-> t] \in Evt
    /\ \A i \in AttachId : [type |-> "ATTACHED", id |-> i] \in Evt
    /\ \A m \in Evt : m.type = "STATE" => m.state \in VmState
    /\ \A m \in Cmd : m.type = "ATTACH" => m.id \in AttachId
    /\ \A m \in Evt : m.type = "ATTACHED" => m.id \in AttachId
BY DEF Cmd, Evt, StateEvt

LEMMA OnePosted ==
    ASSUME evt \in Seq(Evt), NEW a \in Evt, Post(<<a>>)
    PROVE  evt' \in Seq(Evt) /\ Within(evt') \subseteq Within(evt) \cup {a}
<1>1. <<a>> \in Seq(Evt) /\ Within(<<a>>) = {a}
  BY DEF Within
<1>2. QED BY <1>1, Extended DEF Post

LEMMA TwoPosted ==
    ASSUME evt \in Seq(Evt), NEW a \in Evt, NEW b \in Evt, Post(<<a, b>>)
    PROVE  evt' \in Seq(Evt) /\ Within(evt') \subseteq Within(evt) \cup {a, b}
<1>1. <<a, b>> \in Seq(Evt) /\ Within(<<a, b>>) = {a, b}
  BY DEF Within
<1>2. QED BY <1>1, Extended DEF Post

-----------------------------------------------------------------------------
(* Types.                                                                    *)

(* The events of a step: an acknowledgement comes with a backend, and a booted *)
(* state with registers or from a CPU that runs.                              *)
Reported(m) ==
    \/ m.type \in {"READY", "ERROR"}
    \/ m.type = "ATTACHED" /\ wV86'
    \/ m.type = "STATE" /\ (m.state \in Booted => regs' = "boot" \/ isRunning')

LEMMA EventsOfStep ==
    ASSUME Types, Next
    PROVE  evt' \in Seq(Evt) /\ \A m \in Within(evt') \ Within(evt) : Reported(m)
<1> USE MessageTypes
<1>1. evt \in Seq(Evt) /\ loading \subseteq AttachId
  BY DEF Types, Channels, WorkerTypes
<1>2. CASE UNCHANGED evt
  BY <1>1, <1>2
<1>3. CASE evt' = <<>>
  BY <1>3 DEF Within
<1>4. CASE HostRecv
  BY <1>1, <1>4, Received DEF HostRecv
<1>5. CASE WorkerRecv
  <2>1. CASE CmdInit
    <3>1. Post(<<StateEvt("READY"), [type |-> "READY"]>>)
      BY <2>1 DEF CmdInit
    <3>2. StateEvt("READY") \in Evt /\ [type |-> "READY"] \in Evt
      BY DEF VmState
    <3>3. Reported(StateEvt("READY")) /\ Reported([type |-> "READY"])
      BY DEF Reported, StateEvt, Booted
    <3>4. evt' \in Seq(Evt)
          /\ Within(evt') \subseteq Within(evt) \cup {StateEvt("READY"), [type |-> "READY"]}
      BY <1>1, <3>1, <3>2, TwoPosted
    <3>5. QED BY <3>3, <3>4
  <2>2. CASE CmdLoadBoot
    <3>1. Post(<<StateEvt("CONFIGURED")>>) /\ regs' = "boot"
      BY <2>2 DEF CmdLoadBoot
    <3>2. StateEvt("CONFIGURED") \in Evt
      BY DEF VmState
    <3>3. QED BY <1>1, <3>1, <3>2, OnePosted DEF Reported, StateEvt
  <2>3. CASE CmdStart /\ StartRuns
    <3>1. Post(<<StateEvt("RUNNING")>>) /\ isRunning'
      BY <2>3 DEF StartRuns
    <3>2. StateEvt("RUNNING") \in Evt
      BY DEF VmState
    <3>3. QED BY <1>1, <3>1, <3>2, OnePosted DEF Reported, StateEvt
  <2>4. CASE Post(<<[type |-> "ERROR"]>>)
    <3>1. [type |-> "ERROR"] \in Evt
      OBVIOUS
    <3>2. QED BY <1>1, <2>4, <3>1, OnePosted DEF Reported
  <2>5. CASE CmdPause /\ evt' # evt
    <3>1. Post(<<StateEvt("PAUSED")>>) /\ isRunning'
      BY <2>5 DEF CmdPause
    <3>2. StateEvt("PAUSED") \in Evt
      BY DEF VmState
    <3>3. QED BY <1>1, <3>1, <3>2, OnePosted DEF Reported, StateEvt
  <2>6. CASE CmdResume /\ evt' # evt
    <3>1. Post(<<StateEvt("RUNNING")>>) /\ isRunning'
      BY <2>6 DEF CmdResume
    <3>2. StateEvt("RUNNING") \in Evt
      BY DEF VmState
    <3>3. QED BY <1>1, <3>1, <3>2, OnePosted DEF Reported, StateEvt
  <2>7. CASE CmdReset
    <3>1. Post(<<StateEvt("READY")>>)
      BY <2>7 DEF CmdReset
    <3>2. StateEvt("READY") \in Evt
      BY DEF VmState
    <3>3. QED BY <1>1, <3>1, <3>2, OnePosted DEF Reported, StateEvt, Booted
  <2>8. QED BY <1>2, <1>5, <2>1, <2>2, <2>3, <2>4, <2>5, <2>6, <2>7
       DEF WorkerRecv, CmdStart, CmdAttachV86, CmdRegisterDevice
<1>6. ASSUME NEW i \in AttachId, AttachLoaded(i)
      PROVE  evt' \in Seq(Evt) /\ \A m \in Within(evt') \ Within(evt) : Reported(m)
  <2>1. Post(<<[type |-> "ATTACHED", id |-> i]>>) /\ wV86'
    BY <1>6 DEF AttachLoaded
  <2>2. [type |-> "ATTACHED", id |-> i] \in Evt
    OBVIOUS
  <2>3. QED BY <1>1, <2>1, <2>2, OnePosted DEF Reported
<1>7. CASE Post(<<[type |-> "ERROR"]>>)
  <2>1. [type |-> "ERROR"] \in Evt
    OBVIOUS
  <2>2. QED BY <1>1, <1>7, <2>1, OnePosted DEF Reported
<1>8. CASE Calls \/ Start
  BY <1>2, <1>3, <1>8
  DEF Calls, Create, LoadBoot, Start, Pause, Resume, Reset, Destroy, Terminate, AttachV86,
      AttachBackend, AttachDevice, workerVars
<1>9. CASE System
  BY <1>2, <1>3, <1>4, <1>5, <1>6, <1>7, <1>9
  DEF System, CreateTimer, WatchdogTimeout, Terminate, RunQuantum, CpuFault, AttachTimeout,
      AttachFailed, workerVars
<1>10. QED BY <1>8, <1>9 DEF Next

LEMMA CommandsOfStep ==
    ASSUME Types, Next
    PROVE  cmd' \in Seq(Cmd)
<1> USE MessageTypes
<1>1. cmd \in Seq(Cmd) /\ attachCalls \in 0..MaxAttach
  BY DEF Types, Channels, HostTypes
<1>2. ASSUME NEW m \in Cmd, Send(m)
      PROVE  cmd' \in Seq(Cmd)
  BY <1>1, <1>2, Sent DEF Send
<1>3. CASE AttachV86
  <2>1. attachCalls + 1 \in AttachId
    BY <1>1, <1>3, BoundAssumption DEF AttachV86, AttachId, BoundAssumption
  <2>2. QED BY <1>2, <1>3, <2>1 DEF AttachV86
<1>4. CASE Create
  <2>1. [type |-> "INIT"] \in Cmd
    OBVIOUS
  <2>2. QED BY <1>4, <2>1 DEF Create
<1>5. CASE cmd' = cmd \/ cmd' = <<>>
  BY <1>1, <1>5, EmptySeq
<1>6. CASE LoadBoot \/ Start \/ Pause \/ Resume \/ Reset \/ AttachDevice
  BY <1>2, <1>6 DEF LoadBoot, Start, Pause, Resume, Reset, AttachDevice
<1>7. CASE WorkerRecv
  BY <1>1, <1>7, Received DEF WorkerRecv
<1>8. CASE AttachBackend \/ Destroy \/ System
  BY <1>5, <1>7, <1>8
  DEF AttachBackend, Destroy, Terminate, System, CreateTimer, WatchdogTimeout, HostRecv,
      RunQuantum, CpuFault, AttachTimeout, AttachLoaded, AttachFailed
<1>9. QED BY <1>3, <1>4, <1>6, <1>8 DEF Next, Calls

LEMMA HostTypesOfStep ==
    ASSUME Types, Next
    PROVE  HostTypes'
<1> USE MessageTypes DEF Types
<1>1. CASE Calls \/ Start
  <2>1. CASE Create
    BY <1>1, <2>1 DEF HostTypes, Create, attachVars, wdVars
  <2>2. CASE AttachV86
    BY <2>2, BoundAssumption
    DEF HostTypes, AttachV86, hostVars, wdVars, AttachId, BoundAssumption
  <2>3. CASE LoadBoot \/ Start \/ Pause \/ Resume \/ Reset
    BY <2>3 DEF HostTypes, LoadBoot, Start, Pause, Resume, Reset, attachVars, wdVars, VmState,
                WatchdogStart, WatchdogPause, WatchdogResume, WatchdogStop
  <2>4. CASE Destroy \/ AttachBackend \/ AttachDevice
    BY <2>4 DEF HostTypes, Destroy, AttachBackend, AttachDevice, hostVars, attachVars, wdVars,
                VmState, WatchdogStop
  <2>5. QED BY <1>1, <2>1, <2>2, <2>3, <2>4 DEF Calls
<1>2. CASE HostRecv
  <2>1. Head(evt) \in Evt /\ workerRef' = workerRef
    BY <1>2, Received DEF HostRecv, Channels
  <2>2. CASE RecvState
    <3>1. Head(evt).state \in VmState
      BY <2>1, <2>2 DEF RecvState
    <3>2. QED BY <2>1, <2>2, <3>1 DEF HostTypes, RecvState, attachVars, wdVars
  <2>3. CASE RecvReady
    BY <2>1, <2>3 DEF HostTypes, RecvReady, CreateReturns, attachVars, wdVars, VmState
  <2>4. CASE RecvAttached
    BY <2>1, <2>4 DEF HostTypes, RecvAttached, wdVars
  <2>5. CASE RecvError
    BY <2>1, <2>5 DEF HostTypes, RecvError, WatchdogStop, attachVars, VmState
  <2>6. QED BY <1>2, <2>2, <2>3, <2>4, <2>5 DEF HostRecv
<1>3. CASE CreateTimer \/ WatchdogTimeout
  BY <1>3 DEF HostTypes, CreateTimer, CreateReturns, WatchdogTimeout, WatchdogStop, attachVars,
              wdVars, VmState
<1>4. CASE WorkerRecv \/ RunQuantum \/ CpuFault
  BY <1>4 DEF HostTypes, WorkerRecv, RunQuantum, CpuFault, hostVars, attachVars, wdVars
<1>5. ASSUME NEW i \in AttachId, AttachTimeout(i) \/ AttachLoaded(i) \/ AttachFailed(i)
      PROVE  HostTypes'
  BY <1>5 DEF HostTypes, AttachTimeout, AttachLoaded, AttachFailed, hostVars, attachVars, wdVars
<1>6. QED BY <1>1, <1>2, <1>3, <1>4, <1>5 DEF Next, System

LEMMA WorkerTypesOfStep ==
    ASSUME Types, Next
    PROVE  WorkerTypes'
<1> USE MessageTypes DEF Types
<1>1. CASE UNCHANGED workerVars
  BY <1>1 DEF WorkerTypes, workerVars, runVars
<1>2. CASE Terminate
  BY <1>2 DEF WorkerTypes, Terminate, VmState
<1>3. CASE Create
  BY <1>3 DEF WorkerTypes, Create, runVars
<1>4. CASE AttachBackend
  BY <1>4 DEF WorkerTypes, AttachBackend, runVars
<1>5. CASE WorkerRecv
  <2>1. Head(cmd) \in Cmd /\ UNCHANGED <<wAlive, wV86>>
    BY <1>5, Received DEF WorkerRecv, Channels
  <2>2. CASE CmdInit \/ CmdLoadBoot
    BY <2>1, <2>2 DEF WorkerTypes, CmdInit, CmdLoadBoot, runVars, VmState
  <2>3. CASE CmdStart
    <3>1. timers' \in Nat
      BY <2>3 DEF WorkerTypes, CmdStart, StartRuns, runVars
    <3>2. isRunning' \in BOOLEAN /\ isPaused' \in BOOLEAN /\ UNCHANGED executed
      BY <2>3 DEF WorkerTypes, CmdStart, StartRuns, runVars
    <3>3. wState' \in VmState /\ UNCHANGED <<regs, loading>>
      BY <2>3 DEF WorkerTypes, CmdStart, StartRuns, VmState
    <3>4. QED BY <2>1, <3>1, <3>2, <3>3 DEF WorkerTypes
  <2>4. CASE CmdPause
    <3>1. timers' \in Nat
      BY <2>4 DEF WorkerTypes, CmdPause
    <3>2. isPaused' \in BOOLEAN /\ UNCHANGED <<isRunning, executed>>
      BY <2>4 DEF WorkerTypes, CmdPause
    <3>3. wState' \in VmState /\ UNCHANGED <<regs, loading>>
      BY <2>4 DEF WorkerTypes, CmdPause, VmState
    <3>4. QED BY <2>1, <3>1, <3>2, <3>3 DEF WorkerTypes
  <2>5. CASE CmdResume
    <3>1. timers' \in Nat
      BY <2>5 DEF WorkerTypes, CmdResume
    <3>2. isPaused' \in BOOLEAN /\ UNCHANGED <<isRunning, executed>>
      BY <2>5 DEF WorkerTypes, CmdResume
    <3>3. wState' \in VmState /\ UNCHANGED <<regs, loading>>
      BY <2>5 DEF WorkerTypes, CmdResume, VmState
    <3>4. QED BY <2>1, <3>1, <3>2, <3>3 DEF WorkerTypes
  <2>6. CASE CmdReset
    BY <2>1, <2>6 DEF WorkerTypes, CmdReset, VmState
  <2>7. CASE CmdAttachV86
    BY <2>1, <2>7 DEF WorkerTypes, CmdAttachV86, runVars
  <2>8. CASE CmdRegisterDevice
    BY <2>1, <2>8 DEF WorkerTypes, CmdRegisterDevice, runVars
  <2>9. QED BY <1>5, <2>2, <2>3, <2>4, <2>5, <2>6, <2>7, <2>8 DEF WorkerRecv
<1>6. CASE RunQuantum
  <2>1. timers' \in Nat
    BY <1>6 DEF WorkerTypes, RunQuantum
  <2>2. executed' \in BOOLEAN
    BY <1>6 DEF WorkerTypes, RunQuantum
  <2>3. UNCHANGED <<wAlive, wState, regs, isRunning, isPaused, wV86, loading>>
    BY <1>6 DEF RunQuantum
  <2>4. QED BY <2>1, <2>2, <2>3 DEF WorkerTypes
<1>7. CASE CpuFault
  <2>1. timers' \in Nat
    BY <1>7 DEF WorkerTypes, CpuFault, QuantumRuns
  <2>2. isRunning' = FALSE /\ wState' \in VmState
        /\ UNCHANGED <<wAlive, regs, isPaused, executed, wV86, loading>>
    BY <1>7 DEF CpuFault, VmState
  <2>3. QED BY <2>1, <2>2 DEF WorkerTypes
<1>8. ASSUME NEW i \in AttachId, AttachLoaded(i) \/ AttachFailed(i)
      PROVE  WorkerTypes'
  BY <1>8 DEF WorkerTypes, AttachLoaded, AttachFailed, runVars
<1>9. CASE Calls \/ Start
  BY <1>1, <1>2, <1>3, <1>4, <1>9
  DEF Calls, LoadBoot, Start, Pause, Resume, Reset, Destroy, AttachV86, AttachDevice
<1>10. CASE System
  BY <1>1, <1>2, <1>5, <1>6, <1>7, <1>8, <1>10
  DEF System, CreateTimer, WatchdogTimeout, HostRecv, AttachTimeout
<1>11. QED BY <1>9, <1>10 DEF Next

LEMMA TypesAlways == Spec => []Types
<1>1. Init => Types
  <2>1. Init => HostTypes
    <3>1. 0 \in 0..MaxAttach
      BY BoundAssumption DEF BoundAssumption
    <3>2. QED BY <3>1 DEF Init, HostTypes, VmState
  <2>2. Init => WorkerTypes
    <3>1. "UNINITIALIZED" \in VmState /\ 0 \in Nat
      BY DEF VmState
    <3>2. QED BY <3>1, Zenon DEF Init, WorkerTypes
  <2>3. Init => Channels
    BY EmptySeq DEF Init, Channels
  <2>4. QED BY <2>1, <2>2, <2>3 DEF Types
<1>2. Types /\ [Next]_vars => Types'
  <2> SUFFICES ASSUME Types, [Next]_vars PROVE Types'
    OBVIOUS
  <2>1. CASE Next
    BY <2>1, EventsOfStep, CommandsOfStep, HostTypesOfStep, WorkerTypesOfStep
    DEF Types, Channels
  <2>2. CASE UNCHANGED vars
    BY <2>2 DEF vars, hostVars, attachVars, wdVars, workerVars, runVars,
                Types, HostTypes, WorkerTypes, Channels
  <2>3. QED BY <2>1, <2>2
<1>3. QED BY <1>1, <1>2, PTL DEF Spec

-----------------------------------------------------------------------------
(* One chain of quanta.                                                      *)

LEMMA ChainOfStep == OneQuantumChain /\ [Next]_vars => OneQuantumChain'
<1> SUFFICES ASSUME OneQuantumChain, [Next]_vars PROVE OneQuantumChain'
  OBVIOUS
<1> USE DEF OneQuantumChain
<1>1. CASE UNCHANGED <<isRunning, isPaused, timers>>
  BY <1>1
<1>2. CASE Terminate
  BY <1>2 DEF Terminate
<1>3. CASE WorkerRecv
  <2>1. CASE CmdStart
    BY <2>1 DEF CmdStart, StartRuns, runVars
  <2>2. CASE CmdPause \/ CmdResume
    BY <2>2 DEF CmdPause, CmdResume
  <2>3. CASE CmdReset
    BY <2>3 DEF CmdReset
  <2>4. QED BY <1>1, <1>3, <2>1, <2>2, <2>3
       DEF WorkerRecv, CmdInit, CmdLoadBoot, CmdAttachV86, CmdRegisterDevice, runVars
<1>4. CASE RunQuantum
  BY <1>4 DEF RunQuantum, QuantumRuns
<1>5. CASE CpuFault
  BY <1>5 DEF CpuFault, QuantumRuns
<1>6. CASE Calls \/ Start
  BY <1>1, <1>2, <1>6
  DEF Calls, Create, LoadBoot, Start, Pause, Resume, Reset, Destroy, AttachV86, AttachBackend,
      AttachDevice, workerVars, runVars
<1>7. CASE System
  BY <1>1, <1>2, <1>3, <1>4, <1>5, <1>7
  DEF System, CreateTimer, WatchdogTimeout, HostRecv, AttachTimeout, AttachLoaded, AttachFailed,
      workerVars, runVars
<1>8. CASE UNCHANGED vars
  BY <1>1, <1>8 DEF vars, workerVars, runVars
<1>9. QED BY <1>6, <1>7, <1>8 DEF Next

-----------------------------------------------------------------------------
(* Boots.                                                                    *)

(* The calls that send a command: only one that boots makes the host believe,  *)
(* and only a believing host starts.                                          *)
LEMMA CallsSend ==
    ASSUME Types, LoadBoot \/ Start \/ Pause \/ Resume \/ Reset \/ AttachV86 \/ AttachDevice
    PROVE  /\ UNCHANGED <<workerVars, workerRef, evt>>
           /\ \E m \in Cmd :
                /\ Send(m)
                /\ m.type = "START" => vmState \in Booted
                /\ vmState' \in Booted => vmState \in Booted \/ m.type = "LOAD_BOOT"
<1> USE MessageTypes DEF Booted
<1>1. CASE LoadBoot
  <2>1. Send([type |-> "LOAD_BOOT"]) /\ UNCHANGED <<workerVars, workerRef, evt>>
    BY <1>1 DEF LoadBoot
  <2>2. QED BY <2>1
<1>2. CASE Start
  <2>1. Send([type |-> "START"]) /\ UNCHANGED <<workerVars, workerRef, evt>> /\ vmState \in Booted
    BY <1>2 DEF Start
  <2>2. QED BY <2>1
<1>3. CASE Pause
  <2>1. Send([type |-> "PAUSE"]) /\ UNCHANGED <<workerVars, workerRef, evt>> /\ vmState \in Booted
    BY <1>3 DEF Pause
  <2>2. QED BY <2>1
<1>4. CASE Resume
  <2>1. Send([type |-> "RESUME"]) /\ UNCHANGED <<workerVars, workerRef, evt>> /\ vmState \in Booted
    BY <1>4 DEF Resume
  <2>2. QED BY <2>1
<1>5. CASE Reset
  <2>1. Send([type |-> "RESET"]) /\ UNCHANGED <<workerVars, workerRef, evt>> /\ vmState' = "READY"
    BY <1>5 DEF Reset
  <2>2. QED BY <2>1
<1>6. CASE AttachV86
  <2>1. attachCalls + 1 \in AttachId
    BY <1>6, BoundAssumption DEF AttachV86, AttachId, BoundAssumption, Types, HostTypes
  <2>2. Send([type |-> "ATTACH", id |-> attachCalls + 1]) /\ vmState' = vmState
        /\ UNCHANGED <<workerVars, workerRef, evt>>
    BY <1>6 DEF AttachV86, hostVars
  <2>3. QED BY <2>1, <2>2
<1>7. CASE AttachDevice
  <2>1. Send([type |-> "REGISTER"]) /\ UNCHANGED <<workerVars, workerRef, evt>> /\ vmState' = vmState
    BY <1>7 DEF AttachDevice, hostVars
  <2>2. QED BY <2>1
<1>8. QED BY <1>1, <1>2, <1>3, <1>4, <1>5, <1>6, <1>7

(* Steps that touch neither commands nor registers, nor start anything.        *)
LEMMA BootsIdle ==
    ASSUME Types, Boots, UNCHANGED <<wAlive, workerRef, regs, cmd>>, isRunning' => isRunning,
           vmState' \in Booted => vmState \in Booted \/ (wAlive => regs = "boot")
    PROVE  ExecutesBooted' /\ HostBooted' /\ StartsBooted' /\ WorkerKept'
BY DEF Boots, ExecutesBooted, HostBooted, StartsBooted, WorkerKept

LEMMA BootsSend ==
    ASSUME Types, Boots, UNCHANGED <<workerVars, workerRef>>, NEW m \in Cmd, Send(m),
           m.type = "START" => vmState \in Booted,
           vmState' \in Booted => vmState \in Booted \/ m.type = "LOAD_BOOT"
    PROVE  ExecutesBooted' /\ HostBooted' /\ StartsBooted' /\ WorkerKept'
<1>1. cmd \in Seq(Cmd) /\ UNCHANGED <<wAlive, regs, isRunning>>
  BY DEF Types, Channels, workerVars, runVars
<1>2. ExecutesBooted' /\ WorkerKept'
  BY <1>1 DEF Boots, ExecutesBooted, WorkerKept
<1>3. CASE workerRef # "null" /\ wAlive
  <2>1. cmd' = Append(cmd, m) /\ Within(cmd') = Within(cmd) \cup {m}
    BY <1>1, <1>3, Sent DEF Send
  <2>2. HostBooted'
    BY <1>1, <1>3, <2>1 DEF Boots, HostBooted, Loads
  <2>3. (regs = "boot") \in BOOLEAN
    OBVIOUS
  <2>4. StartsAfterBoot(Append(cmd, m), regs = "boot")
    BY <1>1, <1>3, <2>3, SentInOrder DEF Boots, HostBooted, StartsBooted
  <2>5. QED BY <1>1, <1>2, <2>1, <2>2, <2>4 DEF StartsBooted
<1>4. CASE ~wAlive
  BY <1>1, <1>2, <1>4 DEF Send, Boots, HostBooted, StartsBooted
<1>5. QED BY <1>3, <1>4 DEF Boots, WorkerKept

LEMMA BootsWorker ==
    ASSUME Types, Boots, WorkerRecv
    PROVE  ExecutesBooted' /\ HostBooted' /\ StartsBooted' /\ WorkerKept'
<1>1. cmd \in Seq(Cmd) /\ cmd # <<>> /\ cmd' = Tail(cmd) /\ UNCHANGED <<wAlive, vmState, workerRef>>
  BY DEF Types, Channels, WorkerRecv, hostVars
<1>2. (regs = "boot") \in BOOLEAN
  OBVIOUS
<1>3. /\ Head(cmd).type = "START" => regs = "boot"
      /\ StartsAfterBoot(cmd', regs = "boot" \/ Head(cmd).type = "LOAD_BOOT")
      /\ Loads(cmd) => Loads(cmd') \/ Head(cmd).type = "LOAD_BOOT"
  BY <1>1, <1>2, ReceivedInOrder DEF Boots, StartsBooted
<1>4. regs' = IF Head(cmd).type = "LOAD_BOOT" THEN "boot" ELSE regs
  BY DEF WorkerRecv, CmdInit, CmdLoadBoot, CmdStart, CmdPause, CmdResume, CmdReset,
         CmdAttachV86, CmdRegisterDevice
<1>5. isRunning' => isRunning \/ Head(cmd).type = "START"
  BY DEF WorkerRecv, CmdInit, CmdLoadBoot, CmdStart, CmdPause, CmdResume, CmdReset,
         CmdAttachV86, CmdRegisterDevice, runVars
<1>6. (regs' = "boot") = (regs = "boot" \/ Head(cmd).type = "LOAD_BOOT")
  BY <1>4
<1>7. ExecutesBooted'
  BY <1>3, <1>4, <1>5 DEF Boots, ExecutesBooted
<1>8. HostBooted'
  BY <1>1, <1>3, <1>4 DEF Boots, HostBooted
<1>9. StartsBooted'
  BY <1>3, <1>6 DEF StartsBooted
<1>10. QED BY <1>1, <1>7, <1>8, <1>9 DEF Boots, WorkerKept

LEMMA BootsOfStep == Types /\ Boots /\ [Next]_vars => Boots'
<1> SUFFICES ASSUME Types, Boots, [Next]_vars PROVE Boots'
  OBVIOUS
<1>1. SUFFICES ExecutesBooted' /\ HostBooted' /\ StartsBooted' /\ WorkerKept'
  <2>1. EventsBooted'
    <3>1. CASE Next
      <4>1. regs = "boot" => regs' = "boot"
        BY <3>1
        DEF Next, Calls, System, Create, LoadBoot, Start, Pause, Resume, Reset, Destroy,
            Terminate, AttachV86, AttachBackend, AttachDevice, CreateTimer, WatchdogTimeout,
            HostRecv, WorkerRecv, CmdInit, CmdLoadBoot, CmdStart, CmdPause, CmdResume, CmdReset,
            CmdAttachV86, CmdRegisterDevice, RunQuantum, CpuFault, AttachTimeout, AttachLoaded,
            AttachFailed, workerVars
      <4>2. QED BY <1>1, <3>1, <4>1, EventsOfStep
           DEF Boots, EventsBooted, ExecutesBooted, Reported
    <3>2. CASE UNCHANGED vars
      BY <3>2 DEF Boots, EventsBooted, vars, workerVars
    <3>3. QED BY <3>1, <3>2
  <2>2. QED BY <1>1, <2>1 DEF Boots
<1>2. CASE UNCHANGED <<wAlive, workerRef, regs, cmd>> /\ (isRunning' => isRunning)
           /\ (vmState' \in Booted => vmState \in Booted \/ (wAlive => regs = "boot"))
  BY <1>2, BootsIdle
<1>3. CASE Terminate /\ vmState' \notin Booted
  BY <1>3 DEF Terminate, ExecutesBooted, HostBooted, StartsBooted, WorkerKept, StartsAfterBoot
<1>4. CASE Create
  <2>1. cmd' = <<[type |-> "INIT"]>> /\ vmState' \notin Booted /\ workerRef' # "null"
        /\ UNCHANGED <<regs, isRunning>>
    BY <1>4, ModeAssumption DEF Create, Booted, runVars, ModeAssumption
  <2>2. DOMAIN cmd' = {1} /\ cmd'[1].type = "INIT"
    BY <2>1
  <2>3. QED BY <2>1, <2>2
       DEF Boots, ExecutesBooted, HostBooted, StartsBooted, WorkerKept, StartsAfterBoot
<1>5. CASE LoadBoot \/ Start \/ Pause \/ Resume \/ Reset \/ AttachV86 \/ AttachDevice
  BY <1>5, CallsSend, BootsSend
<1>6. CASE WorkerRecv
  BY <1>6, BootsWorker
<1>7. CASE HostRecv
  <2>1. Head(evt) \in Within(evt) /\ UNCHANGED <<wAlive, workerRef, regs, cmd, isRunning>>
    BY <1>7, Received DEF HostRecv, Types, Channels, workerVars, runVars
  <2>2. vmState' \in Booted => vmState \in Booted \/ regs = "boot"
    BY <1>7, <2>1 DEF HostRecv, RecvState, RecvReady, RecvAttached, RecvError, CreateReturns,
                      Boots, EventsBooted, Booted
  <2>3. QED BY <1>2, <2>1, <2>2
<1>8. CASE Destroy \/ WatchdogTimeout
  <2>1. vmState' \notin Booted
    BY <1>8 DEF Destroy, WatchdogTimeout, Booted
  <2>2. CASE workerRef # "null"
    BY <1>3, <1>8, <2>1, <2>2 DEF Destroy, WatchdogTimeout
  <2>3. CASE workerRef = "null"
    <3>1. ~wAlive /\ UNCHANGED <<workerVars, cmd>> /\ workerRef' = "null"
      BY <1>8, <2>3 DEF Destroy, WatchdogTimeout, Boots, WorkerKept
    <3>2. UNCHANGED <<wAlive, workerRef, regs, cmd, isRunning>>
      BY <2>3, <3>1 DEF workerVars, runVars
    <3>3. QED BY <1>2, <2>1, <3>2
  <2>4. QED BY <2>2, <2>3
<1>9. CASE AttachBackend \/ CreateTimer \/ RunQuantum \/ CpuFault
  BY <1>2, <1>9 DEF AttachBackend, CreateTimer, CreateReturns, RunQuantum, CpuFault, hostVars,
                    workerVars, runVars, Booted
<1>10. ASSUME NEW i \in AttachId, AttachTimeout(i) \/ AttachLoaded(i) \/ AttachFailed(i)
       PROVE  ExecutesBooted' /\ HostBooted' /\ StartsBooted' /\ WorkerKept'
  BY <1>2, <1>10 DEF AttachTimeout, AttachLoaded, AttachFailed, hostVars, workerVars, runVars
<1>11. CASE UNCHANGED vars
  BY <1>2, <1>11 DEF vars, hostVars, workerVars, runVars
<1>12. QED BY <1>4, <1>5, <1>6, <1>7, <1>8, <1>9, <1>10, <1>11 DEF Next, Calls, System

LEMMA BootsAlways == Spec => []Boots
<1>1. Init => Boots
  BY DEF Init, Boots, ExecutesBooted, HostBooted, StartsBooted, EventsBooted, WorkerKept,
         StartsAfterBoot, Within
<1>2. QED BY <1>1, BootsOfStep, TypesAlways, PTL DEF Spec

-----------------------------------------------------------------------------
(* What is on its way.  A message of G ends a channel when none of B is behind *)
(* it, and begins it when none of B is before it.                              *)

EndsIn(q, G, B)   == \E i \in DOMAIN q : q[i] \in G /\ \A j \in DOMAIN q : j > i => q[j] \notin B
BeginsIn(q, G, B) == \E i \in DOMAIN q : q[i] \in G /\ \A j \in DOMAIN q : j < i => q[j] \notin B
NoneIn(q, B)      == \A i \in DOMAIN q : q[i] \notin B

LEMMA AppendEnds ==
    ASSUME NEW S, NEW q \in Seq(S), NEW m \in S, NEW G, NEW B
    PROVE  /\ m \in G => EndsIn(Append(q, m), G, B)
           /\ m \notin B /\ EndsIn(q, G, B) => EndsIn(Append(q, m), G, B)
           /\ m \notin B /\ NoneIn(q, B) => NoneIn(Append(q, m), B)
           /\ NoneIn(Append(q, m), B) => NoneIn(q, B) /\ m \notin B
           /\ BeginsIn(q, G, B) => BeginsIn(Append(q, m), G, B)
<1> DEFINE r == Append(q, m)
<1>1. /\ DOMAIN q = 1..Len(q) /\ Len(q) \in Nat
      /\ DOMAIN r = 1..(Len(q) + 1)
      /\ \A i \in 1..Len(q) : r[i] = q[i]
      /\ r[Len(q) + 1] = m
  BY Sent
<1>2. /\ Len(q) + 1 \in DOMAIN r /\ DOMAIN q \subseteq DOMAIN r
      /\ \A i \in DOMAIN r : i \in DOMAIN q \/ i = Len(q) + 1
      /\ \A i \in DOMAIN r : ~(i > Len(q) + 1)
      /\ \A i \in DOMAIN q : i < Len(q) + 1
      /\ \A i \in DOMAIN q, j \in DOMAIN r : j < i => j \in DOMAIN q
  BY <1>1
<1> HIDE DEF r
<1>3. m \in G => EndsIn(r, G, B)
  BY <1>1, <1>2 DEF EndsIn
<1>4. m \notin B /\ EndsIn(q, G, B) => EndsIn(r, G, B)
  BY <1>1, <1>2 DEF EndsIn
<1>5. m \notin B /\ NoneIn(q, B) => NoneIn(r, B)
  BY <1>1, <1>2 DEF NoneIn
<1>6. NoneIn(r, B) => NoneIn(q, B) /\ m \notin B
  BY <1>1, <1>2 DEF NoneIn
<1>7. BeginsIn(q, G, B) => BeginsIn(r, G, B)
  BY <1>1, <1>2 DEF BeginsIn
<1>8. QED BY <1>3, <1>4, <1>5, <1>6, <1>7 DEF r

LEMMA TailEnds ==
    ASSUME NEW S, NEW q \in Seq(S), q # <<>>, NEW G, NEW B
    PROVE  /\ EndsIn(q, G, B) =>
                EndsIn(Tail(q), G, B) \/ (Head(q) \in G /\ NoneIn(Tail(q), B))
           /\ NoneIn(q, B) => NoneIn(Tail(q), B) /\ Head(q) \notin B
           /\ NoneIn(Tail(q), B) /\ Head(q) \notin B => NoneIn(q, B)
           /\ BeginsIn(q, G, B) =>
                Head(q) \in G \/ (Head(q) \notin B /\ BeginsIn(Tail(q), G, B))
<1> DEFINE r == Tail(q)
<1>1. /\ Len(q) \in Nat \ {0} /\ DOMAIN q = 1..Len(q) /\ DOMAIN r = 1..(Len(q) - 1)
      /\ Head(q) = q[1]
      /\ \A i \in 1..(Len(q) - 1) : r[i] = q[i + 1]
  BY Received
<1>2. /\ 1 \in DOMAIN q
      /\ \A i \in DOMAIN r : i + 1 \in DOMAIN q /\ r[i] = q[i + 1] /\ i + 1 > 1
      /\ \A i, j \in DOMAIN r : (i > j <=> i + 1 > j + 1)
      /\ \A i \in DOMAIN q : i = 1 \/ (i - 1 \in DOMAIN r /\ (i - 1) + 1 = i /\ i > 1)
  BY <1>1
<1> HIDE DEF r
<1>3. ASSUME EndsIn(q, G, B)
      PROVE  EndsIn(r, G, B) \/ (Head(q) \in G /\ NoneIn(r, B))
  <2>1. PICK i \in DOMAIN q : q[i] \in G /\ \A j \in DOMAIN q : j > i => q[j] \notin B
    BY <1>3 DEF EndsIn
  <2>2. CASE i = 1
    <3>1. \A j \in DOMAIN r : r[j] \notin B
      BY <1>2, <2>1, <2>2
    <3>2. QED BY <1>1, <2>1, <2>2, <3>1 DEF NoneIn
  <2>3. CASE i # 1
    <3>1. i - 1 \in DOMAIN r /\ r[i - 1] \in G
      BY <1>2, <2>1, <2>3
    <3>2. ASSUME NEW j \in DOMAIN r, j > i - 1
          PROVE  r[j] \notin B
      <4>1. j + 1 \in DOMAIN q /\ r[j] = q[j + 1]
        BY <1>2
      <4>2. j + 1 > i
        BY <1>1, <3>2
      <4>3. QED BY <2>1, <4>1, <4>2
    <3>3. QED BY <3>1, <3>2 DEF EndsIn
  <2>4. QED BY <2>2, <2>3
<1>4. NoneIn(q, B) => NoneIn(r, B) /\ Head(q) \notin B
  BY <1>1, <1>2 DEF NoneIn
<1>5. NoneIn(r, B) /\ Head(q) \notin B => NoneIn(q, B)
  BY <1>1, <1>2 DEF NoneIn
<1>6. ASSUME BeginsIn(q, G, B), Head(q) \notin G
      PROVE  Head(q) \notin B /\ BeginsIn(r, G, B)
  <2>1. PICK i \in DOMAIN q : q[i] \in G /\ \A j \in DOMAIN q : j < i => q[j] \notin B
    BY <1>6 DEF BeginsIn
  <2>2. i # 1
    BY <1>1, <1>6, <2>1
  <2>3. i - 1 \in DOMAIN r /\ r[i - 1] \in G /\ i > 1
    BY <1>2, <2>1, <2>2
  <2>4. Head(q) \notin B
    BY <1>1, <1>2, <2>1, <2>3
  <2>5. ASSUME NEW j \in DOMAIN r, j < i - 1
        PROVE  r[j] \notin B
    <3>1. j + 1 \in DOMAIN q /\ r[j] = q[j + 1]
      BY <1>2
    <3>2. j + 1 < i
      BY <1>1, <2>5
    <3>3. QED BY <2>1, <3>1, <3>2
  <2>6. QED BY <2>3, <2>4, <2>5 DEF BeginsIn
<1>7. QED BY <1>3, <1>4, <1>5, <1>6 DEF r

LEMMA EmptyEnds ==
    ASSUME NEW G, NEW B
    PROVE  ~EndsIn(<<>>, G, B) /\ NoneIn(<<>>, B) /\ ~BeginsIn(<<>>, G, B)
BY DEF EndsIn, NoneIn, BeginsIn

-----------------------------------------------------------------------------
(* What the host will make of its events.  A state event of S leaves it in S; *)
(* another state event, and an error, overrule the ones before.               *)

Commands(T) == {m \in Cmd : m.type \in T}
States(S)   == {m \in Evt : m.type = "STATE" /\ m.state \in S}
Errors      == {m \in Evt : m.type = "ERROR"}
Overruling(S) == Errors \cup States(VmState \ S)

Overruled(S) == EndsIn(evt, Overruling(S), States(S))
Untold(S)    == NoneIn(evt, States(S))
NotLeftIn(S) == Overruled(S) \/ (Untold(S) /\ vmState \notin S)

CpuRuns == isRunning /\ ~isPaused

(* Nothing has happened to a VM that was never created; no event makes the     *)
(* host believe that again.                                                    *)
Untouched == workerRef = "null" /\ vmState = "UNINITIALIZED" =>
                evt = <<>> /\ loading = {} /\ ~isRunning /\ ~wdTimer
ToldStates == Untold({"UNINITIALIZED", "ERROR"})

(* No error precedes the ack that create() waits for, so the ack never revives *)
(* a VM that the host holds for failed.                                        *)
AckFirst ==
    createWait /\ wAlive =>
        /\ vmState # "ERROR"
        /\ \/ cmd # <<>> /\ Head(cmd).type = "INIT" /\ evt = <<>> /\ ~isRunning /\ loading = {}
           \/ BeginsIn(evt, {[type |-> "READY"]}, Errors)

(* A CPU that stopped has told so, after it told that it runs.                 *)
StopTold == wAlive /\ ~CpuRuns => Overruled({"RUNNING"}) \/ Untold({"RUNNING"})

(* Of a watchdog that pauses, the host's last word to the worker was a pause,  *)
(* on its way or obeyed, and nothing it will still hear says RUNNING.          *)
PausedWatch ==
    wAlive /\ wdTimer /\ ~wdActive =>
        /\ \/ EndsIn(cmd, Commands({"PAUSE"}), Commands({"START", "RESUME"}))
           \/ NoneIn(cmd, Commands({"START", "RESUME"})) /\ ~CpuRuns
        /\ CpuRuns \/ NotLeftIn({"RUNNING"})

(* Of a watchdog that is off, it was a reset, on its way or obeyed, or the host *)
(* holds the VM for failed.                                                    *)
StoppedWatch ==
    wAlive /\ ~wdTimer =>
        \/ vmState = "ERROR"
        \/ EndsIn(cmd, Commands({"RESET"}), Commands({"START"}))
        \/ NoneIn(cmd, Commands({"START"})) /\ ~isRunning /\ NotLeftIn({"RUNNING", "PAUSED"})

(* The host that calls a running CPU PAUSED will hear better, or has asked it   *)
(* to pause.                                                                   *)
PauseAsked ==
    wAlive /\ CpuRuns =>
        \/ NotLeftIn({"PAUSED"})
        \/ Untold({"PAUSED"}) /\ ~NoneIn(cmd, Commands({"PAUSE"}))

Watches == /\ Untouched /\ ToldStates /\ AckFirst
           /\ StopTold /\ PausedWatch /\ StoppedWatch /\ PauseAsked

(* A step that appends one event, and what it keeps.                           *)
LEMMA Posting ==
    ASSUME evt \in Seq(Evt), NEW m \in Evt, Post(<<m>>)
    PROVE  /\ evt' = Append(evt, m)
           /\ \A S : m \in Overruling(S) => Overruled(S)'
           /\ \A S : m \notin States(S) /\ Overruled(S) => Overruled(S)'
           /\ \A S : m \notin States(S) /\ Untold(S) => Untold(S)'
           /\ \A G, B : BeginsIn(evt, G, B) => BeginsIn(evt', G, B)
<1>1. evt' = Append(evt, m)
  BY AppendIsConcat DEF Post
<1>2. ASSUME NEW S
      PROVE  /\ m \in Overruling(S) => Overruled(S)'
             /\ m \notin States(S) /\ Overruled(S) => Overruled(S)'
             /\ m \notin States(S) /\ Untold(S) => Untold(S)'
  <2>1. Overruled(S)' = EndsIn(evt', Overruling(S), States(S))
    BY DEF Overruled, Overruling, States, Errors
  <2>2. Untold(S)' = NoneIn(evt', States(S))
    BY DEF Untold, States
  <2>3. QED BY <1>1, <2>1, <2>2, AppendEnds DEF Overruled, Untold
<1>3. \A G, B : BeginsIn(evt, G, B) => BeginsIn(evt', G, B)
  BY <1>1, AppendEnds
<1>4. QED BY <1>1, <1>2, <1>3

LEMMA EventClasses ==
    ASSUME NEW S \in SUBSET VmState
    PROVE  /\ \A s \in VmState : (StateEvt(s) \in States(S) <=> s \in S)
           /\ \A s \in VmState : (StateEvt(s) \in Overruling(S) <=> s \notin S)
           /\ \A s \in VmState : StateEvt(s) \notin Errors
           /\ [type |-> "ERROR"] \in Overruling(S) /\ [type |-> "ERROR"] \notin States(S)
           /\ [type |-> "READY"] \notin States(S) /\ [type |-> "READY"] \notin Errors
           /\ \A i \in AttachId : [type |-> "ATTACHED", id |-> i] \notin States(S)
           /\ \A m \in Evt : m.type = "STATE" => (m \in States(S) <=> m.state \in S)
           /\ \A m \in Evt : m \in Overruling(S) =>
                  m.type = "ERROR" \/ (m.type = "STATE" /\ m.state \notin S)
           /\ \A m \in Evt : m.type = "ERROR" => m \in Errors
BY MessageTypes DEF States, Overruling, Errors, StateEvt

(* The host hears an event.                                                    *)
LEMMA Hearing ==
    ASSUME Types, HostRecv, NEW S \in SUBSET VmState
    PROVE  /\ Untold(S) => Untold(S)'
           /\ Overruled(S) => Overruled(S)' \/ Untold(S)'
           /\ NotLeftIn(S) /\ "READY" \notin S /\ "ERROR" \notin S => NotLeftIn(S)'
<1>1. evt \in Seq(Evt) /\ evt # <<>> /\ evt' = Tail(evt) /\ Head(evt) \in Evt
  BY Received DEF HostRecv, Types, Channels
<1>2. /\ Head(evt).type = "STATE" => vmState' = IF vmState = "ERROR" THEN "ERROR" ELSE Head(evt).state
      /\ Head(evt).type = "ERROR" => vmState' = "ERROR"
      /\ vmState' \in {vmState, "READY", "ERROR"} \/ Head(evt).type = "STATE"
  BY DEF HostRecv, RecvState, RecvReady, RecvAttached, RecvError, CreateReturns
<1>3. /\ Untold(S) => Untold(S)' /\ Head(evt) \notin States(S)
      /\ Overruled(S) => Overruled(S)' \/ (Head(evt) \in Overruling(S) /\ Untold(S)')
  <2>1. Overruled(S)' = EndsIn(evt', Overruling(S), States(S))
    BY DEF Overruled, Overruling, States, Errors
  <2>2. Untold(S)' = NoneIn(evt', States(S))
    BY DEF Untold, States
  <2>3. QED BY <1>1, <2>1, <2>2, TailEnds DEF Overruled, Untold
<1>4. ASSUME NotLeftIn(S), "READY" \notin S, "ERROR" \notin S, ~Overruled(S)'
      PROVE  Untold(S)' /\ vmState' \notin S
  <2>1. CASE Head(evt) \in Overruling(S) /\ Untold(S)'
    BY <1>1, <1>2, <1>4, <2>1, EventClasses
  <2>2. CASE Untold(S) /\ vmState \notin S
    BY <1>1, <1>2, <1>3, <1>4, <2>2, EventClasses
  <2>3. QED BY <1>3, <1>4, <2>1, <2>2 DEF NotLeftIn
<1>5. QED BY <1>3, <1>4 DEF NotLeftIn

(* The worker takes a command.                                                 *)
LEMMA Taking ==
    ASSUME Types, WorkerRecv, NEW T, NEW U
    PROVE  /\ EndsIn(cmd, Commands(T), Commands(U)) =>
                \/ EndsIn(cmd', Commands(T), Commands(U))
                \/ Head(cmd).type \in T /\ NoneIn(cmd', Commands(U))
           /\ NoneIn(cmd, Commands(U)) => NoneIn(cmd', Commands(U)) /\ Head(cmd).type \notin U
           /\ NoneIn(cmd', Commands(U)) /\ Head(cmd).type \notin U => NoneIn(cmd, Commands(U))
<1>1. cmd \in Seq(Cmd) /\ cmd # <<>> /\ cmd' = Tail(cmd) /\ Head(cmd) \in Cmd
  BY Received DEF WorkerRecv, Types, Channels
<1>2. QED BY <1>1, TailEnds DEF Commands

LEMMA Sending ==
    ASSUME cmd \in Seq(Cmd), wAlive, workerRef # "null", NEW m \in Cmd, Send(m)
    PROVE  /\ cmd' = Append(cmd, m)
           /\ cmd # <<>> => cmd' # <<>> /\ Head(cmd') = Head(cmd)
           /\ \A T, U :
                /\ m.type \in T => EndsIn(cmd', Commands(T), Commands(U))
                /\ m.type \notin U /\ EndsIn(cmd, Commands(T), Commands(U))
                      => EndsIn(cmd', Commands(T), Commands(U))
                /\ m.type \notin U /\ NoneIn(cmd, Commands(U)) => NoneIn(cmd', Commands(U))
                /\ NoneIn(cmd', Commands(U)) => NoneIn(cmd, Commands(U)) /\ m.type \notin U
<1>1. cmd' = Append(cmd, m)
  BY DEF Send
<1>2. cmd # <<>> => cmd' # <<>> /\ Head(cmd') = Head(cmd)
  <2>1. cmd' \in Seq(Cmd) /\ DOMAIN cmd' = 1..(Len(cmd) + 1) /\ Len(cmd) \in Nat
        /\ \A i \in 1..Len(cmd) : cmd'[i] = cmd[i]
    BY <1>1, Sent
  <2>2. cmd' # <<>> /\ Head(cmd') = cmd'[1]
    BY <2>1, EmptySeq, HeadTailProperties, LenProperties
  <2>3. cmd # <<>> => Head(cmd) = cmd[1] /\ 1 \in 1..Len(cmd)
    BY <2>1, EmptySeq, HeadTailProperties, LenProperties
  <2>4. QED BY <2>1, <2>2, <2>3
<1>3. QED BY <1>1, <1>2, AppendEnds DEF Commands

(* What the worker's handler may do, seen from its CPU and its events.         *)
Tells(s) == Post(<<StateEvt(s)>>)
LEMMA Handling ==
    ASSUME Types, WorkerRecv
    PROVE  /\ UNCHANGED <<vmState, createWait, workerRef, wdActive, wdTimer, wAlive>>
           /\ \/ Head(cmd).type = "INIT" /\ CmdInit /\ UNCHANGED <<isRunning, isPaused, loading>>
              \/ /\ Head(cmd).type = "LOAD_BOOT" /\ Tells("CONFIGURED")
                 /\ UNCHANGED <<isRunning, isPaused, loading>>
              \/ /\ Head(cmd).type = "START" /\ ~isRunning /\ isRunning' /\ ~isPaused'
                 /\ Tells("RUNNING") /\ UNCHANGED loading
              \/ /\ Head(cmd).type = "PAUSE" /\ CpuRuns /\ ~CpuRuns'
                 /\ Tells("PAUSED") /\ UNCHANGED <<isRunning, loading>>
              \/ /\ Head(cmd).type = "RESUME" /\ isRunning /\ ~CpuRuns /\ CpuRuns'
                 /\ Tells("RUNNING") /\ UNCHANGED <<isRunning, loading>>
              \/ /\ Head(cmd).type = "RESET" /\ ~isRunning' /\ ~isPaused'
                 /\ Tells("READY") /\ UNCHANGED loading
              \/ /\ Head(cmd).type \in {"START", "REGISTER"} /\ Post(<<[type |-> "ERROR"]>>)
                 /\ UNCHANGED <<isRunning, isPaused, loading>>
              \/ /\ Head(cmd).type = "START" => isRunning
                 /\ Head(cmd).type = "PAUSE" => ~CpuRuns
                 /\ Head(cmd).type = "RESUME" => ~(isRunning /\ isPaused)
                 /\ Head(cmd).type \notin {"INIT", "RESET", "LOAD_BOOT"}
                 /\ UNCHANGED <<isRunning, isPaused, evt>>
<1> USE DEF CpuRuns
<1>1. UNCHANGED <<vmState, createWait, workerRef, wdActive, wdTimer, wAlive>>
  BY DEF WorkerRecv, hostVars, wdVars
<1>2. CASE CmdInit
  BY <1>1, <1>2 DEF CmdInit, runVars
<1>3. CASE CmdLoadBoot
  BY <1>1, <1>3 DEF CmdLoadBoot, runVars, Tells
<1>4. CASE CmdStart
  BY <1>1, <1>4 DEF CmdStart, StartRuns, runVars, Tells
<1>5. CASE CmdPause
  BY <1>1, <1>5 DEF CmdPause, Tells
<1>6. CASE CmdResume
  BY <1>1, <1>6 DEF CmdResume, Tells
<1>7. CASE CmdReset
  BY <1>1, <1>7 DEF CmdReset, Tells
<1>8. CASE CmdAttachV86 \/ CmdRegisterDevice
  BY <1>1, <1>8 DEF CmdAttachV86, CmdRegisterDevice, runVars
<1>9. QED BY <1>2, <1>3, <1>4, <1>5, <1>6, <1>7, <1>8 DEF WorkerRecv

(* Steps after which the worker is gone.                                       *)
LEMMA WatchesGone ==
    ASSUME Watches, ~wAlive', vmState' # "UNINITIALIZED", evt' \in {evt, <<>>}
    PROVE  Watches'
<1>1. ToldStates'
  BY EmptyEnds DEF Watches, ToldStates, Untold, States
<1>2. QED BY <1>1 DEF Watches, Untouched, AckFirst, StopTold, PausedWatch, StoppedWatch, PauseAsked

(* Steps of which no watch depends.                                            *)
LEMMA WatchesIdle ==
    ASSUME Watches, UNCHANGED <<vmState, createWait, workerRef, wdVars, wAlive, isRunning,
                                isPaused, loading, cmd, evt>>
    PROVE  Watches'
BY DEF Watches, Untouched, ToldStates, AckFirst, StopTold, PausedWatch, StoppedWatch,
       PauseAsked, CpuRuns, NotLeftIn, Overruled, Untold, wdVars

LEMMA WatchesCreate == Types /\ Boots /\ Watches /\ Create => Watches'
<1> SUFFICES ASSUME Types, Boots, Watches, Create PROVE Watches'
  OBVIOUS
<1>1. /\ vmState = "UNINITIALIZED" /\ workerRef = "null" /\ vmState' = vmState /\ workerRef' # "null"
      /\ cmd' = <<[type |-> "INIT"]>>
      /\ UNCHANGED <<wdActive, wdTimer, isRunning, isPaused, loading, evt>>
  BY ModeAssumption DEF Create, wdVars, runVars, ModeAssumption
<1>2. evt = <<>> /\ loading = {} /\ ~isRunning /\ ~wdTimer
  BY <1>1 DEF Watches, Untouched
<1>3. DOMAIN cmd' = {1} /\ cmd'[1] = [type |-> "INIT"] /\ cmd' # <<>> /\ Head(cmd').type = "INIT"
  BY <1>1
<1>4. NoneIn(cmd', Commands({"START"}))
  BY <1>3 DEF NoneIn, Commands
<1>5. \A S : Untold(S)'
  BY <1>1, <1>2, EmptyEnds DEF Untold, States
<1>6. QED BY <1>1, <1>2, <1>3, <1>4, <1>5
     DEF Watches, Untouched, ToldStates, AckFirst, StopTold, PausedWatch, StoppedWatch,
         PauseAsked, CpuRuns, NotLeftIn

(* The host sends.                                                             *)
LEMMA WatchesSend ==
    ASSUME Types, Boots, Watches, NEW m \in Cmd, Send(m),
           UNCHANGED <<createWait, workerRef, workerVars, evt>>,
           vmState' # "UNINITIALIZED" \/ UNCHANGED <<vmState, wdVars>>,
           vmState' # "ERROR" \/ vmState = "ERROR",
           \/ m.type = "LOAD_BOOT" /\ vmState' = "CONFIGURED" /\ vmState # "ERROR" /\ UNCHANGED wdVars
           \/ m.type = "START" /\ vmState' = "RUNNING" /\ wdActive' /\ wdTimer'
           \/ /\ m.type = "PAUSE" /\ vmState = "RUNNING" /\ vmState' = "PAUSED"
              /\ ~wdActive' /\ UNCHANGED wdTimer
           \/ /\ m.type = "RESUME" /\ vmState = "PAUSED" /\ vmState' = "RUNNING"
              /\ wdActive' /\ UNCHANGED wdTimer
           \/ m.type = "RESET" /\ vmState' = "READY" /\ ~wdActive' /\ ~wdTimer'
           \/ m.type \in {"ATTACH", "REGISTER"} /\ UNCHANGED <<vmState, wdVars>>
    PROVE  Watches'
<1>1. cmd \in Seq(Cmd) /\ UNCHANGED <<wAlive, isRunning, isPaused, loading>>
  BY DEF Types, Channels, workerVars, runVars
<1>2. \A S : (Overruled(S)' <=> Overruled(S)) /\ (Untold(S)' <=> Untold(S))
  BY DEF Overruled, Untold, Overruling, States, Errors
<1>3. CpuRuns' <=> CpuRuns
  BY <1>1 DEF CpuRuns
<1>4. ToldStates' /\ StopTold'
  BY <1>1, <1>2, <1>3 DEF Watches, ToldStates, StopTold
<1>5. Untouched'
  BY <1>1 DEF Watches, Untouched, wdVars
<1>6. CASE ~wAlive
  BY <1>1, <1>4, <1>5, <1>6 DEF Watches, AckFirst, PausedWatch, StoppedWatch, PauseAsked
<1>7. CASE wAlive
  <2>1. workerRef # "null"
    BY <1>7 DEF Boots, WorkerKept
  <2>2. /\ cmd # <<>> => cmd' # <<>> /\ Head(cmd') = Head(cmd)
        /\ \A T, U :
             /\ m.type \in T => EndsIn(cmd', Commands(T), Commands(U))
             /\ m.type \notin U /\ EndsIn(cmd, Commands(T), Commands(U))
                   => EndsIn(cmd', Commands(T), Commands(U))
             /\ m.type \notin U /\ NoneIn(cmd, Commands(U)) => NoneIn(cmd', Commands(U))
             /\ NoneIn(cmd', Commands(U)) => NoneIn(cmd, Commands(U)) /\ m.type \notin U
    BY <1>1, <1>7, <2>1, Sending
  <2>3. AckFirst'
    BY <1>1, <2>2 DEF Watches, AckFirst
  <2>4. PausedWatch'
    <3>1. CASE m.type = "PAUSE"
      BY <1>1, <1>2, <1>3, <1>7, <2>2, <3>1 DEF Watches, PausedWatch, StopTold, NotLeftIn
    <3>2. CASE m.type \notin {"PAUSE", "START", "RESUME"} /\ wdTimer' /\ ~wdActive'
      <4>1. m.type \in {"LOAD_BOOT", "ATTACH", "REGISTER"} /\ UNCHANGED wdVars
        BY <3>2, Zenon
      <4>3. wdTimer /\ ~wdActive
        BY <3>2, <4>1, Zenon DEF wdVars
      <4>4. vmState' \in {vmState, "CONFIGURED"}
        BY <4>1
      <4>2. QED BY <1>1, <1>2, <1>3, <1>7, <2>2, <4>1, <4>3, <4>4 DEF Watches, PausedWatch, NotLeftIn
    <3>3. QED BY <3>1, <3>2 DEF PausedWatch
  <2>5. StoppedWatch'
    <3>1. CASE m.type = "RESET"
      BY <2>2, <3>1 DEF StoppedWatch
    <3>2. CASE m.type = "START"
      BY <3>2 DEF StoppedWatch
    <3>3. CASE m.type \notin {"RESET", "START"} /\ ~wdTimer'
      <4>1. ~wdTimer /\ m.type # "START"
        BY <3>3 DEF wdVars
      <4>2. vmState = "ERROR" => vmState' = "ERROR"
        BY <3>3 DEF wdVars
      <4>3. NotLeftIn({"RUNNING", "PAUSED"}) => NotLeftIn({"RUNNING", "PAUSED"})'
        BY <1>2, <3>3 DEF NotLeftIn
      <4>4. QED BY <1>1, <1>7, <2>2, <4>1, <4>2, <4>3 DEF Watches, StoppedWatch
    <3>4. QED BY <3>1, <3>2, <3>3 DEF StoppedWatch
  <2>6. PauseAsked'
    <3>1. CASE m.type = "PAUSE"
      BY <1>1, <1>2, <1>3, <1>7, <2>2, <3>1 DEF Watches, PauseAsked, NotLeftIn
    <3>2. CASE m.type # "PAUSE"
      <4>1. vmState' = "PAUSED" => vmState = "PAUSED"
        BY <3>2
      <4>2. QED BY <1>1, <1>2, <1>3, <1>7, <2>2, <4>1 DEF Watches, PauseAsked, NotLeftIn
    <3>3. QED BY <3>1, <3>2
  <2>7. QED BY <1>4, <1>5, <2>3, <2>4, <2>5, <2>6 DEF Watches
<1>8. QED BY <1>1, <1>6, <1>7 DEF Types, WorkerTypes

(* The host hears, or stops waiting for create()'s ack.                        *)
LEMMA WatchesHear == Types /\ Boots /\ Watches /\ (HostRecv \/ CreateTimer) => Watches'
<1> SUFFICES ASSUME Types, Boots, Watches, HostRecv \/ CreateTimer PROVE Watches'
  OBVIOUS
<1> DEFINE Sets == {{"RUNNING"}, {"PAUSED"}, {"RUNNING", "PAUSED"}}
           Never == {"UNINITIALIZED", "ERROR"}
<1>1. UNCHANGED <<workerRef, wAlive, isRunning, isPaused, loading, cmd>>
  BY DEF HostRecv, CreateTimer, workerVars, runVars
<1>2. Sets \subseteq SUBSET VmState /\ \A S \in Sets : "READY" \notin S /\ "ERROR" \notin S
  BY DEF VmState
<1>3. ASSUME NEW S \in Sets
      PROVE  /\ Untold(S) => Untold(S)'
             /\ Overruled(S) => Overruled(S)' \/ Untold(S)'
             /\ NotLeftIn(S) => NotLeftIn(S)'
  <2>1. CASE HostRecv
    BY <1>2, <2>1, Hearing
  <2>2. CASE CreateTimer
    <3>1. evt' = evt /\ vmState' = "READY"
      BY <2>2 DEF CreateTimer, CreateReturns
    <3>2. (Overruled(S)' <=> Overruled(S)) /\ (Untold(S)' <=> Untold(S))
      BY <3>1 DEF Overruled, Untold, Overruling, States, Errors
    <3>3. QED BY <1>2, <3>1, <3>2 DEF NotLeftIn
  <2>3. QED BY <2>1, <2>2
<1> HIDE DEF Sets
<1>4. {"RUNNING"} \in Sets /\ {"PAUSED"} \in Sets /\ {"RUNNING", "PAUSED"} \in Sets
  BY DEF Sets
<1>5. CpuRuns' <=> CpuRuns
  BY <1>1 DEF CpuRuns
<1>6. StopTold'
  BY <1>1, <1>3, <1>4, <1>5 DEF Watches, StopTold
<1>7. ToldStates'
  <2>1. Never \in SUBSET VmState
    BY DEF VmState
  <2>2. CASE HostRecv
    BY <2>1, <2>2, Hearing DEF Watches, ToldStates
  <2>3. CASE CreateTimer
    BY <2>3 DEF CreateTimer, Watches, ToldStates, Untold, States
  <2>4. QED BY <2>2, <2>3
<1>8. ASSUME HostRecv
       PROVE  Head(evt).type = "STATE" => Head(evt).state \notin Never
  <2>1. evt \in Seq(Evt) /\ evt # <<>> /\ Head(evt) \in Evt
    BY <1>8, Received DEF HostRecv, Types, Channels
  <2>2. Head(evt) \notin States(Never)
    BY <2>1, TailEnds DEF Watches, ToldStates, Untold
  <2>3. Never \in SUBSET VmState
    BY DEF VmState
  <2>4. QED BY <2>1, <2>2, <2>3, EventClasses
<1>9. \/ UNCHANGED wdVars
      \/ HostRecv /\ Head(evt).type = "ERROR" /\ ~wdActive' /\ ~wdTimer' /\ vmState' = "ERROR"
  BY DEF HostRecv, RecvState, RecvReady, RecvAttached, RecvError, CreateTimer, WatchdogStop
<1>10. vmState = "ERROR" /\ wAlive => vmState' = "ERROR" \/ createWait
  BY DEF HostRecv, RecvState, RecvReady, RecvAttached, RecvError, CreateTimer, CreateReturns
<1>11. Untouched'
  <2>1. vmState' = "UNINITIALIZED" => vmState = "UNINITIALIZED" /\ UNCHANGED wdVars
    <3>1. CASE HostRecv
      BY <1>8, <3>1 DEF HostRecv, RecvState, RecvReady, RecvAttached, RecvError, CreateReturns
    <3>2. QED BY <3>1 DEF CreateTimer, CreateReturns
  <2>2. evt = <<>> => evt' = <<>>
    BY DEF HostRecv, CreateTimer
  <2>3. QED BY <1>1, <2>1, <2>2 DEF Watches, Untouched, wdVars
<1>12. AckFirst'
  <2>1. CASE CreateTimer
    BY <2>1 DEF CreateTimer, CreateReturns, AckFirst
  <2>2. CASE HostRecv /\ createWait' /\ wAlive'
    <3>1. evt \in Seq(Evt) /\ evt # <<>> /\ evt' = Tail(evt) /\ Head(evt) \in Evt /\ createWait
      BY <2>2, Received DEF HostRecv, RecvState, RecvReady, RecvAttached, RecvError, CreateReturns,
                            Types, Channels
    <3>2. Head(evt).type # "READY"
      BY <2>2 DEF HostRecv, RecvState, RecvReady, RecvAttached, RecvError, CreateReturns
    <3>3. vmState # "ERROR" /\ BeginsIn(evt, {[type |-> "READY"]}, Errors)
      BY <1>1, <2>2, <3>1 DEF Watches, AckFirst
    <3>4. Head(evt) \notin Errors /\ BeginsIn(evt', {[type |-> "READY"]}, Errors)
      BY <3>1, <3>2, <3>3, TailEnds
    <3>5. Head(evt).type # "ERROR"
      BY <3>1, <3>4 DEF Errors
    <3>6. vmState' # "ERROR"
      <4>1. CASE RecvState
        BY <1>8, <2>2, <3>3, <4>1 DEF RecvState
      <4>2. QED BY <2>2, <3>2, <3>3, <3>5, <4>1
           DEF HostRecv, RecvReady, RecvAttached, RecvError
    <3>7. QED BY <3>4, <3>6 DEF AckFirst
  <2>3. QED BY <2>1, <2>2 DEF AckFirst
<1>13. PausedWatch'
  BY <1>1, <1>3, <1>4, <1>5, <1>9 DEF Watches, PausedWatch, wdVars
<1>14. StoppedWatch'
  BY <1>1, <1>3, <1>4, <1>5, <1>9, <1>10 DEF Watches, StoppedWatch, AckFirst, wdVars
<1>15. PauseAsked'
  BY <1>1, <1>3, <1>4, <1>5 DEF Watches, PauseAsked
<1>16. QED BY <1>6, <1>7, <1>11, <1>12, <1>13, <1>14, <1>15 DEF Watches

(* The states a running worker tells, and whether an event overrules.           *)
LEMMA Tellings ==
    ASSUME Types, NEW s \in {"READY", "CONFIGURED", "RUNNING", "PAUSED"}, Tells(s),
           NEW S \in SUBSET VmState
    PROVE  /\ s \notin S => Overruled(S)'
           /\ s \notin S /\ Untold(S) => Untold(S)'
           /\ \A G, B : BeginsIn(evt, G, B) => BeginsIn(evt', G, B)
<1>1. StateEvt(s) \in Evt /\ s \in VmState /\ evt \in Seq(Evt)
  BY MessageTypes DEF VmState, Types, Channels
<1>2. s \notin S => StateEvt(s) \in Overruling(S) /\ StateEvt(s) \notin States(S)
  BY <1>1, EventClasses
<1>3. QED BY <1>1, <1>2, Posting DEF Tells

(* Errors and acknowledgements leave the host in none of the states.            *)
LEMMA Reports ==
    ASSUME Types, NEW m \in Evt, m.type \in {"ERROR", "READY", "ATTACHED"}, Post(<<m>>)
    PROVE  /\ \A S \in SUBSET VmState :
                /\ m.type = "ERROR" => Overruled(S)'
                /\ Overruled(S) => Overruled(S)'
                /\ Untold(S) => Untold(S)'
           /\ \A G, B : BeginsIn(evt, G, B) => BeginsIn(evt', G, B)
<1>1. evt \in Seq(Evt)
  BY DEF Types, Channels
<1>2. ASSUME NEW S \in SUBSET VmState
      PROVE  m \notin States(S) /\ (m.type = "ERROR" => m \in Overruling(S))
  BY DEF States, Overruling, Errors
<1>3. QED BY <1>1, <1>2, Posting

LEMMA Pair ==
    ASSUME NEW S, NEW x \in S, NEW y \in S
    PROVE  <<x>> \o <<y>> = <<x, y>>
<1>1. <<x>> \in Seq(S) /\ <<y>> \in Seq(S) /\ <<x, y>> \in Seq(S)
      /\ Len(<<x>>) = 1 /\ Len(<<y>>) = 1 /\ Len(<<x, y>>) = 2
  OBVIOUS
<1>2. <<x>> \o <<y>> \in Seq(S) /\ Len(<<x>> \o <<y>>) = 2
      /\ \A i \in 1..2 : (<<x>> \o <<y>>)[i] = IF i <= 1 THEN <<x>>[i] ELSE <<y>>[i - 1]
  BY <1>1, ConcatProperties
<1>3. \A i \in 1..2 : (<<x>> \o <<y>>)[i] = <<x, y>>[i]
  BY <1>2
<1>4. QED BY <1>1, <1>2, <1>3, SeqEqual

LEMMA TwoInTurn ==
    ASSUME NEW S, NEW q \in Seq(S), NEW x \in S, NEW y \in S
    PROVE  Append(q, x) \in Seq(S) /\ q \o <<x, y>> = Append(Append(q, x), y)
<1>1. Append(q, x) \in Seq(S) /\ Append(q, x) = q \o <<x>>
      /\ Append(Append(q, x), y) = Append(q, x) \o <<y>>
  BY AppendIsConcat, AppendProperties
<1>2. <<x>> \in Seq(S) /\ <<y>> \in Seq(S) /\ <<x>> \o <<y>> = <<x, y>>
  BY Pair
<1>3. (q \o <<x>>) \o <<y>> = q \o (<<x>> \o <<y>>)
  BY <1>2, ConcatAssociative
<1>4. QED BY <1>1, <1>2, <1>3

LEMMA Initializing ==
    ASSUME Types, CmdInit
    PROVE  /\ \A S \in SUBSET VmState : "READY" \notin S =>
                Overruled(S)' /\ (Untold(S) => Untold(S)')
           /\ \A G, B : BeginsIn(evt, G, B) => BeginsIn(evt', G, B)
           /\ evt = <<>> => BeginsIn(evt', {[type |-> "READY"]}, Errors)
<1> DEFINE a == StateEvt("READY")
           b == [type |-> "READY"]
           r == Append(evt, a)
<1>1. evt \in Seq(Evt) /\ a \in Evt /\ b \in Evt
  BY MessageTypes DEF Types, Channels, VmState
<1>2. r \in Seq(Evt) /\ evt' = Append(r, b)
  BY <1>1, TwoInTurn DEF CmdInit, Post
<1>3. "READY" \in VmState
  BY DEF VmState
<1> HIDE DEF a, b, r
<1>4. ASSUME NEW S \in SUBSET VmState, "READY" \notin S
      PROVE  Overruled(S)' /\ (Untold(S) => Untold(S)')
  <2>1. a \in Overruling(S) /\ a \notin States(S) /\ b \notin States(S)
    BY <1>3, <1>4, EventClasses DEF a, b
  <2>2. EndsIn(r, Overruling(S), States(S)) /\ (NoneIn(evt, States(S)) => NoneIn(r, States(S)))
    BY <1>1, <2>1, AppendEnds DEF r
  <2>3. EndsIn(evt', Overruling(S), States(S)) /\ (NoneIn(r, States(S)) => NoneIn(evt', States(S)))
    BY <1>1, <1>2, <2>1, <2>2, AppendEnds
  <2>4. Overruled(S)' = EndsIn(evt', Overruling(S), States(S)) /\ Untold(S)' = NoneIn(evt', States(S))
    BY DEF Overruled, Overruling, States, Errors, Untold
  <2>5. QED BY <2>2, <2>3, <2>4 DEF Untold
<1>5. ASSUME NEW G, NEW B, BeginsIn(evt, G, B)
      PROVE  BeginsIn(evt', G, B)
  <2>1. BeginsIn(r, G, B)
    BY <1>1, <1>5, AppendEnds DEF r
  <2>2. QED BY <1>1, <1>2, <2>1, AppendEnds
<1>6. ASSUME evt = <<>>
      PROVE  BeginsIn(evt', {[type |-> "READY"]}, Errors)
  <2>1. evt' = <<a, b>>
    BY <1>6 DEF CmdInit, Post, a, b
  <2>2. DOMAIN evt' = {1, 2} /\ evt'[1] = a /\ evt'[2] = b
    BY <2>1
  <2>3. a \notin Errors /\ b = [type |-> "READY"]
    BY DEF Errors, a, b, StateEvt
  <2>4. QED BY <2>2, <2>3 DEF BeginsIn
<1>7. QED BY <1>4, <1>5, <1>6

LEMMA Watched == {"RUNNING"} \in SUBSET VmState /\ {"PAUSED"} \in SUBSET VmState
                 /\ {"RUNNING", "PAUSED"} \in SUBSET VmState /\ {"UNINITIALIZED", "ERROR"} \in SUBSET VmState
BY DEF VmState

(* The worker reports without touching its commands; its CPU may stop with an error. *)
LEMMA WatchesReport ==
    ASSUME Types, Boots, Watches, NEW m \in Evt, m.type \in {"ERROR", "ATTACHED"}, Post(<<m>>),
           UNCHANGED <<vmState, createWait, workerRef, wdVars, wAlive, cmd, isPaused>>,
           isRunning /\ ~isRunning' => m.type = "ERROR", isRunning' => isRunning,
           isRunning \/ loading # {}, loading' \subseteq loading
    PROVE  Watches'
<1>1. \A S \in SUBSET VmState :
         /\ m.type = "ERROR" => Overruled(S)'
         /\ Overruled(S) => Overruled(S)'
         /\ Untold(S) => Untold(S)'
  BY Reports
<1>2. \A G, B : BeginsIn(evt, G, B) => BeginsIn(evt', G, B)
  BY Reports
<1>3. UNCHANGED <<wdActive, wdTimer>>
  BY DEF wdVars
<1>4. \A S : NotLeftIn(S)' <=> (Overruled(S)' \/ (Untold(S)' /\ vmState \notin S))
  BY DEF NotLeftIn
<1>5. Untouched' /\ AckFirst'
  BY <1>2, <1>3 DEF Watches, Untouched, AckFirst
<1>6. ToldStates' /\ StopTold'
  BY <1>1, Watched DEF Watches, ToldStates, StopTold, CpuRuns
<1>7. PausedWatch' /\ StoppedWatch' /\ PauseAsked'
  BY <1>1, <1>3, <1>4, Watched
  DEF Watches, PausedWatch, StoppedWatch, PauseAsked, NotLeftIn, CpuRuns
<1>8. QED BY <1>5, <1>6, <1>7 DEF Watches

LEMMA WatchesWork == Types /\ Boots /\ Watches /\ WorkerRecv => Watches'
<1> SUFFICES ASSUME Types, Boots, Watches, WorkerRecv PROVE Watches'
  OBVIOUS
<1> DEFINE h == Head(cmd).type
           R == {"RUNNING"}
           P == {"PAUSED"}
           RP == {"RUNNING", "PAUSED"}
           SR == {"START", "RESUME"}
<1>1. /\ UNCHANGED <<vmState, createWait, workerRef, wdActive, wdTimer, wAlive>>
      /\ wAlive /\ workerRef # "null" /\ cmd # <<>>
  BY Handling DEF WorkerRecv, Boots, WorkerKept
<1>2. \A S : NotLeftIn(S)' <=> (Overruled(S)' \/ (Untold(S)' /\ vmState \notin S))
  BY <1>1 DEF NotLeftIn
<1>3. /\ EndsIn(cmd, Commands({"PAUSE"}), Commands(SR)) =>
           \/ EndsIn(cmd', Commands({"PAUSE"}), Commands(SR))
           \/ h = "PAUSE" /\ NoneIn(cmd', Commands(SR))
      /\ NoneIn(cmd, Commands(SR)) => NoneIn(cmd', Commands(SR)) /\ h \notin SR
  BY Taking, Zenon
<1>4. /\ EndsIn(cmd, Commands({"RESET"}), Commands({"START"})) =>
           \/ EndsIn(cmd', Commands({"RESET"}), Commands({"START"}))
           \/ h = "RESET" /\ NoneIn(cmd', Commands({"START"}))
      /\ NoneIn(cmd, Commands({"START"})) => NoneIn(cmd', Commands({"START"})) /\ h # "START"
  BY Taking
<1>5. NoneIn(cmd', Commands({"PAUSE"})) /\ h # "PAUSE" => NoneIn(cmd, Commands({"PAUSE"}))
  BY Taking
<1>6. Untouched'
  BY <1>1 DEF Untouched
<1>7. SUFFICES ToldStates' /\ AckFirst' /\ StopTold' /\ PausedWatch' /\ StoppedWatch' /\ PauseAsked'
  BY <1>6 DEF Watches
<1>8. CASE h = "INIT" /\ CmdInit /\ UNCHANGED <<isRunning, isPaused, loading>>
  <2>1. \A S \in SUBSET VmState : "READY" \notin S =>
           Overruled(S)' /\ (Untold(S) => Untold(S)')
    BY <1>8, Initializing
  <2>2. ToldStates' /\ StopTold' /\ PauseAsked'
    BY <1>2, <2>1, Watched DEF Watches, ToldStates, StopTold, PauseAsked
  <2>3. AckFirst'
    BY <1>1, <1>8, Initializing DEF Watches, AckFirst
  <2>4. PausedWatch'
    BY <1>1, <1>2, <1>3, <1>8, <2>1, Watched DEF Watches, PausedWatch, CpuRuns
  <2>5. StoppedWatch'
    BY <1>1, <1>2, <1>4, <1>8, <2>1, Watched DEF Watches, StoppedWatch
  <2>6. QED BY <2>2, <2>3, <2>4, <2>5
<1>9. CASE h = "LOAD_BOOT" /\ Tells("CONFIGURED") /\ UNCHANGED <<isRunning, isPaused, loading>>
  <2>1. \A S \in SUBSET VmState : "CONFIGURED" \notin S =>
           Overruled(S)' /\ (Untold(S) => Untold(S)')
    BY <1>9, Tellings
  <2>2. \A G, B : BeginsIn(evt, G, B) => BeginsIn(evt', G, B)
    BY <1>9, Tellings, Watched
  <2>3. ToldStates' /\ StopTold' /\ PauseAsked'
    BY <1>2, <2>1, Watched DEF Watches, ToldStates, StopTold, PauseAsked
  <2>4. AckFirst'
    BY <1>1, <1>9, <2>2 DEF Watches, AckFirst
  <2>5. PausedWatch'
    BY <1>1, <1>2, <1>3, <1>9, <2>1, Watched DEF Watches, PausedWatch, CpuRuns
  <2>6. StoppedWatch'
    BY <1>1, <1>2, <1>4, <1>9, <2>1, Watched DEF Watches, StoppedWatch
  <2>7. QED BY <2>3, <2>4, <2>5, <2>6
<1>10. CASE h = "START" /\ ~isRunning /\ isRunning' /\ ~isPaused' /\ Tells("RUNNING")
            /\ UNCHANGED loading
  <2>1. \A S \in SUBSET VmState : "RUNNING" \notin S =>
           Overruled(S)' /\ (Untold(S) => Untold(S)')
    BY <1>10, Tellings
  <2>2. \A G, B : BeginsIn(evt, G, B) => BeginsIn(evt', G, B)
    BY <1>10, Tellings, Watched
  <2>3. ToldStates' /\ StopTold' /\ PauseAsked'
    BY <1>2, <1>10, <2>1, Watched DEF Watches, ToldStates, StopTold, PauseAsked, CpuRuns
  <2>4. AckFirst'
    BY <1>1, <1>10, <2>2 DEF Watches, AckFirst
  <2>5. PausedWatch'
    BY <1>1, <1>3, <1>10 DEF Watches, PausedWatch, CpuRuns
  <2>6. StoppedWatch'
    BY <1>1, <1>4, <1>10 DEF Watches, StoppedWatch
  <2>7. QED BY <2>3, <2>4, <2>5, <2>6
<1>11. CASE h = "PAUSE" /\ CpuRuns /\ ~CpuRuns' /\ Tells("PAUSED") /\ UNCHANGED <<isRunning, loading>>
  <2>1. \A S \in SUBSET VmState : "PAUSED" \notin S =>
           Overruled(S)' /\ (Untold(S) => Untold(S)')
    BY <1>11, Tellings
  <2>2. \A G, B : BeginsIn(evt, G, B) => BeginsIn(evt', G, B)
    BY <1>11, Tellings, Watched
  <2>3. ToldStates' /\ StopTold' /\ PauseAsked'
    BY <1>2, <1>11, <2>1, Watched DEF Watches, ToldStates, StopTold, PauseAsked
  <2>4. AckFirst'
    BY <1>1, <1>11, <2>2 DEF Watches, AckFirst
  <2>5. PausedWatch'
    BY <1>1, <1>2, <1>3, <1>11, <2>1, Watched DEF Watches, PausedWatch
  <2>6. StoppedWatch'
    BY <1>1, <1>4, <1>11 DEF Watches, StoppedWatch, CpuRuns
  <2>7. QED BY <2>3, <2>4, <2>5, <2>6
<1>12. CASE h = "RESUME" /\ isRunning /\ ~CpuRuns /\ CpuRuns' /\ Tells("RUNNING")
            /\ UNCHANGED <<isRunning, loading>>
  <2>1. \A S \in SUBSET VmState : "RUNNING" \notin S =>
           Overruled(S)' /\ (Untold(S) => Untold(S)')
    BY <1>12, Tellings
  <2>2. \A G, B : BeginsIn(evt, G, B) => BeginsIn(evt', G, B)
    BY <1>12, Tellings, Watched
  <2>3. ToldStates' /\ StopTold' /\ PauseAsked'
    BY <1>2, <1>12, <2>1, Watched DEF Watches, ToldStates, StopTold, PauseAsked
  <2>4. AckFirst'
    BY <1>1, <1>12, <2>2 DEF Watches, AckFirst
  <2>5. PausedWatch'
    BY <1>1, <1>3, <1>12 DEF Watches, PausedWatch
  <2>6. StoppedWatch'
    BY <1>1, <1>4, <1>12 DEF Watches, StoppedWatch
  <2>7. QED BY <2>3, <2>4, <2>5, <2>6
<1>13. CASE h = "RESET" /\ ~isRunning' /\ ~isPaused' /\ Tells("READY") /\ UNCHANGED loading
  <2>1. \A S \in SUBSET VmState : "READY" \notin S =>
           Overruled(S)' /\ (Untold(S) => Untold(S)')
    BY <1>13, Tellings
  <2>2. \A G, B : BeginsIn(evt, G, B) => BeginsIn(evt', G, B)
    BY <1>13, Tellings, Watched
  <2>3. ToldStates' /\ StopTold' /\ PauseAsked'
    BY <1>2, <1>13, <2>1, Watched DEF Watches, ToldStates, StopTold, PauseAsked, CpuRuns
  <2>4. AckFirst'
    BY <1>1, <1>13, <2>2 DEF Watches, AckFirst
  <2>5. PausedWatch'
    BY <1>1, <1>2, <1>3, <1>13, <2>1, Watched DEF Watches, PausedWatch, CpuRuns
  <2>6. StoppedWatch'
    BY <1>1, <1>2, <1>4, <1>13, <2>1, Watched DEF Watches, StoppedWatch
  <2>7. QED BY <2>3, <2>4, <2>5, <2>6
<1>14. CASE h \in {"START", "REGISTER"} /\ Post(<<[type |-> "ERROR"]>>)
            /\ UNCHANGED <<isRunning, isPaused, loading>>
  <2>1. \A S \in SUBSET VmState : Overruled(S)' /\ (Untold(S) => Untold(S)')
    BY <1>14, Reports, MessageTypes
  <2>2. \A G, B : BeginsIn(evt, G, B) => BeginsIn(evt', G, B)
    BY <1>14, Reports, MessageTypes
  <2>3. ToldStates' /\ StopTold' /\ PauseAsked'
    BY <1>2, <2>1, Watched DEF Watches, ToldStates, StopTold, PauseAsked
  <2>4. AckFirst'
    BY <1>1, <1>14, <2>2 DEF Watches, AckFirst
  <2>5. PausedWatch'
    BY <1>1, <1>2, <1>3, <1>14, <2>1, Watched DEF Watches, PausedWatch, CpuRuns
  <2>6. StoppedWatch'
    BY <1>1, <1>2, <1>4, <1>14, <2>1, Watched DEF Watches, StoppedWatch
  <2>7. QED BY <2>3, <2>4, <2>5, <2>6
<1>15. CASE /\ h = "START" => isRunning
            /\ h = "PAUSE" => ~CpuRuns
            /\ h = "RESUME" => ~(isRunning /\ isPaused)
            /\ h \notin {"INIT", "RESET", "LOAD_BOOT"}
            /\ UNCHANGED <<isRunning, isPaused, evt>>
  <2>1. \A S : (Overruled(S)' <=> Overruled(S)) /\ (Untold(S)' <=> Untold(S))
    BY <1>15 DEF Overruled, Untold, Overruling, States, Errors
  <2>2. CpuRuns' <=> CpuRuns
    BY <1>15 DEF CpuRuns
  <2>3. ToldStates' /\ StopTold'
    BY <1>1, <2>1, <2>2 DEF Watches, ToldStates, StopTold
  <2>4. AckFirst'
    BY <1>1, <1>15 DEF Watches, AckFirst
  <2>5. PausedWatch'
    BY <1>1, <1>2, <1>3, <1>15, <2>1, <2>2 DEF Watches, PausedWatch, NotLeftIn
  <2>6. StoppedWatch'
    BY <1>1, <1>2, <1>4, <1>15, <2>1 DEF Watches, StoppedWatch, NotLeftIn
  <2>7. PauseAsked'
    BY <1>1, <1>2, <1>5, <1>15, <2>1, <2>2 DEF Watches, PauseAsked, NotLeftIn
  <2>8. QED BY <2>3, <2>4, <2>5, <2>6, <2>7
<1>16. QED BY <1>8, <1>9, <1>10, <1>11, <1>12, <1>13, <1>14, <1>15, Handling

LEMMA WatchesOfStep == Types /\ Boots /\ Watches /\ [Next]_vars => Watches'
<1> SUFFICES ASSUME Types, Boots, Watches, [Next]_vars PROVE Watches'
  OBVIOUS
<1> USE MessageTypes
<1>1. CASE UNCHANGED vars \/ AttachBackend \/ RunQuantum
           \/ \E i \in AttachId : AttachTimeout(i)
  <2>1. UNCHANGED <<vmState, createWait, workerRef, wdVars, wAlive, isRunning, isPaused, loading,
                    cmd, evt>>
    BY <1>1 DEF vars, AttachBackend, RunQuantum, AttachTimeout, hostVars, workerVars, runVars
  <2>2. QED BY <2>1, WatchesIdle
<1>2. CASE Create
  BY <1>2, WatchesCreate
<1>3. CASE HostRecv \/ CreateTimer
  BY <1>3, WatchesHear
<1>4. CASE WorkerRecv
  BY <1>4, WatchesWork
<1>5. CASE Destroy \/ WatchdogTimeout
  <2>1. vmState' # "UNINITIALIZED"
    BY <1>5 DEF Destroy, WatchdogTimeout
  <2>2. ~wAlive' /\ evt' \in {evt, <<>>}
    <3>1. CASE workerRef # "null"
      BY <1>5, <3>1 DEF Destroy, WatchdogTimeout, Terminate
    <3>2. CASE workerRef = "null"
      BY <1>5, <3>2 DEF Destroy, WatchdogTimeout, workerVars, Boots, WorkerKept
    <3>3. QED BY <3>1, <3>2
  <2>3. QED BY <2>1, <2>2, WatchesGone
<1>6. CASE CpuFault
  <2>1. /\ [type |-> "ERROR"] \in Evt /\ Post(<<[type |-> "ERROR"]>>)
        /\ UNCHANGED <<vmState, createWait, workerRef, wdVars, wAlive, cmd, isPaused, loading>>
        /\ isRunning /\ ~isRunning'
    BY <1>6 DEF CpuFault, QuantumRuns, hostVars
  <2>2. QED BY <2>1, WatchesReport
<1>7. ASSUME NEW i \in AttachId, AttachLoaded(i) \/ AttachFailed(i)
      PROVE  Watches'
  <2>1. /\ UNCHANGED <<vmState, createWait, workerRef, wdVars, wAlive, cmd, isPaused, isRunning>>
        /\ loading # {} /\ loading' \subseteq loading
    BY <1>7 DEF AttachLoaded, AttachFailed, hostVars, runVars
  <2>2. \E m \in Evt : m.type \in {"ERROR", "ATTACHED"} /\ Post(<<m>>)
    BY <1>7 DEF AttachLoaded, AttachFailed
  <2>3. QED BY <2>1, <2>2, WatchesReport
<1>8. CASE LoadBoot
  <2>1. /\ Send([type |-> "LOAD_BOOT"]) /\ vmState \in {"READY", "CONFIGURED"}
        /\ vmState' = "CONFIGURED"
        /\ UNCHANGED <<createWait, workerRef, workerVars, evt, wdVars>>
    BY <1>8 DEF LoadBoot
  <2>2. QED BY <2>1, WatchesSend
<1>9. CASE Start
  <2>1. /\ Send([type |-> "START"]) /\ vmState' = "RUNNING" /\ wdActive' /\ wdTimer'
        /\ UNCHANGED <<createWait, workerRef, workerVars, evt>>
    BY <1>9 DEF Start, WatchdogStart
  <2>2. QED BY <2>1, WatchesSend
<1>10. CASE Pause
  <2>1. /\ Send([type |-> "PAUSE"]) /\ vmState = "RUNNING" /\ vmState' = "PAUSED"
        /\ ~wdActive' /\ UNCHANGED wdTimer
        /\ UNCHANGED <<createWait, workerRef, workerVars, evt>>
    BY <1>10 DEF Pause, WatchdogPause
  <2>2. QED BY <2>1, WatchesSend
<1>11. CASE Resume
  <2>1. /\ Send([type |-> "RESUME"]) /\ vmState = "PAUSED" /\ vmState' = "RUNNING"
        /\ wdActive' /\ UNCHANGED wdTimer
        /\ UNCHANGED <<createWait, workerRef, workerVars, evt>>
    BY <1>11 DEF Resume, WatchdogResume
  <2>2. QED BY <2>1, WatchesSend
<1>12. CASE Reset
  <2>1. /\ Send([type |-> "RESET"]) /\ vmState' = "READY" /\ ~wdActive' /\ ~wdTimer'
        /\ UNCHANGED <<createWait, workerRef, workerVars, evt>>
    BY <1>12 DEF Reset, WatchdogStop
  <2>2. QED BY <2>1, WatchesSend
<1>13. CASE AttachV86 \/ AttachDevice
  <2>1. UNCHANGED <<vmState, createWait, workerRef, wdVars, workerVars, evt>>
    BY <1>13 DEF AttachV86, AttachDevice, hostVars
  <2>2. \E m \in Cmd : m.type \in {"ATTACH", "REGISTER"} /\ Send(m)
    <3>1. CASE AttachV86
      <4>1. attachCalls + 1 \in AttachId
        BY <3>1, BoundAssumption DEF AttachV86, AttachId, BoundAssumption, Types, HostTypes
      <4>2. QED BY <3>1, <4>1 DEF AttachV86
    <3>2. CASE AttachDevice
      BY <3>2 DEF AttachDevice
    <3>3. QED BY <1>13, <3>1, <3>2
  <2>3. PICK m \in Cmd : m.type \in {"ATTACH", "REGISTER"} /\ Send(m)
    BY <2>2
  <2>4. QED BY <2>1, <2>3, WatchesSend
<1>14. QED BY <1>1, <1>2, <1>3, <1>4, <1>5, <1>6, <1>7, <1>8, <1>9, <1>10, <1>11, <1>12, <1>13
      DEF Next, Calls, System

LEMMA WatchesAlways == Spec => []Watches
<1>1. Init => Watches
  <2>1. ASSUME Init PROVE Watches
    <3>1. evt = <<>> /\ cmd = <<>> /\ ~wAlive /\ ~wdTimer /\ loading = {} /\ ~isRunning
      BY <2>1 DEF Init
    <3>2. ToldStates
      BY <3>1, EmptyEnds DEF ToldStates, Untold
    <3>3. QED BY <3>1, <3>2 DEF Watches, Untouched, AckFirst, StopTold, PausedWatch, StoppedWatch,
                                PauseAsked
  <2>2. QED BY <2>1
<1>2. QED BY <1>1, BootsAlways, WatchesOfStep, TypesAlways, PTL DEF Spec

-----------------------------------------------------------------------------
(* Attachments.                                                              *)

(* Only create() brings a worker, and nothing was attached before it.          *)
LEMMA KeptInStep == Types /\ Watches /\ [Next]_vars => (Kept => Kept') \/ Create
<1> SUFFICES ASSUME Types, Watches, [Next]_vars, ~Create PROVE Kept => Kept'
  OBVIOUS
<1>1. CASE UNCHANGED vars
  BY <1>1 DEF vars, workerVars, Kept
<1>2. CASE Terminate
  BY <1>2 DEF Terminate, Kept
<1>3. CASE UNCHANGED workerVars
  BY <1>3 DEF workerVars, Kept
<1>4. CASE Calls \/ Start
  BY <1>2, <1>3, <1>4
  DEF Calls, LoadBoot, Start, Pause, Resume, Reset, Destroy, AttachV86, AttachBackend,
      AttachDevice, Kept
<1>5. CASE System
  BY <1>2, <1>3, <1>5
  DEF System, CreateTimer, WatchdogTimeout, HostRecv, WorkerRecv, RunQuantum, CpuFault,
      AttachTimeout, AttachLoaded, AttachFailed, Kept
<1>6. QED BY <1>1, <1>4, <1>5 DEF Next

(* No step makes the host believe that it was never created.                  *)
LEMMA NeverBack ==
    ASSUME Types, Watches, [Next]_vars, workerRef' = "null", vmState' = "UNINITIALIZED"
    PROVE  workerRef = "null" /\ vmState = "UNINITIALIZED"
<1>1. CASE UNCHANGED vars
  BY <1>1 DEF vars, hostVars
<1>2. CASE Calls \/ Start
  BY <1>2, ModeAssumption
  DEF Calls, Create, LoadBoot, Start, Pause, Resume, Reset, Destroy, AttachV86, AttachBackend,
      AttachDevice, hostVars, ModeAssumption
<1>3. CASE HostRecv
  <2>1. workerRef = "null"
    BY <1>3 DEF HostRecv
  <2>2. vmState = "UNINITIALIZED"
    <3>1. evt # <<>> /\ evt \in Seq(Evt) /\ Head(evt) \in Within(evt)
      BY <1>3, Received DEF HostRecv, Types, Channels
    <3>2. ~(Head(evt).type = "STATE" /\ Head(evt).state = "UNINITIALIZED")
      <4>1. "UNINITIALIZED" \in VmState
        BY DEF VmState
      <4>2. QED BY <3>1, <4>1 DEF Watches, ToldStates, Untold, States, NoneIn, Within, Evt
    <3>3. QED BY <1>3, <3>2 DEF HostRecv, RecvState, RecvReady, RecvAttached, RecvError,
                               CreateReturns
  <2>3. QED BY <2>1, <2>2
<1>4. CASE System
  BY <1>3, <1>4
  DEF System, CreateTimer, CreateReturns, WatchdogTimeout, WorkerRecv, RunQuantum, CpuFault,
      AttachTimeout, AttachLoaded, AttachFailed, hostVars
<1>5. QED BY <1>1, <1>2, <1>4 DEF Next

LEMMA AttachesOfStep == Types /\ Watches /\ Attaches /\ [Next]_vars => Attaches'
<1> SUFFICES ASSUME Types, Watches, Attaches, [Next]_vars PROVE Attaches'
  OBVIOUS
<1>1. (Kept => Kept') \/ Create
  BY KeptInStep
<1>2. CASE Create
  <2>1. evt = <<>> /\ evt' = evt /\ ~v86Attached /\ v86Attached' = v86Attached
        /\ workerRef' # "null"
    BY <1>2, ModeAssumption
    DEF Create, attachVars, Watches, Untouched, Attaches, NoneAttached, ModeAssumption
  <2>2. QED BY <2>1 DEF Attaches, AttachTruthful, EventsAttached, NoneAttached, Within
<1>3. CASE Kept => Kept'
  <2>1. EventsAttached'
    <3>1. CASE Next
      BY <1>3, <3>1, EventsOfStep DEF Attaches, EventsAttached, Reported, Kept
    <3>2. CASE UNCHANGED vars
      BY <1>3, <3>2 DEF Attaches, EventsAttached, vars, workerVars
    <3>3. QED BY <3>1, <3>2
  <2>2. CASE HostRecv /\ RecvAttached
    <3>1. Kept /\ evt # <<>> /\ workerRef' = workerRef /\ vmState' = vmState
      BY <2>2, Received DEF HostRecv, RecvAttached, Types, Channels, Attaches, EventsAttached
    <3>2. AttachTruthful' /\ NoneAttached'
      BY <1>3, <3>1 DEF AttachTruthful, NoneAttached, Kept, Watches, Untouched
    <3>3. QED BY <2>1, <3>2 DEF Attaches
  <2>3. CASE AttachBackend
    BY <2>1, <2>3 DEF AttachBackend, Attaches, AttachTruthful, NoneAttached, hostVars
  <2>4. CASE v86Attached' => v86Attached
    <3>1. AttachTruthful'
      BY <1>3, <2>4 DEF Attaches, AttachTruthful, Kept
    <3>2. CASE ~v86Attached
      BY <2>1, <2>4, <3>1, <3>2 DEF Attaches, NoneAttached
    <3>3. CASE workerRef' = "null" /\ vmState' = "UNINITIALIZED"
      <4>1. workerRef = "null" /\ vmState = "UNINITIALIZED"
        BY <3>3, NeverBack
      <4>2. QED BY <2>1, <2>4, <3>1, <4>1 DEF Attaches, NoneAttached
    <3>4. QED BY <2>1, <3>1, <3>3 DEF Attaches, NoneAttached
  <2>5. CASE Calls \/ Start
    BY <2>3, <2>4, <2>5
    DEF Calls, Create, LoadBoot, Start, Pause, Resume, Reset, Destroy, AttachV86, AttachDevice,
        attachVars
  <2>6. CASE System
    BY <2>2, <2>4, <2>6
    DEF System, CreateTimer, WatchdogTimeout, HostRecv, RecvState, RecvReady, RecvError,
        WorkerRecv, RunQuantum, CpuFault, AttachTimeout, AttachLoaded, AttachFailed, attachVars
  <2>7. CASE UNCHANGED vars
    BY <2>4, <2>7 DEF vars, attachVars
  <2>8. QED BY <2>5, <2>6, <2>7 DEF Next
<1>4. QED BY <1>1, <1>2, <1>3

-----------------------------------------------------------------------------
(* Careful callers.                                                          *)

(* The worker's state says what its CPU does.                                  *)
CpuMatches == /\ wState = "RUNNING" <=> CpuRuns
              /\ wState = "PAUSED" <=> isRunning /\ isPaused

(* The host holds the VM for failed, or is about to.                           *)
Failed == vmState = "ERROR" \/ ~NoneIn(evt, Errors)

(* Once it has heard everything, the host agrees with the worker.              *)
Agreed == \/ Failed
          \/ EndsIn(evt, States({wState}), States(VmState))
          \/ NoneIn(evt, States(VmState)) /\ vmState = wState

(* At most one command is on its way, and the worker is in the state for it.    *)
OneCall ==
    \/ cmd = <<>> /\ Agreed
    \/ /\ Len(cmd) = 1
       /\ \/ cmd[1].type \in {"INIT", "LOAD_BOOT", "START"} /\ ~isRunning
          \/ cmd[1].type = "PAUSE" /\ (CpuRuns \/ Failed)
          \/ cmd[1].type = "RESUME" /\ isRunning /\ isPaused
          \/ cmd[1].type = "RESET"
          \/ cmd[1].type \in {"ATTACH", "REGISTER"} /\ Agreed

AckMatches ==
    createWait => \/ cmd # <<>> /\ cmd[1].type = "INIT"
                  \/ cmd = <<>> /\ wState = "READY"

InStep == CpuMatches /\ (wAlive => OneCall /\ AckMatches)

(* Hearing an event leaves the host agreed, and failed.                        *)
LEMMA AgreedHear ==
    ASSUME Types, Watches, wAlive, HostRecv, createWait => wState = "READY" \/ ~Agreed
    PROVE  (Failed => Failed') /\ (Agreed => Agreed')
<1>1. evt \in Seq(Evt) /\ evt # <<>> /\ evt' = Tail(evt) /\ Head(evt) \in Evt /\ wState' = wState
  BY Received DEF HostRecv, Types, Channels, workerVars
<1>2. /\ Head(evt).type = "STATE" => vmState' = IF vmState = "ERROR" THEN "ERROR" ELSE Head(evt).state
      /\ Head(evt).type = "ERROR" => vmState' = "ERROR"
      /\ vmState' = vmState \/ Head(evt).type \in {"STATE", "ERROR"}
            \/ (createWait /\ Head(evt).type = "READY" /\ vmState' = "READY")
  BY DEF HostRecv, RecvState, RecvReady, RecvAttached, RecvError, CreateReturns
<1>3. createWait => vmState # "ERROR"
  BY DEF Watches, AckFirst
<1>4. ASSUME Failed PROVE Failed'
  <2>1. CASE vmState = "ERROR"
    BY <1>2, <1>3, <2>1 DEF Failed
  <2>2. CASE ~NoneIn(evt, Errors)
    <3>1. Head(evt) \in Errors \/ ~NoneIn(evt', Errors)
      BY <1>1, <2>2, TailEnds
    <3>2. CASE Head(evt) \in Errors
      BY <1>2, <3>2 DEF Errors, Failed
    <3>3. CASE ~NoneIn(evt', Errors)
      BY <3>3 DEF Failed, Errors
    <3>4. QED BY <3>1, <3>2, <3>3
  <2>3. QED BY <1>4, <2>1, <2>2 DEF Failed
<1>5. ASSUME Agreed, ~Failed PROVE Agreed'
  <2>1. createWait => wState = "READY"
    BY <1>5
  <2>2. Head(evt).type = "ERROR" => Failed'
    BY <1>2 DEF Failed
  <2>3. CASE EndsIn(evt, States({wState}), States(VmState))
    <3>1. \/ EndsIn(evt', States({wState}), States(VmState))
          \/ Head(evt) \in States({wState}) /\ NoneIn(evt', States(VmState))
      BY <1>1, <2>3, TailEnds
    <3>2. CASE Head(evt) \in States({wState}) /\ NoneIn(evt', States(VmState))
      <4>1. vmState' = wState \/ vmState' = "ERROR"
        BY <1>2, <3>2 DEF States
      <4>2. QED BY <1>1, <3>2, <4>1 DEF Agreed, Failed, States
    <3>3. QED BY <1>1, <3>1, <3>2 DEF Agreed, States
  <2>4. CASE NoneIn(evt, States(VmState)) /\ vmState = wState
    <3>1. NoneIn(evt', States(VmState)) /\ Head(evt) \notin States(VmState)
      BY <1>1, <2>4, TailEnds
    <3>2. Head(evt).type # "STATE"
      BY <1>1, <3>1, MessageTypes DEF States
    <3>3. vmState' = wState \/ Head(evt).type = "ERROR"
      BY <1>2, <2>1, <2>4, <3>2
    <3>4. QED BY <1>1, <2>2, <3>1, <3>3 DEF Agreed, States
  <2>5. QED BY <1>5, <2>3, <2>4 DEF Agreed
<1>6. QED BY <1>4, <1>5 DEF Agreed

(* Posting: a told state is the worker's, an error fails, an ack changes nothing. *)
LEMMA AgreedPost ==
    ASSUME Types, NEW m \in Evt, Post(<<m>>), vmState' = vmState
    PROVE  /\ Failed => Failed'
           /\ m.type = "ERROR" => Failed'
           /\ m = StateEvt(wState') /\ wState' \in VmState => Agreed'
           /\ m.type # "STATE" /\ wState' = wState /\ Agreed => Agreed'
<1>1. evt \in Seq(Evt) /\ evt' = Append(evt, m)
  BY Posting DEF Types, Channels
<1>2. NoneIn(evt', Errors) => NoneIn(evt, Errors) /\ m \notin Errors
  BY <1>1, AppendEnds
<1>3. (Failed => Failed') /\ (m.type = "ERROR" => Failed')
  BY <1>2 DEF Failed, Errors
<1>4. ASSUME m = StateEvt(wState'), wState' \in VmState PROVE Agreed'
  <2>1. m \in States({wState'})
    BY <1>4 DEF States, StateEvt
  <2>2. EndsIn(evt', States({wState'}), States(VmState))
    BY <1>1, <2>1, AppendEnds
  <2>3. QED BY <2>2 DEF Agreed, States
<1>5. ASSUME m.type # "STATE", wState' = wState, Agreed PROVE Agreed'
  <2>1. m \notin States(VmState)
    BY <1>5 DEF States
  <2>2. /\ EndsIn(evt, States({wState}), States(VmState)) => EndsIn(evt', States({wState}), States(VmState))
        /\ NoneIn(evt, States(VmState)) => NoneIn(evt', States(VmState))
    BY <1>1, <2>1, AppendEnds
  <2>3. QED BY <1>3, <1>5, <2>2 DEF Agreed, States
<1>6. QED BY <1>3, <1>4, <1>5

(* A careful call meets a worker that the host knows.                          *)
LEMMA Known ==
    ASSUME InStep, Settled
    PROVE  cmd = <<>> /\ wAlive /\ ~createWait /\ (vmState = "ERROR" \/ vmState = wState)
<1>1. cmd = <<>> /\ wAlive /\ ~createWait /\ evt = <<>>
  BY DEF Settled
<1>2. Agreed
  BY <1>1, LenProperties DEF InStep, OneCall
<1>3. QED BY <1>1, <1>2, EmptyEnds DEF Agreed, Failed

LEMMA InStepSend ==
    ASSUME Types, Boots, InStep, Quiet, NEW m \in Cmd, Send(m),
           UNCHANGED <<createWait, workerRef, workerVars, evt>>,
           \/ m.type \in {"LOAD_BOOT", "START"} /\ vmState \in {"READY", "CONFIGURED"}
           \/ m.type = "PAUSE" /\ vmState = "RUNNING"
           \/ m.type = "RESUME" /\ vmState = "PAUSED"
           \/ m.type = "RESET"
           \/ m.type \in {"ATTACH", "REGISTER"} /\ UNCHANGED vmState
    PROVE  InStep'
<1>1. UNCHANGED <<wAlive, wState, isRunning, isPaused>>
  BY DEF workerVars, runVars
<1>2. CpuMatches'
  BY <1>1 DEF InStep, CpuMatches, CpuRuns
<1>3. ASSUME wAlive' PROVE OneCall' /\ AckMatches'
  <2>1. Settled /\ workerRef # "null" /\ wAlive
    BY <1>1, <1>3 DEF Quiet, Boots, WorkerKept
  <2>2. cmd = <<>> /\ ~createWait /\ (vmState = "ERROR" \/ vmState = wState)
    BY <2>1, Known
  <2>3. cmd' = Append(<<>>, m)
    BY <2>1, <2>2 DEF Send
  <2>4. Len(cmd') = 1 /\ cmd'[1] = m
    BY <2>3
  <2>5. m.type \in {"ATTACH", "REGISTER"} => Agreed'
    <3>1. evt' = <<>>
      BY <2>1 DEF Settled
    <3>2. NoneIn(evt', States(VmState)) /\ NoneIn(evt', Errors)
      BY <3>1, EmptyEnds
    <3>3. QED BY <1>1, <2>2, <3>2 DEF Agreed, Failed, States, Errors
  <2>6. AckMatches'
    BY <2>2 DEF AckMatches
  <2>7. wState = "RUNNING" <=> isRunning /\ ~isPaused
    BY DEF InStep, CpuMatches, CpuRuns
  <2>8. wState = "PAUSED" <=> isRunning /\ isPaused
    BY DEF InStep, CpuMatches
  <2>9. CASE m.type \in {"LOAD_BOOT", "START"}
    <3>1. wState # "RUNNING" /\ wState # "PAUSED"
      BY <2>2, <2>9
    <3>2. ~isRunning'
      BY <1>1, <2>7, <2>8, <3>1
    <3>3. QED BY <2>4, <2>6, <2>9, <3>2 DEF OneCall
  <2>10. CASE m.type = "PAUSE"
    <3>1. wState = "RUNNING"
      BY <2>2, <2>10
    <3>2. CpuRuns'
      BY <1>1, <2>7, <3>1 DEF CpuRuns
    <3>3. QED BY <2>4, <2>6, <2>10, <3>2 DEF OneCall
  <2>11. CASE m.type = "RESUME"
    <3>1. wState = "PAUSED"
      BY <2>2, <2>11
    <3>2. isRunning' /\ isPaused'
      BY <1>1, <2>8, <3>1
    <3>3. QED BY <2>4, <2>6, <2>11, <3>2 DEF OneCall
  <2>12. CASE m.type \in {"RESET", "ATTACH", "REGISTER"}
    BY <2>4, <2>5, <2>6, <2>12 DEF OneCall
  <2>13. QED BY <2>9, <2>10, <2>11, <2>12
<1>4. QED BY <1>2, <1>3 DEF InStep

LEMMA InStepGone ==
    ASSUME InStep, ~wAlive', (Terminate \/ UNCHANGED workerVars)
    PROVE  InStep'
BY DEF InStep, CpuMatches, CpuRuns, Terminate, workerVars, runVars

LEMMA InStepHear == Types /\ Boots /\ Watches /\ InStep /\ (HostRecv \/ CreateTimer) => InStep'
<1> SUFFICES ASSUME Types, Boots, Watches, InStep, HostRecv \/ CreateTimer PROVE InStep'
  OBVIOUS
<1>1. UNCHANGED <<wAlive, wState, isRunning, isPaused, cmd>> /\ (createWait' => createWait)
  BY DEF HostRecv, RecvState, RecvReady, RecvAttached, RecvError, CreateTimer, CreateReturns,
         workerVars, runVars
<1>2. CpuMatches'
  BY <1>1 DEF InStep, CpuMatches, CpuRuns
<1>3. ASSUME wAlive PROVE OneCall' /\ AckMatches'
  <2>1. OneCall /\ AckMatches
    BY <1>3 DEF InStep
  <2>2. AckMatches'
    BY <1>1, <2>1 DEF AckMatches
  <2>3. createWait /\ cmd # <<>> => cmd[1].type = "INIT"
    BY <2>1 DEF AckMatches
  <2>4. createWait /\ cmd = <<>> => wState = "READY"
    BY <2>1, LenProperties DEF AckMatches
  <2>5. CASE HostRecv
    <3>1. ASSUME createWait => wState = "READY" \/ ~Agreed
          PROVE  (Failed => Failed') /\ (Agreed => Agreed')
      BY <1>3, <2>5, <3>1, AgreedHear
    <3>2. CASE cmd = <<>> /\ Agreed
      BY <1>1, <2>2, <2>4, <3>1, <3>2 DEF OneCall
    <3>3. CASE cmd # <<>>
      <4>1. CASE createWait
        BY <1>1, <2>2, <2>1, <2>3, <3>3, <4>1 DEF OneCall
      <4>2. CASE ~createWait
        <5>1. (Failed => Failed') /\ (Agreed => Agreed') /\ (CpuRuns' <=> CpuRuns)
          BY <1>1, <3>1, <4>2 DEF CpuRuns
        <5>2. QED BY <1>1, <2>2, <2>1, <3>3, <5>1 DEF OneCall
      <4>3. QED BY <4>1, <4>2
    <3>4. QED BY <2>1, <3>2, <3>3 DEF OneCall
  <2>6. CASE CreateTimer
    <3>1. createWait /\ evt' = evt /\ vmState' = "READY"
      BY <2>6 DEF CreateTimer, CreateReturns
    <3>2. CASE cmd # <<>>
      BY <1>1, <2>2, <2>1, <2>3, <3>1, <3>2 DEF OneCall
    <3>3. CASE cmd = <<>> /\ Agreed
      <4>1. vmState # "ERROR"
        BY <1>3, <3>1 DEF Watches, AckFirst
      <4>2. Agreed'
        BY <1>1, <2>4, <3>1, <3>3, <4>1 DEF Agreed, Failed, States, Errors
      <4>3. QED BY <1>1, <2>2, <3>3, <4>2 DEF OneCall
    <3>4. QED BY <2>1, <3>2, <3>3 DEF OneCall
  <2>7. QED BY <2>2, <2>5, <2>6
<1>4. QED BY <1>1, <1>2, <1>3 DEF InStep

LEMMA InStepReport ==
    ASSUME Types, Boots, Watches, InStep, NEW m \in Evt, m.type \in {"ERROR", "ATTACHED"}, Post(<<m>>),
           UNCHANGED <<vmState, createWait, wAlive, cmd>>,
           \/ UNCHANGED <<wState, isRunning, isPaused>>
           \/ m.type = "ERROR" /\ CpuRuns /\ ~isRunning' /\ wState' = "ERROR"
    PROVE  InStep'
<1>1. /\ Failed => Failed'
      /\ m.type = "ERROR" => Failed'
      /\ wState' = wState /\ Agreed => Agreed'
  BY AgreedPost
<1>2. CpuMatches'
  BY DEF InStep, CpuMatches, CpuRuns
<1>3. ASSUME wAlive PROVE OneCall' /\ AckMatches'
  <2>1. OneCall /\ AckMatches
    BY <1>3 DEF InStep
  <2>2. CASE UNCHANGED <<wState, isRunning, isPaused>>
    <3>1. CpuRuns' <=> CpuRuns
      BY <2>2 DEF CpuRuns
    <3>2. QED BY <1>1, <2>1, <2>2, <3>1 DEF OneCall, AckMatches
  <2>3. CASE m.type = "ERROR" /\ CpuRuns /\ ~isRunning' /\ wState' = "ERROR"
    <3>1. Failed' /\ Agreed'
      BY <1>1, <2>3 DEF Agreed
    <3>2. isRunning /\ ~isPaused /\ wState = "RUNNING"
      BY <2>3 DEF CpuRuns, InStep, CpuMatches
    <3>3. QED BY <2>1, <3>1, <3>2 DEF OneCall, AckMatches
  <2>4. QED BY <2>2, <2>3
<1>4. QED BY <1>2, <1>3 DEF InStep

(* What the worker tells is its state.                                         *)
LEMMA HandlingStates ==
    ASSUME Types, WorkerRecv
    PROVE  \/ Head(cmd).type = "INIT" /\ wState' = "READY" /\ UNCHANGED <<isRunning, isPaused>>
                /\ Post(<<StateEvt("READY"), [type |-> "READY"]>>)
           \/ /\ Head(cmd).type = "LOAD_BOOT" /\ wState' = "CONFIGURED" /\ Tells("CONFIGURED")
              /\ UNCHANGED <<isRunning, isPaused>>
           \/ Head(cmd).type = "START" /\ isRunning' /\ ~isPaused' /\ wState' = "RUNNING" /\ Tells("RUNNING")
           \/ Head(cmd).type = "START" /\ isRunning /\ UNCHANGED <<wState, isRunning, isPaused, evt>>
           \/ /\ Head(cmd).type = "PAUSE" /\ isRunning' /\ isPaused' /\ wState' = "PAUSED" /\ Tells("PAUSED")
           \/ /\ Head(cmd).type = "PAUSE" /\ ~CpuRuns /\ UNCHANGED <<wState, isRunning, isPaused, evt>>
           \/ /\ Head(cmd).type = "RESUME" /\ isRunning' /\ ~isPaused' /\ wState' = "RUNNING" /\ Tells("RUNNING")
           \/ /\ Head(cmd).type = "RESUME" /\ ~(isRunning /\ isPaused)
              /\ UNCHANGED <<wState, isRunning, isPaused, evt>>
           \/ /\ Head(cmd).type = "RESET" /\ ~isRunning' /\ wState' = "READY" /\ Tells("READY")
           \/ /\ Head(cmd).type \in {"START", "REGISTER"} /\ Post(<<[type |-> "ERROR"]>>)
              /\ UNCHANGED <<wState, isRunning, isPaused>>
           \/ /\ Head(cmd).type \in {"ATTACH", "REGISTER"}
              /\ UNCHANGED <<wState, isRunning, isPaused, evt>>
<1> USE DEF CpuRuns, Tells, runVars
<1>1. CASE CmdInit
  BY <1>1 DEF CmdInit
<1>2. CASE CmdLoadBoot
  BY <1>2 DEF CmdLoadBoot
<1>3. CASE CmdStart
  BY <1>3 DEF CmdStart, StartRuns
<1>4. CASE CmdPause
  BY <1>4 DEF CmdPause
<1>5. CASE CmdResume
  BY <1>5 DEF CmdResume
<1>6. CASE CmdReset
  BY <1>6 DEF CmdReset
<1>7. CASE CmdAttachV86 \/ CmdRegisterDevice
  BY <1>7 DEF CmdAttachV86, CmdRegisterDevice
<1>8. QED BY <1>1, <1>2, <1>3, <1>4, <1>5, <1>6, <1>7 DEF WorkerRecv

LEMMA InStepWork == Types /\ Boots /\ Watches /\ InStep /\ WorkerRecv => InStep'
<1> SUFFICES ASSUME Types, Boots, Watches, InStep, WorkerRecv PROVE InStep'
  OBVIOUS
<1> DEFINE h == Head(cmd).type
<1>1. /\ wAlive /\ UNCHANGED <<vmState, createWait, wAlive>> /\ cmd # <<>> /\ cmd' = Tail(cmd)
      /\ OneCall /\ AckMatches
  BY DEF WorkerRecv, hostVars, InStep
<1>2. Len(cmd) = 1 /\ Head(cmd) = cmd[1] /\ cmd' = <<>>
  <2>1. Len(cmd) = 1
    BY <1>1, LenProperties DEF OneCall
  <2>2. Head(cmd) = cmd[1] /\ DOMAIN Tail(cmd) = 1..0 /\ Tail(cmd) \in Seq(Cmd)
    BY <1>1, <2>1, Received DEF Types, Channels
  <2>3. Len(Tail(cmd)) = 0
    BY <1>1, <2>1, HeadTailProperties DEF Types, Channels
  <2>4. Tail(cmd) = <<>>
    BY <2>2, <2>3, EmptySeq
  <2>5. QED BY <1>1, <2>1, <2>2, <2>4
<1>3. \/ h \in {"INIT", "LOAD_BOOT", "START"} /\ ~isRunning
      \/ h = "PAUSE" /\ (CpuRuns \/ Failed)
      \/ h = "RESUME" /\ isRunning /\ isPaused
      \/ h = "RESET"
      \/ h \in {"ATTACH", "REGISTER"} /\ Agreed
  BY <1>1, <1>2 DEF OneCall
<1>4. createWait => h = "INIT"
  BY <1>1, <1>2 DEF AckMatches
<1>5. wState \in VmState /\ (wState = "RUNNING" <=> isRunning /\ ~isPaused)
      /\ (wState = "PAUSED" <=> isRunning /\ isPaused)
  BY DEF InStep, CpuMatches, CpuRuns, Types, WorkerTypes
<1>6. ASSUME NEW s \in {"READY", "CONFIGURED", "RUNNING", "PAUSED"}, Tells(s), wState' = s
      PROVE  Agreed'
  <2>1. s \in VmState /\ StateEvt(s) \in Evt
    BY MessageTypes DEF VmState
  <2>2. QED BY <1>1, <1>6, <2>1, AgreedPost DEF Tells
<1>7. SUFFICES CpuMatches' /\ Agreed' /\ (createWait => wState' = "READY")
  BY <1>1, <1>2 DEF InStep, OneCall, AckMatches
<1> HIDE DEF h
<1>8. CASE h = "INIT" /\ wState' = "READY" /\ UNCHANGED <<isRunning, isPaused>>
           /\ Post(<<StateEvt("READY"), [type |-> "READY"]>>)
  <2>1. CpuMatches'
    BY <1>3, <1>8 DEF CpuMatches, CpuRuns
  <2>2. Agreed'
    <3>1. evt' = Append(Append(evt, StateEvt("READY")), [type |-> "READY"])
          /\ StateEvt("READY") \in Evt /\ [type |-> "READY"] \in Evt
          /\ Append(evt, StateEvt("READY")) \in Seq(Evt) /\ evt \in Seq(Evt)
      <4>1. evt \in Seq(Evt) /\ StateEvt("READY") \in Evt /\ [type |-> "READY"] \in Evt
        BY MessageTypes DEF Types, Channels, VmState
      <4>2. QED BY <1>8, <4>1, TwoInTurn DEF Post
    <3>2. StateEvt("READY") \in States({"READY"}) /\ [type |-> "READY"] \notin States(VmState)
      BY <3>1 DEF States, StateEvt
    <3>3. EndsIn(Append(evt, StateEvt("READY")), States({"READY"}), States(VmState))
      BY <3>1, <3>2, AppendEnds
    <3>4. EndsIn(evt', States({"READY"}), States(VmState))
      BY <3>1, <3>2, <3>3, AppendEnds
    <3>5. QED BY <1>8, <3>4 DEF Agreed, States
  <2>3. QED BY <1>8, <2>1, <2>2
<1>9. CASE h = "LOAD_BOOT" /\ wState' = "CONFIGURED" /\ Tells("CONFIGURED")
           /\ UNCHANGED <<isRunning, isPaused>>
  BY <1>3, <1>4, <1>6, <1>9 DEF CpuMatches, CpuRuns
<1>10. CASE h = "START" /\ isRunning' /\ ~isPaused' /\ wState' = "RUNNING" /\ Tells("RUNNING")
  BY <1>4, <1>6, <1>10 DEF CpuMatches, CpuRuns
<1>11. CASE h = "PAUSE" /\ isRunning' /\ isPaused' /\ wState' = "PAUSED" /\ Tells("PAUSED")
  BY <1>4, <1>6, <1>11 DEF CpuMatches, CpuRuns
<1>12. CASE h = "PAUSE" /\ ~CpuRuns /\ UNCHANGED <<wState, isRunning, isPaused, evt>>
  <2>1. Failed
    BY <1>3, <1>12
  <2>2. Agreed'
    BY <1>1, <1>12, <2>1 DEF Agreed, Failed, Errors
  <2>3. QED BY <1>4, <1>5, <1>12, <2>2 DEF CpuMatches, CpuRuns
<1>13. CASE h = "RESUME" /\ isRunning' /\ ~isPaused' /\ wState' = "RUNNING" /\ Tells("RUNNING")
  BY <1>4, <1>6, <1>13 DEF CpuMatches, CpuRuns
<1>14. CASE h = "RESET" /\ ~isRunning' /\ wState' = "READY" /\ Tells("READY")
  BY <1>6, <1>14 DEF CpuMatches, CpuRuns
<1>15. CASE h \in {"START", "REGISTER"} /\ Post(<<[type |-> "ERROR"]>>)
            /\ UNCHANGED <<wState, isRunning, isPaused>>
  <2>1. [type |-> "ERROR"] \in Evt
    BY MessageTypes
  <2>2. Agreed'
    BY <1>1, <1>15, <2>1, AgreedPost DEF Agreed
  <2>3. QED BY <1>4, <1>5, <1>15, <2>2 DEF CpuMatches, CpuRuns
<1>16. CASE h \in {"ATTACH", "REGISTER"} /\ UNCHANGED <<wState, isRunning, isPaused, evt>>
  <2>1. Agreed'
    BY <1>1, <1>3, <1>16 DEF Agreed, Failed, Errors, States
  <2>2. QED BY <1>4, <1>5, <1>16, <2>1 DEF CpuMatches, CpuRuns
<1>17. QED BY <1>3, <1>8, <1>9, <1>10, <1>11, <1>12, <1>13, <1>14, <1>15, <1>16, HandlingStates DEF h

LEMMA InStepOfStep == Types /\ Boots /\ Watches /\ InStep /\ NextQuiet => InStep'
<1> SUFFICES ASSUME Types, Boots, Watches, InStep, NextQuiet PROVE InStep'
  OBVIOUS
<1> USE MessageTypes
<1>1. CASE AttachBackend \/ RunQuantum \/ \E i \in AttachId : AttachTimeout(i)
  <2>1. UNCHANGED <<vmState, createWait, wAlive, wState, isRunning, isPaused, cmd, evt>>
    BY <1>1 DEF AttachBackend, RunQuantum, AttachTimeout, hostVars, workerVars, runVars
  <2>2. QED BY <2>1 DEF InStep, CpuMatches, CpuRuns, OneCall, AckMatches, Agreed, Failed, Errors, States
<1>2. CASE Create
  <2>1. /\ vmState = "UNINITIALIZED" /\ workerRef = "null" /\ cmd' = <<[type |-> "INIT"]>>
        /\ UNCHANGED <<wState, isRunning, isPaused>>
    BY <1>2 DEF Create, runVars
  <2>2. ~isRunning
    BY <2>1 DEF Watches, Untouched
  <2>3. cmd' # <<>> /\ Len(cmd') = 1 /\ cmd'[1].type = "INIT"
    BY <2>1
  <2>4. QED BY <2>1, <2>2, <2>3 DEF InStep, CpuMatches, CpuRuns, OneCall, AckMatches
<1>3. CASE HostRecv \/ CreateTimer
  BY <1>3, InStepHear
<1>4. CASE WorkerRecv
  BY <1>4, InStepWork
<1>5. CASE Destroy \/ WatchdogTimeout
  <2>1. ~wAlive' /\ (Terminate \/ UNCHANGED workerVars)
    <3>1. CASE workerRef # "null"
      BY <1>5, <3>1 DEF Destroy, WatchdogTimeout, Terminate
    <3>2. CASE workerRef = "null"
      BY <1>5, <3>2 DEF Destroy, WatchdogTimeout, workerVars, Boots, WorkerKept
    <3>3. QED BY <3>1, <3>2
  <2>2. QED BY <2>1, InStepGone
<1>6. CASE CpuFault
  <2>1. /\ [type |-> "ERROR"] \in Evt /\ Post(<<[type |-> "ERROR"]>>)
        /\ UNCHANGED <<vmState, createWait, wAlive, cmd>>
        /\ CpuRuns /\ ~isRunning' /\ wState' = "ERROR"
    BY <1>6 DEF CpuFault, QuantumRuns, hostVars, CpuRuns
  <2>2. QED BY <2>1, InStepReport
<1>7. ASSUME NEW i \in AttachId, AttachLoaded(i) \/ AttachFailed(i)
      PROVE  InStep'
  <2>1. UNCHANGED <<vmState, createWait, wAlive, cmd, wState, isPaused, isRunning>>
    BY <1>7 DEF AttachLoaded, AttachFailed, hostVars, runVars
  <2>2. \E m \in Evt : m.type \in {"ERROR", "ATTACHED"} /\ Post(<<m>>)
    BY <1>7 DEF AttachLoaded, AttachFailed
  <2>3. QED BY <2>1, <2>2, InStepReport
<1>8. CASE Quiet /\ (LoadBoot \/ (vmState = "CONFIGURED" /\ Start))
  <2>1. /\ vmState \in {"READY", "CONFIGURED"}
        /\ UNCHANGED <<createWait, workerRef, workerVars, evt>>
    BY <1>8 DEF LoadBoot, Start
  <2>2. Send([type |-> "LOAD_BOOT"]) \/ Send([type |-> "START"])
    BY <1>8 DEF LoadBoot, Start
  <2>3. QED BY <1>8, <2>1, <2>2, InStepSend
<1>9. CASE Quiet /\ Pause
  <2>1. /\ Send([type |-> "PAUSE"]) /\ vmState = "RUNNING"
        /\ UNCHANGED <<createWait, workerRef, workerVars, evt>>
    BY <1>9 DEF Pause
  <2>2. QED BY <1>9, <2>1, InStepSend
<1>10. CASE Quiet /\ Resume
  <2>1. /\ Send([type |-> "RESUME"]) /\ vmState = "PAUSED"
        /\ UNCHANGED <<createWait, workerRef, workerVars, evt>>
    BY <1>10 DEF Resume
  <2>2. QED BY <1>10, <2>1, InStepSend
<1>11. CASE Quiet /\ Reset
  <2>1. /\ Send([type |-> "RESET"])
        /\ UNCHANGED <<createWait, workerRef, workerVars, evt>>
    BY <1>11 DEF Reset
  <2>2. QED BY <1>11, <2>1, InStepSend
<1>12. CASE Quiet /\ (AttachV86 \/ AttachDevice)
  <2>1. UNCHANGED <<vmState, createWait, workerRef, workerVars, evt>>
    BY <1>12 DEF AttachV86, AttachDevice, hostVars
  <2>2. \E m \in Cmd : m.type \in {"ATTACH", "REGISTER"} /\ Send(m)
    <3>1. CASE AttachV86
      <4>1. attachCalls + 1 \in AttachId
        BY <3>1, BoundAssumption DEF AttachV86, AttachId, BoundAssumption, Types, HostTypes
      <4>2. QED BY <3>1, <4>1 DEF AttachV86
    <3>2. CASE AttachDevice
      BY <3>2 DEF AttachDevice
    <3>3. QED BY <1>12, <3>1, <3>2
  <2>3. PICK m \in Cmd : m.type \in {"ATTACH", "REGISTER"} /\ Send(m)
    BY <2>2
  <2>4. QED BY <1>12, <2>1, <2>3, InStepSend
<1>13. QED BY <1>1, <1>2, <1>3, <1>4, <1>5, <1>6, <1>7, <1>8, <1>9, <1>10, <1>11, <1>12
      DEF NextQuiet, Calls, System

LEMMA CarefulIsAllowed == MCSpec => Spec
<1>1. MCInit => Init
  BY DEF MCInit
<1>2. [MCNext]_<<vars, careful>> => [Next]_vars
  BY DEF MCNext, NextQuiet, Next, Calls
<1>3. QED BY <1>1, <1>2, PTL DEF MCSpec, Spec

-----------------------------------------------------------------------------
(* The two state machines, the watchdog's switches, the messages in both       *)
(* directions and the imports keep their types, whatever the bounds.           *)
THEOREM TypeCorrect == Spec => []TypeOK
<1>1. Types => TypeOK
  BY DEF Types, HostTypes, WorkerTypes, Channels, TypeOK
<1>2. QED BY <1>1, TypesAlways, PTL

(* One pending quantum while the CPU runs and none otherwise, however the       *)
(* commands follow one another (vm_worker.js:467-470).                         *)
THEOREM OneQuantumChainCorrect == Spec => []OneQuantumChain
<1>1. Init => OneQuantumChain
  BY DEF Init, OneQuantumChain
<1>2. QED BY <1>1, ChainOfStep, PTL DEF Spec

(* The host believes in a backend only if the worker has one or was terminated: *)
(* an ack that is still on its way was sent by a worker that has it, and only   *)
(* create() brings a worker (vm_runtime.js:425-436, 272-282, 506-514).          *)
THEOREM AttachTruthfulCorrect == Spec => []AttachTruthful
<1>1. Init => Attaches
  BY DEF Init, Attaches, AttachTruthful, EventsAttached, NoneAttached, Within
<1>2. Spec => []Attaches
  BY <1>1, AttachesOfStep, TypesAlways, WatchesAlways, PTL DEF Spec
<1>3. Attaches => AttachTruthful
  BY DEF Attaches
<1>4. QED BY <1>2, <1>3, PTL

(* No CPU runs before its registers are loaded, with commands crossing state    *)
(* events, resets and terminations in every order: a start that is on its way   *)
(* has the boot before it or behind it already (vm_runtime.js:454).             *)
THEOREM ExecutesBootedCorrect == Spec => []ExecutesBooted
<1>1. Boots => ExecutesBooted
  BY DEF Boots
<1>2. QED BY <1>1, BootsAlways, PTL

(* A VM that the host calls RUNNING once messages have settled is watched: a   *)
(* watchdog that stands still does so because of a pause or a reset, and what   *)
(* that does to the worker reaches the host behind every RUNNING it had been    *)
(* told (vm_runtime.js:447-501, 233-237).                                      *)
THEOREM RunningIsWatchedCorrect == Spec => []RunningIsWatched
<1>1. Types /\ Watches => RunningIsWatched
  <2> SUFFICES ASSUME Types, Watches, Settled, vmState = "RUNNING" PROVE wdActive /\ wdTimer
    BY DEF RunningIsWatched
  <2>1. cmd = <<>> /\ evt = <<>> /\ wAlive
    BY DEF Settled
  <2>2. \A G, B : ~EndsIn(cmd, G, B) /\ ~EndsIn(evt, G, B)
    BY <2>1, EmptyEnds
  <2>3. ~NotLeftIn({"RUNNING"}) /\ ~NotLeftIn({"RUNNING", "PAUSED"})
    BY <2>2 DEF NotLeftIn, Overruled
  <2>4. wdTimer
    BY <2>1, <2>2, <2>3 DEF Watches, StoppedWatch
  <2>5. wdActive
    BY <2>1, <2>2, <2>3, <2>4 DEF Watches, PausedWatch
  <2>6. QED BY <2>4, <2>5
<1>2. QED BY <1>1, TypesAlways, WatchesAlways, PTL

(* A VM that the host calls PAUSED once messages have settled executes nothing, *)
(* whatever commands and events crossed (vm_worker.js:283-310).                *)
THEOREM PausedSettledCorrect == Spec => []PausedSettled
<1>1. Watches => PausedSettled
  <2> SUFFICES ASSUME Watches, Settled, vmState = "PAUSED", QuantumRuns PROVE FALSE
    BY DEF PausedSettled
  <2>1. cmd = <<>> /\ evt = <<>> /\ wAlive /\ CpuRuns
    BY DEF Settled, QuantumRuns, CpuRuns
  <2>2. \A G, B : ~EndsIn(evt, G, B) /\ NoneIn(cmd, B)
    BY <2>1, EmptyEnds
  <2>3. ~NotLeftIn({"PAUSED"})
    BY <2>2 DEF NotLeftIn, Overruled
  <2>4. QED BY <2>1, <2>2, <2>3 DEF Watches, PauseAsked
<1>2. QED BY <1>1, WatchesAlways, PTL

(* When messages have settled, a careful caller's host and worker are in the     *)
(* same state or the host holds the VM for failed, and RUNNING means that the CPU *)
(* runs: one call is on its way at most, the worker is in the state for it, and   *)
(* the last state it told is its own (vm_runtime.js:447-501, 232-237).            *)
THEOREM AgreementIfCarefulCorrect == MCSpec => []AgreementIfCareful
<1> DEFINE I == careful => InStep
<1>1. MCInit => I
  <2>1. Init => InStep
    BY DEF Init, InStep, CpuMatches, CpuRuns
  <2>2. QED BY <2>1 DEF MCInit
<1>2. Types /\ Boots /\ Watches /\ I /\ [MCNext]_<<vars, careful>> => I'
  <2> SUFFICES ASSUME Types, Boots, Watches, I, [MCNext]_<<vars, careful>>, careful' PROVE InStep'
    OBVIOUS
  <2>1. careful /\ InStep
    BY DEF MCNext
  <2>2. CASE NextQuiet
    BY <2>1, <2>2, InStepOfStep
  <2>3. CASE UNCHANGED vars
    BY <2>1, <2>3 DEF InStep, CpuMatches, CpuRuns, OneCall, AckMatches, Agreed, Failed, Errors,
                      States, vars, hostVars, workerVars, runVars
  <2>4. QED BY <2>1, <2>2, <2>3 DEF MCNext
<1>3. Types /\ OneQuantumChain /\ I => AgreementIfCareful
  <2> SUFFICES ASSUME Types, OneQuantumChain, InStep, Settled
               PROVE  vmState \in {wState, "ERROR"} /\ (vmState = "RUNNING" => QuantumRuns)
    BY DEF AgreementIfCareful, Agreement, RunningMeansRunning
  <2>1. vmState = "ERROR" \/ vmState = wState
    BY Known
  <2>2. vmState = "RUNNING" => isRunning /\ ~isPaused
    BY <2>1 DEF InStep, CpuMatches, CpuRuns
  <2>3. isRunning /\ ~isPaused => timers > 0
    BY DEF OneQuantumChain
  <2>4. QED BY <2>1, <2>2, <2>3 DEF QuantumRuns
<1>4. Spec => [](Types /\ Boots /\ Watches /\ OneQuantumChain)
  BY TypesAlways, BootsAlways, WatchesAlways, OneQuantumChainCorrect, PTL
<1> HIDE DEF I
<1>5. QED BY <1>1, <1>2, <1>3, <1>4, CarefulIsAllowed, PTL DEF MCSpec

=============================================================================
