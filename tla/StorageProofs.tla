---------------------------- MODULE StorageProofs ----------------------------
(***************************************************************************)
(* Theorems of the storage stack, for any browser, any number of sectors,   *)
(* calls and reloads, any number of chains, with and without failures: of   *)
(* the storage actor (DiskActor) first, then of the block device in front   *)
(* of it (VirtioBlk), whose names carry Blk where both have one.            *)
(***************************************************************************)
EXTENDS DiskActor, VirtioBlk, SequenceTheorems, TLAPS

-----------------------------------------------------------------------------
(* THE STORAGE ACTOR.                                                       *)

-----------------------------------------------------------------------------
(* Types.                                                                   *)

Progress == {"idle", "init", "ready", "queued", "closing", "done", "failed", "lost"}

LEMMA TypeInit == Init => TypeOK
<1> SUFFICES ASSUME Init PROVE TypeOK
  OBVIOUS
<1> USE BoundAssumption, TypeAssumption
<1>1. queue \in Seq(Call)
  BY DEF Init
<1>2. /\ kind \in [Call -> Kind] /\ sect \in [Call -> Sector]
      /\ pc \in [Call -> Progress]
      /\ mode \in [Call -> {"auto", "memory"} \cup Store]
  BY DEF Init, Kind, Progress
<1>3. result \in [Call -> Value] /\ epoch \in [Call -> Nat]
  BY DEF Init, Value
<1>4. 0 \in Value /\ Fresh \in [Sector -> Value]
  BY DEF Fresh, Value
<1>5. /\ cache \in [Store -> [Sector -> Value]] /\ durable \in [Store -> [Sector -> Value]]
      /\ mem \in [Sector -> Value] /\ blockChecksums \in [Sector -> Value]
  BY <1>4 DEF Init
<1>6. /\ backendType \in {"auto", "memory"} \cup Store
      /\ backend \in {"null", "memory"} \cup Store
  BY DEF Init, Store
<1>7. made \in 0..MaxCalls /\ reloads \in 0..MaxReloads
  BY DEF Init
<1>8. /\ isInitialized \in BOOLEAN /\ held \in BOOLEAN /\ raced \in BOOLEAN
      /\ available \in Browser /\ opened \in [0..MaxReloads -> {"none", "memory"} \cup Store]
  BY DEF Init
<1> QED BY <1>1, <1>2, <1>3, <1>5, <1>6, <1>7, <1>8 DEF TypeOK, Progress

(* The parts of TypeOK that each step of a proof needs.                     *)
LEMMA CallsAreNumbers ==
    ASSUME NEW i \in Call
    PROVE  i \in Nat /\ i \in Value /\ i # 0 /\ i <= MaxCalls
BY BoundAssumption DEF Call, Value

(* What the helpers leave has the right types.                              *)
LEMMA TypeEnqueue ==
    ASSUME TypeOK, NEW i \in Call, Enqueue(i)
    PROVE  queue' \in Seq(Call) /\ blockChecksums' \in [Sector -> Value]
<1>1. queue' \in Seq(Call)
  BY AppendProperties DEF TypeOK, Enqueue
<1>2. i \in Value
  BY CallsAreNumbers
<1>3. blockChecksums' \in [Sector -> Value]
  BY <1>2 DEF TypeOK, Enqueue
<1> QED BY <1>1, <1>3

LEMMA TypeNewCall ==
    ASSUME TypeOK, NEW i \in Call, NEW k \in Kind, NewCall(i, k)
    PROVE  /\ made' \in 0..MaxCalls /\ kind' \in [Call -> Kind]
           /\ epoch' \in [Call -> Nat] /\ raced' \in BOOLEAN
<1>1. made' \in 0..MaxCalls
  BY BoundAssumption, CallsAreNumbers DEF NewCall, Call
<1>2. reloads \in Nat
  BY BoundAssumption DEF TypeOK
<1>3. kind' \in [Call -> Kind] /\ epoch' \in [Call -> Nat] /\ raced' \in BOOLEAN
  BY <1>2 DEF NewCall, TypeOK
<1> QED BY <1>1, <1>3

LEMMA TypeContent ==
    ASSUME TypeOK, backend # "null"
    PROVE  Content \in [Sector -> Value]
BY DEF TypeOK, Content

LEMMA TypeStored ==
    ASSUME TypeOK, NEW i \in Call, backend # "null", Stored(i)
    PROVE  /\ mem' \in [Sector -> Value]
           /\ cache' \in [Store -> [Sector -> Value]]
           /\ durable' \in [Store -> [Sector -> Value]]
<1>1. i \in Value /\ sect[i] \in Sector
  BY CallsAreNumbers DEF TypeOK
<1>2. mem' \in [Sector -> Value]
  BY <1>1 DEF Stored, TypeOK
<1>3. cache' \in [Store -> [Sector -> Value]]
  <2>1. CASE backend = "memory"
    BY <2>1 DEF Stored, TypeOK
  <2>2. CASE backend # "memory"
    <3>1. backend \in Store
      BY <2>2 DEF TypeOK
    <3> QED BY <1>1, <2>2, <3>1 DEF Stored, TypeOK
  <2> QED BY <2>1, <2>2
<1>4. durable' \in [Store -> [Sector -> Value]]
  <2>1. CASE backend = "idb"
    <3>1. "idb" \in Store
      BY DEF Store
    <3> QED BY <1>1, <2>1, <3>1 DEF Stored, TypeOK
  <2>2. CASE backend # "idb"
    BY <2>2 DEF Stored, TypeOK
  <2> QED BY <2>1, <2>2
<1> QED BY <1>2, <1>3, <1>4

LEMMA TypeFlushed ==
    ASSUME TypeOK, Flushed
    PROVE  /\ mem' \in [Sector -> Value]
           /\ cache' \in [Store -> [Sector -> Value]]
           /\ durable' \in [Store -> [Sector -> Value]]
<1>1. "opfs" \in Store
  BY DEF Store
<1> QED BY <1>1 DEF Flushed, TypeOK

LEMMA TypeSelected ==
    ASSUME TypeOK, NEW m \in {"auto", "memory"} \cup Store, NEW opens
    PROVE  Selected(m, opens) \in {"null", "memory"} \cup Store
BY DEF Selected, Cascade, Store

(* What init() comes to: "null" when the backend does not open.             *)
Outcome(i, b) ==
    /\ pc[i] = "init"
    /\ UNCHANGED <<callVars, result, cache, durable, pageVars, raced>>
    /\ \/ /\ b = "null" /\ pc' = [pc EXCEPT ![i] = "failed"]
          /\ UNCHANGED <<actorVars, mem, queue, blockChecksums>>
       \/ /\ b # "null" /\ backend' = b /\ backendType' = b /\ isInitialized' = TRUE
          /\ held' = (held \/ b = "opfs")
          /\ opened' = [opened EXCEPT ![reloads] = b]
          /\ mem' = (IF b = "memory" THEN Fresh ELSE mem)
          /\ pc' = [pc EXCEPT ![i] = "queued"]
          /\ Enqueue(i)

(* An explicit backend opens or does not; the cascade opens any.            *)
LEMMA Returns ==
    ASSUME TypeOK, NEW i \in Call, InitReturns(i)
    PROVE  \E b \in {"null", "memory"} \cup Store :
               Outcome(i, b) /\ (mode[i] # "auto" => b \in {"null", mode[i]})
<1>1. PICK opens \in Opening :
          LET b == Selected(mode[i], opens) IN
          IF b = "null"
          THEN /\ pc' = [pc EXCEPT ![i] = "failed"]
               /\ UNCHANGED <<actorVars, mem, queue, blockChecksums>>
          ELSE /\ backend' = b /\ backendType' = b /\ isInitialized' = TRUE
               /\ held' = (held \/ b = "opfs")
               /\ opened' = [opened EXCEPT ![reloads] = b]
               /\ mem' = IF b = "memory" THEN Fresh ELSE mem
               /\ pc' = [pc EXCEPT ![i] = "queued"]
               /\ Enqueue(i)
  BY DEF InitReturns
<1> DEFINE b == Selected(mode[i], opens)
<1>2. b \in {"null", "memory"} \cup Store
  BY TypeSelected DEF TypeOK
<1>3. mode[i] # "auto" => b \in {"null", mode[i]}
  BY DEF Selected
<1>4. Outcome(i, b)
  <2>1. pc[i] = "init" /\ UNCHANGED <<callVars, result, cache, durable, pageVars, raced>>
    BY DEF InitReturns
  <2> QED BY <1>1, <2>1 DEF Outcome
<1> QED BY <1>2, <1>3, <1>4

LEMMA TypeStep == TypeOK /\ [Next]_vars => TypeOK'
<1> SUFFICES ASSUME TypeOK, [Next]_vars PROVE TypeOK'
  OBVIOUS
<1>0. Fresh \in [Sector -> Value]
  BY BoundAssumption DEF Fresh, Value
<1>1. ASSUME NEW i \in Call, NEW k \in Kind, CallInitialized(i, k) PROVE TypeOK'
  <2>1. NewCall(i, k) /\ Enqueue(i)
    BY <1>1 DEF CallInitialized
  <2>2. /\ made' \in 0..MaxCalls /\ kind' \in [Call -> Kind]
        /\ epoch' \in [Call -> Nat] /\ raced' \in BOOLEAN
    BY <2>1, TypeNewCall
  <2>3. queue' \in Seq(Call) /\ blockChecksums' \in [Sector -> Value]
    BY <2>1, TypeEnqueue
  <2>4. pc' \in [Call -> Progress]
    BY <1>1 DEF CallInitialized, TypeOK, Progress
  <2> QED BY <1>1, <2>2, <2>3, <2>4 DEF CallInitialized, TypeOK, actorVars, storeVars, pageVars
<1>2. ASSUME NEW i \in Call, NEW k \in Kind, CallUninitialized(i, k) PROVE TypeOK'
  <2>1. NewCall(i, k)
    BY <1>2 DEF CallUninitialized
  <2>2. /\ made' \in 0..MaxCalls /\ kind' \in [Call -> Kind]
        /\ epoch' \in [Call -> Nat] /\ raced' \in BOOLEAN
    BY <2>1, TypeNewCall
  <2>3. mode' \in [Call -> {"auto", "memory"} \cup Store]
    BY <1>2 DEF CallUninitialized, TypeOK
  <2>4. /\ pc' \in [Call -> Progress]
        /\ backend' \in {"null", "memory"} \cup Store
        /\ mem' \in [Sector -> Value] /\ isInitialized' \in BOOLEAN
        /\ opened' \in [0..MaxReloads -> {"none", "memory"} \cup Store]
    <3>1. CASE backendType = "memory"
      BY <1>0, <1>2, <3>1 DEF CallUninitialized, TypeOK, Progress
    <3>2. CASE backendType # "memory"
      BY <1>2, <3>2 DEF CallUninitialized, TypeOK, Progress
    <3> QED BY <3>1, <3>2
  <2> QED BY <1>2, <2>2, <2>3, <2>4 DEF CallUninitialized, TypeOK, pageVars
<1>3. ASSUME NEW i \in Call, InitReturns(i) PROVE TypeOK'
  <2>1. PICK b \in {"null", "memory"} \cup Store : Outcome(i, b)
    BY <1>3, Returns DEF TypeOK
  <2>2. CASE b = "null"
    BY <2>1, <2>2 DEF Outcome, TypeOK, callVars, actorVars, pageVars
  <2>3. CASE b # "null"
    <3>1. /\ Enqueue(i) /\ backend' = b /\ backendType' = b /\ isInitialized' = TRUE
          /\ mem' = (IF b = "memory" THEN Fresh ELSE mem)
          /\ pc' = [pc EXCEPT ![i] = "queued"]
      BY <2>1, <2>3 DEF Outcome
    <3>2. queue' \in Seq(Call) /\ blockChecksums' \in [Sector -> Value]
      BY <3>1, TypeEnqueue
    <3>3. pc' \in [Call -> Progress]
      BY <3>1 DEF TypeOK, Progress
    <3>4. mem' \in [Sector -> Value]
      BY <1>0, <3>1 DEF TypeOK
    <3>5. /\ held' \in BOOLEAN
          /\ opened' \in [0..MaxReloads -> {"none", "memory"} \cup Store]
      BY <2>1, <2>3 DEF Outcome, TypeOK
    <3> QED BY <2>1, <2>3, <3>1, <3>2, <3>3, <3>4, <3>5
              DEF Outcome, TypeOK, callVars, pageVars
  <2> QED BY <2>2, <2>3
<1>4. ASSUME NEW i \in Call, Continue(i) PROVE TypeOK'
  <2>1. queue' \in Seq(Call) /\ blockChecksums' \in [Sector -> Value]
    BY <1>4, TypeEnqueue DEF Continue
  <2> QED BY <1>4, <2>1 DEF Continue, TypeOK, callVars, actorVars, storeVars, pageVars
<1>5. ASSUME NEW i \in Call, RunTask(i) PROVE TypeOK'
  <2>1. queue' \in Seq(Call)
    BY <1>5, HeadTailProperties DEF RunTask, TypeOK
  <2>2. pc' \in [Call -> Progress]
    BY <1>5 DEF RunTask, TypeOK, Progress
  <2>3. /\ result' \in [Call -> Value] /\ mem' \in [Sector -> Value]
        /\ cache' \in [Store -> [Sector -> Value]] /\ durable' \in [Store -> [Sector -> Value]]
    <3>1. CASE kind[i] = "read"
      <4>1. Content[sect[i]] \in Value
        BY <1>5, TypeContent DEF RunTask, TypeOK
      <4> QED BY <1>5, <3>1, <4>1 DEF RunTask, TypeOK, storeVars
    <3>2. CASE kind[i] = "write"
      <4>1. Stored(i) /\ UNCHANGED result /\ backend # "null"
        BY <1>5, <3>2 DEF RunTask
      <4> QED BY <4>1, TypeStored DEF TypeOK
    <3>3. CASE kind[i] \notin {"read", "write"}
      <4>1. Flushed /\ UNCHANGED result
        BY <1>5, <3>3 DEF RunTask
      <4> QED BY <4>1, TypeFlushed DEF TypeOK
    <3> QED BY <3>1, <3>2, <3>3
  <2> QED BY <1>5, <2>1, <2>2, <2>3 DEF RunTask, TypeOK, callVars, actorVars, pageVars
<1>6. ASSUME NEW i \in Call, TaskFails(i) PROVE TypeOK'
  <2>1. queue' \in Seq(Call)
    BY <1>6, HeadTailProperties DEF TaskFails, TypeOK
  <2> QED BY <1>6, <2>1 DEF TaskFails, TypeOK, callVars, actorVars, storeVars, pageVars
<1>7. ASSUME NEW i \in Call, CloseBackend(i) PROVE TypeOK'
  <2>1. /\ mem' \in [Sector -> Value]
        /\ cache' \in [Store -> [Sector -> Value]] /\ durable' \in [Store -> [Sector -> Value]]
    <3>1. CASE backend = "opfs"
      BY <1>7, <3>1, TypeFlushed DEF CloseBackend
    <3>2. CASE backend # "opfs"
      BY <1>0, <1>7, <3>2 DEF CloseBackend, TypeOK
    <3> QED BY <3>1, <3>2
  <2>2. pc' \in [Call -> Progress]
    BY <1>7 DEF CloseBackend, TypeOK, Progress
  <2> QED BY <1>7, <2>1, <2>2 DEF CloseBackend, TypeOK, callVars, pageVars
<1>8. CASE Reload
  <2>1. reloads' \in 0..MaxReloads
    BY <1>8, BoundAssumption DEF Reload, TypeOK
  <2>2. pc' \in [Call -> Progress]
    BY <1>8 DEF Reload, TypeOK, Progress
  <2>3. queue' \in Seq(Call) /\ backendType' \in {"auto", "memory"} \cup Store
    BY <1>8, TypeAssumption DEF Reload, Store
  <2> QED BY <1>0, <1>8, <2>1, <2>2, <2>3 DEF Reload, TypeOK, callVars
<1>9. CASE UNCHANGED vars
  BY <1>9 DEF TypeOK, vars, callVars, actorVars, storeVars, pageVars
<1> QED
  BY <1>1, <1>2, <1>3, <1>4, <1>5, <1>6, <1>7, <1>8, <1>9 DEF Next, AnyCall, Internal

(* Type correctness, for every browser, any number of calls and reloads.    *)
THEOREM TypeCorrect == Spec => []TypeOK
BY TypeInit, TypeStep, PTL DEF Spec

-----------------------------------------------------------------------------
(* The backend that this page works on, or "none" before its first init().  *)
Home == opened[reloads]

(* Where a call is: in init(), not yet settled, or past its transaction;    *)
(* and whether it belongs to this page.                                     *)
Starting(i) == pc[i] \in {"init", "ready"}
Pending(i)  == pc[i] \in {"init", "ready", "queued"}
Taken(i)    == pc[i] \in {"closing", "done"}
Here(i)     == epoch[i] = reloads

(* Calls are numbered without gaps, and what is in progress is of this page.*)
Numbered ==
    /\ \A i \in Call : pc[i] = "idle" <=> i > made
    /\ \A i \in Call : epoch[i] <= reloads
    /\ \A i \in Call : pc[i] \in {"init", "ready", "queued", "closing"} => Here(i)

(* The queue holds the queued calls, oldest first.                          *)
InLine ==
    /\ \A n \in 1..Len(queue) : pc[queue[n]] = "queued"
    /\ \A m, n \in 1..Len(queue) : m < n => queue[m] < queue[n]
    /\ \A i \in Call : pc[i] = "queued" => \E n \in 1..Len(queue) : queue[n] = i

(* No transaction overtakes another: a call in progress is newer than all   *)
(* that had their turn, and one that runs init() is the newest there is.    *)
InTurn ==
    /\ \A i, j \in Call : Pending(i) /\ Taken(j) /\ Here(j) => j < i
    /\ \A i, j \in Call : Starting(i) /\ pc[j] # "idle" => j <= i

Turns == Numbered /\ InLine /\ InTurn

(* The numbers, for the solver.                                             *)
LEMMA Numbers ==
    ASSUME TypeOK
    PROVE  /\ made \in Nat /\ reloads \in Nat /\ Call \subseteq Nat
           /\ pc \in [Call -> Progress] /\ epoch \in [Call -> Nat] /\ queue \in Seq(Call)
           /\ Len(queue) \in Nat /\ \A n \in 1..Len(queue) : queue[n] \in Call
BY BoundAssumption, CallsAreNumbers, LenProperties, ElementOfSeq DEF TypeOK, Progress

LEMMA TurnsInit == Init => Turns
<1> SUFFICES ASSUME Init PROVE Turns
  OBVIOUS
<1>1. Len(queue) = 0
  BY DEF Init
<1>2. InLine
  BY <1>1 DEF Init, InLine
<1>3. Numbered
  BY CallsAreNumbers DEF Init, Numbered, Here
<1>4. InTurn
  BY DEF Init, InTurn, Pending, Starting
<1> QED BY <1>2, <1>3, <1>4 DEF Turns

(* What is appended comes last.                                             *)
LEMMA Appended ==
    ASSUME TypeOK, NEW i \in Call, queue' = Append(queue, i)
    PROVE  /\ Len(queue') = Len(queue) + 1 /\ Len(queue) \in Nat
           /\ \A n \in 1..Len(queue) : queue'[n] = queue[n]
           /\ queue'[Len(queue) + 1] = i
<1>1. queue \in Seq(Call)
  BY DEF TypeOK
<1> QED BY <1>1, AppendProperties, LenProperties

(* A call that joins the queue is the newest in it.                         *)
LEMMA Joins ==
    ASSUME TypeOK, InLine, NEW i \in Call, pc[i] # "queued",
           queue' = Append(queue, i), pc' = [pc EXCEPT ![i] = "queued"],
           \A j \in Call : pc[j] = "queued" => j < i
    PROVE  InLine'
<1>1. /\ Len(queue') = Len(queue) + 1 /\ Len(queue) \in Nat
      /\ \A n \in 1..Len(queue) : queue'[n] = queue[n]
      /\ queue'[Len(queue) + 1] = i
  BY Appended
<1>2. /\ Call \subseteq Nat /\ pc \in [Call -> Progress]
      /\ \A n \in 1..Len(queue) : queue[n] \in Call
  BY Numbers
<1>3. \A n \in 1..Len(queue') : n \in 1..Len(queue) \/ n = Len(queue) + 1
  BY <1>1
<1>4. ASSUME NEW n \in 1..Len(queue')
      PROVE  pc'[queue'[n]] = "queued"
  BY <1>1, <1>2, <1>3 DEF InLine
<1>5. ASSUME NEW m \in 1..Len(queue'), NEW n \in 1..Len(queue'), m < n
      PROVE  queue'[m] < queue'[n]
  <2>1. m \in 1..Len(queue)
    BY <1>1, <1>5
  <2>2. CASE n \in 1..Len(queue)
    BY <1>1, <1>5, <2>1, <2>2 DEF InLine
  <2>3. CASE n = Len(queue) + 1
    BY <1>1, <1>2, <2>1, <2>3 DEF InLine
  <2> QED BY <1>3, <2>2, <2>3
<1>6. ASSUME NEW j \in Call, pc'[j] = "queued"
      PROVE  \E n \in 1..Len(queue') : queue'[n] = j
  <2>1. CASE j = i
    BY <1>1, <2>1
  <2>2. CASE j # i
    <3>1. PICK n \in 1..Len(queue) : queue[n] = j
      BY <1>2, <1>6, <2>2 DEF InLine
    <3>2. n \in 1..Len(queue') /\ queue'[n] = j
      BY <1>1, <3>1
    <3> QED BY <3>2
  <2> QED BY <2>1, <2>2
<1> QED BY <1>4, <1>5, <1>6 DEF InLine

(* The queue runs from its head, which is the oldest.                       *)
LEMMA Leaves ==
    ASSUME TypeOK, InLine, NEW i \in Call, queue # <<>>, i = Head(queue),
           queue' = Tail(queue), NEW p \in Progress \ {"queued"}, pc' = [pc EXCEPT ![i] = p]
    PROVE  InLine' /\ \A j \in Call \ {i} : pc[j] = "queued" => i < j
<1>1. /\ Call \subseteq Nat /\ pc \in [Call -> Progress] /\ queue \in Seq(Call)
      /\ \A n \in 1..Len(queue) : queue[n] \in Call
  BY Numbers
<1>2. /\ Len(queue) \in Nat /\ Len(queue) >= 1 /\ Len(queue') = Len(queue) - 1
      /\ \A n \in 1..Len(queue') : queue'[n] = queue[n + 1]
      /\ queue[1] = i
  BY <1>1, HeadTailProperties, LenProperties, EmptySeq
<1>3. ASSUME NEW n \in 1..Len(queue), n # 1
      PROVE  queue[n] # i /\ i < queue[n]
  BY <1>1, <1>2, <1>3 DEF InLine
<1>4. ASSUME NEW n \in 1..Len(queue')
      PROVE  n + 1 \in 1..Len(queue) /\ n + 1 # 1 /\ n \in Nat
  BY <1>2
<1>5. ASSUME NEW n \in 1..Len(queue')
      PROVE  pc'[queue'[n]] = "queued"
  <2>1. queue'[n] = queue[n + 1] /\ queue[n + 1] \in Call /\ queue[n + 1] # i
    BY <1>1, <1>2, <1>3, <1>4
  <2>2. pc[queue[n + 1]] = "queued"
    BY <1>4 DEF InLine
  <2> QED BY <1>1, <2>1, <2>2
<1>6. ASSUME NEW m \in 1..Len(queue'), NEW n \in 1..Len(queue'), m < n
      PROVE  queue'[m] < queue'[n]
  <2>1. m + 1 < n + 1
    BY <1>4, <1>6
  <2> QED BY <1>2, <1>4, <2>1 DEF InLine
<1>7. ASSUME NEW j \in Call \ {i}, pc[j] = "queued"
      PROVE  i < j /\ \E n \in 1..Len(queue') : queue'[n] = j
  <2>1. PICK n \in 1..Len(queue) : queue[n] = j
    BY <1>7 DEF InLine
  <2>2. n # 1
    BY <1>2, <2>1
  <2>3. n - 1 \in 1..Len(queue')
    BY <1>2, <2>2
  <2>4. queue'[n - 1] = queue[(n - 1) + 1] /\ (n - 1) + 1 = n
    BY <1>2, <2>3
  <2> QED BY <1>3, <2>1, <2>2, <2>3, <2>4
<1>8. ASSUME NEW j \in Call, pc'[j] = "queued"
      PROVE  \E n \in 1..Len(queue') : queue'[n] = j
  <2>1. j # i /\ pc[j] = "queued"
    BY <1>1, <1>8
  <2> QED BY <1>7, <2>1
<1> QED BY <1>5, <1>6, <1>7, <1>8 DEF InLine

(* A step that queues nothing and takes nothing from the queue.             *)
LEMMA Waits ==
    ASSUME TypeOK, InLine, NEW i \in Call, pc[i] # "queued",
           queue' = queue, NEW p \in Progress \ {"queued"}, pc' = [pc EXCEPT ![i] = p]
    PROVE  InLine'
<1>1. pc \in [Call -> Progress] /\ \A n \in 1..Len(queue) : queue[n] \in Call
  BY Numbers
<1> QED BY <1>1 DEF InLine

(* Nothing is starting when a call is made that does not race.              *)
LEMMA Newest ==
    ASSUME TypeOK, Turns, NEW i \in Call, NEW k \in Kind, NewCall(i, k), ~raced'
    PROVE  /\ ~raced /\ i = made + 1 /\ pc[i] = "idle" /\ epoch' = [epoch EXCEPT ![i] = reloads]
           /\ made' = i
           /\ \A j \in Call : pc[j] # "idle" => j < i
           /\ \A j \in Call : ~Starting(j)
<1>1. made \in Nat /\ Call \subseteq Nat
  BY Numbers
<1>2. /\ ~raced /\ i = made + 1 /\ made' = i /\ epoch' = [epoch EXCEPT ![i] = reloads]
      /\ \A j \in Call : ~Starting(j)
  BY DEF NewCall, Starting
<1>3. \A j \in Call : pc[j] # "idle" => j < i
  BY <1>1, <1>2 DEF Turns, Numbered
<1>4. pc[i] = "idle"
  BY <1>1, <1>2 DEF Turns, Numbered
<1> QED BY <1>2, <1>3, <1>4

(* How the turns survive each kind of step: a new call, one that leaves     *)
(* init(), one that runs or fails, the end of close(), a reload.            *)
LEMMA TurnsNew ==
    ASSUME TypeOK, Turns, NEW i \in Call, NEW k \in Kind, NewCall(i, k), ~raced',
           UNCHANGED reloads, NEW p \in {"init", "ready", "queued"}, pc' = [pc EXCEPT ![i] = p],
           queue' = IF p = "queued" THEN Append(queue, i) ELSE queue
    PROVE  Turns'
<1>1. /\ made \in Nat /\ reloads \in Nat /\ Call \subseteq Nat
      /\ pc \in [Call -> Progress] /\ epoch \in [Call -> Nat]
  BY Numbers
<1>2. /\ i = made + 1 /\ pc[i] = "idle" /\ epoch' = [epoch EXCEPT ![i] = reloads]
      /\ made' = i
      /\ \A j \in Call : pc[j] # "idle" => j < i
      /\ \A j \in Call : ~Starting(j)
  BY Newest
<1>3. \A j \in Call \ {i} : pc'[j] = pc[j] /\ epoch'[j] = epoch[j]
  BY <1>1, <1>2
<1>4. pc'[i] = p /\ epoch'[i] = reloads
  BY <1>1, <1>2
<1>5. Numbered'
  BY <1>1, <1>2, <1>3, <1>4 DEF Turns, Numbered, Here
<1>6. InLine'
  <2>1. CASE p = "queued"
    BY <1>2, <2>1, Joins DEF Turns
  <2>2. CASE p # "queued"
    BY <1>2, <2>2, Waits DEF Turns, Progress
  <2> QED BY <2>1, <2>2
<1>7. InTurn'
  BY <1>1, <1>2, <1>3, <1>4 DEF Turns, InTurn, Pending, Taken, Starting, Here
<1> QED BY <1>5, <1>6, <1>7 DEF Turns

LEMMA TurnsStarted ==
    ASSUME TypeOK, Turns, NEW i \in Call, Starting(i), UNCHANGED <<made, epoch, reloads>>,
           NEW p \in {"queued", "failed"}, pc' = [pc EXCEPT ![i] = p],
           queue' = IF p = "queued" THEN Append(queue, i) ELSE queue
    PROVE  Turns'
<1>1. /\ made \in Nat /\ reloads \in Nat /\ Call \subseteq Nat
      /\ pc \in [Call -> Progress] /\ epoch \in [Call -> Nat]
  BY Numbers
<1>2. \A j \in Call \ {i} : pc'[j] = pc[j]
  BY <1>1
<1>3. pc'[i] = p /\ pc[i] \notin {"idle", "queued"}
  BY <1>1 DEF Starting
<1>4. Numbered'
  BY <1>1, <1>2, <1>3 DEF Turns, Numbered, Here, Starting
<1>5. InLine'
  <2>1. CASE p = "queued"
    <3>1. \A j \in Call : pc[j] = "queued" => j < i
      BY <1>1, <1>3 DEF Turns, InTurn
    <3> QED BY <1>3, <2>1, <3>1, Joins DEF Turns
  <2>2. CASE p # "queued"
    BY <1>3, <2>2, Waits DEF Turns, Progress
  <2> QED BY <2>1, <2>2
<1>6. InTurn'
  BY <1>1, <1>2, <1>3 DEF Turns, InTurn, Pending, Taken, Starting, Here
<1> QED BY <1>4, <1>5, <1>6 DEF Turns

LEMMA TurnsRun ==
    ASSUME TypeOK, Turns, NEW i \in Call, UNCHANGED <<made, epoch, reloads>>,
           queue # <<>>, i = Head(queue), pc[i] = "queued", queue' = Tail(queue),
           NEW p \in {"closing", "done", "failed"}, pc' = [pc EXCEPT ![i] = p]
    PROVE  Turns'
<1>1. /\ made \in Nat /\ reloads \in Nat /\ Call \subseteq Nat
      /\ pc \in [Call -> Progress] /\ epoch \in [Call -> Nat]
  BY Numbers
<1>2. \A j \in Call \ {i} : pc'[j] = pc[j]
  BY <1>1
<1>3. pc'[i] = p
  BY <1>1
<1>4. InLine' /\ \A j \in Call \ {i} : pc[j] = "queued" => i < j
  BY Leaves DEF Turns, Progress
<1>5. Numbered'
  BY <1>1, <1>2, <1>3 DEF Turns, Numbered, Here
<1>6. \A j \in Call \ {i} : Starting(j) => i < j
  BY <1>1 DEF Turns, InTurn
<1>7. InTurn'
  BY <1>1, <1>2, <1>3, <1>4, <1>6 DEF Turns, InTurn, Pending, Taken, Starting, Here
<1> QED BY <1>4, <1>5, <1>7 DEF Turns

LEMMA TurnsClosed ==
    ASSUME TypeOK, Turns, NEW i \in Call, UNCHANGED <<made, epoch, reloads, queue>>,
           pc[i] = "closing", pc' = [pc EXCEPT ![i] = "done"]
    PROVE  Turns'
<1>1. /\ made \in Nat /\ reloads \in Nat /\ Call \subseteq Nat
      /\ pc \in [Call -> Progress] /\ epoch \in [Call -> Nat]
  BY Numbers
<1>2. \A j \in Call \ {i} : pc'[j] = pc[j]
  BY <1>1
<1>3. pc'[i] = "done"
  BY <1>1
<1>4. InLine'
  BY Waits DEF Turns, Progress
<1>5. Numbered'
  BY <1>1, <1>2, <1>3 DEF Turns, Numbered, Here
<1>6. InTurn'
  BY <1>1, <1>2, <1>3 DEF Turns, InTurn, Pending, Taken, Starting, Here
<1> QED BY <1>4, <1>5, <1>6 DEF Turns

LEMMA TurnsReload ==
    ASSUME TypeOK, Turns, Reload
    PROVE  Turns'
<1>1. /\ made \in Nat /\ reloads \in Nat /\ Call \subseteq Nat
      /\ pc \in [Call -> Progress] /\ epoch \in [Call -> Nat]
  BY Numbers
<1>2. /\ reloads' = reloads + 1 /\ queue' = <<>> /\ UNCHANGED <<made, epoch>>
      /\ pc' = [i \in Call |-> IF i <= made /\ pc[i] \notin {"done", "failed"}
                             THEN "lost" ELSE pc[i]]
  BY DEF Reload, callVars
<1>3. \A i \in Call : /\ pc'[i] \in {"idle", "done", "failed", "lost"}
                      /\ pc'[i] = "idle" <=> pc[i] = "idle"
  BY <1>1, <1>2 DEF Turns, Numbered, Progress
<1>4. Len(queue') = 0
  BY <1>2
<1>5. InLine'
  BY <1>3, <1>4 DEF InLine
<1>6. Numbered'
  BY <1>1, <1>2, <1>3 DEF Turns, Numbered, Here
<1>7. InTurn'
  BY <1>3 DEF InTurn, Pending, Starting
<1> QED BY <1>5, <1>6, <1>7 DEF Turns

-----------------------------------------------------------------------------
(* A page works on one backend, Home, and init() runs only while there is   *)
(* none; a page that is yet to come has opened nothing, nor has one on      *)
(* which no call was served.                                                *)
OneBackend ==
    /\ backend \in {"null", Home} /\ backendType = IF Home = "none" THEN InitialType ELSE Home
    /\ isInitialized <=> backend # "null"
    /\ held <=> backend = "opfs"
    /\ \A i \in Call : pc[i] = "init" => ~isInitialized /\ mode[i] = backendType
    /\ \A p \in 0..MaxReloads : p > reloads => opened[p] = "none"
    /\ \A i \in Call : Taken(i) /\ Here(i) => Home # "none"

(* The pages, for the solver.                                               *)
LEMMA Pages ==
    ASSUME TypeOK
    PROVE  /\ reloads \in 0..MaxReloads /\ MaxReloads \in Nat
           /\ opened \in [0..MaxReloads -> {"none", "memory"} \cup Store]
           /\ Home \in {"none", "memory"} \cup Store
           /\ backend \in {"null", "memory"} \cup Store /\ Store = {"opfs", "idb"}
BY BoundAssumption DEF TypeOK, Home, Store

(* Once a call was served its page stays with the backend.                  *)
LEMMA OpenedStays ==
    ASSUME TypeOK, Turns, OneBackend, NEW b, Home = "none" \/ b = Home,
           opened' = [opened EXCEPT ![reloads] = b]
    PROVE  \A j \in Call : Taken(j) => opened'[epoch[j]] = opened[epoch[j]]
<1> SUFFICES ASSUME NEW j \in Call, Taken(j) PROVE opened'[epoch[j]] = opened[epoch[j]]
  OBVIOUS
<1>1. /\ epoch[j] \in 0..MaxReloads /\ reloads \in 0..MaxReloads
      /\ opened \in [0..MaxReloads -> {"none", "memory"} \cup Store]
  BY Pages, Numbers DEF Turns, Numbered
<1>2. CASE epoch[j] = reloads
  BY <1>1, <1>2 DEF OneBackend, Here, Home
<1>3. CASE epoch[j] # reloads
  BY <1>1, <1>3
<1> QED BY <1>2, <1>3

LEMMA BackendInit == Init => OneBackend
<1> SUFFICES ASSUME Init PROVE OneBackend
  OBVIOUS
<1>1. /\ reloads = 0 /\ \A p \in 0..MaxReloads : opened[p] = "none"
      /\ Home = "none"
  BY BoundAssumption DEF Init, Home
<1> QED BY <1>1 DEF Init, OneBackend, Taken

(* How that survives each step: first, in those that leave the actor alone. *)
LEMMA BackendSame ==
    ASSUME TypeOK, OneBackend, UNCHANGED <<actorVars, reloads>>,
           \A j \in Call : pc'[j] = "init" => pc[j] = "init" /\ mode'[j] = mode[j],
           \A j \in Call : Taken(j)' /\ Here(j)' => backend # "null" \/ (Taken(j) /\ Here(j))
    PROVE  OneBackend'
<1>1. Home' = Home /\ UNCHANGED <<backend, backendType, isInitialized, held, opened>>
  BY DEF actorVars, Home
<1>2. backend # "null" => Home # "none"
  BY Pages DEF OneBackend
<1> QED BY <1>1, <1>2 DEF OneBackend

LEMMA BackendInitialized ==
    ASSUME TypeOK, OneBackend, NEW i \in Call, NEW k \in Kind, CallInitialized(i, k)
    PROVE  OneBackend'
<1>1. /\ UNCHANGED <<mode, reloads, actorVars>> /\ epoch' = [epoch EXCEPT ![i] = reloads]
      /\ pc' = [pc EXCEPT ![i] = "queued"] /\ pc \in [Call -> Progress]
      /\ epoch \in [Call -> Nat]
  BY Numbers DEF CallInitialized, NewCall, pageVars
<1>2. \A j \in Call : /\ pc'[j] = "init" => pc[j] = "init"
                      /\ Taken(j)' => Taken(j) /\ epoch'[j] = epoch[j]
  BY <1>1 DEF Taken
<1> QED BY <1>1, <1>2, BackendSame DEF Here

LEMMA BackendUninitialized ==
    ASSUME TypeOK, OneBackend, NEW i \in Call, NEW k \in Kind, CallUninitialized(i, k),
           \A j \in Call : ~Starting(j)
    PROVE  /\ OneBackend'
           /\ \/ opened' = opened
              \/ /\ opened' = [opened EXCEPT ![reloads] = "memory"]
                 /\ Home \in {"none", "memory"}
<1>1. /\ UNCHANGED <<reloads, backendType, held>> /\ ~isInitialized
      /\ mode' = [mode EXCEPT ![i] = backendType]
      /\ epoch' = [epoch EXCEPT ![i] = reloads] /\ epoch \in [Call -> Nat]
      /\ mode \in [Call -> {"auto", "memory"} \cup Store]
      /\ pc \in [Call -> Progress]
  BY Numbers DEF CallUninitialized, NewCall, pageVars, TypeOK
<1>2. backend = "null" /\ ~held
  BY <1>1 DEF OneBackend
<1>3. CASE backendType = "memory"
  <2>1. /\ backend' = "memory" /\ isInitialized' = TRUE /\ pc' = [pc EXCEPT ![i] = "ready"]
        /\ opened' = [opened EXCEPT ![reloads] = "memory"]
    BY <1>3 DEF CallUninitialized
  <2>2. Home \in {"none", "memory"}
    BY <1>3 DEF OneBackend
  <2>3. \A j \in Call : pc'[j] # "init"
    BY <1>1, <2>1 DEF Starting
  <2>4. Home' = "memory" /\ \A p \in 0..MaxReloads : p > reloads => opened'[p] = opened[p]
    BY <1>1, <2>1, Pages DEF Home
  <2> QED BY <1>1, <1>2, <1>3, <2>1, <2>2, <2>3, <2>4 DEF OneBackend
<1>4. CASE backendType # "memory"
  <2>1. UNCHANGED <<backend, isInitialized, opened>> /\ pc' = [pc EXCEPT ![i] = "init"]
    BY <1>4 DEF CallUninitialized
  <2>2. Home' = Home
    BY <1>1, <2>1 DEF Home
  <2>3. ASSUME NEW j \in Call, pc'[j] = "init" PROVE mode'[j] = backendType
    BY <1>1, <2>1, <2>3 DEF OneBackend, Starting
  <2>4. \A j \in Call : Taken(j)' => Taken(j) /\ epoch'[j] = epoch[j]
    BY <1>1, <2>1 DEF Taken
  <2> QED BY <1>1, <1>2, <2>1, <2>2, <2>3, <2>4 DEF OneBackend, Here
<1> QED BY <1>3, <1>4

(* What a successful init() leaves.                                         *)
Opens(i, b) ==
    /\ b \in {"memory"} \cup Store /\ (Home = "none" \/ b = Home)
    /\ backend' = b /\ backendType' = b /\ isInitialized' = TRUE
    /\ held' = (held \/ b = "opfs")
    /\ opened' = [opened EXCEPT ![reloads] = b]
    /\ mem' = (IF b = "memory" THEN Fresh ELSE mem)
    /\ pc' = [pc EXCEPT ![i] = "queued"]
    /\ Enqueue(i)

(* What init() comes to when nothing raced with it: on a page that has      *)
(* opened a backend before, this one or none.                               *)
LEMMA Initialized ==
    ASSUME TypeOK, OneBackend, NEW i \in Call, InitReturns(i)
    PROVE  /\ pc[i] = "init" /\ backend = "null" /\ ~held /\ ~isInitialized
           /\ UNCHANGED <<callVars, result, cache, durable, pageVars, raced>>
           /\ \/ \E b : Opens(i, b)
              \/ /\ pc' = [pc EXCEPT ![i] = "failed"]
                 /\ UNCHANGED <<actorVars, mem, queue, blockChecksums>>
<1>1. PICK b \in {"null", "memory"} \cup Store :
          Outcome(i, b) /\ (mode[i] # "auto" => b \in {"null", mode[i]})
  BY Returns
<1>2. pc[i] = "init" /\ UNCHANGED <<callVars, result, cache, durable, pageVars, raced>>
  BY <1>1 DEF Outcome
<1>3. ~isInitialized /\ mode[i] = backendType
  BY <1>2 DEF OneBackend
<1>4. backend = "null" /\ ~held
  BY <1>3 DEF OneBackend
<1>5. CASE b = "null"
  BY <1>1, <1>2, <1>3, <1>4, <1>5 DEF Outcome
<1>6. CASE b # "null"
  <2>1. Home = "none" \/ b = Home
    BY <1>1, <1>3, <1>6, Pages DEF OneBackend
  <2>2. Opens(i, b)
    BY <1>1, <1>6, <2>1 DEF Outcome, Opens
  <2> QED BY <1>2, <1>3, <1>4, <2>2
<1> QED BY <1>5, <1>6

LEMMA BackendReturns ==
    ASSUME TypeOK, Turns, OneBackend, NEW i \in Call, InitReturns(i)
    PROVE  OneBackend'
<1>1. /\ pc[i] = "init" /\ ~held /\ UNCHANGED <<mode, epoch, reloads>> /\ pc \in [Call -> Progress]
      /\ \/ \E b : Opens(i, b)
         \/ /\ pc' = [pc EXCEPT ![i] = "failed"]
            /\ UNCHANGED <<actorVars, mem, queue, blockChecksums>>
  BY Initialized, Numbers DEF callVars, pageVars
<1>2. \A j \in Call : pc[j] = "init" => j = i
  <2>1. ASSUME NEW j \in Call, pc[j] = "init" PROVE j <= i /\ i <= j
    BY <1>1, <2>1 DEF Turns, InTurn, Starting
  <2>2. Call \subseteq Nat
    BY Numbers
  <2> QED BY <2>1, <2>2
<1>3. \A j \in Call : pc'[j] # "init"
  BY <1>1, <1>2 DEF Opens
<1>4. ASSUME NEW b, Opens(i, b) PROVE OneBackend'
  <2>1. /\ b \notin {"none", "null"} /\ backend' = b /\ backendType' = b /\ isInitialized' = TRUE
        /\ held' = (held \/ b = "opfs") /\ opened' = [opened EXCEPT ![reloads] = b]
    BY <1>4, Pages DEF Opens
  <2>2. Home' = b /\ \A p \in 0..MaxReloads : p > reloads => opened'[p] = opened[p]
    BY <1>1, <2>1, Pages DEF Home
  <2> QED BY <1>1, <1>3, <2>1, <2>2 DEF OneBackend
<1>5. CASE /\ pc' = [pc EXCEPT ![i] = "failed"]
           /\ UNCHANGED <<actorVars, mem, queue, blockChecksums>>
  <2>1. \A j \in Call : Taken(j)' => Taken(j)
    BY <1>1, <1>5 DEF Taken
  <2> QED BY <1>1, <1>3, <1>5, <2>1, BackendSame DEF Here
<1> QED BY <1>1, <1>4, <1>5

(* The rest of the calls leave the actor as it is, and close() or a reload  *)
(* leaves it without a backend.                                             *)
LEMMA BackendKept ==
    ASSUME TypeOK, OneBackend, NEW i \in Call, UNCHANGED <<actorVars, mode, epoch, reloads>>,
           NEW p \in Progress \ {"init"}, pc' = [pc EXCEPT ![i] = p],
           p \in {"queued", "failed"} \/ backend # "null"
    PROVE  OneBackend'
<1>1. pc \in [Call -> Progress]
  BY Numbers
<1>2. \A j \in Call : /\ pc'[j] = "init" => pc[j] = "init"
                      /\ Taken(j)' => Taken(j) \/ backend # "null"
  BY <1>1 DEF Taken
<1> QED BY <1>2, BackendSame DEF Here

LEMMA BackendClosed ==
    ASSUME TypeOK, OneBackend, NEW i \in Call, CloseBackend(i)
    PROVE  OneBackend'
<1>1. /\ UNCHANGED <<mode, epoch, reloads, opened, backendType>>
      /\ pc[i] = "closing" /\ pc' = [pc EXCEPT ![i] = "done"]
      /\ backend' = "null" /\ isInitialized' = FALSE /\ ~held'
      /\ pc \in [Call -> Progress]
  BY Numbers DEF CloseBackend, callVars, pageVars, OneBackend
<1>2. \A j \in Call : (pc'[j] = "init" => pc[j] = "init") /\ (Taken(j)' => Taken(j))
  BY <1>1 DEF Taken
<1>3. Home' = Home
  BY <1>1 DEF Home
<1> QED BY <1>1, <1>2, <1>3 DEF OneBackend, Here

LEMMA BackendReload ==
    ASSUME TypeOK, Turns, OneBackend, Reload
    PROVE  OneBackend'
<1>1. /\ UNCHANGED <<mode, epoch, opened>> /\ backendType' = InitialType
      /\ reloads' = reloads + 1 /\ reloads < MaxReloads
      /\ backend' = "null" /\ isInitialized' = FALSE /\ held' = FALSE
      /\ pc' = [i \in Call |-> IF i <= made /\ pc[i] \notin {"done", "failed"}
                             THEN "lost" ELSE pc[i]]
  BY DEF Reload, callVars
<1>2. \A j \in Call : pc'[j] # "init"
  BY <1>1, Numbers DEF Turns, Numbered
<1>3. \A j \in Call : ~Here(j)'
  BY <1>1, Numbers DEF Turns, Numbered, Here
<1>4. /\ Home' = "none"
      /\ \A p \in 0..MaxReloads : p > reloads' => opened'[p] = "none"
  BY <1>1, Pages DEF OneBackend, Home
<1> QED BY <1>1, <1>2, <1>3, <1>4 DEF OneBackend

-----------------------------------------------------------------------------
(* What a store holds is older than every call in progress, and what is     *)
(* durable no newer than what is cached; IndexedDB caches nothing.          *)
Ordered ==
    /\ \A s \in Sector, b \in Store : durable[b][s] <= cache[b][s]
    /\ durable["idb"] = cache["idb"]
    /\ \A i \in Call : Pending(i) => \A s \in Sector :
           mem[s] < i /\ \A b \in Store : cache[b][s] < i
    /\ \A s \in Sector : mem[s] <= made /\ \A b \in Store : cache[b][s] <= made

(* Contents are numbers, for the solver.                                    *)
LEMMA Contents ==
    ASSUME TypeOK
    PROVE  /\ \A s \in Sector : mem[s] \in Nat /\ blockChecksums[s] \in Value
           /\ \A s \in Sector, b \in Store : cache[b][s] \in Nat /\ durable[b][s] \in Nat
           /\ \A i \in Call : result[i] \in Nat /\ sect[i] \in Sector
BY BoundAssumption DEF TypeOK, Value

LEMMA OrderedInit == Init => Ordered
BY DEF Init, Ordered, Pending, Fresh, Store

(* How contents stay ordered: in steps that store nothing, in a flush, in a *)
(* write, which is the oldest call in progress, and over a reload.          *)
LEMMA OrderedSame ==
    ASSUME TypeOK, Ordered, UNCHANGED <<cache, durable>>, mem' \in {mem, Fresh},
           made' \in Nat, made' >= made,
           \A j \in Call : Pending(j)' => Pending(j) \/ j > made
    PROVE  Ordered'
<1>1. made \in Nat /\ Call \subseteq Nat
  BY Numbers
<1>2. \A s \in Sector : mem'[s] \in Nat /\ mem'[s] <= mem[s]
  BY Contents DEF Fresh
<1>3. \A i \in Call : i > 0
  BY CallsAreNumbers
<1>4. ASSUME NEW i \in Call, Pending(i)', NEW s \in Sector
      PROVE  mem'[s] < i /\ \A b \in Store : cache'[b][s] < i
  <2>1. CASE Pending(i)
    BY <1>1, <1>2, <2>1, Contents DEF Ordered
  <2>2. CASE i > made
    BY <1>1, <1>2, <2>2, Contents DEF Ordered
  <2> QED BY <1>4, <2>1, <2>2
<1>5. ASSUME NEW s \in Sector
      PROVE  mem'[s] <= made' /\ \A b \in Store : cache'[b][s] <= made'
  BY <1>1, <1>2, Contents DEF Ordered
<1> QED BY <1>4, <1>5 DEF Ordered

LEMMA OrderedFlushed ==
    ASSUME TypeOK, Ordered, Flushed, UNCHANGED made,
           \A j \in Call : Pending(j)' => Pending(j)
    PROVE  Ordered'
<1>1. /\ UNCHANGED <<mem, cache>>
      /\ durable' = IF backend = "opfs" THEN [durable EXCEPT !["opfs"] = cache["opfs"]]
                    ELSE durable
  BY DEF Flushed
<1>2. \A s \in Sector, b \in Store : durable'[b][s] \in {durable[b][s], cache[b][s]}
  BY <1>1 DEF TypeOK, Store
<1>3. \A s \in Sector, b \in Store : durable'[b][s] <= cache[b][s]
  BY <1>2, Contents DEF Ordered
<1>4. durable'["idb"] = cache["idb"]
  BY <1>1 DEF Ordered, TypeOK, Store
<1> QED BY <1>1, <1>3, <1>4 DEF Ordered

LEMMA OrderedStored ==
    ASSUME TypeOK, Ordered, NEW i \in Call, Stored(i), UNCHANGED made, i <= made, Pending(i),
           backend # "null",
           \A j \in Call : Pending(j)' => Pending(j) /\ i < j
    PROVE  Ordered'
<1>1. made \in Nat /\ Call \subseteq Nat /\ sect[i] \in Sector
  BY Numbers, Contents
<1>2. \A s \in Sector : mem'[s] \in {mem[s], i}
  BY <1>1 DEF Stored, TypeOK
<1>3. ASSUME NEW s \in Sector, NEW b \in Store
      PROVE  /\ cache'[b][s] \in {cache[b][s], i} /\ durable'[b][s] <= cache'[b][s]
             /\ durable'["idb"] = cache'["idb"]
  <2>1. /\ cache[b][s] \in Nat /\ durable[b][s] \in Nat
        /\ durable[b][s] <= cache[b][s] /\ cache[b][s] < i
    BY Contents DEF Ordered
  <2>2. cache \in [Store -> [Sector -> Value]] /\ durable \in [Store -> [Sector -> Value]]
        /\ "idb" \in Store /\ durable["idb"] = cache["idb"]
    BY DEF TypeOK, Store, Ordered
  <2>3. CASE backend = "memory"
    BY <2>1, <2>2, <2>3 DEF Stored
  <2>4. CASE backend = "idb"
    <3>1. /\ cache' = [cache EXCEPT !["idb"][sect[i]] = i]
          /\ durable' = [durable EXCEPT !["idb"][sect[i]] = i]
      BY <2>4 DEF Stored
    <3>2. cache'["idb"] = durable'["idb"]
      BY <2>2, <3>1
    <3>3. cache'[b][s] \in {cache[b][s], i}
      BY <1>1, <2>2, <3>1
    <3>4. b # "idb" => cache'[b] = cache[b] /\ durable'[b] = durable[b]
      BY <2>2, <3>1
    <3>5. cache'[b][s] \in Nat
      BY <1>1, <2>1, <3>3
    <3> QED BY <2>1, <3>2, <3>3, <3>4, <3>5
  <2>5. CASE backend \notin {"memory", "idb"}
    <3>1. backend \in Store /\ backend # "idb"
      BY <2>5 DEF TypeOK
    <3>2. /\ cache' = [cache EXCEPT ![backend][sect[i]] = i]
          /\ durable' = durable
      BY <2>5 DEF Stored
    <3>3. cache'["idb"] = durable'["idb"]
      BY <2>2, <3>1, <3>2
    <3>4. cache'[b][s] \in {cache[b][s], i}
      BY <1>1, <2>2, <3>1, <3>2
    <3> QED BY <1>1, <2>1, <3>2, <3>3, <3>4
  <2> QED BY <2>3, <2>4, <2>5
<1>4. ASSUME NEW j \in Call, Pending(j)', NEW s \in Sector
      PROVE  mem'[s] < j /\ \A b \in Store : cache'[b][s] < j
  BY <1>1, <1>2, <1>3, <1>4, Contents DEF Ordered
<1>5. ASSUME NEW s \in Sector
      PROVE  mem'[s] <= made' /\ \A b \in Store : cache'[b][s] <= made'
  BY <1>1, <1>2, <1>3, Contents DEF Ordered
<1>6. durable'["idb"] = cache'["idb"]
  BY <1>1, <1>3 DEF Store
<1> QED BY <1>3, <1>4, <1>5, <1>6 DEF Ordered

LEMMA OrderedReload ==
    ASSUME TypeOK, Turns, Ordered, Reload
    PROVE  Ordered'
<1>1. /\ cache' = durable /\ mem' = Fresh /\ UNCHANGED <<made, durable>>
      /\ pc' = [i \in Call |-> IF i <= made /\ pc[i] \notin {"done", "failed"}
                             THEN "lost" ELSE pc[i]]
  BY DEF Reload, callVars
<1>2. \A j \in Call : ~Pending(j)'
  BY <1>1, Numbers DEF Turns, Numbered, Pending
<1>3. made \in Nat
  BY Numbers
<1>4. \A s \in Sector, b \in Store : durable[b][s] <= cache[b][s] /\ cache[b][s] <= made
  BY DEF Ordered
<1>5. \A s \in Sector : mem'[s] = 0
  BY <1>1 DEF Fresh
<1> QED BY <1>1, <1>2, <1>3, <1>4, <1>5, Contents DEF Ordered

-----------------------------------------------------------------------------

(* Only close() closes.                                                     *)
Closers == \A i \in Call : pc[i] = "closing" => kind[i] = "close"

(* What the calls that returned are owed.  Kept: a write of this page is in *)
(* the store or overwritten by a later one.  Seen: a read returned no later *)
(* write and none older than the last before it.  Saved: what was written   *)
(* before a flush is durable or overwritten, and read by a later page that  *)
(* opened the same store.                                                   *)
Kept ==
    \A w \in Call : Done(w, "write") /\ Here(w) /\ OpenedBy(w) \in Store
        => cache[OpenedBy(w)][sect[w]] >= w

Seen ==
    \A r \in Call : Done(r, "read") =>
        /\ result[r] < r
        /\ OpenedBy(r) \in Store =>
               \A w \in Call : Done(w, "write") /\ sect[w] = sect[r] /\ epoch[w] = epoch[r] /\ w < r
                   => result[r] >= w

Flushes(f, w) ==
    /\ Done(f, "flush") /\ Done(w, "write") /\ w < f /\ epoch[w] = epoch[f]
    /\ OpenedBy(f) \in Store
Reopens(r, f, w) ==
    Done(r, "read") /\ sect[r] = sect[w] /\ epoch[r] > epoch[f] /\ OpenedBy(r) = OpenedBy(f)
Saved ==
    \A f, w \in Call : Flushes(f, w) =>
        /\ durable[OpenedBy(f)][sect[w]] >= w
        /\ \A r \in Call : Reopens(r, f, w) => result[r] >= w

History == Kept /\ Seen /\ Saved

LEMMA HistoryInit == Init => Closers /\ History
BY DEF Init, History, Kept, Seen, Saved, Flushes, Closers, Done

(* A step that returns from no read, write or flush owes nothing new.       *)
LEMMA HistorySame ==
    ASSUME TypeOK, History, UNCHANGED <<sect, result, reloads, cache>>,
           \A b \in Store, s \in Sector : durable'[b][s] \in Nat /\ durable'[b][s] >= durable[b][s],
           \A j \in Call, k \in Kind \ {"close"} :
               Done(j, k)' => Done(j, k) /\ epoch'[j] = epoch[j] /\ OpenedBy(j)' = OpenedBy(j)
    PROVE  History'
<1>1. \A j \in Call : Done(j, "write")' =>
          Done(j, "write") /\ epoch'[j] = epoch[j] /\ OpenedBy(j)' = OpenedBy(j)
  BY DEF Kind
<1>2. \A j \in Call : Done(j, "read")' =>
          Done(j, "read") /\ epoch'[j] = epoch[j] /\ OpenedBy(j)' = OpenedBy(j)
  BY DEF Kind
<1>3. \A j \in Call : Done(j, "flush")' =>
          Done(j, "flush") /\ epoch'[j] = epoch[j] /\ OpenedBy(j)' = OpenedBy(j)
  BY DEF Kind
<1>4. Kept'
  BY <1>1 DEF History, Kept, Here
<1>5. Seen'
  BY <1>1, <1>2 DEF History, Seen
<1>6. Saved'
  <2>1. SUFFICES ASSUME NEW f \in Call, NEW w \in Call, Flushes(f, w)'
                 PROVE  /\ durable'[OpenedBy(f)'][sect'[w]] >= w
                        /\ \A r \in Call : Reopens(r, f, w)' => result'[r] >= w
    BY DEF Saved
  <2>2. Flushes(f, w) /\ OpenedBy(f)' = OpenedBy(f) /\ OpenedBy(f) \in Store
    BY <1>1, <1>3, <2>1 DEF Flushes
  <2>3. durable[OpenedBy(f)][sect[w]] >= w
    BY <2>2 DEF History, Saved
  <2>4. durable'[OpenedBy(f)][sect[w]] >= w
    BY <2>2, <2>3, Contents, Numbers
  <2>5. \A r \in Call : Reopens(r, f, w)' => Reopens(r, f, w)
    BY <1>2, <1>3, <2>1 DEF Reopens, Flushes
  <2> QED BY <2>2, <2>4, <2>5 DEF History, Saved
<1> QED BY <1>4, <1>5, <1>6 DEF History

-----------------------------------------------------------------------------
(* The transaction of call i settles.                                       *)
Settles(i) ==
    /\ pc[i] = "queued" /\ pc' = [pc EXCEPT ![i] = "done"] /\ backend # "null"
    /\ UNCHANGED <<callVars, actorVars, pageVars>>

(* What it leaves: it is served on this page, by the backend of this page.  *)
LEMMA Settling ==
    ASSUME TypeOK, Turns, OneBackend, NEW i \in Call, Settles(i)
    PROVE  /\ UNCHANGED <<made, kind, sect, epoch, reloads, opened, backend>>
           /\ backend = Home /\ backend \in {"memory"} \cup Store
           /\ pc[i] = "queued" /\ Here(i) /\ OpenedBy(i) = Home
           /\ \A j \in Call : OpenedBy(j)' = OpenedBy(j) /\ (Here(j) => OpenedBy(j) = Home)
           /\ \A j \in Call \ {i}, k \in Kind : Done(j, k)' => Done(j, k)
           /\ \A k \in Kind : Done(i, k)' => k = kind[i]
<1>1. /\ UNCHANGED <<made, kind, sect, epoch, reloads, opened, backend>>
      /\ pc' = [pc EXCEPT ![i] = "done"] /\ pc \in [Call -> Progress]
      /\ pc[i] = "queued" /\ backend # "null"
  BY Numbers DEF Settles, callVars, actorVars, pageVars
<1>2. \A j \in Call : OpenedBy(j)' = OpenedBy(j) /\ (Here(j) => OpenedBy(j) = Home)
  BY <1>1 DEF OpenedBy, Here, Home
<1>3. Here(i) /\ backend = Home /\ backend \in {"memory"} \cup Store
  BY <1>1, Pages DEF Turns, Numbered, OneBackend
<1>4. \A j \in Call \ {i}, k \in Kind : Done(j, k)' => Done(j, k)
  BY <1>1 DEF Done
<1>5. \A k \in Kind : Done(i, k)' => k = kind[i]
  BY <1>1 DEF Done
<1> QED BY <1>1, <1>2, <1>3, <1>4, <1>5

(* A read returns what is Kept, and what was Saved on an earlier page.      *)
LEMMA HistoryRead ==
    ASSUME TypeOK, Turns, OneBackend, Ordered, History, NEW i \in Call,
           Settles(i), kind[i] = "read",
           result' = [result EXCEPT ![i] = Content[sect[i]]], UNCHANGED storeVars
    PROVE  History'
<1>1. /\ UNCHANGED <<made, kind, sect, epoch, reloads, opened, backend>>
      /\ backend = Home /\ backend \in {"memory"} \cup Store
      /\ pc[i] = "queued" /\ Here(i) /\ OpenedBy(i) = Home
      /\ \A j \in Call : OpenedBy(j)' = OpenedBy(j) /\ (Here(j) => OpenedBy(j) = Home)
      /\ \A j \in Call \ {i}, k \in Kind : Done(j, k)' => Done(j, k)
      /\ \A k \in Kind : Done(i, k)' => k = "read"
  BY Settling
<1>2. /\ result \in [Call -> Value] /\ Call \subseteq Nat /\ sect[i] \in Sector
      /\ UNCHANGED <<cache, durable, mem>>
  BY Numbers, Contents DEF storeVars, TypeOK
<1>3. \A j \in Call : Done(j, "write")' => Done(j, "write")
  BY <1>1 DEF Kind
<1>4. \A j \in Call : Done(j, "flush")' => Done(j, "flush")
  BY <1>1 DEF Kind
<1>5. \A j \in Call \ {i} : result'[j] = result[j] /\ (Done(j, "read")' => Done(j, "read"))
  BY <1>1, <1>2 DEF Kind
<1>6. result'[i] = Content[sect[i]]
  BY <1>2
<1>7. Home \in Store => Content = cache[Home]
  BY <1>1, Pages DEF Content
<1>8. Kept'
  BY <1>1, <1>2, <1>3 DEF History, Kept, Here
<1>9. result'[i] < i
  BY <1>1, <1>2, <1>6 DEF Ordered, Content, Pending
<1>10. ASSUME Home \in Store, NEW w \in Call, Done(w, "write"), sect[w] = sect[i],
              epoch[w] = epoch[i]
       PROVE  result'[i] >= w
  <2>1. Here(w) /\ OpenedBy(w) = Home
    BY <1>1, <1>10 DEF Here
  <2>2. cache[Home][sect[w]] >= w
    BY <1>10, <2>1 DEF History, Kept
  <2> QED BY <1>6, <1>7, <1>10, <2>2
<1>11. Seen'
  <2>1. ASSUME NEW r \in Call, Done(r, "read")', NEW w \in Call, Done(w, "write")',
               OpenedBy(r) \in Store, sect[w] = sect[r], epoch[w] = epoch[r], w < r
        PROVE  result'[r] >= w
    <3>1. Done(w, "write")
      BY <1>3, <2>1
    <3>2. CASE r = i
      BY <1>1, <1>10, <2>1, <3>1, <3>2
    <3>3. CASE r # i
      BY <1>5, <2>1, <3>1, <3>3 DEF History, Seen
    <3> QED BY <3>2, <3>3
  <2>2. ASSUME NEW r \in Call, Done(r, "read")' PROVE result'[r] < r
    BY <1>5, <1>9, <2>2 DEF History, Seen
  <2> QED BY <1>1, <2>1, <2>2 DEF Seen
<1>12. Saved'
  <2>1. SUFFICES ASSUME NEW f \in Call, NEW w \in Call, Flushes(f, w)'
                 PROVE  /\ durable[OpenedBy(f)][sect[w]] >= w
                        /\ \A r \in Call : Reopens(r, f, w)' => result'[r] >= w
    BY <1>1, <1>2 DEF Saved
  <2>2. Flushes(f, w) /\ OpenedBy(f) \in Store
    BY <1>1, <1>3, <1>4, <2>1 DEF Flushes
  <2>3. durable[OpenedBy(f)][sect[w]] >= w
    BY <2>2 DEF History, Saved
  <2>4. ASSUME NEW r \in Call, Reopens(r, f, w)' PROVE result'[r] >= w
    <3>1. CASE r # i
      <4>1. Reopens(r, f, w)
        BY <1>1, <1>5, <2>4, <3>1 DEF Reopens
      <4> QED BY <1>5, <2>2, <3>1, <4>1 DEF History, Saved
    <3>2. CASE r = i
      <4>1. sect[i] = sect[w] /\ OpenedBy(f) = Home
        BY <1>1, <2>4, <3>2 DEF Reopens
      <4>2. /\ durable[Home][sect[i]] >= w /\ durable[Home][sect[i]] <= cache[Home][sect[i]]
            /\ durable[Home][sect[i]] \in Nat /\ cache[Home][sect[i]] \in Nat
        BY <1>2, <2>2, <2>3, <4>1, Contents DEF Ordered
      <4>3. result'[i] = cache[Home][sect[i]]
        BY <1>6, <1>7, <2>2, <4>1
      <4> QED BY <1>2, <3>2, <4>2, <4>3
    <3> QED BY <3>1, <3>2
  <2> QED BY <2>3, <2>4
<1> QED BY <1>8, <1>11, <1>12 DEF History

(* A write is kept, and neither a read nor a flush of this page was made    *)
(* after it and returned before it.                                         *)
LEMMA HistoryWrite ==
    ASSUME TypeOK, Turns, OneBackend, Ordered, History, NEW i \in Call,
           Settles(i), kind[i] = "write",
           Stored(i), UNCHANGED result
    PROVE  History'
<1>1. /\ UNCHANGED <<made, kind, sect, epoch, reloads, opened, backend>>
      /\ backend = Home /\ backend \in {"memory"} \cup Store
      /\ pc[i] = "queued" /\ Here(i) /\ OpenedBy(i) = Home
      /\ \A j \in Call : OpenedBy(j)' = OpenedBy(j) /\ (Here(j) => OpenedBy(j) = Home)
      /\ \A j \in Call \ {i}, k \in Kind : Done(j, k)' => Done(j, k)
      /\ \A k \in Kind : Done(i, k)' => k = "write"
  BY Settling
<1>2. Call \subseteq Nat /\ sect[i] \in Sector /\ Store = {"opfs", "idb"}
  BY Numbers, Contents, Pages
<1>3. \A j \in Call \ {i} : Done(j, "write")' => Done(j, "write")
  BY <1>1 DEF Kind
<1>4. \A j \in Call : /\ Done(j, "read")' => Done(j, "read")
                      /\ Done(j, "flush")' => Done(j, "flush")
  BY <1>1 DEF Kind
<1>5. ASSUME NEW j \in Call, Done(j, "read") \/ Done(j, "flush"), epoch[j] = epoch[i]
      PROVE  j < i
  BY <1>1, <1>5 DEF Turns, InTurn, Taken, Pending, Here, Done
<1>6. ASSUME NEW b \in Store, NEW s \in Sector
      PROVE  /\ cache'[b][s] \in Nat /\ cache'[b][s] >= cache[b][s]
             /\ durable'[b][s] \in Nat /\ durable'[b][s] >= durable[b][s]
  <2>1. /\ cache[b][s] \in Nat /\ durable[b][s] \in Nat
        /\ durable[b][s] <= cache[b][s] /\ cache[b][s] < i
    BY <1>1, Contents DEF Ordered, Pending
  <2>2. cache \in [Store -> [Sector -> Value]] /\ durable \in [Store -> [Sector -> Value]]
    BY DEF TypeOK
  <2>3. /\ \/ cache' = cache
           \/ backend \in Store /\ cache' = [cache EXCEPT ![backend][sect[i]] = i]
        /\ \/ durable' = durable
           \/ durable' = [durable EXCEPT !["idb"][sect[i]] = i]
    BY <1>1 DEF Stored
  <2>4. cache'[b][s] \in {i, cache[b][s]}
    BY <1>2, <2>2, <2>3
  <2>5. durable'[b][s] \in {i, durable[b][s]}
    BY <1>2, <2>2, <2>3
  <2> QED BY <1>2, <2>1, <2>4, <2>5
<1>7. Home \in Store => cache'[Home][sect[i]] = i
  BY <1>1, <1>2 DEF Stored, TypeOK
<1>8. Kept'
  <2>1. ASSUME NEW w \in Call, Done(w, "write")', Here(w), OpenedBy(w) \in Store
        PROVE  cache'[OpenedBy(w)][sect[w]] >= w
    <3>1. CASE w = i
      BY <1>1, <1>2, <1>7, <2>1, <3>1
    <3>2. CASE w # i
      <4>1. cache[OpenedBy(w)][sect[w]] >= w
        BY <1>3, <2>1, <3>2 DEF History, Kept
      <4>2. sect[w] \in Sector /\ cache[OpenedBy(w)][sect[w]] \in Nat /\ w \in Nat
        BY <1>2, <2>1, Contents
      <4>3. /\ cache'[OpenedBy(w)][sect[w]] \in Nat
            /\ cache'[OpenedBy(w)][sect[w]] >= cache[OpenedBy(w)][sect[w]]
        BY <1>6, <2>1, <4>2
      <4> QED BY <4>1, <4>2, <4>3
    <3> QED BY <3>1, <3>2
  <2> QED BY <1>1, <2>1 DEF Kept, Here
<1>9. Seen'
  <2>1. ASSUME NEW r \in Call, Done(r, "read")', NEW w \in Call, Done(w, "write")',
               OpenedBy(r) \in Store, sect[w] = sect[r], epoch[w] = epoch[r], w < r
        PROVE  result[r] >= w
    <3>1. Done(r, "read")
      BY <1>4, <2>1
    <3>2. w # i
      BY <1>2, <1>5, <2>1, <3>1
    <3> QED BY <1>3, <2>1, <3>1, <3>2 DEF History, Seen
  <2>2. ASSUME NEW r \in Call, Done(r, "read")' PROVE result[r] < r
    BY <1>4, <2>2 DEF History, Seen
  <2> QED BY <1>1, <2>1, <2>2 DEF Seen
<1>10. Saved'
  <2>1. SUFFICES ASSUME NEW f \in Call, NEW w \in Call, Flushes(f, w)'
                 PROVE  /\ durable'[OpenedBy(f)][sect[w]] >= w
                        /\ \A r \in Call : Reopens(r, f, w)' => result[r] >= w
    BY <1>1 DEF Saved
  <2>2. /\ Done(f, "flush") /\ epoch[w] = epoch[f] /\ w < f /\ OpenedBy(f) \in Store
        /\ Done(w, "write")'
    BY <1>1, <1>4, <2>1 DEF Flushes
  <2>3. w # i
    BY <1>2, <1>5, <2>2
  <2>4. Flushes(f, w)
    BY <1>3, <2>2, <2>3 DEF Flushes
  <2>5. durable[OpenedBy(f)][sect[w]] >= w
    BY <2>4 DEF History, Saved
  <2>6. sect[w] \in Sector /\ durable[OpenedBy(f)][sect[w]] \in Nat /\ w \in Nat
    BY <1>2, <2>2, Contents
  <2>7. /\ durable'[OpenedBy(f)][sect[w]] \in Nat
        /\ durable'[OpenedBy(f)][sect[w]] >= durable[OpenedBy(f)][sect[w]]
    BY <1>6, <2>2, <2>6
  <2>8. \A r \in Call : Reopens(r, f, w)' => Reopens(r, f, w)
    BY <1>1, <1>4 DEF Reopens
  <2>9. durable'[OpenedBy(f)][sect[w]] >= w
    BY <2>5, <2>6, <2>7
  <2> QED BY <2>4, <2>8, <2>9 DEF History, Saved
<1> QED BY <1>8, <1>9, <1>10 DEF History

(* A flush loses nothing.                                                   *)
LEMMA FlushedGrows ==
    ASSUME TypeOK, Ordered, Flushed
    PROVE  \A b \in Store, s \in Sector : durable'[b][s] \in Nat /\ durable'[b][s] >= durable[b][s]
<1>1. \A b \in Store, s \in Sector : durable'[b][s] \in {durable[b][s], cache[b][s]}
  BY DEF Flushed, TypeOK, Store
<1> QED BY <1>1, Contents DEF Ordered

(* It saves what is Kept.                                                   *)
LEMMA HistoryFlush ==
    ASSUME TypeOK, Turns, OneBackend, Ordered, History, NEW i \in Call,
           Settles(i), kind[i] = "flush",
           Flushed, UNCHANGED result
    PROVE  History'
<1>1. /\ UNCHANGED <<made, kind, sect, epoch, reloads, opened, backend>>
      /\ backend = Home /\ backend \in {"memory"} \cup Store
      /\ pc[i] = "queued" /\ Here(i) /\ OpenedBy(i) = Home
      /\ \A j \in Call : OpenedBy(j)' = OpenedBy(j) /\ (Here(j) => OpenedBy(j) = Home)
      /\ \A j \in Call \ {i}, k \in Kind : Done(j, k)' => Done(j, k)
      /\ \A k \in Kind : Done(i, k)' => k = "flush"
  BY Settling
<1>2. Call \subseteq Nat /\ UNCHANGED cache /\ reloads \in Nat /\ epoch \in [Call -> Nat]
  BY Numbers DEF Flushed
<1>3. \A j \in Call \ {i} : Done(j, "flush")' => Done(j, "flush")
  BY <1>1 DEF Kind
<1>4. \A j \in Call : /\ Done(j, "read")' => Done(j, "read")
                      /\ Done(j, "write")' => Done(j, "write")
  BY <1>1 DEF Kind
<1>5. \A b \in Store, s \in Sector : durable'[b][s] \in Nat /\ durable'[b][s] >= durable[b][s]
  BY FlushedGrows
<1>6. Home \in Store => durable'[Home] = cache[Home]
  BY <1>1 DEF Flushed, TypeOK, Ordered, Store
<1>7. Kept'
  BY <1>1, <1>2, <1>4 DEF History, Kept, Here
<1>8. Seen'
  BY <1>1, <1>4 DEF History, Seen
<1>9. Saved'
  <2>1. SUFFICES ASSUME NEW f \in Call, NEW w \in Call, Flushes(f, w)'
                 PROVE  /\ durable'[OpenedBy(f)][sect[w]] >= w
                        /\ \A r \in Call : Reopens(r, f, w)' => result[r] >= w
    BY <1>1 DEF Saved
  <2>2. /\ Done(w, "write") /\ epoch[w] = epoch[f] /\ w < f /\ OpenedBy(f) \in Store
        /\ Done(f, "flush")'
    BY <1>1, <1>4, <2>1 DEF Flushes
  <2>3. CASE f = i
    <3>1. Here(w) /\ OpenedBy(w) = Home /\ OpenedBy(f) = Home
      BY <1>1, <2>2, <2>3 DEF Here
    <3>2. durable'[Home][sect[w]] >= w
      BY <1>6, <2>2, <3>1 DEF History, Kept
    <3>3. \A r \in Call : ~Reopens(r, f, w)'
      BY <1>1, <1>2, <2>3 DEF Reopens, Here, Turns, Numbered
    <3> QED BY <3>1, <3>2, <3>3
  <2>4. CASE f # i
    <3>1. Flushes(f, w)
      BY <1>3, <2>2, <2>4 DEF Flushes
    <3>2. durable[OpenedBy(f)][sect[w]] >= w
      BY <3>1 DEF History, Saved
    <3>3. sect[w] \in Sector /\ durable[OpenedBy(f)][sect[w]] \in Nat /\ w \in Nat
      BY <1>2, <2>2, Contents
    <3>4. /\ durable'[OpenedBy(f)][sect[w]] \in Nat
          /\ durable'[OpenedBy(f)][sect[w]] >= durable[OpenedBy(f)][sect[w]]
      BY <1>5, <2>2, <3>3
    <3>5. \A r \in Call : Reopens(r, f, w)' => Reopens(r, f, w)
      BY <1>1, <1>4 DEF Reopens
    <3>6. durable'[OpenedBy(f)][sect[w]] >= w
      BY <3>2, <3>3, <3>4
    <3> QED BY <3>1, <3>5, <3>6 DEF History, Saved
  <2> QED BY <2>3, <2>4
<1> QED BY <1>7, <1>8, <1>9 DEF History

(* A reload keeps what was saved, and owes no more of the earlier page.     *)
LEMMA HistoryReload ==
    ASSUME TypeOK, Turns, History, Reload
    PROVE  History'
<1>1. /\ UNCHANGED <<made, kind, sect, epoch, result, durable, opened>> /\ reloads' = reloads + 1
      /\ pc' = [i \in Call |-> IF i <= made /\ pc[i] \notin {"done", "failed"}
                             THEN "lost" ELSE pc[i]]
      /\ reloads \in Nat /\ epoch \in [Call -> Nat]
  BY Numbers DEF Reload, callVars
<1>2. \A j \in Call : OpenedBy(j)' = OpenedBy(j)
  BY <1>1 DEF OpenedBy
<1>3. \A j \in Call, k \in Kind : Done(j, k)' => Done(j, k)
  BY <1>1 DEF Done
<1>4. \A j \in Call : ~Here(j)'
  BY <1>1 DEF Turns, Numbered, Here
<1>5. Kept'
  BY <1>4 DEF Kept
<1>6. \A j \in Call : /\ Done(j, "read")' => Done(j, "read")
                      /\ Done(j, "write")' => Done(j, "write")
                      /\ Done(j, "flush")' => Done(j, "flush")
  BY <1>3 DEF Kind
<1>7. Seen'
  BY <1>1, <1>2, <1>6 DEF History, Seen
<1>8. Saved'
  BY <1>1, <1>2, <1>6 DEF History, Saved, Flushes, Reopens
<1> QED BY <1>5, <1>7, <1>8 DEF History

-----------------------------------------------------------------------------
(* A recorded checksum is that of the last write queued for its block, and  *)
(* no store holds a later write.                                            *)
Recorded ==
    /\ \A s \in Sector : blockChecksums[s] # 0 =>
           /\ blockChecksums[s] \in Call
           /\ kind[blockChecksums[s]] = "write" /\ sect[blockChecksums[s]] = s
           /\ Here(blockChecksums[s])
           /\ pc[blockChecksums[s]] \in {"queued", "done", "failed"}
           /\ \A b \in Store : cache[b][s] <= blockChecksums[s]
    /\ \A i \in Call : pc[i] = "queued" /\ kind[i] = "write" => i <= blockChecksums[sect[i]]

LEMMA RecordedInit == Init => Recorded
BY DEF Init, Recorded, Fresh

(* The newest call is queued, and its checksum recorded if it writes.       *)
LEMMA RecordedEnqueue ==
    ASSUME TypeOK, Turns, Ordered, Recorded, NEW i \in Call, Enqueue(i),
           pc[i] \in {"idle", "init", "ready"},
           \A j \in Call : pc[j] = "queued" => j < i,
           \A s \in Sector, b \in Store : cache[b][s] < i,
           pc' = [pc EXCEPT ![i] = "queued"], UNCHANGED <<sect, cache, reloads>>,
           \A j \in Call \ {i} : kind'[j] = kind[j] /\ epoch'[j] = epoch[j],
           epoch'[i] = reloads
    PROVE  Recorded'
<1>1. /\ Call \subseteq Nat /\ pc \in [Call -> Progress] /\ sect[i] \in Sector
      /\ blockChecksums \in [Sector -> Value]
  BY Numbers, Contents DEF TypeOK
<1>2. \A j \in Call \ {i} : pc'[j] = pc[j]
  BY <1>1
<1>3. pc'[i] = "queued"
  BY <1>1
<1>4. \A s \in Sector : blockChecksums[s] # 0 => blockChecksums[s] \in Call \ {i}
  BY <1>1 DEF Recorded
<1>5. CASE kind'[i] = "write"
  <2>1. blockChecksums' = [blockChecksums EXCEPT ![sect[i]] = i]
    BY <1>5 DEF Enqueue
  <2>2. blockChecksums'[sect[i]] = i
    BY <1>1, <2>1
  <2>3. \A s \in Sector \ {sect[i]} : blockChecksums'[s] = blockChecksums[s]
    BY <1>1, <2>1
  <2>4. ASSUME NEW s \in Sector, blockChecksums'[s] # 0
        PROVE  /\ blockChecksums'[s] \in Call
               /\ kind'[blockChecksums'[s]] = "write" /\ sect[blockChecksums'[s]] = s
               /\ epoch'[blockChecksums'[s]] = reloads
               /\ pc'[blockChecksums'[s]] \in {"queued", "done", "failed"}
               /\ \A b \in Store : cache[b][s] <= blockChecksums'[s]
    <3>1. CASE s = sect[i]
      BY <1>1, <1>3, <1>5, <2>2, <3>1, Contents
    <3>2. CASE s # sect[i]
      BY <1>2, <1>4, <2>3, <2>4, <3>2 DEF Recorded, Here
    <3> QED BY <3>1, <3>2
  <2>5. ASSUME NEW j \in Call, pc'[j] = "queued", kind'[j] = "write"
        PROVE  j <= blockChecksums'[sect[j]]
    <3>1. CASE j = i
      BY <1>1, <2>2, <3>1
    <3>2. CASE j # i
      <4>1. pc[j] = "queued" /\ kind[j] = "write" /\ sect[j] \in Sector
        BY <1>2, <2>5, <3>2, Contents
      <4>2. j < i /\ j <= blockChecksums[sect[j]]
        BY <4>1 DEF Recorded
      <4>3. CASE sect[j] = sect[i]
        BY <1>1, <2>2, <4>2, <4>3
      <4>4. CASE sect[j] # sect[i]
        BY <2>3, <4>1, <4>2, <4>4
      <4> QED BY <4>3, <4>4
    <3> QED BY <3>1, <3>2
  <2> QED BY <2>4, <2>5 DEF Recorded, Here
<1>6. CASE kind'[i] # "write"
  <2>1. blockChecksums' = blockChecksums
    BY <1>6 DEF Enqueue
  <2>2. ASSUME NEW s \in Sector, blockChecksums[s] # 0
        PROVE  /\ blockChecksums[s] \in Call
               /\ kind'[blockChecksums[s]] = "write" /\ sect[blockChecksums[s]] = s
               /\ epoch'[blockChecksums[s]] = reloads
               /\ pc'[blockChecksums[s]] \in {"queued", "done", "failed"}
               /\ \A b \in Store : cache[b][s] <= blockChecksums[s]
    BY <1>2, <1>4, <2>2 DEF Recorded, Here
  <2>3. ASSUME NEW j \in Call, pc'[j] = "queued", kind'[j] = "write"
        PROVE  j <= blockChecksums[sect[j]]
    BY <1>2, <1>6, <2>3 DEF Recorded
  <2> QED BY <2>1, <2>2, <2>3 DEF Recorded, Here
<1> QED BY <1>5, <1>6

(* A step that queues nothing and stores nothing.                           *)
LEMMA RecordedSame ==
    ASSUME TypeOK, Recorded, UNCHANGED <<sect, cache, reloads, blockChecksums>>,
           \A j \in Call : pc'[j] = "queued" => pc[j] = "queued",
           \A j \in Call : pc[j] \in {"queued", "done", "failed"} =>
               kind'[j] = kind[j] /\ epoch'[j] = epoch[j],
           \A j \in Call : pc[j] \in {"queued", "done", "failed"} /\ kind[j] = "write" =>
               pc'[j] \in {"queued", "done", "failed"}
    PROVE  Recorded'
BY DEF Recorded, Here

(* A write stores what was recorded for its block, or less.                 *)
LEMMA RecordedStored ==
    ASSUME TypeOK, Turns, Ordered, Recorded, NEW i \in Call,
           Settles(i), kind[i] = "write", Stored(i),
           UNCHANGED blockChecksums
    PROVE  Recorded'
<1>1. /\ UNCHANGED <<kind, sect, epoch, reloads, backend>>
      /\ backend # "null" /\ pc' = [pc EXCEPT ![i] = "done"] /\ pc[i] = "queued"
      /\ pc \in [Call -> Progress] /\ Call \subseteq Nat /\ sect[i] \in Sector
      /\ cache \in [Store -> [Sector -> Value]]
  BY Numbers, Contents DEF Settles, callVars, actorVars, pageVars, TypeOK
<1>2. i <= blockChecksums[sect[i]]
  BY <1>1 DEF Recorded
<1>3. ASSUME NEW b \in Store, NEW s \in Sector
      PROVE  cache'[b][s] = cache[b][s] \/ (s = sect[i] /\ cache'[b][s] = i)
  <2>1. CASE backend = "memory"
    BY <2>1 DEF Stored
  <2>2. CASE backend # "memory"
    <3>1. cache' = [cache EXCEPT ![backend][sect[i]] = i] /\ backend \in Store
      BY <1>1, <2>2 DEF Stored, TypeOK
    <3> QED BY <1>1, <3>1
  <2> QED BY <2>1, <2>2
<1>4. ASSUME NEW s \in Sector, blockChecksums[s] # 0, NEW b \in Store
      PROVE  cache'[b][s] <= blockChecksums[s]
  BY <1>1, <1>2, <1>3, <1>4 DEF Recorded
<1>5. \A j \in Call : /\ pc'[j] = "queued" => pc[j] = "queued"
                      /\ pc[j] \in {"queued", "done", "failed"}
                             => pc'[j] \in {"queued", "done", "failed"}
  BY <1>1
<1> QED BY <1>1, <1>4, <1>5 DEF Recorded, Here

(* A new page has no checksums.                                             *)
LEMMA RecordedReload ==
    ASSUME TypeOK, Turns, Recorded, Reload
    PROVE  Recorded'
<1>1. /\ pc' = [i \in Call |-> IF i <= made /\ pc[i] \notin {"done", "failed"}
                             THEN "lost" ELSE pc[i]]
      /\ blockChecksums' = Fresh
  BY DEF Reload
<1>2. \A j \in Call : pc'[j] # "queued"
  BY <1>1, Numbers DEF Turns, Numbered
<1> QED BY <1>1, <1>2 DEF Recorded, Fresh

-----------------------------------------------------------------------------
(* All of it holds as long as no call was made while another ran init(): a  *)
(* call queued after init() could otherwise be older than those before it.  *)
Settled == Turns /\ OneBackend /\ Ordered /\ Closers /\ History /\ Recorded

(* Each action keeps all of it.                                             *)
LEMMA SettledInitialized ==
    ASSUME TypeOK, Settled, NEW i \in Call, NEW k \in Kind, CallInitialized(i, k), ~raced'
    PROVE  Settled'
<1>1. /\ NewCall(i, k) /\ Enqueue(i) /\ pc' = [pc EXCEPT ![i] = "queued"]
      /\ queue' = Append(queue, i)
      /\ UNCHANGED <<sect, mode, result, actorVars, storeVars, pageVars>>
      /\ kind' = [kind EXCEPT ![i] = k]
  BY DEF CallInitialized, Enqueue, NewCall
<1>2. /\ UNCHANGED <<sect, result, reloads, available, cache, durable, mem>>
  BY <1>1 DEF storeVars, pageVars
<1>3. /\ i = made + 1 /\ pc[i] = "idle" /\ epoch' = [epoch EXCEPT ![i] = reloads] /\ made' = i
      /\ \A j \in Call : pc[j] # "idle" => j < i
  BY <1>1, Newest DEF Settled
<1>4. /\ made \in Nat /\ Call \subseteq Nat /\ pc \in [Call -> Progress] /\ kind \in [Call -> Kind]
      /\ epoch \in [Call -> Nat]
  BY Numbers DEF TypeOK
<1>5. /\ \A j \in Call \ {i} : pc'[j] = pc[j] /\ kind'[j] = kind[j] /\ epoch'[j] = epoch[j]
      /\ pc'[i] = "queued" /\ epoch'[i] = reloads
  BY <1>1, <1>3, <1>4
<1>6. Turns'
  BY <1>1, <1>2, TurnsNew DEF Settled
<1>7. OneBackend'
  BY BackendInitialized DEF Settled
<1>8. Ordered'
  <2>1. \A j \in Call : Pending(j)' => Pending(j) \/ j > made
    BY <1>3, <1>4, <1>5 DEF Pending
  <2> QED BY <1>2, <1>3, <1>4, <2>1, OrderedSame DEF Settled
<1>9. Closers'
  BY <1>5 DEF Settled, Closers
<1>10. History'
  <2>1. \A j \in Call, l \in Kind \ {"close"} :
           Done(j, l)' =>
               Done(j, l) /\ epoch'[j] = epoch[j] /\ OpenedBy(j)' = OpenedBy(j)
    BY <1>1, <1>3, <1>4, <1>5 DEF Done, OpenedBy, actorVars, Settled, Turns, Numbered
  <2>2. \A b \in Store, s \in Sector : durable'[b][s] \in Nat /\ durable'[b][s] >= durable[b][s]
    BY <1>2, Contents
  <2> QED BY <1>2, <2>1, <2>2, HistorySame DEF Settled
<1>11. Recorded'
  <2>1. \A s \in Sector, b \in Store : cache[b][s] < i
    BY <1>3, <1>4, Contents DEF Settled, Ordered
  <2>2. \A j \in Call : pc[j] = "queued" => j < i
    BY <1>3
  <2> QED BY <1>1, <1>2, <1>3, <1>5, <2>1, <2>2, RecordedEnqueue DEF Settled
<1> QED BY <1>6, <1>7, <1>8, <1>9, <1>10, <1>11 DEF Settled

LEMMA SettledUninitialized ==
    ASSUME TypeOK, Settled, NEW i \in Call, NEW k \in Kind, CallUninitialized(i, k), ~raced'
    PROVE  Settled'
<1>1. /\ NewCall(i, k)
      /\ UNCHANGED <<sect, result, queue, cache, durable, blockChecksums, reloads, available>>
      /\ kind' = [kind EXCEPT ![i] = k]
  BY DEF CallUninitialized, NewCall, pageVars
<1>2. PICK p \in {"init", "ready"} : pc' = [pc EXCEPT ![i] = p]
  BY DEF CallUninitialized
<1>3. mem' \in {mem, Fresh}
  BY DEF CallUninitialized
<1>4. /\ i = made + 1 /\ pc[i] = "idle" /\ epoch' = [epoch EXCEPT ![i] = reloads] /\ made' = i
      /\ \A j \in Call : pc[j] # "idle" => j < i
      /\ \A j \in Call : ~Starting(j)
  BY <1>1, Newest DEF Settled
<1>5. /\ made \in Nat /\ Call \subseteq Nat /\ pc \in [Call -> Progress] /\ kind \in [Call -> Kind]
      /\ epoch \in [Call -> Nat]
  BY Numbers DEF TypeOK
<1>6. /\ \A j \in Call \ {i} : pc'[j] = pc[j] /\ kind'[j] = kind[j] /\ epoch'[j] = epoch[j]
      /\ pc'[i] \in {"init", "ready"}
  BY <1>1, <1>2, <1>4, <1>5
<1>7. Turns'
  BY <1>1, <1>2, TurnsNew DEF Settled
<1>8. /\ OneBackend'
      /\ \/ opened' = opened
         \/ /\ opened' = [opened EXCEPT ![reloads] = "memory"]
            /\ Home \in {"none", "memory"}
  BY <1>4, BackendUninitialized DEF Settled
<1>9. Ordered'
  <2>1. \A j \in Call : Pending(j)' => Pending(j) \/ j > made
    BY <1>4, <1>5, <1>6 DEF Pending
  <2> QED BY <1>1, <1>3, <1>4, <1>5, <2>1, OrderedSame DEF Settled
<1>10. Closers'
  BY <1>6 DEF Settled, Closers
<1>11. History'
  <2>1. \A j \in Call, l \in Kind \ {"close"} :
           Done(j, l)' =>
               Done(j, l) /\ epoch'[j] = epoch[j] /\ OpenedBy(j)' = OpenedBy(j)
    <3> SUFFICES ASSUME NEW j \in Call, NEW l \in Kind \ {"close"}, Done(j, l)'
                 PROVE  Done(j, l) /\ epoch'[j] = epoch[j] /\ OpenedBy(j)' = OpenedBy(j)
      OBVIOUS
    <3>1. Done(j, l) /\ epoch'[j] = epoch[j] /\ Taken(j)
      BY <1>4, <1>5, <1>6 DEF Done, Taken, Settled, Turns, Numbered
    <3>2. opened'[epoch[j]] = opened[epoch[j]]
      BY <1>8, <3>1, OpenedStays DEF Settled
    <3> QED BY <3>1, <3>2 DEF OpenedBy
  <2>2. \A b \in Store, s \in Sector : durable'[b][s] \in Nat /\ durable'[b][s] >= durable[b][s]
    BY <1>1, Contents
  <2> QED BY <1>1, <2>1, <2>2, HistorySame DEF Settled
<1>12. Recorded'
  <2>1. \A j \in Call : pc'[j] = "queued" => pc[j] = "queued"
    BY <1>6
  <2>2. \A j \in Call : pc[j] \in {"queued", "done", "failed"} =>
           kind'[j] = kind[j] /\ epoch'[j] = epoch[j] /\ pc'[j] \in {"queued", "done", "failed"}
    BY <1>4, <1>6
  <2> QED BY <1>1, <2>1, <2>2, RecordedSame DEF Settled
<1> QED BY <1>7, <1>8, <1>9, <1>10, <1>11, <1>12 DEF Settled

(* A call whose init() is over queues, whatever it opened.                  *)
LEMMA SettledEnqueue ==
    ASSUME TypeOK, Settled, NEW i \in Call, Starting(i), Enqueue(i), OneBackend',
           UNCHANGED <<callVars, result, cache, durable, pageVars>>, mem' \in {mem, Fresh},
           pc' = [pc EXCEPT ![i] = "queued"],
           \A j \in Call : Taken(j) => OpenedBy(j)' = OpenedBy(j)
    PROVE  Settled'
<1>1. /\ UNCHANGED <<sect, result, reloads, available, cache, durable, kind, epoch, made>>
      /\ queue' = Append(queue, i)
  BY DEF callVars, pageVars, Enqueue
<1>2. /\ made \in Nat /\ Call \subseteq Nat /\ pc \in [Call -> Progress] /\ epoch \in [Call -> Nat]
  BY Numbers
<1>3. /\ \A j \in Call \ {i} : pc'[j] = pc[j]
      /\ pc'[i] = "queued" /\ pc[i] \in {"init", "ready"}
  BY <1>2 DEF Starting
<1>4. Turns'
  BY <1>1, TurnsStarted DEF Settled
<1>5. Ordered'
  <2>1. \A j \in Call : Pending(j)' => Pending(j) \/ j > made
    BY <1>3 DEF Pending
  <2> QED BY <1>1, <1>2, <2>1, OrderedSame DEF Settled
<1>6. Closers'
  BY <1>1, <1>3 DEF Settled, Closers
<1>7. History'
  <2>1. \A j \in Call, l \in Kind \ {"close"} :
           Done(j, l)' =>
               Done(j, l) /\ epoch'[j] = epoch[j] /\ OpenedBy(j)' = OpenedBy(j)
    BY <1>1, <1>3 DEF Done, Taken
  <2>2. \A b \in Store, s \in Sector : durable'[b][s] \in Nat /\ durable'[b][s] >= durable[b][s]
    BY <1>1, Contents
  <2> QED BY <1>1, <2>1, <2>2, HistorySame DEF Settled
<1>8. Recorded'
  <2>1. \A s \in Sector, b \in Store : cache[b][s] < i
    BY <1>3 DEF Settled, Ordered, Pending
  <2>2. \A j \in Call : pc[j] = "queued" => j < i
    <3>1. ASSUME NEW j \in Call, pc[j] = "queued" PROVE j <= i /\ j # i
      BY <1>3, <3>1 DEF Settled, Turns, InTurn, Starting
    <3> QED BY <1>2, <3>1
  <2>3. epoch'[i] = reloads
    BY <1>1, <1>3 DEF Settled, Turns, Numbered, Here
  <2> QED BY <1>1, <1>3, <2>1, <2>2, <2>3, RecordedEnqueue DEF Settled
<1> QED BY <1>4, <1>5, <1>6, <1>7, <1>8 DEF Settled

LEMMA SettledReturns ==
    ASSUME TypeOK, Settled, NEW i \in Call, InitReturns(i)
    PROVE  Settled'
<1>1. /\ pc[i] = "init" /\ UNCHANGED <<callVars, result, cache, durable, pageVars, raced>>
      /\ \/ \E b : Opens(i, b)
         \/ /\ pc' = [pc EXCEPT ![i] = "failed"]
            /\ UNCHANGED <<actorVars, mem, queue, blockChecksums>>
  BY Initialized DEF Settled
<1>2. OneBackend' /\ Starting(i)
  BY <1>1, BackendReturns DEF Settled, Starting
<1>3. ASSUME NEW b, Opens(i, b) PROVE Settled'
  <2>1. Enqueue(i) /\ mem' \in {mem, Fresh} /\ pc' = [pc EXCEPT ![i] = "queued"]
    BY <1>3 DEF Opens
  <2>2. \A j \in Call : Taken(j) => OpenedBy(j)' = OpenedBy(j)
    BY <1>1, <1>3, OpenedStays DEF Settled, Opens, OpenedBy, callVars
  <2> QED BY <1>1, <1>2, <2>1, <2>2, SettledEnqueue
<1>4. CASE /\ pc' = [pc EXCEPT ![i] = "failed"]
           /\ UNCHANGED <<actorVars, mem, queue, blockChecksums>>
  <2>1. /\ UNCHANGED <<sect, result, reloads, available, cache, durable, mem, kind, epoch, made>>
        /\ opened' = opened
    BY <1>1, <1>4 DEF callVars, pageVars, actorVars
  <2>2. /\ made \in Nat /\ pc \in [Call -> Progress]
    BY Numbers
  <2>3. /\ \A j \in Call \ {i} : pc'[j] = pc[j]
        /\ pc'[i] = "failed"
    BY <1>4, <2>2
  <2>4. Turns'
    BY <1>2, <1>4, <2>1, TurnsStarted DEF Settled
  <2>5. Ordered'
    <3>1. \A j \in Call : Pending(j)' => Pending(j) \/ j > made
      BY <2>3 DEF Pending
    <3> QED BY <2>1, <2>2, <3>1, OrderedSame DEF Settled
  <2>6. Closers'
    BY <2>1, <2>3 DEF Settled, Closers
  <2>7. History'
    <3>1. \A j \in Call, l \in Kind \ {"close"} :
           Done(j, l)' =>
               Done(j, l) /\ epoch'[j] = epoch[j] /\ OpenedBy(j)' = OpenedBy(j)
      BY <2>1, <2>3 DEF Done, OpenedBy
    <3>2. \A b \in Store, s \in Sector : durable'[b][s] \in Nat /\ durable'[b][s] >= durable[b][s]
      BY <2>1, Contents
    <3> QED BY <2>1, <3>1, <3>2, HistorySame DEF Settled
  <2>8. Recorded'
    BY <1>1, <1>4, <2>1, <2>3, RecordedSame DEF Settled
  <2> QED BY <1>2, <2>4, <2>5, <2>6, <2>7, <2>8 DEF Settled
<1> QED BY <1>1, <1>3, <1>4

LEMMA SettledContinue ==
    ASSUME TypeOK, Settled, NEW i \in Call, Continue(i)
    PROVE  Settled'
<1>1. /\ pc[i] = "ready" /\ Enqueue(i) /\ pc' = [pc EXCEPT ![i] = "queued"]
      /\ UNCHANGED <<callVars, result, actorVars, cache, durable, mem, pageVars>>
  BY DEF Continue, storeVars
<1>2. OneBackend'
  BY <1>1, BackendKept DEF Settled, Progress, callVars, pageVars
<1>3. \A j \in Call : OpenedBy(j)' = OpenedBy(j)
  BY <1>1 DEF OpenedBy, callVars, actorVars
<1> QED BY <1>1, <1>2, <1>3, SettledEnqueue DEF Starting

LEMMA SettledRun ==
    ASSUME TypeOK, Settled, NEW i \in Call, RunTask(i)
    PROVE  Settled'
<1>1. /\ queue # <<>> /\ i = Head(queue) /\ pc[i] = "queued" /\ backend # "null"
      /\ queue' = Tail(queue) /\ UNCHANGED <<callVars, actorVars, blockChecksums, pageVars>>
      /\ pc' = [pc EXCEPT ![i] = IF kind[i] = "close" THEN "closing" ELSE "done"]
  BY DEF RunTask
<1>2. PICK p \in {"closing", "done"} : p = (IF kind[i] = "close" THEN "closing" ELSE "done")
  OBVIOUS
<1>3. pc' = [pc EXCEPT ![i] = p]
  BY <1>1, <1>2
<1>4. UNCHANGED <<sect, reloads, opened, kind, epoch, made, mode, backend, blockChecksums>>
  BY <1>1 DEF callVars, pageVars, actorVars
<1>5. /\ made \in Nat /\ Call \subseteq Nat /\ pc \in [Call -> Progress] /\ kind \in [Call -> Kind]
  BY Numbers DEF TypeOK
<1>6. /\ \A j \in Call \ {i} : pc'[j] = pc[j]
      /\ pc'[i] = p
  BY <1>3, <1>5
<1>7. Turns'
  BY <1>1, <1>3, <1>4, TurnsRun DEF Settled
<1>8. OneBackend'
  BY <1>1, <1>3, <1>4, BackendKept DEF Settled, Progress
<1>9. Closers'
  BY <1>2, <1>4, <1>6 DEF Settled, Closers
<1>10. /\ \A j \in Call : Pending(j)' => Pending(j)
       /\ \A j \in Call : Pending(j)' => i < j
  <2>1. \A j \in Call : Pending(j)' => Pending(j) /\ j # i
    BY <1>6 DEF Pending
  <2>2. InLine' /\ \A j \in Call \ {i} : pc[j] = "queued" => i < j
    BY <1>1, <1>3, Leaves DEF Settled, Turns, Progress
  <2>3. \A j \in Call \ {i} : Starting(j) => i < j
    <3>1. ASSUME NEW j \in Call \ {i}, Starting(j) PROVE i <= j
      BY <1>1, <3>1 DEF Settled, Turns, InTurn
    <3> QED BY <1>5, <3>1
  <2> QED BY <2>1, <2>2, <2>3 DEF Pending, Starting
<1>11. Pending(i) /\ i <= made
  BY <1>1, <1>5 DEF Pending, Settled, Turns, Numbered
<1>12. CASE kind[i] = "read"
  <2>1. result' = [result EXCEPT ![i] = Content[sect[i]]] /\ UNCHANGED storeVars
    BY <1>12 DEF RunTask
  <2>2. Settles(i)
    BY <1>1, <1>12 DEF Settles
  <2>3. History'
    BY <1>12, <2>1, <2>2, HistoryRead DEF Settled
  <2>4. Ordered'
    BY <1>4, <1>5, <1>10, <2>1, OrderedSame DEF Settled, storeVars
  <2>5. Recorded'
    <3>1. \A j \in Call : /\ pc'[j] = "queued" => pc[j] = "queued"
                          /\ pc[j] \in {"queued", "done", "failed"} /\ kind[j] = "write"
                                 => pc'[j] \in {"queued", "done", "failed"}
      BY <1>6, <1>12
    <3> QED BY <1>4, <2>1, <3>1, RecordedSame DEF Settled, storeVars
  <2> QED BY <1>7, <1>8, <1>9, <2>3, <2>4, <2>5 DEF Settled
<1>13. CASE kind[i] = "write"
  <2>1. Stored(i) /\ UNCHANGED result
    BY <1>13 DEF RunTask
  <2>2. Settles(i)
    BY <1>1, <1>13 DEF Settles
  <2>3. History'
    BY <1>13, <2>1, <2>2, HistoryWrite DEF Settled
  <2>4. Ordered'
    BY <1>1, <1>4, <1>10, <1>11, <2>1, OrderedStored DEF Settled
  <2>5. Recorded'
    BY <1>4, <1>13, <2>1, <2>2, RecordedStored DEF Settled
  <2> QED BY <1>7, <1>8, <1>9, <2>3, <2>4, <2>5 DEF Settled
<1>14. CASE kind[i] \in {"flush", "close"}
  <2>1. Flushed /\ UNCHANGED result
    BY <1>14 DEF RunTask
  <2>2. Ordered'
    BY <1>4, <1>10, <2>1, OrderedFlushed DEF Settled
  <2>3. Recorded'
    <3>1. \A j \in Call : /\ pc'[j] = "queued" => pc[j] = "queued"
                          /\ pc[j] \in {"queued", "done", "failed"} /\ kind[j] = "write"
                                 => pc'[j] \in {"queued", "done", "failed"}
      BY <1>2, <1>6, <1>14
    <3> QED BY <1>4, <2>1, <3>1, RecordedSame DEF Settled, Flushed
  <2>4. History'
    <3>1. CASE kind[i] = "flush"
      <4>1. Settles(i)
        BY <1>1, <3>1 DEF Settles
      <4> QED BY <2>1, <3>1, <4>1, HistoryFlush DEF Settled
    <3>2. CASE kind[i] = "close"
      <4>1. \A j \in Call, l \in Kind \ {"close"} :
           Done(j, l)' =>
               Done(j, l) /\ epoch'[j] = epoch[j] /\ OpenedBy(j)' = OpenedBy(j)
        BY <1>2, <1>4, <1>6, <3>2 DEF Done, OpenedBy
      <4>2. \A b \in Store, s \in Sector : durable'[b][s] \in Nat /\ durable'[b][s] >= durable[b][s]
        BY <2>1, FlushedGrows DEF Settled
      <4> QED BY <1>4, <2>1, <4>1, <4>2, HistorySame DEF Settled, Flushed
    <3> QED BY <1>14, <3>1, <3>2
  <2> QED BY <1>7, <1>8, <1>9, <2>2, <2>3, <2>4 DEF Settled
<1> QED BY <1>5, <1>12, <1>13, <1>14 DEF Kind

-----------------------------------------------------------------------------
LEMMA SettledFails ==
    ASSUME TypeOK, Settled, NEW i \in Call, TaskFails(i)
    PROVE  Settled'
<1>1. /\ queue # <<>> /\ i = Head(queue) /\ pc[i] = "queued"
      /\ queue' = Tail(queue)
      /\ UNCHANGED <<callVars, actorVars, result, cache, durable, mem, blockChecksums, pageVars>>
      /\ pc' = [pc EXCEPT ![i] = "failed"]
  BY DEF TaskFails, storeVars
<1>2. UNCHANGED <<sect, reloads, opened, kind, epoch, made, mode>>
  BY <1>1 DEF callVars, pageVars, actorVars
<1>3. made \in Nat /\ pc \in [Call -> Progress]
  BY Numbers
<1>4. /\ \A j \in Call \ {i} : pc'[j] = pc[j]
      /\ pc'[i] = "failed"
  BY <1>1, <1>3
<1>5. Turns'
  BY <1>1, <1>2, TurnsRun DEF Settled
<1>6. OneBackend'
  BY <1>1, <1>2, BackendKept DEF Settled, Progress
<1>7. Ordered'
  <2>1. \A j \in Call : Pending(j)' => Pending(j) \/ j > made
    BY <1>4 DEF Pending
  <2> QED BY <1>1, <1>2, <1>3, <2>1, OrderedSame DEF Settled
<1>8. Closers'
  BY <1>2, <1>4 DEF Settled, Closers
<1>9. History'
  <2>1. \A j \in Call, l \in Kind \ {"close"} :
           Done(j, l)' =>
               Done(j, l) /\ epoch'[j] = epoch[j] /\ OpenedBy(j)' = OpenedBy(j)
    BY <1>2, <1>4 DEF Done, OpenedBy
  <2>2. \A b \in Store, s \in Sector : durable'[b][s] \in Nat /\ durable'[b][s] >= durable[b][s]
    BY <1>1, Contents
  <2> QED BY <1>1, <1>2, <2>1, <2>2, HistorySame DEF Settled
<1>10. Recorded'
  BY <1>1, <1>2, <1>4, RecordedSame DEF Settled
<1> QED BY <1>5, <1>6, <1>7, <1>8, <1>9, <1>10 DEF Settled

LEMMA SettledClosed ==
    ASSUME TypeOK, Settled, NEW i \in Call, CloseBackend(i)
    PROVE  Settled'
<1>1. /\ pc[i] = "closing" /\ pc' = [pc EXCEPT ![i] = "done"]
      /\ UNCHANGED <<callVars, result, queue, backendType, opened, blockChecksums, pageVars>>
      /\ \/ Flushed
         \/ mem' \in {mem, Fresh} /\ UNCHANGED <<cache, durable>>
  BY DEF CloseBackend
<1>2. UNCHANGED <<sect, reloads, opened, kind, epoch, made, mode>>
  BY <1>1 DEF callVars, pageVars
<1>3. made \in Nat /\ pc \in [Call -> Progress]
  BY Numbers
<1>4. /\ \A j \in Call \ {i} : pc'[j] = pc[j]
      /\ pc'[i] = "done" /\ kind[i] = "close"
  BY <1>1, <1>3 DEF Settled, Closers
<1>5. Turns'
  BY <1>1, <1>2, TurnsClosed DEF Settled
<1>6. OneBackend'
  BY BackendClosed DEF Settled
<1>7. \A j \in Call : Pending(j)' => Pending(j)
  BY <1>4 DEF Pending
<1>8. Closers'
  BY <1>2, <1>4 DEF Settled, Closers
<1>9. \A j \in Call, l \in Kind \ {"close"} :
           Done(j, l)' =>
               Done(j, l) /\ epoch'[j] = epoch[j] /\ OpenedBy(j)' = OpenedBy(j)
  BY <1>2, <1>4 DEF Done, OpenedBy
<1>10. /\ cache' = cache /\ Ordered'
       /\ \A b \in Store, s \in Sector :
              durable'[b][s] \in Nat /\ durable'[b][s] >= durable[b][s]
  <2>1. CASE Flushed
    BY <1>2, <1>7, <2>1, OrderedFlushed, FlushedGrows DEF Settled, Flushed
  <2>2. CASE mem' \in {mem, Fresh} /\ UNCHANGED <<cache, durable>>
    BY <1>2, <1>3, <1>7, <2>2, OrderedSame, Contents DEF Settled
  <2> QED BY <1>1, <2>1, <2>2
<1>11. History'
  BY <1>1, <1>2, <1>9, <1>10, HistorySame DEF Settled
<1>12. Recorded'
  BY <1>1, <1>2, <1>4, <1>10, RecordedSame DEF Settled
<1> QED BY <1>5, <1>6, <1>8, <1>10, <1>11, <1>12 DEF Settled

LEMMA SettledReload ==
    ASSUME TypeOK, Settled, Reload
    PROVE  Settled'
<1>1. Turns' /\ OneBackend' /\ Ordered' /\ History' /\ Recorded'
  BY TurnsReload, BackendReload, OrderedReload, HistoryReload, RecordedReload DEF Settled
<1>2. Closers'
  <2>1. pc' = [i \in Call |-> IF i <= made /\ pc[i] \notin {"done", "failed"}
                             THEN "lost" ELSE pc[i]]
    BY DEF Reload
  <2>2. \A j \in Call : pc'[j] # "closing"
    BY <2>1, Numbers DEF Settled, Turns, Numbered
  <2> QED BY <2>2 DEF Closers
<1> QED BY <1>1, <1>2 DEF Settled

(* Once calls have raced, nothing more is said.                             *)
IInv == TypeOK /\ (~raced => Settled)

LEMMA IInvInit == Init => IInv
<1>1. Init => Turns /\ OneBackend /\ Ordered /\ Closers /\ History /\ Recorded
  BY TurnsInit, BackendInit, OrderedInit, HistoryInit, RecordedInit
<1> QED BY <1>1, TypeInit DEF IInv, Settled

LEMMA IInvStep == IInv /\ [Next]_vars => IInv'
<1> SUFFICES ASSUME IInv, [Next]_vars, ~raced' PROVE Settled'
  BY TypeStep DEF IInv
<1>1. TypeOK
  BY DEF IInv
<1>2. ~raced
  BY <1>1 DEF Next, AnyCall, Internal, CallInitialized, CallUninitialized, NewCall, InitReturns,
              Continue, RunTask, TaskFails, CloseBackend, Reload, vars
<1>3. Settled
  BY <1>2 DEF IInv
<1>4. CASE AnyCall
  BY <1>1, <1>3, <1>4, SettledInitialized, SettledUninitialized DEF AnyCall
<1>5. CASE Internal
  BY <1>1, <1>3, <1>5, SettledReturns, SettledContinue, SettledRun, SettledFails, SettledClosed
     DEF Internal
<1>6. CASE Reload
  BY <1>1, <1>3, <1>6, SettledReload
<1>7. CASE UNCHANGED vars
  <2>1. /\ UNCHANGED <<made, kind, sect, mode, epoch, pc, result, queue, backend, backendType>>
        /\ UNCHANGED <<isInitialized, held, opened, cache, durable, mem, blockChecksums>>
        /\ UNCHANGED <<available, reloads>>
    BY <1>7 DEF vars, callVars, actorVars, storeVars, pageVars
  <2>2. Turns' /\ OneBackend'
    BY <1>3, <2>1 DEF Settled, Turns, Numbered, InLine, InTurn, Pending, Taken, Starting, Here,
                      OneBackend, Home
  <2>3. Ordered' /\ Closers'
    BY <1>3, <2>1 DEF Settled, Ordered, Pending, Closers
  <2>4. History'
    BY <1>3, <2>1 DEF Settled, History, Kept, Seen, Saved, Flushes, Reopens, Done, Here, OpenedBy
  <2>5. Recorded'
    BY <1>3, <2>1 DEF Settled, Recorded, Here
  <2> QED BY <2>2, <2>3, <2>4, <2>5 DEF Settled
<1> QED BY <1>4, <1>5, <1>6, <1>7 DEF Next

LEMMA IInvAlways == Spec => []IInv
BY IInvInit, IInvStep, PTL DEF Spec

(* Once a flush has returned, the writes before it are safe in the store    *)
(* that its page works on, and a later page that opens this store reads     *)
(* them, whatever the cascade does on other pages (disk_actor.js:323-337,   *)
(* 432), for any calls that do not race with init().                        *)
THEOREM FlushDurableCorrect == Spec => []FlushDurableUnraced
<1>1. IInv => FlushDurableUnraced
  BY DEF IInv, Settled, History, Saved, Flushes, Reopens, FlushDurableUnraced, FlushDurable
<1> QED BY <1>1, IInvAlways, PTL

(* A read returns the last write made before it and never a later one, on a *)
(* page that works on a store (disk_actor.js:361-365).                      *)
THEOREM ReadsLatestCorrect == Spec => []ReadsLatest
<1>1. IInv => ReadsLatest
  <2> SUFFICES ASSUME IInv, ~raced, NEW r \in Call, NEW w \in Call,
                      Done(r, "read"), Done(w, "write"), sect[w] = sect[r], epoch[w] = epoch[r]
               PROVE  IF w < r THEN OpenedBy(r) \in Store => result[r] >= w ELSE result[r] # w
    BY DEF ReadsLatest
  <2>1. /\ result[r] < r
        /\ w < r /\ OpenedBy(r) \in Store => result[r] >= w
    BY DEF IInv, Settled, History, Seen
  <2>2. w \in Nat /\ r \in Nat /\ result[r] \in Nat
    BY Numbers, Contents DEF IInv
  <2> QED BY <2>1, <2>2
<1> QED BY <1>1, IInvAlways, PTL

(* At rest every recorded checksum is that of the content, whatever failed, *)
(* closed or was reloaded (disk_actor.js:374-429).                          *)
THEOREM ChecksumsMatchCorrect == Spec => []ChecksumsMatch
<1>1. IInv => ChecksumsMatch
  <2> SUFFICES ASSUME IInv, Idle, ~raced, backend \in Store, NEW s \in Sector,
                      blockChecksums[s] # 0, pc[blockChecksums[s]] # "failed"
               PROVE  blockChecksums[s] = Content[s]
    BY DEF ChecksumsMatch
  <2> DEFINE w == blockChecksums[s]
  <2>1. /\ w \in Call /\ kind[w] = "write" /\ sect[w] = s /\ Here(w)
        /\ pc[w] \in {"queued", "done"}
        /\ cache[backend][s] <= w
    BY DEF IInv, Settled, Recorded
  <2>2. backend = Home /\ OpenedBy(w) = Home
    BY <2>1 DEF IInv, Settled, OneBackend, Store, OpenedBy, Here, Home
  <2>3. w \in 1..made
    BY <2>1, Numbers, CallsAreNumbers DEF IInv, Settled, Turns, Numbered
  <2>4. pc[w] = "done"
    BY <2>1, <2>3 DEF Idle
  <2>5. cache[Home][s] >= w
    BY <2>1, <2>2, <2>3, <2>4 DEF IInv, Settled, History, Kept, Done
  <2>6. w \in Nat /\ cache[Home][s] \in Nat
    BY <2>1, <2>2, Numbers, Contents DEF IInv
  <2>7. Content[s] = cache[Home][s]
    BY <2>2 DEF Content, Store
  <2> HIDE DEF w
  <2>8. w = Content[s]
    BY <2>1, <2>2, <2>5, <2>6, <2>7
  <2> QED BY <2>8 DEF w
<1> QED BY <1>1, IInvAlways, PTL

(* No step takes a sector back to an earlier write, in any backend          *)
(* (disk_actor.js:357).                                                     *)
THEOREM OrderedWritesCorrect == Spec => OrderedWrites
<1>1. ASSUME IInv, [Next]_vars, ~raced, reloads' = reloads, backend' = backend, backend # "null",
             NEW s \in Sector
      PROVE  Content'[s] >= Content[s]
  <2>1. TypeOK /\ Settled
    BY <1>1 DEF IInv
  <2>2. Content[s] \in Nat
    BY <1>1, <2>1, Contents DEF Content, TypeOK
  <2>3. CASE UNCHANGED <<mem, cache>>
    BY <1>1, <2>2, <2>3 DEF Content
  <2>4. ASSUME NEW i \in Call, RunTask(i), Stored(i)
        PROVE  Content'[s] >= Content[s]
    <3>1. Pending(i) /\ sect[i] \in Sector /\ i \in Nat
      BY <2>1, <2>4, Contents, Numbers DEF RunTask, Pending
    <3>2. Content[s] < i
      BY <1>1, <2>1, <3>1 DEF Content, TypeOK, Settled, Ordered
    <3>3. Content'[s] \in {Content[s], i}
      <4>1. CASE backend = "memory"
        BY <1>1, <2>1, <2>4, <3>1, <4>1 DEF Content, Stored, TypeOK
      <4>2. CASE backend # "memory"
        BY <1>1, <2>1, <2>4, <3>1, <4>2 DEF Content, Stored, TypeOK
      <4> QED BY <4>1, <4>2
    <3> QED BY <2>2, <3>1, <3>2, <3>3
  <2>5. ASSUME NEW i \in Call, NEW k \in Kind, CallUninitialized(i, k)
        PROVE  FALSE
    BY <1>1, <2>1, <2>5 DEF CallUninitialized, Settled, OneBackend
  <2>6. ASSUME NEW i \in Call, InitReturns(i)
        PROVE  FALSE
    BY <1>1, <2>1, <2>6, Initialized DEF Settled
  <2>7. ASSUME NEW i \in Call, CloseBackend(i)
        PROVE  FALSE
    BY <1>1, <2>7 DEF CloseBackend
  <2>8. ASSUME Reload
        PROVE  FALSE
    BY <1>1, <2>1, <2>8, Numbers DEF Reload
  <2>9. ASSUME NEW i \in Call, RunTask(i), ~Stored(i)
        PROVE  UNCHANGED <<mem, cache>>
    BY <2>9 DEF RunTask, storeVars, Flushed
  <2>10. \/ UNCHANGED <<mem, cache>>
         \/ \E i \in Call : \/ RunTask(i) \/ InitReturns(i) \/ CloseBackend(i)
                            \/ \E k \in Kind : CallUninitialized(i, k)
         \/ Reload
    BY <1>1 DEF Next, AnyCall, Internal, CallInitialized, Continue, TaskFails, storeVars, vars
  <2> QED BY <2>3, <2>4, <2>5, <2>6, <2>7, <2>8, <2>9, <2>10
<1>2. IInv /\ [Next]_vars =>
        [~raced /\ reloads' = reloads /\ backend' = backend /\ backend # "null" =>
             \A s \in Sector : Content'[s] >= Content[s]]_vars
  BY <1>1
<1> QED BY <1>2, IInvAlways, PTL DEF Spec, OrderedWrites

-----------------------------------------------------------------------------
(* THE BLOCK DEVICE.                                                        *)

(* The initial state of the block device is well typed.                     *)
LEMMA BlkTypeInit == BlkInit => BlkTypeOK
<1> SUFFICES ASSUME BlkInit PROVE BlkTypeOK
  OBVIOUS
<1>1. avail \in Seq(Chain) /\ used \in Seq(Chain)
  BY DEF BlkInit
<1>2. current \in SUBSET [head : Chain, request : Request]
  BY DEF BlkInit
<1>3. /\ request \in [Chain -> Request \cup {"nothing"}]
      /\ status \in [Chain -> {"none", "OK", "IOERR", "UNSUPP"}]
      /\ diskDid \in [Chain -> {"nothing", "resolved", "rejected"}]
  BY DEF BlkInit
<1> QED BY <1>1, <1>2, <1>3 DEF BlkInit, BlkTypeOK

(* The request a loop works on.                                             *)
LEMMA OneRequest ==
    ASSUME BlkTypeOK, NEW c \in current
    PROVE  /\ c.head \in Chain /\ c.request \in Request
           /\ current = {c} /\ Heads = {c.head}
<1>1. c \in [head : Chain, request : Request]
  BY DEF BlkTypeOK
<1>2. current = {c}
  BY DEF BlkTypeOK
<1> QED BY <1>1, <1>2 DEF Heads

(* What ending a request does, whichever action ends it: the handler throws *)
(* and the chain is lost, or the chain is completed.                        *)
LEMMA Completes ==
    ASSUME BlkTypeOK, CompleteNow \/ DiskResolves \/ DiskRejects
    PROVE  \E c \in current, s \in {"none", "OK", "IOERR", "UNSUPP"} :
              /\ UNCHANGED <<free, request, avail, kicked, enabled>>
              /\ \/ LoseChain(c.head)
                 \/ CompleteChain(c.head, s)
              /\ \/ diskDid' = diskDid /\ ~AsksDisk(c.request)
                 \/ /\ diskDid' = [diskDid EXCEPT ![c.head] = "resolved"] /\ s = "OK"
                    /\ AsksDisk(c.request)
                 \/ /\ diskDid' = [diskDid EXCEPT ![c.head] = "rejected"] /\ s = "IOERR"
                    /\ AsksDisk(c.request)
<1>1. CASE CompleteNow
  <2>1. \A r : ImmediateStatus(r) \in {"none", "OK", "IOERR", "UNSUPP"}
    BY DEF ImmediateStatus
  <2> QED BY <1>1, <2>1 DEF CompleteNow, driverVars
<1>2. CASE DiskResolves
  BY <1>2 DEF DiskResolves, Answer, driverVars
<1>3. CASE DiskRejects
  BY <1>3 DEF DiskRejects, Answer, driverVars
<1> QED BY <1>1, <1>2, <1>3

-----------------------------------------------------------------------------
(* No entry twice.                                                          *)
Distinct(s) == \A m, n \in 1..Len(s) : m # n => s[m] # s[n]

(* A ring and the chains it holds.                                          *)
LEMMA Ring ==
    ASSUME NEW s \in Seq(Chain)
    PROVE  /\ Len(s) \in Nat /\ DOMAIN s = 1..Len(s) /\ Elements(s) \subseteq Chain
           /\ \A n \in 1..Len(s) : s[n] \in Elements(s)
           /\ \A c \in Elements(s) : \E n \in 1..Len(s) : s[n] = c
<1>1. Len(s) \in Nat /\ DOMAIN s = 1..Len(s) /\ \A n \in 1..Len(s) : s[n] \in Chain
  BY LenProperties, ElementOfSeq
<1> QED BY <1>1 DEF Elements

(* The empty ring.                                                          *)
LEMMA EmptyRing == Elements(<<>>) = {} /\ Distinct(<<>>)
<1>1. DOMAIN <<>> = {} /\ Len(<<>>) = 0
  OBVIOUS
<1> QED BY <1>1 DEF Elements, Distinct

(* A ring one entry longer.                                                 *)
LEMMA Pushed ==
    ASSUME NEW s \in Seq(Chain), NEW c \in Chain
    PROVE  /\ Append(s, c) \in Seq(Chain)
           /\ Elements(Append(s, c)) = Elements(s) \cup {c}
           /\ Distinct(s) /\ c \notin Elements(s) => Distinct(Append(s, c))
<1> DEFINE t == Append(s, c)
<1>1. /\ t \in Seq(Chain) /\ Len(t) = Len(s) + 1 /\ t[Len(s) + 1] = c
      /\ \A n \in 1..Len(s) : t[n] = s[n]
  BY AppendProperties
<1>2. Len(s) \in Nat /\ Len(t) \in Nat
  BY <1>1, Ring
<1> HIDE DEF t
<1>3. \A n \in 1..Len(t) : n \in 1..Len(s) \/ n = Len(s) + 1
  BY <1>1, <1>2
<1>4. ASSUME NEW d \in Elements(t) PROVE d \in Elements(s) \cup {c}
  <2>1. PICK n \in 1..Len(t) : t[n] = d
    BY <1>1, Ring
  <2> QED BY <1>1, <1>3, <2>1, Ring
<1>5. ASSUME NEW d \in Elements(s) \cup {c} PROVE d \in Elements(t)
  <2>1. CASE d \in Elements(s)
    <3>1. PICK n \in 1..Len(s) : s[n] = d
      BY <2>1, Ring
    <3>2. n \in 1..Len(t) /\ t[n] = d
      BY <1>1, <1>2, <3>1
    <3> QED BY <1>1, <3>2, Ring
  <2>2. CASE d = c
    <3>1. Len(s) + 1 \in 1..Len(t)
      BY <1>1, <1>2
    <3> QED BY <1>1, <2>2, <3>1, Ring
  <2> QED BY <2>1, <2>2
<1>6. ASSUME Distinct(s), c \notin Elements(s) PROVE Distinct(t)
  <2>1. \A n \in 1..Len(s) : t[n] = s[n] /\ s[n] # c
    BY <1>1, <1>6, Ring
  <2> QED BY <1>1, <1>3, <1>6, <2>1 DEF Distinct
<1> QED BY <1>1, <1>4, <1>5, <1>6 DEF t

(* A ring without its first entry.                                          *)
LEMMA Popped ==
    ASSUME NEW s \in Seq(Chain), s # <<>>
    PROVE  /\ Head(s) \in Chain /\ Head(s) \in Elements(s) /\ Tail(s) \in Seq(Chain)
           /\ Elements(Tail(s)) \subseteq Elements(s)
           /\ Distinct(s) => Distinct(Tail(s)) /\ Head(s) \notin Elements(Tail(s))
<1> DEFINE t == Tail(s)
<1>1. /\ Len(s) \in Nat /\ Len(s) >= 1
      /\ Head(s) = s[1] /\ t \in Seq(Chain) /\ Len(t) = Len(s) - 1
      /\ \A n \in 1..Len(t) : t[n] = s[n + 1]
  BY HeadTailProperties, LenProperties, EmptySeq
<1> HIDE DEF t
<1>2. \A n \in 1..Len(t) : n \in Nat /\ n + 1 \in 1..Len(s)
  BY <1>1
<1>3. Head(s) \in Elements(s) /\ Head(s) \in Chain
  BY <1>1, Ring
<1>4. ASSUME NEW d \in Elements(t)
      PROVE  d \in Elements(s) /\ (Distinct(s) => d # Head(s))
  <2>1. PICK n \in 1..Len(t) : t[n] = d
    BY <1>1, Ring
  <2>2. n + 1 \in 1..Len(s) /\ n + 1 # 1 /\ s[n + 1] = d /\ 1 \in 1..Len(s)
    BY <1>1, <1>2, <2>1
  <2> QED BY <1>1, <2>2, Ring DEF Distinct
<1>5. ASSUME Distinct(s) PROVE Distinct(t)
  <2> SUFFICES ASSUME NEW m \in 1..Len(t), NEW n \in 1..Len(t), m # n PROVE t[m] # t[n]
    BY DEF Distinct
  <2>1. m + 1 # n + 1
    BY <1>2
  <2> QED BY <1>1, <1>2, <1>5, <2>1 DEF Distinct
<1> QED BY <1>1, <1>3, <1>4, <1>5 DEF t

-----------------------------------------------------------------------------
(* What is offered asks for something.                                      *)
Asked == \A c \in Elements(avail) : request[c] \in Request

(* Every step keeps the types.                                              *)
LEMMA BlkTypeStep == BlkTypeOK /\ Asked /\ [BlkNext]_blkVars => (BlkTypeOK /\ Asked)'
<1> SUFFICES ASSUME BlkTypeOK, Asked, [BlkNext]_blkVars PROVE BlkTypeOK' /\ Asked'
  OBVIOUS
<1>1. CASE Notify
  BY <1>1 DEF Notify, BlkTypeOK, Asked
<1>2. CASE Pop
  <2> DEFINE r == [head |-> Head(avail), request |-> request[Head(avail)]]
  <2>1. avail # <<>> /\ current' = {r} /\ avail' = Tail(avail) /\ avail \in Seq(Chain)
    BY <1>2 DEF Pop, HasAvailable, BlkTypeOK
  <2>2. /\ Head(avail) \in Chain /\ Head(avail) \in Elements(avail)
        /\ avail' \in Seq(Chain) /\ Elements(avail') \subseteq Elements(avail)
    BY <2>1, Popped
  <2>3. r \in [head : Chain, request : Request]
    BY <2>2 DEF Asked
  <2> HIDE DEF r
  <2>4. /\ current' \in SUBSET [head : Chain, request : Request]
        /\ \E c \in current' : current' = {c}
    BY <2>1, <2>3
  <2> QED BY <1>2, <2>2, <2>4 DEF Pop, BlkTypeOK, Asked
<1>3. CASE PopThrows \/ LoopEnds
  BY <1>3 DEF PopThrows, LoopEnds, driverVars, BlkTypeOK, Asked
<1>4. CASE CompleteNow \/ DiskResolves \/ DiskRejects
  <2>1. PICK c \in current, s \in {"none", "OK", "IOERR", "UNSUPP"} :
            /\ UNCHANGED <<free, request, avail, kicked, enabled>>
            /\ \/ LoseChain(c.head)
               \/ CompleteChain(c.head, s)
            /\ \/ diskDid' = diskDid
               \/ diskDid' = [diskDid EXCEPT ![c.head] = "resolved"]
               \/ diskDid' = [diskDid EXCEPT ![c.head] = "rejected"]
    BY <1>4, Completes
  <2>2. c.head \in Chain
    BY OneRequest
  <2>3. used' \in Seq(Chain)
    <3>1. used \in Seq(Chain) /\ Append(used, c.head) \in Seq(Chain)
      BY <2>2, Pushed DEF BlkTypeOK
    <3> QED BY <2>1, <3>1 DEF CompleteChain, LoseChain
  <2>4. status' \in [Chain -> {"none", "OK", "IOERR", "UNSUPP"}]
    BY <2>1 DEF CompleteChain, LoseChain, BlkTypeOK
  <2>5. diskDid' \in [Chain -> {"nothing", "resolved", "rejected"}]
    BY <2>1 DEF BlkTypeOK
  <2>6. /\ cut' \in BOOLEAN /\ current' = {}
        /\ isProcessing' \in BOOLEAN /\ lost' \subseteq Chain
    BY <2>1, <2>2 DEF CompleteChain, LoseChain, HasAvailable, BlkTypeOK
  <2> QED BY <2>1, <2>3, <2>4, <2>5, <2>6 DEF BlkTypeOK, Asked
<1>5. CASE Reset
  <2>1. avail' \in Seq(Chain) /\ used' \in Seq(Chain) /\ Elements(avail') = {}
    BY <1>5, EmptyRing DEF Reset
  <2> QED BY <1>5, <2>1 DEF Reset, BlkTypeOK, Asked
<1>6. CASE Setup
  BY <1>6 DEF Setup, driverVars, BlkTypeOK, Asked
<1>7. CASE Reap
  <2>1. Head(used) \in Chain /\ used' \in Seq(Chain)
    BY <1>7, Popped DEF Reap, BlkTypeOK
  <2> QED BY <1>7, <2>1 DEF Reap, BlkTypeOK, Asked
<1>8. ASSUME NEW c \in Chain, NEW r \in Request, Offer(c, r) PROVE BlkTypeOK' /\ Asked'
  <2>1. avail' \in Seq(Chain) /\ Elements(avail') = Elements(avail) \cup {c}
    BY <1>8, Pushed DEF Offer, BlkTypeOK
  <2>2. /\ request' \in [Chain -> Request \cup {"nothing"}]
        /\ status' \in [Chain -> {"none", "OK", "IOERR", "UNSUPP"}]
        /\ diskDid' \in [Chain -> {"nothing", "resolved", "rejected"}]
    BY <1>8 DEF Offer, BlkTypeOK
  <2>3. Asked'
    BY <1>8, <2>1 DEF Offer, BlkTypeOK, Asked
  <2> QED BY <1>8, <2>1, <2>2, <2>3 DEF Offer, BlkTypeOK
<1>9. CASE UNCHANGED blkVars
  BY <1>9 DEF blkVars, driverVars, BlkTypeOK, Asked
<1> QED BY <1>1, <1>2, <1>3, <1>4, <1>5, <1>6, <1>7, <1>8, <1>9 DEF BlkNext, Loop, Disk, Driver

(* A queue that is not enabled has nothing, and what the loop still works   *)
(* on is cut off.                                                           *)
BlkIdle ==
    ~enabled =>
        free = Chain /\ avail = <<>> /\ used = <<>> /\ lost = {} /\ (current # {} => cut)

(* Every chain is in one place, and the loop works on what the chain asks.  *)
OnePlace ==
    /\ Distinct(avail) /\ Distinct(used)
    /\ Elements(avail) \cap Elements(used) = {}
    /\ free \cap (Elements(avail) \cup Elements(used)) = {}
    /\ Held \cap (free \cup Elements(avail) \cup Elements(used)) = {}
    /\ Heads \cap lost = {}
    /\ \A c \in current : c.request = request[c.head]

(* The inductive invariant of the block device.  After a reset has cut a    *)
(* request off, its late completion may put a chain into the used ring that *)
(* the driver has offered again: only then is a chain not in one place.     *)
BlkIInv == BlkTypeOK /\ Asked /\ BlkIdle /\ (~cut => OnePlace) /\ HonestStatus

(* The initial state satisfies it.                                          *)
LEMMA BlkIInvInit == BlkInit => BlkIInv
<1> SUFFICES ASSUME BlkInit PROVE BlkIInv
  OBVIOUS
<1>1. Elements(avail) = {} /\ Elements(used) = {} /\ Distinct(avail) /\ Distinct(used)
  BY EmptyRing DEF BlkInit
<1>2. /\ current = {} /\ lost = {} /\ Heads = {} /\ Held = {}
      /\ free = Chain /\ avail = <<>> /\ used = <<>>
  BY DEF BlkInit, Heads, Held
<1> QED BY <1>1, <1>2, BlkTypeInit DEF BlkIInv, Asked, BlkIdle, OnePlace, HonestStatus

(* What a step leaves to show.                                              *)
BlkKept == BlkIdle' /\ (~cut' => OnePlace') /\ HonestStatus'

(* A turn of the loop that takes a chain consumes it.                       *)
LEMMA BlkPop ==
    ASSUME BlkIInv, Pop
    PROVE  BlkKept /\ Promise
<1> DEFINE h == Head(avail)
<1>1. /\ avail # <<>> /\ avail \in Seq(Chain) /\ enabled /\ current = {}
      /\ current' = {[head |-> h, request |-> request[h]]} /\ avail' = Tail(avail)
      /\ UNCHANGED <<free, request, status, used, enabled, diskDid, cut, lost>>
  BY DEF Pop, HasAvailable, BlkIInv, BlkTypeOK
<1>2. /\ h \in Elements(avail) /\ Elements(avail') \subseteq Elements(avail)
      /\ Distinct(avail) => Distinct(avail)' /\ h \notin Elements(avail')
  BY <1>1, Popped
<1>3. Heads = {} /\ Heads' = {h} /\ Held = lost /\ Held' = Held \cup {h}
  BY <1>1 DEF Heads, Held
<1>4. BlkIdle'
  BY <1>1 DEF BlkIdle
<1>5. HonestStatus'
  BY <1>1 DEF BlkIInv, HonestStatus
<1>6. ~cut' => OnePlace'
  <2> SUFFICES ASSUME ~cut PROVE OnePlace'
    BY <1>1
  <2>1. OnePlace
    BY DEF BlkIInv
  <2>2. Distinct(used)' /\ \A c \in current' : c.request = request'[c.head]
    BY <1>1, <2>1 DEF OnePlace, Distinct
  <2> QED BY <1>1, <1>2, <1>3, <2>1, <2>2 DEF OnePlace
<1>7. Promise
  BY <1>1, <1>3 DEF Promise, Contract!Next, Contract!Consume
<1> QED BY <1>4, <1>5, <1>6, <1>7 DEF BlkKept

(* Completing a request gives its chain back with the truth about the disk, *)
(* or drops it when the queue is gone.                                      *)
LEMMA BlkGivesBack ==
    ASSUME BlkIInv, NEW c \in current, NEW s \in {"none", "OK", "IOERR", "UNSUPP"},
           CompleteChain(c.head, s), UNCHANGED <<free, request, avail, kicked, enabled>>,
           \/ diskDid' = diskDid /\ ~AsksDisk(c.request)
           \/ /\ diskDid' = [diskDid EXCEPT ![c.head] = "resolved"] /\ s = "OK"
              /\ AsksDisk(c.request)
           \/ /\ diskDid' = [diskDid EXCEPT ![c.head] = "rejected"] /\ s = "IOERR"
              /\ AsksDisk(c.request)
    PROVE  BlkKept /\ Promise
<1>1. BlkTypeOK
  BY DEF BlkIInv
<1>2. c.head \in Chain /\ c.request \in Request /\ Heads = {c.head}
  BY <1>1, OneRequest
<1>3. /\ current' = {} /\ Heads' = {} /\ cut' = (cut /\ enabled)
      /\ lost' = lost /\ Held' = lost /\ Held = lost \cup {c.head}
      /\ used' = IF enabled THEN Append(used, c.head) ELSE used
      /\ \A d \in Chain \ {c.head} : status'[d] = status[d] /\ diskDid'[d] = diskDid[d]
      /\ s # "none" => status'[c.head] = s
  BY <1>1, <1>2 DEF CompleteChain, Heads, Held, BlkTypeOK
<1>4. used \in Seq(Chain) /\ Elements(used) \subseteq Chain
  BY <1>1, Ring DEF BlkTypeOK
<1>5. CASE ~enabled
  <2>1. cut /\ lost = {} /\ free = Chain /\ avail = <<>> /\ used = <<>>
    BY <1>5 DEF BlkIInv, BlkIdle
  <2>2. free' = Chain /\ avail' = <<>> /\ used' = <<>>
    BY <1>3, <1>5, <2>1
  <2>3. /\ Elements(avail') = {} /\ Elements(used') = {}
        /\ Distinct(avail)' /\ Distinct(used)'
    BY <2>2, EmptyRing DEF Distinct
  <2>4. BlkIdle' /\ OnePlace' /\ HonestStatus'
    BY <1>3, <2>1, <2>2, <2>3 DEF BlkIdle, OnePlace, HonestStatus
  <2>5. Promise
    BY <1>3, <2>1, <2>2 DEF Promise, Contract!Init
  <2> QED BY <2>4, <2>5 DEF BlkKept
<1>6. CASE enabled /\ cut
  BY <1>3, <1>6 DEF BlkKept, BlkIdle, HonestStatus, Promise
<1>7. CASE enabled /\ ~cut
  <2>1. OnePlace /\ HonestStatus /\ ~cut' /\ used' = Append(used, c.head)
    BY <1>3, <1>7 DEF BlkIInv
  <2>2. c.head \notin Elements(used)
    BY <1>3, <2>1 DEF OnePlace
  <2>3. Elements(used') = Elements(used) \cup {c.head} /\ Distinct(used)'
    BY <1>2, <1>4, <2>1, <2>2, Pushed DEF OnePlace
  <2>4. Distinct(avail)'
    BY <2>1 DEF OnePlace, Distinct
  <2>5. OnePlace'
    BY <1>2, <1>3, <2>1, <2>3, <2>4 DEF OnePlace
  <2>6. BlkIdle'
    BY <1>7 DEF BlkIdle
  <2>7. HonestStatus'
    <3>1. ASSUME NEW d \in Elements(used), AsksDisk(request'[d])
          PROVE  diskDid'[d] # "nothing" /\ (status'[d] = "OK" <=> diskDid'[d] = "resolved")
      <4>1. d \in Chain \ {c.head}
        BY <1>4, <2>2
      <4> QED BY <1>3, <1>7, <2>1, <3>1, <4>1 DEF HonestStatus
    <3>2. ASSUME AsksDisk(request'[c.head])
          PROVE  /\ diskDid'[c.head] # "nothing"
                 /\ status'[c.head] = "OK" <=> diskDid'[c.head] = "resolved"
      <4>1. AsksDisk(c.request)
        BY <2>1, <3>2 DEF OnePlace
      <4>2. \/ diskDid'[c.head] = "resolved" /\ s = "OK"
            \/ diskDid'[c.head] = "rejected" /\ s = "IOERR"
        BY <1>1, <1>2, <4>1 DEF BlkTypeOK
      <4> QED BY <1>3, <4>2
    <3> QED BY <2>3, <3>1, <3>2 DEF HonestStatus
  <2>8. Promise
    <3>1. Contract!Complete(c.head)
      <4>1. c.head \notin lost
        BY <1>2, <2>1 DEF OnePlace
      <4> QED BY <1>2, <1>3, <2>1, <4>1 DEF Contract!Complete
    <3> QED BY <1>2, <1>7, <3>1 DEF Promise, Contract!Next
  <2> QED BY <2>5, <2>6, <2>7, <2>8 DEF BlkKept
<1> QED BY <1>1, <1>5, <1>6, <1>7

(* A chain whose handler throws stays with the device: nothing the driver   *)
(* sees changes, unless the queue is gone.                                  *)
LEMMA BlkLoses ==
    ASSUME BlkIInv, NEW c \in current, LoseChain(c.head),
           UNCHANGED <<free, request, avail, kicked, enabled>>,
           \A d \in Chain \ {c.head} : diskDid'[d] = diskDid[d]
    PROVE  BlkKept /\ (Promise \/ UNCHANGED <<free, avail, Held, used, cut>>)
<1>0. BlkTypeOK
  BY DEF BlkIInv
<1>1. c.head \in Chain /\ Heads = {c.head}
  BY <1>0, OneRequest
<1>2. /\ current' = {} /\ Heads' = {} /\ cut' = (cut /\ enabled)
      /\ used' = used /\ status' = status
      /\ lost' = IF cut THEN lost ELSE lost \cup {c.head}
  BY DEF LoseChain, Heads
<1>3. used \in Seq(Chain) /\ Elements(used) \subseteq Chain
  BY <1>0, Ring DEF BlkTypeOK
<1>4. CASE ~enabled
  <2>1. /\ cut /\ ~cut' /\ lost' = {}
        /\ free' = Chain /\ avail' = <<>> /\ used' = <<>>
    BY <1>2, <1>4 DEF BlkIInv, BlkIdle
  <2>2. Held' = {}
    BY <1>2, <2>1 DEF Held
  <2>3. /\ Elements(avail') = {} /\ Elements(used') = {}
        /\ Distinct(avail)' /\ Distinct(used)'
    BY <2>1, EmptyRing DEF Distinct
  <2>4. BlkIdle' /\ OnePlace' /\ HonestStatus'
    BY <1>2, <2>1, <2>2, <2>3 DEF BlkIdle, OnePlace, HonestStatus
  <2>5. Promise
    BY <2>1, <2>2 DEF Promise, Contract!Init
  <2> QED BY <2>4, <2>5 DEF BlkKept
<1>5. CASE enabled /\ cut
  BY <1>2, <1>5 DEF BlkKept, BlkIdle, HonestStatus, Promise
<1>6. CASE enabled /\ ~cut
  <2>1. OnePlace /\ HonestStatus /\ ~cut' /\ ~cut
    BY <1>2, <1>6 DEF BlkIInv
  <2>2. Held' = Held
    BY <1>1, <1>2, <1>6 DEF Held
  <2>3. Distinct(avail)' /\ Distinct(used)'
    BY <1>2, <2>1 DEF OnePlace, Distinct
  <2>4. OnePlace'
    BY <1>2, <2>1, <2>2, <2>3 DEF OnePlace
  <2>5. BlkIdle'
    BY <1>6 DEF BlkIdle
  <2>6. \A d \in Elements(used) : d \in Chain \ {c.head}
    BY <1>1, <1>3, <2>1 DEF OnePlace, Held
  <2>7. HonestStatus'
    BY <1>2, <2>1, <2>6 DEF HonestStatus
  <2>8. cut' = cut
    <3>1. cut = FALSE /\ cut' = FALSE
      BY <1>0, <1>2, <2>1 DEF BlkTypeOK
    <3> QED BY <3>1
  <2>9. UNCHANGED <<free, avail, Held, used, cut>>
    BY <1>2, <2>2, <2>8
  <2> QED BY <2>1, <2>4, <2>5, <2>7, <2>9 DEF BlkKept
<1> QED BY <1>0, <1>4, <1>5, <1>6

(* Ending a request, one way or the other.                                  *)
LEMMA BlkCompletes ==
    ASSUME BlkIInv, CompleteNow \/ DiskResolves \/ DiskRejects
    PROVE  BlkKept /\ (Promise \/ UNCHANGED <<free, avail, Held, used, cut>>)
<1>0. BlkTypeOK
  BY DEF BlkIInv
<1>1. PICK c \in current, s \in {"none", "OK", "IOERR", "UNSUPP"} :
          /\ UNCHANGED <<free, request, avail, kicked, enabled>>
          /\ \/ LoseChain(c.head)
             \/ CompleteChain(c.head, s)
          /\ \/ diskDid' = diskDid /\ ~AsksDisk(c.request)
             \/ /\ diskDid' = [diskDid EXCEPT ![c.head] = "resolved"] /\ s = "OK"
                /\ AsksDisk(c.request)
             \/ /\ diskDid' = [diskDid EXCEPT ![c.head] = "rejected"] /\ s = "IOERR"
                /\ AsksDisk(c.request)
  BY <1>0, Completes
<1>2. CASE LoseChain(c.head)
  <2>1. \A d \in Chain \ {c.head} : diskDid'[d] = diskDid[d]
    BY <1>0, <1>1 DEF BlkTypeOK
  <2> QED BY <1>1, <1>2, <2>1, BlkLoses
<1>3. CASE CompleteChain(c.head, s)
  BY <1>1, <1>3, BlkGivesBack
<1> QED BY <1>1, <1>2, <1>3

(* A reset of an idle device is the contract's reset, or starts it anew.    *)
LEMMA BlkReset ==
    ASSUME BlkIInv, Reset
    PROVE  BlkKept /\ Promise
<1>1. /\ cut' = (current # {}) /\ current' = current /\ ~enabled' /\ lost' = {}
      /\ free' = Chain /\ avail' = <<>> /\ used' = <<>>
  BY DEF Reset
<1>2. /\ Elements(avail') = {} /\ Elements(used') = {}
      /\ Distinct(avail)' /\ Distinct(used)'
  BY <1>1, EmptyRing DEF Distinct
<1>3. current = {} => Heads = {} /\ Heads' = {} /\ Held = lost /\ Held' = {}
  BY <1>1 DEF Heads, Held
<1>4. BlkKept
  BY <1>1, <1>2, <1>3 DEF BlkKept, BlkIdle, OnePlace, HonestStatus
<1>5. Promise
  <2>1. CASE current # {}
    BY <1>1, <2>1 DEF Promise
  <2>2. CASE current = {} /\ (cut \/ lost # {})
    BY <1>1, <1>3, <2>2 DEF Promise, Contract!Init
  <2>3. CASE current = {} /\ ~cut /\ lost = {}
    BY <1>1, <1>3, <2>3 DEF Promise, Contract!Next, Contract!Reset
  <2> QED BY <2>1, <2>2, <2>3
<1> QED BY <1>4, <1>5

(* An offered chain leaves the driver's hands for the ring.                 *)
LEMMA BlkOffer ==
    ASSUME BlkIInv, NEW c \in Chain, NEW r \in Request, Offer(c, r)
    PROVE  BlkKept /\ Promise
<1>0. BlkTypeOK
  BY DEF BlkIInv
<1>1. /\ enabled /\ c \in free /\ free' = free \ {c} /\ avail' = Append(avail, c)
      /\ UNCHANGED <<used, enabled, current, cut, lost>>
      /\ \A d \in Chain \ {c} : /\ request'[d] = request[d] /\ status'[d] = status[d]
                                /\ diskDid'[d] = diskDid[d]
  BY <1>0 DEF Offer, BlkTypeOK
<1>2. avail \in Seq(Chain) /\ Elements(used) \subseteq Chain
  BY <1>0, Ring DEF BlkTypeOK
<1>3. Heads' = Heads /\ Held' = Held /\ Heads \subseteq Held
  BY <1>1 DEF Heads, Held
<1>4. BlkIdle'
  BY <1>1 DEF BlkIdle
<1>5. ASSUME ~cut PROVE OnePlace' /\ HonestStatus' /\ Promise
  <2>1. OnePlace /\ c \notin Elements(avail) /\ c \notin Elements(used) /\ c \notin Held
    BY <1>1, <1>5 DEF BlkIInv, OnePlace
  <2>2. Elements(avail') = Elements(avail) \cup {c} /\ Distinct(avail)'
    BY <1>1, <1>2, <2>1, Pushed DEF OnePlace
  <2>3. \A d \in current' : d.request = request'[d.head]
    <3> SUFFICES ASSUME NEW d \in current PROVE d.request = request'[d.head]
      BY <1>1
    <3>1. d.head \in Chain /\ d.head \in Heads
      BY <1>0, OneRequest
    <3> QED BY <1>1, <1>3, <2>1, <3>1 DEF OnePlace
  <2>4. OnePlace'
    <3>1. Distinct(used)'
      BY <1>1, <2>1 DEF OnePlace, Distinct
    <3> QED BY <1>1, <1>3, <2>1, <2>2, <2>3, <3>1 DEF OnePlace
  <2>5. HonestStatus'
    <3>1. \A d \in Elements(used) : d \in Chain \ {c}
      BY <1>2, <2>1
    <3> QED BY <1>1, <3>1 DEF BlkIInv, HonestStatus
  <2>6. Promise
    BY <1>1, <1>3, <1>5 DEF Promise, Contract!Next, Contract!Offer
  <2> QED BY <2>4, <2>5, <2>6
<1>6. CASE cut
  BY <1>1, <1>4, <1>6 DEF BlkKept, HonestStatus, Promise
<1> QED BY <1>1, <1>4, <1>5, <1>6 DEF BlkKept

(* A reaped chain is the driver's again.                                    *)
LEMMA BlkReap ==
    ASSUME BlkIInv, Reap
    PROVE  BlkKept /\ Promise
<1> DEFINE h == Head(used)
<1>1. /\ enabled /\ used # <<>> /\ used \in Seq(Chain)
      /\ free' = free \cup {h} /\ used' = Tail(used)
      /\ UNCHANGED <<request, avail, status, enabled, current, diskDid, cut, lost>>
  BY DEF Reap, BlkIInv, BlkTypeOK
<1>2. /\ h \in Elements(used) /\ Elements(used') \subseteq Elements(used)
      /\ Distinct(used) => Distinct(used)' /\ h \notin Elements(used')
  BY <1>1, Popped
<1>3. Heads' = Heads /\ Held' = Held /\ Heads \subseteq Held
  BY <1>1 DEF Heads, Held
<1>4. BlkIdle'
  BY <1>1 DEF BlkIdle
<1>5. HonestStatus'
  BY <1>1, <1>2 DEF BlkIInv, HonestStatus
<1>6. ASSUME ~cut PROVE OnePlace' /\ Promise
  <2>1. OnePlace /\ Distinct(avail)'
    BY <1>1, <1>6 DEF BlkIInv, OnePlace, Distinct
  <2>2. OnePlace'
    BY <1>1, <1>2, <1>3, <2>1 DEF OnePlace
  <2>3. Promise
    BY <1>1, <1>3, <1>6 DEF Promise, Contract!Next, Contract!Reap
  <2> QED BY <2>2, <2>3
<1> QED BY <1>1, <1>4, <1>5, <1>6 DEF BlkKept, Promise

(* Steps that move no chain.                                                *)
LEMMA BlkQuiet ==
    ASSUME BlkIInv,
           UNCHANGED <<free, request, avail, status, used, current, diskDid, cut, lost>>,
           enabled => enabled'
    PROVE  BlkKept /\ UNCHANGED <<free, avail, Held, used, cut>>
<1>1. Heads' = Heads /\ Held' = Held /\ (OnePlace => OnePlace')
  BY DEF Heads, Held, OnePlace, Distinct
<1> QED BY <1>1 DEF BlkIInv, BlkKept, BlkIdle, HonestStatus

(* Every step preserves the invariant and is a step of the promise, or one  *)
(* the promise does not see.                                                *)
LEMMA BlkStep ==
    BlkIInv /\ [BlkNext]_blkVars
        => BlkIInv' /\ [Promise]_<<free, avail, Held, used, cut>>
<1> SUFFICES ASSUME BlkIInv, [BlkNext]_blkVars
             PROVE  BlkIInv' /\ [Promise]_<<free, avail, Held, used, cut>>
  OBVIOUS
<1>1. BlkTypeOK' /\ Asked'
  BY BlkTypeStep DEF BlkIInv
<1>2. BlkKept /\ (Promise \/ UNCHANGED <<free, avail, Held, used, cut>>)
  <2>1. CASE Pop
    BY <2>1, BlkPop
  <2>2. CASE CompleteNow \/ DiskResolves \/ DiskRejects
    BY <2>2, BlkCompletes
  <2>3. CASE Reset
    BY <2>3, BlkReset
  <2>4. ASSUME NEW c \in Chain, NEW r \in Request, Offer(c, r)
        PROVE  BlkKept /\ Promise
    BY <2>4, BlkOffer
  <2>5. CASE Reap
    BY <2>5, BlkReap
  <2>6. CASE Notify
    BY <2>6, BlkQuiet DEF Notify
  <2>7. CASE PopThrows \/ LoopEnds \/ Setup
    BY <2>7, BlkQuiet DEF PopThrows, LoopEnds, Setup, driverVars
  <2>8. CASE UNCHANGED blkVars
    BY <2>8, BlkQuiet DEF blkVars, driverVars
  <2> QED BY <2>1, <2>2, <2>3, <2>4, <2>5, <2>6, <2>7, <2>8
             DEF BlkNext, Loop, Disk, Driver
<1> QED BY <1>1, <1>2 DEF BlkIInv, BlkKept

(* The invariant holds in every reachable state.                            *)
LEMMA BlkIInvAlways == BlkSpec => []BlkIInv
<1>1. BlkIInv /\ [BlkNext]_blkVars => BlkIInv'
  BY BlkStep
<1> QED BY <1>1, BlkIInvInit, PTL DEF BlkSpec

(* Every variable of the block device has its type in every reachable       *)
(* state: the loop works on at most one request, and only while it runs.    *)
THEOREM BlkTypeCorrect == BlkSpec => []BlkTypeOK
<1>1. BlkIInv => BlkTypeOK
  BY DEF BlkIInv
<1> QED BY <1>1, BlkIInvAlways, PTL

(* Unless a reset cut a request off, the status byte of every used chain    *)
(* says what the disk did (handleRequestChain and its catch block,          *)
(* virtio_blk.js), for any number of chains, any mix of requests, read-only *)
(* or not.                                                                  *)
THEOREM HonestStatusCorrect == BlkSpec => []HonestStatus
<1>1. BlkIInv => HonestStatus
  BY DEF BlkIInv
<1> QED BY <1>1, BlkIInvAlways, PTL

(* The block device implements the virtqueue contract: every step of the    *)
(* asynchronous loop, the disk, the driver and a reset is a step of the     *)
(* contract or unseen by it, except between a reset that cuts a request off *)
(* and the reset, or the dropped completion, that ends the damage; from     *)
(* there the contract starts anew.                                          *)
THEOREM ImplementsContractCorrect == BlkSpec => ImplementsContract
<1>1. BlkInit => Contract!Init
  BY DEF BlkInit, Contract!Init, Heads, Held
<1>2. BlkIInv /\ [BlkNext]_blkVars => [Promise]_<<free, avail, Held, used, cut>>
  BY BlkStep
<1> QED BY <1>1, <1>2, BlkIInvAlways, PTL DEF BlkSpec, ImplementsContract

=============================================================================
