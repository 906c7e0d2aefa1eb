------------------------------ MODULE DiskActor ------------------------------
(***************************************************************************)
(* The storage actor, src/storage/disk_actor.js: lazy initialisation with   *)
(* its fallback cascade, the transaction queue, checksums, flush and close, *)
(* over storage that survives a reload of the page.                         *)
(*                                                                         *)
(* Calls are numbered in the order they are made, and a write stores its    *)
(* own number, so "later" and "larger" are the same thing.  A call is one   *)
(* step up to its first await; what it does after an await is another step. *)
(* A transaction touches one sector and takes effect when it settles.       *)
(***************************************************************************)
EXTENDS Naturals, Sequences

CONSTANTS
    Sector,
    InitialType, \* options.backend
    Browser,     \* which persistent backends a browser may offer
    MaxCalls,    \* bound: calls
    MaxRaced,    \* bound: calls when some were made while another ran init()
    MaxReloads,  \* bound: reloads of the page
    MayFail      \* storage operations, and opening a store, may fail

ASSUME BrowserAssumption   == Browser \subseteq SUBSET {"opfs", "idb"}
ASSUME TypeAssumption      == InitialType \in {"auto", "memory", "opfs", "idb"}
ASSUME BoundAssumption ==
    MaxCalls \in Nat /\ MaxRaced \in Nat /\ MaxReloads \in Nat /\ MayFail \in BOOLEAN

Call  == 1..MaxCalls
Kind  == {"read", "write", "flush", "close"}
Store == {"opfs", "idb"}
Value == 0..MaxCalls      \* 0 is the zero block
Fresh == [s \in Sector |-> 0]

VARIABLES
    made,           \* calls made
    kind, sect,     \* of each call
    pc,             \* "idle" "init" "ready" "queued" "closing" "done" "failed" "lost"
    mode,           \* backendType when the call started init()
    result,         \* what a read returned
    epoch,          \* reloads before the call
    queue,          \* transactionQueue: tasks not yet settled
    backend,        \* this.backend
    backendType,
    isInitialized,
    held,           \* some OPFS sync access handle is open
    cache, durable, \* contents of the persistent stores, flushed or not
    mem,            \* contents of the memory backend
    blockChecksums, \* the write whose CRC is recorded, 0 when none is
    available,      \* what this browser offers
    reloads,
    opened,         \* history: the backend that each page, one per reload, opened last
    raced           \* history: a call was made while another one ran init()

callVars  == <<made, kind, sect, mode, epoch>>
storeVars == <<cache, durable, mem>>
actorVars == <<backend, backendType, isInitialized, held, opened>>
pageVars  == <<available, reloads>>
vars == <<callVars, pc, result, queue, actorVars, storeVars, blockChecksums, pageVars, raced>>

TypeOK ==
    /\ made \in 0..MaxCalls
    /\ kind \in [Call -> Kind] /\ sect \in [Call -> Sector]
    /\ pc \in [Call -> {"idle", "init", "ready", "queued", "closing", "done", "failed", "lost"}]
    /\ mode \in [Call -> {"auto", "memory"} \cup Store]
    /\ result \in [Call -> Value] /\ epoch \in [Call -> Nat]
    /\ queue \in Seq(Call)
    /\ backend \in {"null", "memory"} \cup Store
    /\ backendType \in {"auto", "memory"} \cup Store
    /\ isInitialized \in BOOLEAN /\ held \in BOOLEAN
    /\ cache \in [Store -> [Sector -> Value]] /\ durable \in [Store -> [Sector -> Value]]
    /\ mem \in [Sector -> Value]
    /\ blockChecksums \in [Sector -> Value]
    /\ available \in Browser /\ reloads \in 0..MaxReloads /\ raced \in BOOLEAN
    /\ opened \in [0..MaxReloads -> {"none", "memory"} \cup Store]

Init ==
    /\ made = 0
    /\ kind = [i \in Call |-> "flush"] /\ sect \in [Call -> Sector]
    /\ pc = [i \in Call |-> "idle"] /\ mode = [i \in Call |-> "auto"]
    /\ result = [i \in Call |-> 0] /\ epoch = [i \in Call |-> 0]
    /\ queue = <<>>
    /\ backend = "null" /\ backendType = InitialType /\ isInitialized = FALSE /\ held = FALSE
    /\ cache = [b \in Store |-> Fresh] /\ durable = [b \in Store |-> Fresh] /\ mem = Fresh
    /\ blockChecksums = Fresh
    /\ available \in Browser /\ reloads = 0 /\ raced = FALSE
    /\ opened = [p \in 0..MaxReloads |-> "none"]

-----------------------------------------------------------------------------
(* A call: past the isInitialized check, its checksums are recorded and its *)
(* transaction is queued in the same turn.                                  *)

\* Mutant: reads do not wait for the transactions before them.
EnqueueReadFirst(i) ==
    /\ queue' = IF kind'[i] = "read" THEN <<i>> \o queue ELSE Append(queue, i)
    /\ blockChecksums' = IF kind'[i] = "write"
                         THEN [blockChecksums EXCEPT ![sect[i]] = i] ELSE blockChecksums

\* Mutant: writes are queued newest first.
EnqueueWriteFirst(i) ==
    /\ queue' = IF kind'[i] = "write" THEN <<i>> \o queue ELSE Append(queue, i)
    /\ blockChecksums' = IF kind'[i] = "write"
                         THEN [blockChecksums EXCEPT ![sect[i]] = i] ELSE blockChecksums

\* Mutant: the checksum of a rewritten block is not updated.
EnqueueFirstChecksum(i) ==
    /\ queue' = Append(queue, i)
    /\ blockChecksums' = IF kind'[i] = "write" /\ blockChecksums[sect[i]] = 0
                         THEN [blockChecksums EXCEPT ![sect[i]] = i] ELSE blockChecksums

Enqueue(i) ==
    /\ queue' = Append(queue, i)
    /\ blockChecksums' = IF kind'[i] = "write"
                         THEN [blockChecksums EXCEPT ![sect[i]] = i] ELSE blockChecksums

NewCall(i, k) ==
    /\ made < MaxCalls /\ i = made + 1
    /\ made' = i
    /\ kind' = [kind EXCEPT ![i] = k]
    /\ epoch' = [epoch EXCEPT ![i] = reloads]
    /\ raced' = (raced \/ \E j \in Call : pc[j] \in {"init", "ready"})
    /\ raced' => i <= MaxRaced

CallInitialized(i, k) ==
    /\ isInitialized
    /\ NewCall(i, k)
    /\ pc' = [pc EXCEPT ![i] = "queued"]
    /\ Enqueue(i)
    /\ UNCHANGED <<sect, mode, result, actorVars, storeVars, pageVars>>

(* init() runs up to its first await.  The memory branch has none, so it is *)
(* done, and only this call waits for a turn.                               *)
CallUninitialized(i, k) ==
    /\ ~isInitialized
    /\ NewCall(i, k)
    /\ mode' = [mode EXCEPT ![i] = backendType]
    /\ IF backendType = "memory"
       THEN /\ backend' = "memory" /\ mem' = Fresh /\ isInitialized' = TRUE
            /\ opened' = [opened EXCEPT ![reloads] = "memory"]
            /\ pc' = [pc EXCEPT ![i] = "ready"]
       ELSE /\ pc' = [pc EXCEPT ![i] = "init"]
            /\ UNCHANGED <<backend, mem, isInitialized, opened>>
    /\ UNCHANGED <<sect, result, queue, backendType, held, cache, durable, blockChecksums>>
    /\ UNCHANGED pageVars

(* The stores that open: a sync access handle excludes a second one, and a  *)
(* store that the browser has may fail to open all the same, its handle     *)
(* another tab's or its database in error.                                  *)
CanOpen == {b \in available : b = "opfs" => ~held}
Opening == IF MayFail THEN SUBSET CanOpen ELSE {CanOpen}

(* The backend init() ends with: the explicit one or none, or the first of  *)
(* the cascade, which falls through on any failure.                         *)
Cascade(opens) ==
    IF "opfs" \in opens THEN "opfs" ELSE IF "idb" \in opens THEN "idb" ELSE "memory"
Selected(m, opens) ==
    IF m = "auto" THEN Cascade(opens) ELSE IF m \in opens THEN m ELSE "null"

(* init() settles and the call goes on in the same turn.                    *)
InitReturns(i) ==
    /\ pc[i] = "init"
    /\ UNCHANGED callVars
    /\ \E opens \in Opening :
        LET b == Selected(mode[i], opens) IN
        IF b = "null"
        THEN /\ pc' = [pc EXCEPT ![i] = "failed"]
             /\ UNCHANGED <<actorVars, mem, queue, blockChecksums>>
        ELSE /\ backend' = b /\ backendType' = b /\ isInitialized' = TRUE
             /\ held' = (held \/ b = "opfs")
             /\ opened' = [opened EXCEPT ![reloads] = b]
             /\ mem' = IF b = "memory" THEN Fresh ELSE mem
             /\ pc' = [pc EXCEPT ![i] = "queued"]
             /\ Enqueue(i)
    /\ UNCHANGED <<result, cache, durable, pageVars, raced>>

(* The call that ran the memory branch of init() goes on, after whatever    *)
(* other calls the same turn made.                                         *)
Continue(i) ==
    /\ pc[i] = "ready"
    /\ UNCHANGED callVars
    /\ Enqueue(i)
    /\ pc' = [pc EXCEPT ![i] = "queued"]
    /\ UNCHANGED <<result, actorVars, storeVars, pageVars, raced>>

-----------------------------------------------------------------------------
(* Transactions.                                                           *)

Content == IF backend = "memory" THEN mem ELSE cache[backend]

(* IndexedDB resolves a write when its transaction is complete; OPFS keeps  *)
(* it in the access handle until flush.                                     *)
Stored(i) ==
    /\ mem' = IF backend = "memory" THEN [mem EXCEPT ![sect[i]] = i] ELSE mem
    /\ cache' = IF backend = "memory" THEN cache
                ELSE [cache EXCEPT ![backend][sect[i]] = i]
    /\ durable' = IF backend = "idb" THEN [durable EXCEPT !["idb"][sect[i]] = i] ELSE durable

\* Mutant: a flush resolves without flushing the backend.
FlushedNothing == UNCHANGED storeVars

Flushed ==
    /\ durable' = IF backend = "opfs" THEN [durable EXCEPT !["opfs"] = cache["opfs"]] ELSE durable
    /\ UNCHANGED <<mem, cache>>

RunTask(i) ==
    /\ queue # <<>> /\ i = Head(queue) /\ pc[i] = "queued" /\ backend # "null"
    /\ queue' = Tail(queue)
    /\ pc' = [pc EXCEPT ![i] = IF kind[i] = "close" THEN "closing" ELSE "done"]
    /\ CASE kind[i] = "read"  -> /\ result' = [result EXCEPT ![i] = Content[sect[i]]]
                                 /\ UNCHANGED storeVars
         [] kind[i] = "write" -> Stored(i) /\ UNCHANGED result
         [] OTHER             -> Flushed /\ UNCHANGED result
    /\ UNCHANGED <<callVars, actorVars, blockChecksums, pageVars, raced>>

\* Mutant: a rejected transaction is not caught and blocks the queue.
TaskFailsBlocking(i) ==
    /\ queue # <<>> /\ i = Head(queue) /\ pc[i] = "queued"
    /\ backend = "null" \/ (MayFail /\ backend \in Store)
    /\ pc' = [pc EXCEPT ![i] = "failed"]
    /\ UNCHANGED <<callVars, queue, result, actorVars, storeVars, blockChecksums, pageVars, raced>>

(* The storage operation fails, or close() has taken the backend away; the  *)
(* queue catches the rejection and goes on.                                 *)
TaskFails(i) ==
    /\ queue # <<>> /\ i = Head(queue) /\ pc[i] = "queued"
    /\ backend = "null" \/ (MayFail /\ backend \in Store)
    /\ queue' = Tail(queue)
    /\ pc' = [pc EXCEPT ![i] = "failed"]
    /\ UNCHANGED <<callVars, result, actorVars, storeVars, blockChecksums, pageVars, raced>>

(* close() after its flush: outside the queue, whatever is queued by then.  *)
CloseBackend(i) ==
    /\ pc[i] = "closing"
    /\ pc' = [pc EXCEPT ![i] = "done"]
    /\ backend' = "null" /\ isInitialized' = FALSE
    /\ held' = (held /\ backend # "opfs")
    /\ IF backend = "opfs" THEN Flushed
       ELSE /\ mem' = IF backend = "memory" THEN Fresh ELSE mem
            /\ UNCHANGED <<cache, durable>>
    /\ UNCHANGED <<callVars, result, queue, backendType, opened, blockChecksums, pageVars, raced>>

(* The page goes away and a new actor is constructed.                      *)
Reload ==
    /\ reloads < MaxReloads
    /\ reloads' = reloads + 1
    /\ pc' = [i \in Call |-> IF i <= made /\ pc[i] \notin {"done", "failed"} THEN "lost" ELSE pc[i]]
    /\ queue' = <<>>
    /\ backend' = "null" /\ backendType' = InitialType /\ isInitialized' = FALSE /\ held' = FALSE
    /\ cache' = durable /\ mem' = Fresh /\ blockChecksums' = Fresh
    /\ UNCHANGED <<callVars, result, durable, available, opened, raced>>

-----------------------------------------------------------------------------
AnyCall == \E i \in Call, k \in Kind : CallInitialized(i, k) \/ CallUninitialized(i, k)

Internal == \E i \in Call : \/ InitReturns(i) \/ Continue(i)
                            \/ RunTask(i) \/ TaskFails(i) \/ CloseBackend(i)

Next == AnyCall \/ Internal \/ Reload
Spec == Init /\ [][Next]_vars

(* The event loop runs on and the storage answers.                          *)
FairSpec == Spec /\ WF_vars(Internal)

-----------------------------------------------------------------------------
Done(i, k) == i <= made /\ pc[i] = "done" /\ kind[i] = k

(* The store, if any, that the page of a call worked on.                    *)
OpenedBy(i) == opened[epoch[i]]

(* "Serialize and commit all writes before returning" (disk_actor.js:432):  *)
(* once a flush has returned, every write made before it, if it succeeded,  *)
(* is safe in the store that the page works on, or was overwritten by a     *)
(* later one, and a later page that opens this store reads it.  A page that *)
(* works on another store, since the cascade of one of the two fell through *)
(* (disk_actor.js:323-337), or in memory, is the exception.                 *)
FlushDurable ==
    \A f, w \in Call :
        /\ Done(f, "flush") /\ Done(w, "write") /\ w < f /\ epoch[w] = epoch[f]
        /\ OpenedBy(f) \in Store
        => /\ durable[OpenedBy(f)][sect[w]] >= w
           /\ \A r \in Call :
                Done(r, "read") /\ sect[r] = sect[w] /\ epoch[r] > epoch[f]
                /\ OpenedBy(r) = OpenedBy(f)
                    => result[r] >= w

(* It is so for callers that let the first call return before the next one. *)
(* Two concurrent first calls both run init() (disk_actor.js:298): the      *)
(* second finds the OPFS handle taken, opens IndexedDB and replaces the     *)
(* backend, and FlushDurable fails for what is flushed there.               *)
FlushDurableUnraced == ~raced => FlushDurable

(* A read returns the last write called before it and never a later one,    *)
(* although neither call waits for the other (disk_actor.js:361-365).  A    *)
(* memory backend forgets when it is closed.                                *)
ReadsLatest ==
    ~raced =>
        \A r, w \in Call :
            Done(r, "read") /\ Done(w, "write") /\ sect[w] = sect[r] /\ epoch[w] = epoch[r]
                => IF w < r THEN OpenedBy(r) \in Store => result[r] >= w ELSE result[r] # w

(* "Enqueue an ordered transaction to ensure strict serial block I/O"       *)
(* (disk_actor.js:357): a sector never goes back to an earlier write while  *)
(* the backend stays, unless calls raced with init().                       *)
OrderedWrites ==
    [][~raced /\ reloads' = reloads /\ backend' = backend /\ backend # "null" =>
         \A s \in Sector : Content'[s] >= Content[s]]_vars

(* When nothing is in progress the recorded checksum of a persistent block  *)
(* is that of its content, so verifyBlockChecksum accepts what a read       *)
(* returns, across closes and reloads; the one exception is the checksum of *)
(* a write that failed, which was recorded before the write was tried.      *)
Idle == queue = <<>> /\ \A i \in 1..made : pc[i] \in {"done", "failed", "lost"}
ChecksumsMatch ==
    Idle /\ ~raced /\ backend \in Store =>
        \A s \in Sector :
            LET w == blockChecksums[s] IN
            w # 0 /\ pc[w] # "failed" => w = Content[s]

(* Every call settles: a failed transaction never stops the queue.  Calls   *)
(* come to an end here, so at some time nothing is left in progress.        *)
EveryCallSettles == []<>(\A i \in Call : pc[i] \notin {"init", "ready", "queued", "closing"})

=============================================================================
