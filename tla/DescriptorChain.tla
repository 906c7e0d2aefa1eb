--------------------------- MODULE DescriptorChain ---------------------------
(***************************************************************************)
(* Virtqueue.popDescriptorChain and parseIndirectTable                     *)
(* (src/virtio/virtqueue.js): one step per iteration of their loops, over  *)
(* every descriptor table a driver can leave in guest memory.              *)
(*                                                                         *)
(* The tables do not change during a walk: the parser runs to its end in   *)
(* one turn of the worker, between two quanta of the guest.  Addresses and *)
(* lengths are abstracted to whether validateRange accepts them.           *)
(***************************************************************************)
EXTENDS Naturals, Sequences, SequencesExt, FiniteSets

CONSTANTS
    QSize,      \* queue size
    TableLen,   \* descriptors in an indirect table
    None        \* VRING_DESC_F_NEXT is clear

ASSUME QSizeAssumption    == QSize \in Nat \ {0}
ASSUME TableLenAssumption == TableLen \in 1..QSize
ASSUME NoneAssumption     == None \notin Nat

(* A descriptor: a buffer, an indirect one that passes the flag, length    *)
(* and size checks, one that fails the first two, one whose table is larger *)
(* than the queue, or one outside guest memory.  A next index equal to the  *)
(* count stands for every index past the end.                               *)
Buffer(count) == [kind : {"buffer"}, write : BOOLEAN, next : (0..count) \cup {None}]
RingDesc  == Buffer(QSize)
             \cup [kind : {"indirect", "badIndirect", "badTableSize", "badRange"}]
TableDesc == Buffer(TableLen) \cup [kind : {"nested", "badRange"}]

Errors == {"HEAD_INDEX_OUT_OF_BOUNDS", "DESCRIPTOR_LOOP_DETECTED", "DESCRIPTOR_CHAIN_TOO_LONG",
           "OUT_OF_RANGE", "MALFORMED_INDIRECT_DESCRIPTOR", "INVALID_INDIRECT_TABLE_SIZE",
           "NESTED_INDIRECT_TABLE_REJECTED", "MALFORMED_DESCRIPTOR_CHAIN", "OUT_OF_BOUNDS_DESCRIPTOR_NEXT"}

VARIABLES
    desc,          \* the descriptor table of the queue
    table,         \* the indirect table its indirect descriptors point to
    head,          \* the entry popped from the available ring
    level,         \* which loop runs: "ring" or "table"
    curr,          \* currIdx / curr
    visited,
    seenWritable,
    readable,      \* descriptors taken so far, as <<level, index>>
    writable,
    status         \* "walk", "ok" or the code of the exception

memory == <<desc, table, head>>
walk   == <<level, curr, visited, seenWritable>>
vars   == <<memory, walk, readable, writable, status>>

Count == IF level = "ring" THEN QSize ELSE TableLen
Index == 0..(QSize - 1)

TypeOK ==
    /\ desc \in [Index -> RingDesc] /\ table \in [0..(TableLen - 1) -> TableDesc]
    /\ head \in 0..QSize /\ level \in {"ring", "table"}
    /\ curr \in Nat /\ visited \subseteq 0..(Count - 1)
    /\ status = "walk" => curr \in 0..(Count - 1)
    /\ seenWritable \in BOOLEAN
    /\ readable \in Seq({"ring", "table"} \X Nat) /\ writable \in Seq({"ring", "table"} \X Nat)
    /\ status \in Errors \cup {"walk", "ok"}

(* The walk as it starts; a head index past the queue is refused at once.  *)
Init ==
    /\ desc \in [Index -> RingDesc]
    /\ table \in [0..(TableLen - 1) -> TableDesc]
    /\ head \in 0..QSize
    /\ level = "ring" /\ curr = head /\ visited = {} /\ seenWritable = FALSE
    /\ readable = <<>> /\ writable = <<>>
    /\ status = IF head < QSize THEN "walk" ELSE "HEAD_INDEX_OUT_OF_BOUNDS"

-----------------------------------------------------------------------------
Entry == IF level = "ring" THEN desc[curr] ELSE table[curr]
Here  == <<level, curr>>

Fail(code) == status' = code /\ UNCHANGED <<memory, walk, readable, writable>>

(* The checks of one iteration, in the code's order.  A descriptor of the  *)
(* ring is range-checked before its flags, one of a table after them, which *)
(* a descriptor that is both nested and out of range cannot tell apart here. *)
\* Mutant: the visited set is never consulted for loops.
FaultNoLoop ==
    IF Cardinality(visited) >= Count THEN "DESCRIPTOR_CHAIN_TOO_LONG"
    ELSE CASE Entry.kind = "badRange"     -> "OUT_OF_RANGE"
           [] Entry.kind = "badIndirect"  -> "MALFORMED_INDIRECT_DESCRIPTOR"
           [] Entry.kind = "badTableSize" -> "INVALID_INDIRECT_TABLE_SIZE"
           [] Entry.kind = "nested"       -> "NESTED_INDIRECT_TABLE_REJECTED"
           [] OTHER                       -> "none"

Fault ==
    IF curr \in visited THEN "DESCRIPTOR_LOOP_DETECTED"
    ELSE IF Cardinality(visited) >= Count THEN "DESCRIPTOR_CHAIN_TOO_LONG"
    ELSE CASE Entry.kind = "badRange"     -> "OUT_OF_RANGE"
           [] Entry.kind = "badIndirect"  -> "MALFORMED_INDIRECT_DESCRIPTOR"
           [] Entry.kind = "badTableSize" -> "INVALID_INDIRECT_TABLE_SIZE"
           [] Entry.kind = "nested"       -> "NESTED_INDIRECT_TABLE_REJECTED"
           [] OTHER                       -> "none"

Reject ==
    /\ status = "walk" /\ Fault # "none"
    /\ Fail(Fault)

(* An indirect descriptor: parseIndirectTable starts over with a visited   *)
(* set and a seenWritable of its own, and its end is the end of the chain. *)
EnterTable ==
    /\ status = "walk" /\ Fault = "none" /\ Entry.kind = "indirect"
    /\ level' = "table" /\ curr' = 0 /\ visited' = {} /\ seenWritable' = FALSE
    /\ UNCHANGED <<memory, readable, writable, status>>

\* Mutant: a read-only buffer after a writable one is taken.
OutOfOrderNever == FALSE

OutOfOrder == ~Entry.write /\ seenWritable

RejectOrder ==
    /\ status = "walk" /\ Fault = "none" /\ Entry.kind = "buffer" /\ OutOfOrder
    /\ Fail("MALFORMED_DESCRIPTOR_CHAIN")

\* Mutant: a readable buffer is skipped without being marked as visited.
TakeSkips ==
    /\ IF Entry.write
       THEN visited' = visited \cup {curr} /\ writable' = Append(writable, Here)
       ELSE UNCHANGED <<visited, writable>>
    /\ seenWritable' = (seenWritable \/ Entry.write)
    /\ UNCHANGED <<memory, level, readable>>

Take ==
    /\ visited' = visited \cup {curr}
    /\ seenWritable' = (seenWritable \/ Entry.write)
    /\ IF Entry.write THEN writable' = Append(writable, Here) /\ UNCHANGED readable
                      ELSE readable' = Append(readable, Here) /\ UNCHANGED writable
    /\ UNCHANGED <<memory, level>>

Follow ==
    LET n == Entry.next IN
    IF n = None THEN status' = "ok" /\ UNCHANGED curr
    ELSE IF n >= Count THEN status' = "OUT_OF_BOUNDS_DESCRIPTOR_NEXT" /\ UNCHANGED curr
    ELSE curr' = n /\ UNCHANGED status

TakeBuffer ==
    /\ status = "walk" /\ Fault = "none" /\ Entry.kind = "buffer" /\ ~OutOfOrder
    /\ Take
    /\ Follow

Next == Reject \/ EnterTable \/ RejectOrder \/ TakeBuffer
Spec == Init /\ [][Next]_vars
FairSpec == Spec /\ WF_vars(Next)

-----------------------------------------------------------------------------
(* What a chain is, without a walk: a duplicate-free sequence of descriptors *)
(* that starts at the first one and follows next to its end, and one of the *)
(* table in the place of an indirect descriptor at its end.                 *)

Paths(d, n, first) ==
    { p \in UNION {[1..k -> 0..(n - 1)] : k \in 1..n} :
        /\ p[1] = first
        /\ \A i, j \in 1..Len(p) : p[i] = p[j] => i = j
        /\ \A i \in 1..(Len(p) - 1) : d[p[i]].kind = "buffer" /\ d[p[i]].next = p[i + 1] }

EndsHere(e)  == e.kind = "buffer" /\ e.next = None
EndsThere(e) == e.kind = "indirect"

TablePaths == { p \in Paths(table, TableLen, 0) : EndsHere(table[Last(p)]) }
RingPaths  == { p \in Paths(desc, QSize, head) : EndsHere(desc[Last(p)]) }
ToTable    == { p \in Paths(desc, QSize, head) : EndsThere(desc[Last(p)]) }

(* The buffers of the chain in order, as <<level, index, isWrite>>.         *)
Buffers(l, d, p) == [i \in 1..Len(p) |-> <<l, p[i], d[p[i]].write>>]
Chains ==
    { Buffers("ring", desc, p) : p \in RingPaths }
    \cup { Buffers("ring", desc, Front(p)) \o Buffers("table", table, q) :
             p \in ToTable, q \in TablePaths }

(* A read-only buffer behind a writable one; none makes a chain well-formed *)
(* ("complete validation: ... read/write ordering", virtqueue.js:136-137).  *)
(* One the walk does not see: parseIndirectTable forgets the ring's writes. *)
Misplaced(c, i, j) == i < j /\ c[i][3] /\ ~c[j][3]
WellFormed(c) == \A i, j \in 1..Len(c) : ~Misplaced(c, i, j)
OnlyAcross(c) ==
    \A i, j \in 1..Len(c) : Misplaced(c, i, j) => c[i][1] = "ring" /\ c[j][1] = "table"

(* The sequence out lists the buffers of one direction in order: each has   *)
(* the place that its rank among them gives it.                             *)
Of(chain, w) == {i \in 1..Len(chain) : chain[i][3] = w}
Picks(out, chain, w) ==
    /\ Len(out) = Cardinality(Of(chain, w))
    /\ \A i \in Of(chain, w) :
           out[Cardinality({j \in Of(chain, w) : j <= i})] = <<chain[i][1], chain[i][2]>>

(* The parser hands out exactly the buffers of a chain, readable and         *)
(* writable ones apart and in order, and refuses no well-formed chain.  It   *)
(* accepts well-formed chains and none else but those whose only misplaced   *)
(* buffers are a table's reads behind the ring's writes: no loop, overrun or *)
(* nested table (virtqueue.js:135-304).                                      *)
ParserExact ==
    status # "walk" =>
        IF status = "ok"
        THEN \E c \in Chains : /\ WellFormed(c) \/ OnlyAcross(c)
                               /\ Picks(readable, c, FALSE) /\ Picks(writable, c, TRUE)
        ELSE \A c \in Chains : ~WellFormed(c)

(* Loop detection alone bounds the walk by the number of descriptors: the   *)
(* length check behind it (virtqueue.js:171-173, 261-263) never fires.      *)
NeverTooLong == status # "DESCRIPTOR_CHAIN_TOO_LONG"

(* Every table, however it is linked, is parsed in finitely many steps.     *)
Terminates == <>(status # "walk")

=============================================================================
