---------------------------- MODULE GuestMemProofs ----------------------------
(* What the program reads from guest memory and where it writes: theorems of *)
(* DescriptorChain for every queue size and table length, and of BootLayout  *)
(* for every image and RAM size.  The tables name one path from a head, so   *)
(* what stops the walk of the parser stops every path.                       *)
EXTENDS DescriptorChain, BootLayout, SequenceTheorems, FiniteSetTheorems, WellFoundedInduction,
        TLAPS

(* The order of the numbers, as the relation that is well-founded.          *)
LEMMA InOrder == \A x, y \in Nat : y < x => <<y, x>> \in OpToRel(<, Nat)
BY Zenon DEF OpToRel

(* Sets of numbers have a least element: induction, without an operator as  *)
(* a parameter.                                                             *)
LEMMA LeastElement ==
    ASSUME NEW T \in SUBSET Nat, T # {}
    PROVE  \E x \in T : \A y \in T : x <= y
<1>1. \E x \in T : \A y \in T : ~ (<<y, x>> \in OpToRel(<, Nat))
  BY NatLessThanWellFounded, WFMin, Zenon
<1>2. PICK x \in T : \A y \in T : ~ (<<y, x>> \in OpToRel(<, Nat))
  BY <1>1, Zenon
<1>3. \A y \in T : ~(y < x)
  BY <1>2, InOrder, Zenon
<1> QED BY <1>3

(* A buffer of a chain, as <<level, index, isWrite>>.                       *)
Piece == {"ring", "table"} \X Nat \X BOOLEAN

(* One more buffer at the end of a chain.                                   *)
LEMMA PickPushed ==
    ASSUME NEW c \in Seq(Piece), NEW x \in Piece, NEW w \in BOOLEAN,
           NEW out \in Seq({"ring", "table"} \X Nat), Picks(out, c, w)
    PROVE  Picks(IF x[3] = w THEN Append(out, <<x[1], x[2]>>) ELSE out, Append(c, x), w)
<1> DEFINE N == Len(c)
           u == Append(c, x)
           y == <<x[1], x[2]>>
           Old == Of(c, w)
           Rank(S, i) == Cardinality({j \in S : j <= i})
<1>1. /\ u \in Seq(Piece) /\ Len(u) = N + 1 /\ u[N + 1] = x /\ N \in Nat
      /\ \A i \in 1..N : u[i] = c[i]
  BY AppendProperties, LenProperties
<1>2. \A i \in 1..Len(u) : i \in 1..N \/ i = N + 1
  BY <1>1
<1>3. \A i \in 1..N : i \in 1..Len(u) /\ i \in Nat /\ i # N + 1 /\ i <= N + 1 /\ ~(N + 1 <= i)
  BY <1>1
<1>4. N + 1 \in 1..Len(u)
  BY <1>1
<1> HIDE DEF N, u
<1>5. Of(u, w) = Old \cup (IF x[3] = w THEN {N + 1} ELSE {})
  BY <1>1, <1>2, <1>3, <1>4 DEF Of, N
<1>6. Old \subseteq 1..N /\ \A i \in Old : c[i][3] = w
  BY DEF Of, N
<1>7. IsFiniteSet(Old) /\ Cardinality(Old) \in Nat
  <2>1. IsFiniteSet(1..N)
    BY <1>1, FS_Interval
  <2> QED BY <1>6, <2>1, FS_Subset, FS_CardinalityType
<1>8. \A i \in Old : Rank(Of(u, w), i) = Rank(Old, i)
  <2> SUFFICES ASSUME NEW i \in Old PROVE Rank(Of(u, w), i) = Rank(Old, i)
    OBVIOUS
  <2>1. ~(N + 1 <= i)
    BY <1>3, <1>6
  <2>2. {j \in Of(u, w) : j <= i} = {j \in Old : j <= i}
    BY <1>5, <2>1
  <2> QED BY <2>2
<1>9. \A i \in Old : Rank(Old, i) \in 1..Cardinality(Old)
  <2> SUFFICES ASSUME NEW i \in Old PROVE Rank(Old, i) \in 1..Cardinality(Old)
    OBVIOUS
  <2> DEFINE S == {j \in Old : j <= i}
  <2>1. S \subseteq Old /\ {i} \subseteq S
    BY <1>3, <1>6
  <2> HIDE DEF S
  <2>2. IsFiniteSet(S) /\ Cardinality(S) <= Cardinality(Old) /\ Cardinality(S) \in Nat
    BY <1>7, <2>1, FS_Subset, FS_CardinalityType
  <2>3. Cardinality({i}) = 1 /\ Cardinality({i}) <= Cardinality(S)
    BY <2>1, <2>2, FS_Subset, FS_Singleton
  <2>4. Cardinality(S) \in 1..Cardinality(Old)
    BY <1>7, <2>2, <2>3
  <2> QED BY <2>4 DEF S
<1>10. /\ Len(out) = Cardinality(Old)
       /\ \A i \in Old : out[Rank(Old, i)] = <<c[i][1], c[i][2]>>
  BY DEF Picks
<1>11. CASE x[3] = w
  <2> DEFINE more == Append(out, y)
  <2>1. Of(u, w) = Old \cup {N + 1}
    BY <1>5, <1>11
  <2>2. N + 1 \notin Old
    BY <1>3, <1>6
  <2>3. Cardinality(Of(u, w)) = Cardinality(Old) + 1
    BY <1>7, <2>1, <2>2, FS_AddElement
  <2>4. /\ Len(more) = Len(out) + 1 /\ more[Len(out) + 1] = y
        /\ \A n \in 1..Len(out) : more[n] = out[n]
    <3>1. y \in {"ring", "table"} \X Nat
      BY DEF Piece
    <3> QED BY <3>1, AppendProperties
  <2> HIDE DEF more, y, Rank
  <2>5. Rank(Of(u, w), N + 1) = Cardinality(Old) + 1
    <3>1. {j \in Of(u, w) : j <= N + 1} = Of(u, w)
      <4>1. N + 1 <= N + 1
        BY <1>1
      <4> QED BY <1>3, <1>6, <2>1, <4>1
    <3> QED BY <2>3, <3>1 DEF Rank
  <2>6. \A i \in Of(u, w) : more[Rank(Of(u, w), i)] = <<u[i][1], u[i][2]>>
    <3> SUFFICES ASSUME NEW i \in Of(u, w)
                 PROVE  more[Rank(Of(u, w), i)] = <<u[i][1], u[i][2]>>
      OBVIOUS
    <3>1. CASE i \in Old
      <4>1. Rank(Of(u, w), i) = Rank(Old, i) /\ Rank(Old, i) \in 1..Len(out)
        BY <1>8, <1>9, <1>10, <3>1
      <4>2. more[Rank(Of(u, w), i)] = out[Rank(Old, i)] /\ u[i] = c[i]
        BY <1>1, <1>6, <2>4, <3>1, <4>1
      <4> QED BY <1>10, <3>1, <4>2
    <3>2. CASE i = N + 1
      <4>1. Rank(Of(u, w), i) = Len(out) + 1 /\ u[i] = x
        BY <1>1, <1>10, <2>5, <3>2
      <4> QED BY <2>4, <4>1 DEF y
    <3> QED BY <2>1, <3>1, <3>2
  <2>7. Len(more) = Cardinality(Of(u, w))
    BY <1>10, <2>3, <2>4
  <2>8. Picks(more, u, w)
    BY <2>6, <2>7 DEF Picks, Rank
  <2> QED BY <1>11, <2>8 DEF more, u, y
<1>12. CASE x[3] # w
  <2>1. Of(u, w) = Old
    BY <1>5, <1>12
  <2>2. \A i \in Old : u[i] = c[i]
    BY <1>1, <1>6
  <2> HIDE DEF Old
  <2>3. Picks(out, u, w)
    BY <1>10, <2>1, <2>2 DEF Picks
  <2> QED BY <1>12, <2>3 DEF u
<1> QED BY <1>11, <1>12

(* Nothing is picked from an empty chain.                                   *)
LEMMA PickNothing ==
    ASSUME NEW w
    PROVE  Picks(<<>>, <<>>, w)
<1>1. Of(<<>>, w) = {}
  BY DEF Of
<1> QED BY <1>1, FS_EmptySet DEF Picks

(* The descriptors a walk took, with the one it stands on at the end.       *)
Earlier(t) == {t[i] : i \in 1..(Len(t) - 1)}
Wrote(d, t) == \E i \in 1..(Len(t) - 1) : d[t[i]].write
Trail(d, n, first, t) ==
    /\ t \in Seq(0..(n - 1)) /\ t # <<>> /\ t[1] = first
    /\ \A i, j \in 1..(Len(t) - 1) : t[i] = t[j] => i = j
    /\ \A i \in 1..(Len(t) - 1) : d[t[i]].kind = "buffer" /\ d[t[i]].next = t[i + 1]
    /\ \A i, j \in 1..(Len(t) - 1) : i < j /\ d[t[i]].write => d[t[j]].write

(* A chain ends where no next descriptor is named.                          *)
Ends(d, p) == d[Last(p)].kind # "buffer" \/ d[Last(p)].next = None

(* The last element of a sequence that is not empty.                        *)
LEMMA LastOf ==
    ASSUME NEW S, NEW t \in Seq(S), t # <<>>
    PROVE  /\ Len(t) \in Nat /\ Len(t) >= 1 /\ Last(t) = t[Len(t)] /\ Last(t) \in S
           /\ Len(t) - 1 \in Nat /\ \A i \in 1..Len(t) : t[i] \in S
           /\ \A i \in 1..Len(t) : i \in 1..(Len(t) - 1) \/ i = Len(t)
           /\ \A i \in 1..(Len(t) - 1) : i \in 1..Len(t) /\ i + 1 \in 1..Len(t)
<1>1. Len(t) \in Nat /\ Len(t) # 0 /\ \A i \in 1..Len(t) : t[i] \in S
  BY LenProperties, EmptySeq, ElementOfSeq
<1> QED BY <1>1 DEF Last

(* A path is a sequence of descriptors.                                     *)
LEMMA PathForm ==
    ASSUME NEW d, NEW n \in Nat \ {0}, NEW first, NEW p \in Paths(d, n, first)
    PROVE  /\ p \in Seq(0..(n - 1)) /\ p # <<>> /\ Len(p) \in 1..n /\ p[1] = first
           /\ \A i, j \in 1..Len(p) : p[i] = p[j] => i = j
           /\ \A i \in 1..(Len(p) - 1) : d[p[i]].kind = "buffer" /\ d[p[i]].next = p[i + 1]
<1>1. PICK k \in 1..n : p \in [1..k -> 0..(n - 1)]
  BY DEF Paths
<1>2. k \in Nat /\ k # 0
  BY <1>1
<1>3. p \in Seq(0..(n - 1)) /\ Len(p) = k
  BY <1>1, <1>2
<1>4. p # <<>>
  BY <1>2, <1>3, EmptySeq
<1> QED BY <1>1, <1>3, <1>4 DEF Paths

(* The tables name one path: any that reaches an end goes along the trail.  *)
LEMMA Agrees ==
    ASSUME NEW d, NEW n \in Nat \ {0}, NEW first, NEW t, Trail(d, n, first, t),
           NEW r \in Paths(d, n, first), Ends(d, r)
    PROVE  \A i \in 1..Len(t) : i <= Len(r) /\ r[i] = t[i]
<1>1. /\ t \in Seq(0..(n - 1)) /\ t # <<>> /\ t[1] = first
      /\ \A i \in 1..(Len(t) - 1) : d[t[i]].kind = "buffer" /\ d[t[i]].next = t[i + 1]
  BY DEF Trail
<1>2. /\ r \in Seq(0..(n - 1)) /\ r # <<>> /\ r[1] = first
      /\ \A i \in 1..(Len(r) - 1) : d[r[i]].kind = "buffer" /\ d[r[i]].next = r[i + 1]
  <2>1. r[1] = first
    BY DEF Paths
  <2>2. /\ r \in Seq(0..(n - 1)) /\ r # <<>>
        /\ \A i \in 1..(Len(r) - 1) : d[r[i]].kind = "buffer" /\ d[r[i]].next = r[i + 1]
    BY PathForm
  <2> QED BY <2>1, <2>2
<1>3. Len(t) \in Nat /\ \A i \in 1..Len(t) : t[i] \in Nat
  BY <1>1, LastOf
<1>4. Len(r) \in Nat /\ Len(r) >= 1 /\ Last(r) = r[Len(r)]
  BY <1>2, LastOf
<1> DEFINE T == {i \in 1..Len(t) : ~(i <= Len(r) /\ r[i] = t[i])}
<1> SUFFICES ASSUME T # {} PROVE FALSE
  OBVIOUS
<1>5. PICK x \in T : \A y \in T : x <= y
  <2>1. T \in SUBSET Nat
    BY <1>3
  <2> HIDE DEF T
  <2> QED BY <2>1, LeastElement
<1>6. x \in 1..Len(t) /\ ~(x <= Len(r) /\ r[x] = t[x]) /\ x \in Nat /\ x >= 1
  BY <1>3
<1>7. x # 1
  BY <1>1, <1>2, <1>4, <1>6
<1>8. x - 1 \in 1..(Len(t) - 1) /\ x - 1 \in 1..Len(t) /\ x - 1 \in Nat /\ ~(x <= x - 1)
      /\ (x - 1) + 1 = x
  BY <1>3, <1>6, <1>7
<1>9. x - 1 <= Len(r) /\ r[x - 1] = t[x - 1]
  BY <1>5, <1>8
<1>10. d[r[x - 1]].kind = "buffer" /\ d[r[x - 1]].next = t[x]
  BY <1>1, <1>8, <1>9
<1>11. CASE x - 1 = Len(r)
  <2>1. t[x] \in Nat /\ t[x] # None
    BY <1>3, <1>6, NoneAssumption
  <2> QED BY <1>4, <1>10, <1>11, <2>1 DEF Ends
<1>12. CASE x - 1 # Len(r)
  <2>1. x - 1 \in 1..(Len(r) - 1) /\ x <= Len(r)
    BY <1>4, <1>8, <1>9, <1>12
  <2>2. d[r[x - 1]].next = r[x]
    BY <1>2, <1>8, <2>1
  <2> QED BY <1>6, <1>10, <2>1, <2>2
<1> QED BY <1>11, <1>12

(* The order as the parser checks it, in each table on its own; the chains  *)
(* that keep it; and what the walk then does: it takes these and no others. *)
Sorted(d, p) ==
    \A i, j \in 1..Len(p) :
        d[p[i]].kind = "buffer" /\ d[p[j]].kind = "buffer" /\ i < j /\ d[p[i]].write
            => d[p[j]].write

SortedTable   == { p \in Paths(table, TableLen, 0) : EndsHere(table[Last(p)]) /\ Sorted(table, p) }
SortedRing    == { p \in Paths(desc, QSize, head) : EndsHere(desc[Last(p)]) /\ Sorted(desc, p) }
SortedToTable == { p \in Paths(desc, QSize, head) : EndsThere(desc[Last(p)]) /\ Sorted(desc, p) }

SortedChains ==
    { Buffers("ring", desc, p) : p \in SortedRing }
    \cup { Buffers("ring", desc, Front(p)) \o Buffers("table", table, q) :
             p \in SortedToTable, q \in SortedTable }

SortedExact ==
    status # "walk" =>
        IF status = "ok"
        THEN \E c \in SortedChains : Picks(readable, c, FALSE) /\ Picks(writable, c, TRUE)
        ELSE SortedChains = {}

(* So what stops the walk stops every path.                                 *)
LEMMA Doomed ==
    ASSUME NEW d, NEW n \in Nat \ {0}, NEW first, NEW t, Trail(d, n, first, t),
           NEW r \in Paths(d, n, first), Ends(d, r), Sorted(d, r)
    PROVE  /\ Last(t) \notin Earlier(t)
           /\ d[Last(t)].kind = "buffer" \/ Last(r) = Last(t)
           /\ d[Last(t)].kind = "buffer" => d[Last(t)].next \in (0..(n - 1)) \cup {None}
           /\ d[Last(t)].kind = "buffer" /\ Wrote(d, t) => d[Last(t)].write
<1> DEFINE N == Len(t)
           c == Last(t)
<1>1. /\ t \in Seq(0..(n - 1)) /\ t # <<>> /\ N \in Nat /\ N >= 1 /\ c = t[N]
      /\ \A i \in 1..(N - 1) : i \in 1..N /\ i # N /\ i < N /\ d[t[i]].kind = "buffer"
  <2>1. t \in Seq(0..(n - 1)) /\ t # <<>> /\ N \in Nat /\ N >= 1 /\ c = t[N]
    BY LastOf DEF Trail
  <2> QED BY <2>1 DEF Trail
<1>2. /\ r \in Seq(0..(n - 1)) /\ r # <<>>
      /\ \A i, j \in 1..Len(r) : r[i] = r[j] => i = j
      /\ \A i \in 1..(Len(r) - 1) : d[r[i]].kind = "buffer" /\ d[r[i]].next = r[i + 1]
  BY PathForm
<1>3. /\ Len(r) \in Nat /\ Last(r) = r[Len(r)] /\ \A i \in 1..Len(r) : r[i] \in 0..(n - 1)
  BY <1>2, LastOf
<1>4. \A i \in 1..N : i <= Len(r) /\ r[i] = t[i]
  BY Agrees
<1> HIDE DEF N, c
<1>5. /\ N \in 1..Len(r) /\ r[N] = c
      /\ \A i \in 1..(N - 1) : i \in 1..Len(r) /\ r[i] = t[i]
  BY <1>1, <1>3, <1>4
<1>6. c \notin Earlier(t)
  <2> SUFFICES ASSUME NEW i \in 1..(N - 1), t[i] = c PROVE FALSE
    BY DEF Earlier, N
  <2>1. i = N
    BY <1>2, <1>5
  <2> QED BY <1>1, <2>1
<1>7. N = Len(r) \/ N \in 1..(Len(r) - 1)
  BY <1>1, <1>3, <1>5
<1>8. d[c].kind = "buffer" \/ Last(r) = c
  BY <1>2, <1>3, <1>5, <1>7
<1>9. d[c].kind = "buffer" => d[c].next \in (0..(n - 1)) \cup {None}
  <2>1. CASE N = Len(r)
    BY <1>3, <1>5, <2>1 DEF Ends
  <2>2. CASE N \in 1..(Len(r) - 1)
    <3>1. N + 1 \in 1..Len(r)
      BY <1>3, <2>2
    <3> QED BY <1>2, <1>3, <1>5, <2>2, <3>1
  <2> QED BY <1>7, <2>1, <2>2
<1>10. d[c].kind = "buffer" /\ Wrote(d, t) => d[c].write
  <2> SUFFICES ASSUME d[c].kind = "buffer", NEW i \in 1..(N - 1), d[t[i]].write PROVE d[c].write
    BY DEF Wrote, N
  <2>1. /\ i \in 1..Len(r) /\ N \in 1..Len(r) /\ i < N /\ r[i] = t[i] /\ r[N] = c
        /\ d[t[i]].kind = "buffer"
    BY <1>1, <1>5
  <2> QED BY <2>1, Zenon DEF Sorted
<1> QED BY <1>6, <1>8, <1>9, <1>10 DEF c

(* At its end a trail is a path itself.                                     *)
LEMMA Arrived ==
    ASSUME NEW d, NEW n \in Nat \ {0}, NEW first, NEW t, Trail(d, n, first, t),
           Last(t) \notin Earlier(t),
           d[Last(t)].kind = "buffer" /\ Wrote(d, t) => d[Last(t)].write
    PROVE  t \in Paths(d, n, first) /\ Sorted(d, t)
<1> DEFINE N == Len(t)
           c == Last(t)
<1>1. /\ t \in Seq(0..(n - 1)) /\ N \in Nat /\ N >= 1 /\ c = t[N]
      /\ t[1] = first
      /\ \A i \in 1..N : i \in 1..(N - 1) \/ i = N
      /\ \A i, j \in 1..(N - 1) : t[i] = t[j] => i = j
      /\ \A i \in 1..(N - 1) : d[t[i]].kind = "buffer" /\ d[t[i]].next = t[i + 1]
      /\ \A i, j \in 1..(N - 1) : i < j /\ d[t[i]].write => d[t[j]].write
  <2>1. t \in Seq(0..(n - 1)) /\ t # <<>>
    BY DEF Trail
  <2> QED BY <2>1, LastOf DEF Trail
<1>2. \A i \in 1..(N - 1) : t[i] # c
  BY DEF Earlier
<1>3. Wrote(d, t) <=> \E i \in 1..(N - 1) : d[t[i]].write
  BY DEF Wrote
<1>4. t \in [1..N -> 0..(n - 1)]
  BY <1>1
<1> HIDE DEF N, c
<1>5. \A i, j \in 1..N : t[i] = t[j] => i = j
  BY <1>1, <1>2
<1>6. N \in 1..n
  <2>1. t \in Injection(1..N, 0..(n - 1))
    BY <1>4, <1>5 DEF Injection, IsInjective
  <2>2. IsFiniteSet(0..(n - 1)) /\ Cardinality(0..(n - 1)) = n
    BY FS_Interval
  <2>3. Cardinality(1..N) <= n
    BY <2>1, <2>2, FS_Injection
  <2>4. Cardinality(1..N) = N
    BY <1>1, FS_Interval
  <2> QED BY <1>1, <2>3, <2>4
<1>7. t \in Paths(d, n, first)
  <2>1. t \in UNION {[1..k -> 0..(n - 1)] : k \in 1..n}
    BY <1>4, <1>6
  <2> QED BY <1>1, <1>5, <2>1 DEF Paths, N
<1>8. Sorted(d, t)
  <2> SUFFICES ASSUME NEW i \in 1..N, NEW j \in 1..N, d[t[i]].kind = "buffer",
                      d[t[j]].kind = "buffer", i < j, d[t[i]].write
               PROVE  d[t[j]].write
    BY DEF Sorted, N
  <2>1. i \in 1..(N - 1)
    BY <1>1
  <2>2. CASE j \in 1..(N - 1)
    BY <1>1, <2>1, <2>2
  <2>3. CASE j = N
    <3>1. Wrote(d, t)
      BY <1>3, <2>1
    <3> QED BY <1>1, <2>3, <3>1 DEF c
  <2> QED BY <1>1, <2>2, <2>3
<1> QED BY <1>7, <1>8

(* And a path is a trail.                                                   *)
LEMMA PathTrail ==
    ASSUME NEW d, NEW n \in Nat \ {0}, NEW first, NEW p \in Paths(d, n, first), Sorted(d, p)
    PROVE  Trail(d, n, first, p)
<1>1. /\ p \in Seq(0..(n - 1)) /\ p # <<>>
      /\ \A i, j \in 1..Len(p) : p[i] = p[j] => i = j
      /\ \A i \in 1..(Len(p) - 1) : d[p[i]].kind = "buffer" /\ d[p[i]].next = p[i + 1]
  BY PathForm
<1>2. p[1] = first
  BY DEF Paths
<1>3. \A i \in 1..(Len(p) - 1) : i \in 1..Len(p)
  BY <1>1, LastOf
<1>4. \A i, j \in 1..(Len(p) - 1) : i < j /\ d[p[i]].write => d[p[j]].write
  BY <1>1, <1>3, Zenon DEF Sorted
<1> QED BY <1>1, <1>2, <1>3, <1>4 DEF Trail

(* And where a next descriptor is named it goes on.                         *)
LEMMA Extended ==
    ASSUME NEW d, NEW n \in Nat \ {0}, NEW first, NEW t, Trail(d, n, first, t),
           Last(t) \notin Earlier(t), d[Last(t)].kind = "buffer",
           Wrote(d, t) => d[Last(t)].write,
           NEW m \in 0..(n - 1), d[Last(t)].next = m
    PROVE  /\ Trail(d, n, first, Append(t, m)) /\ Last(Append(t, m)) = m
           /\ Earlier(Append(t, m)) = Earlier(t) \cup {Last(t)}
           /\ Wrote(d, Append(t, m)) <=> Wrote(d, t) \/ d[Last(t)].write
           /\ Front(Append(t, m)) = t
<1> DEFINE N == Len(t)
           c == Last(t)
           u == Append(t, m)
<1>1. /\ t \in Seq(0..(n - 1)) /\ N \in Nat /\ N >= 1 /\ c = t[N]
      /\ t[1] = first
      /\ \A i \in 1..N : i \in 1..(N - 1) \/ i = N
      /\ \A i \in 1..(N - 1) : i \in 1..N
      /\ \A i, j \in 1..(N - 1) : t[i] = t[j] => i = j
      /\ \A i \in 1..(N - 1) : d[t[i]].kind = "buffer" /\ d[t[i]].next = t[i + 1]
      /\ \A i, j \in 1..(N - 1) : i < j /\ d[t[i]].write => d[t[j]].write
  <2>1. t \in Seq(0..(n - 1)) /\ t # <<>>
    BY DEF Trail
  <2> QED BY <2>1, LastOf DEF Trail
<1>2. \A i \in 1..(N - 1) : t[i] # c
  BY DEF Earlier
<1>3. /\ u \in Seq(0..(n - 1)) /\ Len(u) = N + 1 /\ u[N + 1] = m /\ \A i \in 1..N : u[i] = t[i]
      /\ u # <<>>
  <2>1. u \in Seq(0..(n - 1)) /\ Len(u) = N + 1 /\ u[N + 1] = m /\ \A i \in 1..N : u[i] = t[i]
    BY <1>1, AppendProperties
  <2> QED BY <1>1, <2>1, EmptySeq
<1>4. Len(u) - 1 = N /\ 1 \in 1..N /\ N \in 1..N
  BY <1>1, <1>3
<1> HIDE DEF N, c, u
<1>5. Last(u) = m
  BY <1>3 DEF Last
<1>6. Sorted(d, t)
  BY Arrived
<1>7. \A i \in 1..N : d[t[i]].kind = "buffer"
  BY <1>1 DEF c
<1>8. \A i, j \in 1..N : i < j /\ d[t[i]].write => d[t[j]].write
  BY <1>6, <1>7, Zenon DEF Sorted, N
<1>9. \A i \in 1..N : d[u[i]].next = u[i + 1]
  <2> SUFFICES ASSUME NEW i \in 1..N PROVE d[u[i]].next = u[i + 1]
    OBVIOUS
  <2>1. CASE i \in 1..(N - 1)
    <3>1. i + 1 \in 1..N
      BY <1>1, <2>1
    <3> QED BY <1>1, <1>3, <2>1, <3>1
  <2>2. CASE i = N
    BY <1>1, <1>3, <2>2 DEF c
  <2> QED BY <1>1, <2>1, <2>2
<1>10. \A i, j \in 1..N : t[i] = t[j] => i = j
  BY <1>1, <1>2
<1>11. Trail(d, n, first, u)
  <2>1. u[1] = first
    BY <1>1, <1>3, <1>4
  <2>2. \A i, j \in 1..N : u[i] = u[j] => i = j
    BY <1>3, <1>10
  <2>3. \A i \in 1..N : d[u[i]].kind = "buffer" /\ d[u[i]].next = u[i + 1]
    BY <1>3, <1>7, <1>9
  <2>4. \A i, j \in 1..N : i < j /\ d[u[i]].write => d[u[j]].write
    BY <1>3, <1>8
  <2> QED BY <1>3, <1>4, <2>1, <2>2, <2>3, <2>4 DEF Trail
<1>12. Earlier(u) = Earlier(t) \cup {c}
  <2>1. Earlier(u) = {t[i] : i \in 1..N}
    <3>1. Earlier(u) = {u[i] : i \in 1..N}
      BY <1>4 DEF Earlier
    <3> QED BY <1>3, <3>1
  <2>2. Earlier(t) = {t[i] : i \in 1..(N - 1)}
    BY DEF Earlier, N
  <2> QED BY <1>1, <1>4, <2>1, <2>2
<1>13. Wrote(d, u) <=> Wrote(d, t) \/ d[c].write
  <2>1. Wrote(d, u) <=> \E i \in 1..N : d[t[i]].write
    BY <1>3, <1>4 DEF Wrote
  <2>2. Wrote(d, t) <=> \E i \in 1..(N - 1) : d[t[i]].write
    BY DEF Wrote, N
  <2> QED BY <1>1, <1>4, <2>1, <2>2
<1>14. Front(u) = t
  <2>1. Front(u) = SubSeq(u, 1, N)
    BY <1>4 DEF Front
  <2>2. /\ SubSeq(u, 1, N) \in Seq(0..(n - 1)) /\ Len(SubSeq(u, 1, N)) = N
        /\ \A i \in 1..N : SubSeq(u, 1, N)[i] = u[i]
    <3>1. 1 \in 1..(Len(u) + 1) /\ N \in 0..Len(u) /\ N - 1 + 1 = N /\ \A i \in 1..N : 1 + i - 1 = i
      BY <1>1, <1>3
    <3> QED BY <1>1, <1>3, <3>1, SubSeqProperties
  <2> DEFINE v == SubSeq(u, 1, N)
  <2>3. v \in Seq(0..(n - 1)) /\ t \in Seq(0..(n - 1)) /\ Len(v) = Len(t)
        /\ \A i \in 1..Len(v) : v[i] = t[i]
    BY <1>1, <1>3, <2>2 DEF N
  <2> HIDE DEF v
  <2>4. v = t
    BY <2>3, SeqEqual
  <2> QED BY <2>1, <2>4 DEF v
<1> QED BY <1>5, <1>11, <1>12, <1>13, <1>14 DEF u, c

(* A walk at its first descriptor.                                          *)
LEMMA Single ==
    ASSUME NEW d, NEW n \in Nat \ {0}, NEW first \in 0..(n - 1), NEW l
    PROVE  /\ Trail(d, n, first, <<first>>) /\ Last(<<first>>) = first
           /\ Earlier(<<first>>) = {} /\ ~Wrote(d, <<first>>)
           /\ Buffers(l, d, Front(<<first>>)) = <<>>
<1> DEFINE t == <<first>>
<1>1. t \in Seq(0..(n - 1)) /\ t # <<>> /\ Len(t) = 1 /\ t[1] = first /\ 1..(Len(t) - 1) = {}
  OBVIOUS
<1> HIDE DEF t
<1>2. Trail(d, n, first, t) /\ Last(t) = first /\ Earlier(t) = {} /\ ~Wrote(d, t)
  BY <1>1 DEF Trail, Last, Earlier, Wrote
<1>3. Front(t) = <<>>
  <2>1. Front(t) = SubSeq(t, 1, 0)
    BY <1>1 DEF Front
  <2> QED BY <2>1, SubSeqEmpty
<1>4. Buffers(l, d, <<>>) = <<>>
  BY DEF Buffers
<1> QED BY <1>2, <1>3, <1>4 DEF t

(* The descriptors of a table.                                              *)
Described(d, n) ==
    \A x \in 0..(n - 1) : d[x].kind = "buffer" =>
        d[x].write \in BOOLEAN /\ d[x].next \in (0..n) \cup {None}

(* The buffers of a trail, the one it stands on apart.                      *)
LEMMA BuffersPushed ==
    ASSUME NEW d, NEW n \in Nat \ {0}, NEW first, NEW t, Trail(d, n, first, t), Described(d, n),
           NEW l \in {"ring", "table"}
    PROVE  /\ Buffers(l, d, Front(t)) \in Seq(Piece)
           /\ d[Last(t)].kind = "buffer" =>
                  /\ Buffers(l, d, t) =
                         Append(Buffers(l, d, Front(t)), <<l, Last(t), d[Last(t)].write>>)
                  /\ <<l, Last(t), d[Last(t)].write>> \in Piece
<1> DEFINE N == Len(t) - 1
           f == Front(t)
           b == Buffers(l, d, f)
           x == <<l, Last(t), d[Last(t)].write>>
<1>1. /\ t \in Seq(0..(n - 1)) /\ t # <<>> /\ N \in Nat /\ Len(t) \in Nat /\ Len(t) = N + 1
      /\ Last(t) = t[N + 1] /\ \A i \in 1..Len(t) : t[i] \in 0..(n - 1)
      /\ \A i \in 1..N : d[t[i]].kind = "buffer"
      /\ \A i \in 1..N : i \in 1..Len(t)
      /\ \A i \in 1..(N + 1) : i \in 1..N \/ i = N + 1
      /\ N + 1 \in 1..Len(t)
  <2>1. t \in Seq(0..(n - 1)) /\ t # <<>> /\ \A i \in 1..N : d[t[i]].kind = "buffer"
    BY DEF Trail
  <2> QED BY <2>1, LastOf
<1> HIDE DEF N
<1>2. /\ f \in Seq(0..(n - 1)) /\ Len(f) = N /\ \A i \in 1..N : f[i] = t[i]
  <2>1. f = SubSeq(t, 1, N)
    BY DEF Front, N
  <2>2. 1 \in Int /\ N \in Int /\ (1 <= N => N - 1 + 1 = N) /\ (~(1 <= N) => N = 0)
        /\ \A i \in 1..N : 1 + i - 1 = i
    BY <1>1
  <2>3. \A i \in 1..N : t[i] \in 0..(n - 1)
    BY <1>1
  <2>4. N - 1 + 1 = N
    BY <1>1
  <2> QED BY <2>1, <2>2, <2>3, <2>4, SubSeqProperties
<1> HIDE DEF f
<1>3. \A i \in 1..N : <<l, t[i], d[t[i]].write>> \in Piece
  <2>1. \A i \in 1..N : t[i] \in 0..(n - 1) /\ t[i] \in Nat /\ d[t[i]].write \in BOOLEAN
    BY <1>1 DEF Described
  <2> QED BY <2>1 DEF Piece
<1>4. b = [i \in 1..N |-> <<l, t[i], d[t[i]].write>>]
  BY <1>2 DEF Buffers
<1> HIDE DEF b
<1>5. b \in Seq(Piece) /\ Len(b) = N /\ \A i \in 1..N : b[i] = <<l, t[i], d[t[i]].write>>
  BY <1>1, <1>3, <1>4
<1>6. ASSUME d[Last(t)].kind = "buffer"
      PROVE  Buffers(l, d, t) = Append(b, x) /\ x \in Piece
  <2>1. x \in Piece
    <3>1. Last(t) \in 0..(n - 1) /\ Last(t) \in Nat
      BY <1>1
    <3>2. d[Last(t)].write \in BOOLEAN
      BY <1>6, <3>1 DEF Described
    <3> QED BY <3>1, <3>2 DEF Piece
  <2>2. x = <<l, t[N + 1], d[t[N + 1]].write>>
    BY <1>1
  <2> HIDE DEF x
  <2>3. /\ Append(b, x) \in Seq(Piece) /\ Len(Append(b, x)) = N + 1 /\ Append(b, x)[N + 1] = x
        /\ \A i \in 1..N : Append(b, x)[i] = b[i]
    BY <1>5, <2>1, AppendProperties
  <2>4. Buffers(l, d, t) = [i \in 1..(N + 1) |-> <<l, t[i], d[t[i]].write>>]
    BY <1>1 DEF Buffers
  <2>5. \A i \in 1..(N + 1) : Append(b, x)[i] = <<l, t[i], d[t[i]].write>>
    BY <1>1, <1>5, <2>2, <2>3
  <2>6. Append(b, x) = [i \in 1..(N + 1) |-> Append(b, x)[i]]
    <3> DEFINE v == Append(b, x)
    <3>1. v \in Seq(Piece) /\ Len(v) = N + 1
      BY <2>3
    <3> HIDE DEF v
    <3>2. v \in [1..(N + 1) -> Piece]
      BY <3>1, LenProperties
    <3>3. v = [i \in 1..(N + 1) |-> v[i]]
      BY <3>2
    <3> QED BY <3>3 DEF v
  <2> QED BY <2>1, <2>4, <2>5, <2>6
<1> QED BY <1>5, <1>6 DEF b, f, x

(* What the walk has handed out, when c is the chain so far.                *)
Handed(r, w, c) ==
    /\ c \in Seq(Piece)
    /\ r \in Seq({"ring", "table"} \X Nat) /\ w \in Seq({"ring", "table"} \X Nat)
    /\ Picks(r, c, FALSE) /\ Picks(w, c, TRUE)

(* One more buffer joins its direction and leaves the other one alone.      *)
LEMMA HandedPushed ==
    ASSUME NEW r, NEW w, NEW c, Handed(r, w, c), NEW x \in Piece
    PROVE  Handed(IF x[3] THEN r ELSE Append(r, <<x[1], x[2]>>),
                  IF x[3] THEN Append(w, <<x[1], x[2]>>) ELSE w, Append(c, x))
<1> DEFINE y == <<x[1], x[2]>>
<1>1. /\ c \in Seq(Piece) /\ Picks(r, c, FALSE) /\ Picks(w, c, TRUE)
      /\ r \in Seq({"ring", "table"} \X Nat) /\ w \in Seq({"ring", "table"} \X Nat)
  BY DEF Handed
<1>2. /\ Append(c, x) \in Seq(Piece)
      /\ Append(r, y) \in Seq({"ring", "table"} \X Nat)
      /\ Append(w, y) \in Seq({"ring", "table"} \X Nat)
  <2>1. y \in {"ring", "table"} \X Nat
    BY DEF Piece
  <2> HIDE DEF y
  <2> QED BY <1>1, <2>1, AppendProperties
<1>3. x[3] \in BOOLEAN /\ FALSE \in BOOLEAN /\ TRUE \in BOOLEAN
  BY DEF Piece
<1>4. /\ Picks(IF x[3] = FALSE THEN Append(r, y) ELSE r, Append(c, x), FALSE)
      /\ Picks(IF x[3] = TRUE THEN Append(w, y) ELSE w, Append(c, x), TRUE)
  BY <1>1, <1>3, PickPushed
<1> HIDE DEF y
<1>5. CASE x[3] = TRUE
  <2>1. Picks(r, Append(c, x), FALSE) /\ Picks(Append(w, y), Append(c, x), TRUE)
    BY <1>4, <1>5
  <2> QED BY <1>1, <1>2, <1>5, <2>1 DEF Handed, y
<1>6. CASE x[3] = FALSE
  <2>1. Picks(Append(r, y), Append(c, x), FALSE) /\ Picks(w, Append(c, x), TRUE)
    BY <1>4, <1>6
  <2> QED BY <1>1, <1>2, <1>6, <2>1 DEF Handed, y
<1> QED BY <1>3, <1>5, <1>6

(* A descriptor at which the parser gives up.                               *)
Refused(d, n, t) ==
    \/ Last(t) \in Earlier(t)
    \/ d[Last(t)].kind \notin {"buffer", "indirect"}
    \/ d[Last(t)].kind = "buffer" /\ Wrote(d, t) /\ ~d[Last(t)].write
    \/ d[Last(t)].kind = "buffer" /\ d[Last(t)].next \notin (0..(n - 1)) \cup {None}

(* No path reaches an end beyond a descriptor that is refused.              *)
LEMMA NoPath ==
    ASSUME NEW d, NEW n \in Nat \ {0}, NEW first, NEW t, Trail(d, n, first, t), Refused(d, n, t),
           NEW r \in Paths(d, n, first), Sorted(d, r),
           EndsHere(d[Last(r)]) \/ EndsThere(d[Last(r)])
    PROVE  FALSE
<1>1. Ends(d, r) /\ d[Last(r)].kind \in {"buffer", "indirect"}
  BY DEF Ends, EndsHere, EndsThere
<1>2. /\ Last(t) \notin Earlier(t)
      /\ d[Last(t)].kind = "buffer" \/ Last(r) = Last(t)
      /\ d[Last(t)].kind = "buffer" => d[Last(t)].next \in (0..(n - 1)) \cup {None}
      /\ d[Last(t)].kind = "buffer" /\ Wrote(d, t) => d[Last(t)].write
  BY <1>1, Doomed
<1> QED BY <1>1, <1>2 DEF Refused

(* So in the ring a refused descriptor leaves no chain,                     *)
LEMMA RingRefused ==
    ASSUME NEW t, Trail(desc, QSize, head, t), Refused(desc, QSize, t)
    PROVE  SortedChains = {}
<1>1. SortedRing = {}
  BY NoPath, QSizeAssumption DEF SortedRing
<1>2. SortedToTable = {}
  BY NoPath, QSizeAssumption DEF SortedToTable
<1> QED BY <1>1, <1>2 DEF SortedChains

(* and neither does one in the table that the path of the ring leads to.    *)
LEMMA TableRefused ==
    ASSUME NEW p \in SortedToTable, NEW t, Trail(table, TableLen, 0, t), Refused(table, TableLen, t)
    PROVE  SortedChains = {}
<1>0. QSize \in Nat \ {0} /\ TableLen \in Nat \ {0}
  BY QSizeAssumption, TableLenAssumption
<1>1. SortedTable = {}
  BY <1>0, NoPath DEF SortedTable
<1>2. /\ p \in Paths(desc, QSize, head) /\ Sorted(desc, p) /\ desc[Last(p)].kind = "indirect"
  BY DEF SortedToTable, EndsThere
<1>3. Trail(desc, QSize, head, p)
  BY <1>0, <1>2, PathTrail
<1>4. SortedRing = {}
  <2> SUFFICES ASSUME NEW r \in SortedRing PROVE FALSE
    OBVIOUS
  <2>1. /\ r \in Paths(desc, QSize, head) /\ Sorted(desc, r)
        /\ desc[Last(r)].kind = "buffer" /\ Ends(desc, r)
    BY DEF SortedRing, EndsHere, Ends
  <2>2. desc[Last(p)].kind = "buffer" \/ Last(r) = Last(p)
    BY <1>0, <1>3, <2>1, Doomed
  <2> QED BY <1>2, <2>1, <2>2
<1> QED BY <1>1, <1>4 DEF SortedChains

(* What makes the walk finite: visited descriptors are descriptors of the   *)
(* current table, and the walk stands on one of them or on a new one.       *)
WalkInv == TypeOK /\ status # "DESCRIPTOR_CHAIN_TOO_LONG"

(* A table of Count descriptors is full only when every index is visited.   *)
LEMMA RoomForCurr ==
    ASSUME WalkInv, status = "walk", curr \notin visited
    PROVE  ~(Cardinality(visited) >= Count)
<1>1. Count \in Nat /\ Count > 0
  BY QSizeAssumption, TableLenAssumption DEF Count
<1>2. IsFiniteSet(0..(Count - 1)) /\ Cardinality(0..(Count - 1)) = Count
  BY <1>1, FS_Interval
<1>3. curr \in 0..(Count - 1) /\ visited \subseteq 0..(Count - 1)
  BY DEF WalkInv, TypeOK
<1>4. IsFiniteSet(visited) /\ Cardinality(visited) \in Nat
  BY <1>2, <1>3, FS_Subset, FS_CardinalityType
<1>5. Cardinality(visited \cup {curr}) = Cardinality(visited) + 1
  BY <1>4, FS_AddElement
<1>6. Cardinality(visited \cup {curr}) <= Count
  <2>1. visited \cup {curr} \subseteq 0..(Count - 1)
    BY <1>3
  <2>2. Cardinality(visited \cup {curr}) <= Cardinality(0..(Count - 1))
    BY <1>2, <2>1, FS_Subset
  <2> QED BY <1>2, <2>2
<1> QED BY <1>1, <1>4, <1>5, <1>6

(* What a descriptor the walk stands on can be.                             *)
LEMMA Entries ==
    ASSUME WalkInv, status = "walk"
    PROVE  /\ level = "ring" => Count = QSize /\ Entry = desc[curr] /\ Entry \in RingDesc
           /\ level = "table" => Count = TableLen /\ Entry = table[curr] /\ Entry \in TableDesc
           /\ Entry.kind = "buffer" => Entry.next \in (0..Count) \cup {None}
                                       /\ Entry.write \in BOOLEAN
<1>1. curr \in 0..(Count - 1) /\ level \in {"ring", "table"}
  BY DEF WalkInv, TypeOK
<1>2. CASE level = "ring"
  <2>1. Entry \in RingDesc /\ Count = QSize /\ Entry = desc[curr]
    BY <1>1, <1>2 DEF Entry, WalkInv, TypeOK, Count, Index
  <2>2. Entry.kind = "buffer" => Entry \in Buffer(QSize)
    BY <2>1 DEF RingDesc
  <2> QED BY <1>2, <2>1, <2>2 DEF Buffer
<1>3. CASE level = "table"
  <2>1. Entry \in TableDesc /\ Count = TableLen /\ Entry = table[curr]
    BY <1>1, <1>3 DEF Entry, WalkInv, TypeOK, Count
  <2>2. Entry.kind = "buffer" => Entry \in Buffer(TableLen)
    BY <2>1 DEF TableDesc
  <2> QED BY <1>3, <2>1, <2>2 DEF Buffer
<1> QED BY <1>1, <1>2, <1>3

(* Without a fault the walk is at a new buffer or at an indirect descriptor. *)
LEMMA Faults ==
    ASSUME WalkInv, status = "walk"
    PROVE  /\ Fault \in (Errors \ {"DESCRIPTOR_CHAIN_TOO_LONG"}) \cup {"none"}
           /\ Fault = "none" <=> curr \notin visited /\ Entry.kind \in {"buffer", "indirect"}
<1>1. CASE curr \in visited
  BY <1>1 DEF Fault, Errors
<1>2. CASE curr \notin visited
  <2>1. ~(Cardinality(visited) >= Count)
    BY <1>2, RoomForCurr
  <2>2. Fault = CASE Entry.kind = "badRange"     -> "OUT_OF_RANGE"
                  [] Entry.kind = "badIndirect"  -> "MALFORMED_INDIRECT_DESCRIPTOR"
                  [] Entry.kind = "badTableSize" -> "INVALID_INDIRECT_TABLE_SIZE"
                  [] Entry.kind = "nested"       -> "NESTED_INDIRECT_TABLE_REJECTED"
                  [] OTHER                       -> "none"
    BY <1>2, <2>1 DEF Fault
  <2>3. Entry.kind \in {"buffer", "indirect", "badIndirect", "badTableSize", "badRange", "nested"}
    <3>1. Entry \in RingDesc \/ Entry \in TableDesc
      BY Entries DEF WalkInv, TypeOK
    <3> QED BY <3>1 DEF RingDesc, TableDesc, Buffer
  <2>4. CASE Entry.kind = "badRange"
    BY <1>2, <2>2, <2>4 DEF Errors
  <2>5. CASE Entry.kind = "badIndirect"
    BY <1>2, <2>2, <2>5 DEF Errors
  <2>6. CASE Entry.kind = "nested"
    BY <1>2, <2>2, <2>6 DEF Errors
  <2>8. CASE Entry.kind = "badTableSize"
    BY <1>2, <2>2, <2>8 DEF Errors
  <2>7. CASE Entry.kind \in {"buffer", "indirect"}
    <3>1. Fault = "none"
      BY <2>2, <2>7
    <3> QED BY <1>2, <2>7, <3>1
  <2> QED BY <2>3, <2>4, <2>5, <2>6, <2>7, <2>8
<1> QED BY <1>1, <1>2

(* The walk starts in the table of the queue.                               *)
LEMMA WalkInit ==
    ASSUME Init
    PROVE  WalkInv
<1>1. desc \in [Index -> RingDesc] /\ table \in [0..(TableLen - 1) -> TableDesc]
  BY DEF Init
<1>2. level = "ring" /\ curr = head /\ visited = {} /\ head \in 0..QSize /\ seenWritable = FALSE
      /\ readable = <<>> /\ writable = <<>>
  BY DEF Init
<1>3. status = (IF head < QSize THEN "walk" ELSE "HEAD_INDEX_OUT_OF_BOUNDS")
  BY DEF Init
<1>4. Count = QSize /\ QSize \in Nat /\ QSize > 0
  BY <1>2, QSizeAssumption DEF Count
<1>5. curr \in Nat /\ (status = "walk" => curr \in 0..(Count - 1))
  BY <1>2, <1>3, <1>4
<1>6. status # "DESCRIPTOR_CHAIN_TOO_LONG" /\ status \in Errors \cup {"walk", "ok"}
  BY <1>3 DEF Errors
<1>7. <<>> \in Seq({"ring", "table"} \X Nat)
  OBVIOUS
<1> QED BY <1>1, <1>2, <1>5, <1>6, <1>7 DEF WalkInv, TypeOK

(* One step of the walk, action by action.                                  *)
LEMMA WalkStep ==
    ASSUME WalkInv, [Next]_vars
    PROVE  WalkInv'
<1>0. /\ desc \in [Index -> RingDesc] /\ table \in [0..(TableLen - 1) -> TableDesc]
      /\ head \in 0..QSize /\ level \in {"ring", "table"}
      /\ curr \in Nat /\ visited \subseteq 0..(Count - 1)
      /\ status = "walk" => curr \in 0..(Count - 1)
      /\ seenWritable \in BOOLEAN
      /\ readable \in Seq({"ring", "table"} \X Nat) /\ writable \in Seq({"ring", "table"} \X Nat)
  BY DEF WalkInv, TypeOK
<1>1. ASSUME NEW code \in Errors, code # "DESCRIPTOR_CHAIN_TOO_LONG", Fail(code)
      PROVE  WalkInv'
  <2>1. status' = code /\ UNCHANGED <<memory, walk, readable, writable>> /\ code # "walk"
    BY <1>1 DEF Fail, Errors
  <2> QED BY <1>0, <1>1, <2>1 DEF WalkInv, TypeOK, memory, walk, Count
<1>2. CASE Reject
  <2>1. status = "walk" /\ Fault # "none" /\ Fail(Fault)
    BY <1>2 DEF Reject
  <2>2. Fault \in Errors /\ Fault # "DESCRIPTOR_CHAIN_TOO_LONG"
    BY <2>1, Faults
  <2> HIDE DEF Fault
  <2> QED BY <1>1, <2>1, <2>2
<1>3. CASE EnterTable
  <2>1. /\ level' = "table" /\ curr' = 0 /\ visited' = {} /\ seenWritable' = FALSE
        /\ UNCHANGED <<desc, table, head, readable, writable, status>>
    BY <1>3 DEF EnterTable, memory
  <2>2. Count' = TableLen /\ TableLen \in Nat /\ TableLen > 0
    BY <2>1, TableLenAssumption, QSizeAssumption DEF Count
  <2>3. 0 \in 0..(Count' - 1)
    BY <2>2
  <2> QED BY <1>0, <2>1, <2>3 DEF WalkInv, TypeOK
<1>4. CASE RejectOrder
  <2>1. Fail("MALFORMED_DESCRIPTOR_CHAIN")
    BY <1>4 DEF RejectOrder
  <2>2. "MALFORMED_DESCRIPTOR_CHAIN" \in Errors
    BY DEF Errors
  <2> QED BY <1>1, <2>1, <2>2
<1>5. CASE TakeBuffer
  <2>1. /\ UNCHANGED <<desc, table, head, level>>
        /\ visited' = visited \cup {curr} /\ status = "walk" /\ Entry.kind = "buffer"
        /\ seenWritable' = (seenWritable \/ Entry.write)
        /\ readable' = readable \/ readable' = Append(readable, Here)
        /\ writable' = writable \/ writable' = Append(writable, Here)
        /\ Follow
    BY <1>5 DEF TakeBuffer, Take, memory
  <2>2. Count' = Count /\ Count \in Nat
    BY <2>1, QSizeAssumption, TableLenAssumption DEF Count
  <2>3. visited' \subseteq 0..(Count' - 1) /\ seenWritable' \in BOOLEAN
    BY <1>0, <2>1, <2>2
  <2>4. /\ readable' \in Seq({"ring", "table"} \X Nat)
        /\ writable' \in Seq({"ring", "table"} \X Nat)
    <3> DEFINE T == {"ring", "table"} \X Nat
    <3>1. Here \in T /\ readable \in Seq(T) /\ writable \in Seq(T)
      BY <1>0 DEF Here
    <3> HIDE DEF T
    <3>2. Append(readable, Here) \in Seq(T) /\ Append(writable, Here) \in Seq(T)
      BY <3>1, AppendProperties
    <3>3. readable' \in Seq(T) /\ writable' \in Seq(T)
      BY <2>1, <3>1, <3>2
    <3> QED BY <3>3 DEF T
  <2>5. Entry.next \in (0..Count) \cup {None}
    BY <2>1, Entries
  <2>6. /\ status' \in {"walk", "ok", "OUT_OF_BOUNDS_DESCRIPTOR_NEXT"}
        /\ curr' \in Nat /\ curr' \in 0..(Count' - 1)
    <3>1. curr \in 0..(Count - 1)
      BY <1>0, <2>1
    <3>2. CASE Entry.next = None
      BY <1>0, <2>1, <2>2, <3>1, <3>2 DEF Follow
    <3>3. CASE Entry.next # None /\ Entry.next >= Count
      BY <1>0, <2>1, <2>2, <3>1, <3>3 DEF Follow
    <3>4. CASE Entry.next # None /\ ~(Entry.next >= Count)
      BY <2>1, <2>2, <2>5, <3>4 DEF Follow
    <3> QED BY <3>2, <3>3, <3>4
  <2>7. status' \in Errors \cup {"walk", "ok"} /\ status' # "DESCRIPTOR_CHAIN_TOO_LONG"
    BY <2>6 DEF Errors
  <2> QED BY <1>0, <2>1, <2>3, <2>4, <2>6, <2>7 DEF WalkInv, TypeOK
<1>6. CASE UNCHANGED vars
  BY <1>0, <1>6 DEF vars, memory, walk, WalkInv, TypeOK, Count
<1> QED BY <1>2, <1>3, <1>4, <1>5, <1>6 DEF Next

-----------------------------------------------------------------------------
(* Indices stay inside the table they index, in the ring and in an indirect *)
(* table, for every queue size (virtqueue.js:147-304).                      *)
THEOREM ParserTypeCorrect == Spec => []TypeOK
<1>1. WalkInv => TypeOK
  BY DEF WalkInv
<1>2. WalkInv /\ [Next]_vars => WalkInv'
  BY WalkStep
<1>3. Init => WalkInv
  BY WalkInit
<1> QED BY <1>1, <1>2, <1>3, PTL DEF Spec

(* The chain-length check of virtqueue.js:171-173 and 261-263 never fires:  *)
(* loop detection alone bounds every walk, for every queue size.            *)
THEOREM NeverTooLongCorrect == Spec => []NeverTooLong
<1>1. WalkInv => NeverTooLong
  BY DEF WalkInv, NeverTooLong
<1>2. WalkInv /\ [Next]_vars => WalkInv'
  BY WalkStep
<1>3. Init => WalkInv
  BY WalkInit
<1> QED BY <1>1, <1>2, <1>3, PTL DEF Spec

(* What is left of a walk: descriptors it has not visited, those of an      *)
(* indirect table it may still enter, and the step that ends it.            *)
Left == IF status # "walk" THEN 0
        ELSE IF level = "ring" THEN (QSize - Cardinality(visited)) + TableLen + 2
        ELSE (TableLen - Cardinality(visited)) + 1

(* The visited descriptors are no more than there are.                      *)
LEMMA VisitedFit ==
    ASSUME WalkInv
    PROVE  /\ QSize \in Nat /\ TableLen \in Nat /\ Count \in Nat /\ level \in {"ring", "table"}
           /\ Count = IF level = "ring" THEN QSize ELSE TableLen
           /\ IsFiniteSet(visited) /\ Cardinality(visited) \in Nat
           /\ Cardinality(visited) <= Count
<1>1. QSize \in Nat /\ TableLen \in Nat /\ Count \in Nat /\ level \in {"ring", "table"}
      /\ Count = IF level = "ring" THEN QSize ELSE TableLen
  BY QSizeAssumption, TableLenAssumption DEF Count, WalkInv, TypeOK
<1>2. IsFiniteSet(0..(Count - 1)) /\ Cardinality(0..(Count - 1)) = Count
  <2>1. 0 \in Int /\ Count - 1 \in Int /\ (Count - 1) - 0 + 1 = Count
        /\ ((Count - 1) < 0 => Count = 0)
    BY <1>1
  <2> QED BY <2>1, FS_Interval
<1>3. visited \subseteq 0..(Count - 1)
  BY DEF WalkInv, TypeOK
<1>4. /\ IsFiniteSet(visited) /\ Cardinality(visited) \in Nat
      /\ Cardinality(visited) <= Cardinality(0..(Count - 1))
  BY <1>2, <1>3, FS_Subset, FS_CardinalityType
<1> QED BY <1>1, <1>2, <1>4

(* Every step of the parser uses up some of what is left, whatever the      *)
(* tables say: no walk takes more than QSize + TableLen + 2 steps           *)
(* (virtqueue.js:167-229, 258-301).                                         *)
THEOREM WalkIsBounded == Spec => /\ [](Left \in 0..(QSize + TableLen + 2))
                                 /\ [][Left' < Left]_vars
<1>1. WalkInv => Left \in 0..(QSize + TableLen + 2)
  BY VisitedFit DEF Left
<1>2. ASSUME WalkInv, WalkInv', Next PROVE Left' < Left
  <2>1. status = "walk"
    BY <1>2 DEF Next, Reject, EnterTable, RejectOrder, TakeBuffer
  <2>2. Left \in Nat /\ Left > 0
    BY <1>2, <2>1, VisitedFit DEF Left
  <2>3. CASE status' # "walk"
    BY <2>2, <2>3 DEF Left
  <2>4. CASE EnterTable
    <3>1. level = "ring" /\ level' = "table" /\ visited' = {} /\ status' = "walk"
      <4>1. Entry.kind = "indirect" /\ level' = "table" /\ visited' = {} /\ status' = "walk"
        BY <2>1, <2>4 DEF EnterTable
      <4>2. \A e \in TableDesc : e.kind # "indirect"
        BY DEF TableDesc, Buffer
      <4> QED BY <1>2, <2>1, <4>1, <4>2, Entries DEF WalkInv, TypeOK
    <3>2. Left' = TableLen + 1
      <4>1. Cardinality({}) = 0
        BY FS_EmptySet
      <4>2. Left' = (TableLen - Cardinality({})) + 1
        BY <3>1 DEF Left
      <4> QED BY <1>2, <4>1, <4>2, VisitedFit
    <3>3. Left >= TableLen + 2
      BY <1>2, <2>1, <3>1, VisitedFit DEF Left
    <3> QED BY <1>2, <3>2, <3>3, <2>2, VisitedFit
  <2>5. CASE TakeBuffer /\ status' = "walk"
    <3>1. visited' = visited \cup {curr} /\ level' = level /\ curr \notin visited
      <4>1. visited' = visited \cup {curr} /\ level' = level /\ Fault = "none"
        BY <2>5 DEF TakeBuffer, Take
      <4> QED BY <1>2, <2>1, <4>1, Faults
    <3>2. Cardinality(visited') = Cardinality(visited) + 1
      BY <1>2, <3>1, VisitedFit, FS_AddElement
    <3> QED BY <1>2, <2>1, <2>5, <3>1, <3>2, VisitedFit DEF Left
  <2>6. Reject \/ RejectOrder => status' # "walk"
    <3>1. Reject => status' # "walk"
      <4> SUFFICES ASSUME Reject PROVE status' # "walk"
        OBVIOUS
      <4>1. Fault # "none" /\ status' = Fault
        BY DEF Reject, Fail
      <4>2. Fault \in Errors
        BY <1>2, <2>1, <4>1, Faults
      <4> HIDE DEF Fault
      <4> QED BY <4>1, <4>2 DEF Errors
    <3> QED BY <3>1 DEF RejectOrder, Fail
  <2> QED BY <1>2, <2>3, <2>4, <2>5, <2>6 DEF Next
<1>3. WalkInv /\ [Next]_vars => WalkInv'
  BY WalkStep
<1>4. Init => WalkInv
  BY WalkInit
<1>5. WalkInv /\ WalkInv' /\ [Next]_vars => [Left' < Left]_vars
  BY <1>2
<1> QED BY <1>1, <1>3, <1>4, <1>5, PTL DEF Spec

-----------------------------------------------------------------------------
(* The walk stands at the end of a trail and has handed out what is before, *)
(* in the ring or, once a path led to an indirect descriptor, in its table. *)
Standing(d, n, first, t, v, c, s) ==
    Trail(d, n, first, t) /\ v = Earlier(t) /\ c = Last(t) /\ (s <=> Wrote(d, t))

(* In the table of the queue: a trail from the head.                        *)
OnRing ==
    /\ level = "ring"
    /\ \E t : /\ Standing(desc, QSize, head, t, visited, curr, seenWritable)
              /\ Handed(readable, writable, Buffers("ring", desc, Front(t)))

(* In an indirect table: a trail of its own behind a path that led there.   *)
InTable ==
    /\ level = "table"
    /\ \E p \in SortedToTable : \E t :
           /\ Standing(table, TableLen, 0, t, visited, curr, seenWritable)
           /\ Handed(readable, writable,
                     Buffers("ring", desc, Front(p)) \o Buffers("table", table, Front(t)))

(* The invariant: the walk goes on along a trail, or it is exact.           *)
PathInv == (status = "walk" => OnRing \/ InTable) /\ SortedExact

(* What the parser relies on in both tables.                                *)
LEMMA Tables ==
    ASSUME WalkInv
    PROVE  /\ QSize \in Nat \ {0} /\ TableLen \in Nat \ {0}
           /\ Described(desc, QSize) /\ Described(table, TableLen)
<1>1. QSize \in Nat \ {0} /\ TableLen \in Nat \ {0}
  BY QSizeAssumption, TableLenAssumption
<1>2. \A x \in 0..(QSize - 1) : desc[x] \in RingDesc
  BY DEF WalkInv, TypeOK, Index
<1>3. \A x \in 0..(TableLen - 1) : table[x] \in TableDesc
  BY DEF WalkInv, TypeOK
<1>4. \A e \in RingDesc : e.kind = "buffer" =>
          e.write \in BOOLEAN /\ e.next \in (0..QSize) \cup {None}
  BY DEF RingDesc, Buffer
<1>5. \A e \in TableDesc : e.kind = "buffer" =>
          e.write \in BOOLEAN /\ e.next \in (0..TableLen) \cup {None}
  BY DEF TableDesc, Buffer
<1> QED BY <1>1, <1>2, <1>3, <1>4, <1>5 DEF Described

(* Which chains there are depends on guest memory alone.                    *)
LEMMA SameMemory ==
    ASSUME UNCHANGED memory
    PROVE  /\ SortedChains' = SortedChains
           /\ SortedToTable' = SortedToTable /\ SortedRing' = SortedRing
<1>1. desc' = desc /\ table' = table /\ head' = head
  BY DEF memory
<1>2. SortedToTable' = SortedToTable
  BY <1>1 DEF SortedToTable
<1>3. SortedRing' = SortedRing
  BY <1>1 DEF SortedRing
<1>4. SortedTable' = SortedTable
  BY <1>1 DEF SortedTable
<1> QED BY <1>1, <1>2, <1>3, <1>4 DEF SortedChains

(* The walk gives up only where no chain is well-formed.                    *)
LEMMA GivesUp ==
    ASSUME WalkInv, OnRing \/ InTable, status' \notin {"walk", "ok"}, UNCHANGED memory,
           \/ curr \in visited
           \/ Entry.kind \notin {"buffer", "indirect"}
           \/ Entry.kind = "buffer" /\ seenWritable /\ ~Entry.write
           \/ Entry.kind = "buffer" /\ Entry.next \notin (0..(Count - 1)) \cup {None}
    PROVE  PathInv'
<1>1. SortedChains = {}
  <2>1. CASE OnRing
    <3>1. PICK t : Standing(desc, QSize, head, t, visited, curr, seenWritable)
      BY <2>1 DEF OnRing
    <3>2. Count = QSize /\ Entry = desc[Last(t)]
      BY <2>1, <3>1 DEF OnRing, Standing, Count, Entry
    <3>3. Trail(desc, QSize, head, t) /\ Refused(desc, QSize, t)
      BY <3>1, <3>2 DEF Standing, Refused
    <3> QED BY <3>3, RingRefused
  <2>2. CASE InTable
    <3>0. PICK p \in SortedToTable :
              \E t : Standing(table, TableLen, 0, t, visited, curr, seenWritable)
      BY <2>2 DEF InTable
    <3>1. PICK t : Standing(table, TableLen, 0, t, visited, curr, seenWritable)
      BY <3>0
    <3>2. Count = TableLen /\ Entry = table[Last(t)]
      BY <2>2, <3>1 DEF InTable, Standing, Count, Entry
    <3>3. Trail(table, TableLen, 0, t) /\ Refused(table, TableLen, t)
      BY <3>1, <3>2 DEF Standing, Refused
    <3> QED BY <3>3, TableRefused
  <2> QED BY <2>1, <2>2
<1>2. SortedChains' = {}
  BY <1>1, SameMemory
<1> QED BY <1>2 DEF PathInv, SortedExact

(* The walk starts on a trail of one descriptor.                            *)
LEMMA PathInit ==
    ASSUME Init
    PROVE  PathInv
<1>0. WalkInv /\ QSize \in Nat \ {0}
  BY WalkInit, QSizeAssumption
<1>1. level = "ring" /\ curr = head /\ visited = {} /\ seenWritable = FALSE
      /\ readable = <<>> /\ writable = <<>> /\ head \in 0..QSize
      /\ status = IF head < QSize THEN "walk" ELSE "HEAD_INDEX_OUT_OF_BOUNDS"
  BY DEF Init
<1>2. CASE head < QSize
  <2> DEFINE t == <<head>>
  <2>1. head \in 0..(QSize - 1)
    BY <1>0, <1>1, <1>2
  <2>2. /\ Trail(desc, QSize, head, t) /\ Last(t) = head /\ Earlier(t) = {} /\ ~Wrote(desc, t)
        /\ Buffers("ring", desc, Front(t)) = <<>>
    BY <1>0, <2>1, Single
  <2> HIDE DEF t
  <2>3. Standing(desc, QSize, head, t, visited, curr, seenWritable)
    BY <1>1, <2>2 DEF Standing
  <2>4. Handed(readable, writable, <<>>)
    <3>1. <<>> \in Seq(Piece) /\ <<>> \in Seq({"ring", "table"} \X Nat)
      OBVIOUS
    <3> QED BY <1>1, <3>1, PickNothing DEF Handed
  <2>5. OnRing
    BY <1>1, <2>2, <2>3, <2>4 DEF OnRing
  <2> QED BY <1>1, <1>2, <2>5 DEF PathInv, SortedExact
<1>3. CASE ~(head < QSize)
  <2>1. head \notin 0..(QSize - 1)
    BY <1>0, <1>3
  <2>2. \A r \in Paths(desc, QSize, head) : FALSE
    <3> SUFFICES ASSUME NEW r \in Paths(desc, QSize, head) PROVE FALSE
      OBVIOUS
    <3>1. PICK k \in 1..QSize : r \in [1..k -> 0..(QSize - 1)]
      BY DEF Paths
    <3>2. r[1] = head
      BY DEF Paths
    <3>3. 1 \in 1..k
      BY <1>0, <3>1
    <3> QED BY <2>1, <3>1, <3>2, <3>3
  <2>3. SortedChains = {}
    BY <2>2 DEF SortedChains, SortedRing, SortedToTable
  <2> QED BY <1>1, <1>3, <2>3 DEF PathInv, SortedExact
<1> QED BY <1>2, <1>3

(* A buffer of the table is one more of the whole chain.                    *)
LEMMA AppendConcat ==
    ASSUME NEW a \in Seq(Piece), NEW b \in Seq(Piece), NEW x \in Piece
    PROVE  Append(a \o b, x) = a \o Append(b, x)
<1> DEFINE S == Piece
<1> HIDE DEF S
<1>0. a \in Seq(S) /\ b \in Seq(S) /\ x \in S
  BY DEF S
<1>1. a \o b \in Seq(S) /\ <<x>> \in Seq(S)
  BY <1>0, ConcatProperties
<1>2. Append(a \o b, x) = (a \o b) \o <<x>>
  BY <1>0, <1>1, AppendIsConcat
<1>3. Append(b, x) = b \o <<x>>
  BY <1>0, AppendIsConcat
<1>4. (a \o b) \o <<x>> = a \o (b \o <<x>>)
  BY <1>0, <1>1, ConcatAssociative
<1> QED BY <1>2, <1>3, <1>4

(* A buffer is taken: what was handed out is the trail with its last one,   *)
(* and the trail is a path that ends, breaks off or goes on.                *)
LEMMA Taken ==
    ASSUME WalkInv, TakeBuffer,
           NEW d, NEW n \in Nat \ {0}, NEW first, NEW t, Described(d, n),
           Standing(d, n, first, t, visited, curr, seenWritable), Entry = d[curr], Count = n,
           NEW c \in Seq(Piece), Handed(readable, writable, c \o Buffers(level, d, Front(t)))
    PROVE  /\ t \in Paths(d, n, first) /\ Sorted(d, t) /\ d[Last(t)].kind = "buffer"
           /\ Handed(readable', writable', c \o Buffers(level, d, t))
           /\ \/ status' = "ok" /\ d[Last(t)].next = None
              \/ status' \notin {"walk", "ok"} /\ Entry.next \notin (0..(Count - 1)) \cup {None}
              \/ /\ status' = "walk"
                 /\ \E m \in 0..(n - 1) :
                        /\ Front(Append(t, m)) = t
                        /\ Standing(d, n, first, Append(t, m), visited', curr', seenWritable')
<1>1. /\ status = "walk" /\ Fault = "none" /\ Entry.kind = "buffer" /\ ~OutOfOrder
      /\ visited' = visited \cup {curr}
      /\ seenWritable' = (seenWritable \/ Entry.write)
      /\ IF Entry.write THEN writable' = Append(writable, Here) /\ readable' = readable
                        ELSE readable' = Append(readable, Here) /\ writable' = writable
      /\ Follow
  BY DEF TakeBuffer, Take
<1>2. /\ Trail(d, n, first, t) /\ visited = Earlier(t) /\ curr = Last(t)
      /\ seenWritable <=> Wrote(d, t)
  BY DEF Standing
<1>3. /\ Last(t) \notin Earlier(t) /\ d[Last(t)].kind = "buffer"
      /\ Wrote(d, t) => d[Last(t)].write
  BY <1>1, <1>2, Faults DEF OutOfOrder
<1>4. /\ Entry.next \in (0..Count) \cup {None} /\ Entry.write \in BOOLEAN
      /\ level \in {"ring", "table"}
  BY <1>1, Entries DEF WalkInv, TypeOK
<1>5. t \in Paths(d, n, first) /\ Sorted(d, t)
  BY <1>2, <1>3, Arrived
<1>6. Handed(readable', writable', c \o Buffers(level, d, t))
  <2> DEFINE b == Buffers(level, d, Front(t))
             x == <<level, curr, Entry.write>>
  <2>1. b \in Seq(Piece) /\ Buffers(level, d, t) = Append(b, x) /\ x \in Piece
    BY <1>2, <1>3, <1>4, BuffersPushed
  <2>2. <<x[1], x[2]>> = Here /\ x[3] = Entry.write
    BY DEF Here
  <2> HIDE DEF b, x
  <2>3. Handed(readable, writable, c \o b)
    BY DEF b
  <2>4. Handed(IF x[3] THEN readable ELSE Append(readable, <<x[1], x[2]>>),
               IF x[3] THEN Append(writable, <<x[1], x[2]>>) ELSE writable, Append(c \o b, x))
    BY <2>1, <2>3, HandedPushed
  <2>5. Append(c \o b, x) = c \o Append(b, x)
    <3>1. c \in Seq(Piece) /\ b \in Seq(Piece) /\ x \in Piece
      BY <2>1
    <3> QED BY <3>1, AppendConcat
  <2>6. /\ readable' = IF x[3] THEN readable ELSE Append(readable, <<x[1], x[2]>>)
        /\ writable' = IF x[3] THEN Append(writable, <<x[1], x[2]>>) ELSE writable
    BY <1>1, <1>4, <2>2
  <2> QED BY <2>1, <2>4, <2>5, <2>6
<1>7. \/ status' = "ok" /\ d[Last(t)].next = None
      \/ status' \notin {"walk", "ok"} /\ Entry.next \notin (0..(Count - 1)) \cup {None}
      \/ /\ status' = "walk"
         /\ \E m \in 0..(n - 1) :
                /\ Front(Append(t, m)) = t
                /\ Standing(d, n, first, Append(t, m), visited', curr', seenWritable')
  <2>1. CASE Entry.next = None
    BY <1>1, <1>2, <2>1 DEF Follow
  <2>2. CASE Entry.next # None /\ Entry.next >= Count
    <3>1. Entry.next \notin 0..(Count - 1)
      BY <1>4, <2>2
    <3> QED BY <1>1, <2>2, <3>1 DEF Follow
  <2>3. CASE Entry.next # None /\ ~(Entry.next >= Count)
    <3> DEFINE m == Entry.next
    <3>1. m \in 0..(n - 1) /\ curr' = m /\ status' = "walk" /\ d[Last(t)].next = m
      BY <1>1, <1>2, <1>4, <2>3 DEF Follow
    <3> HIDE DEF m
    <3>2. /\ Trail(d, n, first, Append(t, m)) /\ Last(Append(t, m)) = m
          /\ Earlier(Append(t, m)) = Earlier(t) \cup {Last(t)}
          /\ Wrote(d, Append(t, m)) <=> Wrote(d, t) \/ d[Last(t)].write
          /\ Front(Append(t, m)) = t
      BY <1>2, <1>3, <3>1, Extended
    <3>3. seenWritable' <=> seenWritable \/ d[Last(t)].write
      BY <1>1, <1>2
    <3>4. Standing(d, n, first, Append(t, m), visited', curr', seenWritable')
      BY <1>1, <1>2, <3>1, <3>2, <3>3 DEF Standing
    <3> QED BY <3>1, <3>2, <3>4
  <2> QED BY <2>1, <2>2, <2>3
<1> QED BY <1>3, <1>5, <1>6, <1>7

(* A buffer is taken, in the ring or in the table.                          *)
LEMMA TakeStep ==
    ASSUME WalkInv, OnRing \/ InTable, TakeBuffer
    PROVE  PathInv'
<1>0. /\ QSize \in Nat \ {0} /\ TableLen \in Nat \ {0}
      /\ Described(desc, QSize) /\ Described(table, TableLen)
      /\ status = "walk" /\ UNCHANGED <<memory, level>> /\ UNCHANGED <<desc, table, head>>
      /\ Entry.kind = "buffer"
  BY Tables DEF TakeBuffer, Take, memory
<1>1. ASSUME status' \notin {"walk", "ok"}, Entry.next \notin (0..(Count - 1)) \cup {None}
      PROVE  PathInv'
  BY <1>0, <1>1, GivesUp
<1>2. ASSUME status' = "ok",
             NEW c \in SortedChains, Handed(readable', writable', c)
      PROVE  PathInv'
  <2>1. Picks(readable', c, FALSE) /\ Picks(writable', c, TRUE) /\ c \in SortedChains'
    BY <1>0, <1>2, SameMemory DEF Handed
  <2> QED BY <1>2, <2>1 DEF PathInv, SortedExact
<1>3. CASE OnRing
  <2>1. PICK t : /\ Standing(desc, QSize, head, t, visited, curr, seenWritable)
                 /\ Handed(readable, writable, Buffers("ring", desc, Front(t)))
    BY <1>3 DEF OnRing
  <2>2. level = "ring" /\ Count = QSize /\ Entry = desc[curr]
    BY <1>3 DEF OnRing, Count, Entry
  <2>3. <<>> \in Seq(Piece) /\ \A b \in Seq(Piece) : <<>> \o b = b
    BY ConcatEmptySeq
  <2>4. Handed(readable, writable, <<>> \o Buffers(level, desc, Front(t)))
    BY <2>1, <2>2, <2>3 DEF Handed
  <2>5. /\ t \in Paths(desc, QSize, head) /\ Sorted(desc, t) /\ desc[Last(t)].kind = "buffer"
        /\ Handed(readable', writable', <<>> \o Buffers(level, desc, t))
        /\ \/ status' = "ok" /\ desc[Last(t)].next = None
           \/ status' \notin {"walk", "ok"} /\ Entry.next \notin (0..(Count - 1)) \cup {None}
           \/ /\ status' = "walk"
              /\ \E m \in 0..(QSize - 1) :
                    /\ Front(Append(t, m)) = t
                    /\ Standing(desc, QSize, head, Append(t, m), visited', curr', seenWritable')
    BY <1>0, <2>1, <2>2, <2>3, <2>4, Taken
  <2>6. Handed(readable', writable', Buffers("ring", desc, t))
    <3>1. Buffers("ring", desc, t) \in Seq(Piece)
      <4>1. Standing(desc, QSize, head, t, visited, curr, seenWritable)
                => Trail(desc, QSize, head, t)
        BY DEF Standing
      <4>2. /\ Buffers("ring", desc, Front(t)) \in Seq(Piece)
            /\ Buffers("ring", desc, t) = Append(Buffers("ring", desc, Front(t)),
                                                 <<"ring", Last(t), desc[Last(t)].write>>)
            /\ <<"ring", Last(t), desc[Last(t)].write>> \in Piece
        BY <1>0, <2>1, <2>5, <4>1, BuffersPushed
      <4> DEFINE b == Buffers("ring", desc, Front(t))
                 x == <<"ring", Last(t), desc[Last(t)].write>>
      <4>3. b \in Seq(Piece) /\ x \in Piece /\ Buffers("ring", desc, t) = Append(b, x)
        BY <4>2
      <4> HIDE DEF b, x
      <4> QED BY <4>3, AppendProperties
    <3> QED BY <2>2, <2>3, <2>5, <3>1
  <2>7. CASE status' = "ok"
    <3>1. Buffers("ring", desc, t) \in SortedChains
      BY <2>5, <2>7 DEF SortedChains, SortedRing, EndsHere
    <3> QED BY <1>2, <2>6, <2>7, <3>1
  <2>8. CASE status' = "walk"
    <3>1. PICK m \in 0..(QSize - 1) :
              /\ Front(Append(t, m)) = t
              /\ Standing(desc, QSize, head, Append(t, m), visited', curr', seenWritable')
      BY <2>5, <2>8
    <3>2. /\ Standing(desc', QSize, head', Append(t, m), visited', curr', seenWritable')
          /\ Handed(readable', writable', Buffers("ring", desc', Front(Append(t, m))))
          /\ level' = "ring"
      BY <1>0, <2>2, <2>6, <3>1
    <3>3. OnRing'
      BY <3>2 DEF OnRing
    <3> QED BY <2>8, <3>3 DEF PathInv, SortedExact
  <2> QED BY <1>1, <2>5, <2>7, <2>8
<1>4. CASE InTable
  <2>0. PICK p \in SortedToTable : \E t :
                 /\ Standing(table, TableLen, 0, t, visited, curr, seenWritable)
                 /\ Handed(readable, writable,
                        Buffers("ring", desc, Front(p)) \o Buffers("table", table, Front(t)))
    BY <1>4 DEF InTable
  <2>1. PICK t : /\ Standing(table, TableLen, 0, t, visited, curr, seenWritable)
                 /\ Handed(readable, writable,
                        Buffers("ring", desc, Front(p)) \o Buffers("table", table, Front(t)))
    BY <2>0
  <2>2. level = "table" /\ Count = TableLen /\ Entry = table[curr]
    BY <1>4 DEF InTable, Count, Entry
  <2> DEFINE c == Buffers("ring", desc, Front(p))
  <2>3. c \in Seq(Piece)
    BY <1>0, PathTrail, BuffersPushed DEF SortedToTable
  <2>4. /\ t \in Paths(table, TableLen, 0) /\ Sorted(table, t) /\ table[Last(t)].kind = "buffer"
        /\ Handed(readable', writable', c \o Buffers("table", table, t))
        /\ \/ status' = "ok" /\ table[Last(t)].next = None
           \/ status' \notin {"walk", "ok"} /\ Entry.next \notin (0..(Count - 1)) \cup {None}
           \/ /\ status' = "walk"
              /\ \E m \in 0..(TableLen - 1) :
                    /\ Front(Append(t, m)) = t
                    /\ Standing(table, TableLen, 0, Append(t, m), visited', curr', seenWritable')
    <3> HIDE DEF c
    <3>1. Handed(readable, writable, c \o Buffers(level, table, Front(t)))
      BY <2>1, <2>2 DEF c
    <3> QED BY <1>0, <2>1, <2>2, <2>3, <3>1, Taken
  <2>5. CASE status' = "ok"
    <3>1. c \o Buffers("table", table, t) \in SortedChains
      BY <2>4, <2>5 DEF SortedChains, SortedTable, EndsHere
    <3> HIDE DEF c
    <3> QED BY <1>2, <2>4, <2>5, <3>1
  <2>6. CASE status' = "walk"
    <3>1. PICK m \in 0..(TableLen - 1) :
              /\ Front(Append(t, m)) = t
              /\ Standing(table, TableLen, 0, Append(t, m), visited', curr', seenWritable')
      BY <2>4, <2>6
    <3>2. /\ Standing(table', TableLen, 0, Append(t, m), visited', curr', seenWritable')
          /\ Handed(readable', writable',
                Buffers("ring", desc', Front(p)) \o Buffers("table", table', Front(Append(t, m))))
          /\ level' = "table" /\ p \in SortedToTable'
      BY <1>0, <2>2, <2>4, <3>1, SameMemory
    <3>3. InTable'
      BY <3>2 DEF InTable
    <3> QED BY <2>6, <3>3 DEF PathInv, SortedExact
  <2> QED BY <1>1, <2>4, <2>5, <2>6
<1> QED BY <1>3, <1>4

(* The walk turns into the table: the trail that led there is a path to it. *)
LEMMA EnterStep ==
    ASSUME WalkInv, OnRing \/ InTable, EnterTable
    PROVE  PathInv'
<1>0. /\ QSize \in Nat \ {0} /\ TableLen \in Nat \ {0}
      /\ Described(desc, QSize) /\ Described(table, TableLen)
  BY Tables
<1>1. /\ status = "walk" /\ Fault = "none" /\ Entry.kind = "indirect"
      /\ level' = "table" /\ curr' = 0 /\ visited' = {} /\ seenWritable' = FALSE
      /\ UNCHANGED <<memory, readable, writable, status>>
      /\ UNCHANGED <<desc, table, head>>
  BY DEF EnterTable, memory
<1>2. level # "table"
  <2>1. \A e \in TableDesc : e.kind # "indirect"
    BY DEF TableDesc, Buffer
  <2> QED BY <1>1, <2>1, Entries
<1>3. OnRing
  BY <1>2 DEF InTable
<1>4. PICK p : /\ Standing(desc, QSize, head, p, visited, curr, seenWritable)
               /\ Handed(readable, writable, Buffers("ring", desc, Front(p)))
  BY <1>3 DEF OnRing
<1>5. Entry = desc[curr] /\ curr \notin visited
  BY <1>1, <1>3, Faults DEF OnRing, Entry
<1>6. p \in SortedToTable
  <2>1. /\ Trail(desc, QSize, head, p) /\ Last(p) \notin Earlier(p)
        /\ desc[Last(p)].kind = "indirect"
    BY <1>1, <1>4, <1>5 DEF Standing
  <2>2. p \in Paths(desc, QSize, head) /\ Sorted(desc, p)
    BY <1>0, <2>1, Arrived
  <2> QED BY <2>1, <2>2 DEF SortedToTable, EndsThere
<1>7. p \in SortedToTable'
  BY <1>1, <1>6, SameMemory
<1> DEFINE t == <<0>>
           a == Buffers("ring", desc, Front(p))
<1>8. /\ Trail(table, TableLen, 0, t) /\ Last(t) = 0 /\ Earlier(t) = {} /\ ~Wrote(table, t)
      /\ Buffers("table", table, Front(t)) = <<>>
  <2>1. 0 \in 0..(TableLen - 1)
    BY <1>0
  <2> QED BY <1>0, <2>1, Single
<1>9. a \in Seq(Piece) /\ a \o <<>> = a
  <2>1. a \in Seq(Piece)
    BY <1>4 DEF Handed
  <2> HIDE DEF a
  <2> QED BY <2>1, ConcatEmptySeq
<1> HIDE DEF t
<1>10. Standing(table', TableLen, 0, t, visited', curr', seenWritable')
  BY <1>1, <1>8 DEF Standing
<1>11. Handed(readable', writable',
              Buffers("ring", desc', Front(p)) \o Buffers("table", table', Front(t)))
  <2>1. Buffers("ring", desc', Front(p)) \o Buffers("table", table', Front(t)) = a
    BY <1>1, <1>8, <1>9
  <2> QED BY <1>1, <1>4, <2>1
<1>12. InTable'
  BY <1>1, <1>7, <1>10, <1>11 DEF InTable
<1> QED BY <1>1, <1>12 DEF PathInv, SortedExact

(* One step of the walk, action by action.                                  *)
LEMMA PathStep ==
    ASSUME WalkInv, PathInv, [Next]_vars
    PROVE  PathInv'
<1>1. status = "walk" => OnRing \/ InTable
  BY DEF PathInv
<1>2. CASE Reject
  <2>1. status = "walk" /\ Fault # "none" /\ status' = Fault /\ UNCHANGED memory
    BY <1>2 DEF Reject, Fail
  <2>2. Fault \in Errors /\ ~(curr \notin visited /\ Entry.kind \in {"buffer", "indirect"})
    BY <2>1, Faults
  <2> HIDE DEF Fault
  <2>3. status' \notin {"walk", "ok"}
    BY <2>1, <2>2 DEF Errors
  <2> QED BY <1>1, <2>1, <2>2, <2>3, GivesUp
<1>3. CASE EnterTable
  <2>1. status = "walk"
    BY <1>3 DEF EnterTable
  <2> QED BY <1>1, <1>3, <2>1, EnterStep
<1>4. CASE RejectOrder
  <2>1. /\ status = "walk" /\ Entry.kind = "buffer" /\ ~Entry.write /\ seenWritable
        /\ status' = "MALFORMED_DESCRIPTOR_CHAIN" /\ UNCHANGED memory
    BY <1>4 DEF RejectOrder, OutOfOrder, Fail
  <2>2. status' \notin {"walk", "ok"}
    BY <2>1
  <2> QED BY <1>1, <2>1, <2>2, GivesUp
<1>5. CASE TakeBuffer
  <2>1. status = "walk"
    BY <1>5 DEF TakeBuffer
  <2> QED BY <1>1, <1>5, <2>1, TakeStep
<1>6. CASE UNCHANGED vars
  <2>1. /\ UNCHANGED memory /\ UNCHANGED <<desc, table, head>>
        /\ UNCHANGED <<level, curr, visited, seenWritable, readable, writable, status>>
    BY <1>6 DEF vars, memory, walk
  <2>2. SortedChains' = SortedChains /\ SortedToTable' = SortedToTable
    BY <2>1, SameMemory
  <2>3. OnRing => OnRing'
    BY <2>1 DEF OnRing
  <2>4. InTable => InTable'
    BY <2>1, <2>2 DEF InTable
  <2>5. SortedExact => SortedExact'
    BY <2>1, <2>2 DEF SortedExact
  <2> QED BY <2>1, <2>3, <2>4, <2>5 DEF PathInv
<1> QED BY <1>2, <1>3, <1>4, <1>5, <1>6 DEF Next

(* The buffers of a path, place by place.                                   *)
LEMMA Places ==
    ASSUME NEW l, NEW d, NEW p
    PROVE  /\ DOMAIN Buffers(l, d, p) = 1..Len(p)
           /\ \A i \in 1..Len(p) : /\ Buffers(l, d, p)[i][1] = l
                                    /\ Buffers(l, d, p)[i][3] = d[p[i]].write
BY DEF Buffers

(* A path all of buffers is sorted if no read of it is behind a write.      *)
LEMMA SortedPlaces ==
    ASSUME NEW l, NEW d, NEW n \in Nat \ {0}, NEW first, NEW p \in Paths(d, n, first),
           EndsHere(d[Last(p)])
    PROVE  Sorted(d, p) <=> \A i, j \in 1..Len(p) : ~Misplaced(Buffers(l, d, p), i, j)
<1>1. \A i \in 1..Len(p) : d[p[i]].kind = "buffer"
  <2> SUFFICES ASSUME NEW i \in 1..Len(p) PROVE d[p[i]].kind = "buffer"
    OBVIOUS
  <2>1. /\ p \in Seq(0..(n - 1)) /\ p # <<>> /\ Len(p) \in 1..n
        /\ \A k \in 1..(Len(p) - 1) : d[p[k]].kind = "buffer"
    BY PathForm
  <2>2. Last(p) = p[Len(p)]
    BY <2>1, LastOf
  <2>3. i \in 1..(Len(p) - 1) \/ i = Len(p)
    BY <2>1
  <2> QED BY <2>1, <2>2, <2>3 DEF EndsHere
<1> QED BY <1>1, Places DEF Sorted, Misplaced

(* And one that ends at an indirect descriptor, which is no buffer, if no   *)
(* read before that is.                                                     *)
LEMMA SortedFront ==
    ASSUME NEW l, NEW d, NEW n \in Nat \ {0}, NEW first, NEW p \in Paths(d, n, first),
           EndsThere(d[Last(p)])
    PROVE  /\ Len(Front(p)) \in Nat
           /\ Sorted(d, p) <=> \A i, j \in 1..Len(Front(p)) :
                                   ~Misplaced(Buffers(l, d, Front(p)), i, j)
<1>1. /\ p \in Seq(0..(n - 1)) /\ p # <<>> /\ Len(p) \in 1..n /\ Last(p) = p[Len(p)]
      /\ \A k \in 1..(Len(p) - 1) : d[p[k]].kind = "buffer"
  BY PathForm, LastOf
<1>2. /\ Len(Front(p)) = Len(p) - 1 /\ Len(p) - 1 \in Nat
      /\ \A i \in 1..(Len(p) - 1) : Front(p)[i] = p[i]
  <2>1. \A i \in 1..(Len(p) - 1) : p[i] \in 0..(n - 1)
    BY <1>1, LastOf
  <2>2. Len(p) - 1 \in Nat
    BY <1>1
  <2>3. /\ Len(Front(p)) = IF 1 <= Len(p) - 1 THEN Len(p) - 1 - 1 + 1 ELSE 0
        /\ \A i \in 1..(Len(p) - 1 - 1 + 1) : Front(p)[i] = p[1 + i - 1]
    BY <2>1, <2>2, SubSeqProperties DEF Front
  <2>4. \A i \in 1..(Len(p) - 1) : i \in 1..(Len(p) - 1 - 1 + 1) /\ 1 + i - 1 = i
    BY <1>1
  <2> DEFINE N == Len(p) - 1
  <2>5. Len(Front(p)) = N
    <3>1. N \in Nat /\ Len(Front(p)) = IF 1 <= N THEN N - 1 + 1 ELSE 0
      BY <2>2, <2>3
    <3> HIDE DEF N
    <3> QED BY <3>1
  <2>6. \A i \in 1..(Len(p) - 1) : Front(p)[i] = p[i]
    BY <2>3, <2>4
  <2> QED BY <2>2, <2>5, <2>6
<1>3. \A i \in 1..Len(p) : d[p[i]].kind = "buffer" => i \in 1..(Len(p) - 1)
  <2>1. d[p[Len(p)]].kind # "buffer"
    BY <1>1 DEF EndsThere
  <2>2. \A i \in 1..Len(p) : i \in 1..(Len(p) - 1) \/ i = Len(p)
    BY <1>1
  <2> QED BY <2>1, <2>2
<1>4. \A i \in 1..(Len(p) - 1) : i \in 1..Len(p)
  BY <1>1
<1> DEFINE b == Buffers(l, d, Front(p))
<1>5. \A i \in 1..(Len(p) - 1) : b[i][3] = d[p[i]].write
  BY <1>2, Places
<1> HIDE DEF b
<1>6. Sorted(d, p) <=> \A i, j \in 1..(Len(p) - 1) : ~Misplaced(b, i, j)
  BY <1>1, <1>3, <1>4, <1>5 DEF Sorted, Misplaced
<1> QED BY <1>2, <1>6 DEF b

(* What the walk does table by table is what it should do with the chain.   *)
LEMMA SortedMeansExact ==
    ASSUME SortedExact
    PROVE  ParserExact
<1>0. QSize \in Nat \ {0} /\ TableLen \in Nat \ {0}
  BY QSizeAssumption, TableLenAssumption
<1>1. ASSUME NEW p \in RingPaths
      PROVE  p \in SortedRing <=> WellFormed(Buffers("ring", desc, p))
  <2>1. p \in Paths(desc, QSize, head) /\ EndsHere(desc[Last(p)])
    BY DEF RingPaths
  <2>2. Sorted(desc, p) <=> \A i, j \in 1..Len(p) : ~Misplaced(Buffers("ring", desc, p), i, j)
    BY <1>0, <2>1, SortedPlaces
  <2>3. Len(p) \in Nat
    BY <1>0, <2>1, PathForm
  <2>4. Len(Buffers("ring", desc, p)) = Len(p)
    BY <2>3 DEF Buffers
  <2> QED BY <2>1, <2>2, <2>4 DEF SortedRing, WellFormed
<1>2. ASSUME NEW p \in ToTable, NEW q \in TablePaths
      PROVE  LET c == Buffers("ring", desc, Front(p)) \o Buffers("table", table, q) IN
             /\ WellFormed(c) => p \in SortedToTable /\ q \in SortedTable
             /\ p \in SortedToTable /\ q \in SortedTable => OnlyAcross(c)
  <2> DEFINE a == Buffers("ring", desc, Front(p))
             b == Buffers("table", table, q)
             c == a \o b
             m == Len(Front(p))
             n == Len(q)
  <2>1. /\ p \in Paths(desc, QSize, head) /\ EndsThere(desc[Last(p)])
        /\ q \in Paths(table, TableLen, 0) /\ EndsHere(table[Last(q)])
    BY DEF ToTable, TablePaths
  <2>2. /\ m \in Nat /\ n \in Nat
        /\ Sorted(desc, p) <=> \A i, j \in 1..m : ~Misplaced(a, i, j)
        /\ Sorted(table, q) <=> \A i, j \in 1..n : ~Misplaced(b, i, j)
    <3>1. m \in Nat /\ (Sorted(desc, p) <=> \A i, j \in 1..m : ~Misplaced(a, i, j))
      BY <1>0, <2>1, SortedFront
    <3>2. n \in Nat
      BY <1>0, <2>1, PathForm
    <3>3. Sorted(table, q) <=> \A i, j \in 1..n : ~Misplaced(b, i, j)
      BY <1>0, <2>1, SortedPlaces
    <3> QED BY <3>1, <3>2, <3>3
  <2>3. /\ DOMAIN a = 1..m /\ Len(a) = m /\ \A i \in 1..m : a[i][1] = "ring"
        /\ DOMAIN b = 1..n /\ Len(b) = n /\ \A i \in 1..n : b[i][1] = "table"
    BY <2>2 DEF Buffers
  <2> HIDE DEF a, b, m, n
  <2>4. /\ Len(c) = m + n
        /\ \A i \in 1..m : i \in 1..(m + n) /\ c[i] = a[i]
        /\ \A i \in 1..n : i + m \in 1..(m + n) /\ c[i + m] = b[i]
        /\ \A i \in 1..(m + n) : i \in 1..m \/ (i - m \in 1..n /\ (i - m) + m = i)
    <3>1. /\ m \in Nat /\ n \in Nat
          /\ DOMAIN a = 1..m /\ Len(a) = m /\ DOMAIN b = 1..n /\ Len(b) = n
      BY <2>2, <2>3
    <3> QED BY <3>1
  <2> HIDE DEF c
  <2>5. /\ \A i, j \in 1..m : Misplaced(a, i, j) <=> Misplaced(c, i, j)
        /\ \A i, j \in 1..n : Misplaced(b, i, j) <=> Misplaced(c, i + m, j + m)
    BY <2>2, <2>4 DEF Misplaced
  <2>6. WellFormed(c) => p \in SortedToTable /\ q \in SortedTable
    BY <2>1, <2>2, <2>4, <2>5 DEF WellFormed, SortedToTable, SortedTable
  <2>7. ASSUME p \in SortedToTable, q \in SortedTable PROVE OnlyAcross(c)
    <3>1. /\ \A i, j \in 1..m : ~Misplaced(c, i, j)
          /\ \A i, j \in 1..n : ~Misplaced(c, i + m, j + m)
      BY <2>2, <2>5, <2>7 DEF SortedToTable, SortedTable
    <3> SUFFICES ASSUME NEW i \in 1..(m + n), NEW j \in 1..(m + n), Misplaced(c, i, j)
                 PROVE  c[i][1] = "ring" /\ c[j][1] = "table"
      BY <2>4 DEF OnlyAcross
    <3>2. i < j
      BY DEF Misplaced
    <3>3. i \in 1..m
      <4> SUFFICES ASSUME i \notin 1..m PROVE FALSE
        OBVIOUS
      <4>1. i - m \in 1..n /\ (i - m) + m = i
        BY <2>4
      <4>2. j \notin 1..m
        BY <2>2, <3>2, <4>1
      <4>3. j - m \in 1..n /\ (j - m) + m = j
        BY <2>4, <4>2
      <4>4. ~Misplaced(c, (i - m) + m, (j - m) + m)
        BY <3>1, <4>1, <4>3
      <4> QED BY <4>1, <4>3, <4>4
    <3>4. j \notin 1..m
      BY <3>1, <3>3
    <3>5. j - m \in 1..n /\ (j - m) + m = j
      BY <2>4, <3>4
    <3>6. c[i] = a[i] /\ c[(j - m) + m] = b[j - m]
      BY <2>4, <3>3, <3>5
    <3> QED BY <2>3, <3>3, <3>5, <3>6
  <2> QED BY <2>6, <2>7 DEF a, b, c
<1>3. ASSUME NEW c \in SortedChains PROVE c \in Chains /\ (WellFormed(c) \/ OnlyAcross(c))
  <2>1. CASE \E p \in SortedRing : c = Buffers("ring", desc, p)
    <3>1. PICK p \in SortedRing : c = Buffers("ring", desc, p)
      BY <2>1
    <3>2. p \in RingPaths
      BY DEF SortedRing, RingPaths
    <3> QED BY <1>1, <3>1, <3>2 DEF Chains
  <2>2. CASE \E p \in SortedToTable : \E q \in SortedTable :
                 c = Buffers("ring", desc, Front(p)) \o Buffers("table", table, q)
    <3>1. PICK p \in SortedToTable : \E q \in SortedTable :
                 c = Buffers("ring", desc, Front(p)) \o Buffers("table", table, q)
      BY <2>2
    <3>2. PICK q \in SortedTable :
                 c = Buffers("ring", desc, Front(p)) \o Buffers("table", table, q)
      BY <3>1
    <3>3. p \in ToTable /\ q \in TablePaths
      BY DEF SortedToTable, ToTable, SortedTable, TablePaths
    <3>4. c \in Chains
      BY <3>2, <3>3 DEF Chains
    <3>5. OnlyAcross(c)
      BY <1>2, <3>2, <3>3
    <3> QED BY <3>4, <3>5
  <2> QED BY <2>1, <2>2 DEF SortedChains
<1>4. ASSUME NEW c \in Chains, WellFormed(c) PROVE c \in SortedChains
  <2>1. CASE \E p \in RingPaths : c = Buffers("ring", desc, p)
    BY <1>1, <1>4, <2>1 DEF SortedChains
  <2>2. CASE \E p \in ToTable : \E q \in TablePaths :
                 c = Buffers("ring", desc, Front(p)) \o Buffers("table", table, q)
    <3>1. PICK p \in ToTable : \E q \in TablePaths :
                 c = Buffers("ring", desc, Front(p)) \o Buffers("table", table, q)
      BY <2>2
    <3>2. PICK q \in TablePaths :
                 c = Buffers("ring", desc, Front(p)) \o Buffers("table", table, q)
      BY <3>1
    <3>3. p \in SortedToTable /\ q \in SortedTable
      BY <1>2, <1>4, <3>2
    <3> QED BY <3>2, <3>3 DEF SortedChains
  <2> QED BY <2>1, <2>2 DEF Chains
<1> QED BY <1>3, <1>4 DEF SortedExact, ParserExact

(* For every table and every head the walk hands out exactly the buffers of *)
(* a chain and refuses no well-formed one, and the only others it accepts   *)
(* have a table's reads behind the ring's writes (virtqueue.js:135-304).    *)
THEOREM ParserExactCorrect == Spec => []ParserExact
<1>1. Init => WalkInv /\ PathInv
  BY WalkInit, PathInit
<1>2. WalkInv /\ PathInv /\ [Next]_vars => WalkInv' /\ PathInv'
  BY WalkStep, PathStep
<1>3. PathInv => ParserExact
  BY SortedMeansExact DEF PathInv
<1> QED BY <1>1, <1>2, <1>3, PTL DEF Spec

-----------------------------------------------------------------------------
(* Direct boot.                                                             *)

(* Half of the 32-bit numbers, which the solver does better without seeing. *)
LEMMA HalfWordNat == HalfWord \in Nat
  BY SMT DEF HalfWord

(* An unsigned 32-bit number is a natural number.                          *)
LEMMA UnsignedNat ==
    ASSUME NEW x
    PROVE  x \in Unsigned32 <=> x \in Nat /\ x < HalfWord + HalfWord
  BY SMT, HalfWordNat DEF Unsigned32

(* Sizes are numbers: what the setup part and the payload come to.          *)
LEMMA Sizes ==
    ASSUME NEW b \in Boot, HeaderAccepted(b)
    PROVE  /\ SetupHeader(b).start = BootParamsAddr + HeaderOffset
           /\ SetupHeader(b).end \in Nat /\ SetupHeader(b).end > SetupHeader(b).start
           /\ Kernel(b).start \in Nat /\ Kernel(b).end \in Nat
           /\ Kernel(b).start <= Kernel(b).end
           /\ InitrdAddrMax(b) \in Unsigned32
  <1>1. /\ b.kernelSize \in Nat /\ b.kernelSize >= 592
        /\ b.setupSects \in 0..255 /\ b.code32Start \in Nat
        /\ b.initrdMax \in Unsigned32
    BY SMT, UnsignedNat DEF Boot, HeaderAccepted
  <1>2. Code32Start(b) \in Nat
    BY SMT, <1>1 DEF Code32Start, Code32StartAddr
  <1>3. SetupSize(b) \in Nat /\ SetupSize(b) >= 1024
    BY SMT, <1>1 DEF SetupSize
  <1>4. InitrdAddrMax(b) \in Unsigned32
    BY SMT, <1>1, UnsignedNat DEF InitrdAddrMax, HalfWord
  <1>5. /\ SetupHeader(b).start = BootParamsAddr + HeaderOffset
        /\ SetupHeader(b).end \in Nat /\ SetupHeader(b).end > SetupHeader(b).start
    BY SMT, <1>1, <1>3 DEF SetupHeader, Region, Least, BootParamsAddr, HeaderOffset
  <1>6. /\ Kernel(b).start \in Nat /\ Kernel(b).end \in Nat
        /\ Kernel(b).start <= Kernel(b).end
    BY SMT, <1>1, <1>2, <1>3 DEF Kernel, Region, Most
  <1> QED BY <1>4, <1>5, <1>6

(* A page-aligned address is found below, unless the sign bit gets in the   *)
(* way.                                                                    *)
LEMMA PageDownBounds ==
    ASSUME NEW x \in Unsigned32
    PROVE  /\ PageDown(x) \in Int
           /\ PageDown(x) >= 0 => x < HalfWord /\ PageDown(x) <= x /\ PageDown(x) % Page = 0
  <1>1. x \in Nat /\ x < HalfWord + HalfWord
    BY UnsignedNat
  <1>2. x % Page \in Nat /\ x % Page <= x /\ (x - (x % Page)) % Page = 0
    BY SMT, <1>1 DEF Page
  <1>3. CASE x < HalfWord
    BY SMT, <1>1, <1>2, <1>3 DEF PageDown
  <1>4. CASE x >= HalfWord
    <2>1. PageDown(x) = x - (x % Page) - HalfWord - HalfWord
      BY SMT, <1>1, <1>4, HalfWordNat DEF PageDown
    <2> QED BY SMT, <1>1, <1>2, <2>1, HalfWordNat
  <1> QED BY SMT, <1>1, <1>3, <1>4, HalfWordNat

(* An initrd that is accepted starts on a page, behind the kernel, and ends *)
(* in memory, no higher than the header allows (boot_manager.js:152-174).   *)
THEOREM InitrdPlaced ==
    ASSUME NEW b \in Boot, Accepted(b), b.hasInitrd
    PROVE  /\ InitrdStart(b) % Page = 0 /\ Initrd(b).start \in Nat
           /\ Kernel(b).end <= Initrd(b).start
           /\ Initrd(b).end <= InitrdAddrMax(b)
           /\ Within(Initrd(b), Ram(b))
  <1> DEFINE x == UpperLimit(b) - b.initrdSize
  <1>1. HeaderAccepted(b) /\ b.initrdSize <= UpperLimit(b) /\ InitrdStart(b) >= Kernel(b).end
    BY SMT DEF Accepted
  <1>2. b.ramSize \in Nat /\ b.initrdSize \in Nat
    BY SMT DEF Boot
  <1>3. /\ Kernel(b).start \in Nat /\ Kernel(b).end \in Nat
        /\ Kernel(b).start <= Kernel(b).end /\ InitrdAddrMax(b) \in Unsigned32
    BY <1>1, Sizes
  <1>4. /\ UpperLimit(b) \in Nat
        /\ UpperLimit(b) <= InitrdAddrMax(b) /\ UpperLimit(b) <= b.ramSize
    BY SMT, <1>2, <1>3, UnsignedNat DEF UpperLimit, Least
  <1>5. x \in Unsigned32
    BY SMT, <1>1, <1>2, <1>3, <1>4, UnsignedNat, HalfWordNat
  <1>6. /\ PageDown(x) \in Int
        /\ PageDown(x) >= 0 => PageDown(x) <= x /\ PageDown(x) % Page = 0
    BY <1>5, PageDownBounds
  <1>7. InitrdStart(b) = PageDown(x)
    BY DEF InitrdStart
  <1>8. PageDown(x) >= Kernel(b).end /\ PageDown(x) >= 0
    BY SMT, <1>1, <1>3, <1>6, <1>7
  <1>9. PageDown(x) + b.initrdSize <= UpperLimit(b)
    <2>1. PageDown(x) <= UpperLimit(b) - b.initrdSize
      BY <1>6, <1>8
    <2> HIDE DEF x
    <2> QED BY SMT, <1>2, <1>4, <1>6, <2>1
  <1>10. /\ Initrd(b).start = PageDown(x)
         /\ Initrd(b).end = PageDown(x) + b.initrdSize
    BY <1>7 DEF Initrd, Region
  <1>11. Ram(b).start = 0 /\ Ram(b).end = b.ramSize
    BY SMT, <1>2 DEF Ram, Region
  <1>12. InitrdAddrMax(b) \in Nat
    BY <1>3, UnsignedNat
  <1> HIDE DEF x
  <1> QED
    BY SMT, <1>2, <1>3, <1>4, <1>6, <1>7, <1>8, <1>9, <1>10, <1>11, <1>12 DEF Within

(* What setupLinuxBoot accepts may overlap in no more ways than these, for  *)
(* it compares nothing but initrd and kernel: a command line of more than   *)
(* 458752 bytes reaches boot_params, and only a kernel that the header      *)
(* loads below 0xB0000 can meet boot_params or the header copied into it,   *)
(* or bring the initrd there.  From 1 MB on kernel and initrd both lie in   *)
(* the part the memory map calls usable (boot_manager.js:85-224).           *)
THEOREM OverlapsNamed ==
    ASSUME NEW b \in Boot, Accepted(b)
    PROVE  /\ Disjoint(Cmdline(b), BootParams)
                 <=> b.cmdlineSize <= BootParamsAddr - CmdlineAddr
           /\ b.hasInitrd => Disjoint(Kernel(b), Initrd(b))
           /\ \A r \in {BootParams, SetupHeader(b)} :
                 \/ ~Disjoint(r, Kernel(b))
                 \/ b.hasInitrd /\ ~Disjoint(r, Initrd(b))
                     => Code32Start(b) < SetupLimit
           /\ Code32Start(b) >= Code32StartAddr =>
                 /\ E820Map(b)[3].usable /\ Within(Kernel(b), E820Map(b)[3].region)
                 /\ b.hasInitrd => Within(Initrd(b), E820Map(b)[3].region)
  <1>1. HeaderAccepted(b) /\ b.ramSize \in Nat /\ b.ramSize >= MinRam /\ b.cmdlineSize \in Nat
        /\ b.cmdlineSize > 0 /\ b.setupSects \in 0..255 /\ b.kernelSize \in Nat
    BY SMT DEF Accepted, Boot
  <1>2. /\ SetupHeader(b).start = BootParamsAddr + HeaderOffset
        /\ SetupHeader(b).end \in Nat
        /\ Kernel(b).start \in Nat /\ Kernel(b).end \in Nat
        /\ Kernel(b).start <= Kernel(b).end
    BY <1>1, Sizes
  <1>3. SetupHeader(b).end <= SetupLimit
    <2>1. SetupSize(b) \in Nat /\ SetupSize(b) <= 256 * 512
      BY SMT, <1>1 DEF SetupSize
    <2> QED BY SMT, <1>1, <2>1
           DEF SetupHeader, Region, Least, SetupLimit, BootParamsAddr, HeaderOffset
  <1>4. Kernel(b).start = Code32Start(b) /\ Kernel(b).end <= b.ramSize
    BY SMT DEF Accepted, InRange, Kernel, Region
  <1>5. /\ BootParams.start = BootParamsAddr /\ BootParams.end = BootParamsAddr + Page
        /\ Cmdline(b).start = CmdlineAddr /\ Cmdline(b).end = CmdlineAddr + b.cmdlineSize
    BY SMT DEF BootParams, Cmdline, Region
  <1>6. Disjoint(Cmdline(b), BootParams) <=> b.cmdlineSize <= BootParamsAddr - CmdlineAddr
    BY SMT, <1>1, <1>5 DEF Disjoint, BootParamsAddr, CmdlineAddr, Page
  <1>7. ASSUME b.hasInitrd
        PROVE  /\ Initrd(b).start \in Nat /\ Kernel(b).end <= Initrd(b).start
               /\ Within(Initrd(b), Ram(b))
    BY <1>7, InitrdPlaced
  <1>8. b.hasInitrd => Disjoint(Kernel(b), Initrd(b))
    BY <1>7 DEF Disjoint
  <1>9. ASSUME NEW r \in {BootParams, SetupHeader(b)}, ~(Code32Start(b) < SetupLimit)
        PROVE  Disjoint(r, Kernel(b)) /\ (b.hasInitrd => Disjoint(r, Initrd(b)))
    <2>1. r.end \in Nat /\ r.end <= SetupLimit
      BY SMT, <1>2, <1>3, <1>5 DEF SetupLimit, BootParamsAddr, Page
    <2>2. SetupLimit \in Nat
      BY SMT DEF SetupLimit, BootParamsAddr
    <2>3. r.end <= Kernel(b).start
      BY SMT, <1>2, <1>4, <1>9, <2>1, <2>2
    <2>4. b.hasInitrd => r.end <= Initrd(b).start
      BY SMT, <1>2, <1>7, <2>1, <2>3
    <2> QED BY <2>3, <2>4 DEF Disjoint
  <1>10. ASSUME Code32Start(b) >= Code32StartAddr
         PROVE  /\ E820Map(b)[3].usable /\ Within(Kernel(b), E820Map(b)[3].region)
                /\ b.hasInitrd => Within(Initrd(b), E820Map(b)[3].region)
    <2>1. /\ E820Map(b)[3] = [region |-> Region(Code32StartAddr, b.ramSize - Code32StartAddr),
                              usable |-> TRUE]
      BY SMT DEF E820Map
    <2>2. /\ E820Map(b)[3].usable /\ E820Map(b)[3].region.start = Code32StartAddr
          /\ E820Map(b)[3].region.end = b.ramSize
      BY SMT, <1>1, <2>1 DEF Region, Code32StartAddr
    <2>3. Within(Kernel(b), E820Map(b)[3].region)
      BY SMT, <1>4, <1>10, <2>2 DEF Within
    <2>4. b.hasInitrd => Within(Initrd(b), E820Map(b)[3].region)
      <3> SUFFICES ASSUME b.hasInitrd PROVE Within(Initrd(b), E820Map(b)[3].region)
        OBVIOUS
      <3> QED BY SMT, <1>1, <1>2, <1>4, <1>7, <1>10, <2>2
             DEF Within, Ram, Region, Code32StartAddr
    <2> QED BY <2>2, <2>3, <2>4
  <1> QED BY <1>6, <1>8, <1>9, <1>10

=============================================================================
