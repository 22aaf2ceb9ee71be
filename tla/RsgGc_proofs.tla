---------------------------- MODULE RsgGc_proofs ----------------------------
(***************************************************************************)
(* Proofs about the collector: its search and insertion in the sorted      *)
(* array, an inductive invariant over the phases of a collection, and from *)
(* it the properties of RsgGc, the refinement of GcHeap, and how a         *)
(* collection ends and with what.                                          *)
(***************************************************************************)
EXTENDS RsgGc, FiniteSetTheorems, SequenceTheorems, WellFoundedInduction, TLAPS

HP == INSTANCE GcHeap_proofs WITH registered <- Registrations

-----------------------------------------------------------------------------
(* The inductive invariant.                                                *)

\* The entries of objects that count: in a sweep, those kept so far and
\* those not looked at yet; between them lie stale entries.
Live == IF pc = "sweep" THEN (1 .. write) \cup (read .. count) ELSE 1 .. count

Index ==
  /\ blocks = {objects[i] : i \in Live}
  /\ \A i, j \in Live : i < j => objects[i] < objects[j]

Cursors == pc = "sweep" => write < read /\ read <= count + 1

Kept == {objects[i] : i \in 1 .. write}
Unswept == {objects[i] : i \in read .. count}

\* A word the mark phase has dealt with, or will: the block it lies in is
\* marked.
Handled(v) == v \in scan \/ \A b \in blocks : Heap!Within(b, v) => b \in marked

\* The tricolour invariant: what has been scanned points to marked blocks.
MarkPhase ==
  /\ marked \subseteq Reachable
  /\ Elems(worklist) \subseteq marked
  /\ \A v \in scan : \A b \in blocks : Heap!Within(b, v) => b \in Reachable
  /\ \A v \in Heap!RootWords : Handled(v)
  /\ \A p \in marked \ Elems(worklist) : \A v \in Heap!Contents(p) : Handled(v)

\* What is kept and what is still marked make up a closed set.
SweepPhase ==
  /\ marked \subseteq Unswept
  /\ Heap!ClosedSet(Kept \cup marked)

Marks ==
  /\ pc \in {"run", "malloc", "aborted"} => marked = {}
  /\ pc = "mark" => MarkPhase
  /\ pc = "sweep" => SweepPhase

Pending == pc = "malloc" => request \in SIZES /\ count < threshold

Inv == TypeOK /\ HP!Layout /\ Index /\ Cursors /\ Marks /\ Pending

-----------------------------------------------------------------------------
(* Facts about numbers and the array.                                      *)

\* A non-empty set of naturals has a least element.
LEMMA Least ==
  ASSUME NEW T, T \subseteq Nat, T # {}
  PROVE  \E x \in T : \A y \in T : x <= y
<1>1. PICK x \in T : \A y \in T : ~ (<<y, x>> \in OpToRel(<, Nat))
  BY WFMin, NatLessThanWellFounded
<1>2. \A y \in T : ~ (y < x)
  BY <1>1 DEF OpToRel
<1> QED BY <1>2

\* In a sequence that ascends, the binary search for the first entry above v
\* has an answer.
LEMMA SplitAbove ==
  ASSUME NEW s \in Seq(Nat), NEW v \in Int,
         \A i, j \in 1 .. Len(s) : i < j => s[i] < s[j]
  PROVE  \E low \in 0 .. Len(s) :
           /\ \A i \in 1 .. low : s[i] <= v
           /\ \A i \in (low + 1) .. Len(s) : s[i] > v
<1>. DEFINE T == {low \in 0 .. Len(s) : \A i \in (low + 1) .. Len(s) : s[i] > v}
<1>1. Len(s) \in T /\ T \subseteq Nat /\ Len(s) \in Nat
  OBVIOUS
<1>2. \E low \in T : \A y \in T : low <= y
  <2>. HIDE DEF T
  <2> QED BY <1>1, Least
<1>3. PICK low \in 0 .. Len(s) :
        /\ \A i \in (low + 1) .. Len(s) : s[i] > v
        /\ \A y \in T : low <= y
  BY <1>2
<1>4. ASSUME NEW i \in 1 .. low PROVE s[i] <= v
  <2>1. low \in 1 .. Len(s) /\ low - 1 \in 0 .. Len(s) /\ i \in 1 .. Len(s)
    BY <1>1, <1>3
  <2>2. low - 1 \notin T
    <3>. HIDE DEF T
    <3> QED BY <1>3, <2>1
  <2>3. PICK k \in low .. Len(s) : ~ (s[k] > v)
    BY <2>1, <2>2
  <2>4. k = low
    BY <1>3, <2>1, <2>3
  <2>5. i <= low /\ s[i] \in Nat /\ s[low] \in Nat
    BY <2>1, ElementOfSeq
  <2> QED BY <2>1, <2>3, <2>4, <2>5
<1> QED BY <1>3, <1>4

\* The same for the first entry that is not below key.
LEMMA SplitAtOrAbove ==
  ASSUME NEW s \in Seq(Nat), NEW key \in Int,
         \A i, j \in 1 .. Len(s) : i < j => s[i] < s[j]
  PROVE  \E low \in 0 .. Len(s) :
           /\ \A i \in 1 .. low : s[i] < key
           /\ \A i \in (low + 1) .. Len(s) : s[i] >= key
<1>. DEFINE v == key - 1
<1>1. v \in Int
  OBVIOUS
<1>2. \E low \in 0 .. Len(s) :
        /\ \A i \in 1 .. low : s[i] <= v
        /\ \A i \in (low + 1) .. Len(s) : s[i] > v
  <2>. HIDE DEF v
  <2> QED BY <1>1, SplitAbove
<1>3. PICK low \in 0 .. Len(s) :
        /\ \A i \in 1 .. low : s[i] <= key - 1
        /\ \A i \in (low + 1) .. Len(s) : s[i] > key - 1
  BY <1>2
<1>4. \A i \in 1 .. Len(s) : s[i] \in Int
  BY ElementOfSeq
<1>5. \A i \in 1 .. low : s[i] < key
  BY <1>3, <1>4
<1>6. \A i \in (low + 1) .. Len(s) : s[i] >= key
  BY <1>3, <1>4
<1> QED BY <1>5, <1>6

\* Appending an element adds it to the elements.
LEMMA AppendElems ==
  ASSUME NEW S, NEW seq \in Seq(S), NEW e \in S
  PROVE  Append(seq, e) \in Seq(S) /\ Elems(Append(seq, e)) = Elems(seq) \cup {e}
<1>1. /\ Append(seq, e) \in Seq(S)
      /\ Len(Append(seq, e)) = Len(seq) + 1
      /\ \A i \in 1 .. Len(seq) : Append(seq, e)[i] = seq[i]
      /\ Append(seq, e)[Len(seq) + 1] = e
  BY AppendProperties
<1>2. /\ Len(seq) \in Nat /\ DOMAIN seq = 1 .. Len(seq)
      /\ DOMAIN Append(seq, e) = 1 .. (Len(seq) + 1)
  BY <1>1
<1> QED BY <1>1, <1>2 DEF Elems

\* Dropping the last element of a worklist loses that element only.
LEMMA DropLastElems ==
  ASSUME NEW S, NEW seq \in Seq(S), seq # << >>
  PROVE  LET rest == SubSeq(seq, 1, Len(seq) - 1) IN
           /\ rest \in Seq(S) /\ Len(rest) = Len(seq) - 1
           /\ Elems(seq) = Elems(rest) \cup {seq[Len(seq)]}
           /\ seq[Len(seq)] \in S
<1>. DEFINE n == Len(seq)
            rest == SubSeq(seq, 1, n - 1)
<1>1. n \in Nat \ {0} /\ DOMAIN seq = 1 .. n /\ \A i \in 1 .. n : seq[i] \in S
  BY ElementOfSeq
<1>2. /\ rest \in Seq(S) /\ Len(rest) = n - 1
      /\ \A i \in 1 .. (n - 1) : rest[i] = seq[i]
  <2>1. /\ rest \in Seq(S) /\ Len(rest) = IF 1 <= n - 1 THEN (n - 1) - 1 + 1 ELSE 0
        /\ \A i \in 1 .. ((n - 1) - 1 + 1) : rest[i] = seq[1 + i - 1]
    BY <1>1, SubSeqProperties
  <2> QED BY <1>1, <2>1
<1>3. DOMAIN rest = 1 .. (n - 1)
  BY <1>2
<1>. HIDE DEF n, rest
<1>4. Elems(seq) = Elems(rest) \cup {seq[n]}
  BY <1>1, <1>2, <1>3 DEF Elems
<1> QED BY <1>1, <1>2, <1>4 DEF n, rest

-----------------------------------------------------------------------------
(* HP sees the same heap as Heap does.                                     *)

\* The two instances define the same step and the same start.
LEMMA SameSpec ==
  /\ HP!HeapInit <=> Heap!HeapInit
  /\ [HP!HeapNext]_(HP!heapVars) <=> [Heap!HeapNext]_(Heap!heapVars)
<1>1. HP!HeapInit <=> Heap!HeapInit
  BY DEF HP!HeapInit, Heap!HeapInit, HP!Address, Heap!Address, HP!Slots, Heap!Slots,
         HP!NULL, Heap!NULL
<1>2. HP!Reachable = Heap!Reachable
  BY DEF HP!Reachable, Heap!Reachable, HP!ClosedSet, Heap!ClosedSet, HP!RootWords,
         Heap!RootWords, HP!Rooted, Heap!Rooted, HP!Contents, Heap!Contents,
         HP!Within, Heap!Within, HP!Extent, Heap!Extent
<1>3. HP!Program <=> Heap!Program
  BY DEF HP!Program, Heap!Program, HP!Move, Heap!Move, HP!Drop, Heap!Drop,
         HP!Advance, Heap!Advance, HP!Load, Heap!Load, HP!Store, Heap!Store,
         HP!Register, Heap!Register, HP!Unregister, Heap!Unregister,
         HP!Usable, Heap!Usable, HP!Rooted, Heap!Rooted, HP!Slots, Heap!Slots,
         HP!NULL, Heap!NULL, HP!Within, Heap!Within, HP!Extent, Heap!Extent
<1>4. HP!Allocate <=> Heap!Allocate
  BY DEF HP!Allocate, Heap!Allocate, HP!NewBlock, Heap!NewBlock, HP!Vacant, Heap!Vacant,
         HP!Address, Heap!Address, HP!Word, Heap!Word, HP!NULL, Heap!NULL
<1>5. HP!Reclaim <=> Heap!Reclaim
  BY <1>2 DEF HP!Reclaim, Heap!Reclaim, HP!Free, Heap!Free, HP!Address, Heap!Address,
         HP!NULL, Heap!NULL, HP!Extent, Heap!Extent
<1> QED BY <1>1, <1>3, <1>4, <1>5 DEF HP!HeapNext, Heap!HeapNext, HP!heapVars, Heap!heapVars

\* The facts about one state that the proofs below need, in Heap's names.
LEMMA HeapFacts ==
  ASSUME TypeOK, HP!Layout
  PROVE  /\ \A b \in blocks : /\ b \in Nat /\ HEADER < b /\ b \in Address
                              /\ size[b] \in Nat /\ b + size[b] - 1 <= LAST
                              /\ Heap!Extent(b) = b .. (b + size[b] - 1)
                              /\ Heap!Extent(b) \subseteq Address
         /\ \A p, q \in blocks : p < q => p + size[p] <= q - HEADER
         /\ \A v : \A p, q \in blocks : Heap!Within(p, v) /\ Heap!Within(q, v) => p = q
         /\ Heap!ClosedSet(Reachable)
         /\ Reachable \subseteq blocks
         /\ \A S \in SUBSET blocks : Heap!ClosedSet(S) => Reachable \subseteq S
<1>1. HP!HeapAssumption
  BY GcAssumption DEF HP!HeapAssumption
<1>2. \A b \in blocks : /\ b \in Nat /\ HEADER < b /\ b \in Address
                        /\ size[b] \in Nat /\ b + size[b] - 1 <= LAST
                        /\ Heap!Extent(b) = b .. (b + size[b] - 1)
  BY GcAssumption DEF TypeOK, Address, Heap!Address, HP!Layout, HP!InHeap, Heap!Extent
<1>3. \A b \in blocks : Heap!Extent(b) \subseteq Address
  BY <1>2, GcAssumption DEF Address, Heap!Address
<1>4. \A p, q \in blocks : p < q => p + size[p] <= q - HEADER
  BY DEF HP!Layout, HP!Disjoint
<1>5. \A v : \A p, q \in blocks : Heap!Within(p, v) /\ Heap!Within(q, v) => p = q
  BY <1>1, HP!OneBlock DEF Heap!Within, HP!Within, Heap!Extent, HP!Extent
<1>6. /\ Heap!ClosedSet(Reachable) /\ Reachable \subseteq blocks
      /\ \A S \in SUBSET blocks : Heap!ClosedSet(S) => Reachable \subseteq S
  BY DEF Reachable, Heap!Reachable, Heap!ClosedSet
<1> QED BY <1>2, <1>3, <1>4, <1>5, <1>6

-----------------------------------------------------------------------------
(* The search and the insertion.                                           *)

\* gc_find_object answers with the block an address lies in, if any.
LEMMA FindCorrect ==
  ASSUME TypeOK, HP!Layout, Index, pc # "sweep", NEW v \in Word
  PROVE  /\ FindObject(v) # NOTHING => FindObject(v) \in blocks /\ Heap!Within(FindObject(v), v)
         /\ FindObject(v) = NOTHING => \A b \in blocks : ~ Heap!Within(b, v)
<1>. DEFINE low == UpperBound(v)
<1>1. objects \in Seq(Nat) /\ v \in Nat /\ count = Len(objects)
  BY GcAssumption DEF TypeOK, Word, Heap!Word, Address, Heap!Address, count
<1>2. /\ blocks = {objects[i] : i \in 1 .. count}
      /\ \A i, j \in 1 .. count : i < j => objects[i] < objects[j]
  BY DEF Index, Live
<1>3. /\ low \in 0 .. count
      /\ \A i \in 1 .. low : objects[i] <= v
      /\ \A i \in (low + 1) .. count : objects[i] > v
  <2>1. v \in Int /\ \A i, j \in 1 .. Len(objects) : i < j => objects[i] < objects[j]
    BY <1>1, <1>2
  <2>2. \E l \in 0 .. Len(objects) : /\ \A i \in 1 .. l : objects[i] <= v
                                     /\ \A i \in (l + 1) .. Len(objects) : objects[i] > v
    BY <1>1, <2>1, SplitAbove
  <2> QED BY <1>1, <2>2 DEF UpperBound
<1>4. FindObject(v) = IF low # 0 /\ v < objects[low] + size[objects[low]]
                      THEN objects[low] ELSE 0
  BY DEF FindObject, NOTHING
<1>. HIDE DEF low
<1>5. \A b \in blocks : /\ b \in Nat /\ b # 0 /\ size[b] \in Nat
                        /\ Heap!Within(b, v) <=> b <= v /\ v < b + size[b]
  BY <1>1, HeapFacts, GcAssumption DEF Heap!Within
<1>6. CASE low = 0
  BY <1>1, <1>2, <1>3, <1>4, <1>5, <1>6 DEF NOTHING
<1>7. CASE low # 0
  <2>1. low \in 1 .. count /\ objects[low] \in blocks /\ objects[low] <= v
    BY <1>1, <1>2, <1>3, <1>7
  <2>2. ASSUME NEW b \in blocks, Heap!Within(b, v) PROVE b = objects[low]
    <3>1. PICK i \in 1 .. count : b = objects[i]
      BY <1>2
    <3>2. i <= low
      BY <1>1, <1>3, <1>5, <2>1, <2>2, <3>1
    <3>3. i = low
      <4>. SUFFICES ASSUME i < low PROVE FALSE
        BY <1>1, <2>1, <3>2
      <4>1. b < objects[low]
        BY <1>2, <2>1, <3>1
      <4>2. b + size[b] <= objects[low] - HEADER
        BY <2>1, <4>1, HeapFacts
      <4> QED BY <1>1, <1>5, <2>1, <2>2, <4>2, GcAssumption
    <3> QED BY <3>1, <3>3
  <2> QED BY <1>4, <1>5, <1>7, <2>1, <2>2 DEF NOTHING
<1> QED BY <1>6, <1>7

\* gc_insert_object puts a new block where it belongs.
LEMMA InsertCorrect ==
  ASSUME TypeOK, Index, pc # "sweep", NEW b \in Address, b \notin blocks
  PROVE  LET s == InsertObject(b) IN
           /\ s \in Seq(Address) /\ Len(s) = count + 1
           /\ {s[i] : i \in 1 .. (count + 1)} = blocks \cup {b}
           /\ \A i, j \in 1 .. (count + 1) : i < j => s[i] < s[j]
<1>. DEFINE low == LowerBound(b)
            s == InsertObject(b)
<1>1. objects \in Seq(Nat) /\ b \in Nat /\ count = Len(objects) /\ count \in Nat
  BY GcAssumption DEF TypeOK, Address, Heap!Address, count
<1>2. /\ blocks = {objects[i] : i \in 1 .. count}
      /\ \A i, j \in 1 .. count : i < j => objects[i] < objects[j]
  BY DEF Index, Live
<1>3. /\ low \in 0 .. count
      /\ \A i \in 1 .. low : objects[i] < b
      /\ \A i \in (low + 1) .. count : objects[i] >= b
  <2>1. b \in Int /\ \A i, j \in 1 .. Len(objects) : i < j => objects[i] < objects[j]
    BY <1>1, <1>2
  <2>2. \E l \in 0 .. Len(objects) : /\ \A i \in 1 .. l : objects[i] < b
                                     /\ \A i \in (l + 1) .. Len(objects) : objects[i] >= b
    BY <1>1, <2>1, SplitAtOrAbove
  <2> QED BY <1>1, <2>2 DEF LowerBound
<1>4. s = [i \in 1 .. (count + 1) |-> IF i <= low THEN objects[i]
                                      ELSE IF i = low + 1 THEN b
                                      ELSE objects[i - 1]]
  BY DEF InsertObject
<1>5. \A i \in 1 .. count : objects[i] \in Address /\ objects[i] \in Nat /\ objects[i] # b
  BY <1>1, <1>2 DEF TypeOK, Address, Heap!Address
<1>. HIDE DEF low, s
<1>6. /\ \A i \in 1 .. low : i \in 1 .. (count + 1) /\ s[i] = objects[i]
      /\ s[low + 1] = b
      /\ \A i \in (low + 2) .. (count + 1) : s[i] = objects[i - 1] /\ i - 1 \in (low + 1) .. count
  BY <1>1, <1>3, <1>4
<1>7. \A i \in 1 .. (count + 1) : i \in 1 .. low \/ i = low + 1 \/ i \in (low + 2) .. (count + 1)
  BY <1>1, <1>3
<1>8. \A i \in 1 .. (count + 1) : s[i] \in Address /\ s[i] \in blocks \cup {b}
  <2>. TAKE i \in 1 .. (count + 1)
  <2>1. CASE i \in 1 .. low
    <3>1. i \in 1 .. count
      BY <1>1, <1>3, <2>1
    <3> QED BY <1>2, <1>5, <1>6, <2>1, <3>1
  <2>2. CASE i = low + 1
    BY <1>6, <2>2
  <2>3. CASE i \in (low + 2) .. (count + 1)
    <3>1. i - 1 \in 1 .. count
      BY <1>1, <1>3, <2>3
    <3> QED BY <1>2, <1>5, <1>6, <2>3, <3>1
  <2> QED BY <1>7, <2>1, <2>2, <2>3
<1>9. s \in Seq(Address) /\ Len(s) = count + 1
  <2>1. s \in [1 .. (count + 1) -> Address]
    BY <1>4, <1>8
  <2> QED BY <1>1, <2>1
<1>10. \A o \in blocks \cup {b} : \E i \in 1 .. (count + 1) : s[i] = o
  <2>1. CASE low + 1 \in 1 .. (count + 1)
    <3>1. ASSUME NEW k \in 1 .. count PROVE \E i \in 1 .. (count + 1) : s[i] = objects[k]
      <4>1. CASE k <= low
        BY <1>1, <1>3, <1>6, <4>1
      <4>2. CASE k > low
        <5>1. k + 1 \in (low + 2) .. (count + 1) /\ k + 1 \in 1 .. (count + 1)
          BY <1>1, <1>3, <4>2
        <5> QED BY <1>6, <5>1
      <4> QED BY <1>1, <1>3, <4>1, <4>2
    <3> QED BY <1>2, <1>6, <2>1, <3>1
  <2> QED BY <1>1, <1>3, <2>1
<1>11. ASSUME NEW i \in 1 .. (count + 1), NEW j \in 1 .. (count + 1), i < j
       PROVE  s[i] < s[j]
  <2>1. CASE i \in 1 .. low /\ j \in 1 .. low
    BY <1>1, <1>2, <1>3, <1>6, <1>11, <2>1
  <2>2. CASE i \in 1 .. low /\ j = low + 1
    BY <1>3, <1>6, <2>2
  <2>3. CASE i \in 1 .. low /\ j \in (low + 2) .. (count + 1)
    <3>1. i \in 1 .. count /\ j - 1 \in 1 .. count /\ i < j - 1
      BY <1>1, <1>3, <2>3
    <3> QED BY <1>2, <1>6, <2>3, <3>1
  <2>4. CASE i = low + 1 /\ j \in (low + 2) .. (count + 1)
    <3>1. j - 1 \in (low + 1) .. count /\ j - 1 \in 1 .. count /\ objects[j - 1] >= b
      BY <1>1, <1>3, <2>4
    <3>2. objects[j - 1] # b /\ objects[j - 1] \in Nat
      BY <1>5, <3>1
    <3> QED BY <1>1, <1>6, <2>4, <3>1, <3>2
  <2>5. CASE i \in (low + 2) .. (count + 1) /\ j \in (low + 2) .. (count + 1)
    <3>1. i - 1 \in 1 .. count /\ j - 1 \in 1 .. count /\ i - 1 < j - 1
      BY <1>1, <1>3, <1>11, <2>5
    <3> QED BY <1>2, <1>6, <2>5, <3>1
  <2> QED BY <1>1, <1>3, <1>7, <1>11, <2>1, <2>2, <2>3, <2>4, <2>5
<1> QED BY <1>8, <1>9, <1>10, <1>11 DEF s

-----------------------------------------------------------------------------
(* The registered roots.                                                   *)

\* The entries of g_gc_roots that name a static.
Entries(s) == {i \in DOMAIN roots : roots[i] = s}

\* The count of its entries says whether a static is listed.
LEMMA RegistrationsCount ==
  ASSUME TypeOK
  PROVE  /\ Registrations \in [Statics -> Nat]
         /\ \A s \in Statics : /\ IsFiniteSet(Entries(s))
                               /\ Registrations[s] = Cardinality(Entries(s))
                               /\ Registrations[s] <= Len(roots)
                               /\ Registrations[s] > 0 <=> s \in Elems(roots)
<1>1. DOMAIN roots = 1 .. Len(roots) /\ Len(roots) \in Nat
  BY DEF TypeOK
<1>2. IsFiniteSet(DOMAIN roots) /\ Cardinality(DOMAIN roots) = Len(roots)
  <2>1. /\ IsFiniteSet(1 .. Len(roots))
        /\ Cardinality(1 .. Len(roots)) = IF 1 > Len(roots) THEN 0 ELSE Len(roots) - 1 + 1
    BY <1>1, FS_Interval
  <2> QED BY <1>1, <2>1
<1>3. \A s : /\ IsFiniteSet(Entries(s)) /\ Cardinality(Entries(s)) \in Nat
             /\ Cardinality(Entries(s)) <= Len(roots)
  <2>. TAKE s
  <2>1. Entries(s) \in SUBSET DOMAIN roots
    BY DEF Entries
  <2> QED BY <1>2, <2>1, FS_Subset, FS_CardinalityType
<1>4. \A s : Cardinality(Entries(s)) = 0 <=> Entries(s) = {}
  BY <1>3, FS_EmptySet
<1>5. \A s \in Statics : Registrations[s] = Cardinality(Entries(s))
  BY DEF Registrations, Entries
<1>6. Registrations \in [Statics -> Nat]
  BY <1>3 DEF Registrations, Entries
<1>7. \A s : Entries(s) # {} <=> s \in Elems(roots)
  BY DEF Entries, Elems
<1> QED BY <1>3, <1>4, <1>5, <1>6, <1>7

\* Appending an entry registers its static once more.
LEMMA AppendRegisters ==
  ASSUME TypeOK, NEW s \in Statics, roots' = Append(roots, s)
  PROVE  Registrations' = [Registrations EXCEPT ![s] = @ + 1]
<1>. DEFINE n == Len(roots) + 1
<1>1. /\ Len(roots) \in Nat /\ DOMAIN roots = 1 .. Len(roots)
      /\ DOMAIN roots' = 1 .. n
      /\ \A i \in 1 .. Len(roots) : roots'[i] = roots[i]
      /\ roots'[n] = s
  BY DEF TypeOK
<1>2. Entries(s)' = Entries(s) \cup {n} /\ n \notin Entries(s)
  BY <1>1 DEF Entries
<1>3. \A t \in Statics \ {s} : Entries(t)' = Entries(t)
  BY <1>1 DEF Entries
<1>4. Cardinality(Entries(s)') = Cardinality(Entries(s)) + 1
  BY <1>2, RegistrationsCount, FS_AddElement
<1>5. Registrations' = [t \in Statics |-> Cardinality(Entries(t)')]
  BY DEF Registrations, Entries
<1>6. Registrations = [t \in Statics |-> Cardinality(Entries(t))]
  BY DEF Registrations, Entries
<1> QED BY <1>3, <1>4, <1>5, <1>6

\* Overwriting an entry of a static with the last entry, and dropping that
\* one, registers the static once less and every other as often as before.
LEMMA OverwriteUnregisters ==
  ASSUME TypeOK, NEW s \in Statics, NEW first \in DOMAIN roots, roots[first] = s,
         roots' = [i \in 1 .. (Len(roots) - 1) |->
                      IF i = first THEN roots[Len(roots)] ELSE roots[i]]
  PROVE  Registrations' = [Registrations EXCEPT ![s] = @ - 1]
<1>. DEFINE n == Len(roots)
<1>1. /\ n \in Nat /\ DOMAIN roots = 1 .. n /\ first \in 1 .. n /\ n \in DOMAIN roots
      /\ DOMAIN roots' = 1 .. (n - 1)
      /\ \A i \in 1 .. (n - 1) : roots'[i] = IF i = first THEN roots[n] ELSE roots[i]
  BY DEF TypeOK
<1>. HIDE DEF n
<1>2. Cardinality(Entries(s)') = Cardinality(Entries(s)) - 1
  <2>1. CASE roots[n] = s
    <3>1. Entries(s)' = Entries(s) \ {n} /\ n \in Entries(s)
      BY <1>1, <2>1 DEF Entries
    <3> QED BY <3>1, RegistrationsCount, FS_RemoveElement
  <2>2. CASE roots[n] # s
    <3>1. Entries(s)' = Entries(s) \ {first} /\ first \in Entries(s)
      BY <1>1, <2>2 DEF Entries
    <3> QED BY <3>1, RegistrationsCount, FS_RemoveElement
  <2> QED BY <2>1, <2>2
<1>3. ASSUME NEW t \in Statics \ {s}
      PROVE  Cardinality(Entries(t)') = Cardinality(Entries(t))
  <2>1. CASE roots[n] = t
    <3>1. first # n
      BY <2>1
    <3>2. Entries(t)' = (Entries(t) \ {n}) \cup {first}
      BY <1>1, <2>1, <3>1 DEF Entries
    <3>3. n \in Entries(t) /\ first \notin Entries(t) \ {n}
      BY <1>1, <2>1 DEF Entries
    <3>4. IsFiniteSet(Entries(t)) /\ Cardinality(Entries(t)) \in Nat
      BY RegistrationsCount, FS_CardinalityType
    <3>5. /\ IsFiniteSet(Entries(t) \ {n})
          /\ Cardinality(Entries(t) \ {n}) = Cardinality(Entries(t)) - 1
      BY <3>3, <3>4, FS_RemoveElement
    <3>6. Cardinality((Entries(t) \ {n}) \cup {first}) = Cardinality(Entries(t) \ {n}) + 1
      BY <3>3, <3>5, FS_AddElement
    <3> QED BY <3>2, <3>4, <3>5, <3>6
  <2>2. CASE roots[n] # t
    <3>1. Entries(t)' = Entries(t)
      BY <1>1, <2>2 DEF Entries
    <3> QED BY <3>1
  <2> QED BY <2>1, <2>2
<1>4. Registrations' = [t \in Statics |-> Cardinality(Entries(t)')]
  BY DEF Registrations, Entries
<1>5. Registrations = [t \in Statics |-> Cardinality(Entries(t))]
  BY DEF Registrations, Entries
<1> QED BY <1>2, <1>3, <1>4, <1>5

-----------------------------------------------------------------------------
(* Every step is a step of GcHeap, or none.                                *)

\* What the sweep has found unmarked is not reachable.
LEMMA SweptIsGarbage ==
  ASSUME Inv, pc = "sweep", read <= count, objects[read] \notin marked
  PROVE  /\ objects[read] \in blocks \ Reachable
         /\ objects[read] \notin Kept
         /\ Kept \cup marked \subseteq blocks
<1>1. read \in Live /\ \A i \in 1 .. write : i \in Live /\ i < read
  BY DEF Inv, Cursors, Live, TypeOK, count
<1>2. \A i \in 1 .. write : objects[i] < objects[read]
  BY <1>1 DEF Inv, Index
<1>3. objects[read] \in blocks /\ Kept \subseteq blocks /\ Unswept \subseteq blocks
  BY <1>1 DEF Inv, Index, Kept, Unswept, Live
<1>4. objects[read] \in Nat
  BY <1>3, HeapFacts DEF Inv
<1>5. objects[read] \notin Kept
  BY <1>2, <1>4 DEF Kept
<1>6. SweepPhase
  BY DEF Inv, Marks
<1>7. Kept \cup marked \subseteq blocks
  BY <1>3, <1>6 DEF SweepPhase
<1>8. Reachable \subseteq Kept \cup marked
  BY <1>6, <1>7, HeapFacts DEF SweepPhase, Inv
<1> QED BY <1>3, <1>5, <1>7, <1>8

\* Each step of the collector takes storage back, gives some out, changes the
\* roots, or does nothing that the heap can see.
LEMMA StepRefines ==
  ASSUME Inv, [Next]_vars
  PROVE  [Heap!HeapNext]_(Heap!heapVars)
<1>1. ASSUME UNCHANGED storeVars, UNCHANGED roots
      PROVE  UNCHANGED Heap!heapVars
  BY <1>1 DEF Heap!heapVars, storeVars, Registrations
<1>2. CASE ProgramStep
  BY <1>2 DEF ProgramStep, Heap!HeapNext, Heap!Program, Slots
<1>3. ASSUME NEW s \in Statics, AddRoot(s) PROVE Heap!HeapNext
  <2>1. /\ Registrations' = [Registrations EXCEPT ![s] = @ + 1]
        /\ Registrations[s] < MAX_ROOTS
        /\ Registrations[s] > 0 \/ slot[s] = 0
    BY <1>3, AppendRegisters, RegistrationsCount, GcAssumption
       DEF AddRoot, Inv, NULL, Heap!NULL, TypeOK
  <2>2. Heap!Register(s)
    BY <1>3, <2>1 DEF AddRoot, Heap!Register, storeVars, Heap!NULL
  <2> QED BY <2>2 DEF Heap!HeapNext, Heap!Program
<1>4. ASSUME NEW s \in Statics, RemoveRoot(s) PROVE Heap!HeapNext
  <2>1. PICK first \in DOMAIN roots :
          /\ roots[first] = s
          /\ roots' = [i \in 1 .. (Len(roots) - 1) |->
                         IF i = first THEN roots[Len(roots)] ELSE roots[i]]
    BY <1>4 DEF RemoveRoot
  <2>2. Registrations' = [Registrations EXCEPT ![s] = @ - 1]
    BY <2>1, OverwriteUnregisters DEF Inv
  <2>3. Registrations[s] > 0
    BY <2>1, RegistrationsCount DEF Inv, Elems
  <2>4. Heap!Unregister(s)
    BY <1>4, <2>2, <2>3 DEF RemoveRoot, Heap!Unregister, storeVars
  <2> QED BY <2>4 DEF Heap!HeapNext, Heap!Program
<1>5. CASE SweepFree
  <2>1. objects[read] \in blocks \ Heap!Reachable /\ Heap!Free(objects[read])
    BY <1>5, SweptIsGarbage DEF SweepFree, Reachable
  <2> QED BY <2>1 DEF Heap!HeapNext, Heap!Reclaim
<1>6. CASE Malloc
  <2>1. request \in SIZES
    BY <1>6 DEF Malloc, Inv, Pending
  <2> QED BY <1>6, <2>1 DEF Malloc, Heap!HeapNext, Heap!Allocate, Address, NULL
<1>7. CASE Collect \/ (\E n \in SIZES : HeapAlloc(n)) \/ OutOfMemory
  BY <1>1, <1>7 DEF Collect, HeapAlloc, OutOfMemory
<1>8. CASE \/ \E v \in Word : MarkValue(v)
           \/ Trace \/ StartSweep \/ SweepKeep \/ Finish
  BY <1>1, <1>8 DEF MarkValue, Trace, StartSweep, SweepKeep, Finish
<1>9. CASE UNCHANGED vars
  BY <1>1, <1>9 DEF vars, collectorVars
<1> QED BY <1>2, <1>3, <1>4, <1>5, <1>6, <1>7, <1>8, <1>9 DEF Next, CollectorStep

\* So the layout is kept.
LEMMA StepLayout ==
  ASSUME Inv, [Next]_vars
  PROVE  HP!Layout'
<1>1. HP!HeapAssumption
  BY GcAssumption DEF HP!HeapAssumption
<1>2. [HP!HeapNext]_(HP!heapVars)
  BY StepRefines, SameSpec
<1> QED BY <1>1, <1>2, HP!StepLayout DEF Inv

-----------------------------------------------------------------------------
(* Types.                                                                  *)

\* Every step keeps the collector's variables within their types.
LEMMA StepTypes ==
  ASSUME Inv, [Next]_vars
  PROVE  TypeOK'
<1>1. /\ blocks' \subseteq Address /\ size' \in [Address -> Nat]
      /\ mem' \in [Address -> Word] /\ slot' \in [Slots -> Word]
  BY StepLayout DEF HP!Layout, HP!HeapTypeOK, Address, Heap!Address, HP!Address,
     Word, Heap!Word, HP!Word, Slots, Heap!Slots, HP!Slots
<1>. DEFINE CollectorTypes ==
       /\ pc \in {"run", "mark", "sweep", "malloc", "aborted"}
       /\ request \in SIZES \cup {NONE}
       /\ objects \in Seq(Address)
       /\ marked \subseteq Address
       /\ threshold \in Nat
       /\ roots \in Seq(Statics)
       /\ worklist \in Seq(Address)
       /\ scan \subseteq Word
       /\ read \in Nat /\ write \in Nat
<1>2. SUFFICES CollectorTypes'
  BY <1>1 DEF TypeOK
<1>3. CollectorTypes
  BY DEF Inv, TypeOK
<1>4. CASE ProgramStep
  BY <1>3, <1>4 DEF ProgramStep, collectorVars
<1>5. ASSUME NEW s \in Statics, AddRoot(s) PROVE CollectorTypes'
  BY <1>3, <1>5 DEF AddRoot
<1>6. ASSUME NEW s \in Statics, RemoveRoot(s) PROVE CollectorTypes'
  <2>1. Len(roots) \in Nat /\ \A i \in 1 .. Len(roots) : roots[i] \in Statics
    BY <1>3, ElementOfSeq
  <2>2. PICK first \in DOMAIN roots :
          roots' = [i \in 1 .. (Len(roots) - 1) |->
                      IF i = first THEN roots[Len(roots)] ELSE roots[i]]
    BY <1>6 DEF RemoveRoot
  <2>3. first \in 1 .. Len(roots)
    BY <1>3
  <2>4. Len(roots) - 1 \in Nat /\ roots' \in [1 .. (Len(roots) - 1) -> Statics]
    BY <2>1, <2>2, <2>3
  <2>5. roots' \in Seq(Statics)
    BY <2>4
  <2> QED BY <1>3, <1>6, <2>5 DEF RemoveRoot
<1>7. ASSUME StartMark PROVE scan' \subseteq Word /\ worklist' \in Seq(Address)
  BY <1>7 DEF StartMark, Inv, TypeOK, Elems, Slots, Heap!Slots
<1>8. CASE Collect
  BY <1>3, <1>7, <1>8 DEF Collect, StartMark
<1>9. ASSUME NEW n \in SIZES, HeapAlloc(n) PROVE CollectorTypes'
  BY <1>3, <1>7, <1>9 DEF HeapAlloc, StartMark
<1>10. ASSUME NEW v \in Word, MarkValue(v) PROVE CollectorTypes'
  <2>1. FindObject(v) # NOTHING => FindObject(v) \in Address
    BY <1>10, FindCorrect DEF MarkValue, Inv, TypeOK
  <2>2. \/ marked' = marked /\ worklist' = worklist
        \/ \E o \in Address : marked' = marked \cup {o} /\ worklist' = Append(worklist, o)
    BY <1>10, <2>1 DEF MarkValue
  <2>3. marked' \subseteq Address /\ worklist' \in Seq(Address)
    <3>1. CASE marked' = marked /\ worklist' = worklist
      BY <1>3, <3>1
    <3>2. ASSUME NEW o \in Address, marked' = marked \cup {o}, worklist' = Append(worklist, o)
          PROVE  <2>3!1 /\ <2>3!2
      BY <1>3, <3>2, AppendElems
    <3> QED BY <2>2, <3>1, <3>2
  <2> QED BY <1>3, <1>10, <2>3 DEF MarkValue
<1>11. CASE Trace
  <2>1. worklist # << >> /\ worklist' = SubSeq(worklist, 1, Len(worklist) - 1)
    BY <1>11 DEF Trace
  <2>2. worklist[Len(worklist)] \in blocks /\ worklist' \in Seq(Address)
    <3>1. Len(worklist) \in 1 .. Len(worklist) /\ Len(worklist) \in Nat
      BY <1>3, <2>1
    <3>2. worklist[Len(worklist)] \in marked
      BY <1>11, <3>1 DEF Trace, Inv, Marks, MarkPhase, Elems
    <3>3. marked \subseteq blocks
      BY <1>11, HeapFacts DEF Trace, Inv, Marks, MarkPhase
    <3> QED BY <1>3, <2>1, <3>1, <3>2, <3>3
  <2>3. Heap!Contents(worklist[Len(worklist)]) \subseteq Word
    BY <2>2, HeapFacts DEF Inv, TypeOK, Heap!Contents
  <2> QED BY <1>3, <1>11, <2>2, <2>3 DEF Trace
<1>12. CASE StartSweep
  BY <1>3, <1>12 DEF StartSweep
<1>13. CASE SweepKeep
  <2>1. objects' \in Seq(Address)
    BY <1>3, <1>13 DEF SweepKeep, Inv, Cursors, count
  <2> QED BY <1>3, <1>13, <2>1 DEF SweepKeep
<1>14. CASE SweepFree
  BY <1>3, <1>14 DEF SweepFree
<1>15. CASE Finish
  <2>1. objects' \in Seq(Address)
    BY <1>3, <1>15 DEF Finish, Inv, Cursors, count
  <2>2. threshold' \in Nat
    BY <1>3, <1>15, GcAssumption DEF Finish, NewThreshold
  <2> QED BY <1>3, <1>15, <2>1, <2>2 DEF Finish
<1>16. CASE Malloc
  <2>1. PICK b \in Address : /\ b \notin blocks /\ objects' = InsertObject(b)
    <3>1. PICK b \in Address, dst \in Locals, operand \in {NULL} \cup {slot[l] : l \in Locals} :
            Heap!NewBlock(b, request, dst, operand) /\ objects' = InsertObject(b)
      BY <1>16 DEF Malloc
    <3>2. request \in Nat
      BY <1>16, GcAssumption DEF Malloc, Inv, Pending
    <3>3. b \notin blocks
      BY <3>1, <3>2, HeapFacts, GcAssumption DEF Heap!NewBlock, Heap!Vacant, Inv, Address, Heap!Address
    <3> QED BY <3>1, <3>3
  <2>2. objects' \in Seq(Address)
    BY <1>16, <2>1, InsertCorrect DEF Malloc, Inv
  <2> QED BY <1>3, <1>16, <2>2 DEF Malloc
<1>17. CASE OutOfMemory
  BY <1>3, <1>17 DEF OutOfMemory
<1>18. CASE UNCHANGED vars
  BY <1>3, <1>18 DEF vars, collectorVars
<1> QED BY <1>4, <1>5, <1>6, <1>8, <1>9, <1>10, <1>11, <1>12, <1>13, <1>14, <1>15,
           <1>16, <1>17, <1>18 DEF Next, CollectorStep

-----------------------------------------------------------------------------
(* The phases.                                                             *)

Phases == Index /\ Cursors /\ Marks /\ Pending

\* While nothing is stored or freed, a closed set stays closed and the
\* reachable blocks stay the same.
LEMMA SameHeap ==
  ASSUME UNCHANGED storeVars, UNCHANGED roots
  PROVE  /\ Reachable' = Reachable /\ Heap!RootWords' = Heap!RootWords
         /\ \A b, v : Heap!Within(b, v)' <=> Heap!Within(b, v)
         /\ \A b : Heap!Contents(b)' = Heap!Contents(b)
         /\ \A S : Heap!ClosedSet(S)' <=> Heap!ClosedSet(S)
<1>1. Registrations' = Registrations
  BY DEF Registrations
<1>2. Heap!RootWords' = Heap!RootWords
  BY <1>1 DEF Heap!RootWords, Heap!Rooted, storeVars
<1>3. \A b : Heap!Extent(b)' = Heap!Extent(b)
  BY DEF Heap!Extent, storeVars
<1>4. /\ \A b, v : Heap!Within(b, v)' <=> Heap!Within(b, v)
      /\ \A b : Heap!Contents(b)' = Heap!Contents(b)
  BY <1>3 DEF Heap!Within, Heap!Contents, storeVars
<1>5. blocks' = blocks
  BY DEF storeVars
<1>6. \A S : Heap!ClosedSet(S)' <=> Heap!ClosedSet(S)
  BY <1>2, <1>4, <1>5 DEF Heap!ClosedSet
<1>7. Reachable' = Reachable
  BY <1>5, <1>6 DEF Reachable, Heap!Reachable
<1> QED BY <1>2, <1>4, <1>6, <1>7

\* The program's steps leave the blocks and the collector alone.
LEMMA ProgramPhases ==
  ASSUME Inv, ProgramStep \/ \E s \in Statics : AddRoot(s) \/ RemoveRoot(s)
  PROVE  Phases'
<1>1. /\ pc = "run" /\ pc' = pc /\ blocks' = blocks /\ objects' = objects
      /\ marked' = marked
  BY DEF ProgramStep, collectorVars, AddRoot, RemoveRoot, storeVars, Heap!Move,
         Heap!Advance, Heap!Load, Heap!Store, Heap!Drop
<1>2. Index' /\ Cursors'
  BY <1>1 DEF Inv, Index, Live, Cursors, count
<1> QED BY <1>1, <1>2 DEF Phases, Inv, Marks, Pending

\* The roots are all in scan, and nothing else is.
LEMMA StartMarkPhases ==
  ASSUME Inv, pc = "run", StartMark,
         UNCHANGED <<storeVars, objects, marked, threshold, roots, read, write>>
  PROVE  Phases'
<1>1. Index' /\ Cursors' /\ Pending'
  BY DEF Inv, Index, Live, Cursors, Pending, count, StartMark, storeVars
<1>2. marked' = {} /\ worklist' = << >>
  BY DEF Inv, Marks, StartMark
<1>3. scan' \subseteq Heap!RootWords
  BY RegistrationsCount DEF Inv, StartMark, Heap!RootWords, Heap!Rooted, TypeOK, Elems
<1>4. \A v \in scan' : \A b \in blocks : Heap!Within(b, v) => b \in Reachable
  BY <1>3, HeapFacts DEF Inv, Heap!ClosedSet
<1>5. \A v \in Heap!RootWords : v \in scan' \/ v = 0
  <2>. SUFFICES ASSUME NEW s \in Heap!Rooted PROVE slot[s] \in scan' \/ slot[s] = 0
    BY DEF Heap!RootWords
  <2>1. s \in Locals \/ s \in Elems(roots)
    BY RegistrationsCount DEF Inv, Heap!Rooted
  <2> QED BY <2>1 DEF StartMark, NULL, Heap!NULL
<1>6. \A b \in blocks : ~ Heap!Within(b, 0)
  BY HeapFacts, GcAssumption DEF Inv, Heap!Within
<1>7. MarkPhase'
  BY <1>2, <1>4, <1>5, <1>6, SameHeap DEF MarkPhase, Handled, Elems, storeVars
<1> QED BY <1>1, <1>7 DEF Phases, Marks, StartMark

\* rsg_heap_alloc below the threshold does not collect.
LEMMA HeapAllocPhases ==
  ASSUME Inv, NEW n \in SIZES, HeapAlloc(n)
  PROVE  Phases'
<1>1. CASE count >= threshold
  BY <1>1, StartMarkPhases DEF HeapAlloc
<1>2. CASE ~ (count >= threshold)
  <2>1. /\ pc = "run" /\ pc' = "malloc" /\ request' = n
        /\ UNCHANGED <<storeVars, objects, marked, threshold>>
    BY <1>2 DEF HeapAlloc
  <2>2. count < threshold
    BY <1>2 DEF Inv, TypeOK, count
  <2> QED BY <2>1, <2>2 DEF Phases, Inv, Index, Live, Cursors, Marks, Pending, count, storeVars
<1> QED BY <1>1, <1>2

\* A word handed to gc_mark_value is handled for good.
LEMMA MarkValuePhases ==
  ASSUME Inv, NEW v \in Word, MarkValue(v)
  PROVE  Phases'
<1>1. /\ pc = "mark" /\ pc' = pc /\ v \in scan /\ scan' = scan \ {v}
      /\ UNCHANGED <<storeVars, request, objects, threshold, roots, read, write>>
  BY DEF MarkValue
<1>2. Index' /\ Cursors' /\ Pending'
  BY <1>1 DEF Inv, Index, Live, Cursors, Pending, count, storeVars
<1>3. MarkPhase
  BY <1>1 DEF Inv, Marks
<1>4. /\ FindObject(v) # NOTHING => FindObject(v) \in blocks /\ Heap!Within(FindObject(v), v)
      /\ FindObject(v) = NOTHING => \A b \in blocks : ~ Heap!Within(b, v)
  BY <1>1, FindCorrect DEF Inv
<1>5. \A b \in blocks : Heap!Within(b, v) => FindObject(v) = b
  BY <1>4, HeapFacts DEF Inv
<1>6. PICK new \in SUBSET {FindObject(v)} :
        /\ marked' = marked \cup new
        /\ Elems(worklist') = Elems(worklist) \cup new
        /\ new \subseteq Reachable
        /\ \A b \in blocks : Heap!Within(b, v) => b \in marked'
  <2>1. CASE FindObject(v) = NOTHING \/ FindObject(v) \in marked
    <3>1. marked' = marked /\ worklist' = worklist
      BY <2>1 DEF MarkValue
    <3>2. \A b \in blocks : Heap!Within(b, v) => b \in marked
      BY <1>4, <1>5, <2>1
    <3>3. {} \in SUBSET {FindObject(v)}
      OBVIOUS
    <3> QED BY <3>1, <3>2, <3>3
  <2>2. CASE ~ (FindObject(v) = NOTHING \/ FindObject(v) \in marked)
    <3>1. /\ marked' = marked \cup {FindObject(v)}
          /\ worklist' = Append(worklist, FindObject(v))
      BY <2>2 DEF MarkValue
    <3>2. FindObject(v) \in Reachable
      BY <1>1, <1>3, <1>4, <2>2 DEF MarkPhase
    <3>3. FindObject(v) \in Address /\ worklist \in Seq(Address)
      BY <1>4, <2>2 DEF Inv, TypeOK
    <3>4. Elems(worklist') = Elems(worklist) \cup {FindObject(v)}
      BY <3>1, <3>3, AppendElems
    <3>5. {FindObject(v)} \in SUBSET {FindObject(v)}
      OBVIOUS
    <3> QED BY <1>5, <3>1, <3>2, <3>4, <3>5
  <2> QED BY <2>1, <2>2
<1>7. \A w : Handled(w) => Handled(w)'
  BY <1>1, <1>6, SameHeap DEF Handled, storeVars
<1>8. MarkPhase'
  <2>1. /\ marked' \subseteq Reachable'
        /\ Elems(worklist') \subseteq marked'
        /\ \A w \in scan' : \A b \in blocks' : Heap!Within(b, w)' => b \in Reachable'
    BY <1>1, <1>3, <1>6, SameHeap DEF MarkPhase, storeVars
  <2>2. \A w \in Heap!RootWords' : Handled(w)'
    BY <1>1, <1>3, <1>7, SameHeap DEF MarkPhase
  <2>3. \A p \in marked' \ Elems(worklist') : \A w \in Heap!Contents(p)' : Handled(w)'
    BY <1>1, <1>3, <1>6, <1>7, SameHeap DEF MarkPhase
  <2>4. Elems(worklist') = Elems(worklist)'
    BY DEF Elems
  <2> QED BY <2>1, <2>2, <2>3, <2>4 DEF MarkPhase
<1> QED BY <1>1, <1>2, <1>8 DEF Phases, Marks

\* gc_trace_worklist hands every word of the object it pops to the scan.
LEMMA TracePhases ==
  ASSUME Inv, Trace
  PROVE  Phases'
<1>. DEFINE last == worklist[Len(worklist)]
<1>1. /\ pc = "mark" /\ pc' = pc /\ scan = {} /\ scan' = Heap!Contents(last)
      /\ UNCHANGED <<storeVars, request, objects, marked, threshold, roots, read, write>>
  BY DEF Trace
<1>2. Index' /\ Cursors' /\ Pending'
  BY <1>1 DEF Inv, Index, Live, Cursors, Pending, count, storeVars
<1>3. MarkPhase
  BY <1>1 DEF Inv, Marks
<1>4. Elems(worklist) = Elems(worklist') \cup {last}
  BY DropLastElems DEF Inv, TypeOK, Trace
<1>. HIDE DEF last
<1>5. last \in Reachable
  BY <1>3, <1>4 DEF MarkPhase
<1>6. \A v \in scan' : \A b \in blocks : Heap!Within(b, v) => b \in Reachable
  BY <1>1, <1>5, HeapFacts DEF Inv, Heap!ClosedSet
<1>7. \A w : Handled(w) => Handled(w)'
  BY <1>1, SameHeap DEF Handled, storeVars
<1>8. \A w \in Heap!Contents(last) : Handled(w)'
  BY <1>1 DEF Handled
<1>9. MarkPhase'
  <2>1. Elems(worklist') = Elems(worklist)'
    BY DEF Elems
  <2>2. \A p \in marked \ Elems(worklist') : \A w \in Heap!Contents(p) : Handled(w)'
    BY <1>3, <1>4, <1>7, <1>8 DEF MarkPhase
  <2> QED BY <1>1, <1>3, <1>4, <1>6, <1>7, <2>1, <2>2, SameHeap DEF MarkPhase, storeVars
<1> QED BY <1>1, <1>2, <1>9 DEF Phases, Marks

\* With nothing left to scan, the marked blocks are the reachable ones.
LEMMA MarkedWhenDone ==
  ASSUME Inv, pc = "mark", scan = {}, worklist = << >>
  PROVE  marked = Reachable /\ Heap!ClosedSet(marked)
<1>1. MarkPhase
  BY DEF Inv, Marks
<1>2. Elems(worklist) = {}
  BY DEF Elems
<1>3. Heap!ClosedSet(marked)
  BY <1>1, <1>2 DEF MarkPhase, Handled, Heap!ClosedSet
<1>4. marked \subseteq Reachable /\ Reachable \subseteq blocks
  BY <1>1, HeapFacts DEF MarkPhase, Inv
<1>5. Reachable \subseteq marked
  BY <1>3, <1>4, HeapFacts DEF Inv
<1> QED BY <1>3, <1>4, <1>5

\* The sweep starts with all objects unswept and a closed set marked.
LEMMA StartSweepPhases ==
  ASSUME Inv, StartSweep
  PROVE  Phases'
<1>1. /\ pc = "mark" /\ pc' = "sweep" /\ read' = 1 /\ write' = 0
      /\ UNCHANGED <<storeVars, request, objects, marked, threshold, roots, worklist, scan>>
      /\ scan = {} /\ worklist = << >>
  BY DEF StartSweep
<1>2. count \in Nat /\ count' = count
  BY <1>1 DEF Inv, TypeOK, count
<1>3. Live = 1 .. count /\ Live' = 1 .. count
  BY <1>1, <1>2 DEF Live
<1>4. Index' /\ Cursors'
  BY <1>1, <1>2, <1>3 DEF Inv, Index, Cursors, storeVars
<1>5. Unswept' = blocks /\ Kept' = {}
  BY <1>1, <1>2, <1>3 DEF Inv, Index, Unswept, Kept
<1>6. marked \subseteq blocks /\ Heap!ClosedSet(marked)
  BY <1>1, MarkedWhenDone, HeapFacts DEF Inv
<1>7. Kept' \cup marked' = marked
  BY <1>1, <1>5
<1>8. Heap!ClosedSet(Kept \cup marked)'
  <2>1. Heap!ClosedSet(marked)'
    BY <1>1, <1>6, SameHeap DEF Heap!ClosedSet
  <2> QED BY <1>1, <1>7, <2>1 DEF Heap!ClosedSet
<1>9. SweepPhase'
  BY <1>1, <1>5, <1>6, <1>8 DEF SweepPhase
<1> QED BY <1>1, <1>4, <1>9 DEF Phases, Marks, Pending

\* A kept object moves down over a stale entry, or stays where it is.
LEMMA SweepKeepPhases ==
  ASSUME Inv, SweepKeep
  PROVE  Phases'
<1>1. /\ pc = "sweep" /\ pc' = pc /\ read <= count
      /\ marked' = marked \ {objects[read]}
      /\ objects' = [objects EXCEPT ![write + 1] = objects[read]]
      /\ read' = read + 1 /\ write' = write + 1
      /\ UNCHANGED <<storeVars, request, threshold, roots>>
  BY DEF SweepKeep
<1>2. /\ read \in Nat /\ write \in Nat /\ count \in Nat /\ write < read
      /\ DOMAIN objects = 1 .. count /\ count' = count
  BY <1>1 DEF Inv, TypeOK, Cursors, count
<1>3. /\ \A i \in 1 .. write : objects'[i] = objects[i] /\ i \in Live
      /\ objects'[write + 1] = objects[read] /\ read \in Live
      /\ \A i \in (read + 1) .. count : objects'[i] = objects[i] /\ i \in Live
      /\ Live = (1 .. write) \cup {read} \cup ((read + 1) .. count)
      /\ Live' = (1 .. write) \cup {write + 1} \cup ((read + 1) .. count)
  BY <1>1, <1>2 DEF Live
<1>4. Index'
  <2>1. blocks' = {objects'[i] : i \in Live'}
    <3>1. blocks = {objects[i] : i \in Live}
      BY DEF Inv, Index
    <3> QED BY <1>1, <1>3, <3>1 DEF storeVars
  <2>2. ASSUME NEW i \in Live', NEW j \in Live', i < j
        PROVE  objects'[i] < objects'[j]
    <3>. DEFINE from(k) == IF k = write + 1 THEN read ELSE k
    <3>1. from(i) \in Live /\ from(j) \in Live /\ from(i) < from(j)
      BY <1>2, <1>3, <2>2
    <3>2. \A k \in Live' : objects'[k] = objects[from(k)]
      BY <1>2, <1>3
    <3>. HIDE DEF from
    <3> QED BY <3>1, <3>2 DEF Inv, Index
  <2> QED BY <2>1, <2>2 DEF Index
<1>5. Cursors'
  BY <1>1, <1>2 DEF Cursors
<1>6. SweepPhase
  BY <1>1 DEF Inv, Marks
<1>7. objects[read] \in marked
  BY DEF SweepKeep
<1>8. Kept' = Kept \cup {objects[read]}
  <2>1. 1 .. write' = (1 .. write) \cup {write + 1}
    BY <1>1, <1>2
  <2> QED BY <1>3, <2>1 DEF Kept
<1>9. marked' \subseteq Unswept'
  <2>1. read .. count = {read} \cup ((read + 1) .. count)
    BY <1>1, <1>2
  <2>2. Unswept = {objects[read]} \cup {objects[i] : i \in (read + 1) .. count}
    BY <2>1 DEF Unswept
  <2>3. Unswept' = {objects[i] : i \in (read + 1) .. count}
    BY <1>1, <1>2, <1>3 DEF Unswept
  <2> QED BY <1>1, <1>6, <2>2, <2>3 DEF SweepPhase
<1>10. Kept' \cup marked' = Kept \cup marked
  BY <1>1, <1>7, <1>8
<1>11. Heap!ClosedSet(Kept \cup marked)'
  <2>. DEFINE S == Kept \cup marked
  <2>1. S' = S /\ Heap!ClosedSet(S)
    BY <1>6, <1>10 DEF SweepPhase
  <2> QED BY <1>1, <2>1, SameHeap DEF Heap!ClosedSet
<1> QED BY <1>1, <1>4, <1>5, <1>9, <1>11 DEF Phases, Marks, SweepPhase, Pending

\* Freeing a block leaves the others and the roots as they are.
LEMMA FreeSpares ==
  ASSUME Inv, SweepFree
  PROVE  /\ blocks' = blocks \ {objects[read]}
         /\ Heap!RootWords' = Heap!RootWords
         /\ \A p \in blocks' : /\ Heap!Extent(p)' = Heap!Extent(p)
                               /\ Heap!Contents(p)' = Heap!Contents(p)
<1>. DEFINE b == objects[read]
<1>1. Heap!Free(b) /\ b \in blocks /\ UNCHANGED roots
  BY SweptIsGarbage DEF SweepFree
<1>. HIDE DEF b
<1>2. blocks' = blocks \ {b} /\ size' = [size EXCEPT ![b] = 0]
  BY <1>1 DEF Heap!Free
<1>3. Heap!RootWords' = Heap!RootWords
  BY <1>1 DEF Heap!RootWords, Heap!Rooted, Registrations, Heap!Free
<1>4. ASSUME NEW p \in blocks'
      PROVE  Heap!Extent(p)' = Heap!Extent(p) /\ Heap!Contents(p)' = Heap!Contents(p)
  <2>1. p \in blocks /\ p # b /\ p \in Address /\ Heap!Extent(p) \subseteq Address
    BY <1>2, HeapFacts DEF Inv
  <2>2. Heap!Extent(p)' = Heap!Extent(p)
    BY <1>2, <2>1 DEF Heap!Extent, Inv, TypeOK
  <2>3. \A a \in Heap!Extent(p) : a \notin Heap!Extent(b)
    BY <1>1, <2>1, HeapFacts DEF Inv, Heap!Within
  <2>4. \A a \in Heap!Extent(p) : mem'[a] = mem[a]
    BY <1>1, <2>1, <2>3 DEF Heap!Free, Address
  <2> QED BY <2>2, <2>4 DEF Heap!Contents
<1> QED BY <1>2, <1>3, <1>4 DEF b

\* A freed object is dropped, and leaves the kept and marked ones closed.
LEMMA SweepFreePhases ==
  ASSUME Inv, SweepFree
  PROVE  Phases'
<1>. DEFINE b == objects[read]
<1>1. /\ pc = "sweep" /\ pc' = pc /\ read <= count /\ b \notin marked
      /\ read' = read + 1
      /\ UNCHANGED <<request, objects, marked, threshold, roots, write>>
      /\ Heap!Free(b)
  BY DEF SweepFree
<1>2. /\ read \in Nat /\ write \in Nat /\ count \in Nat /\ write < read
      /\ DOMAIN objects = 1 .. count /\ count' = count
  BY <1>1 DEF Inv, TypeOK, Cursors, count
<1>3. /\ Live = Live' \cup {read} /\ read \in Live /\ read \notin Live'
  BY <1>1, <1>2 DEF Live
<1>4. \A i \in Live' : objects[i] # b
  <2>1. \A i \in Live : objects[i] \in Nat
    BY HeapFacts DEF Inv, Index
  <2>2. \A i \in Live' : (i < read \/ i > read) /\ i \in Live
    BY <1>2, <1>3 DEF Live
  <2>3. \A i \in Live' : objects[i] < b \/ b < objects[i]
    BY <1>3, <2>2 DEF Inv, Index
  <2> QED BY <1>3, <2>1, <2>3
<1>5. blocks' = blocks \ {b} /\ size' = [size EXCEPT ![b] = 0]
  BY <1>1 DEF Heap!Free
<1>6. Index'
  BY <1>1, <1>3, <1>4, <1>5 DEF Inv, Index
<1>7. Cursors'
  BY <1>1, <1>2 DEF Cursors
<1>8. SweepPhase
  BY <1>1 DEF Inv, Marks
<1>9. b \in blocks \ Reachable /\ b \notin Kept /\ Kept \cup marked \subseteq blocks
  BY <1>1, SweptIsGarbage
<1>10. Kept' = Kept /\ marked' \subseteq Unswept'
  <2>1. read .. count = {read} \cup (read' .. count)
    BY <1>1, <1>2
  <2>2. Unswept = {b} \cup Unswept'
    BY <1>1, <1>2, <2>1 DEF Unswept
  <2> QED BY <1>1, <1>8, <2>2 DEF SweepPhase, Kept
<1>. DEFINE S == Kept \cup marked
<1>11. S' = S /\ S \subseteq blocks \ {b} /\ Heap!ClosedSet(S)
  BY <1>1, <1>8, <1>9, <1>10 DEF SweepPhase
<1>. HIDE DEF b, S
<1>12. ASSUME NEW p \in blocks, p # b
       PROVE  Heap!Extent(p)' = Heap!Extent(p) /\ Heap!Contents(p)' = Heap!Contents(p)
  BY <1>5, <1>12, FreeSpares
<1>13. Heap!RootWords' = Heap!RootWords
  BY FreeSpares
<1>14. Heap!ClosedSet(Kept \cup marked)'
  <2>1. \A v \in Heap!RootWords' : \A o \in blocks' : Heap!Within(o, v)' => o \in S
    BY <1>5, <1>11, <1>12, <1>13 DEF Heap!ClosedSet, Heap!Within
  <2>2. \A p \in S : \A v \in Heap!Contents(p)' : \A o \in blocks' :
          Heap!Within(o, v)' => o \in S
    BY <1>5, <1>11, <1>12 DEF Heap!ClosedSet, Heap!Within
  <2> QED BY <1>11, <2>1, <2>2 DEF Heap!ClosedSet, S
<1> QED BY <1>1, <1>6, <1>7, <1>10, <1>14 DEF Phases, Marks, SweepPhase, Pending

\* The new threshold is above what survived.
LEMMA FinishPhases ==
  ASSUME Inv, Finish
  PROVE  Phases'
<1>1. /\ pc = "sweep" /\ read > count
      /\ objects' = SubSeq(objects, 1, write)
      /\ threshold' = NewThreshold(write)
      /\ pc' = IF request = NONE THEN "run" ELSE "malloc"
      /\ UNCHANGED <<storeVars, request, marked, roots>>
  BY DEF Finish
<1>2. /\ read \in Nat /\ write \in Nat /\ count \in Nat /\ write <= count
      /\ objects \in Seq(Address) /\ count = Len(objects)
  BY <1>1 DEF Inv, TypeOK, Cursors, count
<1>3. Len(objects') = write /\ \A i \in 1 .. write : objects'[i] = objects[i]
  BY <1>1, <1>2
<1>4. Live = 1 .. write /\ Live' = 1 .. write
  BY <1>1, <1>2, <1>3 DEF Live, count
<1>5. Index'
  BY <1>1, <1>3, <1>4 DEF Inv, Index, storeVars
<1>6. marked' = {}
  <2>1. Unswept = {}
    BY <1>1, <1>2 DEF Unswept
  <2> QED BY <1>1, <2>1 DEF Inv, Marks, SweepPhase
<1>7. Pending'
  <2>1. write < threshold'
    BY <1>1, <1>2, GcAssumption DEF NewThreshold
  <2>2. count' = write
    BY <1>3 DEF count
  <2>3. pc' = "malloc" => request \in SIZES
    BY <1>1 DEF Inv, TypeOK
  <2> QED BY <1>1, <2>1, <2>2, <2>3 DEF Pending
<1> QED BY <1>1, <1>5, <1>6, <1>7 DEF Phases, Cursors, Marks

\* The new block is inserted where the order has it.
LEMMA MallocPhases ==
  ASSUME Inv, Malloc
  PROVE  Phases'
<1>1. pc = "malloc" /\ pc' = "run" /\ marked' = marked
  BY DEF Malloc
<1>2. PICK b \in Address, dst \in Locals, operand \in {NULL} \cup {slot[l] : l \in Locals} :
        Heap!NewBlock(b, request, dst, operand) /\ objects' = InsertObject(b)
  BY DEF Malloc
<1>3. b \notin blocks
  <2>1. request \in Nat
    BY <1>1, GcAssumption DEF Inv, Pending
  <2> QED BY <1>2, <2>1, HeapFacts, GcAssumption
          DEF Heap!NewBlock, Heap!Vacant, Inv, Address, Heap!Address
<1>4. /\ Len(objects') = count + 1
      /\ {objects'[i] : i \in 1 .. (count + 1)} = blocks \cup {b}
      /\ \A i, j \in 1 .. (count + 1) : i < j => objects'[i] < objects'[j]
  BY <1>1, <1>2, <1>3, InsertCorrect DEF Inv
<1>5. Live' = 1 .. (count + 1) /\ blocks' = blocks \cup {b}
  BY <1>1, <1>2, <1>4 DEF Live, count, Heap!NewBlock
<1> QED BY <1>1, <1>4, <1>5 DEF Phases, Inv, Index, Cursors, Marks, Pending

\* Every step keeps the invariant of the phase it leads to.
LEMMA StepPhases ==
  ASSUME Inv, [Next]_vars
  PROVE  Phases'
<1>1. CASE Collect
  BY <1>1, StartMarkPhases DEF Collect
<1>2. CASE OutOfMemory \/ UNCHANGED vars
  <2>1. /\ UNCHANGED <<storeVars, request, objects, marked, threshold, roots,
                       worklist, scan, read, write>>
        /\ pc' = pc \/ (pc = "malloc" /\ pc' = "aborted")
    BY <1>2 DEF OutOfMemory, vars, collectorVars
  <2>2. Index' /\ Cursors' /\ Pending'
    BY <2>1 DEF Inv, Index, Live, Cursors, Pending, count, storeVars
  <2>3. /\ Unswept' = Unswept /\ Kept' = Kept /\ Elems(worklist)' = Elems(worklist)
        /\ blocks' = blocks
    BY <2>1 DEF Unswept, Kept, count, Elems, storeVars
  <2>4. \A w : Handled(w)' <=> Handled(w)
    BY <2>1, <2>3, SameHeap DEF Handled
  <2>5. MarkPhase => MarkPhase'
    BY <2>1, <2>3, <2>4, SameHeap DEF MarkPhase
  <2>6. SweepPhase => SweepPhase'
    <3>. DEFINE S == Kept \cup marked
    <3>1. S' = S
      BY <2>1, <2>3
    <3> QED BY <2>1, <2>3, <3>1, SameHeap DEF SweepPhase, Heap!ClosedSet
  <2>7. Marks'
    BY <2>1, <2>5, <2>6 DEF Inv, Marks
  <2> QED BY <2>2, <2>7 DEF Phases
<1> QED BY <1>1, <1>2, ProgramPhases, HeapAllocPhases, MarkValuePhases, TracePhases,
           StartSweepPhases, SweepKeepPhases, SweepFreePhases, FinishPhases, MallocPhases
        DEF Next, CollectorStep

-----------------------------------------------------------------------------
(* The theorems.                                                           *)

\* Nothing is allocated, marked or registered at the start.
LEMMA InitInv == Init => Inv
<1>. SUFFICES ASSUME Init PROVE Inv
  OBVIOUS
<1>1. Registrations = [s \in Statics |-> 0]
  BY FS_EmptySet DEF Init, Registrations
<1>2. TypeOK
  BY GcAssumption DEF Init, TypeOK, Word, Heap!Word, NULL, Heap!NULL, NONE
<1>3. HP!Layout
  BY <1>1, <1>2 DEF Init, HP!Layout, HP!HeapTypeOK, HP!InHeap, HP!Disjoint, TypeOK,
     Address, Heap!Address, HP!Address, Word, Heap!Word, HP!Word, Slots, Heap!Slots, HP!Slots
<1>4. Index
  BY DEF Init, Index, Live, count
<1> QED BY <1>2, <1>3, <1>4 DEF Init, Inv, Cursors, Marks, Pending

\* Inv is inductive.
LEMMA NextInv == Inv /\ [Next]_vars => Inv'
BY StepTypes, StepLayout, StepPhases DEF Inv, Phases

\* Every reachable state of the collector, and in every phase, satisfies Inv.
LEMMA InvHolds == Spec => []Inv
BY InitInv, NextInv, PTL DEF Spec

\* The collector's state stays within its types.
THEOREM TypesHold == Spec => []TypeOK
<1>1. Inv => TypeOK
  BY DEF Inv
<1> QED BY <1>1, InvHolds, PTL

\* Outside a sweep the array of objects is sorted and lists exactly the
\* blocks: every binary search of gc_find_object finds what is there.
THEOREM SortedIndexHolds == Spec => []SortedIndex
<1>1. Inv => SortedIndex
  <2>. SUFFICES ASSUME Inv, pc # "sweep" PROVE SortedIndex
    BY DEF SortedIndex
  <2>1. DOMAIN objects = 1 .. count /\ Live = 1 .. count
    BY DEF Inv, TypeOK, Live, count
  <2> QED BY <2>1 DEF Inv, Index, SortedIndex, Elems
<1> QED BY <1>1, InvHolds, PTL

\* Marking ends with exactly the reachable blocks marked.
THEOREM MarkedIsReachableHolds == Spec => []MarkedIsReachable
<1>1. Inv => MarkedIsReachable
  BY MarkedWhenDone DEF MarkedIsReachable
<1> QED BY <1>1, InvHolds, PTL

\* No mark survives a collection.
THEOREM NoStaleMarkHolds == Spec => []NoStaleMark
<1>1. Inv => NoStaleMark
  BY DEF Inv, Marks, NoStaleMark
<1> QED BY <1>1, InvHolds, PTL

\* An allocation that goes on to malloc is below the threshold.
THEOREM RoomHolds == Spec => []RoomAfterCollect
<1>1. Inv => RoomAfterCollect
  BY DEF Inv, Pending, RoomAfterCollect
<1> QED BY <1>1, InvHolds, PTL

\* The collector implements the heap: it takes storage back only from blocks
\* that no root reaches, however its steps and the program's are arranged.
THEOREM Refinement == Spec => ImplementsHeap
<1>1. Init => Heap!HeapInit
  <2>. SUFFICES ASSUME Init PROVE Heap!HeapInit
    OBVIOUS
  <2>1. Registrations = [s \in Statics |-> 0]
    BY FS_EmptySet DEF Init, Registrations
  <2> QED BY <2>1 DEF Init, Heap!HeapInit, Address, NULL, Slots
<1>2. Inv /\ [Next]_vars => [Heap!HeapNext]_(Heap!heapVars)
  BY StepRefines
<1> QED BY <1>1, <1>2, InvHolds, PTL DEF Spec, ImplementsHeap, Heap!HeapSpec

\* So no pointer the program can get at dangles, provided it registers the
\* statics it uses (the code that cgen emits does not: UsableResolve).
THEOREM NoDanglingHolds == ~ GENERATED => (Spec => []NoDangling)
<1>. SUFFICES ASSUME ~ GENERATED PROVE Spec => []NoDangling
  OBVIOUS
<1>1. HP!HeapAssumption
  BY GcAssumption DEF HP!HeapAssumption
<1>2. HP!NoDangling <=> NoDangling
  BY DEF HP!NoDangling, NoDangling, Heap!NoDangling, HP!RootWords, Heap!RootWords,
         HP!Rooted, Heap!Rooted, HP!Resolves, Heap!Resolves, HP!NULL, Heap!NULL,
         HP!Reachable, Heap!Reachable, HP!ClosedSet, Heap!ClosedSet,
         HP!Contents, Heap!Contents, HP!Within, Heap!Within, HP!Extent, Heap!Extent
<1>3. Init => NoDangling
  <2>1. Init => Heap!HeapInit
    <3>. SUFFICES ASSUME Init PROVE Heap!HeapInit
      OBVIOUS
    <3>1. Registrations = [s \in Statics |-> 0]
      BY FS_EmptySet DEF Init, Registrations
    <3> QED BY <3>1 DEF Init, Heap!HeapInit, Address, NULL, Slots
  <2> QED BY <1>1, <1>2, <2>1, SameSpec, HP!InitHolds
<1>4. Inv /\ NoDangling /\ [Next]_vars => NoDangling'
  <2>. SUFFICES ASSUME Inv, NoDangling, [Next]_vars PROVE HP!NoDangling'
    BY <1>2, PTL
  <2>1. [HP!HeapNext]_(HP!heapVars)
    BY StepRefines, SameSpec
  <2> QED BY <1>1, <1>2, <2>1, HP!StepNoDangling DEF Inv
<1> QED BY <1>3, <1>4, InvHolds, PTL DEF Spec

-----------------------------------------------------------------------------
(* How a collection ends, and with what.                                   *)

\* What is left to mark.
Unmarked == blocks \ marked

\* Each step of a collection leaves less to do: a step of the mark phase marks
\* a block, or takes one off the worklist, or a word off those to look at.
CollectionAdvances ==
  [][ /\ pc = "mark" => pc' \in {"mark", "sweep"}
      /\ pc = "mark" /\ pc' = "mark" =>
           /\ IsFiniteSet(Unmarked) /\ Len(worklist) \in Nat /\ IsFiniteSet(scan)
           /\ \/ Unmarked' \subseteq Unmarked /\ Unmarked' # Unmarked
              \/ Unmarked' = Unmarked /\ Len(worklist') < Len(worklist)
              \/ /\ Unmarked' = Unmarked /\ worklist' = worklist
                 /\ scan' \subseteq scan /\ scan' # scan
      /\ pc = "sweep" => pc' \in {"sweep", "run", "malloc"}
      /\ pc = "sweep" /\ pc' = "sweep" =>
           /\ (count + 1) - read \in Nat /\ (count' + 1) - read' \in Nat
           /\ (count' + 1) - read' < (count + 1) - read ]_vars

\* Blocks, words and what is left to mark are finitely many.
LEMMA Finitely ==
  ASSUME TypeOK
  PROVE  IsFiniteSet(blocks) /\ IsFiniteSet(Unmarked) /\ IsFiniteSet(scan)
<1>1. IsFiniteSet(Address) /\ IsFiniteSet(Word)
  BY FS_Interval, GcAssumption DEF Address, Heap!Address, Word, Heap!Word
<1>2. blocks \subseteq Address /\ scan \subseteq Word
  BY DEF TypeOK
<1>3. IsFiniteSet(blocks) /\ IsFiniteSet(scan)
  BY <1>1, <1>2, FS_Subset
<1>4. Unmarked \subseteq blocks
  BY DEF Unmarked
<1> QED BY <1>3, <1>4, FS_Subset

\* gc_mark_value pushes the block it marks, or only uses up its word.
LEMMA MarkValueAdvances ==
  ASSUME Inv, NEW v \in Word, MarkValue(v)
  PROVE  /\ pc = "mark" /\ pc' = "mark" /\ objects' = objects
         /\ \/ /\ Unmarked' = Unmarked /\ worklist' = worklist
               /\ scan' \subseteq scan /\ scan' # scan
            \/ \E b \in Unmarked : /\ Unmarked' = Unmarked \ {b}
                                   /\ Len(worklist') = Len(worklist) + 1
<1>1. /\ pc = "mark" /\ pc' = pc /\ v \in scan /\ scan' = scan \ {v}
      /\ UNCHANGED <<storeVars, objects>>
  BY DEF MarkValue
<1>2. blocks' = blocks
  BY <1>1 DEF storeVars
<1>. DEFINE b == FindObject(v)
<1>3. CASE b = NOTHING \/ b \in marked
  <2>1. marked' = marked /\ worklist' = worklist
    BY <1>3 DEF MarkValue
  <2> QED BY <1>1, <1>2, <2>1 DEF Unmarked
<1>4. CASE ~ (b = NOTHING \/ b \in marked)
  <2>1. marked' = marked \cup {b} /\ worklist' = Append(worklist, b)
    BY <1>4 DEF MarkValue
  <2>2. b \in blocks
    BY <1>1, <1>4, FindCorrect DEF Inv
  <2>. HIDE DEF b
  <2>3. b \in Unmarked /\ Unmarked' = Unmarked \ {b}
    BY <1>2, <1>4, <2>1, <2>2 DEF Unmarked
  <2>4. Len(worklist') = Len(worklist) + 1
    <3>1. worklist \in Seq(Address) /\ b \in Address
      BY <2>2 DEF Inv, TypeOK
    <3> QED BY <2>1, <3>1, AppendProperties
  <2> QED BY <1>1, <2>3, <2>4
<1> QED BY <1>3, <1>4

\* gc_trace_worklist pops a block.
LEMMA TraceAdvances ==
  ASSUME Inv, Trace
  PROVE  /\ pc = "mark" /\ pc' = "mark" /\ objects' = objects
         /\ Unmarked' = Unmarked /\ Len(worklist') = Len(worklist) - 1
<1>1. /\ pc = "mark" /\ pc' = pc /\ UNCHANGED <<storeVars, objects, marked>>
      /\ worklist # << >> /\ worklist' = SubSeq(worklist, 1, Len(worklist) - 1)
  BY DEF Trace
<1>2. worklist \in Seq(Address)
  BY DEF Inv, TypeOK
<1>3. Len(worklist') = Len(worklist) - 1
  BY <1>1, <1>2, DropLastElems
<1> QED BY <1>1, <1>3 DEF Unmarked, storeVars

\* gc_sweep moves on by one object and reads no further than the last.
LEMMA SweepAdvances ==
  ASSUME Inv, SweepKeep \/ SweepFree
  PROVE  /\ pc = "sweep" /\ pc' = "sweep"
         /\ (count + 1) - read \in Nat /\ (count' + 1) - read' \in Nat
         /\ (count' + 1) - read' < (count + 1) - read
<1>1. /\ pc = "sweep" /\ pc' = pc /\ read <= count /\ read' = read + 1
      /\ read \in Nat /\ objects \in Seq(Address)
  BY DEF Inv, TypeOK, SweepKeep, SweepFree
<1>2. count' = count
  <2>1. CASE SweepKeep
    <3>1. objects' = [objects EXCEPT ![write + 1] = objects[read]]
      BY <2>1 DEF SweepKeep
    <3> QED BY <1>1, <3>1, StepTypes, <2>1 DEF Inv, TypeOK, count, Next, CollectorStep
  <2>2. CASE SweepFree
    BY <2>2 DEF SweepFree, count
  <2> QED BY <2>1, <2>2
<1>3. count \in Nat
  BY <1>1 DEF count
<1> QED BY <1>1, <1>2, <1>3

\* A collection comes to an end, cyclic data included: the mark phase cannot
\* push a block it has marked, so that words, pushes and pops are bounded by
\* the blocks there are (rsg_gc.c:133-152), and the sweep is a single pass
\* (rsg_gc.c:200-212).
THEOREM CollectionEnds == Spec => CollectionAdvances
<1>. DEFINE A == /\ pc = "mark" => pc' \in {"mark", "sweep"}
                 /\ pc = "mark" /\ pc' = "mark" =>
                      /\ IsFiniteSet(Unmarked) /\ Len(worklist) \in Nat /\ IsFiniteSet(scan)
                      /\ \/ Unmarked' \subseteq Unmarked /\ Unmarked' # Unmarked
                         \/ Unmarked' = Unmarked /\ Len(worklist') < Len(worklist)
                         \/ /\ Unmarked' = Unmarked /\ worklist' = worklist
                            /\ scan' \subseteq scan /\ scan' # scan
                 /\ pc = "sweep" => pc' \in {"sweep", "run", "malloc"}
                 /\ pc = "sweep" /\ pc' = "sweep" =>
                      /\ (count + 1) - read \in Nat /\ (count' + 1) - read' \in Nat
                      /\ (count' + 1) - read' < (count + 1) - read
<1>1. ASSUME Inv, Next
      PROVE  A
  <2>1. /\ IsFiniteSet(Unmarked) /\ IsFiniteSet(scan) /\ Len(worklist) \in Nat
    BY <1>1, Finitely DEF Inv, TypeOK
  <2>2. ASSUME NEW v \in Word, MarkValue(v)
        PROVE  A
    BY <1>1, <2>1, <2>2, MarkValueAdvances
  <2>3. CASE Trace
    <3>1. Len(worklist') < Len(worklist)
      BY <1>1, <2>1, <2>3, TraceAdvances
    <3> QED BY <1>1, <2>1, <2>3, <3>1, TraceAdvances
  <2>4. CASE StartSweep
    BY <2>4 DEF StartSweep
  <2>5. CASE SweepKeep \/ SweepFree
    BY <1>1, <2>5, SweepAdvances
  <2>6. CASE Finish
    BY <2>6 DEF Finish
  <2>7. CASE pc \notin {"mark", "sweep"}
    BY <2>7
  <2>8. ASSUME NEW s, NEW n, ProgramStep \/ AddRoot(s) \/ RemoveRoot(s) \/ Collect
                             \/ HeapAlloc(n) \/ Malloc \/ OutOfMemory
        PROVE  pc \notin {"mark", "sweep"}
    BY <2>8 DEF ProgramStep, AddRoot, RemoveRoot, Collect, HeapAlloc, Malloc, OutOfMemory
  <2>. HIDE DEF A
  <2> QED BY <1>1, <2>2, <2>3, <2>4, <2>5, <2>6, <2>7, <2>8 DEF Next, CollectorStep
<1>2. Inv /\ [Next]_vars => [A]_vars
  <2>. HIDE DEF A
  <2> QED BY <1>1
<1> QED BY <1>2, InvHolds, PTL DEF Spec, CollectionAdvances

\* Each block on the worklist has its mark, and each pop keeps it.
Pushed == pc = "mark" => Len(worklist) + Cardinality(Unmarked) <= count

\* A set listed by an array has no more elements than the array.
LEMMA NoMoreThanListed ==
  ASSUME Inv, pc # "sweep"
  PROVE  Cardinality(blocks) \in Nat /\ Cardinality(blocks) <= count /\ count \in Nat
<1>1. count \in Nat /\ blocks = {objects[i] : i \in 1 .. count}
  BY DEF Inv, TypeOK, Index, Live, count
<1>2. IsFiniteSet(1 .. count) /\ Cardinality(1 .. count) = count
  BY <1>1, FS_Interval
<1>. DEFINE at == [i \in 1 .. count |-> objects[i]]
<1>3. at \in Surjection(1 .. count, blocks)
  BY <1>1 DEF Surjection
<1> QED BY <1>1, <1>2, <1>3, FS_Surjection, FS_CardinalityType

LEMMA PushedKept ==
  ASSUME Inv, Pushed, [Next]_vars
  PROVE  Pushed'
<1>1. ASSUME NEW v \in Word, MarkValue(v)
      PROVE  Pushed'
  <2>1. /\ pc = "mark" /\ count' = count
        /\ \/ Unmarked' = Unmarked /\ worklist' = worklist
           \/ \E b \in Unmarked : /\ Unmarked' = Unmarked \ {b}
                                  /\ Len(worklist') = Len(worklist) + 1
    BY <1>1, MarkValueAdvances DEF count
  <2>2. /\ IsFiniteSet(Unmarked) /\ Cardinality(Unmarked) \in Nat
        /\ Len(worklist) \in Nat /\ count \in Nat
    BY Finitely, FS_CardinalityType DEF Inv, TypeOK, count
  <2>3. ASSUME NEW b \in Unmarked, Unmarked' = Unmarked \ {b},
               Len(worklist') = Len(worklist) + 1
        PROVE  Pushed'
    <3>1. Cardinality(Unmarked') = Cardinality(Unmarked) - 1
      BY <2>2, <2>3, FS_RemoveElement
    <3> QED BY <2>1, <2>2, <2>3, <3>1 DEF Pushed
  <2> QED BY <2>1, <2>3 DEF Pushed
<1>2. CASE Trace
  <2>1. /\ pc = "mark" /\ count' = count /\ Unmarked' = Unmarked
        /\ Len(worklist') = Len(worklist) - 1
    BY <1>2, TraceAdvances DEF count
  <2>2. Cardinality(Unmarked) \in Nat /\ Len(worklist) \in Nat /\ count \in Nat
    BY Finitely, FS_CardinalityType DEF Inv, TypeOK, count
  <2> QED BY <2>1, <2>2 DEF Pushed
<1>3. ASSUME NEW n, Collect \/ HeapAlloc(n)
      PROVE  Pushed'
  <2>1. /\ pc = "run" /\ UNCHANGED <<storeVars, objects, marked>>
        /\ pc' = "mark" => worklist' = << >>
    BY <1>3 DEF Collect, HeapAlloc, StartMark
  <2>2. Unmarked' = blocks /\ count' = count
    BY <2>1 DEF Inv, Marks, Unmarked, storeVars, count
  <2>3. Cardinality(blocks) \in Nat /\ Cardinality(blocks) <= count
    BY <2>1, NoMoreThanListed
  <2> QED BY <2>1, <2>2, <2>3 DEF Pushed
<1>4. CASE UNCHANGED vars
  BY <1>4 DEF Pushed, Unmarked, vars, storeVars, collectorVars, count
<1>5. ASSUME NEW s, ProgramStep \/ AddRoot(s) \/ RemoveRoot(s) \/ StartSweep \/ SweepKeep
                    \/ SweepFree \/ Finish \/ Malloc \/ OutOfMemory
      PROVE  pc' # "mark"
  BY <1>5 DEF ProgramStep, collectorVars, AddRoot, RemoveRoot, StartSweep, SweepKeep,
              SweepFree, Finish, Malloc, OutOfMemory
<1> QED BY <1>1, <1>2, <1>3, <1>4, <1>5 DEF Next, CollectorStep, Pushed

\* The worklist is never longer than the array of objects, however the blocks
\* point at each other, so that its buffer, which gc_worklist_push grows in the
\* middle of an allocation, is of 64 entries or less than twice as many as
\* there are objects (rsg_gc.c:123-140).
THEOREM WorklistBounded == Spec => [](pc = "mark" => Len(worklist) <= count)
<1>1. Init => Pushed
  BY DEF Init, Pushed
<1>2. Inv /\ Pushed /\ [Next]_vars => Pushed'
  BY PushedKept
<1>3. Inv /\ Pushed => (pc = "mark" => Len(worklist) <= count)
  <2>. SUFFICES ASSUME Inv, Pushed, pc = "mark" PROVE Len(worklist) <= count
    OBVIOUS
  <2>1. Cardinality(Unmarked) \in Nat /\ Len(worklist) \in Nat /\ count \in Nat
    BY Finitely, FS_CardinalityType DEF Inv, TypeOK, count
  <2> QED BY <2>1 DEF Pushed
<1> QED BY <1>1, <1>2, <1>3, InvHolds, PTL DEF Spec

\* What the sweep keeps, or has marked and not looked at yet, is what the
\* roots reach.
Sifted == pc = "sweep" => Kept \cup marked = Reachable

\* Freeing garbage does not change what is reachable.
LEMMA FreeReaches ==
  ASSUME Inv, SweepFree
  PROVE  Reachable' = Reachable
<1>1. /\ objects[read] \in blocks \ Reachable /\ blocks' = blocks \ {objects[read]}
      /\ Heap!RootWords' = Heap!RootWords
      /\ \A p \in blocks' : /\ Heap!Extent(p)' = Heap!Extent(p)
                            /\ Heap!Contents(p)' = Heap!Contents(p)
  BY SweptIsGarbage, FreeSpares DEF SweepFree
<1>2. /\ Heap!ClosedSet(Reachable) /\ Reachable \subseteq blocks'
      /\ \A S \in SUBSET blocks : Heap!ClosedSet(S) => Reachable \subseteq S
  BY <1>1, HeapFacts DEF Inv
<1>3. \A p \in blocks' : \A v : Heap!Within(p, v)' <=> Heap!Within(p, v)
  BY <1>1 DEF Heap!Within
<1>. DEFINE Closed(S) == 
              /\ \A v \in Heap!RootWords : \A b \in blocks' : Heap!Within(b, v) => b \in S
              /\ \A p \in S : \A v \in Heap!Contents(p) :
                   \A b \in blocks' : Heap!Within(b, v) => b \in S
<1>4. \A b : b \in Reachable' <=>
              b \in blocks' /\ \A S \in SUBSET blocks' : Closed(S) => b \in S
  <2>1. ASSUME NEW S \in SUBSET blocks'
        PROVE  Heap!ClosedSet(S)' <=> Closed(S)
    BY <1>1, <1>3, <2>1 DEF Heap!ClosedSet
  <2>. HIDE DEF Closed
  <2> QED BY <2>1 DEF Reachable, Heap!Reachable
<1>5. Closed(Reachable)
  BY <1>1, <1>2 DEF Heap!ClosedSet
<1>6. ASSUME NEW S \in SUBSET blocks', Closed(S)
      PROVE  Reachable \subseteq S
  <2>1. Heap!ClosedSet(Reachable \cap S)
    BY <1>1, <1>2, <1>6 DEF Heap!ClosedSet
  <2>2. Reachable \cap S \in SUBSET blocks
    BY <1>1
  <2> QED BY <1>2, <2>1, <2>2
<1>. HIDE DEF Closed
<1> QED BY <1>2, <1>4, <1>5, <1>6

LEMMA SiftedKept ==
  ASSUME Inv, Sifted, [Next]_vars
  PROVE  Sifted'
<1>1. CASE StartSweep
  <2>1. /\ pc = "mark" /\ scan = {} /\ worklist = << >> /\ write' = 0
        /\ UNCHANGED <<storeVars, objects, marked, roots>>
    BY <1>1 DEF StartSweep
  <2>2. Kept' = {} /\ marked' = Reachable /\ Reachable' = Reachable
    BY <2>1, MarkedWhenDone, SameHeap DEF Kept
  <2> QED BY <2>2 DEF Sifted
<1>2. CASE SweepKeep
  <2>1. /\ pc = "sweep" /\ objects[read] \in marked /\ marked' = marked \ {objects[read]}
        /\ objects' = [objects EXCEPT ![write + 1] = objects[read]]
        /\ write' = write + 1 /\ UNCHANGED <<storeVars, roots>>
    BY <1>2 DEF SweepKeep
  <2>2. write \in Nat /\ write + 1 \in DOMAIN objects
    BY <1>2 DEF SweepKeep, Inv, TypeOK, Cursors, count
  <2>3. Kept' = Kept \cup {objects[read]}
    <3>1. 1 .. write' = (1 .. write) \cup {write + 1} /\ write + 1 \notin 1 .. write
      BY <2>1, <2>2
    <3>2. objects'[write + 1] = objects[read] /\ \A i \in 1 .. write : objects'[i] = objects[i]
      BY <2>1, <2>2, <3>1
    <3> QED BY <3>1, <3>2 DEF Kept
  <2> QED BY <2>1, <2>3, SameHeap DEF Sifted
<1>3. CASE SweepFree
  <2>1. pc = "sweep" /\ Kept' = Kept /\ marked' = marked
    BY <1>3 DEF SweepFree, Kept
  <2> QED BY <1>3, <2>1, FreeReaches DEF Sifted
<1>4. CASE UNCHANGED vars
  <2>1. /\ pc' = pc /\ Kept' = Kept /\ marked' = marked /\ UNCHANGED <<storeVars, roots>>
    BY <1>4 DEF vars, collectorVars, Kept
  <2> QED BY <2>1, SameHeap DEF Sifted
<1>5. ASSUME NEW s, NEW n, NEW v, ProgramStep \/ AddRoot(s) \/ RemoveRoot(s) \/ Collect
                           \/ HeapAlloc(n) \/ MarkValue(v) \/ Trace \/ Finish \/ Malloc
                           \/ OutOfMemory
      PROVE  pc' # "sweep"
  BY <1>5 DEF ProgramStep, collectorVars, AddRoot, RemoveRoot, Collect, HeapAlloc, StartMark,
              MarkValue, Trace, Finish, Malloc, OutOfMemory
<1> QED BY <1>1, <1>2, <1>3, <1>4, <1>5 DEF Next, CollectorStep, Sifted

\* A collection leaves the reachable blocks and no others: nothing live is
\* lost, and no garbage, cycles of it included, is still there when gc_sweep
\* has gone through the array once (rsg_gc.c:200-232).
THEOREM CollectionExact == Spec => [][Finish => blocks' = Reachable']_vars
<1>1. Init => Sifted
  BY DEF Init, Sifted
<1>2. Inv /\ Sifted /\ [Next]_vars => Sifted'
  BY SiftedKept
<1>3. ASSUME Inv, Sifted, Finish
      PROVE  blocks' = Reachable'
  <2>1. pc = "sweep" /\ read > count /\ UNCHANGED <<storeVars, roots>>
    BY <1>3 DEF Finish
  <2>2. read \in Nat /\ count \in Nat /\ write \in Nat
    BY <1>3 DEF Inv, TypeOK, count
  <2>3. Live = 1 .. write /\ Unswept = {}
    BY <2>1, <2>2 DEF Live, Unswept
  <2>4. blocks = Kept /\ marked = {}
    BY <1>3, <2>1, <2>3 DEF Inv, Index, Kept, Marks, SweepPhase
  <2>5. blocks = Reachable
    BY <1>3, <2>1, <2>4 DEF Sifted
  <2> QED BY <2>1, <2>5, SameHeap DEF storeVars
<1>4. Inv /\ Sifted /\ [Next]_vars => [Finish => blocks' = Reachable']_vars
  BY <1>3
<1> QED BY <1>1, <1>2, <1>4, InvHolds, PTL DEF Spec
=============================================================================
