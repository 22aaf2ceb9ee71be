-------------------------- MODULE ModuleGraph_proofs --------------------------
(***************************************************************************)
(* Proofs about the module graph: what a list without repetitions counts,  *)
(* what a loop that copies some of a list leaves, the invariant of the     *)
(* edges and of the sort, and that of the walk that marks importers.       *)
(***************************************************************************)
EXTENDS ModuleGraph, FiniteSetTheorems, SequenceTheorems, WellFoundedInduction, TLAPS

-----------------------------------------------------------------------------
(* Lists.                                                                  *)

\* No element twice.
Once(s) == \A i, j \in DOMAIN s : s[i] = s[j] => i = j

\* A non-empty set of naturals has a least element.
LEMMA Least ==
  ASSUME NEW T, T \subseteq Nat, T # {}
  PROVE  \E x \in T : \A y \in T : x <= y
<1>1. PICK x \in T : \A y \in T : ~ (<<y, x>> \in OpToRel(<, Nat))
  BY WFMin, NatLessThanWellFounded
<1>2. \A y \in T : ~ (y < x)
  BY <1>1 DEF OpToRel
<1> QED BY <1>2

\* A set that has 0 and, with each number, the next, has them all.
LEMMA Reaches ==
  ASSUME NEW T, 0 \in T, \A n \in Nat : n \in T => n + 1 \in T
  PROVE  Nat \subseteq T
<1>. DEFINE U == {n \in Nat : n \notin T}
<1> SUFFICES ASSUME U # {} PROVE FALSE
  OBVIOUS
<1>1. \E x \in U : \A y \in U : x <= y
  <2>1. U \subseteq Nat
    OBVIOUS
  <2>. HIDE DEF U
  <2> QED BY <2>1, Least
<1>2. PICK x \in Nat : x \notin T /\ \A y \in Nat : y \notin T => x <= y
  BY <1>1
<1>3. x # 0 /\ x - 1 \in Nat /\ ~ (x <= x - 1)
  BY <1>2
<1>4. x - 1 \in T
  BY <1>2, <1>3
<1>5. (x - 1) + 1 = x
  OBVIOUS
<1> QED BY <1>2, <1>3, <1>4, <1>5

\* The elements of a list are those at its places.
LEMMA ElemsAre ==
  ASSUME NEW S, NEW s \in Seq(S)
  PROVE  /\ Len(s) \in Nat /\ DOMAIN s = 1 .. Len(s)
         /\ Elems(s) = {s[i] : i \in 1 .. Len(s)}
         /\ Elems(s) \subseteq S
         /\ s = << >> <=> Elems(s) = {}
<1>1. /\ Len(s) \in Nat /\ DOMAIN s = 1 .. Len(s)
      /\ \A i \in 1 .. Len(s) : s[i] \in S
  BY LenProperties, ElementOfSeq
<1>2. Elems(s) = {s[i] : i \in 1 .. Len(s)} /\ Elems(s) \subseteq S
  BY <1>1 DEF Elems
<1>3. s = << >> => Elems(s) = {}
  BY DEF Elems
<1>4. s # << >> => 1 \in 1 .. Len(s)
  BY <1>1, EmptySeq
<1> QED BY <1>1, <1>2, <1>3, <1>4

\* Appending an element adds it to the elements; a new one is there once.
LEMMA AppendIs ==
  ASSUME NEW S, NEW s \in Seq(S), NEW e \in S
  PROVE  /\ Append(s, e) \in Seq(S)
         /\ Len(Append(s, e)) = Len(s) + 1
         /\ Elems(Append(s, e)) = Elems(s) \cup {e}
         /\ Once(s) /\ e \notin Elems(s) => Once(Append(s, e))
<1>. DEFINE t == Append(s, e)
<1>1. /\ t \in Seq(S) /\ Len(t) = Len(s) + 1
      /\ \A i \in 1 .. Len(s) : t[i] = s[i]
      /\ t[Len(s) + 1] = e
  BY AppendProperties
<1>2. Len(s) \in Nat /\ DOMAIN s = 1 .. Len(s) /\ DOMAIN t = 1 .. (Len(s) + 1)
  BY <1>1, LenProperties
<1>. HIDE DEF t
<1>3. Elems(t) = Elems(s) \cup {e}
  BY <1>1, <1>2 DEF Elems
<1>4. ASSUME Once(s), e \notin Elems(s), NEW i \in DOMAIN t, NEW j \in DOMAIN t,
             t[i] = t[j]
      PROVE  i = j
  <2>1. \A k \in 1 .. Len(s) : s[k] # e
    BY <1>2, <1>4 DEF Elems
  <2>2. \A k \in DOMAIN t : k \in 1 .. Len(s) \/ k = Len(s) + 1
    BY <1>2
  <2>3. CASE i = Len(s) + 1 \/ j = Len(s) + 1
    BY <1>1, <1>4, <2>1, <2>2, <2>3
  <2>4. CASE i \in 1 .. Len(s) /\ j \in 1 .. Len(s)
    BY <1>1, <1>2, <1>4, <2>4 DEF Once
  <2> QED BY <2>2, <2>3, <2>4
<1> QED BY <1>1, <1>3, <1>4 DEF t, Once

\* A list without repetitions has as many elements as places.
LEMMA OnceCounts ==
  ASSUME NEW S, NEW s \in Seq(S), Once(s)
  PROVE  IsFiniteSet(Elems(s)) /\ Cardinality(Elems(s)) = Len(s)
<1>1. Len(s) \in Nat /\ DOMAIN s = 1 .. Len(s) /\ s \in [1 .. Len(s) -> S]
  BY LenProperties
<1>2. s \in [1 .. Len(s) -> Elems(s)]
  BY <1>1 DEF Elems
<1>3. s \in Bijection(1 .. Len(s), Elems(s))
  BY <1>1, <1>2 DEF Bijection, Injection, Surjection, IsInjective, Once, Elems
<1>4. ExistsBijection(1 .. Len(s), Elems(s))
  BY <1>3 DEF ExistsBijection
<1>5. Cardinality(Elems(s)) = Len(s)
  BY <1>1, <1>4, FS_CountingElements
<1>6. IsFiniteSet(Elems(s))
  BY <1>1, <1>4, FS_NatBijection
<1> QED BY <1>5, <1>6

-----------------------------------------------------------------------------
(* What Keep leaves.                                                       *)

\* f is the loop's results after 0, 1, ..., n elements of s.
Keeps(s, S, n, f) ==
  f = [i \in 0 .. n |->
        IF i = 0 THEN << >>
        ELSE IF s[i] \in S THEN Append(f[i - 1], s[i]) ELSE f[i - 1]]

LEMMA KeepsExists ==
  ASSUME NEW s, NEW S, NEW n \in Nat
  PROVE  \E f : Keeps(s, S, n, f)
<1>. DEFINE T == {m \in Nat : \E f : Keeps(s, S, m, f)}
<1>1. 0 \in T
  <2>. DEFINE f == [i \in 0 .. 0 |-> << >>]
  <2>1. Keeps(s, S, 0, f)
    BY DEF Keeps
  <2> QED BY <2>1
<1>2. ASSUME NEW m \in Nat, m \in T
      PROVE  m + 1 \in T
  <2>1. PICK f : Keeps(s, S, m, f)
    BY <1>2
  <2>. DEFINE g == [i \in 0 .. (m + 1) |->
                     IF i <= m THEN f[i]
                     ELSE IF s[m + 1] \in S THEN Append(f[m], s[m + 1]) ELSE f[m]]
  <2>2. \A i \in 0 .. m : g[i] = f[i]
    OBVIOUS
  <2>3. g[m + 1] = IF s[m + 1] \in S THEN Append(g[m], s[m + 1]) ELSE g[m]
    OBVIOUS
  <2>4. \A i \in 0 .. m :
          f[i] = IF i = 0 THEN << >>
                 ELSE IF s[i] \in S THEN Append(f[i - 1], s[i]) ELSE f[i - 1]
    BY <2>1 DEF Keeps
  <2>5. ASSUME NEW i \in 0 .. (m + 1)
        PROVE  g[i] = IF i = 0 THEN << >>
                      ELSE IF s[i] \in S THEN Append(g[i - 1], s[i]) ELSE g[i - 1]
    <3>1. CASE i = m + 1
      BY <2>3, <3>1
    <3>2. CASE i \in 0 .. m
      <4>1. i = 0 \/ i - 1 \in 0 .. m
        BY <3>2
      <4> QED BY <2>2, <2>4, <3>2, <4>1
    <3> QED BY <3>1, <3>2
  <2>6. g = [i \in 0 .. (m + 1) |-> g[i]]
    OBVIOUS
  <2>. HIDE DEF g
  <2>7. Keeps(s, S, m + 1, g)
    BY <2>5, <2>6 DEF Keeps
  <2> QED BY <2>7
<1>3. Nat \subseteq T
  <2>. HIDE DEF T
  <2> QED BY <1>1, <1>2, Reaches
<1> QED BY <1>3

LEMMA KeepIs ==
  ASSUME NEW s, NEW S, Len(s) \in Nat
  PROVE  \E f : Keeps(s, S, Len(s), f) /\ Keep(s, S) = f[Len(s)]
<1>. DEFINE F == CHOOSE f : Keeps(s, S, Len(s), f)
<1>1. Keeps(s, S, Len(s), F)
  BY KeepsExists
<1>2. Keep(s, S) = F[Len(s)]
  BY DEF Keep, Keeps
<1> QED BY <1>1, <1>2

\* A list cut down to S has the elements of the list that are in S, and has
\* none twice when the list has none twice.
LEMMA KeepFacts ==
  ASSUME NEW X, NEW s \in Seq(X), NEW S
  PROVE  /\ Keep(s, S) \in Seq(X)
         /\ Elems(Keep(s, S)) = Elems(s) \cap S
         /\ Once(s) => Once(Keep(s, S))
<1>1. /\ Len(s) \in Nat /\ DOMAIN s = 1 .. Len(s)
      /\ Elems(s) = {s[i] : i \in 1 .. Len(s)}
      /\ \A i \in 1 .. Len(s) : s[i] \in X
  BY ElemsAre, ElementOfSeq
<1>2. PICK f : Keeps(s, S, Len(s), f) /\ Keep(s, S) = f[Len(s)]
  BY <1>1, KeepIs
<1>3. f[0] = << >>
  BY <1>1, <1>2 DEF Keeps
<1>4. \A i \in 0 .. (Len(s) - 1) :
        f[i + 1] = IF s[i + 1] \in S THEN Append(f[i], s[i + 1]) ELSE f[i]
  <2>1. \A i \in 0 .. Len(s) :
          f[i] = IF i = 0 THEN << >>
                 ELSE IF s[i] \in S THEN Append(f[i - 1], s[i]) ELSE f[i - 1]
    BY <1>2 DEF Keeps
  <2> TAKE i \in 0 .. (Len(s) - 1)
  <2>2. i + 1 \in 0 .. Len(s) /\ i + 1 # 0 /\ (i + 1) - 1 = i
    BY <1>1
  <2>3. f[i + 1] = IF i + 1 = 0 THEN << >>
                   ELSE IF s[i + 1] \in S THEN Append(f[(i + 1) - 1], s[i + 1])
                        ELSE f[(i + 1) - 1]
    BY <2>1, <2>2
  <2> QED BY <2>2, <2>3
<1>. DEFINE Upto(i) == {s[j] : j \in 1 .. i}
            Good(i) == /\ f[i] \in Seq(X)
                       /\ Elems(f[i]) = Upto(i) \cap S
                       /\ Once(s) => Once(f[i])
            T == {i \in Nat : i <= Len(s) => Good(i)}
<1>5. 0 \in T
  <2>1. Elems(<< >>) = {} /\ Once(<< >>) /\ << >> \in Seq(X)
    BY EmptySeq DEF Elems, Once
  <2>2. Upto(0) = {}
    OBVIOUS
  <2>. HIDE DEF Upto
  <2> QED BY <1>3, <2>1, <2>2
<1>6. ASSUME NEW i \in Nat, i \in T
      PROVE  i + 1 \in T
  <2> SUFFICES ASSUME i + 1 <= Len(s) PROVE Good(i + 1)
    OBVIOUS
  <2>. DEFINE e == s[i + 1]
  <2>1. i + 1 \in 1 .. Len(s) /\ i \in 0 .. (Len(s) - 1) /\ i <= Len(s)
    BY <1>1
  <2>2. Good(i)
    BY <1>6, <2>1
  <2>3. Upto(i + 1) = Upto(i) \cup {e}
    BY <1>1
  <2>4. e \in X
    BY <1>1, <2>1
  <2>5. f[i + 1] = IF e \in S THEN Append(f[i], e) ELSE f[i]
    BY <1>4, <2>1
  <2>6. Once(s) => e \notin Upto(i)
    <3> SUFFICES ASSUME Once(s), NEW j \in 1 .. i, s[j] = e PROVE FALSE
      OBVIOUS
    <3>1. j \in DOMAIN s /\ i + 1 \in DOMAIN s /\ j # i + 1
      BY <1>1, <2>1
    <3> QED BY <3>1 DEF Once
  <2>. HIDE DEF Upto, e
  <2>7. CASE e \in S
    <3>1. /\ Append(f[i], e) \in Seq(X)
          /\ Elems(Append(f[i], e)) = Elems(f[i]) \cup {e}
          /\ Once(f[i]) /\ e \notin Elems(f[i]) => Once(Append(f[i], e))
      BY <2>2, <2>4, AppendIs
    <3>2. f[i + 1] = Append(f[i], e)
      BY <2>5, <2>7
    <3> QED BY <2>2, <2>3, <2>6, <2>7, <3>1, <3>2
  <2>8. CASE e \notin S
    BY <2>2, <2>3, <2>5, <2>8
  <2> QED BY <2>7, <2>8
<1>7. Nat \subseteq T
  <2>. HIDE DEF T
  <2> QED BY <1>5, <1>6, Reaches
<1>8. Good(Len(s)) /\ Upto(Len(s)) = Elems(s)
  <2>1. Upto(Len(s)) = Elems(s)
    BY <1>1
  <2>2. Len(s) \in T
    <3>. HIDE DEF T
    <3> QED BY <1>1, <1>7
  <2>3. Len(s) <= Len(s) => Good(Len(s))
    <3>. HIDE DEF Good
    <3> QED BY <2>2
  <2> QED BY <1>1, <2>1, <2>3
<1> QED BY <1>2, <1>8

-----------------------------------------------------------------------------
(* The invariant of the edges and of the sort.                             *)

\* Each edge is in both lists, once, and joins two different nodes.
Edge(n, f, g, a, b) ==
  /\ b \in Elems(f[a]) <=> a \in Elems(g[b])
  /\ b \in Elems(f[a]) => a # b /\ a \in Elems(n) /\ b \in Elems(n)

Edges ==
  /\ \A a \in Modules : Once(deps[a]) /\ Once(rdeps[a])
  /\ \A a, b \in Modules : Edge(nodes, deps, rdeps, a, b)

\* The sort takes the nodes without importers, all of them and no others: none
\* of them has an edge for it to take away.
Sorting ==
  pc = "sort" =>
    /\ inDegree = InDegrees
    /\ Once(order \o queue)
    /\ \A m \in Modules :
         m \in Elems(order \o queue) <=> m \in Elems(nodes) /\ rdeps[m] = << >>

\* The place topo_idx gives each node of a sorted graph.
Placed(n, o, t) ==
  /\ Len(o) = Len(n)
  /\ \A m \in Elems(n) : t[m] + 1 \in DOMAIN o /\ o[t[m] + 1] = m

Ordered == sorted /\ pc # "sort" => Placed(nodes, order, topoIdx)

Framed(f) == f \in [node: Modules, next: Nat \ {0}]

Walk ==
  /\ pc = "mark" <=> stack # << >>
  /\ \A j \in 1 .. Len(stack) : Framed(stack[j])

Types ==
  /\ nodes \in Seq(Modules)
  /\ deps \in [Modules -> Seq(Modules)] /\ rdeps \in [Modules -> Seq(Modules)]
  /\ topoIdx \in [Modules -> Int]
  /\ order \in Seq(Modules) /\ queue \in Seq(Modules)
  /\ sorted \in BOOLEAN /\ result \in BOOLEAN
  /\ pc \in {"idle", "sort", "mark"}
  /\ inDegree \in [Modules -> Nat]
  /\ stack \in Seq([node: Modules, next: Nat])
  /\ root \in Modules \cup {NONE}

Listed == Elems(order) \subseteq Elems(nodes) /\ dirty \subseteq Elems(nodes)

Inv == Types /\ Once(nodes) /\ Edges /\ Listed /\ Sorting /\ Ordered /\ Walk

\* A module's degree is nought when no list has it as an import.
LEMMA DegreeZero ==
  ASSUME Types, Once(nodes), Edges, NEW m \in Modules
  PROVE  /\ InDegrees[m] \in Nat
         /\ InDegrees[m] = 0 <=> rdeps[m] = << >>
<1>. DEFINE A == {a \in Elems(nodes) : Imports(a, m)}
<1>1. nodes \in Seq(Modules) /\ rdeps[m] \in Seq(Modules)
  BY DEF Types
<1>2. IsFiniteSet(Elems(nodes)) /\ Elems(nodes) \subseteq Modules
  BY <1>1, OnceCounts, ElemsAre
<1>3. A \in SUBSET Elems(nodes)
  OBVIOUS
<1>4. IsFiniteSet(A) /\ Cardinality(A) \in Nat
  BY <1>2, <1>3, FS_Subset, FS_CardinalityType
<1>5. A = Elems(rdeps[m])
  <2>1. Elems(rdeps[m]) \subseteq Modules
    BY <1>1, ElemsAre
  <2>2. \A a \in Modules : Imports(a, m) => a \in Elems(nodes)
    BY DEF Edges, Edge, Imports
  <2>3. \A a \in Modules : Imports(a, m) <=> a \in Elems(rdeps[m])
    BY DEF Edges, Edge, Imports
  <2> QED BY <1>2, <2>1, <2>2, <2>3
<1>6. InDegrees[m] = Cardinality(A)
  BY DEF InDegrees
<1>. HIDE DEF A
<1>7. Cardinality(A) = 0 <=> A = {}
  BY <1>4, FS_EmptySet
<1>8. rdeps[m] = << >> <=> Elems(rdeps[m]) = {}
  BY <1>1, ElemsAre
<1> QED BY <1>4, <1>5, <1>6, <1>7, <1>8

LEMMA DegreesTyped ==
  ASSUME Types, Once(nodes), Edges
  PROVE  InDegrees \in [Modules -> Nat]
<1>1. \A m \in Modules : InDegrees[m] \in Nat
  BY DegreeZero
<1>2. InDegrees = [m \in Modules |-> InDegrees[m]]
  BY DEF InDegrees
<1> QED BY <1>1, <1>2

LEMMA InitInv == Init => Inv
<1> SUFFICES ASSUME Init PROVE Inv
  OBVIOUS
<1>1. /\ << >> \in Seq(Modules) /\ << >> \in Seq([node: Modules, next: Nat])
      /\ Elems(<< >>) = {} /\ Once(<< >>) /\ Len(<< >>) = 0
  BY EmptySeq DEF Elems, Once
<1>2. Types
  <2>1. deps \in [Modules -> Seq(Modules)] /\ rdeps \in [Modules -> Seq(Modules)]
    BY <1>1 DEF Init
  <2>2. topoIdx \in [Modules -> Int] /\ inDegree \in [Modules -> Nat]
    BY DEF Init
  <2> QED BY <1>1, <2>1, <2>2 DEF Init, Types
<1>3. Edges
  BY <1>1 DEF Init, Edges, Edge
<1> QED BY <1>1, <1>2, <1>3 DEF Init, Inv, Listed, Sorting, Ordered, Walk

\* mod_graph_add.
LEMMA AddKeeps ==
  ASSUME Inv, NEW m \in Modules, Add(m)
  PROVE  Inv'
<1>1. /\ nodes \in Seq(Modules) /\ Once(nodes) /\ m \notin Elems(nodes)
      /\ nodes' = Append(nodes, m)
  BY DEF Inv, Types, Add
<1>2. /\ nodes' \in Seq(Modules) /\ Once(nodes')
      /\ Elems(nodes') = Elems(nodes) \cup {m}
  BY <1>1, AppendIs
<1>3. /\ topoIdx' = [topoIdx EXCEPT ![m] = -1] /\ sorted' = FALSE
      /\ pc = "idle" /\ pc' = pc
      /\ UNCHANGED <<deps, rdeps, order, inDegree, queue, result, dirty, stack, root>>
  BY DEF Add, markVars
<1>4. topoIdx' \in [Modules -> Int]
  BY <1>3 DEF Inv, Types
<1>5. Types'
  BY <1>2, <1>3, <1>4 DEF Inv, Types
<1>6. Edges'
  BY <1>2, <1>3 DEF Inv, Edges, Edge
<1>7. Listed' /\ Sorting' /\ Ordered'
  BY <1>2, <1>3 DEF Inv, Listed, Sorting, Ordered
<1>8. Walk'
  BY <1>3 DEF Inv, Walk
<1> QED BY <1>2, <1>5, <1>6, <1>7, <1>8 DEF Inv

\* mod_graph_add_dep.
LEMMA AddDepKeeps ==
  ASSUME Inv, NEW from \in Modules, NEW to \in Modules, AddDep(from, to)
  PROVE  Inv'
<1>1. /\ deps \in [Modules -> Seq(Modules)] /\ rdeps \in [Modules -> Seq(Modules)]
      /\ Edges
  BY DEF Inv, Types
<1>2. /\ from \in Elems(nodes) /\ to \in Elems(nodes) /\ from # to
      /\ to \notin Elems(deps[from]) /\ pc = "idle" /\ pc' = pc
      /\ deps' = [deps EXCEPT ![from] = Append(deps[from], to)]
      /\ rdeps' = [rdeps EXCEPT ![to] = Append(rdeps[to], from)]
      /\ UNCHANGED <<nodes, topoIdx, order, sorted, inDegree, queue, result,
                     dirty, stack, root>>
  BY DEF AddDep, sortVars, markVars
<1>3. from \notin Elems(rdeps[to])
  BY <1>1, <1>2 DEF Edges, Edge
<1>4. /\ Append(deps[from], to) \in Seq(Modules)
      /\ Elems(Append(deps[from], to)) = Elems(deps[from]) \cup {to}
      /\ Once(Append(deps[from], to))
  BY <1>1, <1>2, AppendIs DEF Edges
<1>5. /\ Append(rdeps[to], from) \in Seq(Modules)
      /\ Elems(Append(rdeps[to], from)) = Elems(rdeps[to]) \cup {from}
      /\ Once(Append(rdeps[to], from))
  BY <1>1, <1>3, AppendIs DEF Edges
<1>6. /\ deps' \in [Modules -> Seq(Modules)] /\ rdeps' \in [Modules -> Seq(Modules)]
      /\ \A a \in Modules : deps'[a] = IF a = from THEN Append(deps[from], to) ELSE deps[a]
      /\ \A a \in Modules : rdeps'[a] = IF a = to THEN Append(rdeps[to], from) ELSE rdeps[a]
  BY <1>1, <1>2, <1>4, <1>5
<1>7. \A a \in Modules : Once(deps'[a]) /\ Once(rdeps'[a])
  BY <1>1, <1>4, <1>5, <1>6 DEF Edges
<1>8. ASSUME NEW a \in Modules, NEW b \in Modules
      PROVE  Edge(nodes, deps', rdeps', a, b)
  <2>1. Edge(nodes, deps, rdeps, a, b)
    BY <1>1 DEF Edges
  <2>2. b \in Elems(deps'[a]) <=> b \in Elems(deps[a]) \/ (a = from /\ b = to)
    BY <1>4, <1>6
  <2>3. a \in Elems(rdeps'[b]) <=> a \in Elems(rdeps[b]) \/ (a = from /\ b = to)
    BY <1>5, <1>6
  <2> QED BY <1>2, <2>1, <2>2, <2>3 DEF Edge
<1>9. Edges'
  BY <1>2, <1>7, <1>8 DEF Edges
<1>10. Types'
  BY <1>2, <1>6 DEF Inv, Types
<1>11. Listed' /\ Sorting' /\ Ordered' /\ Walk' /\ Once(nodes)'
  BY <1>2 DEF Inv, Listed, Sorting, Ordered, Walk
<1> QED BY <1>9, <1>10, <1>11 DEF Inv

\* A list with no repetitions, of the elements of another and as long as it,
\* is an arrangement of it: each element has a place.
LEMMA SameLength ==
  ASSUME NEW S, NEW s \in Seq(S), Once(s), NEW t \in Seq(S), Once(t),
         Elems(s) \subseteq Elems(t), Len(s) = Len(t)
  PROVE  Elems(s) = Elems(t)
<1>1. /\ IsFiniteSet(Elems(t)) /\ Cardinality(Elems(t)) = Len(t)
      /\ Cardinality(Elems(s)) = Len(s)
  BY OnceCounts
<1>2. Elems(s) \in SUBSET Elems(t)
  OBVIOUS
<1>3. Cardinality(Elems(t)) = Cardinality(Elems(s)) => Elems(t) = Elems(s)
  BY <1>1, <1>2, FS_Subset
<1> QED BY <1>1, <1>3

\* The place found for an element is one where it is.
LEMMA PlaceIs ==
  ASSUME NEW S, NEW s \in Seq(S), NEW m \in Elems(s),
         NEW p, p = CHOOSE i \in 0 .. (Len(s) - 1) : s[i + 1] = m
  PROVE  p \in Int /\ p + 1 \in DOMAIN s /\ s[p + 1] = m
<1>1. Len(s) \in Nat /\ DOMAIN s = 1 .. Len(s)
  BY LenProperties
<1>2. PICK j \in 1 .. Len(s) : s[j] = m
  BY <1>1 DEF Elems
<1>3. j - 1 \in 0 .. (Len(s) - 1) /\ (j - 1) + 1 = j
  BY <1>1, <1>2
<1>4. \E i \in 0 .. (Len(s) - 1) : s[i + 1] = m
  BY <1>2, <1>3
<1>5. p \in 0 .. (Len(s) - 1) /\ s[p + 1] = m
  BY <1>4
<1> QED BY <1>1, <1>5

\* The positions that one of the two loops over a list stores in topo_idx.
Places(s, t0) ==
  [m \in Modules |-> IF m \in Elems(s)
                     THEN CHOOSE i \in 0 .. (Len(s) - 1) : s[i + 1] = m
                     ELSE t0[m]]

LEMMA PlacesStored ==
  ASSUME NEW s \in Seq(Modules), NEW t0 \in [Modules -> Int]
  PROVE  /\ Places(s, t0) \in [Modules -> Int]
         /\ \A m \in Elems(s) : Places(s, t0)[m] + 1 \in DOMAIN s
                                /\ s[Places(s, t0)[m] + 1] = m
<1>. DEFINE t == Places(s, t0)
<1>1. Elems(s) \subseteq Modules
  BY ElemsAre
<1>2. \A m \in Elems(s) :
        t[m] \in Int /\ t[m] + 1 \in DOMAIN s /\ s[t[m] + 1] = m
  <2> TAKE m \in Elems(s)
  <2>1. t[m] = CHOOSE i \in 0 .. (Len(s) - 1) : s[i + 1] = m
    BY <1>1 DEF Places
  <2>. HIDE DEF t
  <2> QED BY <2>1, PlaceIs
<1>3. \A m \in Modules : m \notin Elems(s) => t[m] = t0[m]
  BY DEF Places
<1>4. t = [m \in Modules |-> t[m]]
  BY DEF Places
<1>. HIDE DEF t
<1>5. \A m \in Modules : t[m] \in Int
  BY <1>2, <1>3
<1>6. t \in [Modules -> Int]
  BY <1>4, <1>5
<1> QED BY <1>2, <1>6 DEF t

\* mod_graph_topo_sort, up to its loop.
LEMMA StartSortKeeps ==
  ASSUME Inv, StartSort
  PROVE  Inv'
<1>1. /\ nodes \in Seq(Modules) /\ order \in Seq(Modules) /\ Once(nodes)
      /\ Elems(order) \subseteq Elems(nodes)
      /\ topoIdx \in [Modules -> Int]
      /\ Types /\ Edges /\ Walk
  BY DEF Inv, Types, Listed
<1>2. pc = "idle" /\ UNCHANGED <<nodes, deps, rdeps, dirty, stack, root>>
  BY DEF StartSort, edgeVars, markVars
<1>3. CASE nodes = << >>
  <2>1. /\ sorted' = TRUE /\ result' = TRUE
        /\ UNCHANGED <<topoIdx, order, inDegree, queue, pc>>
    BY <1>3 DEF StartSort
  <2>2. Elems(nodes) = {} /\ order = << >> /\ Len(nodes) = Len(order)
    <3>1. Elems(nodes) = {}
      BY <1>3 DEF Elems
    <3>2. Elems(order) = {}
      BY <1>1, <3>1
    <3>3. order = << >>
      BY <1>1, <3>2, ElemsAre
    <3> QED BY <1>3, <3>1, <3>3
  <2>3. Ordered'
    BY <1>2, <2>1, <2>2 DEF Ordered, Placed
  <2>4. Types' /\ Once(nodes)' /\ Edges' /\ Listed'
    BY <1>2, <2>1 DEF Inv, Types, Edges, Listed
  <2>5. Sorting' /\ Walk'
    BY <1>2, <2>1 DEF Inv, Sorting, Walk
  <2> QED BY <2>3, <2>4, <2>5 DEF Inv
<1>4. CASE nodes # << >>
  <2>1. /\ topoIdx' = [m \in Modules |->
                        IF m \in Elems(nodes)
                        THEN CHOOSE i \in 0 .. (Len(nodes) - 1) : nodes[i + 1] = m
                        ELSE topoIdx[m]]
        /\ inDegree' = InDegrees
        /\ queue' = Keep(nodes, {m \in Modules : inDegree'[m] = 0})
        /\ order' = << >> /\ pc' = "sort" /\ UNCHANGED <<sorted, result>>
    BY <1>4 DEF StartSort
  <2>2. topoIdx' \in [Modules -> Int]
    <3>1. topoIdx' = Places(nodes, topoIdx)
      BY <2>1 DEF Places
    <3> QED BY <1>1, <3>1, PlacesStored
  <2>3. inDegree' \in [Modules -> Nat]
    BY <1>1, <2>1, DegreesTyped
  <2>. DEFINE Z == {m \in Modules : inDegree'[m] = 0}
  <2>4. /\ queue' \in Seq(Modules) /\ Elems(queue') = Elems(nodes) \cap Z
        /\ Once(queue')
    <3>1. queue' = Keep(nodes, Z)
      BY <2>1
    <3>. HIDE DEF Z
    <3> QED BY <1>1, <3>1, KeepFacts
  <2>5. order' \o queue' = queue'
    BY <2>1, <2>4, ConcatEmptySeq
  <2>6. \A m \in Modules : m \in Elems(queue') <=> m \in Elems(nodes) /\ rdeps[m] = << >>
    <3> SUFFICES ASSUME NEW m \in Modules
                 PROVE  m \in Elems(queue') <=> m \in Elems(nodes) /\ rdeps[m] = << >>
      OBVIOUS
    <3>1. m \in Elems(queue') <=> m \in Elems(nodes) /\ InDegrees[m] = 0
      BY <2>1, <2>4
    <3> QED BY <1>1, <3>1, DegreeZero
  <2>7. InDegrees' = InDegrees
    BY <1>2 DEF InDegrees, Imports
  <2>8. Sorting'
    BY <1>2, <2>1, <2>4, <2>5, <2>6, <2>7 DEF Sorting
  <2>9. << >> \in Seq(Modules) /\ Elems(<< >>) = {}
    BY EmptySeq DEF Elems
  <2>10. Types'
    BY <1>1, <1>2, <2>1, <2>2, <2>3, <2>4, <2>9 DEF Types
  <2>11. Edges' /\ Listed' /\ Ordered' /\ Walk' /\ Once(nodes)'
    BY <1>2, <2>1, <2>9 DEF Inv, Edges, Listed, Ordered, Walk
  <2> QED BY <2>8, <2>10, <2>11 DEF Inv
<1> QED BY <1>3, <1>4

\* Moving the head of one list to the end of the other.
LEMMA HeadMoves ==
  ASSUME NEW S, NEW o \in Seq(S), NEW q \in Seq(S), q # << >>
  PROVE  /\ q[1] \in S /\ Append(o, q[1]) \in Seq(S) /\ Tail(q) \in Seq(S)
         /\ Append(o, q[1]) \o Tail(q) = o \o q
         /\ q[1] \in Elems(o \o q)
<1>1. /\ Len(o) \in Nat /\ Len(q) \in Nat \ {0}
      /\ \A i \in 1 .. Len(q) : q[i] \in S
  BY EmptySeq, LenProperties, ElementOfSeq
<1>2. q[1] \in S
  BY <1>1
<1>3. /\ Tail(q) \in Seq(S) /\ Len(Tail(q)) = Len(q) - 1
      /\ \A i \in 1 .. (Len(q) - 1) : Tail(q)[i] = q[i + 1]
  BY HeadTailProperties
<1>. DEFINE a == Append(o, q[1])
            t == Tail(q)
<1>4. /\ a \in Seq(S) /\ Len(a) = Len(o) + 1
      /\ \A i \in 1 .. Len(o) : a[i] = o[i]
      /\ a[Len(o) + 1] = q[1]
  BY <1>2, AppendProperties
<1>5. /\ o \o q \in Seq(S) /\ Len(o \o q) = Len(o) + Len(q)
      /\ \A i \in 1 .. (Len(o) + Len(q)) :
           (o \o q)[i] = IF i <= Len(o) THEN o[i] ELSE q[i - Len(o)]
  BY ConcatProperties
<1>6. t \in Seq(S) /\ Len(t) = Len(q) - 1
      /\ \A i \in 1 .. (Len(q) - 1) : t[i] = q[i + 1]
  BY <1>3
<1>. HIDE DEF a, t
<1>7. /\ a \o t \in Seq(S) /\ Len(a \o t) = Len(a) + Len(t)
      /\ \A i \in 1 .. (Len(a) + Len(t)) :
           (a \o t)[i] = IF i <= Len(a) THEN a[i] ELSE t[i - Len(a)]
  BY <1>4, <1>6, ConcatProperties
<1>8. Len(a \o t) = Len(o \o q) /\ Len(a) + Len(t) = Len(o) + Len(q)
  BY <1>1, <1>4, <1>5, <1>6, <1>7
<1>9. ASSUME NEW i \in 1 .. Len(a \o t)
      PROVE  (a \o t)[i] = (o \o q)[i]
  <2>1. i \in 1 .. (Len(o) + Len(q)) /\ i \in 1 .. (Len(a) + Len(t))
    BY <1>5, <1>8
  <2>2. CASE i <= Len(o)
    BY <1>1, <1>4, <1>5, <1>7, <2>1, <2>2
  <2>3. CASE i = Len(o) + 1
    <3>1. (a \o t)[i] = q[1]
      BY <1>1, <1>4, <1>7, <2>1, <2>3
    <3>2. i - Len(o) = 1 /\ ~ (i <= Len(o))
      BY <1>1, <2>3
    <3>3. (o \o q)[i] = q[i - Len(o)]
      BY <1>5, <2>1, <3>2
    <3> QED BY <3>1, <3>2, <3>3
  <2>4. CASE i > Len(o) + 1
    <3>1. /\ i - Len(a) \in 1 .. (Len(q) - 1) /\ (i - Len(a)) + 1 = i - Len(o)
          /\ ~ (i <= Len(a)) /\ ~ (i <= Len(o))
      BY <1>1, <1>4, <2>1, <2>4
    <3>2. (a \o t)[i] = t[i - Len(a)] /\ (o \o q)[i] = q[i - Len(o)]
      BY <1>5, <1>7, <2>1, <3>1
    <3>3. t[i - Len(a)] = q[(i - Len(a)) + 1]
      BY <1>6, <3>1
    <3> QED BY <3>1, <3>2, <3>3
  <2> QED BY <1>1, <2>1, <2>2, <2>3, <2>4
<1>10. a \o t = o \o q
  BY <1>5, <1>7, <1>8, <1>9, SeqEqual
<1>11. q[1] \in Elems(o \o q)
  <2>1. /\ Len(o) + 1 \in 1 .. (Len(o) + Len(q)) /\ ~ (Len(o) + 1 <= Len(o))
        /\ (Len(o) + 1) - Len(o) = 1
    BY <1>1
  <2>2. (o \o q)[Len(o) + 1] = q[1]
    BY <1>5, <2>1
  <2>3. Len(o) + 1 \in DOMAIN (o \o q)
    BY <1>5, <2>1, LenProperties
  <2> QED BY <2>2, <2>3 DEF Elems
<1> QED BY <1>2, <1>3, <1>4, <1>10, <1>11 DEF a, t

\* One iteration of the sort's loop: the node has no importer to free.
LEMMA SortNodeKeeps ==
  ASSUME Inv, SortNode
  PROVE  Inv'
<1>. DEFINE n == queue[1]
            all == order \o queue
            Z == {m \in Modules : inDegree'[m] = 0}
<1>1. /\ order \in Seq(Modules) /\ queue \in Seq(Modules)
      /\ inDegree \in [Modules -> Nat] /\ Listed
  BY DEF Inv, Types
<1>2. /\ pc = "sort" /\ queue # << >> /\ pc' = pc
      /\ order' = Append(order, n)
      /\ inDegree' = [m \in Modules |-> IF m \in Elems(rdeps[n])
                                        THEN inDegree[m] - 1 ELSE inDegree[m]]
      /\ queue' = Tail(queue) \o Keep(rdeps[n], Z)
      /\ UNCHANGED <<nodes, deps, rdeps, topoIdx, sorted, result, dirty, stack, root>>
  BY DEF SortNode, edgeVars, markVars
<1>3. /\ n \in Modules /\ order' \in Seq(Modules) /\ Tail(queue) \in Seq(Modules)
      /\ order' \o Tail(queue) = all /\ n \in Elems(all)
  BY <1>1, <1>2, HeadMoves
<1>4. /\ inDegree = InDegrees /\ Once(all)
      /\ \A m \in Modules : m \in Elems(all) <=> m \in Elems(nodes) /\ rdeps[m] = << >>
  BY <1>2 DEF Inv, Sorting
<1>5. rdeps[n] = << >> /\ n \in Elems(nodes)
  BY <1>3, <1>4
<1>. HIDE DEF Z
<1>6. << >> \in Seq(Modules) /\ Elems(<< >>) = {}
  BY EmptySeq DEF Elems
<1>7. Keep(<< >>, Z) = << >>
  <2>1. Keep(<< >>, Z) \in Seq(Modules) /\ Elems(Keep(<< >>, Z)) = {}
    <3>1. /\ Keep(<< >>, Z) \in Seq(Modules)
          /\ Elems(Keep(<< >>, Z)) = Elems(<< >>) \cap Z
      BY <1>6, KeepFacts
    <3> QED BY <1>6, <3>1
  <2> QED BY <2>1, ElemsAre
<1>. HIDE DEF n, all
<1>8. queue' = Tail(queue)
  BY <1>2, <1>3, <1>5, <1>7, ConcatEmptySeq
<1>9. inDegree' = inDegree
  <2>1. inDegree' = [m \in Modules |-> inDegree[m]]
    BY <1>2, <1>5, <1>6
  <2> QED BY <1>1, <2>1
<1>10. InDegrees' = InDegrees
  BY <1>2 DEF InDegrees, Imports
<1>11. order' \o queue' = all
  BY <1>3, <1>8
<1>12. Sorting'
  BY <1>2, <1>4, <1>9, <1>10, <1>11 DEF Sorting
<1>13. Elems(order') \subseteq Elems(nodes)
  <2>1. Elems(order') = Elems(order) \cup {n}
    BY <1>1, <1>2, <1>3, AppendIs
  <2> QED BY <1>1, <1>5, <2>1 DEF Listed
<1>14. Types'
  BY <1>1, <1>2, <1>3, <1>8, <1>9 DEF Inv, Types
<1>15. Edges' /\ Listed' /\ Ordered' /\ Walk' /\ Once(nodes)'
  BY <1>2, <1>13 DEF Inv, Edges, Listed, Ordered, Walk
<1> QED BY <1>12, <1>14, <1>15 DEF Inv

\* The end of the sort: it succeeds when the order is as long as the graph.
LEMMA EndSortKeeps ==
  ASSUME Inv, EndSort
  PROVE  Inv'
<1>1. /\ nodes \in Seq(Modules) /\ order \in Seq(Modules) /\ queue \in Seq(Modules)
      /\ topoIdx \in [Modules -> Int] /\ Once(nodes) /\ Listed
  BY DEF Inv, Types
<1>2. /\ pc = "sort" /\ queue = << >> /\ pc' = "idle"
      /\ result' = (Len(order) = Len(nodes)) /\ sorted' = result'
      /\ inDegree' = [m \in Modules |-> 0]
      /\ UNCHANGED <<nodes, deps, rdeps, queue, dirty, stack, root>>
  BY DEF EndSort, edgeVars, markVars
<1>3. Once(order)
  <2>1. order \o queue = order
    BY <1>1, <1>2, ConcatEmptySeq
  <2>2. Once(order \o queue)
    BY <1>2 DEF Inv, Sorting
  <2> QED BY <2>1, <2>2
<1>4. inDegree' \in [Modules -> Nat]
  BY <1>2
<1>5. CASE result'
  <2>1. /\ topoIdx' = [m \in Modules |->
                        IF m \in Elems(order)
                        THEN CHOOSE i \in 0 .. (Len(order) - 1) : order[i + 1] = m
                        ELSE topoIdx[m]]
        /\ order' = order /\ Len(order) = Len(nodes)
    BY <1>2, <1>5 DEF EndSort
  <2>2. Elems(order) = Elems(nodes)
    BY <1>1, <1>3, <2>1, SameLength DEF Listed
  <2>3. /\ topoIdx' \in [Modules -> Int]
        /\ \A m \in Elems(order) : topoIdx'[m] + 1 \in DOMAIN order
                                   /\ order[topoIdx'[m] + 1] = m
    <3>1. topoIdx' = Places(order, topoIdx)
      BY <2>1 DEF Places
    <3> QED BY <1>1, <3>1, PlacesStored
  <2>4. Ordered'
    BY <1>2, <2>1, <2>2, <2>3 DEF Ordered, Placed
  <2>5. Types'
    BY <1>1, <1>2, <1>4, <2>1, <2>3 DEF Inv, Types
  <2>6. Edges' /\ Listed' /\ Sorting' /\ Walk' /\ Once(nodes)'
    BY <1>2, <2>1 DEF Inv, Edges, Listed, Sorting, Walk
  <2> QED BY <2>4, <2>5, <2>6 DEF Inv
<1>6. CASE ~ result'
  <2>1. order' = << >> /\ topoIdx' = topoIdx
    BY <1>6 DEF EndSort
  <2>2. << >> \in Seq(Modules) /\ Elems(<< >>) = {}
    BY EmptySeq DEF Elems
  <2>3. Types'
    BY <1>1, <1>2, <1>4, <2>1, <2>2 DEF Inv, Types
  <2>4. Edges' /\ Listed' /\ Sorting' /\ Ordered' /\ Walk' /\ Once(nodes)'
    BY <1>2, <1>6, <2>1, <2>2 DEF Inv, Edges, Listed, Sorting, Ordered, Walk
  <2> QED BY <2>3, <2>4 DEF Inv
<1> QED BY <1>5, <1>6

\* An element of the sequence of importers of a node is a node.
LEMMA ImporterIs ==
  ASSUME Inv, NEW n \in Modules, NEW i \in 1 .. Len(rdeps[n])
  PROVE  /\ rdeps[n][i] \in Modules /\ rdeps[n][i] \in Elems(nodes)
         /\ rdeps[n][i] \in Elems(rdeps[n])
<1>1. rdeps[n] \in Seq(Modules)
  BY DEF Inv, Types
<1>2. rdeps[n][i] \in Modules /\ rdeps[n][i] \in Elems(rdeps[n])
  BY <1>1, ElementOfSeq, ElemsAre
<1>3. rdeps[n][i] \in Elems(nodes)
  <2>. DEFINE a == rdeps[n][i]
  <2>1. Edge(nodes, deps, rdeps, a, n)
    BY <1>2 DEF Inv, Edges
  <2> QED BY <1>2, <2>1 DEF Edge
<1> QED BY <1>2, <1>3

\* mod_graph_mark_dirty, as far as its recursion.
LEMMA MarkDirtyKeeps ==
  ASSUME Inv, NEW n \in Modules, MarkDirty(n)
  PROVE  Inv'
<1>1. /\ pc = "idle" /\ n \in Elems(nodes) /\ root' = n /\ dirty' = dirty \cup {n}
      /\ UNCHANGED <<nodes, deps, rdeps, topoIdx, order, sorted, inDegree, queue, result>>
  BY DEF MarkDirty, edgeVars, sortVars
<1>2. stack = << >>
  BY <1>1 DEF Inv, Walk
<1>3. Once(nodes)' /\ Edges' /\ Listed'
  BY <1>1 DEF Inv, Edges, Listed
<1>4. CASE n \in dirty
  <2>1. stack' = stack /\ pc' = pc
    BY <1>4 DEF MarkDirty
  <2> QED BY <1>1, <1>3, <2>1 DEF Inv, Types, Sorting, Ordered, Walk
<1>5. CASE n \notin dirty
  <2>. DEFINE f == [node |-> n, next |-> 1]
  <2>1. stack' = <<f>> /\ pc' = "mark"
    BY <1>5 DEF MarkDirty
  <2>2. Framed(f) /\ f \in [node: Modules, next: Nat]
    BY DEF Framed
  <2>. HIDE DEF f
  <2>3. stack' \in Seq([node: Modules, next: Nat])
    BY <2>1, <2>2
  <2>4. Walk'
    BY <2>1, <2>2 DEF Walk
  <2>5. Types'
    BY <1>1, <2>1, <2>3 DEF Inv, Types
  <2>6. Sorting' /\ Ordered'
    BY <1>1, <2>1 DEF Inv, Sorting, Ordered
  <2> QED BY <1>3, <2>4, <2>5, <2>6 DEF Inv
<1> QED BY <1>4, <1>5

\* The walk's stack: its top frame moved on one importer.
Moved(s) == [s EXCEPT ![Len(s)] = [node |-> s[Len(s)].node, next |-> s[Len(s)].next + 1]]

LEMMA MovedIs ==
  ASSUME NEW s \in Seq([node: Modules, next: Nat]), s # << >>,
         \A j \in 1 .. Len(s) : Framed(s[j])
  PROVE  /\ Len(s) \in Nat \ {0} /\ Len(s) \in 1 .. Len(s)
         /\ s[Len(s)].node \in Modules /\ s[Len(s)].next \in Nat \ {0}
         /\ Moved(s) = [s EXCEPT ![Len(s)].next = s[Len(s)].next + 1]
         /\ Moved(s) \in Seq([node: Modules, next: Nat]) /\ Len(Moved(s)) = Len(s)
         /\ \A j \in 1 .. Len(s) :
              Moved(s)[j] = IF j = Len(s)
                            THEN [node |-> s[Len(s)].node, next |-> s[Len(s)].next + 1]
                            ELSE s[j]
         /\ \A j \in 1 .. Len(s) : Framed(Moved(s)[j])
<1>. DEFINE d == Len(s)
            R == [node: Modules, next: Nat]
            f == [node |-> s[d].node, next |-> s[d].next + 1]
<1>1. d \in Nat \ {0} /\ d \in 1 .. d /\ s \in [1 .. d -> R]
  <2>. HIDE DEF R
  <2>1. s \in Seq(R)
    BY DEF R
  <2>2. d \in Nat \ {0}
    BY <2>1, EmptySeq
  <2>3. s \in [1 .. d -> R]
    BY <2>1, LenProperties
  <2> QED BY <2>2, <2>3
<1>2. Framed(s[d])
  BY <1>1
<1>3. s[d].node \in Modules /\ s[d].next \in Nat \ {0}
  BY <1>2 DEF Framed
<1>4. f \in R /\ Framed(f)
  BY <1>3 DEF Framed
<1>5. [s EXCEPT ![d].next = s[d].next + 1] = [s EXCEPT ![d] = f]
  <2>1. s[d] = [node |-> s[d].node, next |-> s[d].next]
    BY <1>2 DEF Framed
  <2>2. [s[d] EXCEPT !.next = s[d].next + 1] = f
    BY <2>1
  <2> QED BY <2>2
<1>6. Moved(s) = [s EXCEPT ![d] = f]
  BY DEF Moved
<1>. HIDE DEF f, R
<1>7. /\ [s EXCEPT ![d] = f] \in Seq(R) /\ Len([s EXCEPT ![d] = f]) = d
      /\ \A j \in 1 .. d : [s EXCEPT ![d] = f][j] = IF j = d THEN f ELSE s[j]
  <2>1. s \in Seq(R)
    BY DEF R
  <2> QED BY <1>1, <1>4, <2>1, ExceptSeq
<1>8. \A j \in 1 .. d : Framed(Moved(s)[j])
  BY <1>4, <1>6, <1>7
<1> QED BY <1>1, <1>3, <1>5, <1>6, <1>7, <1>8 DEF f, R

\* Dropping the top frame.
LEMMA PoppedIs ==
  ASSUME NEW S, NEW s \in Seq(S), s # << >>
  PROVE  /\ Len(s) \in Nat \ {0}
         /\ SubSeq(s, 1, Len(s) - 1) \in Seq(S)
         /\ Len(SubSeq(s, 1, Len(s) - 1)) = Len(s) - 1
         /\ \A j \in 1 .. (Len(s) - 1) : SubSeq(s, 1, Len(s) - 1)[j] = s[j]
         /\ SubSeq(s, 1, Len(s) - 1) = << >> <=> Len(s) = 1
<1>. DEFINE t == SubSeq(s, 1, Len(s) - 1)
<1>1. Len(s) \in Nat \ {0} /\ \A i \in 1 .. Len(s) : s[i] \in S
  BY EmptySeq, ElementOfSeq
<1>2. \A i \in 1 .. (Len(s) - 1) : s[i] \in S
  BY <1>1
<1>3. /\ t \in Seq(S)
      /\ \A i \in 1 .. ((Len(s) - 1) - 1 + 1) : t[i] = s[1 + i - 1]
  BY <1>1, <1>2, SubSeqProperties
<1>4. Len(t) = Len(s) - 1
  <2>1. Len(t) = IF 1 <= Len(s) - 1 THEN (Len(s) - 1) - 1 + 1 ELSE 0
    BY <1>1, <1>2, SubSeqProperties
  <2>2. Len(s) \in Nat \ {0}
    BY <1>1
  <2>. DEFINE d == Len(s)
              e == Len(t)
  <2>3. e = IF 1 <= d - 1 THEN (d - 1) - 1 + 1 ELSE 0
    BY <2>1
  <2>4. d \in Nat \ {0}
    BY <2>2
  <2>. HIDE DEF t, d, e
  <2>5. CASE 1 <= d - 1
    BY <2>3, <2>4, <2>5 DEF d, e
  <2>6. CASE ~ (1 <= d - 1)
    <3>1. d = 1 /\ e = 0
      BY <2>3, <2>4, <2>6
    <3> QED BY <3>1 DEF d, e
  <2> QED BY <2>5, <2>6
<1>. HIDE DEF t
<1>5. \A j \in 1 .. (Len(s) - 1) : t[j] = s[j]
  <2> TAKE j \in 1 .. (Len(s) - 1)
  <2>1. j \in 1 .. ((Len(s) - 1) - 1 + 1) /\ 1 + j - 1 = j
    BY <1>1
  <2>2. t[j] = s[1 + j - 1]
    BY <1>3, <2>1
  <2> QED BY <2>1, <2>2
<1>6. t = << >> <=> Len(t) = 0
  BY <1>3, EmptySeq
<1> QED BY <1>1, <1>3, <1>4, <1>5, <1>6 DEF t

\* What mark_dirty_recursive does next: the cases of MarkImporter.
LEMMA MarkCases ==
  ASSUME Inv, MarkImporter
  PROVE  LET n == stack[Len(stack)].node
             i == stack[Len(stack)].next
             x == rdeps[n][i]
         IN /\ pc = "mark" /\ stack # << >>
            /\ stack \in Seq([node: Modules, next: Nat])
            /\ \A j \in 1 .. Len(stack) : Framed(stack[j])
            /\ n \in Modules /\ i \in Nat \ {0}
            /\ \/ /\ i \in 1 .. Len(rdeps[n]) /\ x \in dirty
                  /\ dirty' = dirty /\ stack' = Moved(stack) /\ pc' = pc
               \/ /\ i \in 1 .. Len(rdeps[n]) /\ x \notin dirty
                  /\ dirty' = dirty \cup {x} /\ pc' = pc
                  /\ stack' = Append(Moved(stack), [node |-> x, next |-> 1])
               \/ /\ i > Len(rdeps[n])
                  /\ dirty' = dirty /\ stack' = SubSeq(stack, 1, Len(stack) - 1)
                  /\ pc' = IF Len(stack) = 1 THEN "idle" ELSE "mark"
<1>. DEFINE n == stack[Len(stack)].node
            i == stack[Len(stack)].next
            x == rdeps[n][i]
<1>1. /\ pc = "mark" /\ stack # << >>
      /\ stack \in Seq([node: Modules, next: Nat])
      /\ \A j \in 1 .. Len(stack) : Framed(stack[j])
  BY DEF Inv, Types, Walk, MarkImporter
<1>2. /\ n \in Modules /\ i \in Nat \ {0}
      /\ Moved(stack) = [stack EXCEPT ![Len(stack)].next = i + 1]
  BY <1>1, MovedIs
<1>3. rdeps[n] \in Seq(Modules) /\ Len(rdeps[n]) \in Nat
  BY <1>2 DEF Inv, Types
<1>4. CASE i <= Len(rdeps[n])
  <2>1. i \in 1 .. Len(rdeps[n])
    BY <1>2, <1>3, <1>4
  <2>2. /\ dirty' = dirty \cup {x} /\ pc' = pc
        /\ stack' = IF x \in dirty THEN Moved(stack)
                    ELSE Append(Moved(stack), [node |-> x, next |-> 1])
    BY <1>2, <1>4 DEF MarkImporter
  <2> QED BY <1>1, <1>2, <2>1, <2>2
<1>5. CASE ~ (i <= Len(rdeps[n]))
  <2>1. i > Len(rdeps[n])
    BY <1>2, <1>3, <1>5
  <2>2. /\ dirty' = dirty /\ stack' = SubSeq(stack, 1, Len(stack) - 1)
        /\ pc' = IF Len(stack) = 1 THEN "idle" ELSE "mark"
    BY <1>5 DEF MarkImporter
  <2> QED BY <1>1, <1>2, <2>1, <2>2
<1> QED BY <1>4, <1>5

LEMMA MarkImporterKeeps ==
  ASSUME Inv, MarkImporter
  PROVE  Inv'
<1>. DEFINE n == stack[Len(stack)].node
            i == stack[Len(stack)].next
            x == rdeps[n][i]
            R == [node: Modules, next: Nat]
<1>1. /\ pc = "mark" /\ stack # << >> /\ stack \in Seq(R)
      /\ \A j \in 1 .. Len(stack) : Framed(stack[j])
      /\ n \in Modules /\ i \in Nat \ {0}
  BY MarkCases
<1>2. UNCHANGED <<nodes, deps, rdeps, topoIdx, order, sorted, inDegree, queue, result, root>>
  BY DEF MarkImporter, edgeVars, sortVars
<1>3. /\ Len(stack) \in Nat \ {0} /\ Moved(stack) \in Seq(R)
      /\ Len(Moved(stack)) = Len(stack)
      /\ \A j \in 1 .. Len(stack) : Framed(Moved(stack)[j])
  BY <1>1, MovedIs
<1>4. Edges' /\ Once(nodes)'
  BY <1>2 DEF Inv, Edges
<1>. HIDE DEF R
<1>5. /\ stack' \in Seq(R) /\ pc' \in {"idle", "mark"}
      /\ pc' = "mark" <=> stack' # << >>
      /\ \A j \in 1 .. Len(stack') : Framed(stack'[j])
      /\ dirty' \subseteq Elems(nodes)
  <2>1. dirty \subseteq Elems(nodes)
    BY DEF Inv, Listed
  <2>2. CASE dirty' = dirty /\ stack' = Moved(stack) /\ pc' = pc
    <3>1. Moved(stack) # << >>
      BY <1>3, EmptySeq
    <3> QED BY <1>1, <1>3, <2>1, <2>2, <3>1
  <2>3. CASE /\ i \in 1 .. Len(rdeps[n]) /\ dirty' = dirty \cup {x} /\ pc' = pc
             /\ stack' = Append(Moved(stack), [node |-> x, next |-> 1])
    <3>. DEFINE f == [node |-> x, next |-> 1]
    <3>1. x \in Modules /\ x \in Elems(nodes)
      BY <1>1, <2>3, ImporterIs
    <3>2. f \in R /\ Framed(f)
      BY <3>1 DEF R, Framed
    <3>3. stack' = Append(Moved(stack), f)
      BY <2>3
    <3>. HIDE DEF f
    <3>4. /\ stack' \in Seq(R) /\ stack' # << >> /\ Len(stack') = Len(stack) + 1
          /\ \A j \in 1 .. Len(stack) : stack'[j] = Moved(stack)[j]
          /\ stack'[Len(stack) + 1] = f
      BY <1>3, <3>2, <3>3, AppendProperties
    <3>5. \A j \in 1 .. Len(stack') : Framed(stack'[j])
      BY <1>3, <3>2, <3>4
    <3> QED BY <1>1, <2>1, <2>3, <3>1, <3>4, <3>5
  <2>4. CASE /\ dirty' = dirty /\ stack' = SubSeq(stack, 1, Len(stack) - 1)
             /\ pc' = IF Len(stack) = 1 THEN "idle" ELSE "mark"
    <3>1. /\ stack' \in Seq(R) /\ Len(stack') = Len(stack) - 1
          /\ \A j \in 1 .. (Len(stack) - 1) : stack'[j] = stack[j]
          /\ stack' = << >> <=> Len(stack) = 1
      BY <1>1, <2>4, PoppedIs
    <3>2. \A j \in 1 .. Len(stack') : Framed(stack'[j])
      BY <1>1, <1>3, <3>1
    <3> QED BY <2>1, <2>4, <3>1, <3>2
  <2> QED BY <2>2, <2>3, <2>4, MarkCases
<1>6. Listed'
  BY <1>2, <1>5 DEF Inv, Listed
<1>7. Types'
  BY <1>2, <1>5 DEF Inv, Types, R
<1>8. Sorting' /\ Ordered' /\ Walk'
  BY <1>1, <1>2, <1>5 DEF Inv, Sorting, Ordered, Walk
<1> QED BY <1>4, <1>6, <1>7, <1>8 DEF Inv

\* The invariant is inductive.
LEMMA NextKeepsInv ==
  ASSUME Inv, [Next]_vars
  PROVE  Inv'
<1>1. ASSUME NEW m \in Modules, Add(m) PROVE Inv'
  BY <1>1, AddKeeps
<1>2. ASSUME NEW m \in Modules, MarkDirty(m) PROVE Inv'
  BY <1>2, MarkDirtyKeeps
<1>3. ASSUME NEW a \in Modules, NEW b \in Modules, AddDep(a, b) PROVE Inv'
  BY <1>3, AddDepKeeps
<1>4. CASE StartSort
  BY <1>4, StartSortKeeps
<1>5. CASE SortNode
  BY <1>5, SortNodeKeeps
<1>6. CASE EndSort
  BY <1>6, EndSortKeeps
<1>7. CASE MarkImporter
  BY <1>7, MarkImporterKeeps
<1>8. CASE UNCHANGED vars
  <2>1. InDegrees' = InDegrees
    BY <1>8 DEF vars, edgeVars, InDegrees, Imports
  <2> QED BY <1>8, <2>1 DEF vars, edgeVars, sortVars, markVars, Inv, Types, Edges,
             Listed, Sorting, Ordered, Walk
<1> QED BY <1>1, <1>2, <1>3, <1>4, <1>5, <1>6, <1>7, <1>8 DEF Next, Running

LEMMA InvHolds == Spec => []Inv
<1>1. Init => Inv
  BY InitInv
<1>2. Inv /\ [Next]_vars => Inv'
  BY NextKeepsInv
<1> QED BY <1>1, <1>2, PTL DEF Spec

-----------------------------------------------------------------------------
(* The invariant of the walk, over the stack s, importers r and dirty D.   *)

\* All importers of y are dirty.
Settled(y, r, D) == \A k \in 1 .. Len(r[y]) : r[y][k] \in D

\* Those an activation has been through are.
Passed(f, r, D) == \A k \in 1 .. Len(r[f.node]) : k < f.next => r[f.node][k] \in D

\* A dirty node is settled, or has an activation that will settle it.
Walking(s, r, D) ==
  /\ \A j \in 1 .. Len(s) : Passed(s[j], r, D)
  /\ \A y \in D : Settled(y, r, D) \/ \E j \in 1 .. Len(s) : s[j].node = y

WalkInv == Walking(stack, rdeps, dirty) /\ (root # NONE => root \in dirty)

LEMMA InitWalk == Init => WalkInv
<1> SUFFICES ASSUME Init PROVE WalkInv
  OBVIOUS
<1>1. stack = << >> /\ dirty = {} /\ root = NONE /\ Len(<< >>) = 0
  BY DEF Init
<1> QED BY <1>1 DEF WalkInv, Walking

\* An edge to a node that is not dirty leaves the dirty ones settled.
LEMMA AddDepWalk ==
  ASSUME Inv, WalkInv, ~ LATE_EDGES,
         NEW from \in Modules, NEW to \in Modules, AddDep(from, to)
  PROVE  WalkInv'
<1>1. /\ pc = "idle" /\ to \notin dirty
      /\ rdeps' = [rdeps EXCEPT ![to] = Append(rdeps[to], from)]
      /\ UNCHANGED <<dirty, stack, root>>
  BY DEF AddDep, markVars
<1>2. stack = << >> /\ Len(<< >>) = 0
  BY <1>1 DEF Inv, Walk
<1>3. dirty \subseteq Modules
  BY ElemsAre DEF Inv, Types, Listed
<1>4. \A y \in dirty : rdeps'[y] = rdeps[y]
  BY <1>1, <1>3 DEF Inv, Types
<1>5. \A y \in dirty : Settled(y, rdeps, dirty)
  BY <1>2 DEF WalkInv, Walking
<1>6. \A y \in dirty : Settled(y, rdeps', dirty)
  BY <1>4, <1>5 DEF Settled
<1>7. Walking(<< >>, rdeps', dirty)
  BY <1>2, <1>6 DEF Walking
<1> QED BY <1>1, <1>2, <1>7 DEF WalkInv

LEMMA MarkDirtyWalk ==
  ASSUME Inv, WalkInv, NEW n \in Modules, MarkDirty(n)
  PROVE  WalkInv'
<1>1. /\ pc = "idle" /\ root' = n /\ dirty' = dirty \cup {n} /\ rdeps' = rdeps
  BY DEF MarkDirty, edgeVars
<1>2. stack = << >> /\ Len(<< >>) = 0
  BY <1>1 DEF Inv, Walk
<1>3. CASE n \in dirty
  <2>1. stack' = stack /\ dirty' = dirty
    BY <1>1, <1>3 DEF MarkDirty
  <2> QED BY <1>1, <1>3, <2>1 DEF WalkInv
<1>4. CASE n \notin dirty
  <2>. DEFINE f == [node |-> n, next |-> 1]
  <2>1. stack' = <<f>> /\ f.node = n /\ f.next = 1
    BY <1>4 DEF MarkDirty
  <2>2. Passed(f, rdeps, dirty')
    BY <2>1 DEF Passed
  <2>. HIDE DEF f
  <2>3. Len(stack') = 1 /\ stack'[1] = f
    BY <2>1
  <2>4. \A y \in dirty : Settled(y, rdeps, dirty')
    BY <1>1, <1>2 DEF WalkInv, Walking, Settled
  <2>5. \A j \in 1 .. Len(stack') : Passed(stack'[j], rdeps, dirty')
    BY <2>2, <2>3
  <2>6. 1 \in 1 .. Len(stack') /\ stack'[1].node = n
    BY <2>1, <2>3
  <2>7. Walking(stack', rdeps, dirty')
    BY <1>1, <2>4, <2>5, <2>6 DEF Walking
  <2> QED BY <1>1, <2>7 DEF WalkInv
<1> QED BY <1>3, <1>4

\* The top activation, and the importer it has come to.
Top(s) == s[Len(s)]
Importer(s, r) == r[Top(s).node][Top(s).next]

\* The activation that moves on has put its importer among the dirty.
LEMMA MoveWalks ==
  ASSUME NEW s \in Seq([node: Modules, next: Nat]), s # << >>,
         \A j \in 1 .. Len(s) : Framed(s[j]),
         NEW r, NEW D, Walking(s, r, D), Top(s).next \in 1 .. Len(r[Top(s).node])
  PROVE  /\ \A j \in 1 .. Len(s) : Passed(Moved(s)[j], r, D \cup {Importer(s, r)})
         /\ \A y \in D : \/ Settled(y, r, D \cup {Importer(s, r)})
                         \/ \E j \in 1 .. Len(s) : Moved(s)[j].node = y
<1>. DEFINE d == Len(s)
            t == Moved(s)
            f == [node |-> s[d].node, next |-> s[d].next + 1]
            E == D \cup {Importer(s, r)}
<1>1. /\ d \in 1 .. d /\ s[d].next \in Nat \ {0}
      /\ \A j \in 1 .. d : t[j] = IF j = d THEN f ELSE s[j]
  BY MovedIs
<1>2. f.node = s[d].node /\ f.next = s[d].next + 1
  OBVIOUS
<1>3. D \subseteq E /\ r[s[d].node][s[d].next] \in E
  BY DEF Importer, Top
<1>. HIDE DEF t, f, E
<1>4. \A j \in 1 .. d : Passed(s[j], r, E)
  BY <1>3 DEF Walking, Passed
<1>5. Passed(f, r, E)
  <2> SUFFICES ASSUME NEW k \in 1 .. Len(r[s[d].node]), k < s[d].next + 1
               PROVE  r[s[d].node][k] \in E
    BY <1>2 DEF Passed
  <2>1. CASE k = s[d].next
    BY <1>3, <2>1
  <2>2. CASE k # s[d].next
    <3>1. k < s[d].next
      BY <1>1, <2>2
    <3>2. Passed(s[d], r, E)
      BY <1>1, <1>4
    <3> QED BY <3>1, <3>2 DEF Passed
  <2> QED BY <2>1, <2>2
<1>6. \A j \in 1 .. d : Passed(t[j], r, E)
  BY <1>1, <1>4, <1>5
<1>7. \A j \in 1 .. d : t[j].node = s[j].node
  BY <1>1, <1>2
<1>8. \A y \in D : Settled(y, r, E) \/ \E j \in 1 .. d : t[j].node = y
  BY <1>3, <1>7 DEF Walking, Settled
<1> QED BY <1>6, <1>8 DEF t, E

LEMMA MarkImporterWalk ==
  ASSUME Inv, WalkInv, MarkImporter
  PROVE  WalkInv'
<1>. DEFINE n == stack[Len(stack)].node
            i == stack[Len(stack)].next
            x == rdeps[n][i]
            R == [node: Modules, next: Nat]
<1>1. /\ pc = "mark" /\ stack # << >> /\ stack \in Seq(R)
      /\ \A j \in 1 .. Len(stack) : Framed(stack[j])
      /\ n \in Modules /\ i \in Nat \ {0}
  BY MarkCases
<1>2. rdeps' = rdeps /\ root' = root
  BY DEF MarkImporter, edgeVars
<1>3. Walking(stack, rdeps, dirty) /\ (root # NONE => root \in dirty)
  BY DEF WalkInv
<1>4. /\ Len(stack) \in Nat \ {0} /\ Moved(stack) \in Seq(R)
      /\ Len(Moved(stack)) = Len(stack)
  BY <1>1, MovedIs
<1>5. CASE /\ i \in 1 .. Len(rdeps[n]) /\ x \in dirty
           /\ dirty' = dirty /\ stack' = Moved(stack) /\ pc' = pc
  <2>1. /\ \A j \in 1 .. Len(stack) : Passed(Moved(stack)[j], rdeps, dirty)
        /\ \A y \in dirty : Settled(y, rdeps, dirty)
                              \/ \E j \in 1 .. Len(stack) : Moved(stack)[j].node = y
    <3>. DEFINE E == dirty \cup {Importer(stack, rdeps)}
    <3>1. E = dirty
      BY <1>5 DEF Importer, Top
    <3>2. Top(stack).next \in 1 .. Len(rdeps[Top(stack).node])
      BY <1>5 DEF Top
    <3>. HIDE DEF n, i, x
    <3>3. /\ \A j \in 1 .. Len(stack) : Passed(Moved(stack)[j], rdeps, E)
          /\ \A y \in dirty : Settled(y, rdeps, E)
                                \/ \E j \in 1 .. Len(stack) : Moved(stack)[j].node = y
      BY <1>1, <1>3, <3>2, MoveWalks
    <3>. HIDE DEF E
    <3> QED BY <3>1, <3>3
  <2>2. Walking(Moved(stack), rdeps, dirty)
    BY <1>4, <2>1 DEF Walking
  <2> QED BY <1>2, <1>3, <1>5, <2>2 DEF WalkInv
<1>6. CASE /\ i \in 1 .. Len(rdeps[n]) /\ x \notin dirty
           /\ dirty' = dirty \cup {x} /\ pc' = pc
           /\ stack' = Append(Moved(stack), [node |-> x, next |-> 1])
  <2>. DEFINE f == [node |-> x, next |-> 1]
              t == Moved(stack)
              d == Len(stack)
              E == dirty \cup {x}
  <2>1. x \in Modules
    BY <1>1, <1>6, ImporterIs
  <2>2. f \in R /\ f.node = x /\ f.next = 1
    BY <2>1
  <2>3. stack' = Append(t, f)
    BY <1>6
  <2>4. /\ \A j \in 1 .. d : Passed(t[j], rdeps, E)
        /\ \A y \in dirty : Settled(y, rdeps, E) \/ \E j \in 1 .. d : t[j].node = y
    <3>1. E = dirty \cup {Importer(stack, rdeps)}
      BY DEF Importer, Top
    <3>2. Top(stack).next \in 1 .. Len(rdeps[Top(stack).node])
      BY <1>6 DEF Top
    <3>. HIDE DEF E, n, i, x, f
    <3> QED BY <1>1, <1>3, <3>1, <3>2, MoveWalks
  <2>5. Passed(f, rdeps, E)
    BY <2>2 DEF Passed
  <2>. HIDE DEF f, t, E, R
  <2>6. /\ Len(stack') = d + 1
        /\ \A j \in 1 .. d : stack'[j] = t[j]
        /\ stack'[d + 1] = f
    <3>1. t \in Seq(R) /\ Len(t) = d
      BY <1>4 DEF t
    <3> QED BY <2>2, <2>3, <3>1, AppendProperties
  <2>7. \A j \in 1 .. Len(stack') : j \in 1 .. d \/ j = d + 1
    BY <1>4, <2>6
  <2>8. \A j \in 1 .. Len(stack') : Passed(stack'[j], rdeps, E)
    BY <2>4, <2>5, <2>6, <2>7
  <2>9. \A j \in 1 .. d : j \in 1 .. Len(stack')
    BY <1>4, <2>6
  <2>10. ASSUME NEW y \in dirty
         PROVE  Settled(y, rdeps, E) \/ \E j \in 1 .. Len(stack') : stack'[j].node = y
    BY <2>4, <2>6, <2>9
  <2>11. d + 1 \in 1 .. Len(stack') /\ stack'[d + 1].node = x
    BY <1>4, <2>2, <2>6
  <2>12. dirty' = E
    BY <1>6 DEF E
  <2>13. Walking(stack', rdeps, E)
    <3>1. \A y \in E : y \in dirty \/ y = x
      BY DEF E
    <3> QED BY <2>8, <2>10, <2>11, <3>1 DEF Walking
  <2>14. root' # NONE => root' \in E
    BY <1>2, <1>3 DEF E
  <2> QED BY <1>2, <2>12, <2>13, <2>14 DEF WalkInv
<1>7. CASE /\ i > Len(rdeps[n])
           /\ dirty' = dirty /\ stack' = SubSeq(stack, 1, Len(stack) - 1)
  <2>1. /\ Len(stack') = Len(stack) - 1
        /\ \A j \in 1 .. (Len(stack) - 1) : stack'[j] = stack[j]
    <3>. HIDE DEF R
    <3> QED BY <1>1, <1>7, PoppedIs
  <2>2. \A j \in 1 .. Len(stack') : j \in 1 .. Len(stack)
    BY <1>4, <2>1
  <2>3. \A j \in 1 .. Len(stack') : Passed(stack'[j], rdeps, dirty)
    BY <1>3, <2>1, <2>2 DEF Walking
  <2>4. Settled(n, rdeps, dirty)
    <3>1. Passed(stack[Len(stack)], rdeps, dirty)
      BY <1>3, <1>4 DEF Walking
    <3>2. Len(rdeps[n]) \in Nat
      BY <1>1, LenProperties DEF Inv, Types
    <3>3. \A k \in 1 .. Len(rdeps[n]) : k < i
      BY <1>1, <1>7, <3>2
    <3> QED BY <3>1, <3>3 DEF Passed, Settled
  <2>5. ASSUME NEW y \in dirty
        PROVE  Settled(y, rdeps, dirty) \/ \E j \in 1 .. Len(stack') : stack'[j].node = y
    <3>1. CASE Settled(y, rdeps, dirty)
      BY <3>1
    <3>2. CASE \E j \in 1 .. Len(stack) : stack[j].node = y
      <4>1. PICK j \in 1 .. Len(stack) : stack[j].node = y
        BY <3>2
      <4>2. CASE j = Len(stack)
        BY <2>4, <4>1, <4>2
      <4>3. CASE j # Len(stack)
        <5>1. j \in 1 .. (Len(stack) - 1) /\ j \in 1 .. Len(stack')
          BY <1>4, <2>1, <4>3
        <5> QED BY <2>1, <4>1, <5>1
      <4> QED BY <4>2, <4>3
    <3> QED BY <1>3, <3>1, <3>2 DEF Walking
  <2>6. Walking(stack', rdeps, dirty)
    BY <2>3, <2>5 DEF Walking
  <2> QED BY <1>2, <1>3, <1>7, <2>6 DEF WalkInv
<1> QED BY <1>5, <1>6, <1>7, MarkCases

LEMMA NextKeepsWalk ==
  ASSUME Inv, WalkInv, ~ LATE_EDGES, [Next]_vars
  PROVE  WalkInv'
<1>1. ASSUME NEW m \in Modules, Add(m) PROVE WalkInv'
  BY <1>1 DEF Add, markVars, WalkInv
<1>2. ASSUME NEW m \in Modules, MarkDirty(m) PROVE WalkInv'
  BY <1>2, MarkDirtyWalk
<1>3. ASSUME NEW a \in Modules, NEW b \in Modules, AddDep(a, b) PROVE WalkInv'
  BY <1>3, AddDepWalk
<1>4. CASE StartSort \/ SortNode \/ EndSort
  BY <1>4 DEF StartSort, SortNode, EndSort, edgeVars, markVars, WalkInv
<1>5. CASE MarkImporter
  BY <1>5, MarkImporterWalk
<1>6. CASE UNCHANGED vars
  BY <1>6 DEF vars, edgeVars, markVars, WalkInv
<1> QED BY <1>1, <1>2, <1>3, <1>4, <1>5, <1>6 DEF Next, Running

LEMMA WalkHolds ==
  ASSUME ~ LATE_EDGES
  PROVE  Spec => [](Inv /\ WalkInv)
<1>1. Init => Inv /\ WalkInv
  BY InitInv, InitWalk
<1>2. (Inv /\ WalkInv) /\ [Next]_vars => (Inv /\ WalkInv)'
  BY NextKeepsInv, NextKeepsWalk
<1> QED BY <1>1, <1>2, PTL DEF Spec

-----------------------------------------------------------------------------
(* The properties of ModuleGraph.                                          *)

\* The graph's lists, the locals of the sort and the stack of the walk keep
\* their types; in_degree never falls below nought (module_graph.c:93-160).
THEOREM TypeCorrect == Spec => []TypeOK
<1>1. Inv => TypeOK
  <2> SUFFICES ASSUME Inv PROVE TypeOK
    OBVIOUS
  <2>1. dirty \subseteq Modules
    BY ElemsAre DEF Inv, Types, Listed
  <2> QED BY <2>1 DEF Inv, Types, TypeOK
<1> QED BY <1>1, InvHolds, PTL

\* Whatever the modules and the order in which edges are added, an edge is in
\* both nodes' lists, once, and no module imports itself
\* (module_graph.c:85-91).
THEOREM EdgesMirroredHolds == Spec => []EdgesMirrored
<1>1. ASSUME NEW s \in Seq(Modules), Once(s), NEW b
      PROVE  Cardinality({i \in DOMAIN s : s[i] = b}) <= 1
  <2>. DEFINE P == {i \in DOMAIN s : s[i] = b}
  <2>1. CASE P = {}
    <3>1. Cardinality({}) = 0
      BY FS_EmptySet
    <3>2. Cardinality(P) = 0
      <4>. HIDE DEF P
      <4> QED BY <2>1, <3>1
    <3> QED BY <3>2
  <2>2. CASE P # {}
    <3>1. PICK i \in DOMAIN s : s[i] = b
      BY <2>2
    <3>2. P = {i}
      BY <1>1, <3>1 DEF Once
    <3>. HIDE DEF P
    <3>3. Cardinality({i}) = 1
      BY FS_Singleton
    <3>4. Cardinality(P) = 1
      BY <3>2, <3>3
    <3> QED BY <3>4 DEF P
  <2> QED BY <2>1, <2>2
<1>2. Inv => EdgesMirrored
  <2> SUFFICES ASSUME Inv, NEW a \in Modules, NEW b \in Modules
               PROVE  /\ b \in Elems(deps[a]) <=> a \in Elems(rdeps[b])
                      /\ a = b => b \notin Elems(deps[a])
                      /\ Cardinality({i \in DOMAIN deps[a] : deps[a][i] = b}) <= 1
                      /\ Cardinality({i \in DOMAIN rdeps[a] : rdeps[a][i] = b}) <= 1
    BY DEF EdgesMirrored
  <2>1. Edge(nodes, deps, rdeps, a, b)
    BY DEF Inv, Edges
  <2>2. /\ deps[a] \in Seq(Modules) /\ Once(deps[a])
        /\ rdeps[a] \in Seq(Modules) /\ Once(rdeps[a])
    BY DEF Inv, Edges, Types
  <2>3. Cardinality({i \in DOMAIN deps[a] : deps[a][i] = b}) <= 1
    BY <1>1, <2>2
  <2>4. Cardinality({i \in DOMAIN rdeps[a] : rdeps[a][i] = b}) <= 1
    BY <1>1, <2>2
  <2> QED BY <2>1, <2>3, <2>4 DEF Edge
<1> QED BY <1>2, InvHolds, PTL

\* In every graph that counts as sorted, each module is in the order once, at
\* its topo_idx, and the dirty set is what is dirty
\* (module_graph.c:133-160, 190-202).
THEOREM OrderIndexedHolds == Spec => []OrderIndexed
<1>1. Inv => OrderIndexed
  <2> SUFFICES ASSUME Inv, sorted, pc # "sort"
               PROVE  /\ Len(order) = Len(nodes)
                      /\ \A m \in Elems(nodes) : /\ topoIdx[m] + 1 \in DOMAIN order
                                                 /\ order[topoIdx[m] + 1] = m
                      /\ Elems(DirtySet) = dirty
    BY DEF OrderIndexed
  <2>1. Placed(nodes, order, topoIdx)
    BY DEF Inv, Ordered
  <2>2. Elems(nodes) \subseteq Elems(order)
    BY <2>1 DEF Placed, Elems
  <2>3. order \in Seq(Modules) /\ dirty \subseteq Elems(order)
    BY <2>2 DEF Inv, Types, Listed
  <2>4. Elems(Keep(order, dirty)) = Elems(order) \cap dirty
    BY <2>3, KeepFacts
  <2>5. Elems(DirtySet) = dirty
    BY <2>3, <2>4 DEF DirtySet
  <2> QED BY <2>1, <2>5 DEF Placed
<1> QED BY <1>1, InvHolds, PTL

\* When no import of a dirty module is added, mod_graph_mark_dirty leaves the
\* node and all its importers, through any chain of imports and round any
\* cycle, dirty (module_graph.h:93-96, module_graph.c:172-187).
THEOREM DirtyPropagatedHolds == ~ LATE_EDGES => (Spec => []DirtyPropagated)
<1> SUFFICES ASSUME ~ LATE_EDGES PROVE Spec => []DirtyPropagated
  OBVIOUS
<1>1. Inv /\ WalkInv => DirtyPropagated
  <2> SUFFICES ASSUME Inv, WalkInv, pc = "idle", root # NONE
               PROVE  {root} \cup Importers(root) \subseteq dirty
    BY DEF DirtyPropagated
  <2>1. stack = << >> /\ Len(<< >>) = 0 /\ root \in dirty
    BY DEF Inv, Walk, WalkInv
  <2>2. \A y \in dirty : Settled(y, rdeps, dirty)
    BY <2>1 DEF WalkInv, Walking
  <2>3. dirty \in SUBSET Modules
    BY ElemsAre DEF Inv, Types, Listed
  <2>4. ASSUME NEW x \in Modules, NEW y \in Modules, Imports(x, y), y \in dirty
        PROVE  x \in dirty
    <3>1. x \in Elems(rdeps[y]) /\ rdeps[y] \in Seq(Modules)
      BY <2>4 DEF Inv, Edges, Edge, Imports, Types
    <3>2. PICK k \in 1 .. Len(rdeps[y]) : rdeps[y][k] = x
      BY <3>1, ElemsAre
    <3>3. Settled(y, rdeps, dirty)
      BY <2>2, <2>4
    <3> QED BY <3>2, <3>3 DEF Settled
  <2>5. \A x, y \in Modules : Imports(x, y) /\ (y = root \/ y \in dirty) => x \in dirty
    BY <2>1, <2>4
  <2>6. \A a \in Importers(root) : a \in dirty
    BY <2>3, <2>5 DEF Importers
  <2> QED BY <2>1, <2>6
<1>2. Spec => [](Inv /\ WalkInv)
  BY WalkHolds
<1> QED BY <1>1, <1>2, PTL

-----------------------------------------------------------------------------
(* How the calls end, and what the sort accepts.                           *)

\* A list without repetitions is no longer than one that has its elements.
LEMMA NoLonger ==
  ASSUME NEW S, NEW s \in Seq(S), Once(s), NEW t \in Seq(S), Once(t),
         Elems(s) \subseteq Elems(t)
  PROVE  Len(s) \in Nat /\ Len(t) \in Nat /\ Len(s) <= Len(t)
<1>1. /\ IsFiniteSet(Elems(t)) /\ Cardinality(Elems(t)) = Len(t)
      /\ Cardinality(Elems(s)) = Len(s)
  BY OnceCounts
<1>2. Cardinality(Elems(s)) <= Cardinality(Elems(t))
  BY <1>1, FS_Subset
<1>3. Len(s) \in Nat /\ Len(t) \in Nat
  BY LenProperties
<1> QED BY <1>1, <1>2, <1>3

\* What is left of the sort: the modules that are not in the order.
SortLeft == Len(nodes) - Len(order)

\* What may be left of the walk: a visit is a module with a number from 1 on,
\* of its importer or of the return after the last.  An activation has those
\* from its next on ahead, and a module that is not dirty has them all.
Visits == Elems(nodes) \X (1 .. (Len(nodes) + 1))
MarkLeft ==
  {v \in Visits : \/ v[1] \notin dirty
                  \/ \E j \in 1 .. Len(stack) : stack[j].node = v[1] /\ stack[j].next <= v[2]}

\* Each step of a call leaves less to do.
CallAdvances ==
  [][ /\ pc = "sort" => pc' \in {"sort", "idle"}
      /\ pc = "sort" /\ pc' = "sort" =>
           /\ SortLeft \in Nat /\ SortLeft' \in Nat /\ SortLeft' < SortLeft
      /\ pc = "mark" => pc' \in {"mark", "idle"}
      /\ pc = "mark" /\ pc' = "mark" =>
           /\ IsFiniteSet(MarkLeft) /\ MarkLeft' \subseteq MarkLeft
           /\ MarkLeft' # MarkLeft ]_vars

\* The activations are of different dirty modules, and go no further than
\* their importers.
Deep(s, r, D) ==
  \A j \in 1 .. Len(s) :
    /\ s[j].node \in D /\ s[j].next <= Len(r[s[j].node]) + 1
    /\ \A k \in 1 .. Len(s) : s[k].node = s[j].node => k = j

DeepInv == Deep(stack, rdeps, dirty)

LEMMA DeepWhenEmpty == \A r, D : Deep(<< >>, r, D)
<1>1. Len(<< >>) = 0
  BY EmptySeq
<1> QED BY <1>1 DEF Deep

\* A module has no more importers than the graph has modules.
LEMMA FewImporters ==
  ASSUME Inv, NEW n \in Modules
  PROVE  Len(rdeps[n]) \in Nat /\ Len(nodes) \in Nat /\ Len(rdeps[n]) <= Len(nodes)
<1>1. /\ rdeps[n] \in Seq(Modules) /\ Once(rdeps[n]) /\ nodes \in Seq(Modules) /\ Once(nodes)
  BY DEF Inv, Types, Edges
<1>2. Elems(rdeps[n]) \subseteq Elems(nodes)
  <2> SUFFICES ASSUME NEW x \in Elems(rdeps[n])
               PROVE  x \in Elems(nodes)
    OBVIOUS
  <2>1. x \in Modules
    BY <1>1, ElemsAre
  <2> QED BY <2>1 DEF Inv, Edges, Edge
<1> QED BY <1>1, <1>2, NoLonger

LEMMA MarkImporterDeep ==
  ASSUME Inv, Deep(stack, rdeps, dirty), MarkImporter
  PROVE  /\ Deep(stack', rdeps', dirty')
         /\ MarkLeft' \subseteq MarkLeft /\ MarkLeft' # MarkLeft
<1>. DEFINE n == stack[Len(stack)].node
            i == stack[Len(stack)].next
            x == rdeps[n][i]
            d == Len(stack)
<1>1. /\ stack # << >> /\ stack \in Seq([node: Modules, next: Nat])
      /\ \A j \in 1 .. d : Framed(stack[j])
      /\ n \in Modules /\ i \in Nat \ {0}
      /\ \/ /\ i \in 1 .. Len(rdeps[n]) /\ x \in dirty
            /\ dirty' = dirty /\ stack' = Moved(stack)
         \/ /\ i \in 1 .. Len(rdeps[n]) /\ x \notin dirty
            /\ dirty' = dirty \cup {x}
            /\ stack' = Append(Moved(stack), [node |-> x, next |-> 1])
         \/ /\ i > Len(rdeps[n])
            /\ dirty' = dirty /\ stack' = SubSeq(stack, 1, d - 1)
  BY MarkCases
<1>2. /\ d \in Nat \ {0} /\ d \in 1 .. d
      /\ Moved(stack) \in Seq([node: Modules, next: Nat]) /\ Len(Moved(stack)) = d
      /\ \A j \in 1 .. d : Moved(stack)[j] = IF j = d THEN [node |-> n, next |-> i + 1]
                                             ELSE stack[j]
  BY <1>1, MovedIs
<1>3. /\ rdeps' = rdeps /\ nodes' = nodes
      /\ Len(rdeps[n]) \in Nat /\ Len(nodes) \in Nat /\ Len(rdeps[n]) <= Len(nodes)
  BY <1>1, FewImporters DEF MarkImporter, edgeVars
<1>4. /\ n \in dirty /\ i <= Len(rdeps[n]) + 1 /\ n \in Elems(nodes)
      /\ \A k \in 1 .. d : stack[k].node = n => k = d
  BY <1>2 DEF Deep, Inv, Listed
<1>5. \A j \in 1 .. d : /\ stack[j].node \in dirty /\ stack[j].next \in Nat
                        /\ stack[j].next <= Len(rdeps[stack[j].node]) + 1
                        /\ \A k \in 1 .. d : stack[k].node = stack[j].node => k = j
  BY <1>1 DEF Deep, Framed
<1>6. <<n, i>> \in MarkLeft
  <2>1. <<n, i>> \in Visits
    BY <1>1, <1>3, <1>4 DEF Visits
  <2>2. stack[d].node = n /\ stack[d].next <= i
    BY <1>1
  <2> QED BY <1>2, <2>1, <2>2 DEF MarkLeft
<1>. HIDE DEF n, i, x, d
<1>7. Visits' = Visits
  BY <1>3 DEF Visits
<1>8. /\ Len(stack') \in Nat
      /\ \A j \in 1 .. Len(stack') :
           \/ /\ j \in 1 .. d /\ stack'[j].node = stack[j].node
              /\ j # d => stack'[j].next = stack[j].next
              /\ j = d => stack'[j].next = i + 1 /\ i <= Len(rdeps[n])
           \/ j = d + 1 /\ x \notin dirty /\ x \in dirty'
              /\ stack'[j].node = x /\ stack'[j].next = 1
      /\ dirty \subseteq dirty'
  <2>1. CASE i \in 1 .. Len(rdeps[n]) /\ dirty' = dirty /\ stack' = Moved(stack)
    <3>1. /\ Len(stack') = d
          /\ \A j \in 1 .. d : stack'[j] = IF j = d THEN [node |-> n, next |-> i + 1]
                                           ELSE stack[j]
      BY <1>2, <2>1
    <3>2. i <= Len(rdeps[n]) /\ stack[d].node = n
      BY <1>3, <2>1 DEF n, d
    <3> QED BY <1>2, <2>1, <3>1, <3>2
  <2>2. CASE /\ i \in 1 .. Len(rdeps[n]) /\ x \notin dirty /\ dirty' = dirty \cup {x}
             /\ stack' = Append(Moved(stack), [node |-> x, next |-> 1])
    <3>. DEFINE f == [node |-> x, next |-> 1]
                R == [node: Modules, next: Nat]
    <3>1. x \in Modules
      BY <1>1, <2>2, ImporterIs DEF x
    <3>2. f \in R /\ f.node = x /\ f.next = 1
      BY <3>1
    <3>3. stack' = Append(Moved(stack), f) /\ Moved(stack) \in Seq(R)
      BY <1>2, <2>2
    <3>. HIDE DEF f, R
    <3>4. /\ Len(stack') = d + 1
          /\ \A j \in 1 .. d : stack'[j] = Moved(stack)[j]
          /\ stack'[d + 1] = f
      BY <1>2, <3>2, <3>3, AppendProperties
    <3>5. \A j \in 1 .. d : stack'[j] = IF j = d THEN [node |-> n, next |-> i + 1]
                                        ELSE stack[j]
      BY <1>2, <3>4
    <3>6. i <= Len(rdeps[n]) /\ stack[d].node = n
      BY <1>3, <2>2 DEF n, d
    <3>7. \A j \in 1 .. (d + 1) : j \in 1 .. d \/ j = d + 1
      BY <1>2
    <3> QED BY <1>2, <2>2, <3>2, <3>4, <3>5, <3>6, <3>7
  <2>3. CASE i > Len(rdeps[n]) /\ dirty' = dirty /\ stack' = SubSeq(stack, 1, d - 1)
    <3>1. /\ Len(stack') = d - 1
          /\ \A j \in 1 .. (d - 1) : stack'[j] = stack[j]
      <4>1. stack' = SubSeq(stack, 1, Len(stack) - 1)
        BY <2>3 DEF d
      <4> QED BY <1>1, <4>1, PoppedIs DEF d
    <3>2. \A j \in 1 .. (d - 1) : j \in 1 .. d /\ j # d
      BY <1>2
    <3> QED BY <1>2, <2>3, <3>1, <3>2
  <2> QED BY <1>1, <2>1, <2>2, <2>3 DEF n, i, x, d
<1>9. /\ \A j \in 1 .. d : stack[j].node = n => j = d
      /\ stack[d].node = n /\ stack[d].next = i
  BY <1>4 DEF n, i, d
<1>10. Deep(stack', rdeps', dirty')
  <2> SUFFICES ASSUME NEW j \in 1 .. Len(stack')
               PROVE  /\ stack'[j].node \in dirty'
                      /\ stack'[j].next <= Len(rdeps[stack'[j].node]) + 1
                      /\ \A k \in 1 .. Len(stack') : stack'[k].node = stack'[j].node => k = j
    BY <1>3 DEF Deep
  <2>1. CASE j \in 1 .. d /\ stack'[j].node = stack[j].node
    <3>1. stack'[j].node \in dirty'
      BY <1>5, <1>8, <2>1
    <3>2. stack'[j].next <= Len(rdeps[stack'[j].node]) + 1
      <4>1. CASE j = d
        <5>1. stack'[j].next = i + 1 /\ i <= Len(rdeps[n]) /\ stack'[j].node = n
          BY <1>2, <1>8, <1>9, <2>1, <4>1
        <5>2. i \in Nat /\ Len(rdeps[n]) \in Nat
          BY <1>1, <1>3 DEF n, i
        <5> QED BY <5>1, <5>2
      <4>2. CASE j # d
        BY <1>2, <1>5, <1>8, <2>1, <4>2
      <4> QED BY <4>1, <4>2
    <3>3. \A k \in 1 .. Len(stack') : stack'[k].node = stack'[j].node => k = j
      BY <1>5, <1>8, <2>1
    <3> QED BY <3>1, <3>2, <3>3
  <2>2. CASE j = d + 1 /\ x \notin dirty /\ x \in dirty'
             /\ stack'[j].node = x /\ stack'[j].next = 1
    <3>1. 1 <= Len(rdeps[x]) + 1
      <4>1. x \in Modules
        <5>1. dirty' \subseteq Modules
          BY MarkImporterKeeps, ElemsAre DEF Inv, Listed, Types
        <5> QED BY <2>2, <5>1
      <4>2. Len(rdeps[x]) \in Nat
        BY <4>1, FewImporters
      <4> QED BY <4>2
    <3>2. \A k \in 1 .. Len(stack') : stack'[k].node = x => k = j
      BY <1>5, <1>8, <2>2
    <3> QED BY <2>2, <3>1, <3>2
  <2> QED BY <1>8, <2>1, <2>2
<1>11. <<n, i>> \notin MarkLeft'
  <2> SUFFICES ASSUME NEW j \in 1 .. Len(stack'), stack'[j].node = n, stack'[j].next <= i
               PROVE  FALSE
    BY <1>4, <1>8 DEF MarkLeft
  <2>1. j = d /\ stack'[j].next = i + 1
    BY <1>2, <1>4, <1>8, <1>9
  <2> QED BY <1>1, <2>1 DEF i, n
<1>12. ASSUME NEW v \in MarkLeft'
       PROVE  v \in MarkLeft
  <2>1. v \in Visits /\ v[2] \in Nat
    BY <1>3, <1>7 DEF MarkLeft, Visits
  <2>2. CASE v[1] \notin dirty'
    BY <1>8, <2>1, <2>2 DEF MarkLeft
  <2>3. ASSUME NEW j \in 1 .. Len(stack'), stack'[j].node = v[1], stack'[j].next <= v[2]
        PROVE  v \in MarkLeft
    <3>1. CASE j = d + 1 /\ x \notin dirty /\ stack'[j].node = x
      BY <2>1, <2>3, <3>1 DEF MarkLeft
    <3>2. CASE j \in 1 .. d /\ stack'[j].node = stack[j].node
      <4>1. stack[j].next <= v[2]
        <5>1. CASE j = d
          <6>1. stack'[j].next = i + 1 /\ stack[j].next = i /\ i \in Nat
            BY <1>1, <1>2, <1>8, <1>9, <5>1 DEF i, n
          <6> QED BY <2>1, <2>3, <6>1
        <5>2. CASE j # d
          <6>1. stack'[j].next = stack[j].next
            BY <1>2, <1>8, <3>2, <5>2
          <6> QED BY <2>3, <6>1
        <5> QED BY <5>1, <5>2
      <4> QED BY <2>1, <2>3, <3>2, <4>1 DEF MarkLeft, d
    <3> QED BY <1>8, <2>3, <3>1, <3>2
  <2> QED BY <2>2, <2>3 DEF MarkLeft
<1> QED BY <1>6, <1>10, <1>11, <1>12

\* The invariant of the activations is inductive.
LEMMA DeepHolds == Spec => [](Inv /\ DeepInv)
<1>1. Init => Inv /\ DeepInv
  BY InitInv, DeepWhenEmpty DEF Init, DeepInv
<1>2. ASSUME Inv, Deep(stack, rdeps, dirty), [Next]_vars
      PROVE  Deep(stack', rdeps', dirty')
  <2>1. CASE MarkImporter
    BY <1>2, <2>1, MarkImporterDeep
  <2>2. ASSUME NEW m \in Modules, MarkDirty(m)
        PROVE  Deep(stack', rdeps', dirty')
    <3>1. stack = << >>
      BY <1>2, <2>2 DEF MarkDirty, Inv, Walk
    <3>2. CASE m \in dirty
      BY <2>2, <3>1, <3>2, DeepWhenEmpty DEF MarkDirty
    <3>3. CASE m \notin dirty
      <4>. DEFINE f == [node |-> m, next |-> 1]
      <4>1. /\ stack' = <<f>> /\ dirty' = dirty \cup {m} /\ rdeps' = rdeps
            /\ f.node = m /\ f.next = 1
        BY <2>2, <3>3 DEF MarkDirty, edgeVars
      <4>. HIDE DEF f
      <4>2. Len(stack') = 1 /\ stack'[1] = f
        BY <4>1
      <4>3. Len(rdeps[m]) \in Nat
        BY <1>2, FewImporters
      <4> QED BY <4>1, <4>2, <4>3 DEF Deep
    <3> QED BY <3>2, <3>3
  <2>3. ASSUME \/ \E m \in Modules : Add(m)
               \/ \E a, b \in Modules : AddDep(a, b)
               \/ StartSort \/ SortNode \/ EndSort
        PROVE  Deep(stack', rdeps', dirty')
    <3>1. pc # "mark" /\ stack' = stack
      BY <2>3 DEF Add, AddDep, StartSort, SortNode, EndSort, markVars
    <3>2. stack = << >>
      BY <1>2, <3>1 DEF Inv, Walk
    <3> QED BY <3>1, <3>2, DeepWhenEmpty
  <2>4. CASE UNCHANGED vars
    BY <1>2, <2>4 DEF vars, edgeVars, markVars
  <2> QED BY <1>2, <2>1, <2>2, <2>3, <2>4 DEF Next, Running
<1>3. Inv /\ DeepInv /\ [Next]_vars => (Inv /\ DeepInv)'
  BY <1>2, NextKeepsInv DEF DeepInv
<1> QED BY <1>1, <1>3, PTL DEF Spec

\* A node leaves the queue for the order, which is no longer than the graph.
LEMMA SortNodeAdvances ==
  ASSUME Inv, SortNode
  PROVE  SortLeft \in Nat /\ SortLeft' \in Nat /\ SortLeft' < SortLeft
<1>1. Inv'
  BY SortNodeKeeps
<1>2. pc = "sort" /\ pc' = "sort" /\ order' = Append(order, queue[1]) /\ nodes' = nodes
  BY DEF SortNode, edgeVars
<1>3. ASSUME NEW n \in Seq(Modules), Once(n), NEW o \in Seq(Modules),
             NEW q \in Seq(Modules), Once(o \o q), Elems(o) \subseteq Elems(n)
      PROVE  Len(o) \in Nat /\ Len(n) \in Nat /\ Len(o) <= Len(n)
  <2>1. Once(o)
    <3>1. /\ Len(o) \in Nat /\ Len(q) \in Nat /\ DOMAIN o = 1 .. Len(o)
          /\ o \o q \in Seq(Modules) /\ Len(o \o q) = Len(o) + Len(q)
          /\ \A j \in 1 .. (Len(o) + Len(q)) :
               (o \o q)[j] = IF j <= Len(o) THEN o[j] ELSE q[j - Len(o)]
      BY LenProperties, ConcatProperties
    <3>2. DOMAIN (o \o q) = 1 .. (Len(o) + Len(q))
      BY <3>1, LenProperties
    <3>3. \A j \in DOMAIN o : j \in DOMAIN (o \o q) /\ (o \o q)[j] = o[j]
      BY <3>1, <3>2
    <3> QED BY <1>3, <3>3 DEF Once
  <2> QED BY <1>3, <2>1, NoLonger
<1>4. Len(order) \in Nat /\ Len(nodes) \in Nat /\ Len(order) <= Len(nodes)
  <2>1. /\ nodes \in Seq(Modules) /\ Once(nodes) /\ order \in Seq(Modules)
        /\ queue \in Seq(Modules) /\ Once(order \o queue)
        /\ Elems(order) \subseteq Elems(nodes)
    BY <1>2 DEF Inv, Types, Sorting, Listed
  <2> QED BY <1>3, <2>1
<1>5. Len(order') \in Nat /\ Len(order') <= Len(nodes)
  <2>1. /\ nodes' \in Seq(Modules) /\ Once(nodes') /\ order' \in Seq(Modules)
        /\ queue' \in Seq(Modules) /\ Once(order' \o queue')
        /\ Elems(order') \subseteq Elems(nodes')
    BY <1>1, <1>2 DEF Inv, Types, Sorting, Listed
  <2> QED BY <1>2, <1>3, <2>1
<1>6. Len(order') = Len(order) + 1
  <2>1. order \in Seq(Modules) /\ queue \in Seq(Modules) /\ queue # << >>
    BY DEF Inv, Types, SortNode
  <2>2. queue[1] \in Modules
    BY <2>1, HeadTailProperties
  <2> QED BY <1>2, <2>1, <2>2, AppendProperties
<1> QED BY <1>2, <1>4, <1>5, <1>6 DEF SortLeft

\* There are finitely many visits.
LEMMA VisitsFinite == Inv => IsFiniteSet(MarkLeft)
<1> SUFFICES ASSUME Inv PROVE IsFiniteSet(MarkLeft)
  OBVIOUS
<1>1. nodes \in Seq(Modules) /\ Once(nodes) /\ Len(nodes) \in Nat
  BY LenProperties DEF Inv, Types
<1>2. IsFiniteSet(Elems(nodes))
  BY <1>1, OnceCounts
<1>3. IsFiniteSet(1 .. (Len(nodes) + 1))
  BY <1>1, FS_Interval
<1>4. IsFiniteSet(Visits)
  BY <1>2, <1>3, FS_Product DEF Visits
<1> QED BY <1>4, FS_Subset DEF MarkLeft

\* Each round of Kahn's loop leaves fewer modules for it, and each step of
\* mark_dirty_recursive strictly fewer of finitely many visits, whatever the
\* edges and however they go round: both return, and the recursion is no deeper
\* than there are modules (module_graph.c:139-153, 172-183).
THEOREM CallsAdvance == Spec => CallAdvances
<1>. DEFINE A == /\ pc = "sort" => pc' \in {"sort", "idle"}
                 /\ pc = "sort" /\ pc' = "sort" =>
                      /\ SortLeft \in Nat /\ SortLeft' \in Nat /\ SortLeft' < SortLeft
                 /\ pc = "mark" => pc' \in {"mark", "idle"}
                 /\ pc = "mark" /\ pc' = "mark" =>
                      /\ IsFiniteSet(MarkLeft) /\ MarkLeft' \subseteq MarkLeft
                      /\ MarkLeft' # MarkLeft
<1>1. ASSUME Inv, Deep(stack, rdeps, dirty), Next
      PROVE  A
  <2>1. CASE pc = "idle"
    BY <2>1
  <2>2. CASE SortNode
    <3>1. pc = "sort" /\ pc' = "sort"
      BY <2>2 DEF SortNode
    <3> QED BY <1>1, <2>2, <3>1, SortNodeAdvances
  <2>3. CASE EndSort
    BY <2>3 DEF EndSort
  <2>4. CASE MarkImporter
    <3>1. pc = "mark" /\ pc' \in {"mark", "idle"}
      BY <2>4 DEF MarkImporter
    <3> QED BY <1>1, <2>4, <3>1, MarkImporterDeep, VisitsFinite
  <2>5. ASSUME NEW m, NEW a, NEW b, Add(m) \/ MarkDirty(m) \/ AddDep(a, b) \/ StartSort
        PROVE  pc = "idle"
    BY <2>5 DEF Add, MarkDirty, AddDep, StartSort
  <2>. HIDE DEF A
  <2> QED BY <1>1, <2>1, <2>2, <2>3, <2>4, <2>5 DEF Next, Running
<1>2. Inv /\ DeepInv /\ [Next]_vars => [A]_vars
  <2>. HIDE DEF A
  <2> QED BY <1>1 DEF DeepInv
<1> QED BY <1>2, DeepHolds, PTL DEF Spec, CallAdvances

\* mod_graph_topo_sort succeeds on a graph without imports and on no other: the
\* loop takes a module off the counts of its importers, where it was counted
\* for its imports, so that only modules that nothing imports come to the
\* order, and any import, in a cycle or not, is refused as a cycle
\* (module_graph.c:115-120, 145-153; module_graph.h:73-79).
THEOREM SortsUnconnected ==
  Spec => [][EndSort => (result' <=> \A m \in Modules : deps[m] = << >>)]_vars
<1>1. ASSUME Inv, EndSort
      PROVE  result' <=> \A m \in Modules : deps[m] = << >>
  <2>1. /\ pc = "sort" /\ queue = << >> /\ result' = (Len(order) = Len(nodes))
        /\ nodes \in Seq(Modules) /\ Once(nodes) /\ order \in Seq(Modules)
        /\ Elems(order) \subseteq Elems(nodes)
    BY <1>1 DEF EndSort, Inv, Types, Listed
  <2>2. /\ Once(order)
        /\ \A m \in Modules : m \in Elems(order) <=> m \in Elems(nodes) /\ rdeps[m] = << >>
    <3>1. order \o queue = order
      BY <2>1, ConcatEmptySeq
    <3> QED BY <1>1, <2>1, <3>1 DEF Inv, Sorting
  <2>3. ASSUME Len(order) = Len(nodes), NEW m \in Modules
        PROVE  deps[m] = << >>
    <3>1. Elems(order) = Elems(nodes)
      BY <2>1, <2>2, <2>3, SameLength
    <3>2. ASSUME NEW b \in Elems(deps[m]) PROVE FALSE
      <4>1. b \in Modules
        BY <1>1, <3>2, ElemsAre DEF Inv, Types
      <4>2. m \in Elems(rdeps[b]) /\ b \in Elems(nodes)
        BY <1>1, <3>2, <4>1 DEF Inv, Edges, Edge
      <4>3. rdeps[b] = << >>
        BY <2>2, <3>1, <4>1, <4>2
      <4> QED BY <4>2, <4>3 DEF Elems
    <3>3. deps[m] \in Seq(Modules)
      BY <1>1 DEF Inv, Types
    <3> QED BY <3>2, <3>3, ElemsAre
  <2>4. ASSUME \A m \in Modules : deps[m] = << >>
        PROVE  Len(order) = Len(nodes)
    <3>1. ASSUME NEW b \in Elems(nodes) PROVE b \in Elems(order)
      <4>1. b \in Modules
        BY <2>1, ElemsAre
      <4>2. rdeps[b] \in Seq(Modules)
        BY <1>1, <4>1 DEF Inv, Types
      <4>3. ASSUME NEW a \in Elems(rdeps[b]) PROVE FALSE
        <5>1. a \in Modules
          BY <4>2, ElemsAre
        <5>2. b \in Elems(deps[a]) /\ deps[a] = << >>
          BY <1>1, <2>4, <4>1, <4>3, <5>1 DEF Inv, Edges, Edge
        <5> QED BY <5>2 DEF Elems
      <4>4. rdeps[b] = << >>
        BY <4>2, <4>3, ElemsAre
      <4> QED BY <2>2, <3>1, <4>1, <4>4
    <3>2. Elems(order) = Elems(nodes)
      BY <2>1, <3>1
    <3>3. /\ Len(order) \in Nat /\ Len(nodes) \in Nat
          /\ Len(order) <= Len(nodes) /\ Len(nodes) <= Len(order)
      BY <2>1, <2>2, <3>2, NoLonger
    <3> QED BY <3>3
  <2> QED BY <2>1, <2>3, <2>4
<1>2. Inv /\ [Next]_vars => [EndSort => (result' <=> \A m \in Modules : deps[m] = << >>)]_vars
  BY <1>1
<1> QED BY <1>2, InvHolds, PTL DEF Spec
=============================================================================
