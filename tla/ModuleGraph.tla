---------------------------- MODULE ModuleGraph ----------------------------
(***************************************************************************)
(* core/module_graph.c: the graph of imports, its topological sort (Kahn)  *)
(* and the propagation of dirtiness to importers.  Sorting and marking run *)
(* one iteration at a time.                                                *)
(***************************************************************************)
EXTENDS Lists, FiniteSets

CONSTANTS Modules,       \* module paths
          NONE,          \* no module
          LATE_EDGES     \* an import of a module that is dirty may be added

ASSUME GraphAssumption == LATE_EDGES \in BOOLEAN /\ NONE \notin Modules

VARIABLES nodes,         \* graph->all_nodes
          deps, rdeps,   \* node->deps, node->rdeps
          dirty,         \* the nodes with is_dirty
          topoIdx,       \* node->topo_idx
          order,         \* graph->topo_order
          sorted,        \* graph->sorted
          pc,            \* "idle", "sort" or "mark"
          inDegree, queue,   \* topo_sort's locals; queue from q_head on
          stack,         \* mark_dirty_recursive's activations: node, next rdep
          result,        \* what the last mod_graph_topo_sort returned
          root           \* history: the node mod_graph_mark_dirty was given

edgeVars == <<nodes, deps, rdeps>>
sortVars == <<topoIdx, order, sorted, inDegree, queue, result>>
markVars == <<dirty, stack, root>>
vars == <<edgeVars, sortVars, markVars, pc>>

Elems(s) == {s[i] : i \in DOMAIN s}

TypeOK ==
  /\ nodes \in Seq(Modules)
  /\ deps \in [Modules -> Seq(Modules)] /\ rdeps \in [Modules -> Seq(Modules)]
  /\ dirty \subseteq Modules
  /\ topoIdx \in [Modules -> Int]
  /\ order \in Seq(Modules) /\ queue \in Seq(Modules)
  /\ sorted \in BOOLEAN /\ result \in BOOLEAN
  /\ pc \in {"idle", "sort", "mark"}
  /\ inDegree \in [Modules -> Nat]
  /\ stack \in Seq([node: Modules, next: Nat])
  /\ root \in Modules \cup {NONE}

Imports(a, b) == b \in Elems(deps[a])

-----------------------------------------------------------------------------
(* Nodes and edges.                                                        *)

\* Mutant: a new module leaves the graph marked as sorted.
AddKeepsSorted(m) ==
  /\ pc = "idle" /\ m \notin Elems(nodes)
  /\ nodes' = Append(nodes, m)
  /\ topoIdx' = [topoIdx EXCEPT ![m] = -1]
  /\ UNCHANGED <<deps, rdeps, order, sorted, inDegree, queue, result, markVars, pc>>

\* mod_graph_add of a path that has no node; of one that has, it only looks up.
Add(m) ==
  /\ pc = "idle" /\ m \notin Elems(nodes)
  /\ nodes' = Append(nodes, m)
  /\ sorted' = FALSE
  /\ topoIdx' = [topoIdx EXCEPT ![m] = -1]
  /\ UNCHANGED <<deps, rdeps, order, inDegree, queue, result, markVars, pc>>

\* Mutant: an edge that is there already is added again.
AddDepAgain(from, to) ==
  /\ pc = "idle"
  /\ from \in Elems(nodes) /\ to \in Elems(nodes)
  /\ from # to
  /\ LATE_EDGES \/ to \notin dirty
  /\ deps' = [deps EXCEPT ![from] = Append(@, to)]
  /\ rdeps' = [rdeps EXCEPT ![to] = Append(@, from)]
  /\ UNCHANGED <<nodes, sortVars, markVars, pc>>

AddDep(from, to) ==
  /\ pc = "idle"
  /\ from \in Elems(nodes) /\ to \in Elems(nodes)
  /\ from # to /\ to \notin Elems(deps[from])
  /\ LATE_EDGES \/ to \notin dirty
  /\ deps' = [deps EXCEPT ![from] = Append(@, to)]
  /\ rdeps' = [rdeps EXCEPT ![to] = Append(@, from)]
  /\ UNCHANGED <<nodes, sortVars, markVars, pc>>

-----------------------------------------------------------------------------
(* mod_graph_topo_sort.                                                    *)

\* Mutant: the edges are not counted.
Uncounted == [m \in Modules |-> 0]

InDegrees == [m \in Modules |-> Cardinality({a \in Elems(nodes) : Imports(a, m)})]

\* Up to the loop: topo_idx holds positions, in_degree counts importers.
StartSort ==
  /\ pc = "idle"
  /\ IF nodes = << >>
     THEN sorted' = TRUE /\ result' = TRUE /\ UNCHANGED <<topoIdx, order, inDegree, queue, pc>>
     ELSE /\ topoIdx' = [m \in Modules |->
                           IF m \in Elems(nodes)
                           THEN CHOOSE i \in 0 .. (Len(nodes) - 1) : nodes[i + 1] = m
                           ELSE topoIdx[m]]
          /\ inDegree' = InDegrees
          /\ queue' = Keep(nodes, {m \in Modules : inDegree'[m] = 0})
          /\ order' = << >>
          /\ pc' = "sort"
          /\ UNCHANGED <<sorted, result>>
  /\ UNCHANGED <<edgeVars, markVars>>

\* One node leaves the queue.
SortNode ==
  /\ pc = "sort" /\ queue # << >>
  /\ LET n == queue[1] IN
       /\ order' = Append(order, n)
       /\ inDegree' = [m \in Modules |-> IF m \in Elems(rdeps[n])
                                         THEN inDegree[m] - 1 ELSE inDegree[m]]
       /\ queue' = Tail(queue) \o Keep(rdeps[n], {m \in Modules : inDegree'[m] = 0})
  /\ UNCHANGED <<edgeVars, topoIdx, sorted, result, markVars, pc>>

\* Mutant: the loop is left only when every module is in the order.
EndSortWhenAll ==
  /\ pc = "sort" /\ queue = << >> /\ Len(order) = Len(nodes)
  /\ pc' = "idle"
  /\ result' = TRUE /\ sorted' = TRUE
  /\ topoIdx' = [m \in Modules |->
                   IF m \in Elems(order)
                   THEN CHOOSE i \in 0 .. (Len(order) - 1) : order[i + 1] = m
                   ELSE topoIdx[m]]
  /\ inDegree' = [m \in Modules |-> 0]
  /\ UNCHANGED <<edgeVars, order, queue, markVars>>

EndSort ==
  /\ pc = "sort" /\ queue = << >>
  /\ pc' = "idle"
  /\ result' = (Len(order) = Len(nodes))
  /\ sorted' = result'
  /\ IF result'
     THEN /\ topoIdx' = [m \in Modules |->
                           IF m \in Elems(order)
                           THEN CHOOSE i \in 0 .. (Len(order) - 1) : order[i + 1] = m
                           ELSE topoIdx[m]]
          /\ UNCHANGED order
     ELSE order' = << >> /\ UNCHANGED topoIdx
  /\ inDegree' = [m \in Modules |-> 0]
  /\ UNCHANGED <<edgeVars, queue, markVars>>

-----------------------------------------------------------------------------
(* mod_graph_mark_dirty.                                                   *)

MarkDirty(n) ==
  /\ pc = "idle" /\ n \in Elems(nodes)
  /\ root' = n
  /\ dirty' = dirty \cup {n}
  /\ IF n \in dirty
     THEN UNCHANGED <<stack, pc>>
     ELSE stack' = <<[node |-> n, next |-> 1]>> /\ pc' = "mark"
  /\ UNCHANGED <<edgeVars, sortVars>>

\* Mutant: an importer is marked, and its own importers are not.
MarkImporterOnly ==
  /\ pc = "mark"
  /\ LET d == Len(stack)
         n == stack[d].node
         i == stack[d].next
     IN IF i <= Len(rdeps[n])
        THEN /\ dirty' = dirty \cup {rdeps[n][i]}
             /\ stack' = [stack EXCEPT ![d].next = i + 1]
             /\ UNCHANGED pc
        ELSE /\ stack' = SubSeq(stack, 1, d - 1)
             /\ pc' = IF d = 1 THEN "idle" ELSE "mark"
             /\ UNCHANGED dirty
  /\ UNCHANGED <<edgeVars, sortVars, root>>

\* mark_dirty_recursive: the next importer, or the return.
MarkImporter ==
  /\ pc = "mark"
  /\ LET d == Len(stack)
         n == stack[d].node
         i == stack[d].next
         advanced == [stack EXCEPT ![d].next = i + 1]
     IN IF i <= Len(rdeps[n])
        THEN /\ dirty' = dirty \cup {rdeps[n][i]}
             /\ stack' = IF rdeps[n][i] \in dirty THEN advanced
                         ELSE Append(advanced, [node |-> rdeps[n][i], next |-> 1])
             /\ UNCHANGED pc
        ELSE /\ stack' = SubSeq(stack, 1, d - 1)
             /\ pc' = IF d = 1 THEN "idle" ELSE "mark"
             /\ UNCHANGED dirty
  /\ UNCHANGED <<edgeVars, sortVars, root>>

\* mod_graph_dirty_set.
DirtySet ==
  IF sorted THEN Keep(order, dirty) ELSE << >>

-----------------------------------------------------------------------------
Init ==
  /\ nodes = << >>
  /\ deps = [m \in Modules |-> << >>] /\ rdeps = [m \in Modules |-> << >>]
  /\ dirty = {} /\ topoIdx = [m \in Modules |-> -1]
  /\ order = << >> /\ sorted = FALSE /\ result = TRUE /\ pc = "idle"
  /\ inDegree = [m \in Modules |-> 0] /\ queue = << >>
  /\ stack = << >> /\ root = NONE

Running == SortNode \/ EndSort \/ MarkImporter

Next ==
  \/ \E m \in Modules : Add(m) \/ MarkDirty(m)
  \/ \E a, b \in Modules : AddDep(a, b)
  \/ StartSort
  \/ Running

Spec == Init /\ [][Next]_vars

\* The functions are loops and recursion of one thread: they keep running.
FairSpec == Spec /\ WF_vars(Running)

-----------------------------------------------------------------------------
(* Properties.                                                             *)

\* The two directions of an edge are kept together, once each, and no module
\* imports itself (module_graph.c:85-91).
EdgesMirrored ==
  \A a, b \in Modules :
    /\ b \in Elems(deps[a]) <=> a \in Elems(rdeps[b])
    /\ a = b => b \notin Elems(deps[a])
    /\ Cardinality({i \in DOMAIN deps[a] : deps[a][i] = b}) <= 1
    /\ Cardinality({i \in DOMAIN rdeps[a] : rdeps[a][i] = b}) <= 1

\* Importers of b, directly or through others: a set closed under importing
\* that holds b's importers holds them all.
Importers(b) ==
  {a \in Modules : \A S \in SUBSET Modules :
     (\A x, y \in Modules : Imports(x, y) /\ (y = b \/ y \in S) => x \in S) => a \in S}

\* After mod_graph_mark_dirty returns, the node and its transitive importers
\* are dirty (module_graph.h:93-96).
DirtyPropagated ==
  pc = "idle" /\ root # NONE => {root} \cup Importers(root) \subseteq dirty

\* A successful sort lists every module exactly once, topo_idx is each one's
\* place in that list, and the dirty set is all that is dirty, whatever was
\* sorted, added or refused before (module_graph.c:133-160, 190-202).
OrderIndexed ==
  sorted /\ pc # "sort" =>
    /\ Len(order) = Len(nodes)
    /\ \A m \in Elems(nodes) : topoIdx[m] + 1 \in DOMAIN order /\ order[topoIdx[m] + 1] = m
    /\ Elems(DirtySet) = dirty

\* Sorting and marking come to an end, import cycles included.
CallsEnd == (pc # "idle") ~> (pc = "idle")
=============================================================================
