--------------------------- MODULE EscapeAnalysis ---------------------------
(***************************************************************************)
(* pass/lower/hir_escape.c on the body of one function, and a run of the   *)
(* body it produces.  The body declares and assigns pointer variables and  *)
(* returns one; an &x that the pass finds to escape becomes a heap         *)
(* allocation.                                                             *)
(*                                                                         *)
(* A body is a sequence of statements in the order of the text; a          *)
(* conditional one may be skipped when the body runs.                      *)
(***************************************************************************)
EXTENDS Integers, Sequences

CONSTANTS Pointers,      \* pointer variables
          Locals,        \* variables whose address is taken
          MAX_LENGTH,    \* bound on the statements of a body
          MAX_ADDR,      \* EA_MAX_ADDR, and EA_MAX_TAINT
          COPY_DECLS,    \* a pointer may be declared as a copy of another
          REASSIGN       \* a pointer may be given an address more than once

ASSUME EscapeAssumption ==
  /\ MAX_LENGTH \in Nat /\ MAX_ADDR \in Nat
  /\ {COPY_DECLS, REASSIGN} \subseteq BOOLEAN

VARIABLES pc,            \* "write", "collect", "mark", "run" or "returned"
          body,          \* the statements
          at,            \* the statement the pass, or the run, is at
          addrNodes,     \* ctx->addr_nodes: the statements that hold an &x
          taints,        \* ctx->tainted, ctx->tainted_addr_idx
          promoted,      \* ctx->promote, then the &x turned into HEAP_ALLOC
          holds          \* where each pointer points

vars == <<pc, body, at, addrNodes, taints, promoted, holds>>

\* Values of expressions of pointer type: &x, another pointer, or a pointer
\* from elsewhere (a parameter, a call).
AddressOf(x) == [kind |-> "addr", of |-> x]
Var(p) == [kind |-> "var", of |-> p]
Elsewhere == [kind |-> "elsewhere"]
Exprs == {AddressOf(x) : x \in Locals} \cup {Var(p) : p \in Pointers} \cup {Elsewhere}

Statements ==
  [op: {"decl", "assign"}, target: Pointers, value: Exprs, conditional: BOOLEAN]
    \cup [op: {"return"}, value: Exprs]

\* Places a pointer can point to.
Stack(x) == [kind |-> "stack", of |-> x]
Heap(n) == [kind |-> "heap", of |-> n]
Outside == [kind |-> "outside"]
Unset == [kind |-> "unset"]
Places == {Stack(x) : x \in Locals} \cup {Heap(n) : n \in 1 .. MAX_LENGTH}
            \cup {Outside, Unset}

TypeOK ==
  /\ pc \in {"write", "collect", "mark", "run", "returned"}
  /\ body \in Seq(Statements) /\ Len(body) <= MAX_LENGTH
  /\ at \in 0 .. (MAX_LENGTH + 1)
  /\ addrNodes \in Seq(1 .. MAX_LENGTH) /\ Len(addrNodes) <= MAX_ADDR
  /\ taints \in Seq([sym: Pointers, node: 1 .. MAX_ADDR]) /\ Len(taints) <= MAX_ADDR
  /\ promoted \subseteq 1 .. MAX_ADDR
  /\ holds \in [Pointers \cup {"result"} -> Places]

-----------------------------------------------------------------------------
(* Well-formed bodies.                                                     *)

Declared == {body[i].target : i \in {j \in DOMAIN body : body[j].op = "decl"}}

\* The pointer is, or may be, given an address by a statement so far.
Given(p) ==
  \E i \in DOMAIN body :
    body[i].op \in {"decl", "assign"} /\ body[i].target = p /\ body[i].value # Elsewhere

Usable(e) == e.kind = "var" => e.of \in Declared

MayAdd(s) ==
  CASE s.op = "decl" ->
         /\ s.target \notin Declared /\ Usable(s.value) /\ ~ s.conditional
         /\ COPY_DECLS \/ s.value.kind # "var"
    [] s.op = "assign" ->
         /\ s.target \in Declared /\ Usable(s.value)
         /\ REASSIGN \/ (~ Given(s.target) /\ s.value # Elsewhere)
    [] s.op = "return" -> Usable(s.value)

Complete == body # << >> /\ body[Len(body)].op = "return"

Write(s) ==
  /\ pc = "write" /\ ~ Complete
  /\ Len(body) < MAX_LENGTH
  /\ MayAdd(s)
  /\ body' = Append(body, s)
  /\ UNCHANGED <<pc, at, addrNodes, taints, promoted, holds>>

Analyse ==
  /\ pc = "write" /\ Complete
  /\ pc' = "collect" /\ at' = 1
  /\ UNCHANGED <<body, addrNodes, taints, promoted, holds>>

-----------------------------------------------------------------------------
(* The pass.                                                               *)

HoldsAddress(s) == s.value.kind = "addr"

\* ea_add_addr.
WithAddr(n) == IF Len(addrNodes) < MAX_ADDR THEN Append(addrNodes, n) ELSE addrNodes

\* ea_add_taint.
WithTaint(p, i) ==
  IF Len(taints) < MAX_ADDR THEN Append(taints, [sym |-> p, node |-> i]) ELSE taints

\* ea_is_tainted: the first entry for the pointer.
Tainted(p) == {i \in DOMAIN taints : taints[i].sym = p}

\* Mutant: the entry added last, whichever pointer it is for.
LatestTaint(p) == taints[Len(taints)].node

TaintOf(p) ==
  taints[CHOOSE i \in Tainted(p) : \A j \in Tainted(p) : i <= j].node

\* Mutant: only a declaration with an &x taints its pointer, no assignment.
CollectDecls ==
  /\ pc = "collect" /\ at <= Len(body)
  /\ LET s == body[at]
         nodes == IF HoldsAddress(s) THEN WithAddr(at) ELSE addrNodes
     IN /\ addrNodes' = nodes
        /\ taints' = IF s.op = "decl" /\ HoldsAddress(s)
                     THEN WithTaint(s.target, Len(nodes)) ELSE taints
  /\ at' = at + 1
  /\ pc' = IF at = Len(body) THEN "mark" ELSE "collect"
  /\ UNCHANGED <<body, promoted, holds>>

\* ea_collect on one statement: record its &x, then taint its target.  A
\* declaration taints only when its value is an &x; an assignment also when
\* its value is a tainted variable.
Collect ==
  /\ pc = "collect" /\ at <= Len(body)
  /\ LET s == body[at]
         nodes == IF HoldsAddress(s) THEN WithAddr(at) ELSE addrNodes
         last == Len(nodes)
     IN /\ addrNodes' = nodes
        /\ taints' =
             IF s.op \in {"decl", "assign"} /\ HoldsAddress(s)
                  /\ last > 0 /\ nodes[last] = at
             THEN WithTaint(s.target, last)
             ELSE IF s.op = "assign" /\ s.value.kind = "var" /\ Tainted(s.value.of) # {}
             THEN WithTaint(s.target, TaintOf(s.value.of))
             ELSE taints
  /\ at' = at + 1
  /\ pc' = IF at = Len(body) THEN "mark" ELSE "collect"
  /\ UNCHANGED <<body, promoted, holds>>

\* ea_mark_escaping on the returned expression, then ea_promote.
Mark ==
  /\ pc = "mark"
  /\ LET e == body[Len(body)].value IN
       promoted' = IF e.kind = "addr"
                   THEN {i \in DOMAIN addrNodes : addrNodes[i] = Len(body)}
                   ELSE IF e.kind = "var" /\ Tainted(e.of) # {} THEN {TaintOf(e.of)}
                   ELSE {}
  /\ pc' = "run" /\ at' = 1
  /\ UNCHANGED <<body, addrNodes, taints, holds>>

-----------------------------------------------------------------------------
(* The run of the body.                                                    *)

OnHeap(n) == \E i \in promoted : addrNodes[i] = n

\* Where the expression of statement n points.
Place(e, n) ==
  CASE e.kind = "addr" -> IF OnHeap(n) THEN Heap(n) ELSE Stack(e.of)
    [] e.kind = "var" -> holds[e.of]
    [] e.kind = "elsewhere" -> Outside

RunSet ==
  /\ pc = "run" /\ body[at].op \in {"decl", "assign"}
  /\ holds' = [holds EXCEPT ![body[at].target] = Place(body[at].value, at)]
  /\ at' = at + 1
  /\ UNCHANGED <<pc, body, addrNodes, taints, promoted>>

RunSkip ==
  /\ pc = "run" /\ body[at].op \in {"decl", "assign"} /\ body[at].conditional
  /\ at' = at + 1
  /\ UNCHANGED <<pc, body, addrNodes, taints, promoted, holds>>

RunReturn ==
  /\ pc = "run" /\ body[at].op = "return"
  /\ holds' = [holds EXCEPT !["result"] = Place(body[at].value, at)]
  /\ pc' = "returned"
  /\ UNCHANGED <<body, at, addrNodes, taints, promoted>>

-----------------------------------------------------------------------------
Init ==
  /\ pc = "write" /\ body = << >> /\ at = 0
  /\ addrNodes = << >> /\ taints = << >> /\ promoted = {}
  /\ holds = [p \in Pointers \cup {"result"} |-> Unset]

Next ==
  \/ \E s \in Statements : Write(s)
  \/ Analyse \/ Collect \/ Mark
  \/ RunSet \/ RunSkip \/ RunReturn

Spec == Init /\ [][Next]_vars

-----------------------------------------------------------------------------
(* Properties.                                                             *)

\* The function never returns a pointer into its own frame
\* (tests/integration/memory/escape_analysis.rsg:1: "if not proven
\* non-escaping, it escapes").
NoDanglingReturn == pc = "returned" => holds["result"].kind # "stack"

\* K holds statement n and, with any statement, each later one whose value is
\* the pointer that it sets.
HandsOn(n, K) ==
  /\ n \in K
  /\ \A j \in K, k \in DOMAIN body :
       j < k /\ body[k].value = Var(body[j].target) => k \in K

\* The statements that the address in statement n can get to through copies.
Carriers(n) ==
  {k \in DOMAIN body : \A K \in SUBSET DOMAIN body : HandsOn(n, K) => k \in K}

\* The pass does not move what stays local: an &x becomes a heap allocation
\* only if this &x is what the body returns, or some pointer was given it and
\* the return hands that pointer on, through any number of copies
\* (ea_mark_escaping, hir_escape.c:84-125, and the taint map it looks in).
PromotedIsReturned ==
  pc \in {"run", "returned"} =>
    \A i \in promoted : Len(body) \in Carriers(addrNodes[i])
=============================================================================
