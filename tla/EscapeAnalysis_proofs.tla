------------------------ MODULE EscapeAnalysis_proofs ------------------------
(***************************************************************************)
(* Proofs about the escape analysis: the types; that only what is returned *)
(* is promoted; and, for bodies the taint map is made for, that no run     *)
(* returns a pointer into its own frame.                                   *)
(***************************************************************************)
EXTENDS EscapeAnalysis, SequenceTheorems, WellFoundedInduction, TLAPS

-----------------------------------------------------------------------------
(* The invariant of every body.                                            *)

\* A statement that sets a pointer, and one that sets it to something the
\* analysis is about.
Sets(s) == s.op \in {"decl", "assign"}
Gives(s) == Sets(s) /\ s.value # Elsewhere

\* The statements the collection has been through.
Done == IF pc = "write" THEN 0 ELSE IF pc = "collect" THEN at - 1 ELSE Len(body)

\* A body returns at its end and nowhere else.
Shaped(b) == \A n \in DOMAIN b : b[n].op = "return" => n = Len(b)

\* Every taint refers to a recorded &x, and its pointer was given a value by
\* a statement among the first d.
TaintsGiven(b, d, a, t) ==
  \A k \in DOMAIN t :
    /\ t[k].node \in DOMAIN a
    /\ \E m \in 1 .. d : Gives(b[m]) /\ b[m].target = t[k].sym

\* What Mark decides, as seen afterwards.
Marked(b, a, t, P) ==
  LET e == b[Len(b)].value
      Entries(p) == {k \in DOMAIN t : t[k].sym = p}
  IN P = IF e.kind = "addr" THEN {i \in DOMAIN a : a[i] = Len(b)}
         ELSE IF e.kind = "var" /\ Entries(e.of) # {}
         THEN {t[CHOOSE i \in Entries(e.of) : \A j \in Entries(e.of) : i <= j].node}
         ELSE {}

Inv ==
  /\ TypeOK
  /\ Shaped(body)
  /\ pc = "write" => at = 0
  /\ pc # "write" => Complete
  /\ pc \in {"collect", "run", "returned"} => at \in 1 .. Len(body)
  /\ Len(addrNodes) <= Done /\ Len(taints) <= Done
  /\ TaintsGiven(body, Done, addrNodes, taints)
  /\ pc \in {"run", "returned"} => Marked(body, addrNodes, taints, promoted)

-----------------------------------------------------------------------------
(* The invariant of the bodies the taint map is made for: a pointer is     *)
(* given one value, and not by a declaration that copies.                  *)

Straight(b) ==
  /\ \A n \in DOMAIN b : b[n].op = "decl" => b[n].value.kind # "var"
  /\ \A n \in DOMAIN b : b[n].op = "assign" =>
       \E m \in DOMAIN b : b[m].op = "decl" /\ b[m].target = b[n].target
  /\ \A m, n \in DOMAIN b :
       Gives(b[m]) /\ Gives(b[n]) /\ b[m].target = b[n].target => m = n

\* One taint to a pointer.
OneTaint(t) == \A j, k \in DOMAIN t : t[j].sym = t[k].sym => j = k

\* Every &x among the first d statements is recorded, and the pointer it is
\* given to is tainted with it.
AddressesTaint(b, d, a, t) ==
  \A n \in 1 .. d : HoldsAddress(b[n]) =>
    /\ \E i \in DOMAIN a : a[i] = n
    /\ Sets(b[n]) =>
         \E k \in DOMAIN t : t[k].sym = b[n].target /\ a[t[k].node] = n

\* A copy of a pointer that was given its value before is tainted as it is.
CopiesTaint(b, d, t) ==
  \A n \in 1 .. d : \A m \in 1 .. (n - 1) : \A k \in DOMAIN t :
    /\ b[n].op = "assign" /\ b[n].value.kind = "var"
    /\ Gives(b[m]) /\ b[m].target = b[n].value.of
    /\ t[k].sym = b[n].value.of
    => \E j \in DOMAIN t : t[j].sym = b[n].target /\ t[j].node = t[k].node

\* In the run, a pointer to the stack was given its value by a statement
\* already passed and is tainted with an &x that was not promoted.
StackTainted(b, n, t, P, h) ==
  \A p \in Pointers : h[p].kind = "stack" =>
    /\ \E m \in 1 .. (n - 1) : Gives(b[m]) /\ b[m].target = p
    /\ \E k \in DOMAIN t : t[k].sym = p /\ t[k].node \notin P

StraightInv ==
  /\ Straight(body)
  /\ OneTaint(taints)
  /\ AddressesTaint(body, Done, addrNodes, taints)
  /\ CopiesTaint(body, Done, taints)
  /\ pc \in {"write", "collect", "mark"} =>
       \A p \in Pointers : holds[p].kind # "stack"
  /\ pc = "run" => StackTainted(body, at, taints, promoted, holds)
  /\ NoDanglingReturn

-----------------------------------------------------------------------------
(* Statements and lists.                                                   *)

\* The parts of a statement.
LEMMA StatementParts ==
  ASSUME NEW s \in Statements
  PROVE  /\ s.op \in {"decl", "assign", "return"} /\ s.value \in Exprs
         /\ s.op # "return" => s.target \in Pointers /\ s.conditional \in BOOLEAN
         /\ Sets(s) <=> s.op # "return"
BY DEF Statements, Sets

\* The parts of an expression.
LEMMA ExprParts ==
  ASSUME NEW e \in Exprs
  PROVE  /\ e.kind \in {"addr", "var", "elsewhere"}
         /\ e.kind = "addr" => e.of \in Locals
         /\ e.kind = "var" => e.of \in Pointers
         /\ e = Elsewhere <=> e.kind = "elsewhere"
BY DEF Exprs, AddressOf, Var, Elsewhere

\* A list with one element more.
LEMMA Longer ==
  ASSUME NEW S, NEW s \in Seq(S), NEW e \in S
  PROVE  /\ Append(s, e) \in Seq(S)
         /\ Len(s) \in Nat /\ Len(Append(s, e)) = Len(s) + 1
         /\ DOMAIN s = 1 .. Len(s)
         /\ DOMAIN Append(s, e) = 1 .. (Len(s) + 1)
         /\ \A i \in 1 .. Len(s) : Append(s, e)[i] = s[i]
         /\ Append(s, e)[Len(s) + 1] = e
<1>1. /\ Append(s, e) \in Seq(S) /\ Len(Append(s, e)) = Len(s) + 1
      /\ \A i \in 1 .. Len(s) : Append(s, e)[i] = s[i]
      /\ Append(s, e)[Len(s) + 1] = e
  BY AppendProperties
<1>2. Len(s) \in Nat /\ DOMAIN s = 1 .. Len(s)
  BY LenProperties
<1>3. DOMAIN Append(s, e) = 1 .. (Len(s) + 1)
  BY <1>1, LenProperties
<1> QED BY <1>1, <1>2, <1>3

\* The element a list was given last, whatever it is.
LEMMA NewLast ==
  ASSUME NEW S, NEW s \in Seq(S), NEW e
  PROVE  Len(s) + 1 \in DOMAIN Append(s, e) /\ Append(s, e)[Len(s) + 1] = e
<1>1. s \in Seq(S \cup {e}) /\ e \in S \cup {e}
  BY SeqMonotonic
<1>2. /\ Len(s) \in Nat /\ DOMAIN Append(s, e) = 1 .. (Len(s) + 1)
      /\ Append(s, e)[Len(s) + 1] = e
  BY <1>1, Longer
<1>3. Len(s) + 1 \in 1 .. (Len(s) + 1)
  BY <1>2
<1> QED BY <1>2, <1>3

\* The elements of a list.
LEMMA Listed ==
  ASSUME NEW S, NEW s \in Seq(S)
  PROVE  /\ Len(s) \in Nat /\ DOMAIN s = 1 .. Len(s)
         /\ \A i \in 1 .. Len(s) : s[i] \in S
BY LenProperties, ElementOfSeq

\* A non-empty set of positions has a first one.
LEMMA FirstOf ==
  ASSUME NEW n \in Nat, NEW T, T \subseteq 1 .. n, T # {}
  PROVE  /\ (CHOOSE i \in T : \A j \in T : i <= j) \in T
         /\ \A j \in T : (CHOOSE i \in T : \A k \in T : i <= k) <= j
<1>1. T \subseteq Nat
  OBVIOUS
<1>2. PICK i \in T : \A j \in T : ~ (<<j, i>> \in OpToRel(<, Nat))
  BY <1>1, WFMin, NatLessThanWellFounded
<1>3. \A j \in T : ~ (j < i)
  BY <1>1, <1>2 DEF OpToRel
<1>4. \A j \in T : i <= j
  BY <1>1, <1>3
<1> QED BY <1>4

-----------------------------------------------------------------------------
(* Types, and what is promoted.                                            *)

LEMMA InitInv == Init => Inv
<1> SUFFICES ASSUME Init PROVE Inv
  OBVIOUS
<1>1. /\ << >> \in Seq(Statements) /\ << >> \in Seq(1 .. MAX_LENGTH)
      /\ << >> \in Seq([sym: Pointers, node: 1 .. MAX_ADDR])
      /\ Len(<< >>) = 0 /\ DOMAIN << >> = {}
  BY EmptySeq
<1>2. TypeOK
  BY <1>1, EscapeAssumption DEF TypeOK, Init, Places
<1>3. Done = 0
  BY DEF Done, Init
<1> QED BY <1>1, <1>2, <1>3 DEF Inv, Init, Shaped, TaintsGiven

LEMMA WriteKeeps ==
  ASSUME Inv, NEW s \in Statements, Write(s)
  PROVE  Inv'
<1>1. /\ Len(body) \in Nat /\ Len(body') = Len(body) + 1
      /\ DOMAIN body = 1 .. Len(body) /\ DOMAIN body' = 1 .. (Len(body) + 1)
      /\ \A i \in 1 .. Len(body) : body'[i] = body[i]
      /\ body' \in Seq(Statements)
  BY Longer DEF Inv, TypeOK, Write
<1>2. TypeOK'
  BY <1>1, EscapeAssumption DEF Inv, TypeOK, Write
<1>3. Shaped(body')
  <2> SUFFICES ASSUME NEW n \in 1 .. (Len(body) + 1), body'[n].op = "return",
                      n # Len(body) + 1
               PROVE  FALSE
    BY <1>1 DEF Shaped
  <2>1. n \in 1 .. Len(body)
    BY <1>1
  <2>2. n = Len(body)
    BY <1>1, <2>1 DEF Inv, Shaped
  <2>3. body # << >>
    BY <1>1, <2>1, EmptySeq DEF Inv, TypeOK
  <2> QED BY <1>1, <2>1, <2>2, <2>3 DEF Write, Complete
<1>4. Done = 0 /\ Done' = 0
  BY DEF Done, Write
<1>5. taints = << >> /\ Len(addrNodes) = 0 /\ Len(taints) = 0
  <2>1. Len(addrNodes) <= 0 /\ Len(taints) <= 0
    BY <1>4 DEF Inv
  <2> QED BY <2>1, EmptySeq, LenProperties DEF Inv, TypeOK
<1>6. TaintsGiven(body', 0, addrNodes', taints')
  BY <1>5 DEF TaintsGiven, Write
<1> QED BY <1>2, <1>3, <1>4, <1>5, <1>6 DEF Inv, Write

LEMMA AnalyseKeeps ==
  ASSUME Inv, Analyse
  PROVE  Inv'
<1>1. Len(body) \in Nat /\ 1 <= Len(body) /\ Len(body) <= MAX_LENGTH
  BY LenProperties, EmptySeq DEF Inv, TypeOK, Analyse, Complete
<1>2. Done = 0 /\ Done' = 0
  BY DEF Done, Analyse
<1>3. TypeOK'
  BY <1>1, EscapeAssumption DEF Inv, TypeOK, Analyse
<1> QED BY <1>1, <1>2, <1>3 DEF Inv, Analyse, Complete

\* What one statement adds: at most its own &x, and at most one taint, of
\* the pointer that it gives a value.
LEMMA CollectAdds ==
  ASSUME Inv, Collect
  PROVE  /\ at \in 1 .. Len(body) /\ Len(body) \in Nat
         /\ Done = at - 1 /\ Done' = at
         /\ addrNodes' \in Seq(1 .. MAX_LENGTH) /\ Len(addrNodes') <= MAX_ADDR
         /\ \/ addrNodes' = addrNodes
            \/ /\ addrNodes' = Append(addrNodes, at)
               /\ HoldsAddress(body[at])
         /\ \/ taints' = taints
            \/ \E i \in DOMAIN addrNodes' :
                 /\ Len(taints) < MAX_ADDR
                 /\ taints' = Append(taints, [sym |-> body[at].target, node |-> i])
                 /\ Gives(body[at])
                 /\ i \in 1 .. MAX_ADDR
                 /\ \/ HoldsAddress(body[at]) /\ addrNodes'[i] = at
                    \/ /\ body[at].op = "assign" /\ body[at].value.kind = "var"
                       /\ Tainted(body[at].value.of) # {}
                       /\ i = TaintOf(body[at].value.of)
<1>1. /\ Len(body) \in Nat /\ DOMAIN body = 1 .. Len(body) /\ at \in 1 .. Len(body)
      /\ body[at] \in Statements
      /\ Len(addrNodes) \in Nat /\ DOMAIN addrNodes = 1 .. Len(addrNodes)
      /\ Len(taints) \in Nat /\ DOMAIN taints = 1 .. Len(taints)
  BY Listed DEF Inv, TypeOK, Collect
<1>2. Done = at - 1 /\ Done' = at
  <2>1. /\ pc = "collect" /\ body' = body /\ at' - 1 = at
        /\ pc' = IF at = Len(body) THEN "mark" ELSE "collect"
    <3>1. /\ pc = "collect" /\ body' = body /\ at' = at + 1
          /\ pc' = IF at = Len(body) THEN "mark" ELSE "collect"
      BY Zenon DEF Collect
    <3>2. at \in Int
      BY <1>1
    <3>3. (at + 1) - 1 = at
      BY <3>2
    <3> QED BY <3>1, <3>3
  <2>2. CASE at = Len(body)
    BY <2>1, <2>2 DEF Done
  <2>3. CASE at # Len(body)
    BY <2>1, <2>3 DEF Done
  <2> QED BY <2>2, <2>3
<1>3. at \in 1 .. MAX_LENGTH /\ MAX_ADDR \in Nat
  BY <1>1, EscapeAssumption DEF Inv, TypeOK
<1>4. /\ addrNodes' = IF HoldsAddress(body[at]) THEN WithAddr(at) ELSE addrNodes
      /\ addrNodes' = addrNodes \/ addrNodes' = Append(addrNodes, at)
      /\ addrNodes' # addrNodes => /\ addrNodes' = Append(addrNodes, at)
                                   /\ HoldsAddress(body[at])
                                   /\ Len(addrNodes) < MAX_ADDR
  BY DEF Collect, WithAddr
<1>5. /\ addrNodes' \in Seq(1 .. MAX_LENGTH) /\ Len(addrNodes') <= MAX_ADDR
      /\ Len(addrNodes') \in Nat /\ DOMAIN addrNodes' = 1 .. Len(addrNodes')
      /\ Len(addrNodes) <= Len(addrNodes')
  <2>1. CASE addrNodes' = addrNodes
    BY <1>1, <2>1 DEF Inv, TypeOK
  <2>2. CASE addrNodes' # addrNodes
    <3>1. addrNodes' = Append(addrNodes, at) /\ Len(addrNodes) < MAX_ADDR
      BY <1>4, <2>2
    <3>2. addrNodes \in Seq(1 .. MAX_LENGTH)
      BY DEF Inv, TypeOK
    <3>3. /\ addrNodes' \in Seq(1 .. MAX_LENGTH) /\ Len(addrNodes') = Len(addrNodes) + 1
          /\ DOMAIN addrNodes' = 1 .. (Len(addrNodes) + 1)
      BY <1>3, <3>1, <3>2, Longer
    <3> QED BY <1>1, <1>3, <3>1, <3>3
  <2> QED BY <2>1, <2>2
<1>6. HoldsAddress(body[at]) => body[at].value # Elsewhere
  BY <1>1, StatementParts, ExprParts DEF HoldsAddress
<1>7. body[at].value.kind = "var" => body[at].value # Elsewhere
  BY <1>1, StatementParts, ExprParts
<1>8. CASE /\ body[at].op \in {"decl", "assign"} /\ HoldsAddress(body[at])
           /\ Len(addrNodes') > 0 /\ addrNodes'[Len(addrNodes')] = at
  <2>1. Len(addrNodes') \in DOMAIN addrNodes' /\ Len(addrNodes') \in 1 .. MAX_ADDR
    BY <1>3, <1>5, <1>8
  <2>2. Gives(body[at])
    BY <1>6, <1>8 DEF Gives, Sets
  <2>3. taints' = WithTaint(body[at].target, Len(addrNodes'))
    BY <1>4, <1>8 DEF Collect
  <2>4. \/ taints' = taints
        \/ /\ Len(taints) < MAX_ADDR
           /\ taints' = Append(taints, [sym |-> body[at].target, node |-> Len(addrNodes')])
    BY <2>3 DEF WithTaint
  <2> QED BY <1>1, <1>2, <1>4, <1>5, <1>8, <2>1, <2>2, <2>4
<1>9. CASE /\ ~ (/\ body[at].op \in {"decl", "assign"} /\ HoldsAddress(body[at])
                 /\ Len(addrNodes') > 0 /\ addrNodes'[Len(addrNodes')] = at)
           /\ body[at].op = "assign" /\ body[at].value.kind = "var"
           /\ Tainted(body[at].value.of) # {}
  <2>. DEFINE i == TaintOf(body[at].value.of)
  <2>1. i \in DOMAIN addrNodes
    <3>1. Tainted(body[at].value.of) \subseteq 1 .. Len(taints)
      BY <1>1 DEF Tainted
    <3>2. (CHOOSE k \in Tainted(body[at].value.of) :
             \A j \in Tainted(body[at].value.of) : k <= j) \in DOMAIN taints
      BY <1>1, <1>9, <3>1, FirstOf
    <3> QED BY <3>2 DEF Inv, TaintsGiven, TaintOf
  <2>2. i \in DOMAIN addrNodes' /\ i \in 1 .. MAX_ADDR
    BY <1>1, <1>3, <1>5, <2>1
  <2>3. Gives(body[at])
    BY <1>7, <1>9 DEF Gives, Sets
  <2>4. taints' = WithTaint(body[at].target, i)
    BY <1>4, <1>9 DEF Collect
  <2>5. \/ taints' = taints
        \/ /\ Len(taints) < MAX_ADDR
           /\ taints' = Append(taints, [sym |-> body[at].target, node |-> i])
    BY <2>4 DEF WithTaint
  <2> QED BY <1>1, <1>2, <1>4, <1>5, <1>9, <2>2, <2>3, <2>5
<1>10. CASE /\ ~ (/\ body[at].op \in {"decl", "assign"} /\ HoldsAddress(body[at])
                  /\ Len(addrNodes') > 0 /\ addrNodes'[Len(addrNodes')] = at)
            /\ ~ (/\ body[at].op = "assign" /\ body[at].value.kind = "var"
                  /\ Tainted(body[at].value.of) # {})
  <2>1. taints' = taints
    BY <1>4, <1>10 DEF Collect
  <2> QED BY <1>1, <1>2, <1>4, <1>5, <2>1
<1> QED BY <1>8, <1>9, <1>10

LEMMA CollectKeeps ==
  ASSUME Inv, Collect
  PROVE  Inv'
<1>1. /\ at \in 1 .. Len(body) /\ Len(body) \in Nat
      /\ Done = at - 1 /\ Done' = at
      /\ addrNodes' \in Seq(1 .. MAX_LENGTH) /\ Len(addrNodes') <= MAX_ADDR
      /\ addrNodes' = addrNodes \/ addrNodes' = Append(addrNodes, at)
  BY CollectAdds
<1>2. /\ body' = body /\ promoted' = promoted /\ holds' = holds
      /\ at' = at + 1 /\ pc = "collect"
      /\ pc' = IF at = Len(body) THEN "mark" ELSE "collect"
  BY DEF Collect
<1>3. /\ body \in Seq(Statements) /\ Len(body) <= MAX_LENGTH
      /\ addrNodes \in Seq(1 .. MAX_LENGTH) /\ MAX_LENGTH \in Nat /\ MAX_ADDR \in Nat
      /\ taints \in Seq([sym: Pointers, node: 1 .. MAX_ADDR]) /\ Len(taints) <= MAX_ADDR
      /\ Len(addrNodes) <= at - 1 /\ Len(taints) <= at - 1
      /\ at \in 1 .. MAX_LENGTH
  BY <1>1, EscapeAssumption DEF Inv, TypeOK
<1>4. /\ Len(addrNodes) \in Nat /\ DOMAIN addrNodes = 1 .. Len(addrNodes)
      /\ Len(taints) \in Nat /\ DOMAIN taints = 1 .. Len(taints)
      /\ DOMAIN body = 1 .. Len(body) /\ body[at] \in Statements
  BY <1>1, <1>3, Listed
<1>5. Len(addrNodes') <= at /\ DOMAIN addrNodes \subseteq DOMAIN addrNodes'
  <2>1. CASE addrNodes' = addrNodes
    BY <1>1, <1>3, <1>4, <2>1
  <2>2. CASE addrNodes' = Append(addrNodes, at)
    <3>1. /\ Len(addrNodes') = Len(addrNodes) + 1
          /\ DOMAIN addrNodes' = 1 .. (Len(addrNodes) + 1)
      BY <1>3, <2>2, Longer
    <3> QED BY <1>1, <1>3, <1>4, <3>1
  <2> QED BY <1>1, <2>1, <2>2
<1>6. \A k \in DOMAIN taints :
        /\ taints[k].node \in DOMAIN addrNodes'
        /\ \E m \in 1 .. at : Gives(body[m]) /\ body[m].target = taints[k].sym
  BY <1>1, <1>5 DEF Inv, TaintsGiven
<1>7. /\ taints' \in Seq([sym: Pointers, node: 1 .. MAX_ADDR])
      /\ Len(taints') <= MAX_ADDR /\ Len(taints') <= at
      /\ TaintsGiven(body, at, addrNodes', taints')
  <2>1. CASE taints' = taints
    BY <1>1, <1>3, <1>4, <1>6, <2>1 DEF TaintsGiven
  <2>2. CASE taints' # taints
    <3>1. PICK i \in DOMAIN addrNodes' :
            /\ Len(taints) < MAX_ADDR
            /\ taints' = Append(taints, [sym |-> body[at].target, node |-> i])
            /\ Gives(body[at])
            /\ i \in 1 .. MAX_ADDR
      BY <2>2, CollectAdds
    <3>2. body[at].target \in Pointers
      BY <1>4, <3>1, StatementParts DEF Gives
    <3>. DEFINE e == [sym |-> body[at].target, node |-> i]
    <3>3. e \in [sym: Pointers, node: 1 .. MAX_ADDR] /\ e.sym = body[at].target /\ e.node = i
      BY <3>1, <3>2
    <3>4. taints' = Append(taints, e)
      BY <3>1
    <3>. HIDE DEF e
    <3>5. /\ taints' \in Seq([sym: Pointers, node: 1 .. MAX_ADDR])
          /\ Len(taints') = Len(taints) + 1
          /\ DOMAIN taints' = 1 .. (Len(taints) + 1)
          /\ \A k \in 1 .. Len(taints) : taints'[k] = taints[k]
          /\ taints'[Len(taints) + 1] = e
      BY <1>3, <3>3, <3>4, Longer
    <3>6. Len(taints') <= MAX_ADDR /\ Len(taints') <= at
      BY <1>1, <1>3, <1>4, <3>1, <3>5
    <3>7. ASSUME NEW k \in DOMAIN taints'
          PROVE  /\ taints'[k].node \in DOMAIN addrNodes'
                 /\ \E m \in 1 .. at : Gives(body[m]) /\ body[m].target = taints'[k].sym
      <4>1. CASE k \in 1 .. Len(taints)
        BY <1>4, <1>6, <3>5, <4>1
      <4>2. CASE k = Len(taints) + 1
        <5>1. at \in 1 .. at
          BY <1>1
        <5> QED BY <3>1, <3>3, <3>5, <4>2, <5>1
      <4> QED BY <1>4, <3>5, <4>1, <4>2
    <3> QED BY <3>5, <3>6, <3>7 DEF TaintsGiven
  <2> QED BY <2>1, <2>2
<1>8. TypeOK'
  <2>1. at + 1 \in 0 .. (MAX_LENGTH + 1)
    BY <1>3
  <2> QED BY <1>1, <1>2, <1>3, <1>7, <2>1 DEF Inv, TypeOK
<1>9. pc' = "collect" => at' \in 1 .. Len(body)
  BY <1>1, <1>2
<1>10. Complete'
  BY <1>2 DEF Inv, Complete
<1>11. Shaped(body')
  BY <1>2 DEF Inv
<1>12. pc' \in {"collect", "mark"}
  BY <1>2
<1> QED BY <1>1, <1>2, <1>5, <1>7, <1>8, <1>9, <1>10, <1>11, <1>12 DEF Inv

LEMMA MarkKeeps ==
  ASSUME Inv, Mark
  PROVE  Inv'
<1>1. /\ body' = body /\ addrNodes' = addrNodes /\ taints' = taints /\ holds' = holds
      /\ pc = "mark" /\ pc' = "run" /\ at' = 1
  BY DEF Mark
<1>2. Len(body) \in Nat /\ 1 <= Len(body) /\ Len(body) <= MAX_LENGTH /\ MAX_ADDR \in Nat
  BY <1>1, LenProperties, EmptySeq, EscapeAssumption DEF Inv, TypeOK, Complete
<1>3. Done = Len(body) /\ Done' = Len(body)
  BY <1>1 DEF Done
<1>4. Marked(body, addrNodes, taints, promoted')
  BY DEF Mark, Marked, Tainted, TaintOf
<1>5. promoted' \subseteq 1 .. MAX_ADDR
  <2>1. /\ Len(addrNodes) \in Nat /\ DOMAIN addrNodes = 1 .. Len(addrNodes)
        /\ Len(addrNodes) <= MAX_ADDR
        /\ Len(taints) \in Nat /\ DOMAIN taints = 1 .. Len(taints)
    BY Listed DEF Inv, TypeOK
  <2>2. DOMAIN addrNodes \subseteq 1 .. MAX_ADDR
    BY <1>2, <2>1
  <2>. DEFINE e == body[Len(body)].value
  <2>3. Tainted(e.of) # {} => TaintOf(e.of) \in 1 .. MAX_ADDR
    <3>1. Tainted(e.of) \subseteq 1 .. Len(taints)
      BY <2>1 DEF Tainted
    <3>2. HAVE Tainted(e.of) # {}
    <3>3. (CHOOSE k \in Tainted(e.of) : \A j \in Tainted(e.of) : k <= j) \in DOMAIN taints
      BY <2>1, <3>1, <3>2, FirstOf
    <3> QED BY <2>2, <3>3 DEF Inv, TaintsGiven, TaintOf
  <2> QED BY <2>2, <2>3 DEF Mark
<1>6. TypeOK'
  <2>1. TypeOK
    BY DEF Inv
  <2>2. 1 \in 0 .. (MAX_LENGTH + 1)
    BY EscapeAssumption
  <2> QED BY <1>1, <1>5, <2>1, <2>2 DEF TypeOK
<1>7. Complete' /\ Shaped(body')
  BY <1>1 DEF Inv, Complete
<1> QED BY <1>1, <1>2, <1>3, <1>4, <1>6, <1>7 DEF Inv

\* A run is at a statement of the body, and past it unless it returns.
LEMMA RunAt ==
  ASSUME Inv, pc = "run"
  PROVE  /\ Len(body) \in Nat /\ at \in 1 .. Len(body) /\ DOMAIN body = 1 .. Len(body)
         /\ body[at] \in Statements
         /\ Done = Len(body)
         /\ Sets(body[at]) => at + 1 \in 1 .. Len(body)
         /\ body[at].op = "return" => at = Len(body)
<1>1. /\ Len(body) \in Nat /\ at \in 1 .. Len(body) /\ DOMAIN body = 1 .. Len(body)
      /\ body[at] \in Statements
  BY Listed DEF Inv, TypeOK
<1>2. Done = Len(body)
  BY DEF Done
<1>3. Sets(body[at]) => at # Len(body)
  BY DEF Inv, Complete, Sets
<1> QED BY <1>1, <1>2, <1>3 DEF Inv, Shaped

\* An expression points to a place.
LEMMA PlaceTyped ==
  ASSUME TypeOK, NEW e \in Exprs, NEW n \in 1 .. MAX_LENGTH
  PROVE  Place(e, n) \in Places
<1>1. e.kind = "addr" => Place(e, n) \in Places
  BY ExprParts DEF Place, Places
<1>2. e.kind = "var" => Place(e, n) \in Places
  BY ExprParts DEF Place, TypeOK
<1>3. e.kind = "elsewhere" => Place(e, n) \in Places
  BY DEF Place, Places
<1> QED BY <1>1, <1>2, <1>3, ExprParts

LEMMA RunKeeps ==
  ASSUME Inv, RunSet \/ RunSkip \/ RunReturn
  PROVE  Inv'
<1>1. /\ Len(body) \in Nat /\ at \in 1 .. Len(body)
      /\ body[at] \in Statements
      /\ Done = Len(body)
      /\ Sets(body[at]) => at + 1 \in 1 .. Len(body)
  BY RunAt DEF RunSet, RunSkip, RunReturn
<1>2. /\ body' = body /\ addrNodes' = addrNodes /\ taints' = taints
      /\ promoted' = promoted /\ pc = "run"
      /\ pc' \in {"run", "returned"}
      /\ at' = at \/ (at' = at + 1 /\ Sets(body[at]))
  BY DEF RunSet, RunSkip, RunReturn, Sets
<1>3. Len(body) <= MAX_LENGTH /\ at \in 1 .. MAX_LENGTH
  BY <1>1, EscapeAssumption DEF Inv, TypeOK
<1>4. at' \in 1 .. Len(body) /\ at' \in 0 .. (MAX_LENGTH + 1)
  BY <1>1, <1>2, <1>3, EscapeAssumption
<1>5. holds' \in [Pointers \cup {"result"} -> Places]
  <2>1. TypeOK /\ body[at].value \in Exprs
    BY <1>1, StatementParts DEF Inv
  <2>2. Place(body[at].value, at) \in Places
    BY <1>3, <2>1, PlaceTyped
  <2>3. CASE RunSet
    BY <2>1, <2>2, <2>3 DEF TypeOK, RunSet
  <2>4. CASE RunSkip
    BY <2>1, <2>4 DEF TypeOK, RunSkip
  <2>5. CASE RunReturn
    BY <2>1, <2>2, <2>5 DEF TypeOK, RunReturn
  <2> QED BY <2>3, <2>4, <2>5
<1>6. TypeOK'
  BY <1>2, <1>4, <1>5 DEF Inv, TypeOK
<1>7. Done' = Len(body)
  BY <1>2 DEF Done
<1>8. Complete' /\ Shaped(body')
  BY <1>2 DEF Inv, Complete
<1>9. Marked(body', addrNodes', taints', promoted')
  BY <1>2 DEF Inv
<1> QED BY <1>1, <1>2, <1>4, <1>6, <1>7, <1>8, <1>9 DEF Inv

LEMMA NextKeeps == Inv /\ [Next]_vars => Inv'
<1> SUFFICES ASSUME Inv, [Next]_vars PROVE Inv'
  OBVIOUS
<1>1. CASE UNCHANGED vars
  BY <1>1 DEF vars, Inv, TypeOK, Done, Complete
<1>2. CASE Next
  BY <1>2, WriteKeeps, AnalyseKeeps, CollectKeeps, MarkKeeps, RunKeeps DEF Next
<1> QED BY <1>1, <1>2

LEMMA InvHolds == Spec => []Inv
BY InitInv, NextKeeps, PTL DEF Spec

\* Types: the pass's two tables stay within their capacity, every taint
\* refers to one of their entries, and every pointer points to a place.
THEOREM TypeCorrect == Spec => []TypeOK
<1>1. Inv => TypeOK
  BY DEF Inv
<1> QED BY <1>1, InvHolds, PTL

\* The pointer of every taint was set by a statement, among those collected,
\* that hands on the &x of the taint.
Reached ==
  \A k \in DOMAIN taints :
    \E m \in 1 .. Done :
      /\ Sets(body[m]) /\ body[m].target = taints[k].sym
      /\ m \in Carriers(addrNodes[taints[k].node])

\* A statement hands on its own &x; a later copy hands on what the statement
\* before it does.
LEMMA CarrierSelf ==
  ASSUME NEW n \in DOMAIN body
  PROVE  n \in Carriers(n)
BY DEF Carriers, HandsOn

LEMMA CarrierCopy ==
  ASSUME NEW n, NEW j \in Carriers(n), NEW k \in DOMAIN body,
         j < k, body[k].value = Var(body[j].target)
  PROVE  k \in Carriers(n)
BY DEF Carriers, HandsOn

LEMMA InitReached == Init => Reached
BY DEF Init, Reached

\* While the body is written there are no taints.
LEMMA WriteReached ==
  ASSUME Inv, NEW s \in Statements, Write(s)
  PROVE  Reached'
<1>1. taints' = taints /\ pc = "write"
  BY DEF Write
<1>2. Done = 0
  BY <1>1 DEF Done
<1>3. Len(taints) \in Nat /\ DOMAIN taints = 1 .. Len(taints) /\ Len(taints) <= 0
  BY <1>2, Listed DEF Inv, TypeOK
<1>4. DOMAIN taints = {}
  BY <1>3
<1> QED BY <1>1, <1>4 DEF Reached

LEMMA CollectReached ==
  ASSUME Inv, Reached, Collect
  PROVE  Reached'
<1>1. /\ at \in 1 .. Len(body) /\ Len(body) \in Nat
      /\ Done = at - 1 /\ Done' = at
      /\ addrNodes' = addrNodes \/ addrNodes' = Append(addrNodes, at)
  BY CollectAdds
<1>2. /\ body' = body
      /\ addrNodes \in Seq(1 .. MAX_LENGTH) /\ at \in 1 .. MAX_LENGTH
      /\ taints \in Seq([sym: Pointers, node: 1 .. MAX_ADDR])
      /\ Len(addrNodes) \in Nat /\ DOMAIN addrNodes = 1 .. Len(addrNodes)
      /\ Len(taints) \in Nat /\ DOMAIN taints = 1 .. Len(taints)
      /\ DOMAIN body = 1 .. Len(body) /\ body[at] \in Statements
  BY <1>1, EscapeAssumption, Listed DEF Inv, TypeOK, Collect
<1>3. \A i \in DOMAIN addrNodes : addrNodes'[i] = addrNodes[i]
  BY <1>1, <1>2, Longer
<1>. DEFINE Hands(k, p, n) ==
       Sets(body[k]) /\ body[k].target = p /\ k \in Carriers(n)
<1>4. \A k \in DOMAIN taints : \E m \in 1 .. (at - 1) :
        Hands(m, taints[k].sym, addrNodes[taints[k].node])
  BY <1>1 DEF Reached
<1>5. \A k \in DOMAIN taints : addrNodes'[taints[k].node] = addrNodes[taints[k].node]
  BY <1>3 DEF Inv, TaintsGiven
<1>6. \A m \in 1 .. (at - 1) : m \in 1 .. at
  BY <1>1
<1>7. \A k \in DOMAIN taints : \E m \in 1 .. at :
        Hands(m, taints[k].sym, addrNodes'[taints[k].node])
  BY <1>4, <1>5, <1>6
<1>8. at \in 1 .. at /\ at \in DOMAIN body
  BY <1>1, <1>2
<1>. HIDE DEF Hands
<1>9. \A k \in DOMAIN taints' : \E m \in 1 .. at :
        Hands(m, taints'[k].sym, addrNodes'[taints'[k].node])
  <2>1. CASE taints' = taints
    BY <1>7, <2>1
  <2>2. CASE taints' # taints
    <3>1. PICK i \in DOMAIN addrNodes' :
            /\ taints' = Append(taints, [sym |-> body[at].target, node |-> i])
            /\ Gives(body[at])
            /\ i \in 1 .. MAX_ADDR
            /\ \/ HoldsAddress(body[at]) /\ addrNodes'[i] = at
               \/ /\ body[at].op = "assign" /\ body[at].value.kind = "var"
                  /\ Tainted(body[at].value.of) # {}
                  /\ i = TaintOf(body[at].value.of)
      BY <2>2, CollectAdds
    <3>2. Hands(at, body[at].target, addrNodes'[i])
      <4>1. CASE addrNodes'[i] = at
        BY <1>8, <3>1, <4>1, CarrierSelf DEF Hands, Gives
      <4>2. CASE /\ body[at].value.kind = "var"
                 /\ Tainted(body[at].value.of) # {}
                 /\ i = TaintOf(body[at].value.of)
        <5>. DEFINE p == body[at].value.of
        <5>1. Tainted(p) \subseteq 1 .. Len(taints)
          BY <1>2 DEF Tainted
        <5>2. PICK k \in Tainted(p) : i = taints[k].node
          BY <1>2, <4>2, <5>1, FirstOf DEF TaintOf
        <5>3. k \in DOMAIN taints /\ taints[k].sym = p
          BY <5>2 DEF Tainted
        <5>4. PICK m \in 1 .. (at - 1) : Hands(m, p, addrNodes[i])
          BY <1>4, <5>2, <5>3
        <5>5. addrNodes'[i] = addrNodes[i]
          BY <1>5, <5>2, <5>3
        <5>6. m < at /\ m \in Carriers(addrNodes[i]) /\ body[m].target = p
          BY <1>1, <5>4 DEF Hands
        <5>7. body[at].value \in Exprs
          BY <1>2, StatementParts
        <5>8. body[at].value = Var(p)
          BY <4>2, <5>7 DEF Exprs, AddressOf, Var, Elsewhere
        <5>9. at \in Carriers(addrNodes[i])
          BY <1>8, <5>6, <5>8, CarrierCopy
        <5> QED BY <3>1, <5>5, <5>9 DEF Hands, Gives
      <4> QED BY <3>1, <4>1, <4>2
    <3>3. body[at].target \in Pointers
      BY <1>2, <3>1, StatementParts DEF Gives
    <3>. DEFINE e == [sym |-> body[at].target, node |-> i]
    <3>4. e \in [sym: Pointers, node: 1 .. MAX_ADDR] /\ e.sym = body[at].target /\ e.node = i
      BY <3>1, <3>3
    <3>5. taints' = Append(taints, e)
      BY <3>1
    <3>. HIDE DEF e
    <3>6. /\ DOMAIN taints' = 1 .. (Len(taints) + 1)
          /\ \A k \in 1 .. Len(taints) : taints'[k] = taints[k]
          /\ taints'[Len(taints) + 1] = e
      BY <1>2, <3>4, <3>5, Longer
    <3>7. ASSUME NEW k \in DOMAIN taints'
          PROVE  \E m \in 1 .. at : Hands(m, taints'[k].sym, addrNodes'[taints'[k].node])
      <4>1. CASE k \in 1 .. Len(taints)
        BY <1>2, <1>7, <3>6, <4>1
      <4>2. CASE k = Len(taints) + 1
        BY <1>8, <3>2, <3>4, <3>6, <4>2
      <4> QED BY <1>2, <3>6, <4>1, <4>2
    <3> QED BY <3>7
  <2> QED BY <2>1, <2>2
<1>10. ASSUME NEW n PROVE Carriers(n)' = Carriers(n)
  BY <1>2 DEF Carriers, HandsOn
<1>11. SUFFICES ASSUME NEW k \in DOMAIN taints'
                PROVE  \E m \in 1 .. at :
                         /\ Sets(body[m]) /\ body[m].target = taints'[k].sym
                         /\ m \in Carriers(addrNodes[taints[k].node])'
  BY <1>1, <1>2 DEF Reached
<1>12. PICK n : n = addrNodes'[taints'[k].node]
  OBVIOUS
<1>13. Carriers(addrNodes[taints[k].node])' = Carriers(n)
  BY <1>2, <1>12 DEF Carriers, HandsOn
<1> QED BY <1>9, <1>12, <1>13 DEF Hands

\* The other steps leave the tables alone, and the body once it is analysed.
LEMMA OtherReached ==
  ASSUME Inv, Reached,
         Analyse \/ Mark \/ RunSet \/ RunSkip \/ RunReturn \/ UNCHANGED vars
  PROVE  Reached'
<1>1. body' = body /\ addrNodes' = addrNodes /\ taints' = taints
  BY DEF Analyse, Mark, RunSet, RunSkip, RunReturn, vars
<1>2. Done' = Done
  <2>1. CASE Analyse
    BY <2>1 DEF Analyse, Done
  <2>2. CASE Mark \/ RunSet \/ RunSkip \/ RunReturn
    BY <2>2 DEF Mark, RunSet, RunSkip, RunReturn, Done
  <2>3. CASE UNCHANGED vars
    BY <2>3 DEF vars, Done
  <2> QED BY <2>1, <2>2, <2>3
<1> QED BY <1>1, <1>2 DEF Reached, Carriers, HandsOn

LEMMA ReachedHolds == Spec => []Reached
<1>1. Inv /\ Reached /\ [Next]_vars => Reached'
  BY WriteReached, CollectReached, OtherReached DEF Next
<1> QED BY <1>1, InitReached, InvHolds, PTL DEF Spec

\* ea_mark_escaping and ea_promote (hir_escape.c:84-125 and 207-225): whatever
\* the body and the capacity of the tables, an &x is moved to the heap only if
\* it is itself what is returned, or gets to the return through the pointer it
\* was given to and copies of that.
THEOREM PromotedIsReturnedHolds == Spec => []PromotedIsReturned
<1>1. ASSUME Inv, Reached PROVE PromotedIsReturned
  <2> SUFFICES ASSUME pc \in {"run", "returned"}, NEW i \in promoted
               PROVE  Len(body) \in Carriers(addrNodes[i])
    BY DEF PromotedIsReturned
  <2>. DEFINE e == body[Len(body)].value
             Entries == {k \in DOMAIN taints : taints[k].sym = e.of}
  <2>1. Marked(body, addrNodes, taints, promoted)
    BY <1>1 DEF Inv
  <2>2. /\ Len(body) \in Nat /\ DOMAIN body = 1 .. Len(body)
        /\ Len(taints) \in Nat /\ DOMAIN taints = 1 .. Len(taints)
        /\ Done = Len(body) /\ Len(body) \in DOMAIN body
        /\ body[Len(body)].op = "return" /\ body[Len(body)] \in Statements
    <3>1. /\ Len(body) \in Nat /\ DOMAIN body = 1 .. Len(body)
          /\ Len(taints) \in Nat /\ DOMAIN taints = 1 .. Len(taints)
          /\ \A k \in 1 .. Len(body) : body[k] \in Statements
      BY <1>1, Listed DEF Inv, TypeOK
    <3>2. body # << >> /\ body[Len(body)].op = "return" /\ body \in Seq(Statements)
      BY <1>1 DEF Inv, Complete, TypeOK
    <3>3. Len(body) # 0
      BY <3>2, EmptySeq
    <3> QED BY <3>1, <3>2, <3>3 DEF Done
  <2>3. CASE e.kind = "addr"
    BY <2>1, <2>2, <2>3, CarrierSelf DEF Marked
  <2>4. CASE e.kind # "addr"
    <3>1. e.kind = "var" /\ Entries # {}
      BY <2>1, <2>4 DEF Marked
    <3>2. Entries \subseteq 1 .. Len(taints)
      BY <2>2
    <3>3. PICK k \in Entries : i = taints[k].node
      BY <2>1, <2>2, <2>4, <3>1, <3>2, FirstOf DEF Marked
    <3>4. PICK m \in 1 .. Len(body) :
            /\ Sets(body[m]) /\ body[m].target = e.of
            /\ m \in Carriers(addrNodes[i])
      BY <1>1, <2>2, <3>3 DEF Reached
    <3>5. m < Len(body)
      BY <2>2, <3>4 DEF Sets
    <3>6. e = Var(body[m].target)
      BY <2>2, <3>1, <3>4, StatementParts DEF Exprs, AddressOf, Var, Elsewhere
    <3> QED BY <2>2, <3>4, <3>5, <3>6, CarrierCopy
  <2> QED BY <2>3, <2>4
<1> QED BY <1>1, InvHolds, ReachedHolds, PTL

-----------------------------------------------------------------------------
(* No pointer into the frame is returned.                                  *)

\* The bodies the taint map is made for: no declaration copies, a pointer is
\* given one value, and the tables hold every statement.
Plain == ~ COPY_DECLS /\ ~ REASSIGN /\ MAX_LENGTH <= MAX_ADDR

LEMMA InitStraight == Init => StraightInv
<1> SUFFICES ASSUME Init PROVE StraightInv
  OBVIOUS
<1>1. Done = 0 /\ body = << >> /\ taints = << >> /\ pc = "write"
  BY DEF Init, Done
<1>2. Straight(body)
  BY <1>1 DEF Straight
<1>3. OneTaint(taints) /\ CopiesTaint(body, Done, taints)
  BY <1>1 DEF OneTaint, CopiesTaint
<1>4. AddressesTaint(body, Done, addrNodes, taints)
  BY <1>1 DEF AddressesTaint
<1>5. \A p \in Pointers : holds[p].kind # "stack"
  BY DEF Init, Unset
<1> QED BY <1>1, <1>2, <1>3, <1>4, <1>5 DEF StraightInv, NoDanglingReturn

\* The body as it is written: MayAdd lets no declaration copy, and lets a
\* pointer be given a value once.
LEMMA WriteStraight ==
  ASSUME Inv, StraightInv, Plain, NEW s \in Statements, Write(s)
  PROVE  StraightInv'
<1>. DEFINE N == Len(body)
<1>1. /\ N \in Nat /\ DOMAIN body = 1 .. N /\ DOMAIN body' = 1 .. (N + 1)
      /\ \A i \in 1 .. N : body'[i] = body[i]
      /\ body'[N + 1] = s
      /\ \A i \in 1 .. N : i \in 1 .. (N + 1)
      /\ N + 1 \in 1 .. (N + 1)
      /\ \A i \in 1 .. (N + 1) : i \in 1 .. N \/ i = N + 1
  BY Longer DEF Inv, TypeOK, Write
<1>. HIDE DEF N
<1>2. /\ \A n \in 1 .. N : body[n].op = "decl" => body[n].value.kind # "var"
      /\ \A n \in 1 .. N : body[n].op = "assign" =>
           \E m \in 1 .. N : body[m].op = "decl" /\ body[m].target = body[n].target
      /\ \A m, n \in 1 .. N :
           Gives(body[m]) /\ Gives(body[n]) /\ body[m].target = body[n].target => m = n
  BY <1>1 DEF StraightInv, Straight
<1>3. MayAdd(s) /\ s.op \in {"decl", "assign", "return"}
  BY StatementParts DEF Write
<1>4. s.op = "decl" => /\ s.value.kind # "var"
                       /\ \A i \in 1 .. N : body[i].op = "decl" => body[i].target # s.target
  BY <1>1, <1>3 DEF MayAdd, Plain, Declared
<1>5. s.op = "assign" => \E m \in 1 .. N : body[m].op = "decl" /\ body[m].target = s.target
  BY <1>1, <1>3 DEF MayAdd, Declared
<1>6. s.op = "assign" => \A i \in 1 .. N : ~ (Gives(body[i]) /\ body[i].target = s.target)
  BY <1>1, <1>3 DEF MayAdd, Plain, Given, Gives, Sets
<1>7. \A n \in 1 .. (N + 1) : body'[n].op = "decl" => body'[n].value.kind # "var"
  BY <1>1, <1>2, <1>4
<1>8. \A n \in 1 .. (N + 1) : body'[n].op = "assign" =>
        \E m \in 1 .. (N + 1) : body'[m].op = "decl" /\ body'[m].target = body'[n].target
  <2> SUFFICES ASSUME NEW n \in 1 .. (N + 1), body'[n].op = "assign"
               PROVE  \E m \in 1 .. (N + 1) :
                        body'[m].op = "decl" /\ body'[m].target = body'[n].target
    OBVIOUS
  <2>1. PICK m \in 1 .. N : body[m].op = "decl" /\ body[m].target = body'[n].target
    BY <1>1, <1>2, <1>5
  <2> QED BY <1>1, <2>1
<1>9. Gives(s) => \A i \in 1 .. N : ~ (Gives(body[i]) /\ body[i].target = s.target)
  <2> SUFFICES ASSUME Gives(s), NEW i \in 1 .. N, Gives(body[i]), body[i].target = s.target
               PROVE  FALSE
    OBVIOUS
  <2>1. CASE s.op = "assign"
    BY <1>6, <2>1
  <2>2. CASE s.op = "decl"
    <3>1. body[i].op = "assign"
      BY <1>4, <2>2 DEF Gives, Sets
    <3> QED BY <1>2, <1>4, <2>2, <3>1
  <2> QED BY <2>1, <2>2 DEF Gives, Sets
<1>10. \A m, n \in 1 .. (N + 1) :
         Gives(body'[m]) /\ Gives(body'[n]) /\ body'[m].target = body'[n].target => m = n
  BY <1>1, <1>2, <1>9
<1>11. Straight(body')
  BY <1>1, <1>7, <1>8, <1>10 DEF Straight
<1>12. Done' = 0 /\ pc' = "write"
  BY DEF Done, Write
<1>13. CopiesTaint(body', 0, taints') /\ AddressesTaint(body', 0, addrNodes', taints')
  BY DEF CopiesTaint, AddressesTaint
<1>14. OneTaint(taints') /\ \A p \in Pointers : holds'[p].kind # "stack"
  BY DEF StraightInv, Write
<1> QED BY <1>11, <1>12, <1>13, <1>14 DEF StraightInv, NoDanglingReturn

LEMMA AnalyseStraight ==
  ASSUME Inv, StraightInv, Analyse
  PROVE  StraightInv'
<1>1. Done = 0 /\ Done' = 0
  BY DEF Done, Analyse
<1>2. /\ body' = body /\ addrNodes' = addrNodes /\ taints' = taints /\ holds' = holds
      /\ pc = "write" /\ pc' = "collect"
  BY DEF Analyse
<1> QED BY <1>1, <1>2 DEF StraightInv, NoDanglingReturn

\* What one statement does when the tables have room: its &x is recorded,
\* and its pointer is tainted with that &x or as the pointer it copies.
LEMMA CollectDoes ==
  ASSUME Inv, Plain, Collect
  PROVE  /\ HoldsAddress(body[at]) =>
              \E i \in DOMAIN addrNodes' :
                /\ addrNodes'[i] = at
                /\ Sets(body[at]) =>
                     taints' = Append(taints, [sym |-> body[at].target, node |-> i])
         /\ body[at].op = "assign" /\ body[at].value.kind = "var"
              /\ Tainted(body[at].value.of) # {} =>
                taints' = Append(taints, [sym |-> body[at].target,
                                          node |-> TaintOf(body[at].value.of)])
<1>1. /\ at \in 1 .. Len(body) /\ Len(body) \in Nat /\ Done = at - 1
  BY CollectAdds
<1>2. Len(addrNodes) < MAX_ADDR /\ Len(taints) < MAX_ADDR
  <2>1. /\ Len(addrNodes) \in Nat /\ Len(taints) \in Nat
        /\ Len(addrNodes) <= at - 1 /\ Len(taints) <= at - 1
        /\ Len(body) <= MAX_LENGTH /\ MAX_LENGTH <= MAX_ADDR
    BY <1>1, Listed DEF Inv, TypeOK, Plain
  <2> QED BY <1>1, <2>1, EscapeAssumption
<1>3. at \in 1 .. MAX_LENGTH
  BY <1>1, EscapeAssumption DEF Inv, TypeOK
<1>4. ASSUME HoldsAddress(body[at])
      PROVE  \E i \in DOMAIN addrNodes' :
               /\ addrNodes'[i] = at
               /\ Sets(body[at]) =>
                    taints' = Append(taints, [sym |-> body[at].target, node |-> i])
  <2>1. addrNodes' = Append(addrNodes, at)
    BY <1>2, <1>4 DEF Collect, WithAddr
  <2>2. addrNodes \in Seq(1 .. MAX_LENGTH)
    BY DEF Inv, TypeOK
  <2>3. /\ Len(addrNodes) \in Nat /\ Len(addrNodes') = Len(addrNodes) + 1
        /\ DOMAIN addrNodes' = 1 .. (Len(addrNodes) + 1)
        /\ addrNodes'[Len(addrNodes) + 1] = at
    BY <1>3, <2>1, <2>2, Longer
  <2>4. Len(addrNodes') \in DOMAIN addrNodes' /\ Len(addrNodes') > 0
        /\ addrNodes'[Len(addrNodes')] = at
    BY <2>3
  <2>5. Sets(body[at]) => taints' = WithTaint(body[at].target, Len(addrNodes'))
    BY <1>4, <2>4 DEF Collect, Sets
  <2>6. Sets(body[at]) =>
          taints' = Append(taints, [sym |-> body[at].target, node |-> Len(addrNodes')])
    BY <1>2, <2>5 DEF WithTaint
  <2> QED BY <2>4, <2>6
<1>5. ASSUME body[at].op = "assign", body[at].value.kind = "var",
             Tainted(body[at].value.of) # {}
      PROVE  taints' = Append(taints, [sym |-> body[at].target,
                                       node |-> TaintOf(body[at].value.of)])
  <2>1. ~ HoldsAddress(body[at])
    BY <1>5 DEF HoldsAddress
  <2>2. taints' = WithTaint(body[at].target, TaintOf(body[at].value.of))
    BY <1>5, <2>1 DEF Collect
  <2> QED BY <1>2, <2>2 DEF WithTaint
<1> QED BY <1>4, <1>5

\* With one taint to a pointer, the first is the only one.
LEMMA TaintIs ==
  ASSUME Inv, OneTaint(taints), NEW p, NEW k \in DOMAIN taints, taints[k].sym = p
  PROVE  Tainted(p) # {} /\ TaintOf(p) = taints[k].node
<1>1. Len(taints) \in Nat /\ DOMAIN taints = 1 .. Len(taints)
  BY Listed DEF Inv, TypeOK
<1>2. Tainted(p) \subseteq 1 .. Len(taints) /\ k \in Tainted(p)
  BY <1>1 DEF Tainted
<1>3. (CHOOSE i \in Tainted(p) : \A j \in Tainted(p) : i <= j) \in Tainted(p)
  BY <1>1, <1>2, FirstOf
<1>4. \A i \in Tainted(p) : i = k
  BY <1>2 DEF Tainted, OneTaint
<1>5. (CHOOSE i \in Tainted(p) : \A j \in Tainted(p) : i <= j) = k
  BY <1>3, <1>4
<1> QED BY <1>2, <1>5 DEF TaintOf

LEMMA CollectStraight ==
  ASSUME Inv, StraightInv, Plain, Collect
  PROVE  StraightInv'
<1>1. /\ at \in 1 .. Len(body) /\ Len(body) \in Nat
      /\ Done = at - 1 /\ Done' = at
      /\ \A n \in 1 .. at : n \in 1 .. (at - 1) \/ n = at
      /\ \A n \in 1 .. (at - 1) : n # at
  BY CollectAdds
<1>2. /\ body' = body /\ holds' = holds /\ pc = "collect" /\ pc' \in {"collect", "mark"}
  BY DEF Collect
<1>3. /\ Len(addrNodes) \in Nat /\ DOMAIN addrNodes = 1 .. Len(addrNodes)
      /\ Len(taints) \in Nat /\ DOMAIN taints = 1 .. Len(taints)
      /\ DOMAIN body = 1 .. Len(body)
      /\ \A n \in 1 .. at : n \in DOMAIN body
      /\ \A n \in 1 .. at : \A m \in 1 .. (n - 1) : m \in DOMAIN body /\ m # n /\ m # at
  BY <1>1, Listed DEF Inv, TypeOK
<1>4. /\ DOMAIN addrNodes \subseteq DOMAIN addrNodes'
      /\ \A i \in DOMAIN addrNodes : addrNodes'[i] = addrNodes[i]
  <2>1. CASE addrNodes' = addrNodes
    BY <2>1
  <2>2. CASE addrNodes' # addrNodes
    <3>1. addrNodes' = Append(addrNodes, at)
      BY <2>2, CollectAdds
    <3>2. at \in 1 .. MAX_LENGTH /\ addrNodes \in Seq(1 .. MAX_LENGTH)
      BY <1>1, EscapeAssumption DEF Inv, TypeOK
    <3> QED BY <1>3, <3>1, <3>2, Longer
  <2> QED BY <2>1, <2>2
<1>5. /\ DOMAIN taints \subseteq DOMAIN taints'
      /\ \A k \in DOMAIN taints : taints'[k] = taints[k]
      /\ \A k \in DOMAIN taints' :
           k \in DOMAIN taints
             \/ (k = Len(taints) + 1 /\ taints'[k].sym = body[at].target /\ Gives(body[at]))
  <2>1. CASE taints' = taints
    BY <2>1
  <2>2. CASE taints' # taints
    <3>1. PICK i \in DOMAIN addrNodes' :
            /\ taints' = Append(taints, [sym |-> body[at].target, node |-> i])
            /\ Gives(body[at]) /\ i \in 1 .. MAX_ADDR
      BY <2>2, CollectAdds
    <3>2. body[at] \in Statements
      BY <1>1, Listed DEF Inv, TypeOK
    <3>3. body[at].target \in Pointers
      BY <3>1, <3>2, StatementParts DEF Gives
    <3>. DEFINE e == [sym |-> body[at].target, node |-> i]
    <3>4. e \in [sym: Pointers, node: 1 .. MAX_ADDR] /\ e.sym = body[at].target
      BY <3>1, <3>3
    <3>5. taints' = Append(taints, e)
      BY <3>1
    <3>6. taints \in Seq([sym: Pointers, node: 1 .. MAX_ADDR])
      BY DEF Inv, TypeOK
    <3>. HIDE DEF e
    <3>7. /\ DOMAIN taints' = 1 .. (Len(taints) + 1)
          /\ \A k \in 1 .. Len(taints) : taints'[k] = taints[k]
          /\ taints'[Len(taints) + 1] = e
      BY <3>4, <3>5, <3>6, Longer
    <3>8. \A k \in 1 .. (Len(taints) + 1) : k \in 1 .. Len(taints) \/ k = Len(taints) + 1
      BY <1>3
    <3> QED BY <1>3, <3>1, <3>4, <3>7, <3>8
  <2> QED BY <2>1, <2>2
<1>6. \A m, n \in DOMAIN body :
        Gives(body[m]) /\ Gives(body[n]) /\ body[m].target = body[n].target => m = n
  BY DEF StraightInv, Straight
<1>7. \A k \in DOMAIN taints :
        /\ taints[k].node \in DOMAIN addrNodes
        /\ \E m \in 1 .. (at - 1) : Gives(body[m]) /\ body[m].target = taints[k].sym
  BY <1>1 DEF Inv, TaintsGiven
<1>8. \A k \in DOMAIN taints : ~ (Gives(body[at]) /\ taints[k].sym = body[at].target)
  BY <1>1, <1>3, <1>6, <1>7
<1>9. OneTaint(taints')
  <2>1. OneTaint(taints)
    BY DEF StraightInv
  <2> QED BY <1>5, <1>8, <2>1 DEF OneTaint
<1>10. AddressesTaint(body, at, addrNodes', taints')
  <2> SUFFICES ASSUME NEW n \in 1 .. at, HoldsAddress(body[n])
               PROVE  /\ \E i \in DOMAIN addrNodes' : addrNodes'[i] = n
                      /\ Sets(body[n]) =>
                           \E k \in DOMAIN taints' :
                             taints'[k].sym = body[n].target /\ addrNodes'[taints'[k].node] = n
    BY DEF AddressesTaint
  <2>1. CASE n \in 1 .. (at - 1)
    <3>1. AddressesTaint(body, at - 1, addrNodes, taints)
      BY <1>1 DEF StraightInv
    <3>2. \E i \in DOMAIN addrNodes : addrNodes[i] = n
      BY <2>1, <3>1 DEF AddressesTaint
    <3>3. ASSUME Sets(body[n])
          PROVE  \E k \in DOMAIN taints' :
                   taints'[k].sym = body[n].target /\ addrNodes'[taints'[k].node] = n
      <4>1. PICK k \in DOMAIN taints :
              taints[k].sym = body[n].target /\ addrNodes[taints[k].node] = n
        BY <2>1, <3>1, <3>3 DEF AddressesTaint
      <4> QED BY <1>4, <1>5, <1>7, <4>1
    <3> QED BY <1>4, <3>2, <3>3
  <2>2. CASE n = at
    <3>1. PICK i \in DOMAIN addrNodes' :
            /\ addrNodes'[i] = at
            /\ Sets(body[at]) =>
                 taints' = Append(taints, [sym |-> body[at].target, node |-> i])
      BY <2>2, CollectDoes
    <3>2. ASSUME Sets(body[at])
          PROVE  \E k \in DOMAIN taints' :
                   taints'[k].sym = body[at].target /\ addrNodes'[taints'[k].node] = at
      <4>1. taints' = Append(taints, [sym |-> body[at].target, node |-> i])
        BY <3>1, <3>2
      <4>2. /\ Len(taints) + 1 \in DOMAIN taints'
            /\ taints'[Len(taints) + 1] = [sym |-> body[at].target, node |-> i]
        <5>1. taints \in Seq([sym: Pointers, node: 1 .. MAX_ADDR])
          BY DEF Inv, TypeOK
        <5> QED BY <4>1, <5>1, NewLast
      <4> QED BY <3>1, <4>2
    <3> QED BY <2>2, <3>1, <3>2
  <2> QED BY <1>1, <2>1, <2>2
<1>11. CopiesTaint(body, at, taints')
  <2> SUFFICES ASSUME NEW n \in 1 .. at, NEW m \in 1 .. (n - 1), NEW k \in DOMAIN taints',
                      body[n].op = "assign", body[n].value.kind = "var",
                      Gives(body[m]), body[m].target = body[n].value.of,
                      taints'[k].sym = body[n].value.of
               PROVE  \E j \in DOMAIN taints' :
                        taints'[j].sym = body[n].target /\ taints'[j].node = taints'[k].node
    BY DEF CopiesTaint
  <2>1. m \in DOMAIN body /\ m # at
    BY <1>3
  <2>2. k \in DOMAIN taints
    <3>1. at \in DOMAIN body
      BY <1>1, <1>3
    <3> QED BY <1>5, <1>6, <2>1, <3>1
  <2>3. taints'[k] = taints[k]
    BY <1>5, <2>2
  <2>4. CASE n \in 1 .. (at - 1)
    <3>1. CopiesTaint(body, at - 1, taints)
      BY <1>1 DEF StraightInv
    <3>2. PICK j \in DOMAIN taints :
            taints[j].sym = body[n].target /\ taints[j].node = taints[k].node
      BY <2>2, <2>3, <2>4, <3>1 DEF CopiesTaint
    <3> QED BY <1>5, <2>3, <3>2
  <2>5. CASE n = at
    <3>1. OneTaint(taints) /\ taints[k].sym = body[at].value.of
      BY <2>3, <2>5 DEF StraightInv
    <3>2. /\ Tainted(body[at].value.of) # {}
          /\ TaintOf(body[at].value.of) = taints[k].node
      BY <2>2, <3>1, TaintIs
    <3>3. taints' = Append(taints, [sym |-> body[at].target, node |-> taints[k].node])
      BY <2>5, <3>2, CollectDoes
    <3>. DEFINE e == [sym |-> body[at].target, node |-> taints[k].node]
    <3>4. /\ Len(taints) + 1 \in DOMAIN taints' /\ taints'[Len(taints) + 1] = e
      <4>1. taints \in Seq([sym: Pointers, node: 1 .. MAX_ADDR])
        BY DEF Inv, TypeOK
      <4> QED BY <3>3, <4>1, NewLast
    <3> QED BY <2>3, <2>5, <3>4
  <2> QED BY <1>1, <2>4, <2>5
<1>12. Straight(body') /\ \A p \in Pointers : holds'[p].kind # "stack"
  BY <1>2 DEF StraightInv
<1> QED BY <1>1, <1>2, <1>9, <1>10, <1>11, <1>12 DEF StraightInv, NoDanglingReturn

LEMMA MarkStraight ==
  ASSUME Inv, StraightInv, Mark
  PROVE  StraightInv'
<1>1. /\ body' = body /\ addrNodes' = addrNodes /\ taints' = taints /\ holds' = holds
      /\ pc = "mark" /\ pc' = "run" /\ at' = 1
  BY DEF Mark
<1>2. Done' = Done
  BY <1>1 DEF Done
<1>3. StackTainted(body', at', taints', promoted', holds')
  BY <1>1 DEF StraightInv, StackTainted
<1> QED BY <1>1, <1>2, <1>3 DEF StraightInv, NoDanglingReturn

\* The recorded &x of a statement that is not on the heap is not promoted.
LEMMA RunSetStraight ==
  ASSUME Inv, StraightInv, RunSet
  PROVE  StraightInv'
<1>1. /\ Len(body) \in Nat /\ at \in 1 .. Len(body) /\ DOMAIN body = 1 .. Len(body)
      /\ body[at] \in Statements /\ Done = Len(body)
  BY RunAt DEF RunSet
<1>2. /\ body' = body /\ addrNodes' = addrNodes /\ taints' = taints
      /\ promoted' = promoted /\ pc = "run" /\ pc' = "run" /\ at' = at + 1
      /\ holds' = [holds EXCEPT ![body[at].target] = Place(body[at].value, at)]
      /\ body[at].op \in {"decl", "assign"} /\ Sets(body[at])
  BY DEF RunSet, Sets
<1>3. Done' = Done
  BY <1>2 DEF Done
<1>4. /\ body[at].target \in Pointers /\ body[at].value \in Exprs
      /\ body[at].value.kind \in {"addr", "var", "elsewhere"}
      /\ body[at].value = Elsewhere <=> body[at].value.kind = "elsewhere"
      /\ body[at].value.kind = "var" => body[at].value.of \in Pointers
  BY <1>1, <1>2, StatementParts, ExprParts
<1>5. StackTainted(body, at, taints, promoted, holds)
  BY <1>2 DEF StraightInv
<1>6. StackTainted(body, at + 1, taints, promoted, holds')
  <2> SUFFICES ASSUME NEW p \in Pointers, holds'[p].kind = "stack"
               PROVE  /\ \E m \in 1 .. at : Gives(body[m]) /\ body[m].target = p
                      /\ \E k \in DOMAIN taints :
                           taints[k].sym = p /\ taints[k].node \notin promoted
    <3>1. (at + 1) - 1 = at
      BY <1>1
    <3> QED BY <3>1 DEF StackTainted
  <2>1. DOMAIN holds = Pointers \cup {"result"}
    BY DEF Inv, TypeOK
  <2>2. CASE p # body[at].target
    <3>1. holds'[p] = holds[p]
      BY <1>2, <2>1, <2>2
    <3>2. \A m \in 1 .. (at - 1) : m \in 1 .. at
      BY <1>1
    <3> QED BY <1>5, <3>1, <3>2 DEF StackTainted
  <2>3. CASE p = body[at].target
    <3>1. holds'[p] = Place(body[at].value, at)
      BY <1>2, <2>1, <2>3
    <3>2. at \in 1 .. at
      BY <1>1
    <3>3. CASE body[at].value.kind = "addr"
      <4>1. ~ OnHeap(at)
        BY <3>1, <3>3 DEF Place, Heap
      <4>2. AddressesTaint(body, Len(body), addrNodes, taints)
        BY <1>1 DEF StraightInv
      <4>3. PICK k \in DOMAIN taints :
              taints[k].sym = p /\ addrNodes[taints[k].node] = at
        BY <1>1, <1>2, <2>3, <3>3, <4>2 DEF AddressesTaint, HoldsAddress
      <4>4. taints[k].node \notin promoted
        BY <4>1, <4>3 DEF OnHeap
      <4> QED BY <1>2, <1>4, <2>3, <3>2, <3>3, <4>3, <4>4 DEF Gives
    <3>4. CASE body[at].value.kind = "var"
      <4>. DEFINE q == body[at].value.of
      <4>1. q \in Pointers /\ holds[q].kind = "stack"
        BY <1>4, <3>1, <3>4 DEF Place
      <4>2. body[at].op = "assign"
        BY <1>1, <1>2, <3>4 DEF StraightInv, Straight
      <4>3. PICK m \in 1 .. (at - 1) : Gives(body[m]) /\ body[m].target = q
        BY <1>5, <4>1 DEF StackTainted
      <4>4. PICK k \in DOMAIN taints : taints[k].sym = q /\ taints[k].node \notin promoted
        BY <1>5, <4>1 DEF StackTainted
      <4>5. CopiesTaint(body, Len(body), taints)
        BY <1>1 DEF StraightInv
      <4>6. \E j \in DOMAIN taints :
              taints[j].sym = body[at].target /\ taints[j].node = taints[k].node
        BY <1>1, <3>4, <4>2, <4>3, <4>4, <4>5 DEF CopiesTaint
      <4>7. Gives(body[at])
        BY <1>2, <1>4, <3>4 DEF Gives
      <4> QED BY <2>3, <3>2, <4>4, <4>6, <4>7
    <3>5. CASE body[at].value.kind = "elsewhere"
      BY <3>1, <3>5 DEF Place, Outside
    <3> QED BY <1>4, <3>3, <3>4, <3>5
  <2> QED BY <2>2, <2>3
<1> QED BY <1>2, <1>3, <1>6 DEF StraightInv, NoDanglingReturn

LEMMA RunSkipStraight ==
  ASSUME Inv, StraightInv, RunSkip
  PROVE  StraightInv'
<1>1. at \in Nat
  BY RunAt DEF RunSkip
<1>2. /\ body' = body /\ addrNodes' = addrNodes /\ taints' = taints
      /\ promoted' = promoted /\ holds' = holds
      /\ pc = "run" /\ pc' = "run" /\ at' = at + 1
  BY DEF RunSkip
<1>3. Done' = Done
  BY <1>2 DEF Done
<1>4. StackTainted(body, at + 1, taints, promoted, holds)
  <2>1. \A m \in 1 .. (at - 1) : m \in 1 .. ((at + 1) - 1)
    BY <1>1
  <2>2. StackTainted(body, at, taints, promoted, holds)
    BY <1>2 DEF StraightInv
  <2> QED BY <2>1, <2>2 DEF StackTainted
<1> QED BY <1>2, <1>3, <1>4 DEF StraightInv, NoDanglingReturn

\* The returned &x is on the heap, and so is the one the returned pointer
\* was tainted with.
LEMMA RunReturnStraight ==
  ASSUME Inv, StraightInv, RunReturn
  PROVE  StraightInv'
<1>1. /\ Len(body) \in Nat /\ at \in 1 .. Len(body) /\ body[at] \in Statements
      /\ Done = Len(body) /\ at = Len(body)
  BY RunAt DEF RunReturn
<1>2. /\ body' = body /\ addrNodes' = addrNodes /\ taints' = taints
      /\ promoted' = promoted /\ pc = "run" /\ pc' = "returned" /\ at' = at
      /\ holds' = [holds EXCEPT !["result"] = Place(body[at].value, at)]
  BY DEF RunReturn
<1>3. Done' = Done
  BY <1>2 DEF Done
<1>. DEFINE e == body[at].value
<1>4. /\ e.kind \in {"addr", "var", "elsewhere"}
      /\ e.kind = "var" => e.of \in Pointers
  BY <1>1, StatementParts, ExprParts
<1>5. Marked(body, addrNodes, taints, promoted)
  BY <1>2 DEF Inv
<1>6. Place(e, at).kind # "stack"
  <2>1. CASE e.kind = "addr"
    <3>1. AddressesTaint(body, Len(body), addrNodes, taints)
      BY <1>1 DEF StraightInv
    <3>2. PICK i \in DOMAIN addrNodes : addrNodes[i] = at
      BY <1>1, <2>1, <3>1 DEF AddressesTaint, HoldsAddress
    <3>3. promoted = {j \in DOMAIN addrNodes : addrNodes[j] = Len(body)}
      BY <1>1, <1>5, <2>1 DEF Marked
    <3>4. OnHeap(at)
      BY <1>1, <3>2, <3>3 DEF OnHeap
    <3> QED BY <2>1, <3>4 DEF Place, Heap
  <2>2. CASE e.kind = "var"
    <3> SUFFICES ASSUME holds[e.of].kind = "stack" PROVE FALSE
      BY <2>2 DEF Place
    <3>1. PICK k \in DOMAIN taints : taints[k].sym = e.of /\ taints[k].node \notin promoted
      BY <1>2, <1>4, <2>2 DEF StraightInv, StackTainted
    <3>2. Tainted(e.of) # {} /\ TaintOf(e.of) = taints[k].node
      BY <3>1, TaintIs DEF StraightInv
    <3>3. promoted = {TaintOf(e.of)}
      BY <1>1, <1>5, <2>2, <3>2 DEF Marked, Tainted, TaintOf
    <3> QED BY <3>1, <3>2, <3>3
  <2>3. CASE e.kind = "elsewhere"
    BY <2>3 DEF Place, Outside
  <2> QED BY <1>4, <2>1, <2>2, <2>3
<1>7. holds'["result"] = Place(e, at)
  BY <1>2 DEF Inv, TypeOK
<1>8. NoDanglingReturn'
  BY <1>6, <1>7 DEF NoDanglingReturn
<1> QED BY <1>2, <1>3, <1>8 DEF StraightInv

LEMMA NextStraight ==
  ASSUME Inv, StraightInv, Plain, [Next]_vars
  PROVE  StraightInv'
<1>1. CASE UNCHANGED vars
  <2>1. /\ body' = body /\ addrNodes' = addrNodes /\ taints' = taints /\ at' = at
        /\ promoted' = promoted /\ holds' = holds /\ pc' = pc
    BY <1>1 DEF vars
  <2>2. Done' = Done
    BY <2>1 DEF Done
  <2> QED BY <2>1, <2>2 DEF StraightInv, NoDanglingReturn
<1>2. CASE Next
  <2>1. CASE \E s \in Statements : Write(s)
    BY <2>1, WriteStraight
  <2>2. CASE Analyse
    BY <2>2, AnalyseStraight
  <2>3. CASE Collect
    BY <2>3, CollectStraight
  <2>4. CASE Mark
    BY <2>4, MarkStraight
  <2>5. CASE RunSet \/ RunSkip \/ RunReturn
    BY <2>5, RunSetStraight, RunSkipStraight, RunReturnStraight
  <2> QED BY <1>2, <2>1, <2>2, <2>3, <2>4, <2>5 DEF Next
<1> QED BY <1>1, <1>2

\* tests/integration/memory/escape_analysis.rsg:1, "if not proven
\* non-escaping, it escapes": a function whose pointers are each given one
\* value, by a declaration that does not copy another pointer or by an
\* assignment, and that fits the tables, never returns a pointer into its
\* own frame, whichever of its conditional statements run.
THEOREM NoDanglingReturnHolds == Plain => (Spec => []NoDanglingReturn)
<1> SUFFICES ASSUME Plain PROVE Spec => []NoDanglingReturn
  OBVIOUS
<1>1. Init => Inv /\ StraightInv
  BY InitInv, InitStraight
<1>2. Inv /\ StraightInv /\ [Next]_vars => Inv' /\ StraightInv'
  BY NextKeeps, NextStraight
<1>3. StraightInv => NoDanglingReturn
  BY DEF StraightInv
<1> QED BY <1>1, <1>2, <1>3, PTL DEF Spec
=============================================================================
