--------------------------- MODULE Worklist_proofs ---------------------------
(***************************************************************************)
(* Proofs about the worklist: what mono has seen of the queue is what the  *)
(* program has, once under each name, whatever the bodies ask for.         *)
(***************************************************************************)
EXTENDS Worklist, SequenceTheorems, TLAPS

-----------------------------------------------------------------------------
(* The inductive invariant.                                                *)

Lists ==
  /\ IsList(queue) /\ IsList(emitted)
  /\ gi \in 0 .. Len(queue)
  /\ over => gi = Len(queue)

\* What has been seen is there under its name.
Covered == \A i \in 1 .. gi : \E k \in 1 .. Len(emitted) : emitted[k].n = queue[i].n

\* No name is there twice.
Distinct == \A k, l \in 1 .. Len(emitted) : emitted[k].n = emitted[l].n => k = l

\* What is there is the first of its name in the queue.
First == \A k \in 1 .. Len(emitted) : \E j \in 1 .. gi : emitted[k] = queue[j] /\ ~ Met(j)

WorkInv == Lists /\ Covered /\ Distinct /\ First

-----------------------------------------------------------------------------
(* Sequences.                                                              *)

LEMMA EmptyList == IsList(<< >>) /\ Len(<< >>) = 0
BY EmptySeq DEF IsList

LEMMA ListIs ==
  ASSUME NEW s, IsList(s)
  PROVE  Len(s) \in Nat /\ DOMAIN s = 1 .. Len(s)
<1>. DEFINE S == {s[i] : i \in DOMAIN s}
<1>1. s \in Seq(S)
  BY DEF IsList
<1>. HIDE DEF S
<1> QED BY <1>1, LenProperties

\* A list with one element more at its end.
LEMMA Appended ==
  ASSUME NEW s, IsList(s), NEW e
  PROVE  /\ IsList(Append(s, e)) /\ Len(Append(s, e)) = Len(s) + 1
         /\ \A i \in 1 .. Len(s) : Append(s, e)[i] = s[i]
         /\ Append(s, e)[Len(s) + 1] = e
<1>. DEFINE S == {s[i] : i \in DOMAIN s}
            a == Append(s, e)
<1>1. s \in Seq(S \cup {e}) /\ e \in S \cup {e}
  <2>1. s \in Seq(S)
    BY DEF IsList
  <2>2. \A i \in 1 .. Len(s) : s[i] \in S
    BY <2>1, ListIs
  <2> QED BY <2>1, <2>2
<1>. HIDE DEF S
<1>2. /\ a \in Seq(S \cup {e}) /\ Len(a) = Len(s) + 1
      /\ \A i \in 1 .. Len(s) : a[i] = s[i]
      /\ a[Len(s) + 1] = e
  BY <1>1, AppendProperties
<1>. HIDE DEF a
<1>3. IsList(a)
  <2>. DEFINE T == {a[i] : i \in DOMAIN a}
  <2>1. Len(a) \in Nat /\ DOMAIN a = 1 .. Len(a) /\ a = [i \in 1 .. Len(a) |-> a[i]]
    BY <1>2, LenProperties
  <2>2. \A i \in 1 .. Len(a) : a[i] \in T
    BY <2>1
  <2>. HIDE DEF T
  <2>3. a \in Seq(T)
    BY <2>1, <2>2
  <2> QED BY <2>3 DEF T, IsList
<1> QED BY <1>2, <1>3 DEF a

-----------------------------------------------------------------------------
(* The steps.                                                              *)

LEMMA InitWork == WorkInit => WorkInv
BY EmptyList DEF WorkInit, WorkInv, Lists, Covered, Distinct, First

\* What is asked for comes after what has been seen, and changes none of it.
LEMMA GrowKeeps ==
  ASSUME Lists, Grows
  PROVE  /\ IsList(queue') /\ Len(queue) \in Nat /\ Len(queue') \in Nat
         /\ Len(queue) <= Len(queue')
         /\ \A j \in 1 .. Len(queue) : queue'[j] = queue[j] /\ (Met(j)' <=> Met(j))
<1>1. /\ Len(queue) \in Nat /\ Len(queue') \in Nat /\ Len(queue) <= Len(queue')
      /\ IsList(queue')
      /\ \A j \in 1 .. Len(queue) : queue'[j] = queue[j]
  BY ListIs DEF Lists, Grows
<1>2. \A j \in 1 .. Len(queue) : j \in Nat /\ \A i \in 1 .. (j - 1) : i \in 1 .. Len(queue)
  BY <1>1
<1>3. \A j \in 1 .. Len(queue) : Met(j)' <=> Met(j)
  BY <1>1, <1>2 DEF Met
<1> QED BY <1>1, <1>3

LEMMA AskKeeps ==
  ASSUME WorkInv, Ask
  PROVE  WorkInv'
<1>1. gi = 0 /\ ~ over /\ Grows /\ UNCHANGED <<gi, emitted, over>>
  BY DEF Ask
<1>2. Lists' /\ 1 .. gi = {}
  BY <1>1, GrowKeeps DEF WorkInv, Lists
<1> QED BY <1>1, <1>2 DEF WorkInv, Covered, Distinct, First

LEMMA SkipKeeps ==
  ASSUME WorkInv, Skip
  PROVE  WorkInv'
<1>1. /\ gi \in Nat /\ Len(queue) \in Nat /\ gi < Len(queue) /\ gi' = gi + 1
      /\ UNCHANGED <<queue, emitted, over>>
  BY ListIs DEF WorkInv, Lists, Skip
<1>2. Lists'
  BY <1>1 DEF WorkInv, Lists
<1>3. PICK j \in 1 .. gi : queue[j].n = queue[gi + 1].n
  BY <1>1 DEF Skip, Met
<1>4. Covered'
  <2> SUFFICES ASSUME NEW i \in 1 .. (gi + 1)
               PROVE  \E k \in 1 .. Len(emitted) : emitted[k].n = queue[i].n
    BY <1>1 DEF Covered
  <2>1. CASE i = gi + 1
    BY <1>3, <2>1 DEF WorkInv, Covered
  <2>2. CASE i # gi + 1
    BY <1>1, <2>2 DEF WorkInv, Covered
  <2> QED BY <2>1, <2>2
<1>5. Distinct'
  BY <1>1 DEF WorkInv, Distinct
<1>6. First'
  <2>1. \A j1 \in 1 .. gi : j1 \in 1 .. (gi + 1) /\ (Met(j1)' <=> Met(j1))
    BY <1>1 DEF Met
  <2> QED BY <1>1, <2>1 DEF WorkInv, First
<1> QED BY <1>2, <1>4, <1>5, <1>6 DEF WorkInv

\* The name of an instance that is added is not there yet.
LEMMA NewName ==
  ASSUME WorkInv, Emit
  PROVE  \A k \in 1 .. Len(emitted) : emitted[k].n # queue[gi + 1].n
<1> SUFFICES ASSUME NEW k \in 1 .. Len(emitted), emitted[k].n = queue[gi + 1].n
             PROVE  FALSE
  OBVIOUS
<1>1. PICK j \in 1 .. gi : emitted[k] = queue[j]
  BY DEF WorkInv, First
<1>2. gi \in Nat
  BY DEF WorkInv, Lists
<1>3. j \in 1 .. ((gi + 1) - 1)
  BY <1>2
<1> QED BY <1>1, <1>3 DEF Emit, Met

LEMMA EmitKeeps ==
  ASSUME WorkInv, Emit
  PROVE  WorkInv'
<1>1. /\ gi \in Nat /\ gi < Len(queue) /\ ~ Met(gi + 1) /\ gi' = gi + 1
      /\ emitted' = Append(emitted, queue[gi + 1])
      /\ Grows /\ over' = over /\ ~ over
  BY ListIs DEF WorkInv, Lists, Emit
<1>2. /\ IsList(queue') /\ Len(queue) \in Nat /\ Len(queue') \in Nat
      /\ Len(queue) <= Len(queue')
      /\ \A j \in 1 .. Len(queue) : queue'[j] = queue[j] /\ (Met(j)' <=> Met(j))
  BY <1>1, GrowKeeps DEF WorkInv
<1>. DEFINE m == Len(emitted)
            new == queue[gi + 1]
<1>3. /\ m \in Nat /\ IsList(emitted') /\ Len(emitted') = m + 1
      /\ \A k \in 1 .. m : emitted'[k] = emitted[k]
      /\ emitted'[m + 1] = new
  BY <1>1, Appended, ListIs DEF WorkInv, Lists
<1>4. \A k \in 1 .. m : emitted[k].n # new.n
  BY NewName
<1>5. gi + 1 \in 1 .. Len(queue) /\ \A i \in 1 .. gi : i \in 1 .. Len(queue)
  BY <1>1, <1>2
<1>. HIDE DEF m, new
<1>6. Lists'
  BY <1>1, <1>2, <1>3 DEF Lists
<1>7. \A k \in 1 .. (m + 1) : k \in 1 .. m \/ k = m + 1
  BY <1>3
<1>8. /\ \A k \in 1 .. m : k \in 1 .. (m + 1)
      /\ m + 1 \in 1 .. (m + 1)
  BY <1>3
<1>9. Covered'
  <2> SUFFICES ASSUME NEW i \in 1 .. (gi + 1)
               PROVE  \E k \in 1 .. (m + 1) : emitted'[k].n = queue'[i].n
    BY <1>1, <1>3 DEF Covered
  <2>1. CASE i = gi + 1
    BY <1>2, <1>3, <1>5, <1>8, <2>1 DEF new
  <2>2. CASE i \in 1 .. gi
    <3>1. PICK k \in 1 .. m : emitted[k].n = queue[i].n
      BY <2>2 DEF WorkInv, Covered, m
    <3> QED BY <1>2, <1>3, <1>5, <1>8, <2>2, <3>1
  <2>3. i = gi + 1 \/ i \in 1 .. gi
    BY <1>1
  <2> QED BY <2>1, <2>2, <2>3
<1>10. Distinct'
  <2> SUFFICES ASSUME NEW k \in 1 .. (m + 1), NEW l \in 1 .. (m + 1),
                      emitted'[k].n = emitted'[l].n
               PROVE  k = l
    BY <1>3 DEF Distinct
  <2>1. CASE k \in 1 .. m /\ l \in 1 .. m
    BY <1>3, <2>1 DEF WorkInv, Distinct, m
  <2>2. CASE k = m + 1 \/ l = m + 1
    BY <1>3, <1>4, <1>7, <2>2
  <2> QED BY <1>7, <2>1, <2>2
<1>11. First'
  <2> SUFFICES ASSUME NEW k \in 1 .. (m + 1)
               PROVE  \E j \in 1 .. (gi + 1) : emitted'[k] = queue'[j] /\ ~ Met(j)'
    BY <1>1, <1>3 DEF First
  <2>1. CASE k = m + 1
    <3>1. PICK j \in 1 .. Len(queue) : j = gi + 1
      BY <1>5
    <3>2. j \in 1 .. (gi + 1) /\ queue[j] = new /\ ~ Met(j)
      BY <1>1, <3>1 DEF new
    <3>3. queue'[j] = new /\ ~ Met(j)'
      BY <1>2, <3>2
    <3> QED BY <1>3, <2>1, <3>2, <3>3
  <2>2. CASE k \in 1 .. m
    <3>1. PICK j \in 1 .. gi : emitted[k] = queue[j] /\ ~ Met(j)
      BY <2>2 DEF WorkInv, First, m
    <3>2. j \in 1 .. (gi + 1)
      BY <1>1
    <3> QED BY <1>2, <1>3, <1>5, <2>2, <3>1, <3>2
  <2> QED BY <1>7, <2>1, <2>2
<1> QED BY <1>6, <1>9, <1>10, <1>11 DEF WorkInv

LEMMA NextWork == WorkInv /\ [WorkNext]_workVars => WorkInv'
<1> SUFFICES ASSUME WorkInv, [WorkNext]_workVars PROVE WorkInv'
  OBVIOUS
<1>1. CASE End \/ UNCHANGED workVars
  <2>1. /\ UNCHANGED <<queue, gi, emitted>>
        /\ over' => gi = Len(queue) \/ over
    BY <1>1 DEF End, workVars
  <2>2. \A j : Met(j)' <=> Met(j)
    BY <2>1 DEF Met
  <2>3. Lists'
    BY <2>1 DEF WorkInv, Lists
  <2>4. Covered' /\ Distinct'
    BY <2>1 DEF WorkInv, Covered, Distinct
  <2>5. First'
    BY <2>1, <2>2 DEF WorkInv, First
  <2> QED BY <2>3, <2>4, <2>5 DEF WorkInv
<1> QED BY <1>1, AskKeeps, SkipKeeps, EmitKeeps DEF WorkNext

LEMMA WorkHolds == WorkSpec => []WorkInv
BY InitWork, NextWork, PTL DEF WorkSpec

-----------------------------------------------------------------------------
(* The theorems.                                                           *)

\* instantiate_pending_generics adds what has been asked for, what only the
\* bodies of other instances ask for included, once under each name, and as it
\* was first asked for (mono.c:27-41).
THEOREM AllEmittedOnceHolds == WorkSpec => []AllEmittedOnce
<1>1. ASSUME WorkInv PROVE AllEmittedOnce
  <2> SUFFICES ASSUME over, NEW i \in DOMAIN queue
               PROVE  \E k \in DOMAIN emitted :
                        /\ emitted[k].n = queue[i].n
                        /\ \A l \in DOMAIN emitted : emitted[l].n = queue[i].n => l = k
                        /\ \E j \in 1 .. i : emitted[k] = queue[j] /\ ~ Met(j)
    BY DEF AllEmittedOnce
  <2>1. /\ Len(queue) \in Nat /\ gi = Len(queue) /\ i \in 1 .. gi
        /\ DOMAIN emitted = 1 .. Len(emitted)
    BY <1>1, ListIs DEF WorkInv, Lists
  <2>2. PICK k \in 1 .. Len(emitted) : emitted[k].n = queue[i].n
    BY <1>1, <2>1 DEF WorkInv, Covered
  <2>3. PICK j \in 1 .. gi : emitted[k] = queue[j] /\ ~ Met(j)
    BY <1>1 DEF WorkInv, First
  <2>4. j \in 1 .. i
    <3> SUFFICES ASSUME j > i PROVE FALSE
      BY <2>1
    <3>1. i \in 1 .. (j - 1)
      BY <2>1
    <3> QED BY <2>2, <2>3, <3>1 DEF Met
  <2>5. \A l \in DOMAIN emitted : emitted[l].n = queue[i].n => l = k
    BY <1>1, <2>1, <2>2 DEF WorkInv, Distinct
  <2> QED BY <2>1, <2>2, <2>3, <2>4, <2>5
<1> QED BY <1>1, WorkHolds, PTL

\* Each round adds a name that was not there, or only shortens the queue: the
\* one way not to end is to ask for new names for ever, as a function does that
\* instantiates itself at a growing type (mono.c:27-48).
THEOREM RoundsAdvanceHold == WorkSpec => RoundsAdvance
<1>. DEFINE A == gi' # gi =>
       \/ NamesOf(emitted) \subseteq NamesOf(emitted') /\ NamesOf(emitted') # NamesOf(emitted)
       \/ /\ emitted' = emitted /\ queue' = queue
          /\ Len(queue) - gi \in Nat /\ Len(queue') - gi' \in Nat
          /\ Len(queue') - gi' < Len(queue) - gi
<1>1. ASSUME WorkInv, WorkNext PROVE A
  <2>1. CASE Ask \/ End
    BY <2>1 DEF Ask, End
  <2>2. CASE Skip
    <3>1. /\ gi \in Nat /\ Len(queue) \in Nat /\ gi < Len(queue) /\ gi' = gi + 1
          /\ UNCHANGED <<queue, emitted>>
      BY <1>1, <2>2, ListIs DEF WorkInv, Lists, Skip
    <3> QED BY <3>1
  <2>3. CASE Emit
    <3>. DEFINE m == Len(emitted)
    <3>1. /\ m \in Nat /\ DOMAIN emitted = 1 .. m /\ DOMAIN emitted' = 1 .. (m + 1)
          /\ \A k \in 1 .. m : emitted'[k] = emitted[k]
          /\ emitted'[m + 1] = queue[gi + 1]
      BY <1>1, <2>3, Appended, ListIs DEF WorkInv, Lists, Emit
    <3>2. \A k \in 1 .. m : emitted[k].n # queue[gi + 1].n
      BY <1>1, <2>3, NewName
    <3>. HIDE DEF m
    <3>3. /\ \A k \in 1 .. m : k \in 1 .. (m + 1)
          /\ m + 1 \in 1 .. (m + 1)
      BY <3>1
    <3>4. NamesOf(emitted) \subseteq NamesOf(emitted')
      BY <3>1, <3>3 DEF NamesOf
    <3>5. queue[gi + 1].n \in NamesOf(emitted') /\ queue[gi + 1].n \notin NamesOf(emitted)
      BY <3>1, <3>2, <3>3 DEF NamesOf
    <3> QED BY <3>4, <3>5
  <2>. HIDE DEF A
  <2> QED BY <1>1, <2>1, <2>2, <2>3 DEF WorkNext
<1>2. WorkInv /\ [WorkNext]_workVars => [A]_workVars
  <2>. HIDE DEF A
  <2> QED BY <1>1
<1> QED BY <1>2, WorkHolds, PTL DEF WorkSpec, RoundsAdvance
==============================================================================
