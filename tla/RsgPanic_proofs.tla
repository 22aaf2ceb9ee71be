-------------------------- MODULE RsgPanic_proofs --------------------------
(***************************************************************************)
(* Proofs about panics: the frames match the activations, the panic state  *)
(* matches the unwinding, and defers run once, in reverse order, for every *)
(* depth of calls, number of defers and set of messages.                   *)
(***************************************************************************)
EXTENDS RsgPanic, SequenceTheorems, TLAPS

-----------------------------------------------------------------------------
(* How a step changes a sequence, element by element.                      *)

Pushed(s, t, e) ==
  /\ Len(t) = Len(s) + 1
  /\ t[Len(s) + 1] = e
  /\ \A i \in 1 .. Len(s) : t[i] = s[i]

Shorter(s, t) ==
  /\ Len(t) = Len(s) - 1
  /\ \A i \in 1 .. (Len(s) - 1) : t[i] = s[i]

\* The elements up to n - 1 stay, the one at n becomes e, the rest is gone.
CutAt(s, t, n, e) ==
  /\ Len(t) = n
  /\ t[n] = e
  /\ \A i \in 1 .. (n - 1) : t[i] = s[i]

\* Append is a push.
LEMMA AppendPushes ==
  ASSUME NEW S, NEW s \in Seq(S), NEW e \in S
  PROVE  Append(s, e) \in Seq(S) /\ Pushed(s, Append(s, e), e)
BY AppendProperties DEF Pushed

\* A prefix has the elements it had.
LEMMA Prefix ==
  ASSUME NEW S, NEW s \in Seq(S), NEW n \in 0 .. Len(s)
  PROVE  /\ SubSeq(s, 1, n) \in Seq(S)
         /\ Len(SubSeq(s, 1, n)) = n
         /\ \A i \in 1 .. n : SubSeq(s, 1, n)[i] = s[i]
<1>1. Len(s) \in Nat /\ \A i \in 1 .. Len(s) : s[i] \in S
  BY LenProperties, ElementOfSeq
<1>2. 1 \in Int /\ n \in Int /\ \A i \in 1 .. n : s[i] \in S
  BY <1>1
<1>3. /\ SubSeq(s, 1, n) \in Seq(S)
      /\ Len(SubSeq(s, 1, n)) = IF 1 <= n THEN n - 1 + 1 ELSE 0
      /\ \A i \in 1 .. n - 1 + 1 : SubSeq(s, 1, n)[i] = s[1 + i - 1]
  BY <1>2, SubSeqProperties
<1> QED BY <1>1, <1>3

\* Dropping the last element is a pop.
LEMMA ButlastPops ==
  ASSUME NEW S, NEW s \in Seq(S), Len(s) > 0
  PROVE  Butlast(s) \in Seq(S) /\ Shorter(s, Butlast(s))
<1>1. Len(s) - 1 \in 0 .. Len(s)
  BY LenProperties
<1> QED BY <1>1, Prefix DEF Butlast, Shorter

\* A prefix whose last element is replaced.
LEMMA ExceptCuts ==
  ASSUME NEW S, NEW s \in Seq(S), NEW n \in 1 .. Len(s), NEW e \in S
  PROVE  LET t == [SubSeq(s, 1, n) EXCEPT ![n] = e]
         IN  t \in Seq(S) /\ CutAt(s, t, n, e)
<1>. DEFINE p == SubSeq(s, 1, n)
<1>1. p \in Seq(S) /\ Len(p) = n /\ \A i \in 1 .. n : p[i] = s[i]
  BY Prefix, LenProperties
<1>. HIDE DEF p
<1>2. n \in 1 .. Len(p)
  BY <1>1
<1>3. /\ [p EXCEPT ![n] = e] \in Seq(S)
      /\ Len([p EXCEPT ![n] = e]) = Len(p)
      /\ \A i \in 1 .. Len(p) : [p EXCEPT ![n] = e][i] = IF i = n THEN e ELSE p[i]
  BY <1>1, <1>2, ExceptSeq
<1>4. [p EXCEPT ![n] = e] \in Seq(S) /\ CutAt(s, [p EXCEPT ![n] = e], n, e)
  BY <1>1, <1>3 DEF CutAt
<1> QED BY <1>4 DEF p

\* The same when the prefix is the whole sequence.
LEMMA ExceptLast ==
  ASSUME NEW S, NEW s \in Seq(S), Len(s) > 0, NEW e \in S
  PROVE  LET t == [s EXCEPT ![Len(s)] = e]
         IN  t \in Seq(S) /\ CutAt(s, t, Len(s), e)
<1>1. Len(s) \in 1 .. Len(s)
  BY LenProperties
<1> QED BY <1>1, ExceptSeq DEF CutAt

-----------------------------------------------------------------------------
(* The frames and the activations.                                         *)

\* An activation inside the region that its frame guards.
Open(a) == a.phase \in {"body", "caught"}

\* FramesMatchCalls, of any frames f and activations c.
Matches(f, c) ==
  /\ \A i \in 1 .. Len(f) : f[i] \in 1 .. Len(c) /\ Open(c[f[i]])
  /\ \A i, j \in 1 .. Len(f) : i < j => f[i] < f[j]
  /\ \A d \in 1 .. Len(c) : Open(c[d]) => \E i \in 1 .. Len(f) : f[i] = d

\* The same, fact by fact, so that the proofs below need not open Matches.
LEMMA MatchFacts ==
  ASSUME NEW f, Len(f) \in Nat, NEW c, Len(c) \in Nat, Matches(f, c)
  PROVE  /\ Len(f) \in Nat
         /\ \A i \in 1 .. Len(f) : f[i] \in 1 .. Len(c)
         /\ \A i \in 1 .. Len(f) : Open(c[f[i]])
         /\ \A i, j \in 1 .. Len(f) : i < j => f[i] < f[j]
         /\ \A d \in 1 .. Len(c) : Open(c[d]) => \E i \in 1 .. Len(f) : f[i] = d
<1>1. Len(f) \in Nat
  BY LenProperties
<1> QED BY <1>1 DEF Matches

\* A call: an activation inside its region is pushed with a frame for it.
LEMMA MatchPush ==
  ASSUME NEW f, Len(f) \in Nat, NEW c, Len(c) \in Nat, Matches(f, c),
         NEW f2, NEW c2, NEW a, Open(a),
         Pushed(f, f2, Len(c) + 1), Pushed(c, c2, a)
  PROVE  Matches(f2, c2)
<1>r. Len(f) \in Nat /\ \A i \in 1 .. Len(f) : f[i] \in 1 .. Len(c) /\ Open(c[f[i]])
  BY MatchFacts
<1>a. \A i, j \in 1 .. Len(f) : i < j => f[i] < f[j]
  BY MatchFacts
<1>e. \A d \in 1 .. Len(c) : Open(c[d]) => \E i \in 1 .. Len(f) : f[i] = d
  BY MatchFacts
<1>f. /\ Len(f2) = Len(f) + 1 /\ f2[Len(f) + 1] = Len(c) + 1
      /\ \A i \in 1 .. Len(f) : f2[i] = f[i]
  BY DEF Pushed
<1>0. /\ Len(c2) = Len(c) + 1 /\ c2[Len(c) + 1] = a
      /\ \A d \in 1 .. Len(c) : c2[d] = c[d]
  BY DEF Pushed
<1>1. \A i \in 1 .. Len(f2) : f2[i] \in 1 .. Len(c2) /\ Open(c2[f2[i]])
  BY <1>0, <1>f, <1>r
<1>2. \A i, j \in 1 .. Len(f2) : i < j => f2[i] < f2[j]
  BY <1>f, <1>r, <1>a
<1>3. ASSUME NEW d \in 1 .. Len(c2), Open(c2[d])
      PROVE  \E i \in 1 .. Len(f2) : f2[i] = d
  <2>1. CASE d = Len(c) + 1
    BY <1>0, <1>f, <2>1, <1>r, <1>a, <1>e
  <2>2. CASE d \in 1 .. Len(c)
    BY <1>0, <1>f, <1>3, <2>2, <1>r, <1>a, <1>e
  <2> QED BY <1>0, <1>f, <2>1, <2>2
<1> QED BY <1>1, <1>2, <1>3 DEF Matches

\* The newest activation changes within its region, or outside it.
LEMMA MatchEdit ==
  ASSUME NEW f, Len(f) \in Nat, NEW c, Len(c) \in Nat \ {0}, Matches(f, c),
         NEW c2, NEW a, Open(a) <=> Open(c[Len(c)]), CutAt(c, c2, Len(c), a)
  PROVE  Matches(f, c2)
<1>r. Len(f) \in Nat /\ \A i \in 1 .. Len(f) : f[i] \in 1 .. Len(c) /\ Open(c[f[i]])
  BY MatchFacts
<1>a. \A i, j \in 1 .. Len(f) : i < j => f[i] < f[j]
  BY MatchFacts
<1>e. \A d \in 1 .. Len(c) : Open(c[d]) => \E i \in 1 .. Len(f) : f[i] = d
  BY MatchFacts
<1>1. Len(c2) = Len(c) /\ \A d \in 1 .. Len(c) : Open(c2[d]) <=> Open(c[d])
  BY DEF CutAt
<1> QED BY <1>1, <1>r, <1>a, <1>e DEF Matches

\* The newest activation is inside its region, so the newest frame is its own.
LEMMA MatchTop ==
  ASSUME NEW f, Len(f) \in Nat, NEW c, Len(c) \in Nat \ {0}, Matches(f, c), Open(c[Len(c)])
  PROVE  Len(f) \in Nat \ {0} /\ f[Len(f)] = Len(c)
<1>r. Len(f) \in Nat /\ \A i \in 1 .. Len(f) : f[i] \in 1 .. Len(c) /\ Open(c[f[i]])
  BY MatchFacts
<1>a. \A i, j \in 1 .. Len(f) : i < j => f[i] < f[j]
  BY MatchFacts
<1>e. \A d \in 1 .. Len(c) : Open(c[d]) => \E i \in 1 .. Len(f) : f[i] = d
  BY MatchFacts
<1>1. PICK i \in 1 .. Len(f) : f[i] = Len(c)
  BY <1>r, <1>e
<1>2. ~ (i < Len(f))
  BY <1>1, <1>r, <1>a, <1>e
<1> QED BY <1>1, <1>2, <1>r, <1>a, <1>e

\* It leaves its region, and its frame is popped.
LEMMA MatchClose ==
  ASSUME NEW f, Len(f) \in Nat, NEW c, Len(c) \in Nat \ {0}, Matches(f, c), Open(c[Len(c)]),
         NEW f2, NEW c2, NEW a, ~ Open(a), CutAt(c, c2, Len(c), a), Shorter(f, f2)
  PROVE  Matches(f2, c2)
<1>r. Len(f) \in Nat /\ \A i \in 1 .. Len(f) : f[i] \in 1 .. Len(c) /\ Open(c[f[i]])
  BY MatchFacts
<1>a. \A i, j \in 1 .. Len(f) : i < j => f[i] < f[j]
  BY MatchFacts
<1>e. \A d \in 1 .. Len(c) : Open(c[d]) => \E i \in 1 .. Len(f) : f[i] = d
  BY MatchFacts
<1>f. Len(f2) = Len(f) - 1 /\ \A i \in 1 .. (Len(f) - 1) : f2[i] = f[i]
  BY DEF Shorter
<1>0. /\ Len(c2) = Len(c) /\ c2[Len(c)] = a
      /\ \A d \in 1 .. (Len(c) - 1) : c2[d] = c[d]
  BY DEF Shorter, CutAt
<1>1. Len(f) \in Nat \ {0} /\ f[Len(f)] = Len(c)
  BY MatchTop
<1>2. \A i \in 1 .. (Len(f) - 1) : f[i] \in 1 .. (Len(c) - 1)
  BY <1>1, <1>r, <1>a
<1>3. ASSUME NEW i \in 1 .. Len(f2)
      PROVE  f2[i] \in 1 .. Len(c2) /\ Open(c2[f2[i]])
  <2>1. i \in 1 .. (Len(f) - 1) /\ f2[i] = f[i]
    BY <1>f, <1>r
  <2>2. f[i] \in 1 .. (Len(c) - 1) /\ Open(c[f[i]])
    BY <1>1, <1>2, <1>r, <2>1
  <2> QED BY <1>0, <1>1, <2>1, <2>2
<1>4. \A i, j \in 1 .. Len(f2) : i < j => f2[i] < f2[j]
  BY <1>f, <1>1, <1>r, <1>a
<1>5. ASSUME NEW d \in 1 .. Len(c2), Open(c2[d])
      PROVE  \E i \in 1 .. Len(f2) : f2[i] = d
  <2>1. d \in 1 .. (Len(c) - 1)
    BY <1>0, <1>f, <1>5
  <2>2. PICK i \in 1 .. Len(f) : f[i] = d
    BY <1>0, <1>f, <1>5, <2>1, <1>r, <1>e
  <2>3. i \in 1 .. Len(f2) /\ f2[i] = d
    BY <1>0, <1>f, <1>1, <2>1, <2>2
  <2> QED BY <2>3
<1> QED BY <1>3, <1>4, <1>5 DEF Matches

\* It goes, and its frame with it.
LEMMA MatchReturn ==
  ASSUME NEW f, Len(f) \in Nat, NEW c, Len(c) \in Nat \ {0}, Matches(f, c), Open(c[Len(c)]),
         NEW f2, NEW c2, Shorter(c, c2), Shorter(f, f2)
  PROVE  Matches(f2, c2)
<1>r. Len(f) \in Nat /\ \A i \in 1 .. Len(f) : f[i] \in 1 .. Len(c) /\ Open(c[f[i]])
  BY MatchFacts
<1>a. \A i, j \in 1 .. Len(f) : i < j => f[i] < f[j]
  BY MatchFacts
<1>e. \A d \in 1 .. Len(c) : Open(c[d]) => \E i \in 1 .. Len(f) : f[i] = d
  BY MatchFacts
<1>f. Len(f2) = Len(f) - 1 /\ \A i \in 1 .. (Len(f) - 1) : f2[i] = f[i]
  BY DEF Shorter
<1>0. /\ Len(c2) = Len(c) - 1 /\ \A d \in 1 .. (Len(c) - 1) : c2[d] = c[d]
  BY DEF Shorter
<1>1. Len(f) \in Nat \ {0} /\ f[Len(f)] = Len(c)
  BY MatchTop
<1>2. \A i \in 1 .. (Len(f) - 1) : f[i] \in 1 .. (Len(c) - 1)
  BY <1>1, <1>r, <1>a
<1>3. ASSUME NEW i \in 1 .. Len(f2)
      PROVE  f2[i] \in 1 .. Len(c2) /\ Open(c2[f2[i]])
  <2>1. i \in 1 .. (Len(f) - 1) /\ f2[i] = f[i]
    BY <1>f, <1>r
  <2>2. f[i] \in 1 .. (Len(c) - 1) /\ Open(c[f[i]])
    BY <1>1, <1>2, <1>r, <2>1
  <2> QED BY <1>0, <1>1, <2>1, <2>2
<1>4. \A i, j \in 1 .. Len(f2) : i < j => f2[i] < f2[j]
  BY <1>f, <1>1, <1>r, <1>a
<1>5. ASSUME NEW d \in 1 .. Len(c2), Open(c2[d])
      PROVE  \E i \in 1 .. Len(f2) : f2[i] = d
  <2>1. PICK i \in 1 .. Len(f) : f[i] = d
    BY <1>0, <1>f, <1>5, <1>r, <1>e
  <2>2. i \in 1 .. Len(f2) /\ f2[i] = d
    BY <1>0, <1>f, <1>1, <2>1
  <2> QED BY <2>2
<1> QED BY <1>3, <1>4, <1>5 DEF Matches

\* It goes from outside its region, when it has no frame any more.
LEMMA MatchLeave ==
  ASSUME NEW f, Len(f) \in Nat, NEW c, Len(c) \in Nat \ {0}, Matches(f, c), ~ Open(c[Len(c)]),
         NEW c2, Shorter(c, c2)
  PROVE  Matches(f, c2)
<1>r. Len(f) \in Nat /\ \A i \in 1 .. Len(f) : f[i] \in 1 .. Len(c) /\ Open(c[f[i]])
  BY MatchFacts
<1>a. \A i, j \in 1 .. Len(f) : i < j => f[i] < f[j]
  BY MatchFacts
<1>e. \A d \in 1 .. Len(c) : Open(c[d]) => \E i \in 1 .. Len(f) : f[i] = d
  BY MatchFacts
<1>0. Len(c2) = Len(c) - 1 /\ \A d \in 1 .. (Len(c) - 1) : c2[d] = c[d]
  BY DEF Shorter
<1>1. \A i \in 1 .. Len(f) : f[i] \in 1 .. (Len(c) - 1)
  BY <1>r
<1>2. ASSUME NEW i \in 1 .. Len(f)
      PROVE  f[i] \in 1 .. Len(c2) /\ Open(c2[f[i]])
  BY <1>0, <1>1, <1>r
<1>3. ASSUME NEW d \in 1 .. Len(c2), Open(c2[d])
      PROVE  \E i \in 1 .. Len(f) : f[i] = d
  <2>1. d \in 1 .. Len(c) /\ Open(c[d])
    BY <1>0, <1>3
  <2> QED BY <1>e, <2>1
<1> QED BY <1>2, <1>3, <1>a DEF Matches

\* A longjmp cuts the activations down to the owner of the newest frame: those
\* that go had no frame.
LEMMA MatchNewest ==
  ASSUME NEW f, Len(f) \in Nat, NEW c, Len(c) \in Nat, Matches(f, c), Len(f) > 0
  PROVE  /\ f[Len(f)] \in 1 .. Len(c) /\ Open(c[f[Len(f)]])
         /\ \A i \in 1 .. (Len(f) - 1) : f[i] \in 1 .. (f[Len(f)] - 1)
         /\ \A d \in (f[Len(f)] + 1) .. Len(c) : ~ Open(c[d])
<1>r. Len(f) \in Nat /\ \A i \in 1 .. Len(f) : f[i] \in 1 .. Len(c) /\ Open(c[f[i]])
  BY MatchFacts
<1>a. \A i, j \in 1 .. Len(f) : i < j => f[i] < f[j]
  BY MatchFacts
<1>e. \A d \in 1 .. Len(c) : Open(c[d]) => \E i \in 1 .. Len(f) : f[i] = d
  BY MatchFacts
<1>1. f[Len(f)] \in 1 .. Len(c) /\ Open(c[f[Len(f)]])
  BY <1>r, <1>a, <1>e
<1>2. \A i \in 1 .. (Len(f) - 1) : f[i] \in 1 .. (f[Len(f)] - 1)
  BY <1>1, <1>r, <1>a
<1>3. ASSUME NEW d \in (f[Len(f)] + 1) .. Len(c), Open(c[d]) PROVE FALSE
  <2>1. PICK i \in 1 .. Len(f) : f[i] = d
    BY <1>1, <1>3, <1>r, <1>e
  <2> QED BY <1>1, <1>2, <2>1, <1>r, <1>a, <1>e
<1> QED BY <1>1, <1>2, <1>3

\* The longjmp lands in catch_panic, which keeps its frame for now.
LEMMA MatchCaught ==
  ASSUME NEW f, Len(f) \in Nat, NEW c, Len(c) \in Nat, Matches(f, c), Len(f) > 0,
         NEW c2, NEW a, Open(a), CutAt(c, c2, f[Len(f)], a)
  PROVE  Matches(f, c2)
<1>r. Len(f) \in Nat /\ \A i \in 1 .. Len(f) : f[i] \in 1 .. Len(c) /\ Open(c[f[i]])
  BY MatchFacts
<1>a. \A i, j \in 1 .. Len(f) : i < j => f[i] < f[j]
  BY MatchFacts
<1>e. \A d \in 1 .. Len(c) : Open(c[d]) => \E i \in 1 .. Len(f) : f[i] = d
  BY MatchFacts
<1>. DEFINE n == f[Len(f)]
<1>0. Len(c2) = n /\ c2[n] = a /\ \A d \in 1 .. (n - 1) : c2[d] = c[d]
  BY DEF CutAt
<1>1. n \in 1 .. Len(c) /\ \A i \in 1 .. Len(f) : f[i] \in 1 .. n
  BY MatchNewest, <1>r
<1>2. \A i \in 1 .. Len(f) : Open(c2[f[i]])
  BY <1>0, <1>1, <1>r
<1>3. ASSUME NEW d \in 1 .. Len(c2), Open(c2[d])
      PROVE  \E i \in 1 .. Len(f) : f[i] = d
  <2>1. CASE d = n
    BY <2>1, <1>r, <1>a, <1>e
  <2>2. CASE d \in 1 .. (n - 1)
    BY <1>0, <1>1, <1>3, <2>2, <1>r, <1>a, <1>e
  <2> QED BY <1>0, <1>1, <2>1, <2>2
<1> QED BY <1>0, <1>1, <1>2, <1>3, <1>r, <1>a, <1>e DEF Matches

\* The longjmp lands in a function, which pops its frame at its label.
LEMMA MatchUnwound ==
  ASSUME NEW f, Len(f) \in Nat, NEW c, Len(c) \in Nat, Matches(f, c), Len(f) > 0,
         NEW c2, NEW a, ~ Open(a), CutAt(c, c2, f[Len(f)], a), NEW f2, Shorter(f, f2)
  PROVE  Matches(f2, c2)
<1>r. Len(f) \in Nat /\ \A i \in 1 .. Len(f) : f[i] \in 1 .. Len(c) /\ Open(c[f[i]])
  BY MatchFacts
<1>a. \A i, j \in 1 .. Len(f) : i < j => f[i] < f[j]
  BY MatchFacts
<1>e. \A d \in 1 .. Len(c) : Open(c[d]) => \E i \in 1 .. Len(f) : f[i] = d
  BY MatchFacts
<1>. DEFINE n == f[Len(f)]
<1>f. Len(f2) = Len(f) - 1 /\ \A i \in 1 .. (Len(f) - 1) : f2[i] = f[i]
  BY DEF Shorter
<1>0. /\ Len(c2) = n /\ c2[n] = a /\ \A d \in 1 .. (n - 1) : c2[d] = c[d]
  BY DEF Shorter, CutAt
<1>1. n \in 1 .. Len(c) /\ \A i \in 1 .. (Len(f) - 1) : f[i] \in 1 .. (n - 1)
  BY MatchNewest
<1>2. ASSUME NEW i \in 1 .. Len(f2)
      PROVE  f2[i] \in 1 .. Len(c2) /\ Open(c2[f2[i]])
  <2>1. i \in 1 .. (Len(f) - 1) /\ f2[i] = f[i]
    BY <1>f, <1>r
  <2>2. f[i] \in 1 .. (n - 1) /\ Open(c[f[i]])
    BY <1>1, <1>r, <2>1
  <2> QED BY <1>0, <1>1, <2>1, <2>2
<1>3. \A i, j \in 1 .. Len(f2) : i < j => f2[i] < f2[j]
  BY <1>f, <1>r, <1>a
<1>4. ASSUME NEW d \in 1 .. Len(c2), Open(c2[d])
      PROVE  \E i \in 1 .. Len(f2) : f2[i] = d
  <2>1. d \in 1 .. (n - 1)
    BY <1>0, <1>f, <1>1, <1>4
  <2>2. PICK i \in 1 .. Len(f) : f[i] = d
    BY <1>0, <1>f, <1>1, <1>4, <2>1, <1>r, <1>e
  <2>3. i \in 1 .. Len(f2) /\ f2[i] = d
    BY <1>0, <1>f, <2>1, <2>2, <1>r, <1>a, <1>e
  <2> QED BY <2>3
<1> QED BY <1>2, <1>3, <1>4 DEF Matches

-----------------------------------------------------------------------------
(* The shape of the stack.                                                 *)

\* What the fields of an activation say of one another.
WellFormed(a) ==
  /\ a.kind = "catch" => a.phase \in {"body", "caught"}
  /\ a.kind = "fn" => a.phase # "caught"
  /\ a.phase = "defer" => a.next > 0
  /\ a.phase = "body" => a.fault = NOMSG
  /\ a.phase = "caught" => a.fault # NOMSG

\* Only the newest activation can be at its label, or have just been caught.
Shaped(c) ==
  /\ \A d \in 1 .. Len(c) : WellFormed(c[d])
  /\ \A d \in 1 .. (Len(c) - 1) : c[d].phase \in {"body", "defer"}

\* A call, from a newest activation that runs statements.
LEMMA ShapePush ==
  ASSUME NEW c, Len(c) \in Nat, Shaped(c), NEW c2, NEW a, WellFormed(a), Pushed(c, c2, a),
         Len(c) # 0 => c[Len(c)].phase \in {"body", "defer"}
  PROVE  Shaped(c2)
<1>1. \A d \in 1 .. Len(c2) : WellFormed(c2[d])
  BY DEF Shaped, Pushed
<1>2. \A d \in 1 .. (Len(c2) - 1) : c2[d].phase \in {"body", "defer"}
  BY DEF Shaped, Pushed
<1> QED BY <1>1, <1>2 DEF Shaped

\* An activation is changed and becomes, or stays, the newest.
LEMMA ShapeCut ==
  ASSUME NEW c, Len(c) \in Nat, Shaped(c), NEW n \in 1 .. Len(c),
         NEW c2, NEW a, WellFormed(a), CutAt(c, c2, n, a)
  PROVE  Shaped(c2)
<1>1. \A d \in 1 .. Len(c2) : WellFormed(c2[d])
  BY DEF Shaped, CutAt
<1>2. \A d \in 1 .. (Len(c2) - 1) : c2[d].phase \in {"body", "defer"}
  BY DEF Shaped, CutAt
<1> QED BY <1>1, <1>2 DEF Shaped

\* The newest activation goes.
LEMMA ShapeShorter ==
  ASSUME NEW c, Len(c) \in Nat \ {0}, Shaped(c), NEW c2, Shorter(c, c2)
  PROVE  Shaped(c2)
BY DEF Shaped, Shorter

\* The first part of the inductive invariant.
Stack == TypeOK /\ Shaped(calls) /\ Matches(frames, calls)

\* What Stack gives, fact by fact.
LEMMA StackFacts ==
  ASSUME Stack
  PROVE  /\ calls \in Seq(Activations) /\ frames \in Seq(1 .. MAX_DEPTH)
         /\ depth \in Nat /\ depth <= MAX_DEPTH /\ depth = Len(calls)
         /\ Len(frames) \in Nat /\ (frames = << >> <=> Len(frames) = 0)
         /\ \A d \in 1 .. depth : calls[d] \in Activations /\ WellFormed(calls[d])
<1>1. calls \in Seq(Activations) /\ frames \in Seq(1 .. MAX_DEPTH) /\ depth <= MAX_DEPTH
  BY DEF Stack, TypeOK, depth
<1>2. depth \in Nat /\ Len(frames) \in Nat
  BY <1>1, LenProperties DEF depth
<1>3. frames = << >> <=> Len(frames) = 0
  BY <1>1, EmptySeq
<1>4. \A d \in 1 .. depth : calls[d] \in Activations
  BY <1>1, ElementOfSeq DEF depth
<1> QED BY <1>1, <1>2, <1>3, <1>4 DEF Stack, Shaped, depth

-----------------------------------------------------------------------------
(* What each action does to the two stacks.                                *)

\* Call and CatchPanic.
LEMMA PushEffect ==
  ASSUME Stack, depth < MAX_DEPTH, NEW k \in {"fn", "catch"},
         calls' = Append(calls, Enter(k)), frames' = Append(frames, depth + 1)
  PROVE  /\ calls' \in Seq(Activations) /\ Pushed(calls, calls', Enter(k))
         /\ frames' \in Seq(1 .. MAX_DEPTH) /\ Pushed(frames, frames', depth + 1)
         /\ WellFormed(Enter(k)) /\ Open(Enter(k))
<1>1. Enter(k) \in Activations /\ WellFormed(Enter(k)) /\ Open(Enter(k))
  BY PanicAssumption DEF Enter, Activations, Maybe, Defers, WellFormed, Open
<1>2. depth + 1 \in 1 .. MAX_DEPTH
  BY PanicAssumption, StackFacts
<1>3. calls \in Seq(Activations) /\ frames \in Seq(1 .. MAX_DEPTH)
  BY StackFacts
<1> QED BY <1>1, <1>2, <1>3, AppendPushes

\* A change of the newest activation.
LEMMA EditEffect ==
  ASSUME Stack, depth > 0, NEW a \in Activations, calls' = [calls EXCEPT ![depth] = a]
  PROVE  calls' \in Seq(Activations) /\ CutAt(calls, calls', depth, a)
<1>1. calls \in Seq(Activations)
  BY StackFacts
<1> QED BY <1>1, ExceptLast DEF depth

\* The end of the newest activation.
LEMMA DropEffect ==
  ASSUME Stack, depth > 0, calls' = Butlast(calls)
  PROVE  calls' \in Seq(Activations) /\ Shorter(calls, calls')
<1>1. calls \in Seq(Activations)
  BY StackFacts
<1> QED BY <1>1, ButlastPops DEF depth

\* rsg_panic_pop with a frame to pop.
LEMMA PopEffect ==
  ASSUME Stack, Len(frames) > 0
  PROVE  Popped \in Seq(1 .. MAX_DEPTH) /\ Shorter(frames, Popped)
<1>1. frames \in Seq(1 .. MAX_DEPTH) /\ Popped = Butlast(frames)
  BY StackFacts DEF Popped
<1> QED BY <1>1, ButlastPops

\* What becomes of an activation when its body reaches defer i, when it goes
\* to its label, when its next defer is entered, skipped or done, and when a
\* longjmp with message m lands in it.
Reached(a, i) ==
  [a EXCEPT !.flags = @ \cup {i}, !.order = IF i \in a.flags THEN @ ELSE Append(@, i)]
AtLabel(a) == [a EXCEPT !.phase = "cleanup", !.next = DEFERS]
Entered(a) == [a EXCEPT !.phase = "defer", !.ran = Append(@, a.next)]
Skipped(a) == [a EXCEPT !.next = @ - 1]
Done(a) == [a EXCEPT !.phase = "cleanup", !.next = @ - 1]
Hit(a, m) ==
  IF a.kind = "fn"
  THEN [a EXCEPT !.fault = m, !.phase = "cleanup", !.next = DEFERS]
  ELSE [a EXCEPT !.fault = m, !.phase = "caught"]

\* The newest activation is one.
LEMMA TopFacts ==
  ASSUME Stack, depth > 0
  PROVE  top \in Activations /\ WellFormed(top) /\ top = calls[depth] /\ depth \in 1 .. depth
BY StackFacts DEF top

\* A defer statement keeps the activation in its body.
LEMMA DeferEffect ==
  ASSUME Stack, NEW i \in Defers, Defer(i)
  PROVE  /\ calls' \in Seq(Activations) /\ CutAt(calls, calls', depth, Reached(top, i))
         /\ WellFormed(Reached(top, i)) /\ Reached(top, i).phase = top.phase
<1>. DEFINE a == Reached(top, i)
<1>1. depth > 0 /\ top \in Activations /\ WellFormed(top) /\ depth \in 1 .. depth
  BY TopFacts DEF Defer
<1>2. top.order \in Seq(Defers) /\ Append(top.order, i) \in Seq(Defers)
  BY <1>1, AppendProperties DEF Activations
<1>3. a \in Activations
  BY <1>1, <1>2 DEF Reached, Activations
<1>4. WellFormed(a) /\ a.phase = top.phase
  BY <1>1 DEF Reached, WellFormed, Activations
<1>5. calls' = [calls EXCEPT ![depth] = a]
  BY DEF Defer, Reached, top
<1> QED BY <1>1, <1>3, <1>4, <1>5, EditEffect

\* A return takes an activation from its body to its label.
LEMMA ReturnEffect ==
  ASSUME Stack, ~ DEFER_RETURNS, Return
  PROVE  /\ calls' \in Seq(Activations) /\ CutAt(calls, calls', depth, AtLabel(top))
         /\ WellFormed(AtLabel(top)) /\ ~ Open(AtLabel(top)) /\ Open(top)
<1>1. /\ depth > 0 /\ top \in Activations /\ WellFormed(top) /\ depth \in 1 .. depth
      /\ top.kind = "fn" /\ Open(top)
  BY TopFacts DEF Return, Open
<1>2. AtLabel(top) \in Activations
  <2>1. DEFERS \in 0 .. DEFERS
    BY PanicAssumption
  <2> QED BY <1>1, <2>1 DEF AtLabel, Activations
<1>3. WellFormed(AtLabel(top)) /\ ~ Open(AtLabel(top))
  BY <1>1 DEF AtLabel, WellFormed, Activations, Open
<1>4. calls' = [calls EXCEPT ![depth] = AtLabel(top)]
  BY DEF Return, AtLabel, top
<1> QED BY <1>1, <1>2, <1>3, <1>4, EditEffect

\* The cleanup looks at one defer.
LEMMA RunDeferEffect ==
  ASSUME Stack, RunDefer
  PROVE  LET a == IF top.next \in top.flags THEN Entered(top) ELSE Skipped(top)
         IN  /\ calls' \in Seq(Activations) /\ CutAt(calls, calls', depth, a)
             /\ WellFormed(a) /\ ~ Open(a) /\ ~ Open(top)
<1>. DEFINE a == IF top.next \in top.flags THEN Entered(top) ELSE Skipped(top)
<1>1. /\ depth > 0 /\ top \in Activations /\ WellFormed(top) /\ depth \in 1 .. depth
      /\ top.phase = "cleanup" /\ top.next > 0 /\ top.kind = "fn"
  <2>1. /\ depth > 0 /\ top \in Activations /\ WellFormed(top) /\ depth \in 1 .. depth
        /\ top.phase = "cleanup" /\ top.next > 0
    BY TopFacts DEF RunDefer, InCleanup
  <2> QED BY <2>1 DEF Activations, WellFormed
<1>2. Entered(top) \in Activations
  <2>1. top.next \in Defers
    BY <1>1 DEF Activations, Defers
  <2>2. top.ran \in Seq(Defers) /\ Append(top.ran, top.next) \in Seq(Defers)
    BY <1>1, <2>1, AppendProperties DEF Activations
  <2> QED BY <1>1, <2>2 DEF Entered, Activations
<1>3. Skipped(top) \in Activations
  <2>1. top.next - 1 \in 0 .. DEFERS
    BY <1>1, PanicAssumption DEF Activations
  <2> QED BY <1>1, <2>1 DEF Skipped, Activations
<1>4. WellFormed(a) /\ ~ Open(a) /\ ~ Open(top)
  BY <1>1 DEF Entered, Skipped, WellFormed, Activations, Open
<1>5. calls' = [calls EXCEPT ![depth] = a]
  BY DEF RunDefer, Entered, Skipped, top
<1>6. a \in Activations
  BY <1>2, <1>3
<1>. HIDE DEF a
<1>7. calls' \in Seq(Activations) /\ CutAt(calls, calls', depth, a)
  BY <1>1, <1>5, <1>6, EditEffect
<1> QED BY <1>4, <1>7 DEF a

\* The cleanup goes on after a defer body.
LEMMA EndDeferEffect ==
  ASSUME Stack, EndDefer
  PROVE  /\ calls' \in Seq(Activations) /\ CutAt(calls, calls', depth, Done(top))
         /\ WellFormed(Done(top)) /\ ~ Open(Done(top)) /\ ~ Open(top)
<1>1. /\ depth > 0 /\ top \in Activations /\ WellFormed(top) /\ depth \in 1 .. depth
      /\ top.phase = "defer"
  BY TopFacts DEF EndDefer
<1>2. top.kind = "fn" /\ top.next - 1 \in 0 .. DEFERS
  BY <1>1, PanicAssumption DEF Activations, WellFormed
<1>3. Done(top) \in Activations
  BY <1>1, <1>2 DEF Done, Activations
<1>4. WellFormed(Done(top)) /\ ~ Open(Done(top)) /\ ~ Open(top)
  BY <1>1, <1>2 DEF Done, WellFormed, Activations, Open
<1>5. calls' = [calls EXCEPT ![depth] = Done(top)]
  BY DEF EndDefer, Done, top
<1> QED BY <1>1, <1>3, <1>4, <1>5, EditEffect

\* A longjmp: with no frame the process ends; otherwise the activations are
\* cut down to the owner of the newest frame.
LEMMA UnwindEffect ==
  ASSUME Stack, NEW m \in Maybe \ {NOMSG}, Unwind(m), frames' = PoppedAfterUnwind
  PROVE  /\ calls' \in Seq(Activations) /\ frames' \in Seq(1 .. MAX_DEPTH)
         /\ Shaped(calls') /\ Matches(frames', calls') /\ Len(calls') <= depth
         /\ frames = << >> => exited' = TRUE /\ calls' = calls
         /\ frames # << >> =>
              LET f == frames[Len(frames)]
              IN  /\ exited' = FALSE /\ f \in 1 .. depth
                  /\ CutAt(calls, calls', f, Hit(calls[f], m))
                  /\ \A d \in (f + 1) .. depth : ~ Open(calls[d])
<1>1. CASE frames = << >>
  BY <1>1, StackFacts DEF Unwind, PoppedAfterUnwind, Stack
<1>2. CASE frames # << >>
  <2>. DEFINE f == frames[Len(frames)]
              a == calls[f]
              h == Hit(a, m)
  <2>1. /\ Len(frames) \in Nat /\ Len(frames) > 0 /\ depth \in Nat /\ depth = Len(calls)
        /\ Matches(frames, calls) /\ Shaped(calls) /\ calls \in Seq(Activations)
        /\ frames \in Seq(1 .. MAX_DEPTH)
    BY <1>2, StackFacts DEF Stack
  <2>2. /\ f \in 1 .. depth /\ Open(a)
        /\ \A d \in (f + 1) .. depth : ~ Open(calls[d])
    BY <2>1, MatchNewest
  <2>3. a \in Activations /\ WellFormed(a)
    BY <2>2, StackFacts
  <2>4. h \in Activations
    <3>1. DEFERS \in 0 .. DEFERS
      BY PanicAssumption
    <3>2. [a EXCEPT !.fault = m, !.phase = "caught"] \in Activations
      BY <2>3 DEF Activations
    <3>3. [a EXCEPT !.fault = m, !.phase = "cleanup", !.next = DEFERS] \in Activations
      BY <2>3, <3>1 DEF Activations
    <3> QED BY <3>2, <3>3 DEF Hit
  <2>5. WellFormed(h) /\ (Open(h) <=> a.kind # "fn")
    BY <2>3 DEF Hit, WellFormed, Activations, Open
  <2>6. exited' = FALSE /\ calls' = [SubSeq(calls, 1, f) EXCEPT ![f] = h]
    BY <1>2 DEF Unwind, Hit
  <2>7. calls' \in Seq(Activations) /\ CutAt(calls, calls', f, h)
    <3>. HIDE DEF h, f
    <3> QED BY <2>1, <2>2, <2>4, <2>6, ExceptCuts
  <2>8. Shaped(calls') /\ Len(calls') = f
    <3>. HIDE DEF h, f
    <3> QED BY <2>1, <2>2, <2>5, <2>7, ShapeCut DEF CutAt
  <2>9. frames' \in Seq(1 .. MAX_DEPTH) /\ Matches(frames', calls')
    <3>1. CASE a.kind = "fn"
      <4>1. frames' = Popped
        BY <1>2, <3>1 DEF PoppedAfterUnwind
      <4>2. Popped \in Seq(1 .. MAX_DEPTH) /\ Shorter(frames, Popped)
        BY <2>1, PopEffect
      <4>. HIDE DEF h
      <4> QED BY <2>1, <2>5, <2>7, <3>1, <4>1, <4>2, MatchUnwound
    <3>2. CASE a.kind # "fn"
      <4>1. frames' = frames
        BY <3>2 DEF PoppedAfterUnwind
      <4>. HIDE DEF h
      <4> QED BY <2>1, <2>5, <2>7, <3>2, <4>1, MatchCaught
    <3> QED BY <3>1, <3>2
  <2> QED BY <1>2, <2>2, <2>6, <2>7, <2>8, <2>9 DEF Open
<1> QED BY <1>1, <1>2

-----------------------------------------------------------------------------
(* Types, and frames and activations that match.                           *)

\* At the start there are neither activations nor frames.
LEMMA StackInit ==
  ASSUME Init
  PROVE  Stack
<1>1. calls = << >> /\ frames = << >> /\ Len(calls) = 0 /\ Len(frames) = 0
  BY DEF Init
<1>2. frames \in Seq(1 .. MAX_DEPTH) /\ calls \in Seq(Activations)
  BY <1>1, EmptySeq
<1>3. outcome \in Outcomes
  BY DEF Init, Outcomes
<1>4. msg \in Maybe /\ cause \in Maybe /\ panicking \in BOOLEAN /\ exited \in BOOLEAN
  BY DEF Init, Maybe
<1>5. TypeOK
  BY <1>1, <1>2, <1>3, <1>4, PanicAssumption DEF TypeOK
<1> QED BY <1>1, <1>5 DEF Stack, Shaped, Matches

\* When nothing but the two stacks and the state of the panic changes.
LEMMA TypesStep ==
  ASSUME Stack, calls' \in Seq(Activations), frames' \in Seq(1 .. MAX_DEPTH),
         Len(calls') <= MAX_DEPTH, msg' \in Maybe, cause' \in Maybe,
         panicking' \in BOOLEAN, exited' \in BOOLEAN, outcome' \in Outcomes
  PROVE  TypeOK'
BY DEF TypeOK

\* Every step keeps the types, the shape and the match.
LEMMA StackStep ==
  ASSUME ~ DEFER_RETURNS, Stack, [Next]_vars
  PROVE  Stack'
<1>0. /\ calls \in Seq(Activations) /\ frames \in Seq(1 .. MAX_DEPTH)
      /\ depth \in Nat /\ depth <= MAX_DEPTH /\ depth = Len(calls)
      /\ Len(frames) \in Nat /\ Matches(frames, calls) /\ Shaped(calls)
  BY StackFacts DEF Stack
<1>t. /\ msg \in Maybe /\ cause \in Maybe /\ panicking \in BOOLEAN /\ exited \in BOOLEAN
      /\ outcome \in Outcomes
  BY DEF Stack, TypeOK
<1>push. ASSUME NEW k \in {"fn", "catch"}, InProgram, depth < MAX_DEPTH,
                calls' = Append(calls, Enter(k)), frames' = Append(frames, depth + 1),
                UNCHANGED <<msg, panicking, outcome, exited, cause>>
         PROVE  Stack'
  <2>1. /\ calls' \in Seq(Activations) /\ Pushed(calls, calls', Enter(k))
        /\ frames' \in Seq(1 .. MAX_DEPTH) /\ Pushed(frames, frames', Len(calls) + 1)
        /\ WellFormed(Enter(k)) /\ Open(Enter(k))
    BY <1>push, <1>0, PushEffect
  <2>2. Matches(frames', calls')
    BY <1>0, <2>1, MatchPush
  <2>3. Len(calls) # 0 => calls[Len(calls)].phase \in {"body", "defer"}
    BY <1>push, <1>0 DEF InProgram, top
  <2>4. Shaped(calls') /\ Len(calls') = depth + 1
    BY <1>0, <2>1, <2>3, ShapePush DEF Pushed
  <2>5. TypeOK'
    BY <1>push, <1>0, <1>t, <2>1, <2>4, TypesStep
  <2> QED BY <2>2, <2>4, <2>5 DEF Stack
<1>edit. ASSUME NEW a, depth > 0, calls' \in Seq(Activations),
                CutAt(calls, calls', depth, a), WellFormed(a),
                Open(a) <=> Open(top),
                UNCHANGED <<frames, msg, panicking, outcome, exited, cause>>
         PROVE  Stack'
  <2>1. Matches(frames', calls')
    BY <1>edit, <1>0, MatchEdit DEF top
  <2>2. Shaped(calls') /\ Len(calls') = depth
    BY <1>edit, <1>0, ShapeCut DEF CutAt
  <2>3. TypeOK'
    BY <1>edit, <1>0, <1>t, <2>2, TypesStep
  <2> QED BY <2>1, <2>2, <2>3 DEF Stack
<1>drop. ASSUME depth > 0, calls' = Butlast(calls), Matches(frames', calls'),
                frames' \in Seq(1 .. MAX_DEPTH),
                msg' \in Maybe, cause' \in Maybe, panicking' \in BOOLEAN,
                exited' \in BOOLEAN, outcome' \in Outcomes
         PROVE  Stack'
  <2>1. calls' \in Seq(Activations) /\ Shorter(calls, calls')
    BY <1>drop, DropEffect
  <2>2. Shaped(calls') /\ Len(calls') = depth - 1
    BY <1>drop, <1>0, <2>1, ShapeShorter DEF Shorter
  <2>3. TypeOK'
    <3>1. Len(calls') <= MAX_DEPTH
      BY <1>0, <2>2, PanicAssumption
    <3> QED BY <1>drop, <2>1, <3>1, TypesStep
  <2> QED BY <1>drop, <2>2, <2>3 DEF Stack
<1>unwind. ASSUME NEW m \in Maybe \ {NOMSG}, Unwind(m), frames' = PoppedAfterUnwind,
                  msg' \in Maybe, cause' \in Maybe, panicking' \in BOOLEAN,
                  outcome' = outcome
           PROVE  Stack'
  <2>1. /\ calls' \in Seq(Activations) /\ frames' \in Seq(1 .. MAX_DEPTH)
        /\ Shaped(calls') /\ Matches(frames', calls') /\ Len(calls') <= depth
    BY <1>unwind, UnwindEffect
  <2>2. exited' \in BOOLEAN
    BY <1>unwind DEF Unwind
  <2>3. Len(calls') <= MAX_DEPTH
    BY <1>0, <2>1, PanicAssumption, LenProperties
  <2>4. TypeOK'
    BY <1>unwind, <1>0, <1>t, <2>1, <2>2, <2>3, TypesStep
  <2> QED BY <2>1, <2>4 DEF Stack
\* A frame is popped with the activation that owns it.
<1>pop. ASSUME depth > 0, Open(top), frames' = Popped, calls' = Butlast(calls)
        PROVE  Matches(frames', calls') /\ frames' \in Seq(1 .. MAX_DEPTH)
  <2>1. Len(frames) > 0
    BY <1>pop, <1>0, MatchTop DEF top
  <2>2. frames' \in Seq(1 .. MAX_DEPTH) /\ Shorter(frames, frames')
    BY <1>pop, <2>1, PopEffect
  <2>3. Shorter(calls, calls')
    BY <1>pop, DropEffect
  <2> QED BY <1>pop, <1>0, <2>2, <2>3, MatchReturn DEF top
<1>1. CASE Call
  BY <1>1, <1>push DEF Call
<1>2. CASE CatchPanic
  BY <1>2, <1>push DEF CatchPanic
<1>3. CASE Return
  <2>1. /\ calls' \in Seq(Activations) /\ CutAt(calls, calls', depth, AtLabel(top))
        /\ WellFormed(AtLabel(top)) /\ ~ Open(AtLabel(top)) /\ Open(top)
    BY <1>3, ReturnEffect
  <2>2. depth > 0 /\ frames' = Popped /\ UNCHANGED <<msg, panicking, outcome, exited, cause>>
    BY <1>3 DEF Return
  <2>3. Len(frames) > 0
    BY <1>0, <2>1, <2>2, MatchTop DEF top
  <2>4. frames' \in Seq(1 .. MAX_DEPTH) /\ Shorter(frames, frames')
    BY <2>2, <2>3, PopEffect
  <2>5. Matches(frames', calls')
    BY <1>0, <2>1, <2>2, <2>4, MatchClose DEF top
  <2>6. Shaped(calls') /\ Len(calls') = depth
    BY <1>0, <2>1, <2>2, ShapeCut DEF CutAt
  <2>7. TypeOK'
    BY <1>0, <1>t, <2>1, <2>2, <2>4, <2>6, TypesStep
  <2> QED BY <2>5, <2>6, <2>7 DEF Stack
<1>4. ASSUME NEW i \in Defers, Defer(i) PROVE Stack'
  BY <1>4, <1>edit, DeferEffect DEF Defer, Open
<1>5. ASSUME NEW m \in Msgs, Panic(m) PROVE Stack'
  BY <1>5, <1>unwind, PanicAssumption DEF Panic, Maybe
<1>6. CASE RunDefer
  BY <1>6, <1>edit, RunDeferEffect DEF RunDefer, InCleanup
<1>7. CASE EndDefer
  BY <1>7, <1>edit, EndDeferEffect DEF EndDefer
<1>8. CASE Repanic
  <2>1. top.fault \in Maybe \ {NOMSG}
    BY <1>8, TopFacts DEF Repanic, InCleanup, Activations
  <2> QED BY <1>8, <1>t, <1>unwind, <2>1 DEF Repanic
<1>9. CASE LeaveFn
  <2>1. depth > 0 /\ ~ Open(top) /\ calls' = Butlast(calls)
        /\ UNCHANGED <<frames, msg, panicking, outcome, exited, cause>>
    BY <1>9 DEF LeaveFn, InCleanup, Open
  <2>2. Shorter(calls, calls')
    BY <2>1, DropEffect
  <2>3. Matches(frames', calls')
    BY <1>0, <2>1, <2>2, MatchLeave DEF top
  <2> QED BY <1>0, <1>t, <1>drop, <2>1, <2>3
<1>10. CASE ClosureReturns
  <2>1. depth > 0 /\ Open(top)
    BY <1>10, TopFacts DEF ClosureReturns, InProgram, WellFormed, Open
  <2>2. [tag |-> "Ok"] \in Outcomes
    BY DEF Outcomes
  <2> QED BY <1>10, <1>t, <1>pop, <1>drop, <2>1, <2>2 DEF ClosureReturns
<1>11. CASE Recover
  <2>1. depth > 0 /\ Open(top)
    BY <1>11 DEF Recover, Open
  <2>2. [tag |-> "Err", msg |-> IF panicking THEN msg ELSE NOMSG, fault |-> top.fault]
          \in Outcomes
    BY <1>t, <2>1, TopFacts DEF Outcomes, Activations, Maybe
  <2> QED BY <1>11, <1>t, <1>pop, <1>drop, <2>1, <2>2 DEF Recover
<1>12. CASE UNCHANGED vars
  BY <1>12 DEF vars, Stack, TypeOK, depth
<1> QED BY <1>1, <1>2, <1>3, <1>4, <1>5, <1>6, <1>7, <1>8, <1>9, <1>10, <1>11, <1>12
        DEF Next

\* So they hold throughout.
LEMMA StackHolds ==
  ASSUME ~ DEFER_RETURNS
  PROVE  Spec => []Stack
<1>1. Init => Stack
  BY StackInit
<1>2. Stack /\ [Next]_vars => Stack'
  BY StackStep
<1> QED BY <1>1, <1>2, PTL DEF Spec

\* The types are right, if no defer body holds a return.
THEOREM TypesHold == ~ DEFER_RETURNS => (Spec => []TypeOK)
<1>. SUFFICES ASSUME ~ DEFER_RETURNS PROVE Spec => []TypeOK
  OBVIOUS
<1>1. Stack => TypeOK
  BY DEF Stack
<1> QED BY <1>1, StackHolds, PTL

\* The frames on the panic stack are those of the activations inside their
\* guarded regions, in their order, however calls, panics and recoveries are
\* nested, if no defer body holds a return.
THEOREM FramesMatchCallsHolds == ~ DEFER_RETURNS => (Spec => []FramesMatchCalls)
<1>. SUFFICES ASSUME ~ DEFER_RETURNS PROVE Spec => []FramesMatchCalls
  OBVIOUS
<1>1. Stack => FramesMatchCalls
  <2>. SUFFICES ASSUME Stack PROVE FramesMatchCalls
    OBVIOUS
  <2>1. DOMAIN frames = 1 .. Len(frames) /\ Len(frames) \in Nat /\ depth = Len(calls)
    BY StackFacts, LenProperties
  <2>2. \A d : Open(calls[d]) <=> Guarded(d)
    BY DEF Open, Guarded
  <2> QED BY <2>1, <2>2 DEF Stack, Matches, FramesMatchCalls
<1> QED BY <1>1, StackHolds, PTL

-----------------------------------------------------------------------------
(* What is reported.                                                       *)

\* Of activations c, the flag p and the message m: while the flag is set, the
\* message is that by which the newest activation that has been unwound to was
\* reached, and it is set where the panic has just been caught.
Newest(c, p, m) ==
  /\ p => \E d \in 1 .. Len(c) :
            /\ c[d].fault = m /\ m # NOMSG
            /\ \A e \in (d + 1) .. Len(c) : c[e].fault = NOMSG
  /\ \A d \in 1 .. Len(c) : c[d].phase = "caught" => p

\* A call does not touch the panic.
LEMMA NewestPush ==
  ASSUME NEW c, Len(c) \in Nat, NEW p, NEW m, Newest(c, p, m),
         NEW c2, NEW a, Pushed(c, c2, a), a.fault = NOMSG, a.phase # "caught"
  PROVE  Newest(c2, p, m)
<1>1. /\ Len(c2) = Len(c) + 1 /\ c2[Len(c) + 1] = a
      /\ \A d \in 1 .. Len(c) : c2[d] = c[d]
  BY DEF Pushed
<1>2. ASSUME p
      PROVE  \E d \in 1 .. Len(c2) :
               /\ c2[d].fault = m /\ m # NOMSG
               /\ \A e \in (d + 1) .. Len(c2) : c2[e].fault = NOMSG
  <2>1. PICK d \in 1 .. Len(c) :
          /\ c[d].fault = m /\ m # NOMSG
          /\ \A e \in (d + 1) .. Len(c) : c[e].fault = NOMSG
    BY <1>2 DEF Newest
  <2>2. d \in 1 .. Len(c2) /\ c2[d].fault = m
    BY <1>1, <2>1
  <2>3. \A e \in (d + 1) .. Len(c2) : c2[e].fault = NOMSG
    BY <1>1, <2>1
  <2> QED BY <2>1, <2>2, <2>3
<1>3. \A d \in 1 .. Len(c2) : c2[d].phase = "caught" => p
  BY <1>1 DEF Newest
<1> QED BY <1>2, <1>3 DEF Newest

\* Neither does a change that keeps the fault,
LEMMA NewestEdit ==
  ASSUME NEW c, Len(c) \in Nat \ {0}, NEW p, NEW m, Newest(c, p, m),
         NEW c2, NEW a, CutAt(c, c2, Len(c), a), a.fault = c[Len(c)].fault,
         a.phase # "caught"
  PROVE  Newest(c2, p, m)
<1>1. Len(c2) = Len(c) /\ \A d \in 1 .. Len(c) : c2[d].fault = c[d].fault
  BY DEF CutAt
<1>2. \A d \in 1 .. Len(c2) : c2[d].phase = "caught" => p
  BY DEF CutAt, Newest
<1> QED BY <1>1, <1>2 DEF Newest

\* nor the end of an activation, unless the flag is set and it has a fault.
LEMMA NewestDrop ==
  ASSUME NEW c, Len(c) \in Nat \ {0}, NEW p, NEW m, Newest(c, p, m),
         NEW c2, Shorter(c, c2), p => c[Len(c)].fault = NOMSG
  PROVE  Newest(c2, p, m)
<1>1. Len(c2) = Len(c) - 1 /\ \A d \in 1 .. (Len(c) - 1) : c2[d] = c[d]
  BY DEF Shorter
<1>2. ASSUME p
      PROVE  \E d \in 1 .. Len(c2) :
               /\ c2[d].fault = m /\ m # NOMSG
               /\ \A e \in (d + 1) .. Len(c2) : c2[e].fault = NOMSG
  <2>1. PICK d \in 1 .. Len(c) :
          /\ c[d].fault = m /\ m # NOMSG
          /\ \A e \in (d + 1) .. Len(c) : c[e].fault = NOMSG
    BY <1>2 DEF Newest
  <2>2. d \in 1 .. Len(c2) /\ c2[d].fault = m
    BY <1>1, <1>2, <2>1
  <2>3. \A e \in (d + 1) .. Len(c2) : c2[e].fault = NOMSG
    BY <1>1, <2>1
  <2> QED BY <2>1, <2>2, <2>3
<1>3. \A d \in 1 .. Len(c2) : c2[d].phase = "caught" => p
  BY <1>1 DEF Newest
<1> QED BY <1>2, <1>3 DEF Newest

\* What the newest activation was unwound by is the message.
LEMMA NewestTop ==
  ASSUME NEW c, Len(c) \in Nat \ {0}, NEW p, NEW m, Newest(c, p, m), p,
         c[Len(c)].fault # NOMSG
  PROVE  c[Len(c)].fault = m
<1>1. PICK d \in 1 .. Len(c) :
        c[d].fault = m /\ \A e \in (d + 1) .. Len(c) : c[e].fault = NOMSG
  BY DEF Newest
<1>2. ~ (d < Len(c))
  BY <1>1
<1> QED BY <1>1, <1>2

\* A longjmp makes the activation it lands in the newest.
LEMMA NewestLands ==
  ASSUME NEW c, NEW n \in Nat \ {0}, NEW m, m # NOMSG,
         NEW c2, NEW a, CutAt(c, c2, n, a), a.fault = m
  PROVE  Newest(c2, TRUE, m)
<1>1. n \in 1 .. Len(c2) /\ c2[n].fault = m /\ (n + 1) .. Len(c2) = {}
  BY DEF CutAt
<1> QED BY <1>1 DEF Newest

\* The second part of the inductive invariant.
Reported ==
  /\ ~ exited => Newest(calls, panicking, msg)
  /\ CauseIsReported

\* At the start there is nothing to report.
LEMMA ReportedInit ==
  ASSUME Init
  PROVE  Reported
BY DEF Init, Reported, Newest, CauseIsReported

\* Every step keeps the message true to what is being unwound, and reports it.
LEMMA ReportedStep ==
  ASSUME ~ DEFER_RETURNS, Stack, Reported, [Next]_vars
  PROVE  Reported'
<1>0. depth \in Nat /\ depth = Len(calls) /\ panicking \in BOOLEAN
  BY StackFacts DEF Stack, TypeOK
<1>1. CauseIsReported /\ (~ exited => Newest(calls, panicking, msg))
  BY DEF Reported
<1>push. ASSUME NEW k \in {"fn", "catch"}, InProgram, depth < MAX_DEPTH,
                calls' = Append(calls, Enter(k)), frames' = Append(frames, depth + 1),
                UNCHANGED <<msg, panicking, outcome, exited, cause>>
         PROVE  Reported'
  <2>1. /\ Pushed(calls, calls', Enter(k)) /\ Enter(k).fault = NOMSG
        /\ Enter(k).phase # "caught"
    BY <1>push, PushEffect DEF Enter
  <2>2. ~ exited => Newest(calls', panicking, msg)
    BY <1>0, <1>1, <2>1, NewestPush
  <2> QED BY <1>push, <1>1, <2>2 DEF Reported, CauseIsReported
<1>edit. ASSUME NEW a, depth > 0, CutAt(calls, calls', depth, a), a.fault = top.fault,
                a.phase # "caught",
                UNCHANGED <<msg, panicking, outcome, exited, cause>>
         PROVE  Reported'
  <2>1. ~ exited => Newest(calls', panicking, msg)
    BY <1>edit, <1>0, <1>1, NewestEdit DEF top
  <2> QED BY <1>edit, <1>1, <2>1 DEF Reported, CauseIsReported
<1>drop. ASSUME depth > 0, calls' = Butlast(calls), panicking => top.fault = NOMSG,
                outcome' = outcome \/ outcome' = [tag |-> "Ok"],
                UNCHANGED <<msg, panicking, exited, cause>>
         PROVE  Reported'
  <2>1. Shorter(calls, calls')
    BY <1>drop, DropEffect
  <2>2. ~ exited => Newest(calls', panicking, msg)
    BY <1>drop, <1>0, <1>1, <2>1, NewestDrop DEF top
  <2>3. CauseIsReported'
    BY <1>drop, <1>1 DEF CauseIsReported
  <2> QED BY <1>drop, <2>2, <2>3 DEF Reported
<1>unwind. ASSUME NEW m \in Maybe \ {NOMSG}, Unwind(m), frames' = PoppedAfterUnwind,
                  panicking', msg' = m, cause' = m, outcome' = outcome
           PROVE  Reported'
  <2>1. CauseIsReported'
    BY <1>unwind, <1>1 DEF CauseIsReported
  <2>2. CASE frames = << >>
    BY <1>unwind, <2>1, <2>2, UnwindEffect DEF Reported
  <2>3. CASE frames # << >>
    <3>. DEFINE f == frames[Len(frames)]
    <3>1. f \in 1 .. depth /\ CutAt(calls, calls', f, Hit(calls[f], m))
      BY <1>unwind, <2>3, UnwindEffect
    <3>2. calls[f] \in Activations
      BY <3>1, StackFacts
    <3>3. Hit(calls[f], m).fault = m
      BY <3>2 DEF Hit, Activations
    <3>4. f \in Nat \ {0}
      BY <1>0, <3>1
    <3>. HIDE DEF f
    <3>5. Newest(calls', TRUE, m)
      BY <3>1, <3>3, <3>4, NewestLands
    <3> QED BY <1>unwind, <2>1, <3>5 DEF Reported, Newest
  <2> QED BY <2>2, <2>3
<1>2. CASE Call
  BY <1>2, <1>push DEF Call
<1>3. CASE CatchPanic
  BY <1>3, <1>push DEF CatchPanic
<1>4. CASE Return
  <2>1. CutAt(calls, calls', depth, AtLabel(top))
    BY <1>4, ReturnEffect
  <2>2. AtLabel(top).fault = top.fault /\ AtLabel(top).phase # "caught"
    BY <1>4, TopFacts DEF Return, AtLabel, Activations
  <2> QED BY <1>4, <1>edit, <2>1, <2>2 DEF Return
<1>5. ASSUME NEW i \in Defers, Defer(i) PROVE Reported'
  <2>1. CutAt(calls, calls', depth, Reached(top, i))
    BY <1>5, DeferEffect
  <2>2. Reached(top, i).fault = top.fault /\ Reached(top, i).phase # "caught"
    BY <1>5, TopFacts DEF Defer, Reached, Activations
  <2> QED BY <1>5, <1>edit, <2>1, <2>2 DEF Defer
<1>6. ASSUME NEW m \in Msgs, Panic(m) PROVE Reported'
  <2>1. m \in Maybe \ {NOMSG}
    BY PanicAssumption DEF Maybe
  <2> QED BY <1>6, <1>unwind, <2>1 DEF Panic
<1>7. CASE RunDefer
  <2>. DEFINE a == IF top.next \in top.flags THEN Entered(top) ELSE Skipped(top)
  <2>1. CutAt(calls, calls', depth, a)
    BY <1>7, RunDeferEffect
  <2>2. a.fault = top.fault /\ a.phase # "caught"
    BY <1>7, TopFacts DEF RunDefer, InCleanup, Entered, Skipped, Activations
  <2>. HIDE DEF a
  <2> QED BY <1>7, <1>edit, <2>1, <2>2 DEF RunDefer, InCleanup
<1>8. CASE EndDefer
  <2>1. CutAt(calls, calls', depth, Done(top))
    BY <1>8, EndDeferEffect
  <2>2. Done(top).fault = top.fault /\ Done(top).phase # "caught"
    BY <1>8, TopFacts DEF EndDefer, Done, Activations
  <2> QED BY <1>8, <1>edit, <2>1, <2>2 DEF EndDefer
<1>9. CASE Repanic
  <2>1. /\ ~ exited /\ depth > 0 /\ panicking /\ top.fault # NOMSG
        /\ top.fault \in Maybe \ {NOMSG}
    BY <1>9, TopFacts DEF Repanic, InCleanup, Activations
  <2>2. top.fault = msg
    <3>1. Len(calls) \in Nat \ {0} /\ top = calls[Len(calls)]
      BY <1>0, <2>1 DEF top
    <3>2. Newest(calls, panicking, msg) /\ calls[Len(calls)].fault # NOMSG
      BY <1>1, <2>1, <3>1
    <3> QED BY <2>1, <3>1, <3>2, NewestTop
  <2> QED BY <1>9, <1>unwind, <2>1, <2>2 DEF Repanic
<1>10. CASE LeaveFn
  <2>1. ~ exited /\ depth > 0 /\ (top.fault # NOMSG => ~ panicking)
    BY <1>10 DEF LeaveFn, InCleanup
  <2> QED BY <1>10, <1>drop, <2>1 DEF LeaveFn
<1>11. CASE ClosureReturns
  <2>1. depth > 0 /\ top.fault = NOMSG
    BY <1>11, TopFacts DEF ClosureReturns, InProgram, WellFormed
  <2> QED BY <1>11, <1>drop, <2>1 DEF ClosureReturns
<1>12. CASE Recover
  <2>1. ~ exited /\ depth > 0 /\ top.fault # NOMSG /\ Shorter(calls, calls')
    BY <1>12, TopFacts, DropEffect DEF Recover, WellFormed
  <2>2. panicking /\ top.fault = msg
    <3>1. Len(calls) \in Nat \ {0} /\ top = calls[Len(calls)] /\ Len(calls) \in 1 .. Len(calls)
      BY <1>0, <2>1 DEF top
    <3>2. Newest(calls, panicking, msg) /\ top.phase = "caught"
      BY <1>12, <1>1, <2>1 DEF Recover
    <3>3. panicking
      BY <3>1, <3>2 DEF Newest
    <3> QED BY <2>1, <3>1, <3>2, <3>3, NewestTop
\* No other activation has just been caught.
  <2>3. \A d \in 1 .. Len(calls') : calls'[d].phase # "caught"
    <3>1. \A d \in 1 .. (Len(calls) - 1) : calls[d].phase \in {"body", "defer"}
      BY DEF Stack, Shaped
    <3> QED BY <2>1, <3>1 DEF Shorter
  <2>4. Newest(calls', FALSE, msg)
    BY <2>3 DEF Newest
  <2> QED BY <1>12, <1>1, <2>1, <2>2, <2>4 DEF Recover, Reported, CauseIsReported
<1>13. CASE UNCHANGED vars
  BY <1>13 DEF vars, Reported, CauseIsReported
<1> QED BY <1>2, <1>3, <1>4, <1>5, <1>6, <1>7, <1>8, <1>9, <1>10, <1>11, <1>12, <1>13
        DEF Next

\* So it is throughout.
LEMMA ReportedHolds ==
  ASSUME ~ DEFER_RETURNS
  PROVE  Spec => [](Stack /\ Reported)
<1>1. Init => Stack /\ Reported
  BY StackInit, ReportedInit
<1>2. Stack /\ Reported /\ [Next]_vars => Stack' /\ Reported'
  BY StackStep, ReportedStep
<1> QED BY <1>1, <1>2, PTL DEF Spec

\* Err carries the message of the panic that was caught, and a process that
\* dies prints the message of the panic it dies of, if no defer body returns.
THEOREM CauseIsReportedHolds == ~ DEFER_RETURNS => (Spec => []CauseIsReported)
<1>. SUFFICES ASSUME ~ DEFER_RETURNS PROVE Spec => []CauseIsReported
  OBVIOUS
<1>1. Stack /\ Reported => CauseIsReported
  BY DEF Reported
<1> QED BY <1>1, ReportedHolds, PTL

-----------------------------------------------------------------------------
(* The panic that is under way.                                            *)

\* Of activations c, the flag p and the message m: while the flag is set, one
\* activation has been unwound to and has not gone yet, by that message.
Underway(c, p, m) ==
  IF p
  THEN \E d \in 1 .. Len(c) :
         /\ c[d].fault = m /\ m # NOMSG
         /\ \A e \in 1 .. Len(c) : e # d => c[e].fault = NOMSG
  ELSE \A d \in 1 .. Len(c) : c[d].fault = NOMSG

\* A call starts no panic.
LEMMA UnderwayPush ==
  ASSUME NEW c, Len(c) \in Nat, NEW p, NEW m, Underway(c, p, m),
         NEW c2, NEW a, Pushed(c, c2, a), a.fault = NOMSG
  PROVE  Underway(c2, p, m)
BY DEF Underway, Pushed

\* A change that keeps the fault keeps the panic.
LEMMA UnderwayEdit ==
  ASSUME NEW c, Len(c) \in Nat \ {0}, NEW p, NEW m, Underway(c, p, m),
         NEW c2, NEW a, CutAt(c, c2, Len(c), a), a.fault = c[Len(c)].fault
  PROVE  Underway(c2, p, m)
<1>1. Len(c2) = Len(c) /\ \A d \in 1 .. Len(c) : c2[d].fault = c[d].fault
  BY DEF CutAt
<1> QED BY <1>1 DEF Underway

\* An activation that was not unwound to takes no panic with it.
LEMMA UnderwayDrop ==
  ASSUME NEW c, Len(c) \in Nat \ {0}, NEW p, NEW m, Underway(c, p, m),
         NEW c2, Shorter(c, c2), c[Len(c)].fault = NOMSG
  PROVE  Underway(c2, p, m)
<1>1. /\ Len(c2) = Len(c) - 1
      /\ \A d \in 1 .. (Len(c) - 1) : c2[d] = c[d]
  BY DEF Shorter
<1>2. CASE p
  <2>1. PICK d \in 1 .. Len(c) :
          /\ c[d].fault = m /\ m # NOMSG
          /\ \A e \in 1 .. Len(c) : e # d => c[e].fault = NOMSG
    BY <1>2 DEF Underway
  <2>2. d \in 1 .. Len(c2) /\ c2[d].fault = m
    BY <1>1, <2>1
  <2>3. \A e \in 1 .. Len(c2) : e # d => c2[e].fault = NOMSG
    BY <1>1, <2>1
  <2> QED BY <1>2, <2>1, <2>2, <2>3 DEF Underway
<1>3. CASE ~ p
  BY <1>1, <1>3 DEF Underway
<1> QED BY <1>2, <1>3

\* The activation that was unwound to goes, and the flag is cleared with it.
LEMMA UnderwayEnds ==
  ASSUME NEW c, Len(c) \in Nat \ {0}, NEW p, NEW m, Underway(c, p, m),
         NEW c2, Shorter(c, c2), c[Len(c)].fault # NOMSG
  PROVE  p /\ c[Len(c)].fault = m /\ Underway(c2, FALSE, m)
<1>1. p /\ c[Len(c)].fault = m
  BY DEF Underway
<1>2. \A e \in 1 .. (Len(c) - 1) : c[e].fault = NOMSG
  BY <1>1 DEF Underway
<1> QED BY <1>1, <1>2 DEF Underway, Shorter

\* A longjmp to n: what lies below had not been unwound to.
LEMMA UnderwayLands ==
  ASSUME NEW c, Len(c) \in Nat, NEW n \in 1 .. Len(c), NEW m \in Maybe \ {NOMSG},
         \A d \in 1 .. (n - 1) : c[d].fault = NOMSG,
         NEW c2, NEW a, CutAt(c, c2, n, a), a.fault = m
  PROVE  Underway(c2, TRUE, m)
<1>1. n \in 1 .. Len(c2) /\ c2[n].fault = m
  BY DEF CutAt
<1>2. \A e \in 1 .. Len(c2) : e # n => c2[e].fault = NOMSG
  BY DEF CutAt
<1> QED BY <1>1, <1>2 DEF Underway

\* The third part of the inductive invariant, where defer bodies that run
\* because of a panic raise none.
PanicState == ~ exited => Underway(calls, panicking, msg)

\* At the start there is no panic.
LEMMA PanicStateInit ==
  ASSUME Init
  PROVE  PanicState
BY DEF Init, PanicState, Underway

\* Every step keeps the panic state true to the unwinding.
LEMMA PanicStateStep ==
  ASSUME ~ DEFER_RETURNS, ~ DEFER_CATCHES, Stack, PanicState, [Next]_vars
  PROVE  PanicState'
<1>0. depth \in Nat /\ depth = Len(calls) /\ panicking \in BOOLEAN
  BY StackFacts DEF Stack, TypeOK
<1>1. ~ exited => Underway(calls, panicking, msg)
  BY DEF PanicState
<1>push. ASSUME NEW k \in {"fn", "catch"}, InProgram, depth < MAX_DEPTH,
                calls' = Append(calls, Enter(k)), frames' = Append(frames, depth + 1),
                UNCHANGED <<msg, panicking, exited>>
         PROVE  PanicState'
  <2>1. Pushed(calls, calls', Enter(k)) /\ Enter(k).fault = NOMSG
    BY <1>push, PushEffect DEF Enter
  <2>2. ~ exited => Underway(calls', panicking, msg)
    BY <1>0, <1>1, <2>1, UnderwayPush
  <2> QED BY <1>push, <1>1, <2>2 DEF PanicState
<1>edit. ASSUME NEW a, depth > 0, CutAt(calls, calls', depth, a), a.fault = top.fault,
                UNCHANGED <<msg, panicking, exited>>
         PROVE  PanicState'
  <2>1. ~ exited => Underway(calls', panicking, msg)
    BY <1>edit, <1>0, <1>1, UnderwayEdit DEF top
  <2> QED BY <1>edit, <1>1, <2>1 DEF PanicState
<1>drop. ASSUME depth > 0, calls' = Butlast(calls), top.fault = NOMSG,
                UNCHANGED <<msg, panicking, exited>>
         PROVE  PanicState'
  <2>1. Shorter(calls, calls')
    BY <1>drop, DropEffect
  <2>2. ~ exited => Underway(calls', panicking, msg)
    BY <1>drop, <1>0, <1>1, <2>1, UnderwayDrop DEF top
  <2> QED BY <1>drop, <2>2 DEF PanicState
\* What was unwound to before lies above the newest frame, and is cut off.
<1>unwind. ASSUME NEW m \in Maybe \ {NOMSG}, Unwind(m), frames' = PoppedAfterUnwind,
                  \A d \in 1 .. depth : calls[d].fault # NOMSG => d = depth /\ ~ Open(top),
                  panicking', msg' = m
           PROVE  PanicState'
  <2>2. CASE frames = << >>
    BY <1>unwind, <2>2, UnwindEffect DEF PanicState
  <2>3. CASE frames # << >>
    <3>. DEFINE f == frames[Len(frames)]
    <3>1. f \in 1 .. depth /\ CutAt(calls, calls', f, Hit(calls[f], m))
      BY <1>unwind, <2>3, UnwindEffect
    <3>2. calls[f] \in Activations
      BY <3>1, StackFacts
    <3>3. Hit(calls[f], m).fault = m
      BY <3>2 DEF Hit, Activations
    <3>4. \A d \in 1 .. (f - 1) : calls[d].fault = NOMSG
      BY <1>unwind, <1>0, <3>1
    <3>. HIDE DEF f
    <3>5. Underway(calls', TRUE, m)
      BY <1>0, <3>1, <3>3, <3>4, UnderwayLands
    <3> QED BY <1>unwind, <3>5 DEF PanicState, Underway
  <2> QED BY <2>2, <2>3
<1>2. CASE Call
  BY <1>2, <1>push DEF Call
<1>3. CASE CatchPanic
  BY <1>3, <1>push DEF CatchPanic
<1>4. CASE Return
  <2>1. CutAt(calls, calls', depth, AtLabel(top))
    BY <1>4, ReturnEffect
  <2>2. AtLabel(top).fault = top.fault
    BY <1>4, TopFacts DEF Return, AtLabel, Activations
  <2> QED BY <1>4, <1>edit, <2>1, <2>2 DEF Return
<1>5. ASSUME NEW i \in Defers, Defer(i) PROVE PanicState'
  <2>1. CutAt(calls, calls', depth, Reached(top, i))
    BY <1>5, DeferEffect
  <2>2. Reached(top, i).fault = top.fault
    BY <1>5, TopFacts DEF Defer, Reached, Activations
  <2> QED BY <1>5, <1>edit, <2>1, <2>2 DEF Defer
<1>6. ASSUME NEW m \in Msgs, Panic(m) PROVE PanicState'
  <2>1. m \in Maybe \ {NOMSG}
    BY PanicAssumption DEF Maybe
  <2>2. ~ panicking /\ ~ exited
    BY <1>6 DEF Panic, InProgram
  <2>3. \A d \in 1 .. depth : calls[d].fault = NOMSG
    BY <1>0, <1>1, <2>2 DEF Underway
  <2> QED BY <1>6, <1>unwind, <2>1, <2>3 DEF Panic
<1>7. CASE RunDefer
  <2>. DEFINE a == IF top.next \in top.flags THEN Entered(top) ELSE Skipped(top)
  <2>1. CutAt(calls, calls', depth, a)
    BY <1>7, RunDeferEffect
  <2>2. a.fault = top.fault
    BY <1>7, TopFacts DEF RunDefer, InCleanup, Entered, Skipped, Activations
  <2>. HIDE DEF a
  <2> QED BY <1>7, <1>edit, <2>1, <2>2 DEF RunDefer, InCleanup
<1>8. CASE EndDefer
  <2>1. CutAt(calls, calls', depth, Done(top))
    BY <1>8, EndDeferEffect
  <2>2. Done(top).fault = top.fault
    BY <1>8, TopFacts DEF EndDefer, Done, Activations
  <2> QED BY <1>8, <1>edit, <2>1, <2>2 DEF EndDefer
<1>9. CASE Repanic
  <2>1. /\ ~ exited /\ depth > 0 /\ panicking /\ top.fault # NOMSG /\ ~ Open(top)
        /\ top.fault \in Maybe \ {NOMSG}
    BY <1>9, TopFacts DEF Repanic, InCleanup, Activations, Open
  <2>2. /\ top.fault = msg
        /\ \A d \in 1 .. depth : calls[d].fault # NOMSG => d = depth
    BY <1>0, <1>1, <2>1 DEF Underway, top
  <2> QED BY <1>9, <1>unwind, <2>1, <2>2 DEF Repanic
<1>10. CASE LeaveFn
  <2>1. ~ exited /\ depth > 0 /\ (top.fault # NOMSG => ~ panicking)
    BY <1>10 DEF LeaveFn, InCleanup
  <2>2. top.fault = NOMSG
    BY <1>0, <1>1, <2>1 DEF Underway, top
  <2> QED BY <1>10, <1>drop, <2>1, <2>2 DEF LeaveFn
<1>11. CASE ClosureReturns
  <2>1. depth > 0 /\ top.fault = NOMSG
    BY <1>11, TopFacts DEF ClosureReturns, InProgram, WellFormed
  <2> QED BY <1>11, <1>drop, <2>1 DEF ClosureReturns
<1>12. CASE Recover
  <2>1. ~ exited /\ depth > 0 /\ top.fault # NOMSG /\ Shorter(calls, calls')
    BY <1>12, TopFacts, DropEffect DEF Recover, WellFormed
  <2>2. panicking /\ top.fault = msg /\ Underway(calls', FALSE, msg)
    <3>1. Len(calls) \in Nat \ {0} /\ top = calls[Len(calls)]
      BY <1>0, <2>1 DEF top
    <3>2. Underway(calls, panicking, msg) /\ calls[Len(calls)].fault # NOMSG
      BY <1>1, <2>1, <3>1
    <3> QED BY <2>1, <3>1, <3>2, UnderwayEnds
  <2> QED BY <1>12, <1>1, <2>1, <2>2 DEF Recover, PanicState
<1>13. CASE UNCHANGED vars
  BY <1>13 DEF vars, PanicState
<1> QED BY <1>2, <1>3, <1>4, <1>5, <1>6, <1>7, <1>8, <1>9, <1>10, <1>11, <1>12, <1>13
        DEF Next

\* So it is throughout.
LEMMA PanicStateHolds ==
  ASSUME ~ DEFER_RETURNS, ~ DEFER_CATCHES
  PROVE  Spec => [](Stack /\ PanicState)
<1>1. Init => Stack /\ PanicState
  BY StackInit, PanicStateInit
<1>2. Stack /\ PanicState /\ [Next]_vars => Stack' /\ PanicState'
  BY StackStep, PanicStateStep
<1> QED BY <1>1, <1>2, PTL DEF Spec

\* The flag is set exactly while an activation is being unwound, if no defer
\* body returns or meets a panic of its own.
THEOREM PanickingMeansUnwindingHolds ==
  ~ DEFER_RETURNS /\ ~ DEFER_CATCHES => (Spec => []PanickingMeansUnwinding)
<1>. SUFFICES ASSUME ~ DEFER_RETURNS, ~ DEFER_CATCHES
              PROVE  Spec => []PanickingMeansUnwinding
  OBVIOUS
<1>1. Stack /\ PanicState => PanickingMeansUnwinding
  <2>. SUFFICES ASSUME Stack, PanicState, ~ exited
                PROVE  panicking <=> \E d \in 1 .. depth : calls[d].fault # NOMSG
    BY DEF PanickingMeansUnwinding
  <2>1. depth = Len(calls) /\ panicking \in BOOLEAN /\ Underway(calls, panicking, msg)
    BY StackFacts DEF Stack, TypeOK, PanicState
  <2>2. CASE panicking
    BY <2>1, <2>2 DEF Underway
  <2>3. CASE ~ panicking
    BY <2>1, <2>3 DEF Underway
  <2> QED BY <2>2, <2>3
<1> QED BY <1>1, PanicStateHolds, PTL

\* A function that was unwound to does not go before the panic has reached
\* another activation or ended the process, if no defer body returns or meets
\* a panic of its own.
THEOREM PanicGoesOnHolds ==
  ~ DEFER_RETURNS /\ ~ DEFER_CATCHES => (Spec => PanicGoesOn)
<1>. SUFFICES ASSUME ~ DEFER_RETURNS, ~ DEFER_CATCHES PROVE Spec => PanicGoesOn
  OBVIOUS
<1>. DEFINE GoesOn ==
       \A d \in 1 .. depth :
         (d > Len(calls') /\ calls[d].kind = "fn" /\ calls[d].fault # NOMSG)
           => exited' \/ \E e \in 1 .. Len(calls') : calls'[e].fault # NOMSG
<1>1. ASSUME Stack, PanicState, [Next]_vars PROVE [GoesOn]_vars
  <2>0. depth \in Nat /\ depth = Len(calls) /\ (~ exited => Underway(calls, panicking, msg))
    BY <1>1, StackFacts DEF PanicState
  <2>. SUFFICES ASSUME NEW d \in 1 .. depth, d > Len(calls'), calls[d].kind = "fn",
                       calls[d].fault # NOMSG, Next
                PROVE  exited' \/ \E e \in 1 .. Len(calls') : calls'[e].fault # NOMSG
    BY <1>1, <2>0
  <2>same. ASSUME Len(calls') = depth \/ Len(calls') = depth + 1 PROVE FALSE
    BY <2>same, <2>0
  <2>drop. ASSUME depth > 0, calls' = Butlast(calls) PROVE d = depth
    BY <1>1, <2>drop, <2>0, DropEffect DEF Shorter
  <2>unwind. ASSUME NEW m \in Maybe \ {NOMSG}, Unwind(m), frames' = PoppedAfterUnwind
             PROVE  exited' \/ \E e \in 1 .. Len(calls') : calls'[e].fault # NOMSG
    <3>1. CASE frames = << >>
      BY <1>1, <2>unwind, <3>1, UnwindEffect
    <3>2. CASE frames # << >>
      <4>. DEFINE f == frames[Len(frames)]
      <4>1. f \in 1 .. depth /\ CutAt(calls, calls', f, Hit(calls[f], m))
        BY <1>1, <2>unwind, <3>2, UnwindEffect
      <4>2. calls[f] \in Activations
        BY <1>1, <4>1, StackFacts
      <4>3. Hit(calls[f], m).fault = m
        BY <4>2 DEF Hit, Activations
      <4>. HIDE DEF f
      <4>4. f \in 1 .. Len(calls') /\ calls'[f].fault = m
        BY <4>1, <4>3 DEF CutAt
      <4> QED BY <4>4
    <3> QED BY <3>1, <3>2
  <2>1. CASE Call \/ CatchPanic
    <3>1. Len(calls') = depth + 1
      BY <1>1, <2>1, PushEffect, <2>0 DEF Call, CatchPanic, Pushed
    <3> QED BY <3>1, <2>same
  <2>2. CASE Return \/ RunDefer \/ EndDefer \/ \E i \in Defers : Defer(i)
    <3>1. Len(calls') = depth
      BY <1>1, <2>2, ReturnEffect, RunDeferEffect, EndDeferEffect, DeferEffect DEF CutAt
    <3> QED BY <3>1, <2>same
  <2>3. ASSUME NEW m \in Msgs, Panic(m)
        PROVE  exited' \/ \E e \in 1 .. Len(calls') : calls'[e].fault # NOMSG
    <3>1. m \in Maybe \ {NOMSG}
      BY PanicAssumption DEF Maybe
    <3> QED BY <2>3, <2>unwind, <3>1 DEF Panic
  <2>4. CASE Repanic
    <3>1. top.fault \in Maybe \ {NOMSG}
      BY <1>1, <2>4, TopFacts DEF Repanic, InCleanup, Activations
    <3> QED BY <2>4, <2>unwind, <3>1 DEF Repanic
  <2>5. CASE LeaveFn
    <3>1. /\ ~ exited /\ depth > 0 /\ calls' = Butlast(calls)
          /\ top.fault # NOMSG => ~ panicking
      BY <2>5 DEF LeaveFn, InCleanup
    <3>2. top.fault = NOMSG
      BY <2>0, <3>1 DEF Underway, top
    <3> QED BY <2>drop, <3>1, <3>2 DEF top
  <2>6. CASE ClosureReturns
    BY <2>6, <2>drop DEF ClosureReturns, top
  <2>7. CASE Recover
    <3>1. depth > 0 /\ calls' = Butlast(calls) /\ top.phase = "caught"
      BY <2>7 DEF Recover
    <3> QED BY <1>1, <3>1, <2>drop, TopFacts DEF top, WellFormed
  <2> QED BY <2>1, <2>2, <2>3, <2>4, <2>5, <2>6, <2>7 DEF Next
<1>. HIDE DEF GoesOn
<1>2. Spec => [][GoesOn]_vars
  BY <1>1, PanicStateHolds, PTL DEF Spec
<1> QED BY <1>2 DEF GoesOn, PanicGoesOn

-----------------------------------------------------------------------------
(* The defers of one activation.                                           *)

\* The defers in order that have run are the last ones, those above n.
Split(a, n) ==
  \A i \in 1 .. Len(a.order) : i <= Len(a.order) - Len(a.ran) <=> a.order[i] <= n

InOrder(a) ==
  /\ \A i, j \in 1 .. Len(a.order) : i < j => a.order[i] < a.order[j]
  /\ a.flags = {a.order[i] : i \in 1 .. Len(a.order)}
  /\ Len(a.ran) <= Len(a.order)
  /\ \A i \in 1 .. Len(a.ran) : a.ran[i] = a.order[Len(a.order) + 1 - i]
  /\ a.phase = "body" => Len(a.ran) = 0
  /\ a.phase = "cleanup" => Split(a, a.next)
  /\ a.phase = "defer" => Split(a, a.next - 1)

\* The types of an activation, field by field.
LEMMA ActivationFacts ==
  ASSUME NEW a \in Activations
  PROVE  /\ a.order \in Seq(Defers) /\ a.ran \in Seq(Defers)
         /\ Len(a.order) \in Nat /\ Len(a.ran) \in Nat
         /\ \A i \in 1 .. Len(a.order) : a.order[i] \in Defers
         /\ a.next \in 0 .. DEFERS /\ DEFERS \in Nat
<1>1. /\ a.order \in Seq(Defers) /\ a.ran \in Seq(Defers)
      /\ a.next \in 0 .. DEFERS /\ DEFERS \in Nat
  BY PanicAssumption DEF Activations
<1> QED BY <1>1, LenProperties, ElementOfSeq

\* At the start no defer has been reached.
LEMMA OrderEnter == \A k : InOrder(Enter(k))
BY DEF InOrder, Enter, Split

\* Outside loops a defer statement is reached after those above it.
LEMMA OrderReached ==
  ASSUME NEW a \in Activations, InOrder(a), a.phase = "body", NEW i \in Defers,
         \A j \in a.flags : j < i
  PROVE  InOrder(Reached(a, i))
<1>. DEFINE b == Reached(a, i)
            o == a.order
            n == Len(a.order)
<1>1. /\ \A j, k \in 1 .. n : j < k => o[j] < o[k]
      /\ a.flags = {o[j] : j \in 1 .. n} /\ Len(a.ran) = 0
  BY DEF InOrder
<1>2. n \in Nat /\ o \in Seq(Defers) /\ i \notin a.flags /\ i \in Int
  BY ActivationFacts DEF Defers
<1>3. /\ b.flags = a.flags \cup {i} /\ b.order = Append(o, i) /\ b.ran = a.ran
      /\ b.phase = "body"
  BY <1>2 DEF Reached, Activations
<1>4. /\ Len(b.order) = n + 1 /\ b.order[n + 1] = i
      /\ \A j \in 1 .. n : b.order[j] = o[j]
  BY <1>2, <1>3, AppendProperties
<1>. HIDE DEF b, o, n
<1>5. \A j \in 1 .. n : o[j] < i
  BY <1>1
<1>6. \A j, k \in 1 .. Len(b.order) : j < k => b.order[j] < b.order[k]
  BY <1>1, <1>2, <1>4, <1>5
<1>7. b.flags = {b.order[j] : j \in 1 .. Len(b.order)}
  <2>1. 1 .. Len(b.order) = (1 .. n) \cup {n + 1}
    BY <1>2, <1>4
  <2>2. {b.order[j] : j \in 1 .. Len(b.order)} = {o[j] : j \in 1 .. n} \cup {i}
    BY <1>4, <2>1
  <2> QED BY <1>1, <1>3, <2>2
<1>8. Len(b.ran) = 0
  BY <1>1, <1>3
<1>9. InOrder(b)
  <2>1. Len(b.ran) <= Len(b.order) /\ 1 .. Len(b.ran) = {}
    BY <1>2, <1>4, <1>8
  <2>2. b.phase # "cleanup" /\ b.phase # "defer"
    BY <1>3
  <2> QED BY <1>6, <1>7, <1>8, <2>1, <2>2 DEF InOrder
<1> QED BY <1>9 DEF b

\* At the label no defer has run, whether it was reached by a return or by a
\* longjmp.
LEMMA OrderAtLabel ==
  ASSUME NEW a \in Activations, InOrder(a), a.phase = "body", NEW b,
         b.order = a.order, b.flags = a.flags, b.ran = a.ran,
         b.phase = "cleanup", b.next = DEFERS
  PROVE  InOrder(b)
<1>1. Split(b, b.next)
  BY ActivationFacts DEF Split, InOrder, Defers
<1> QED BY <1>1 DEF InOrder

\* The next defer that was reached is the last one that has not run.
LEMMA OrderEntered ==
  ASSUME NEW a \in Activations, InOrder(a), a.phase = "cleanup", a.next > 0,
         a.next \in a.flags
  PROVE  InOrder(Entered(a))
<1>. DEFINE b == Entered(a)
            o == a.order
            n == Len(a.order)
            r == Len(a.ran)
<1>1. /\ \A j, k \in 1 .. n : j < k => o[j] < o[k]
      /\ a.flags = {o[j] : j \in 1 .. n} /\ r <= n
      /\ \A i \in 1 .. r : a.ran[i] = o[n + 1 - i]
      /\ \A i \in 1 .. n : i <= n - r <=> o[i] <= a.next
  BY DEF InOrder, Split
<1>2. /\ n \in Nat /\ r \in Nat /\ a.ran \in Seq(Defers) /\ a.next \in Int
      /\ a.next \in Defers /\ \A i \in 1 .. n : o[i] \in Int
  BY ActivationFacts DEF Defers
<1>3. /\ b.flags = a.flags /\ b.order = o /\ b.ran = Append(a.ran, a.next)
      /\ b.phase = "defer" /\ b.next = a.next
  BY <1>2 DEF Entered, Activations
<1>4. /\ Len(b.ran) = r + 1 /\ b.ran[r + 1] = a.next
      /\ \A i \in 1 .. r : b.ran[i] = a.ran[i]
  BY <1>2, <1>3, AppendProperties
<1>. HIDE DEF b, o, n, r
<1>5. PICK k \in 1 .. n : o[k] = a.next
  BY <1>1
<1>6. k <= n - r
  BY <1>1, <1>2, <1>5
<1>7. k = n - r
  <2>1. n - r \in 1 .. n /\ o[n - r] <= a.next
    BY <1>1, <1>2, <1>6
  <2>2. ~ (k < n - r)
    BY <1>1, <1>2, <1>5, <2>1
  <2> QED BY <1>2, <1>6, <2>2
<1>8. \A i \in 1 .. n : i <= n - (r + 1) <=> o[i] <= a.next - 1
  <2>. TAKE i \in 1 .. n
  <2>1. CASE i < k
    BY <1>1, <1>2, <1>5, <1>7, <2>1
  <2>2. CASE i >= k
    <3>1. o[i] >= a.next
      BY <1>1, <1>2, <1>5, <2>2
    <3> QED BY <1>2, <1>7, <2>2, <3>1
  <2> QED BY <2>1, <2>2
<1>9. \A i \in 1 .. Len(b.ran) : b.ran[i] = b.order[n + 1 - i]
  <2>. SUFFICES ASSUME NEW i \in 1 .. (r + 1) PROVE b.ran[i] = o[n + 1 - i]
    BY <1>3, <1>4
  <2>1. CASE i = r + 1
    <3>1. n + 1 - i = k
      BY <1>2, <1>7, <2>1
    <3> QED BY <1>4, <1>5, <2>1, <3>1
  <2>2. CASE i \in 1 .. r
    BY <1>1, <1>4, <2>2
  <2> QED BY <1>2, <2>1, <2>2
<1>10. Len(b.ran) <= n
  BY <1>2, <1>4, <1>7
<1>11. InOrder(b)
  <2>1. Len(b.order) = n /\ a.flags = {b.order[i] : i \in 1 .. n}
    BY <1>1, <1>3 DEF n, o
  <2>2. Split(b, b.next - 1)
    BY <1>3, <1>4, <1>8, <2>1 DEF Split
  <2> QED BY <1>1, <1>3, <1>9, <1>10, <2>1, <2>2 DEF InOrder
<1> QED BY <1>11 DEF b

\* A defer that was not reached is passed over.
LEMMA OrderSkipped ==
  ASSUME NEW a \in Activations, InOrder(a), a.phase = "cleanup", a.next > 0,
         a.next \notin a.flags
  PROVE  InOrder(Skipped(a))
<1>. DEFINE b == Skipped(a)
<1>1. /\ b.flags = a.flags /\ b.order = a.order /\ b.ran = a.ran
      /\ b.phase = "cleanup" /\ b.next = a.next - 1
  BY DEF Skipped, Activations
<1>2. \A i \in 1 .. Len(a.order) : a.order[i] <= a.next <=> a.order[i] <= a.next - 1
  BY ActivationFacts DEF InOrder, Defers
<1>3. Split(b, b.next)
  BY <1>1, <1>2 DEF InOrder, Split
<1>. HIDE DEF b
<1>4. InOrder(b)
  BY <1>1, <1>3 DEF InOrder
<1> QED BY <1>4 DEF b

\* The body of a defer ends.
LEMMA OrderDone ==
  ASSUME NEW a \in Activations, InOrder(a), a.phase = "defer"
  PROVE  InOrder(Done(a))
<1>. DEFINE b == Done(a)
<1>1. /\ b.flags = a.flags /\ b.order = a.order /\ b.ran = a.ran
      /\ b.phase = "cleanup" /\ b.next = a.next - 1
  BY DEF Done, Activations
<1>2. Split(b, b.next)
  BY <1>1 DEF InOrder, Split
<1>. HIDE DEF b
<1>3. InOrder(b)
  BY <1>1, <1>2 DEF InOrder
<1> QED BY <1>3 DEF b

\* At the end of the cleanup all have run.
LEMMA OrderEnd ==
  ASSUME NEW a \in Activations, InOrder(a), a.phase = "cleanup", a.next = 0
  PROVE  a.ran = Reverse(a.order)
<1>. DEFINE n == Len(a.order)
            v == Reverse(a.order)
<1>1. /\ a.order \in Seq(Defers) /\ a.ran \in Seq(Defers) /\ n \in Nat /\ Len(a.ran) \in Nat
      /\ \A i \in 1 .. n : a.order[i] > 0
  BY ActivationFacts DEF Defers
<1>2. /\ Len(a.ran) <= n /\ \A i \in 1 .. n : i <= n - Len(a.ran) <=> a.order[i] <= 0
      /\ \A i \in 1 .. Len(a.ran) : a.ran[i] = a.order[n + 1 - i]
  BY DEF InOrder, Split
<1>3. Len(a.ran) = n
  <2>1. ASSUME n - Len(a.ran) >= 1 PROVE FALSE
    <3>1. 1 \in 1 .. n /\ 1 <= n - Len(a.ran)
      BY <1>1, <2>1
    <3>2. a.order[1] <= 0 /\ a.order[1] > 0 /\ a.order[1] \in Int
      BY <1>1, <1>2, <3>1, ActivationFacts DEF Defers
    <3> QED BY <3>2
  <2> QED BY <1>1, <1>2, <2>1
<1>4. v = [i \in 1 .. n |-> a.order[(n - i) + 1]]
  BY DEF Reverse
<1>5. v \in Seq(Defers) /\ Len(v) = n /\ \A i \in 1 .. n : v[i] = a.order[(n - i) + 1]
  <2>1. \A i \in 1 .. n : a.order[(n - i) + 1] \in Defers
    BY <1>1, ElementOfSeq
  <2>2. v \in [1 .. n -> Defers]
    BY <1>4, <2>1
  <2> QED BY <1>1, <1>4, <2>2
<1>. HIDE DEF v, n
<1>6. ASSUME NEW i \in 1 .. n PROVE a.ran[i] = v[i]
  <2>1. n + 1 - i = (n - i) + 1
    BY <1>1
  <2>2. a.ran[i] = a.order[n + 1 - i]
    BY <1>2, <1>3
  <2>3. v[i] = a.order[(n - i) + 1]
    BY <1>5
  <2> QED BY <2>1, <2>2, <2>3
<1>7. a.ran = v
  BY <1>1, <1>3, <1>5, <1>6, SeqEqual
<1> QED BY <1>7 DEF v

-----------------------------------------------------------------------------
(* The defers of all activations.                                          *)

Shielded(c, e, n) == \E x \in (e + 1) .. (n - 1) : c[x].kind = "catch" /\ c[x].phase = "body"

\* No panic is on its way out of a defer body: above the body, below the
\* function that the panic reached, a catch_panic is open.
NoEscape(c) ==
  \A d, e \in 1 .. Len(c) :
    e < d /\ c[d].kind = "fn" /\ c[d].fault # NOMSG /\ c[e].phase = "defer"
      => Shielded(c, e, d)

\* The fourth part of the inductive invariant.
Lifo ==
  /\ \A d \in 1 .. Len(calls) : calls[d].kind = "fn" => InOrder(calls[d])
  /\ NoEscape(calls)

\* A call lets no panic out of a defer body.
LEMMA EscapePush ==
  ASSUME NEW c, Len(c) \in Nat, NoEscape(c), NEW c2, NEW a, Pushed(c, c2, a),
         a.fault = NOMSG
  PROVE  NoEscape(c2)
<1>1. /\ Len(c2) = Len(c) + 1 /\ c2[Len(c) + 1].fault = NOMSG
      /\ \A d \in 1 .. Len(c) : c2[d] = c[d]
  BY DEF Pushed
<1>. SUFFICES ASSUME NEW d \in 1 .. Len(c2), NEW e \in 1 .. Len(c2), e < d,
                     c2[d].kind = "fn", c2[d].fault # NOMSG, c2[e].phase = "defer"
              PROVE  Shielded(c2, e, d)
  BY DEF NoEscape
<1>2. d \in 1 .. Len(c) /\ e \in 1 .. Len(c)
  BY <1>1
<1>3. Shielded(c, e, d)
  BY <1>1, <1>2 DEF NoEscape
<1> QED BY <1>1, <1>2, <1>3 DEF Shielded

\* Neither does the end of the newest activation.
LEMMA EscapeShorter ==
  ASSUME NEW c, Len(c) \in Nat \ {0}, NoEscape(c), NEW c2, Shorter(c, c2)
  PROVE  NoEscape(c2)
<1>1. Len(c2) = Len(c) - 1 /\ \A d \in 1 .. (Len(c) - 1) : c2[d] = c[d]
  BY DEF Shorter
<1>. SUFFICES ASSUME NEW d \in 1 .. Len(c2), NEW e \in 1 .. Len(c2), e < d,
                     c2[d].kind = "fn", c2[d].fault # NOMSG, c2[e].phase = "defer"
              PROVE  Shielded(c2, e, d)
  BY DEF NoEscape
<1>2. d \in 1 .. Len(c) /\ e \in 1 .. Len(c) /\ c2[d] = c[d] /\ c2[e] = c[e]
  BY <1>1
<1>3. Shielded(c, e, d)
  BY <1>2 DEF NoEscape
<1> QED BY <1>1, <1>2, <1>3 DEF Shielded

\* The activation at n becomes the newest one.
LEMMA EscapeCut ==
  ASSUME NEW c, Len(c) \in Nat, NoEscape(c), NEW n \in 1 .. Len(c),
         NEW c2, NEW a, CutAt(c, c2, n, a),
         \A e \in 1 .. (n - 1) :
            a.kind = "fn" /\ a.fault # NOMSG /\ c[e].phase = "defer" => Shielded(c, e, n)
  PROVE  NoEscape(c2)
<1>1. Len(c2) = n /\ c2[n] = a /\ \A d \in 1 .. (n - 1) : c2[d] = c[d]
  BY DEF CutAt
<1>. SUFFICES ASSUME NEW d \in 1 .. Len(c2), NEW e \in 1 .. Len(c2), e < d,
                     c2[d].kind = "fn", c2[d].fault # NOMSG, c2[e].phase = "defer"
              PROVE  Shielded(c2, e, d)
  BY DEF NoEscape
<1>2. e \in 1 .. (n - 1) /\ c2[e] = c[e]
  BY <1>1
<1>3. Shielded(c, e, d)
  <2>1. CASE d = n
    BY <1>1, <1>2, <2>1
  <2>2. CASE d # n
    BY <1>1, <1>2, <2>2 DEF NoEscape
  <2> QED BY <2>1, <2>2
<1> QED BY <1>1, <1>3 DEF Shielded

\* At the start there are no activations.
LEMMA LifoInit ==
  ASSUME Init
  PROVE  Lifo
BY DEF Init, Lifo, NoEscape

\* A panic of the program, when none may leave a defer body, is raised where
\* the newest activation has a frame, or where there is no activation at all.
LEMMA PanicAtTop ==
  ASSUME Stack, ~ DEFER_PANICS, NEW m \in Msgs, Panic(m), depth > 0
  PROVE  /\ ~ LeavesDefer /\ frames # << >> /\ frames[Len(frames)] = depth
         /\ top.phase = "body"
<1>0. depth \in Nat \ {0} /\ depth = Len(calls) /\ Matches(frames, calls)
      /\ Len(frames) \in Nat /\ (frames = << >> <=> Len(frames) = 0)
  BY StackFacts DEF Stack
<1>1. ~ LeavesDefer /\ top.phase \in {"body", "defer"}
  BY DEF Panic, InProgram
<1>2. ASSUME top.phase = "defer" PROVE LeavesDefer
  <2>1. depth \in 1 .. depth /\ (depth + 1) .. depth = {}
    BY <1>0
  <2> QED BY <1>2, <2>1 DEF LeavesDefer, top
<1>3. top.phase = "body" /\ Open(calls[Len(calls)])
  BY <1>0, <1>1, <1>2 DEF Open, top
<1>4. Len(frames) \in Nat \ {0} /\ frames[Len(frames)] = Len(calls)
  BY <1>0, <1>3, MatchTop
<1> QED BY <1>0, <1>1, <1>3, <1>4

\* What a repanic passes over are no defer bodies: below the function that
\* goes on panicking, down to the newest frame, there is no activation.
LEMMA RepanicPasses ==
  ASSUME Stack, Lifo, Repanic, NEW d \in 1 .. (depth - 1),
         frames # << >> => d > frames[Len(frames)]
  PROVE  FALSE
<1>0. /\ depth \in Nat /\ depth = Len(calls) /\ Matches(frames, calls) /\ Shaped(calls)
      /\ Len(frames) \in Nat /\ (frames = << >> <=> Len(frames) = 0)
      /\ NoEscape(calls)
  BY StackFacts DEF Stack, Lifo
<1>1. depth > 0 /\ top.phase = "cleanup" /\ top.fault # NOMSG
  BY DEF Repanic, InCleanup
<1>2. calls[depth].kind = "fn" /\ calls[depth].fault # NOMSG
  BY <1>1, TopFacts DEF WellFormed, Activations, top
\* An activation above the newest frame has none.
<1>3. ASSUME NEW x \in d .. depth, Open(calls[x]) PROVE FALSE
  <2>1. PICK i \in 1 .. Len(frames) : frames[i] = x
    BY <1>0, <1>3, MatchFacts
  <2>2. /\ frames[Len(frames)] \in 1 .. Len(calls)
        /\ \A y \in (frames[Len(frames)] + 1) .. Len(calls) : ~ Open(calls[y])
    BY <1>0, <2>1, MatchNewest
  <2> QED BY <1>0, <1>3, <2>1, <2>2
<1>4. calls[d].phase = "defer"
  <2>1. calls[d].phase \in {"body", "defer"}
    BY <1>0 DEF Shaped
  <2> QED BY <1>0, <1>3, <2>1 DEF Open
<1>5. Shielded(calls, d, depth)
  BY <1>0, <1>2, <1>4 DEF NoEscape
<1>6. PICK x \in (d + 1) .. (depth - 1) : calls[x].phase = "body"
  BY <1>5 DEF Shielded
<1> QED BY <1>0, <1>3, <1>6 DEF Open

\* Every step keeps the defers in order and the panics in their defer bodies.
LEMMA LifoStep ==
  ASSUME ~ DEFER_RETURNS, ~ DEFER_LOOPS, ~ DEFER_PANICS, Stack, Lifo, [Next]_vars
  PROVE  Lifo'
<1>0. /\ depth \in Nat /\ depth = Len(calls) /\ NoEscape(calls)
      /\ \A d \in 1 .. Len(calls) : calls[d].kind = "fn" => InOrder(calls[d])
  BY StackFacts DEF Lifo
<1>push. ASSUME NEW k \in {"fn", "catch"}, InProgram, depth < MAX_DEPTH,
                calls' = Append(calls, Enter(k)), frames' = Append(frames, depth + 1)
         PROVE  Lifo'
  <2>1. Pushed(calls, calls', Enter(k)) /\ Enter(k).fault = NOMSG
    BY <1>push, PushEffect DEF Enter
  <2>2. NoEscape(calls')
    BY <1>0, <2>1, EscapePush
  <2>3. \A d \in 1 .. Len(calls') : calls'[d].kind = "fn" => InOrder(calls'[d])
    BY <1>0, <2>1, OrderEnter DEF Pushed
  <2> QED BY <2>2, <2>3 DEF Lifo
\* An activation n becomes the newest, as a.
<1>cut. ASSUME NEW n \in 1 .. depth, NEW a, CutAt(calls, calls', n, a),
               a.kind = "fn" => InOrder(a),
               \A e \in 1 .. (n - 1) :
                 a.kind = "fn" /\ a.fault # NOMSG /\ calls[e].phase = "defer"
                   => Shielded(calls, e, n)
        PROVE  Lifo'
  <2>1. NoEscape(calls')
    BY <1>cut, <1>0, EscapeCut
  <2>2. \A d \in 1 .. Len(calls') : calls'[d].kind = "fn" => InOrder(calls'[d])
    BY <1>cut, <1>0 DEF CutAt
  <2> QED BY <2>1, <2>2 DEF Lifo
<1>edit. ASSUME NEW a, depth > 0, CutAt(calls, calls', depth, a),
                a.kind = top.kind, a.fault = top.fault, InOrder(a)
         PROVE  Lifo'
  <2>1. \A e \in 1 .. (depth - 1) :
          a.kind = "fn" /\ a.fault # NOMSG /\ calls[e].phase = "defer"
            => Shielded(calls, e, depth)
    BY <1>edit, <1>0 DEF NoEscape, top
  <2>2. depth \in 1 .. depth
    BY <1>edit, <1>0
  <2> QED BY <1>edit, <1>cut, <2>1, <2>2
<1>drop. ASSUME depth > 0, calls' = Butlast(calls)
         PROVE  Lifo'
  <2>1. Shorter(calls, calls')
    BY <1>drop, DropEffect
  <2>2. NoEscape(calls')
    BY <1>drop, <1>0, <2>1, EscapeShorter
  <2>3. \A d \in 1 .. Len(calls') : calls'[d].kind = "fn" => InOrder(calls'[d])
    BY <1>0, <2>1 DEF Shorter
  <2> QED BY <2>2, <2>3 DEF Lifo
<1>unwind. ASSUME NEW m \in Maybe \ {NOMSG}, Unwind(m), frames' = PoppedAfterUnwind,
                  frames # << >> =>
                    \A e \in 1 .. (frames[Len(frames)] - 1) :
                      calls[frames[Len(frames)]].kind = "fn" /\ calls[e].phase = "defer"
                        => Shielded(calls, e, frames[Len(frames)])
           PROVE  Lifo'
  <2>1. CASE frames = << >>
    <3>1. calls' = calls
      BY <1>unwind, <2>1, UnwindEffect
    <3> QED BY <3>1, <1>0 DEF Lifo
  <2>2. CASE frames # << >>
    <3>. DEFINE f == frames[Len(frames)]
                a == calls[f]
    <3>1. f \in 1 .. depth /\ CutAt(calls, calls', f, Hit(a, m))
      BY <1>unwind, <2>2, UnwindEffect
    <3>2. a \in Activations /\ WellFormed(a) /\ Open(a)
      <4>1. /\ Len(frames) \in Nat /\ Len(frames) > 0 /\ Matches(frames, calls)
        BY <2>2, StackFacts DEF Stack
      <4>2. Open(calls[frames[Len(frames)]])
        BY <1>0, <4>1, MatchNewest
      <4> QED BY <3>1, <4>2, StackFacts
    <3>3. /\ Hit(a, m).kind = a.kind
          /\ a.kind = "fn" => InOrder(Hit(a, m))
      <4>1. Hit(a, m).kind = a.kind
        BY <3>2 DEF Hit, Activations
      <4>2. ASSUME a.kind = "fn" PROVE InOrder(Hit(a, m))
        <5>. DEFINE h == Hit(a, m)
        <5>1. a.phase = "body" /\ InOrder(a)
          BY <1>0, <3>1, <3>2, <4>2 DEF Open, WellFormed
        <5>2. /\ h.order = a.order /\ h.flags = a.flags /\ h.ran = a.ran
              /\ h.phase = "cleanup" /\ h.next = DEFERS
          BY <3>2, <4>2 DEF Hit, Activations
        <5>. HIDE DEF h, a
        <5>3. InOrder(h)
          BY <3>2, <5>1, <5>2, OrderAtLabel
        <5> QED BY <5>3 DEF h
      <4> QED BY <4>1, <4>2
    <3>4. \A e \in 1 .. (f - 1) :
            a.kind = "fn" /\ calls[e].phase = "defer" => Shielded(calls, e, f)
      BY <1>unwind, <2>2
    <3>. HIDE DEF f, a
    <3> QED BY <1>cut, <3>1, <3>3, <3>4
  <2> QED BY <2>1, <2>2
<1>1. CASE Call
  BY <1>1, <1>push DEF Call
<1>2. CASE CatchPanic
  BY <1>2, <1>push DEF CatchPanic
<1>3. CASE Return
  <2>1. depth > 0 /\ top.kind = "fn" /\ top.phase = "body" /\ top \in Activations
    BY <1>3, TopFacts DEF Return
  <2>2. CutAt(calls, calls', depth, AtLabel(top))
    BY <1>3, ReturnEffect
  <2>. DEFINE b == AtLabel(top)
  <2>3. /\ b.kind = top.kind /\ b.fault = top.fault
        /\ b.order = top.order /\ b.flags = top.flags /\ b.ran = top.ran
        /\ b.phase = "cleanup" /\ b.next = DEFERS
    BY <2>1 DEF AtLabel, Activations
  <2>4. InOrder(top)
    BY <1>0, <2>1, TopFacts DEF top
  <2>. HIDE DEF b
  <2>5. InOrder(b)
    BY <2>1, <2>3, <2>4, OrderAtLabel
  <2>6. CutAt(calls, calls', depth, b)
    BY <2>2 DEF b
  <2> QED BY <1>edit, <2>1, <2>3, <2>5, <2>6
<1>4. ASSUME NEW i \in Defers, Defer(i) PROVE Lifo'
  <2>1. /\ depth > 0 /\ top.kind = "fn" /\ top.phase = "body" /\ top \in Activations
        /\ \A j \in top.flags : j < i
    BY <1>4, TopFacts DEF Defer
  <2>2. CutAt(calls, calls', depth, Reached(top, i))
    BY <1>4, DeferEffect
  <2>3. Reached(top, i).kind = top.kind /\ Reached(top, i).fault = top.fault
    BY <2>1 DEF Reached, Activations
  <2>4. InOrder(top)
    BY <1>0, <2>1, TopFacts DEF top
  <2>5. InOrder(Reached(top, i))
    BY <2>1, <2>4, OrderReached
  <2> QED BY <1>edit, <2>1, <2>2, <2>3, <2>5
<1>5. ASSUME NEW m \in Msgs, Panic(m) PROVE Lifo'
  <2>1. m \in Maybe \ {NOMSG}
    BY PanicAssumption DEF Maybe
  <2>2. ASSUME frames # << >>,
               NEW e \in 1 .. (frames[Len(frames)] - 1),
               calls[frames[Len(frames)]].kind = "fn", calls[e].phase = "defer"
        PROVE  Shielded(calls, e, frames[Len(frames)])
    <3>1. depth > 0
      <4>1. Len(frames) \in Nat /\ Len(frames) > 0 /\ Matches(frames, calls)
        BY <2>2, StackFacts DEF Stack
      <4>2. frames[Len(frames)] \in 1 .. Len(calls)
        BY <1>0, <4>1, MatchNewest
      <4> QED BY <1>0, <4>2
    <3>2. ~ LeavesDefer /\ frames[Len(frames)] = depth
      BY <1>5, <3>1, PanicAtTop
    <3>3. e \in 1 .. depth
      BY <1>0, <2>2, <3>2
    <3>4. PICK x \in (e + 1) .. depth : calls[x].kind = "catch" /\ calls[x].phase = "body"
      BY <2>2, <3>2, <3>3 DEF LeavesDefer
    <3>5. x \in (e + 1) .. (depth - 1)
      BY <1>0, <2>2, <3>2, <3>3, <3>4
    <3> QED BY <3>2, <3>4, <3>5 DEF Shielded
  <2> QED BY <1>5, <1>unwind, <2>1, <2>2 DEF Panic
<1>6. CASE RunDefer
  <2>. DEFINE a == IF top.next \in top.flags THEN Entered(top) ELSE Skipped(top)
  <2>1. /\ depth > 0 /\ top.phase = "cleanup" /\ top.next > 0 /\ top \in Activations
        /\ top.kind = "fn"
    <3>1. /\ depth > 0 /\ top.phase = "cleanup" /\ top.next > 0 /\ top \in Activations
          /\ WellFormed(top)
      BY <1>6, TopFacts DEF RunDefer, InCleanup
    <3> QED BY <3>1 DEF WellFormed, Activations
  <2>2. CutAt(calls, calls', depth, a)
    BY <1>6, RunDeferEffect
  <2>3. a.kind = top.kind /\ a.fault = top.fault
    BY <2>1 DEF Entered, Skipped, Activations
  <2>4. InOrder(top)
    BY <1>0, <2>1, TopFacts DEF top
  <2>5. InOrder(a)
    BY <2>1, <2>4, OrderEntered, OrderSkipped
  <2>. HIDE DEF a
  <2> QED BY <1>edit, <2>1, <2>2, <2>3, <2>5
<1>7. CASE EndDefer
  <2>1. depth > 0 /\ top.phase = "defer" /\ top \in Activations /\ WellFormed(top)
    BY <1>7, TopFacts DEF EndDefer
  <2>2. top.kind = "fn"
    BY <2>1 DEF WellFormed, Activations
  <2>3. CutAt(calls, calls', depth, Done(top))
    BY <1>7, EndDeferEffect
  <2>4. Done(top).kind = top.kind /\ Done(top).fault = top.fault
    BY <2>1 DEF Done, Activations
  <2>5. InOrder(top)
    BY <1>0, <2>1, <2>2, TopFacts DEF top
  <2>6. InOrder(Done(top))
    BY <2>1, <2>5, OrderDone
  <2> QED BY <1>edit, <2>1, <2>3, <2>4, <2>6
<1>8. CASE Repanic
  <2>1. /\ depth > 0 /\ top.fault \in Maybe \ {NOMSG} /\ top.kind = "fn"
    BY <1>8, TopFacts DEF Repanic, InCleanup, Activations, WellFormed
  <2>2. ASSUME frames # << >>,
               NEW e \in 1 .. (frames[Len(frames)] - 1),
               calls[frames[Len(frames)]].kind = "fn", calls[e].phase = "defer"
        PROVE  Shielded(calls, e, frames[Len(frames)])
    <3>. DEFINE f == frames[Len(frames)]
    <3>1. Len(frames) \in Nat /\ Len(frames) > 0 /\ Matches(frames, calls)
      BY <2>2, StackFacts DEF Stack
    <3>2. /\ f \in 1 .. Len(calls) /\ Open(calls[f])
          /\ \A x \in (f + 1) .. Len(calls) : ~ Open(calls[x])
      BY <1>0, <3>1, MatchNewest
    <3>3. f < depth
      <4>1. ~ Open(top)
        BY <1>8 DEF Repanic, InCleanup, Open
      <4> QED BY <1>0, <3>2, <4>1 DEF top
    <3>4. Shielded(calls, e, depth)
      BY <1>0, <2>1, <2>2, <3>2, <3>3 DEF NoEscape, top
    <3>5. PICK x \in (e + 1) .. (depth - 1) :
            calls[x].kind = "catch" /\ calls[x].phase = "body"
      BY <3>4 DEF Shielded
    <3>6. x \in (e + 1) .. (f - 1)
      BY <1>0, <2>2, <3>2, <3>5 DEF Open
    <3> QED BY <3>5, <3>6 DEF Shielded
  <2> QED BY <1>8, <1>unwind, <2>1, <2>2 DEF Repanic
<1>9. CASE LeaveFn
  BY <1>9, <1>drop DEF LeaveFn, InCleanup
<1>10. CASE ClosureReturns
  BY <1>10, <1>drop DEF ClosureReturns
<1>11. CASE Recover
  BY <1>11, <1>drop DEF Recover
<1>12. CASE UNCHANGED vars
  BY <1>12 DEF vars, Lifo
<1> QED BY <1>1, <1>2, <1>3, <1>4, <1>5, <1>6, <1>7, <1>8, <1>9, <1>10, <1>11, <1>12
        DEF Next

\* So they are throughout.
LEMMA LifoHolds ==
  ASSUME ~ DEFER_RETURNS, ~ DEFER_LOOPS, ~ DEFER_PANICS
  PROVE  Spec => [](Stack /\ Lifo)
<1>1. Init => Stack /\ Lifo
  BY StackInit, LifoInit
<1>2. Stack /\ Lifo /\ [Next]_vars => Stack' /\ Lifo'
  BY StackStep, LifoStep
<1> QED BY <1>1, <1>2, PTL DEF Spec

\* When a function is gone, by a return, because a panic passed it, or with
\* the process, the defers its body reached have run, each once, in the
\* opposite order, if they stand outside loops and their bodies neither return
\* nor are left by a panic.
THEOREM DefersRunLifoHolds ==
  ~ DEFER_RETURNS /\ ~ DEFER_LOOPS /\ ~ DEFER_PANICS => (Spec => DefersRunLifo)
<1>. SUFFICES ASSUME ~ DEFER_RETURNS, ~ DEFER_LOOPS, ~ DEFER_PANICS
              PROVE  Spec => DefersRunLifo
  OBVIOUS
<1>. DEFINE AllRan ==
       \A d \in 1 .. depth :
         (d > Len(calls') \/ exited') /\ calls[d].kind = "fn"
           => calls[d].ran = Reverse(calls[d].order)
<1>1. ASSUME Stack, Lifo, [Next]_vars PROVE [AllRan]_vars
  <2>0. /\ depth \in Nat /\ depth = Len(calls)
        /\ \A d \in 1 .. Len(calls) : calls[d].kind = "fn" => InOrder(calls[d])
    BY <1>1, StackFacts DEF Lifo
  <2>. SUFFICES ASSUME NEW d \in 1 .. depth, d > Len(calls') \/ exited',
                       calls[d].kind = "fn", Next
                PROVE  calls[d].ran = Reverse(calls[d].order)
    BY <1>1, <2>0
  <2>same. ASSUME Len(calls') = depth \/ Len(calls') = depth + 1, ~ exited' PROVE FALSE
    BY <2>same, <2>0
  <2>drop. ASSUME depth > 0, calls' = Butlast(calls), ~ exited' PROVE d = depth
    BY <1>1, <2>drop, <2>0, DropEffect DEF Shorter
  <2>end. ASSUME d = depth, top.phase = "cleanup", top.next = 0
          PROVE  calls[d].ran = Reverse(calls[d].order)
    BY <1>1, <2>end, <2>0, TopFacts, OrderEnd DEF top
  <2>1. CASE Call \/ CatchPanic
    <3>1. Len(calls') = depth + 1 /\ ~ exited'
      BY <1>1, <2>1, PushEffect, <2>0 DEF Call, CatchPanic, InProgram, Pushed
    <3> QED BY <3>1, <2>same
  <2>2. CASE Return \/ RunDefer \/ EndDefer \/ \E i \in Defers : Defer(i)
    <3>1. Len(calls') = depth
      BY <1>1, <2>2, ReturnEffect, RunDeferEffect, EndDeferEffect, DeferEffect DEF CutAt
    <3>2. ~ exited'
      BY <2>2 DEF Return, RunDefer, EndDefer, Defer, InProgram, InCleanup
    <3> QED BY <3>1, <3>2, <2>same
  <2>3. ASSUME NEW m \in Msgs, Panic(m) PROVE FALSE
    <3>1. frames # << >> /\ frames[Len(frames)] = depth
      BY <1>1, <2>0, <2>3, PanicAtTop
    <3>2. m \in Maybe \ {NOMSG} /\ Unwind(m) /\ frames' = PoppedAfterUnwind
      BY <2>3, PanicAssumption DEF Maybe, Panic
    <3>3. exited' = FALSE /\ CutAt(calls, calls', depth, Hit(calls[depth], m))
      BY <1>1, <3>1, <3>2, UnwindEffect
    <3> QED BY <3>3, <2>same DEF CutAt
  <2>4. CASE Repanic
    <3>1. /\ depth > 0 /\ top.phase = "cleanup" /\ top.next = 0
          /\ top.fault \in Maybe \ {NOMSG}
          /\ Unwind(top.fault) /\ frames' = PoppedAfterUnwind
      BY <1>1, <2>4, TopFacts DEF Repanic, InCleanup, Activations
    <3>2. ASSUME d # depth PROVE FALSE
      <4>1. d \in 1 .. (depth - 1)
        BY <2>0, <3>2
      <4>2. frames # << >> => d > frames[Len(frames)]
        <5>. SUFFICES ASSUME frames # << >> PROVE d > frames[Len(frames)]
          OBVIOUS
        <5>. DEFINE f == frames[Len(frames)]
        <5>1. exited' = FALSE /\ CutAt(calls, calls', f, Hit(calls[f], top.fault))
          BY <1>1, <3>1, UnwindEffect
        <5> QED BY <5>1 DEF CutAt
      <4> QED BY <1>1, <2>4, <4>1, <4>2, RepanicPasses
    <3> QED BY <3>1, <3>2, <2>end
  <2>5. CASE LeaveFn
    BY <2>5, <2>drop, <2>end DEF LeaveFn, InCleanup
  <2>6. CASE ClosureReturns
    BY <2>6, <2>drop DEF ClosureReturns, InProgram, top
  <2>7. CASE Recover
    <3>1. depth > 0 /\ calls' = Butlast(calls) /\ top.phase = "caught" /\ ~ exited'
      BY <2>7 DEF Recover
    <3> QED BY <1>1, <3>1, <2>drop, TopFacts DEF top, WellFormed
  <2> QED BY <2>1, <2>2, <2>3, <2>4, <2>5, <2>6, <2>7 DEF Next
<1>. HIDE DEF AllRan
<1>2. Spec => [][AllRan]_vars
  BY <1>1, LifoHolds, PTL DEF Spec
<1> QED BY <1>2 DEF AllRan, DefersRunLifo

=============================================================================
