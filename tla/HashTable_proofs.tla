--------------------------- MODULE HashTable_proofs ---------------------------
(***************************************************************************)
(* Proofs about the hash table: what linear probing finds, an inductive    *)
(* invariant over the calls and the slots of a rehash, and from it the     *)
(* properties of HashTable and the refinement of HashMap.                  *)
(***************************************************************************)
EXTENDS HashTable, FiniteSetTheorems, WellFoundedInduction, TLAPS

-----------------------------------------------------------------------------
(* The inductive invariant, over tables that are a function of keys f and  *)
(* one of values g, with c slots.                                          *)

\* No slot that a search from h passes before it comes to s has a key in S.
Clear(f, c, h, s, S) ==
  \A t \in Slots(c) : Distance(h, t, c) < Distance(h, s, c) => f[t] \notin S

Typed(f, g, c) ==
  /\ f \in [Slots(c) -> Keys \cup {EMPTY, TOMBSTONE}]
  /\ g \in [Slots(c) -> Values \cup {NULL}]
  /\ \A s \in Slots(c) : f[s] \in Keys => g[s] \in Values

Distinct(f, c) == \A s, t \in Slots(c) : f[s] \in Keys /\ f[t] = f[s] => t = s

Chained(f, c) ==
  \A s \in Slots(c) : f[s] \in Keys => Clear(f, c, Home(f[s], c), s, {EMPTY})

Table(f, g, c) == Typed(f, g, c) /\ Distinct(f, c) /\ Chained(f, c)

Absent(f, c, k) == \A s \in Slots(c) : f[s] # k

\* The slots below n that hold a key.
Used(f, n) == {s \in Slots(n) : f[s] \in Keys}

\* Contents, of any table.
Stored(f, g, c) ==
  [k \in Keys |-> IF \E s \in Slots(c) : f[s] = k
                  THEN g[CHOOSE s \in Slots(c) : f[s] = k]
                  ELSE NULL]

Grown(c) == IF c = 0 THEN INITIAL_CAPACITY ELSE c * 2

\* The table f, g has the entries of the first n slots of f0, g0.
Copied(f, g, c, f0, g0, n) ==
  /\ \A s \in Slots(n) :
       f0[s] \in Keys => \E t \in Slots(c) : f[t] = f0[s] /\ g[t] = g0[s]
  /\ \A t \in Slots(c) : f[t] \in Keys => \E s \in Slots(n) : f0[s] = f[t]
  /\ Cardinality(Used(f, c)) = Cardinality(Used(f0, n))

Calls ==
  /\ pc = "idle" => op = Map!Idle
  /\ pc # "idle" => op \in Map!Operations
  /\ pc = "rehash" => op.name = "insert"

Finding ==
  pc = "find" =>
    /\ op.name = "insert" => capacity # 0
    /\ capacity # 0 => /\ idx \in Slots(capacity)
                       /\ Clear(keyAt, capacity, Home(op.key, capacity), idx,
                                {EMPTY, op.key})

Rehashing ==
  pc = "rehash" =>
    /\ idx \in 0 .. capacity
    /\ Table(newKeyAt, newValueAt, Grown(capacity))
    /\ Absent(newKeyAt, Grown(capacity), TOMBSTONE)
    /\ Copied(newKeyAt, newValueAt, Grown(capacity), keyAt, valueAt, idx)

Inv ==
  /\ capacity \in Nat /\ idx \in Nat /\ pc \in {"idle", "rehash", "find"}
  /\ Table(keyAt, valueAt, capacity)
  /\ count = Cardinality(Used(keyAt, capacity))
  /\ Calls /\ Finding /\ Rehashing

-----------------------------------------------------------------------------
(* Facts about numbers and the ring of slots.                              *)

\* A non-empty set of naturals has a least element.
LEMMA Least ==
  ASSUME NEW T, T \subseteq Nat, T # {}
  PROVE  \E x \in T : \A y \in T : x <= y
<1>1. PICK x \in T : \A y \in T : ~ (<<y, x>> \in OpToRel(<, Nat))
  BY WFMin, NatLessThanWellFounded
<1>2. \A y \in T : ~ (y < x)
  BY <1>1 DEF OpToRel
<1> QED BY <1>2

\* The home of a key is a slot.
LEMMA HomeIsSlot ==
  ASSUME NEW k \in Keys, NEW c \in Nat \ {0}
  PROVE  Home(k, c) \in Slots(c)
<1>1. Hash[k] \in Nat
  BY TableAssumption
<1> QED BY <1>1 DEF Home, Slots

\* The distances from a slot number the slots.
LEMMA Ring ==
  ASSUME NEW c \in Nat \ {0}, NEW h \in Slots(c), NEW s \in Slots(c)
  PROVE  /\ Distance(h, s, c) \in 0 .. (c - 1)
         /\ Step(h, Distance(h, s, c), c) = s
         /\ \A d \in 0 .. (c - 1) : /\ Step(h, d, c) \in Slots(c)
                                    /\ Distance(h, Step(h, d, c), c) = d
BY DEF Distance, Step, Slots

\* Two slots as far from h as each other are the same.
LEMMA RingOrder ==
  ASSUME NEW c \in Nat \ {0}, NEW h \in Slots(c),
         NEW s \in Slots(c), NEW t \in Slots(c)
  PROVE  Distance(h, s, c) = Distance(h, t, c) => s = t
BY DEF Distance, Slots

\* The next slot is one further, or is h again.
LEMMA RingNext ==
  ASSUME NEW c \in Nat \ {0}, NEW h \in Slots(c), NEW s \in Slots(c)
  PROVE  /\ Step(s, 1, c) \in Slots(c)
         /\ \/ Distance(h, Step(s, 1, c), c) = Distance(h, s, c) + 1
            \/ Distance(h, Step(s, 1, c), c) = 0
BY DEF Distance, Step, Slots

\* The slots passed on the way to s are the nearer ones.
LEMMA ClearBySteps ==
  ASSUME NEW c \in Nat \ {0}, NEW h \in Slots(c), NEW s \in Slots(c), NEW f, NEW S
  PROVE  Clear(f, c, h, s, S)
           <=> \A d \in 0 .. (Distance(h, s, c) - 1) : f[Step(h, d, c)] \notin S
<1>1. Distance(h, s, c) \in 0 .. (c - 1)
  BY Ring
<1>2. ASSUME Clear(f, c, h, s, S), NEW d \in 0 .. (Distance(h, s, c) - 1)
      PROVE  f[Step(h, d, c)] \notin S
  <2>1. d \in 0 .. (c - 1) /\ d < Distance(h, s, c)
    BY <1>1
  <2>2. Step(h, d, c) \in Slots(c) /\ Distance(h, Step(h, d, c), c) = d
    BY <2>1, Ring
  <2> QED BY <1>2, <2>1, <2>2 DEF Clear
<1>3. ASSUME \A d \in 0 .. (Distance(h, s, c) - 1) : f[Step(h, d, c)] \notin S,
             NEW t \in Slots(c), Distance(h, t, c) < Distance(h, s, c)
      PROVE  f[t] \notin S
  <2>1. /\ Distance(h, t, c) \in 0 .. (c - 1)
        /\ Step(h, Distance(h, t, c), c) = t
    BY Ring
  <2>2. Distance(h, t, c) \in 0 .. (Distance(h, s, c) - 1)
    BY <1>1, <1>3, <2>1
  <2> QED BY <1>3, <2>1, <2>2
<1> QED BY <1>2, <1>3 DEF Clear

\* The search for a slot with a key in S ends at the nearest, if there is one.
LEMMA FirstFromIs ==
  ASSUME NEW c \in Nat \ {0}, NEW h \in Slots(c), NEW f, NEW S,
         \E s \in Slots(c) : f[s] \in S
  PROVE  /\ FirstFrom(h, c, f, S) \in Slots(c)
         /\ f[FirstFrom(h, c, f, S)] \in S
         /\ Clear(f, c, h, FirstFrom(h, c, f, S), S)
<1>. DEFINE D == {Distance(h, s, c) : s \in {t \in Slots(c) : f[t] \in S}}
            First(s) == /\ f[s] \in S
                        /\ \A d \in 0 .. (Distance(h, s, c) - 1) :
                             f[Step(h, d, c)] \notin S
<1>1. D \subseteq Nat /\ D # {}
  <2>1. \A s \in Slots(c) : Distance(h, s, c) \in 0 .. (c - 1)
    BY Ring
  <2>2. \A s \in Slots(c) : Distance(h, s, c) \in Nat
    BY <2>1
  <2> QED BY <2>2
<1>2. \E x \in D : \A y \in D : x <= y
  <2>. HIDE DEF D
  <2> QED BY <1>1, Least
<1>3. PICK s \in Slots(c) :
        f[s] \in S /\ \A t \in Slots(c) : f[t] \in S => Distance(h, s, c) <= Distance(h, t, c)
  BY <1>2
<1>4. Clear(f, c, h, s, S)
  <2> SUFFICES ASSUME NEW t \in Slots(c), Distance(h, t, c) < Distance(h, s, c)
               PROVE  f[t] \notin S
    BY DEF Clear
  <2>1. Distance(h, t, c) \in Int /\ Distance(h, s, c) \in Int
    BY Ring
  <2> QED BY <1>3, <2>1
<1>5. First(s)
  BY <1>3, <1>4, ClearBySteps
<1>6. FirstFrom(h, c, f, S) = CHOOSE x \in Slots(c) : First(x)
  BY DEF FirstFrom
<1>7. FirstFrom(h, c, f, S) \in Slots(c) /\ First(FirstFrom(h, c, f, S))
  <2>. HIDE DEF First
  <2> QED BY <1>5, <1>6
<1> QED BY <1>7, ClearBySteps

-----------------------------------------------------------------------------
(* Facts about tables.                                                     *)

\* A search that ends at an empty slot has shown that the key is not there.
LEMMA MissIsAbsent ==
  ASSUME NEW c \in Nat \ {0}, NEW f, Chained(f, c), NEW k \in Keys,
         NEW i \in Slots(c), f[i] = EMPTY,
         Clear(f, c, Home(k, c), i, {EMPTY, k})
  PROVE  Absent(f, c, k)
<1> SUFFICES ASSUME NEW s \in Slots(c), f[s] = k
             PROVE  FALSE
  BY DEF Absent
<1>. DEFINE h == Home(k, c)
<1>1. h \in Slots(c)
  BY HomeIsSlot
<1>2. Distance(h, s, c) \in Int /\ Distance(h, i, c) \in Int
  BY <1>1, Ring
<1>3. ~ (Distance(h, i, c) < Distance(h, s, c))
  BY DEF Chained, Clear
<1>4. ~ (Distance(h, s, c) < Distance(h, i, c))
  BY DEF Clear
<1>5. i = s
  <2>1. Distance(h, s, c) = Distance(h, i, c)
    BY <1>2, <1>3, <1>4
  <2>. HIDE DEF h
  <2> QED BY <1>1, <2>1, RingOrder
<1> QED BY <1>5, TableAssumption

\* A new key may go to any slot that holds none, when the search for it
\* passes no empty slot before.
LEMMA PutKeepsTable ==
  ASSUME NEW c \in Nat \ {0}, NEW f, NEW g, Table(f, g, c),
         NEW k \in Keys, Absent(f, c, k), NEW v \in Values,
         NEW s \in Slots(c), Clear(f, c, Home(k, c), s, {EMPTY})
  PROVE  Table([f EXCEPT ![s] = k], [g EXCEPT ![s] = v], c)
<1>. DEFINE f1 == [f EXCEPT ![s] = k]
            g1 == [g EXCEPT ![s] = v]
<1>1. Typed(f, g, c) /\ Distinct(f, c) /\ Chained(f, c)
  BY DEF Table
<1>2. \A t \in Slots(c) : f1[t] = (IF t = s THEN k ELSE f[t])
  BY <1>1 DEF Typed
<1>3. \A t \in Slots(c) : g1[t] = (IF t = s THEN v ELSE g[t])
  BY <1>1 DEF Typed
<1>4. f1 \in [Slots(c) -> Keys \cup {EMPTY, TOMBSTONE}]
  BY <1>1 DEF Typed
<1>5. g1 \in [Slots(c) -> Values \cup {NULL}]
  BY <1>1 DEF Typed
<1>. HIDE DEF f1, g1
<1>6. Typed(f1, g1, c)
  BY <1>1, <1>2, <1>3, <1>4, <1>5 DEF Typed
<1>7. Distinct(f1, c)
  BY <1>1, <1>2 DEF Distinct, Absent
<1>8. k # EMPTY
  BY TableAssumption
<1>9. ASSUME NEW t \in Slots(c), f1[t] \in Keys
      PROVE  Clear(f1, c, Home(f1[t], c), t, {EMPTY})
  <2>1. CASE t = s
    BY <1>2, <1>8, <2>1 DEF Clear
  <2>2. CASE t # s
    <3>1. f1[t] = f[t] /\ Clear(f, c, Home(f[t], c), t, {EMPTY})
      BY <1>1, <1>2, <1>9, <2>2 DEF Chained
    <3> QED BY <1>2, <1>8, <3>1 DEF Clear
  <2> QED BY <2>1, <2>2
<1>10. Chained(f1, c)
  BY <1>9 DEF Chained
<1> QED BY <1>6, <1>7, <1>10 DEF Table, f1, g1

\* A removed key leaves a tombstone, which no search stops at.
LEMMA DropKeepsTable ==
  ASSUME NEW c \in Nat \ {0}, NEW f, NEW g, Table(f, g, c), NEW s \in Slots(c)
  PROVE  Table([f EXCEPT ![s] = TOMBSTONE], [g EXCEPT ![s] = NULL], c)
<1>. DEFINE f1 == [f EXCEPT ![s] = TOMBSTONE]
            g1 == [g EXCEPT ![s] = NULL]
<1>1. Typed(f, g, c) /\ Distinct(f, c) /\ Chained(f, c)
  BY DEF Table
<1>2. \A t \in Slots(c) : f1[t] = (IF t = s THEN TOMBSTONE ELSE f[t])
  BY <1>1 DEF Typed
<1>3. \A t \in Slots(c) : g1[t] = (IF t = s THEN NULL ELSE g[t])
  BY <1>1 DEF Typed
<1>4. f1 \in [Slots(c) -> Keys \cup {EMPTY, TOMBSTONE}]
  BY <1>1 DEF Typed
<1>5. g1 \in [Slots(c) -> Values \cup {NULL}]
  BY <1>1 DEF Typed
<1>6. TOMBSTONE \notin Keys /\ TOMBSTONE # EMPTY
  BY TableAssumption
<1>. HIDE DEF f1, g1
<1>7. Typed(f1, g1, c)
  BY <1>1, <1>2, <1>3, <1>4, <1>5, <1>6 DEF Typed
<1>8. Distinct(f1, c)
  BY <1>1, <1>2, <1>6 DEF Distinct
<1>9. ASSUME NEW t \in Slots(c), f1[t] \in Keys
      PROVE  Clear(f1, c, Home(f1[t], c), t, {EMPTY})
  <2>1. f1[t] = f[t] /\ Clear(f, c, Home(f[t], c), t, {EMPTY})
    BY <1>1, <1>2, <1>6, <1>9 DEF Chained
  <2> QED BY <1>2, <1>6, <2>1 DEF Clear
<1>10. Chained(f1, c)
  BY <1>9 DEF Chained
<1> QED BY <1>7, <1>8, <1>10 DEF Table, f1, g1

\* A value may be stored over any other.
LEMMA StoreKeepsTable ==
  ASSUME NEW c \in Nat, NEW f, NEW g, Table(f, g, c),
         NEW s \in Slots(c), NEW v \in Values
  PROVE  Table(f, [g EXCEPT ![s] = v], c)
<1>1. Typed(f, g, c) /\ Distinct(f, c) /\ Chained(f, c)
  BY DEF Table
<1>2. Typed(f, [g EXCEPT ![s] = v], c)
  BY <1>1 DEF Typed
<1> QED BY <1>1, <1>2 DEF Table

\* A table of empty slots.
LEMMA EmptyTable ==
  ASSUME NEW c \in Nat
  PROVE  /\ Table([s \in Slots(c) |-> EMPTY], [s \in Slots(c) |-> NULL], c)
         /\ Absent([s \in Slots(c) |-> EMPTY], c, TOMBSTONE)
         /\ Used([s \in Slots(c) |-> EMPTY], c) = {}
BY TableAssumption DEF Table, Typed, Distinct, Chained, Absent, Used

-----------------------------------------------------------------------------
(* How many keys a table has.                                              *)

\* The used slots are finitely many, and at most all of them.
LEMMA UsedFinite ==
  ASSUME NEW f, NEW n \in Nat
  PROVE  /\ IsFiniteSet(Used(f, n))
         /\ Cardinality(Used(f, n)) \in Nat
         /\ Cardinality(Used(f, n)) <= n
<1>1. IsFiniteSet(Slots(n)) /\ Cardinality(Slots(n)) = n
  <2>1. /\ IsFiniteSet(0 .. (n - 1))
        /\ Cardinality(0 .. (n - 1)) = IF 0 > n - 1 THEN 0 ELSE (n - 1) - 0 + 1
    BY FS_Interval
  <2> QED BY <2>1 DEF Slots
<1>2. Used(f, n) \in SUBSET Slots(n)
  BY DEF Used
<1>3. IsFiniteSet(Used(f, n)) /\ Cardinality(Used(f, n)) <= Cardinality(Slots(n))
  BY <1>1, <1>2, FS_Subset
<1> QED BY <1>1, <1>3, FS_CardinalityType

\* A key put in a slot that held none counts one.
LEMMA PutCounts ==
  ASSUME NEW f, NEW n \in Nat, NEW s \in Slots(n), NEW k \in Keys, NEW S,
         f \in [Slots(n) -> S], f[s] \notin Keys
  PROVE  Cardinality(Used([f EXCEPT ![s] = k], n)) = Cardinality(Used(f, n)) + 1
<1>1. Used([f EXCEPT ![s] = k], n) = Used(f, n) \cup {s}
  BY DEF Used
<1>2. s \notin Used(f, n)
  BY DEF Used
<1> QED BY <1>1, <1>2, UsedFinite, FS_AddElement

\* A tombstone in place of a key takes one off.
LEMMA DropCounts ==
  ASSUME NEW f, NEW n \in Nat, NEW s \in Slots(n), NEW S,
         f \in [Slots(n) -> S], f[s] \in Keys
  PROVE  Cardinality(Used([f EXCEPT ![s] = TOMBSTONE], n))
           = Cardinality(Used(f, n)) - 1
<1>1. Used([f EXCEPT ![s] = TOMBSTONE], n) = Used(f, n) \ {s}
  BY TableAssumption DEF Used
<1>2. s \in Used(f, n)
  BY DEF Used
<1>3. Cardinality(Used(f, n) \ {s}) = Cardinality(Used(f, n)) - 1
  BY <1>2, UsedFinite, FS_RemoveElement
<1> QED BY <1>1, <1>3

\* One more slot is one more key, if it holds one.
LEMMA NextCounts ==
  ASSUME NEW f, NEW n \in Nat
  PROVE  Cardinality(Used(f, n + 1))
           = Cardinality(Used(f, n)) + (IF f[n] \in Keys THEN 1 ELSE 0)
<1>1. Slots(n + 1) = Slots(n) \cup {n} /\ n \notin Slots(n)
  BY DEF Slots
<1>2. CASE f[n] \in Keys
  <2>1. Used(f, n + 1) = Used(f, n) \cup {n} /\ n \notin Used(f, n)
    BY <1>1, <1>2 DEF Used
  <2>2. Cardinality(Used(f, n) \cup {n}) = Cardinality(Used(f, n)) + 1
    BY <2>1, UsedFinite, FS_AddElement
  <2> QED BY <1>2, <2>1, <2>2
<1>3. CASE f[n] \notin Keys
  <2>1. Used(f, n + 1) = Used(f, n)
    BY <1>1, <1>3 DEF Used
  <2> QED BY <1>3, <2>1, UsedFinite
<1> QED BY <1>2, <1>3

\* A table with fewer keys than slots, and no tombstones, has an empty slot.
LEMMA RoomLeft ==
  ASSUME NEW c \in Nat, NEW f, NEW g, Table(f, g, c), Absent(f, c, TOMBSTONE),
         Cardinality(Used(f, c)) < c
  PROVE  \E s \in Slots(c) : f[s] \in {EMPTY}
<1> SUFFICES ASSUME \A s \in Slots(c) : f[s] # EMPTY
             PROVE  FALSE
  OBVIOUS
<1>1. Used(f, c) = 0 .. (c - 1)
  BY DEF Used, Table, Typed, Absent, Slots
<1>2. Cardinality(0 .. (c - 1)) = IF 0 > c - 1 THEN 0 ELSE (c - 1) - 0 + 1
  BY FS_Interval
<1> QED BY <1>1, <1>2

-----------------------------------------------------------------------------
(* What a table stores.                                                    *)

\* The value of a key that is there, and of one that is not.
LEMMA StoredAt ==
  ASSUME NEW c, NEW f, NEW g, Distinct(f, c), NEW k \in Keys
  PROVE  /\ \A s \in Slots(c) : f[s] = k => Stored(f, g, c)[k] = g[s]
         /\ Absent(f, c, k) => Stored(f, g, c)[k] = NULL
<1>1. ASSUME NEW s \in Slots(c), f[s] = k
      PROVE  Stored(f, g, c)[k] = g[s]
  <2>1. \A t \in Slots(c) : f[t] = k => t = s
    BY <1>1 DEF Distinct
  <2>2. s = CHOOSE t \in Slots(c) : f[t] = k
    BY <1>1, <2>1
  <2>3. Stored(f, g, c)[k] = g[CHOOSE t \in Slots(c) : f[t] = k]
    BY <1>1 DEF Stored
  <2> QED BY <2>2, <2>3
<1>2. ASSUME Absent(f, c, k)
      PROVE  Stored(f, g, c)[k] = NULL
  BY <1>2 DEF Stored, Absent
<1> QED BY <1>1, <1>2

\* A map that agrees with the table on each key is what it stores.
LEMMA StoredIs ==
  ASSUME NEW c, NEW f, NEW g, Distinct(f, c),
         NEW m \in [Keys -> Values \cup {NULL}],
         \A k \in Keys : \/ \E s \in Slots(c) : f[s] = k /\ m[k] = g[s]
                         \/ Absent(f, c, k) /\ m[k] = NULL
  PROVE  Stored(f, g, c) = m
<1>1. \A k \in Keys : Stored(f, g, c)[k] = m[k]
  BY StoredAt
<1>2. Stored(f, g, c) = [k \in Keys |-> Stored(f, g, c)[k]]
  BY DEF Stored
<1>3. m = [k \in Keys |-> m[k]]
  OBVIOUS
<1> QED BY <1>1, <1>2, <1>3

\* Each key is in a slot, or in none.
LEMMA StoredCases ==
  ASSUME NEW c, NEW f, NEW g, Typed(f, g, c), Distinct(f, c)
  PROVE  /\ Stored(f, g, c) \in [Keys -> Values \cup {NULL}]
         /\ \A k \in Keys :
              \/ \E s \in Slots(c) : f[s] = k /\ Stored(f, g, c)[k] = g[s]
              \/ Absent(f, c, k) /\ Stored(f, g, c)[k] = NULL
<1>1. \A k \in Keys :
        \/ \E s \in Slots(c) : f[s] = k /\ Stored(f, g, c)[k] = g[s]
        \/ Absent(f, c, k) /\ Stored(f, g, c)[k] = NULL
  BY StoredAt DEF Absent
<1>2. \A s \in Slots(c) : g[s] \in Values \cup {NULL}
  BY DEF Typed
<1>3. \A k \in Keys : Stored(f, g, c)[k] \in Values \cup {NULL}
  BY <1>1, <1>2
<1>4. Stored(f, g, c) = [k \in Keys |-> Stored(f, g, c)[k]]
  BY DEF Stored
<1> QED BY <1>1, <1>3, <1>4

\* Putting a new key in a slot gives it its value.
LEMMA PutStores ==
  ASSUME NEW c \in Nat \ {0}, NEW f, NEW g, Table(f, g, c),
         NEW k \in Keys, Absent(f, c, k), NEW v \in Values,
         NEW s \in Slots(c), f[s] \notin Keys, Clear(f, c, Home(k, c), s, {EMPTY})
  PROVE  Stored([f EXCEPT ![s] = k], [g EXCEPT ![s] = v], c)
           = [Stored(f, g, c) EXCEPT ![k] = v]
<1>. DEFINE f1 == [f EXCEPT ![s] = k]
            g1 == [g EXCEPT ![s] = v]
            m == Stored(f, g, c)
            m1 == [m EXCEPT ![k] = v]
<1>1. Typed(f, g, c) /\ Distinct(f, c)
  BY DEF Table
<1>2. \A t \in Slots(c) : f1[t] = (IF t = s THEN k ELSE f[t])
  BY <1>1 DEF Typed
<1>3. \A t \in Slots(c) : g1[t] = (IF t = s THEN v ELSE g[t])
  BY <1>1 DEF Typed
<1>4. Distinct(f1, c)
  BY PutKeepsTable DEF Table
<1>5. /\ m \in [Keys -> Values \cup {NULL}]
      /\ \A j \in Keys : \/ \E t \in Slots(c) : f[t] = j /\ m[j] = g[t]
                         \/ Absent(f, c, j) /\ m[j] = NULL
  BY <1>1, StoredCases
<1>6. m1 \in [Keys -> Values \cup {NULL}]
  BY <1>5
<1>7. \A j \in Keys : m1[j] = (IF j = k THEN v ELSE m[j])
  BY <1>5
<1>. HIDE DEF f1, g1, m, m1
<1>8. ASSUME NEW j \in Keys
      PROVE  \/ \E t \in Slots(c) : f1[t] = j /\ m1[j] = g1[t]
             \/ Absent(f1, c, j) /\ m1[j] = NULL
  <2>1. CASE j = k
    BY <1>2, <1>3, <1>7, <2>1
  <2>2. CASE j # k
    <3>1. m1[j] = m[j]
      BY <1>7, <2>2
    <3>2. ASSUME NEW t \in Slots(c), f[t] = j, m[j] = g[t]
          PROVE  f1[t] = j /\ m1[j] = g1[t]
      BY <1>2, <1>3, <3>1, <3>2
    <3>3. Absent(f, c, j) => Absent(f1, c, j)
      BY <1>2, <2>2 DEF Absent
    <3> QED BY <1>5, <3>1, <3>2, <3>3
  <2> QED BY <2>1, <2>2
<1>9. Stored(f1, g1, c) = m1
  BY <1>4, <1>6, <1>8, StoredIs
<1> QED BY <1>9 DEF f1, g1, m, m1

\* Storing over the value of a key changes that key's value.
LEMMA UpdateStores ==
  ASSUME NEW c \in Nat, NEW f, NEW g, Table(f, g, c), NEW v \in Values,
         NEW s \in Slots(c), f[s] \in Keys
  PROVE  Stored(f, [g EXCEPT ![s] = v], c) = [Stored(f, g, c) EXCEPT ![f[s]] = v]
<1>. DEFINE g1 == [g EXCEPT ![s] = v]
            m == Stored(f, g, c)
            m1 == [m EXCEPT ![f[s]] = v]
<1>1. Typed(f, g, c) /\ Distinct(f, c)
  BY DEF Table
<1>2. \A t \in Slots(c) : g1[t] = (IF t = s THEN v ELSE g[t])
  BY <1>1 DEF Typed
<1>3. /\ m \in [Keys -> Values \cup {NULL}]
      /\ \A j \in Keys : \/ \E t \in Slots(c) : f[t] = j /\ m[j] = g[t]
                         \/ Absent(f, c, j) /\ m[j] = NULL
  BY <1>1, StoredCases
<1>4. m1 \in [Keys -> Values \cup {NULL}]
  BY <1>3
<1>5. \A j \in Keys : m1[j] = (IF j = f[s] THEN v ELSE m[j])
  BY <1>3
<1>. HIDE DEF g1, m, m1
<1>6. ASSUME NEW j \in Keys
      PROVE  \/ \E t \in Slots(c) : f[t] = j /\ m1[j] = g1[t]
             \/ Absent(f, c, j) /\ m1[j] = NULL
  <2>1. CASE j = f[s]
    BY <1>2, <1>5, <2>1
  <2>2. CASE j # f[s]
    BY <1>2, <1>3, <1>5, <2>2
  <2> QED BY <2>1, <2>2
<1>7. Stored(f, g1, c) = m1
  BY <1>1, <1>4, <1>6, StoredIs
<1> QED BY <1>7 DEF g1, m, m1

\* A tombstone in the place of a key takes its value away.
LEMMA DropStores ==
  ASSUME NEW c \in Nat \ {0}, NEW f, NEW g, Table(f, g, c),
         NEW s \in Slots(c), f[s] \in Keys
  PROVE  Stored([f EXCEPT ![s] = TOMBSTONE], [g EXCEPT ![s] = NULL], c)
           = [Stored(f, g, c) EXCEPT ![f[s]] = NULL]
<1>. DEFINE f1 == [f EXCEPT ![s] = TOMBSTONE]
            g1 == [g EXCEPT ![s] = NULL]
            m == Stored(f, g, c)
            m1 == [m EXCEPT ![f[s]] = NULL]
<1>1. Typed(f, g, c) /\ Distinct(f, c)
  BY DEF Table
<1>2. \A t \in Slots(c) : f1[t] = (IF t = s THEN TOMBSTONE ELSE f[t])
  BY <1>1 DEF Typed
<1>3. \A t \in Slots(c) : g1[t] = (IF t = s THEN NULL ELSE g[t])
  BY <1>1 DEF Typed
<1>4. Distinct(f1, c)
  BY DropKeepsTable DEF Table
<1>5. /\ m \in [Keys -> Values \cup {NULL}]
      /\ \A j \in Keys : \/ \E t \in Slots(c) : f[t] = j /\ m[j] = g[t]
                         \/ Absent(f, c, j) /\ m[j] = NULL
  BY <1>1, StoredCases
<1>6. m1 \in [Keys -> Values \cup {NULL}]
  BY <1>5
<1>7. \A j \in Keys : m1[j] = (IF j = f[s] THEN NULL ELSE m[j])
  BY <1>5
<1>8. TOMBSTONE \notin Keys
  BY TableAssumption
<1>. HIDE DEF f1, g1, m, m1
<1>9. ASSUME NEW j \in Keys
      PROVE  \/ \E t \in Slots(c) : f1[t] = j /\ m1[j] = g1[t]
             \/ Absent(f1, c, j) /\ m1[j] = NULL
  <2>1. CASE j = f[s]
    <3>1. \A t \in Slots(c) : f[t] = j => t = s
      BY <1>1, <2>1 DEF Distinct
    <3>2. Absent(f1, c, j)
      BY <1>2, <1>8, <3>1 DEF Absent
    <3> QED BY <1>7, <2>1, <3>2
  <2>2. CASE j # f[s]
    <3>1. m1[j] = m[j]
      BY <1>7, <2>2
    <3>2. ASSUME NEW t \in Slots(c), f[t] = j, m[j] = g[t]
          PROVE  f1[t] = j /\ m1[j] = g1[t]
      BY <1>2, <1>3, <2>2, <3>1, <3>2
    <3>3. Absent(f, c, j) => Absent(f1, c, j)
      BY <1>2, <1>8 DEF Absent
    <3> QED BY <1>5, <3>1, <3>2, <3>3
  <2> QED BY <2>1, <2>2
<1>10. Stored(f1, g1, c) = m1
  BY <1>4, <1>6, <1>9, StoredIs
<1> QED BY <1>10 DEF f1, g1, m, m1

-----------------------------------------------------------------------------
(* The rehash.                                                             *)

\* A key that is still to be copied is not in the new table yet.
LEMMA CopyIsNew ==
  ASSUME NEW c, NEW f, NEW g, NEW f0, NEW g0, NEW c0 \in Nat, Distinct(f0, c0),
         NEW n \in Slots(c0), f0[n] \in Keys, Copied(f, g, c, f0, g0, n)
  PROVE  Absent(f, c, f0[n])
<1> SUFFICES ASSUME NEW t \in Slots(c), f[t] = f0[n]
             PROVE  FALSE
  BY DEF Absent
<1>1. PICK s \in Slots(n) : f0[s] = f[t]
  BY DEF Copied
<1>2. s \in Slots(c0) /\ s # n
  BY DEF Slots
<1> QED BY <1>1, <1>2 DEF Distinct

\* A slot with no key in it is passed over.
LEMMA CopySkips ==
  ASSUME NEW c, NEW f, NEW g, NEW f0, NEW g0, NEW n \in Nat, f0[n] \notin Keys,
         Copied(f, g, c, f0, g0, n)
  PROVE  Copied(f, g, c, f0, g0, n + 1)
<1>1. Slots(n + 1) = Slots(n) \cup {n}
  BY DEF Slots
<1>2. Cardinality(Used(f0, n + 1)) = Cardinality(Used(f0, n))
  <2>1. Cardinality(Used(f0, n)) \in Nat
    BY UsedFinite
  <2> QED BY <2>1, NextCounts
<1> QED BY <1>1, <1>2 DEF Copied

\* A key is copied with its value to a slot that was empty.
LEMMA CopyTakes ==
  ASSUME NEW c \in Nat, NEW f, NEW g, Typed(f, g, c), NEW f0, NEW g0, NEW n \in Nat,
         f0[n] \in Keys, NEW s \in Slots(c), f[s] = EMPTY,
         Copied(f, g, c, f0, g0, n)
  PROVE  Copied([f EXCEPT ![s] = f0[n]], [g EXCEPT ![s] = g0[n]], c, f0, g0, n + 1)
<1>. DEFINE f1 == [f EXCEPT ![s] = f0[n]]
            g1 == [g EXCEPT ![s] = g0[n]]
<1>1. Slots(n + 1) = Slots(n) \cup {n}
  BY DEF Slots
<1>2. \A t \in Slots(c) : f1[t] = (IF t = s THEN f0[n] ELSE f[t])
  BY DEF Typed
<1>3. \A t \in Slots(c) : g1[t] = (IF t = s THEN g0[n] ELSE g[t])
  BY DEF Typed
<1>4. EMPTY \notin Keys
  BY TableAssumption
<1>5. Cardinality(Used(f1, c)) = Cardinality(Used(f, c)) + 1
  BY <1>4, PutCounts DEF Typed
<1>6. Cardinality(Used(f0, n + 1)) = Cardinality(Used(f0, n)) + 1
  BY NextCounts
<1>7. Cardinality(Used(f1, c)) = Cardinality(Used(f0, n + 1))
  BY <1>5, <1>6 DEF Copied
<1>. HIDE DEF f1, g1
<1>8. ASSUME NEW i \in Slots(n + 1), f0[i] \in Keys
      PROVE  \E t \in Slots(c) : f1[t] = f0[i] /\ g1[t] = g0[i]
  <2>1. CASE i = n
    BY <1>2, <1>3, <2>1
  <2>2. CASE i # n
    <3>1. PICK t \in Slots(c) : f[t] = f0[i] /\ g[t] = g0[i]
      BY <1>1, <1>8, <2>2 DEF Copied
    <3>2. t # s
      BY <1>4, <1>8, <3>1
    <3> QED BY <1>2, <1>3, <3>1, <3>2
  <2> QED BY <2>1, <2>2
<1>9. ASSUME NEW t \in Slots(c), f1[t] \in Keys
      PROVE  \E i \in Slots(n + 1) : f0[i] = f1[t]
  <2>1. CASE t = s
    BY <1>1, <1>2, <2>1
  <2>2. CASE t # s
    BY <1>1, <1>2, <1>9, <2>2 DEF Copied
  <2> QED BY <2>1, <2>2
<1> QED BY <1>7, <1>8, <1>9 DEF Copied, f1, g1

\* When every slot is copied the new table stores what the old one did.
LEMMA CopyStores ==
  ASSUME NEW c, NEW f, NEW g, NEW f0, NEW g0, NEW c0,
         Table(f, g, c), Table(f0, g0, c0), Copied(f, g, c, f0, g0, c0)
  PROVE  Stored(f, g, c) = Stored(f0, g0, c0)
<1>. DEFINE m == Stored(f0, g0, c0)
<1>1. Typed(f0, g0, c0) /\ Distinct(f0, c0) /\ Distinct(f, c)
  BY DEF Table
<1>2. /\ m \in [Keys -> Values \cup {NULL}]
      /\ \A j \in Keys : \/ \E t \in Slots(c0) : f0[t] = j /\ m[j] = g0[t]
                         \/ Absent(f0, c0, j) /\ m[j] = NULL
  BY <1>1, StoredCases
<1>. HIDE DEF m
<1>3. ASSUME NEW j \in Keys
      PROVE  \/ \E t \in Slots(c) : f[t] = j /\ m[j] = g[t]
             \/ Absent(f, c, j) /\ m[j] = NULL
  <2>1. Absent(f0, c0, j) => Absent(f, c, j)
    BY DEF Copied, Absent
  <2>2. ASSUME NEW t \in Slots(c0), f0[t] = j, m[j] = g0[t]
        PROVE  \E i \in Slots(c) : f[i] = j /\ m[j] = g[i]
    BY <2>2 DEF Copied
  <2> QED BY <1>2, <2>1, <2>2
<1>4. Stored(f, g, c) = m
  BY <1>1, <1>2, <1>3, StoredIs
<1> QED BY <1>4 DEF m

-----------------------------------------------------------------------------
(* The invariant holds at first and is kept by every action.               *)

\* A resized table has at least one slot, and more than it had.
LEMMA GrownIsMore ==
  ASSUME NEW c \in Nat
  PROVE  Grown(c) \in Nat \ {0} /\ c < Grown(c)
BY TableAssumption DEF Grown

\* The fields of a call.
LEMMA CallFields ==
  ASSUME NEW o \in Map!Operations
  PROVE  /\ o.name \in {"insert", "lookup", "remove"} /\ o.name \in OPS
         /\ o.key \in Keys
         /\ o.name = "insert" => o.value \in Values
BY TableAssumption DEF Map!Operations

\* Nothing is passed before the home of a key.
LEMMA ClearAtHome ==
  ASSUME NEW c \in Nat \ {0}, NEW h \in Slots(c), NEW f, NEW S
  PROVE  Clear(f, c, h, h, S)
<1>1. Distance(h, h, c) = 0
  BY DEF Distance, Slots
<1>2. \A t \in Slots(c) : Distance(h, t, c) \in 0 .. (c - 1)
  BY Ring
<1> QED BY <1>1, <1>2 DEF Clear

\* A search that starts at the home of a key is where it should be.
LEMMA StartsFinding ==
  ASSUME NEW c \in Nat \ {0}, NEW f, NEW k \in Keys
  PROVE  /\ Home(k, c) \in Slots(c)
         /\ Home(k, c) \in Nat
         /\ Clear(f, c, Home(k, c), Home(k, c), {EMPTY, k})
<1>1. Home(k, c) \in Slots(c)
  BY HomeIsSlot
<1>2. Home(k, c) \in Nat
  BY <1>1 DEF Slots
<1> QED BY <1>1, <1>2, ClearAtHome

\* The new table is at first empty, a copy of nothing.
LEMMA StartsRehash ==
  ASSUME NEW c \in Nat, NEW f0, NEW g0
  PROVE  Copied([s \in Slots(c) |-> EMPTY], [s \in Slots(c) |-> NULL], c, f0, g0, 0)
<1>1. Slots(0) = {}
  BY DEF Slots
<1>2. Used(f0, 0) = {} /\ Used([s \in Slots(c) |-> EMPTY], c) = {}
  BY <1>1, EmptyTable DEF Used
<1> QED BY <1>1, <1>2, TableAssumption DEF Copied

LEMMA InitInv == Init => Inv
<1> SUFFICES ASSUME Init PROVE Inv
  OBVIOUS
<1>1. Slots(0) = {}
  BY DEF Slots
<1>2. << >> \in [{} -> {}]
  OBVIOUS
<1>3. Table(keyAt, valueAt, capacity)
  <2>1. keyAt = << >> /\ valueAt = << >> /\ capacity = 0
    BY DEF Init
  <2>2. Typed(keyAt, valueAt, capacity)
    BY <1>1, <1>2, <2>1 DEF Typed
  <2> QED BY <1>1, <2>1, <2>2 DEF Table, Distinct, Chained
<1>4. Used(keyAt, 0) = {}
  BY <1>1 DEF Used
<1>5. count = Cardinality(Used(keyAt, capacity))
  BY <1>4, FS_EmptySet DEF Init
<1> QED BY <1>3, <1>5 DEF Init, Inv, Calls, Finding, Rehashing

LEMMA InsertKeeps ==
  ASSUME Inv, NEW k \in Keys, NEW v \in Values, Insert(k, v)
  PROVE  Inv'
<1>1. /\ capacity \in Nat /\ Table(keyAt, valueAt, capacity)
      /\ count = Cardinality(Used(keyAt, capacity))
  BY DEF Inv
<1>2. UNCHANGED <<keyAt, valueAt, capacity, count>>
  BY DEF Insert, tableVars
<1>3. op' = [name |-> "insert", key |-> k, value |-> v] /\ "insert" \in OPS
  BY DEF Insert
<1>4. op' \in Map!Operations /\ op'.name = "insert" /\ op'.key = k
  BY <1>3 DEF Map!Operations
<1>5. NewCapacity = Grown(capacity)
  BY DEF NewCapacity, Grown
<1>6. CASE MustGrow
  <2>1. /\ pc' = "rehash" /\ idx' = 0
        /\ newKeyAt' = [s \in Slots(Grown(capacity)) |-> EMPTY]
        /\ newValueAt' = [s \in Slots(Grown(capacity)) |-> NULL]
    BY <1>5, <1>6 DEF Insert
  <2>2. Grown(capacity) \in Nat
    BY <1>1, GrownIsMore
  <2>3. /\ Table(newKeyAt', newValueAt', Grown(capacity))
        /\ Absent(newKeyAt', Grown(capacity), TOMBSTONE)
    BY <2>1, <2>2, EmptyTable
  <2>4. Copied(newKeyAt', newValueAt', Grown(capacity), keyAt, valueAt, 0)
    BY <2>1, <2>2, StartsRehash
  <2>5. Rehashing'
    BY <1>1, <1>2, <2>1, <2>3, <2>4 DEF Rehashing
  <2>6. Calls' /\ Finding'
    BY <1>4, <2>1 DEF Calls, Finding
  <2> QED BY <1>1, <1>2, <2>1, <2>5, <2>6 DEF Inv
<1>7. CASE ~ MustGrow
  <2>1. pc' = "find" /\ idx' = Home(k, capacity)
    BY <1>7 DEF Insert, StartFind
  <2>2. capacity \in Nat \ {0}
    BY <1>1, <1>7 DEF MustGrow
  <2>3. /\ idx' \in Slots(capacity) /\ idx' \in Nat
        /\ Clear(keyAt, capacity, Home(k, capacity), idx', {EMPTY, k})
    BY <2>1, <2>2, StartsFinding
  <2>4. Finding'
    BY <1>2, <1>4, <2>2, <2>3 DEF Finding
  <2>5. Calls' /\ Rehashing'
    BY <1>4, <2>1 DEF Calls, Rehashing
  <2> QED BY <1>1, <1>2, <2>1, <2>3, <2>4, <2>5 DEF Inv
<1> QED BY <1>6, <1>7

LEMMA LookupOrRemoveKeeps ==
  ASSUME Inv, NEW k \in Keys, NEW name \in {"lookup", "remove"},
         LookupOrRemove(name, k)
  PROVE  Inv'
<1>1. /\ capacity \in Nat /\ Table(keyAt, valueAt, capacity)
      /\ count = Cardinality(Used(keyAt, capacity))
  BY DEF Inv
<1>2. UNCHANGED <<keyAt, valueAt, capacity, count>>
  BY DEF LookupOrRemove, tableVars
<1>3. op' = [name |-> name, key |-> k, value |-> NULL] /\ name \in OPS
  BY DEF LookupOrRemove
<1>4. op' \in Map!Operations /\ op'.name # "insert" /\ op'.key = k
  BY <1>3 DEF Map!Operations
<1>5. pc' = "find" /\ idx' = IF capacity = 0 THEN 0 ELSE Home(k, capacity)
  BY DEF LookupOrRemove
<1>6. capacity # 0 =>
        /\ idx' \in Slots(capacity) /\ idx' \in Nat
        /\ Clear(keyAt, capacity, Home(k, capacity), idx', {EMPTY, k})
  <2>1. SUFFICES ASSUME capacity # 0
                 PROVE  /\ idx' \in Slots(capacity) /\ idx' \in Nat
                        /\ Clear(keyAt, capacity, Home(k, capacity), idx', {EMPTY, k})
    OBVIOUS
  <2>2. capacity \in Nat \ {0} /\ idx' = Home(k, capacity)
    BY <1>1, <1>5, <2>1
  <2> QED BY <2>2, StartsFinding
<1>7. Finding'
  BY <1>2, <1>4, <1>6 DEF Finding
<1>8. Calls' /\ Rehashing' /\ idx' \in Nat
  BY <1>4, <1>5, <1>6 DEF Calls, Rehashing
<1> QED BY <1>1, <1>2, <1>5, <1>7, <1>8 DEF Inv

\* The slot that a rehash takes for the key it is at.
LEMMA RehashSlot ==
  ASSUME Inv, pc = "rehash", idx < capacity, keyAt[idx] \in Keys,
         NEW s, s = FirstFrom(Home(keyAt[idx], Grown(capacity)), Grown(capacity),
                              newKeyAt, {EMPTY})
  PROVE  /\ s \in Slots(Grown(capacity)) /\ newKeyAt[s] = EMPTY
         /\ Clear(newKeyAt, Grown(capacity), Home(keyAt[idx], Grown(capacity)), s, {EMPTY})
         /\ Absent(newKeyAt, Grown(capacity), keyAt[idx])
<1>. DEFINE c == Grown(capacity)
<1>1. /\ capacity \in Nat /\ idx \in Nat /\ c \in Nat \ {0} /\ capacity < c
      /\ idx \in Slots(capacity)
  BY GrownIsMore DEF Inv, Slots
<1>2. /\ Table(newKeyAt, newValueAt, c)
      /\ Absent(newKeyAt, c, TOMBSTONE)
      /\ Copied(newKeyAt, newValueAt, c, keyAt, valueAt, idx)
  BY DEF Inv, Rehashing
<1>3. Distinct(keyAt, capacity)
  BY DEF Inv, Table
<1>. HIDE DEF c
<1>4. Cardinality(Used(newKeyAt, c)) < c
  <2>1. Cardinality(Used(keyAt, idx)) \in Nat /\ Cardinality(Used(keyAt, idx)) <= idx
    BY <1>1, UsedFinite
  <2>2. Cardinality(Used(newKeyAt, c)) = Cardinality(Used(keyAt, idx))
    BY <1>2 DEF Copied
  <2> QED BY <1>1, <2>1, <2>2
<1>5. \E t \in Slots(c) : newKeyAt[t] \in {EMPTY}
  BY <1>1, <1>2, <1>4, RoomLeft
<1>6. Home(keyAt[idx], c) \in Slots(c)
  BY <1>1, HomeIsSlot
<1>7. s = FirstFrom(Home(keyAt[idx], c), c, newKeyAt, {EMPTY})
  BY DEF c
<1>8. /\ s \in Slots(c) /\ newKeyAt[s] \in {EMPTY}
      /\ Clear(newKeyAt, c, Home(keyAt[idx], c), s, {EMPTY})
  <2>. DEFINE h == Home(keyAt[idx], c)
  <2>1. h \in Slots(c) /\ s = FirstFrom(h, c, newKeyAt, {EMPTY})
    BY <1>6, <1>7
  <2>. HIDE DEF h
  <2>2. /\ FirstFrom(h, c, newKeyAt, {EMPTY}) \in Slots(c)
        /\ newKeyAt[FirstFrom(h, c, newKeyAt, {EMPTY})] \in {EMPTY}
        /\ Clear(newKeyAt, c, h, FirstFrom(h, c, newKeyAt, {EMPTY}), {EMPTY})
    BY <1>1, <1>5, <2>1, FirstFromIs
  <2> QED BY <2>1, <2>2 DEF h
<1>9. Absent(newKeyAt, c, keyAt[idx])
  BY <1>1, <1>2, <1>3, CopyIsNew
<1> QED BY <1>8, <1>9 DEF c

LEMMA RehashKeeps ==
  ASSUME Inv, Rehash
  PROVE  Inv'
<1>. DEFINE c == Grown(capacity)
            k == keyAt[idx]
            s == FirstFrom(Home(k, c), c, newKeyAt, {EMPTY})
<1>1. /\ capacity \in Nat /\ idx \in Nat /\ Table(keyAt, valueAt, capacity)
      /\ count = Cardinality(Used(keyAt, capacity)) /\ Calls
  BY DEF Inv
<1>2. /\ pc = "rehash" /\ idx < capacity /\ idx' = idx + 1
      /\ UNCHANGED <<keyAt, valueAt, capacity, count, pc, op>>
  BY DEF Rehash, tableVars
<1>3. /\ Table(newKeyAt, newValueAt, c)
      /\ Absent(newKeyAt, c, TOMBSTONE)
      /\ Copied(newKeyAt, newValueAt, c, keyAt, valueAt, idx)
  BY <1>2 DEF Inv, Rehashing
<1>4. NewCapacity = c
  BY DEF NewCapacity, Grown
<1>5. c \in Nat \ {0} /\ idx \in Slots(capacity)
  BY <1>1, <1>2, GrownIsMore DEF Slots
<1>6. /\ Table(newKeyAt', newValueAt', c)
      /\ Absent(newKeyAt', c, TOMBSTONE)
      /\ Copied(newKeyAt', newValueAt', c, keyAt, valueAt, idx + 1)
  <2>1. CASE k \notin Keys
    <3>1. newKeyAt' = newKeyAt /\ newValueAt' = newValueAt
      BY <2>1 DEF Rehash, newVars
    <3>. HIDE DEF c
    <3> QED BY <1>1, <1>3, <2>1, <3>1, CopySkips
  <2>2. CASE k \in Keys
    <3>1. /\ newKeyAt' = [newKeyAt EXCEPT ![s] = k]
          /\ newValueAt' = [newValueAt EXCEPT ![s] = valueAt[idx]]
      BY <1>4, <2>2 DEF Rehash
    <3>2. /\ s \in Slots(c) /\ newKeyAt[s] = EMPTY
          /\ Clear(newKeyAt, c, Home(k, c), s, {EMPTY})
          /\ Absent(newKeyAt, c, k)
      BY <1>2, <2>2, RehashSlot
    <3>3. valueAt[idx] \in Values
      BY <1>1, <1>5, <2>2 DEF Table, Typed
    <3>4. Typed(newKeyAt, newValueAt, c)
      BY <1>3 DEF Table
    <3>. HIDE DEF c, s
    <3>5. Table(newKeyAt', newValueAt', c)
      BY <1>3, <1>5, <2>2, <3>1, <3>2, <3>3, PutKeepsTable
    <3>6. Absent(newKeyAt', c, TOMBSTONE)
      <4>1. k # TOMBSTONE
        BY <2>2, TableAssumption
      <4>2. newKeyAt \in [Slots(c) -> Keys \cup {EMPTY, TOMBSTONE}]
        BY <3>4 DEF Typed
      <4>. HIDE DEF k
      <4> QED BY <1>3, <3>1, <4>1, <4>2 DEF Absent
    <3>7. Copied(newKeyAt', newValueAt', c, keyAt, valueAt, idx + 1)
      BY <1>1, <1>3, <1>5, <2>2, <3>1, <3>2, <3>4, CopyTakes
    <3> QED BY <3>5, <3>6, <3>7
  <2> QED BY <2>1, <2>2
<1>7. idx + 1 \in 0 .. capacity /\ idx + 1 \in Nat
  BY <1>1, <1>2
<1>8. Rehashing'
  BY <1>2, <1>6, <1>7 DEF Rehashing
<1>9. Calls' /\ Finding'
  BY <1>1, <1>2 DEF Calls, Finding
<1> QED BY <1>1, <1>2, <1>7, <1>8, <1>9 DEF Inv

LEMMA UseNewEntriesKeeps ==
  ASSUME Inv, UseNewEntries
  PROVE  Inv'
<1>1. /\ capacity \in Nat /\ count = Cardinality(Used(keyAt, capacity)) /\ Calls
  BY DEF Inv
<1>2. /\ pc = "rehash" /\ idx = capacity
      /\ keyAt' = newKeyAt /\ valueAt' = newValueAt
      /\ capacity' = Grown(capacity) /\ count' = count /\ op' = op
      /\ pc' = "find" /\ idx' = Home(op.key, Grown(capacity))
  BY DEF UseNewEntries, NewCapacity, Grown, StartFind
<1>3. /\ Table(newKeyAt, newValueAt, Grown(capacity))
      /\ Copied(newKeyAt, newValueAt, Grown(capacity), keyAt, valueAt, capacity)
  BY <1>2 DEF Inv, Rehashing
<1>4. Grown(capacity) \in Nat \ {0}
  BY <1>1, GrownIsMore
<1>5. count' = Cardinality(Used(keyAt', capacity'))
  BY <1>1, <1>2, <1>3 DEF Copied
<1>6. op \in Map!Operations /\ op.key \in Keys
  BY <1>1, <1>2, CallFields DEF Calls
<1>7. /\ idx' \in Slots(capacity') /\ idx' \in Nat
      /\ Clear(keyAt', capacity', Home(op.key, capacity'), idx', {EMPTY, op.key})
  BY <1>2, <1>4, <1>6, StartsFinding
<1>8. Finding'
  BY <1>2, <1>4, <1>7 DEF Finding
<1>9. Calls' /\ Rehashing'
  BY <1>2, <1>6 DEF Calls, Rehashing
<1> QED BY <1>2, <1>3, <1>4, <1>5, <1>7, <1>8, <1>9 DEF Inv

LEMMA ProbeKeeps ==
  ASSUME Inv, Probe
  PROVE  Inv'
<1>. DEFINE c == capacity
            h == Home(op.key, capacity)
            k == op.key
<1>1. /\ c \in Nat \ {0} /\ k \in Keys
      /\ pc = "find" /\ idx' = Step(idx, 1, c) /\ keyAt[idx] \notin {EMPTY, k}
      /\ UNCHANGED <<keyAt, valueAt, capacity, count, pc, op>>
  BY CallFields DEF Inv, Calls, Probe, tableVars
<1>2. idx \in Slots(c) /\ Clear(keyAt, c, h, idx, {EMPTY, k})
  BY <1>1 DEF Inv, Finding
<1>3. h \in Slots(c)
  BY <1>1, HomeIsSlot
<1>. HIDE DEF c, h, k
<1>4. /\ idx' \in Slots(c)
      /\ \/ Distance(h, idx', c) = Distance(h, idx, c) + 1
         \/ Distance(h, idx', c) = 0
  BY <1>1, <1>2, <1>3, RingNext
<1>5. Clear(keyAt, c, h, idx', {EMPTY, k})
  <2> SUFFICES ASSUME NEW t \in Slots(c), Distance(h, t, c) < Distance(h, idx', c)
               PROVE  keyAt[t] \notin {EMPTY, k}
    BY DEF Clear
  <2>1. Distance(h, t, c) \in Nat /\ Distance(h, idx, c) \in Nat
    BY <1>1, <1>2, <1>3, Ring
  <2>2. Distance(h, t, c) < Distance(h, idx, c) \/ Distance(h, t, c) = Distance(h, idx, c)
    BY <1>4, <2>1
  <2>3. Distance(h, t, c) = Distance(h, idx, c) => t = idx
    BY <1>1, <1>2, <1>3, RingOrder
  <2> QED BY <1>1, <1>2, <2>2, <2>3 DEF Clear
<1>6. idx' \in Nat
  BY <1>1, <1>4 DEF Slots
<1>7. Finding'
  BY <1>1, <1>4, <1>5 DEF Finding, Inv, c, h, k
<1>8. Calls' /\ Rehashing'
  BY <1>1 DEF Inv, Calls, Rehashing
<1> QED BY <1>1, <1>6, <1>7, <1>8 DEF Inv

\* What a search that has found its key, or an empty slot, has shown.
LEMMA Searched ==
  ASSUME Inv, pc = "find", capacity # 0
  PROVE  /\ capacity \in Nat \ {0} /\ idx \in Slots(capacity)
         /\ op \in Map!Operations /\ op.key \in Keys
         /\ Table(keyAt, valueAt, capacity)
         /\ Clear(keyAt, capacity, Home(op.key, capacity), idx, {EMPTY, op.key})
         /\ keyAt[idx] = EMPTY => Absent(keyAt, capacity, op.key)
<1>1. /\ capacity \in Nat \ {0} /\ idx \in Slots(capacity)
      /\ op \in Map!Operations /\ Table(keyAt, valueAt, capacity)
      /\ Clear(keyAt, capacity, Home(op.key, capacity), idx, {EMPTY, op.key})
  BY DEF Inv, Calls, Finding
<1>2. op.key \in Keys
  BY <1>1, CallFields
<1>3. Chained(keyAt, capacity)
  BY <1>1 DEF Table
<1> QED BY <1>1, <1>2, <1>3, MissIsAbsent

\* The slot Add takes.
LEMMA AddSlot ==
  ASSUME Inv, Miss, op.name = "insert",
         NEW s, s = FirstFrom(Home(op.key, capacity), capacity, keyAt, {EMPTY, TOMBSTONE})
  PROVE  /\ capacity \in Nat \ {0} /\ s \in Slots(capacity)
         /\ Table(keyAt, valueAt, capacity)
         /\ op.key \in Keys /\ op.value \in Values
         /\ Absent(keyAt, capacity, op.key) /\ keyAt[s] \notin Keys
         /\ Clear(keyAt, capacity, Home(op.key, capacity), s, {EMPTY})
<1>. DEFINE h == Home(op.key, capacity)
<1>1. pc = "find" /\ capacity # 0 /\ keyAt[idx] = EMPTY
  BY DEF Miss, Inv, Finding
<1>2. /\ capacity \in Nat \ {0} /\ idx \in Slots(capacity)
      /\ op \in Map!Operations /\ op.key \in Keys
      /\ Table(keyAt, valueAt, capacity)
      /\ Absent(keyAt, capacity, op.key)
  BY <1>1, Searched
<1>3. op.value \in Values
  BY <1>2, CallFields
<1>4. h \in Slots(capacity)
  BY <1>2, HomeIsSlot
<1>5. \E t \in Slots(capacity) : keyAt[t] \in {EMPTY, TOMBSTONE}
  BY <1>1, <1>2
<1>6. s = FirstFrom(h, capacity, keyAt, {EMPTY, TOMBSTONE})
  OBVIOUS
<1>. HIDE DEF h
<1>7. /\ s \in Slots(capacity) /\ keyAt[s] \in {EMPTY, TOMBSTONE}
      /\ Clear(keyAt, capacity, h, s, {EMPTY, TOMBSTONE})
  <2>1. /\ FirstFrom(h, capacity, keyAt, {EMPTY, TOMBSTONE}) \in Slots(capacity)
        /\ keyAt[FirstFrom(h, capacity, keyAt, {EMPTY, TOMBSTONE})] \in {EMPTY, TOMBSTONE}
        /\ Clear(keyAt, capacity, h, FirstFrom(h, capacity, keyAt, {EMPTY, TOMBSTONE}),
                 {EMPTY, TOMBSTONE})
    BY <1>2, <1>4, <1>5, FirstFromIs
  <2> QED BY <1>6, <2>1
<1>8. keyAt[s] \notin Keys
  BY <1>7, TableAssumption
<1>9. Clear(keyAt, capacity, h, s, {EMPTY})
  BY <1>7 DEF Clear
<1> QED BY <1>2, <1>3, <1>7, <1>8, <1>9 DEF h

\* A call that ends leaves nothing to say about searches and rehashes.
LEMMA DoneKeeps ==
  ASSUME NEW r, Done(r)
  PROVE  /\ pc' = "idle" /\ idx' \in Nat /\ op' = Map!Idle /\ result' = r
         /\ Calls' /\ Finding' /\ Rehashing'
BY DEF Done, Calls, Finding, Rehashing

\* The parts of a table's type.
LEMMA TableParts ==
  ASSUME NEW f, NEW g, NEW c, Table(f, g, c)
  PROVE  /\ f \in [Slots(c) -> Keys \cup {EMPTY, TOMBSTONE}]
         /\ g \in [Slots(c) -> Values \cup {NULL}]
         /\ \A s \in Slots(c) : f[s] \in Keys => g[s] \in Values
         /\ Distinct(f, c) /\ Chained(f, c)
BY DEF Table, Typed

LEMMA UpdateKeeps ==
  ASSUME Inv, Update
  PROVE  Inv'
<1>1. /\ pc = "find" /\ capacity # 0 /\ op.name = "insert" /\ Done(NULL)
      /\ valueAt' = [valueAt EXCEPT ![idx] = op.value]
      /\ UNCHANGED <<keyAt, capacity, count>>
  BY DEF Update, Hit
<1>2. /\ capacity \in Nat /\ idx \in Slots(capacity)
      /\ op.value \in Values /\ Table(keyAt, valueAt, capacity)
  BY <1>1, Searched, CallFields
<1>3. Table(keyAt', valueAt', capacity')
  BY <1>1, <1>2, StoreKeepsTable
<1>4. count' = Cardinality(Used(keyAt', capacity'))
  BY <1>1 DEF Inv
<1> QED BY <1>1, <1>2, <1>3, <1>4, DoneKeeps DEF Inv

LEMMA AddKeeps ==
  ASSUME Inv, Add
  PROVE  Inv'
<1>. DEFINE s == FirstFrom(Home(op.key, capacity), capacity, keyAt, {EMPTY, TOMBSTONE})
<1>1. /\ Miss /\ op.name = "insert" /\ Done(NULL)
      /\ keyAt' = [keyAt EXCEPT ![s] = op.key]
      /\ valueAt' = [valueAt EXCEPT ![s] = op.value]
      /\ count' = count + 1 /\ capacity' = capacity
  BY DEF Add
<1>2. /\ capacity \in Nat \ {0} /\ s \in Slots(capacity)
      /\ Table(keyAt, valueAt, capacity)
      /\ op.key \in Keys /\ op.value \in Values
      /\ Absent(keyAt, capacity, op.key) /\ keyAt[s] \notin Keys
      /\ Clear(keyAt, capacity, Home(op.key, capacity), s, {EMPTY})
  BY <1>1, AddSlot
<1>. HIDE DEF s
<1>3. Table(keyAt', valueAt', capacity')
  BY <1>1, <1>2, PutKeepsTable
<1>4. count' = Cardinality(Used(keyAt', capacity'))
  <2>1. count = Cardinality(Used(keyAt, capacity))
    BY DEF Inv
  <2>2. keyAt \in [Slots(capacity) -> Keys \cup {EMPTY, TOMBSTONE}]
    BY <1>2, TableParts
  <2>3. Cardinality(Used(keyAt', capacity)) = Cardinality(Used(keyAt, capacity)) + 1
    BY <1>1, <1>2, <2>2, PutCounts
  <2> QED BY <1>1, <2>1, <2>3
<1> QED BY <1>1, <1>2, <1>3, <1>4, DoneKeeps DEF Inv

LEMMA LookupEndsKeeps ==
  ASSUME Inv, LookupEnds
  PROVE  Inv'
<1>1. UNCHANGED <<keyAt, valueAt, capacity, count>> /\ \E r : Done(r)
  BY DEF LookupEnds, tableVars
<1> QED BY <1>1, DoneKeeps DEF Inv

LEMMA RemoveKeeps ==
  ASSUME Inv, Remove
  PROVE  Inv'
<1>1. /\ pc = "find" /\ capacity # 0 /\ keyAt[idx] = op.key /\ Done(TRUE)
      /\ keyAt' = [keyAt EXCEPT ![idx] = TOMBSTONE]
      /\ valueAt' = [valueAt EXCEPT ![idx] = NULL]
      /\ count' = count - 1 /\ capacity' = capacity
  BY DEF Remove, Hit
<1>2. /\ capacity \in Nat \ {0} /\ idx \in Slots(capacity)
      /\ keyAt[idx] \in Keys /\ Table(keyAt, valueAt, capacity)
  BY <1>1, Searched
<1>3. Table(keyAt', valueAt', capacity')
  BY <1>1, <1>2, DropKeepsTable
<1>4. count' = Cardinality(Used(keyAt', capacity'))
  <2>1. count = Cardinality(Used(keyAt, capacity))
    BY DEF Inv
  <2>2. keyAt \in [Slots(capacity) -> Keys \cup {EMPTY, TOMBSTONE}]
    BY <1>2, TableParts
  <2>3. Cardinality(Used(keyAt', capacity)) = Cardinality(Used(keyAt, capacity)) - 1
    BY <1>1, <1>2, <2>2, DropCounts
  <2> QED BY <1>1, <2>1, <2>3
<1> QED BY <1>1, <1>2, <1>3, <1>4, DoneKeeps DEF Inv

LEMMA RemoveNothingKeeps ==
  ASSUME Inv, RemoveNothing
  PROVE  Inv'
<1>1. UNCHANGED <<keyAt, valueAt, capacity, count>> /\ Done(FALSE)
  BY DEF RemoveNothing, tableVars
<1> QED BY <1>1, DoneKeeps DEF Inv

\* The invariant is inductive.
LEMMA NextKeepsInv ==
  ASSUME Inv, [Next]_vars
  PROVE  Inv'
<1>1. ASSUME NEW k \in Keys, NEW v \in Values, Insert(k, v)
      PROVE  Inv'
  BY <1>1, InsertKeeps
<1>2. ASSUME NEW k \in Keys, NEW name \in {"lookup", "remove"}, LookupOrRemove(name, k)
      PROVE  Inv'
  BY <1>2, LookupOrRemoveKeeps
<1>3. CASE Rehash
  BY <1>3, RehashKeeps
<1>4. CASE UseNewEntries
  BY <1>4, UseNewEntriesKeeps
<1>5. CASE Probe
  BY <1>5, ProbeKeeps
<1>6. CASE Update
  BY <1>6, UpdateKeeps
<1>7. CASE Add
  BY <1>7, AddKeeps
<1>8. CASE LookupEnds
  BY <1>8, LookupEndsKeeps
<1>9. CASE Remove
  BY <1>9, RemoveKeeps
<1>10. CASE RemoveNothing
  BY <1>10, RemoveNothingKeeps
<1>11. CASE UNCHANGED vars
  BY <1>11 DEF vars, tableVars, newVars, Inv, Calls, Finding, Rehashing
<1> QED BY <1>1, <1>2, <1>3, <1>4, <1>5, <1>6, <1>7, <1>8, <1>9, <1>10, <1>11
        DEF Next, Running

LEMMA InvHolds == Spec => []Inv
<1>1. Init => Inv
  BY InitInv
<1>2. Inv /\ [Next]_vars => Inv'
  BY NextKeepsInv
<1> QED BY <1>1, <1>2, PTL DEF Spec

-----------------------------------------------------------------------------
(* The properties of HashTable.                                            *)

\* The state of the table keeps its types: the table, the one a rehash
\* builds, and the call being run (hash_table.h:20-28, hash_table.c:38-63).
THEOREM TypeCorrect == Spec => []TypeOK
<1>1. Inv => TypeOK
  <2> SUFFICES ASSUME Inv PROVE TypeOK
    OBVIOUS
  <2>1. capacity \in Nat /\ idx \in Nat /\ pc \in {"idle", "rehash", "find"}
    BY DEF Inv
  <2>2. count \in Nat
    BY <2>1, UsedFinite DEF Inv
  <2>3. /\ keyAt \in [Slots(capacity) -> Keys \cup {EMPTY, TOMBSTONE}]
        /\ valueAt \in [Slots(capacity) -> Values \cup {NULL}]
    BY TableParts DEF Inv
  <2>4. op \in Map!Operations \cup {Map!Idle}
    BY <2>1 DEF Inv, Calls
  <2>5. ASSUME pc = "rehash"
        PROVE  /\ newKeyAt \in [Slots(NewCapacity) -> Keys \cup {EMPTY}]
               /\ newValueAt \in [Slots(NewCapacity) -> Values \cup {NULL}]
    <3>. DEFINE c == Grown(capacity)
    <3>1. NewCapacity = c
      BY DEF NewCapacity, Grown
    <3>2. Table(newKeyAt, newValueAt, c) /\ Absent(newKeyAt, c, TOMBSTONE)
      BY <2>5 DEF Inv, Rehashing
    <3>. HIDE DEF c
    <3>3. /\ newKeyAt \in [Slots(c) -> Keys \cup {EMPTY, TOMBSTONE}]
          /\ newValueAt \in [Slots(c) -> Values \cup {NULL}]
      BY <3>2, TableParts
    <3>4. newKeyAt \in [Slots(c) -> Keys \cup {EMPTY}]
      BY <3>2, <3>3 DEF Absent
    <3> QED BY <3>1, <3>3, <3>4
  <2> QED BY <2>1, <2>2, <2>3, <2>4, <2>5 DEF TypeOK
<1> QED BY <1>1, InvHolds, PTL

\* In every table, of any size and with any hash of the keys, a key is stored
\* once and no empty slot lies between its home and its slot: a search for it
\* cannot end too soon (hash_table.c:69-85).
THEOREM ProbeChainsHolds == Spec => []ProbeChains
<1>1. Inv => ProbeChains
  <2> SUFFICES ASSUME Inv, NEW s \in Slots(capacity), keyAt[s] \in Keys
               PROVE  /\ \A t \in Slots(capacity) : keyAt[t] = keyAt[s] => t = s
                      /\ \A d \in 0 .. (Distance(Home(keyAt[s], capacity), s, capacity) - 1) :
                           keyAt[Step(Home(keyAt[s], capacity), d, capacity)] # EMPTY
    BY DEF ProbeChains
  <2>. DEFINE h == Home(keyAt[s], capacity)
  <2>1. capacity \in Nat \ {0}
    BY DEF Inv, Slots
  <2>2. h \in Slots(capacity)
    BY <2>1, HomeIsSlot
  <2>3. Distinct(keyAt, capacity) /\ Chained(keyAt, capacity)
    BY TableParts DEF Inv
  <2>4. Clear(keyAt, capacity, h, s, {EMPTY})
    BY <2>3 DEF Chained
  <2>. HIDE DEF h
  <2>5. \A d \in 0 .. (Distance(h, s, capacity) - 1) :
          keyAt[Step(h, d, capacity)] \notin {EMPTY}
    BY <2>1, <2>2, <2>4, ClearBySteps
  <2>6. \A t \in Slots(capacity) : keyAt[t] = keyAt[s] => t = s
    BY <2>3 DEF Distinct
  <2> QED BY <2>5, <2>6 DEF h
<1> QED BY <1>1, InvHolds, PTL

\* count is the number of keys, however many tombstones were left and
\* resizes done (hash_table.c:38-63, 113-141, 158-170).
THEOREM CountIsKeysHolds == Spec => []CountIsKeys
<1>1. Inv => CountIsKeys
  BY DEF Inv, Used, CountIsKeys
<1> QED BY <1>1, InvHolds, PTL

-----------------------------------------------------------------------------
(* How calls end.                                                          *)

\* A step inside a call goes on from the rehash to the search; the rehash comes
\* closer to the last old slot, and the search to each empty slot, wherever
\* those are.
CallAdvances ==
  [][ /\ pc = "rehash" /\ pc' = "rehash" =>
           /\ capacity' = capacity /\ capacity - idx \in Nat
           /\ capacity - idx' < capacity - idx
      /\ pc = "find" => pc' # "rehash"
      /\ pc = "find" /\ pc' = "find" =>
           /\ UNCHANGED <<keyAt, capacity, op>>
           /\ \A s \in Slots(capacity) : keyAt[s] = EMPTY =>
                /\ Distance(idx, s, capacity) \in Nat
                /\ Distance(idx', s, capacity) < Distance(idx, s, capacity) ]_vars

\* While nothing is removed there are no tombstones, and an insertion finds
\* the table below its load factor, before a rehash or after.
RoomInv ==
  "remove" \notin OPS =>
    /\ Absent(keyAt, capacity, TOMBSTONE)
    /\ capacity # 0 => count < capacity /\ INITIAL_CAPACITY <= capacity
    /\ pc # "idle" => op.name # "remove"
    /\ pc = "find" /\ op.name = "insert" => count * 4 < capacity * 3

\* The next slot is nearer to every other.
LEMMA StepNearer ==
  ASSUME NEW c \in Nat \ {0}, NEW i \in Slots(c), NEW s \in Slots(c), s # i
  PROVE  /\ Distance(i, s, c) \in Nat
         /\ Distance(Step(i, 1, c), s, c) < Distance(i, s, c)
BY DEF Distance, Step, Slots

\* A step from the search to the search is a probe.
LEMMA ProbeAdvances ==
  ASSUME Inv, Probe
  PROVE  /\ UNCHANGED <<keyAt, capacity, op>>
         /\ \A s \in Slots(capacity) : keyAt[s] = EMPTY =>
              /\ Distance(idx, s, capacity) \in Nat
              /\ Distance(idx', s, capacity) < Distance(idx, s, capacity)
<1>1. /\ pc = "find" /\ capacity # 0 /\ keyAt[idx] \notin {EMPTY, op.key}
      /\ idx' = Step(idx, 1, capacity) /\ UNCHANGED <<keyAt, capacity, op>>
  BY DEF Probe, tableVars
<1>2. capacity \in Nat \ {0} /\ idx \in Slots(capacity)
  BY <1>1, Searched
<1>3. \A s \in Slots(capacity) : keyAt[s] = EMPTY => s # idx
  BY <1>1
<1> QED BY <1>1, <1>2, <1>3, StepNearer

\* hash_table__resize visits each old slot once, and find_entry comes closer to
\* every empty slot with each it passes, round the end of the table too: as
\* long as one slot is empty, no call takes more steps than the table has slots
\* for each of the two (hash_table.c:38-63, 69-85).
THEOREM CallsAdvance == Spec => CallAdvances
<1>. DEFINE A == /\ pc = "rehash" /\ pc' = "rehash" =>
                      /\ capacity' = capacity /\ capacity - idx \in Nat
                      /\ capacity - idx' < capacity - idx
                 /\ pc = "find" => pc' # "rehash"
                 /\ pc = "find" /\ pc' = "find" =>
                      /\ UNCHANGED <<keyAt, capacity, op>>
                      /\ \A s \in Slots(capacity) : keyAt[s] = EMPTY =>
                           /\ Distance(idx, s, capacity) \in Nat
                           /\ Distance(idx', s, capacity) < Distance(idx, s, capacity)
<1>1. ASSUME Inv, Next PROVE A
  <2>1. ASSUME pc = "idle" PROVE A
    BY <2>1
  <2>2. CASE Rehash
    <3>1. /\ pc = "rehash" /\ pc' = "rehash" /\ idx < capacity /\ idx' = idx + 1
          /\ capacity' = capacity
      BY <2>2 DEF Rehash, tableVars
    <3>2. capacity \in Nat /\ idx \in Nat
      BY <1>1 DEF Inv
    <3> QED BY <3>1, <3>2
  <2>3. CASE UseNewEntries
    BY <2>3 DEF UseNewEntries, StartFind
  <2>4. CASE Probe
    <3>1. pc = "find" /\ pc' = "find"
      BY <2>4 DEF Probe
    <3> QED BY <1>1, <2>4, <3>1, ProbeAdvances
  <2>5. CASE Update \/ Add \/ LookupEnds \/ Remove \/ RemoveNothing
    <3>1. pc = "find" /\ pc' = "idle"
      BY <2>5 DEF Update, Add, LookupEnds, Remove, RemoveNothing, Hit, Miss, Done
    <3> QED BY <3>1
  <2>6. ASSUME NEW k, NEW v, NEW name, Insert(k, v) \/ LookupOrRemove(name, k)
        PROVE  pc = "idle"
    BY <2>6 DEF Insert, LookupOrRemove
  <2>. HIDE DEF A
  <2> QED BY <1>1, <2>1, <2>2, <2>3, <2>4, <2>5, <2>6 DEF Next, Running
<1>2. Inv /\ [Next]_vars => [A]_vars
  <2>. HIDE DEF A
  <2> QED BY <1>1
<1> QED BY <1>2, InvHolds, PTL DEF Spec, CallAdvances

LEMMA InitRoom == Init => RoomInv
BY DEF Init, RoomInv, Absent, Slots

\* An insertion after a rehash finds the new table at most half full.
LEMMA RehashRoom ==
  ASSUME Inv, UseNewEntries, RoomInv, INITIAL_CAPACITY >= 4, "remove" \notin OPS
  PROVE  RoomInv'
<1>. DEFINE c == Grown(capacity)
<1>1. /\ pc = "rehash" /\ idx = capacity /\ pc' = "find" /\ op' = op /\ count' = count
      /\ keyAt' = newKeyAt /\ capacity' = NewCapacity
  BY DEF UseNewEntries, StartFind
<1>2. Absent(newKeyAt, c, TOMBSTONE) /\ NewCapacity = c
  BY <1>1 DEF Inv, Rehashing, NewCapacity, Grown
<1>3. capacity \in Nat /\ count \in Nat /\ count <= capacity
  BY UsedFinite DEF Inv
<1>4. c \in Nat /\ count < c /\ count * 4 < c * 3 /\ INITIAL_CAPACITY <= c
  <2>1. CASE capacity = 0
    <3>1. c = INITIAL_CAPACITY /\ count = 0
      BY <1>3, <2>1 DEF Grown
    <3> QED BY <3>1, TableAssumption
  <2>2. CASE capacity # 0
    <3>1. c = capacity * 2 /\ capacity >= 1
      BY <1>3, <2>2 DEF Grown
    <3>2. "remove" \notin OPS => INITIAL_CAPACITY <= capacity
      BY <2>2 DEF RoomInv
    <3> QED BY <1>3, <3>1, <3>2, TableAssumption
  <2> QED BY <2>1, <2>2
<1>. HIDE DEF c
<1> QED BY <1>1, <1>2, <1>4 DEF RoomInv

LEMMA NextRoom ==
  ASSUME Inv, RoomInv, [Next]_vars, INITIAL_CAPACITY >= 4
  PROVE  RoomInv'
<1> SUFFICES ASSUME "remove" \notin OPS
             PROVE  RoomInv'
  BY DEF RoomInv
<1>1. /\ Absent(keyAt, capacity, TOMBSTONE)
      /\ capacity # 0 => count < capacity /\ INITIAL_CAPACITY <= capacity
      /\ pc # "idle" => op.name # "remove"
      /\ pc = "find" /\ op.name = "insert" => count * 4 < capacity * 3
  BY DEF RoomInv
<1>2. capacity \in Nat /\ count \in Nat
  BY UsedFinite DEF Inv
<1>3. ASSUME NEW k \in Keys, NEW v \in Values, Insert(k, v)
      PROVE  RoomInv'
  <2>1. /\ op' = [name |-> "insert", key |-> k, value |-> v]
        /\ UNCHANGED <<keyAt, capacity, count>>
        /\ pc' = "find" => ~ MustGrow
    BY <1>3 DEF Insert, tableVars, StartFind
  <2>2. ~ MustGrow => count * 4 < capacity * 3
    BY <1>2 DEF MustGrow
  <2> QED BY <1>1, <2>1, <2>2 DEF RoomInv
<1>4. ASSUME NEW k \in Keys, NEW name \in {"lookup", "remove"}, LookupOrRemove(name, k)
      PROVE  RoomInv'
  <2>1. name = "lookup"
    BY <1>4 DEF LookupOrRemove
  <2>2. /\ op' = [name |-> "lookup", key |-> k, value |-> NULL]
        /\ UNCHANGED <<keyAt, capacity, count>>
    BY <1>4, <2>1 DEF LookupOrRemove, tableVars
  <2> QED BY <1>1, <2>2 DEF RoomInv
<1>5. CASE Rehash \/ Probe
  <2>1. pc' = pc /\ UNCHANGED <<keyAt, capacity, count, op>>
    BY <1>5 DEF Rehash, Probe, tableVars
  <2> QED BY <1>1, <2>1 DEF RoomInv
<1>6. CASE UseNewEntries
  BY <1>6, RehashRoom
<1>7. CASE Add
  <2>. DEFINE s == FirstFrom(Home(op.key, capacity), capacity, keyAt, {EMPTY, TOMBSTONE})
  <2>1. /\ pc = "find" /\ Miss /\ op.name = "insert" /\ pc' = "idle"
        /\ keyAt' = [keyAt EXCEPT ![s] = op.key]
        /\ count' = count + 1 /\ capacity' = capacity
    BY <1>7 DEF Add, Miss, Done
  <2>2. /\ s \in Slots(capacity) /\ Table(keyAt, valueAt, capacity)
        /\ op.key \in Keys
    BY <2>1, AddSlot
  <2>3. keyAt \in [Slots(capacity) -> Keys \cup {EMPTY, TOMBSTONE}]
    BY <2>2, TableParts
  <2>. HIDE DEF s
  <2>4. Absent(keyAt', capacity', TOMBSTONE)
    BY <1>1, <2>1, <2>2, <2>3, TableAssumption DEF Absent
  <2>5. count + 1 < capacity
    <3>1. count * 4 < capacity * 3
      BY <1>1, <2>1
    <3>2. 4 <= capacity
      BY <1>1, <1>2, <2>2, TableAssumption DEF Slots
    <3> QED BY <1>2, <3>1, <3>2, TableAssumption
  <2> QED BY <2>1, <2>4, <2>5 DEF RoomInv
<1>8. CASE Update \/ LookupEnds \/ RemoveNothing
  <2>1. pc' = "idle" /\ UNCHANGED <<keyAt, capacity, count>>
    BY <1>8 DEF Update, LookupEnds, RemoveNothing, Done, tableVars
  <2> QED BY <1>1, <2>1 DEF RoomInv
<1>9. CASE Remove
  BY <1>1, <1>9 DEF Remove, Hit
<1>10. CASE UNCHANGED vars
  BY <1>1, <1>10 DEF vars, tableVars, RoomInv
<1> QED BY <1>3, <1>4, <1>5, <1>6, <1>7, <1>8, <1>9, <1>10 DEF Next, Running

\* A table that nothing is removed from has an empty slot whenever a search
\* runs, because it grows at three quarters: with CallsAdvance, each of its
\* searches ends.  It starts with 16 slots (hash_table.c:5, 88-92), and with
\* fewer than four the load factor would leave none.  Tombstones are not
\* counted, so that with removals there may be none.
THEOREM RoomWithoutRemovals ==
  ASSUME INITIAL_CAPACITY >= 4, "remove" \notin OPS
  PROVE  Spec => [](capacity # 0 => \E s \in Slots(capacity) : keyAt[s] = EMPTY)
<1>1. Inv /\ RoomInv /\ [Next]_vars => RoomInv'
  BY NextRoom
<1>2. ASSUME Inv, RoomInv, capacity # 0
      PROVE  \E s \in Slots(capacity) : keyAt[s] = EMPTY
  <2>1. /\ Absent(keyAt, capacity, TOMBSTONE) /\ count < capacity
        /\ capacity \in Nat /\ Table(keyAt, valueAt, capacity)
        /\ count = Cardinality(Used(keyAt, capacity))
    BY <1>2 DEF Inv, RoomInv
  <2> QED BY <2>1, RoomLeft
<1> QED BY <1>1, <1>2, InvHolds, InitRoom, PTL DEF Spec

-----------------------------------------------------------------------------
(* The table implements a map.                                             *)

\* The abstract map, before and after a step.
LEMMA ContentsIs ==
  /\ Contents = Stored(keyAt, valueAt, capacity)
  /\ Contents' = Stored(keyAt', valueAt', capacity')
BY DEF Contents, Stored, Holds

\* A step that leaves the table, the call and its result alone is a stutter.
LEMMA Stutters ==
  ASSUME UNCHANGED <<keyAt, valueAt, capacity, op, result>>
  PROVE  UNCHANGED Map!mapVars
BY ContentsIs DEF Map!mapVars

LEMMA CallMaps ==
  ASSUME Inv, pc = "idle", op' \in Map!Operations,
         UNCHANGED <<keyAt, valueAt, capacity, result>>
  PROVE  Map!MapNext
<1>1. op = Map!Idle /\ Contents' = Contents
  BY ContentsIs DEF Inv, Calls
<1>2. Map!Call(op')
  BY <1>1 DEF Map!Call
<1> QED BY <1>2 DEF Map!MapNext

LEMMA UseNewEntriesMaps ==
  ASSUME Inv, UseNewEntries
  PROVE  UNCHANGED Map!mapVars
<1>1. /\ pc = "rehash" /\ idx = capacity
      /\ keyAt' = newKeyAt /\ valueAt' = newValueAt
      /\ capacity' = Grown(capacity) /\ UNCHANGED <<op, result>>
  BY DEF UseNewEntries, NewCapacity, Grown
<1>2. /\ Table(newKeyAt, newValueAt, Grown(capacity)) /\ Table(keyAt, valueAt, capacity)
      /\ Copied(newKeyAt, newValueAt, Grown(capacity), keyAt, valueAt, capacity)
  BY <1>1 DEF Inv, Rehashing
<1>3. Stored(newKeyAt, newValueAt, Grown(capacity)) = Stored(keyAt, valueAt, capacity)
  BY <1>2, CopyStores
<1>4. Contents' = Contents
  BY <1>1, <1>3, ContentsIs
<1> QED BY <1>1, <1>4 DEF Map!mapVars

LEMMA UpdateMaps ==
  ASSUME Inv, Update
  PROVE  Map!MapNext
<1>1. /\ pc = "find" /\ capacity # 0 /\ op.name = "insert"
      /\ keyAt[idx] = op.key /\ result' = NULL /\ op' = Map!Idle
      /\ valueAt' = [valueAt EXCEPT ![idx] = op.value]
      /\ keyAt' = keyAt /\ capacity' = capacity
  BY DEF Update, Hit, Done
<1>2. /\ capacity \in Nat /\ idx \in Slots(capacity) /\ keyAt[idx] \in Keys
      /\ op.value \in Values /\ Table(keyAt, valueAt, capacity)
  BY <1>1, Searched, CallFields
<1>3. Contents' = [Contents EXCEPT ![op.key] = op.value]
  <2>1. Stored(keyAt, [valueAt EXCEPT ![idx] = op.value], capacity)
          = [Stored(keyAt, valueAt, capacity) EXCEPT ![keyAt[idx]] = op.value]
    BY <1>2, UpdateStores
  <2>2. Stored(keyAt', valueAt', capacity')
          = [Stored(keyAt, valueAt, capacity) EXCEPT ![op.key] = op.value]
    BY <1>1, <2>1
  <2> QED BY <2>2, ContentsIs
<1>4. Map!ReturnInsert
  BY <1>1, <1>3 DEF Map!ReturnInsert
<1> QED BY <1>4 DEF Map!MapNext, Map!Return

LEMMA AddMaps ==
  ASSUME Inv, Add
  PROVE  Map!MapNext
<1>. DEFINE s == FirstFrom(Home(op.key, capacity), capacity, keyAt, {EMPTY, TOMBSTONE})
<1>1. /\ Miss /\ op.name = "insert" /\ result' = NULL /\ op' = Map!Idle
      /\ keyAt' = [keyAt EXCEPT ![s] = op.key]
      /\ valueAt' = [valueAt EXCEPT ![s] = op.value]
      /\ capacity' = capacity
  BY DEF Add, Done
<1>2. /\ capacity \in Nat \ {0} /\ s \in Slots(capacity)
      /\ Table(keyAt, valueAt, capacity)
      /\ op.key \in Keys /\ op.value \in Values
      /\ Absent(keyAt, capacity, op.key) /\ keyAt[s] \notin Keys
      /\ Clear(keyAt, capacity, Home(op.key, capacity), s, {EMPTY})
  BY <1>1, AddSlot
<1>. HIDE DEF s
<1>3. Contents' = [Contents EXCEPT ![op.key] = op.value]
  <2>1. Stored([keyAt EXCEPT ![s] = op.key], [valueAt EXCEPT ![s] = op.value], capacity)
          = [Stored(keyAt, valueAt, capacity) EXCEPT ![op.key] = op.value]
    <3>. DEFINE k == op.key
                v == op.value
    <3>1. /\ k \in Keys /\ v \in Values /\ Absent(keyAt, capacity, k)
          /\ Clear(keyAt, capacity, Home(k, capacity), s, {EMPTY})
      BY <1>2
    <3>. HIDE DEF k, v
    <3>2. Stored([keyAt EXCEPT ![s] = k], [valueAt EXCEPT ![s] = v], capacity)
            = [Stored(keyAt, valueAt, capacity) EXCEPT ![k] = v]
      BY <1>2, <3>1, PutStores
    <3> QED BY <3>2 DEF k, v
  <2>2. Stored(keyAt', valueAt', capacity')
          = [Stored(keyAt, valueAt, capacity) EXCEPT ![op.key] = op.value]
    BY <1>1, <2>1
  <2> QED BY <2>2, ContentsIs
<1>4. Map!ReturnInsert
  BY <1>1, <1>3 DEF Map!ReturnInsert
<1> QED BY <1>4 DEF Map!MapNext, Map!Return

\* A search that fails has shown that the map has no such key.
LEMMA MissMeansNone ==
  ASSUME Inv, Miss
  PROVE  /\ op \in Map!Operations /\ op.key \in Keys
         /\ Contents[op.key] = NULL
<1>1. op \in Map!Operations /\ op.key \in Keys
  BY CallFields DEF Inv, Calls, Miss
<1>2. Distinct(keyAt, capacity)
  BY TableParts DEF Inv
<1>3. Absent(keyAt, capacity, op.key)
  <2>1. CASE capacity = 0
    BY <2>1 DEF Absent, Slots
  <2>2. CASE capacity # 0
    BY <2>2, Searched DEF Miss
  <2> QED BY <2>1, <2>2
<1> QED BY <1>1, <1>2, <1>3, StoredAt, ContentsIs

\* One that succeeds has found the key's value, which is one.
LEMMA HitMeansValue ==
  ASSUME Inv, Hit
  PROVE  /\ op \in Map!Operations /\ op.key \in Keys
         /\ Contents[op.key] = valueAt[idx] /\ valueAt[idx] # NULL
<1>1. /\ op \in Map!Operations /\ op.key \in Keys /\ keyAt[idx] = op.key
      /\ capacity \in Nat \ {0} /\ idx \in Slots(capacity)
      /\ Table(keyAt, valueAt, capacity)
  BY Searched DEF Hit
<1>2. Distinct(keyAt, capacity) /\ valueAt[idx] \in Values
  BY <1>1, TableParts
<1>3. Contents[op.key] = valueAt[idx]
  BY <1>1, <1>2, StoredAt, ContentsIs
<1> QED BY <1>1, <1>2, <1>3, TableAssumption

LEMMA LookupEndsMaps ==
  ASSUME Inv, LookupEnds
  PROVE  Map!MapNext
<1>1. /\ op.name = "lookup" /\ op' = Map!Idle
      /\ \/ Hit /\ result' = valueAt[idx]
         \/ Miss /\ result' = NULL
      /\ UNCHANGED <<keyAt, valueAt, capacity>>
  BY DEF LookupEnds, Done, tableVars
<1>2. result' = Contents[op.key]
  BY <1>1, HitMeansValue, MissMeansNone
<1>3. Contents' = Contents
  BY <1>1, ContentsIs
<1>4. Map!ReturnLookup
  BY <1>1, <1>2, <1>3 DEF Map!ReturnLookup
<1> QED BY <1>4 DEF Map!MapNext, Map!Return

LEMMA RemoveMaps ==
  ASSUME Inv, Remove
  PROVE  Map!MapNext
<1>1. /\ Hit /\ op.name = "remove" /\ op' = Map!Idle /\ result' = TRUE
      /\ pc = "find" /\ capacity # 0 /\ keyAt[idx] = op.key
      /\ keyAt' = [keyAt EXCEPT ![idx] = TOMBSTONE]
      /\ valueAt' = [valueAt EXCEPT ![idx] = NULL]
      /\ capacity' = capacity
  BY DEF Remove, Hit, Done
<1>2. /\ capacity \in Nat \ {0} /\ idx \in Slots(capacity) /\ keyAt[idx] \in Keys
      /\ Table(keyAt, valueAt, capacity)
  BY <1>1, Searched
<1>3. Contents' = [Contents EXCEPT ![op.key] = NULL]
  <2>1. Stored([keyAt EXCEPT ![idx] = TOMBSTONE], [valueAt EXCEPT ![idx] = NULL], capacity)
          = [Stored(keyAt, valueAt, capacity) EXCEPT ![keyAt[idx]] = NULL]
    BY <1>2, DropStores
  <2>2. Stored(keyAt', valueAt', capacity')
          = [Stored(keyAt, valueAt, capacity) EXCEPT ![op.key] = NULL]
    BY <1>1, <2>1
  <2> QED BY <2>2, ContentsIs
<1>4. Contents[op.key] # NULL
  BY <1>1, HitMeansValue
<1>5. Map!ReturnRemove
  BY <1>1, <1>3, <1>4 DEF Map!ReturnRemove
<1> QED BY <1>5 DEF Map!MapNext, Map!Return

LEMMA RemoveNothingMaps ==
  ASSUME Inv, RemoveNothing
  PROVE  Map!MapNext
<1>1. /\ Miss /\ op.name = "remove" /\ op' = Map!Idle /\ result' = FALSE
      /\ UNCHANGED <<keyAt, valueAt, capacity>>
  BY DEF RemoveNothing, Done, tableVars
<1>2. op.key \in Keys /\ Contents[op.key] = NULL
  BY <1>1, MissMeansNone
<1>3. Contents' = Contents
  BY <1>1, ContentsIs
<1>4. Contents = [Contents EXCEPT ![op.key] = NULL]
  BY <1>2 DEF Contents
<1>5. Map!ReturnRemove
  BY <1>1, <1>2, <1>3, <1>4 DEF Map!ReturnRemove
<1> QED BY <1>5 DEF Map!MapNext, Map!Return

\* Every step of the table is a step of the map, or none.
LEMMA NextMaps ==
  ASSUME Inv, [Next]_vars
  PROVE  [Map!MapNext]_(Map!mapVars)
<1>1. ASSUME NEW k \in Keys, NEW v \in Values, Insert(k, v)
      PROVE  Map!MapNext
  <2>1. op' \in Map!Operations
    BY <1>1 DEF Insert, Map!Operations
  <2> QED BY <1>1, <2>1, CallMaps DEF Insert, tableVars
<1>2. ASSUME NEW k \in Keys, NEW name \in {"lookup", "remove"}, LookupOrRemove(name, k)
      PROVE  Map!MapNext
  <2>1. op' \in Map!Operations
    BY <1>2 DEF LookupOrRemove, Map!Operations
  <2> QED BY <1>2, <2>1, CallMaps DEF LookupOrRemove, tableVars
<1>3. CASE Rehash \/ Probe \/ UNCHANGED vars
  BY <1>3, Stutters DEF Rehash, Probe, vars, tableVars
<1>4. CASE UseNewEntries
  BY <1>4, UseNewEntriesMaps
<1>5. CASE Update
  BY <1>5, UpdateMaps
<1>6. CASE Add
  BY <1>6, AddMaps
<1>7. CASE LookupEnds
  BY <1>7, LookupEndsMaps
<1>8. CASE Remove
  BY <1>8, RemoveMaps
<1>9. CASE RemoveNothing
  BY <1>9, RemoveNothingMaps
<1> QED BY <1>1, <1>2, <1>3, <1>4, <1>5, <1>6, <1>7, <1>8, <1>9 DEF Next, Running

\* The hash table is a map: whatever the keys, their hashes and the order of
\* the calls, a call has the effect and the result hash_table.h:38-43 gives
\* it, once, when it returns, and a resize changes nothing.
THEOREM Refinement == Spec => ImplementsMap
<1>1. Init => Map!MapInit
  <2> SUFFICES ASSUME Init PROVE Map!MapInit
    OBVIOUS
  <2>1. Slots(capacity) = {} /\ op = Map!Idle /\ result = NULL
    BY DEF Init, Slots
  <2>2. Contents = [k \in Keys |-> NULL]
    BY <2>1 DEF Contents, Holds
  <2> QED BY <2>1, <2>2 DEF Map!MapInit
<1>2. Inv /\ [Next]_vars => [Map!MapNext]_(Map!mapVars)
  BY NextMaps
<1> QED BY <1>1, <1>2, InvHolds, PTL DEF Spec, ImplementsMap, Map!MapSpec
=============================================================================
