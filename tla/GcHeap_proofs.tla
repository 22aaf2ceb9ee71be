--------------------------- MODULE GcHeap_proofs ---------------------------
(***************************************************************************)
(* Proofs about the abstract heap: its type invariant, the separation of   *)
(* blocks, and that no pointer the program can get at dangles.             *)
(***************************************************************************)
EXTENDS GcHeap, TLAPS

\* Every block lies in the heap, behind its header.
InHeap == \A b \in blocks : HEADER < b /\ b + size[b] - 1 <= LAST

Layout == HeapTypeOK /\ InHeap /\ Disjoint

\* A word the program holds without harm: it is NULL or lies in a block, and
\* that block is in S.
Known(S, v) == Resolves(v) /\ \A b \in blocks : Within(b, v) => b \in S

\* What NoDangling comes down to: some set of blocks, not the least closed
\* one, that every root word and every word in it is known to.
Sound(S) ==
  /\ \A s \in Rooted : Known(S, slot[s])
  /\ \A p \in S : \A a \in Extent(p) : Known(S, mem[a])

-----------------------------------------------------------------------------
(* Types and layout.                                                       *)

\* The program's own steps leave the blocks where they are, and only move
\* addresses that lie in the heap.
LEMMA LayoutProgram ==
  ASSUME HeapAssumption, Layout, Program
  PROVE  Layout'
<1>. USE DEF Address, Word, NULL, HeapAssumption, Layout, HeapTypeOK
<1>1. blocks' = blocks /\ size' = size
  BY DEF Program, Move, Advance, Load, Store, Drop, Register, Unregister
<1>2. InHeap' /\ Disjoint'
  BY <1>1 DEF InHeap, Disjoint
<1>3. slot' \in [Slots -> Word] /\ mem' \in [Address -> Word]
  <2>1. ASSUME NEW dst \in Slots, NEW src \in Slots, Move(dst, src)
        PROVE  <1>3!1 /\ <1>3!2
    BY <2>1 DEF Move
  <2>2. ASSUME NEW dst \in Slots, NEW src \in Slots, Advance(dst, src)
        PROVE  <1>3!1 /\ <1>3!2
    <3>1. PICK b \in blocks : Within(b, slot[src] + 1)
      BY <2>2 DEF Advance
    <3>2. b \in Nat /\ size[b] \in Nat /\ slot[src] \in Nat /\ b + size[b] - 1 <= LAST
      BY <2>2 DEF InHeap, Slots
    <3>3. slot[src] + 1 <= b + size[b] - 1
      BY <3>1, <3>2 DEF Within, Extent
    <3>4. slot[src] + 1 \in Word
      BY <3>2, <3>3
    <3> QED BY <2>2, <3>4 DEF Advance
  <2>3. ASSUME NEW dst \in Slots, NEW src \in Slots, Load(dst, src)
        PROVE  <1>3!1 /\ <1>3!2
    BY <2>3 DEF Load
  <2>4. ASSUME NEW dst \in Slots, NEW src \in Slots, Store(dst, src)
        PROVE  <1>3!1 /\ <1>3!2
    BY <2>4 DEF Store
  <2>5. ASSUME NEW dst \in Slots, Drop(dst) PROVE <1>3!1 /\ <1>3!2
    BY <2>5 DEF Drop
  <2>6. ASSUME NEW s \in Statics, Register(s) \/ Unregister(s)
        PROVE  <1>3!1 /\ <1>3!2
    BY <2>6 DEF Register, Unregister
  <2> QED BY <2>1, <2>2, <2>3, <2>4, <2>5, <2>6 DEF Program
<1>4. registered' \in [Statics -> Nat]
  <2>1. ASSUME NEW s \in Statics, Register(s) PROVE registered' \in [Statics -> Nat]
    BY <2>1 DEF Register
  <2>2. ASSUME NEW s \in Statics, Unregister(s) PROVE registered' \in [Statics -> Nat]
    BY <2>2 DEF Unregister
  <2> QED BY <2>1, <2>2 DEF Program, Move, Advance, Load, Store, Drop
<1> QED BY <1>1, <1>2, <1>3, <1>4

\* A new block is vacant, so it is new and overlaps nothing.
LEMMA LayoutNewBlock ==
  ASSUME HeapAssumption, Layout,
         NEW b \in Address, NEW n \in SIZES, NEW dst \in Locals,
         NEW operand \in Word, NewBlock(b, n, dst, operand)
  PROVE  Layout' /\ b \notin blocks
<1>. USE DEF Address, Word, NULL, HeapAssumption, Layout, HeapTypeOK, NewBlock
<1>1. b \notin blocks
  BY DEF Vacant
<1>2. HeapTypeOK'
  <2>1. mem' \in [Address -> Word]
    OBVIOUS
  <2>2. slot' \in [Slots -> Word]
    BY DEF Slots
  <2> QED BY <2>1, <2>2
<1>3. InHeap'
  BY DEF InHeap, Vacant
<1>4. Disjoint'
  <2>. SUFFICES ASSUME NEW p \in blocks', NEW o \in blocks', p < o
                PROVE  p + size'[p] <= o - HEADER
    BY DEF Disjoint
  <2>1. CASE p = b
    BY <2>1, <1>1 DEF Vacant
  <2>2. CASE o = b
    <3>1. p \in blocks /\ size'[p] = size[p]
      BY <2>2, <1>1
    <3>2. b + n <= p - HEADER \/ p + size[p] <= b - HEADER
      BY <3>1 DEF Vacant
    <3>3. n \in Nat /\ p \in Nat /\ HEADER \in Nat
      BY <3>1
    <3>4. ~ (b + n <= p - HEADER)
      BY <2>2, <3>3
    <3> QED BY <2>2, <3>1, <3>2, <3>4
  <2>3. CASE p # b /\ o # b
    BY <2>3 DEF Disjoint
  <2> QED BY <2>1, <2>2, <2>3
<1> QED BY <1>1, <1>2, <1>3, <1>4

\* Taking a block back disturbs no other.
LEMMA LayoutFree ==
  ASSUME HeapAssumption, Layout, NEW b \in blocks, Free(b)
  PROVE  Layout'
<1>. USE DEF Address, Word, NULL, HeapAssumption, Layout, HeapTypeOK, Free
<1>1. HeapTypeOK'
  <2>1. mem' \in [Address -> Word]
    OBVIOUS
  <2> QED BY <2>1
<1>2. InHeap'
  BY DEF InHeap
<1>3. Disjoint'
  BY DEF Disjoint
<1> QED BY <1>1, <1>2, <1>3
-----------------------------------------------------------------------------
(* Nothing dangles.                                                        *)

\* Reachable is closed, and the least closed set.
LEMMA ReachableLeast ==
  /\ Reachable \subseteq blocks
  /\ ClosedSet(Reachable)
  /\ \A S \in SUBSET blocks : ClosedSet(S) => Reachable \subseteq S
BY DEF Reachable, ClosedSet

\* A sound set is enough: the reachable blocks are among its members.
LEMMA SoundEnough == (\E S \in SUBSET blocks : Sound(S)) => NoDangling
<1>. SUFFICES ASSUME NEW S \in SUBSET blocks, Sound(S) PROVE NoDangling
  OBVIOUS
<1>1. ClosedSet(S)
  BY DEF Sound, Known, ClosedSet, RootWords, Contents
<1>2. Reachable \subseteq S
  BY <1>1, ReachableLeast
<1> QED BY <1>2 DEF Sound, Known, NoDangling, RootWords, Contents

\* ... and where nothing dangles the reachable blocks are such a set.
LEMMA ReachableSound ==
  ASSUME NoDangling
  PROVE  Sound(Reachable)
BY ReachableLeast DEF Sound, Known, NoDangling, ClosedSet, RootWords, Contents

\* An address lies in one block at most.
LEMMA OneBlock ==
  ASSUME HeapAssumption, Layout, NEW v, NEW b \in blocks, NEW o \in blocks,
         Within(b, v), Within(o, v)
  PROVE  b = o
<1>. SUFFICES ASSUME NEW p \in blocks, NEW q \in blocks, p < q,
                     Within(p, v), Within(q, v)
              PROVE  FALSE
  BY DEF Layout, HeapTypeOK, Address, HeapAssumption
<1>1. p + size[p] <= q - HEADER
  BY DEF Layout, Disjoint
<1>2. p \in Nat /\ q \in Nat /\ size[p] \in Nat /\ size[q] \in Nat /\ HEADER \in Nat
  BY DEF Layout, HeapTypeOK, Address, HeapAssumption
<1>3. v \in Int /\ v <= p + size[p] - 1 /\ q <= v
  BY <1>2 DEF Within, Extent
<1> QED BY <1>1, <1>2, <1>3

-----------------------------------------------------------------------------
(* The same, one step later: each step exhibits a sound set of blocks.     *)

\* SoundEnough holds of every state, so of the next one.
LEMMA SoundEnoughNext == (\E S \in SUBSET blocks : Sound(S))' => NoDangling'
BY SoundEnough, PTL

\* A step of the program reads a slot it owns or a word of a block it can
\* reach, so it gets at no block that it did not reach before.
LEMMA ProgramSound ==
  ASSUME HeapAssumption, ~ GENERATED, Layout, NoDangling, Program
  PROVE  NoDangling'
<1>1. PICK S \in SUBSET blocks : Sound(S)
  BY ReachableLeast, ReachableSound
<1>2. blocks' = blocks /\ size' = size
  BY DEF Program, Move, Advance, Load, Store, Drop, Register, Unregister
<1>3. /\ \A p : Extent(p)' = Extent(p)
      /\ \A v : Known(S, v)' <=> Known(S, v)
  BY <1>2 DEF Extent, Within, Known, Resolves
<1>4. Known(S, NULL)
  BY DEF Known, Resolves, Within, Extent, NULL, Layout, HeapTypeOK, Address
<1>5. \A s \in Rooted : s \in Slots /\ slot[s] \in Word /\ Known(S, slot[s])
  BY <1>1 DEF Sound, Rooted, Slots, Layout, HeapTypeOK
<1>6. \A p \in S : \A a \in Extent(p) : Known(S, mem[a])
  BY <1>1 DEF Sound
<1>7. SUFFICES /\ \A s \in Rooted' : Known(S, slot'[s])
               /\ \A p \in S : \A a \in Extent(p) : Known(S, mem'[a])
  <2>1. Sound(S)'
    BY <1>3, <1>7 DEF Sound
  <2> QED BY <1>1, <1>2, <2>1, SoundEnoughNext
<1>. USE DEF Layout, HeapTypeOK
<1>8. ASSUME NEW dst \in Slots, NEW src \in Slots, Move(dst, src)
      PROVE  <1>7!1
  BY <1>5, <1>6, <1>8 DEF Move, Usable, Rooted
<1>9. ASSUME NEW dst \in Slots, NEW src \in Slots, Advance(dst, src)
      PROVE  <1>7!1
  <2>1. PICK b \in blocks : Within(b, slot[src]) /\ Within(b, slot[src] + 1)
    BY <1>9 DEF Advance
  <2>2. src \in Rooted /\ b \in S
    BY <1>5, <1>9, <2>1 DEF Advance, Usable, Known
  <2>3. Known(S, slot[src] + 1)
    BY <2>1, <2>2, OneBlock DEF Known, Resolves
  <2> QED BY <1>5, <1>6, <1>9, <2>3 DEF Advance, Rooted
<1>10. ASSUME NEW dst \in Slots, NEW src \in Slots, Load(dst, src)
       PROVE  <1>7!1
  <2>1. src \in Rooted /\ slot[src] # NULL
    BY <1>10 DEF Load, Usable
  <2>2. PICK b \in S : Within(b, slot[src])
    BY <1>5, <2>1 DEF Known, Resolves
  <2>3. Known(S, mem[slot[src]])
    BY <1>6, <2>2 DEF Within
  <2> QED BY <1>5, <1>6, <1>10, <2>3 DEF Load, Rooted
<1>11. ASSUME NEW dst \in Slots, NEW src \in Slots, Store(dst, src)
       PROVE  <1>7!1
  <2>1. Known(S, slot[src])
    BY <1>5, <1>11 DEF Store, Usable
  <2>2. \A a \in Address : mem'[a] = mem[a] \/ mem'[a] = slot[src]
    BY <1>11 DEF Store
  <2>3. \A p \in S : Extent(p) \subseteq Address
    BY <1>1 DEF InHeap, Extent, Address, HeapAssumption
  <2> QED BY <1>5, <1>6, <1>11, <2>1, <2>2, <2>3 DEF Store, Rooted
<1>12. ASSUME NEW dst \in Slots, Drop(dst)
       PROVE  <1>7!1
  BY <1>4, <1>5, <1>6, <1>12 DEF Drop, Rooted
<1>13. ASSUME NEW s \in Statics, Register(s)
       PROVE  <1>7!1
  <2>1. \A t \in Statics \ {s} : registered'[t] = registered[t]
    BY <1>13 DEF Register
  <2>2. s \in Rooted \/ slot[s] = NULL
    BY <1>13 DEF Register, Rooted
  <2>3. \A t \in Rooted' : t \in Rooted \/ t = s
    BY <2>1 DEF Rooted
  <2> QED BY <1>4, <1>5, <1>6, <1>13, <2>2, <2>3 DEF Register
<1>14. ASSUME NEW s \in Statics, Unregister(s)
       PROVE  <1>7!1
  <2>1. \A t \in Statics \ {s} : registered'[t] = registered[t]
    BY <1>14 DEF Unregister
  <2>2. Rooted' \subseteq Rooted
    BY <1>14, <2>1 DEF Unregister, Rooted
  <2> QED BY <1>5, <1>6, <1>14, <2>2 DEF Unregister
<1> QED BY <1>8, <1>9, <1>10, <1>11, <1>12, <1>13, <1>14 DEF Program

\* A new block holds words the program held already, and nothing that is
\* left behind in storage taken back.
LEMMA NewBlockSound ==
  ASSUME HeapAssumption, Layout, NoDangling,
         NEW b \in Address, NEW n \in SIZES, NEW dst \in Locals,
         NEW operand \in {NULL} \cup {slot[l] : l \in Locals},
         NewBlock(b, n, dst, operand)
  PROVE  NoDangling'
<1>1. PICK S \in SUBSET blocks : Sound(S)
  BY ReachableLeast, ReachableSound
<1>2. operand \in Word
  BY DEF Layout, HeapTypeOK, Slots, Word, NULL, HeapAssumption
<1>3. Layout' /\ b \notin blocks
  BY <1>2, LayoutNewBlock
<1>4. blocks' = blocks \cup {b} /\ S \cup {b} \in SUBSET blocks'
  BY <1>1 DEF NewBlock
<1>5. /\ size'[b] = n /\ n \in Nat
      /\ \A p \in blocks : Extent(p)' = Extent(p)
  BY <1>3 DEF NewBlock, Extent, Layout, HeapTypeOK, HeapAssumption
<1>6. ASSUME NEW v, Known(S, v) PROVE Known(S \cup {b}, v)'
  BY <1>4, <1>5, <1>6 DEF Known, Resolves, Within
<1>7. Known(S, NULL)
  BY DEF Known, Resolves, Within, Extent, NULL, Layout, HeapTypeOK, Address
<1>8. \A s \in Rooted : s \in Slots /\ Known(S, slot[s])
  BY <1>1 DEF Sound, Rooted, Slots
<1>9. Known(S, operand)
  BY <1>7, <1>8 DEF Rooted
<1>10. ASSUME n # 0 PROVE Known(S \cup {b}, b)'
  <2>1. Within(b, b)'
    BY <1>5, <1>10 DEF Within, Extent, Address
  <2>2. \A o \in blocks' : Within(o, b)' => o = b
    <3>. SUFFICES ASSUME NEW o \in blocks, Within(o, b)' PROVE FALSE
      BY <1>4
    <3>1. b + n <= o - HEADER \/ o + size[o] <= b - HEADER
      BY DEF NewBlock, Vacant
    <3>2. b \in Extent(o)
      BY <1>5 DEF Within
    <3>3. o \in Nat /\ size[o] \in Nat /\ HEADER \in Nat \ {0} /\ b \in Nat
      BY DEF Layout, HeapTypeOK, Address, HeapAssumption
    <3> QED BY <1>5, <3>1, <3>2, <3>3 DEF Extent
  <2> QED BY <1>4, <2>1, <2>2 DEF Known, Resolves
<1>11. \A s \in Rooted' : Known(S \cup {b}, slot[s])' 
  <2>1. Rooted' = Rooted
    BY DEF NewBlock, Rooted
  <2>2. \A s \in Rooted : slot'[s] = slot[s] \/ slot'[s] = NULL \/ (n # 0 /\ slot'[s] = b)
    BY <1>8 DEF NewBlock, Layout, HeapTypeOK
  <2>. SUFFICES ASSUME NEW s \in Rooted, NEW v, v = slot'[s]
                PROVE  Known(S \cup {b}, v)'
    BY <2>1
  <2> QED BY <1>6, <1>7, <1>8, <1>10, <2>2
<1>12. \A p \in S : \A a \in Extent(p)' : Known(S \cup {b}, mem[a])'
  <2>. SUFFICES ASSUME NEW p \in S, NEW a \in Extent(p)
                PROVE  Known(S \cup {b}, mem[a])'
    BY <1>5
  <2>1. Known(S, mem[a])
    BY <1>1 DEF Sound
  <2>2. b + n <= p - HEADER \/ p + size[p] <= b - HEADER
    BY DEF NewBlock, Vacant
  <2>3. /\ p \in Nat /\ size[p] \in Nat /\ HEADER \in Nat \ {0} /\ b \in Nat
        /\ p + size[p] - 1 <= LAST /\ HEADER < p /\ LAST \in Nat
    BY DEF Layout, HeapTypeOK, Address, HeapAssumption, InHeap
  <2>4. a \in Address /\ a \notin b .. (b + n - 1)
    BY <1>5, <2>2, <2>3 DEF Extent, Address
  <2>5. mem'[a] = mem[a]
    BY <2>4 DEF NewBlock
  <2> QED BY <1>6, <2>1, <2>5
<1>13. \A a \in Extent(b)' : Known(S \cup {b}, mem[a])'
  <2>. SUFFICES ASSUME NEW a \in Extent(b)' PROVE Known(S \cup {b}, mem[a])'
    OBVIOUS
  <2>1. a \in Address /\ a \in b .. (b + n - 1)
    BY <1>3, <1>4, <1>5 DEF Extent, Layout, InHeap, HeapAssumption, Address
  <2>2. mem'[a] = operand \/ mem'[a] = NULL
    BY <2>1 DEF NewBlock
  <2> QED BY <1>6, <1>7, <1>9, <2>2
<1>14. Sound(S \cup {b})'
  BY <1>11, <1>12, <1>13 DEF Sound
<1> QED BY <1>4, <1>14, SoundEnoughNext

\* Taking back a block that nothing reaches takes no word from one that is
\* reached.
LEMMA FreeSound ==
  ASSUME HeapAssumption, Layout, NoDangling, NEW b \in blocks \ Reachable, Free(b)
  PROVE  NoDangling'
<1>1. PICK S \in SUBSET blocks : Sound(S) /\ b \notin S
  BY ReachableLeast, ReachableSound
<1>2. blocks' = blocks \ {b} /\ S \in SUBSET blocks'
  BY <1>1 DEF Free
<1>3. \A p \in blocks' : Extent(p)' = Extent(p)
  BY <1>2 DEF Free, Extent, Layout, HeapTypeOK
<1>4. ASSUME NEW v, Known(S, v) PROVE Known(S, v)'
  BY <1>1, <1>2, <1>3, <1>4 DEF Known, Resolves, Within
<1>5. \A s \in Rooted' : Known(S, slot[s])'
  BY <1>1, <1>4 DEF Free, Rooted, Sound
<1>6. ASSUME NEW p \in S, NEW a \in Extent(p)' PROVE Known(S, mem[a])'
  <2>1. a \in Extent(p) /\ p \in blocks /\ p # b
    BY <1>1, <1>2, <1>3, <1>6
  <2>2. a \notin Extent(b)
    BY <2>1, OneBlock DEF Within
  <2>3. a \in Address
    BY <2>1 DEF Extent, Layout, HeapTypeOK, InHeap, Address, HeapAssumption
  <2>4. mem'[a] = mem[a]
    BY <2>2, <2>3 DEF Free
  <2> QED BY <1>1, <1>4, <2>1, <2>4 DEF Sound
<1>7. Sound(S)'
  BY <1>5, <1>6 DEF Sound
<1> QED BY <1>2, <1>7, SoundEnoughNext

-----------------------------------------------------------------------------
(* The theorems.                                                           *)

\* Every step keeps the layout.
LEMMA StepLayout ==
  ASSUME HeapAssumption, Layout, [HeapNext]_heapVars
  PROVE  Layout'
<1>1. CASE Program
  BY <1>1, LayoutProgram
<1>2. ASSUME NEW b \in Address, NEW n \in SIZES, NEW dst \in Locals,
             NEW operand \in {NULL} \cup {slot[l] : l \in Locals},
             NewBlock(b, n, dst, operand)
      PROVE  Layout'
  <2>1. operand \in Word
    BY DEF Layout, HeapTypeOK, Slots, Word, NULL, HeapAssumption
  <2> QED BY <1>2, <2>1, LayoutNewBlock
<1>3. ASSUME NEW b \in blocks, Free(b) PROVE Layout'
  BY <1>3, LayoutFree
<1>4. CASE UNCHANGED heapVars
  BY <1>4 DEF heapVars, Layout, HeapTypeOK, InHeap, Disjoint
<1> QED BY <1>1, <1>2, <1>3, <1>4 DEF HeapNext, Allocate, Reclaim

\* Where no static is used unregistered, no step leaves a pointer dangling.
LEMMA StepNoDangling ==
  ASSUME HeapAssumption, ~ GENERATED, Layout, NoDangling, [HeapNext]_heapVars
  PROVE  NoDangling'
<1>1. CASE Program
  BY <1>1, ProgramSound
<1>2. CASE Allocate
  BY <1>2, NewBlockSound DEF Allocate
<1>3. CASE Reclaim
  BY <1>3, FreeSound DEF Reclaim
<1>4. CASE UNCHANGED heapVars
  BY <1>4 DEF heapVars, NoDangling, RootWords, Rooted, Reachable, ClosedSet,
              Contents, Extent, Within, Resolves
<1> QED BY <1>1, <1>2, <1>3, <1>4 DEF HeapNext

\* The heap starts out empty.
LEMMA InitHolds ==
  ASSUME HeapAssumption, HeapInit
  PROVE  Layout /\ NoDangling
BY DEF HeapInit, Layout, HeapTypeOK, InHeap, Disjoint, NoDangling, RootWords,
       Rooted, Reachable, Resolves, Address, Word, Slots, NULL, HeapAssumption

\* Blocks stay inside the heap and never overlap one another's words or
\* headers, whatever the program does.
THEOREM LayoutHolds == HeapAssumption /\ HeapSpec => [](HeapTypeOK /\ Disjoint)
<1>. SUFFICES ASSUME HeapAssumption PROVE HeapSpec => [](HeapTypeOK /\ Disjoint)
  OBVIOUS
<1>1. HeapInit => Layout
  BY InitHolds
<1>2. Layout /\ [HeapNext]_heapVars => Layout'
  BY StepLayout
<1>3. Layout => HeapTypeOK /\ Disjoint
  BY DEF Layout
<1> QED BY <1>1, <1>2, <1>3, PTL DEF HeapSpec

\* Whatever the program does, no pointer it can get at dangles, provided it
\* registers the statics it uses: storage is taken back only from blocks that
\* no root reaches (rsg_gc.c, gc_sweep), and that is enough.
THEOREM NoDanglingHolds ==
  HeapAssumption /\ ~ GENERATED /\ HeapSpec => []NoDangling
<1>. SUFFICES ASSUME HeapAssumption, ~ GENERATED PROVE HeapSpec => []NoDangling
  OBVIOUS
<1>1. HeapInit => Layout /\ NoDangling
  BY InitHolds
<1>2. Layout /\ NoDangling /\ [HeapNext]_heapVars => (Layout /\ NoDangling)'
  BY StepLayout, StepNoDangling
<1> QED BY <1>1, <1>2, PTL DEF HeapSpec
=============================================================================
