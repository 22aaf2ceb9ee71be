------------------------------- MODULE GcHeap -------------------------------
(***************************************************************************)
(* What a garbage-collected heap promises to the program above it, with no *)
(* collector in sight: words, blocks, the slots the program keeps pointers *)
(* in, and storage that may be taken back only once nothing reaches it.    *)
(* RsgGc, the collector of runtime/rsg_gc.c, is shown to implement it.     *)
(*                                                                         *)
(* Memory is a range of words 1..LAST.  A block is named by the address of *)
(* its first user word (gc_object_start); HEADER words before that hold    *)
(* the RsgGcObject header.  A word or a slot holds NULL (0) or an address, *)
(* not necessarily the first one of a block: a sub-slice shares the        *)
(* storage of its parent.                                                  *)
(***************************************************************************)
EXTENDS Integers

CONSTANTS LAST,        \* the heap is the words 1..LAST
          HEADER,      \* words of the header in front of each block
          SIZES,       \* sizes, in words, that are requested
          Locals,      \* slots on the C stack or in registers
          Statics,     \* slots in C static storage
          GENERATED,   \* TRUE: the program is the C that cgen emits, which
                       \* uses its statics and registers none of them;
                       \* FALSE: it registers a static before using it
          MAX_ROOTS    \* bound on the registrations of a static

\* Stated here as a definition; RsgGc assumes the same of its constants.
HeapAssumption ==
  /\ LAST \in Nat /\ HEADER \in Nat \ {0}
  /\ SIZES \subseteq Nat
  /\ Locals \cap Statics = {}
  /\ GENERATED \in BOOLEAN
  /\ MAX_ROOTS \in Nat

VARIABLES blocks,      \* first addresses of the blocks that are allocated
          size,        \* size[b]: the words of block b
          mem,         \* contents of the heap
          slot,        \* contents of the slots
          registered   \* how many times each static is registered as a root

heapVars == <<blocks, size, mem, slot, registered>>

NULL == 0
Address == 1 .. LAST
Word == 0 .. LAST
Slots == Locals \cup Statics

HeapTypeOK ==
  /\ blocks \subseteq Address
  /\ size \in [Address -> Nat]
  /\ mem \in [Address -> Word]
  /\ slot \in [Slots -> Word]
  /\ registered \in [Statics -> Nat]

-----------------------------------------------------------------------------
(* Blocks, and what reaches them.                                          *)

Extent(b) == b .. (b + size[b] - 1)

Within(b, v) == v \in Extent(b)

Contents(b) == {mem[a] : a \in Extent(b)}

Rooted == Locals \cup {s \in Statics : registered[s] > 0}

RootWords == {slot[s] : s \in Rooted}

\* A set of blocks that holds every block a root points into, and every
\* block that a word of one of its blocks points into.
ClosedSet(S) ==
  /\ \A v \in RootWords : \A b \in blocks : Within(b, v) => b \in S
  /\ \A p \in S : \A v \in Contents(p) : \A b \in blocks : Within(b, v) => b \in S

\* The least such set.
Reachable == {b \in blocks : \A S \in SUBSET blocks : ClosedSet(S) => b \in S}

\* The slots the program reads and writes.
Usable == IF GENERATED THEN Slots ELSE Rooted

-----------------------------------------------------------------------------
(* The program.                                                            *)

Move(dst, src) ==
  /\ dst \in Usable /\ src \in Usable
  /\ slot' = [slot EXCEPT ![dst] = slot[src]]
  /\ UNCHANGED <<blocks, size, mem, registered>>

Drop(dst) ==
  /\ slot' = [slot EXCEPT ![dst] = NULL]
  /\ UNCHANGED <<blocks, size, mem, registered>>

\* A pointer to a later word of the same block: rsg_slice_sub, &array[i].
Advance(dst, src) ==
  /\ dst \in Usable /\ src \in Usable
  /\ \E b \in blocks : Within(b, slot[src]) /\ Within(b, slot[src] + 1)
  /\ slot' = [slot EXCEPT ![dst] = slot[src] + 1]
  /\ UNCHANGED <<blocks, size, mem, registered>>

Load(dst, src) ==
  /\ dst \in Usable /\ src \in Usable
  /\ slot[src] # NULL
  /\ slot' = [slot EXCEPT ![dst] = mem[slot[src]]]
  /\ UNCHANGED <<blocks, size, mem, registered>>

Store(dst, src) ==
  /\ dst \in Usable /\ src \in Usable
  /\ slot[dst] # NULL
  /\ mem' = [mem EXCEPT ![slot[dst]] = slot[src]]
  /\ UNCHANGED <<blocks, size, slot, registered>>

\* Statics start as zeroed C storage, and a static that is not registered
\* must not hold a pointer when it becomes a root.
Register(s) ==
  /\ ~ GENERATED
  /\ registered[s] < MAX_ROOTS
  /\ registered[s] > 0 \/ slot[s] = NULL
  /\ registered' = [registered EXCEPT ![s] = @ + 1]
  /\ UNCHANGED <<blocks, size, mem, slot>>

\* A slot stays a root until it has been removed as often as it was added.
Unregister(s) ==
  /\ ~ GENERATED
  /\ registered[s] > 0
  /\ registered' = [registered EXCEPT ![s] = @ - 1]
  /\ UNCHANGED <<blocks, size, mem, slot>>

-----------------------------------------------------------------------------
(* Storage.                                                                *)

\* Header and body of a new block lie in the heap, clear of every other.
Vacant(b, n) ==
  /\ b - HEADER \in Address /\ b + n - 1 \in Word
  /\ \A o \in blocks : b + n <= o - HEADER \/ o + size[o] <= b - HEADER

\* The callers (rsg_slice_new, the code emitted for HIR_HEAP_ALLOC) fill the
\* body at once: its first word with an operand, here the value of a slot
\* or NULL, and no word is left as malloc returned it.  An empty block has
\* no word to be pointed to: its address is never used, and stands for NULL.
NewBlock(b, n, dst, operand) ==
  /\ Vacant(b, n)
  /\ blocks' = blocks \cup {b}
  /\ size' = [size EXCEPT ![b] = n]
  /\ mem' = [a \in Address |-> IF a \in b .. (b + n - 1)
                               THEN IF a = b THEN operand ELSE NULL
                               ELSE mem[a]]
  /\ slot' = [slot EXCEPT ![dst] = IF n = 0 THEN NULL ELSE b]
  /\ UNCHANGED registered

\* Contents of storage that is not allocated are never read: a word is NULL.
Free(b) ==
  /\ blocks' = blocks \ {b}
  /\ size' = [size EXCEPT ![b] = 0]
  /\ mem' = [a \in Address |-> IF a \in Extent(b) THEN NULL ELSE mem[a]]
  /\ UNCHANGED <<slot, registered>>

-----------------------------------------------------------------------------
Program ==
  \/ \E dst, src \in Slots :
       Move(dst, src) \/ Advance(dst, src) \/ Load(dst, src) \/ Store(dst, src)
  \/ \E dst \in Slots : Drop(dst)
  \/ \E s \in Statics : Register(s) \/ Unregister(s)

Allocate ==
  \E b \in Address, n \in SIZES, dst \in Locals :
    \E operand \in {NULL} \cup {slot[l] : l \in Locals} :
       NewBlock(b, n, dst, operand)

Reclaim == \E b \in blocks \ Reachable : Free(b)

HeapInit ==
  /\ blocks = {}
  /\ size = [a \in Address |-> 0]
  /\ mem = [a \in Address |-> NULL]
  /\ slot = [s \in Slots |-> NULL]
  /\ registered = [s \in Statics |-> 0]

HeapNext == Program \/ Allocate \/ Reclaim

HeapSpec == HeapInit /\ [][HeapNext]_heapVars

-----------------------------------------------------------------------------
(* Properties.                                                             *)

Resolves(v) == v = NULL \/ \E b \in blocks : Within(b, v)

\* No pointer the program can get at is dangling: a slot that the collector
\* knows of, and each word of a block reached from one, is NULL or lies in a
\* block that is still allocated.
NoDangling ==
  /\ \A v \in RootWords : Resolves(v)
  /\ \A b \in Reachable : \A v \in Contents(b) : Resolves(v)

\* What a program that keeps pointers in statics relies on: the storage of
\* a slot it uses has not been taken back (README.md: a slice is a GC-backed
\* fat pointer, and sub-slicing shares the storage).
UsableResolve == \A s \in Usable : Resolves(slot[s])

\* Blocks, with their headers, do not overlap.
Disjoint ==
  \A b, o \in blocks : b < o => b + size[b] <= o - HEADER
=============================================================================
