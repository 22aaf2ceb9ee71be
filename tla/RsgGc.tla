------------------------------- MODULE RsgGc -------------------------------
(***************************************************************************)
(* The collector of runtime/rsg_gc.c: a sorted array of the tracked blocks,*)
(* a conservative mark phase with an explicit worklist, a sweep that       *)
(* compacts the array in place, and a threshold on the number of blocks.   *)
(*                                                                         *)
(* The program above it is that of GcHeap.  It stands still while the      *)
(* collector runs: the runtime is single-threaded, and a collection starts *)
(* only inside rsg_heap_alloc or rsg_gc_collect.  The collector's own      *)
(* steps are kept apart so that the state between them can be reasoned     *)
(* about.                                                                  *)
(***************************************************************************)
EXTENDS Integers, Sequences, FiniteSets

CONSTANTS LAST, HEADER, SIZES, Locals, Statics, GENERATED,  \* as in GcHeap
          INITIAL_THRESHOLD,   \* RSG_GC_INITIAL_THRESHOLD
          MAX_ROOTS            \* bound on the registrations held at a time

ASSUME GcAssumption ==
  /\ LAST \in Nat /\ HEADER \in Nat \ {0}
  /\ SIZES \subseteq Nat
  /\ Locals \cap Statics = {}
  /\ GENERATED \in BOOLEAN
  /\ MAX_ROOTS \in Nat
  /\ INITIAL_THRESHOLD \in Nat /\ INITIAL_THRESHOLD >= 2

VARIABLES blocks, size, mem, slot,   \* as in GcHeap
          pc,          \* "run", "mark", "sweep", "malloc" or "aborted"
          request,     \* words rsg_heap_alloc was asked for, or NONE
          objects,     \* g_gc_objects[0 .. g_gc_object_count - 1]
          marked,      \* the blocks whose header has marked = true
          threshold,   \* g_gc_threshold
          roots,       \* g_gc_roots[0 .. g_gc_root_count - 1]
          worklist,    \* g_gc_worklist[0 .. g_gc_worklist_len - 1]
          scan,        \* words gc_mark_roots or gc_trace_worklist has yet to
                       \* hand to gc_mark_value
          read, write  \* gc_sweep's cursors (1-based)

collectorVars == <<pc, request, objects, marked, threshold, roots, worklist,
                   scan, read, write>>
storeVars == <<blocks, size, mem, slot>>
vars == <<storeVars, collectorVars>>

NONE == -1
NOTHING == 0      \* gc_find_object's NULL

Elems(s) == {s[i] : i \in DOMAIN s}

\* How often each static is listed in g_gc_roots.
Registrations == [s \in Statics |-> Cardinality({i \in DOMAIN roots : roots[i] = s})]

Heap == INSTANCE GcHeap WITH registered <- Registrations
Address == Heap!Address
Word == Heap!Word
Slots == Heap!Slots
NULL == Heap!NULL
Reachable == Heap!Reachable

count == Len(objects)

TypeOK ==
  /\ blocks \subseteq Address
  /\ size \in [Address -> Nat]
  /\ mem \in [Address -> Word]
  /\ slot \in [Slots -> Word]
  /\ pc \in {"run", "mark", "sweep", "malloc", "aborted"}
  /\ request \in SIZES \cup {NONE}
  /\ objects \in Seq(Address)
  /\ marked \subseteq Address
  /\ threshold \in Nat
  /\ roots \in Seq(Statics)
  /\ worklist \in Seq(Address)
  /\ scan \subseteq Word
  /\ read \in Nat /\ write \in Nat

-----------------------------------------------------------------------------
(* The sorted array.                                                       *)

\* Where the binary search of gc_find_object stops: the objects before that
\* point start at or below v, the others above it.
UpperBound(v) ==
  CHOOSE low \in 0 .. count :
    /\ \A i \in 1 .. low : objects[i] <= v
    /\ \A i \in (low + 1) .. count : objects[i] > v

\* Mutant: only the first word of a block is recognised.
FindStart(v) == IF v \in Elems(objects) THEN v ELSE NOTHING

FindObject(v) ==
  LET low == UpperBound(v) IN
    IF low # 0 /\ v < objects[low] + size[objects[low]]
    THEN objects[low]
    ELSE NOTHING

\* Where the binary search of gc_insert_object stops.
LowerBound(key) ==
  CHOOSE low \in 0 .. count :
    /\ \A i \in 1 .. low : objects[i] < key
    /\ \A i \in (low + 1) .. count : objects[i] >= key

\* Mutant: the new object is appended, not inserted.
AppendObject(key) == Append(objects, key)

\* memmove of the objects from the insertion point on.
InsertObject(key) ==
  LET low == LowerBound(key) IN
    [i \in 1 .. (count + 1) |-> IF i <= low THEN objects[i]
                                ELSE IF i = low + 1 THEN key
                                ELSE objects[i - 1]]

-----------------------------------------------------------------------------
(* The program, between two calls of the collector.                        *)

ProgramStep ==
  /\ pc = "run"
  /\ UNCHANGED collectorVars
  /\ \/ \E dst, src \in Slots :
          \/ Heap!Move(dst, src) \/ Heap!Advance(dst, src)
          \/ Heap!Load(dst, src) \/ Heap!Store(dst, src)
     \/ \E dst \in Slots : Heap!Drop(dst)

AddRoot(s) ==
  /\ pc = "run" /\ ~ GENERATED
  /\ Len(roots) < MAX_ROOTS
  /\ s \in Elems(roots) \/ slot[s] = NULL
  /\ roots' = Append(roots, s)
  /\ UNCHANGED <<storeVars, pc, request, objects, marked, threshold, worklist,
                 scan, read, write>>

\* Mutant: every entry equal to s goes, not the first.
RemoveAllRoots(s) ==
  /\ pc = "run" /\ ~ GENERATED
  /\ s \in Elems(roots)
  /\ roots' = SelectSeq(roots, LAMBDA r : r # s)
  /\ UNCHANGED <<storeVars, pc, request, objects, marked, threshold, worklist,
                 scan, read, write>>

\* The first entry equal to s is overwritten by the last one.
RemoveRoot(s) ==
  /\ pc = "run" /\ ~ GENERATED
  /\ \E first \in DOMAIN roots :
       /\ roots[first] = s
       /\ \A j \in 1 .. (first - 1) : roots[j] # s
       /\ roots' = [i \in 1 .. (Len(roots) - 1) |->
                      IF i = first THEN roots[Len(roots)] ELSE roots[i]]
  /\ UNCHANGED <<storeVars, pc, request, objects, marked, threshold, worklist,
                 scan, read, write>>

-----------------------------------------------------------------------------
(* Collection.                                                             *)

\* gc_mark_roots: the spilled registers and the stack, then the registered
\* slots that are not NULL.
StartMark ==
  /\ pc' = "mark"
  /\ scan' = {slot[l] : l \in Locals} \cup ({slot[s] : s \in Elems(roots)} \ {NULL})
  /\ worklist' = << >>

\* rsg_gc_collect, called by the program; emitted code never does.
Collect ==
  /\ pc = "run" /\ ~ GENERATED
  /\ request' = NONE
  /\ StartMark
  /\ UNCHANGED <<storeVars, objects, marked, threshold, roots, read, write>>

\* rsg_heap_alloc, up to its collection.
HeapAlloc(n) ==
  /\ pc = "run"
  /\ request' = n
  /\ IF count >= threshold
     THEN StartMark
     ELSE pc' = "malloc" /\ UNCHANGED <<scan, worklist>>
  /\ UNCHANGED <<storeVars, objects, marked, threshold, roots, read, write>>

\* gc_mark_value.
MarkValue(v) ==
  /\ pc = "mark" /\ v \in scan
  /\ scan' = scan \ {v}
  /\ LET object == FindObject(v) IN
       IF object = NOTHING \/ object \in marked
       THEN UNCHANGED <<marked, worklist>>
       ELSE /\ marked' = marked \cup {object}
            /\ worklist' = Append(worklist, object)
  /\ UNCHANGED <<storeVars, pc, request, objects, threshold, roots, read, write>>

\* Mutants: the last word of the object is not scanned; it is not popped.
TraceShort ==
  /\ pc = "mark" /\ scan = {} /\ worklist # << >>
  /\ worklist' = SubSeq(worklist, 1, Len(worklist) - 1)
  /\ LET b == worklist[Len(worklist)] IN scan' = {mem[a] : a \in b .. (b + size[b] - 2)}
  /\ UNCHANGED <<storeVars, pc, request, objects, marked, threshold, roots,
                 read, write>>

TraceNoPop ==
  /\ pc = "mark" /\ scan = {} /\ worklist # << >>
  /\ scan' = Heap!Contents(worklist[Len(worklist)])
  /\ UNCHANGED <<storeVars, pc, request, objects, marked, threshold, roots,
                 worklist, read, write>>

\* gc_trace_worklist: pop an object and scan its words.
Trace ==
  /\ pc = "mark" /\ scan = {} /\ worklist # << >>
  /\ worklist' = SubSeq(worklist, 1, Len(worklist) - 1)
  /\ scan' = Heap!Contents(worklist[Len(worklist)])
  /\ UNCHANGED <<storeVars, pc, request, objects, marked, threshold, roots,
                 read, write>>

StartSweep ==
  /\ pc = "mark" /\ scan = {} /\ worklist = << >>
  /\ pc' = "sweep" /\ read' = 1 /\ write' = 0
  /\ UNCHANGED <<storeVars, request, objects, marked, threshold, roots, worklist,
                 scan>>

\* Mutant: a kept object stays marked.
SweepKeepMarked ==
  /\ pc = "sweep" /\ read <= count
  /\ objects[read] \in marked
  /\ objects' = [objects EXCEPT ![write + 1] = objects[read]]
  /\ read' = read + 1 /\ write' = write + 1
  /\ UNCHANGED <<storeVars, pc, request, marked, threshold, roots, worklist, scan>>

\* gc_sweep, one object: kept and unmarked, or freed.
SweepKeep ==
  /\ pc = "sweep" /\ read <= count
  /\ objects[read] \in marked
  /\ marked' = marked \ {objects[read]}
  /\ objects' = [objects EXCEPT ![write + 1] = objects[read]]
  /\ read' = read + 1 /\ write' = write + 1
  /\ UNCHANGED <<storeVars, pc, request, threshold, roots, worklist, scan>>

SweepFree ==
  /\ pc = "sweep" /\ read <= count
  /\ objects[read] \notin marked
  /\ read' = read + 1
  /\ UNCHANGED <<pc, request, objects, marked, threshold, roots, worklist, scan,
                 write>>
  /\ Heap!Free(objects[read])

\* Mutant: the threshold does not grow beyond what survived.
TightThreshold(n) == IF n < INITIAL_THRESHOLD \div 2 THEN INITIAL_THRESHOLD ELSE n

NewThreshold(n) ==
  IF n < INITIAL_THRESHOLD \div 2 THEN INITIAL_THRESHOLD ELSE n * 2

\* The end of gc_sweep and of rsg_gc_collect; back to the caller.
Finish ==
  /\ pc = "sweep" /\ read > count
  /\ objects' = SubSeq(objects, 1, write)
  /\ threshold' = NewThreshold(write)
  /\ pc' = IF request = NONE THEN "run" ELSE "malloc"
  /\ read' = 0 /\ write' = 0
  /\ UNCHANGED <<storeVars, request, marked, roots, worklist, scan>>

\* rsg_heap_alloc, from checked_malloc on.
Malloc ==
  /\ pc = "malloc"
  /\ pc' = "run" /\ request' = NONE
  /\ UNCHANGED <<marked, threshold, roots, worklist, scan, read, write>>
  /\ \E b \in Address, dst \in Locals :
       \E operand \in {NULL} \cup {slot[l] : l \in Locals} :
         /\ Heap!NewBlock(b, request, dst, operand)
         /\ objects' = InsertObject(b)

\* checked_malloc aborts.
OutOfMemory ==
  /\ pc = "malloc"
  /\ \A b \in Address : ~ Heap!Vacant(b, request)
  /\ pc' = "aborted"
  /\ UNCHANGED <<storeVars, request, objects, marked, threshold, roots, worklist,
                 scan, read, write>>

-----------------------------------------------------------------------------
Init ==
  /\ blocks = {} /\ size = [a \in Address |-> 0]
  /\ mem = [a \in Address |-> NULL] /\ slot = [s \in Slots |-> NULL]
  /\ pc = "run" /\ request = NONE
  /\ objects = << >> /\ marked = {} /\ threshold = INITIAL_THRESHOLD
  /\ roots = << >> /\ worklist = << >> /\ scan = {}
  /\ read = 0 /\ write = 0

CollectorStep ==
  \/ \E v \in Word : MarkValue(v)
  \/ Trace \/ StartSweep \/ SweepKeep \/ SweepFree \/ Finish

Next ==
  \/ ProgramStep
  \/ \E s \in Statics : AddRoot(s) \/ RemoveRoot(s)
  \/ Collect
  \/ \E n \in SIZES : HeapAlloc(n)
  \/ CollectorStep
  \/ Malloc \/ OutOfMemory

Spec == Init /\ [][Next]_vars

\* A collection is a loop of the one thread there is: it keeps running.
FairSpec == Spec /\ WF_vars(CollectorStep)

-----------------------------------------------------------------------------
(* Properties.                                                             *)

\* Outside a sweep the array lists exactly the allocated blocks, in strictly
\* ascending order: what both binary searches rely on (rsg_gc.c:40).
SortedIndex ==
  pc # "sweep" =>
    /\ Elems(objects) = blocks
    /\ \A i, j \in DOMAIN objects : i < j => objects[i] < objects[j]

\* An allocation never meets a table at its limit: whatever survived the
\* collection it started, the block it then takes is below the threshold, so
\* no allocation collects twice (rsg_gc.c:230, 252-255).
RoomAfterCollect == pc = "malloc" => count < threshold

\* When the mark phase is over, the marked blocks are the reachable ones, no
\* fewer (nothing live is freed) and no more (garbage is not retained beyond
\* what conservative scanning of the roots implies).
MarkedIsReachable == pc = "mark" /\ scan = {} /\ worklist = << >> => marked = Reachable

\* Nothing is left marked when a collection returns: a mark that survived
\* would hide the block's words from the next trace (rsg_gc.c:205).
NoStaleMark == pc \in {"run", "malloc", "aborted"} => marked = {}

\* Every collection comes to an end, cyclic data included.
CollectEnds == (pc = "mark") ~> (pc \in {"run", "malloc"})

\* The collector keeps the promise of GcHeap: storage is taken back only from
\* blocks that no root reaches, and a static is a root until it has been
\* removed as often as it was added (rsg_gc.c:234-250).
ImplementsHeap == Heap!HeapSpec

\* What GcHeap's program can rely on holds of this one.
NoDangling == Heap!NoDangling
UsableResolve == Heap!UsableResolve
=============================================================================
