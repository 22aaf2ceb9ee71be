----------------------------- MODULE HashTable -----------------------------
(***************************************************************************)
(* core/hash_table.c: open addressing with linear probing.  The search for *)
(* a key, and the rehash, run one slot at a time, so that a search that    *)
(* does not end shows as one.                                              *)
(*                                                                         *)
(* A slot's key is EMPTY (the C NULL), TOMBSTONE or a key; what hash_str   *)
(* computes is a constant.  Slots are numbered from 0, as in C.            *)
(***************************************************************************)
EXTENDS Integers, FiniteSets

CONSTANTS Keys, Values, NULL, NONE, OPS,    \* as in HashMap
          EMPTY, TOMBSTONE,
          Hash,                  \* hash_str of each key
          INITIAL_CAPACITY,      \* HASH_TABLE_INITIAL_CAPACITY
          MAX_CAPACITY           \* bound on the growth of the table

ASSUME TableAssumption ==
  /\ EMPTY \notin Keys /\ TOMBSTONE \notin Keys /\ EMPTY # TOMBSTONE
  /\ NONE \notin OPS
  /\ NULL \notin Values
  /\ OPS \subseteq {"insert", "lookup", "remove"}
  /\ Hash \in [Keys -> Nat]
  /\ INITIAL_CAPACITY \in Nat \ {0}
  /\ MAX_CAPACITY \in Nat

VARIABLES keyAt, valueAt,        \* table->entries
          capacity, count,       \* table->capacity, table->count
          pc,                    \* "idle", "rehash" or "find"
          op,                    \* the call being run
          idx,                   \* find_entry's idx, or the rehash's i
          newKeyAt, newValueAt,  \* new_entries
          result                 \* what the last call returned

tableVars == <<keyAt, valueAt, capacity, count>>
newVars == <<newKeyAt, newValueAt>>
vars == <<tableVars, newVars, pc, op, idx, result>>

Slots(c) == 0 .. (c - 1)

Home(k, c) == Hash[k] % c

\* The slot d steps from h, round the end of a table of c slots.
Step(h, d, c) == IF h + d < c THEN h + d ELSE h + d - c

Distance(h, s, c) == IF h <= s THEN s - h ELSE s - h + c

NewCapacity == IF capacity = 0 THEN INITIAL_CAPACITY ELSE capacity * 2

-----------------------------------------------------------------------------
(* The abstract state.                                                     *)

Holds(k) == \E s \in Slots(capacity) : keyAt[s] = k

Contents ==
  [k \in Keys |-> IF Holds(k)
                  THEN valueAt[CHOOSE s \in Slots(capacity) : keyAt[s] = k]
                  ELSE NULL]

Map == INSTANCE HashMap WITH map <- Contents

TypeOK ==
  /\ capacity \in Nat /\ count \in Nat
  /\ keyAt \in [Slots(capacity) -> Keys \cup {EMPTY, TOMBSTONE}]
  /\ valueAt \in [Slots(capacity) -> Values \cup {NULL}]
  /\ pc \in {"idle", "rehash", "find"}
  /\ op \in Map!Operations \cup {Map!Idle}
  /\ idx \in Nat
  /\ pc = "rehash" =>
       /\ newKeyAt \in [Slots(NewCapacity) -> Keys \cup {EMPTY}]
       /\ newValueAt \in [Slots(NewCapacity) -> Values \cup {NULL}]

-----------------------------------------------------------------------------
(* Probing.                                                                *)

\* The first slot from h on, in a table of c slots, whose key is in S.
FirstFrom(h, c, keys, S) ==
  CHOOSE s \in Slots(c) :
    /\ keys[s] \in S
    /\ \A d \in 0 .. (Distance(h, s, c) - 1) : keys[Step(h, d, c)] \notin S

MustGrow == capacity = 0 \/ count * 4 >= capacity * 3

-----------------------------------------------------------------------------
(* The calls.                                                              *)

StartFind(k, c) == pc' = "find" /\ idx' = Home(k, c)

Insert(k, v) ==
  /\ pc = "idle" /\ "insert" \in OPS
  /\ op' = [name |-> "insert", key |-> k, value |-> v]
  /\ IF MustGrow
     THEN /\ NewCapacity <= MAX_CAPACITY
          /\ pc' = "rehash" /\ idx' = 0
          /\ newKeyAt' = [s \in Slots(NewCapacity) |-> EMPTY]
          /\ newValueAt' = [s \in Slots(NewCapacity) |-> NULL]
     ELSE StartFind(k, capacity) /\ UNCHANGED newVars
  /\ UNCHANGED <<tableVars, result>>

LookupOrRemove(name, k) ==
  /\ pc = "idle" /\ name \in OPS
  /\ op' = [name |-> name, key |-> k, value |-> NULL]
  /\ pc' = "find"
  /\ idx' = IF capacity = 0 THEN 0 ELSE Home(k, capacity)
  /\ UNCHANGED <<tableVars, newVars, result>>

\* hash_table__resize, one old slot: tombstones stay behind.
Rehash ==
  /\ pc = "rehash" /\ idx < capacity
  /\ IF keyAt[idx] \in Keys
     THEN LET k == keyAt[idx]
              s == FirstFrom(Home(k, NewCapacity), NewCapacity, newKeyAt, {EMPTY})
          IN /\ newKeyAt' = [newKeyAt EXCEPT ![s] = k]
             /\ newValueAt' = [newValueAt EXCEPT ![s] = valueAt[idx]]
     ELSE UNCHANGED newVars
  /\ idx' = idx + 1
  /\ UNCHANGED <<tableVars, pc, op, result>>

\* The end of the resize; then find_entry for the key to be inserted.
UseNewEntries ==
  /\ pc = "rehash" /\ idx = capacity
  /\ keyAt' = newKeyAt /\ valueAt' = newValueAt
  /\ capacity' = NewCapacity
  /\ newKeyAt' = << >> /\ newValueAt' = << >>
  /\ StartFind(op.key, NewCapacity)
  /\ UNCHANGED <<count, op, result>>

\* Mutant: the probe strides over every other slot.
ProbeTwo ==
  /\ pc = "find" /\ capacity # 0
  /\ keyAt[idx] \notin {EMPTY, op.key}
  /\ idx' = Step(idx, 2, capacity)
  /\ UNCHANGED <<tableVars, newVars, pc, op, result>>

\* hash_table__find_entry goes on to the next slot.
Probe ==
  /\ pc = "find" /\ capacity # 0
  /\ keyAt[idx] \notin {EMPTY, op.key}
  /\ idx' = Step(idx, 1, capacity)
  /\ UNCHANGED <<tableVars, newVars, pc, op, result>>

Done(r) ==
  /\ result' = r
  /\ pc' = "idle" /\ op' = Map!Idle /\ idx' = 0

Hit == pc = "find" /\ capacity # 0 /\ keyAt[idx] = op.key

\* Mutant: a tombstone ends the search like an empty slot.
MissAtTombstone ==
  pc = "find" /\ (capacity # 0 => keyAt[idx] \in {EMPTY, TOMBSTONE})

Miss == pc = "find" /\ (capacity # 0 => keyAt[idx] = EMPTY)

\* Mutant: storing over a key counts it again.
UpdateCounts ==
  /\ Hit /\ op.name = "insert"
  /\ valueAt' = [valueAt EXCEPT ![idx] = op.value]
  /\ count' = count + 1
  /\ Done(NULL)
  /\ UNCHANGED <<keyAt, capacity, newVars>>

Update ==
  /\ Hit /\ op.name = "insert"
  /\ valueAt' = [valueAt EXCEPT ![idx] = op.value]
  /\ Done(NULL)
  /\ UNCHANGED <<keyAt, capacity, count, newVars>>

\* The key is new: it takes the first slot that is empty or a tombstone.
Add ==
  /\ Miss /\ op.name = "insert"
  /\ LET s == FirstFrom(Home(op.key, capacity), capacity, keyAt, {EMPTY, TOMBSTONE})
     IN /\ keyAt' = [keyAt EXCEPT ![s] = op.key]
        /\ valueAt' = [valueAt EXCEPT ![s] = op.value]
  /\ count' = count + 1
  /\ Done(NULL)
  /\ UNCHANGED <<capacity, newVars>>

LookupEnds ==
  /\ op.name = "lookup"
  /\ \/ Hit /\ Done(valueAt[idx])
     \/ Miss /\ Done(NULL)
  /\ UNCHANGED <<tableVars, newVars>>

\* Mutant: the slot of a removed key becomes empty, with no tombstone.
RemoveToEmpty ==
  /\ Hit /\ op.name = "remove"
  /\ keyAt' = [keyAt EXCEPT ![idx] = EMPTY]
  /\ valueAt' = [valueAt EXCEPT ![idx] = NULL]
  /\ count' = count - 1
  /\ Done(TRUE)
  /\ UNCHANGED <<capacity, newVars>>

Remove ==
  /\ Hit /\ op.name = "remove"
  /\ keyAt' = [keyAt EXCEPT ![idx] = TOMBSTONE]
  /\ valueAt' = [valueAt EXCEPT ![idx] = NULL]
  /\ count' = count - 1
  /\ Done(TRUE)
  /\ UNCHANGED <<capacity, newVars>>

\* Mutant: a key that is not there is counted off all the same.
RemoveUncounted ==
  /\ Miss /\ op.name = "remove"
  /\ count' = count - 1
  /\ Done(FALSE)
  /\ UNCHANGED <<keyAt, valueAt, capacity, newVars>>

RemoveNothing ==
  /\ Miss /\ op.name = "remove"
  /\ Done(FALSE)
  /\ UNCHANGED <<tableVars, newVars>>

-----------------------------------------------------------------------------
Init ==
  /\ keyAt = << >> /\ valueAt = << >> /\ capacity = 0 /\ count = 0
  /\ newKeyAt = << >> /\ newValueAt = << >>
  /\ pc = "idle" /\ op = Map!Idle /\ idx = 0 /\ result = NULL

Running ==
  \/ Rehash \/ UseNewEntries
  \/ Probe \/ Update \/ Add \/ LookupEnds \/ Remove \/ RemoveNothing

Next ==
  \/ \E k \in Keys, v \in Values : Insert(k, v)
  \/ \E k \in Keys, name \in {"lookup", "remove"} : LookupOrRemove(name, k)
  \/ Running

Spec == Init /\ [][Next]_vars

\* A call is straight-line code of one thread: it keeps running.
FairSpec == Spec /\ WF_vars(Running)

-----------------------------------------------------------------------------
(* Properties.                                                             *)

\* A key is stored once, and the slots from its home to its own are all in
\* use, so that a search meets it before it meets an empty slot
\* (hash_table.c:69-85).
ProbeChains ==
  \A s \in Slots(capacity) :
    keyAt[s] \in Keys =>
      /\ \A t \in Slots(capacity) : keyAt[t] = keyAt[s] => t = s
      /\ LET h == Home(keyAt[s], capacity) IN
           \A d \in 0 .. (Distance(h, s, capacity) - 1) :
             keyAt[Step(h, d, capacity)] # EMPTY

\* count is the number of keys, through tombstones and growth.
CountIsKeys == count = Cardinality({s \in Slots(capacity) : keyAt[s] \in Keys})

\* The table is a map: every call has the effect, and gives the result, that
\* hash_table.h:38-43 promises.
ImplementsMap == Map!MapSpec

\* A search that can end does: if one slot of the table is empty, wherever it
\* is, the probe comes to it or to the key (hash_table.c:73-85).
SearchEndsAtEmpty ==
  (pc = "find" /\ \E s \in Slots(capacity) : keyAt[s] = EMPTY) ~> (pc = "idle")

\* Each call returns (hash_table.h:40: "Returns the stored value or NULL").
CallsReturn == (pc # "idle") ~> (pc = "idle")
=============================================================================
