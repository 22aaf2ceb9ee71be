------------------------------ MODULE HashMap ------------------------------
(***************************************************************************)
(* What hash_table.h promises: a map from keys to values whose three       *)
(* operations are called one at a time, take effect once, and return.      *)
(* HashTable is shown to implement it.                                     *)
(***************************************************************************)
CONSTANTS Keys, Values,
          NULL,          \* no value
          NONE,          \* no operation
          OPS            \* the operations the client uses

VARIABLES map,           \* the value of each key, NULL if it has none
          op,            \* the operation being run, its key and its value
          result         \* what the last operation returned

mapVars == <<map, op, result>>

Operations ==
  [name: OPS \cap {"insert"}, key: Keys, value: Values]
    \cup [name: OPS \cap {"lookup", "remove"}, key: Keys, value: {NULL}]

Idle == [name |-> NONE, key |-> NONE, value |-> NULL]

MapInit ==
  /\ map = [k \in Keys |-> NULL] /\ op = Idle /\ result = NULL

Call(o) ==
  /\ op = Idle
  /\ op' = o
  /\ UNCHANGED <<map, result>>

ReturnInsert ==
  /\ op.name = "insert"
  /\ map' = [map EXCEPT ![op.key] = op.value]
  /\ result' = NULL
  /\ op' = Idle

ReturnLookup ==
  /\ op.name = "lookup"
  /\ result' = map[op.key]
  /\ op' = Idle
  /\ UNCHANGED map

ReturnRemove ==
  /\ op.name = "remove"
  /\ result' = (map[op.key] # NULL)
  /\ map' = [map EXCEPT ![op.key] = NULL]
  /\ op' = Idle

Return == ReturnInsert \/ ReturnLookup \/ ReturnRemove

MapNext == (\E o \in Operations : Call(o)) \/ Return

MapSpec == MapInit /\ [][MapNext]_mapVars
=============================================================================
