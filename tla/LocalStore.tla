------------------------------ MODULE LocalStore ------------------------------
(***************************************************************************)
(* The map of values that a service keeps in its memory                    *)
(* (pkg/slowpoke/state.go), and the bounds that the applications keep on   *)
(* the lists they store in it.                                             *)
(***************************************************************************)
EXTENDS Naturals, Sequences

(* Values are stored as JSON, so a value read is a copy of its own.        *)
Has(state, key) == key \in DOMAIN state
GetState(state, key) == state[key]
SetState(state, key, value) ==
  [k \in DOMAIN state \cup {key} |-> IF k = key THEN value ELSE state[k]]

SetBulkState(state, values) ==
  [k \in DOMAIN state \cup DOMAIN values |-> IF k \in DOMAIN values THEN values[k] ELSE state[k]]

(* Stored lists are kept short: a list that has reached the bound loses    *)
(* its oldest element before the next one is appended.                     *)
DropOldestLate(list, bound) == IF Len(list) > bound THEN Tail(list) ELSE list  \* mutant
DropOldest(list, bound) == IF Len(list) >= bound THEN Tail(list) ELSE list
Oldest(list, bound) == IF Len(list) >= bound THEN SubSeq(list, 1, bound) ELSE list
Newest(list, bound) ==
  IF Len(list) > bound THEN SubSeq(list, Len(list) - bound + 1, Len(list)) ELSE list

(* The type of a service's state. *)
StateOf(state, Keys, Values) ==
  DOMAIN state \subseteq Keys /\ \A k \in DOMAIN state : state[k] \in Values
===============================================================================
