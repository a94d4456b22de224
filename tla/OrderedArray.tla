---------------------------- MODULE OrderedArray ----------------------------
(***************************************************************************)
(* The ordered array of src/ordered_array.c as operators on sequences: what *)
(* each call makes of the array, for callers that only look between calls. *)
(* Items are ordered by key, the size in the header an item points at.     *)
(* OrderedArraySteps checks that the loops of the code compute these.      *)
(***************************************************************************)
EXTENDS Naturals, SequencesExt

\* How many items the scan passes: the leading ones that are less_than item.
Passed(a, item, key) ==
  Cardinality({i \in 1..Len(a) : \A j \in 1..i : key[a[j]] < key[item]})

Inserted(a, item, key) == InsertAt(a, Passed(a, item, key) + 1, item)

RemovedLast(a, item) == Front(a)            \* mutant: another one is removed
Removed(a, item) == RemoveFirst(a, item)

Sorted(a, key) == \A i, j \in 1..Len(a) : i < j => key[a[i]] <= key[a[j]]
=============================================================================
