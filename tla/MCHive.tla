------------------------------- MODULE MCHive -------------------------------
(***************************************************************************)
(* Four programs.  One value in a heap of six slots: the longest block has *)
(* three dead runs, so that a run is unlinked between two others.  Two     *)
(* values in four slots: sort, unique, erase_if, rebuilding that fails     *)
(* between two elements, and limits that are refused.  Changing limits in  *)
(* three slots.  Two hives with unequal allocators in three slots:         *)
(* splicing, swapping, copying and moving, with every call that may fail.  *)
(***************************************************************************)
EXTENDS Hive

CONSTANTS A, B, x, y

SixSlots == [hives |-> {A}, values |-> {1}, slots |-> 6, allocators |-> {x}, mins |-> {3}, faults |-> 0..1, upkeep |-> TRUE]
TwoValues == [hives |-> {A}, values |-> {1, 2}, slots |-> 4, allocators |-> {x}, mins |-> {0, 2}, faults |-> {0, 1, 3, 4}, upkeep |-> TRUE]
Reshaping == [hives |-> {A}, values |-> {1}, slots |-> 3, allocators |-> {x}, mins |-> {1, 2}, faults |-> {0, 1, 3}, upkeep |-> TRUE]
TwoHives == [hives |-> {A, B}, values |-> {1}, slots |-> 3, allocators |-> {x, y}, mins |-> {1}, faults |-> 0..3, upkeep |-> FALSE]
ThePrograms == {SixSlots, TwoValues, Reshaping, TwoHives}
Interchangeable == Permutations({A, B}) \cup Permutations({x, y})

(* The skipfield, free lists, block lists and counters of a hive agree,    *)
(* every block and element is owned by one hive, also after a call that    *)
(* throws, and iteration visits every element once in both directions.     *)
Sound == Structure /\ NothingLeaks /\ IterationExact
=============================================================================
