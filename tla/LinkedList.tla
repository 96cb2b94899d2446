----------------------------- MODULE LinkedList -----------------------------
(* The singly and doubly linked lists of the library (stop callbacks,      *)
(* channel records, joiners), as sequences.                                *)
EXTENDS Naturals, Sequences

Elems(s) == {s[i] : i \in 1..Len(s)}

(* The list without its element c; s itself when c is not linked. *)
Unlink(s, c) ==
  LET p == CHOOSE i \in 1..Len(s) : s[i] = c
  IN  IF c \in Elems(s)
        THEN [i \in 1..(Len(s) - 1) |-> IF i < p THEN s[i] ELSE s[i + 1]]
        ELSE s

(* No element is linked twice. *)
Distinct(s) == \A i, j \in 1..Len(s) : s[i] = s[j] => i = j
=============================================================================
