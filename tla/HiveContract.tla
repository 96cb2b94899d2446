---------------------------- MODULE HiveContract ----------------------------
(***************************************************************************)
(* What std::hive promises about the values a traversal sees.  A new       *)
(* element may land anywhere, since holes are reused, but the others keep  *)
(* their order; a call that throws has done a prefix of its work, or has   *)
(* left moved-from values behind.                                          *)
(***************************************************************************)
EXTENDS Integers, Sequences, FiniteSets, SequencesExt

CONSTANTS Hives, Values, Moved, MaxInput

VARIABLES contents, threw   \* threw: the call moved elements and threw

Inputs == BoundedSeq(Values, MaxInput)
Becomes(h, s) == contents' = [contents EXCEPT ![h] = s]

Count(s, v) == Cardinality({i \in DOMAIN s : s[i] = v})
SameBag(s, t) == Len(s) = Len(t) /\ \A i \in DOMAIN s : Count(s, s[i]) = Count(t, s[i])

(* t consists of s, in order, and of the values of p in any place. *)
IsMerge(s, p, t) ==
  /\ SameBag(s \o p, t)
  /\ \E D \in SUBSET DOMAIN t :
       /\ Cardinality(D) = Len(s)
       /\ \A i \in D : t[i] = s[Cardinality({j \in D : j <= i})]

(* The first n values of s have been moved from. *)
Drained(s, n) == [i \in DOMAIN s |-> IF i <= n THEN Moved ELSE s[i]]

Init == contents = [h \in Hives |-> <<>>]

Insert(h) == /\ \A g \in Hives \ {h} : contents'[g] = contents[g]
             /\ \E s \in Inputs : IsMerge(contents[h], s, contents'[h])
Assign(h) == \E s \in Inputs : Becomes(h, s)
Erase(h) == \E i \in DOMAIN contents[h] : \E j \in i..Len(contents[h]) :
              Becomes(h, SubSeq(contents[h], 1, i - 1) \o SubSeq(contents[h], j + 1, Len(contents[h])))
EraseIf(h) == \E v \in Values : Becomes(h, SelectSeq(contents[h], LAMBDA x : x # v))
Unique(h) == LET s == contents[h]
                 kept == {i \in DOMAIN s : i = 1 \/ s[i] # s[i - 1]}
             IN Becomes(h, [n \in 1..Cardinality(kept) |->
                             s[CHOOSE i \in kept : Cardinality({j \in kept : j <= i}) = n]])
Sort(h) == ~threw' /\ Becomes(h, SortSeq(contents[h], <))
SortThrows(h) == /\ threw'
                 /\ \A g \in Hives \ {h} : contents'[g] = contents[g]
                 /\ SameBag(contents[h], contents'[h])
RebuildThrows(h) == threw' /\ \E n \in DOMAIN contents[h] : Becomes(h, Drained(contents[h], n))

Swap(h, g) == contents' = [contents EXCEPT ![h] = contents[g], ![g] = contents[h]]
Splice(h, g) == contents' = [contents EXCEPT ![h] = contents[h] \o contents[g], ![g] = <<>>]
Copy(h, g) == \E p \in Prefixes(contents[g]) : Becomes(h, p)
Move(h, g) == ~threw' /\ contents' = [contents EXCEPT ![h] = contents[g], ![g] = <<>>]
MoveThrows(h, g) == threw' /\
  \E p \in Prefixes(contents[g]), built \in BOOLEAN :
    contents' = [contents EXCEPT ![h] = IF built THEN p ELSE <<>>, ![g] = Drained(contents[g], Len(p))]

Next == \/ \E h \in Hives : \/ Insert(h) \/ Assign(h) \/ Erase(h) \/ EraseIf(h) \/ Unique(h)
                            \/ Sort(h) \/ SortThrows(h) \/ RebuildThrows(h)
        \/ \E h, g \in Hives : /\ h # g
                               /\ Swap(h, g) \/ Splice(h, g) \/ Copy(h, g) \/ Move(h, g) \/ MoveThrows(h, g)

Spec == Init /\ [][Next]_contents
=============================================================================
