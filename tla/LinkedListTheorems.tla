------------------------- MODULE LinkedListTheorems -------------------------
(* What the operations on linked lists return, for lists of any length.    *)
EXTENDS LinkedList, TLAPS

(* A list over S links elements of S, and the empty list none. *)
LEMMA ElemsType ==
  ASSUME NEW S, NEW s \in Seq(S)
  PROVE  Elems(s) \subseteq S /\ (s = <<>> <=> Elems(s) = {})
<1>1. Len(s) \in Nat /\ \A i \in 1..Len(s) : s[i] \in S
  OBVIOUS
<1>2. Elems(s) \subseteq S
  BY <1>1 DEF Elems
<1>3. s = <<>> => Elems(s) = {}
  BY DEF Elems
<1>4. s # <<>> => s[1] \in Elems(s)
  BY <1>1 DEF Elems
<1> QED BY <1>2, <1>3, <1>4

(* Unlinking (remove_callback of a stop source, __record_queue::remove of  *)
(* a channel) removes exactly c and links no element twice.                *)
LEMMA UnlinkProps ==
  ASSUME NEW S, NEW s \in Seq(S), NEW c, Distinct(s)
  PROVE  /\ Unlink(s, c) \in Seq(S)
         /\ Distinct(Unlink(s, c))
         /\ Elems(Unlink(s, c)) = Elems(s) \ {c}
<1>1. CASE c \notin Elems(s)
  BY <1>1 DEF Unlink, Elems
<1>2. CASE c \in Elems(s)
  <2> DEFINE p == CHOOSE i \in 1..Len(s) : s[i] = c
             u == [i \in 1..(Len(s) - 1) |-> IF i < p THEN s[i] ELSE s[i + 1]]
  <2>1. p \in 1..Len(s) /\ s[p] = c
    BY <1>2 DEF Elems
  <2>2. Unlink(s, c) = u
    BY <1>2 DEF Unlink
  <2> HIDE DEF p
  <2>3. Len(s) \in Nat /\ Len(s) - 1 \in Nat
    BY <2>1
  <2>4. \A i \in 1..(Len(s) - 1) : u[i] \in S
    BY <2>1, <2>3
  <2>5. u \in Seq(S) /\ Len(u) = Len(s) - 1
    BY <2>3, <2>4
  <2>6. Distinct(u)
    <3> SUFFICES ASSUME NEW i \in 1..Len(u), NEW j \in 1..Len(u), u[i] = u[j]
                 PROVE  i = j
      BY DEF Distinct
    <3>1. i \in 1..(Len(s) - 1) /\ j \in 1..(Len(s) - 1)
      BY <2>5
    <3>2. \A k, l \in 1..Len(s) : s[k] = s[l] => k = l
      BY DEF Distinct
    <3> QED
      BY <2>1, <2>3, <3>1, <3>2
  <2>7. Elems(u) \subseteq Elems(s) \ {c}
    <3> SUFFICES ASSUME NEW i \in 1..(Len(s) - 1) PROVE u[i] \in Elems(s) /\ u[i] # c
      BY <2>5 DEF Elems
    <3>1. \A k, l \in 1..Len(s) : s[k] = s[l] => k = l
      BY DEF Distinct
    <3> QED
      BY <2>1, <2>3, <3>1 DEF Elems
  <2>8. Elems(s) \ {c} \subseteq Elems(u)
    <3> SUFFICES ASSUME NEW k \in 1..Len(s), s[k] # c PROVE s[k] \in Elems(u)
      BY DEF Elems
    <3>1. CASE k < p
      <4>1. k \in 1..(Len(s) - 1) /\ u[k] = s[k]
        BY <2>1, <2>3, <3>1
      <4> QED
        BY <4>1, <2>5 DEF Elems
    <3>2. CASE k > p
      <4>1. (k - 1) \in 1..(Len(s) - 1) /\ u[k - 1] = s[k]
        BY <2>1, <2>3, <3>2
      <4> QED
        BY <4>1, <2>5 DEF Elems
    <3> QED
      BY <2>1, <3>1, <3>2
  <2> QED
    BY <2>2, <2>5, <2>6, <2>7, <2>8
<1> QED
  BY <1>1, <1>2

(* Taking the first element of a list: what remains and what is removed.   *)
LEMMA TailProps ==
  ASSUME NEW S, NEW s \in Seq(S), s # <<>>, Distinct(s)
  PROVE  /\ Head(s) \in S /\ Head(s) \in Elems(s)
         /\ Tail(s) \in Seq(S) /\ Distinct(Tail(s))
         /\ Elems(Tail(s)) = Elems(s) \ {Head(s)}
<1>1. Len(s) \in Nat /\ Len(s) # 0 /\ Head(s) = s[1]
  OBVIOUS
<1>2. /\ Tail(s) \in Seq(S) /\ Len(Tail(s)) = Len(s) - 1
      /\ \A i \in 1..(Len(s) - 1) : Tail(s)[i] = s[i + 1]
  BY <1>1
<1>3. \A k, l \in 1..Len(s) : s[k] = s[l] => k = l
  BY DEF Distinct
<1>4. Distinct(Tail(s))
  BY <1>1, <1>2, <1>3 DEF Distinct
<1>5. Elems(Tail(s)) \subseteq Elems(s) \ {Head(s)}
  BY <1>1, <1>2, <1>3 DEF Elems
<1>6. Elems(s) \ {Head(s)} \subseteq Elems(Tail(s))
  <2> SUFFICES ASSUME NEW k \in 1..Len(s), s[k] # s[1] PROVE s[k] \in Elems(Tail(s))
    BY <1>1 DEF Elems
  <2>1. (k - 1) \in 1..(Len(s) - 1) /\ Tail(s)[k - 1] = s[k]
    BY <1>1, <1>2
  <2> QED
    BY <1>2, <2>1 DEF Elems
<1> QED
  <2>1. 1 \in 1..Len(s) /\ s[1] \in S
    BY <1>1
  <2>2. Head(s) \in S /\ Head(s) \in Elems(s)
    BY <1>1, <2>1 DEF Elems
  <2> QED
    BY <1>2, <1>4, <1>5, <1>6, <2>2

(* Adding an element that is not linked at the end. *)
LEMMA AppendProps ==
  ASSUME NEW S, NEW s \in Seq(S), NEW c \in S, c \notin Elems(s), Distinct(s)
  PROVE  /\ Append(s, c) \in Seq(S) /\ Distinct(Append(s, c))
         /\ Elems(Append(s, c)) = Elems(s) \cup {c}
<1>1. Len(s) \in Nat /\ \A k, l \in 1..Len(s) : s[k] = s[l] => k = l
  BY DEF Distinct
<1>2. \A i \in 1..Len(s) : s[i] # c
  BY DEF Elems
<1> DEFINE a == Append(s, c)
<1>3. /\ a \in Seq(S) /\ Len(a) = Len(s) + 1
      /\ a[Len(s) + 1] = c /\ \A i \in 1..Len(s) : a[i] = s[i]
  BY <1>1
<1> HIDE DEF a
<1>4. Distinct(a)
  BY <1>1, <1>2, <1>3 DEF Distinct
<1>5. Elems(a) \subseteq Elems(s) \cup {c}
  BY <1>1, <1>3 DEF Elems
<1>6. Elems(s) \cup {c} \subseteq Elems(a)
  BY <1>1, <1>3 DEF Elems
<1> QED
  BY <1>3, <1>4, <1>5, <1>6 DEF a

(* The same at the front (try_add_callback). *)
LEMMA PrependProps ==
  ASSUME NEW S, NEW s \in Seq(S), NEW c \in S, c \notin Elems(s), Distinct(s)
  PROVE  /\ <<c>> \o s \in Seq(S) /\ Distinct(<<c>> \o s)
         /\ Elems(<<c>> \o s) = Elems(s) \cup {c}
<1>1. Len(s) \in Nat /\ \A k, l \in 1..Len(s) : s[k] = s[l] => k = l
  BY DEF Distinct
<1>2. \A i \in 1..Len(s) : s[i] # c
  BY DEF Elems
<1> DEFINE b == <<c>> \o s
<1>4. /\ b \in Seq(S) /\ Len(b) = Len(s) + 1
      /\ b[1] = c /\ \A i \in 1..Len(s) : b[i + 1] = s[i]
  BY <1>1
<1> HIDE DEF b
<1>6. Distinct(b)
  <2> SUFFICES ASSUME NEW i \in 1..Len(b), NEW j \in 1..Len(b), b[i] = b[j] PROVE i = j
    BY DEF Distinct
  <2>1. /\ i # 1 => i - 1 \in 1..Len(s) /\ b[i] = s[i - 1]
        /\ j # 1 => j - 1 \in 1..Len(s) /\ b[j] = s[j - 1]
    BY <1>1, <1>4
  <2> QED BY <1>1, <1>2, <1>4, <2>1
<1>7. Elems(b) = Elems(s) \cup {c}
  <2>1. ASSUME NEW i \in 1..Len(b) PROVE b[i] \in Elems(s) \cup {c}
    <3>1. i # 1 => i - 1 \in 1..Len(s) /\ b[i] = s[i - 1]
      BY <1>1, <1>4
    <3> QED BY <1>4, <3>1 DEF Elems
  <2>2. ASSUME NEW i \in 1..Len(s) PROVE s[i] \in Elems(b)
    <3>1. i + 1 \in 1..Len(b) /\ b[i + 1] = s[i]
      BY <1>1, <1>4
    <3> QED BY <3>1 DEF Elems
  <2>3. c \in Elems(b)
    BY <1>1, <1>4 DEF Elems
  <2> QED BY <2>1, <2>2, <2>3 DEF Elems
<1> QED
  BY <1>4, <1>6, <1>7 DEF b
=============================================================================
