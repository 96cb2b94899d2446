------------------------------ MODULE MCArrays ------------------------------
(***************************************************************************)
(* A program that takes views of an array, one that calls an algorithm of  *)
(* linalg, or one that uses a vector of lanes; which says which.  The      *)
(* arrays have up to four dimensions, empty ones included; the algorithms  *)
(* have operands up to 3 by 3, vectors of two blocks and a rest, and every *)
(* 3-bit integer.  A vector has four lanes; integers, of lanes, shifts and *)
(* indices, have 3 bits or the 5 of simd_size_type.                        *)
(***************************************************************************)
EXTENDS Integers, Sequences, TLC

CONSTANTS MaxOps, MaxRank, Sizes, Seeds, kN, W, Wide, Budget, Bits, SizeBits, Lanes, Cells

VARIABLES which, src, view, origin, factor, ops, call, out, done, job, yield

MD == INSTANCE Mdspan WITH
  Shapes <- {<<>>, <<3>>, <<0>>, <<3, 3>>, <<0, 2>>, <<2, 3>>, <<2, 3, 2>>, <<2, 2, 2, 2>>}
LA == INSTANCE Linalg
SI == INSTANCE Simd

mdV == <<src, view, origin, factor, ops>>
laV == <<call, out, done>>
siV == <<job, yield>>

Init ==
  /\ which \in {"views", "linalg", "simd"}
  /\ IF which = "views" THEN MD!Init ELSE src = 0 /\ view = 0 /\ origin = 0 /\ factor = 0 /\ ops = 0
  /\ IF which = "linalg" THEN LA!Init ELSE call = 0 /\ out = 0 /\ done = 0
  /\ IF which = "simd" THEN SI!Init ELSE job = 0 /\ yield = 0
Next ==
  \/ which = "views" /\ MD!Next /\ UNCHANGED <<which, laV, siV>>
  \/ which = "linalg" /\ LA!Next /\ UNCHANGED <<which, mdV, siV>>
  \/ which = "simd" /\ SI!Next /\ UNCHANGED <<which, mdV, laV>>
Spec == Init /\ [][Next]_<<which, mdV, laV, siV>>

(* Whatever views a program takes of views of an array, the last one reads *)
(* exactly the elements and the values asked for (submdspan, the padded,   *)
(* packed and transposed layouts, scaled and conjugated), and the layouts  *)
(* and compile-time checks say of themselves what is true.                 *)
Views == which = "views" => MD!Views


(* The calls on simd vectors: a conversion is refused exactly where it     *)
(* loses a value; a load, store, gather or scatter touches the cells of    *)
(* the selected lanes inside the extent and no other; permutations,        *)
(* reductions, masks, bits and shifts are those of their definitions at    *)
(* every limit of the lane's and of the index's type.                      *)
SimdExact == which = "simd" => SI!SimdExact
=============================================================================
