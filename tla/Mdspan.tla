------------------------------- MODULE Mdspan -------------------------------
(***************************************************************************)
(* Views of a multidimensional array: the padded layouts                   *)
(* (backport/cpp26/mdspan_padded.hpp), submdspan (submdspan.hpp), the      *)
(* packed and transposed layouts and the scaling and conjugating accessors *)
(* of linalg (linalg/tags_layout.hpp, linalg/accessor.hpp).                *)
(*                                                                         *)
(* The program builds a view of an array and keeps taking views of it:     *)
(* slices, transposes, conversions of the layout, scalings, conjugates.    *)
(* "view" is what the code builds: a mapping, the offset of the data       *)
(* handle and the stack of accessors.  "origin" and "factor" remember what *)
(* the caller asked for, independently of the layout: which element of the *)
(* source each index of the view names, and by what its value is changed.  *)
(*                                                                         *)
(* Dimensions are counted from 1 here and from 0 in the code.  Complex     *)
(* numbers are pairs of integers.                                          *)
(***************************************************************************)
EXTENDS Integers, Sequences, FiniteSets, SequencesExt

CONSTANTS Shapes,  \* the extents of the arrays, as sequences
          MaxOps,  \* how many views are taken one of the other
          MaxRank  \* an array of this many dimensions is sliced once only

VARIABLES src,     \* the mapping of the array
          view,    \* the current view: [m, off, acc, real]
          origin,  \* per source dimension: index = c + s * (view index d), d = 0: fixed
          factor,  \* [conj, k, real]: the value is k times the (conjugated) element
          ops      \* how many views have been taken

vars == <<src, view, origin, factor, ops>>

Dyn == -1  \* dynamic_extent, and a padding value that is not static

Product(s) == FoldSeq(LAMBDA a, b : a * b, 1, s)

Indices(ext) == {f \in [DOMAIN ext -> 0..2] : \A r \in DOMAIN ext : f[r] < ext[r]}

----------------------------------------------------------------------------
(* Padded layouts. *)

least_multiple_at_least(alignment, value) ==
    IF alignment = 0 \/ value % alignment = 0 THEN value
    ELSE value + (alignment - (value % alignment))

(* The mapping's own stride: of dimension 2 for the left padded layout, of *)
(* the last but one for the right padded.                                  *)
make_stride(layout, ext, padding) ==
    LET e == IF layout = "left_padded" THEN ext[1] ELSE Last(ext)
    IN  IF Len(ext) <= 1 THEN 1
        ELSE IF padding = Dyn THEN e ELSE least_multiple_at_least(padding, e)

Padded(layout, ext, static, padding_value, padding) ==
    [layout |-> layout, ext |-> ext, static |-> static, pad |-> padding_value,
     sp |-> make_stride(layout, ext, padding)]

left_padded_stride(m, r) ==
    IF r = 1 THEN 1 ELSE m.sp * Product(SubSeq(m.ext, 2, r - 1))

right_padded_stride(m, r) ==
    IF r = Len(m.ext) THEN 1 ELSE m.sp * Product(SubSeq(m.ext, r + 1, Len(m.ext) - 1))

(* static_padding_stride: what the type alone says of the padded stride. *)
static_padding_stride(m) ==
    LET r == IF m.layout = "left_padded" THEN 1 ELSE Len(m.ext)
    IN  IF Len(m.ext) <= 1 THEN 1
        ELSE IF m.pad = Dyn \/ ~m.static[r] THEN Dyn
        ELSE least_multiple_at_least(m.pad, m.ext[r])

padded_is_exhaustive(m) ==
    \/ Len(m.ext) <= 1
    \/ m.sp = (IF m.layout = "left_padded" THEN m.ext[1] ELSE Last(m.ext))

(* Whether a stride rounded up to the padding, and a product of extents,   *)
(* fit a type whose largest value is "limit".  The quotients never exceed  *)
(* the limit, whatever the arguments.                                      *)
static_stride_representable(limit, padding, extent) ==
    /\ extent <= limit
    /\ \/ padding = 0
       \/ extent % padding = 0
       \/ padding - (extent % padding) <= limit - extent

static_product_representable(limit, factors) ==
    \/ 0 \in ToSet(factors)
    \/ \A n \in DOMAIN factors :
          factors[n] <= limit \div Product(SubSeq(factors, 1, n - 1))

----------------------------------------------------------------------------
(* The packed layout of triangular matrices, and the transposed layout. *)

packed_static_product_representable(limit, n) == n <= limit \div (n + 1)

Larger(i, j) == IF i < j THEN j ELSE i
Smaller(i, j) == IF i < j THEN i ELSE j

(* Column-major upper and row-major lower store a triangle that grows,     *)
(* the other two one that shrinks.                                         *)
PackedIndex(n, tri, order, i, j) ==
    LET lo == Smaller(i, j)
        hi == Larger(i, j)
    IN  IF <<order, tri>> \in {<<"column", "upper">>, <<"row", "lower">>}
        THEN (hi * (hi + 1)) \div 2 + lo
        ELSE IF order = "column" THEN hi + n * lo - (lo * (lo + 1)) \div 2
        ELSE lo * n - (lo * (lo - 1)) \div 2 + hi - lo

(* The intermediate values of the index computation. *)
PackedIntermediates(n, i, j) ==
    LET lo == Smaller(i, j)
        hi == Larger(i, j)
    IN  {hi * (hi + 1), (hi * (hi + 1)) \div 2 + lo, hi + n * lo, lo * n,
         lo * n - (lo * (lo - 1)) \div 2 + hi, n * (n + 1)}

packed_span_size(n) == (n * (n + 1)) \div 2

packed_is_unique(n) == n < 2

----------------------------------------------------------------------------
(* Mappings. *)

Stride(m, r) ==
    CASE m.layout = "left"         -> Product(SubSeq(m.ext, 1, r - 1))
      [] m.layout = "right"        -> Product(SubSeq(m.ext, r + 1, Len(m.ext)))
      [] m.layout = "left_padded"  -> left_padded_stride(m, r)
      [] m.layout = "right_padded" -> right_padded_stride(m, r)
      [] OTHER                     -> m.strides[r]

Strided(m, idx) == FoldLeftDomain(LAMBDA sum, r : sum + idx[r] * Stride(m, r), 0, m.ext)

At(m, idx) ==
    CASE m.layout = "packed"    -> PackedIndex(m.ext[1], m.tri, m.order, idx[1], idx[2])
      [] m.layout = "transpose" -> Strided(m.nested, Reverse(idx))
      [] OTHER                  -> Strided(m, idx)

StridedSpan(m) ==
    IF 0 \in ToSet(m.ext) THEN 0
    ELSE 1 + Strided(m, [r \in DOMAIN m.ext |-> m.ext[r] - 1])

required_span_size(m) ==
    CASE m.layout = "packed"    -> packed_span_size(m.ext[1])
      [] m.layout = "transpose" -> StridedSpan(m.nested)
      [] OTHER                  -> StridedSpan(m)

Plain(layout, ext, static) == [layout |-> layout, ext |-> ext, static |-> static]

StrideMapping(layout, ext, static, strides) ==
    [layout |-> layout, ext |-> ext, static |-> static, strides |-> strides]

----------------------------------------------------------------------------
(* Slices.  A raw slice is what the caller passes; first, last, stride are *)
(* its members, ce and cs say that its extent and its stride are           *)
(* compile-time constants.  A canonical slice is full, an index, or an     *)
(* offset with an extent and a stride.                                     *)

Full == [k |-> "full"]

IndexSlice(i) == [k |-> "index", first |-> i]

ExtentSlice(first, extent, stride, ce, cs) ==
    [k |-> "extent", first |-> first, extent |-> extent, stride |-> stride, ce |-> ce, cs |-> cs]

canonical_range_slice(first, span, stride, ce, cs) ==
    LET reset == span = 0 /\ (ce \/ ~cs)
        by == IF reset THEN 1 ELSE stride
        constant == cs \/ (ce /\ span = 0)
    IN  ExtentSlice(first, IF span = 0 THEN 0 ELSE 1 + (span - 1) \div by, by,
                    ce /\ constant, constant)

canonical_slice(raw) ==
    CASE raw.k = "range" -> canonical_range_slice(raw.first, raw.last - raw.first,
                                                  raw.stride, raw.ce, raw.cs)
      [] raw.k = "pair"  -> canonical_range_slice(raw.first, raw.last - raw.first,
                                                  1, raw.ce, TRUE)
      [] OTHER           -> raw

IsFull(s) == s.k = "full"
IsIndex(s) == s.k = "index"

is_unit_stride_slice(s) == IsFull(s) \/ (s.k = "extent" /\ s.cs /\ s.stride = 1)

first_of(s) == IF IsFull(s) THEN 0 ELSE s.first

(* is_valid_static_slice_type: a slice of constants is refused at compile  *)
(* time unless it stays within a static extent x.                          *)
is_valid_static_slice_type(x, offset, extent, stride) ==
    /\ offset <= x /\ extent <= x
    /\ \/ extent = 0
       \/ /\ offset < x
          /\ \/ extent = 1
             \/ stride # 0 /\ extent - 1 <= (x - offset - 1) \div stride

(* inv_map_rank: the dimensions that survive. *)
inv_map_rank(slices) == SelectSeq([k \in DOMAIN slices |-> k], LAMBDA k : ~IsIndex(slices[k]))

make_stride_factors(slices) ==
    [k \in DOMAIN slices |->
        IF slices[k].k = "extent" /\ slices[k].extent > 1 THEN slices[k].stride ELSE 1]

build_sub_strides(m, slices) ==
    LET inv == inv_map_rank(slices)
    IN  [d \in DOMAIN inv |-> Stride(m, inv[d]) * make_stride_factors(slices)[inv[d]]]

(* subextents, and which of them are static. *)
subextents(m, slices) ==
    LET inv == inv_map_rank(slices)
    IN  [d \in DOMAIN inv |-> IF IsFull(slices[inv[d]]) THEN m.ext[inv[d]]
                              ELSE slices[inv[d]].extent]

static_subextents(m, slices) ==
    LET inv == inv_map_rank(slices)
    IN  [d \in DOMAIN inv |-> IF IsFull(slices[inv[d]]) THEN m.static[inv[d]]
                              ELSE slices[inv[d]].ce]

(* An offset at the end of a dimension: the view is empty and its handle   *)
(* points past the source.                                                 *)
any_oob(m, slices) == \E k \in DOMAIN slices : first_of(slices[k]) = m.ext[k]

SubOffset(m, slices) ==
    IF any_oob(m, slices) THEN required_span_size(m)
    ELSE At(m, [k \in DOMAIN slices |-> first_of(slices[k])])

(* Which slices keep the layout: the left layout when all but the last     *)
(* surviving dimension are whole and come first; the right one mirrored.   *)
ll_preserving(slices) ==
    LET dr == Len(inv_map_rank(slices))
    IN  \/ dr = 0
        \/ /\ \A k \in 1..(dr - 1) : IsFull(slices[k])
           /\ is_unit_stride_slice(slices[dr])
           /\ \A k \in (dr + 1)..Len(slices) : IsIndex(slices[k])

lr_preserving(slices) == ll_preserving(Reverse(slices))

(* Which slices leave a padded layout: the first dimension and then a run  *)
(* of whole ones, the last of which may be shortened.  The result is the   *)
(* dimension whose stride becomes the padded stride, or 0.                 *)
TakesAnyRun(slices) ==
    LET units == {k \in 2..Len(slices) : ~IsIndex(slices[k])}
    IN  IF Len(inv_map_rank(slices)) < 2 \/ ~is_unit_stride_slice(slices[1]) THEN 0 ELSE Min(units)

left_padded_stride_index(slices) ==
    LET dr == Len(inv_map_rank(slices))
        sr == Len(slices)
        units == {k \in 2..sr : is_unit_stride_slice(slices[k])}
        u == Min(units)
        final == u + dr - 2
    IN  IF \/ dr < 2
           \/ ~is_unit_stride_slice(slices[1])
           \/ units = {}
           \/ final > sr
           \/ \E k \in u..(final - 1) : ~IsFull(slices[k])
           \/ ~is_unit_stride_slice(slices[final])
        THEN 0 ELSE u

right_padded_stride_index(slices) ==
    LET u == left_padded_stride_index(Reverse(slices))
    IN  IF u = 0 THEN 0 ELSE Len(slices) + 1 - u

static_extent_product(m, dims, initial) ==
    IF initial = Dyn \/ \E k \in dims : ~m.static[k] THEN Dyn
    ELSE initial * FoldSet(LAMBDA k, p : p * m.ext[k], 1, dims)

----------------------------------------------------------------------------
(* submdspan_mapping, one operator per layout of the source. *)

SubStrided(m, slices) ==
    StrideMapping("stride", subextents(m, slices), static_subextents(m, slices),
                  build_sub_strides(m, slices))

SubPlain(layout, m, slices) == Plain(layout, subextents(m, slices), static_subextents(m, slices))

(* Dimension u gives the padded stride; padding is what the types say of it. *)
SubPadded(layout, m, slices, u, padding) ==
    Padded(layout, subextents(m, slices), static_subextents(m, slices), padding, Stride(m, u))

submdspan_mapping_left(m, slices) ==
    LET u == left_padded_stride_index(slices)
    IN  IF ll_preserving(slices) THEN SubPlain("left", m, slices)
        ELSE IF u # 0 THEN SubPadded("left_padded", m, slices, u,
                                     static_extent_product(m, 1..(u - 1), 1))
        ELSE SubStrided(m, slices)

submdspan_mapping_right(m, slices) ==
    LET u == right_padded_stride_index(slices)
    IN  IF lr_preserving(slices) THEN SubPlain("right", m, slices)
        ELSE IF u # 0 THEN SubPadded("right_padded", m, slices, u,
                                     static_extent_product(m, (u + 1)..Len(slices), 1))
        ELSE SubStrided(m, slices)

submdspan_mapping_stride(m, slices) == SubStrided(m, slices)

submdspan_mapping_left_padded(m, slices) ==
    LET u == left_padded_stride_index(slices)
        dr == Len(inv_map_rank(slices))
    IN  IF dr = 0 \/ (dr = 1 /\ is_unit_stride_slice(slices[1]))
        THEN SubPlain("left", m, slices)
        ELSE IF u # 0 THEN SubPadded("left_padded", m, slices, u,
                               static_extent_product(m, 2..(u - 1), static_padding_stride(m)))
        ELSE SubStrided(m, slices)

submdspan_mapping_right_padded(m, slices) ==
    LET u == right_padded_stride_index(slices)
        dr == Len(inv_map_rank(slices))
        sr == Len(slices)
    IN  IF dr = 0 \/ (dr = 1 /\ is_unit_stride_slice(slices[sr]))
        THEN SubPlain("right", m, slices)
        ELSE IF u # 0 THEN SubPadded("right_padded", m, slices, u,
                        static_extent_product(m, (u + 1)..(sr - 1), static_padding_stride(m)))
        ELSE SubStrided(m, slices)

submdspan_mapping(m, slices) ==
    CASE m.layout = "left"         -> submdspan_mapping_left(m, slices)
      [] m.layout = "right"        -> submdspan_mapping_right(m, slices)
      [] m.layout = "left_padded"  -> submdspan_mapping_left_padded(m, slices)
      [] m.layout = "right_padded" -> submdspan_mapping_right_padded(m, slices)
      [] OTHER                     -> submdspan_mapping_stride(m, slices)

----------------------------------------------------------------------------
(* Transposing a matrix keeps the storage and changes the layout. *)

TransposePadded(layout, m, r) ==
    Padded(layout, Reverse(m.ext), Reverse(m.static), m.pad, Stride(m, r))

opposite_triangle(tri) == IF tri = "upper" THEN "lower" ELSE "upper"
opposite_storage_order(order) == IF order = "column" THEN "row" ELSE "column"

TransposePacked(m) ==
    [m EXCEPT !.ext = Reverse(m.ext), !.static = Reverse(m.static),
              !.tri = opposite_triangle(m.tri), !.order = opposite_storage_order(m.order)]

transposed(m) ==
    CASE m.layout = "left"         -> Plain("right", Reverse(m.ext), Reverse(m.static))
      [] m.layout = "right"        -> Plain("left", Reverse(m.ext), Reverse(m.static))
      [] m.layout = "left_padded"  -> TransposePadded("right_padded", m, 2)
      [] m.layout = "right_padded" -> TransposePadded("left_padded", m, 1)
      [] m.layout = "stride"       -> StrideMapping("stride", Reverse(m.ext), Reverse(m.static),
                                                    Reverse(m.strides))
      [] m.layout = "packed"       -> TransposePacked(m)
      [] m.layout = "transpose"    -> m.nested
      [] OTHER                     -> [layout |-> "transpose", ext |-> Reverse(m.ext),
                                       static |-> Reverse(m.static), nested |-> m]

----------------------------------------------------------------------------
(* Accessors: a stack of scalings and conjugations, the outermost last. *)

Times(a, b) == <<a[1] * b[1] - a[2] * b[2], a[1] * b[2] + a[2] * b[1]>>
Conj(a) == <<a[1], 0 - a[2]>>

ConjLayer == [conj |-> TRUE, k |-> <<1, 0>>]
ScaleLayer(alpha) == [conj |-> FALSE, k |-> alpha]

access(acc, v) ==
    FoldLeft(LAMBDA w, layer : IF layer.conj THEN Conj(w) ELSE Times(layer.k, w), v, acc)

(* A conjugated view of a conjugated view is the view under it, and real   *)
(* elements have no conjugate.                                             *)
conjugated(v) ==
    IF v.acc # <<>> /\ Last(v.acc).conj THEN Front(v.acc)
    ELSE IF v.real THEN v.acc
    ELSE Append(v.acc, ConjLayer)

scaled(v, alpha) == Append(v.acc, ScaleLayer(alpha))

----------------------------------------------------------------------------
(* The program. *)

Sliceable == {"left", "right", "left_padded", "right_padded", "stride"}

(* The strides of a strided array: the columns are kept apart. *)
SpreadStrides(ext) == [r \in DOMAIN ext |-> 2 * Product(SubSeq(ext, 1, r - 1)) + r - 1]

SourcesOf(ext, static) ==
    {Plain(l, ext, static) : l \in {"left", "right"}}
    \cup {Padded(l, ext, static, p, p) : l \in {"left_padded", "right_padded"}, p \in {Dyn, 2}}
    \cup {StrideMapping("stride", ext, static, SpreadStrides(ext))}
    \cup (IF Len(ext) # 2 THEN {}
          ELSE {StrideMapping("custom", ext, static, SpreadStrides(ext))})
    \cup (IF Len(ext) # 2 \/ ext[1] # Last(ext) THEN {}
          ELSE {[layout |-> "packed", ext |-> ext, static |-> static, tri |-> t, order |-> o] :
                   t \in {"upper", "lower"}, o \in {"column", "row"}})

Sources ==
    UNION {UNION {SourcesOf(ext, [r \in DOMAIN ext |-> r <= n]) : n \in {0, 1, Len(ext)}} :
           ext \in Shapes}

(* The slices the program passes for a dimension of extent e, all within   *)
(* it: pairs of ends, with or without constants, ranges and extent slices  *)
(* with a stride, the empty ones at the end included.                      *)
RawSlices(e) ==
    {Full}
    \cup {IndexSlice(i) : i \in {0, e - 1} \cap 0..(e - 1)}
    \cup {[k |-> "pair", first |-> p[1], last |-> p[2], ce |-> ce] :
             p \in {q \in {<<0, e>>, <<0, e - 1>>, <<1, e>>, <<e, e>>} : 0 <= q[1] /\ q[1] <= q[2]},
             ce \in BOOLEAN}
    \cup {[k |-> "range", first |-> p[1], last |-> p[2], stride |-> 2, ce |-> c, cs |-> ~c] :
             p \in {q \in {<<0, e>>, <<1, e>>, <<e, e>>} : q[1] <= q[2]}, c \in BOOLEAN}
    \cup {ExtentSlice(0, n, 3, FALSE, FALSE) : n \in {0, 1} \cap 0..e}

(* The slices of an array of three dimensions, or of a slice. *)
FewSlices(e) ==
    {s \in RawSlices(e) : \/ IsFull(s) \/ (IsIndex(s) /\ s.first = 0)
                          \/ s.k = "pair" /\ s.first = 1 /\ s.ce
                          \/ s.k = "range" /\ s.first = 0 /\ ~s.ce}

(* One slice for each dimension. *)
SliceTuples(ext) ==
    FoldLeft(LAMBDA tuples, e : {Append(t, s) : t \in tuples, s \in
                                    IF ops = 0 /\ Len(ext) <= 2 THEN RawSlices(e) ELSE FewSlices(e)},
             {<<>>}, ext)

(* What the caller asked for with a raw slice of a dimension of extent e:  *)
(* the first index, the step and how many.                                 *)
RawFirst(s) == IF IsFull(s) THEN 0 ELSE s.first
RawStep(s) == IF s.k \in {"range", "extent"} THEN s.stride ELSE 1
RawCount(s, e) ==
    CASE s.k = "full"   -> e
      [] s.k = "extent" -> s.extent
      [] OTHER          -> Cardinality({t \in 0..e : s.first + t * RawStep(s) < s.last})

Init ==
    /\ src \in Sources
    /\ \E real \in (IF src.ext = <<>> THEN BOOLEAN ELSE {FALSE}) :
          /\ view = [m |-> src, off |-> 0, acc |-> <<>>, real |-> real]
          /\ factor = [conj |-> FALSE, k |-> <<1, 0>>, real |-> real]
    /\ origin = [dims |-> [k \in DOMAIN src.ext |-> [c |-> 0, d |-> k, s |-> 1]], ext |-> src.ext]
    /\ ops = 0

submdspan ==
    /\ ops < MaxOps
    /\ Len(view.m.ext) + ops <= MaxRank
    /\ view.m.layout \in Sliceable
    /\ \E raw \in SliceTuples(view.m.ext) :
         LET e == view.m.ext
             kept == SelectSeq([d \in DOMAIN e |-> d], LAMBDA d : ~IsIndex(raw[d]))
             NewDim(d) == Cardinality({n \in DOMAIN kept : kept[n] <= d})
             Through(o) ==
                 IF o.d = 0 THEN o
                 ELSE [c |-> o.c + o.s * RawFirst(raw[o.d]),
                       d |-> IF IsIndex(raw[o.d]) THEN 0 ELSE NewDim(o.d),
                       s |-> IF IsIndex(raw[o.d]) THEN 0 ELSE o.s * RawStep(raw[o.d])]
             slices == [d \in DOMAIN e |-> canonical_slice(raw[d])]
         IN  /\ view' = [view EXCEPT !.m = submdspan_mapping(view.m, slices),
                                     !.off = @ + SubOffset(view.m, slices)]
             /\ origin' = [dims |-> [k \in DOMAIN origin.dims |-> Through(origin.dims[k])],
                           ext |-> [n \in DOMAIN kept |-> RawCount(raw[kept[n]], e[kept[n]])]]
    /\ ops' = ops + 1
    /\ UNCHANGED <<src, factor>>

Transpose ==
    /\ ops < MaxOps
    /\ Len(view.m.ext) = 2
    /\ view' = [view EXCEPT !.m = transposed(view.m)]
    /\ origin' = [dims |-> [k \in DOMAIN origin.dims |->
                      [origin.dims[k] EXCEPT !.d = IF @ = 0 THEN 0 ELSE 3 - @]],
                  ext |-> Reverse(origin.ext)]
    /\ ops' = ops + 1
    /\ UNCHANGED <<src, factor>>

(* Conversions between layouts.  Each has a precondition the caller keeps: *)
(* the source has the strides of the result.                               *)
to_left_padded(m) ==
    [layout |-> "left_padded", ext |-> m.ext, static |-> m.static, pad |-> Dyn,
     sp |-> IF Len(m.ext) <= 1 THEN 1 ELSE Stride(m, 2)]

to_right_padded(m) ==
    [layout |-> "right_padded", ext |-> m.ext, static |-> m.static, pad |-> Dyn,
     sp |-> IF Len(m.ext) <= 1 THEN 1 ELSE Stride(m, Len(m.ext) - 1)]

to_layout_stride(m) ==
    StrideMapping("stride", m.ext, m.static, [r \in DOMAIN m.ext |-> Stride(m, r)])

to_layout_left(m) == Plain("left", m.ext, m.static)
to_layout_right(m) == Plain("right", m.ext, m.static)

SameStrides(m, n) == \A r \in DOMAIN m.ext : Stride(m, r) = Stride(n, r)

Conversions(m) ==
    IF m.layout = "left_padded"
    THEN {to_layout_stride(m)} \cup (IF padded_is_exhaustive(m) THEN {to_layout_left(m)} ELSE {})
    ELSE IF m.layout = "right_padded"
    THEN {to_layout_stride(m)} \cup (IF padded_is_exhaustive(m) THEN {to_layout_right(m)} ELSE {})
    ELSE IF m.layout \in {"left", "right", "stride"}
    THEN {n \in {to_left_padded(m), to_right_padded(m)} : SameStrides(m, n)}
    ELSE {}

Convert ==
    /\ ops < MaxOps
    /\ \E m \in Conversions(view.m) : view' = [view EXCEPT !.m = m]
    /\ ops' = ops + 1
    /\ UNCHANGED <<src, origin, factor>>

Scale ==
    /\ ops < MaxOps
    /\ \E alpha \in {<<2, 0>>, <<1, 1>>} :
         /\ view' = [view EXCEPT !.acc = scaled(view, alpha), !.real = @ /\ alpha[2] = 0]
         /\ factor' = [factor EXCEPT !.k = Times(alpha, @)]
    /\ ops' = ops + 1
    /\ UNCHANGED <<src, origin>>

Conjugate ==
    /\ ops < MaxOps
    /\ view' = [view EXCEPT !.acc = conjugated(view)]
    /\ factor' = [factor EXCEPT !.conj = ~@, !.k = Conj(@)]
    /\ ops' = ops + 1
    /\ UNCHANGED <<src, origin>>

Next == submdspan \/ Transpose \/ Convert \/ Scale \/ Conjugate

Spec == Init /\ [][Next]_vars

----------------------------------------------------------------------------
(* What the source's element at the index the caller meant is. *)
Meant(idx) ==
    [k \in DOMAIN origin.dims |->
        LET o == origin.dims[k] IN o.c + (IF o.d = 0 THEN 0 ELSE o.s * idx[o.d])]

Elements == IF factor.real THEN {<<1, 0>>} ELSE {<<1, 0>>, <<0, 1>>}

(* However many slices, transposes and conversions lie between them, a     *)
(* view has the extents that were asked for, each of its indices names the *)
(* element of the source that was meant, and no view reaches past the      *)
(* source's storage, the empty ones at its end included: submdspan_mapping *)
(* may keep a layout, choose a padded one or fall back on strides, but     *)
(* each choice denotes the same elements.                                  *)
ViewNamesItsElements ==
    /\ view.m.ext = origin.ext
    /\ \A idx \in Indices(origin.ext) :
          view.off + At(view.m, idx) = At(src, Meant(idx))
    /\ view.off + required_span_size(view.m) <= required_span_size(src)

(* The value read through the accessors is the element scaled and          *)
(* conjugated as often as was asked: conjugated() may drop a layer or add  *)
(* none, but only where that changes nothing.                              *)
AccessorsCompose ==
    \A v \in Elements :
        access(view.acc, v) = Times(factor.k, IF factor.conj THEN Conj(v) ELSE v)

(* What a type says of its stride is what the value says: a view whose     *)
(* padded layout has a static padding value has just that stride, and one  *)
(* that calls itself exhaustive leaves no gap.                             *)
LayoutsAreHonest ==
    LET m == view.m
        empty == 0 \in ToSet(m.ext)
    IN  /\ m.layout \in {"left_padded", "right_padded"} =>
              /\ static_padding_stride(m) # Dyn => static_padding_stride(m) = m.sp
              /\ padded_is_exhaustive(m) /\ ~empty =>
                    required_span_size(m) = Product(m.ext)
        /\ m.layout = "packed" =>
              /\ {At(m, idx) : idx \in Indices(m.ext)} = 0..(required_span_size(m) - 1)
              /\ packed_is_unique(m.ext[1]) <=>
                    \A a, b \in Indices(m.ext) : At(m, a) = At(m, b) => a = b

(* The compile-time checks that a stride, a product of extents, a packed   *)
(* triangle or a constant slice fits are exact: they refuse what overflows *)
(* or leaves the array, and nothing else, though they never compute the    *)
(* number they are about.                                                  *)
StaticChecksExact ==
    ops = 0 =>
      /\ \A limit \in 0..13, padding \in 0..4 :
            /\ LET e == IF src.ext = <<>> THEN 0 ELSE src.ext[1]
               IN  static_stride_representable(limit, padding, e) <=>
                      least_multiple_at_least(padding, e) <= limit
            /\ static_product_representable(limit, src.ext) <=>
                  \/ 0 \in ToSet(src.ext)
                  \/ \A n \in DOMAIN src.ext : Product(SubSeq(src.ext, 1, n)) <= limit
      /\ src.layout = "packed" =>
            \A limit \in 1..13 : packed_static_product_representable(limit, src.ext[1]) =>
               \A idx \in Indices(src.ext) :
                  \A w \in PackedIntermediates(src.ext[1], idx[1], idx[2]) : w \in 0..limit
      /\ \A offset, extent \in 0..4, stride \in 1..3, r \in DOMAIN src.ext :
            is_valid_static_slice_type(src.ext[r], offset, extent, stride) <=>
               /\ offset <= src.ext[r]
               /\ \A t \in 0..(extent - 1) : offset + t * stride < src.ext[r]

(* Whatever views a program takes of views, slices, transposes, changes of *)
(* layout, scalings and conjugates in any order, the last one still reads  *)
(* exactly the elements and values asked for, its mapping says of itself   *)
(* what is true, and the compile-time checks of a size neither refuse a    *)
(* size that fits nor overflow.                                            *)
Views == ViewNamesItsElements /\ AccessorsCompose /\ LayoutsAreHonest /\ StaticChecksExact

=============================================================================
