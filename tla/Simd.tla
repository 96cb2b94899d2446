-------------------------------- MODULE Simd --------------------------------
(***************************************************************************)
(* The data-parallel types of backport/cpp26/simd: which conversions of    *)
(* lanes are allowed (base.hpp), masks (types.hpp), loads and stores,      *)
(* gathers and scatters (memory_*.hpp), permutations and selections        *)
(* (operations.hpp), reductions and the bit operations.                    *)
(*                                                                         *)
(* A behaviour is one call: "job" says what is called with what, "yield"   *)
(* is what it returned.  A vector or a mask is a function of its lanes,    *)
(* memory a function of addresses.  Lanes are integers of a few bits, and  *)
(* a conversion of one wraps as the cast of the code does; what an         *)
(* algorithm dereferences is kept beside its result ("touched").           *)
(***************************************************************************)
EXTENDS Integers, Sequences, FiniteSets, SequencesExt

CONSTANTS Bits,      \* the widths of integer lanes
          SizeBits,  \* the width of simd_size_type
          Lanes,     \* the lanes of a vector that is loaded or permuted
          Cells      \* the length of memory

VARIABLES job, yield

svars == <<job, yield>>

Upto(n) == 0..(n - 1)
Loop(n) == [k \in 1..n |-> k - 1]

----------------------------------------------------------------------------
(* Types: integers by their bits, bool, and binary floating point by its   *)
(* digits and exponents.                                                   *)

IntType(s, b) == [kind |-> "int", signed |-> s, bits |-> b, digits |-> IF s THEN b - 1 ELSE b]
BoolType == [kind |-> "bool", signed |-> FALSE, bits |-> 1, digits |-> 1]
FloatType(d, lo, hi) == [kind |-> "float", signed |-> TRUE, digits |-> d, min_exponent |-> lo, max_exponent |-> hi]

Ints == {IntType(s, b) : s \in BOOLEAN, b \in Bits}
Integral(t) == t.kind # "float"
LowestOf(t) == IF t.signed THEN -(2^t.digits) ELSE 0
LargestOf(t) == 2^t.digits - 1
ValuesOf(t) == LowestOf(t)..LargestOf(t)
size_type == IntType(TRUE, SizeBits)

(* static_cast between integers. *)
Cast(t, v) ==
    LET m == v % 2^t.bits
    IN  IF m > LargestOf(t) THEN m - 2^t.bits ELSE m

(* Does every value of one type have the same value in the other, as far   *)
(* as the type trait can tell?                                             *)
is_value_preserving_conversion(from, to) ==
    \/ from = to
    \/ /\ Integral(from) /\ Integral(to)
       /\ \/ from.signed = to.signed /\ from.digits <= to.digits
          \/ ~from.signed /\ to.signed /\ from.digits < to.digits
    \/ /\ ~Integral(from) /\ ~Integral(to)
       /\ from.digits <= to.digits
       /\ from.max_exponent <= to.max_exponent
       /\ from.min_exponent >= to.min_exponent
    \/ Integral(from) /\ ~Integral(to) /\ from.digits <= to.digits

(* Is this constant a value of the target?  The comparison of integers is  *)
(* made in the source's own type.                                          *)
is_integer_representable(from, to, v) ==
    IF from.kind = "bool" THEN TRUE
    ELSE IF to.kind = "bool" THEN v \in {0, 1}
    ELSE IF from.signed = to.signed
         THEN from.bits >= to.bits =>
                Cast(from, LowestOf(to)) <= v /\ v <= Cast(from, LargestOf(to))
    ELSE IF from.signed
         THEN v >= 0 /\ (from.bits > to.bits => v <= Cast(from, LargestOf(to)))
         ELSE from.bits >= to.bits => v <= Cast(from, LargestOf(to))

is_floating_representable(from, to, v) ==
    LET unsigned == IntType(FALSE, from.bits)
        magnitude == IF v < 0 THEN Cast(unsigned, 0 - Cast(unsigned, v)) ELSE v
        bit_count == CHOOSE k \in 0..from.bits : 2^k > magnitude /\ (k = 0 \/ 2^(k - 1) <= magnitude)
    IN  \/ from.kind = "bool"
        \/ /\ bit_count <= to.max_exponent
           /\ \/ bit_count <= to.digits
              \/ \A i \in Upto(bit_count - to.digits) : (magnitude \div 2^i) % 2 = 0

----------------------------------------------------------------------------
(* Loads and stores: the lanes, the place in memory and what has been      *)
(* dereferenced change together, lane by lane.                             *)

load_n_impl(mem, from, count, mask, to) ==
    LET n == Cardinality(DOMAIN mask)
        Step(s, i) ==
            IF i >= count THEN [s EXCEPT !.lanes[i] = 0]
            ELSE [lanes |-> [s.lanes EXCEPT ![i] = IF mask[i] THEN Cast(to, mem[s.first]) ELSE 0],
                  first |-> s.first + 1,
                  touched |-> s.touched \cup {a \in {s.first} : mask[i]}]
    IN  FoldLeft(Step, [lanes |-> [i \in Upto(n) |-> 0], first |-> from, touched |-> {}], Loop(n))

store_n_impl(value, mem, from, count, mask, to) ==
    LET n == Cardinality(DOMAIN value)
        Step(s, i) ==
            IF i >= count THEN s
            ELSE [lanes |-> IF mask[i] THEN [s.lanes EXCEPT ![s.first] = Cast(to, value[i])] ELSE s.lanes,
                  first |-> s.first + 1,
                  touched |-> s.touched \cup {a \in {s.first} : mask[i]}]
    IN  FoldLeft(Step, [lanes |-> mem, first |-> from, touched |-> {}], Loop(n))

(* The extent an overload passes on: a count, the distance to a sentinel,  *)
(* the size of a range; a bare pointer stands for a whole vector.          *)
Extent(c) ==
    CASE c.by = "count" -> c.count
      [] c.by = "sentinel" -> Cast(size_type, (c.from + c.count) - c.from)
      [] c.by = "range" -> Cast(size_type, c.count)
      [] c.by = "pointer" -> Lanes

partial_load(c) == load_n_impl(c.mem, c.from, Extent(c), c.mask, c.to)
partial_store(c) == store_n_impl(c.value, c.mem, c.from, Extent(c), c.mask, c.to)

(* The unchecked forms are only called with a whole vector in the range.   *)
unchecked_load(c) == load_n_impl(c.mem, c.from, Extent(c), c.mask, c.to)
unchecked_store(c) == store_n_impl(c.value, c.mem, c.from, Extent(c), c.mask, c.to)

----------------------------------------------------------------------------
(* Gathers and scatters. *)

is_gather_scatter_index_in_range(t, index, count) ==
    LET w == IF t.bits > SizeBits THEN t.bits ELSE SizeBits
    IN  /\ count > 0
        /\ ~(t.signed /\ index < 0)
        /\ Cast(IntType(FALSE, w), index) < Cast(IntType(FALSE, w), count)

Chosen(c) ==
    {i \in DOMAIN c.mask : c.mask[i] /\ is_gather_scatter_index_in_range(c.index, c.indices[i], c.count)}
Offset(c, i) == Cast(size_type, c.indices[i])

GatherFrom(c, lanes) ==
    [lanes |-> [i \in DOMAIN c.mask |-> IF i \in lanes THEN Cast(c.to, c.mem[c.from + Offset(c, i)]) ELSE 0],
     touched |-> {c.from + Offset(c, i) : i \in lanes}]
partial_gather_from(c) == GatherFrom(c, Chosen(c))
unchecked_gather_from(c) == GatherFrom(c, {i \in DOMAIN c.mask : c.mask[i]})

ScatterTo(c, lanes) ==
    LET Step(m, i) == IF i \in lanes THEN [m EXCEPT ![c.from + Offset(c, i)] = Cast(c.to, c.value[i])] ELSE m
    IN  [lanes |-> FoldLeft(Step, c.mem, Loop(Cardinality(DOMAIN c.mask))),
         touched |-> {c.from + Offset(c, i) : i \in lanes}]
partial_scatter_to(c) == ScatterTo(c, Chosen(c))
unchecked_scatter_to(c) == ScatterTo(c, {i \in DOMAIN c.mask : c.mask[i]})

----------------------------------------------------------------------------
(* Masks. *)

(* A mask from the low bits of an unsigned number, and back to one of      *)
(* unsigned long long's digits.                                            *)
basic_mask(n, u) == [i \in Upto(n) |-> (u \div 2^i) % 2 = 1]

to_ullong(mask, digits) ==
    LET n == Cardinality(DOMAIN mask)
    IN  FoldLeft(LAMBDA r, i : IF mask[i] THEN r + 2^i ELSE r, 0, Loop(IF n < digits THEN n ELSE digits))

MaskToVec(sign, mask) ==
    [i \in DOMAIN mask |-> CASE sign = "+" -> IF mask[i] THEN 1 ELSE 0
                             [] sign = "-" -> IF mask[i] THEN -1 ELSE 0
                             [] sign = "~" -> IF mask[i] THEN -2 ELSE -1]

simd_select_impl(cond, yes, no) == [i \in DOMAIN cond |-> IF cond[i] THEN yes[i] ELSE no[i]]

----------------------------------------------------------------------------
(* Permutations. *)

zero_element == -1
uninit_element == -2

permute_lane(value, index) == IF index \in {zero_element, uninit_element} THEN 0 ELSE value[index]
permute_from_map_impl(value, map) == [i \in DOMAIN map |-> permute_lane(value, map[i])]
permute_from_indices(value, indices) == [i \in DOMAIN indices |-> value[indices[i]]]

compress(value, mask, fill) ==
    LET n == Cardinality(DOMAIN mask)
        packed == FoldLeft(LAMBDA s, i : IF mask[i] THEN Append(s, value[i]) ELSE s, <<>>, Loop(n))
    IN  [i \in Upto(n) |-> IF i < Len(packed) THEN packed[i + 1] ELSE fill]

expand(value, mask, original) ==
    LET n == Cardinality(DOMAIN mask)
        Step(s, i) == IF mask[i] THEN [res |-> [s.res EXCEPT ![i] = value[s.in]], in |-> s.in + 1] ELSE s
    IN  FoldLeft(Step, [res |-> original, in |-> 0], Loop(n)).res

(* Whole chunks, and a shorter one for what is left. *)
make_chunk(value, size, offset) == [i \in Upto(size) |-> value[offset + i]]
chunk_impl(value, size) ==
    LET n == Cardinality(DOMAIN value)
        full == n \div size
        tail == n % size
    IN  [k \in 1..full |-> make_chunk(value, size, (k - 1) * size)]
          \o (IF tail = 0 THEN <<>> ELSE <<make_chunk(value, tail, full * size)>>)

cat_impl(parts) ==
    LET Append1(s, part) ==
            [i \in Upto(Cardinality(DOMAIN s) + Cardinality(DOMAIN part)) |->
               IF i \in DOMAIN s THEN s[i] ELSE part[i - Cardinality(DOMAIN s)]]
    IN  FoldLeft(Append1, Head(parts), Tail(parts))

min(left, right) == [i \in DOMAIN left |-> IF right[i] < left[i] THEN right[i] ELSE left[i]]
max(left, right) == [i \in DOMAIN left |-> IF left[i] < right[i] THEN right[i] ELSE left[i]]
clamp(value, low, high) ==
    [i \in DOMAIN value |-> IF value[i] < low[i] THEN low[i]
                            ELSE IF high[i] < value[i] THEN high[i] ELSE value[i]]

----------------------------------------------------------------------------
(* Reductions, on unsigned lanes of w bits. *)

Bit(v, i) == (v \div 2^i) % 2
SumOver(n, f) == FoldLeft(LAMBDA r, i : r + f[i], 0, Loop(n))

Apply(op, w, a, b) ==
    CASE op = "plus" -> (a + b) % 2^w
      [] op = "multiplies" -> (a * b) % 2^w
      [] op = "bit_and" -> SumOver(w, [i \in Upto(w) |-> Bit(a, i) * Bit(b, i) * 2^i])
      [] op = "bit_or" -> SumOver(w, [i \in Upto(w) |-> IF Bit(a, i) + Bit(b, i) > 0 THEN 2^i ELSE 0])
      [] op = "bit_xor" -> SumOver(w, [i \in Upto(w) |-> ((Bit(a, i) + Bit(b, i)) % 2) * 2^i])

reduction_identity(op, w) ==
    CASE op \in {"plus", "bit_or", "bit_xor"} -> 0
      [] op = "multiplies" -> 1
      [] op = "bit_and" -> 2^w - 1

reduce(op, w, value) ==
    FoldLeft(LAMBDA r, i : Apply(op, w, r, value[i]), value[0], Tail(Loop(Cardinality(DOMAIN value))))

(* The first lane set, or the number of lanes. *)
FirstSet(mask) ==
    LET n == Cardinality(DOMAIN mask)
    IN  FoldLeft(LAMBDA f, i : IF f < i \/ mask[f] THEN f ELSE i + 1, 0, Loop(n))

reduce_masked(op, w, value, mask) ==
    LET n == Cardinality(DOMAIN mask)
        first == FirstSet(mask)
        rest == SelectSeq(Loop(n), LAMBDA i : i > first /\ mask[i])
    IN  IF first = n THEN reduction_identity(op, w)
        ELSE FoldLeft(LAMBDA r, i : Apply(op, w, r, value[i]), value[first], rest)

reduce_min(t, value, mask) ==
    LET n == Cardinality(DOMAIN mask)
        first == FirstSet(mask)
    IN  IF first = n THEN LargestOf(t)
        ELSE FoldLeft(LAMBDA r, i : IF mask[i] /\ value[i] < r THEN value[i] ELSE r,
                      value[first], SelectSeq(Loop(n), LAMBDA i : i > first))
reduce_max(t, value, mask) ==
    LET n == Cardinality(DOMAIN mask)
        first == FirstSet(mask)
    IN  IF first = n THEN LowestOf(t)
        ELSE FoldLeft(LAMBDA r, i : IF mask[i] /\ value[i] > r THEN value[i] ELSE r,
                      value[first], SelectSeq(Loop(n), LAMBDA i : i > first))

reduce_count(mask) == FoldLeft(LAMBDA r, i : IF mask[i] THEN r + 1 ELSE r, 0, Loop(Cardinality(DOMAIN mask)))
reduce_min_index(mask) == IF FirstSet(mask) = Cardinality(DOMAIN mask) THEN 0 ELSE FirstSet(mask)
reduce_max_index(mask) == FoldLeft(LAMBDA r, i : IF mask[i] THEN i ELSE r, 0, Loop(Cardinality(DOMAIN mask)))

----------------------------------------------------------------------------
(* Bits of an unsigned lane of w bits, and shifts of any integer lane by   *)
(* any integer amount.                                                     *)

bit_reverse_scalar(w, v) == SumOver(w, [i \in Upto(w) |-> Bit(v, i) * 2^(w - i - 1)])
bit_repeat_scalar(w, v, length) == SumOver(w, [i \in Upto(w) |-> Bit(v, i % length) * 2^i])

bit_compress_scalar(w, v, mask) ==
    LET Step(s, i) == IF Bit(mask, i) = 1
                      THEN [res |-> s.res + Bit(v, i) * 2^s.dst, dst |-> s.dst + 1] ELSE s
    IN  FoldLeft(Step, [res |-> 0, dst |-> 0], Loop(w)).res
bit_expand_scalar(w, v, mask) ==
    LET Step(s, i) == IF Bit(mask, i) = 1
                      THEN [res |-> s.res + Bit(v, s.src) * 2^i, src |-> s.src + 1] ELSE s
    IN  FoldLeft(Step, [res |-> 0, src |-> 0], Loop(w)).res

(* The size of a shift, without negating the smallest number. *)
ForgetsOne(s, shift) == Cast(IntType(FALSE, s.bits), IF shift < 0 THEN -(shift + 1) ELSE shift)
shift_magnitude(s, shift) ==
    LET U == IntType(FALSE, s.bits)
    IN  IF shift < 0 THEN Cast(U, Cast(U, -(shift + 1)) + 1) ELSE Cast(U, shift)

(* value >> amount, arithmetic on signed lanes. *)
ShiftedDown(t, v, amount) == Cast(t, v \div 2^amount)
ShiftedUp(t, v, amount) == Cast(t, Cast(IntType(FALSE, t.bits), v) * 2^amount)
SignFill(t, v) == IF t.signed /\ v < 0 THEN -1 ELSE 0
IsWide(t, s, shift) == shift_magnitude(s, shift) >= Cast(IntType(FALSE, s.bits), t.bits)

shift_left_scalar(t, v, s, shift) ==
    IF IsWide(t, s, shift) THEN IF shift < 0 THEN SignFill(t, v) ELSE 0
    ELSE IF shift < 0 THEN ShiftedDown(t, v, shift_magnitude(s, shift))
         ELSE ShiftedUp(t, v, shift_magnitude(s, shift))
shift_right_scalar(t, v, s, shift) ==
    IF IsWide(t, s, shift) THEN IF shift < 0 THEN 0 ELSE SignFill(t, v)
    ELSE IF shift < 0 THEN ShiftedUp(t, v, shift_magnitude(s, shift))
         ELSE ShiftedDown(t, v, shift_magnitude(s, shift))

----------------------------------------------------------------------------
(* Walking over the lanes with simd_iterator up to the sentinel, which     *)
(* compares and subtracts by the number of lanes.                          *)

Sentinel(it) == it.index = Cardinality(DOMAIN it.value)
ToSentinel(it) == Cardinality(DOMAIN it.value) - it.index
Walk(value) ==
    LET Step(s, k) == IF Sentinel(s.it) THEN s
                      ELSE [it |-> [s.it EXCEPT !.index = @ + 1], seen |-> Append(s.seen, value[s.it.index])]
        begin == [value |-> value, index |-> 0]
    IN  [seen |-> FoldLeft(Step, [it |-> begin, seen |-> <<>>], Loop(ToSentinel(begin) + 2)).seen,
         length |-> ToSentinel(begin)]

----------------------------------------------------------------------------
(* The calls of a program. *)

MemoryAt == [a \in Upto(Cells) |-> a + 2]
Masks(n) == [Upto(n) -> BOOLEAN]
Samples == {[i \in Upto(Lanes) |-> i + 1], [i \in Upto(Lanes) |-> (3 * i + 2) % 5], [i \in Upto(Lanes) |-> 7 - i]}
Widest == CHOOSE b \in Bits : \A c \in Bits : c <= b
Formats == {FloatType(2, 0, 3), FloatType(3, 0, 4), FloatType(3, -1, 5)}
Scalars == Ints \cup {BoolType} \cup Formats

StartConversion == \E f \in Scalars, t \in Scalars : job = [op |-> "converts", from |-> f, to |-> t]
StartConstant ==
    \E f \in Ints \cup {BoolType} : \E t \in Scalars, v \in ValuesOf(f) :
      job = [op |-> "constant", source |-> f, to |-> t, v |-> v]

(* Memory has Cells elements, the range handed over starts at the second.  *)
StartTransfer ==
    \E o \in {"partial_load", "unchecked_load", "partial_store", "unchecked_store"},
       b \in {"count", "sentinel", "range", "pointer"}, n \in 0..(Cells - 1), m \in Masks(Lanes),
       t \in {IntType(FALSE, 3), IntType(TRUE, Widest)} :
      /\ o \in {"unchecked_load", "unchecked_store"} => n >= Lanes
      /\ b = "pointer" => o \in {"unchecked_load", "unchecked_store"}
      /\ job = [op |-> o, by |-> b, mem |-> MemoryAt, from |-> 1, count |-> n, mask |-> m,
                value |-> [i \in Upto(Lanes) |-> 7 - i], to |-> t]

(* Around zero, around the end of memory, and around the limits. *)
IndexValues(t) ==
    {v \in ValuesOf(t) : \/ -1 <= v /\ v < Cells
                         \/ v \in {LowestOf(t), LargestOf(t), 2^(SizeBits - 1) - 1, 2^(SizeBits - 1)}}
InRange(c, i) == 0 <= c.indices[i] /\ c.indices[i] < c.count
StartGather ==
    \E o \in {"partial_gather", "unchecked_gather", "partial_scatter", "unchecked_scatter"}, t \in Ints :
    \E n \in 0..(Cells - 1), m \in Masks(2), x \in [Upto(2) -> IndexValues(t)] :
      /\ job = [op |-> o, mem |-> MemoryAt, from |-> 1, count |-> n, mask |-> m, index |-> t, indices |-> x,
                value |-> [i \in Upto(2) |-> i + 6], to |-> IntType(FALSE, Widest)]
      /\ o \in {"unchecked_gather", "unchecked_scatter"} => \A i \in Upto(2) : m[i] => InRange(job, i)

StartLanes ==
    \E o \in {"compress", "expand", "select", "cat_chunk", "minmax", "reduce_min", "reduce_max", "iterate"},
       v \in Samples, m \in Masks(Lanes), w \in Samples :
      job = [op |-> o, value |-> v, mask |-> m, other |-> w]
StartPermute ==
    \E o \in {"static_permute", "permute"}, n \in {1, 3}, v \in Samples :
    \E x \in [Upto(n) -> (IF o = "permute" THEN 0 ELSE uninit_element)..(Lanes - 1)] :
      job = [op |-> o, value |-> v, map |-> x]
StartMask ==
    \/ \E m \in Masks(Lanes), d \in {2, Lanes, Lanes + 1} : job = [op |-> "mask", mask |-> m, digits |-> d]
    \/ \E n \in 1..(Lanes + 1), u \in Upto(2^Lanes) : job = [op |-> "from_bits", n |-> n, bits |-> u]
StartReduction ==
    \E b \in {"plus", "multiplies", "bit_and", "bit_or", "bit_xor"}, v \in Samples, m \in Masks(Lanes) :
      job = [op |-> "reduce", by |-> b, value |-> v, mask |-> m]
StartBits ==
    \E o \in {"bit_reverse", "bit_repeat", "bit_compress", "bit_expand"},
       v \in Upto(2^4), m \in 1..(2^4 - 1) :
      job = [op |-> o, w |-> 4, v |-> v, mask |-> m]
StartShift ==
    \E o \in {"shl", "shr"}, t \in Ints, s \in Ints : \E v \in ValuesOf(t), k \in ValuesOf(s) :
      job = [op |-> o, type |-> t, v |-> v, by |-> s, shift |-> k]

----------------------------------------------------------------------------
Returned(c) ==
    CASE c.op = "converts" -> is_value_preserving_conversion(c.from, c.to)
      [] c.op = "constant" -> IF Integral(c.to) THEN is_integer_representable(c.source, c.to, c.v)
                              ELSE is_floating_representable(c.source, c.to, c.v)
      [] c.op = "partial_load" -> partial_load(c)
      [] c.op = "unchecked_load" -> unchecked_load(c)
      [] c.op = "partial_store" -> partial_store(c)
      [] c.op = "unchecked_store" -> unchecked_store(c)
      [] c.op = "partial_gather" -> partial_gather_from(c)
      [] c.op = "unchecked_gather" -> unchecked_gather_from(c)
      [] c.op = "partial_scatter" -> partial_scatter_to(c)
      [] c.op = "unchecked_scatter" -> unchecked_scatter_to(c)
      [] c.op = "compress" -> compress(c.value, c.mask, 9)
      [] c.op = "expand" -> expand(c.value, c.mask, c.other)
      [] c.op = "select" -> simd_select_impl(c.mask, c.value, c.other)
      [] c.op = "cat_chunk" -> [k \in 1..Lanes |-> chunk_impl(c.value, k)]
      [] c.op = "minmax" -> <<min(c.value, c.other), max(c.value, c.other)>>
      [] c.op = "reduce_min" -> reduce_min(IntType(FALSE, 3), c.value, c.mask)
      [] c.op = "reduce_max" -> reduce_max(IntType(FALSE, 3), c.value, c.mask)
      [] c.op = "iterate" -> Walk(c.value)
      [] c.op = "static_permute" -> permute_from_map_impl(c.value, c.map)
      [] c.op = "permute" -> permute_from_indices(c.value, c.map)
      [] c.op = "mask" -> to_ullong(c.mask, c.digits)
      [] c.op = "from_bits" -> basic_mask(c.n, c.bits)
      [] c.op = "reduce" -> reduce_masked(c.by, 3, c.value, c.mask)
      [] c.op = "bit_reverse" -> bit_reverse_scalar(c.w, c.v)
      [] c.op = "bit_repeat" -> bit_repeat_scalar(c.w, c.v, c.mask)
      [] c.op = "bit_compress" -> bit_compress_scalar(c.w, c.v, c.mask)
      [] c.op = "bit_expand" -> bit_expand_scalar(c.w, c.v, c.mask)
      [] c.op = "shl" -> shift_left_scalar(c.type, c.v, c.by, c.shift)
      [] c.op = "shr" -> shift_right_scalar(c.type, c.v, c.by, c.shift)

Init ==
    /\ \/ StartConversion \/ StartConstant
       \/ StartTransfer \/ StartGather
       \/ StartLanes \/ StartPermute \/ StartMask \/ StartReduction
       \/ StartBits \/ StartShift
    /\ yield = <<>>

Next ==
    /\ yield = <<>>
    /\ yield' = <<Returned(job)>>
    /\ UNCHANGED job

Spec == Init /\ [][Next]_svars

----------------------------------------------------------------------------
(* What the calls promise, said without the loops of the code. *)

Scale == 2^4
FloatValues(t) ==
    {m * 2^(q + 4) : m \in -(2^t.digits - 1)..(2^t.digits - 1),
                     q \in (t.min_exponent - t.digits)..(t.max_exponent - t.digits)}
Scaled(t) == IF Integral(t) THEN {v * Scale : v \in ValuesOf(t)} ELSE FloatValues(t)

Same(t, v, r) == r \in ValuesOf(t) /\ (v - r) % 2^t.bits = 0
SetBelow(m, i) == Cardinality({j \in DOMAIN m : j < i /\ m[j]})
SetLanes(m) == {i \in DOMAIN m : m[i]}
Power(t, k) == 2^(IF k > t.bits THEN t.bits ELSE k)
Floor(t, v, k) == IF k >= 0 THEN Cast(t, v * Power(t, k)) ELSE Cast(t, v \div Power(t, -k))

(* A conversion that needs no flag changes no value, and among integers    *)
(* every such conversion is found; a constant is accepted exactly where    *)
(* the target has its value, also at the limits of both types.             *)
ConversionsExact(c, r) ==
    CASE c.op = "converts" -> /\ r => Scaled(c.from) \subseteq Scaled(c.to)
                              /\ Integral(c.from) /\ Integral(c.to) =>
                                   r = (Scaled(c.from) \subseteq Scaled(c.to))
      [] c.op = "constant" -> r = (c.v * Scale \in Scaled(c.to))
      [] OTHER -> TRUE

(* A load, store, gather or scatter dereferences the cells of the lanes    *)
(* that are selected and inside the extent and no other, and moves exactly *)
(* their values: a lane left out is zero in a register and untouched in    *)
(* memory, and of two lanes scattered to one cell the later one stays.     *)
Moved(c) ==
    IF c.op \in {"partial_load", "unchecked_load", "partial_store", "unchecked_store"}
    THEN {i \in SetLanes(c.mask) : c.by # "pointer" => i < c.count}
    ELSE {i \in SetLanes(c.mask) : InRange(c, i)}
CellOf(c, i) ==
    IF c.op \in {"partial_load", "unchecked_load", "partial_store", "unchecked_store"}
    THEN c.from + i ELSE c.from + c.indices[i]
TransfersExact(c, r) ==
    LET last(a) == CHOOSE i \in Moved(c) : CellOf(c, i) = a /\ \A j \in Moved(c) : CellOf(c, j) = a => j <= i
    IN  /\ r.touched = {CellOf(c, i) : i \in Moved(c)}
        /\ r.touched \subseteq 1..(Cells - 1)
        /\ IF c.op \in {"partial_load", "unchecked_load", "partial_gather", "unchecked_gather"}
           THEN \A i \in DOMAIN c.mask : IF i \in Moved(c) THEN Same(c.to, c.mem[CellOf(c, i)], r.lanes[i])
                                                           ELSE r.lanes[i] = 0
           ELSE \A a \in Upto(Cells) : IF a \in r.touched THEN Same(c.to, c.value[last(a)], r.lanes[a])
                                                           ELSE r.lanes[a] = c.mem[a]

(* Compressing, expanding, permuting, cutting and joining keep every lane  *)
(* in its place or its order, and lose or invent none.                     *)
LanesExact(c, r) ==
    CASE c.op = "compress" ->
           /\ \A i \in SetLanes(c.mask) : r[SetBelow(c.mask, i)] = c.value[i]
           /\ \A i \in Upto(Lanes) : i >= Cardinality(SetLanes(c.mask)) => r[i] = 9
           /\ expand(r, c.mask, c.value) = c.value
      [] c.op = "expand" ->
           /\ \A i \in Upto(Lanes) : r[i] = IF c.mask[i] THEN c.value[SetBelow(c.mask, i)] ELSE c.other[i]
           /\ \A i \in Upto(Cardinality(SetLanes(c.mask))) : compress(r, c.mask, 9)[i] = c.value[i]
      [] c.op = "select" -> \A i \in Upto(Lanes) : r[i] = (IF c.mask[i] THEN c.value ELSE c.other)[i]
      [] c.op = "cat_chunk" ->
           \A k \in 1..Lanes :
             /\ cat_impl(r[k]) = c.value
             /\ \A j \in 1..Len(r[k]) : Cardinality(DOMAIN r[k][j]) = k \/ j = Len(r[k])
             /\ Cardinality(DOMAIN r[k][Len(r[k])]) \in 1..k
      [] c.op = "minmax" ->
           \A i \in Upto(Lanes) : /\ {r[1][i], r[2][i]} = {c.value[i], c.other[i]}
                                  /\ r[1][i] <= r[2][i]
                                  /\ \A low \in 0..r[2][i] :
                                       LET x == clamp(c.value, [j \in Upto(Lanes) |-> low], c.other)[i]
                                       IN  low <= c.other[i] =>
                                             low <= x /\ x <= c.other[i]
                                             /\ (low <= c.value[i] /\ c.value[i] <= c.other[i] => x = c.value[i])
      [] c.op = "iterate" -> r.seen = [k \in 1..Lanes |-> c.value[k - 1]] /\ r.length = Lanes
      [] c.op \in {"static_permute", "permute"} ->
           \A i \in DOMAIN c.map : r[i] = IF c.map[i] < 0 THEN 0 ELSE c.value[c.map[i]]
      [] OTHER -> TRUE

(* A masked reduction is the reduction of the whole vector with the        *)
(* identity in the lanes left out, and so it is the identity if none is    *)
(* selected; counts and positions are those of the set lanes; a mask and   *)
(* its number stand for the same lanes as far as the number reaches.       *)
ReductionsExact(c, r) ==
    CASE c.op = "reduce" ->
           r = reduce(c.by, 3, simd_select_impl(c.mask, c.value, [i \in Upto(Lanes) |-> reduction_identity(c.by, 3)]))
      [] c.op = "reduce_min" ->
           LET vs == {c.value[i] : i \in SetLanes(c.mask)} \cup {7} IN r \in vs /\ \A v \in vs : r <= v
      [] c.op = "reduce_max" ->
           LET vs == {c.value[i] : i \in SetLanes(c.mask)} \cup {0} IN r \in vs /\ \A v \in vs : r >= v
      [] c.op = "mask" ->
           /\ \A i \in Upto(Lanes) : basic_mask(Lanes, r)[i] = (c.mask[i] /\ i < c.digits)
           /\ reduce_count(c.mask) = Cardinality(SetLanes(c.mask))
           /\ SetLanes(c.mask) # {} =>
                /\ {reduce_min_index(c.mask), reduce_max_index(c.mask)} \subseteq SetLanes(c.mask)
                /\ SetLanes(c.mask) \subseteq reduce_min_index(c.mask)..reduce_max_index(c.mask)
           /\ \A i \in Upto(Lanes) : LET v == [g \in {"+", "-", "~"} |-> MaskToVec(g, c.mask)[i]]
                                     IN  v["+"] + v["-"] = 0 /\ v["~"] = -1 - v["+"]
      [] c.op = "from_bits" -> to_ullong(r, c.n) = c.bits % 2^c.n
      [] OTHER -> TRUE

(* Reversing twice gives the lane back; compressing undoes expanding under *)
(* the same mask and the other way round, up to the bits the mask drops; a *)
(* shift by any amount of either sign, the smallest one included, is the   *)
(* product or the floored quotient by that power of two in the lane's type.*)
BitsExact(c, r) ==
    CASE c.op = "bit_reverse" -> /\ bit_reverse_scalar(c.w, r) = c.v
                                 /\ \A i \in Upto(c.w) : Bit(r, i) = Bit(c.v, c.w - 1 - i)
      [] c.op = "bit_repeat" -> \A i \in Upto(c.w) : Bit(r, i) = IF i < c.mask THEN Bit(c.v, i) ELSE Bit(r, i - c.mask)
      [] c.op = "bit_compress" -> bit_expand_scalar(c.w, r, c.mask) = Apply("bit_and", c.w, c.v, c.mask)
      [] c.op = "bit_expand" ->
           bit_compress_scalar(c.w, r, c.mask) = c.v % 2^Cardinality({i \in Upto(c.w) : Bit(c.mask, i) = 1})
      [] c.op = "shl" -> r = Floor(c.type, c.v, c.shift)
      [] c.op = "shr" -> r = Floor(c.type, c.v, -c.shift)
      [] OTHER -> TRUE

TransferOps ==
    {"partial_load", "unchecked_load", "partial_store", "unchecked_store",
     "partial_gather", "unchecked_gather", "partial_scatter", "unchecked_scatter"}

(* Every call of the data-parallel types returns what it promises.         *)
SimdExact ==
    yield # <<>> =>
      /\ ConversionsExact(job, yield[1])
      /\ job.op \in TransferOps => TransfersExact(job, yield[1])
      /\ LanesExact(job, yield[1])
      /\ ReductionsExact(job, yield[1])
      /\ BitsExact(job, yield[1])
=============================================================================
