------------------------------- MODULE Linalg -------------------------------
(***************************************************************************)
(* The BLAS algorithms of backport/cpp26/linalg (level1.hpp, level2.hpp,   *)
(* level3.hpp and the helpers of detail.hpp) on matrices and vectors of    *)
(* complex integers.                                                       *)
(*                                                                         *)
(* A behaviour is one call: "call" says which algorithm runs on which      *)
(* operands, "out" is what it has written or returned.  A loop that writes *)
(* an operand it still reads (triangular products and solves, an update    *)
(* whose output is also its input, the two halves of a symmetric product)  *)
(* is a fold over the memory in the order of the code; so is a loop that   *)
(* takes the elements by blocks.  The order of the additions of one sum    *)
(* cannot be told apart, as rounding is not modelled: numbers are exact,   *)
(* except in the integral reductions, whose elements and results have W    *)
(* bits and uintmax_t Wide bits.                                           *)
(***************************************************************************)
EXTENDS Integers, Sequences, FiniteSets, SequencesExt

CONSTANTS Sizes,    \* the extents of matrices and vectors
          Seeds,    \* one set of operands for each
          kN,       \* the elements of a vector register
          W, Wide,  \* bits of an integral element and of uintmax_t
          Budget    \* the largest square sum that is kept exactly

VARIABLES call, out, done

vars == <<call, out, done>>

(* The layouts, and complex numbers. *)
L == INSTANCE Mdspan WITH Shapes <- {}, MaxOps <- 0, MaxRank <- 0,
                          src <- 0, view <- 0, origin <- 0, factor <- 0, ops <- 0

Dyn == L!Dyn
Zero == <<0, 0>>
One == <<1, 0>>
Plus(a, b) == <<a[1] + b[1], a[2] + b[2]>>
Minus(a, b) == <<a[1] - b[1], a[2] - b[2]>>
Times(a, b) == L!Times(a, b)
conj_if_needed(a) == L!Conj(a)
real_if_needed(a) == <<a[1], 0>>

(* The quotient, where it is a complex integer. *)
Over(a, b) ==
    LET d == b[1] * b[1] + b[2] * b[2]
        p == Times(a, conj_if_needed(b))
    IN  <<p[1] \div d, p[2] \div d>>

SumC(f) == FoldFunction(Plus, Zero, f)

Upto(n) == 0..(n - 1)
Ascending(n) == [k \in 1..n |-> k - 1]
Descending(n) == [k \in 1..n |-> n - k]

----------------------------------------------------------------------------
(* Operands: one set for each seed, with nothing regular about it.  The    *)
(* elements an algorithm must not read (the other triangle, a diagonal     *)
(* that is implicitly one) are there too, and differ.                      *)

Sample(c, k, i, j) ==
    <<((3 * (c.seed + k) + 5 * i + 7 * j + i * j) % 7) - 3,
      IF c.real THEN 0 ELSE ((c.seed + k + 2 * i + 3 * j + i * i * j) % 5) - 2>>

Diagonal(v) == IF v = Zero THEN <<2, 0>> ELSE v

Mat(c, k, rows, cols) ==
    [p \in Upto(rows) \X Upto(cols) |->
        IF p[1] = p[2] THEN Diagonal(Sample(c, k, p[1], p[2])) ELSE Sample(c, k, p[1], p[2])]

Vec(c, k) == [i \in Upto(c.n) |-> Sample(c, k, i, 1)]

A(c) == Mat(c, 0, c.n, c.n)
X(c) == Vec(c, 3)
Y(c) == Vec(c, 4)
Alpha(c) == IF c.base = "plain" THEN One ELSE Diagonal(Sample(c, 0, 2, 1))

MatMul(P, Q, rows, inner, cols) ==
    [p \in Upto(rows) \X Upto(cols) |->
        SumC([l \in Upto(inner) |-> Times(P[p[1], l], Q[l, p[2]])])]

MatVec(P, v, rows, cols) ==
    [i \in Upto(rows) |-> SumC([j \in Upto(cols) |-> Times(P[i, j], v[j])])]

----------------------------------------------------------------------------
(* Loops by blocks of kN elements, then the rest one by one. *)

BlockStarts(n) == [b \in 1..(n \div kN) |-> (b - 1) * kN]

Rest(n) == [t \in 1..(n % kN) |-> (n \div kN) * kN + t - 1]

Block(b) == b..(b + kN - 1)

SimdSum(f, n) ==
    FoldLeft(LAMBDA acc, i : Plus(acc, f[i]),
             FoldLeft(LAMBDA acc, b : Plus(acc, SumC([i \in Block(b) |-> f[i]])),
                      Zero, BlockStarts(n)),
             Rest(n))

SimdWrite(f, to, n) ==
    FoldLeft(LAMBDA v, i : [v EXCEPT ![i] = f[i]],
             FoldLeft(LAMBDA v, b : [i \in DOMAIN v |-> IF i \in Block(b) THEN f[i] ELSE v[i]],
                      to, BlockStarts(n)),
             Rest(n))

(* The registers hold real numbers only. *)
Write(c, f, to) ==
    IF c.real THEN SimdWrite(f, to, c.n)
    ELSE FoldLeft(LAMBDA v, i : [v EXCEPT ![i] = f[i]], to, Ascending(c.n))

----------------------------------------------------------------------------
(* Level 1. *)

copy(c) == Write(c, X(c), Y(c))

scale(c) == Write(c, [i \in Upto(c.n) |-> Times(Alpha(c), X(c)[i])], X(c))

swap_elements(c) ==
    FoldLeft(LAMBDA v, i : <<[v[1] EXCEPT ![i] = v[2][i]], [v[2] EXCEPT ![i] = v[1][i]]>>,
             <<X(c), Y(c)>>, Ascending(c.n))

(* z is a third vector, or x or y itself. *)
add(c) ==
    FoldLeft(LAMBDA z, i : [z EXCEPT ![i] = Plus(X(c)[i], IF c.base = "alias" THEN z[i] ELSE Y(c)[i])],
             IF c.base = "alias" THEN Y(c) ELSE Vec(c, 5), Ascending(c.n))

(* The sum starts with the first product added to init. *)
dot_numeric_sum(init, n, f) ==
    FoldLeft(LAMBDA sum, i : Plus(sum, f[i]), Plus(init, f[0]), Tail(Ascending(n)))

dot(c) ==
    LET f == [i \in Upto(c.n) |-> Times(X(c)[i], Y(c)[i])]
    IN  IF c.n = 0 THEN Alpha(c)
        ELSE IF c.real THEN Plus(Alpha(c), SimdSum(f, c.n))
        ELSE dot_numeric_sum(Alpha(c), c.n, f)

dotc(c) ==
    IF c.n = 0 THEN Alpha(c)
    ELSE dot_numeric_sum(Alpha(c), c.n,
                         [i \in Upto(c.n) |-> Times(conj_if_needed(X(c)[i]), Y(c)[i])])

(* Both elements are read before either is written. *)
apply_givens_rotation(c) ==
    LET cos == real_if_needed(Alpha(c))
        sin == Sample(c, 1, 1, 1)
    IN  FoldLeft(LAMBDA v, i :
                    LET xi == v[1][i]
                        yi == v[2][i]
                    IN  <<[v[1] EXCEPT ![i] = Plus(Times(cos, xi), Times(sin, yi))],
                          [v[2] EXCEPT ![i] = Minus(Times(cos, yi), Times(conj_if_needed(sin), xi))]>>,
                 <<X(c), Y(c)>>, Ascending(c.n))

----------------------------------------------------------------------------
(* Level 2: matrices and vectors. *)

(* z = y + A x, where z may be y; the first form has no y. *)
AddRows(c, row) ==
    FoldLeft(LAMBDA z, i :
                [z EXCEPT ![i] = CASE c.base = "overwrite" -> row[i]
                                   [] c.base = "update"    -> Plus(Y(c)[i], row[i])
                                   [] c.base = "alias"     -> Plus(z[i], row[i])],
             IF c.base = "alias" THEN Y(c) ELSE Vec(c, 5), Ascending(c.n))

matrix_vector_product(c) ==
    LET f(i) == [j \in Upto(c.n) |-> Times(A(c)[i, j], X(c)[j])]
    IN  AddRows(c, [i \in Upto(c.n) |->
                       IF c.real /\ c.base = "overwrite" THEN SimdSum(f(i), c.n) ELSE SumC(f(i))])

Row(tri, i, n) == IF tri = "upper" THEN i..(n - 1) ELSE 0..i

(* One row of a triangular product with the vector as it is now. *)
compute_row(c, x, i) ==
    SumC([j \in Row(c.tri, i, c.n) |-> IF c.unit /\ j = i THEN x[j] ELSE Times(A(c)[i, j], x[j])])


(* A row reads only elements that are not written yet. *)
RowOrder(c) == IF c.tri = "upper" THEN Ascending(c.n) ELSE Descending(c.n)

triangular_matrix_vector_product_in_place(c) ==
    FoldLeft(LAMBDA x, i : [x EXCEPT ![i] = compute_row(c, x, i)], X(c), RowOrder(c))

triangular_matrix_vector_product(c) ==
    FoldLeft(LAMBDA y, i : [y EXCEPT ![i] = compute_row(c, X(c), i)], Y(c), Ascending(c.n))

(* Substitution: one column of the right-hand side, in place. *)
Substitute(c, b) ==
    FoldLeft(LAMBDA x, i :
                LET s == Minus(x[i], SumC([j \in Row(c.tri, i, c.n) \ {i} |-> Times(A(c)[i, j], x[j])]))
                IN  [x EXCEPT ![i] = IF c.unit THEN s ELSE Over(s, A(c)[i, i])],
             b, IF c.tri = "upper" THEN Descending(c.n) ELSE Ascending(c.n))

(* The right-hand sides are products, so that the solution is integral. *)
triangular_matrix_vector_solve(c) ==
    Substitute(c, triangular_matrix_vector_product(c))

(* Each stored element off the diagonal is used twice: for (i, j) as       *)
(* "up", for (j, i) as "down".                                             *)
TwoHalves(c, up, down, diag) ==
    FoldLeft(LAMBDA y, i :
                FoldLeft(LAMBDA w, j :
                            [w EXCEPT ![i] = Plus(@, Times(up[i, j], X(c)[j])),
                                      ![j] = Plus(@, Times(down[i, j], X(c)[i]))],
                         [y EXCEPT ![i] = Plus(@, Times(diag[i], X(c)[i]))],
                         [k \in 1..(c.n - 1 - i) |-> i + k]),
             [i \in Upto(c.n) |-> Zero], Ascending(c.n))

RowsOf(c, up, down, diag) ==
    AddRows(c, [i \in Upto(c.n) |->
                  SumC([j \in Upto(c.n) |->
                          Times(CASE i = j -> diag[i] [] i < j -> up[i, j] [] i > j -> down[j, i],
                                X(c)[j])])])

Square(c) == Upto(c.n) \X Upto(c.n)

(* What is stored for (p[1], p[2]), p[1] < p[2]. *)
StoredAt(c, p) == IF c.tri = "upper" THEN A(c)[p] ELSE A(c)[p[2], p[1]]

symmetric_matrix_vector_product(c) ==
    LET aij == [p \in Square(c) |-> StoredAt(c, p)]
        diag == [i \in Upto(c.n) |-> A(c)[i, i]]
    IN  IF c.base = "overwrite" THEN TwoHalves(c, aij, aij, diag) ELSE RowsOf(c, aij, aij, diag)

hermitian_matrix_vector_product(c) ==
    LET up == [p \in Square(c) |->
                 IF c.tri = "upper" THEN StoredAt(c, p) ELSE conj_if_needed(StoredAt(c, p))]
        down == [p \in Square(c) |-> conj_if_needed(up[p])]
        diag == [i \in Upto(c.n) |-> real_if_needed(A(c)[i, i])]
    IN  IF c.base = "overwrite" THEN TwoHalves(c, up, down, diag) ELSE RowsOf(c, up, down, diag)

----------------------------------------------------------------------------
(* Updates of a matrix in memory.  c.lay is its layout: a whole matrix by  *)
(* rows or columns, or a packed triangle.  The update may start from       *)
(* nothing, from a matrix E, or from the matrix itself.                    *)

Mapping(c) ==
    IF c.lay \in {"left", "right"} THEN [layout |-> c.lay, ext |-> <<c.n, c.n>>]
    ELSE [layout |-> "packed", ext |-> <<c.n, c.n>>, tri |-> c.tri, order |-> c.lay]

Memory(c) == [o \in Upto(L!required_span_size(Mapping(c))) |-> Sample(c, 5, o, 2)]

E(c) == Mat(c, 2, c.n, c.n)

(* The elements an update writes. *)
Written(c) == IF c.tri = "both" THEN Square(c) ELSE {p \in Square(c) : p[2] \in Row(c.tri, p[1], c.n)}

ByRows(rows, cols) == [k \in 1..(rows * cols) |-> <<(k - 1) \div cols, (k - 1) % cols>>]

Start(c, mem, p) ==
    CASE c.base = "update" -> E(c)[p]
      [] c.base = "alias"  -> mem[L!At(Mapping(c), p)]
      [] OTHER             -> Zero

WriteUpdate(c, v, hermitian) ==
    FoldLeft(LAMBDA mem, p :
                LET value == Plus(Start(c, mem, p), v[p])
                IN  [mem EXCEPT ![L!At(Mapping(c), p)] =
                        IF hermitian /\ p[1] = p[2] THEN real_if_needed(value) ELSE value],
             Memory(c), SelectSeq(ByRows(c.n, c.n), LAMBDA p : p \in Written(c)))

matrix_rank_1_update(c) ==
    WriteUpdate(c, [p \in Square(c) |-> Times(X(c)[p[1]], Y(c)[p[2]])], FALSE)

matrix_rank_1_update_c(c) ==
    WriteUpdate(c, [p \in Square(c) |-> Times(X(c)[p[1]], conj_if_needed(Y(c)[p[2]]))], FALSE)

symmetric_matrix_rank_1_update(c) ==
    WriteUpdate(c, [p \in Square(c) |-> Times(Alpha(c), Times(X(c)[p[1]], X(c)[p[2]]))], FALSE)

(* One overload takes a factor and starts from nothing. *)
Factor(c) == IF c.base = "scaled" THEN Alpha(c) ELSE One

symmetric_matrix_rank_2_update(c) ==
    WriteUpdate(c, [p \in Square(c) |->
                      Times(Factor(c), Plus(Times(X(c)[p[1]], Y(c)[p[2]]),
                                            Times(Y(c)[p[1]], X(c)[p[2]])))], FALSE)

(* The factor of a hermitian update is real, and so is the diagonal. *)
hermitian_matrix_rank_1_update(c) ==
    WriteUpdate(c, [p \in Square(c) |->
                      Times(real_if_needed(Alpha(c)),
                            Times(X(c)[p[1]], conj_if_needed(X(c)[p[2]])))], TRUE)

hermitian_matrix_rank_2_update(c) ==
    WriteUpdate(c, [p \in Square(c) |->
                      Plus(Times(X(c)[p[1]], conj_if_needed(Y(c)[p[2]])),
                           Times(Y(c)[p[1]], conj_if_needed(X(c)[p[2]])))], TRUE)

----------------------------------------------------------------------------
(* Level 3: matrices and matrices.  A general left operand is n by m. *)

G(c, k) == Mat(c, k, c.n, c.m)

matrix_product(c) ==
    WriteUpdate(c, MatMul(G(c, 0), Mat(c, 1, c.m, c.n), c.n, c.m, c.n), FALSE)

(* The products in place read a copy of the matrix they overwrite. *)
Copied(before, now) == before

triangular_matrix_left_product(c) ==
    FoldLeft(LAMBDA C, p :
                LET tmp == Copied(G(c, 1), C)
                IN  [C EXCEPT ![p] = compute_row(c, [k \in Upto(c.n) |-> tmp[k, p[2]]], p[1])],
             G(c, 1), ByRows(c.n, c.m))

Column(tri, j, n) == IF tri = "upper" THEN 0..j ELSE j..(n - 1)

triangular_matrix_right_product(c) ==
    FoldLeft(LAMBDA C, p :
                LET tmp == Copied(Mat(c, 1, c.m, c.n), C)
                IN  [C EXCEPT ![p] =
                       SumC([k \in Column(c.tri, p[2], c.n) |->
                               IF c.unit /\ k = p[2] THEN tmp[p[1], k]
                               ELSE Times(tmp[p[1], k], A(c)[k, p[2]])])],
             Mat(c, 1, c.m, c.n), ByRows(c.m, c.n))

triangular_matrix_matrix_left_solve(c) ==
    LET b == triangular_matrix_left_product(c)
        x == [j \in Upto(c.m) |-> Substitute(c, [i \in Upto(c.n) |-> b[i, j]])]
    IN  [p \in DOMAIN b |-> x[p[2]][p[1]]]

symmetric_matrix_product(c) ==
    LET ail == [p \in Square(c) |->
                  IF p[1] <= p[2] THEN StoredAt(c, p) ELSE StoredAt(c, <<p[2], p[1]>>)]
    IN  MatMul(ail, G(c, 1), c.n, c.n, c.m)

hermitian_matrix_product(c) ==
    LET ail == [p \in Square(c) |->
                  IF p[1] = p[2] THEN real_if_needed(A(c)[p])
                  ELSE IF p[2] \in Row(c.tri, p[1], c.n) THEN A(c)[p]
                  ELSE conj_if_needed(A(c)[p[2], p[1]])]
    IN  MatMul(ail, G(c, 1), c.n, c.n, c.m)

(* The product of row i of P and row j of Q. *)
RowRow(c, P, Q, p) == SumC([l \in Upto(c.m) |-> Times(P[p[1], l], Q[p[2], l])])

ConjOf(M) == [p \in DOMAIN M |-> conj_if_needed(M[p])]

symmetric_matrix_rank_k_update(c) ==
    WriteUpdate(c, [p \in Square(c) |-> Times(Alpha(c), RowRow(c, G(c, 0), G(c, 0), p))], FALSE)

symmetric_matrix_rank_2k_update(c) ==
    WriteUpdate(c, [p \in Square(c) |->
                      Times(Factor(c), Plus(RowRow(c, G(c, 0), G(c, 1), p),
                                            RowRow(c, G(c, 1), G(c, 0), p)))], FALSE)

hermitian_matrix_rank_k_update(c) ==
    WriteUpdate(c, [p \in Square(c) |->
                      Times(real_if_needed(Alpha(c)), RowRow(c, G(c, 0), ConjOf(G(c, 0)), p))], TRUE)

----------------------------------------------------------------------------
(* Integral reductions: c.xs are the elements, c.init the initial value,   *)
(* c.signed whether their type is signed; a matrix is c.xs by rows of c.m. *)

MaxOf(c) == IF c.signed THEN 2^(W - 1) - 1 ELSE 2^W - 1
MinOf(c) == IF c.signed THEN 0 - 2^(W - 1) ELSE 0
uintmax == 2^Wide - 1

(* In the unsigned counterpart, which represents the magnitude of the most *)
(* negative value.                                                         *)
abs_if_needed(v) == IF v < 0 THEN (0 - (v % 2^W)) % 2^W ELSE v

saturating_accumulate_magnitude(total, term) ==
    IF term > uintmax - total THEN uintmax ELSE total + term

saturating_add_magnitude(c, magnitude) ==
    LET distance == (0 - (c.init % 2^W)) % 2^W
    IN  IF magnitude = 0 THEN c.init
        ELSE IF c.init >= 0
        THEN IF magnitude > MaxOf(c) - c.init THEN MaxOf(c) ELSE c.init + magnitude
        ELSE IF magnitude < distance THEN 0 - (distance - magnitude)
        ELSE IF magnitude - distance > MaxOf(c) THEN MaxOf(c)
        ELSE magnitude - distance

saturate_cast(c, value) ==
    IF value <= MinOf(c) THEN MinOf(c) ELSE IF value >= MaxOf(c) THEN MaxOf(c) ELSE value

AbsSum(xs) ==
    FoldLeft(LAMBDA total, x : saturating_accumulate_magnitude(total, abs_if_needed(x)), 0, xs)

vector_abs_sum(c) == saturating_add_magnitude(c, AbsSum(c.xs))

(* The first of the elements with the largest magnitude. *)
vector_idx_abs_max(c) ==
    IF c.xs = <<>> THEN uintmax
    ELSE FoldLeft(LAMBDA best, i :
                     IF abs_if_needed(c.xs[i + 1]) > abs_if_needed(c.xs[best + 1]) THEN i ELSE best,
                  0, Tail(Ascending(Len(c.xs))))

(* The scaling factor of the result is 1. *)
vector_sum_of_squares(c) ==
    saturate_cast(c, FoldLeft(LAMBDA total, x : total + abs_if_needed(x) * abs_if_needed(x),
                              c.m * c.m * c.init, c.xs))

(* The check comes before the multiplication. *)
integral_norm_accumulator_add(acc, v) ==
    LET term == abs_if_needed(v)
    IN  IF \/ ~acc.within
           \/ term > Budget
           \/ term # 0 /\ term > (Budget - acc.sum) \div term
        THEN [acc EXCEPT !.within = FALSE]
        ELSE [acc EXCEPT !.sum = @ + term * term]

Root(s) == CHOOSE r \in 0..s : r * r <= s /\ (r + 1) * (r + 1) > s

(* Beyond the budget the norm is a rounded double: the model says Dyn. *)
integral_norm(c) ==
    LET acc == FoldLeft(integral_norm_accumulator_add, [sum |-> 0, within |-> TRUE], <<c.init>> \o c.xs)
    IN  IF acc.within THEN saturate_cast(c, Root(acc.sum)) ELSE Dyn

vector_two_norm(c) == integral_norm(c)
matrix_frob_norm(c) == integral_norm(c)

RowOf(c, i) == SubSeq(c.xs, (i - 1) * c.m + 1, i * c.m)
ColumnOf(c, j) == [i \in 1..c.n |-> c.xs[(i - 1) * c.m + j]]

Largest(sums) == FoldLeft(LAMBDA best, s : IF s > best THEN s ELSE best, 0, sums)

matrix_one_norm(c) ==
    IF c.m = 0 THEN c.init
    ELSE saturating_add_magnitude(c, Largest([j \in 1..c.m |-> AbsSum(ColumnOf(c, j))]))

matrix_inf_norm(c) ==
    IF c.n = 0 THEN c.init
    ELSE saturating_add_magnitude(c, Largest([i \in 1..c.n |-> AbsSum(RowOf(c, i))]))

(* The size of the copy a product in place makes, if it is representable. *)
checked_matrix_storage_size(c) ==
    IF c.m # 0 /\ c.n > uintmax \div c.m THEN Dyn ELSE c.n * c.m

----------------------------------------------------------------------------
(* What the types of the operands must satisfy: a static extent and a      *)
(* dynamic one always agree, two static ones when they are equal.  c.xs    *)
(* are the extents of three operands, two each.                            *)

compatible_static_extent(a, b) == a = Dyn \/ b = Dyn \/ a = b

compatible_static_extents(x, y) ==
    compatible_static_extent(x[1], y[1]) /\ compatible_static_extent(x[2], y[2])

square_static_extents(a) == compatible_static_extent(a[1], a[2])

square_matrix_vector_static_extents(a, x) ==
    square_static_extents(a) /\ \A k \in 1..2 : compatible_static_extent(a[k], x)

square_matrix_vectors_static_extents(a, x, y) ==
    /\ square_matrix_vector_static_extents(a, x)
    /\ square_matrix_vector_static_extents(a, y)
    /\ compatible_static_extent(x, y)

matrix_product_static_extents(a, b, c) ==
    /\ compatible_static_extent(a[2], b[1])
    /\ compatible_static_extent(a[1], c[1])
    /\ compatible_static_extent(b[2], c[2])

square_matrix_left_operand_static_extents(a, b) ==
    square_static_extents(a) /\ \A k \in 1..2 : compatible_static_extent(a[k], b[1])

square_matrix_right_operand_static_extents(a, b) ==
    square_static_extents(a) /\ \A k \in 1..2 : compatible_static_extent(a[k], b[2])

square_matrix_product_static_extents(a, b, c) ==
    /\ square_matrix_left_operand_static_extents(a, b)
    /\ square_matrix_left_operand_static_extents(a, c)
    /\ compatible_static_extents(b, c)

matrix_rank_k_static_extents(a, c) ==
    square_static_extents(c) /\ \A k \in 1..2 : compatible_static_extent(a[1], c[k])

matrix_rank_2k_static_extents(a, b, c) ==
    /\ matrix_rank_k_static_extents(a, c)
    /\ matrix_rank_k_static_extents(b, c)
    /\ compatible_static_extents(a, b)

----------------------------------------------------------------------------
(* The calls.  Every record has the same fields; an algorithm looks at     *)
(* those that are its own.                                                 *)

AnyCall == [op |-> "copy", n |-> 0, m |-> 0, tri |-> "both", unit |-> FALSE, lay |-> "right",
            base |-> "overwrite", seed |-> 0, real |-> FALSE, signed |-> TRUE, init |-> 0, xs |-> <<>>]

VectorOps ==
    {"copy", "scale", "swap_elements", "add", "dot", "dotc", "apply_givens_rotation",
     "matrix_vector_product"}

VectorCalls ==
    {[AnyCall EXCEPT !.op = o, !.n = n, !.base = b, !.real = r, !.seed = s] :
        o \in VectorOps,
        n \in 0..(2 * kN + 1), b \in {"overwrite", "update", "alias"}, r \in BOOLEAN, s \in Seeds}

TriangularOps ==
    {"triangular_matrix_vector_product_in_place", "triangular_matrix_vector_product",
     "triangular_matrix_vector_solve", "triangular_matrix_left_product",
     "triangular_matrix_right_product", "triangular_matrix_matrix_left_solve"}

TriangularCalls ==
    {[AnyCall EXCEPT !.op = o, !.n = n, !.m = m, !.tri = t, !.unit = u, !.seed = s] :
        o \in TriangularOps,
        n \in Sizes, m \in {0, 2}, t \in {"upper", "lower"}, u \in BOOLEAN, s \in Seeds}

SymmetricOps ==
    {"symmetric_matrix_vector_product", "hermitian_matrix_vector_product",
     "symmetric_matrix_product", "hermitian_matrix_product"}

SymmetricCalls ==
    {[AnyCall EXCEPT !.op = o, !.n = n, !.m = 2, !.tri = t, !.base = b, !.seed = s] :
        o \in SymmetricOps,
        n \in Sizes, t \in {"upper", "lower"}, b \in {"overwrite", "update", "alias"}, s \in Seeds}

GeneralOps ==
    {"matrix_rank_1_update", "matrix_rank_1_update_c", "matrix_product"}

GeneralUpdates ==
    {[AnyCall EXCEPT !.op = o, !.n = n, !.m = m, !.lay = l, !.base = b, !.seed = s] :
        o \in GeneralOps,
        n \in Sizes, m \in {0, 2}, l \in {"left", "right"}, b \in {"overwrite", "update", "alias"},
        s \in Seeds}

Bases(o) ==
    {"overwrite", "update", "alias"} \union
    (CASE o \in {"symmetric_matrix_rank_2_update", "symmetric_matrix_rank_2k_update"} -> {"scaled"}
       [] o \in {"hermitian_matrix_rank_1_update", "hermitian_matrix_rank_k_update"}  -> {"plain"}
       [] OTHER -> {})

TriangleOps ==
    {"symmetric_matrix_rank_1_update", "symmetric_matrix_rank_2_update",
     "hermitian_matrix_rank_1_update", "hermitian_matrix_rank_2_update",
     "symmetric_matrix_rank_k_update", "symmetric_matrix_rank_2k_update",
     "hermitian_matrix_rank_k_update"}

TriangleUpdates ==
    UNION {{[AnyCall EXCEPT !.op = o, !.n = n, !.m = 2, !.tri = t, !.lay = l, !.base = b, !.seed = s] :
              n \in Sizes, t \in {"upper", "lower"}, l \in {"left", "right", "row", "column"},
              b \in Bases(o), s \in Seeds} :
           o \in TriangleOps}

(* All the values of the type, and of a matrix the ones at its limits. *)
Values(signed) == IF signed THEN (0 - 2^(W - 1))..(2^(W - 1) - 1) ELSE 0..(2^W - 1)
Extremes(signed) == IF signed THEN {0 - 2^(W - 1), -1, 2^(W - 1) - 1} ELSE {0, 1, 2^W - 1}

Seqs(S, n) == IF n = 0 THEN {<<>>} ELSE [1..n -> S]

VectorReductionOps ==
    {"vector_abs_sum", "vector_two_norm", "vector_sum_of_squares", "vector_idx_abs_max"}

VectorReductions ==
    UNION {{c \in {[AnyCall EXCEPT !.op = o, !.xs = xs, !.m = 2, !.signed = sg, !.init = v] :
                     xs \in UNION {Seqs(Values(sg), n) : n \in 0..2}, v \in Values(sg),
                     o \in VectorReductionOps} :
              c.op = "vector_sum_of_squares" => c.init >= 0} : sg \in BOOLEAN}

MatrixReductionOps ==
    {"matrix_frob_norm", "matrix_one_norm", "matrix_inf_norm"}

MatrixReductions ==
    UNION {{[AnyCall EXCEPT !.op = o, !.n = d[1], !.m = d[2], !.xs = xs, !.signed = sg, !.init = v] :
              xs \in Seqs(Extremes(sg), d[1] * d[2]), v \in Extremes(sg),
              o \in MatrixReductionOps} :
           sg \in BOOLEAN, d \in {<<2, 2>>, <<1, 2>>, <<0, 2>>, <<2, 0>>}}

StorageCalls ==
    {[AnyCall EXCEPT !.op = "checked_matrix_storage_size", !.n = n, !.m = m] :
        n \in 0..uintmax, m \in 0..uintmax}

StaticCalls == {[AnyCall EXCEPT !.op = "static_extents", !.xs = xs] : xs \in [1..6 -> {Dyn, 1, 2}]}

Calls ==
    VectorCalls \union TriangularCalls \union SymmetricCalls \union GeneralUpdates \union
    TriangleUpdates \union VectorReductions \union MatrixReductions \union StorageCalls \union
    StaticCalls

(* The predicates that hold of the operands' static extents. *)
Accepted(c) ==
    LET a == SubSeq(c.xs, 1, 2)
        b == SubSeq(c.xs, 3, 4)
        d == SubSeq(c.xs, 5, 6)
    IN  {q \in {"vectors", "product", "left", "right", "square_product", "rank_k", "rank_2k"} :
           CASE q = "vectors"        -> square_matrix_vectors_static_extents(a, b[1], d[1])
             [] q = "product"        -> matrix_product_static_extents(a, b, d)
             [] q = "left"           -> square_matrix_left_operand_static_extents(a, b)
             [] q = "right"          -> square_matrix_right_operand_static_extents(a, b)
             [] q = "square_product" -> square_matrix_product_static_extents(a, b, d)
             [] q = "rank_k"         -> matrix_rank_k_static_extents(a, d)
             [] q = "rank_2k"        -> matrix_rank_2k_static_extents(a, b, d)}

Init ==
    /\ call \in Calls
    /\ out = <<>>
    /\ done = FALSE

Return(op, value) ==
    /\ ~done
    /\ call.op = op
    /\ out' = value
    /\ done' = TRUE
    /\ UNCHANGED call

Next ==
    \/ Return("copy", copy(call))
    \/ Return("scale", scale(call))
    \/ Return("swap_elements", swap_elements(call))
    \/ Return("add", add(call))
    \/ Return("dot", dot(call))
    \/ Return("dotc", dotc(call))
    \/ Return("apply_givens_rotation", apply_givens_rotation(call))
    \/ Return("matrix_vector_product", matrix_vector_product(call))
    \/ Return("triangular_matrix_vector_product_in_place", triangular_matrix_vector_product_in_place(call))
    \/ Return("triangular_matrix_vector_product", triangular_matrix_vector_product(call))
    \/ Return("triangular_matrix_vector_solve", triangular_matrix_vector_solve(call))
    \/ Return("symmetric_matrix_vector_product", symmetric_matrix_vector_product(call))
    \/ Return("hermitian_matrix_vector_product", hermitian_matrix_vector_product(call))
    \/ Return("matrix_rank_1_update", matrix_rank_1_update(call))
    \/ Return("matrix_rank_1_update_c", matrix_rank_1_update_c(call))
    \/ Return("symmetric_matrix_rank_1_update", symmetric_matrix_rank_1_update(call))
    \/ Return("symmetric_matrix_rank_2_update", symmetric_matrix_rank_2_update(call))
    \/ Return("hermitian_matrix_rank_1_update", hermitian_matrix_rank_1_update(call))
    \/ Return("hermitian_matrix_rank_2_update", hermitian_matrix_rank_2_update(call))
    \/ Return("matrix_product", matrix_product(call))
    \/ Return("triangular_matrix_left_product", triangular_matrix_left_product(call))
    \/ Return("triangular_matrix_right_product", triangular_matrix_right_product(call))
    \/ Return("triangular_matrix_matrix_left_solve", triangular_matrix_matrix_left_solve(call))
    \/ Return("symmetric_matrix_product", symmetric_matrix_product(call))
    \/ Return("hermitian_matrix_product", hermitian_matrix_product(call))
    \/ Return("symmetric_matrix_rank_k_update", symmetric_matrix_rank_k_update(call))
    \/ Return("symmetric_matrix_rank_2k_update", symmetric_matrix_rank_2k_update(call))
    \/ Return("hermitian_matrix_rank_k_update", hermitian_matrix_rank_k_update(call))
    \/ Return("vector_abs_sum", vector_abs_sum(call))
    \/ Return("vector_idx_abs_max", vector_idx_abs_max(call))
    \/ Return("vector_sum_of_squares", vector_sum_of_squares(call))
    \/ Return("vector_two_norm", vector_two_norm(call))
    \/ Return("matrix_frob_norm", matrix_frob_norm(call))
    \/ Return("matrix_one_norm", matrix_one_norm(call))
    \/ Return("matrix_inf_norm", matrix_inf_norm(call))
    \/ Return("checked_matrix_storage_size", checked_matrix_storage_size(call))
    \/ Return("static_extents", Accepted(call))

Spec == Init /\ [][Next]_vars

----------------------------------------------------------------------------
(* What the algorithms promise, without their loops. *)

In(c, p) ==
    CASE c.tri = "upper" -> p[1] <= p[2]
      [] c.tri = "lower" -> p[1] >= p[2]
      [] OTHER           -> TRUE

Swap(p) == <<p[2], p[1]>>
Turned(M) == [p \in {Swap(q) : q \in DOMAIN M} |-> M[Swap(p)]]
AddM(P, Q) == [p \in DOMAIN P |-> Plus(P[p], Q[p])]
ScaleM(k, P) == [p \in DOMAIN P |-> Times(k, P[p])]

(* The matrix that A stands for, when only a triangle of it is given. *)
TriangularA(c) ==
    [p \in Square(c) |-> IF c.unit /\ p[1] = p[2] THEN One ELSE IF In(c, p) THEN A(c)[p] ELSE Zero]
SymmetricA(c) == [p \in Square(c) |-> IF In(c, p) THEN A(c)[p] ELSE A(c)[Swap(p)]]
HermitianA(c) ==
    [p \in Square(c) |-> IF p[1] = p[2] THEN real_if_needed(A(c)[p])
                         ELSE IF In(c, p) THEN A(c)[p] ELSE conj_if_needed(A(c)[Swap(p)])]

(* The memory after an update by M: the triangle, and nothing else. *)
Updated(c, M, hermitian) ==
    [o \in DOMAIN Memory(c) |->
        LET at == {p \in Square(c) : In(c, p) /\ L!At(Mapping(c), p) = o}
        IN  IF at = {} THEN Memory(c)[o]
            ELSE LET p == CHOOSE q \in at : TRUE
                     v == Plus(Start(c, Memory(c), p), M[p])
                 IN  IF hermitian /\ p[1] = p[2] THEN real_if_needed(v) ELSE v]

AddV(c, v) ==
    [i \in Upto(c.n) |-> IF c.base = "overwrite" THEN v[i] ELSE Plus(Y(c)[i], v[i])]

Outer(x, y, n) == [p \in Upto(n) \X Upto(n) |-> Times(x[p[1]], y[p[2]])]
ConjV(x) == [i \in DOMAIN x |-> conj_if_needed(x[i])]
Dots(x, y, n) == SumC([i \in Upto(n) |-> Times(x[i], y[i])])

SumI(s) == FoldLeft(LAMBDA a, b : a + b, 0, s)
Mag(v) == IF v < 0 THEN 0 - v ELSE v
Mags(s) == [i \in DOMAIN s |-> Mag(s[i])]
Squares(s) == [i \in DOMAIN s |-> s[i] * s[i]]
Clamp(c, v) == IF v > MaxOf(c) THEN MaxOf(c) ELSE v
Top(S) == CHOOSE m \in S : \A s \in S : m >= s

ExpectedVector(c) ==
    CASE c.op = "copy"          -> X(c)
      [] c.op = "scale"         -> [i \in Upto(c.n) |-> Times(Alpha(c), X(c)[i])]
      [] c.op = "swap_elements" -> <<Y(c), X(c)>>
      [] c.op = "add"           -> [i \in Upto(c.n) |-> Plus(X(c)[i], Y(c)[i])]
      [] c.op = "dot"           -> Plus(Alpha(c), Dots(X(c), Y(c), c.n))
      [] c.op = "dotc"          -> Plus(Alpha(c), Dots(ConjV(X(c)), Y(c), c.n))
      [] c.op = "apply_givens_rotation" ->
            LET cs == real_if_needed(Alpha(c))
                sn == Sample(c, 1, 1, 1)
                ms == Minus(Zero, conj_if_needed(sn))
            IN  <<[i \in Upto(c.n) |-> Plus(Times(cs, X(c)[i]), Times(sn, Y(c)[i]))],
                  [i \in Upto(c.n) |-> Plus(Times(ms, X(c)[i]), Times(cs, Y(c)[i]))]>>
      [] c.op = "matrix_vector_product" -> AddV(c, MatVec(A(c), X(c), c.n, c.n))

ExpectedTriangular(c) ==
    CASE c.op \in {"triangular_matrix_vector_product_in_place", "triangular_matrix_vector_product"} ->
            MatVec(TriangularA(c), X(c), c.n, c.n)
      [] c.op = "triangular_matrix_vector_solve"      -> X(c)
      [] c.op = "triangular_matrix_left_product"      -> MatMul(TriangularA(c), G(c, 1), c.n, c.n, c.m)
      [] c.op = "triangular_matrix_right_product"     ->
            MatMul(Mat(c, 1, c.m, c.n), TriangularA(c), c.m, c.n, c.n)
      [] c.op = "triangular_matrix_matrix_left_solve" -> G(c, 1)

ExpectedSymmetric(c) ==
    CASE c.op = "symmetric_matrix_vector_product" -> AddV(c, MatVec(SymmetricA(c), X(c), c.n, c.n))
      [] c.op = "hermitian_matrix_vector_product" -> AddV(c, MatVec(HermitianA(c), X(c), c.n, c.n))
      [] c.op = "symmetric_matrix_product"        -> MatMul(SymmetricA(c), G(c, 1), c.n, c.n, c.m)
      [] c.op = "hermitian_matrix_product"        -> MatMul(HermitianA(c), G(c, 1), c.n, c.n, c.m)

ExpectedUpdate(c) ==
    LET x == X(c)
        y == Y(c)
        P == G(c, 0)
        Q == G(c, 1)
        Gram(M, N) == MatMul(M, Turned(N), c.n, c.m, c.n)
        re == real_if_needed(Alpha(c))
    IN  CASE c.op = "matrix_product"         ->
                Updated(c, MatMul(P, Mat(c, 1, c.m, c.n), c.n, c.m, c.n), FALSE)
          [] c.op = "matrix_rank_1_update"   -> Updated(c, Outer(x, y, c.n), FALSE)
          [] c.op = "matrix_rank_1_update_c" -> Updated(c, Outer(x, ConjV(y), c.n), FALSE)
          [] c.op = "symmetric_matrix_rank_1_update" ->
                Updated(c, ScaleM(Alpha(c), Outer(x, x, c.n)), FALSE)
          [] c.op = "symmetric_matrix_rank_2_update" ->
                Updated(c, ScaleM(Factor(c), AddM(Outer(x, y, c.n), Outer(y, x, c.n))), FALSE)
          [] c.op = "hermitian_matrix_rank_1_update" ->
                Updated(c, ScaleM(re, Outer(x, ConjV(x), c.n)), TRUE)
          [] c.op = "hermitian_matrix_rank_2_update" ->
                Updated(c, AddM(Outer(x, ConjV(y), c.n), Outer(y, ConjV(x), c.n)), TRUE)
          [] c.op = "symmetric_matrix_rank_k_update"  -> Updated(c, ScaleM(Alpha(c), Gram(P, P)), FALSE)
          [] c.op = "symmetric_matrix_rank_2k_update" ->
                Updated(c, ScaleM(Factor(c), AddM(Gram(P, Q), Gram(Q, P))), FALSE)
          [] c.op = "hermitian_matrix_rank_k_update"  -> Updated(c, ScaleM(re, Gram(P, ConjOf(P))), TRUE)

ExpectedReduction(c) ==
    LET sums == SumI(Mags(c.xs))
        squares == c.init * c.init + SumI(Squares(c.xs))
        cols == {SumI(Mags(ColumnOf(c, j))) : j \in 1..c.m}
        rows == {SumI(Mags(RowOf(c, i))) : i \in 1..c.n}
    IN  CASE c.op = "vector_abs_sum"        -> Clamp(c, c.init + sums)
          [] c.op = "vector_sum_of_squares" -> Clamp(c, c.m * c.m * c.init + SumI(Squares(c.xs)))
          [] c.op = "vector_idx_abs_max"    ->
                IF c.xs = <<>> THEN uintmax
                ELSE CHOOSE i \in Upto(Len(c.xs)) :
                       \A j \in Upto(Len(c.xs)) :
                          \/ Mag(c.xs[j + 1]) < Mag(c.xs[i + 1])
                          \/ Mag(c.xs[j + 1]) = Mag(c.xs[i + 1]) /\ j >= i
          [] c.op \in {"vector_two_norm", "matrix_frob_norm"} ->
                IF squares > Budget THEN Dyn ELSE Clamp(c, Root(squares))
          [] c.op = "matrix_one_norm" -> IF c.m = 0 THEN c.init ELSE Clamp(c, c.init + Top(cols))
          [] c.op = "matrix_inf_norm" -> IF c.n = 0 THEN c.init ELSE Clamp(c, c.init + Top(rows))
          [] c.op = "checked_matrix_storage_size" -> IF c.n * c.m > uintmax THEN Dyn ELSE c.n * c.m

(* The predicates that some sizes at run time satisfy. *)
Satisfiable(c) ==
    LET sizes == {s \in [1..6 -> {1, 2}] : \A k \in 1..6 : c.xs[k] \in {Dyn, s[k]}}
    IN  {q \in {"vectors", "product", "left", "right", "square_product", "rank_k", "rank_2k"} :
           \E s \in sizes :
              CASE q = "vectors"        -> Cardinality({s[1], s[2], s[3], s[5]}) = 1
                [] q = "product"        -> s[2] = s[3] /\ s[1] = s[5] /\ s[4] = s[6]
                [] q = "left"           -> s[1] = s[2] /\ s[2] = s[3]
                [] q = "right"          -> s[1] = s[2] /\ s[2] = s[4]
                [] q = "square_product" -> Cardinality({s[1], s[2], s[3], s[5]}) = 1 /\ s[4] = s[6]
                [] q = "rank_k"         -> Cardinality({s[1], s[5], s[6]}) = 1
                [] q = "rank_2k"        -> Cardinality({s[1], s[3], s[5], s[6]}) = 1 /\ s[2] = s[4]}

(* Every algorithm leaves what its mathematical definition says, with the  *)
(* triangle it is given standing for the matrix: the other triangle, and a *)
(* diagonal that is implicitly one, are neither read nor written, also     *)
(* where the result overwrites an operand or lies in a packed triangle.    *)
ProductsExact ==
    done =>
      /\ call.op \in VectorOps => out = ExpectedVector(call)
      /\ call.op \in TriangularOps => out = ExpectedTriangular(call)
      /\ call.op \in SymmetricOps => out = ExpectedSymmetric(call)
      /\ call.op \in GeneralOps \union TriangleOps => out = ExpectedUpdate(call)

(* An integral reduction returns the exact value or, where that is beyond  *)
(* its type, the largest one, although every intermediate sum is itself    *)
(* bounded; the norm's square sum is given up exactly when it exceeds the  *)
(* budget; the types are accepted exactly when some sizes fit them.        *)
ReductionsExact ==
    done =>
      /\ call.op \in VectorReductionOps \union MatrixReductionOps \union {"checked_matrix_storage_size"}
         => out = ExpectedReduction(call)
      /\ call.op = "static_extents" => out = Satisfiable(call)

=============================================================================
