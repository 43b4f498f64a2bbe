----------------------------- MODULE Retrieval -----------------------------
(* The semantic index of the reflex plane: assets sorted by id, scored by     *)
(* cosine similarity against a query, the best TopK offered with ranks.       *)
(* The code computes in f64. Here a float has a mantissa of Bits bits and is  *)
(* rounded to nearest, ties to even, after each square root, product and      *)
(* quotient, as f64 is; products and sums of the small integer coordinates    *)
(* are exact in both.                                                         *)
EXTENDS Integers, Sequences, FiniteSets, SequencesExt

CONSTANTS
    Bits,           \* bits of a mantissa
    Unit            \* results are compared as multiples of 1 / Unit, a power of two

Half == 2 ^ (Bits - 1)

(* What new accepts of one vector: its dimension and a norm that is not 0.    *)
ValidVector(vector, dimension) ==
    /\ Len(vector) = dimension
    /\ \E i \in DOMAIN vector : vector[i] # 0

Dot(left, right) ==
    FoldLeft(+, 0, [i \in DOMAIN left |-> left[i] * right[i]])

-----------------------------------------------------------------------------
(* Floats: [m, e] stands for m * 2^e, with Half <= m < 2 * Half.              *)
Normal(m, e) == IF m = 2 * Half THEN [m |-> Half, e |-> e + 1] ELSE [m |-> m, e |-> e]

(* A quotient of positive integers to nearest, ties to even.                  *)
Nearest(num, den) ==
    LET low == num \div den
        twice == 2 * (num % den)
    IN  IF twice > den \/ (twice = den /\ low % 2 = 1) THEN low + 1 ELSE low

(* The quotient n / d of positive integers, times 2^e, rounded: shifted to    *)
(* Bits bits (the first shift that fits), then to nearest.                    *)
Up(n, j) == IF j > 0 THEN n * 2 ^ j ELSE n
Shift(n, d) ==
    CHOOSE j \in -Bits .. 2 * Bits : Up(n, j) \div Up(d, -j) \in Half .. 2 * Half - 1
ShiftedBy(n, d, e, j) == Normal(Nearest(Up(n, j), Up(d, -j)), e - j)
Rounded(n, d, e) == ShiftedBy(n, d, e, Shift(n, d))

(* The square root of a positive integer, rounded (never halfway between).    *)
RootBelow(n) == CHOOSE r \in Half .. 2 * Half - 1 : r * r <= n /\ n < (r + 1) * (r + 1)
NearestRoot(n, low) == IF n > low * low + low THEN low + 1 ELSE low
RootBy(n, s) == Normal(NearestRoot(n * 4 ^ s, RootBelow(n * 4 ^ s)), -s)
Root(n) == RootBy(n, CHOOSE s \in 0 .. Bits : n * 4 ^ s \in Half ^ 2 .. 4 * Half ^ 2 - 1)

Norm(vector) == Root(Dot(vector, vector))

(* dot(query, embedding) / (norm(query) * norm(embedding)), times Unit.       *)
Product(a, b) == Rounded(a.m * b.m, 1, a.e + b.e)
Quotient(n, scale) == Rounded(n, scale.m, -scale.e)
InUnits(f) == f.m * (IF f.e < 0 THEN Unit \div 2 ^ (-f.e) ELSE Unit * 2 ^ f.e)
Cosine(dot, scale) ==
    IF dot = 0 THEN 0
    ELSE IF dot < 0 THEN -InUnits(Quotient(-dot, scale)) ELSE InUnits(Quotient(dot, scale))
Similarity(query, embedding) ==
    Cosine(Dot(query, embedding), Product(Norm(query), Norm(embedding)))

-----------------------------------------------------------------------------

(* new: sorted by id (a stable sort), then of equal ids only the first stays. *)
Indexed(assets) ==
    LET at(id) == CHOOSE i \in DOMAIN assets :
                      assets[i].id = id /\ \A j \in DOMAIN assets : assets[j].id = id => i <= j
    IN  {assets[at(id)] : id \in {assets[i].id : i \in DOMAIN assets}}

(* The order of the sort: similarity descending, then id ascending.           *)
Before(query, a, b) ==
    LET x == Similarity(query, a.embedding)
        y == Similarity(query, b.embedding)
    IN  x > y \/ (x = y /\ a.id < b.id)

(* search: the whole index scored and sorted, the first topK kept; the rank   *)
(* of a candidate is its position.                                            *)
Search(assets, query, topK) ==
    LET sorted == SetToSortSeq(Indexed(assets), LAMBDA a, b : Before(query, a, b))
        kept == SubSeq(sorted, 1, IF topK < Len(sorted) THEN topK ELSE Len(sorted))
    IN  [i \in DOMAIN kept |-> [id |-> kept[i].id, asset |-> kept[i].asset,
                                similarity |-> Similarity(query, kept[i].embedding)]]

(* RetrievalSnapshot::validate on what the pipeline copies from a result.     *)
SnapshotValid(candidates, maximum) ==
    /\ Len(candidates) <= maximum
    /\ \A i \in DOMAIN candidates : candidates[i].similarity \in -Unit .. Unit
    /\ \A i, j \in DOMAIN candidates : candidates[i].id = candidates[j].id => i = j
=============================================================================
