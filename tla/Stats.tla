-------------------------------- MODULE Stats --------------------------------
(***************************************************************************)
(* The order statistics of src/util.c that both programs report.  An array *)
(* of n deltas is a sequence of length n; x[i] of the code is x[i + 1].    *)
(***************************************************************************)
EXTENDS ClockScale, Sequences, FiniteSets

\* qsort with cmp_u32: each value goes to the position that its rank tells.
Before(x, j, k) == x[j] < x[k] \/ (x[j] = x[k] /\ j < k)
Rank(x, k) == Cardinality({j \in DOMAIN x : Before(x, j, k)}) + 1
Sorted(x) == [m \in DOMAIN x |-> x[CHOOSE k \in DOMAIN x : Rank(x, k) = m]]

\* assert(is_sorted(x, n)) and assert(i < n)
Asserted(x, a, b) ==
    /\ \A k \in DOMAIN x : k > 1 => x[k - 1] <= x[k]
    /\ x # <<>> => (Len(x) * a) \div b < Len(x)

\* Mutant: always the value below.
percentile_below(x, a, b) ==
    LET n == Len(x)
        i == (n * a) \div b
    IN  CASE n = 0 -> 0
          [] n > 0 /\ i = 0 -> x[1]
          [] OTHER -> x[i]

\* Mutant: the sum is not halved.
percentile_sum(x, a, b) ==
    LET n == Len(x)
        i == (n * a) \div b
    IN  CASE n = 0 -> 0
          [] n > 0 /\ (n % 2 = 1 \/ i = 0) -> x[i + 1]
          [] OTHER -> U32(x[i + 1] + x[i])

\* The value at the position a/b of a sorted array, or the mean of it and the
\* one below when n is even.  Their sum has 32 bits.
percentile_u32(x, a, b) ==
    LET n == Len(x)
        i == (n * a) \div b
    IN  CASE n = 0 -> 0
          [] n > 0 /\ (n % 2 = 1 \/ i = 0) -> x[i + 1]
          [] OTHER -> U32(x[i + 1] + x[i]) \div 2

\* The median of the absolute deviations from the median.
Deviations(x) ==
    LET median == percentile_u32(x, 1, 2)
    IN  Sorted([k \in DOMAIN x |-> AbsDiff(x[k], median)])
mad_u32(x) == percentile_u32(Deviations(x), 1, 2)

\* The reports print these positions: p20, median, p80, p90, p99 and p99.9.
Columns == <<<<1, 5>>, <<1, 2>>, <<4, 5>>, <<90, 100>>, <<99, 100>>, <<999, 1000>>>>
Percentiles(x) ==
    [c \in DOMAIN Columns |-> percentile_u32(x, Columns[c][1], Columns[c][2])]
=============================================================================
