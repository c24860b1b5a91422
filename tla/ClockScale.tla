----------------------------- MODULE ClockScale -----------------------------
(***************************************************************************)
(* The conversion of TSC ticks to nanoseconds (src/util.c, src/util.h):    *)
(* a multiplication and a shift that stand for a division by the frequency *)
(* of the TSC.  Every caller asks for maxsec = 0, the best accuracy.       *)
(***************************************************************************)
EXTENDS Integers, FiniteSetsExt

CONSTANTS Bits,     \* the width of uint32_t
          NsPerMs   \* 10^6, the nanoseconds in the period of 1 kHz

ASSUME ClockScaleAssumption ==
    /\ Bits \in Nat \ {0}
    /\ NsPerMs \in 1..(2^Bits - 1)

W32 == 2^Bits
W64 == W32 * W32

U32(x) == x % W32
U64(x) == x % W64
UINT32_MAX == W32 - 1
UINT64_MAX == W64 - 1

AbsDiff(a, b) == IF a < b THEN b - a ELSE a - b

\* to/from as a fixed point number, rounded to the nearest.
Ratio(from, to, sft) == U64(U64(to * 2^sft) + from \div 2) \div from

\* tmp is shifted to the right until it is 0.
Halvings(tmp) == IF tmp = 0 THEN 0
                 ELSE 1 + Max({k \in 0..(Bits - 1) : tmp \div 2^k > 0})

\* Mutant: the shift is counted down once more than its factor.
calc_late(from, to, maxsec) ==
    LET fits == {sft \in 1..Bits : Ratio(from, to, sft) < W32}
    IN  [mult  |-> Ratio(from, to, Max(fits)),
         shift |-> Max(fits) - 1]

\* The largest shift whose factor fits.  When none does, the loop ends with
\* shift 0 and the factor of shift 1.
clocks_calc_mult_shift(from, to, maxsec) ==
    LET sftacc == Bits - Halvings(U32((maxsec * from) \div W32))
        fits   == {sft \in 1..Bits : Ratio(from, to, sft) \div 2^sftacc = 0}
    IN  [mult  |-> U32(Ratio(from, to, Max(fits \cup {1}))),
         shift |-> Max(fits \cup {0})]

\* The product has 128 bits, the result 64.
mul_u64_u32_shr(cyc, scale) == U64((cyc * scale.mult) \div 2^scale.shift)
=============================================================================
