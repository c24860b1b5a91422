------------------------------- MODULE Jitter -------------------------------
(***************************************************************************)
(* The measurement of src/osjitter.c (worker_main): a loop that reads the  *)
(* TSC over and over, takes the gap between two reads for an interruption  *)
(* when it is above a threshold, and stops at the first read that is not   *)
(* below start + tsc_runtime.  The smallest gap is the time of the loop    *)
(* itself and is subtracted from every interruption in the end.  The       *)
(* control thread then prints the results in nanoseconds (pp_results).     *)
(*                                                                         *)
(* The deltas have 32 bits and the sums have 64, here W32 and W64 values.  *)
(* A TSC value itself does not wrap.                                       *)
(***************************************************************************)
EXTENDS Stats, FiniteSetsExt

CONSTANTS Gaps,         \* how far apart two reads of the TSC may be
          Runtimes,     \* values of -t
          thresh_ns,    \* -d
          tsc_khz,      \* the frequency of the TSC
          MsPerS,       \* 1000
          SamplesPerS   \* 105000, the interruptions expected in a second

ASSUME JitterAssumption ==
    /\ Gaps \subseteq Nat \ {0}
    /\ Runtimes \subseteq Nat \ {0}
    /\ thresh_ns \in Nat \ {0}
    /\ tsc_khz \in 1..UINT32_MAX
    /\ MsPerS \in Nat \ {0}
    /\ SamplesPerS \in Nat
    /\ (tsc_khz * thresh_ns) \div NsPerMs <= UINT32_MAX

VARIABLES phase,          \* where the measurement is
          runtime_s,      \* args.runtime_s
          start,          \* the first read of the TSC
          tsc,            \* the last one
          i,              \* the interruptions counted
          ds,             \* the ones recorded
          tsc_total_int,  \* their sum, not only of the recorded ones
          tsc_overflow,   \* when the array was full, or 0
          tsc_delta_min,  \* the smallest gap
          w,              \* the results, once they are handed over
          report,         \* the line that is printed
          reads           \* history: what the TSC showed, read by read

locals     == <<i, ds, tsc_total_int, tsc_overflow, tsc_delta_min>>
jitterVars == <<phase, runtime_s, start, tsc, locals, w, report, reads>>

\* parse_args and set_params.  The number of samples has 32 bits; the others
\* are computed with doubles, whose rounding is left out.
n           == U32(runtime_s * SamplesPerS)
tsc_thresh  == U32((tsc_khz * thresh_ns) \div NsPerMs)
tsc_runtime == tsc_khz * MsPerS * runtime_s
scale       == clocks_calc_mult_shift(tsc_khz, NsPerMs, 0)
ns(ticks)   == mul_u64_u32_shr(ticks, scale)

LowerOf(a, b) == IF a < b THEN a ELSE b
limit == start + tsc_runtime

JitterInit ==
    /\ phase = "begin"
    /\ runtime_s \in Runtimes
    /\ start = 0
    /\ tsc = 0
    /\ i = 0
    /\ ds = <<>>
    /\ tsc_total_int = 0
    /\ tsc_overflow = 0
    /\ tsc_delta_min = UINT64_MAX
    /\ w = <<>>
    /\ report = <<>>
    /\ reads = <<>>

\* start_work is set: the first read.  The TSC is long past 0 by then.
Begin ==
    /\ phase = "begin"
    /\ start' = 1
    /\ tsc' = start'
    /\ reads' = <<start'>>
    /\ phase' = "first"
    /\ UNCHANGED <<runtime_s, locals, w, report>>

\* An interruption is summed up, recorded if the array has room for it, and
\* leaves its time if it is the first one without.
CountIf(above, room, first, delta, t) ==
    IF above
    THEN /\ tsc_total_int' = U64(tsc_total_int + delta)
         /\ ds' = IF room THEN Append(ds, LowerOf(delta, UINT32_MAX)) ELSE ds
         /\ tsc_overflow' = IF ~room /\ first THEN t ELSE tsc_overflow
         /\ i' = i + 1
    ELSE UNCHANGED <<tsc_total_int, ds, tsc_overflow, i>>

\* Mutant: the overflow is taken again at every interruption.
CountNoFirst(delta, t) == CountIf(delta > tsc_thresh, i < n, TRUE, delta, t)

\* Mutant: the array is filled one entry too far.
CountBeyond(delta, t) ==
    CountIf(delta > tsc_thresh, i <= n, tsc_overflow = 0, delta, t)

\* Mutant: a gap at the threshold counts as an interruption.
CountAtThreshold(delta, t) ==
    CountIf(delta >= tsc_thresh, i < n, tsc_overflow = 0, delta, t)

\* if (delta > tsc_thresh) {...}, with a delta read at t
Count(delta, t) ==
    CountIf(delta > tsc_thresh, i < n, tsc_overflow = 0, delta, t)

\* One more read of the TSC.
Read(gap, delta) ==
    /\ tsc' = tsc + gap
    /\ reads' = Append(reads, tsc + gap)
    /\ Count(delta, tsc + gap)

\* Mutant: the gap of the unrolled iteration counts for the smallest one.
FirstKept ==
    /\ phase = "first"
    /\ phase' = "loop"
    /\ tsc < limit
    /\ \E gap \in Gaps : Read(gap, gap) /\ tsc_delta_min' = gap
    /\ UNCHANGED <<runtime_s, start, w, report>>

\* The unrolled iteration.  Its delta has 64 bits, and the tsc_delta_min it
\* computes is thrown away.
First ==
    /\ phase = "first"
    /\ phase' = "loop"
    /\ IF tsc < limit
       THEN \E gap \in Gaps : Read(gap, gap)
       ELSE UNCHANGED <<tsc, reads, i, ds, tsc_total_int, tsc_overflow>>
    /\ tsc_delta_min' = UINT64_MAX
    /\ UNCHANGED <<runtime_s, start, w, report>>

\* The loop.  Its delta has 32 bits.
Iterate ==
    /\ phase = "loop"
    /\ tsc < limit
    /\ \E gap \in Gaps : /\ Read(gap, U32(gap))
                         /\ tsc_delta_min' = LowerOf(tsc_delta_min, U32(gap))
    /\ UNCHANGED <<phase, runtime_s, start, w, report>>

\* The correction of a delta is computed in 64 bits and stored in 32.
Corrected == [k \in 1..LowerOf(i, n) |-> U32(U64(ds[k] - tsc_delta_min))]

\* quit_thread is set: the results are corrected and handed over through *w.
HandOver(deltas) ==
    /\ phase = "loop"
    /\ tsc >= limit
    /\ phase' = "done"
    /\ w' = [deltas |-> deltas,
             samples |-> LowerOf(i, n),
             thresh_cnt |-> i,
             tsc_start |-> start,
             tsc_overflow |-> tsc_overflow,
             tsc_total_int |-> U64(tsc_total_int - tsc_delta_min * i),
             tsc_delta_min |-> tsc_delta_min]
    /\ UNCHANGED <<runtime_s, start, tsc, locals, report, reads>>

\* Mutant: the deltas are not sorted.
FinalizeUnsorted == HandOver(Corrected)

Finalize == HandOver(Sorted(Corrected))

\* The columns of one CPU.
Line ==
    LET percentiles == Percentiles(w.deltas)
    IN  [ovfl_ns |-> IF w.tsc_overflow = 0 THEN 0
                     ELSE ns(U64(w.tsc_overflow - w.tsc_start)),
         sum_intr_ns |-> ns(w.tsc_total_int),
         loop_ns |-> ns(w.tsc_delta_min),
         p_ns |-> [c \in DOMAIN percentiles |-> ns(percentiles[c])],
         max_ns |-> IF w.samples = 0 THEN 0 ELSE ns(w.deltas[w.samples]),
         mad_ns |-> ns(mad_u32(w.deltas))]

\* What percentile_u32 asserts for each column and for the deviations.
LineAsserted ==
    /\ \A c \in DOMAIN Columns :
          Asserted(w.deltas, Columns[c][1], Columns[c][2])
    /\ Asserted(Deviations(w.deltas), 1, 2)

\* pp_results for one CPU, which aborts when an assertion fails.
Report ==
    /\ phase = "done"
    /\ phase' = IF LineAsserted THEN "reported" ELSE "aborted"
    /\ report' = IF LineAsserted THEN Line ELSE report
    /\ UNCHANGED <<runtime_s, start, tsc, locals, w, reads>>

\* realloc in pp_results fails.
ReportFails ==
    /\ phase = "done"
    /\ phase' = "failed"
    /\ UNCHANGED <<runtime_s, start, tsc, locals, w, report, reads>>

JitterNext == Begin \/ First \/ Iterate \/ Finalize \/ Report \/ ReportFails

JitterSpec == JitterInit /\ [][JitterNext]_jitterVars
-----------------------------------------------------------------------------
JitterTypeOK ==
    /\ phase \in {"begin", "first", "loop", "done", "reported", "failed", "aborted"}
    /\ runtime_s \in Runtimes
    /\ start \in Nat
    /\ tsc \in Nat
    /\ i \in Nat
    /\ ds \in Seq(0..UINT32_MAX)
    /\ Len(ds) = LowerOf(i, n)
    /\ tsc_total_int \in 0..UINT64_MAX
    /\ tsc_overflow \in Nat
    /\ tsc_delta_min \in 0..UINT64_MAX
    /\ reads \in Seq(Nat)
    /\ w # <<>> => /\ w.deltas \in Seq(0..UINT32_MAX)
                   /\ w.tsc_total_int \in 0..UINT64_MAX
    /\ phase = "reported" <=> report # <<>>

(***************************************************************************)
(* What the results should say of the gaps                                 *)
(***************************************************************************)
Done == w # <<>>
Total(s) == LET sum[k \in 0..Len(s)] == IF k = 0 THEN 0 ELSE sum[k - 1] + s[k]
            IN  sum[Len(s)]
Minimum(s) == Min({s[k] : k \in DOMAIN s} \cup {UINT64_MAX})

\* The gaps between the reads; the k-th one ends with the read k + 1.
gaps == IF reads = <<>> THEN <<>>
        ELSE [k \in 1..(Len(reads) - 1) |-> reads[k + 1] - reads[k]]

\* How many interruptions the first m gaps have, the position of the k-th one,
\* the interruptions, and the gaps of the loop after the unrolled iteration.
UpTo(m)       == Cardinality({k \in 1..m : gaps[k] > tsc_thresh})
PlacesOf(k)   == {m \in DOMAIN gaps : gaps[m] > tsc_thresh /\ UpTo(m) = k}
Place(k)      == CHOOSE m \in PlacesOf(k) : TRUE
Interruptions == [k \in 1..UpTo(Len(gaps)) |-> gaps[Place(k)]]
LoopGaps      == IF gaps = <<>> THEN <<>> ELSE Tail(gaps)

\* The k-th interruption ends at time t.
EndsAt(k, t) == \E m \in PlacesOf(k) : t = reads[m + 1]

\* "#delta: number of recorded interruptions (might overflow)", "ovfl_ns: time
\* after which interrupt recording overflowed" (src/osjitter.c:83-84): the
\* overflow is told exactly when an interruption was not recorded, and it is
\* the time of the first one.
OverflowIsTold ==
    Done => /\ w.samples = Len(w.deltas)
            /\ IF UpTo(Len(gaps)) > n
               THEN w.samples = n /\ EndsAt(n + 1, w.tsc_overflow)
               ELSE w.samples = UpTo(Len(gaps)) /\ w.tsc_overflow = 0

\* "#intr: number of interruptions (above the threshold, cf. -d)"
\* (src/osjitter.c:82)
EveryInterruptionCounts == Done => w.thresh_cnt = UpTo(Len(gaps))

\* "Assuming that we have some loop iterations without any interruption"
\* (src/osjitter.c:485).
SomeQuietIteration == \E k \in DOMAIN LoopGaps : LoopGaps[k] <= tsc_thresh

\* Under that assumption the correction does not wrap (src/osjitter.c:481-487):
\* the sum and the recorded deltas are the interruptions, each one less the
\* smallest gap.
CorrectionIsExact ==
    Done /\ SomeQuietIteration =>
        LET corrected == [k \in DOMAIN Interruptions |->
                             Interruptions[k] - Minimum(LoopGaps)]
        IN  /\ w.tsc_total_int = Total(corrected)
            /\ w.deltas = Sorted(SubSeq(corrected, 1, w.samples))

\* assert(is_sorted(x, n)), assert(i < n) (src/util.c:47, 52): the deltas that
\* are handed over are sorted, as are their deviations, and no column is beyond
\* the last of them, also when the correction has wrapped.
NoAssertionFails == phase # "aborted"

\* How many of the recorded deltas have the property.
CountOf(P(_)) == Cardinality({k \in DOMAIN w.deltas : P(ns(w.deltas[k]))})

\* "median_ns   - Median of all recorded interruptions", "mad_ns      - median
\* absolute deviation of all recorded interruptions" (src/osjitter.c:93-96):
\* half of the interruptions are not above the median, half not below it, and
\* half within the deviation (and the rounding) around it, unless the
\* correction has wrapped them.
MedianIsCentral ==
    report # <<>> /\ SomeQuietIteration =>
        LET median == report.p_ns[2]
            Half(P(_)) == 2 * CountOf(P) >= w.samples
        IN  /\ Half(LAMBDA d : d <= median)
            /\ Half(LAMBDA d : d >= median)
            /\ Half(LAMBDA d : AbsDiff(d, median) <= report.mad_ns + 1)

\* "pX_ns       - X/100 percentile", "max_ns      - the longest interruption"
\* (src/osjitter.c:94-95): the columns ascend, between the shortest and the
\* longest recorded interruption, and each has its share of them below.
PercentilesAreOrdered ==
    report # <<>> /\ SomeQuietIteration =>
        LET p == report.p_ns
        IN  /\ \A c \in 2..Len(p) : p[c - 1] <= p[c]
            /\ p[Len(p)] <= report.max_ns
            /\ \A k \in DOMAIN w.deltas : ns(w.deltas[k]) <= report.max_ns
            /\ \A c \in DOMAIN p :
                  CountOf(LAMBDA d : d <= p[c])
                    >= (w.samples * Columns[c][1]) \div Columns[c][2]
-----------------------------------------------------------------------------
(***************************************************************************)
(* Why the interruptions are counted and the overflow is told              *)
(***************************************************************************)

\* What has been read, and what was handed over (src/osjitter.c:433-493).
ReadsInOrder ==
    /\ phase = "begin" => reads = <<>> /\ i = 0 /\ ds = <<>> /\ tsc_overflow = 0
    /\ phase # "begin" => /\ start = 1
                          /\ reads # <<>>
                          /\ reads[1] = start
                          /\ reads[Len(reads)] = tsc
    /\ phase = "first" => Len(reads) = 1
    /\ phase = "loop" => Len(reads) > 1
    /\ \A k \in DOMAIN reads : reads[k] > 0
    /\ \A k \in DOMAIN gaps : gaps[k] \in Gaps

HandedOver ==
    /\ Done <=> phase \in {"done", "reported", "failed", "aborted"}
    /\ Done => /\ w.thresh_cnt = i
               /\ w.samples = LowerOf(i, n)
               /\ w.tsc_overflow = tsc_overflow
               /\ Len(w.deltas) = w.samples

\* An interruption of the loop that needs more than 32 bits is cut to another
\* gap before it is compared (src/osjitter.c:457).
GapsFit == \A gap \in Gaps : gap <= UINT32_MAX

\* The counters follow the reads: every interruption is counted, and the first
\* one that found the array full has left its time.
Counted ==
    /\ i = UpTo(Len(gaps))
    /\ IF i > n THEN EndsAt(n + 1, tsc_overflow) ELSE tsc_overflow = 0

\* The inductive invariant behind OverflowIsTold and EveryInterruptionCounts.
CountInv ==
    JitterTypeOK /\ ReadsInOrder /\ HandedOver /\ (GapsFit => Counted)
-----------------------------------------------------------------------------
(***************************************************************************)
(* Why the results are exact                                               *)
(***************************************************************************)

\* The deltas recorded are the first interruptions, and tsc_delta_min is the
\* smallest gap of the loop, if it had an iteration (src/osjitter.c:459-468).
Recorded ==
    /\ \A k \in 1..UpTo(Len(gaps)) : PlacesOf(k) # {}
    /\ \A k \in DOMAIN ds : ds[k] = Interruptions[k]
    /\ tsc_delta_min \in {gaps[k] : k \in 2..Len(gaps)} \cup {UINT64_MAX}
    /\ \A k \in 2..Len(gaps) : tsc_delta_min <= gaps[k]

\* The last read of the longest measurement still has 64 bits.
TscFits == \A s \in Runtimes : tsc_khz * MsPerS * s + UINT32_MAX <= UINT64_MAX

\* The sum has not wrapped: it is part of the time that has passed.
Summed ==
    /\ tsc_total_int = Total(Interruptions)
    /\ tsc_total_int <= tsc - start
    /\ tsc <= tsc_runtime + UINT32_MAX

\* The results are corrected and sorted, and the report is made from them.
Corrections ==
    /\ Done => /\ w.deltas = Sorted(Corrected)
               /\ w.tsc_total_int = U64(tsc_total_int - tsc_delta_min * i)
    /\ report # <<>> => Done /\ report = Line

\* The inductive invariant behind CorrectionIsExact, MedianIsCentral and
\* PercentilesAreOrdered.
ResultInv ==
    CountInv /\ Corrections /\ (GapsFit => Recorded)
             /\ (GapsFit /\ TscFits => Summed)

\* The sum of two gaps has 32 bits: percentile_u32 adds two deltas in 32 bits
\* before it halves the sum (src/util.c).
HalfGapsFit == \A gap \in Gaps : 2 * gap <= UINT32_MAX
=============================================================================
