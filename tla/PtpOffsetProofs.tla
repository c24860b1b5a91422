--------------------------- MODULE PtpOffsetProofs ---------------------------
(***************************************************************************)
(* What src/ptp-clock-offset.c prints, for every TSC frequency, offset of  *)
(* the clocks and number of samples: the real offset lies within the delay *)
(* of its row, no method is left out, and the duration of the system call  *)
(* is that of the clock.  The conversion of ticks and the search for the   *)
(* frequency (src/util.c) keep to their ranges on the way.                 *)
(***************************************************************************)
EXTENDS PtpOffset, SequenceTheorems, FiniteSetTheorems, TLAPS

(***************************************************************************)
(* The conversion of ticks                                                 *)
(***************************************************************************)

\* 1 << k is positive: it is the number of subsets of k things.
LEMMA PowerOfTwo == ASSUME NEW k \in Nat PROVE 2^k \in Nat \ {0}
<1>1. IsFiniteSet(1..k) /\ Cardinality(1..k) = k
    BY FS_Interval
<1>2. /\ IsFiniteSet(SUBSET (1..k))
      /\ Cardinality(SUBSET (1..k)) = 2^k
    BY <1>1, FS_SUBSET
<1>3. Cardinality(SUBSET (1..k)) \in Nat \ {0}
    BY <1>2, FS_CardinalityType, FS_EmptySet
<1> QED
    BY <1>2, <1>3

\* A set of shifts has a largest one, by the least number principle.
LEMMA SetHasMax ==
    ASSUME NEW n \in Nat, NEW S \in SUBSET (0..n), S # {}
    PROVE  Max(S) \in S /\ \A y \in S : y <= Max(S)
<1> DEFINE T == {d \in Nat : n - d \in S}
<1>1. T \subseteq Nat /\ T # {}
  <2>1. PICK k \in S : TRUE
      OBVIOUS
  <2>2. n - k \in Nat /\ n - (n - k) = k
      BY <2>1
  <2> QED
      BY <2>1, <2>2
<1>2. \E t \in T : \A u \in T : ~(<<u, t>> \in OpToRel(<, Nat))
  <2> HIDE DEF T
  <2> QED
      BY <1>1, NatLessThanWellFounded, WFMin, Zenon
<1>3. PICK t \in T : \A u \in T : ~(u < t)
    BY <1>1, <1>2 DEF OpToRel
<1>4. ASSUME NEW y \in S PROVE n - t >= y
  <2>1. n - y \in Nat /\ n - (n - y) = y
      OBVIOUS
  <2>2. ~(n - y < t)
      BY <1>3, <2>1
  <2>3. t \in Nat /\ y \in Nat
      OBVIOUS
  <2> QED
      BY <2>2, <2>3
<1>5. n - t \in S
    OBVIOUS
<1> QED
    BY <1>4, <1>5 DEF Max

\* The words have room for more than 0.
LEMMA WordTypes ==
    /\ W32 \in Nat \ {0} /\ W64 \in Nat \ {0} /\ UINT32_MAX \in Nat
    /\ \A x \in Int : U32(x) \in 0..UINT32_MAX /\ U64(x) \in Nat
<1>1. W32 \in Nat \ {0}
    BY PowerOfTwo, ClockScaleAssumption DEF W32
<1>2. W64 \in Nat \ {0}
    BY <1>1 DEF W64
<1> QED
    BY <1>1, <1>2 DEF UINT32_MAX, U32, U64

\* The fixed point ratio is an integer, if the frequency is not 0.
LEMMA RatioType ==
    ASSUME NEW f \in Nat \ {0}, NEW to \in Nat, NEW sft \in Nat
    PROVE  Ratio(f, to, sft) \in Int
<1>1. to * 2^sft \in Int
    BY PowerOfTwo
<1>2. U64(to * 2^sft) + f \div 2 \in Int
    BY <1>1, WordTypes
<1> QED
    BY <1>2, WordTypes DEF Ratio

\* clocks_calc_mult_shift (src/util.c:79-107) returns a 32 bit factor and a
\* shift that is no longer than a word.
LEMMA ScaleType ==
    ASSUME NEW f \in Nat \ {0}, NEW maxsec
    PROVE  LET s == clocks_calc_mult_shift(f, NsPerMs, maxsec)
           IN  s.mult \in 0..UINT32_MAX /\ s.shift \in 0..Bits
<1> DEFINE sftacc == Bits - Halvings(U32((maxsec * f) \div W32))
           fits == {sft \in 1..Bits : Ratio(f, NsPerMs, sft) \div 2^sftacc = 0}
<1>1. Bits \in Nat \ {0} /\ NsPerMs \in Nat
    BY PowerOfTwo, ClockScaleAssumption
<1>2. Max(fits \cup {1}) \in 0..Bits /\ Max(fits \cup {0}) \in 0..Bits
  <2>1. fits \cup {1} \in SUBSET (0..Bits) /\ fits \cup {0} \in SUBSET (0..Bits)
      BY <1>1
  <2> HIDE DEF fits
  <2> QED
      BY <1>1, <2>1, SetHasMax
<1>3. Ratio(f, NsPerMs, Max(fits \cup {1})) \in Int
  <2> HIDE DEF fits
  <2> QED
      BY <1>1, <1>2, RatioType
<1>4. clocks_calc_mult_shift(f, NsPerMs, maxsec) =
          [mult |-> U32(Ratio(f, NsPerMs, Max(fits \cup {1}))),
           shift |-> Max(fits \cup {0})]
    BY Zenon DEF clocks_calc_mult_shift
<1> HIDE DEF fits
<1> QED
    BY <1>2, <1>3, <1>4, WordTypes

\* The factors the kernel tells keep to these ranges.
LEMMA KernelScaleType ==
    ASSUME NEW f \in Nat \ {0}
    PROVE  KernelScale(f).mult \in 0..UINT32_MAX /\ KernelScale(f).shift \in 0..Bits
<1>1. Bits \in Nat \ {0} /\ UINT32_MAX \in Nat
    BY WordTypes, ClockScaleAssumption
<1> DEFINE s == clocks_calc_mult_shift(f, NsPerMs, 0)
<1>2. s.mult \in 0..UINT32_MAX /\ s.shift \in 0..Bits
    BY ScaleType
<1>3. KernelScale(f) = IF s.shift < Bits THEN s
                       ELSE [mult |-> s.mult \div 2, shift |-> Bits - 1]
    BY DEF KernelScale
<1> HIDE DEF s
<1>4. s.mult \div 2 \in 0..UINT32_MAX
    BY <1>1, <1>2
<1> QED
    BY <1>1, <1>2, <1>3, <1>4

\* A conversion (src/util.h:33-36) yields a 64 bit number.
LEMMA ConversionType ==
    ASSUME NEW cyc \in Int, NEW s, s.mult \in Nat, s.shift \in Nat
    PROVE  mul_u64_u32_shr(cyc, s) \in Nat
<1>1. (cyc * s.mult) \div 2^s.shift \in Int
    BY PowerOfTwo
<1> QED
    BY <1>1, WordTypes DEF mul_u64_u32_shr

-----------------------------------------------------------------------------
(***************************************************************************)
(* The frequency                                                           *)
(***************************************************************************)

\* A step of get_tsc_khz (src/util.c:231-254) keeps the types, and that only
\* the last one of the sources asked has known the frequency.  When it
\* returns, the first source that knows one has decided.
LEMMA SourceAsked ==
    ASSUME KhzTypeOK, GetTscKhz, FirstSourceWins,
           khzRet = "none" =>
               /\ \A k \in 1..(Len(asked) - 1) : asked[k] = 0
               /\ tsc_khz = IF asked = <<>> THEN 0 ELSE asked[Len(asked)]
    PROVE  /\ KhzTypeOK'
           /\ FirstSourceWins'
           /\ khzRet' = "none" =>
                  /\ \A k \in 1..(Len(asked') - 1) : asked'[k] = 0
                  /\ tsc_khz' = IF asked' = <<>> THEN 0 ELSE asked'[Len(asked')]
<1>1. /\ asked \in Seq({Error, 0} \cup Frequencies)
      /\ Len(asked) \in Nat /\ DOMAIN asked = 1..Len(asked)
      /\ asked # <<>> => Len(asked) > 0
    BY LenProperties, EmptySeq DEF KhzTypeOK
<1>2. khzRet = "none"
    BY DEF GetTscKhz, Ask, AskFails, Answered
<1>3. ASSUME NEW answer \in {Error, 0} \cup Frequencies,
             asked' = Append(asked, answer), tsc_khz = 0,
             Len(asked) < Sources
      PROVE  /\ asked' \in Seq({Error, 0} \cup Frequencies)
             /\ Len(asked') = Len(asked) + 1 /\ Len(asked') <= Sources
             /\ asked' # <<>>
             /\ \A k \in 1..(Len(asked') - 1) : asked'[k] = 0
             /\ asked'[Len(asked')] = answer
             /\ DOMAIN asked' = 1..Len(asked')
  <2>1. /\ asked' \in Seq({Error, 0} \cup Frequencies)
        /\ Len(asked') = Len(asked) + 1 /\ asked' # <<>>
        /\ \A k \in 1..Len(asked) : asked'[k] = asked[k]
        /\ asked'[Len(asked) + 1] = answer
      BY <1>1, <1>3, AppendProperties
  <2>2. \A k \in 1..Len(asked) : asked[k] = 0
      BY <1>1, <1>2, <1>3
  <2> QED
      BY <1>1, <1>3, <2>1, <2>2, LenProperties DEF Sources
<1>4. CASE Ask
  <2>1. PICK answer \in {0} \cup Frequencies :
            tsc_khz' = answer /\ asked' = Append(asked, answer)
      BY <1>4 DEF Ask
  <2>2. khzRet' = khzRet /\ tsc_khz = 0 /\ Len(asked) < Sources
      BY <1>4 DEF Ask
  <2> QED
      BY <1>2, <1>3, <2>1, <2>2 DEF KhzTypeOK, FirstSourceWins
<1>5. CASE AskFails
  <2>1. /\ asked' = Append(asked, Error) /\ tsc_khz' \in {0} \cup Frequencies
        /\ khzRet' = "error" /\ tsc_khz = 0 /\ Len(asked) < Sources
      BY <1>5 DEF AskFails
  <2>2. /\ asked' \in Seq({Error, 0} \cup Frequencies)
        /\ Len(asked') <= Sources /\ Len(asked') \in DOMAIN asked'
        /\ asked'[Len(asked')] = Error
      BY <1>1, <1>3, <2>1
  <2> QED
      BY <2>1, <2>2 DEF KhzTypeOK, FirstSourceWins
<1>6. CASE Answered
  <2>1. /\ tsc_khz # 0 \/ Len(asked) = Sources
        /\ khzRet' = IF tsc_khz = 0 THEN "error" ELSE "ok"
        /\ UNCHANGED <<tsc_khz, asked>>
      BY <1>6 DEF Answered
  <2>2. CASE tsc_khz # 0
    <3>1. Len(asked) \in DOMAIN asked /\ asked[Len(asked)] = tsc_khz
        BY <1>1, <1>2, <2>2
    <3> QED
        BY <1>1, <1>2, <2>1, <2>2, <3>1 DEF KhzTypeOK, FirstSourceWins
  <2>3. CASE tsc_khz = 0
    <3>1. Len(asked) = 3 /\ asked # <<>>
        BY <2>1, <2>3, EmptySeq DEF Sources
    <3>2. \A k \in 1..2 : asked[k] = 0
        BY <1>2, <3>1
    <3>3. asked[3] = 0
        BY <1>2, <2>3, <3>1
    <3>4. asked = <<0, 0, 0>>
        BY <1>1, <3>1, <3>2, <3>3
    <3> QED
        BY <2>1, <2>3, <3>4 DEF KhzTypeOK, FirstSourceWins
  <2> QED
      BY <2>2, <2>3
<1> QED
    BY <1>4, <1>5, <1>6 DEF GetTscKhz
-----------------------------------------------------------------------------
(***************************************************************************)
(* The rows                                                                *)
(***************************************************************************)

\* The methods in the order in which main tries them (src/ptp-clock-offset.c:
\* 320-334).
LEMMA MethodTable ==
    /\ DOMAIN Methods = 1..5 /\ Len(Methods) = 5
    /\ Methods[1] = "clock_gettime" /\ Methods[2] = "OFFSET"
    /\ Methods[3] = "EXTENDED" /\ Methods[4] = "PRECISE" /\ Methods[5] = "SFC"
BY DEF Methods

\* An array of n entries is a sequence of length n.
LEMMA ArrayIsSeq ==
    ASSUME NEW S, NEW n \in Nat, NEW f \in [1..n -> S]
    PROVE  f \in Seq(S) /\ Len(f) = n /\ DOMAIN f = 1..n
<1>1. f \in Seq(S)
    BY SeqDef
<1>2. Len(f) \in Nat /\ DOMAIN f = 1..Len(f)
    BY <1>1, LenProperties
<1>3. DOMAIN f = 1..n
    OBVIOUS
<1>4. Len(f) = n
  <2>1. Len(f) <= n
      BY <1>2, <1>3
  <2>2. n <= Len(f)
      BY <1>2, <1>3
  <2> QED
      BY <1>2, <2>1, <2>2
<1> QED
    BY <1>1, <1>3, <1>4

\* A reading of the device between two of the system clock: the mean of the
\* two is not further from it than half of their distance
\* (src/ptp-clock-offset.c:100-103).
LEMMA RowBrackets ==
    ASSUME NEW sys1 \in Int, NEW dev \in Int, NEW sys2 \in Int, ahead \in Int,
           sys1 <= dev - tai_off_ns + ahead,
           dev - tai_off_ns + ahead <= sys2
    PROVE  LET row == Row(sys1, dev, sys2)
           IN  /\ row \in [off : Int, delay : Nat]
               /\ 2 * AbsDiff(row.off, ahead) <= row.delay + 1
<1>1. tai_off_ns \in Nat
    BY PtpOffsetAssumption
<1> DEFINE s1 == sys1 + tai_off_ns
           s2 == sys2 + tai_off_ns
           m == (s1 + s2) \div 2
<1>2. /\ s1 \in Int /\ s2 \in Int /\ s1 <= s2 /\ m \in Int
      /\ s1 <= dev + ahead /\ dev + ahead <= s2
    BY <1>1
<1>3. 2 * m <= s1 + s2 /\ s1 + s2 <= 2 * m + 1
    BY <1>2
<1>4. Row(sys1, dev, sys2) = [off |-> m - dev, delay |-> s2 - s1]
    BY DEF Row
<1> HIDE DEF s1, s2, m
<1>5. 2 * AbsDiff(m - dev, ahead) <= (s2 - s1) + 1
    BY <1>2, <1>3 DEF AbsDiff
<1> QED
    BY <1>2, <1>4, <1>5

\* What is printed when all stamps of a method are there is bracketed: rows of
\* three stamps each, of which OFFSET shares one between two rows.
LEMMA PrintedRowsFit ==
    ASSUME StampsInOrder, mainPc = "read", method \in DOMAIN Methods,
           ts \in Seq(Int), ahead \in Int, Len(ts) = Takes(Current), ~unread
    PROVE  /\ PrintedRows \in Seq([off : Int, delay : Nat])
           /\ Len(PrintedRows) =
                  IF Current = "clock_gettime" THEN 1 ELSE AllRows(method)
           /\ \A k \in 1..Len(PrintedRows) :
                  2 * AbsDiff(PrintedRows[k].off, ahead) <= PrintedRows[k].delay + 1
<1> DEFINE Rows == [off : Int, delay : Nat]
           Fits(row) == 2 * AbsDiff(row.off, ahead) <= row.delay + 1
<1>1. /\ Samples \in Nat \ {0} /\ tai_off_ns \in Nat
      /\ DOMAIN ts = 1..Len(ts) /\ \A k \in 1..Len(ts) : ts[k] \in Int
    BY PtpOffsetAssumption, LenProperties, ElementOfSeq
<1>2. ASSUME Current \in {"clock_gettime", "OFFSET", "EXTENDED"},
             NEW k \in 1..Len(ts), NEW l \in 1..k
      PROVE  Shown(l) <= Shown(k)
    BY <1>1, <1>2 DEF StampsInOrder
<1>3. ASSUME Current \in {"clock_gettime", "OFFSET", "EXTENDED"},
             NEW k \in 2..(Len(ts) - 1),
             IsDevice(k), ~IsDevice(k - 1), ~IsDevice(k + 1)
      PROVE  LET row == Row(ts[k - 1], ts[k], ts[k + 1])
             IN  row \in Rows /\ Fits(row)
  <2>1. /\ Shown(k - 1) = ts[k - 1] /\ Shown(k + 1) = ts[k + 1]
        /\ Shown(k) = ts[k] - tai_off_ns + ahead
      BY <1>3 DEF Shown
  <2>2. Len(ts) \in Nat
      BY LenProperties
  <2>3. Shown(k - 1) <= Shown(k) /\ Shown(k) <= Shown(k + 1)
      BY <1>2, <1>3, <2>2
  <2>4. ts[k - 1] \in Int /\ ts[k] \in Int /\ ts[k + 1] \in Int
      BY <1>1, <2>2
  <2> QED
      BY <2>1, <2>3, <2>4, RowBrackets
<1>4. CASE Current = "OFFSET"
  <2>1. /\ PrintedRows = [k \in 1..Samples |->
                             Row(ts[2*k - 1], ts[2*k], ts[2*k + 1])]
        /\ Len(ts) = 2 * Samples + 1 /\ AllRows(method) = Samples
      BY <1>4 DEF PrintedRows, Takes, AllRows, Current
  <2>2. ASSUME NEW k \in 1..Samples
        PROVE  LET row == Row(ts[2*k - 1], ts[2*k], ts[2*k + 1])
               IN  row \in Rows /\ Fits(row)
    <3>1. /\ 2*k \in 2..(Len(ts) - 1) /\ (2*k) % 2 = 0
          /\ (2*k - 1) % 2 # 0 /\ (2*k + 1) % 2 # 0
        BY <1>1, <2>1
    <3> QED
        BY <1>3, <1>4, <3>1 DEF IsDevice
  <2>3. /\ PrintedRows \in [1..Samples -> Rows]
        /\ \A k \in 1..Samples : Fits(PrintedRows[k])
    <3> HIDE DEF Rows, Fits
    <3> QED
        BY <2>1, <2>2
  <2> QED
      BY <1>1, <1>4, <2>1, <2>3, ArrayIsSeq
<1>5. CASE Current = "EXTENDED"
  <2>1. /\ PrintedRows = [k \in 1..Samples |->
                             Row(ts[3*k - 2], ts[3*k - 1], ts[3*k])]
        /\ Len(ts) = 3 * Samples /\ AllRows(method) = Samples
      BY <1>5 DEF PrintedRows, Takes, AllRows, Current
  <2>2. ASSUME NEW k \in 1..Samples
        PROVE  LET row == Row(ts[3*k - 2], ts[3*k - 1], ts[3*k])
               IN  row \in Rows /\ Fits(row)
    <3>1. /\ 3*k - 1 \in 2..(Len(ts) - 1) /\ (3*k - 1) % 3 = 2
          /\ (3*k - 2) % 3 # 2 /\ (3*k) % 3 # 2
          /\ (3*k - 1) - 1 = 3*k - 2 /\ (3*k - 1) + 1 = 3*k
        BY <1>1, <2>1
    <3> QED
        BY <1>3, <1>5, <3>1 DEF IsDevice
  <2>3. /\ PrintedRows \in [1..Samples -> Rows]
        /\ \A k \in 1..Samples : Fits(PrintedRows[k])
    <3> HIDE DEF Rows, Fits
    <3> QED
        BY <2>1, <2>2
  <2> QED
      BY <1>1, <1>5, <2>1, <2>3, ArrayIsSeq
<1>6. CASE Current = "clock_gettime"
  <2>1. PrintedRows = <<Row(ts[1], ts[2], ts[3])>> /\ Len(ts) = 3
      BY <1>6 DEF PrintedRows, Takes
  <2>2. LET row == Row(ts[1], ts[2], ts[3])
        IN  row \in Rows /\ Fits(row)
    <3>1. 2 \in 2..(Len(ts) - 1) /\ IsDevice(2) /\ ~IsDevice(2 - 1)
          /\ ~IsDevice(2 + 1) /\ 2 - 1 = 1 /\ 2 + 1 = 3
        BY <1>6, <2>1 DEF IsDevice
    <3> QED
        BY <1>3, <1>6, <3>1
  <2> HIDE DEF Rows, Fits
  <2>3. PrintedRows \in Seq(Rows) /\ Len(PrintedRows) = 1
        /\ \A k \in 1..1 : Fits(PrintedRows[k])
      BY <2>1, <2>2
  <2> QED
      BY <1>6, <2>3 DEF Rows, Fits
<1>7. CASE Current = "PRECISE"
  <2>1. /\ PrintedRows = <<[off |-> ts[1] + tai_off_ns - ts[2], delay |-> 0]>>
        /\ AllRows(method) = 1 /\ Len(ts) > 0
      BY <1>7 DEF PrintedRows, Takes, AllRows, Current
  <2>2. ts[1] + tai_off_ns - ts[2] = ahead
      BY <1>7, <2>1, EmptySeq DEF StampsInOrder
  <2>3. [off |-> ahead, delay |-> 0] \in Rows /\ Fits([off |-> ahead, delay |-> 0])
      BY DEF AbsDiff
  <2> QED
      BY <1>7, <2>1, <2>2, <2>3
<1>8. CASE Current = "SFC"
  <2>1. /\ PrintedRows = <<[off |-> ts[1], delay |-> 0]>>
        /\ AllRows(method) = 1 /\ Len(ts) > 0
      BY <1>8 DEF PrintedRows, Takes, AllRows, Current
  <2>2. ts[1] = ahead
      BY <1>8, <2>1, EmptySeq DEF StampsInOrder
  <2>3. [off |-> ahead, delay |-> 0] \in Rows /\ Fits([off |-> ahead, delay |-> 0])
      BY DEF AbsDiff
  <2> QED
      BY <1>8, <2>1, <2>2, <2>3
<1>9. Current \in {"clock_gettime", "OFFSET", "EXTENDED", "PRECISE", "SFC"}
    BY MethodTable DEF Current
<1> QED
    BY <1>4, <1>5, <1>6, <1>7, <1>8, <1>9
-----------------------------------------------------------------------------
(***************************************************************************)
(* The invariant                                                           *)
(***************************************************************************)

\* Nothing is known and nothing is printed when main begins.
LEMMA OffsetInit == Init => OffsetInv
<1> SUFFICES ASSUME Init PROVE OffsetInv
    OBVIOUS
<1>1. /\ mainPc = "begin" /\ method = 1 /\ rows = <<>> /\ ts = <<>>
      /\ asked = <<>> /\ tsc_khz = 0 /\ khzRet = "none"
      /\ printed = [m \in DOMAIN Methods |-> 0]
    BY DEF Init, KhzInit
<1>2. Samples \in Nat /\ Bits \in Nat /\ UINT32_MAX \in Nat
    BY PtpOffsetAssumption, ClockScaleAssumption, WordTypes
<1>3. scale.mult \in 0..UINT32_MAX /\ scale.shift \in 0..Bits
    BY <1>2 DEF Init
<1>4. TypeOK
  <2>1. KhzTypeOK
      BY <1>1, EmptySeq DEF KhzTypeOK, Sources
  <2>2. ts \in Seq(Int) /\ Len(rows) <= Samples
      BY <1>1, <1>2, EmptySeq
  <2>3. printed \in [DOMAIN Methods -> 0..Samples]
    <3>1. 0 \in 0..Samples
        BY <1>2
    <3> QED
        BY <1>1, <3>1, Zenon
  <2>4. {now, b, sc_delay, from} \subseteq Nat
      BY DEF Init
  <2>5. method \in 1..(Len(Methods) + 1)
      BY <1>1, MethodTable
  <2>6. /\ arg \in {"none", "device", "ifname"} /\ readPerf \in BOOLEAN
        /\ is_sfc \in BOOLEAN /\ ahead \in Offsets
        /\ failed \subseteq DOMAIN Methods /\ unread \in BOOLEAN
      BY DEF Init
  <2> QED
      BY <1>1, <1>3, <2>1, <2>2, <2>3, <2>4, <2>5, <2>6 DEF TypeOK
<1>5. SourcesInOrder /\ FirstSourceWins
    BY <1>1 DEF SourcesInOrder, FirstSourceWins
<1>6. StampsInOrder /\ OffsetIsBracketed
    BY <1>1 DEF Init, StampsInOrder, OffsetIsBracketed
<1>7. MethodsInOrder
    BY <1>1, MethodTable DEF MethodsInOrder
<1> QED
    BY <1>1, <1>4, <1>5, <1>6, <1>7, EmptySeq DEF OffsetInv

\* A step of main before the methods leaves what the methods are about.
LEMMA SettingUp ==
    ASSUME OffsetInv, NEW here, NEW to, MainGoes(here, to),
           here \notin {"next", "read", "exit"},
           to \in {"perf", "khz", "device", "open", "next", "failed", "crashed"},
           KhzTypeOK', FirstSourceWins', SourcesInOrder',
           scale'.mult \in 0..UINT32_MAX, scale'.shift \in 0..Bits,
           is_sfc' \in BOOLEAN
    PROVE  OffsetInv'
<1>1. /\ mainPc = here /\ mainPc' = to
      /\ UNCHANGED <<arg, readPerf, ahead, method, now, ts, unread, b, sc_delay,
                     rows, from, printed, failed>>
    BY DEF MainGoes, reading, outcome
<1>2. method = 1 /\ rows = <<>> /\ ts = <<>> /\ ~unread
    BY <1>1 DEF OffsetInv, MethodsInOrder, StampsInOrder
<1>3. TypeOK'
    BY <1>1 DEF OffsetInv, TypeOK
<1>4. StampsInOrder' /\ OffsetIsBracketed'
    BY <1>1, <1>2 DEF StampsInOrder, OffsetIsBracketed
<1>5. MethodsInOrder'
    BY <1>1, <1>2, MethodTable DEF OffsetInv, MethodsInOrder
<1> QED
    BY <1>1, <1>3, <1>4, <1>5 DEF OffsetInv

\* The steps of main before the methods (src/ptp-clock-offset.c:277-318).
LEMMA SetUpStep ==
    ASSUME OffsetInv,
           Arguments \/ Frequency \/ Scale \/ GetTscPerf \/ FindDevice \/ Open
    PROVE  OffsetInv'
<1>1. /\ KhzTypeOK /\ FirstSourceWins /\ SourcesInOrder
      /\ scale.mult \in 0..UINT32_MAX /\ scale.shift \in 0..Bits
      /\ is_sfc \in BOOLEAN /\ readPerf \in BOOLEAN
    BY DEF OffsetInv, TypeOK
<1>2. Frequencies \subseteq Nat \ {0}
    BY TscKhzAssumption
<1>3. CASE Arguments
  <2>1. /\ mainPc = "begin" /\ UNCHANGED <<khzVars, scale, is_sfc>>
        /\ \E to \in {"failed", "perf", "khz"} : MainGoes("begin", to)
      BY <1>1, <1>3 DEF Arguments, MainGoes
  <2>2. KhzTypeOK' /\ FirstSourceWins'
      BY <1>1, <2>1 DEF KhzTypeOK, FirstSourceWins, khzVars
  <2>3. SourcesInOrder'
      BY <1>1, <2>1, EmptySeq DEF SourcesInOrder, khzVars, MainGoes
  <2> QED
      BY <1>1, <2>1, <2>2, <2>3, SettingUp
<1>4. CASE Frequency
  <2>1. MainGoes("khz", "khz") /\ GetTscKhz /\ UNCHANGED <<scale, is_sfc>>
      BY <1>4 DEF Frequency
  <2>2. mainPc = "khz" /\ mainPc' = "khz"
      BY <2>1 DEF MainGoes
  <2>3. KhzTypeOK' /\ FirstSourceWins' /\ SourcesInOrder'
      BY <1>1, <2>1, <2>2, SourceAsked DEF SourcesInOrder
  <2> QED
      BY <1>1, <2>1, <2>3, SettingUp
<1>5. CASE Scale
  <2>1. /\ khzRet # "none" /\ UNCHANGED <<khzVars, is_sfc>>
        /\ \/ MainGoes("khz", "failed") /\ UNCHANGED scale
           \/ /\ khzRet = "ok" /\ MainGoes("khz", "device")
              /\ scale' = clocks_calc_mult_shift(tsc_khz, NsPerMs, 0)
      BY <1>5 DEF Scale
  <2>2. KhzTypeOK' /\ FirstSourceWins'
      BY <1>1, <2>1 DEF KhzTypeOK, FirstSourceWins, khzVars
  <2>3. khzRet = "ok" => tsc_khz \in Nat \ {0}
      BY <1>1, <1>2 DEF FirstSourceWins, KhzTypeOK
  <2>4. SourcesInOrder'
      BY <2>1, <2>3 DEF SourcesInOrder, khzVars, MainGoes
  <2>5. scale'.mult \in 0..UINT32_MAX /\ scale'.shift \in 0..Bits
    <3>1. CASE UNCHANGED scale
        BY <1>1, <3>1
    <3>2. CASE khzRet = "ok" /\ scale' = clocks_calc_mult_shift(tsc_khz, NsPerMs, 0)
        BY <2>3, <3>2, ScaleType
    <3> QED
        BY <2>1, <3>1, <3>2
  <2> QED
      BY <1>1, <2>1, <2>2, <2>4, <2>5, SettingUp
<1>6. CASE GetTscPerf
  <2>1. /\ UNCHANGED <<khzRet, asked, is_sfc>>
        /\ \/ /\ MainGoes("perf", "device") /\ tsc_khz' \in Frequencies
              /\ scale' = KernelScale(tsc_khz')
           \/ /\ MainGoes("perf", "failed") \/ MainGoes("perf", "crashed")
              /\ UNCHANGED <<tsc_khz, scale>>
      BY <1>6 DEF GetTscPerf
  <2>2. khzRet = "none" /\ mainPc = "perf"
      BY <1>1, <2>1 DEF SourcesInOrder, MainGoes
  <2>3. KhzTypeOK' /\ FirstSourceWins'
      BY <1>1, <2>1, <2>2 DEF KhzTypeOK, FirstSourceWins
  <2>4. CASE MainGoes("perf", "device")
    <3>1. /\ scale'.mult \in 0..UINT32_MAX /\ scale'.shift \in 0..Bits
          /\ tsc_khz' # 0
      <4>1. CASE tsc_khz' \in Frequencies /\ scale' = KernelScale(tsc_khz')
          BY <1>2, <4>1, KernelScaleType
      <4> QED
          BY <2>1, <2>4, <4>1 DEF MainGoes
    <3>2. SourcesInOrder'
        BY <2>4, <3>1 DEF SourcesInOrder, MainGoes
    <3> QED
        BY <1>1, <2>1, <2>3, <2>4, <3>1, <3>2, SettingUp
  <2>5. CASE MainGoes("perf", "failed") \/ MainGoes("perf", "crashed")
    <3>1. UNCHANGED scale
        BY <2>1, <2>5 DEF MainGoes
    <3>2. SourcesInOrder'
        BY <2>5 DEF SourcesInOrder, MainGoes
    <3> QED
        BY <1>1, <2>1, <2>3, <2>5, <3>1, <3>2, SettingUp
  <2> QED
      BY <2>1, <2>4, <2>5
<1>7. CASE FindDevice \/ Open
  <2>1. /\ UNCHANGED <<khzVars, scale>> /\ is_sfc' \in BOOLEAN
        /\ \/ MainGoes("device", "open") \/ MainGoes("device", "failed")
           \/ MainGoes("open", "next") \/ MainGoes("open", "failed")
      BY <1>1, <1>7 DEF FindDevice, Open
  <2>2. KhzTypeOK' /\ FirstSourceWins'
      BY <1>1, <2>1 DEF KhzTypeOK, FirstSourceWins, khzVars
  <2>3. SourcesInOrder'
      BY <1>1, <2>1 DEF SourcesInOrder, khzVars, MainGoes
  <2> QED
      BY <1>1, <2>1, <2>2, <2>3, SettingUp
<1> QED
    BY <1>3, <1>4, <1>5, <1>6, <1>7

\* What a step of a method has to keep.
LEMMA MethodStep ==
    ASSUME OffsetInv, UNCHANGED <<setup, khzVars>>,
           mainPc \in {"next", "read"}, mainPc' \in {"next", "read", "exit"},
           method' \in 1..6,
           now' \in Nat, b' \in Nat, sc_delay' \in Nat, from' \in Nat,
           ts' \in Seq(Int), unread' \in BOOLEAN,
           rows' \in Seq([off : Int, delay : Nat]), Len(rows') <= Samples,
           printed' \in [DOMAIN Methods -> 0..Samples],
           failed' \subseteq DOMAIN Methods,
           StampsInOrder', MethodsInOrder', OffsetIsBracketed'
    PROVE  OffsetInv'
<1>1. UNCHANGED <<arg, readPerf, ahead, scale, is_sfc, tsc_khz, khzRet, asked>>
    BY DEF setup, khzVars
<1>2. KhzTypeOK' /\ FirstSourceWins'
    BY <1>1 DEF OffsetInv, TypeOK, KhzTypeOK, FirstSourceWins
<1>3. SourcesInOrder'
    BY <1>1 DEF OffsetInv, SourcesInOrder
<1>4. TypeOK'
  <2>1. method' \in 1..(Len(Methods) + 1)
      BY MethodTable
  <2>2. {now, b, sc_delay, from}' \subseteq Nat
      OBVIOUS
  <2>3. /\ arg' \in {"none", "device", "ifname"} /\ readPerf' \in BOOLEAN
        /\ scale'.mult \in 0..UINT32_MAX /\ scale'.shift \in 0..Bits
        /\ is_sfc' \in BOOLEAN /\ ahead' \in Offsets
      BY <1>1 DEF OffsetInv, TypeOK
  <2> QED
      BY <1>2, <2>1, <2>2, <2>3 DEF TypeOK
<1> QED
    BY <1>2, <1>3, <1>4 DEF OffsetInv

\* What the steps of a method start from.
LEMMA MethodTypes ==
    ASSUME OffsetInv, mainPc \in {"next", "read"}
    PROVE  /\ Samples \in Nat \ {0} /\ MaxTick \in Nat /\ tai_off_ns \in Nat
           /\ ahead \in Int /\ method \in 1..6
           /\ now \in Nat /\ b \in Nat /\ sc_delay \in Nat /\ from \in Nat
           /\ ts \in Seq(Int) /\ unread \in BOOLEAN
           /\ rows \in Seq([off : Int, delay : Nat]) /\ Len(rows) \in 0..Samples
           /\ printed \in [DOMAIN Methods -> 0..Samples]
           /\ failed \subseteq DOMAIN Methods
           /\ \A t \in Nat : Tsc(t) \in Nat
           /\ \A t \in Nat : /\ Device(t) \in Int
                            /\ Device(t) - tai_off_ns + ahead = t
<1>1. /\ Samples \in Nat \ {0} /\ MaxTick \in Nat /\ tai_off_ns \in Nat
      /\ Offsets \subseteq Int
    BY PtpOffsetAssumption
<1>2. /\ ahead \in Offsets /\ method \in 1..6 /\ {now, b, sc_delay, from} \subseteq Nat
      /\ ts \in Seq(Int) /\ rows \in Seq([off : Int, delay : Nat])
      /\ unread \in BOOLEAN /\ Len(rows) <= Samples /\ tsc_khz \in {0} \cup Frequencies
      /\ printed \in [DOMAIN Methods -> 0..Samples] /\ failed \subseteq DOMAIN Methods
    BY MethodTable DEF OffsetInv, TypeOK, KhzTypeOK
<1>3. Len(rows) \in 0..Samples
    BY <1>1, <1>2, LenProperties
<1>4. ASSUME NEW t \in Nat PROVE Tsc(t) \in Nat
  <2>1. tsc_khz \in Nat /\ NsPerMs \in Nat \ {0}
    <3>1. 2^Bits - 1 \in Int
        BY PowerOfTwo, ClockScaleAssumption
    <3> QED
        BY <1>2, <3>1, TscKhzAssumption, ClockScaleAssumption
  <2>2. t * tsc_khz \in Nat
      BY <2>1
  <2> QED
      BY <2>1, <2>2 DEF Tsc
<1>5. ASSUME NEW t \in Nat
      PROVE  Device(t) \in Int /\ Device(t) - tai_off_ns + ahead = t
    BY <1>1, <1>2 DEF Device
<1> QED
    BY <1>1, <1>2, <1>3, <1>4, <1>5

\* A method begins with no stamps and no rows.
LEMMA BeginStep == OffsetInv /\ Begin => OffsetInv'
<1> SUFFICES ASSUME OffsetInv, Begin PROVE OffsetInv'
    OBVIOUS
<1>1. /\ mainPc = "next" /\ mainPc' = "read" /\ method' = method
      /\ ts' = <<>> /\ rows' = <<>> /\ sc_delay' = 0
      /\ method \in DOMAIN Methods /\ (Current = "SFC" => is_sfc)
      /\ now' \in Starts /\ from' = now'
      /\ UNCHANGED <<setup, khzVars, unread, printed, failed>>
    BY DEF Begin, outcome
<1>2. /\ is_sfc' = is_sfc /\ Current' = Current /\ tsc_khz' = tsc_khz
    BY <1>1 DEF setup, khzVars, Current
<1>3. now' \in Nat
    BY <1>1, PtpOffsetAssumption
<1>4. b' \in Nat
  <2>1. b' = IF Current = "clock_gettime" THEN 0 ELSE Tsc(now')
      BY DEF Begin
  <2> QED
      BY <1>1, <1>3, <2>1, MethodTypes
<1>5. StampsInOrder'
  <2>1. Len(ts') = 0 /\ DOMAIN ts' = {}
      BY <1>1, EmptySeq
  <2>2. Takes(Current)' \in Nat /\ 0 <= Takes(Current)'
    <3>1. Current \in {"clock_gettime", "OFFSET", "EXTENDED", "PRECISE", "SFC"}
        BY <1>1, MethodTable DEF Current
    <3> QED
        BY <1>2, <3>1, PtpOffsetAssumption DEF Takes
  <2>3. ~unread'
      BY <1>1 DEF OffsetInv, StampsInOrder
  <2> QED
      BY <1>1, <2>1, <2>2, <2>3 DEF StampsInOrder
<1>6. OffsetIsBracketed'
    BY <1>1 DEF OffsetIsBracketed
<1>7. MethodsInOrder'
  <2>1. printed[method] = 0
      BY <1>1 DEF OffsetInv, MethodsInOrder
  <2>2. Len(rows') = 0 /\ 0 < Samples
      BY <1>1, EmptySeq, PtpOffsetAssumption
  <2>3. \A m \in DOMAIN Methods : IsTried(m)' <=> IsTried(m)
      BY <1>1, <1>2 DEF IsTried, AllRows
  <2> QED
      BY <1>1, <1>2, <2>1, <2>2, <2>3 DEF OffsetInv, MethodsInOrder
<1>8. Len(rows') <= Samples
    BY <1>1, EmptySeq, PtpOffsetAssumption
<1> QED
    BY <1>1, <1>3, <1>4, <1>5, <1>6, <1>7, <1>8, MethodTypes, MethodStep, EmptySeq

\* What a reading changes: time does not go back, and the method goes on.
LEMMA ClockRead ==
    ASSUME OffsetInv, ReadClock
    PROVE  /\ mainPc = "read" /\ mainPc' = "read" /\ Len(ts) < Takes(Current)
           /\ UNCHANGED <<setup, khzVars, method, unread, b, sc_delay, rows, from,
                          printed, failed>>
           /\ is_sfc' = is_sfc /\ Current' = Current /\ ahead' = ahead
           /\ now \in Nat /\ now' \in Nat /\ now <= now' /\ now' <= now + MaxTick
           /\ Device(now') \in Int /\ Device(now') - tai_off_ns + ahead = now'
<1>1. /\ mainPc = "read" /\ mainPc' = "read" /\ Len(ts) < Takes(Current)
      /\ UNCHANGED <<setup, khzVars, method, unread, b, sc_delay, rows, from,
                     printed, failed>>
    BY DEF ReadClock, outcome
<1>2. /\ is_sfc' = is_sfc /\ Current' = Current /\ ahead' = ahead
    BY <1>1 DEF setup, Current
<1>3. now \in Nat /\ now' \in Nat /\ now <= now' /\ now' <= now + MaxTick
  <2>1. \E t \in 0..MaxTick : now' = now + t
      BY DEF ReadClock
  <2>2. now \in Nat /\ MaxTick \in Nat
      BY <1>1, MethodTypes
  <2> QED
      BY <2>1, <2>2
<1>4. Device(now') \in Int /\ Device(now') - tai_off_ns + ahead = now'
    BY <1>1, <1>3, MethodTypes
<1> QED
    BY <1>1, <1>2, <1>3, <1>4

\* A reading of the methods that read one clock at a time shows the time, and
\* leaves what was read before.
LEMMA StampTaken ==
    ASSUME OffsetInv, ReadClock,
           Current \in {"clock_gettime", "OFFSET", "EXTENDED"}
    PROVE  \E n \in Nat :
              /\ n = Len(ts) + 1
              /\ ts' \in Seq(Int) /\ Len(ts') = n /\ DOMAIN ts' = 1..n
              /\ \A k \in 1..Len(ts) : Shown(k)' = Shown(k) /\ Shown(k) \in Int
              /\ Shown(n)' = now'
<1>1. /\ Current' = Current /\ ahead' = ahead /\ now' \in Nat /\ mainPc = "read"
      /\ Device(now') \in Int /\ Device(now') - tai_off_ns + ahead = now'
    BY ClockRead
<1>2. /\ tai_off_ns \in Nat /\ ahead \in Int
      /\ ts \in Seq(Int) /\ Len(ts) \in Nat /\ DOMAIN ts = 1..Len(ts)
      /\ \A k \in 1..Len(ts) : ts[k] \in Int
    BY <1>1, MethodTypes, LenProperties, ElementOfSeq
<1> PICK n \in Nat : n = Len(ts) + 1
    BY <1>2
<1> DEFINE stamp == IF IsDevice(n) THEN Device(now') ELSE now'
<1>3. ts' = Append(ts, stamp)
    BY DEF ReadClock
<1>4. stamp \in Int
    BY <1>1
<1>5. /\ ts' \in Seq(Int) /\ Len(ts') = n /\ DOMAIN ts' = 1..n
      /\ \A k \in 1..Len(ts) : ts'[k] = ts[k]
      /\ ts'[n] = stamp
  <2> HIDE DEF stamp
  <2> QED
      BY <1>2, <1>3, <1>4, AppendProperties, LenProperties
<1>6. \A k \in 1..Len(ts) : Shown(k)' = Shown(k)
    BY <1>1, <1>5 DEF Shown, IsDevice
<1>7. Shown(n)' = now'
  <2>1. IsDevice(n)' <=> IsDevice(n)
      BY <1>1 DEF IsDevice
  <2>2. /\ Shown(n)' = IF IsDevice(n)' THEN ts'[n] - tai_off_ns + ahead'
                                       ELSE ts'[n]
        /\ ts'[n] = IF IsDevice(n) THEN Device(now') ELSE now'
      BY <1>5 DEF Shown
  <2> QED
      BY <1>1, <2>1, <2>2
<1>8. \A k \in 1..Len(ts) : Shown(k) \in Int
    BY <1>2 DEF Shown
<1> HIDE DEF stamp
<1> QED
    BY <1>5, <1>6, <1>7, <1>8

\* A reading goes behind the ones before it: the time does not go back.
LEMMA ReadClockStep == OffsetInv /\ ReadClock => OffsetInv'
<1> SUFFICES ASSUME OffsetInv, ReadClock PROVE OffsetInv'
    OBVIOUS
<1>1. /\ mainPc = "read" /\ mainPc' = "read" /\ Len(ts) < Takes(Current)
      /\ UNCHANGED <<setup, khzVars, method, unread, b, sc_delay, rows, from,
                     printed, failed>>
    BY ClockRead
<1>2. /\ is_sfc' = is_sfc /\ Current' = Current /\ ahead' = ahead
    BY ClockRead
<1>3. /\ Samples \in Nat \ {0} /\ tai_off_ns \in Nat /\ ahead \in Int
      /\ ts \in Seq(Int) /\ Len(ts) \in Nat /\ DOMAIN ts = 1..Len(ts)
    BY <1>1, MethodTypes, LenProperties
<1>4. now' \in Nat /\ now <= now' /\ now \in Nat
    BY ClockRead
<1>5. Device(now') \in Int /\ Device(now') - tai_off_ns + ahead = now'
    BY ClockRead
<1>6. Current \in {"clock_gettime", "OFFSET", "EXTENDED", "PRECISE", "SFC"}
    BY <1>1, MethodTable DEF OffsetInv, MethodsInOrder, Current
<1>7. StampsInOrder' /\ ts' \in Seq(Int)
  <2>0. unread' => mainPc' = "read" /\ Current' = "clock_gettime"
      BY <1>1, <1>2 DEF OffsetInv, StampsInOrder
  <2>1. CASE Current = "PRECISE"
    <3>1. ts' = <<now', Device(now')>>
        BY <2>1 DEF ReadClock
    <3>2. /\ ts' \in Seq(Int) /\ Len(ts') = 2
          /\ ts'[1] + tai_off_ns - ts'[2] = ahead
        BY <1>3, <1>4, <1>5, <3>1
    <3> QED
        BY <1>1, <1>2, <2>0, <2>1, <3>2 DEF StampsInOrder
  <2>2. CASE Current = "SFC"
    <3>1. ts' = <<ahead>>
        BY <2>2 DEF ReadClock
    <3> QED
        BY <1>1, <1>2, <1>3, <2>0, <2>2, <3>1 DEF StampsInOrder
  <2>3. CASE Current \in {"clock_gettime", "OFFSET", "EXTENDED"}
    <3>1. PICK n \in Nat :
              /\ n = Len(ts) + 1
              /\ ts' \in Seq(Int) /\ Len(ts') = n /\ DOMAIN ts' = 1..n
              /\ \A k \in 1..Len(ts) : Shown(k)' = Shown(k) /\ Shown(k) \in Int
              /\ Shown(n)' = now'
        BY <2>3, StampTaken
    <3>2. ~unread => \A k \in 1..Len(ts) :
                         /\ Shown(k) <= now
                         /\ \A l \in 1..k : Shown(l) <= Shown(k)
        BY <1>1, <1>3, <2>3 DEF OffsetInv, StampsInOrder
    <3>3. Takes(Current) \in Nat
        BY <1>3, <1>6 DEF Takes
    <3>4. Len(ts') <= Takes(Current)
        BY <1>1, <1>3, <3>1, <3>3
    <3>5. ASSUME ~unread, NEW k \in 1..n
          PROVE  Shown(k)' <= now' /\ \A l \in 1..k : Shown(l)' <= Shown(k)'
      <4>1. CASE k \in 1..Len(ts)
        <5>1. Shown(k)' <= now'
            BY <1>4, <3>1, <3>2, <3>5, <4>1
        <5>2. ASSUME NEW l \in 1..k PROVE Shown(l)' <= Shown(k)'
          <6>1. l \in 1..Len(ts)
              BY <1>3, <4>1
          <6> QED
              BY <3>1, <3>2, <3>5, <4>1, <6>1
        <5> QED
            BY <5>1, <5>2
      <4>2. CASE k = n
        <5>1. ASSUME NEW l \in 1..n PROVE Shown(l)' <= now'
          <6>1. CASE l \in 1..Len(ts)
              BY <1>4, <3>1, <3>2, <3>5, <6>1
          <6>2. CASE l = n
              BY <1>4, <3>1, <6>2
          <6> QED
              BY <1>3, <3>1, <6>1, <6>2
        <5> QED
            BY <1>4, <3>1, <4>2, <5>1
      <4> QED
          BY <1>3, <3>1, <4>1, <4>2
    <3> QED
        BY <1>1, <1>2, <2>0, <2>3, <3>1, <3>4, <3>5 DEF StampsInOrder
  <2> QED
      BY <1>6, <2>1, <2>2, <2>3
<1>8. OffsetIsBracketed'
    BY <1>1, <1>2 DEF OffsetInv, OffsetIsBracketed
<1>9. MethodsInOrder'
  <2>1. \A m \in DOMAIN Methods : IsTried(m)' <=> IsTried(m)
      BY <1>1, <1>2 DEF IsTried, AllRows
  <2> QED
      BY <1>1, <1>2, <2>1 DEF OffsetInv, MethodsInOrder
<1>10. Len(rows') <= Samples
    BY <1>1, MethodTypes
<1> QED
    BY <1>1, <1>4, <1>7, <1>8, <1>9, <1>10, MethodTypes, MethodStep

\* What was not read is told: nothing is said of the stamps of the sample.
LEMMA ReadFailsStep == OffsetInv /\ ReadFails => OffsetInv'
<1> SUFFICES ASSUME OffsetInv, ReadFails PROVE OffsetInv'
    OBVIOUS
<1>1. /\ mainPc = "read" /\ mainPc' = "read" /\ Current = "clock_gettime"
      /\ Len(ts) < Takes(Current) /\ ts' = Append(ts, 0) /\ unread' = TRUE
      /\ UNCHANGED <<setup, khzVars, method, now, b, sc_delay, rows, from, printed,
                     failed>>
    BY DEF ReadFails, outcome
<1>2. /\ is_sfc' = is_sfc /\ Current' = Current /\ ahead' = ahead
    BY <1>1 DEF setup, Current
<1>3. ts \in Seq(Int) /\ Len(ts) \in Nat
    BY <1>1, MethodTypes, LenProperties
<1>4. ts' \in Seq(Int) /\ Len(ts') = Len(ts) + 1
    BY <1>1, <1>3, AppendProperties
<1>5. StampsInOrder'
  <2>1. Takes(Current) = 3 /\ Takes(Current)' = 3
      BY <1>1, <1>2 DEF Takes
  <2> QED
      BY <1>1, <1>2, <1>3, <1>4, <2>1 DEF StampsInOrder
<1>6. OffsetIsBracketed'
    BY <1>1, <1>2 DEF OffsetInv, OffsetIsBracketed
<1>7. MethodsInOrder'
  <2>1. \A m \in DOMAIN Methods : IsTried(m)' <=> IsTried(m)
      BY <1>1, <1>2 DEF IsTried, AllRows
  <2> QED
      BY <1>1, <1>2, <2>1 DEF OffsetInv, MethodsInOrder
<1>8. Len(rows') <= Samples
    BY <1>1, MethodTypes
<1> QED
    BY <1>1, <1>4, <1>5, <1>6, <1>7, <1>8, MethodTypes, MethodStep

\* A method that is done with hands over to the next one.
LEMMA MethodDone ==
    ASSUME OffsetInv, mainPc = "read", mainPc' = "next", method' = method + 1,
           is_sfc' = is_sfc, failed \subseteq failed',
           \A m \in DOMAIN Methods \ {method} : printed'[m] = printed[m],
           method \in failed' \/ printed'[method] = AllRows(method)
    PROVE  MethodsInOrder' /\ method \in 1..5 /\ method' \in 1..6
<1>1. method \in 1..5 /\ method' \in 1..6
    BY MethodTable DEF OffsetInv, MethodsInOrder
<1>2. ASSUME NEW m \in DOMAIN Methods, m < method' PROVE IsTried(m)'
  <2>1. CASE m = method
      BY <2>1 DEF IsTried, AllRows
  <2>2. CASE m # method
    <3>1. m < method
        BY <1>1, <1>2, <2>2, MethodTable
    <3>2. IsTried(m)
        BY <3>1 DEF OffsetInv, MethodsInOrder
    <3> QED
        BY <2>2, <3>2 DEF IsTried, AllRows
  <2> QED
      BY <2>1, <2>2
<1>3. ASSUME NEW m \in DOMAIN Methods, m >= method' PROVE printed'[m] = 0
  <2>1. m > method /\ m # method
      BY <1>1, <1>3, MethodTable
  <2> QED
      BY <2>1 DEF OffsetInv, MethodsInOrder
<1>4. \A m \in DOMAIN Methods :
          (m > method' \/ (m = method' /\ mainPc' # "read")) => printed'[m] = 0
    BY <1>1, <1>3, MethodTable
<1> QED
    BY <1>1, <1>2, <1>4 DEF MethodsInOrder

\* clock_gettime (src/ptp-clock-offset.c:81-110): a row more, until all
\* samples are taken.
LEMMA PrintSampleStep == OffsetInv /\ PrintSample => OffsetInv'
<1> SUFFICES ASSUME OffsetInv, PrintSample PROVE OffsetInv'
    OBVIOUS
<1> DEFINE Rows == [off : Int, delay : Nat]
           fits(row) == 2 * AbsDiff(row.off, ahead) <= row.delay + 1
<1>1. /\ mainPc = "read" /\ Current = "clock_gettime"
      /\ Len(ts) = Takes(Current)
      /\ ~unread /\ unread' = FALSE
      /\ rows' = rows \o PrintedRows /\ ts' = <<>>
      /\ printed' = [printed EXCEPT ![method] = @ + 1]
      /\ IF Len(rows') = Samples
         THEN mainPc' = "next" /\ method' = method + 1
         ELSE mainPc' = mainPc /\ method' = method
      /\ UNCHANGED <<setup, khzVars, now, b, sc_delay, from, failed>>
    BY DEF PrintSample, SamplePrinted
<1>2. /\ Samples \in Nat \ {0} /\ ahead \in Int /\ ts \in Seq(Int)
      /\ rows \in Seq(Rows) /\ printed \in [DOMAIN Methods -> 0..Samples]
    BY <1>1, MethodTypes
<1>3. /\ method \in DOMAIN Methods /\ method \in 1..5
      /\ printed[method] = Len(rows) /\ Len(rows) < Samples
    BY <1>1, MethodTable DEF OffsetInv, MethodsInOrder
<1>4. /\ PrintedRows \in Seq(Rows) /\ Len(PrintedRows) = 1
      /\ \A k \in 1..1 : fits(PrintedRows[k])
    BY <1>1, <1>2, <1>3, PrintedRowsFit DEF OffsetInv
<1>5. ahead' = ahead /\ is_sfc' = is_sfc
    BY <1>1 DEF setup
<1>6. /\ rows' \in Seq(Rows) /\ Len(rows') = Len(rows) + 1
      /\ \A k \in 1..Len(rows) : rows'[k] = rows[k]
      /\ rows'[Len(rows) + 1] = PrintedRows[1]
      /\ DOMAIN rows' = 1..(Len(rows) + 1)
      /\ Len(rows) \in Nat /\ DOMAIN rows = 1..Len(rows)
  <2> HIDE DEF Rows
  <2>1. /\ Len(rows) \in Nat /\ DOMAIN rows = 1..Len(rows)
      BY <1>2, LenProperties
  <2>2. /\ rows' \in Seq(Rows) /\ Len(rows') = Len(rows) + Len(PrintedRows)
        /\ \A i \in 1 .. Len(rows) + Len(PrintedRows) :
              rows'[i] = IF i <= Len(rows) THEN rows[i]
                                           ELSE PrintedRows[i - Len(rows)]
      BY <1>1, <1>2, <1>4, ConcatProperties
  <2> QED
      BY <1>4, <2>1, <2>2, LenProperties
<1>7. OffsetIsBracketed'
  <2>1. ASSUME NEW k \in DOMAIN rows' PROVE fits(rows'[k])
    <3>1. CASE k \in 1..Len(rows)
      <4>1. fits(rows[k])
          BY <1>6, <3>1 DEF OffsetInv, OffsetIsBracketed
      <4> QED
          BY <1>6, <3>1, <4>1
    <3>2. CASE k = Len(rows) + 1
        BY <1>4, <1>6, <3>2
    <3> QED
        BY <1>6, <3>1, <3>2
  <2> QED
      BY <1>5, <2>1 DEF OffsetIsBracketed
<1>8. /\ printed'[method] = Len(rows')
      /\ \A m \in DOMAIN Methods \ {method} : printed'[m] = printed[m]
      /\ printed' \in [DOMAIN Methods -> 0..Samples]
  <2>1. Len(rows) + 1 \in 0..Samples
      BY <1>2, <1>3, <1>6
  <2> QED
      BY <1>1, <1>2, <1>3, <1>6, <2>1
<1>9. CASE Len(rows') = Samples
  <2>1. mainPc' = "next" /\ method' = method + 1
      BY <1>1, <1>9
  <2>2. printed'[method] = AllRows(method)
      BY <1>1, <1>8, <1>9 DEF AllRows, Current
  <2>3. MethodsInOrder' /\ method' \in 1..6
      BY <1>1, <1>5, <1>8, <2>1, <2>2, MethodDone
  <2>4. StampsInOrder'
      BY <1>1, <2>1 DEF StampsInOrder
  <2>5. Len(rows') <= Samples
      BY <1>2, <1>9
  <2>6. /\ now' \in Nat /\ b' \in Nat /\ sc_delay' \in Nat /\ from' \in Nat
        /\ ts' \in Seq(Int) /\ failed' \subseteq DOMAIN Methods
      BY <1>1, MethodTypes, EmptySeq
  <2> QED
      BY <1>1, <1>6, <1>7, <1>8, <2>1, <2>3, <2>4, <2>5, <2>6, MethodStep
<1>10. CASE Len(rows') # Samples
  <2>1. mainPc' = "read" /\ method' = method /\ Current' = Current
      BY <1>1, <1>10 DEF Current
  <2>2. MethodsInOrder'
    <3>1. ASSUME NEW m \in DOMAIN Methods, m < method' PROVE IsTried(m)'
      <4>1. IsTried(m) /\ m # method
          BY <2>1, <3>1, <1>3, MethodTable DEF OffsetInv, MethodsInOrder
      <4> QED
          BY <1>1, <1>5, <1>8, <4>1 DEF IsTried, AllRows
    <3>2. ASSUME NEW m \in DOMAIN Methods, m > method' PROVE printed'[m] = 0
      <4>1. printed[m] = 0 /\ m # method
          BY <2>1, <3>2, <1>3, MethodTable DEF OffsetInv, MethodsInOrder
      <4> QED
          BY <1>8, <4>1
    <3>3. Len(rows') < Samples
        BY <1>2, <1>3, <1>6, <1>10
    <3> QED
        BY <1>1, <1>3, <1>8, <2>1, <3>1, <3>2, <3>3 DEF MethodsInOrder
  <2>3. StampsInOrder'
    <3>1. Len(ts') = 0 /\ DOMAIN ts' = {}
        BY <1>1, EmptySeq
    <3> QED
        BY <1>1, <2>1, <3>1 DEF StampsInOrder, Takes
  <2>4. Len(rows') <= Samples
      BY <1>2, <1>3, <1>6
  <2> QED
      BY <1>1, <1>2, <1>3, <1>6, <1>7, <1>8, <2>1, <2>2, <2>3, <2>4, MethodTypes,
         MethodStep, EmptySeq
<1> QED
    BY <1>9, <1>10

\* The methods with one system call (src/ptp-clock-offset.c:112-175) print all
\* their rows when it has returned.
LEMMA PrintRowsStep == OffsetInv /\ PrintRows => OffsetInv'
<1> SUFFICES ASSUME OffsetInv, PrintRows PROVE OffsetInv'
    OBVIOUS
<1> DEFINE Rows == [off : Int, delay : Nat]
<1>1. /\ mainPc = "read" /\ Current # "clock_gettime"
      /\ Len(ts) = Takes(Current) /\ rows' = PrintedRows /\ ts' = <<>>
      /\ sc_delay' = tsc2ns(Tsc(now') - b)
      /\ printed' = [printed EXCEPT ![method] = Len(PrintedRows)]
      /\ mainPc' = "next" /\ method' = method + 1
      /\ UNCHANGED <<setup, khzVars, unread, b, from, failed>>
    BY DEF PrintRows
<1>14. ~unread /\ ~unread'
    BY <1>1 DEF OffsetInv, StampsInOrder
<1>2. /\ Samples \in Nat \ {0} /\ ahead \in Int /\ ts \in Seq(Int) /\ b \in Nat
      /\ printed \in [DOMAIN Methods -> 0..Samples]
      /\ \A t \in Nat : Tsc(t) \in Nat
    BY <1>1, MethodTypes
<1>3. now' \in Nat
  <2>1. \E t \in 0..MaxTick : now' = now + t
      BY DEF PrintRows
  <2>2. now \in Nat /\ MaxTick \in Nat
      BY <1>1, MethodTypes
  <2> QED
      BY <2>1, <2>2
<1>4. method \in DOMAIN Methods
    BY <1>1 DEF OffsetInv, MethodsInOrder
<1>5. /\ PrintedRows \in Seq(Rows) /\ Len(PrintedRows) = AllRows(method)
      /\ \A k \in 1..Len(PrintedRows) :
            2 * AbsDiff(PrintedRows[k].off, ahead) <= PrintedRows[k].delay + 1
    BY <1>1, <1>2, <1>4, <1>14, PrintedRowsFit DEF OffsetInv
<1>6. AllRows(method) \in 0..Samples
    BY <1>2 DEF AllRows
<1>7. ahead' = ahead /\ is_sfc' = is_sfc
    BY <1>1 DEF setup
<1>8. sc_delay' \in Nat
  <2>1. Tsc(now') - b \in Int
    <3>1. tsc_khz' = tsc_khz
        BY <1>1 DEF khzVars
    <3>2. Tsc(now') \in Nat
        BY <1>2, <1>3
    <3> QED
        BY <1>2, <3>2
  <2>2. UINT32_MAX \in Nat /\ Bits \in Nat
      BY WordTypes, ClockScaleAssumption
  <2>3. scale.mult \in Nat /\ scale.shift \in Nat
      BY <2>2 DEF OffsetInv, TypeOK
  <2> QED
      BY <1>1, <2>1, <2>3, ConversionType DEF tsc2ns
<1>9. OffsetIsBracketed'
  <2>1. DOMAIN rows' = 1..Len(PrintedRows)
      BY <1>1, <1>5, LenProperties
  <2> QED
      BY <1>1, <1>5, <1>7, <2>1 DEF OffsetIsBracketed
<1>10. /\ printed'[method] = AllRows(method)
       /\ \A m \in DOMAIN Methods \ {method} : printed'[m] = printed[m]
       /\ printed' \in [DOMAIN Methods -> 0..Samples]
    BY <1>1, <1>2, <1>4, <1>5, <1>6
<1>11. MethodsInOrder' /\ method' \in 1..6
    BY <1>1, <1>7, <1>10, MethodDone
<1>12. StampsInOrder'
    BY <1>1, <1>14 DEF StampsInOrder
<1>13. Len(rows') <= Samples
    BY <1>1, <1>2, <1>5, <1>6
<1> HIDE DEF Rows
<1> QED
    BY <1>1, <1>3, <1>5, <1>8, <1>9, <1>10, <1>11, <1>12, <1>13, <1>14, MethodTypes,
       MethodStep, EmptySeq DEF Rows

\* A method that is not available is left behind.
LEMMA MethodFailsStep == OffsetInv /\ MethodFails => OffsetInv'
<1> SUFFICES ASSUME OffsetInv, MethodFails PROVE OffsetInv'
    OBVIOUS
<1>1. /\ mainPc = "read" /\ mainPc' = "next" /\ method' = method + 1
      /\ ts' = <<>> /\ unread' = FALSE /\ failed' = failed \cup {method}
      /\ UNCHANGED <<setup, khzVars, now, b, sc_delay, rows, from, printed>>
    BY DEF MethodFails
<1>2. ahead' = ahead /\ is_sfc' = is_sfc
    BY <1>1 DEF setup
<1>3. MethodsInOrder' /\ method \in 1..5 /\ method' \in 1..6
    BY <1>1, <1>2, MethodDone
<1>4. StampsInOrder' /\ OffsetIsBracketed'
    BY <1>1, <1>2 DEF OffsetInv, StampsInOrder, OffsetIsBracketed
<1>5. failed' \subseteq DOMAIN Methods
    BY <1>1, <1>3, MethodTypes, MethodTable
<1>6. Len(rows') <= Samples
    BY <1>1, MethodTypes
<1> QED
    BY <1>1, <1>3, <1>4, <1>5, <1>6, MethodTypes, MethodStep, EmptySeq

\* main returns when there is no method left.
LEMMA FinishStep == OffsetInv /\ Finish => OffsetInv'
<1> SUFFICES ASSUME OffsetInv, Finish PROVE OffsetInv'
    OBVIOUS
<1>1. /\ mainPc = "next" /\ mainPc' = "exit"
      /\ (method \in DOMAIN Methods => Current = "SFC" /\ ~is_sfc)
      /\ UNCHANGED <<setup, khzVars, method, now, ts, unread, b, sc_delay, rows,
                     from, printed, failed>>
    BY DEF Finish, reading, outcome
<1>2. ahead' = ahead /\ is_sfc' = is_sfc /\ Current' = Current
    BY <1>1 DEF setup, Current
<1>3. StampsInOrder' /\ OffsetIsBracketed'
    BY <1>1, <1>2 DEF OffsetInv, StampsInOrder, OffsetIsBracketed
<1>4. MethodsInOrder'
  <2>1. \A m \in DOMAIN Methods : IsTried(m)' <=> IsTried(m)
      BY <1>1, <1>2 DEF IsTried, AllRows
  <2>2. method > 5 \/ (Current = "SFC" /\ ~is_sfc)
      BY <1>1, MethodTypes, MethodTable
  <2> QED
      BY <1>1, <1>2, <2>1, <2>2 DEF OffsetInv, MethodsInOrder
<1>5. Len(rows') <= Samples
    BY <1>1, MethodTypes
<1> QED
    BY <1>1, <1>3, <1>4, <1>5, MethodTypes, MethodStep

\* Every step, of all those main can take, keeps the invariant.
LEMMA OffsetStep == OffsetInv /\ [Next]_vars => OffsetInv'
<1> SUFFICES ASSUME OffsetInv, [Next]_vars PROVE OffsetInv'
    OBVIOUS
<1>1. CASE Arguments \/ Frequency \/ Scale \/ GetTscPerf \/ FindDevice \/ Open
    BY <1>1, SetUpStep
<1>2. CASE Begin
    BY <1>2, BeginStep
<1>3. CASE ReadClock
    BY <1>3, ReadClockStep
<1>4. CASE PrintSample
    BY <1>4, PrintSampleStep
<1>5. CASE PrintRows
    BY <1>5, PrintRowsStep
<1>6. CASE MethodFails
    BY <1>6, MethodFailsStep
<1>7. CASE Finish
    BY <1>7, FinishStep
<1>8. CASE ReadFails
    BY <1>8, ReadFailsStep
<1>9. CASE UNCHANGED vars
  <2>1. UNCHANGED <<arg, readPerf, ahead, scale, is_sfc, tsc_khz, khzRet, asked,
                    mainPc, method, now, ts, unread, b, sc_delay, rows, from, printed,
                    failed>>
      BY <1>9 DEF vars, setup, khzVars, reading, outcome
  <2> QED
      BY <2>1 DEF OffsetInv, TypeOK, KhzTypeOK, FirstSourceWins, SourcesInOrder,
                  StampsInOrder, Shown, IsDevice, Current, MethodsInOrder,
                  IsTried, OffsetIsBracketed
<1> QED
    BY <1>1, <1>2, <1>3, <1>4, <1>5, <1>6, <1>7, <1>8, <1>9 DEF Next

\* The invariant (src/ptp-clock-offset.c:277-340, src/util.c:231-254): the
\* types, the sources in their order, the stamps in the order they are read,
\* and the methods one after the other.
THEOREM OffsetInvAlways == Spec => []OffsetInv
BY OffsetInit, OffsetStep, PTL DEF Spec

\* A row tells an offset and a delay: the real offset is not further away than
\* half of the delay, rounded up (src/ptp-clock-offset.c:100-175), whatever
\* the time that passes between the readings.
THEOREM OffsetIsWithinDelay == Spec => []OffsetIsBracketed
<1>1. OffsetInv => OffsetIsBracketed
    BY DEF OffsetInv
<1> QED
    BY <1>1, OffsetInvAlways, PTL

\* The frequency is that of the first source that knows one
\* (src/util.c:231-254).
THEOREM FirstSourceDecides == Spec => []FirstSourceWins
<1>1. OffsetInv => FirstSourceWins
    BY DEF OffsetInv
<1> QED
    BY <1>1, OffsetInvAlways, PTL

\* When main returns 0 every method has failed, is not for this driver, or has
\* printed all its rows (src/ptp-clock-offset.c:320-338).
THEOREM NoMethodIsLeftOut == Spec => []EveryMethodIsTried
<1>1. OffsetInv => EveryMethodIsTried
  <2> SUFFICES ASSUME OffsetInv, mainPc = "exit", NEW m \in DOMAIN Methods
               PROVE  IsTried(m)
      BY DEF EveryMethodIsTried
  <2>1. method > 5 \/ (Current = "SFC" /\ ~is_sfc)
      BY DEF OffsetInv, MethodsInOrder
  <2>2. method \in 1..6 /\ m \in 1..5
      BY MethodTable DEF OffsetInv, TypeOK
  <2>3. CASE m < method
      BY <2>3 DEF OffsetInv, MethodsInOrder
  <2>4. CASE m >= method
    <3>1. Methods[method] = "SFC" /\ ~is_sfc /\ method = 5
        BY <2>1, <2>2, <2>4, MethodTable DEF Current
    <3> QED
        BY <2>2, <2>4, <3>1 DEF IsTried
  <2> QED
      BY <2>2, <2>3, <2>4
<1> QED
    BY <1>1, OffsetInvAlways, PTL
-----------------------------------------------------------------------------
(***************************************************************************)
(* The factors                                                             *)
(***************************************************************************)

\* A longer shift is a larger power.
LEMMA PowersAscend ==
    ASSUME NEW k \in Nat, NEW l \in Nat, k <= l
    PROVE  2^k <= 2^l
<1>1. /\ IsFiniteSet(1..k) /\ Cardinality(1..k) = k
      /\ IsFiniteSet(1..l) /\ Cardinality(1..l) = l
    BY FS_Interval
<1>2. /\ IsFiniteSet(SUBSET (1..l)) /\ Cardinality(SUBSET (1..l)) = 2^l
      /\ Cardinality(SUBSET (1..k)) = 2^k
    BY <1>1, FS_SUBSET
<1>3. SUBSET (1..k) \subseteq SUBSET (1..l)
    OBVIOUS
<1> QED
    BY <1>2, <1>3, FS_Subset

\* One more thing doubles the subsets: each is with it or without it.
LEMMA PowerDoubles == ASSUME NEW k \in Nat PROVE 2^(k + 1) = 2 * 2^k
<1> DEFINE Small == SUBSET (1..k)
           Large == {X \cup {k + 1} : X \in Small}
           with == [X \in Small |-> X \cup {k + 1}]
<1>1. /\ IsFiniteSet(1..k) /\ Cardinality(1..k) = k
      /\ IsFiniteSet(1..(k + 1)) /\ Cardinality(1..(k + 1)) = k + 1
    BY FS_Interval
<1>2. /\ IsFiniteSet(Small) /\ Cardinality(Small) = 2^k
      /\ IsFiniteSet(SUBSET (1..(k + 1)))
      /\ Cardinality(SUBSET (1..(k + 1))) = 2^(k + 1)
    BY <1>1, FS_SUBSET
<1>3. with \in Bijection(Small, Large)
  <2>1. ASSUME NEW X \in Small, NEW Y \in Small, with[X] = with[Y]
        PROVE  X = Y
    <3>1. k + 1 \notin X /\ k + 1 \notin Y
        OBVIOUS
    <3>2. X \cup {k + 1} = Y \cup {k + 1}
        BY <2>1
    <3>3. ASSUME NEW x PROVE x \in X <=> x \in Y
        BY <3>1, <3>2
    <3> QED
        BY <3>3
  <2>2. with \in [Small -> Large] /\ \A Y \in Large : \E X \in Small : with[X] = Y
      BY Zenon
  <2> QED
      BY <2>1, <2>2, Zenon DEF Bijection, Injection, Surjection, IsInjective
<1>4. IsFiniteSet(Large) /\ Cardinality(Large) = 2^k
  <2> HIDE DEF Small, Large, with
  <2>1. ExistsBijection(Small, Large)
      BY <1>3 DEF ExistsBijection
  <2> QED
      BY <1>2, <2>1, FS_Bijection
<1>5. SUBSET (1..(k + 1)) = Small \cup Large
  <2>1. ASSUME NEW X \in SUBSET (1..(k + 1)) PROVE X \in Small \cup Large
    <3>1. X \ {k + 1} \in Small
        OBVIOUS
    <3>2. CASE k + 1 \in X
      <4>1. X = (X \ {k + 1}) \cup {k + 1}
          BY <3>2, Zenon
      <4> QED
          BY <3>1, <4>1, Zenon
    <3>3. CASE k + 1 \notin X
      <4>1. X = X \ {k + 1}
          BY <3>3, Zenon
      <4> QED
          BY <3>1, <4>1, Zenon
    <3> QED
        BY <3>2, <3>3
  <2>2. Small \cup Large \subseteq SUBSET (1..(k + 1))
    <3>1. 1..k \subseteq 1..(k + 1) /\ k + 1 \in 1..(k + 1)
        OBVIOUS
    <3> QED
        BY <3>1, Zenon
  <2> QED
      BY <2>1, <2>2, Zenon
<1>6. Small \cap Large = {}
  <2>1. \A X \in Small : k + 1 \notin X
      OBVIOUS
  <2> QED
      BY <2>1, Zenon
<1>7. Cardinality(Small \cup Large)
          = Cardinality(Small) + Cardinality(Large) - Cardinality(Small \cap Large)
  <2> HIDE DEF Small, Large
  <2> QED
      BY <1>2, <1>4, FS_Union, Zenon
<1>8. Cardinality(Small \cap Large) = 0
    BY <1>6, FS_EmptySet
<1> HIDE DEF Small, Large
<1>9. 2^(k + 1) = 2^k + 2^k - 0
    BY <1>2, <1>4, <1>5, <1>7, <1>8
<1>10. 2^k \in Int
    BY PowerOfTwo
<1> QED
    BY <1>9, <1>10

\* A product grows with its factors.
LEMMA ProductAscends ==
    ASSUME NEW x \in Int, NEW y \in Int, NEW z \in Nat, x <= y
    PROVE  x * z \in Int /\ y * z \in Int /\ x * z <= y * z
OBVIOUS

\* What a division leaves is less than the divisor.
LEMMA Quotient ==
    ASSUME NEW x \in Nat, NEW d \in Nat \ {0}
    PROVE  /\ x \div d \in Nat
           /\ (x \div d) * d <= x /\ x < (x \div d) * d + d
OBVIOUS

\* A number that has room in a word is not cut.
LEMMA NotCut ==
    /\ \A x \in Nat : x <= UINT32_MAX => U32(x) = x
    /\ \A x \in Nat : x <= UINT64_MAX => U64(x) = x
<1>1. W32 \in Nat \ {0} /\ W64 \in Nat \ {0}
    BY WordTypes
<1>2. ASSUME NEW n \in Nat \ {0}, NEW x \in Nat, x <= n - 1
      PROVE  x % n = x
    BY <1>2
<1> QED
    BY <1>1, <1>2 DEF U32, U64, UINT32_MAX, UINT64_MAX

\* The 64 bit operations of Ratio do not wrap (src/util.c:96-100): it is the
\* quotient of the shifted period and the frequency, rounded to the nearest.
LEMMA RatioIs ==
    ASSUME NEW f \in 1..UINT32_MAX, NEW sft \in 0..Bits
    PROVE  LET m == Ratio(f, NsPerMs, sft)
               x == NsPerMs * 2^sft + f \div 2
           IN  m \in Nat /\ x \in Nat /\ m = x \div f
               /\ m * f <= x /\ x < m * f + f
<1>1. /\ Bits \in Nat /\ sft \in Nat /\ NsPerMs \in Nat /\ W32 \in Nat \ {0}
      /\ NsPerMs <= W32 - 1 /\ f \in Nat \ {0} /\ f <= W32 - 1 /\ W64 = W32 * W32
      /\ W32 = 2^Bits
    BY WordTypes, ClockScaleAssumption, PowerOfTwo DEF UINT32_MAX, W32, W64
<1>2. 2^sft \in Nat \ {0} /\ 2^sft <= W32
    BY <1>1, PowerOfTwo, PowersAscend
<1> DEFINE p == 2^sft
           h == f \div 2
<1>3. h \in Nat /\ h <= f
    BY <1>1
<1>4. NsPerMs * p \in Nat /\ NsPerMs * p <= (W32 - 1) * W32
  <2> HIDE DEF p
  <2>1. p \in Nat /\ p <= W32
      BY <1>2 DEF p
  <2>2. p * NsPerMs <= W32 * NsPerMs
      BY <1>1, <2>1, ProductAscends
  <2>3. NsPerMs * W32 <= (W32 - 1) * W32
      BY <1>1, ProductAscends
  <2>4. NsPerMs * p = p * NsPerMs /\ W32 * NsPerMs = NsPerMs * W32
      BY <1>1, <2>1
  <2>5. NsPerMs * p \in Nat
      BY <1>1, <2>1
  <2> QED
      BY <1>1, <2>2, <2>3, <2>4, <2>5
<1>5. (W32 - 1) * W32 = W64 - W32 /\ W64 \in Nat
    BY <1>1
<1> HIDE DEF p, h
<1>6. /\ NsPerMs * p <= UINT64_MAX /\ NsPerMs * p + h <= UINT64_MAX
      /\ NsPerMs * p + h \in Nat
    BY <1>1, <1>3, <1>4, <1>5 DEF UINT64_MAX
<1>7. U64(U64(NsPerMs * p) + h) = NsPerMs * p + h
    BY <1>4, <1>6, NotCut
<1>8. Ratio(f, NsPerMs, sft) = (NsPerMs * p + h) \div f
    BY <1>7 DEF Ratio, p, h
<1> QED
    BY <1>1, <1>6, <1>8, Quotient DEF p, h

\* clocks_calc_mult_shift (src/util.c:79-107) finds a shift, and its factor
\* fits and is not 0.
LEMMA ScaleIsRatio ==
    ASSUME ScaleIsFine, NEW f \in 1..UINT32_MAX
    PROVE  LET s == clocks_calc_mult_shift(f, NsPerMs, 0)
           IN  /\ s.shift \in 1..Bits
               /\ s.mult = Ratio(f, NsPerMs, s.shift)
               /\ s.mult \in Nat \ {0}
<1>1. /\ Bits \in Nat \ {0} /\ NsPerMs \in Nat \ {0} /\ W32 \in Nat \ {0}
      /\ UINT32_MAX = W32 - 1 /\ W32 = 2^Bits /\ f \in Nat \ {0} /\ f < W32
      /\ 1 < NsPerMs /\ 2 * NsPerMs < W32
    BY WordTypes, ClockScaleAssumption DEF ScaleIsFine, UINT32_MAX, W32
<1> DEFINE sftacc == Bits - Halvings(U32((0 * f) \div W32))
           R(sft) == Ratio(f, NsPerMs, sft)
           fits == {sft \in 1..Bits : R(sft) \div 2^sftacc = 0}
           low == Max(fits \cup {0})
           sft == Max(fits \cup {1})
<1>2. sftacc = Bits
  <2>1. (0 * f) \div W32 = 0
      BY <1>1
  <2>2. U32(0) = 0
      BY <1>1, NotCut
  <2> QED
      BY <1>1, <2>1, <2>2 DEF Halvings
<1>3. ASSUME NEW k \in 1..Bits
      PROVE  R(k) \in Nat /\ (k \in fits <=> R(k) < W32)
  <2>1. R(k) \in Nat
      BY <1>1, RatioIs
  <2>2. R(k) \div W32 = 0 <=> R(k) < W32
    <3> HIDE DEF R
    <3>1. /\ R(k) \div W32 \in Nat /\ (R(k) \div W32) * W32 <= R(k)
          /\ R(k) < (R(k) \div W32) * W32 + W32
        BY <1>1, <2>1, Quotient
    <3>2. CASE R(k) \div W32 = 0
        BY <1>1, <2>1, <3>1, <3>2
    <3>3. CASE R(k) \div W32 >= 1
      <4>1. 1 * W32 <= (R(k) \div W32) * W32
          BY <1>1, <3>1, <3>3, ProductAscends
      <4> QED
          BY <1>1, <2>1, <3>1, <3>3, <4>1
    <3> QED
        BY <3>1, <3>2, <3>3
  <2> HIDE DEF R, sftacc
  <2> QED
      BY <1>1, <1>2, <2>1, <2>2
<1>4. 1 \in fits
  <2>1. 2^1 = 2
    <3>1. 2^(0 + 1) = 2 * 2^0
        BY PowerDoubles
    <3>2. 2^0 = 1
        OBVIOUS
    <3> QED
        BY <3>1, <3>2
  <2>2. R(1) \in Nat /\ R(1) * f <= NsPerMs * 2 + f \div 2
    <3>1. 1 \in 0..Bits
        BY <1>1
    <3>2. R(1) \in Nat /\ R(1) * f <= NsPerMs * 2^1 + f \div 2
        BY <3>1, RatioIs, Zenon
    <3> QED
        BY <2>1, <3>2
  <2>3. f \div 2 < f
      BY <1>1
  <2> HIDE DEF R
  <2>4. CASE R(1) >= W32
    <3>1. (2 * NsPerMs + 1) * f <= R(1) * f
        BY <1>1, <2>2, <2>4, ProductAscends
    <3>2. 1 * (2 * NsPerMs) <= f * (2 * NsPerMs)
        BY <1>1, ProductAscends
    <3>3. (2 * NsPerMs + 1) * f = f * (2 * NsPerMs) + f
        BY <1>1
    <3>4. f \div 2 \in Int /\ R(1) * f \in Int /\ f * (2 * NsPerMs) \in Int
        BY <1>1, <2>2
    <3> QED
        BY <1>1, <2>2, <2>3, <3>1, <3>2, <3>3, <3>4
  <2>5. 1 \in 1..Bits
      BY <1>1
  <2> HIDE DEF fits
  <2> QED
      BY <1>1, <1>3, <2>2, <2>4, <2>5
<1>5. /\ sft \in fits /\ low = sft /\ sft \in 1..Bits
      /\ \A k \in fits : k <= sft
  <2>1. fits \subseteq 1..Bits
      BY Zenon
  <2> HIDE DEF fits
  <2>2. fits \cup {1} \in SUBSET (0..Bits) /\ fits \cup {0} \in SUBSET (0..Bits)
      BY <1>1, <2>1
  <2>3. /\ sft \in fits \cup {1} /\ \A k \in fits \cup {1} : k <= sft
        /\ low \in fits \cup {0} /\ \A k \in fits \cup {0} : k <= low
      BY <1>1, <2>2, SetHasMax
  <2> HIDE DEF low, sft
  <2> QED
      BY <1>4, <2>1, <2>3
<1>6. clocks_calc_mult_shift(f, NsPerMs, 0) =
          [mult |-> U32(R(sft)), shift |-> low]
    BY Zenon DEF clocks_calc_mult_shift
<1> HIDE DEF low, sft, fits, sftacc
<1>7. R(sft) \in Nat /\ R(sft) < W32 /\ U32(R(sft)) = R(sft)
  <2>1. R(sft) \in Nat /\ R(sft) < W32
      BY <1>3, <1>5
  <2> HIDE DEF R
  <2> QED
      BY <1>1, <2>1, NotCut
<1>8. R(sft) # 0
  <2> DEFINE p == 2^sft
             h == f \div 2
  <2>1. /\ p \in Nat /\ h \in Nat /\ 2 * h <= f /\ f <= 2 * h + 1
        /\ R(sft) * f <= NsPerMs * p + h /\ NsPerMs * p + h < R(sft) * f + f
        /\ NsPerMs * p \in Nat
    <3>1. sft \in 0..Bits /\ sft \in Nat
        BY <1>1, <1>5
    <3>2. p \in Nat /\ h \in Nat
        BY <1>1, <3>1, PowerOfTwo
    <3>3. R(sft) * f <= NsPerMs * p + h /\ NsPerMs * p + h < R(sft) * f + f
        BY <3>1, RatioIs, Zenon
    <3>4. 2 * h <= f /\ f <= 2 * h + 1
        BY <1>1
    <3> HIDE DEF p, h, R
    <3> QED
        BY <1>1, <3>2, <3>3, <3>4
  <2>2. CASE sft = Bits
    <3>1. 2 * W32 <= NsPerMs * W32
        BY <1>1, ProductAscends
    <3>2. p = W32
        BY <1>1, <2>2
    <3> HIDE DEF p, h, R
    <3>3. CASE R(sft) = 0
      <4>1. R(sft) * f = 0
          BY <1>1, <3>3
      <4> QED
          BY <1>1, <2>1, <3>1, <3>2, <4>1
    <3> QED
        BY <3>3
  <2>3. CASE sft # Bits
    <3>1. sft + 1 \in 1..Bits /\ sft + 1 \in 0..Bits /\ sft \in Nat /\ ~(sft + 1 <= sft)
        BY <1>1, <1>5, <2>3
    <3>2. R(sft + 1) \in Nat /\ R(sft + 1) >= W32
      <4>1. sft + 1 \notin fits
          BY <1>5, <3>1
      <4>2. R(sft + 1) \in Nat /\ ~(R(sft + 1) < W32)
          BY <1>3, <3>1, <4>1
      <4> HIDE DEF R
      <4> QED
          BY <1>1, <4>2
    <3>3. 2^(sft + 1) = 2 * p
        BY <3>1, PowerDoubles
    <3>4. R(sft + 1) * f <= NsPerMs * (2 * p) + h
        BY <3>1, <3>3, RatioIs
    <3> HIDE DEF p, h, R
    <3>5. NsPerMs * (2 * p) = 2 * (NsPerMs * p)
        BY <1>1, <2>1
    <3>6. 2 * f <= R(sft + 1) * f
        BY <1>1, <3>2, ProductAscends
    <3>7. CASE R(sft) = 0
      <4>1. R(sft) * f = 0
          BY <1>1, <3>7
      <4>2. R(sft + 1) * f \in Int
          BY <1>1, <3>2
      <4> QED
          BY <1>1, <2>1, <3>4, <3>5, <3>6, <4>1, <4>2
    <3> QED
        BY <3>7
  <2> QED
      BY <2>2, <2>3
<1> QED
    BY <1>5, <1>6, <1>7, <1>8

\* The factors are near to the quotient of the period and the frequency, those
\* of clocks_calc_mult_shift and those of the kernel, which may have lost a bit.
LEMMA FactorIsNear ==
    ASSUME ScaleIsFine, NEW f \in 1..UINT32_MAX,
           NEW s \in {clocks_calc_mult_shift(f, NsPerMs, 0), KernelScale(f)}
    PROVE  LET p == 2^s.shift
           IN  /\ s.mult \in Nat \ {0} /\ s.shift \in Nat
               /\ p \in Nat /\ 2 <= p
               /\ 4 * (NsPerMs * p) <= 4 * (s.mult * f) + 3 * f
               /\ 4 * (s.mult * f) <= 4 * (NsPerMs * p) + 2 * f
<1> DEFINE t == clocks_calc_mult_shift(f, NsPerMs, 0)
           m == t.mult
           p == 2^t.shift
           h == f \div 2
<1>1. /\ Bits \in Nat \ {0} /\ NsPerMs \in Nat \ {0} /\ W32 \in Nat \ {0}
      /\ W32 = 2^Bits /\ f \in Nat \ {0} /\ f < W32
      /\ 1 < NsPerMs /\ 2 * NsPerMs < W32
    BY WordTypes, ClockScaleAssumption DEF ScaleIsFine, UINT32_MAX, W32
<1>2. t.shift \in 1..Bits /\ m = Ratio(f, NsPerMs, t.shift) /\ m \in Nat \ {0}
    BY ScaleIsRatio
<1>3. t.shift \in 0..Bits /\ t.shift \in Nat /\ t.shift - 1 \in Nat
    BY <1>1, <1>2
<1>4. m * f <= NsPerMs * p + h /\ NsPerMs * p + h < m * f + f
    BY <1>2, <1>3, RatioIs, Zenon
<1>5. p \in Nat /\ 2 <= p
  <2>1. 2^(t.shift - 1) \in Nat \ {0}
      BY <1>3, PowerOfTwo
  <2>2. (t.shift - 1) + 1 = t.shift
      BY <1>3
  <2>3. p = 2 * 2^(t.shift - 1)
      BY <1>3, <2>2, PowerDoubles
  <2> HIDE DEF p
  <2> QED
      BY <2>1, <2>3
<1>6. h \in Nat /\ 2 * h <= f /\ f <= 2 * h + 1
    BY <1>1
<1>7. 2 * (NsPerMs * p) <= 2 * (m * f) + f /\ 2 * (m * f) <= 2 * (NsPerMs * p) + f
  <2> HIDE DEF t, m, p, h
  <2>1. NsPerMs * p \in Int /\ m * f \in Int
      BY <1>1, <1>2, <1>5
  <2> QED
      BY <1>1, <1>4, <1>6, <2>1
<1>8. CASE s = t
  <2>1. NsPerMs * p \in Int /\ m * f \in Int
    <3> HIDE DEF t, m, p
    <3> QED
        BY <1>1, <1>2, <1>5
  <2>2. s.mult = m /\ s.shift = t.shift /\ 2^s.shift = p
      BY <1>8
  <2> HIDE DEF t, m, p, h
  <2> QED
      BY <1>1, <1>2, <1>3, <1>5, <1>7, <2>1, <2>2
<1>9. CASE s = KernelScale(f) /\ s # t
  <2>1. s = [mult |-> m \div 2, shift |-> Bits - 1] /\ t.shift = Bits
    <3>1. KernelScale(f) = IF t.shift < Bits THEN t
                           ELSE [mult |-> m \div 2, shift |-> Bits - 1]
        BY DEF KernelScale
    <3> HIDE DEF t, m
    <3> QED
        BY <1>1, <1>2, <1>9, <3>1
  <2> DEFINE half == m \div 2
             q == 2^(Bits - 1)
  <2>2. Bits - 1 \in Nat /\ (Bits - 1) + 1 = Bits
      BY <1>1
  <2>3. q \in Nat /\ p = 2 * q /\ p = W32
      BY <1>1, <2>1, <2>2, PowerOfTwo, PowerDoubles
  <2>4. 2 <= q
    <3> HIDE DEF p, q
    <3> QED
        BY <1>1, <2>3
  <2>5. half \in Nat /\ 2 * half <= m /\ m <= 2 * half + 1
      BY <1>2
  <2> HIDE DEF t, m, p, h, half, q
  <2>6. NsPerMs * p \in Int /\ m * f \in Int /\ half * f \in Int /\ NsPerMs * q \in Int
      BY <1>1, <1>2, <1>5, <2>3, <2>5
  <2>7. half # 0
    <3>1. CASE m = 1
      <4>1. 2 * W32 <= NsPerMs * W32
          BY <1>1, ProductAscends
      <4>2. NsPerMs * p = NsPerMs * W32 /\ m * f = f
          BY <1>1, <2>3, <3>1
      <4> QED
          BY <1>1, <1>7, <2>6, <4>1, <4>2
    <3> QED
        BY <1>2, <2>5, <3>1
  <2>8. NsPerMs * p = 2 * (NsPerMs * q)
      BY <1>1, <2>3
  <2>9. 2 * (half * f) <= m * f /\ m * f <= 2 * (half * f) + f
    <3>1. (2 * half) * f <= m * f /\ m * f <= (2 * half + 1) * f
        BY <1>1, <1>2, <2>5, ProductAscends
    <3>2. (2 * half) * f = 2 * (half * f) /\ (2 * half + 1) * f = 2 * (half * f) + f
        BY <1>1, <2>5
    <3> QED
        BY <3>1, <3>2
  <2>10. /\ 4 * (NsPerMs * q) <= 4 * (half * f) + 3 * f
         /\ 4 * (half * f) <= 4 * (NsPerMs * q) + 2 * f
      BY <1>1, <1>7, <2>6, <2>8, <2>9
  <2>11. s.mult = half /\ s.shift = Bits - 1 /\ 2^s.shift = q
      BY <2>1 DEF half, q
  <2> QED
      BY <2>2, <2>3, <2>4, <2>5, <2>7, <2>10, <2>11
<1> QED
    BY <1>8, <1>9

\* A factor that is not 0 can be taken away.
LEMMA ProductCancels ==
    ASSUME NEW x \in Int, NEW y \in Int, NEW z \in Nat \ {0}, x * z <= y * z
    PROVE  x <= y
<1>1. CASE y + 1 <= x
  <2>1. (y + 1) * z <= x * z /\ (y + 1) * z = y * z + z
      BY <1>1, ProductAscends
  <2>2. x * z \in Int /\ y * z \in Int
      OBVIOUS
  <2> QED
      BY <2>1, <2>2
<1> QED
    BY <1>1

\* c ticks that took e nanoseconds are at a frequency f not converted to more
\* than e, the ticks' own length, a part of the factor's rounding, and 2.
LEMMA NotLonger ==
    ASSUME NEW M \in Nat \ {0}, NEW f \in Nat \ {0}, NEW m \in Nat \ {0},
           NEW p \in Nat, 2 <= p, 4 * (m * f) <= 4 * (M * p) + 2 * f,
           NEW c \in Nat, NEW e \in Nat, c * M <= e * f + M - 1
    PROVE  (c * m) \div p <= e + M \div f + e \div m + 2
<1> DEFINE raw == (c * m) \div p
           q1 == M \div f
           q2 == e \div m
           x == m * f
           y == M * p
<1>1. /\ raw \in Nat /\ raw * p <= c * m
      /\ q1 \in Nat /\ M < q1 * f + f
      /\ q2 \in Nat /\ e < q2 * m + m
    BY Quotient
<1>2. /\ x \in Nat /\ y \in Nat /\ f <= x /\ 2 * M <= y
      /\ 4 * x <= 4 * y + 2 * f
  <2>1. 1 * f <= m * f /\ 2 * M <= p * M
      BY ProductAscends
  <2> QED
      BY <2>1
<1> HIDE DEF raw, q1, q2
<1>3. e * f <= q2 * x + x - f
  <2>1. e * f <= (q2 * m + m - 1) * f
      BY <1>1, ProductAscends
  <2>2. (q2 * m + m - 1) * f = q2 * (m * f) + m * f - f
      BY <1>1
  <2> QED
      BY <2>1, <2>2
<1>4. 2 * c <= p * (4 * q2 + 3)
  <2>1. q2 * f <= q2 * x /\ q2 * (4 * x) <= q2 * (4 * y + 2 * f)
    <3>1. f * q2 <= x * q2 /\ (4 * x) * q2 <= (4 * y + 2 * f) * q2
        BY <1>1, <1>2, ProductAscends
    <3> HIDE DEF x, y
    <3> QED
        BY <1>1, <1>2, <3>1
  <2> HIDE DEF x, y
  <2>2. /\ q2 * (4 * x) = 4 * (q2 * x)
        /\ q2 * (4 * y + 2 * f) = 4 * (q2 * y) + 2 * (q2 * f)
        /\ q2 * x \in Int /\ q2 * y \in Int /\ q2 * f \in Int
      BY <1>1, <1>2
  <2>3. c * M \in Int /\ e * f \in Int
      OBVIOUS
  <2>4. 2 * (c * M) <= 4 * (q2 * y) + 3 * y
      BY <1>2, <1>3, <2>1, <2>2, <2>3
  <2>5. (2 * c) * M <= (p * (4 * q2 + 3)) * M
    <3>1. (p * (4 * q2 + 3)) * M = 4 * (q2 * y) + 3 * y
        BY <1>1 DEF y
    <3> QED
        BY <2>4, <3>1
  <2>6. p * (4 * q2 + 3) \in Int
      BY <1>1
  <2> QED
      BY <2>5, <2>6, ProductCancels
<1>5. 4 * (raw * f) <= 4 * (e * f) + 4 * M - 4 + (4 * q2 + 3) * f
  <2>1. (raw * p) * f <= c * x
    <3>1. (raw * p) * f <= (c * m) * f
        BY <1>1, ProductAscends
    <3> QED
        BY <3>1
  <2>2. (4 * x) * c <= (4 * y + 2 * f) * c
      BY <1>2, ProductAscends
  <2>3. (c * M) * p <= (e * f + M - 1) * p
      BY ProductAscends
  <2>4. (2 * c) * f <= (p * (4 * q2 + 3)) * f
    <3>1. p * (4 * q2 + 3) \in Int
        BY <1>1
    <3> QED
        BY <1>4, <3>1, ProductAscends
  <2>5. y * c = (c * M) * p
      OBVIOUS
  <2> HIDE DEF x, y
  <2>6. /\ (4 * x) * c = 4 * (c * x) /\ (4 * y + 2 * f) * c = 4 * (y * c) + (2 * c) * f
        /\ c * x \in Int /\ y * c \in Int /\ (2 * c) * f \in Int
        /\ (raw * p) * f \in Int
      BY <1>1, <1>2
  <2>7. 4 * ((raw * p) * f) <= 4 * ((e * f + M - 1) * p) + (p * (4 * q2 + 3)) * f
    <3> DEFINE long == (e * f + M - 1) * p
               more == (p * (4 * q2 + 3)) * f
               raws == (raw * p) * f
               cf == (2 * c) * f
               cx == c * x
               yc == y * c
    <3>1. long \in Int /\ more \in Int
        BY <1>1
    <3>2. /\ cx \in Int /\ yc \in Int /\ cf \in Int /\ raws \in Int
          /\ 4 * cx <= 4 * yc + cf /\ yc <= long /\ cf <= more /\ raws <= cx
        BY <2>1, <2>2, <2>3, <2>4, <2>5, <2>6, Zenon
    <3> HIDE DEF long, more, raws, cf, cx, yc
    <3>3. 4 * raws <= 4 * long + more
        BY <3>1, <3>2
    <3> QED
        BY <3>3 DEF long, more, raws
  <2> DEFINE u == 4 * (raw * f)
             v == 4 * (e * f) + 4 * M - 4 + (4 * q2 + 3) * f
  <2>8. u \in Int /\ v \in Int
      BY <1>1
  <2>9. u * p = 4 * ((raw * p) * f)
      BY <1>1
  <2>10. v * p = 4 * ((e * f + M - 1) * p) + (p * (4 * q2 + 3)) * f
      BY <1>1
  <2> HIDE DEF u, v
  <2>11. u * p <= v * p
      BY <2>7, <2>9, <2>10
  <2>12. u <= v
      BY <2>8, <2>11, ProductCancels
  <2> QED
      BY <2>12 DEF u, v
<1>6. CASE raw >= e + q1 + q2 + 3
  <2>1. (e + q1 + q2 + 3) * f <= raw * f
      BY <1>1, <1>6, ProductAscends
  <2>2. /\ (e + q1 + q2 + 3) * f = e * f + q1 * f + q2 * f + 3 * f
        /\ (4 * q2 + 3) * f = 4 * (q2 * f) + 3 * f
        /\ e * f \in Int /\ q1 * f \in Int /\ q2 * f \in Int /\ raw * f \in Int
      BY <1>1
  <2> QED
      BY <1>1, <1>5, <2>1, <2>2
<1> QED
    BY <1>1, <1>6 DEF raw, q1, q2

\* Nor are they converted to less.
LEMMA NotShorter ==
    ASSUME NEW M \in Nat \ {0}, NEW f \in Nat \ {0}, NEW m \in Nat \ {0},
           NEW p \in Nat, 2 <= p, 4 * (M * p) <= 4 * (m * f) + 3 * f,
           NEW c \in Nat, NEW e \in Nat,
           c * M <= e * f + M - 1, e * f <= c * M + M - 1
    PROVE  e <= (c * m) \div p + M \div f + e \div m + 2
<1> DEFINE raw == (c * m) \div p
           q1 == M \div f
           q2 == e \div m
           x == m * f
           y == M * p
<1>1. /\ raw \in Nat /\ c * m < raw * p + p
      /\ q1 \in Nat /\ M < q1 * f + f
      /\ q2 \in Nat /\ e < q2 * m + m
    BY Quotient
<1>2. /\ x \in Nat /\ y \in Nat /\ 2 * M <= y /\ 4 * y <= 4 * x + 3 * f
  <2>1. 2 * M <= p * M
      BY ProductAscends
  <2> QED
      BY <2>1
<1> HIDE DEF raw, q1, q2
<1>3. e * f <= q2 * x + x - f
  <2>1. e * f <= (q2 * m + m - 1) * f
      BY <1>1, ProductAscends
  <2>2. (q2 * m + m - 1) * f = q2 * (m * f) + m * f - f
      BY <1>1
  <2> QED
      BY <2>1, <2>2
<1>4. ASSUME NEW L \in Nat, NEW K \in Nat,
             8 * ((e * f - L) * p) - 3 * ((p * K) * f) <= 8 * (x * c)
      PROVE  8 * (e * f) <= 8 * (raw * f) + 8 * L + 3 * (K * f) + 8 * f
  <2>1. x * c <= (raw * p + p) * f
    <3>1. (c * m) * f <= (raw * p + p) * f
        BY <1>1, ProductAscends
    <3> QED
        BY <3>1
  <2> DEFINE u == 8 * (e * f) - 8 * L - 3 * (K * f)
             v == 8 * (raw * f) + 8 * f
  <2>2. u \in Int /\ v \in Int
      BY <1>1
  <2>3. u * p = 8 * ((e * f - L) * p) - 3 * ((p * K) * f)
      OBVIOUS
  <2>4. v * p = 8 * ((raw * p + p) * f)
      BY <1>1
  <2>5. x * c \in Int /\ (raw * p + p) * f \in Int
      BY <1>1
  <2> HIDE DEF u, v, x
  <2>6. u * p <= v * p
    <3> DEFINE xc == x * c
               far == (raw * p + p) * f
    <3>1. xc \in Int /\ far \in Int /\ xc <= far
        BY <2>1, <2>5
    <3>2. u * p <= 8 * xc /\ v * p = 8 * far /\ u * p \in Int
        BY <1>4, <2>2, <2>3, <2>4
    <3> HIDE DEF xc, far
    <3> QED
        BY <3>1, <3>2
  <2>7. u <= v
      BY <2>2, <2>6, ProductCancels
  <2>8. e * f \in Int /\ raw * f \in Int /\ K * f \in Int
      BY <1>1
  <2> QED
      BY <2>7, <2>8 DEF u, v
<1>5. ASSUME NEW L \in Nat, NEW K \in Nat, e * f - L <= c * M, 2 * c <= p * K
      PROVE  8 * ((e * f - L) * p) - 3 * ((p * K) * f) <= 8 * (x * c)
  <2>1. (4 * y) * c <= (4 * x + 3 * f) * c
      BY <1>2, ProductAscends
  <2>2. (e * f - L) * p <= (c * M) * p
      BY <1>5, ProductAscends
  <2>3. (2 * c) * f <= (p * K) * f
      BY <1>5, ProductAscends
  <2>4. (c * M) * p = y * c
      OBVIOUS
  <2> HIDE DEF x, y
  <2>5. (4 * y) * c = 4 * (y * c) /\ (4 * x + 3 * f) * c = 4 * (x * c) + 3 * (f * c)
      BY <1>2
  <2>6. (2 * c) * f = 2 * (f * c)
      OBVIOUS
  <2> DEFINE yc == y * c
             xc == x * c
             fc == f * c
             near == (e * f - L) * p
             more == (p * K) * f
  <2>7. /\ yc \in Int /\ xc \in Int /\ fc \in Int /\ near \in Int /\ more \in Int
      BY <1>2
  <2>8. 4 * yc <= 4 * xc + 3 * fc /\ near <= yc /\ 2 * fc <= more
      BY <2>1, <2>2, <2>3, <2>4, <2>5, <2>6, Zenon
  <2> HIDE DEF yc, xc, fc, near, more
  <2>9. 8 * near - 3 * more <= 8 * xc
      BY <2>7, <2>8
  <2> QED
      BY <2>9 DEF near, more, xc
<1>6. /\ e * f \in Nat /\ raw * f \in Nat /\ q1 * f \in Nat /\ q2 * f \in Nat
      /\ c * M \in Nat
      /\ (2 * q2 + 3) * f = 2 * (q2 * f) + 3 * f
      /\ (2 * q2 + 2) * f = 2 * (q2 * f) + 2 * f
    BY <1>1
<1>7. ASSUME NEW L \in Nat, NEW K \in {0, 2 * q2 + 2, 2 * q2 + 3},
             8 * (e * f) <= 8 * (raw * f) + 8 * L + 3 * (K * f) + 8 * f,
             L = 0 \/ (L = M - 1 /\ K # 2 * q2 + 3)
      PROVE  e <= raw + q1 + q2 + 2
  <2>1. CASE e >= raw + q1 + q2 + 3
    <3>1. (raw + q1 + q2 + 3) * f <= e * f
        BY <1>1, <2>1, ProductAscends
    <3>2. (raw + q1 + q2 + 3) * f = raw * f + q1 * f + q2 * f + 3 * f
        BY <1>1
    <3>3. 0 * f = 0 /\ K * f \in {0, 2 * (q2 * f) + 3 * f, 2 * (q2 * f) + 2 * f}
          /\ (K # 2 * q2 + 3 => K * f <= 2 * (q2 * f) + 2 * f)
        BY <1>1, <1>6
    <3> QED
        BY <1>1, <1>6, <1>7, <3>1, <3>2, <3>3
  <2> QED
      BY <1>1, <2>1
<1>8. CASE y <= x
  <2>1. y * c <= x * c
      BY <1>2, <1>8, ProductAscends
  <2>2. (e * f - (M - 1)) * p <= (c * M) * p
      BY <1>6, ProductAscends
  <2>3. (c * M) * p = y * c /\ (p * 0) * f = 0
      OBVIOUS
  <2>4. y * c \in Int /\ x * c \in Int /\ (e * f - (M - 1)) * p \in Int
      OBVIOUS
  <2>5. 8 * ((e * f - (M - 1)) * p) - 3 * ((p * 0) * f) <= 8 * (x * c)
    <3> DEFINE near == (e * f - (M - 1)) * p
               yc == y * c
               xc == x * c
    <3>1. near \in Int /\ yc \in Int /\ xc \in Int /\ yc <= xc /\ near <= yc
        BY <2>1, <2>2, <2>3, <2>4
    <3> HIDE DEF near, yc, xc
    <3>2. 8 * near - 3 * 0 <= 8 * xc
        BY <3>1
    <3> QED
        BY <2>3, <3>2 DEF near, xc
  <2>6. M - 1 \in Nat
      OBVIOUS
  <2> HIDE DEF x, y
  <2>7. 8 * (e * f) <= 8 * (raw * f) + 8 * (M - 1) + 3 * (0 * f) + 8 * f
      BY <1>4, <2>5, <2>6
  <2>8. 0 # 2 * q2 + 3
      BY <1>1
  <2>9. e <= raw + q1 + q2 + 2
      BY <1>7, <2>6, <2>7, <2>8
  <2> QED
      BY <2>9 DEF raw, q1, q2
<1>9. CASE x < y
  <2>1. q2 * x <= q2 * y
    <3>1. x * q2 <= y * q2
        BY <1>1, <1>2, <1>9, ProductAscends
    <3> HIDE DEF x, y
    <3> QED
        BY <1>1, <1>2, <3>1
  <2>2. q2 * x \in Int /\ q2 * y \in Int
      BY <1>1
  <2>3. e * f <= q2 * y + y
    <3> HIDE DEF x, y
    <3> QED
        BY <1>2, <1>3, <1>6, <1>9, <2>1, <2>2
  <2>4. /\ (p * (2 * q2 + 3)) * M = 2 * (q2 * y) + 3 * y
        /\ (p * (2 * q2 + 2)) * M = 2 * (q2 * y) + 2 * y
        /\ p * (2 * q2 + 3) \in Int /\ p * (2 * q2 + 2) \in Int
      BY <1>1
  <2> HIDE DEF x, y
  <2>5. (2 * c) * M = 2 * (c * M)
      OBVIOUS
  <2>6. CASE e * f <= c * M
    <3>1. (2 * c) * M <= (p * (2 * q2 + 3)) * M
        BY <1>2, <1>6, <2>2, <2>3, <2>4, <2>5
    <3>2. 2 * c <= p * (2 * q2 + 3)
        BY <2>4, <3>1, ProductCancels
    <3>3. 2 * q2 + 3 \in Nat /\ e * f - 0 <= c * M
        BY <1>1, <1>6, <2>6
    <3>4. 8 * (e * f) <= 8 * (raw * f) + 8 * 0 + 3 * ((2 * q2 + 3) * f) + 8 * f
        BY <1>4, <1>5, <3>2, <3>3
    <3>5. e <= raw + q1 + q2 + 2
        BY <1>7, <3>4
    <3> QED
        BY <3>5 DEF raw, q1, q2
  <2>7. CASE c * M <= e * f
    <3>1. (2 * c) * M <= (p * (2 * q2 + 2)) * M
        BY <1>2, <1>6, <2>2, <2>3, <2>4, <2>5, <2>7
    <3>2. 2 * c <= p * (2 * q2 + 2)
        BY <2>4, <3>1, ProductCancels
    <3>3. 2 * q2 + 2 \in Nat /\ e * f - (M - 1) <= c * M /\ M - 1 \in Nat
        BY <1>1, <1>6
    <3>4. 8 * (e * f) <= 8 * (raw * f) + 8 * (M - 1) + 3 * ((2 * q2 + 2) * f) + 8 * f
        BY <1>4, <1>5, <3>2, <3>3
    <3>5. e <= raw + q1 + q2 + 2
      <4>1. 2 * q2 + 2 # 2 * q2 + 3
          BY <1>1
      <4> QED
          BY <1>7, <3>3, <3>4, <4>1
    <3> QED
        BY <3>5 DEF raw, q1, q2
  <2> QED
      BY <1>6, <2>6, <2>7
<1> QED
    BY <1>2, <1>8, <1>9

\* The ticks between two times are their distance at the frequency f, less or
\* more than one tick: both readings are rounded down.
LEMMA ElapsedTicks ==
    ASSUME NEW M \in Nat \ {0}, NEW f \in Nat \ {0},
           NEW s \in Nat, NEW t \in Nat, s <= t
    PROVE  LET c == (t * f) \div M - (s * f) \div M
           IN  /\ c \in Nat
               /\ c * M <= (t - s) * f + M - 1
               /\ (t - s) * f <= c * M + M - 1
<1> DEFINE u == (t * f) \div M
           v == (s * f) \div M
<1>1. /\ u \in Nat /\ v \in Nat
      /\ u * M <= t * f /\ t * f < u * M + M
      /\ v * M <= s * f /\ s * f < v * M + M
    BY Quotient
<1>2. s * f <= t * f /\ s * f \in Int /\ t * f \in Int
    BY ProductAscends
<1>3. (t - s) * f = t * f - s * f
    OBVIOUS
<1> HIDE DEF u, v
<1>4. (u - v) * M = u * M - v * M /\ u * M \in Int /\ v * M \in Int
    BY <1>1
<1>5. v <= u
  <2>1. CASE u + 1 <= v
    <3>1. (u + 1) * M <= v * M /\ (u + 1) * M = u * M + M
        BY <1>1, <2>1, ProductAscends
    <3> QED
        BY <1>1, <1>2, <1>4, <3>1
  <2> QED
      BY <1>1, <2>1
<1>6. /\ u - v \in Nat
      /\ (u - v) * M <= (t - s) * f + M - 1
      /\ (t - s) * f <= (u - v) * M + M - 1
    BY <1>1, <1>2, <1>3, <1>4, <1>5
<1> QED
    BY <1>6 DEF u, v

\* The duration between two times is converted within Slack, and has 64 bits.
LEMMA DurationConverted ==
    ASSUME ScaleIsFine, CallsFit, tsc_khz \in 1..UINT32_MAX, ScaleFollows,
           mainPc = "read", NEW s \in Nat, NEW t \in Nat, s <= t,
           t - s <= MaxTick * (3 * Samples + 1)
    PROVE  /\ tsc2ns(Tsc(t) - Tsc(s)) \in Nat
           /\ AbsDiff(tsc2ns(Tsc(t) - Tsc(s)), t - s) <= Slack(t - s)
           /\ Slack(t - s) \in Nat
<1> DEFINE c == (t * tsc_khz) \div NsPerMs - (s * tsc_khz) \div NsPerMs
           e == t - s
           m == scale.mult
           p == 2^scale.shift
           q1 == NsPerMs \div tsc_khz
           q2 == e \div m
           raw == (c * m) \div p
<1>1. /\ NsPerMs \in Nat \ {0} /\ tsc_khz \in Nat \ {0} /\ e \in Nat
      /\ UINT64_MAX \in Int /\ MaxTick \in Nat /\ Samples \in Nat
    BY WordTypes, ClockScaleAssumption, PtpOffsetAssumption DEF UINT64_MAX
<1>2. /\ m \in Nat \ {0} /\ p \in Nat /\ 2 <= p
      /\ 4 * (NsPerMs * p) <= 4 * (m * tsc_khz) + 3 * tsc_khz
      /\ 4 * (m * tsc_khz) <= 4 * (NsPerMs * p) + 2 * tsc_khz
  <2>1. scale \in {clocks_calc_mult_shift(tsc_khz, NsPerMs, 0), KernelScale(tsc_khz)}
      BY DEF ScaleFollows
  <2> QED
      BY <2>1, FactorIsNear
<1>3. /\ c \in Nat /\ c * NsPerMs <= e * tsc_khz + NsPerMs - 1
      /\ e * tsc_khz <= c * NsPerMs + NsPerMs - 1
    BY <1>1, ElapsedTicks
<1> HIDE DEF c, e, m, p
<1>4. raw <= e + q1 + q2 + 2
    BY <1>1, <1>2, <1>3, NotLonger
<1>5. e <= raw + q1 + q2 + 2
    BY <1>1, <1>2, <1>3, NotShorter
<1>6. raw \in Nat /\ q1 \in Nat /\ q2 \in Nat /\ q1 <= NsPerMs /\ q2 <= e
  <2>1. raw \in Nat /\ q1 \in Nat /\ q2 \in Nat
      BY <1>1, <1>2, <1>3, Quotient
  <2>2. q1 * tsc_khz <= NsPerMs /\ q2 * m <= e
      BY <1>1, <1>2, Quotient
  <2> HIDE DEF raw, q1, q2
  <2>3. 1 * q1 <= tsc_khz * q1 /\ 1 * q2 <= m * q2
      BY <1>1, <1>2, <2>1, ProductAscends
  <2>4. /\ tsc_khz * q1 = q1 * tsc_khz /\ m * q2 = q2 * m
        /\ q1 * tsc_khz \in Int /\ q2 * m \in Int
      BY <1>1, <1>2, <2>1
  <2> QED
      BY <1>1, <2>1, <2>2, <2>3, <2>4
<1> HIDE DEF raw, q1, q2
<1>7. raw <= UINT64_MAX
  <2>1. MaxTick * (3 * Samples + 1) \in Int
      BY <1>1
  <2>2. 2 * e + NsPerMs + 2 <= UINT64_MAX
      BY <1>1, <2>1 DEF CallsFit, e
  <2> QED
      BY <1>1, <1>4, <1>6, <2>2
<1>8. tsc2ns(Tsc(t) - Tsc(s)) = raw
  <2>1. U64(raw) = raw
      BY <1>6, <1>7, NotCut
  <2> QED
      BY <2>1 DEF tsc2ns, Tsc, mul_u64_u32_shr, raw, c, m, p
<1>9. Slack(t - s) = q1 + q2 + 2
    BY DEF Slack, q1, q2, e, m
<1>10. AbsDiff(raw, e) <= q1 + q2 + 2
    BY <1>1, <1>4, <1>5, <1>6 DEF AbsDiff
<1> QED
    BY <1>6, <1>8, <1>9, <1>10 DEF e
-----------------------------------------------------------------------------
(***************************************************************************)
(* The delays of the rows                                                  *)
(***************************************************************************)

\* A set of numbers has a least one.
LEMMA HasLeast ==
    ASSUME NEW S, S \subseteq Nat, S # {}
    PROVE  \E m \in S : \A l \in S : ~(l < m)
<1>1. \E m \in S : \A l \in S : ~(<<l, m>> \in OpToRel(<, Nat))
    BY NatLessThanWellFounded, WFMin, Zenon
<1> QED
    BY <1>1 DEF OpToRel

\* The partial sums of an array exist: otherwise there would be a first one that
\* does not.
LEMMA PartialSumsExist ==
    ASSUME NEW n \in Nat, NEW d \in [1..n -> Nat]
    PROVE  \E sum \in [0..n -> Nat] :
              sum = [k \in 0..n |-> IF k = 0 THEN 0 ELSE sum[k - 1] + d[k]]
<1> DEFINE Sums(m, sum) ==
               sum = [k \in 0..m |-> IF k = 0 THEN 0 ELSE sum[k - 1] + d[k]]
           Missing == {m \in 0..n : \A sum \in [0..m -> Nat] : ~Sums(m, sum)}
<1>1. CASE Missing = {}
  <2>1. n \in 0..n /\ n \notin Missing
    <3> HIDE DEF Missing
    <3> QED
        BY <1>1
  <2>2. \E sum \in [0..n -> Nat] : Sums(n, sum)
    <3> HIDE DEF Sums
    <3> QED
        BY <2>1
  <2> QED
      BY <2>2
<1>2. CASE Missing # {}
  <2>1. Missing \subseteq Nat
      OBVIOUS
  <2>2. \E m \in Missing : \A l \in Missing : ~(l < m)
    <3> HIDE DEF Missing
    <3> QED
        BY <1>2, <2>1, HasLeast
  <2>3. PICK m \in Missing : \A l \in Missing : ~(l < m)
      BY <2>2
  <2>4. m \in 0..n /\ \A sum \in [0..m -> Nat] : ~Sums(m, sum)
      OBVIOUS
  <2>5. CASE m = 0
    <3> DEFINE sum == [k \in 0..0 |-> 0]
    <3>1. sum \in [0..m -> Nat] /\ Sums(m, sum)
        BY <2>5
    <3> HIDE DEF sum, Sums
    <3> QED
        BY <2>4, <3>1
  <2>6. CASE m # 0
    <3>1. m - 1 \in 0..n /\ m - 1 < m /\ m \in 1..n
        BY <2>4, <2>6
    <3>2. PICK old \in [0..(m - 1) -> Nat] : Sums(m - 1, old)
        BY <2>3, <3>1
    <3> DEFINE sum == [k \in 0..m |-> IF k = m THEN old[m - 1] + d[m] ELSE old[k]]
    <3>3. /\ sum \in [0..m -> Nat] /\ sum[m] = sum[m - 1] + d[m]
          /\ \A k \in 0..(m - 1) : sum[k] = old[k]
        BY <3>1, <3>2
    <3>4. \A k \in 0..m : sum[k] = IF k = 0 THEN 0 ELSE sum[k - 1] + d[k]
      <4>1. ASSUME NEW k \in 0..(m - 1)
            PROVE  sum[k] = IF k = 0 THEN 0 ELSE sum[k - 1] + d[k]
        <5> HIDE DEF sum
        <5>1. old[k] = IF k = 0 THEN 0 ELSE old[k - 1] + d[k]
            BY <3>2
        <5>2. k # 0 => k - 1 \in 0..(m - 1)
            BY <3>1
        <5> QED
            BY <3>3, <5>1, <5>2
      <4> HIDE DEF sum
      <4> QED
          BY <2>4, <2>6, <3>3, <4>1
    <3>5. Sums(m, sum)
      <4> HIDE DEF sum
      <4> QED
          BY <3>3, <3>4
    <3> HIDE DEF sum, Sums
    <3> QED
        BY <2>4, <3>3, <3>5
  <2> QED
      BY <2>5, <2>6
<1> QED
    BY <1>1, <1>2

\* The total of the delays stays within whatever grows by at least as much with
\* each row: otherwise there would be a first row where it does not.
LEMMA TotalDelayIsWithin ==
    ASSUME NEW s \in Seq([off : Int, delay : Nat]),
           NEW reach \in [0..Len(s) -> Nat],
           \A k \in 1..Len(s) : reach[k - 1] + s[k].delay <= reach[k]
    PROVE  TotalDelay(s) \in Nat /\ TotalDelay(s) <= reach[Len(s)]
<1> DEFINE Sums(sum) ==
               sum = [k \in 0..Len(s) |-> IF k = 0 THEN 0
                                         ELSE sum[k - 1] + s[k].delay]
           chosen == CHOOSE sum : Sums(sum)
           Differ == {k \in 0..Len(s) : ~(chosen[k] \in Nat /\ chosen[k] <= reach[k])}
<1>1. Len(s) \in Nat /\ \A k \in 1..Len(s) : s[k].delay \in Nat
  <2>1. Len(s) \in Nat /\ \A k \in 1..Len(s) : s[k] \in [off : Int, delay : Nat]
      BY LenProperties, ElementOfSeq
  <2> QED
      BY <2>1
<1>2. \E sum : Sums(sum)
  <2> DEFINE d == [k \in 1..Len(s) |-> s[k].delay]
  <2>1. d \in [1..Len(s) -> Nat]
      BY <1>1
  <2>2. PICK sum \in [0..Len(s) -> Nat] :
            sum = [k \in 0..Len(s) |-> IF k = 0 THEN 0 ELSE sum[k - 1] + d[k]]
    <3> HIDE DEF d
    <3> QED
        BY <1>1, <2>1, PartialSumsExist
  <2>3. \A k \in 0..Len(s) : k # 0 => d[k] = s[k].delay
      BY <1>1
  <2>4. Sums(sum)
    <3> HIDE DEF d
    <3> QED
        BY <2>2, <2>3
  <2> QED
      BY <2>4
<1>3. Sums(chosen)
  <2> HIDE DEF Sums
  <2> QED
      BY <1>2
<1>4. TotalDelay(s) = chosen[Len(s)]
    BY DEF TotalDelay
<1> HIDE DEF chosen
<1>5. \A k \in 0..Len(s) :
          chosen[k] = IF k = 0 THEN 0 ELSE chosen[k - 1] + s[k].delay
    BY <1>3
<1>6. CASE Differ = {}
  <2>1. Len(s) \in 0..Len(s)
      BY <1>1
  <2> QED
      BY <1>4, <1>6, <2>1
<1>7. CASE Differ # {}
  <2>1. Differ \subseteq Nat
      BY <1>1
  <2>2. \E k \in Differ : \A l \in Differ : ~(l < k)
    <3> HIDE DEF Differ
    <3> QED
        BY <1>7, <2>1, HasLeast
  <2>3. PICK k \in Differ : \A l \in Differ : ~(l < k)
      BY <2>2
  <2>4. k \in 0..Len(s) /\ ~(chosen[k] \in Nat /\ chosen[k] <= reach[k])
      OBVIOUS
  <2>5. k # 0
      BY <1>1, <1>5, <2>4
  <2>6. k - 1 \in 0..Len(s) /\ k - 1 < k /\ k \in 1..Len(s)
      BY <1>1, <2>4, <2>5
  <2>7. chosen[k - 1] \in Nat /\ chosen[k - 1] <= reach[k - 1]
      BY <2>3, <2>6
  <2>8. chosen[k] = chosen[k - 1] + s[k].delay
      BY <1>5, <2>4, <2>5
  <2>9. reach[k - 1] + s[k].delay <= reach[k] /\ s[k].delay \in Nat
        /\ reach[k] \in Nat /\ reach[k - 1] \in Nat
      BY <1>1, <2>4, <2>6
  <2> QED
      BY <2>4, <2>7, <2>8, <2>9
<1> QED
    BY <1>6, <1>7

\* A row begins where the one before ended: the time of both is passed.
LEMMA DelayFollows ==
    ASSUME NEW start \in Int, NEW first \in Int, NEW last \in Int, NEW tai \in Int
    PROVE  /\ (first - start) + ((last + tai) - (first + tai)) = last - start
           /\ last - start \in Int
    OBVIOUS

\* The delays of the rows fit between the beginning of the method and its last
\* reading: two rows have at most a reading in common (src/ptp-clock-offset.c:
\* 112-153).
LEMMA DelaysFit ==
    ASSUME OffsetInv, TimesFollow, mainPc = "read", Current # "clock_gettime",
           Len(ts) = Takes(Current)
    PROVE  /\ from \in Nat /\ now \in Nat /\ from <= now
           /\ TotalDelay(PrintedRows) \in Nat
           /\ TotalDelay(PrintedRows) <= now - from
<1> DEFINE Rows == [off : Int, delay : Nat]
<1>1. /\ Samples \in Nat \ {0} /\ tai_off_ns \in Nat /\ ahead \in Int
      /\ ts \in Seq(Int) /\ DOMAIN ts = 1..Len(ts)
      /\ \A k \in 1..Len(ts) : ts[k] \in Int
      /\ from \in Nat /\ now \in Nat
    BY MethodTypes, LenProperties, ElementOfSeq
<1>2. from <= now
    BY DEF TimesFollow
<1>3. method \in DOMAIN Methods /\ StampsInOrder /\ ~unread
    BY DEF OffsetInv, MethodsInOrder, StampsInOrder
<1>4. PrintedRows \in Seq(Rows) /\ Len(PrintedRows) = AllRows(method)
    BY <1>1, <1>3, PrintedRowsFit
<1>5. ASSUME Current \in {"OFFSET", "EXTENDED"},
             NEW k \in 1..Len(ts), ~IsDevice(k)
      PROVE  /\ ts[k] \in Int /\ from <= ts[k] /\ ts[k] <= now
             /\ \A l \in 1..k : ~IsDevice(l) => ts[l] <= ts[k]
  <2>1. Shown(k) = ts[k] /\ \A l \in 1..k : ~IsDevice(l) => Shown(l) = ts[l]
      BY <1>5 DEF Shown
  <2>2. Shown(k) <= now /\ \A l \in 1..k : Shown(l) <= Shown(k)
      BY <1>1, <1>3, <1>5 DEF StampsInOrder
  <2>3. from <= Shown(k)
      BY <1>1, <1>5 DEF TimesFollow
  <2> QED
      BY <1>1, <2>1, <2>2, <2>3
<1>6. ASSUME NEW n \in Nat, Len(PrintedRows) = n, NEW reach \in [0..n -> Nat],
             reach[n] <= now - from,
             \A k \in 1..n : reach[k - 1] + PrintedRows[k].delay <= reach[k]
      PROVE  TotalDelay(PrintedRows) \in Nat /\ TotalDelay(PrintedRows) <= now - from
  <2>1. /\ TotalDelay(PrintedRows) \in Nat
        /\ TotalDelay(PrintedRows) <= reach[Len(PrintedRows)]
      BY <1>4, <1>6, TotalDelayIsWithin
  <2>2. reach[n] \in Nat
      BY <1>6
  <2> QED
      BY <1>1, <1>6, <2>1, <2>2
<1>7. CASE Current = "OFFSET"
  <2>1. /\ PrintedRows = [k \in 1..Samples |->
                             Row(ts[2*k - 1], ts[2*k], ts[2*k + 1])]
        /\ Len(ts) = 2 * Samples + 1 /\ AllRows(method) = Samples
      BY <1>7 DEF PrintedRows, Takes, AllRows, Current
  <2> DEFINE reach == [k \in 0..Samples |-> ts[2*k + 1] - from]
  <2>2. ASSUME NEW k \in 0..Samples
        PROVE  /\ ts[2*k + 1] \in Int /\ from <= ts[2*k + 1] /\ ts[2*k + 1] <= now
    <3>1. 2*k + 1 \in 1..Len(ts) /\ (2*k + 1) % 2 # 0
        BY <1>1, <2>1
    <3> QED
        BY <1>5, <1>7, <3>1 DEF IsDevice
  <2>3. reach \in [0..Samples -> Nat] /\ reach[Samples] <= now - from
    <3>1. \A k \in 0..Samples : ts[2*k + 1] - from \in Nat
        BY <1>1, <2>2
    <3>2. Samples \in 0..Samples
        BY <1>1
    <3> QED
        BY <1>1, <2>2, <3>1, <3>2
  <2>4. ASSUME NEW k \in 1..Samples
        PROVE  reach[k - 1] + PrintedRows[k].delay <= reach[k]
    <3>1. /\ k - 1 \in 0..Samples /\ k \in 0..Samples
          /\ 2*(k - 1) + 1 = 2*k - 1
        BY <1>1
    <3>2. ts[2*k - 1] \in Int /\ ts[2*k + 1] \in Int
        BY <2>2, <3>1
    <3>3. PrintedRows[k].delay
              = (ts[2*k + 1] + tai_off_ns) - (ts[2*k - 1] + tai_off_ns)
        BY <2>1 DEF Row
    <3>4. reach[k - 1] = ts[2*k - 1] - from /\ reach[k] = ts[2*k + 1] - from
        BY <3>1
    <3> HIDE DEF reach
    <3>5. from \in Int /\ tai_off_ns \in Int
        BY <1>1
    <3>6. /\ (ts[2*k - 1] - from)
                + ((ts[2*k + 1] + tai_off_ns) - (ts[2*k - 1] + tai_off_ns))
              = ts[2*k + 1] - from
          /\ ts[2*k + 1] - from \in Int
        BY <3>2, <3>5, DelayFollows
    <3>7. /\ reach[k - 1] + PrintedRows[k].delay = reach[k]
          /\ reach[k] \in Int
        BY <3>3, <3>4, <3>6, Zenon
    <3> QED
        BY <3>7
  <2> HIDE DEF reach
  <2> QED
      BY <1>1, <1>2, <1>4, <1>6, <2>1, <2>3, <2>4
<1>8. CASE Current = "EXTENDED"
  <2>1. /\ PrintedRows = [k \in 1..Samples |->
                             Row(ts[3*k - 2], ts[3*k - 1], ts[3*k])]
        /\ Len(ts) = 3 * Samples /\ AllRows(method) = Samples
      BY <1>8 DEF PrintedRows, Takes, AllRows, Current
  <2> DEFINE reach == [k \in 0..Samples |-> IF k = 0 THEN 0 ELSE ts[3*k] - from]
  <2>2. ASSUME NEW k \in 1..Samples
        PROVE  /\ ts[3*k] \in Int /\ from <= ts[3*k] /\ ts[3*k] <= now
               /\ ts[3*k - 2] \in Int /\ from <= ts[3*k - 2]
               /\ k # 1 => ts[3*(k - 1)] <= ts[3*k - 2]
    <3>1. /\ 3*k \in 1..Len(ts) /\ (3*k) % 3 # 2
          /\ 3*k - 2 \in 1..Len(ts) /\ (3*k - 2) % 3 # 2
        BY <1>1, <2>1
    <3>2. ~IsDevice(3*k) /\ ~IsDevice(3*k - 2)
        BY <1>8, <3>1 DEF IsDevice
    <3>3. CASE k # 1
      <4>1. 3*(k - 1) \in 1..(3*k - 2) /\ (3*(k - 1)) % 3 # 2
          BY <1>1, <3>3
      <4>2. ~IsDevice(3*(k - 1))
          BY <1>8, <4>1 DEF IsDevice
      <4> QED
          BY <1>5, <1>8, <3>1, <3>2, <4>1, <4>2
    <3>4. CASE k = 1
        BY <1>5, <1>8, <3>1, <3>2, <3>4
    <3> QED
        BY <3>3, <3>4
  <2>3. reach \in [0..Samples -> Nat] /\ reach[Samples] <= now - from
    <3>1. \A k \in 0..Samples : k # 0 => ts[3*k] - from \in Nat
        BY <1>1, <2>2
    <3>2. Samples \in 0..Samples /\ Samples \in 1..Samples /\ Samples # 0
        BY <1>1
    <3> QED
        BY <1>1, <2>2, <3>1, <3>2
  <2>4. ASSUME NEW k \in 1..Samples
        PROVE  reach[k - 1] + PrintedRows[k].delay <= reach[k]
    <3>1. PrintedRows[k].delay = (ts[3*k] + tai_off_ns) - (ts[3*k - 2] + tai_off_ns)
        BY <2>1 DEF Row
    <3>2. k - 1 \in 0..Samples /\ k \in 0..Samples /\ k # 0
        BY <1>1
    <3>3. reach[k] = ts[3*k] - from
        BY <3>2
    <3> DEFINE last == ts[3*k]
               first == ts[3*k - 2]
    <3>4. /\ last \in Int /\ first \in Int /\ from <= first
          /\ PrintedRows[k].delay = last - first /\ reach[k] = last - from
      <4>1. last \in Int /\ first \in Int /\ from <= first
          BY <2>2
      <4> HIDE DEF last, first, reach
      <4>2. PrintedRows[k].delay = (last + tai_off_ns) - (first + tai_off_ns)
          BY <3>1 DEF last, first
      <4>3. reach[k] = last - from
          BY <3>3 DEF last
      <4> QED
          BY <1>1, <4>1, <4>2, <4>3
    <3>5. CASE k = 1
      <4>1. reach[k - 1] = 0
          BY <3>2, <3>5
      <4> HIDE DEF reach, last, first
      <4> QED
          BY <1>1, <3>4, <4>1
    <3>6. CASE k # 1
      <4>1. reach[k - 1] = ts[3*(k - 1)] - from
          BY <3>2, <3>6
      <4>2. k - 1 \in 1..Samples
          BY <1>1, <3>6
      <4>3. ts[3*(k - 1)] \in Int /\ ts[3*(k - 1)] <= first
          BY <2>2, <3>6, <4>2
      <4> HIDE DEF reach, last, first
      <4> QED
          BY <1>1, <3>4, <4>1, <4>3
    <3> QED
        BY <3>5, <3>6
  <2> HIDE DEF reach
  <2> QED
      BY <1>1, <1>2, <1>4, <1>6, <2>1, <2>3, <2>4
<1>9. CASE Current \in {"PRECISE", "SFC"}
  <2>1. AllRows(method) = 1 /\ PrintedRows[1].delay = 0
      BY <1>9 DEF PrintedRows, AllRows, Current
  <2> DEFINE reach == [k \in 0..1 |-> 0]
  <2>2. /\ reach \in [0..1 -> Nat]
        /\ \A k \in 1..1 : reach[k - 1] + PrintedRows[k].delay <= reach[k]
        /\ reach[1] = 0
      BY <2>1
  <2>3. 0 <= now - from
      BY <1>1, <1>2
  <2> HIDE DEF reach
  <2> QED
      BY <1>1, <1>2, <1>4, <1>6, <2>1, <2>2, <2>3
<1>10. Current \in {"clock_gettime", "OFFSET", "EXTENDED", "PRECISE", "SFC"}
    BY <1>3, MethodTable DEF Current
<1> QED
    BY <1>1, <1>2, <1>7, <1>8, <1>9, <1>10
-----------------------------------------------------------------------------
(***************************************************************************)
(* The duration of a system call                                           *)
(***************************************************************************)

\* The factors are computed before the device is looked for, and never again.
LEMMA ScaleStep == OffsetInv /\ ScaleFollows /\ [Next]_vars => ScaleFollows'
<1> SUFFICES ASSUME OffsetInv, ScaleFollows, [Next]_vars PROVE ScaleFollows'
    OBVIOUS
<1>1. ASSUME UNCHANGED <<scale, tsc_khz>>,
             mainPc' \in {"device", "open", "next", "read", "exit"} =>
                 mainPc \in {"device", "open", "next", "read", "exit"}
      PROVE  ScaleFollows'
  <2>1. /\ clocks_calc_mult_shift(tsc_khz, NsPerMs, 0)'
               = clocks_calc_mult_shift(tsc_khz, NsPerMs, 0)
        /\ KernelScale(tsc_khz)' = KernelScale(tsc_khz)
      BY <1>1
  <2> QED
      BY <1>1, <2>1 DEF ScaleFollows
<1>2. CASE Arguments \/ Frequency
  <2>1. mainPc' \in {"failed", "perf", "khz"}
      BY <1>2 DEF Arguments, Frequency, MainGoes, OffsetInv, TypeOK
  <2> QED
      BY <2>1 DEF ScaleFollows
<1>3. CASE Scale
  <2>1. CASE MainGoes("khz", "failed")
      BY <2>1 DEF ScaleFollows, MainGoes
  <2>2. CASE scale' = clocks_calc_mult_shift(tsc_khz, NsPerMs, 0)
    <3>1. tsc_khz' = tsc_khz
        BY <1>3 DEF Scale, khzVars
    <3>2. scale' = clocks_calc_mult_shift(tsc_khz, NsPerMs, 0)'
        BY <2>2, <3>1
    <3> QED
        BY <3>2 DEF ScaleFollows
  <2> QED
      BY <1>3, <2>1, <2>2 DEF Scale
<1>4. CASE GetTscPerf
  <2>1. CASE MainGoes("perf", "failed") \/ MainGoes("perf", "crashed")
      BY <2>1 DEF ScaleFollows, MainGoes
  <2>2. CASE scale' = KernelScale(tsc_khz')
      BY <2>2 DEF ScaleFollows
  <2> QED
      BY <1>4, <2>1, <2>2 DEF GetTscPerf
<1>5. CASE FindDevice \/ Open
  <2>1. /\ UNCHANGED <<scale, tsc_khz>> /\ mainPc \in {"device", "open"}
      BY <1>5 DEF FindDevice, Open, MainGoes, khzVars
  <2> QED
      BY <1>1, <2>1
<1>6. CASE Begin \/ ReadClock \/ ReadFails \/ PrintSample \/ PrintRows
             \/ MethodFails \/ Finish
  <2>1. /\ UNCHANGED <<scale, tsc_khz>> /\ mainPc \in {"next", "read"}
      BY <1>6 DEF Begin, ReadClock, ReadFails, PrintSample, SamplePrinted,
                  PrintRows, MethodFails, Finish, setup, khzVars
  <2> QED
      BY <1>1, <2>1
<1>7. CASE UNCHANGED vars
  <2>1. UNCHANGED <<scale, tsc_khz, mainPc>>
      BY <1>7 DEF vars, setup, khzVars
  <2> QED
      BY <1>1, <2>1
<1> QED
    BY <1>2, <1>3, <1>4, <1>5, <1>6, <1>7 DEF Next

\* Each reading comes after the first one of the TSC, and takes at most MaxTick.
LEMMA TimesStep == OffsetInv /\ TimesFollow /\ [Next]_vars => TimesFollow'
<1> SUFFICES ASSUME OffsetInv, TimesFollow, [Next]_vars,
                    mainPc' = "read", Current' # "clock_gettime"
             PROVE  TimesFollow'
    BY DEF TimesFollow
<1>1. MaxTick \in Nat /\ Starts \subseteq Nat
    BY PtpOffsetAssumption
<1>2. CASE Begin
  <2>1. /\ mainPc = "next" /\ now' \in Starts /\ from' = now' /\ ts' = <<>>
        /\ b' = IF Current = "clock_gettime" THEN 0 ELSE Tsc(now')
        /\ method' = method /\ tsc_khz' = tsc_khz
      BY <1>2 DEF Begin, khzVars
  <2>2. Current' = Current
      BY <2>1 DEF Current
  <2>3. b' = Tsc(from)'
      BY <2>1, <2>2 DEF Tsc
  <2>4. Len(ts') = 0 /\ DOMAIN ts' = {}
      BY <2>1, EmptySeq
  <2>5. now' \in Nat
      BY <1>1, <2>1
  <2>6. MaxTick * Len(ts') = 0
    <3>1. MaxTick * 0 = 0
        BY <1>1
    <3> QED
        BY <2>4, <3>1
  <2>7. now' <= from' + MaxTick * Len(ts')
      BY <2>1, <2>5, <2>6
  <2> QED
      BY <2>1, <2>3, <2>4, <2>5, <2>7 DEF TimesFollow
<1>3. CASE ReadClock
  <2>1. /\ mainPc = "read" /\ Len(ts) < Takes(Current)
        /\ UNCHANGED <<khzVars, b, from>>
        /\ Current' = Current
        /\ now \in Nat /\ now' \in Nat /\ now <= now' /\ now' <= now + MaxTick
      BY <1>3, ClockRead
  <2>2. /\ ts \in Seq(Int) /\ Len(ts) \in Nat /\ from \in Nat
      BY <2>1, MethodTypes, LenProperties
  <2>3. /\ b = Tsc(from) /\ from <= now /\ now <= from + MaxTick * Len(ts)
        /\ Current \in {"OFFSET", "EXTENDED"} => \A k \in DOMAIN ts : from <= Shown(k)
      BY <2>1 DEF TimesFollow
  <2>4. b' = Tsc(from)' /\ from' <= now'
    <3>1. tsc_khz' = tsc_khz
        BY <2>1 DEF khzVars
    <3> QED
        BY <2>1, <2>2, <2>3, <3>1 DEF Tsc
  <2>5. ASSUME Len(ts') \in Nat, Len(ts) + 1 <= Len(ts')
        PROVE  now' <= from' + MaxTick * Len(ts')
    <3>1. (Len(ts) + 1) * MaxTick <= Len(ts') * MaxTick
        BY <1>1, <2>2, <2>5, ProductAscends
    <3>2. /\ (Len(ts) + 1) * MaxTick = MaxTick * Len(ts) + MaxTick
          /\ Len(ts') * MaxTick = MaxTick * Len(ts')
          /\ MaxTick * Len(ts) \in Int /\ MaxTick * Len(ts') \in Int
        BY <1>1, <2>2, <2>5
    <3> QED
        BY <1>1, <2>1, <2>2, <2>3, <3>1, <3>2
  <2>6. CASE Current = "PRECISE"
    <3>1. ts' = <<now', Device(now')>>
        BY <1>3, <2>6 DEF ReadClock
    <3>2. Takes(Current) = 2
        BY <2>6 DEF Takes
    <3> QED
        BY <2>1, <2>2, <2>4, <2>5, <2>6, <3>1, <3>2 DEF TimesFollow
  <2>7. CASE Current = "SFC"
    <3>1. ts' = <<ahead>>
        BY <1>3, <2>7 DEF ReadClock
    <3>2. Takes(Current) = 1
        BY <2>7 DEF Takes
    <3> QED
        BY <2>1, <2>2, <2>4, <2>5, <2>7, <3>1, <3>2 DEF TimesFollow
  <2>8. CASE Current \in {"OFFSET", "EXTENDED"}
    <3>1. PICK n \in Nat :
              /\ n = Len(ts) + 1
              /\ ts' \in Seq(Int) /\ Len(ts') = n /\ DOMAIN ts' = 1..n
              /\ \A k \in 1..Len(ts) : Shown(k)' = Shown(k) /\ Shown(k) \in Int
              /\ Shown(n)' = now'
        BY <1>3, <2>8, StampTaken
    <3>2. now' <= from' + MaxTick * Len(ts')
        BY <2>2, <2>5, <3>1
    <3>3. DOMAIN ts = 1..Len(ts)
        BY <2>2, LenProperties
    <3>4. ASSUME NEW k \in 1..n PROVE from' <= Shown(k)'
      <4>1. CASE k = n
          BY <2>1, <2>2, <2>3, <3>1, <4>1
      <4>2. CASE k # n
        <5>1. k \in 1..Len(ts)
            BY <2>2, <3>1, <4>2
        <5> QED
            BY <2>1, <2>3, <2>8, <3>1, <3>3, <5>1
      <4> QED
          BY <4>1, <4>2
    <3> QED
        BY <2>4, <3>1, <3>2, <3>4 DEF TimesFollow
  <2>9. Current \in {"clock_gettime", "OFFSET", "EXTENDED", "PRECISE", "SFC"}
      BY <2>1, MethodTable DEF OffsetInv, MethodsInOrder, Current
  <2> QED
      BY <2>1, <2>6, <2>7, <2>8, <2>9
<1>4. CASE PrintSample
  <2>1. /\ mainPc = "read" /\ Current = "clock_gettime"
        /\ \/ mainPc' = "next"
           \/ method' = method
      BY <1>4 DEF PrintSample, SamplePrinted
  <2> QED
      BY <2>1 DEF Current
<1>5. CASE UNCHANGED vars
  <2>1. UNCHANGED <<mainPc, method, tsc_khz, b, from, now, ts, ahead>>
      BY <1>5 DEF vars, setup, khzVars, reading
  <2> QED
      BY <2>1 DEF TimesFollow, Current, Tsc, Shown, IsDevice
<1>6. CASE Arguments \/ Frequency \/ Scale \/ GetTscPerf \/ FindDevice \/ Open
    BY <1>6 DEF Arguments, Frequency, Scale, GetTscPerf, FindDevice, Open, MainGoes,
                OffsetInv, TypeOK
<1>7. CASE PrintRows \/ MethodFails \/ Finish
    BY <1>7 DEF PrintRows, MethodFails, Finish
<1>8. CASE ReadFails
    BY <1>8 DEF ReadFails, Current
<1> QED
    BY <1>2, <1>3, <1>4, <1>5, <1>6, <1>7, <1>8 DEF Next

\* What the duration rests on (src/ptp-clock-offset.c:112-175): the factors are
\* those of the frequency, and the TSC is read before and after all clocks.
THEOREM TimedInvAlways == Spec => []TimedInv
<1>1. Init => TimedInv
  <2>1. Init => ScaleFollows /\ TimesFollow
      BY DEF Init, ScaleFollows, TimesFollow
  <2> QED
      BY <2>1, OffsetInit DEF TimedInv
<1>2. TimedInv /\ [Next]_vars => TimedInv'
    BY OffsetStep, ScaleStep, TimesStep DEF TimedInv
<1> QED
    BY <1>1, <1>2, PTL DEF Spec

\* The clock advances once more, by a tick at most.
LEMMA OneMoreTick ==
    ASSUME NEW start \in Int, NEW last \in Int, NEW end \in Int, NEW tick \in Int,
           NEW taken \in Int, NEW longest \in Int,
           last <= start + taken, end <= last + tick, taken + tick <= longest
    PROVE  end - start <= longest
<1>1. end <= start + taken + tick
    OBVIOUS
<1> QED
    BY <1>1

\* What fits into a duration fits into another one that is near.
LEMMA WithinBoth ==
    ASSUME NEW told \in Int, NEW elapsed \in Int, NEW slack \in Int, NEW part \in Int,
           AbsDiff(told, elapsed) <= slack, part <= elapsed
    PROVE  part <= told + slack
<1>1. CASE told < elapsed
    BY <1>1 DEF AbsDiff
<1>2. CASE ~(told < elapsed)
  <2>1. told - elapsed <= slack /\ elapsed <= told
      BY <1>2 DEF AbsDiff
  <2> QED
      BY <2>1
<1> QED
    BY <1>1, <1>2

\* When the ioctl has returned, the duration is that of the clock, and the
\* delays fit into it.
LEMMA RowsTimed ==
    ASSUME ScaleIsFine, CallsFit, TimedInv, PrintRows
    PROVE  SyscallTimeIsRight'
<1>1. /\ mainPc = "read" /\ Current # "clock_gettime" /\ Len(ts) = Takes(Current)
      /\ sc_delay' = tsc2ns(Tsc(now') - b)
      /\ rows' = PrintedRows
      /\ UNCHANGED <<setup, khzVars, from>>
    BY DEF PrintRows
<1>2. OffsetInv /\ ScaleFollows /\ TimesFollow
    BY DEF TimedInv
<1>3. /\ MaxTick \in Nat /\ Samples \in Nat \ {0} /\ from \in Nat /\ now \in Nat
      /\ method \in DOMAIN Methods
    BY <1>1, <1>2, MethodTypes DEF OffsetInv, MethodsInOrder
<1>4. tsc_khz \in 1..UINT32_MAX
  <2>1. tsc_khz \in {0} \cup Frequencies /\ tsc_khz # 0
      BY <1>1, <1>2 DEF OffsetInv, TypeOK, KhzTypeOK, SourcesInOrder
  <2> QED
      BY <2>1, PtpOffsetAssumption
<1>5. /\ now' \in Nat /\ now <= now' /\ now' <= now + MaxTick
  <2>1. \E t \in 0..MaxTick : now' = now + t
      BY DEF PrintRows
  <2> QED
      BY <1>3, <2>1
<1>6. /\ from <= now /\ TotalDelay(PrintedRows) \in Nat
      /\ TotalDelay(PrintedRows) <= now - from
    BY <1>1, <1>2, DelaysFit
<1>7. now' - from <= MaxTick * (3 * Samples + 1)
  <2>1. now <= from + MaxTick * Len(ts)
      BY <1>1, <1>2 DEF TimesFollow
  <2>2. Len(ts) \in Nat /\ Len(ts) <= 3 * Samples
    <3>1. Current \in {"OFFSET", "EXTENDED", "PRECISE", "SFC"}
        BY <1>1, <1>3, MethodTable DEF Current
    <3>2. \/ Takes(Current) = 2 * Samples + 1 \/ Takes(Current) = 3 * Samples
          \/ Takes(Current) = 2 \/ Takes(Current) = 1
        BY <3>1 DEF Takes
    <3> QED
        BY <1>1, <1>3, <3>2
  <2>3. (Len(ts) + 1) * MaxTick <= (3 * Samples + 1) * MaxTick
      BY <1>3, <2>2, ProductAscends
  <2>4. /\ (Len(ts) + 1) * MaxTick = MaxTick * Len(ts) + MaxTick
        /\ (3 * Samples + 1) * MaxTick = MaxTick * (3 * Samples + 1)
        /\ MaxTick * Len(ts) \in Int /\ MaxTick * (3 * Samples + 1) \in Int
      BY <1>3, <2>2
  <2>5. MaxTick * Len(ts) + MaxTick <= MaxTick * (3 * Samples + 1)
      BY <2>3, <2>4
  <2>6. now \in Int /\ now' \in Int /\ from \in Int /\ MaxTick \in Int
      BY <1>3, <1>5
  <2> QED
      BY <1>5, <2>1, <2>4, <2>5, <2>6, OneMoreTick
<1>8. sc_delay' = tsc2ns(Tsc(now') - Tsc(from))
    BY <1>1, <1>2 DEF TimesFollow
<1>9. /\ sc_delay' \in Nat
      /\ AbsDiff(sc_delay', now' - from) <= Slack(now' - from)
      /\ Slack(now' - from) \in Nat
  <2>1. from <= now'
      BY <1>3, <1>5, <1>6
  <2> QED
      BY <1>1, <1>2, <1>3, <1>4, <1>5, <1>7, <1>8, <2>1, DurationConverted
<1>10. Slack(now - from)' = Slack(now' - from)
    BY <1>1 DEF Slack, setup, khzVars
<1>11. TotalDelay(PrintedRows) <= sc_delay' + Slack(now' - from)
  <2>1. /\ sc_delay' \in Int /\ Slack(now' - from) \in Int
        /\ now' - from \in Int /\ TotalDelay(PrintedRows) \in Int
      BY <1>3, <1>5, <1>6, <1>9
  <2>2. TotalDelay(PrintedRows) <= now' - from
      BY <1>3, <1>5, <1>6
  <2> QED
      BY <1>9, <2>1, <2>2, WithinBoth
<1>12. TotalDelay(rows)' = TotalDelay(PrintedRows) /\ (now - from)' = now' - from
  <2>1. rows' = PrintedRows /\ from' = from
      BY <1>1
  <2>2. TotalDelay(rows)' = TotalDelay(PrintedRows)
      BY <2>1 DEF TotalDelay
  <2> QED
      BY <2>1, <2>2
<1>13. /\ AbsDiff(sc_delay, now - from)' <= Slack(now - from)'
       /\ TotalDelay(rows)' <= (sc_delay + Slack(now - from))'
  <2>1. AbsDiff(sc_delay, now - from)' = AbsDiff(sc_delay', now' - from)
      BY <1>12 DEF AbsDiff
  <2> QED
      BY <1>9, <1>10, <1>11, <1>12, <2>1
<1> QED
    BY <1>13 DEF SyscallTimeIsRight

\* The duration that is printed after "syscall:" (src/ptp-clock-offset.c:124) is
\* that of the clock, to within a tick, the rounding of the factor and that of
\* the result, and the delays of the rows fit into it: for every frequency of
\* the TSC, also with the factors of the kernel, which may have lost a bit.
THEOREM DurationIsRight ==
    ScaleIsFine /\ CallsFit => (Spec => []SyscallTimeIsRight)
<1> SUFFICES ASSUME ScaleIsFine, CallsFit PROVE Spec => []SyscallTimeIsRight
    OBVIOUS
<1>1. Init => SyscallTimeIsRight
    BY DEF Init, SyscallTimeIsRight
<1>2. ASSUME TimedInv, SyscallTimeIsRight, [Next]_vars
      PROVE  SyscallTimeIsRight'
  <2>1. OffsetInv
      BY <1>2 DEF TimedInv
  <2>2. CASE PrintRows
      BY <1>2, <2>2, RowsTimed
  <2>3. CASE PrintSample \/ MethodFails
    <3>1. mainPc = "read" /\ method \in 1..5
        BY <2>1, <2>3, MethodTable
           DEF PrintSample, SamplePrinted, MethodFails, OffsetInv, MethodsInOrder
    <3>2. CASE Current = "clock_gettime"
      <4>1. method = 1 /\ (method' = method \/ method' = method + 1)
          BY <2>3, <3>1, <3>2, MethodTable DEF Current, PrintSample, SamplePrinted,
                  MethodFails
      <4> QED
          BY <4>1 DEF SyscallTimeIsRight
    <3>3. CASE Current # "clock_gettime"
      <4>1. MethodFails /\ rows = <<>>
          BY <2>1, <2>3, <3>1, <3>3 DEF PrintSample, SamplePrinted, OffsetInv,
                  MethodsInOrder
      <4>2. rows' = <<>>
          BY <4>1 DEF MethodFails
      <4> QED
          BY <4>2 DEF SyscallTimeIsRight
    <3> QED
        BY <3>2, <3>3
  <2>4. CASE Begin \/ ReadClock \/ ReadFails \/ Finish
      BY <2>4 DEF Begin, ReadClock, ReadFails, Finish, SyscallTimeIsRight
  <2>5. CASE Arguments \/ Frequency \/ Scale \/ GetTscPerf \/ FindDevice \/ Open
    <3>1. method = 1 /\ method' = method
        BY <2>1, <2>5 DEF Arguments, Frequency, Scale, GetTscPerf, FindDevice, Open,
                          MainGoes, OffsetInv, MethodsInOrder
    <3> QED
        BY <3>1 DEF SyscallTimeIsRight
  <2>6. CASE UNCHANGED vars
    <3>1. UNCHANGED <<mainPc, method, rows, now, from, sc_delay, scale, tsc_khz>>
        BY <2>6 DEF vars, setup, khzVars, reading
    <3> QED
        BY <1>2, <3>1 DEF SyscallTimeIsRight, Slack
  <2> QED
      BY <1>2, <2>2, <2>3, <2>4, <2>5, <2>6 DEF Next
<1> QED
    BY <1>1, <1>2, TimedInvAlways, PTL DEF Spec
=============================================================================
