------------------------------ MODULE PtpOffset ------------------------------
(***************************************************************************)
(* src/ptp-clock-offset.c: tries one method after the other to find out    *)
(* how far a PTP hardware clock is from the system clock, and prints the   *)
(* offsets together with how long it took to read them.                    *)
(*                                                                         *)
(* A method brackets each reading of the device by two of the system       *)
(* clock.  The device shows TAI, the system clock UTC.  Only differences   *)
(* of readings of one method are ever taken, so each method may begin at   *)
(* any of a few times (Starts).                                            *)
(***************************************************************************)
EXTENDS ClockScale, TscKhz

CONSTANTS Samples,     \* 5, the samples of a method that takes several
          Starts,      \* the times a method may begin at
          MaxTick,     \* how far the time advances between two steps
          Offsets,     \* how far the system clock may be ahead of the device
          tai_off_ns   \* 37 s, how far TAI is ahead of UTC

ASSUME PtpOffsetAssumption ==
    /\ Samples \in Nat \ {0}
    /\ Starts \subseteq Nat
    /\ MaxTick \in Nat
    /\ Offsets \subseteq Int
    /\ tai_off_ns \in Nat
    /\ Frequencies \subseteq 1..UINT32_MAX

VARIABLES arg,       \* what is given as argument
          readPerf,  \* PCO_READ_PERF was defined at compile time
          mainPc,    \* where main is
          scale,     \* tsc_mult and tsc_shift
          is_sfc,    \* the interface has the driver sfc
          method,    \* the method that is tried
          now,       \* the time, by the system clock
          ts,        \* the stamps read for the next row or rows
          unread,    \* clock_gettime has failed for one of them
          b,         \* the TSC before the system call
          sc_delay,  \* the duration of the system call
          rows,      \* the rows the method has printed
          ahead,     \* how far the system clock is ahead of the device
          from,      \* history: when the method began
          printed,   \* history: how many rows the methods have printed
          failed     \* history: the methods that have failed

setup    == <<arg, readPerf, ahead, scale, is_sfc>>
reading  == <<now, ts, unread, b, sc_delay, rows, from>>
outcome  == <<printed, failed>>
vars     == <<setup, khzVars, mainPc, method, reading, outcome>>

Methods == <<"clock_gettime", "OFFSET", "EXTENDED", "PRECISE", "SFC">>
Current == Methods[method]

\* The TSC at a time.
Tsc(t) == (t * tsc_khz) \div NsPerMs
tsc2ns(cyc) == mul_u64_u32_shr(cyc, scale)

\* The hardware clock at a time.
Device(t) == t + tai_off_ns - ahead

Init ==
    /\ arg \in {"none", "device", "ifname"}
    /\ readPerf \in BOOLEAN
    /\ mainPc = "begin"
    /\ KhzInit
    /\ scale = [mult |-> 0, shift |-> 0]
    /\ is_sfc = FALSE
    /\ method = 1
    /\ now = 0
    /\ ts = <<>>
    /\ unread = FALSE
    /\ b = 0
    /\ sc_delay = 0
    /\ rows = <<>>
    /\ ahead \in Offsets
    /\ from = 0
    /\ printed = [m \in DOMAIN Methods |-> 0]
    /\ failed = {}
-----------------------------------------------------------------------------
(***************************************************************************)
(* Setting up                                                              *)
(***************************************************************************)
MainGoes(here, to) ==
    /\ mainPc = here
    /\ mainPc' = to
    /\ UNCHANGED <<arg, readPerf, ahead, method, reading, outcome>>

Arguments ==
    /\ MainGoes("begin", CASE arg = "none" -> "failed"
                           [] arg # "none" /\ readPerf -> "perf"
                           [] OTHER -> "khz")
    /\ UNCHANGED <<khzVars, scale, is_sfc>>

Frequency ==
    /\ MainGoes("khz", "khz")
    /\ GetTscKhz
    /\ UNCHANGED <<scale, is_sfc>>

Scale ==
    /\ khzRet # "none"
    /\ \/ /\ khzRet = "error"
          /\ MainGoes("khz", "failed")
          /\ UNCHANGED scale
       \/ /\ khzRet = "ok"
          /\ MainGoes("khz", "device")
          /\ scale' = clocks_calc_mult_shift(tsc_khz, NsPerMs, 0)
    /\ UNCHANGED <<khzVars, is_sfc>>

\* "Unfortunately, the kernel decreases precision of mult and shift"
KernelScale(khz) ==
    LET s == clocks_calc_mult_shift(khz, NsPerMs, 0)
    IN  IF s.shift < Bits THEN s
        ELSE [mult |-> s.mult \div 2, shift |-> Bits - 1]

\* get_tsc_perf takes the factors from the kernel, which knows the frequency.
\* A failed mmap is not noticed: it returns -1, not 0, which is then read.
GetTscPerf ==
    /\ \/ /\ MainGoes("perf", "device")
          /\ tsc_khz' \in Frequencies
          /\ scale' = KernelScale(tsc_khz')
       \/ /\ MainGoes("perf", "failed") \/ MainGoes("perf", "crashed")
          /\ UNCHANGED <<tsc_khz, scale>>
    /\ UNCHANGED <<khzRet, asked, is_sfc>>

\* For an interface mk_if_fd and get_ptp_dev find the device, unless there is
\* none.  It is no error when its driver cannot be told.
FindDevice ==
    /\ \/ arg = "device" /\ MainGoes("device", "open") /\ UNCHANGED is_sfc
       \/ arg = "ifname" /\ MainGoes("device", "open") /\ is_sfc' \in BOOLEAN
       \/ arg = "ifname" /\ MainGoes("device", "failed") /\ UNCHANGED is_sfc
    /\ UNCHANGED <<khzVars, scale>>

Open ==
    /\ MainGoes("open", "next") \/ MainGoes("open", "failed")
    /\ UNCHANGED <<khzVars, scale, is_sfc>>
-----------------------------------------------------------------------------
(***************************************************************************)
(* The methods                                                             *)
(***************************************************************************)
Takes(m) == CASE m = "clock_gettime" -> 3
              [] m = "OFFSET"        -> 2 * Samples + 1
              [] m = "EXTENDED"      -> 3 * Samples
              [] m = "PRECISE"       -> 2
              [] m = "SFC"           -> 1

\* Which of its readings are those of the device.
IsDevice(k) == IF Current = "OFFSET" THEN k % 2 = 0 ELSE k % 3 = 2

Row(sys1, dev, sys2) ==
    [off   |-> ((sys1 + tai_off_ns) + (sys2 + tai_off_ns)) \div 2 - dev,
     delay |-> (sys2 + tai_off_ns) - (sys1 + tai_off_ns)]

\* The samples of OFFSET share the reading between them.
PrintedRows ==
    CASE Current = "OFFSET"   -> [k \in 1..Samples |->
                                    Row(ts[2*k - 1], ts[2*k], ts[2*k + 1])]
      [] Current = "EXTENDED" -> [k \in 1..Samples |->
                                    Row(ts[3*k - 2], ts[3*k - 1], ts[3*k])]
      [] Current = "clock_gettime" -> <<Row(ts[1], ts[2], ts[3])>>
      [] Current = "PRECISE"  -> <<[off |-> ts[1] + tai_off_ns - ts[2], delay |-> 0]>>
      [] Current = "SFC"      -> <<[off |-> ts[1], delay |-> 0]>>

\* The first TSC reading of all methods but the one of clock_gettime.
Begin ==
    /\ mainPc = "next"
    /\ method \in DOMAIN Methods
    /\ Current = "SFC" => is_sfc
    /\ mainPc' = "read"
    /\ now' \in Starts
    /\ from' = now'
    /\ ts' = <<>>
    /\ rows' = <<>>
    /\ b' = IF Current = "clock_gettime" THEN 0 ELSE Tsc(now')
    /\ sc_delay' = 0
    /\ UNCHANGED <<setup, khzVars, method, unread, outcome>>

\* The kernel, or clock_gettime, reads a clock.  PRECISE reads both at once;
\* with SFC the driver tells the offset itself.
ReadClock ==
    /\ mainPc = "read"
    /\ Len(ts) < Takes(Current)
    /\ \E t \in 0..MaxTick : now' = now + t
    /\ ts' = CASE Current = "PRECISE" -> <<now', Device(now')>>
               [] Current = "SFC"     -> <<ahead>>
               [] OTHER -> Append(ts, IF IsDevice(Len(ts) + 1) THEN Device(now')
                                                              ELSE now')
    /\ UNCHANGED <<setup, khzVars, mainPc, method, unread, b, sc_delay, rows, from,
                   outcome>>

\* clock_gettime fails: its stamp keeps what was there before, for which 0
\* stands, and the other clocks of the sample are read anyhow.
ReadFails ==
    /\ mainPc = "read"
    /\ Current = "clock_gettime"
    /\ Len(ts) < Takes(Current)
    /\ ts' = Append(ts, 0)
    /\ unread' = TRUE
    /\ UNCHANGED <<setup, khzVars, mainPc, method, now, b, sc_delay, rows, from,
                   outcome>>

\* A sample of clock_gettime is printed before the next one is taken.
SamplePrinted(isRead) ==
    /\ mainPc = "read"
    /\ Current = "clock_gettime"
    /\ Len(ts) = Takes(Current)
    /\ isRead
    /\ rows' = rows \o PrintedRows
    /\ ts' = <<>>
    /\ unread' = FALSE
    /\ printed' = [printed EXCEPT ![method] = @ + 1]
    /\ IF Len(rows') = Samples
       THEN mainPc' = "next" /\ method' = method + 1
       ELSE UNCHANGED <<mainPc, method>>
    /\ UNCHANGED <<setup, khzVars, now, b, sc_delay, from, failed>>

\* Mutant: a sample is printed although a clock was not read.
PrintUnread == SamplePrinted(TRUE)

\* All three clocks were read.
PrintSample == SamplePrinted(~unread)

\* The ioctl has returned: the second TSC reading, and the rows.
PrintRows ==
    /\ mainPc = "read"
    /\ Current # "clock_gettime"
    /\ Len(ts) = Takes(Current)
    /\ \E t \in 0..MaxTick : now' = now + t
    /\ sc_delay' = tsc2ns(Tsc(now') - b)
    /\ rows' = PrintedRows
    /\ ts' = <<>>
    /\ printed' = [printed EXCEPT ![method] = Len(PrintedRows)]
    /\ mainPc' = "next"
    /\ method' = method + 1
    /\ UNCHANGED <<setup, khzVars, unread, b, from, failed>>

\* The system call is not supported, or one of the three clock_gettime has
\* failed, which is looked at when all three have been called.
MayFail == IF Current = "clock_gettime" THEN Len(ts) = Takes(Current) /\ unread
                                        ELSE ts = <<>>

\* Mutant: main gives up with the first method that fails.
MethodEndsAll ==
    /\ mainPc = "read"
    /\ MayFail
    /\ mainPc' = "exit"
    /\ failed' = failed \cup {method}
    /\ UNCHANGED <<setup, khzVars, method, reading, printed>>

\* main ignores what the methods return.
MethodFails ==
    /\ mainPc = "read"
    /\ MayFail
    /\ ts' = <<>>
    /\ unread' = FALSE
    /\ mainPc' = "next"
    /\ method' = method + 1
    /\ failed' = failed \cup {method}
    /\ UNCHANGED <<setup, khzVars, now, b, sc_delay, rows, from, printed>>

Finish ==
    /\ mainPc = "next"
    /\ method \in DOMAIN Methods => Current = "SFC" /\ ~is_sfc
    /\ mainPc' = "exit"
    /\ UNCHANGED <<setup, khzVars, method, reading, outcome>>

Next ==
    \/ Arguments \/ Frequency \/ Scale \/ GetTscPerf \/ FindDevice \/ Open
    \/ Begin \/ ReadClock \/ ReadFails \/ PrintSample \/ PrintRows
    \/ MethodFails \/ Finish

Spec == Init /\ [][Next]_vars
-----------------------------------------------------------------------------
TypeOK ==
    /\ KhzTypeOK
    /\ arg \in {"none", "device", "ifname"}
    /\ readPerf \in BOOLEAN
    /\ mainPc \in {"begin", "perf", "khz", "device", "open", "next", "read",
                   "exit", "failed", "crashed"}
    /\ scale.mult \in 0..UINT32_MAX /\ scale.shift \in 0..Bits
    /\ is_sfc \in BOOLEAN
    /\ method \in 1..(Len(Methods) + 1)
    /\ {now, b, sc_delay, from} \subseteq Nat
    /\ ts \in Seq(Int)
    /\ unread \in BOOLEAN
    /\ Len(rows) <= Samples
    /\ ahead \in Offsets
    /\ printed \in [DOMAIN Methods -> 0..Samples]
    /\ failed \subseteq DOMAIN Methods

\* A row tells an offset and a delay (src/ptp-clock-offset.c:100-103, 121-126,
\* 143-149, 166-168): the real offset is not further away from the one printed
\* than half of the delay, rounded up.
OffsetIsBracketed ==
    \A k \in DOMAIN rows : 2 * AbsDiff(rows[k].off, ahead) <= rows[k].delay + 1

\* How far the conversion of a duration may be off: a tick, the rounding of
\* the factor, which may have lost a bit in the kernel, and that of the result.
Slack(ns) == NsPerMs \div tsc_khz + ns \div scale.mult + 2

\* The delays of all rows together.
TotalDelay(s) ==
    LET sum[k \in 0..Len(s)] == IF k = 0 THEN 0 ELSE sum[k - 1] + s[k].delay
    IN  sum[Len(s)]

\* "syscall: %ns" (src/ptp-clock-offset.c:124): the duration of the system
\* call is that of the clock, and the delays of the rows fit into it.
SyscallTimeIsRight ==
    mainPc = "next" /\ method > 2 /\ rows # <<>> =>
        LET elapsed == now - from
        IN  /\ AbsDiff(sc_delay, elapsed) <= Slack(elapsed)
            /\ TotalDelay(rows) <= sc_delay + Slack(elapsed)

\* The rows of a method that does not fail.
AllRows(m) == IF Methods[m] \in {"PRECISE", "SFC"} THEN 1 ELSE Samples

\* The method is done with: it has failed, is not for this driver, or has
\* printed all its rows.
IsTried(m) ==
    \/ m \in failed
    \/ Methods[m] = "SFC" /\ ~is_sfc
    \/ printed[m] = AllRows(m)

\* "Check what methods are available for PTP offset calculation"
\* (src/ptp-clock-offset.c:1): when main returns 0 it has tried them all, SFC
\* if the driver is sfc, and printed all samples of those that are available.
EveryMethodIsTried == mainPc = "exit" => \A m \in DOMAIN Methods : IsTried(m)
-----------------------------------------------------------------------------
(***************************************************************************)
(* Why this holds                                                          *)
(***************************************************************************)

\* What the sources have answered leads to tsc_khz: as long as the next one
\* may be asked, the ones before it knew nothing.
SourcesInOrder ==
    /\ mainPc \in {"begin", "perf"} =>
          khzRet = "none" /\ tsc_khz = 0 /\ asked = <<>>
    /\ mainPc = "khz" /\ khzRet = "none" =>
          /\ \A k \in 1..(Len(asked) - 1) : asked[k] = 0
          /\ tsc_khz = IF asked = <<>> THEN 0 ELSE asked[Len(asked)]
    /\ mainPc \in {"device", "open", "next", "read", "exit"} => tsc_khz # 0

\* The time, by the system clock, at which the k-th stamp was read.
Shown(k) == IF IsDevice(k) THEN ts[k] - tai_off_ns + ahead ELSE ts[k]

\* The stamps of a method are read one after the other, the last one not
\* after now, unless it reads one pair or the driver tells the offset.  The
\* ones of a sample of clock_gettime may not have been read.
StampsInOrder ==
    /\ unread => mainPc = "read" /\ Current = "clock_gettime"
    /\ mainPc # "read" => ts = <<>>
    /\ mainPc = "read" =>
          CASE Current = "PRECISE" -> ts # <<>> =>
                  Len(ts) = 2 /\ ts[1] + tai_off_ns - ts[2] = ahead
            [] Current = "SFC" -> ts # <<>> => ts = <<ahead>>
            [] OTHER -> /\ Len(ts) <= Takes(Current)
                        /\ ~unread => \A k \in DOMAIN ts :
                              /\ Shown(k) <= now
                              /\ \A l \in 1..k : Shown(l) <= Shown(k)

\* The methods are tried one after the other, and a method prints its rows
\* once.
MethodsInOrder ==
    /\ \A m \in DOMAIN Methods :
          /\ m < method => IsTried(m)
          /\ m > method \/ (m = method /\ mainPc # "read") => printed[m] = 0
    /\ mainPc \notin {"next", "read", "exit"} => method = 1 /\ rows = <<>>
    /\ mainPc = "read" =>
          /\ method \in DOMAIN Methods
          /\ Current = "SFC" => is_sfc
          /\ printed[method] = Len(rows)
          /\ IF Current = "clock_gettime" THEN Len(rows) < Samples
                                          ELSE rows = <<>>
    /\ mainPc = "exit" => method > 5 \/ (Current = "SFC" /\ ~is_sfc)

\* The inductive invariant behind FirstSourceWins, OffsetIsBracketed and
\* EveryMethodIsTried (src/util.c:167-185, src/ptp-clock-offset.c:81-175).
OffsetInv ==
    /\ TypeOK
    /\ rows \in Seq([off : Int, delay : Nat])
    /\ FirstSourceWins
    /\ SourcesInOrder
    /\ StampsInOrder
    /\ MethodsInOrder
    /\ OffsetIsBracketed

\* Ticks are converted with the factors of the frequency that was found.
ScaleFollows ==
    mainPc \in {"device", "open", "next", "read", "exit"} =>
        scale \in {clocks_calc_mult_shift(tsc_khz, NsPerMs, 0),
                  KernelScale(tsc_khz)}

\* The TSC was read when the method began, before all clocks.
TimesFollow ==
    mainPc = "read" /\ Current # "clock_gettime" =>
        /\ b = Tsc(from)
        /\ from <= now
        /\ now <= from + MaxTick * Len(ts)
        /\ Current \in {"OFFSET", "EXTENDED"} =>
              \A k \in DOMAIN ts : from <= Shown(k)

\* What SyscallTimeIsRight rests on.
TimedInv == OffsetInv /\ ScaleFollows /\ TimesFollow

\* Even for 1 kHz the factor of the smallest shift has 32 bits, and there is
\* more than one nanosecond to its period: so it is for 10^6 and 32 bits.
ScaleIsFine == 1 < NsPerMs /\ 2 * NsPerMs <= UINT32_MAX

\* The duration of a system call, converted, has 64 bits.
CallsFit == 2 * (MaxTick * (3 * Samples + 1)) + NsPerMs + 2 <= UINT64_MAX
=============================================================================
