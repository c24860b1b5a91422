--------------------------- MODULE OsjitterProofs ---------------------------
(***************************************************************************)
(* The two parts of osjitter.  The threads (Osjitter), for every number of *)
(* CPUs, every choice of them and whatever calls fail: a thread does not   *)
(* return before its statistics were read, the program does not give up    *)
(* without a reason, and what it reports is complete.  And the measurement *)
(* of a thread (Jitter), for every sequence of gaps between the reads of   *)
(* the TSC: the counters follow what was read, so that no interruption is  *)
(* missed and an overflow of the array is told; the results are exactly    *)
(* the interruptions less the time of the loop; and the percentiles and    *)
(* the deviation that are printed are the ones of these results.           *)
(***************************************************************************)
EXTENDS Osjitter, Jitter, FiniteSetTheorems, SequenceTheorems, TLAPS

Pcs == {"none", "alloc", "await", "measure", "linger", "done"}

\* Nothing has happened when main begins.
LEMMA ControlInit == Init => ControlInv
<1> SUFFICES ASSUME Init PROVE ControlInv
    OBVIOUS
<1>1. /\ pc \in [Cpus -> {"none", "alloc", "await", "measure", "linger", "done"}]
      /\ ret \in [Cpus -> {"none", "null", "ok"}]
      /\ invol \in [Cpus -> BOOLEAN]
    BY Zenon DEF Init
<1>2. cpu \in 0..cpus
    BY OsjitterAssumption DEF Init
<1>3. TypeOK
    BY <1>1, <1>2 DEF Init, TypeOK
<1>4. \A c \in Cpus : pc[c] = "none" /\ ret[c] = "none"
    BY DEF Init
<1>5. mainPc = "check" /\ ~quit_thread
    BY Zenon DEF Init
<1>6. Returned /\ SoFar
    BY <1>4, <1>5 DEF Returned, SoFar
<1> QED
    BY <1>3, <1>5, <1>6 DEF ControlInv, NoFailureWithoutReason, ReportIsComplete

\* The steps before the threads are created: the CPU, the arguments and the
\* parameters (src/osjitter.c:646-661).
LEMMA SettingUp ==
    ASSUME ControlInv, UNCHANGED reason,
           \/ CheckCpuinfo \/ EndOfArgs \/ SetParams \/ Help
           \/ \E b, e \in Named : CpuRange(b, e)
           \/ \E x \in Named : Single(x)
    PROVE  ControlInv'
<1>1. /\ mainPc \in {"check", "args", "params"}
      /\ mainPc' \in {"args", "params", "create", "help"}
      /\ UNCHANGED <<cpu, flags, workers, invol>>
    BY DEF CheckCpuinfo, EndOfArgs, SetParams, Help, CpuRange, Single
<1>2. requested' \subseteq 0..(CPU_SETSIZE - 1) /\ realtime' \in BOOLEAN
  <2>1. CASE CheckCpuinfo \/ EndOfArgs \/ SetParams \/ Help
      BY <2>1
      DEF ControlInv, TypeOK, CheckCpuinfo, EndOfArgs, SetParams, Help, options
  <2>2. CASE \E b, e \in Named : CpuRange(b, e)
      BY <2>2, OsjitterAssumption DEF ControlInv, TypeOK, CpuRange
  <2>3. CASE \E x \in Named : Single(x)
      BY <2>3 DEF ControlInv, TypeOK, Single
  <2> QED
      BY <2>1, <2>2, <2>3
<1>3. TypeOK'
    BY <1>1, <1>2 DEF ControlInv, TypeOK, flags, workers
<1>4. \A c \in Cpus : pc[c] = "none"
    BY <1>1 DEF ControlInv, SoFar
<1>5. ~quit_thread
    BY <1>1 DEF ControlInv, SoFar
<1>6. Returned' /\ SoFar'
    BY <1>1, <1>4, <1>5 DEF ControlInv, Returned, SoFar, flags, workers
<1> QED
    BY <1>1, <1>3, <1>6 DEF ControlInv, NoFailureWithoutReason, ReportIsComplete

\* The arguments do not change any more.
LEMMA MeasuredStays ==
    ASSUME UNCHANGED options
    PROVE  UNCHANGED <<cpu_set, Measured>>
BY DEF options, cpu_set, Measured

\* Creating the threads and starting them (src/osjitter.c:558-618, 674).
LEMMA Creating ==
    ASSUME ControlInv, UNCHANGED <<reason, options>>,
           Create \/ ReadTid \/ StartWork \/ Sleep
    PROVE  ControlInv'
<1>1. UNCHANGED <<cpu_set, Measured>>
    BY MeasuredStays
<1>2. /\ mainPc \in {"create", "tid", "sleep"}
      /\ mainPc' \in {"create", "tid", "sleep", "read", "failed"}
      /\ UNCHANGED <<quit_thread, ret, invol, reason, requested, realtime>>
      /\ start_work' \in BOOLEAN
    BY DEF ControlInv, TypeOK, Create, ReadTid, StartWork, Sleep, flags, workers,
           options
<1>3. /\ mainPc' = "failed" => \/ mainPc = "create" /\ cpu \in Measured \ Online
                               \/ mainPc = "tid" /\ pc[cpu] = "done"
      /\ mainPc' = "tid" => cpu \in Measured /\ cpu' = cpu
      /\ mainPc' = "read" => cpu' = 0
    BY DEF Create, ReadTid, StartWork, Sleep
<1>4. ~quit_thread
    BY <1>2 DEF ControlInv, SoFar
<1>5. cpu' \in 0..cpus
  <2>1. CASE ReadTid
    <3>1. cpu \in 0..(cpus - 1)
        BY <2>1 DEF ReadTid, ControlInv, SoFar, Measured, Cpus
    <3> QED
        BY <2>1, <3>1, OsjitterAssumption DEF ReadTid
  <2>2. CASE Create \/ StartWork \/ Sleep
      BY <2>2, OsjitterAssumption
      DEF Create, StartWork, Sleep, ControlInv, TypeOK
  <2> QED
      BY <2>1, <2>2
<1>6. /\ pc' \in [Cpus -> Pcs]
      /\ \A c \in Cpus : pc'[c] = pc[c] \/ (pc[c] # "done" /\ pc'[c] = "alloc")
  <2>1. CASE Create /\ cpu \in Online
    <3>1. cpu \in Cpus /\ pc' = [pc EXCEPT ![cpu] = "alloc"]
        BY <2>1 DEF Create, Measured
    <3>2. pc[cpu] = "none"
        BY <2>1, <3>1, OsjitterAssumption
        DEF Create, ControlInv, SoFar, TypeOK, Cpus
    <3> QED
        BY <3>1, <3>2 DEF ControlInv, TypeOK, Pcs
  <2>2. CASE ~(Create /\ cpu \in Online)
    <3>1. pc' = pc
        BY <2>2 DEF Create, ReadTid, StartWork, Sleep, workers
    <3> QED
        BY <3>1 DEF ControlInv, TypeOK, Pcs
  <2> QED
      BY <2>1, <2>2
<1>7. TypeOK'
    BY <1>2, <1>5, <1>6 DEF ControlInv, TypeOK, Pcs
<1>8. Returned'
    BY <1>2, <1>6 DEF ControlInv, Returned
<1>9. SoFar'
  <2>1. mainPc' = "create" => \A c \in Cpus : c >= cpu' => pc'[c] = "none"
    <3> SUFFICES ASSUME mainPc' = "create"
                 PROVE  \A c \in Cpus : c >= cpu' => pc'[c] = "none"
        OBVIOUS
    <3>1. mainPc = "tid" /\ cpu' = cpu + 1 /\ pc' = pc /\ cpu \in Cpus
        BY DEF Create, ReadTid, StartWork, Sleep, workers, ControlInv, SoFar, Measured
    <3> QED
        BY <3>1, OsjitterAssumption DEF ControlInv, SoFar, Cpus
  <2>2. mainPc' = "tid" => \A c \in Cpus : c > cpu' => pc'[c] = "none"
    <3> SUFFICES ASSUME mainPc' = "tid"
                 PROVE  \A c \in Cpus : c > cpu' => pc'[c] = "none"
        OBVIOUS
    <3>1. /\ mainPc = "create" /\ cpu' = cpu /\ cpu \in Cpus
          /\ pc' = [pc EXCEPT ![cpu] = "alloc"]
        BY DEF Create, ReadTid, StartWork, Sleep, Measured
    <3>2. \A c \in Cpus : c > cpu => pc[c] = "none" /\ c # cpu
        BY <3>1, OsjitterAssumption DEF ControlInv, SoFar, Cpus
    <3> QED
        BY <3>1, <3>2 DEF ControlInv, TypeOK
  <2>3. mainPc' = "read" => \A c \in Measured : c < cpu' => invol'[c]
      BY <1>3, OsjitterAssumption DEF Measured, Cpus
  <2> QED
      BY <1>1, <1>2, <1>3, <1>4, <2>1, <2>2, <2>3 DEF SoFar
<1>10. NoFailureWithoutReason'
    BY <1>1, <1>2, <1>3, <1>4
    DEF NoFailureWithoutReason, ControlInv, TypeOK, Returned, SoFar, Measured
<1> QED
    BY <1>2, <1>7, <1>8, <1>9, <1>10 DEF ControlInv, ReportIsComplete

\* Looking at the threads and joining them (src/osjitter.c:326-376, 622-640,
\* 686-694).
LEMMA Ending ==
    ASSUME ControlInv, UNCHANGED <<reason, options>>,
           Skip \/ ReadProcSched \/ QuitThread \/ Join \/ Finish
    PROVE  ControlInv'
<1>1. UNCHANGED <<cpu_set, Measured>>
    BY MeasuredStays
<1>2. /\ mainPc \in {"create", "read", "join"}
      /\ mainPc' \in {mainPc, "join", "exit", "failed"}
      /\ UNCHANGED <<start_work, workers, reason, requested, realtime>>
    BY DEF ControlInv, TypeOK, Skip, ReadProcSched, QuitThread, Join, Finish, flags,
           options
<1>3. pc' = pc /\ ret' = ret
    BY <1>2 DEF workers
<1>4. CASE Skip
  <2>1. /\ cpu \in Cpus \ Measured /\ cpu' = cpu + 1
        /\ UNCHANGED <<mainPc, quit_thread, invol>>
      BY <1>4 DEF Skip, Measured, flags
  <2>2. TypeOK'
      BY <1>2, <1>3, <2>1, OsjitterAssumption DEF ControlInv, TypeOK, Cpus
  <2>3. \A c \in Measured : c < cpu' => c < cpu
      BY <2>1, OsjitterAssumption DEF Measured, Cpus
  <2>4. \A c \in Cpus : c >= cpu' => c >= cpu
      BY <2>1, OsjitterAssumption DEF Cpus
  <2>5. SoFar'
      BY <1>1, <1>2, <1>3, <2>1, <2>3, <2>4 DEF ControlInv, SoFar
  <2>6. Returned' /\ NoFailureWithoutReason' /\ ReportIsComplete'
      BY <1>1, <1>2, <1>3, <2>1
      DEF ControlInv, Returned, NoFailureWithoutReason, ReportIsComplete
  <2> QED
      BY <2>2, <2>5, <2>6 DEF ControlInv
<1>5. CASE ReadProcSched
  <2>1. /\ mainPc = "read" /\ cpu \in Measured /\ cpu \in Cpus
        /\ UNCHANGED <<quit_thread>>
      BY <1>5 DEF ReadProcSched, Measured, flags
  <2>2. ~quit_thread
      BY <2>1 DEF ControlInv, SoFar
  <2>3. ret[cpu] \in {"none", "null"}
      BY <2>1, <2>2 DEF ControlInv, TypeOK, Returned
  <2>4. CASE mainPc' = "failed"
    <3>1. pc[cpu] = "done" /\ cpu' = cpu /\ invol' = invol
        BY <1>5, <2>1, <2>4 DEF ReadProcSched
    <3>2. reason
        BY <2>1, <2>3, <3>1 DEF ControlInv, Returned
    <3>3. TypeOK' /\ SoFar'
        BY <1>2, <1>3, <2>1, <2>2, <2>4, <3>1 DEF ControlInv, TypeOK, SoFar
    <3> QED
        BY <1>2, <1>3, <2>1, <2>4, <3>2, <3>3
        DEF ControlInv, Returned, NoFailureWithoutReason, ReportIsComplete
  <2>5. CASE mainPc' # "failed"
    <3>1. invol' = [invol EXCEPT ![cpu] = TRUE] /\ cpu' = cpu + 1 /\ mainPc' = "read"
        BY <1>5, <2>1, <2>5 DEF ReadProcSched
    <3>2. TypeOK'
        BY <1>2, <1>3, <2>1, <3>1, OsjitterAssumption
        DEF ControlInv, TypeOK, Cpus
    <3>3. \A c \in Measured : c < cpu' => invol'[c]
        BY <2>1, <3>1, OsjitterAssumption
        DEF ControlInv, TypeOK, SoFar, Measured, Cpus
    <3>4. SoFar'
        BY <1>1, <2>1, <2>2, <3>1, <3>3 DEF SoFar
    <3> QED
        BY <1>2, <1>3, <2>1, <3>1, <3>2, <3>4
        DEF ControlInv, Returned, NoFailureWithoutReason, ReportIsComplete
  <2> QED
      BY <2>4, <2>5
<1>6. CASE QuitThread
  <2>1. /\ mainPc = "read" /\ mainPc' = "join" /\ cpu = cpus /\ cpu' = 0
        /\ quit_thread' = TRUE /\ invol' = invol
      BY <1>6 DEF QuitThread
  <2>2. \A c \in Measured : c < cpu /\ ~(c < cpu')
      BY <2>1, OsjitterAssumption DEF Measured, Cpus
  <2>3. TypeOK'
      BY <1>2, <1>3, <2>1, OsjitterAssumption DEF ControlInv, TypeOK
  <2>4. SoFar'
      BY <1>1, <2>1, <2>2 DEF ControlInv, SoFar
  <2> QED
      BY <1>2, <1>3, <2>1, <2>3, <2>4
      DEF ControlInv, Returned, NoFailureWithoutReason, ReportIsComplete
<1>7. CASE Join
  <2>1. /\ mainPc = "join" /\ cpu \in Cpus /\ cpu \in Measured /\ pc[cpu] = "done"
        /\ cpu' = cpu + 1 /\ UNCHANGED <<mainPc, quit_thread, invol>>
      BY <1>7 DEF Join, Measured, flags
  <2>2. TypeOK'
      BY <1>2, <1>3, <2>1, OsjitterAssumption DEF ControlInv, TypeOK, Cpus
  <2>3. \A c \in Measured : c < cpu' => c < cpu \/ c = cpu
      BY <2>1, OsjitterAssumption DEF Measured, Cpus
  <2>4. SoFar'
      BY <1>1, <1>3, <2>1, <2>3 DEF ControlInv, SoFar
  <2> QED
      BY <1>1, <1>2, <1>3, <2>1, <2>2, <2>4
      DEF ControlInv, Returned, NoFailureWithoutReason, ReportIsComplete
<1>8. CASE Finish
  <2>1. /\ mainPc = "join" /\ cpu = cpus
        /\ mainPc' = IF \E c \in Measured : ret[c] = "null" THEN "failed" ELSE "exit"
        /\ UNCHANGED <<cpu, quit_thread, invol>>
      BY <1>8 DEF Finish, flags
  <2>2. quit_thread /\ \A c \in Measured : invol[c]
      BY <2>1 DEF ControlInv, SoFar
  <2>3. \A c \in Measured : c \in Cpus /\ pc[c] = "done"
      BY <2>1, OsjitterAssumption DEF ControlInv, SoFar, Measured, Cpus
  <2>4. \A c \in Measured : ret[c] \in {"null", "ok"} /\ (ret[c] = "null" => reason)
      BY <2>3 DEF ControlInv, TypeOK, Returned
  <2>5. TypeOK'
      BY <1>2, <1>3, <2>1 DEF ControlInv, TypeOK
  <2>6. SoFar'
      BY <1>1, <2>1, <2>2 DEF SoFar
  <2>7. Returned'
      BY <1>2, <1>3, <2>1 DEF ControlInv, Returned
  <2>8. NoFailureWithoutReason' /\ ReportIsComplete'
      BY <1>1, <1>2, <1>3, <2>1, <2>2, <2>4
      DEF NoFailureWithoutReason, ReportIsComplete
  <2> QED
      BY <2>5, <2>6, <2>7, <2>8 DEF ControlInv
<1> QED
    BY <1>4, <1>5, <1>6, <1>7, <1>8

\* A call of main fails, or an argument is refused.
LEMMA GivingUp ==
    ASSUME ControlInv, MainFails \/ BadArgument
    PROVE  ControlInv'
<1>1. /\ mainPc' = "failed" /\ reason' /\ reason' = TRUE
      /\ UNCHANGED <<requested, realtime, cpu, start_work, quit_thread, pc, ret, invol>>
    BY DEF MainFails, BadArgument, options, flags, workers
<1>2. UNCHANGED <<cpu_set, Measured>>
    BY <1>1, MeasuredStays DEF options
<1>3. TypeOK' /\ Returned'
    BY <1>1 DEF ControlInv, TypeOK, Returned
<1>4. SoFar'
    BY <1>1, <1>2 DEF ControlInv, SoFar
<1> QED
    BY <1>1, <1>3, <1>4 DEF ControlInv, NoFailureWithoutReason, ReportIsComplete

\* The threads: none returns its results before quit_thread
\* (src/osjitter.c:381-494).
LEMMA Working ==
    ASSUME ControlInv, NEW c \in Cpus, Worker(c) \/ CallocFails(c)
    PROVE  ControlInv'
<1>1. /\ UNCHANGED <<requested, realtime, mainPc, cpu, start_work, quit_thread, invol>>
      /\ reason => reason'
      /\ reason' \in BOOLEAN
    BY DEF Worker, Alloc, AwaitStart, Measure, AwaitQuit, CallocFails, ControlInv,
           TypeOK, options, flags
<1>2. UNCHANGED <<cpu_set, Measured>>
    BY <1>1, MeasuredStays DEF options
<1>3. PICK p \in {"await", "measure", "linger", "done"},
           r \in {"none", "null", "ok"} :
        /\ pc[c] \notin {"none", "done"}
        /\ pc' = [pc EXCEPT ![c] = p]
        /\ ret' = [ret EXCEPT ![c] = r]
        /\ p = "done" <=> r # "none"
        /\ r = "null" => reason'
        /\ r = "ok" => quit_thread
  <2>1. ret = [ret EXCEPT ![c] = ret[c]]
      BY DEF ControlInv, TypeOK
  <2>2. pc[c] # "done" => ret[c] = "none"
      BY DEF ControlInv, Returned
  <2>3. CASE Worker(c) /\ ~AwaitQuit(c)
    <3>1. /\ pc[c] \in {"alloc", "await", "measure"}
          /\ ret' = ret
          /\ \E p \in {"await", "measure", "linger"} : pc' = [pc EXCEPT ![c] = p]
        BY <2>3 DEF Worker, Alloc, AwaitStart, Measure
    <3> QED
        BY <2>1, <2>2, <3>1
  <2>4. CASE AwaitQuit(c)
      BY <2>4 DEF AwaitQuit
  <2>5. CASE CallocFails(c)
      BY <2>5 DEF CallocFails
  <2> QED
      BY <2>3, <2>4, <2>5
<1>4. TypeOK'
    BY <1>1, <1>3 DEF ControlInv, TypeOK
<1>5. Returned'
    BY <1>1, <1>3 DEF ControlInv, TypeOK, Returned
<1>6. \A d \in Cpus : /\ pc[d] = "none" => pc'[d] = "none"
                      /\ pc[d] = "done" => pc'[d] = "done"
                      /\ ret[d] = "ok" => ret'[d] = "ok"
    BY <1>3 DEF ControlInv, TypeOK, Returned
<1>7. SoFar'
    BY <1>1, <1>2, <1>6 DEF ControlInv, SoFar, Measured
<1>8. NoFailureWithoutReason' /\ ReportIsComplete'
    BY <1>1, <1>2, <1>6
    DEF ControlInv, NoFailureWithoutReason, ReportIsComplete, Measured
<1> QED
    BY <1>4, <1>5, <1>7, <1>8 DEF ControlInv

\* Every step keeps the invariant.
LEMMA ControlStep == ControlInv /\ [Next]_vars => ControlInv'
<1> SUFFICES ASSUME ControlInv, [Next]_vars PROVE ControlInv'
    OBVIOUS
<1>1. CASE Main
  <2>1. CASE CheckCpuinfo \/ EndOfArgs \/ SetParams
      BY <1>1, <2>1, SettingUp DEF Main
  <2>2. CASE /\ UNCHANGED options
             /\ Create \/ ReadTid \/ StartWork \/ Sleep
      BY <1>1, <2>2, Creating DEF Main
  <2>3. CASE /\ UNCHANGED options
             /\ Skip \/ ReadProcSched \/ QuitThread \/ Join \/ Finish
      BY <1>1, <2>3, Ending DEF Main
  <2> QED
      BY <1>1, <2>1, <2>2, <2>3 DEF Main
<1>2. CASE Options
    BY <1>2, SettingUp, GivingUp DEF Options
<1>3. CASE \E c \in Cpus : Worker(c)
    BY <1>3, Working
<1>4. CASE Failure
    BY <1>4, GivingUp, Working DEF Failure
<1>5. CASE UNCHANGED vars
  <2>1. UNCHANGED <<requested, realtime, mainPc, cpu, start_work, quit_thread,
                    pc, ret, invol, reason>>
      BY <1>5 DEF vars, options, flags, workers
  <2>2. UNCHANGED <<cpu_set, Measured>>
      BY <2>1, MeasuredStays DEF options
  <2> QED
      BY <2>1, <2>2
      DEF ControlInv, TypeOK, Returned, SoFar, NoFailureWithoutReason, ReportIsComplete
<1> QED
    BY <1>1, <1>2, <1>3, <1>4, <1>5 DEF Next

\* The inductive invariant of osjitter's threads, for every number of CPUs and
\* every choice of them (src/osjitter.c:644-707).
THEOREM ControlInvAlways == Spec => []ControlInv
BY ControlInit, ControlStep, PTL DEF Spec

\* The statistics of a thread are read before it returns its results: "gone
\* after the thread returned" (src/osjitter.c:359-361) never happens to a
\* thread that has measured.
THEOREM ReadBeforeReturnAlways == Spec => []ReadBeforeReturn
<1>1. ControlInv => ReadBeforeReturn
    BY DEF ControlInv, Returned, SoFar, ReadBeforeReturn, Measured
<1> QED
    BY <1>1, ControlInvAlways, PTL

\* The program gives up only when a call failed, an argument was refused or a
\* requested CPU is offline (src/osjitter.c:359-361).
THEOREM NeverFailsForNothing == Spec => []NoFailureWithoutReason
<1>1. ControlInv => NoFailureWithoutReason
    BY DEF ControlInv
<1> QED
    BY <1>1, ControlInvAlways, PTL

\* What is reported is complete: each thread has measured, has handed over its
\* results and was looked at while it was alive (src/osjitter.c:490-494).
THEOREM ReportAlwaysComplete == Spec => []ReportIsComplete
<1>1. ControlInv => ReportIsComplete
    BY DEF ControlInv
<1> QED
    BY <1>1, ControlInvAlways, PTL
-----------------------------------------------------------------------------
(***************************************************************************)
(* Numbers, arrays and positions                                           *)
(***************************************************************************)

\* 1 << k is positive: it is the number of subsets of k things.
LEMMA PowerOfTwo == ASSUME NEW k \in Nat PROVE 2^k \in Nat \ {0}
<1>1. IsFiniteSet(1..k) /\ Cardinality(1..k) = k
    BY FS_Interval
<1>2. /\ IsFiniteSet(SUBSET (1..k))
      /\ Cardinality(SUBSET (1..k)) = 2^k
    BY <1>1, FS_SUBSET
<1>3. Cardinality(SUBSET (1..k)) \in Nat \ {0}
    BY <1>2, FS_CardinalityType, FS_EmptySet
<1> QED
    BY <1>2, <1>3

\* The words have room for more than 0.
LEMMA Words ==
    /\ W32 \in Nat \ {0}
    /\ W64 \in Nat \ {0}
    /\ UINT32_MAX = W32 - 1
    /\ UINT64_MAX = W64 - 1
    /\ W32 <= W64
    /\ \A x \in Int : U32(x) \in 0..UINT32_MAX
    /\ \A x \in Int : U64(x) \in 0..UINT64_MAX
<1>1. 2^Bits \in Nat \ {0}
    BY PowerOfTwo, ClockScaleAssumption
<1>2. W32 \in Nat \ {0}
    BY <1>1 DEF W32
<1>3. \A x \in Nat \ {0} : x * x \in Nat \ {0} /\ x <= x * x
    OBVIOUS
<1>4. W64 \in Nat \ {0} /\ W32 <= W64
    BY <1>2, <1>3 DEF W64
<1> QED
    BY <1>2, <1>4 DEF UINT32_MAX, UINT64_MAX, U32, U64

\* A value that has room in a word stays.
LEMMA NoWrap64 == ASSUME NEW x \in 0..UINT64_MAX PROVE U64(x) = x
<1>1. W64 \in Nat \ {0} /\ UINT64_MAX = W64 - 1
    BY Words
<1>2. x % W64 = x
    BY <1>1
<1> QED
    BY <1>2 DEF U64

\* The same with 32 bits.
LEMMA NoWrap32 == ASSUME NEW x \in 0..UINT32_MAX PROVE U32(x) = x
<1>1. W32 \in Nat \ {0} /\ UINT32_MAX = W32 - 1
    BY Words
<1>2. x % W32 = x
    BY <1>1
<1> QED
    BY <1>2 DEF U32

\* Constants do not change.
LEMMA Constant ==
    /\ UINT32_MAX' = UINT32_MAX
    /\ UINT64_MAX' = UINT64_MAX
    /\ tsc_thresh' = tsc_thresh
    /\ GapsFit' = GapsFit
    /\ runtime_s' = runtime_s => n' = n
<1>1. W32' = W32 /\ W64' = W64
    BY DEF W32, W64
<1>2. UINT32_MAX' = UINT32_MAX /\ UINT64_MAX' = UINT64_MAX
    BY <1>1 DEF UINT32_MAX, UINT64_MAX
<1> QED
    BY <1>1, <1>2 DEF GapsFit, tsc_thresh, n, U32

\* The number of samples.
LEMMA Sizes == runtime_s \in Runtimes => n \in Nat
<1> SUFFICES ASSUME runtime_s \in Runtimes PROVE n \in Nat
    OBVIOUS
<1>1. runtime_s * SamplesPerS \in Int
  <2>1. runtime_s \in Int /\ SamplesPerS \in Int
      BY JitterAssumption
  <2> QED
      BY <2>1
<1> QED
    BY <1>1, Words DEF n

\* An array is a sequence.
LEMMA ArrayIsSeq ==
    ASSUME NEW S, NEW len \in Nat, NEW f \in [1..len -> S]
    PROVE  f \in Seq(S) /\ Len(f) = len /\ DOMAIN f = 1..len
OBVIOUS

\* A set of positions, and one position more.
LEMMA OneMoreAbove ==
    ASSUME NEW len \in Nat, NEW A \in SUBSET (1..len), NEW above \in BOOLEAN
    PROVE  /\ Cardinality(A) \in Nat
           /\ Cardinality(IF above THEN A \cup {len + 1} ELSE A) =
                 Cardinality(A) + IF above THEN 1 ELSE 0
<1>1. IsFiniteSet(1..len)
    BY FS_Interval
<1>2. IsFiniteSet(A) /\ Cardinality(A) \in Nat
    BY <1>1, FS_Subset, FS_CardinalityType
<1>3. len + 1 \notin A
    OBVIOUS
<1>4. Cardinality(A \cup {len + 1}) = Cardinality(A) + 1
    BY <1>2, <1>3, FS_AddElement
<1> QED
    BY <1>2, <1>4

\* A set of positions that has another one as a part is not smaller.
LEMMA PositionsCount ==
    ASSUME NEW len \in Nat, NEW B \in SUBSET (1..len), NEW A \in SUBSET B
    PROVE  /\ Cardinality(A) \in Nat /\ Cardinality(B) \in Nat
           /\ Cardinality(A) <= Cardinality(B)
<1>1. IsFiniteSet(1..len)
    BY FS_Interval
<1>2. IsFiniteSet(B)
    BY <1>1, FS_Subset
<1>3. IsFiniteSet(A) /\ Cardinality(A) <= Cardinality(B)
    BY <1>2, FS_Subset
<1> QED
    BY <1>2, <1>3, FS_CardinalityType

\* The gaps are as many as the reads, less one.
LEMMA GapsType ==
    ASSUME NEW r \in Seq(Nat), r # <<>>
    PROVE  LET g == [k \in 1..(Len(r) - 1) |-> r[k + 1] - r[k]]
           IN  /\ g \in Seq(Int) /\ Len(g) = Len(r) - 1
               /\ DOMAIN g = 1..(Len(r) - 1)
<1> DEFINE g == [k \in 1..(Len(r) - 1) |-> r[k + 1] - r[k]]
<1>1. Len(r) - 1 \in Nat
    OBVIOUS
<1>2. g \in [1..(Len(r) - 1) -> Int]
    BY <1>1
<1> HIDE DEF g
<1>3. g \in Seq(Int) /\ Len(g) = Len(r) - 1 /\ DOMAIN g = 1..(Len(r) - 1)
    BY <1>1, <1>2, ArrayIsSeq
<1> QED
    BY <1>3 DEF g

\* One more read: the gaps so far stay, and the new one is added, which may be
\* an interruption.
LEMMA OneMoreRead ==
    ASSUME reads \in Seq(Nat), reads # <<>>, NEW t \in Nat,
           reads' = Append(reads, t), NEW len, len = Len(reads) - 1
    PROVE  /\ len \in Nat
           /\ Len(gaps) = len /\ DOMAIN gaps = 1..len
           /\ Len(gaps') = len + 1 /\ DOMAIN gaps' = 1..(len + 1)
           /\ \A k \in 1..len : gaps'[k] = gaps[k]
           /\ gaps'[len + 1] = t - reads[len + 1]
           /\ \A m \in 0..len : UpTo(m)' = UpTo(m)
           /\ UpTo(len) \in Nat
           /\ UpTo(len + 1)' = UpTo(len)
                 + IF t - reads[len + 1] > tsc_thresh THEN 1 ELSE 0
<1>1. len \in Nat
    OBVIOUS
<1>2. /\ reads' \in Seq(Nat)
      /\ reads' # <<>>
      /\ Len(reads') = len + 2
      /\ \A k \in 1..(len + 1) : reads'[k] = reads[k]
      /\ reads'[len + 2] = t
    OBVIOUS
<1>3. Len(gaps) = len /\ DOMAIN gaps = 1..len
    BY GapsType DEF gaps
<1>4. Len(gaps') = len + 1 /\ DOMAIN gaps' = 1..(len + 1)
    BY <1>1, <1>2, GapsType DEF gaps
<1>5. \A k \in 1..len : gaps'[k] = gaps[k]
    BY <1>1, <1>2 DEF gaps
<1>6. gaps'[len + 1] = t - reads[len + 1]
    BY <1>1, <1>2 DEF gaps
<1>7. tsc_thresh' = tsc_thresh
    BY Constant
<1>8. \A m \in 0..len : UpTo(m)' = UpTo(m)
  <2> SUFFICES ASSUME NEW m \in 0..len PROVE UpTo(m)' = UpTo(m)
      OBVIOUS
  <2>1. {k \in 1..m : gaps'[k] > tsc_thresh} =
           {k \in 1..m : gaps[k] > tsc_thresh}
      BY <1>1, <1>5
  <2> QED
      BY <2>1, <1>7 DEF UpTo
<1>9. /\ UpTo(len) \in Nat
      /\ UpTo(len + 1)' = UpTo(len)
            + IF gaps'[len + 1] > tsc_thresh THEN 1 ELSE 0
  <2> DEFINE A == {k \in 1..len : gaps[k] > tsc_thresh}
             B == {k \in 1..(len + 1) : gaps'[k] > tsc_thresh}
             above == gaps'[len + 1] > tsc_thresh
  <2>1. UpTo(len) = Cardinality(A)
      BY DEF UpTo
  <2>2. UpTo(len + 1)' = Cardinality(B)
      BY <1>7 DEF UpTo
  <2>3. B = IF above THEN A \cup {len + 1} ELSE A
      BY <1>1, <1>5
  <2>4. A \in SUBSET (1..len) /\ above \in BOOLEAN
      OBVIOUS
  <2> HIDE DEF A, B, above
  <2>5. /\ UpTo(len) \in Nat
        /\ UpTo(len + 1)' = UpTo(len) + IF above THEN 1 ELSE 0
      BY <1>1, <2>1, <2>2, <2>3, <2>4, OneMoreAbove
  <2> QED
      BY <2>5 DEF above
<1> QED
    BY <1>1, <1>3, <1>4, <1>5, <1>6, <1>8, <1>9
-----------------------------------------------------------------------------
(***************************************************************************)
(* Sums                                                                    *)
(***************************************************************************)

\* A set of numbers has a least one.
LEMMA HasLeast ==
    ASSUME NEW S, S \subseteq Nat, S # {}
    PROVE  \E m \in S : \A l \in S : ~(l < m)
<1>1. \E m \in S : \A l \in S : ~(<<l, m>> \in OpToRel(<, Nat))
    BY NatLessThanWellFounded, WFMin, Zenon
<1> QED
    BY <1>1 DEF OpToRel

\* The partial sums of an array exist and are integers: otherwise there would
\* be a first one that does not.
LEMMA PartialSumsExist ==
    ASSUME NEW s \in Seq(Int)
    PROVE  \E sum \in [0..Len(s) -> Int] :
              sum = [k \in 0..Len(s) |-> IF k = 0 THEN 0 ELSE sum[k - 1] + s[k]]
<1> DEFINE Sums(m, sum) ==
               sum = [k \in 0..m |-> IF k = 0 THEN 0 ELSE sum[k - 1] + s[k]]
           Missing == {m \in 0..Len(s) : \A sum \in [0..m -> Int] : ~Sums(m, sum)}
<1>1. Len(s) \in Nat /\ \A k \in 1..Len(s) : s[k] \in Int
    BY LenProperties, ElementOfSeq
<1>2. CASE Missing = {}
  <2>1. Len(s) \in 0..Len(s)
      BY <1>1
  <2> QED
      BY <1>2, <2>1
<1>3. CASE Missing # {}
  <2>1. Missing \subseteq Nat
      BY <1>1
  <2>2. \E m \in Missing : \A l \in Missing : ~(l < m)
    <3> HIDE DEF Missing
    <3> QED
        BY <1>3, <2>1, HasLeast
  <2>3. PICK m \in Missing : \A l \in Missing : ~(l < m)
      BY <2>2
  <2>4. m \in 0..Len(s) /\ \A sum \in [0..m -> Int] : ~Sums(m, sum)
      OBVIOUS
  <2>5. CASE m = 0
    <3> DEFINE sum == [k \in 0..0 |-> 0]
    <3>1. sum \in [0..m -> Int] /\ Sums(m, sum)
        BY <2>5
    <3> HIDE DEF sum, Sums
    <3> QED
        BY <2>4, <3>1
  <2>6. CASE m # 0
    <3>1. m - 1 \in 0..Len(s) /\ m - 1 < m /\ m \in 1..Len(s)
        BY <1>1, <2>4, <2>6
    <3>2. PICK old \in [0..(m - 1) -> Int] : Sums(m - 1, old)
        BY <2>3, <3>1
    <3> DEFINE sum == [k \in 0..m |-> IF k = m THEN old[m - 1] + s[m] ELSE old[k]]
    <3>3. /\ sum \in [0..m -> Int] /\ sum[m] = sum[m - 1] + s[m]
          /\ \A k \in 0..(m - 1) : sum[k] = old[k]
        BY <1>1, <3>1, <3>2
    <3>4. \A k \in 0..m : sum[k] = IF k = 0 THEN 0 ELSE sum[k - 1] + s[k]
      <4>1. ASSUME NEW k \in 0..(m - 1)
            PROVE  sum[k] = IF k = 0 THEN 0 ELSE sum[k - 1] + s[k]
        <5> HIDE DEF sum
        <5>1. old[k] = IF k = 0 THEN 0 ELSE old[k - 1] + s[k]
            BY <3>2
        <5>2. k # 0 => k - 1 \in 0..(m - 1)
            BY <3>1
        <5> QED
            BY <3>3, <5>1, <5>2
      <4> HIDE DEF sum
      <4> QED
          BY <1>1, <2>4, <2>6, <3>3, <4>1
    <3>5. Sums(m, sum)
      <4> HIDE DEF sum
      <4> QED
          BY <3>3, <3>4
    <3> HIDE DEF sum, Sums
    <3> QED
        BY <2>4, <3>3, <3>5
  <2> QED
      BY <2>5, <2>6
<1> QED
    BY <1>2, <1>3

\* Two functions that begin alike and go on alike agree.
LEMMA PartialSumsAgree ==
    ASSUME NEW len \in Nat, NEW f, NEW g, f[0] = g[0],
           \A k \in 1..len : f[k - 1] = g[k - 1] => f[k] = g[k]
    PROVE  f[len] = g[len]
<1> DEFINE Differ == {k \in 0..len : f[k] # g[k]}
<1>1. CASE Differ = {}
    BY <1>1
<1>2. CASE Differ # {}
  <2>1. Differ \subseteq Nat
      OBVIOUS
  <2>2. \E k \in Differ : \A l \in Differ : ~(l < k)
    <3> HIDE DEF Differ
    <3> QED
        BY <1>2, <2>1, HasLeast
  <2>3. PICK k \in Differ : \A l \in Differ : ~(l < k)
      BY <2>2
  <2>4. k \in 0..len /\ f[k] # g[k] /\ k # 0
      OBVIOUS
  <2>5. k - 1 \in 0..len /\ k - 1 < k /\ k \in 1..len
      BY <2>4
  <2>6. f[k - 1] = g[k - 1]
      BY <2>3, <2>5
  <2> QED
      BY <2>4, <2>5, <2>6
<1> QED
    BY <1>1, <1>2

\* What Total is: the last one of the partial sums, whichever they are.
LEMMA TotalIsLastSum ==
    ASSUME NEW s \in Seq(Int)
    PROVE  \E sum \in [0..Len(s) -> Int] :
              /\ \A k \in 0..Len(s) :
                    sum[k] = IF k = 0 THEN 0 ELSE sum[k - 1] + s[k]
              /\ Total(s) = sum[Len(s)]
<1> DEFINE Sums(sum) ==
               sum = [k \in 0..Len(s) |-> IF k = 0 THEN 0 ELSE sum[k - 1] + s[k]]
           chosen == CHOOSE sum : Sums(sum)
<1>1. PICK sum \in [0..Len(s) -> Int] : Sums(sum)
    BY PartialSumsExist
<1>2. Sums(chosen)
  <2> HIDE DEF Sums
  <2> QED
      BY <1>1
<1>3. Total(s) = chosen[Len(s)]
    BY DEF Total
<1>4. Len(s) \in Nat
    BY LenProperties
<1> HIDE DEF chosen
<1>5. \A k \in 0..Len(s) :
          chosen[k] = IF k = 0 THEN 0 ELSE chosen[k - 1] + s[k]
    BY <1>2
<1>6. \A k \in 0..Len(s) : sum[k] = IF k = 0 THEN 0 ELSE sum[k - 1] + s[k]
    BY <1>1
<1>7. chosen[Len(s)] = sum[Len(s)]
  <2>1. chosen[0] = sum[0]
      BY <1>4, <1>5, <1>6
  <2>2. ASSUME NEW k \in 1..Len(s), chosen[k - 1] = sum[k - 1]
        PROVE  chosen[k] = sum[k]
      BY <1>4, <1>5, <1>6, <2>2
  <2> QED
      BY <1>4, <2>1, <2>2, PartialSumsAgree
<1> QED
    BY <1>3, <1>6, <1>7

\* One number more is added to the total.
LEMMA TotalAppend ==
    ASSUME NEW s \in Seq(Int)
    PROVE  /\ Total(s) \in Int
           /\ Len(s) = 0 => Total(s) = 0
           /\ \A d \in Int : Total(Append(s, d)) = Total(s) + d
<1>1. PICK f \in [0..Len(s) -> Int] :
          /\ \A k \in 0..Len(s) : f[k] = IF k = 0 THEN 0 ELSE f[k - 1] + s[k]
          /\ Total(s) = f[Len(s)]
    BY TotalIsLastSum
<1>2. Len(s) \in Nat /\ Len(s) \in 0..Len(s)
    BY LenProperties
<1>3. Total(s) \in Int /\ (Len(s) = 0 => Total(s) = 0)
    BY <1>1, <1>2
<1>4. ASSUME NEW d \in Int
      PROVE  Total(Append(s, d)) = Total(s) + d
  <2> DEFINE t == Append(s, d)
  <2>1. /\ t \in Seq(Int) /\ Len(t) = Len(s) + 1 /\ t[Len(s) + 1] = d
        /\ \A k \in 1..Len(s) : s[k] = t[k]
      BY AppendProperties
  <2> HIDE DEF t
  <2>2. PICK g \in [0..Len(t) -> Int] :
            /\ \A k \in 0..Len(t) : g[k] = IF k = 0 THEN 0 ELSE g[k - 1] + t[k]
            /\ Total(t) = g[Len(t)]
      BY <2>1, TotalIsLastSum
  <2>3. \A k \in 0..Len(s) : g[k] = IF k = 0 THEN 0 ELSE g[k - 1] + t[k]
      BY <1>2, <2>1, <2>2
  <2>4. f[Len(s)] = g[Len(s)]
    <3>1. f[0] = g[0]
        BY <1>1, <1>2, <2>3
    <3>2. ASSUME NEW k \in 1..Len(s), f[k - 1] = g[k - 1]
          PROVE  f[k] = g[k]
        BY <1>1, <1>2, <2>1, <2>3, <3>2
    <3> QED
        BY <1>2, <3>1, <3>2, PartialSumsAgree
  <2>5. g[Len(s) + 1] = g[Len(s)] + d
    <3>1. Len(s) + 1 \in 0..Len(t) /\ Len(s) + 1 # 0 /\ (Len(s) + 1) - 1 = Len(s)
        BY <1>2, <2>1
    <3> QED
        BY <2>1, <2>2, <3>1
  <2>6. Total(t) = Total(s) + d
      BY <1>1, <2>1, <2>2, <2>4, <2>5
  <2> QED
      BY <2>6 DEF t
<1> QED
    BY <1>3, <1>4

\* What each of them is less, the total is less as many times.
LEMMA TotalShift ==
    ASSUME NEW s \in Seq(Int), NEW c \in Int
    PROVE  Total([k \in DOMAIN s |-> s[k] - c]) = Total(s) - c * Len(s)
<1> DEFINE t == [k \in DOMAIN s |-> s[k] - c]
<1>1. /\ Len(s) \in Nat /\ DOMAIN s = 1..Len(s)
      /\ \A k \in 1..Len(s) : s[k] \in Int
    BY LenProperties, ElementOfSeq
<1>2. /\ t \in Seq(Int) /\ Len(t) = Len(s)
      /\ \A k \in 1..Len(s) : t[k] = s[k] - c
  <2>1. t \in [1..Len(s) -> Int]
      BY <1>1
  <2>2. \A k \in 1..Len(s) : t[k] = s[k] - c
      BY <1>1
  <2> HIDE DEF t
  <2> QED
      BY <1>1, <2>1, <2>2, ArrayIsSeq
<1> HIDE DEF t
<1>3. PICK f \in [0..Len(s) -> Int] :
          /\ \A k \in 0..Len(s) : f[k] = IF k = 0 THEN 0 ELSE f[k - 1] + s[k]
          /\ Total(s) = f[Len(s)]
    BY TotalIsLastSum
<1>4. PICK g \in [0..Len(s) -> Int] :
          /\ \A k \in 0..Len(s) : g[k] = IF k = 0 THEN 0 ELSE g[k - 1] + t[k]
          /\ Total(t) = g[Len(s)]
    BY <1>2, TotalIsLastSum
<1> DEFINE shifted == [k \in 0..Len(s) |-> f[k] - c * k]
<1>5. g[Len(s)] = shifted[Len(s)]
  <2>1. g[0] = shifted[0]
    <3>1. 0 \in 0..Len(s) /\ c * 0 = 0
        BY <1>1
    <3>2. f[0] = 0 /\ g[0] = 0
        BY <1>3, <1>4, <3>1
    <3>3. shifted[0] = f[0] - c * 0
        BY <3>1
    <3> HIDE DEF shifted
    <3> QED
        BY <3>1, <3>2, <3>3
  <2>2. ASSUME NEW k \in 1..Len(s), g[k - 1] = shifted[k - 1]
        PROVE  g[k] = shifted[k]
    <3>1. k \in 0..Len(s) /\ k - 1 \in 0..Len(s) /\ k # 0 /\ k \in Int
        BY <1>1
    <3>2. g[k] = g[k - 1] + (s[k] - c)
        BY <1>2, <1>4, <3>1
    <3>3. shifted[k - 1] = f[k - 1] - c * (k - 1) /\ shifted[k] = f[k] - c * k
        BY <3>1
    <3>4. f[k] = f[k - 1] + s[k]
        BY <1>3, <3>1
    <3>5. f[k - 1] \in Int /\ s[k] \in Int
        BY <1>1, <3>1
    <3>6. PICK p \in Int : p = c * k /\ p - c = c * (k - 1)
      <4>1. c * k \in Int /\ c * k - c = c * (k - 1)
          BY <3>1
      <4> QED
          BY <4>1
    <3> HIDE DEF shifted
    <3> QED
        BY <2>2, <3>2, <3>3, <3>4, <3>5, <3>6
  <2> HIDE DEF shifted
  <2> QED
      BY <1>1, <2>1, <2>2, PartialSumsAgree
<1>6. Len(s) \in 0..Len(s)
    BY <1>1
<1> QED
    BY <1>3, <1>4, <1>5, <1>6 DEF t

\* A total of numbers that are not negative is not negative.
LEMMA TotalNotNegative ==
    ASSUME NEW s \in Seq(Int), \A k \in 1..Len(s) : s[k] >= 0
    PROVE  Total(s) \in Nat
<1>1. PICK f \in [0..Len(s) -> Int] :
          /\ \A k \in 0..Len(s) : f[k] = IF k = 0 THEN 0 ELSE f[k - 1] + s[k]
          /\ Total(s) = f[Len(s)]
    BY TotalIsLastSum
<1>2. Len(s) \in Nat /\ \A k \in 1..Len(s) : s[k] \in Int
    BY LenProperties, ElementOfSeq
<1> DEFINE negative == {k \in 0..Len(s) : f[k] < 0}
<1>3. CASE negative = {}
    BY <1>1, <1>2, <1>3
<1>4. CASE negative # {}
  <2>1. negative \subseteq Nat
      BY <1>2
  <2>2. \E k \in negative : \A l \in negative : ~(l < k)
    <3> HIDE DEF negative
    <3> QED
        BY <1>4, <2>1, HasLeast
  <2>3. PICK k \in negative : \A l \in negative : ~(l < k)
      BY <2>2
  <2>4. k \in 0..Len(s) /\ f[k] < 0 /\ k # 0
      BY <1>1, <1>2
  <2>5. k - 1 \in 0..Len(s) /\ k - 1 < k /\ k \in 1..Len(s)
      BY <1>2, <2>4
  <2>6. ~(f[k - 1] < 0)
      BY <2>3, <2>5
  <2>7. f[k] = f[k - 1] + s[k] /\ s[k] \in Int /\ s[k] >= 0 /\ f[k - 1] \in Int
      BY <1>1, <1>2, <2>4, <2>5
  <2> QED
      BY <2>4, <2>6, <2>7
<1> QED
    BY <1>3, <1>4
-----------------------------------------------------------------------------
(***************************************************************************)
(* The conversion of ticks                                                 *)
(***************************************************************************)

\* A set of shifts has a largest one, by the least number principle.
LEMMA SetHasMax ==
    ASSUME NEW top \in Nat, NEW S \in SUBSET (0..top), S # {}
    PROVE  Max(S) \in S /\ \A y \in S : y <= Max(S)
<1> DEFINE T == {d \in Nat : top - d \in S}
<1>1. T \subseteq Nat /\ T # {}
  <2>1. PICK k \in S : TRUE
      OBVIOUS
  <2>2. top - k \in Nat /\ top - (top - k) = k
      BY <2>1
  <2> QED
      BY <2>1, <2>2
<1>2. \E t \in T : \A u \in T : ~(<<u, t>> \in OpToRel(<, Nat))
  <2> HIDE DEF T
  <2> QED
      BY <1>1, NatLessThanWellFounded, WFMin, Zenon
<1>3. PICK t \in T : \A u \in T : ~(u < t)
    BY <1>1, <1>2 DEF OpToRel
<1>4. ASSUME NEW y \in S PROVE top - t >= y
  <2>1. top - y \in Nat /\ top - (top - y) = y
      OBVIOUS
  <2>2. ~(top - y < t)
      BY <1>3, <2>1
  <2>3. t \in Nat /\ y \in Nat
      OBVIOUS
  <2> QED
      BY <2>2, <2>3
<1>5. top - t \in S
    OBVIOUS
<1> QED
    BY <1>4, <1>5 DEF Max

\* The fixed point ratio is an integer, if the frequency is not 0.
LEMMA RatioType ==
    ASSUME NEW f \in Nat \ {0}, NEW to \in Nat, NEW sft \in Nat
    PROVE  Ratio(f, to, sft) \in Int
<1>1. to * 2^sft \in Int
    BY PowerOfTwo
<1>2. U64(to * 2^sft) + f \div 2 \in Int
    BY <1>1, Words
<1> QED
    BY <1>2, Words DEF Ratio

\* clocks_calc_mult_shift (src/util.c:79-107) returns a 32 bit factor and a
\* shift that is no longer than a word.
LEMMA ScaleType ==
    ASSUME NEW f \in Nat \ {0}, NEW maxsec
    PROVE  LET s == clocks_calc_mult_shift(f, NsPerMs, maxsec)
           IN  s.mult \in 0..UINT32_MAX /\ s.shift \in 0..Bits
<1> DEFINE sftacc == Bits - Halvings(U32((maxsec * f) \div W32))
           fits == {sft \in 1..Bits : Ratio(f, NsPerMs, sft) \div 2^sftacc = 0}
<1>1. Bits \in Nat \ {0} /\ NsPerMs \in Nat
    BY PowerOfTwo, ClockScaleAssumption
<1>2. Max(fits \cup {1}) \in 0..Bits /\ Max(fits \cup {0}) \in 0..Bits
  <2>1. fits \cup {1} \in SUBSET (0..Bits) /\ fits \cup {0} \in SUBSET (0..Bits)
      BY <1>1
  <2> HIDE DEF fits
  <2> QED
      BY <1>1, <2>1, SetHasMax
<1>3. Ratio(f, NsPerMs, Max(fits \cup {1})) \in Int
  <2> HIDE DEF fits
  <2> QED
      BY <1>1, <1>2, RatioType
<1>4. clocks_calc_mult_shift(f, NsPerMs, maxsec) =
          [mult |-> U32(Ratio(f, NsPerMs, Max(fits \cup {1}))),
           shift |-> Max(fits \cup {0})]
    BY Zenon DEF clocks_calc_mult_shift
<1> HIDE DEF fits
<1> QED
    BY <1>2, <1>3, <1>4, Words

\* The two numbers of args.mult and args.shift (src/osjitter.c:275-276).
LEMMA ScaleIsPositive ==
    /\ scale.mult \in 0..UINT32_MAX
    /\ 2^scale.shift \in Nat \ {0}
<1>1. tsc_khz \in Nat \ {0} /\ Bits \in Nat
    BY JitterAssumption, ClockScaleAssumption, Words
<1>2. scale.mult \in 0..UINT32_MAX /\ scale.shift \in 0..Bits
    BY <1>1, ScaleType DEF scale
<1>3. scale.shift \in Nat
    BY <1>1, <1>2
<1> QED
    BY <1>2, <1>3, PowerOfTwo

\* The conversion of 32 bits does not wrap (src/util.h:33-36).
LEMMA NsOfDelta ==
    ASSUME NEW d \in 0..UINT32_MAX
    PROVE  ns(d) = (d * scale.mult) \div 2^scale.shift /\ ns(d) \in Nat
<1>1. PICK m \in 0..UINT32_MAX : m = scale.mult
    BY ScaleIsPositive
<1>2. PICK s \in Nat \ {0} : s = 2^scale.shift
    BY ScaleIsPositive
<1>3. W32 \in Nat \ {0} /\ UINT32_MAX = W32 - 1 /\ W64 = W32 * W32
    BY Words DEF W64
<1>4. d * m \in Nat /\ d * m < W64
  <2>1. d \in Nat /\ m \in Nat /\ d < W32 /\ m < W32
      BY <1>3
  <2>2. d * m \in Nat /\ d * m <= d * W32
      BY <1>3, <2>1
  <2>3. d * W32 < W32 * W32 /\ d * W32 \in Nat /\ W32 * W32 \in Nat
      BY <1>3, <2>1
  <2> QED
      BY <1>3, <2>2, <2>3
<1>5. PICK q \in Nat : q = (d * m) \div s /\ q <= d * m
  <2>1. PICK p \in Nat : p = d * m
      BY <1>4
  <2>2. p \div s \in Nat /\ p \div s <= p
      BY <1>2
  <2> QED
      BY <2>1, <2>2
<1>6. q % W64 = q
  <2>1. q < W64 /\ W64 \in Nat \ {0}
      BY <1>4, <1>5, Words
  <2> QED
      BY <2>1
<1>7. ns(d) = ((d * m) \div s) % W64
    BY <1>1, <1>2 DEF ns, mul_u64_u32_shr, U64
<1> QED
    BY <1>1, <1>2, <1>5, <1>6, <1>7

\* The division rounds down.
LEMMA Quotient ==
    ASSUME NEW a \in Nat, NEW s \in Nat \ {0}
    PROVE  a \div s \in Nat /\ s * (a \div s) <= a /\ a < s * (a \div s) + s
OBVIOUS

\* Longer deltas do not get shorter in nanoseconds, and the parts of a delta not
\* much shorter than the whole.
LEMMA NsOrdered ==
    ASSUME NEW a \in 0..UINT32_MAX, NEW b \in 0..UINT32_MAX
    PROVE  a <= b => ns(a) <= ns(b)
<1> SUFFICES ASSUME a <= b PROVE ns(a) <= ns(b)
    OBVIOUS
<1>1. PICK m \in Nat : m = scale.mult
    BY ScaleIsPositive
<1>2. PICK s \in Nat \ {0} : s = 2^scale.shift
    BY ScaleIsPositive
<1>3. a \in Nat /\ b \in Nat
    BY Words
<1>4. PICK p \in Nat, q \in Nat : p = a * m /\ q = b * m /\ p <= q
  <2>1. a * m \in Nat /\ b * m \in Nat /\ a * m <= b * m
      BY <1>3
  <2> QED
      BY <2>1
<1>5. p \div s <= q \div s
    BY <1>2, <1>4
<1> QED
    BY <1>1, <1>2, <1>4, <1>5, NsOfDelta
-----------------------------------------------------------------------------
(***************************************************************************)
(* Sorting                                                                 *)
(***************************************************************************)

\* Who is before a position has a lower rank.
LEMMA RankOrders ==
    ASSUME NEW len \in Nat, NEW x \in [1..len -> Int]
    PROVE  /\ \A k \in 1..len : Rank(x, k) \in 1..len
           /\ \A k, l \in 1..len : Before(x, k, l) => Rank(x, k) < Rank(x, l)
<1> DEFINE B(k) == {j \in 1..len : Before(x, j, k)}
<1>1. IsFiniteSet(1..len) /\ Cardinality(1..len) = len
    BY FS_Interval
<1>2. \A k \in 1..len : /\ Rank(x, k) = Cardinality(B(k)) + 1
                        /\ B(k) \in SUBSET (1..len)
                        /\ k \notin B(k)
  <2> SUFFICES ASSUME NEW k \in 1..len
               PROVE  /\ Rank(x, k) = Cardinality(B(k)) + 1
                      /\ B(k) \in SUBSET (1..len)
                      /\ k \notin B(k)
      OBVIOUS
  <2>1. DOMAIN x = 1..len
      OBVIOUS
  <2>2. Rank(x, k) = Cardinality(B(k)) + 1
    <3>1. {j \in DOMAIN x : Before(x, j, k)} = B(k)
        BY <2>1
    <3>2. Rank(x, k) = Cardinality({j \in DOMAIN x : Before(x, j, k)}) + 1
        BY DEF Rank
    <3> QED
        BY <3>1, <3>2
  <2>3. k \notin B(k)
      BY DEF Before
  <2> QED
      BY <2>2, <2>3
<1>3. \A k, l \in 1..len : Before(x, k, l) => /\ B(k) \in SUBSET B(l)
                                              /\ k \in B(l)
    BY DEF Before
<1> HIDE DEF B
<1>4. ASSUME NEW k \in 1..len
      PROVE  /\ IsFiniteSet(B(k))
             /\ Cardinality(B(k)) \in 0..(len - 1)
  <2>1. B(k) \in SUBSET (1..len) /\ B(k) # 1..len
      BY <1>2
  <2>2. /\ IsFiniteSet(B(k))
        /\ Cardinality(B(k)) <= len /\ Cardinality(B(k)) # len
      BY <1>1, <2>1, FS_Subset
  <2>3. Cardinality(B(k)) \in Nat
      BY <2>2, FS_CardinalityType
  <2> QED
      BY <2>2, <2>3
<1>5. ASSUME NEW k \in 1..len, NEW l \in 1..len, Before(x, k, l)
      PROVE  Rank(x, k) < Rank(x, l)
  <2>1. B(k) \in SUBSET B(l) /\ B(k) # B(l)
      BY <1>2, <1>3, <1>5
  <2>2. IsFiniteSet(B(l))
      BY <1>4
  <2>3. /\ Cardinality(B(k)) <= Cardinality(B(l))
        /\ Cardinality(B(k)) # Cardinality(B(l))
      BY <2>1, <2>2, FS_Subset
  <2>4. Cardinality(B(k)) \in Int /\ Cardinality(B(l)) \in Int
      BY <1>4
  <2> QED
      BY <1>2, <2>3, <2>4
<1>6. ASSUME NEW k \in 1..len PROVE Rank(x, k) \in 1..len
  <2>1. /\ Cardinality(B(k)) \in 0..(len - 1)
        /\ Rank(x, k) = Cardinality(B(k)) + 1
      BY <1>2, <1>4
  <2> QED
      BY <2>1
<1> QED
    BY <1>5, <1>6

\* Hence each position is the rank of exactly one value.
LEMMA RanksFill ==
    ASSUME NEW len \in Nat, NEW x \in [1..len -> Int]
    PROVE  \A m \in 1..len : \E k \in 1..len : Rank(x, k) = m
<1> DEFINE rank == [k \in 1..len |-> Rank(x, k)]
<1>1. rank \in [1..len -> 1..len]
    BY RankOrders
<1>2. \A k, l \in 1..len : k # l => rank[k] # rank[l]
  <2> SUFFICES ASSUME NEW k \in 1..len, NEW l \in 1..len, k # l
               PROVE  Rank(x, k) # Rank(x, l)
      OBVIOUS
  <2>1. Before(x, k, l) \/ Before(x, l, k)
      BY DEF Before
  <2> QED
      BY <2>1, RankOrders
<1> HIDE DEF rank
<1>3. rank \in Injection(1..len, 1..len)
    BY <1>1, <1>2 DEF Injection, IsInjective
<1>4. rank \in Surjection(1..len, 1..len)
    BY <1>3, FS_Interval, FS_Injection
<1>5. \A m \in 1..len : \E k \in 1..len : rank[k] = m
    BY <1>4 DEF Surjection
<1> QED
    BY <1>5 DEF rank

\* qsort returns the same values in ascending order (src/util.h:12-22).
LEMMA SortedType ==
    ASSUME NEW S \in SUBSET Int, NEW len \in Nat, NEW x \in [1..len -> S]
    PROVE  /\ Sorted(x) \in [1..len -> S]
           /\ \A a, b \in 1..len : a <= b => Sorted(x)[a] <= Sorted(x)[b]
           /\ \E p \in Bijection(1..len, 1..len) :
                 Sorted(x) = [m \in 1..len |-> x[p[m]]]
<1> DEFINE place(m) == CHOOSE k \in 1..len : Rank(x, k) = m
<1>1. x \in [1..len -> Int]
    OBVIOUS
<1>2. \A m \in 1..len : place(m) \in 1..len /\ Rank(x, place(m)) = m
    BY <1>1, RanksFill
<1>3. Sorted(x) = [m \in 1..len |-> x[place(m)]]
    BY DEF Sorted
<1> HIDE DEF place
<1>4. Sorted(x) \in [1..len -> S]
    BY <1>2, <1>3
<1>5. ASSUME NEW a \in 1..len, NEW b \in 1..len, a <= b
      PROVE  Sorted(x)[a] <= Sorted(x)[b]
  <2>1. /\ x[place(a)] \in Int /\ x[place(b)] \in Int
        /\ place(a) \in 1..len /\ place(b) \in 1..len
      BY <1>1, <1>2
  <2>2. CASE x[place(b)] < x[place(a)]
    <3>1. Before(x, place(b), place(a))
        BY <2>2 DEF Before
    <3>2. Rank(x, place(b)) < Rank(x, place(a))
        BY <1>1, <2>1, <3>1, RankOrders
    <3>3. b < a
        BY <1>2, <3>2
    <3> QED
        BY <1>5, <3>3
  <2>3. CASE ~(x[place(b)] < x[place(a)])
      BY <1>3, <2>1, <2>3
  <2> QED
      BY <2>2, <2>3
<1>6. \E p \in Bijection(1..len, 1..len) :
         Sorted(x) = [m \in 1..len |-> x[p[m]]]
  <2> DEFINE p == [m \in 1..len |-> place(m)]
  <2>1. p \in [1..len -> 1..len]
      BY <1>2
  <2>2. \A a, b \in 1..len : a # b => p[a] # p[b]
      BY <1>2
  <2>3. Sorted(x) = [m \in 1..len |-> x[p[m]]]
      BY <1>3
  <2> HIDE DEF p
  <2>4. p \in Injection(1..len, 1..len)
      BY <2>1, <2>2 DEF Injection, IsInjective
  <2>5. p \in Surjection(1..len, 1..len)
      BY <2>4, FS_Interval, FS_Injection
  <2> QED
      BY <2>3, <2>4, <2>5 DEF Bijection
<1> QED
    BY <1>4, <1>5, <1>6
-----------------------------------------------------------------------------
(***************************************************************************)
(* Counting the interruptions                                              *)
(***************************************************************************)

\* Before the first read.
LEMMA CountInit == JitterInit => CountInv
<1> SUFFICES ASSUME JitterInit PROVE CountInv
    OBVIOUS
<1>1. JitterTypeOK
  <2>1. /\ runtime_s \in Runtimes /\ n \in Nat
        /\ UINT64_MAX \in 0..UINT64_MAX
        /\ 0 \in 0..UINT64_MAX
      BY Sizes, Words DEF JitterInit
  <2> QED
      BY <2>1 DEF JitterInit, JitterTypeOK, LowerOf
<1>2. gaps \in [1..0 -> Int]
    BY DEF JitterInit, gaps
<1>3. Len(gaps) = 0 /\ DOMAIN gaps = 1..0
    BY <1>2, ArrayIsSeq
<1>4. UpTo(0) = 0
  <2>1. {k \in 1..0 : gaps[k] > tsc_thresh} = {}
      OBVIOUS
  <2> QED
      BY <2>1, FS_EmptySet DEF UpTo
<1>5. Counted
    BY <1>1, <1>3, <1>4, Sizes DEF JitterInit, JitterTypeOK, Counted
<1>6. ReadsInOrder /\ HandedOver
    BY <1>3 DEF JitterInit, ReadsInOrder, HandedOver, Done
<1> QED
    BY <1>1, <1>5, <1>6 DEF CountInv

\* Steps that count nothing.
LEMMA CountQuiet ==
    ASSUME UNCHANGED <<i, ds, tsc_overflow, reads, runtime_s>>
    PROVE  /\ n' = n /\ gaps' = gaps
           /\ \A m : UpTo(m)' = UpTo(m)
           /\ Counted' = Counted
<1>1. n' = n /\ gaps' = gaps /\ tsc_thresh' = tsc_thresh
    BY Constant DEF gaps
<1>2. \A m : UpTo(m)' = UpTo(m)
    BY <1>1 DEF UpTo
<1>3. Counted' = Counted
    BY <1>1, <1>2 DEF Counted, EndsAt, PlacesOf
<1> QED
    BY <1>1, <1>2, <1>3

\* A read of the TSC, by the unrolled iteration or by the loop, whose delta is
\* the gap if that fits (src/osjitter.c:437-470).
LEMMA ReadStep ==
    ASSUME CountInv, NEW gap \in Gaps, NEW delta \in Nat,
           GapsFit => delta = gap,
           phase \in {"first", "loop"}, phase' = "loop",
           tsc' = tsc + gap, reads' = Append(reads, tsc + gap),
           Count(delta, tsc + gap), tsc_delta_min' \in 0..UINT64_MAX,
           UNCHANGED <<runtime_s, start, w, report>>
    PROVE  CountInv'
<1> DEFINE t == tsc + gap
<1>1. PICK len : len = Len(reads) - 1
    OBVIOUS
<1>2. /\ gap \in Nat \ {0} /\ t \in Nat \ {0}
      /\ reads \in Seq(Nat) /\ reads # <<>>
      /\ reads[Len(reads)] = tsc
    BY JitterAssumption DEF CountInv, JitterTypeOK, ReadsInOrder
<1>3. /\ len \in Nat
      /\ Len(gaps) = len /\ DOMAIN gaps = 1..len
      /\ Len(gaps') = len + 1 /\ DOMAIN gaps' = 1..(len + 1)
      /\ \A k \in 1..len : gaps'[k] = gaps[k]
      /\ gaps'[len + 1] = gap
      /\ \A m \in 0..len : UpTo(m)' = UpTo(m)
      /\ UpTo(len) \in Nat
      /\ UpTo(len + 1)' = UpTo(len) + IF gap > tsc_thresh THEN 1 ELSE 0
  <2>1. t - reads[len + 1] = gap
      BY <1>1, <1>2
  <2> HIDE DEF t
  <2> QED
      BY <1>1, <1>2, <2>1, OneMoreRead DEF t
<1>4. /\ reads' \in Seq(Nat) /\ reads' # <<>>
      /\ Len(reads') = len + 2
      /\ \A k \in 1..(len + 1) : reads'[k] = reads[k]
      /\ reads'[len + 2] = t
    BY <1>1, <1>2
<1>5. n \in Nat /\ n' = n /\ tsc_thresh' = tsc_thresh
    BY Sizes, Constant DEF CountInv, JitterTypeOK
<1>6. JitterTypeOK'
  <2>1. /\ i' \in Nat
        /\ ds' \in Seq(0..UINT32_MAX)
        /\ Len(ds') = LowerOf(i', n)
        /\ tsc_total_int' \in 0..UINT64_MAX
        /\ tsc_overflow' \in Nat
    <3>1. LowerOf(delta, UINT32_MAX) \in 0..UINT32_MAX
        BY Words DEF LowerOf
    <3>2. U64(tsc_total_int + delta) \in 0..UINT64_MAX
      <4>1. tsc_total_int + delta \in Int
          BY Words DEF CountInv, JitterTypeOK
      <4> QED
          BY <4>1, Words
    <3>3. CASE delta > tsc_thresh
      <4>1. /\ i' = i + 1
            /\ ds' = IF i < n THEN Append(ds, LowerOf(delta, UINT32_MAX))
                              ELSE ds
            /\ tsc_total_int' = U64(tsc_total_int + delta)
            /\ tsc_overflow' = IF ~(i < n) /\ tsc_overflow = 0 THEN t
                                                      ELSE tsc_overflow
          BY <3>3 DEF Count, CountIf
      <4>2. /\ i \in Nat /\ ds \in Seq(0..UINT32_MAX)
            /\ Len(ds) = LowerOf(i, n) /\ tsc_overflow \in Nat
          BY DEF CountInv, JitterTypeOK
      <4>3. ds' \in Seq(0..UINT32_MAX)
        <5>1. Append(ds, LowerOf(delta, UINT32_MAX)) \in Seq(0..UINT32_MAX)
            BY <3>1, <4>2, AppendProperties
        <5> QED
            BY <4>1, <4>2, <5>1
      <4>4. Len(ds') = LowerOf(i', n)
        <5> DEFINE d == LowerOf(delta, UINT32_MAX)
        <5>1. Len(Append(ds, d)) = Len(ds) + 1
            BY <3>1, <4>2
        <5> HIDE DEF d
        <5>2. Len(ds') = IF i < n THEN Len(ds) + 1 ELSE Len(ds)
            BY <4>1, <5>1 DEF d
        <5> QED
            BY <1>5, <4>1, <4>2, <5>2 DEF LowerOf
      <4>5. tsc_overflow' \in Nat
          BY <1>2, <4>1, <4>2
      <4> QED
          BY <3>2, <4>1, <4>2, <4>3, <4>4, <4>5
    <3>4. CASE ~(delta > tsc_thresh)
        BY <3>4 DEF CountInv, JitterTypeOK, Count, CountIf
    <3> QED
        BY <3>3, <3>4
  <2> QED
      BY <1>2, <1>4, <1>5, <2>1, Constant DEF CountInv, JitterTypeOK
<1>7. ReadsInOrder'
  <2>1. \A k \in DOMAIN reads' : reads'[k] > 0
      BY <1>1, <1>2, <1>4 DEF CountInv, ReadsInOrder
  <2>2. \A k \in DOMAIN gaps' : gaps'[k] \in Gaps
      BY <1>3 DEF CountInv, ReadsInOrder
  <2>3. start' = 1 /\ reads'[1] = start' /\ reads'[Len(reads')] = tsc'
      BY <1>1, <1>2, <1>3, <1>4 DEF CountInv, ReadsInOrder
  <2>4. Len(reads') > 1
      BY <1>3, <1>4
  <2> QED
      BY <1>4, <2>1, <2>2, <2>3, <2>4 DEF ReadsInOrder
<1>8. HandedOver'
    BY DEF CountInv, HandedOver, Done
<1>9. ASSUME GapsFit PROVE Counted'
  <2>1. delta = gap /\ Counted
      BY <1>9 DEF CountInv
  <2>2. i = UpTo(len)
      BY <1>3, <2>1 DEF Counted
  <2>3. i' = UpTo(Len(gaps))'
      BY <1>3, <2>1, <2>2 DEF Count, CountIf
  <2>4. ASSUME i > n PROVE i' > n /\ tsc_overflow' = tsc_overflow
    <3>1. EndsAt(n + 1, tsc_overflow)
        BY <2>1, <2>4 DEF Counted
    <3>2. tsc_overflow > 0
      <4>1. PICK m \in 1..len : tsc_overflow = reads[m + 1]
          BY <1>3, <3>1 DEF EndsAt, PlacesOf
      <4>2. m + 1 \in DOMAIN reads
          BY <1>1, <1>2, <1>3
      <4> QED
          BY <4>1, <4>2 DEF CountInv, ReadsInOrder
    <3>3. i \in Nat
        BY DEF CountInv, JitterTypeOK
    <3> QED
        BY <1>5, <2>4, <3>2, <3>3 DEF Count, CountIf
  <2>5. ASSUME i > n PROVE EndsAt(n + 1, tsc_overflow)'
    <3>1. PICK m \in 1..len : /\ gaps[m] > tsc_thresh
                              /\ UpTo(m) = n + 1
                              /\ tsc_overflow = reads[m + 1]
        BY <1>3, <2>1, <2>5 DEF Counted, EndsAt, PlacesOf
    <3>2. /\ m \in DOMAIN gaps' /\ gaps'[m] > tsc_thresh
          /\ UpTo(m)' = n + 1 /\ tsc_overflow' = reads'[m + 1]
        BY <1>3, <1>4, <2>4, <2>5, <3>1
    <3> QED
        BY <1>5, <3>2 DEF EndsAt, PlacesOf
  <2>6. ASSUME i <= n, i' > n PROVE EndsAt(n + 1, tsc_overflow)'
    <3>1. /\ i \in Nat /\ tsc_overflow = 0
        BY <1>5, <2>1, <2>6 DEF CountInv, JitterTypeOK, Counted
    <3>2. /\ gap > tsc_thresh /\ i = n /\ i' = n + 1
          /\ tsc_overflow' = t
        BY <1>5, <2>1, <2>6, <3>1 DEF Count, CountIf
    <3>3. /\ len + 1 \in DOMAIN gaps' /\ gaps'[len + 1] > tsc_thresh
          /\ UpTo(len + 1)' = n + 1 /\ tsc_overflow' = reads'[(len + 1) + 1]
        BY <1>3, <1>4, <2>2, <3>2
    <3> QED
        BY <1>5, <3>3 DEF EndsAt, PlacesOf
  <2>7. ASSUME ~(i' > n) PROVE tsc_overflow' = 0
    <3>1. i \in Nat /\ i' \in {i, i + 1} /\ (i > n \/ tsc_overflow = 0)
        BY <2>1 DEF CountInv, JitterTypeOK, Counted, Count, CountIf
    <3>2. tsc_overflow = 0
        BY <1>5, <2>7, <3>1
    <3>3. i' = i + 1 => i < n
        BY <1>5, <2>7, <3>1
    <3> QED
        BY <3>1, <3>2, <3>3 DEF Count, CountIf
  <2>8. i \in Nat
      BY DEF CountInv, JitterTypeOK
  <2> QED
      BY <1>5, <2>3, <2>5, <2>6, <2>7, <2>8 DEF Counted
<1> QED
    BY <1>6, <1>7, <1>8, <1>9, Constant DEF CountInv

\* The interruptions, if each of them has a place.
LEMMA InterruptionsType ==
    ASSUME reads \in Seq(Nat), reads # <<>>,
           \A k \in 1..UpTo(Len(gaps)) : PlacesOf(k) # {}
    PROVE  /\ UpTo(Len(gaps)) \in Nat
           /\ Interruptions \in Seq(Int)
           /\ Len(Interruptions) = UpTo(Len(gaps))
           /\ DOMAIN Interruptions = 1..UpTo(Len(gaps))
           /\ \A k \in 1..UpTo(Len(gaps)) :
                 /\ Place(k) \in DOMAIN gaps
                 /\ Interruptions[k] = gaps[Place(k)]
                 /\ Interruptions[k] > tsc_thresh
<1>1. /\ gaps \in Seq(Int) /\ Len(gaps) \in Nat /\ DOMAIN gaps = 1..Len(gaps)
    BY GapsType DEF gaps
<1>2. UpTo(Len(gaps)) \in Nat
  <2> DEFINE A == {k \in 1..Len(gaps) : gaps[k] > tsc_thresh}
  <2>1. A \in SUBSET (1..Len(gaps))
      OBVIOUS
  <2>2. UpTo(Len(gaps)) = Cardinality(A)
      BY DEF UpTo
  <2> HIDE DEF A
  <2> QED
      BY <1>1, <2>1, <2>2, PositionsCount
<1>3. ASSUME NEW k \in 1..UpTo(Len(gaps))
      PROVE  Place(k) \in DOMAIN gaps /\ gaps[Place(k)] > tsc_thresh
  <2>1. Place(k) \in PlacesOf(k)
      BY DEF Place
  <2> QED
      BY <2>1 DEF PlacesOf
<1>4. \A m \in DOMAIN gaps : gaps[m] \in Int
    BY <1>1, ElementOfSeq
<1>5. Interruptions \in [1..UpTo(Len(gaps)) -> Int]
    BY <1>3, <1>4 DEF Interruptions
<1>6. /\ Interruptions \in Seq(Int)
      /\ Len(Interruptions) = UpTo(Len(gaps))
      /\ DOMAIN Interruptions = 1..UpTo(Len(gaps))
    BY <1>2, <1>5, ArrayIsSeq
<1>7. \A k \in 1..UpTo(Len(gaps)) : Interruptions[k] = gaps[Place(k)]
    BY DEF Interruptions
<1> QED
    BY <1>2, <1>3, <1>6, <1>7

\* One more read: the interruptions so far keep their places, and a new one is
\* the last.
LEMMA InterruptionsGrow ==
    ASSUME reads \in Seq(Nat), reads # <<>>, NEW t \in Nat,
           reads' = Append(reads, t), NEW len, len = Len(reads) - 1,
           NEW gap \in Int, gap = t - reads[len + 1],
           \A k \in 1..UpTo(Len(gaps)) : PlacesOf(k) # {}
    PROVE  /\ Interruptions' = IF gap > tsc_thresh THEN Append(Interruptions, gap)
                                                   ELSE Interruptions
           /\ \A k \in 1..UpTo(Len(gaps))' : PlacesOf(k)' # {}
<1>1. /\ len \in Nat
      /\ Len(gaps) = len /\ DOMAIN gaps = 1..len
      /\ Len(gaps') = len + 1 /\ DOMAIN gaps' = 1..(len + 1)
      /\ \A k \in 1..len : gaps'[k] = gaps[k]
      /\ gaps'[len + 1] = gap
      /\ \A m \in 0..len : UpTo(m)' = UpTo(m)
      /\ UpTo(len) \in Nat
      /\ UpTo(len + 1)' = UpTo(len) + IF gap > tsc_thresh THEN 1 ELSE 0
    BY OneMoreRead
<1>2. PICK last \in Nat : last = UpTo(len)
    BY <1>1
<1>3. tsc_thresh' = tsc_thresh
    BY Constant
<1>4. ASSUME NEW m \in 1..len PROVE UpTo(m) <= last
  <2> DEFINE A == {k \in 1..m : gaps[k] > tsc_thresh}
             B == {k \in 1..len : gaps[k] > tsc_thresh}
  <2>1. \A k \in 1..m : k \in 1..len
      BY <1>1
  <2>2. A \in SUBSET B /\ B \in SUBSET (1..len)
      BY <2>1
  <2>3. UpTo(m) = Cardinality(A) /\ UpTo(len) = Cardinality(B)
      BY DEF UpTo
  <2> HIDE DEF A, B
  <2> QED
      BY <1>1, <1>2, <2>2, <2>3, PositionsCount
<1>5. ASSUME NEW k \in 1..last PROVE PlacesOf(k)' = PlacesOf(k)
  <2>1. PlacesOf(k)' = {m \in 1..(len + 1) : gaps'[m] > tsc_thresh /\ UpTo(m)' = k}
      BY <1>1, <1>3 DEF PlacesOf
  <2>2. PlacesOf(k) = {m \in 1..len : gaps[m] > tsc_thresh /\ UpTo(m) = k}
      BY <1>1 DEF PlacesOf
  <2>3. ASSUME gap > tsc_thresh PROVE UpTo(len + 1)' # k
      BY <1>1, <1>2, <2>3
  <2>4. \A m \in 1..(len + 1) :
            gaps'[m] > tsc_thresh /\ UpTo(m)' = k
            <=> m \in 1..len /\ gaps[m] > tsc_thresh /\ UpTo(m) = k
    <3> SUFFICES ASSUME NEW m \in 1..(len + 1)
                 PROVE  gaps'[m] > tsc_thresh /\ UpTo(m)' = k
                        <=> m \in 1..len /\ gaps[m] > tsc_thresh /\ UpTo(m) = k
        OBVIOUS
    <3>1. CASE m \in 1..len
        BY <1>1, <3>1
    <3>2. CASE m = len + 1
        BY <1>1, <2>3, <3>2
    <3> QED
        BY <1>1, <3>1, <3>2
  <2>5. \A m \in 1..len : m \in 1..(len + 1)
      BY <1>1
  <2>6. {m \in 1..(len + 1) : gaps'[m] > tsc_thresh /\ UpTo(m)' = k} =
           {m \in 1..len : gaps[m] > tsc_thresh /\ UpTo(m) = k}
      BY <2>4, <2>5
  <2> QED
      BY <2>1, <2>2, <2>6
<1>6. ASSUME NEW k \in 1..last
      PROVE  Place(k)' = Place(k) /\ gaps'[Place(k)'] = gaps[Place(k)]
  <2>1. Place(k)' = Place(k)
      BY <1>5 DEF Place
  <2>2. Place(k) \in 1..len
      BY <1>1, <1>2, InterruptionsType
  <2> QED
      BY <1>1, <2>1, <2>2
<1>7. /\ Interruptions = [k \in 1..last |-> gaps[Place(k)]]
      /\ Interruptions' = [k \in 1..UpTo(len + 1)' |-> gaps'[Place(k)']]
    BY <1>1, <1>2 DEF Interruptions
<1>8. CASE ~(gap > tsc_thresh)
  <2>1. UpTo(len + 1)' = last
      BY <1>1, <1>2, <1>8
  <2>2. Interruptions' = Interruptions
      BY <1>6, <1>7, <2>1
  <2>3. \A k \in 1..UpTo(Len(gaps))' : PlacesOf(k)' # {}
      BY <1>1, <1>2, <1>5, <2>1
  <2> QED
      BY <1>8, <2>2, <2>3
<1>9. CASE gap > tsc_thresh
  <2>1. UpTo(len + 1)' = last + 1
      BY <1>1, <1>2, <1>9
  <2>2. PlacesOf(last + 1)' = {len + 1}
    <3>1. PlacesOf(last + 1)' =
             {m \in 1..(len + 1) : gaps'[m] > tsc_thresh /\ UpTo(m)' = last + 1}
        BY <1>1, <1>3 DEF PlacesOf
    <3>2. \A m \in 1..len : UpTo(m)' # last + 1
      <4> SUFFICES ASSUME NEW m \in 1..len PROVE UpTo(m)' # last + 1
          OBVIOUS
      <4>1. UpTo(m)' = UpTo(m) /\ UpTo(m) <= last
          BY <1>1, <1>4
      <4> QED
          BY <1>2, <4>1
    <3>3. len + 1 \in PlacesOf(last + 1)'
        BY <1>1, <1>9, <2>1, <3>1
    <3>4. \A m \in PlacesOf(last + 1)' : m = len + 1
        BY <1>1, <3>1, <3>2
    <3> QED
        BY <3>3, <3>4
  <2>3. Place(last + 1)' = len + 1
      BY <2>2 DEF Place
  <2>4. \A k \in 1..UpTo(Len(gaps))' : PlacesOf(k)' # {}
    <3> SUFFICES ASSUME NEW k \in 1..(last + 1) PROVE PlacesOf(k)' # {}
        BY <1>1, <2>1
    <3>1. CASE k = last + 1
        BY <2>2, <3>1
    <3>2. CASE k \in 1..last
        BY <1>1, <1>2, <1>5, <3>2
    <3> QED
        BY <1>2, <3>1, <3>2
  <2>5. Interruptions' = Append(Interruptions, gap)
    <3>1. /\ Interruptions \in Seq(Int) /\ Len(Interruptions) = last
          /\ \A k \in 1..last : Interruptions[k] = gaps[Place(k)]
        BY <1>1, <1>2, InterruptionsType
    <3>2. Append(Interruptions, gap) =
             [k \in 1..(last + 1) |-> IF k = last + 1 THEN gap ELSE Interruptions[k]]
      <4> HIDE DEF Interruptions
      <4>1. /\ Append(Interruptions, gap) \in Seq(Int)
            /\ Len(Append(Interruptions, gap)) = last + 1
            /\ \A k \in 1..last : Append(Interruptions, gap)[k] = Interruptions[k]
            /\ Append(Interruptions, gap)[last + 1] = gap
          BY <3>1, AppendProperties
      <4> DEFINE a == Append(Interruptions, gap)
      <4>2. a = [k \in 1..(last + 1) |-> a[k]]
          BY <4>1, LenProperties
      <4> HIDE DEF a
      <4>3. \A k \in 1..(last + 1) :
               a[k] = IF k = last + 1 THEN gap ELSE Interruptions[k]
          BY <1>2, <4>1 DEF a
      <4> QED
          BY <4>2, <4>3 DEF a
    <3>3. ASSUME NEW k \in 1..(last + 1)
          PROVE  gaps'[Place(k)'] = IF k = last + 1 THEN gap ELSE Interruptions[k]
      <4>1. CASE k = last + 1
          BY <1>1, <2>3, <4>1
      <4>2. CASE k # last + 1
        <5>1. k \in 1..last
            BY <4>2
        <5> QED
            BY <1>6, <3>1, <4>2, <5>1
      <4> QED
          BY <4>1, <4>2
    <3> QED
        BY <1>7, <2>1, <3>2, <3>3
  <2> QED
      BY <1>9, <2>4, <2>5
<1> QED
    BY <1>8, <1>9

\* The loop is never entered without a gap: the runtime is not 0.
LEMMA FirstReads ==
    ASSUME CountInv
    PROVE  tsc_runtime \in Nat \ {0} /\ (phase = "first" => tsc < limit)
<1>1. PICK k \in Nat \ {0}, s \in Nat \ {0}, m \in Nat \ {0} :
          k = tsc_khz /\ s = runtime_s /\ m = MsPerS
    BY JitterAssumption, Words DEF CountInv, JitterTypeOK
<1>2. (k * m) * s \in Nat \ {0}
  <2>1. PICK p \in Nat \ {0} : p = k * m
    <3>1. k * m \in Nat \ {0}
        OBVIOUS
    <3> QED
        BY <3>1
  <2>2. p * s \in Nat \ {0}
      OBVIOUS
  <2> QED
      BY <2>1, <2>2
<1>3. tsc_runtime \in Nat \ {0}
    BY <1>1, <1>2 DEF tsc_runtime
<1>4. ASSUME phase = "first" PROVE tsc = start /\ start = 1
    BY <1>4 DEF CountInv, ReadsInOrder
<1> QED
    BY <1>3, <1>4 DEF limit

\* The corrected deltas are 32 bit words, also when the correction wraps.
LEMMA CorrectedType ==
    ASSUME CountInv
    PROVE  /\ LowerOf(i, n) \in Nat
           /\ Corrected \in [1..LowerOf(i, n) -> 0..UINT32_MAX]
<1> DEFINE samples == LowerOf(i, n)
<1>1. n \in Nat
    BY Sizes DEF CountInv, JitterTypeOK
<1>2. samples \in Nat
    BY <1>1 DEF CountInv, JitterTypeOK, LowerOf
<1>3. ASSUME NEW k \in 1..samples
      PROVE  U32(U64(ds[k] - tsc_delta_min)) \in 0..UINT32_MAX
  <2>1. ds \in Seq(0..UINT32_MAX) /\ Len(ds) = samples
      BY DEF CountInv, JitterTypeOK
  <2>2. ds[k] \in 0..UINT32_MAX
      BY <1>2, <2>1, ElementOfSeq
  <2>3. ds[k] - tsc_delta_min \in Int
      BY <2>2 DEF CountInv, JitterTypeOK
  <2>4. U64(ds[k] - tsc_delta_min) \in Int
      BY <2>3, Words
  <2> QED
      BY <2>4, Words
<1> QED
    BY <1>2, <1>3 DEF Corrected

\* Every step keeps the invariant.
LEMMA CountStep == CountInv /\ [JitterNext]_jitterVars => CountInv'
<1> SUFFICES ASSUME CountInv, [JitterNext]_jitterVars PROVE CountInv'
    OBVIOUS
<1>1. n \in Nat
    BY Sizes DEF CountInv, JitterTypeOK
<1>2. ASSUME UNCHANGED <<i, ds, tsc_overflow, reads, runtime_s>>,
             JitterTypeOK', ReadsInOrder', HandedOver'
      PROVE  CountInv'
    BY <1>2, CountQuiet, Constant DEF CountInv
<1>3. CASE Begin
  <2>1. /\ phase = "begin" /\ phase' = "first" /\ start' = 1 /\ tsc' = 1
        /\ reads' = <<1>>
        /\ UNCHANGED <<runtime_s, i, ds, tsc_total_int, tsc_overflow,
                       tsc_delta_min, w, report>>
      BY <1>3 DEF Begin, locals
  <2>2. reads = <<>> /\ i = 0 /\ ds = <<>> /\ tsc_overflow = 0
      BY <2>1 DEF CountInv, ReadsInOrder
  <2>3. JitterTypeOK'
      BY <1>1, <2>1, <2>2, Constant DEF CountInv, JitterTypeOK, LowerOf
  <2>4. gaps' \in [1..0 -> Int]
      BY <2>1 DEF gaps
  <2>5. Len(gaps') = 0 /\ DOMAIN gaps' = 1..0
      BY <2>4, ArrayIsSeq
  <2>6. UpTo(Len(gaps))' = 0
    <3>1. {k \in 1..Len(gaps') : gaps'[k] > tsc_thresh'} = {}
        BY <2>5
    <3> QED
        BY <3>1, FS_EmptySet DEF UpTo
  <2>7. n' = n
      BY <2>1, Constant
  <2>8. Counted'
      BY <1>1, <2>1, <2>2, <2>6, <2>7 DEF Counted, LowerOf
  <2>9. ReadsInOrder' /\ HandedOver'
      BY <2>1, <2>5 DEF CountInv, ReadsInOrder, HandedOver, Done
  <2> QED
      BY <2>3, <2>8, <2>9 DEF CountInv
<1>4. CASE First
  <2>1. CASE tsc < limit
    <3>1. PICK gap \in Gaps : /\ tsc' = tsc + gap
                              /\ reads' = Append(reads, tsc + gap)
                              /\ Count(gap, tsc + gap)
        BY <1>4, <2>1 DEF First, Read
    <3>2. /\ phase = "first" /\ phase' = "loop" /\ tsc_delta_min' = UINT64_MAX
          /\ UNCHANGED <<runtime_s, start, w, report>>
        BY <1>4 DEF First, Read
    <3>3. gap \in Nat /\ tsc_delta_min' \in 0..UINT64_MAX
        BY <3>2, JitterAssumption, Words
    <3> QED
        BY <3>1, <3>2, <3>3, ReadStep
  <2>2. phase = "first"
      BY <1>4 DEF First
  <2>3. tsc < limit
      BY <2>2, FirstReads
  <2> QED
      BY <2>1, <2>3
<1>5. CASE Iterate
  <2>1. PICK gap \in Gaps : /\ tsc' = tsc + gap
                            /\ reads' = Append(reads, tsc + gap)
                            /\ Count(U32(gap), tsc + gap)
                            /\ tsc_delta_min' =
                                  LowerOf(tsc_delta_min, U32(gap))
      BY <1>5 DEF Iterate, Read
  <2>2. /\ phase = "loop" /\ phase' = "loop"
        /\ UNCHANGED <<runtime_s, start, w, report>>
      BY <1>5 DEF Iterate, Read
  <2>3. gap \in Nat /\ U32(gap) \in 0..UINT32_MAX
      BY JitterAssumption, Words
  <2>4. tsc_delta_min' \in 0..UINT64_MAX
    <3>1. UINT32_MAX \in Nat /\ UINT64_MAX \in Nat /\ UINT32_MAX <= UINT64_MAX
        BY Words
    <3>2. tsc_delta_min \in 0..UINT64_MAX
        BY DEF CountInv, JitterTypeOK
    <3> QED
        BY <2>1, <2>3, <3>1, <3>2 DEF LowerOf
  <2>5. GapsFit => U32(gap) = gap
    <3>1. W32 \in Nat \ {0} /\ UINT32_MAX = W32 - 1
        BY Words
    <3>2. gap <= W32 - 1 => gap % W32 = gap
        BY <2>3, <3>1
    <3> QED
        BY <3>1, <3>2 DEF GapsFit, U32
  <2>6. U32(gap) \in Nat
      BY <2>3, Words
  <2> QED
      BY <2>1, <2>2, <2>4, <2>5, <2>6, ReadStep
<1>6. CASE Finalize
  <2> DEFINE samples == LowerOf(i, n)
             corrected == Corrected
  <2>1. /\ phase = "loop" /\ phase' = "done"
        /\ UNCHANGED <<runtime_s, start, tsc, i, ds, tsc_total_int,
                       tsc_overflow, tsc_delta_min, report, reads>>
      BY <1>6 DEF Finalize, HandOver, locals
  <2>2. w' = [deltas |-> Sorted(corrected),
              samples |-> samples,
              thresh_cnt |-> i,
              tsc_start |-> start,
              tsc_overflow |-> tsc_overflow,
              tsc_total_int |-> U64(tsc_total_int - tsc_delta_min * i),
              tsc_delta_min |-> tsc_delta_min]
      BY <1>6 DEF Finalize, HandOver
  <2>3. samples \in Nat
      BY CorrectedType
  <2>4. corrected \in [1..samples -> 0..UINT32_MAX]
      BY CorrectedType
  <2> HIDE DEF corrected, samples
  <2>5. /\ Sorted(corrected) \in Seq(0..UINT32_MAX)
        /\ Len(Sorted(corrected)) = samples
    <3>1. 0..UINT32_MAX \in SUBSET Int
        OBVIOUS
    <3>2. Sorted(corrected) \in [1..samples -> 0..UINT32_MAX]
        BY <2>3, <2>4, <3>1, SortedType
    <3> QED
        BY <2>3, <3>2, ArrayIsSeq
  <2>6. U64(tsc_total_int - tsc_delta_min * i) \in 0..UINT64_MAX
    <3>1. tsc_delta_min \in Int /\ i \in Int /\ tsc_total_int \in Int
        BY DEF CountInv, JitterTypeOK
    <3>2. tsc_delta_min * i \in Int
        BY <3>1
    <3>3. tsc_total_int - tsc_delta_min * i \in Int
        BY <3>1, <3>2
    <3> QED
        BY <3>3, Words
  <2>7. w' # <<>>
    <3>1. "deltas" \in DOMAIN w'
        BY <2>2
    <3>2. DOMAIN <<>> = {}
        OBVIOUS
    <3> QED
        BY <3>1, <3>2
  <2>8. /\ w'.deltas \in Seq(0..UINT32_MAX)
        /\ Len(w'.deltas) = samples
        /\ w'.samples = samples
        /\ w'.thresh_cnt = i
        /\ w'.tsc_overflow = tsc_overflow
        /\ w'.tsc_total_int \in 0..UINT64_MAX
      BY <2>2, <2>5, <2>6
  <2>9. n' = n /\ gaps' = gaps
      BY <2>1, CountQuiet
  <2>10. JitterTypeOK'
      BY <2>1, <2>7, <2>8, <2>9, Constant DEF CountInv, JitterTypeOK
  <2>11. ReadsInOrder'
      BY <2>1, <2>9 DEF CountInv, ReadsInOrder
  <2>12. HandedOver'
      BY <2>1, <2>7, <2>8, <2>9 DEF HandedOver, Done, samples
  <2> QED
      BY <1>2, <2>1, <2>10, <2>11, <2>12
<1>7. CASE Report /\ LineAsserted
  <2>1. /\ phase = "done" /\ phase' = "reported"
        /\ UNCHANGED <<runtime_s, start, tsc, i, ds, tsc_total_int,
                       tsc_overflow, tsc_delta_min, w, reads>>
      BY <1>7 DEF Report, Line, locals
  <2>2. report' # <<>>
    <3>1. "mad_ns" \in DOMAIN report'
        BY <1>7 DEF Report, Line
    <3>2. DOMAIN <<>> = {}
        OBVIOUS
    <3> QED
        BY <3>1, <3>2
  <2>3. n' = n /\ gaps' = gaps
      BY <2>1, CountQuiet
  <2>4. JitterTypeOK'
      BY <2>1, <2>2, <2>3, Constant DEF CountInv, JitterTypeOK
  <2>5. ReadsInOrder' /\ HandedOver'
      BY <2>1, <2>3 DEF CountInv, ReadsInOrder, HandedOver, Done
  <2> QED
      BY <1>2, <2>1, <2>4, <2>5
<1>8. CASE (Report /\ ~LineAsserted) \/ ReportFails \/ UNCHANGED jitterVars
  <2>1. /\ phase' = phase \/ (phase = "done" /\ phase' \in {"failed", "aborted"})
        /\ UNCHANGED <<runtime_s, start, tsc, i, ds, tsc_total_int,
                       tsc_overflow, tsc_delta_min, w, report, reads>>
      BY <1>8 DEF Report, ReportFails, jitterVars, locals
  <2>2. n' = n /\ gaps' = gaps
      BY <2>1, CountQuiet
  <2>3. JitterTypeOK'
      BY <2>1, <2>2, Constant DEF CountInv, JitterTypeOK
  <2>4. ReadsInOrder' /\ HandedOver'
      BY <2>1, <2>2 DEF CountInv, ReadsInOrder, HandedOver, Done
  <2> QED
      BY <1>2, <2>1, <2>3, <2>4
<1> QED
    BY <1>3, <1>4, <1>5, <1>6, <1>7, <1>8 DEF JitterNext

\* The counters follow what was read, and the results are what the loop
\* counted (worker_main, src/osjitter.c:433-493).
THEOREM CountInvAlways == JitterSpec => []CountInv
<1> QED
    BY CountInit, CountStep, PTL DEF JitterSpec

-----------------------------------------------------------------------------
(***************************************************************************)
(* The results                                                             *)
(***************************************************************************)

\* Steps that read, count and hand over nothing keep what the results say.
LEMMA SameResults ==
    /\ UNCHANGED <<ds, i, tsc_delta_min, runtime_s>> => Corrected' = Corrected
    /\ UNCHANGED w => Line' = Line
    /\ UNCHANGED <<reads, ds, tsc_delta_min>> => Recorded' = Recorded
    /\ UNCHANGED <<reads, tsc, start, tsc_total_int, runtime_s>> =>
          Summed' = Summed
    /\ TscFits' = TscFits
<1>1. /\ \A x : U32(x)' = U32(x) /\ U64(x)' = U64(x)
      /\ UINT32_MAX' = UINT32_MAX /\ UINT64_MAX' = UINT64_MAX
    BY Constant DEF U32, U64, W32, W64
<1>2. scale' = scale
    BY DEF scale, clocks_calc_mult_shift, Halvings, Ratio, U32, U64, W32, W64, Max
<1>3. \A x : ns(x)' = ns(x)
    BY <1>1, <1>2 DEF ns, mul_u64_u32_shr
<1>4. ASSUME UNCHANGED <<ds, i, tsc_delta_min, runtime_s>>
      PROVE  Corrected' = Corrected
  <2>1. n' = n
      BY <1>4, Constant
  <2> QED
      BY <1>1, <1>4, <2>1 DEF Corrected, LowerOf
<1>5. ASSUME UNCHANGED w PROVE Line' = Line
    BY <1>1, <1>3, <1>5
    DEF Line, Percentiles, percentile_u32, mad_u32, Deviations, Sorted, Rank, Before, AbsDiff,
        Columns
<1>6. ASSUME UNCHANGED reads
      PROVE  /\ gaps' = gaps /\ Interruptions' = Interruptions
             /\ \A k : PlacesOf(k)' = PlacesOf(k)
             /\ UpTo(Len(gaps))' = UpTo(Len(gaps))
  <2>1. gaps' = gaps /\ tsc_thresh' = tsc_thresh
      BY <1>6, Constant DEF gaps
  <2>2. \A m : UpTo(m)' = UpTo(m)
      BY <2>1 DEF UpTo
  <2>3. \A k : PlacesOf(k)' = PlacesOf(k)
      BY <2>1, <2>2 DEF PlacesOf
  <2>4. \A k : Place(k)' = Place(k)
      BY <2>3 DEF Place
  <2> QED
      BY <2>1, <2>2, <2>3, <2>4 DEF Interruptions
<1>7. ASSUME UNCHANGED <<reads, ds, tsc_delta_min>> PROVE Recorded' = Recorded
    BY <1>1, <1>6, <1>7 DEF Recorded
<1>8. ASSUME UNCHANGED <<reads, tsc, start, tsc_total_int, runtime_s>>
      PROVE  Summed' = Summed
    BY <1>1, <1>6, <1>8 DEF Summed, Total, tsc_runtime
<1>9. TscFits' = TscFits
    BY <1>1 DEF TscFits
<1> QED
    BY <1>4, <1>5, <1>7, <1>8, <1>9

\* Without a gap there is nothing to record.
LEMMA NothingRecorded ==
    ASSUME gaps = <<>>
    PROVE  /\ Len(gaps) = 0 /\ UpTo(Len(gaps)) = 0
           /\ Total(Interruptions) = 0
<1>1. Len(gaps) = 0
    BY EmptySeq
<1>2. UpTo(Len(gaps)) = 0
  <2>1. {k \in 1..Len(gaps) : gaps[k] > tsc_thresh} = {}
      BY <1>1
  <2> QED
      BY <2>1, FS_EmptySet DEF UpTo
<1>3. Interruptions \in [1..0 -> Int]
    BY <1>2 DEF Interruptions
<1>4. Interruptions \in Seq(Int) /\ Len(Interruptions) = 0
    BY <1>3, ArrayIsSeq
<1> QED
    BY <1>1, <1>2, <1>4, TotalAppend

\* Before the first read.
LEMMA ResultInit == JitterInit => ResultInv
<1> SUFFICES ASSUME JitterInit PROVE ResultInv
    OBVIOUS
<1>1. /\ gaps = <<>> /\ tsc = 0 /\ start = 0 /\ tsc_total_int = 0 /\ ds = <<>>
      /\ tsc_delta_min = UINT64_MAX /\ w = <<>> /\ report = <<>>
      /\ runtime_s \in Runtimes
    BY DEF JitterInit, gaps
<1>2. Recorded
    BY <1>1, NothingRecorded DEF Recorded
<1>3. tsc_runtime \in Nat /\ UINT32_MAX \in Nat
    BY <1>1, JitterAssumption, Words DEF tsc_runtime
<1>4. Summed
    BY <1>1, <1>3, NothingRecorded DEF Summed
<1>5. Corrections
    BY <1>1 DEF Corrections, Done
<1> QED
    BY <1>2, <1>4, <1>5, CountInit DEF ResultInv

\* A read of the TSC: the delta is recorded as the interruption it is, if there
\* is room, and the sum does not wrap (src/osjitter.c:437-470).
LEMMA ReadKeepsResults ==
    ASSUME CountInv, GapsFit, Recorded, NEW gap \in Gaps,
           phase \in {"first", "loop"}, tsc < limit, Read(gap, gap),
           tsc_delta_min' = IF phase = "first" THEN UINT64_MAX
                                               ELSE LowerOf(tsc_delta_min, gap),
           UNCHANGED <<runtime_s, start>>
    PROVE  Recorded' /\ (TscFits /\ Summed => Summed')
<1>1. PICK len : len = Len(reads) - 1
    OBVIOUS
<1>2. /\ gap \in Nat \ {0} /\ gap <= UINT32_MAX /\ gap \in Int
      /\ reads \in Seq(Nat) /\ reads # <<>>
      /\ reads[Len(reads)] = tsc /\ tsc \in Nat /\ start = 1
      /\ tsc' = tsc + gap /\ reads' = Append(reads, tsc + gap)
      /\ Count(gap, tsc + gap)
      /\ UINT32_MAX \in Nat /\ UINT64_MAX \in Nat /\ UINT32_MAX <= UINT64_MAX
      /\ i \in Nat /\ n \in Nat
  <2>1. reads \in Seq(Nat) /\ tsc \in Nat /\ i \in Nat /\ n \in Nat
      BY Sizes DEF CountInv, JitterTypeOK
  <2>2. reads # <<>> /\ reads[Len(reads)] = tsc /\ start = 1
      BY DEF CountInv, ReadsInOrder
  <2>3. gap \in Nat \ {0} /\ gap <= UINT32_MAX
      BY JitterAssumption DEF GapsFit
  <2>4. UINT32_MAX \in Nat /\ UINT64_MAX \in Nat /\ UINT32_MAX <= UINT64_MAX
      BY Words
  <2> QED
      BY <2>1, <2>2, <2>3, <2>4 DEF Read
<1>3. PICK t \in Nat : t = tsc + gap /\ gap = t - reads[len + 1]
  <2>1. tsc + gap \in Nat /\ reads[len + 1] = tsc
      BY <1>1, <1>2
  <2> QED
      BY <1>2, <2>1
<1>4. /\ len \in Nat
      /\ Len(gaps) = len /\ DOMAIN gaps = 1..len
      /\ Len(gaps') = len + 1 /\ DOMAIN gaps' = 1..(len + 1)
      /\ \A k \in 1..len : gaps'[k] = gaps[k]
      /\ gaps'[len + 1] = gap
    BY <1>1, <1>2, <1>3, OneMoreRead
<1>5. /\ Interruptions' = IF gap > tsc_thresh THEN Append(Interruptions, gap)
                                               ELSE Interruptions
      /\ \A k \in 1..UpTo(Len(gaps))' : PlacesOf(k)' # {}
    BY <1>1, <1>2, <1>3, InterruptionsGrow DEF Recorded
<1>6. /\ Interruptions \in Seq(Int) /\ Len(Interruptions) = i
      /\ UpTo(Len(gaps)) = i
    BY <1>2, InterruptionsType DEF Recorded, CountInv, Counted
<1>7. ASSUME NEW k \in DOMAIN ds' PROVE ds'[k] = Interruptions'[k]
  <2>1. ds \in Seq(0..UINT32_MAX) /\ Len(ds) = LowerOf(i, n) /\ Len(ds) \in Nat
      BY <1>2 DEF CountInv, JitterTypeOK, LowerOf
  <2>2. ASSUME NEW l \in DOMAIN ds
        PROVE  ds[l] = Interruptions[l] /\ Interruptions'[l] = Interruptions[l]
    <3>1. l \in 1..i
        BY <1>2, <2>1 DEF LowerOf
    <3>2. Append(Interruptions, gap)[l] = Interruptions[l]
        BY <1>2, <1>6, <3>1, AppendProperties
    <3> QED
        BY <1>5, <3>2 DEF Recorded
  <2>3. CASE ds' = ds
      BY <2>2, <2>3
  <2>4. CASE gap > tsc_thresh /\ i < n
    <3>1. ds' = Append(ds, gap)
      <4>1. LowerOf(gap, UINT32_MAX) = gap
          BY <1>2 DEF LowerOf
      <4> QED
          BY <1>2, <2>4, <4>1 DEF Count, CountIf
    <3>2. Len(ds) = i
        BY <1>2, <2>1, <2>4 DEF LowerOf
    <3>3. gap \in 0..UINT32_MAX
        BY <1>2
    <3>4. /\ DOMAIN ds' = 1..(i + 1) /\ ds'[i + 1] = gap /\ DOMAIN ds = 1..i
          /\ \A l \in 1..i : ds'[l] = ds[l]
        BY <2>1, <3>1, <3>2, <3>3, AppendProperties
    <3>5. Interruptions'[i + 1] = gap
        BY <1>2, <1>5, <1>6, <2>4, AppendProperties
    <3>6. ds'[i + 1] = Interruptions'[i + 1]
        BY <3>4, <3>5
    <3>7. \A l \in 1..i : ds'[l] = Interruptions'[l]
        BY <2>2, <3>4
    <3>8. i \in Nat /\ k \in 1..(i + 1)
        BY <1>2, <3>4
    <3> HIDE DEF Interruptions
    <3> QED
        BY <3>6, <3>7, <3>8
  <2>5. ds' = ds \/ (gap > tsc_thresh /\ i < n)
      BY <1>2 DEF Count, CountIf
  <2> QED
      BY <2>3, <2>4, <2>5
<1>8. /\ tsc_delta_min' \in {gaps'[k] : k \in 2..Len(gaps')} \cup {UINT64_MAX}
      /\ \A k \in 2..Len(gaps') : tsc_delta_min' <= gaps'[k]
  <2>1. CASE phase = "first"
    <3>1. len = 0 /\ tsc_delta_min' = UINT64_MAX
        BY <1>1, <2>1 DEF CountInv, ReadsInOrder
    <3> QED
        BY <1>4, <3>1
  <2>2. CASE phase = "loop"
    <3>1. len \in Nat \ {0} /\ tsc_delta_min' = LowerOf(tsc_delta_min, gap)
        BY <1>1, <1>2, <1>4, <2>2 DEF CountInv, ReadsInOrder
    <3>2. /\ tsc_delta_min \in {gaps[k] : k \in 2..len} \cup {UINT64_MAX}
          /\ \A k \in 2..len : tsc_delta_min <= gaps[k]
        BY <1>4 DEF Recorded
    <3>3. tsc_delta_min \in Int /\ tsc_delta_min <= UINT64_MAX
        BY DEF CountInv, JitterTypeOK
    <3>4. \A k \in 2..len : gaps[k] \in Int
      <4>1. \A k \in 2..len : gaps[k] \in Gaps
          BY <1>4 DEF CountInv, ReadsInOrder
      <4>2. \A g \in Gaps : g \in Int
          BY JitterAssumption
      <4> QED
          BY <4>1, <4>2
    <3>5. ASSUME NEW k \in 2..(len + 1) PROVE tsc_delta_min' <= gaps'[k]
      <4>1. CASE k = len + 1
          BY <1>2, <1>4, <3>1, <3>3, <4>1 DEF LowerOf
      <4>2. CASE k \in 2..len
        <5>1. tsc_delta_min <= gaps[k] /\ gaps[k] \in Int /\ gaps'[k] = gaps[k]
            BY <1>4, <3>2, <3>4, <4>2
        <5> QED
            BY <1>2, <3>1, <3>3, <5>1 DEF LowerOf
      <4> QED
          BY <1>4, <4>1, <4>2
    <3>6. tsc_delta_min' \in {gaps'[k] : k \in 2..(len + 1)} \cup {UINT64_MAX}
      <4>1. len + 1 \in 2..(len + 1) /\ gaps'[len + 1] = gap
          BY <1>4, <3>1
      <4>2. \A k \in 2..len : k \in 2..(len + 1) /\ gaps'[k] = gaps[k]
          BY <1>4
      <4>3. tsc_delta_min \in {gaps'[k] : k \in 2..(len + 1)} \cup {UINT64_MAX}
          BY <3>2, <4>2
      <4> QED
          BY <3>1, <4>1, <4>3 DEF LowerOf
    <3> QED
        BY <1>4, <3>5, <3>6
  <2> QED
      BY <2>1, <2>2
<1>9. ASSUME TscFits, Summed PROVE Summed'
  <2>1. /\ tsc_total_int = Total(Interruptions) /\ tsc_total_int \in Nat
        /\ tsc_total_int <= tsc - 1
      BY <1>2, <1>9, Words DEF Summed, CountInv, JitterTypeOK
  <2>2. tsc_runtime \in Nat /\ tsc_runtime' = tsc_runtime
      BY FirstReads DEF tsc_runtime
  <2>3. tsc_runtime + UINT32_MAX <= UINT64_MAX
      BY <1>9 DEF TscFits, tsc_runtime, CountInv, JitterTypeOK
  <2>4. tsc <= tsc_runtime
      BY <1>2, <2>2 DEF limit
  <2>5. UINT32_MAX' = UINT32_MAX
      BY Constant
  <2>6. tsc' <= tsc_runtime' + UINT32_MAX'
      BY <1>2, <2>2, <2>4, <2>5
  <2>7. CASE gap > tsc_thresh
    <3>1. tsc_total_int' = U64(tsc_total_int + gap)
        BY <1>2, <2>7 DEF Count, CountIf
    <3>2. tsc_total_int + gap \in 0..UINT64_MAX
        BY <1>2, <2>1, <2>2, <2>3, <2>4
    <3>3. U64(tsc_total_int + gap) = tsc_total_int + gap
        BY <3>2, NoWrap64
    <3>4. Total(Interruptions') = Total(Interruptions) + gap
        BY <1>2, <1>5, <1>6, <2>7, TotalAppend
    <3>5. tsc_total_int' = Total(Interruptions') /\ tsc_total_int' <= tsc' - start'
        BY <1>2, <2>1, <3>1, <3>3, <3>4
    <3> QED
        BY <2>6, <3>5 DEF Summed, Total
  <2>8. CASE ~(gap > tsc_thresh)
    <3>1. tsc_total_int' = tsc_total_int /\ Interruptions' = Interruptions
        BY <1>2, <1>5, <2>8 DEF Count, CountIf
    <3>2. tsc_total_int' = Total(Interruptions') /\ tsc_total_int' <= tsc' - start'
        BY <1>2, <2>1, <3>1
    <3> QED
        BY <2>6, <3>2 DEF Summed, Total
  <2> QED
      BY <2>7, <2>8
<1> QED
    BY <1>5, <1>7, <1>8, <1>9, Constant DEF Recorded

\* Every step keeps what the results say.
LEMMA ResultStep == ResultInv /\ [JitterNext]_jitterVars => ResultInv'
<1> SUFFICES ASSUME ResultInv, [JitterNext]_jitterVars PROVE ResultInv'
    OBVIOUS
<1>1. CountInv /\ CountInv' /\ GapsFit' = GapsFit /\ TscFits' = TscFits
    BY CountStep, Constant, SameResults DEF ResultInv
<1>2. phase \notin {"done", "reported", "failed", "aborted"} => w = <<>> /\ report = <<>>
    BY <1>1 DEF CountInv, HandedOver, JitterTypeOK, Done
<1>3. CASE Begin
  <2>1. /\ phase = "begin" /\ start' = 1 /\ tsc' = 1 /\ reads' = <<1>>
        /\ UNCHANGED <<ds, tsc_total_int, tsc_delta_min, w, report>>
      BY <1>3 DEF Begin, locals
  <2>2. reads = <<>> /\ ds = <<>> /\ w = <<>> /\ report = <<>>
      BY <1>1, <1>2, <2>1 DEF CountInv, ReadsInOrder
  <2>3. gaps = <<>> /\ gaps' = <<>>
    <3>1. gaps' \in [1..0 -> Int]
        BY <2>1 DEF gaps
    <3>2. gaps' \in Seq(Int) /\ Len(gaps') = 0
        BY <3>1, ArrayIsSeq
    <3> QED
        BY <2>2, <3>2, EmptySeq DEF gaps
  <2>4. /\ Len(gaps) = 0 /\ UpTo(Len(gaps)) = 0 /\ Total(Interruptions) = 0
        /\ (Len(gaps) = 0 /\ UpTo(Len(gaps)) = 0 /\ Total(Interruptions) = 0)'
    <3>1. (gaps = <<>> => Len(gaps) = 0 /\ UpTo(Len(gaps)) = 0
                          /\ Total(Interruptions) = 0)'
      <4>1. gaps = <<>> => Len(gaps) = 0 /\ UpTo(Len(gaps)) = 0
                           /\ Total(Interruptions) = 0
          BY NothingRecorded
      <4> QED
          BY NothingRecorded, PTL
    <3> QED
        BY <2>3, <3>1, NothingRecorded
  <2>5. GapsFit => Recorded'
    <3> SUFFICES ASSUME GapsFit PROVE Recorded'
        OBVIOUS
    <3>1. tsc_delta_min \in {gaps[k] : k \in 2..0} \cup {UINT64_MAX}
        BY <2>4 DEF ResultInv, Recorded
    <3>2. tsc_delta_min' = UINT64_MAX' /\ ds' = <<>>
        BY <2>1, <2>2, <3>1, Constant
    <3> QED
        BY <2>4, <3>2 DEF Recorded
  <2>6. GapsFit /\ TscFits => Summed'
    <3> SUFFICES ASSUME GapsFit, TscFits PROVE Summed'
        OBVIOUS
    <3>1. tsc_total_int' = 0
        BY <2>1, <2>4 DEF ResultInv, Summed
    <3>2. tsc_runtime' \in Nat \ {0} /\ UINT32_MAX' \in Nat
      <4>1. runtime_s' = runtime_s
          BY <1>3 DEF Begin
      <4>2. tsc_runtime' = tsc_runtime
          BY <4>1 DEF tsc_runtime
      <4> QED
          BY <1>1, <4>2, FirstReads, Words, Constant
    <3>3. tsc_total_int' <= tsc' - start' /\ tsc' <= tsc_runtime' + UINT32_MAX'
      <4>1. tsc' = 1 /\ start' = 1
          BY <2>1
      <4>2. \A r \in Nat \ {0}, m \in Nat : 0 <= 1 - 1 /\ 1 <= r + m
          OBVIOUS
      <4> QED
          BY <3>1, <3>2, <4>1, <4>2
    <3>4. (Total(Interruptions) = 0)'
        BY <2>4
    <3> QED
        BY <3>1, <3>3, <3>4 DEF Summed
  <2>7. Corrections'
      BY <2>1, <2>2 DEF Corrections, Done
  <2> QED
      BY <1>1, <2>5, <2>6, <2>7 DEF ResultInv
<1>4. ASSUME NEW gap \in Gaps, phase \in {"first", "loop"}, tsc < limit,
             GapsFit => Read(gap, gap),
             GapsFit => tsc_delta_min' =
                 IF phase = "first" THEN UINT64_MAX ELSE LowerOf(tsc_delta_min, gap),
             UNCHANGED <<runtime_s, start, w, report>>
      PROVE  ResultInv'
  <2>1. Corrections'
      BY <1>2, <1>4 DEF Corrections, Done
  <2> QED
      BY <1>1, <1>4, <2>1, ReadKeepsResults DEF ResultInv
<1>5. CASE First
  <2>1. tsc < limit /\ phase = "first"
      BY <1>1, <1>5, FirstReads DEF First
  <2>2. PICK gap \in Gaps : Read(gap, gap)
      BY <1>5, <2>1 DEF First
  <2>3. tsc_delta_min' = UINT64_MAX /\ UNCHANGED <<runtime_s, start, w, report>>
      BY <1>5 DEF First
  <2> QED
      BY <1>4, <2>1, <2>2, <2>3
<1>6. CASE Iterate
  <2>1. tsc < limit /\ phase = "loop"
      BY <1>6 DEF Iterate
  <2>2. PICK gap \in Gaps :
            /\ Read(gap, U32(gap))
            /\ tsc_delta_min' = LowerOf(tsc_delta_min, U32(gap))
      BY <1>6 DEF Iterate
  <2>3. UNCHANGED <<runtime_s, start, w, report>>
      BY <1>6 DEF Iterate
  <2>4. GapsFit => U32(gap) = gap
    <3>1. gap \in Nat
        BY JitterAssumption
    <3> QED
        BY <3>1, NoWrap32 DEF GapsFit
  <2> QED
      BY <1>4, <2>1, <2>2, <2>3, <2>4
<1>7. ASSUME UNCHANGED <<ds, i, tsc_delta_min, runtime_s, reads, tsc, start,
                         tsc_total_int>>,
             Corrections'
      PROVE  ResultInv'
    BY <1>1, <1>7, SameResults DEF ResultInv
<1>8. UNCHANGED <<ds, i, tsc_delta_min, runtime_s, tsc_total_int>> =>
         /\ Sorted(Corrected)' = Sorted(Corrected)
         /\ U64(tsc_total_int - tsc_delta_min * i)' =
               U64(tsc_total_int - tsc_delta_min * i)
  <2> SUFFICES ASSUME UNCHANGED <<ds, i, tsc_delta_min, runtime_s, tsc_total_int>>
               PROVE  /\ Sorted(Corrected)' = Sorted(Corrected)
                      /\ U64(tsc_total_int - tsc_delta_min * i)' =
                            U64(tsc_total_int - tsc_delta_min * i)
      OBVIOUS
  <2>1. Corrected' = Corrected
      BY SameResults
  <2>2. Sorted(Corrected)' = Sorted(Corrected)
      BY <2>1 DEF Sorted, Rank, Before
  <2>3. U64(tsc_total_int - tsc_delta_min * i)' =
           U64(tsc_total_int - tsc_delta_min * i)
      BY DEF U64, W64, W32
  <2> QED
      BY <2>2, <2>3
<1>9. CASE Finalize
  <2>1. /\ phase = "loop"
        /\ UNCHANGED <<ds, i, tsc_delta_min, runtime_s, reads, tsc, start,
                       tsc_total_int, report>>
        /\ w'.deltas = Sorted(Corrected)
        /\ w'.tsc_total_int = U64(tsc_total_int - tsc_delta_min * i)
      BY <1>9 DEF Finalize, HandOver, locals
  <2>2. Corrections'
      BY <1>2, <1>8, <2>1 DEF Corrections
  <2> QED
      BY <1>7, <2>1, <2>2
<1>10. ASSUME UNCHANGED <<ds, i, tsc_delta_min, runtime_s, tsc_total_int, w>>,
              report' = report \/ (phase = "done" /\ report' = Line)
       PROVE  Corrections'
  <2>1. Line' = Line
      BY <1>10, SameResults
  <2>2. phase = "done" => Done
      BY <1>1 DEF CountInv, HandedOver
  <2> QED
      BY <1>8, <1>10, <2>1, <2>2 DEF ResultInv, Corrections, Done
<1>11. CASE Report
  <2>1. /\ phase = "done" /\ (report' = Line \/ report' = report)
        /\ UNCHANGED <<ds, i, tsc_delta_min, runtime_s, reads, tsc, start,
                       tsc_total_int, w>>
      BY <1>11 DEF Report, locals
  <2> QED
      BY <1>7, <1>10, <2>1
<1>12. CASE ReportFails \/ UNCHANGED jitterVars
  <2>1. UNCHANGED <<ds, i, tsc_delta_min, runtime_s, reads, tsc, start,
                    tsc_total_int, w, report>>
      BY <1>12 DEF ReportFails, jitterVars, locals
  <2> QED
      BY <1>7, <1>10, <2>1
<1> QED
    BY <1>3, <1>5, <1>6, <1>9, <1>11, <1>12 DEF JitterNext

\* What is recorded and summed up is exact, and the results and the line are
\* made from it (worker_main and pp_results, src/osjitter.c:433-493, 530-596).
THEOREM ResultInvAlways == JitterSpec => []ResultInv
<1> QED
    BY ResultInit, ResultStep, PTL DEF JitterSpec

\* The interruptions that were counted, and the deltas that were recorded, if
\* some iteration was quiet: no correction wraps (src/osjitter.c:477-487).
LEMMA QuietResults ==
    ASSUME ResultInv, GapsFit, SomeQuietIteration
    PROVE  /\ i \in Nat /\ tsc_delta_min \in Nat
           /\ Interruptions \in Seq(Int) /\ Len(Interruptions) = i
           /\ DOMAIN Interruptions = 1..i
           /\ \A k \in 1..i : /\ Interruptions[k] \in Gaps
                             /\ Interruptions[k] >= tsc_delta_min
           /\ tsc_delta_min = Minimum(LoopGaps)
           /\ LowerOf(i, n) \in Nat /\ LowerOf(i, n) <= i
           /\ Corrected = [k \in 1..LowerOf(i, n) |->
                              Interruptions[k] - tsc_delta_min]
           /\ \A k \in 1..LowerOf(i, n) :
                 Interruptions[k] - tsc_delta_min \in 0..UINT32_MAX
<1> USE DEF ResultInv
<1>1. /\ reads \in Seq(Nat) /\ i \in Nat /\ n \in Nat
      /\ ds \in Seq(0..UINT32_MAX) /\ Len(ds) = LowerOf(i, n)
      /\ tsc_delta_min \in Nat /\ tsc_delta_min <= UINT64_MAX
      /\ UINT32_MAX \in Nat /\ UINT64_MAX \in Nat /\ UINT32_MAX <= UINT64_MAX
  <2>1. UINT32_MAX \in Nat /\ UINT64_MAX \in Nat /\ UINT32_MAX <= UINT64_MAX
      BY Words
  <2>2. JitterTypeOK
      BY DEF CountInv
  <2>3. n \in Nat
      BY <2>2, Sizes DEF JitterTypeOK
  <2> QED
      BY <2>1, <2>2, <2>3 DEF JitterTypeOK
<1>2. gaps # <<>> /\ reads # <<>>
  <2>1. gaps # <<>>
      BY DEF SomeQuietIteration, LoopGaps
  <2> QED
      BY <2>1 DEF gaps
<1>3. PICK len \in Nat \ {0} :
          /\ gaps \in Seq(Int) /\ Len(gaps) = len /\ DOMAIN gaps = 1..len
  <2>1. gaps \in Seq(Int) /\ DOMAIN gaps = 1..Len(gaps) /\ Len(gaps) \in Nat
      BY <1>1, <1>2, GapsType DEF gaps
  <2>2. Len(gaps) # 0
      BY <1>2, <2>1, EmptySeq
  <2> QED
      BY <2>1, <2>2
<1>4. \A k \in 1..len : gaps[k] \in Gaps /\ gaps[k] \in Nat /\ gaps[k] <= UINT32_MAX
  <2>1. \A k \in 1..len : gaps[k] \in Gaps
      BY <1>3 DEF CountInv, ReadsInOrder
  <2>2. \A gap \in Gaps : gap \in Nat /\ gap <= UINT32_MAX
      BY JitterAssumption DEF GapsFit
  <2> QED
      BY <2>1, <2>2
<1>5. /\ DOMAIN LoopGaps = 1..(len - 1)
      /\ \A k \in 1..(len - 1) : LoopGaps[k] = gaps[k + 1]
    BY <1>2, <1>3 DEF LoopGaps
<1>6. /\ \A k \in 2..len : tsc_delta_min <= gaps[k]
      /\ tsc_delta_min \in {gaps[k] : k \in 2..len} \cup {UINT64_MAX}
    BY <1>3 DEF Recorded
<1>7. tsc_delta_min <= tsc_thresh /\ tsc_thresh \in Int
  <2>1. PICK k \in 1..(len - 1) : gaps[k + 1] <= tsc_thresh
      BY <1>5 DEF SomeQuietIteration
  <2>2. k + 1 \in 2..len /\ k + 1 \in 1..len
      BY <1>3
  <2>3. gaps[k + 1] \in Nat /\ tsc_delta_min <= gaps[k + 1]
      BY <1>4, <1>6, <2>2
  <2>4. tsc_thresh \in Int
    <3>1. tsc_khz * thresh_ns \in Int /\ NsPerMs \in Nat \ {0}
      <4>1. tsc_khz \in Int /\ thresh_ns \in Int
          BY JitterAssumption
      <4> QED
          BY <4>1, ClockScaleAssumption
    <3>2. (tsc_khz * thresh_ns) \div NsPerMs \in Int
        BY <3>1
    <3> QED
        BY <3>2, Words DEF tsc_thresh
  <2> QED
      BY <1>1, <2>1, <2>3, <2>4
<1>8. /\ Interruptions \in Seq(Int) /\ Len(Interruptions) = i
      /\ DOMAIN Interruptions = 1..i
      /\ \A k \in 1..i : /\ Place(k) \in 1..len
                        /\ Interruptions[k] = gaps[Place(k)]
                        /\ Interruptions[k] > tsc_thresh
    BY <1>1, <1>2, <1>3, InterruptionsType DEF Recorded, CountInv, Counted
<1>9. \A k \in 1..i : /\ Interruptions[k] \in Gaps
                     /\ Interruptions[k] \in Nat
                     /\ Interruptions[k] <= UINT32_MAX
                     /\ Interruptions[k] >= tsc_delta_min
  <2> SUFFICES ASSUME NEW k \in 1..i
               PROVE  /\ Interruptions[k] \in Gaps
                      /\ Interruptions[k] \in Nat
                      /\ Interruptions[k] <= UINT32_MAX
                      /\ Interruptions[k] >= tsc_delta_min
      OBVIOUS
  <2>1. /\ Interruptions[k] \in Gaps
        /\ Interruptions[k] \in Nat
        /\ Interruptions[k] <= UINT32_MAX
        /\ Interruptions[k] > tsc_thresh
      BY <1>4, <1>8
  <2> QED
      BY <1>1, <1>7, <2>1
<1>10. tsc_delta_min = Minimum(LoopGaps)
  <2> DEFINE S == {LoopGaps[k] : k \in DOMAIN LoopGaps} \cup {UINT64_MAX}
  <2>1. tsc_delta_min \in S
    <3>1. CASE tsc_delta_min = UINT64_MAX
        BY <3>1
    <3>2. ASSUME NEW k \in 2..len, tsc_delta_min = gaps[k] PROVE tsc_delta_min \in S
      <4>1. k - 1 \in DOMAIN LoopGaps /\ LoopGaps[k - 1] = gaps[k]
          BY <1>3, <1>5
      <4> QED
          BY <3>2, <4>1
    <3> QED
        BY <1>6, <3>1, <3>2
  <2>2. \A y \in S : y \in Int /\ tsc_delta_min <= y
    <3>1. ASSUME NEW k \in DOMAIN LoopGaps
          PROVE  LoopGaps[k] \in Int /\ tsc_delta_min <= LoopGaps[k]
      <4>1. k + 1 \in 2..len /\ k + 1 \in 1..len /\ LoopGaps[k] = gaps[k + 1]
          BY <1>3, <1>5
      <4> QED
          BY <1>4, <1>6, <4>1
    <3> QED
        BY <1>1, <3>1
  <2>3. Minimum(LoopGaps) = CHOOSE x \in S : \A y \in S : x <= y
      BY DEF Minimum, Min
  <2> HIDE DEF S
  <2>4. \A x \in S : (\A y \in S : x <= y) => x = tsc_delta_min
    <3> SUFFICES ASSUME NEW x \in S, \A y \in S : x <= y
                 PROVE  x = tsc_delta_min
        OBVIOUS
    <3>1. x <= tsc_delta_min /\ tsc_delta_min <= x /\ x \in Int
        BY <2>1, <2>2
    <3> QED
        BY <1>1, <3>1
  <2> QED
      BY <2>1, <2>2, <2>3, <2>4
<1>11. LowerOf(i, n) \in Nat /\ LowerOf(i, n) <= i
    BY <1>1 DEF LowerOf
<1>12. ASSUME NEW k \in 1..LowerOf(i, n)
       PROVE  /\ Interruptions[k] - tsc_delta_min \in 0..UINT32_MAX
              /\ U32(U64(ds[k] - tsc_delta_min)) = Interruptions[k] - tsc_delta_min
  <2>1. k \in 1..i /\ k \in DOMAIN ds
      BY <1>1, <1>11
  <2>2. ds[k] = Interruptions[k]
      BY <2>1 DEF Recorded
  <2>3. PICK d \in Nat : d = Interruptions[k] /\ d <= UINT32_MAX /\ d >= tsc_delta_min
      BY <1>9, <2>1
  <2>4. d - tsc_delta_min \in 0..UINT32_MAX /\ d - tsc_delta_min \in 0..UINT64_MAX
      BY <1>1, <2>3
  <2>5. U32(U64(d - tsc_delta_min)) = d - tsc_delta_min
      BY <2>4, NoWrap32, NoWrap64
  <2> QED
      BY <2>2, <2>3, <2>4, <2>5
<1>13. Corrected = [k \in 1..LowerOf(i, n) |-> Interruptions[k] - tsc_delta_min]
    BY <1>12 DEF Corrected
<1> QED
    BY <1>1, <1>8, <1>9, <1>10, <1>11, <1>12, <1>13

\* Every interruption counts, unless a gap of the loop needs more than 32 bits
\* (src/osjitter.c:82, 442-470).
THEOREM InterruptionsCounted ==
    GapsFit => (JitterSpec => []EveryInterruptionCounts)
<1> SUFFICES ASSUME GapsFit PROVE JitterSpec => []EveryInterruptionCounts
    OBVIOUS
<1>1. CountInv => EveryInterruptionCounts
    BY DEF CountInv, HandedOver, Counted, EveryInterruptionCounts
<1> QED
    BY <1>1, CountInvAlways, PTL

\* Under the same condition the overflow is told exactly when an interruption
\* was not recorded, with the time of the first one (src/osjitter.c:83-84).
THEOREM OverflowTold == GapsFit => (JitterSpec => []OverflowIsTold)
<1> SUFFICES ASSUME GapsFit PROVE JitterSpec => []OverflowIsTold
    OBVIOUS
<1>1. CountInv => OverflowIsTold
  <2> SUFFICES ASSUME CountInv, Done PROVE OverflowIsTold
      BY DEF OverflowIsTold
  <2>1. n \in Nat /\ i \in Nat
      BY Sizes DEF CountInv, JitterTypeOK
  <2> QED
      BY <2>1 DEF CountInv, HandedOver, Counted, OverflowIsTold, LowerOf
<1> QED
    BY <1>1, CountInvAlways, PTL

\* If the gaps have 32 bits and the measurement ends before the TSC has more
\* than 64, the correction is exact: neither the sum nor a recorded delta wraps
\* when the smallest gap is subtracted (src/osjitter.c:477-487).
THEOREM ExactCorrection ==
    GapsFit /\ TscFits => (JitterSpec => []CorrectionIsExact)
<1> SUFFICES ASSUME GapsFit, TscFits PROVE JitterSpec => []CorrectionIsExact
    OBVIOUS
<1>1. ResultInv => CorrectionIsExact
  <2> DEFINE corrected == [k \in DOMAIN Interruptions |->
                              Interruptions[k] - Minimum(LoopGaps)]
  <2> SUFFICES ASSUME ResultInv, Done, SomeQuietIteration
               PROVE  /\ w.tsc_total_int = Total(corrected)
                      /\ w.deltas = Sorted(SubSeq(corrected, 1, w.samples))
      BY DEF CorrectionIsExact
  <2>1. /\ Interruptions \in Seq(Int) /\ Len(Interruptions) = i /\ i \in Nat
        /\ DOMAIN Interruptions = 1..i
        /\ \A k \in 1..i : /\ Interruptions[k] \in Int
                          /\ Interruptions[k] >= tsc_delta_min
        /\ tsc_delta_min = Minimum(LoopGaps) /\ tsc_delta_min \in Nat
    <3>1. \A gap \in Gaps : gap \in Int
        BY JitterAssumption
    <3> QED
        BY <3>1, QuietResults
  <2>2. corrected = [k \in 1..i |-> Interruptions[k] - tsc_delta_min]
      BY <2>1
  <2>3. /\ corrected \in Seq(Int) /\ Len(corrected) = i
        /\ \A k \in 1..i : corrected[k] = Interruptions[k] - tsc_delta_min
    <3>1. corrected \in [1..i -> Int]
        BY <2>1, <2>2
    <3>2. \A k \in 1..i : corrected[k] = Interruptions[k] - tsc_delta_min
        BY <2>2
    <3> HIDE DEF corrected
    <3> QED
        BY <2>1, <3>1, <3>2, ArrayIsSeq
  <2>4. Total(corrected) = Total(Interruptions) - tsc_delta_min * i
    <3>1. corrected = [k \in DOMAIN Interruptions |->
                          Interruptions[k] - tsc_delta_min]
        BY <2>1
    <3>2. tsc_delta_min \in Int
        BY <2>1
    <3> HIDE DEF corrected
    <3> QED
        BY <2>1, <3>1, <3>2, TotalShift
  <2> HIDE DEF corrected
  <2>5. Total(corrected) \in Nat
    <3>1. \A k \in 1..Len(corrected) : corrected[k] >= 0
      <4> SUFFICES ASSUME NEW k \in 1..i PROVE corrected[k] >= 0
          BY <2>3
      <4>1. /\ Interruptions[k] \in Int /\ Interruptions[k] >= tsc_delta_min
            /\ corrected[k] = Interruptions[k] - tsc_delta_min
          BY <2>1, <2>3
      <4> QED
          BY <2>1, <4>1
    <3> QED
        BY <2>3, <3>1, TotalNotNegative
  <2>6. w.tsc_total_int = Total(corrected)
    <3>1. tsc_total_int = Total(Interruptions) /\ tsc_total_int \in 0..UINT64_MAX
        BY DEF ResultInv, Summed, CountInv, JitterTypeOK
    <3>2. tsc_delta_min * i \in Nat
        BY <2>1
    <3>3. PICK p \in Nat : p = tsc_delta_min * i
        BY <3>2
    <3>4. Total(corrected) = tsc_total_int - p
        BY <2>4, <3>1, <3>3
    <3>5. Total(corrected) \in 0..UINT64_MAX
        BY <2>5, <3>1, <3>3, <3>4, Words
    <3> QED
        BY <3>3, <3>4, <3>5, NoWrap64 DEF ResultInv, Corrections
  <2>7. SubSeq(corrected, 1, w.samples) = Corrected
    <3>1. PICK m \in Nat : m = LowerOf(i, n) /\ m <= i /\ w.samples = m
        BY QuietResults DEF ResultInv, CountInv, HandedOver
    <3>2. Corrected = [k \in 1..m |-> Interruptions[k] - tsc_delta_min]
        BY <3>1, QuietResults
    <3>3. SubSeq(corrected, 1, m) = [k \in 1..m |-> corrected[k]]
        BY <2>1, <2>3, <3>1
    <3>4. \A k \in 1..m : corrected[k] = Interruptions[k] - tsc_delta_min
        BY <2>1, <2>3, <3>1
    <3> QED
        BY <3>1, <3>2, <3>3, <3>4
  <2>8. w.deltas = Sorted(Corrected)
      BY DEF ResultInv, Corrections
  <2> QED
      BY <2>6, <2>7, <2>8
<1> QED
    BY <1>1, ResultInvAlways, PTL
-----------------------------------------------------------------------------
(***************************************************************************)
(* The statistics                                                          *)
(***************************************************************************)

\* Ascending arrays of len deltas; two deltas together have room in 32 bits.
HalfMax == UINT32_MAX \div 2
Ascending(len) == {x \in [1..len -> 0..HalfMax] :
                      \A j, k \in 1..len : j <= k => x[j] <= x[k]}

\* The value at a position, or the mean of it and the one below.
ValueAt(x, idx) == IF Len(x) % 2 = 1 \/ idx = 0 THEN x[idx + 1]
                                              ELSE (x[idx + 1] + x[idx]) \div 2

\* The values of such an array.
LEMMA AscendingType ==
    ASSUME NEW len \in Nat, NEW x \in Ascending(len)
    PROVE  /\ HalfMax \in Nat /\ 2 * HalfMax <= UINT32_MAX
           /\ x \in [1..len -> 0..HalfMax] /\ Len(x) = len
           /\ \A k \in 1..len : x[k] \in 0..HalfMax /\ x[k] \in Int
           /\ \A j, k \in 1..len : j <= k => x[j] <= x[k]
<1>1. HalfMax \in Nat /\ 2 * HalfMax <= UINT32_MAX
  <2>1. UINT32_MAX \in Nat
      BY Words
  <2> QED
      BY <2>1 DEF HalfMax
<1> QED
    BY <1>1 DEF Ascending

\* The value at a position is between its neighbours.
LEMMA ValueIsBetween ==
    ASSUME NEW len \in Nat \ {0}, NEW x \in Ascending(len), NEW idx \in 0..(len - 1)
    PROVE  /\ ValueAt(x, idx) \in 0..HalfMax
           /\ ValueAt(x, idx) <= x[idx + 1]
           /\ idx # 0 => x[idx] <= ValueAt(x, idx)
<1>1. /\ Len(x) = len /\ idx + 1 \in 1..len /\ x[idx + 1] \in 0..HalfMax
      /\ HalfMax \in Nat
    BY AscendingType
<1>2. idx # 0 => /\ idx \in 1..len /\ x[idx] \in 0..HalfMax
                 /\ x[idx] <= x[idx + 1]
  <2>1. idx # 0 => idx \in 1..len /\ idx <= idx + 1
      OBVIOUS
  <2> QED
      BY <1>1, <2>1, AscendingType
<1>3. CASE len % 2 = 1 \/ idx = 0
    BY <1>1, <1>2, <1>3 DEF ValueAt
<1>4. CASE ~(len % 2 = 1 \/ idx = 0)
  <2>1. PICK low \in 0..HalfMax, high \in 0..HalfMax :
            low = x[idx] /\ high = x[idx + 1] /\ low <= high
      BY <1>1, <1>2, <1>4
  <2>2. ValueAt(x, idx) = (high + low) \div 2
      BY <1>1, <1>4, <2>1 DEF ValueAt
  <2>3. /\ (high + low) \div 2 \in 0..HalfMax /\ (high + low) \div 2 <= high
        /\ low <= (high + low) \div 2
      BY <1>1, <2>1
  <2> QED
      BY <2>1, <2>2, <2>3
<1> QED
    BY <1>3, <1>4

\* percentile_u32 is the value at its position (src/util.c:45-59).
LEMMA PercentileIs ==
    ASSUME NEW len \in Nat \ {0}, NEW x \in Ascending(len),
           NEW a \in Nat, NEW b \in Nat \ {0}, (len * a) \div b \in 0..(len - 1)
    PROVE  percentile_u32(x, a, b) = ValueAt(x, (len * a) \div b)
<1>1. PICK idx \in 0..(len - 1) : idx = (len * a) \div b
    OBVIOUS
<1>2. /\ Len(x) = len /\ idx + 1 \in 1..len /\ x[idx + 1] \in 0..HalfMax
      /\ HalfMax \in Nat /\ 2 * HalfMax <= UINT32_MAX /\ UINT32_MAX \in Nat
    BY AscendingType, Words
<1>3. CASE len % 2 = 1 \/ idx = 0
    BY <1>1, <1>2, <1>3 DEF percentile_u32, ValueAt
<1>4. CASE ~(len % 2 = 1 \/ idx = 0)
  <2>1. idx \in 1..len /\ len # 0
      BY <1>4
  <2>2. PICK low \in 0..HalfMax, high \in 0..HalfMax :
            low = x[idx] /\ high = x[idx + 1]
      BY <1>2, <2>1, AscendingType
  <2>3. percentile_u32(x, a, b) = U32(high + low) \div 2
      BY <1>1, <1>2, <1>4, <2>1, <2>2 DEF percentile_u32
  <2>4. U32(high + low) = high + low
    <3>1. high + low \in 0..UINT32_MAX
        BY <1>2
    <3> QED
        BY <3>1, NoWrap32
  <2>5. ValueAt(x, idx) = (high + low) \div 2
      BY <1>2, <1>4, <2>2 DEF ValueAt
  <2> QED
      BY <1>1, <2>3, <2>4, <2>5
<1> QED
    BY <1>3, <1>4

\* The positions that are reported.
LEMMA ColumnsAre ==
    /\ DOMAIN Columns = 1..6
    /\ Columns[1] = <<1, 5>> /\ Columns[2] = <<1, 2>> /\ Columns[3] = <<4, 5>>
    /\ Columns[4] = <<90, 100>> /\ Columns[5] = <<99, 100>>
    /\ Columns[6] = <<999, 1000>>
BY DEF Columns

\* Numerators and denominators.
LEMMA ColumnsType ==
    \A c \in 1..6 : Columns[c][1] \in Nat /\ Columns[c][2] \in Nat \ {0}
<1>1. \A c \in 1..6 : c \in {1, 2, 3, 4, 5, 6}
    OBVIOUS
<1> QED
    BY <1>1, ColumnsAre

\* They ascend, and none is beyond the end of the array.
LEMMA PositionsAscend ==
    ASSUME NEW len \in Nat \ {0}
    PROVE  LET idx(c) == (len * Columns[c][1]) \div Columns[c][2]
           IN  /\ \A c \in 1..6 : idx(c) \in 0..(len - 1)
               /\ \A c \in 2..6 : idx(c - 1) <= idx(c)
<1> DEFINE idx(c) == (len * Columns[c][1]) \div Columns[c][2]
<1>1. /\ idx(1) = (len * 1) \div 5
      /\ idx(2) = (len * 1) \div 2
      /\ idx(3) = (len * 4) \div 5
      /\ idx(4) = (len * 90) \div 100
      /\ idx(5) = (len * 99) \div 100
      /\ idx(6) = (len * 999) \div 1000
    BY ColumnsAre
<1>2. /\ (len * 1) \div 5 \in 0..(len - 1)
      /\ (len * 1) \div 2 \in 0..(len - 1)
      /\ (len * 4) \div 5 \in 0..(len - 1)
      /\ (len * 90) \div 100 \in 0..(len - 1)
      /\ (len * 99) \div 100 \in 0..(len - 1)
      /\ (len * 999) \div 1000 \in 0..(len - 1)
    OBVIOUS
<1>3. /\ (len * 1) \div 5 <= (len * 1) \div 2
      /\ (len * 1) \div 2 <= (len * 4) \div 5
      /\ (len * 4) \div 5 <= (len * 90) \div 100
      /\ (len * 90) \div 100 <= (len * 99) \div 100
      /\ (len * 99) \div 100 <= (len * 999) \div 1000
    OBVIOUS
<1>4. \A c \in 1..6 : c \in {1, 2, 3, 4, 5, 6}
    OBVIOUS
<1>5. \A c \in 2..6 : c \in {2, 3, 4, 5, 6}
    OBVIOUS
<1> HIDE DEF idx
<1>6. \A c \in 1..6 : idx(c) \in 0..(len - 1)
    BY <1>1, <1>2, <1>4
<1>7. \A c \in 2..6 : idx(c - 1) <= idx(c)
  <2> SUFFICES ASSUME NEW c \in {2, 3, 4, 5, 6} PROVE idx(c - 1) <= idx(c)
      BY <1>5
  <2>1. CASE c = 2
    <3>1. c - 1 = 1
        BY <2>1
    <3> QED
        BY <1>1, <1>3, <2>1, <3>1
  <2>2. CASE c = 3
    <3>1. c - 1 = 2
        BY <2>2
    <3> QED
        BY <1>1, <1>3, <2>2, <3>1
  <2>3. CASE c = 4
    <3>1. c - 1 = 3
        BY <2>3
    <3> QED
        BY <1>1, <1>3, <2>3, <3>1
  <2>4. CASE c = 5
    <3>1. c - 1 = 4
        BY <2>4
    <3> QED
        BY <1>1, <1>3, <2>4, <3>1
  <2>5. CASE c = 6
    <3>1. c - 1 = 5
        BY <2>5
    <3> QED
        BY <1>1, <1>3, <2>5, <3>1
  <2> QED
      BY <2>1, <2>2, <2>3, <2>4, <2>5
<1> QED
    BY <1>6, <1>7 DEF idx

\* What is printed in one column: it has its share of the values at or below
\* it, and is not above the largest value.
LEMMA PercentileOf ==
    ASSUME NEW len \in Nat \ {0}, NEW x \in Ascending(len), NEW c \in 1..6
    PROVE  LET idx == (len * Columns[c][1]) \div Columns[c][2]
           IN  /\ idx \in 0..(len - 1)
               /\ Percentiles(x)[c] = ValueAt(x, idx)
               /\ Percentiles(x)[c] \in 0..HalfMax
               /\ Percentiles(x)[c] <= x[len]
               /\ \A k \in 1..idx : x[k] <= Percentiles(x)[c]
<1>1. PICK idx \in 0..(len - 1) : idx = (len * Columns[c][1]) \div Columns[c][2]
    BY PositionsAscend
<1>2. PICK a \in Nat, b \in Nat \ {0} : a = Columns[c][1] /\ b = Columns[c][2]
    BY ColumnsType
<1>3. (len * a) \div b = idx
    BY <1>1, <1>2
<1>4. PICK p : p = percentile_u32(x, a, b)
    OBVIOUS
<1>5. Percentiles(x)[c] = p
    BY <1>2, <1>4, ColumnsAre DEF Percentiles
<1>6. p = ValueAt(x, idx)
    BY <1>3, <1>4, PercentileIs
<1>7. p \in 0..HalfMax /\ p <= x[idx + 1] /\ (idx # 0 => x[idx] <= p)
    BY <1>6, ValueIsBetween
<1>8. HalfMax \in Nat
    BY AscendingType
<1>9. ASSUME NEW k \in 1..idx PROVE x[k] <= p
  <2>1. idx \in 1..len /\ k \in 1..len /\ k <= idx /\ idx # 0
      OBVIOUS
  <2>2. x[k] <= x[idx] /\ x[idx] <= p /\ x[k] \in Int /\ x[idx] \in Int
      BY <1>7, <2>1, AscendingType
  <2> QED
      BY <1>7, <1>8, <2>2
<1>10. p <= x[len]
  <2>1. idx + 1 \in 1..len /\ len \in 1..len /\ idx + 1 <= len
      OBVIOUS
  <2>2. x[idx + 1] <= x[len] /\ x[idx + 1] \in Int /\ x[len] \in Int
      BY <2>1, AscendingType
  <2> QED
      BY <1>7, <1>8, <2>2
<1> QED
    BY <1>1, <1>5, <1>6, <1>7, <1>9, <1>10

\* A column is not below the column before it.
LEMMA PercentilesAscend ==
    ASSUME NEW len \in Nat \ {0}, NEW x \in Ascending(len), NEW c \in 2..6
    PROVE  Percentiles(x)[c - 1] <= Percentiles(x)[c]
<1>1. PICK d \in 1..6 : d = c - 1 /\ c \in 1..6
    OBVIOUS
<1>2. PICK l \in 0..(len - 1), m \in 0..(len - 1) :
          /\ l = (len * Columns[d][1]) \div Columns[d][2]
          /\ m = (len * Columns[c][1]) \div Columns[c][2]
    BY <1>1, PositionsAscend
<1>3. l <= m
    BY <1>1, <1>2, PositionsAscend
<1>4. PICK p, q : p = Percentiles(x)[d] /\ q = Percentiles(x)[c]
    OBVIOUS
<1>5. p = ValueAt(x, l) /\ p \in 0..HalfMax
    BY <1>2, <1>4, PercentileOf
<1>6. q = ValueAt(x, m) /\ q \in 0..HalfMax /\ \A k \in 1..m : x[k] <= q
    BY <1>1, <1>2, <1>4, PercentileOf
<1>7. p <= x[l + 1] /\ x[l + 1] \in Int /\ HalfMax \in Nat
  <2>1. l + 1 \in 1..len
      OBVIOUS
  <2> QED
      BY <1>5, <2>1, ValueIsBetween, AscendingType
<1>8. CASE l = m
    BY <1>1, <1>4, <1>5, <1>6, <1>7, <1>8
<1>9. CASE l < m
  <2>1. l + 1 \in 1..m
      BY <1>9
  <2>2. x[l + 1] <= q
      BY <1>6, <2>1
  <2>3. p <= q
      BY <1>5, <1>6, <1>7, <2>2
  <2> QED
      BY <1>1, <1>4, <2>3
<1> QED
    BY <1>3, <1>8, <1>9

\* The deltas of the report, if some iteration was quiet and the gaps have one
\* bit less than their words.
LEMMA ReportIs ==
    ASSUME ResultInv, HalfGapsFit, SomeQuietIteration, report # <<>>
    PROVE  /\ w.samples \in Nat
           /\ w.deltas \in Ascending(w.samples)
           /\ Len(w.deltas) = w.samples /\ DOMAIN w.deltas = 1..w.samples
           /\ report = Line
<1>1. UINT32_MAX \in Nat /\ HalfMax \in Nat
    BY Words DEF HalfMax
<1>2. \A gap \in Gaps : gap \in Nat /\ gap <= UINT32_MAX /\ gap <= HalfMax
  <2> SUFFICES ASSUME NEW gap \in Gaps
               PROVE  gap \in Nat /\ gap <= UINT32_MAX /\ gap <= HalfMax
      OBVIOUS
  <2>1. gap \in Nat /\ 2 * gap <= UINT32_MAX
      BY JitterAssumption DEF HalfGapsFit
  <2> QED
      BY <1>1, <2>1 DEF HalfMax
<1>3. GapsFit
    BY <1>2 DEF GapsFit
<1>4. PICK len \in Nat : len = LowerOf(i, n) /\ len <= i
    BY <1>3, QuietResults
<1>5. /\ i \in Nat /\ tsc_delta_min \in Nat
      /\ \A k \in 1..i : /\ Interruptions[k] \in Gaps
                         /\ Interruptions[k] >= tsc_delta_min
      /\ Corrected = [k \in 1..len |-> Interruptions[k] - tsc_delta_min]
    BY <1>3, <1>4, QuietResults
<1>6. ASSUME NEW k \in 1..len
      PROVE  Interruptions[k] - tsc_delta_min \in 0..HalfMax
  <2>1. k \in 1..i
      BY <1>4, <1>5
  <2>2. PICK d \in Nat : d = Interruptions[k] /\ d <= HalfMax /\ d >= tsc_delta_min
      BY <1>2, <1>5, <2>1
  <2>3. d - tsc_delta_min \in 0..HalfMax
      BY <1>1, <1>5, <2>2
  <2> QED
      BY <2>2, <2>3
<1>7. Corrected \in [1..len -> 0..HalfMax]
    BY <1>5, <1>6
<1>8. /\ Sorted(Corrected) \in [1..len -> 0..HalfMax]
      /\ \A j, k \in 1..len : j <= k => Sorted(Corrected)[j] <= Sorted(Corrected)[k]
  <2>1. 0..HalfMax \in SUBSET Int
      OBVIOUS
  <2> QED
      BY <1>7, <2>1, SortedType
<1>9. Done /\ report = Line /\ w.deltas = Sorted(Corrected)
    BY DEF ResultInv, Corrections
<1>10. w.deltas \in Ascending(len)
    BY <1>8, <1>9 DEF Ascending
<1>11. w.samples = len
    BY <1>4, <1>9 DEF ResultInv, CountInv, HandedOver
<1>12. Len(w.deltas) = len /\ DOMAIN w.deltas = 1..len
    BY <1>10, AscendingType
<1> QED
    BY <1>4, <1>9, <1>10, <1>11, <1>12

\* No interruption is printed as 0 ns.
LEMMA NsOfNothing == ns(0) = 0
<1>1. PICK m \in Nat : m = scale.mult
    BY ScaleIsPositive
<1>2. PICK s \in Nat \ {0} : s = 2^scale.shift
    BY ScaleIsPositive
<1>3. 0 \in 0..UINT32_MAX
    BY Words
<1>4. ns(0) = (0 * m) \div s
    BY <1>1, <1>2, <1>3, NsOfDelta
<1>5. 0 * m = 0 /\ 0 \div s = 0
    OBVIOUS
<1> QED
    BY <1>4, <1>5

\* Deltas of the report in nanoseconds.
LEMMA NsAscends ==
    ASSUME NEW a \in 0..HalfMax, NEW b \in 0..HalfMax
    PROVE  ns(a) \in Nat /\ (a <= b => ns(a) <= ns(b))
<1>1. UINT32_MAX \in Nat
    BY Words
<1>2. HalfMax \in Nat /\ HalfMax <= UINT32_MAX
    BY <1>1 DEF HalfMax
<1>3. a \in 0..UINT32_MAX /\ b \in 0..UINT32_MAX
    BY <1>1, <1>2
<1> QED
    BY <1>3, NsOfDelta, NsOrdered

\* The columns of the report ascend, and each has its share of the recorded
\* interruptions at or below it (src/osjitter.c:94-95), if the sum of two gaps
\* has 32 bits.
THEOREM OrderedPercentiles ==
    HalfGapsFit => (JitterSpec => []PercentilesAreOrdered)
<1> SUFFICES ASSUME HalfGapsFit PROVE JitterSpec => []PercentilesAreOrdered
    OBVIOUS
<1>1. ResultInv => PercentilesAreOrdered
  <2> SUFFICES ASSUME ResultInv, SomeQuietIteration, report # <<>>
               PROVE  PercentilesAreOrdered
      BY DEF PercentilesAreOrdered
  <2>0. PICK len \in Nat : len = w.samples
      BY ReportIs
  <2>1. PICK x \in Ascending(len) :
            /\ x = w.deltas
            /\ Len(x) = len /\ DOMAIN x = 1..len /\ report = Line
      BY <2>0, ReportIs
  <2>2. PICK p : p = report.p_ns
      OBVIOUS
  <2>3. /\ p = [c \in DOMAIN Percentiles(x) |-> ns(Percentiles(x)[c])]
        /\ report.max_ns = IF len = 0 THEN 0 ELSE ns(x[len])
      BY <2>0, <2>1, <2>2 DEF Line
  <2>4. DOMAIN Percentiles(x) = 1..6
      BY ColumnsAre DEF Percentiles
  <2>5. Len(p) = 6 /\ DOMAIN p = 1..6 /\ \A c \in 1..6 : p[c] = ns(Percentiles(x)[c])
      BY <2>3, <2>4
  <2> DEFINE Below(c) == {k \in 1..len : ns(x[k]) <= p[c]}
             idx(c) == (len * Columns[c][1]) \div Columns[c][2]
  <2>6. SUFFICES /\ \A c \in 2..6 : p[c - 1] <= p[c]
                 /\ p[6] <= report.max_ns
                 /\ \A k \in 1..len : ns(x[k]) <= report.max_ns
                 /\ \A c \in 1..6 : Cardinality(Below(c)) >= idx(c)
      BY <2>0, <2>1, <2>2, <2>5 DEF PercentilesAreOrdered, CountOf
  <2>7. CASE len = 0
    <3>1. ASSUME NEW c \in 1..6 PROVE p[c] = 0
      <4>1. Percentiles(x)[c] = 0
          BY <2>1, <2>7, <2>4 DEF Percentiles, percentile_u32
      <4> QED
          BY <2>5, <4>1, NsOfNothing
    <3>2. \A c \in 1..6 : Cardinality(Below(c)) >= idx(c)
      <4> SUFFICES ASSUME NEW c \in 1..6 PROVE Cardinality(Below(c)) >= idx(c)
          OBVIOUS
      <4>1. idx(c) = 0
        <5>1. PICK a \in Nat, b \in Nat \ {0} :
                  a = Columns[c][1] /\ b = Columns[c][2]
            BY ColumnsType
        <5>2. (0 * a) \div b = 0
            OBVIOUS
        <5> QED
            BY <2>7, <5>1, <5>2
      <4>2. Below(c) = {}
          BY <2>7
      <4> HIDE DEF Below, idx
      <4> QED
          BY <4>1, <4>2, FS_EmptySet
    <3>3. \A c \in 2..6 : c \in 1..6 /\ c - 1 \in 1..6
        OBVIOUS
    <3> HIDE DEF Below, idx
    <3> QED
        BY <2>3, <2>7, <3>1, <3>2, <3>3
  <2>8. CASE len # 0
    <3>1. len \in Nat \ {0} /\ report.max_ns = ns(x[len]) /\ len \in 1..len
        BY <2>3, <2>8
    <3>2. ASSUME NEW k \in 1..len PROVE ns(x[k]) <= ns(x[len])
      <4>1. x[k] \in 0..HalfMax /\ x[len] \in 0..HalfMax /\ x[k] <= x[len]
          BY <3>1, AscendingType
      <4> QED
          BY <4>1, NsAscends
    <3>3. p[6] <= ns(x[len])
      <4>1. PICK q \in 0..HalfMax : q = Percentiles(x)[6] /\ q <= x[len]
          BY <3>1, PercentileOf
      <4>2. x[len] \in 0..HalfMax
          BY <3>1, AscendingType
      <4> QED
          BY <2>5, <4>1, <4>2, NsAscends
    <3>4. ASSUME NEW c \in 2..6 PROVE p[c - 1] <= p[c]
      <4>1. PICK d \in 1..6 : d = c - 1 /\ c \in 1..6
          OBVIOUS
      <4>2. PICK q \in 0..HalfMax, r \in 0..HalfMax :
                q = Percentiles(x)[d] /\ r = Percentiles(x)[c]
          BY <3>1, <4>1, PercentileOf
      <4>3. q <= r
          BY <3>1, <4>1, <4>2, PercentilesAscend
      <4> QED
          BY <2>5, <4>1, <4>2, <4>3, NsAscends
    <3>5. ASSUME NEW c \in 1..6 PROVE Cardinality(Below(c)) >= idx(c)
      <4>1. PICK m \in 0..(len - 1) : m = idx(c)
          BY <3>1, PositionsAscend
      <4>2. PICK q \in 0..HalfMax : q = Percentiles(x)[c] /\ \A k \in 1..m : x[k] <= q
        <5>1. Percentiles(x)[c] \in 0..HalfMax
            BY <3>1, PercentileOf
        <5>2. \A k \in 1..idx(c) : x[k] <= Percentiles(x)[c]
            BY <3>1, PercentileOf
        <5> QED
            BY <4>1, <5>1, <5>2
      <4>3. ASSUME NEW k \in 1..m PROVE k \in Below(c)
        <5>1. k \in 1..len
            BY <4>1
        <5>2. x[k] \in 0..HalfMax /\ x[k] <= q
            BY <4>2, <5>1, AscendingType
        <5>3. ns(x[k]) <= p[c]
            BY <2>5, <4>2, <5>2, NsAscends
        <5> QED
            BY <5>1, <5>3
      <4>4. Below(c) \in SUBSET (1..len)
          OBVIOUS
      <4> HIDE DEF Below, idx
      <4>5. 1..m \in SUBSET Below(c)
          BY <4>3
      <4>6. Cardinality(1..m) = m
          BY FS_Interval
      <4>7. Cardinality(1..m) <= Cardinality(Below(c))
          BY <4>4, <4>5, PositionsCount
      <4> QED
          BY <4>1, <4>6, <4>7
    <3> HIDE DEF Below, idx
    <3> QED
        BY <3>1, <3>2, <3>3, <3>4, <3>5
  <2> QED
      BY <2>7, <2>8
<1> QED
    BY <1>1, ResultInvAlways, PTL
-----------------------------------------------------------------------------
(***************************************************************************)
(* The median and the deviation from it                                    *)
(***************************************************************************)

\* The parts of a delta are together not much shorter than the whole.
LEMMA QuotientSum ==
    ASSUME NEW a \in Nat, NEW b \in Nat, NEW s \in Nat \ {0}
    PROVE  (a + b) \div s <= a \div s + b \div s + 1
<1>1. PICK p \in Nat, q \in Nat, r \in Nat :
          p = a \div s /\ q = b \div s /\ r = (a + b) \div s
    BY Quotient
<1>2. a < s * p + s /\ b < s * q + s /\ s * r <= a + b
    BY <1>1, Quotient
<1>3. PICK sp \in Nat, sq \in Nat, sr \in Nat :
          sp = s * p /\ sq = s * q /\ sr = s * r
  <2>1. s * p \in Nat /\ s * q \in Nat /\ s * r \in Nat
      OBVIOUS
  <2> QED
      BY <2>1
<1>4. sr < sp + sq + 2 * s
    BY <1>2, <1>3
<1>5. ASSUME NEW d \in Nat, r = p + q + 2 + d PROVE sr >= sp + sq + 2 * s
  <2>1. s * (p + q + 2 + d) = s * p + s * q + 2 * s + s * d /\ s * d \in Nat
      OBVIOUS
  <2>2. PICK sd \in Nat : sd = s * d
      BY <2>1
  <2>3. sr = sp + sq + 2 * s + sd
      BY <1>3, <1>5, <2>1, <2>2
  <2> QED
      BY <2>2, <2>3
<1>6. r <= p + q + 1
  <2>1. CASE r >= p + q + 2
    <3>1. PICK d \in Nat : r = p + q + 2 + d
      <4>1. r - (p + q + 2) \in Nat
          BY <2>1
      <4> QED
          BY <4>1
    <3> QED
        BY <1>4, <1>5, <3>1
  <2> QED
      BY <2>1
<1> QED
    BY <1>1, <1>6

\* The same in nanoseconds.
LEMMA NsParts ==
    ASSUME NEW a \in 0..UINT32_MAX, NEW b \in 0..UINT32_MAX, a + b <= UINT32_MAX
    PROVE  ns(a + b) <= ns(a) + ns(b) + 1
<1>1. PICK m \in Nat : m = scale.mult
    BY ScaleIsPositive
<1>2. PICK s \in Nat \ {0} : s = 2^scale.shift
    BY ScaleIsPositive
<1>3. a \in Nat /\ b \in Nat /\ a + b \in 0..UINT32_MAX
    BY Words
<1>4. /\ ns(a) = (a * m) \div s /\ ns(b) = (b * m) \div s
      /\ ns(a + b) = ((a + b) * m) \div s
    BY <1>1, <1>2, <1>3, NsOfDelta
<1>5. PICK p \in Nat, q \in Nat : p = a * m /\ q = b * m /\ (a + b) * m = p + q
  <2>1. a * m \in Nat /\ b * m \in Nat /\ (a + b) * m = a * m + b * m
      BY <1>3
  <2> QED
      BY <2>1
<1> QED
    BY <1>4, <1>5, QuotientSum

\* Two deltas are not further apart in nanoseconds than their distance, but for
\* the rounding.
LEMMA NsDistance ==
    ASSUME NEW a \in 0..HalfMax, NEW b \in 0..HalfMax, NEW d \in 0..HalfMax,
           AbsDiff(a, b) <= d
    PROVE  AbsDiff(ns(a), ns(b)) <= ns(d) + 1
<1>1. HalfMax \in Nat /\ HalfMax <= UINT32_MAX /\ UINT32_MAX \in Nat
  <2>1. UINT32_MAX \in Nat
      BY Words
  <2> QED
      BY <2>1 DEF HalfMax
<1>2. ASSUME NEW low \in 0..HalfMax, NEW high \in 0..HalfMax, low <= high,
             high - low <= d
      PROVE  /\ ns(low) \in Nat /\ ns(high) \in Nat /\ ns(d) \in Nat
             /\ ns(low) <= ns(high) /\ ns(high) <= ns(low) + ns(d) + 1
  <2>1. PICK e \in 0..HalfMax : e = high - low /\ high = low + e /\ e <= d
    <3>1. high - low \in 0..HalfMax /\ high = low + (high - low)
        BY <1>1, <1>2
    <3> QED
        BY <1>2, <3>1
  <2>2. /\ low \in 0..UINT32_MAX /\ e \in 0..UINT32_MAX
        /\ low + e <= UINT32_MAX
      BY <1>1, <2>1
  <2>3. ns(high) <= ns(low) + ns(e) + 1
      BY <2>1, <2>2, NsParts
  <2>4. /\ ns(low) \in Nat /\ ns(high) \in Nat /\ ns(e) \in Nat /\ ns(d) \in Nat
        /\ ns(low) <= ns(high) /\ ns(e) <= ns(d)
      BY <1>2, <2>1, NsAscends
  <2> QED
      BY <2>3, <2>4
<1>3. CASE a < b
  <2>1. b - a <= d /\ a <= b
      BY <1>1, <1>3 DEF AbsDiff
  <2>2. /\ ns(a) \in Nat /\ ns(b) \in Nat /\ ns(d) \in Nat
        /\ ns(a) <= ns(b) /\ ns(b) <= ns(a) + ns(d) + 1
      BY <1>2, <2>1
  <2> QED
      BY <2>2 DEF AbsDiff
<1>4. CASE ~(a < b)
  <2>1. a - b <= d /\ b <= a
      BY <1>1, <1>4 DEF AbsDiff
  <2>2. /\ ns(a) \in Nat /\ ns(b) \in Nat /\ ns(d) \in Nat
        /\ ns(b) <= ns(a) /\ ns(a) <= ns(b) + ns(d) + 1
      BY <1>2, <2>1
  <2> QED
      BY <2>2 DEF AbsDiff
<1> QED
    BY <1>3, <1>4

\* Half of the values are not above the median and half not below it.
LEMMA MedianHalves ==
    ASSUME NEW len \in Nat \ {0}, NEW x \in Ascending(len),
           NEW median, median = percentile_u32(x, 1, 2)
    PROVE  /\ median \in 0..HalfMax
           /\ 2 * Cardinality({k \in 1..len : x[k] <= median}) >= len
           /\ 2 * Cardinality({k \in 1..len : x[k] >= median}) >= len
<1>1. PICK h \in 0..(len - 1) : /\ h = (len * 1) \div 2
                                /\ 2 * h <= len
                                /\ len % 2 = 1 => 2 * (h + 1) >= len
                                /\ len % 2 # 1 => 2 * h = len
  <2>1. /\ (len * 1) \div 2 \in 0..(len - 1)
        /\ 2 * ((len * 1) \div 2) <= len
        /\ len % 2 = 1 => 2 * ((len * 1) \div 2 + 1) >= len
        /\ len % 2 # 1 => 2 * ((len * 1) \div 2) = len
      OBVIOUS
  <2> QED
      BY <2>1
<1>2. median = ValueAt(x, h)
  <2>1. 1 \in Nat /\ 2 \in Nat \ {0} /\ (len * 1) \div 2 \in 0..(len - 1)
      BY <1>1
  <2> QED
      BY <1>1, <2>1, PercentileIs
<1>3. /\ median \in 0..HalfMax /\ median <= x[h + 1]
      /\ h # 0 => x[h] <= median
      /\ HalfMax \in Nat
    BY <1>2, ValueIsBetween, AscendingType
<1>4. len % 2 = 1 => median = x[h + 1]
    BY <1>2, AscendingType DEF ValueAt
<1> DEFINE below == {k \in 1..len : x[k] <= median}
           above == {k \in 1..len : x[k] >= median}
<1>5. PICK m \in 0..len : /\ 2 * m >= len
                          /\ m # 0 => x[m] <= median
  <2>1. CASE len % 2 = 1
    <3>1. h + 1 \in 1..len /\ x[h + 1] <= median
      <4>1. h + 1 \in 1..len
          OBVIOUS
      <4> QED
          BY <1>3, <1>4, <2>1, <4>1
    <3> QED
        BY <1>1, <2>1, <3>1
  <2>2. CASE len % 2 # 1
    <3>1. h \in 0..len
        OBVIOUS
    <3> QED
        BY <1>1, <1>3, <2>2, <3>1
  <2> QED
      BY <2>1, <2>2
<1>6. 2 * Cardinality(below) >= len
  <2>1. ASSUME NEW k \in 1..m PROVE k \in below
    <3>1. k \in 1..len /\ m \in 1..len /\ k <= m /\ m # 0
        OBVIOUS
    <3>2. x[k] <= x[m] /\ x[m] <= median /\ x[k] \in Int /\ x[m] \in Int
        BY <1>5, <3>1, AscendingType
    <3> QED
        BY <1>3, <3>1, <3>2
  <2>2. below \in SUBSET (1..len)
      OBVIOUS
  <2> HIDE DEF below
  <2>3. 1..m \in SUBSET below
      BY <2>1
  <2>4. Cardinality(1..m) = m
      BY FS_Interval
  <2>5. m <= Cardinality(below) /\ Cardinality(below) \in Nat
      BY <2>2, <2>3, <2>4, PositionsCount
  <2> QED
      BY <1>5, <2>5
<1>7. 2 * Cardinality(above) >= len
  <2>1. ASSUME NEW k \in (h + 1)..len PROVE k \in above
    <3>1. k \in 1..len /\ h + 1 \in 1..len /\ h + 1 <= k
        OBVIOUS
    <3>2. x[h + 1] <= x[k] /\ x[k] \in Int /\ x[h + 1] \in Int
        BY <3>1, AscendingType
    <3> QED
        BY <1>3, <3>1, <3>2
  <2>2. above \in SUBSET (1..len)
      OBVIOUS
  <2> HIDE DEF above
  <2>3. (h + 1)..len \in SUBSET above
      BY <2>1
  <2>4. Cardinality((h + 1)..len) = len - h
    <3>1. h + 1 \in Int /\ len \in Int /\ ~(h + 1 > len)
        OBVIOUS
    <3>2. Cardinality((h + 1)..len) = len - (h + 1) + 1
        BY <3>1, FS_Interval
    <3> QED
        BY <3>2
  <2>5. len - h <= Cardinality(above) /\ Cardinality(above) \in Nat
      BY <2>2, <2>3, <2>4, PositionsCount
  <2> QED
      BY <1>1, <2>5
<1> QED
    BY <1>3, <1>6, <1>7

\* Half of the values are within the median of the absolute deviations around
\* the median (mad_u32, src/util.c:63-74).
LEMMA DeviationHolds ==
    ASSUME NEW len \in Nat \ {0}, NEW x \in Ascending(len),
           NEW median, median = percentile_u32(x, 1, 2),
           NEW mad, mad = mad_u32(x)
    PROVE  /\ mad \in 0..HalfMax
           /\ 2 * Cardinality({k \in 1..len : AbsDiff(x[k], median) <= mad}) >= len
<1>1. /\ x \in [1..len -> 0..HalfMax] /\ DOMAIN x = 1..len
      /\ HalfMax \in Nat /\ median \in 0..HalfMax
    BY AscendingType, MedianHalves
<1>2. PICK dev \in [1..len -> 0..HalfMax] :
          dev = [k \in 1..len |-> AbsDiff(x[k], median)]
  <2>1. \A k \in 1..len : AbsDiff(x[k], median) \in 0..HalfMax
      BY <1>1 DEF AbsDiff
  <2>2. [k \in 1..len |-> AbsDiff(x[k], median)] \in [1..len -> 0..HalfMax]
      BY <2>1
  <2> QED
      BY <2>2
<1>3. mad = percentile_u32(Sorted(dev), 1, 2)
    BY <1>1, <1>2 DEF mad_u32, Deviations
<1>4. PICK y : y = Sorted(dev)
    OBVIOUS
<1>5. /\ y \in [1..len -> 0..HalfMax]
      /\ \A j, k \in 1..len : j <= k => y[j] <= y[k]
      /\ \E p \in Bijection(1..len, 1..len) : y = [m \in 1..len |-> dev[p[m]]]
  <2>1. 0..HalfMax \in SUBSET Int
      OBVIOUS
  <2>2. /\ Sorted(dev) \in [1..len -> 0..HalfMax]
        /\ \A j, k \in 1..len : j <= k => Sorted(dev)[j] <= Sorted(dev)[k]
      BY <2>1, SortedType
  <2>3. \E p \in Bijection(1..len, 1..len) :
            Sorted(dev) = [m \in 1..len |-> dev[p[m]]]
      BY <2>1, SortedType
  <2> QED
      BY <1>4, <2>2, <2>3, Zenon
<1>6. y \in Ascending(len)
    BY <1>5 DEF Ascending
<1>7. PICK p \in Bijection(1..len, 1..len) : y = [m \in 1..len |-> dev[p[m]]]
    BY <1>5
<1> DEFINE A == {m \in 1..len : y[m] <= mad}
           B == {k \in 1..len : AbsDiff(x[k], median) <= mad}
<1>8. mad \in 0..HalfMax /\ 2 * Cardinality(A) >= len
    BY <1>3, <1>4, <1>6, MedianHalves
<1>9. /\ p \in [1..len -> 1..len]
      /\ \A j, k \in 1..len : p[j] = p[k] => j = k
    BY <1>7 DEF Bijection, Injection, IsInjective
<1>10. \A m \in A : p[m] \in B
  <2> SUFFICES ASSUME NEW m \in A PROVE p[m] \in B
      OBVIOUS
  <2>1. m \in 1..len /\ y[m] <= mad
      OBVIOUS
  <2>2. p[m] \in 1..len /\ y[m] = dev[p[m]]
      BY <1>7, <1>9, <2>1
  <2>3. dev[p[m]] = AbsDiff(x[p[m]], median)
      BY <1>2, <2>2
  <2> QED
      BY <2>1, <2>2, <2>3
<1>11. A \in SUBSET (1..len) /\ B \in SUBSET (1..len)
    OBVIOUS
<1> HIDE DEF A, B
<1>12. [m \in A |-> p[m]] \in Injection(A, B)
  <2> DEFINE f == [m \in A |-> p[m]]
  <2>1. f \in [A -> B]
      BY <1>10
  <2>2. \A j, k \in A : f[j] = f[k] => j = k
      BY <1>9, <1>11
  <2> HIDE DEF f
  <2>3. f \in Injection(A, B)
      BY <2>1, <2>2 DEF Injection, IsInjective
  <2> QED
      BY <2>3 DEF f
<1>13. IsFiniteSet(B)
  <2>1. IsFiniteSet(1..len)
      BY FS_Interval
  <2> QED
      BY <1>11, <2>1, FS_Subset
<1>14. Cardinality(A) <= Cardinality(B)
    BY <1>12, <1>13, FS_Injection
<1>15. Cardinality(A) \in Nat /\ Cardinality(B) \in Nat
    BY <1>11, PositionsCount
<1>16. 2 * Cardinality(B) >= len
    BY <1>8, <1>14, <1>15
<1> QED
    BY <1>8, <1>16 DEF B

\* Half of the recorded interruptions are not above the median of the report,
\* half not below it, and half within the deviation around it, but for the
\* rounding (src/osjitter.c:93-96), if the sum of two gaps has 32 bits.
THEOREM CentralMedian ==
    HalfGapsFit => (JitterSpec => []MedianIsCentral)
<1> SUFFICES ASSUME HalfGapsFit PROVE JitterSpec => []MedianIsCentral
    OBVIOUS
<1>1. ResultInv => MedianIsCentral
  <2> SUFFICES ASSUME ResultInv, SomeQuietIteration, report # <<>>
               PROVE  MedianIsCentral
      BY DEF MedianIsCentral
  <2>1. PICK len \in Nat : len = w.samples
      BY ReportIs
  <2>2. PICK x \in Ascending(len) :
            /\ x = w.deltas
            /\ Len(x) = len /\ DOMAIN x = 1..len /\ report = Line
      BY <2>1, ReportIs
  <2>3. PICK median, mad : median = percentile_u32(x, 1, 2) /\ mad = mad_u32(x)
      OBVIOUS
  <2>4. report.p_ns[2] = ns(median) /\ report.mad_ns = ns(mad)
    <3>1. 2 \in DOMAIN Percentiles(x) /\ Percentiles(x)[2] = median
        BY <2>3, ColumnsAre DEF Percentiles
    <3>2. report.p_ns = [c \in DOMAIN Percentiles(x) |-> ns(Percentiles(x)[c])]
        BY <2>2 DEF Line
    <3>3. report.mad_ns = ns(mad)
        BY <2>2, <2>3 DEF Line
    <3> QED
        BY <3>1, <3>2, <3>3
  <2> DEFINE Below == {k \in 1..len : ns(x[k]) <= ns(median)}
             Above == {k \in 1..len : ns(x[k]) >= ns(median)}
             Near  == {k \in 1..len : AbsDiff(ns(x[k]), ns(median)) <= ns(mad) + 1}
  <2>5. SUFFICES /\ 2 * Cardinality(Below) >= len
                 /\ 2 * Cardinality(Above) >= len
                 /\ 2 * Cardinality(Near) >= len
      BY <2>1, <2>2, <2>4 DEF MedianIsCentral, CountOf
  <2>6. Below \in SUBSET (1..len) /\ Above \in SUBSET (1..len)
        /\ Near \in SUBSET (1..len)
      OBVIOUS
  <2>7. CASE len = 0
    <3> HIDE DEF Below, Above, Near
    <3>1. Below \in SUBSET Below /\ Above \in SUBSET Above /\ Near \in SUBSET Near
        OBVIOUS
    <3>2. /\ Cardinality(Below) \in Nat /\ Cardinality(Above) \in Nat
          /\ Cardinality(Near) \in Nat
        BY <2>6, <3>1, PositionsCount
    <3> QED
        BY <2>7, <3>2
  <2>8. CASE len # 0
    <3>1. len \in Nat \ {0}
        BY <2>8
    <3> DEFINE below == {k \in 1..len : x[k] <= median}
               above == {k \in 1..len : x[k] >= median}
               near  == {k \in 1..len : AbsDiff(x[k], median) <= mad}
    <3>2. /\ median \in 0..HalfMax /\ mad \in 0..HalfMax
          /\ 2 * Cardinality(below) >= len
          /\ 2 * Cardinality(above) >= len
          /\ 2 * Cardinality(near) >= len
        BY <2>3, <3>1, MedianHalves, DeviationHolds
    <3>3. ASSUME NEW k \in 1..len
          PROVE  /\ x[k] <= median => ns(x[k]) <= ns(median)
                 /\ x[k] >= median => ns(x[k]) >= ns(median)
                 /\ AbsDiff(x[k], median) <= mad =>
                       AbsDiff(ns(x[k]), ns(median)) <= ns(mad) + 1
      <4>1. x[k] \in 0..HalfMax /\ HalfMax \in Nat
          BY AscendingType
      <4>2. PICK d \in 0..HalfMax : d = x[k]
          BY <4>1
      <4>3. /\ ns(d) \in Nat /\ ns(median) \in Nat
            /\ d <= median => ns(d) <= ns(median)
            /\ median <= d => ns(median) <= ns(d)
          BY <3>2, NsAscends
      <4>4. AbsDiff(d, median) <= mad => AbsDiff(ns(d), ns(median)) <= ns(mad) + 1
          BY <3>2, NsDistance
      <4>5. d >= median => ns(d) >= ns(median)
          BY <3>2, <4>1, <4>3
      <4> QED
          BY <4>2, <4>3, <4>4, <4>5
    <3>4. /\ below \in SUBSET Below /\ above \in SUBSET Above
          /\ near \in SUBSET Near
        BY <3>3
    <3> HIDE DEF Below, Above, Near, below, above, near
    <3>5. /\ Cardinality(below) \in Nat /\ Cardinality(Below) \in Nat
          /\ Cardinality(below) <= Cardinality(Below)
        BY <2>6, <3>4, PositionsCount
    <3>6. /\ Cardinality(above) \in Nat /\ Cardinality(Above) \in Nat
          /\ Cardinality(above) <= Cardinality(Above)
        BY <2>6, <3>4, PositionsCount
    <3>7. /\ Cardinality(near) \in Nat /\ Cardinality(Near) \in Nat
          /\ Cardinality(near) <= Cardinality(Near)
        BY <2>6, <3>4, PositionsCount
    <3> QED
        BY <3>1, <3>2, <3>5, <3>6, <3>7
  <2> QED
      BY <2>7, <2>8
<1> QED
    BY <1>1, ResultInvAlways, PTL
-----------------------------------------------------------------------------
(***************************************************************************)
(* The assertions of percentile_u32                                        *)
(***************************************************************************)

\* They hold for an array that ascends, at a position before its end.
LEMMA AscendingAsserted ==
    ASSUME NEW len \in Nat, NEW x \in [1..len -> Int],
           \A j, k \in 1..len : j <= k => x[j] <= x[k],
           NEW a, NEW b, len # 0 => (len * a) \div b < len
    PROVE  Asserted(x, a, b)
<1>1. Len(x) = len /\ DOMAIN x = 1..len /\ (x # <<>> => len # 0)
  <2>1. x \in Seq(Int) /\ Len(x) = len /\ DOMAIN x = 1..len
      BY ArrayIsSeq
  <2>2. Len(x) = 0 => x = <<>>
      BY <2>1, EmptySeq
  <2> QED
      BY <2>1, <2>2
<1>2. ASSUME NEW k \in 1..len, k > 1 PROVE x[k - 1] <= x[k]
  <2>1. k - 1 \in 1..len /\ k - 1 <= k
      BY <1>2
  <2> QED
      BY <2>1
<1> QED
    BY <1>1, <1>2 DEF Asserted

\* What percentile_u32 returns is an integer, whatever the array.
LEMMA PercentileType ==
    ASSUME NEW len \in Nat, NEW x \in [1..len -> Int]
    PROVE  percentile_u32(x, 1, 2) \in Int
<1>1. Len(x) = len
    BY ArrayIsSeq
<1>2. PICK idx \in Nat : idx = (len * 1) \div 2 /\ (len # 0 => idx < len)
    OBVIOUS
<1>3. CASE len = 0
    BY <1>1, <1>3 DEF percentile_u32
<1>4. CASE len # 0 /\ (len % 2 = 1 \/ idx = 0)
  <2>1. idx + 1 \in 1..len
      BY <1>2, <1>4
  <2> QED
      BY <1>1, <1>2, <1>4, <2>1 DEF percentile_u32
<1>5. CASE len # 0 /\ ~(len % 2 = 1 \/ idx = 0)
  <2>1. idx \in 1..len /\ idx + 1 \in 1..len
      BY <1>2, <1>5
  <2>2. PICK low \in Int, high \in Int : low = x[idx] /\ high = x[idx + 1]
      BY <2>1
  <2>3. percentile_u32(x, 1, 2) = U32(high + low) \div 2
      BY <1>1, <1>2, <1>5, <2>2 DEF percentile_u32
  <2>4. U32(high + low) \in Int
    <3>1. high + low \in Int
        OBVIOUS
    <3> QED
        BY <3>1, Words
  <2> QED
      BY <2>3, <2>4
<1> QED
    BY <1>3, <1>4, <1>5

\* The deltas that are handed over are sorted, as are their deviations, and
\* every column has its position among them.
LEMMA LineHolds ==
    ASSUME CountInv, Corrections, Done
    PROVE  LineAsserted
<1>1. PICK len \in Nat : len = LowerOf(i, n)
    BY CorrectedType
<1>2. PICK x : x = w.deltas
    OBVIOUS
<1>3. x \in [1..len -> Int] /\ \A j, k \in 1..len : j <= k => x[j] <= x[k]
  <2>1. Corrected \in [1..len -> 0..UINT32_MAX]
      BY <1>1, CorrectedType
  <2>2. 0..UINT32_MAX \in SUBSET Int
      OBVIOUS
  <2>3. x = Sorted(Corrected)
      BY <1>2 DEF Corrections
  <2>4. Sorted(Corrected) \in [1..len -> 0..UINT32_MAX]
      BY <2>1, <2>2, SortedType
  <2>5. \A j, k \in 1..len : j <= k => Sorted(Corrected)[j] <= Sorted(Corrected)[k]
      BY <2>1, <2>2, SortedType
  <2> QED
      BY <2>3, <2>4, <2>5
<1>4. ASSUME NEW c \in DOMAIN Columns
      PROVE  Asserted(x, Columns[c][1], Columns[c][2])
  <2>1. PICK a \in Nat, b \in Nat \ {0} : a = Columns[c][1] /\ b = Columns[c][2]
      BY ColumnsAre, ColumnsType
  <2>2. len # 0 => (len * a) \div b < len
    <3>1. c \in 1..6
        BY ColumnsAre
    <3>2. CASE len # 0
      <4>1. \A d \in 1..6 :
                (len * Columns[d][1]) \div Columns[d][2] \in 0..(len - 1)
          BY <3>2, PositionsAscend
      <4>2. (len * Columns[c][1]) \div Columns[c][2] \in 0..(len - 1)
          BY <3>1, <4>1
      <4> QED
          BY <2>1, <4>2
    <3> QED
        BY <3>2
  <2>3. Asserted(x, a, b)
      BY <1>3, <2>2, AscendingAsserted
  <2> QED
      BY <2>1, <2>3
<1>5. Asserted(Deviations(x), 1, 2)
  <2>1. PICK median \in Int : median = percentile_u32(x, 1, 2)
      BY <1>3, PercentileType
  <2>2. PICK dev \in [1..len -> Int] :
            dev = [k \in DOMAIN x |-> AbsDiff(x[k], median)]
    <3>1. \A k \in 1..len : AbsDiff(x[k], median) \in Int
        BY <1>3 DEF AbsDiff
    <3>2. DOMAIN x = 1..len
        BY <1>3
    <3>3. [k \in DOMAIN x |-> AbsDiff(x[k], median)] \in [1..len -> Int]
        BY <3>1, <3>2
    <3> QED
        BY <3>3
  <2>3. PICK y : y = Sorted(dev)
      OBVIOUS
  <2>4. Deviations(x) = y
      BY <2>1, <2>2, <2>3 DEF Deviations
  <2>5. y \in [1..len -> Int] /\ \A j, k \in 1..len : j <= k => y[j] <= y[k]
    <3>1. Int \in SUBSET Int
        OBVIOUS
    <3>2. Sorted(dev) \in [1..len -> Int]
        BY <3>1, SortedType
    <3>3. \A j, k \in 1..len : j <= k => Sorted(dev)[j] <= Sorted(dev)[k]
        BY <3>1, SortedType
    <3> QED
        BY <2>3, <3>2, <3>3
  <2>6. len # 0 => (len * 1) \div 2 < len
      OBVIOUS
  <2>7. Asserted(y, 1, 2)
      BY <2>5, <2>6, AscendingAsserted
  <2> QED
      BY <2>4, <2>7
<1> QED
    BY <1>2, <1>4, <1>5 DEF LineAsserted

\* The report never aborts (src/util.c:47, 52), whatever the gaps: wrapped
\* corrections and counters included.
THEOREM AssertionsHold == JitterSpec => []NoAssertionFails
<1>1. JitterInit => NoAssertionFails
    BY DEF JitterInit, NoAssertionFails
<1>2. ResultInv /\ NoAssertionFails /\ [JitterNext]_jitterVars
         => NoAssertionFails'
  <2> SUFFICES ASSUME ResultInv, NoAssertionFails, [JitterNext]_jitterVars
               PROVE  NoAssertionFails'
      OBVIOUS
  <2>1. CASE Report
    <3>1. phase = "done" /\ (LineAsserted => phase' = "reported")
        BY <2>1 DEF Report
    <3>2. CountInv /\ Corrections /\ Done
        BY <3>1 DEF ResultInv, CountInv, HandedOver
    <3>3. LineAsserted
        BY <3>2, LineHolds
    <3> QED
        BY <3>1, <3>3 DEF NoAssertionFails
  <2>2. CASE ~Report
      BY <2>2 DEF NoAssertionFails, JitterNext, jitterVars, Begin, First,
                  Iterate, Finalize, HandOver, ReportFails
  <2> QED
      BY <2>1, <2>2
<1> QED
    BY <1>1, <1>2, ResultInvAlways, PTL DEF JitterSpec
=============================================================================
