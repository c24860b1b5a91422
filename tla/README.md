# Specifications of osjitter, pingpong and ptp-clock-offset

The repository holds small programs that measure the latency an operating
system adds to a program. Three of them have logic of their own: `pingpong`
measures how long it takes to notify another thread with several mechanisms,
`osjitter` measures how long and how often a thread is interrupted, and
`ptp-clock-offset` tries several ways to read how far a PTP hardware clock is from
the system clock. This directory specifies them in TLA+, checks the
specifications with TLC, and proves some of the results for all parameters with
TLAPS.

The source is the reference. Each definition that stands for code is listed
with its lines in `PROJECT.json` under `map`; the properties quote the line of
the code, comment or help text they are about.

## Inventory

| part | source | state | operations | specified in |
|---|---|---|---|---|
| pingpong: control thread | `spin_pingpong` | loop index, `start_work`, results of the workers | create, start, join, report | `Harness` |
| pingpong: worker frame | all `*_main`, `spin_main_finalize` | `i`, `tsc`, array of deltas, return value | allocate, await start, take a stamp, record a delta, finalize, fail | `Harness` |
| pingpong: what a method promises | `spin_main` | balls hit and caught | hit, catch | `Rally` |
| spinning | `spin_main`, `spin_pause_main`, `spin_pause_more_main` | `g_cell` | store, poll, pause | `Spin` |
| condition variable | `cv_main` | `g_item` | lock, store, unlock, signal; check, wait, load | `CondVar` |
| pipe | `pipe_main` | `g_pipes` | write, read | `Pipe` |
| semaphore | `semaphore_main` | `g_stripe` | wait, store or load, post | `Semaphore` |
| futex | `futex_main`, `futex_lock`, `futex_unlock` | `g_follicle` | compare-and-exchange, `FUTEX_WAIT`, store or load, `FUTEX_WAKE` | `Futex` |
| osjitter: threads | `main`, `create_workers`, `read_proc_sched`, `join_workers`, `worker_main` | `start_work`, `quit_thread`, thread ids, results | create, read id, start, sleep, read /proc, quit, join | `Osjitter` |
| osjitter: CPU checks and the choice of CPUs | `check_cpuinfo`, `parse_args`, `set_params` | `cpu_set`, realtime policy | check, `--cpu`, `--sched`, select | `Osjitter` |
| osjitter: measurement and report | `worker_main`, `set_params`, `pp_results` | counters and array of a thread, the printed line | first iteration, iterate, finalize, report | `Jitter` |
| statistics | `util.c`: `percentile_u32`, `mad_u32`, `cmp_u32` | - | pure | `Stats` |
| clock scaling | `util.c`, `util.h`: `clocks_calc_mult_shift`, `mul_u64_u32_shr` | - | pure | `ClockScale` |
| TSC frequency | `util.c`: `get_tsc_khz` and its three sources | the frequency | ask the next source, fail, answer | `TscKhz` |
| PTP clock offset | `ptp-clock-offset.c`, `util.c`: `get_tsc_perf` | stamps, rows, the method | set up, begin a method, read a clock, print, fail | `PtpOffset` |
| null method, arguments and JSON of pingpong | `spin_null_main`, `parse_args`, `print_json` | none that is shared | - | no: see "Not modelled" |
| system call benchmark, helper scripts, tuned profile, build | `bench_syscalls.cc`, `helper/`, `tuned/` | none | - | no: configuration, text conversion, single calls |

How the parts interact: the threads of pingpong and those of osjitter share memory. The control
thread of either program writes the arguments before it creates threads, and
reads the results of a thread after it joined it. In between they only meet
at atomic flags (`start_work`, `quit_thread`), and the two workers of pingpong
at the channel of the method. osjitter also looks at its threads through the
kernel: it reads a thread id out of the thread's descriptor, and
`/proc/PID/task/TID/sched`; both vanish with the thread. `ptp-clock-offset` has one
thread; it interacts with the kernel, which reads the two clocks one after the
other while time goes on. Frequency, scaling and statistics are functions the programs
share.

What is hard, and the properties it is for (the list with lines is under
`hazards` in `PROJECT.json`):

- *A notification is lost, doubled or overwritten.* Only the order of the
  stamps tells a new one from an old one in the spinning and condition variable
  methods, and cores may disagree about the time. Every method implements
  `Rally` (`ImplementsRally`) and comes to its end (`Completes`).
- *A wakeup is lost* between looking at a word and sleeping (`NoLostWakeup`,
  `Completes`), or comes when nobody asked (`SpuriousWake`).
- *Plain memory shared by two threads.* The stamp of the semaphore, the
  futex and the condition variable method is not atomic (`RaceFree`, and the tokens and
  mutexes in `RallyInv`).
- *A lock released by a thread that does not hold it*, on purpose, in the futex
  method (`NeverUnexpectedlyUnlocked`).
- *A thread runs before it may or lives shorter than it must*: `NoEarlyUse`,
  `RallyInv` of the futexes and semaphores from `start_work` on, `ReadBeforeReturn`, `NoFailureWithoutReason`.
- *One of several calls fails*: `ReportIsComplete`, `ThreadErrorIsReported`,
  `Terminates`, `TimedInv` (in which `FirstSourceWins` says so of the sources of the
  frequency), `EveryMethodIsTried`, `OffsetIsBracketed`.
- *Arrays and integers at their limit*: `DeltasFit`, `LatencyInv`,
  `OverflowIsTold`, `EveryInterruptionCounts`, `CorrectionIsExact`.
- *Statistics of arrays of any size, in 32 bits*: `NoAssertionFails`, `MedianIsCentral`,
  `PercentilesAreOrdered`.
- *Two clocks read one after the other, and a third for the duration*:
  `OffsetIsBracketed`, `SyscallTimeIsRight`. The first of them would also catch a sample that
  is printed although one of its clocks was not read.

Some hazards have no property, because no document says what should happen: the models have the case,
and the list says why there is nothing to state. Among them are the two places where a number is cut to 32 bits on its
way: a latency of cores that disagree about the time (src/pingpong.c:316; `RecordDelta` cuts it), and the size of the
array of a very long run (src/osjitter.c:185; `n` wraps).

## The modules and the code

`Harness` is the part all methods of pingpong share. A method module EXTENDS
it, adds its channel as variables and the steps between two turns as actions,
and is checked against `Rally` by instance:

    Rally  <-- implemented by --  Spin  CondVar  Pipe  Semaphore  Futex
                                     \     \      |      /        /
                                              Harness

A stamp that is taken and becomes visible is a hit of `Rally`, a stamp that is recorded a
catch; `R` in `Harness` is the instance, with `tsc` for the stamps received last, and the length of the
array of deltas for the number of catches (`rcv`). `Harness` also holds the parts of the inductive invariants
that do not depend on the method: the order of a run (`FrameInv`), what the counters
say about the ball (`OneBall`), and when latencies were over (`InTime`). Each method adds what
its channel says about the ball (`CellTellsBall`, `ItemTellsBall`, `PipeTellsBall`, `StripeTellsBall`,
`FollicleTellsBall`) and what a worker knows at each of its points (`WorkerKnows`); the conjunction is its
`RallyInv`.

The other programs are built from modules with the names of their parts:

    ClockScale <- Stats <- Jitter          Osjitter
    ClockScale, TscKhz <- PtpOffset

An action is what a thread does between two points at which another thread can
see or change something: an access to shared memory, a system call, a call of
the thread library. `pc[w]` names the point; the worker's locals have the names
of the code: `iter` is the loop variable `i`, `tsc` the stamp received last,
`reg` is `t` in the sender's branch and `new_tsc` in the receiver's, `ds` the
first `j` deltas. Two history variables, `pub` and `ball`, count the published stamps and
keep the last one; no guard reads them. Sorting and printing are left out.

*Time.* Reading the TSC advances `clock` by 1 to `MaxTick` ticks and returns it
plus an element of `Skews`, the offset of the core the thread runs on. Threads
are not pinned by default, so each read may see another offset. The loop
around the sender's read (`TakeStamp`) is in the model, as is the
conversion of a delta to 32 bits (`% Wrap`).

*The kernel and the libraries*, seen from the calls the code makes: a mutex has
an owner, `pthread_cond_wait` releases it and sleeps in one step, a signal
wakes the waiter if there is one and is lost otherwise, a wait may end without a
signal; a semaphore counts; a pipe is a queue of whole stamps, each being
shorter than `PIPE_BUF`; `FUTEX_WAIT` compares and sleeps in one step and may
wake for no reason. The compare-and-exchange of `futex_lock` is the weak one, but it fails only when
the values differ: the programs read the TSC, so they run on x86, and elsewhere a failure for no reason would
be followed by a `FUTEX_WAIT` that returns at once. Short reads and writes of a pipe are therefore left out.
An atomic access of `g_cell`, the mutexes, semaphores and futexes order memory,
so memory is sequentially consistent in the models; where a plain word is shared
the models do not rely on that but show that its accesses never overlap.

*Failing calls.* `Faults` names the calls that may fail in a run: a call in the loops
of the control thread that create or join, `calloc`, `malloc` in
`spin_main_finalize`, and the calls a method makes (`comm`). The first kind
ends the process; the others make the worker return 0. Failures are steps of their own
(`FrameFailure`, `Failure`) and outside of all fairness: a run may have some or none, so
a thread that waits in vain is not freed by a call that happens to fail.

`Osjitter` has one worker per CPU of `cpus`; `cpu` is the variable of the loops of
the control thread, including their `continue` (`Skip`). The arguments are
read one after the other: any number of ranges (`CpuRange`) and single numbers
(`Single`), a number `CPU_SET` has no room for being ignored as it does; a
selection that remains empty, as after `--cpu 3-1`, is none, and `cpu_set` is
then computed as `set_params` does, with the CPU that does not exist. A realtime
thread keeps its CPU to itself from its creation to its end, so `Main` is only
enabled while an online CPU is free (`Occupied`). `--sched` may come with any selection, one that
leaves no CPU free included. Any call may fail at any time, also one that is made after a thread
was created (`pthread_attr_destroy`);
the history variable `reason` tells whether one has, or whether the CPU or the
arguments were refused. Reading the thread id or `/proc` may fail as soon as the
thread is done.

`Jitter` is the measurement of one thread and its line of the report, with `W32` and
`W64` values for the two integer widths. Its first iteration (`First`) is the unrolled
one of the code, which computes in 64 bits and whose loop time is thrown away; the others
(`Iterate`) cut the delta to 32 bits. Runtime, threshold and number of samples are
computed from the arguments as `parse_args` and `set_params` do, and the size of the array
wraps as in the code. The gaps between the reads are arbitrary. What the TSC showed is kept in the
history variable `reads`, and the properties compare the gaps between these reads with the
results; `ResultInv` states the same of the part of the loop that is done (`Counted`, `Recorded`, `Summed`).
`Report` applies `Stats` to the sorted deltas and converts them with `ClockScale`; it ends in the phase `aborted` when
an assertion of `percentile_u32` does not hold for one of its columns or for the deviations (`LineAsserted`).
The double arithmetic of `set_params` is an exact division in the model.
Its own names (`phase`, `JitterInit`, `JitterNext`, `JitterSpec`) keep it apart from `Osjitter`: the
two are extended together by `OsjitterProofs`.

`Stats` and `ClockScale` have no state. `Sorted` puts each value to the position of its rank. `percentile_u32` keeps the branches of the code
(no value, an odd number or the lowest position, the mean of two in 32 bits); `Asserted` is what it asserts
of its arguments. `Deviations` is the second array of `mad_u32`.
`clocks_calc_mult_shift` says which pair the loop ends with, the largest shift whose
factor fits, instead of looping; `Ratio` is the loop's body with its 64 bit
operations. All callers pass `maxsec = 0`.

`TscKhz` is a list of answers: a source does not exist or has no number (0), tells one, or fails.
`asked` keeps them in order. A source that fails may have stored a number before
(`AskFails`).

`PtpOffset` has one action per clock reading. `now` is the time by the system clock, the device
shows `Device(now)`, and the TSC runs at the frequency that was found; between any two readings
up to `MaxTick` passes. A method is a number of readings (`Takes`), some of the device
(`IsDevice`), and rows computed from them (`PrintedRows`). `clock_gettime` prints each row
before the next is read, the ioctls print at the end; any of them may not be supported. Each
`clock_gettime` of a sample may fail (`ReadFails`): the stamp keeps a value that says nothing (0 in the
model, remembered in `unread`), the other clocks are read nevertheless, and only then does the code look
at the results, so that the sample is either printed (`PrintSample`) or ends the method (`MethodFails`). `OffsetInv` collects why the properties hold: which
source was asked after which (`SourcesInOrder`), in which order the stamps were read
(`StampsInOrder`) and the methods tried (`MethodsInOrder`). `TimedInv` adds what the duration of a
system call rests on: ticks are converted with the factors of the frequency that was found
(`ScaleFollows`), and the TSC was read before the clocks (`TimesFollow`).

## Runs

Every run gives constants to a specification in a `.cfg` of its own. `CHECK_DEADLOCK
FALSE` is set in all of them because the programs stop: a state in which
no step is possible is normally the end of the process. Hanging is covered by
`Completes` and `Terminates`, which fail when the programs stop before their end.

| run | checks | shows |
|---|---|---|
| `spin` | `RallyInv`, `DeltasFit`, `ReportIsComplete`, `ImplementsRally`, `Completes` | Spinning, with cores that disagree by up to 3 ticks and failing calls. In this and the next runs `RallyInv` is the inductive invariant of the method that is proved below. |
| `condvar` | `RallyInv`, `NoLostWakeup`, `ImplementsRally`, `Completes` | The same for condition variables; a signal may come late, and a wait may end early. |
| `pipe` | `LatencyInv`, `NoEarlyUse`, `LatenciesDisjoint`, `ImplementsRally`, `Completes` | Pipes; the cores agree about the time here, so that the latencies can be compared with the time that has passed. `LatencyInv` is `RallyInv` and `InTime`. |
| `semaphore` | `RallyInv`, `RaceFree`, `ImplementsRally`, `Completes` | Semaphores. |
| `futex` | `RallyInv`, `RaceFree`, `NeverUnexpectedlyUnlocked`, `ImplementsRally`, `Completes` | Futexes, with early and spurious wakeups. |
| `osjitter` | `ControlInv`, `NoFailureWithoutReason`, `ReadBeforeReturn`, `ReportIsComplete`, `Terminates`, `ThreadErrorIsReported` | The threads of osjitter on 4 CPUs of which one is offline, for every choice of `--cpu`, with and without a realtime policy. `Terminates` is about the selections the help text allows: it says that the program ends if a realtime policy leaves some online CPU unmeasured (`WarningHeeded`). |
| `jitter` | `ResultInv`, `NoAssertionFails`, `OverflowIsTold`, `EveryInterruptionCounts`, `CorrectionIsExact`, `MedianIsCentral`, `PercentilesAreOrdered` | The results of a measurement are those of the gaps, the report is never aborted by an assertion, and the printed columns are their order statistics. `ResultInv` is the inductive invariant that is proved below; it contains `CountInv`. |
| `ptp` | `TimedInv`, `OffsetIsBracketed`, `SyscallTimeIsRight`, `EveryMethodIsTried` | With any frequency, source and method missing or failing, in the middle of a sample too: the printed offsets are as near to the real one as the delay tells, and the printed duration is that of the system call. `TimedInv` is the inductive invariant that is proved below; it contains `OffsetInv` and `FirstSourceWins`. |
| `spin_odd` | `DeltasFit`, violated | finding 1 |
| `spin_hang` | `ThreadErrorIsReported`, violated | finding 2 |
| `jitter_long_gap` | `EveryInterruptionCounts`, violated | finding 3 |
| `jitter_median` | `MedianIsCentral`, violated | finding 4 |

`ReportIsComplete` of the `spin` run and `LatenciesDisjoint` of the `pipe` run are about `Harness`,
which all methods share; they are checked once. `LatenciesDisjoint` needs a
clock that is not skewed.

### Bounds

- `N = 4`: each worker sends twice and receives twice, so each cell is
  overwritten after it was read, each futex, semaphore and mutex goes through
  a full cycle twice, and the roles change three times. The state of a channel
  does not depend on how many rounds have been played. `spin_odd` has `N = 3`.
- `Skews = {0, 3}` with `MaxTick = 1`: an offset of 3 is more than what passes
  between two steps, so a sender does see times that lie before the stamp it
  received, and a latency may be negative and wrap. The number of retries is
  bounded by the offset, and so is `clock`: the state space is finite without
  a further bound. In `pipe`, `MaxTick = 3` lets latencies differ.
- `Wrap = 64` is above every positive difference of the runs, `Wrap = 1024` above
  every sum.
- Osjitter: 4 CPUs, `Online = {0, 1, 3}` and `CPU_SETSIZE = 6`. `Named = {0, 1, 3, 5, 6}` are the
  numbers `--cpu` may name: online CPUs, 5 which no CPU has but a `cpu_set_t` has room
  for, and 6 for which it has not; a range from 1 to 3 also names the offline 2. The options
  may be repeated without a bound: they only add to a set.
- Jitter: `Bits = 4`, so 32 bits are `W32 = 16` and 64 bits `W64 = 256`. `tsc_khz = 5` and
  `NsPerMs = 11` make a tick longer than a nanosecond, with a factor that is not exact;
  `thresh_ns = 5` is a threshold of 2 ticks. Gaps of 1, 2 (the threshold), 3, 5 and 7, and runtimes
  of 5, 10 and 15 ticks give up to 15 iterations. `SamplesPerS = 9` makes arrays of 9, 2 (18
  wraps) and 11 (27 wraps) entries: too many interruptions for one happen with 2.
  `jitter_long_gap` has a gap of 17, above `W32`; `jitter_median` has gaps of 10, whose sum is
  above it while each of them is below.
- PtpOffset: `Bits = 8`, a frequency of 1 or 5 with `NsPerMs = 2` (a TSC slower and faster than the
  clock), two samples, methods that begin at 0 or 1 (the phase of a slow TSC), up to 2 ticks between
  two readings, offsets of 0 and 40 on both sides of `tai_off_ns = 37`. The rows of a method
  do not depend on those of another one.

### Fairness

`WF(Main)` and `WF(Worker(w))`: the kernel runs every thread that can run. A thread
that waits for a semaphore, for a mutex or on a pipe can run once what it waits for is
there. A sleeping thread cannot run, so no fairness is assumed of a spurious wakeup:
`SpuriousWake` is not part of `Worker`. Nor is there any fairness of a failing call.

`CondVar` needs one assumption more, strong fairness of `Lock`: a mutex that gets free
again and again is taken in the end. With weak fairness alone TLC shows a receiver that wakes
up spuriously without end and always has the mutex when the sender wants it. POSIX mutexes
do not exclude that, but it takes infinitely many spurious wakeups.

A realtime thread of osjitter is not preempted by an ordinary one, which the guard of `Main` says: fairness of
`Main` only speaks of times at which a CPU is free. The help text warns that a realtime policy
should come with a subset of the CPUs (src/osjitter.c:65-67), but the code accepts any. The model has these runs,
in which the control thread may never run again; all safety properties and `ThreadErrorIsReported` are checked in them,
and `Terminates` alone is about the runs in which the warning was heeded.

## Findings

1. **An odd `-n`** (`spin_odd`). `calloc(n/2)` entries are allocated, and worker 1
   receives first: it stores (n+1)/2 deltas, the last one beyond the end of the array
   (src/pingpong.c:316); then `assert(j <= x->n/2)` (src/pingpong.c:260) fails. For even `n` both cannot happen:
   proved as `DeltasFitEven`.
2. **An error in one worker** (`spin_hang`). When a worker returns 0, the other one waits
   for its answer for ever, and the control thread waits for that one in
   `pthread_join`: "One thread reported an error" (src/pingpong.c:888) is not reached. The
   other methods share the loop.
3. **Interruptions of 2^32 ticks and more** (`jitter_long_gap`). In the loop the delta is
   cut to 32 bits before it is compared with the threshold (src/osjitter.c:457), so an interruption of
   2^32 ticks (1.4 s at 3 GHz) and less than the threshold is not counted at all; the saturation of
   src/osjitter.c:462 only has an effect in the unrolled iteration.

4. **The median of long interruptions** (`jitter_median`). With an even number of values, the two
   middle ones are added in 32 bits before they are halved (src/util.c:57). Two interruptions of 2^31
   ticks (0.7 s at 3 GHz), which the deltas can hold, have a median of about 0.

Other cases that the models contain, where no document says what should happen:

- `CorrectionIsExact` is stated under the code's assumption that some iteration of the
  loop was not interrupted (src/osjitter.c:485): without one, because the first iteration took the
  whole runtime, `tsc_delta_min` remains `UINT64_MAX` and is subtracted. With a threshold below the
  loop time, the first delta can be smaller than the later minimum, and the subtraction wraps.
- A CPU number that does not exist is accepted by `--cpu` and skipped by every loop, so the program
  succeeds without it. A selection that remains empty (`--cpu 3-1`, `--cpu 5000`) selects every CPU.
- A source of the TSC frequency that fails ends the chain, although the next one might know it
  (`AskFails`).
- With `PCO_READ_PERF` a failed `mmap` is not noticed, since it returns `MAP_FAILED` and
  not 0 (src/util.c:286; the outcome `crashed` of `GetTscPerf`).

## Proofs

The modules with `Proofs` in their name hold theorems and lemmas, for every value of the constants
that satisfies the named assumptions:

- `HarnessAssumption`: N and MaxTick are positive and there is at least one offset. It says nothing
  about N being even, how far the cores disagree, or which calls fail.
- `OsjitterAssumption`: there is a CPU, and a `cpu_set_t` has room for one more than there are.
- `JitterAssumption`: two reads of the TSC differ, there is a runtime, and the frequency and the
  threshold fit a word. The gaps and the number of samples are arbitrary.
- `ClockScaleAssumption`, `TscKhzAssumption` and `PtpOffsetAssumption`: words have at least one bit,
  there is at least one sample, and frequencies fit a word. The width of a word, the number of
  samples, the steps of time, and the offsets between the clocks are arbitrary.

| theorem | of | states |
|---|---|---|
| `RallyInvAlways` | all five methods | `RallyInv`, the inductive invariant |
| `SpinImplementsRally`, `CondVarImplementsRally`, `PipeImplementsRally`, `SemaphoreImplementsRally`, `FutexImplementsRally` | the methods | `ImplementsRally`: no stamp is lost, doubled or overwritten before it is read |
| `ReportAlwaysComplete` | all five methods, osjitter | `ReportIsComplete` |
| `DeltasFitEven` | all five methods | `DeltasFit`, for every even N |
| `NoRaces` | condition variable, semaphore, futex | `RaceFree` |
| `OneTokenAlways` | semaphore, futex | `TokenInv`, the part of `RallyInv` about tokens |
| `UnlockIsSafe` | futex | `NeverUnexpectedlyUnlocked` |
| `MutexInvAlways`, `NoWakeupIsLost` | condition variable | `MutexInv`, the part of `RallyInv` about the mutexes: who is between lock and unlock has the mutex, and nobody else has, except a worker that a failing call has ended in there; and `NoLostWakeup` |
| `PipeInvAlways`, `NoStampQueues`, `NothingUsedEarly` | pipe | `PipeInv`, the part of `RallyInv` about what is in the pipes, never more than one stamp in them, and `NoEarlyUse` |
| `LatencyInvAlways`, `NoLatencyOverlaps` | all five methods | `LatencyInv`, and `LatenciesDisjoint` when all cores have the same offset |
| `ControlInvAlways`, `NeverFailsForNothing`, `ReadBeforeReturnAlways` | osjitter | `ControlInv`, `NoFailureWithoutReason`, `ReadBeforeReturn` |
| `InterruptionsCounted`, `OverflowTold` | osjitter | `EveryInterruptionCounts` and `OverflowIsTold` when `GapsFit` |
| `ResultInvAlways`, `ExactCorrection` | osjitter | `ResultInv`, in which `Counted` and `Recorded` are claimed when `GapsFit`, `Summed` when `TscFits` too; and `CorrectionIsExact` when both |
| `AssertionsHold` | osjitter | `NoAssertionFails`, for all gaps |
| `OrderedPercentiles`, `CentralMedian` | osjitter | `PercentilesAreOrdered` and `MedianIsCentral` when `HalfGapsFit` |
| `OffsetInvAlways`, `OffsetIsWithinDelay`, `FirstSourceDecides`, `NoMethodIsLeftOut` | ptp-clock-offset | `OffsetInv`, `OffsetIsBracketed`, `FirstSourceWins`, `EveryMethodIsTried` |
| `TimedInvAlways`, `DurationIsRight` | ptp-clock-offset | `TimedInv`, and `SyscallTimeIsRight` when `ScaleIsFine` and `CallsFit` |

Some theorems have a hypothesis about the constants. Each of them holds in the run that checks the
property, and for the numbers of the code:

- `GapsFit`: no gap between two reads of the TSC has more than 32 bits (1.4 s at 3 GHz). Without it
  finding 3 is the counterexample. `HalfGapsFit` is half of that; without it there is finding 4.
- `TscFits`: the TSC has 64 bits until the longest runtime is over and one gap more. The largest
  number of seconds `-t` takes has 31 bits, which allows frequencies up to 8 GHz.
- `ScaleIsFine`: there is more than one nanosecond in the period of 1 kHz, and twice their number has
  32 bits: there are 10^6.
- `CallsFit`: the duration of a system call has 63 bits of nanoseconds (292 years), with a few to spare.

`NoLatencyOverlaps` is about cores with the same offset (`OneTsc`), as is the property, and `DeltasFitEven` about an
even N: without it there is finding 1.

Each proof has an inductive invariant, which is also an invariant of a run, and one proof step
per action.

*The frame.* `HarnessProofs` has a lemma per piece of the frame: it keeps the types
(`FrameTypeOK`), the order of a run (`FrameInv`) and the counts of the ball (`OneBall`), whatever the method
adds. A step of a method is one of three kinds, and each has its lemma: it publishes a stamp, it records a
delta, or it is quiet. `OneBall` says that at most one stamp is on its way, and from the counters
alone which worker may hit and which may catch; with the parity of the loop variable
(`ParityTellsTurn`) this ties the counters to the turns.

*Spin.* `CellTellsBall` says that a cell is above the receiver's last stamp exactly while a stamp is on
its way, and then is the last stamp of all; `WorkerKnows` carries what a worker has read across its
steps. With it each step is mapped to a hit, a catch or a stutter. `DeltasFitEven` follows by
arithmetic from the number of received stamps, and `ReportAlwaysComplete` since a worker that
returned `ok` has played all its iterations and has not more than N/2 deltas, while both have N together.

*Condition variable.* `HoldsMutex` says which of the two mutexes a worker has at which point, `MutexIsFreed` that
nobody else has one, but for a worker that returned NULL without releasing it (a worker that is being created has not had
one before: `NotCreated`); the mutex is
that of the receiver's item, so `TurnsLeft` must tie a point to the role. A wait gives the mutex away and
takes it again, woken up for a reason or not. Two workers at the same item are then excluded
(`NoRaces`). On top of that `ItemTellsBall` and `WorkerKnows` give the refinement. `NoLostWakeup` is
inductive only with them: the receiver goes to sleep after it has looked at its stamp
with the mutex in hand, so the stamp comes later, and with it the sender's signal.

*Pipe.* `Counted` computes the length of each pipe from the loop variables of its two ends, (i+1)/2 writes of
one against i/2 reads of the other, and the lemma `HalfTurns` is the arithmetic of one more turn. That
there is never more than one stamp (`NoStampQueues`) is inductive only together with it: a worker writes
after it has read the last answer, which the other one wrote after it had emptied the pipe. `Uncreated`
covers a worker that is yet to be created, and `Opened` says that both pipes exist from `start_work`
on, which is what `NothingUsedEarly` needs.

*Semaphore.* Its core is the number of tokens: the values of the semaphores plus the workers in
their turn. A failing `sem_post` takes the token along: there is at most one, and exactly one unless a call
has failed. To know at each step whether the failure is an old one it needs `ErrorIsFinal` (a worker that
returned 0 takes no further step), and `SetUp` covers `sem_init`, which runs while worker 0 exists.
`NoRaces` follows: the write and the read of the plain word are both done by the holder of the token. For
the refinement, `StripeTellsBall` needs that the word is written before the semaphore is posted.

*Futex.* The same core with the unlocked futexes for the values. By itself `OneToken` is not inductive:
`StartWork` needs `SetUp` (the futexes have their initial values then, and no worker has come to its
loop), and unlocking needs `TurnsLeft` (a worker in its turn has not finished). That a worker is in
its turn then implies that both futexes are locked, which is `UnlockIsSafe`, and that the other worker
is not in its turn, which is `NoRaces`.

*Latencies.* `LatenciesDisjoint` is not inductive: when a delta is recorded, one must know that it began after all
others were over. `InTime` says so of the stamp on its way and of a stamp that is taken and not
yet sent; `LatencyInv` is `RallyInv` with it. The lemmas about it are in `HarnessProofs` and do not depend on the method; what they need is
`OneBall`. In each method only the step that publishes a stamp and the one that records a delta concern it, and
the proofs show of all other steps that they are quiet. The sum of a sequence is defined by a recursive function on its positions. The library's
theorems about such definitions cannot be used here, since they take an operator as parameter; instead
`PartialSumsExist` takes the least position up to which no partial sums exist, and contradicts it with one step
more; `PartialSumsAgree` then gives `TotalAppend`, the sum after one more delta.

*osjitter.* `SoFar` says what the loops of the control thread have done up to `cpu`, `Returned` ties
what a thread returned to `quit_thread` and to a failure. A thread is found gone only if it is done; before
`quit_thread` is set it can only have returned an error, which is a reason (`NeverFailsForNothing`).
`quit_thread` is set after all statistics were read (`ReadBeforeReturnAlways`), and a join of all threads
without an error means that each has handed over its results (`ReportAlwaysComplete`).

*The measurement of osjitter.* `OsjitterProofs` also has the proofs about `Jitter`. The properties
compare counters with the gaps at the end of a measurement, `Counted` compares them with the gaps so far:
`UpTo(m)` is the number of interruptions among the first m gaps, and the lemma `OneMoreRead` says that one more
read leaves these numbers alone and adds one or none. `tsc_overflow` is 0 until the array is full;
that the code can use 0 for that needs that no read shows 0 (`ReadsInOrder`). First iteration
and loop are the two uses of `ReadStep`, with a delta of 64 and of 32 bits. That is why the two properties
have the hypothesis `GapsFit`, while the rest of `CountInv` holds for all gaps,
and says that the array has exactly the deltas that had room. The results are sorted
by rank; `RanksFill` shows that the ranks of n values are the numbers from 1 to n, since different positions
have different ranks, and `SortedType` that sorting is a permutation that ascends.

*The correction.* At the end the loop time is subtracted from each delta and from the sum.
`Recorded` says that the array has the first interruptions, in their order, and that `tsc_delta_min` is at
most every gap of the loop; `InterruptionsGrow` is the step, since the selection of a longer sequence begins with that of the
shorter one. `Summed` says that `tsc_total_int` is the sum of the interruptions and, so that it cannot have wrapped, that this is
not more than the time that has passed. `Corrections` relates the results that are handed over to the counters. What
remains is arithmetic: with one quiet iteration the minimum is at most the threshold, each interruption
is above it (`QuietResults`), and a sum of n values that are each at least m is at least n m and loses n m when m
is subtracted from each (`TotalNotNegative`, `TotalShift`). Sums are again compared by the least position at which
they would differ.

*The statistics.* The value of `percentile_u32` lies between two neighbours of the sorted sequence, or is one of its
values (`ValueAt`), and the positions ascend with the percentage; so the values do, and the share of the values at or below one
follows from its position. What is printed are nanoseconds: `NsAscends` shows that `mul_u64_u32_shr` is monotone,
which needs that its product does not wrap. For the median, the distance of two values in ticks and that
of their conversions are the same up to the rounding, which loses at most 1 (`QuotientSum`, `NsParts`). The deviation is the median of
a second sequence, of the distances; since it is sorted by a permutation (`SortedType`), half of its values being
small says the same of half of the first one's.

*The assertions.* `AssertionsHold` needs none of the hypotheses: the deltas that are handed over are sorted also when the
correction has wrapped (`Corrections`, `AscendingAsserted`), the deviations are since `mad_u32` sorts them, and a column is a part of
the whole (`LineHolds`).

*ptp-clock-offset.* A row is bracketed (`RowBrackets`) when its three stamps show times that do not descend: the
real offset lies between the two differences, and the mean of both is within half of their distance, rounded. That
the stamps of a sample that was read ascend is `StampsInOrder`, which is kept by every reading since time does not run
backwards; `PrintedRowsFit` applies it to the rows of each method, which overlap in their stamps for the
methods that read one more than they print. `TypeOK` is a part of the invariant, and the one part that is not
obvious is the pair of factor and shift: that it fits its words (`ScaleType`) needs that the largest
shift exists (`SetHasMax`) and that powers of two are what they should be (`PowerOfTwo`).
`MethodsInOrder` says which methods are behind, and what has become of them (`NoMethodIsLeftOut`), and
`SourcesInOrder` which sources have been asked (`FirstSourceDecides`).

*The duration of a system call* passes three roundings, and the bound `Slack` has a term for each. The two readings of the TSC
miss the time between them by less than a tick, on one side or the other (`ElapsedTicks`). The factor misses the ratio
of nanoseconds to ticks: `ScaleIsRatio` shows that a shift whose factor fits exists, that the factor is rounded to the
nearest and not 0, and `FactorIsNear` that it stays within three quarters of a unit also when it is the kernel's,
which may have lost its lowest bit. Multiplied with the ticks this error grows with the duration, by one in
`scale.mult` nanoseconds. The shift to the right rounds once more. `NotShorter` and `NotLonger` put these together to
`DurationConverted`; the products are compared by cancelling a common factor (`ProductCancels`), since the provers
do linear arithmetic only. That no product wraps is `CallsFit`. For the delays of the rows, `TotalDelayIsWithin` shows that
their sum does not exceed a sequence of times that grows by at least the delay at every row, and `DelaysFit` gives this
sequence for each method: the stamp a row ends with, from the beginning of the method.

### What is only model-checked

- Liveness (`Completes`, `Terminates`, `ThreadErrorIsReported`): temporal reasoning under
  fairness needs ENABLED, which the prover does not support.
- The properties outside of the hypotheses above, where findings 1, 3 and 4 show that some do not hold.

Every invariant that a passing run checks is stated by a theorem, and so is every refinement.

No module uses RECURSIVE operators.

## Not modelled

- `spin_null_main` sends nothing; it shares only the frame, which the other methods check. With
  `-n 1` its second realloc is of size 0 (src/pingpong.c:756) and is taken for a failure: that
  is listed under `hazards`.
- `parse_args` and the output formats of pingpong, and what is in the files and messages the
  programs parse: text. The models take the outcome, any value or none.
- The fences of `tsc.h`: one instruction is one step, in program order.
- Values of `-d` above 2^32 ticks: the conversion of the double is undefined
  (src/osjitter.c:283). `JitterAssumption` excludes them.
- A system clock that is stepped while `ptp-clock-offset` reads it, TAI offsets that change.
- `bench_syscalls.cc`, the helper scripts, the tuned profile and the build have no state of their
  own.

## Plan

The modules of the plan are written and the invariants proved. What is left is out of reach of
the proof system: the liveness properties, which TLC checks.

## Running the checks

    tlc -config Spin.cfg Spin.tla
    tlapm SpinProofs.tla
