------------------------------ MODULE Osjitter ------------------------------
(***************************************************************************)
(* The threads of src/osjitter.c: a control thread (main) reads from its   *)
(* arguments which CPUs to measure, creates one measurement thread per CPU *)
(* of them, releases them through start_work, sleeps for the time of the   *)
(* measurement, reads the scheduler statistics of each thread from /proc,  *)
(* and only then lets the threads return (quit_thread), joins them and     *)
(* reports.                                                                *)
(*                                                                         *)
(* What a thread measures is the subject of module Jitter; here it is one  *)
(* step.  A thread with a realtime policy (--sched) does not give up its   *)
(* CPU until it returns, so the control thread needs a CPU without one.    *)
(***************************************************************************)
EXTENDS Integers

CONSTANTS cpus,         \* _SC_NPROCESSORS_CONF
          Online,       \* the CPUs that are online
          CPU_SETSIZE,  \* 1024, the CPUs a cpu_set_t has room for
          Named         \* the numbers that may be named with --cpu

ASSUME OsjitterAssumption ==
    /\ cpus \in Nat \ {0}
    /\ Online \subseteq 0..(cpus - 1)
    /\ CPU_SETSIZE \in Nat
    /\ cpus < CPU_SETSIZE
    /\ Named \subseteq Nat

VARIABLES requested,    \* the CPUs named with --cpu
          realtime,     \* --sched was given
          mainPc,       \* where the control thread is
          cpu,          \* the variable of its loops over the CPUs
          start_work,   \* the atomic flag the workers wait for
          quit_thread,  \* the atomic flag that lets them return
          pc,           \* pc[c]: where the worker of CPU c is
          ret,          \* ret[c]: what its main function returned
          invol,        \* invol[c]: invol_switch of worker c was read
          reason        \* history: a call has failed, or the CPU or the
                        \* arguments were refused

options == <<requested, realtime>>
flags   == <<start_work, quit_thread>>
workers == <<pc, ret>>
vars    == <<options, mainPc, cpu, flags, workers, invol, reason>>

Ended == mainPc \in {"help", "exit", "failed"}

\* set_params: without --cpu every CPU whose "online" file says 1 or does not
\* exist.  The loop runs up to cpus itself, which never has such a file.
cpu_set == IF requested = {} THEN Online \cup {cpus} ELSE requested

\* All other loops stay below cpus, as do the workers.
Cpus     == 0..(cpus - 1)
Measured == cpu_set \cap Cpus

\* The CPUs that a realtime thread keeps for itself.
Occupied == IF realtime THEN {c \in Cpus : pc[c] \notin {"none", "done"}}
            ELSE {}

Init ==
    /\ requested = {}
    /\ realtime = FALSE
    /\ mainPc = "check"
    /\ cpu = 0
    /\ start_work = FALSE
    /\ quit_thread = FALSE
    /\ pc = [c \in Cpus |-> "none"]
    /\ ret = [c \in Cpus |-> "none"]
    /\ invol = [c \in Cpus |-> FALSE]
    /\ reason = FALSE
-----------------------------------------------------------------------------
(***************************************************************************)
(* The control thread                                                      *)
(***************************************************************************)

\* check_cpuinfo
CheckCpuinfo ==
    /\ mainPc = "check"
    /\ mainPc' = "args"
    /\ UNCHANGED <<options, cpu, flags, workers, invol>>

\* --cpu b-e, nothing when b is above e
CpuRange(b, e) ==
    /\ mainPc = "args"
    /\ b < CPU_SETSIZE /\ e < CPU_SETSIZE
    /\ requested' = requested \cup b..e
    /\ UNCHANGED <<realtime, mainPc, cpu, flags, workers, invol>>

\* --cpu x: CPU_SET ignores a number it has no room for.
Single(x) ==
    /\ mainPc = "args"
    /\ requested' = requested \cup ({x} \cap 0..(CPU_SETSIZE - 1))
    /\ UNCHANGED <<realtime, mainPc, cpu, flags, workers, invol>>

\* A range that is out of range, an unknown option or a missing argument
BadArgument ==
    /\ mainPc = "args"
    /\ mainPc' = "failed"
    /\ reason' = TRUE
    /\ UNCHANGED <<options, cpu, flags, workers, invol>>

Help ==
    /\ mainPc = "args"
    /\ mainPc' = "help"
    /\ UNCHANGED <<options, cpu, flags, workers, invol>>

\* The arguments end, --sched may have been among them.
EndOfArgs ==
    /\ mainPc = "args"
    /\ mainPc' = "params"
    /\ realtime' \in BOOLEAN
    /\ UNCHANGED <<requested, cpu, flags, workers, invol>>

\* set_params has found the CPUs (cpu_set) and the frequency.
SetParams ==
    /\ mainPc = "params"
    /\ mainPc' = "create"
    /\ UNCHANGED <<options, cpu, flags, workers, invol>>

\* Mutant: the loops run up to cpus itself, as the one in set_params does.
SkipBeyond ==
    /\ mainPc \in {"create", "read", "join"}
    /\ cpu \in (0..cpus) \ cpu_set
    /\ cpu' = cpu + 1
    /\ UNCHANGED <<mainPc, flags, workers, invol>>

\* if (!CPU_ISSET(cpu, &args->cpu_set)) continue; in each of the loops
Skip ==
    /\ mainPc \in {"create", "read", "join"}
    /\ cpu \in Cpus \ cpu_set
    /\ cpu' = cpu + 1
    /\ UNCHANGED <<mainPc, flags, workers, invol>>

\* pthread_create with the thread's affinity set to one CPU: it fails when
\* that CPU is offline.
Create ==
    /\ mainPc = "create"
    /\ cpu \in Measured
    /\ IF cpu \in Online
       THEN /\ pc' = [pc EXCEPT ![cpu] = "alloc"]
            /\ mainPc' = "tid"
       ELSE /\ mainPc' = "failed"
            /\ UNCHANGED pc
    /\ UNCHANGED <<cpu, flags, ret, invol>>

\* pthread_to_tid reads the id out of the structure of the new thread.  The
\* kernel clears it when the thread exits.
ReadTid ==
    /\ mainPc = "tid"
    /\ \/ /\ mainPc' = "create"
          /\ cpu' = cpu + 1
       \/ /\ pc[cpu] = "done"
          /\ mainPc' = "failed"
          /\ UNCHANGED cpu
    /\ UNCHANGED <<flags, workers, invol>>

StartWork ==
    /\ mainPc = "create"
    /\ cpu = cpus
    /\ start_work' = TRUE
    /\ mainPc' = "sleep"
    /\ UNCHANGED <<cpu, quit_thread, workers, invol>>

\* nanosleep for the runtime and 100 us.  The workers may be late: nothing
\* says where they are when it returns.
Sleep ==
    /\ mainPc = "sleep"
    /\ mainPc' = "read"
    /\ cpu' = 0
    /\ UNCHANGED <<flags, workers, invol>>

\* read_proc_sched: /proc/.../sched is gone after the thread has returned.
ReadProcSched ==
    /\ mainPc = "read"
    /\ cpu \in Measured
    /\ \/ /\ invol' = [invol EXCEPT ![cpu] = TRUE]
          /\ pc[cpu] # "done"
          /\ cpu' = cpu + 1
          /\ UNCHANGED mainPc
       \/ /\ pc[cpu] = "done"
          /\ mainPc' = "failed"
          /\ UNCHANGED <<cpu, invol>>
    /\ UNCHANGED <<flags, workers>>

\* Mutant: the threads are joined without being told to return.
QuitUntold ==
    /\ mainPc = "read"
    /\ cpu = cpus
    /\ mainPc' = "join"
    /\ cpu' = 0
    /\ UNCHANGED <<flags, workers, invol>>

QuitThread ==
    /\ mainPc = "read"
    /\ cpu = cpus
    /\ quit_thread' = TRUE
    /\ mainPc' = "join"
    /\ cpu' = 0
    /\ UNCHANGED <<start_work, workers, invol>>

Join ==
    /\ mainPc = "join"
    /\ cpu \in Measured
    /\ pc[cpu] = "done"
    /\ cpu' = cpu + 1
    /\ UNCHANGED <<mainPc, flags, workers, invol>>

\* Mutant: the results are printed although a thread reported an error.
FinishAnyway ==
    /\ mainPc = "join"
    /\ cpu = cpus
    /\ mainPc' = "exit"
    /\ UNCHANGED <<cpu, flags, workers, invol>>

\* The end of join_workers: error_in_thread, or the report and the end.
Finish ==
    /\ mainPc = "join"
    /\ cpu = cpus
    /\ mainPc' = IF \E c \in Measured : ret[c] = "null" THEN "failed" ELSE "exit"
    /\ UNCHANGED <<cpu, flags, workers, invol>>

\* A pthread call, nanosleep, an access to /proc or /sys or an allocation
\* fails, or the TSC is not constant: main returns 1, also when it has created
\* a thread already (pthread_attr_destroy).
MainFails ==
    /\ \/ mainPc \in {"check", "params", "sleep"}
       \/ mainPc \in {"create", "tid", "read", "join"} /\ cpu \in Measured
       \/ mainPc = "join" /\ cpu = cpus
    /\ mainPc' = "failed"
    /\ reason' = TRUE
    /\ UNCHANGED <<options, cpu, flags, workers, invol>>

Main ==
    /\ Online \ Occupied # {}
    /\ \/ CheckCpuinfo \/ EndOfArgs \/ SetParams
       \/ /\ UNCHANGED options
          /\ \/ Skip \/ Create \/ ReadTid \/ StartWork \/ Sleep
             \/ ReadProcSched \/ QuitThread \/ Join \/ Finish
    /\ UNCHANGED reason

\* The options that were given, a finite number of them.
Options ==
    \/ /\ \/ \E b, e \in Named : CpuRange(b, e)
          \/ \E x \in Named : Single(x)
          \/ Help
       /\ UNCHANGED reason
    \/ BadArgument
-----------------------------------------------------------------------------
(***************************************************************************)
(* worker_main                                                             *)
(***************************************************************************)

Alloc(c) ==
    /\ pc[c] = "alloc"
    /\ pc' = [pc EXCEPT ![c] = "await"]
    /\ UNCHANGED <<mainPc, cpu, flags, ret, invol>>

CallocFails(c) ==
    /\ pc[c] = "alloc"
    /\ pc' = [pc EXCEPT ![c] = "done"]
    /\ ret' = [ret EXCEPT ![c] = "null"]
    /\ reason' = TRUE
    /\ UNCHANGED <<options, mainPc, cpu, flags, invol>>

AwaitStart(c) ==
    /\ pc[c] = "await"
    /\ start_work
    /\ pc' = [pc EXCEPT ![c] = "measure"]
    /\ UNCHANGED <<mainPc, cpu, flags, ret, invol>>

\* The loop ends by itself when the TSC reaches its limit.
Measure(c) ==
    /\ pc[c] = "measure"
    /\ pc' = [pc EXCEPT ![c] = "linger"]
    /\ UNCHANGED <<mainPc, cpu, flags, ret, invol>>

\* Mutant: a thread returns as soon as its measurement is over.
ReturnAtOnce(c) ==
    /\ pc[c] = "linger"
    /\ pc' = [pc EXCEPT ![c] = "done"]
    /\ ret' = [ret EXCEPT ![c] = "ok"]
    /\ UNCHANGED <<mainPc, cpu, flags, invol>>

\* while (!quit_thread); then the results are handed over through *w.
AwaitQuit(c) ==
    /\ pc[c] = "linger"
    /\ quit_thread
    /\ pc' = [pc EXCEPT ![c] = "done"]
    /\ ret' = [ret EXCEPT ![c] = "ok"]
    /\ UNCHANGED <<mainPc, cpu, flags, invol>>

Worker(c) ==
    /\ ~Ended
    /\ Alloc(c) \/ AwaitStart(c) \/ Measure(c) \/ AwaitQuit(c)
    /\ UNCHANGED <<options, reason>>

\* Failures are steps of their own: fairness never forces one, so nobody is
\* freed from a wait by it.
Failure ==
    \/ Online \ Occupied # {} /\ MainFails
    \/ \E c \in Cpus : ~Ended /\ CallocFails(c)

Next ==
    \/ Main
    \/ Options
    \/ \E c \in Cpus : Worker(c)
    \/ Failure

Spec == Init /\ [][Next]_vars

\* A thread that is not realtime shares its CPU, a realtime one keeps it: each
\* of them runs on.  The control thread runs on while a CPU is free for it.
Fairness == WF_vars(Main) /\ \A c \in Cpus : WF_vars(Worker(c))

FairSpec == Spec /\ Fairness
-----------------------------------------------------------------------------
TypeOK ==
    /\ requested \subseteq 0..(CPU_SETSIZE - 1)
    /\ realtime \in BOOLEAN
    /\ reason \in BOOLEAN
    /\ mainPc \in {"check", "args", "help", "params", "create", "tid", "sleep",
                   "read", "join", "exit", "failed"}
    /\ cpu \in 0..cpus
    /\ start_work \in BOOLEAN
    /\ quit_thread \in BOOLEAN
    /\ pc \in [Cpus -> {"none", "alloc", "await", "measure", "linger", "done"}]
    /\ ret \in [Cpus -> {"none", "null", "ok"}]
    /\ invol \in [Cpus -> BOOLEAN]

\* A thread returns its results only after quit_thread, and an error only for
\* a reason.
Returned ==
    \A c \in Cpus : /\ pc[c] = "done" <=> ret[c] # "none"
                    /\ ret[c] = "null" => reason
                    /\ ret[c] = "ok" => quit_thread

\* What the control thread has done when it comes to a point.
SoFar ==
    /\ mainPc \in {"check", "args", "help", "params"} =>
         \A c \in Cpus : pc[c] = "none"
    /\ mainPc = "create" => \A c \in Cpus : c >= cpu => pc[c] = "none"
    /\ mainPc = "tid" => /\ cpu \in Measured
                         /\ \A c \in Cpus : c > cpu => pc[c] = "none"
    /\ mainPc = "read" => \A c \in Measured : c < cpu => invol[c]
    /\ mainPc = "join" => \A c \in Measured : c < cpu => pc[c] = "done"
    /\ mainPc \in {"join", "exit"} => quit_thread
    /\ quit_thread => /\ mainPc \in {"join", "exit", "failed"}
                      /\ \A c \in Measured : invol[c]

\* "/proc/%u/task/%u/sched is gone after the thread returned"
\* (src/osjitter.c:359-361): unless a call fails or a requested CPU is
\* offline, neither this nor a cleared thread id makes main give up.
NoFailureWithoutReason ==
    mainPc = "failed" => reason \/ ~(Measured \subseteq Online)

\* The report reads what the workers left in *w without a lock
\* (src/osjitter.c:490-494): each of them has measured, has handed over its
\* results, and its scheduler statistics were read while it was alive.
ReportIsComplete ==
    mainPc = "exit" => \A c \in Measured : ret[c] = "ok" /\ invol[c]

\* A worker does not return before its statistics were read, or else failed.
ReadBeforeReturn == \A c \in Measured : ret[c] = "ok" => invol[c]

\* The inductive invariant of the control thread and its threads
\* (src/osjitter.c:644-707): they live until they were looked at, so nothing
\* but a failing call or an offline CPU stops the program.
ControlInv ==
    TypeOK /\ Returned /\ SoFar /\ NoFailureWithoutReason /\ ReportIsComplete

\* "WARNING: only specify a subset with --cpu when setting a realtime policy"
\* (src/osjitter.c:65-67): some online CPU is not measured then.
WarningHeeded == realtime => Online \ cpu_set # {}

\* Whatever call fails, the program comes to an end (src/osjitter.c:674-706):
\* nobody waits for a thread that waits for him, and realtime threads leave
\* the control thread a CPU when the warning was heeded.
Terminates == []WarningHeeded => <>Ended

\* "One thread reported an error" (src/osjitter.c:636-639): the program never
\* ends with success after a worker failed.
ThreadErrorIsReported ==
    \A c \in Cpus : (ret[c] = "null") ~> (mainPc = "failed")
=============================================================================
