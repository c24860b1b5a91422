------------------------------ MODULE Harness ------------------------------
(***************************************************************************)
(* The part of src/pingpong.c that all notification methods share: the     *)
(* control thread (spin_pingpong) that creates two workers, releases them  *)
(* through start_work, joins them and reports, and the frame of a worker's *)
(* main function: allocate, await start_work, loop N times over a send or  *)
(* a receive, finalize.  A module per method EXTENDS this one, adds its    *)
(* channel as variables and its send and receive steps as actions.         *)
(*                                                                         *)
(* A read of the TSC advances the global clock by 1..MaxTick and returns   *)
(* it plus the offset of the core the thread happens to run on: by default *)
(* the workers are not pinned, so each read may see another offset.        *)
(* Timestamps are not bounded (a 64 bit TSC does not wrap); a recorded     *)
(* delta is stored in 32 bits, here modulo Wrap.                           *)
(***************************************************************************)
EXTENDS Integers, Sequences

CONSTANTS N,        \* iterations of each worker (-n)
          Skews,    \* offsets a core's TSC may have from the slowest one
          MaxTick,  \* bound: ticks between two TSC reads
          Wrap,     \* 2^32, the modulus of a stored delta
          Faults    \* the kinds of calls that may fail in a run

FaultKinds == {"create", "join", "calloc", "malloc", "comm"}

ASSUME HarnessAssumption ==
    /\ N \in Nat \ {0}
    /\ Skews \subseteq Nat
    /\ Skews # {}
    /\ MaxTick \in Nat \ {0}
    /\ Wrap \in Nat \ {0}
    /\ Faults \subseteq FaultKinds

VARIABLES mainPc,      \* where the control thread is
          idx,         \* its loop variable: the worker to create or to join
          start_work,  \* the atomic flag the workers wait for
          pc,          \* pc[w]: where worker w is
          iter,        \* its loop variable i
          tsc,         \* its variable tsc: the stamp it received last
          reg,         \* its variable t (sending) or new_tsc (receiving)
          ds,          \* its array of deltas, the first j entries
          ret,         \* what its main function returned
          clock,       \* the time the slowest TSC shows
          pub,         \* history: how many stamps w has published
          ball         \* history: the stamp published last

mainVars  == <<mainPc, idx, start_work>>
dataVars  == <<iter, tsc, reg, ds, ret, clock, pub, ball>>
frameVars == <<mainVars, pc, dataVars>>

Threads  == {0, 1}
Other(w) == 1 - w

\* main returned or the process aborted: no thread takes another step.
Ended == mainPc \in {"exit", "failed", "aborted"}

Goto(w, to) == pc' = [pc EXCEPT ![w] = to]

\* if (i % 2 == w.init): the sender's turn of worker w
Sends(w)    == iter[w] % 2 = w
InLoopOnceMore(w) == pc[w] = "loop" /\ iter[w] <= N             \* mutant
InLoop(w)   == pc[w] = "loop" /\ iter[w] < N
AtSend(w)   == InLoop(w) /\ Sends(w)
AtRecv(w)   == InLoop(w) /\ ~Sends(w)

FrameInit ==
    /\ mainPc = "create"
    /\ idx = 0
    /\ start_work = FALSE
    /\ pc = [w \in Threads |-> "none"]
    /\ iter = [w \in Threads |-> 0]
    /\ tsc = [w \in Threads |-> 1]
    /\ reg = [w \in Threads |-> 0]
    /\ ds = [w \in Threads |-> <<>>]
    /\ ret = [w \in Threads |-> "none"]
    /\ clock = 0
    /\ pub = [w \in Threads |-> 0]
    /\ ball = 1
-----------------------------------------------------------------------------
(***************************************************************************)
(* The control thread                                                      *)
(***************************************************************************)

\* One turn of the loop that creates the workers; the method initializes
\* the channel of worker w in the same step, before pthread_create.
CreateWorker(w) ==
    /\ mainPc = "create"
    /\ idx = w
    /\ Goto(w, "alloc")
    /\ idx' = w + 1
    /\ mainPc' = IF w = 1 THEN "start" ELSE "create"
    /\ UNCHANGED <<start_work, dataVars>>

\* A pthread, pipe or sem_init call fails: spin_pingpong returns 1, main
\* returns, and the workers that already run go down with the process.
MainFails ==
    /\ mainPc \in Faults \cap {"create", "join"}
    /\ mainPc' = "failed"
    /\ UNCHANGED <<idx, start_work, pc, dataVars>>

StartWork ==
    /\ mainPc = "start"
    /\ start_work' = TRUE
    /\ mainPc' = "join"
    /\ idx' = 0
    /\ UNCHANGED <<pc, dataVars>>

\* Mutant: the error flag is overwritten by the thread that is joined last.
JoinForgets(w) ==
    /\ mainPc = "join"
    /\ idx = w
    /\ pc[w] = "done"
    /\ idx' = w + 1
    /\ mainPc' = IF w = 0 THEN "join"
                 ELSE IF ret[w] = "null" THEN "failed" ELSE "report"
    /\ UNCHANGED <<start_work, pc, dataVars>>

\* pthread_join blocks on worker 0 first, then on worker 1; only after both
\* does error_in_thread decide between the report and an error exit.
JoinWorker(w) ==
    /\ mainPc = "join"
    /\ idx = w
    /\ pc[w] = "done"
    /\ idx' = w + 1
    /\ mainPc' = IF w = 0 THEN "join"
                 ELSE IF \E v \in Threads : ret[v] = "null" THEN "failed"
                 ELSE "report"
    /\ UNCHANGED <<start_work, pc, dataVars>>

Report ==
    /\ mainPc = "report"
    /\ mainPc' = "exit"
    /\ UNCHANGED <<idx, start_work, pc, dataVars>>

MainStep ==
    \/ StartWork
    \/ \E w \in Threads : JoinWorker(w)
    \/ Report
-----------------------------------------------------------------------------
(***************************************************************************)
(* The frame of a worker                                                   *)
(***************************************************************************)

Alloc(w) ==
    /\ pc[w] = "alloc"
    /\ Goto(w, "await")
    /\ UNCHANGED <<mainVars, dataVars>>

\* Mutant: the worker does not wait for start_work.
AwaitNothing(w) ==
    /\ pc[w] = "await"
    /\ Goto(w, "loop")
    /\ UNCHANGED <<mainVars, dataVars>>

AwaitStart(w) ==
    /\ pc[w] = "await"
    /\ start_work
    /\ Goto(w, "loop")
    /\ UNCHANGED <<mainVars, dataVars>>

\* spin_main_finalize: the assertion on j, then the results are handed over
\* through *x.  The deltas stay as they are, a copy of them is sorted.
Finalize(w) ==
    /\ pc[w] = "loop"
    /\ iter[w] = N
    /\ IF Len(ds[w]) <= N \div 2
       THEN /\ ret' = [ret EXCEPT ![w] = "ok"]
            /\ Goto(w, "done")
            /\ UNCHANGED mainPc
       ELSE /\ mainPc' = "aborted"
            /\ UNCHANGED <<ret, pc>>
    /\ UNCHANGED <<idx, start_work, iter, tsc, reg, ds, clock, pub, ball>>

\* A call made by worker w fails, its main function returns 0.
ReturnNull(w) ==
    /\ ret' = [ret EXCEPT ![w] = "null"]
    /\ Goto(w, "done")
    /\ UNCHANGED <<mainVars, iter, tsc, reg, ds, clock, pub, ball>>

\* calloc on entry, or malloc in spin_main_finalize
AllocFails(w) ==
    /\ \/ "calloc" \in Faults /\ pc[w] = "alloc"
       \/ "malloc" \in Faults /\ pc[w] = "loop" /\ iter[w] = N
                              /\ Len(ds[w]) <= N \div 2
    /\ ReturnNull(w)

\* one of the calls the method makes at the program counters callPcs
CallFails(w, callPcs) ==
    /\ "comm" \in Faults
    /\ pc[w] \in callPcs
    /\ ReturnNull(w)

\* Mutant: a stamp is sent even if it is not above the one received last.
TakeAnyStamp(w, to) ==
    /\ \E tick \in 1..MaxTick, skew \in Skews :
         /\ clock' = clock + tick
         /\ reg' = [reg EXCEPT ![w] = clock + tick + skew]
    /\ Goto(w, to)
    /\ UNCHANGED <<mainVars, iter, tsc, ds, ret, pub, ball>>

\* The sender's loop around fenced_rdtsc: a stamp that is not above the one
\* received last is thrown away and the TSC read again.
TakeStamp(w, to) ==
    /\ \E tick \in 1..MaxTick, skew \in Skews :
         LET t == clock + tick + skew
         IN  /\ clock' = clock + tick
             /\ IF t <= tsc[w]
                THEN UNCHANGED <<reg, pc>>
                ELSE /\ reg' = [reg EXCEPT ![w] = t]
                     /\ Goto(w, to)
    /\ UNCHANGED <<mainVars, iter, tsc, ds, ret, pub, ball>>

\* History: the step that calls this makes the stamp in reg[w] visible.
Publish(w) ==
    /\ pub' = [pub EXCEPT ![w] = @ + 1]
    /\ ball' = reg[w]

\* Mutant: the latency is taken from the stamp received one turn earlier.
RecordSinceLast(w) ==
    /\ \E tick \in 1..MaxTick, skew \in Skews :
         LET now == clock + tick + skew
         IN  /\ clock' = clock + tick
             /\ ds' = [ds EXCEPT ![w] = Append(@, (now - tsc[w]) % Wrap)]
    /\ tsc' = [tsc EXCEPT ![w] = reg[w]]
    /\ UNCHANGED <<mainVars, reg, ret, pub, ball>>

\* The receiver reads the TSC, stores the delta in 32 bits and remembers the
\* stamp.
RecordDelta(w) ==
    /\ \E tick \in 1..MaxTick, skew \in Skews :
         LET now == clock + tick + skew
         IN  /\ clock' = clock + tick
             /\ ds' = [ds EXCEPT ![w] = Append(@, (now - reg[w]) % Wrap)]
    /\ tsc' = [tsc EXCEPT ![w] = reg[w]]
    /\ UNCHANGED <<mainVars, reg, ret, pub, ball>>

\* The end of a loop iteration.
NextIteration(w) ==
    /\ iter' = [iter EXCEPT ![w] = @ + 1]
    /\ Goto(w, "loop")

FrameStep(w) ==
    \/ Alloc(w)
    \/ AwaitStart(w)
    \/ Finalize(w)

\* A call that does not depend on the method fails.  Failures are steps of their
\* own: fairness never forces one, so nobody is freed from a wait by it.
FrameFailure ==
    \/ MainFails
    \/ \E w \in Threads : ~Ended /\ AllocFails(w)
-----------------------------------------------------------------------------
FrameTypeOK(pcs) ==
    /\ mainPc \in {"create", "start", "join", "report", "exit", "failed",
                   "aborted"}
    /\ idx \in 0..2
    /\ start_work \in BOOLEAN
    /\ pc \in [Threads -> {"none", "alloc", "await", "loop", "done"} \cup pcs]
    /\ iter \in [Threads -> 0..N]
    /\ tsc \in [Threads -> Nat]
    /\ reg \in [Threads -> Nat]
    /\ ds \in [Threads -> Seq(0..(Wrap - 1))]
    /\ ret \in [Threads -> {"none", "null", "ok"}]
    /\ clock \in Nat
    /\ pub \in [Threads -> Nat]
    /\ ball \in Nat

\* Some call has failed, in the control thread or in a worker.
CallHasFailed == mainPc = "failed" \/ \E w \in Threads : ret[w] = "null"

\* A delta is only stored inside the array that calloc(n/2) returned, so the
\* assertion of spin_main_finalize (src/pingpong.c:260) cannot fail.
DeltasFit == \A w \in Threads : Len(ds[w]) <= N \div 2

\* The report prints ws[].ds without a lock (src/pingpong.c:750-797): both
\* workers must have handed over all their deltas before, whatever call
\* failed on the way.
ReportIsComplete ==
    mainPc \in {"report", "exit"} =>
        \A w \in Threads : ret[w] = "ok" /\ Len(ds[w]) = N \div 2

\* Worker w is past start_work and not done.
Working(w) == pc[w] \notin {"none", "alloc", "await", "done"}

\* The latencies the workers report do not overlap in time (src/pingpong.c:
\* 314-316 and the copies of these lines): together they are not longer than
\* the program ran.
Total(s) == LET sum[k \in 0..Len(s)] == IF k = 0 THEN 0 ELSE sum[k - 1] + s[k]
            IN  sum[Len(s)]
LatenciesDisjoint == Total(ds[0]) + Total(ds[1]) <= clock

\* rcv[w]: how many stamps w has received
rcv == [w \in Threads |-> Len(ds[w])]

\* Every method (src/pingpong.c:291-319 and the loops of the other methods)
\* carries the rally: no stamp is lost, overwritten before it was read, or
\* read twice, whatever mechanism tells the receiver that it is there.
R == INSTANCE Rally WITH Stamps <- Nat, last <- tsc
ImplementsRally == R!Spec

\* What the next stamp of worker w will be: one to send, one to receive, or
\* neither while the other one has its turn.
MayHit(w)   == rcv[w] = pub[w] + w
MayCatch(w) == rcv[w] < pub[Other(w)]

\* At most one of N balls is on its way.  The stamp a worker received last is
\* that of the ball, unless it has hit it itself or is still to catch it.
OneBall ==
    /\ pub[0] + pub[1] <= N
    /\ \A w \in Threads :
          /\ rcv[w] - pub[w] \in {w - 1, w}
          /\ pub[Other(w)] - rcv[w] \in {0, 1}
          /\ tsc[w] <= ball
          /\ MayCatch(w) => tsc[w] < ball
          /\ MayHit(w) => tsc[w] = ball

\* All latencies recorded so far were over when a stamp was taken.
OneTsc == \A s, t \in Skews : s = t
SpentAt(stamp) ==
    \A skew \in Skews : /\ Total(ds[0]) + Total(ds[1]) <= stamp - skew
                        /\ stamp - skew <= clock

\* The reason for LatenciesDisjoint, with synchronized TSCs: a latency begins
\* with a stamp that is taken, at one of the program counters callPcs not sent
\* yet, after all others were over (src/pingpong.c:296-316).
InTime(callPcs) ==
    OneTsc => /\ LatenciesDisjoint
              /\ \A w \in Threads : /\ MayCatch(w) => SpentAt(ball)
                                    /\ pc[w] \in callPcs => SpentAt(reg[w])

\* The order of a run (src/pingpong.c:801-895): nobody is in its loop before
\* start_work, a worker returns once, "ok" only after all its iterations, and
\* the control thread has seen both return when it reports.
FrameInv ==
    /\ mainPc \in {"create", "start"} => ~start_work
    /\ mainPc = "create" => idx \in Threads
    /\ mainPc = "join" => idx \in Threads /\ (idx = 1 => pc[0] = "done")
    /\ mainPc \in {"report", "exit"} => \A w \in Threads : ret[w] = "ok"
    /\ \A w \in Threads :
          /\ mainPc = "create" /\ w >= idx => pc[w] = "none"
          /\ ~start_work =>
                ~Working(w) /\ iter[w] = 0 /\ pub[w] = 0 /\ ds[w] = <<>>
          /\ pc[w] = "done" <=> ret[w] # "none"
          /\ ret[w] = "ok" => iter[w] = N /\ Len(ds[w]) <= N \div 2

\* No notification is lost (src/pingpong.c:291-319 and the loops of the other
\* methods): unless a call fails, the program comes to its report.
Completes == <>(mainPc = "exit" \/ CallHasFailed)

\* "One thread reported an error" (src/pingpong.c:884-889): a worker that
\* returned an error makes the program say so and stop.
ThreadErrorIsReported == (\E w \in Threads : ret[w] = "null") ~> Ended
=============================================================================
