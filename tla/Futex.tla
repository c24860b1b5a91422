------------------------------- MODULE Futex -------------------------------
(***************************************************************************)
(* The futex method of src/pingpong.c (--futex, futex_main), with the lock *)
(* it builds from a word and two system calls (futex_lock, futex_unlock).  *)
(* Each worker owns a follicle: a futex and a plain word for the stamp.  A *)
(* worker locks its own futex at the start of every turn.  The sender      *)
(* writes the stamp into the other's follicle and unlocks the other's      *)
(* futex, which it never locked; the receiver unlocks its own again.       *)
(***************************************************************************)
EXTENDS Harness

VARIABLES futex,  \* futex[w]: g_follicle[w].futex, 1 is locked
          ftsc    \* ftsc[w]: g_follicle[w].tsc, not atomic

channel == <<futex, ftsc>>
vars == <<frameVars, channel>>

\* Static storage: both are unlocked until the workers are created.
Init ==
    /\ FrameInit
    /\ futex = [w \in Threads |-> 0]
    /\ ftsc = [w \in Threads |-> 0]

\* Mutant: both futexes start unlocked.
CreateUnlocked(w) == CreateWorker(w) /\ UNCHANGED channel

\* g_follicle[i].futex = i, then pthread_create
Create(w) ==
    /\ CreateWorker(w)
    /\ futex' = [futex EXCEPT ![w] = w]
    /\ UNCHANGED ftsc

\* The compare-and-exchange of futex_lock.  The programs read the TSC, so they
\* run on x86, where the weak form does not fail for no reason.
LockCas(w) ==
    /\ InLoop(w)
    /\ IF futex[w] = 0
       THEN /\ futex' = [futex EXCEPT ![w] = 1]
            /\ Goto(w, IF Sends(w) THEN "stamp" ELSE "load")
       ELSE /\ Goto(w, "wait")
            /\ UNCHANGED futex
    /\ UNCHANGED <<mainVars, dataVars, ftsc>>

\* Mutant: the kernel is not told which value to wait on.
SleepAnyway(w) ==
    /\ pc[w] = "wait"
    /\ Goto(w, "sleep")
    /\ UNCHANGED <<mainVars, dataVars, channel>>

\* FUTEX_WAIT: the kernel compares the word with 1 and puts the thread to
\* sleep in one step; otherwise the call returns EAGAIN.
FutexWait(w) ==
    /\ pc[w] = "wait"
    /\ Goto(w, IF futex[w] = 1 THEN "sleep" ELSE "loop")
    /\ UNCHANGED <<mainVars, dataVars, channel>>

\* FUTEX_WAIT may return 0 without a FUTEX_WAKE.
SpuriousWake(w) ==
    /\ ~Ended
    /\ pc[w] = "sleep"
    /\ Goto(w, "loop")
    /\ UNCHANGED <<mainVars, dataVars, channel>>

Stamp(w) ==
    /\ pc[w] = "stamp"
    /\ TakeStamp(w, "store")
    /\ UNCHANGED channel

StoreTsc(w) ==
    /\ pc[w] = "store"
    /\ ftsc' = [ftsc EXCEPT ![Other(w)] = reg[w]]
    /\ Publish(w)
    /\ Goto(w, "unlock")
    /\ UNCHANGED <<mainVars, iter, tsc, reg, ds, ret, clock, futex>>

LoadTsc(w) ==
    /\ pc[w] = "load"
    /\ reg' = [reg EXCEPT ![w] = ftsc[w]]
    /\ Goto(w, "now")
    /\ UNCHANGED <<mainVars, iter, tsc, ds, ret, clock, pub, ball, channel>>

Record(w) ==
    /\ pc[w] = "now"
    /\ RecordDelta(w)
    /\ Goto(w, "unlock")
    /\ UNCHANGED <<iter, channel>>

\* The sender unlocks the futex of the other worker, the receiver its own.
Target(w) == IF Sends(w) THEN Other(w) ELSE w

\* Mutant: the sender unlocks its own futex, as one does with a mutex.
UnlockOwn(w) ==
    /\ pc[w] = "unlock"
    /\ futex' = [futex EXCEPT ![w] = 0]
    /\ Goto(w, "wake")
    /\ UNCHANGED <<mainVars, dataVars, ftsc>>

\* The compare-and-exchange of futex_unlock; the worker aborts the process
\* when it finds the futex unlocked.
UnlockCas(w) ==
    /\ pc[w] = "unlock"
    /\ IF futex[Target(w)] = 1
       THEN /\ futex' = [futex EXCEPT ![Target(w)] = 0]
            /\ Goto(w, "wake")
            /\ UNCHANGED mainPc
       ELSE /\ mainPc' = "aborted"
            /\ UNCHANGED <<pc, futex>>
    /\ UNCHANGED <<idx, start_work, dataVars, ftsc>>

\* FUTEX_WAKE: only the owner of a futex ever sleeps on it.
Wake(w) ==
    /\ pc[w] = "wake"
    /\ iter' = [iter EXCEPT ![w] = @ + 1]
    /\ pc' = [v \in Threads |->
                 IF v = w \/ (v = Target(w) /\ pc[v] = "sleep") THEN "loop"
                 ELSE pc[v]]
    /\ UNCHANGED <<mainVars, tsc, reg, ds, ret, clock, pub, ball, channel>>

\* A futex system call returns -1 with an error other than EAGAIN.
FutexFails(w) ==
    /\ CallFails(w, {"wait", "wake"})
    /\ UNCHANGED channel

Worker(w) ==
    /\ ~Ended
    /\ \/ FrameStep(w) /\ UNCHANGED channel
       \/ LockCas(w)
       \/ FutexWait(w)
       \/ Stamp(w)
       \/ StoreTsc(w)
       \/ LoadTsc(w)
       \/ Record(w)
       \/ UnlockCas(w)
       \/ Wake(w)

Main ==
    \/ \E w \in Threads : Create(w)
    \/ MainStep /\ UNCHANGED channel

Failure ==
    \/ FrameFailure /\ UNCHANGED channel
    \/ \E w \in Threads : ~Ended /\ FutexFails(w)

Next ==
    \/ Main
    \/ \E w \in Threads : Worker(w) \/ SpuriousWake(w)
    \/ Failure

Spec == Init /\ [][Next]_vars

\* The kernel runs every runnable thread.  A sleeping one is not runnable, so
\* nothing promises a spurious wakeup.
Fairness == WF_vars(Main) /\ \A w \in Threads : WF_vars(Worker(w))

FairSpec == Spec /\ Fairness
-----------------------------------------------------------------------------
FutexPcs == {"wait", "sleep", "stamp", "store", "load", "now", "unlock", "wake"}

TypeOK ==
    /\ FrameTypeOK(FutexPcs)
    /\ futex \in [Threads -> {0, 1}]
    /\ ftsc \in [Threads -> Nat]

\* A worker in its turn, from its lock of a futex to the unlock of one.
Held == {"stamp", "store", "load", "now", "unlock"}

\* The two futexes pass a single token around (src/pingpong.c:673-722): either
\* one of them is unlocked, or one worker is in its turn.
OneToken ==
    start_work =>
        (1 - futex[0]) + (1 - futex[1])
            + (IF pc[0] \in Held THEN 1 ELSE 0)
            + (IF pc[1] \in Held THEN 1 ELSE 0) = 1

\* Before start_work is set (src/pingpong.c:802-874) no worker is in its loop,
\* and when it gets set both futexes have their initial values.
SetUp ==
    /\ mainPc \in {"create", "start"} => ~start_work
    /\ ~start_work => \A w \in Threads : ~Working(w)
    /\ mainPc = "create" => idx \in Threads /\ (idx = 1 => futex[0] = 0)
    /\ mainPc = "start" => futex[0] = 0 /\ futex[1] = 1

\* A worker in its turn has not run through its loop.
TurnsLeft ==
    \A w \in Threads : pc[w] \in Held \cup {"wake"} => iter[w] < N

\* The inductive invariant: the token exists from start_work on, and no step
\* of a worker makes a second one or loses it.
TokenInv == TypeOK /\ SetUp /\ TurnsLeft /\ OneToken

\* "unexpectedly unlocked" (src/pingpong.c:694, 720): a worker never unlocks a
\* futex that is not locked, although the sender unlocks one it did not lock.
NeverUnexpectedlyUnlocked ==
    \A w \in Threads : pc[w] = "unlock" => futex[Target(w)] = 1

\* The word for the stamp is not atomic (src/pingpong.c:70): the futexes keep
\* the sender's write of it (687) apart from the receiver's read (707).
RaceFree == \A w \in Threads : pc[w] = "store" => pc[Other(w)] # "load"

\* The iterations a worker has played, the one it is about to end included.
Played(w) == iter[w] + (IF pc[w] \in {"unlock", "wake"} THEN 1 ELSE 0)

\* An unlocked futex tells its owner that it is its turn
\* (src/pingpong.c:673-722), and its follicle holds the stamp it waits for.
FollicleTellsBall ==
    \A w \in Threads : /\ start_work /\ futex[w] = 0 => MayHit(w) \/ MayCatch(w)
                       /\ MayCatch(w) => ftsc[w] = ball

\* What a worker knows at its program counter.
Knows(w) ==
    /\ ret[w] # "null" => Played(w) = pub[w] + rcv[w]
    /\ pc[w] \in {"stamp", "store"} => Sends(w)
    /\ pc[w] = "store" => reg[w] > tsc[w]
    /\ pc[w] \in {"load", "now"} => ~Sends(w) /\ MayCatch(w)
    /\ pc[w] = "now" => reg[w] = ball
    /\ pc[w] = "unlock" /\ Sends(w) => MayCatch(Other(w))

WorkerKnows == \A w \in Threads : Knows(w)

\* The inductive invariant behind ImplementsRally (src/pingpong.c:663-726): the
\* token is with the worker that may hit or catch the ball.
RallyInv == TokenInv /\ FrameInv /\ OneBall /\ FollicleTellsBall /\ WorkerKnows
=============================================================================
