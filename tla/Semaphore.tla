----------------------------- MODULE Semaphore -----------------------------
(***************************************************************************)
(* The semaphore method of src/pingpong.c (--sem, semaphore_main).  Each   *)
(* worker owns a stripe: a semaphore and a plain word for the stamp.  A    *)
(* worker waits for its own semaphore at the start of every turn, whether  *)
(* it sends or receives.  The sender writes the stamp into the other's     *)
(* stripe and posts the other's semaphore; the receiver posts its own      *)
(* again, which lets it send next.                                         *)
(***************************************************************************)
EXTENDS Harness

VARIABLES sem,   \* sem[w]: the value of g_stripe[w].sem
          stsc   \* stsc[w]: g_stripe[w].tsc, not atomic

channel == <<sem, stsc>>
vars == <<frameVars, channel>>

\* The semaphores only become usable when the workers are created.
Init ==
    /\ FrameInit
    /\ sem = [w \in Threads |-> 0]
    /\ stsc = [w \in Threads |-> 0]

\* Mutant: sem_init(.., 1) for both.
CreateAllPosted(w) ==
    /\ CreateWorker(w)
    /\ sem' = [sem EXCEPT ![w] = 1]
    /\ UNCHANGED stsc

\* sem_init(&g_stripe[i].sem, 0, !i), then pthread_create
Create(w) ==
    /\ CreateWorker(w)
    /\ sem' = [sem EXCEPT ![w] = 1 - w]
    /\ UNCHANGED stsc

SemWait(w) ==
    /\ InLoop(w)
    /\ sem[w] > 0
    /\ sem' = [sem EXCEPT ![w] = @ - 1]
    /\ Goto(w, IF Sends(w) THEN "stamp" ELSE "load")
    /\ UNCHANGED <<mainVars, dataVars, stsc>>

Stamp(w) ==
    /\ pc[w] = "stamp"
    /\ TakeStamp(w, "store")
    /\ UNCHANGED channel

StoreTsc(w) ==
    /\ pc[w] = "store"
    /\ stsc' = [stsc EXCEPT ![Other(w)] = reg[w]]
    /\ Publish(w)
    /\ Goto(w, "post")
    /\ UNCHANGED <<mainVars, iter, tsc, reg, ds, ret, clock, sem>>

LoadTsc(w) ==
    /\ pc[w] = "load"
    /\ reg' = [reg EXCEPT ![w] = stsc[w]]
    /\ Goto(w, "now")
    /\ UNCHANGED <<mainVars, iter, tsc, ds, ret, clock, pub, ball, channel>>

Record(w) ==
    /\ pc[w] = "now"
    /\ RecordDelta(w)
    /\ Goto(w, "post")
    /\ UNCHANGED <<iter, channel>>

\* Mutant: the receiver posts the semaphore of the other worker, too.
PostOther(w) ==
    /\ pc[w] = "post"
    /\ sem' = [sem EXCEPT ![Other(w)] = @ + 1]
    /\ NextIteration(w)
    /\ UNCHANGED <<mainVars, tsc, reg, ds, ret, clock, pub, ball, stsc>>

\* The sender posts the semaphore of the other worker, the receiver its own.
Post(w) ==
    /\ pc[w] = "post"
    /\ LET target == IF Sends(w) THEN Other(w) ELSE w
       IN  sem' = [sem EXCEPT ![target] = @ + 1]
    /\ NextIteration(w)
    /\ UNCHANGED <<mainVars, tsc, reg, ds, ret, clock, pub, ball, stsc>>

\* sem_wait or sem_post returns -1.
SemFails(w) ==
    /\ pc[w] = "loop" => iter[w] < N
    /\ CallFails(w, {"loop", "post"})
    /\ UNCHANGED channel

Worker(w) ==
    /\ ~Ended
    /\ \/ FrameStep(w) /\ UNCHANGED channel
       \/ SemWait(w)
       \/ Stamp(w)
       \/ StoreTsc(w)
       \/ LoadTsc(w)
       \/ Record(w)
       \/ Post(w)

Main ==
    \/ \E w \in Threads : Create(w)
    \/ MainStep /\ UNCHANGED channel

Failure ==
    \/ FrameFailure /\ UNCHANGED channel
    \/ \E w \in Threads : ~Ended /\ SemFails(w)

Next ==
    \/ Main
    \/ \E w \in Threads : Worker(w)
    \/ Failure

Spec == Init /\ [][Next]_vars

\* The kernel runs every runnable thread, and a thread that waits for a
\* semaphore is runnable as soon as its value is positive.
Fairness == WF_vars(Main) /\ \A w \in Threads : WF_vars(Worker(w))

FairSpec == Spec /\ Fairness
-----------------------------------------------------------------------------
\* A worker in its turn holds what it took from its semaphore until it posts.
Held == {"stamp", "store", "load", "now", "post"}

TypeOK ==
    /\ FrameTypeOK(Held)
    /\ sem \in [Threads -> Nat]
    /\ stsc \in [Threads -> Nat]

\* The two semaphores pass a single token around (src/pingpong.c:602-645): it
\* is in one of them or with the worker whose turn it is.  A worker whose
\* sem_post failed takes it along.
OneToken ==
    start_work =>
      LET tokens == sem[0] + sem[1] + (IF pc[0] \in Held THEN 1 ELSE 0)
                                    + (IF pc[1] \in Held THEN 1 ELSE 0)
      IN  tokens <= 1 /\ (~CallHasFailed => tokens = 1)

\* Before start_work is set (src/pingpong.c:802-874) no worker is in its loop,
\* and only the semaphore of worker 0 is posted.
SetUp ==
    /\ mainPc \in {"create", "start"} => ~start_work
    /\ ~start_work => \A w \in Threads : ~Working(w)
    /\ mainPc = "create" => idx \in Threads /\ sem[0] = idx /\ sem[1] = 0
    /\ mainPc = "start" => sem[0] = 1 /\ sem[1] = 0

\* A worker in its turn has not run through its loop.
TurnsLeft == \A w \in Threads : pc[w] \in Held => iter[w] < N

\* A worker that returned an error takes no further step, one that has not
\* been created none yet.
ErrorIsFinal ==
    /\ \A w \in Threads : ret[w] = "null" => pc[w] = "done"
    /\ mainPc = "create" =>
         \A w \in Threads : w >= idx => pc[w] = "none" /\ ret[w] = "none"

\* The inductive invariant (src/pingpong.c:602-645, 850-857): no step makes a
\* second token, and only a failing call loses the one there is.
TokenInv == TypeOK /\ SetUp /\ TurnsLeft /\ ErrorIsFinal /\ OneToken

\* The word for the stamp is not atomic (src/pingpong.c:113): the semaphores
\* keep the sender's write of it (616) apart from the receiver's read (634).
RaceFree == \A w \in Threads : pc[w] = "store" => pc[Other(w)] # "load"

\* The iterations a worker has played, the one it is about to end included.
Played(w) == iter[w] + (IF pc[w] = "post" THEN 1 ELSE 0)

\* A positive semaphore tells its owner that it is its turn
\* (src/pingpong.c:602-645), and its stripe holds the stamp it waits for.
StripeTellsBall ==
    \A w \in Threads : /\ sem[w] > 0 => MayHit(w) \/ MayCatch(w)
                       /\ MayCatch(w) => stsc[w] = ball

\* What a worker knows at its program counter.
Knows(w) ==
    /\ ret[w] # "null" => Played(w) = pub[w] + rcv[w]
    /\ pc[w] \in {"stamp", "store"} => Sends(w)
    /\ pc[w] = "store" => reg[w] > tsc[w]
    /\ pc[w] \in {"load", "now"} => ~Sends(w) /\ MayCatch(w)
    /\ pc[w] = "now" => reg[w] = ball
    /\ pc[w] = "post" /\ Sends(w) => MayCatch(Other(w))

WorkerKnows == \A w \in Threads : Knows(w)

\* The inductive invariant behind ImplementsRally (src/pingpong.c:594-648): the
\* token is with the worker that may hit or catch the ball.
RallyInv == TokenInv /\ FrameInv /\ OneBall /\ StripeTellsBall /\ WorkerKnows
=============================================================================
