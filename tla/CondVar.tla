------------------------------ MODULE CondVar ------------------------------
(***************************************************************************)
(* The condition variable method of src/pingpong.c (--cv, cv_main).  Each  *)
(* worker owns an item: a mutex, a condition variable and a stamp that the *)
(* mutex protects.  The sender stores its stamp in the receiver's item and *)
(* signals after it released the mutex.  The receiver waits while its item *)
(* shows no stamp above the one received last.                             *)
(***************************************************************************)
EXTENDS Harness

VARIABLES owner,  \* owner[w]: which thread holds g_item[w].mutex
          itsc    \* itsc[w]: g_item[w].tsc

channel == <<owner, itsc>>
vars == <<frameVars, channel>>

NoOne == 2

Init ==
    /\ FrameInit
    /\ owner = [w \in Threads |-> NoOne]
    /\ itsc = [w \in Threads |-> 0]

\* The item of the receiver: the other worker's when w sends, else its own.
Item(w) == IF Sends(w) THEN Other(w) ELSE w

Stamp(w) ==
    /\ AtSend(w)
    /\ TakeStamp(w, "lock")
    /\ UNCHANGED channel

\* pthread_mutex_lock: at the start of a turn, for the sender after it took
\* its stamp; "relock" is the end of pthread_cond_wait.
WantsMutex(w) == pc[w] \in {"lock", "relock"} \/ AtRecv(w)

\* Mutant: a critical section without the mutex.
LockNothing(w) ==
    /\ WantsMutex(w)
    /\ owner' = [owner EXCEPT ![Item(w)] = w]
    /\ Goto(w, IF Sends(w) THEN "store" ELSE "check")
    /\ UNCHANGED <<mainVars, dataVars, itsc>>

Lock(w) ==
    /\ WantsMutex(w)
    /\ owner[Item(w)] = NoOne
    /\ owner' = [owner EXCEPT ![Item(w)] = w]
    /\ Goto(w, IF Sends(w) THEN "store" ELSE "check")
    /\ UNCHANGED <<mainVars, dataVars, itsc>>

StoreTsc(w) ==
    /\ pc[w] = "store"
    /\ itsc' = [itsc EXCEPT ![Other(w)] = reg[w]]
    /\ Publish(w)
    /\ Goto(w, "unlock")
    /\ UNCHANGED <<mainVars, iter, tsc, reg, ds, ret, clock, owner>>

\* Mutant: if instead of while around pthread_cond_wait.
CheckOnce(w) ==
    /\ pc[w] = "check"
    /\ Goto(w, "load")
    /\ UNCHANGED <<mainVars, dataVars, channel>>

\* while (g_item[w.init].tsc <= tsc): leave the loop ...
CheckHit(w) ==
    /\ pc[w] = "check"
    /\ itsc[w] > tsc[w]
    /\ Goto(w, "load")
    /\ UNCHANGED <<mainVars, dataVars, channel>>

\* ... or go on to wait
CheckMiss(w) ==
    /\ pc[w] = "check"
    /\ itsc[w] <= tsc[w]
    /\ Goto(w, "wait")
    /\ UNCHANGED <<mainVars, dataVars, channel>>

\* pthread_cond_wait releases the mutex and starts to wait in one step.
CondWait(w) ==
    /\ pc[w] = "wait"
    /\ owner' = [owner EXCEPT ![w] = NoOne]
    /\ Goto(w, "sleep")
    /\ UNCHANGED <<mainVars, dataVars, itsc>>

\* pthread_cond_wait may end without a signal.
SpuriousWake(w) ==
    /\ ~Ended
    /\ pc[w] = "sleep"
    /\ Goto(w, "relock")
    /\ UNCHANGED <<mainVars, dataVars, channel>>

LoadTsc(w) ==
    /\ pc[w] = "load"
    /\ reg' = [reg EXCEPT ![w] = itsc[w]]
    /\ Goto(w, "unlock")
    /\ UNCHANGED <<mainVars, iter, tsc, ds, ret, clock, pub, ball, channel>>

Unlock(w) ==
    /\ pc[w] = "unlock"
    /\ owner' = [owner EXCEPT ![Item(w)] = NoOne]
    /\ Goto(w, IF Sends(w) THEN "signal" ELSE "now")
    /\ UNCHANGED <<mainVars, dataVars, itsc>>

\* Mutant: the sender signals its own condition variable.
SignalOwn(w) ==
    /\ pc[w] = "signal"
    /\ NextIteration(w)
    /\ UNCHANGED <<mainVars, tsc, reg, ds, ret, clock, pub, ball, channel>>

\* pthread_cond_signal: no thread but the owner waits on an item, and nothing
\* happens when it does not wait.
Signal(w) ==
    /\ pc[w] = "signal"
    /\ iter' = [iter EXCEPT ![w] = @ + 1]
    /\ pc' = [v \in Threads |-> IF v = w THEN "loop"
                                ELSE IF pc[v] = "sleep" THEN "relock"
                                ELSE pc[v]]
    /\ UNCHANGED <<mainVars, tsc, reg, ds, ret, clock, pub, ball, channel>>

Record(w) ==
    /\ pc[w] = "now"
    /\ RecordDelta(w)
    /\ NextIteration(w)
    /\ UNCHANGED channel

\* A call on the mutex or on the condition variable returns an error.  It may
\* leave the mutex locked for good.
ItemFails(w) ==
    /\ pc[w] = "loop" => AtRecv(w)
    /\ CallFails(w, {"loop", "lock", "unlock", "signal", "wait"})
    /\ UNCHANGED channel

Worker(w) ==
    /\ ~Ended
    /\ \/ FrameStep(w) /\ UNCHANGED channel
       \/ Stamp(w)
       \/ Lock(w)
       \/ StoreTsc(w)
       \/ CheckHit(w)
       \/ CheckMiss(w)
       \/ CondWait(w)
       \/ LoadTsc(w)
       \/ Unlock(w)
       \/ Signal(w)
       \/ Record(w)

Main ==
    /\ \/ \E w \in Threads : CreateWorker(w)
       \/ MainStep
    /\ UNCHANGED channel

Failure ==
    \/ FrameFailure /\ UNCHANGED channel
    \/ \E w \in Threads : ~Ended /\ ItemFails(w)

Next ==
    \/ Main
    \/ \E w \in Threads : Worker(w) \/ SpuriousWake(w)
    \/ Failure

Spec == Init /\ [][Next]_vars

\* The kernel runs every runnable thread.  A thread that waits for a free
\* mutex is runnable, one that waits for a signal is not.  A mutex that gets
\* free again and again is not always taken by the other worker: this only
\* matters when a receiver is woken up spuriously without end.
Fairness ==
    /\ WF_vars(Main)
    /\ \A w \in Threads : WF_vars(Worker(w)) /\ SF_vars(~Ended /\ Lock(w))

FairSpec == Spec /\ Fairness
-----------------------------------------------------------------------------
CondVarPcs == {"lock", "relock", "store", "check", "wait", "sleep", "load",
               "unlock", "signal", "now"}

TypeOK ==
    /\ FrameTypeOK(CondVarPcs)
    /\ owner \in [Threads -> Threads \cup {NoOne}]
    /\ itsc \in [Threads -> Nat]

\* A worker in its turn has not run through its loop, and keeps its role.
Sending   == {"lock", "store", "signal"}
Receiving == {"relock", "check", "wait", "sleep", "load", "now"}
TurnsLeft ==
    \A w \in Threads :
        /\ pc[w] \in Sending => Sends(w)
        /\ pc[w] \in Receiving => ~Sends(w)
        /\ pc[w] \in Sending \cup Receiving \cup {"unlock"} => iter[w] < N

\* Who is between lock and unlock has the mutex of the receiver's item.
Critical == {"store", "check", "wait", "load", "unlock"}
HoldsMutex ==
    \A w \in Threads : pc[w] \in Critical => owner[Item(w)] = w

\* A worker that is not created yet has not run (src/pingpong.c:805-870).
NotCreated == mainPc = "create" => \A w \in Threads : w >= idx => pc[w] = "none"

\* Nobody else has a mutex, unless a call of its own failed in there: it has
\* returned NULL without releasing it.
MutexIsFreed ==
    \A m, w \in Threads :
        owner[m] = w => \/ pc[w] \in Critical /\ m = Item(w)
                        \/ pc[w] = "done" /\ ret[w] = "null"

\* An access to g_item[].tsc (src/pingpong.c:483, 502, 510) never overlaps the
\* other worker's write of it, although each turn changes the roles.
RaceFree ==
    \A w \in Threads :
        pc[w] = "store" => pc[Other(w)] \notin {"check", "load"}

\* The inductive invariant (src/pingpong.c:478-519): the mutex of an item is
\* held by whoever touches it, whatever wakes up and whatever fails, and by
\* nobody else but a worker that a failing call has ended.
MutexInv ==
    TypeOK /\ TurnsLeft /\ NotCreated /\ HoldsMutex /\ MutexIsFreed /\ RaceFree

\* The stamp decides between waiting and going on (src/pingpong.c:502): a
\* worker that sleeps while its stamp is already there has a signal coming.
NoLostWakeup ==
    \A w \in Threads :
        pc[w] = "sleep" /\ itsc[w] > tsc[w] /\ ~CallHasFailed =>
            Sends(Other(w)) /\ pc[Other(w)] \in {"unlock", "signal"}

\* The iterations a worker has played, the one it is about to end included.
Played(w) ==
    iter[w] + (IF Sends(w) /\ pc[w] \in {"unlock", "signal"} THEN 1 ELSE 0)

\* The stamp of an item is above the one its owner received last exactly while
\* the ball is on its way to it (src/pingpong.c:483, 502).
ItemTellsBall ==
    \A w \in Threads : IF MayCatch(w) THEN itsc[w] = ball ELSE itsc[w] <= tsc[w]

\* What a worker knows at its program counter.
Knows(w) ==
    /\ ret[w] # "null" => Played(w) = pub[w] + rcv[w]
    /\ pc[w] \in {"lock", "store"} => reg[w] > tsc[w]
    /\ pc[w] \in {"load", "now"} => MayCatch(w)
    /\ pc[w] = "unlock" /\ ~Sends(w) => MayCatch(w) /\ reg[w] = ball
    /\ pc[w] = "now" => reg[w] = ball
    /\ pc[w] = "wait" => itsc[w] <= tsc[w]

WorkerKnows == \A w \in Threads : Knows(w)

\* The inductive invariant behind ImplementsRally and NoLostWakeup
\* (src/pingpong.c:468-521).
RallyInv ==
    MutexInv /\ FrameInv /\ OneBall /\ ItemTellsBall /\ WorkerKnows /\ NoLostWakeup
=============================================================================
