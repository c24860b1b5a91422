-------------------------------- MODULE Spin --------------------------------
(***************************************************************************)
(* The spinning methods of src/pingpong.c: the sender stores its stamp in  *)
(* the receiver's cell (release), the receiver polls its own cell until    *)
(* the value is above the stamp it received last.  spin_main polls without *)
(* a pause, spin_pause_main and spin_pause_more_main look away for some    *)
(* pause instructions after each miss (BackOff).                           *)
(*                                                                         *)
(* The stamps double as sequence numbers: no flag is ever reset.           *)
(***************************************************************************)
EXTENDS Harness

CONSTANT BackOff   \* the worker pauses after a miss (--spin-pause, -p)

ASSUME SpinAssumption == BackOff \in BOOLEAN

VARIABLE cell      \* cell[w]: g_cell[w].tsc, written by the other worker

vars == <<frameVars, cell>>

Init ==
    /\ FrameInit
    /\ cell = [w \in Threads |-> 0]

Stamp(w) ==
    /\ AtSend(w)
    /\ TakeStamp(w, "store")
    /\ UNCHANGED cell

StoreCell(w) ==
    /\ pc[w] = "store"
    /\ cell' = [cell EXCEPT ![Other(w)] = reg[w]]
    /\ Publish(w)
    /\ NextIteration(w)
    /\ UNCHANGED <<mainVars, tsc, reg, ds, ret, clock>>

\* Mutant: the stamp received last is taken for a new one.
PollOld(w) ==
    /\ AtRecv(w)
    /\ cell[w] >= tsc[w]
    /\ reg' = [reg EXCEPT ![w] = cell[w]]
    /\ Goto(w, "now")
    /\ UNCHANGED <<mainVars, iter, tsc, ds, ret, clock, pub, ball, cell>>

PollHit(w) ==
    /\ AtRecv(w)
    /\ cell[w] > tsc[w]
    /\ reg' = [reg EXCEPT ![w] = cell[w]]
    /\ Goto(w, "now")
    /\ UNCHANGED <<mainVars, iter, tsc, ds, ret, clock, pub, ball, cell>>

PollMiss(w) ==
    /\ BackOff
    /\ AtRecv(w)
    /\ cell[w] <= tsc[w]
    /\ Goto(w, "pause")
    /\ UNCHANGED <<mainVars, dataVars, cell>>

Pause(w) ==
    /\ pc[w] = "pause"
    /\ Goto(w, "loop")
    /\ UNCHANGED <<mainVars, dataVars, cell>>

Record(w) ==
    /\ pc[w] = "now"
    /\ RecordDelta(w)
    /\ NextIteration(w)
    /\ UNCHANGED cell

Worker(w) ==
    /\ ~Ended
    /\ \/ FrameStep(w) /\ UNCHANGED cell
       \/ Stamp(w)
       \/ StoreCell(w)
       \/ PollHit(w)
       \/ PollMiss(w)
       \/ Pause(w)
       \/ Record(w)

Main ==
    /\ \/ \E w \in Threads : CreateWorker(w)
       \/ MainStep
    /\ UNCHANGED cell

Next ==
    \/ Main
    \/ \E w \in Threads : Worker(w)
    \/ FrameFailure /\ UNCHANGED cell

Spec == Init /\ [][Next]_vars

\* The kernel runs every runnable thread eventually.
Fairness == WF_vars(Main) /\ \A w \in Threads : WF_vars(Worker(w))

FairSpec == Spec /\ Fairness
-----------------------------------------------------------------------------
SpinPcs == {"store", "now", "pause"}

TypeOK ==
    /\ FrameTypeOK(SpinPcs)
    /\ cell \in [Threads -> Nat]

\* A cell is above the stamp its owner received last exactly while the ball is
\* on its way to it, and then it is the stamp of the ball.
CellTellsBall ==
    \A w \in Threads : IF MayCatch(w) THEN cell[w] = ball ELSE cell[w] <= tsc[w]

\* What a worker knows at its program counter.
WorkerKnows ==
    \A w \in Threads :
        /\ iter[w] = pub[w] + rcv[w]
        /\ pc[w] = "store" => iter[w] < N /\ Sends(w) /\ reg[w] > tsc[w]
        /\ pc[w] = "now" => iter[w] < N /\ MayCatch(w) /\ reg[w] = ball

\* The inductive invariant behind ImplementsRally (src/pingpong.c:291-319):
\* nothing but the order of the stamps tells an old one from a new one.
RallyInv == TypeOK /\ FrameInv /\ OneBall /\ CellTellsBall /\ WorkerKnows
=============================================================================
