-------------------------------- MODULE Pipe --------------------------------
(***************************************************************************)
(* The pipe method of src/pingpong.c (--pipe, pipe_main).  Each worker     *)
(* owns a pipe and reads the stamps from it that the other one writes.  A  *)
(* read takes the oldest stamp and blocks while there is none.  A stamp is *)
(* shorter than PIPE_BUF, so it is written and read as a whole.            *)
(***************************************************************************)
EXTENDS Harness

VARIABLES pipe,  \* pipe[w]: the stamps in g_pipes[w], oldest first
          open   \* open[w]: pipe(g_pipes[w]) was called

channel == <<pipe, open>>
vars == <<frameVars, channel>>

Init ==
    /\ FrameInit
    /\ pipe = [w \in Threads |-> <<>>]
    /\ open = [w \in Threads |-> FALSE]

\* pipe(g_pipes[i]), then pthread_create
Create(w) ==
    /\ CreateWorker(w)
    /\ open' = [open EXCEPT ![w] = TRUE]
    /\ UNCHANGED pipe

Stamp(w) ==
    /\ AtSend(w)
    /\ TakeStamp(w, "write")
    /\ UNCHANGED channel

\* Mutant: the loop around the write is not left.
WriteForever(w) ==
    /\ pc[w] = "write"
    /\ pipe' = [pipe EXCEPT ![Other(w)] = Append(@, reg[w])]
    /\ Publish(w)
    /\ Goto(w, "loop")
    /\ UNCHANGED <<mainVars, iter, tsc, reg, ds, ret, clock, open>>

\* The pipe of the other worker has room: see AtMostOneInPipe.
Write(w) ==
    /\ pc[w] = "write"
    /\ pipe' = [pipe EXCEPT ![Other(w)] = Append(@, reg[w])]
    /\ Publish(w)
    /\ NextIteration(w)
    /\ UNCHANGED <<mainVars, tsc, reg, ds, ret, clock, open>>

\* Mutant: the receiver reads from the pipe it writes to.
ReadOther(w) ==
    /\ AtRecv(w)
    /\ pipe[Other(w)] # <<>>
    /\ reg' = [reg EXCEPT ![w] = Head(pipe[Other(w)])]
    /\ pipe' = [pipe EXCEPT ![Other(w)] = Tail(@)]
    /\ Goto(w, "now")
    /\ UNCHANGED <<mainVars, iter, tsc, ds, ret, clock, pub, ball, open>>

Read(w) ==
    /\ AtRecv(w)
    /\ pipe[w] # <<>>
    /\ reg' = [reg EXCEPT ![w] = Head(pipe[w])]
    /\ pipe' = [pipe EXCEPT ![w] = Tail(@)]
    /\ Goto(w, "now")
    /\ UNCHANGED <<mainVars, iter, tsc, ds, ret, clock, pub, ball, open>>

Record(w) ==
    /\ pc[w] = "now"
    /\ RecordDelta(w)
    /\ NextIteration(w)
    /\ UNCHANGED channel

\* write or read returns -1.
PipeFails(w) ==
    /\ pc[w] = "loop" => AtRecv(w)
    /\ CallFails(w, {"loop", "write"})
    /\ UNCHANGED channel

Worker(w) ==
    /\ ~Ended
    /\ \/ FrameStep(w) /\ UNCHANGED channel
       \/ Stamp(w)
       \/ Write(w)
       \/ Read(w)
       \/ Record(w)

Main ==
    \/ \E w \in Threads : Create(w)
    \/ MainStep /\ UNCHANGED channel

Failure ==
    \/ FrameFailure /\ UNCHANGED channel
    \/ \E w \in Threads : ~Ended /\ PipeFails(w)

Next ==
    \/ Main
    \/ \E w \in Threads : Worker(w)
    \/ Failure

Spec == Init /\ [][Next]_vars

\* The kernel runs every runnable thread, and a thread that waits for a pipe
\* is runnable as soon as there is something to read.
Fairness == WF_vars(Main) /\ \A w \in Threads : WF_vars(Worker(w))

FairSpec == Spec /\ Fairness
-----------------------------------------------------------------------------
PipePcs == {"write", "now"}

TypeOK ==
    /\ FrameTypeOK(PipePcs)
    /\ pipe \in [Threads -> Seq(Nat)]
    /\ open \in [Threads -> BOOLEAN]

\* A worker in its turn has not run through its loop, and keeps its role.
TurnsLeft ==
    \A w \in Threads : /\ pc[w] = "write" => iter[w] < N /\ Sends(w)
                       /\ pc[w] = "now" => iter[w] < N /\ ~Sends(w)

\* A worker that has not been created has done nothing.
Uncreated ==
    mainPc = "create" => \A w \in Threads : w >= idx => pc[w] = "none"

\* How many stamps worker w has written and read in the iterations so far.
Written(w) == (iter[w] + 1 - w) \div 2
Taken(w)   == (iter[w] + w) \div 2 + (IF pc[w] = "now" THEN 1 ELSE 0)

\* Nothing gets lost in a pipe.
Counted == \A w \in Threads : Len(pipe[w]) = Written(Other(w)) - Taken(w)

\* A pipe never holds more than one stamp (src/pingpong.c:552, 565): the
\* writer does not block on a full pipe, however slow the reader is, and the
\* reader never measures a stamp that queued behind another one.
AtMostOneInPipe == \A w \in Threads : Len(pipe[w]) <= 1

\* The inductive invariant of the pipes (src/pingpong.c:542-579): that no
\* stamp queues follows from what was written and read.
PipeInv == TypeOK /\ Uncreated /\ TurnsLeft /\ Counted /\ AtMostOneInPipe

\* g_pipes is zero until pipe is called (src/pingpong.c:65, 839): a worker
\* that came too early would read from, or write to, file descriptor 0.
NoEarlyUse ==
    \A w \in Threads : pc[w] = "write" \/ AtRecv(w) => open[0] /\ open[1]

\* What is in a pipe is the ball (src/pingpong.c:542-579), until its owner has
\* read it.
PipeTellsBall ==
    \A w \in Threads :
        /\ pipe[w] # <<>> => MayCatch(w) /\ pipe[w] = <<ball>>
        /\ pc[w] = "now" => MayCatch(w) /\ reg[w] = ball /\ pipe[w] = <<>>

\* What a worker knows at its program counter.
Knows(w) ==
    /\ iter[w] = pub[w] + rcv[w]
    /\ pc[w] = "write" => reg[w] > tsc[w]

WorkerKnows == \A w \in Threads : Knows(w)

\* A worker that runs found its pipes open: they are created before it.
Opened ==
    /\ mainPc = "create" /\ idx = 1 => open[0]
    /\ mainPc = "start" \/ start_work => open[0] /\ open[1]

\* The inductive invariant behind ImplementsRally and NoEarlyUse
\* (src/pingpong.c:534-582, 838-844).
RallyInv ==
    PipeInv /\ FrameInv /\ OneBall /\ PipeTellsBall /\ WorkerKnows /\ Opened

\* The inductive invariant behind LatenciesDisjoint (src/pingpong.c:546-579).
LatencyInv == RallyInv /\ InTime({"write"})
=============================================================================
