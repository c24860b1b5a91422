---------------------------- MODULE PipeProofs ----------------------------
(***************************************************************************)
(* What is in the pipes of --pipe, for every number of iterations, every   *)
(* TSC offset and whatever calls fail: what was written and not yet read,  *)
(* which is never more than one stamp.                                     *)
(***************************************************************************)
EXTENDS Pipe, HarnessProofs

\* Every other iteration is one of the sender (src/pingpong.c:543).
LEMMA HalfTurns ==
    ASSUME NEW i \in Nat, NEW w \in {0, 1}
    PROVE  /\ i % 2 = w => /\ (i + 1 + 1 - w) \div 2 = (i + 1 - w) \div 2 + 1
                           /\ (i + 1 + w) \div 2 = (i + w) \div 2
           /\ i % 2 # w => /\ (i + 1 + 1 - w) \div 2 = (i + 1 - w) \div 2
                           /\ (i + 1 + w) \div 2 = (i + w) \div 2 + 1
<1>1. CASE w = 0
    BY <1>1
<1>2. CASE w = 1
    BY <1>2
<1> QED
    BY <1>1, <1>2

\* The pipes are empty when the workers are created.
LEMMA PipeInit == Init => PipeInv
<1> SUFFICES ASSUME Init PROVE PipeInv
    OBVIOUS
<1>1. FrameTypeOK(PipePcs)
    BY FrameInitType DEF Init
<1>2. /\ pipe = [w \in Threads |-> <<>>]
      /\ pipe \in [Threads -> Seq(Nat)]
      /\ open \in [Threads -> BOOLEAN]
    BY DEF Init
<1>3. \A w \in Threads : pc[w] = "none" /\ iter[w] = 0
    BY DEF Init, FrameInit
<1>4. TurnsLeft /\ Uncreated
    BY <1>3 DEF TurnsLeft, Uncreated
<1>5. \A w \in Threads : Written(w) = 0 /\ Taken(w) = 0
    BY <1>3 DEF Written, Taken, Threads
<1>6. \A w \in Threads : Len(pipe[w]) = 0
    BY <1>2
<1>7. Counted /\ AtMostOneInPipe
    BY <1>5, <1>6 DEF Counted, AtMostOneInPipe, Threads, Other
<1> QED
    BY <1>1, <1>2, <1>4, <1>7 DEF PipeInv, TypeOK

\* Every step keeps the types: no worker goes beyond its last iteration.
LEMMA PipeType ==
    ASSUME TypeOK, TurnsLeft, Next
    PROVE  TypeOK'
<1> USE DEF TypeOK, PipePcs
<1>1. CASE \E w \in Threads : Create(w)
  <2>1. PICK w \in Threads : Create(w)
      BY <1>1
  <2>2. FrameTypeOK(PipePcs)'
      BY <2>1, MainType DEF Create
  <2> QED
      BY <2>1, <2>2 DEF Create
<1>2. CASE MainStep /\ UNCHANGED channel
    BY <1>2, MainType DEF channel
<1>3. ASSUME NEW w \in Threads, Worker(w)
      PROVE  TypeOK'
  <2>1. CASE FrameStep(w) /\ UNCHANGED channel
      BY <2>1, FrameStepType DEF channel
  <2>2. CASE Stamp(w)
      BY <2>2, TakeStampType DEF Stamp, channel
  <2>3. CASE Write(w)
    <3>1. iter[w] < N
        BY <2>3 DEF Write, TurnsLeft
    <3>2. iter' \in [Threads -> 0..N]
        BY <2>3, <3>1, HarnessAssumption DEF Write, NextIteration, FrameTypeOK
    <3>3. pipe' \in [Threads -> Seq(Nat)]
        BY <2>3 DEF Write, FrameTypeOK, Threads, Other
    <3>4. pc' \in [Threads -> {"none", "alloc", "await", "loop", "done"}
                                  \cup PipePcs]
        BY <2>3 DEF Write, NextIteration, Goto, FrameTypeOK
    <3>5. pub' \in [Threads -> Nat] /\ ball' \in Nat
        BY <2>3 DEF Write, Publish, FrameTypeOK
    <3> QED
        BY <2>3, <3>2, <3>3, <3>4, <3>5 DEF Write, FrameTypeOK, mainVars
  <2>4. CASE Read(w)
    <3>1. Head(pipe[w]) \in Nat /\ Tail(pipe[w]) \in Seq(Nat)
        BY <2>4 DEF Read
    <3> QED
        BY <2>4, <3>1 DEF Read, Goto, FrameTypeOK, mainVars
  <2>5. CASE Record(w)
    <3>1. /\ clock' \in Nat
          /\ ds' \in [Threads -> Seq(0..(Wrap - 1))]
          /\ tsc' \in [Threads -> Nat]
        BY <2>5, RecordDeltaType DEF Record
    <3>2. iter[w] < N
        BY <2>5 DEF Record, TurnsLeft
    <3>3. iter' \in [Threads -> 0..N]
        BY <2>5, <3>2, HarnessAssumption DEF Record, NextIteration, FrameTypeOK
    <3> QED
        BY <2>5, <3>1, <3>3
        DEF Record, RecordDelta, NextIteration, Goto, FrameTypeOK, mainVars,
            channel
  <2> QED
      BY <1>3, <2>1, <2>2, <2>3, <2>4, <2>5 DEF Worker
<1>4. CASE Failure
    BY <1>4, FrameFailureType, ReturnNullType
    DEF Failure, PipeFails, CallFails, channel
<1> QED
    BY <1>1, <1>2, <1>3, <1>4 DEF Next, Main

\* The steps that leave the pipes and the iterations alone, and lead into no
\* turn: those of the control thread, of the frame, and failures.
LEMMA OtherStepsAreQuiet ==
    ASSUME Uncreated,
           \/ Main
           \/ Failure
           \/ \E w \in Threads : FrameStep(w) /\ UNCHANGED channel
    PROVE  /\ UNCHANGED <<iter, pipe>>
           /\ \/ UNCHANGED pc
              \/ \E w \in Threads, to \in {"alloc", "await", "loop", "done"} :
                    pc[w] # "now" /\ pc' = [pc EXCEPT ![w] = to]
<1>1. CASE (\E w \in Threads : Create(w)) \/ (MainStep /\ UNCHANGED channel)
  <2>1. UNCHANGED <<iter, pipe>>
      BY <1>1
      DEF Create, CreateWorker, MainStep, StartWork, JoinWorker, Report,
          dataVars, channel
  <2>2. CASE \E w \in Threads : Create(w)
    <3>1. PICK w \in Threads : Create(w)
        BY <2>2
    <3>2. mainPc = "create" /\ idx = w /\ w >= idx
        BY <3>1 DEF Create, CreateWorker, Threads
    <3>3. pc[w] = "none" /\ pc' = [pc EXCEPT ![w] = "alloc"]
        BY <3>1, <3>2 DEF Uncreated, Create, CreateWorker, Goto
    <3> QED
        BY <2>1, <3>3
  <2>3. CASE MainStep /\ UNCHANGED channel
      BY <2>1, <2>3 DEF MainStep, StartWork, JoinWorker, Report
  <2> QED
      BY <1>1, <2>2, <2>3
<1>2. CASE MainFails /\ UNCHANGED channel
    BY <1>2 DEF MainFails, dataVars, channel
<1>3. CASE (\E w \in Threads : AllocFails(w)) /\ UNCHANGED channel
    BY <1>3 DEF AllocFails, ReturnNull, Goto, channel
<1>4. CASE \E w \in Threads : PipeFails(w)
    BY <1>4 DEF PipeFails, CallFails, ReturnNull, Goto, channel
<1>5. CASE \E w \in Threads : FrameStep(w) /\ UNCHANGED channel
    BY <1>5
    DEF FrameStep, Alloc, AwaitStart, Finalize, Goto, dataVars, channel
<1> QED
    BY <1>1, <1>2, <1>3, <1>4, <1>5 DEF Main, Failure, FrameFailure

\* A stamp is taken without the pipes.
LEMMA StampIsQuiet ==
    ASSUME NEW w \in Threads, Stamp(w)
    PROVE  /\ UNCHANGED <<iter, pipe>>
           /\ AtSend(w)
           /\ UNCHANGED pc \/ Goto(w, "write")
BY DEF Stamp, TakeStamp, channel

\* Creating a worker is the first thing that happens to it.
LEMMA UncreatedStep ==
    ASSUME TypeOK, Uncreated, Next
    PROVE  Uncreated'
<1> USE DEF Uncreated, Threads
<1>1. pc \in [Threads -> {"none", "alloc", "await", "loop", "done"}
                            \cup PipePcs]
    BY DEF TypeOK, FrameTypeOK
<1>2. CASE Main
    BY <1>1, <1>2
    DEF Main, Create, CreateWorker, MainStep, StartWork, JoinWorker, Report,
        Goto
<1>3. ASSUME NEW w \in Threads, Worker(w)
      PROVE  Uncreated'
  <2>1. CASE FrameStep(w)
      BY <1>1, <2>1 DEF FrameStep, Alloc, AwaitStart, Finalize, Goto, mainVars
  <2>2. CASE Stamp(w)
    <3>1. UNCHANGED mainVars
        BY <2>2 DEF Stamp, TakeStamp
    <3> QED
        BY <1>1, <2>2, <3>1, StampIsQuiet DEF AtSend, InLoop, Goto, mainVars
  <2>3. CASE Write(w) \/ Read(w) \/ Record(w)
      BY <1>1, <2>3
      DEF Write, Read, Record, RecordDelta, AtRecv, InLoop, NextIteration,
          Goto, mainVars
  <2> QED
      BY <1>3, <2>1, <2>2, <2>3 DEF Worker
<1>4. CASE Failure
    BY <1>1, <1>4
    DEF Failure, FrameFailure, MainFails, AllocFails, PipeFails, CallFails,
        ReturnNull, Goto, mainVars
<1> QED
    BY <1>2, <1>3, <1>4 DEF Next

\* Within a turn a worker keeps its role, and an iteration is left for it.
LEMMA TurnsLeftStep ==
    ASSUME TypeOK, Uncreated, TurnsLeft, Next
    PROVE  TurnsLeft'
<1> USE DEF TurnsLeft, Sends
<1>1. /\ pc \in [Threads -> {"none", "alloc", "await", "loop", "done"}
                               \cup PipePcs]
      /\ iter \in [Threads -> 0..N]
    BY DEF TypeOK, FrameTypeOK
<1>2. CASE \/ Main
           \/ Failure
           \/ \E w \in Threads : FrameStep(w) /\ UNCHANGED channel
    BY <1>1, <1>2, OtherStepsAreQuiet
<1>3. ASSUME NEW w \in Threads, Stamp(w)
      PROVE  TurnsLeft'
    BY <1>1, <1>3, StampIsQuiet DEF Goto, AtSend, InLoop
<1>4. ASSUME NEW w \in Threads, Read(w)
      PROVE  TurnsLeft'
    BY <1>1, <1>4 DEF Read, AtRecv, InLoop, Goto
<1>5. ASSUME NEW w \in Threads, Write(w) \/ Record(w)
      PROVE  TurnsLeft'
    BY <1>1, <1>5 DEF Write, Record, NextIteration, Goto
<1> QED
    BY <1>2, <1>3, <1>4, <1>5 DEF Next, Worker

\* A write is counted by the writer and a read by the reader.
LEMMA CountedStep ==
    ASSUME TypeOK, Uncreated, TurnsLeft, Counted, Next
    PROVE  Counted'
<1> USE DEF Counted, Threads, Other
<1>1. /\ pc \in [Threads -> {"none", "alloc", "await", "loop", "done"}
                               \cup PipePcs]
      /\ iter \in [Threads -> 0..N]
      /\ pipe \in [Threads -> Seq(Nat)]
    BY DEF TypeOK, FrameTypeOK
<1>2. \A w \in Threads : /\ iter[w] \in Nat
                          /\ Written(w) \in Int /\ Taken(w) \in Int
  <2>1. \A w \in Threads : iter[w] \in Nat
      BY <1>1, HarnessAssumption
  <2>2. \A w \in Threads : Written(w) \in Int
      BY <2>1 DEF Written
  <2>3. \A w \in Threads : Taken(w) \in Int
      BY <2>1 DEF Taken
  <2> QED
      BY <2>1, <2>2, <2>3
<1>3. CASE \/ Main
           \/ Failure
           \/ \E w \in Threads : FrameStep(w) /\ UNCHANGED channel
  <2>1. \A v \in Threads : pc'[v] = "now" <=> pc[v] = "now"
      BY <1>1, <1>3, OtherStepsAreQuiet
  <2> QED
      BY <1>3, <2>1, OtherStepsAreQuiet DEF Written, Taken
<1>4. ASSUME NEW w \in Threads, Stamp(w)
      PROVE  Counted'
  <2>1. \A v \in Threads : pc'[v] = "now" <=> pc[v] = "now"
      BY <1>1, <1>4, StampIsQuiet DEF Goto, AtSend, InLoop
  <2> QED
      BY <1>4, <2>1, StampIsQuiet DEF Written, Taken
<1>5. ASSUME NEW w \in Threads, Write(w)
      PROVE  Counted'
  <2>1. /\ pc[w] = "write" /\ iter[w] % 2 = w
        /\ iter'[w] = iter[w] + 1 /\ pc'[w] = "loop"
        /\ iter'[Other(w)] = iter[Other(w)]
        /\ pc'[Other(w)] = pc[Other(w)]
      BY <1>1, <1>5 DEF Write, NextIteration, Goto, TurnsLeft, Sends
  <2>2. /\ Len(pipe'[Other(w)]) = Len(pipe[Other(w)]) + 1
        /\ pipe'[w] = pipe[w]
      BY <1>1, <1>5 DEF Write
  <2>3. Written(w)' = Written(w) + 1 /\ Taken(w)' = Taken(w)
      BY <1>2, <2>1, HalfTurns DEF Written, Taken
  <2>4. Written(Other(w))' = Written(Other(w))
        /\ Taken(Other(w))' = Taken(Other(w))
      BY <2>1 DEF Written, Taken
  <2>5. /\ Len(pipe'[Other(w)]) = Written(w)' - Taken(Other(w))'
        /\ Len(pipe'[w]) = Written(Other(w))' - Taken(w)'
      BY <1>2, <2>2, <2>3, <2>4
  <2> QED
      BY <2>5
<1>6. ASSUME NEW w \in Threads, Read(w)
      PROVE  Counted'
  <2>1. /\ pc[w] = "loop" /\ pc'[w] = "now"
        /\ pc'[Other(w)] = pc[Other(w)]
        /\ UNCHANGED iter
      BY <1>1, <1>6 DEF Read, AtRecv, InLoop, Goto
  <2>2. /\ Len(pipe'[w]) = Len(pipe[w]) - 1
        /\ pipe'[Other(w)] = pipe[Other(w)]
      BY <1>1, <1>6 DEF Read
  <2>3. Taken(w)' = Taken(w) + 1
      BY <1>2, <2>1 DEF Taken
  <2>4. /\ Taken(Other(w))' = Taken(Other(w))
        /\ \A v \in Threads : Written(v)' = Written(v)
      BY <2>1 DEF Written, Taken
  <2>5. /\ Len(pipe'[Other(w)]) = Written(w)' - Taken(Other(w))'
        /\ Len(pipe'[w]) = Written(Other(w))' - Taken(w)'
      BY <1>2, <2>2, <2>3, <2>4
  <2> QED
      BY <2>5
<1>7. ASSUME NEW w \in Threads, Record(w)
      PROVE  Counted'
  <2>1. /\ pc[w] = "now" /\ iter[w] % 2 # w
        /\ iter'[w] = iter[w] + 1 /\ pc'[w] = "loop"
        /\ iter'[Other(w)] = iter[Other(w)]
        /\ pc'[Other(w)] = pc[Other(w)]
        /\ UNCHANGED pipe
      BY <1>1, <1>7
      DEF Record, NextIteration, Goto, TurnsLeft, Sends, channel
  <2>2. Written(w)' = Written(w) /\ Taken(w)' = Taken(w)
    <3>1. /\ (iter[w] + 1 + 1 - w) \div 2 = (iter[w] + 1 - w) \div 2
          /\ (iter[w] + 1 + w) \div 2 = (iter[w] + w) \div 2 + 1
        BY <1>2, <2>1, HalfTurns
    <3>2. Written(w)' = Written(w)
        BY <1>2, <2>1, <3>1 DEF Written
    <3>3. /\ Taken(w)' = (iter[w] + 1 + w) \div 2 + 0
          /\ Taken(w) = (iter[w] + w) \div 2 + 1
        BY <2>1, Zenon DEF Taken
    <3> QED
        BY <1>2, <3>1, <3>2, <3>3
  <2>3. Written(Other(w))' = Written(Other(w))
        /\ Taken(Other(w))' = Taken(Other(w))
      BY <2>1 DEF Written, Taken
  <2>4. /\ Len(pipe'[Other(w)]) = Written(w)' - Taken(Other(w))'
        /\ Len(pipe'[w]) = Written(Other(w))' - Taken(w)'
      BY <1>2, <2>1, <2>2, <2>3
  <2> QED
      BY <2>4
<1> QED
    BY <1>3, <1>4, <1>5, <1>6, <1>7 DEF Next, Worker

\* No pipe can hold two stamps: a worker reads one before it writes the next.
LEMMA CountsBoundPipes ==
    ASSUME TypeOK, Counted
    PROVE  AtMostOneInPipe
<1>1. /\ iter[0] \in Nat /\ iter[1] \in Nat
      /\ Len(pipe[0]) \in Nat /\ Len(pipe[1]) \in Nat
    BY HarnessAssumption DEF TypeOK, FrameTypeOK, Threads
<1>2. /\ Len(pipe[0]) = Written(1) - Taken(0)
      /\ Len(pipe[1]) = Written(0) - Taken(1)
    BY DEF Counted, Other, Threads
<1>3. /\ Written(0) = (iter[0] + 1) \div 2
      /\ Written(1) = iter[1] \div 2
      /\ Taken(0) = iter[0] \div 2 + (IF pc[0] = "now" THEN 1 ELSE 0)
      /\ Taken(1) = (iter[1] + 1) \div 2 + (IF pc[1] = "now" THEN 1 ELSE 0)
    BY <1>1 DEF Written, Taken
<1>4. iter[0] \div 2 <= iter[1] \div 2
    BY <1>1, <1>2, <1>3
<1>5. (iter[1] + 1) \div 2 <= (iter[0] + 1) \div 2
    BY <1>1, <1>2, <1>3
<1>6. iter[0] <= iter[1] + 1 /\ iter[1] <= iter[0] + 1
    BY <1>1, <1>4, <1>5
<1>7. /\ iter[1] \div 2 <= iter[0] \div 2 + 1
      /\ (iter[0] + 1) \div 2 <= (iter[1] + 1) \div 2 + 1
    BY <1>1, <1>6
<1>8. /\ Taken(0) \in Int /\ Taken(0) >= iter[0] \div 2
      /\ Taken(1) \in Int /\ Taken(1) >= (iter[1] + 1) \div 2
    BY <1>1, <1>3
<1>9. Len(pipe[0]) <= 1
  <2>1. Len(pipe[0]) <= iter[1] \div 2 - iter[0] \div 2
      BY <1>1, <1>2, <1>3, <1>8
  <2> QED
      BY <1>1, <1>7, <2>1
<1>10. Len(pipe[1]) <= 1
  <2>1. Len(pipe[1]) <= (iter[0] + 1) \div 2 - (iter[1] + 1) \div 2
      BY <1>1, <1>2, <1>3, <1>8
  <2> QED
      BY <1>1, <1>7, <2>1
<1> QED
    BY <1>9, <1>10 DEF AtMostOneInPipe, Threads

\* The invariant is inductive: a step of the control thread or of a worker of
\* --pipe, or no step at all, keeps it.
LEMMA PipeStep == PipeInv /\ [Next]_vars => PipeInv'
<1>1. ASSUME PipeInv, Next
      PROVE  PipeInv'
  <2>1. TypeOK' /\ Uncreated' /\ TurnsLeft' /\ Counted'
      BY <1>1, PipeType, UncreatedStep, TurnsLeftStep, CountedStep DEF PipeInv
  <2>2. AtMostOneInPipe'
      BY <2>1, CountsBoundPipes, PTL
  <2> QED
      BY <2>1, <2>2 DEF PipeInv
<1>2. PipeInv /\ UNCHANGED vars => PipeInv'
    BY DEF PipeInv, TypeOK, FrameTypeOK, Uncreated, TurnsLeft, Counted, AtMostOneInPipe,
           Sends, Written, Taken, vars, frameVars, mainVars, dataVars, channel
<1> QED
    BY <1>1, <1>2

\* A pipe holds what was written and not read (src/pingpong.c:542-579).
THEOREM PipeInvAlways == Spec => []PipeInv
BY PipeInit, PipeStep, PTL DEF Spec

\* No stamp queues behind another one (src/pingpong.c:552, 565), so a write
\* does not block.
THEOREM NoStampQueues == Spec => []AtMostOneInPipe
<1>1. PipeInv => AtMostOneInPipe
    BY DEF PipeInv
<1> QED
    BY <1>1, PipeInvAlways, PTL
-----------------------------------------------------------------------------
(***************************************************************************)
(* The rally                                                               *)
(***************************************************************************)

\* Nothing is in a pipe, and none is open, when the program begins.
LEMMA RallyInit == Init => RallyInv /\ R!Init
<1> SUFFICES ASSUME Init PROVE RallyInv /\ R!Init
    OBVIOUS
<1>1. FrameInit /\ ~start_work /\ mainPc = "create" /\ idx = 0
    BY DEF Init, FrameInit
<1>2. /\ \A w \in Threads : pc[w] = "none" /\ iter[w] = 0 /\ pipe[w] = <<>>
      /\ \A w \in Threads : pub[w] = 0 /\ rcv[w] = 0
    BY DEF Init, FrameInit, rcv
<1>3. PipeTellsBall /\ WorkerKnows /\ Opened
    BY <1>1, <1>2 DEF PipeTellsBall, WorkerKnows, Knows, Opened
<1> QED
    BY <1>1, <1>3, PipeInit, OrderInit, RallyBegins DEF RallyInv

\* A step that neither sends nor receives keeps the invariant if it touches
\* only one worker, who afterwards knows what it should.
LEMMA QuietStep ==
    ASSUME RallyInv, PipeInv', FrameInv', Opened', NEW w \in Threads,
           UNCHANGED <<iter, tsc, ds, pub, ball>>,
           \A v \in Threads \ {w} : /\ pc'[v] = pc[v] /\ reg'[v] = reg[v]
                                    /\ pipe'[v] = pipe[v],
           pipe'[w] # <<>> => MayCatch(w) /\ pipe'[w] = <<ball>>,
           pc'[w] = "now" =>
               MayCatch(w) /\ reg'[w] = ball /\ pipe'[w] = <<>>,
           pc'[w] = "write" => reg'[w] > tsc[w]
    PROVE  RallyInv' /\ UNCHANGED R!rallyVars
<1>1. /\ UNCHANGED rcv /\ UNCHANGED R!rallyVars /\ OneBall'
      /\ \A v : MayCatch(v)' <=> MayCatch(v)
    BY QuietKeepsRally DEF RallyInv
<1>2. PipeTellsBall'
    BY <1>1 DEF RallyInv, PipeTellsBall
<1>3. WorkerKnows'
    BY <1>1 DEF RallyInv, WorkerKnows, Knows
<1> QED
    BY <1>1, <1>2, <1>3 DEF RallyInv

\* The control thread opens a pipe before it creates its worker, and no one
\* closes one.
LEMMA OpenedStep ==
    ASSUME RallyInv, Next
    PROVE  Opened'
<1>1. open \in [Threads -> BOOLEAN] /\ FrameInv /\ Opened
    BY DEF RallyInv, PipeInv, TypeOK
<1>2. ASSUME NEW w \in Threads, Create(w)
      PROVE  Opened'
  <2>1. /\ mainPc = "create" /\ idx = w /\ idx' = w + 1 /\ UNCHANGED start_work
        /\ mainPc' = IF w = 1 THEN "start" ELSE "create"
        /\ open' = [open EXCEPT ![w] = TRUE]
      BY <1>2 DEF Create, CreateWorker
  <2>2. ~start_work
      BY <1>1, <2>1 DEF FrameInv
  <2>3. open'[w] = TRUE /\ \A v \in Threads \ {w} : open'[v] = open[v]
      BY <1>1, <2>1
  <2> QED
      BY <1>1, <2>1, <2>2, <2>3 DEF Opened, Threads
<1>3. CASE MainStep /\ UNCHANGED channel
    BY <1>1, <1>3
    DEF MainStep, StartWork, JoinWorker, Report, Opened, channel
<1>4. ASSUME NEW w \in Threads, Worker(w)
      PROVE  Opened'
  <2>1. UNCHANGED <<idx, start_work, open>> /\ mainPc' \in {mainPc, "aborted"}
      BY <1>4
      DEF Worker, FrameStep, Alloc, AwaitStart, Finalize, Stamp, TakeStamp,
          Write, Read, Record, RecordDelta, mainVars, channel
  <2> QED
      BY <1>1, <2>1 DEF Opened
<1>5. CASE Failure
  <2>1. UNCHANGED <<idx, start_work, open>> /\ mainPc' \in {mainPc, "failed"}
      BY <1>5
      DEF Failure, FrameFailure, MainFails, AllocFails, PipeFails, CallFails,
          ReturnNull, mainVars, channel
  <2> QED
      BY <1>1, <2>1 DEF Opened
<1> QED
    BY <1>2, <1>3, <1>4, <1>5 DEF Next, Main

\* A step of the loop leaves the order of the run.
LEMMA LoopKeepsOrder ==
    ASSUME RallyInv, NEW w \in Threads,
           Stamp(w) \/ Write(w) \/ Read(w) \/ Record(w)
    PROVE  /\ FrameInv'
           /\ \A v \in Threads \ {w} : pc'[v] = pc[v] /\ iter'[v] = iter[v]
<1>1. /\ FrameTypeOK(PipePcs) /\ FrameInv
      /\ pc \in [Threads -> {"none", "alloc", "await", "loop", "done"}
                               \cup PipePcs]
      /\ iter \in [Threads -> 0..N]
    BY DEF RallyInv, PipeInv, TypeOK, FrameTypeOK
<1>2. /\ pc[w] \in PipePcs \cup {"loop"}
      /\ UNCHANGED <<mainPc, idx, start_work, ret>>
      /\ UNCHANGED pc \/ \E to \in PipePcs \cup {"loop"} : Goto(w, to)
      /\ UNCHANGED iter \/ iter' = [iter EXCEPT ![w] = @ + 1]
  <2>1. CASE Stamp(w)
      BY <2>1 DEF Stamp, TakeStamp, AtSend, InLoop, PipePcs, mainVars
  <2>2. CASE Write(w) \/ Read(w) \/ Record(w)
      BY <2>2 DEF Write, Read, Record, RecordDelta, AtRecv, InLoop,
                  NextIteration, PipePcs, mainVars
  <2> QED
      BY <2>1, <2>2
<1>3. /\ \A v \in Threads \ {w} : pc'[v] = pc[v] /\ iter'[v] = iter[v]
      /\ pc'[w] \in PipePcs \cup {"loop"}
    BY <1>1, <1>2 DEF Goto
<1>4. \A v \in Threads \ {w} : ds'[v] = ds[v]
  <2>1. CASE Record(w)
      BY <1>1, <2>1, RecordDeltaType DEF Record
  <2>2. CASE ~Record(w)
      BY <2>2 DEF Stamp, TakeStamp, Write, Read
  <2> QED
      BY <2>1, <2>2
<1>5. Working(w) /\ Working(w)'
    BY <1>2, <1>3 DEF Working, PipePcs
<1>6. FrameInv'
    BY <1>1, <1>2, <1>3, <1>4, <1>5, WorkerKeepsOrder
<1> QED
    BY <1>3, <1>6

\* A worker's iterations are one more, as are the stamps it has sent and
\* received, and the other worker's are what they were.
LEMMA IterationCounts ==
    ASSUME RallyInv, NEW w \in Threads, NextIteration(w),
           \/ /\ pub'[w] = pub[w] + 1 /\ pub'[Other(w)] = pub[Other(w)]
              /\ rcv' = rcv
           \/ /\ rcv'[w] = rcv[w] + 1 /\ rcv'[Other(w)] = rcv[Other(w)]
              /\ pub' = pub
    PROVE  \A v \in Threads : iter'[v] = pub'[v] + rcv'[v]
<1>0. FrameTypeOK(PipePcs) /\ OneBall
    BY DEF RallyInv, PipeInv, TypeOK
<1>1. Other(w) # w /\ Threads = {w, Other(w)}
    BY <1>0, WhoseTurn
<1>2. rcv[w] \in Nat /\ pub[w] \in Nat
    BY <1>0, RallyTypes
<1>3. iter'[w] = iter[w] + 1 /\ iter'[Other(w)] = iter[Other(w)]
    BY <1>0, <1>1 DEF FrameTypeOK, NextIteration
<1>4. \A v \in Threads : iter[v] = pub[v] + rcv[v]
    BY DEF RallyInv, WorkerKnows, Knows
<1>5. iter'[w] = pub'[w] + rcv'[w]
    BY <1>2, <1>3, <1>4
<1>6. iter'[Other(w)] = pub'[Other(w)] + rcv'[Other(w)]
    BY <1>1, <1>3, <1>4
<1> QED
    BY <1>1, <1>5, <1>6

\* The step that writes a stamp to the other's pipe hits a ball.
LEMMA WriteHits ==
    ASSUME RallyInv, PipeInv', Opened', NEW w \in Threads, Write(w)
    PROVE  RallyInv' /\ R!Hit(w)
<1>0. FrameTypeOK(PipePcs) /\ OneBall /\ pipe \in [Threads -> Seq(Nat)]
    BY DEF RallyInv, PipeInv, TypeOK
<1>1. /\ iter[w] \in Nat
      /\ pc \in [Threads -> {"none", "alloc", "await", "loop", "done"}
                               \cup PipePcs]
    BY <1>0, HarnessAssumption DEF FrameTypeOK
<1>2. /\ pc[w] = "write" /\ Publish(w) /\ NextIteration(w)
      /\ pipe' = [pipe EXCEPT ![Other(w)] = Append(@, reg[w])]
      /\ pc' = [pc EXCEPT ![w] = "loop"]
      /\ UNCHANGED <<tsc, ds, reg>>
    BY DEF Write, NextIteration, Goto
<1>3. /\ iter[w] < N /\ iter[w] % 2 = w
      /\ reg[w] > tsc[w] /\ iter[w] = pub[w] + rcv[w]
    BY <1>2
    DEF RallyInv, PipeInv, TurnsLeft, Sends, WorkerKnows, Knows
<1>4. MayHit(w)
    BY <1>0, <1>1, <1>3, ParityTellsTurn
<1>5. /\ R!Hit(w) /\ OneBall' /\ rcv' = rcv
      /\ pub'[w] = pub[w] + 1 /\ pub'[Other(w)] = pub[Other(w)]
      /\ ball' = reg[w]
      /\ MayCatch(Other(w))' /\ ~MayCatch(w)'
    BY <1>0, <1>2, <1>3, <1>4, HitKeepsOneBall
<1>6. /\ Other(w) \in Threads /\ Other(w) # w /\ Threads = {w, Other(w)}
      /\ ~MayCatch(w) /\ ~MayCatch(Other(w)) /\ ~MayHit(Other(w))
    BY <1>0, <1>4, WhoseTurn
<1>7. FrameInv'
    BY LoopKeepsOrder
<1>8. /\ pipe[w] = <<>> /\ pipe[Other(w)] = <<>>
      /\ pc[Other(w)] # "now"
    BY <1>6 DEF RallyInv, PipeTellsBall
<1>9. /\ pipe'[w] = <<>> /\ pipe'[Other(w)] = <<ball'>>
      /\ pc'[w] = "loop" /\ pc'[Other(w)] = pc[Other(w)]
    BY <1>0, <1>1, <1>2, <1>5, <1>6, <1>8
<1>10. PipeTellsBall'
    BY <1>5, <1>6, <1>8, <1>9 DEF PipeTellsBall
<1>11. pc[Other(w)] # "write"
  <2>1. iter[Other(w)] = pub[Other(w)] + rcv[Other(w)]
      BY <1>6 DEF RallyInv, WorkerKnows, Knows
  <2>2. iter[Other(w)] \in Nat
      BY <1>0, <1>6, HarnessAssumption DEF FrameTypeOK
  <2>3. iter[Other(w)] % 2 # Other(w)
      BY <1>0, <1>6, <2>1, <2>2, ParityTellsTurn
  <2> QED
      BY <1>6, <2>3 DEF RallyInv, PipeInv, TurnsLeft, Sends
<1>12. WorkerKnows'
    BY <1>2, <1>5, <1>6, <1>9, <1>11, IterationCounts DEF WorkerKnows, Knows
<1> QED
    BY <1>5, <1>7, <1>10, <1>12 DEF RallyInv

\* The step that records a delta catches the ball.
LEMMA RecordCatches ==
    ASSUME RallyInv, PipeInv', Opened', NEW w \in Threads, Record(w)
    PROVE  RallyInv' /\ R!Catch(w)
<1>0. FrameTypeOK(PipePcs) /\ OneBall
    BY DEF RallyInv, PipeInv, TypeOK
<1>1. pc \in [Threads -> {"none", "alloc", "await", "loop", "done"}
                            \cup PipePcs]
    BY <1>0 DEF FrameTypeOK
<1>2. /\ pc[w] = "now" /\ RecordDelta(w) /\ NextIteration(w)
      /\ pc' = [pc EXCEPT ![w] = "loop"]
      /\ UNCHANGED <<pub, ball, reg, pipe>>
    BY DEF Record, RecordDelta, NextIteration, Goto, channel
<1>3. MayCatch(w) /\ reg[w] = ball /\ pipe[w] = <<>>
    BY <1>2 DEF RallyInv, PipeTellsBall
<1>4. /\ R!Catch(w) /\ OneBall'
      /\ rcv'[w] = rcv[w] + 1 /\ rcv'[Other(w)] = rcv[Other(w)]
      /\ ~MayCatch(w)' /\ ~MayCatch(Other(w))'
    BY <1>0, <1>2, <1>3, CatchKeepsOneBall
<1>5. /\ Other(w) \in Threads /\ Other(w) # w /\ Threads = {w, Other(w)}
      /\ ~MayCatch(Other(w)) /\ ~MayHit(Other(w))
    BY <1>0, <1>3, WhoseTurn
<1>6. FrameInv'
    BY LoopKeepsOrder
<1>7. pipe[Other(w)] = <<>> /\ pc[Other(w)] # "now"
    BY <1>5 DEF RallyInv, PipeTellsBall
<1>8. pc'[w] = "loop" /\ pc'[Other(w)] = pc[Other(w)]
    BY <1>1, <1>2, <1>5
<1>9. PipeTellsBall'
    BY <1>2, <1>3, <1>5, <1>7, <1>8 DEF PipeTellsBall
<1>10. pc[Other(w)] # "write"
  <2>1. iter[Other(w)] = pub[Other(w)] + rcv[Other(w)]
      BY <1>5 DEF RallyInv, WorkerKnows, Knows
  <2>2. iter[Other(w)] \in Nat
      BY <1>0, <1>5, HarnessAssumption DEF FrameTypeOK
  <2>3. iter[Other(w)] % 2 # Other(w)
      BY <1>0, <1>5, <2>1, <2>2, ParityTellsTurn
  <2> QED
      BY <1>5, <2>3 DEF RallyInv, PipeInv, TurnsLeft, Sends
<1>11. WorkerKnows'
    BY <1>2, <1>4, <1>5, <1>8, <1>10, IterationCounts DEF WorkerKnows, Knows
<1> QED
    BY <1>4, <1>6, <1>9, <1>11 DEF RallyInv

\* Each step of --pipe keeps the invariant, and to the rally it is a hit, a
\* catch or no step.
LEMMA RallyStep ==
    ASSUME RallyInv, Next
    PROVE  RallyInv' /\ (R!Next \/ UNCHANGED R!rallyVars)
<1>1. PipeInv' /\ Opened'
    BY PipeStep, OpenedStep DEF RallyInv
<1>2. /\ pc \in [Threads -> {"none", "alloc", "await", "loop", "done"}
                               \cup PipePcs]
      /\ reg \in [Threads -> Nat]
      /\ pipe \in [Threads -> Seq(Nat)]
    BY DEF RallyInv, PipeInv, TypeOK, FrameTypeOK
<1>3. FrameTypeOK(PipePcs) /\ FrameInv
    BY DEF RallyInv, PipeInv, TypeOK
<1>4. \A v \in Threads :
          /\ pipe[v] # <<>> => MayCatch(v) /\ pipe[v] = <<ball>>
          /\ pc[v] = "now" => MayCatch(v) /\ reg[v] = ball /\ pipe[v] = <<>>
          /\ pc[v] = "write" => reg[v] > tsc[v]
    BY DEF RallyInv, PipeTellsBall, WorkerKnows, Knows
<1>5. CASE \E w \in Threads : Write(w)
    BY <1>1, <1>5, WriteHits DEF R!Next, R!Threads, Threads
<1>6. CASE \E w \in Threads : Record(w)
    BY <1>1, <1>6, RecordCatches DEF R!Next, R!Threads, Threads
<1>7. ASSUME NEW w \in Threads,
             UNCHANGED <<iter, tsc, reg, ds, pub, ball, pipe>>,
             \/ UNCHANGED pc
             \/ \E to \in {"alloc", "await", "loop", "done"} : Goto(w, to),
             FrameInv'
      PROVE  RallyInv' /\ UNCHANGED R!rallyVars
  <2>1. /\ pc'[w] \in {pc[w], "alloc", "await", "loop", "done"}
        /\ \A v \in Threads \ {w} : pc'[v] = pc[v]
      BY <1>2, <1>7 DEF Goto
  <2> QED
      BY <1>1, <1>4, <1>7, <2>1, QuietStep
<1>8. ASSUME NEW w \in Threads, Create(w)
      PROVE  RallyInv' /\ UNCHANGED R!rallyVars
  <2>1. UNCHANGED <<iter, tsc, reg, ds, pub, ball, pipe>> /\ Goto(w, "alloc")
      BY <1>8 DEF Create, CreateWorker, dataVars
  <2>2. FrameInv'
      BY <1>3, <1>8, MainKeepsOrder DEF Create
  <2> QED
      BY <1>7, <2>1, <2>2
<1>9. ASSUME MainStep, UNCHANGED channel
      PROVE  RallyInv' /\ UNCHANGED R!rallyVars
  <2>1. UNCHANGED <<iter, tsc, reg, ds, pub, ball, pipe, pc>>
      BY <1>9 DEF MainStep, StartWork, JoinWorker, Report, dataVars, channel
  <2>2. FrameInv'
      BY <1>3, <1>9, MainKeepsOrder
  <2> QED
      BY <1>7, <2>1, <2>2 DEF Threads
<1>10. ASSUME NEW w \in Threads, FrameStep(w), UNCHANGED channel
       PROVE  RallyInv' /\ UNCHANGED R!rallyVars
  <2>1. /\ UNCHANGED <<iter, tsc, reg, ds, pub, ball, pipe>>
        /\ UNCHANGED pc \/ \E to \in {"await", "loop", "done"} : Goto(w, to)
      BY <1>10 DEF FrameStep, Alloc, AwaitStart, Finalize, dataVars, channel
  <2>2. FrameInv'
      BY <1>3, <1>10, FrameStepKeepsOrder
  <2> QED
      BY <1>7, <2>1, <2>2
<1>11. ASSUME NEW w \in Threads, Stamp(w)
       PROVE  RallyInv' /\ UNCHANGED R!rallyVars
  <2>1. UNCHANGED <<iter, tsc, ds, pub, ball, pipe>> /\ pc[w] = "loop"
      BY <1>11 DEF Stamp, TakeStamp, AtSend, InLoop, channel
  <2>2. /\ \/ UNCHANGED <<reg, pc>>
           \/ reg'[w] > tsc[w] /\ pc' = [pc EXCEPT ![w] = "write"]
        /\ \A v \in Threads \ {w} : reg'[v] = reg[v]
      BY <1>3, <1>11, TakeStampType DEF Stamp, PipePcs, Goto
  <2>3. \/ pc'[w] = "loop"
        \/ pc'[w] = "write" /\ reg'[w] > tsc[w]
    <3>1. CASE UNCHANGED <<reg, pc>>
        BY <2>1, <3>1
    <3>2. CASE reg'[w] > tsc[w] /\ pc' = [pc EXCEPT ![w] = "write"]
        BY <1>2, <3>2
    <3> QED
        BY <2>2, <3>1, <3>2
  <2>4. FrameInv' /\ \A v \in Threads \ {w} : pc'[v] = pc[v]
      BY <1>11, LoopKeepsOrder
  <2> QED
      BY <1>1, <1>4, <2>1, <2>2, <2>3, <2>4, QuietStep
<1>12. ASSUME NEW w \in Threads, Read(w)
       PROVE  RallyInv' /\ UNCHANGED R!rallyVars
  <2>1. /\ UNCHANGED <<iter, tsc, ds, pub, ball>>
        /\ pipe[w] # <<>> /\ pc' = [pc EXCEPT ![w] = "now"]
        /\ reg' = [reg EXCEPT ![w] = Head(pipe[w])]
        /\ pipe' = [pipe EXCEPT ![w] = Tail(@)]
      BY <1>12 DEF Read, Goto
  <2>2. MayCatch(w) /\ pipe[w] = <<ball>>
      BY <1>4, <2>1
  <2>3. /\ pc'[w] = "now" /\ reg'[w] = ball /\ pipe'[w] = <<>>
        /\ \A v \in Threads \ {w} : /\ pc'[v] = pc[v] /\ reg'[v] = reg[v]
                                    /\ pipe'[v] = pipe[v]
    <3>1. Head(<<ball>>) = ball /\ Tail(<<ball>>) = <<>>
        OBVIOUS
    <3> QED
        BY <1>2, <2>1, <2>2, <3>1
  <2>4. FrameInv'
      BY <1>12, LoopKeepsOrder
  <2> QED
      BY <1>1, <2>1, <2>2, <2>3, <2>4, QuietStep
<1>13. ASSUME MainFails, UNCHANGED channel
       PROVE  RallyInv' /\ UNCHANGED R!rallyVars
  <2>1. UNCHANGED <<iter, tsc, reg, ds, pub, ball, pipe, pc>>
      BY <1>13 DEF MainFails, dataVars, channel
  <2>2. FrameInv'
      BY <1>3, <1>13, FrameFailureKeepsOrder DEF FrameFailure
  <2> QED
      BY <1>7, <2>1, <2>2 DEF Threads
<1>14. ASSUME NEW w \in Threads, AllocFails(w) \/ PipeFails(w),
              UNCHANGED channel
       PROVE  RallyInv' /\ UNCHANGED R!rallyVars
  <2>1. ReturnNull(w) /\ pc[w] \notin {"none", "done"}
      BY <1>14 DEF AllocFails, PipeFails, CallFails
  <2>2. UNCHANGED <<iter, tsc, reg, ds, pub, ball, pipe>> /\ Goto(w, "done")
      BY <1>14, <2>1 DEF ReturnNull, channel
  <2>3. FrameInv'
      BY <1>3, <2>1, ReturnNullKeepsOrder
  <2> QED
      BY <1>7, <2>2, <2>3
<1>15. CASE Failure
    BY <1>13, <1>14, <1>15 DEF Failure, FrameFailure, PipeFails
<1> QED
    BY <1>5, <1>6, <1>8, <1>9, <1>10, <1>11, <1>12, <1>15
    DEF Next, Main, Worker

\* The invariant behind the rally holds at all times.
THEOREM RallyInvAlways == Spec => []RallyInv
<1>1. RallyInv /\ UNCHANGED vars => RallyInv'
  <2> SUFFICES ASSUME RallyInv, UNCHANGED vars PROVE RallyInv'
      OBVIOUS
  <2>1. PipeInv'
      BY PipeStep DEF RallyInv
  <2>2. FrameInv' /\ Opened'
      BY DEF RallyInv, FrameInv, Opened, Working, vars, frameVars, mainVars,
             dataVars, channel
  <2> QED
      BY <2>1, <2>2, QuietStep
      DEF RallyInv, PipeTellsBall, WorkerKnows, Knows, Threads, vars,
          frameVars, dataVars, channel
<1> QED
    BY RallyInit, RallyStep, <1>1, PTL DEF Spec

\* The pipe method (src/pingpong.c:534-582) implements the rally: what is read
\* from a pipe is the stamp of the other worker's turn before, once.
THEOREM PipeImplementsRally == Spec => ImplementsRally
<1>1. RallyInv /\ [Next]_vars => [R!Next]_(R!rallyVars)
  <2>1. UNCHANGED vars => UNCHANGED R!rallyVars
      BY QuietKeepsRally DEF vars, frameVars, dataVars
  <2> QED
      BY <2>1, RallyStep
<1> QED
    BY RallyInit, <1>1, RallyInvAlways, PTL DEF Spec, ImplementsRally, R!Spec

\* No worker touches a pipe before both are open (src/pingpong.c:65, 839): the
\* worker 0 that is created first waits for start_work.
THEOREM NothingUsedEarly == Spec => []NoEarlyUse
<1>1. RallyInv => NoEarlyUse
    BY DEF RallyInv, FrameInv, Opened, NoEarlyUse, AtRecv, InLoop, Working
<1> QED
    BY RallyInvAlways, <1>1, PTL

\* The report (src/pingpong.c:876-895) prints all the deltas of both workers.
THEOREM ReportAlwaysComplete == Spec => []ReportIsComplete
<1>1. RallyInv => ReportIsComplete
    BY ReportHasAllDeltas DEF RallyInv, PipeInv, TypeOK, WorkerKnows, Knows
<1> QED
    BY RallyInvAlways, <1>1, PTL

\* With an even -n the assertion of spin_main_finalize (src/pingpong.c:260)
\* cannot fail.
THEOREM DeltasFitEven == N % 2 = 0 => (Spec => []DeltasFit)
<1> SUFFICES ASSUME N % 2 = 0 PROVE Spec => []DeltasFit
    OBVIOUS
<1>1. RallyInv => DeltasFit
    BY BallsFitArrays DEF RallyInv, PipeInv, TypeOK
<1> QED
    BY RallyInvAlways, <1>1, PTL

\* A stamp is taken after all latencies so far were over, and the one it begins
\* ends with the read (src/pingpong.c:546-579).
LEMMA LatencyStep ==
    ASSUME RallyInv, InTime({"write"}), Next
    PROVE  InTime({"write"})'
<1>1. /\ FrameTypeOK(PipePcs) /\ OneBall
      /\ clock \in Nat /\ reg \in [Threads -> Nat]
      /\ pc \in [Threads -> {"none", "alloc", "await", "loop", "done"}
                               \cup PipePcs]
    BY DEF RallyInv, PipeInv, TypeOK, FrameTypeOK
<1>2. RallyInv'
    BY RallyStep
<1>3. reg' \in [Threads -> Nat]
    BY <1>2 DEF RallyInv, PipeInv, TypeOK, FrameTypeOK
<1>4. ASSUME UNCHANGED <<ds, pub, ball, clock>>,
             \A w \in Threads :
                 pc'[w] = "write" => pc[w] = "write" /\ reg'[w] = reg[w]
      PROVE  InTime({"write"})'
    BY <1>1, <1>3, <1>4, InTimeQuiet
<1>5. ASSUME UNCHANGED <<ds, pub, ball, clock, reg>>,
             \/ UNCHANGED pc
             \/ \E w \in Threads, to \in {"alloc", "await", "loop", "done"} : Goto(w, to)
      PROVE  InTime({"write"})'
    BY <1>1, <1>4, <1>5 DEF Goto
<1>6. CASE Main
    BY <1>5, <1>6
    DEF Main, Create, CreateWorker, MainStep, StartWork, JoinWorker, Report,
        dataVars, Threads
<1>7. CASE Failure
    BY <1>5, <1>7
    DEF Failure, FrameFailure, MainFails, AllocFails, PipeFails, CallFails,
        ReturnNull, dataVars
<1>8. ASSUME NEW w \in Threads, FrameStep(w)
      PROVE  InTime({"write"})'
    BY <1>5, <1>8 DEF FrameStep, Alloc, AwaitStart, Finalize, dataVars
<1>9. ASSUME NEW w \in Threads, Stamp(w)
      PROVE  InTime({"write"})'
    BY <1>1, <1>9, InTimeStamp DEF Stamp
<1>10. ASSUME NEW w \in Threads, Write(w)
       PROVE  InTime({"write"})'
  <2>1. /\ pc[w] = "write" /\ Publish(w) /\ UNCHANGED <<ds, reg, clock>>
        /\ pc' = [pc EXCEPT ![w] = "loop"]
      BY <1>10 DEF Write, NextIteration, Goto
  <2>2. \A v \in Threads : pc'[v] = "write" => pc[v] = "write"
      BY <1>1, <2>1
  <2> QED
      BY <2>1, <2>2, InTimePublish
<1>11. ASSUME NEW w \in Threads, Read(w)
       PROVE  InTime({"write"})'
  <2>1. /\ UNCHANGED <<ds, pub, ball, clock>>
        /\ pc' = [pc EXCEPT ![w] = "now"]
        /\ reg' = [reg EXCEPT ![w] = Head(pipe[w])]
      BY <1>11 DEF Read, Goto
  <2> QED
      BY <1>1, <1>4, <2>1
<1>12. ASSUME NEW w \in Threads, Record(w)
       PROVE  InTime({"write"})'
  <2>1. pc[w] = "now" /\ RecordDelta(w) /\ pc' = [pc EXCEPT ![w] = "loop"]
      BY <1>12 DEF Record, NextIteration, Goto
  <2>2. MayCatch(w) /\ reg[w] = ball
      BY <2>1 DEF RallyInv, PipeTellsBall
  <2>3. ASSUME NEW v \in Threads, pc[v] = "write" PROVE MayHit(v)
    <3>1. iter[v] = pub[v] + rcv[v] /\ iter[v] % 2 = v
        BY <2>3 DEF RallyInv, WorkerKnows, Knows, PipeInv, TurnsLeft, Sends
    <3>2. iter[v] \in Nat
        BY <1>1, HarnessAssumption DEF FrameTypeOK
    <3> QED
        BY <1>1, <3>1, <3>2, ParityTellsTurn
  <2>4. \A v \in Threads : ~MayHit(v)
      BY <1>1, <2>2, WhoseTurn
  <2>5. \A v \in Threads : pc'[v] # "write"
      BY <1>1, <2>1, <2>3, <2>4
  <2> QED
      BY <1>1, <2>1, <2>2, <2>5, InTimeRecord
<1> QED
    BY <1>6, <1>7, <1>8, <1>9, <1>10, <1>11, <1>12 DEF Next, Worker

\* The invariant behind the latencies holds at all times.
THEOREM LatencyInvAlways == Spec => []LatencyInv
<1>1. Init => InTime({"write"})
    BY InTimeInit DEF Init
<1>2. RallyInv /\ InTime({"write"}) /\ [Next]_vars => InTime({"write"})'
  <2> SUFFICES ASSUME RallyInv, InTime({"write"}), UNCHANGED vars
               PROVE  InTime({"write"})'
      BY LatencyStep
  <2> QED
      BY DEF InTime, LatenciesDisjoint, SpentAt, MayCatch, rcv, vars, frameVars,
             dataVars
<1> QED
    BY RallyInvAlways, <1>1, <1>2, PTL DEF Spec, LatencyInv

\* With synchronized TSCs the latencies of --pipe (src/pingpong.c:542-579) do
\* not overlap: together they are not longer than the program ran.
THEOREM NoLatencyOverlaps == OneTsc => (Spec => []LatenciesDisjoint)
<1> SUFFICES ASSUME OneTsc PROVE Spec => []LatenciesDisjoint
    OBVIOUS
<1>1. LatencyInv => LatenciesDisjoint
    BY DEF LatencyInv, InTime
<1> QED
    BY LatencyInvAlways, <1>1, PTL
=============================================================================
