----------------------------- MODULE SpinProofs -----------------------------
(***************************************************************************)
(* The spinning methods of src/pingpong.c implement the rally, for every   *)
(* number of iterations, every set of TSC offsets, with and without a      *)
(* pause, and whatever calls fail.                                         *)
(***************************************************************************)
EXTENDS Spin, HarnessProofs

\* The part of the type invariant that most steps need.
LEMMA SpinTypes ==
    TypeOK => /\ pc \in [Threads -> {"none", "alloc", "await", "loop", "done"}
                                       \cup SpinPcs]
              /\ iter \in [Threads -> 0..N]
              /\ tsc \in [Threads -> Nat]
              /\ reg \in [Threads -> Nat]
              /\ pub \in [Threads -> Nat]
              /\ cell \in [Threads -> Nat]
              /\ rcv \in [Threads -> Nat]
              /\ ball \in Nat
<1> SUFFICES ASSUME TypeOK PROVE rcv \in [Threads -> Nat]
    BY DEF TypeOK, FrameTypeOK
<1>1. ds \in [Threads -> Seq(0..(Wrap - 1))]
    BY DEF TypeOK, FrameTypeOK
<1>2. \A w \in Threads : Len(ds[w]) \in Nat
    BY <1>1
<1> QED
    BY <1>2 DEF rcv

\* Before the first ball is hit the cells hold no stamp.
LEMMA RallyInit == Init => RallyInv /\ R!Init
<1> SUFFICES ASSUME Init PROVE RallyInv /\ R!Init
    OBVIOUS
<1>1. /\ cell = [w \in Threads |-> 0]
      /\ pc = [w \in Threads |-> "none"]
      /\ iter = [w \in Threads |-> 0]
      /\ tsc = [w \in Threads |-> 1]
      /\ pub = [w \in Threads |-> 0]
      /\ FrameInit
    BY DEF Init, FrameInit
<1>2. \A w \in Threads : rcv[w] = 0
    BY DEF Init, FrameInit, rcv
<1>3. TypeOK
    BY <1>1, FrameInitType DEF TypeOK
<1>4. CellTellsBall /\ WorkerKnows
    BY <1>1, <1>2 DEF CellTellsBall, WorkerKnows, MayCatch, Other, Threads
<1> QED
    BY <1>1, <1>3, <1>4, OrderInit, RallyBegins DEF RallyInv

\* Every step keeps the types; the counter stays within the iterations
\* because a worker only stores or records with one of them left.
LEMMA SpinType ==
    ASSUME TypeOK, WorkerKnows, Next
    PROVE  TypeOK'
<1> USE DEF TypeOK, SpinPcs
<1>1. CASE Main
    BY <1>1, MainType DEF Main
<1>2. ASSUME NEW w \in Threads, Worker(w)
      PROVE  TypeOK'
  <2>1. CASE FrameStep(w) /\ UNCHANGED cell
      BY <2>1, FrameStepType
  <2>2. CASE Stamp(w)
      BY <2>2, TakeStampType DEF Stamp
  <2>3. CASE StoreCell(w)
    <3>1. iter[w] < N
        BY <2>3 DEF StoreCell, WorkerKnows
    <3>2. iter' \in [Threads -> 0..N]
        BY <2>3, <3>1, HarnessAssumption DEF StoreCell, NextIteration, FrameTypeOK
    <3>3. /\ pub' \in [Threads -> Nat]
          /\ ball' \in Nat
          /\ cell' \in [Threads -> Nat]
        BY <2>3 DEF StoreCell, Publish, FrameTypeOK, Threads, Other
    <3>4. pc' \in [Threads -> {"none", "alloc", "await", "loop", "done"}
                                  \cup SpinPcs]
        BY <2>3 DEF StoreCell, NextIteration, Goto, FrameTypeOK
    <3> QED
        BY <2>3, <3>2, <3>3, <3>4 DEF StoreCell, FrameTypeOK, mainVars
  <2>4. CASE PollHit(w)
      BY <2>4 DEF PollHit, Goto, FrameTypeOK, mainVars
  <2>5. CASE PollMiss(w) \/ Pause(w)
      BY <2>5 DEF PollMiss, Pause, Goto, FrameTypeOK, mainVars, dataVars
  <2>6. CASE Record(w)
    <3>1. iter[w] < N
        BY <2>6 DEF Record, WorkerKnows
    <3>2. iter' \in [Threads -> 0..N]
        BY <2>6, <3>1, HarnessAssumption DEF Record, NextIteration, FrameTypeOK
    <3>3. /\ clock' \in Nat
          /\ ds' \in [Threads -> Seq(0..(Wrap - 1))]
          /\ tsc' \in [Threads -> Nat]
        BY <2>6, RecordDeltaType DEF Record
    <3> QED
        BY <2>6, <3>2, <3>3
        DEF Record, RecordDelta, NextIteration, Goto, FrameTypeOK, mainVars
  <2> QED
      BY <1>2, <2>1, <2>2, <2>3, <2>4, <2>5, <2>6 DEF Worker
<1>3. CASE FrameFailure /\ UNCHANGED cell
    BY <1>3, FrameFailureType
<1> QED
    BY <1>1, <1>2, <1>3 DEF Next

\* A step that leaves the counters, the stamps received and the cells alone
\* keeps what the invariant says of them.
LEMMA QuietStep ==
    ASSUME RallyInv, TypeOK', FrameInv',
           UNCHANGED <<iter, tsc, ds, pub, ball, cell>>,
           \A w \in Threads :
               /\ pc'[w] = "store" =>
                     \/ pc[w] = "store" /\ reg'[w] = reg[w]
                     \/ iter[w] < N /\ Sends(w) /\ reg'[w] > tsc[w]
               /\ pc'[w] = "now" =>
                     \/ pc[w] = "now" /\ reg'[w] = reg[w]
                     \/ iter[w] < N /\ MayCatch(w) /\ reg'[w] = ball
    PROVE  RallyInv' /\ UNCHANGED R!rallyVars
<1>1. /\ UNCHANGED rcv /\ UNCHANGED R!rallyVars /\ OneBall'
      /\ \A w : MayCatch(w)' <=> MayCatch(w)
    BY QuietKeepsRally DEF RallyInv
<1>2. \A w : Sends(w)' <=> Sends(w)
    BY DEF Sends
<1>3. CellTellsBall'
    BY <1>1 DEF RallyInv, CellTellsBall
<1>4. WorkerKnows'
    BY <1>1, <1>2 DEF RallyInv, WorkerKnows
<1> QED
    BY <1>1, <1>3, <1>4 DEF RallyInv

\* The step that stores a stamp in the cell hits a ball.
LEMMA StoreHits ==
    ASSUME RallyInv, NEW w \in Threads, StoreCell(w), TypeOK'
    PROVE  RallyInv' /\ R!Hit(w)
<1>1. /\ FrameTypeOK(SpinPcs) /\ OneBall /\ FrameInv
      /\ pc \in [Threads -> {"none", "alloc", "await", "loop", "done"}
                               \cup SpinPcs]
      /\ iter \in [Threads -> 0..N]
      /\ cell \in [Threads -> Nat]
    BY DEF RallyInv, TypeOK, FrameTypeOK
<1>2. /\ pc[w] = "store" /\ iter[w] % 2 = w /\ iter[w] < N
      /\ reg[w] > tsc[w] /\ iter[w] = pub[w] + rcv[w] /\ iter[w] \in Nat
    BY <1>1 DEF StoreCell, RallyInv, WorkerKnows, Sends
<1>3. MayHit(w)
    BY <1>1, <1>2, ParityTellsTurn
<1>4. /\ Publish(w)
      /\ cell' = [cell EXCEPT ![Other(w)] = reg[w]]
      /\ iter' = [iter EXCEPT ![w] = @ + 1]
      /\ pc' = [pc EXCEPT ![w] = "loop"]
      /\ UNCHANGED <<mainVars, tsc, reg, ds, ret>>
    BY DEF StoreCell, NextIteration, Goto
<1>5. /\ R!Hit(w) /\ OneBall' /\ rcv' = rcv
      /\ pub'[w] = pub[w] + 1 /\ pub'[Other(w)] = pub[Other(w)]
      /\ ball' = reg[w] /\ ball' > ball
      /\ MayCatch(Other(w))' /\ ~MayCatch(w)'
    BY <1>1, <1>2, <1>3, <1>4, HitKeepsOneBall
<1>6. /\ Other(w) \in Threads /\ Other(w) # w /\ Threads = {w, Other(w)}
      /\ ~MayCatch(w) /\ ~MayCatch(Other(w)) /\ ~MayHit(Other(w))
    BY <1>1, <1>3, WhoseTurn
<1>7. FrameInv'
    BY <1>1, <1>2, <1>4, WorkerKeepsOrder DEF Working, mainVars
<1>8. CellTellsBall'
  <2>1. cell'[Other(w)] = ball' /\ cell'[w] = cell[w]
      BY <1>1, <1>4, <1>5, <1>6
  <2>2. cell[w] <= tsc[w]
      BY <1>6 DEF RallyInv, CellTellsBall
  <2> QED
      BY <1>4, <1>5, <1>6, <2>1, <2>2 DEF CellTellsBall
<1>9. WorkerKnows'
  <2>1. iter'[w] = iter[w] + 1 /\ iter'[Other(w)] = iter[Other(w)]
        /\ pc'[w] = "loop" /\ pc'[Other(w)] = pc[Other(w)]
      BY <1>1, <1>4, <1>6
  <2>2. pc[Other(w)] # "now"
      BY <1>6 DEF RallyInv, WorkerKnows
  <2>3. pc[Other(w)] # "store"
    <3>1. iter[Other(w)] = pub[Other(w)] + rcv[Other(w)] /\ iter[Other(w)] \in Nat
        BY <1>1, <1>6 DEF RallyInv, WorkerKnows
    <3>2. iter[Other(w)] % 2 # Other(w)
        BY <1>1, <1>6, <3>1, ParityTellsTurn
    <3> QED
        BY <1>6, <3>2 DEF RallyInv, WorkerKnows, Sends
  <2>4. \A v \in Threads : iter'[v] = pub'[v] + rcv'[v]
    <3>1. rcv[w] \in Nat /\ pub[w] \in Nat
        BY <1>1, RallyTypes
    <3>2. iter'[w] = pub'[w] + rcv'[w]
        BY <1>2, <1>5, <2>1, <3>1
    <3>3. iter'[Other(w)] = pub'[Other(w)] + rcv'[Other(w)]
        BY <1>5, <1>6, <2>1 DEF RallyInv, WorkerKnows
    <3> QED
        BY <1>6, <3>2, <3>3
  <2> QED
      BY <1>6, <2>1, <2>2, <2>3, <2>4 DEF WorkerKnows
<1> QED
    BY <1>5, <1>7, <1>8, <1>9 DEF RallyInv

\* The step that records a delta catches the ball.
LEMMA RecordCatches ==
    ASSUME RallyInv, NEW w \in Threads, Record(w), TypeOK'
    PROVE  RallyInv' /\ R!Catch(w)
<1>1. /\ FrameTypeOK(SpinPcs) /\ OneBall /\ FrameInv
      /\ pc \in [Threads -> {"none", "alloc", "await", "loop", "done"}
                               \cup SpinPcs]
      /\ iter \in [Threads -> 0..N]
    BY DEF RallyInv, TypeOK, FrameTypeOK
<1>2. /\ pc[w] = "now" /\ iter[w] < N /\ MayCatch(w) /\ reg[w] = ball
      /\ iter[w] = pub[w] + rcv[w] /\ iter[w] \in Nat
    BY <1>1 DEF Record, RallyInv, WorkerKnows
<1>3. /\ RecordDelta(w)
      /\ iter' = [iter EXCEPT ![w] = @ + 1]
      /\ pc' = [pc EXCEPT ![w] = "loop"]
      /\ UNCHANGED <<mainVars, pub, ball, cell, reg, ret>>
    BY DEF Record, RecordDelta, NextIteration, Goto
<1>4. /\ R!Catch(w) /\ OneBall'
      /\ rcv'[w] = rcv[w] + 1 /\ rcv'[Other(w)] = rcv[Other(w)]
      /\ ~MayCatch(w)' /\ ~MayCatch(Other(w))'
    BY <1>1, <1>2, <1>3, CatchKeepsOneBall
<1>5. /\ Other(w) \in Threads /\ Other(w) # w /\ Threads = {w, Other(w)}
      /\ ~MayCatch(Other(w)) /\ ~MayHit(Other(w))
    BY <1>1, <1>2, WhoseTurn
<1>6. /\ \A v \in Threads \ {w} : ds'[v] = ds[v] /\ tsc'[v] = tsc[v]
      /\ tsc'[w] = ball
    BY <1>1, <1>2, <1>3, RecordDeltaType
<1>7. FrameInv'
    BY <1>1, <1>2, <1>3, <1>6, WorkerKeepsOrder DEF Working, mainVars
<1>8. CellTellsBall'
  <2>1. cell[w] = ball /\ cell[Other(w)] <= tsc[Other(w)]
      BY <1>2, <1>5 DEF RallyInv, CellTellsBall
  <2>2. ball \in Nat
      BY <1>1, RallyTypes
  <2> QED
      BY <1>3, <1>4, <1>5, <1>6, <2>1, <2>2 DEF CellTellsBall
<1>9. WorkerKnows'
  <2>1. iter'[w] = iter[w] + 1 /\ iter'[Other(w)] = iter[Other(w)]
        /\ pc'[w] = "loop" /\ pc'[Other(w)] = pc[Other(w)]
      BY <1>1, <1>3, <1>5
  <2>2. pc[Other(w)] # "now"
      BY <1>5 DEF RallyInv, WorkerKnows
  <2>3. pc[Other(w)] # "store"
    <3>1. iter[Other(w)] = pub[Other(w)] + rcv[Other(w)] /\ iter[Other(w)] \in Nat
        BY <1>1, <1>5 DEF RallyInv, WorkerKnows
    <3>2. iter[Other(w)] % 2 # Other(w)
        BY <1>1, <1>5, <3>1, ParityTellsTurn
    <3> QED
        BY <1>5, <3>2 DEF RallyInv, WorkerKnows, Sends
  <2>4. \A v \in Threads : iter'[v] = pub'[v] + rcv'[v]
      BY <1>1, <1>2, <1>3, <1>4, <1>5, <2>1, RallyTypes DEF RallyInv, WorkerKnows
  <2> QED
      BY <1>5, <2>1, <2>2, <2>3, <2>4 DEF WorkerKnows
<1> QED
    BY <1>4, <1>7, <1>8, <1>9 DEF RallyInv

\* Each step of --spin keeps the invariant, and to the rally it is a hit, a
\* catch or no step.
LEMMA RallyStep ==
    ASSUME RallyInv, Next
    PROVE  RallyInv' /\ (R!Next \/ UNCHANGED R!rallyVars)
<1>1. TypeOK'
    BY SpinType DEF RallyInv
<1>2. /\ pc \in [Threads -> {"none", "alloc", "await", "loop", "done"}
                               \cup SpinPcs]
      /\ reg \in [Threads -> Nat]
      /\ tsc \in [Threads -> Nat]
      /\ cell \in [Threads -> Nat]
      /\ FrameTypeOK(SpinPcs) /\ FrameInv
    BY SpinTypes DEF RallyInv, TypeOK
<1>3. CASE \E w \in Threads : StoreCell(w)
    BY <1>1, <1>3, StoreHits DEF R!Next, R!Threads, Threads
<1>4. CASE \E w \in Threads : Record(w)
    BY <1>1, <1>4, RecordCatches DEF R!Next, R!Threads, Threads
<1>5. CASE Main
  <2>1. UNCHANGED <<iter, tsc, ds, pub, ball, cell, reg>>
      BY <1>5
      DEF Main, CreateWorker, MainStep, StartWork, JoinWorker, Report, dataVars
  <2>2. \A v \in Threads : pc'[v] \in {pc[v], "alloc"}
      BY <1>2, <1>5
      DEF Main, CreateWorker, MainStep, StartWork, JoinWorker, Report, Goto
  <2>3. FrameInv'
      BY <1>2, <1>5, MainKeepsOrder DEF Main
  <2> QED
      BY <1>1, <2>1, <2>2, <2>3, QuietStep
<1>6. ASSUME NEW w \in Threads, FrameStep(w), UNCHANGED cell
      PROVE  RallyInv' /\ UNCHANGED R!rallyVars
  <2>1. UNCHANGED <<iter, tsc, ds, pub, ball, cell, reg>>
      BY <1>6 DEF FrameStep, Alloc, AwaitStart, Finalize, dataVars
  <2>2. \A v \in Threads : pc'[v] \in {pc[v], "await", "loop", "done"}
      BY <1>2, <1>6 DEF FrameStep, Alloc, AwaitStart, Finalize, Goto
  <2>3. FrameInv'
      BY <1>2, <1>6, FrameStepKeepsOrder
  <2> QED
      BY <1>1, <2>1, <2>2, <2>3, QuietStep
<1>7. ASSUME NEW w \in Threads, PollMiss(w) \/ Pause(w)
      PROVE  RallyInv' /\ UNCHANGED R!rallyVars
  <2>1. /\ UNCHANGED <<mainVars, iter, tsc, ds, pub, ball, cell, reg, ret>>
        /\ pc[w] \in {"loop", "pause"}
        /\ \/ pc' = [pc EXCEPT ![w] = "pause"]
           \/ pc' = [pc EXCEPT ![w] = "loop"]
      BY <1>7 DEF PollMiss, Pause, AtRecv, InLoop, Goto, dataVars
  <2>2. /\ pc'[w] \in {"loop", "pause"}
        /\ \A v \in Threads \ {w} : pc'[v] = pc[v]
      BY <1>2, <2>1
  <2>3. FrameInv'
      BY <1>2, <2>1, <2>2, WorkerKeepsOrder DEF Working, mainVars
  <2> QED
      BY <1>1, <2>1, <2>2, <2>3, QuietStep
<1>8. ASSUME NEW w \in Threads, Stamp(w)
      PROVE  RallyInv' /\ UNCHANGED R!rallyVars
  <2>1. UNCHANGED <<mainVars, iter, tsc, ds, ret, pub, ball, cell>>
      BY <1>8 DEF Stamp, TakeStamp
  <2>2. Sends(w) /\ iter[w] < N /\ pc[w] = "loop"
      BY <1>8 DEF Stamp, AtSend, InLoop
  <2>3. /\ \/ UNCHANGED <<reg, pc>>
           \/ reg'[w] > tsc[w] /\ pc' = [pc EXCEPT ![w] = "store"]
        /\ \A v \in Threads \ {w} : reg'[v] = reg[v]
      BY <1>2, <1>8, TakeStampType DEF Stamp, SpinPcs, Goto
  <2>4. /\ \/ pc'[w] = pc[w] /\ reg'[w] = reg[w]
           \/ pc'[w] = "store" /\ reg'[w] > tsc[w]
        /\ \A v \in Threads \ {w} : pc'[v] = pc[v]
    <3>1. CASE UNCHANGED <<reg, pc>>
        BY <3>1
    <3>2. CASE reg'[w] > tsc[w] /\ pc' = [pc EXCEPT ![w] = "store"]
        BY <1>2, <3>2
    <3> QED
        BY <2>3, <3>1, <3>2
  <2>5. FrameInv'
      BY <1>2, <2>1, <2>2, <2>4, WorkerKeepsOrder DEF Working, mainVars
  <2> QED
      BY <1>1, <2>1, <2>2, <2>3, <2>4, <2>5, QuietStep
<1>9. ASSUME NEW w \in Threads, PollHit(w)
      PROVE  RallyInv' /\ UNCHANGED R!rallyVars
  <2>1. UNCHANGED <<mainVars, iter, tsc, ds, ret, pub, ball, cell>>
      BY <1>9 DEF PollHit
  <2>2. pc[w] = "loop" /\ iter[w] < N /\ cell[w] > tsc[w]
      BY <1>9 DEF PollHit, AtRecv, InLoop
  <2>3. reg' = [reg EXCEPT ![w] = cell[w]] /\ pc' = [pc EXCEPT ![w] = "now"]
      BY <1>9 DEF PollHit, Goto
  <2>4. MayCatch(w) /\ cell[w] = ball
      BY <1>2, <2>2 DEF RallyInv, CellTellsBall
  <2>5. /\ pc'[w] = "now" /\ reg'[w] = ball
        /\ \A v \in Threads \ {w} : pc'[v] = pc[v] /\ reg'[v] = reg[v]
      BY <1>2, <2>3, <2>4
  <2>6. FrameInv'
      BY <1>2, <2>1, <2>2, <2>5, WorkerKeepsOrder DEF Working, mainVars
  <2> QED
      BY <1>1, <2>1, <2>2, <2>4, <2>5, <2>6, QuietStep
<1>10. CASE FrameFailure /\ UNCHANGED cell
  <2>1. UNCHANGED <<iter, tsc, ds, pub, ball, cell, reg>>
      BY <1>10, FrameFailureIsQuiet
  <2>2. \A v \in Threads : pc'[v] \in {pc[v], "done"}
      BY <1>2, <1>10, FrameFailureIsQuiet DEF Goto
  <2>3. FrameInv'
      BY <1>2, <1>10, FrameFailureKeepsOrder
  <2> QED
      BY <1>1, <2>1, <2>2, <2>3, QuietStep
<1> QED
    BY <1>3, <1>4, <1>5, <1>6, <1>7, <1>8, <1>9, <1>10 DEF Next, Worker

\* The invariant of --spin holds at all times: it includes the types.
THEOREM RallyInvAlways == Spec => []RallyInv
<1>1. RallyInv /\ [Next]_vars => RallyInv'
  <2>1. RallyInv /\ UNCHANGED vars => RallyInv'
    <3> SUFFICES ASSUME RallyInv, UNCHANGED vars PROVE RallyInv'
        OBVIOUS
    <3>1. TypeOK' /\ FrameInv'
        BY DEF RallyInv, TypeOK, FrameTypeOK, FrameInv, Working,
               vars, frameVars, mainVars, dataVars
    <3> QED
        BY <3>1, QuietStep DEF vars, frameVars, dataVars
  <2> QED
      BY <2>1, RallyStep
<1> QED
    BY RallyInit, <1>1, PTL DEF Spec

\* The spinning methods (src/pingpong.c:291-319, 366-395, 416-446) implement
\* the rally: every stamp is received exactly once, by the other worker, in
\* turn, and is later than the one before.
THEOREM SpinImplementsRally == Spec => ImplementsRally
<1>1. RallyInv /\ [Next]_vars => [R!Next]_(R!rallyVars)
  <2>1. UNCHANGED vars => UNCHANGED R!rallyVars
      BY QuietKeepsRally DEF vars, frameVars, dataVars
  <2> QED
      BY <2>1, RallyStep
<1> QED
    BY RallyInit, <1>1, RallyInvAlways, PTL DEF Spec, ImplementsRally, R!Spec

\* With an even -n the arrays that calloc(n/2) returned are large enough, and
\* the assertion of spin_main_finalize (src/pingpong.c:260) cannot fail.
THEOREM DeltasFitEven == N % 2 = 0 => (Spec => []DeltasFit)
<1> SUFFICES ASSUME N % 2 = 0 PROVE Spec => []DeltasFit
    OBVIOUS
<1>1. RallyInv => DeltasFit
    BY BallsFitArrays DEF RallyInv, TypeOK
<1> QED
    BY RallyInvAlways, <1>1, PTL

\* The report (src/pingpong.c:876-895) prints all the deltas of both workers.
THEOREM ReportAlwaysComplete == Spec => []ReportIsComplete
<1>1. RallyInv => ReportIsComplete
    BY ReportHasAllDeltas DEF RallyInv, TypeOK, WorkerKnows
<1> QED
    BY RallyInvAlways, <1>1, PTL
\* The reason for LatenciesDisjoint: a stamp is on its way, or about to be
\* sent, since a moment at which all latencies so far were over
\* (src/pingpong.c:291-319).
LatencyInv == RallyInv /\ InTime({"store"})

\* A stamp is taken after all latencies so far were over, and the one it begins
\* ends when the other worker records it (src/pingpong.c:291-319).
LEMMA LatencyStep ==
    ASSUME RallyInv, InTime({"store"}), Next
    PROVE  InTime({"store"})'
<1>1. /\ FrameTypeOK(SpinPcs) /\ OneBall /\ FrameInv
      /\ clock \in Nat /\ reg \in [Threads -> Nat]
      /\ pc \in [Threads -> {"none", "alloc", "await", "loop", "done"}
                               \cup SpinPcs]
    BY DEF RallyInv, TypeOK, FrameTypeOK
<1>2. RallyInv'
    BY RallyStep
<1>3. reg' \in [Threads -> Nat]
    BY <1>2 DEF RallyInv, TypeOK, FrameTypeOK
<1>4. ASSUME UNCHANGED <<ds, pub, ball, clock>>,
             \A w \in Threads :
                 pc'[w] \in {"store"} => pc[w] \in {"store"} /\ reg'[w] = reg[w]
      PROVE  InTime({"store"})'
    BY <1>1, <1>3, <1>4, InTimeQuiet
<1>5. ASSUME UNCHANGED <<ds, pub, ball, clock, reg>>,
             \A w \in Threads : pc'[w] \in {"store"} => pc[w] \in {"store"}
      PROVE  InTime({"store"})'
    BY <1>4, <1>5
<1>6. CASE Main
  <2>1. UNCHANGED <<ds, pub, ball, clock, reg>>
      BY <1>6
      DEF Main, CreateWorker, MainStep, StartWork, JoinWorker, Report,
          dataVars
  <2>2. \A v \in Threads : pc'[v] \in {pc[v], "alloc"}
      BY <1>1, <1>6
      DEF Main, CreateWorker, MainStep, StartWork, JoinWorker, Report,
          Goto
  <2> QED
      BY <1>5, <2>1, <2>2
<1>7. CASE FrameFailure /\ UNCHANGED cell
  <2>1. UNCHANGED <<ds, pub, ball, clock, reg>>
      BY <1>7
      DEF FrameFailure, MainFails, AllocFails,
          ReturnNull, dataVars
  <2>2. \A v \in Threads : pc'[v] \in {pc[v], "done"}
      BY <1>1, <1>7
      DEF FrameFailure, MainFails, AllocFails,
          ReturnNull, Goto
  <2> QED
      BY <1>5, <2>1, <2>2
<1>8. ASSUME NEW w \in Threads, FrameStep(w)
      PROVE  InTime({"store"})'
  <2>1. UNCHANGED <<ds, pub, ball, clock, reg>>
      BY <1>8 DEF FrameStep, Alloc, AwaitStart, Finalize, dataVars
  <2>2. \A v \in Threads : pc'[v] \in {pc[v], "await", "loop", "done"}
      BY <1>1, <1>8 DEF FrameStep, Alloc, AwaitStart, Finalize, Goto
  <2> QED
      BY <1>5, <2>1, <2>2
<1>9. ASSUME NEW w \in Threads, Stamp(w)
      PROVE  InTime({"store"})'
    BY <1>1, <1>9, InTimeStamp DEF Stamp
<1>10. ASSUME NEW w \in Threads, StoreCell(w)
       PROVE  InTime({"store"})'
  <2>1. /\ pc[w] = "store" /\ Publish(w) /\ UNCHANGED <<ds, reg, clock>>
        /\ pc' = [pc EXCEPT ![w] = "loop"]
      BY <1>10 DEF StoreCell, NextIteration, Goto
  <2>2. \A v \in Threads : pc'[v] \in {"store"} => pc[v] \in {"store"}
      BY <1>1, <2>1
  <2> QED
      BY <2>1, <2>2, InTimePublish
<1>11. ASSUME NEW w \in Threads, PollHit(w)
       PROVE  InTime({"store"})'
  <2>1. /\ UNCHANGED <<ds, pub, ball, clock>>
        /\ pc' = [pc EXCEPT ![w] = "now"]
        /\ \A v \in Threads \ {w} : reg'[v] = reg[v]
      BY <1>1, <1>11 DEF PollHit, Goto
  <2> QED
      BY <1>1, <1>4, <2>1
<1>12. ASSUME NEW w \in Threads, PollMiss(w) \/ Pause(w)
       PROVE  InTime({"store"})'
  <2>1. UNCHANGED <<ds, pub, ball, clock, reg>>
      BY <1>12 DEF PollMiss, Pause, dataVars
  <2>2. \A v \in Threads : pc'[v] \in {"store"} => pc[v] \in {"store"}
      BY <1>1, <1>12 DEF PollMiss, Pause, NextIteration, Goto
  <2> QED
      BY <1>5, <2>1, <2>2
<1>13. ASSUME NEW w \in Threads, Record(w)
       PROVE  InTime({"store"})'
  <2>1. pc[w] = "now" /\ RecordDelta(w) /\ pc' = [pc EXCEPT ![w] = "loop"]
      BY <1>13 DEF Record, NextIteration, Goto
  <2>2. MayCatch(w) /\ reg[w] = ball
      BY <2>1 DEF RallyInv, WorkerKnows
  <2>3. ASSUME NEW v \in Threads, pc[v] \in {"store"} PROVE MayHit(v)
    <3>1. iter[v] \in Nat
        BY <1>1, HarnessAssumption DEF FrameTypeOK
    <3>2. ret[v] # "null" /\ Sends(v)
        BY <1>1, <2>3 DEF FrameInv, RallyInv, WorkerKnows
    <3>3. iter[v] = pub[v] + rcv[v] /\ iter[v] % 2 = v
        BY <2>3, <3>1, <3>2 DEF RallyInv, WorkerKnows, Sends
    <3> QED
        BY <1>1, <3>1, <3>3, ParityTellsTurn
  <2>4. \A v \in Threads : ~MayHit(v)
      BY <1>1, <2>2, WhoseTurn
  <2>5. \A v \in Threads : pc'[v] \notin {"store"}
      BY <1>1, <2>1, <2>3, <2>4
  <2> QED
      BY <1>1, <2>1, <2>2, <2>5, InTimeRecord
<1> QED
    BY <1>6, <1>7, <1>8, <1>9, <1>10, <1>11, <1>12, <1>13 DEF Next, Worker

\* The invariant behind the latencies holds at all times.
THEOREM LatencyInvAlways == Spec => []LatencyInv
<1>1. Init => InTime({"store"})
    BY InTimeInit DEF Init
<1>2. RallyInv /\ InTime({"store"}) /\ [Next]_vars => InTime({"store"})'
  <2> SUFFICES ASSUME RallyInv, InTime({"store"}), UNCHANGED vars
               PROVE  InTime({"store"})'
      BY LatencyStep
  <2> QED
      BY DEF InTime, LatenciesDisjoint, SpentAt, MayCatch, rcv, vars, frameVars,
             dataVars
<1> QED
    BY RallyInvAlways, <1>1, <1>2, PTL DEF Spec, LatencyInv

\* With synchronized TSCs the latencies of --spin, --spin-pause and -p
\* (src/pingpong.c:291-319, 366-395, 416-446) do not overlap: together they are
\* not longer than the program ran.
THEOREM NoLatencyOverlaps == OneTsc => (Spec => []LatenciesDisjoint)
<1> SUFFICES ASSUME OneTsc PROVE Spec => []LatenciesDisjoint
    OBVIOUS
<1>1. LatencyInv => LatenciesDisjoint
    BY DEF LatencyInv, InTime
<1> QED
    BY LatencyInvAlways, <1>1, PTL
=============================================================================
