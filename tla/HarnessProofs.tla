--------------------------- MODULE HarnessProofs ---------------------------
(***************************************************************************)
(* Facts about the steps of module Harness that the proofs of all methods  *)
(* rest on: what each of them does to the types of the shared variables.   *)
(***************************************************************************)
EXTENDS Harness, SequenceTheorems, WellFoundedInduction, TLAPS

\* A stored delta (src/pingpong.c:316) fits its 32 bits.
LEMMA DeltaInRange ==
    ASSUME NEW d \in Int, NEW m \in Nat \ {0}
    PROVE  d % m \in 0..(m - 1)
OBVIOUS

\* The initial values of the harness (src/pingpong.c:276-285, 801-806) have
\* their types.
LEMMA FrameInitType ==
    ASSUME NEW CONSTANT pcs, FrameInit
    PROVE  FrameTypeOK(pcs)
<1>1. 0 \in 0..N /\ <<>> \in Seq(0..(Wrap - 1))
    BY HarnessAssumption
<1>2. ds \in [Threads -> Seq(0..(Wrap - 1))]
    BY <1>1, Zenon DEF FrameInit
<1>3. iter \in [Threads -> 0..N]
    BY <1>1, Zenon DEF FrameInit
<1>4. /\ pc \in [Threads -> {"none", "alloc", "await", "loop", "done"} \cup pcs]
      /\ ret \in [Threads -> {"none", "null", "ok"}]
    BY Zenon DEF FrameInit
<1>5. /\ tsc \in [Threads -> Nat]
      /\ reg \in [Threads -> Nat]
      /\ pub \in [Threads -> Nat]
    BY DEF FrameInit
<1>6. idx \in 0..2 /\ clock \in Nat /\ ball \in Nat
    BY DEF FrameInit
<1>7. /\ start_work \in BOOLEAN
      /\ mainPc \in {"create", "start", "join", "report", "exit", "failed",
                     "aborted"}
    BY Zenon DEF FrameInit
<1> QED
    BY <1>2, <1>3, <1>4, <1>5, <1>6, <1>7, Zenon
    DEF FrameTypeOK

\* The steps of the control thread (spin_pingpong) keep the types.
LEMMA MainType ==
    ASSUME NEW CONSTANT pcs, FrameTypeOK(pcs),
           MainStep \/ \E w \in Threads : CreateWorker(w)
    PROVE  FrameTypeOK(pcs)'
<1>1. CASE StartWork
    BY <1>1 DEF StartWork, FrameTypeOK, dataVars
<1>2. CASE \E w \in Threads : JoinWorker(w)
    BY <1>2 DEF JoinWorker, FrameTypeOK, dataVars, Threads
<1>3. CASE Report
    BY <1>3 DEF Report, FrameTypeOK, dataVars
<1>4. CASE \E w \in Threads : CreateWorker(w)
    BY <1>4 DEF CreateWorker, Goto, FrameTypeOK, dataVars, Threads
<1> QED
    BY <1>1, <1>2, <1>3, <1>4 DEF MainStep

\* A worker that returns an error keeps the types.
LEMMA ReturnNullType ==
    ASSUME NEW CONSTANT pcs, NEW w \in Threads, FrameTypeOK(pcs), ReturnNull(w)
    PROVE  FrameTypeOK(pcs)'
BY DEF ReturnNull, Goto, FrameTypeOK, mainVars

\* The steps all workers share keep the types.
LEMMA FrameStepType ==
    ASSUME NEW CONSTANT pcs, NEW w \in Threads, FrameTypeOK(pcs), FrameStep(w)
    PROVE  FrameTypeOK(pcs)'
<1>1. CASE Alloc(w)
    BY <1>1 DEF Alloc, Goto, FrameTypeOK, mainVars, dataVars
<1>2. CASE AwaitStart(w)
    BY <1>2 DEF AwaitStart, Goto, FrameTypeOK, mainVars, dataVars
<1>3. CASE Finalize(w)
    BY <1>3 DEF Finalize, Goto, FrameTypeOK
<1> QED
    BY <1>1, <1>2, <1>3 DEF FrameStep

\* A failing call of the control thread, calloc or malloc keeps the types.
LEMMA FrameFailureType ==
    ASSUME NEW CONSTANT pcs, FrameTypeOK(pcs), FrameFailure
    PROVE  FrameTypeOK(pcs)'
<1>1. CASE MainFails
    BY <1>1 DEF MainFails, FrameTypeOK, dataVars
<1>2. CASE \E w \in Threads : AllocFails(w)
    BY <1>2, ReturnNullType DEF AllocFails
<1> QED
    BY <1>1, <1>2 DEF FrameFailure

\* A failing call leaves a worker where it was or makes it return 0, and
\* touches nothing but the return values and the control thread's position.
LEMMA FrameFailureIsQuiet ==
    ASSUME FrameFailure
    PROVE  /\ UNCHANGED <<idx, start_work, iter, tsc, reg, ds, clock, pub, ball>>
           /\ mainPc' \in {mainPc, "failed"}
           /\ UNCHANGED pc \/ \E w \in Threads : Goto(w, "done")
<1>1. CASE MainFails
    BY <1>1 DEF MainFails, dataVars
<1>2. CASE \E w \in Threads : AllocFails(w)
    BY <1>2 DEF AllocFails, ReturnNull, mainVars
<1> QED
    BY <1>1, <1>2 DEF FrameFailure

\* A stamp the sender takes is above the one it received last
\* (src/pingpong.c:298-300), and it keeps the types.
LEMMA TakeStampType ==
    ASSUME NEW CONSTANT pcs, NEW CONSTANT to \in pcs, NEW w \in Threads,
           FrameTypeOK(pcs), TakeStamp(w, to)
    PROVE  /\ FrameTypeOK(pcs)'
           /\ \/ UNCHANGED <<reg, pc>>
              \/ reg'[w] > tsc[w] /\ Goto(w, to)
           /\ \A v \in Threads \ {w} : reg'[v] = reg[v]
<1>1. PICK tick \in 1..MaxTick, skew \in Skews :
          /\ clock' = clock + tick
          /\ IF clock + tick + skew <= tsc[w]
             THEN UNCHANGED <<reg, pc>>
             ELSE /\ reg' = [reg EXCEPT ![w] = clock + tick + skew]
                  /\ Goto(w, to)
    BY DEF TakeStamp
<1>2. clock + tick \in Nat /\ clock + tick + skew \in Nat
    BY HarnessAssumption DEF FrameTypeOK
<1>3. UNCHANGED <<mainVars, iter, tsc, ds, ret, pub, ball>>
    BY DEF TakeStamp
<1>4. tsc[w] \in Nat /\ reg \in [Threads -> Nat]
    BY DEF FrameTypeOK
<1>5. CASE clock + tick + skew <= tsc[w]
    BY <1>1, <1>2, <1>3, <1>5 DEF FrameTypeOK, mainVars
<1>6. CASE clock + tick + skew > tsc[w]
  <2>1. reg' = [reg EXCEPT ![w] = clock + tick + skew] /\ Goto(w, to)
      BY <1>1, <1>2, <1>4, <1>6
  <2> QED
      BY <1>1, <1>2, <1>3, <1>4, <1>6, <2>1 DEF FrameTypeOK, Goto, mainVars
<1> QED
    BY <1>2, <1>4, <1>5, <1>6

\* A receiver that records a delta (src/pingpong.c:314-317) appends one entry
\* to its array and remembers the stamp.
LEMMA RecordDeltaType ==
    ASSUME NEW CONSTANT pcs, NEW w \in Threads,
           FrameTypeOK(pcs), RecordDelta(w)
    PROVE  /\ clock' \in Nat
           /\ ds' \in [Threads -> Seq(0..(Wrap - 1))]
           /\ Len(ds'[w]) = Len(ds[w]) + 1
           /\ \A v \in Threads \ {w} : ds'[v] = ds[v] /\ tsc'[v] = tsc[v]
           /\ tsc' \in [Threads -> Nat]
           /\ tsc'[w] = reg[w]
<1>1. PICK tick \in 1..MaxTick, skew \in Skews :
          /\ clock' = clock + tick
          /\ ds' = [ds EXCEPT ![w] =
                       Append(@, ((clock + tick + skew) - reg[w]) % Wrap)]
    BY DEF RecordDelta
<1>2. clock + tick \in Nat /\ (clock + tick + skew) - reg[w] \in Int
    BY HarnessAssumption DEF FrameTypeOK
<1>3. ((clock + tick + skew) - reg[w]) % Wrap \in 0..(Wrap - 1)
    BY <1>2, DeltaInRange, HarnessAssumption
<1>4. ds \in [Threads -> Seq(0..(Wrap - 1))]
    BY DEF FrameTypeOK
<1>5. tsc' = [tsc EXCEPT ![w] = reg[w]]
    BY DEF RecordDelta
<1>6. tsc \in [Threads -> Nat] /\ reg \in [Threads -> Nat]
    BY DEF FrameTypeOK
<1> QED
    BY <1>1, <1>2, <1>3, <1>4, <1>5, <1>6

-----------------------------------------------------------------------------
(***************************************************************************)
(* The order of a run                                                      *)
(***************************************************************************)

\* Nobody runs when spin_pingpong begins (src/pingpong.c:799-806).
LEMMA OrderInit == FrameInit => FrameInv
<1> SUFFICES ASSUME FrameInit PROVE FrameInv
    OBVIOUS
<1>1. \A w \in Threads : /\ pc[w] = "none" /\ ret[w] = "none" /\ iter[w] = 0
                         /\ pub[w] = 0 /\ ds[w] = <<>>
    BY DEF FrameInit
<1>2. mainPc = "create" /\ idx = 0 /\ start_work = FALSE
    BY DEF FrameInit
<1> QED
    BY <1>1, <1>2, Zenon DEF FrameInv, Working, Threads

\* The control thread creates, starts, joins and reports in this order
\* (src/pingpong.c:801-895).
LEMMA MainKeepsOrder ==
    ASSUME NEW CONSTANT pcs, FrameTypeOK(pcs), FrameInv,
           MainStep \/ \E w \in Threads : CreateWorker(w)
    PROVE  FrameInv'
<1>1. CASE StartWork
    BY <1>1 DEF StartWork, FrameInv, Working, dataVars, Threads
<1>2. ASSUME NEW w \in Threads, JoinWorker(w)
      PROVE  FrameInv'
  <2>1. /\ mainPc = "join" /\ idx = w /\ pc[w] = "done" /\ idx' = w + 1
        /\ UNCHANGED <<start_work, pc, iter, ds, ret, pub>>
      BY <1>2 DEF JoinWorker, dataVars
  <2>2. CASE w = 0
      BY <1>2, <2>1, <2>2 DEF JoinWorker, FrameInv, Working, Threads
  <2>3. CASE w = 1
    <3>1. \A v \in Threads : ret[v] \in {"ok", "null"}
        BY <2>1, <2>3 DEF FrameInv, FrameTypeOK, Threads
    <3>2. \/ mainPc' = "failed"
          \/ mainPc' = "report" /\ \A v \in Threads : ret[v] = "ok"
        BY <1>2, <2>3, <3>1 DEF JoinWorker
    <3> QED
        BY <2>1, <3>2 DEF FrameInv, Working
  <2> QED
      BY <2>2, <2>3 DEF Threads
<1>3. CASE Report
    BY <1>3 DEF Report, FrameInv, Working, dataVars
<1>4. ASSUME NEW w \in Threads, CreateWorker(w)
      PROVE  FrameInv'
  <2>1. /\ mainPc = "create" /\ idx = w /\ pc[w] = "none" /\ ~start_work
        /\ pc' = [pc EXCEPT ![w] = "alloc"] /\ idx' = w + 1
        /\ UNCHANGED <<start_work, iter, ds, ret, pub>>
        /\ mainPc' = IF w = 1 THEN "start" ELSE "create"
      BY <1>4 DEF CreateWorker, Goto, dataVars, FrameInv, Threads
  <2>2. pc \in [Threads -> {"none", "alloc", "await", "loop", "done"} \cup pcs]
      BY DEF FrameTypeOK
  <2>3. pc'[w] = "alloc" /\ \A v \in Threads \ {w} : pc'[v] = pc[v]
      BY <2>1, <2>2
  <2> QED
      BY <2>1, <2>3 DEF FrameInv, Working, Threads
<1> QED
    BY <1>1, <1>2, <1>3, <1>4 DEF MainStep

\* A worker that goes on within its frame or its method does not disturb the
\* order, if it was not waiting for start_work.  It may end the wait of the
\* other one, and it may abort the process.
LEMMA WorkerKeepsOrder ==
    ASSUME NEW CONSTANT pcs, FrameTypeOK(pcs), FrameInv, NEW w \in Threads,
           Working(w), Working(w)',
           \A v \in Threads \ {w} : /\ iter'[v] = iter[v] /\ ds'[v] = ds[v]
                                    /\ \/ pc'[v] = pc[v]
                                       \/ Working(v) /\ Working(v)',
           mainPc' \in {mainPc, "aborted"},
           UNCHANGED <<idx, start_work, ret>>
    PROVE  FrameInv'
<1>1. start_work
    BY DEF FrameInv
<1>2. ret[w] = "none"
    BY DEF FrameInv, Working
<1>3. mainPc # "create" /\ mainPc' # "create"
    BY <1>1 DEF FrameInv
<1>4. /\ mainPc' \in {"create", "start"} => ~start_work'
      /\ mainPc' = "create" => idx' \in Threads
      /\ mainPc' \in {"report", "exit"} => \A v \in Threads : ret'[v] = "ok"
    BY <1>3 DEF FrameInv
<1>5. mainPc' = "join" => idx' \in Threads /\ (idx' = 1 => pc'[0] = "done")
    BY DEF FrameInv, Working, Threads
<1>6. \A v \in Threads : /\ pc'[v] = "done" <=> ret'[v] # "none"
                         /\ ret'[v] = "ok" => iter'[v] = N /\ Len(ds'[v]) <= N \div 2
    BY <1>2 DEF FrameInv, Working
<1> QED
    BY <1>1, <1>3, <1>4, <1>5, <1>6 DEF FrameInv

\* A worker whose call failed is done, and has not said "ok".
LEMMA ReturnNullKeepsOrder ==
    ASSUME NEW CONSTANT pcs, FrameTypeOK(pcs), FrameInv, NEW w \in Threads,
           pc[w] \notin {"none", "done"}, ReturnNull(w)
    PROVE  FrameInv'
<1>1. /\ pc' = [pc EXCEPT ![w] = "done"] /\ ret' = [ret EXCEPT ![w] = "null"]
      /\ UNCHANGED <<mainPc, idx, start_work, iter, ds, pub>>
    BY DEF ReturnNull, Goto, mainVars
<1>2. /\ pc'[w] = "done" /\ ret'[w] = "null"
      /\ \A v \in Threads \ {w} : pc'[v] = pc[v] /\ ret'[v] = ret[v]
    BY <1>1 DEF FrameTypeOK
<1>3. ret[w] = "none"
    BY DEF FrameInv
<1> QED
    BY <1>1, <1>2, <1>3 DEF FrameInv, Working, Threads

\* The frame of a worker keeps the order: spin_main_finalize says "ok" only
\* when the loop is over and the assertion holds (src/pingpong.c:256-274).
LEMMA FrameStepKeepsOrder ==
    ASSUME NEW CONSTANT pcs, FrameTypeOK(pcs), FrameInv, NEW w \in Threads,
           FrameStep(w)
    PROVE  FrameInv'
<1>1. pc \in [Threads -> {"none", "alloc", "await", "loop", "done"} \cup pcs]
    BY DEF FrameTypeOK
<1>2. CASE Alloc(w) \/ AwaitStart(w)
  <2>1. /\ UNCHANGED <<mainPc, idx, start_work, iter, ds, ret, pub>>
        /\ \A v \in Threads \ {w} : pc'[v] = pc[v]
      BY <1>1, <1>2 DEF Alloc, AwaitStart, Goto, mainVars, dataVars
  <2>2. \/ pc[w] = "alloc" /\ pc'[w] = "await"
        \/ pc[w] = "await" /\ pc'[w] = "loop" /\ start_work
      BY <1>1, <1>2 DEF Alloc, AwaitStart, Goto
  <2> QED
      BY <2>1, <2>2 DEF FrameInv, Working, Threads
<1>3. CASE Finalize(w)
  <2>1. /\ pc[w] = "loop" /\ iter[w] = N
        /\ UNCHANGED <<idx, start_work, iter, ds, pub>>
      BY <1>3 DEF Finalize
  <2>2. start_work /\ ret[w] = "none"
      BY <2>1 DEF FrameInv, Working
  <2>3. CASE Len(ds[w]) <= N \div 2
    <3>1. /\ ret' = [ret EXCEPT ![w] = "ok"] /\ pc' = [pc EXCEPT ![w] = "done"]
          /\ mainPc' = mainPc
        BY <1>3, <2>3 DEF Finalize, Goto
    <3>2. /\ ret'[w] = "ok" /\ pc'[w] = "done"
          /\ \A v \in Threads \ {w} : pc'[v] = pc[v] /\ ret'[v] = ret[v]
        BY <1>1, <3>1 DEF FrameTypeOK
    <3> QED
        BY <2>1, <2>2, <2>3, <3>1, <3>2 DEF FrameInv, Working, Threads
  <2>4. CASE ~(Len(ds[w]) <= N \div 2)
    <3>1. mainPc' = "aborted" /\ UNCHANGED <<ret, pc>>
        BY <1>3, <2>4 DEF Finalize
    <3> QED
        BY <2>1, <2>2, <3>1 DEF FrameInv, Working
  <2> QED
      BY <2>3, <2>4
<1> QED
    BY <1>2, <1>3 DEF FrameStep

\* A failing call of the control thread, calloc or malloc keeps the order.
LEMMA FrameFailureKeepsOrder ==
    ASSUME NEW CONSTANT pcs, FrameTypeOK(pcs), FrameInv, FrameFailure
    PROVE  FrameInv'
<1>1. CASE MainFails
    BY <1>1 DEF MainFails, FrameInv, Working, dataVars
<1>2. CASE \E w \in Threads : AllocFails(w)
    BY <1>2, ReturnNullKeepsOrder DEF AllocFails
<1> QED
    BY <1>1, <1>2 DEF FrameFailure

-----------------------------------------------------------------------------
(***************************************************************************)
(* The one ball                                                            *)
(***************************************************************************)

\* The counts of a worker are those of the stamps it has sent and received.
LEMMA RallyTypes ==
    ASSUME NEW CONSTANT pcs, FrameTypeOK(pcs)
    PROVE  /\ rcv \in [Threads -> Nat]
           /\ \A w \in Threads : /\ rcv[w] = Len(ds[w]) /\ rcv[w] \in Nat
                                 /\ pub[w] \in Nat /\ tsc[w] \in Nat
                                 /\ reg[w] \in Nat
           /\ ball \in Nat
<1>1. \A w \in Threads : Len(ds[w]) \in Nat
    BY HarnessAssumption DEF FrameTypeOK
<1> QED
    BY <1>1 DEF rcv, FrameTypeOK

\* The workers begin as the rally does (src/pingpong.c:276-285).
LEMMA RallyBegins == FrameInit => OneBall /\ R!Init
<1> SUFFICES ASSUME FrameInit PROVE OneBall /\ R!Init
    OBVIOUS
<1>1. /\ pub = [w \in Threads |-> 0] /\ ball = 1
      /\ tsc = [w \in Threads |-> 1] /\ ds = [w \in Threads |-> <<>>]
    BY DEF FrameInit
<1>2. rcv = [w \in Threads |-> 0]
    BY <1>1 DEF rcv
<1>3. \A w \in Threads : Other(w) \in Threads
    BY DEF Other, Threads
<1>4. OneBall
    BY <1>1, <1>2, <1>3, HarnessAssumption
    DEF OneBall, MayHit, MayCatch, Threads
<1> QED
    BY <1>1, <1>2, <1>4 DEF R!Init, R!Threads, Threads

\* The worker whose turn it is to send is told by the parity of its loop
\* variable (src/pingpong.c:295): i % 2 == w.init.
LEMMA ParityTellsTurn ==
    ASSUME NEW CONSTANT pcs, FrameTypeOK(pcs), OneBall, NEW w \in Threads,
           NEW p \in Nat, p = pub[w] + rcv[w]
    PROVE  p % 2 = w <=> MayHit(w)
<1>1. /\ rcv[w] \in Nat /\ pub[w] \in Nat
      /\ rcv[w] - pub[w] \in {w - 1, w}
    BY RallyTypes DEF OneBall
<1>2. CASE w = 0
    BY <1>1, <1>2 DEF MayHit
<1>3. CASE w = 1
    BY <1>1, <1>3 DEF MayHit
<1> QED
    BY <1>2, <1>3 DEF Threads

\* The counts of the two workers, spelled out: each is at most one ball ahead of
\* or behind the other.
LEMMA BallCounts ==
    ASSUME NEW CONSTANT pcs, FrameTypeOK(pcs)
    PROVE  (\A w \in Threads : /\ rcv[w] - pub[w] \in {w - 1, w}
                               /\ pub[Other(w)] - rcv[w] \in {0, 1})
           <=> /\ rcv[0] = pub[0] \/ rcv[0] = pub[0] - 1
               /\ rcv[1] = pub[1] \/ rcv[1] = pub[1] + 1
               /\ pub[1] = rcv[0] \/ pub[1] = rcv[0] + 1
               /\ pub[0] = rcv[1] \/ pub[0] = rcv[1] + 1
<1>1. Other(0) = 1 /\ Other(1) = 0
    BY DEF Other
<1>2. rcv[0] \in Nat /\ rcv[1] \in Nat /\ pub[0] \in Nat /\ pub[1] \in Nat
    BY RallyTypes DEF Threads
<1>3. (\A w \in Threads : /\ rcv[w] - pub[w] \in {w - 1, w}
                          /\ pub[Other(w)] - rcv[w] \in {0, 1})
      <=> /\ rcv[0] - pub[0] \in {0 - 1, 0} /\ pub[1] - rcv[0] \in {0, 1}
          /\ rcv[1] - pub[1] \in {1 - 1, 1} /\ pub[0] - rcv[1] \in {0, 1}
    BY <1>1, Zenon DEF Threads
<1>4. /\ rcv[0] - pub[0] \in {0 - 1, 0} <=> rcv[0] = pub[0] \/ rcv[0] = pub[0] - 1
      /\ rcv[1] - pub[1] \in {1 - 1, 1} <=> rcv[1] = pub[1] \/ rcv[1] = pub[1] + 1
      /\ pub[1] - rcv[0] \in {0, 1} <=> pub[1] = rcv[0] \/ pub[1] = rcv[0] + 1
      /\ pub[0] - rcv[1] \in {0, 1} <=> pub[0] = rcv[1] \/ pub[0] = rcv[1] + 1
    BY <1>2
<1> QED
    BY <1>3, <1>4, Zenon

\* A worker that may not send waits for the ball, which is then in the hand of
\* the other one or on its way: one of four situations.
LEMMA WhoseTurn ==
    ASSUME NEW CONSTANT pcs, FrameTypeOK(pcs), OneBall, NEW w \in Threads
    PROVE  /\ Other(w) \in Threads /\ Other(Other(w)) = w /\ Other(w) # w
           /\ Threads = {w, Other(w)}
           /\ \/ /\ MayHit(w) /\ ~MayCatch(w)
                 /\ ~MayHit(Other(w)) /\ ~MayCatch(Other(w))
              \/ /\ MayCatch(w) /\ ~MayHit(w)
                 /\ ~MayHit(Other(w)) /\ ~MayCatch(Other(w))
              \/ /\ MayHit(Other(w)) /\ ~MayCatch(Other(w))
                 /\ ~MayHit(w) /\ ~MayCatch(w)
              \/ /\ MayCatch(Other(w)) /\ ~MayHit(Other(w))
                 /\ ~MayHit(w) /\ ~MayCatch(w)
<1>1. Other(0) = 1 /\ Other(1) = 0
    BY DEF Other
<1>2. rcv[0] \in Nat /\ rcv[1] \in Nat /\ pub[0] \in Nat /\ pub[1] \in Nat
    BY RallyTypes DEF Threads
<1>3. /\ rcv[0] = pub[0] \/ rcv[0] = pub[0] - 1
      /\ rcv[1] = pub[1] \/ rcv[1] = pub[1] + 1
      /\ pub[1] = rcv[0] \/ pub[1] = rcv[0] + 1
      /\ pub[0] = rcv[1] \/ pub[0] = rcv[1] + 1
    BY BallCounts DEF OneBall
<1>4. /\ MayHit(0) <=> rcv[0] = pub[0]
      /\ MayHit(1) <=> rcv[1] = pub[1] + 1
      /\ MayCatch(0) <=> rcv[0] < pub[1]
      /\ MayCatch(1) <=> rcv[1] < pub[0]
    BY <1>1, <1>2 DEF MayHit, MayCatch
<1>5. \/ MayHit(0) /\ ~MayHit(1) /\ ~MayCatch(0) /\ ~MayCatch(1)
      \/ ~MayHit(0) /\ MayHit(1) /\ ~MayCatch(0) /\ ~MayCatch(1)
      \/ ~MayHit(0) /\ ~MayHit(1) /\ MayCatch(0) /\ ~MayCatch(1)
      \/ ~MayHit(0) /\ ~MayHit(1) /\ ~MayCatch(0) /\ MayCatch(1)
    BY <1>2, <1>3, <1>4
<1>6. /\ Other(w) \in Threads /\ Other(Other(w)) = w /\ Other(w) # w
      /\ Threads = {w, Other(w)}
    BY <1>1 DEF Threads
<1>7. CASE w = 0
    BY <1>1, <1>5, <1>6, <1>7
<1>8. CASE w = 1
    BY <1>1, <1>5, <1>6, <1>8
<1> QED
    BY <1>7, <1>8 DEF Threads

\* A step that sends and receives nothing is none of the rally.
LEMMA QuietKeepsRally ==
    ASSUME UNCHANGED <<tsc, ds, pub, ball>>
    PROVE  /\ UNCHANGED rcv
           /\ UNCHANGED R!rallyVars
           /\ OneBall => OneBall'
           /\ \A w : (MayHit(w)' <=> MayHit(w)) /\ (MayCatch(w)' <=> MayCatch(w))
<1>1. UNCHANGED rcv
    BY DEF rcv
<1> QED
    BY <1>1 DEF OneBall, MayHit, MayCatch, R!rallyVars

\* A stamp that is made visible in the sender's turn is a ball that is hit:
\* above all stamps before it, and then the other worker's to catch.
LEMMA HitKeepsOneBall ==
    ASSUME NEW CONSTANT pcs, FrameTypeOK(pcs), OneBall, NEW w \in Threads,
           MayHit(w), pub[w] + rcv[w] < N, reg[w] > tsc[w],
           Publish(w), UNCHANGED <<tsc, ds>>
    PROVE  /\ R!Hit(w)
           /\ OneBall'
           /\ rcv' = rcv
           /\ pub' \in [Threads -> Nat] /\ ball' \in Nat
           /\ pub'[w] = pub[w] + 1 /\ pub'[Other(w)] = pub[Other(w)]
           /\ ball' = reg[w] /\ ball' > ball
           /\ MayCatch(Other(w))' /\ ~MayHit(Other(w))'
           /\ ~MayCatch(w)' /\ ~MayHit(w)'
<1>1. rcv' = rcv
    BY DEF rcv
<1>2. /\ pub \in [Threads -> Nat]
      /\ pub' = [pub EXCEPT ![w] = @ + 1] /\ ball' = reg[w]
      /\ \A v \in Threads : /\ rcv[v] \in Nat /\ pub[v] \in Nat
                            /\ tsc[v] \in Nat /\ reg[v] \in Nat
      /\ ball \in Nat
    BY RallyTypes DEF Publish, FrameTypeOK
<1>3. tsc[w] = ball /\ \A v \in Threads : tsc[v] <= ball
    BY DEF OneBall
<1>4. ball' \in Nat /\ ball' > ball
    BY <1>2, <1>3
<1>5. /\ pub' \in [Threads -> Nat]
      /\ pub'[w] = pub[w] + 1
      /\ \A v \in Threads \ {w} : pub'[v] = pub[v]
    BY <1>2
<1>6. /\ Other(w) \in Threads \ {w} /\ Other(Other(w)) = w
      /\ Threads = {w, Other(w)}
    BY WhoseTurn
<1>7. Other(0) = 1 /\ Other(1) = 0
    BY DEF Other
<1>8. /\ rcv[0] = pub[0] \/ rcv[0] = pub[0] - 1
      /\ rcv[1] = pub[1] \/ rcv[1] = pub[1] + 1
      /\ pub[1] = rcv[0] \/ pub[1] = rcv[0] + 1
      /\ pub[0] = rcv[1] \/ pub[0] = rcv[1] + 1
      /\ rcv[w] = pub[w] + w
    BY BallCounts DEF OneBall, MayHit
<1>9. /\ \A v \in Threads : ~MayHit(v)'
      /\ \A v \in Threads : v # w => MayCatch(v)'
      /\ ~MayCatch(w)'
      /\ \A v \in Threads : /\ rcv'[v] - pub'[v] \in {v - 1, v}
                            /\ pub'[Other(v)] - rcv'[v] \in {0, 1}
      /\ pub[0] + pub[1] < N /\ pub'[0] + pub'[1] <= N
  <2>1. /\ \A v \in {0, 1} : rcv[v] \in Nat /\ pub[v] \in Nat
        /\ N \in Nat
      BY <1>2, HarnessAssumption DEF Threads
  <2>2. CASE w = 0
    <3>1. /\ rcv'[0] = rcv[0] /\ rcv'[1] = rcv[1]
          /\ pub'[0] = pub[0] + 1 /\ pub'[1] = pub[1]
        BY <1>1, <1>5, <2>2 DEF Threads
    <3>2. rcv[0] = pub[0] /\ pub[1] = pub[0] /\ rcv[1] = pub[0]
          /\ pub[0] + rcv[0] < N
        BY <1>8, <2>1, <2>2
    <3>3. /\ ~(rcv'[0] = pub'[0]) /\ ~(rcv'[1] = pub'[1] + 1)
          /\ rcv'[1] < pub'[0] /\ ~(rcv'[0] < pub'[1])
          /\ rcv'[0] - pub'[0] \in {0 - 1, 0} /\ pub'[1] - rcv'[0] \in {0, 1}
          /\ rcv'[1] - pub'[1] \in {1 - 1, 1} /\ pub'[0] - rcv'[1] \in {0, 1}
          /\ pub[0] + pub[1] < N /\ pub'[0] + pub'[1] <= N
          /\ rcv'[0] = pub'[0] + 0 <=> rcv'[0] = pub'[0]
        BY <2>1, <3>1, <3>2
    <3> QED
        BY <1>7, <2>2, <3>3 DEF MayHit, MayCatch, Threads
  <2>3. CASE w = 1
    <3>1. /\ rcv'[0] = rcv[0] /\ rcv'[1] = rcv[1]
          /\ pub'[0] = pub[0] /\ pub'[1] = pub[1] + 1
        BY <1>1, <1>5, <2>3 DEF Threads
    <3>2. rcv[1] = pub[1] + 1 /\ pub[0] = rcv[1] /\ rcv[0] = pub[1]
          /\ pub[1] + rcv[1] < N
        BY <1>8, <2>1, <2>3
    <3>3. /\ ~(rcv'[0] = pub'[0]) /\ ~(rcv'[1] = pub'[1] + 1)
          /\ rcv'[0] < pub'[1] /\ ~(rcv'[1] < pub'[0])
          /\ rcv'[0] - pub'[0] \in {0 - 1, 0} /\ pub'[1] - rcv'[0] \in {0, 1}
          /\ rcv'[1] - pub'[1] \in {1 - 1, 1} /\ pub'[0] - rcv'[1] \in {0, 1}
          /\ pub[0] + pub[1] < N /\ pub'[0] + pub'[1] <= N
          /\ rcv'[0] = pub'[0] + 0 <=> rcv'[0] = pub'[0]
        BY <2>1, <3>1, <3>2
    <3> QED
        BY <1>7, <2>3, <3>3 DEF MayHit, MayCatch, Threads
  <2> QED
      BY <2>2, <2>3 DEF Threads
<1>10. OneBall'
  <2>1. \A v \in Threads : tsc'[v] < ball'
      BY <1>2, <1>3, <1>4
  <2>2. \A v \in Threads : tsc'[v] \in Nat /\ tsc'[v] <= ball'
      BY <1>2, <1>4, <2>1
  <2> QED
      BY <1>1, <1>9, <2>1, <2>2 DEF OneBall
<1>11. R!Hit(w)
    BY <1>1, <1>2, <1>4, <1>8, <1>9 DEF R!Hit
<1> QED
    BY <1>1, <1>2, <1>4, <1>5, <1>6, <1>9, <1>10, <1>11

\* A stamp that is recorded (src/pingpong.c:314-317) is a ball that is caught,
\* if it is the stamp of the ball on its way; the receiver may then hit.
LEMMA CatchKeepsOneBall ==
    ASSUME NEW CONSTANT pcs, FrameTypeOK(pcs), OneBall, NEW w \in Threads,
           MayCatch(w), reg[w] = ball, RecordDelta(w)
    PROVE  /\ R!Catch(w)
           /\ OneBall'
           /\ rcv'[w] = rcv[w] + 1 /\ rcv'[Other(w)] = rcv[Other(w)]
           /\ MayHit(w)' /\ ~MayCatch(w)'
           /\ ~MayHit(Other(w))' /\ ~MayCatch(Other(w))'
<1>1. /\ UNCHANGED <<pub, ball>>
      /\ tsc' = [tsc EXCEPT ![w] = ball]
    BY DEF RecordDelta
<1>2. /\ Len(ds'[w]) = Len(ds[w]) + 1
      /\ \A v \in Threads \ {w} : ds'[v] = ds[v] /\ tsc'[v] = tsc[v]
      /\ tsc'[w] = ball
    BY RecordDeltaType
<1>3. /\ rcv \in [Threads -> Nat]
      /\ ball \in Nat
      /\ \A v \in Threads : /\ rcv[v] \in Nat /\ pub[v] \in Nat
                            /\ tsc[v] \in Nat
    BY RallyTypes
<1>4. /\ rcv'[w] = rcv[w] + 1
      /\ \A v \in Threads \ {w} : rcv'[v] = rcv[v]
    BY <1>2 DEF rcv
<1>5. rcv' = [rcv EXCEPT ![w] = @ + 1]
    BY <1>2, <1>3 DEF rcv
<1>6. /\ Other(w) \in Threads \ {w} /\ Other(Other(w)) = w
      /\ Threads = {w, Other(w)}
    BY WhoseTurn
<1>7. Other(0) = 1 /\ Other(1) = 0
    BY DEF Other
<1>8. /\ rcv[0] = pub[0] \/ rcv[0] = pub[0] - 1
      /\ rcv[1] = pub[1] \/ rcv[1] = pub[1] + 1
      /\ pub[1] = rcv[0] \/ pub[1] = rcv[0] + 1
      /\ pub[0] = rcv[1] \/ pub[0] = rcv[1] + 1
      /\ rcv[w] < pub[Other(w)]
    BY BallCounts DEF OneBall, MayCatch
<1>9. /\ \A v \in Threads : MayHit(v)' <=> v = w
      /\ \A v \in Threads : ~MayCatch(v)'
      /\ \A v \in Threads : /\ rcv'[v] - pub'[v] \in {v - 1, v}
                            /\ pub'[Other(v)] - rcv'[v] \in {0, 1}
  <2>1. \A v \in {0, 1} : rcv[v] \in Nat /\ pub[v] \in Nat
      BY <1>3 DEF Threads
  <2>2. CASE w = 0
    <3>1. /\ rcv'[0] = rcv[0] + 1 /\ rcv'[1] = rcv[1]
          /\ pub'[0] = pub[0] /\ pub'[1] = pub[1]
        BY <1>1, <1>4, <2>2 DEF Threads
    <3>2. rcv[0] = pub[0] - 1 /\ pub[1] = rcv[0] + 1 /\ rcv[1] = pub[1]
        BY <1>7, <1>8, <2>1, <2>2
    <3>3. /\ rcv'[0] = pub'[0] + 0 /\ ~(rcv'[1] = pub'[1] + 1)
          /\ ~(rcv'[1] < pub'[0]) /\ ~(rcv'[0] < pub'[1])
          /\ rcv'[0] - pub'[0] \in {0 - 1, 0} /\ pub'[1] - rcv'[0] \in {0, 1}
          /\ rcv'[1] - pub'[1] \in {1 - 1, 1} /\ pub'[0] - rcv'[1] \in {0, 1}
        BY <2>1, <3>1, <3>2
    <3> QED
        BY <1>7, <2>2, <3>3 DEF MayHit, MayCatch, Threads
  <2>3. CASE w = 1
    <3>1. /\ rcv'[0] = rcv[0] /\ rcv'[1] = rcv[1] + 1
          /\ pub'[0] = pub[0] /\ pub'[1] = pub[1]
        BY <1>1, <1>4, <2>3 DEF Threads
    <3>2. rcv[1] = pub[1] /\ pub[0] = rcv[1] + 1 /\ rcv[0] = pub[0] - 1
        BY <1>7, <1>8, <2>1, <2>3
    <3>3. /\ ~(rcv'[0] = pub'[0] + 0) /\ rcv'[1] = pub'[1] + 1
          /\ ~(rcv'[1] < pub'[0]) /\ ~(rcv'[0] < pub'[1])
          /\ rcv'[0] - pub'[0] \in {0 - 1, 0} /\ pub'[1] - rcv'[0] \in {0, 1}
          /\ rcv'[1] - pub'[1] \in {1 - 1, 1} /\ pub'[0] - rcv'[1] \in {0, 1}
        BY <2>1, <3>1, <3>2
    <3> QED
        BY <1>7, <2>3, <3>3 DEF MayHit, MayCatch, Threads
  <2> QED
      BY <2>2, <2>3 DEF Threads
<1>10. OneBall'
  <2>1. \A v \in Threads : tsc'[v] <= ball'
      BY <1>1, <1>2, <1>3 DEF OneBall
  <2>2. tsc'[w] = ball'
      BY <1>1, <1>2
  <2> QED
      BY <1>1, <1>9, <2>1, <2>2 DEF OneBall
<1>11. R!Catch(w)
    BY <1>1, <1>5, <1>8 DEF R!Catch, Other
<1> QED
    BY <1>4, <1>6, <1>9, <1>10, <1>11

\* With an even -n the arrays that calloc(n/2) returned are large enough for
\* every ball there is to catch (src/pingpong.c:260, 276-285).
LEMMA BallsFitArrays ==
    ASSUME NEW CONSTANT pcs, FrameTypeOK(pcs), OneBall, N % 2 = 0
    PROVE  DeltasFit
<1>1. /\ rcv[0] = pub[0] \/ rcv[0] = pub[0] - 1
      /\ rcv[1] = pub[1] \/ rcv[1] = pub[1] + 1
      /\ pub[1] = rcv[0] \/ pub[1] = rcv[0] + 1
      /\ pub[0] = rcv[1] \/ pub[0] = rcv[1] + 1
      /\ pub[0] + pub[1] <= N
    BY BallCounts DEF OneBall
<1>2. \A v \in {0, 1} : rcv[v] = Len(ds[v]) /\ rcv[v] \in Nat /\ pub[v] \in Nat
    BY RallyTypes DEF Threads
<1>3. rcv[0] <= N \div 2 /\ rcv[1] <= N \div 2
    BY <1>1, <1>2, HarnessAssumption
<1> QED
    BY <1>2, <1>3 DEF DeltasFit, Threads

\* Half of the iterations of a worker are receives: a report that only waits
\* for both to return "ok" (src/pingpong.c:876-895) has all the deltas.
LEMMA ReportHasAllDeltas ==
    ASSUME NEW CONSTANT pcs, FrameTypeOK(pcs), FrameInv, OneBall,
           \A w \in Threads : ret[w] = "ok" => iter[w] = pub[w] + rcv[w]
    PROVE  ReportIsComplete
<1> SUFFICES ASSUME mainPc \in {"report", "exit"}, NEW w \in Threads
             PROVE  ret[w] = "ok" /\ Len(ds[w]) = N \div 2
    BY DEF ReportIsComplete
<1>1. \A v \in Threads : /\ ret[v] = "ok"
                         /\ N = pub[v] + rcv[v] /\ Len(ds[v]) <= N \div 2
    BY DEF FrameInv
<1>2. \A v \in Threads : rcv[v] = Len(ds[v]) /\ rcv[v] \in Nat /\ pub[v] \in Nat
    BY RallyTypes
<1>3. /\ rcv[0] = pub[0] \/ rcv[0] = pub[0] - 1
      /\ rcv[1] = pub[1] \/ rcv[1] = pub[1] + 1
    BY BallCounts DEF OneBall
<1>4. \A v \in {0, 1} : N = pub[v] + rcv[v] /\ rcv[v] <= N \div 2
                        /\ rcv[v] \in Nat /\ pub[v] \in Nat
    BY <1>1, <1>2 DEF Threads
<1>5. rcv[0] = N \div 2
    BY <1>3, <1>4
<1>6. rcv[1] = N \div 2
  <2>1. rcv[1] # pub[1] + 1
      BY <1>4
  <2> QED
      BY <1>3, <1>4, <2>1
<1> QED
    BY <1>1, <1>2, <1>5, <1>6 DEF Threads
-----------------------------------------------------------------------------
(***************************************************************************)
(* The latencies                                                           *)
(***************************************************************************)

\* A set of numbers has a least one.
LEMMA HasLeast ==
    ASSUME NEW S, S \subseteq Nat, S # {}
    PROVE  \E m \in S : \A l \in S : ~(l < m)
<1>1. \E m \in S : \A l \in S : ~(<<l, m>> \in OpToRel(<, Nat))
    BY NatLessThanWellFounded, WFMin, Zenon
<1> QED
    BY <1>1 DEF OpToRel

\* The partial sums of an array exist and are integers: otherwise there would
\* be a first one that does not.
LEMMA PartialSumsExist ==
    ASSUME NEW s \in Seq(Int)
    PROVE  \E sum \in [0..Len(s) -> Int] :
              sum = [k \in 0..Len(s) |-> IF k = 0 THEN 0 ELSE sum[k - 1] + s[k]]
<1> DEFINE Sums(m, sum) ==
               sum = [k \in 0..m |-> IF k = 0 THEN 0 ELSE sum[k - 1] + s[k]]
           Missing == {m \in 0..Len(s) : \A sum \in [0..m -> Int] : ~Sums(m, sum)}
<1>1. Len(s) \in Nat /\ \A k \in 1..Len(s) : s[k] \in Int
    BY LenProperties, ElementOfSeq
<1>2. CASE Missing = {}
  <2>1. Len(s) \in 0..Len(s)
      BY <1>1
  <2> QED
      BY <1>2, <2>1
<1>3. CASE Missing # {}
  <2>1. Missing \subseteq Nat
      BY <1>1
  <2>2. \E m \in Missing : \A l \in Missing : ~(l < m)
    <3> HIDE DEF Missing
    <3> QED
        BY <1>3, <2>1, HasLeast
  <2>3. PICK m \in Missing : \A l \in Missing : ~(l < m)
      BY <2>2
  <2>4. m \in 0..Len(s) /\ \A sum \in [0..m -> Int] : ~Sums(m, sum)
      OBVIOUS
  <2>5. CASE m = 0
    <3> DEFINE sum == [k \in 0..0 |-> 0]
    <3>1. sum \in [0..m -> Int] /\ Sums(m, sum)
        BY <2>5
    <3> HIDE DEF sum, Sums
    <3> QED
        BY <2>4, <3>1
  <2>6. CASE m # 0
    <3>1. m - 1 \in 0..Len(s) /\ m - 1 < m /\ m \in 1..Len(s)
        BY <1>1, <2>4, <2>6
    <3>2. PICK old \in [0..(m - 1) -> Int] : Sums(m - 1, old)
        BY <2>3, <3>1
    <3> DEFINE sum == [k \in 0..m |-> IF k = m THEN old[m - 1] + s[m] ELSE old[k]]
    <3>3. /\ sum \in [0..m -> Int] /\ sum[m] = sum[m - 1] + s[m]
          /\ \A k \in 0..(m - 1) : sum[k] = old[k]
        BY <1>1, <3>1, <3>2
    <3>4. \A k \in 0..m : sum[k] = IF k = 0 THEN 0 ELSE sum[k - 1] + s[k]
      <4>1. ASSUME NEW k \in 0..(m - 1)
            PROVE  sum[k] = IF k = 0 THEN 0 ELSE sum[k - 1] + s[k]
        <5> HIDE DEF sum
        <5>1. old[k] = IF k = 0 THEN 0 ELSE old[k - 1] + s[k]
            BY <3>2
        <5>2. k # 0 => k - 1 \in 0..(m - 1)
            BY <3>1
        <5> QED
            BY <3>3, <5>1, <5>2
      <4> HIDE DEF sum
      <4> QED
          BY <1>1, <2>4, <2>6, <3>3, <4>1
    <3>5. Sums(m, sum)
      <4> HIDE DEF sum
      <4> QED
          BY <3>3, <3>4
    <3> HIDE DEF sum, Sums
    <3> QED
        BY <2>4, <3>3, <3>5
  <2> QED
      BY <2>5, <2>6
<1> QED
    BY <1>2, <1>3

\* Two functions that begin alike and go on alike agree.
LEMMA PartialSumsAgree ==
    ASSUME NEW n \in Nat, NEW f, NEW g, f[0] = g[0],
           \A k \in 1..n : f[k - 1] = g[k - 1] => f[k] = g[k]
    PROVE  f[n] = g[n]
<1> DEFINE Differ == {k \in 0..n : f[k] # g[k]}
<1>1. CASE Differ = {}
    BY <1>1
<1>2. CASE Differ # {}
  <2>1. Differ \subseteq Nat
      OBVIOUS
  <2>2. \E k \in Differ : \A l \in Differ : ~(l < k)
    <3> HIDE DEF Differ
    <3> QED
        BY <1>2, <2>1, HasLeast
  <2>3. PICK k \in Differ : \A l \in Differ : ~(l < k)
      BY <2>2
  <2>4. k \in 0..n /\ f[k] # g[k] /\ k # 0
      OBVIOUS
  <2>5. k - 1 \in 0..n /\ k - 1 < k /\ k \in 1..n
      BY <2>4
  <2>6. f[k - 1] = g[k - 1]
      BY <2>3, <2>5
  <2> QED
      BY <2>4, <2>5, <2>6
<1> QED
    BY <1>1, <1>2

\* What Total is: the last one of the partial sums, whichever they are.
LEMMA TotalIsLastSum ==
    ASSUME NEW s \in Seq(Int)
    PROVE  \E sum \in [0..Len(s) -> Int] :
              /\ \A k \in 0..Len(s) :
                    sum[k] = IF k = 0 THEN 0 ELSE sum[k - 1] + s[k]
              /\ Total(s) = sum[Len(s)]
<1> DEFINE Sums(sum) ==
               sum = [k \in 0..Len(s) |-> IF k = 0 THEN 0 ELSE sum[k - 1] + s[k]]
           chosen == CHOOSE sum : Sums(sum)
<1>1. PICK sum \in [0..Len(s) -> Int] : Sums(sum)
    BY PartialSumsExist
<1>2. Sums(chosen)
  <2> HIDE DEF Sums
  <2> QED
      BY <1>1
<1>3. Total(s) = chosen[Len(s)]
    BY DEF Total
<1>4. Len(s) \in Nat
    BY LenProperties
<1> HIDE DEF chosen
<1>5. \A k \in 0..Len(s) :
          chosen[k] = IF k = 0 THEN 0 ELSE chosen[k - 1] + s[k]
    BY <1>2
<1>6. \A k \in 0..Len(s) : sum[k] = IF k = 0 THEN 0 ELSE sum[k - 1] + s[k]
    BY <1>1
<1>7. chosen[Len(s)] = sum[Len(s)]
  <2>1. chosen[0] = sum[0]
      BY <1>4, <1>5, <1>6
  <2>2. ASSUME NEW k \in 1..Len(s), chosen[k - 1] = sum[k - 1]
        PROVE  chosen[k] = sum[k]
      BY <1>4, <1>5, <1>6, <2>2
  <2> QED
      BY <1>4, <2>1, <2>2, PartialSumsAgree
<1> QED
    BY <1>3, <1>6, <1>7

\* One latency more is added to the total.
LEMMA TotalAppend ==
    ASSUME NEW s \in Seq(Int)
    PROVE  /\ Total(s) \in Int
           /\ Len(s) = 0 => Total(s) = 0
           /\ \A d \in Int : Total(Append(s, d)) = Total(s) + d
<1>1. PICK f \in [0..Len(s) -> Int] :
          /\ \A k \in 0..Len(s) : f[k] = IF k = 0 THEN 0 ELSE f[k - 1] + s[k]
          /\ Total(s) = f[Len(s)]
    BY TotalIsLastSum
<1>2. Len(s) \in Nat /\ Len(s) \in 0..Len(s)
    BY LenProperties
<1>3. Total(s) \in Int /\ (Len(s) = 0 => Total(s) = 0)
    BY <1>1, <1>2
<1>4. ASSUME NEW d \in Int
      PROVE  Total(Append(s, d)) = Total(s) + d
  <2> DEFINE t == Append(s, d)
  <2>1. /\ t \in Seq(Int) /\ Len(t) = Len(s) + 1 /\ t[Len(s) + 1] = d
        /\ \A k \in 1..Len(s) : s[k] = t[k]
      BY AppendProperties
  <2> HIDE DEF t
  <2>2. PICK g \in [0..Len(t) -> Int] :
            /\ \A k \in 0..Len(t) : g[k] = IF k = 0 THEN 0 ELSE g[k - 1] + t[k]
            /\ Total(t) = g[Len(t)]
      BY <2>1, TotalIsLastSum
  <2>3. \A k \in 0..Len(s) : g[k] = IF k = 0 THEN 0 ELSE g[k - 1] + t[k]
      BY <1>2, <2>1, <2>2
  <2>4. f[Len(s)] = g[Len(s)]
    <3>1. f[0] = g[0]
        BY <1>1, <1>2, <2>3
    <3>2. ASSUME NEW k \in 1..Len(s), f[k - 1] = g[k - 1]
          PROVE  f[k] = g[k]
        BY <1>1, <1>2, <2>1, <2>3, <3>2
    <3> QED
        BY <1>2, <3>1, <3>2, PartialSumsAgree
  <2>5. g[Len(s) + 1] = g[Len(s)] + d
    <3>1. Len(s) + 1 \in 0..Len(t) /\ Len(s) + 1 # 0 /\ (Len(s) + 1) - 1 = Len(s)
        BY <1>2, <2>1
    <3> QED
        BY <2>1, <2>2, <3>1
  <2>6. Total(t) = Total(s) + d
      BY <1>1, <2>1, <2>2, <2>4, <2>5
  <2> QED
      BY <2>6 DEF t
<1> QED
    BY <1>3, <1>4

\* The 32 bits of a stored delta do not make it longer.
LEMMA StoredIsNotLonger ==
    ASSUME NEW d \in Nat, NEW m \in Nat \ {0}
    PROVE  d % m \in Nat /\ d % m <= d
<1>1. CASE d < m
    BY <1>1
<1>2. CASE d >= m
    BY <1>2
<1> QED
    BY <1>1, <1>2

\* The latencies the workers have recorded add up to an integer.
LEMMA SpentType ==
    ASSUME NEW CONSTANT pcs, FrameTypeOK(pcs)
    PROVE  \A w \in Threads : ds[w] \in Seq(Int) /\ Total(ds[w]) \in Int
<1>1. ds \in [Threads -> Seq(0..(Wrap - 1))] /\ 0..(Wrap - 1) \subseteq Int
    BY DEF FrameTypeOK
<1>2. ASSUME NEW w \in Threads PROVE ds[w] \in Seq(Int)
  <2>1. ds[w] \in Seq(0..(Wrap - 1))
      BY <1>1
  <2> QED
      BY <1>1, <2>1, SeqMonotonic
<1> QED
    BY <1>2, TotalAppend

\* Nothing is recorded and nothing is on the way when the program begins.
LEMMA InTimeInit ==
    ASSUME NEW CONSTANT callPcs, FrameInit, "none" \notin callPcs
    PROVE  InTime(callPcs)
<1>1. /\ clock = 0
      /\ \A w \in Threads : ds[w] = <<>> /\ pub[w] = 0 /\ pc[w] = "none"
    BY DEF FrameInit
<1>2. Total(ds[0]) = 0 /\ Total(ds[1]) = 0
    BY <1>1, TotalAppend, EmptySeq DEF Threads
<1>3. \A w \in Threads : ~MayCatch(w)
    BY <1>1, EmptySeq DEF MayCatch, rcv, Threads, Other
<1> QED
    BY <1>1, <1>2, <1>3 DEF InTime, LatenciesDisjoint

\* Time may pass while a latency lasts, and a stamp be taken that begins the
\* next one.
LEMMA InTimeQuiet ==
    ASSUME NEW CONSTANT pcs, FrameTypeOK(pcs),
           NEW CONSTANT callPcs, InTime(callPcs),
           UNCHANGED <<ds, pub, ball>>,
           clock' \in Nat, clock <= clock', reg' \in [Threads -> Nat],
           \A w \in Threads :
               pc'[w] \in callPcs =>
                   \/ pc[w] \in callPcs /\ reg'[w] = reg[w]
                   \/ \E skew \in Skews : /\ clock <= reg'[w] - skew
                                          /\ reg'[w] - skew <= clock'
    PROVE  InTime(callPcs)'
<1> SUFFICES ASSUME OneTsc PROVE InTime(callPcs)'
    BY DEF InTime
<1> DEFINE spent == Total(ds[0]) + Total(ds[1])
<1>1. /\ spent \in Int /\ spent <= clock /\ clock \in Nat /\ ball \in Nat
      /\ \A w \in Threads : reg[w] \in Nat /\ reg'[w] \in Nat
      /\ \A skew \in Skews : skew \in Nat
  <2>1. Total(ds[0]) \in Int /\ Total(ds[1]) \in Int
      BY SpentType DEF Threads
  <2>2. spent <= clock
      BY DEF InTime, LatenciesDisjoint
  <2>3. /\ clock \in Nat /\ ball \in Nat
        /\ \A w \in Threads : reg[w] \in Nat /\ reg'[w] \in Nat
      BY DEF FrameTypeOK
  <2> QED
      BY <2>1, <2>2, <2>3, HarnessAssumption
<1>2. Total(ds'[0]) + Total(ds'[1]) = spent
    OBVIOUS
<1>3. /\ \A w \in Threads : MayCatch(w) =>
            \A skew \in Skews : spent <= ball - skew /\ ball - skew <= clock
      /\ \A w \in Threads : pc[w] \in callPcs =>
            \A skew \in Skews : spent <= reg[w] - skew /\ reg[w] - skew <= clock
    BY DEF InTime, SpentAt
<1> HIDE DEF spent
<1>4. ASSUME NEW w \in Threads, MayCatch(w)'
      PROVE  SpentAt(ball)'
  <2>1. MayCatch(w) /\ ball' = ball
      BY <1>4 DEF MayCatch, rcv
  <2> QED
      BY <1>1, <1>2, <1>3, <2>1 DEF SpentAt
<1>5. ASSUME NEW w \in Threads, pc'[w] \in callPcs
      PROVE  SpentAt(reg[w])'
  <2>1. ASSUME NEW skew \in Skews
        PROVE  spent <= reg'[w] - skew /\ reg'[w] - skew <= clock'
    <3>1. CASE pc[w] \in callPcs /\ reg'[w] = reg[w]
        BY <1>1, <1>3, <3>1
    <3>2. CASE \E s \in Skews : clock <= reg'[w] - s /\ reg'[w] - s <= clock'
      <4>1. clock <= reg'[w] - skew /\ reg'[w] - skew <= clock'
          BY <3>2 DEF OneTsc
      <4> QED
          BY <1>1, <4>1
    <3> QED
        BY <1>5, <3>1, <3>2
  <2> QED
      BY <1>2, <2>1 DEF SpentAt
<1>6. LatenciesDisjoint'
    BY <1>1, <1>2 DEF LatenciesDisjoint
<1> QED
    BY <1>4, <1>5, <1>6 DEF InTime

\* The stamp that TakeStamp (src/pingpong.c:296-300) keeps is taken when all
\* latencies recorded so far are over.
LEMMA InTimeStamp ==
    ASSUME NEW CONSTANT pcs, FrameTypeOK(pcs),
           NEW CONSTANT callPcs, InTime(callPcs), NEW w \in Threads,
           NEW to, TakeStamp(w, to)
    PROVE  InTime(callPcs)'
<1>1. PICK tick \in 1..MaxTick, skew \in Skews :
          /\ clock' = clock + tick
          /\ \/ UNCHANGED <<reg, pc>>
             \/ reg' = [reg EXCEPT ![w] = clock + tick + skew] /\ Goto(w, to)
    BY DEF TakeStamp
<1>2. /\ clock \in Nat /\ tick \in Nat /\ skew \in Nat /\ reg \in [Threads -> Nat]
    BY HarnessAssumption DEF FrameTypeOK
<1>3. UNCHANGED <<ds, pub, ball>>
    BY DEF TakeStamp
<1>4. clock' \in Nat /\ clock <= clock'
    BY <1>1, <1>2
<1>5. CASE UNCHANGED <<reg, pc>>
    BY <1>2, <1>3, <1>4, <1>5, InTimeQuiet
<1>6. CASE reg' = [reg EXCEPT ![w] = clock + tick + skew] /\ Goto(w, to)
  <2>1. /\ reg' \in [Threads -> Nat] /\ reg'[w] = clock + tick + skew
        /\ \A v \in Threads \ {w} :
              reg'[v] = reg[v] /\ (pc'[v] \in callPcs => pc[v] \in callPcs)
    <3>1. clock + tick + skew \in Nat
        BY <1>2
    <3>2. pc' = [pc EXCEPT ![w] = to]
        BY <1>6 DEF Goto
    <3>3. pc \in [Threads -> {"none", "alloc", "await", "loop", "done"} \cup pcs]
        BY DEF FrameTypeOK
    <3> QED
        BY <1>2, <1>6, <3>1, <3>2, <3>3
  <2>2. clock <= reg'[w] - skew /\ reg'[w] - skew <= clock'
      BY <1>1, <1>2, <2>1
  <2> QED
      BY <1>3, <1>4, <2>1, <2>2, InTimeQuiet
<1> QED
    BY <1>1, <1>5, <1>6

\* The stamp that is sent begins the next latency.
LEMMA InTimePublish ==
    ASSUME NEW CONSTANT callPcs, InTime(callPcs), NEW w \in Threads,
           pc[w] \in callPcs, Publish(w), UNCHANGED <<ds, reg, clock>>,
           \A v \in Threads : pc'[v] \in callPcs => pc[v] \in callPcs
    PROVE  InTime(callPcs)'
<1>1. ball' = reg[w]
    BY DEF Publish
<1> QED
    BY <1>1 DEF InTime, LatenciesDisjoint, SpentAt

\* A latency that is recorded (src/pingpong.c:314-317) is over: it began when
\* all the others were.
LEMMA InTimeRecord ==
    ASSUME NEW CONSTANT pcs, FrameTypeOK(pcs),
           NEW CONSTANT callPcs, InTime(callPcs), OneBall,
           NEW w \in Threads, MayCatch(w), reg[w] = ball, RecordDelta(w),
           \A v \in Threads : pc'[v] \notin callPcs
    PROVE  InTime(callPcs)'
<1> SUFFICES ASSUME OneTsc PROVE InTime(callPcs)'
    BY DEF InTime
<1>1. PICK tick \in 1..MaxTick, skew \in Skews :
          /\ clock' = clock + tick
          /\ ds' = [ds EXCEPT ![w] =
                       Append(@, ((clock + tick + skew) - reg[w]) % Wrap)]
    BY DEF RecordDelta
<1>2. /\ clock \in Nat /\ tick \in Nat /\ skew \in Nat /\ Wrap \in Nat \ {0}
      /\ ball \in Nat /\ ds \in [Threads -> Seq(0..(Wrap - 1))]
    BY HarnessAssumption DEF FrameTypeOK
<1>3. /\ Other(w) \in Threads \ {w} /\ Threads = {w, Other(w)}
      /\ \/ w = 0 /\ Other(w) = 1
         \/ w = 1 /\ Other(w) = 0
  <2>1. w = 0 \/ w = 1
      BY DEF Threads
  <2> QED
      BY <2>1, WhoseTurn DEF Other
<1>4. \A v \in Threads : ds[v] \in Seq(Int) /\ Total(ds[v]) \in Int
    BY SpentType
<1>5. /\ Total(ds[w]) + Total(ds[Other(w)]) <= ball - skew
      /\ ball - skew <= clock
    BY <1>3, <1>4 DEF InTime, SpentAt
<1>6. PICK latency \in Nat : latency = (clock + tick + skew) - ball
  <2>1. (clock + tick + skew) - ball \in Nat
      BY <1>2, <1>5
  <2> QED
      BY <2>1
<1>7. PICK d \in Nat : d = latency % Wrap /\ d <= latency
    BY <1>2, StoredIsNotLonger
<1>8. /\ Total(ds'[w]) = Total(ds[w]) + d
      /\ Total(ds'[Other(w)]) = Total(ds[Other(w)])
  <2>1. /\ ds'[w] = Append(ds[w], d)
        /\ ds'[Other(w)] = ds[Other(w)]
      BY <1>1, <1>2, <1>3, <1>6, <1>7
  <2>2. Total(Append(ds[w], d)) = Total(ds[w]) + d
      BY <1>4, TotalAppend
  <2> QED
      BY <2>1, <2>2
<1>9. LatenciesDisjoint'
  <2>1. Total(ds[w]) \in Int /\ Total(ds[Other(w)]) \in Int
      BY <1>3, <1>4
  <2>2. Total(ds'[w]) + Total(ds'[Other(w)]) <= clock'
    <3>1. (Total(ds[w]) + Total(ds[Other(w)])) + d <= clock + tick
      <4>1. d <= latency
          BY <1>7
      <4> QED
          BY <1>2, <1>5, <1>6, <2>1, <4>1
    <3>2. (Total(ds[w]) + d) + Total(ds[Other(w)])
              = (Total(ds[w]) + Total(ds[Other(w)])) + d
        BY <2>1
    <3> QED
        BY <1>1, <1>8, <3>1, <3>2
  <2>3. Total(ds'[w]) + Total(ds'[Other(w)]) = Total(ds'[0]) + Total(ds'[1])
      BY <1>3, <1>8, <2>1
  <2> QED
      BY <2>2, <2>3 DEF LatenciesDisjoint
<1>10. \A v \in Threads : ~MayCatch(v)'
    BY <1>3, CatchKeepsOneBall
<1> QED
    BY <1>9, <1>10 DEF InTime
=============================================================================
