-------------------------- MODULE SemaphoreProofs --------------------------
(***************************************************************************)
(* The semaphores of --sem pass one token around, for every number of      *)
(* iterations, every TSC offset and whatever calls fail.  The plain word   *)
(* of a stripe is free of races because of it.                             *)
(***************************************************************************)
EXTENDS Semaphore, HarnessProofs

\* The initial state satisfies the invariant: start_work is not set, and no
\* semaphore has been initialized.
LEMMA TokenInit == Init => TokenInv
<1> SUFFICES ASSUME Init PROVE TokenInv
    OBVIOUS
<1>1. FrameTypeOK(Held)
    BY FrameInitType DEF Init
<1>2. /\ sem \in [Threads -> Nat]
      /\ stsc \in [Threads -> Nat]
      /\ sem[0] = 0 /\ sem[1] = 0
    BY DEF Init, Threads
<1>3. ~start_work
    BY Zenon DEF Init, FrameInit
<1>4. /\ mainPc = "create"
      /\ idx = 0
      /\ \A w \in Threads : pc[w] = "none" /\ ret[w] = "none"
    BY DEF Init, FrameInit
<1>5. SetUp
    BY <1>2, <1>3, <1>4 DEF SetUp, Working, Threads
<1>6. TurnsLeft /\ ErrorIsFinal
    BY <1>4 DEF TurnsLeft, ErrorIsFinal, Held
<1> QED
    BY <1>1, <1>2, <1>3, <1>5, <1>6 DEF TokenInv, TypeOK, OneToken

\* Every step keeps the types: no semaphore gets negative, and no worker goes
\* beyond its last iteration.
LEMMA SemaphoreType ==
    ASSUME TypeOK, TurnsLeft, Next
    PROVE  TypeOK'
<1> USE DEF TypeOK, Held
<1>1. CASE \E w \in Threads : Create(w)
  <2>1. PICK w \in Threads : Create(w)
      BY <1>1
  <2>2. FrameTypeOK(Held)'
      BY <2>1, MainType DEF Create
  <2> QED
      BY <2>1, <2>2 DEF Create, Threads
<1>2. CASE MainStep /\ UNCHANGED channel
    BY <1>2, MainType DEF channel
<1>3. ASSUME NEW w \in Threads, Worker(w)
      PROVE  TypeOK'
  <2>1. CASE FrameStep(w) /\ UNCHANGED channel
      BY <2>1, FrameStepType DEF channel
  <2>2. CASE SemWait(w)
      BY <2>2 DEF SemWait, Goto, FrameTypeOK, mainVars, dataVars
  <2>3. CASE Stamp(w)
      BY <2>3, TakeStampType DEF Stamp, channel
  <2>4. CASE StoreTsc(w)
      BY <2>4 DEF StoreTsc, Publish, Goto, FrameTypeOK, mainVars, Threads, Other
  <2>5. CASE LoadTsc(w)
      BY <2>5 DEF LoadTsc, Goto, FrameTypeOK, mainVars, channel
  <2>6. CASE Record(w)
    <3>1. /\ clock' \in Nat
          /\ ds' \in [Threads -> Seq(0..(Wrap - 1))]
          /\ tsc' \in [Threads -> Nat]
        BY <2>6, RecordDeltaType DEF Record
    <3> QED
        BY <2>6, <3>1
        DEF Record, RecordDelta, Goto, FrameTypeOK, mainVars, channel
  <2>7. CASE Post(w)
    <3>1. iter[w] < N
        BY <2>7 DEF Post, TurnsLeft
    <3>2. iter' \in [Threads -> 0..N]
        BY <2>7, <3>1, HarnessAssumption DEF Post, NextIteration, FrameTypeOK
    <3>3. pc' \in [Threads -> {"none", "alloc", "await", "loop", "done"}
                                  \cup Held]
        BY <2>7 DEF Post, NextIteration, Goto, FrameTypeOK
    <3>4. sem' \in [Threads -> Nat]
        BY <2>7 DEF Post, Threads, Other
    <3> QED
        BY <2>7, <3>2, <3>3, <3>4 DEF Post, FrameTypeOK, mainVars
  <2> QED
      BY <1>3, <2>1, <2>2, <2>3, <2>4, <2>5, <2>6, <2>7 DEF Worker
<1>4. CASE Failure
    BY <1>4, FrameFailureType, ReturnNullType
    DEF Failure, SemFails, CallFails, channel
<1> QED
    BY <1>1, <1>2, <1>3, <1>4 DEF Next, Main

\* A failing call leaves the semaphores alone; the worker that makes it
\* returns, and takes along the token it may have.
LEMMA FailureIsQuiet ==
    ASSUME TypeOK, Failure
    PROVE  /\ UNCHANGED <<idx, start_work, iter, sem>>
           /\ \/ mainPc' = "failed" /\ UNCHANGED <<pc, ret>>
              \/ /\ UNCHANGED mainPc
                 /\ \E w \in Threads : /\ pc[w] # "none"
                                       /\ pc' = [pc EXCEPT ![w] = "done"]
                                       /\ ret' = [ret EXCEPT ![w] = "null"]
<1>1. CASE MainFails /\ UNCHANGED channel
    BY <1>1 DEF MainFails, dataVars, channel
<1>2. CASE (\E w \in Threads : AllocFails(w)) /\ UNCHANGED channel
    BY <1>2 DEF AllocFails, ReturnNull, Goto, mainVars, channel
<1>3. CASE \E w \in Threads : SemFails(w)
    BY <1>3 DEF SemFails, CallFails, ReturnNull, Goto, mainVars, channel
<1> QED
    BY <1>1, <1>2, <1>3 DEF Failure, FrameFailure

\* What a step of a worker's turn does to the variables of the invariant.
LEMMA TurnStep ==
    ASSUME NEW w \in Threads,
           Stamp(w) \/ StoreTsc(w) \/ LoadTsc(w) \/ Record(w)
    PROVE  /\ pc[w] \in Held
           /\ UNCHANGED <<mainVars, iter, ret, sem>>
           /\ UNCHANGED pc \/ \E to \in Held : Goto(w, to)
<1>1. CASE Stamp(w)
  <2>1. pc[w] = "stamp" /\ UNCHANGED <<mainVars, iter, ret, sem>>
      BY <1>1 DEF Stamp, TakeStamp, channel
  <2>2. UNCHANGED pc \/ Goto(w, "store")
      BY <1>1 DEF Stamp, TakeStamp
  <2> QED
      BY <2>1, <2>2 DEF Held
<1>2. CASE StoreTsc(w)
    BY <1>2 DEF StoreTsc, Held
<1>3. CASE LoadTsc(w)
    BY <1>3 DEF LoadTsc, Held, channel
<1>4. CASE Record(w)
    BY <1>4 DEF Record, RecordDelta, Held, channel
<1> QED
    BY <1>1, <1>2, <1>3, <1>4

\* start_work holds back the workers until the semaphores have their values.
LEMMA SetUpStep ==
    ASSUME TypeOK, SetUp, Next
    PROVE  SetUp'
<1> USE DEF SetUp, Working, Threads
<1>1. /\ pc \in [Threads -> {"none", "alloc", "await", "loop", "done"}
                               \cup Held]
      /\ sem \in [Threads -> Nat]
    BY DEF TypeOK, FrameTypeOK
<1>2. CASE \E w \in Threads : Create(w)
    BY <1>1, <1>2 DEF Create, CreateWorker, Goto
<1>3. CASE MainStep /\ UNCHANGED channel
    BY <1>1, <1>3 DEF MainStep, StartWork, JoinWorker, Report, channel
<1>4. ASSUME NEW w \in Threads, Worker(w)
      PROVE  SetUp'
  <2>1. CASE FrameStep(w) /\ UNCHANGED channel
      BY <1>1, <2>1
      DEF FrameStep, Alloc, AwaitStart, Finalize, Goto, mainVars, channel
  <2>2. CASE SemWait(w)
      BY <1>1, <2>2 DEF SemWait, InLoop, mainVars
  <2>3. CASE Stamp(w) \/ StoreTsc(w) \/ LoadTsc(w) \/ Record(w)
    <3>1. /\ pc[w] \notin {"none", "alloc", "await", "done"}
          /\ UNCHANGED <<mainVars, sem>>
        BY <2>3, TurnStep DEF Held
    <3> QED
        BY <3>1 DEF mainVars
  <2>4. CASE Post(w)
      BY <1>1, <2>4 DEF Post, mainVars
  <2> QED
      BY <1>4, <2>1, <2>2, <2>3, <2>4 DEF Worker
<1>5. CASE Failure
    BY <1>1, <1>5, FailureIsQuiet
<1> QED
    BY <1>2, <1>3, <1>4, <1>5 DEF Next, Main

\* A worker only takes the token with an iteration of its loop left.
LEMMA TurnsLeftStep ==
    ASSUME TypeOK, TurnsLeft, Next
    PROVE  TurnsLeft'
<1> USE DEF TurnsLeft, Held
<1>1. /\ pc \in [Threads -> {"none", "alloc", "await", "loop", "done"}
                               \cup Held]
      /\ iter \in [Threads -> 0..N]
    BY DEF TypeOK, FrameTypeOK
<1>2. CASE Main
    BY <1>1, <1>2
    DEF Main, Create, CreateWorker, MainStep, StartWork, JoinWorker, Report,
        Goto, dataVars
<1>3. ASSUME NEW w \in Threads, Worker(w)
      PROVE  TurnsLeft'
  <2>1. CASE FrameStep(w) /\ UNCHANGED channel
      BY <1>1, <2>1
      DEF FrameStep, Alloc, AwaitStart, Finalize, Goto, dataVars
  <2>2. CASE SemWait(w)
      BY <1>1, <2>2 DEF SemWait, InLoop, Goto, dataVars
  <2>3. CASE Stamp(w) \/ StoreTsc(w) \/ LoadTsc(w) \/ Record(w)
      BY <1>1, <2>3, TurnStep DEF Goto
  <2>4. CASE Post(w)
      BY <1>1, <2>4 DEF Post, NextIteration, Goto
  <2> QED
      BY <1>3, <2>1, <2>2, <2>3, <2>4 DEF Worker
<1>4. CASE Failure
    BY <1>1, <1>4, FailureIsQuiet
<1> QED
    BY <1>2, <1>3, <1>4 DEF Next

\* What a worker has returned stays, unless it has not returned yet.
LEMMA ErrorIsFinalStep ==
    ASSUME TypeOK, ErrorIsFinal, Next
    PROVE  ErrorIsFinal'
<1> USE DEF ErrorIsFinal, Threads
<1>1. /\ pc \in [Threads -> {"none", "alloc", "await", "loop", "done"}
                               \cup Held]
      /\ ret \in [Threads -> {"none", "null", "ok"}]
    BY DEF TypeOK, FrameTypeOK
<1>2. CASE Main
    BY <1>1, <1>2
    DEF Main, Create, CreateWorker, MainStep, StartWork, JoinWorker, Report,
        Goto, dataVars
<1>3. ASSUME NEW w \in Threads, Worker(w)
      PROVE  ErrorIsFinal'
  <2>1. CASE FrameStep(w) /\ UNCHANGED channel
      BY <1>1, <2>1
      DEF FrameStep, Alloc, AwaitStart, Finalize, Goto, mainVars, dataVars
  <2>2. CASE SemWait(w)
      BY <1>1, <2>2 DEF SemWait, InLoop, Goto, mainVars, dataVars
  <2>3. CASE Stamp(w) \/ StoreTsc(w) \/ LoadTsc(w) \/ Record(w)
      BY <1>1, <2>3, TurnStep DEF Goto, Held, mainVars
  <2>4. CASE Post(w)
      BY <1>1, <2>4 DEF Post, NextIteration, Goto, mainVars
  <2> QED
      BY <1>3, <2>1, <2>2, <2>3, <2>4 DEF Worker
<1>4. CASE Failure
    BY <1>1, <1>4, FailureIsQuiet DEF mainVars
<1> QED
    BY <1>2, <1>3, <1>4 DEF Next

\* Waiting takes the token from a semaphore, posting gives it to one, and no
\* other step touches it, except that a failing call may lose it.
LEMMA OneTokenStep ==
    ASSUME TypeOK, SetUp, ErrorIsFinal, OneToken, Next
    PROVE  OneToken'
<1> USE DEF OneToken, Threads
<1>1. /\ pc \in [Threads -> {"none", "alloc", "await", "loop", "done"}
                               \cup Held]
      /\ sem \in [Threads -> Nat]
      /\ ret \in [Threads -> {"none", "null", "ok"}]
    BY DEF TypeOK, FrameTypeOK
<1>2. CASE \E w \in Threads : Create(w)
  <2>1. ~start_work'
      BY <1>2 DEF Create, CreateWorker, SetUp
  <2> QED
      BY <2>1
<1>3. CASE StartWork /\ UNCHANGED channel
  <2>1. mainPc = "start" /\ UNCHANGED <<pc, sem>>
      BY <1>3 DEF StartWork, channel
  <2>2. \A w \in Threads : pc[w] \in {"none", "alloc", "await", "done"}
      BY <1>1, <2>1 DEF SetUp, Working
  <2>3. sem[0] = 1 /\ sem[1] = 0
      BY <2>1 DEF SetUp
  <2> QED
      BY <2>1, <2>2, <2>3 DEF Held
<1>4. CASE ((\E w \in Threads : JoinWorker(w)) \/ Report) /\ UNCHANGED channel
  <2>1. mainPc # "failed" /\ UNCHANGED <<start_work, pc, ret, sem>>
      BY <1>4 DEF JoinWorker, Report, channel, dataVars
  <2> QED
      BY <2>1 DEF CallHasFailed
<1>5. ASSUME NEW w \in Threads, Worker(w)
      PROVE  OneToken'
  <2>1. UNCHANGED start_work
      BY <1>5
      DEF Worker, FrameStep, Alloc, AwaitStart, Finalize, SemWait, Stamp,
          StoreTsc, LoadTsc, Record, Post, TakeStamp, RecordDelta, mainVars
  <2>2. CASE FrameStep(w) /\ UNCHANGED channel
    <3>1. UNCHANGED sem /\ mainPc # "failed"
        BY <1>5, <2>2 DEF channel, Worker, Ended
    <3>2. /\ pc[w] \notin Held /\ pc'[w] \notin Held
          /\ \A v \in Threads \ {w} : pc'[v] = pc[v]
        BY <1>1, <2>2
        DEF FrameStep, Alloc, AwaitStart, Finalize, Goto, Held
    <3>3. CallHasFailed => CallHasFailed'
        BY <1>1, <2>2, <3>1
        DEF FrameStep, Alloc, AwaitStart, Finalize, ErrorIsFinal,
            CallHasFailed, dataVars
    <3> QED
        BY <1>1, <2>1, <3>1, <3>2, <3>3
  <2>3. CASE SemWait(w)
    <3>1. UNCHANGED <<mainPc, ret>>
        BY <2>3 DEF SemWait, mainVars, dataVars
    <3> QED
        BY <1>1, <2>1, <2>3, <3>1
        DEF SemWait, InLoop, Goto, Held, CallHasFailed
  <2>4. CASE Stamp(w) \/ StoreTsc(w) \/ LoadTsc(w) \/ Record(w)
      BY <1>1, <2>1, <2>4, TurnStep DEF Goto, CallHasFailed, mainVars
  <2>5. CASE Post(w)
    <3>1. UNCHANGED <<mainPc, ret>>
        BY <2>5 DEF Post, mainVars
    <3> QED
        BY <1>1, <2>1, <2>5, <3>1
        DEF Post, NextIteration, Goto, Other, Held, CallHasFailed
  <2> QED
      BY <1>5, <2>2, <2>3, <2>4, <2>5 DEF Worker
<1>6. CASE Failure
  <2>1. CallHasFailed'
      BY <1>1, <1>6, FailureIsQuiet DEF CallHasFailed
  <2>2. \A w \in Threads : pc'[w] \in Held => pc[w] \in Held
      BY <1>1, <1>6, FailureIsQuiet DEF Held
  <2>3. UNCHANGED <<start_work, sem>>
      BY <1>6, FailureIsQuiet
  <2> QED
      BY <1>1, <2>1, <2>2, <2>3
<1> QED
    BY <1>2, <1>3, <1>4, <1>5, <1>6 DEF Next, Main, MainStep

\* The invariant is inductive: a step of the control thread or of a worker of
\* --sem, or no step at all, keeps it.
LEMMA TokenStep == TokenInv /\ [Next]_vars => TokenInv'
<1>1. TokenInv /\ Next => TokenInv'
    BY SemaphoreType, SetUpStep, TurnsLeftStep, ErrorIsFinalStep, OneTokenStep
    DEF TokenInv
<1>2. TokenInv /\ UNCHANGED vars => TokenInv'
    BY DEF TokenInv, TypeOK, FrameTypeOK, SetUp, Working, TurnsLeft,
           ErrorIsFinal, OneToken, CallHasFailed, vars, frameVars, mainVars,
           dataVars, channel
<1> QED
    BY <1>1, <1>2

\* There is never more than one token in the semaphores and the turns of the
\* workers, and no less unless a call has failed (src/pingpong.c:602-645).
THEOREM OneTokenAlways == Spec => []TokenInv
BY TokenInit, TokenStep, PTL DEF Spec

\* The token excludes that both workers are in their turn.
LEMMA TokenExcludes == TokenInv => RaceFree
<1> SUFFICES ASSUME TokenInv PROVE RaceFree
    OBVIOUS
<1>1. /\ pc \in [Threads -> {"none", "alloc", "await", "loop", "done"}
                               \cup Held]
      /\ sem \in [Threads -> Nat]
    BY DEF TokenInv, TypeOK, FrameTypeOK
<1>2. ASSUME NEW w \in Threads, pc[w] \in Held
      PROVE  start_work
    BY <1>2 DEF TokenInv, SetUp, Working, Held
<1> QED
    BY <1>1, <1>2 DEF TokenInv, OneToken, RaceFree, Other, Held, Threads

\* The plain word of a stripe (src/pingpong.c:113, 616, 634) is free of races.
THEOREM NoRaces == Spec => []RaceFree
BY OneTokenAlways, TokenExcludes, PTL
-----------------------------------------------------------------------------
(***************************************************************************)
(* The rally                                                               *)
(***************************************************************************)

\* A worker in its turn has the only token: both semaphores are down.
LEMMA TurnAlone ==
    ASSUME TokenInv, NEW w \in Threads, pc[w] \in Held
    PROVE  /\ start_work /\ iter[w] < N
           /\ sem[0] = 0 /\ sem[1] = 0
           /\ pc[Other(w)] \notin Held
<1>1. sem[0] \in Nat /\ sem[1] \in Nat
    BY DEF TokenInv, TypeOK, Threads
<1>2. start_work
    BY DEF TokenInv, SetUp, Working, Held
<1> QED
    BY <1>1, <1>2 DEF TokenInv, TurnsLeft, OneToken, Other, Threads

\* No ball has been hit and no semaphore is up when the program begins.
LEMMA RallyInit == Init => RallyInv /\ R!Init
<1> SUFFICES ASSUME Init PROVE RallyInv /\ R!Init
    OBVIOUS
<1>1. FrameInit
    BY DEF Init
<1>2. /\ \A w \in Threads : sem[w] = 0 /\ pc[w] = "none" /\ iter[w] = 0
      /\ \A w \in Threads : pub[w] = 0 /\ rcv[w] = 0
    BY DEF Init, FrameInit, rcv
<1>3. StripeTellsBall /\ WorkerKnows
    BY <1>2
    DEF StripeTellsBall, WorkerKnows, Knows, Played, MayCatch, Other, Threads
<1> QED
    BY <1>1, <1>3, TokenInit, OrderInit, RallyBegins DEF RallyInv

\* A step of one worker, or of none, that neither sends nor receives keeps the
\* invariant if it keeps what that worker knows, and only posts a semaphore to
\* tell its owner the truth.
LEMMA QuietStep ==
    ASSUME RallyInv, TokenInv', FrameInv', NEW w \in Threads,
           UNCHANGED <<tsc, ds, pub, ball, stsc>>,
           \A v \in Threads \ {w} : /\ pc'[v] = pc[v] /\ iter'[v] = iter[v]
                                    /\ reg'[v] = reg[v] /\ ret'[v] = ret[v],
           \A v \in Threads : sem'[v] > 0 => MayHit(v) \/ MayCatch(v),
           Knows(w)'
    PROVE  RallyInv' /\ UNCHANGED R!rallyVars
<1>1. /\ UNCHANGED rcv /\ UNCHANGED R!rallyVars /\ OneBall'
      /\ \A v : (MayHit(v)' <=> MayHit(v)) /\ (MayCatch(v)' <=> MayCatch(v))
    BY QuietKeepsRally DEF RallyInv
<1>2. StripeTellsBall'
    BY <1>1 DEF RallyInv, StripeTellsBall
<1>3. ASSUME NEW v \in Threads \ {w}
      PROVE  Knows(v)'
    BY <1>1, <1>3 DEF RallyInv, WorkerKnows, Knows, Played, Sends
<1> QED
    BY <1>1, <1>2, <1>3 DEF RallyInv, WorkerKnows

\* The turn of a worker that has played as many iterations as it sent and
\* received stamps shows in the parity of i (src/pingpong.c:602).
LEMMA TurnShows ==
    ASSUME RallyInv, NEW w \in Threads, pc[w] \in Held \cup {"loop"}
    PROVE  IF pc[w] = "post" THEN Sends(w) <=> ~MayHit(w)
           ELSE Sends(w) <=> MayHit(w)
<1>1. FrameTypeOK(Held) /\ OneBall /\ iter[w] \in Nat
    BY HarnessAssumption DEF RallyInv, TokenInv, TypeOK, FrameTypeOK
<1>2. ret[w] # "null"
    BY DEF RallyInv, FrameInv, Held
<1>3. Played(w) = pub[w] + rcv[w] /\ Played(w) \in Nat
    BY <1>1, <1>2 DEF RallyInv, WorkerKnows, Knows, Played
<1>4. Played(w) % 2 = w <=> MayHit(w)
    BY <1>1, <1>3, ParityTellsTurn
<1>5. CASE pc[w] # "post"
    BY <1>1, <1>4, <1>5 DEF Played, Sends
<1>6. CASE pc[w] = "post"
  <2>1. (iter[w] + 1) % 2 = w <=> MayHit(w)
      BY <1>4, <1>6 DEF Played
  <2>2. iter[w] % 2 = w <=> (iter[w] + 1) % 2 # w
      BY <1>1 DEF Threads
  <2> QED
      BY <1>6, <2>1, <2>2 DEF Sends
<1> QED
    BY <1>5, <1>6

\* A step within a worker's turn or at its end leaves the order of the run.
LEMMA TurnKeepsOrder ==
    ASSUME RallyInv, TypeOK', NEW w \in Threads,
           \/ SemWait(w) \/ Stamp(w) \/ StoreTsc(w)
           \/ LoadTsc(w) \/ Record(w) \/ Post(w)
    PROVE  /\ FrameInv'
           /\ \A v \in Threads \ {w} : pc'[v] = pc[v] /\ iter'[v] = iter[v]
           /\ UNCHANGED ret
<1>1. /\ FrameTypeOK(Held) /\ FrameInv
      /\ pc \in [Threads -> {"none", "alloc", "await", "loop", "done"} \cup Held]
      /\ iter \in [Threads -> 0..N]
    BY DEF RallyInv, TokenInv, TypeOK, FrameTypeOK
<1>2. /\ pc[w] \in Held \cup {"loop"}
      /\ UNCHANGED <<mainVars, ret>>
      /\ UNCHANGED pc \/ \E to \in Held \cup {"loop"} : Goto(w, to)
      /\ UNCHANGED iter \/ iter' = [iter EXCEPT ![w] = @ + 1]
  <2>1. CASE SemWait(w)
      BY <2>1 DEF SemWait, InLoop, Held, dataVars
  <2>2. CASE Stamp(w) \/ StoreTsc(w) \/ LoadTsc(w) \/ Record(w)
      BY <2>2, TurnStep
  <2>3. CASE Post(w)
      BY <2>3 DEF Post, NextIteration, Held
  <2> QED
      BY <2>1, <2>2, <2>3
<1>3. /\ \A v \in Threads \ {w} : pc'[v] = pc[v] /\ iter'[v] = iter[v]
      /\ pc'[w] \in Held \cup {"loop"}
    BY <1>1, <1>2 DEF Goto
<1>4. \A v \in Threads \ {w} : ds'[v] = ds[v]
  <2>1. CASE Record(w)
      BY <1>1, <2>1, RecordDeltaType DEF Record
  <2>2. CASE ~Record(w)
      BY <2>2
      DEF SemWait, Stamp, TakeStamp, StoreTsc, LoadTsc, Post, dataVars
  <2> QED
      BY <2>1, <2>2
<1>5. Working(w) /\ Working(w)'
    BY <1>2, <1>3 DEF Working, Held
<1>6. FrameInv'
    BY <1>1, <1>2, <1>3, <1>4, <1>5, WorkerKeepsOrder DEF mainVars
<1> QED
    BY <1>2, <1>3, <1>6

\* The step that stores a stamp in the other's stripe hits a ball.
LEMMA StoreHits ==
    ASSUME RallyInv, TokenInv', NEW w \in Threads, StoreTsc(w)
    PROVE  RallyInv' /\ R!Hit(w)
<1>0. FrameTypeOK(Held) /\ OneBall /\ stsc \in [Threads -> Nat]
    BY DEF RallyInv, TokenInv, TypeOK
<1>1. /\ FrameTypeOK(Held) /\ OneBall
      /\ iter[w] \in Nat /\ stsc \in [Threads -> Nat]
      /\ pc \in [Threads -> {"none", "alloc", "await", "loop", "done"} \cup Held]
    BY <1>0, HarnessAssumption DEF FrameTypeOK
<1>2. /\ pc[w] = "store" /\ Publish(w)
      /\ stsc' = [stsc EXCEPT ![Other(w)] = reg[w]]
      /\ pc' = [pc EXCEPT ![w] = "post"]
      /\ UNCHANGED <<iter, tsc, ds, sem, ret>>
    BY DEF StoreTsc, Goto
<1>3. /\ sem[0] = 0 /\ sem[1] = 0 /\ iter[w] < N /\ pc[Other(w)] \notin Held
    BY <1>2, TurnAlone DEF RallyInv, Held
<1>4. Sends(w) /\ reg[w] > tsc[w]
    BY <1>2 DEF RallyInv, WorkerKnows, Knows
<1>5. MayHit(w)
    BY <1>2, <1>4, TurnShows DEF Held
<1>6. iter[w] = pub[w] + rcv[w] /\ ret[w] # "null"
    BY <1>1, <1>2 DEF RallyInv, FrameInv, WorkerKnows, Knows, Played
<1>7. /\ R!Hit(w) /\ OneBall' /\ rcv' = rcv
      /\ pub'[w] = pub[w] + 1 /\ pub'[Other(w)] = pub[Other(w)]
      /\ ball' = reg[w]
      /\ MayCatch(Other(w))' /\ ~MayCatch(w)'
    BY <1>1, <1>2, <1>3, <1>4, <1>5, <1>6, HitKeepsOneBall
<1>8. Other(w) \in Threads /\ Other(w) # w /\ Threads = {w, Other(w)}
    BY <1>1, WhoseTurn
<1>9. FrameInv'
    BY TurnKeepsOrder DEF TokenInv
<1>10. StripeTellsBall'
  <2>1. \A v \in Threads : sem'[v] = 0
      BY <1>2, <1>3 DEF Threads
  <2>2. stsc'[Other(w)] = ball'
      BY <1>1, <1>2, <1>7, <1>8
  <2> QED
      BY <1>7, <1>8, <2>1, <2>2 DEF StripeTellsBall
<1>11. Knows(w)'
  <2>1. pc'[w] = "post" /\ iter'[w] = iter[w]
      BY <1>1, <1>2
  <2>2. rcv[w] \in Nat /\ pub[w] \in Nat
      BY <1>1, RallyTypes
  <2>3. Played(w)' = pub'[w] + rcv'[w]
      BY <1>1, <1>6, <1>7, <2>1, <2>2 DEF Played
  <2> QED
      BY <1>7, <2>1, <2>3 DEF Knows
<1>12. Knows(Other(w))'
  <2>1. pc'[Other(w)] = pc[Other(w)]
      BY <1>1, <1>2, <1>8
  <2> QED
      BY <1>2, <1>3, <1>7, <1>8, <2>1
      DEF RallyInv, WorkerKnows, Knows, Played, Held
<1> QED
    BY <1>7, <1>8, <1>9, <1>10, <1>11, <1>12 DEF RallyInv, WorkerKnows

\* The step that records a delta catches the ball.
LEMMA RecordCatches ==
    ASSUME RallyInv, TokenInv', NEW w \in Threads, Record(w)
    PROVE  RallyInv' /\ R!Catch(w)
<1>0. FrameTypeOK(Held) /\ OneBall
    BY DEF RallyInv, TokenInv, TypeOK
<1>1. /\ FrameTypeOK(Held) /\ OneBall /\ iter[w] \in Nat
      /\ pc \in [Threads -> {"none", "alloc", "await", "loop", "done"} \cup Held]
    BY <1>0, HarnessAssumption DEF FrameTypeOK
<1>2. /\ pc[w] = "now" /\ RecordDelta(w)
      /\ pc' = [pc EXCEPT ![w] = "post"]
      /\ UNCHANGED <<iter, stsc, sem, ret, pub, ball>>
    BY DEF Record, RecordDelta, Goto, channel
<1>3. sem[0] = 0 /\ sem[1] = 0 /\ pc[Other(w)] \notin Held
    BY <1>2, TurnAlone DEF RallyInv, Held
<1>4. ~Sends(w) /\ MayCatch(w) /\ reg[w] = ball
    BY <1>2 DEF RallyInv, WorkerKnows, Knows
<1>5. iter[w] = pub[w] + rcv[w] /\ ret[w] # "null"
    BY <1>1, <1>2 DEF RallyInv, FrameInv, WorkerKnows, Knows, Played
<1>6. /\ R!Catch(w) /\ OneBall'
      /\ rcv'[w] = rcv[w] + 1 /\ rcv'[Other(w)] = rcv[Other(w)]
      /\ ~MayCatch(w)' /\ ~MayCatch(Other(w))'
    BY <1>1, <1>2, <1>4, CatchKeepsOneBall
<1>7. Other(w) \in Threads /\ Other(w) # w /\ Threads = {w, Other(w)}
    BY <1>1, WhoseTurn
<1>8. FrameInv'
    BY TurnKeepsOrder DEF TokenInv
<1>9. StripeTellsBall'
  <2>1. \A v \in Threads : sem'[v] = 0
      BY <1>2, <1>3 DEF Threads
  <2> QED
      BY <1>6, <1>7, <2>1 DEF StripeTellsBall
<1>10. Knows(w)'
  <2>1. pc'[w] = "post" /\ iter'[w] = iter[w] /\ ~Sends(w)'
      BY <1>1, <1>2, <1>4 DEF Sends
  <2>2. rcv[w] \in Nat /\ pub[w] \in Nat /\ pub'[w] = pub[w]
      BY <1>1, <1>2, RallyTypes
  <2>3. Played(w)' = pub'[w] + rcv'[w]
      BY <1>1, <1>5, <1>6, <2>1, <2>2 DEF Played
  <2> QED
      BY <2>1, <2>3 DEF Knows
<1>11. Knows(Other(w))'
  <2>1. pc'[Other(w)] = pc[Other(w)]
      BY <1>1, <1>2, <1>7
  <2> QED
      BY <1>2, <1>3, <1>6, <1>7, <2>1
      DEF RallyInv, WorkerKnows, Knows, Played, Held
<1> QED
    BY <1>6, <1>7, <1>8, <1>9, <1>10, <1>11 DEF RallyInv, WorkerKnows

\* Each step of --sem keeps the invariant, and to the rally it is a hit, a
\* catch or no step.
LEMMA RallyStep ==
    ASSUME RallyInv, Next
    PROVE  RallyInv' /\ (R!Next \/ UNCHANGED R!rallyVars)
<1>1. TokenInv'
    BY TokenStep DEF RallyInv
<1>2. /\ pc \in [Threads -> {"none", "alloc", "await", "loop", "done"} \cup Held]
      /\ reg \in [Threads -> Nat]
      /\ ret \in [Threads -> {"none", "null", "ok"}]
      /\ sem \in [Threads -> Nat]
    BY DEF RallyInv, TokenInv, TypeOK, FrameTypeOK
<1>3. FrameTypeOK(Held) /\ FrameInv /\ OneBall
    BY DEF RallyInv, TokenInv, TypeOK
<1>4. \A v \in Threads : /\ sem[v] > 0 => MayHit(v) \/ MayCatch(v)
                         /\ Knows(v)
    BY DEF RallyInv, StripeTellsBall, WorkerKnows
<1>5. CASE \E w \in Threads : StoreTsc(w)
    BY <1>1, <1>5, StoreHits DEF R!Next, R!Threads, Threads
<1>6. CASE \E w \in Threads : Record(w)
    BY <1>1, <1>6, RecordCatches DEF R!Next, R!Threads, Threads
<1>7. ASSUME NEW w \in Threads, Create(w)
      PROVE  RallyInv' /\ UNCHANGED R!rallyVars
  <2>1. /\ UNCHANGED <<iter, tsc, reg, ds, ret, pub, ball, stsc>>
        /\ pc' = [pc EXCEPT ![w] = "alloc"] /\ sem' = [sem EXCEPT ![w] = 1 - w]
        /\ mainPc = "create" /\ idx = w
      BY <1>7 DEF Create, CreateWorker, Goto, dataVars
  <2>2. FrameInv'
      BY <1>3, <1>7, MainKeepsOrder DEF Create
  <2>3. /\ pc[w] = "none" /\ iter[w] = 0 /\ ret[w] = "none"
        /\ pc'[w] = "alloc"
      BY <1>2, <1>3, <2>1 DEF FrameInv, Threads
  <2>4. /\ iter[w] = pub[w] + rcv[w] /\ UNCHANGED rcv
        /\ pub[w] \in Nat /\ rcv[w] \in Nat
      BY <1>3, <1>4, <2>1, <2>3, RallyTypes DEF Knows, Played, rcv
  <2>5. w = 0 => MayHit(w)
      BY <2>3, <2>4 DEF MayHit
  <2>6. \A v \in Threads : sem'[v] > 0 => MayHit(v) \/ MayCatch(v)
    <3>1. sem'[w] = 1 - w /\ \A v \in Threads \ {w} : sem'[v] = sem[v]
        BY <1>2, <2>1
    <3> QED
        BY <1>4, <2>5, <3>1 DEF Threads
  <2>7. Knows(w)'
      BY <2>1, <2>3, <2>4 DEF Knows, Played
  <2> QED
      BY <1>1, <1>2, <2>1, <2>2, <2>6, <2>7, QuietStep
<1>8. ASSUME MainStep, UNCHANGED channel
      PROVE  RallyInv' /\ UNCHANGED R!rallyVars
  <2>1. UNCHANGED <<iter, tsc, reg, ds, ret, pub, ball, stsc, sem, pc>>
      BY <1>8 DEF MainStep, StartWork, JoinWorker, Report, dataVars, channel
  <2>2. FrameInv'
      BY <1>3, <1>8, MainKeepsOrder
  <2>3. Knows(0)'
      BY <1>4, <2>1, QuietKeepsRally DEF Knows, Played, Sends, Threads
  <2> QED
      BY <1>1, <1>4, <2>1, <2>2, <2>3, QuietStep DEF Threads
<1>9. ASSUME NEW w \in Threads, FrameStep(w), UNCHANGED channel
      PROVE  RallyInv' /\ UNCHANGED R!rallyVars
  <2>1. /\ UNCHANGED <<iter, tsc, reg, ds, pub, ball, stsc, sem>>
        /\ UNCHANGED ret \/ ret' = [ret EXCEPT ![w] = "ok"]
        /\ UNCHANGED pc \/ \E to \in {"await", "loop", "done"} : Goto(w, to)
        /\ pc[w] \in {"alloc", "await", "loop"}
      BY <1>9 DEF FrameStep, Alloc, AwaitStart, Finalize, dataVars, channel
  <2>2. FrameInv'
      BY <1>3, <1>9, FrameStepKeepsOrder
  <2>3. /\ pc'[w] \in {"alloc", "await", "loop", "done"} /\ ret[w] = "none"
        /\ \A v \in Threads \ {w} : pc'[v] = pc[v] /\ ret'[v] = ret[v]
      BY <1>2, <1>3, <2>1 DEF Goto, FrameInv
  <2>4. Knows(w)'
      BY <1>4, <2>1, <2>3, QuietKeepsRally DEF Knows, Played, Sends
  <2> QED
      BY <1>1, <1>4, <2>1, <2>2, <2>3, <2>4, QuietStep
<1>10. ASSUME NEW w \in Threads, SemWait(w)
       PROVE  RallyInv' /\ UNCHANGED R!rallyVars
  <2>1. /\ UNCHANGED <<iter, tsc, reg, ds, ret, pub, ball, stsc>>
        /\ pc[w] = "loop" /\ sem[w] > 0 /\ sem' = [sem EXCEPT ![w] = @ - 1]
        /\ Goto(w, IF Sends(w) THEN "stamp" ELSE "load")
      BY <1>10 DEF SemWait, InLoop, dataVars
  <2>2. /\ pc'[w] = IF Sends(w) THEN "stamp" ELSE "load"
        /\ \A v \in Threads : sem'[v] > 0 => sem[v] > 0
      BY <1>2, <2>1 DEF Goto
  <2>3. ~Sends(w) => MayCatch(w)
      BY <1>4, <2>1, TurnShows
  <2>4. Knows(w)'
      BY <1>4, <2>1, <2>2, <2>3, QuietKeepsRally DEF Knows, Played, Sends
  <2> QED
      BY <1>1, <1>4, <1>10, <2>1, <2>2, <2>4, QuietStep, TurnKeepsOrder
      DEF TokenInv
<1>11. ASSUME NEW w \in Threads, Stamp(w)
       PROVE  RallyInv' /\ UNCHANGED R!rallyVars
  <2>1. /\ UNCHANGED <<iter, tsc, ds, ret, pub, ball, stsc, sem>>
        /\ pc[w] = "stamp"
      BY <1>11 DEF Stamp, TakeStamp, channel
  <2>2. /\ \/ UNCHANGED <<reg, pc>>
           \/ reg'[w] > tsc[w] /\ pc' = [pc EXCEPT ![w] = "store"]
        /\ \A v \in Threads \ {w} : reg'[v] = reg[v]
      BY <1>3, <1>11, TakeStampType DEF Stamp, Held, Goto
  <2>3. \/ pc'[w] = "stamp"
        \/ pc'[w] = "store" /\ reg'[w] > tsc[w]
    <3>1. CASE UNCHANGED <<reg, pc>>
        BY <2>1, <3>1
    <3>2. CASE reg'[w] > tsc[w] /\ pc' = [pc EXCEPT ![w] = "store"]
        BY <1>2, <3>2
    <3> QED
        BY <2>2, <3>1, <3>2
  <2>4. Knows(w)'
      BY <1>4, <2>1, <2>3, QuietKeepsRally DEF Knows, Played, Sends
  <2> QED
      BY <1>1, <1>4, <1>11, <2>1, <2>2, <2>4, QuietStep, TurnKeepsOrder
      DEF TokenInv
<1>12. ASSUME NEW w \in Threads, LoadTsc(w)
       PROVE  RallyInv' /\ UNCHANGED R!rallyVars
  <2>1. /\ UNCHANGED <<iter, tsc, ds, ret, pub, ball, stsc, sem>>
        /\ pc[w] = "load" /\ pc' = [pc EXCEPT ![w] = "now"]
        /\ reg' = [reg EXCEPT ![w] = stsc[w]]
      BY <1>12 DEF LoadTsc, Goto, channel
  <2>2. ~Sends(w) /\ MayCatch(w) /\ stsc[w] = ball
      BY <1>4, <2>1 DEF Knows, RallyInv, StripeTellsBall
  <2>3. /\ pc'[w] = "now" /\ reg'[w] = ball
        /\ \A v \in Threads \ {w} : reg'[v] = reg[v]
      BY <1>2, <2>1, <2>2
  <2>4. Knows(w)'
      BY <1>4, <2>1, <2>2, <2>3, QuietKeepsRally DEF Knows, Played, Sends
  <2> QED
      BY <1>1, <1>4, <1>12, <2>1, <2>3, <2>4, QuietStep, TurnKeepsOrder
      DEF TokenInv
<1>13. ASSUME NEW w \in Threads, Post(w)
       PROVE  RallyInv' /\ UNCHANGED R!rallyVars
  <2>1. /\ UNCHANGED <<tsc, reg, ds, ret, pub, ball, stsc>>
        /\ pc[w] = "post" /\ pc' = [pc EXCEPT ![w] = "loop"]
        /\ iter' = [iter EXCEPT ![w] = @ + 1]
        /\ sem' = [sem EXCEPT ![IF Sends(w) THEN Other(w) ELSE w] = @ + 1]
      BY <1>13 DEF Post, NextIteration, Goto
  <2>2. /\ Sends(w) => MayCatch(Other(w))
        /\ ~Sends(w) => MayHit(w)
      BY <1>4, <2>1, TurnShows DEF Knows, Held
  <2>3. \A v \in Threads : sem'[v] > 0 => MayHit(v) \/ MayCatch(v)
      BY <1>2, <1>4, <2>1, <2>2
  <2>4. pc'[w] = "loop" /\ iter'[w] = iter[w] + 1 /\ iter[w] \in Nat
    <3>1. iter \in [Threads -> 0..N]
        BY <1>3 DEF FrameTypeOK
    <3> QED
        BY <1>2, <2>1, <3>1, HarnessAssumption
  <2>5. Knows(w)'
    <3>1. Played(w)' = Played(w)
        BY <2>1, <2>4 DEF Played
    <3> QED
        BY <1>4, <2>1, <2>4, <3>1, QuietKeepsRally DEF Knows
  <2> QED
      BY <1>1, <1>13, <2>1, <2>3, <2>5, QuietStep, TurnKeepsOrder DEF TokenInv
<1>14. ASSUME MainFails, UNCHANGED channel
       PROVE  RallyInv' /\ UNCHANGED R!rallyVars
  <2>1. UNCHANGED <<iter, tsc, reg, ds, ret, pub, ball, stsc, sem, pc>>
      BY <1>14 DEF MainFails, dataVars, channel
  <2>2. FrameInv'
      BY <1>3, <1>14, FrameFailureKeepsOrder DEF FrameFailure
  <2>3. Knows(0)'
      BY <1>4, <2>1, QuietKeepsRally DEF Knows, Played, Sends, Threads
  <2> QED
      BY <1>1, <1>4, <2>1, <2>2, <2>3, QuietStep DEF Threads
<1>15. ASSUME NEW w \in Threads, AllocFails(w) \/ SemFails(w), UNCHANGED channel
       PROVE  RallyInv' /\ UNCHANGED R!rallyVars
  <2>1. ReturnNull(w) /\ pc[w] \notin {"none", "done"}
      BY <1>15 DEF AllocFails, SemFails, CallFails
  <2>2. /\ UNCHANGED <<iter, tsc, reg, ds, pub, ball, stsc, sem>>
        /\ ret' = [ret EXCEPT ![w] = "null"] /\ pc' = [pc EXCEPT ![w] = "done"]
      BY <1>15, <2>1 DEF ReturnNull, Goto, channel
  <2>3. FrameInv'
      BY <1>3, <2>1, ReturnNullKeepsOrder
  <2>4. /\ ret'[w] = "null" /\ pc'[w] = "done"
        /\ \A v \in Threads \ {w} : pc'[v] = pc[v] /\ ret'[v] = ret[v]
      BY <1>2, <2>2
  <2>5. Knows(w)'
      BY <2>4 DEF Knows
  <2> QED
      BY <1>1, <1>4, <2>2, <2>3, <2>4, <2>5, QuietStep
<1>16. CASE Failure
    BY <1>14, <1>15, <1>16 DEF Failure, FrameFailure, SemFails
<1> QED
    BY <1>5, <1>6, <1>7, <1>8, <1>9, <1>10, <1>11, <1>12, <1>13, <1>16
    DEF Next, Main, Worker

\* The invariant behind the rally holds at all times.
THEOREM RallyInvAlways == Spec => []RallyInv
<1>1. RallyInv /\ UNCHANGED vars => RallyInv'
  <2> SUFFICES ASSUME RallyInv, UNCHANGED vars PROVE RallyInv'
      OBVIOUS
  <2>1. TokenInv'
      BY TokenStep DEF RallyInv
  <2>2. FrameInv'
      BY DEF RallyInv, FrameInv, Working, vars, frameVars, mainVars, dataVars
  <2>3. Knows(0)'
      BY QuietKeepsRally
      DEF RallyInv, WorkerKnows, Knows, Played, Sends, Threads,
          vars, frameVars, dataVars
  <2> QED
      BY <2>1, <2>2, <2>3, QuietStep
      DEF RallyInv, StripeTellsBall, Threads, vars, frameVars, dataVars, channel
<1> QED
    BY RallyInit, RallyStep, <1>1, PTL DEF Spec

\* The semaphore method (src/pingpong.c:594-648) implements the rally: the
\* plain word of a stripe carries every stamp once, in turn, to the other
\* worker.
THEOREM SemaphoreImplementsRally == Spec => ImplementsRally
<1>1. RallyInv /\ [Next]_vars => [R!Next]_(R!rallyVars)
  <2>1. UNCHANGED vars => UNCHANGED R!rallyVars
      BY QuietKeepsRally DEF vars, frameVars, dataVars
  <2> QED
      BY <2>1, RallyStep
<1> QED
    BY RallyInit, <1>1, RallyInvAlways, PTL DEF Spec, ImplementsRally, R!Spec

\* The report (src/pingpong.c:876-895) prints all the deltas of both workers.
THEOREM ReportAlwaysComplete == Spec => []ReportIsComplete
<1>1. RallyInv => ReportIsComplete
  <2> SUFFICES ASSUME RallyInv PROVE ReportIsComplete
      OBVIOUS
  <2>1. FrameTypeOK(Held) /\ FrameInv /\ OneBall
      BY DEF RallyInv, TokenInv, TypeOK
  <2>2. ASSUME NEW w \in Threads, ret[w] = "ok"
        PROVE  iter[w] = pub[w] + rcv[w]
    <3>1. pc[w] = "done" /\ iter[w] \in Nat
        BY <2>1, <2>2, HarnessAssumption DEF FrameInv, FrameTypeOK
    <3> QED
        BY <2>2, <3>1 DEF RallyInv, WorkerKnows, Knows, Played
  <2> QED
      BY <2>1, <2>2, ReportHasAllDeltas
<1> QED
    BY RallyInvAlways, <1>1, PTL

\* With an even -n the assertion of spin_main_finalize (src/pingpong.c:260)
\* cannot fail.
THEOREM DeltasFitEven == N % 2 = 0 => (Spec => []DeltasFit)
<1> SUFFICES ASSUME N % 2 = 0 PROVE Spec => []DeltasFit
    OBVIOUS
<1>1. RallyInv => DeltasFit
    BY BallsFitArrays DEF RallyInv, TokenInv, TypeOK
<1> QED
    BY RallyInvAlways, <1>1, PTL
\* The reason for LatenciesDisjoint: a stamp is on its way, or about to be
\* sent, since a moment at which all latencies so far were over
\* (src/pingpong.c:594-648).
LatencyInv == RallyInv /\ InTime({"store"})

\* A stamp is taken after all latencies so far were over, and the one it begins
\* ends when the other worker records it (src/pingpong.c:594-648).
LEMMA LatencyStep ==
    ASSUME RallyInv, InTime({"store"}), Next
    PROVE  InTime({"store"})'
<1>1. /\ FrameTypeOK(Held) /\ OneBall /\ FrameInv
      /\ clock \in Nat /\ reg \in [Threads -> Nat]
      /\ pc \in [Threads -> {"none", "alloc", "await", "loop", "done"}
                               \cup Held]
    BY DEF RallyInv, TokenInv, TypeOK, FrameTypeOK
<1>2. RallyInv'
    BY RallyStep
<1>3. reg' \in [Threads -> Nat]
    BY <1>2 DEF RallyInv, TokenInv, TypeOK, FrameTypeOK
<1>4. ASSUME UNCHANGED <<ds, pub, ball, clock>>,
             \A w \in Threads :
                 pc'[w] \in {"store"} => pc[w] \in {"store"} /\ reg'[w] = reg[w]
      PROVE  InTime({"store"})'
    BY <1>1, <1>3, <1>4, InTimeQuiet
<1>5. ASSUME UNCHANGED <<ds, pub, ball, clock, reg>>,
             \A w \in Threads : pc'[w] \in {"store"} => pc[w] \in {"store"}
      PROVE  InTime({"store"})'
    BY <1>4, <1>5
<1>6. CASE Main
  <2>1. UNCHANGED <<ds, pub, ball, clock, reg>>
      BY <1>6
      DEF Main, Create, CreateWorker, MainStep, StartWork, JoinWorker, Report,
          dataVars
  <2>2. \A v \in Threads : pc'[v] \in {pc[v], "alloc"}
      BY <1>1, <1>6
      DEF Main, Create, CreateWorker, MainStep, StartWork, JoinWorker, Report,
          Goto
  <2> QED
      BY <1>5, <2>1, <2>2
<1>7. CASE Failure
  <2>1. UNCHANGED <<ds, pub, ball, clock, reg>>
      BY <1>7
      DEF Failure, FrameFailure, MainFails, AllocFails, SemFails, CallFails,
          ReturnNull, dataVars
  <2>2. \A v \in Threads : pc'[v] \in {pc[v], "done"}
      BY <1>1, <1>7
      DEF Failure, FrameFailure, MainFails, AllocFails, SemFails, CallFails,
          ReturnNull, Goto
  <2> QED
      BY <1>5, <2>1, <2>2
<1>8. ASSUME NEW w \in Threads, FrameStep(w)
      PROVE  InTime({"store"})'
  <2>1. UNCHANGED <<ds, pub, ball, clock, reg>>
      BY <1>8 DEF FrameStep, Alloc, AwaitStart, Finalize, dataVars
  <2>2. \A v \in Threads : pc'[v] \in {pc[v], "await", "loop", "done"}
      BY <1>1, <1>8 DEF FrameStep, Alloc, AwaitStart, Finalize, Goto
  <2> QED
      BY <1>5, <2>1, <2>2
<1>9. ASSUME NEW w \in Threads, Stamp(w)
      PROVE  InTime({"store"})'
    BY <1>1, <1>9, InTimeStamp DEF Stamp
<1>10. ASSUME NEW w \in Threads, StoreTsc(w)
       PROVE  InTime({"store"})'
  <2>1. /\ pc[w] = "store" /\ Publish(w) /\ UNCHANGED <<ds, reg, clock>>
        /\ pc' = [pc EXCEPT ![w] = "post"]
      BY <1>10 DEF StoreTsc, NextIteration, Goto
  <2>2. \A v \in Threads : pc'[v] \in {"store"} => pc[v] \in {"store"}
      BY <1>1, <2>1
  <2> QED
      BY <2>1, <2>2, InTimePublish
<1>11. ASSUME NEW w \in Threads, LoadTsc(w)
       PROVE  InTime({"store"})'
  <2>1. /\ UNCHANGED <<ds, pub, ball, clock>>
        /\ pc' = [pc EXCEPT ![w] = "now"]
        /\ \A v \in Threads \ {w} : reg'[v] = reg[v]
      BY <1>1, <1>11 DEF LoadTsc, Goto
  <2> QED
      BY <1>1, <1>4, <2>1
<1>12. ASSUME NEW w \in Threads, SemWait(w) \/ Post(w)
       PROVE  InTime({"store"})'
  <2>1. UNCHANGED <<ds, pub, ball, clock, reg>>
      BY <1>12 DEF SemWait, Post, dataVars
  <2>2. \A v \in Threads : pc'[v] \in {"store"} => pc[v] \in {"store"}
      BY <1>1, <1>12 DEF SemWait, Post, NextIteration, Goto
  <2> QED
      BY <1>5, <2>1, <2>2
<1>13. ASSUME NEW w \in Threads, Record(w)
       PROVE  InTime({"store"})'
  <2>1. pc[w] = "now" /\ RecordDelta(w) /\ pc' = [pc EXCEPT ![w] = "post"]
      BY <1>13 DEF Record, NextIteration, Goto
  <2>2. MayCatch(w) /\ reg[w] = ball
      BY <2>1 DEF RallyInv, WorkerKnows, Knows
  <2>3. ASSUME NEW v \in Threads, pc[v] \in {"store"} PROVE MayHit(v)
    <3>1. iter[v] \in Nat
        BY <1>1, HarnessAssumption DEF FrameTypeOK
    <3>2. ret[v] # "null" /\ Sends(v)
        BY <1>1, <2>3 DEF FrameInv, RallyInv, WorkerKnows, Knows
    <3>3. iter[v] = pub[v] + rcv[v] /\ iter[v] % 2 = v
        BY <2>3, <3>1, <3>2 DEF RallyInv, WorkerKnows, Sends, Knows, Played
    <3> QED
        BY <1>1, <3>1, <3>3, ParityTellsTurn
  <2>4. \A v \in Threads : ~MayHit(v)
      BY <1>1, <2>2, WhoseTurn
  <2>5. \A v \in Threads : pc'[v] \notin {"store"}
      BY <1>1, <2>1, <2>3, <2>4
  <2> QED
      BY <1>1, <2>1, <2>2, <2>5, InTimeRecord
<1> QED
    BY <1>6, <1>7, <1>8, <1>9, <1>10, <1>11, <1>12, <1>13 DEF Next, Worker

\* The invariant behind the latencies holds at all times.
THEOREM LatencyInvAlways == Spec => []LatencyInv
<1>1. Init => InTime({"store"})
    BY InTimeInit DEF Init
<1>2. RallyInv /\ InTime({"store"}) /\ [Next]_vars => InTime({"store"})'
  <2> SUFFICES ASSUME RallyInv, InTime({"store"}), UNCHANGED vars
               PROVE  InTime({"store"})'
      BY LatencyStep
  <2> QED
      BY DEF InTime, LatenciesDisjoint, SpentAt, MayCatch, rcv, vars, frameVars,
             dataVars
<1> QED
    BY RallyInvAlways, <1>1, <1>2, PTL DEF Spec, LatencyInv

\* With synchronized TSCs the latencies of --sem (src/pingpong.c:594-648) do
\* not overlap: together they are not longer than the program ran.
THEOREM NoLatencyOverlaps == OneTsc => (Spec => []LatenciesDisjoint)
<1> SUFFICES ASSUME OneTsc PROVE Spec => []LatenciesDisjoint
    OBVIOUS
<1>1. LatencyInv => LatenciesDisjoint
    BY DEF LatencyInv, InTime
<1> QED
    BY LatencyInvAlways, <1>1, PTL
=============================================================================
