---------------------------- MODULE FutexProofs ----------------------------
(***************************************************************************)
(* The futexes of --futex pass one token around, for every number of       *)
(* iterations, every TSC offset and whatever calls fail.  That the lock of *)
(* src/pingpong.c is never found unlocked by its unlocker, and that its    *)
(* plain word is free of races, follow from it.                            *)
(***************************************************************************)
EXTENDS Futex, HarnessProofs

\* The initial state satisfies the invariant: start_work is not set.
LEMMA TokenInit == Init => TokenInv
<1> SUFFICES ASSUME Init PROVE TokenInv
    OBVIOUS
<1>1. FrameTypeOK(FutexPcs)
    BY FrameInitType DEF Init
<1>2. /\ futex \in [Threads -> {0, 1}]
      /\ ftsc \in [Threads -> Nat]
    BY DEF Init, Threads
<1>3. ~start_work
    BY Zenon DEF Init, FrameInit
<1>4. /\ mainPc = "create"
      /\ idx = 0
      /\ \A w \in Threads : pc[w] = "none"
    BY DEF Init, FrameInit
<1>5. SetUp
    BY <1>3, <1>4 DEF SetUp, Working, Threads
<1>6. TurnsLeft
    BY <1>4 DEF TurnsLeft, Held
<1> QED
    BY <1>1, <1>2, <1>3, <1>5, <1>6 DEF TokenInv, TypeOK, OneToken

\* Every step keeps the types: the words stay 0 or 1, and no worker goes
\* beyond its last iteration.
LEMMA FutexType ==
    ASSUME TypeOK, TurnsLeft, Next
    PROVE  TypeOK'
<1> USE DEF TypeOK, FutexPcs
<1>1. CASE \E w \in Threads : Create(w)
  <2>1. PICK w \in Threads : Create(w)
      BY <1>1
  <2>2. FrameTypeOK(FutexPcs)'
      BY <2>1, MainType DEF Create
  <2> QED
      BY <2>1, <2>2 DEF Create, Threads
<1>2. CASE MainStep /\ UNCHANGED channel
    BY <1>2, MainType DEF channel
<1>3. CASE \E w \in Threads : SpuriousWake(w)
    BY <1>3 DEF SpuriousWake, Goto, FrameTypeOK, mainVars, dataVars, channel
<1>4. ASSUME NEW w \in Threads, Worker(w)
      PROVE  TypeOK'
  <2>1. CASE FrameStep(w) /\ UNCHANGED channel
      BY <2>1, FrameStepType DEF channel
  <2>2. CASE LockCas(w)
      BY <2>2 DEF LockCas, Goto, FrameTypeOK, mainVars, dataVars
  <2>3. CASE FutexWait(w)
      BY <2>3 DEF FutexWait, Goto, FrameTypeOK, mainVars, dataVars, channel
  <2>4. CASE Stamp(w)
      BY <2>4, TakeStampType DEF Stamp, channel
  <2>5. CASE StoreTsc(w)
      BY <2>5 DEF StoreTsc, Publish, Goto, FrameTypeOK, mainVars, Threads, Other
  <2>6. CASE LoadTsc(w)
      BY <2>6 DEF LoadTsc, Goto, FrameTypeOK, mainVars, channel
  <2>7. CASE Record(w)
    <3>1. /\ clock' \in Nat
          /\ ds' \in [Threads -> Seq(0..(Wrap - 1))]
          /\ tsc' \in [Threads -> Nat]
        BY <2>7, RecordDeltaType DEF Record
    <3> QED
        BY <2>7, <3>1
        DEF Record, RecordDelta, Goto, FrameTypeOK, mainVars, channel
  <2>8. CASE UnlockCas(w)
      BY <2>8 DEF UnlockCas, Goto, FrameTypeOK, dataVars
  <2>9. CASE Wake(w)
    <3>1. iter[w] < N
        BY <2>9 DEF Wake, TurnsLeft
    <3>2. iter' \in [Threads -> 0..N]
        BY <2>9, <3>1, HarnessAssumption DEF Wake, FrameTypeOK
    <3>3. pc' \in [Threads -> {"none", "alloc", "await", "loop", "done"}
                                  \cup FutexPcs]
        BY <2>9 DEF Wake, FrameTypeOK
    <3> QED
        BY <2>9, <3>2, <3>3 DEF Wake, FrameTypeOK, mainVars, channel
  <2> QED
      BY <1>4, <2>1, <2>2, <2>3, <2>4, <2>5, <2>6, <2>7, <2>8, <2>9 DEF Worker
<1>5. CASE Failure
    BY <1>5, FrameFailureType, ReturnNullType
    DEF Failure, FutexFails, CallFails, channel
<1> QED
    BY <1>1, <1>2, <1>3, <1>4, <1>5 DEF Next, Main

\* A failing call leaves the futexes alone; a worker that makes it returns.
LEMMA FailureIsQuiet ==
    ASSUME Failure
    PROVE  /\ UNCHANGED <<idx, start_work, iter, futex>>
           /\ mainPc' \in {mainPc, "failed"}
           /\ \/ UNCHANGED pc
              \/ \E w \in Threads : /\ pc' = [pc EXCEPT ![w] = "done"]
                                    /\ pc[w] \notin Held
<1>1. CASE MainFails /\ UNCHANGED channel
    BY <1>1 DEF MainFails, dataVars, channel
<1>2. CASE (\E w \in Threads : AllocFails(w)) /\ UNCHANGED channel
    BY <1>2 DEF AllocFails, ReturnNull, Goto, Held, mainVars, channel
<1>3. CASE \E w \in Threads : FutexFails(w)
    BY <1>3 DEF FutexFails, CallFails, ReturnNull, Goto, Held, mainVars, channel
<1> QED
    BY <1>1, <1>2, <1>3 DEF Failure, FrameFailure

\* start_work holds back the workers until the futexes have their values.
LEMMA SetUpStep ==
    ASSUME TypeOK, SetUp, Next
    PROVE  SetUp'
<1> USE DEF SetUp, Working, Threads
<1>1. /\ pc \in [Threads -> {"none", "alloc", "await", "loop", "done"}
                               \cup FutexPcs]
      /\ futex \in [Threads -> {0, 1}]
    BY DEF TypeOK, FrameTypeOK
<1>2. CASE \E w \in Threads : Create(w)
    BY <1>1, <1>2 DEF Create, CreateWorker, Goto
<1>3. CASE MainStep /\ UNCHANGED channel
    BY <1>1, <1>3 DEF MainStep, StartWork, JoinWorker, Report, channel
<1>4. ASSUME NEW w \in Threads, Worker(w) \/ SpuriousWake(w)
      PROVE  SetUp'
  <2>1. CASE FrameStep(w) /\ UNCHANGED channel
      BY <1>1, <2>1
      DEF FrameStep, Alloc, AwaitStart, Finalize, Goto, mainVars, channel
  <2>2. CASE LockCas(w) \/ FutexWait(w) \/ SpuriousWake(w)
      BY <1>1, <2>2
      DEF LockCas, FutexWait, SpuriousWake, InLoop, Goto, mainVars, channel
  <2>3. CASE Stamp(w) \/ StoreTsc(w) \/ LoadTsc(w) \/ Record(w)
    <3>1. pc[w] \notin {"none", "alloc", "await", "done"}
        BY <2>3 DEF Stamp, StoreTsc, LoadTsc, Record
    <3>2. UNCHANGED <<mainVars, futex>>
        BY <2>3 DEF Stamp, StoreTsc, LoadTsc, Record, TakeStamp, RecordDelta,
                    channel
    <3> QED
        BY <3>1, <3>2 DEF mainVars
  <2>4. CASE UnlockCas(w)
      BY <1>1, <2>4 DEF UnlockCas, Goto
  <2>5. CASE Wake(w)
      BY <1>1, <2>5 DEF Wake, mainVars, channel
  <2> QED
      BY <1>4, <2>1, <2>2, <2>3, <2>4, <2>5 DEF Worker
<1>5. CASE Failure
    BY <1>1, <1>5, FailureIsQuiet
<1> QED
    BY <1>2, <1>3, <1>4, <1>5 DEF Next, Main

\* A worker only takes the token with an iteration of its loop left.
LEMMA TurnsLeftStep ==
    ASSUME TypeOK, TurnsLeft, Next
    PROVE  TurnsLeft'
<1> USE DEF TurnsLeft, Held
<1>1. /\ pc \in [Threads -> {"none", "alloc", "await", "loop", "done"}
                               \cup FutexPcs]
      /\ iter \in [Threads -> 0..N]
    BY DEF TypeOK, FrameTypeOK
<1>2. CASE Main
    BY <1>1, <1>2
    DEF Main, Create, CreateWorker, MainStep, StartWork, JoinWorker, Report,
        Goto, dataVars
<1>3. ASSUME NEW w \in Threads, Worker(w) \/ SpuriousWake(w)
      PROVE  TurnsLeft'
  <2>1. CASE FrameStep(w) /\ UNCHANGED channel
      BY <1>1, <2>1
      DEF FrameStep, Alloc, AwaitStart, Finalize, Goto, dataVars
  <2>2. CASE LockCas(w) \/ FutexWait(w) \/ SpuriousWake(w)
      BY <1>1, <2>2
      DEF LockCas, FutexWait, SpuriousWake, InLoop, Goto, dataVars
  <2>3. CASE Stamp(w)
    <3>1. pc[w] = "stamp" /\ UNCHANGED iter
        BY <2>3 DEF Stamp, TakeStamp
    <3>2. UNCHANGED pc \/ Goto(w, "store")
        BY <2>3 DEF Stamp, TakeStamp
    <3> QED
        BY <1>1, <3>1, <3>2 DEF Goto
  <2>4. CASE StoreTsc(w) \/ LoadTsc(w) \/ Record(w) \/ UnlockCas(w)
    <3>1. pc[w] \in Held /\ UNCHANGED iter
        BY <2>4 DEF StoreTsc, LoadTsc, Record, UnlockCas, dataVars
    <3>2. UNCHANGED pc \/ \E to \in FutexPcs : Goto(w, to)
        BY <2>4 DEF StoreTsc, LoadTsc, Record, UnlockCas, FutexPcs
    <3> QED
        BY <1>1, <3>1, <3>2 DEF Goto
  <2>5. CASE Wake(w)
      BY <1>1, <2>5 DEF Wake
  <2> QED
      BY <1>3, <2>1, <2>2, <2>3, <2>4, <2>5 DEF Worker
<1>4. CASE Failure
    BY <1>1, <1>4, FailureIsQuiet
<1> QED
    BY <1>2, <1>3, <1>4 DEF Next

\* Locking takes the token from a futex, unlocking gives it to one, and no
\* other step touches it.
LEMMA OneTokenStep ==
    ASSUME TypeOK, SetUp, OneToken, Next
    PROVE  OneToken'
<1> USE DEF OneToken, Held, Threads
<1>1. /\ pc \in [Threads -> {"none", "alloc", "await", "loop", "done"}
                               \cup FutexPcs]
      /\ futex \in [Threads -> {0, 1}]
    BY DEF TypeOK, FrameTypeOK
<1>2. CASE \E w \in Threads : Create(w)
  <2>1. ~start_work'
      BY <1>2 DEF Create, CreateWorker, SetUp
  <2> QED
      BY <2>1
<1>3. CASE StartWork /\ UNCHANGED channel
  <2>1. mainPc = "start" /\ UNCHANGED <<pc, futex>>
      BY <1>3 DEF StartWork, channel
  <2>2. \A w \in Threads : pc[w] \in {"none", "alloc", "await", "done"}
      BY <2>1 DEF SetUp, Working
  <2>3. futex[0] = 0 /\ futex[1] = 1
      BY <2>1 DEF SetUp
  <2> QED
      BY <2>1, <2>2, <2>3
<1>4. CASE ((\E w \in Threads : JoinWorker(w)) \/ Report) /\ UNCHANGED channel
    BY <1>4 DEF JoinWorker, Report, channel
<1>5. ASSUME NEW w \in Threads, Worker(w) \/ SpuriousWake(w)
      PROVE  OneToken'
  <2>1. UNCHANGED start_work
      BY <1>5
      DEF Worker, FrameStep, Alloc, AwaitStart, Finalize, SpuriousWake,
          LockCas, FutexWait, Stamp, StoreTsc, LoadTsc, Record, UnlockCas,
          Wake, TakeStamp, RecordDelta, mainVars
  <2>2. CASE FrameStep(w) /\ UNCHANGED channel
      BY <1>1, <2>1, <2>2
      DEF FrameStep, Alloc, AwaitStart, Finalize, Goto, channel
  <2>3. CASE LockCas(w)
      BY <1>1, <2>1, <2>3 DEF LockCas, InLoop, Goto
  <2>4. CASE FutexWait(w) \/ SpuriousWake(w)
      BY <1>1, <2>1, <2>4 DEF FutexWait, SpuriousWake, Goto, channel
  <2>5. CASE Stamp(w)
    <3>1. pc[w] = "stamp" /\ UNCHANGED futex
        BY <2>5 DEF Stamp, channel
    <3>2. UNCHANGED pc \/ Goto(w, "store")
        BY <2>5 DEF Stamp, TakeStamp
    <3> QED
        BY <1>1, <2>1, <3>1, <3>2 DEF Goto
  <2>6. CASE StoreTsc(w) \/ LoadTsc(w) \/ Record(w)
      BY <1>1, <2>1, <2>6 DEF StoreTsc, LoadTsc, Record, Goto, channel
  <2>7. CASE UnlockCas(w)
      BY <1>1, <2>1, <2>7 DEF UnlockCas, Target, Other, Goto
  <2>8. CASE Wake(w)
      BY <1>1, <2>1, <2>8 DEF Wake, Target, Other, channel
  <2> QED
      BY <1>5, <2>2, <2>3, <2>4, <2>5, <2>6, <2>7, <2>8 DEF Worker
<1>6. CASE Failure
    BY <1>1, <1>6, FailureIsQuiet
<1> QED
    BY <1>2, <1>3, <1>4, <1>5, <1>6 DEF Next, Main, MainStep

\* The invariant is inductive: a step of the control thread or of a worker of
\* --futex, or no step at all, keeps it.
LEMMA TokenStep == TokenInv /\ [Next]_vars => TokenInv'
<1>1. TokenInv /\ Next => TokenInv'
    BY FutexType, SetUpStep, TurnsLeftStep, OneTokenStep DEF TokenInv
<1>2. TokenInv /\ UNCHANGED vars => TokenInv'
    BY DEF TokenInv, TypeOK, FrameTypeOK, SetUp, Working, TurnsLeft, OneToken,
           vars, frameVars, mainVars, dataVars, channel
<1> QED
    BY <1>1, <1>2

\* At any time one of the two futexes is unlocked or one worker is in its
\* turn, and never both (src/pingpong.c:673-722).
THEOREM OneTokenAlways == Spec => []TokenInv
BY TokenInit, TokenStep, PTL DEF Spec

\* The token excludes that both workers are in their turn, and that a futex is
\* unlocked while one of them is.
LEMMA TokenExcludes ==
    TokenInv => /\ TypeOK
                /\ NeverUnexpectedlyUnlocked
                /\ RaceFree
<1> SUFFICES ASSUME TokenInv PROVE NeverUnexpectedlyUnlocked /\ RaceFree
    BY DEF TokenInv
<1>1. /\ pc \in [Threads -> {"none", "alloc", "await", "loop", "done"}
                               \cup FutexPcs]
      /\ futex \in [Threads -> {0, 1}]
    BY DEF TokenInv, TypeOK, FrameTypeOK
<1>2. ASSUME NEW w \in Threads, pc[w] \in Held
      PROVE  start_work
    BY <1>2 DEF TokenInv, SetUp, Working, Held
<1>3. NeverUnexpectedlyUnlocked
    BY <1>1, <1>2
    DEF TokenInv, OneToken, NeverUnexpectedlyUnlocked, Target, Other, Held,
        Threads
<1>4. RaceFree
    BY <1>1, <1>2 DEF TokenInv, OneToken, RaceFree, Other, Held, Threads
<1> QED
    BY <1>3, <1>4

\* The type invariant of --futex holds for every number of iterations.
THEOREM TypesAlways == Spec => []TypeOK
BY OneTokenAlways, TokenExcludes, PTL

\* The process never aborts with "unexpectedly unlocked" (src/pingpong.c:694,
\* 720): the sender may unlock a futex it never locked.
THEOREM UnlockIsSafe == Spec => []NeverUnexpectedlyUnlocked
BY OneTokenAlways, TokenExcludes, PTL

\* The plain word of a follicle (src/pingpong.c:70, 687, 707) is free of
\* races.
THEOREM NoRaces == Spec => []RaceFree
BY OneTokenAlways, TokenExcludes, PTL
-----------------------------------------------------------------------------
(***************************************************************************)
(* The rally                                                               *)
(***************************************************************************)

\* A worker in its turn has the only token: both futexes are locked.
LEMMA TurnAlone ==
    ASSUME TokenInv, NEW w \in Threads, pc[w] \in Held
    PROVE  /\ start_work /\ iter[w] < N
           /\ futex[0] = 1 /\ futex[1] = 1
           /\ pc[Other(w)] \notin Held
<1>1. futex[0] \in {0, 1} /\ futex[1] \in {0, 1}
    BY DEF TokenInv, TypeOK, Threads
<1>2. start_work
    BY DEF TokenInv, SetUp, Working, Held
<1> QED
    BY <1>1, <1>2 DEF TokenInv, TurnsLeft, OneToken, Other, Threads

\* No ball has been hit and start_work is not set when the program begins.
LEMMA RallyInit == Init => RallyInv /\ R!Init
<1> SUFFICES ASSUME Init PROVE RallyInv /\ R!Init
    OBVIOUS
<1>1. FrameInit /\ ~start_work
    BY DEF Init, FrameInit
<1>2. /\ \A w \in Threads : pc[w] = "none" /\ iter[w] = 0
      /\ \A w \in Threads : pub[w] = 0 /\ rcv[w] = 0
    BY DEF Init, FrameInit, rcv
<1>3. FollicleTellsBall /\ WorkerKnows
    BY <1>1, <1>2
    DEF FollicleTellsBall, WorkerKnows, Knows, Played, MayCatch, Other, Threads
<1> QED
    BY <1>1, <1>3, TokenInit, OrderInit, RallyBegins DEF RallyInv

\* A step that neither sends nor receives keeps the invariant if it keeps what
\* one worker knows, does no more to the other one than wake it, and leaves a
\* futex unlocked only to tell its owner the truth.
LEMMA QuietStep ==
    ASSUME RallyInv, TokenInv', FrameInv', NEW w \in Threads,
           UNCHANGED <<tsc, ds, pub, ball, ftsc>>,
           \A v \in Threads \ {w} :
               /\ iter'[v] = iter[v] /\ reg'[v] = reg[v] /\ ret'[v] = ret[v]
               /\ \/ pc'[v] = pc[v]
                  \/ pc[v] = "sleep" /\ pc'[v] = "loop",
           \A v \in Threads :
               start_work' /\ futex'[v] = 0 => MayHit(v) \/ MayCatch(v),
           Knows(w)'
    PROVE  RallyInv' /\ UNCHANGED R!rallyVars
<1>1. /\ UNCHANGED rcv /\ UNCHANGED R!rallyVars /\ OneBall'
      /\ \A v : (MayHit(v)' <=> MayHit(v)) /\ (MayCatch(v)' <=> MayCatch(v))
    BY QuietKeepsRally DEF RallyInv
<1>2. FollicleTellsBall'
    BY <1>1 DEF RallyInv, FollicleTellsBall
<1>3. ASSUME NEW v \in Threads \ {w}
      PROVE  Knows(v)'
  <2>1. Knows(v)
      BY DEF RallyInv, WorkerKnows
  <2>2. CASE pc'[v] = pc[v]
      BY <1>1, <1>3, <2>1, <2>2 DEF Knows, Played, Sends
  <2>3. CASE pc[v] = "sleep" /\ pc'[v] = "loop"
      BY <1>1, <1>3, <2>1, <2>3 DEF Knows, Played, Sends
  <2> QED
      BY <1>3, <2>2, <2>3
<1> QED
    BY <1>1, <1>2, <1>3 DEF RallyInv, WorkerKnows

\* The turn of a worker that has played as many iterations as it sent and
\* received stamps shows in the parity of i (src/pingpong.c:673).
LEMMA TurnShows ==
    ASSUME RallyInv, NEW w \in Threads, pc[w] \in Held \cup {"loop"}
    PROVE  IF pc[w] = "unlock" THEN Sends(w) <=> ~MayHit(w)
           ELSE Sends(w) <=> MayHit(w)
<1>1. FrameTypeOK(FutexPcs) /\ OneBall /\ iter[w] \in Nat
    BY HarnessAssumption DEF RallyInv, TokenInv, TypeOK, FrameTypeOK
<1>2. ret[w] # "null"
    BY DEF RallyInv, FrameInv, Held
<1>3. Played(w) = pub[w] + rcv[w] /\ Played(w) \in Nat
    BY <1>1, <1>2 DEF RallyInv, WorkerKnows, Knows, Played
<1>4. Played(w) % 2 = w <=> MayHit(w)
    BY <1>1, <1>3, ParityTellsTurn
<1>5. CASE pc[w] # "unlock"
    BY <1>1, <1>4, <1>5 DEF Played, Sends, Held
<1>6. CASE pc[w] = "unlock"
  <2>1. (iter[w] + 1) % 2 = w <=> MayHit(w)
      BY <1>4, <1>6 DEF Played
  <2>2. iter[w] % 2 = w <=> (iter[w] + 1) % 2 # w
      BY <1>1 DEF Threads
  <2> QED
      BY <1>6, <2>1, <2>2 DEF Sends
<1> QED
    BY <1>5, <1>6

\* The loop around a worker's turn: lock, the turn itself, unlock and wake.
LoopStep(w) ==
    \/ LockCas(w) \/ FutexWait(w) \/ SpuriousWake(w)
    \/ Stamp(w) \/ StoreTsc(w) \/ LoadTsc(w) \/ Record(w)
    \/ UnlockCas(w) \/ Wake(w)

\* A step of the loop leaves the order of the run; the only other worker it
\* moves is one that it wakes.
LEMMA LoopKeepsOrder ==
    ASSUME RallyInv, TypeOK', NEW w \in Threads, LoopStep(w)
    PROVE  /\ FrameInv'
           /\ UNCHANGED <<start_work, ret>>
           /\ \A v \in Threads \ {w} :
                 /\ iter'[v] = iter[v]
                 /\ \/ pc'[v] = pc[v]
                    \/ pc[v] = "sleep" /\ pc'[v] = "loop"
<1>1. /\ FrameTypeOK(FutexPcs) /\ FrameInv
      /\ pc \in [Threads -> {"none", "alloc", "await", "loop", "done"}
                               \cup FutexPcs]
      /\ iter \in [Threads -> 0..N]
    BY DEF RallyInv, TokenInv, TypeOK, FrameTypeOK
<1>2. CASE LockCas(w) \/ FutexWait(w) \/ SpuriousWake(w)
  <2>1. /\ pc[w] \in {"loop", "wait", "sleep"}
        /\ UNCHANGED <<mainPc, idx, start_work, ret, iter, ds>>
        /\ \E to \in FutexPcs \cup {"loop"} : Goto(w, to)
      BY <1>2 DEF LockCas, FutexWait, SpuriousWake, InLoop, FutexPcs,
                  mainVars, dataVars
  <2>2. /\ pc'[w] \in FutexPcs \cup {"loop"}
        /\ \A v \in Threads \ {w} : pc'[v] = pc[v]
      BY <1>1, <2>1 DEF Goto
  <2>3. FrameInv'
      BY <1>1, <2>1, <2>2, WorkerKeepsOrder DEF Working, FutexPcs
  <2> QED
      BY <2>1, <2>2, <2>3
<1>3. CASE Stamp(w) \/ StoreTsc(w) \/ LoadTsc(w)
  <2>1. /\ pc[w] \in {"stamp", "store", "load"}
        /\ UNCHANGED <<mainPc, idx, start_work, ret, iter, ds>>
        /\ UNCHANGED pc \/ \E to \in FutexPcs : Goto(w, to)
      BY <1>3 DEF Stamp, TakeStamp, StoreTsc, LoadTsc, FutexPcs, mainVars
  <2>2. /\ pc'[w] \in FutexPcs
        /\ \A v \in Threads \ {w} : pc'[v] = pc[v]
      BY <1>1, <2>1 DEF Goto, FutexPcs
  <2>3. FrameInv'
      BY <1>1, <2>1, <2>2, WorkerKeepsOrder DEF Working, FutexPcs
  <2> QED
      BY <2>1, <2>2, <2>3
<1>4. CASE Record(w)
  <2>1. /\ pc[w] = "now" /\ pc' = [pc EXCEPT ![w] = "unlock"]
        /\ UNCHANGED <<mainPc, idx, start_work, ret, iter>>
      BY <1>4 DEF Record, RecordDelta, Goto, mainVars
  <2>2. /\ pc'[w] = "unlock"
        /\ \A v \in Threads \ {w} : pc'[v] = pc[v]
      BY <1>1, <2>1
  <2>3. \A v \in Threads \ {w} : ds'[v] = ds[v]
      BY <1>1, <1>4, RecordDeltaType DEF Record
  <2>4. FrameInv'
      BY <1>1, <2>1, <2>2, <2>3, WorkerKeepsOrder DEF Working
  <2> QED
      BY <2>1, <2>2, <2>4
<1>5. CASE UnlockCas(w)
  <2>1. pc[w] = "unlock" /\ futex[Target(w)] = 1
      BY <1>5, TokenExcludes
      DEF RallyInv, NeverUnexpectedlyUnlocked, UnlockCas
  <2>2. /\ pc' = [pc EXCEPT ![w] = "wake"]
        /\ UNCHANGED <<mainPc, idx, start_work, ret, iter, ds>>
      BY <1>5, <2>1 DEF UnlockCas, Goto, dataVars
  <2>3. /\ pc'[w] = "wake"
        /\ \A v \in Threads \ {w} : pc'[v] = pc[v]
      BY <1>1, <2>2
  <2>4. FrameInv'
      BY <1>1, <2>1, <2>2, <2>3, WorkerKeepsOrder DEF Working
  <2> QED
      BY <2>2, <2>3, <2>4
<1>6. CASE Wake(w)
  <2>1. /\ pc[w] = "wake" /\ iter' = [iter EXCEPT ![w] = @ + 1]
        /\ UNCHANGED <<mainPc, idx, start_work, ret, ds>>
        /\ pc' = [v \in Threads |->
                     IF v = w \/ (v = Target(w) /\ pc[v] = "sleep") THEN "loop"
                     ELSE pc[v]]
      BY <1>6 DEF Wake, mainVars
  <2>2. /\ pc'[w] = "loop"
        /\ \A v \in Threads \ {w} :
              /\ iter'[v] = iter[v]
              /\ \/ pc'[v] = pc[v]
                 \/ pc[v] = "sleep" /\ pc'[v] = "loop"
      BY <1>1, <2>1
  <2>3. FrameInv'
      BY <1>1, <2>1, <2>2, WorkerKeepsOrder DEF Working
  <2> QED
      BY <2>1, <2>2, <2>3
<1> QED
    BY <1>2, <1>3, <1>4, <1>5, <1>6 DEF LoopStep

\* The step that stores a stamp in the other's follicle hits a ball.
LEMMA StoreHits ==
    ASSUME RallyInv, TokenInv', NEW w \in Threads, StoreTsc(w)
    PROVE  RallyInv' /\ R!Hit(w)
<1>0. FrameTypeOK(FutexPcs) /\ OneBall /\ ftsc \in [Threads -> Nat]
    BY DEF RallyInv, TokenInv, TypeOK
<1>1. /\ FrameTypeOK(FutexPcs) /\ OneBall
      /\ iter[w] \in Nat /\ ftsc \in [Threads -> Nat]
      /\ pc \in [Threads -> {"none", "alloc", "await", "loop", "done"}
                               \cup FutexPcs]
    BY <1>0, HarnessAssumption DEF FrameTypeOK
<1>2. /\ pc[w] = "store" /\ Publish(w)
      /\ ftsc' = [ftsc EXCEPT ![Other(w)] = reg[w]]
      /\ pc' = [pc EXCEPT ![w] = "unlock"]
      /\ UNCHANGED <<iter, tsc, ds, futex, ret, reg>>
    BY DEF StoreTsc, Goto
<1>3. /\ futex[0] = 1 /\ futex[1] = 1 /\ iter[w] < N
      /\ pc[Other(w)] \notin Held
    BY <1>2, TurnAlone DEF RallyInv, Held
<1>4. Sends(w) /\ reg[w] > tsc[w]
    BY <1>2 DEF RallyInv, WorkerKnows, Knows
<1>5. MayHit(w)
    BY <1>2, <1>4, TurnShows DEF Held
<1>6. iter[w] = pub[w] + rcv[w] /\ ret[w] # "null"
    BY <1>1, <1>2 DEF RallyInv, FrameInv, WorkerKnows, Knows, Played
<1>7. /\ R!Hit(w) /\ OneBall' /\ rcv' = rcv
      /\ pub'[w] = pub[w] + 1 /\ pub'[Other(w)] = pub[Other(w)]
      /\ ball' = reg[w]
      /\ MayCatch(Other(w))' /\ ~MayCatch(w)'
    BY <1>1, <1>2, <1>3, <1>4, <1>5, <1>6, HitKeepsOneBall
<1>8. Other(w) \in Threads /\ Other(w) # w /\ Threads = {w, Other(w)}
    BY <1>1, WhoseTurn
<1>9. FrameInv'
    BY LoopKeepsOrder DEF LoopStep, TokenInv
<1>10. FollicleTellsBall'
  <2>1. \A v \in Threads : futex'[v] = 1
      BY <1>2, <1>3 DEF Threads
  <2>2. ftsc'[Other(w)] = ball'
      BY <1>1, <1>2, <1>7, <1>8
  <2> QED
      BY <1>7, <1>8, <2>1, <2>2 DEF FollicleTellsBall
<1>11. Knows(w)'
  <2>1. pc'[w] = "unlock" /\ iter'[w] = iter[w]
      BY <1>1, <1>2
  <2>2. rcv[w] \in Nat /\ pub[w] \in Nat
      BY <1>1, RallyTypes
  <2>3. Played(w)' = pub'[w] + rcv'[w]
      BY <1>1, <1>6, <1>7, <2>1, <2>2 DEF Played
  <2> QED
      BY <1>7, <2>1, <2>3 DEF Knows
<1>12. Knows(Other(w))'
  <2>1. pc'[Other(w)] = pc[Other(w)]
      BY <1>1, <1>2, <1>8
  <2> QED
      BY <1>2, <1>3, <1>7, <1>8, <2>1
      DEF RallyInv, WorkerKnows, Knows, Played, Held
<1> QED
    BY <1>7, <1>8, <1>9, <1>10, <1>11, <1>12 DEF RallyInv, WorkerKnows

\* The step that records a delta catches the ball.
LEMMA RecordCatches ==
    ASSUME RallyInv, TokenInv', NEW w \in Threads, Record(w)
    PROVE  RallyInv' /\ R!Catch(w)
<1>0. FrameTypeOK(FutexPcs) /\ OneBall
    BY DEF RallyInv, TokenInv, TypeOK
<1>1. /\ FrameTypeOK(FutexPcs) /\ OneBall /\ iter[w] \in Nat
      /\ pc \in [Threads -> {"none", "alloc", "await", "loop", "done"}
                               \cup FutexPcs]
    BY <1>0, HarnessAssumption DEF FrameTypeOK
<1>2. /\ pc[w] = "now" /\ RecordDelta(w)
      /\ pc' = [pc EXCEPT ![w] = "unlock"]
      /\ UNCHANGED <<iter, ftsc, futex, ret, reg, pub, ball>>
    BY DEF Record, RecordDelta, Goto, channel
<1>3. futex[0] = 1 /\ futex[1] = 1 /\ pc[Other(w)] \notin Held
    BY <1>2, TurnAlone DEF RallyInv, Held
<1>4. ~Sends(w) /\ MayCatch(w) /\ reg[w] = ball
    BY <1>2 DEF RallyInv, WorkerKnows, Knows
<1>5. iter[w] = pub[w] + rcv[w] /\ ret[w] # "null"
    BY <1>1, <1>2 DEF RallyInv, FrameInv, WorkerKnows, Knows, Played
<1>6. /\ R!Catch(w) /\ OneBall'
      /\ rcv'[w] = rcv[w] + 1 /\ rcv'[Other(w)] = rcv[Other(w)]
      /\ ~MayCatch(w)' /\ ~MayCatch(Other(w))'
    BY <1>1, <1>2, <1>4, CatchKeepsOneBall
<1>7. Other(w) \in Threads /\ Other(w) # w /\ Threads = {w, Other(w)}
    BY <1>1, WhoseTurn
<1>8. FrameInv'
    BY LoopKeepsOrder DEF LoopStep, TokenInv
<1>9. FollicleTellsBall'
  <2>1. \A v \in Threads : futex'[v] = 1
      BY <1>2, <1>3 DEF Threads
  <2> QED
      BY <1>6, <1>7, <2>1 DEF FollicleTellsBall
<1>10. Knows(w)'
  <2>1. pc'[w] = "unlock" /\ iter'[w] = iter[w] /\ ~Sends(w)'
      BY <1>1, <1>2, <1>4 DEF Sends
  <2>2. rcv[w] \in Nat /\ pub[w] \in Nat /\ pub'[w] = pub[w]
      BY <1>1, <1>2, RallyTypes
  <2>3. Played(w)' = pub'[w] + rcv'[w]
      BY <1>1, <1>5, <1>6, <2>1, <2>2 DEF Played
  <2> QED
      BY <2>1, <2>3 DEF Knows
<1>11. Knows(Other(w))'
  <2>1. pc'[Other(w)] = pc[Other(w)]
      BY <1>1, <1>2, <1>7
  <2> QED
      BY <1>2, <1>3, <1>6, <1>7, <2>1
      DEF RallyInv, WorkerKnows, Knows, Played, Held
<1> QED
    BY <1>6, <1>7, <1>8, <1>9, <1>10, <1>11 DEF RallyInv, WorkerKnows

\* Each step of --futex keeps the invariant, and to the rally it is a hit, a
\* catch or no step.
LEMMA RallyStep ==
    ASSUME RallyInv, Next
    PROVE  RallyInv' /\ (R!Next \/ UNCHANGED R!rallyVars)
<1>1. TokenInv'
    BY TokenStep DEF RallyInv
<1>2. /\ pc \in [Threads -> {"none", "alloc", "await", "loop", "done"}
                               \cup FutexPcs]
      /\ reg \in [Threads -> Nat]
      /\ ret \in [Threads -> {"none", "null", "ok"}]
      /\ futex \in [Threads -> {0, 1}]
    BY DEF RallyInv, TokenInv, TypeOK, FrameTypeOK
<1>3. FrameTypeOK(FutexPcs) /\ FrameInv /\ OneBall
    BY DEF RallyInv, TokenInv, TypeOK
<1>4. \A v \in Threads :
          /\ start_work /\ futex[v] = 0 => MayHit(v) \/ MayCatch(v)
          /\ Knows(v)
    BY DEF RallyInv, FollicleTellsBall, WorkerKnows
<1>5. CASE \E w \in Threads : StoreTsc(w)
    BY <1>1, <1>5, StoreHits DEF R!Next, R!Threads, Threads
<1>6. CASE \E w \in Threads : Record(w)
    BY <1>1, <1>6, RecordCatches DEF R!Next, R!Threads, Threads
<1>7. ASSUME NEW w \in Threads, Create(w)
      PROVE  RallyInv' /\ UNCHANGED R!rallyVars
  <2>1. /\ UNCHANGED <<iter, tsc, reg, ds, ret, pub, ball, ftsc, start_work>>
        /\ pc' = [pc EXCEPT ![w] = "alloc"]
        /\ mainPc = "create" /\ idx = w
      BY <1>7 DEF Create, CreateWorker, Goto, dataVars
  <2>2. FrameInv'
      BY <1>3, <1>7, MainKeepsOrder DEF Create
  <2>3. pc[w] = "none" /\ pc'[w] = "alloc" /\ ~start_work
      BY <1>2, <1>3, <2>1 DEF FrameInv, Threads
  <2>4. Knows(w)'
      BY <1>4, <2>1, <2>3, QuietKeepsRally DEF Knows, Played
  <2> QED
      BY <1>1, <1>2, <2>1, <2>2, <2>3, <2>4, QuietStep
<1>8. ASSUME StartWork, UNCHANGED channel
      PROVE  RallyInv' /\ UNCHANGED R!rallyVars
  <2>1. /\ UNCHANGED <<iter, tsc, reg, ds, ret, pub, ball, ftsc, futex, pc>>
        /\ mainPc = "start"
      BY <1>8 DEF StartWork, dataVars, channel
  <2>2. FrameInv'
      BY <1>3, <1>8, MainKeepsOrder DEF MainStep
  <2>3. MayHit(0)
    <3>1. pub[0] = 0 /\ ds[0] = <<>>
        BY <1>3, <2>1 DEF FrameInv, Threads
    <3> QED
        BY <3>1 DEF MayHit, rcv, Threads
  <2>4. futex[1] = 1
      BY <2>1 DEF RallyInv, TokenInv, SetUp
  <2>5. Knows(0)'
      BY <1>4, <2>1, QuietKeepsRally DEF Knows, Played, Sends, Threads
  <2>6. \A v \in Threads :
            start_work' /\ futex'[v] = 0 => MayHit(v) \/ MayCatch(v)
      BY <2>1, <2>3, <2>4 DEF Threads
  <2> QED
      BY <1>1, <2>1, <2>2, <2>5, <2>6, QuietStep DEF Threads
<1>9. ASSUME (\E w \in Threads : JoinWorker(w)) \/ Report, UNCHANGED channel
      PROVE  RallyInv' /\ UNCHANGED R!rallyVars
  <2>1. UNCHANGED <<start_work, iter, tsc, reg, ds, ret, pub, ball, ftsc,
                    futex, pc>>
      BY <1>9 DEF JoinWorker, Report, dataVars, channel
  <2>2. FrameInv'
      BY <1>3, <1>9, MainKeepsOrder DEF MainStep
  <2>3. Knows(0)'
      BY <1>4, <2>1, QuietKeepsRally DEF Knows, Played, Sends, Threads
  <2> QED
      BY <1>1, <1>4, <2>1, <2>2, <2>3, QuietStep DEF Threads
<1>10. ASSUME NEW w \in Threads, FrameStep(w), UNCHANGED channel
       PROVE  RallyInv' /\ UNCHANGED R!rallyVars
  <2>1. /\ UNCHANGED <<start_work, iter, tsc, reg, ds, pub, ball, ftsc, futex>>
        /\ UNCHANGED ret \/ ret' = [ret EXCEPT ![w] = "ok"]
        /\ UNCHANGED pc \/ \E to \in {"await", "loop", "done"} : Goto(w, to)
        /\ pc[w] \in {"alloc", "await", "loop"}
      BY <1>10 DEF FrameStep, Alloc, AwaitStart, Finalize, mainVars, dataVars,
                   channel
  <2>2. FrameInv'
      BY <1>3, <1>10, FrameStepKeepsOrder
  <2>3. /\ pc'[w] \in {"alloc", "await", "loop", "done"} /\ ret[w] = "none"
        /\ \A v \in Threads \ {w} : pc'[v] = pc[v] /\ ret'[v] = ret[v]
      BY <1>2, <1>3, <2>1 DEF Goto, FrameInv
  <2>4. Knows(w)'
      BY <1>4, <2>1, <2>3, QuietKeepsRally DEF Knows, Played, Sends
  <2> QED
      BY <1>1, <1>4, <2>1, <2>2, <2>3, <2>4, QuietStep
<1>11. ASSUME NEW w \in Threads, LockCas(w)
       PROVE  RallyInv' /\ UNCHANGED R!rallyVars
  <2>1. /\ UNCHANGED <<iter, tsc, reg, ds, ret, pub, ball, ftsc>>
        /\ pc[w] = "loop"
        /\ IF futex[w] = 0
           THEN /\ futex' = [futex EXCEPT ![w] = 1]
                /\ Goto(w, IF Sends(w) THEN "stamp" ELSE "load")
           ELSE UNCHANGED futex /\ Goto(w, "wait")
      BY <1>11 DEF LockCas, InLoop, dataVars
  <2>2. /\ \/ pc'[w] = "wait"
           \/ futex[w] = 0 /\ pc'[w] = IF Sends(w) THEN "stamp" ELSE "load"
        /\ \A v \in Threads : futex'[v] = 0 => futex[v] = 0
      BY <1>2, <2>1 DEF Goto
  <2>3. start_work
      BY <1>3, <2>1 DEF FrameInv, Working
  <2>4. ~Sends(w) /\ futex[w] = 0 => MayCatch(w)
      BY <1>4, <2>1, <2>3, TurnShows
  <2>5. Knows(w)'
      BY <1>4, <2>1, <2>2, <2>4, QuietKeepsRally DEF Knows, Played, Sends
  <2> QED
      BY <1>1, <1>4, <1>11, <2>1, <2>2, <2>3, <2>5, QuietStep, LoopKeepsOrder
      DEF LoopStep, TokenInv
<1>12. ASSUME NEW w \in Threads, FutexWait(w) \/ SpuriousWake(w)
       PROVE  RallyInv' /\ UNCHANGED R!rallyVars
  <2>1. /\ UNCHANGED <<iter, tsc, reg, ds, ret, pub, ball, ftsc, futex>>
        /\ pc[w] \in {"wait", "sleep"}
        /\ \E to \in {"sleep", "loop"} : Goto(w, to)
      BY <1>12 DEF FutexWait, SpuriousWake, dataVars, channel
  <2>2. pc'[w] \in {"sleep", "loop"}
      BY <1>2, <2>1 DEF Goto
  <2>3. Knows(w)'
      BY <1>4, <2>1, <2>2, QuietKeepsRally DEF Knows, Played, Sends
  <2> QED
      BY <1>1, <1>4, <1>12, <2>1, <2>3, QuietStep, LoopKeepsOrder
      DEF LoopStep, TokenInv
<1>13. ASSUME NEW w \in Threads, Stamp(w)
       PROVE  RallyInv' /\ UNCHANGED R!rallyVars
  <2>1. /\ UNCHANGED <<iter, tsc, ds, ret, pub, ball, ftsc, futex>>
        /\ pc[w] = "stamp"
      BY <1>13 DEF Stamp, TakeStamp, channel
  <2>2. /\ \/ UNCHANGED <<reg, pc>>
           \/ reg'[w] > tsc[w] /\ pc' = [pc EXCEPT ![w] = "store"]
        /\ \A v \in Threads \ {w} : reg'[v] = reg[v]
      BY <1>3, <1>13, TakeStampType DEF Stamp, FutexPcs, Goto
  <2>3. \/ pc'[w] = "stamp"
        \/ pc'[w] = "store" /\ reg'[w] > tsc[w]
    <3>1. CASE UNCHANGED <<reg, pc>>
        BY <2>1, <3>1
    <3>2. CASE reg'[w] > tsc[w] /\ pc' = [pc EXCEPT ![w] = "store"]
        BY <1>2, <3>2
    <3> QED
        BY <2>2, <3>1, <3>2
  <2>4. Knows(w)'
      BY <1>4, <2>1, <2>3, QuietKeepsRally DEF Knows, Played, Sends
  <2> QED
      BY <1>1, <1>4, <1>13, <2>1, <2>2, <2>4, QuietStep, LoopKeepsOrder
      DEF LoopStep, TokenInv
<1>14. ASSUME NEW w \in Threads, LoadTsc(w)
       PROVE  RallyInv' /\ UNCHANGED R!rallyVars
  <2>1. /\ UNCHANGED <<iter, tsc, ds, ret, pub, ball, ftsc, futex>>
        /\ pc[w] = "load" /\ pc' = [pc EXCEPT ![w] = "now"]
        /\ reg' = [reg EXCEPT ![w] = ftsc[w]]
      BY <1>14 DEF LoadTsc, Goto, channel
  <2>2. ~Sends(w) /\ MayCatch(w) /\ ftsc[w] = ball
      BY <1>4, <2>1 DEF Knows, RallyInv, FollicleTellsBall
  <2>3. /\ pc'[w] = "now" /\ reg'[w] = ball
        /\ \A v \in Threads \ {w} : reg'[v] = reg[v]
      BY <1>2, <2>1, <2>2
  <2>4. Knows(w)'
      BY <1>4, <2>1, <2>2, <2>3, QuietKeepsRally DEF Knows, Played, Sends
  <2> QED
      BY <1>1, <1>4, <1>14, <2>1, <2>3, <2>4, QuietStep, LoopKeepsOrder
      DEF LoopStep, TokenInv
<1>15. ASSUME NEW w \in Threads, UnlockCas(w)
       PROVE  RallyInv' /\ UNCHANGED R!rallyVars
  <2>1. pc[w] = "unlock" /\ futex[Target(w)] = 1
      BY <1>15, TokenExcludes
      DEF RallyInv, NeverUnexpectedlyUnlocked, UnlockCas
  <2>2. /\ UNCHANGED <<iter, tsc, reg, ds, ret, pub, ball, ftsc>>
        /\ pc' = [pc EXCEPT ![w] = "wake"]
        /\ futex' = [futex EXCEPT ![Target(w)] = 0]
      BY <1>15, <2>1 DEF UnlockCas, Goto, dataVars
  <2>3. /\ Sends(w) => MayCatch(Other(w))
        /\ ~Sends(w) => MayHit(w)
      BY <1>4, <2>1, TurnShows DEF Knows, Held
  <2>4. start_work
      BY <1>3, <2>1 DEF FrameInv, Working
  <2>5. \A v \in Threads : futex'[v] = 0 => MayHit(v) \/ MayCatch(v)
      BY <1>2, <1>4, <2>2, <2>3, <2>4 DEF Target
  <2>6. pc'[w] = "wake"
      BY <1>2, <2>2
  <2>7. Knows(w)'
      BY <1>4, <2>1, <2>2, <2>6, QuietKeepsRally DEF Knows, Played
  <2> QED
      BY <1>1, <1>15, <2>2, <2>5, <2>7, QuietStep, LoopKeepsOrder
      DEF LoopStep, TokenInv
<1>16. ASSUME NEW w \in Threads, Wake(w)
       PROVE  RallyInv' /\ UNCHANGED R!rallyVars
  <2>1. /\ UNCHANGED <<tsc, reg, ds, ret, pub, ball, ftsc, futex>>
        /\ pc[w] = "wake" /\ pc'[w] = "loop"
        /\ iter' = [iter EXCEPT ![w] = @ + 1]
      BY <1>16 DEF Wake, channel
  <2>2. iter'[w] = iter[w] + 1 /\ iter[w] \in Nat
      BY <1>3, <2>1, HarnessAssumption DEF FrameTypeOK
  <2>3. Knows(w)'
    <3>1. Played(w)' = Played(w)
        BY <2>1, <2>2 DEF Played
    <3> QED
        BY <1>4, <2>1, <3>1, QuietKeepsRally DEF Knows
  <2> QED
      BY <1>1, <1>4, <1>16, <2>1, <2>3, QuietStep, LoopKeepsOrder
      DEF LoopStep, TokenInv
<1>17. ASSUME MainFails, UNCHANGED channel
       PROVE  RallyInv' /\ UNCHANGED R!rallyVars
  <2>1. UNCHANGED <<start_work, iter, tsc, reg, ds, ret, pub, ball, ftsc,
                    futex, pc>>
      BY <1>17 DEF MainFails, dataVars, channel
  <2>2. FrameInv'
      BY <1>3, <1>17, FrameFailureKeepsOrder DEF FrameFailure
  <2>3. Knows(0)'
      BY <1>4, <2>1, QuietKeepsRally DEF Knows, Played, Sends, Threads
  <2> QED
      BY <1>1, <1>4, <2>1, <2>2, <2>3, QuietStep DEF Threads
<1>18. ASSUME NEW w \in Threads, AllocFails(w) \/ FutexFails(w),
              UNCHANGED channel
       PROVE  RallyInv' /\ UNCHANGED R!rallyVars
  <2>1. ReturnNull(w) /\ pc[w] \notin {"none", "done"}
      BY <1>18 DEF AllocFails, FutexFails, CallFails
  <2>2. /\ UNCHANGED <<start_work, iter, tsc, reg, ds, pub, ball, ftsc, futex>>
        /\ ret' = [ret EXCEPT ![w] = "null"] /\ pc' = [pc EXCEPT ![w] = "done"]
      BY <1>18, <2>1 DEF ReturnNull, Goto, mainVars, channel
  <2>3. FrameInv'
      BY <1>3, <2>1, ReturnNullKeepsOrder
  <2>4. /\ ret'[w] = "null" /\ pc'[w] = "done"
        /\ \A v \in Threads \ {w} : pc'[v] = pc[v] /\ ret'[v] = ret[v]
      BY <1>2, <2>2
  <2>5. Knows(w)'
      BY <2>4 DEF Knows
  <2> QED
      BY <1>1, <1>4, <2>2, <2>3, <2>4, <2>5, QuietStep
<1>19. CASE Failure
    BY <1>17, <1>18, <1>19 DEF Failure, FrameFailure, FutexFails
<1> QED
    BY <1>5, <1>6, <1>7, <1>8, <1>9, <1>10, <1>11, <1>12, <1>13, <1>14, <1>15,
       <1>16, <1>19
    DEF Next, Main, MainStep, Worker

\* The invariant behind the rally holds at all times.
THEOREM RallyInvAlways == Spec => []RallyInv
<1>1. RallyInv /\ UNCHANGED vars => RallyInv'
  <2> SUFFICES ASSUME RallyInv, UNCHANGED vars PROVE RallyInv'
      OBVIOUS
  <2>1. TokenInv'
      BY TokenStep DEF RallyInv
  <2>2. FrameInv'
      BY DEF RallyInv, FrameInv, Working, vars, frameVars, mainVars, dataVars
  <2>3. Knows(0)'
      BY QuietKeepsRally
      DEF RallyInv, WorkerKnows, Knows, Played, Sends, Threads,
          vars, frameVars, dataVars
  <2> QED
      BY <2>1, <2>2, <2>3, QuietStep
      DEF RallyInv, FollicleTellsBall, Threads, vars, frameVars, mainVars,
          dataVars, channel
<1> QED
    BY RallyInit, RallyStep, <1>1, PTL DEF Spec

\* The futex method (src/pingpong.c:663-726) implements the rally: the plain
\* word of a follicle carries every stamp once, in turn, to the other worker.
THEOREM FutexImplementsRally == Spec => ImplementsRally
<1>1. RallyInv /\ [Next]_vars => [R!Next]_(R!rallyVars)
  <2>1. UNCHANGED vars => UNCHANGED R!rallyVars
      BY QuietKeepsRally DEF vars, frameVars, dataVars
  <2> QED
      BY <2>1, RallyStep
<1> QED
    BY RallyInit, <1>1, RallyInvAlways, PTL DEF Spec, ImplementsRally, R!Spec

\* The report (src/pingpong.c:876-895) prints all the deltas of both workers.
THEOREM ReportAlwaysComplete == Spec => []ReportIsComplete
<1>1. RallyInv => ReportIsComplete
  <2> SUFFICES ASSUME RallyInv PROVE ReportIsComplete
      OBVIOUS
  <2>1. FrameTypeOK(FutexPcs) /\ FrameInv /\ OneBall
      BY DEF RallyInv, TokenInv, TypeOK
  <2>2. ASSUME NEW w \in Threads, ret[w] = "ok"
        PROVE  iter[w] = pub[w] + rcv[w]
    <3>1. pc[w] = "done" /\ iter[w] \in Nat
        BY <2>1, <2>2, HarnessAssumption DEF FrameInv, FrameTypeOK
    <3> QED
        BY <2>2, <3>1 DEF RallyInv, WorkerKnows, Knows, Played
  <2> QED
      BY <2>1, <2>2, ReportHasAllDeltas
<1> QED
    BY RallyInvAlways, <1>1, PTL

\* With an even -n the assertion of spin_main_finalize (src/pingpong.c:260)
\* cannot fail.
THEOREM DeltasFitEven == N % 2 = 0 => (Spec => []DeltasFit)
<1> SUFFICES ASSUME N % 2 = 0 PROVE Spec => []DeltasFit
    OBVIOUS
<1>1. RallyInv => DeltasFit
    BY BallsFitArrays DEF RallyInv, TokenInv, TypeOK
<1> QED
    BY RallyInvAlways, <1>1, PTL
\* The reason for LatenciesDisjoint: a stamp is on its way, or about to be
\* sent, since a moment at which all latencies so far were over
\* (src/pingpong.c:663-726).
LatencyInv == RallyInv /\ InTime({"store"})

\* A stamp is taken after all latencies so far were over, and the one it begins
\* ends when the other worker records it (src/pingpong.c:663-726).
LEMMA LatencyStep ==
    ASSUME RallyInv, InTime({"store"}), Next
    PROVE  InTime({"store"})'
<1>1. /\ FrameTypeOK(FutexPcs) /\ OneBall /\ FrameInv
      /\ clock \in Nat /\ reg \in [Threads -> Nat]
      /\ pc \in [Threads -> {"none", "alloc", "await", "loop", "done"}
                               \cup FutexPcs]
    BY DEF RallyInv, TokenInv, TypeOK, FrameTypeOK
<1>2. RallyInv'
    BY RallyStep
<1>3. reg' \in [Threads -> Nat]
    BY <1>2 DEF RallyInv, TokenInv, TypeOK, FrameTypeOK
<1>4. ASSUME UNCHANGED <<ds, pub, ball, clock>>,
             \A w \in Threads :
                 pc'[w] \in {"store"} => pc[w] \in {"store"} /\ reg'[w] = reg[w]
      PROVE  InTime({"store"})'
    BY <1>1, <1>3, <1>4, InTimeQuiet
<1>5. ASSUME UNCHANGED <<ds, pub, ball, clock, reg>>,
             \A w \in Threads : pc'[w] \in {"store"} => pc[w] \in {"store"}
      PROVE  InTime({"store"})'
    BY <1>4, <1>5
<1>6. CASE Main
  <2>1. UNCHANGED <<ds, pub, ball, clock, reg>>
      BY <1>6
      DEF Main, Create, CreateWorker, MainStep, StartWork, JoinWorker, Report,
          dataVars
  <2>2. \A v \in Threads : pc'[v] \in {pc[v], "alloc"}
      BY <1>1, <1>6
      DEF Main, Create, CreateWorker, MainStep, StartWork, JoinWorker, Report,
          Goto
  <2> QED
      BY <1>5, <2>1, <2>2
<1>7. CASE Failure
  <2>1. UNCHANGED <<ds, pub, ball, clock, reg>>
      BY <1>7
      DEF Failure, FrameFailure, MainFails, AllocFails, FutexFails, CallFails,
          ReturnNull, dataVars
  <2>2. \A v \in Threads : pc'[v] \in {pc[v], "done"}
      BY <1>1, <1>7
      DEF Failure, FrameFailure, MainFails, AllocFails, FutexFails, CallFails,
          ReturnNull, Goto
  <2> QED
      BY <1>5, <2>1, <2>2
<1>8. ASSUME NEW w \in Threads, FrameStep(w)
      PROVE  InTime({"store"})'
  <2>1. UNCHANGED <<ds, pub, ball, clock, reg>>
      BY <1>8 DEF FrameStep, Alloc, AwaitStart, Finalize, dataVars
  <2>2. \A v \in Threads : pc'[v] \in {pc[v], "await", "loop", "done"}
      BY <1>1, <1>8 DEF FrameStep, Alloc, AwaitStart, Finalize, Goto
  <2> QED
      BY <1>5, <2>1, <2>2
<1>9. ASSUME NEW w \in Threads, Stamp(w)
      PROVE  InTime({"store"})'
    BY <1>1, <1>9, InTimeStamp DEF Stamp
<1>10. ASSUME NEW w \in Threads, StoreTsc(w)
       PROVE  InTime({"store"})'
  <2>1. /\ pc[w] = "store" /\ Publish(w) /\ UNCHANGED <<ds, reg, clock>>
        /\ pc' = [pc EXCEPT ![w] = "unlock"]
      BY <1>10 DEF StoreTsc, NextIteration, Goto
  <2>2. \A v \in Threads : pc'[v] \in {"store"} => pc[v] \in {"store"}
      BY <1>1, <2>1
  <2> QED
      BY <2>1, <2>2, InTimePublish
<1>11. ASSUME NEW w \in Threads, LoadTsc(w)
       PROVE  InTime({"store"})'
  <2>1. /\ UNCHANGED <<ds, pub, ball, clock>>
        /\ pc' = [pc EXCEPT ![w] = "now"]
        /\ \A v \in Threads \ {w} : reg'[v] = reg[v]
      BY <1>1, <1>11 DEF LoadTsc, Goto
  <2> QED
      BY <1>1, <1>4, <2>1
<1>12. ASSUME NEW w \in Threads, LockCas(w) \/ FutexWait(w) \/ SpuriousWake(w)
           \/ UnlockCas(w) \/ Wake(w)
       PROVE  InTime({"store"})'
  <2>1. UNCHANGED <<ds, pub, ball, clock, reg>>
      BY <1>12 DEF LockCas, FutexWait, SpuriousWake, UnlockCas, Wake, dataVars
  <2>2. \A v \in Threads : pc'[v] \in {"store"} => pc[v] \in {"store"}
      BY <1>1, <1>12
      DEF LockCas, FutexWait, SpuriousWake, UnlockCas, Wake, Goto
  <2> QED
      BY <1>5, <2>1, <2>2
<1>13. ASSUME NEW w \in Threads, Record(w)
       PROVE  InTime({"store"})'
  <2>1. pc[w] = "now" /\ RecordDelta(w) /\ pc' = [pc EXCEPT ![w] = "unlock"]
      BY <1>13 DEF Record, NextIteration, Goto
  <2>2. MayCatch(w) /\ reg[w] = ball
      BY <2>1 DEF RallyInv, WorkerKnows, Knows
  <2>3. ASSUME NEW v \in Threads, pc[v] \in {"store"} PROVE MayHit(v)
    <3>1. iter[v] \in Nat
        BY <1>1, HarnessAssumption DEF FrameTypeOK
    <3>2. ret[v] # "null" /\ Sends(v)
        BY <1>1, <2>3 DEF FrameInv, RallyInv, WorkerKnows, Knows
    <3>3. iter[v] = pub[v] + rcv[v] /\ iter[v] % 2 = v
        BY <2>3, <3>1, <3>2 DEF RallyInv, WorkerKnows, Sends, Knows, Played
    <3> QED
        BY <1>1, <3>1, <3>3, ParityTellsTurn
  <2>4. \A v \in Threads : ~MayHit(v)
      BY <1>1, <2>2, WhoseTurn
  <2>5. \A v \in Threads : pc'[v] \notin {"store"}
      BY <1>1, <2>1, <2>3, <2>4
  <2> QED
      BY <1>1, <2>1, <2>2, <2>5, InTimeRecord
<1> QED
    BY <1>6, <1>7, <1>8, <1>9, <1>10, <1>11, <1>12, <1>13 DEF Next, Worker

\* The invariant behind the latencies holds at all times.
THEOREM LatencyInvAlways == Spec => []LatencyInv
<1>1. Init => InTime({"store"})
    BY InTimeInit DEF Init
<1>2. RallyInv /\ InTime({"store"}) /\ [Next]_vars => InTime({"store"})'
  <2> SUFFICES ASSUME RallyInv, InTime({"store"}), UNCHANGED vars
               PROVE  InTime({"store"})'
      BY LatencyStep
  <2> QED
      BY DEF InTime, LatenciesDisjoint, SpentAt, MayCatch, rcv, vars, frameVars,
             dataVars
<1> QED
    BY RallyInvAlways, <1>1, <1>2, PTL DEF Spec, LatencyInv

\* With synchronized TSCs the latencies of --futex (src/pingpong.c:663-726) do
\* not overlap: together they are not longer than the program ran.
THEOREM NoLatencyOverlaps == OneTsc => (Spec => []LatenciesDisjoint)
<1> SUFFICES ASSUME OneTsc PROVE Spec => []LatenciesDisjoint
    OBVIOUS
<1>1. LatencyInv => LatenciesDisjoint
    BY DEF LatencyInv, InTime
<1> QED
    BY LatencyInvAlways, <1>1, PTL
=============================================================================
