---------------------------- MODULE CondVarProofs ----------------------------
(***************************************************************************)
(* The mutex of an item of --cv is held by whoever touches the item, for   *)
(* every number of iterations, every TSC offset, whatever wakes up for no  *)
(* reason and whatever calls fail.  Its plain word is free of races.       *)
(***************************************************************************)
EXTENDS CondVar, HarnessProofs

\* Where no worker is in its loop, nobody has to hold a mutex.
LEMMA MutexInit == Init => MutexInv
<1> SUFFICES ASSUME Init PROVE MutexInv
    OBVIOUS
<1>1. FrameTypeOK(CondVarPcs)
    BY FrameInitType DEF Init
<1>2. /\ owner \in [Threads -> Threads \cup {NoOne}]
      /\ itsc \in [Threads -> Nat]
    BY DEF Init
<1>3. \A w \in Threads : pc[w] = "none"
    BY DEF Init, FrameInit
<1>4. RaceFree /\ TurnsLeft /\ HoldsMutex
    BY <1>3 DEF RaceFree, TurnsLeft, HoldsMutex, Critical, Sending, Receiving
<1>5. MutexIsFreed /\ NotCreated
    BY <1>3 DEF Init, MutexIsFreed, NotCreated, NoOne, Threads
<1> QED
    BY <1>1, <1>2, <1>4, <1>5 DEF MutexInv, TypeOK

\* Every step keeps the types: no worker goes beyond its last iteration.
LEMMA CondVarType ==
    ASSUME TypeOK, TurnsLeft, Next
    PROVE  TypeOK'
<1> USE DEF TypeOK, CondVarPcs
<1>1. CASE Main
    BY <1>1, MainType DEF Main, channel
<1>2. ASSUME NEW w \in Threads, SpuriousWake(w)
      PROVE  TypeOK'
    BY <1>2 DEF SpuriousWake, Goto, FrameTypeOK, mainVars, dataVars, channel
<1>3. ASSUME NEW w \in Threads, Worker(w)
      PROVE  TypeOK'
  <2>1. CASE FrameStep(w) /\ UNCHANGED channel
      BY <2>1, FrameStepType DEF channel
  <2>2. CASE Stamp(w)
      BY <2>2, TakeStampType DEF Stamp, channel
  <2>3. CASE Lock(w)
    <3>1. owner' \in [Threads -> Threads \cup {NoOne}]
        BY <2>3 DEF Lock
    <3> QED
        BY <2>3, <3>1 DEF Lock, Goto, FrameTypeOK, mainVars, dataVars
  <2>4. CASE StoreTsc(w)
      BY <2>4 DEF StoreTsc, Publish, Goto, FrameTypeOK, mainVars, Threads, Other
  <2>5. CASE CheckHit(w) \/ CheckMiss(w)
      BY <2>5
      DEF CheckHit, CheckMiss, Goto, FrameTypeOK, mainVars, dataVars, channel
  <2>6. CASE CondWait(w)
      BY <2>6 DEF CondWait, Goto, FrameTypeOK, mainVars, dataVars
  <2>7. CASE LoadTsc(w)
      BY <2>7 DEF LoadTsc, Goto, FrameTypeOK, mainVars, channel
  <2>8. CASE Unlock(w)
    <3>1. owner' \in [Threads -> Threads \cup {NoOne}]
        BY <2>8 DEF Unlock
    <3> QED
        BY <2>8, <3>1 DEF Unlock, Goto, FrameTypeOK, mainVars, dataVars
  <2>9. CASE Signal(w)
    <3>1. iter[w] < N
        BY <2>9 DEF Signal, TurnsLeft, Sending
    <3>2. iter' \in [Threads -> 0..N]
        BY <2>9, <3>1, HarnessAssumption DEF Signal, FrameTypeOK
    <3>3. pc' \in [Threads -> {"none", "alloc", "await", "loop", "done"}
                                  \cup CondVarPcs]
        BY <2>9 DEF Signal, FrameTypeOK
    <3> QED
        BY <2>9, <3>2, <3>3 DEF Signal, FrameTypeOK, mainVars, channel
  <2>10. CASE Record(w)
    <3>1. /\ clock' \in Nat
          /\ ds' \in [Threads -> Seq(0..(Wrap - 1))]
          /\ tsc' \in [Threads -> Nat]
        BY <2>10, RecordDeltaType DEF Record
    <3>2. iter[w] < N
        BY <2>10 DEF Record, TurnsLeft, Receiving
    <3>3. iter' \in [Threads -> 0..N]
        BY <2>10, <3>2, HarnessAssumption
        DEF Record, NextIteration, FrameTypeOK
    <3> QED
        BY <2>10, <3>1, <3>3
        DEF Record, RecordDelta, NextIteration, Goto, FrameTypeOK, mainVars,
            channel
  <2> QED
      BY <1>3, <2>1, <2>2, <2>3, <2>4, <2>5, <2>6, <2>7, <2>8, <2>9, <2>10
      DEF Worker
<1>4. CASE Failure
    BY <1>4, FrameFailureType, ReturnNullType
    DEF Failure, ItemFails, CallFails, channel
<1> QED
    BY <1>1, <1>2, <1>3, <1>4 DEF Next

\* A failing call leaves the mutexes alone; the worker that makes it returns.
LEMMA FailureIsQuiet ==
    ASSUME Failure
    PROVE  /\ UNCHANGED <<iter, owner>>
           /\ \/ UNCHANGED pc
              \/ \E w \in Threads : pc' = [pc EXCEPT ![w] = "done"]
<1>1. CASE MainFails /\ UNCHANGED channel
    BY <1>1 DEF MainFails, dataVars, channel
<1>2. CASE (\E w \in Threads : AllocFails(w)) /\ UNCHANGED channel
    BY <1>2 DEF AllocFails, ReturnNull, Goto, channel
<1>3. CASE \E w \in Threads : ItemFails(w)
    BY <1>3 DEF ItemFails, CallFails, ReturnNull, Goto, channel
<1> QED
    BY <1>1, <1>2, <1>3 DEF Failure, FrameFailure

\* The control thread leaves mutexes and iterations alone, and a worker it
\* creates has not come to its loop.
LEMMA MainIsQuiet ==
    ASSUME Main
    PROVE  /\ UNCHANGED <<iter, owner>>
           /\ \/ UNCHANGED pc
              \/ \E w \in Threads : pc' = [pc EXCEPT ![w] = "alloc"]
<1>1. CASE (\E w \in Threads : CreateWorker(w)) /\ UNCHANGED channel
    BY <1>1 DEF CreateWorker, Goto, dataVars, channel
<1>2. CASE MainStep /\ UNCHANGED channel
    BY <1>2 DEF MainStep, StartWork, JoinWorker, Report, dataVars, channel
<1> QED
    BY <1>1, <1>2 DEF Main

\* The shared steps of a worker leave mutexes and iterations alone, and do not
\* lead into a turn.
LEMMA FrameIsQuiet ==
    ASSUME NEW w \in Threads, FrameStep(w), UNCHANGED channel
    PROVE  /\ UNCHANGED <<iter, owner>>
           /\ UNCHANGED pc \/ \E to \in {"await", "loop", "done"} : Goto(w, to)
BY DEF FrameStep, Alloc, AwaitStart, Finalize, dataVars, channel

\* Within a turn a worker keeps its role, and an iteration is left for it.
LEMMA TurnsLeftStep ==
    ASSUME TypeOK, TurnsLeft, Next
    PROVE  TurnsLeft'
<1> USE DEF TurnsLeft, Sending, Receiving, Sends
<1>1. /\ pc \in [Threads -> {"none", "alloc", "await", "loop", "done"}
                               \cup CondVarPcs]
      /\ iter \in [Threads -> 0..N]
    BY DEF TypeOK, FrameTypeOK
<1>2. CASE Main
    BY <1>1, <1>2, MainIsQuiet
<1>3. ASSUME NEW w \in Threads, Worker(w) \/ SpuriousWake(w)
      PROVE  TurnsLeft'
  <2>1. CASE FrameStep(w) /\ UNCHANGED channel
      BY <1>1, <2>1, FrameIsQuiet DEF Goto
  <2>2. CASE Stamp(w)
    <3>1. AtSend(w) /\ UNCHANGED iter
        BY <2>2 DEF Stamp, TakeStamp
    <3>2. UNCHANGED pc \/ Goto(w, "lock")
        BY <2>2 DEF Stamp, TakeStamp
    <3> QED
        BY <1>1, <3>1, <3>2 DEF Goto, AtSend, InLoop
  <2>3. CASE Lock(w)
      BY <1>1, <2>3 DEF Lock, WantsMutex, AtRecv, InLoop, Goto, dataVars
  <2>4. CASE StoreTsc(w) \/ CheckHit(w) \/ CheckMiss(w) \/ CondWait(w)
             \/ LoadTsc(w) \/ SpuriousWake(w)
      BY <1>1, <2>4
      DEF StoreTsc, CheckHit, CheckMiss, CondWait, LoadTsc, SpuriousWake,
          Goto, dataVars
  <2>5. CASE Unlock(w)
      BY <1>1, <2>5 DEF Unlock, Goto, dataVars
  <2>6. CASE Signal(w)
      BY <1>1, <2>6 DEF Signal
  <2>7. CASE Record(w)
      BY <1>1, <2>7 DEF Record, NextIteration, Goto
  <2> QED
      BY <1>3, <2>1, <2>2, <2>3, <2>4, <2>5, <2>6, <2>7 DEF Worker
<1>4. CASE Failure
    BY <1>1, <1>4, FailureIsQuiet
<1> QED
    BY <1>2, <1>3, <1>4 DEF Next

\* A mutex is taken when it is free, and only released by who holds it.
LEMMA HoldsMutexStep ==
    ASSUME TypeOK, TurnsLeft, HoldsMutex, Next
    PROVE  HoldsMutex'
<1> USE DEF HoldsMutex, Critical, Item, Other, Threads, Sends
<1>1. /\ pc \in [Threads -> {"none", "alloc", "await", "loop", "done"}
                               \cup CondVarPcs]
      /\ owner \in [Threads -> Threads \cup {NoOne}]
    BY DEF TypeOK, FrameTypeOK
<1>2. CASE Main
    BY <1>1, <1>2, MainIsQuiet
<1>3. ASSUME NEW w \in Threads, Worker(w) \/ SpuriousWake(w)
      PROVE  HoldsMutex'
  <2>1. CASE FrameStep(w) /\ UNCHANGED channel
      BY <1>1, <2>1, FrameIsQuiet DEF Goto
  <2>2. CASE Stamp(w)
    <3>1. UNCHANGED <<iter, owner>> /\ pc[w] = "loop"
        BY <2>2 DEF Stamp, TakeStamp, AtSend, InLoop, channel
    <3>2. UNCHANGED pc \/ Goto(w, "lock")
        BY <2>2 DEF Stamp, TakeStamp
    <3> QED
        BY <1>1, <3>1, <3>2 DEF Goto
  <2>3. CASE Lock(w)
      BY <1>1, <2>3 DEF Lock, Goto, NoOne, dataVars
  <2>4. CASE StoreTsc(w) \/ CheckHit(w) \/ CheckMiss(w) \/ LoadTsc(w)
             \/ SpuriousWake(w)
      BY <1>1, <2>4
      DEF StoreTsc, CheckHit, CheckMiss, LoadTsc, SpuriousWake, Goto,
          dataVars, channel
  <2>5. CASE CondWait(w)
      BY <1>1, <2>5 DEF CondWait, TurnsLeft, Receiving, Goto, dataVars
  <2>6. CASE Unlock(w)
      BY <1>1, <2>6 DEF Unlock, Goto, dataVars
  <2>7. CASE Signal(w)
      BY <1>1, <2>7 DEF Signal, channel
  <2>8. CASE Record(w)
      BY <1>1, <2>8 DEF Record, NextIteration, Goto, channel
  <2> QED
      BY <1>3, <2>1, <2>2, <2>3, <2>4, <2>5, <2>6, <2>7, <2>8 DEF Worker
<1>4. CASE Failure
    BY <1>1, <1>4, FailureIsQuiet
<1> QED
    BY <1>2, <1>3, <1>4 DEF Next

\* A thread runs only once it is created.
LEMMA NotCreatedStep ==
    ASSUME TypeOK, NotCreated, Next
    PROVE  NotCreated'
<1> USE DEF NotCreated
<1>1. /\ pc \in [Threads -> {"none", "alloc", "await", "loop", "done"}
                               \cup CondVarPcs]
      /\ idx \in 0..2
    BY DEF TypeOK, FrameTypeOK
<1>2. CASE Main
  <2>1. CASE (\E w \in Threads : CreateWorker(w)) /\ UNCHANGED channel
      BY <1>1, <2>1 DEF CreateWorker, Goto, Threads
  <2>2. CASE MainStep /\ UNCHANGED channel
      BY <2>2 DEF MainStep, StartWork, JoinWorker, Report
  <2> QED
      BY <1>2, <2>1, <2>2 DEF Main
<1>3. CASE MainFails /\ UNCHANGED channel
    BY <1>3 DEF MainFails
<1>4. ASSUME NEW w \in Threads,
             Worker(w) \/ SpuriousWake(w) \/ AllocFails(w) \/ ItemFails(w)
      PROVE  NotCreated'
  <2>1. /\ mainPc' = "create" => mainPc = "create" /\ idx' = idx
        /\ \A v \in Threads : pc[v] = "none" => pc'[v] = "none"
    <3>1. CASE FrameStep(w)
        BY <1>1, <3>1
        DEF FrameStep, Alloc, AwaitStart, Finalize, Goto, mainVars
    <3>2. CASE Stamp(w)
        BY <1>1, <3>2 DEF Stamp, TakeStamp, AtSend, InLoop, Goto, mainVars
    <3>3. CASE Lock(w)
        BY <1>1, <3>3 DEF Lock, WantsMutex, AtRecv, InLoop, Goto, mainVars
    <3>4. CASE StoreTsc(w) \/ CheckHit(w) \/ CheckMiss(w) \/ CondWait(w)
               \/ LoadTsc(w) \/ Unlock(w) \/ SpuriousWake(w)
        BY <1>1, <3>4
        DEF StoreTsc, CheckHit, CheckMiss, CondWait, LoadTsc, Unlock,
            SpuriousWake, Goto, mainVars
    <3>5. CASE Signal(w) \/ Record(w)
        BY <1>1, <3>5
        DEF Signal, Record, RecordDelta, NextIteration, Goto, mainVars
    <3>6. CASE AllocFails(w)
        BY <1>1, <3>6 DEF AllocFails, ReturnNull, Goto, mainVars
    <3>7. CASE ItemFails(w)
        BY <1>1, <3>7 DEF ItemFails, CallFails, ReturnNull, Goto, mainVars
    <3> QED
        BY <1>4, <3>1, <3>2, <3>3, <3>4, <3>5, <3>6, <3>7 DEF Worker
  <2> QED
      BY <2>1
<1> QED
    BY <1>2, <1>3, <1>4 DEF Next, Failure, FrameFailure

\* Who releases a mutex has no other one, and who returns is done for good.
LEMMA MutexIsFreedStep ==
    ASSUME TypeOK, TurnsLeft, NotCreated, MutexIsFreed, Next
    PROVE  MutexIsFreed'
<1> USE DEF MutexIsFreed, Critical, Item, Other, Threads, Sends
<1>1. /\ pc \in [Threads -> {"none", "alloc", "await", "loop", "done"}
                               \cup CondVarPcs]
      /\ owner \in [Threads -> Threads \cup {NoOne}]
      /\ ret \in [Threads -> {"none", "null", "ok"}]
    BY DEF TypeOK, FrameTypeOK
<1>2. CASE Main
  <2>1. /\ UNCHANGED <<iter, owner, ret>>
        /\ \/ UNCHANGED pc
           \/ \E w \in Threads : pc[w] = "none" /\ Goto(w, "alloc")
    <3>1. CASE (\E w \in Threads : CreateWorker(w)) /\ UNCHANGED channel
        BY <3>1 DEF CreateWorker, NotCreated, dataVars, channel
    <3>2. CASE MainStep /\ UNCHANGED channel
        BY <3>2 DEF MainStep, StartWork, JoinWorker, Report, dataVars, channel
    <3> QED
        BY <1>2, <3>1, <3>2 DEF Main
  <2> QED
      BY <1>1, <2>1 DEF Goto
<1>3. ASSUME NEW w \in Threads, Worker(w) \/ SpuriousWake(w)
      PROVE  MutexIsFreed'
  <2>1. CASE FrameStep(w) /\ UNCHANGED channel
    <3>1. /\ UNCHANGED <<iter, owner>>
          /\ pc[w] \in {"alloc", "await", "loop"}
          /\ \A v \in Threads \ {w} : pc'[v] = pc[v] /\ ret'[v] = ret[v]
        BY <1>1, <2>1
        DEF FrameStep, Alloc, AwaitStart, Finalize, Goto, dataVars, channel
    <3> QED
        BY <1>1, <3>1
  <2>2. CASE Stamp(w)
    <3>1. UNCHANGED <<iter, owner, ret>> /\ pc[w] = "loop"
        BY <2>2 DEF Stamp, TakeStamp, AtSend, InLoop, channel
    <3>2. UNCHANGED pc \/ Goto(w, "lock")
        BY <2>2 DEF Stamp, TakeStamp
    <3> QED
        BY <1>1, <3>1, <3>2 DEF Goto
  <2>3. CASE Lock(w)
    <3>1. pc[w] \in {"lock", "relock", "loop"}
        BY <2>3 DEF Lock, WantsMutex, AtRecv, InLoop
    <3> QED
        BY <1>1, <2>3, <3>1 DEF Lock, Goto, dataVars
  <2>4. CASE StoreTsc(w) \/ CheckHit(w) \/ CheckMiss(w) \/ LoadTsc(w)
             \/ SpuriousWake(w)
      BY <1>1, <2>4
      DEF StoreTsc, CheckHit, CheckMiss, LoadTsc, SpuriousWake, Goto,
          dataVars, channel
  <2>5. CASE CondWait(w)
    <3>1. \A m \in Threads : owner'[m] = w => owner[m] = w /\ m # Item(w)
        BY <1>1, <2>5 DEF CondWait, TurnsLeft, Receiving, NoOne
    <3> QED
        BY <1>1, <2>5, <3>1 DEF CondWait, Goto, NoOne, dataVars
  <2>6. CASE Unlock(w)
    <3>1. \A m \in Threads : owner'[m] = w => owner[m] = w /\ m # Item(w)
        BY <1>1, <2>6 DEF Unlock, NoOne
    <3> QED
        BY <1>1, <2>6, <3>1 DEF Unlock, Goto, NoOne, dataVars
  <2>7. CASE Signal(w)
      BY <1>1, <2>7 DEF Signal, channel
  <2>8. CASE Record(w)
      BY <1>1, <2>8 DEF Record, RecordDelta, NextIteration, Goto, channel
  <2> QED
      BY <1>3, <2>1, <2>2, <2>3, <2>4, <2>5, <2>6, <2>7, <2>8 DEF Worker
<1>4. CASE Failure
  <2>1. /\ UNCHANGED <<iter, owner>>
        /\ \/ UNCHANGED <<pc, ret>>
           \/ \E w \in Threads : ReturnNull(w)
    <3>1. CASE MainFails /\ UNCHANGED channel
        BY <3>1 DEF MainFails, dataVars, channel
    <3>2. CASE (\E w \in Threads : AllocFails(w)) /\ UNCHANGED channel
        BY <3>2 DEF AllocFails, ReturnNull, channel
    <3>3. CASE \E w \in Threads : ItemFails(w)
        BY <3>3 DEF ItemFails, CallFails, ReturnNull, channel
    <3> QED
        BY <1>4, <3>1, <3>2, <3>3 DEF Failure, FrameFailure
  <2> QED
      BY <1>1, <2>1 DEF ReturnNull, Goto
<1> QED
    BY <1>2, <1>3, <1>4 DEF Next

\* Two workers that both hold the mutex of an item cannot be there together.
LEMMA MutexExcludes ==
    ASSUME TypeOK, TurnsLeft, HoldsMutex
    PROVE  RaceFree
BY DEF TypeOK, FrameTypeOK, TurnsLeft, HoldsMutex, Critical, RaceFree, Sending,
       Receiving, Item, Other, Threads

\* The invariant is inductive: a step of the control thread or of a worker of
\* --cv, a spurious wakeup, or no step at all, keeps it.
LEMMA MutexStep == MutexInv /\ [Next]_vars => MutexInv'
<1>1. ASSUME MutexInv, Next
      PROVE  MutexInv'
  <2>1. TypeOK' /\ TurnsLeft' /\ NotCreated' /\ HoldsMutex' /\ MutexIsFreed'
      BY <1>1, CondVarType, TurnsLeftStep, NotCreatedStep, HoldsMutexStep,
         MutexIsFreedStep
      DEF MutexInv
  <2>2. RaceFree'
      BY <2>1, MutexExcludes, PTL
  <2> QED
      BY <2>1, <2>2 DEF MutexInv
<1>2. MutexInv /\ UNCHANGED vars => MutexInv'
    BY DEF MutexInv, TypeOK, FrameTypeOK, TurnsLeft, NotCreated, HoldsMutex,
           MutexIsFreed, RaceFree, Sends, Item, vars, frameVars, mainVars, dataVars, channel
<1> QED
    BY <1>1, <1>2

\* The mutex of an item is held by whoever touches it, and by nobody else but
\* a worker that a failing call has ended (src/pingpong.c:478-519).
THEOREM MutexInvAlways == Spec => []MutexInv
BY MutexInit, MutexStep, PTL DEF Spec

\* The plain word of an item (src/pingpong.c:483, 502, 510) is free of races.
THEOREM NoRaces == Spec => []RaceFree
<1>1. MutexInv => RaceFree
    BY DEF MutexInv
<1> QED
    BY <1>1, MutexInvAlways, PTL
-----------------------------------------------------------------------------
(***************************************************************************)
(* The rally                                                               *)
(***************************************************************************)

\* No ball has been hit and all stamps are 0 when the program begins.
LEMMA RallyInit == Init => RallyInv /\ R!Init
<1> SUFFICES ASSUME Init PROVE RallyInv /\ R!Init
    OBVIOUS
<1>1. FrameInit
    BY DEF Init
<1>2. \A w \in Threads : /\ pc[w] = "none" /\ iter[w] = 0
                         /\ pub[w] = 0 /\ rcv[w] = 0
                         /\ tsc[w] = 1 /\ itsc[w] = 0
    BY DEF Init, FrameInit, rcv
<1>3. ItemTellsBall /\ WorkerKnows /\ NoLostWakeup
    BY <1>2
    DEF ItemTellsBall, WorkerKnows, Knows, NoLostWakeup, Played, MayCatch, Other,
        Threads
<1> QED
    BY <1>1, <1>3, MutexInit, OrderInit, RallyBegins DEF RallyInv

\* A step that neither sends nor receives keeps the invariant if it keeps what
\* one worker knows and does no more to the other one than wake it, if no
\* worker goes to sleep over its stamp, and none forgets to signal.
LEMMA QuietStep ==
    ASSUME RallyInv, MutexInv', FrameInv', NEW w \in Threads,
           UNCHANGED <<tsc, ds, pub, ball, itsc>>,
           \A v \in Threads \ {w} :
               /\ iter'[v] = iter[v] /\ reg'[v] = reg[v] /\ ret'[v] = ret[v]
               /\ \/ pc'[v] = pc[v]
                  \/ pc[v] = "sleep" /\ pc'[v] = "relock",
           CallHasFailed => CallHasFailed',
           pc'[w] = "sleep" => pc[w] = "sleep" \/ itsc[w] <= tsc[w],
           Sends(w) /\ pc[w] \in {"unlock", "signal"} =>
               \/ pc'[w] \in {"unlock", "signal"} /\ iter'[w] = iter[w]
               \/ pc'[Other(w)] # "sleep"
               \/ CallHasFailed',
           Knows(w)'
    PROVE  RallyInv' /\ UNCHANGED R!rallyVars
<1>1. /\ UNCHANGED rcv /\ UNCHANGED R!rallyVars /\ OneBall'
      /\ \A v : (MayHit(v)' <=> MayHit(v)) /\ (MayCatch(v)' <=> MayCatch(v))
    BY QuietKeepsRally DEF RallyInv
<1>2. ItemTellsBall'
    BY <1>1 DEF RallyInv, ItemTellsBall
<1>3. ASSUME NEW v \in Threads \ {w}
      PROVE  Knows(v)'
  <2>1. Knows(v)
      BY DEF RallyInv, WorkerKnows
  <2>2. CASE pc'[v] = pc[v]
      BY <1>1, <1>3, <2>1, <2>2 DEF Knows, Played, Sends
  <2>3. CASE pc[v] = "sleep" /\ pc'[v] = "relock"
      BY <1>1, <1>3, <2>1, <2>3 DEF Knows, Played, Sends
  <2> QED
      BY <1>3, <2>2, <2>3
<1>4. /\ Other(w) \in Threads \ {w} /\ Other(Other(w)) = w
      /\ Threads = {w, Other(w)}
    BY DEF Other, Threads
<1>5. NoLostWakeup'
  <2> SUFFICES ASSUME NEW v \in Threads, pc'[v] = "sleep", itsc[v] > tsc[v],
                      ~CallHasFailed'
               PROVE  Sends(Other(v))' /\ pc'[Other(v)] \in {"unlock", "signal"}
      BY DEF NoLostWakeup
  <2>1. tsc[v] \in Nat /\ itsc[v] \in Nat
      BY DEF RallyInv, MutexInv, TypeOK, FrameTypeOK
  <2>2. pc[v] = "sleep"
      BY <1>4, <2>1
  <2>3. Sends(Other(v)) /\ pc[Other(v)] \in {"unlock", "signal"}
      BY <2>2 DEF RallyInv, NoLostWakeup
  <2>4. CASE v = w
      BY <1>4, <2>3, <2>4 DEF Sends
  <2>5. CASE v = Other(w)
      BY <1>4, <2>3, <2>5 DEF Sends
  <2> QED
      BY <1>4, <2>4, <2>5
<1> QED
    BY <1>1, <1>2, <1>3, <1>5 DEF RallyInv, WorkerKnows

\* The loop of cv_main (src/pingpong.c:476-519).
LoopStep(w) ==
    \/ Stamp(w) \/ Lock(w) \/ StoreTsc(w) \/ CheckHit(w) \/ CheckMiss(w)
    \/ CondWait(w) \/ SpuriousWake(w) \/ LoadTsc(w) \/ Unlock(w) \/ Signal(w)
    \/ Record(w)

\* A step of the loop leaves the order of the run; the only other worker it
\* moves is one that it wakes.
LEMMA LoopKeepsOrder ==
    ASSUME RallyInv, TypeOK', NEW w \in Threads, LoopStep(w)
    PROVE  /\ FrameInv'
           /\ UNCHANGED <<start_work, mainPc, ret>>
           /\ \A v \in Threads \ {w} :
                 /\ iter'[v] = iter[v]
                 /\ \/ pc'[v] = pc[v]
                    \/ pc[v] = "sleep" /\ pc'[v] = "relock"
<1>1. /\ FrameTypeOK(CondVarPcs) /\ FrameInv
      /\ pc \in [Threads -> {"none", "alloc", "await", "loop", "done"}
                               \cup CondVarPcs]
      /\ iter \in [Threads -> 0..N]
    BY DEF RallyInv, MutexInv, TypeOK, FrameTypeOK
<1>2. CASE Stamp(w) \/ Lock(w) \/ StoreTsc(w) \/ CheckHit(w) \/ CheckMiss(w)
           \/ CondWait(w) \/ SpuriousWake(w) \/ LoadTsc(w) \/ Unlock(w)
  <2>1. /\ pc[w] \in {"loop"} \cup CondVarPcs
        /\ UNCHANGED <<mainPc, idx, start_work, ret, iter, ds>>
        /\ UNCHANGED pc \/ \E to \in CondVarPcs : Goto(w, to)
      BY <1>2 DEF Stamp, TakeStamp, Lock, StoreTsc, CheckHit, CheckMiss, CondWait,
                  SpuriousWake, LoadTsc, Unlock, WantsMutex, AtSend, AtRecv,
                  InLoop, CondVarPcs, mainVars, dataVars
  <2>2. /\ pc'[w] \in {"loop"} \cup CondVarPcs
        /\ \A v \in Threads \ {w} : pc'[v] = pc[v]
      BY <1>1, <2>1 DEF Goto
  <2>3. FrameInv'
      BY <1>1, <2>1, <2>2, WorkerKeepsOrder DEF Working, CondVarPcs
  <2> QED
      BY <2>1, <2>2, <2>3
<1>3. CASE Signal(w)
  <2>1. /\ pc[w] = "signal" /\ iter' = [iter EXCEPT ![w] = @ + 1]
        /\ UNCHANGED <<mainPc, idx, start_work, ret, ds>>
        /\ pc' = [v \in Threads |-> IF v = w THEN "loop"
                                    ELSE IF pc[v] = "sleep" THEN "relock"
                                    ELSE pc[v]]
      BY <1>3 DEF Signal, mainVars
  <2>2. /\ pc'[w] = "loop"
        /\ \A v \in Threads \ {w} :
              /\ iter'[v] = iter[v]
              /\ \/ pc'[v] = pc[v]
                 \/ pc[v] = "sleep" /\ pc'[v] = "relock"
      BY <1>1, <2>1
  <2>3. FrameInv'
      BY <1>1, <2>1, <2>2, WorkerKeepsOrder DEF Working
  <2> QED
      BY <2>1, <2>2, <2>3
<1>4. CASE Record(w)
  <2>1. /\ pc[w] = "now" /\ pc' = [pc EXCEPT ![w] = "loop"]
        /\ iter' = [iter EXCEPT ![w] = @ + 1]
        /\ UNCHANGED <<mainPc, idx, start_work, ret>>
      BY <1>4 DEF Record, RecordDelta, NextIteration, Goto, mainVars
  <2>2. /\ pc'[w] = "loop"
        /\ \A v \in Threads \ {w} : pc'[v] = pc[v] /\ iter'[v] = iter[v]
      BY <1>1, <2>1
  <2>3. \A v \in Threads \ {w} : ds'[v] = ds[v]
      BY <1>1, <1>4, RecordDeltaType DEF Record
  <2>4. FrameInv'
      BY <1>1, <2>1, <2>2, <2>3, WorkerKeepsOrder DEF Working
  <2> QED
      BY <2>1, <2>2, <2>4
<1> QED
    BY <1>2, <1>3, <1>4 DEF LoopStep

\* The step that stores a stamp in the other's item hits a ball.  The owner of
\* the item is not about to wait, for the mutex is the sender's.
LEMMA StoreHits ==
    ASSUME RallyInv, MutexInv', NEW w \in Threads, StoreTsc(w)
    PROVE  RallyInv' /\ R!Hit(w)
<1>0. FrameTypeOK(CondVarPcs) /\ OneBall /\ itsc \in [Threads -> Nat]
    BY DEF RallyInv, MutexInv, TypeOK
<1>1. /\ FrameTypeOK(CondVarPcs) /\ OneBall
      /\ iter[w] \in Nat /\ itsc \in [Threads -> Nat]
      /\ pc \in [Threads -> {"none", "alloc", "await", "loop", "done"}
                               \cup CondVarPcs]
    BY <1>0, HarnessAssumption DEF FrameTypeOK
<1>2. /\ pc[w] = "store" /\ Publish(w)
      /\ itsc' = [itsc EXCEPT ![Other(w)] = reg[w]]
      /\ pc' = [pc EXCEPT ![w] = "unlock"]
      /\ UNCHANGED <<mainPc, iter, tsc, ds, ret, reg>>
    BY DEF StoreTsc, Goto, mainVars
<1>3. Sends(w) /\ reg[w] > tsc[w] /\ iter[w] < N
    BY <1>2 DEF RallyInv, MutexInv, TurnsLeft, Sending, WorkerKnows, Knows
<1>4. iter[w] = pub[w] + rcv[w] /\ ret[w] # "null"
    BY <1>1, <1>2 DEF RallyInv, FrameInv, WorkerKnows, Knows, Played
<1>5. MayHit(w)
    BY <1>1, <1>3, <1>4, ParityTellsTurn DEF Sends
<1>6. /\ Other(w) \in Threads /\ Other(w) # w /\ Threads = {w, Other(w)}
      /\ Other(Other(w)) = w /\ ~MayCatch(w) /\ ~MayCatch(Other(w))
    BY <1>1, <1>5, WhoseTurn
<1>7. /\ R!Hit(w) /\ OneBall' /\ rcv' = rcv
      /\ pub'[w] = pub[w] + 1 /\ pub'[Other(w)] = pub[Other(w)]
      /\ ball' = reg[w]
      /\ MayCatch(Other(w))' /\ ~MayCatch(w)'
    BY <1>1, <1>2, <1>3, <1>4, <1>5, HitKeepsOneBall
<1>8. /\ pc'[w] = "unlock" /\ iter'[w] = iter[w] /\ Sends(w)'
      /\ pc'[Other(w)] = pc[Other(w)]
    BY <1>1, <1>2, <1>3, <1>6 DEF Sends
<1>9. FrameInv'
    BY LoopKeepsOrder DEF LoopStep, MutexInv
<1>10. ItemTellsBall'
  <2>1. itsc'[Other(w)] = ball' /\ itsc'[w] = itsc[w]
      BY <1>1, <1>2, <1>6, <1>7
  <2>2. itsc[w] <= tsc[w]
      BY <1>6 DEF RallyInv, ItemTellsBall
  <2> QED
      BY <1>2, <1>6, <1>7, <2>1, <2>2 DEF ItemTellsBall
<1>11. Knows(w)'
  <2>1. rcv[w] \in Nat /\ pub[w] \in Nat
      BY <1>1, RallyTypes
  <2>2. Played(w)' = pub'[w] + rcv'[w]
      BY <1>1, <1>4, <1>7, <1>8, <2>1 DEF Played
  <2> QED
      BY <1>8, <2>2 DEF Knows
<1>12. Knows(Other(w))'
  <2>1. Knows(Other(w))
      BY <1>6 DEF RallyInv, WorkerKnows
  <2>2. pc[Other(w)] # "wait"
    <3>1. owner[Other(w)] = w
        BY <1>2, <1>3 DEF RallyInv, MutexInv, HoldsMutex, Critical, Item
    <3>2. pc[Other(w)] = "wait" => owner[Other(w)] = Other(w)
        BY <1>6 DEF RallyInv, MutexInv, TurnsLeft, Receiving, HoldsMutex, Critical, Item
    <3> QED
        BY <1>6, <3>1, <3>2
  <2>3. \/ pc[Other(w)] \notin {"load", "now", "unlock"}
        \/ pc[Other(w)] = "unlock" /\ Sends(Other(w))
      BY <1>6, <2>1 DEF Knows
  <2>4. Sends(Other(w))' <=> Sends(Other(w))
      BY <1>2 DEF Sends
  <2>5. Played(Other(w))' = Played(Other(w))
      BY <1>2, <1>8, <2>4 DEF Played
  <2> QED
      BY <1>2, <1>7, <1>8, <2>1, <2>2, <2>3, <2>4, <2>5 DEF Knows
<1>13. NoLostWakeup'
    BY <1>6, <1>8 DEF NoLostWakeup
<1> QED
    BY <1>6, <1>7, <1>9, <1>10, <1>11, <1>12, <1>13 DEF RallyInv, WorkerKnows

\* The step that records a delta catches the ball.
LEMMA RecordCatches ==
    ASSUME RallyInv, MutexInv', NEW w \in Threads, Record(w)
    PROVE  RallyInv' /\ R!Catch(w)
<1>0. FrameTypeOK(CondVarPcs) /\ OneBall
    BY DEF RallyInv, MutexInv, TypeOK
<1>1. /\ FrameTypeOK(CondVarPcs) /\ OneBall /\ iter[w] \in Nat
      /\ iter \in [Threads -> 0..N]
      /\ pc \in [Threads -> {"none", "alloc", "await", "loop", "done"}
                               \cup CondVarPcs]
    BY <1>0, HarnessAssumption DEF FrameTypeOK
<1>2. /\ pc[w] = "now" /\ RecordDelta(w)
      /\ pc' = [pc EXCEPT ![w] = "loop"] /\ iter' = [iter EXCEPT ![w] = @ + 1]
      /\ tsc' = [tsc EXCEPT ![w] = reg[w]]
      /\ UNCHANGED <<mainPc, itsc, ret, reg, pub, ball>>
    BY DEF Record, RecordDelta, NextIteration, Goto, mainVars, channel
<1>3. ~Sends(w) /\ MayCatch(w) /\ reg[w] = ball
    BY <1>2
    DEF RallyInv, MutexInv, TurnsLeft, Receiving, WorkerKnows, Knows
<1>4. iter[w] = pub[w] + rcv[w] /\ ret[w] # "null"
    BY <1>1, <1>2, <1>3 DEF RallyInv, FrameInv, WorkerKnows, Knows, Played
<1>5. /\ R!Catch(w) /\ OneBall'
      /\ rcv'[w] = rcv[w] + 1 /\ rcv'[Other(w)] = rcv[Other(w)]
      /\ ~MayCatch(w)' /\ ~MayCatch(Other(w))'
    BY <1>1, <1>2, <1>3, CatchKeepsOneBall
<1>6. /\ Other(w) \in Threads /\ Other(w) # w /\ Threads = {w, Other(w)}
      /\ Other(Other(w)) = w /\ ~MayCatch(Other(w))
    BY <1>1, <1>3, WhoseTurn
<1>7. /\ pc'[w] = "loop" /\ iter'[w] = iter[w] + 1
      /\ pc'[Other(w)] = pc[Other(w)] /\ iter'[Other(w)] = iter[Other(w)]
      /\ tsc'[w] = ball /\ tsc'[Other(w)] = tsc[Other(w)]
    BY <1>1, <1>2, <1>3, <1>6 DEF FrameTypeOK
<1>8. FrameInv'
    BY LoopKeepsOrder DEF LoopStep, MutexInv
<1>9. ball \in Nat /\ itsc[w] = ball /\ itsc[Other(w)] <= tsc[Other(w)]
    BY <1>1, <1>3, <1>6 DEF RallyInv, ItemTellsBall, FrameTypeOK
<1>10. ItemTellsBall'
    BY <1>2, <1>5, <1>6, <1>7, <1>9 DEF ItemTellsBall
<1>11. Knows(w)'
  <2>1. rcv[w] \in Nat /\ pub[w] \in Nat
      BY <1>1, RallyTypes
  <2>2. Played(w)' = iter[w] + 1
      BY <1>1, <1>7 DEF Played
  <2>3. Played(w)' = pub'[w] + rcv'[w]
      BY <1>1, <1>2, <1>4, <1>5, <2>1, <2>2
  <2> QED
      BY <1>7, <2>3 DEF Knows
<1>12. Knows(Other(w))'
  <2>1. Knows(Other(w))
      BY <1>6 DEF RallyInv, WorkerKnows
  <2>2. Sends(Other(w))' <=> Sends(Other(w))
      BY <1>7 DEF Sends
  <2>3. Played(Other(w))' = Played(Other(w))
      BY <1>7, <2>2 DEF Played
  <2> QED
      BY <1>2, <1>5, <1>6, <1>7, <2>1, <2>2, <2>3 DEF Knows
<1>13. NoLostWakeup'
  <2>1. ~(itsc'[Other(w)] > tsc'[Other(w)])
    <3>1. itsc[Other(w)] \in Nat /\ tsc[Other(w)] \in Nat
        BY <1>6 DEF RallyInv, MutexInv, TypeOK, FrameTypeOK
    <3> QED
        BY <1>2, <1>7, <1>9, <3>1
  <2> QED
      BY <1>6, <1>7, <2>1 DEF NoLostWakeup
<1> QED
    BY <1>5, <1>6, <1>8, <1>10, <1>11, <1>12, <1>13 DEF RallyInv, WorkerKnows

\* Each step of --cv keeps the invariant, and to the rally it is a hit, a catch
\* or no step.
LEMMA RallyStep ==
    ASSUME RallyInv, Next
    PROVE  RallyInv' /\ (R!Next \/ UNCHANGED R!rallyVars)
<1>1. MutexInv'
    BY MutexStep DEF RallyInv
<1>2. /\ pc \in [Threads -> {"none", "alloc", "await", "loop", "done"}
                               \cup CondVarPcs]
      /\ reg \in [Threads -> Nat] /\ tsc \in [Threads -> Nat]
      /\ itsc \in [Threads -> Nat]
      /\ ret \in [Threads -> {"none", "null", "ok"}]
    BY DEF RallyInv, MutexInv, TypeOK, FrameTypeOK
<1>3. FrameTypeOK(CondVarPcs) /\ FrameInv /\ OneBall
    BY DEF RallyInv, MutexInv, TypeOK
<1>4. \A v \in Threads : Knows(v)
    BY DEF RallyInv, WorkerKnows
<1>5. TurnsLeft /\ ItemTellsBall
    BY DEF RallyInv, MutexInv
<1>6. CASE \E w \in Threads : StoreTsc(w)
    BY <1>1, <1>6, StoreHits DEF R!Next, R!Threads, Threads
<1>7. CASE \E w \in Threads : Record(w)
    BY <1>1, <1>7, RecordCatches DEF R!Next, R!Threads, Threads
<1>8. ASSUME NEW w \in Threads, CreateWorker(w), UNCHANGED channel
      PROVE  RallyInv' /\ UNCHANGED R!rallyVars
  <2>1. /\ UNCHANGED <<iter, tsc, reg, ds, ret, pub, ball, itsc, start_work>>
        /\ pc' = [pc EXCEPT ![w] = "alloc"]
        /\ mainPc = "create" /\ idx = w
      BY <1>8 DEF CreateWorker, Goto, dataVars, channel
  <2>2. FrameInv'
      BY <1>3, <1>8, MainKeepsOrder
  <2>3. pc[w] = "none" /\ pc'[w] = "alloc"
      BY <1>2, <1>3, <2>1 DEF FrameInv, Threads
  <2>4. Knows(w)'
      BY <1>4, <2>1, <2>3, QuietKeepsRally DEF Knows, Played
  <2>5. CallHasFailed => CallHasFailed'
      BY <2>1 DEF CallHasFailed
  <2> QED
      BY <1>1, <1>2, <2>1, <2>2, <2>3, <2>4, <2>5, QuietStep
<1>9. ASSUME MainStep \/ MainFails, UNCHANGED channel
      PROVE  RallyInv' /\ UNCHANGED R!rallyVars
  <2>1. /\ UNCHANGED <<iter, tsc, reg, ds, ret, pub, ball, itsc, pc>>
        /\ mainPc # "failed"
      BY <1>9, HarnessAssumption
      DEF MainStep, StartWork, JoinWorker, Report, MainFails, FaultKinds,
          dataVars, channel
  <2>2. FrameInv'
      BY <1>3, <1>9, MainKeepsOrder, FrameFailureKeepsOrder DEF FrameFailure
  <2>3. Knows(0)'
      BY <1>4, <2>1, QuietKeepsRally DEF Knows, Played, Sends, Threads
  <2>4. CallHasFailed => CallHasFailed'
      BY <2>1 DEF CallHasFailed
  <2> QED
      BY <1>1, <2>1, <2>2, <2>3, <2>4, QuietStep DEF Threads
<1>10. ASSUME NEW w \in Threads, FrameStep(w), UNCHANGED channel, ~Ended
       PROVE  RallyInv' /\ UNCHANGED R!rallyVars
  <2>1. /\ UNCHANGED <<iter, tsc, reg, ds, pub, ball, itsc>>
        /\ UNCHANGED ret \/ ret' = [ret EXCEPT ![w] = "ok"]
        /\ UNCHANGED pc \/ \E to \in {"await", "loop", "done"} : Goto(w, to)
        /\ pc[w] \in {"alloc", "await", "loop"}
      BY <1>10 DEF FrameStep, Alloc, AwaitStart, Finalize, mainVars, dataVars,
                   channel
  <2>2. FrameInv'
      BY <1>3, <1>10, FrameStepKeepsOrder
  <2>3. /\ pc'[w] \in {"alloc", "await", "loop", "done"} /\ ret[w] = "none"
        /\ \A v \in Threads \ {w} : pc'[v] = pc[v] /\ ret'[v] = ret[v]
      BY <1>2, <1>3, <2>1 DEF Goto, FrameInv
  <2>4. Knows(w)'
      BY <1>4, <2>1, <2>3, QuietKeepsRally DEF Knows, Played, Sends
  <2>5. CallHasFailed => CallHasFailed'
      BY <1>10, <2>3 DEF CallHasFailed, Ended
  <2> QED
      BY <1>1, <2>1, <2>2, <2>3, <2>4, <2>5, QuietStep
<1>11. ASSUME NEW w \in Threads, Stamp(w)
       PROVE  RallyInv' /\ UNCHANGED R!rallyVars
  <2>1. /\ UNCHANGED <<iter, tsc, ds, ret, pub, ball, itsc>>
        /\ pc[w] = "loop"
      BY <1>11 DEF Stamp, TakeStamp, AtSend, InLoop, channel
  <2>2. /\ \/ UNCHANGED <<reg, pc>>
           \/ reg'[w] > tsc[w] /\ pc' = [pc EXCEPT ![w] = "lock"]
        /\ \A v \in Threads \ {w} : reg'[v] = reg[v]
      BY <1>3, <1>11, TakeStampType DEF Stamp, CondVarPcs, Goto
  <2>3. \/ pc'[w] = "loop"
        \/ pc'[w] = "lock" /\ reg'[w] > tsc[w]
    <3>1. CASE UNCHANGED <<reg, pc>>
        BY <2>1, <3>1
    <3>2. CASE reg'[w] > tsc[w] /\ pc' = [pc EXCEPT ![w] = "lock"]
        BY <1>2, <3>2
    <3> QED
        BY <2>2, <3>1, <3>2
  <2>4. Knows(w)'
      BY <1>4, <2>1, <2>3, QuietKeepsRally DEF Knows, Played, Sends
  <2> QED
      BY <1>1, <1>11, <2>1, <2>2, <2>3, <2>4, QuietStep, LoopKeepsOrder
      DEF LoopStep, MutexInv, CallHasFailed
<1>12. ASSUME NEW w \in Threads, Lock(w)
       PROVE  RallyInv' /\ UNCHANGED R!rallyVars
  <2>1. /\ UNCHANGED <<iter, tsc, reg, ds, ret, pub, ball, itsc>>
        /\ pc[w] \in {"lock", "relock"} \/ (pc[w] = "loop" /\ ~Sends(w))
        /\ Goto(w, IF Sends(w) THEN "store" ELSE "check")
      BY <1>12 DEF Lock, WantsMutex, AtRecv, InLoop, dataVars
  <2>2. IF Sends(w) THEN pc[w] = "lock" /\ pc'[w] = "store"
                    ELSE pc'[w] = "check"
      BY <1>2, <1>5, <2>1 DEF Goto, TurnsLeft, Receiving
  <2>3. Knows(w)'
      BY <1>4, <2>1, <2>2, QuietKeepsRally DEF Knows, Played, Sends
  <2> QED
      BY <1>1, <1>12, <2>1, <2>2, <2>3, QuietStep, LoopKeepsOrder
      DEF LoopStep, MutexInv, CallHasFailed
<1>13. ASSUME NEW w \in Threads, CheckHit(w) \/ CheckMiss(w)
       PROVE  RallyInv' /\ UNCHANGED R!rallyVars
  <2>1. /\ UNCHANGED <<iter, tsc, reg, ds, ret, pub, ball, itsc>>
        /\ pc[w] = "check"
        /\ \/ itsc[w] > tsc[w] /\ Goto(w, "load")
           \/ itsc[w] <= tsc[w] /\ Goto(w, "wait")
      BY <1>13 DEF CheckHit, CheckMiss, dataVars, channel
  <2>2. \/ pc'[w] = "load" /\ itsc[w] > tsc[w]
        \/ pc'[w] = "wait" /\ itsc[w] <= tsc[w]
      BY <1>2, <2>1 DEF Goto
  <2>3. itsc[w] > tsc[w] => MayCatch(w)
      BY <1>2, <1>5 DEF ItemTellsBall
  <2>4. Knows(w)'
      BY <1>4, <2>1, <2>2, <2>3, QuietKeepsRally DEF Knows, Played, Sends
  <2> QED
      BY <1>1, <1>13, <2>1, <2>2, <2>4, QuietStep, LoopKeepsOrder
      DEF LoopStep, MutexInv, CallHasFailed
<1>14. ASSUME NEW w \in Threads, CondWait(w) \/ SpuriousWake(w)
       PROVE  RallyInv' /\ UNCHANGED R!rallyVars
  <2>1. /\ UNCHANGED <<iter, tsc, reg, ds, ret, pub, ball, itsc>>
        /\ \/ pc[w] = "wait" /\ Goto(w, "sleep")
           \/ pc[w] = "sleep" /\ Goto(w, "relock")
      BY <1>14 DEF CondWait, SpuriousWake, dataVars, channel
  <2>2. \/ pc[w] = "wait" /\ pc'[w] = "sleep" /\ itsc[w] <= tsc[w]
        \/ pc[w] = "sleep" /\ pc'[w] = "relock"
      BY <1>2, <1>4, <2>1 DEF Goto, Knows
  <2>3. Knows(w)'
      BY <1>4, <2>1, <2>2, QuietKeepsRally DEF Knows, Played, Sends
  <2> QED
      BY <1>1, <1>14, <2>1, <2>2, <2>3, QuietStep, LoopKeepsOrder
      DEF LoopStep, MutexInv, CallHasFailed
<1>15. ASSUME NEW w \in Threads, LoadTsc(w)
       PROVE  RallyInv' /\ UNCHANGED R!rallyVars
  <2>1. /\ UNCHANGED <<iter, tsc, ds, ret, pub, ball, itsc>>
        /\ pc[w] = "load" /\ pc' = [pc EXCEPT ![w] = "unlock"]
        /\ reg' = [reg EXCEPT ![w] = itsc[w]]
      BY <1>15 DEF LoadTsc, Goto, channel
  <2>2. ~Sends(w) /\ MayCatch(w) /\ itsc[w] = ball
      BY <1>4, <1>5, <2>1 DEF Knows, ItemTellsBall, TurnsLeft, Receiving
  <2>3. /\ pc'[w] = "unlock" /\ reg'[w] = ball
        /\ \A v \in Threads \ {w} : reg'[v] = reg[v]
      BY <1>2, <2>1, <2>2
  <2>4. Knows(w)'
      BY <1>4, <2>1, <2>2, <2>3, QuietKeepsRally DEF Knows, Played, Sends
  <2> QED
      BY <1>1, <1>15, <2>1, <2>2, <2>3, <2>4, QuietStep, LoopKeepsOrder
      DEF LoopStep, MutexInv, CallHasFailed
<1>16. ASSUME NEW w \in Threads, Unlock(w)
       PROVE  RallyInv' /\ UNCHANGED R!rallyVars
  <2>1. /\ UNCHANGED <<iter, tsc, reg, ds, ret, pub, ball, itsc>>
        /\ pc[w] = "unlock"
        /\ Goto(w, IF Sends(w) THEN "signal" ELSE "now")
      BY <1>16 DEF Unlock, dataVars
  <2>2. pc'[w] = IF Sends(w) THEN "signal" ELSE "now"
      BY <1>2, <2>1 DEF Goto
  <2>3. Knows(w)'
      BY <1>4, <2>1, <2>2, QuietKeepsRally DEF Knows, Played, Sends
  <2> QED
      BY <1>1, <1>16, <2>1, <2>2, <2>3, QuietStep, LoopKeepsOrder
      DEF LoopStep, MutexInv, CallHasFailed
<1>17. ASSUME NEW w \in Threads, Signal(w)
       PROVE  RallyInv' /\ UNCHANGED R!rallyVars
  <2>1. /\ UNCHANGED <<tsc, reg, ds, ret, pub, ball, itsc>>
        /\ pc[w] = "signal" /\ Sends(w)
        /\ iter' = [iter EXCEPT ![w] = @ + 1]
        /\ pc' = [v \in Threads |-> IF v = w THEN "loop"
                                    ELSE IF pc[v] = "sleep" THEN "relock"
                                    ELSE pc[v]]
      BY <1>5, <1>17 DEF Signal, channel, TurnsLeft, Sending
  <2>2. /\ pc'[w] = "loop" /\ \A v \in Threads : pc'[v] # "sleep"
        /\ Other(w) \in Threads
      BY <2>1 DEF Other, Threads
  <2>3. iter'[w] = iter[w] + 1 /\ iter[w] \in Nat
      BY <1>3, <2>1, HarnessAssumption DEF FrameTypeOK
  <2>4. Knows(w)'
    <3>1. Played(w)' = Played(w)
        BY <2>1, <2>2, <2>3 DEF Played
    <3> QED
        BY <1>4, <2>1, <2>2, <3>1, QuietKeepsRally DEF Knows
  <2> QED
      BY <1>1, <1>17, <2>1, <2>2, <2>4, QuietStep, LoopKeepsOrder
      DEF LoopStep, MutexInv, CallHasFailed
<1>18. ASSUME NEW w \in Threads, AllocFails(w) \/ ItemFails(w),
              UNCHANGED channel
       PROVE  RallyInv' /\ UNCHANGED R!rallyVars
  <2>1. ReturnNull(w) /\ pc[w] \notin {"none", "done"}
      BY <1>18 DEF AllocFails, ItemFails, CallFails
  <2>2. /\ UNCHANGED <<iter, tsc, reg, ds, pub, ball, itsc>>
        /\ ret' = [ret EXCEPT ![w] = "null"] /\ pc' = [pc EXCEPT ![w] = "done"]
      BY <1>18, <2>1 DEF ReturnNull, Goto, mainVars, channel
  <2>3. FrameInv'
      BY <1>3, <2>1, ReturnNullKeepsOrder
  <2>4. /\ ret'[w] = "null" /\ pc'[w] = "done"
        /\ \A v \in Threads \ {w} : pc'[v] = pc[v] /\ ret'[v] = ret[v]
      BY <1>2, <2>2
  <2>5. Knows(w)' /\ CallHasFailed'
      BY <2>4 DEF Knows, CallHasFailed
  <2> QED
      BY <1>1, <2>2, <2>3, <2>4, <2>5, QuietStep
<1>19. CASE Failure
  <2>1. CASE FrameFailure /\ UNCHANGED channel
      BY <1>9, <1>18, <2>1 DEF FrameFailure
  <2>2. CASE \E w \in Threads : ItemFails(w)
      BY <1>18, <2>2 DEF ItemFails
  <2> QED
      BY <1>19, <2>1, <2>2 DEF Failure
<1> QED
    BY <1>6, <1>7, <1>8, <1>9, <1>10, <1>11, <1>12, <1>13, <1>14, <1>15,
       <1>16, <1>17, <1>19
    DEF Next, Main, Worker

\* The invariant behind the rally holds at all times.
THEOREM RallyInvAlways == Spec => []RallyInv
<1>1. RallyInv /\ UNCHANGED vars => RallyInv'
  <2> SUFFICES ASSUME RallyInv, UNCHANGED vars PROVE RallyInv'
      OBVIOUS
  <2>1. MutexInv'
      BY MutexStep DEF RallyInv
  <2>2. FrameInv'
      BY DEF RallyInv, FrameInv, Working, vars, frameVars, mainVars, dataVars
  <2>3. UNCHANGED <<mainPc, pc, iter, tsc, reg, ds, ret, pub, ball, itsc>>
      BY DEF vars, frameVars, mainVars, dataVars, channel
  <2>4. Knows(0)' /\ (CallHasFailed => CallHasFailed')
      BY <2>3, QuietKeepsRally
      DEF RallyInv, WorkerKnows, Knows, Played, Sends, Threads, CallHasFailed
  <2> QED
      BY <2>1, <2>2, <2>3, <2>4, QuietStep DEF Threads
<1> QED
    BY RallyInit, RallyStep, <1>1, PTL DEF Spec

\* No wakeup is lost (src/pingpong.c:485-490, 502-508): a worker that sleeps
\* while its stamp is there has the signal coming, whatever the interleaving,
\* and although the signal is sent without the mutex.
THEOREM NoWakeupIsLost == Spec => []NoLostWakeup
<1>1. RallyInv => NoLostWakeup
    BY DEF RallyInv
<1> QED
    BY <1>1, RallyInvAlways, PTL

\* The condition variable method (src/pingpong.c:468-521) implements the rally:
\* the plain word of an item carries every stamp once, in turn, to its owner.
THEOREM CondVarImplementsRally == Spec => ImplementsRally
<1>1. RallyInv /\ [Next]_vars => [R!Next]_(R!rallyVars)
  <2>1. UNCHANGED vars => UNCHANGED R!rallyVars
      BY QuietKeepsRally DEF vars, frameVars, dataVars
  <2> QED
      BY <2>1, RallyStep
<1> QED
    BY RallyInit, <1>1, RallyInvAlways, PTL DEF Spec, ImplementsRally, R!Spec

\* The report (src/pingpong.c:876-895) prints all the deltas of both workers.
THEOREM ReportAlwaysComplete == Spec => []ReportIsComplete
<1>1. RallyInv => ReportIsComplete
  <2> SUFFICES ASSUME RallyInv PROVE ReportIsComplete
      OBVIOUS
  <2>1. FrameTypeOK(CondVarPcs) /\ FrameInv /\ OneBall
      BY DEF RallyInv, MutexInv, TypeOK
  <2>2. ASSUME NEW w \in Threads, ret[w] = "ok"
        PROVE  iter[w] = pub[w] + rcv[w]
    <3>1. pc[w] = "done" /\ iter[w] \in Nat
        BY <2>1, <2>2, HarnessAssumption DEF FrameInv, FrameTypeOK
    <3> QED
        BY <2>2, <3>1 DEF RallyInv, WorkerKnows, Knows, Played
  <2> QED
      BY <2>1, <2>2, ReportHasAllDeltas
<1> QED
    BY RallyInvAlways, <1>1, PTL

\* With an even -n the assertion of spin_main_finalize (src/pingpong.c:260)
\* cannot fail.
THEOREM DeltasFitEven == N % 2 = 0 => (Spec => []DeltasFit)
<1> SUFFICES ASSUME N % 2 = 0 PROVE Spec => []DeltasFit
    OBVIOUS
<1>1. RallyInv => DeltasFit
    BY BallsFitArrays DEF RallyInv, MutexInv, TypeOK
<1> QED
    BY RallyInvAlways, <1>1, PTL
\* The reason for LatenciesDisjoint: a stamp is on its way, or about to be
\* sent, since a moment at which all latencies so far were over
\* (src/pingpong.c:468-521).
LatencyInv == RallyInv /\ InTime({"lock", "store"})

\* A stamp is taken after all latencies so far were over, and the one it begins
\* ends when the other worker records it (src/pingpong.c:468-521).
LEMMA LatencyStep ==
    ASSUME RallyInv, InTime({"lock", "store"}), Next
    PROVE  InTime({"lock", "store"})'
<1>1. /\ FrameTypeOK(CondVarPcs) /\ OneBall /\ FrameInv
      /\ clock \in Nat /\ reg \in [Threads -> Nat]
      /\ pc \in [Threads -> {"none", "alloc", "await", "loop", "done"}
                               \cup CondVarPcs]
    BY DEF RallyInv, MutexInv, TypeOK, FrameTypeOK
<1>2. RallyInv'
    BY RallyStep
<1>3. reg' \in [Threads -> Nat]
    BY <1>2 DEF RallyInv, MutexInv, TypeOK, FrameTypeOK
<1>4. ASSUME UNCHANGED <<ds, pub, ball, clock>>,
             \A w \in Threads :
                 pc'[w] \in {"lock", "store"} =>
                     pc[w] \in {"lock", "store"} /\ reg'[w] = reg[w]
      PROVE  InTime({"lock", "store"})'
    BY <1>1, <1>3, <1>4, InTimeQuiet
<1>5. ASSUME UNCHANGED <<ds, pub, ball, clock, reg>>,
             \A w \in Threads :
                 pc'[w] \in {"lock", "store"} => pc[w] \in {"lock", "store"}
      PROVE  InTime({"lock", "store"})'
    BY <1>4, <1>5
<1>6. CASE Main
  <2>1. UNCHANGED <<ds, pub, ball, clock, reg>>
      BY <1>6
      DEF Main, CreateWorker, MainStep, StartWork, JoinWorker, Report,
          dataVars
  <2>2. \A v \in Threads : pc'[v] \in {pc[v], "alloc"}
      BY <1>1, <1>6
      DEF Main, CreateWorker, MainStep, StartWork, JoinWorker, Report,
          Goto
  <2> QED
      BY <1>5, <2>1, <2>2
<1>7. CASE Failure
  <2>1. UNCHANGED <<ds, pub, ball, clock, reg>>
      BY <1>7
      DEF Failure, FrameFailure, MainFails, AllocFails, ItemFails, CallFails,
          ReturnNull, dataVars
  <2>2. \A v \in Threads : pc'[v] \in {pc[v], "done"}
      BY <1>1, <1>7
      DEF Failure, FrameFailure, MainFails, AllocFails, ItemFails, CallFails,
          ReturnNull, Goto
  <2> QED
      BY <1>5, <2>1, <2>2
<1>8. ASSUME NEW w \in Threads, FrameStep(w)
      PROVE  InTime({"lock", "store"})'
  <2>1. UNCHANGED <<ds, pub, ball, clock, reg>>
      BY <1>8 DEF FrameStep, Alloc, AwaitStart, Finalize, dataVars
  <2>2. \A v \in Threads : pc'[v] \in {pc[v], "await", "loop", "done"}
      BY <1>1, <1>8 DEF FrameStep, Alloc, AwaitStart, Finalize, Goto
  <2> QED
      BY <1>5, <2>1, <2>2
<1>9. ASSUME NEW w \in Threads, Stamp(w)
      PROVE  InTime({"lock", "store"})'
    BY <1>1, <1>9, InTimeStamp DEF Stamp
<1>10. ASSUME NEW w \in Threads, StoreTsc(w)
       PROVE  InTime({"lock", "store"})'
  <2>1. /\ pc[w] = "store" /\ Publish(w) /\ UNCHANGED <<ds, reg, clock>>
        /\ pc' = [pc EXCEPT ![w] = "unlock"]
      BY <1>10 DEF StoreTsc, NextIteration, Goto
  <2>2. \A v \in Threads :
            pc'[v] \in {"lock", "store"} => pc[v] \in {"lock", "store"}
      BY <1>1, <2>1
  <2> QED
      BY <2>1, <2>2, InTimePublish
<1>11. ASSUME NEW w \in Threads, LoadTsc(w)
       PROVE  InTime({"lock", "store"})'
  <2>1. /\ UNCHANGED <<ds, pub, ball, clock>>
        /\ pc' = [pc EXCEPT ![w] = "unlock"]
        /\ \A v \in Threads \ {w} : reg'[v] = reg[v]
      BY <1>1, <1>11 DEF LoadTsc, Goto
  <2> QED
      BY <1>1, <1>4, <2>1
<1>12. ASSUME NEW w \in Threads, \/ Lock(w) \/ CheckHit(w) \/ CheckMiss(w)
           \/ CondWait(w) \/ SpuriousWake(w) \/ Unlock(w) \/ Signal(w)
       PROVE  InTime({"lock", "store"})'
  <2>1. UNCHANGED <<ds, pub, ball, clock, reg>>
      BY <1>12
      DEF Lock, CheckHit, CheckMiss, CondWait, SpuriousWake, Unlock, Signal,
          dataVars
  <2>2. \A v \in Threads :
            pc'[v] \in {"lock", "store"} => pc[v] \in {"lock", "store"}
      BY <1>1, <1>12
      DEF Lock, CheckHit, CheckMiss, CondWait, SpuriousWake, Unlock, Signal,
          Goto, WantsMutex, AtRecv, InLoop, RallyInv, MutexInv, TurnsLeft, Receiving
  <2> QED
      BY <1>5, <2>1, <2>2
<1>13. ASSUME NEW w \in Threads, Record(w)
       PROVE  InTime({"lock", "store"})'
  <2>1. pc[w] = "now" /\ RecordDelta(w) /\ pc' = [pc EXCEPT ![w] = "loop"]
      BY <1>13 DEF Record, NextIteration, Goto
  <2>2. MayCatch(w) /\ reg[w] = ball
      BY <2>1 DEF RallyInv, WorkerKnows, Knows
  <2>3. ASSUME NEW v \in Threads, pc[v] \in {"lock", "store"} PROVE MayHit(v)
    <3>1. iter[v] \in Nat
        BY <1>1, HarnessAssumption DEF FrameTypeOK
    <3>2. ret[v] # "null" /\ Sends(v)
        BY <1>1, <2>3 DEF FrameInv, RallyInv, WorkerKnows, MutexInv,
            TurnsLeft, Sending
    <3>3. iter[v] = pub[v] + rcv[v] /\ iter[v] % 2 = v
        BY <2>3, <3>1, <3>2 DEF RallyInv, WorkerKnows, Sends, Knows, Played
    <3> QED
        BY <1>1, <3>1, <3>3, ParityTellsTurn
  <2>4. \A v \in Threads : ~MayHit(v)
      BY <1>1, <2>2, WhoseTurn
  <2>5. \A v \in Threads : pc'[v] \notin {"lock", "store"}
      BY <1>1, <2>1, <2>3, <2>4
  <2> QED
      BY <1>1, <2>1, <2>2, <2>5, InTimeRecord
<1> QED
    BY <1>6, <1>7, <1>8, <1>9, <1>10, <1>11, <1>12, <1>13 DEF Next, Worker

\* The invariant behind the latencies holds at all times.
THEOREM LatencyInvAlways == Spec => []LatencyInv
<1>1. Init => InTime({"lock", "store"})
    BY InTimeInit DEF Init
<1>2. RallyInv /\ InTime({"lock", "store"}) /\ [Next]_vars =>
          InTime({"lock", "store"})'
  <2> SUFFICES ASSUME RallyInv, InTime({"lock", "store"}), UNCHANGED vars
               PROVE  InTime({"lock", "store"})'
      BY LatencyStep
  <2> QED
      BY DEF InTime, LatenciesDisjoint, SpentAt, MayCatch, rcv, vars, frameVars,
             dataVars
<1> QED
    BY RallyInvAlways, <1>1, <1>2, PTL DEF Spec, LatencyInv

\* With synchronized TSCs the latencies of --cv (src/pingpong.c:468-521) do
\* not overlap: together they are not longer than the program ran.
THEOREM NoLatencyOverlaps == OneTsc => (Spec => []LatenciesDisjoint)
<1> SUFFICES ASSUME OneTsc PROVE Spec => []LatenciesDisjoint
    OBVIOUS
<1>1. LatencyInv => LatenciesDisjoint
    BY DEF LatencyInv, InTime
<1> QED
    BY LatencyInvAlways, <1>1, PTL
=============================================================================
