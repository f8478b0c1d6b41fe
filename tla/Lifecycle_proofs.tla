---------------------------- MODULE Lifecycle_proofs ----------------------------
(***************************************************************************)
(* Proof, for any number of workers, that the memory of the controller is  *)
(* freed only after its threads were joined, and that its variables keep   *)
(* their types, the counter of requests included.  The invariant of the    *)
(* first, IInv, relates where the caller is, and its loop counter, to the  *)
(* workers: the loop of vidispatcher_destroy passes over a worker without  *)
(* joining it only if its status is Init or Dead, and no worker that was   *)
(* created and not stopped is Dead.  That of the second, RInv, relates the *)
(* counter to the executors and to the dispatcher.                         *)
(***************************************************************************)
EXTENDS Lifecycle, TLAPS

Creation == {"malloc", "signals", "mainCreate", "mainSpin", "span", "workerCreate", "workerSpin"}
Stopping == {"stop", "resume", "dead"}
Ending == {"next"} \union Stopping

Shape ==
  /\ th \in [Threads -> {"none", "begin", "report", "park", "run", "stopped", "lock",
                         "wait", "woken", "signal", "cleanup", "check", "asleep",
                         "wake", "consume", "serve", "ended", "joined"}]
  /\ status \in [Threads -> {"Init", "Working", "Suspended", "Done", "Dead"}]
  /\ run \in [Threads -> BOOLEAN]
  /\ creating \in BOOLEAN
  /\ i \in Nat
  /\ upc \in {"workerSpin"} \union Stopping => i \in Workers
  /\ upc \in {"workerCreate", "next"} => i \in 1 .. Depth + 1

(* A worker that runs its loop, and one the caller is done with or that    *)
(* runs its loop.                                                          *)
Lives(w) == /\ run[w] = TRUE /\ status[w] # "Dead"
            /\ th[w] \in {"report", "lock", "wait", "woken", "run", "stopped", "signal"}
Settled(w) == Lives(w) \/ th[w] = "joined"

(* What the caller sees of the worker it waits for in vi_irq_worker_init.  *)
Spun == \/ out = "-1" /\ th[i] = "begin" /\ run[i] = TRUE /\ status[i] # "Dead"
        \/ out = "ok" /\ Lives(i)
        \/ out = "error" /\ th[i] # "begin"

CreationStage ==
  /\ upc \in {"malloc", "signals", "mainCreate", "mainSpin", "span"} =>
       \A w \in Workers : th[w] = "none"
  /\ upc = "mainSpin" => out = "-1" \/ th[Main] # "begin"
  /\ upc = "workerCreate" => \A w \in Workers : IF w < i THEN Settled(w) ELSE th[w] = "none"
  /\ upc = "workerSpin" \/ creating =>
       \A w \in Workers : (w < i => Settled(w)) /\ (w > i => th[w] = "none")
  /\ upc = "workerSpin" => Spun
  /\ creating => upc \in Stopping
  /\ upc \in {"span", "workerCreate", "workerSpin", "ready", "started", "mainJoin"} \union Stopping =>
       th[Main] # "begin"

DestructionStage ==
  /\ upc \in {"ready", "started", "mainJoin", "dispStop", "dispSignal", "dispWait"} =>
       \A w \in Workers : Settled(w)
  /\ upc \in {"dispStop", "dispSignal", "dispWait", "next", "destroyed"} => th[Main] = "joined"
  /\ upc \in Stopping /\ ~creating => th[Main] = "joined" /\ th[Disp] = "joined"
  /\ upc \in {"next", "destroyed"} => th[Disp] = "joined"
  /\ upc \in Ending /\ ~creating =>
       \A w \in Workers : /\ w < i => th[w] = "joined" \/ before = "late"
                          /\ w > i => Settled(w)
                          /\ w = i /\ upc \in {"next", "stop"} => Settled(w)
  /\ upc = "destroyed" /\ before # "late" => \A w \in Workers : th[w] = "joined"
  /\ mem = "freed" => upc = "destroyed"

History ==
  /\ upc \in Creation \union {"ready", "started"} \/ creating => before = "none"
  /\ upc \in {"mainJoin", "dispStop", "dispSignal", "dispWait", "next"} => before # "none"
  /\ upc \in Stopping /\ ~creating => before # "none"
  /\ before \notin {"none", "late"} => \A w \in Workers : status[w] # "Init"

IInv == Shape /\ CreationStage /\ DestructionStage /\ History

-----------------------------------------------------------------------------
LEMMA ThreadsAre ==
  /\ Depth \in Nat /\ Depth > 0 /\ Main \in Threads /\ Disp \in Threads /\ Main # Disp
  /\ \A w \in Workers : w \in Threads /\ w # Main /\ w # Disp /\ w \in Nat
  /\ \A t \in Threads : t = Main \/ t = Disp \/ t \in Workers
BY DepthAssumption DEF Main, Disp, Threads, Workers

LEMMA InitIInv == Init => IInv
<1> SUFFICES ASSUME Init PROVE IInv
  OBVIOUS
<1>1. Shape
  BY ThreadsAre DEF Init, Shape, Stopping
<1>2. CreationStage /\ DestructionStage /\ History
  BY ThreadsAre DEF Init, Spun, CreationStage, DestructionStage, History, Creation, Stopping, Ending
<1>3. QED BY <1>1, <1>2 DEF IInv

LEMMA ShapeStep == ASSUME Shape, Next PROVE Shape'
<1> USE ThreadsAre, DepthAssumption DEF Shape, Stopping, Caller, Goes, Marks, Workers, threadFrame
<1>1. CASE MainCreate \/ MainCreateError
  BY <1>1 DEF MainCreate, Creates, MainCreateError
<1>2. CASE WorkerCreate
  BY <1>2 DEF WorkerCreate, Creates
<1>3. CASE WorkerCreated \/ InitSpan
  BY <1>3 DEF WorkerCreated, InitSpan
<1>4. CASE \/ InitMalloc \/ InitMallocFail \/ InitSignals \/ MainCreated \/ WorkerCreateError
           \/ InitReturn \/ \E from \in Creation, e \in {"Libc", "Queue"} : Fails(from, e)
  BY <1>4 DEF InitMalloc, InitMallocFail, InitSignals, MainCreated, WorkerCreateError, InitReturn, Fails
<1>5. CASE Start \/ Destroy
  BY <1>5 DEF Start, Destroy
<1>6. CASE MainJoin \/ DispStop \/ DispSignal \/ DispJoin
  <2>1. CASE MainJoin
    BY <2>1 DEF MainJoin
  <2>2. CASE DispStop \/ DispSignal
    BY <2>2 DEF DispStop, DispSignal
  <2>3. CASE DispJoin
    BY <2>3 DEF DispJoin
  <2>4. QED BY <1>6, <2>1, <2>2, <2>3
<1>7. CASE NextWorker \/ WorkerStop \/ Free
  <2>1. CASE NextWorker
    BY <2>1 DEF NextWorker
  <2>2. CASE WorkerStop
    BY <2>2 DEF WorkerStop
  <2>3. CASE Free
    BY <2>3 DEF Free
  <2>4. QED BY <1>7, <2>1, <2>2, <2>3
<1>8. CASE WorkerCond \/ WorkerResume
  BY <1>8 DEF WorkerCond, WorkerResume
<1>9. CASE WorkerJoin
  <2>1. i \in Workers /\ i' = i + 1 /\ upc' \in {"workerCreate", "next"} /\ creating' = FALSE
    BY <1>9 DEF WorkerJoin
  <2>2. th' = [th EXCEPT ![i] = "joined"] /\ status' = [status EXCEPT ![i] = "Working"] /\ run' = run
    BY <1>9 DEF WorkerJoin
  <2>3. th' \in [Threads -> {"none", "begin", "report", "park", "run", "stopped", "lock",
                             "wait", "woken", "signal", "cleanup", "check", "asleep",
                             "wake", "consume", "serve", "ended", "joined"}]
        /\ status' \in [Threads -> {"Init", "Working", "Suspended", "Done", "Dead"}]
        /\ run' \in [Threads -> BOOLEAN]
    BY <2>2
  <2>4. i' \in Nat /\ i' \in 1 .. Depth + 1 /\ creating' \in BOOLEAN
    <3>1. i \in 1 .. Depth /\ Depth \in Nat
      BY <2>1
    <3>2. i + 1 \in Nat /\ i + 1 \in 1 .. Depth + 1
      BY ONLY <3>1, SMT
    <3>3. QED BY ONLY <2>1, <3>2
  <2>5. QED BY <2>1, <2>3, <2>4
<1>10. CASE \E k \in 1 .. Depth - 1 : Activity(k)
  BY <1>10 DEF Activity, callVars
<1>11. CASE MainNext
  BY <1>11 DEF MainNext, MainInitOk, MainInitError, MainInitAbort, MainPark, MainCancel
<1>12. CASE DispNext
  BY <1>12 DEF DispNext, DispCheck, DispPark, DispAwake, DispWake, DispEnd, DispConsume, DispServe
<1>13. ASSUME NEW w \in Workers, WorkerNext(w) PROVE Shape'
  BY <1>13 DEF WorkerNext, WorkerInitOk, WorkerInitError, WorkerReport, WorkerWait, WorkerWoken,
               WorkerEnd, WorkerSignal, WorkerCleanup
<1>14. QED BY <1>1, <1>2, <1>3, <1>4, <1>5, <1>6, <1>7, <1>8, <1>9, <1>10, <1>11, <1>12, <1>13
       DEF Next, InitNext, DestroyNext, Creation

-----------------------------------------------------------------------------
(* What a step of the threads, or an interrupt, leaves as it was.          *)
ThreadsMove == \/ MainNext \/ DispNext \/ \E k \in 1 .. Depth - 1 : Activity(k)
               \/ \E w \in Workers : WorkerNext(w)

LEMMA ThreadsKeep ==
  ASSUME Shape, ThreadsMove
  PROVE  /\ upc' \in {upc, "aborted"} /\ UNCHANGED <<i, creating, mem, run, before>>
         /\ \A w \in Workers : /\ th[w] \in {"none", "joined"} => th'[w] = th[w]
                               /\ Lives(w) => Lives(w)'
                               /\ status'[w] = "Init" => status[w] = "Init"
         /\ th[Main] = "joined" => th'[Main] = "joined"
         /\ th[Disp] = "joined" => th'[Disp] = "joined"
         /\ th[Main] # "begin" => th'[Main] # "begin"
         /\ out' # out => th[Main] = "begin" \/ \E w \in Workers : th[w] = "begin"
<1> USE ThreadsAre DEF Shape, Goes, Marks, threadFrame, Lives
<1>1. CASE MainNext
  <2>1. CASE MainInitAbort
    BY <2>1 DEF MainInitAbort
  <2>2. CASE MainInitOk \/ MainInitError \/ MainCancel
    BY <2>2 DEF MainInitOk, MainInitError, MainCancel
  <2>3. CASE MainPark
    BY <2>3 DEF MainPark
  <2>4. QED BY <1>1, <2>1, <2>2, <2>3 DEF MainNext
<1>2. CASE DispNext
  <2>1. CASE DispServe
    <3>1. UNCHANGED <<threadFrame, out>> /\ th[Disp] = "serve"
      BY <2>1 DEF DispServe
    <3>2. \A t \in Threads : t # Disp => th'[t] = th[t] \/ (th[t] = "stopped" /\ th'[t] = "run")
      BY <2>1 DEF DispServe
    <3>3. \A t \in Threads : status'[t] = status[t] \/ status'[t] = "Working"
      BY <2>1 DEF DispServe
    <3>4. QED BY <3>1, <3>2, <3>3
  <2>2. CASE DispCheck \/ DispPark \/ DispAwake
    BY <2>2 DEF DispCheck, DispPark, DispAwake
  <2>3. CASE DispWake \/ DispEnd \/ DispConsume
    BY <2>3 DEF DispWake, DispEnd, DispConsume
  <2>4. QED BY <1>2, <2>1, <2>2, <2>3 DEF DispNext
<1>3. ASSUME NEW k \in 1 .. Depth - 1, Activity(k)
      PROVE  /\ UNCHANGED <<upc, i, creating, mem, run, before, out>>
             /\ \A w \in Workers : /\ th[w] \in {"none", "joined"} => th'[w] = th[w]
                                   /\ Lives(w) => Lives(w)'
                                   /\ status'[w] = "Init" => status[w] = "Init"
             /\ th[Main] = "run" /\ th'[Main] = "stopped" /\ th'[Disp] = th[Disp]
  BY <1>3, DepthAssumption DEF Activity, callVars, Threads, Workers, Main, Disp
<1>4. ASSUME NEW w \in Workers, WorkerNext(w)
      PROVE  /\ UNCHANGED <<upc, i, creating, mem, run, before>>
             /\ out' # out => th[w] = "begin"
             /\ \A t \in Threads : t # w => th'[t] = th[t]
             /\ \A t \in Workers : t # w => status'[t] = status[t]
             /\ th[w] \notin {"none", "joined"}
             /\ Lives(w) => Lives(w)'
             /\ status'[w] = "Init" => status[w] = "Init"
  BY <1>4 DEF WorkerNext, WorkerInitOk, WorkerInitError, WorkerReport, WorkerWait, WorkerWoken,
              WorkerEnd, WorkerSignal, WorkerCleanup
<1>5. QED BY <1>1, <1>2, <1>3, <1>4 DEF ThreadsMove

LEMMA ThreadsSpin ==
  ASSUME Shape, ThreadsMove, upc = "workerSpin", th[Main] # "begin", Spun,
         \A w \in Workers : (w < i => Settled(w)) /\ (w > i => th[w] = "none")
  PROVE  Spun'
<1> USE ThreadsAre DEF Shape, Goes, Marks, threadFrame, Lives
<1>1. i \in Workers /\ \A w \in Workers : w # i => th[w] # "begin"
  BY DEF Stopping, Settled
<1>2. ASSUME out' = out,
             IF th[i] = "begin" THEN th'[i] = "begin" /\ status'[i] \in {status[i], "Working"}
                                ELSE th'[i] # "begin"
      PROVE  Spun'
  BY <1>1, <1>2, ThreadsKeep DEF Spun
<1>3. CASE MainNext
  BY <1>1, <1>2, <1>3 DEF MainNext, MainInitOk, MainInitError, MainInitAbort, MainPark, MainCancel
<1>4. CASE DispNext
  <2>1. CASE DispServe
    BY <1>1, <1>2, <2>1 DEF DispServe
  <2>2. CASE DispCheck \/ DispPark \/ DispAwake \/ DispWake \/ DispEnd \/ DispConsume
    BY <1>1, <1>2, <2>2 DEF DispCheck, DispPark, DispAwake, DispWake, DispEnd, DispConsume
  <2>3. QED BY <1>4, <2>1, <2>2 DEF DispNext
<1>5. CASE \E k \in 1 .. Depth - 1 : Activity(k)
  BY <1>5 DEF Activity
<1>6. ASSUME NEW w \in Workers, WorkerNext(w) PROVE Spun'
  <2>1. CASE w # i
    BY <1>1, <1>2, <1>6, <2>1
       DEF WorkerNext, WorkerInitOk, WorkerInitError, WorkerReport, WorkerWait, WorkerWoken,
           WorkerEnd, WorkerSignal, WorkerCleanup
  <2>2. CASE w = i
    <3>1. CASE WorkerInitOk(i)
      BY <1>1, <3>1 DEF Spun, WorkerInitOk
    <3>2. CASE WorkerInitError(i)
      BY <3>2 DEF Spun, WorkerInitError
    <3>3. CASE ~WorkerInitOk(i) /\ ~WorkerInitError(i)
      <4>1. out' = out /\ th[i] # "begin" /\ th'[i] # "begin"
        BY <1>6, <2>2, <3>3
           DEF WorkerNext, WorkerReport, WorkerWait, WorkerWoken, WorkerEnd, WorkerSignal, WorkerCleanup
      <4>2. QED BY <1>2, <4>1
    <3>4. QED BY <3>1, <3>2, <3>3
  <2>3. QED BY <2>1, <2>2
<1>7. QED BY <1>3, <1>4, <1>5, <1>6 DEF ThreadsMove

LEMMA ThreadsStep == ASSUME IInv, ThreadsMove PROVE CreationStage' /\ DestructionStage' /\ History'
<1> USE ThreadsAre DEF IInv
<1> DEFINE Kept(w) == /\ th[w] \in {"none", "joined"} => th'[w] = th[w]
                      /\ Lives(w) => Lives(w)'
                      /\ status'[w] = "Init" => status[w] = "Init"
<1>1. /\ upc' \in {upc, "aborted"} /\ UNCHANGED <<i, creating, mem, run, before>>
      /\ \A w \in Workers : Kept(w)
      /\ th[Main] = "joined" => th'[Main] = "joined"
      /\ th[Disp] = "joined" => th'[Disp] = "joined"
      /\ th[Main] # "begin" => th'[Main] # "begin"
  BY ThreadsKeep
<1>2. upc = "mainSpin" => \/ out' = out /\ (th[Main] # "begin" => th'[Main] # "begin")
                          \/ th'[Main] # "begin" \/ upc' = "aborted"
  <2>1. CASE MainNext
    BY <2>1 DEF MainNext, MainInitOk, MainInitError, MainInitAbort, MainPark, MainCancel, Goes, Shape
  <2>2. CASE DispNext
    BY <1>1, <2>2 DEF DispNext, DispCheck, DispPark, DispAwake, DispWake, DispEnd, DispConsume, DispServe
  <2>3. CASE \E k \in 1 .. Depth - 1 : Activity(k)
    BY <2>3 DEF Activity
  <2>4. ASSUME upc = "mainSpin", NEW w \in Workers, WorkerNext(w) PROVE FALSE
    <3>1. th[w] = "none"
      BY <2>4 DEF CreationStage
    <3>2. QED BY <2>4, <3>1 DEF WorkerNext, WorkerInitOk, WorkerInitError, WorkerReport, WorkerWait,
                 WorkerWoken, WorkerEnd, WorkerSignal, WorkerCleanup, Goes
  <2>5. QED BY <2>1, <2>2, <2>3, <2>4 DEF ThreadsMove
<1>3. upc = "workerSpin" => Spun'
  BY ThreadsSpin DEF CreationStage
<1>4. \A w \in Workers : Settled(w) => Settled(w)'
  BY <1>1 DEF Settled
<1>5. CASE upc' # upc
  <2>1. upc' = "aborted" /\ th[Main] = "begin"
    <3>1. CASE MainNext
      BY <1>5, <3>1 DEF MainNext, MainInitOk, MainInitError, MainInitAbort, MainPark, MainCancel, threadFrame
    <3>2. CASE DispNext
      BY <1>5, <3>2 DEF DispNext, DispCheck, DispPark, DispAwake, DispWake, DispEnd, DispConsume,
                        DispServe, threadFrame
    <3>3. CASE \E k \in 1 .. Depth - 1 : Activity(k)
      BY <1>5, <3>3 DEF Activity, callVars
    <3>4. CASE \E w \in Workers : WorkerNext(w)
      BY <1>5, <3>4 DEF WorkerNext, WorkerInitOk, WorkerInitError, WorkerReport, WorkerWait, WorkerWoken,
                        WorkerEnd, WorkerSignal, WorkerCleanup, threadFrame
    <3>5. QED BY <3>1, <3>2, <3>3, <3>4 DEF ThreadsMove
  <2>2. ~creating /\ mem # "freed"
    BY <2>1 DEF CreationStage, DestructionStage
  <2>3. CreationStage'
    BY <1>1, <2>1, <2>2 DEF CreationStage, Stopping
  <2>4. DestructionStage' /\ History'
    BY <1>1, <2>1, <2>2 DEF DestructionStage, History, Stopping, Ending, Creation
  <2>5. QED BY <2>3, <2>4
<1>6. CASE upc' = upc
  <2>1. CreationStage'
    BY <1>1, <1>2, <1>3, <1>4, <1>6 DEF CreationStage, Stopping
  <2>2. DestructionStage'
    BY <1>1, <1>4, <1>6 DEF DestructionStage, Stopping, Ending
  <2>3. History'
    BY <1>1, <1>6 DEF History, Creation, Stopping
  <2>4. QED BY <2>1, <2>2, <2>3
<1>7. QED BY <1>1, <1>5, <1>6

LEMMA StutterStep == ASSUME IInv, UNCHANGED vars PROVE IInv'
<1> USE DEF vars, callVars, dispVars, Lives, Settled, Spun
<1>1. Shape'
  BY DEF IInv, Shape, Stopping
<1>2. CreationStage'
  BY DEF IInv, CreationStage, Stopping
<1>3. DestructionStage' /\ History'
  BY DEF IInv, DestructionStage, History, Stopping, Ending, Creation
<1>4. QED BY <1>1, <1>2, <1>3 DEF IInv

LEMMA CallerStep ==
  ASSUME IInv, Shape', InitNext \/ Start \/ Destroy \/ DestroyNext
  PROVE  CreationStage' /\ DestructionStage' /\ History'
<1> USE ThreadsAre, DepthAssumption
    DEF IInv, Shape, Workers, Caller, Goes, Marks, CreationStage, DestructionStage, History, Spun,
        Lives, Settled, Creation, Stopping, Ending
<1>1. CASE InitMalloc
  BY <1>1 DEF InitMalloc
<1>2. CASE InitMallocFail
  BY <1>2 DEF InitMallocFail
<1>3. CASE InitSignals
  BY <1>3 DEF InitSignals
<1>4. CASE MainCreate
  BY <1>4 DEF MainCreate, Creates
<1>5. CASE MainCreated
  BY <1>5 DEF MainCreated
<1>6. CASE MainCreateError
  BY <1>6 DEF MainCreateError
<1>7. CASE InitSpan
  BY <1>7 DEF InitSpan
<1>8. CASE WorkerCreate
  BY <1>8 DEF WorkerCreate, Creates
<1>9. CASE WorkerCreated
  BY <1>9 DEF WorkerCreated
<1>10. CASE WorkerCreateError
  BY <1>10 DEF WorkerCreateError
<1>11. CASE InitReturn
  BY <1>11 DEF InitReturn
<1>12. CASE \E from \in Creation, e \in {"Libc", "Queue"} : Fails(from, e)
  BY <1>12 DEF Fails
<1>13. CASE Start
  BY <1>13 DEF Start
<1>14. CASE Destroy
  BY <1>14 DEF Destroy, Found
<1>15. CASE MainJoin
  BY <1>15 DEF MainJoin
<1>16. CASE DispStop
  BY <1>16 DEF DispStop
<1>17. CASE DispSignal
  BY <1>17 DEF DispSignal
<1>18. CASE DispJoin
  BY <1>18 DEF DispJoin
<1>19. CASE NextWorker
  <2>1. upc = "next" /\ i \in Nat /\ ~creating /\ UNCHANGED <<th, status, run, creating, before, mem, out>>
    BY <1>19 DEF NextWorker
  <2>2. CASE DestroyedAlready(i)
    <3>1. upc' = "next" /\ i' = i + 1 /\ i \in Workers
      BY <1>19, <2>1, <2>2 DEF NextWorker
    <3>2. th[i] = "joined" \/ before = "late"
      <4>1. Settled(i)
        BY <2>1, <3>1
      <4>2. status[i] = "Init" => before = "late"
        BY <2>1, <3>1
      <4>3. QED BY <2>2, <4>1, <4>2 DEF DestroyedAlready
    <3>3. \A w \in Workers : w < i + 1 => th[w] = "joined" \/ before = "late"
      BY <2>1, <3>1, <3>2
    <3>4. \A w \in Workers : w >= i + 1 => Settled(w)
      BY <2>1, <3>1
    <3>5. QED BY <2>1, <3>1, <3>3, <3>4
  <2>3. CASE ~DestroyedAlready(i)
    <3>1. upc' = "stop" /\ i' = i
      BY <1>19, <2>3 DEF NextWorker
    <3>2. \A w \in Workers : Settled(w)' = Settled(w)
      BY <2>1
    <3>3. th[Main] = "joined" /\ th[Disp] = "joined" /\ before # "none" /\ mem # "freed"
      BY <2>1
    <3>4. \A w \in Workers : (w < i => th[w] = "joined" \/ before = "late") /\ (w >= i => Settled(w))
      BY <2>1
    <3>5. QED BY <2>1, <3>1, <3>2, <3>3, <3>4
  <2>4. QED BY <2>2, <2>3
<1>20. CASE WorkerStop
  BY <1>20 DEF WorkerStop
<1>21. CASE WorkerCond
  BY <1>21 DEF WorkerCond
<1>22. CASE WorkerResume
  BY <1>22 DEF WorkerResume
<1>23. CASE WorkerJoin
  BY <1>23 DEF WorkerJoin
<1>24. CASE Free
  BY <1>24 DEF Free
<1>25. QED BY <1>1, <1>2, <1>3, <1>4, <1>5, <1>6, <1>7, <1>8, <1>9, <1>10, <1>11, <1>12, <1>13, <1>14, <1>15, <1>16, <1>17, <1>18, <1>19, <1>20, <1>21, <1>22, <1>23, <1>24
        DEF InitNext, DestroyNext

LEMMA StepIInv == IInv /\ [Next]_vars => IInv'
<1> SUFFICES ASSUME IInv, [Next]_vars PROVE IInv'
  OBVIOUS
<1>1. CASE UNCHANGED vars
  BY <1>1, StutterStep
<1>2. CASE Next
  <2>1. Shape'
    BY <1>2, ShapeStep DEF IInv
  <2>2. CASE ThreadsMove
    BY <2>1, <2>2, ThreadsStep DEF IInv
  <2>3. CASE InitNext \/ Start \/ Destroy \/ DestroyNext
    BY <2>1, <2>3, CallerStep DEF IInv
  <2>4. QED BY <1>2, <2>2, <2>3 DEF Next, ThreadsMove
<1>3. QED BY <1>1, <1>2

(* What the threads use is freed only after they were joined, for any      *)
(* number of workers, with every failure of creation and wherever the      *)
(* threads are when vidispatcher_destroy is called.                        *)
THEOREM MemoryOutlivesThreads == Spec => []FreedAfterJoin
<1>1. IInv => FreedAfterJoin
  <2> SUFFICES ASSUME IInv, mem = "freed", before # "late", NEW t \in Threads
               PROVE  th[t] \in {"none", "joined"}
    BY DEF FreedAfterJoin
  <2>1. upc = "destroyed"
    BY DEF IInv, DestructionStage
  <2>2. th[Main] = "joined" /\ th[Disp] = "joined" /\ \A w \in Workers : th[w] = "joined"
    BY <2>1 DEF IInv, DestructionStage
  <2>3. QED BY <2>2, ThreadsAre
<1>2. QED BY <1>1, InitIInv, StepIInv, PTL DEF Spec
-----------------------------------------------------------------------------
(* The counter of requests, which nothing caps, stays below the number of  *)
(* workers.  An executor announces its end once; the dispatcher takes one  *)
(* off the stack for each request it serves, so that while it runs there   *)
(* is at most one request, that of the executor on top.  Once it is told   *)
(* to end, the requests left are that of the call, that of the executor on *)
(* top, and that of the first worker if the call resumes it: it never      *)
(* reaches Dead, and no other worker is resumed after it.                  *)
Active == {"run", "stopped", "signal"}
Announced(w) == IF th[w] \in Active THEN 0 ELSE 1
Called == IF upc \in {"dispWait", "destroyed", "aborted"} \union Ending /\ ~creating THEN 1 ELSE 0

Executors ==
  /\ exec \in 0 .. Depth - 1
  /\ exec > 0 => /\ upc \in {"started", "mainJoin", "dispStop", "dispSignal", "dispWait",
                             "destroyed"} \union Ending
                 /\ ~creating
                 /\ upc \in {"mainJoin", "dispStop"} => run[Disp]
  /\ upc = "started" => run[Disp]
  /\ \A w \in Workers : w > exec => th[w] \notin Active
  /\ \A w \in Workers : th[w] = "woken" => ~run[w]
  /\ upc \in {"resume", "dead"} => ~run[i]

Interrupted ==
  /\ exec > 1 => upc # "destroyed" /\ (upc \in Ending => i = 1)
  /\ \A w \in Workers : w < exec =>
       IF w = 1 /\ upc = "dead" THEN th[w] \in {"run", "signal", "lock", "wait"} /\ status[w] # "Dead"
                                ELSE th[w] = "stopped" /\ status[w] = "Suspended"

(* Before the dispatcher is told to end. *)
Served ==
  IF exec = 0 THEN nreq = 0 /\ th[Disp] \in {"check", "park", "asleep"}
  ELSE \/ /\ th[exec] \in {"run", "signal"}
          /\ nreq = 0 /\ th[Disp] \in {"check", "park", "asleep"}
       \/ /\ th[exec] \in {"lock", "wait"} /\ status[exec] = "Done"
          /\ \/ nreq = 1 /\ th[Disp] \in {"check", "park", "asleep", "wake", "consume"}
             \/ nreq = 0 /\ th[Disp] = "serve"

(* Afterwards, or before it was started. *)
Left ==
  /\ nreq \in Nat
  /\ nreq <= Called + (IF exec > 0 THEN Announced(exec) ELSE 0)
                    + (IF exec > 1 /\ upc = "dead" THEN Announced(1) ELSE 0)

Requests ==
  /\ run[Disp] => upc \in {"started", "mainJoin", "dispStop"} /\ Served
  /\ ~run[Disp] => Left
  /\ \A w \in Workers : th[w] = "signal" /\ run[Disp] => status[w] = "Done"

RInv == Executors /\ Interrupted /\ Requests

LEMMA RInvInit == Init => RInv
BY ThreadsAre, DepthAssumption
   DEF Init, RInv, Executors, Interrupted, Requests, Left, Called, Announced, Active, Ending, Stopping

LEMMA RInvStutter == ASSUME RInv, UNCHANGED vars PROVE RInv'
BY DEF vars, callVars, dispVars, RInv, Executors, Interrupted, Requests, Served, Left, Called,
       Announced, Active, Ending, Stopping

LEMMA RInvCaller ==
  ASSUME IInv, RInv, Shape', InitNext \/ Start \/ Destroy \/ DestroyNext
  PROVE  RInv'
<1> USE ThreadsAre, DepthAssumption
    DEF IInv, Shape, RInv, Executors, Interrupted, Requests, Served, Left, Called, Announced, Active,
        Ending, Stopping, Workers, Caller, Goes, Marks, dispVars, CreationStage, DestructionStage,
        Settled, Lives
<1>1. CASE InitMalloc
  BY <1>1 DEF InitMalloc
<1>2. CASE InitMallocFail
  BY <1>2 DEF InitMallocFail
<1>3. CASE InitSignals
  BY <1>3 DEF InitSignals
<1>4. CASE MainCreate
  BY <1>4 DEF MainCreate, Creates
<1>5. CASE MainCreated
  BY <1>5 DEF MainCreated
<1>6. CASE MainCreateError
  BY <1>6 DEF MainCreateError
<1>7. CASE InitSpan
  BY <1>7 DEF InitSpan
<1>8. CASE WorkerCreate
  BY <1>8 DEF WorkerCreate, Creates
<1>9. CASE WorkerCreated
  BY <1>9 DEF WorkerCreated
<1>10. CASE WorkerCreateError
  BY <1>10 DEF WorkerCreateError
<1>11. CASE InitReturn
  BY <1>11 DEF InitReturn
<1>12. CASE \E from \in Creation, e \in {"Libc", "Queue"} : Fails(from, e)
  BY <1>12 DEF Fails, Creation
<1>13. CASE Start
  BY <1>13 DEF Start
<1>14. CASE Destroy
  BY <1>14 DEF Destroy
<1>15. CASE MainJoin
  BY <1>15 DEF MainJoin
<1>16. CASE DispStop
  <2>1. /\ upc = "dispStop" /\ upc' \in {"undefined", "dispSignal"} /\ run' = [run EXCEPT ![Disp] = FALSE]
        /\ upc' = "undefined" => th[Disp] = "none"
        /\ UNCHANGED <<th, status, i, creating, nreq, exec>>
    BY <1>16 DEF DispStop
  <2>2. exec > 0 => run[Disp] /\ th[Disp] # "none"
    BY <2>1
  <2>3. Left'
    <3>1. CASE run[Disp]
      BY <2>1, <3>1
    <3>2. CASE ~run[Disp]
      BY <2>1, <3>2
    <3>3. QED BY <3>1, <3>2
  <2>4. QED BY <2>1, <2>2, <2>3
<1>17. CASE DispSignal
  BY <1>17 DEF DispSignal, SignalDispatcher
<1>18. CASE DispJoin
  BY <1>18 DEF DispJoin
<1>19. CASE NextWorker
  <2>1. upc = "next" /\ i \in Workers /\ UNCHANGED <<th, status, run, creating, nreq, exec>>
    BY <1>19 DEF NextWorker
  <2>2. CASE DestroyedAlready(i)
    <3>1. upc' = "next" /\ i' = i + 1
      BY <1>19, <2>2 DEF NextWorker
    <3>2. exec \in {0, 1}
      BY <2>1, <2>2 DEF DestroyedAlready
    <3>3. QED BY <2>1, <3>1, <3>2
  <2>3. CASE ~DestroyedAlready(i)
    <3>1. upc' = "stop" /\ i' = i
      BY <1>19, <2>3 DEF NextWorker
    <3>2. QED BY <2>1, <3>1
  <2>4. QED BY <2>2, <2>3
<1>20. CASE WorkerStop
  BY <1>20 DEF WorkerStop
<1>21. CASE WorkerCond
  BY <1>21 DEF WorkerCond
<1>22. CASE WorkerResume
  BY <1>22 DEF WorkerResume
<1>23. CASE WorkerJoin
  BY <1>23 DEF WorkerJoin
<1>24. CASE Free
  BY <1>24 DEF Free
<1>25. QED BY <1>1, <1>2, <1>3, <1>4, <1>5, <1>6, <1>7, <1>8, <1>9, <1>10, <1>11, <1>12, <1>13, <1>14, <1>15, <1>16, <1>17, <1>18, <1>19, <1>20, <1>21, <1>22, <1>23, <1>24
        DEF InitNext, DestroyNext, Creation

LEMMA Numbers ==
  ASSUME exec \in 0 .. Depth - 1
  PROVE  /\ \A w \in Workers : w \in Nat /\ w > 0 /\ w <= Depth
         /\ \A k \in Nat : k > 0 /\ k <= Depth => k \in Workers
         /\ exec \in Nat /\ exec < Depth
         /\ exec > 0 => /\ exec \in Workers /\ exec \in Threads /\ exec # Disp /\ exec # Main
                        /\ exec - 1 \in Nat /\ exec - 1 \in Threads /\ exec - 1 # Disp
                        /\ exec - 1 < exec /\ exec - 1 < Depth
         /\ exec > 1 => exec - 1 \in Workers /\ exec - 1 > 0 /\ exec - 1 # Main
BY DepthAssumption DEF Workers, Threads, Disp, Main

(* The dispatcher takes one executor off the stack, and the one below it   *)
(* goes on.                                                                *)
LEMMA ServeStep ==
  ASSUME Shape, exec \in 0 .. Depth - 1, exec > 0, status[exec] = "Done", DispServe,
         \A w \in Workers : w < exec => th[w] = "stopped" /\ status[w] = "Suspended"
  PROVE  /\ exec' = exec - 1 /\ th'[Disp] = "check"
         /\ UNCHANGED <<upc, i, creating, run, nreq>>
         /\ \A t \in Threads : t \notin {Disp, exec - 1} => th'[t] = th[t] /\ status'[t] = status[t]
         /\ exec > 1 => th'[exec - 1] = "run"
<1> DEFINE Ended(k) == \A w \in k + 1 .. exec : status[w] = "Done"
           Top(k) == Ended(k) /\ (k = 0 \/ ~Ended(k - 1))
           goesOn == \/ exec' < exec /\ exec' > 0 /\ status[exec'] # "Working"
                     \/ exec' = 0 /\ status[Main] = "Suspended"
<1>1. /\ exec' = CHOOSE k \in 0 .. exec : Top(k)
      /\ th' = [th EXCEPT ![Disp] = "check",
                          ![exec'] = IF goesOn /\ @ = "stopped" THEN "run" ELSE @]
      /\ status' = IF goesOn THEN [status EXCEPT ![exec'] = "Working"] ELSE status
      /\ UNCHANGED <<upc, i, creating, run, nreq>>
  BY DEF DispServe, threadFrame
<1>2. exec \in Nat
  BY Numbers
<1>3. Ended(exec - 1)
  BY <1>2
<1>4. \A k \in 0 .. exec : k < exec - 1 => ~Ended(k)
  <2> SUFFICES ASSUME NEW k \in 0 .. exec, k < exec - 1
               PROVE  k + 1 \in k + 1 .. exec /\ status[k + 1] # "Done"
    OBVIOUS
  <2>1. exec < Depth /\ Depth \in Nat
    BY Numbers, DepthAssumption
  <2>2. k \in Nat /\ k + 1 \in Nat /\ k + 1 < exec /\ k + 1 > 0 /\ k + 1 <= Depth /\ k + 1 \in k + 1 .. exec
    BY <1>2, <2>1
  <2>3. k + 1 \in Workers
    BY <2>2, Numbers
  <2>4. QED BY <2>2, <2>3
<1>5. exec - 1 \in 0 .. exec /\ Top(exec - 1)
  <2>1. exec - 1 \in 0 .. exec /\ (exec - 1 = 0 \/ (exec - 2 \in 0 .. exec /\ exec - 2 < exec - 1))
    BY <1>2
  <2>2. (exec - 1) - 1 = exec - 2
    BY <1>2
  <2>3. exec - 1 = 0 \/ ~Ended(exec - 2)
    BY <2>1, <1>4
  <2>4. QED BY <1>3, <2>1, <2>2, <2>3
<1>6. \A k \in 0 .. exec : Top(k) => k = exec - 1
  <2> SUFFICES ASSUME NEW k \in 0 .. exec, Top(k) PROVE k = exec - 1
    OBVIOUS
  <2>1. ~(k < exec - 1)
    BY <1>4
  <2>2. k # exec
    BY <1>2, <1>3
  <2>3. QED BY <1>2, <2>1, <2>2
<1>7. exec' = exec - 1
  <2> HIDE DEF Top
  <2>1. QED BY <1>1, <1>5, <1>6
<1>8. exec - 1 \in Threads /\ exec - 1 # Disp
  BY Numbers
<1>9. exec > 1 => th[exec - 1] = "stopped" /\ goesOn
  BY Numbers, <1>2, <1>7
<1> HIDE DEF goesOn
<1>10. QED BY <1>1, <1>7, <1>8, <1>9, ThreadsAre DEF Shape

LEMMA RInvThreads == ASSUME IInv, RInv, Shape', ThreadsMove PROVE RInv'
<1> USE ThreadsAre, DepthAssumption
    DEF IInv, Shape, RInv, Executors, Interrupted, Requests, Served, Left, Called, Announced, Active,
        Ending, Stopping, Goes, Marks, threadFrame, dispVars, CreationStage, DestructionStage
<1>1. CASE MainInitOk
  BY <1>1 DEF MainInitOk
<1>2. CASE MainInitError
  BY <1>2 DEF MainInitError
<1>3. CASE MainInitAbort
  BY <1>3 DEF MainInitAbort
<1>4. CASE MainPark
  BY <1>4 DEF MainPark
<1>5. CASE MainCancel
  <2>1. th' = [th EXCEPT ![Main] = "ended"] /\ UNCHANGED <<upc, i, creating, run, status, nreq, exec>>
    BY <1>5 DEF MainCancel
  <2>2. Executors' /\ Interrupted'
    BY <2>1
  <2>3. Requests'
    <3>1. th'[Disp] = th[Disp] /\ \A w \in Workers : th'[w] = th[w]
      BY <2>1
    <3>2. exec > 0 => exec \in Workers
      BY Numbers
    <3>3. QED BY <2>1, <3>1, <3>2
  <2>4. QED BY <2>2, <2>3
<1>6. CASE DispCheck
  BY <1>6 DEF DispCheck
<1>7. CASE DispPark
  BY <1>7 DEF DispPark
<1>8. CASE DispAwake
  BY <1>8 DEF DispAwake
<1>9. CASE DispWake
  BY <1>9 DEF DispWake
<1>10. CASE DispEnd
  <2>1. /\ ~run[Disp] /\ th' = [th EXCEPT ![Disp] = "ended"] /\ status' = [status EXCEPT ![Disp] = "Dead"]
        /\ UNCHANGED <<upc, i, creating, run, nreq, exec>>
    BY <1>10 DEF DispEnd
  <2>2. Executors' /\ Interrupted'
    BY <2>1
  <2>3. Requests'
    BY <2>1
  <2>4. QED BY <2>2, <2>3
<1>11. CASE DispConsume
  BY <1>11 DEF DispConsume
<1>12. CASE DispServe
  <2>1. /\ run[Disp] /\ exec > 0 /\ nreq = 0 /\ th[exec] \in {"lock", "wait"} /\ status[exec] = "Done"
        /\ upc \in {"started", "mainJoin", "dispStop"}
    BY <1>12 DEF DispServe
  <2>2. \A w \in Workers : w < exec => th[w] = "stopped" /\ status[w] = "Suspended"
    BY <2>1
  <2>3. /\ exec' = exec - 1 /\ th'[Disp] = "check"
        /\ UNCHANGED <<upc, i, creating, run, nreq>>
        /\ \A t \in Threads : t \notin {Disp, exec - 1} => th'[t] = th[t] /\ status'[t] = status[t]
        /\ exec > 1 => th'[exec - 1] = "run"
    BY <1>12, <2>1, <2>2, ServeStep
  <2>4. Executors'
    <3>1. exec' \in 0 .. Depth - 1
      BY <2>1, <2>3, Numbers
    <3>2. \A w \in Workers : w > exec' => th'[w] \notin Active
      BY <2>1, <2>3, Numbers
    <3>3. \A w \in Workers : th'[w] = "woken" => ~run'[w]
      BY <2>1, <2>3, Numbers
    <3>4. QED BY <2>1, <2>3, <3>1, <3>2, <3>3
  <2>5. Interrupted'
    BY <2>1, <2>2, <2>3, Numbers
  <2>6. Requests'
    <3>1. Served'
      BY <2>1, <2>3, Numbers
    <3>2. \A w \in Workers : th'[w] = "signal" => status'[w] = "Done"
      BY <2>1, <2>3, Numbers
    <3>3. QED BY <2>1, <2>3, <3>1, <3>2
  <2>7. QED BY <2>4, <2>5, <2>6
<1>13. ASSUME NEW k \in 1 .. Depth - 1, Activity(k) PROVE RInv'
  BY <1>13 DEF Activity, callVars, Workers, Threads, Disp, Main
<1>14. ASSUME NEW w \in Workers, WorkerInitOk(w) PROVE RInv'
  BY <1>14 DEF WorkerInitOk
<1>15. ASSUME NEW w \in Workers, WorkerInitError(w) PROVE RInv'
  BY <1>15 DEF WorkerInitError
<1>16. ASSUME NEW w \in Workers, WorkerReport(w) PROVE RInv'
  BY <1>16 DEF WorkerReport
<1>17. ASSUME NEW w \in Workers, WorkerWait(w) PROVE RInv'
  BY <1>17 DEF WorkerWait
<1>18. ASSUME NEW w \in Workers, WorkerWoken(w) PROVE RInv'
  BY <1>18 DEF WorkerWoken
<1>19. ASSUME NEW w \in Workers, WorkerEnd(w) PROVE RInv'
  BY <1>19 DEF WorkerEnd
<1>20. ASSUME NEW w \in Workers, WorkerSignal(w) PROVE RInv'
  <2>1. /\ th[w] = "signal" /\ th' = [th EXCEPT ![w] = "lock"] /\ nreq' = nreq + 1
        /\ status' = [status EXCEPT ![Disp] = "Working"]
        /\ UNCHANGED <<upc, i, creating, run, exec>>
    BY <1>20 DEF WorkerSignal, SignalDispatcher
  <2>2. Executors' /\ Interrupted'
    BY <2>1
  <2>3. w \in Nat /\ w > 0 /\ exec \in Nat /\ w <= exec
    <3>1. ~(w > exec)
      BY <2>1
    <3>2. QED BY <3>1, Numbers
  <2>4. CASE w = exec
    <3>1. CASE run[Disp]
      BY <2>1, <2>3, <2>4, <3>1
    <3>2. CASE ~run[Disp]
      BY <2>1, <2>3, <2>4, <3>2
    <3>3. QED BY <2>2, <3>1, <3>2
  <2>5. CASE w # exec
    <3>1. w = 1 /\ upc = "dead" /\ exec > 1 /\ ~run[Disp]
      BY <2>1, <2>3, <2>5
    <3>2. Left'
      BY <2>1, <3>1
    <3>3. QED BY <2>1, <2>2, <3>1, <3>2
  <2>6. QED BY <2>4, <2>5
<1>21. ASSUME NEW w \in Workers, WorkerCleanup(w) PROVE RInv'
  BY <1>21 DEF WorkerCleanup
<1>22. QED BY <1>1, <1>2, <1>3, <1>4, <1>5, <1>6, <1>7, <1>8, <1>9, <1>10, <1>11, <1>12, <1>13, <1>14, <1>15, <1>16, <1>17, <1>18, <1>19, <1>20, <1>21
        DEF ThreadsMove, MainNext, DispNext, WorkerNext

LEMMA RInvStep == IInv /\ RInv /\ [Next]_vars => RInv'
<1> SUFFICES ASSUME IInv, RInv, [Next]_vars PROVE RInv'
  OBVIOUS
<1>1. Shape'
  BY StepIInv DEF IInv
<1>2. QED BY <1>1, RInvStutter, RInvCaller, RInvThreads DEF Next, ThreadsMove

(* The variables that only take the values the actions name.               *)
Fields ==
  /\ upc \in Creation \union Ending \union
       {"workerCreate", "ready", "started", "mainJoin", "dispStop", "dispSignal", "dispWait",
        "destroyed", "failed", "aborted", "undefined"}
  /\ ret \in {"None", "Libc", "Queue", "Error"}
  /\ i \in 0 .. Depth + 1
  /\ cancelled \in BOOLEAN /\ dresume \in BOOLEAN
  /\ mem \in {"none", "local", "owned", "freed"}
  /\ out \in {"-1", "ok", "error"}
  /\ before \in {"none", "late", "busy", "calm"}

LEMMA FieldsInit == Init => Fields
<1>1. 0 \in 0 .. Depth + 1
  BY DepthAssumption
<1>2. QED BY <1>1 DEF Init, Fields, Creation

LEMMA FieldsStep == Shape /\ Fields /\ [Next]_vars => Fields'
<1> SUFFICES ASSUME Shape, Fields, [Next]_vars PROVE Fields'
  OBVIOUS
<1> USE DEF Creation, Ending, Stopping, Caller
<1>1. \A k \in Workers : k + 1 \in 0 .. Depth + 1
  BY DepthAssumption DEF Workers
<1>2. 1 \in 0 .. Depth + 1 /\ \A k \in Nat : k <= Depth => k + 1 \in 0 .. Depth + 1
  BY DepthAssumption
<1>3. CASE InitNext
  BY <1>1, <1>2, <1>3 DEF Fields, Shape, InitNext, InitMalloc, InitMallocFail, InitSignals, MainCreate,
     MainCreated, MainCreateError, InitSpan, WorkerCreate, WorkerCreated, WorkerCreateError, InitReturn,
     Fails, Creates, dispVars
<1>4. CASE Start \/ Destroy
  BY <1>4 DEF Fields, Start, Destroy, Found, dispVars
<1>5. CASE DestroyNext
  <2>1. CASE MainJoin \/ DispStop \/ DispSignal \/ DispJoin
    BY <1>2, <2>1 DEF Fields, MainJoin, DispStop, DispSignal, DispJoin, SignalDispatcher, dispVars
  <2>2. CASE NextWorker \/ WorkerStop \/ Free
    BY <1>2, <2>2 DEF Fields, Shape, NextWorker, WorkerStop, Free, dispVars
  <2>3. CASE WorkerCond \/ WorkerResume \/ WorkerJoin
    BY <1>1, <2>3 DEF Fields, Shape, WorkerCond, WorkerResume, WorkerJoin, dispVars
  <2>4. QED BY <1>5, <2>1, <2>2, <2>3 DEF DestroyNext
<1>6. ASSUME UNCHANGED <<ret, i, mem, cancelled, before>>, upc' \in {upc, "aborted"},
             out' \in {out, "ok", "error"}, dresume' \in BOOLEAN
      PROVE  Fields'
  BY <1>6 DEF Fields
<1>7. CASE \E k \in 1 .. Depth - 1 : Activity(k)
  BY <1>6, <1>7 DEF Fields, Activity, callVars
<1>8. CASE MainNext
  BY <1>6, <1>8 DEF Fields, threadFrame, dispVars, MainNext, MainInitOk, MainInitError, MainInitAbort,
                    MainPark, MainCancel
<1>9. CASE DispNext
  <2>1. CASE DispCheck \/ DispPark \/ DispAwake
    BY <1>6, <2>1 DEF Fields, threadFrame, dispVars, DispCheck, DispPark, DispAwake
  <2>2. CASE DispWake \/ DispEnd \/ DispConsume
    BY <1>6, <2>2 DEF Fields, threadFrame, dispVars, DispWake, DispEnd, DispConsume
  <2>3. CASE DispServe
    BY <1>6, <2>3 DEF Fields, threadFrame, DispServe
  <2>4. QED BY <1>9, <2>1, <2>2, <2>3 DEF DispNext
<1>10. ASSUME NEW w \in Workers, WorkerNext(w) PROVE Fields'
  <2>1. CASE WorkerSignal(w)
    BY <1>6, <2>1 DEF Fields, threadFrame, WorkerSignal, SignalDispatcher
  <2>2. CASE WorkerInitOk(w) \/ WorkerInitError(w) \/ WorkerReport(w) \/ WorkerWait(w)
    BY <1>6, <2>2 DEF Fields, threadFrame, dispVars, WorkerInitOk, WorkerInitError, WorkerReport, WorkerWait
  <2>3. CASE WorkerWoken(w) \/ WorkerEnd(w) \/ WorkerCleanup(w)
    BY <1>6, <2>3 DEF Fields, threadFrame, dispVars, WorkerWoken, WorkerEnd, WorkerCleanup
  <2>4. QED BY <1>10, <2>1, <2>2, <2>3 DEF WorkerNext
<1>11. CASE UNCHANGED vars
  BY <1>11 DEF Fields, vars, callVars, dispVars
<1>12. QED BY <1>3, <1>4, <1>5, <1>7, <1>8, <1>9, <1>10, <1>11 DEF Next

(* Every variable keeps its type for any number of workers: the counter of *)
(* requests, which the code does not bound, stays below it, and the loops  *)
(* over the workers stay inside the workers memory.                        *)
THEOREM TypesAreKept == Spec => []TypeOK
<1>1. IInv /\ RInv => nreq \in 0 .. Depth
  <2> SUFFICES ASSUME IInv, RInv PROVE nreq \in Nat /\ nreq <= Depth
    BY DepthAssumption
  <2>1. exec \in Nat /\ exec < Depth /\ Depth \in Nat
    BY Numbers, DepthAssumption DEF RInv, Executors
  <2>2. CASE run[Disp]
    BY <2>1, <2>2 DEF RInv, Requests, Served
  <2>3. CASE ~run[Disp]
    BY <2>1, <2>3 DEF RInv, Requests, Left, Called, Announced
  <2>4. QED BY <2>2, <2>3
<1>2. IInv /\ RInv /\ Fields => TypeOK
  BY <1>1 DEF IInv, Shape, RInv, Executors, Fields, Creation, Ending, Stopping, TypeOK
<1>3. QED BY <1>2, InitIInv, StepIInv, RInvInit, RInvStep, FieldsInit, FieldsStep, PTL DEF Spec, IInv
=============================================================================
