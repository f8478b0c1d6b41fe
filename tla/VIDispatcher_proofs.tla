------------------------ MODULE VIDispatcher_proofs ------------------------
(***************************************************************************)
(* Proofs about VIDispatcher, for every number of interrupt lines, workers *)
(* and triggers, with and without Paced.                                   *)
(***************************************************************************)
EXTENDS VIDispatcher, TLAPS

(* The constants' types in one fact for the leaves. *)
LEMMA Constant == /\ Slots \in Nat \ {0} /\ Depth \in 1 .. Slots
                  /\ NLines \in Nat \ {0} /\ WaitCap \in Nat \ {0}
                  /\ Main \in Executors /\ Workers \subseteq Executors
                  /\ Main \notin Workers
                  /\ Lines \subseteq Nat /\ Executors \subseteq Nat
BY ConstantsAssumption, WaitCapAssumption DEF Executors, Workers, Main, Lines

-----------------------------------------------------------------------------
(* The wait queue.                                                         *)

(* The new heap has a natural number in every cell: a push moves values    *)
(* between cells or stores the line that is pushed.                        *)
LEMMA PushType ==
  ASSUME NEW h \in Heaps, h.len < WaitCap, NEW v \in Nat
  PROVE  HeapPush(h, v) \in Heaps
<1> DEFINE Moved(c) == IF c \notin Risen(h, v) THEN h.data[c]
                       ELSE IF ParentCell(c) \in Risen(h, v)
                       THEN h.data[ParentCell(c)]
                       ELSE v
           data == IF Risen(h, v) = {h.len} /\ h.len > 0 THEN h.data
                   ELSE [c \in Cells |-> Moved(c)]
<1>1. h.data \in [Cells -> Nat] /\ h.len \in 0 .. WaitCap
  BY DEF Heaps
<1>2. Risen(h, v) \subseteq Cells
  BY DEF Risen
<1>3. \A c \in Cells : Moved(c) \in Nat
  BY <1>1, <1>2
<1>4. HeapPush(h, v) = [data |-> data, len |-> h.len + 1]
  BY DEF HeapPush
<1> HIDE DEF Moved
<1>5. data \in [Cells -> Nat]
  BY <1>1, <1>3
<1> HIDE DEF data
<1>6. h.len + 1 \in 0 .. WaitCap
  BY <1>1, WaitCapAssumption
<1>7. QED BY <1>4, <1>5, <1>6 DEF Heaps

(* So does a pop, which takes the moved values from cells of the heap.     *)
LEMMA PopType ==
  ASSUME NEW h \in Heaps, h.len > 0
  PROVE  HeapPop(h) \in Heaps
<1> DEFINE Moved(c) == IF c \notin Sunk(h) THEN h.data[c]
                       ELSE IF SmallerChild(h, c) \in Sunk(h)
                       THEN h.data[SmallerChild(h, c)]
                       ELSE h.data[h.len - 1]
<1>1. /\ h.data \in [Cells -> Nat] /\ h.len - 1 \in 0 .. WaitCap
      /\ h.len - 1 \in Cells /\ 0 .. h.len - 2 \subseteq Cells
  BY WaitCapAssumption DEF Heaps, Cells
<1>2. Sunk(h) \subseteq Cells
  BY <1>1 DEF Sunk
<1>3. \A c \in Cells : Moved(c) \in Nat
  BY <1>1, <1>2
<1>4. HeapPop(h) = [data |-> [c \in Cells |-> Moved(c)], len |-> h.len - 1]
  BY DEF HeapPop
<1> HIDE DEF Moved
<1>5. QED BY <1>1, <1>3, <1>4 DEF Heaps

LEMMA TopType ==
  ASSUME NEW h \in Heaps PROVE HeapTop(h) \in Nat
BY WaitCapAssumption DEF Heaps, HeapTop, Cells

-----------------------------------------------------------------------------
(***************************************************************************)
(* Type correctness, one lemma for each part of TypeOK.                    *)
(***************************************************************************)
LEMMA InitType == Init => TypeOK
<1> SUFFICES ASSUME Init PROVE TypeOK
  OBVIOUS
<1>1. ThreadsOK
  BY Constant, ConstantsAssumption
  DEF Init, ThreadsOK, UserPcs, DispPcs, MainPcs, WorkerPcs, Statuses
<1>2. FlagsOK
  BY DEF Init, FlagsOK
<1>3. CountersOK
  <2>1. func \in [Workers -> Nat] /\ accepted \in [Lines -> Nat] /\ served \in [Lines -> Nat]
    BY DEF Init
  <2>2. nreq = 0 /\ exec = 0 /\ size = Depth
    BY DEF Init
  <2>3. QED BY <2>1, <2>2, Constant DEF CountersOK
<1>4. QueuesOK
  <2>1. EmptyHeap \in Heaps
    BY WaitCapAssumption DEF EmptyHeap, Heaps
  <2>2. ready = <<>> /\ waiting = EmptyHeap
    BY DEF Init
  <2>3. QED BY <2>1, <2>2, ConstantsAssumption DEF QueuesOK
<1>5. QED BY <1>1, <1>2, <1>3, <1>4 DEF TypeOK

(* Booleans are assigned booleans. *)
LEMMA FlagsStep == FlagsOK /\ [Next]_vars => FlagsOK'
<1> SUFFICES ASSUME FlagsOK, [Next]_vars PROVE FlagsOK'
  OBVIOUS
<1> USE DEF FlagsOK, userVars, threadVars, signalVars, wakeVars, stackVars, irqVars,
        queueVars, historyVars, dispVars
<1>1. CASE UserNext
  BY <1>1
  DEF UserNext, StartResume, StartKill, StartMode, StartReset,
      StartInit, StartCreate, StartWait,
      StartTimeout, Trigger, TriggerFull, TriggerCount, TriggerMark,
      TriggerStore, TriggerWake, CountRequest, MarkWorking, Wake
<1>2. CASE \E e \in Executors : ExecutorNext(e)
  BY <1>2
  DEF ExecutorNext, DeliverSuspend, DeliverResume, SignalCount, SignalMark,
      SignalStore, SignalWake, SignalNobody, CountRequest, MarkWorking, Wake
<1>3. CASE MainNext
  BY <1>3 DEF MainNext, MainPark, MainUnpark, MainBegin, MainEnd
<1>4. CASE \E w \in Workers : WorkerNext(w)
  BY <1>4
  DEF WorkerNext, WorkerReady, WorkerTake, WorkerWait, WorkerLock, WorkerUnlock,
      WorkerCall, WorkerDone
<1>5. CASE HandlerNext
  BY <1>5 DEF HandlerNext, WorkerReturn, MainReturn
<1>6. CASE DispatcherNext
  BY <1>6
  DEF DispatcherNext, DispBegin, DispCheck, DispPark, DispAwake, DispWake,
      DispConsume, UnwindPop, UnwindStartWaiting, UnwindResume, UnwindEnd,
      ResumeTest, ResumeCond, ResumeXchg, ResumeKill, PopStart, PopDefer,
      PopWaiting, PopNothing, SuspendMain, SuspendOldTest, SuspendOld,
      SuspendMainW, AssertW, StartTest, StartCond, Assert, MainTest, MainXchg,
      MainKill, Report
<1>7. CASE UNCHANGED vars
  BY <1>7 DEF vars
<1>8. QED BY <1>1, <1>2, <1>3, <1>4, <1>5, <1>6, <1>7 DEF Next

(* Numbers stay natural numbers, the stack's within their bounds.  The     *)
(* stack pointer stays below the number of workers because                 *)
(* _prepare_new_worker makes more of them first or ends the process;       *)
(* without that the bound Slots is not inductive.                          *)
Room == exec <= size /\ (dpc # "aborted" => exec < size)

LEMMA PrepareCounters ==
  ASSUME CountersOK, Room, ~Crashed, NEW l \in Nat, NEW from, NEW to,
         Prepare(l, from, to), UNCHANGED <<nreq, accepted, served>>
  PROVE  CountersOK' /\ Room'
<1> DEFINE top == exec + 1
<1>1. /\ exec' = top /\ top \in 1 .. size /\ size \in 1 .. Slots
      /\ func \in [Workers -> Nat]
      /\ CountersOK
  BY Constant DEF Prepare, CountersOK, Room, Crashed
<1> HIDE DEF top
<1>2. CASE top < size /\ func' = [func EXCEPT ![top] = l] /\ UNCHANGED size
  <2>1. func' \in [Workers -> Nat]
    BY <1>1, <1>2
  <2>2. QED BY <1>1, <1>2, <2>1, Constant DEF CountersOK, Room
<1>3. CASE /\ top >= size /\ 2 * top <= Slots /\ size' = 2 * top
           /\ func' = [w \in Workers |-> IF w = top THEN l
                                         ELSE IF w \in top + 1 .. 2 * top THEN 0
                                         ELSE func[w]]
  <2>1. func' \in [Workers -> Nat]
    BY <1>1, <1>3
  <2>2. QED BY <1>1, <1>3, <2>1, Constant DEF CountersOK, Room
<1>4. CASE dpc' = "aborted" /\ UNCHANGED <<size, func>>
  BY <1>1, <1>4, Constant DEF CountersOK, Room
<1>5. QED BY <1>2, <1>3, <1>4 DEF Prepare, Disp, top

LEMMA CountersStep ==
  CountersOK /\ Room /\ QueuesOK /\ [Next]_vars => CountersOK' /\ Room'
<1> SUFFICES ASSUME CountersOK, Room, QueuesOK, [Next]_vars
             PROVE  CountersOK' /\ Room'
  OBVIOUS
<1> USE DEF userVars, threadVars, signalVars, wakeVars, stackVars, irqVars, queueVars,
        historyVars, dispVars
<1>1. CASE ~Crashed /\ UserNext
  <2> USE DEF UserNext, StartResume, StartKill, StartMode, StartReset,
              StartInit, StartCreate,
          StartWait, StartTimeout, Trigger, TriggerFull, TriggerCount,
          TriggerMark, TriggerStore, TriggerWake, CountRequest, MarkWorking, Wake
  <2>1. CountersOK'
    <3>1. UNCHANGED <<func, exec, size, served>>
      BY <1>1
    <3>2. nreq' = nreq \/ nreq' = 0 \/ nreq' = nreq + 1
      BY <1>1
    <3>3. accepted' = accepted \/ \E l \in Lines : accepted' = [accepted EXCEPT ![l] = @ + 1]
      BY <1>1
    <3>4. accepted' \in [Lines -> Nat]
      BY <3>3 DEF CountersOK
    <3>5. QED BY <3>1, <3>2, <3>4 DEF CountersOK
  <2>2. UNCHANGED <<exec, size>> /\ (dpc' = dpc \/ dpc' = "begin")
    BY <1>1
  <2>3. Room'
    BY <1>1, <2>2 DEF Room, Crashed
  <2>4. QED BY <2>1, <2>3
<1>2. CASE \E e \in Executors : ExecutorNext(e)
  BY <1>2
  DEF CountersOK, Room,
      ExecutorNext, DeliverSuspend, DeliverResume, SignalCount, SignalMark,
      SignalStore, SignalWake, SignalNobody, CountRequest, MarkWorking, Wake
<1>3. CASE MainNext
  BY <1>3 DEF CountersOK, Room, MainNext, MainPark, MainUnpark, MainBegin, MainEnd
<1>4. CASE \E w \in Workers : WorkerNext(w)
  BY <1>4
  DEF CountersOK, Room, WorkerNext, WorkerReady, WorkerTake, WorkerWait, WorkerLock,
      WorkerUnlock, WorkerCall, WorkerDone
<1>5. CASE HandlerNext
  BY <1>5 DEF CountersOK, Room, HandlerNext, WorkerReturn, MainReturn
<1>6. CASE ~Crashed /\ DispatcherNext
  <2>1. CASE DispBegin \/ DispCheck \/ DispPark \/ DispAwake \/ DispWake
    BY <1>6, <2>1
    DEF CountersOK, Room, Disp, Crashed, DispBegin, DispCheck, DispPark,
        DispAwake, DispWake
  <2>2. CASE \/ ResumeTest \/ ResumeCond \/ ResumeXchg \/ ResumeKill
             \/ PopDefer \/ PopNothing
    BY <1>6, <2>2
    DEF CountersOK, Room, Disp, Crashed, ResumeTest, ResumeCond, ResumeXchg,
        ResumeKill, PopDefer, PopNothing
  <2>3. CASE \/ SuspendMain \/ SuspendOldTest \/ SuspendOld \/ SuspendMainW
             \/ AssertW \/ StartTest \/ StartCond \/ Assert
    BY <1>6, <2>3
    DEF CountersOK, Room, Disp, Crashed, SuspendMain, SuspendOldTest,
        SuspendOld, SuspendMainW, AssertW, StartTest, StartCond, Assert
  <2>4. CASE MainTest \/ MainXchg \/ MainKill \/ Report
    BY <1>6, <2>4
    DEF CountersOK, Room, Disp, Crashed, MainTest, MainXchg, MainKill, Report
  <2>5. CASE UnwindStartWaiting
    BY <1>6, <2>5, PrepareCounters, TopType DEF UnwindStartWaiting, QueuesOK
  <2>6. CASE PopStart
    <3>1. Head(ready) \in Lines
      BY <2>6 DEF PopStart, QueuesOK
    <3>2. Head(ready) \in Nat
      BY <3>1, Constant
    <3>3. QED BY <1>6, <2>6, <3>2, PrepareCounters DEF PopStart
  <2>7. CASE PopWaiting
    BY <1>6, <2>7, PrepareCounters, TopType DEF PopWaiting, QueuesOK
  <2>8. CASE DispConsume
    BY <1>6, <2>8 DEF CountersOK, Room, Disp, Crashed, DispConsume
  <2>9. CASE UnwindPop
    <3>1. exec > 0 /\ exec' = exec - 1 /\ UNCHANGED <<size, func, nreq, accepted, served>>
      BY <2>9 DEF UnwindPop
    <3>2. dpc' # "aborted" /\ dpc # "aborted"
      BY <2>9 DEF UnwindPop, Disp
    <3>3. exec' \in 0 .. Slots /\ exec' < size'
      BY <3>1, <3>2, Constant DEF CountersOK, Room
    <3>4. QED BY <3>1, <3>3 DEF CountersOK, Room
  <2>10. CASE UnwindResume \/ UnwindEnd
    BY <1>6, <2>10
    DEF CountersOK, Room, Disp, Crashed, UnwindResume, UnwindEnd
  <2>11. QED
    BY <1>6, <2>1, <2>2, <2>3, <2>4, <2>5, <2>6, <2>7, <2>8, <2>9, <2>10
    DEF DispatcherNext
<1>7. CASE UNCHANGED vars
  BY <1>7 DEF CountersOK, Room, vars
<1>8. QED BY <1>1, <1>2, <1>3, <1>4, <1>5, <1>6, <1>7 DEF Next

(* The ready queue takes a line only when it has room for it, and the wait *)
(* queue stays a heap of natural numbers of at most WaitCap.               *)
LEMMA QueuesStep == QueuesOK /\ [Next]_vars => QueuesOK'
<1> SUFFICES ASSUME QueuesOK, [Next]_vars PROVE QueuesOK'
  OBVIOUS
<1> USE DEF QueuesOK, userVars, threadVars, signalVars, wakeVars, stackVars, irqVars,
        queueVars, historyVars, dispVars
<1>1. CASE UserNext
  <2>1. ASSUME NEW l \in Lines, Trigger(l) PROVE QueuesOK'
    <3>1. ready' \in Seq(Lines) /\ Len(ready') = Len(ready) + 1
      BY <2>1 DEF Trigger
    <3>2. QED BY <2>1, <3>1, ConstantsAssumption DEF Trigger
  <2>2. CASE \/ StartResume \/ StartKill \/ StartMode \/ StartReset \/ StartInit \/ StartCreate
             \/ StartWait \/ StartTimeout \/ TriggerFull \/ TriggerCount
             \/ TriggerMark \/ TriggerStore \/ TriggerWake
    BY <2>2
    DEF StartResume, StartKill, StartMode, StartReset,
        StartInit, StartCreate, StartWait, StartTimeout,
        TriggerFull, TriggerCount, TriggerMark, TriggerStore, TriggerWake
  <2>3. QED BY <1>1, <2>1, <2>2 DEF UserNext
<1>2. CASE \E e \in Executors : ExecutorNext(e)
  BY <1>2
  DEF ExecutorNext, DeliverSuspend, DeliverResume, SignalCount, SignalMark,
      SignalStore, SignalWake, SignalNobody
<1>3. CASE MainNext
  BY <1>3 DEF MainNext, MainPark, MainUnpark, MainBegin, MainEnd
<1>4. CASE \E w \in Workers : WorkerNext(w)
  BY <1>4
  DEF WorkerNext, WorkerReady, WorkerTake, WorkerWait, WorkerLock, WorkerUnlock,
      WorkerCall, WorkerDone
<1>5. CASE HandlerNext
  BY <1>5 DEF HandlerNext, WorkerReturn, MainReturn
<1>6. CASE DispatcherNext
  <2>1. CASE \/ DispBegin \/ DispCheck \/ DispPark \/ DispAwake \/ DispWake
             \/ DispConsume \/ UnwindPop \/ UnwindResume \/ UnwindEnd
             \/ ResumeTest \/ ResumeCond \/ ResumeXchg \/ ResumeKill
             \/ PopNothing
    BY <2>1
    DEF DispBegin, DispCheck, DispPark, DispAwake, DispWake, DispConsume,
        UnwindPop, UnwindResume, UnwindEnd, ResumeTest, ResumeCond, ResumeXchg,
        ResumeKill, PopNothing
  <2>2. CASE \/ SuspendMain \/ SuspendOldTest \/ SuspendOld \/ SuspendMainW
             \/ AssertW \/ StartTest \/ StartCond \/ Assert
             \/ MainTest \/ MainXchg \/ MainKill \/ Report
    BY <2>2
    DEF SuspendMain, SuspendOldTest, SuspendOld, SuspendMainW, AssertW,
        StartTest, StartCond, Assert, MainTest, MainXchg, MainKill, Report
  <2>3. ASSUME ready # <<>>
        PROVE  /\ Head(ready) \in Nat
               /\ Tail(ready) \in Seq(Lines) /\ Len(Tail(ready)) <= ReadyRoom
    <3>1. Head(ready) \in Lines
      BY <2>3
    <3>2. Tail(ready) \in Seq(Lines) /\ Len(Tail(ready)) = Len(ready) - 1
      BY <2>3
    <3>3. Len(Tail(ready)) <= ReadyRoom
      BY <3>2, ConstantsAssumption
    <3>4. QED BY <3>1, <3>2, <3>3, Constant
  <2>4. CASE UnwindStartWaiting
    BY <2>4, PopType DEF UnwindStartWaiting, WaitingIsHigher
  <2>5. CASE PopStart
    BY <2>3, <2>5 DEF PopStart
  <2>6. CASE PopDefer
    BY <2>3, <2>6, PushType DEF PopDefer
  <2>7. CASE PopWaiting
    BY <2>7, PopType DEF PopWaiting
  <2>8. QED BY <1>6, <2>1, <2>2, <2>4, <2>5, <2>6, <2>7 DEF DispatcherNext
<1>7. CASE UNCHANGED vars
  BY <1>7 DEF vars
<1>8. QED BY <1>1, <1>2, <1>3, <1>4, <1>5, <1>6, <1>7 DEF Next

(* There is a worker below the top when the dispatcher is about to stop    *)
(* it: workers[executing_worker - 2] exists.                               *)
Nested == dpc \in {"suspOld", "suspXchg"} => exec > 1

LEMMA NestedStep == CountersOK /\ Nested /\ [Next]_vars => Nested'
<1> SUFFICES ASSUME CountersOK, Nested, [Next]_vars PROVE Nested'
  OBVIOUS
<1> USE DEF Nested, userVars, threadVars, signalVars, wakeVars, stackVars, irqVars,
        queueVars, historyVars, dispVars
<1>1. CASE UserNext
  BY <1>1
  DEF UserNext, StartResume, StartKill, StartMode, StartReset,
      StartInit, StartCreate, StartWait,
      StartTimeout, Trigger, TriggerFull, TriggerCount, TriggerMark,
      TriggerStore, TriggerWake
<1>2. CASE \E e \in Executors : ExecutorNext(e)
  BY <1>2
  DEF ExecutorNext, DeliverSuspend, DeliverResume, SignalCount, SignalMark,
      SignalStore, SignalWake, SignalNobody
<1>3. CASE MainNext
  BY <1>3 DEF MainNext, MainPark, MainUnpark, MainBegin, MainEnd
<1>4. CASE \E w \in Workers : WorkerNext(w)
  BY <1>4
  DEF WorkerNext, WorkerReady, WorkerTake, WorkerWait, WorkerLock, WorkerUnlock,
      WorkerCall, WorkerDone
<1>5. CASE HandlerNext
  BY <1>5 DEF HandlerNext, WorkerReturn, MainReturn
<1>6. CASE DispatcherNext
  BY <1>6
  DEF DispatcherNext, Disp, Prepare, DispBegin, DispCheck, DispPark, DispAwake,
      DispWake, DispConsume, UnwindPop, UnwindStartWaiting, UnwindResume,
      UnwindEnd, ResumeTest, ResumeCond, ResumeXchg, ResumeKill, PopStart,
      PopDefer, PopWaiting, PopNothing, SuspendMain, SuspendOldTest, SuspendOld,
      SuspendMainW, AssertW, StartTest, StartCond, Assert, MainTest, MainXchg,
      MainKill, Report
<1>7. CASE UNCHANGED vars
  BY <1>7 DEF vars
<1>8. QED BY <1>1, <1>2, <1>3, <1>4, <1>5, <1>6, <1>7 DEF Next

(* The values the threads store: one step per action.                      *)
LEMMA StatusValues == {"Init", "Working", "Suspended", "Done"} \subseteq Statuses
BY DEF Statuses

LEMMA OnTheStack ==
  ASSUME CountersOK
  PROVE  exec \in Executors /\ (exec > 1 => exec - 1 \in Executors)
<1>1. exec \in 0 .. Slots /\ Slots \in Nat
  BY Constant DEF CountersOK
<1>2. QED BY <1>1 DEF Executors, Workers, Main

LEMMA ThreadsStep ==
  ThreadsOK /\ CountersOK /\ Nested /\ [Next]_vars => ThreadsOK'
<1> SUFFICES ASSUME ThreadsOK, CountersOK, Nested, [Next]_vars PROVE ThreadsOK'
  OBVIOUS
<1> USE Constant, StatusValues DEF ThreadsOK, userVars, threadVars, signalVars,
        wakeVars, stackVars, irqVars, queueVars, historyVars, dispVars
<1>1. CASE UserNext
  <2> USE DEF User, UserPcs
  <2>1. CASE StartResume BY <2>1 DEF StartResume
  <2>2. CASE StartKill BY <2>2 DEF StartKill
  <2>3. CASE StartMode BY <2>3 DEF StartMode
  <2>4. CASE StartCreate BY <2>4 DEF StartCreate, DispPcs
  <2>14. CASE StartReset BY <2>14 DEF StartReset
  <2>15. CASE StartInit BY <2>15 DEF StartInit
  <2>5. CASE StartWait BY <2>5 DEF StartWait
  <2>6. CASE StartTimeout BY <2>6 DEF StartTimeout
  <2>7. CASE \E l \in Lines : Trigger(l) BY <2>7 DEF Trigger
  <2>8. CASE TriggerFull BY <2>8 DEF TriggerFull
  <2>9. CASE TriggerCount BY <2>9 DEF TriggerCount, CountRequest
  <2>10. CASE TriggerMark BY <2>10 DEF TriggerMark, MarkWorking
  <2>11. CASE TriggerStore BY <2>11 DEF TriggerStore, MarkWorking
  <2>12. CASE TriggerWake BY <2>12 DEF TriggerWake, Wake
  <2>13. QED
    BY <1>1, <2>1, <2>2, <2>3, <2>4, <2>5, <2>6, <2>7, <2>8, <2>9, <2>10,
       <2>11, <2>12, <2>14, <2>15
    DEF UserNext
<1>2. ASSUME NEW e \in Executors, ExecutorNext(e) PROVE ThreadsOK'
  <2> USE DEF Goes, AfterSignal, MainPcs, WorkerPcs
  <2>1. CASE DeliverSuspend(e) BY <2>1 DEF DeliverSuspend
  <2>2. CASE DeliverResume(e) BY <2>2 DEF DeliverResume
  <2>3. CASE SignalCount(e) BY <2>3 DEF SignalCount, CountRequest
  <2>4. CASE SignalMark(e) BY <2>4 DEF SignalMark, MarkWorking
  <2>5. CASE SignalStore(e) BY <2>5 DEF SignalStore, MarkWorking
  <2>6. CASE SignalWake(e) BY <2>6 DEF SignalWake, Wake
  <2>7. CASE SignalNobody(e) BY <2>7 DEF SignalNobody, DispPcs
  <2>8. QED BY <1>2, <2>1, <2>2, <2>3, <2>4, <2>5, <2>6, <2>7 DEF ExecutorNext
<1>3. CASE MainNext
  <2> USE DEF Goes, Marks, MainPcs
  <2>1. CASE MainPark BY <2>1 DEF MainPark
  <2>2. CASE MainUnpark BY <2>2 DEF MainUnpark
  <2>3. CASE MainBegin BY <2>3 DEF MainBegin
  <2>4. CASE MainEnd BY <2>4 DEF MainEnd
  <2>5. QED BY <1>3, <2>1, <2>2, <2>3, <2>4 DEF MainNext
<1>4. ASSUME NEW w \in Workers, WorkerNext(w) PROVE ThreadsOK'
  <2> USE DEF Goes, Marks, WorkerPcs
  <2>1. CASE WorkerReady(w) BY <2>1 DEF WorkerReady
  <2>2. CASE WorkerWait(w) BY <2>2 DEF WorkerWait
  <2>3. CASE WorkerLock(w) BY <2>3 DEF WorkerLock
  <2>4. CASE WorkerUnlock(w) BY <2>4 DEF WorkerUnlock
  <2>5. CASE WorkerCall(w) BY <2>5 DEF WorkerCall
  <2>6. CASE WorkerDone(w) BY <2>6 DEF WorkerDone
  <2>7. CASE WorkerTake(w) BY <2>7 DEF WorkerTake
  <2>8. QED BY <1>4, <2>1, <2>2, <2>3, <2>4, <2>5, <2>6, <2>7 DEF WorkerNext
<1>5. CASE HandlerNext
  <2>1. ASSUME NEW w \in Workers, NEW o \in IrqOutcomes, WorkerReturn(w, o)
        PROVE  ThreadsOK'
    BY <2>1 DEF WorkerReturn, Goes, WorkerPcs
  <2>2. ASSUME NEW o \in MainOutcomes, MainReturn(o) PROVE ThreadsOK'
    BY <2>2 DEF MainReturn, Goes, MainPcs
  <2>3. QED BY <1>5, <2>1, <2>2 DEF HandlerNext
<1>6. CASE DispatcherNext
  <2> USE DEF Disp, DispPcs
  <2>1. CASE DispBegin BY <2>1 DEF DispBegin
  <2>2. CASE DispCheck BY <2>2 DEF DispCheck
  <2>3. CASE DispPark BY <2>3 DEF DispPark
  <2>4. CASE DispAwake BY <2>4 DEF DispAwake
  <2>5. CASE DispWake BY <2>5 DEF DispWake
  <2>6. CASE DispConsume BY <2>6 DEF DispConsume
  <2>7. CASE UnwindPop BY <2>7 DEF UnwindPop
  <2>8. CASE UnwindResume BY <2>8 DEF UnwindResume
  <2>9. CASE UnwindEnd BY <2>9 DEF UnwindEnd
  <2>10. CASE ResumeTest BY <2>10 DEF ResumeTest
  <2>11. CASE ResumeCond
    BY <2>11 DEF ResumeCond, CondSignal, WorkerPcs
  <2>12. CASE ResumeXchg BY <2>12 DEF ResumeXchg, Marks
  <2>13. exec \in Executors
    BY OnTheStack
  <2>14. CASE ResumeKill BY <2>13, <2>14 DEF ResumeKill, Marks
  <2>15. CASE PopDefer BY <2>15 DEF PopDefer
  <2>16. CASE PopNothing BY <2>16 DEF PopNothing
  <2>17. CASE SuspendMain BY <2>17 DEF SuspendMain, Suspend, Marks
  <2>18. CASE SuspendOldTest BY <2>18 DEF SuspendOldTest
  <2>19. CASE SuspendOld
    <3>1. exec - 1 \in Executors
      BY <2>19, OnTheStack DEF SuspendOld, Nested
    <3>2. QED BY <2>19, <3>1 DEF SuspendOld, Suspend, Marks
  <2>20. CASE SuspendMainW BY <2>20 DEF SuspendMainW, Suspend, Marks
  <2>21. CASE AssertW BY <2>21 DEF AssertW
  <2>22. CASE StartTest BY <2>22 DEF StartTest
  <2>23. CASE StartCond
    BY <2>23 DEF StartCond, CondSignal, WorkerPcs
  <2>24. CASE Assert BY <2>24 DEF Assert
  <2>25. CASE MainTest BY <2>25 DEF MainTest
  <2>26. CASE MainXchg BY <2>26 DEF MainXchg, Marks
  <2>27. CASE MainKill BY <2>27 DEF MainKill, Marks
  <2>28. CASE Report BY <2>28 DEF Report
  <2>29. CASE UnwindStartWaiting
    BY <2>29 DEF UnwindStartWaiting, Prepare, WorkerPcs
  <2>30. CASE PopStart BY <2>30 DEF PopStart, Prepare, WorkerPcs
  <2>31. CASE PopWaiting BY <2>31 DEF PopWaiting, Prepare, WorkerPcs
  <2>32. QED
    BY <1>6, <2>1, <2>2, <2>3, <2>4, <2>5, <2>6, <2>7, <2>8, <2>9, <2>10, <2>11,
       <2>12, <2>14, <2>15, <2>16, <2>17, <2>18, <2>19, <2>20, <2>21, <2>22,
       <2>23, <2>24, <2>25, <2>26, <2>27, <2>28, <2>29, <2>30, <2>31
    DEF DispatcherNext
<1>7. CASE UNCHANGED vars
  BY <1>7 DEF vars
<1>8. QED BY <1>1, <1>2, <1>3, <1>4, <1>5, <1>6, <1>7 DEF Next

IInv == TypeOK /\ Room /\ Nested

LEMMA Inductive == Spec => []IInv
<1>1. Init => IInv
  <2>1. Init => Room /\ Nested
    <3> SUFFICES ASSUME Init PROVE Room /\ Nested
      OBVIOUS
    <3>1. dpc = "none" /\ exec = 0 /\ size = Depth
      BY DEF Init
    <3>2. QED BY <3>1, Constant DEF Room, Nested
  <2>2. QED BY <2>1, InitType DEF IInv
<1>2. IInv /\ [Next]_vars => IInv'
  BY FlagsStep, CountersStep, QueuesStep, NestedStep, ThreadsStep
  DEF IInv, TypeOK
<1>3. QED BY <1>1, <1>2, PTL DEF Spec

(* Every variable keeps its type; in particular executing_worker stays     *)
(* within the memory of workers, and n_requests never wraps below zero.    *)
THEOREM TypeCorrect == Spec => []TypeOK
<1>1. IInv => TypeOK
  BY DEF IInv
<1>2. QED BY <1>1, Inductive, PTL

-----------------------------------------------------------------------------
(***************************************************************************)
(* Safety under every interleaving.                                        *)
(***************************************************************************)
(* vi_dispatcher_status_init works on a dispatcher that has no thread yet. *)
Unborn == {"start", "startKill", "startMode", "startReset", "startInit", "startCreate"}
Unstarted == upc \in Unborn => dpc = "none"

LEMMA UnstartedStep == Unstarted /\ [Next]_vars => Unstarted' \/ Crashed'
<1> SUFFICES ASSUME Unstarted, [Next]_vars PROVE Unstarted' \/ Crashed'
  OBVIOUS
<1> USE DEF Unstarted, Unborn, Crashed, userVars, threadVars, signalVars, wakeVars, stackVars,
        irqVars, queueVars, historyVars, dispVars
<1>1. CASE UserNext
  BY <1>1
  DEF UserNext, User, StartResume, StartKill, StartMode, StartReset, StartInit,
      StartCreate, StartWait, StartTimeout, Trigger, TriggerFull, TriggerCount,
      TriggerMark, TriggerStore, TriggerWake, CountRequest, MarkWorking, Wake
<1>2. CASE \E e \in Executors : ExecutorNext(e)
  BY <1>2
  DEF ExecutorNext, DeliverSuspend, DeliverResume, SignalCount, SignalMark,
      SignalStore, SignalWake, SignalNobody
<1>3. CASE MainNext
  BY <1>3 DEF MainNext, MainPark, MainUnpark, MainBegin, MainEnd
<1>4. CASE \E w \in Workers : WorkerNext(w)
  BY <1>4
  DEF WorkerNext, WorkerReady, WorkerTake, WorkerWait, WorkerLock, WorkerUnlock,
      WorkerCall, WorkerDone
<1>5. CASE HandlerNext
  BY <1>5 DEF HandlerNext, WorkerReturn, MainReturn
<1>6. CASE DispatcherNext
  <2>1. upc' = upc /\ dpc # "none"
    BY <1>6
    DEF DispatcherNext, Disp, Prepare, DispBegin, DispCheck, DispPark, DispAwake,
        DispWake, DispConsume, UnwindPop, UnwindStartWaiting, UnwindResume, UnwindEnd,
        ResumeTest, ResumeCond, ResumeXchg, ResumeKill, PopStart, PopDefer,
        PopWaiting, PopNothing, SuspendMain, SuspendOldTest, SuspendOld,
        SuspendMainW, AssertW, StartTest, StartCond, Assert, MainTest, MainXchg,
        MainKill, Report
  <2>2. QED BY <2>1
<1>7. CASE UNCHANGED vars
  BY <1>7 DEF vars
<1>8. QED BY <1>1, <1>2, <1>3, <1>4, <1>5, <1>6, <1>7 DEF Next

(* _th_dispatcher never reports "INVARIANT NOT RESPECTED: n_requests == 0":*)
(* after the loop at its head nobody but the dispatcher takes a request    *)
(* away, because n_requests is set to 0 only before the dispatcher exists. *)
LEMMA RequestStep ==
  TypeOK /\ (Unstarted \/ Crashed) /\ RequestPending /\ [Next]_vars => RequestPending'
<1> SUFFICES ASSUME TypeOK, Unstarted \/ Crashed, RequestPending, [Next]_vars
             PROVE  RequestPending'
  OBVIOUS
<1>0. nreq \in Nat
  BY DEF TypeOK, CountersOK
<1> USE <1>0
    DEF RequestPending, userVars, threadVars, signalVars, wakeVars, stackVars, irqVars,
        queueVars, historyVars, dispVars
<1>1. CASE ~Crashed /\ UserNext
  BY <1>1
  DEF Unstarted, Unborn, User, UserNext, StartResume, StartKill, StartMode, StartReset,
      StartInit, StartCreate, StartWait,
      StartTimeout, Trigger, TriggerFull, TriggerCount, TriggerMark,
      TriggerStore, TriggerWake, CountRequest, MarkWorking, Wake
<1>2. CASE \E e \in Executors : ExecutorNext(e)
  BY <1>2
  DEF ExecutorNext, DeliverSuspend, DeliverResume, SignalCount, SignalMark,
      SignalStore, SignalWake, SignalNobody, CountRequest, MarkWorking, Wake
<1>3. CASE MainNext
  BY <1>3 DEF MainNext, MainPark, MainUnpark, MainBegin, MainEnd
<1>4. CASE \E w \in Workers : WorkerNext(w)
  BY <1>4
  DEF WorkerNext, WorkerReady, WorkerTake, WorkerWait, WorkerLock, WorkerUnlock,
      WorkerCall, WorkerDone
<1>5. CASE HandlerNext
  BY <1>5 DEF HandlerNext, WorkerReturn, MainReturn
<1>6. CASE DispatcherNext
  <2>1. CASE dpc' \notin {"wake", "consume"}
    BY <2>1
  <2>2. CASE DispCheck \/ DispWake
    BY <2>2 DEF DispCheck, DispWake, Disp
  <2>3. dpc' \notin {"wake", "consume"} \/ DispCheck \/ DispWake
    BY <1>6
    DEF DispatcherNext, Disp, Prepare, DispBegin, DispPark, DispAwake,
        DispConsume, UnwindPop, UnwindStartWaiting, UnwindResume, UnwindEnd,
        ResumeTest, ResumeCond, ResumeXchg, ResumeKill, PopStart, PopDefer,
        PopWaiting, PopNothing, SuspendMain, SuspendOldTest, SuspendOld,
        SuspendMainW, AssertW, StartTest, StartCond, Assert, MainTest, MainXchg,
        MainKill, Report
  <2>4. QED BY <2>1, <2>2, <2>3
<1>7. CASE UNCHANGED vars
  BY <1>7 DEF vars
<1>8. QED BY <1>1, <1>2, <1>3, <1>4, <1>5, <1>6, <1>7 DEF Next

THEOREM RequestsNeverMissing == Spec => []RequestPending
<1>1. Init => RequestPending
  BY DEF Init, RequestPending
<1>2. Init => Unstarted
  BY DEF Init, Unstarted, Unborn
<1>3. Crashed /\ [Next]_vars => Crashed'
  BY DEF Next, Crashed, vars, dispVars
<1>4. QED BY <1>1, <1>2, <1>3, UnstartedStep, RequestStep, TypeCorrect, PTL DEF Spec

(* The dispatcher is never asleep and Working with nobody about to wake    *)
(* it: whoever sets the status also sends the signal.                      *)
LEMMA WakeupStep ==
  TypeOK /\ WakeupCovered /\ [Next]_vars => WakeupCovered'
<1> SUFFICES ASSUME TypeOK, WakeupCovered, [Next]_vars PROVE WakeupCovered'
  OBVIOUS
<1>0. pc \in [Executors -> MainPcs \union WorkerPcs]
  BY DEF TypeOK, ThreadsOK
<1> USE Constant
    DEF WakeupCovered, userVars, threadVars, signalVars, wakeVars, stackVars, irqVars,
        queueVars, historyVars, dispVars
<1>1. CASE UserNext
  BY <1>1
  DEF UserNext, User, StartResume, StartKill, StartMode, StartReset,
      StartInit, StartCreate, StartWait,
      StartTimeout, Trigger, TriggerFull, TriggerCount, TriggerMark,
      TriggerStore, TriggerWake, CountRequest, MarkWorking, Wake
<1>2. ASSUME NEW e \in Executors, ExecutorNext(e) PROVE WakeupCovered'
  <2>1. CASE DeliverSuspend(e) \/ DeliverResume(e)
    BY <2>1 DEF DeliverSuspend, DeliverResume
  <2>2. CASE SignalCount(e)
    BY <1>0, <2>2 DEF SignalCount, Goes, CountRequest
  <2>3. CASE SignalMark(e)
    BY <1>0, <2>3 DEF SignalMark, Goes, MarkWorking
  <2>4. CASE SignalStore(e)
    BY <1>0, <2>4 DEF SignalStore, Goes, MarkWorking
  <2>5. CASE SignalWake(e)
    BY <2>5 DEF SignalWake, Wake
  <2>6. CASE SignalNobody(e)
    BY <2>6 DEF SignalNobody
  <2>7. QED BY <1>2, <2>1, <2>2, <2>3, <2>4, <2>5, <2>6 DEF ExecutorNext
<1>3. CASE MainNext
  BY <1>0, <1>3 DEF MainNext, MainPark, MainUnpark, MainBegin, MainEnd, Goes
<1>4. ASSUME NEW w \in Workers, WorkerNext(w) PROVE WakeupCovered'
  BY <1>0, <1>4
  DEF WorkerNext, WorkerReady, WorkerTake, WorkerWait, WorkerLock, WorkerUnlock,
      WorkerCall, WorkerDone, Goes
<1>5. CASE HandlerNext
  BY <1>0, <1>5 DEF HandlerNext, WorkerReturn, MainReturn, Goes
<1>6. CASE DispatcherNext
  <2>1. CASE dpc' # "asleep"
    BY <2>1
  <2>2. CASE DispPark
    BY <2>2 DEF DispPark
  <2>3. dpc' # "asleep" \/ DispPark
    BY <1>6
    DEF DispatcherNext, Disp, Prepare, DispBegin, DispCheck, DispPark, DispAwake,
        DispWake, DispConsume, UnwindPop, UnwindStartWaiting, UnwindResume,
        UnwindEnd, ResumeTest, ResumeCond, ResumeXchg, ResumeKill, PopStart,
        PopDefer, PopWaiting, PopNothing, SuspendMain, SuspendOldTest,
        SuspendOld, SuspendMainW, AssertW, StartTest, StartCond, Assert,
        MainTest, MainXchg, MainKill, Report
  <2>4. QED BY <2>1, <2>2, <2>3
<1>7. CASE UNCHANGED vars
  BY <1>7 DEF vars
<1>8. QED BY <1>1, <1>2, <1>3, <1>4, <1>5, <1>6, <1>7 DEF Next

THEOREM WakeupsCovered == Spec => []WakeupCovered
<1>1. Init => WakeupCovered
  BY DEF Init, WakeupCovered
<1>2. QED BY <1>1, WakeupStep, TypeCorrect, PTL DEF Spec

-----------------------------------------------------------------------------
(* The stack of executing workers.                                         *)

(* Only four steps, all of the dispatcher, touch it. *)
LEMMA StackSteps ==
  ASSUME [Next]_vars
  PROVE  \/ UNCHANGED <<func, exec, dpc>>
         \/ ~Crashed /\ UNCHANGED <<func, exec>>
         \/ ~Crashed /\ (UnwindPop \/ UnwindStartWaiting \/ PopStart \/ PopWaiting)
<1> USE DEF userVars, threadVars, signalVars, wakeVars, stackVars, irqVars, queueVars,
        historyVars, dispVars
<1>1. CASE ~Crashed /\ UserNext
  BY <1>1
  DEF UserNext, StartResume, StartKill, StartMode, StartReset,
      StartInit, StartCreate, StartWait,
      StartTimeout, Trigger, TriggerFull, TriggerCount, TriggerMark,
      TriggerStore, TriggerWake
<1>2. CASE \E e \in Executors : ExecutorNext(e)
  BY <1>2
  DEF ExecutorNext, DeliverSuspend, DeliverResume, SignalCount, SignalMark,
      SignalStore, SignalWake, SignalNobody, Crashed
<1>3. CASE MainNext
  BY <1>3 DEF MainNext, MainPark, MainUnpark, MainBegin, MainEnd
<1>4. CASE \E w \in Workers : WorkerNext(w)
  BY <1>4
  DEF WorkerNext, WorkerReady, WorkerTake, WorkerWait, WorkerLock, WorkerUnlock,
      WorkerCall, WorkerDone
<1>5. CASE HandlerNext
  BY <1>5 DEF HandlerNext, WorkerReturn, MainReturn
<1>6. CASE ~Crashed /\ DispatcherNext
  BY <1>6
  DEF DispatcherNext, DispBegin, DispCheck, DispPark, DispAwake, DispWake,
      DispConsume, UnwindResume, UnwindEnd, ResumeTest, ResumeCond, ResumeXchg,
      ResumeKill, PopDefer, PopNothing, SuspendMain, SuspendOldTest,
      SuspendOld, SuspendMainW, AssertW, StartTest, StartCond, Assert, MainTest,
      MainXchg, MainKill, Report
<1>7. CASE UNCHANGED vars
  BY <1>7 DEF vars
<1>8. QED BY <1>1, <1>2, <1>3, <1>4, <1>5, <1>6, <1>7 DEF Next

(* _prepare_new_worker pushes its line and leaves the places below alone,  *)
(* also when it grows the memory of workers.                               *)
LEMMA PreparePushes ==
  ASSUME CountersOK, Room, ~Crashed, NEW l, NEW from, NEW to, Prepare(l, from, to)
  PROVE  /\ exec' = exec + 1
         /\ \A w \in 1 .. exec : func'[w] = func[w]
         /\ dpc' # "aborted" => func'[exec + 1] = l
<1>1. /\ exec \in Nat /\ size \in 1 .. Slots /\ exec < size /\ Slots \in Nat
      /\ func \in [Workers -> Nat]
  BY Constant DEF CountersOK, Room, Crashed
<1>2. exec + 1 \in Workers /\ 1 .. exec \subseteq Workers /\ exec + 1 \notin 1 .. exec
  BY <1>1 DEF Workers
<1>3. CASE func' = [func EXCEPT ![exec + 1] = l]
  BY <1>1, <1>2, <1>3 DEF Prepare
<1>4. CASE func' = [w \in Workers |-> IF w = exec + 1 THEN l
                                      ELSE IF w \in exec + 1 + 1 .. 2 * (exec + 1)
                                      THEN 0 ELSE func[w]]
  <2>1. \A w \in 1 .. exec : w # exec + 1 /\ w \notin exec + 1 + 1 .. 2 * (exec + 1)
    BY <1>1
  <2>2. QED BY <1>2, <1>4, <2>1 DEF Prepare
<1>5. CASE dpc' = "aborted" /\ UNCHANGED func
  BY <1>5 DEF Prepare
<1>6. QED BY <1>3, <1>4, <1>5 DEF Prepare, Disp

LEMMA PushOrdered ==
  ASSUME CountersOK, Room, ~Crashed, StackOrdered,
         NEW l \in Nat, exec > 0 => l >= func[exec],
         NEW from, NEW to, Prepare(l, from, to)
  PROVE  StackOrdered'
<1> SUFFICES ASSUME dpc' # "aborted", NEW v \in 1 .. exec', NEW w \in 1 .. exec', v < w
             PROVE  func'[v] <= func'[w]
  BY DEF StackOrdered
<1>1. /\ exec' = exec + 1
      /\ \A u \in 1 .. exec : func'[u] = func[u]
      /\ func'[exec + 1] = l
  BY PreparePushes
<1>2. exec \in Nat /\ \A u \in 1 .. exec : func[u] \in Nat
  BY Constant DEF CountersOK, Workers
<1>3. \A x, y \in 1 .. exec : x < y => func[x] <= func[y]
  BY DEF StackOrdered, Crashed
<1>4. CASE w <= exec
  BY <1>1, <1>2, <1>3, <1>4
<1>5. CASE w = exec + 1
  <2>1. v \in 1 .. exec
    BY <1>1, <1>2, <1>5
  <2>2. func[v] <= func[exec]
    BY <1>2, <1>3, <2>1
  <2>3. func[exec] \in Nat /\ func[v] \in Nat /\ exec > 0
    BY <1>2, <2>1
  <2>4. QED BY <1>1, <1>5, <2>1, <2>2, <2>3
<1>6. QED BY <1>1, <1>2, <1>4, <1>5

LEMMA OrderedStep ==
  IInv /\ StackOrdered /\ [Next]_vars => StackOrdered'
<1> SUFFICES ASSUME IInv, StackOrdered, [Next]_vars PROVE StackOrdered'
  OBVIOUS
<1>1. CountersOK /\ Room /\ QueuesOK
  BY DEF IInv, TypeOK
<1>2. CASE UNCHANGED <<func, exec, dpc>>
  BY <1>2 DEF StackOrdered
<1>3. CASE ~Crashed /\ UNCHANGED <<func, exec>>
  BY <1>3 DEF StackOrdered, Crashed
<1>4. CASE ~Crashed /\ UnwindPop
  <2>1. UNCHANGED func /\ 1 .. exec' \subseteq 1 .. exec
    BY <1>1, <1>4, Constant DEF UnwindPop, stackVars, irqVars, CountersOK
  <2>2. QED BY <1>4, <2>1 DEF StackOrdered, Crashed
<1>5. CASE ~Crashed /\ UnwindStartWaiting
  <2>1. HeapTop(waiting) \in Nat /\ (exec > 0 => HeapTop(waiting) >= func[exec])
    <3>1. HeapTop(waiting) \in Nat
      BY <1>1, TopType DEF QueuesOK
    <3>2. exec > 0 => func[exec] \in Nat
      BY <1>1, Constant DEF CountersOK, Workers
    <3>3. exec > 0 /\ HeapTop(waiting) > func[exec]
      BY <1>5 DEF UnwindStartWaiting, WaitingIsHigher
    <3>4. QED BY <3>1, <3>2, <3>3
  <2>2. QED BY <1>1, <1>5, <2>1, PushOrdered DEF UnwindStartWaiting
<1>6. CASE ~Crashed /\ PopStart
  <2>1. Head(ready) \in Lines
    BY <1>1, <1>6 DEF PopStart, QueuesOK
  <2>2. Head(ready) \in Nat /\ (exec > 0 => Head(ready) >= func[exec])
    BY <1>6, <2>1, Constant DEF PopStart, Preempts
  <2>3. QED BY <1>1, <1>6, <2>2, PushOrdered DEF PopStart
<1>7. CASE ~Crashed /\ PopWaiting
  <2>1. HeapTop(waiting) \in Nat /\ exec = 0
    BY <1>1, <1>7, TopType DEF QueuesOK, PopWaiting
  <2>2. QED BY <1>1, <1>7, <2>1, PushOrdered DEF PopWaiting
<1>8. QED BY <1>2, <1>3, <1>4, <1>5, <1>6, <1>7, StackSteps

(* Preemption nests by priority for every number of lines and workers and  *)
(* under every interleaving: the dispatcher pushes a line only on a lower  *)
(* or equal one, from either queue, and nobody else writes the stack.      *)
THEOREM PreemptionNests == Spec => []StackOrdered
<1>1. ASSUME Init PROVE StackOrdered
  <2>1. exec = 0
    BY <1>1 DEF Init
  <2>2. QED BY <2>1 DEF StackOrdered
<1>2. QED BY <1>1, OrderedStep, Inductive, PTL DEF Spec

(* The line of an interrupted worker is never overwritten.                 *)
THEOREM SlotsKept == Spec => SlotsStable
<1>1. IInv /\ [Next]_vars =>
        [\A w \in Workers : w <= exec /\ w <= exec' => func'[w] = func[w]]_vars
  <2> SUFFICES ASSUME IInv, [Next]_vars, NEW w \in Workers, w <= exec, w <= exec'
               PROVE  func'[w] = func[w]
    OBVIOUS
  <2>1. CountersOK /\ Room
    BY DEF IInv, TypeOK
  <2>2. w \in 1 .. exec
    BY <2>1, Constant DEF CountersOK, Workers
  <2>3. CASE ~Crashed /\ (UnwindStartWaiting \/ PopStart \/ PopWaiting)
    BY <2>1, <2>2, <2>3, PreparePushes DEF UnwindStartWaiting, PopStart, PopWaiting
  <2>4. CASE UnwindPop \/ UNCHANGED func
    BY <2>4 DEF UnwindPop
  <2>5. QED BY <2>3, <2>4, StackSteps
<1>2. QED BY <1>1, Inductive, PTL DEF Spec, SlotsStable

-----------------------------------------------------------------------------
(* Threads of the workers.                                                 *)
Manned == \A w \in 1 .. size : pc[w] # "none"

(* A thread that was created stays created, and a growing memory of        *)
(* workers gets a thread in every new place.                               *)
LEMMA PrepareManned ==
  ASSUME TypeOK, Room, Manned, ~Crashed, NEW l, NEW from, NEW to, Prepare(l, from, to)
  PROVE  Manned'
<1>1. exec \in Nat /\ size \in 1 .. Slots /\ exec < size /\ Slots \in Nat
  BY Constant DEF TypeOK, CountersOK, Room, Crashed
<1>2. CASE UNCHANGED <<size, pc>>
  BY <1>2 DEF Manned
<1>3. CASE /\ exec + 1 >= size /\ 2 * (exec + 1) <= Slots /\ size' = 2 * (exec + 1)
           /\ pc' = [e \in Executors |->
                       IF e \in exec + 1 + 1 .. 2 * (exec + 1) THEN "init" ELSE pc[e]]
  <2>1. size = exec + 1 /\ 1 .. size' \subseteq Executors
    BY <1>1, <1>3 DEF Executors, Workers
  <2>2. \A w \in 1 .. size' : w \in 1 .. size \/ w \in exec + 1 + 1 .. 2 * (exec + 1)
    BY <1>1, <1>3, <2>1
  <2>3. QED BY <1>3, <2>1, <2>2 DEF Manned
<1>4. QED BY <1>2, <1>3 DEF Prepare

LEMMA MannedStep == IInv /\ Manned /\ [Next]_vars => Manned'
<1> SUFFICES ASSUME IInv, Manned, [Next]_vars PROVE Manned'
  OBVIOUS
<1>0. /\ pc \in [Executors -> MainPcs \union WorkerPcs] /\ TypeOK /\ Room
      /\ 1 .. size \subseteq Executors
  <2>1. size \in 1 .. Slots /\ Slots \in Nat
    BY Constant DEF IInv, TypeOK, CountersOK
  <2>2. 1 .. size \subseteq Executors
    BY <2>1 DEF Executors, Workers
  <2>3. QED BY <2>2 DEF IInv, TypeOK, ThreadsOK
<1> USE DEF Manned, userVars, threadVars, signalVars, wakeVars, stackVars, irqVars,
        queueVars, historyVars, dispVars
<1>1. CASE UserNext
  BY <1>1
  DEF UserNext, StartResume, StartKill, StartMode, StartReset,
      StartInit, StartCreate, StartWait,
      StartTimeout, Trigger, TriggerFull, TriggerCount, TriggerMark,
      TriggerStore, TriggerWake
<1>2. CASE \E e \in Executors : ExecutorNext(e)
  BY <1>0, <1>2
  DEF ExecutorNext, DeliverSuspend, DeliverResume, SignalCount, SignalMark,
      SignalStore, SignalWake, SignalNobody, Goes, AfterSignal
<1>3. CASE MainNext
  BY <1>0, <1>3 DEF MainNext, MainPark, MainUnpark, MainBegin, MainEnd, Goes
<1>4. CASE \E w \in Workers : WorkerNext(w)
  BY <1>0, <1>4
  DEF WorkerNext, WorkerReady, WorkerTake, WorkerWait, WorkerLock, WorkerUnlock,
      WorkerCall, WorkerDone, Goes
<1>5. CASE HandlerNext
  BY <1>0, <1>5 DEF HandlerNext, WorkerReturn, MainReturn, Goes
<1>6. CASE ~Crashed /\ DispatcherNext
  <2>1. CASE ResumeCond \/ StartCond
    BY <1>0, <2>1 DEF ResumeCond, StartCond, CondSignal
  <2>2. CASE UnwindStartWaiting \/ PopStart \/ PopWaiting
    BY <1>0, <1>6, <2>2, PrepareManned DEF UnwindStartWaiting, PopStart, PopWaiting
  <2>3. CASE UNCHANGED <<size, pc>>
    BY <2>3
  <2>4. QED
    BY <1>6, <2>1, <2>2, <2>3
    DEF DispatcherNext, DispBegin, DispCheck, DispPark, DispAwake, DispWake,
        DispConsume, UnwindPop, UnwindResume, UnwindEnd, ResumeTest, ResumeXchg,
        ResumeKill, PopDefer, PopNothing, SuspendMain, SuspendOldTest,
        SuspendOld, SuspendMainW, AssertW, StartTest, Assert, MainTest,
        MainXchg, MainKill, Report
<1>7. CASE UNCHANGED vars
  BY <1>7 DEF vars
<1>8. QED BY <1>1, <1>2, <1>3, <1>4, <1>5, <1>6, <1>7 DEF Next

(* Every place of the stack has a worker's thread, and the memory of       *)
(* workers has one place in reserve, however the memory grows.             *)
THEOREM WorkersSuffice == Spec => []StackHasWorkers
<1>1. Init => Manned
  <2> SUFFICES ASSUME Init, NEW w \in 1 .. size PROVE pc[w] # "none"
    BY DEF Manned
  <2>1. size = Depth
    BY DEF Init
  <2>2. w \in 1 .. Depth /\ w \in Executors
    BY <2>1, Constant DEF Executors, Workers
  <2>3. pc[w] = IF w \in Late \union {Main} THEN "init"
                ELSE IF w \in 1 .. Depth THEN "wait" ELSE "none"
    BY <2>2 DEF Init
  <2>4. QED BY <2>2, <2>3
<1>2. IInv /\ Manned => StackHasWorkers
  <2> SUFFICES ASSUME IInv, Manned PROVE StackHasWorkers
    OBVIOUS
  <2>1. exec \in 0 .. Slots /\ size \in 1 .. Slots /\ Slots \in Nat
    BY Constant DEF IInv, TypeOK, CountersOK
  <2>2. QED BY <2>1 DEF IInv, Room, Manned, StackHasWorkers
<1>3. QED BY <1>1, <1>2, MannedStep, Inductive, PTL DEF Spec
=============================================================================
