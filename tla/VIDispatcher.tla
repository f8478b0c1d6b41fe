---------------------------- MODULE VIDispatcher ----------------------------
(***************************************************************************)
(* The interrupt controller of src/virtual_interrupt at run time: the      *)
(* thread that starts it and triggers interrupts, the dispatcher thread,   *)
(* the thread of the board's main function and the workers that run the    *)
(* interrupt handlers, with the atomics, signals, mutexes and condition    *)
(* variables they share.  vidispatcher_init has returned; destruction is   *)
(* not part of this module.                                                *)
(*                                                                         *)
(* The main function and the workers are "executors", numbered as the      *)
(* code numbers them: worker k is workers[k-1], and 0 is the main          *)
(* function.  The dispatcher stops and continues an executor with two      *)
(* POSIX signals.  Suspend is unblocked in the executors; its handler      *)
(* waits in sigsuspend for Resume, which is blocked everywhere else and so *)
(* stays pending, as one bit, until then.                                  *)
(***************************************************************************)
EXTENDS Integers, Sequences, HeapOps

CONSTANTS
  NLines,        \* n_funcs, the number of interrupt lines
  Depth,         \* conf.depth, the workers there are at first
  Slots,         \* the workers memory has room for
  Late,          \* the first workers that may still be about to wait at the start
  ReadyRoom,     \* READY_QUEUE_CAP - 1, see SPSCQ
  Budget,        \* bound: how often each line may be triggered
  IrqOutcomes,   \* how handlers may end: "ok", "trap"
  MainOutcomes,  \* how the main function may end; {} when it never does
  Paced          \* see Calm

Lines == 0 .. NLines - 1
Workers == 1 .. Slots
Main == 0
Executors == {Main} \union Workers

ASSUME ConstantsAssumption ==
  /\ NLines \in Nat \ {0}
  /\ Depth \in Nat \ {0}
  /\ Slots \in Nat
  /\ Depth <= Slots
  /\ Late \subseteq 1 .. Depth
  /\ ReadyRoom \in Nat
  /\ Budget \in [Lines -> Nat]
  /\ IrqOutcomes \subseteq {"ok", "trap"}
  /\ MainOutcomes \subseteq {"ok", "trap"}
  /\ Paced \in BOOLEAN

Statuses == {"Init", "Working", "Suspended", "Done"}

VARIABLES
  upc,        \* where the user's thread is
  ret,        \* the VIError of its last call, None during a trigger
  status,     \* working_status of each executor
  pc,         \* where each executor's thread is; "none" before it exists
  suspends,   \* the executors with a pending Suspend signal
  resumes,    \* the executors with a pending Resume signal
  stopped,    \* the executors inside the Suspend handler
  func,       \* func_index of each worker
  dpc,        \* where the dispatcher's thread is
  finish,     \* worker_finish
  dstatus,    \* working_status of the dispatcher
  dresume,    \* a Resume signal is pending for the dispatcher
  nreq,       \* n_requests
  exec,       \* executing_worker
  size,       \* span_len of workers
  ready,      \* channel_ready_ureq, as the queue SPSCQ implements
  waiting,    \* minheap_ureq
  exception,  \* VI_ERROR_WAMR_EXCEPTION: "" for none, "null" for NULL
  accepted,   \* how many requests of a line were pushed (history)
  served      \* how many handler runs of a line were begun (history)

userVars == <<upc, ret>>
threadVars == <<status, pc>>
signalVars == <<suspends, resumes, stopped>>
wakeVars == <<dstatus, dresume, nreq>>
stackVars == <<func, exec, size>>
queueVars == <<ready, waiting>>
historyVars == <<accepted, served>>
dispVars == <<dpc, finish>>
irqVars == <<stackVars, queueVars, historyVars>>
vars == <<userVars, threadVars, signalVars, wakeVars, irqVars, dispVars, exception>>

(* vidispatcher_init_full has created the main thread and Depth workers    *)
(* and has seen each of them report success; the main thread and the       *)
(* workers in Late have still to store their status and to wait.  There is *)
(* no dispatcher thread yet, and what malloc left in its status is         *)
(* anything: only whether that is Working is told apart.  Nobody reads     *)
(* n_requests before it is initialised.                                    *)
Init ==
  /\ upc = "start"
  /\ ret = "None"
  /\ status = [e \in Executors |-> IF e \in (1 .. Depth) \ Late THEN "Done" ELSE "Init"]
  /\ pc = [e \in Executors |-> IF e \in Late \union {Main} THEN "init"
                               ELSE IF e \in 1 .. Depth THEN "wait" ELSE "none"]
  /\ suspends = {}
  /\ resumes = {}
  /\ stopped = {}
  /\ func = [w \in Workers |-> 0]
  /\ dpc = "none"
  /\ finish = FALSE
  /\ dstatus \in {"Init", "Working"}
  /\ dresume = FALSE
  /\ nreq = 0
  /\ exec = 0
  /\ size = Depth
  /\ ready = <<>>
  /\ waiting = EmptyHeap
  /\ exception = ""
  /\ accepted = [l \in Lines |-> 0]
  /\ served = [l \in Lines |-> 0]

(* An assertion failure or a read through NULL ends the process.           *)
Crashed == dpc \in {"aborted", "segfault"}

(***************************************************************************)
(* Pacing.  In a Paced system an event from outside (a trigger, the end of *)
(* a handler or of the main function) comes only when all threads have     *)
(* settled, and the dispatcher moves only when the other threads have: the *)
(* regime of launcher/main.c, which lets seconds pass between its          *)
(* triggers.  It leaves out races, so that what remains is the logic of    *)
(* the dispatcher.  Without Paced every interleaving is possible.          *)
(***************************************************************************)
(* A signal of executor e can be delivered.                                *)
SuspendDue(e) == /\ e \in suspends \ stopped
                 /\ pc[e] \notin {"none", "park", "ended"}
ResumeDue(e) == e \in resumes /\ (e \in stopped \/ pc[e] = "park")

(* Executor e has something to do before it waits or runs wasm code.       *)
Unsettled(e) == \/ SuspendDue(e)
                \/ ResumeDue(e)
                \/ /\ e \notin stopped
                   /\ pc[e] \notin {"none", "park", "wait", "run", "ended"}

OthersSettled == /\ \A e \in Executors : ~Unsettled(e)
                 /\ \/ upc \in {"idle", "gaveUp"}
                    \/ upc = "startWait" /\ dstatus = "Init"

Settled == /\ OthersSettled
           /\ upc # "startWait"
           /\ dpc = "asleep" /\ ~dresume

Calm == Paced => Settled
DispatcherTurn == Paced => OthersSettled

(***************************************************************************)
(* workers/dispatcher.h: vi_dispatcher_status_signal, called by the user's *)
(* thread and by the executors.  It counts the request, then makes the     *)
(* dispatcher Working by an exchange; only if it was not Working before    *)
(* does it store Working once more and send Resume.                        *)
(***************************************************************************)
CountRequest == /\ nreq' = nreq + 1
                /\ UNCHANGED <<dstatus, dresume>>

MarkWorking == /\ dstatus' = "Working"
               /\ UNCHANGED <<dresume, nreq>>

(* A signal that sets the status and does not call pthread_kill. *)
WakeNot == UNCHANGED <<dstatus, dresume, nreq>>

Wake == /\ dresume' = TRUE
        /\ UNCHANGED <<dstatus, nreq>>

(***************************************************************************)
(* The user's thread: vidispatcher_start.                                  *)
(***************************************************************************)
User(from, to) == upc = from /\ upc' = to

(* vi_main_logic_resume: the exchange, then the store and the signal. *)
StartResume ==
  /\ User("start", IF status[Main] = "Working" THEN "startMode" ELSE "startKill")
  /\ status' = [status EXCEPT ![Main] = "Working"]
  /\ UNCHANGED <<ret, pc, signalVars, wakeVars, irqVars, dispVars, exception>>

StartKill ==
  /\ User("startKill", "startMode")
  /\ status' = [status EXCEPT ![Main] = "Working"]
  /\ resumes' = resumes \union {Main}
  /\ UNCHANGED <<ret, pc, suspends, stopped, wakeVars, irqVars, dispVars, exception>>

StartMode ==
  /\ IF status[Main] = "Working"
       THEN User("startMode", "startReset") /\ UNCHANGED ret
       ELSE User("startMode", "gaveUp") /\ ret' = "Unexpected"
  /\ UNCHANGED <<threadVars, signalVars, wakeVars, irqVars, dispVars, exception>>

(* vi_dispatcher_status_init: the counter, the status and the thread, while *)
(* the main function runs and may already return.                          *)
StartReset ==
  /\ User("startReset", "startInit")
  /\ nreq' = 0
  /\ UNCHANGED <<ret, threadVars, signalVars, dstatus, dresume, irqVars, dispVars,
                 exception>>

StartInit ==
  /\ User("startInit", "startCreate")
  /\ dstatus' = "Init"
  /\ UNCHANGED <<ret, threadVars, signalVars, dresume, nreq, irqVars, dispVars, exception>>

StartCreate ==
  /\ User("startCreate", "startWait")
  /\ dpc' = "begin"
  /\ UNCHANGED <<ret, threadVars, signalVars, wakeVars, irqVars, finish, exception>>

(* VI_LOOP_TRY polls the status for VI_MAX_RETRIES milliseconds. *)
StartWait ==
  /\ dstatus # "Init"
  /\ User("startWait", "idle")
  /\ UNCHANGED <<ret, threadVars, signalVars, wakeVars, irqVars, dispVars, exception>>

StartTimeout ==
  /\ ~Paced
  /\ dstatus = "Init"
  /\ User("startWait", "gaveUp")
  /\ ret' = "Async"
  /\ UNCHANGED <<threadVars, signalVars, wakeVars, irqVars, dispVars, exception>>

(***************************************************************************)
(* The user's thread: vidispatcher_trigger_interrupt.                      *)
(***************************************************************************)
(* A trigger that writes the queue without looking for room. *)
TriggerUnchecked(l) ==
  /\ Calm
  /\ accepted[l] < Budget[l]
  /\ User("idle", "sigAdd")
  /\ ready' = Append(ready, l)
  /\ accepted' = [accepted EXCEPT ![l] = @ + 1]
  /\ ret' = "None"
  /\ UNCHANGED <<threadVars, signalVars, wakeVars, stackVars, waiting,
                 served, dispVars, exception>>

(* spscq_push of a valid line. *)
Trigger(l) ==
  /\ Calm
  /\ accepted[l] < Budget[l]
  /\ Len(ready) < ReadyRoom
  /\ User("idle", "sigAdd")
  /\ ready' = Append(ready, l)
  /\ accepted' = [accepted EXCEPT ![l] = @ + 1]
  /\ ret' = "None"
  /\ UNCHANGED <<threadVars, signalVars, wakeVars, stackVars, waiting,
                 served, dispVars, exception>>

TriggerFull ==
  /\ Calm
  /\ Len(ready) >= ReadyRoom
  /\ User("idle", "idle")
  /\ ret' = "Queue"
  /\ UNCHANGED <<threadVars, signalVars, wakeVars, irqVars, dispVars, exception>>

TriggerCount ==
  /\ User("sigAdd", "sigXchg")
  /\ CountRequest
  /\ UNCHANGED <<ret, threadVars, signalVars, irqVars, dispVars, exception>>

TriggerMark ==
  /\ IF dstatus = "Working"
       THEN User("sigXchg", "idle") /\ ret' = "Async"
       ELSE User("sigXchg", "sigStore") /\ UNCHANGED ret
  /\ MarkWorking
  /\ UNCHANGED <<threadVars, signalVars, irqVars, dispVars, exception>>

TriggerStore ==
  /\ User("sigStore", "sigKill")
  /\ MarkWorking
  /\ UNCHANGED <<ret, threadVars, signalVars, irqVars, dispVars, exception>>

TriggerWake ==
  /\ User("sigKill", "idle")
  /\ ret' = "None"
  /\ Wake
  /\ UNCHANGED <<threadVars, signalVars, irqVars, dispVars, exception>>

UserNext == \/ StartResume \/ StartKill \/ StartMode
            \/ StartReset \/ StartInit \/ StartCreate \/ StartWait \/ StartTimeout
            \/ \E l \in Lines : Trigger(l)
            \/ TriggerFull \/ TriggerCount \/ TriggerMark \/ TriggerStore \/ TriggerWake

(***************************************************************************)
(* Signals.  A thread can be interrupted anywhere outside of the handler.  *)
(***************************************************************************)
(* _worker_suspend_signal_handler, up to its sigsuspend. *)
DeliverSuspend(e) ==
  /\ SuspendDue(e)
  /\ suspends' = suspends \ {e}
  /\ stopped' = stopped \union {e}
  /\ UNCHANGED <<userVars, threadVars, resumes, wakeVars, irqVars, dispVars, exception>>

(* Resume ends the sigsuspend, and the handler returns. *)
DeliverResume(e) ==
  /\ e \in stopped
  /\ ResumeDue(e)
  /\ resumes' = resumes \ {e}
  /\ stopped' = stopped \ {e}
  /\ UNCHANGED <<userVars, threadVars, suspends, wakeVars, irqVars, dispVars, exception>>

(***************************************************************************)
(* The executors' threads.                                                 *)
(***************************************************************************)
Goes(e, from, to) == /\ e \notin stopped
                     /\ pc[e] = from
                     /\ pc' = [pc EXCEPT ![e] = to]

Marks(e, mode) == status' = [status EXCEPT ![e] = mode]

(* vi_dispatcher_status_signal, and on: a worker's loop goes round. *)
SignalCount(e) ==
  /\ Goes(e, "sigAdd", "sigXchg")
  /\ CountRequest
  /\ UNCHANGED <<userVars, status, signalVars, irqVars, dispVars, exception>>

AfterSignal(e) == IF e = Main THEN "end" ELSE "lock"

SignalMark(e) ==
  /\ Goes(e, "sigXchg", IF dstatus = "Working" THEN AfterSignal(e) ELSE "sigStore")
  /\ MarkWorking
  /\ UNCHANGED <<userVars, status, signalVars, irqVars, dispVars, exception>>

SignalStore(e) ==
  /\ Goes(e, "sigStore", "sigKill")
  /\ MarkWorking
  /\ UNCHANGED <<userVars, status, signalVars, irqVars, dispVars, exception>>

SignalWake(e) ==
  /\ dpc # "none"
  /\ Goes(e, "sigKill", AfterSignal(e))
  /\ Wake
  /\ UNCHANGED <<userVars, status, signalVars, irqVars, dispVars, exception>>

(* A main function that returns before the dispatcher's thread exists      *)
(* calls pthread_kill with a th_id that nobody has initialised: it finds   *)
(* no thread, or crashes.                                                  *)
SignalNobody(e) ==
  /\ dpc = "none"
  /\ dpc' \in {"none", "segfault"}
  /\ Goes(e, "sigKill", AfterSignal(e))
  /\ UNCHANGED <<userVars, status, signalVars, wakeVars, irqVars, finish, exception>>

(* The main function's thread, _th_main_thread. *)
MainPark ==
  /\ Goes(Main, "init", "park")
  /\ Marks(Main, "Suspended")
  /\ UNCHANGED <<userVars, signalVars, wakeVars, irqVars, dispVars, exception>>

MainUnpark ==
  /\ Goes(Main, "park", "begin")
  /\ Main \in resumes
  /\ resumes' = resumes \ {Main}
  /\ UNCHANGED <<userVars, status, suspends, stopped, wakeVars, irqVars, dispVars, exception>>

MainBegin ==
  /\ Goes(Main, "begin", "run")
  /\ Marks(Main, "Working")
  /\ UNCHANGED <<userVars, signalVars, wakeVars, irqVars, dispVars, exception>>

(* The test on the result of the call is the wrong way round: it is the    *)
(* call that succeeds that records the module's exception, which is NULL.  *)
MainReturn(o) ==
  /\ Calm
  /\ Goes(Main, "run", "sigAdd")
  /\ exception' = IF o = "ok" THEN "null" ELSE exception
  /\ UNCHANGED <<userVars, status, signalVars, wakeVars, irqVars, dispVars>>

MainEnd ==
  /\ Goes(Main, "end", "ended")
  /\ Marks(Main, "Done")
  /\ UNCHANGED <<userVars, signalVars, wakeVars, irqVars, dispVars, exception>>

(* A worker's thread, _th_irq_worker. *)
WorkerReady(w) ==
  /\ Goes(w, "init", "lock")
  /\ Marks(w, "Done")
  /\ UNCHANGED <<userVars, signalVars, wakeVars, irqVars, dispVars, exception>>

(* It takes the mutex, then gives it back to wait on the condition         *)
(* variable.  Nobody else keeps the mutex: see CondSignal.                 *)
WorkerTake(w) ==
  /\ Goes(w, "lock", "holds")
  /\ UNCHANGED <<userVars, status, signalVars, wakeVars, irqVars, dispVars, exception>>

WorkerWait(w) ==
  /\ Goes(w, "holds", "wait")
  /\ UNCHANGED <<userVars, status, signalVars, wakeVars, irqVars, dispVars, exception>>

(* Woken by CondSignal, it takes the mutex again. *)
WorkerLock(w) ==
  /\ Goes(w, "woken", "locked")
  /\ UNCHANGED <<userVars, status, signalVars, wakeVars, irqVars, dispVars, exception>>

WorkerUnlock(w) ==
  /\ Goes(w, "locked", "fetch")
  /\ Marks(w, "Working")
  /\ UNCHANGED <<userVars, signalVars, wakeVars, irqVars, dispVars, exception>>

(* It loads func_index and calls the handler of that line. *)
WorkerCall(w) ==
  /\ Goes(w, "fetch", "run")
  /\ served' = [served EXCEPT ![func[w]] = @ + 1]
  /\ UNCHANGED <<userVars, status, signalVars, wakeVars, stackVars, queueVars,
                 accepted, dispVars, exception>>

WorkerReturn(w, o) ==
  /\ Calm
  /\ Goes(w, "run", "done")
  /\ exception' = IF o = "trap" THEN "msg" ELSE exception
  /\ UNCHANGED <<userVars, status, signalVars, wakeVars, irqVars, dispVars>>

WorkerDone(w) ==
  /\ Goes(w, "done", "sigAdd")
  /\ Marks(w, "Done")
  /\ UNCHANGED <<userVars, signalVars, wakeVars, irqVars, dispVars, exception>>

ExecutorNext(e) ==
  \/ DeliverSuspend(e) \/ DeliverResume(e)
  \/ SignalCount(e) \/ SignalMark(e) \/ SignalStore(e)
  \/ SignalWake(e) \/ SignalNobody(e)

MainNext == MainPark \/ MainUnpark \/ MainBegin \/ MainEnd

WorkerNext(w) == \/ WorkerReady(w) \/ WorkerTake(w) \/ WorkerWait(w)
                 \/ WorkerLock(w) \/ WorkerUnlock(w) \/ WorkerCall(w) \/ WorkerDone(w)

(***************************************************************************)
(* The dispatcher's thread, _th_dispatcher.                                *)
(***************************************************************************)
Disp(from, to) == /\ DispatcherTurn
                  /\ dpc = from
                  /\ dpc' = to

DispBegin ==
  /\ Disp("begin", "check")
  /\ dstatus' = "Working"
  /\ UNCHANGED <<userVars, threadVars, signalVars, dresume, nreq, irqVars, finish, exception>>

(* The loop that waits for requests. *)
DispCheck ==
  /\ Disp("check", IF nreq = 0 THEN "park" ELSE "wake")
  /\ UNCHANGED <<userVars, threadVars, signalVars, wakeVars, irqVars, finish, exception>>

DispPark ==
  /\ Disp("park", "asleep")
  /\ dstatus' = "Suspended"
  /\ UNCHANGED <<userVars, threadVars, signalVars, dresume, nreq, irqVars, finish, exception>>

(* A wait for requests that tests n_requests once: if instead of while. *)
DispAwakeOnce ==
  /\ Disp("asleep", "wake")
  /\ dresume
  /\ dresume' = FALSE
  /\ UNCHANGED <<userVars, threadVars, signalVars, dstatus, nreq, irqVars, finish, exception>>

DispAwake ==
  /\ Disp("asleep", "check")
  /\ dresume
  /\ dresume' = FALSE
  /\ UNCHANGED <<userVars, threadVars, signalVars, dstatus, nreq, irqVars, finish, exception>>

DispWake ==
  /\ Disp("wake", "consume")
  /\ dstatus' = "Working"
  /\ UNCHANGED <<userVars, threadVars, signalVars, dresume, nreq, irqVars, finish, exception>>

DispConsume ==
  /\ IF nreq = 0 THEN Disp("consume", "check") /\ UNCHANGED nreq
                 ELSE Disp("consume", "unwind") /\ nreq' = nreq - 1
  /\ finish' = FALSE
  /\ UNCHANGED <<userVars, threadVars, signalVars, dstatus, dresume, irqVars, exception>>

(* A preparation that writes the place of the executor it interrupts. *)
PrepareInterrupted(l, from, to) ==
  /\ Disp(from, to)
  /\ exec + 1 < size
  /\ exec' = exec + 1
  /\ func' = [w \in Workers |-> IF w \in {exec, exec + 1} THEN l ELSE func[w]]
  /\ UNCHANGED <<size, pc>>

(* _prepare_new_worker: push an executor for line l on the stack, making   *)
(* more of them when the stack is full; "to" is where the caller goes on.  *)
(* The assertion on span_resize ends the process when memory runs out.     *)
Prepare(l, from, to) ==
  LET top == exec + 1
  IN /\ exec' = top
     /\ \/ /\ top < size
           /\ Disp(from, to)
           /\ func' = [func EXCEPT ![top] = l]
           /\ UNCHANGED <<size, pc>>
        \/ /\ top >= size /\ 2 * top <= Slots
           /\ Disp(from, to)
           /\ size' = 2 * top
           /\ pc' = [e \in Executors |->
                       IF e \in top + 1 .. 2 * top THEN "init" ELSE pc[e]]
           /\ func' = [w \in Workers |-> IF w = top THEN l
                                         ELSE IF w \in top + 1 .. 2 * top THEN 0
                                         ELSE func[w]]
        \/ /\ top >= size /\ 2 * top > Slots
           /\ Disp(from, "aborted")
           /\ UNCHANGED <<size, pc, func>>

(* An unwinding that does not look whether the handler has ended. *)
UnwindPopAny ==
  /\ Disp("unwind", "unwind")
  /\ exec > 0
  /\ exec' = exec - 1
  /\ finish' = TRUE
  /\ UNCHANGED <<userVars, threadVars, signalVars, wakeVars, func, size,
                 queueVars, historyVars, exception>>

(* Unwinding: executors at the top of the stack whose status is Done have  *)
(* ended their handler.                                                    *)
UnwindPop ==
  /\ Disp("unwind", "unwind")
  /\ exec > 0
  /\ status[exec] = "Done"
  /\ exec' = exec - 1
  /\ finish' = TRUE
  /\ UNCHANGED <<userVars, threadVars, signalVars, wakeVars, func, size,
                 queueVars, historyVars, exception>>

(* The one below them, now on top, goes on unless the wait queue holds a   *)
(* higher line.                                                            *)
WaitingIsHigher == waiting.len > 0 /\ HeapTop(waiting) > func[exec]

UnwindStartWaiting ==
  /\ exec > 0
  /\ status[exec] # "Done"
  /\ finish
  /\ WaitingIsHigher
  /\ Prepare(HeapTop(waiting), "unwind", "resume")
  /\ waiting' = HeapPop(waiting)
  /\ UNCHANGED <<userVars, status, signalVars, wakeVars, ready, historyVars,
                 finish, exception>>

UnwindResume ==
  /\ Disp("unwind", "resume")
  /\ exec > 0
  /\ status[exec] # "Done"
  /\ finish
  /\ ~WaitingIsHigher
  /\ UNCHANGED <<userVars, threadVars, signalVars, wakeVars, irqVars, finish, exception>>

UnwindEnd ==
  /\ Disp("unwind", "pop")
  /\ exec > 0 => status[exec] # "Done" /\ ~finish
  /\ UNCHANGED <<userVars, threadVars, signalVars, wakeVars, irqVars, finish, exception>>

(* pthread_cond_signal under the worker's mutex: it wakes the worker if it *)
(* waits and is lost on it otherwise.  The dispatcher is blocked while the *)
(* worker holds the mutex, also when the worker is stopped there.          *)
CondSignal(w) ==
  /\ pc[w] \notin {"holds", "locked"}
  /\ pc' = IF pc[w] = "wait" THEN [pc EXCEPT ![w] = "woken"] ELSE pc

(* vi_irq_worker_resume: the test of the status, then either the condition *)
(* variable or vi_worker_status_resume, which is an exchange, a store and  *)
(* a signal.  The last two are one step: nobody else sends this executor a *)
(* signal, and its delivery takes any time.                                *)
ResumeTest ==
  /\ Disp("resume", IF status[exec] = "Done" THEN "resumeCond" ELSE "resumeXchg")
  /\ UNCHANGED <<userVars, threadVars, signalVars, wakeVars, irqVars, finish, exception>>

ResumeCond ==
  /\ Disp("resumeCond", "check")
  /\ CondSignal(exec)
  /\ UNCHANGED <<userVars, status, signalVars, wakeVars, irqVars, finish, exception>>

ResumeXchg ==
  /\ Disp("resumeXchg", IF status[exec] = "Working" THEN "check" ELSE "resumeKill")
  /\ Marks(exec, "Working")
  /\ UNCHANGED <<userVars, pc, signalVars, wakeVars, irqVars, finish, exception>>

ResumeKill ==
  /\ Disp("resumeKill", "check")
  /\ Marks(exec, "Working")
  /\ resumes' = resumes \union {exec}
  /\ UNCHANGED <<userVars, pc, suspends, stopped, wakeVars, irqVars, finish, exception>>

(* A request whose line is at least that of the executor on top, or any    *)
(* request when there is none, is prepared for execution.                  *)
PreemptsAlways(l) == TRUE

Preempts(l) == exec > 0 => l >= func[exec]

PopStart ==
  /\ ready # <<>>
  /\ Preempts(Head(ready))
  /\ Prepare(Head(ready), "pop", "suspMain")
  /\ ready' = Tail(ready)
  /\ UNCHANGED <<userVars, status, signalVars, wakeVars, waiting, historyVars,
                 finish, exception>>

(* A lower request that is dropped instead of deferred. *)
PopDrop ==
  /\ Disp("pop", "assert")
  /\ ready # <<>>
  /\ ~Preempts(Head(ready))
  /\ ready' = Tail(ready)
  /\ UNCHANGED <<userVars, threadVars, signalVars, wakeVars, stackVars, waiting,
                 historyVars, finish, exception>>

(* A lower one is put on the wait queue, and lost if that is full. *)
PopDefer ==
  /\ Disp("pop", "assert")
  /\ ready # <<>>
  /\ ~Preempts(Head(ready))
  /\ ready' = Tail(ready)
  /\ waiting' = IF waiting.len < WaitCap THEN HeapPush(waiting, Head(ready))
                                         ELSE waiting
  /\ UNCHANGED <<userVars, threadVars, signalVars, wakeVars, stackVars,
                 historyVars, finish, exception>>

(* With nothing new and no executor, the wait queue's turn comes. *)
PopWaiting ==
  /\ ready = <<>>
  /\ exec = 0
  /\ waiting.len > 0
  /\ Prepare(HeapTop(waiting), "pop", "suspMainW")
  /\ waiting' = HeapPop(waiting)
  /\ UNCHANGED <<userVars, status, signalVars, wakeVars, ready, historyVars,
                 finish, exception>>

PopNothing ==
  /\ Disp("pop", "assert")
  /\ ready = <<>>
  /\ exec > 0 \/ waiting.len = 0
  /\ UNCHANGED <<userVars, threadVars, signalVars, wakeVars, irqVars, finish, exception>>

(* vi_worker_status_suspend: the exchange, and the signal unless the       *)
(* executor was Suspended already; delivery takes any time.  An ended      *)
(* thread takes no signal.                                                 *)
Suspend(e) ==
  /\ Marks(e, "Suspended")
  /\ suspends' = IF status[e] # "Suspended" THEN suspends \union {e} ELSE suspends

SuspendMain ==
  /\ Disp("suspMain", IF exec > 1 THEN "suspOld" ELSE "start")
  /\ Suspend(Main)
  /\ UNCHANGED <<userVars, pc, resumes, stopped, wakeVars, irqVars, finish, exception>>

(* A preemption that leaves the interrupted worker running. *)
SuspendOldNever ==
  /\ Disp("suspOld", "start")
  /\ UNCHANGED <<userVars, threadVars, signalVars, wakeVars, irqVars, finish, exception>>

(* vi_irq_worker_suspend of the executor that was on top: only when it is  *)
(* Working.                                                                *)
SuspendOldTest ==
  /\ Disp("suspOld", IF status[exec - 1] = "Working" THEN "suspXchg" ELSE "start")
  /\ UNCHANGED <<userVars, threadVars, signalVars, wakeVars, irqVars, finish, exception>>

SuspendOld ==
  /\ Disp("suspXchg", "start")
  /\ Suspend(exec - 1)
  /\ UNCHANGED <<userVars, pc, resumes, stopped, wakeVars, irqVars, finish, exception>>

SuspendMainW ==
  /\ Disp("suspMainW", "assertW")
  /\ Suspend(Main)
  /\ UNCHANGED <<userVars, pc, resumes, stopped, wakeVars, irqVars, finish, exception>>

AssertW ==
  /\ Disp("assertW", IF exec = 1 /\ status[Main] = "Suspended" THEN "start"
                                                             ELSE "aborted")
  /\ UNCHANGED <<userVars, threadVars, signalVars, wakeVars, irqVars, finish, exception>>

(* vi_irq_worker_start does nothing unless the status is Done. *)
StartTest ==
  /\ Disp("start", IF status[exec] = "Done" THEN "startCond" ELSE "assert")
  /\ UNCHANGED <<userVars, threadVars, signalVars, wakeVars, irqVars, finish, exception>>

StartCond ==
  /\ Disp("startCond", "assert")
  /\ CondSignal(exec)
  /\ UNCHANGED <<userVars, status, signalVars, wakeVars, irqVars, finish, exception>>

(* assert(!(executing_worker > 0 && the main function is Working)) *)
Assert ==
  /\ Disp("assert", IF exec > 0 /\ status[Main] = "Working" THEN "aborted"
                                                          ELSE "settle")
  /\ UNCHANGED <<userVars, threadVars, signalVars, wakeVars, irqVars, finish, exception>>

(* A main function that goes on over interrupts. *)
MainTestAlways ==
  /\ Disp("settle", IF status[Main] = "Suspended" THEN "mainXchg" ELSE "report")
  /\ UNCHANGED <<userVars, threadVars, signalVars, wakeVars, irqVars, finish, exception>>

(* The main function goes on when no executor is left: the test, the       *)
(* exchange and the signal.                                                *)
MainTest ==
  /\ Disp("settle", IF exec = 0 /\ status[Main] = "Suspended" THEN "mainXchg"
                                                            ELSE "report")
  /\ UNCHANGED <<userVars, threadVars, signalVars, wakeVars, irqVars, finish, exception>>

(* An exchange whose result is taken the wrong way round. *)
MainXchgInverted ==
  /\ Disp("mainXchg", IF status[Main] = "Working" THEN "mainKill" ELSE "report")
  /\ Marks(Main, "Working")
  /\ UNCHANGED <<userVars, pc, signalVars, wakeVars, irqVars, finish, exception>>

MainXchg ==
  /\ Disp("mainXchg", IF status[Main] = "Working" THEN "report" ELSE "mainKill")
  /\ Marks(Main, "Working")
  /\ UNCHANGED <<userVars, pc, signalVars, wakeVars, irqVars, finish, exception>>

MainKill ==
  /\ Disp("mainKill", "report")
  /\ Marks(Main, "Working")
  /\ resumes' = resumes \union {Main}
  /\ UNCHANGED <<userVars, pc, suspends, stopped, wakeVars, irqVars, finish, exception>>

(* _vi_exists_wamr_exception compares the string, also when it is NULL. *)
Report ==
  /\ Disp("report", IF exception = "null" THEN "segfault" ELSE "check")
  /\ exception' = IF exception = "msg" THEN "" ELSE exception
  /\ UNCHANGED <<userVars, threadVars, signalVars, wakeVars, irqVars, finish>>

DispatcherNext ==
  \/ DispBegin \/ DispCheck \/ DispPark \/ DispAwake \/ DispWake \/ DispConsume
  \/ UnwindPop \/ UnwindStartWaiting \/ UnwindResume \/ UnwindEnd
  \/ ResumeTest \/ ResumeCond \/ ResumeXchg \/ ResumeKill
  \/ PopStart \/ PopDefer \/ PopWaiting \/ PopNothing
  \/ SuspendMain \/ SuspendOldTest \/ SuspendOld \/ SuspendMainW \/ AssertW
  \/ StartTest \/ StartCond \/ Assert \/ MainTest \/ MainXchg \/ MainKill \/ Report

-----------------------------------------------------------------------------
(* The steps the wasm code decides on: nothing says a handler ends. *)
HandlerNext == \/ \E w \in Workers, o \in IrqOutcomes : WorkerReturn(w, o)
               \/ \E o \in MainOutcomes : MainReturn(o)

Next == /\ ~Crashed
        /\ \/ UserNext
           \/ \E e \in Executors : ExecutorNext(e)
           \/ MainNext
           \/ \E w \in Workers : WorkerNext(w)
           \/ HandlerNext
           \/ DispatcherNext

Spec == Init /\ [][Next]_vars

(* Every thread the scheduler can run gets to run, and a pending signal    *)
(* that can be delivered is; the user's thread finishes its calls but      *)
(* never has to trigger anything.                                          *)
UserCallNext == \/ StartResume \/ StartKill \/ StartMode
                \/ StartReset \/ StartInit \/ StartCreate \/ StartWait
                \/ TriggerCount \/ TriggerMark \/ TriggerStore \/ TriggerWake

ThreadFairness ==
  /\ WF_vars(~Crashed /\ UserCallNext)
  /\ \A e \in Executors : WF_vars(~Crashed /\ ExecutorNext(e))
  /\ WF_vars(~Crashed /\ MainNext)
  /\ \A w \in Workers : WF_vars(~Crashed /\ WorkerNext(w))
  /\ WF_vars(~Crashed /\ DispatcherNext)

(* Handlers end: an assumption about the wasm code that is loaded.         *)
HandlersEnd == \A w \in Workers :
                 WF_vars(~Crashed /\ \E o \in IrqOutcomes : WorkerReturn(w, o))

FairSpec == Spec /\ ThreadFairness /\ HandlersEnd

-----------------------------------------------------------------------------
(***************************************************************************)
(* Properties.                                                             *)
(***************************************************************************)
UserPcs == {"start", "startKill", "startMode", "startReset", "startInit",
            "startCreate", "startWait", "idle", "sigAdd", "sigXchg", "sigStore",
            "sigKill", "gaveUp"}
MainPcs == {"init", "park", "begin", "run", "sigAdd", "sigXchg", "sigStore",
            "sigKill", "end", "ended"}
WorkerPcs == {"none", "init", "lock", "holds", "wait", "woken", "locked",
              "fetch", "run", "done", "sigAdd", "sigXchg", "sigStore", "sigKill"}
DispPcs == {"none", "begin", "check", "park", "asleep", "wake", "consume",
            "unwind", "resume", "resumeCond", "resumeXchg", "resumeKill", "pop",
            "suspMain", "suspOld", "suspXchg", "suspMainW", "assertW", "start",
            "startCond", "assert", "settle", "mainXchg", "mainKill", "report",
            "aborted", "segfault"}

(* The threads, their signals and what they tell each other. *)
ThreadsOK ==
  /\ upc \in UserPcs
  /\ ret \in {"None", "Queue", "Async", "Unexpected"}
  /\ status \in [Executors -> Statuses]
  /\ pc \in [Executors -> MainPcs \union WorkerPcs]
  /\ suspends \subseteq Executors
  /\ resumes \subseteq Executors
  /\ stopped \subseteq Executors
  /\ dpc \in DispPcs
  /\ dstatus \in {"Init", "Working", "Suspended"}
  /\ exception \in {"", "msg", "null"}

FlagsOK == finish \in BOOLEAN /\ dresume \in BOOLEAN

CountersOK ==
  /\ nreq \in Nat
  /\ func \in [Workers -> Nat]
  /\ exec \in 0 .. Slots
  /\ size \in 1 .. Slots
  /\ accepted \in [Lines -> Nat]
  /\ served \in [Lines -> Nat]

QueuesOK ==
  /\ ready \in Seq(Lines) /\ Len(ready) <= ReadyRoom
  /\ waiting \in Heaps

TypeOK == ThreadsOK /\ FlagsOK /\ CountersOK /\ QueuesOK

(***************************************************************************)
(* Safety under every interleaving.                                        *)
(***************************************************************************)
(* Preemption nests by priority: an interrupted handler never has a higher *)
(* line than one that interrupted it, whatever is still in flight between  *)
(* the threads.                                                            *)
StackOrdered ==
  dpc # "aborted" => \A v, w \in 1 .. exec : v < w => func[v] <= func[w]

(* The line of an interrupted handler is not overwritten while the worker  *)
(* keeps its place on the stack: a restart of that worker would run the    *)
(* wrong handler.                                                          *)
SlotsStable == [][\A w \in Workers : w <= exec /\ w <= exec' => func'[w] = func[w]]_vars

(* The dispatcher is never asleep with its status Working (which makes     *)
(* every further signal skip pthread_kill) unless a Resume is pending or   *)
(* the thread that set the status is about to send it.                     *)
WakeupCovered ==
  dpc = "asleep" /\ dstatus = "Working" =>
     \/ dresume
     \/ upc \in {"sigStore", "sigKill"}
     \/ \E e \in Executors : pc[e] \in {"sigStore", "sigKill"}

(* Once the dispatcher has left its waiting loop there is a request for it *)
(* to consume: the error "INVARIANT NOT RESPECTED: n_requests == 0" of     *)
(* _th_dispatcher cannot occur, and n_requests does not wrap around.       *)
RequestPending == dpc \in {"wake", "consume"} => nreq > 0

(* Every place on the stack has a worker whose thread was created, with    *)
(* one more in reserve between two requests.                               *)
StackHasWorkers ==
  /\ \A w \in 1 .. exec : pc[w] # "none"
  /\ dpc # "aborted" => exec < size

(***************************************************************************)
(* The logic of the dispatcher: what holds whenever all threads have       *)
(* settled, in a Paced system.                                             *)
(***************************************************************************)
Running(e) == pc[e] = "run" /\ e \notin stopped

(* "0 means None, K means workers[k-1] IS CURRENTLY EXECUTING": the worker *)
(* on top of the stack runs its handler and nothing else does; with an     *)
(* empty stack the main function runs, if it has not ended.                *)
ExecutingRuns ==
  Settled => \A e \in Executors :
               Running(e) <=> (e = exec /\ pc[e] # "ended")

(* The workers below the top are stopped inside their handlers, and so is  *)
(* the main function: Suspended and without a pending signal.              *)
InterruptedAreStopped ==
  Settled => \A e \in Executors : e < exec /\ pc[e] # "ended" =>
               /\ pc[e] = "run" /\ e \in stopped
               /\ status[e] = "Suspended"
               /\ e \notin suspends \union resumes

(* The workers that are not on the stack can be started: Done, waiting on  *)
(* their condition variables, with no pending signal to stop them.         *)
IdleWorkersWait ==
  Settled => \A w \in Workers : w > exec /\ w <= size =>
               /\ status[w] = "Done" /\ pc[w] = "wait"
               /\ w \notin stopped \union suspends \union resumes

(* In a Paced system the assertions on the main function hold (see         *)
(* AssertionsHold, virtual_interrupt.c:525 and 539): the process aborts    *)
(* only where _prepare_new_worker finds no memory for more workers.        *)
OnlyMemoryAborts == dpc = "aborted" => exec >= size

(* How many requests of line l are in the wait queue. *)
Waiting(l) == Cardinality({c \in 0 .. waiting.len - 1 : waiting.data[c] = l})

(* The dispatcher goes back to sleep only with nothing left to do: what    *)
(* was pushed to the channel was taken from it, and every call of          *)
(* vi_dispatcher_status_signal was answered.                               *)
ChannelDrained == Settled => ready = <<>> /\ nreq = 0

(* The requests f counts (accepted or served), numbered line by line.      *)
Requests(f) == UNION {{l} \X (1 .. f[l]) : l \in Lines}
Total(f) == Cardinality(Requests(f))

(* No accepted request is left in the channel, and the dispatcher keeps    *)
(* their number: a handler run was begun for each that does not wait, and  *)
(* none is lost unless more were accepted than the wait queue has room     *)
(* for.  The highest line in use is never deferred: it is served exactly   *)
(* as often as it was triggered.  (A lower line may not be: what           *)
(* minheap_push does not store is served as another line, see              *)
(* DeferredAreKept.)                                                       *)
RequestsAccounted ==
  /\ ChannelDrained
  /\ Settled =>
       /\ Total(served) + waiting.len <= Total(accepted)
       /\ Total(accepted) <= WaitCap => Total(served) + waiting.len = Total(accepted)
       /\ \A l \in Lines : (\A k \in Lines : k > l => accepted[k] = 0)
                              => served[l] = accepted[l]

(***************************************************************************)
(* Liveness of a Paced system whose handlers end.                          *)
(***************************************************************************)
(* For every accepted request a handler is run, unless the program crashes *)
(* before.                                                                 *)
RequestsServed ==
  \A n \in 1 .. Total(Budget) :
    Total(accepted) >= n ~> Total(served) >= n \/ Crashed

(* After the interrupts the main function always runs again, if it has not *)
(* ended.                                                                  *)
MainComesBack ==
  []<>(\/ exec = 0 /\ (Running(Main) \/ pc[Main] = "ended")
       \/ Crashed)

(***************************************************************************)
(* What the code says of itself and does not keep: each is the subject of  *)
(* a run that finds it violated.                                           *)
(***************************************************************************)
(* virtual_interrupt.c:539: the assertion that the main function is not    *)
(* Working while an executor is on the stack.                              *)
AssertionsHold == dpc # "aborted"

(* virtual_interrupt.c:352, "waiting for something to do": the dispatcher  *)
(* sleeps only when there is nothing to do, or it is about to be woken.    *)
SleepsOnlyWhenIdle ==
  dpc = "asleep" /\ nreq > 0 =>
    \/ dresume
    \/ upc \in {"sigXchg", "sigStore", "sigKill"}
    \/ \E e \in Executors : pc[e] \in {"sigXchg", "sigStore", "sigKill"}

(* virtual_interrupt.h:54: with K > 0, worker K is executing, once all     *)
(* threads have settled and every request was consumed (so that a request  *)
(* nobody was woken for, see SleepsOnlyWhenIdle, is not what is missing).  *)
TopIsExecuting == Settled /\ nreq = 0 /\ exec > 0 => Running(exec)

(* virtual_interrupt.c:494: a request of lower priority is saved "on a     *)
(* wait queue for later".                                                  *)
DeferredAreKept ==
  Settled => \A l \in Lines : accepted[l] <= served[l] + Waiting(l)
=============================================================================
