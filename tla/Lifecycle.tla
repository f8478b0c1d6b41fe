------------------------------- MODULE Lifecycle -------------------------------
(***************************************************************************)
(* Creation and destruction of the controller: vidispatcher_init_full and  *)
(* vidispatcher_destroy, with the threads they create and join and what    *)
(* can fail on the way.  What happens in between is the subject of         *)
(* VIDispatcher; here the calls after creation leave the workers in one of *)
(* the states of rest that module allows (Activity), and the dispatcher    *)
(* serves a request in one step (DispServe).  The main function does not   *)
(* return by itself and the workers memory does not grow.                  *)
(***************************************************************************)
EXTENDS Integers

CONSTANT Depth  \* conf.depth

ASSUME DepthAssumption == Depth \in Nat \ {0}

Main == 0
Workers == 1 .. Depth
Disp == Depth + 1
Threads == 0 .. Depth + 1

VARIABLES
  upc,        \* where the caller is; "aborted" after a failed assertion,
              \* "undefined" after a signal to a thread that never was
  ret,        \* the VIError of its last call
  i,          \* its loop counter over the workers
  creating,   \* vi_irq_worker_destroy is called from vi_irq_worker_init
  mem,        \* non_movable_data: "none", "local", "owned" by *dispatcher, "freed"
  out,        \* what the thread being created reports: "-1", "ok", "error"
  th,         \* where each thread is
  status,     \* working_status of each thread
  run,        \* the run flags of the dispatcher and the workers
  cancelled,  \* pthread_cancel was called for the main thread
  nreq,       \* n_requests
  dresume,    \* a Resume signal is pending for the dispatcher
  exec,       \* executing_worker
  before      \* how vidispatcher_destroy found the threads (history)

callVars == <<upc, ret, i, creating, out>>
dispVars == <<nreq, dresume, exec>>
vars == <<callVars, mem, th, status, run, cancelled, dispVars, before>>

Init ==
  /\ upc = "malloc" /\ ret = "None" /\ i = 0 /\ creating = FALSE
  /\ mem = "none" /\ out = "-1"
  /\ th = [t \in Threads |-> "none"]
  /\ status = [t \in Threads |-> "Init"]
  /\ run = [t \in Threads |-> FALSE]
  /\ cancelled = FALSE
  /\ nreq = 0 /\ dresume = FALSE /\ exec = 0
  /\ before = "none"

Caller(from, to) == upc = from /\ upc' = to
Goes(t, from, to) == th[t] = from /\ th' = [th EXCEPT ![t] = to]
Marks(t, mode) == status' = [status EXCEPT ![t] = mode]

(* A step of the caller that can fail: the error handling destroys a       *)
(* dispatcher that does not own anything yet, which does nothing.          *)
Fails(from, error) ==
  /\ Caller(from, "failed")
  /\ ret' = error
  /\ UNCHANGED <<i, creating, out, mem, th, status, run, cancelled, dispVars, before>>

(***************************************************************************)
(* vidispatcher_init_full.                                                 *)
(***************************************************************************)
InitMalloc ==
  /\ Caller("malloc", "signals")
  /\ mem' = "local"
  /\ UNCHANGED <<ret, i, creating, out, th, status, run, cancelled, dispVars, before>>

(* Without memory the result is still None, which the error handling       *)
(* asserts it is not.                                                      *)
InitMallocFail ==
  /\ Caller("malloc", "aborted")
  /\ UNCHANGED <<ret, i, creating, out, mem, th, status, run, cancelled, dispVars, before>>

InitSignals ==
  /\ Caller("signals", "mainCreate")
  /\ UNCHANGED <<ret, i, creating, out, mem, th, status, run, cancelled, dispVars, before>>

(* pthread_create for thread t. *)
Creates(t, from, to) ==
  /\ Caller(from, to)
  /\ Goes(t, "none", "begin")
  /\ Marks(t, "Init")
  /\ run' = [run EXCEPT ![t] = TRUE]
  /\ out' = "-1"
  /\ UNCHANGED <<ret, i, creating, mem, cancelled, dispVars, before>>

MainCreate == Creates(Main, "mainCreate", "mainSpin")

(* vi_main_logic_init polls until the thread has reported.                 *)
MainCreated ==
  /\ out = "ok"
  /\ Caller("mainSpin", "span")
  /\ UNCHANGED <<ret, i, creating, out, mem, th, status, run, cancelled, dispVars, before>>

MainCreateError ==
  /\ out = "error"
  /\ Caller("mainSpin", "failed")
  /\ Goes(Main, "ended", "joined")
  /\ ret' = "Error"
  /\ Marks(Main, "Working")
  /\ UNCHANGED <<i, creating, out, mem, run, cancelled, dispVars, before>>

InitSpan ==
  /\ Caller("span", "workerCreate")
  /\ i' = 1
  /\ UNCHANGED <<ret, creating, out, mem, th, status, run, cancelled, dispVars, before>>

WorkerCreate ==
  /\ i <= Depth
  /\ Creates(i, "workerCreate", "workerSpin")

WorkerCreated ==
  /\ out = "ok"
  /\ Caller("workerSpin", "workerCreate")
  /\ i' = i + 1
  /\ UNCHANGED <<ret, creating, out, mem, th, status, run, cancelled, dispVars, before>>

(* A worker that reports an error is destroyed, and the call goes on with  *)
(* the next: its own result is that of pthread_create.                     *)
WorkerCreateError ==
  /\ out = "error"
  /\ Caller("workerSpin", "stop")
  /\ creating' = TRUE
  /\ UNCHANGED <<ret, i, out, mem, th, status, run, cancelled, dispVars, before>>

InitReturn ==
  /\ i > Depth
  /\ Caller("workerCreate", "ready")
  /\ mem' = "owned"
  /\ UNCHANGED <<ret, i, creating, out, th, status, run, cancelled, dispVars, before>>

InitNext ==
  \/ InitMalloc \/ InitMallocFail \/ InitSignals \/ MainCreate \/ MainCreated
  \/ MainCreateError \/ InitSpan \/ WorkerCreate \/ WorkerCreated
  \/ WorkerCreateError \/ InitReturn
  \/ Fails("signals", "Libc") \/ Fails("mainCreate", "Libc")
  \/ Fails("span", "Queue") \/ (i <= Depth /\ Fails("workerCreate", "Libc"))

(***************************************************************************)
(* What the caller does with it: vidispatcher_start and triggers.          *)
(***************************************************************************)
(* The start of a main function that waits to be resumed.                  *)
Start ==
  /\ Caller("ready", "started")
  /\ th[Main] = "park"
  /\ th' = [th EXCEPT ![Main] = "run", ![Disp] = "check"]
  /\ status' = [status EXCEPT ![Main] = "Working", ![Disp] = "Working"]
  /\ run' = [run EXCEPT ![Disp] = TRUE]
  /\ UNCHANGED <<ret, i, creating, out, mem, cancelled, dispVars, before>>

(* Interrupts up to a depth of k: the worker on top runs, and the executors*)
(* below it, the main function (thread 0) among them, are stopped and      *)
(* Suspended (ExecutingRuns, InterruptedAreStopped).                       *)
Activity(k) ==
  /\ upc = "started" /\ exec = 0
  /\ th[Disp] = "asleep" /\ th[Main] = "run"
  /\ \A w \in 1 .. k : th[w] = "wait"
  /\ exec' = k
  /\ th' = [t \in Threads |-> IF t = k THEN "run" ELSE IF t < k THEN "stopped" ELSE th[t]]
  /\ status' = [t \in Threads |-> IF t = k THEN "Working" ELSE IF t < k THEN "Suspended"
                                  ELSE status[t]]
  /\ UNCHANGED <<callVars, mem, run, cancelled, nreq, dresume, before>>

(***************************************************************************)
(* vidispatcher_destroy.                                                   *)
(***************************************************************************)
(* The threads are "calm" when no handler runs, the dispatcher sleeps and  *)
(* each worker can be woken; "late" when a worker has yet to store its     *)
(* status for the first time.                                              *)
Found == IF \E w \in Workers : status[w] = "Init" THEN "late"
         ELSE IF /\ exec = 0 /\ th[Disp] = "asleep" /\ ~dresume
                 /\ \A w \in Workers : th[w] = "wait" THEN "calm" ELSE "busy"

(* vi_main_logic_destroy: resume it, cancel it, ... *)
Destroy ==
  /\ upc \in {"ready", "started"}
  /\ upc' = "mainJoin"
  /\ before' = Found
  /\ Marks(Main, "Working")
  /\ th' = IF th[Main] = "stopped" /\ status[Main] # "Working"
             THEN [th EXCEPT ![Main] = "run"] ELSE th
  /\ cancelled' = TRUE
  /\ UNCHANGED <<ret, i, creating, out, mem, run, dispVars>>

(* ... and join it. *)
MainJoin ==
  /\ Caller("mainJoin", "dispStop")
  /\ Goes(Main, "ended", "joined")
  /\ Marks(Main, "Dead")
  /\ UNCHANGED <<ret, i, creating, out, mem, run, cancelled, dispVars, before>>

(* vi_dispatcher_status_signal in one step. *)
SignalDispatcher ==
  /\ nreq' = nreq + 1
  /\ dresume' = (dresume \/ status[Disp] # "Working")

(* vi_dispatcher_status_destroy; without a dispatcher thread it signals a  *)
(* thread that was never created.                                          *)
DispStop ==
  /\ Caller("dispStop", IF th[Disp] = "none" THEN "undefined" ELSE "dispSignal")
  /\ run' = [run EXCEPT ![Disp] = FALSE]
  /\ UNCHANGED <<ret, i, creating, out, mem, th, status, cancelled, dispVars, before>>

DispSignal ==
  /\ Caller("dispSignal", "dispWait")
  /\ SignalDispatcher
  /\ Marks(Disp, "Working")
  /\ UNCHANGED <<ret, i, creating, out, mem, th, run, cancelled, exec, before>>

DispJoin ==
  /\ status[Disp] = "Dead"
  /\ Caller("dispWait", "next")
  /\ Goes(Disp, "ended", "joined")
  /\ Marks(Disp, "Working")
  /\ i' = 1
  /\ UNCHANGED <<ret, creating, out, mem, run, cancelled, dispVars, before>>

(* A loop that takes a worker at rest for one that has ended. *)
DestroyedAlreadyIdle(w) == status[w] \in {"Init", "Dead", "Done"}

(* The loop over the workers leaves out those in Init and Dead.            *)
DestroyedAlready(w) == status[w] \in {"Init", "Dead"}

(* A loop that goes one worker too far. *)
NextWorkerBeyond ==
  /\ i <= Depth + 1
  /\ IF DestroyedAlready(i) THEN i' = i + 1 /\ UNCHANGED upc
                            ELSE Caller("next", "stop") /\ UNCHANGED i
  /\ upc = "next"
  /\ UNCHANGED <<ret, creating, out, mem, th, status, run, cancelled, dispVars, before>>

NextWorker ==
  /\ i <= Depth
  /\ IF DestroyedAlready(i) THEN i' = i + 1 /\ UNCHANGED upc
                            ELSE Caller("next", "stop") /\ UNCHANGED i
  /\ upc = "next"
  /\ UNCHANGED <<ret, creating, out, mem, th, status, run, cancelled, dispVars, before>>

(* vi_irq_worker_destroy: clear run, resume, poll until Dead, join.        *)
WorkerStop ==
  /\ Caller("stop", "resume")
  /\ run' = [run EXCEPT ![i] = FALSE]
  /\ UNCHANGED <<ret, i, creating, out, mem, th, status, cancelled, dispVars, before>>

(* A worker that waits for a condition is sent a Resume signal instead.    *)
WorkerCondKilled ==
  /\ Caller("resume", "dead")
  /\ status[i] = "Done"
  /\ Marks(i, "Working")
  /\ UNCHANGED <<ret, i, creating, out, mem, th, run, cancelled, dispVars, before>>

WorkerCond ==
  /\ Caller("resume", "dead")
  /\ status[i] = "Done"
  /\ th' = [th EXCEPT ![i] = IF @ = "wait" THEN "woken" ELSE @]
  /\ UNCHANGED <<ret, i, creating, out, mem, status, run, cancelled, dispVars, before>>

WorkerResume ==
  /\ Caller("resume", "dead")
  /\ status[i] # "Done"
  /\ Marks(i, "Working")
  /\ th' = [th EXCEPT ![i] = IF @ = "stopped" THEN "run" ELSE @]
  /\ UNCHANGED <<ret, i, creating, out, mem, run, cancelled, dispVars, before>>

(* The resume before the join overwrites Dead. *)
WorkerJoin ==
  /\ status[i] = "Dead"
  /\ Caller("dead", IF creating THEN "workerCreate" ELSE "next")
  /\ Goes(i, "ended", "joined")
  /\ Marks(i, "Working")
  /\ creating' = FALSE
  /\ i' = i + 1
  /\ UNCHANGED <<ret, out, mem, run, cancelled, dispVars, before>>

Free ==
  /\ i > Depth
  /\ Caller("next", "destroyed")
  /\ mem' = "freed"
  /\ UNCHANGED <<ret, i, creating, out, th, status, run, cancelled, dispVars, before>>

DestroyNext ==
  \/ MainJoin \/ DispStop \/ DispSignal \/ DispJoin \/ NextWorker \/ WorkerStop
  \/ WorkerCond \/ WorkerResume \/ WorkerJoin \/ Free

(***************************************************************************)
(* The threads.                                                            *)
(***************************************************************************)
threadFrame == <<upc, ret, i, creating, mem, run, cancelled, before>>

(* The main function's thread: initialisation, and cancellation, for which *)
(* sigsuspend and the calls of the wasm code are cancellation points.      *)
(* A report that the caller never gets. *)
MainInitSilent ==
  /\ Goes(Main, "begin", "report")
  /\ UNCHANGED <<threadFrame, out, status, dispVars>>

MainInitOk ==
  /\ Goes(Main, "begin", "report")
  /\ out' = "ok"
  /\ UNCHANGED <<threadFrame, status, dispVars>>

MainInitError ==
  /\ Goes(Main, "begin", "ended")
  /\ out' = "error"
  /\ UNCHANGED <<threadFrame, status, dispVars>>

(* Without an execution environment the cleanup handler's assertion fails. *)
MainInitAbort ==
  /\ th[Main] = "begin"
  /\ upc' = "aborted"
  /\ UNCHANGED <<ret, i, creating, out, mem, th, status, run, cancelled, dispVars, before>>

MainPark ==
  /\ Goes(Main, "report", "park")
  /\ Marks(Main, "Suspended")
  /\ UNCHANGED <<threadFrame, out, dispVars>>

MainCancel ==
  /\ cancelled
  /\ th[Main] \in {"park", "run", "stopped"}
  /\ th' = [th EXCEPT ![Main] = "ended"]
  /\ UNCHANGED <<threadFrame, out, status, dispVars>>

MainNext == MainInitOk \/ MainInitError \/ MainInitAbort \/ MainPark \/ MainCancel

(* A worker's thread. *)
WorkerInitOk(w) ==
  /\ Goes(w, "begin", "report")
  /\ out' = "ok"
  /\ UNCHANGED <<threadFrame, status, dispVars>>

WorkerInitError(w) ==
  /\ Goes(w, "begin", "cleanup")
  /\ out' = "error"
  /\ UNCHANGED <<threadFrame, status, dispVars>>

WorkerReport(w) ==
  /\ Goes(w, "report", "lock")
  /\ Marks(w, "Done")
  /\ UNCHANGED <<threadFrame, out, dispVars>>

WorkerWait(w) ==
  /\ Goes(w, "lock", "wait")
  /\ UNCHANGED <<threadFrame, out, status, dispVars>>

WorkerWoken(w) ==
  /\ Goes(w, "woken", IF run[w] THEN "run" ELSE "cleanup")
  /\ Marks(w, "Working")
  /\ UNCHANGED <<threadFrame, out, dispVars>>

WorkerEnd(w) ==
  /\ Goes(w, "run", "signal")
  /\ Marks(w, "Done")
  /\ UNCHANGED <<threadFrame, out, dispVars>>

WorkerSignal(w) ==
  /\ Goes(w, "signal", "lock")
  /\ SignalDispatcher
  /\ Marks(Disp, "Working")
  /\ UNCHANGED <<threadFrame, out, exec>>

WorkerCleanup(w) ==
  /\ Goes(w, "cleanup", "ended")
  /\ Marks(w, "Dead")
  /\ UNCHANGED <<threadFrame, out, dispVars>>

WorkerNext(w) ==
  \/ WorkerInitOk(w) \/ WorkerInitError(w) \/ WorkerReport(w) \/ WorkerWait(w)
  \/ WorkerWoken(w) \/ WorkerEnd(w) \/ WorkerSignal(w) \/ WorkerCleanup(w)

(* The dispatcher's thread. *)
DispCheck ==
  /\ Goes(Disp, "check", IF nreq = 0 THEN "park" ELSE "wake")
  /\ UNCHANGED <<threadFrame, out, status, dispVars>>

DispPark ==
  /\ Goes(Disp, "park", "asleep")
  /\ Marks(Disp, "Suspended")
  /\ UNCHANGED <<threadFrame, out, dispVars>>

DispAwake ==
  /\ dresume
  /\ Goes(Disp, "asleep", "check")
  /\ dresume' = FALSE
  /\ UNCHANGED <<threadFrame, out, status, nreq, exec>>

DispWake ==
  /\ Goes(Disp, "wake", "consume")
  /\ Marks(Disp, "Working")
  /\ UNCHANGED <<threadFrame, out, dispVars>>

(* It ends when it finds run cleared, before or after the request.         *)
DispEnd ==
  /\ ~run[Disp]
  /\ \/ Goes(Disp, "consume", "ended") /\ UNCHANGED nreq
     \/ Goes(Disp, "serve", "ended") /\ UNCHANGED nreq
  /\ Marks(Disp, "Dead")
  /\ UNCHANGED <<threadFrame, out, dresume, exec>>

DispConsume ==
  /\ run[Disp]
  /\ Goes(Disp, "consume", "serve")
  /\ nreq' = nreq - 1
  /\ UNCHANGED <<threadFrame, out, status, dresume, exec>>

(* The executors that have ended are taken off the stack, and the one then *)
(* on top goes on.                                                         *)
DispServe ==
  LET Ended(k) == \A w \in k + 1 .. exec : status[w] = "Done"
      top == CHOOSE k \in 0 .. exec : Ended(k) /\ (k = 0 \/ ~Ended(k - 1))
      goesOn == \/ top < exec /\ top > 0 /\ status[top] # "Working"
                \/ top = 0 /\ status[Main] = "Suspended"
  IN /\ run[Disp]
     /\ th[Disp] = "serve"
     /\ exec' = top
     /\ th' = [th EXCEPT ![Disp] = "check",
                         ![top] = IF goesOn /\ @ = "stopped" THEN "run" ELSE @]
     /\ status' = IF goesOn THEN [status EXCEPT ![top] = "Working"] ELSE status
     /\ UNCHANGED <<threadFrame, out, nreq, dresume>>

DispNext == \/ DispCheck \/ DispPark \/ DispAwake \/ DispWake \/ DispEnd
            \/ DispConsume \/ DispServe

-----------------------------------------------------------------------------
Crashed == upc \in {"aborted", "undefined"}

Next == /\ ~Crashed
        /\ \/ InitNext \/ Start \/ Destroy \/ DestroyNext
           \/ \E k \in 1 .. Depth - 1 : Activity(k)
           \/ MainNext \/ DispNext
           \/ \E w \in Workers : WorkerNext(w)

Spec == Init /\ [][Next]_vars

(* Every thread gets to run, and so does the caller inside a call; it is   *)
(* free to make its next call at any time or never.                        *)
FairSpec == /\ Spec
            /\ WF_vars(~Crashed /\ InitNext)
            /\ WF_vars(~Crashed /\ DestroyNext)
            /\ WF_vars(~Crashed /\ MainNext)
            /\ WF_vars(~Crashed /\ DispNext)
            /\ \A w \in Workers : WF_vars(~Crashed /\ WorkerNext(w))

-----------------------------------------------------------------------------
(* Every variable keeps its type, and the loops over the workers stay      *)
(* inside the workers memory.                                              *)
TypeOK ==
  /\ upc \in {"malloc", "signals", "mainCreate", "mainSpin", "span", "workerCreate",
              "workerSpin", "ready", "started", "mainJoin", "dispStop", "dispSignal",
              "dispWait", "next", "stop", "resume", "dead", "destroyed", "failed",
              "aborted", "undefined"}
  /\ ret \in {"None", "Libc", "Queue", "Error"}
  /\ i \in 0 .. Depth + 1
  /\ creating \in BOOLEAN /\ cancelled \in BOOLEAN /\ dresume \in BOOLEAN
  /\ mem \in {"none", "local", "owned", "freed"}
  /\ out \in {"-1", "ok", "error"}
  /\ th \in [Threads -> {"none", "begin", "report", "park", "run", "stopped", "lock",
                         "wait", "woken", "signal", "cleanup", "check", "asleep",
                         "wake", "consume", "serve", "ended", "joined"}]
  /\ status \in [Threads -> {"Init", "Working", "Suspended", "Done", "Dead"}]
  /\ run \in [Threads -> BOOLEAN]
  /\ nreq \in 0 .. Depth
  /\ exec \in 0 .. Depth - 1
  /\ before \in {"none", "late", "busy", "calm"}
  /\ upc \in {"workerSpin", "stop", "resume", "dead"} => i \in Workers

(* The memory of the threads is freed only when every thread that was      *)
(* created has been joined, whatever the threads do at that time, provided *)
(* each worker had stored its first status when destruction began.         *)
FreedAfterJoin ==
  mem = "freed" /\ before # "late" => \A t \in Threads : th[t] \in {"none", "joined"}

(* Creation ends, in success, an error or a failed assertion, unless a     *)
(* worker that reported an error is destroyed: then it may wait for ever   *)
(* for a Dead that the resume in vi_irq_worker_destroy has overwritten.    *)
CreationReturns ==
  upc = "malloc" ~> upc \in {"ready", "failed", "aborted"} \/ creating

(* Destruction of a calm controller ends.                                  *)
DestructionReturns == before = "calm" ~> upc = "destroyed"
=============================================================================
