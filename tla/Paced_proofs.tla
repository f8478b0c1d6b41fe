---------------------------- MODULE Paced_proofs ----------------------------
(***************************************************************************)
(* Proofs about VIDispatcher in a Paced system, for every number of lines, *)
(* workers and triggers: at rest the worker on top of the stack runs its   *)
(* handler and nothing else does, the ones below it are stopped, the ones  *)
(* above it can be started, and the channel is empty; every accepted       *)
(* request led to one run of a handler or waits, unless the wait queue was *)
(* full, and the highest line in use is never deferred.                    *)
(*                                                                         *)
(* The invariant says in which role each executor is.  A role covers all   *)
(* the states an executor goes through by itself, so that it outlives the  *)
(* steps of the executors' own threads and the delivery of their signals;  *)
(* only a step of the dispatcher, or the end of a handler, changes roles,  *)
(* and in a Paced system it finds every executor where its role ends.      *)
(***************************************************************************)
EXTENDS VIDispatcher_proofs, FiniteSetTheorems

Untouched(e) == e \notin suspends /\ e \notin resumes /\ e \notin stopped

(* It is in wasm code, or stopped there with a Resume that is pending. *)
Runs(e) == /\ pc[e] = "run" /\ status[e] = "Working"
           /\ e \notin suspends
           /\ e \in stopped <=> e \in resumes

(* A worker on its way from the condition variable to its handler. *)
Starts(e) == /\ Untouched(e)
             /\ \/ pc[e] \in {"woken", "locked"} /\ status[e] = "Done"
                \/ pc[e] = "fetch" /\ status[e] = "Working"

(* The main function, on its way from its return to the end of its thread. *)
Ends(e) == /\ e = Main
           /\ \/ pc[e] = "ended" /\ e \notin stopped
              \/ /\ pc[e] \in {"sigAdd", "sigXchg", "sigStore", "sigKill", "end"}
                 /\ Untouched(e)

(* It has the processor to itself. *)
Works(e) == Runs(e) \/ Starts(e) \/ Ends(e)

(* It is stopped in wasm code, or a pending Suspend will stop it. *)
Halts(e) == /\ pc[e] = "run" /\ status[e] = "Suspended"
            /\ e \notin resumes
            /\ e \in stopped <=> e \notin suspends

(* What an interrupted executor is: stopped, or an ended main function. *)
Below(e) == \/ Halts(e)
            \/ /\ e = Main /\ pc[e] = "ended" /\ e \notin stopped
               /\ status[e] = "Suspended"

(* Stopped, and marked Working by a Resume that is about to be sent. *)
Held(e) == /\ pc[e] = "run" /\ status[e] = "Working"
           /\ e \notin suspends /\ e \notin resumes /\ e \in stopped

(* A worker that waits, or will, on its condition variable. *)
Rests(e) == /\ Untouched(e)
            /\ \/ pc[e] = "init" /\ status[e] = "Init"
               \/ pc[e] \in {"lock", "holds", "wait"} /\ status[e] = "Done"

(* A worker the memory has no room for yet. *)
Absent(e) == Untouched(e) /\ pc[e] = "none" /\ status[e] = "Init"

(* The main function after vidispatcher_start has sent it Resume. *)
Comes(e) == \/ /\ pc[e] \in {"init", "park"}
               /\ e \in resumes /\ e \notin suspends /\ e \notin stopped
            \/ pc[e] = "begin" /\ Untouched(e)
            \/ Runs(e)

(* And before that. *)
Parks(e) == /\ Untouched(e)
            /\ \/ pc[e] = "init" /\ status[e] = "Init"
               \/ pc[e] = "park" /\ status[e] = "Suspended"
Parked(e) == Untouched(e) /\ pc[e] \in {"init", "park"}

(* A worker on its way from the end of its handler to the condition        *)
(* variable, which wakes the dispatcher.                                   *)
Leaves(w) ==
  /\ w # Main /\ Untouched(w) /\ upc \in {"idle", "gaveUp"}
  /\ \/ /\ \/ pc[w] = "done" /\ status[w] = "Working"
           \/ pc[w] = "sigAdd" /\ status[w] = "Done"
        /\ ~dresume /\ dstatus # "Working"
     \/ /\ pc[w] = "sigXchg" /\ status[w] = "Done"
        /\ ~dresume /\ dstatus # "Working" /\ nreq > 0
     \/ pc[w] \in {"sigStore", "sigKill"} /\ status[w] = "Done" /\ nreq > 0
     \/ Rests(w) /\ dresume /\ nreq > 0

-----------------------------------------------------------------------------
(* The executors under the one with number n are interrupted. *)
Deep(n) == \A e \in Executors : e < n => Below(e)

(* vidispatcher_start, before the dispatcher has its first turn. *)
Starting ==
  /\ dpc = "none" =>
       /\ upc \in Unborn \union {"gaveUp"}
       /\ exec = 0
       /\ IF upc = "start" THEN Parks(Main)
          ELSE IF upc = "startKill" THEN Parked(Main) ELSE Comes(Main)
  /\ dpc = "begin" => exec = 0 /\ Comes(Main)
  /\ dpc # "none" => upc \notin Unborn

(* The executors up to the top of the stack, by where the dispatcher is. *)
Stacked ==
  /\ dpc \in {"check", "park", "asleep", "wake", "consume", "unwind", "resume",
              "resumeCond", "resumeXchg", "resumeKill", "pop", "start",
              "startCond", "assert", "settle", "mainXchg", "mainKill",
              "report"} => Deep(exec)
  /\ dpc \in {"park", "report"} => Works(exec)
  /\ dpc = "asleep" => Works(exec) \/ Leaves(exec)
  /\ dpc \in {"check", "wake", "consume"} =>
       Works(exec) \/ (exec > 0 /\ Rests(exec) /\ nreq > 0)
  /\ dpc = "unwind" => IF finish THEN Below(exec)
                       ELSE Works(exec) \/ (exec > 0 /\ Rests(exec))
  /\ dpc = "resume" => exec > 0 /\ (Halts(exec) \/ Rests(exec))
  /\ dpc \in {"resumeCond", "start", "startCond"} => exec > 0 /\ Rests(exec)
  /\ dpc = "resumeXchg" => exec > 0 /\ Halts(exec)
  /\ dpc = "resumeKill" => exec > 0 /\ Held(exec)
  /\ dpc \in {"pop", "assert", "settle"} => Works(exec) \/ (exec = 0 /\ Below(Main))
  /\ dpc \in {"suspMain", "suspMainW", "suspOld", "suspXchg", "assertW"} =>
       exec > 0 /\ Rests(exec) /\ Deep(exec - 1)
  /\ dpc \in {"suspMain", "suspMainW"} =>
       Works(exec - 1) \/ (exec = 1 /\ Below(Main))
  /\ dpc \in {"suspOld", "suspXchg"} => exec > 1 /\ Works(exec - 1)
  /\ dpc = "suspMainW" => exec = 1
  /\ dpc = "assertW" => exec = 1 /\ Below(Main)
  /\ dpc = "mainXchg" => exec = 0 /\ Below(Main)
  /\ dpc = "mainKill" => exec = 0 /\ (Held(Main) \/ Ends(Main))

(* The workers above it. *)
Spare == \A w \in Workers : /\ w > size => Absent(w)
                            /\ w > exec /\ w <= size => Rests(w)

PacedInv == /\ ~Crashed => Starting /\ Stacked /\ Spare
            /\ OnlyMemoryAborts

-----------------------------------------------------------------------------
(***************************************************************************)
(* The executors' own steps keep the roles.                                *)
(***************************************************************************)
(* A step that does not touch executor e. *)
Same(e) == /\ pc'[e] = pc[e] /\ status'[e] = status[e]
           /\ e \in suspends' <=> e \in suspends
           /\ e \in resumes' <=> e \in resumes
           /\ e \in stopped' <=> e \in stopped

(* A step after which e is in the role it was in. *)
InRole(e) == /\ Works(e) => Works(e)'
             /\ Below(e) => Below(e)'
             /\ Halts(e) => Halts(e)'
             /\ Held(e) => Held(e)'
             /\ Ends(e) => Ends(e)'
             /\ e # Main /\ Rests(e) => Rests(e)'
             /\ Absent(e) => Absent(e)'
             /\ e = Main /\ Comes(e) => Comes(e)'

LEMMA SameInRole == ASSUME NEW e \in Executors, Same(e) PROVE InRole(e)
BY DEF Same, InRole, Works, Below, Halts, Held, Ends, Rests, Absent, Comes, Runs,
       Starts, Untouched

(* A step of e's own thread, or the delivery of a signal to it. *)
OwnNext(e) == \/ ExecutorNext(e) /\ ~SignalNobody(e)
              \/ e = Main /\ MainNext
              \/ e \in Workers /\ WorkerNext(e)

LEMMA OwnSame ==
  ASSUME ThreadsOK, NEW e \in Executors, OwnNext(e), NEW d \in Executors, d # e
  PROVE  Same(d)
<1>1. pc \in [Executors -> MainPcs \union WorkerPcs] /\ status \in [Executors -> Statuses]
  BY DEF ThreadsOK
<1> USE <1>1 DEF Same, userVars, threadVars, signalVars, Goes, Marks
<1>2. CASE ExecutorNext(e) /\ ~SignalNobody(e)
  BY <1>2
  DEF ExecutorNext, DeliverSuspend, DeliverResume, SignalCount, SignalMark,
      SignalStore, SignalWake
<1>3. CASE e = Main /\ MainNext
  BY <1>3 DEF MainNext, MainPark, MainUnpark, MainBegin, MainEnd
<1>4. CASE e \in Workers /\ WorkerNext(e)
  BY <1>4
  DEF WorkerNext, WorkerReady, WorkerTake, WorkerWait, WorkerLock, WorkerUnlock,
      WorkerCall, WorkerDone
<1>5. QED BY <1>2, <1>3, <1>4 DEF OwnNext

LEMMA OwnInRole ==
  ASSUME ThreadsOK, NEW e \in Executors, OwnNext(e)
  PROVE  InRole(e)
<1>1. pc \in [Executors -> MainPcs \union WorkerPcs] /\ status \in [Executors -> Statuses]
  BY DEF ThreadsOK
<1> USE <1>1
    DEF InRole, Works, Below, Halts, Held, Ends, Rests, Absent, Comes, Runs, Starts,
        Untouched, userVars, threadVars, signalVars, Goes, Marks
<1>2. CASE ExecutorNext(e) /\ ~SignalNobody(e)
  <2>1. CASE DeliverSuspend(e)
    BY <2>1 DEF DeliverSuspend, SuspendDue
  <2>2. CASE DeliverResume(e)
    BY <2>2 DEF DeliverResume, ResumeDue
  <2>3. CASE SignalCount(e)
    BY <2>3 DEF SignalCount
  <2>4. CASE SignalMark(e)
    BY <2>4 DEF SignalMark, AfterSignal
  <2>5. CASE SignalStore(e)
    BY <2>5 DEF SignalStore
  <2>6. CASE SignalWake(e)
    BY <2>6 DEF SignalWake, AfterSignal
  <2>7. QED BY <1>2, <2>1, <2>2, <2>3, <2>4, <2>5, <2>6 DEF ExecutorNext
<1>3. CASE e = Main /\ MainNext
  <2>1. CASE MainPark BY <1>3, <2>1 DEF MainPark
  <2>2. CASE MainUnpark BY <1>3, <2>2 DEF MainUnpark
  <2>3. CASE MainBegin BY <1>3, <2>3 DEF MainBegin
  <2>4. CASE MainEnd BY <1>3, <2>4 DEF MainEnd
  <2>5. QED BY <1>3, <2>1, <2>2, <2>3, <2>4 DEF MainNext
<1>4. CASE e \in Workers /\ WorkerNext(e)
  <2>0. e # Main
    BY <1>4, Constant
  <2>1. CASE WorkerReady(e) BY <2>0, <2>1 DEF WorkerReady
  <2>2. CASE WorkerTake(e) BY <2>0, <2>2 DEF WorkerTake
  <2>3. CASE WorkerWait(e) BY <2>0, <2>3 DEF WorkerWait
  <2>4. CASE WorkerLock(e) BY <2>0, <2>4 DEF WorkerLock
  <2>5. CASE WorkerUnlock(e) BY <2>0, <2>5 DEF WorkerUnlock
  <2>6. CASE WorkerCall(e) BY <2>0, <2>6 DEF WorkerCall
  <2>7. CASE WorkerDone(e) BY <2>0, <2>7 DEF WorkerDone
  <2>8. QED BY <1>4, <2>1, <2>2, <2>3, <2>4, <2>5, <2>6, <2>7 DEF WorkerNext
<1>5. QED BY <1>2, <1>3, <1>4 DEF OwnNext

(* The executors' steps move nothing of the dispatcher's, and only one     *)
(* that ends its work signals the dispatcher.                              *)
LEMMA OwnFrame ==
  ASSUME CountersOK, NEW e \in Executors, OwnNext(e)
  PROVE  /\ UNCHANGED <<userVars, stackVars, dispVars>>
         /\ nreq > 0 => nreq' > 0
         /\ Below(e) \/ (e # Main /\ (Rests(e) \/ Absent(e))) => UNCHANGED wakeVars
<1>1. nreq \in Nat
  BY DEF CountersOK
<1> USE <1>1
    DEF userVars, threadVars, signalVars, wakeVars, stackVars, irqVars, queueVars,
        historyVars, dispVars, Goes, CountRequest, MarkWorking, Wake
<1>2. CASE ExecutorNext(e) /\ ~SignalNobody(e)
  BY <1>2
  DEF ExecutorNext, DeliverSuspend, DeliverResume, SignalCount, SignalMark,
      SignalStore, SignalWake, Below, Halts, Rests, Absent
<1>3. CASE e = Main /\ MainNext
  BY <1>3 DEF MainNext, MainPark, MainUnpark, MainBegin, MainEnd
<1>4. CASE e \in Workers /\ WorkerNext(e)
  BY <1>4
  DEF WorkerNext, WorkerReady, WorkerTake, WorkerWait, WorkerLock, WorkerUnlock,
      WorkerCall, WorkerDone
<1>5. QED BY <1>2, <1>3, <1>4 DEF OwnNext

(* While the dispatcher does not exist, the main function waits for its    *)
(* first Resume or is on its way to its wasm code.                         *)
LEMMA OwnParked ==
  ASSUME ThreadsOK, NEW e \in Executors, OwnNext(e)
  PROVE  /\ Parks(Main) => Parks(Main)'
         /\ Parked(Main) => Parked(Main)'
<1>1. pc \in [Executors -> MainPcs \union WorkerPcs] /\ status \in [Executors -> Statuses]
  BY DEF ThreadsOK
<1>2. CASE e # Main
  <2>1. Same(Main)
    BY <1>2, OwnSame, Constant
  <2>2. QED BY <2>1 DEF Same, Parks, Parked, Untouched
<1>3. CASE e = Main
  <2> USE <1>1, <1>3, Constant
      DEF Parks, Parked, Untouched, userVars, threadVars, signalVars, Goes, Marks
  <2>1. CASE ExecutorNext(Main) /\ ~SignalNobody(Main)
    BY <2>1
    DEF ExecutorNext, DeliverSuspend, SuspendDue, DeliverResume, ResumeDue,
        SignalCount, SignalMark, SignalStore, SignalWake
  <2>2. CASE MainNext
    BY <2>2 DEF MainNext, MainPark, MainUnpark, MainBegin, MainEnd
  <2>3. QED BY <2>1, <2>2 DEF OwnNext
<1>4. QED BY <1>2, <1>3

(* A worker that leaves wakes the dispatcher, if nobody else can.          *)
LEMMA OwnLeaves ==
  ASSUME ThreadsOK, CountersOK, NEW e \in Workers, OwnNext(e), Leaves(e)
  PROVE  Leaves(e)'
<1>1. /\ pc \in [Executors -> MainPcs \union WorkerPcs]
      /\ status \in [Executors -> Statuses] /\ nreq \in Nat /\ e \in Executors
      /\ e # Main
  BY Constant DEF ThreadsOK, CountersOK
<1> USE <1>1
    DEF Leaves, Untouched, userVars, threadVars, signalVars, wakeVars, Goes, Marks
<1>2. CASE ExecutorNext(e) /\ ~SignalNobody(e)
  <2>1. CASE DeliverSuspend(e) \/ DeliverResume(e)
    BY <2>1 DEF DeliverSuspend, DeliverResume, SuspendDue, ResumeDue, Rests
  <2>2. CASE SignalCount(e)
    BY <2>2 DEF SignalCount, CountRequest, Rests
  <2>3. CASE SignalMark(e)
    BY <2>3 DEF SignalMark, MarkWorking, Rests
  <2>4. CASE SignalStore(e)
    BY <2>4 DEF SignalStore, MarkWorking, Rests
  <2>5. CASE SignalWake(e)
    BY <2>5 DEF SignalWake, Wake, AfterSignal, Rests
  <2>6. QED BY <1>2, <2>1, <2>2, <2>3, <2>4, <2>5 DEF ExecutorNext
<1>3. CASE WorkerNext(e)
  <2> USE DEF Rests
  <2>1. CASE WorkerReady(e) BY <2>1 DEF WorkerReady
  <2>2. CASE WorkerTake(e) BY <2>2 DEF WorkerTake
  <2>3. CASE WorkerWait(e) BY <2>3 DEF WorkerWait
  <2>4. CASE WorkerLock(e) BY <2>4 DEF WorkerLock
  <2>5. CASE WorkerUnlock(e) BY <2>5 DEF WorkerUnlock
  <2>6. CASE WorkerCall(e) BY <2>6 DEF WorkerCall
  <2>7. CASE WorkerDone(e) BY <2>7 DEF WorkerDone
  <2>8. QED BY <1>3, <2>1, <2>2, <2>3, <2>4, <2>5, <2>6, <2>7 DEF WorkerNext
<1>4. QED BY <1>2, <1>3 DEF OwnNext

(* Everything the invariant is about but the roles stays as it is. *)
Still == /\ UNCHANGED <<dpc, exec, size, finish>>
         /\ nreq > 0 => nreq' > 0

(* A step that keeps every executor in its role keeps the invariant. *)
LEMMA RolesKept ==
  ASSUME CountersOK, Stacked, Spare, Still, \A d \in Executors : InRole(d),
         dpc = "asleep" /\ Leaves(exec) => Leaves(exec)'
  PROVE  Stacked' /\ Spare'
<1>1. /\ exec \in Executors /\ (exec > 0 => exec # Main)
      /\ (exec > 1 => exec - 1 \in Executors) /\ (exec = 1 => exec - 1 = Main)
      /\ exec \in Nat
      /\ (nreq > 0 => nreq' > 0)
      /\ UNCHANGED <<dpc, exec, size, finish>>
      /\ Main \in Executors
  BY OnTheStack, Constant DEF Still, CountersOK, Main
<1>2. /\ Deep(exec) => Deep(exec)'
      /\ Deep(exec - 1) => Deep(exec - 1)'
  BY <1>1 DEF Deep, InRole
<1>3. /\ Works(exec) => Works(exec)'
      /\ Below(exec) => Below(exec)'
      /\ Halts(exec) => Halts(exec)'
      /\ Held(exec) => Held(exec)'
      /\ exec > 0 /\ Rests(exec) => Rests(exec)'
      /\ exec > 0 /\ Works(exec - 1) => Works(exec - 1)'
      /\ Below(Main) => Below(Main)'
      /\ Held(Main) => Held(Main)'
      /\ Ends(Main) => Ends(Main)'
  BY <1>1 DEF InRole
<1>4. Stacked'
  BY <1>1, <1>2, <1>3 DEF Stacked
<1>5. Spare'
  BY <1>1, Constant DEF Spare, InRole
<1>6. QED BY <1>4, <1>5

(* What the others do while the worker on top leaves does not touch it,    *)
(* nor wake the dispatcher: they are interrupted or idle.                  *)
LEMMA LeavesKept ==
  ASSUME ThreadsOK, CountersOK, Room, ~Crashed, Stacked, Spare, dpc = "asleep",
         Leaves(exec), NEW e \in Executors, OwnNext(e)
  PROVE  Leaves(exec)'
<1>1. /\ exec \in Workers /\ exec \in Executors
      /\ UNCHANGED <<upc, exec>>
  BY OnTheStack, OwnFrame DEF Leaves, Executors, userVars, stackVars
<1>2. CASE e = exec
  <2>1. Leaves(e)'
    BY <1>1, <1>2, OwnLeaves
  <2>2. QED BY <1>1, <1>2, <2>1
<1>3. CASE e # exec
  <2>1. e < exec => Below(e)
    BY DEF Stacked, Deep
  <2>2. e > exec => e # Main /\ (Rests(e) \/ Absent(e))
    <3>1. e \in Nat /\ exec \in Nat /\ size \in Nat
      BY <1>1, Constant DEF CountersOK
    <3>2. e > exec => e \in Workers
      BY <3>1, <1>1 DEF Executors, Main
    <3>3. QED BY <3>1, <3>2, Constant DEF Spare
  <2>3. e < exec \/ e > exec
    BY <1>1, <1>3, Constant
  <2>4. UNCHANGED wakeVars /\ Same(exec)
    BY <1>1, <1>3, <2>1, <2>2, <2>3, OwnFrame, OwnSame
  <2>5. QED BY <1>1, <2>4 DEF Same, Leaves, Untouched, Rests, wakeVars
<1>4. QED BY <1>2, <1>3

LEMMA OwnStep ==
  ASSUME ThreadsOK, CountersOK, Room, ~Crashed, Starting, Stacked, Spare,
         NEW e \in Executors, OwnNext(e)
  PROVE  Starting' /\ Stacked' /\ Spare'
<1>1. Still /\ UNCHANGED upc
  BY OwnFrame DEF Still, userVars, stackVars, dispVars
<1>2. \A d \in Executors : InRole(d)
  <2> SUFFICES ASSUME NEW d \in Executors PROVE InRole(d)
    OBVIOUS
  <2>1. d # e => Same(d)
    BY OwnSame
  <2>2. QED BY <2>1, SameInRole, OwnInRole
<1>3. dpc = "asleep" /\ Leaves(exec) => Leaves(exec)'
  BY LeavesKept
<1>4. Stacked' /\ Spare'
  BY <1>1, <1>2, <1>3, RolesKept
<1>5. Starting'
  <2>1. Comes(Main) => Comes(Main)'
    BY <1>2, Constant DEF InRole
  <2>2. QED BY <1>1, <2>1, OwnParked DEF Starting, Unborn, Still
<1>6. QED BY <1>4, <1>5

-----------------------------------------------------------------------------
(***************************************************************************)
(* What comes from outside, and the steps of the user's thread.            *)
(***************************************************************************)
(* Where the roles end. *)
Going(e) == pc[e] = "run" /\ status[e] = "Working" /\ Untouched(e)
Gone(e) == e = Main /\ pc[e] = "ended" /\ e \notin stopped
Stopped(e) == /\ pc[e] = "run" /\ status[e] = "Suspended"
              /\ e \notin suspends /\ e \notin resumes /\ e \in stopped
Idle(e) == pc[e] = "wait" /\ status[e] = "Done" /\ Untouched(e)

LEMMA RolesEnd ==
  ASSUME OthersSettled, NEW e \in Executors
  PROVE  /\ Works(e) => Going(e) \/ Gone(e)
         /\ Ends(e) => Gone(e)
         /\ Halts(e) => Stopped(e)
         /\ Below(e) => Stopped(e) \/ (Gone(e) /\ status[e] = "Suspended")
         /\ Rests(e) => Idle(e)
         /\ Comes(e) => Going(e)
         /\ Leaves(e) => Idle(e) /\ dresume /\ nreq > 0
<1>1. ~SuspendDue(e) /\ ~ResumeDue(e)
  BY DEF OthersSettled, Unsettled
<1>2. e \in stopped \/ pc[e] \in {"none", "park", "wait", "run", "ended"}
  BY DEF OthersSettled, Unsettled
<1> USE <1>1, <1>2 DEF SuspendDue, ResumeDue, Going, Gone, Stopped, Idle, Untouched
<1>3. /\ Works(e) => Going(e) \/ Gone(e)
      /\ Ends(e) => Gone(e)
  BY DEF Works, Runs, Starts, Ends
<1>4. /\ Halts(e) => Stopped(e)
      /\ Below(e) => Stopped(e) \/ (Gone(e) /\ status[e] = "Suspended")
  BY DEF Below, Halts
<1>5. Rests(e) => Idle(e)
  BY DEF Rests
<1>6. Comes(e) => Going(e)
  BY DEF Comes, Runs
<1>7. Leaves(e) => Idle(e) /\ dresume /\ nreq > 0
  BY <1>5 DEF Leaves
<1>8. QED BY <1>3, <1>4, <1>5, <1>6, <1>7

(* Nothing comes from outside while a worker leaves. *)
LEMMA NoneLeaves ==
  ASSUME Settled, CountersOK PROVE ~Leaves(exec)
BY RolesEnd, OnTheStack DEF Settled

LEMMA UserStep ==
  ASSUME Paced, ThreadsOK, CountersOK, Starting, Stacked, Spare, UserNext
  PROVE  Starting' /\ Stacked' /\ Spare'
<1> USE DEF userVars, threadVars, signalVars, wakeVars, stackVars, irqVars, queueVars,
        historyVars, dispVars, User
<1>0. /\ status \in [Executors -> Statuses] /\ nreq \in Nat
      /\ Main \in Executors /\ Main \notin Workers
  BY Constant DEF ThreadsOK, CountersOK
<1>1. CASE StartResume \/ StartKill
  <2>1. /\ dpc = "none" /\ dpc' = "none" /\ exec = 0 /\ UNCHANGED <<exec, size>>
        /\ upc' \in {"startMode", "startKill"}
    BY <1>1 DEF StartResume, StartKill, Starting, Unborn
  <2>2. \A w \in Workers : Same(w)
    BY <1>0, <1>1 DEF StartResume, StartKill, Same, Executors
  <2>3. Spare'
    <3>1. \A w \in Workers : InRole(w) /\ w # Main
      BY <2>2, <1>0, SameInRole DEF Executors
    <3>2. QED BY <2>1, <3>1 DEF Spare, InRole
  <2>4. Starting'
    <3>1. CASE StartResume
      BY <1>0, <2>1, <3>1 DEF StartResume, Starting, Unborn, Parks, Parked, Untouched
    <3>2. CASE StartKill
      BY <1>0, <2>1, <3>2 DEF StartKill, Starting, Unborn, Parked, Comes, Untouched
    <3>3. QED BY <1>1, <3>1, <3>2
  <2>5. Stacked'
    BY <2>1 DEF Stacked
  <2>6. QED BY <2>3, <2>4, <2>5
<1>2. CASE ~(StartResume \/ StartKill)
  <2>1. \A e \in Executors : Same(e)
    BY <1>2
    DEF Same, UserNext, StartMode, StartReset,
        StartInit, StartCreate, StartWait, StartTimeout, Trigger,
        TriggerFull, TriggerCount, TriggerMark, TriggerStore, TriggerWake
  <2>2. \A e \in Executors : InRole(e)
    BY <2>1, SameInRole
  <2>3. CASE StartMode \/ StartReset \/ StartInit \/ StartCreate
    <3>1. /\ dpc = "none" /\ dpc' \in {"none", "begin"} /\ exec = 0
          /\ Comes(Main) /\ UNCHANGED <<exec, size>>
          /\ dpc' = "begin" => upc' = "startWait"
          /\ dpc' = "none" =>
               upc' \in {"startReset", "startInit", "startCreate", "gaveUp"}
      BY <2>3 DEF StartMode, StartReset, StartInit, StartCreate, Starting, Unborn
    <3>2. Comes(Main)'
      BY <1>0, <2>2, <3>1 DEF InRole
    <3>3. Starting'
      BY <3>1, <3>2 DEF Starting, Unborn
    <3>4. Stacked'
      BY <3>1 DEF Stacked
    <3>5. Spare'
      BY <1>0, <2>2, <3>1 DEF Spare, InRole, Executors
    <3>6. QED BY <3>3, <3>4, <3>5
  <2>4. CASE ~(StartMode \/ StartReset \/ StartInit \/ StartCreate)
    <3>1. ~StartTimeout
      BY DEF StartTimeout
    <3>2. /\ UNCHANGED <<dpc, exec, size, finish>>
          /\ nreq' = nreq \/ nreq' = nreq + 1
          /\ dpc # "none"
          /\ upc' \notin Unborn
      BY <1>2, <2>4, <3>1
      DEF Starting, Unborn, UserNext, StartWait, Trigger, TriggerFull, TriggerCount,
          TriggerMark, TriggerStore, TriggerWake, CountRequest, MarkWorking, Wake
    <3>3. nreq > 0 => nreq' > 0
      BY <1>0, <3>2
    <3>4. dpc = "asleep" /\ Leaves(exec) => Leaves(exec)'
      <4> SUFFICES ASSUME Leaves(exec) PROVE Leaves(exec)'
        OBVIOUS
      <4>1. ~Settled
        BY NoneLeaves
      <4>2. QED
        BY <1>2, <2>4, <3>1, <4>1
        DEF Leaves, UserNext, StartWait, Trigger, TriggerFull, TriggerCount,
            TriggerMark, TriggerStore, TriggerWake, Calm
    <3>5. Starting'
      BY <1>0, <2>2, <3>2 DEF Starting, Unborn, InRole
    <3>6. Stacked' /\ Spare'
      BY <2>2, <3>2, <3>3, <3>4, RolesKept DEF Still
    <3>7. QED BY <3>5, <3>6
  <2>5. QED BY <2>3, <2>4
<1>3. QED BY <1>1, <1>2
(* What every executor does when all threads have settled. *)
LEMMA AtRest ==
  ASSUME Settled, CountersOK, Room, Stacked, Spare
  PROVE  /\ exec \in Executors /\ (Going(exec) \/ Gone(exec))
         /\ \A e \in Executors :
              /\ e < exec => Stopped(e) \/ Gone(e)
              /\ e > exec => e \in Workers
              /\ e > exec /\ e <= size => Idle(e)
              /\ e > size => Absent(e)
<1>1. /\ OthersSettled /\ dpc = "asleep" /\ exec \in Executors
      /\ \A e \in Executors : e \in Nat /\ exec \in Nat /\ size \in Nat /\ exec < size
  <2>1. OthersSettled /\ dpc = "asleep"
    BY DEF Settled
  <2>2. QED BY <2>1, OnTheStack, Constant DEF CountersOK, Room
<1>2. Going(exec) \/ Gone(exec)
  BY <1>1, NoneLeaves, RolesEnd DEF Stacked
<1>3. ASSUME NEW e \in Executors
      PROVE  /\ e < exec => Stopped(e) \/ Gone(e)
             /\ e > exec => e \in Workers
             /\ e > exec /\ e <= size => Idle(e)
             /\ e > size => Absent(e)
  <2>1. e < exec => Stopped(e) \/ Gone(e)
    BY <1>1, RolesEnd DEF Stacked, Deep
  <2>2. e > exec => e \in Workers
    BY <1>1 DEF Executors, Main
  <2>3. e > exec /\ e <= size => Idle(e)
    BY <1>1, <2>2, RolesEnd DEF Spare
  <2>4. e > size => Absent(e)
    BY <1>1, <2>2 DEF Spare
  <2>5. QED BY <2>1, <2>2, <2>3, <2>4
<1>4. QED BY <1>1, <1>2, <1>3

(* Only the executor on top can end, and it finds the dispatcher asleep    *)
(* and not Working.                                                        *)
LEMMA TopEnds ==
  ASSUME Paced, ThreadsOK, CountersOK, Room, Stacked, Spare, WakeupCovered,
         HandlerNext
  PROVE  /\ Settled /\ Going(exec) /\ exec \in Executors /\ dstatus # "Working"
         /\ pc' = [pc EXCEPT ![exec] = IF exec = Main THEN "sigAdd" ELSE "done"]
         /\ UNCHANGED <<userVars, status, signalVars, wakeVars, irqVars, dispVars>>
<1>1. PICK e \in Executors :
        /\ Settled /\ pc[e] = "run" /\ e \notin stopped
        /\ pc' = [pc EXCEPT ![e] = IF e = Main THEN "sigAdd" ELSE "done"]
        /\ UNCHANGED <<userVars, status, signalVars, wakeVars, irqVars, dispVars>>
  <2>1. ASSUME NEW w \in Workers, NEW o \in IrqOutcomes, WorkerReturn(w, o)
        PROVE  /\ Settled /\ pc[w] = "run" /\ w \notin stopped
               /\ pc' = [pc EXCEPT ![w] = IF w = Main THEN "sigAdd" ELSE "done"]
               /\ UNCHANGED <<userVars, status, signalVars, wakeVars, irqVars, dispVars>>
    BY <2>1, Constant DEF WorkerReturn, Calm, Goes
  <2>2. ASSUME NEW o \in MainOutcomes, MainReturn(o)
        PROVE  /\ Settled /\ pc[Main] = "run" /\ Main \notin stopped
               /\ pc' = [pc EXCEPT ![Main] = IF Main = Main THEN "sigAdd" ELSE "done"]
               /\ UNCHANGED <<userVars, status, signalVars, wakeVars, irqVars, dispVars>>
    BY <2>2 DEF MainReturn, Calm, Goes
  <2>3. QED BY <2>1, <2>2, Constant DEF HandlerNext
<1>2. e = exec /\ Going(e)
  <2>1. exec \in Nat /\ size \in Nat /\ e \in Nat
    BY Constant DEF CountersOK
  <2>2. e < exec \/ e = exec \/ (e > exec /\ e <= size) \/ e > size
    BY <2>1
  <2>3. ~(Stopped(e) \/ Gone(e)) /\ ~Idle(e) /\ ~Absent(e)
    BY <1>1 DEF Stopped, Gone, Idle, Absent
  <2>4. QED BY <1>1, <2>2, <2>3, AtRest
<1>3. dstatus # "Working"
  <2>1. dpc = "asleep" /\ ~dresume /\ upc \in {"idle", "gaveUp"}
    BY <1>1 DEF Settled, OthersSettled
  <2>2. ASSUME NEW d \in Executors PROVE pc[d] \notin {"sigStore", "sigKill"}
    <3>1. exec \in Nat /\ size \in Nat /\ d \in Nat
      BY Constant DEF CountersOK
    <3>2. d < exec \/ d = exec \/ (d > exec /\ d <= size) \/ d > size
      BY <3>1
    <3>3. Stopped(d) \/ Gone(d) \/ Going(d) \/ Idle(d) \/ Absent(d)
      BY <1>1, <3>2, AtRest
    <3>4. QED BY <3>3 DEF Stopped, Gone, Going, Idle, Absent
  <2>3. QED BY <2>1, <2>2 DEF WakeupCovered
<1>4. QED BY <1>1, <1>2, <1>3

LEMMA HandlerStep ==
  ASSUME Paced, ThreadsOK, CountersOK, Room, Starting, Stacked, Spare,
         WakeupCovered, HandlerNext
  PROVE  Starting' /\ Stacked' /\ Spare'
<1> USE DEF userVars, signalVars, wakeVars, stackVars, irqVars, dispVars
<1>1. /\ Settled /\ Going(exec) /\ exec \in Executors /\ dstatus # "Working"
      /\ pc' = [pc EXCEPT ![exec] = IF exec = Main THEN "sigAdd" ELSE "done"]
      /\ UNCHANGED <<userVars, status, signalVars, wakeVars, irqVars, dispVars>>
  BY TopEnds
<1>2. \A d \in Executors : d # exec => InRole(d)
  <2> SUFFICES ASSUME NEW d \in Executors, d # exec PROVE InRole(d)
    OBVIOUS
  <2>1. Same(d)
    BY <1>1 DEF Same, ThreadsOK
  <2>2. QED BY <2>1, SameInRole
<1>3. dpc = "asleep" /\ ~dresume /\ upc \in {"idle", "gaveUp"}
  BY <1>1 DEF Settled, OthersSettled
<1>4. pc'[exec] = IF exec = Main THEN "sigAdd" ELSE "done"
  BY <1>1 DEF ThreadsOK
<1>5. Works(exec)' \/ Leaves(exec)'
  <2>1. CASE exec = Main
    BY <1>1, <1>4, <2>1 DEF Works, Ends, Going, Untouched
  <2>2. CASE exec # Main
    BY <1>1, <1>3, <1>4, <2>2 DEF Leaves, Going, Untouched
  <2>3. QED BY <2>1, <2>2
<1>6. Deep(exec)'
  <2>1. Deep(exec)
    BY <1>3 DEF Stacked
  <2>2. \A d \in Executors : d < exec => d # exec
    BY Constant DEF CountersOK
  <2>3. QED BY <1>1, <1>2, <2>1, <2>2 DEF Deep, InRole
<1>7. Stacked' /\ Starting'
  BY <1>1, <1>3, <1>5, <1>6 DEF Stacked, Starting, Unborn
<1>8. Spare'
  <2>1. \A w \in Workers : w > exec => w # exec /\ w # Main /\ w \in Executors
    BY Constant DEF CountersOK
  <2>2. \A w \in Workers : w > size => w > exec
    BY Constant DEF CountersOK, Room
  <2>3. QED BY <1>1, <1>2, <2>1, <2>2 DEF Spare, InRole
<1>9. QED BY <1>7, <1>8

-----------------------------------------------------------------------------
(***************************************************************************)
(* The dispatcher's steps, taken when every executor's role has ended.     *)
(***************************************************************************)
LEMMA DispTurn ==
  ASSUME Paced, DispatcherNext
  PROVE  /\ OthersSettled /\ UNCHANGED upc
         /\ dpc \notin {"none", "aborted", "segfault"}
         /\ dpc' \notin {"none", "begin"}
<1> USE DEF Disp, DispatcherTurn, userVars
<1>1. CASE \/ DispBegin \/ DispCheck \/ DispPark \/ DispAwake \/ DispWake \/ DispConsume
           \/ UnwindPop \/ UnwindResume \/ UnwindEnd
           \/ ResumeTest \/ ResumeCond \/ ResumeXchg \/ ResumeKill
           \/ PopDefer \/ PopNothing
  BY <1>1
  DEF DispBegin, DispCheck, DispPark, DispAwake, DispWake, DispConsume, UnwindPop,
      UnwindResume, UnwindEnd, ResumeTest, ResumeCond, ResumeXchg, ResumeKill,
      PopDefer, PopNothing
<1>2. CASE UnwindStartWaiting \/ PopStart \/ PopWaiting
  BY <1>2 DEF UnwindStartWaiting, PopStart, PopWaiting, Prepare
<1>3. CASE \/ SuspendMain \/ SuspendOldTest \/ SuspendOld \/ SuspendMainW \/ AssertW
           \/ StartTest \/ StartCond \/ Assert \/ MainTest \/ MainXchg \/ MainKill
           \/ Report
  BY <1>3
  DEF SuspendMain, SuspendOldTest, SuspendOld, SuspendMainW, AssertW, StartTest,
      StartCond, Assert, MainTest, MainXchg, MainKill, Report
<1>4. QED BY <1>1, <1>2, <1>3 DEF DispatcherNext

LEMMA DispStarting ==
  ASSUME Paced, Starting, DispatcherNext PROVE Starting'
BY DispTurn DEF Starting, Unborn

(* The roles at the dispatcher's turn, in one fact for the leaves. *)
LEMMA AtTurn ==
  ASSUME Paced, CountersOK, DispatcherNext
  PROVE  /\ exec \in Executors /\ Main \in Executors
         /\ exec \in Nat /\ (exec = 0 <=> exec = Main)
         /\ exec > 0 => exec - 1 \in Executors
         /\ exec = 0 => Deep(exec)
         /\ \A e \in Executors :
              /\ Works(e) => Going(e) \/ Gone(e)
              /\ Ends(e) <=> Gone(e)
              /\ Halts(e) <=> Stopped(e)
              /\ Below(e) <=> Stopped(e) \/ (Gone(e) /\ status[e] = "Suspended")
              /\ Rests(e) <=> Idle(e)
              /\ Comes(e) => Going(e)
              /\ Leaves(e) => Idle(e) /\ dresume /\ nreq > 0
              /\ Going(e) => Works(e)
              /\ Gone(e) => Works(e) /\ e = Main
<1>1. OthersSettled
  BY DispTurn
<1>2. /\ exec \in Executors /\ Main \in Executors /\ exec \in Nat
      /\ (exec = 0 <=> exec = Main)
      /\ exec > 0 => exec - 1 \in Executors
      /\ exec = 0 => Deep(exec)
  BY OnTheStack, Constant DEF CountersOK, Main, Deep
<1>3. ASSUME NEW e \in Executors
      PROVE  /\ Ends(e) <=> Gone(e)
             /\ Halts(e) <=> Stopped(e)
             /\ Below(e) <=> Stopped(e) \/ (Gone(e) /\ status[e] = "Suspended")
             /\ Rests(e) <=> Idle(e)
             /\ Going(e) => Works(e)
             /\ Gone(e) => Works(e) /\ e = Main
  BY <1>1, RolesEnd
  DEF Ends, Gone, Halts, Stopped, Below, Rests, Idle, Going, Works, Runs, Untouched
<1>4. QED BY <1>1, <1>2, <1>3, RolesEnd

(* Steps that change no executor, and leave the stack as it is. *)
QuietNext ==
  \/ DispBegin \/ DispCheck \/ DispPark \/ DispAwake \/ DispWake \/ DispConsume
  \/ UnwindResume \/ UnwindEnd \/ ResumeTest \/ PopDefer \/ PopNothing
  \/ SuspendOldTest \/ AssertW \/ StartTest \/ Assert \/ MainTest \/ Report

LEMMA QuietStep ==
  ASSUME Paced, ThreadsOK, CountersOK, Starting, Stacked, Spare, OnlyMemoryAborts,
         DispatcherNext, QuietNext
  PROVE  (~Crashed' => Stacked' /\ Spare') /\ OnlyMemoryAborts'
<1>0. UNCHANGED <<threadVars, signalVars, stackVars>>
  BY DEF QuietNext, DispBegin, DispCheck, DispPark, DispAwake, DispWake, DispConsume,
         UnwindResume, UnwindEnd, ResumeTest, PopDefer, PopNothing, SuspendOldTest,
         AssertW, StartTest, Assert, MainTest, Report, irqVars
<1> USE <1>0 DEF threadVars, signalVars, stackVars, Disp
<1>1. \A e \in Executors : InRole(e)
  BY SameInRole DEF Same
<1>2. Spare'
  BY <1>1, Constant DEF Spare, InRole
<1>3. /\ Deep(exec) => Deep(exec)'
      /\ exec > 0 => (Deep(exec - 1) => Deep(exec - 1)')
  BY <1>1, AtTurn DEF Deep, InRole
<1>4. /\ Works(exec) => Works(exec)'
      /\ Below(exec) => Below(exec)'
      /\ Halts(exec) => Halts(exec)'
      /\ Held(exec) => Held(exec)'
      /\ exec > 0 /\ Rests(exec) => Rests(exec)'
      /\ exec > 0 /\ Works(exec - 1) => Works(exec - 1)'
      /\ Below(Main) => Below(Main)'
      /\ Held(Main) => Held(Main)'
      /\ Ends(Main) => Ends(Main)'
  BY <1>1, AtTurn DEF InRole
<1>5. CASE DispBegin
  <2>1. dpc = "begin" /\ dpc' = "check" /\ Deep(exec) /\ Works(exec)
    BY <1>5, AtTurn DEF DispBegin, Starting, Unborn
  <2>2. QED BY <1>2, <1>3, <1>4, <2>1 DEF Stacked, OnlyMemoryAborts
<1>6. CASE DispCheck
  <2>1. nreq' = nreq
    BY <1>6 DEF DispCheck, wakeVars
  <2>2. QED BY <1>2, <1>3, <1>4, <1>6, <2>1 DEF DispCheck, Stacked, OnlyMemoryAborts
<1>7. CASE DispPark
  BY <1>2, <1>3, <1>4, <1>7 DEF DispPark, Stacked, OnlyMemoryAborts
<1>8. CASE DispAwake
  <2>1. dpc = "asleep" /\ dpc' = "check" /\ nreq' = nreq
    BY <1>8 DEF DispAwake
  <2>2. Leaves(exec) => exec > 0 /\ Rests(exec) /\ nreq > 0
    BY AtTurn DEF Leaves
  <2>3. QED BY <1>2, <1>3, <1>4, <2>1, <2>2 DEF Stacked, OnlyMemoryAborts
<1>9. CASE DispWake
  BY <1>2, <1>3, <1>4, <1>9 DEF DispWake, Stacked, OnlyMemoryAborts
<1>10. CASE DispConsume
  BY <1>2, <1>3, <1>4, <1>10 DEF DispConsume, Stacked, OnlyMemoryAborts
<1>11. CASE UnwindResume
  <2>1. Below(exec) => exec = 0 \/ Halts(exec)
    BY AtTurn
  <2>2. QED
    BY <1>2, <1>3, <1>4, <1>11, <2>1, AtTurn DEF UnwindResume, Stacked, OnlyMemoryAborts
<1>12. CASE UnwindEnd
  <2>1. exec > 0 /\ Rests(exec) => status[exec] = "Done"
    BY AtTurn DEF Idle
  <2>2. exec > 0 => exec \in Nat
    BY AtTurn
  <2>3. QED
    BY <1>2, <1>3, <1>4, <1>12, <2>1, AtTurn DEF UnwindEnd, Stacked, OnlyMemoryAborts
<1>13. CASE ResumeTest
  <2>1. exec > 0 => /\ Rests(exec) => status[exec] = "Done"
                    /\ Halts(exec) => status[exec] # "Done"
    BY AtTurn DEF Idle, Stopped
  <2>2. QED BY <1>2, <1>3, <1>4, <1>13, <2>1 DEF ResumeTest, Stacked, OnlyMemoryAborts
<1>14. CASE PopDefer \/ PopNothing
  BY <1>2, <1>3, <1>4, <1>14 DEF PopDefer, PopNothing, Stacked, OnlyMemoryAborts
<1>15. CASE SuspendOldTest
  <2>1. dpc = "suspOld" /\ exec > 1 /\ Works(exec - 1)
    BY <1>15 DEF SuspendOldTest, Stacked
  <2>2. Going(exec - 1)
    BY <2>1, AtTurn DEF Main
  <2>3. dpc' = "suspXchg"
    BY <1>15, <2>2 DEF SuspendOldTest, Going
  <2>4. QED BY <1>2, <1>3, <1>4, <2>1, <2>3 DEF Stacked, OnlyMemoryAborts
<1>16. CASE AssertW
  <2>1. dpc = "assertW" /\ exec = 1 /\ Below(Main) /\ Rests(exec)
    BY <1>16 DEF AssertW, Stacked
  <2>2. status[Main] = "Suspended"
    BY <2>1, AtTurn DEF Stopped
  <2>3. dpc' = "start" /\ exec > 0
    BY <1>16, <2>1, <2>2 DEF AssertW
  <2>4. Deep(exec)
    BY <2>1, Constant DEF Deep, Main
  <2>5. QED BY <1>2, <1>3, <1>4, <2>1, <2>3, <2>4 DEF Stacked, OnlyMemoryAborts
<1>17. CASE StartTest
  <2>1. Rests(exec) => status[exec] = "Done"
    BY AtTurn DEF Idle
  <2>2. QED BY <1>2, <1>3, <1>4, <1>17, <2>1 DEF StartTest, Stacked, OnlyMemoryAborts
<1>18. CASE Assert
  <2>1. exec > 0 => status[Main] = "Suspended"
    BY <1>18, AtTurn DEF Assert, Stacked, Deep, Main, Stopped
  <2>2. QED BY <1>2, <1>3, <1>4, <1>18, <2>1 DEF Assert, Stacked, OnlyMemoryAborts
<1>19. CASE MainTest
  <2>1. dpc = "settle" /\ (Works(exec) \/ (exec = 0 /\ Below(Main))) /\ Deep(exec)
    BY <1>19 DEF MainTest, Stacked
  <2>2. CASE exec = 0 /\ status[Main] = "Suspended"
    <3>1. dpc' = "mainXchg" /\ exec = 0
      BY <1>19, <2>2 DEF MainTest
    <3>2. Below(Main)
      BY <2>1, <2>2, AtTurn DEF Going
    <3>3. QED BY <1>2, <1>3, <1>4, <2>1, <3>1, <3>2 DEF Stacked, OnlyMemoryAborts
  <2>3. CASE ~(exec = 0 /\ status[Main] = "Suspended")
    <3>1. dpc' = "report"
      BY <1>19, <2>3 DEF MainTest
    <3>2. Works(exec)
      BY <2>1, <2>3, AtTurn DEF Stopped
    <3>3. QED BY <1>2, <1>3, <1>4, <2>1, <3>1, <3>2 DEF Stacked, OnlyMemoryAborts
  <2>4. QED BY <2>2, <2>3
<1>20. CASE Report
  BY <1>2, <1>3, <1>4, <1>20 DEF Report, Stacked, OnlyMemoryAborts, Crashed
<1>21. QED
  BY <1>5, <1>6, <1>7, <1>8, <1>9, <1>10, <1>11, <1>12, <1>13, <1>14, <1>15, <1>16,
     <1>17, <1>18, <1>19, <1>20
  DEF QuietNext

(* The stack gets one lower: the executor that ended rests. *)
LEMMA PopStep ==
  ASSUME Paced, ThreadsOK, CountersOK, Room, ~Crashed, Stacked, Spare, OnlyMemoryAborts,
         DispatcherNext, UnwindPop
  PROVE  (~Crashed' => Stacked' /\ Spare') /\ OnlyMemoryAborts'
<1>1. /\ UNCHANGED <<pc, status, suspends, resumes, stopped, size>>
      /\ exec > 0 /\ exec' = exec - 1 /\ status[exec] = "Done" /\ finish'
      /\ dpc = "unwind" /\ dpc' = "unwind" /\ exec < size
  BY DEF UnwindPop, threadVars, signalVars, Disp, Room, Crashed
<1>2. \A e \in Executors : InRole(e)
  BY <1>1, SameInRole DEF Same
<1>3. Idle(exec)
  BY <1>1, AtTurn DEF Stacked, Below, Stopped, Gone, Going, Main
<1>4. Deep(exec)' /\ Below(exec)'
  <2>1. Deep(exec)
    BY <1>1 DEF Stacked
  <2>2. exec' \in Executors /\ exec' < exec /\ exec \in Nat
    BY <1>1, AtTurn
  <2>3. Below(exec)'
    BY <1>2, <2>1, <2>2 DEF Deep, InRole
  <2>4. \A e \in Executors : e < exec' => e < exec
    BY <2>2, Constant
  <2>5. QED BY <1>2, <2>1, <2>3, <2>4 DEF Deep, InRole
<1>5. Stacked' /\ OnlyMemoryAborts'
  BY <1>1, <1>4 DEF Stacked, OnlyMemoryAborts
<1>6. Spare'
  <2> SUFFICES ASSUME NEW w \in Workers
               PROVE  /\ w > size => Absent(w)'
                      /\ w > exec - 1 /\ w <= size => Rests(w)'
    BY <1>1 DEF Spare
  <2>1. w \in Executors /\ w # Main /\ w \in Nat /\ exec \in Nat
    BY AtTurn, Constant
  <2>2. w > exec - 1 => w = exec \/ w > exec
    BY <2>1
  <2>3. w = exec => Rests(w)
    BY <1>3, <2>1, AtTurn
  <2>4. QED BY <1>2, <2>1, <2>2, <2>3 DEF Spare, InRole
<1>7. QED BY <1>5, <1>6

(* A step that touches one executor of the stack. *)
LEMMA OthersInRole ==
  ASSUME CountersOK, Spare, exec < size, NEW x \in Executors, x <= exec,
         UNCHANGED <<exec, size>>,
         \A d \in Executors : d # x => Same(d)
  PROVE  /\ Spare'
         /\ \A d \in Executors : d # x => InRole(d)
         /\ \A n \in Nat : n <= x /\ Deep(n) => Deep(n)'
<1>1. \A d \in Executors : d # x => InRole(d)
  BY SameInRole
<1>2. Spare'
  <2> SUFFICES ASSUME NEW w \in Workers
               PROVE  /\ w > size => Absent(w)'
                      /\ w > exec /\ w <= size => Rests(w)'
    BY DEF Spare
  <2>1. w \in Executors /\ w # Main /\ w \in Nat /\ exec \in Nat /\ size \in Nat /\ x \in Nat
    BY Constant DEF CountersOK
  <2>2. w > exec => w # x
    BY <2>1
  <2>3. w > size => w > exec
    BY <2>1
  <2>4. QED BY <1>1, <2>1, <2>2, <2>3 DEF Spare, InRole
<1>3. ASSUME NEW n \in Nat, n <= x, Deep(n) PROVE Deep(n)'
  <2>1. \A e \in Executors : e < n => e # x
    BY <1>3, Constant
  <2>2. QED BY <1>1, <1>3, <2>1 DEF Deep, InRole
<1>4. QED BY <1>1, <1>2, <1>3

(* A worker is told to go on, or to start. *)
LEMMA ResumeStep ==
  ASSUME Paced, ThreadsOK, CountersOK, Room, ~Crashed, Stacked, Spare, OnlyMemoryAborts,
         DispatcherNext, ResumeCond \/ StartCond \/ ResumeXchg \/ ResumeKill
  PROVE  Stacked' /\ Spare' /\ OnlyMemoryAborts'
<1> USE DEF threadVars, signalVars, stackVars, irqVars, Disp, Marks
<1>0. /\ status \in [Executors -> Statuses] /\ exec \in Executors /\ exec \in Nat
      /\ pc \in [Executors -> MainPcs \union WorkerPcs] /\ exec < size
  BY AtTurn DEF ThreadsOK, Room, Crashed
<1>1. /\ exec > 0 /\ Deep(exec) /\ UNCHANGED <<exec, size, nreq>>
      /\ dpc' # "aborted"
  BY DEF ResumeCond, StartCond, ResumeXchg, ResumeKill, Stacked, wakeVars
<1>2. \A d \in Executors : d # exec => Same(d)
  BY <1>0 DEF ResumeCond, StartCond, ResumeXchg, ResumeKill, CondSignal, Same
<1>3. Spare' /\ Deep(exec)'
  <2>1. exec <= exec
    BY <1>0
  <2>2. Spare' /\ \A d \in Executors : d # exec => InRole(d)
    BY <1>0, <1>1, <1>2, <2>1, OthersInRole
  <2>3. \A e \in Executors : e < exec => e # exec
    BY <1>0
  <2>4. QED BY <1>1, <2>2, <2>3 DEF Deep, InRole
<1>4. CASE ResumeCond \/ StartCond
  <2>1. Idle(exec)
    BY <1>1, <1>4, AtTurn DEF ResumeCond, StartCond, Stacked
  <2>2. pc'[exec] = "woken" /\ UNCHANGED <<status, suspends, resumes, stopped>>
    BY <1>0, <1>4, <2>1 DEF ResumeCond, StartCond, CondSignal, Idle
  <2>3. Works(exec)'
    BY <1>1, <2>1, <2>2 DEF Works, Starts, Idle, Untouched
  <2>4. dpc' \in {"check", "assert"}
    BY <1>4 DEF ResumeCond, StartCond
  <2>5. QED BY <1>1, <1>3, <2>3, <2>4 DEF Stacked, OnlyMemoryAborts
<1>5. CASE ResumeXchg
  <2>1. Stopped(exec)
    BY <1>5, AtTurn DEF ResumeXchg, Stacked
  <2>2. Held(exec)' /\ dpc' = "resumeKill"
    BY <1>0, <1>1, <1>5, <2>1 DEF ResumeXchg, Held, Stopped
  <2>3. QED BY <1>1, <1>3, <2>2 DEF Stacked, OnlyMemoryAborts
<1>6. CASE ResumeKill
  <2>1. Held(exec)
    BY <1>6 DEF ResumeKill, Stacked
  <2>2. Works(exec)' /\ dpc' = "check"
    BY <1>0, <1>1, <1>6, <2>1 DEF ResumeKill, Held, Works, Runs
  <2>3. QED BY <1>1, <1>3, <2>2 DEF Stacked, OnlyMemoryAborts
<1>7. QED BY <1>4, <1>5, <1>6

(* Suspend stops an executor that runs, leaves a stopped one stopped, and  *)
(* stays pending for a main function that has ended.                       *)
LEMMA SuspendHalts ==
  ASSUME ThreadsOK, NEW e \in Executors, Going(e) \/ Gone(e) \/ Stopped(e), Suspend(e),
         UNCHANGED <<pc, resumes, stopped>>
  PROVE  Below(e)' /\ \A d \in Executors : d # e => Same(d)
BY DEF ThreadsOK, Going, Gone, Stopped, Suspend, Marks, Below, Halts, Same, Untouched

LEMMA PreemptStep ==
  ASSUME Paced, ThreadsOK, CountersOK, Room, ~Crashed, Stacked, Spare, OnlyMemoryAborts,
         DispatcherNext, SuspendMain \/ SuspendOld \/ SuspendMainW
  PROVE  Stacked' /\ Spare' /\ OnlyMemoryAborts'
<1> USE DEF stackVars, irqVars, Disp
<1>0. /\ exec \in Executors /\ exec \in Nat /\ exec < size /\ Main \in Executors
      /\ Main = 0 /\ exec > 0 /\ exec - 1 \in Executors /\ exec # exec - 1
      /\ exec - 1 < exec /\ Executors \subseteq Nat
  BY AtTurn, Constant
  DEF Room, Crashed, Stacked, SuspendMain, SuspendOld, SuspendMainW, Main
<1>1. /\ Rests(exec) /\ Deep(exec - 1) /\ UNCHANGED <<exec, size>>
      /\ dpc' \in {"suspOld", "start", "assertW"}
  BY DEF Stacked, SuspendMain, SuspendOld, SuspendMainW
<1>2. CASE SuspendOld
  <2>1. exec > 1 /\ Works(exec - 1) /\ dpc' = "start"
    BY <1>2 DEF SuspendOld, Stacked
  <2>2. Going(exec - 1) \/ Gone(exec - 1)
    BY <1>0, <2>1, AtTurn
  <2>3. Below(exec - 1)' /\ \A d \in Executors : d # exec - 1 => Same(d)
    BY <1>0, <1>2, <2>2, SuspendHalts DEF SuspendOld
  <2>4. Spare' /\ (\A d \in Executors : d # exec - 1 => InRole(d))
        /\ \A n \in Nat : n <= exec - 1 /\ Deep(n) => Deep(n)'
    BY <1>0, <1>1, <2>3, OthersInRole
  <2>5. Rests(exec)'
    BY <1>0, <1>1, <2>4 DEF InRole
  <2>6. Deep(exec)'
    <3>1. \A d \in Executors : d < exec => d = exec - 1 \/ d < exec - 1
      BY <1>0
    <3>2. \A d \in Executors : d < exec => Below(d)'
      BY <1>1, <2>3, <2>4, <3>1 DEF Deep, InRole
    <3>3. QED BY <1>1, <3>2 DEF Deep
  <2>7. QED BY <1>0, <1>1, <2>1, <2>4, <2>5, <2>6 DEF Stacked, OnlyMemoryAborts
<1>3. CASE SuspendMain \/ SuspendMainW
  <2>1. Going(Main) \/ Gone(Main) \/ Stopped(Main)
    <3>1. CASE exec = 1
      <4>1. Works(Main) \/ Below(Main)
        BY <1>0, <1>3, <3>1 DEF SuspendMain, SuspendMainW, Stacked
      <4>2. QED BY <1>0, <4>1, AtTurn
    <3>2. CASE exec > 1
      <4>1. Below(Main)
        BY <1>0, <1>1, <3>2 DEF Deep
      <4>2. QED BY <1>0, <4>1, AtTurn
    <3>3. QED BY <1>0, <3>1, <3>2
  <2>2. Below(Main)' /\ \A d \in Executors : d # Main => Same(d)
    BY <1>0, <1>3, <2>1, SuspendHalts DEF SuspendMain, SuspendMainW
  <2>3. Spare' /\ \A d \in Executors : d # Main => InRole(d)
    BY <1>0, <1>1, <2>2, OthersInRole
  <2>4. Rests(exec)'
    BY <1>0, <1>1, <2>3 DEF InRole
  <2>5. Deep(exec - 1)'
    <3>1. \A d \in Executors : d < exec - 1 => Below(d)'
      BY <1>1, <2>2, <2>3 DEF Deep, InRole
    <3>2. QED BY <1>1, <3>1 DEF Deep
  <2>6. CASE exec = 1
    <3>1. dpc' \in {"start", "assertW"}
      BY <1>3, <2>6 DEF SuspendMain, SuspendMainW
    <3>2. Deep(exec)'
      <4>1. \A d \in Executors : d < exec => d = Main
        BY <1>0, <2>6
      <4>2. QED BY <1>1, <2>2, <4>1 DEF Deep
    <3>3. QED
      BY <1>0, <1>1, <2>2, <2>3, <2>4, <2>5, <2>6, <3>1, <3>2 DEF Stacked, OnlyMemoryAborts
  <2>7. CASE exec > 1
    <3>1. dpc = "suspMain" /\ dpc' = "suspOld"
      BY <1>3, <2>7 DEF SuspendMain, SuspendMainW, Stacked
    <3>2. Works(exec - 1)'
      <4>1. Works(exec - 1)
        BY <2>7, <3>1 DEF Stacked
      <4>2. exec - 1 # Main
        BY <1>0, <2>7
      <4>3. Works(exec - 1) => (\A d : d = exec - 1 => Works(d)')
        BY <1>0, <2>3, <4>2 DEF InRole
      <4>4. QED BY <1>1, <4>1, <4>3
    <3>3. QED BY <1>0, <1>1, <2>3, <2>4, <2>5, <2>7, <3>1, <3>2 DEF Stacked, OnlyMemoryAborts
  <2>8. QED BY <1>0, <2>6, <2>7
<1>4. QED BY <1>2, <1>3

(* The main function is told to go on. *)
LEMMA MainStep ==
  ASSUME Paced, ThreadsOK, CountersOK, Room, ~Crashed, Stacked, Spare, OnlyMemoryAborts,
         DispatcherNext, MainXchg \/ MainKill
  PROVE  Stacked' /\ Spare' /\ OnlyMemoryAborts'
<1> USE DEF stackVars, irqVars, Disp, Marks
<1>0. /\ status \in [Executors -> Statuses] /\ exec = 0 /\ exec = Main /\ exec < size
      /\ exec \in Executors /\ Main \in Executors /\ exec <= exec
      /\ UNCHANGED <<exec, size, pc, suspends, stopped>>
  <2>1. exec = 0 /\ exec < size
    BY DEF Room, Crashed, Stacked, MainXchg, MainKill
  <2>2. UNCHANGED <<exec, size, pc, suspends, stopped>>
    BY DEF MainXchg, MainKill, signalVars
  <2>3. exec = Main /\ exec \in Executors /\ exec <= exec
    BY <2>1, AtTurn
  <2>4. QED BY <2>1, <2>2, <2>3, AtTurn DEF ThreadsOK
<1>1. \A d \in Executors : d # Main => Same(d)
  BY <1>0 DEF MainXchg, MainKill, Same, signalVars
<1>2. Spare'
  BY <1>0, <1>1, OthersInRole
<1>3. Deep(exec)'
  <2>1. \A d \in Executors : ~(d < exec)
    BY <1>0, Constant
  <2>2. QED BY <1>0, <2>1 DEF Deep
<1>4. CASE MainXchg
  <2>1. Stopped(Main) \/ (Gone(Main) /\ status[Main] = "Suspended")
    BY <1>0, <1>4, AtTurn DEF MainXchg, Stacked
  <2>2. dpc' = "mainKill" /\ resumes' = resumes /\ status'[Main] = "Working"
    BY <1>0, <1>4, <2>1 DEF MainXchg, Stopped, signalVars
  <2>3. Held(Main)' \/ Ends(Main)'
    BY <1>0, <2>1, <2>2 DEF Held, Ends, Stopped, Gone
  <2>4. QED BY <1>0, <1>2, <1>3, <2>2, <2>3 DEF Stacked, OnlyMemoryAborts
<1>5. CASE MainKill
  <2>1. Held(Main) \/ Gone(Main)
    BY <1>0, <1>5, AtTurn DEF MainKill, Stacked
  <2>2. /\ dpc' = "report" /\ status'[Main] = "Working"
        /\ resumes' = resumes \union {Main}
    BY <1>0, <1>5 DEF MainKill
  <2>3. Works(exec)'
    BY <1>0, <2>1, <2>2 DEF Held, Ends, Gone, Works, Runs
  <2>4. QED BY <1>0, <1>2, <1>3, <2>2, <2>3 DEF Stacked, OnlyMemoryAborts
<1>6. QED BY <1>4, <1>5

(* A preparation takes the lowest resting worker, and a growing memory     *)
(* gets workers that rest.                                                 *)
LEMMA PrepareRests ==
  ASSUME ThreadsOK, CountersOK, Room, ~Crashed, Spare,
         NEW l, NEW from, NEW to, Prepare(l, from, to), UNCHANGED <<status, signalVars>>
  PROVE  /\ exec' = exec + 1
         /\ \/ dpc' = "aborted" /\ exec' >= size'
            \/ /\ dpc' = to /\ Spare' /\ Rests(exec)'
               /\ \A e \in Executors : e <= exec => Same(e)
<1>1. /\ exec \in Nat /\ size \in 1 .. Slots /\ exec < size /\ Slots \in Nat
      /\ pc \in [Executors -> MainPcs \union WorkerPcs]
      /\ exec' = exec + 1 /\ exec + 1 \in Workers /\ exec + 1 \in Executors
      /\ UNCHANGED <<status, suspends, resumes, stopped>>
  <2>1. exec \in Nat /\ size \in 1 .. Slots /\ exec < size /\ Slots \in Nat
    BY Constant DEF CountersOK, Room, Crashed
  <2>2. exec' = exec + 1 /\ exec + 1 \in Workers
    BY <2>1 DEF Prepare, Workers
  <2>3. QED BY <2>1, <2>2, Constant DEF ThreadsOK, signalVars
<1>2. CASE exec + 1 < size /\ dpc' = to /\ UNCHANGED <<size, pc>>
  <2>1. \A e \in Executors : Same(e) /\ InRole(e)
    BY <1>1, <1>2, SameInRole DEF Same
  <2>2. Rests(exec + 1)
    BY <1>1, <1>2 DEF Spare
  <2>3. Rests(exec)'
    BY <1>1, <2>1, <2>2, Constant DEF InRole
  <2>4. Spare'
    <3>1. \A w \in Workers : w > exec + 1 => w > exec
      BY <1>1, Constant
    <3>2. \A w \in Workers : w \in Executors /\ w # Main
      BY Constant
    <3>3. QED BY <1>1, <1>2, <2>1, <3>1, <3>2 DEF Spare, InRole
  <2>5. QED BY <1>1, <1>2, <2>1, <2>3, <2>4
<1>3. CASE /\ exec + 1 >= size /\ 2 * (exec + 1) <= Slots /\ dpc' = to
           /\ size' = 2 * (exec + 1)
           /\ pc' = [e \in Executors |->
                       IF e \in exec + 1 + 1 .. 2 * (exec + 1) THEN "init" ELSE pc[e]]
  <2>1. size = exec + 1
    BY <1>1, <1>3
  <2>2. \A e \in Executors : e <= exec + 1 \/ e > 2 * (exec + 1) => Same(e) /\ InRole(e)
    <3> SUFFICES ASSUME NEW e \in Executors, e <= exec + 1 \/ e > 2 * (exec + 1)
                 PROVE  Same(e) /\ InRole(e)
      OBVIOUS
    <3>1. e \notin exec + 1 + 1 .. 2 * (exec + 1)
      BY <1>1, Constant
    <3>2. Same(e)
      BY <1>1, <1>3, <3>1 DEF Same
    <3>3. QED BY <3>2, SameInRole
  <2>3. Rests(exec + 1)
    BY <1>1, <2>1 DEF Spare
  <2>4. Rests(exec)'
    BY <1>1, <2>2, <2>3, Constant DEF InRole
  <2>5. Spare'
    <3> SUFFICES ASSUME NEW w \in Workers
                 PROVE  /\ w > 2 * (exec + 1) => Absent(w)'
                        /\ w > exec + 1 /\ w <= 2 * (exec + 1) => Rests(w)'
      BY <1>1, <1>3 DEF Spare
    <3>1. w \in Executors /\ w # Main /\ w \in Nat
      BY Constant
    <3>2. CASE w > 2 * (exec + 1)
      <4>1. Absent(w)
        BY <1>1, <2>1, <3>1, <3>2 DEF Spare
      <4>2. QED BY <1>1, <2>2, <3>1, <3>2, <4>1 DEF InRole
    <3>3. CASE w > exec + 1 /\ w <= 2 * (exec + 1)
      <4>1. Absent(w)
        BY <1>1, <2>1, <3>1, <3>3 DEF Spare
      <4>2. w \in exec + 1 + 1 .. 2 * (exec + 1)
        BY <1>1, <3>1, <3>3
      <4>3. pc'[w] = "init"
        BY <1>3, <3>1, <4>2
      <4>4. Rests(w)'
        BY <1>1, <4>1, <4>3 DEF Absent, Rests, Untouched
      <4>5. QED BY <1>1, <3>1, <3>3, <4>4
    <3>4. QED BY <3>2, <3>3
  <2>6. \A e \in Executors : e <= exec => e <= exec + 1
    BY <1>1, Constant
  <2>7. QED BY <1>1, <1>3, <2>2, <2>4, <2>5, <2>6
<1>4. CASE exec + 1 >= size /\ dpc' = "aborted" /\ UNCHANGED size
  BY <1>1, <1>4
<1>5. QED BY <1>1, <1>2, <1>3, <1>4 DEF Prepare, Disp

LEMMA PushStep ==
  ASSUME Paced, ThreadsOK, CountersOK, Room, ~Crashed, Stacked, Spare,
         DispatcherNext, UnwindStartWaiting \/ PopStart \/ PopWaiting
  PROVE  (~Crashed' => Stacked' /\ Spare') /\ OnlyMemoryAborts'
<1>1. \/ /\ UnwindStartWaiting /\ exec > 0 /\ finish
         /\ \E l : Prepare(l, "unwind", "resume")
      \/ PopStart /\ \E l : Prepare(l, "pop", "suspMain")
      \/ PopWaiting /\ exec = 0 /\ \E l : Prepare(l, "pop", "suspMainW")
  BY DEF UnwindStartWaiting, PopStart, PopWaiting
<1>2. PICK l, from, to :
        /\ Prepare(l, from, to)
        /\ \/ from = "unwind" /\ to = "resume" /\ exec > 0 /\ finish
           \/ from = "pop" /\ to = "suspMain"
           \/ from = "pop" /\ to = "suspMainW" /\ exec = 0
  BY <1>1
<1>3. UNCHANGED <<status, signalVars>>
  BY <1>1 DEF UnwindStartWaiting, PopStart, PopWaiting
<1>4. /\ exec' = exec + 1
      /\ \/ dpc' = "aborted" /\ exec' >= size'
         \/ /\ dpc' = to /\ Spare' /\ Rests(exec)'
            /\ \A e \in Executors : e <= exec => Same(e)
  BY <1>2, <1>3, PrepareRests
<1>5. CASE dpc' = "aborted" /\ exec' >= size'
  BY <1>5 DEF Crashed, OnlyMemoryAborts
<1>6. CASE /\ dpc' = to /\ Spare' /\ Rests(exec)'
           /\ \A e \in Executors : e <= exec => Same(e)
  <2>1. /\ dpc = from /\ exec \in Nat /\ exec \in Executors /\ Main \in Executors
        /\ Main = 0 /\ Executors \subseteq Nat /\ dpc' # "aborted"
    BY <1>2, <1>6, AtTurn, Constant DEF Prepare, Disp, Main
  <2>2. \A e \in Executors : e <= exec => InRole(e)
    BY <1>6, SameInRole
  <2>3. Deep(exec)
    BY <1>2, <2>1 DEF Stacked
  <2>4. \A e \in Executors : e < exec => Below(e)'
    BY <2>1, <2>2, <2>3 DEF Deep, InRole
  <2>5. CASE from = "unwind"
    <3>1. Below(exec)
      BY <1>2, <2>1, <2>5 DEF Stacked
    <3>2. Below(exec) => \A d : d = exec => Below(d)'
      BY <2>1, <2>2 DEF InRole
    <3>3. \A e \in Executors : e < exec + 1 => Below(e)'
      <4>1. \A e \in Executors : e < exec + 1 => e < exec \/ e = exec
        BY <2>1
      <4>2. QED BY <2>4, <3>1, <3>2, <4>1
    <3>4. Deep(exec)'
      BY <1>4, <3>3 DEF Deep
    <3>5. QED BY <1>2, <1>4, <1>6, <2>1, <2>5, <3>4 DEF Stacked, OnlyMemoryAborts
  <2>6. CASE from = "pop"
    <3>1. Works(exec) \/ (exec = 0 /\ Below(Main))
      BY <1>2, <2>1, <2>6 DEF Stacked
    <3>2. /\ Works(exec) => \A d : d = exec => Works(d)'
          /\ exec = 0 /\ Below(Main) => Below(Main)'
      BY <2>1, <2>2 DEF InRole
    <3>3. exec' - 1 = exec /\ exec' > 0
      BY <1>4, <2>1
    <3>4. Works(exec - 1)' \/ (exec' = 1 /\ Below(Main)')
      BY <1>4, <2>1, <3>1, <3>2, <3>3
    <3>5. Deep(exec - 1)'
      BY <2>4, <3>3 DEF Deep
    <3>6. to = "suspMainW" => exec' = 1
      BY <1>2, <1>4
    <3>7. QED BY <1>2, <1>6, <2>1, <2>6, <3>3, <3>4, <3>5, <3>6 DEF Stacked, OnlyMemoryAborts
  <2>7. QED BY <1>2, <2>5, <2>6
<1>7. QED BY <1>4, <1>5, <1>6

-----------------------------------------------------------------------------
(***************************************************************************)
(* The theorems.                                                           *)
(***************************************************************************)
(* No signal is sent to a dispatcher that does not exist: before its first *)
(* turn no handler ends.                                                   *)
LEMMA StepOf ==
  ASSUME CountersOK, Starting, Spare, Next
  PROVE  \/ UserNext \/ HandlerNext \/ DispatcherNext
         \/ \E e \in Executors : OwnNext(e)
<1>1. ASSUME NEW e \in Executors, dpc = "none" PROVE pc[e] # "sigKill"
  <2>1. CASE e = Main
    BY <1>1, <2>1 DEF Starting, Unborn, Parks, Parked, Comes, Runs
  <2>2. CASE e # Main
    <3>1. exec = 0 /\ e \in Workers /\ e > 0 /\ (e > size \/ e <= size)
      BY <1>1, <2>2, Constant DEF Starting, Unborn, Executors, Workers, CountersOK
    <3>2. QED BY <3>1 DEF Spare, Absent, Rests
  <2>3. QED BY <2>1, <2>2
<1>2. \A e \in Executors : ~SignalNobody(e)
  BY <1>1 DEF SignalNobody, Goes
<1>3. QED BY <1>2, Constant DEF Next, OwnNext

LEMMA PacedStep ==
  ASSUME Paced
  PROVE  IInv /\ WakeupCovered /\ PacedInv /\ [Next]_vars => PacedInv'
<1> SUFFICES ASSUME IInv, WakeupCovered, PacedInv, [Next]_vars PROVE PacedInv'
  OBVIOUS
<1>1. ThreadsOK /\ CountersOK /\ Room
  BY DEF IInv, TypeOK
<1>2. CASE UNCHANGED vars
  <2>1. /\ UNCHANGED <<dpc, upc, exec, size, finish, nreq, dresume, dstatus>>
        /\ UNCHANGED <<pc, status, suspends, resumes, stopped>>
    BY <1>2
    DEF vars, userVars, threadVars, signalVars, wakeVars, stackVars, irqVars,
        queueVars, historyVars, dispVars
  <2>2. Starting => Starting'
    BY <2>1 DEF Starting, Unborn, Parks, Parked, Comes, Runs, Untouched
  <2>3. \A e \in Executors : InRole(e)
    BY <2>1, SameInRole DEF Same
  <2>4. Leaves(exec) => Leaves(exec)'
    BY <2>1 DEF Leaves, Rests, Untouched
  <2>5. Stacked /\ Spare => Stacked' /\ Spare'
    BY <1>1, <2>1, <2>3, <2>4, RolesKept DEF Still
  <2>6. QED BY <2>1, <2>2, <2>5 DEF PacedInv, Crashed, OnlyMemoryAborts
<1>3. CASE Next
  <2>1. ~Crashed /\ Starting /\ Stacked /\ Spare /\ OnlyMemoryAborts
    BY <1>3 DEF Next, PacedInv
  <2>2. ASSUME NEW e \in Executors, OwnNext(e) PROVE PacedInv'
    <3>1. Starting' /\ Stacked' /\ Spare'
      BY <1>1, <2>1, <2>2, OwnStep
    <3>2. dpc' # "aborted"
      BY <2>1, <2>2, <1>1, OwnFrame DEF dispVars, Crashed
    <3>3. QED BY <3>1, <3>2 DEF PacedInv, OnlyMemoryAborts
  <2>3. CASE UserNext
    <3>1. Starting' /\ Stacked' /\ Spare'
      BY <1>1, <2>1, <2>3, UserStep
    <3>2. dpc' # "aborted"
      BY <2>1, <2>3
      DEF Crashed, UserNext, StartResume, StartKill, StartMode, StartReset,
          StartInit, StartCreate,
          StartWait, StartTimeout, Trigger, TriggerFull, TriggerCount,
          TriggerMark, TriggerStore, TriggerWake, dispVars
    <3>3. QED BY <3>1, <3>2 DEF PacedInv, OnlyMemoryAborts
  <2>4. CASE HandlerNext
    <3>1. Starting' /\ Stacked' /\ Spare'
      BY <1>1, <2>1, <2>4, HandlerStep
    <3>2. dpc' # "aborted"
      BY <2>1, <2>4 DEF Crashed, HandlerNext, WorkerReturn, MainReturn, dispVars
    <3>3. QED BY <3>1, <3>2 DEF PacedInv, OnlyMemoryAborts
  <2>5. CASE DispatcherNext
    <3>1. Starting'
      BY <2>1, <2>5, DispStarting
    <3>2. (~Crashed' => Stacked' /\ Spare') /\ OnlyMemoryAborts'
      <4>1. CASE QuietNext
        BY <1>1, <2>1, <2>5, <4>1, QuietStep
      <4>2. CASE UnwindPop
        BY <1>1, <2>1, <2>5, <4>2, PopStep
      <4>3. CASE ResumeCond \/ StartCond \/ ResumeXchg \/ ResumeKill
        BY <1>1, <2>1, <2>5, <4>3, ResumeStep
      <4>4. CASE SuspendMain \/ SuspendOld \/ SuspendMainW
        BY <1>1, <2>1, <2>5, <4>4, PreemptStep
      <4>5. CASE MainXchg \/ MainKill
        BY <1>1, <2>1, <2>5, <4>5, MainStep
      <4>6. CASE UnwindStartWaiting \/ PopStart \/ PopWaiting
        BY <1>1, <2>1, <2>5, <4>6, PushStep
      <4>7. QED
        BY <2>5, <4>1, <4>2, <4>3, <4>4, <4>5, <4>6 DEF DispatcherNext, QuietNext
    <3>3. QED BY <3>1, <3>2 DEF PacedInv
  <2>6. QED
    BY <1>1, <1>3, <2>1, <2>2, <2>3, <2>4, <2>5, StepOf
<1>4. QED BY <1>2, <1>3

LEMMA PacedInit == Init => PacedInv
<1> SUFFICES ASSUME Init PROVE PacedInv
  OBVIOUS
<1>1. /\ dpc = "none" /\ upc = "start" /\ exec = 0 /\ size = Depth
      /\ suspends = {} /\ resumes = {} /\ stopped = {}
  BY DEF Init
<1>2. Starting
  <2>1. pc[Main] = "init" /\ status[Main] = "Init"
    <3>1. Main \notin 1 .. Depth
      BY DEF Main
    <3>2. QED BY <3>1, Constant DEF Init
  <2>2. QED BY <1>1, <2>1 DEF Starting, Unborn, Parks, Untouched
<1>3. Stacked
  BY <1>1 DEF Stacked
<1>4. Spare
  <2> SUFFICES ASSUME NEW w \in Workers
               PROVE  /\ w > Depth => Absent(w)
                      /\ w > 0 /\ w <= Depth => Rests(w)
    BY <1>1 DEF Spare
  <2>1. /\ w \in Executors /\ w # Main /\ (w \in 1 .. Depth <=> w <= Depth)
        /\ (w > Depth <=> ~(w <= Depth)) /\ Late \subseteq 1 .. Depth
    BY Constant, ConstantsAssumption DEF Workers
  <2>2. /\ status[w] = IF w \in (1 .. Depth) \ Late THEN "Done" ELSE "Init"
        /\ pc[w] = IF w \in Late \union {Main} THEN "init"
                   ELSE IF w \in 1 .. Depth THEN "wait" ELSE "none"
    BY <2>1 DEF Init
  <2>3. QED BY <1>1, <2>1, <2>2 DEF Absent, Rests, Untouched
<1>5. QED BY <1>1, <1>2, <1>3, <1>4 DEF PacedInv, OnlyMemoryAborts

LEMMA PacedInductive == ASSUME Paced PROVE Spec => []PacedInv
BY PacedInit, PacedStep, Inductive, WakeupsCovered, PTL DEF Spec

(* When all threads have settled, the executor that executing_worker names *)
(* runs its handler and no other thread runs wasm code.                    *)
THEOREM TopRuns == ASSUME Paced PROVE Spec => []ExecutingRuns
<1>1. ASSUME IInv, PacedInv PROVE ExecutingRuns
  <2> SUFFICES ASSUME Settled, NEW e \in Executors
               PROVE  Running(e) <=> (e = exec /\ pc[e] # "ended")
    BY DEF ExecutingRuns
  <2>1. CountersOK /\ Room /\ Stacked /\ Spare
    BY <1>1 DEF IInv, TypeOK, PacedInv, Settled, Crashed
  <2>2. exec \in Nat /\ e \in Nat /\ size \in Nat
    BY <2>1, Constant DEF CountersOK
  <2>3. e < exec \/ e = exec \/ (e > exec /\ e <= size) \/ e > size
    BY <2>2
  <2>4. /\ e < exec => Stopped(e) \/ Gone(e)
        /\ e = exec => Going(e) \/ Gone(e)
        /\ e > exec /\ e <= size => Idle(e)
        /\ e > size => Absent(e)
    BY <2>1, AtRest
  <2>5. e < exec => e # exec
    BY <2>2
  <2>6. size > exec
    BY <2>1 DEF Room, Settled
  <2>7. e > size \/ e > exec => e # exec
    BY <2>2, <2>6
  <2>8. QED
    BY <2>3, <2>4, <2>5, <2>7
    DEF Running, Stopped, Gone, Going, Idle, Absent, Untouched
<1>2. QED BY <1>1, Inductive, PacedInductive, PTL

(* The executors below it are stopped in wasm code, marked Suspended, and  *)
(* no signal is on its way that would let one of them go on.               *)
THEOREM InterruptedStay == ASSUME Paced PROVE Spec => []InterruptedAreStopped
<1>1. ASSUME IInv, PacedInv PROVE InterruptedAreStopped
  <2> SUFFICES ASSUME Settled, NEW e \in Executors, e < exec, pc[e] # "ended"
               PROVE  Stopped(e)
    BY DEF InterruptedAreStopped, Stopped
  <2>1. CountersOK /\ Room /\ Stacked /\ Spare
    BY <1>1 DEF IInv, TypeOK, PacedInv, Settled, Crashed
  <2>2. QED BY <2>1, AtRest DEF Gone
<1>2. QED BY <1>1, Inductive, PacedInductive, PTL

(* The workers above it are Done and wait on their condition variables, so *)
(* that the next request can start one, however often the memory of        *)
(* workers has grown.                                                      *)
THEOREM IdleWait == ASSUME Paced PROVE Spec => []IdleWorkersWait
<1>1. ASSUME IInv, PacedInv PROVE IdleWorkersWait
  <2> SUFFICES ASSUME Settled, NEW w \in Workers, w > exec, w <= size
               PROVE  Idle(w)
    BY DEF IdleWorkersWait, Idle, Untouched
  <2>1. CountersOK /\ Room /\ Stacked /\ Spare
    BY <1>1 DEF IInv, TypeOK, PacedInv, Settled, Crashed
  <2>2. QED BY <2>1, AtRest, Constant
<1>2. QED BY <1>1, Inductive, PacedInductive, PTL

(* The assertions of _th_dispatcher on the main function's status hold     *)
(* when its events are paced (a run shows that they fail otherwise): only  *)
(* the assertion on span_resize can end the process.                       *)
THEOREM AbortsForMemory == ASSUME Paced PROVE Spec => []OnlyMemoryAborts
<1>1. PacedInv => OnlyMemoryAborts
  BY DEF PacedInv
<1>2. QED BY <1>1, PacedInductive, PTL

-----------------------------------------------------------------------------
(***************************************************************************)
(* The channel and the count of requests.  An event from outside finds     *)
(* both empty and the dispatcher asleep; it is the only one until the      *)
(* dispatcher has answered it.                                             *)
(***************************************************************************)
Signalling == {"sigAdd", "sigXchg", "sigStore", "sigKill"}
Quiet(e) == pc[e] \notin {"done"} \union Signalling
NoSignals == upc \notin Signalling /\ \A e \in Executors : Quiet(e)

Empty == nreq = 0 /\ ready = <<>>

(* One request, with the line that was triggered unless it is a handler    *)
(* that has ended.                                                         *)
Asked == nreq = 1 /\ Len(ready) <= 1 /\ (ready # <<>> => Works(exec))

(* The user's thread is in vidispatcher_trigger_interrupt, past the push. *)
UserAsks ==
  /\ upc \in Signalling /\ \A e \in Executors : Quiet(e)
  /\ ~dresume
  /\ Len(ready) = 1 /\ Works(exec)
  /\ nreq = IF upc = "sigAdd" THEN 0 ELSE 1
  /\ upc \in {"sigAdd", "sigXchg"} => dstatus # "Working"

(* The executor on top of the stack has left its wasm code. *)
TopAsks ==
  /\ upc \notin Signalling /\ ~Quiet(exec) /\ Untouched(exec)
  /\ \A e \in Executors : e # exec => Quiet(e)
  /\ ~dresume
  /\ ready = <<>>
  /\ nreq = IF pc[exec] \in {"done", "sigAdd"} THEN 0 ELSE 1
  /\ pc[exec] \in {"done", "sigAdd", "sigXchg"} => dstatus # "Working"

ChannelInv ==
  /\ dpc # "asleep" => NoSignals /\ ~dresume
  /\ dpc \notin {"asleep", "check", "wake", "consume", "unwind", "pop"} => Empty
  /\ dpc = "asleep" => \/ Empty /\ NoSignals /\ ~dresume
                       \/ UserAsks
                       \/ TopAsks
                       \/ Asked /\ NoSignals /\ dresume
  /\ dpc = "check" => Empty \/ Asked
  /\ dpc \in {"wake", "consume"} => Asked
  /\ dpc \in {"unwind", "pop"} => nreq = 0 /\ Len(ready) <= 1
  /\ dpc = "unwind" /\ ready # <<>> => ~finish /\ Works(exec)

(* An executor that is not signalling does not begin to by itself. *)
LEMMA OwnQuiet ==
  ASSUME ThreadsOK, NEW e \in Executors, OwnNext(e)
  PROVE  /\ Quiet(e) => Quiet(e)' /\ UNCHANGED wakeVars
         /\ ready' = ready
<1>1. pc \in [Executors -> MainPcs \union WorkerPcs]
  BY DEF ThreadsOK
<1> USE <1>1
    DEF Quiet, Signalling, wakeVars, threadVars, signalVars, irqVars, stackVars,
        queueVars, Goes
<1>2. CASE ExecutorNext(e) /\ ~SignalNobody(e)
  BY <1>2
  DEF ExecutorNext, DeliverSuspend, DeliverResume, SignalCount, SignalMark,
      SignalStore, SignalWake
<1>3. CASE e = Main /\ MainNext
  BY <1>3 DEF MainNext, MainPark, MainUnpark, MainBegin, MainEnd
<1>4. CASE e \in Workers /\ WorkerNext(e)
  BY <1>4
  DEF WorkerNext, WorkerReady, WorkerTake, WorkerWait, WorkerLock, WorkerUnlock,
      WorkerCall, WorkerDone
<1>5. QED BY <1>2, <1>3, <1>4 DEF OwnNext

(* One that is signals the dispatcher and, while the dispatcher is not     *)
(* Working, wakes it.                                                      *)
LEMMA OwnAsks ==
  ASSUME ThreadsOK, CountersOK, NEW e \in Executors, OwnNext(e), ~Quiet(e),
         Untouched(e), ~dresume,
         nreq = IF pc[e] \in {"done", "sigAdd"} THEN 0 ELSE 1,
         pc[e] \in {"done", "sigAdd", "sigXchg"} => dstatus # "Working"
  PROVE  \/ /\ ~Quiet(e)' /\ Untouched(e)' /\ ~dresume'
            /\ nreq' = IF pc'[e] \in {"done", "sigAdd"} THEN 0 ELSE 1
            /\ pc'[e] \in {"done", "sigAdd", "sigXchg"} => dstatus' # "Working"
         \/ Quiet(e)' /\ dresume' /\ nreq' = 1
<1>1. /\ pc \in [Executors -> MainPcs \union WorkerPcs]
      /\ pc[e] \in {"done"} \union Signalling /\ nreq \in Nat
  BY DEF ThreadsOK, CountersOK, Quiet
<1> USE <1>1
    DEF Quiet, Signalling, Untouched, wakeVars, threadVars, signalVars, Goes
<1>2. CASE ExecutorNext(e) /\ ~SignalNobody(e)
  <2>1. CASE DeliverSuspend(e) \/ DeliverResume(e)
    BY <2>1 DEF DeliverSuspend, DeliverResume, SuspendDue
  <2>2. CASE SignalCount(e)
    BY <2>2 DEF SignalCount, CountRequest
  <2>3. CASE SignalMark(e)
    BY <2>3 DEF SignalMark, MarkWorking
  <2>4. CASE SignalStore(e)
    BY <2>4 DEF SignalStore, MarkWorking
  <2>5. CASE SignalWake(e)
    BY <2>5 DEF SignalWake, Wake, AfterSignal
  <2>6. QED BY <1>2, <2>1, <2>2, <2>3, <2>4, <2>5 DEF ExecutorNext
<1>3. CASE e = Main /\ MainNext
  BY <1>3 DEF MainNext, MainPark, MainUnpark, MainBegin, MainEnd
<1>4. CASE e \in Workers /\ WorkerNext(e)
  BY <1>4
  DEF WorkerNext, WorkerReady, WorkerTake, WorkerWait, WorkerLock, WorkerUnlock,
      WorkerCall, WorkerDone
<1>5. QED BY <1>2, <1>3, <1>4 DEF OwnNext

LEMMA OwnChannel ==
  ASSUME ThreadsOK, CountersOK, NEW e \in Executors, OwnNext(e), ChannelInv
  PROVE  ChannelInv'
<1>1. /\ UNCHANGED <<upc, exec, dpc, finish, ready>> /\ exec \in Executors
  BY OwnFrame, OwnQuiet, OnTheStack
  DEF userVars, stackVars, dispVars, CountersOK
<1>2. \A d \in Executors : d # e => Same(d)
  BY OwnSame
<1>3. Works(exec) => Works(exec)'
  <2>1. InRole(exec)
    BY <1>1, <1>2, OwnInRole, SameInRole
  <2>2. QED BY <1>1, <2>1 DEF InRole
<1>4. \A d \in Executors : d # e => (Quiet(d)' <=> Quiet(d))
  BY <1>2 DEF Same, Quiet
<1>5. CASE Quiet(e)
  <2>1. Quiet(e)' /\ UNCHANGED <<nreq, dresume, dstatus>>
    BY <1>5, OwnQuiet DEF wakeVars
  <2>2. \A d \in Executors : Quiet(d)' <=> Quiet(d)
    BY <1>4, <1>5, <2>1
  <2>3. NoSignals => NoSignals'
    BY <1>1, <2>2 DEF NoSignals
  <2>4. UserAsks => UserAsks'
    BY <1>1, <1>3, <2>1, <2>2 DEF UserAsks
  <2>5. TopAsks => TopAsks'
    <3> SUFFICES ASSUME TopAsks PROVE TopAsks'
      OBVIOUS
    <3>1. exec # e
      BY <1>5 DEF TopAsks
    <3>2. pc'[exec] = pc[exec] /\ (Untouched(exec) => Untouched(exec)')
      BY <1>1, <1>2, <3>1 DEF Same, Untouched
    <3>3. QED BY <1>1, <2>1, <2>2, <3>2 DEF TopAsks
  <2>6. (Empty => Empty') /\ (Asked => Asked')
    BY <1>1, <1>3, <2>1 DEF Empty, Asked
  <2>7. QED BY <1>1, <1>3, <2>1, <2>3, <2>4, <2>5, <2>6 DEF ChannelInv
<1>6. CASE ~Quiet(e)
  <2>1. dpc = "asleep" /\ TopAsks /\ e = exec
    BY <1>6 DEF ChannelInv, NoSignals, UserAsks, TopAsks
  <2>2. \A d \in Executors : d # exec => Quiet(d)'
    BY <1>4, <2>1 DEF TopAsks
  <2>3. \/ /\ ~Quiet(exec)' /\ Untouched(exec)' /\ ~dresume'
           /\ nreq' = IF pc'[exec] \in {"done", "sigAdd"} THEN 0 ELSE 1
           /\ pc'[exec] \in {"done", "sigAdd", "sigXchg"} => dstatus' # "Working"
        \/ Quiet(exec)' /\ dresume' /\ nreq' = 1
    <3>1. \/ /\ ~Quiet(e)' /\ Untouched(e)' /\ ~dresume'
             /\ nreq' = IF pc'[e] \in {"done", "sigAdd"} THEN 0 ELSE 1
             /\ pc'[e] \in {"done", "sigAdd", "sigXchg"} => dstatus' # "Working"
          \/ Quiet(e)' /\ dresume' /\ nreq' = 1
      BY <1>6, <2>1, OwnAsks DEF TopAsks
    <3>2. QED BY <1>1, <2>1, <3>1 DEF Quiet, Untouched
  <2>4. TopAsks' \/ (Asked' /\ NoSignals' /\ dresume')
    <3>1. upc' \notin Signalling /\ ready' = <<>>
      BY <1>1, <2>1 DEF TopAsks
    <3>2. CASE /\ ~Quiet(exec)' /\ Untouched(exec)' /\ ~dresume'
               /\ nreq' = IF pc'[exec] \in {"done", "sigAdd"} THEN 0 ELSE 1
               /\ pc'[exec] \in {"done", "sigAdd", "sigXchg"} => dstatus' # "Working"
      BY <1>1, <2>2, <3>1, <3>2 DEF TopAsks
    <3>3. CASE Quiet(exec)' /\ dresume' /\ nreq' = 1
      <4>1. NoSignals'
        BY <1>1, <2>2, <3>1, <3>3 DEF NoSignals, Quiet
      <4>2. Asked'
        BY <3>1, <3>3 DEF Asked
      <4>3. QED BY <3>3, <4>1, <4>2
    <3>4. QED BY <2>3, <3>2, <3>3
  <2>5. QED BY <1>1, <2>1, <2>4 DEF ChannelInv
<1>7. QED BY <1>5, <1>6

(* What an event from outside finds. *)
LEMMA NothingLeft ==
  ASSUME Settled, CountersOK, Stacked, ChannelInv, WakeupCovered
  PROVE  /\ dpc = "asleep" /\ Empty /\ NoSignals /\ ~dresume /\ Works(exec)
         /\ dstatus # "Working"
<1>1. /\ OthersSettled /\ dpc = "asleep" /\ ~dresume
      /\ upc \in {"idle", "gaveUp"} /\ exec \in Executors
  BY OnTheStack DEF Settled, OthersSettled, CountersOK
<1>2. ~UserAsks
  BY <1>1 DEF UserAsks, Signalling
<1>3. ~TopAsks
  BY <1>1 DEF TopAsks, Quiet, Signalling, OthersSettled, Unsettled, Untouched
<1>4. Empty /\ NoSignals
  BY <1>1, <1>2, <1>3 DEF ChannelInv
<1>5. Works(exec)
  BY <1>1, NoneLeaves DEF Stacked
<1>6. dstatus # "Working"
  BY <1>1, <1>4 DEF WakeupCovered, NoSignals, Quiet, Signalling
<1>7. QED BY <1>1, <1>4, <1>5, <1>6

LEMMA UserChannel ==
  ASSUME Paced, ThreadsOK, CountersOK, Starting, Stacked, WakeupCovered, ChannelInv,
         UserNext
  PROVE  ChannelInv'
<1> USE DEF userVars, threadVars, signalVars, wakeVars, stackVars, irqVars, queueVars,
        historyVars, dispVars, User
<1>1. CASE \/ StartResume \/ StartKill \/ StartMode
           \/ StartReset \/ StartInit \/ StartCreate
  <2>1. dpc = "none" /\ Empty /\ NoSignals /\ ~dresume
    <3>1. upc \in Unborn
      BY <1>1
      DEF Unborn, StartResume, StartKill, StartMode, StartReset, StartInit, StartCreate
    <3>2. QED BY <3>1 DEF Starting, Unborn, ChannelInv
  <2>2. /\ dpc' \in {"none", "begin"} /\ nreq' = 0 /\ ready' = <<>>
        /\ dresume' = FALSE /\ pc' = pc /\ upc' \notin Signalling
    <3>1. CASE StartResume \/ StartKill
      BY <2>1, <3>1 DEF StartResume, StartKill, Empty, Signalling
    <3>2. CASE StartMode
      BY <2>1, <3>2 DEF StartMode, Empty, Signalling
    <3>3. CASE StartReset \/ StartInit \/ StartCreate
      BY <2>1, <3>3 DEF StartReset, StartInit, StartCreate, Empty, Signalling
    <3>4. QED BY <1>1, <3>1, <3>2, <3>3
  <2>3. NoSignals' /\ Empty'
    BY <2>1, <2>2 DEF NoSignals, Quiet, Empty
  <2>4. QED BY <2>2, <2>3 DEF ChannelInv
<1>2. CASE StartWait \/ TriggerFull
  <2>1. /\ UNCHANGED <<dpc, finish, nreq, dresume, dstatus, ready, exec>>
        /\ UNCHANGED <<pc, status, suspends, resumes, stopped>>
        /\ upc \notin Signalling /\ upc' \notin Signalling
    BY <1>2 DEF StartWait, TriggerFull, Signalling
  <2>2. /\ Works(exec)' <=> Works(exec)
        /\ \A e \in Executors : Quiet(e)' <=> Quiet(e)
        /\ Untouched(exec)' <=> Untouched(exec)
        /\ Quiet(exec)' <=> Quiet(exec)
    BY <2>1 DEF Works, Runs, Starts, Ends, Untouched, Quiet
  <2>3. /\ NoSignals => NoSignals'
        /\ Empty => Empty'
        /\ Asked => Asked'
        /\ TopAsks => TopAsks'
    BY <2>1, <2>2 DEF NoSignals, Empty, Asked, TopAsks
  <2>4. ~UserAsks
    BY <2>1 DEF UserAsks
  <2>5. QED BY <2>1, <2>2, <2>3, <2>4 DEF ChannelInv
<1>3. ~StartTimeout
  BY DEF StartTimeout
<1>4. ASSUME NEW l \in Lines, Trigger(l) PROVE ChannelInv'
  <2>1. /\ dpc = "asleep" /\ Empty /\ NoSignals /\ ~dresume /\ Works(exec)
        /\ dstatus # "Working"
    BY <1>4, NothingLeft DEF Trigger, Calm
  <2>2. /\ UNCHANGED <<dpc, nreq, dresume, dstatus, exec>>
        /\ UNCHANGED <<pc, status, suspends, resumes, stopped>>
        /\ upc' = "sigAdd" /\ ready' = Append(ready, l)
    BY <1>4 DEF Trigger
  <2>3. Len(ready') = 1
    BY <2>1, <2>2 DEF Empty
  <2>4. Works(exec)' /\ \A e \in Executors : Quiet(e)'
    BY <2>1, <2>2 DEF Works, Runs, Starts, Ends, Untouched, NoSignals, Quiet
  <2>5. UserAsks'
    BY <2>1, <2>2, <2>3, <2>4 DEF UserAsks, Signalling, Empty
  <2>6. QED BY <2>1, <2>2, <2>5 DEF ChannelInv
<1>5. CASE TriggerCount \/ TriggerMark \/ TriggerStore \/ TriggerWake
  <2>1. dpc = "asleep" /\ UserAsks
    <3>1. upc \in Signalling
      BY <1>5 DEF TriggerCount, TriggerMark, TriggerStore, TriggerWake, Signalling
    <3>2. QED BY <3>1 DEF ChannelInv, NoSignals, TopAsks
  <2>2. /\ UNCHANGED <<dpc, ready, exec>>
        /\ UNCHANGED <<pc, status, suspends, resumes, stopped>>
    BY <1>5 DEF TriggerCount, TriggerMark, TriggerStore, TriggerWake
  <2>3. Works(exec)' /\ \A e \in Executors : Quiet(e)'
    BY <2>1, <2>2 DEF Works, Runs, Starts, Ends, Untouched, UserAsks, Quiet
  <2>4. CASE TriggerCount \/ TriggerMark \/ TriggerStore
    <3>1. /\ upc' \in Signalling /\ ~dresume'
          /\ nreq' = IF upc' = "sigAdd" THEN 0 ELSE 1
          /\ upc' \in {"sigAdd", "sigXchg"} => dstatus' # "Working"
      BY <2>1, <2>4
      DEF TriggerCount, TriggerMark, TriggerStore, CountRequest, MarkWorking,
          UserAsks, Signalling
    <3>2. UserAsks'
      BY <2>1, <2>2, <2>3, <3>1 DEF UserAsks
    <3>3. QED BY <2>1, <2>2, <3>2 DEF ChannelInv
  <2>5. CASE TriggerWake
    <3>1. upc' = "idle" /\ dresume' /\ nreq' = 1
      BY <2>1, <2>5 DEF TriggerWake, Wake, UserAsks
    <3>2. Asked' /\ NoSignals'
      BY <2>1, <2>2, <2>3, <3>1 DEF Asked, NoSignals, UserAsks, Signalling
    <3>3. QED BY <2>1, <2>2, <3>1, <3>2 DEF ChannelInv
  <2>6. QED BY <1>5, <2>4, <2>5
<1>6. QED BY <1>1, <1>2, <1>3, <1>4, <1>5 DEF UserNext

LEMMA HandlerChannel ==
  ASSUME Paced, ThreadsOK, CountersOK, Room, Stacked, Spare, WakeupCovered,
         ChannelInv, HandlerNext
  PROVE  ChannelInv'
<1> USE DEF userVars, signalVars, wakeVars, stackVars, irqVars, queueVars, dispVars
<1>1. /\ Settled /\ Going(exec) /\ exec \in Executors /\ dstatus # "Working"
      /\ pc' = [pc EXCEPT ![exec] = IF exec = Main THEN "sigAdd" ELSE "done"]
      /\ UNCHANGED <<userVars, status, signalVars, wakeVars, irqVars, dispVars>>
  BY TopEnds
<1>2. dpc = "asleep" /\ Empty /\ NoSignals /\ ~dresume
  BY <1>1, NothingLeft
<1>3. /\ pc'[exec] \in {"done", "sigAdd"}
      /\ \A e \in Executors : e # exec => pc'[e] = pc[e]
  BY <1>1 DEF ThreadsOK
<1>4. \A e \in Executors : e # exec => Quiet(e)'
  BY <1>2, <1>3 DEF NoSignals, Quiet
<1>5. ~Quiet(exec)' /\ Untouched(exec)'
  BY <1>1, <1>3 DEF Quiet, Signalling, Untouched, Going
<1>6. TopAsks'
  BY <1>1, <1>2, <1>3, <1>4, <1>5 DEF TopAsks, NoSignals, Empty
<1>7. QED BY <1>1, <1>2, <1>6 DEF ChannelInv

(* The dispatcher signals nobody to signal it. *)
LEMMA DispQuiet ==
  ASSUME ThreadsOK, DispatcherNext
  PROVE  /\ NoSignals => NoSignals'
         /\ ~dresume => ~dresume'
<1>1. \A e \in Executors : pc'[e] = pc[e] \/ pc'[e] \in {"woken", "init"}
  <2>1. CASE \/ DispBegin \/ DispCheck \/ DispPark \/ DispAwake \/ DispWake \/ DispConsume
             \/ UnwindPop \/ UnwindResume \/ UnwindEnd
             \/ ResumeTest \/ ResumeXchg \/ ResumeKill
             \/ PopDefer \/ PopNothing
             \/ SuspendMain \/ SuspendOldTest \/ SuspendOld \/ SuspendMainW \/ AssertW
             \/ StartTest \/ Assert \/ MainTest \/ MainXchg \/ MainKill \/ Report
    BY <2>1
    DEF DispBegin, DispCheck, DispPark, DispAwake, DispWake, DispConsume, UnwindPop,
        UnwindResume, UnwindEnd, ResumeTest, ResumeXchg, ResumeKill,
        PopDefer, PopNothing, SuspendMain, SuspendOldTest, SuspendOld, SuspendMainW,
        AssertW, StartTest, Assert, MainTest, MainXchg, MainKill, Report, threadVars
  <2>2. CASE ResumeCond \/ StartCond
    BY <2>2 DEF ResumeCond, StartCond, CondSignal, ThreadsOK
  <2>3. CASE UnwindStartWaiting \/ PopStart \/ PopWaiting
    BY <2>3 DEF UnwindStartWaiting, PopStart, PopWaiting, Prepare
  <2>4. QED BY <2>1, <2>2, <2>3 DEF DispatcherNext
<1>2. upc' = upc
  BY DEF DispatcherNext, DispBegin, DispCheck, DispPark, DispAwake, DispWake,
         DispConsume, UnwindPop, UnwindStartWaiting, UnwindResume, UnwindEnd,
         ResumeTest, ResumeCond, ResumeXchg, ResumeKill, PopStart, PopDefer,
         PopWaiting, PopNothing, SuspendMain, SuspendOldTest, SuspendOld,
         SuspendMainW, AssertW, StartTest, StartCond, Assert, MainTest, MainXchg,
         MainKill, Report, userVars
<1>3. dresume' = dresume \/ dresume' = FALSE
  BY DEF DispatcherNext, DispBegin, DispCheck, DispPark, DispAwake, DispWake,
         DispConsume, UnwindPop, UnwindStartWaiting, UnwindResume, UnwindEnd,
         ResumeTest, ResumeCond, ResumeXchg, ResumeKill, PopStart, PopDefer,
         PopWaiting, PopNothing, SuspendMain, SuspendOldTest, SuspendOld,
         SuspendMainW, AssertW, StartTest, StartCond, Assert, MainTest, MainXchg,
         MainKill, Report, wakeVars
<1>4. QED BY <1>1, <1>2, <1>3 DEF NoSignals, Quiet, Signalling

(* One request taken from the channel leaves it empty. *)
LEMMA TakeOne ==
  ASSUME QueuesOK, Len(ready) <= 1, ready # <<>> PROVE Tail(ready) = <<>>
BY DEF QueuesOK

LEMMA DispChannel ==
  ASSUME Paced, ThreadsOK, CountersOK, QueuesOK, Stacked, ChannelInv, DispatcherNext
  PROVE  ~Crashed' => ChannelInv'
<1> SUFFICES ASSUME ~Crashed' PROVE ChannelInv'
  OBVIOUS
<1>0. dpc' \notin {"aborted", "segfault"}
  BY DEF Crashed
<1> USE DEF Disp, threadVars, signalVars, wakeVars, stackVars, irqVars, queueVars, dispVars
<1>1. CASE DispAwake \/ DispCheck \/ DispWake \/ DispConsume
  <2>1. /\ UNCHANGED <<pc, status, suspends, resumes, stopped, exec, ready>>
    BY <1>1 DEF DispAwake, DispCheck, DispWake, DispConsume
  <2>2. Works(exec)' <=> Works(exec)
    BY <2>1 DEF Works, Runs, Starts, Ends, Untouched
  <2>3. CASE DispAwake
    <3>1. Asked /\ NoSignals
      BY <2>3 DEF DispAwake, ChannelInv, UserAsks, TopAsks
    <3>2. NoSignals' /\ ~dresume'
      BY <2>3, <3>1, DispQuiet DEF DispAwake
    <3>3. Asked' /\ dpc' = "check"
      BY <2>1, <2>2, <2>3, <3>1 DEF DispAwake, Asked
    <3>4. QED BY <3>2, <3>3 DEF ChannelInv
  <2>4. CASE DispCheck \/ DispWake \/ DispConsume
    <3>1. NoSignals /\ ~dresume
      BY <2>4 DEF DispCheck, DispWake, DispConsume, ChannelInv
    <3>2. NoSignals' /\ ~dresume'
      BY <3>1, DispQuiet
    <3>3. CASE DispCheck
      <4>1. (Empty => Empty') /\ (Asked => Asked')
        BY <2>1, <2>2, <3>3 DEF DispCheck, Empty, Asked
      <4>2. Empty \/ Asked
        BY <3>3 DEF DispCheck, ChannelInv
      <4>3. /\ Empty => dpc' = "park"
            /\ Asked => dpc' = "wake"
        BY <3>3 DEF DispCheck, Empty, Asked
      <4>4. QED BY <3>2, <4>1, <4>2, <4>3 DEF ChannelInv
    <3>4. CASE DispWake
      <4>1. Asked' /\ dpc' = "consume"
        BY <2>1, <2>2, <3>4 DEF DispWake, Asked, ChannelInv
      <4>2. QED BY <3>2, <4>1 DEF ChannelInv
    <3>5. CASE DispConsume
      <4>1. Asked
        BY <3>5 DEF DispConsume, ChannelInv
      <4>2. dpc' = "unwind" /\ nreq' = 0 /\ ~finish'
        BY <3>5, <4>1 DEF DispConsume, Asked
      <4>3. QED BY <2>1, <2>2, <3>2, <4>1, <4>2 DEF ChannelInv, Asked
    <3>6. QED BY <2>4, <3>3, <3>4, <3>5
  <2>5. QED BY <1>1, <2>3, <2>4
<1>2. CASE UnwindPop \/ UnwindStartWaiting \/ UnwindResume \/ UnwindEnd
  <2>1. dpc = "unwind" /\ nreq' = nreq /\ ready' = ready
    BY <1>2 DEF UnwindPop, UnwindStartWaiting, UnwindResume, UnwindEnd, Prepare
  <2>2. NoSignals' /\ ~dresume'
    BY <2>1, DispQuiet DEF ChannelInv
  <2>3. nreq = 0 /\ Len(ready) <= 1 /\ (ready # <<>> => ~finish /\ Works(exec))
    BY <2>1 DEF ChannelInv
  <2>4. CASE UnwindPop
    <3>1. status[exec] = "Done" /\ exec > 0 /\ dpc' = "unwind"
      BY <2>4 DEF UnwindPop
    <3>2. ready = <<>>
      <4> SUFFICES ASSUME Works(exec) PROVE FALSE
        BY <2>3
      <4>1. Going(exec) \/ Gone(exec)
        BY AtTurn
      <4>2. exec # Main
        BY <3>1, AtTurn
      <4>3. QED BY <3>1, <4>1, <4>2 DEF Going, Gone
    <3>3. QED BY <2>1, <2>2, <2>3, <3>1, <3>2 DEF ChannelInv
  <2>5. CASE UnwindStartWaiting \/ UnwindResume
    <3>1. dpc' = "resume" /\ finish
      BY <1>0, <2>5 DEF UnwindStartWaiting, UnwindResume, Prepare
    <3>2. Empty'
      BY <2>1, <2>3, <3>1 DEF Empty
    <3>3. QED BY <2>2, <3>1, <3>2 DEF ChannelInv
  <2>6. CASE UnwindEnd
    <3>1. dpc' = "pop"
      BY <2>6 DEF UnwindEnd
    <3>2. QED BY <2>1, <2>2, <2>3, <3>1 DEF ChannelInv
  <2>7. QED BY <1>2, <2>4, <2>5, <2>6
<1>3. CASE PopStart \/ PopDefer \/ PopWaiting \/ PopNothing
  <2>1. /\ dpc = "pop" /\ nreq' = nreq
        /\ dpc' \in {"suspMain", "suspMainW", "assert"}
        /\ \/ ready # <<>> /\ ready' = Tail(ready)
           \/ ready = <<>> /\ ready' = ready
    BY <1>0, <1>3 DEF PopStart, PopDefer, PopWaiting, PopNothing, Prepare
  <2>2. NoSignals' /\ ~dresume'
    BY <2>1, DispQuiet DEF ChannelInv
  <2>3. Empty'
    BY <2>1, TakeOne DEF ChannelInv, Empty
  <2>4. QED BY <2>1, <2>2, <2>3 DEF ChannelInv
<1>4. CASE \/ DispBegin \/ DispPark \/ ResumeTest \/ ResumeCond \/ ResumeXchg \/ ResumeKill
           \/ SuspendMain \/ SuspendOldTest \/ SuspendOld \/ SuspendMainW \/ AssertW
           \/ StartTest \/ StartCond \/ Assert \/ MainTest \/ MainXchg \/ MainKill
           \/ Report
  <2>1. /\ dpc \notin {"asleep", "check", "wake", "consume", "unwind", "pop"}
        /\ dpc' \notin {"wake", "consume", "unwind", "pop"}
        /\ nreq' = nreq /\ ready' = ready
    BY <1>4
    DEF DispBegin, DispPark, ResumeTest, ResumeCond, ResumeXchg, ResumeKill,
        SuspendMain, SuspendOldTest, SuspendOld, SuspendMainW, AssertW, StartTest,
        StartCond, Assert, MainTest, MainXchg, MainKill, Report
  <2>2. NoSignals' /\ ~dresume'
    BY <2>1, DispQuiet DEF ChannelInv
  <2>3. Empty'
    BY <2>1 DEF ChannelInv, Empty
  <2>4. QED BY <2>1, <2>2, <2>3 DEF ChannelInv
<1>5. QED BY <1>1, <1>2, <1>3, <1>4 DEF DispatcherNext

LEMMA ChannelInductive ==
  ASSUME Paced PROVE Spec => [](~Crashed => ChannelInv)
<1>1. Init => ChannelInv
  <2> SUFFICES ASSUME Init PROVE ChannelInv
    OBVIOUS
  <2>1. dpc = "none" /\ upc = "start" /\ nreq = 0 /\ ready = <<>> /\ dresume = FALSE
    BY DEF Init
  <2>2. \A e \in Executors : pc[e] \in {"init", "wait", "none"}
    BY DEF Init
  <2>3. QED BY <2>1, <2>2 DEF ChannelInv, NoSignals, Quiet, Signalling, Empty
<1>2. ASSUME IInv, WakeupCovered, PacedInv, ~Crashed => ChannelInv, [Next]_vars
      PROVE  (~Crashed => ChannelInv)'
  <2>1. ThreadsOK /\ CountersOK /\ QueuesOK /\ Room
    BY <1>2 DEF IInv, TypeOK
  <2>2. CASE UNCHANGED vars
    <3>1. /\ UNCHANGED <<dpc, upc, exec, finish, nreq, dresume, dstatus, ready>>
          /\ UNCHANGED <<pc, status, suspends, resumes, stopped>>
      BY <2>2
      DEF vars, userVars, threadVars, signalVars, wakeVars, irqVars, stackVars,
          queueVars, dispVars
    <3>2. /\ Works(exec)' <=> Works(exec)
          /\ Untouched(exec)' <=> Untouched(exec)
          /\ Quiet(exec)' <=> Quiet(exec)
          /\ \A e \in Executors : Quiet(e)' <=> Quiet(e)
      BY <3>1 DEF Works, Runs, Starts, Ends, Untouched, Quiet
    <3>3. /\ NoSignals' <=> NoSignals
          /\ Empty' <=> Empty
          /\ Asked' <=> Asked
          /\ UserAsks' <=> UserAsks
          /\ TopAsks' <=> TopAsks
      BY <3>1, <3>2 DEF NoSignals, Empty, Asked, UserAsks, TopAsks
    <3>4. QED BY <1>2, <3>1, <3>2, <3>3 DEF ChannelInv, Crashed
  <2>3. CASE Next
    <3>1. ChannelInv /\ Starting /\ Stacked /\ Spare
      BY <1>2, <2>3 DEF Next, PacedInv
    <3>2. ASSUME NEW e \in Executors, OwnNext(e) PROVE ChannelInv'
      BY <2>1, <3>1, <3>2, OwnChannel
    <3>3. CASE UserNext
      BY <1>2, <2>1, <3>1, <3>3, UserChannel
    <3>4. CASE HandlerNext
      BY <1>2, <2>1, <3>1, <3>4, HandlerChannel
    <3>5. CASE DispatcherNext
      BY <2>1, <3>1, <3>5, DispChannel
    <3>6. QED
      BY <2>1, <2>3, <3>1, <3>2, <3>3, <3>4, <3>5, StepOf
  <2>4. QED BY <1>2, <2>2, <2>3
<1>3. QED
  BY <1>1, <1>2, Inductive, WakeupsCovered, PacedInductive, PTL DEF Spec

(* The dispatcher sleeps only when the channel is empty and n_requests is  *)
(* 0, once all threads have settled: each of its turns answers the one     *)
(* signal it was woken for, and takes the line that came with it.          *)
THEOREM NothingLeftBehind == ASSUME Paced PROVE Spec => []ChannelDrained
<1>1. ASSUME IInv, WakeupCovered, PacedInv, ~Crashed => ChannelInv
      PROVE  ChannelDrained
  <2> SUFFICES ASSUME Settled PROVE ready = <<>> /\ nreq = 0
    BY DEF ChannelDrained
  <2>1. CountersOK /\ Stacked /\ ChannelInv
    BY <1>1 DEF IInv, TypeOK, PacedInv, Settled, Crashed
  <2>2. QED BY <1>1, <2>1, NothingLeft DEF Empty
<1>2. QED
  BY <1>1, Inductive, WakeupsCovered, PacedInductive, ChannelInductive, PTL

-----------------------------------------------------------------------------
(***************************************************************************)
(* The requests.  minheap_push may leave the value it was given out (see   *)
(* HeapPush), so that a line that was deferred can be served as another    *)
(* one: what the dispatcher keeps is their number.  But it only defers a   *)
(* line while a higher one is in use, and everything the heap holds is a   *)
(* value that was deferred or the 0 of an unused cell, so that none of     *)
(* this reaches the highest line.                                          *)
(***************************************************************************)
(* A worker that was woken and has yet to call its handler. *)
Fetching(e) == pc[e] \in {"woken", "locked", "fetch"}

(* The worker on top was prepared for a request, and its handler has not   *)
(* been called.                                                            *)
Preparing == {"suspMain", "suspMainW", "suspOld", "suspXchg", "assertW", "start",
              "startCond", "resumeCond"}
Prepared == exec > 0 /\ \/ Fetching(exec)
                        \/ dpc \in Preparing
                        \/ dpc = "resume" /\ pc[exec] # "run"

One(b) == IF b THEN 1 ELSE 0

(* How many accepted requests were not served yet: in the channel, with a  *)
(* prepared worker, or in the wait queue.                                  *)
Pending == One(ready # <<>>) + One(Prepared) + waiting.len

(* A line higher than v, or at least as high, was triggered before.        *)
Higher(v) == \E k \in Lines : k > v /\ accepted[k] > 0
Used(v) == \E k \in Lines : k >= v /\ accepted[k] > 0

TopFetches == \A e \in Executors : Fetching(e) => e = exec /\ exec > 0 /\ Untouched(e)

Known == /\ \A c \in Cells : /\ waiting.data[c] \in Lines
                             /\ waiting.data[c] = 0 \/ Higher(waiting.data[c])
         /\ waiting.len > 0 => Higher(0)
         /\ \A w \in Workers : func[w] \in Lines /\ (func[w] = 0 \/ Used(func[w]))
         /\ ready # <<>> => accepted[Head(ready)] > 0

Kept == /\ IsFiniteSet(Requests(accepted)) /\ IsFiniteSet(Requests(served))
        /\ Total(served) + Pending <= Total(accepted)
        /\ Total(accepted) <= WaitCap => Total(served) + Pending = Total(accepted)

TopLine == \A l \in Lines :
             ~Higher(l) => accepted[l] = served[l] + One(ready = <<l>>)
                                         + One(Prepared /\ func[exec] = l)

Counted == Known /\ Kept /\ TopLine

AccountInv == TopFetches /\ Counted

(* One more request of a line is one more in all. *)
LEMMA InRequests ==
  ASSUME NEW f, NEW r
  PROVE  r \in Requests(f) <=> \E k \in Lines : \E n \in 1 .. f[k] : r = <<k, n>>
BY DEF Requests

LEMMA TotalType ==
  ASSUME NEW f, IsFiniteSet(Requests(f)) PROVE Total(f) \in Nat
BY FS_CardinalityType DEF Total

LEMMA TotalGrows ==
  ASSUME NEW f \in [Lines -> Nat], IsFiniteSet(Requests(f)), NEW l \in Lines,
         NEW g, g = [f EXCEPT ![l] = @ + 1]
  PROVE  IsFiniteSet(Requests(g)) /\ Total(g) = Total(f) + 1
<1>1. \A k \in Lines : g[k] = (IF k = l THEN f[k] + 1 ELSE f[k]) /\ f[k] \in Nat
  OBVIOUS
<1>2. Requests(g) = Requests(f) \union {<<l, f[l] + 1>>}
  <2>1. ASSUME NEW r \in Requests(g)
        PROVE  r \in Requests(f) \union {<<l, f[l] + 1>>}
    <3>1. PICK k \in Lines : \E n \in 1 .. g[k] : r = <<k, n>>
      <4>1. r \in UNION {{k} \X (1 .. g[k]) : k \in Lines}
        BY DEF Requests
      <4>2. PICK k \in Lines : r \in {k} \X (1 .. g[k])
        BY <4>1
      <4>3. QED BY <4>2
    <3>2. PICK n \in 1 .. g[k] : r = <<k, n>>
      BY <3>1
    <3>3. n \in 1 .. f[k] \/ (k = l /\ n = f[l] + 1)
      BY <1>1
    <3>4. QED BY <3>2, <3>3, InRequests
  <2>2. ASSUME NEW r \in Requests(f) PROVE r \in Requests(g)
    <3>1. PICK k \in Lines : \E n \in 1 .. f[k] : r = <<k, n>>
      BY InRequests
    <3>2. PICK n \in 1 .. f[k] : r = <<k, n>>
      BY <3>1
    <3>3. n \in 1 .. g[k]
      BY <1>1
    <3>4. QED BY <3>2, <3>3, InRequests
  <2>3. <<l, f[l] + 1>> \in Requests(g)
    <3>1. f[l] + 1 \in 1 .. g[l]
      BY <1>1
    <3>2. QED BY <3>1, InRequests
  <2>4. QED BY <2>1, <2>2, <2>3
<1>3. <<l, f[l] + 1>> \notin Requests(f)
  <2> SUFFICES ASSUME NEW k \in Lines, NEW n \in 1 .. f[k], <<l, f[l] + 1>> = <<k, n>>
               PROVE  FALSE
    BY InRequests
  <2>1. k = l /\ n = f[l] + 1
    OBVIOUS
  <2>2. QED BY <1>1, <2>1
<1>4. /\ IsFiniteSet(Requests(f) \union {<<l, f[l] + 1>>})
      /\ Cardinality(Requests(f) \union {<<l, f[l] + 1>>}) = Cardinality(Requests(f)) + 1
  BY <1>3, FS_AddElement, Zenon
<1>5. QED BY <1>2, <1>4, Zenon DEF Total

LEMMA NoRequests ==
  ASSUME NEW f, \A l \in Lines : f[l] = 0
  PROVE  IsFiniteSet(Requests(f)) /\ Total(f) = 0
<1>1. Requests(f) = {}
  BY InRequests
<1>2. QED BY <1>1, FS_EmptySet DEF Total

(* What a push or a pop leaves in the cells was in one of them before, or  *)
(* is the value that was pushed.                                           *)
LEMMA PushValues ==
  ASSUME NEW h \in Heaps, h.len < WaitCap, NEW v
  PROVE  /\ HeapPush(h, v).len = h.len + 1
         /\ \A c \in Cells : \/ HeapPush(h, v).data[c] = v
                             \/ \E d \in Cells : HeapPush(h, v).data[c] = h.data[d]
<1> DEFINE Moved(c) == IF c \notin Risen(h, v) THEN h.data[c]
                       ELSE IF ParentCell(c) \in Risen(h, v)
                       THEN h.data[ParentCell(c)]
                       ELSE v
           moved == [c \in Cells |-> Moved(c)]
           after == IF Risen(h, v) = {h.len} /\ h.len > 0 THEN h.data ELSE moved
<1>1. HeapPush(h, v) = [data |-> after, len |-> h.len + 1]
  BY DEF HeapPush
<1>2. Risen(h, v) \subseteq Cells
  BY DEF Risen
<1>3. \A c \in Cells : Moved(c) = v \/ \E d \in Cells : Moved(c) = h.data[d]
  BY <1>2
<1> HIDE DEF Moved
<1>4. \A c \in Cells : moved[c] = v \/ \E d \in Cells : moved[c] = h.data[d]
  BY <1>3
<1> HIDE DEF moved
<1>5. \A c \in Cells : after[c] = v \/ \E d \in Cells : after[c] = h.data[d]
  BY <1>4
<1> HIDE DEF after
<1>6. QED BY <1>1, <1>5

LEMMA PopValues ==
  ASSUME NEW h \in Heaps, h.len > 0
  PROVE  /\ HeapPop(h).len = h.len - 1
         /\ \A c \in Cells : \E d \in Cells : HeapPop(h).data[c] = h.data[d]
<1> DEFINE Moved(c) == IF c \notin Sunk(h) THEN h.data[c]
                       ELSE IF SmallerChild(h, c) \in Sunk(h)
                       THEN h.data[SmallerChild(h, c)]
                       ELSE h.data[h.len - 1]
           moved == [c \in Cells |-> Moved(c)]
<1>1. HeapPop(h) = [data |-> moved, len |-> h.len - 1]
  BY DEF HeapPop
<1>2. h.len - 1 \in Cells /\ 0 .. h.len - 2 \subseteq Cells
  BY WaitCapAssumption DEF Heaps, Cells
<1>3. Sunk(h) \subseteq Cells
  BY <1>2 DEF Sunk
<1>4. \A c \in Cells : \E d \in Cells : Moved(c) = h.data[d]
  BY <1>2, <1>3
<1> HIDE DEF Moved
<1>5. \A c \in Cells : \E d \in Cells : moved[c] = h.data[d]
  BY <1>4
<1> HIDE DEF moved
<1>6. QED BY <1>1, <1>5

(* A step that prepares nothing, calls no handler and leaves the queues.   *)
LEMMA SamePending ==
  ASSUME UNCHANGED <<ready, waiting, func, accepted, served>>, Counted,
         \/ ~Prepared /\ ~Prepared'
         \/ (Prepared' <=> Prepared) /\ exec' = exec
  PROVE  Counted'
<1>1. Pending' = Pending
  BY DEF Pending, One
<1>2. \A v : (Higher(v)' <=> Higher(v)) /\ (Used(v)' <=> Used(v))
  BY DEF Higher, Used
<1>3. Known'
  BY <1>2 DEF Counted, Known
<1>4. Kept'
  BY <1>1 DEF Counted, Kept
<1>5. TopLine'
  BY <1>2 DEF Counted, TopLine, One
<1>6. QED BY <1>3, <1>4, <1>5 DEF Counted

(* An executor's own step: only the call of the handler changes anything,  *)
(* and it serves the request that was prepared.                            *)
LEMMA CallServes ==
  ASSUME ThreadsOK, CountersOK, QueuesOK, Stacked, AccountInv,
         NEW e \in Workers, WorkerCall(e)
  PROVE  AccountInv'
<1>1. /\ UNCHANGED <<exec, dpc, func, ready, waiting, accepted>>
      /\ UNCHANGED <<suspends, resumes, stopped>>
      /\ pc[e] = "fetch" /\ pc' = [pc EXCEPT ![e] = "run"]
      /\ served' = [served EXCEPT ![func[e]] = @ + 1]
  BY DEF WorkerCall, Goes, stackVars, dispVars, queueVars, signalVars
<1>2. e \in Executors /\ e = exec /\ exec > 0
  BY <1>1, Constant DEF AccountInv, TopFetches, Fetching
<1>3. \A d \in Executors : pc'[d] = IF d = e THEN "run" ELSE pc[d]
  BY <1>1, <1>2 DEF ThreadsOK
<1>4. TopFetches'
  BY <1>1, <1>3 DEF AccountInv, TopFetches, Fetching, Untouched
<1>5. Prepared
  BY <1>1, <1>2 DEF Prepared, Fetching
<1>6. ~Prepared'
  <2>1. ~Rests(exec)
    BY <1>1, <1>2 DEF Rests
  <2>2. dpc \notin Preparing
    BY <2>1 DEF Stacked, Preparing
  <2>3. QED BY <1>1, <1>2, <1>3, <2>2 DEF Prepared, Fetching
<1>7. func[exec] \in Lines
  BY <1>2 DEF AccountInv, Counted, Known
<1>8. \A v : (Higher(v)' <=> Higher(v)) /\ (Used(v)' <=> Used(v))
  BY <1>1 DEF Higher, Used
<1>9. Known'
  BY <1>1, <1>8 DEF AccountInv, Counted, Known
<1>10. Kept'
  <2>1. /\ IsFiniteSet(Requests(accepted)) /\ IsFiniteSet(Requests(served))
        /\ Total(served) + Pending <= Total(accepted)
        /\ Total(accepted) <= WaitCap => Total(served) + Pending = Total(accepted)
    BY DEF AccountInv, Counted, Kept
  <2>2. IsFiniteSet(Requests(served')) /\ Total(served') = Total(served) + 1
    BY <1>1, <1>2, <1>7, <2>1, TotalGrows DEF CountersOK
  <2>3. Pending = Pending' + 1 /\ Pending' \in Nat
    <3>1. waiting.len \in Nat
      BY DEF QueuesOK, Heaps
    <3>2. QED BY <1>1, <1>5, <1>6, <3>1 DEF Pending, One
  <2>4. Total(served) \in Nat /\ Total(accepted) \in Nat
    BY <2>1, TotalType
  <2>5. /\ Total(served') + Pending' <= Total(accepted)
        /\ Total(accepted) <= WaitCap => Total(served') + Pending' = Total(accepted)
    BY <2>1, <2>2, <2>3, <2>4
  <2>6. QED BY <1>1, <2>1, <2>2, <2>5 DEF Kept
<1>11. TopLine'
  <2> SUFFICES ASSUME NEW l \in Lines, ~Higher(l)'
               PROVE  accepted'[l] = served'[l] + One(ready' = <<l>>) + 0
    BY <1>6 DEF TopLine, One
  <2> DEFINE rest == One(ready = <<l>>)
  <2>1. accepted[l] = served[l] + rest + One(func[exec] = l)
    BY <1>5, <1>8 DEF AccountInv, Counted, TopLine, One
  <2>2. served'[l] = served[l] + One(func[exec] = l) /\ served[l] \in Nat
    BY <1>1, <1>2, <1>7 DEF One, CountersOK
  <2>3. accepted'[l] = accepted[l] /\ One(ready' = <<l>>) = rest
    BY <1>1 DEF One
  <2>4. rest \in Nat /\ One(func[exec] = l) \in Nat
    BY DEF One
  <2> DEFINE called == One(func[exec] = l)
  <2> HIDE DEF rest, called
  <2>5. /\ accepted[l] = served[l] + rest + called /\ served'[l] = served[l] + called
        /\ rest \in Nat /\ called \in Nat
    BY <2>1, <2>2, <2>4 DEF called
  <2>6. QED BY <2>2, <2>3, <2>5
<1>12. QED
  BY <1>4, <1>9, <1>10, <1>11 DEF AccountInv, Counted

(* The other steps of the executors' own leave it where it is.             *)
LEMMA OwnFetches ==
  ASSUME ThreadsOK, NEW e \in Executors, OwnNext(e), ~(e \in Workers /\ WorkerCall(e))
  PROVE  /\ UNCHANGED <<exec, dpc, func, ready, waiting, accepted, served>>
         /\ Fetching(e)' <=> Fetching(e)
         /\ e # Main => (pc'[e] = "run" <=> pc[e] = "run")
         /\ Fetching(e) /\ Untouched(e) => Untouched(e)'
<1>1. pc \in [Executors -> MainPcs \union WorkerPcs]
  BY DEF ThreadsOK
<1> USE <1>1
    DEF Fetching, Untouched, threadVars, signalVars, irqVars, stackVars, queueVars,
        historyVars, dispVars, Goes
<1>2. CASE ExecutorNext(e) /\ ~SignalNobody(e)
  BY <1>2
  DEF ExecutorNext, DeliverSuspend, SuspendDue, DeliverResume, SignalCount, SignalMark,
      SignalStore, SignalWake, AfterSignal
<1>3. CASE e = Main /\ MainNext
  BY <1>3 DEF MainNext, MainPark, MainUnpark, MainBegin, MainEnd
<1>4. CASE e \in Workers /\ WorkerNext(e)
  BY <1>4
  DEF WorkerNext, WorkerReady, WorkerTake, WorkerWait, WorkerLock, WorkerUnlock,
      WorkerDone
<1>5. QED BY <1>2, <1>3, <1>4 DEF OwnNext

LEMMA OwnAccount ==
  ASSUME ThreadsOK, CountersOK, QueuesOK, Stacked, AccountInv,
         NEW e \in Executors, OwnNext(e)
  PROVE  AccountInv'
<1>1. CASE e \in Workers /\ WorkerCall(e)
  BY <1>1, CallServes
<1>2. CASE ~(e \in Workers /\ WorkerCall(e))
  <2>1. /\ UNCHANGED <<exec, dpc, func, ready, waiting, accepted, served>>
        /\ Fetching(e)' <=> Fetching(e)
        /\ e # Main => (pc'[e] = "run" <=> pc[e] = "run")
        /\ Fetching(e) /\ Untouched(e) => Untouched(e)'
    BY <1>2, OwnFetches
  <2>2. ASSUME NEW d \in Executors
        PROVE  /\ Fetching(d)' <=> Fetching(d)
               /\ d # Main => (pc'[d] = "run" <=> pc[d] = "run")
               /\ Fetching(d) /\ Untouched(d) => Untouched(d)'
    <3>1. d # e => Same(d)
      BY OwnSame
    <3>2. QED BY <2>1, <3>1 DEF Same, Fetching, Untouched
  <2>3. TopFetches'
    BY <2>1, <2>2 DEF AccountInv, TopFetches
  <2>4. exec \in Executors /\ (exec > 0 => exec # Main)
    BY OnTheStack DEF CountersOK, Main
  <2>5. Prepared' <=> Prepared
    <3>1. /\ Fetching(exec)' <=> Fetching(exec)
          /\ exec > 0 => (pc'[exec] = "run" <=> pc[exec] = "run")
      BY <2>1, <2>2, <2>4 DEF Fetching
    <3>2. QED BY <2>1, <3>1 DEF Prepared
  <2>6. Counted'
    BY <2>1, <2>5, SamePending DEF AccountInv
  <2>7. QED BY <2>1, <2>3, <2>6 DEF AccountInv
<1>3. QED BY <1>1, <1>2

(* A trigger adds the one request of the channel. *)
LEMMA TriggerAccount ==
  ASSUME Paced, CountersOK, QueuesOK, Stacked, WakeupCovered, ChannelInv, AccountInv,
         NEW l \in Lines, Trigger(l)
  PROVE  AccountInv'
<1> USE DEF threadVars, signalVars, stackVars, dispVars
<1>1. ready = <<>>
  BY NothingLeft DEF Trigger, Calm, Empty
<1>2. /\ UNCHANGED <<pc, dpc, exec, func, suspends, resumes, stopped>>
      /\ UNCHANGED <<waiting, served>>
      /\ accepted' = [accepted EXCEPT ![l] = @ + 1]
      /\ ready' = Append(ready, l)
  BY DEF Trigger
<1>3. ready' = <<l>>
  BY <1>1, <1>2
<1>4. TopFetches' /\ (Prepared' <=> Prepared)
  BY <1>2 DEF AccountInv, TopFetches, Fetching, Untouched, Prepared
<1>5. \A k \in Lines : /\ accepted'[k] = accepted[k] + One(k = l)
                       /\ accepted[k] \in Nat /\ served[k] \in Nat
  BY <1>2 DEF CountersOK, One
<1>6. \A v : (Higher(v) => Higher(v)') /\ (Used(v) => Used(v)')
  BY <1>5 DEF Higher, Used, One
<1>7. Known'
  <2>1. accepted'[l] > 0
    BY <1>5 DEF One
  <2>2. QED BY <1>2, <1>3, <1>6, <2>1 DEF AccountInv, Counted, Known
<1>8. Kept'
  <2>1. /\ IsFiniteSet(Requests(accepted)) /\ IsFiniteSet(Requests(served))
        /\ Total(served) + Pending <= Total(accepted)
        /\ Total(accepted) <= WaitCap => Total(served) + Pending = Total(accepted)
    BY DEF AccountInv, Counted, Kept
  <2>2. IsFiniteSet(Requests(accepted')) /\ Total(accepted') = Total(accepted) + 1
    BY <1>2, <2>1, TotalGrows DEF CountersOK
  <2>3. Pending' = Pending + 1 /\ Pending \in Nat
    <3>1. waiting.len \in Nat
      BY DEF QueuesOK, Heaps
    <3>2. ready' # <<>>
      BY <1>3
    <3>3. QED BY <1>1, <1>2, <1>4, <3>1, <3>2 DEF Pending, One
  <2>4. Total(served) \in Nat /\ Total(accepted) \in Nat /\ WaitCap \in Nat
    BY <2>1, TotalType, Constant
  <2>5. /\ Total(served) + Pending' <= Total(accepted')
        /\ Total(accepted') <= WaitCap => Total(served) + Pending' = Total(accepted')
    BY <2>1, <2>2, <2>3, <2>4
  <2>6. QED BY <1>2, <2>1, <2>2, <2>5 DEF Kept
<1>9. TopLine'
  <2> SUFFICES ASSUME NEW k \in Lines, ~Higher(k)'
               PROVE  accepted'[k] = served'[k] + One(ready' = <<k>>)
                                     + One(Prepared' /\ func'[exec'] = k)
    BY DEF TopLine
  <2> DEFINE top == One(Prepared /\ func[exec] = k)
  <2>1. accepted[k] = served[k] + 0 + top
    BY <1>1, <1>6 DEF AccountInv, Counted, TopLine, One
  <2>2. One(ready' = <<k>>) = One(k = l)
    BY <1>3 DEF One
  <2>3. One(Prepared' /\ func'[exec'] = k) = top
    BY <1>2, <1>4 DEF One
  <2>4. top \in Nat /\ One(k = l) \in Nat /\ served'[k] = served[k]
    BY <1>2 DEF One
  <2> HIDE DEF top
  <2>5. QED BY <1>5, <2>1, <2>2, <2>3, <2>4
<1>10. QED BY <1>4, <1>7, <1>8, <1>9 DEF AccountInv, Counted

LEMMA UserAccount ==
  ASSUME Paced, ThreadsOK, CountersOK, QueuesOK, Starting, Stacked, WakeupCovered,
         ChannelInv, AccountInv, UserNext
  PROVE  AccountInv'
<1> USE DEF userVars, threadVars, signalVars, stackVars, irqVars, queueVars,
        historyVars, dispVars, User
<1>1. CASE \E l \in Lines : Trigger(l)
  BY <1>1, TriggerAccount
<1>2. CASE ~(\E l \in Lines : Trigger(l))
  <2>1. /\ UNCHANGED <<pc, exec, func, suspends, stopped>>
        /\ UNCHANGED <<ready, waiting, accepted, served>>
        /\ \A e \in Executors : e # Main => (e \in resumes' <=> e \in resumes)
    BY <1>2
    DEF UserNext, StartResume, StartKill, StartMode, StartReset, StartInit,
        StartCreate, StartWait, StartTimeout, TriggerFull, TriggerCount,
        TriggerMark, TriggerStore, TriggerWake
  <2>2. dpc' = dpc \/ (dpc = "none" /\ dpc' = "begin")
    BY <1>2
    DEF UserNext, StartResume, StartKill, StartMode, StartReset, StartInit,
        StartCreate, StartWait, StartTimeout, TriggerFull, TriggerCount,
        TriggerMark, TriggerStore, TriggerWake, Starting, Unborn
  <2>3. Prepared' <=> Prepared
    BY <2>1, <2>2 DEF Prepared, Fetching, Preparing
  <2>4. TopFetches'
    BY <2>1 DEF AccountInv, TopFetches, Fetching, Untouched, Main
  <2>5. Counted'
    BY <2>1, <2>3, SamePending DEF AccountInv
  <2>6. QED BY <2>4, <2>5 DEF AccountInv
<1>3. QED BY <1>1, <1>2

(* Nobody is fetching when all executors have settled.                     *)
LEMMA NoneFetches ==
  ASSUME OthersSettled, TopFetches, NEW e \in Executors PROVE ~Fetching(e)
BY DEF TopFetches, Fetching, OthersSettled, Unsettled, Untouched

LEMMA HandlerAccount ==
  ASSUME Paced, ThreadsOK, CountersOK, Room, Stacked, Spare, WakeupCovered,
         AccountInv, HandlerNext
  PROVE  AccountInv'
<1>1. /\ Settled /\ exec \in Executors
      /\ pc' = [pc EXCEPT ![exec] = IF exec = Main THEN "sigAdd" ELSE "done"]
      /\ UNCHANGED <<userVars, status, signalVars, wakeVars, irqVars, dispVars>>
  BY TopEnds
<1>2. UNCHANGED <<exec, dpc, func, ready, waiting, accepted, served>>
  BY <1>1 DEF irqVars, stackVars, queueVars, historyVars, dispVars
<1>3. dpc = "asleep" /\ OthersSettled
  BY <1>1 DEF Settled
<1>4. \A e \in Executors : ~Fetching(e) /\ ~Fetching(e)'
  BY <1>1, <1>3, NoneFetches DEF AccountInv, Fetching, ThreadsOK
<1>5. ~Prepared /\ ~Prepared'
  BY <1>1, <1>2, <1>3, <1>4 DEF Prepared, Preparing, Fetching
<1>6. Counted'
  BY <1>2, <1>5, SamePending DEF AccountInv
<1>7. QED BY <1>2, <1>4, <1>6 DEF AccountInv, TopFetches

-----------------------------------------------------------------------------
(* Taking line l from the channel or the wait queue and preparing the next *)
(* worker for it: _prepare_new_worker.                                     *)
LEMMA PrepareAccount ==
  ASSUME ThreadsOK, CountersOK, Room, Spare, ~Crashed', NEW l,
         NEW from \in {"pop", "unwind"}, NEW to \in Preparing \union {"resume"},
         Prepare(l, from, to), \A e \in Executors : ~Fetching(e)
  PROVE  /\ Prepared' /\ ~Prepared /\ func'[exec'] = l
         /\ \A w \in Workers : func'[w] \in {l, 0, func[w]}
         /\ \A e \in Executors : ~Fetching(e)'
<1>1. dpc = from /\ dpc' = to /\ exec' = exec + 1 /\ exec \in Nat /\ size \in Nat
  BY Constant DEF Prepare, Disp, CountersOK, Crashed
<1>2. ~Prepared
  BY <1>1, OnTheStack DEF Prepared, Preparing, CountersOK
<1>3. \A e \in Executors : ~Fetching(e)'
  BY <1>1 DEF Prepare, Fetching, ThreadsOK
<1>4. exec + 1 \in Workers /\ exec + 1 <= size
  BY <1>1, Constant DEF CountersOK, Room, Workers
<1>5. pc'[exec + 1] # "run"
  <2>1. pc[exec + 1] # "run"
    BY <1>1, <1>4 DEF Spare, Rests
  <2>2. \/ pc' = pc
        \/ pc' = [e \in Executors |->
                    IF e \in exec + 1 + 1 .. 2 * (exec + 1) THEN "init" ELSE pc[e]]
    BY DEF Prepare
  <2>3. exec + 1 \in Executors /\ exec + 1 \notin exec + 1 + 1 .. 2 * (exec + 1)
    BY <1>1, <1>4, Constant
  <2>4. QED BY <2>1, <2>2, <2>3
<1>6. Prepared'
  BY <1>1, <1>5 DEF Prepared
<1>7. func'[exec'] = l /\ \A w \in Workers : func'[w] \in {l, 0, func[w]}
  <2>1. CASE func' = [func EXCEPT ![exec + 1] = l]
    BY <1>1, <1>4, <2>1 DEF CountersOK
  <2>2. CASE func' = [w \in Workers |->
                        IF w = exec + 1 THEN l
                        ELSE IF w \in exec + 1 + 1 .. 2 * (exec + 1) THEN 0
                        ELSE func[w]]
    BY <1>1, <1>4, <2>2
  <2>3. dpc' # "aborted"
    BY DEF Crashed
  <2>4. QED BY <2>1, <2>2, <2>3 DEF Prepare, Disp
<1>8. QED BY <1>2, <1>3, <1>6, <1>7

(* The dispatcher's steps that move no request, with a prepared worker or  *)
(* without one.                                                            *)
StayNext ==
  \/ DispBegin \/ DispCheck \/ DispPark \/ DispAwake \/ DispWake \/ DispConsume
  \/ UnwindPop \/ UnwindResume \/ UnwindEnd
  \/ ResumeTest \/ ResumeCond \/ ResumeXchg \/ ResumeKill \/ PopNothing
  \/ SuspendMain \/ SuspendOldTest \/ SuspendOld \/ SuspendMainW \/ AssertW
  \/ StartTest \/ StartCond \/ Assert \/ MainTest \/ MainXchg \/ MainKill \/ Report

LEMMA StayAccount ==
  ASSUME Paced, ThreadsOK, CountersOK, Stacked, AccountInv, DispatcherNext, StayNext,
         ~Crashed'
  PROVE  AccountInv'
<1> USE DEF Disp, threadVars, signalVars, irqVars, stackVars, queueVars, historyVars
<1>1. /\ UNCHANGED <<func, ready, waiting, accepted, served>>
      /\ \A e \in Executors : ~Fetching(e)
      /\ OthersSettled /\ exec \in Executors /\ (exec > 0 => exec # Main)
  <2>1. UNCHANGED <<func, ready, waiting, accepted, served>>
    BY DEF StayNext, DispBegin, DispCheck, DispPark, DispAwake, DispWake, DispConsume,
           UnwindPop, UnwindResume, UnwindEnd, ResumeTest, ResumeCond, ResumeXchg,
           ResumeKill, PopNothing, SuspendMain, SuspendOldTest, SuspendOld,
           SuspendMainW, AssertW, StartTest, StartCond, Assert, MainTest, MainXchg,
           MainKill, Report
  <2>2. OthersSettled
    BY DispTurn
  <2>3. QED BY <2>1, <2>2, NoneFetches, OnTheStack DEF AccountInv, CountersOK, Main
<1>2. CASE \/ DispBegin \/ DispCheck \/ DispPark \/ DispAwake \/ DispWake \/ DispConsume
           \/ UnwindPop \/ UnwindEnd \/ ResumeXchg \/ ResumeKill \/ PopNothing
           \/ Assert \/ MainTest \/ MainXchg \/ MainKill \/ Report
  <2>1. /\ dpc \notin Preparing \union {"resume"}
        /\ dpc' \notin Preparing \union {"resume"}
        /\ pc' = pc
    BY <1>2
    DEF DispBegin, DispCheck, DispPark, DispAwake, DispWake, DispConsume, UnwindPop,
        UnwindEnd, ResumeXchg, ResumeKill, PopNothing, Assert, MainTest, MainXchg,
        MainKill, Report, Preparing
  <2>2. \A e \in Executors : ~Fetching(e)'
    BY <1>1, <2>1 DEF Fetching
  <2>3. exec' > 0 => exec' \in Executors
    BY <1>1, <1>2, AtTurn
    DEF DispBegin, DispCheck, DispPark, DispAwake, DispWake, DispConsume, UnwindPop,
        UnwindEnd, ResumeXchg, ResumeKill, PopNothing, Assert, MainTest, MainXchg,
        MainKill, Report
  <2>4. ~Prepared /\ ~Prepared'
    BY <1>1, <2>1, <2>2, <2>3 DEF Prepared, Fetching
  <2>5. QED
    BY <1>1, <2>2, <2>4, SamePending DEF AccountInv, TopFetches
<1>3. CASE UnwindResume \/ ResumeTest
  <2>1. pc' = pc /\ exec' = exec /\ exec > 0 /\ dpc' # dpc
    BY <1>3 DEF UnwindResume, ResumeTest, Stacked
  <2>2. \A e \in Executors : ~Fetching(e)'
    BY <1>1, <2>1 DEF Fetching
  <2>3. CASE UnwindResume
    <3>1. Stopped(exec)
      BY <1>1, <2>3, AtTurn DEF UnwindResume, Stacked, Gone
    <3>2. ~Prepared /\ ~Prepared'
      BY <1>1, <2>1, <2>3, <3>1 DEF UnwindResume, Prepared, Preparing, Fetching, Stopped
    <3>3. QED
      BY <1>1, <2>2, <3>2, SamePending DEF AccountInv, TopFetches
  <2>4. CASE ResumeTest
    <3>1. Stopped(exec) \/ Idle(exec)
      BY <1>1, <2>4, AtTurn DEF ResumeTest, Stacked
    <3>2. Prepared' <=> Prepared
      BY <1>1, <2>1, <2>4, <3>1
      DEF ResumeTest, Prepared, Preparing, Fetching, Stopped, Idle
    <3>3. QED
      BY <1>1, <2>1, <2>2, <3>2, SamePending DEF AccountInv, TopFetches
  <2>5. QED BY <1>3, <2>3, <2>4
<1>4. CASE \/ SuspendMain \/ SuspendOldTest \/ SuspendOld \/ SuspendMainW \/ AssertW
           \/ StartTest
  <2>1. pc' = pc /\ exec' = exec /\ dpc \in Preparing /\ dpc' \in Preparing /\ exec > 0
    <3>1. CASE \/ SuspendMain \/ SuspendOldTest \/ SuspendOld \/ SuspendMainW \/ AssertW
      BY <3>1
      DEF SuspendMain, SuspendOldTest, SuspendOld, SuspendMainW, AssertW, Crashed,
          Preparing, Stacked
    <3>2. CASE StartTest
      <4>1. exec > 0 /\ status[exec] = "Done"
        BY <1>1, <3>2, AtTurn DEF StartTest, Stacked, Idle
      <4>2. QED BY <3>2, <4>1 DEF StartTest, Preparing
    <3>3. QED BY <1>4, <3>1, <3>2
  <2>2. \A e \in Executors : ~Fetching(e)'
    BY <1>1, <2>1 DEF Fetching
  <2>3. Prepared /\ Prepared'
    BY <2>1 DEF Prepared
  <2>4. QED
    BY <1>1, <2>1, <2>2, <2>3, SamePending DEF AccountInv, TopFetches
<1>5. CASE ResumeCond \/ StartCond
  <2>1. /\ dpc \in Preparing /\ exec > 0 /\ exec' = exec /\ Idle(exec)
        /\ UNCHANGED <<suspends, resumes, stopped>>
    BY <1>1, <1>5, AtTurn DEF ResumeCond, StartCond, Stacked, Preparing
  <2>2. pc' = [pc EXCEPT ![exec] = "woken"]
    BY <1>5, <2>1 DEF ResumeCond, StartCond, CondSignal, Idle
  <2>3. \A e \in Executors : Fetching(e)' <=> e = exec
    BY <1>1, <2>2 DEF Fetching, ThreadsOK
  <2>4. Prepared /\ Prepared'
    BY <1>1, <2>1, <2>3 DEF Prepared, Fetching
  <2>5. Untouched(exec)'
    BY <2>1 DEF Idle, Untouched
  <2>6. TopFetches'
    BY <2>1, <2>3, <2>5 DEF TopFetches, Untouched
  <2>7. QED
    BY <1>1, <2>1, <2>4, <2>6, SamePending DEF AccountInv
<1>6. QED BY <1>2, <1>3, <1>4, <1>5 DEF StayNext

(* What one request in the channel is. *)
LEMMA OneRequest ==
  ASSUME NEW S, NEW s \in Seq(S), Len(s) <= 1, s # <<>>
  PROVE  s = <<Head(s)>>
<1>1. Len(s) = 1
  <2>1. Len(s) \in Nat
    OBVIOUS
  <2>2. Len(s) = 0 => s = <<>>
    OBVIOUS
  <2>3. QED BY <2>1, <2>2
<1>2. s[1] = Head(s) /\ Head(s) \in S
  BY <1>1
<1>3. <<Head(s)>> \in Seq(S) /\ Len(<<Head(s)>>) = 1 /\ <<Head(s)>>[1] = Head(s)
  BY <1>2
<1>4. QED BY <1>1, <1>2, <1>3

(* What the dispatcher finds when it takes a request. *)
LEMMA AtTake ==
  ASSUME Paced, CountersOK, QueuesOK, ChannelInv, AccountInv, DispatcherNext
  PROVE  /\ \A e \in Executors : ~Fetching(e)
         /\ exec > 0 => exec \in Workers
         /\ waiting.len \in Nat /\ WaitCap \in Nat \ {0} /\ 0 \in Lines
         /\ waiting.len <= WaitCap /\ Pending \in Nat
         /\ Total(served) \in Nat /\ Total(accepted) \in Nat
         /\ dpc = "pop" => /\ Len(ready) <= 1
                           /\ ready # <<>> => /\ ready = <<Head(ready)>>
                                              /\ Tail(ready) = <<>>
                                              /\ Head(ready) \in Lines
<1>1. OthersSettled
  BY DispTurn
<1>2. \A e \in Executors : ~Fetching(e)
  BY <1>1, NoneFetches DEF AccountInv
<1>3. exec > 0 => exec \in Workers
  BY Constant DEF CountersOK, Workers
<1>4. waiting.len \in 0 .. WaitCap /\ WaitCap \in Nat \ {0} /\ 0 \in Lines
  BY Constant DEF QueuesOK, Heaps, Lines
<1>5. Total(served) \in Nat /\ Total(accepted) \in Nat
  BY TotalType DEF AccountInv, Counted, Kept
<1>6. dpc = "pop" => Len(ready) <= 1
  BY DEF ChannelInv
<1>7. dpc = "pop" /\ ready # <<>> =>
        ready = <<Head(ready)>> /\ Tail(ready) = <<>> /\ Head(ready) \in Lines
  BY <1>6, OneRequest, TakeOne DEF QueuesOK
<1>8. Pending \in Nat
  BY <1>4 DEF Pending, One
<1>9. QED BY <1>2, <1>3, <1>4, <1>5, <1>6, <1>7, <1>8

(* A request that goes from the channel to a worker. *)
LEMMA StartAccount ==
  ASSUME Paced, ThreadsOK, CountersOK, QueuesOK, Room, Spare, ChannelInv, AccountInv,
         DispatcherNext, PopStart, ~Crashed'
  PROVE  AccountInv'
<1> DEFINE l == Head(ready)
<1>1. /\ \A e \in Executors : ~Fetching(e)
      /\ waiting.len \in Nat /\ 0 \in Lines
      /\ ready = <<l>> /\ l \in Lines /\ ready' = <<>>
  <2>1. dpc = "pop" /\ ready # <<>> /\ ready' = Tail(ready)
    BY DEF PopStart, Prepare, Disp
  <2>2. QED BY <2>1, AtTake
<1>2. Prepare(l, "pop", "suspMain") /\ UNCHANGED <<waiting, accepted, served>>
  BY DEF PopStart, historyVars
<1>3. accepted[l] > 0 /\ accepted \in [Lines -> Nat]
  <2>1. ready # <<>>
    BY DEF PopStart
  <2>2. QED BY <2>1 DEF AccountInv, Counted, Known, CountersOK
<1> HIDE DEF l
<1>4. /\ Prepared' /\ ~Prepared /\ func'[exec'] = l
      /\ \A w \in Workers : func'[w] \in {l, 0, func[w]}
      /\ \A e \in Executors : ~Fetching(e)'
  BY <1>1, <1>2, PrepareAccount DEF Preparing
<1>5. \A v : (Higher(v)' <=> Higher(v)) /\ (Used(v)' <=> Used(v))
  BY <1>2 DEF Higher, Used
<1>6. Known'
  <2>1. Used(l)
    BY <1>1, <1>3, Constant DEF Used
  <2>2. \A w \in Workers : func'[w] \in Lines /\ (func'[w] = 0 \/ Used(func'[w]))
    BY <1>1, <1>4, <2>1 DEF AccountInv, Counted, Known
  <2>3. QED BY <1>1, <1>2, <1>5, <2>2 DEF AccountInv, Counted, Known
<1>7. Kept'
  <2>1. Pending' = Pending
    <3>1. ready # <<>>
      BY <1>1
    <3>2. QED BY <1>1, <1>2, <1>4, <3>1 DEF Pending, One
  <2>2. QED BY <1>2, <2>1 DEF AccountInv, Counted, Kept
<1>8. TopLine'
  <2> SUFFICES ASSUME NEW k \in Lines, ~Higher(k)'
               PROVE  accepted'[k] = served'[k] + One(ready' = <<k>>)
                                     + One(Prepared' /\ func'[exec'] = k)
    BY DEF TopLine
  <2>1. accepted[k] = served[k] + One(ready = <<k>>) + One(Prepared /\ func[exec] = k)
    BY <1>5 DEF AccountInv, Counted, TopLine
  <2>2. One(ready = <<k>>) = One(l = k) /\ One(Prepared /\ func[exec] = k) = 0
    BY <1>1, <1>4 DEF One
  <2>3. One(ready' = <<k>>) = 0 /\ One(Prepared' /\ func'[exec'] = k) = One(l = k)
    BY <1>1, <1>4 DEF One
  <2>4. served[k] \in Nat /\ One(l = k) \in Nat
    BY DEF CountersOK, One
  <2>5. QED BY <1>2, <2>1, <2>2, <2>3, <2>4
<1>9. QED
  BY <1>4, <1>6, <1>7, <1>8 DEF AccountInv, TopFetches, Counted

(* One that goes from the wait queue to a worker: a line that was deferred *)
(* for a higher one.                                                       *)
LEMMA WaitingAccount ==
  ASSUME Paced, ThreadsOK, CountersOK, QueuesOK, Room, Spare, ChannelInv, AccountInv,
         DispatcherNext, PopWaiting \/ UnwindStartWaiting, ~Crashed'
  PROVE  AccountInv'
<1> DEFINE v == HeapTop(waiting)
<1>1. /\ \A e \in Executors : ~Fetching(e)
      /\ waiting.len \in Nat /\ 0 \in Lines /\ (exec > 0 => exec \in Workers)
      /\ 0 \in Cells
  BY AtTake DEF Cells
<1>2. waiting.len > 0 /\ waiting' = HeapPop(waiting)
      /\ UNCHANGED <<ready, accepted, served>>
  BY DEF PopWaiting, UnwindStartWaiting, WaitingIsHigher, historyVars
<1>3. \E from \in {"pop", "unwind"}, to \in Preparing \union {"resume"} :
        Prepare(v, from, to)
  BY DEF PopWaiting, UnwindStartWaiting, Preparing
<1>4. v \in Lines /\ Higher(v)
  <2>1. v \in Lines /\ (v = 0 \/ Higher(v)) /\ Higher(0)
    BY <1>1, <1>2 DEF AccountInv, Counted, Known, HeapTop
  <2>2. QED BY <2>1
<1> HIDE DEF v
<1>5. /\ Prepared' /\ ~Prepared /\ func'[exec'] = v
      /\ \A w \in Workers : func'[w] \in {v, 0, func[w]}
      /\ \A e \in Executors : ~Fetching(e)'
  BY <1>1, <1>3, PrepareAccount
<1>6. /\ waiting'.len = waiting.len - 1
      /\ \A c \in Cells : \E d \in Cells : waiting'.data[c] = waiting.data[d]
  BY <1>2, PopValues DEF QueuesOK
<1>7. \A x : (Higher(x)' <=> Higher(x)) /\ (Used(x)' <=> Used(x))
  BY <1>2 DEF Higher, Used
<1>8. Known'
  <2>1. Used(v) /\ Higher(0)
    <3>1. \A k \in Lines : k > v => k >= v
      BY <1>4, Constant
    <3>2. QED BY <1>2, <1>4, <3>1 DEF Higher, Used, AccountInv, Counted, Known
  <2>2. \A w \in Workers : func'[w] \in Lines /\ (func'[w] = 0 \/ Used(func'[w]))
    BY <1>1, <1>4, <1>5, <2>1 DEF AccountInv, Counted, Known
  <2>3. \A c \in Cells : /\ waiting'.data[c] \in Lines
                         /\ waiting'.data[c] = 0 \/ Higher(waiting'.data[c])
    BY <1>6 DEF AccountInv, Counted, Known
  <2>4. ready' # <<>> => accepted'[Head(ready')] > 0
    BY <1>2 DEF AccountInv, Counted, Known
  <2>5. QED BY <1>7, <2>1, <2>2, <2>3, <2>4 DEF Known
<1>9. Kept'
  <2>1. Pending' = Pending
    BY <1>1, <1>2, <1>5, <1>6 DEF Pending, One
  <2>2. QED BY <1>2, <2>1 DEF AccountInv, Counted, Kept
<1>10. TopLine'
  <2> SUFFICES ASSUME NEW k \in Lines, ~Higher(k)'
               PROVE  accepted'[k] = served'[k] + One(ready' = <<k>>)
                                     + One(Prepared' /\ func'[exec'] = k)
    BY DEF TopLine
  <2>1. k # v
    BY <1>4, <1>7
  <2>2. accepted[k] = served[k] + One(ready = <<k>>) + One(Prepared /\ func[exec] = k)
    BY <1>7 DEF AccountInv, Counted, TopLine
  <2>3. One(Prepared /\ func[exec] = k) = 0 /\ One(Prepared' /\ func'[exec'] = k) = 0
    BY <1>5, <2>1 DEF One
  <2>4. QED BY <1>2, <2>2, <2>3
<1>11. QED
  BY <1>5, <1>8, <1>9, <1>10 DEF AccountInv, TopFetches, Counted

(* And one that is deferred: a higher line is in use.  If the wait queue   *)
(* is full more requests were accepted than it has room for.               *)
LEMMA DeferAccount ==
  ASSUME Paced, CountersOK, QueuesOK, ChannelInv, AccountInv, DispatcherNext, PopDefer
  PROVE  AccountInv'
<1> DEFINE v == Head(ready)
<1>1. /\ dpc = "pop" /\ dpc' = "assert" /\ UNCHANGED <<pc, exec, func>>
      /\ UNCHANGED <<accepted, served>>
      /\ ready # <<>> /\ ready' = Tail(ready)
      /\ exec > 0 /\ ~(v >= func[exec])
      /\ waiting' = IF waiting.len < WaitCap THEN HeapPush(waiting, v) ELSE waiting
  BY DEF PopDefer, Disp, Preempts, threadVars, stackVars, historyVars
<1>2. /\ \A e \in Executors : ~Fetching(e)
      /\ waiting.len \in Nat /\ WaitCap \in Nat /\ waiting.len <= WaitCap
      /\ 0 \in Lines /\ exec \in Workers
      /\ ready = <<v>> /\ v \in Lines /\ ready' = <<>>
  BY <1>1, AtTake
<1> HIDE DEF v
<1>3. Higher(v) /\ Higher(0)
  <2>1. func[exec] \in Lines /\ (func[exec] = 0 \/ Used(func[exec]))
    BY <1>2 DEF AccountInv, Counted, Known
  <2>2. func[exec] \in Nat /\ v \in Nat /\ func[exec] > v
    <3>1. func[exec] \in Nat /\ v \in Nat
      BY <1>2, <2>1, Constant
    <3>2. QED BY <1>1, <3>1
  <2>3. PICK k \in Lines : k >= func[exec] /\ accepted[k] > 0
    BY <2>1, <2>2 DEF Used
  <2>4. k > v /\ k > 0
    BY <2>2, <2>3, Constant
  <2>5. QED BY <2>3, <2>4 DEF Higher
<1>4. \A e \in Executors : ~Fetching(e)'
  BY <1>1, <1>2 DEF Fetching
<1>5. ~Prepared /\ ~Prepared'
  BY <1>1, <1>2, <1>4, Constant DEF Prepared, Preparing, Fetching
<1>6. \A x : (Higher(x)' <=> Higher(x)) /\ (Used(x)' <=> Used(x))
  BY <1>1 DEF Higher, Used
<1>7. /\ waiting'.len = IF waiting.len < WaitCap THEN waiting.len + 1 ELSE waiting.len
      /\ \A c \in Cells : \/ waiting'.data[c] = v
                          \/ \E d \in Cells : waiting'.data[c] = waiting.data[d]
  BY <1>1, PushValues DEF QueuesOK
<1>8. Known'
  <2>1. \A c \in Cells : /\ waiting'.data[c] \in Lines
                         /\ waiting'.data[c] = 0 \/ Higher(waiting'.data[c])
    BY <1>2, <1>3, <1>7 DEF AccountInv, Counted, Known
  <2>2. QED BY <1>1, <1>2, <1>3, <1>6, <2>1 DEF AccountInv, Counted, Known
<1>9. Kept'
  <2>1. /\ Total(served) + Pending <= Total(accepted)
        /\ Total(accepted) <= WaitCap => Total(served) + Pending = Total(accepted)
        /\ Total(served) \in Nat /\ Total(accepted) \in Nat
    BY AtTake DEF AccountInv, Counted, Kept
  <2>2. Pending = 1 + 0 + waiting.len
    BY <1>1, <1>5 DEF Pending, One
  <2>3. Pending' = 0 + 0 + waiting'.len
    BY <1>2, <1>5 DEF Pending, One
  <2>4. /\ Total(served) + Pending' <= Total(accepted)
        /\ Total(accepted) <= WaitCap => Total(served) + Pending' = Total(accepted)
    BY <1>2, <1>7, <2>1, <2>2, <2>3
  <2>5. QED BY <1>1, <2>4 DEF AccountInv, Counted, Kept
<1>10. TopLine'
  <2> SUFFICES ASSUME NEW k \in Lines, ~Higher(k)'
               PROVE  accepted'[k] = served'[k] + One(ready' = <<k>>)
                                     + One(Prepared' /\ func'[exec'] = k)
    BY DEF TopLine
  <2>1. k # v
    BY <1>3, <1>6
  <2>2. accepted[k] = served[k] + One(ready = <<k>>) + One(Prepared /\ func[exec] = k)
    BY <1>6 DEF AccountInv, Counted, TopLine
  <2>3. One(ready = <<k>>) = 0 /\ One(ready' = <<k>>) = 0
    BY <1>2, <2>1 DEF One
  <2>4. One(Prepared /\ func[exec] = k) = 0 /\ One(Prepared' /\ func'[exec'] = k) = 0
    BY <1>5 DEF One
  <2>5. QED BY <1>1, <2>2, <2>3, <2>4
<1>11. QED
  BY <1>4, <1>8, <1>9, <1>10 DEF AccountInv, TopFetches, Counted

LEMMA AccountInductive ==
  ASSUME Paced PROVE Spec => [](~Crashed => AccountInv)
<1>1. Init => AccountInv
  <2> SUFFICES ASSUME Init PROVE AccountInv
    OBVIOUS
  <2>1. /\ exec = 0 /\ ready = <<>> /\ waiting = EmptyHeap /\ 0 \in Lines
        /\ func = [w \in Workers |-> 0]
        /\ accepted = [l \in Lines |-> 0] /\ served = [l \in Lines |-> 0]
        /\ \A e \in Executors : pc[e] \in {"init", "wait", "none"}
    <3>1. 0 \in Lines
      BY Constant DEF Lines
    <3>2. QED BY <3>1 DEF Init
  <2>2. TopFetches
    BY <2>1 DEF TopFetches, Fetching
  <2>3. Known
    BY <2>1 DEF Known, EmptyHeap
  <2>4. Kept
    <3>1. Pending = 0
      BY <2>1 DEF Pending, One, Prepared, EmptyHeap
    <3>2. \A l \in Lines : accepted[l] = 0 /\ served[l] = 0
      BY <2>1
    <3>3. /\ IsFiniteSet(Requests(accepted)) /\ Total(accepted) = 0
          /\ IsFiniteSet(Requests(served)) /\ Total(served) = 0
      BY <3>2, NoRequests
    <3>4. QED BY <3>1, <3>3 DEF Kept
  <2>5. TopLine
    BY <2>1 DEF TopLine, One, Prepared
  <2>6. QED BY <2>2, <2>3, <2>4, <2>5 DEF AccountInv, Counted
<1>2. ASSUME IInv, WakeupCovered, PacedInv, ~Crashed => ChannelInv,
             ~Crashed => AccountInv, [Next]_vars
      PROVE  (~Crashed => AccountInv)'
  <2>1. ThreadsOK /\ CountersOK /\ QueuesOK /\ Room
    BY <1>2 DEF IInv, TypeOK
  <2>2. CASE UNCHANGED vars
    <3>1. /\ UNCHANGED <<dpc, exec, func, ready, waiting, accepted, served>>
          /\ UNCHANGED <<pc, suspends, resumes, stopped>>
      BY <2>2
      DEF vars, userVars, threadVars, signalVars, irqVars, stackVars, queueVars,
          historyVars, dispVars
    <3>2. Prepared' <=> Prepared
      BY <3>1 DEF Prepared, Fetching
    <3>3. Counted => Counted'
      BY <3>1, <3>2, SamePending
    <3>4. TopFetches => TopFetches'
      BY <3>1 DEF TopFetches, Fetching, Untouched
    <3>5. QED BY <1>2, <3>1, <3>3, <3>4 DEF AccountInv, Crashed
  <2>3. CASE Next
    <3>1. ChannelInv /\ AccountInv /\ Starting /\ Stacked /\ Spare
      BY <1>2, <2>3 DEF Next, PacedInv
    <3>2. ASSUME NEW e \in Executors, OwnNext(e) PROVE AccountInv'
      BY <2>1, <3>1, <3>2, OwnAccount
    <3>3. CASE UserNext
      BY <1>2, <2>1, <3>1, <3>3, UserAccount
    <3>4. CASE HandlerNext
      BY <1>2, <2>1, <3>1, <3>4, HandlerAccount
    <3>5. CASE DispatcherNext
      <4> SUFFICES ASSUME ~Crashed' PROVE AccountInv'
        OBVIOUS
      <4>1. CASE StayNext
        BY <2>1, <3>1, <3>5, <4>1, StayAccount
      <4>2. CASE PopStart
        BY <2>1, <3>1, <3>5, <4>2, StartAccount
      <4>3. CASE PopWaiting \/ UnwindStartWaiting
        BY <2>1, <3>1, <3>5, <4>3, WaitingAccount
      <4>4. CASE PopDefer
        BY <2>1, <3>1, <3>5, <4>4, DeferAccount
      <4>5. QED
        BY <3>5, <4>1, <4>2, <4>3, <4>4 DEF DispatcherNext, StayNext
    <3>6. QED
      BY <2>1, <2>3, <3>1, <3>2, <3>3, <3>4, <3>5, StepOf
  <2>4. QED BY <1>2, <2>2, <2>3
<1>3. QED
  BY <1>1, <1>2, Inductive, WakeupsCovered, PacedInductive, ChannelInductive, PTL
  DEF Spec

(* For any number of lines: once all threads have settled, handlers were   *)
(* run for all the accepted requests but those that wait, and none was     *)
(* lost unless more were accepted than the wait queue has room for; the    *)
(* highest line in use was served exactly as often as it was triggered.    *)
THEOREM RequestsKept ==
  ASSUME Paced PROVE Spec => []RequestsAccounted
<1>1. ASSUME IInv, WakeupCovered, PacedInv, ~Crashed => ChannelInv,
             ~Crashed => AccountInv, ChannelDrained
      PROVE  RequestsAccounted
  <2> SUFFICES
        ASSUME Settled
        PROVE  /\ Total(served) + waiting.len <= Total(accepted)
               /\ Total(accepted) <= WaitCap =>
                    Total(served) + waiting.len = Total(accepted)
               /\ \A l \in Lines : (\A k \in Lines : k > l => accepted[k] = 0)
                                     => served[l] = accepted[l]
    BY <1>1 DEF RequestsAccounted
  <2>1. /\ CountersOK /\ QueuesOK /\ Stacked /\ ChannelInv /\ AccountInv
        /\ dpc = "asleep" /\ OthersSettled
    BY <1>1 DEF IInv, TypeOK, PacedInv, Settled, Crashed
  <2>2. ready = <<>>
    BY <1>1, <2>1, NothingLeft DEF Empty
  <2>3. ~Prepared
    <3>1. exec \in Executors
      BY <2>1, OnTheStack DEF CountersOK
    <3>2. ~Fetching(exec)
      BY <2>1, <3>1, NoneFetches DEF AccountInv
    <3>3. QED BY <2>1, <3>2 DEF Prepared, Preparing
  <2>4. Pending = waiting.len
    <3>1. waiting.len \in Nat
      BY <2>1 DEF QueuesOK, Heaps
    <3>2. QED BY <2>2, <2>3, <3>1 DEF Pending, One
  <2>5. ASSUME NEW l \in Lines, \A k \in Lines : k > l => accepted[k] = 0
        PROVE  served[l] = accepted[l]
    <3>1. ~Higher(l)
      BY <2>5 DEF Higher
    <3>2. ready # <<l>>
      BY <2>2
    <3>3. accepted[l] = served[l] + 0 + 0 /\ served[l] \in Nat
      BY <2>1, <2>3, <3>1, <3>2 DEF AccountInv, Counted, TopLine, One, CountersOK
    <3>4. QED BY <3>3
  <2>6. QED BY <2>1, <2>4, <2>5 DEF AccountInv, Counted, Kept
<1>2. QED
  BY <1>1, Inductive, WakeupsCovered, PacedInductive, ChannelInductive,
     AccountInductive, NothingLeftBehind, PTL
=============================================================================
