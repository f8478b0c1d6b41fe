# Verification of the virtual interrupt controller

This directory holds a TLA+ development of the virtual interrupt controller in
`src/virtual_interrupt/` and of its build program, `nob.c` with
`BuildDependencies/`: modules translated from the C source, TLC configurations that
check them on small instances, and theorems about them that the TLA+ proof system
checks for every value of their constants.

The program runs a WebAssembly module on WAMR and gives it interrupts. A host
thread triggers numbered interrupt lines. A dispatcher thread decides, by line
number, whether the handler of that line runs at once, on top of the handler that
runs now, or later. Each handler runs on a thread of its own (a "worker"), and an
interrupted handler is a thread that was stopped with a POSIX signal. The board's
main function runs on one more thread and is stopped whenever a handler runs.

The build program, nob, compiles itself when its sources are newer, moves to the root
of the project, reads its command line, builds the library of WAMR, compiles the
controller and the launcher in parallel, fetches what it needs to build an example
board, and runs it. What it leaves on disk is found by the next command.

Paths below are relative to the repository; `vi:` stands for
`src/virtual_interrupt/virtual_interrupt.c`.

## 1. Inventory

### Components, their state and their operations

| Component | Source | State | Operations |
|---|---|---|---|
| User API | `virtual_interrupt.c` 50-321 | `VIDispatcher`, non-movable data | init, assign, start, trigger, destroy |
| Dispatcher thread | `virtual_interrupt.c` 323-624 | `executing_worker`, `minheap_ureq`, locals | unwind, preempt, defer, start, resume |
| Dispatcher status | `workers/dispatcher.[ch]` | `n_requests`, `run`, `working_status` | init, signal, consume, destroy |
| Worker status | `workers/base.[ch]`, `common.c` | `working_status`, pending signals | suspend, resume, self_suspend, destroy |
| Interrupt workers | `workers/irq_worker.[ch]` | `func_index`, `run`, mutex, condition variable | init, start, suspend, resume, destroy, thread |
| Main function's thread | `workers/main_logic.[ch]` | its status | init, suspend, resume, destroy, thread |
| Request channel | `spscq/spscq.h` | ring of cells, `read`, `write` | push, pop (peek and len for the log) |
| Wait queue | `minheap/minheap.h` | array and length | push, pop, peek |
| Workers memory | `span/span.h`, `irq_workers_list.h` | root array, chunks, `cap`, `len` | resize, get, destroy (write in the test) |
| Exceptions | `common.c` | `VI_ERROR_WAMR_EXCEPTION` | set, test, clear |
| Debug window, logger | `debug.c`, `logger.c` | files | output |
| Launcher | `launcher/main.c` | none of its own | loads the module, starts, triggers |
| Example board | `fake_board_src/main.c` | a wasm program | handlers and a main loop |
| Build: command line | `cli.h`, `c_cli.h` | `CliArgs` | parse a word, apply the defaults |
| Build: start | `nob.c`, `goto_root.h`, `defs.h` | `nob`, `nob.old`, chain of processes | bootstrap, go to the root, rebuild itself, exit |
| Build: compilation | `nob.c`, `builder.h`, `nob.h` | objects, pool of children | compile, wait, flush, link, clean |
| Build: dependencies | `dependency.h`, `build_tools/cmake.h`, `wamr.h`, `fake_board.h` | trees on disk, `_db_dir` | look up, fetch, unpack, configure, patch, remove |

### How they interact

* The user's thread pushes a line on the request channel and signals the
  dispatcher: `n_requests` is incremented, `working_status` is exchanged for
  Working, and only if it was not Working before is the Resume signal sent.
* A worker that has finished a handler, and a main function that returns, signal
  the dispatcher in the same three steps.
* The dispatcher sleeps in `sigsuspend` while `n_requests` is 0. Awake, it consumes
  one request, pops finished executors off its stack, looks at the channel and the
  wait queue, and stops, starts or continues executors.
* A worker that is not on the stack waits on its condition variable. One that is
  interrupted sits in the handler of the Suspend signal, in `sigsuspend`, until
  Resume comes. Resume is blocked everywhere else and stays pending, as one bit.
* Creation polls each thread until it has reported; destruction cancels the main
  thread, clears the `run` flags, wakes the threads and joins them.
* nob talks to its other versions by `exec`, waiting and exit statuses, and to its
  children and to earlier commands by files and their times.

### What is hard about it

1. Status words and signals are two channels that say the same thing at different
   times: the status is exchanged first and the signal arrives later or, if the
   status already had the right value, is never sent.
2. Test-then-sleep: the dispatcher tests `n_requests`, stores Suspended and sleeps in
   three steps; a worker stores Done and waits for its condition in two.
3. The stack grows and unwinds with the order of triggers and returns, and each
   return frees a place that the next preemption takes again.
4. The workers memory grows while threads hold pointers into it.
5. Two threads share the request channel with two indices and no lock.
6. Creation can fail at each of its steps, and destruction can begin at any time.
7. Up to three versions of nob run on behalf of one command, and a file can be edited
   at any moment of any compilation; times of files are compared by the second.
8. A command of nob that fails leaves its other children running, and everything it
   has fetched, unpacked or patched half-way; the next command looks at one file of each.

### What makes each component correct

* Request channel: a bounded FIFO, and no cell is read and written at once.
* Wait queue: its loops end, stay inside the array and compute one function.
* Workers memory: an element never moves, two never overlap, nothing leaks.
* Wake-ups: a request is never consumed that is not there, and a dispatcher that is
  marked Working and sleeps is about to be woken.
* Stack: lines never decrease towards the top, the line of a place does not change
  while the place is in use, each place has a thread.
* Dispatcher logic: between events the top of the stack runs alone, everything
  under it is stopped, everything else can be started, no request is lost.
* Progress: accepted requests are served and the main function comes back.
* Life cycle: memory is freed after the threads that use it, creation returns,
  destruction of a controller at rest returns.
* Build, start: the program that works is the one its sources say; there is always a
  nob; flags and exit statuses pass through the chain of processes.
* Build, compilation: a link finds objects of the sources main found, after every child
  has ended; every command ends.
* Build, dependencies: from whatever an earlier command left, a run completes; the
  sources of WAMR are left as they were; a tool that was found stays found.

## 2. The modules

| Module | What it is |
|---|---|
| `BoundedFifo` | abstract specification of the request channel |
| `SPSCQ`, `MCSPSCQ`, `spscq.cfg` | the ring, one action per memory access, and its instance |
| `SPSCQ_proofs` | type, race freedom, hand-over, refinement of `BoundedFifo` |
| `HeapOps` | what `minheap_push`, `minheap_pop` and `minheap_peek` return, as operators |
| `MinHeap`, `MCMinHeap`, `heap_loops.cfg` | the loops of the wait queue, one iteration a step |
| `MinHeap_proofs` | the loops stay inside the array and compute the operators |
| `Span`, `MCSpan`, `span.cfg` | the workers memory, one allocation a step |
| `Span_proofs` | all five invariants of `Span` |
| `VIDispatcher`, `MCVIDispatcher`, six `.cfg` | the controller at run time: the composition of all threads |
| `VIDispatcher_proofs` | six of its properties, for every interleaving |
| `Paced_proofs` | what holds between paced events: who runs, who is stopped, that no request is lost |
| `Lifecycle`, `MCLifecycle`, `lifecycle.cfg` | creation and destruction with their failures |
| `Lifecycle_proofs` | memory outlives the threads, types and the counter of requests |
| `Cli` | the command line of nob, as operators |
| `Rebuild` | how nob starts and ends: the abstract specification of a command |
| `Builder`, `MCBuilder`, `nob.cfg` | the whole command: compilation, children, links; refines `Rebuild` |
| `Builder_proofs` | the types and invariants of both, and the refinement |
| `Toolchain`, `MCToolchain`, `tools.cfg` | what is fetched, unpacked, configured, patched and removed |
| `Toolchain_proofs` | all its safety properties |

The six configurations of `VIDispatcher` are `races`, `paced`, `start_race`, `lost_wakeup`,
`lost_start` and `deferred_lost`.

How they fit together: `VIDispatcher` extends `HeapOps` for its wait queue, and
`MinHeap` shows that the loops compute those operators. Its field `ready` is the
queue of `BoundedFifo` with room `ReadyRoom`, which is what `SPSCQ` implements. It
keeps only the number of workers of the memory that `Span` describes: `Slots` is
how far that memory can grow. It starts from the state in which the creation
modelled by `Lifecycle` returns, and `Lifecycle` in turn takes the states of rest
between calls (`Activity`) from `ExecutingRuns` and `InterruptedAreStopped`.

`Builder` extends `Rebuild`, which extends `Cli`. A variable of `Rebuild` changes only in
`Rebuild`'s own actions; between the start of main and its return (`MainReturns`)
`Builder` takes many steps that leave `Rebuild` where it is. `Toolchain` is apart: the
two share the command (`f_run`) and divide its steps. What is compiled and linked is in
`Builder`, with `BuildWamr` and `BoardFails` for all the rest; what is fetched and
configured is in `Toolchain`, with `LinkController` for `Builder`.

### SPSCQ

`data`, `read`, `write` are the fields of the template. A push is
`PushCall`, then `PushFull` or `PushRoom` (the comparison of the two indices), `PushFill` (the
plain store) and `PushPublish` (the release store). A pop is `PopEmpty` or `PopSome`,
`PopTake`, `PopRelease`. Each access of shared memory is a step. The acquire and
release orders of the code forbid the reorderings that would matter here, so
interleavings of the accesses in program order are all that can be seen.
`Values` and `Cap` are constants; the macro asserts that the capacity is a power of two
and the model needs only that it is positive (index arithmetic is `% Cap`).

### HeapOps and MinHeap

`HeapOps` gives the value of a whole call; `WaitCap` is the template's capacity. It keeps
what the array holds beyond `len`, because a push can leave a cell unwritten and a
later pop then returns what the cell held before (see section 6). `PathUp` is the way from the
last cell to the root, which a push moves down one place (`Risen`); `SmallerChild` chooses the way down a
pop shifts up (`Sunk`). `MinHeap` runs
`Push`, `Rise`, `RiseEnd`, `Pop`, `Sink`, `SinkEnd`; `target` remembers what `HeapOps`
says of the call in progress, and `LoopsMatchOps` compares when the loop has ended.

### Span

`root`, `cap` and `len` are the fields of the span, `chunks` is the content of the root
array, `live` the set of allocated blocks. `span_resize` is `Resize` when the capacity
suffices, otherwise `ResizeGrow`, `Realloc` or `ReallocFail`, `Malloc` for each new chunk or
`MallocFail`, and `ResizeEnd`. The old root array is gone after `Realloc` although the span
still points to it until the call ends: `moved` is the new one. `held` is the set of
addresses `_get_worker` has returned; worker threads keep theirs for ever.

### VIDispatcher

The user's thread has its place in `upc`, each executor (the main function is 0, worker
k is `workers[k-1]`) in `pc`, the dispatcher in `dpc`. `status`, `dstatus`, `nreq`, `exec`,
`size`, `func`, `waiting`, `ready`, `exception` are the variables of the code. `suspends`, `resumes`
and `dresume` are pending signals, `stopped` the executors inside the Suspend handler.
`accepted` and `served` count pushes and handler runs and exist only for the properties (`Total` adds them over the lines).

* `vi_dispatcher_status_signal` is four steps for each caller: count, exchange,
  store, kill (`TriggerCount` to `TriggerWake`, `SignalCount` to `SignalWake`).
* `vidispatcher_start` is `StartResume`, `StartKill`, `StartMode`, then the counter, the status and the
  thread of the dispatcher (`StartReset`, `StartInit`, `StartCreate`) and the poll (`StartWait` or
  `StartTimeout`). The main function runs meanwhile and may return: until the thread exists its
  signal goes to a thread id that nobody has set (`SignalNobody`).
* `_th_dispatcher` is one action per branch and per access that another thread can
  see: `DispCheck` and `DispPark` are the waiting loop, `UnwindPop` to `UnwindEnd` the loop that takes
  finished executors off the stack, `PopStart`, `PopDefer`, `PopWaiting`, `PopNothing` the
  four ways of the request, `SuspendMain` to `StartCond` the change of executor, `Assert` the
  assertion of `vi:539`, `MainTest` to `MainKill` the return of the main function and `Report` the
  exception.
* A worker is `WorkerReady`, then the loop `WorkerTake`, `WorkerWait`, `WorkerLock`, `WorkerUnlock`,
  `WorkerCall`, `WorkerReturn`, `WorkerDone` and the signal. `WorkerTake` takes the mutex;
  `CondSignal` is the lock, signal, unlock of the dispatcher and waits for the mutex.
* `DeliverSuspend` and `DeliverResume` are the signal handlers. A Suspend can be delivered
  anywhere outside its own handler except where the main function waits for its start.

Some steps are merged, none of which another thread can tell apart: the exchange
and the signal of a suspend to an executor (only the dispatcher sends those), and
a lock, signal, unlock of a worker's mutex. The spurious wake-ups that POSIX allows
`pthread_cond_wait` are left out, and so is a trigger before `vidispatcher_start` has
returned. Strings, masks and logging are left out.

### Lifecycle

`upc` is where the caller is inside `vidispatcher_init_full`, `vidispatcher_start` or
`vidispatcher_destroy`; `th`, `status` and `run` belong to the threads; `mem` says who owns the
non-movable data. Every failure of the code has its action: `InitMallocFail`, `Fails`,
`MainCreateError`, `MainInitError`, `MainInitAbort`, `WorkerCreateError`, `WorkerInitError`.
`before` records, when destruction begins, whether the controller was "calm" (no
handler runs, the dispatcher sleeps, each worker waits), "late" (a worker has not
stored its first status) or "busy". Serving a request is one step (`DispServe`), interrupts
are summarised by `Activity`, the main function does not return by itself, and the workers memory
does not grow. A signal to a thread that was never created ends the model in
"undefined", a failed assertion in "aborted". That the main function can be cancelled
rests on WAMR calls and `sigsuspend` being cancellation points.

### Cli

`c_cli_parse` applies `ParseWord` to one word after another (`Parsed`, a recursive function on the
number of words read). A structure of Booleans is the set of
its fields that are true; the long and the short form of a flag are one word; no flag
of nob takes an argument. A word nobody knows is reported and skipped.

### Rebuild

`nob`, `old` are the programs `nob` and `nob.old`: what versions of the sources they were compiled
from, when that began and the time of the file. `own` gives each source its version and its
`st_mtime`, `cc` is the compilation in progress, `waiting` the processes that wait for the running
one, each with the reason it started it. `Launch`, `BootstrapEnds` and `BootstrapFails` are the script at the top
of `nob.c`; `GoToRoot` is `go_exec_yourself_on_project_root`; `UpToDate`, `RenameToOld`, `CompileEnds` and
`CompileFails` are `go_rebuild_yourself_check_dir`; `ParseArgs`, `MainReturns`, `ParentExits` and `Exits` the
rest of a process. `EditOwn` (a source is edited at any moment), `Tick` and `Interrupt` (Ctrl-C) are the
world. `seen`, `typed`, `had`, `home` and `verdict` exist for the properties and `home` also tells
whether the program is in the current directory.

The compiler reads its files when it starts and writes its output when it ends, so that
an edit in between is not in the output, although the output is younger. `Hidden` is
exactly this case, with the edits of the same second. nob compiles into a new file, so
`CompileFails` puts `nob.old` back, and an interrupted compiler removes what it wrote.

### Builder

`step` is where main is, `unit` and `todo` the directory walked and the sources it has not reached (`walk_dir`
gives them in any order), `kids` the children nobody waited for; a child is `mine` while its
command lives and runs on afterwards. `CompileSkips` and `CompileStarts` are `builder_compile_file_to_obj`,
`PoolReaps` and `PoolFails` the waiting of `nob_cmd_run` with a full pool, `Flush` is `procs_flush`,
`LspEnds` and `LspFails` the synchronous commands of `-lsp`, `LinkVi` and `LinkLauncher` are
`builder_link_file_to_obj`, `Clean` is what `-c` removes. Each call that can fail has its action
(`BuildWamrFails`, `TidyFails`, `BoardFails`, `LinkFails`, `RunFails`). `ChildFails` leaves the old object or removes it.

The compilations of the library of WAMR and of nob's own program are one step each;
clang-tidy, which only reads, is one step for all sources.

### Toolchain

A tree on disk is "none", "part" or "full": the code looks at one file of each, and `Holds`
is what it sees. `Runs(can, good, bad)` is a program nob starts: it fails if what it needs is missing and otherwise
at most `MaxFaults` times, leaving `Leaves`. `CmakeOnPath` to `CmakeCopy` are `check_dependency`
and the installer of cmake, a subroutine with its return address in `back`; `UpdateSubmodules`, `Configure`
and `Build` are `f_build_wamr` with `cmake_configure` and `cmake_build`; `FetchSdk` to `BuildBoard` are `f_build_fakeboard`;
`Clean` is what `-clean` and `-clean-all` remove, where `dependency_clear` does nothing unless the
same process has looked up a dependency (`dbSet`). `Interrupt` can come at every step. The
disk survives, everything else is a new process.

## 3. What the runs show

| Run | Properties | Distinct states |
|---|---|---|
| `spscq` | `TypeOK`, `NoDataRace`, `ImplementsFifo` | 12 368 |
| `heap_loops` | `TypeOK`, `LoopsMatchOps`, `CallsEnd` | 18 508 |
| `span` | `TypeOK`, `HeldStay`, `Apart`, `NoLeak`, `EndInside` | 1 694 under symmetry |
| `lifecycle` | `TypeOK`, `FreedAfterJoin`, `CreationReturns`, `DestructionReturns` | 9 143 |
| `races` | `TypeOK`, `StackOrdered`, `WakeupCovered`, `RequestPending`, `SlotsStable` | 1 361 609 |
| `paced` | `ExecutingRuns`, `InterruptedAreStopped`, `IdleWorkersWait`, `RequestsAccounted`, `RequestsServed`, `MainComesBack` | 33 704 |
| `nob` | `BTypeOK`, `RunsItsSources`, `NobIsKept`, `ArgsReachMain`, `StatusReachesShell`, `LinksWhatItFound`, `NoneLeftBehind`, `CommandsEnd`, `ImplementsRebuild` | 341 045 |
| `tools` | `TypeOK`, `WorksFromAnywhere`, `ToolStable`, `TreeRestored`, `Recovers` | 48 964 |

* `spscq`: under every interleaving of one producer and one consumer no cell is
  accessed twice at once, and the
  ring implements `BoundedFifo` with room for one element less than it has cells.
* `heap_loops`: for every array a sequence of pushes and pops can produce, the loops end
  inside the array with the value `HeapOps` gives.
* `span`: a pointer to a worker stays right and allocated through growth and failed
  growth; two chunks never coincide; destruction frees exactly what was allocated; the
  index one past the end, which `span_get` accepts, lies in an allocated chunk.
* `races`: what needs no assumption on timing, with a main function that may return at any
  time, also before the dispatcher exists. The stack is ordered by line; a place
  on it keeps its line; a dispatcher asleep with status Working is about to be woken;
  `n_requests` is never decremented at 0.
* `paced`: the logic of the dispatcher without races, on three lines as the launcher has.
  After each event the worker on
  top runs alone, those below are stopped in their handlers, all others wait for
  work, and the channel is empty. `RequestsAccounted` relates handler runs and waiting requests to the
  accepted ones by number, and exactly for the highest line in use, which is never deferred. For each
  line by itself the equation is false, which `deferred_lost` shows: the code may serve one
  line in place of another. For every accepted request a handler is run in the end
  and the main function runs again, unless the program crashes,
  which it does after a main function that returns normally (section 6).
* `lifecycle`: the memory of the controller is freed only when no thread is left; creation
  returns whatever fails; destruction of a calm controller returns.
* `nob`: with edits at every moment, Ctrl-C and failures of every step, the program that
  works is compiled from the sources it checked and a link uses objects of the sources main found,
  but for edits the times hide; a nob is left; the flags reach main through the other
  processes and main's result reaches the shell; no link happens while a child runs; every
  command ends, so that nob does not rebuild itself for ever; all of it is a behaviour of `Rebuild`.
* `tools`: without a fault a run ends with a board whatever was cleaned or left before; a
  process keeps the cmake it found, although the working directory changes; the patch of
  WAMR is taken back after every failure but two; and after any faults, repeating
  `-run` and `-clean-all` leads to a board, but for two states nob never leaves (`Wedged`).

Four runs expect a violation; each shows that the code does not do what a comment
or an assertion in it says.

| Run | Property | What is shown |
|---|---|---|
| `start_race` | `AssertionsHold` | the main function stores Working after it was suspended; assertion `vi:539` |
| `lost_wakeup` | `SleepsOnlyWhenIdle` | the dispatcher sleeps although a request was counted |
| `lost_start` | `TopIsExecuting` | a start of a worker that does not wait yet is remembered nowhere |
| `deferred_lost` | `DeferredAreKept` | a deferred request is not stored, another is served in its place |

`TopIsExecuting` asks that every request was consumed (`nreq = 0`), so that the sleeping dispatcher of
`lost_wakeup` is not what violates it. In the shortest trace the worker has reported its creation and is
still Init when `vi_irq_worker_start` tests for Done (`workers/irq_worker.c:88`): nothing is
signalled, the worker waits, and nobody starts it again. With no such worker, and one trigger, the
property holds. With more triggers a worker that stored Done and does not wait yet
(264, 233) loses the signal in the same way.

### Bounds and why they are enough

* `Budget` bounds the triggers of each line: one each in `races`, and in `paced` one for the lowest and
  the highest line and two for the middle one. Every
  place of the stack is then used, left and used again, and requests of equal, lower
  and higher lines meet every state of the stack.
* `TwoEvents` bounds the events from outside in `races`: two triggers, or one and the return of the main
  function. With the three of them the model has 3.7 million states and the same result; the run leaves that
  case out for its time, and the theorems of `VIDispatcher_proofs` include it.
* `NLines` is 2 in `races`: preemption, equal lines and deferral all occur with two. It is 3 in `paced`
  and `deferred_lost`, as in the launcher: with two lines only line 0 ever waits, and the order of the wait queue
  does not matter. `lost_start` needs one.
* `Depth` is 1 and `Slots` 4 in `paced`, so that the workers memory grows
  twice; in `races` there are 3 workers, as many as 2 requests and the one in
  reserve take, and the memory does not grow (that it grows in time is proved, `WorkersSuffice`).
* `ReadyRoom` is 1: a full channel (`TriggerFull`) is reached at once.
* `WaitCap` is as large as the number of requests that can wait. With a smaller wait
  queue the code drops requests (`vi:504`), by design; `RequestsKept` is proved for every size.
* `Late` holds the workers that had not yet waited when creation returned. One of them
  shows the same races as several, and it is what `lost_start` is about.
* `span` has chunks of two elements, up to three chunks and five blocks: the root array
  moves, grows by one and by two chunks, and fails at each allocation.
* `lifecycle` has three workers: two can be interrupted or running, one is idle.
* `heap_loops` has six cells: two full levels and half of a third.
* `nob` has two commands, an edit and two seconds: the second command meets what the first
  left, the orphans included, and an edit falls before, into or after each compilation, in the
  same second or not. One source of nob and two of the controller, with the compilation of the library,
  fill a pool of two. The launcher's directory is empty in the run, so that its walk and its link happen
  without objects; with sources its steps are those of the controller. Three command lines cover a word
  nobody knows, `-lsp`, both removals, and the help that makes the parse fail.
* `tools` starts with every set of programs on `PATH` and allows three faults: one can leave a part of a
  tree, the second hits the command that finds it, and the third the command that cleans up.

### Pacing

Signals and status words race (section 6), and a property about who runs cannot hold
under every interleaving. `Paced` is the regime of `launcher/main.c`, which sleeps 2 to 20
seconds between its triggers: an event from outside comes when all threads have
settled, and the dispatcher moves when the other threads have. The run `paced` is
about the dispatcher's decisions in that regime; `races` and the theorems of
`VIDispatcher_proofs` make no such assumption.

The launcher's pauses make this regime likely; they do not guarantee it, since a handler
may end, and a thread be late, at any moment. The windows at `workers/irq_worker.c:109` and `90`, at
`workers/base.c:52`, and in the dispatcher at `vi:506` and `vi:614` are therefore only partly covered: the properties
that name them show what the code does when no other thread moves inside the window, not what follows
when one does.

### Fairness

`ThreadFairness` is weak fairness of each thread's own steps and of the delivery of a
pending signal that is not blocked: what a POSIX scheduler gives to runnable
threads of equal priority. `HandlersEnd` says that handlers return; it is an assumption about
the wasm program, kept separate, and the example board meets it. The user's thread is
fair only inside a call: it never has to trigger, and the main function never has to
return. `FairSpec` of `Lifecycle` is the same for
the caller inside a call and for each thread; a handler that is running may end, which
`DestructionReturns` does not depend on, because it is about calm controllers.

`BFairness` says that nob goes on in each of its two parts and that children end, as
processes do that are not stopped; the user need not type, and edits and Ctrl-C
are never forced. `Fairness` of `Toolchain` says that nob goes on and that its user repeats `-run` and `-clean-all`
(`SF`, since each is enabled only at the prompt). Only `Recovers` uses it; it says that what an
earlier failure left can be got rid of by the commands nob has. Faults are bounded, so
that they stop.

`CHECK_DEADLOCK FALSE` is used where the system may stop: the user makes no more calls, a
failed assertion ends the process, the span was destroyed, the bound of commands is reached. The
channel, the wait queue and `tools` never stop, and there deadlock is checked.

## 4. What is proved

Assumptions are the `ASSUME`s of the modules: constants are naturals of the right sign,
`NULL` is not a block, `Depth <= Slots`, `None` is not a program, "wamr" not a source, a pool has room for two
(`nprocs() + 1`), the elements of the wait queue are naturals, and a command line is a sequence of words
(`ArgvsAssumption`). No bound of the runs is assumed: `Budget`, `ReadyRoom`, `WaitCap`,
`NLines`, `Cap`, `MaxLen`, `Blocks`, `MaxProcs`, `MaxFaults`, `MaxEdits`, `MaxCommands` and the sets of sources and
of command lines are arbitrary. Only the theorems of `Paced_proofs` have a hypothesis: the regime `Paced`.

* `SPSCQ_proofs`. `TypeCorrect`, `HandOverCorrect` and from it `RaceFree`: the
  hand-over conditions are the inductive invariant, since each side relies on the
  other moving only its own index. `Refinement` maps the ring to the sequence `Content` of
  the cells between the indices. Lemmas: filling a free cell does not change it
  (`FillKeepsContent`), publishing appends (`PublishAppends`), releasing removes the oldest (`ReleaseRemoves`).
* `Span_proofs`. The invariant `IInv` adds to the five properties the control
  information of a growth (`Progress`: the counter is between the old and the new capacity,
  and the chunks below it exist) and that each pointer handed out is into an existing chunk
  (`HeldHaveChunks`). Neither `HeldStay` nor `NoLeak` is inductive alone: a pointer stays right because the
  chunks below `cap` are never replaced, which is `Progress`. Theorems `TypeCorrect`, `AddressesStay`,
  `ChunksApart`, `NothingLeaks`, `EndIsInside`.
* `VIDispatcher_proofs`. `IInv` is `TypeOK`, `Room` (between two requests there is a worker to
  spare, so that `exec` never leaves the memory) and `Nested` (where the dispatcher is tells how
  large `exec` is). On it rest `TypeCorrect`, `RequestsNeverMissing` (the dispatcher alone decrements, and
  tests before; `Unstarted`: the counter is reset only while there is no dispatcher), `WakeupsCovered` (whoever stores Working over another status goes on to
  send Resume), `PreemptionNests` (a push is not below the old top, pops only shorten), `SlotsKept`
  and `WorkersSuffice` (the memory grows before its last worker is used).
* `Paced_proofs`. All its theorems `ASSUME Paced`. At rest the states of the threads are few, but the invariant has to hold
  in the middle of every switch. `PacedInv` therefore gives each executor a role that covers
  the states it goes through by itself: `Works`, `Halts`, `Rests`, `Leaves` and so on. The steps of the executors' own
  threads and the delivery of signals stay within a role; only the dispatcher changes roles, and
  pacing says that it finds each executor where its role ends. From it follow `TopRuns`, `InterruptedStay`, `IdleWait` and
  `AbortsForMemory` (`OnlyMemoryAborts`: the assertions on the main function's status hold in this regime, which
  `start_race` refutes without it). `ChannelInv` relates the counter and the channel to the place of the
  dispatcher: a turn answers one signal and takes the line that came with it (`NothingLeftBehind`, `ChannelDrained`).
  `RequestsKept` is `RequestsAccounted` for every number of lines, `WaitCap` and `Budget`. Its invariant is `AccountInv`. `Kept` counts:
  what was accepted and is neither in the channel nor handed to a worker was served or waits, and none is missing while no
  more were accepted than the wait queue has room for. `Known` says what the heap can hold, cells beyond its length
  included: 0, or a line below one in use, because an unwritten cell still holds 0 or an earlier line (`PushValues`, `PopValues`). Hence
  what is popped in place of another line is never the highest one, and `TopLine` keeps the count of that line exact.
* `MinHeap_proofs`. `TypeCorrect`: the indices of both loops stay inside the array. `LoopsCompute`: when a call returns, the array is
  what `HeapOps` says. The invariants of the loops (`Rising`, `Sinking`) say that the array, with the element in hand put
  at the current index, is the part of the result reached so far. The recursive functions of `HeapOps` are
  defined on every cell by `CellByCell`: a set of cells that holds a cell whenever it holds the lower ones holds all, since
  what is left out would have a least member.
* `Lifecycle_proofs`. `MemoryOutlivesThreads` for every number of workers. `FreedAfterJoin` says nothing of
  how the caller came to the point where it frees; `IInv` follows the caller: during
  creation (`CreationStage`) the workers below the loop counter run their loops and those above do not
  exist; during destruction (`DestructionStage`) those below are joined and those above still run.
  The heart is that the loop passes over a worker without joining it only if it is Init
  or Dead, and that a worker that was not told to stop is never Dead (`Lives`). What each
  thread does to this is one lemma each (`ThreadsKeep`, `ThreadsSpin`, `CallerStep`).
  `TypesAreKept` bounds `n_requests`, which the code does not, by the number of workers. `RInv` says
  why: while the dispatcher runs there is at most one request, that of the executor on top, and serving it
  takes exactly that executor off the stack (`ServeStep`); once it is told to end, what is left is the caller's request, that of the
  executor on top, and that of the first worker if destruction resumes it, after which destruction waits for ever.
* `Builder_proofs`, on `Rebuild`. `NobIsCurrent` rests on `Tracks`, true of every program and of the compilation in progress: what
  has not got a file's last version began no later than that file was edited. If such
  a program is nevertheless taken for up to date, the edit is hidden. `NobSurvives` follows
  `nob` and `nob.old` through the two renames. `StatusIsPassedOn` needs that from the root every waiting
  process waits for a rebuilt program (`Place`). `ArgsAreKept` needs what `Parse` returns for every sequence of words
  (`ParseMeans`): `ParsedExists` and `ParsedEquation` show, with the least number of words for which it would fail, that the
  recursive function is defined, and `ParsedMeaning` that its value is the set of flags among the words.
* `Builder_proofs`, on `Builder`. `Refinement`: each action is an action of `Rebuild` or leaves its variables alone, so that
  the theorems about `Rebuild` hold of the build. `LinkIsCurrent` needs three parts: `FilesTrack` and `BegunTrack` are `Tracks` for objects and for
  children, those left by earlier commands included, since these still write objects; `WalkTrack` follows a source
  from `todo` to a child (`Pending`) to an object or a failure (`Done`). `ChildrenAreAwaited` needs `NoneMine`:
  outside the walks and the library's build nob has no child.
* `Toolchain_proofs`. `TypeCorrect`; `FoundStaysFound` from `CmakeKnown`: a cmake that was found is on `PATH` or in the data
  base, and nothing is fetched while one is known; `PatchIsTakenBack`, action by action; `BuildsFromAnywhere` from `Prepared`,
  which says what each tree is at each place of a command as long as there was no fault.

Most of these theorems state a property that a run also checks, so that the
formula was known to hold on small instances before it was proved; every safety invariant of the passing runs is proved. The
others: `HandOverCorrect` is the inductive invariant behind the refinement, `WorkersSuffice` relates
the stack to the growth of the memory, `RTypeCorrect` is part of `BTypeCorrect`, `AbortsForMemory` and `NothingLeftBehind` say in what way
the regime of the launcher avoids the races of the other runs. The inductive invariants of `Lifecycle` and of the paced
system are long, and TLC checked them on the instances of the runs before they were proved.

Only model-checked:

* liveness (`RequestsServed`, `MainComesBack`, `CallsEnd`, `CreationReturns`, `DestructionReturns`, `CommandsEnd`, `Recovers`), which is out of the
  prover's reach, as `ENABLED` is.

The library's theorems on induction take an operator as a parameter, which the provers cannot instantiate. What a
recursive function computes is proved here without them: of the naturals for which a statement fails, if there are
any, the library gives a least one (`WFMin`), which the function's equation refutes.

## 5. What is not modelled, and why

* WAMR, the wasm program and libc: a call into wasm ends normally, with an exception, or
  never. Signal delivery, condition variables and mutexes are modelled by their effects.
* Argument checks of the API, getters and `vidispatcher_assign_irq_to_line`: one test or one
  store each. `funcs` is not initialised by creation; the model assumes that each line
  that is triggered was assigned.
* `logger.c`, `debug.c`: output. The debug thread reads the workers memory while it may grow
  (`debug.c:40`), a race outside the model.
* The example board, and how the launcher loads a module: a wasm program and calls of WAMR. The
  launcher's regime of calls is `Paced`.
* The command line: the parsers of arguments, lists and numbers, which no flag of nob uses; the text of
  the help.
* Helpers of the build program that `nob.c` never calls (make, python, templates), and the parts of `nob.h`
  without state the properties are about: strings, temporary memory, chains of commands, its
  Windows branches, logging.
* The content of the archives that are fetched. The data base is searched for the first regular file
  with the name of the program (`dependency.h:321`), and the archive of cmake also holds a completion script
  called `cmake`. The model assumes that a full tree gives the program (`Works`); in which order the walk meets
  the two is up to the file system.
* Failures of `mkdir`, `fork` and `chdir` in nob, a full disk beyond a copy that stops, and
  a clock that goes backwards.
* Headers: an object is compared with its `.c` file only (`builder.h:107`), so nob does not notice an edited header.
  There is no property the code keeps about them, and the model's sources are the `.c` files.
* `span_write`, `spscq_peek_last_pushed`, `spscq_len`: used only by tests and by the log.

## 6. Behaviour of the code met while modelling

Those with a run are in section 3. The others, seen in traces and in the source:

* `vi:467` uses `>=`, so that a line interrupts its own handler; the comment at 460
  says `>`. `StackOrdered` therefore says `<=`.
* `vidispatcher_trigger_interrupt` returns `VIError_Async` when the dispatcher was awake although
  the request was queued (`vi:286`, `workers/base.c:71`); the launcher treats it as an error.
* After `StartTimeout` the dispatcher thread exists while the caller was told it failed.
* The jump at `vi:451` skips the channel. Without pacing, a request whose count was
  consumed together with the end of a handler stays there until the next event.
* Suspend is one bit when pending: suspend, resume, suspend in quick succession can leave a
  worker running below the one that interrupted it, and a worker stopped while
  it holds its mutex blocks the dispatcher in `vi_irq_worker_start`.
* The wait queue is a min-heap, so that the lowest waiting line is served first.
* Creation: without memory the result is still None and assertion `vi:194` fails; on
  every later failure `vidispatcher_destroy` does nothing, because the dispatcher does
  not own its data yet, and threads and memory stay. Without an execution environment
  the main thread's cleanup handler fails its own assertion.
* A worker that fails to initialise does not make `vi_irq_worker_init` fail, and the resume in
  `vi_irq_worker_destroy` can overwrite the Dead it then polls for: creation waits for ever. This is why
  `CreationReturns` excepts it.
* Destruction of a controller that was never started signals and joins a thread that does
  not exist ("undefined" in `Lifecycle`). Destruction right after creation skips
  workers that are still in Init and frees the memory they use ("late"). Destruction while a
  handler runs waits for ever: the worker ends its handler and waits for a condition nobody
  signals again ("busy").
* A main function that returns normally crashes the dispatcher: its result is tested the wrong way round
  (`workers/main_logic.c:174`), the exception stored is NULL, and the dispatcher compares it as a string. `RequestsServed` and
  `MainComesBack` leave a crashed program out.
* `vidispatcher_start` resumes the main function before it initialises the dispatcher (`vi:246` to `253`). A main function that
  returns at once adds to a counter that is then reset, and may call `pthread_kill` with a thread id that
  nobody has set (`SignalNobody`).
* Build, compilation: `procs_flush` is called for its effect only (`nob.c:76`), so that when a compilation fails
  the old object is linked and success reported; `LinksWhatItFound` therefore leaves out the sources that
  failed. A command that fails leaves its other children running. An edit in the second in which an
  object is written, or while it is compiled, is never noticed (`Hidden`).
* Build, start: from a subdirectory the exit status is always 0 (`goto_root.h:47`). `-v` alone counts as a flag
  that was found, so that nothing is built. Ctrl-C during a compilation of nob leaves only `nob.old`.
* Build, dependencies: a cmake that was copied in part is found from then on, and `-clean-all` does not remove it unless
  the same command looked cmake up (`dependency.h:301`). When git fails to take the patch
  back, or nob is interrupted before it does, the tree stays patched and git does not patch it again. Without python the
  tree stays patched as well. A wamrc that cannot be built ends the board's step with the result of `git apply -R`,
  success, and no board (`fake_board.h:134`).

## 7. Order of the work

The modules were written in this order: the channel, the wait queue, the controller at run
time and its theorems, the workers memory with its theorems, creation and destruction with
theirs, the start of nob, the build, its dependencies, and the theorems of the three; then the
theorems about the paced controller, the loops of the wait queue, the words of the command line and the counter of `Lifecycle`.

What could be added, by importance:

1. An abstract interrupt controller (a stack of lines and a bag of waiting lines, one step per
   event), and the paced controller shown to implement it.
2. The executors' signals alone, without pacing: what the pair of status and pending
   signal guarantees, and the blocking of the dispatcher on a worker's mutex.
3. The inductive invariant behind `WakeupCovered` extended to the executors (a stopped executor that
   is marked Working has a Resume pending).
