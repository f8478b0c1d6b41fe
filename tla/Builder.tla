-------------------------------- MODULE Builder --------------------------------
(***************************************************************************)
(* What nob does once it runs (main and f_run of nob.c): the library of    *)
(* WAMR, then the objects of the virtual interrupt controller and of the   *)
(* launcher, compiled in parallel by builder.h and the pool of processes   *)
(* of nob.h and linked.  The steps come with those of Rebuild: variables   *)
(* of Rebuild change in its own actions only, MainReturns among them, so   *)
(* that this module implements Rebuild.                                    *)
(*                                                                         *)
(* A process that nob leaves while its children run leaves them running:   *)
(* they may end during the next command.                                   *)
(***************************************************************************)
EXTENDS Rebuild, FiniteSets

CONSTANTS ViSources, LauncherSources,  \* the .c files of the two directories
          MaxProcs                     \* children at a time: nprocs() + 1

ASSUME SourcesAssumption == "wamr" \notin ViSources \union LauncherSources
ASSUME MaxProcsAssumption == MaxProcs \in Nat \ {0, 1}

Sources == ViSources \union LauncherSources
SourcesOf(u) == IF u = "vi" THEN ViSources ELSE LauncherSources

Object == [ver : Nat, began : Nat, time : Nat]
ASSUME NoObjectAssumption == None \notin Object

VARIABLES
  src,     \* the sources: version and st_mtime
  obj,     \* the object file of each: the version compiled, when
  kids,    \* children that were not waited for
  step,    \* where main is
  unit,    \* the directory being built: "vi" or "launcher"
  todo,    \* its sources the walk has not reached
  begun,   \* the sources when main began (history)
  failed   \* the sources a compilation of which failed since (history)

buildVars == <<step, unit, todo, begun, failed>>
fileVars == <<src, obj, kids>>
bvars == <<rvars, buildVars, fileVars>>

Unbegun == [s \in Sources |-> [ver |-> 0, time |-> 0]]

BInit ==
  /\ RInit
  /\ src = [s \in Sources |-> [ver |-> 0, time |-> 1]]
  /\ obj = [s \in Sources |-> None]
  /\ kids = {}
  /\ step = "none" /\ unit = "vi" /\ todo = {} /\ begun = Unbegun /\ failed = {}

Lsp == "lsp" \in args

(* Processes started with the pool, which only a flush or a wait empties.  *)
Kid == [what : Sources \union {"wamr"}, ver : Nat, began : Nat,
        mine : BOOLEAN, st : {"runs", "ok", "failed"}]
Pool == {k \in kids : k.mine}
Child(what) == [what |-> what, ver |-> IF what \in Sources THEN src[what].ver ELSE 0,
                began |-> clock, mine |-> TRUE, st |-> "runs"]

-----------------------------------------------------------------------------
(* The environment: the user edits a source; a child ends.  A compiler that*)
(* fails leaves the old object or none.                                    *)
Edit(s) ==
  /\ EditElsewhere
  /\ src' = [src EXCEPT ![s] = [ver |-> @.ver + 1, time |-> clock]]
  /\ UNCHANGED <<buildVars, obj, kids>>

Reports(k, st) == kids' = (kids \ {k}) \union (IF k.mine THEN {[k EXCEPT !.st = st]} ELSE {})

ChildSucceeds(k) ==
  /\ k \in kids /\ k.st = "runs"
  /\ Reports(k, "ok")
  /\ obj' = IF k.what \in Sources
            THEN [obj EXCEPT ![k.what] = [ver |-> k.ver, began |-> k.began, time |-> clock]]
            ELSE obj
  /\ UNCHANGED <<rvars, buildVars, src>>

ChildFails(k) ==
  /\ k \in kids /\ k.st = "runs"
  /\ Reports(k, "failed")
  /\ \/ UNCHANGED obj
     \/ k.what \in Sources /\ obj' = [obj EXCEPT ![k.what] = None]
  /\ failed' = IF step = "none" THEN failed ELSE failed \union {k.what}
  /\ UNCHANGED <<rvars, step, unit, todo, begun, src>>

-----------------------------------------------------------------------------
(* main returns; the children that still run are left.                     *)
Return(v) ==
  /\ MainReturns(v)
  /\ kids' = {k \in kids : ~k.mine} \union
             {[k EXCEPT !.mine = FALSE] : k \in {x \in Pool : x.st = "runs"}}
  /\ step' = "none" /\ unit' = "vi" /\ todo' = {} /\ begun' = Unbegun /\ failed' = {}
  /\ UNCHANGED <<src, obj>>

Goes(from, to) == pc = "main" /\ step = from /\ step' = to
ReturnsFrom(from, v) == step = from /\ Return(v)

Begin ==
  /\ Goes("none", IF args \intersect {"build", "run"} # {} THEN "wamr" ELSE "clean")
  /\ begun' = src
  /\ UNCHANGED <<rvars, unit, todo, failed, fileVars>>

(* f_build_wamr: its configuration is in Toolchain; the compilation is one *)
(* child of the pool, or is waited for with -lsp.                          *)
BuildWamr ==
  /\ Goes("wamr", "tidy")
  /\ kids' = IF Lsp THEN kids ELSE kids \union {Child("wamr")}
  /\ UNCHANGED <<rvars, unit, todo, begun, failed, src, obj>>

BuildWamrFails == ReturnsFrom("wamr", "fail")

(* walk_dir reaches every file of the directory of u, in any order.        *)
Walk(u) == unit' = u /\ todo' = SourcesOf(u)

(* vi_f_check: clang-tidy, when there is one, on each source.              *)
Tidy ==
  /\ Goes("tidy", "compile")
  /\ Walk("vi")
  /\ UNCHANGED <<rvars, begun, failed, fileVars>>

TidyFails == ReturnsFrom("tidy", "fail")

(* As below, with an object that exists taken for up to date.              *)
MustCompileMissing(s) == Lsp \/ obj[s] = None

(* builder_compile_file_to_obj, for the next file of the walk.             *)
MustCompile(s) == Lsp \/ NeedsRebuild(obj[s], src[s])

CompileSkips(s) ==
  /\ Goes("compile", "compile")
  /\ s \in todo /\ ~MustCompile(s)
  /\ todo' = todo \ {s}
  /\ UNCHANGED <<rvars, unit, begun, failed, fileVars>>

CompileStarts(s) ==
  /\ Goes("compile", IF Lsp THEN "wait" ELSE "compile")
  /\ s \in todo /\ MustCompile(s)
  /\ Cardinality(Pool) < MaxProcs
  /\ kids' = kids \union {Child(s)}
  /\ todo' = todo \ {s}
  /\ UNCHANGED <<rvars, unit, begun, failed, src, obj>>

(* nob_cmd_run waits for room in the pool: a child that succeeded leaves it;*)
(* one that failed ends the command, and with it the walk and main.        *)
PoolFull(s) == step = "compile" /\ s \in todo /\ MustCompile(s) /\ Cardinality(Pool) >= MaxProcs

PoolReaps(s, k) ==
  /\ PoolFull(s)
  /\ Goes("compile", "compile")
  /\ k \in Pool /\ k.st = "ok"
  /\ kids' = kids \ {k}
  /\ UNCHANGED <<rvars, unit, todo, begun, failed, src, obj>>

(* As below, with the failure taken for a child that still runs.           *)
PoolFailsIgnored(s, k) ==
  /\ PoolFull(s)
  /\ k \in Pool /\ k.st = "failed"
  /\ UNCHANGED bvars

PoolFails(s, k) ==
  /\ PoolFull(s)
  /\ k \in Pool /\ k.st = "failed"
  /\ Return("fail")

(* lsp_configure: the same command under bear, waited for.                 *)
LspEnds ==
  /\ Goes("wait", "compile")
  /\ \E k \in Pool : k.st = "ok" /\ kids' = kids \ {k}
  /\ UNCHANGED <<rvars, unit, todo, begun, failed, src, obj>>

LspFails ==
  \/ /\ ReturnsFrom("wait", "fail")
     /\ \E k \in Pool : k.st = "failed"
  \/ /\ Lsp /\ todo # {}            \* bear is missing
     /\ ReturnsFrom("compile", "fail")

(* The walk is over.  f_run builds the board before it waits (Toolchain).  *)
WalkEnds ==
  /\ Goes("compile", "flush")
  /\ todo = {}
  /\ UNCHANGED <<rvars, unit, todo, begun, failed, fileVars>>

BoardFails ==
  /\ unit = "launcher" /\ todo = {}
  /\ ReturnsFrom("compile", "fail")

(* As below, without waiting.                                              *)
FlushNoWait ==
  /\ Goes("flush", "link")
  /\ UNCHANGED <<rvars, unit, todo, begun, failed, fileVars>>

(* procs_flush: waits for every child; whether they succeeded is ignored.  *)
Flush ==
  /\ Goes("flush", "link")
  /\ \A k \in Pool : k.st # "runs"
  /\ kids' = kids \ Pool
  /\ UNCHANGED <<rvars, unit, todo, begun, failed, src, obj>>

(* builder_link_file_to_obj links every object of the directory: the shared*)
(* library of the controller, then, with -run, the launcher.               *)
LinkVi ==
  /\ unit = "vi"
  /\ Goes("link", IF "run" \in args THEN "launcher" ELSE "clean")
  /\ UNCHANGED <<rvars, unit, todo, begun, failed, fileVars>>

CompileLauncher ==
  /\ Goes("launcher", "compile")
  /\ Walk("launcher")
  /\ UNCHANGED <<rvars, begun, failed, fileVars>>

LinkLauncher ==
  /\ unit = "launcher"
  /\ Goes("link", "run")
  /\ UNCHANGED <<rvars, unit, todo, begun, failed, fileVars>>

LinkFails == ReturnsFrom("link", "fail")

(* ./main ends. *)
RunEnds ==
  /\ Goes("run", "clean")
  /\ UNCHANGED <<rvars, unit, todo, begun, failed, fileVars>>

RunFails == ReturnsFrom("run", "fail")

(* As below, with what -call does to nob done before what can still fail.  *)
CleanNobFirst ==
  /\ Goes("clean", "end")
  /\ obj' = IF "clean" \in args THEN [s \in Sources |-> None] ELSE obj
  /\ nob' = IF "clean_all" \in args THEN None ELSE nob
  /\ UNCHANGED <<worldVars, own, old, cc, processVars, historyVars,
                 unit, todo, begun, failed, src, kids>>

(* -c clears the build directory, after a build too. *)
Clean ==
  /\ Goes("clean", "end")
  /\ obj' = IF "clean" \in args THEN [s \in Sources |-> None] ELSE obj
  /\ UNCHANGED <<rvars, unit, todo, begun, failed, src, kids>>

End == ReturnsFrom("end", "ok")

(* Ctrl-C also ends the children of this command, not those an earlier one left. *)
Interrupted ==
  /\ Interrupt
  /\ kids' = {k \in kids : ~k.mine}
  /\ step' = "none" /\ unit' = "vi" /\ todo' = {} /\ begun' = Unbegun /\ failed' = {}
  /\ UNCHANGED <<src, obj>>

MainNext ==
  \/ Begin \/ BuildWamr \/ BuildWamrFails \/ Tidy \/ TidyFails
  \/ \E s \in Sources : \/ CompileSkips(s) \/ CompileStarts(s)
                        \/ \E k \in kids : PoolReaps(s, k) \/ PoolFails(s, k)
  \/ LspEnds \/ LspFails \/ WalkEnds \/ BoardFails \/ Flush
  \/ LinkVi \/ CompileLauncher \/ LinkLauncher \/ LinkFails \/ RunEnds \/ RunFails \/ Clean \/ End

ChildNext == \E k \in kids : ChildSucceeds(k) \/ ChildFails(k)

NobNext == (StartNext \/ EndNext) /\ UNCHANGED <<buildVars, fileVars>>

BNext ==
  \/ NobNext \/ MainNext \/ ChildNext
  \/ (UserNext \/ Tick) /\ UNCHANGED <<buildVars, fileVars>>
  \/ \E s \in Sources : Edit(s)
  \/ Interrupted

BSpec == BInit /\ [][BNext]_bvars

(* The processes run, and those they start end. *)
BFairness == WF_bvars(NobNext) /\ WF_bvars(MainNext) /\ WF_bvars(ChildNext)
BFairSpec == BSpec /\ BFairness

-----------------------------------------------------------------------------
BTypeOK ==
  /\ RTypeOK
  /\ src \in [Sources -> [ver : Nat, time : Nat]]
  /\ obj \in [Sources -> Object \union {None}]
  /\ kids \subseteq Kid
  /\ step \in {"none", "wamr", "tidy", "compile", "wait", "flush", "link",
              "launcher", "run", "clean", "end"}
  /\ unit \in {"vi", "launcher"} /\ todo \subseteq Sources
  /\ begun \in [Sources -> [ver : Nat, time : Nat]]
  /\ failed \subseteq Sources \union {"wamr"}

(* What a link finds of each source is at least the version main began     *)
(* with, but for an edit the times cannot show and a compilation whose     *)
(* failure was ignored.                                                    *)
Current(s) ==
  \/ s \in failed
  \/ obj[s] # None /\ (obj[s].ver >= begun[s].ver \/ Hidden(begun[s], obj[s]))

LinksWhatItFound == step = "link" => \A s \in SourcesOf(unit) : Current(s)

(* No link, and no success, while a child of this command runs.            *)
NoneLeftBehind ==
  step \in {"link", "launcher", "run", "clean", "end"} => \A k \in kids : ~k.mine

(* However nob is built, it starts, rebuilds itself and ends as Rebuild says. *)
ImplementsRebuild == RSpec

(* Every command ends: the program does not rebuild itself for ever, nor   *)
(* wait for children that are not there.                                   *)
CommandsEnd == pc # "idle" ~> pc = "idle"
=============================================================================
