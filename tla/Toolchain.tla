------------------------------- MODULE Toolchain -------------------------------
(***************************************************************************)
(* What nob fetches, unpacks, configures and patches: cmake, through the   *)
(* local data base of dependency.h, the library of WAMR (wamr.h), the wasi *)
(* SDK, the compiler wamrc and the example board (fake_board.h), and what  *)
(* -clean and -clean-all remove.  All of it stays on disk from one command *)
(* to the next, also when a command fails half-way, and each step decides  *)
(* by the existence of one file whether it was done before.                *)
(*                                                                         *)
(* A tree of files is "full", or "part": the file that is looked for is    *)
(* there but not all the rest, or "none": that file is not there.  A       *)
(* program nob runs fails when what it needs is missing, and otherwise at  *)
(* most MaxFaults times, with a part of its work done; Ctrl-C counts as    *)
(* one of those.  Compiling and linking is the subject of Builder.         *)
(***************************************************************************)
EXTENDS Naturals

CONSTANTS PathSets,   \* the sets of programs that may be on PATH
          MaxFaults   \* bound of the number of faults

Programs == {"git", "curl", "tar", "make", "python", "cmake"}

ASSUME PathAssumption == PathSets \subseteq SUBSET Programs
ASSUME FaultsAssumption == MaxFaults \in Nat

Tree == {"none", "part", "full"}
Commands == {{"run"}, {"clean"}, {"clean", "clean_all"}, {"run", "clean", "clean_all"}}

VARIABLES
  path,        \* the programs on PATH
  pc, args,    \* where nob is, its flags
  res,         \* how the last command ended
  dbSet,       \* this process knows the directory of the data base (_db_dir)
  cm,          \* the cmake that the last cmake_get of this process found
  back,        \* where cmake_get returns to
  built,       \* build_ok of f_build_fakeboard
  db, work,    \* cmake in the data base: as installed, and as unpacked
  sub,         \* the submodules are checked out
  patched,     \* and wamrc_build.patch is applied to them
  conf, lib,   \* the build directory of the library (CMakeFiles), the library
  sdkTar, sdk, \* the wasi SDK: the archive, and as unpacked (VERSION)
  llvm, wamrc, \* what build_llvm.sh makes, and the compiler made with it
  aot,         \* fake_board.aot
  faults       \* faults so far

callVars == <<args, res, dbSet>>
procVars == <<pc, callVars, cm, back, built>>
cmakeVars == <<db, work>>
libVars == <<conf, lib>>
sdkVars == <<sdkTar, sdk>>
boardVars == <<llvm, wamrc, aot>>
diskVars == <<cmakeVars, sub, patched, libVars, sdkVars, boardVars>>
vars == <<path, procVars, diskVars, faults>>

Init ==
  /\ path \in PathSets
  /\ pc = "idle" /\ args = {} /\ res = "none" /\ dbSet = FALSE
  /\ cm = "none" /\ back = "none" /\ built = FALSE
  /\ db = "none" /\ work = "none" /\ sub = FALSE /\ patched = FALSE
  /\ conf = "none" /\ lib = FALSE /\ sdkTar = "none" /\ sdk = "none"
  /\ llvm = FALSE /\ wamrc = FALSE /\ aot = FALSE
  /\ faults = 0

-----------------------------------------------------------------------------
(* A program is run: it succeeds if it can, or it fails.                   *)
Runs(can, good, bad) ==
  \/ can /\ good /\ UNCHANGED faults
  \/ ~can /\ bad /\ UNCHANGED faults
  \/ can /\ bad /\ faults < MaxFaults /\ faults' = faults + 1

(* What a program that failed leaves of its output; nothing new if it is   *)
(* not on PATH.                                                            *)
Leaves(program, tree) == IF program \in path THEN {"none", "part"} ELSE {tree}

Goto(l) == pc' = l /\ UNCHANGED <<callVars, cm, back, built>>
CallCmakeGet(l) == pc' = "cmake_get" /\ back' = l /\ UNCHANGED <<callVars, cm, built>>

(* As below, with the caller still noted after the return.                 *)
CmakeGetReturnsDirty(found) ==
  pc' = back /\ cm' = found /\ UNCHANGED <<callVars, back, built>>

CmakeGetReturns(found) ==
  pc' = back /\ back' = "none" /\ cm' = found /\ UNCHANGED <<callVars, built>>

Ends(result) ==
  /\ pc' = "idle" /\ res' = result
  /\ dbSet' = FALSE /\ cm' = "none" /\ back' = "none" /\ built' = FALSE
  /\ UNCHANGED args

Launch(flags) ==
  /\ pc = "idle"
  /\ pc' = IF "run" \in flags THEN "submodules" ELSE "clean"
  /\ args' = flags /\ res' = "none"
  /\ UNCHANGED <<path, dbSet, cm, back, built, diskVars, faults>>

-----------------------------------------------------------------------------
(* cmake_get, that is, check_dependency("cmake"), and _cmake_installer.    *)
Holds(tree) == tree \in {"part", "full"}
Found == {t \in {"db", "work"} : Holds(IF t = "db" THEN db ELSE work)}

(* The cmake that was found can do its work.  _db_serach_program_check_file*)
(* tests the name and the type of a file and takes the first that matches; *)
(* what else an archive holds under that name (Kitware's has a completion  *)
(* script called cmake) is external, and it is assumed that a walk of a    *)
(* full tree meets the program first.                                      *)
Works == cm = "path" \/ (cm = "db" /\ db = "full") \/ (cm = "work" /\ work = "full")

CmakeOnPath ==
  /\ pc = "cmake_get"
  /\ IF "cmake" \in path THEN CmakeGetReturns("path") ELSE Goto("search")
  /\ UNCHANGED <<path, diskVars, faults>>

(* As below, with a data base named from the current directory, which is   *)
(* another one while wamrc is built.                                       *)
CmakeSearchHere ==
  /\ pc = "search"
  /\ IF Found # {} /\ back \notin {"wamrc_configure", "wamrc_build"}
       THEN \E t \in Found : CmakeGetReturns(t) /\ UNCHANGED work
       ELSE Goto("fetch") /\ work' = "none"
  /\ UNCHANGED <<path, db, sub, patched, libVars, sdkVars, boardVars, faults>>

(* The data base is searched for a file of that name; its directory work is*)
(* a part of it.  Then it is fetched anew, into a directory that is cleared.*)
CmakeSearch ==
  /\ pc = "search"
  /\ \/ \E t \in Found : CmakeGetReturns(t) /\ UNCHANGED work
     \/ Found = {} /\ "curl" \notin path /\ CmakeGetReturns("none") /\ UNCHANGED work
     \/ Found = {} /\ "curl" \in path /\ Goto("fetch") /\ work' = "none"
  /\ UNCHANGED <<path, db, sub, patched, libVars, sdkVars, boardVars, faults>>

CmakeFetch ==
  /\ pc = "fetch"
  /\ Runs(TRUE, Goto("unpack"), CmakeGetReturns("none"))
  /\ UNCHANGED <<path, diskVars>>

CmakeUnpack ==
  /\ pc = "unpack"
  /\ Runs("tar" \in path,
          work' = "full" /\ Goto("copy"),
          work' \in Leaves("tar", work) /\ CmakeGetReturns("none"))
  /\ UNCHANGED <<path, db, sub, patched, libVars, sdkVars, boardVars>>

(* nob_copy_file truncates the target before it copies; the copy of a      *)
(* directory stops at the first file that fails.                           *)
CopyLeaves == {"none", "part"}

CmakeCopy ==
  /\ pc = "copy"
  /\ Runs(TRUE,
          db' = "full" /\ CmakeGetReturns("db"),
          db' \in CopyLeaves /\ CmakeGetReturns("none"))
  /\ UNCHANGED <<path, work, sub, patched, libVars, sdkVars, boardVars>>

-----------------------------------------------------------------------------
(* As below, with the test for the build directory inverted.               *)
UpdateSubmodulesInverted ==
  /\ pc = "submodules"
  /\ Runs("git" \in path, sub' = TRUE, UNCHANGED sub)
  /\ pc' = "cmake_get" /\ dbSet' = TRUE
  /\ back' = IF Holds(conf) THEN "configure" ELSE "build"
  /\ UNCHANGED <<path, args, res, cm, built, cmakeVars, patched, libVars, sdkVars, boardVars>>

(* f_build_wamr.  Whether git worked is not asked; a build directory that  *)
(* exists is not configured again; the build is a child whose result is    *)
(* ignored.                                                                *)
UpdateSubmodules ==
  /\ pc = "submodules"
  /\ Runs("git" \in path, sub' = TRUE, UNCHANGED sub)
  /\ pc' = "cmake_get" /\ dbSet' = TRUE
  /\ back' = IF Holds(conf) THEN "build" ELSE "configure"
  /\ UNCHANGED <<path, args, res, cm, built, cmakeVars, patched, libVars, sdkVars, boardVars>>

(* Ninja, or else make; with neither the command line is not one cmake takes. *)
HasGenerator == "make" \in path

Configure ==
  /\ pc = "configure"
  /\ Runs(sub /\ Works /\ HasGenerator,
          conf' = "full" /\ CallCmakeGet("build"),
          conf' \in (IF cm = "none" THEN {conf} ELSE {"none", "part"}) /\ Ends("fail"))
  /\ UNCHANGED <<path, cmakeVars, sub, patched, lib, sdkVars, boardVars>>

Build ==
  /\ pc = "build"
  /\ \/ cm = "none" /\ Ends("fail") /\ UNCHANGED <<lib, faults>>
     \/ /\ cm # "none" /\ Goto("link")
        /\ Runs(Works /\ conf = "full", lib' = TRUE, UNCHANGED lib)
  /\ UNCHANGED <<path, cmakeVars, sub, patched, conf, sdkVars, boardVars>>

(* The controller and the launcher: see Builder. *)
LinkController ==
  /\ pc = "link"
  /\ Runs(lib, Goto("sdk"), Ends("fail"))
  /\ UNCHANGED <<path, diskVars>>

-----------------------------------------------------------------------------
(* f_build_fakeboard: the SDK.  An archive that exists is not fetched again. *)
FetchSdk ==
  /\ pc = "sdk"
  /\ \/ Holds(sdk) /\ Goto("compiler") /\ UNCHANGED <<sdkTar, faults>>
     \/ ~Holds(sdk) /\ Holds(sdkTar) /\ Goto("untar") /\ UNCHANGED <<sdkTar, faults>>
     \/ /\ ~Holds(sdk) /\ ~Holds(sdkTar)
        /\ Runs("curl" \in path,
                sdkTar' = "full" /\ Goto("untar"),
                sdkTar' \in Leaves("curl", sdkTar) /\ Ends("fail"))
  /\ UNCHANGED <<path, cmakeVars, sub, patched, libVars, sdk, boardVars>>

UnpackSdk ==
  /\ pc = "untar"
  /\ Runs("tar" \in path /\ sdkTar = "full",
          sdk' = "full" /\ Goto("compiler"),
          sdk' \in Leaves("tar", sdk) /\ Ends("fail"))
  /\ UNCHANGED <<path, cmakeVars, sub, patched, libVars, sdkTar, boardVars>>

(* The compiler wamrc, in the patched tree of WAMR. *)
NeedsCompiler ==
  /\ pc = "compiler"
  /\ IF wamrc THEN Goto("board") ELSE CallCmakeGet("patch")
  /\ UNCHANGED <<path, diskVars, faults>>

Patch ==
  /\ pc = "patch"
  /\ Runs("git" \in path /\ cm # "none" /\ sub /\ ~patched,
          patched' = TRUE /\ Goto("python"),
          UNCHANGED patched /\ Ends("fail"))
  /\ UNCHANGED <<path, cmakeVars, sub, libVars, sdkVars, boardVars>>

NeedsPython ==
  /\ pc = "python"
  /\ IF "python" \in path THEN Goto("llvm") ELSE Ends("fail")
  /\ UNCHANGED <<path, diskVars, faults>>

BuildLlvm ==
  /\ pc = "llvm"
  /\ Runs(Works, llvm' = TRUE, UNCHANGED llvm)
  /\ CallCmakeGet("wamrc_configure")
  /\ UNCHANGED <<path, cmakeVars, sub, patched, libVars, sdkVars, wamrc, aot>>

BuiltIs(ok) == pc' = "unpatch" /\ built' = ok /\ UNCHANGED <<callVars, cm, back>>

ConfigureWamrc ==
  /\ pc = "wamrc_configure"
  /\ Runs(Works /\ llvm /\ HasGenerator, CallCmakeGet("wamrc_build"), BuiltIs(FALSE))
  /\ UNCHANGED <<path, diskVars>>

BuildWamrc ==
  /\ pc = "wamrc_build"
  /\ Runs(Works, wamrc' = TRUE /\ BuiltIs(TRUE), UNCHANGED wamrc /\ BuiltIs(FALSE))
  /\ UNCHANGED <<path, cmakeVars, sub, patched, libVars, sdkVars, llvm, aot>>

(* As below, with the patch taken back only when wamrc could be built.     *)
UnpatchIfBuilt ==
  /\ pc = "unpatch"
  /\ IF ~built THEN Ends("fail") /\ UNCHANGED <<patched, faults>>
     ELSE Runs(patched, patched' = FALSE /\ Goto("board"), UNCHANGED patched /\ Ends("fail"))
  /\ UNCHANGED <<path, cmakeVars, sub, libVars, sdkVars, boardVars>>

(* A wamrc that could not be built ends f_build_fakeboard with the result  *)
(* of git apply -R, true, and without a board.                             *)
Unpatch ==
  /\ pc = "unpatch"
  /\ Runs(patched,
          patched' = FALSE /\ Goto(IF built THEN "board" ELSE "run"),
          UNCHANGED patched /\ Ends("fail"))
  /\ UNCHANGED <<path, cmakeVars, sub, libVars, sdkVars, boardVars>>

(* The board: compiled and linked with the SDK, then by wamrc. *)
BuildBoard ==
  /\ pc = "board"
  /\ Runs(sdk = "full", aot' = TRUE /\ Goto("run"), UNCHANGED aot /\ Ends("fail"))
  /\ UNCHANGED <<path, cmakeVars, sub, patched, libVars, sdkVars, llvm, wamrc>>

(* ./main fake_board.aot, which exits with 0 also when there is no board.  *)
RunMain ==
  /\ pc = "run"
  /\ Runs(TRUE, Goto("clean"), Ends("fail"))
  /\ UNCHANGED <<path, diskVars>>

-----------------------------------------------------------------------------
(* -clean and -clean-all.  dependency_clear needs the directory of the data*)
(* base, which only a check_dependency of the same process sets.           *)
CleanBuild == conf' = "none" /\ lib' = FALSE

DependencyClear ==
  IF dbSet THEN db' = "none" /\ work' = "none" ELSE UNCHANGED cmakeVars

(* As below, with the archive and the directory of the SDK kept.           *)
CleanFakeboardKeepsSdk(all) == aot' = FALSE /\ UNCHANGED sdkVars

CleanFakeboard(all) ==
  /\ aot' = FALSE
  /\ IF all THEN sdkTar' = "none" /\ sdk' = "none" ELSE UNCHANGED sdkVars

Clean ==
  /\ pc = "clean"
  /\ Ends("ok")
  /\ IF "clean" \in args THEN CleanBuild /\ CleanFakeboard("clean_all" \in args)
                         ELSE UNCHANGED <<aot, libVars, sdkVars>>
  /\ IF "clean_all" \in args THEN DependencyClear ELSE UNCHANGED cmakeVars
  /\ UNCHANGED <<path, sub, patched, llvm, wamrc, faults>>

(* Ctrl-C, or the machine goes down. *)
Interrupt ==
  /\ pc # "idle"
  /\ faults < MaxFaults /\ faults' = faults + 1
  /\ Ends("killed")
  /\ UNCHANGED <<path, diskVars>>

CmakeGet == CmakeOnPath \/ CmakeSearch \/ CmakeFetch \/ CmakeUnpack \/ CmakeCopy
BuildLibrary == UpdateSubmodules \/ Configure \/ Build \/ LinkController
BuildFakeboard ==
  \/ FetchSdk \/ UnpackSdk \/ NeedsCompiler \/ Patch \/ NeedsPython
  \/ BuildLlvm \/ ConfigureWamrc \/ BuildWamrc \/ Unpatch \/ BuildBoard
Step == CmakeGet \/ BuildLibrary \/ BuildFakeboard \/ RunMain \/ Clean

Next == Step \/ Interrupt \/ \E flags \in Commands : Launch(flags)

Spec == Init /\ [][Next]_vars

(* nob runs; its user repeats -run and -clean-all until it works. *)
Fairness == /\ WF_vars(Step)
            /\ SF_vars(Launch({"run"}))
            /\ SF_vars(Launch({"clean", "clean_all"}))
FairSpec == Spec /\ Fairness

-----------------------------------------------------------------------------
Continuations == {"configure", "build", "patch", "wamrc_configure", "wamrc_build"}

TypeOK ==
  /\ path \in SUBSET Programs
  /\ pc \in {"idle", "submodules", "cmake_get", "search", "fetch", "unpack", "copy", "link",
             "sdk", "untar", "compiler", "python", "llvm", "unpatch", "board", "run", "clean"}
            \union Continuations
  /\ args \in Commands \union {{}} /\ res \in {"none", "ok", "fail", "killed"}
  /\ cm \in {"none", "path", "db", "work"} /\ back \in Continuations \union {"none"}
  /\ {db, work, conf, sdkTar, sdk} \subseteq Tree
  /\ {dbSet, built, sub, patched, lib, llvm, wamrc, aot} \subseteq BOOLEAN
  /\ faults \in 0 .. MaxFaults
  /\ back # "none" <=> pc \in {"cmake_get", "search", "fetch", "unpack", "copy"}

(* A process that found a cmake finds one at its later calls too.          *)
ToolStable == [][cm # "none" => cm' # "none" \/ pc' = "idle"]_vars

InPatchedTree ==
  \/ pc \in {"python", "llvm", "wamrc_configure", "wamrc_build", "unpatch"}
  \/ back \in {"wamrc_configure", "wamrc_build"}

(* Whatever of the building of wamrc fails, the sources of WAMR are left as*)
(* they were, but when python is missing, which is asked for only after    *)
(* they were patched, and when the step itself is a fault: a Ctrl-C, or a  *)
(* git that does not take the patch back.                                  *)
TreeRestored ==
  [][patched' /\ InPatchedTree /\ ~InPatchedTree' =>
       faults' = faults + 1 \/ "python" \notin path]_vars

(* With the programs it needs nob builds everything, whatever was cleaned  *)
(* before; it fetches cmake itself.                                        *)
Complete == Programs \ {"cmake"} \subseteq path
WorksFromAnywhere ==
  faults = 0 /\ Complete /\ pc = "idle" /\ args = {"run"} => res = "ok" /\ aot

(* The states nob may never get out of: a patched tree, which git does not *)
(* patch again, and a part of a cmake in the data base, which is found     *)
(* there from then on and which -clean-all does not remove.                *)
Wedged == (patched /\ ~wamrc) \/ "part" \in {db, work}

(* From any other failure a user who repeats -run and -clean-all gets out. *)
Recovers == Complete => <>[]Wedged \/ []<>aot
=============================================================================
