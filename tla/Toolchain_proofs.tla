---------------------------- MODULE Toolchain_proofs ----------------------------
(***************************************************************************)
(* Proofs about Toolchain, for any sets of programs on PATH and any number *)
(* of faults.                                                              *)
(***************************************************************************)
EXTENDS Toolchain, TLAPS

LEMMA FaultsStep ==
  ASSUME faults \in 0 .. MaxFaults, faults' = faults \/ (faults < MaxFaults /\ faults' = faults + 1)
  PROVE  faults' \in 0 .. MaxFaults
BY FaultsAssumption

LEMMA InitTypeOK == Init => TypeOK
<1> SUFFICES ASSUME Init PROVE TypeOK
  OBVIOUS
<1>1. path \in SUBSET Programs /\ faults \in 0 .. MaxFaults
  BY PathAssumption, FaultsAssumption DEF Init
<1>2. QED BY <1>1 DEF Init, TypeOK, Continuations, Tree

LEMMA TypeStep == ASSUME TypeOK, [Next]_vars PROVE TypeOK'
<1> USE FaultsStep DEF TypeOK, Continuations, Tree, Runs, Goto, CallCmakeGet, CmakeGetReturns, Ends,
        callVars, procVars, cmakeVars, libVars, sdkVars, boardVars, diskVars
<1>1. ASSUME NEW flags \in Commands, Launch(flags) PROVE TypeOK'
  BY <1>1 DEF Launch
<1>2. CASE CmakeOnPath
  BY <1>2 DEF CmakeOnPath
<1>3. CASE CmakeSearch
  BY <1>3 DEF CmakeSearch, Found
<1>4. CASE CmakeFetch
  BY <1>4 DEF CmakeFetch
<1>5. CASE CmakeUnpack
  BY <1>5 DEF CmakeUnpack, Leaves
<1>6. CASE CmakeCopy
  BY <1>6 DEF CmakeCopy, CopyLeaves
<1>7. CASE UpdateSubmodules
  BY <1>7 DEF UpdateSubmodules
<1>8. CASE Configure
  BY <1>8 DEF Configure
<1>9. CASE Build
  BY <1>9 DEF Build
<1>10. CASE LinkController
  BY <1>10 DEF LinkController
<1>11. CASE FetchSdk
  BY <1>11 DEF FetchSdk, Leaves
<1>12. CASE UnpackSdk
  BY <1>12 DEF UnpackSdk, Leaves
<1>13. CASE NeedsCompiler
  BY <1>13 DEF NeedsCompiler
<1>14. CASE Patch
  BY <1>14 DEF Patch
<1>15. CASE NeedsPython
  BY <1>15 DEF NeedsPython
<1>16. CASE BuildLlvm
  BY <1>16 DEF BuildLlvm
<1>17. CASE ConfigureWamrc
  BY <1>17 DEF ConfigureWamrc, BuiltIs
<1>18. CASE BuildWamrc
  BY <1>18 DEF BuildWamrc, BuiltIs
<1>19. CASE Unpatch
  BY <1>19 DEF Unpatch
<1>20. CASE BuildBoard
  BY <1>20 DEF BuildBoard
<1>21. CASE RunMain
  BY <1>21 DEF RunMain
<1>22. CASE Clean
  BY <1>22 DEF Clean, CleanBuild, CleanFakeboard, DependencyClear
<1>23. CASE Interrupt
  BY <1>23 DEF Interrupt
<1>24. CASE UNCHANGED vars
  BY <1>24 DEF vars
<1>25. QED BY <1>1, <1>2, <1>3, <1>4, <1>5, <1>6, <1>7, <1>8, <1>9, <1>10, <1>11, <1>12, <1>13,
              <1>14, <1>15, <1>16, <1>17, <1>18, <1>19, <1>20, <1>21, <1>22, <1>23, <1>24
       DEF Next, Step, CmakeGet, BuildLibrary, BuildFakeboard

LEMMA TypeInvariance == Spec => []TypeOK
BY InitTypeOK, TypeStep, PTL DEF Spec

-----------------------------------------------------------------------------
(* Where a cmake that was found is found again, and when none was.         *)
InDataBase == Holds(db) \/ Holds(work)

CmakeKnown ==
  /\ cm # "none" => "cmake" \in path \/ InDataBase
  /\ pc \in {"search", "fetch", "unpack", "copy"} => "cmake" \notin path
  /\ pc \in {"fetch", "unpack", "copy"} => cm = "none"

LEMMA FoundIsInDataBase == Found # {} <=> InDataBase
BY DEF Found, InDataBase

LEMMA CmakeKnownStep == ASSUME TypeOK, CmakeKnown, [Next]_vars PROVE CmakeKnown'
<1> USE DEF CmakeKnown, InDataBase, Holds, Runs, Goto, CallCmakeGet, CmakeGetReturns, Ends,
        callVars, cmakeVars, diskVars
<1>1. ASSUME NEW flags \in Commands, Launch(flags) PROVE CmakeKnown'
  BY <1>1 DEF Launch
<1>2. CASE CmakeOnPath
  BY <1>2 DEF CmakeOnPath, TypeOK, Continuations
<1>3. CASE CmakeSearch
  BY <1>3, FoundIsInDataBase DEF CmakeSearch, TypeOK, Continuations
<1>4. CASE CmakeFetch \/ CmakeUnpack \/ CmakeCopy
  BY <1>4 DEF CmakeFetch, CmakeUnpack, CmakeCopy, TypeOK, Continuations
<1>5. CASE BuildLibrary
  BY <1>5 DEF BuildLibrary, UpdateSubmodules, Configure, Build, LinkController
<1>6. CASE FetchSdk \/ UnpackSdk \/ NeedsCompiler \/ Patch \/ NeedsPython
  BY <1>6 DEF FetchSdk, UnpackSdk, NeedsCompiler, Patch, NeedsPython
<1>7. CASE BuildLlvm \/ ConfigureWamrc \/ BuildWamrc \/ Unpatch \/ BuildBoard \/ RunMain
  BY <1>7 DEF BuildLlvm, ConfigureWamrc, BuildWamrc, BuiltIs, Unpatch, BuildBoard, RunMain
<1>8. CASE Clean \/ Interrupt
  BY <1>8 DEF Clean, Interrupt
<1>9. CASE UNCHANGED vars
  BY <1>9 DEF vars, procVars
<1>10. QED BY <1>1, <1>2, <1>3, <1>4, <1>5, <1>6, <1>7, <1>8, <1>9
       DEF Next, Step, CmakeGet, BuildFakeboard

(* Within one process check_dependency does not lose a cmake it has found, *)
(* whatever it fetches, copies or fails at.                                *)
THEOREM FoundStaysFound == Spec => ToolStable
<1>1. Init => CmakeKnown
  BY DEF Init, CmakeKnown
<1>2. ASSUME TypeOK, CmakeKnown, [Next]_vars
      PROVE  [cm # "none" => cm' # "none" \/ pc' = "idle"]_vars
  <2> SUFFICES ASSUME cm # "none", Next PROVE cm' # "none" \/ pc' = "idle"
    BY <1>2 DEF vars
  <2> USE DEF Runs, Goto, CallCmakeGet, CmakeGetReturns, Ends
  <2>1. CASE CmakeGet
    BY <1>2, <2>1, FoundIsInDataBase
       DEF CmakeGet, CmakeOnPath, CmakeSearch, CmakeFetch, CmakeUnpack, CmakeCopy, CmakeKnown, Found
  <2>2. CASE BuildLibrary
    BY <2>2 DEF BuildLibrary, UpdateSubmodules, Configure, Build, LinkController
  <2>3. CASE BuildFakeboard
    BY <2>3 DEF BuildFakeboard, FetchSdk, UnpackSdk, NeedsCompiler, Patch, NeedsPython,
                BuildLlvm, ConfigureWamrc, BuildWamrc, BuiltIs, Unpatch, BuildBoard
  <2>4. CASE RunMain \/ Clean \/ Interrupt \/ \E flags \in Commands : Launch(flags)
    BY <2>4 DEF RunMain, Clean, Interrupt, Launch
  <2>5. QED BY <2>1, <2>2, <2>3, <2>4 DEF Next, Step
<1>3. QED BY <1>1, <1>2, CmakeKnownStep, TypeInvariance, PTL DEF Spec, ToolStable

-----------------------------------------------------------------------------
(* Every variable keeps its type, and cmake_get has a caller to return to. *)
THEOREM TypeCorrect == Spec => []TypeOK
BY TypeInvariance

(* f_build_fakeboard leaves the sources of WAMR as it found them, whatever *)
(* of building wamrc fails, but where python is missing and at a fault of  *)
(* the very step that should take the patch back.                          *)
THEOREM PatchIsTakenBack == Spec => TreeRestored
<1>1. ASSUME TypeOK, [Next]_vars
      PROVE  [patched' /\ InPatchedTree /\ ~InPatchedTree' =>
                faults' = faults + 1 \/ "python" \notin path]_vars
  <2> SUFFICES ASSUME Next, patched', InPatchedTree, ~InPatchedTree'
               PROVE  faults' = faults + 1 \/ "python" \notin path
    BY <1>1 DEF vars
  <2> USE DEF Runs, Goto, CallCmakeGet, CmakeGetReturns, Ends, InPatchedTree
  <2>1. CASE CmakeGet
    BY <1>1, <2>1 DEF CmakeGet, CmakeOnPath, CmakeSearch, CmakeFetch, CmakeUnpack, CmakeCopy,
                      TypeOK, Continuations
  <2>2. CASE BuildLibrary \/ RunMain \/ Clean \/ \E flags \in Commands : Launch(flags)
    BY <1>1, <2>2 DEF BuildLibrary, UpdateSubmodules, Configure, Build, LinkController, RunMain,
                      Clean, Launch, TypeOK
  <2>3. CASE FetchSdk \/ UnpackSdk \/ NeedsCompiler \/ Patch \/ BuildBoard
    BY <1>1, <2>3 DEF FetchSdk, UnpackSdk, NeedsCompiler, Patch, BuildBoard, TypeOK
  <2>4. CASE NeedsPython \/ BuildLlvm \/ ConfigureWamrc \/ BuildWamrc
    BY <2>4 DEF NeedsPython, BuildLlvm, ConfigureWamrc, BuildWamrc, BuiltIs
  <2>5. CASE Unpatch
    BY <1>1, <2>5 DEF Unpatch, TypeOK
  <2>6. CASE Interrupt
    BY <2>6 DEF Interrupt
  <2>7. QED BY <2>1, <2>2, <2>3, <2>4, <2>5, <2>6 DEF Next, Step, BuildFakeboard
<1>2. QED BY <1>1, TypeInvariance, PTL DEF Spec, TreeRestored

-----------------------------------------------------------------------------
(* What each place of nob may count on, as long as nothing failed that     *)
(* could have succeeded.                                                   *)
InWamrcBuild ==
  \/ pc \in {"python", "llvm", "wamrc_configure", "wamrc_build"}
  \/ back \in {"wamrc_configure", "wamrc_build"}
AfterSdk == pc \in {"compiler", "patch", "unpatch", "board"} \/ back = "patch" \/ InWamrcBuild
AfterLib == pc \in {"sdk", "untar"} \/ AfterSdk
AfterSub == pc \in {"configure", "build", "link"} \/ back \in {"configure", "build"} \/ AfterLib

Prepared ==
  /\ "part" \notin {db, work, conf, sdkTar, sdk}
  /\ AfterSub => sub
  /\ pc \in Continuations \union {"python", "llvm"} => Works
  /\ pc = "build" \/ back = "build" => conf = "full"
  /\ pc = "link" => lib
  /\ pc = "untar" => sdkTar = "full"
  /\ AfterSdk => sdk = "full"
  /\ patched <=> InWamrcBuild \/ pc = "unpatch"
  /\ pc \in {"wamrc_configure", "wamrc_build"} \/ back \in {"wamrc_configure", "wamrc_build"} => llvm
  /\ pc = "unpatch" => built
  /\ pc = "run" => aot
  /\ pc = "clean" /\ args = {"run"} => aot
  /\ pc = "idle" /\ args = {"run"} => res = "ok" /\ aot

Unhindered == faults = 0 /\ Complete

LEMMA FaultsOnlyGrow ==
  ASSUME [Next]_vars PROVE path' = path /\ (faults' = faults \/ faults' = faults + 1)
<1> USE DEF Runs
<1>1. CASE CmakeGet
  BY <1>1 DEF CmakeGet, CmakeOnPath, CmakeSearch, CmakeFetch, CmakeUnpack, CmakeCopy
<1>2. CASE BuildLibrary
  BY <1>2 DEF BuildLibrary, UpdateSubmodules, Configure, Build, LinkController
<1>3. CASE BuildFakeboard
  BY <1>3 DEF BuildFakeboard, FetchSdk, UnpackSdk, NeedsCompiler, Patch, NeedsPython,
              BuildLlvm, ConfigureWamrc, BuildWamrc, Unpatch, BuildBoard
<1>4. CASE RunMain \/ Clean \/ Interrupt \/ \E flags \in Commands : Launch(flags)
  BY <1>4 DEF RunMain, Clean, Interrupt, Launch
<1>5. CASE UNCHANGED vars
  BY <1>5 DEF vars
<1>6. QED BY <1>1, <1>2, <1>3, <1>4, <1>5 DEF Next, Step

LEMMA PreparedStep ==
  ASSUME TypeOK, CmakeKnown, Unhindered => Prepared, [Next]_vars
  PROVE  Unhindered' => Prepared'
<1> SUFFICES ASSUME Unhindered, faults' = 0, Prepared PROVE Prepared'
  <2>1. path' = path /\ (faults' = 0 => faults = 0)
    BY FaultsOnlyGrow DEF TypeOK
  <2>2. QED BY <2>1 DEF Unhindered, Complete
<1>1. {"git", "curl", "tar", "make", "python"} \subseteq path /\ faults = 0
  BY DEF Unhindered, Complete, Programs
<1> USE <1>1 DEF Prepared, TypeOK, Tree, Continuations, InWamrcBuild, AfterSdk, AfterLib, AfterSub, Works, Holds,
        Runs, Goto, CallCmakeGet, CmakeGetReturns, Ends,
        callVars, cmakeVars, libVars, sdkVars, boardVars, diskVars
<1>2. ASSUME NEW flags \in Commands, Launch(flags) PROVE Prepared'
  BY <1>2 DEF Launch
<1>3. CASE CmakeOnPath
  BY <1>3 DEF CmakeOnPath
<1>4. CASE CmakeSearch
  BY <1>4 DEF CmakeSearch, Found
<1>5. CASE CmakeFetch \/ CmakeUnpack
  BY <1>5 DEF CmakeFetch, CmakeUnpack, CmakeKnown
<1>6. CASE CmakeCopy
  BY <1>6 DEF CmakeCopy
<1>7. CASE UpdateSubmodules
  BY <1>7 DEF UpdateSubmodules
<1>8. CASE Configure
  BY <1>8 DEF Configure, HasGenerator
<1>9. CASE Build
  BY <1>9 DEF Build
<1>10. CASE LinkController
  BY <1>10 DEF LinkController
<1>11. CASE FetchSdk
  BY <1>11 DEF FetchSdk
<1>12. CASE UnpackSdk
  BY <1>12 DEF UnpackSdk
<1>13. CASE NeedsCompiler
  BY <1>13 DEF NeedsCompiler
<1>14. CASE Patch
  BY <1>14 DEF Patch
<1>15. CASE NeedsPython
  BY <1>15 DEF NeedsPython
<1>16. CASE BuildLlvm
  BY <1>16 DEF BuildLlvm
<1>17. CASE ConfigureWamrc
  BY <1>17 DEF ConfigureWamrc, HasGenerator, BuiltIs
<1>18. CASE BuildWamrc
  BY <1>18 DEF BuildWamrc, BuiltIs
<1>19. CASE Unpatch
  BY <1>19 DEF Unpatch
<1>20. CASE BuildBoard
  BY <1>20 DEF BuildBoard
<1>21. CASE RunMain
  BY <1>21 DEF RunMain
<1>22. CASE Clean
  BY <1>22 DEF Clean, CleanBuild, CleanFakeboard, DependencyClear
<1>23. CASE Interrupt
  BY <1>23 DEF Interrupt
<1>24. CASE UNCHANGED vars
  BY <1>24 DEF vars, procVars
<1>25. QED BY <1>2, <1>3, <1>4, <1>5, <1>6, <1>7, <1>8, <1>9, <1>10, <1>11, <1>12, <1>13,
              <1>14, <1>15, <1>16, <1>17, <1>18, <1>19, <1>20, <1>21, <1>22, <1>23, <1>24
       DEF Next, Step, CmakeGet, BuildLibrary, BuildFakeboard

(* With the programs it needs on PATH, with a cmake or without, nob builds *)
(* all that -run needs from whatever earlier commands left.                *)
THEOREM BuildsFromAnywhere == Spec => []WorksFromAnywhere
<1>1. Init => CmakeKnown /\ (Unhindered => Prepared)
  BY DEF Init, CmakeKnown, Prepared, InWamrcBuild, AfterSdk, AfterLib, AfterSub, Continuations
<1>2. (Unhindered => Prepared) => WorksFromAnywhere
  BY DEF Unhindered, Prepared, WorksFromAnywhere
<1>3. QED BY <1>1, <1>2, CmakeKnownStep, PreparedStep, TypeInvariance, PTL DEF Spec
=============================================================================
