-------------------------------- MODULE Rebuild --------------------------------
(***************************************************************************)
(* How nob starts: the script at the top of nob.c that compiles it when it *)
(* is missing, go_exec_yourself_on_project_root (goto_root.h), which runs  *)
(* it again from the root of the project, go_rebuild_yourself_check_dir    *)
(* (defs.h), which replaces the program by a new one when its own sources  *)
(* are newer and runs that, and the exit statuses on the way back.  What   *)
(* the program does in between is one step here, MainReturns; Builder      *)
(* refines it.                                                             *)
(*                                                                         *)
(* Times are the seconds of st_mtime.  The content of a file is a version, *)
(* counted by its edits; a program remembers the versions it was compiled  *)
(* from and when that compilation began and ended.                         *)
(***************************************************************************)
EXTENDS Naturals, Cli

CONSTANTS OwnFiles,   \* nob.c and the files of BuildDependencies
          Argvs,      \* the command lines the user types
          MaxTime,    \* bound of the clock
          MaxEdits,   \* bound of the number of edits
          MaxCommands,\* bound of the number of commands
          None        \* no such file

Compilation == [from : [OwnFiles -> Nat], began : Nat]
Program == [from : [OwnFiles -> Nat], began : Nat, time : Nat]

ASSUME BoundsAssumption == MaxTime \in Nat /\ MaxEdits \in Nat /\ MaxCommands \in Nat
ASSUME NoneAssumption == None \notin Program \union Compilation

(* A command line is a sequence of words. *)
ASSUME ArgvsAssumption ==
  \A words \in Argvs : words \in Seq({words[n] : n \in DOMAIN words})

VARIABLES
  clock,    \* the time, in seconds
  edits,    \* edits so far
  commands, \* commands so far
  own,      \* the files of OwnFiles: version and st_mtime
  nob, old, \* the programs nob and nob.old
  cc,       \* the versions the running compiler of nob reads, since when
  pc,       \* where the running process is
  waiting,  \* the processes that wait for it: why each started the next
  argv,     \* the words the running process was given
  args,     \* what it made of them
  status,   \* exit status of the last process that ended
  home,     \* where the user typed the command: "root" or a "sub"directory
  typed,    \* the words typed (history)
  had,      \* nob existed when the command was typed (history)
  seen,     \* the files of OwnFiles when they were found up to date (history)
  verdict   \* what main returned (history)

worldVars == <<clock, edits, commands>>
programVars == <<nob, old, cc>>
processVars == <<pc, waiting, argv, args, status>>
historyVars == <<home, typed, had, seen, verdict>>
rvars == <<worldVars, own, programVars, processVars, historyVars>>

NoArgs == {}
Unseen == [f \in OwnFiles |-> [ver |-> 0, time |-> 0]]

RInit ==
  /\ clock = 1 /\ edits = 0 /\ commands = 0
  /\ own = [f \in OwnFiles |-> [ver |-> 0, time |-> 1]]
  /\ nob = None /\ old = None /\ cc = None
  /\ pc = "idle" /\ waiting = <<>> /\ argv = <<>> /\ args = NoArgs /\ status = "ok"
  /\ home = "root" /\ typed = <<>> /\ had = FALSE /\ seen = Unseen /\ verdict = "none"

(* As below, with "the same second" taken for "not newer" by one more.     *)
NeedsRebuildLate(output, input) == output # None => input.time > output.time + 1

(* nob_needs_rebuild: a missing output, or an input that is newer.  The    *)
(* times are compared by the second, so that equal times mean up to date.  *)
NeedsRebuild(output, input) == output # None => input.time > output.time

-----------------------------------------------------------------------------
(* The world: the user edits a file of nob, at any moment; time passes.    *)
EditOwn(f) ==
  /\ edits < MaxEdits
  /\ edits' = edits + 1
  /\ own' = [own EXCEPT ![f] = [ver |-> @.ver + 1, time |-> clock]]
  /\ UNCHANGED <<clock, commands, programVars, processVars, historyVars>>

EditElsewhere ==
  /\ edits < MaxEdits
  /\ edits' = edits + 1
  /\ UNCHANGED <<clock, commands, own, programVars, processVars, historyVars>>

Tick ==
  /\ clock < MaxTime
  /\ clock' = clock + 1
  /\ UNCHANGED <<edits, commands, own, programVars, processVars, historyVars>>

-----------------------------------------------------------------------------
(* The compiler of nob reads its sources and later writes its output.      *)
StartsCompiler == cc' = [from |-> [f \in OwnFiles |-> own[f].ver], began |-> clock]

(* As below, without the time of the file that is written.                 *)
CompiledUntimed == cc

Compiled == [from |-> cc.from, began |-> cc.began, time |-> clock]

(* A command line in the root, or in a subdirectory as ../nob.  The script *)
(* compiles nob first when it is missing.                                  *)
Launch(where, words) ==
  /\ pc = "idle"
  /\ commands < MaxCommands /\ commands' = commands + 1
  /\ where = "sub" => nob # None
  /\ home' = where /\ typed' = words /\ argv' = words
  /\ had' = (nob # None) /\ seen' = Unseen /\ verdict' = "none"
  /\ args' = NoArgs /\ waiting' = <<>> /\ status' = "ok"
  /\ IF nob = None THEN pc' = "bootstrap" /\ StartsCompiler
                   ELSE pc' = "start" /\ UNCHANGED cc
  /\ UNCHANGED <<clock, edits, own, nob, old>>

BootstrapEnds ==
  /\ pc = "bootstrap"
  /\ nob' = Compiled /\ cc' = None
  /\ pc' = "start"
  /\ UNCHANGED <<worldVars, own, old, waiting, argv, args, status, historyVars>>

(* exec ./nob fails. *)
BootstrapFails ==
  /\ pc = "bootstrap"
  /\ cc' = None
  /\ pc' = "exit" /\ status' = "fail"
  /\ UNCHANGED <<worldVars, own, nob, old, waiting, argv, args, historyVars>>

InRoot == home = "root" \/ waiting # <<>>

(* As below, with the words of the command line forgotten on the way.      *)
GoToRootBare ==
  /\ pc = "start" /\ ~InRoot
  /\ waiting' = Append(waiting, "root")
  /\ argv' = <<>>
  /\ UNCHANGED <<worldVars, own, programVars, pc, args, status, historyVars>>

(* go_exec_yourself_on_project_root: the program is not in the current     *)
(* directory; another process runs it from the root, with the same words.  *)
GoToRoot ==
  /\ pc = "start" /\ ~InRoot
  /\ waiting' = Append(waiting, "root")
  /\ UNCHANGED <<worldVars, own, programVars, pc, argv, args, status, historyVars>>

(* go_rebuild_yourself_check_dir. *)
SelfStale == \E f \in OwnFiles : NeedsRebuild(nob, own[f])

UpToDate ==
  /\ pc = "start" /\ InRoot
  /\ ~SelfStale
  /\ pc' = "parse"
  /\ seen' = own
  /\ UNCHANGED <<worldVars, own, programVars, waiting, argv, args, status,
                 home, typed, had, verdict>>

RenameToOld ==
  /\ pc = "start" /\ InRoot
  /\ SelfStale
  /\ old' = nob /\ nob' = None
  /\ StartsCompiler
  /\ pc' = "compile"
  /\ UNCHANGED <<worldVars, own, waiting, argv, args, status, historyVars>>

(* The new program runs, with the words of the old one.                    *)
CompileEnds ==
  /\ pc = "compile"
  /\ nob' = Compiled /\ cc' = None
  /\ waiting' = Append(waiting, "rebuild")
  /\ pc' = "start"
  /\ UNCHANGED <<worldVars, own, old, argv, args, status, historyVars>>

(* As below, without the second rename.                                    *)
CompileFailsNoRename ==
  /\ pc = "compile"
  /\ cc' = None
  /\ pc' = "exit" /\ status' = "fail"
  /\ UNCHANGED <<worldVars, own, nob, old, waiting, argv, args, historyVars>>

(* rename(old_binary_path, binary_path); exit(1).                          *)
CompileFails ==
  /\ pc = "compile"
  /\ nob' = old /\ old' = None /\ cc' = None
  /\ pc' = "exit" /\ status' = "fail"
  /\ UNCHANGED <<worldVars, own, waiting, argv, args, historyVars>>

-----------------------------------------------------------------------------
(* main: the command line, then the work, then the exit status.            *)
ParseArgs ==
  /\ pc = "parse"
  /\ args' = Parse(argv).args
  /\ IF Parse(argv).ok
       THEN pc' = "main" /\ UNCHANGED <<status, verdict, seen>>
       ELSE pc' = "exit" /\ status' = "fail" /\ verdict' = "fail" /\ seen' = Unseen
  /\ UNCHANGED <<worldVars, own, programVars, waiting, argv, home, typed, had>>

(* -call deletes argv[0] and argv[0].old, if nothing failed before.        *)
MainReturns(v) ==
  /\ pc = "main"
  /\ verdict' = v /\ status' = v /\ pc' = "exit" /\ seen' = Unseen
  /\ IF v = "ok" /\ "clean_all" \in args THEN nob' = None /\ old' = None
                                         ELSE UNCHANGED <<nob, old>>
  /\ UNCHANGED <<worldVars, own, cc, waiting, argv, args, home, typed, had>>

(* As below, with the status of the rebuilt program ignored.               *)
ParentExitsOk ==
  /\ pc = "exit" /\ waiting # <<>>
  /\ waiting' = Front(waiting)
  /\ status' = "ok"
  /\ UNCHANGED <<worldVars, own, programVars, pc, argv, args, historyVars>>

(* A waiting process gets the status of the one it started: the rebuilt    *)
(* program's is passed on, the one run from the root is ignored.           *)
ParentExits ==
  /\ pc = "exit" /\ waiting # <<>>
  /\ waiting' = Front(waiting)
  /\ status' = IF Last(waiting) = "root" THEN "ok" ELSE status
  /\ UNCHANGED <<worldVars, own, programVars, pc, argv, args, historyVars>>

(* The shell takes the status; what the processes knew is gone.           *)
AtPrompt ==
  /\ pc' = "idle" /\ args' = NoArgs /\ argv' = <<>> /\ status' = "ok"
  /\ home' = "root" /\ typed' = <<>> /\ had' = FALSE /\ seen' = Unseen /\ verdict' = "none"

Exits ==
  /\ pc = "exit" /\ waiting = <<>>
  /\ AtPrompt
  /\ UNCHANGED <<worldVars, own, programVars, waiting>>

(* Ctrl-C ends the processes of the command line and the compiler of nob,  *)
(* which removes what it has written.                                      *)
Interrupt ==
  /\ pc # "idle"
  /\ AtPrompt
  /\ waiting' = <<>> /\ cc' = None
  /\ UNCHANGED <<worldVars, own, nob, old>>

StartNext ==
  \/ BootstrapEnds \/ BootstrapFails \/ GoToRoot
  \/ UpToDate \/ RenameToOld \/ CompileEnds \/ CompileFails
  \/ ParseArgs

EndNext == ParentExits \/ Exits

UserNext ==
  \/ \E where \in {"root", "sub"}, words \in Argvs : Launch(where, words)
  \/ \E f \in OwnFiles : EditOwn(f)

RNext == \/ StartNext \/ EndNext \/ UserNext \/ EditElsewhere \/ Tick \/ Interrupt
         \/ \E v \in {"ok", "fail"} : MainReturns(v)

RSpec == RInit /\ [][RNext]_rvars

-----------------------------------------------------------------------------
RTypeOK ==
  /\ clock \in Nat /\ edits \in Nat /\ commands \in Nat
  /\ own \in [OwnFiles -> [ver : Nat, time : Nat]]
  /\ nob \in Program \union {None} /\ old \in Program \union {None}
  /\ cc \in Compilation \union {None}
  /\ pc \in {"idle", "bootstrap", "start", "compile", "parse", "main", "exit"}
  /\ waiting \in Seq({"root", "rebuild"})
  /\ argv \in Argvs \union {<<>>} /\ typed \in Argvs \union {<<>>}
  /\ args \subseteq CliArgs
  /\ status \in {"ok", "fail"} /\ verdict \in {"none", "ok", "fail"}
  /\ home \in {"root", "sub"} /\ had \in BOOLEAN
  /\ seen \in [OwnFiles -> [ver : Nat, time : Nat]]

(* An edit that falls between the moment the compiler reads a file and the *)
(* second in which its output is written cannot be told from none.         *)
Hidden(file, output) == output.began <= file.time /\ file.time <= output.time

(* The program that does the work was compiled from its sources as they    *)
(* were found when it was last checked, but for edits made while it was    *)
(* being compiled.                                                         *)
RunsItsSources ==
  pc \in {"parse", "main"} =>
    \A f \in OwnFiles : nob.from[f] = seen[f].ver \/ Hidden(seen[f], nob)

(* Whatever fails on the way, there is a nob to run next time: only        *)
(* clean_all ends without one, and Ctrl-C while it is being compiled, which*)
(* leaves nob.old.                                                         *)
NobIsKept ==
  /\ pc \in {"start", "parse", "main"} => nob # None
  /\ pc = "compile" => old # None
  /\ pc = "exit" /\ had /\ "clean_all" \notin args => nob # None

(* The flags as the user typed them, in any order and however often, reach *)
(* the process that does the work, whatever processes stand between.       *)
Meaning(words) ==
  LET flags == {words[n] : n \in DOMAIN words} \intersect (UserFlags \union BaseFlags)
  IN  IF flags = {} THEN Default
      ELSE UNION {IF f \in UserFlags THEN UserSets(f) ELSE BaseSets(f) : f \in flags}

ArgsReachMain == pc = "main" => args = Meaning(typed)

(* From the root, the shell sees what main returned, and never success when*)
(* main did not run.                                                       *)
StatusReachesShell ==
  pc = "exit" /\ home = "root" => (status = "ok" <=> verdict = "ok")
=============================================================================
