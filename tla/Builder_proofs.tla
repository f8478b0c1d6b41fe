--------------------------- MODULE Builder_proofs ---------------------------
(***************************************************************************)
(* Proofs about Rebuild and Builder, for any sources, size of the pool,    *)
(* command lines and bounds.  Builder implements Rebuild, step by step, so *)
(* that what is proved of Rebuild holds of it.  Its own properties need to *)
(* know what every compiled object, and every compilation under way, has   *)
(* seen of its source.                                                     *)
(***************************************************************************)
EXTENDS Builder, SequenceTheorems, WellFoundedInduction, TLAPS

(***************************************************************************)
(* Rebuild.                                                                *)
(***************************************************************************)
(* A program, or a compilation, that has not got a file's last version     *)
(* began no later than that file was edited.                               *)
Tracks(p) == p # None => /\ p.began <= clock
                         /\ \A f \in OwnFiles : p.from[f] = own[f].ver \/ p.began <= own[f].time

AllTrack == Tracks(nob) /\ Tracks(old) /\ Tracks(cc)

(* What the place of the process says of the rest.                         *)
Place ==
  /\ pc \in {"bootstrap", "compile"} => cc # None
  /\ pc = "bootstrap" => ~had
  /\ pc # "idle" => argv \in Argvs /\ argv = typed
  /\ pc # "exit" => verdict = "none"
  /\ home = "root" => \A n \in DOMAIN waiting : waiting[n] = "rebuild"

IInv == /\ RTypeOK /\ AllTrack /\ Place
        /\ NobIsKept /\ RunsItsSources /\ ArgsReachMain /\ StatusReachesShell

-----------------------------------------------------------------------------
(***************************************************************************)
(* The command line.  The loop of c_cli_parse goes over the words one by   *)
(* one; what it has set at the end is said by their set.                   *)
(***************************************************************************)
(* A set of naturals that is not empty has a least member. *)
LEMMA Least ==
  ASSUME NEW T \in SUBSET Nat, T # {}
  PROVE  \E x \in T : \A y \in T : x <= y
<1>1. \E x \in T : \A y \in T : <<y, x>> \notin OpToRel(<, Nat)
  BY WFMin, NatLessThanWellFounded, Zenon
<1>2. \A x, y \in Nat : y < x => <<y, x>> \in OpToRel(<, Nat)
  BY Zenon DEF OpToRel
<1>3. \E x \in T : \A y \in T : ~(y < x)
  BY <1>1, <1>2, Zenon
<1>4. QED BY <1>3

(* So what holds before the first word, and goes on from word to word,     *)
(* holds up to the last.                                                   *)
LEMMA WordByWord ==
  ASSUME NEW N \in Nat, NEW T, 0 \in T, \A n \in 1 .. N : n - 1 \in T => n \in T
  PROVE  0 .. N \subseteq T
<1> DEFINE Rest == (0 .. N) \ T
<1> SUFFICES ASSUME Rest # {} PROVE FALSE
  OBVIOUS
<1>0. Rest \in SUBSET Nat
  OBVIOUS
<1>1. PICK x \in Rest : \A y \in Rest : x <= y
  BY <1>0, Least
<1>2. x \in 1 .. N /\ x - 1 \in 0 .. N /\ ~(x <= x - 1)
  OBVIOUS
<1>3. x - 1 \in T
  BY <1>1, <1>2
<1>4. QED BY <1>2, <1>3

(* What Parsed's equation says of a function, up to the word n. *)
ParsedTo(words, n, g) ==
  /\ DOMAIN g = 0 .. n
  /\ g[0] = [args |-> {}, found |-> FALSE]
  /\ \A k \in 1 .. n : g[k] = ParseWord(g[k - 1], words[k])

LEMMA ParsedExists ==
  ASSUME NEW words, NEW N \in Nat
  PROVE  \E g : ParsedTo(words, N, g)
<1> DEFINE T == {n \in 0 .. N : \E g : ParsedTo(words, n, g)}
<1>1. 0 \in T
  <2>1. ParsedTo(words, 0, [k \in 0 .. 0 |-> [args |-> {}, found |-> FALSE]])
    BY DEF ParsedTo
  <2>2. QED BY <2>1
<1>2. ASSUME NEW n \in 1 .. N, n - 1 \in T PROVE n \in T
  <2>1. PICK g : ParsedTo(words, n - 1, g)
    BY <1>2
  <2> DEFINE f == [k \in 0 .. n |-> IF k = n THEN ParseWord(g[n - 1], words[n])
                                    ELSE g[k]]
  <2>2. /\ DOMAIN f = 0 .. n
        /\ f[n] = ParseWord(g[n - 1], words[n])
        /\ \A k \in 0 .. n - 1 : f[k] = g[k]
    OBVIOUS
  <2> HIDE DEF f
  <2>3. f[0] = [args |-> {}, found |-> FALSE]
    <3>1. 0 \in 0 .. n - 1 /\ g[0] = [args |-> {}, found |-> FALSE]
      BY <2>1 DEF ParsedTo
    <3>2. QED BY <2>2, <3>1
  <2>4. ASSUME NEW k \in 1 .. n PROVE f[k] = ParseWord(f[k - 1], words[k])
    <3>1. k - 1 \in 0 .. n - 1 /\ f[k - 1] = g[k - 1]
      BY <2>2
    <3>2. CASE k = n
      BY <2>2, <3>1, <3>2
    <3>3. CASE k # n
      <4>1. k \in 1 .. n - 1 /\ k \in 0 .. n - 1
        BY <3>3
      <4>2. g[k] = ParseWord(g[k - 1], words[k])
        BY <2>1, <4>1 DEF ParsedTo
      <4>3. QED BY <2>2, <3>1, <4>1, <4>2
    <3>4. QED BY <3>2, <3>3
  <2>5. ParsedTo(words, n, f)
    BY <2>2, <2>3, <2>4 DEF ParsedTo
  <2>6. QED BY <2>5
<1>3. 0 .. N \subseteq T
  <2> HIDE DEF T
  <2>1. \A n \in 1 .. N : n - 1 \in T => n \in T
    BY <1>2
  <2>2. QED BY <1>1, <2>1, WordByWord
<1>4. QED BY <1>3

LEMMA ParsedEquation ==
  ASSUME NEW words, Len(words) \in Nat
  PROVE  ParsedTo(words, Len(words), Parsed(words))
<1>1. PICK g : ParsedTo(words, Len(words), g)
  BY ParsedExists
<1> DEFINE f == [n \in 0 .. Len(words) |-> g[n]]
<1>2. \A n \in 0 .. Len(words) :
        f[n] = IF n = 0 THEN [args |-> {}, found |-> FALSE]
                        ELSE ParseWord(f[n - 1], words[n])
  <2> SUFFICES ASSUME NEW n \in 0 .. Len(words)
               PROVE  f[n] = IF n = 0 THEN [args |-> {}, found |-> FALSE]
                                      ELSE ParseWord(f[n - 1], words[n])
    OBVIOUS
  <2>1. n # 0 => n \in 1 .. Len(words) /\ n - 1 \in 0 .. Len(words) /\ f[n - 1] = g[n - 1]
    OBVIOUS
  <2>2. f[n] = g[n]
    OBVIOUS
  <2> HIDE DEF f
  <2>3. QED BY <1>1, <2>1, <2>2 DEF ParsedTo
<1>3. f = [n \in 0 .. Len(words) |-> IF n = 0 THEN [args |-> {}, found |-> FALSE]
                                    ELSE ParseWord(f[n - 1], words[n])]
  <2>1. f = [n \in 0 .. Len(words) |-> f[n]]
    OBVIOUS
  <2> HIDE DEF f
  <2>2. QED BY <1>2, <2>1, Zenon
<1> HIDE DEF f
<1>4. Parsed(words) = [n \in 0 .. Len(words) |-> IF n = 0 THEN [args |-> {}, found |-> FALSE]
                                    ELSE ParseWord(Parsed(words)[n - 1], words[n])]
  BY <1>3, Zenon DEF Parsed
<1> DEFINE p == Parsed(words)
<1>5. /\ DOMAIN p = 0 .. Len(words)
      /\ \A n \in 0 .. Len(words) :
           p[n] = IF n = 0 THEN [args |-> {}, found |-> FALSE]
                           ELSE ParseWord(p[n - 1], words[n])
  BY <1>4, Zenon
<1> HIDE DEF p
<1>6. ParsedTo(words, Len(words), p)
  BY <1>5 DEF ParsedTo
<1>7. QED BY <1>6 DEF p

(* What one flag sets, and the flags among the first n words. *)
Sets(f) == IF f \in UserFlags THEN UserSets(f) ELSE BaseSets(f)
FlagsTo(words, n) == {words[k] : k \in 1 .. n} \intersect (UserFlags \union BaseFlags)

LEMMA OneWord ==
  ASSUME NEW A, NEW b \in BOOLEAN, NEW w
  PROVE  ParseWord([args |-> A, found |-> b], w) =
           IF w \in UserFlags \union BaseFlags
           THEN [args |-> A \union Sets(w), found |-> TRUE]
           ELSE [args |-> A, found |-> b]
BY DEF ParseWord, CheckInput, Sets

LEMMA ParsedMeaning ==
  ASSUME NEW words, Len(words) \in Nat
  PROVE  Parsed(words)[Len(words)] =
           [args  |-> UNION {Sets(f) : f \in FlagsTo(words, Len(words))},
            found |-> FlagsTo(words, Len(words)) # {}]
<1> DEFINE p == Parsed(words)
           Set(n) == [args  |-> UNION {Sets(f) : f \in FlagsTo(words, n)},
                      found |-> FlagsTo(words, n) # {}]
           T == {n \in 0 .. Len(words) : p[n] = Set(n)}
<1>1. ParsedTo(words, Len(words), p)
  BY ParsedEquation
<1> HIDE DEF p
<1>2. 0 \in T
  <2>1. FlagsTo(words, 0) = {}
    BY DEF FlagsTo
  <2>2. UNION {Sets(f) : f \in FlagsTo(words, 0)} = {} /\ (FlagsTo(words, 0) # {}) = FALSE
    BY <2>1
  <2>3. p[0] = [args |-> {}, found |-> FALSE]
    BY <1>1 DEF ParsedTo
  <2>4. p[0] = Set(0)
    BY <2>2, <2>3, Zenon
  <2>5. QED BY <2>4
<1>3. ASSUME NEW n \in 1 .. Len(words), n - 1 \in T PROVE n \in T
  <2> DEFINE before == FlagsTo(words, n - 1)
             w == words[n]
  <2>1. FlagsTo(words, n) = IF w \in UserFlags \union BaseFlags THEN before \union {w}
                                                              ELSE before
    <3>1. 1 .. n = (1 .. n - 1) \union {n}
      OBVIOUS
    <3>2. {words[k] : k \in 1 .. n} = {words[k] : k \in 1 .. n - 1} \union {w}
      BY <3>1
    <3>3. QED BY <3>2 DEF FlagsTo
  <2>2. p[n] = ParseWord(Set(n - 1), w)
    BY <1>1, <1>3 DEF ParsedTo
  <2>3. p[n] = IF w \in UserFlags \union BaseFlags
               THEN [args |-> (UNION {Sets(f) : f \in before}) \union Sets(w), found |-> TRUE]
               ELSE Set(n - 1)
    <3> DEFINE A == UNION {Sets(f) : f \in before}
               b == before # {}
    <3>1. Set(n - 1) = [args |-> A, found |-> b] /\ b \in BOOLEAN
      OBVIOUS
    <3> HIDE DEF A, b
    <3>2. ParseWord([args |-> A, found |-> b], w) =
            IF w \in UserFlags \union BaseFlags
            THEN [args |-> A \union Sets(w), found |-> TRUE]
            ELSE [args |-> A, found |-> b]
      BY <3>1, OneWord
    <3> HIDE DEF Set
    <3> HIDE DEF w
    <3>3. p[n] = IF w \in UserFlags \union BaseFlags
                 THEN [args |-> A \union Sets(w), found |-> TRUE] ELSE Set(n - 1)
      BY <2>2, <3>1, <3>2
    <3>4. QED BY <3>3 DEF A
  <2>4. CASE w \in UserFlags \union BaseFlags
    <3>1. FlagsTo(words, n) = before \union {w}
      BY <2>1, <2>4
    <3>2. UNION {Sets(f) : f \in before \union {w}} =
            (UNION {Sets(f) : f \in before}) \union Sets(w)
      <4>1. {Sets(f) : f \in before \union {w}} = {Sets(f) : f \in before} \union {Sets(w)}
        OBVIOUS
      <4>2. ASSUME NEW X, NEW Y PROVE UNION (X \union {Y}) = (UNION X) \union Y
        <5>1. \A x : x \in UNION (X \union {Y}) <=> x \in (UNION X) \union Y
          BY Zenon
        <5>2. QED BY <5>1, Zenon
      <4> DEFINE S == {Sets(f) : f \in before}
      <4>3. UNION (S \union {Sets(w)}) = (UNION S) \union Sets(w)
        BY <4>2
      <4>4. QED BY <4>1, <4>3
    <3>3. before \union {w} # {}
      OBVIOUS
    <3> HIDE DEF before, w
    <3>4. Set(n) = [args |-> (UNION {Sets(f) : f \in before}) \union Sets(w), found |-> TRUE]
      BY <3>1, <3>2, <3>3
    <3>5. p[n] = Set(n)
      BY <2>3, <2>4, <3>4
    <3>6. QED BY <3>5
  <2>5. CASE w \notin UserFlags \union BaseFlags
    <3>1. p[n] = Set(n - 1) /\ FlagsTo(words, n) = before
      BY <2>1, <2>3, <2>5
    <3>2. Set(n) = Set(n - 1)
      BY <3>1
    <3>3. p[n] = Set(n)
      BY <3>1, <3>2
    <3>4. QED BY <3>3
  <2>6. QED BY <2>4, <2>5
<1>4. Len(words) \in T
  <2> HIDE DEF T
  <2>1. \A n \in 1 .. Len(words) : n - 1 \in T => n \in T
    BY <1>3
  <2>2. 0 .. Len(words) \subseteq T
    BY <1>2, <2>1, WordByWord
  <2>3. QED BY <2>2
<1>5. QED BY <1>4 DEF p

(* What the parser makes of a command line. *)
LEMMA ParseMeans ==
  ASSUME NEW words \in Argvs
  PROVE  Parse(words).args = Meaning(words) /\ Parse(words).args \subseteq CliArgs
<1>1. Len(words) \in Nat /\ DOMAIN words = 1 .. Len(words)
  BY ArgvsAssumption
<1> DEFINE flags == FlagsTo(words, Len(words))
<1>2. flags = {words[n] : n \in DOMAIN words} \intersect (UserFlags \union BaseFlags)
  BY <1>1 DEF FlagsTo
<1>3. Parsed(words)[Len(words)] = [args |-> UNION {Sets(f) : f \in flags},
                                   found |-> flags # {}]
  BY <1>1, ParsedMeaning
<1> HIDE DEF flags
<1>4. Parse(words).args = IF flags # {} THEN UNION {Sets(f) : f \in flags} ELSE Default
  <2> DEFINE A == UNION {Sets(f) : f \in flags}
  <2> DEFINE any == flags # {}
  <2>1. Parsed(words)[Len(words)] = [args |-> A, found |-> any]
    BY <1>3
  <2> HIDE DEF A, any
  <2>2. /\ Parsed(words)[Len(words)].args = A
        /\ Parsed(words)[Len(words)].found = any
    BY <2>1
  <2>3. Parse(words).args = IF Parsed(words)[Len(words)].found
                            THEN Parsed(words)[Len(words)].args ELSE Default
    BY DEF Parse
  <2>4. QED BY <2>2, <2>3, Zenon DEF A, any
<1>5. UNION {Sets(f) : f \in flags} =
        UNION {IF f \in UserFlags THEN UserSets(f) ELSE BaseSets(f) : f \in flags}
  BY DEF Sets
<1>6. Meaning(words) = IF flags # {} THEN UNION {Sets(f) : f \in flags} ELSE Default
  BY <1>2, <1>5 DEF Meaning
<1>7. \A f \in flags : Sets(f) \subseteq CliArgs
  <2>1. \A f \in UserFlags : UserSets(f) \subseteq CliArgs
    BY DEF UserFlags, UserSets, CliArgs
  <2>2. \A f \in BaseFlags : BaseSets(f) \subseteq CliArgs
    BY DEF BaseFlags, BaseSets, CliArgs
  <2>3. QED BY <1>2, <2>1, <2>2 DEF Sets
<1>8. Default \subseteq CliArgs
  BY DEF Default, CliArgs
<1>9. QED BY <1>4, <1>6, <1>7, <1>8

-----------------------------------------------------------------------------
LEMMA FrontLast ==
  ASSUME NEW S, NEW w \in Seq(S), w # <<>>
  PROVE  /\ Front(w) \in Seq(S) /\ Last(w) \in S /\ Last(w) = w[Len(w)] /\ Len(w) \in DOMAIN w
         /\ \A n \in DOMAIN Front(w) : n \in DOMAIN w /\ Front(w)[n] = w[n]
BY DEF Front, Last

LEMMA InitIInv == RInit => IInv
<1> SUFFICES ASSUME RInit PROVE IInv
  OBVIOUS
<1>1. waiting \in Seq({"root", "rebuild"})
  BY DEF RInit
<1>2. RTypeOK
  BY <1>1, NoneAssumption DEF RInit, RTypeOK, NoArgs, Unseen
<1>3. AllTrack /\ Place
  BY DEF RInit, AllTrack, Tracks, Place
<1>4. NobIsKept /\ RunsItsSources /\ ArgsReachMain /\ StatusReachesShell
  BY DEF RInit, NobIsKept, RunsItsSources, ArgsReachMain, StatusReachesShell
<1>5. QED BY <1>2, <1>3, <1>4 DEF IInv

-----------------------------------------------------------------------------
(* One lemma for each part of the invariant. *)
LEMMA TypeStep == RTypeOK /\ Place /\ NobIsKept /\ [RNext]_rvars => RTypeOK'
<1> SUFFICES ASSUME RTypeOK, Place, NobIsKept, [RNext]_rvars PROVE RTypeOK'
  OBVIOUS
<1> USE DEF RTypeOK
<1>1. ASSUME NEW where \in {"root", "sub"}, NEW words \in Argvs, Launch(where, words)
      PROVE  RTypeOK'
  <2>1. waiting' \in Seq({"root", "rebuild"})
    BY <1>1 DEF Launch
  <2>2. cc' \in Compilation \union {None}
    BY <1>1 DEF Launch, StartsCompiler, Compilation
  <2>3. QED BY <1>1, <2>1, <2>2 DEF Launch, NoArgs, Unseen, programVars, historyVars
<1>2. ASSUME NEW f \in OwnFiles, EditOwn(f) PROVE RTypeOK'
  BY <1>2 DEF EditOwn, programVars, processVars, historyVars
<1>3. ASSUME EditElsewhere \/ Tick PROVE RTypeOK'
  BY <1>3 DEF EditElsewhere, Tick, programVars, processVars, historyVars
<1>4. ASSUME BootstrapEnds \/ CompileEnds PROVE RTypeOK'
  <2>1. Compiled \in Program
    BY <1>4, NoneAssumption DEF BootstrapEnds, CompileEnds, Compiled, Program, Compilation, Place
  <2>2. Append(waiting, "rebuild") \in Seq({"root", "rebuild"})
    OBVIOUS
  <2>3. QED BY <1>4, <2>1, <2>2
        DEF BootstrapEnds, CompileEnds, worldVars, historyVars
<1>5. ASSUME BootstrapFails \/ CompileFails PROVE RTypeOK'
  BY <1>5 DEF BootstrapFails, CompileFails, worldVars, historyVars
<1>6. ASSUME GoToRoot PROVE RTypeOK'
  <2>1. waiting' \in Seq({"root", "rebuild"})
    BY <1>6 DEF GoToRoot
  <2>2. QED BY <1>6, <2>1 DEF GoToRoot, worldVars, programVars, historyVars
<1>7. ASSUME UpToDate PROVE RTypeOK'
  BY <1>7 DEF UpToDate, worldVars, programVars
<1>8. ASSUME RenameToOld PROVE RTypeOK'
  BY <1>8 DEF RenameToOld, StartsCompiler, Compilation, worldVars, historyVars
<1>9. ASSUME ParseArgs PROVE RTypeOK'
  <2>1. Parse(argv).args \subseteq CliArgs
    BY <1>9, ParseMeans DEF ParseArgs, Place
  <2>2. QED BY <1>9, <2>1 DEF ParseArgs, Unseen, worldVars, programVars
<1>10. ASSUME NEW v \in {"ok", "fail"}, MainReturns(v) PROVE RTypeOK'
  BY <1>10 DEF MainReturns, Unseen, worldVars
<1>11. ASSUME ParentExits PROVE RTypeOK'
  <2>1. waiting' \in Seq({"root", "rebuild"})
    BY <1>11, FrontLast DEF ParentExits
  <2>2. QED BY <1>11, <2>1 DEF ParentExits, worldVars, programVars, historyVars
<1>12. ASSUME Exits PROVE RTypeOK'
  BY <1>12 DEF Exits, AtPrompt, NoArgs, Unseen, worldVars, programVars
<1>13. ASSUME Interrupt PROVE RTypeOK'
  <2>1. waiting' \in Seq({"root", "rebuild"})
    BY <1>13 DEF Interrupt
  <2>2. QED BY <1>13, <2>1 DEF Interrupt, AtPrompt, NoArgs, Unseen, worldVars
<1>14. CASE UNCHANGED rvars
  BY <1>14 DEF rvars, worldVars, programVars, processVars, historyVars
<1>15. QED BY <1>1, <1>2, <1>3, <1>4, <1>5, <1>6, <1>7, <1>8, <1>9, <1>10, <1>11, <1>12, <1>13, <1>14
       DEF RNext, StartNext, EndNext, UserNext

(* The compiler reads the sources as they are.                             *)
LEMMA CompilerReads ==
  ASSUME RTypeOK, StartsCompiler, own' = own, clock' = clock
  PROVE  cc' \in Compilation /\ cc' # None /\ Tracks(cc)'
<1>1. cc' \in Compilation
  BY DEF RTypeOK, StartsCompiler, Compilation
<1>2. cc'.began = clock /\ \A f \in OwnFiles : cc'.from[f] = own[f].ver
  BY DEF StartsCompiler
<1>3. QED BY <1>1, <1>2, NoneAssumption DEF Tracks, RTypeOK

LEMMA CompiledTracks ==
  ASSUME RTypeOK, cc # None, Tracks(cc)
  PROVE  Compiled \in Program /\ Compiled # None /\ Tracks(Compiled)
<1>1. cc \in Compilation /\ Compiled.from = cc.from /\ Compiled.began = cc.began
  BY DEF RTypeOK, Compiled
<1>2. Compiled \in Program
  BY DEF RTypeOK, Compiled, Program, Compilation
<1>3. QED BY <1>1, <1>2, NoneAssumption DEF Tracks

LEMMA TrackStep == RTypeOK /\ Place /\ AllTrack /\ [RNext]_rvars => AllTrack'
<1> SUFFICES ASSUME RTypeOK, Place, AllTrack, [RNext]_rvars PROVE AllTrack'
  OBVIOUS
<1> USE NoneAssumption DEF RTypeOK, AllTrack, Tracks
<1>1. ASSUME NEW where \in {"root", "sub"}, NEW words \in Argvs, Launch(where, words)
      PROVE  AllTrack'
  BY <1>1, CompilerReads DEF Launch
<1>2. ASSUME NEW f \in OwnFiles, EditOwn(f) PROVE AllTrack'
  <2>1. ASSUME NEW p \in Program \union Compilation, p.began <= clock,
               \A g \in OwnFiles : p.from[g] = own[g].ver \/ p.began <= own[g].time
        PROVE  \A g \in OwnFiles : p.from[g] = own'[g].ver \/ p.began <= own'[g].time
    BY <1>2, <2>1 DEF EditOwn
  <2>2. QED BY <1>2, <2>1 DEF EditOwn, programVars
<1>3. ASSUME EditElsewhere \/ Tick PROVE AllTrack'
  <2>1. clock <= clock' /\ clock' \in Nat /\ own' = own /\ UNCHANGED programVars
    BY <1>3 DEF EditElsewhere, Tick
  <2>2. \A p \in Program \union Compilation : p.began \in Nat
    BY DEF Program, Compilation
  <2>3. QED BY <2>1, <2>2 DEF programVars
<1>4. ASSUME BootstrapEnds \/ CompileEnds PROVE AllTrack'
  <2>1. nob' = Compiled /\ cc' = None /\ UNCHANGED <<clock, own, old>>
    BY <1>4 DEF BootstrapEnds, CompileEnds, worldVars
  <2>2. Tracks(Compiled)
    BY <1>4, CompiledTracks DEF BootstrapEnds, CompileEnds, Place
  <2>3. QED BY <2>1, <2>2
<1>5. ASSUME BootstrapFails \/ CompileFails PROVE AllTrack'
  BY <1>5 DEF BootstrapFails, CompileFails, worldVars
<1>6. ASSUME GoToRoot \/ UpToDate \/ ParseArgs \/ ParentExits PROVE AllTrack'
  BY <1>6 DEF GoToRoot, UpToDate, ParseArgs, ParentExits, worldVars, programVars
<1>7. ASSUME RenameToOld PROVE AllTrack'
  BY <1>7, CompilerReads DEF RenameToOld, worldVars
<1>8. ASSUME NEW v \in {"ok", "fail"}, MainReturns(v) PROVE AllTrack'
  BY <1>8 DEF MainReturns, worldVars
<1>9. ASSUME Exits \/ Interrupt PROVE AllTrack'
  BY <1>9 DEF Exits, Interrupt, worldVars, programVars
<1>10. CASE UNCHANGED rvars
  BY <1>10 DEF rvars, worldVars, programVars
<1>11. QED BY <1>1, <1>2, <1>3, <1>4, <1>5, <1>6, <1>7, <1>8, <1>9, <1>10
       DEF RNext, StartNext, EndNext, UserNext

LEMMA OthersStillWait ==
  ASSUME RTypeOK, ParentExits
  PROVE  \A n \in DOMAIN waiting' : n \in DOMAIN waiting /\ waiting'[n] = waiting[n]
<1>1. waiting \in Seq({"root", "rebuild"}) /\ waiting # <<>> /\ waiting' = Front(waiting)
  BY DEF RTypeOK, ParentExits
<1>2. \A n \in DOMAIN Front(waiting) : n \in DOMAIN waiting /\ Front(waiting)[n] = waiting[n]
  BY <1>1, FrontLast
<1>3. QED BY <1>1, <1>2

LEMMA PlaceStep == RTypeOK /\ Place /\ [RNext]_rvars => Place'
<1> SUFFICES ASSUME RTypeOK, Place, [RNext]_rvars PROVE Place'
  OBVIOUS
<1> USE NoneAssumption DEF RTypeOK, Place
<1>1. ASSUME NEW where \in {"root", "sub"}, NEW words \in Argvs, Launch(where, words)
      PROVE  Place'
  <2>1. pc' = "bootstrap" => cc' # None
    BY <1>1, CompilerReads DEF Launch
  <2>2. DOMAIN waiting' = {}
    BY <1>1 DEF Launch
  <2>3. pc' \in {"bootstrap", "start"} /\ (pc' = "bootstrap" => ~had')
        /\ argv' = words /\ typed' = words /\ verdict' = "none"
    BY <1>1 DEF Launch
  <2>4. QED BY <2>1, <2>2, <2>3
<1>2. ASSUME NEW f \in OwnFiles, EditOwn(f) PROVE Place'
  BY <1>2 DEF EditOwn, programVars, processVars, historyVars
<1>3. ASSUME EditElsewhere \/ Tick PROVE Place'
  BY <1>3 DEF EditElsewhere, Tick, programVars, processVars, historyVars
<1>4. ASSUME BootstrapEnds \/ CompileEnds PROVE Place'
  <2>1. \A n \in DOMAIN Append(waiting, "rebuild") :
           Append(waiting, "rebuild")[n] = IF n \in DOMAIN waiting THEN waiting[n] ELSE "rebuild"
    OBVIOUS
  <2>2. QED BY <1>4, <2>1 DEF BootstrapEnds, CompileEnds, historyVars
<1>5. ASSUME BootstrapFails \/ CompileFails PROVE Place'
  BY <1>5 DEF BootstrapFails, CompileFails, historyVars
<1>6. ASSUME GoToRoot PROVE Place'
  <2>1. home' # "root" /\ UNCHANGED <<pc, cc, had, argv, typed, verdict>>
    BY <1>6 DEF GoToRoot, InRoot, programVars, historyVars
  <2>2. QED BY <2>1
<1>7. ASSUME UpToDate \/ ParseArgs PROVE Place'
  BY <1>7 DEF UpToDate, ParseArgs, programVars
<1>8. ASSUME RenameToOld PROVE Place'
  BY <1>8, CompilerReads DEF RenameToOld, worldVars, historyVars
<1>9. ASSUME NEW v \in {"ok", "fail"}, MainReturns(v) PROVE Place'
  BY <1>9 DEF MainReturns
<1>10. ASSUME ParentExits PROVE Place'
  <2>1. \A n \in DOMAIN waiting' : n \in DOMAIN waiting /\ waiting'[n] = waiting[n]
    BY <1>10, OthersStillWait
  <2>2. QED BY <1>10, <2>1 DEF ParentExits, programVars, historyVars
<1>11. ASSUME Exits \/ Interrupt PROVE Place'
  BY <1>11 DEF Exits, Interrupt, AtPrompt
<1>12. CASE UNCHANGED rvars
  BY <1>12 DEF rvars, programVars, processVars, historyVars
<1>13. QED BY <1>1, <1>2, <1>3, <1>4, <1>5, <1>6, <1>7, <1>8, <1>9, <1>10, <1>11, <1>12
       DEF RNext, StartNext, EndNext, UserNext

LEMMA KeptStep == RTypeOK /\ Place /\ NobIsKept /\ [RNext]_rvars => NobIsKept'
<1> SUFFICES ASSUME RTypeOK, Place, NobIsKept, [RNext]_rvars PROVE NobIsKept'
  OBVIOUS
<1> USE NoneAssumption DEF RTypeOK, Place, NobIsKept
<1>1. ASSUME NEW where \in {"root", "sub"}, NEW words \in Argvs, Launch(where, words)
      PROVE  NobIsKept'
  BY <1>1 DEF Launch
<1>2. ASSUME NEW f \in OwnFiles, EditOwn(f) PROVE NobIsKept'
  BY <1>2 DEF EditOwn, programVars, processVars, historyVars
<1>3. ASSUME EditElsewhere \/ Tick PROVE NobIsKept'
  BY <1>3 DEF EditElsewhere, Tick, programVars, processVars, historyVars
<1>4. ASSUME BootstrapEnds \/ CompileEnds PROVE NobIsKept'
  BY <1>4 DEF BootstrapEnds, CompileEnds, Compiled, Program, Compilation
<1>5. ASSUME BootstrapFails \/ CompileFails PROVE NobIsKept'
  BY <1>5 DEF BootstrapFails, CompileFails, historyVars
<1>6. ASSUME GoToRoot \/ UpToDate \/ ParseArgs PROVE NobIsKept'
  BY <1>6 DEF GoToRoot, UpToDate, ParseArgs, programVars, historyVars
<1>7. ASSUME RenameToOld PROVE NobIsKept'
  BY <1>7 DEF RenameToOld
<1>8. ASSUME NEW v \in {"ok", "fail"}, MainReturns(v) PROVE NobIsKept'
  BY <1>8 DEF MainReturns
<1>9. ASSUME ParentExits PROVE NobIsKept'
  BY <1>9 DEF ParentExits, programVars, historyVars
<1>10. ASSUME Exits \/ Interrupt PROVE NobIsKept'
  BY <1>10 DEF Exits, Interrupt, AtPrompt
<1>11. CASE UNCHANGED rvars
  BY <1>11 DEF rvars, programVars, processVars, historyVars
<1>12. QED BY <1>1, <1>2, <1>3, <1>4, <1>5, <1>6, <1>7, <1>8, <1>9, <1>10, <1>11
       DEF RNext, StartNext, EndNext, UserNext

(* Only UpToDate makes the program the one that does the work, and what it *)
(* found is what its compilation tracked, or is hidden by the clock.       *)
LEMMA SourcesStep ==
  RTypeOK /\ AllTrack /\ NobIsKept /\ RunsItsSources /\ [RNext]_rvars => RunsItsSources'
<1> SUFFICES ASSUME RTypeOK, AllTrack, NobIsKept, RunsItsSources, [RNext]_rvars
             PROVE  RunsItsSources'
  OBVIOUS
<1>1. ASSUME UpToDate PROVE RunsItsSources'
  <2>1. nob \in Program
    BY <1>1 DEF UpToDate, NobIsKept, RTypeOK
  <2>2. nob' = nob /\ seen' = own /\ Tracks(nob)
    BY <1>1 DEF UpToDate, programVars, AllTrack
  <2>3. \A f \in OwnFiles : own[f].time <= nob.time
    BY <1>1, <2>1, NoneAssumption DEF UpToDate, SelfStale, NeedsRebuild, RTypeOK, Program
  <2>4. QED BY <2>1, <2>2, <2>3, NoneAssumption DEF RunsItsSources, Hidden, Tracks
<1>2. ASSUME ParseArgs PROVE RunsItsSources'
  BY <1>2 DEF ParseArgs, RunsItsSources, Hidden, programVars
<1>3. ASSUME pc' \notin {"parse", "main"} PROVE RunsItsSources'
  BY <1>3 DEF RunsItsSources
<1>4. ASSUME UNCHANGED <<pc, nob, seen>> PROVE RunsItsSources'
  BY <1>4 DEF RunsItsSources, Hidden
<1>5. QED BY <1>1, <1>2, <1>3, <1>4
      DEF RNext, StartNext, EndNext, UserNext, Launch, EditOwn, EditElsewhere, Tick,
          BootstrapEnds, BootstrapFails, GoToRoot, RenameToOld, CompileEnds, CompileFails,
          MainReturns, ParentExits, Exits, Interrupt, AtPrompt,
          rvars, programVars, processVars, historyVars

(* From the root every process that waits passes the status on.            *)
LEMMA StatusStep ==
  RTypeOK /\ Place /\ StatusReachesShell /\ [RNext]_rvars => StatusReachesShell'
<1> SUFFICES ASSUME RTypeOK, Place, StatusReachesShell, [RNext]_rvars
             PROVE  StatusReachesShell'
  OBVIOUS
<1>1. ASSUME ParentExits PROVE StatusReachesShell'
  <2>1. waiting \in Seq({"root", "rebuild"}) /\ waiting # <<>>
    BY <1>1 DEF ParentExits, RTypeOK
  <2>2. Last(waiting) = waiting[Len(waiting)] /\ Len(waiting) \in DOMAIN waiting
    BY <2>1, FrontLast
  <2>3. home = "root" => Last(waiting) = "rebuild"
    BY <2>2 DEF Place
  <2>4. QED BY <1>1, <2>3 DEF ParentExits, StatusReachesShell, historyVars
<1>2. ASSUME BootstrapFails \/ CompileFails PROVE StatusReachesShell'
  BY <1>2 DEF BootstrapFails, CompileFails, Place, StatusReachesShell, historyVars
<1>3. ASSUME ParseArgs PROVE StatusReachesShell'
  BY <1>3 DEF ParseArgs, StatusReachesShell
<1>4. ASSUME NEW v \in {"ok", "fail"}, MainReturns(v) PROVE StatusReachesShell'
  BY <1>4 DEF MainReturns, StatusReachesShell
<1>5. ASSUME pc' # "exit" PROVE StatusReachesShell'
  BY <1>5 DEF StatusReachesShell
<1>6. ASSUME UNCHANGED <<pc, home, status, verdict>> PROVE StatusReachesShell'
  BY <1>6 DEF StatusReachesShell
<1>7. QED BY <1>1, <1>2, <1>3, <1>4, <1>5, <1>6
      DEF RNext, StartNext, EndNext, UserNext, Launch, EditOwn, EditElsewhere, Tick,
          BootstrapEnds, GoToRoot, UpToDate, RenameToOld, CompileEnds,
          Exits, Interrupt, AtPrompt, rvars, processVars, historyVars

(* The process that works was given the words that were typed. *)
LEMMA ArgsStep == Place /\ ArgsReachMain /\ [RNext]_rvars => ArgsReachMain'
<1> SUFFICES ASSUME Place, ArgsReachMain, [RNext]_rvars PROVE ArgsReachMain'
  OBVIOUS
<1>1. ASSUME ParseArgs PROVE ArgsReachMain'
  <2>1. /\ argv \in Argvs /\ argv = typed /\ typed' = typed
        /\ args' = Parse(argv).args
    BY <1>1 DEF ParseArgs, Place
  <2>2. args' = Meaning(typed)
    BY <2>1, ParseMeans
  <2>3. QED BY <2>1, <2>2 DEF ArgsReachMain, Meaning
<1>2. ASSUME pc' # "main" PROVE ArgsReachMain'
  BY <1>2 DEF ArgsReachMain
<1>3. ASSUME UNCHANGED <<pc, args, typed>> PROVE ArgsReachMain'
  BY <1>3 DEF ArgsReachMain, Meaning
<1>4. QED BY <1>1, <1>2, <1>3
      DEF RNext, StartNext, EndNext, UserNext, Launch, EditOwn, EditElsewhere, Tick,
          BootstrapEnds, BootstrapFails, GoToRoot, UpToDate, RenameToOld, CompileEnds,
          CompileFails, MainReturns, ParentExits, Exits, Interrupt, AtPrompt, rvars,
          processVars, historyVars

LEMMA StepIInv == IInv /\ [RNext]_rvars => IInv'
BY TypeStep, TrackStep, PlaceStep, KeptStep, SourcesStep, ArgsStep, StatusStep DEF IInv

LEMMA Invariance == RSpec => []IInv
BY InitIInv, StepIInv, PTL DEF RSpec

-----------------------------------------------------------------------------
(* Every variable keeps its type, with any sources and command lines. *)
THEOREM RTypeCorrect == RSpec => []RTypeOK
<1>1. IInv => RTypeOK
  BY DEF IInv
<1>2. QED BY <1>1, Invariance, PTL

(* The program that does the work (UpToDate to MainReturns) was compiled   *)
(* from the sources it was checked against, however edits, compilations,   *)
(* failures and Ctrl-C interleave, up to the resolution of st_mtime.       *)
THEOREM NobIsCurrent == RSpec => []RunsItsSources
<1>1. IInv => RunsItsSources
  BY DEF IInv
<1>2. QED BY <1>1, Invariance, PTL

(* No failure of go_rebuild_yourself_check_dir loses the program. *)
THEOREM NobSurvives == RSpec => []NobIsKept
<1>1. IInv => NobIsKept
  BY DEF IInv
<1>2. QED BY <1>1, Invariance, PTL

(* What the user typed reaches the process that does the work, through the *)
(* root, the rebuilds and the loop of the parser: for any command lines.   *)
THEOREM ArgsAreKept == RSpec => []ArgsReachMain
<1>1. IInv => ArgsReachMain
  BY DEF IInv
<1>2. QED BY <1>1, Invariance, PTL

(* From the root the exit status is that of main, through any number of    *)
(* programs that rebuilt themselves.                                       *)
THEOREM StatusIsPassedOn == RSpec => []StatusReachesShell
<1>1. IInv => StatusReachesShell
  BY DEF IInv
<1>2. QED BY <1>1, Invariance, PTL

-----------------------------------------------------------------------------
(***************************************************************************)
(* Builder.                                                                *)
(***************************************************************************)
(* The refinement. *)
LEMMA StepRefines == [BNext]_bvars => [RNext]_rvars
<1> SUFFICES ASSUME [BNext]_bvars PROVE [RNext]_rvars
  OBVIOUS
<1>1. ASSUME NEW v \in {"ok", "fail"}, Return(v) PROVE RNext
  BY <1>1 DEF Return, RNext
<1>2. CASE MainNext
  <2>1. ASSUME \/ BuildWamrFails \/ TidyFails \/ LspFails \/ BoardFails \/ LinkFails \/ RunFails
               \/ End \/ \E s \in Sources : \E k \in kids : PoolFails(s, k)
        PROVE  RNext
    BY <2>1, <1>1 DEF BuildWamrFails, TidyFails, LspFails, BoardFails, LinkFails, RunFails,
                      End, PoolFails, ReturnsFrom
  <2>2. ASSUME \/ Begin \/ BuildWamr \/ Tidy \/ LspEnds \/ WalkEnds \/ Flush \/ LinkVi
               \/ CompileLauncher \/ LinkLauncher \/ RunEnds \/ Clean
               \/ \E s \in Sources : \/ CompileSkips(s) \/ CompileStarts(s)
                                     \/ \E k \in kids : PoolReaps(s, k)
        PROVE  UNCHANGED rvars
    BY <2>2 DEF Begin, BuildWamr, Tidy, LspEnds, WalkEnds, Flush, LinkVi, CompileLauncher,
                LinkLauncher, RunEnds, Clean, CompileSkips, CompileStarts, PoolReaps
  <2>3. QED BY <1>2, <2>1, <2>2 DEF MainNext
<1>3. CASE NobNext \/ UserNext \/ Tick \/ Interrupted
  BY <1>3 DEF NobNext, Interrupted, RNext
<1>4. CASE ChildNext
  BY <1>4 DEF ChildNext, ChildSucceeds, ChildFails
<1>5. CASE \E s \in Sources : Edit(s)
  BY <1>5 DEF Edit, RNext
<1>6. CASE UNCHANGED bvars
  BY <1>6 DEF bvars
<1>7. QED BY <1>2, <1>3, <1>4, <1>5, <1>6 DEF BNext

(* What nob does between its start and its exit is, seen from outside, the *)
(* one step of Rebuild.                                                    *)
THEOREM Refinement == BSpec => ImplementsRebuild
<1>1. BInit => RInit
  BY DEF BInit
<1>2. QED BY <1>1, StepRefines, PTL DEF BSpec, RSpec, ImplementsRebuild

-----------------------------------------------------------------------------
(* What any step does to the sources, the objects and the children.        *)
SameRun(j, k) == j.what = k.what /\ j.ver = k.ver /\ j.began = k.began

LEMMA ChildType ==
  ASSUME BTypeOK, NEW what \in Sources \union {"wamr"}
  PROVE  /\ Child(what) \in Kid
         /\ Child(what).what = what /\ Child(what).began = clock /\ Child(what).mine = TRUE
         /\ Child(what).st = "runs"
         /\ what \in Sources => Child(what).ver = src[what].ver
<1>1. clock \in Nat
  BY DEF BTypeOK, RTypeOK
<1>2. (IF what \in Sources THEN src[what].ver ELSE 0) \in Nat
  BY DEF BTypeOK
<1>3. Child(what) \in Kid
  <2> DEFINE v == IF what \in Sources THEN src[what].ver ELSE 0
  <2>1. Child(what) = [what |-> what, ver |-> v, began |-> clock, mine |-> TRUE, st |-> "runs"]
    BY DEF Child
  <2>2. v \in Nat
    BY <1>2
  <2> HIDE DEF v
  <2>3. QED BY <1>1, <2>1, <2>2 DEF Kid
<1>4. Child(what).mine = TRUE
  BY DEF Child
<1>5. /\ Child(what).what = what /\ Child(what).began = clock /\ Child(what).st = "runs"
      /\ what \in Sources => Child(what).ver = src[what].ver
  BY DEF Child
<1>6. QED BY <1>3, <1>4, <1>5

(* The children a process leaves when it ends are no longer its own.       *)
LEMMA LeftKids ==
  ASSUME BTypeOK, NEW v \in {"ok", "fail"}, Return(v)
  PROVE  kids' \subseteq Kid /\ \A k \in kids' : ~k.mine /\ \E j \in kids : SameRun(j, k)
<1>1. kids \subseteq Kid
  BY DEF BTypeOK
<1>2. ASSUME NEW k \in kids'
      PROVE  \E j \in kids : (k = j /\ ~j.mine) \/ k = [j EXCEPT !.mine = FALSE]
  BY <1>2 DEF Return, Pool
<1>3. ASSUME NEW j \in Kid
      PROVE  /\ [j EXCEPT !.mine = FALSE] \in Kid
             /\ ~[j EXCEPT !.mine = FALSE].mine
             /\ SameRun(j, [j EXCEPT !.mine = FALSE]) /\ SameRun(j, j)
  BY DEF Kid, SameRun
<1>4. QED BY <1>1, <1>2, <1>3

LEMMA KidsStep ==
  ASSUME BTypeOK, [BNext]_bvars
  PROVE  /\ kids' \subseteq Kid
         /\ \A k \in kids' : \/ \E j \in kids : SameRun(j, k)
                             \/ /\ \E what \in Sources \union {"wamr"} : k = Child(what)
                                /\ UNCHANGED <<src, obj, begun, clock>>
<1>1. CASE ChildNext
  <2>1. PICK k \in kids, st \in {"ok", "failed"} : Reports(k, st)
    BY <1>1 DEF ChildNext, ChildSucceeds, ChildFails
  <2>2. QED BY <2>1 DEF BTypeOK, Reports, Kid, SameRun
<1>2. ASSUME NEW v \in {"ok", "fail"}, Return(v)
      PROVE  kids' \subseteq Kid /\ \A k \in kids' : \E j \in kids : SameRun(j, k)
  BY <1>2, LeftKids
<1>3. CASE MainNext
  <2>1. ASSUME \/ BuildWamrFails \/ TidyFails \/ LspFails \/ BoardFails \/ LinkFails \/ RunFails
               \/ End \/ \E s \in Sources : \E k \in kids : PoolFails(s, k)
        PROVE  kids' \subseteq Kid /\ \A k \in kids' : \E j \in kids : SameRun(j, k)
    BY <2>1, <1>2 DEF BuildWamrFails, TidyFails, LspFails, BoardFails, LinkFails, RunFails,
                      End, PoolFails, ReturnsFrom
  <2>2. ASSUME \/ Begin \/ Tidy \/ LspEnds \/ WalkEnds \/ Flush \/ LinkVi
               \/ CompileLauncher \/ LinkLauncher \/ RunEnds \/ Clean
               \/ \E s \in Sources : CompileSkips(s) \/ \E k \in kids : PoolReaps(s, k)
        PROVE  kids' \subseteq kids
    BY <2>2 DEF Begin, Tidy, LspEnds, WalkEnds, Flush, LinkVi, CompileLauncher,
                LinkLauncher, RunEnds, Clean, CompileSkips, PoolReaps, fileVars
  <2>3. ASSUME BuildWamr \/ \E s \in Sources : CompileStarts(s)
        PROVE  /\ \E what \in Sources \union {"wamr"} : kids' \subseteq kids \union {Child(what)}
               /\ UNCHANGED <<src, obj, begun, clock>>
    BY <2>3 DEF BuildWamr, CompileStarts, rvars, worldVars
  <2>4. QED BY <1>3, <2>1, <2>2, <2>3, ChildType DEF MainNext, BTypeOK, SameRun
<1>4. CASE Interrupted
  BY <1>4 DEF Interrupted, BTypeOK, SameRun
<1>5. CASE UNCHANGED kids
  BY <1>5 DEF BTypeOK, SameRun
<1>6. QED BY <1>1, <1>3, <1>4, <1>5 DEF BNext, NobNext, Edit, bvars, fileVars

LEMMA ObjStep ==
  ASSUME BTypeOK, [BNext]_bvars
  PROVE  /\ obj' \in [Sources -> Object \union {None}]
         /\ \A s \in Sources : \/ obj'[s] = obj[s]
                               \/ obj'[s] = None
                               \/ \E k \in kids : /\ k.what = s /\ obj'[s].ver = k.ver
                                                  /\ obj'[s].began = k.began /\ obj'[s].time = clock
<1>1. ASSUME NEW k \in kids, ChildSucceeds(k)
      PROVE  /\ obj' \in [Sources -> Object \union {None}]
             /\ \A s \in Sources : \/ obj'[s] = obj[s]
                                   \/ /\ k.what = s /\ obj'[s].ver = k.ver
                                      /\ obj'[s].began = k.began /\ obj'[s].time = clock
  <2>1. [ver |-> k.ver, began |-> k.began, time |-> clock] \in Object
    BY DEF BTypeOK, RTypeOK, Kid, Object
  <2>2. QED BY <1>1, <2>1 DEF ChildSucceeds, BTypeOK
<1>2. ASSUME NEW k \in kids, ChildFails(k)
      PROVE  /\ obj' \in [Sources -> Object \union {None}]
             /\ \A s \in Sources : obj'[s] = obj[s] \/ obj'[s] = None
  BY <1>2 DEF ChildFails, BTypeOK
<1>3. ASSUME Clean
      PROVE  /\ obj' \in [Sources -> Object \union {None}]
             /\ \A s \in Sources : obj'[s] = obj[s] \/ obj'[s] = None
  BY <1>3 DEF Clean, BTypeOK
<1>4. CASE MainNext
  <2>1. ASSUME \/ BuildWamrFails \/ TidyFails \/ LspFails \/ BoardFails \/ LinkFails \/ RunFails
               \/ End \/ \E s \in Sources : \E k \in kids : PoolFails(s, k)
        PROVE  UNCHANGED obj
    BY <2>1 DEF BuildWamrFails, TidyFails, LspFails, BoardFails, LinkFails, RunFails,
                End, PoolFails, ReturnsFrom, Return
  <2>2. ASSUME \/ Begin \/ BuildWamr \/ Tidy \/ LspEnds \/ WalkEnds \/ Flush \/ LinkVi
               \/ CompileLauncher \/ LinkLauncher \/ RunEnds
               \/ \E s \in Sources : \/ CompileSkips(s) \/ CompileStarts(s)
                                     \/ \E k \in kids : PoolReaps(s, k)
        PROVE  UNCHANGED obj
    BY <2>2 DEF Begin, BuildWamr, Tidy, LspEnds, WalkEnds, Flush, LinkVi, CompileLauncher,
                LinkLauncher, RunEnds, CompileSkips, CompileStarts, PoolReaps, fileVars
  <2>3. QED BY <1>3, <1>4, <2>1, <2>2 DEF MainNext, BTypeOK
<1>5. CASE UNCHANGED obj
  BY <1>5 DEF BTypeOK
<1>6. QED BY <1>1, <1>2, <1>4, <1>5
      DEF BNext, ChildNext, NobNext, Edit, Interrupted, bvars, fileVars

(* An edit is the only step that changes a source; and it changes nothing  *)
(* else that was compiled.                                                 *)
LEMMA SrcStep ==
  ASSUME BTypeOK, [BNext]_bvars
  PROVE  \/ UNCHANGED src
         \/ /\ UNCHANGED <<buildVars, obj, kids, clock>>
            /\ src' \in [Sources -> [ver : Nat, time : Nat]]
            /\ \A s \in Sources : \/ src'[s] = src[s]
                                  \/ src'[s].ver = src[s].ver + 1 /\ src'[s].time = clock
<1>1. ASSUME NEW s \in Sources, Edit(s)
      PROVE  /\ UNCHANGED <<buildVars, obj, kids, clock>>
             /\ src' \in [Sources -> [ver : Nat, time : Nat]]
             /\ \A t \in Sources : \/ src'[t] = src[t]
                                   \/ src'[t].ver = src[t].ver + 1 /\ src'[t].time = clock
  <2>1. src' = [src EXCEPT ![s] = [ver |-> src[s].ver + 1, time |-> clock]]
    BY <1>1 DEF Edit
  <2>2. src[s].ver \in Nat /\ clock \in Nat /\ src \in [Sources -> [ver : Nat, time : Nat]]
    BY DEF BTypeOK, RTypeOK
  <2>3. [ver |-> src[s].ver + 1, time |-> clock] \in [ver : Nat, time : Nat]
    BY <2>2
  <2>4. src' \in [Sources -> [ver : Nat, time : Nat]]
    BY <2>1, <2>2, <2>3
  <2>5. ASSUME NEW t \in Sources
        PROVE  src'[t] = IF t = s THEN [ver |-> src[s].ver + 1, time |-> clock] ELSE src[t]
    BY <2>1, <2>2
  <2>6. UNCHANGED <<buildVars, obj, kids, clock>>
    BY <1>1 DEF Edit, EditElsewhere
  <2>7. QED BY <2>4, <2>5, <2>6
<1>2. CASE MainNext
  <2>1. ASSUME \/ BuildWamrFails \/ TidyFails \/ LspFails \/ BoardFails \/ LinkFails \/ RunFails
               \/ End \/ \E s \in Sources : \E k \in kids : PoolFails(s, k)
        PROVE  UNCHANGED src
    BY <2>1 DEF BuildWamrFails, TidyFails, LspFails, BoardFails, LinkFails, RunFails,
                End, PoolFails, ReturnsFrom, Return
  <2>2. ASSUME \/ Begin \/ BuildWamr \/ Tidy \/ LspEnds \/ WalkEnds \/ Flush \/ LinkVi
               \/ CompileLauncher \/ LinkLauncher \/ RunEnds \/ Clean
               \/ \E s \in Sources : \/ CompileSkips(s) \/ CompileStarts(s)
                                     \/ \E k \in kids : PoolReaps(s, k)
        PROVE  UNCHANGED src
    BY <2>2 DEF Begin, BuildWamr, Tidy, LspEnds, WalkEnds, Flush, LinkVi, CompileLauncher,
                LinkLauncher, RunEnds, Clean, CompileSkips, CompileStarts, PoolReaps, fileVars
  <2>3. QED BY <1>2, <2>1, <2>2 DEF MainNext
<1>3. QED BY <1>1, <1>2
      DEF BNext, ChildNext, ChildSucceeds, ChildFails, NobNext, Interrupted, bvars, fileVars

LEMMA ClockStep ==
  ASSUME BTypeOK, [BNext]_bvars PROVE clock' \in Nat /\ clock <= clock'
<1>1. [RNext]_rvars
  BY StepRefines
<1>2. QED BY <1>1
      DEF BTypeOK, RTypeOK, RNext, StartNext, EndNext, UserNext, Launch, EditOwn, EditElsewhere,
          Tick, BootstrapEnds, BootstrapFails, GoToRoot, UpToDate, RenameToOld, CompileEnds,
          CompileFails, ParseArgs, MainReturns, ParentExits, Exits, Interrupt, rvars, worldVars

(* What main has done: a command begins with the sources as they are.      *)
LEMMA BegunStep ==
  ASSUME BTypeOK, [BNext]_bvars
  PROVE  \/ begun' = begun /\ (step' # "none" => step # "none")
         \/ step' = "none" /\ begun' = Unbegun
         \/ begun' = src /\ UNCHANGED <<src, obj, kids, clock>>
<1>1. ASSUME NEW v \in {"ok", "fail"}, Return(v) PROVE step' = "none" /\ begun' = Unbegun
  BY <1>1 DEF Return
<1>2. CASE MainNext
  <2>1. ASSUME \/ BuildWamrFails \/ TidyFails \/ LspFails \/ BoardFails \/ LinkFails \/ RunFails
               \/ End \/ \E s \in Sources : \E k \in kids : PoolFails(s, k)
        PROVE  step' = "none" /\ begun' = Unbegun
    BY <2>1, <1>1 DEF BuildWamrFails, TidyFails, LspFails, BoardFails, LinkFails, RunFails,
                End, PoolFails, ReturnsFrom
  <2>2. ASSUME \/ BuildWamr \/ Tidy \/ LspEnds \/ WalkEnds \/ Flush \/ LinkVi
               \/ CompileLauncher \/ LinkLauncher \/ RunEnds \/ Clean
               \/ \E s \in Sources : \/ CompileSkips(s) \/ CompileStarts(s)
                                     \/ \E k \in kids : PoolReaps(s, k)
        PROVE  begun' = begun /\ step # "none"
    BY <2>2 DEF BuildWamr, Tidy, LspEnds, WalkEnds, Flush, LinkVi, CompileLauncher,
                LinkLauncher, RunEnds, Clean, CompileSkips, CompileStarts, PoolReaps, Goes
  <2>3. ASSUME Begin PROVE begun' = src /\ UNCHANGED <<src, obj, kids, clock>>
    BY <2>3 DEF Begin, fileVars, rvars, worldVars
  <2>4. QED BY <1>2, <2>1, <2>2, <2>3 DEF MainNext
<1>3. CASE Interrupted
  BY <1>3 DEF Interrupted
<1>4. CASE ChildNext
  BY <1>4 DEF ChildNext, ChildSucceeds, ChildFails, buildVars
<1>5. QED BY <1>2, <1>3, <1>4 DEF BNext, NobNext, Edit, bvars, buildVars

LEMMA ControlStep ==
  ASSUME BTypeOK, [BNext]_bvars
  PROVE  /\ step' \in {"none", "wamr", "tidy", "compile", "wait", "flush", "link",
                       "launcher", "run", "clean", "end"}
         /\ unit' \in {"vi", "launcher"} /\ todo' \subseteq Sources
         /\ failed' \subseteq Sources \union {"wamr"}
<1> USE DEF BTypeOK
<1>1. ASSUME NEW v \in {"ok", "fail"}, Return(v)
      PROVE  step' = "none" /\ unit' = "vi" /\ todo' = {} /\ failed' = {}
  BY <1>1 DEF Return
<1>2. CASE MainNext
  <2>1. ASSUME \/ BuildWamrFails \/ TidyFails \/ LspFails \/ BoardFails \/ LinkFails \/ RunFails
               \/ End \/ \E s \in Sources : \E k \in kids : PoolFails(s, k)
        PROVE  step' = "none" /\ unit' = "vi" /\ todo' = {} /\ failed' = {}
    BY <2>1, <1>1 DEF BuildWamrFails, TidyFails, LspFails, BoardFails, LinkFails, RunFails,
                End, PoolFails, ReturnsFrom
  <2>2. ASSUME Tidy \/ CompileLauncher
        PROVE  /\ step' = "compile" /\ failed' = failed
               /\ unit' \in {"vi", "launcher"} /\ todo' \subseteq Sources
    BY <2>2 DEF Tidy, CompileLauncher, Goes, Walk, Sources, SourcesOf
  <2>3. ASSUME \/ Begin \/ BuildWamr \/ LspEnds \/ WalkEnds \/ Flush \/ LinkVi
               \/ LinkLauncher \/ RunEnds \/ Clean
               \/ \E s \in Sources : \/ CompileSkips(s) \/ CompileStarts(s)
                                     \/ \E k \in kids : PoolReaps(s, k)
        PROVE  /\ step' \in {"wamr", "tidy", "compile", "wait", "flush", "link",
                             "launcher", "run", "clean", "end"}
               /\ unit' = unit /\ todo' \subseteq todo /\ failed' = failed
    BY <2>3 DEF Begin, BuildWamr, LspEnds, WalkEnds, Flush, LinkVi, LinkLauncher, RunEnds,
                Clean, CompileSkips, CompileStarts, PoolReaps, Goes
  <2>4. QED BY <1>2, <2>1, <2>2, <2>3 DEF MainNext
<1>3. CASE ChildNext
  <2>1. PICK k \in kids : ChildSucceeds(k) \/ ChildFails(k)
    BY <1>3 DEF ChildNext
  <2>2. k.what \in Sources \union {"wamr"}
    BY DEF Kid
  <2>3. QED BY <2>1, <2>2 DEF ChildSucceeds, ChildFails, buildVars
<1>4. CASE Interrupted
  BY <1>4 DEF Interrupted
<1>5. CASE UNCHANGED buildVars
  BY <1>5 DEF buildVars
<1>6. QED BY <1>2, <1>3, <1>4, <1>5 DEF BNext, NobNext, Edit, bvars

-----------------------------------------------------------------------------
(* An object, or a compilation under way, that has not got the last version*)
(* of its source began no later than that was edited; p stands for either. *)
TracksSource(p, s) ==
  p.began <= clock /\ (p.ver = src[s].ver \/ p.began <= src[s].time)

FilesTrack ==
  /\ \A s \in Sources : src[s].time <= clock
  /\ \A s \in Sources : obj[s] # None => TracksSource(obj[s], s)
  /\ \A k \in kids : k.what \in Sources => TracksSource(k, k.what)

(* The same of the sources as they were when the command began.            *)
Since(p, s) == p.ver >= begun[s].ver \/ p.began <= begun[s].time

BegunTrack ==
  step # "none" =>
    /\ \A s \in Sources : begun[s].ver <= src[s].ver /\ begun[s].time <= src[s].time
    /\ \A s \in Sources : obj[s] # None => Since(obj[s], s)
    /\ \A k \in kids : k.what \in Sources => Since(k, k.what)

(* What the walk has done with the sources it has passed.                  *)
Done(s) == s \in failed \/ (obj[s] # None /\ begun[s].time <= obj[s].time)
Pending(s) == \E k \in Pool : k.what = s /\ k.st = "runs"

WalkTrack ==
  /\ step \in {"compile", "wait", "flush"} =>
       \A s \in SourcesOf(unit) \ todo : Done(s) \/ Pending(s)
  /\ step = "flush" => todo = {}
  /\ step = "link" => \A s \in SourcesOf(unit) : Done(s)

(* Outside the two builds and the library's, nob has no child of its own.  *)
NoneMine ==
  step \in {"none", "wamr", "link", "launcher", "run", "clean", "end"} => \A k \in kids : ~k.mine

BIInv == BTypeOK /\ FilesTrack /\ BegunTrack /\ WalkTrack /\ NoneMine

LEMMA InitBIInv == BInit => BIInv
<1> SUFFICES ASSUME BInit PROVE BIInv
  OBVIOUS
<1>1. RTypeOK /\ clock = 1
  BY InitIInv DEF BInit, IInv, RInit
<1>2. BTypeOK
  BY <1>1, NoObjectAssumption DEF BInit, BTypeOK, Unbegun
<1>3. FilesTrack /\ BegunTrack /\ WalkTrack /\ NoneMine
  BY <1>1 DEF BInit, FilesTrack, BegunTrack, WalkTrack, NoneMine
<1>4. QED BY <1>2, <1>3 DEF BIInv

(* The types of Rebuild are kept by the invariant of Rebuild.              *)
LEMMA BTypeStep ==
  ASSUME IInv, BTypeOK, [BNext]_bvars PROVE BTypeOK'
<1>1. RTypeOK'
  BY StepRefines, StepIInv DEF IInv
<1>2. src' \in [Sources -> [ver : Nat, time : Nat]]
  BY SrcStep DEF BTypeOK
<1>3. begun' \in [Sources -> [ver : Nat, time : Nat]]
  BY BegunStep DEF BTypeOK, Unbegun
<1>4. QED BY <1>1, <1>2, <1>3, ObjStep, KidsStep, ControlStep DEF BTypeOK

LEMMA FilesStep ==
  ASSUME BTypeOK, FilesTrack, [BNext]_bvars PROVE FilesTrack'
<1>1. clock \in Nat /\ clock' \in Nat /\ clock <= clock'
  BY ClockStep DEF BTypeOK, RTypeOK
<1>2. /\ \A s \in Sources : src[s].ver \in Nat /\ src[s].time \in Nat
      /\ \A s \in Sources : src'[s].ver \in Nat /\ src'[s].time \in Nat
      /\ \A s \in Sources : obj[s] # None => obj[s].ver \in Nat /\ obj[s].began \in Nat
      /\ \A k \in kids : k.ver \in Nat /\ k.began \in Nat
  BY SrcStep, NoObjectAssumption DEF BTypeOK, Object, Kid
<1>3. CASE UNCHANGED src
  <2>1. ASSUME NEW s \in Sources, obj'[s] # None PROVE TracksSource(obj[s], s)'
    BY <1>1, <1>2, <1>3, <2>1, ObjStep DEF FilesTrack, TracksSource
  <2>2. ASSUME NEW k \in kids', k.what \in Sources PROVE TracksSource(k, k.what)'
    <3>1. CASE \E j \in kids : SameRun(j, k)
      BY <1>1, <1>2, <1>3, <2>2, <3>1 DEF FilesTrack, TracksSource, SameRun
    <3>2. CASE \E what \in Sources \union {"wamr"} : k = Child(what)
      <4> PICK what \in Sources \union {"wamr"} : k = Child(what)
        BY <3>2
      <4>1. k.began = clock /\ k.ver = src[k.what].ver
        BY <2>2, ChildType
      <4>2. QED BY <1>1, <1>2, <1>3, <2>2, <4>1 DEF TracksSource
    <3>3. QED BY <3>1, <3>2, KidsStep
  <2>3. QED BY <1>1, <1>2, <1>3, <2>1, <2>2 DEF FilesTrack
<1>4. CASE ~UNCHANGED src
  <2>1. UNCHANGED <<obj, kids, clock>>
    BY <1>4, SrcStep
  <2>2. \A s \in Sources : src'[s] = src[s] \/ src'[s].time = clock
    BY <1>4, SrcStep
  <2>3. QED BY <1>1, <1>2, <2>1, <2>2 DEF FilesTrack, TracksSource
<1>5. QED BY <1>3, <1>4

LEMMA BegunTrackStep ==
  ASSUME BTypeOK, FilesTrack, BegunTrack, [BNext]_bvars PROVE BegunTrack'
<1> SUFFICES ASSUME step' # "none" PROVE BegunTrack'
  BY DEF BegunTrack
<1>1. /\ \A s \in Sources : src[s].ver \in Nat /\ src[s].time \in Nat
      /\ \A s \in Sources : src'[s].ver \in Nat /\ src'[s].time \in Nat
      /\ \A s \in Sources : begun[s].ver \in Nat /\ begun[s].time \in Nat
      /\ \A s \in Sources : obj[s] # None => obj[s].ver \in Nat /\ obj[s].began \in Nat
      /\ \A k \in kids : k.ver \in Nat /\ k.began \in Nat
      /\ clock \in Nat
  BY SrcStep, NoObjectAssumption DEF BTypeOK, RTypeOK, Object, Kid
<1>2. CASE begun' = src /\ UNCHANGED <<src, obj, kids, clock>>
  BY <1>1, <1>2 DEF FilesTrack, TracksSource, BegunTrack, Since
<1>3. CASE begun' = begun /\ step # "none"
  <2>1. \A s \in Sources : begun'[s].ver <= src'[s].ver /\ begun'[s].time <= src'[s].time
    BY <1>1, <1>3, SrcStep DEF BegunTrack, FilesTrack
  <2>2. ASSUME NEW s \in Sources, obj'[s] # None PROVE Since(obj[s], s)'
    BY <1>1, <1>3, <2>2, ObjStep DEF BegunTrack, Since
  <2>3. ASSUME NEW k \in kids', k.what \in Sources PROVE Since(k, k.what)'
    <3>1. CASE \E j \in kids : SameRun(j, k)
      BY <1>3, <2>3, <3>1 DEF BegunTrack, Since, SameRun
    <3>2. CASE \E what \in Sources \union {"wamr"} : k = Child(what)
      <4> PICK what \in Sources \union {"wamr"} : k = Child(what)
        BY <3>2
      <4>1. k.ver = src[k.what].ver
        BY <2>3, ChildType
      <4>2. QED BY <1>1, <1>3, <2>3, <4>1 DEF BegunTrack, Since
    <3>3. QED BY <3>1, <3>2, KidsStep
  <2>4. QED BY <2>1, <2>2, <2>3 DEF BegunTrack
<1>4. QED BY <1>2, <1>3, BegunStep

(* What was done with a source stays done while the command goes on.       *)
LEMMA DoneStays ==
  ASSUME BTypeOK, FilesTrack, BegunTrack, step # "none",
         NEW s \in Sources, Done(s), begun' = begun, failed \subseteq failed',
         \/ obj'[s] = obj[s]
         \/ s \in failed'
         \/ obj'[s] # None /\ obj'[s].time = clock
  PROVE  Done(s)'
<1>1. clock \in Nat /\ begun[s].time \in Nat /\ src[s].time \in Nat
  BY DEF BTypeOK, RTypeOK
<1>2. begun[s].time <= clock
  BY <1>1 DEF BegunTrack, FilesTrack
<1>3. QED BY <1>2 DEF Done

LEMMA ChildWalkStep ==
  ASSUME BTypeOK, FilesTrack, BegunTrack, WalkTrack, ChildNext PROVE WalkTrack'
<1>1. UNCHANGED <<step, unit, todo, begun>>
  BY DEF ChildNext, ChildSucceeds, ChildFails, buildVars
<1> SUFFICES ASSUME step \in {"compile", "wait", "flush", "link"} PROVE WalkTrack'
  BY <1>1 DEF WalkTrack
<1>2. PICK k \in kids : (ChildSucceeds(k) \/ ChildFails(k)) /\ k.st = "runs"
  BY DEF ChildNext, ChildSucceeds, ChildFails
<1>3. /\ failed \subseteq failed'
      /\ \A j \in kids : j # k => j \in kids'
      /\ k.what \in Sources => \/ k.what \in failed'
                               \/ obj'[k.what] # None /\ obj'[k.what].time = clock
  <2>1. CASE ChildSucceeds(k)
    <3>1. [ver |-> k.ver, began |-> k.began, time |-> clock] \in Object
      BY DEF BTypeOK, RTypeOK, Kid, Object
    <3>2. QED BY <2>1, <3>1, NoObjectAssumption DEF ChildSucceeds, Reports, BTypeOK, buildVars
  <2>2. CASE ChildFails(k)
    BY <2>2 DEF ChildFails, Reports, BTypeOK
  <2>3. QED BY <1>2, <2>1, <2>2
<1>4. \A s \in Sources : s # k.what => obj'[s] = obj[s]
  BY <1>2 DEF ChildSucceeds, ChildFails, BTypeOK
<1>5. \A s \in SourcesOf(unit) : s \in Sources
  BY DEF SourcesOf, Sources
<1>6. ASSUME NEW s \in Sources, Done(s) PROVE Done(s)'
  BY <1>1, <1>3, <1>4, <1>6, DoneStays
<1>7. ASSUME NEW s \in Sources, Pending(s) PROVE (Done(s) \/ Pending(s))'
  <2>1. CASE s = k.what
    <3>1. begun[s].time \in Nat /\ begun[s].time <= clock
      BY DEF BTypeOK, RTypeOK, BegunTrack, FilesTrack
    <3>2. QED BY <1>1, <1>3, <2>1, <3>1 DEF Done
  <2>2. CASE s # k.what
    BY <1>3, <1>7, <2>2 DEF Pending, Pool
  <2>3. QED BY <2>1, <2>2
<1>8. QED BY <1>1, <1>5, <1>6, <1>7 DEF WalkTrack

(* The walk skips a source only if its object is at least as new, and      *)
(* leaves every other to a child, which the flush waits for.               *)
LEMMA MainWalkStep ==
  ASSUME BTypeOK, FilesTrack, BegunTrack, WalkTrack, MainNext PROVE WalkTrack'
<1>1. CASE \/ BuildWamrFails \/ TidyFails \/ LspFails \/ BoardFails \/ LinkFails \/ RunFails
           \/ End \/ \E s \in Sources : \E k \in kids : PoolFails(s, k)
  <2>1. step' = "none"
    BY <1>1 DEF BuildWamrFails, TidyFails, LspFails, BoardFails, LinkFails, RunFails,
                End, PoolFails, ReturnsFrom, Return
  <2>2. QED BY <2>1 DEF WalkTrack
<1>2. CASE Begin \/ BuildWamr \/ LinkVi \/ LinkLauncher \/ RunEnds \/ Clean
  <2>1. step' \in {"wamr", "tidy", "launcher", "run", "clean", "end"}
    BY <1>2 DEF Begin, BuildWamr, LinkVi, LinkLauncher, RunEnds, Clean, Goes
  <2>2. QED BY <2>1 DEF WalkTrack
<1>3. CASE Tidy \/ CompileLauncher
  BY <1>3 DEF Tidy, CompileLauncher, Goes, Walk, WalkTrack
<1>4. ASSUME NEW s \in Sources, CompileSkips(s) PROVE WalkTrack'
  <2>1. obj[s] # None /\ src[s].time <= obj[s].time
    BY <1>4, NoObjectAssumption DEF CompileSkips, MustCompile, NeedsRebuild, BTypeOK, Object
  <2>2. begun[s].time <= src[s].time
    BY <1>4 DEF CompileSkips, Goes, BegunTrack
  <2>3. Done(s)
    BY <2>1, <2>2, NoObjectAssumption DEF Done, BTypeOK, Object
  <2>4. QED BY <1>4, <2>3 DEF CompileSkips, Goes, WalkTrack, Done, Pending, Pool, fileVars
<1>5. ASSUME NEW s \in Sources, CompileStarts(s) PROVE WalkTrack'
  <2>1. Child(s) \in Pool' /\ Child(s).what = s /\ Child(s).st = "runs" /\ Pool \subseteq Pool'
    BY <1>5, ChildType DEF CompileStarts, Pool
  <2>2. QED BY <1>5, <2>1 DEF CompileStarts, Goes, WalkTrack, Done, Pending
<1>6. CASE LspEnds \/ \E s \in Sources : \E k \in kids : PoolReaps(s, k)
  <2>1. PICK k \in kids : kids' = kids \ {k} /\ k.st = "ok"
    BY <1>6 DEF LspEnds, PoolReaps, Pool
  <2>2. /\ UNCHANGED <<unit, todo, begun, failed, obj>> /\ step' = "compile"
        /\ step \in {"compile", "wait"}
    BY <1>6 DEF LspEnds, PoolReaps, Goes
  <2>3. \A j \in Pool : j.st = "runs" => j \in Pool'
    BY <2>1 DEF Pool
  <2>4. QED BY <2>2, <2>3 DEF WalkTrack, Done, Pending
<1>7. CASE WalkEnds
  BY <1>7 DEF WalkEnds, Goes, WalkTrack, Done, Pending, Pool, fileVars
<1>8. CASE Flush
  BY <1>8 DEF Flush, Goes, WalkTrack, Done, Pending
<1>9. QED BY <1>1, <1>2, <1>3, <1>4, <1>5, <1>6, <1>7, <1>8 DEF MainNext

LEMMA WalkStep ==
  ASSUME BTypeOK, FilesTrack, BegunTrack, WalkTrack, [BNext]_bvars PROVE WalkTrack'
<1>1. CASE Interrupted
  BY <1>1 DEF Interrupted, WalkTrack
<1>2. CASE UNCHANGED <<buildVars, obj, kids>>
  BY <1>2 DEF WalkTrack, Done, Pending, Pool, buildVars
<1>3. QED BY <1>1, <1>2, ChildWalkStep, MainWalkStep
      DEF BNext, NobNext, Edit, bvars, fileVars

LEMMA NoneMineStep == ASSUME BTypeOK, NoneMine, [BNext]_bvars PROVE NoneMine'
<1>1. ASSUME NEW v \in {"ok", "fail"}, Return(v) PROVE NoneMine'
  BY <1>1, LeftKids DEF NoneMine
<1>2. CASE MainNext
  <2>1. ASSUME \/ BuildWamrFails \/ TidyFails \/ LspFails \/ BoardFails \/ LinkFails \/ RunFails
               \/ End \/ \E s \in Sources : \E k \in kids : PoolFails(s, k)
        PROVE  NoneMine'
    BY <2>1, <1>1 DEF BuildWamrFails, TidyFails, LspFails, BoardFails, LinkFails, RunFails,
                      End, PoolFails, ReturnsFrom
  <2>2. ASSUME \/ BuildWamr \/ Tidy \/ CompileLauncher \/ LspEnds \/ WalkEnds
               \/ \E s \in Sources : \/ CompileSkips(s) \/ CompileStarts(s)
                                     \/ \E k \in kids : PoolReaps(s, k)
        PROVE  NoneMine'
    BY <2>2 DEF BuildWamr, Tidy, CompileLauncher, LspEnds, WalkEnds, CompileSkips,
                CompileStarts, PoolReaps, Goes, NoneMine
  <2>3. CASE Flush
    BY <2>3 DEF Flush, Pool, NoneMine
  <2>4. ASSUME Begin \/ LinkVi \/ LinkLauncher \/ RunEnds \/ Clean PROVE NoneMine'
    BY <2>4 DEF Begin, LinkVi, LinkLauncher, RunEnds, Clean, Goes, NoneMine, fileVars
  <2>5. QED BY <1>2, <2>1, <2>2, <2>3, <2>4 DEF MainNext
<1>3. CASE ChildNext
  <2>1. PICK k \in kids, st \in {"ok", "failed"} : Reports(k, st) /\ step' = step
    BY <1>3 DEF ChildNext, ChildSucceeds, ChildFails, buildVars
  <2>2. QED BY <2>1 DEF Reports, NoneMine
<1>4. CASE Interrupted
  BY <1>4 DEF Interrupted, NoneMine
<1>5. CASE UNCHANGED <<buildVars, kids>>
  BY <1>5 DEF NoneMine, buildVars
<1>6. QED BY <1>2, <1>3, <1>4, <1>5 DEF BNext, NobNext, Edit, bvars, fileVars

LEMMA BInvariance == BSpec => []BIInv
<1>1. BSpec => []IInv
  BY Refinement, Invariance DEF ImplementsRebuild
<1>2. IInv /\ BIInv /\ [BNext]_bvars => BIInv'
  BY BTypeStep, FilesStep, BegunTrackStep, WalkStep, NoneMineStep DEF BIInv
<1>3. QED BY <1>1, <1>2, InitBIInv, PTL DEF BSpec

-----------------------------------------------------------------------------
(* Every variable keeps its type, however many sources and children. *)
THEOREM BTypeCorrect == BSpec => []BTypeOK
<1>1. BIInv => BTypeOK
  BY DEF BIInv
<1>2. QED BY <1>1, BInvariance, PTL

(* builder_link_file_to_obj finds of each source an object at least as new *)
(* as the source main began with, or one that the times cannot tell from   *)
(* it, or the compilation failed and procs_flush ignored that: also when   *)
(* children that an earlier command left write their objects meanwhile.    *)
THEOREM LinkIsCurrent == BSpec => []LinksWhatItFound
<1>1. ASSUME BIInv PROVE LinksWhatItFound
  <2> SUFFICES ASSUME step = "link", NEW s \in SourcesOf(unit) PROVE Current(s)
    BY DEF LinksWhatItFound
  <2>1. s \in Sources
    BY DEF Sources, SourcesOf
  <2>2. Done(s)
    BY <1>1 DEF BIInv, WalkTrack
  <2>3. obj[s] # None => Since(obj[s], s)
    BY <1>1, <2>1 DEF BIInv, BegunTrack
  <2>4. QED BY <2>2, <2>3 DEF Current, Hidden, Done, Since
<1>2. QED BY <1>1, BInvariance, PTL

(* main neither links, runs, cleans nor succeeds while a child of its own  *)
(* runs, whatever failed before and whatever an earlier command left.      *)
THEOREM ChildrenAreAwaited == BSpec => []NoneLeftBehind
<1>1. BIInv => NoneLeftBehind
  BY DEF BIInv, NoneMine, NoneLeftBehind
<1>2. QED BY <1>1, BInvariance, PTL
=============================================================================
