---------------------------------- MODULE Cli ----------------------------------
(***************************************************************************)
(* The command line of nob (cli.h, and c_cli_parse of c_cli.h which it     *)
(* calls).  The long and the short form of a flag are one word.  CliArgs,  *)
(* a structure of Booleans, is the set of the fields that are true.        *)
(***************************************************************************)
EXTENDS Naturals, Sequences, SequencesExt

CliArgs == {"verbose", "help", "build", "lsp", "clean", "clean_all", "run"}

(* The flags of nob, and those c_cli adds to every program.                *)
UserFlags == {"build", "run", "lsp", "clean", "clean_all"}
BaseFlags == {"verbose", "help"}

(* What the parser of a flag sets.                                         *)
UserSets(flag) == CASE flag = "lsp" -> {"build", "lsp"}
                    [] flag = "clean_all" -> {"clean", "clean_all"}
                    [] OTHER -> {flag}
BaseSets(flag) == {flag}

Default == {"build"}

(* The table of flags: every entry that has the word is applied.           *)
CheckInput(flags, sets, word, st) ==
  IF word \in flags THEN [args |-> st.args \union sets, found |-> TRUE] ELSE st

(* One word: the flags of the program are looked up first; a word that is  *)
(* neither is reported on stderr and skipped.                              *)
ParseWord(st, word) ==
  IF word \in UserFlags THEN CheckInput(UserFlags, UserSets(word), word, st)
                        ELSE CheckInput(BaseFlags, BaseSets(word), word, st)

(* The loop over the words: what is set after each of them.                *)
Parsed(argv) ==
  LET after[n \in 0 .. Len(argv)] ==
        IF n = 0 THEN [args |-> {}, found |-> FALSE]
                 ELSE ParseWord(after[n - 1], argv[n])
  IN  after

(* c_cli_parse.  -v alone counts as something found, so that the default   *)
(* is not applied to it; -h makes the parse fail after printing the help.  *)
Parse(argv) ==
  LET end == Parsed(argv)[Len(argv)]
  IN  [ok   |-> "help" \notin end.args,
       args |-> IF end.found THEN end.args ELSE Default]
=============================================================================
