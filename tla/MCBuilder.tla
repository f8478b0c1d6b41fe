------------------------------- MODULE MCBuilder -------------------------------
(* A build and run with a word nob does not know, a build for the language *)
(* server followed by a removal of everything, and the help.               *)
EXTENDS Builder

MCArgvs == {<<"run", "fast">>, <<"lsp", "clean_all">>, <<"help">>}
=============================================================================
