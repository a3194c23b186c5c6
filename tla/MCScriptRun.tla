---------------------------- MODULE MCScriptRun ----------------------------
(***************************************************************************)
(* Four priorities, as in ScriptManager: a script alone, three scripts for *)
(* two threads, none, and a script alone.                                  *)
(***************************************************************************)
EXTENDS ScriptRun

MCScripts == << <<"a">>, <<"b", "c", "d">>, <<>>, <<"e">> >>
=============================================================================
