-------------------------- MODULE MCNewDataWriter --------------------------
(***************************************************************************)
(* NewDataWriter for TLC: a list that starts with a NEW command of two      *)
(* pieces and ends with one of three, so that chunks end inside a command,  *)
(* at its end and beyond it.                                               *)
(***************************************************************************)
EXTENDS NewDataWriter

MCCmds == <<2, 0, 1, 3>>
=============================================================================
