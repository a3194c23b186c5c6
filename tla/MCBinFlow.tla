----------------------------- MODULE MCBinFlow -----------------------------
(***************************************************************************)
(* BinFlow for TLC: a header of one byte and two components of three, in    *)
(* four buffers of two bytes through a ring of two, so that every component *)
(* starts inside a buffer, and a producer nobody reads from must wait.      *)
(***************************************************************************)
EXTENDS BinFlow

MCSizes == <<1, 3, 3>>
=============================================================================
