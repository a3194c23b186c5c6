---------------------------- MODULE MCRingBuffer ----------------------------
(***************************************************************************)
(* RingBuffer for TLC: the parameters are given in the cfg files.          *)
(***************************************************************************)
EXTENDS RingBuffer
=============================================================================
