----------------------------- MODULE MCBytePath -----------------------------
(* Instances of BytePath for TLC.                                          *)
EXTENDS BytePath
=============================================================================
