-------------------------- MODULE MCStormCoalescer --------------------------
(* Small instances of StormCoalescer for TLC.                              *)
EXTENDS StormCoalescer, TLC

CONSTANTS r1, r2, r3
=============================================================================
