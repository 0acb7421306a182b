---------------------------- MODULE MCLaneQueue ----------------------------
(* Small instances of LaneQueue for TLC.                                   *)
EXTENDS LaneQueue, TLC

CONSTANTS t1, t2, d1, d2, c1

OneIntent == [t \in Task |-> "classify"]
TwoIntents == [t \in Task |-> IF t = t1 THEN "classify" ELSE "extract"]

Answers == {"ok", "transient", "fatal"}
Realtime == Answers \cup {"saturated"}
WithBatches == Realtime \cup {"batched"}
Two == 1 .. 2

Symmetry == Permutations(Drain)
ContentSymmetry == Permutations(Task)
=============================================================================
