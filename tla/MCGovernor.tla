----------------------------- MODULE MCGovernor -----------------------------
(* Small instances of Governor for TLC.                                    *)
EXTENDS Governor, TLC

CONSTANTS p1, p2, a, b, c

ThreeThreads == (a :> p1) @@ (b :> p1) @@ (c :> p2)
Skips == (a :> {FALSE}) @@ (b :> {FALSE}) @@ (c :> {TRUE})
OneThread == (a :> p1)
OneSkips == (a :> {FALSE})

Symmetry == Permutations({a, b})
=============================================================================
