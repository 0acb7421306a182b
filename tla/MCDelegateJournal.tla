------------------------- MODULE MCDelegateJournal -------------------------
(* Small instances of DelegateJournal for TLC.                             *)
EXTENDS DelegateJournal

CONSTANTS r1, c1
=============================================================================
