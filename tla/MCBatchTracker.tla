--------------------------- MODULE MCBatchTracker ---------------------------
(* Small instances of BatchTracker for TLC.                                *)
EXTENDS BatchTracker, TLC

CONSTANTS t1, t2, d1, b1, b2

OneIntent == [t \in Task |-> "classify"]
Answered == {"ok"}
One == {1}
Two == 1 .. 2
Three == 1 .. 3

(* Row 2 is leased once, alone or with row 1, and once more with row 1;    *)
(* row 1 as often as it may be.  A row that was deleted ends the search.   *)
PairTwice ==
  /\ row[2].attempts <= 1 \/ (\A i \in Id : row[i].attempts = 2 /\ row[i].lot = Id)
  /\ \A i \in Id : row[i].state # "gone"

(* Rows 1 and 2 are there before either is leased, and row 3 once a job is *)
(* open: its lease brings a drain to the poll.                             *)
ThirdPolls ==
  /\ row[1].state # "absent" /\ row[2].state = "absent" => row[1].state = "pending"
  /\ row[3].state # "absent" => job[b1] # "none"
  /\ row[1].attempts <= 2 /\ row[2].attempts <= 2 /\ row[3].attempts <= 1
  /\ \A i \in Id : row[i].state \notin {"gone", "retired"}

Interchangeable == Permutations(Batch) \cup Permutations(Task)
=============================================================================
