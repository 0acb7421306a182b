----------------------------- MODULE LaneQueue -----------------------------
(***************************************************************************)
(* The durable lane queue (src/src/spendguard/lane_queue.py): a sqlite     *)
(* table of task rows, the operations on it, and the processes that work   *)
(* on it.  Every operation holds the queue's cross-process write lease for *)
(* its whole transaction (_queue_op), so one operation is one action.      *)
(* What interleaves are the operations of different processes, the time a  *)
(* worker spends between leasing a row and settling it, and time itself.   *)
(*                                                                         *)
(* Time.  The code compares stored instants with "now".  The only thing    *)
(* the transitions see is whether an instant has passed, so a row carries  *)
(*   due   the instant that governs its present state (lease_until while   *)
(*         leased, defer_until while pending) has passed;                  *)
(*   lot   the rows claimed by the same lease() as this one, which share   *)
(*         one lease_until;                                                *)
(*   sla   "none", "open" or "late": no deadline_ts, one ahead, one past.  *)
(* TimerElapses and DeadlinePasses make them true at any moment.  The age  *)
(* and retention cutoffs of purge (days) are not recorded: any row may     *)
(* have reached them when purge runs.                                      *)
(***************************************************************************)
EXTENDS Naturals, FiniteSets

CONSTANTS
  Id,            \* row ids the table can hand out (AUTOINCREMENT, never reused)
  Task,          \* distinct contents: intent, task, system, reasoning
  NoTask,        \* SQL NULL in the task and fingerprint columns
  IntentOf,      \* the intent of each content
  Priority,      \* urgency classes: priority, and realtime before batch
  Sla,           \* the deadlines callers ask for: subset of {"none", "open"}
  Dedup,         \* values of the dedup flag of enqueue: subset of BOOLEAN
  Drain,         \* processes that run drain(); more than one only without flock
  Caller,        \* processes in submit(wait=True) or record_open
  LeaseBatch,    \* rows one lease() may claim
  MaxAttempts,   \* queue_max_attempts
  MaxParks,      \* queue_max_parks
  Outcomes       \* how bulk_delegate can answer for one row

Worker == Drain \cup Caller
Content == Task \cup {NoTask}

(* The classes settle() tells apart in a result of bulk_delegate: text     *)
(* without error; a transient failure (RETRYABLE, or no outcome); a        *)
(* deterministic one; reason dispatch_saturated (it never ran); reason     *)
(* queued_batch with its handle, and without it (F7).                      *)
AllOutcomes == {"ok", "transient", "fatal", "saturated", "batched", "unhandled"}

ASSUME IdAssumption == Id \subseteq Nat
ASSUME TaskAssumption == NoTask \notin Task /\ DOMAIN IntentOf = Task
ASSUME ChoiceAssumption == /\ Priority \subseteq Nat
                           /\ Sla \subseteq {"none", "open"}
                           /\ Dedup \subseteq BOOLEAN
                           /\ Outcomes \subseteq AllOutcomes
ASSUME BudgetAssumption == /\ MaxAttempts \in Nat \ {0}
                           /\ MaxParks \in Nat
                           /\ LeaseBatch \in Nat \ {0}

Settled == {"done", "failed", "retired"}     \* TERMINAL_STATES
Live == {"pending", "leased", "queued_batch"}
RowState == {"absent", "gone"} \cup Live \cup Settled

VARIABLES
  row,      \* the table
  hand,     \* hand[w][i]: "none", "todo" (leased, not run), or its result
  ran,      \* ran[i]: times a lane executed the task of row i (ghost)
  served,   \* contents some execution has answered (ghost)
  billed    \* rows that settle() was told a Batch API job holds (ghost)

queueVars == <<row, hand, ran, served, billed>>

Row == [ state : RowState,
         task : Content,          \* NULL once retired
         fp : Content,            \* the fingerprint: the content it hashes
         prio : Priority \cup {0},
         sla : {"none", "open", "late"},
         due : BOOLEAN,
         lot : SUBSET Id,
         attempts : Nat,
         parks : Nat,
         asked : Content,         \* ghost: what was enqueued, never erased
         unique : BOOLEAN ]       \* ghost: inserted by a deduplicating enqueue

Hold == {"none", "todo"} \cup AllOutcomes
Empty == [i \in Id |-> "none"]

Absent == [ state |-> "absent", task |-> NoTask, fp |-> NoTask, prio |-> 0,
            sla |-> "none", due |-> FALSE, lot |-> {}, attempts |-> 0, parks |-> 0,
            asked |-> NoTask, unique |-> FALSE ]

Init ==
  /\ row = [i \in Id |-> Absent]
  /\ hand = [w \in Worker |-> Empty]
  /\ ran = [i \in Id |-> 0]
  /\ served = {}
  /\ billed = {}

-----------------------------------------------------------------------------
(* Accepting work.                                                         *)

IsFresh(i) == row[i].state = "absent" /\ \A j \in Id : row[j].state = "absent" => i <= j

(* Mutant: only finished work is coalesced onto, not work in flight.       *)
HitsDoneOnly(t) == {i \in Id : row[i].fp = t /\ row[i].state = "done"}

(* The rows the lookup of enqueue_many can coalesce onto, and its ORDER BY. *)
Hits(t) == {i \in Id : row[i].fp = t /\ row[i].state \notin {"absent", "gone", "failed"}}

Preferred(t, i) ==
  /\ i \in Hits(t)
  /\ \A j \in Hits(t) : \/ row[i].state = "done" /\ row[j].state # "done"
                        \/ (row[i].state = "done" <=> row[j].state = "done") /\ i <= j

Coalesce(t, i) ==
  /\ Preferred(t, i)
  /\ UNCHANGED queueVars

Queued(t, p, sla, dedup) ==
  [ state |-> "pending", task |-> t, fp |-> t, prio |-> p, sla |-> sla, due |-> TRUE,
    lot |-> {}, attempts |-> 0, parks |-> 0, asked |-> t, unique |-> dedup ]

Insert(t, i, p, sla, dedup) ==
  /\ dedup => Hits(t) = {}
  /\ IsFresh(i)
  /\ row' = [row EXCEPT ![i] = Queued(t, p, sla, dedup)]
  /\ UNCHANGED <<hand, ran, served, billed>>

(* enqueue / enqueue_many, one task of the call; submit(wait=False).       *)
Enqueue(t, p, sla, dedup) ==
  \E i \in Id : (dedup /\ Coalesce(t, i)) \/ Insert(t, i, p, sla, dedup)

HeldBy(t, p, sla, i) ==
  [ state |-> "leased", task |-> t, fp |-> NoTask, prio |-> p, sla |-> sla, due |-> FALSE,
    lot |-> {i}, attempts |-> 1, parks |-> 0, asked |-> t, unique |-> FALSE ]

(* _enqueue_leased, for submit(wait=True) and record_open: the row is born *)
(* leased to its caller, with one attempt counted and no fingerprint.      *)
SubmitInline(c, t, p, sla) ==
  /\ hand[c] = Empty
  /\ \E i \in Id :
       /\ IsFresh(i)
       /\ row' = [row EXCEPT ![i] = HeldBy(t, p, sla, i)]
       /\ hand' = [hand EXCEPT ![c][i] = "todo"]
  /\ UNCHANGED <<ran, served, billed>>

-----------------------------------------------------------------------------
(* Claiming work.                                                          *)

Fail(r) == [r EXCEPT !.state = "failed", !.due = FALSE]

(* Mutants: the budget test is off by one; a dead holder keeps its row.    *)
ReclaimedOnceMore(r) ==
  IF r.state = "leased" /\ r.due
  THEN IF r.attempts > MaxAttempts THEN Fail(r) ELSE [r EXCEPT !.state = "pending"]
  ELSE r
NeverReclaimed(r) == r

(* reclaim_expired_leases on one row.  A reclaimed row keeps its old       *)
(* defer_until, which had passed when it was leased: it is due at once.    *)
Reclaimed(r) ==
  IF r.state = "leased" /\ r.due
  THEN IF r.attempts >= MaxAttempts THEN Fail(r) ELSE [r EXCEPT !.state = "pending"]
  ELSE r

(* lease() first fails every row past its deadline, then reclaims.         *)
Swept(r) ==
  IF r.state \in {"leased", "pending"} /\ r.sla = "late" THEN Fail(r) ELSE Reclaimed(r)

Ready(i) == Swept(row[i]).state = "pending" /\ Swept(row[i]).due

(* The scheduler's order, as far as it is recorded.  prio stands for       *)
(* (priority, realtime first); rows with a deadline precede rows without,  *)
(* among which the oldest is first.  Of two rows with a deadline either    *)
(* may have the tighter one.                                               *)
Before(i, j) ==
  \/ row[i].prio > row[j].prio
  \/ /\ row[i].prio = row[j].prio /\ row[j].sla = "none"
     /\ row[i].sla # "none" \/ i < j

(* The candidates: the LeaseBatch most urgent ready rows of the intent of  *)
(* the most urgent ready row.                                              *)
Candidates(C) ==
  /\ C \subseteq {i \in Id : Ready(i)}
  /\ \E top \in C :
       /\ \A j \in Id : Ready(j) => ~Before(j, top)
       /\ \A i \in C : IntentOf[row[i].task] = IntentOf[row[top].task]
       /\ \A j \in Id \ C :
            Ready(j) /\ IntentOf[row[j].task] = IntentOf[row[top].task]
              => Cardinality(C) = LeaseBatch /\ \A i \in C : ~Before(j, i)
  /\ Cardinality(C) <= LeaseBatch

(* L claims the first row of each fingerprint in C; rows without one are   *)
(* distinct.                                                               *)
OneOfEach(C, L) ==
  /\ \A i \in C : IF row[i].fp = NoTask THEN i \in L
                                         ELSE \E j \in L : row[j].fp = row[i].fp
  /\ \A i \in L, j \in C : i # j /\ row[i].fp = row[j].fp /\ row[i].fp # NoTask
                              => j \notin L /\ ~Before(j, i)

Claimed(r, lot) == [r EXCEPT !.state = "leased", !.due = FALSE, !.lot = lot, !.attempts = @ + 1]

(* lease(), by a drain that has settled what it had.                       *)
Lease(d) ==
  /\ hand[d] = Empty
  /\ \E C \in SUBSET Id : \E L \in SUBSET C :
       /\ \/ Candidates(C) /\ OneOfEach(C, L)
          \/ C = {} /\ \A i \in Id : ~Ready(i)
       /\ row' = [i \in Id |-> IF i \in L THEN Claimed(Swept(row[i]), L) ELSE Swept(row[i])]
       /\ hand' = [hand EXCEPT ![d] = [i \in Id |-> IF i \in L THEN "todo" ELSE "none"]]
  /\ UNCHANGED <<ran, served, billed>>

(* reclaim_expired_leases on its own, from manage_queue_tick.              *)
Reclaim ==
  /\ row' = [i \in Id |-> Reclaimed(row[i])]
  /\ UNCHANGED <<hand, ran, served, billed>>

-----------------------------------------------------------------------------
(* Running and settling.                                                   *)

(* One bulk_delegate call over a group of the rows in hand.  Its results   *)
(* are settled before the next group runs.                                 *)
Execute(w, S, out) ==
  /\ S # {} /\ S \subseteq {i \in Id : hand[w][i] = "todo"}
  /\ \A i \in Id : hand[w][i] \in {"none", "todo"}
  /\ hand' = [hand EXCEPT ![w] = [i \in Id |-> IF i \in S THEN out[i] ELSE hand[w][i]]]
  /\ ran' = [i \in Id |-> IF i \in S /\ out[i] # "saturated" THEN ran[i] + 1 ELSE ran[i]]
  /\ served' = served \cup {row[i].asked : i \in {j \in S : out[j] = "ok"}}
  /\ UNCHANGED <<row, billed>>

(* Mutants: a park takes back two attempts, or all of them.                *)
RefundTwo(r) == r.attempts - 2
RefundAll(r) == 0

Refund(r) == IF r.attempts = 0 THEN 0 ELSE r.attempts - 1

Parked(r) == [r EXCEPT !.state = "pending", !.due = FALSE,
                       !.attempts = Refund(r), !.parks = @ + 1]

(* What settle() writes for each class of outcome.  A park that would end  *)
(* after the deadline fails the row: that is certain once the deadline has *)
(* passed and impossible without one.                                      *)
SettledAs(r, o) ==
  CASE o = "ok"        -> {[r EXCEPT !.state = "done", !.due = FALSE]}
    [] o = "fatal"     -> {Fail(r)}
    [] o = "transient" -> {IF r.attempts < MaxAttempts
                           THEN [r EXCEPT !.state = "pending", !.due = FALSE] ELSE Fail(r)}
    [] o = "batched"   -> {[r EXCEPT !.state = "queued_batch", !.due = FALSE]}
    [] o = "unhandled" -> {Parked(r)}
    [] o = "saturated" -> (IF r.parks < MaxParks /\ r.sla # "late" THEN {Parked(r)} ELSE {})
                          \cup
                          (IF r.parks >= MaxParks \/ r.sla # "none" THEN {Fail(r)} ELSE {})

(* Mutant: a result is stored for its own row only.                        *)
NotCoalesced(r, f) == r

(* The content-addressed coalesce: once a row with fingerprint f is done,  *)
(* every pending row with that fingerprint is settled from its result.     *)
Coalesced(r, f) ==
  IF f # NoTask /\ r.fp = f /\ r.state = "pending"
  THEN [r EXCEPT !.state = "done", !.due = FALSE] ELSE r

(* Mutant: settle() without its state guard (F2).                          *)
SettleAnyState(i, o) ==
  \E r \in SettledAs(row[i], o) : row' = [row EXCEPT ![i] = r]

(* settle(): only a row still leased or queued_batch is written.           *)
SettleRow(i, o) ==
  IF row[i].state \notin {"leased", "queued_batch"}
  THEN UNCHANGED row
  ELSE \E r \in SettledAs(row[i], o) :
         row' = [j \in Id |-> IF j = i THEN r
                              ELSE IF o = "ok" THEN Coalesced(row[j], row[i].fp)
                              ELSE row[j]]

Settle(w, i) ==
  /\ hand[w][i] \in AllOutcomes
  /\ SettleRow(i, hand[w][i])
  /\ hand' = [hand EXCEPT ![w][i] = "none"]
  /\ billed' = IF /\ hand[w][i] \in {"batched", "unhandled"}
                  /\ row[i].state \in {"leased", "queued_batch"}
               THEN billed \cup {i} ELSE billed
  /\ UNCHANGED <<ran, served>>

(* A transient database error in settle(): the result is dropped and the   *)
(* row stays leased until its lease runs out.                              *)
SettleLost(w, i) ==
  /\ hand[w][i] \in AllOutcomes
  /\ hand' = [hand EXCEPT ![w][i] = "none"]
  /\ UNCHANGED <<row, ran, served, billed>>

(* The process dies; the next one starts with nothing in hand.             *)
Crash(w) ==
  /\ hand[w] # Empty
  /\ hand' = [hand EXCEPT ![w] = Empty]
  /\ UNCHANGED <<row, ran, served, billed>>

-----------------------------------------------------------------------------
(* Maintenance.                                                            *)

(* dedup_pending_against_done, from every drain and manage tick, is two    *)
(* transactions.  The first gives every row without a fingerprint the one  *)
(* of its own task column.  (A retired row's is then that of no text; no    *)
(* content has it, so it is left NULL here.)                               *)
Backfilled(r) == IF r.fp = NoTask THEN [r EXCEPT !.fp = r.task] ELSE r

Backfill ==
  /\ row' = [i \in Id |-> Backfilled(row[i])]
  /\ UNCHANGED <<hand, ran, served, billed>>

(* Mutant: any finished row will do.                                       *)
HasDoneOther(f) == \E i \in Id : row[i].state = "done"

HasDone(f) == f # NoTask /\ \E i \in Id : row[i].state = "done" /\ row[i].fp = f

(* The second settles every pending row whose fingerprint is already done. *)
DedupPending ==
  /\ row' = [i \in Id |-> IF row[i].state = "pending" /\ HasDone(row[i].fp)
                          THEN [row[i] EXCEPT !.state = "done", !.due = FALSE]
                          ELSE row[i]]
  /\ UNCHANGED <<hand, ran, served, billed>>

(* One chunk of each pass of purge.  The archive file is written and       *)
(* fsynced inside the transaction, so a chunk that does not commit leaves  *)
(* at most a second archive copy, and the table as it was.                 *)
Retire(S) ==
  /\ S # {}
  /\ \A i \in S : row[i].state = "pending" \/ (row[i].state = "leased" /\ row[i].due)
  /\ row' = [i \in Id |-> IF i \in S THEN [row[i] EXCEPT !.state = "retired",
                                             !.task = NoTask, !.due = FALSE]
                                     ELSE row[i]]
  /\ UNCHANGED <<hand, ran, served, billed>>

Delete(S) ==
  /\ S # {} /\ \A i \in S : row[i].state \in Settled
  /\ row' = [i \in Id |-> IF i \in S THEN [Absent EXCEPT !.state = "gone",
                                             !.asked = row[i].asked]
                                     ELSE row[i]]
  /\ UNCHANGED <<hand, ran, served, billed>>

-----------------------------------------------------------------------------
(* Time.                                                                   *)

SameTimer(i, j) ==
  j = i \/ (row[i].state = "leased" /\ row[j].state = "leased" /\ row[j].lot = row[i].lot)

TimerElapses(i) ==
  /\ row[i].state \in {"leased", "pending"} /\ ~row[i].due
  /\ row' = [j \in Id |-> IF SameTimer(i, j) THEN [row[j] EXCEPT !.due = TRUE] ELSE row[j]]
  /\ UNCHANGED <<hand, ran, served, billed>>

DeadlinePasses(i) ==
  /\ row[i].state \in Live /\ row[i].sla = "open"
  /\ row' = [row EXCEPT ![i].sla = "late"]
  /\ UNCHANGED <<hand, ran, served, billed>>

-----------------------------------------------------------------------------
Accept == \/ \E t \in Task, p \in Priority, s \in Sla, dedup \in Dedup : Enqueue(t, p, s, dedup)
          \/ \E c \in Caller, t \in Task, p \in Priority, s \in Sla : SubmitInline(c, t, p, s)

Run(w) == \E S \in SUBSET Id : \E out \in [S -> Outcomes] : Execute(w, S, out)

Work == \/ \E d \in Drain : Lease(d)
        \/ \E w \in Worker : Run(w)
        \/ \E w \in Worker, i \in Id : Settle(w, i) \/ SettleLost(w, i)
        \/ \E w \in Worker : Crash(w)
        \/ Reclaim \/ Backfill \/ DedupPending

Purge == \E S \in SUBSET Id : Retire(S) \/ Delete(S)

Time == \E i \in Id : TimerElapses(i) \/ DeadlinePasses(i)

Next == Accept \/ Work \/ Purge \/ Time

Spec == Init /\ [][Next]_queueVars

(* What the scheduling justifies: drain() loops over lease() until it is   *)
(* stopped, and launchd restarts it; bulk_delegate runs under a deadline,  *)
(* so a group of rows in hand gets its results and they are settled; time  *)
(* passes.  Nothing is assumed of callers, of purge, or of crashes: these  *)
(* may happen again and again.                                             *)
Fairness ==
  /\ \A d \in Drain : /\ WF_queueVars(Lease(d))
                      /\ WF_queueVars(Run(d))
                      /\ WF_queueVars(\E i \in Id : Settle(d, i) \/ SettleLost(d, i))
  /\ \A i \in Id : WF_queueVars(TimerElapses(i))

FairSpec == Spec /\ Fairness

-----------------------------------------------------------------------------
(* The promise to callers, which also batch offload keeps.                 *)

StatusOf(state) == IF state = "absent" THEN "none" ELSE IF state \in Live THEN "open" ELSE state

Promise == INSTANCE WorkQueue WITH
  asked <- [i \in Id |-> row[i].asked],
  status <- [i \in Id |-> StatusOf(row[i].state)],
  sole <- {i \in Id : row[i].unique},
  answered <- served

(* Whatever the workers, sweeps and batches do, callers see a queue that   *)
(* keeps each content it accepted, ends it once, and calls it done only    *)
(* when it was answered.                                                   *)
KeepsItsWord == Promise!Spec

-----------------------------------------------------------------------------
(* Properties.                                                             *)

(* Every column keeps its domain.                                          *)
TypeOK ==
  /\ row \in [Id -> Row]
  /\ hand \in [Worker -> [Id -> Hold]]
  /\ ran \in [Id -> Nat]
  /\ served \subseteq Task
  /\ billed \subseteq Id

(* The retry budget of the ladder lease -> settle -> pending (:40-47 "an   *)
(* exhausted task is marked failed, never retried forever"): a row waits   *)
(* with an attempt left, and runs within its budget, whatever mix of late  *)
(* settles, reclaims and refunded parks it went through.                   *)
RetryBudget ==
  \A i \in Id : /\ row[i].state = "pending" => row[i].attempts < MaxAttempts
                /\ row[i].state = "leased" => row[i].attempts \in 1 .. MaxAttempts

(* A lane executes the task of one row at most max_attempts times, even    *)
(* when workers that lost their lease still run it and their parks refund  *)
(* attempts that the next holder has spent.                                *)
ExecutionBudget == \A i \in Id : ran[i] <= MaxAttempts

(* Content-addressed dedup (enqueue_many: "the queue NEVER re-buys work it *)
(* already has"): among rows that deduplicating callers inserted, at most  *)
(* one per content is not failed.                                          *)
OneRowPerContent ==
  \A i, j \in Id :
    /\ row[i].unique /\ row[i].state \in Live \cup {"done", "retired"}
    /\ row[j].unique /\ row[j].state \in Live \cup {"done", "retired"}
    /\ row[i].asked = row[j].asked
    => i = j

(* No plausible success: a row is done only if some execution answered     *)
(* this very content, directly or through the coalescing of its twins.     *)
DoneWasServed == \A i \in Id : row[i].state = "done" => row[i].asked \in served

(* F2: once a row is settled no late worker, sweep or twin moves it again; *)
(* it can only be deleted after retention.                                 *)
SettledStays ==
  [][\A i \in Id : row[i].state \in Settled => row'[i].state \in {row[i].state, "gone"}]_queueVars

(* A twin waiting behind a leased row of its content is never bought again *)
(* once that row is done: it is settled in the same transaction.           *)
NoTwinLeftWaiting ==
  [][\A i \in Id : row[i].state # "done" /\ row'[i].state = "done" /\ row[i].fp # NoTask
        => \A j \in Id : row'[j].state = "pending" => row'[j].fp # row[i].fp]_queueVars

(* F7: once settle() was told that a batch was submitted, and billed, for  *)
(* a row, the row is not handed out for a realtime run, with or without    *)
(* the batch handle.                                                       *)
BilledNotLeasedAgain ==
  [][\A i \in billed : row[i].state # "leased" => row'[i].state # "leased"]_queueVars

(* Accepted work does not wait forever: a row that was enqueued, or was    *)
(* being worked on by a process that died, ends done, failed or retired.   *)
EveryRowSettles ==
  \A i \in Id : row[i].state \in {"pending", "leased"} ~> row[i].state \in Settled \cup {"gone"}

(* submit(wait=False) answers accepted / will_process from the ids that    *)
(* enqueue_many returns: no content is answered with a retired row, whose  *)
(* task is erased and which no drain leases.                               *)
AcceptedIsProcessable ==
  \A t \in Task, i \in Id : Preferred(t, i) => row[i].state # "retired"
=============================================================================
