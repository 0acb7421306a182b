---------------------------- MODULE BatchTracker ----------------------------
(***************************************************************************)
(* Batch offload (src/src/spendguard/batch_tracker.py) composed with the   *)
(* queue: the drain round of lane_queue._drain_locked with the planner's   *)
(* autobatch on, the job table, and the provider's Batch API (external).   *)
(*                                                                         *)
(* One drain round is  lease -> poll (throttled) -> offload or realtime.   *)
(* submit_offload is reconcile -> adopt or submit -> mark each row ->      *)
(* register the job; queue, job table and provider are three stores, so    *)
(* every step is an action of its own and the process can die between any  *)
(* two.  poll is collect -> for each job settle it or fail it over.        *)
(*                                                                         *)
(* The model is the OpenAI path, where a batch carries the offload key in  *)
(* its metadata; the key is a hash of the sorted row ids, intent, model    *)
(* and provider, and is represented by the set of row ids.                 *)
(***************************************************************************)
EXTENDS LaneQueue

CONSTANTS
  Batch,          \* batch ids the provider can hand out
  NoBatch,        \* no batch_handle
  PlannerSteady   \* should_offload never turns rows down: no round is kept
                  \* realtime by the planner, only by submit_offload

ASSUME BatchAssumption == NoBatch \notin Batch /\ PlannerSteady \in BOOLEAN

VARIABLES
  handle,    \* handle[i]: the batch_handle column of row i
  provider,  \* provider[b]: the batch as the provider holds it
  job,       \* job[b]: the status of b in batch_jobs; its task_ids are the
             \* rows of the batch
  round      \* round[d]: where drain d is in its round

trackerVars == <<handle, provider, job, round>>
vars == <<queueVars, trackerVars>>

BatchState == {"unused", "running", "ended", "dead"}     \* dead: _TERMINAL_BAD
JobStatus == {"none", "open", "failing", "settled", "failed"}
Step == {"idle", "leased", "collect", "settling", "jobs", "requeue",
         "decide", "reconcile", "submit", "mark", "register", "realtime"}

Idle == [at |-> "idle", batch |-> NoBatch, rows |-> {}, left |-> {}]
At(d, step) == round[d].at = step
Goto(d, step) == round' = [round EXCEPT ![d] =
                             [at |-> step, batch |-> NoBatch, rows |-> {}, left |-> {}]]

TrackerInit ==
  /\ Init
  /\ handle = [i \in Id |-> NoBatch]
  /\ provider = [b \in Batch |-> [state |-> "unused", rows |-> {}, good |-> {}, wrong |-> {}]]
  /\ job = [b \in Batch |-> "none"]
  /\ round = [d \in Drain |-> Idle]

Held(d) == {i \in Id : hand[d][i] # "none"}

(* Every write that takes a row out of queued_batch clears its handle.     *)
HandlesFollow == handle' = [i \in Id |-> IF row'[i].state = "queued_batch" THEN handle[i]
                                                                          ELSE NoBatch]

-----------------------------------------------------------------------------
(* The provider (external): a batch runs, and ends with an answer or an    *)
(* error for each of its rows; or it expires, fails or is cancelled, with  *)
(* the answers it had so far.                                              *)

EndBatch(b, good) ==
  /\ provider[b].state = "running" /\ good \subseteq provider[b].rows
  /\ provider' = [provider EXCEPT ![b].state = "ended", ![b].good = good,
                                  ![b].wrong = provider[b].rows \ good]
  /\ UNCHANGED <<queueVars, handle, job, round>>

KillBatch(b, good) ==
  /\ provider[b].state = "running" /\ good \subseteq provider[b].rows
  /\ provider' = [provider EXCEPT ![b].state = "dead", ![b].good = good]
  /\ UNCHANGED <<queueVars, handle, job, round>>

(* collect_chat_tasks: not_ready without an output file.                   *)
Collectable(b) == \/ provider[b].state = "ended"
                  \/ provider[b].state = "dead" /\ provider[b].good # {}

-----------------------------------------------------------------------------
(* The drain round.                                                        *)

DrainLease(d) ==
  /\ At(d, "idle") /\ Lease(d) /\ HandlesFollow
  /\ round' = [round EXCEPT ![d].at = IF hand'[d] = Empty THEN "idle" ELSE "leased"]
  /\ UNCHANGED <<provider, job>>

(* The planner keeps the round realtime.                                   *)
DecideRealtime(d) ==
  /\ round[d].at \in {"leased", "decide"} /\ ~PlannerSteady
  /\ Goto(d, "realtime")
  /\ UNCHANGED <<queueVars, handle, provider, job>>

RunRealtime(d) ==
  /\ At(d, "realtime") /\ Run(d)
  /\ UNCHANGED trackerVars

SettleRealtime(d, i) ==
  /\ At(d, "realtime") /\ (Settle(d, i) \/ SettleLost(d, i)) /\ HandlesFollow
  /\ round' = [round EXCEPT ![d].at = IF hand'[d] = Empty THEN "idle" ELSE "realtime"]
  /\ UNCHANGED <<provider, job>>

DrainCrash(d) ==
  /\ ~At(d, "idle") /\ Crash(d)
  /\ Goto(d, "idle")
  /\ UNCHANGED <<handle, provider, job>>

-----------------------------------------------------------------------------
(* submit_offload.                                                         *)

OffloadStart(d) ==
  /\ round[d].at \in {"leased", "decide"}
  /\ round' = [round EXCEPT ![d] = [at |-> "reconcile", batch |-> NoBatch,
                                    rows |-> Held(d), left |-> {}]]
  /\ UNCHANGED <<queueVars, handle, provider, job>>

(* Mutant: a batch that has ended is not looked for.                       *)
AdoptableRunning(key) == {b \in Batch : provider[b].state = "running" /\ provider[b].rows = key}

(* _existing_offload_batch: a batch of the same key that is not dead.      *)
Adoptable(key) == {b \in Batch : provider[b].state \in {"running", "ended"}
                                 /\ provider[b].rows = key}

Reconcile(d) ==
  /\ At(d, "reconcile")
  /\ \/ \E b \in Adoptable(round[d].rows) :
          round' = [round EXCEPT ![d].at = "mark", ![d].batch = b, ![d].left = round[d].rows]
     \/ Adoptable(round[d].rows) = {} /\ round' = [round EXCEPT ![d].at = "submit"]
     \/ Goto(d, "realtime")      \* the list failed: {"error": "reconcile: ..."}
  /\ UNCHANGED <<queueVars, handle, provider, job>>

Create(b, rows) ==
  /\ provider[b].state = "unused"
  /\ provider' = [provider EXCEPT ![b].state = "running", ![b].rows = rows]

(* submit_chat_tasks: refused before it pays; accepted; or accepted with   *)
(* the response lost, which reads as an error.                             *)
Submit(d) ==
  /\ At(d, "submit")
  /\ \/ UNCHANGED provider /\ Goto(d, "realtime")
     \/ \E b \in Batch :
          /\ Create(b, round[d].rows)
          /\ \/ round' = [round EXCEPT ![d].at = "mark", ![d].batch = b,
                                       ![d].left = round[d].rows]
             \/ Goto(d, "realtime")
  /\ UNCHANGED <<queueVars, handle, job>>

(* Mutant: mark_batched without its state guard.                           *)
MarkAnyState(d, i) ==
  /\ At(d, "mark") /\ i \in round[d].left
  /\ row' = [row EXCEPT ![i].state = "queued_batch", ![i].due = FALSE]
  /\ handle' = [handle EXCEPT ![i] = round[d].batch]
  /\ round' = [round EXCEPT ![d].left = @ \ {i}]
  /\ UNCHANGED <<hand, ran, served, billed, provider, job>>

(* mark_batched, one row: committed on its own, and only if the row is     *)
(* still leased or queued_batch.                                           *)
Mark(d, i) ==
  /\ At(d, "mark") /\ i \in round[d].left
  /\ IF row[i].state \in {"leased", "queued_batch"}
     THEN /\ row' = [row EXCEPT ![i].state = "queued_batch", ![i].due = FALSE]
          /\ handle' = [handle EXCEPT ![i] = round[d].batch]
     ELSE UNCHANGED <<row, handle>>
  /\ round' = [round EXCEPT ![d].left = @ \ {i}]
  /\ UNCHANGED <<hand, ran, served, billed, provider, job>>

(* All rows marked, or a database error ended the loop: either way the    *)
(* caller registers the job.                                               *)
MarkDone(d) ==
  /\ At(d, "mark")
  /\ round' = [round EXCEPT ![d].at = "register"]
  /\ UNCHANGED <<queueVars, handle, provider, job>>

(* register_batch (INSERT OR IGNORE), which a database error may lose; the *)
(* round then drops its rows without running them.                         *)
Register(d) ==
  /\ At(d, "register")
  /\ \/ job' = IF job[round[d].batch] = "none"
               THEN [job EXCEPT ![round[d].batch] = "open"]
               ELSE job
     \/ UNCHANGED job
  /\ hand' = [hand EXCEPT ![d] = Empty]
  /\ Goto(d, "idle")
  /\ UNCHANGED <<row, ran, served, billed, handle, provider>>

-----------------------------------------------------------------------------
(* poll: only reached after a lease that returned rows.                    *)

Remaining(b) == {i \in Id : row[i].state = "queued_batch" /\ handle[i] = b}

PollStart(d) ==
  /\ At(d, "leased")
  /\ Goto(d, "collect")
  /\ UNCHANGED <<queueVars, handle, provider, job>>

(* collect_batched: the rows of one handle and its answers.                *)
Collect(d, b) ==
  /\ At(d, "collect") /\ Collectable(b)
  /\ Remaining(b) \cap (provider[b].good \cup provider[b].wrong) # {}
  /\ round' = [round EXCEPT ![d] =
        [at |-> "settling", batch |-> b, rows |-> {},
         left |-> Remaining(b) \cap (provider[b].good \cup provider[b].wrong)]]
  /\ UNCHANGED <<queueVars, handle, provider, job>>

(* Mutant: a line of the batch with an error is settled as an answer.      *)
CollectAnyLine(d, i) ==
  /\ At(d, "settling") /\ i \in round[d].left
  /\ SettleRow(i, "ok")
  /\ served' = IF i \in provider[round[d].batch].good THEN served \cup {row[i].asked} ELSE served
  /\ round' = [round EXCEPT ![d].left = @ \ {i},
                            ![d].at = IF round[d].left = {i} THEN "collect" ELSE @]
  /\ HandlesFollow
  /\ UNCHANGED <<hand, ran, billed, provider, job>>

(* An answer settles the row done; an error takes it to the retry ladder,  *)
(* as transient since it has no outcome.  A database error leaves the row. *)
CollectSettle(d, i) ==
  /\ At(d, "settling") /\ i \in round[d].left
  /\ LET good == i \in provider[round[d].batch].good
     IN  /\ \/ SettleRow(i, IF good THEN "ok" ELSE "transient")
            \/ UNCHANGED row
         /\ served' = IF good THEN served \cup {row[i].asked} ELSE served
         /\ round' = [round EXCEPT ![d].left = @ \ {i},
                                   ![d].at = IF round[d].left = {i} THEN "collect" ELSE @]
  /\ HandlesFollow
  /\ UNCHANGED <<hand, ran, billed, provider, job>>

CollectDone(d) ==
  /\ At(d, "collect")
  /\ Goto(d, "jobs")
  /\ UNCHANGED <<queueVars, handle, provider, job>>

(* _set_status: a database error leaves the job as it was.                 *)
SetStatus(b, status) == job' = [job EXCEPT ![b] = status] \/ UNCHANGED job

(* assert_batch_terminal_manifest: every submitted row has an outcome, and *)
(* a result with a text or an error, which a row that is not done may lack.*)
OutcomesIn(b, S) == \A i \in provider[b].rows : row[i].state \in S

(* No row is left under the job: it is settled, or the assertion above     *)
(* aborts the poll.                                                        *)
JobSettled(d, b) ==
  /\ At(d, "jobs") /\ job[b] = "open" /\ Remaining(b) = {}
  /\ \/ /\ OutcomesIn(b, {"done", "failed", "pending"})
        /\ SetStatus(b, "settled")
        /\ UNCHANGED round
     \/ /\ ~OutcomesIn(b, {"done"})
        /\ Goto(d, "decide")
        /\ UNCHANGED job
  /\ UNCHANGED <<queueVars, handle, provider>>

FailOverStart(d, b) ==
  round' = [round EXCEPT ![d] = [at |-> "requeue", batch |-> b, rows |-> Remaining(b),
                                 left |-> Remaining(b)]]

(* A job that is bad, or past its own expires_at whatever the provider     *)
(* still does, is marked failing before any of its rows moves.             *)
JobBad(d, b) ==
  /\ At(d, "jobs") /\ job[b] = "open" /\ Remaining(b) # {}
  /\ SetStatus(b, "failing")
  /\ FailOverStart(d, b)
  /\ UNCHANGED <<queueVars, handle, provider>>

(* A fail-over that a crash or a database error cut short is resumed.      *)
JobResume(d, b) ==
  /\ At(d, "jobs") /\ job[b] = "failing"
  /\ FailOverStart(d, b)
  /\ UNCHANGED <<queueVars, handle, provider, job>>

(* requeue_from_batch, one row, committed on its own.                      *)
Requeue(d, i) ==
  /\ At(d, "requeue") /\ i \in round[d].left
  /\ row' = IF row[i].state = "queued_batch"
            THEN [row EXCEPT ![i].state = "pending", ![i].due = TRUE] ELSE row
  /\ HandlesFollow
  /\ round' = [round EXCEPT ![d].left = @ \ {i}]
  /\ UNCHANGED <<hand, ran, served, billed, provider, job>>

(* Mutants: the job is closed as soon as one row was moved; or it is given *)
(* the state of the batch at the provider.                                 *)
FailOverClosesEarly(d) ==
  /\ At(d, "requeue")
  /\ SetStatus(round[d].batch, IF round[d].left # round[d].rows THEN "failed" ELSE "failing")
  /\ Goto(d, "jobs")
  /\ UNCHANGED <<queueVars, handle, provider>>
FailOverCopiesState(d) ==
  /\ At(d, "requeue")
  /\ job' = [job EXCEPT ![round[d].batch] = provider[round[d].batch].state]
  /\ Goto(d, "jobs")
  /\ UNCHANGED <<queueVars, handle, provider>>

(* _fail_over closes the job only when no row is left under it; a database *)
(* error may have stopped the requeue early.                               *)
FailOverEnd(d) ==
  /\ At(d, "requeue")
  /\ SetStatus(round[d].batch, IF Remaining(round[d].batch) = {} THEN "failed" ELSE "failing")
  /\ Goto(d, "jobs")
  /\ UNCHANGED <<queueVars, handle, provider>>

PollDone(d) ==
  /\ At(d, "jobs")
  /\ Goto(d, "decide")
  /\ UNCHANGED <<queueVars, handle, provider, job>>

-----------------------------------------------------------------------------
(* The rest of the queue, while drains work.                               *)

QueueStep ==
  /\ \/ \E t \in Task, p \in Priority, s \in Sla, dedup \in Dedup : Enqueue(t, p, s, dedup)
     \/ Reclaim \/ Backfill \/ DedupPending \/ Purge \/ Time
  /\ HandlesFollow
  /\ UNCHANGED <<provider, job, round>>

Realtime(d) == DecideRealtime(d) \/ RunRealtime(d) \/ \E i \in Id : SettleRealtime(d, i)

Offload(d) == \/ OffloadStart(d) \/ Reconcile(d) \/ Submit(d)
              \/ \E i \in Id : Mark(d, i)
              \/ MarkDone(d) \/ Register(d)

Poll(d) == \/ PollStart(d) \/ CollectDone(d) \/ PollDone(d)
           \/ \E b \in Batch : Collect(d, b)
           \/ \E i \in Id : CollectSettle(d, i)
           \/ \E b \in Batch : JobSettled(d, b) \/ JobBad(d, b) \/ JobResume(d, b)
           \/ \E i \in Id : Requeue(d, i)
           \/ FailOverEnd(d)

ProviderStep == \E b \in Batch, good \in SUBSET Id : EndBatch(b, good) \/ KillBatch(b, good)

TrackerNext ==
  \/ QueueStep
  \/ \E d \in Drain : DrainLease(d) \/ Realtime(d) \/ Offload(d) \/ Poll(d) \/ DrainCrash(d)
  \/ ProviderStep

TrackerSpec == TrackerInit /\ [][TrackerNext]_vars

(* The drain loop runs; a poll that could collect does so in the end, and  *)
(* brings a batch that is dead to its job; the provider finishes every     *)
(* batch; time passes.  Nothing is assumed of new work.                    *)
TrackerFairness ==
  /\ \A d \in Drain :
       /\ WF_vars(DrainLease(d) \/ Realtime(d) \/ Offload(d) \/ Poll(d))
       /\ SF_vars(PollStart(d))
       /\ \A b \in Batch : SF_vars(Collect(d, b)) /\ SF_vars(JobBad(d, b))
       /\ \A i \in Id : SF_vars(CollectSettle(d, i) /\ row' # row) /\ SF_vars(Requeue(d, i))
  /\ \A b \in Batch : WF_vars(\E good \in SUBSET Id : EndBatch(b, good) \/ KillBatch(b, good))
  /\ \A i \in Id : WF_vars(QueueStep /\ TimerElapses(i))

FairTrackerSpec == TrackerSpec /\ TrackerFairness

-----------------------------------------------------------------------------
(* Properties.                                                             *)

(* Every store keeps its domain.                                           *)
TrackerTypeOK ==
  /\ TypeOK
  /\ handle \in [Id -> Batch \cup {NoBatch}]
  /\ provider \in [Batch -> [state : BatchState, rows : SUBSET Id,
                             good : SUBSET Id, wrong : SUBSET Id]]
  /\ job \in [Batch -> JobStatus]
  /\ round \in [Drain -> [at : Step, batch : Batch \cup {NoBatch},
                          rows : SUBSET Id, left : SUBSET Id]]

(* The batch b is paid for, and the provider runs it or has run it.        *)
Paid(b) == provider[b].state \in {"running", "ended"}

(* submit_offload "never double-pays": whatever crashes, lost answers and  *)
(* failed writes happened between the three stores, the provider has at    *)
(* most one batch for the rows of an offload.                              *)
KeyBoughtOnce ==
  \A b, c \in Batch : Paid(b) /\ Paid(c) /\ provider[b].rows = provider[c].rows => b = c

(* The batch b is paid for and will deliver, or has delivered, row i.      *)
Holds(b, i) == /\ i \in provider[b].rows
               /\ \/ provider[b].state = "running"
                  \/ provider[b].state = "ended" /\ i \in provider[b].good

(* The same of every row.  It needs a lease of one row at a time: the key  *)
(* of an offload names a set of rows, and another lease may put the same   *)
(* rows in other sets.                                                     *)
NeverBoughtTwice ==
  \A i \in Id : \A b, c \in Batch : Holds(b, i) /\ Holds(c, i) => b = c

(* F1: while a batch holds a row, no lane runs its task.                   *)
BatchedNotRunRealtime ==
  [][\A b \in Batch, i \in Id : Holds(b, i) => ran'[i] = ran[i]]_vars

(* F5: a job is closed as failed only once none of its rows is left behind *)
(* in queued_batch, although the rows and the job are in two databases.    *)
FailOverLeavesNone ==
  [][\A b \in Batch : job[b] # "failed" /\ job'[b] = "failed"
       => \A i \in Id : row'[i].state = "queued_batch" => handle'[i] # b]_vars

(* "The row-level realtime attempts (lane_queue max_attempts) bound the    *)
(* total": no sequence of offloads and fail-overs leases a row more often. *)
AttemptsBounded == \A i \in Id : row[i].attempts <= MaxAttempts

(* "settled by the poll above", "failed-over instead of hanging forever":  *)
(* a row under an open job does not stay queued_batch forever.             *)
BatchedRowSettles ==
  \A i \in Id, b \in Batch :
    (row[i].state = "queued_batch" /\ handle[i] = b /\ job[b] = "open")
      ~> row[i].state # "queued_batch"
=============================================================================
