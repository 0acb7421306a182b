------------------------- MODULE BatchTracker_proofs -------------------------
(***************************************************************************)
(* Proofs about batch offload.  The queue's part of a step is what         *)
(* LaneQueue_proofs says of it; the retry budget does not carry over (a    *)
(* fail-over requeues whatever the attempts), so a row here only Moves     *)
(* where there it Evolves.                                                 *)
(***************************************************************************)
EXTENDS BatchTracker, LaneQueue_proofs, FiniteSetTheorems

(* What a round is about are rows of the table.                            *)
RoundKnown == \A d \in Drain : \A i \in round[d].rows \cup round[d].left : row[i].asked \in Task

TrackerInv == TrackerTypeOK /\ PromiseInv /\ RoundKnown

QueueKept == RowsKept /\ HandsKept

-----------------------------------------------------------------------------
(* Rows.                                                                   *)

LEMMA MarkRows == ASSUME TypeOK, NEW d \in Drain, NEW i \in Id, Mark(d, i) PROVE Shifted
<1>1. row[i] \in Row
  BY DEF TypeOK
<1> DEFINE marked == [row[i] EXCEPT !.state = "queued_batch", !.due = FALSE]
<1>2. CASE row[i].state \in {"leased", "queued_batch"}
  <2>1. marked \in Row /\ Evolves(row[i], marked)
    BY <1>1, <1>2, MovedEvolves DEF Live
  <2>2. row' = [row EXCEPT ![i] = marked]
    BY <1>2 DEF Mark
  <2> HIDE DEF marked
  <2>3. Tracked
    BY <2>1, <2>2, StaysEvolves DEF TypeOK, Tracked
  <2> QED BY <2>3, TrackedShifts
<1>3. CASE row[i].state \notin {"leased", "queued_batch"}
  BY <1>3, UnchangedTracked, TrackedShifts DEF Mark
<1> QED BY <1>2, <1>3

LEMMA RequeueRows == ASSUME TypeOK, NEW d \in Drain, NEW i \in Id, Requeue(d, i) PROVE Shifted
<1>1. row[i] \in Row
  BY DEF TypeOK
<1> DEFINE back == [row[i] EXCEPT !.state = "pending", !.due = TRUE]
<1>2. CASE row[i].state = "queued_batch"
  <2>1. back \in Row /\ Moves(row[i], back)
    BY <1>1, <1>2 DEF Row, RowState, Live, Settled, Moves
  <2>2. row' = [row EXCEPT ![i] = back]
    BY <1>2 DEF Requeue
  <2> HIDE DEF back
  <2> QED BY <2>1, <2>2 DEF TypeOK, Shifted, Moves
<1>3. CASE row[i].state # "queued_batch"
  BY <1>3, UnchangedTracked, TrackedShifts DEF Requeue
<1> QED BY <1>2, <1>3

LEMMA CollectRows == ASSUME TypeOK, NEW d \in Drain, NEW i \in Id, CollectSettle(d, i) PROVE Shifted
<1>1. (\E o \in AllOutcomes : SettleRow(i, o)) \/ UNCHANGED row
  BY DEF CollectSettle, AllOutcomes
<1> QED BY <1>1, SettleRowTracked, UnchangedTracked, TrackedShifts

(* A step of the queue beside the drains is a step of LaneQueue.           *)
LEMMA QueueRows ==
  ASSUME TypeOK, QueueStep
  PROVE  (Tracked \/ Inserted) /\ UNCHANGED <<hand, ran, served, billed>>
<1>1. Tracked \/ Inserted
  <2>1. ASSUME NEW t \in Task, NEW p \in Priority, NEW s \in Sla, NEW dedup \in Dedup,
               Enqueue(t, p, s, dedup)
        PROVE  Tracked \/ Inserted
    BY <2>1, EnqueueRows
  <2>2. ASSUME NEW S \in SUBSET Id, Retire(S) \/ Delete(S) PROVE Tracked
    BY <2>2, RetireTracked, DeleteTracked
  <2>3. ASSUME NEW i \in Id, TimerElapses(i) \/ DeadlinePasses(i) PROVE Tracked
    BY <2>3, TimeTracked
  <2> QED BY <2>1, <2>2, <2>3, ReclaimTracked, BackfillTracked, DedupPendingTracked
             DEF QueueStep, Purge, Time
<1>2. UNCHANGED <<hand, ran, served, billed>>
  BY DEF QueueStep, Enqueue, Coalesce, Insert, queueVars, Reclaim, Backfill, DedupPending,
         Purge, Retire, Delete, Time, TimerElapses, DeadlinePasses
<1> QED BY <1>1, <1>2

(* The steps that leave the workers' hands alone.                          *)
LEMMA ShiftedKeeps ==
  ASSUME TrackerInv, Shifted, UNCHANGED <<hand, ran, billed>>,
         served \subseteq served', served' \subseteq Task
  PROVE  QueueKept
<1>1. \A i \in Id : row'[i].asked = row[i].asked
  BY DEF Shifted, Moves
<1>2. HandsKept
  BY <1>1 DEF HandsKept, HandServed, TrackerInv, PromiseInv, TypeOK, Known
<1> QED BY <1>2, ShiftedRows DEF QueueKept, TrackerInv

LEMMA QueueStepKeeps ==
  ASSUME TrackerInv, Tracked \/ Inserted, HandsKept PROVE QueueKept
BY TrackedShifts, ShiftedRows, InsertedRows DEF QueueKept, TrackerInv

-----------------------------------------------------------------------------
(* Every step keeps the queue's part of the invariant.                     *)

LEMMA TypesInside == ASSUME TrackerInv PROVE TypeOK /\ HandsInv
BY DEF TrackerInv, PromiseInv, TrackerTypeOK, HandsInv

LEMMA SameQueue == ASSUME TrackerInv, UNCHANGED queueVars PROVE QueueKept /\ Shifted
<1>1. Shifted
  BY TypesInside, UnchangedTracked, TrackedShifts DEF queueVars
<1>2. QueueKept
  BY <1>1, ShiftedKeeps DEF queueVars, TrackerInv, PromiseInv, TrackerTypeOK, TypeOK
<1> QED BY <1>1, <1>2

(* A row of the table stays one, and what it was asked for with it.        *)
AskedKept == \A i \in Id : row[i].asked \in Task => row'[i].asked \in Task

LEMMA StepKeeps ==
  ASSUME TrackerInv, TrackerNext
  PROVE  QueueKept /\ (Shifted \/ (Inserted /\ UNCHANGED served)) /\ AskedKept
<1>0. TypeOK /\ HandsInv
  BY TypesInside
<1>1. QueueKept /\ (Shifted \/ (Inserted /\ UNCHANGED served))
  <2>1. CASE QueueStep
    BY <1>0, <2>1, QueueRows, SameHands, QueueStepKeeps, TrackedShifts
  <2>2. ASSUME NEW d \in Drain, DrainLease(d) PROVE QueueKept /\ Shifted
    <3>1. Lease(d)
      BY <2>2 DEF DrainLease
    <3> QED BY <1>0, <3>1, LeaseRows, LeaseHands, QueueStepKeeps, TrackedShifts
  <2>3. ASSUME NEW d \in Drain, Realtime(d) PROVE QueueKept /\ Shifted
    <3>1. CASE DecideRealtime(d)
      BY <3>1, SameQueue DEF DecideRealtime
    <3>2. CASE Run(d)
      <4>1. Tracked
        BY <1>0, <3>2, UnchangedTracked DEF Run, Execute
      <4> QED BY <1>0, <3>2, <4>1, RunHands, QueueStepKeeps, TrackedShifts DEF Worker
    <3>3. ASSUME NEW i \in Id, Settle(d, i) \/ SettleLost(d, i) PROVE QueueKept /\ Shifted
      <4>1. Tracked
        BY <1>0, <3>3, SettleRowTracked, UnchangedTracked DEF Settle, SettleLost
      <4> QED BY <1>0, <3>3, <4>1, SettleHands, QueueStepKeeps, TrackedShifts DEF Worker
    <3> QED BY <2>3, <3>1, <3>2, <3>3 DEF Realtime, RunRealtime, SettleRealtime
  <2>4. ASSUME NEW d \in Drain, DrainCrash(d) PROVE QueueKept /\ Shifted
    <3>1. Crash(d) /\ row' = row
      BY <2>4 DEF DrainCrash, Crash
    <3>2. Tracked
      BY <1>0, <3>1, UnchangedTracked
    <3> QED BY <1>0, <3>1, <3>2, CrashHands, QueueStepKeeps, TrackedShifts DEF Worker
  <2>5. ASSUME NEW d \in Drain, Offload(d) PROVE QueueKept /\ Shifted
    <3>1. CASE OffloadStart(d) \/ Reconcile(d) \/ Submit(d) \/ MarkDone(d)
      BY <3>1, SameQueue DEF OffloadStart, Reconcile, Submit, MarkDone
    <3>2. ASSUME NEW i \in Id, Mark(d, i) PROVE QueueKept /\ Shifted
      BY <1>0, <3>2, MarkRows, ShiftedKeeps DEF Mark, TypeOK
    <3>3. CASE Register(d)
      <4>1. /\ row' = row /\ hand' = [hand EXCEPT ![d] = Empty]
            /\ UNCHANGED <<ran, served, billed>>
        BY <3>3 DEF Register
      <4>2. Tracked
        BY <1>0, <4>1, UnchangedTracked
      <4>3. HandsKept
        BY <1>0, <4>1 DEF HandsKept, HandServed, HandsInv, TypeOK, Known, Empty, Hold, Worker
      <4> QED BY <4>2, <4>3, QueueStepKeeps, TrackedShifts
    <3> QED BY <2>5, <3>1, <3>2, <3>3 DEF Offload
  <2>6. ASSUME NEW d \in Drain, Poll(d) PROVE QueueKept /\ Shifted
    <3>1. ASSUME NEW i \in Id, CollectSettle(d, i) PROVE QueueKept /\ Shifted
      <4>1. i \in round[d].left /\ UNCHANGED <<hand, ran, billed>>
        BY <3>1 DEF CollectSettle
      <4>2. served \subseteq served' /\ served' \subseteq Task
        BY <1>0, <3>1, <4>1 DEF CollectSettle, TypeOK, TrackerInv, PromiseInv, RoundKnown
      <4> QED BY <1>0, <3>1, <4>1, <4>2, CollectRows, ShiftedKeeps
    <3>2. ASSUME NEW i \in Id, Requeue(d, i) PROVE QueueKept /\ Shifted
      BY <1>0, <3>2, RequeueRows, ShiftedKeeps DEF Requeue, TypeOK
    <3>3. CASE PollStart(d) \/ CollectDone(d) \/ PollDone(d) \/ FailOverEnd(d)
      BY <3>3, SameQueue DEF PollStart, CollectDone, PollDone, FailOverEnd
    <3>4. ASSUME NEW b \in Batch,
                 Collect(d, b) \/ JobSettled(d, b) \/ JobBad(d, b) \/ JobResume(d, b)
          PROVE  QueueKept /\ Shifted
      BY <3>4, SameQueue DEF Collect, JobSettled, JobBad, JobResume
    <3> QED BY <2>6, <3>1, <3>2, <3>3, <3>4 DEF Poll
  <2>7. CASE ProviderStep
    BY <2>7, SameQueue DEF ProviderStep, EndBatch, KillBatch
  <2> QED BY <2>1, <2>2, <2>3, <2>4, <2>5, <2>6, <2>7 DEF TrackerNext
<1>2. AskedKept
  BY <1>1 DEF AskedKept, Shifted, Moves, Inserted
<1> QED BY <1>1, <1>2

-----------------------------------------------------------------------------
(* What a step can make of the promise.                                    *)

(* A row gets done by a result, of a worker or of a batch, whose content   *)
(* is answered by then, or by the sweep over finished contents.            *)
Settling ==
  \E j \in Id, o \in AllOutcomes : SettleRow(j, o) /\ (o = "ok" => row[j].asked \in served')

LEMMA SameRows ==
  ASSUME TrackerInv, UNCHANGED row PROVE Quiet
BY QuietSteps DEF TrackerInv, PromiseInv

LEMMA StepSettles ==
  ASSUME TrackerInv, TrackerNext
  PROVE  Grows /\ (Quiet \/ DedupPending \/ Settling)
<1>0. TypeOK /\ HandServed
  BY DEF TrackerInv, PromiseInv
<1> DEFINE Goal == Grows /\ (Quiet \/ DedupPending \/ Settling)
<1>1. ASSUME UNCHANGED <<row, served>> PROVE Goal
  BY <1>1, SameRows DEF Grows
<1>2. CASE QueueStep
  <2>1. Grows
    BY <1>0, <1>2, QueueRows DEF Grows
  <2>2. DedupPending \/ Accept \/ Reclaim \/ Backfill \/ Purge \/ Time
    BY <1>2 DEF QueueStep, Accept
  <2> QED BY <1>0, <2>1, <2>2, QuietSteps
<1>3. ASSUME NEW d \in Drain, DrainLease(d) PROVE Goal
  BY <1>0, <1>3, QuietSteps DEF DrainLease, Lease, Grows
<1>4. ASSUME NEW d \in Drain, Realtime(d) PROVE Goal
  <2>1. CASE DecideRealtime(d)
    BY <1>1, <2>1 DEF DecideRealtime, queueVars
  <2>2. CASE Run(d)
    <3>1. PICK S \in SUBSET Id : \E out \in [S -> Outcomes] : Execute(d, S, out)
      BY <2>2 DEF Run
    <3>2. PICK out \in [S -> Outcomes] : Execute(d, S, out)
      BY <3>1
    <3> QED BY <3>2, SameRows DEF Execute, Grows
  <2>3. ASSUME NEW i \in Id, Settle(d, i) PROVE Goal
    <3>1. SettleRow(i, hand[d][i]) /\ hand[d][i] \in AllOutcomes /\ served' = served
      BY <2>3 DEF Settle
    <3>2. hand[d][i] = "ok" => row[i].asked \in served'
      BY <1>0, <3>1 DEF HandServed, Worker
    <3> QED BY <3>1, <3>2 DEF Settling, Grows
  <2>4. ASSUME NEW i \in Id, SettleLost(d, i) PROVE Goal
    BY <1>1, <2>4 DEF SettleLost
  <2> QED BY <1>4, <2>1, <2>2, <2>3, <2>4 DEF Realtime, RunRealtime, SettleRealtime
<1>5. ASSUME NEW d \in Drain, DrainCrash(d) PROVE Goal
  BY <1>1, <1>5 DEF DrainCrash, Crash
<1>6. ASSUME NEW d \in Drain, Offload(d) PROVE Goal
  <2>1. ASSUME NEW i \in Id, Mark(d, i) PROVE Goal
    <3>1. \A j \in Id : row'[j].state \in {row[j].state, "queued_batch"}
      BY <1>0, <2>1 DEF Mark, TypeOK, Row
    <3> QED BY <2>1, <3>1 DEF Mark, Quiet, Grows
  <2> QED BY <1>1, <1>6, <2>1 DEF Offload, OffloadStart, Reconcile, Submit, MarkDone, Register,
                                  queueVars
<1>7. ASSUME NEW d \in Drain, Poll(d) PROVE Goal
  <2>1. ASSUME NEW i \in Id, CollectSettle(d, i) PROVE Goal
    <3> DEFINE good == i \in provider[round[d].batch].good
    <3>1. served' = IF good THEN served \cup {row[i].asked} ELSE served
      BY <2>1 DEF CollectSettle
    <3>2. SettleRow(i, IF good THEN "ok" ELSE "transient") \/ UNCHANGED row
      BY <2>1 DEF CollectSettle
    <3>3. Grows
      BY <3>1 DEF Grows
    <3>4. CASE good
      BY <3>1, <3>2, <3>3, <3>4, SameRows DEF Settling, AllOutcomes
    <3>5. CASE ~good
      <4>1. SettleRow(i, "transient") \/ UNCHANGED row
        BY <3>2, <3>5
      <4>2. "transient" \in AllOutcomes /\ "transient" # "ok"
        BY DEF AllOutcomes
      <4> QED BY <3>3, <4>1, <4>2, SameRows DEF Settling
    <3> QED BY <3>4, <3>5
  <2>2. ASSUME NEW i \in Id, Requeue(d, i) PROVE Goal
    <3>1. \A j \in Id : row'[j].state \in {row[j].state, "pending"}
      BY <1>0, <2>2 DEF Requeue, TypeOK, Row
    <3> QED BY <2>2, <3>1 DEF Requeue, Quiet, Grows
  <2>3. CASE PollStart(d) \/ CollectDone(d) \/ PollDone(d) \/ FailOverEnd(d)
    BY <1>1, <2>3 DEF PollStart, CollectDone, PollDone, FailOverEnd, queueVars
  <2>4. ASSUME NEW b \in Batch,
               Collect(d, b) \/ JobSettled(d, b) \/ JobBad(d, b) \/ JobResume(d, b)
        PROVE  Goal
    BY <1>1, <2>4 DEF Collect, JobSettled, JobBad, JobResume, queueVars
  <2> QED BY <1>7, <2>1, <2>2, <2>3, <2>4 DEF Poll
<1>8. CASE ProviderStep
  BY <1>1, <1>8 DEF ProviderStep, EndBatch, KillBatch, queueVars
<1> QED BY <1>2, <1>3, <1>4, <1>5, <1>6, <1>7, <1>8 DEF TrackerNext

LEMMA StepServes == ASSUME TrackerInv, TrackerNext PROVE DoneWasServed'
<1>1. PromiseInv /\ (Shifted \/ Inserted) /\ Grows
  BY StepKeeps, StepSettles DEF TrackerInv
<1> QED BY <1>1, StepSettles, QuietServed, DedupServed, SettleServed DEF Settling

-----------------------------------------------------------------------------
(* The round of a drain, and what it knows.                                *)

Round == [at : Step, batch : Batch \cup {NoBatch}, rows : SUBSET Id, left : SUBSET Id]

(* A step may give a drain a round about rows that are known.              *)
RoundsKept ==
  /\ round' \in [Drain -> Round]
  /\ \A d \in Drain : \A i \in round'[d].rows \cup round'[d].left : row[i].asked \in Task

LEMMA GoneTo ==
  ASSUME TrackerInv, NEW d \in Drain, NEW step \in Step, Goto(d, step) PROVE RoundsKept
BY DEF TrackerInv, PromiseInv, TrackerTypeOK, RoundKnown, Goto, RoundsKept, Round

(* The drain d has another round, about known rows; the others keep theirs.*)
LEMMA Rerounded ==
  ASSUME TrackerInv, NEW d \in Drain, NEW new \in Round,
         round' = [round EXCEPT ![d] = new],
         \A i \in new.rows \cup new.left : row[i].asked \in Task
  PROVE  RoundsKept
BY DEF TrackerInv, PromiseInv, TrackerTypeOK, RoundKnown, RoundsKept, Round

LEMMA RoundType ==
  ASSUME TrackerInv, NEW d \in Drain
  PROVE  /\ round[d] \in Round
         /\ \A i \in round[d].rows \cup round[d].left : row[i].asked \in Task
         /\ \A i \in Held(d) : row[i].asked \in Task
         /\ Held(d) \subseteq Id
         /\ \A b \in Batch : Remaining(b) \subseteq Id /\ \A i \in Remaining(b) : row[i].asked \in Task
BY DEF TrackerInv, PromiseInv, TrackerTypeOK, RoundKnown, Round, Known, Held, Worker, Remaining

LEMMA RoundIsFunction ==
  ASSUME TrackerInv
  PROVE  round = [d \in Drain |-> round[d]]
BY DEF TrackerInv, PromiseInv, TrackerTypeOK

(* One row less is left of the loop of d, which may go on to another step. *)
LEMMA Ticked ==
  ASSUME TrackerInv, NEW d \in Drain, NEW i, NEW step \in Step,
         round' = [round EXCEPT ![d].left = @ \ {i}, ![d].at = step]
  PROVE  RoundsKept
<1> DEFINE new == [round[d] EXCEPT !.left = @ \ {i}, !.at = step]
<1>1. new \in Round /\ new.rows = round[d].rows /\ new.left \subseteq round[d].left
  BY RoundType DEF Round
<1>2. round' = [round EXCEPT ![d] = new]
  BY RoundIsFunction
<1> HIDE DEF new
<1>3. \A j \in new.rows \cup new.left : row[j].asked \in Task
  BY <1>1, RoundType
<1> QED BY <1>1, <1>2, <1>3, Rerounded

LEMMA LeftShrinks ==
  ASSUME TrackerInv, NEW d \in Drain, NEW i, round' = [round EXCEPT ![d].left = @ \ {i}]
  PROVE  RoundsKept
<1> DEFINE new == [round[d] EXCEPT !.left = @ \ {i}]
<1>1. new \in Round /\ new.rows = round[d].rows /\ new.left \subseteq round[d].left
  BY RoundType DEF Round
<1>2. round' = [round EXCEPT ![d] = new]
  BY RoundIsFunction
<1> HIDE DEF new
<1>3. \A j \in new.rows \cup new.left : row[j].asked \in Task
  BY <1>1, RoundType
<1> QED BY <1>1, <1>2, <1>3, Rerounded

LEMMA GoneOn ==
  ASSUME TrackerInv, NEW d \in Drain, NEW step \in Step, round' = [round EXCEPT ![d].at = step]
  PROVE  RoundsKept
<1> DEFINE new == [round[d] EXCEPT !.at = step]
<1>1. new \in Round /\ new.rows = round[d].rows /\ new.left = round[d].left
  BY RoundType DEF Round
<1>2. round' = [round EXCEPT ![d] = new]
  BY RoundIsFunction
<1> HIDE DEF new
<1>3. \A j \in new.rows \cup new.left : row[j].asked \in Task
  BY <1>1, RoundType
<1> QED BY <1>1, <1>2, <1>3, Rerounded

LEMMA OffloadRounds == ASSUME TrackerInv, NEW d \in Drain, Offload(d) PROVE RoundsKept
<1>1. CASE OffloadStart(d)
  <2> DEFINE new == [at |-> "reconcile", batch |-> NoBatch, rows |-> Held(d), left |-> {}]
  <2>1. new \in Round /\ new.rows = Held(d) /\ new.left = {}
    BY RoundType DEF Round, Step
  <2>2. round' = [round EXCEPT ![d] = new]
    BY <1>1 DEF OffloadStart
  <2> HIDE DEF new
  <2> QED BY <2>1, <2>2, RoundType, Rerounded
<1>2. ASSUME NEW b \in Batch,
             round' = [round EXCEPT ![d].at = "mark", ![d].batch = b, ![d].left = round[d].rows]
      PROVE  RoundsKept
  <2> DEFINE new == [round[d] EXCEPT !.at = "mark", !.batch = b, !.left = round[d].rows]
  <2>1. new \in Round /\ new.rows = round[d].rows /\ new.left = round[d].rows
    BY RoundType DEF Round, Step
  <2>2. round' = [round EXCEPT ![d] = new]
    BY <1>2, RoundType DEF Round, TrackerInv, PromiseInv, TrackerTypeOK
  <2> HIDE DEF new
  <2> QED BY <2>1, <2>2, RoundType, Rerounded
<1>3. CASE Reconcile(d)
  <2>1. CASE round' = [round EXCEPT ![d].at = "submit"]
    BY <2>1, GoneOn DEF Step
  <2> QED BY <1>2, <1>3, <2>1, GoneTo DEF Reconcile, Adoptable, Step
<1>4. CASE Submit(d)
  BY <1>2, <1>4, GoneTo DEF Submit, Step
<1>5. ASSUME NEW i \in Id, Mark(d, i) PROVE RoundsKept
  BY <1>5, LeftShrinks DEF Mark
<1>6. CASE MarkDone(d)
  BY <1>6, GoneOn DEF MarkDone, Step
<1>7. CASE Register(d)
  BY <1>7, GoneTo DEF Register, Step
<1> QED BY <1>1, <1>3, <1>4, <1>5, <1>6, <1>7 DEF Offload

LEMMA PollRounds == ASSUME TrackerInv, NEW d \in Drain, Poll(d) PROVE RoundsKept
<1>1. CASE PollStart(d) \/ CollectDone(d) \/ PollDone(d)
  BY <1>1, GoneTo DEF PollStart, CollectDone, PollDone, Step
<1>2. ASSUME NEW b \in Batch, NEW step \in {"settling", "requeue"}, NEW rows, NEW left,
             rows \in SUBSET Remaining(b), left \in SUBSET Remaining(b),
             round' = [round EXCEPT ![d] = [at |-> step, batch |-> b, rows |-> rows, left |-> left]]
      PROVE  RoundsKept
  <2> DEFINE new == [at |-> step, batch |-> b, rows |-> rows, left |-> left]
  <2>1. new \in Round /\ new.rows = rows /\ new.left = left
    BY <1>2, RoundType DEF Round, Step
  <2>2. round' = [round EXCEPT ![d] = new]
    BY <1>2
  <2> HIDE DEF new
  <2>3. \A i \in Remaining(b) : row[i].asked \in Task
    BY RoundType
  <2>4. \A i \in new.rows \cup new.left : row[i].asked \in Task
    BY <1>2, <2>1, <2>3
  <2> QED BY <2>1, <2>2, <2>4, Rerounded
<1>3. ASSUME NEW b \in Batch, Collect(d, b) PROVE RoundsKept
  <2> DEFINE found == Remaining(b) \cap (provider[b].good \cup provider[b].wrong)
  <2>1. found \in SUBSET Remaining(b) /\ {} \in SUBSET Remaining(b)
    OBVIOUS
  <2>2. round' = [round EXCEPT ![d] = [at |-> "settling", batch |-> b, rows |-> {}, left |-> found]]
    BY <1>3 DEF Collect
  <2> HIDE DEF found
  <2> QED BY <1>2, <2>1, <2>2
<1>4. ASSUME NEW b \in Batch, FailOverStart(d, b) PROVE RoundsKept
  BY <1>2, <1>4 DEF FailOverStart
<1>5. ASSUME NEW b \in Batch, JobSettled(d, b) \/ JobBad(d, b) \/ JobResume(d, b) PROVE RoundsKept
  <2>1. CASE UNCHANGED round
    BY <2>1, RoundType DEF RoundsKept, TrackerInv, PromiseInv, TrackerTypeOK, Round
  <2> QED BY <1>4, <1>5, <2>1, GoneTo DEF JobSettled, JobBad, JobResume, Step
<1>6. ASSUME NEW i \in Id, CollectSettle(d, i) PROVE RoundsKept
  <2> DEFINE step == IF round[d].left = {i} THEN "collect" ELSE round[d].at
  <2>1. step \in Step
    BY RoundType DEF Round, Step
  <2>2. round' = [round EXCEPT ![d].left = @ \ {i}, ![d].at = step]
    BY <1>6, RoundIsFunction DEF CollectSettle
  <2> HIDE DEF step
  <2> QED BY <2>1, <2>2, Ticked
<1>7. ASSUME NEW i \in Id, Requeue(d, i) PROVE RoundsKept
  BY <1>7, LeftShrinks DEF Requeue
<1>8. CASE FailOverEnd(d)
  BY <1>8, GoneTo DEF FailOverEnd, Step
<1> QED BY <1>1, <1>3, <1>5, <1>6, <1>7, <1>8 DEF Poll

LEMMA StepRounds == ASSUME TrackerInv, TrackerNext PROVE RoundsKept
<1>1. CASE UNCHANGED round
  BY <1>1, RoundType DEF RoundsKept, TrackerInv, PromiseInv, TrackerTypeOK, Round
<1>2. ASSUME NEW d \in Drain, NEW step \in Step, round' = [round EXCEPT ![d].at = step]
      PROVE  RoundsKept
  BY <1>2, RoundType DEF RoundsKept, TrackerInv, PromiseInv, TrackerTypeOK, RoundKnown, Round
<1>3. ASSUME NEW d \in Drain, DrainLease(d) PROVE RoundsKept
  BY <1>2, <1>3 DEF DrainLease, Step
<1>4. ASSUME NEW d \in Drain, Realtime(d) PROVE RoundsKept
  <2>1. ASSUME NEW i \in Id, SettleRealtime(d, i) PROVE RoundsKept
    BY <1>2, <2>1 DEF SettleRealtime, Step
  <2> QED BY <1>1, <1>4, <2>1, GoneTo DEF Realtime, DecideRealtime, RunRealtime, trackerVars, Step
<1>5. ASSUME NEW d \in Drain, DrainCrash(d) PROVE RoundsKept
  BY <1>5, GoneTo DEF DrainCrash, Step
<1>6. CASE QueueStep \/ ProviderStep
  BY <1>1, <1>6 DEF QueueStep, ProviderStep, EndBatch, KillBatch
<1> QED BY <1>3, <1>4, <1>5, <1>6, OffloadRounds, PollRounds DEF TrackerNext

-----------------------------------------------------------------------------
(* The other stores.                                                       *)

ProviderType == [state : BatchState, rows : SUBSET Id, good : SUBSET Id, wrong : SUBSET Id]

StoresKept ==
  /\ handle' \in [Id -> Batch \cup {NoBatch}]
  /\ provider' \in [Batch -> ProviderType]
  /\ job' \in [Batch -> JobStatus]

LEMMA OthersKept ==
  ASSUME TrackerInv, handle' = handle \/ HandlesFollow, UNCHANGED <<provider, job>>
  PROVE  StoresKept
BY DEF TrackerInv, PromiseInv, TrackerTypeOK, StoresKept, ProviderType, HandlesFollow

LEMMA JobSet ==
  ASSUME TrackerInv, NEW b, NEW status \in JobStatus, SetStatus(b, status),
         UNCHANGED <<handle, provider>>
  PROVE  StoresKept
BY DEF TrackerInv, PromiseInv, TrackerTypeOK, StoresKept, ProviderType, SetStatus

LEMMA ProviderSet ==
  ASSUME TrackerInv, NEW b \in Batch, NEW new \in ProviderType,
         provider' = [provider EXCEPT ![b] = new], UNCHANGED <<handle, job>>
  PROVE  StoresKept
<1>1. /\ handle \in [Id -> Batch \cup {NoBatch}] /\ job \in [Batch -> JobStatus]
      /\ provider \in [Batch -> ProviderType]
  BY DEF TrackerInv, PromiseInv, TrackerTypeOK, ProviderType
<1>2. provider' \in [Batch -> ProviderType]
  BY <1>1
<1> QED BY <1>1, <1>2 DEF StoresKept

LEMMA Created ==
  ASSUME TrackerInv, NEW d \in Drain, NEW b \in Batch, Create(b, round[d].rows),
         UNCHANGED <<handle, job>>
  PROVE  StoresKept
<1> DEFINE new == [provider[b] EXCEPT !.state = "running", !.rows = round[d].rows]
<1>0. provider[b] \in ProviderType /\ round[d].rows \in SUBSET Id
  BY RoundType DEF TrackerInv, PromiseInv, TrackerTypeOK, ProviderType, Round
<1>1. new \in ProviderType
  BY <1>0 DEF ProviderType, BatchState
<1>2. provider' = [provider EXCEPT ![b] = new]
  BY DEF Create, TrackerInv, PromiseInv, TrackerTypeOK
<1> HIDE DEF new
<1> QED BY <1>1, <1>2, ProviderSet

LEMMA ProviderStepKeeps == ASSUME TrackerInv, ProviderStep PROVE StoresKept
<1>1. PICK b \in Batch, good \in SUBSET Id : EndBatch(b, good) \/ KillBatch(b, good)
  BY DEF ProviderStep
<1>2. provider[b] \in ProviderType
  BY DEF TrackerInv, PromiseInv, TrackerTypeOK, ProviderType
<1>3. CASE EndBatch(b, good)
  <2> DEFINE new == [provider[b] EXCEPT !.state = "ended", !.good = good,
                                        !.wrong = provider[b].rows \ good]
  <2>1. new \in ProviderType
    BY <1>2 DEF ProviderType, BatchState
  <2>2. provider' = [provider EXCEPT ![b] = new]
    BY <1>3 DEF EndBatch, TrackerInv, PromiseInv, TrackerTypeOK
  <2> HIDE DEF new
  <2>3. UNCHANGED <<handle, job>>
    BY <1>3 DEF EndBatch
  <2> QED BY <2>1, <2>2, <2>3, ProviderSet
<1>4. CASE KillBatch(b, good)
  <2> DEFINE new == [provider[b] EXCEPT !.state = "dead", !.good = good]
  <2>1. new \in ProviderType
    BY <1>2 DEF ProviderType, BatchState
  <2>2. provider' = [provider EXCEPT ![b] = new]
    BY <1>4 DEF KillBatch, TrackerInv, PromiseInv, TrackerTypeOK
  <2> HIDE DEF new
  <2>3. UNCHANGED <<handle, job>>
    BY <1>4 DEF KillBatch
  <2> QED BY <2>1, <2>2, <2>3, ProviderSet
<1> QED BY <1>1, <1>3, <1>4

LEMMA StepStores == ASSUME TrackerInv, TrackerNext PROVE StoresKept
<1>1. CASE QueueStep
  BY <1>1, OthersKept DEF QueueStep
<1>2. ASSUME NEW d \in Drain, DrainLease(d) \/ DrainCrash(d) PROVE StoresKept
  BY <1>2, OthersKept DEF DrainLease, DrainCrash
<1>3. ASSUME NEW d \in Drain, Realtime(d) PROVE StoresKept
  BY <1>3, OthersKept DEF Realtime, DecideRealtime, RunRealtime, SettleRealtime, trackerVars
<1>4. ASSUME NEW d \in Drain, Offload(d) PROVE StoresKept
  <2>1. CASE OffloadStart(d) \/ Reconcile(d) \/ MarkDone(d)
    BY <2>1, OthersKept DEF OffloadStart, Reconcile, MarkDone
  <2>2. CASE Submit(d)
    BY <2>2, OthersKept, Created DEF Submit
  <2>3. ASSUME NEW i \in Id, Mark(d, i) PROVE StoresKept
    BY <2>3, RoundType DEF Mark, TrackerInv, PromiseInv, TrackerTypeOK, StoresKept, ProviderType, Round
  <2>4. CASE Register(d)
    BY <2>4 DEF Register, TrackerInv, PromiseInv, TrackerTypeOK, StoresKept, ProviderType, JobStatus
  <2> QED BY <1>4, <2>1, <2>2, <2>3, <2>4 DEF Offload
<1>5. ASSUME NEW d \in Drain, Poll(d) PROVE StoresKept
  <2>1. CASE PollStart(d) \/ CollectDone(d) \/ PollDone(d)
    BY <2>1, OthersKept DEF PollStart, CollectDone, PollDone
  <2>2. ASSUME NEW b \in Batch, Collect(d, b) \/ JobResume(d, b) PROVE StoresKept
    BY <2>2, OthersKept DEF Collect, JobResume
  <2>3. ASSUME NEW b \in Batch, JobSettled(d, b) \/ JobBad(d, b) PROVE StoresKept
    BY <2>3, OthersKept, JobSet DEF JobSettled, JobBad, JobStatus
  <2>4. ASSUME NEW i \in Id, CollectSettle(d, i) \/ Requeue(d, i) PROVE StoresKept
    BY <2>4, OthersKept DEF CollectSettle, Requeue
  <2>5. CASE FailOverEnd(d)
    BY <2>5, JobSet DEF FailOverEnd, JobStatus
  <2> QED BY <1>5, <2>1, <2>2, <2>3, <2>4, <2>5 DEF Poll
<1> QED BY <1>1, <1>2, <1>3, <1>4, <1>5, ProviderStepKeeps DEF TrackerNext

-----------------------------------------------------------------------------
(* The invariant.                                                          *)

LEMMA TrackerStarts == ASSUME TrackerInit PROVE TrackerInv
<1>1. PromiseInv
  BY InitIInv DEF TrackerInit, IInv
<1>2. /\ handle \in [Id -> Batch \cup {NoBatch}]
      /\ provider \in [Batch -> ProviderType]
      /\ job \in [Batch -> JobStatus]
      /\ round = [d \in Drain |-> Idle]
  BY DEF TrackerInit, ProviderType, BatchState, JobStatus
<1>3. round \in [Drain -> Round] /\ RoundKnown
  BY <1>2 DEF Idle, Round, Step, RoundKnown
<1> QED BY <1>1, <1>2, <1>3 DEF TrackerInv, PromiseInv, TrackerTypeOK, ProviderType, Round

LEMMA TrackerMoves == ASSUME TrackerInv, [TrackerNext]_vars PROVE TrackerInv'
<1>1. QueueKept /\ AskedKept
  <2>1. CASE TrackerNext
    BY <2>1, StepKeeps
  <2>2. CASE UNCHANGED vars
    <3>1. UNCHANGED queueVars
      BY <2>2 DEF vars
    <3> QED BY <3>1, SameQueue DEF queueVars, AskedKept
  <2> QED BY <2>1, <2>2
<1>2. RoundsKept
  <2>1. CASE UNCHANGED vars
    BY <2>1, RoundType DEF vars, trackerVars, RoundsKept, TrackerInv, PromiseInv, TrackerTypeOK, Round
  <2> QED BY <2>1, StepRounds
<1>3. StoresKept
  BY OthersKept, StepStores DEF vars, trackerVars
<1>4. PromiseInv'
  <2>1. DoneWasServed'
    BY StepServes DEF vars, queueVars, TrackerInv, PromiseInv, DoneWasServed
  <2> QED BY <1>1, <2>1 DEF QueueKept, RowsKept, HandsKept, PromiseInv, TypeOK, Known, HandServed
<1>5. TrackerTypeOK'
  BY <1>2, <1>3, <1>4 DEF TrackerTypeOK, PromiseInv, RoundsKept, StoresKept, ProviderType, Round
<1>6. RoundKnown'
  BY <1>1, <1>2, <1>5 DEF RoundsKept, AskedKept, RoundKnown, Round
<1> QED BY <1>4, <1>5, <1>6 DEF TrackerInv, PromiseInv

(* TrackerInv is an invariant of batch offload.                            *)
THEOREM TrackerInvariance == TrackerSpec => []TrackerInv
BY TrackerStarts, TrackerMoves, PTL DEF TrackerSpec

(* Type correctness of the queue, the job table, the provider and the      *)
(* rounds, for any number of drains, rows and batches.                     *)
THEOREM TrackerTypeCorrect == TrackerSpec => []TrackerTypeOK
<1>1. TrackerInv => TrackerTypeOK
  BY DEF TrackerInv, PromiseInv
<1> QED BY <1>1, TrackerInvariance, PTL

(* F2 in the composition: neither a late worker, nor an answer collected   *)
(* from a batch, nor a mark or a requeue that comes after the row was      *)
(* settled through another batch, moves a settled row.                     *)
THEOREM SettledStaysOffloaded == TrackerSpec => SettledStays
<1>1. ASSUME TrackerInv, [TrackerNext]_vars
      PROVE  [\A i \in Id : row[i].state \in Settled
                 => row'[i].state \in {row[i].state, "gone"}]_queueVars
  <2>1. CASE UNCHANGED vars
    BY <2>1 DEF vars
  <2>2. CASE TrackerNext
    <3>1. Shifted \/ Inserted
      BY <1>1, <2>2, StepKeeps
    <3> QED BY <3>1 DEF Shifted, Moves, Inserted, Settled
  <2> QED BY <1>1, <2>1, <2>2
<1> QED BY <1>1, TrackerInvariance, PTL DEF TrackerSpec, SettledStays

(* No plausible success in the composition: a row that the poll settles    *)
(* from a batch, or a twin of it, is done only if the provider or a lane   *)
(* answered its very content.                                              *)
THEOREM DoneIsServedOffloaded == TrackerSpec => []DoneWasServed
<1>1. TrackerInv => DoneWasServed
  BY DEF TrackerInv, PromiseInv
<1> QED BY <1>1, TrackerInvariance, PTL

(* Dedup in the composition: rows that go to a batch and come back never   *)
(* make a second live row of a content.                                    *)
THEOREM NeverQueuedTwiceOffloaded == TrackerSpec => []OneRowPerContent
<1>1. TrackerInv => OneRowPerContent
  BY DEF TrackerInv, PromiseInv
<1> QED BY <1>1, TrackerInvariance, PTL

(* The answer of a batch settles the waiting twins of its row as well.     *)
THEOREM TwinsSettleOffloaded == TrackerSpec => NoTwinLeftWaiting
<1>1. ASSUME TrackerInv, TrackerNext PROVE NoneWaits
  BY <1>1, StepSettles, QuietTwins, DedupTwins, SettleTwins DEF TrackerInv, PromiseInv, Settling
<1>2. TrackerInv /\ [TrackerNext]_vars => [NoneWaits]_queueVars
  BY <1>1 DEF vars
<1> QED BY <1>2, TrackerInvariance, PTL DEF TrackerSpec, NoTwinLeftWaiting, NoneWaits

(* Batch offload, with its three stores, lost writes and crashes, is not   *)
(* seen by a caller: it implements the same promise as the queue alone.    *)
THEOREM OffloadKeepsThePromise == TrackerSpec => KeepsItsWord
<1>1. ASSUME TrackerInv, TrackerInv', TrackerNext PROVE Promise!Next
  <2>1. PromiseInv /\ PromiseInv' /\ Grows /\ (Shifted \/ (Inserted /\ UNCHANGED served))
    BY <1>1, StepKeeps, StepSettles DEF TrackerInv
  <2> QED BY <2>1, ShiftAdvances, InsertAccepts
<1>2. TrackerInv /\ TrackerInv' /\ [TrackerNext]_vars => [Promise!Next]_(Promise!promiseVars)
  BY <1>1, NothingSeen DEF vars
<1>3. TrackerInit => Promise!Init
  BY PromiseStarts DEF TrackerInit
<1> QED BY <1>2, <1>3, TrackerInvariance, PTL DEF TrackerSpec, KeepsItsWord, Promise!Spec

(* F5: whichever of the writes of a fail-over were lost, a job that reads  *)
(* failed has no row left in queued_batch under it.                        *)
THEOREM FailOverComplete == TrackerSpec => FailOverLeavesNone
<1> DEFINE Closed == \A b \in Batch : job[b] # "failed" /\ job'[b] = "failed"
                       => \A i \in Id : row'[i].state = "queued_batch" => handle'[i] # b
<1>1. ASSUME TrackerInv, [TrackerNext]_vars PROVE Closed
  <2>1. CASE job' = job
    BY <2>1
  <2>2. ASSUME NEW d \in Drain, Register(d) PROVE Closed
    BY <1>1, <2>2 DEF Register, TrackerInv, PromiseInv, TrackerTypeOK
  <2>3. ASSUME NEW b \in Batch, NEW status \in {"settled", "failing"}, SetStatus(b, status)
        PROVE  Closed
    BY <1>1, <2>3 DEF SetStatus, TrackerInv, PromiseInv, TrackerTypeOK
  <2>4. ASSUME NEW d \in Drain, FailOverEnd(d) PROVE Closed
    <3> DEFINE b == round[d].batch
    <3>1. row' = row /\ handle' = handle
      BY <2>4 DEF FailOverEnd, queueVars
    <3>2. \A c \in Batch : c # b => job'[c] = job[c]
      BY <1>1, <2>4 DEF FailOverEnd, SetStatus, TrackerInv, PromiseInv, TrackerTypeOK
    <3>3. Remaining(b) # {} => \A c \in Batch : job'[c] \in {job[c], "failing"}
      BY <1>1, <2>4 DEF FailOverEnd, SetStatus, TrackerInv, PromiseInv, TrackerTypeOK
    <3>4. CASE Remaining(b) # {}
      BY <3>3, <3>4
    <3>5. CASE Remaining(b) = {}
      BY <3>1, <3>2, <3>5 DEF Remaining
    <3> QED BY <3>4, <3>5
  <2>5. ASSUME TrackerNext
        PROVE  \/ job' = job
               \/ \E d \in Drain : Register(d) \/ FailOverEnd(d)
               \/ \E b \in Batch, status \in {"settled", "failing"} : SetStatus(b, status)
    <3>1. ASSUME NEW d \in Drain, Offload(d) PROVE job' = job \/ Register(d)
      BY <3>1 DEF Offload, OffloadStart, Reconcile, Submit, Mark, MarkDone
    <3>2. ASSUME NEW d \in Drain, Poll(d)
          PROVE  \/ job' = job \/ FailOverEnd(d)
                 \/ \E b \in Batch, status \in {"settled", "failing"} : SetStatus(b, status)
      <4>1. ASSUME NEW b \in Batch, JobSettled(d, b) \/ JobBad(d, b)
            PROVE  job' = job \/ SetStatus(b, "settled") \/ SetStatus(b, "failing")
        BY <4>1 DEF JobSettled, JobBad
      <4> QED BY <3>2, <4>1 DEF Poll, PollStart, CollectDone, PollDone, Collect, CollectSettle,
                               JobResume, Requeue
    <3>3. ASSUME NEW d \in Drain, DrainLease(d) \/ Realtime(d) \/ DrainCrash(d) PROVE job' = job
      BY <3>3 DEF DrainLease, Realtime, DecideRealtime, RunRealtime, SettleRealtime,
                  trackerVars, DrainCrash
    <3>4. CASE QueueStep \/ ProviderStep
      BY <3>4 DEF QueueStep, ProviderStep, EndBatch, KillBatch
    <3> QED BY <2>5, <3>1, <3>2, <3>3, <3>4 DEF TrackerNext
  <2>6. CASE UNCHANGED vars
    BY <2>1, <2>6 DEF vars, trackerVars
  <2> HIDE DEF Closed
  <2> QED BY <1>1, <2>1, <2>2, <2>3, <2>4, <2>5, <2>6
<1>2. TrackerInv /\ [TrackerNext]_vars => [Closed]_vars
  BY <1>1
<1> QED BY <1>2, TrackerInvariance, PTL DEF TrackerSpec, FailOverLeavesNone

-----------------------------------------------------------------------------
(* "Never double-pays", under the drain lock: a round that found no batch  *)
(* of its key is the only one that can submit it.  With one row per lease  *)
(* a key is a row.                                                         *)

OneDrain == \A d, e \in Drain : d = e

OneRow == LeaseBatch = 1 /\ IsFiniteSet(Id)

PaidNext(b) == provider'[b].state \in {"running", "ended"}

KeyInv ==
  /\ \A d \in Drain : round[d].at = "submit"
       => \A b \in Batch : Paid(b) => provider[b].rows # round[d].rows
  /\ KeyBoughtOnce

AtMostOne(S) == \A i, j \in S : i = j

SinglesInv ==
  /\ \A d \in Drain : AtMostOne(Held(d))
  /\ \A d \in Drain : round[d].at \in {"reconcile", "submit"} => AtMostOne(round[d].rows)
  /\ \A b \in Batch : AtMostOne(provider[b].rows)

HeldShrinks == \A d \in Drain, i \in Id : hand'[d][i] # "none" => hand[d][i] # "none"

LEMMA LeaseOfOne ==
  ASSUME OneRow, TypeOK, NEW d \in Drain, Lease(d)
  PROVE  /\ \A i, j \in Id : hand'[d][i] # "none" /\ hand'[d][j] # "none" => i = j
         /\ \A e \in Worker : e # d => hand'[e] = hand[e]
<1>1. PICK C \in SUBSET Id : \E L \in SUBSET C :
        /\ Candidates(C) \/ C = {}
        /\ hand' = [hand EXCEPT ![d] = [i \in Id |-> IF i \in L THEN "todo" ELSE "none"]]
  BY DEF Lease
<1>2. AtMostOne(C)
  <2>1. IsFiniteSet(C)
    BY FS_Subset DEF OneRow
  <2>2. Cardinality(C) \in Nat /\ Cardinality(C) <= 1
    BY <1>1, <2>1, FS_CardinalityType, FS_EmptySet DEF Candidates, OneRow
  <2>3. SUFFICES ASSUME NEW i \in C, NEW j \in C, i # j PROVE FALSE
    BY DEF AtMostOne
  <2>4. /\ IsFiniteSet(C \ {i}) /\ Cardinality(C \ {i}) = Cardinality(C) - 1
        /\ Cardinality(C \ {i}) \in Nat
    BY <2>1, FS_RemoveElement, FS_CardinalityType
  <2>5. Cardinality(C \ {i}) = 0
    BY <2>2, <2>4
  <2>6. C \ {i} = {}
    BY <2>4, <2>5, FS_EmptySet
  <2> QED BY <2>3, <2>6
<1>3. PICK L \in SUBSET C :
        hand' = [hand EXCEPT ![d] = [i \in Id |-> IF i \in L THEN "todo" ELSE "none"]]
  BY <1>1
<1>4. d \in Worker /\ DOMAIN hand = Worker
  BY DEF Worker, TypeOK
<1> QED BY <1>2, <1>3, <1>4 DEF AtMostOne, TypeOK

(* Beside a lease, no step adds a row to what a drain holds.               *)
LEMMA StepHeld ==
  ASSUME TrackerInv, TrackerNext PROVE HeldShrinks \/ \E d \in Drain : Lease(d)
<1>0. hand \in [Worker -> [Id -> Hold]] /\ Drain \subseteq Worker
  BY DEF TrackerInv, PromiseInv, TrackerTypeOK, TypeOK, Worker
<1>1. CASE hand' = hand
  BY <1>1 DEF HeldShrinks
<1>2. ASSUME NEW d \in Drain, hand' = [hand EXCEPT ![d] = Empty] PROVE HeldShrinks
  BY <1>0, <1>2 DEF HeldShrinks, Empty
<1>3. CASE QueueStep
  BY <1>1, <1>3, QueueRows, TypesInside
<1>4. CASE ProviderStep
  BY <1>1, <1>4 DEF ProviderStep, EndBatch, KillBatch, queueVars
<1>5. ASSUME NEW d \in Drain, Realtime(d) PROVE HeldShrinks
  <2>1. CASE DecideRealtime(d)
    BY <2>1 DEF HeldShrinks, DecideRealtime, queueVars
  <2>2. CASE Run(d)
    <3>0. PICK S \in SUBSET Id : \E out \in [S -> Outcomes] : Execute(d, S, out)
      BY <2>2 DEF Run
    <3>1. PICK out \in [S -> Outcomes] : Execute(d, S, out)
      BY <3>0
    <3>2. /\ S \subseteq {i \in Id : hand[d][i] = "todo"}
          /\ hand' = [hand EXCEPT ![d] = [i \in Id |-> IF i \in S THEN out[i] ELSE hand[d][i]]]
      BY <3>1 DEF Execute
    <3> QED BY <1>0, <3>2 DEF HeldShrinks
  <2>3. ASSUME NEW i \in Id, Settle(d, i) \/ SettleLost(d, i) PROVE HeldShrinks
    <3>1. hand' = [hand EXCEPT ![d][i] = "none"]
      BY <2>3 DEF Settle, SettleLost
    <3> QED BY <1>0, <3>1 DEF HeldShrinks
  <2> QED BY <1>5, <2>1, <2>2, <2>3 DEF Realtime, RunRealtime, SettleRealtime
<1>6. ASSUME NEW d \in Drain, Offload(d) PROVE HeldShrinks
  <2>1. CASE Register(d)
    BY <1>2, <2>1 DEF Register
  <2>2. CASE ~Register(d)
    <3>1. hand' = hand
      <4>1. ASSUME NEW i \in Id, Mark(d, i) PROVE hand' = hand
        BY <4>1 DEF Mark
      <4>2. CASE OffloadStart(d) \/ Reconcile(d) \/ Submit(d) \/ MarkDone(d)
        BY <4>2 DEF OffloadStart, Reconcile, Submit, MarkDone, queueVars
      <4> QED BY <1>6, <2>2, <4>1, <4>2 DEF Offload
    <3> QED BY <3>1 DEF HeldShrinks
  <2> QED BY <2>1, <2>2
<1>7. ASSUME NEW d \in Drain, Poll(d) PROVE HeldShrinks
  <2>1. hand' = hand
    <3>1. CASE PollStart(d) \/ CollectDone(d) \/ PollDone(d) \/ FailOverEnd(d)
      BY <3>1 DEF PollStart, CollectDone, PollDone, FailOverEnd, queueVars
    <3>2. ASSUME NEW b \in Batch,
                 Collect(d, b) \/ JobSettled(d, b) \/ JobBad(d, b) \/ JobResume(d, b)
          PROVE  hand' = hand
      BY <3>2 DEF Collect, JobSettled, JobBad, JobResume, queueVars
    <3>3. ASSUME NEW i \in Id, CollectSettle(d, i) \/ Requeue(d, i) PROVE hand' = hand
      BY <3>3 DEF CollectSettle, Requeue
    <3> QED BY <1>7, <3>1, <3>2, <3>3 DEF Poll
  <2> QED BY <2>1 DEF HeldShrinks
<1>8. ASSUME NEW d \in Drain, DrainCrash(d) PROVE HeldShrinks
  BY <1>2, <1>8 DEF DrainCrash, Crash
<1> QED BY <1>3, <1>4, <1>5, <1>6, <1>7, <1>8 DEF TrackerNext, DrainLease

(* How the round of a drain comes to reconcile and to submit.              *)
Advances(d) ==
  \/ round'[d].at \notin {"reconcile", "submit"}
  \/ round'[d].at = round[d].at /\ round'[d].rows = round[d].rows
  \/ round'[d].at = "reconcile" /\ round'[d].rows = Held(d)
  \/ /\ round[d].at = "reconcile" /\ round'[d].at = "submit"
     /\ round'[d].rows = round[d].rows /\ Adoptable(round[d].rows) = {}

LEMMA GoneAdvances ==
  ASSUME TrackerInv, NEW e \in Drain, NEW step \in Step \ {"reconcile", "submit"},
         \/ Goto(e, step)
         \/ round' = [round EXCEPT ![e].at = step]
  PROVE  \A d \in Drain : Advances(d)
<1>0. round \in [Drain -> Round]
  BY DEF TrackerInv, PromiseInv, TrackerTypeOK, Round
<1>1. CASE Goto(e, step)
  BY <1>0, <1>1 DEF Advances, Goto
<1>2. CASE round' = [round EXCEPT ![e].at = step]
  BY <1>0, <1>2 DEF Advances, Round
<1> QED BY <1>1, <1>2

LEMMA MarkAdvances ==
  ASSUME TrackerInv, NEW e \in Drain, NEW b \in Batch,
         round' = [round EXCEPT ![e].at = "mark", ![e].batch = b, ![e].left = round[e].rows]
  PROVE  \A d \in Drain : Advances(d)
<1>0. round \in [Drain -> Round]
  BY DEF TrackerInv, PromiseInv, TrackerTypeOK, Round
<1>1. round'[e].at = "mark"
  BY <1>0 DEF Round
<1>2. \A d \in Drain : d # e => round'[d] = round[d]
  BY <1>0
<1> QED BY <1>1, <1>2 DEF Advances

LEMMA StepAdvances == ASSUME TrackerInv, TrackerNext PROVE \A d \in Drain : Advances(d)
<1>1. CASE UNCHANGED round
  BY <1>1 DEF Advances
<1>2. CASE QueueStep \/ ProviderStep
  BY <1>2 DEF Advances, QueueStep, ProviderStep, EndBatch, KillBatch
<1>3. ASSUME NEW e \in Drain, DrainLease(e) PROVE \A d \in Drain : Advances(d)
  <2>1. \E step \in {"idle", "leased"} : round' = [round EXCEPT ![e].at = step]
    BY <1>3 DEF DrainLease
  <2> QED BY <2>1, GoneAdvances DEF Step
<1>4. ASSUME NEW e \in Drain, Realtime(e) PROVE \A d \in Drain : Advances(d)
  <2>1. CASE DecideRealtime(e)
    BY <2>1, GoneAdvances DEF DecideRealtime, Step
  <2>2. CASE RunRealtime(e)
    BY <2>2 DEF Advances, RunRealtime, trackerVars
  <2>3. ASSUME NEW i \in Id, SettleRealtime(e, i) PROVE \A d \in Drain : Advances(d)
    <3>1. \E step \in {"idle", "realtime"} : round' = [round EXCEPT ![e].at = step]
      BY <2>3 DEF SettleRealtime
    <3> QED BY <3>1, GoneAdvances DEF Step
  <2> QED BY <1>4, <2>1, <2>2, <2>3 DEF Realtime
<1>5. ASSUME NEW e \in Drain, Offload(e) PROVE \A d \in Drain : Advances(d)
  <2>1. CASE OffloadStart(e)
    BY <2>1 DEF OffloadStart, Advances, TrackerInv, PromiseInv, TrackerTypeOK
  <2>2. CASE Reconcile(e)
    <3>1. CASE /\ At(e, "reconcile") /\ Adoptable(round[e].rows) = {}
               /\ round' = [round EXCEPT ![e].at = "submit"]
      BY <3>1 DEF At, Advances, TrackerInv, PromiseInv, TrackerTypeOK
    <3> QED BY <2>2, <3>1, GoneAdvances, MarkAdvances DEF Reconcile, Adoptable, Step
  <2>3. CASE Submit(e)
    BY <2>3, GoneAdvances, MarkAdvances DEF Submit, Step
  <2>4. ASSUME NEW i \in Id, Mark(e, i) PROVE \A d \in Drain : Advances(d)
    BY <2>4 DEF Mark, Advances, TrackerInv, PromiseInv, TrackerTypeOK
  <2>5. CASE MarkDone(e) \/ Register(e)
    BY <2>5, GoneAdvances DEF MarkDone, Register, Step
  <2> QED BY <1>5, <2>1, <2>2, <2>3, <2>4, <2>5 DEF Offload
<1>6. ASSUME NEW e \in Drain, Poll(e) PROVE \A d \in Drain : Advances(d)
  <2>1. CASE PollStart(e) \/ CollectDone(e) \/ PollDone(e) \/ FailOverEnd(e)
    BY <2>1, GoneAdvances DEF PollStart, CollectDone, PollDone, FailOverEnd, Step
  <2>2. ASSUME NEW b \in Batch, Collect(e, b) PROVE \A d \in Drain : Advances(d)
    BY <2>2 DEF Collect, Advances, TrackerInv, PromiseInv, TrackerTypeOK
  <2>3. ASSUME NEW b \in Batch, FailOverStart(e, b) PROVE \A d \in Drain : Advances(d)
    BY <2>3 DEF FailOverStart, Advances, TrackerInv, PromiseInv, TrackerTypeOK
  <2>4. ASSUME NEW b \in Batch, JobSettled(e, b) \/ JobBad(e, b) \/ JobResume(e, b)
        PROVE  \A d \in Drain : Advances(d)
    <3>1. CASE UNCHANGED round
      BY <3>1 DEF Advances
    <3> QED BY <2>3, <2>4, <3>1, GoneAdvances DEF JobSettled, JobBad, JobResume, Step
  <2>5. ASSUME NEW i \in Id, CollectSettle(e, i) PROVE \A d \in Drain : Advances(d)
    BY <2>5 DEF CollectSettle, At, Advances, TrackerInv, PromiseInv, TrackerTypeOK
  <2>6. ASSUME NEW i \in Id, Requeue(e, i) PROVE \A d \in Drain : Advances(d)
    BY <2>6 DEF Requeue, Advances, TrackerInv, PromiseInv, TrackerTypeOK
  <2> QED BY <1>6, <2>1, <2>2, <2>4, <2>5, <2>6 DEF Poll
<1>7. ASSUME NEW e \in Drain, DrainCrash(e) PROVE \A d \in Drain : Advances(d)
  BY <1>7, GoneAdvances DEF DrainCrash, Step
<1> QED BY <1>2, <1>3, <1>4, <1>5, <1>6, <1>7 DEF TrackerNext

(* Nothing comes to be paid for, but for the batch of a submit.            *)
PaidLess == \A b \in Batch : provider'[b].rows = provider[b].rows /\ (PaidNext(b) => Paid(b))

Bought(d, b) == /\ At(d, "submit") /\ round'[d].at # "submit" /\ round'[d].at # "reconcile"
                /\ Create(b, round[d].rows)

LEMMA StepBuys ==
  ASSUME TrackerInv, TrackerNext
  PROVE  PaidLess \/ \E d \in Drain, b \in Batch : Bought(d, b)
<1>1. CASE provider' = provider
  BY <1>1 DEF PaidLess, PaidNext, Paid
<1>2. CASE ProviderStep
  <2>0. provider \in [Batch -> ProviderType]
    BY DEF TrackerInv, PromiseInv, TrackerTypeOK, ProviderType
  <2>1. PICK b \in Batch, good \in SUBSET Id : EndBatch(b, good) \/ KillBatch(b, good)
    BY <1>2 DEF ProviderStep
  <2>2. CASE EndBatch(b, good)
    BY <2>0, <2>2 DEF EndBatch, PaidLess, PaidNext, Paid, ProviderType
  <2>3. CASE KillBatch(b, good)
    BY <2>0, <2>3 DEF KillBatch, PaidLess, PaidNext, Paid, ProviderType
  <2> QED BY <2>1, <2>2, <2>3
<1>3. ASSUME NEW d \in Drain, NEW b \in Batch, Submit(d), Create(b, round[d].rows)
      PROVE  Bought(d, b)
  <2>0. round \in [Drain -> Round]
    BY DEF TrackerInv, PromiseInv, TrackerTypeOK, Round
  <2>1. \/ Goto(d, "realtime")
        \/ \E c \in Batch : round' = [round EXCEPT ![d].at = "mark", ![d].batch = c,
                                                  ![d].left = round[d].rows]
    BY <1>3 DEF Submit
  <2>2. CASE Goto(d, "realtime")
    BY <1>3, <2>0, <2>2 DEF Submit, Goto, Bought
  <2>3. ASSUME NEW c \in Batch,
               round' = [round EXCEPT ![d].at = "mark", ![d].batch = c, ![d].left = round[d].rows]
        PROVE  Bought(d, b)
    <3>1. round'[d].at = "mark"
      BY <2>0, <2>3 DEF Round
    <3> QED BY <1>3, <3>1 DEF Submit, Bought
  <2> QED BY <2>1, <2>2, <2>3
<1>4. ASSUME NEW d \in Drain, Offload(d) PROVE provider' = provider \/ Submit(d)
  BY <1>4 DEF Offload, OffloadStart, Reconcile, Mark, MarkDone, Register
<1>5. ASSUME NEW d \in Drain, Poll(d) PROVE provider' = provider
  <2>1. CASE PollStart(d) \/ CollectDone(d) \/ PollDone(d) \/ FailOverEnd(d)
    BY <2>1 DEF PollStart, CollectDone, PollDone, FailOverEnd
  <2>2. ASSUME NEW b \in Batch,
               Collect(d, b) \/ JobSettled(d, b) \/ JobBad(d, b) \/ JobResume(d, b)
        PROVE  provider' = provider
    BY <2>2 DEF Collect, JobSettled, JobBad, JobResume
  <2>3. ASSUME NEW i \in Id, CollectSettle(d, i) \/ Requeue(d, i) PROVE provider' = provider
    BY <2>3 DEF CollectSettle, Requeue
  <2> QED BY <1>5, <2>1, <2>2, <2>3 DEF Poll
<1>6. ASSUME NEW d \in Drain, DrainLease(d) \/ Realtime(d) \/ DrainCrash(d)
      PROVE  provider' = provider
  BY <1>6 DEF DrainLease, Realtime, DecideRealtime, RunRealtime, SettleRealtime, trackerVars,
              DrainCrash
<1>7. ASSUME NEW d \in Drain, Submit(d)
      PROVE  provider' = provider \/ \E b \in Batch : Create(b, round[d].rows)
  BY <1>7 DEF Submit
<1>8. CASE QueueStep
  BY <1>8, <1>1 DEF QueueStep
<1> QED BY <1>1, <1>2, <1>3, <1>4, <1>5, <1>6, <1>7, <1>8 DEF TrackerNext

LEMMA KeysMove == ASSUME OneDrain, TrackerInv, KeyInv, TrackerNext PROVE KeyInv'
<1>0. provider \in [Batch -> ProviderType]
  BY DEF TrackerInv, PromiseInv, TrackerTypeOK, ProviderType
<1>1. ASSUME \A d \in Drain : round'[d].at = "submit"
               => \A b \in Batch : PaidNext(b) => provider'[b].rows # round'[d].rows,
             \A b, c \in Batch :
               PaidNext(b) /\ PaidNext(c) /\ provider'[b].rows = provider'[c].rows => b = c
      PROVE  KeyInv'
  BY <1>1 DEF KeyInv, KeyBoughtOnce, Paid, PaidNext
<1>2. CASE PaidLess
  <2>1. \A b, c \in Batch :
          PaidNext(b) /\ PaidNext(c) /\ provider'[b].rows = provider'[c].rows => b = c
    BY <1>2 DEF PaidLess, KeyInv, KeyBoughtOnce
  <2>2. ASSUME NEW d \in Drain, round'[d].at = "submit", NEW b \in Batch, PaidNext(b)
        PROVE  provider'[b].rows # round'[d].rows
    <3>1. Advances(d)
      BY StepAdvances
    <3>2. Paid(b) /\ provider'[b].rows = provider[b].rows
      BY <1>2, <2>2 DEF PaidLess
    <3>3. CASE round[d].at = "submit" /\ round'[d].rows = round[d].rows
      BY <3>2, <3>3 DEF KeyInv
    <3>4. CASE round'[d].rows = round[d].rows /\ Adoptable(round[d].rows) = {}
      BY <3>2, <3>4 DEF Adoptable, Paid
    <3> QED BY <2>2, <3>1, <3>3, <3>4 DEF Advances
  <2> QED BY <1>1, <2>1, <2>2
<1>3. ASSUME NEW e \in Drain, NEW n \in Batch, Bought(e, n) PROVE KeyInv'
  <2>1. /\ provider'[n].rows = round[e].rows
        /\ \A b \in Batch : b # n => provider'[b] = provider[b]
        /\ round[e].at = "submit"
    BY <1>0, <1>3 DEF Bought, Create, At, ProviderType
  <2>2. \A b \in Batch : b # n /\ PaidNext(b) => Paid(b) /\ provider'[b].rows # provider'[n].rows
    BY <2>1 DEF KeyInv, Paid, PaidNext
  <2>3. \A b, c \in Batch :
          PaidNext(b) /\ PaidNext(c) /\ provider'[b].rows = provider'[c].rows => b = c
    BY <2>1, <2>2 DEF KeyInv, KeyBoughtOnce
  <2>4. \A d \in Drain : round'[d].at # "submit"
    BY <1>3 DEF Bought, OneDrain
  <2> QED BY <1>1, <2>3, <2>4
<1> QED BY <1>2, <1>3, StepBuys

(* submit_offload "never double-pays": one drain at a time, as the drain   *)
(* lock ensures, never buys a batch for rows that have one, whatever       *)
(* crashes, lost answers and failed writes came between.                   *)
THEOREM KeyIsBoughtOnce == ASSUME OneDrain PROVE TrackerSpec => []KeyBoughtOnce
<1>1. TrackerInit => TrackerInv /\ KeyInv
  <2>1. TrackerInit => KeyInv
    BY DEF TrackerInit, KeyInv, KeyBoughtOnce, Paid, Idle
  <2> QED BY <2>1, TrackerStarts
<1>2. TrackerInv /\ KeyInv /\ [TrackerNext]_vars => (TrackerInv /\ KeyInv)'
  <2>1. ASSUME KeyInv, UNCHANGED vars PROVE KeyInv'
    BY <2>1 DEF vars, trackerVars, KeyInv, KeyBoughtOnce, Paid
  <2> QED BY <2>1, TrackerMoves, KeysMove
<1>3. KeyInv => KeyBoughtOnce
  BY DEF KeyInv
<1> QED BY <1>1, <1>2, <1>3, PTL DEF TrackerSpec

LEMMA SinglesMove == ASSUME OneRow, OneDrain, TrackerInv, SinglesInv, TrackerNext PROVE SinglesInv'
<1>0. TypeOK /\ provider \in [Batch -> ProviderType]
  BY DEF TrackerInv, PromiseInv, TrackerTypeOK, ProviderType
<1>1. \A d \in Drain : \A i, j \in Id : hand'[d][i] # "none" /\ hand'[d][j] # "none" => i = j
  <2>1. CASE HeldShrinks
    BY <2>1 DEF HeldShrinks, SinglesInv, AtMostOne, Held
  <2>2. ASSUME NEW e \in Drain, Lease(e)
        PROVE  \A d \in Drain : \A i, j \in Id :
                 hand'[d][i] # "none" /\ hand'[d][j] # "none" => i = j
    BY <1>0, <2>2, LeaseOfOne DEF OneDrain
  <2> QED BY <2>1, <2>2, StepHeld
<1>2. \A d \in Drain : round'[d].at \in {"reconcile", "submit"} => AtMostOne(round'[d].rows)
  <2>1. \A d \in Drain : Advances(d)
    BY StepAdvances
  <2> QED BY <2>1 DEF Advances, SinglesInv
<1>3. \A b \in Batch : AtMostOne(provider'[b].rows)
  <2>1. CASE PaidLess
    BY <2>1 DEF PaidLess, SinglesInv
  <2>2. ASSUME NEW e \in Drain, NEW n \in Batch, Bought(e, n)
        PROVE  \A b \in Batch : AtMostOne(provider'[b].rows)
    <3>1. /\ provider'[n].rows = round[e].rows
          /\ \A b \in Batch : b # n => provider'[b] = provider[b]
          /\ round[e].at = "submit"
      BY <1>0, <2>2 DEF Bought, Create, At, ProviderType
    <3> QED BY <3>1 DEF SinglesInv
  <2> QED BY <2>1, <2>2, StepBuys
<1>4. \A d \in Drain : AtMostOne(Held(d)')
  BY <1>1 DEF AtMostOne, Held
<1> QED BY <1>2, <1>3, <1>4 DEF SinglesInv, AtMostOne

(* With one row per lease no row is in two batches that deliver it.        *)
THEOREM BoughtOnce == ASSUME OneDrain, OneRow PROVE TrackerSpec => []NeverBoughtTwice
<1>1. TrackerInit => TrackerInv /\ SinglesInv
  <2>1. TrackerInit => SinglesInv
    BY DEF TrackerInit, Init, SinglesInv, AtMostOne, Held, Empty, Worker, Idle
  <2> QED BY <2>1, TrackerStarts
<1>2. TrackerInv /\ SinglesInv /\ [TrackerNext]_vars => (TrackerInv /\ SinglesInv)'
  <2>1. ASSUME SinglesInv, UNCHANGED vars PROVE SinglesInv'
    BY <2>1 DEF vars, queueVars, trackerVars, SinglesInv, AtMostOne, Held
  <2> QED BY <2>1, TrackerMoves, SinglesMove
<1>3. SinglesInv /\ KeyBoughtOnce => NeverBoughtTwice
  <2> SUFFICES ASSUME SinglesInv, KeyBoughtOnce, NEW i \in Id, NEW b \in Batch, NEW c \in Batch,
                      Holds(b, i), Holds(c, i)
               PROVE  b = c
    BY DEF NeverBoughtTwice
  <2>1. Paid(b) /\ Paid(c) /\ i \in provider[b].rows /\ i \in provider[c].rows
    BY DEF Holds, Paid
  <2>2. provider[b].rows = {i} /\ provider[c].rows = {i}
    BY <2>1 DEF SinglesInv, AtMostOne
  <2> QED BY <2>1, <2>2 DEF KeyBoughtOnce
<1> QED BY <1>1, <1>2, <1>3, KeyIsBoughtOnce, PTL DEF TrackerSpec

=============================================================================
