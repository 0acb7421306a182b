-------------------------- MODULE LaneQueue_proofs --------------------------
(***************************************************************************)
(* Proofs about the lane queue.  Most facts are about one row at a time:   *)
(* RowEvolution shows that whatever operation runs, every row of the table *)
(* that existed before evolves as Evolves allows, and the invariants and   *)
(* the action property follow from that relation.                          *)
(***************************************************************************)
EXTENDS LaneQueue, TLAPS

(* The retry budget of one row; queued_batch is the strengthening: a row   *)
(* that comes back from a batch is parked with the attempts it had.        *)
RowBudget(r) ==
  /\ r.state = "pending" => r.attempts < MaxAttempts
  /\ r.state = "leased" => r.attempts \in 1 .. MaxAttempts
  /\ r.state = "queued_batch" => r.attempts <= MaxAttempts

(* What any operation may make of a row r that is already in the table;    *)
(* in the queue alone, within its budget.                                  *)
Moves(r, s) ==
  /\ s.asked = r.asked
  /\ s.unique <=> r.unique /\ (s.state = "gone" => r.state = "gone")
  /\ r.unique /\ r.fp # NoTask /\ s.unique => s.fp = r.fp
  /\ r.state \in Settled => s.state \in {r.state, "gone"}
  /\ s.state = "gone" => r.state \in Settled \cup {"gone"}
  /\ r.state \in {"absent", "gone"} => s.state = r.state
  /\ s.state = "absent" => r.state = "absent"
  /\ s.task \in {r.task, NoTask} /\ s.fp \in {r.fp, r.task, NoTask}

Evolves(r, s) == Moves(r, s) /\ (RowBudget(r) => RowBudget(s))

(* The task and the fingerprint of a row are what was asked for, or NULL.  *)
Faithful(r) == r.task \in {r.asked, NoTask} /\ r.fp \in {r.asked, NoTask}

(* What enqueue and _enqueue_leased write over an absent row.              *)
Born(s) == /\ RowBudget(s)
           /\ s.unique => s.fp = s.asked
           /\ Faithful(s)
           /\ s.state \in {"pending", "leased"}

-----------------------------------------------------------------------------
(* One row.                                                                *)

LEMMA AbsentType == Absent \in Row
BY TaskAssumption DEF Absent, Row, RowState, Content

LEMMA FailEvolves ==
  ASSUME NEW r \in Row, r.state \in Live
  PROVE  Fail(r) \in Row /\ Evolves(r, Fail(r))
BY DEF Fail, Evolves, Moves, RowBudget, Row, RowState, Live, Settled

LEMMA ReclaimedEvolves ==
  ASSUME NEW r \in Row
  PROVE  Reclaimed(r) \in Row /\ Evolves(r, Reclaimed(r))
<1>1. CASE r.state = "leased" /\ r.due /\ r.attempts >= MaxAttempts
  BY <1>1, FailEvolves DEF Reclaimed, Live
<1>2. CASE r.state = "leased" /\ r.due /\ ~(r.attempts >= MaxAttempts)
  BY <1>2, BudgetAssumption
     DEF Reclaimed, Evolves, Moves, RowBudget, Row, RowState, Live, Settled
<1>3. CASE ~(r.state = "leased" /\ r.due)
  BY <1>3 DEF Reclaimed, Evolves, Moves
<1> QED BY <1>1, <1>2, <1>3

LEMMA SweptEvolves ==
  ASSUME NEW r \in Row
  PROVE  Swept(r) \in Row /\ Evolves(r, Swept(r))
BY FailEvolves, ReclaimedEvolves DEF Swept, Live

(* A claimed row was swept and is pending: it has an attempt left.         *)
LEMMA ClaimedEvolves ==
  ASSUME NEW r \in Row, Swept(r).state = "pending", NEW lot \in SUBSET Id
  PROVE  Claimed(Swept(r), lot) \in Row /\ Evolves(r, Claimed(Swept(r), lot))
<1> DEFINE s == Swept(r)
<1>1. s \in Row /\ Evolves(r, s)
  BY SweptEvolves
<1>2. Claimed(s, lot) \in Row
  <2> DEFINE u == [s EXCEPT !.state = "leased", !.due = FALSE]
             v == [u EXCEPT !.lot = lot]
  <2>1. u \in Row
    BY <1>1 DEF Row, RowState, Live
  <2>2. v \in Row
    BY <2>1 DEF Row
  <2>3. s.attempts \in Nat /\ Claimed(s, lot) = [v EXCEPT !.attempts = s.attempts + 1]
    BY <1>1 DEF Claimed, Row
  <2> HIDE DEF v
  <2> QED BY <2>2, <2>3 DEF Row
<1>3. Evolves(s, Claimed(s, lot))
  <2>1. /\ Claimed(s, lot).state = "leased" /\ Claimed(s, lot).attempts = s.attempts + 1
        /\ Claimed(s, lot).asked = s.asked /\ Claimed(s, lot).unique = s.unique
        /\ Claimed(s, lot).fp = s.fp /\ Claimed(s, lot).task = s.task
    BY <1>1 DEF Claimed, Row
  <2>2. s.attempts \in Nat /\ s.state = "pending"
    BY <1>1 DEF Row
  <2>3. RowBudget(s) => RowBudget(Claimed(s, lot))
    BY <2>1, <2>2, BudgetAssumption DEF RowBudget
  <2> QED BY <2>1, <2>2, <2>3 DEF Evolves, Moves, Settled
<1> QED BY <1>1, <1>2, <1>3 DEF Evolves, Moves, Settled

LEMMA ParkedEvolves ==
  ASSUME NEW r \in Row, r.state \in {"leased", "queued_batch"}
  PROVE  Parked(r) \in Row /\ Evolves(r, Parked(r))
<1>1. Refund(r) \in Nat /\ Refund(r) <= r.attempts /\ (r.attempts > 0 => Refund(r) < r.attempts)
  BY DEF Refund, Row
<1>2. Parked(r) \in Row
  <2> DEFINE u == [r EXCEPT !.state = "pending", !.due = FALSE]
             v == [u EXCEPT !.attempts = Refund(r)]
  <2>1. u \in Row
    BY DEF Row, RowState, Live
  <2>2. v \in Row
    BY <1>1, <2>1 DEF Row
  <2>3. r.parks \in Nat /\ Parked(r) = [v EXCEPT !.parks = r.parks + 1]
    BY DEF Parked, Row
  <2> HIDE DEF v
  <2> QED BY <2>2, <2>3 DEF Row
<1>3. /\ Parked(r).state = "pending" /\ Parked(r).attempts = Refund(r)
      /\ Parked(r).asked = r.asked /\ Parked(r).unique = r.unique /\ Parked(r).fp = r.fp
      /\ Parked(r).task = r.task
  BY DEF Parked, Row
<1>4. RowBudget(r) => RowBudget(Parked(r))
  <2>1. r.attempts \in Nat
    BY DEF Row
  <2> QED BY <1>1, <1>3, <2>1, BudgetAssumption DEF RowBudget
<1> QED BY <1>2, <1>3, <1>4 DEF Evolves, Moves, Settled

(* A row that a result moves to done, pending or queued_batch.             *)
LEMMA MovedEvolves ==
  ASSUME NEW r \in Row, r.state \in Live,
         NEW st \in {"done", "pending", "queued_batch"},
         st = "pending" => r.attempts < MaxAttempts,
         st = "queued_batch" => r.state # "pending"
  PROVE  LET s == [r EXCEPT !.state = st, !.due = FALSE]
         IN  s \in Row /\ Evolves(r, s)
<1> DEFINE s == [r EXCEPT !.state = st, !.due = FALSE]
<1>1. s \in Row
  BY DEF Row, RowState, Live, Settled
<1>2. /\ s.state = st /\ s.attempts = r.attempts
      /\ s.asked = r.asked /\ s.unique = r.unique /\ s.fp = r.fp
  BY DEF Row
<1>3. r.attempts \in Nat
  BY DEF Row
<1>4. RowBudget(r) => RowBudget(s)
  BY <1>2, <1>3, BudgetAssumption DEF RowBudget, Live
<1> QED BY <1>1, <1>2, <1>4 DEF Evolves, Moves, Settled, Live

(* The six outcomes of settle().                                           *)
LEMMA SettledAsEvolves ==
  ASSUME NEW r \in Row, r.state \in {"leased", "queued_batch"},
         NEW o \in AllOutcomes, NEW s \in SettledAs(r, o)
  PROVE  s \in Row /\ Evolves(r, s)
<1>1. CASE o = "ok"
  <2>1. s = [r EXCEPT !.state = "done", !.due = FALSE]
    BY <1>1 DEF SettledAs
  <2> QED BY <2>1, MovedEvolves DEF Live
<1>2. CASE o = "fatal"
  <2>1. s = Fail(r)
    BY <1>2 DEF SettledAs
  <2> QED BY <2>1, FailEvolves DEF Live
<1>3. CASE o = "transient"
  <2>1. \/ r.attempts < MaxAttempts /\ s = [r EXCEPT !.state = "pending", !.due = FALSE]
        \/ s = Fail(r)
    BY <1>3 DEF SettledAs
  <2> QED BY <2>1, MovedEvolves, FailEvolves DEF Live
<1>4. CASE o = "batched"
  <2>1. s = [r EXCEPT !.state = "queued_batch", !.due = FALSE]
    BY <1>4 DEF SettledAs
  <2> QED BY <2>1, MovedEvolves DEF Live
<1>5. CASE o = "unhandled"
  <2>1. s = Parked(r)
    BY <1>5 DEF SettledAs
  <2> QED BY <2>1, ParkedEvolves
<1>6. CASE o = "saturated"
  <2>1. s = Parked(r) \/ s = Fail(r)
    BY <1>6 DEF SettledAs
  <2> QED BY <2>1, ParkedEvolves, FailEvolves DEF Live
<1> QED BY <1>1, <1>2, <1>3, <1>4, <1>5, <1>6 DEF AllOutcomes

LEMMA CoalescedEvolves ==
  ASSUME NEW r \in Row, NEW f
  PROVE  Coalesced(r, f) \in Row /\ Evolves(r, Coalesced(r, f))
BY DEF Coalesced, Evolves, Moves, RowBudget, Row, RowState, Settled

LEMMA BackfilledEvolves ==
  ASSUME NEW r \in Row
  PROVE  Backfilled(r) \in Row /\ Evolves(r, Backfilled(r))
BY DEF Backfilled, Evolves, Moves, RowBudget, Row, Content

LEMMA StaysEvolves == ASSUME NEW r PROVE Evolves(r, r)
BY DEF Evolves, Moves

-----------------------------------------------------------------------------
(* The table.  Tracked is what every operation of the queue but an         *)
(* insertion does, Shifted what batch offload may do as well.              *)

Tracked == row' \in [Id -> Row] /\ \A i \in Id : Evolves(row[i], row'[i])

Shifted == row' \in [Id -> Row] /\ \A i \in Id : Moves(row[i], row'[i])

LEMMA TrackedShifts == ASSUME Tracked PROVE Shifted
BY DEF Tracked, Shifted, Evolves

Inserted ==
  \E i \in Id : /\ row[i].state = "absent"
                /\ row' \in [Id -> Row]
                /\ Born(row'[i]) /\ row'[i].asked \in Task
                /\ row'[i].unique => Hits(row'[i].asked) = {}
                /\ \A j \in Id \ {i} : row'[j] = row[j]

LEMMA UnchangedTracked ==
  ASSUME TypeOK, UNCHANGED row PROVE Tracked
BY StaysEvolves DEF TypeOK, Tracked

LEMMA EnqueueRows ==
  ASSUME TypeOK, NEW t \in Task, NEW p \in Priority, NEW s \in Sla, NEW dedup \in Dedup,
         Enqueue(t, p, s, dedup)
  PROVE  Tracked \/ Inserted
<1>1. PICK i \in Id : (dedup /\ Coalesce(t, i)) \/ Insert(t, i, p, s, dedup)
  BY DEF Enqueue
<1>2. CASE dedup /\ Coalesce(t, i)
  BY <1>2, UnchangedTracked DEF Coalesce, queueVars
<1>3. CASE Insert(t, i, p, s, dedup)
  <2> DEFINE new == Queued(t, p, s, dedup)
  <2>1. new \in Row
    BY ChoiceAssumption DEF Queued, Row, RowState, Live, Content
  <2>2. Born(new) /\ new.asked = t /\ new.unique = dedup
    BY BudgetAssumption DEF Queued, Born, RowBudget, Faithful
  <2>3. row' = [row EXCEPT ![i] = new] /\ row[i].state = "absent" /\ (dedup => Hits(t) = {})
    BY <1>3 DEF Insert, IsFresh
  <2> HIDE DEF new
  <2> QED BY <2>1, <2>2, <2>3 DEF Inserted, TypeOK
<1> QED BY <1>1, <1>2, <1>3

LEMMA SubmitRows ==
  ASSUME TypeOK, NEW c \in Caller, NEW t \in Task, NEW p \in Priority, NEW s \in Sla,
         SubmitInline(c, t, p, s)
  PROVE  /\ Inserted
         /\ \E i \in Id : row'[i].asked \in Task /\ hand' = [hand EXCEPT ![c][i] = "todo"]
<1> DEFINE new(i) == HeldBy(t, p, s, i)
<1>1. PICK i \in Id : /\ IsFresh(i) /\ row' = [row EXCEPT ![i] = new(i)]
                      /\ hand' = [hand EXCEPT ![c][i] = "todo"]
  BY DEF SubmitInline
<1>2. new(i) \in Row
  BY ChoiceAssumption DEF HeldBy, Row, RowState, Live, Content
<1>3. Born(new(i)) /\ new(i).asked = t /\ new(i).unique = FALSE
  BY BudgetAssumption DEF HeldBy, Born, RowBudget, Faithful
<1>4. row[i].state = "absent"
  BY <1>1 DEF IsFresh
<1> HIDE DEF new
<1>5. row'[i] = new(i) /\ row' \in [Id -> Row] /\ \A j \in Id \ {i} : row'[j] = row[j]
  BY <1>1, <1>2 DEF TypeOK
<1> QED BY <1>1, <1>3, <1>4, <1>5 DEF Inserted

LEMMA LeaseRows ==
  ASSUME TypeOK, NEW d \in Drain, Lease(d)
  PROVE  /\ Tracked
         /\ \E L \in SUBSET Id : /\ \A i \in L : row[i].state \in Live
                                /\ hand' = [hand EXCEPT ![d] = [i \in Id |-> IF i \in L THEN "todo"
                                                                            ELSE "none"]]
<1>1. PICK C \in SUBSET Id : \E L \in SUBSET C :
        /\ Candidates(C) \/ C = {}
        /\ row' = [i \in Id |-> IF i \in L THEN Claimed(Swept(row[i]), L) ELSE Swept(row[i])]
        /\ hand' = [hand EXCEPT ![d] = [i \in Id |-> IF i \in L THEN "todo" ELSE "none"]]
  BY DEF Lease
<1>2. PICK L \in SUBSET Id :
        /\ \A i \in L : Swept(row[i]).state = "pending"
        /\ row' = [i \in Id |-> IF i \in L THEN Claimed(Swept(row[i]), L) ELSE Swept(row[i])]
        /\ hand' = [hand EXCEPT ![d] = [i \in Id |-> IF i \in L THEN "todo" ELSE "none"]]
  BY <1>1 DEF Candidates, Ready
<1>3. \A i \in Id : row[i] \in Row
  BY DEF TypeOK
<1>4. \A i \in Id : row'[i] \in Row /\ Evolves(row[i], row'[i])
  BY <1>2, <1>3, ClaimedEvolves, SweptEvolves
<1>5. \A i \in L : row[i].state \in Live
  <2>1. ASSUME NEW r \in Row, Swept(r).state = "pending" PROVE r.state \in Live
    BY <2>1 DEF Swept, Reclaimed, Fail, Live, Row
  <2> QED BY <1>2, <1>3, <2>1
<1> QED BY <1>2, <1>4, <1>5 DEF Tracked

LEMMA SettleRowTracked ==
  ASSUME TypeOK, NEW i \in Id, NEW o \in AllOutcomes, SettleRow(i, o)
  PROVE  Tracked
<1>1. CASE row[i].state \notin {"leased", "queued_batch"}
  BY <1>1, UnchangedTracked DEF SettleRow
<1>2. CASE row[i].state \in {"leased", "queued_batch"}
  <2>1. PICK r \in SettledAs(row[i], o) :
          row' = [j \in Id |-> IF j = i THEN r
                              ELSE IF o = "ok" THEN Coalesced(row[j], row[i].fp) ELSE row[j]]
    BY <1>2 DEF SettleRow
  <2>2. \A j \in Id : row[j] \in Row
    BY DEF TypeOK
  <2>3. r \in Row /\ Evolves(row[i], r)
    BY <1>2, <2>2, SettledAsEvolves
  <2>4. \A j \in Id : row'[j] \in Row /\ Evolves(row[j], row'[j])
    BY <2>1, <2>2, <2>3, CoalescedEvolves, StaysEvolves
  <2> QED BY <2>1, <2>4 DEF Tracked
<1> QED BY <1>1, <1>2

LEMMA ReclaimTracked == ASSUME TypeOK, Reclaim PROVE Tracked
<1>1. \A i \in Id : row[i] \in Row
  BY DEF TypeOK
<1>2. row' = [i \in Id |-> Reclaimed(row[i])]
  BY DEF Reclaim
<1> QED BY <1>1, <1>2, ReclaimedEvolves DEF Tracked

LEMMA BackfillTracked == ASSUME TypeOK, Backfill PROVE Tracked
<1>1. \A i \in Id : row[i] \in Row
  BY DEF TypeOK
<1>2. row' = [i \in Id |-> Backfilled(row[i])]
  BY DEF Backfill
<1> QED BY <1>1, <1>2, BackfilledEvolves DEF Tracked

LEMMA DedupPendingTracked == ASSUME TypeOK, DedupPending PROVE Tracked
<1> DEFINE done(r) == [r EXCEPT !.state = "done", !.due = FALSE]
<1>1. \A i \in Id : row[i] \in Row
  BY DEF TypeOK
<1>2. ASSUME NEW r \in Row, r.state = "pending"
      PROVE  done(r) \in Row /\ Evolves(r, done(r))
  BY <1>2, MovedEvolves DEF Live
<1> HIDE DEF done
<1>3. \A i \in Id : \/ row'[i] = done(row[i]) /\ row[i].state = "pending"
                   \/ row'[i] = row[i]
  BY DEF DedupPending, done
<1>4. \A i \in Id : row'[i] \in Row /\ Evolves(row[i], row'[i])
  BY <1>1, <1>2, <1>3, StaysEvolves
<1> QED BY <1>4 DEF Tracked, DedupPending

LEMMA RetireTracked == ASSUME TypeOK, NEW S \in SUBSET Id, Retire(S) PROVE Tracked
<1> DEFINE out(r) == [r EXCEPT !.state = "retired", !.task = NoTask, !.due = FALSE]
<1>1. \A i \in Id : row[i] \in Row
  BY DEF TypeOK
<1>2. ASSUME NEW r \in Row, r.state \in {"pending", "leased"}
      PROVE  out(r) \in Row /\ Evolves(r, out(r))
  BY <1>2 DEF Row, RowState, Settled, Content, Evolves, Moves, RowBudget
<1> HIDE DEF out
<1>3. \A i \in Id : \/ row'[i] = out(row[i]) /\ row[i].state \in {"pending", "leased"}
                   \/ row'[i] = row[i]
  BY DEF Retire, out
<1>4. \A i \in Id : row'[i] \in Row /\ Evolves(row[i], row'[i])
  BY <1>1, <1>2, <1>3, StaysEvolves
<1> QED BY <1>4 DEF Tracked, Retire

LEMMA DeleteTracked == ASSUME TypeOK, NEW S \in SUBSET Id, Delete(S) PROVE Tracked
<1> DEFINE out(r) == [Absent EXCEPT !.state = "gone", !.asked = r.asked]
<1>1. \A i \in Id : row[i] \in Row
  BY DEF TypeOK
<1>2. ASSUME NEW r \in Row, r.state \in Settled
      PROVE  out(r) \in Row /\ Evolves(r, out(r))
  BY <1>2 DEF Absent, Row, RowState, Settled, Content, Evolves, Moves, RowBudget
<1> HIDE DEF out
<1>3. \A i \in Id : \/ row'[i] = out(row[i]) /\ row[i].state \in Settled
                   \/ row'[i] = row[i]
  BY DEF Delete, out
<1>4. \A i \in Id : row'[i] \in Row /\ Evolves(row[i], row'[i])
  BY <1>1, <1>2, <1>3, StaysEvolves
<1> QED BY <1>4 DEF Tracked, Delete

LEMMA TimeTracked ==
  ASSUME TypeOK, NEW i \in Id, TimerElapses(i) \/ DeadlinePasses(i) PROVE Tracked
<1>1. \A j \in Id : row[j] \in Row
  BY DEF TypeOK
<1>2. ASSUME NEW r \in Row
      PROVE  LET s == [r EXCEPT !.due = TRUE] IN s \in Row /\ Evolves(r, s)
  BY DEF Row, Evolves, Moves, RowBudget
<1>3. ASSUME NEW r \in Row
      PROVE  LET s == [r EXCEPT !.sla = "late"] IN s \in Row /\ Evolves(r, s)
  BY DEF Row, Evolves, Moves, RowBudget
<1>4. CASE TimerElapses(i)
  BY <1>1, <1>2, <1>4, StaysEvolves DEF TimerElapses, Tracked
<1>5. CASE DeadlinePasses(i)
  <2> DEFINE late == [row[i] EXCEPT !.sla = "late"]
  <2>1. row' = [row EXCEPT ![i] = late]
    BY <1>5 DEF DeadlinePasses
  <2>2. late \in Row /\ Evolves(row[i], late)
    BY <1>1, <1>3
  <2> HIDE DEF late
  <2> QED BY <1>1, <2>1, <2>2, StaysEvolves DEF TypeOK, Tracked
<1> QED BY <1>4, <1>5

(* An operation that accepts no work inserts no row.                       *)
LEMMA OthersTracked == ASSUME TypeOK, Work \/ Purge \/ Time PROVE Tracked
<1>1. ASSUME NEW d \in Drain, Lease(d) PROVE Tracked
  BY <1>1, LeaseRows
<1>2. ASSUME NEW w \in Worker, Run(w) \/ Crash(w) PROVE Tracked
  BY <1>2, UnchangedTracked DEF Run, Execute, Crash
<1>3. ASSUME NEW w \in Worker, NEW i \in Id, Settle(w, i) PROVE Tracked
  BY <1>3, SettleRowTracked DEF Settle
<1>4. ASSUME NEW w \in Worker, NEW i \in Id, SettleLost(w, i) PROVE Tracked
  BY <1>4, UnchangedTracked DEF SettleLost
<1>5. CASE Purge
  BY <1>5, RetireTracked, DeleteTracked DEF Purge
<1>6. CASE Time
  BY <1>6, TimeTracked DEF Time
<1> QED
  BY <1>1, <1>2, <1>3, <1>4, <1>5, <1>6, ReclaimTracked, BackfillTracked, DedupPendingTracked
     DEF Work

(* Whatever operation runs, every row evolves, or one is inserted.         *)
LEMMA RowEvolution == ASSUME TypeOK, Next PROVE Tracked \/ Inserted
<1>1. ASSUME NEW t \in Task, NEW p \in Priority, NEW s \in Sla, NEW dedup \in Dedup,
             Enqueue(t, p, s, dedup)
      PROVE  Tracked \/ Inserted
  BY <1>1, EnqueueRows
<1>2. ASSUME NEW c \in Caller, NEW t \in Task, NEW p \in Priority, NEW s \in Sla,
             SubmitInline(c, t, p, s)
      PROVE  Inserted
  BY <1>2, SubmitRows
<1> QED BY <1>1, <1>2, OthersTracked DEF Next, Accept

-----------------------------------------------------------------------------
(* The inductive invariant.                                                *)

(* A row in the table or in somebody's hands has a content.                *)
Known ==
  /\ \A i \in Id : IF row[i].state = "absent" THEN row[i].asked = NoTask
                                             ELSE row[i].asked \in Task
  /\ \A w \in Worker, i \in Id : hand[w][i] # "none" => row[i].asked \in Task

(* A deduplicated row is found by the fingerprint of its content.          *)
Addressed ==
  \A i \in Id : row[i].unique
    => row[i].fp = row[i].asked /\ row[i].asked \in Task /\ row[i].state # "gone"

InBudget == \A i \in Id : RowBudget(row[i])

(* Rows are faithful to what was asked, so that a match by fingerprint is  *)
(* a match of contents.                                                    *)
Matching == \A i \in Id : Faithful(row[i])

(* An answer in hand is an answer of some execution to that content.       *)
HandServed == \A w \in Worker, i \in Id : hand[w][i] = "ok" => row[i].asked \in served

(* What the promise to callers rests on, with or without batches.          *)
PromiseInv ==
  /\ TypeOK /\ Known /\ Addressed /\ OneRowPerContent
  /\ Matching /\ HandServed /\ DoneWasServed

IInv == PromiseInv /\ InBudget

LEMMA InitIInv == Init => IInv
<1> SUFFICES ASSUME Init PROVE IInv
  OBVIOUS
<1>1. \A i \in Id : row[i] = Absent
  BY DEF Init
<1>2. TypeOK
  BY AbsentType DEF Init, TypeOK, Empty, Hold
<1>3. Known
  BY <1>1 DEF Init, Known, Absent, Empty
<1>4. Addressed /\ InBudget /\ OneRowPerContent
  BY <1>1 DEF Absent, Addressed, InBudget, RowBudget, OneRowPerContent
<1>5. Matching /\ HandServed /\ DoneWasServed
  BY <1>1 DEF Init, Absent, Empty, Matching, Faithful, HandServed, DoneWasServed
<1> QED BY <1>2, <1>3, <1>4, <1>5 DEF IInv, PromiseInv

(* The rows, under what an operation may do to them.                       *)
RowsKept == /\ row' \in [Id -> Row]
            /\ \A i \in Id : IF row'[i].state = "absent" THEN row'[i].asked = NoTask
                                                        ELSE row'[i].asked \in Task
            /\ Addressed' /\ OneRowPerContent' /\ Matching'

LEMMA ShiftedRows == ASSUME PromiseInv, Shifted PROVE RowsKept
<1>1. \A i \in Id : IF row'[i].state = "absent" THEN row'[i].asked = NoTask
                                               ELSE row'[i].asked \in Task
  BY DEF PromiseInv, Known, Shifted, Moves
<1>2. Addressed'
  BY TaskAssumption DEF PromiseInv, Addressed, Shifted, Moves
<1>3. OneRowPerContent'
  <2> DEFINE Counted == Live \cup {"done", "retired"}
  <2>1. ASSUME NEW i \in Id, row'[i].unique, row'[i].state \in Counted
        PROVE  row[i].unique /\ row[i].state \in Counted /\ row[i].asked = row'[i].asked
    <3>1. row[i] \in Row /\ Moves(row[i], row'[i])
      BY DEF PromiseInv, TypeOK, Shifted
    <3> QED BY <2>1, <3>1 DEF Row, RowState, Live, Settled, Moves
  <2> QED BY <2>1 DEF PromiseInv, OneRowPerContent
<1>4. Matching'
  BY DEF PromiseInv, Matching, Faithful, Shifted, Moves
<1> QED BY <1>1, <1>2, <1>3, <1>4 DEF RowsKept, Shifted

LEMMA InsertedRows == ASSUME PromiseInv, Inserted PROVE RowsKept
<1>1. PICK i \in Id : /\ row[i].state = "absent"
                      /\ row' \in [Id -> Row]
                      /\ Born(row'[i]) /\ row'[i].asked \in Task
                      /\ row'[i].unique => Hits(row'[i].asked) = {}
                      /\ \A j \in Id \ {i} : row'[j] = row[j]
  BY DEF Inserted
<1>2. Addressed'
  BY <1>1 DEF PromiseInv, Addressed, Born
<1>3. \A j \in Id : IF row'[j].state = "absent" THEN row'[j].asked = NoTask
                                               ELSE row'[j].asked \in Task
  BY <1>1 DEF PromiseInv, Known, Born
<1>4. OneRowPerContent'
  <2>1. ASSUME NEW j \in Id \ {i}, row'[i].unique, row'[j].unique,
               row'[j].state \in Live \cup {"done", "retired"}, row'[j].asked = row'[i].asked
        PROVE  FALSE
    BY <1>1, <2>1 DEF PromiseInv, Addressed, Hits, Live
  <2> QED BY <1>1, <2>1 DEF PromiseInv, OneRowPerContent
<1>5. Matching'
  BY <1>1 DEF PromiseInv, Matching, Born
<1> QED BY <1>1, <1>2, <1>3, <1>4, <1>5 DEF RowsKept

LEMMA BudgetStays == ASSUME InBudget, Tracked \/ Inserted PROVE InBudget'
BY DEF InBudget, Tracked, Inserted, Evolves, Born

(* What the workers hold, and the ghosts.                                  *)
HandsKept == /\ hand' \in [Worker -> [Id -> Hold]]
             /\ \A w \in Worker, i \in Id : hand'[w][i] # "none" => row'[i].asked \in Task
             /\ ran' \in [Id -> Nat]
             /\ served' \subseteq Task
             /\ billed' \subseteq Id
             /\ HandServed'

(* All that the steps of the workers need to know of what they hold.       *)
HandsInv == TypeOK /\ Known /\ HandServed

(* An asked content is never exchanged for none.                           *)
LEMMA AskedStays ==
  ASSUME Tracked \/ Inserted, NEW i \in Id, row[i].asked \in Task
  PROVE  row'[i].asked \in Task
BY DEF Tracked, Inserted, Evolves, Moves

(* What is in hand is no absent row's, so what it was asked for stays.     *)
LEMMA HeldStays ==
  ASSUME HandsInv, Tracked \/ Inserted, NEW w \in Worker, NEW i \in Id, hand[w][i] # "none"
  PROVE  row'[i].asked = row[i].asked
<1>1. row[i].state # "absent"
  BY TaskAssumption DEF HandsInv, Known
<1> QED BY <1>1 DEF Tracked, Inserted, Evolves, Moves

LEMMA SameHands ==
  ASSUME HandsInv, Tracked \/ Inserted, UNCHANGED <<hand, ran, served, billed>>
  PROVE  HandsKept
<1>1. HandServed'
  BY HeldStays DEF HandServed, HandsInv
<1> QED BY <1>1, AskedStays DEF HandsKept, HandsInv, TypeOK, Known

LEMMA SubmitHands ==
  ASSUME HandsInv, NEW c \in Caller, NEW t \in Task, NEW p \in Priority, NEW s \in Sla,
         SubmitInline(c, t, p, s)
  PROVE  HandsKept
<1>1. Inserted
  BY SubmitRows DEF HandsInv
<1>2. PICK i \in Id : row'[i].asked \in Task /\ hand' = [hand EXCEPT ![c][i] = "todo"]
  BY SubmitRows DEF HandsInv
<1>3. hand' \in [Worker -> [Id -> Hold]]
  BY <1>2 DEF HandsInv, TypeOK, Hold, Worker
<1>4. \A w \in Worker, j \in Id : hand'[w][j] # "none" => row'[j].asked \in Task
  BY <1>1, <1>2, AskedStays DEF HandsInv, TypeOK, Known
<1>5. HandServed'
  BY <1>1, <1>2, HeldStays DEF HandsInv, HandServed, TypeOK, SubmitInline
<1> QED BY <1>3, <1>4, <1>5 DEF HandsKept, HandsInv, TypeOK, SubmitInline

LEMMA LeaseHands == ASSUME HandsInv, NEW d \in Drain, Lease(d) PROVE HandsKept
<1>1. Tracked
  BY LeaseRows DEF HandsInv
<1>2. PICK L \in SUBSET Id :
        /\ \A i \in L : row[i].state \in Live
        /\ hand' = [hand EXCEPT ![d] = [i \in Id |-> IF i \in L THEN "todo" ELSE "none"]]
  BY LeaseRows DEF HandsInv
<1>3. \A i \in L : row[i].asked \in Task
  BY <1>2 DEF HandsInv, Known, Live
<1>4. hand' \in [Worker -> [Id -> Hold]]
  BY <1>2 DEF HandsInv, TypeOK, Hold
<1>5. \A w \in Worker, j \in Id : hand'[w][j] # "none" => row'[j].asked \in Task
  BY <1>1, <1>2, <1>3, AskedStays DEF HandsInv, TypeOK, Known
<1>6. HandServed'
  BY <1>1, <1>2, HeldStays DEF HandsInv, HandServed, TypeOK, Lease
<1> QED BY <1>4, <1>5, <1>6 DEF HandsKept, HandsInv, TypeOK, Lease

LEMMA RunHands == ASSUME HandsInv, NEW w \in Worker, Run(w) PROVE HandsKept
<1>1. PICK S \in SUBSET Id : \E out \in [S -> Outcomes] : Execute(w, S, out)
  BY DEF Run
<1>2. PICK out \in [S -> Outcomes] : Execute(w, S, out)
  BY <1>1
<1>3. \A i \in S : out[i] \in AllOutcomes /\ hand[w][i] = "todo" /\ row[i].asked \in Task
  BY <1>2, ChoiceAssumption DEF Execute, HandsInv, Known
<1>4. hand' = [hand EXCEPT ![w] = [i \in Id |-> IF i \in S THEN out[i] ELSE hand[w][i]]]
  BY <1>2 DEF Execute
<1>5. hand' \in [Worker -> [Id -> Hold]]
  BY <1>3, <1>4 DEF HandsInv, TypeOK, Hold
<1>6. \A v \in Worker, i \in Id : hand'[v][i] # "none" => row[i].asked \in Task
  BY <1>3, <1>4 DEF HandsInv, TypeOK, Known
<1>7. ran' \in [Id -> Nat]
  BY <1>2 DEF Execute, HandsInv, TypeOK
<1>8. served' \subseteq Task
  BY <1>2, <1>3 DEF Execute, HandsInv, TypeOK
<1>9. row' = row /\ billed' = billed
  BY <1>2 DEF Execute
<1>10. HandServed'
  BY <1>2, <1>4, <1>9 DEF Execute, HandsInv, HandServed, TypeOK
<1> QED BY <1>5, <1>6, <1>7, <1>8, <1>9, <1>10 DEF HandsKept, HandsInv, TypeOK

LEMMA SettleHands ==
  ASSUME HandsInv, NEW w \in Worker, NEW i \in Id, Settle(w, i) \/ SettleLost(w, i)
  PROVE  HandsKept
<1>1. Tracked
  BY SettleRowTracked, UnchangedTracked DEF Settle, SettleLost, HandsInv
<1>2. hand' = [hand EXCEPT ![w][i] = "none"] /\ ran' = ran /\ served' = served
  BY DEF Settle, SettleLost
<1>3. billed' \subseteq Id
  BY DEF Settle, SettleLost, HandsInv, TypeOK
<1>4. hand' \in [Worker -> [Id -> Hold]]
  BY <1>2 DEF HandsInv, TypeOK, Hold
<1>5. \A v \in Worker, j \in Id : hand'[v][j] # "none" => row'[j].asked \in Task
  BY <1>1, <1>2, AskedStays DEF HandsInv, TypeOK, Known
<1>6. HandServed'
  BY <1>1, <1>2, HeldStays DEF HandsInv, HandServed, TypeOK
<1> QED BY <1>2, <1>3, <1>4, <1>5, <1>6 DEF HandsKept, HandsInv, TypeOK

LEMMA CrashHands == ASSUME HandsInv, NEW w \in Worker, Crash(w) PROVE HandsKept
BY DEF Crash, HandsKept, HandsInv, TypeOK, Known, Empty, Hold, HandServed

(* A row gets done by its own answer or by that of a twin.                 *)
AnsweredBy(i, j) == i = j \/ (row[i].fp = row[j].fp /\ row[j].fp # NoTask)

LEMMA TwinsAgree ==
  ASSUME Matching, NEW i \in Id, NEW j \in Id, AnsweredBy(i, j)
  PROVE  row[i].asked = row[j].asked
BY DEF AnsweredBy, Matching, Faithful

LEMMA SettleDone ==
  ASSUME TypeOK, NEW j \in Id, NEW o \in AllOutcomes, SettleRow(j, o),
         NEW i \in Id, row'[i].state = "done", row[i].state # "done"
  PROVE  o = "ok" /\ row[j].state \in {"leased", "queued_batch"} /\ AnsweredBy(i, j)
<1>1. row[j].state \in {"leased", "queued_batch"}
  BY DEF SettleRow
<1>2. PICK r \in SettledAs(row[j], o) :
        row' = [k \in Id |-> IF k = j THEN r
                            ELSE IF o = "ok" THEN Coalesced(row[k], row[j].fp) ELSE row[k]]
  BY <1>1 DEF SettleRow
<1>3. row[j] \in Row
  BY DEF TypeOK
<1>4. r.state = "done" => o = "ok"
  BY <1>1, <1>2, <1>3 DEF SettledAs, Parked, Fail, Row, AllOutcomes
<1>5. Coalesced(row[i], row[j].fp).state = "done" => row[i].fp = row[j].fp /\ row[j].fp # NoTask
  BY DEF Coalesced
<1> QED BY <1>1, <1>2, <1>4, <1>5 DEF AnsweredBy

(* The steps that settle nothing leave done what is done.                  *)
Quiet == \A i \in Id : row'[i].state = "done" => row[i].state = "done"

LEMMA QuietSteps ==
  ASSUME TypeOK,
         \/ Accept \/ (\E d \in Drain : Lease(d)) \/ Reclaim \/ Backfill
         \/ Purge \/ Time \/ UNCHANGED row
  PROVE  Quiet
<1> SUFFICES ASSUME NEW i \in Id, row'[i].state = "done" PROVE row[i].state = "done"
  BY DEF Quiet
<1> DEFINE Idle(r, s) == s.state = "done" => r.state = "done"
<1>1. \A j \in Id : row[j] \in Row
  BY DEF TypeOK
<1>2. ASSUME NEW r \in Row
      PROVE  /\ Idle(r, Fail(r)) /\ Idle(r, Swept(r)) /\ Idle(r, Reclaimed(r))
             /\ Idle(r, Backfilled(r))
  BY DEF Fail, Swept, Reclaimed, Backfilled, Row
<1>3. CASE Accept
  BY <1>3 DEF Accept, Enqueue, Coalesce, Insert, Queued, SubmitInline, HeldBy, queueVars, TypeOK
<1>4. ASSUME NEW d \in Drain, Lease(d) PROVE row[i].state = "done"
  <2>1. PICK L \in SUBSET Id :
          row' = [j \in Id |-> IF j \in L THEN Claimed(Swept(row[j]), L) ELSE Swept(row[j])]
    BY <1>4 DEF Lease
  <2>2. Claimed(Swept(row[i]), L).state = "leased"
    BY <1>1, SweptEvolves DEF Claimed, Row
  <2> QED BY <1>1, <1>2, <2>1, <2>2
<1>5. CASE Reclaim \/ Backfill
  BY <1>1, <1>2, <1>5 DEF Reclaim, Backfill
<1>6. CASE Purge
  <2>1. PICK S \in SUBSET Id : Retire(S) \/ Delete(S)
    BY <1>6 DEF Purge
  <2>2. CASE Retire(S)
    <3>1. \/ row'[i] = row[i]
          \/ row'[i] = [row[i] EXCEPT !.state = "retired", !.task = NoTask, !.due = FALSE]
      BY <2>2 DEF Retire
    <3> QED BY <1>1, <3>1 DEF Row
  <2>3. CASE Delete(S)
    BY <2>3 DEF Delete, Absent
  <2> QED BY <2>1, <2>2, <2>3
<1>7. CASE Time
  <2>1. PICK j \in Id : TimerElapses(j) \/ DeadlinePasses(j)
    BY <1>7 DEF Time
  <2>2. CASE TimerElapses(j)
    <3>1. row'[i] = row[i] \/ row'[i] = [row[i] EXCEPT !.due = TRUE]
      BY <2>2 DEF TimerElapses
    <3> QED BY <1>1, <3>1 DEF Row
  <2>3. CASE DeadlinePasses(j)
    <3>1. row'[i] = row[i] \/ row'[i] = [row[i] EXCEPT !.sla = "late"]
      BY <2>3 DEF DeadlinePasses, TypeOK
    <3> QED BY <1>1, <3>1 DEF Row
  <2> QED BY <2>1, <2>2, <2>3
<1> QED BY <1>3, <1>4, <1>5, <1>6, <1>7

(* Answers are added, never withdrawn, and answer what somebody asked.     *)
Grows == served \subseteq served' /\ served' \ served \subseteq {row[i].asked : i \in Id}

(* What is known of a content asked for stays known of it.                 *)
LEMMA DoneStays ==
  ASSUME PromiseInv, Shifted \/ Inserted, Grows, NEW i \in Id, row[i].state = "done"
  PROVE  row'[i].asked \in served'
BY DEF PromiseInv, DoneWasServed, Shifted, Inserted, Moves, Grows

LEMMA QuietServed ==
  ASSUME PromiseInv, Shifted \/ Inserted, Grows, Quiet PROVE DoneWasServed'
BY DoneStays DEF DoneWasServed, Quiet

LEMMA SettleServed ==
  ASSUME PromiseInv, Grows, NEW j \in Id, NEW o \in AllOutcomes, SettleRow(j, o),
         o = "ok" => row[j].asked \in served'
  PROVE  DoneWasServed'
<1>1. Shifted
  BY SettleRowTracked, TrackedShifts DEF PromiseInv
<1>2. SUFFICES ASSUME NEW i \in Id, row'[i].state = "done", row[i].state # "done"
               PROVE  row'[i].asked \in served'
  BY <1>1, DoneStays DEF DoneWasServed
<1>3. o = "ok" /\ AnsweredBy(i, j)
  BY <1>2, SettleDone DEF PromiseInv
<1>4. row[i].asked = row[j].asked
  BY <1>3, TwinsAgree DEF PromiseInv
<1> QED BY <1>1, <1>3, <1>4 DEF Shifted, Moves

LEMMA DedupServed == ASSUME PromiseInv, Grows, DedupPending PROVE DoneWasServed'
<1>1. Shifted
  BY DedupPendingTracked, TrackedShifts DEF PromiseInv
<1>2. SUFFICES ASSUME NEW i \in Id, row'[i].state = "done", row[i].state # "done"
               PROVE  row'[i].asked \in served'
  BY <1>1, DoneStays DEF DoneWasServed
<1>3. HasDone(row[i].fp)
  BY <1>2 DEF DedupPending
<1>4. PICK j \in Id : row[j].state = "done" /\ AnsweredBy(i, j)
  BY <1>3 DEF HasDone, AnsweredBy
<1>5. row[i].asked = row[j].asked
  BY <1>4, TwinsAgree DEF PromiseInv
<1> QED BY <1>1, <1>4, <1>5 DEF Shifted, Moves, PromiseInv, DoneWasServed, Grows

LEMMA StepGrows == ASSUME Next PROVE Grows
<1>1. ASSUME NEW w \in Worker, Run(w) PROVE Grows
  <2>1. PICK S \in SUBSET Id : \E out \in [S -> Outcomes] : Execute(w, S, out)
    BY <1>1 DEF Run
  <2>2. PICK out \in [S -> Outcomes] : Execute(w, S, out)
    BY <2>1
  <2> QED BY <2>2 DEF Execute, Grows
<1>2. CASE UNCHANGED served
  BY <1>2 DEF Grows
<1> QED
  BY <1>1, <1>2 DEF Next, Accept, Enqueue, Coalesce, Insert, SubmitInline, Work, Lease,
         Settle, SettleLost, Crash, Reclaim, Backfill, DedupPending, Purge, Retire, Delete,
         Time, TimerElapses, DeadlinePasses, queueVars

LEMMA ServedKept == ASSUME IInv, Next PROVE DoneWasServed'
<1>0. PromiseInv /\ TypeOK /\ (Shifted \/ Inserted) /\ Grows
  BY RowEvolution, StepGrows, TrackedShifts DEF IInv, PromiseInv
<1>1. ASSUME NEW w \in Worker, NEW j \in Id, Settle(w, j) PROVE DoneWasServed'
  <2>1. hand[w][j] = "ok" => row[j].asked \in served'
    BY <1>0 DEF PromiseInv, HandServed, Grows
  <2> QED BY <1>0, <1>1, <2>1, SettleServed DEF Settle
<1>2. CASE DedupPending
  BY <1>0, <1>2, DedupServed
<1>3. ASSUME NEW w \in Worker, NEW j \in Id, SettleLost(w, j) PROVE DoneWasServed'
  <2>1. UNCHANGED row
    BY <1>3 DEF SettleLost
  <2> QED BY <1>0, <2>1, QuietSteps, QuietServed
<1>4. CASE Accept \/ (\E d \in Drain : Lease(d)) \/ Reclaim \/ Backfill \/ Purge \/ Time
  BY <1>0, <1>4, QuietSteps, QuietServed
<1>5. ASSUME NEW w \in Worker, Run(w) \/ Crash(w) PROVE DoneWasServed'
  <2>1. UNCHANGED row
    BY <1>5 DEF Run, Execute, Crash
  <2> QED BY <1>0, <2>1, QuietSteps, QuietServed
<1> QED BY <1>1, <1>2, <1>3, <1>4, <1>5 DEF Next, Work

LEMMA NextIInv == IInv /\ [Next]_queueVars => IInv'
<1> SUFFICES ASSUME IInv, HandsInv, [Next]_queueVars PROVE IInv'
  BY DEF IInv, PromiseInv, HandsInv
<1>1. CASE UNCHANGED queueVars
  <2>1. Tracked /\ UNCHANGED <<hand, ran, served, billed>>
    BY <1>1, UnchangedTracked DEF queueVars, IInv, PromiseInv
  <2>2. DoneWasServed'
    BY <1>1 DEF queueVars, IInv, PromiseInv, DoneWasServed
  <2> QED BY <2>1, <2>2, TrackedShifts, ShiftedRows, BudgetStays, SameHands
            DEF RowsKept, HandsKept, IInv, PromiseInv, TypeOK, Known
<1>2. CASE Next
  <2>1. Tracked \/ Inserted
    BY <1>2, RowEvolution DEF IInv, PromiseInv
  <2>2. RowsKept /\ InBudget'
    BY <2>1, TrackedShifts, ShiftedRows, InsertedRows, BudgetStays DEF IInv
  <2>3. HandsKept
    <3>1. ASSUME NEW t \in Task, NEW p \in Priority, NEW s \in Sla, NEW dedup \in Dedup,
                 Enqueue(t, p, s, dedup)
          PROVE  UNCHANGED <<hand, ran, served, billed>>
      BY <3>1 DEF Enqueue, Coalesce, Insert, queueVars
    <3>2. ASSUME NEW c \in Caller, NEW t \in Task, NEW p \in Priority, NEW s \in Sla,
                 SubmitInline(c, t, p, s)
          PROVE  HandsKept
      BY <3>2, SubmitHands
    <3>3. ASSUME NEW d \in Drain, Lease(d) PROVE HandsKept
      BY <3>3, LeaseHands
    <3>4. ASSUME NEW w \in Worker, Run(w) \/ Crash(w) PROVE HandsKept
      BY <3>4, RunHands, CrashHands
    <3>5. ASSUME NEW w \in Worker, NEW i \in Id, Settle(w, i) \/ SettleLost(w, i)
          PROVE  HandsKept
      BY <3>5, SettleHands
    <3>6. CASE Reclaim \/ Backfill \/ DedupPending \/ Purge \/ Time
      <4>1. UNCHANGED <<hand, ran, served, billed>>
        BY <3>6 DEF Reclaim, Backfill, DedupPending, Purge, Retire, Delete, Time,
                    TimerElapses, DeadlinePasses
      <4> QED BY <2>1, <4>1, SameHands
    <3> QED
      BY <1>2, <2>1, <3>1, <3>2, <3>3, <3>4, <3>5, <3>6, SameHands DEF Next, Accept, Work
  <2>4. DoneWasServed'
    BY <1>2, ServedKept
  <2> QED BY <2>2, <2>3, <2>4 DEF RowsKept, HandsKept, IInv, PromiseInv, TypeOK, Known
<1> QED BY <1>1, <1>2

THEOREM Invariance == Spec => []IInv
BY InitIInv, NextIInv, PTL DEF Spec

-----------------------------------------------------------------------------
(* The theorems.                                                           *)

(* Every column keeps its domain, for any number of ids, workers and       *)
(* contents.                                                               *)
THEOREM TypeCorrect == Spec => []TypeOK
<1>1. IInv => TypeOK
  BY DEF IInv, PromiseInv, PromiseInv
<1> QED BY <1>1, Invariance, PTL

(* No interleaving of workers, sweeps, parks and late settles takes a row  *)
(* past its retry budget: it waits with an attempt left and is leased      *)
(* within the budget.                                                      *)
THEOREM BudgetKept == Spec => []RetryBudget
<1>1. IInv => RetryBudget
  BY DEF IInv, PromiseInv, InBudget, RowBudget, RetryBudget
<1> QED BY <1>1, Invariance, PTL

(* Content-addressed dedup: of the rows that deduplicating callers         *)
(* inserted for one content, at most one is not failed.                    *)
THEOREM NeverQueuedTwice == Spec => []OneRowPerContent
<1>1. IInv => OneRowPerContent
  BY DEF IInv, PromiseInv, PromiseInv
<1> QED BY <1>1, Invariance, PTL

(* No plausible success: whatever late workers, twins and sweeps do, a row *)
(* is done only if an execution answered its very content.                 *)
THEOREM DoneIsServed == Spec => []DoneWasServed
<1>1. IInv => DoneWasServed
  BY DEF IInv, PromiseInv, PromiseInv
<1> QED BY <1>1, Invariance, PTL

(* F2: settle, sweeps and twins never move a settled row.                  *)
THEOREM SettledForGood == Spec => SettledStays
<1> DEFINE Stays == \A i \in Id : row[i].state \in Settled
                                 => row'[i].state \in {row[i].state, "gone"}
<1>1. IInv /\ [Next]_queueVars => [Stays]_queueVars
  <2> SUFFICES ASSUME IInv, Next PROVE Stays
    OBVIOUS
  <2>1. CASE Tracked
    BY <2>1 DEF Tracked, Evolves, Moves
  <2>2. CASE Inserted
    BY <2>2 DEF Inserted, Settled
  <2> QED BY <2>1, <2>2, RowEvolution DEF IInv, PromiseInv, PromiseInv
<1> QED BY <1>1, Invariance, PTL DEF Spec, SettledStays

(* No row gets done and leaves a twin pending.                             *)
NoneWaits ==
  \A i \in Id : row[i].state # "done" /\ row'[i].state = "done" /\ row[i].fp # NoTask
    => \A j \in Id : row'[j].state = "pending" => row'[j].fp # row[i].fp

LEMMA SettleTwins ==
  ASSUME TypeOK, NEW j \in Id, NEW o \in AllOutcomes, SettleRow(j, o) PROVE NoneWaits
<1> SUFFICES ASSUME NEW i \in Id, NEW k \in Id,
                    row[i].state # "done", row'[i].state = "done", row[i].fp # NoTask,
                    row'[k].state = "pending", row'[k].fp = row[i].fp
             PROVE  FALSE
  BY DEF NoneWaits
<1>1. o = "ok" /\ row[j].state \in {"leased", "queued_batch"} /\ row[j].fp = row[i].fp
  BY SettleDone DEF AnsweredBy
<1>2. PICK r \in SettledAs(row[j], "ok") :
        row' = [m \in Id |-> IF m = j THEN r ELSE Coalesced(row[m], row[j].fp)]
  BY <1>1 DEF SettleRow
<1>3. row[j] \in Row /\ row[k] \in Row
  BY DEF TypeOK
<1>4. r.state = "done"
  BY <1>2, <1>3 DEF SettledAs, Row
<1>5. row'[k] = Coalesced(row[k], row[j].fp)
  BY <1>2, <1>4
<1> QED BY <1>1, <1>3, <1>5 DEF Coalesced, Row

LEMMA DedupTwins == ASSUME TypeOK, DedupPending PROVE NoneWaits
<1> SUFFICES ASSUME NEW i \in Id, NEW k \in Id,
                    row[i].state # "done", row'[i].state = "done",
                    row'[k].state = "pending", row'[k].fp = row[i].fp
             PROVE  FALSE
  BY DEF NoneWaits
<1>0. row[k] \in Row
  BY DEF TypeOK
<1>1. row'[k] = row[k] /\ row'[i] # row[i] /\ row[k].state = "pending" /\ ~HasDone(row[k].fp)
  BY <1>0 DEF DedupPending, Row
<1>2. HasDone(row[i].fp)
  BY <1>1 DEF DedupPending
<1> QED BY <1>1, <1>2

LEMMA QuietTwins == ASSUME Quiet PROVE NoneWaits
BY DEF Quiet, NoneWaits

(* A row that gets done leaves no twin pending: neither the result of a    *)
(* worker nor the sweep over finished contents stores an answer for one    *)
(* row and lets another of the same fingerprint be bought again.           *)
THEOREM TwinsSettleTogether == Spec => NoTwinLeftWaiting
<1>1. ASSUME TypeOK, Next PROVE NoneWaits
  <2>1. ASSUME NEW w \in Worker, NEW j \in Id, Settle(w, j) PROVE NoneWaits
    BY <1>1, <2>1, SettleTwins DEF Settle
  <2>2. CASE DedupPending
    BY <1>1, <2>2, DedupTwins
  <2>3. CASE Accept \/ (\E d \in Drain : Lease(d)) \/ Reclaim \/ Backfill \/ Purge \/ Time
    BY <1>1, <2>3, QuietSteps, QuietTwins
  <2>4. CASE UNCHANGED row
    BY <1>1, <2>4, QuietSteps, QuietTwins
  <2> QED
    BY <1>1, <2>1, <2>2, <2>3, <2>4 DEF Next, Work, Run, Execute, Crash, SettleLost
<1>2. TypeOK /\ [Next]_queueVars => [NoneWaits]_queueVars
  BY <1>1
<1> QED BY <1>2, TypeCorrect, PTL DEF Spec, NoTwinLeftWaiting, NoneWaits

-----------------------------------------------------------------------------
(* The queue keeps its promise.                                            *)

LEMMA PromiseStarts == ASSUME Init PROVE Promise!Init
BY DEF Init, Absent, StatusOf, Promise!Init

(* A step that inserts a row accepts its content.                          *)
LEMMA InsertAccepts ==
  ASSUME PromiseInv, PromiseInv', Inserted, UNCHANGED served PROVE Promise!Next
<1>1. PICK i \in Id : /\ row[i].state = "absent"
                      /\ Born(row'[i]) /\ row'[i].asked \in Task
                      /\ \A j \in Id \ {i} : row'[j] = row[j]
  BY DEF Inserted
<1> DEFINE t == row'[i].asked
           asked == [j \in Id |-> row[j].asked]
           status == [j \in Id |-> StatusOf(row[j].state)]
           sole == {j \in Id : row[j].unique}
<1>2. status[i] = "none" /\ status' = [status EXCEPT ![i] = "open"]
  BY <1>1 DEF Born, StatusOf, Live
<1>3. asked' = [asked EXCEPT ![i] = t]
  BY <1>1
<1>4. row[i].unique = FALSE
  BY <1>1, TaskAssumption DEF PromiseInv, Addressed, Known, TypeOK, Row
<1>5. CASE ~row'[i].unique
  <2>1. sole' = sole
    BY <1>1, <1>4, <1>5
  <2> QED BY <1>1, <1>2, <1>3, <2>1 DEF Promise!Next, Promise!Accept
<1>6. CASE row'[i].unique
  <2>1. sole' = sole \cup {i}
    BY <1>1, <1>6
  <2>2. ASSUME NEW j \in sole, row[j].asked = t PROVE row[j].state = "failed"
    <3>1. j # i /\ row[j] \in Row /\ row'[j] = row[j]
      BY <1>1, <1>4, <2>2 DEF PromiseInv, TypeOK
    <3>2. row[j].state \notin Live \cup {"done", "retired"}
      BY <1>1, <1>6, <2>2, <3>1 DEF PromiseInv, OneRowPerContent, Born, Live
    <3>3. row[j].state \notin {"absent", "gone"}
      BY <2>2, TaskAssumption DEF PromiseInv, Addressed, Known
    <3> QED BY <3>1, <3>2, <3>3 DEF Row, RowState, Settled
  <2>3. Promise!Unheard(t)
    BY <2>2 DEF Promise!Unheard, StatusOf, Live
  <2> QED BY <1>1, <1>2, <1>3, <2>1, <2>3 DEF Promise!Next, Promise!Accept
<1> QED BY <1>5, <1>6

(* Any other step answers, ends or forgets rows, or is not seen.           *)
LEMMA ShiftAdvances ==
  ASSUME PromiseInv, PromiseInv', Shifted, Grows PROVE Promise!Next
<1> DEFINE asked == [j \in Id |-> row[j].asked]
           status == [j \in Id |-> StatusOf(row[j].state)]
           sole == {j \in Id : row[j].unique}
<1>1. \A i \in Id : row[i] \in Row /\ row'[i] \in Row /\ Moves(row[i], row'[i])
  BY DEF PromiseInv, TypeOK, Shifted
<1>2. status' \in [Id -> Promise!Status]
  <2>1. ASSUME NEW r \in Row PROVE StatusOf(r.state) \in Promise!Status
    BY DEF StatusOf, Row, RowState, Live, Settled, Promise!Status, Promise!Ended
  <2> QED BY <1>1, <2>1
<1>3. asked' = asked
  BY <1>1 DEF Moves
<1>4. served' \in SUBSET Task /\ served' \ served \subseteq {asked[i] : i \in Id}
  BY DEF PromiseInv, TypeOK, Grows
<1>5. ASSUME NEW i \in Id
      PROVE  status'[i] = status[i] \/ Promise!Ends(i) \/ Promise!Forgotten(i)
  <2>1. row'[i].state = "done" => row'[i].asked \in served'
    BY DEF PromiseInv, DoneWasServed
  <2>2. row'[i].asked = row[i].asked
    BY <1>1 DEF Moves
  <2>3. CASE row[i].state \in {"absent", "gone"}
    BY <1>1, <2>3 DEF Moves
  <2>4. CASE row[i].state \in Settled
    BY <1>1, <2>4 DEF Moves, StatusOf, Settled, Live, Promise!Forgotten, Promise!Ended
  <2>5. CASE row[i].state \in Live
    BY <1>1, <2>1, <2>2, <2>5
       DEF Moves, StatusOf, Row, RowState, Settled, Live, Promise!Ends, Promise!Ended
  <2> QED BY <1>1, <2>3, <2>4, <2>5 DEF Row, RowState
<1>6. \A i \in Id : Promise!Forgotten(i) <=> row[i].state # "gone" /\ row'[i].state = "gone"
  BY <1>1 DEF Moves, StatusOf, Row, RowState, Settled, Live, Promise!Forgotten, Promise!Ended
<1>7. sole' = {i \in sole : ~Promise!Forgotten(i)}
  BY <1>1, <1>6 DEF Moves
<1> QED BY <1>2, <1>3, <1>4, <1>5, <1>7 DEF Grows, Promise!Next, Promise!Advance

LEMMA NothingSeen == ASSUME UNCHANGED queueVars PROVE UNCHANGED Promise!promiseVars
BY DEF queueVars, Promise!promiseVars

(* The queue implements what it promises its callers: every step of a      *)
(* worker, a sweep, a purge or a crash accepts a content, answers, ends or *)
(* forgets rows as the promise allows, or is not seen.                     *)
THEOREM KeepsThePromise == Spec => KeepsItsWord
<1>1. ASSUME IInv, IInv', Next PROVE Promise!Next
  <2>1. Grows /\ PromiseInv /\ PromiseInv' /\ (Shifted \/ Inserted)
    BY <1>1, StepGrows, RowEvolution, TrackedShifts DEF IInv, PromiseInv
  <2>2. CASE Accept
    <3>1. UNCHANGED served
      BY <2>2 DEF Accept, Enqueue, Coalesce, Insert, SubmitInline, queueVars
    <3> QED BY <2>1, <3>1, InsertAccepts, ShiftAdvances
  <2>3. CASE Work \/ Purge \/ Time
    BY <2>1, <2>3, OthersTracked, TrackedShifts, ShiftAdvances DEF PromiseInv
  <2> QED BY <1>1, <2>2, <2>3 DEF Next
<1>2. IInv /\ IInv' /\ [Next]_queueVars => [Promise!Next]_(Promise!promiseVars)
  BY <1>1, NothingSeen
<1>3. Init => Promise!Init
  BY PromiseStarts
<1> QED BY <1>2, <1>3, Invariance, PTL DEF Spec, KeepsItsWord, Promise!Spec
=============================================================================
