------------------------- MODULE LaneBudget_proofs -------------------------
(***************************************************************************)
(* A lane executes the task of one row at most max_attempts times.         *)
(*                                                                         *)
(* The attempts column does not count executions: a park refunds one, and  *)
(* a worker that lost its lease may still execute the row.  What holds is  *)
(* that every worker still ahead of its execution, or about to refund it,  *)
(* has paid for it: the executions so far and those workers together never *)
(* exceed the attempts of the row.                                         *)
(***************************************************************************)
EXTENDS LaneQueue_proofs, FiniteSetTheorems

(* The workers that may execute row i, or park it without having executed. *)
Ahead(i) == {w \in Worker : hand[w][i] \in {"todo", "saturated"}}
AheadNext(i) == {w \in Worker : hand'[w][i] \in {"todo", "saturated"}}

(* Deleting a row forgets its attempts, which were at most MaxAttempts.    *)
Paid(r) == IF r.state = "gone" THEN MaxAttempts ELSE r.attempts

Spent ==
  \A i \in Id : /\ ran[i] + Cardinality(Ahead(i)) <= Paid(row[i])
                /\ row[i].attempts <= MaxAttempts
                /\ row[i].state = "absent" => ran[i] = 0

(* No "queued_batch without a handle", which executes and still refunds.   *)
Sober == "unhandled" \notin Outcomes /\ IsFiniteSet(Worker)

SoberHands == \A w \in Worker, i \in Id : hand[w][i] # "unhandled"

SpentInv == IInv /\ SoberHands /\ Spent

(* A row keeps its attempts, or is deleted.                                *)
Kept(r, s) == s.attempts = r.attempts \/ (s.state = "gone" /\ s.attempts = 0)

SpentNext ==
  \A i \in Id : /\ ran'[i] + Cardinality(AheadNext(i)) <= Paid(row'[i])
                /\ row'[i].attempts <= MaxAttempts
                /\ row'[i].state = "absent" => ran'[i] = 0

-----------------------------------------------------------------------------
(* Counting the workers.                                                   *)

LEMMA AheadCount ==
  ASSUME IsFiniteSet(Worker), NEW i \in Id
  PROVE  /\ IsFiniteSet(Ahead(i)) /\ IsFiniteSet(AheadNext(i))
         /\ Cardinality(Ahead(i)) \in Nat /\ Cardinality(AheadNext(i)) \in Nat
<1>1. Ahead(i) \in SUBSET Worker /\ AheadNext(i) \in SUBSET Worker
  BY DEF Ahead, AheadNext
<1> QED BY <1>1, FS_Subset, FS_CardinalityType

(* No worker came ahead of row i, and w may have left.                     *)
LEMMA AheadShrinks ==
  ASSUME IsFiniteSet(Worker), NEW i \in Id, AheadNext(i) \subseteq Ahead(i)
  PROVE  /\ Cardinality(AheadNext(i)) <= Cardinality(Ahead(i))
         /\ \A w \in Ahead(i) : w \notin AheadNext(i)
              => Cardinality(AheadNext(i)) + 1 <= Cardinality(Ahead(i))
<1>1. Cardinality(AheadNext(i)) <= Cardinality(Ahead(i))
  BY AheadCount, FS_Subset
<1>2. ASSUME NEW w \in Ahead(i), w \notin AheadNext(i)
      PROVE  Cardinality(AheadNext(i)) + 1 <= Cardinality(Ahead(i))
  <2>1. AheadNext(i) \in SUBSET (Ahead(i) \ {w})
    BY <1>2
  <2>2. /\ IsFiniteSet(Ahead(i) \ {w})
        /\ Cardinality(Ahead(i) \ {w}) = Cardinality(Ahead(i)) - 1
    BY <1>2, AheadCount, FS_RemoveElement
  <2>3. Cardinality(AheadNext(i)) <= Cardinality(Ahead(i) \ {w})
    BY <2>1, <2>2, FS_Subset
  <2> QED BY <2>2, <2>3, AheadCount
<1> QED BY <1>1, <1>2

LEMMA AheadGrows ==
  ASSUME IsFiniteSet(Worker), NEW i \in Id, NEW w \in Worker, AheadNext(i) \subseteq Ahead(i) \cup {w}
  PROVE  Cardinality(AheadNext(i)) <= Cardinality(Ahead(i)) + 1
<1>1. /\ IsFiniteSet(Ahead(i) \cup {w})
      /\ Cardinality(Ahead(i) \cup {w}) <= Cardinality(Ahead(i)) + 1
  <2>1. /\ IsFiniteSet(Ahead(i) \cup {w})
        /\ Cardinality(Ahead(i) \cup {w}) = IF w \in Ahead(i) THEN Cardinality(Ahead(i))
                                                             ELSE Cardinality(Ahead(i)) + 1
    BY AheadCount, FS_AddElement
  <2> QED BY <2>1, AheadCount
<1>2. Cardinality(AheadNext(i)) <= Cardinality(Ahead(i) \cup {w})
  BY <1>1, FS_Subset
<1>3. Cardinality(Ahead(i) \cup {w}) \in Nat
  BY <1>1, FS_CardinalityType
<1> QED BY <1>1, <1>2, <1>3, AheadCount

-----------------------------------------------------------------------------
(* The rows.                                                               *)

LEMMA Types ==
  ASSUME SpentInv, NEW i \in Id
  PROVE  /\ row[i] \in Row /\ row[i].attempts \in Nat /\ ran[i] \in Nat
         /\ RowBudget(row[i]) /\ Paid(row[i]) \in Nat /\ Paid(row[i]) <= MaxAttempts
         /\ row[i].state = "absent" => Ahead(i) = {}
<1>1. row[i] \in Row /\ ran[i] \in Nat /\ RowBudget(row[i])
  BY DEF SpentInv, IInv, PromiseInv, TypeOK, InBudget
<1>2. row[i].attempts \in Nat
  BY <1>1 DEF Row
<1>3. Paid(row[i]) \in Nat /\ Paid(row[i]) <= MaxAttempts
  BY <1>2, BudgetAssumption DEF SpentInv, Spent, Paid
<1>4. row[i].state = "absent" => Ahead(i) = {}
  BY TaskAssumption DEF SpentInv, IInv, PromiseInv, Known, Ahead
<1> QED BY <1>1, <1>2, <1>3, <1>4

LEMMA SweptKeeps == ASSUME NEW r \in Row PROVE Swept(r).attempts = r.attempts
BY DEF Swept, Reclaimed, Fail, Row

LEMMA KeptPaid ==
  ASSUME SpentInv, Tracked, NEW i \in Id, Kept(row[i], row'[i])
  PROVE  /\ Paid(row[i]) <= Paid(row'[i]) /\ Paid(row'[i]) \in Nat
         /\ row'[i].attempts <= MaxAttempts
         /\ row'[i].state = "absent" => row[i].state = "absent"
<1>1. Evolves(row[i], row'[i])
  BY DEF Tracked
<1>2. row[i].attempts <= MaxAttempts
  BY DEF SpentInv, Spent
<1> QED BY <1>1, <1>2, Types, BudgetAssumption DEF Kept, Paid, Evolves, Moves

(* The steps in which nobody executes, comes ahead or is refunded.         *)
LEMMA SpentStays ==
  ASSUME Sober, SpentInv, Tracked, ran' = ran,
         \A i \in Id : Kept(row[i], row'[i]) /\ AheadNext(i) \subseteq Ahead(i)
  PROVE  SpentNext
<1> SUFFICES ASSUME NEW i \in Id
             PROVE  /\ ran'[i] + Cardinality(AheadNext(i)) <= Paid(row'[i])
                    /\ row'[i].attempts <= MaxAttempts
                    /\ row'[i].state = "absent" => ran'[i] = 0
  BY DEF SpentNext
<1>1. Cardinality(AheadNext(i)) <= Cardinality(Ahead(i))
  BY AheadShrinks DEF Sober
<1>2. ran[i] + Cardinality(Ahead(i)) <= Paid(row[i]) /\ (row[i].state = "absent" => ran[i] = 0)
  BY DEF SpentInv, Spent
<1>3. Cardinality(Ahead(i)) \in Nat /\ Cardinality(AheadNext(i)) \in Nat
  BY AheadCount DEF Sober
<1> QED BY <1>1, <1>2, <1>3, KeptPaid, Types

(* A row is born with the attempts that its caller spends on it.           *)
LEMMA SpentBorn ==
  ASSUME Sober, SpentInv, NEW i \in Id, row[i].state = "absent", ran' = ran,
         row'[i].attempts \in {0, 1}, row'[i].state \in {"pending", "leased"},
         \A j \in Id \ {i} : row'[j] = row[j] /\ AheadNext(j) \subseteq Ahead(j),
         \/ AheadNext(i) = {}
         \/ row'[i].attempts = 1 /\ \E c \in Worker : AheadNext(i) \subseteq {c}
  PROVE  SpentNext
<1>1. ASSUME NEW j \in Id \ {i}
      PROVE  /\ ran'[j] + Cardinality(AheadNext(j)) <= Paid(row'[j])
             /\ row'[j].attempts <= MaxAttempts
             /\ row'[j].state = "absent" => ran'[j] = 0
  <2>1. Cardinality(AheadNext(j)) <= Cardinality(Ahead(j))
    BY <1>1, AheadShrinks DEF Sober
  <2>2. /\ ran[j] + Cardinality(Ahead(j)) <= Paid(row[j]) /\ row[j].attempts <= MaxAttempts
        /\ row[j].state = "absent" => ran[j] = 0
    BY DEF SpentInv, Spent
  <2>3. Cardinality(Ahead(j)) \in Nat /\ Cardinality(AheadNext(j)) \in Nat
    BY AheadCount DEF Sober
  <2> QED BY <1>1, <2>1, <2>2, <2>3, Types
<1>2. /\ ran'[i] + Cardinality(AheadNext(i)) <= Paid(row'[i])
      /\ row'[i].attempts <= MaxAttempts
      /\ row'[i].state = "absent" => ran'[i] = 0
  <2>1. ran'[i] = 0
    BY DEF SpentInv, Spent
  <2>2. Cardinality(AheadNext(i)) \in Nat
    BY AheadCount DEF Sober
  <2>3. Ahead(i) = {}
    BY Types
  <2>4. Cardinality(Ahead(i)) = 0
    BY <2>3, FS_EmptySet
  <2>5. CASE AheadNext(i) = {}
    <3>1. Cardinality(AheadNext(i)) = 0
      BY <2>5, FS_EmptySet
    <3> QED BY <2>1, <2>2, <3>1, BudgetAssumption DEF Paid
  <2>6. ASSUME NEW c \in Worker, AheadNext(i) \subseteq {c}, row'[i].attempts = 1
        PROVE  /\ ran'[i] + Cardinality(AheadNext(i)) <= Paid(row'[i])
               /\ row'[i].attempts <= MaxAttempts
    <3>1. Cardinality(AheadNext(i)) <= 1
      BY <2>2, <2>3, <2>4, <2>6, AheadGrows DEF Sober
    <3> QED BY <2>1, <2>2, <2>6, <3>1, BudgetAssumption DEF Paid
  <2> QED BY <2>1, <2>5, <2>6
<1> QED BY <1>1, <1>2 DEF SpentNext

-----------------------------------------------------------------------------
(* The operations.                                                         *)

LEMMA EnqueueSpent ==
  ASSUME Sober, SpentInv, NEW t \in Task, NEW p \in Priority, NEW s \in Sla, NEW dedup \in Dedup,
         Enqueue(t, p, s, dedup)
  PROVE  SpentNext
<1>1. UNCHANGED <<hand, ran>>
  BY DEF Enqueue, Coalesce, Insert, queueVars
<1>2. \A j \in Id : AheadNext(j) = Ahead(j)
  BY <1>1 DEF Ahead, AheadNext
<1>3. PICK i \in Id : (dedup /\ Coalesce(t, i)) \/ Insert(t, i, p, s, dedup)
  BY DEF Enqueue
<1>4. CASE dedup /\ Coalesce(t, i)
  <2>1. row' = row
    BY <1>4 DEF Coalesce, queueVars
  <2>2. Tracked
    BY <2>1, UnchangedTracked DEF SpentInv, IInv, PromiseInv
  <2> QED BY <1>1, <1>2, <2>1, <2>2, SpentStays DEF Kept
<1>5. CASE Insert(t, i, p, s, dedup)
  <2>1. row[i].state = "absent" /\ row' = [row EXCEPT ![i] = Queued(t, p, s, dedup)]
    BY <1>5 DEF Insert, IsFresh
  <2>2. row'[i].attempts = 0 /\ row'[i].state = "pending"
    BY <2>1 DEF Queued, SpentInv, IInv, PromiseInv, TypeOK
  <2>3. \A j \in Id \ {i} : row'[j] = row[j]
    BY <2>1 DEF SpentInv, IInv, PromiseInv, TypeOK
  <2>4. AheadNext(i) = {}
    BY <1>2, <2>1, Types
  <2> QED BY <1>1, <1>2, <2>1, <2>2, <2>3, <2>4, SpentBorn
<1> QED BY <1>3, <1>4, <1>5

LEMMA SubmitSpent ==
  ASSUME Sober, SpentInv, NEW c \in Caller, NEW t \in Task, NEW p \in Priority, NEW s \in Sla,
         SubmitInline(c, t, p, s)
  PROVE  SpentNext
<1>0. c \in Worker /\ hand \in [Worker -> [Id -> Hold]]
  BY DEF Worker, SpentInv, IInv, PromiseInv, TypeOK
<1>1. PICK i \in Id : /\ IsFresh(i) /\ row' = [row EXCEPT ![i] = HeldBy(t, p, s, i)]
                      /\ hand' = [hand EXCEPT ![c][i] = "todo"]
  BY DEF SubmitInline
<1>2. row[i].state = "absent"
  BY <1>1 DEF IsFresh
<1>3. row'[i].attempts = 1 /\ row'[i].state = "leased"
  BY <1>1 DEF HeldBy, SpentInv, IInv, PromiseInv, TypeOK
<1>4. \A j \in Id \ {i} : row'[j] = row[j] /\ AheadNext(j) \subseteq Ahead(j)
  BY <1>0, <1>1 DEF SpentInv, IInv, PromiseInv, TypeOK, Ahead, AheadNext
<1>5. AheadNext(i) \subseteq {c}
  <2>1. Ahead(i) = {}
    BY <1>2, Types
  <2> QED BY <1>0, <1>1, <2>1 DEF Ahead, AheadNext
<1> QED BY <1>0, <1>2, <1>3, <1>4, <1>5, SpentBorn DEF SubmitInline

LEMMA LeaseSpent == ASSUME Sober, SpentInv, NEW d \in Drain, Lease(d) PROVE SpentNext
<1>0. d \in Worker /\ hand \in [Worker -> [Id -> Hold]] /\ hand[d] = Empty
  BY DEF Worker, SpentInv, IInv, PromiseInv, TypeOK, Lease
<1>1. PICK C \in SUBSET Id : \E L \in SUBSET C :
        /\ Candidates(C) \/ C = {}
        /\ row' = [i \in Id |-> IF i \in L THEN Claimed(Swept(row[i]), L) ELSE Swept(row[i])]
        /\ hand' = [hand EXCEPT ![d] = [i \in Id |-> IF i \in L THEN "todo" ELSE "none"]]
  BY DEF Lease
<1>2. PICK L \in SUBSET Id :
        /\ \A i \in L : Swept(row[i]).state = "pending"
        /\ row' = [i \in Id |-> IF i \in L THEN Claimed(Swept(row[i]), L) ELSE Swept(row[i])]
        /\ hand' = [hand EXCEPT ![d] = [i \in Id |-> IF i \in L THEN "todo" ELSE "none"]]
  BY <1>1 DEF Candidates, Ready
<1>3. ASSUME NEW i \in Id
      PROVE  /\ row[i] \in Row /\ Swept(row[i]) \in Row /\ Evolves(row[i], Swept(row[i]))
             /\ Swept(row[i]).attempts = row[i].attempts
             /\ ran[i] + Cardinality(Ahead(i)) <= Paid(row[i]) /\ row[i].attempts <= MaxAttempts
             /\ row[i].state = "absent" => ran[i] = 0
             /\ Cardinality(Ahead(i)) \in Nat /\ Cardinality(AheadNext(i)) \in Nat
             /\ Paid(row[i]) \in Nat /\ row[i].attempts \in Nat /\ ran'[i] = ran[i]
             /\ ran[i] \in Nat /\ RowBudget(row[i])
  BY Types, SweptEvolves, SweptKeeps, AheadCount DEF Lease, SpentInv, Spent, Sober
<1>4. ASSUME NEW i \in Id, i \in L
      PROVE  /\ ran'[i] + Cardinality(AheadNext(i)) <= Paid(row'[i])
             /\ row'[i].attempts <= MaxAttempts
             /\ row'[i].state = "absent" => ran'[i] = 0
  <2>1. row'[i] = Claimed(Swept(row[i]), L)
    BY <1>2, <1>4
  <2>2. row'[i].attempts = row[i].attempts + 1 /\ row'[i].state = "leased"
    BY <1>3, <2>1 DEF Claimed, Row
  <2>3. RowBudget(row'[i])
    BY <1>2, <1>3, <1>4, <2>1, ClaimedEvolves DEF Evolves, Moves
  <2>4. row[i].state # "gone"
    BY <1>2, <1>3, <1>4 DEF Evolves, Moves
  <2>5. AheadNext(i) \subseteq Ahead(i) \cup {d}
    BY <1>0, <1>2 DEF Ahead, AheadNext
  <2>6. Cardinality(AheadNext(i)) <= Cardinality(Ahead(i)) + 1
    BY <1>0, <2>5, AheadGrows DEF Sober
  <2> QED BY <1>3, <2>2, <2>3, <2>4, <2>6, BudgetAssumption DEF Paid, RowBudget
<1>5. ASSUME NEW i \in Id, i \notin L
      PROVE  /\ ran'[i] + Cardinality(AheadNext(i)) <= Paid(row'[i])
             /\ row'[i].attempts <= MaxAttempts
             /\ row'[i].state = "absent" => ran'[i] = 0
  <2>1. row'[i] = Swept(row[i])
    BY <1>2, <1>5
  <2>2. AheadNext(i) \subseteq Ahead(i)
    BY <1>0, <1>2, <1>5 DEF Ahead, AheadNext
  <2>3. Cardinality(AheadNext(i)) <= Cardinality(Ahead(i))
    BY <2>2, AheadShrinks DEF Sober
  <2>4. Paid(row[i]) <= Paid(row'[i]) /\ Paid(row'[i]) \in Nat
    BY <1>3, <2>1, BudgetAssumption DEF Paid, Evolves, Moves
  <2>5. row'[i].state = "absent" => row[i].state = "absent"
    BY <1>3, <2>1 DEF Evolves, Moves
  <2> QED BY <1>3, <2>1, <2>3, <2>4, <2>5
<1> QED BY <1>4, <1>5 DEF SpentNext

LEMMA RunSpent == ASSUME Sober, SpentInv, NEW w \in Worker, Run(w) PROVE SpentNext
<1>0. hand \in [Worker -> [Id -> Hold]]
  BY DEF SpentInv, IInv, PromiseInv, TypeOK
<1>1. PICK S \in SUBSET Id : \E out \in [S -> Outcomes] : Execute(w, S, out)
  BY DEF Run
<1>2. PICK out \in [S -> Outcomes] : Execute(w, S, out)
  BY <1>1
<1>3. /\ S \subseteq {i \in Id : hand[w][i] = "todo"}
      /\ hand' = [hand EXCEPT ![w] = [i \in Id |-> IF i \in S THEN out[i] ELSE hand[w][i]]]
      /\ ran' = [i \in Id |-> IF i \in S /\ out[i] # "saturated" THEN ran[i] + 1 ELSE ran[i]]
      /\ row' = row
  BY <1>2 DEF Execute
<1>4. ASSUME NEW i \in Id
      PROVE  /\ ran'[i] + Cardinality(AheadNext(i)) <= Paid(row'[i])
             /\ row'[i].attempts <= MaxAttempts
             /\ row'[i].state = "absent" => ran'[i] = 0
  <2>0. /\ ran[i] + Cardinality(Ahead(i)) <= Paid(row[i]) /\ row[i].attempts <= MaxAttempts
        /\ row[i].state = "absent" => ran[i] = 0
    BY DEF SpentInv, Spent
  <2>1. Cardinality(Ahead(i)) \in Nat /\ Cardinality(AheadNext(i)) \in Nat
    BY AheadCount DEF Sober
  <2>2. AheadNext(i) \subseteq Ahead(i)
    BY <1>0, <1>3 DEF Ahead, AheadNext
  <2>3. CASE i \in S /\ out[i] # "saturated"
    <3>1. out[i] \in AllOutcomes
      BY <2>3, ChoiceAssumption
    <3>2. w \in Ahead(i) /\ w \notin AheadNext(i)
      BY <1>0, <1>3, <2>3, <3>1 DEF Ahead, AheadNext, AllOutcomes
    <3>3. Cardinality(AheadNext(i)) + 1 <= Cardinality(Ahead(i))
      BY <2>2, <3>2, AheadShrinks DEF Sober
    <3>4. ran'[i] = ran[i] + 1 /\ row[i].state # "absent"
      BY <1>3, <2>3, <3>2, Types
    <3> QED BY <1>3, <2>0, <2>1, <3>3, <3>4, Types
  <2>4. CASE ~(i \in S /\ out[i] # "saturated")
    <3>1. Cardinality(AheadNext(i)) <= Cardinality(Ahead(i))
      BY <2>2, AheadShrinks DEF Sober
    <3>2. ran'[i] = ran[i]
      BY <1>3, <2>4
    <3> QED BY <1>3, <2>0, <2>1, <3>1, <3>2, Types
  <2> QED BY <2>3, <2>4
<1> QED BY <1>4 DEF SpentNext

(* Only a park takes an attempt back.                                      *)
LEMMA SettledAttempts ==
  ASSUME NEW r \in Row, NEW o \in AllOutcomes, o # "unhandled", NEW s \in SettledAs(r, o)
  PROVE  /\ s.attempts = r.attempts \/ (o = "saturated" /\ s.attempts = Refund(r))
         /\ s.state \in {"done", "failed", "pending", "queued_batch"}
BY DEF SettledAs, AllOutcomes, Fail, Parked, Row

LEMMA SettleSpent ==
  ASSUME Sober, SpentInv, NEW w \in Worker, NEW i \in Id, Settle(w, i) PROVE SpentNext
<1>0. hand \in [Worker -> [Id -> Hold]]
  BY DEF SpentInv, IInv, PromiseInv, TypeOK
<1>1. /\ hand[w][i] \in AllOutcomes /\ hand[w][i] # "unhandled"
      /\ SettleRow(i, hand[w][i])
      /\ hand' = [hand EXCEPT ![w][i] = "none"] /\ ran' = ran
  BY DEF Settle, SpentInv, SoberHands
<1>2. Tracked
  BY <1>1, SettleRowTracked DEF SpentInv, IInv, PromiseInv
<1>3. \A j \in Id : AheadNext(j) \subseteq Ahead(j)
  BY <1>0, <1>1 DEF Ahead, AheadNext
<1>4. CASE row[i].state \notin {"leased", "queued_batch"}
  BY <1>1, <1>2, <1>3, <1>4, SpentStays DEF SettleRow, Kept
<1>5. CASE row[i].state \in {"leased", "queued_batch"}
  <2>1. PICK r \in SettledAs(row[i], hand[w][i]) :
          row' = [j \in Id |-> IF j = i THEN r
                              ELSE IF hand[w][i] = "ok" THEN Coalesced(row[j], row[i].fp)
                                                        ELSE row[j]]
    BY <1>1, <1>5 DEF SettleRow
  <2>2. \A j \in Id \ {i} : Kept(row[j], row'[j])
    <3>1. ASSUME NEW j \in Id PROVE Coalesced(row[j], row[i].fp).attempts = row[j].attempts
      BY Types DEF Coalesced, Row
    <3> QED BY <2>1, <3>1 DEF Kept
  <2>3. /\ row'[i].attempts = row[i].attempts
              \/ (hand[w][i] = "saturated" /\ row'[i].attempts = Refund(row[i]))
        /\ row'[i].state \in {"done", "failed", "pending", "queued_batch"}
    BY <1>1, <2>1, Types, SettledAttempts
  <2>4. CASE row'[i].attempts = row[i].attempts
    BY <1>1, <1>2, <1>3, <2>2, <2>4, SpentStays DEF Kept
  <2>5. CASE hand[w][i] = "saturated" /\ row'[i].attempts = Refund(row[i])
    <3>1. w \in Ahead(i) /\ w \notin AheadNext(i)
      BY <1>0, <1>1, <2>5 DEF Ahead, AheadNext
    <3>2. Cardinality(AheadNext(i)) + 1 <= Cardinality(Ahead(i))
      BY <1>3, <3>1, AheadShrinks DEF Sober
    <3>3. ran[i] + Cardinality(Ahead(i)) <= row[i].attempts /\ row[i].attempts <= MaxAttempts
      BY <1>5 DEF SpentInv, Spent, Paid
    <3>4. Cardinality(Ahead(i)) \in Nat /\ Cardinality(AheadNext(i)) \in Nat
      BY AheadCount DEF Sober
    <3>5. Refund(row[i]) = row[i].attempts - 1
      BY <3>2, <3>3, <3>4, Types DEF Refund
    <3>6. /\ ran'[i] + Cardinality(AheadNext(i)) <= Paid(row'[i])
          /\ row'[i].attempts <= MaxAttempts /\ row'[i].state # "absent"
      BY <1>1, <2>3, <2>5, <3>2, <3>3, <3>4, <3>5, Types, BudgetAssumption DEF Paid
    <3>7. ASSUME NEW j \in Id \ {i}
          PROVE  /\ ran'[j] + Cardinality(AheadNext(j)) <= Paid(row'[j])
                 /\ row'[j].attempts <= MaxAttempts
                 /\ row'[j].state = "absent" => ran'[j] = 0
      <4>1. Cardinality(AheadNext(j)) <= Cardinality(Ahead(j))
        BY <1>3, AheadShrinks DEF Sober
      <4>2. /\ ran[j] + Cardinality(Ahead(j)) <= Paid(row[j])
            /\ row[j].state = "absent" => ran[j] = 0
        BY DEF SpentInv, Spent
      <4>3. Cardinality(Ahead(j)) \in Nat /\ Cardinality(AheadNext(j)) \in Nat
        BY AheadCount DEF Sober
      <4> QED BY <1>1, <1>2, <2>2, <4>1, <4>2, <4>3, KeptPaid, Types
    <3> QED BY <3>6, <3>7 DEF SpentNext
  <2> QED BY <2>3, <2>4, <2>5
<1> QED BY <1>4, <1>5

LEMMA DropSpent ==
  ASSUME Sober, SpentInv, NEW w \in Worker, Crash(w) \/ \E i \in Id : SettleLost(w, i)
  PROVE  SpentNext
<1>0. hand \in [Worker -> [Id -> Hold]]
  BY DEF SpentInv, IInv, PromiseInv, TypeOK
<1>1. row' = row /\ ran' = ran
  BY DEF Crash, SettleLost
<1>2. \A j \in Id : AheadNext(j) \subseteq Ahead(j)
  <2>1. CASE Crash(w)
    BY <1>0, <2>1 DEF Crash, Empty, Ahead, AheadNext
  <2>2. ASSUME NEW i \in Id, SettleLost(w, i) PROVE \A j \in Id : AheadNext(j) \subseteq Ahead(j)
    BY <1>0, <2>2 DEF SettleLost, Ahead, AheadNext
  <2> QED BY <2>1, <2>2
<1>3. Tracked
  BY <1>1, UnchangedTracked DEF SpentInv, IInv, PromiseInv
<1> QED BY <1>1, <1>2, <1>3, SpentStays DEF Kept

LEMMA UpkeepSpent ==
  ASSUME Sober, SpentInv, Reclaim \/ Backfill \/ DedupPending \/ Purge \/ Time
  PROVE  SpentNext
<1>1. UNCHANGED <<hand, ran>>
  BY DEF Reclaim, Backfill, DedupPending, Purge, Retire, Delete, Time, TimerElapses, DeadlinePasses
<1>2. \A j \in Id : AheadNext(j) \subseteq Ahead(j)
  BY <1>1 DEF Ahead, AheadNext
<1>3. Tracked
  <2>1. TypeOK
    BY DEF SpentInv, IInv, PromiseInv
  <2> QED BY <2>1, ReclaimTracked, BackfillTracked, DedupPendingTracked, RetireTracked,
             DeleteTracked, TimeTracked DEF Purge, Time
<1>4. ASSUME NEW i \in Id PROVE Kept(row[i], row'[i])
  <2>0. row[i] \in Row
    BY Types
  <2>1. CASE Reclaim
    <3>1. row'[i] = Reclaimed(row[i])
      BY <2>1 DEF Reclaim
    <3> QED BY <2>0, <3>1 DEF Reclaimed, Fail, Row, Kept
  <2>2. CASE Backfill
    <3>1. row'[i] = Backfilled(row[i])
      BY <2>2 DEF Backfill
    <3> QED BY <2>0, <3>1 DEF Backfilled, Row, Kept
  <2>3. CASE DedupPending
    <3>1. row'[i] = row[i] \/ row'[i] = [row[i] EXCEPT !.state = "done", !.due = FALSE]
      BY <2>3 DEF DedupPending
    <3> QED BY <2>0, <3>1 DEF Row, Kept
  <2>4. ASSUME NEW S \in SUBSET Id, Retire(S) PROVE Kept(row[i], row'[i])
    <3>1. \/ row'[i] = row[i]
          \/ row'[i] = [row[i] EXCEPT !.state = "retired", !.task = NoTask, !.due = FALSE]
      BY <2>4 DEF Retire
    <3> QED BY <2>0, <3>1 DEF Row, Kept
  <2>5. ASSUME NEW S \in SUBSET Id, Delete(S) PROVE Kept(row[i], row'[i])
    BY <2>5 DEF Delete, Absent, Kept
  <2>6. ASSUME NEW j \in Id, TimerElapses(j) PROVE Kept(row[i], row'[i])
    <3>1. row'[i] = row[i] \/ row'[i] = [row[i] EXCEPT !.due = TRUE]
      BY <2>6 DEF TimerElapses
    <3> QED BY <2>0, <3>1 DEF Row, Kept
  <2>7. ASSUME NEW j \in Id, DeadlinePasses(j) PROVE Kept(row[i], row'[i])
    <3>1. row'[i] = row[i] \/ row'[i] = [row[i] EXCEPT !.sla = "late"]
      BY <2>7 DEF DeadlinePasses, SpentInv, IInv, PromiseInv, TypeOK
    <3> QED BY <2>0, <3>1 DEF Row, Kept
  <2> QED BY <2>1, <2>2, <2>3, <2>4, <2>5, <2>6, <2>7 DEF Purge, Time
<1> QED BY <1>1, <1>2, <1>3, <1>4, SpentStays

LEMMA StepSpent == ASSUME Sober, SpentInv, Next PROVE SpentNext
<1>1. ASSUME NEW t \in Task, NEW p \in Priority, NEW s \in Sla, NEW dedup \in Dedup,
             Enqueue(t, p, s, dedup)
      PROVE  SpentNext
  BY <1>1, EnqueueSpent
<1>2. ASSUME NEW c \in Caller, NEW t \in Task, NEW p \in Priority, NEW s \in Sla,
             SubmitInline(c, t, p, s)
      PROVE  SpentNext
  BY <1>2, SubmitSpent
<1>3. ASSUME NEW d \in Drain, Lease(d) PROVE SpentNext
  BY <1>3, LeaseSpent
<1>4. ASSUME NEW v \in Worker, Run(v) \/ Crash(v) PROVE SpentNext
  BY <1>4, RunSpent, DropSpent
<1>5. ASSUME NEW v \in Worker, NEW i \in Id, Settle(v, i) \/ SettleLost(v, i) PROVE SpentNext
  BY <1>5, SettleSpent, DropSpent
<1> QED BY <1>1, <1>2, <1>3, <1>4, <1>5, UpkeepSpent DEF Next, Accept, Work

-----------------------------------------------------------------------------
(* The invariant.                                                          *)

LEMMA StepSober == ASSUME Sober, SpentInv, Next PROVE SoberHands'
<1>0. hand \in [Worker -> [Id -> Hold]] /\ Drain \subseteq Worker /\ Caller \subseteq Worker
  BY DEF SpentInv, IInv, PromiseInv, TypeOK, Worker
<1>1. CASE hand' = hand
  BY <1>1 DEF SpentInv, SoberHands
<1>2. ASSUME NEW t \in Task, NEW p \in Priority, NEW s \in Sla, NEW dedup \in Dedup,
             Enqueue(t, p, s, dedup)
      PROVE  hand' = hand
  BY <1>2 DEF Enqueue, Coalesce, Insert, queueVars
<1>3. ASSUME NEW c \in Caller, NEW i \in Id, hand' = [hand EXCEPT ![c][i] = "todo"] PROVE SoberHands'
  BY <1>0, <1>3 DEF SpentInv, SoberHands
<1>4. ASSUME NEW d \in Drain, NEW L,
             hand' = [hand EXCEPT ![d] = [i \in Id |-> IF i \in L THEN "todo" ELSE "none"]]
      PROVE  SoberHands'
  BY <1>0, <1>4 DEF SpentInv, SoberHands
<1>5. ASSUME NEW w \in Worker, Run(w) PROVE SoberHands'
  <2>1. PICK S \in SUBSET Id : \E out \in [S -> Outcomes] : Execute(w, S, out)
    BY <1>5 DEF Run
  <2>2. PICK out \in [S -> Outcomes] : Execute(w, S, out)
    BY <2>1
  <2>3. \A i \in S : out[i] # "unhandled"
    BY DEF Sober
  <2>4. hand' = [hand EXCEPT ![w] = [i \in Id |-> IF i \in S THEN out[i] ELSE hand[w][i]]]
    BY <2>2 DEF Execute
  <2> QED BY <1>0, <2>3, <2>4 DEF SpentInv, SoberHands
<1>6. ASSUME NEW w \in Worker, NEW i \in Id, Settle(w, i) \/ SettleLost(w, i) PROVE SoberHands'
  <2>1. hand' = [hand EXCEPT ![w][i] = "none"]
    BY <1>6 DEF Settle, SettleLost
  <2> QED BY <1>0, <2>1 DEF SpentInv, SoberHands
<1>7. ASSUME NEW w \in Worker, Crash(w) PROVE SoberHands'
  BY <1>0, <1>7 DEF Crash, Empty, SpentInv, SoberHands
<1>8. CASE Reclaim \/ Backfill \/ DedupPending \/ Purge \/ Time
  <2>1. hand' = hand
    BY <1>8 DEF Reclaim, Backfill, DedupPending, Purge, Retire, Delete, Time,
                TimerElapses, DeadlinePasses
  <2> QED BY <1>1, <2>1
<1>9. ASSUME NEW c \in Caller, NEW t \in Task, NEW p \in Priority, NEW s \in Sla,
             SubmitInline(c, t, p, s)
      PROVE  SoberHands'
  BY <1>3, <1>9 DEF SubmitInline
<1>10. ASSUME NEW d \in Drain, Lease(d) PROVE SoberHands'
  <2>1. PICK L \in SUBSET Id :
          hand' = [hand EXCEPT ![d] = [i \in Id |-> IF i \in L THEN "todo" ELSE "none"]]
    BY <1>10 DEF Lease
  <2> QED BY <1>4, <2>1
<1> QED BY <1>1, <1>2, <1>5, <1>6, <1>7, <1>8, <1>9, <1>10 DEF Next, Accept, Work

LEMMA SpentStarts == ASSUME Sober, Init PROVE SpentInv
<1>1. IInv
  BY InitIInv
<1>2. SoberHands /\ \A i \in Id : Ahead(i) = {}
  BY DEF Init, Empty, SoberHands, Ahead
<1>3. \A i \in Id : row[i] = Absent /\ ran[i] = 0 /\ Cardinality(Ahead(i)) = 0
  BY <1>2, FS_EmptySet DEF Init
<1>4. Spent
  BY <1>3, BudgetAssumption DEF Spent, Absent, Paid
<1> QED BY <1>1, <1>2, <1>4 DEF SpentInv

(* The retry budget bounds executions, not only leases: with finitely many *)
(* workers, and no submission that comes back without its batch handle, a  *)
(* lane executes the task of a row at most MaxAttempts times, whatever     *)
(* workers outlive their lease and park what others have leased since.     *)
THEOREM ExecutionsBounded == ASSUME Sober PROVE Spec => []ExecutionBudget
<1>1. Init => SpentInv
  BY SpentStarts
<1>2. SpentInv /\ [Next]_queueVars => SpentInv'
  <2>1. ASSUME SpentInv, Next PROVE SpentInv'
    <3>1. IInv'
      BY <2>1, NextIInv DEF SpentInv
    <3>2. SpentNext /\ SoberHands'
      BY <2>1, StepSpent, StepSober
    <3>3. Spent'
      BY <3>2 DEF SpentNext, Spent, Ahead, AheadNext
    <3> QED BY <3>1, <3>2, <3>3 DEF SpentInv
  <2>2. ASSUME SpentInv, UNCHANGED queueVars PROVE SpentInv'
    <3>1. IInv'
      BY <2>2, NextIInv DEF SpentInv
    <3>2. Spent' /\ SoberHands'
      BY <2>2 DEF queueVars, SpentInv, Spent, SoberHands, Ahead
    <3> QED BY <3>1, <3>2 DEF SpentInv
  <2> QED BY <2>1, <2>2
<1>3. SpentInv => ExecutionBudget
  <2> SUFFICES ASSUME SpentInv, NEW i \in Id PROVE ran[i] <= MaxAttempts
    BY DEF ExecutionBudget
  <2>1. ran[i] + Cardinality(Ahead(i)) <= Paid(row[i])
    BY DEF SpentInv, Spent
  <2>2. Cardinality(Ahead(i)) \in Nat
    BY AheadCount DEF Sober
  <2> QED BY <2>1, <2>2, Types, BudgetAssumption
<1> QED BY <1>1, <1>2, <1>3, PTL DEF Spec

=============================================================================
