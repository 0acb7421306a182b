------------------------ MODULE DelegateJournal_proofs ------------------------
(***************************************************************************)
(* Proofs about DelegateJournal, for any readers, cancellers and flaky     *)
(* actors, detached or hosted: the end in the journal stands, the ledger   *)
(* and the row follow it, the row's end is final, and only the observer    *)
(* can declare a living job lost.                                          *)
(***************************************************************************)
EXTENDS DelegateJournal, TLAPS

-----------------------------------------------------------------------------
(* The inductive invariant.                                                *)

(* The journal has an end whenever the record or the ledger has one; a loss*)
(* has no captured evidence; the ledger lags the journal by a loss at most.*)
RecordBehind == record.state \in Verdict => journal.state # "none"
LossInferred == journal.state \in {"none", "lost"} => journal.authority # "captured"
LedgerLags ==
  \/ ledger.state = "none"
  \/ ledger = journal
  \/ ledger.state = "lost" /\ ledger.authority # "captured" /\ journal.authority = "captured"
LedgerBehind == ledger.state # "none" => journal.state # "none"
Stores == RecordBehind /\ LossInferred /\ LedgerLags /\ LedgerBehind

(* An end that agrees with the journal, or a loss that evidence replaced.  *)
Follows(s) ==
  /\ s \in Verdict
  /\ s = journal.state \/ (s = "lost" /\ journal.authority = "captured")

(* What an actor has in hand: the end it will write to the row follows the *)
(* journal, the record it saw ended had its end in the journal.            *)
Held(a) ==
  /\ at[a] = "row" => Follows(want[a].state)
  /\ seen[a].state \in Verdict => journal.state # "none"
  /\ back[a] \notin {"row", "insert"}
Hand == \A a \in Actor : Held(a)

RowHeld ==
  /\ row.state \in Verdict => Follows(row.state)
  /\ at["launcher"] = "insert" => row.state = "none"

IInv == TypeOK /\ Stores /\ Hand /\ RowHeld

(* What every step does to the end in the journal.                         *)
Stands ==
  journal.state # "none" =>
    journal' = journal \/ (journal.state = "lost" /\ journal'.authority = "captured")

FilesOK == record \in Record /\ journal \in End /\ ledger \in End

Kept == IInv' /\ Stands

-----------------------------------------------------------------------------
(* The writes under the lock.                                              *)

LEMMA Actors ==
  /\ "launcher" \in Actor /\ "executor" \in Actor /\ "observer" \in Actor
  /\ Reader \subseteq Actor /\ Canceller \subseteq Actor
BY DEF Actor, Caller

LEMMA CutsTyped == ASSUME NEW a \in Actor, NEW cut \in Cuts(a) PROVE cut \in 0 .. 3
BY DEF Cuts, Whole

LEMMA RulingTyped ==
  ASSUME FilesOK, Stores, NEW w \in Verdict
  PROVE  /\ Ruling(w) \in Record /\ Ruling(w).state \in Verdict
         /\ EndOf(Ruling(w)) \in End
         /\ Binds(w) => EndOf(Ruling(w)) = journal
         /\ ~Binds(w) /\ journal.state # "none" =>
              Ruling(w).authority = "captured" /\ journal.state = "lost"
         /\ ~Binds(w) => Ruling(w).exit = record.exit
         /\ Ruling(w).state = "lost" /\ ~Binds(w) => w = "lost" /\ Ruling(w).authority = "inferred"
<1>1. CASE Binds(w)
  BY <1>1 DEF FilesOK, Ruling, Binds, Restored, Record, End, EndOf
<1>2. CASE ~Binds(w)
  <2>1. /\ Decided(w) \in Record /\ Decided(w).state \in Verdict
        /\ EndOf(Decided(w)) \in End /\ Decided(w).exit = record.exit
    <3> DEFINE state == IF w \in {"failure", "lost"} /\ record.exit = "signal" THEN "killed" ELSE w
               authority == IF Authoritative(w) THEN "captured" ELSE "inferred"
    <3>1. state \in Verdict /\ authority \in Authority
      BY DEF Verdict, Authority
    <3>2. Decided(w) = [record EXCEPT !.state = state, !.authority = authority]
      BY DEF Decided
    <3> HIDE DEF state, authority
    <3> QED BY <3>1, <3>2 DEF FilesOK, Record, End, EndOf
  <2>2. Decided(w).authority = IF Authoritative(w) THEN "captured" ELSE "inferred"
    BY DEF Decided, FilesOK, Record
  <2>3. Decided(w).state = "lost" => w = "lost"
    BY DEF Decided, FilesOK, Record
  <2>4. w = "lost" => Decided(w).authority = "inferred"
    BY <2>2 DEF Authoritative
  <2>5. journal.state # "none" => Decided(w).authority = "captured" /\ journal.state = "lost"
    BY <1>2, <2>2 DEF Binds
  <2>6. Ruling(w) = Decided(w)
    BY <1>2 DEF Ruling
  <2> QED BY <1>2, <2>1, <2>3, <2>4, <2>5, <2>6
<1> QED BY <1>1, <1>2

(* A write, however short it is cut, keeps the stores in order; one that   *)
(* reached the journal leaves there what its writer is told.               *)
LEMMA WriteKeeps ==
  ASSUME FilesOK, Stores, NEW w \in Verdict, NEW cut \in 0 .. 3, Written(Ruling(w), cut)
  PROVE  /\ FilesOK' /\ Stores' /\ Stands
         /\ cut = 3 => journal' = EndOf(Ruling(w)) /\ journal'.state = Ruling(w).state
         /\ cut = 3 => journal'.state # "none"
         /\ journal.state = "none" /\ journal'.state = "lost" => w = "lost"
<1> PICK r : r = Ruling(w) OBVIOUS
<1>1. /\ r \in Record /\ r.state \in Verdict /\ EndOf(r) \in End
      /\ Binds(w) => EndOf(r) = journal
      /\ ~Binds(w) /\ journal.state # "none" => r.authority = "captured" /\ journal.state = "lost"
      /\ r.state = "lost" /\ ~Binds(w) => w = "lost" /\ r.authority = "inferred"
  BY RulingTyped
<1>2. EndOf(r).state = r.state /\ EndOf(r).authority = r.authority
  BY DEF EndOf
<1>3. Binds(w) => journal.state # "none"
  BY DEF Binds
<1>4. /\ journal' = IF cut >= 1 THEN Appended(journal, r) ELSE journal
      /\ ledger' = IF cut >= 2 THEN Appended(ledger, r) ELSE ledger
      /\ record' = IF cut = 3 THEN r ELSE record
  BY DEF Written, Whole
<1>5. Appended(journal, r) = EndOf(r)
  BY <1>1, <1>2 DEF Appended, Stores, LossInferred
<1>6. FilesOK'
  BY <1>1, <1>4, <1>5 DEF FilesOK, Appended
<1>7. Stands
  BY <1>1, <1>2, <1>4, <1>5 DEF Stands
<1>8. LossInferred'
  BY <1>1, <1>2, <1>4, <1>5 DEF Stores, LossInferred, Verdict
<1>9. RecordBehind'
  BY <1>1, <1>2, <1>4, <1>5 DEF Stores, RecordBehind, Verdict
<1>10. LedgerBehind'
  BY <1>1, <1>2, <1>4, <1>5 DEF Stores, LedgerBehind, Appended, Verdict
<1>11. LedgerLags'
  <2>1. CASE Binds(w)
    BY <2>1, <1>1, <1>2, <1>4, <1>5 DEF Stores, LedgerLags, Appended
  <2>2. CASE ~Binds(w) /\ journal.state = "none"
    BY <2>2, <1>1, <1>2, <1>4, <1>5 DEF Stores, LedgerLags, LedgerBehind, Appended
  <2>3. CASE ~Binds(w) /\ journal.state # "none"
    BY <2>3, <1>1, <1>2, <1>4, <1>5 DEF Stores, LedgerLags, LossInferred, Appended
  <2> QED BY <2>1, <2>2, <2>3
<1>12. cut = 3 => journal' = EndOf(r) /\ journal'.state = r.state
  BY <1>2, <1>4, <1>5
<1>13. cut = 3 => journal'.state # "none"
  BY <1>1, <1>12 DEF Verdict
<1>14. journal.state = "none" /\ journal'.state = "lost" => w = "lost"
  BY <1>1, <1>2, <1>3, <1>4, <1>5
<1> QED BY <1>6, <1>7, <1>8, <1>9, <1>10, <1>11, <1>12, <1>13, <1>14 DEF Stores

(* An end that follows the journal still does after any step.              *)
LEMMA FollowsOn ==
  ASSUME LossInferred, Stands, NEW s, Follows(s)
  PROVE  Follows(s)'
BY DEF LossInferred, Stands, Follows, Verdict

(* A step of one actor, which at most ends others, keeps what these have.  *)
LEMMA OthersHold ==
  ASSUME IInv, Stores', Stands, NEW a \in Actor, Held(a)',
         \A b \in Actor \ {a} : /\ at'[b] = at[b] \/ at'[b] = "dead"
                                /\ want'[b] = want[b] /\ seen'[b] = seen[b] /\ back'[b] = back[b]
  PROVE  Hand'
<1> SUFFICES ASSUME NEW b \in Actor, b # a PROVE Held(b)'
  BY DEF Hand
<1>1. Held(b) /\ LossInferred
  BY DEF IInv, Hand, Stores
<1> PICK s : s = want[b].state OBVIOUS
<1>2. ASSUME at'[b] = "row" PROVE Follows(s)'
  <2>1. Follows(s)
    BY <1>1, <1>2 DEF Held
  <2> QED BY <2>1, <1>1, FollowsOn
<1>3. at'[b] = "row" => Follows(want[b].state)'
  BY <1>2 DEF Follows
<1>4. journal.state # "none" => journal'.state # "none"
  BY <1>1 DEF Stands, Stores, LossInferred
<1> QED BY <1>1, <1>3, <1>4 DEF Held

(* The row is kept by a step that leaves it alone and inserts nothing.     *)
LEMMA RowKept ==
  ASSUME IInv, Stands, row' = row, at'["launcher"] = "insert" => at["launcher"] = "insert"
  PROVE  RowHeld'
<1> PICK s : s = row.state OBVIOUS
<1>1. s \in Verdict => Follows(s)'
  BY FollowsOn DEF IInv, RowHeld, Stores
<1> QED BY <1>1 DEF IInv, RowHeld, Follows

(* The steps that leave the three files alone.                             *)
LEMMA FilesAlone ==
  ASSUME IInv, UNCHANGED files
  PROVE  FilesOK' /\ Stores' /\ Stands
BY DEF IInv, TypeOK, files, FilesOK, Stores, RecordBehind, LossInferred, LedgerLags,
   LedgerBehind, Stands

(* Where an error leaves an actor, and where a reader goes.                *)
LEMMA Places ==
  ASSUME NEW a \in Actor
  PROVE  /\ Broken(a) \subseteq Stage \ {"row", "insert"}
         /\ Rest(a) \in Stage \ {"row", "insert"} /\ Onward(a) \in Stage \ {"row", "insert"}
         /\ a \notin Caller => Broken(a) \subseteq {"failed", "rescue", "mend", "dead"}
BY DEF Broken, Rest, Onward, Stage, Caller

-----------------------------------------------------------------------------
(* Writes of the end, as part of a step.                                   *)

(* finish_delegate_job up to the row.                                      *)
LEMMA FinishKeeps ==
  ASSUME IInv, NEW a \in Actor, NEW w \in Verdict, NEW payload \in Payload, at[a] # "insert",
         Finish(a, w, payload), row' = row,
         seen' = seen \/ seen' = [seen EXCEPT ![a] = Begun],
         back' = back \/ back' = [back EXCEPT ![a] = "dead"] \/ back' = [back EXCEPT ![a] = "answer"],
         UNCHANGED <<life, told, history>>
  PROVE  Kept /\ (journal.state = "none" /\ journal'.state = "lost" => w = "lost")
<1>0. FilesOK /\ Stores /\ TypeOK
  BY DEF IInv, TypeOK, FilesOK
<1> PICK cut \in Cuts(a) : /\ Written(Ruling(w), cut) /\ Then(a, cut, "row")
                           /\ want' = [want EXCEPT ![a] = Won(w, Ruling(w), payload)]
  BY DEF Finish
<1>1. cut \in 0 .. 3
  BY CutsTyped
<1>2. /\ FilesOK' /\ Stores' /\ Stands
      /\ cut = 3 => journal'.state = Ruling(w).state
      /\ journal.state = "none" /\ journal'.state = "lost" => w = "lost"
  BY <1>0, <1>1, WriteKeeps
<1>3. Ruling(w) \in Record /\ Ruling(w).state \in Verdict
  BY <1>0, RulingTyped
<1>4. Won(w, Ruling(w), payload) \in Row /\ Won(w, Ruling(w), payload).state = Ruling(w).state
  BY <1>3 DEF Won, Row, Payload
<1>5. PICK p \in Stage \ {"insert"} : /\ at' = [at EXCEPT ![a] = p]
                                      /\ p = "row" => cut = 3
  BY Places DEF Then, Goto, Stage, Whole
<1>6. Begun \in Record
  BY DEF Begun, Record, Exit, Authority
<1>7. seen' \in [Actor -> Record] /\ want' \in [Actor -> Row] /\ back' \in [Actor -> Stage]
  BY <1>0, <1>4, <1>6 DEF TypeOK, Stage
<1>8. TypeOK'
  BY <1>0, <1>2, <1>5, <1>7 DEF TypeOK, FilesOK, history
<1>9. Held(a)'
  <2>1. at'[a] = "row" => Follows(want[a].state)'
    BY <1>0, <1>2, <1>3, <1>4, <1>5 DEF Follows, TypeOK
  <2>2. Begun.state \notin Verdict
    BY DEF Begun, Verdict
  <2>3. seen'[a].state \in Verdict => journal'.state # "none"
    BY <1>0, <1>2, <2>2 DEF IInv, Hand, Held, TypeOK, Stands, Stores, LossInferred
  <2>4. back'[a] \notin {"row", "insert"}
    BY <1>0 DEF IInv, Hand, Held, TypeOK
  <2> QED BY <2>1, <2>3, <2>4 DEF Held
<1>10. Hand'
  BY <1>0, <1>2, <1>5, <1>9, OthersHold DEF TypeOK
<1>11. RowHeld'
  BY <1>0, <1>2, <1>5, RowKept DEF TypeOK
<1> QED BY <1>2, <1>8, <1>10, <1>11 DEF Kept, IInv

(* A step of one actor that does not touch the row.                        *)
LEMMA StepKeeps ==
  ASSUME IInv, TypeOK', Stores', Stands, row' = row, NEW a \in Actor, Held(a)',
         at'["launcher"] = "insert" => at["launcher"] = "insert",
         \A b \in Actor \ {a} : /\ at'[b] = at[b] \/ at'[b] = "dead"
                                /\ want'[b] = want[b] /\ seen'[b] = seen[b] /\ back'[b] = back[b]
  PROVE  Kept
<1>1. Hand'
  BY OthersHold
<1>2. RowHeld'
  BY RowKept
<1> QED BY <1>1, <1>2 DEF Kept, IInv

(* terminalize_durable_execution, by whoever goes on to p.                 *)
LEMMA TerminalizeKeeps ==
  ASSUME IInv, NEW a \in Actor, NEW w \in Verdict, NEW p \in Stage \ {"row", "insert"},
         Terminalize(a, w, p), UNCHANGED <<row, life, want, history>>,
         told' \subseteq Canceller, back' = back
  PROVE  /\ Kept
         /\ journal.state = "none" /\ journal'.state = "lost" => w = "lost"
         /\ at'[a] = p \/ at'[a] \in Broken(a)
<1>0. FilesOK /\ Stores /\ TypeOK
  BY DEF IInv, TypeOK, FilesOK
<1> PICK cut \in Cuts(a) :
      /\ Written(Ruling(w), cut) /\ Then(a, cut, p)
      /\ seen' = [seen EXCEPT ![a] = IF cut = Whole THEN Ruling(w) ELSE Begun]
  BY DEF Terminalize
<1>1. cut \in 0 .. 3
  BY CutsTyped
<1>2. /\ FilesOK' /\ Stores' /\ Stands
      /\ cut = 3 => journal'.state # "none"
      /\ journal.state = "none" /\ journal'.state = "lost" => w = "lost"
  BY <1>0, <1>1, WriteKeeps
<1>3. Ruling(w) \in Record /\ Begun \in Record /\ Begun.state \notin Verdict
  BY <1>0, RulingTyped DEF Begun, Record, Exit, Authority, Verdict
<1>4. PICK q \in Stage \ {"row", "insert"} : /\ at' = [at EXCEPT ![a] = q]
                                             /\ q = p \/ q \in Broken(a)
  BY Places DEF Then, Goto
<1>5. seen' \in [Actor -> Record]
  BY <1>0, <1>3 DEF TypeOK
<1>6. TypeOK'
  BY <1>0, <1>2, <1>4, <1>5 DEF TypeOK, FilesOK, history
<1>7. Held(a)'
  BY <1>0, <1>2, <1>3, <1>4 DEF IInv, Hand, Held, TypeOK, Whole
<1>8. at'["launcher"] = "insert" => at["launcher"] = "insert"
  BY <1>0, <1>4 DEF TypeOK
<1>9. \A b \in Actor \ {a} : /\ at'[b] = at[b] /\ want'[b] = want[b]
                             /\ seen'[b] = seen[b] /\ back'[b] = back[b]
  BY <1>0, <1>4 DEF TypeOK
<1>10. Kept
  BY <1>0, <1>2, <1>6, <1>7, <1>8, <1>9, StepKeeps
<1>11. at'[a] = p \/ at'[a] \in Broken(a)
  BY <1>0, <1>4 DEF TypeOK
<1> QED BY <1>2, <1>10, <1>11

(* Only the observer's own step may lose a job that lives.                 *)
Loss ==
  journal.state = "none" /\ journal'.state = "lost" /\ at'["observer"] = at["observer"]
    => Dead(record)

(* Steps of one actor that leave the files and the row alone.              *)
LEMMA QuietKeeps ==
  ASSUME IInv, UNCHANGED <<files, row, want>>, NEW a \in Actor,
         life' \subseteq Process, told' \subseteq Canceller, judged' \in {"unknown", "accepted", "rejected"},
         captured' = captured,
         NEW p \in Stage \ {"row", "insert"}, NEW q \in Stage \ {"row", "insert"}, NEW r \in Record,
         r.state \in Verdict => journal.state # "none",
         at' = [at EXCEPT ![a] = p],
         back' = back \/ back' = [back EXCEPT ![a] = q],
         seen' = seen \/ seen' = [seen EXCEPT ![a] = r]
  PROVE  Kept /\ Loss
<1>0. TypeOK /\ Stores' /\ Stands /\ FilesOK' /\ journal' = journal
  BY FilesAlone DEF IInv, files
<1>1. TypeOK'
  BY <1>0 DEF TypeOK, FilesOK, files
<1>2. Held(a)'
  BY <1>0 DEF IInv, Hand, Held, TypeOK
<1>3. at'["launcher"] = "insert" => at["launcher"] = "insert"
  BY <1>0 DEF TypeOK
<1>4. \A b \in Actor \ {a} : /\ at'[b] = at[b] /\ want'[b] = want[b]
                             /\ seen'[b] = seen[b] /\ back'[b] = back[b]
  BY <1>0 DEF TypeOK
<1>5. Kept
  BY <1>0, <1>1, <1>2, <1>3, <1>4, StepKeeps
<1> QED BY <1>0, <1>5 DEF Loss

(* Steps of one actor that rewrite the record without ending it.           *)
LEMMA RecordKeeps ==
  ASSUME IInv, UNCHANGED <<journal, ledger, row, life, seen, want, told, judged>>,
         NEW a \in Actor, record' \in Record, record'.state = record.state, captured' \in BOOLEAN,
         NEW p \in Stage \ {"row", "insert"}, NEW q \in Stage \ {"row", "insert"},
         at' = [at EXCEPT ![a] = p],
         back' = back \/ back' = [back EXCEPT ![a] = q]
  PROVE  Kept /\ Loss
<1>0. TypeOK /\ Stores' /\ Stands
  BY DEF IInv, Stores, RecordBehind, LossInferred, LedgerLags, LedgerBehind, Stands
<1>1. TypeOK'
  BY <1>0 DEF TypeOK
<1>2. Held(a)'
  BY <1>0 DEF IInv, Hand, Held, TypeOK
<1>3. at'["launcher"] = "insert" => at["launcher"] = "insert"
  BY <1>0 DEF TypeOK
<1>4. \A b \in Actor \ {a} : /\ at'[b] = at[b] /\ want'[b] = want[b]
                             /\ seen'[b] = seen[b] /\ back'[b] = back[b]
  BY <1>0 DEF TypeOK
<1>5. Kept
  BY <1>0, <1>1, <1>2, <1>3, <1>4, StepKeeps
<1> QED BY <1>5 DEF Loss

(* No stage that an actor goes back to is a write of the row or the insert.*)
LEMMA BackStage == ASSUME IInv, NEW a \in Actor PROVE back[a] \in Stage \ {"row", "insert"}
BY DEF IInv, Hand, Held, TypeOK

LEMMA SeenState ==
  ASSUME IInv, NEW a \in Actor
  PROVE  /\ seen[a] \in Record /\ record \in Record
         /\ record.state \in Verdict => journal.state # "none"
         /\ seen[a].state \in Verdict => journal.state # "none"
         /\ seen[a].state # "running" => seen[a].state \in Verdict
BY DEF IInv, Hand, Held, TypeOK, Stores, RecordBehind, Record

LEMMA BegunTyped == Begun \in Record /\ Begun.state \notin Verdict
BY DEF Begun, Record, Exit, Authority, Verdict

-----------------------------------------------------------------------------
(* The shared steps of recovery.                                           *)

LEMMA LookKeeps == ASSUME IInv, NEW a \in Actor, Look(a) PROVE Kept /\ Loss
<1>1. /\ UNCHANGED <<files, row, want>> /\ life' \subseteq Process /\ told' \subseteq Canceller
      /\ judged' \in {"unknown", "accepted", "rejected"} /\ captured' = captured
      /\ back' = back
  BY DEF Look, IInv, TypeOK, history
<1>2. \/ at' = [at EXCEPT ![a] = "judge"] /\ seen' = [seen EXCEPT ![a] = record]
      \/ at' = [at EXCEPT ![a] = back[a]] /\ seen' = seen
  BY DEF Look, Goto
<1>3. "judge" \in Stage \ {"row", "insert"}
  BY DEF Stage
<1>4. CASE at' = [at EXCEPT ![a] = "judge"] /\ seen' = [seen EXCEPT ![a] = record]
  BY <1>1, <1>3, <1>4, SeenState, QuietKeeps
<1>5. CASE at' = [at EXCEPT ![a] = back[a]] /\ seen' = seen
  BY <1>1, <1>3, <1>5, SeenState, BackStage, QuietKeeps
<1> QED BY <1>2, <1>4, <1>5

LEMMA JudgeKeeps == ASSUME IInv, NEW a \in Actor, Judge(a) PROVE Kept /\ Loss
<1>1. Onward(a) \in Stage \ {"row", "insert"}
  BY Places
<1>2. CASE Goto(a, Onward(a)) /\ UNCHANGED files /\ (seen' = seen \/ seen' = [seen EXCEPT ![a] = record])
  <2>1. /\ UNCHANGED <<files, row, want>> /\ life' \subseteq Process /\ told' \subseteq Canceller
        /\ judged' \in {"unknown", "accepted", "rejected"} /\ captured' = captured
        /\ back' = back /\ at' = [at EXCEPT ![a] = Onward(a)]
    BY <1>2 DEF Judge, IInv, TypeOK, history, Goto
  <2> QED BY <1>1, <1>2, <2>1, SeenState, QuietKeeps
<1> PICK w : w = IF seen[a].state = "running" THEN "lost" ELSE seen[a].state OBVIOUS
<1>3. CASE /\ seen[a].state = "running" => Dead(seen[a]) /\ SameIdentity(a)
           /\ Terminalize(a, w, Onward(a))
  <2>1. w \in Verdict
    BY SeenState DEF Verdict
  <2>2. /\ UNCHANGED <<row, life, want, history>> /\ told' \subseteq Canceller /\ back' = back
    BY DEF Judge, IInv, TypeOK
  <2>3. Kept /\ (journal.state = "none" /\ journal'.state = "lost" => w = "lost")
    BY <1>1, <1>3, <2>1, <2>2, TerminalizeKeeps
  <2>4. journal.state = "none" => seen[a].state = "running"
    BY SeenState
  <2>5. seen[a].state = "running" => Dead(record)
    BY <1>3 DEF Dead, SameIdentity
  <2> QED BY <2>3, <2>4, <2>5 DEF Loss
<1> QED BY <1>2, <1>3 DEF Judge

LEMMA DecideKeeps == ASSUME IInv, NEW a \in Actor, Decide(a) PROVE Kept /\ Loss
<1>1. CASE Projects(a) /\ Finish(a, seen[a].state, "evidence")
  <2>1. seen[a].state \in Verdict /\ at[a] # "insert" /\ "evidence" \in Payload
    BY <1>1 DEF Projects, Decide, Payload
  <2>2. /\ row' = row /\ seen' = [seen EXCEPT ![a] = Begun] /\ back' = back
        /\ UNCHANGED <<life, told, history>>
    BY DEF Decide
  <2>3. Kept
    BY <1>1, <2>1, <2>2, FinishKeeps
  <2> QED BY <2>1, <2>3, SeenState DEF Loss
<1>2. CASE ~Projects(a)
  <2>1. /\ UNCHANGED <<files, row, want>> /\ life' \subseteq Process /\ told' \subseteq Canceller
        /\ judged' \in {"unknown", "accepted", "rejected"} /\ captured' = captured
        /\ back' = back /\ seen' = [seen EXCEPT ![a] = Begun] /\ at' = [at EXCEPT ![a] = back[a]]
    BY <1>2 DEF Decide, IInv, TypeOK, history, Goto
  <2> QED BY <2>1, BegunTyped, BackStage, QuietKeeps
<1> QED BY <1>1, <1>2 DEF Decide

LEMMA UpdateRowKeeps == ASSUME IInv, NEW a \in Actor, UpdateRow(a) PROVE Kept /\ Loss
<1>0. TypeOK /\ Stores' /\ Stands /\ FilesOK' /\ journal' = journal
  BY FilesAlone DEF IInv, UpdateRow, files
<1>1. at' = [at EXCEPT ![a] = back[a]] /\ want' = [want EXCEPT ![a] = NoRow]
  BY DEF UpdateRow, Goto
<1>2. NoRow \in Row /\ back[a] \in Stage \ {"row", "insert"}
  BY BackStage DEF NoRow, Row, Payload
<1>3. TypeOK'
  BY <1>0, <1>1, <1>2 DEF UpdateRow, TypeOK, FilesOK, history
<1>4. Held(a)'
  BY <1>0, <1>1, <1>2 DEF UpdateRow, IInv, Hand, Held, TypeOK
<1>5. \A b \in Actor \ {a} : /\ at'[b] = at[b] /\ want'[b] = want[b]
                             /\ seen'[b] = seen[b] /\ back'[b] = back[b]
  BY <1>0, <1>1 DEF UpdateRow, TypeOK
<1>6. Hand'
  BY <1>0, <1>4, <1>5, OthersHold
<1>7. RowHeld'
  BY <1>0, <1>1, <1>2
     DEF UpdateRow, Updates, IInv, RowHeld, Hand, Held, Follows, TypeOK
<1> QED BY <1>0, <1>3, <1>6, <1>7 DEF Kept, IInv, Loss

LEMMA RecoverKeeps == ASSUME IInv, NEW a \in Actor, Recover(a) PROVE Kept /\ Loss
BY LookKeeps, JudgeKeeps, DecideKeeps, UpdateRowKeeps DEF Recover

-----------------------------------------------------------------------------
(* The launcher.                                                           *)

(* finish_delegate_job by an actor with an end of its own making.          *)
LEMMA OwnFinishKeeps ==
  ASSUME IInv, NEW a \in Actor, NEW w \in Verdict \ {"lost"}, NEW payload \in Payload,
         at[a] # "insert", Finish(a, w, payload), row' = row, seen' = seen,
         back' = back \/ back' = [back EXCEPT ![a] = "dead"] \/ back' = [back EXCEPT ![a] = "answer"],
         UNCHANGED <<life, told, history>>
  PROVE  Kept /\ Loss
<1>1. Kept /\ (journal.state = "none" /\ journal'.state = "lost" => w = "lost")
  BY FinishKeeps
<1> QED BY <1>1 DEF Loss

LEMMA AdoptKeeps == ASSUME IInv, NEW a \in Actor, Adopt(a) PROVE Kept /\ Loss
<1>1. record' \in Record /\ record'.state = record.state
  BY DEF Adopt, IInv, TypeOK, Record
<1>2. PICK p \in {"look", "over"} : at' = [at EXCEPT ![a] = p]
  BY DEF Adopt, Call, Goto
<1>3. back' = back \/ back' = [back EXCEPT ![a] = "run"]
  BY DEF Adopt, Call
<1>4. {"look", "over", "run"} \subseteq Stage \ {"row", "insert"}
  BY DEF Stage
<1>5. UNCHANGED <<journal, ledger, row, life, seen, want, told, judged>> /\ captured' \in BOOLEAN
  BY DEF Adopt, history, IInv, TypeOK
<1> QED BY <1>1, <1>2, <1>3, <1>4, <1>5, RecordKeeps

LEMMA LaunchKeeps == ASSUME IInv, Launch PROVE Kept /\ Loss
<1>0. "launcher" \in Actor /\ "executor" \in Actor /\ TypeOK
  BY Actors DEF IInv
<1>1. ASSUME InsertRow PROVE Kept /\ Loss
  <2>1. TypeOK /\ Stores' /\ Stands /\ FilesOK' /\ journal' = journal
    BY <1>1, FilesAlone DEF IInv, InsertRow, files
  <2>2. at' = [at EXCEPT !["launcher"] = "spawn"] /\ row' = [row EXCEPT !.state = "running"]
    BY <1>1 DEF InsertRow, Goto
  <2>3. TypeOK'
    BY <1>1, <2>1, <2>2 DEF InsertRow, TypeOK, FilesOK, Row, history, Stage
  <2>4. Held("launcher")'
    BY <1>0, <1>1, <2>1, <2>2 DEF InsertRow, IInv, Hand, Held, TypeOK
  <2>5. \A b \in Actor \ {"launcher"} : /\ at'[b] = at[b] /\ want'[b] = want[b]
                                        /\ seen'[b] = seen[b] /\ back'[b] = back[b]
    BY <1>1, <2>1, <2>2 DEF InsertRow, TypeOK
  <2>6. Hand'
    BY <1>0, <2>1, <2>4, <2>5, OthersHold
  <2>7. RowHeld'
    BY <1>0, <2>1, <2>2 DEF RowHeld, TypeOK, Row, Verdict
  <2> QED BY <2>1, <2>3, <2>6, <2>7 DEF Kept, IInv, Loss
<1>2. ASSUME Spawn PROVE Kept /\ Loss
  <2>1. TypeOK /\ Stores' /\ Stands /\ FilesOK' /\ journal' = journal
    BY <1>2, FilesAlone DEF IInv, Spawn, files
  <2>2. PICK p \in {"adopt", "over"} :
          at' = [at EXCEPT !["launcher"] = p, !["executor"] = "look"]
    BY <1>2 DEF Spawn
  <2>3. PICK q \in {"adopt", "run"} : back' = [back EXCEPT !["executor"] = q]
    BY <1>2 DEF Spawn
  <2>4. TypeOK'
    BY <1>2, <2>1, <2>2, <2>3 DEF Spawn, TypeOK, FilesOK, history, Stage, Home, Process
  <2>5. \A b \in Actor : /\ at'[b] = at[b] \/ at'[b] \in {"adopt", "over", "look"}
                         /\ want'[b] = want[b] /\ seen'[b] = seen[b]
                         /\ back'[b] = back[b] \/ back'[b] \in {"adopt", "run"}
    BY <1>2, <2>1, <2>2, <2>3 DEF Spawn, TypeOK
  <2>6. Hand'
    <3> SUFFICES ASSUME NEW b \in Actor PROVE Held(b)'
      BY DEF Hand
    <3>1. Held(b)
      BY DEF IInv, Hand
    <3>2. /\ at'[b] = "row" => at[b] = "row"
          /\ want'[b] = want[b] /\ seen'[b] = seen[b]
          /\ back'[b] \notin {"row", "insert"}
      BY <2>5, <3>1 DEF Held
    <3> QED BY <2>1, <3>1, <3>2 DEF Held, Follows
  <2>7. RowHeld'
    BY <1>0, <1>2, <2>1, <2>5, RowKept DEF Spawn
  <2> QED BY <2>1, <2>4, <2>6, <2>7 DEF Kept, IInv, Loss
<1>3. ASSUME StartFailed PROVE Kept /\ Loss
  BY <1>0, <1>3, OwnFinishKeeps DEF StartFailed, Verdict, Payload
<1> QED BY <1>0, <1>1, <1>2, <1>3, AdoptKeeps, UpdateRowKeeps DEF Launch

-----------------------------------------------------------------------------
(* The executor.                                                           *)

LEMMA CloseKeeps == ASSUME IInv, Close PROVE Kept /\ Loss
<1>0. /\ "executor" \in Actor /\ TypeOK /\ FilesOK /\ Stores
  BY Actors DEF IInv, TypeOK, FilesOK
<1> PICK a : a = "executor" OBVIOUS
<1>1. PICK w \in {"success", "failure"}, cut \in Cuts(a) :
        /\ Written(Ruling(w), cut) /\ Then(a, cut, "assess")
        /\ want' = [want EXCEPT ![a].state = w]
  BY DEF Close
<1>2. cut \in 0 .. 3 /\ w \in Verdict
  BY <1>0, CutsTyped DEF Verdict
<1>3. /\ FilesOK' /\ Stores' /\ Stands
      /\ journal.state = "none" /\ journal'.state = "lost" => w = "lost"
  BY <1>0, <1>1, <1>2, WriteKeeps
<1>4. PICK p \in Stage \ {"row", "insert"} : at' = [at EXCEPT ![a] = p]
  BY <1>0, <1>1, Places DEF Then, Goto, Stage
<1>5. TypeOK'
  BY <1>0, <1>1, <1>2, <1>3, <1>4 DEF Close, TypeOK, FilesOK, history, Row
<1>6. Held(a)'
  BY <1>0, <1>3, <1>4 DEF Close, IInv, Hand, Held, TypeOK, Stands, Stores, LossInferred
<1>7. at'["launcher"] = "insert" => at["launcher"] = "insert"
  BY <1>0, <1>4 DEF TypeOK
<1>8. \A b \in Actor \ {a} : /\ at'[b] = at[b] /\ want'[b] = want[b]
                             /\ seen'[b] = seen[b] /\ back'[b] = back[b]
  BY <1>0, <1>1, <1>4 DEF Close, TypeOK
<1>9. Kept
  BY <1>0, <1>3, <1>5, <1>6, <1>7, <1>8, StepKeeps DEF Close
<1> QED BY <1>1, <1>3, <1>9 DEF Loss

LEMMA RescueKeeps == ASSUME IInv, Rescue PROVE Kept /\ Loss
<1>0. /\ "executor" \in Actor /\ TypeOK /\ FilesOK /\ Stores /\ "failure" \in Verdict
  BY Actors DEF IInv, TypeOK, FilesOK, Verdict
<1> PICK a : a = "executor" OBVIOUS
<1>1. PICK cut \in Cuts(a) : Written(Ruling("failure"), cut)
  BY DEF Rescue
<1>2. cut \in 0 .. 3
  BY <1>0, CutsTyped
<1>3. /\ FilesOK' /\ Stores' /\ Stands
      /\ journal.state = "none" /\ journal'.state = "lost" => "failure" = "lost"
  BY <1>0, <1>1, <1>2, WriteKeeps
<1>4. PICK p \in Stage \ {"row", "insert"} : at' = [at EXCEPT ![a] = p]
  BY <1>0, Places DEF Rescue, Goto
<1>5. TypeOK'
  BY <1>0, <1>3, <1>4 DEF Rescue, TypeOK, FilesOK, history
<1>6. Held(a)'
  BY <1>0, <1>3, <1>4 DEF Rescue, IInv, Hand, Held, TypeOK, Stands, Stores, LossInferred
<1>7. at'["launcher"] = "insert" => at["launcher"] = "insert"
  BY <1>0, <1>4 DEF TypeOK
<1>8. \A b \in Actor \ {a} : /\ at'[b] = at[b] /\ want'[b] = want[b]
                             /\ seen'[b] = seen[b] /\ back'[b] = back[b]
  BY <1>0, <1>4 DEF Rescue, TypeOK
<1>9. Kept
  BY <1>0, <1>3, <1>5, <1>6, <1>7, <1>8, StepKeeps DEF Rescue
<1> QED BY <1>3, <1>9 DEF Loss

LEMMA RunKeeps ==
  ASSUME IInv, RunWarm \/ RunChild \/ Assess
  PROVE  Kept /\ Loss
<1>1. /\ UNCHANGED <<files, row, want>> /\ life' \subseteq Process /\ told' \subseteq Canceller
      /\ judged' \in {"unknown", "accepted", "rejected"} /\ captured' = captured /\ seen' = seen
  BY DEF RunWarm, RunChild, Assess, IInv, TypeOK, history, Process
<1>2. PICK p \in {"close", "bind", "finish"} : at' = [at EXCEPT !["executor"] = p]
  BY DEF RunWarm, RunChild, Assess, Goto, Call
<1>3. back' = back \/ back' = [back EXCEPT !["executor"] = "over"]
  BY DEF RunWarm, RunChild, Assess, Call
<1>4. {"close", "bind", "finish", "over"} \subseteq Stage \ {"row", "insert"}
  BY DEF Stage
<1>5. "executor" \in Actor
  BY Actors
<1> QED BY <1>1, <1>2, <1>3, <1>4, <1>5, SeenState, QuietKeeps

LEMMA ChildKeeps == ASSUME IInv, BindChild \/ CaptureExit PROVE Kept /\ Loss
<1>1. record' \in Record /\ record'.state = record.state
  BY DEF BindChild, CaptureExit, IInv, TypeOK, Record, Exit
<1>2. PICK p \in {"wait", "close", "rescue"} : at' = [at EXCEPT !["executor"] = p]
  BY DEF BindChild, CaptureExit, Goto
<1>3. {"wait", "close", "rescue"} \subseteq Stage \ {"row", "insert"}
  BY DEF Stage
<1>4. /\ UNCHANGED <<journal, ledger, row, life, seen, want, told, judged>> /\ captured' \in BOOLEAN
      /\ back' = back
  BY DEF BindChild, CaptureExit, history, IInv, TypeOK
<1>5. "executor" \in Actor
  BY Actors
<1> QED BY <1>1, <1>2, <1>3, <1>4, <1>5, RecordKeeps

LEMMA ExecuteKeeps == ASSUME IInv, Execute PROVE Kept /\ Loss
<1>1. "executor" \in Actor
  BY Actors
<1>2. {"success", "failure"} \subseteq Verdict \ {"lost"} /\ "full" \in Payload
  BY DEF Verdict, Payload
<1>3. ASSUME Mend PROVE Kept /\ Loss
  BY <1>1, <1>2, <1>3, OwnFinishKeeps DEF Mend
<1>4. ASSUME FinishExecuted PROVE Kept /\ Loss
  <2> PICK w \in {"success", "failure"} : Finish("executor", w, "full")
    BY <1>4 DEF FinishExecuted
  <2> QED BY <1>1, <1>2, <1>4, OwnFinishKeeps DEF FinishExecuted
<1> QED BY <1>1, <1>3, <1>4, RecoverKeeps, AdoptKeeps, RunKeeps, ChildKeeps, CloseKeeps,
        RescueKeeps DEF Execute

-----------------------------------------------------------------------------
(* The observer.                                                           *)

LEMMA ObserveKeeps == ASSUME IInv, Observe PROVE Kept /\ Loss
<1>0. "observer" \in Actor /\ "observer" \notin Caller /\ TypeOK
  BY Actors, CallerAssumption DEF IInv
<1>1. ASSUME Watch \/ WeighEnded \/ (WeighRunning /\ ~Dead(seen["observer"])) PROVE Kept /\ Loss
  <2>1. /\ UNCHANGED <<files, row, want>> /\ life' \subseteq Process /\ told' \subseteq Canceller
        /\ judged' \in {"unknown", "accepted", "rejected"} /\ captured' = captured /\ back' = back
    BY <1>1 DEF Watch, WeighEnded, WeighRunning, IInv, TypeOK, history
  <2>2. PICK p \in {"weigh", "over", "look", "watch"} : at' = [at EXCEPT !["observer"] = p]
    BY <1>1 DEF Watch, WeighEnded, WeighRunning, Goto
  <2>3. seen' = seen \/ seen' = [seen EXCEPT !["observer"] = record]
    BY <1>1 DEF Watch, WeighEnded, WeighRunning
  <2>4. {"weigh", "over", "look", "watch"} \subseteq Stage \ {"row", "insert"}
    BY DEF Stage
  <2> QED BY <1>0, <2>1, <2>2, <2>3, <2>4, SeenState, QuietKeeps
<1>2. ASSUME WeighRunning, Dead(seen["observer"]) PROVE Kept /\ Loss
  <2>1. /\ Terminalize("observer", "lost", "look") /\ at["observer"] = "weigh"
        /\ UNCHANGED <<row, life, want, history>> /\ told' \subseteq Canceller /\ back' = back
    BY <1>2 DEF WeighRunning, IInv, TypeOK
  <2>2. "lost" \in Verdict /\ "look" \in Stage \ {"row", "insert"}
    BY DEF Verdict, Stage
  <2>3. Kept /\ (at'["observer"] = "look" \/ at'["observer"] \in Broken("observer"))
    BY <1>0, <2>1, <2>2, TerminalizeKeeps
  <2>4. at'["observer"] # "weigh"
    BY <1>0, <2>3, Places
  <2> QED BY <2>1, <2>3, <2>4 DEF Loss
<1> QED BY <1>0, <1>1, <1>2, RecoverKeeps DEF Observe

-----------------------------------------------------------------------------
(* Cancellers.                                                             *)

LEMMA ClaimKills ==
  ASSUME IInv, NEW c \in Canceller, Claim(c), seen[c].state = "running", seen[c].worker
  PROVE  Kept /\ Loss
<1>1. /\ Terminalize(c, "killed", "reap") /\ UNCHANGED <<row, life, want, history>>
      /\ told' \subseteq Canceller /\ back' = back
  BY DEF Claim, IInv, TypeOK
<1>2. "killed" \in Verdict /\ "reap" \in Stage \ {"row", "insert"}
  BY DEF Verdict, Stage
<1>3. Kept /\ (journal.state = "none" /\ journal'.state = "lost" => "killed" = "lost")
  BY <1>1, <1>2, Actors, TerminalizeKeeps
<1> QED BY <1>3 DEF Loss

LEMMA AnswerKeeps ==
  ASSUME IInv, NEW c \in Canceller, Cancel(c) \/ Check(c) \/ Tell(c) \/ Claim(c)
  PROVE  Kept /\ Loss
<1>0. c \in Actor /\ Begun \in Record /\ Begun.state \notin Verdict
  BY Actors, BegunTyped
<1>1. ~(Claim(c) /\ seen[c].state = "running" /\ seen[c].worker) =>
        /\ UNCHANGED <<files, row, want>> /\ life' \subseteq Process /\ told' \subseteq Canceller
        /\ judged' \in {"unknown", "accepted", "rejected"} /\ captured' = captured
  BY DEF Cancel, Check, Tell, Claim, Answer, IInv, TypeOK, history
<1>2. CASE Cancel(c) \/ Check(c) \/ Tell(c)
  <2>1. PICK p \in {"look", "idle", "judge"}, q \in {"check", "idle", "claim"} :
          at' = [at EXCEPT ![c] = p] /\ back' = [back EXCEPT ![c] = q]
    BY <1>2 DEF Cancel, Check, Tell, Answer, Call
  <2>2. seen' = seen \/ seen' = [seen EXCEPT ![c] = record] \/ seen' = [seen EXCEPT ![c] = Begun]
    BY <1>2 DEF Cancel, Check, Tell, Answer
  <2>3. {"look", "idle", "judge", "check", "claim"} \subseteq Stage \ {"row", "insert"}
    BY DEF Stage
  <2>4. CASE ~Claim(c)
    BY <1>0, <1>1, <2>1, <2>2, <2>3, <2>4, SeenState, QuietKeeps
  <2>5. ~Claim(c)
    BY <1>2 DEF Cancel, Check, Tell, Claim
  <2> QED BY <2>4, <2>5
<1>3. CASE Claim(c) /\ ~(seen[c].state = "running" /\ seen[c].worker)
  <2>1. PICK p \in {"look", "idle"}, q \in {"answer", "idle"} :
          at' = [at EXCEPT ![c] = p] /\ back' = [back EXCEPT ![c] = q]
    BY <1>3 DEF Claim, Answer, Call
  <2>2. seen' = seen \/ seen' = [seen EXCEPT ![c] = Begun]
    BY <1>3 DEF Claim, Answer
  <2>3. {"look", "idle", "answer"} \subseteq Stage \ {"row", "insert"}
    BY DEF Stage
  <2> QED BY <1>0, <1>1, <1>3, <2>1, <2>2, <2>3, SeenState, QuietKeeps
<1>4. CASE Claim(c) /\ seen[c].state = "running" /\ seen[c].worker
  BY <1>4, ClaimKills
<1> QED BY <1>2, <1>3, <1>4

LEMMA ReapKeeps == ASSUME IInv, NEW c \in Canceller, Reap(c) PROVE Kept /\ Loss
<1>0. /\ c \in Actor /\ "executor" \in Actor /\ Begun \in Record /\ Begun.state \notin Verdict
      /\ c # "executor"
  BY Actors, BegunTyped, CallerAssumption DEF Caller
<1>1. {"look", "idle", "answer", "confirm", "dead"} \subseteq Stage \ {"row", "insert"}
  BY DEF Stage
<1>2. CASE seen[c].state # "killed" \/ Answer(c, "unconfirmed")
  <2>1. /\ UNCHANGED <<files, row, want>> /\ life' \subseteq Process /\ told' \subseteq Canceller
        /\ judged' \in {"unknown", "accepted", "rejected"} /\ captured' = captured
    BY <1>2 DEF Reap, Answer, IInv, TypeOK, history
  <2>2. PICK p \in {"look", "idle"}, q \in {"answer", "idle"} :
          at' = [at EXCEPT ![c] = p] /\ back' = [back EXCEPT ![c] = q]
    BY <1>2 DEF Reap, Answer, Call
  <2>3. seen' = seen \/ seen' = [seen EXCEPT ![c] = Begun]
    BY <1>2 DEF Reap, Answer
  <2> QED BY <1>0, <1>1, <2>1, <2>2, <2>3, SeenState, QuietKeeps
<1>3. CASE /\ life' = life \ Group /\ at' = [at EXCEPT ![c] = "confirm", !["executor"] = "dead"]
           /\ UNCHANGED <<back, told, seen>>
  <2>1. TypeOK /\ Stores' /\ Stands /\ FilesOK' /\ journal' = journal /\ row' = row /\ want' = want
    BY FilesAlone DEF IInv, Reap, files
  <2>2. TypeOK'
    BY <1>0, <1>1, <1>3, <2>1 DEF Reap, TypeOK, FilesOK, history
  <2>3. Held(c)'
    BY <1>0, <1>3, <2>1 DEF IInv, Hand, Held, TypeOK
  <2>4. at'["launcher"] = "insert" => at["launcher"] = "insert"
    BY Actors, <1>0, <1>3, <2>1 DEF TypeOK
  <2>5. \A b \in Actor \ {c} : /\ at'[b] = at[b] \/ at'[b] = "dead"
                               /\ want'[b] = want[b] /\ seen'[b] = seen[b] /\ back'[b] = back[b]
    BY <1>0, <1>3, <2>1 DEF TypeOK
  <2>6. Kept
    BY <1>0, <2>1, <2>2, <2>3, <2>4, <2>5, StepKeeps
  <2> QED BY <2>1, <2>6 DEF Loss
<1> QED BY <1>2, <1>3 DEF Reap

LEMMA StopKeeps == ASSUME IInv, NEW c \in Canceller, Stop(c) PROVE Kept /\ Loss
<1>1. c \in Actor
  BY Actors
<1>2. ASSUME Confirm(c) PROVE Kept /\ Loss
  <2>1. "killed" \in Verdict \ {"lost"} /\ "none" \in Payload
    BY DEF Verdict, Payload
  <2> QED BY <1>1, <1>2, <2>1, OwnFinishKeeps DEF Confirm
<1> QED BY <1>1, <1>2, RecoverKeeps, AnswerKeeps, ReapKeeps DEF Stop

-----------------------------------------------------------------------------
(* Deaths and errors.                                                      *)

LEMMA DieKeeps == ASSUME IInv, NEW p \in Process, Die(p) PROVE Kept /\ Loss
<1>1. /\ TypeOK /\ Stores' /\ Stands /\ FilesOK' /\ journal' = journal /\ row' = row
      /\ want' = want /\ seen' = seen /\ back' = back
  BY FilesAlone DEF IInv, Die, files
<1>2. "dead" \in Stage
  BY DEF Stage
<1>3. \A b \in Actor : at'[b] = at[b] \/ at'[b] = "dead"
  BY DEF Die
<1>4. at' \in [Actor -> Stage]
  BY <1>1, <1>2, <1>3 DEF Die, TypeOK
<1>5. TypeOK'
  BY <1>1, <1>4 DEF Die, TypeOK, FilesOK, history
<1>6. Held("observer")'
  BY <1>1, <1>3, Actors DEF IInv, Hand, Held, Follows
<1>7. at'["launcher"] = "insert" => at["launcher"] = "insert"
  BY <1>3, Actors
<1>8. Kept
  BY <1>1, <1>3, <1>5, <1>6, <1>7, Actors, StepKeeps
<1> QED BY <1>1, <1>8 DEF Loss

LEMMA BreakOffKeeps == ASSUME IInv, NEW a \in Actor, BreakOff(a) PROVE Kept /\ Loss
<1>1. PICK p \in Stage \ {"row", "insert"} : at' = [at EXCEPT ![a] = p]
  BY Places DEF BreakOff, Goto
<1>2. /\ UNCHANGED <<files, row, want>> /\ life' \subseteq Process /\ told' \subseteq Canceller
      /\ judged' \in {"unknown", "accepted", "rejected"} /\ captured' = captured
      /\ back' = back /\ seen' = seen
  BY DEF BreakOff, IInv, TypeOK, history
<1> QED BY <1>1, <1>2, SeenState, QuietKeeps

-----------------------------------------------------------------------------
LEMMA InitHolds == Init => IInv
<1> SUFFICES ASSUME Init PROVE IInv
  OBVIOUS
<1>1. Begun \in Record /\ NoEnd \in End /\ NoRow \in Row /\ Begun.state = "running"
  BY DEF Begun, Record, NoEnd, End, NoRow, Row, Exit, Authority, Payload
<1>2. \A a \in Actor : at[a] \in Stage /\ at[a] # "row" /\ back[a] \in Stage \ {"row", "insert"}
  BY Places DEF Init, Stage
<1>3. TypeOK
  <2>1. at \in [Actor -> Stage] /\ back \in [Actor -> Stage]
    BY <1>2 DEF Init
  <2>2. seen \in [Actor -> Record] /\ want \in [Actor -> Row]
    BY <1>1 DEF Init
  <2> QED BY <1>1, <2>1, <2>2 DEF Init, TypeOK, Process
<1>4. Stores
  BY DEF Init, Stores, RecordBehind, LossInferred, LedgerLags, LedgerBehind, NoEnd, Begun, Verdict
<1>5. Hand
  BY <1>1, <1>2 DEF Init, Hand, Held, Verdict
<1>6. RowHeld
  BY DEF Init, RowHeld, NoRow, Verdict
<1> QED BY <1>3, <1>4, <1>5, <1>6 DEF IInv

LEMMA StutterKeeps == ASSUME IInv, UNCHANGED vars PROVE Kept /\ Loss
<1>1. FilesOK' /\ Stores' /\ Stands
  BY FilesAlone DEF vars, files
<1>2. TypeOK'
  BY DEF vars, IInv, TypeOK
<1>3. Hand'
  BY DEF vars, IInv, Hand, Held, Follows
<1>4. RowHeld'
  BY DEF vars, IInv, RowHeld, Follows
<1> QED BY <1>1, <1>2, <1>3, <1>4 DEF vars, Kept, IInv, Loss

LEMMA NextKeeps == ASSUME IInv, [Next]_vars PROVE Kept /\ Loss
<1>1. ASSUME NEW a \in Reader, Recover(a) PROVE Kept /\ Loss
  BY <1>1, Actors, RecoverKeeps
<1> QED BY <1>1, LaunchKeeps, ExecuteKeeps, ObserveKeeps, StopKeeps, DieKeeps, BreakOffKeeps,
        StutterKeeps DEF Next

(* The inductive invariant holds.                                          *)
THEOREM Invariance == Spec => []IInv
<1>1. IInv /\ [Next]_vars => IInv'
  BY NextKeeps DEF Kept
<1> QED BY <1>1, InitHolds, PTL DEF Spec

(* Every variable has its type, for any readers, cancellers and faults.    *)
THEOREM TypeCorrect == Spec => []TypeOK
<1>1. IInv => TypeOK
  BY DEF IInv
<1> QED BY <1>1, Invariance, PTL

(* The ledger says what the journal says, or a loss it replaced, whatever  *)
(* write was cut short.                                                    *)
THEOREM LedgerAgrees == Spec => []LedgerFollows
<1>1. IInv => LedgerFollows
  BY DEF IInv, Stores, LedgerLags, LedgerFollows
<1> QED BY <1>1, Invariance, PTL

(* The row says what the journal says, or a loss it replaced, whoever wrote*)
(* it last.                                                                *)
THEOREM RowAgrees == Spec => []RowFollows
<1>1. IInv => RowFollows
  BY DEF IInv, RowHeld, Follows, RowFollows
<1> QED BY <1>1, Invariance, PTL

(* The end in the journal is final, but for a loss that evidence replaces. *)
THEOREM FirstEndStands == Spec => EndStands
<1>1. IInv /\ [Next]_vars =>
        [journal.state # "none" =>
           journal' = journal \/ (journal.state = "lost" /\ journal'.authority = "captured")]_vars
  BY NextKeeps DEF Kept, Stands
<1> QED BY <1>1, Invariance, PTL DEF Spec, EndStands

(* Only the observer makes a loss of a job that lives.                     *)
THEOREM OthersLoseOnlyTheDead == Spec => LossIsOfTheDead
<1>1. IInv /\ [Next]_vars =>
        [journal.state = "none" /\ journal'.state = "lost" /\ at'["observer"] = at["observer"]
           => Dead(record)]_vars
  BY NextKeeps DEF Loss
<1> QED BY <1>1, Invariance, PTL DEF Spec, LossIsOfTheDead

(* A row that has ended otherwise than by a loss is never written again.   *)
THEOREM RowIsFinal == Spec => RowStands
<1>1. ASSUME IInv, [Next]_vars, row.state \in Verdict \ {"lost"} PROVE row' = row
  <2>1. ASSUME NEW a \in Actor, UpdateRow(a) PROVE row' = row
    BY <1>1, <2>1 DEF UpdateRow, Updates, Verdict
  <2>2. ASSUME NEW a \in Actor, Recover(a) PROVE row' = row
    BY <2>1, <2>2 DEF Recover, Look, Judge, Decide
  <2>3. ASSUME Launch PROVE row' = row
    BY <1>1, <2>1, <2>3, Actors
       DEF Launch, InsertRow, Spawn, Adopt, StartFailed, IInv, RowHeld, Verdict
  <2>4. ASSUME Execute PROVE row' = row
    BY <2>2, <2>4, Actors
       DEF Execute, Adopt, RunWarm, RunChild, BindChild, CaptureExit, Close, Rescue, Mend, Assess,
           FinishExecuted
  <2>5. ASSUME Observe PROVE row' = row
    BY <2>2, <2>5, Actors DEF Observe, Watch, WeighRunning, WeighEnded
  <2>6. ASSUME NEW c \in Canceller, Stop(c) PROVE row' = row
    BY <2>2, <2>6, Actors DEF Stop, Cancel, Check, Claim, Reap, Confirm, Tell
  <2>7. ASSUME NEW a \in Reader, Recover(a) PROVE row' = row
    BY <2>2, <2>7, Actors
  <2>8. ASSUME NEW p \in Process, Die(p) PROVE row' = row
    BY <2>8 DEF Die
  <2>9. ASSUME NEW a \in Actor, BreakOff(a) PROVE row' = row
    BY <2>9 DEF BreakOff
  <2>10. ASSUME UNCHANGED vars PROVE row' = row
    BY <2>10 DEF vars
  <2> QED BY <1>1, <2>3, <2>4, <2>5, <2>6, <2>7, <2>8, <2>9, <2>10 DEF Next
<1>2. IInv /\ [Next]_vars => [row.state \in Verdict \ {"lost"} => row' = row]_vars
  BY <1>1
<1> QED BY <1>2, Invariance, PTL DEF Spec, RowStands
=============================================================================
