--------------------------- MODULE DelegateJournal ---------------------------
(***************************************************************************)
(* One delegate job: who says how it ended, and what the stores say of it  *)
(* (execution_journal.py, delegate_jobs.py, delegate_router.py and         *)
(* delegate_worker.py under src/src/spendguard).                           *)
(*                                                                         *)
(* A launcher starts the executor, in a thread of its own process or in a  *)
(* detached worker, and the executor runs the provider's child process.    *)
(* An observer watches the processes, readers poll the job, cancellers     *)
(* stop it, and each may write the end.  The end is written to three files *)
(* under one lock (the journal of the execution, a ledger, the record in   *)
(* state.json) and projected to a row of a database without that lock.     *)
(* A write under the lock is one step that may be cut short after any      *)
(* file, by a crash or a failed write; the lock then is free again.  The   *)
(* journal is first, so a record that has ended without an end in the      *)
(* journal, for which the code has a branch, does not come about.          *)
(*                                                                         *)
(* A process is identified by pid and birth, so it is dead for good when   *)
(* it is dead.  The row's states done and failed are written "success" and *)
(* "failure", their names in the journal.  Pruning and reclaiming of what  *)
(* is long over, and the staleness a status report adds, are left out.     *)
(***************************************************************************)
EXTENDS Naturals

CONSTANTS
  Detached,    \* the executor is a worker process, not a thread of the launcher
  Reader,      \* processes that poll the job
  Canceller,   \* processes that cancel it, again if they were refused
  Flaky        \* actors whose calls may break off anywhere

Caller == Reader \cup Canceller
Actor == {"launcher", "executor", "observer"} \cup Caller
Process == {"launcher", "worker", "child", "observer"}
Home == IF Detached THEN "worker" ELSE "launcher"

ASSUME ModeAssumption == Detached \in BOOLEAN /\ Flaky \subseteq Actor
ASSUME CallerAssumption == /\ Caller \cap {"launcher", "executor", "observer"} = {}
                           /\ Reader \cap Canceller = {}

VARIABLES
  record,    \* state.json
  journal,   \* the end event in the execution's own journal
  ledger,    \* the end event in the common ledger
  row,       \* the row of delegate_jobs
  life,      \* the processes that live
  at,        \* where each actor is
  back,      \* where it goes on after recover_delegate_job_execution or finish
  seen,      \* the record as it read it
  want,      \* the end it is about to write to the row, or works toward
  told,      \* the cancellers whose last call answered that the job is killed
  judged,    \* history: what the executor made of the provider's answer
  captured   \* history: the executor recorded the child's exit code

Verdict == {"success", "failure", "killed", "lost"}
Exit == {"none", "plain", "signal"}
Authority == {"none", "inferred", "captured"}
End == [state : Verdict \cup {"none"}, exit : Exit, authority : Authority]
NoEnd == [state |-> "none", exit |-> "none", authority |-> "none"]
Record == [state : Verdict \cup {"running"}, exit : Exit, authority : Authority,
           owner : {"launcher", "worker"}, worker : BOOLEAN, child : BOOLEAN]
Payload == {"none", "evidence", "full"}
Row == [state : Verdict \cup {"none", "running"}, payload : Payload]
NoRow == [state |-> "none", payload |-> "none"]
Begun == [state |-> "running", exit |-> "none", authority |-> "none",
          owner |-> "launcher", worker |-> FALSE, child |-> FALSE]

files == <<record, journal, ledger>>
history == <<judged, captured>>
vars == <<record, journal, ledger, row, life, at, back, seen, want, told, judged, captured>>

(* A reader polls again and again (wait_for_delegate_job); a canceller     *)
(* rests between its calls.                                                *)
Rest(a) == IF a \in Reader THEN "look" ELSE "idle"

(* begin_durable_execution has returned: the observer runs, there is no    *)
(* row yet.                                                                *)
Init ==
  /\ record = Begun /\ journal = NoEnd /\ ledger = NoEnd /\ row = NoRow
  /\ life = {"launcher", "observer"}
  /\ at = [a \in Actor |-> CASE a = "launcher" -> "insert" [] a = "executor" -> "unborn"
                             [] a = "observer" -> "watch" [] OTHER -> Rest(a)]
  /\ back = [a \in Actor |-> IF a \in Caller THEN Rest(a) ELSE "over"]
  /\ seen = [a \in Actor |-> Begun] /\ want = [a \in Actor |-> NoRow]
  /\ told = {}
  /\ judged = "unknown" /\ captured = FALSE

-----------------------------------------------------------------------------
(* terminalize_durable_execution.                                          *)
EndOf(r) == [state |-> r.state, exit |-> r.exit, authority |-> r.authority]

(* authoritative_completion: a loss is never one.                          *)
Authoritative(w) == w # "lost" /\ record.exit # "none"

(* Mutant: any end without captured evidence gives way to a completion.    *)
BindsIfCaptured(w) == journal.state # "none" /\ ~(journal.authority # "captured" /\ Authoritative(w))

(* Mutant: the record is consulted in place of the journal.                *)
BindsByRecord(w) == record.state # "running" /\ ~(record.state = "lost" /\ Authoritative(w))

(* The end in the journal binds, but for a loss that a completion with     *)
(* captured evidence replaces.                                             *)
Binds(w) == journal.state # "none" /\ ~(journal.state = "lost" /\ Authoritative(w))

(* Mutant: the event becomes the record.                                   *)
RestoredAsEvent == journal

Restored == [record EXCEPT !.state = journal.state, !.exit = journal.exit,
                           !.authority = journal.authority]
Decided(w) == [record EXCEPT
  !.state = IF w \in {"failure", "lost"} /\ record.exit = "signal" THEN "killed" ELSE w,
  !.authority = IF Authoritative(w) THEN "captured" ELSE "inferred"]
Ruling(w) == IF Binds(w) THEN Restored ELSE Decided(w)

(* _append_durable_execution_event: an end that is there stays, unless it  *)
(* has less authority than the new one.                                    *)
Appended(end, r) ==
  IF end.state = "none" \/ (end.authority # "captured" /\ r.authority = "captured")
  THEN EndOf(r) ELSE end

(* The files in the order they are written; a cut below Whole stops there. *)
Whole == 3
(* Mutant: an end that is in the journal is taken to be in the ledger.     *)
WrittenOnce(r, cut) ==
  /\ journal' = IF cut >= 1 THEN Appended(journal, r) ELSE journal
  /\ ledger' = IF cut >= 2 /\ journal.state = "none" THEN Appended(ledger, r) ELSE ledger
  /\ record' = IF cut = Whole THEN r ELSE record

Written(r, cut) ==
  /\ journal' = IF cut >= 1 THEN Appended(journal, r) ELSE journal
  /\ ledger' = IF cut >= 2 THEN Appended(ledger, r) ELSE ledger
  /\ record' = IF cut = Whole THEN r ELSE record

Cuts(a) == IF a \in Flaky THEN 0 .. Whole ELSE {Whole}

(* Where an error leaves an actor: a caller may call again, a start that   *)
(* failed is finished as failed.  An executor whose provider call breaks   *)
(* writes a failure, and then, as for any other error of its run, finishes *)
(* the job as failed unless it was a persistence error that broke it.      *)
Running == {"run", "rescue", "assess", "finish"}
Broken(a) ==
  CASE a \in Caller -> {Rest(a)}
    [] a = "launcher" /\ at[a] \in {"spawn", "adopt"} /\ Detached -> {"failed"}
    [] a = "executor" /\ at[a] \in {"bind", "wait", "close"} -> {"rescue"}
    [] a = "executor" /\ at[a] # "mend" /\ (at[a] \in Running \/ back[a] \in {"run", "over"})
         -> {"mend", "dead"}
    [] OTHER -> {"dead"}

Goto(a, p) == at' = [at EXCEPT ![a] = p]
Then(a, cut, p) ==
  IF cut = Whole THEN Goto(a, p) ELSE \E q \in Broken(a) : Goto(a, q)

Terminalize(a, w, p) ==
  \E cut \in Cuts(a) : /\ Written(Ruling(w), cut) /\ Then(a, cut, p)
                       /\ seen' = [seen EXCEPT ![a] = IF cut = Whole THEN Ruling(w) ELSE Begun]

(* Mutant: a job without a child is never dead.                            *)
BothDead(r) == r.owner \notin life /\ r.child /\ "child" \notin life

Dead(r) == r.owner \notin life /\ ~(r.child /\ "child" \in life)
(* Mutant: expected_process_identity is not passed.                        *)
AnyIdentity(a) == TRUE

SameIdentity(a) == record.owner = seen[a].owner /\ record.child = seen[a].child

-----------------------------------------------------------------------------
(* read_delegate_job recovers the execution of a running row, the observer *)
(* that of any (recover_delegate_job_execution).  recover_durable_execution*)
(* reads the record under the lock,                                        *)
Look(a) ==
  /\ at[a] = "look"
  /\ IF row.state = "running" \/ (a = "observer" /\ row.state # "none")
     THEN Goto(a, "judge") /\ seen' = [seen EXCEPT ![a] = record]
     ELSE Goto(a, back[a]) /\ UNCHANGED seen
  /\ UNCHANGED <<files, row, life, back, want, told, history>>

(* then, without it, looks at the processes and writes a loss, unless the  *)
(* record names other processes by then, or repairs what an interrupted    *)
(* write left.  A canceller goes on from here on its own.                  *)
Onward(a) == IF back[a] = "claim" THEN "claim" ELSE "decide"

Judge(a) ==
  /\ at[a] = "judge"
  /\ \/ /\ seen[a].state = "running" /\ ~Dead(seen[a])
        /\ Goto(a, Onward(a)) /\ UNCHANGED <<files, seen>>
     \/ /\ seen[a].state = "running" /\ Dead(seen[a]) /\ ~SameIdentity(a)
        /\ Goto(a, Onward(a)) /\ seen' = [seen EXCEPT ![a] = record]
        /\ UNCHANGED files
     \/ /\ seen[a].state = "running" => Dead(seen[a]) /\ SameIdentity(a)
        /\ Terminalize(a, IF seen[a].state = "running" THEN "lost" ELSE seen[a].state, Onward(a))
  /\ UNCHANGED <<row, life, back, want, told, history>>

(* Mutant: the row takes the caller's state, not the one that stands.      *)
WonByCaller(w, r, payload) == [state |-> w, payload |-> payload]

(* finish_delegate_job writes the end, if it is not written, and takes the *)
(* one that stands: with another than its own it drops what it has to say. *)
Won(w, r, payload) == [state |-> r.state, payload |-> IF r.state = w THEN payload ELSE "none"]

Finish(a, w, payload) ==
  \E cut \in Cuts(a) : /\ Written(Ruling(w), cut) /\ Then(a, cut, "row")
                       /\ want' = [want EXCEPT ![a] = Won(w, Ruling(w), payload)]

(* A reader finishes a job whose owner is dead, or lost or killed.         *)
Projects(a) ==
  /\ row.state \in {"running", "lost"}
  /\ seen[a].state \in Verdict
  /\ seen[a].owner \notin life \/ seen[a].state \in {"lost", "killed"}

Decide(a) ==
  /\ at[a] = "decide"
  /\ IF Projects(a) THEN Finish(a, seen[a].state, "evidence")
     ELSE Goto(a, back[a]) /\ UNCHANGED <<files, want>>
  /\ seen' = [seen EXCEPT ![a] = Begun]
  /\ UNCHANGED <<row, life, back, told, history>>

(* Mutant: an UPDATE without its WHERE.                                    *)
UpdatesAny(w) == row.state # "none"

(* The last step of finish_delegate_job, a transaction on the row: only a  *)
(* running row is ended, and a lost one by anything but a loss.            *)
Updates(w) == row.state = "running" \/ (row.state = "lost" /\ w.state # "lost")
UpdateRow(a) ==
  /\ at[a] = "row"
  /\ row' = IF Updates(want[a]) THEN want[a] ELSE row
  /\ want' = [want EXCEPT ![a] = NoRow]
  /\ Goto(a, back[a])
  /\ UNCHANGED <<files, life, back, seen, told, history>>

-----------------------------------------------------------------------------
(* The launcher: start_delegate_job and _launch_detached_delegate_worker.  *)
Call(a, p, q) == at' = [at EXCEPT ![a] = p] /\ back' = [back EXCEPT ![a] = q]

InsertRow ==
  /\ at["launcher"] = "insert"
  /\ row' = [row EXCEPT !.state = "running"]
  /\ Goto("launcher", "spawn")
  /\ UNCHANGED <<files, life, back, seen, want, told, history>>

(* A worker that starts reads the job before it adopts it; so does the     *)
(* executor before it runs.                                                *)
Spawn ==
  /\ at["launcher"] = "spawn"
  /\ at' = [at EXCEPT !["launcher"] = IF Detached THEN "adopt" ELSE "over", !["executor"] = "look"]
  /\ back' = [back EXCEPT !["executor"] = IF Detached THEN "adopt" ELSE "run"]
  /\ life' = life \cup {Home}
  /\ UNCHANGED <<files, row, seen, want, told, history>>

(* adopt_durable_execution_owner, by the launcher and by the worker itself.*)
Adopt(a) ==
  /\ at[a] = "adopt"
  /\ record' = [record EXCEPT !.owner = "worker", !.worker = TRUE]
  /\ IF a = "executor" THEN Call(a, "look", "run") ELSE Goto(a, "over") /\ UNCHANGED back
  /\ UNCHANGED <<journal, ledger, row, life, seen, want, told, history>>

StartFailed ==
  /\ at["launcher"] = "failed"
  /\ Finish("launcher", "failure", "none")
  /\ UNCHANGED <<row, life, back, seen, told, history>>

-----------------------------------------------------------------------------
(* The executor: _run_delegate_job_to_completion.  A provider that is warm *)
(* answers without a child; a child is bound, ends and has its exit code   *)
(* recorded (run_durable_delegate_subprocess); a child that is timed out   *)
(* may leave the provider with an error.                                   *)
RunWarm ==
  /\ at["executor"] = "run"
  /\ Goto("executor", "close")
  /\ UNCHANGED <<files, row, life, back, seen, want, told, history>>

RunChild ==
  /\ at["executor"] = "run"
  /\ life' = life \cup {"child"}
  /\ Goto("executor", "bind")
  /\ UNCHANGED <<files, row, back, seen, want, told, history>>

BindChild ==
  /\ at["executor"] = "bind"
  /\ record' = [record EXCEPT !.child = TRUE]
  /\ Goto("executor", "wait")
  /\ UNCHANGED <<journal, ledger, row, life, back, seen, want, told, history>>

CaptureExit ==
  /\ at["executor"] = "wait" /\ "child" \notin life
  /\ \E e \in Exit \ {"none"} :
       /\ record' = [record EXCEPT !.exit = e]
       /\ \E p \in IF e = "signal" THEN {"close", "rescue"} ELSE {"close"} : Goto("executor", p)
  /\ captured' = TRUE
  /\ UNCHANGED <<journal, ledger, row, life, back, seen, want, told, judged>>

(* _invoke_recoverable_delegate ends the execution by the provider's word, *)
(* and as a failure when anything went wrong on the way.                   *)
Close ==
  /\ at["executor"] = "close"
  /\ \E w \in {"success", "failure"} :
       /\ record.exit = "signal" => w = "failure"
       /\ \E cut \in Cuts("executor") :
            /\ Written(Ruling(w), cut) /\ Then("executor", cut, "assess")
            /\ want' = [want EXCEPT !["executor"].state = w]
  /\ UNCHANGED <<row, life, back, seen, told, history>>

Rescue ==
  /\ at["executor"] = "rescue"
  /\ \E cut \in Cuts("executor") : Written(Ruling("failure"), cut)
  /\ \E p \in Broken("executor") : Goto("executor", p)
  /\ UNCHANGED <<row, life, back, seen, want, told, history>>

(* What its error handler makes of the job.                                *)
Mend ==
  /\ at["executor"] = "mend"
  /\ back' = [back EXCEPT !["executor"] = "dead"]
  /\ Finish("executor", "failure", "full")
  /\ UNCHANGED <<row, life, seen, told, history>>

(* _assemble_delegate_execution_result judges what a provider calls a      *)
(* success: too long, degraded, never started, or executed.                *)
Assess ==
  /\ at["executor"] = "assess"
  /\ \E verdict \in {"accepted", "rejected"} :
       /\ want["executor"].state = "failure" => verdict = "rejected"
       /\ judged' = verdict
  /\ Call("executor", "finish", "over")
  /\ UNCHANGED <<files, row, life, seen, want, told, captured>>

FinishExecuted ==
  /\ at["executor"] = "finish"
  /\ Finish("executor", IF judged = "accepted" THEN "success" ELSE "failure", "full")
  /\ UNCHANGED <<row, life, back, seen, told, history>>

-----------------------------------------------------------------------------
(* The observer: _observe_durable_execution.  It reads the record, and     *)
(* from it alone, without the lock, it makes its loss.                     *)
Watch ==
  /\ at["observer"] = "watch"
  /\ seen' = [seen EXCEPT !["observer"] = record]
  /\ Goto("observer", "weigh")
  /\ UNCHANGED <<files, row, life, back, want, told, history>>

WeighRunning ==
  /\ at["observer"] = "weigh" /\ seen["observer"].state = "running"
  /\ IF Dead(seen["observer"]) THEN Terminalize("observer", "lost", "look")
     ELSE Goto("observer", "watch") /\ UNCHANGED <<files, seen>>
  /\ UNCHANGED <<row, life, back, want, told, history>>

WeighEnded ==
  /\ at["observer"] = "weigh" /\ seen["observer"].state # "running"
  /\ Goto("observer", IF row.state \in Verdict THEN "over"
                      ELSE IF seen["observer"].owner \notin life THEN "look" ELSE "watch")
  /\ UNCHANGED <<files, row, life, back, seen, want, told, history>>

-----------------------------------------------------------------------------
(* Cancellers: cancel_delegate_job reads the job, recovers the execution,  *)
(* claims the end as killed, and kills the worker's process group.         *)
Answer(c, word) ==
  /\ told' = IF word = "killed" THEN told \cup {c} ELSE told
  /\ Call(c, "idle", "idle")
  /\ seen' = [seen EXCEPT ![c] = Begun]

Cancel(c) ==
  /\ at[c] = "idle" /\ row.state # "none"
  /\ Call(c, "look", "check")
  /\ told' = told \ {c}
  /\ UNCHANGED <<files, row, life, seen, want, history>>

Check(c) ==
  /\ at[c] = "check"
  /\ IF row.state # "running" THEN Answer(c, row.state)
     ELSE Call(c, "judge", "claim") /\ seen' = [seen EXCEPT ![c] = record] /\ UNCHANGED told
  /\ UNCHANGED <<files, row, life, want, history>>

Claim(c) ==
  /\ at[c] = "claim"
  /\ \/ /\ seen[c].state # "running"
        /\ Call(c, "look", "answer") /\ UNCHANGED <<files, seen, told>>
     \/ /\ seen[c].state = "running" /\ ~seen[c].worker
        /\ Answer(c, "refused") /\ UNCHANGED files
     \/ /\ seen[c].state = "running" /\ seen[c].worker
        /\ Terminalize(c, "killed", "reap") /\ UNCHANGED <<back, told>>
  /\ UNCHANGED <<row, life, want, history>>

(* reap_process_group_bounded: all are gone, or a bound or a refused       *)
(* signal leaves the canceller with "termination unconfirmed".             *)
Group == {"worker", "child"}
Reap(c) ==
  /\ at[c] = "reap"
  /\ \/ /\ seen[c].state # "killed"
        /\ Call(c, "look", "answer") /\ UNCHANGED <<life, told, seen>>
     \/ /\ seen[c].state = "killed"
        /\ life' = life \ Group
        /\ at' = [at EXCEPT ![c] = "confirm", !["executor"] = "dead"]
        /\ UNCHANGED <<back, told, seen>>
     \/ /\ seen[c].state = "killed" /\ life \cap Group # {}
        /\ Answer(c, "unconfirmed") /\ UNCHANGED life
  /\ UNCHANGED <<files, row, want, history>>

Confirm(c) ==
  /\ at[c] = "confirm"
  /\ back' = [back EXCEPT ![c] = "answer"]
  /\ Finish(c, "killed", "none")
  /\ UNCHANGED <<row, life, seen, told, history>>

Tell(c) ==
  /\ at[c] = "answer"
  /\ Answer(c, row.state)
  /\ UNCHANGED <<files, row, life, want, history>>

-----------------------------------------------------------------------------
(* Processes die at any moment, actors fail where they may.                *)
HostOf(a) ==
  CASE a = "launcher" -> "launcher" [] a = "executor" -> Home
    [] a = "observer" -> "observer" [] OTHER -> "none"

Die(p) ==
  /\ p \in life /\ life' = life \ {p}
  /\ at' = [a \in Actor |-> IF HostOf(a) = p THEN "dead" ELSE at[a]]
  /\ UNCHANGED <<files, row, back, seen, want, told, history>>

BreakOff(a) ==
  /\ a \in Flaky /\ at[a] \notin {"over", "dead", "unborn", "idle"}
  /\ \E p \in Broken(a) : Goto(a, p)
  /\ UNCHANGED <<files, row, life, back, seen, want, told, history>>

Launch == InsertRow \/ Spawn \/ Adopt("launcher") \/ StartFailed \/ UpdateRow("launcher")
Recover(a) == Look(a) \/ Judge(a) \/ Decide(a) \/ UpdateRow(a)
Execute ==
  \/ Recover("executor") \/ Adopt("executor")
  \/ RunWarm \/ RunChild \/ BindChild \/ CaptureExit
  \/ Close \/ Rescue \/ Mend \/ Assess \/ FinishExecuted
Observe == Watch \/ WeighRunning \/ WeighEnded \/ Recover("observer")
Stop(c) ==
  Cancel(c) \/ Recover(c) \/ Check(c) \/ Claim(c) \/ Reap(c) \/ Confirm(c) \/ Tell(c)

Next ==
  \/ Launch \/ Execute \/ Observe
  \/ \E a \in Reader : Recover(a)
  \/ \E c \in Canceller : Stop(c)
  \/ \E p \in Process : Die(p)
  \/ \E a \in Actor : BreakOff(a)

Spec == Init /\ [][Next]_vars

-----------------------------------------------------------------------------
(* Types of the variables.                                                 *)
Stage == {"insert", "spawn", "adopt", "failed", "unborn", "run", "bind", "wait", "close",
          "rescue", "mend", "assess", "finish", "watch", "weigh", "look", "judge", "decide", "row",
          "idle", "check", "claim", "reap", "confirm", "answer", "over", "dead"}
TypeOK ==
  /\ record \in Record /\ journal \in End /\ ledger \in End /\ row \in Row
  /\ life \subseteq Process
  /\ at \in [Actor -> Stage] /\ back \in [Actor -> Stage]
  /\ seen \in [Actor -> Record] /\ want \in [Actor -> Row]
  /\ told \subseteq Canceller
  /\ judged \in {"unknown", "accepted", "rejected"} /\ captured \in BOOLEAN

(* Once the journal has an end it keeps it, whoever writes after, whatever *)
(* was cut short; only a loss gives way, to a completion with evidence.    *)
EndStands ==
  [][journal.state # "none" =>
       journal' = journal \/ (journal.state = "lost" /\ journal'.authority = "captured")]_vars

(* The ledger never says another end than the journal, but for the loss    *)
(* that evidence has replaced in the journal.                              *)
LedgerFollows ==
  \/ ledger.state = "none"
  \/ ledger = journal
  \/ ledger.state = "lost" /\ journal.authority = "captured"

(* The row, which is written later, without the lock and by whoever comes, *)
(* never says another end than the journal, but for such a loss.           *)
RowFollows ==
  row.state \in Verdict =>
    \/ row.state = journal.state
    \/ row.state = "lost" /\ journal.authority = "captured"

(* The row's end is final with all it carries: no stale finish, projection *)
(* or cancel overwrites a row that has ended otherwise than by a loss.     *)
RowStands == [][row.state \in Verdict \ {"lost"} => row' = row]_vars

(* Whoever is not the observer makes a loss only of a job whose processes, *)
(* as the record names them at that moment, are dead.                      *)
LossIsOfTheDead ==
  [][journal.state = "none" /\ journal'.state = "lost" /\ at'["observer"] = at["observer"]
       => Dead(record)]_vars

(* Threads run, a reader keeps polling, a child ends or is timed out, and  *)
(* a worker whose executor has returned exits.                             *)
Fairness ==
  /\ WF_vars(Launch) /\ WF_vars(Execute) /\ WF_vars(Observe)
  /\ \A a \in Reader : WF_vars(Recover(a))
  /\ WF_vars(Die("child"))
  /\ WF_vars(at["executor"] \in {"over", "dead"} /\ Die("worker"))
FairSpec == Spec /\ Fairness

(* wait_for_delegate_job returns: a running row ends, although the worker  *)
(* dies, or its writes are cut short, at any step.                         *)
RowSettles == row.state = "running" ~> row.state \in Verdict

(* An end that reached the journal reaches the ledger, whoever was cut     *)
(* short between the two.                                                  *)
EveryEndIsLogged == journal.state # "none" ~> ledger.state # "none"

-----------------------------------------------------------------------------
(* What documents and tests say and the code does not keep; README, Known  *)
(* deviations, tells how each comes about.                                 *)

(* "A stale launcher-death observation cannot terminalize its adopted      *)
(* worker."  The observer's can.                                           *)
NoStaleLoss ==
  [][journal.state = "none" /\ journal'.state = "lost" => Dead(record)]_vars

(* "Persist a terminal job result in full": the row of an accepted job     *)
(* carries its payload, or the captured evidence in its place.  It may not,*)
(* when a reader that saw a loss finds the success as the winner and drops *)
(* what it has, or the executor's error handler does.                      *)
AcceptedIsKept ==
  judged = "accepted" /\ row.state = "success" => row.payload # "none"

(* A job whose result the executor rejected is not reported as a success.  *)
(* It is, since the journal had the provider's word before.                *)
RejectedIsNotDone == judged = "rejected" => row.state # "success"

(* "Captured completion supersedes loss": a job whose child's exit was     *)
(* recorded does not stay lost when it has closed.  It may: a repair in    *)
(* between takes the exit code out of the record.                          *)
CaptureWins ==
  captured /\ at["executor"] \in {"assess", "finish", "over"} => journal.state # "lost"

(* A cancel that answers "killed" leaves no governed process.  The second  *)
(* call after one that could not confirm does.                             *)
KilledIsGone ==
  told # {} /\ journal.exit # "signal" => life \cap Group = {}
=============================================================================
