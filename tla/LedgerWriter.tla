---------------------------- MODULE LedgerWriter ----------------------------
(***************************************************************************)
(* The ledger's writer (src/src/spendguard/ledger_writer.py) for one       *)
(* ledger file.  Every process has at most one registered owner: a thread  *)
(* with the process's only write handle and a queue of jobs.  A request    *)
(* (run_ledger_write) fetches or creates the owner, takes the owner's      *)
(* admission lock and keeps it until its job is answered or its deadline   *)
(* passes; the owner runs a job in one transaction, under a file lock that *)
(* excludes the other processes.  Owners retire when idle, fail to start   *)
(* or in closing their handle, are closed, and die with their process.     *)
(*                                                                         *)
(* Deadlines may pass at any moment.  What a job writes is left to the     *)
(* module that extends this one; here a job is its stage.  Nested writes,  *)
(* bulk scopes and forked children are left out.                           *)
(***************************************************************************)
EXTENDS Naturals, Sequences

CONSTANTS
  Request,        \* calls of run_ledger_write
  Proc, ProcOf,   \* processes, and the process of each request
  MaxOwners,      \* bound: owners a process has at a time, ended ones in use included
  None            \* no owner, no request; in a queue, the closing sentinel

ASSUME RequestAssumption == ProcOf \in [Request -> Proc] /\ None \notin Request
Owner == UNION {{<<p, n>> : n \in 1 .. MaxOwners[p]} : p \in Proc}

ASSUME OwnerAssumption == MaxOwners \in [Proc -> Nat] /\ None \notin Owner

VARIABLES
  call,       \* where each request is, and the owner it fetched
  registry,   \* _ledger_writer_registry, per process
  thread,     \* of each owner: see Thread
  retired,    \* its retired flag
  handle,     \* its connection is open
  jobs,       \* its queue
  job,        \* the job it runs, and how far it is
  lease,      \* the owner that holds the file lock
  closer      \* the owner close_ledger_writers is joining, per process

Stage == {"new", "fetched", "admitted", "cleared", "waiting", "answered", "failed"}

(* An owner whose thread could not be started stays registered; "failing"  *)
(* is a thread on its way out with an exception.                           *)
Thread == {"none", "unstarted", "starting", "serving", "failing", "ended", "failed"}
JobStage == {"begun", "committed", "aborted"}
NoJob == [by |-> None, stage |-> "aborted"]

owners == <<registry, thread, retired, handle, jobs, job, lease, closer>>
writerVars == <<call, owners>>

WriterInit ==
  /\ call = [r \in Request |-> [stage |-> "new", of |-> None]]
  /\ registry = [p \in Proc |-> None]
  /\ thread = [o \in Owner |-> "none"]
  /\ retired = [o \in Owner |-> FALSE]
  /\ handle = [o \in Owner |-> FALSE]
  /\ jobs = [o \in Owner |-> <<>>] /\ job = [o \in Owner |-> NoJob]
  /\ lease = None
  /\ closer = [p \in Proc |-> None]

-----------------------------------------------------------------------------
(* Requests (_run_admitted_ledger_write, admit_live_ledger_writer).        *)

At(r, stage) == call[r].stage = stage
Goto(r, stage) == call' = [call EXCEPT ![r].stage = stage]
Leave(r, stage) == call' = [call EXCEPT ![r] = [stage |-> stage, of |-> None]]
Fetch(r, o) == call' = [call EXCEPT ![r] = [stage |-> "fetched", of |-> o]]

FetchOwner(r) ==
  LET p == ProcOf[r] IN
  /\ At(r, "new") /\ registry[p] # None
  /\ Fetch(r, registry[p])
  /\ UNCHANGED owners

(* An owner nobody refers to any more is garbage; its name is used again.  *)
Unused(o) ==
  /\ thread[o] \in {"none", "ended", "failed"}
  /\ registry[o[1]] # o /\ closer[o[1]] # o /\ \A q \in Request : call[q].of # o

Spare(o) == Unused(o) /\ \A n \in 1 .. o[2] - 1 : ~Unused(<<o[1], n>>)

(* The owner is registered before its thread is started, and the start may *)
(* raise.                                                                  *)
CreateOwner(r, o) ==
  LET p == ProcOf[r] IN
  /\ At(r, "new") /\ registry[p] = None
  /\ o[1] = p /\ Spare(o)
  /\ registry' = [registry EXCEPT ![p] = o]
  /\ retired' = [retired EXCEPT ![o] = FALSE]
  /\ \/ thread' = [thread EXCEPT ![o] = "starting"] /\ Fetch(r, o)
     \/ thread' = [thread EXCEPT ![o] = "unstarted"] /\ Leave(r, "failed")
  /\ UNCHANGED <<handle, jobs, job, lease, closer>>

Holds(r, o) == call[r].of = o /\ call[r].stage \in {"admitted", "cleared", "waiting"}
Free(o) == (\A r \in Request : ~Holds(r, o)) /\ closer[o[1]] # o

(* Mutant: the retired flag is not looked at.                              *)
AdmitAnyway(r) ==
  /\ At(r, "fetched") /\ Free(call[r].of)
  /\ Goto(r, "admitted")
  /\ UNCHANGED owners

(* With the admission lock in hand; an owner that retired meanwhile is     *)
(* fetched anew.                                                           *)
Admit(r) ==
  /\ At(r, "fetched") /\ Free(call[r].of)
  /\ IF retired[call[r].of] THEN Leave(r, "new")
                            ELSE Goto(r, "admitted")
  /\ UNCHANGED owners

Alive(o) == thread[o] \in {"serving", "failing"}

(* ready is set, there is no failure, the thread is alive.                 *)
Clear(r) ==
  /\ At(r, "admitted") /\ Alive(call[r].of)
  /\ Goto(r, "cleared")
  /\ UNCHANGED owners

(* The job is queued; the queue of a thread that failed meanwhile is read  *)
(* by nobody.                                                              *)
Put(r) ==
  LET o == call[r].of IN
  /\ At(r, "cleared")
  /\ jobs' = IF Alive(o) THEN [jobs EXCEPT ![o] = Append(@, r)] ELSE jobs
  /\ Goto(r, "waiting")
  /\ UNCHANGED <<registry, thread, retired, handle, job, lease, closer>>

(* The owner failed to start, or its thread ended.                         *)
TurnedAway(r) ==
  /\ At(r, "admitted") /\ thread[call[r].of] \in {"ended", "failed"}
  /\ Leave(r, "failed")
  /\ UNCHANGED owners

(* The deadline passes.  The job, if queued, stays where it is.            *)
Expire(r) ==
  /\ call[r].stage \in {"fetched", "admitted", "cleared", "waiting"}
  /\ Leave(r, "failed")
  /\ UNCHANGED owners

-----------------------------------------------------------------------------
(* The owner's thread (_serve_ledger_write_jobs).                          *)

StartServing(o) ==
  /\ thread[o] = "starting" /\ lease = None
  /\ thread' = [thread EXCEPT ![o] = "serving"]
  /\ handle' = [handle EXCEPT ![o] = TRUE]
  /\ UNCHANGED <<call, registry, retired, jobs, job, lease, closer>>

Deregistered(o) ==
  [registry EXCEPT ![o[1]] = IF @ = o THEN None ELSE @]

(* The thread fails: at its start (the deadline of the request that        *)
(* created the owner is among the reasons, the thread runs in its context) *)
(* or in closing its connection, which it then closes once more.  Who has  *)
(* a job in the queue gets the exception.                                  *)
ThreadFails(o) ==
  /\ thread[o] \in {"starting", "failing"}
  /\ thread' = [thread EXCEPT ![o] = "failed"]
  /\ registry' = Deregistered(o)
  /\ jobs' = [jobs EXCEPT ![o] = <<>>]
  /\ handle' = [handle EXCEPT ![o] = FALSE]
  /\ call' = [r \in Request |-> IF At(r, "waiting") /\ call[r].of = o
                                  THEN [stage |-> "failed", of |-> None] ELSE call[r]]
  /\ UNCHANGED <<retired, job, lease, closer>>

Idle(o) == thread[o] = "serving" /\ job[o] = NoJob /\ jobs[o] = <<>>

(* Mutant: the idle branch leaves the connection to the collector.         *)
RetireHolding(o) ==
  /\ Idle(o) /\ Free(o)
  /\ retired' = [retired EXCEPT ![o] = TRUE]
  /\ registry' = Deregistered(o)
  /\ thread' = [thread EXCEPT ![o] = "ended"]
  /\ UNCHANGED <<call, handle, jobs, job, lease, closer>>

(* Admission is tried without waiting; the handle is closed before the     *)
(* owner leaves the registry.                                              *)
Retire(o) ==
  /\ Idle(o) /\ Free(o)
  /\ handle' = [handle EXCEPT ![o] = FALSE]
  /\ retired' = [retired EXCEPT ![o] = TRUE]
  /\ registry' = Deregistered(o)
  /\ thread' = [thread EXCEPT ![o] = "ended"]
  /\ UNCHANGED <<call, jobs, job, lease, closer>>

CloseRaises(o) ==
  /\ Idle(o) /\ Free(o)
  /\ thread' = [thread EXCEPT ![o] = "failing"]
  /\ UNCHANGED <<call, registry, retired, handle, jobs, job, lease, closer>>

HasNext(o) == thread[o] = "serving" /\ job[o] = NoJob /\ jobs[o] # <<>>
Popped(o) == jobs' = [jobs EXCEPT ![o] = Tail(@)]

TakeJob(o) ==
  /\ HasNext(o) /\ Head(jobs[o]) # None
  /\ At(Head(jobs[o]), "waiting") /\ lease = None
  /\ Popped(o)
  /\ job' = [job EXCEPT ![o] = [by |-> Head(jobs[o]), stage |-> "begun"]]
  /\ lease' = o
  /\ UNCHANGED <<call, registry, thread, retired, handle, closer>>

(* An abandoned request is refused before its callback runs.               *)
RefuseJob(o) ==
  /\ HasNext(o) /\ Head(jobs[o]) # None /\ ~At(Head(jobs[o]), "waiting")
  /\ Popped(o)
  /\ UNCHANGED <<call, registry, thread, retired, handle, job, lease, closer>>

Working(o, stage) == thread[o] = "serving" /\ job[o].by # None /\ job[o].stage = stage
Reach(o, stage) ==
  /\ job' = [job EXCEPT ![o].stage = stage]
  /\ UNCHANGED <<call, registry, thread, retired, handle, jobs, lease, closer>>

(* The callback has run; the request is live at the commit.                *)
Commit(o) == Working(o, "begun") /\ At(job[o].by, "waiting") /\ Reach(o, "committed")

(* The callback raises, the request was abandoned, or the commit fails.    *)
Abort(o) == Working(o, "begun") /\ Reach(o, "aborted")

(* The result is set; a request that is gone does not see it.  A committed *)
(* job can be reported as failed (the deadline is tested once more).       *)
Report(o) ==
  LET r == job[o].by IN
  /\ Working(o, "committed") \/ Working(o, "aborted")
  /\ IF ~At(r, "waiting") THEN UNCHANGED call
     ELSE \/ Leave(r, "failed")
          \/ job[o].stage = "committed" /\ Leave(r, "answered")
  /\ job' = [job EXCEPT ![o] = NoJob]
  /\ lease' = None
  /\ UNCHANGED <<registry, thread, retired, handle, jobs, closer>>

EndThread(o) ==
  /\ HasNext(o) /\ Head(jobs[o]) = None
  /\ Popped(o)
  /\ thread' = [thread EXCEPT ![o] = "ended"]
  /\ handle' = [handle EXCEPT ![o] = FALSE]
  /\ UNCHANGED <<call, registry, retired, job, lease, closer>>

-----------------------------------------------------------------------------
(* close_ledger_writers, and the end of a process.                         *)

(* The join of a thread that was never started raises; the sentinel in its *)
(* queue is read by nobody.                                                *)
CloseOwner(p) ==
  LET o == registry[p] IN
  /\ closer[p] = None /\ o # None /\ thread[o] # "unstarted"
  /\ Free(o) /\ ~retired[o]
  /\ jobs' = [jobs EXCEPT ![o] = Append(@, None)]
  /\ closer' = [closer EXCEPT ![p] = o]
  /\ UNCHANGED <<call, registry, thread, retired, handle, job, lease>>

(* The thread ended, or the join timed out; the owner is retired either    *)
(* way.                                                                    *)
Joined(p) ==
  LET o == closer[p] IN
  /\ o # None
  /\ retired' = [retired EXCEPT ![o] = TRUE]
  /\ registry' = Deregistered(o)
  /\ closer' = [closer EXCEPT ![p] = None]
  /\ UNCHANGED <<call, thread, handle, jobs, job, lease>>

Ours(o, p) == o # None /\ o[1] = p

Over == {"answered", "failed"}

Kill(p) ==
  /\ call' = [r \in Request |->
                IF ProcOf[r] = p /\ call[r].stage \notin Over \cup {"new"}
                  THEN [stage |-> "failed", of |-> None] ELSE call[r]]
  /\ registry' = [registry EXCEPT ![p] = None]
  /\ thread' = [o \in Owner |-> IF o[1] = p THEN "none" ELSE thread[o]]
  /\ handle' = [o \in Owner |-> IF o[1] = p THEN FALSE ELSE handle[o]]
  /\ jobs' = [o \in Owner |-> IF o[1] = p THEN <<>> ELSE jobs[o]]
  /\ job' = [o \in Owner |-> IF o[1] = p THEN NoJob ELSE job[o]]
  /\ lease' = IF Ours(lease, p) THEN None ELSE lease
  /\ closer' = [closer EXCEPT ![p] = None]
  /\ retired' = [o \in Owner |-> o[1] # p /\ retired[o]]

-----------------------------------------------------------------------------
Asking(r) ==
  \/ FetchOwner(r) \/ (\E o \in Owner : CreateOwner(r, o))
  \/ Admit(r) \/ Clear(r) \/ Put(r) \/ TurnedAway(r) \/ Expire(r)

Serving(o) ==
  \/ StartServing(o) \/ ThreadFails(o) \/ Retire(o) \/ CloseRaises(o)
  \/ TakeJob(o) \/ RefuseJob(o) \/ EndThread(o)

Closing(p) == CloseOwner(p) \/ Joined(p) \/ Kill(p)

WriterNext ==
  \/ \E r \in Request : Asking(r)
  \/ \E o \in Owner : Serving(o) \/ Commit(o) \/ Abort(o) \/ Report(o)
  \/ \E p \in Proc : Closing(p)

WriterSpec == WriterInit /\ [][WriterNext]_writerVars
=============================================================================
