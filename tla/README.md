# Verification of llm-spendguard

TLA+ models of the parts of `llm-spendguard` where processes, threads, crashes
and paid calls meet: the durable work queue and its batch offload, the storm
coalescer, the dispatch governor, the ledger's writer with the capture of
charges, and delegate jobs. TLC model-checks them on small instances, and TLAPS
checks proofs about them for every size. Paths below are relative to
`src/src/spendguard/`.

## The system

spendguard stands between a user's programs and paid LLM vendors. Work arrives as
calls, as queued tasks, as a storm of single requests, or as delegate jobs; it is
run on subscription lanes (CLIs) or metered APIs, realtime or through a vendor's
Batch API; every call is booked in a sqlite ledger that caps are checked against.
Many processes of the same user share the sqlite files, lock files and job
directories, so most of what can go wrong lies between processes.

| component | state | operations | what is hard | what makes it correct |
|---|---|---|---|---|
| durable lane queue `lane_queue.py` | a sqlite table of rows: state, lease, attempts, parks, fingerprint, deadline | enqueue, submit, lease, settle, reclaim, backfill and dedup, purge | workers die or outlive their lease; several processes; refunds of attempts | retry budget, no lost row, no content bought twice, a settled row stays settled |
| drain loop `lane_queue._drain_locked`, `queue_planner.py` | position in its round, throttles | lease, poll, decide, offload or run, settle | a crash between any two steps | rows in a batch are not run realtime |
| batch tracker `batch_tracker.py` | `batch_jobs` and `offload_pending` tables | submit_offload, register, poll, fail-over | three stores (queue, jobs, provider) and no transaction over them | exactly-once submission, no row stranded |
| batch client `callio.py`, `submit.py` | none | submit, list, status, collect | lost answers | a keyed batch can be found again |
| storm coalescer `storm_coalescer.py`, `storm_route.py`, `storm_submit.py` | an in-memory queue of futures, a planner thread, a realtime budget, three pools | submit, plan, route, reroute, refill, close, evict | threads, late workers, hung calls, close at any moment | each future is resolved once, and eventually |
| dispatch governor `dispatch.py` | semaphores, buckets per key, flock slots, learned limits | acquire, release, admit and shed, learn | the key changes under a call; processes die with slots | limits respected, no permit lost or forged |
| cross-process rate window `xp_rate_window.py` | reservations of the last minute in sqlite | reserve, prune | many processes | the sum in a window never exceeds the limit |
| ledger writer `ledger_writer.py`, `ledger_fork_locks.py` | one writer thread per path and process, its queue, the write lease of the file | admit, run, retire, close, fork reset | deadlines while queued, retirement, start-up failure | one writer at a time, nobody left behind |
| spend capture and dead letters `budget.py`, `ledger.py`, `ledger_deadletter.py`, `mcp_fd_lifecycle.py` | rows of `spend_events`, two retry spools on disk | capture, spool, drain | a write that committed and is reported as failed; a crash between commit and spool | each charge booked once, none lost |
| delegate jobs `delegate_jobs.py`, `delegate_worker.py`, `delegate_router.py`, `execution_journal.py`, `process_group_reaper.py` | a job directory (journal, record), a common ledger, a table of jobs, processes | start, adopt, run, observe, read, recover, cancel | launcher, worker, child, observer, readers and cancellers all may write the end; crashes between stores | one end, the same in every store, and only the dead are lost |
| budget caps `gate.py`, `money_scale.py`, the rest of `budget.py` | booked spend, estimates | check, book | best effort under concurrency | spend stays near the cap |
| lane balancer `lane_balance.py`, `lane_bandit.py`, `lane_recovery.py` | bandit arms | choose a lane, run a group | partial results | one answer per task |
| whole jobs `whole_job.py`, `item_ledger.py`, `work_integrity.py` | checkpoints, append-only ledger | run, resume, assert a partition | resumption after a crash | no unit dropped or doubled |
| vendor calls `vendor_call.py`, `adapters.py`, `runner.py` | none | call, retry | classification of failures | an outcome for every call |
| CLI daemons and brokers, worktrees | processes, pipes, directories | start, supervise, stop | operating-system behaviour | no orphan |
| resource and quota state | cached observations | refresh, expire | staleness | fail closed |
| ledger storage, reconcile, pricing, cache, fleet, CLI, reports | tables and files | SQL, arithmetic, presentation | migration, volume | accounting identities |

How they meet: callers enter through `submit`, `enqueue_many`, `submit_request`
or `start_delegate_job`. The drain leases rows, asks the planner, and either hands
them to `lane_balance.bulk_delegate` (which goes through the governor, the caps
and the vendor) or to `batch_tracker.submit_offload`; both paths end in
`lane_queue.settle`. A storm's realtime calls pass the governor and its overflow
goes to the Batch API. Every call books its charge through the ledger's writer,
and the queue's transactions run under the same cross-process write lease
(`_queue_op`). A delegate job runs a vendor's CLI as a child and reports through
its row. The components, modelled or not, with the reasons, are in `PROJECT.json`.

## The modules

| module | what it is |
|---|---|
| `WorkQueue` | the abstract specification of the queue: accepted once, ended once, done only when answered |
| `LaneQueue`, `MCLaneQueue`, `LaneQueue_proofs`, `LaneBudget_proofs` | the queue: one action per transaction, drains and inline callers, time; implements `WorkQueue` |
| `BatchTracker`, `MCBatchTracker`, `BatchTracker_proofs` | `EXTENDS LaneQueue`: the drain's round with offload, the job table and the provider |
| `StormPromise` | the abstract specification of the coalescer: accepted, resolved once, eventually |
| `StormCoalescer`, `MCStormCoalescer`, `StormCoalescer_proofs` | the coalescer with its threads and pools; implements `StormPromise` |
| `Governor`, `MCGovernor`, `Governor_proofs` | the governor of several processes, with the shared rate window |
| `LedgerWriter`, `LedgerWriter_proofs` | owners, admission, jobs and the write lease of one ledger file |
| `SpendCapture`, `MCSpendCapture`, `SpendCapture_proofs` | `EXTENDS LedgerWriter`: charges, spools and their drain |
| `DelegateJournal`, `MCDelegateJournal`, `DelegateJournal_proofs` | one delegate job, its stores and everyone who may end it |

An `MC` module only gives names to values of the constants. Definitions marked
"Mutant" in a module are not used by it: each is a plausible bug in one definition,
and `PROJECT.json` names the property that notices when it takes that definition's
place.

### LaneQueue

`row[i]` is a row of the table. An `intent/task/system/reasoning` quadruple is one
element of `Task`; its fingerprint is that same element (the code's SHA-256 is
length-framed, so it is injective but for collisions) and `NoTask` stands for SQL
NULL. `prio` stands for the pair (priority, realtime before batch). Ids are handed
out in order and never reused (AUTOINCREMENT).

Time appears as what the code can see of it: `due` (the lease or the park has run
out), `sla` (no deadline, ahead, past). Both turn at any moment. Rows leased
together share one `lease_until`, hence `lot`. `created_ts`, retention and
staleness are not recorded: purge may find any row old enough. That admits more
behaviours than the code (a row can be stale at once), never fewer.

| action | code |
|---|---|
| `Enqueue` | `enqueue`, `enqueue_many` (one task of the call), `submit(wait=False)`; `Coalesce` is the dedup hit, `Insert` the new row |
| `SubmitInline` | `_enqueue_leased` for `submit(wait=True)` and `record_open` |
| `Lease` | `lease`: `Swept` = deadline sweep, then reclaim; `Candidates` and `Before` = the scheduler's `ORDER BY`; `OneOfEach` = one row per fingerprint |
| `Execute` | one `bulk_delegate` call over a group of leased rows, any answer class per row |
| `Settle`, `SettleLost` | `settle`, and its swallowed database error; `SettledAs` = the ladder of outcomes, `SettleRow` = the F2 guard and the coalescing of twins |
| `Reclaim` | `reclaim_expired_leases` from `manage_queue_tick` |
| `Backfill`, `DedupPending` | the two transactions of `dedup_pending_against_done` |
| `Retire`, `Delete` | one chunk of each pass of `purge` |
| `Crash` | a worker process dies |
| `TimerElapses`, `DeadlinePasses` | time |

`hand[w]` is what a worker believes it holds, which the table does not know: a
worker whose lease expired still holds its rows, runs them and settles them. This
is where the interleavings come from. `ran`, `served`, `billed`, `asked` and
`unique` are history variables that properties read and no guard does.

`settle` sorts a result into six classes: `ok`, `transient`, `fatal`, `saturated`
(never ran), `batched`, `unhandled` (batched, without a handle). A park that would
end after a deadline that is still ahead may park or fail: which one depends on
the distance, and both are allowed.

`Promise == INSTANCE WorkQueue` is the refinement: a row is open while it is
pending, leased or batched, `answered` is `served`, and `sole` are the rows that
deduplicating callers inserted. `WorkQueue` knows no leases, workers, attempts,
fingerprints or batches. It says that a content is accepted for good, is accepted
for deduplicating callers only while no such row of it is open, done or retired,
ends once, and ends done only when it was answered. `BatchTracker` EXTENDS
`LaneQueue` and so is held to the same promise by the same mapping.

### BatchTracker

`round[d]` is where a drain stands in
`lease -> poll -> (realtime | reconcile -> submit -> mark* -> register)`, and
within poll `collect -> settle* -> jobs -> (fail over: requeue*)`. Everything that
commits on its own is an action, so a crash (`DrainCrash`) can fall between any
two. Failures the code tolerates are alternatives inside the actions: a failed
list or submit, a submit whose answer is lost, a mark or requeue loop cut short, a
register or status write that is lost, a settle that fails.

The provider is external: a batch runs and ends with an answer or an error per
row, or dies with the answers it had. A keyed batch is found by its key; the key
is the hash of the row ids, so it is represented by the set. The model covers the
OpenAI path, where the key is in the batch's metadata. The planner's arithmetic is
a free choice of realtime or offload; `PlannerSteady` removes the free choice of
realtime where a run is about offload failures only.

### StormPromise and StormCoalescer

`future[r]` is the future of a request: `new` until submitted, `waiting`, then how
it was answered (by realtime, by batch, as exhausted after the refills, by an
exception of the batch submit, or by an error a shut pool makes up). A cohort is a
set: the planner takes the whole queue and nothing looks at the order. A route
task is a record of what it has not sent, not awaited and must reroute; a batch
task holds how often each request stands in its list, since a request can be
rerouted twice. Deadlines and the budget's horizon may pass at any moment.

| action | code |
|---|---|
| `Submit` | `submit_request`, which starts the planner if it is not alive |
| `Drain`, `HandOver`, `HandRefused`, `Enlist`, `PlannerExits` | `_drain_cohort` and `_plan_loop`: cut a cohort, give it to the route pool, put its future on `_inflight` (or answer for it and die) |
| `Claim`, `HorizonPasses` | `_claim_realtime` under its lock, and the reservations that leave the rolling horizon |
| `BudgetInvalid`, `Send`, `SendRefused`, `Await`, `GiveUp` | `_run_realtime_paced`: no valid callback budget, submit to the pool, be refused by it, await each call, give it up at its deadline |
| `Divert`, `DivertRefused` | the end of `_route_cohort`: overflow and reroutes go to the batch pool |
| `Begin`, `CallReturns`, `WorkerEnds` | `_serve_one_realtime`; nothing makes a call return |
| `RunJob`, `Refill`, `BatchEnds` | `_run_batch_overflow` and its recursion; nothing makes a batch call return either |
| `ChooseToEvict` | `storm_route._evict_idle`, which looks under the registry's lock and closes after it |
| `Close`, `JoinReturns`, `Drained`, `DrainTimesOut`, `ShutPool`, `CloseReturns` | `close(wait=True)`, `close(wait=False)` and the eviction |

`Promise == INSTANCE StormPromise WITH open <- ~Stopped, held <- InBatchCall` is the
refinement; the futures are the same variable. The promise is an answer at most
once, and one in the end, whichever realtime calls hang: only a batch call that
never returns may keep the requests in its hands waiting (`held`). The code bounds
no batch call, it runs contracted requests in the batch executor with the same
realtime call (`storm_submit.py:98-104`), and what it bounds instead is the
caller's own wait.

### Governor

`call[t]` says how far `acquire` of thread `t` is, and which key and bucket object
it read on the way. The code resolves the key anew at each step
(`adapters._lane_for`), and so does `KeyNow`: a call that rides a lane has the
lane's key while the lane serves, the vendor's while it cools.

| action | code |
|---|---|
| `Ask` | the entry of `acquire` and `admit` |
| `TakeGlobal`, `ChooseBucket`, `TakePermit` | the global semaphore, `_bucket` (a new object when the vendor's rpm or tpm was learned), the bucket's semaphore |
| `ReserveRate`, `WindowMoves` | `xp_rate_window.reserve`, one transaction |
| `TakeSlot` | `_acquire_xp`, one of the key's lock files |
| `JoinWindow` | `_conn_admit` |
| `Release`, `ReturnPermits` | `release`: slot and connection, by the key as it is then; bucket and global permit, by the key read once more |
| `GiveUp` | the `except` branch of `acquire`, and the shed of `admit` to the metered key |
| `Crash` | a process dies: memory is gone, its flocks are free |
| `Shrink`, `Grow`, `LearnTariff` | `shrink_connection_window`, `grow_connection_window`, `learn_rate_limit` |
| `LaneCools`, `LaneRecovers` | the lane's cooldown, seen through `_lane_for` |

### LedgerWriter and SpendCapture

An owner is a thread with the process's only write connection and a queue of jobs;
its name is the process and a number, used again when nobody refers to the owner
any more. A process can have two at a time: one off the registry that still works
off its queue, and its successor.

| action of `LedgerWriter` | code |
|---|---|
| `FetchOwner`, `CreateOwner` | the registry lookup of `admit_live_ledger_writer`; a thread start that raises leaves an unstarted owner registered, whose later requests fail by their deadlines |
| `Admit`, `Clear`, `Put`, `TurnedAway`, `Expire` | the admission lock, the tests for a failure and a live thread, `queue.put`, the two refusals, the deadline; a job put to a thread that failed after the tests waits out its deadline |
| `StartServing`, `ThreadFails` | `_serve_ledger_write_jobs` up to `ready`; its failure path, of the start and of a failed close |
| `TakeJob`, `RefuseJob`, `Commit`, `Abort`, `Report` | one job under the file's write lease, with the liveness tests before it and at its commit |
| `Retire`, `CloseRaises`, `EndThread` | the idle branch, its close that raises, and the sentinel |
| `CloseOwner`, `Joined` | `close_ledger_writers`, whose join may time out |
| `Kill` | a process dies |

| action of `SpendCapture` | code |
|---|---|
| `CommitJob` | the same commit, with `record_event` for a charge or the replayed lines |
| `Capture` | `_record_spend_event` after a failed write: home spool, then emergency spool; an append may fail after its line reached the file |
| `Rehearse`, `ReplaceSpool`, `ReportJob` | `stage_and_commit_spend_deadletters`: replay, commit, replace each spool by what remains |
| `DrainAgain` | the periodic drain of `mcp_fd_lifecycle` |
| `Die` | a process dies, with the charge it was about to write or spool |

### DelegateJournal

One job. The record (`state.json`), the journal of the execution and the common
ledger are written in that module's order (journal, ledger, record) under one
lock; a write is one step cut after any file, `Written(r, cut)`. The row of
`delegate_jobs` is updated later and without that lock. A process is a pid and its
birth, so a dead one is dead for good. `at[a]` is where actor `a` is in its
function, `back[a]` where it goes on after a shared one, `seen[a]` the record as it
read it and `want[a]` the row it is about to write.

| action | code |
|---|---|
| `InsertRow`, `Spawn`, `Adopt`, `StartFailed` | `start_delegate_job`, `_launch_detached_delegate_worker`, `adopt_durable_execution_owner` |
| `Look`, `Judge` | `recover_delegate_job_execution`: read the record under the lock, then judge the processes and write a loss or a repair, provided the record still names them (`SameIdentity`) |
| `Decide`, `UpdateRow` | `read_delegate_job`'s projection and `finish_delegate_job` |
| `RunWarm`, `RunChild`, `BindChild`, `CaptureExit`, `Close`, `Rescue` | `_invoke_recoverable_delegate` and `run_durable_delegate_subprocess` |
| `Assess`, `FinishExecuted`, `Mend` | `_run_delegate_job_to_completion`: judge the result, finish the job, or its error handler |
| `Watch`, `WeighRunning`, `WeighEnded` | `_observe_durable_execution`, which makes its loss from the record it read without the lock |
| `Cancel`, `Check`, `Claim`, `Reap`, `Confirm`, `Tell` | `cancel_delegate_job` and `reap_process_group_bounded` |
| `Die`, `BreakOff` | a process dies, a call of a `Flaky` actor raises |

## Runs

| run | what is explored | what holds, or not |
|---|---|---|
| `queue_drains` | two drains that both lease (as without `flock`), two rows, deadlines, all outcomes but `unhandled` | types, `RetryBudget`, `ExecutionBudget`, `SettledStays` |
| `queue_inline` | a drain leasing two rows and an inline caller, two contents, two priorities | `ExecutionBudget`, `OneRowPerContent`, `DoneWasServed`, `NoTwinLeftWaiting`, the refinement `KeepsItsWord` |
| `queue_live` | a fair drain, two intents | `EveryRowSettles` |
| `offload_pair` | two rows of two contents, leased together or apart and again after any failure between the stores, two batches | types, `KeyBoughtOnce`, `SettledStays`, the refinement `KeepsItsWord` |
| `offload_failover` | a batch of two rows that dies, a fail-over cut short after any row and resumed, a third row that brings the drain to the poll | `FailOverLeavesNone` |
| `offload_stranded` | everything offloaded, a fair drain | `BatchedRowSettles` fails |
| `storm` | two requests, a realtime budget of one, hung calls, realtime and batch, a drain or an eviction at any moment, one refill | types, `NoOneStranded`, `DrainedCloseAnswersAll`, `OnlyRealtimeHoldsClose`, and the refinement `KeepsPromise` with its liveness |
| `governor` | two threads of one process on a lane and one of another process on the metered key, a cooldown, a learned tariff, time-outs, sheds, crashes | types, `SharedCapHeld`, `SlotsExact`, `GlobalExact`, `PermitsReturn`, `LearnedCapStays` |
| `governor_leak` | one thread, one cooldown | `QuietMeansFree` fails |
| `capture` | one charge and two drains over two owners of a process, which may fail to start or to close, two tries | types, `NothingLost`, `NeverLeftBehind`, `HandlesEnd`, `EvidenceKept` |
| `delegate_ends` | a detached job and a canceller; launcher and executor may break off anywhere, every process may die | types, `LedgerFollows`, `RowFollows`, `EndStands`, `RowStands`, `LossIsOfTheDead` |
| `delegate_settles` | a detached job and a polling reader under fairness, deaths and cut writes | `RowSettles`, `EveryEndIsLogged` |

The two failing runs are findings; `PROJECT.json` quotes the comment or docstring
that each counterexample contradicts.

1. *Poll behind the lease* (`lane_queue.py:1689`). `batch_tracker.poll` is reached
   only after a lease that returned rows. A queue whose work is all in batches
   never polls.
2. *A permit of the lane is lost* (`dispatch.py:960`). A call admitted on the lane
   and released during its cooldown returns its permit to the vendor's bucket,
   where the bounded semaphore swallows it. `PermitsReturn` states what remains
   true: while the lane has never cooled every permit comes back.

### Bounds, and why they are enough

*Queue and tracker.* Two rows are the least that has twins, competition and a
batch that is marked or requeued partly; the code treats rows alike and no
operation relates more than a pair of them (a lease takes a set, but each row
changes on its own). Two attempts give a first, a retried and an exhausted lease;
one park gives a park and a park refused. Two drains give a holder and a thief,
and a third adds no relation between rows. Two contents let a dedup pick the wrong
one; they also put two rows into one lease, since a lease takes one row per
fingerprint. `offload_pair` has two batches, so that one key may be bought by either,
or one batch be dead or ended while the other lives. Its constraint `PairTwice` lets
row 2 be leased once, alone or beside row 1, and once more only beside row 1, and row
1 as often as it may be: that gives a pair that is submitted, marked or registered in
part and comes back as a pair or as a lone row, and keys that overlap. To poll, a
drain needs a lease that returned rows; so `offload_failover` has a third row, which
`ThirdPolls` lets in once a job is open. Its lease finds the batch of the other two
dead and the requeue stops after none, one or both of them; a row given back is leased
again, and the poll of that round resumes the rest.
Ids are exhausted after two inserts (three), so every run is finite.
The sweeps (`Reclaim`, `Backfill`) are always enabled, as in the code, so a queue
never deadlocks; waiting forever is what the liveness runs look for.

*Storm.* Two requests give overlapping cohorts, a budget that one of them
exhausts, a worker pool that one hung call fills, and a request that is rerouted
while the other is served. One refill gives a retried and an exhausted batch. A
third request adds length to the lists, not another owner of a request. The run
closes by `drain` or `evict`; `leave` (`close(wait=False)` of an open coalescer) is
what an eviction becomes one step later, and the proofs cover all three.

*Governor.* Two threads in one process compete for one lane permit, and the third,
in another process, for the flock slots and the rate window. One cooldown and one
new tariff suffice for every mismatch between the key of an admission and that of
its release, since both are read at most once per step; `MaxTariff` and `MaxSpells`
bound them.

*Capture.* One charge is enough because charges share only the spools, whose lines
are replayed and kept one by one; two drains so that one can overtake the other; two
owner names of one process so that a closed owner can still run beside its
successor. `RetryLimit` two gives a fresh, a retried and an exhausted line. With one
charge nothing is spooled while a drain replays, so the run does not need the
spools' locks; that no drain writes back a stale spool is the theorem
`DrainsAreCurrent`, for any charges. The proofs cover several processes.

*Delegate.* One canceller and one reader, as each acts on its own and holds nothing
between its calls; the two are in two runs because together they exceed what TLC
explores in the time. `Flaky` names who may break off: the executor and the
launcher, whose writes others must repair.

The proofs remove these bounds for the properties they cover. Symmetry is used
where constants are interchangeable (drains, batches, contents, the two lane
threads), never in a run with a liveness property.
Three cfgs turn the deadlock check off, because the system stops: a storm whose
coalescer is closed, and a job that is over.

### Fairness

`Fairness` (queue): each drain keeps leasing, running and settling (weakly fair:
`drain(forever=True)` loops and launchd restarts it; `bulk_delegate` has a
deadline), and timers run out. Callers, purge and reclaim get none, and crashes
are free, infinitely often.

`TrackerFairness`: a drain's round moves on; what poll could do again and again it
does once (strong fairness: a crash or a database error may intervene, but not
each time); the provider finishes each batch (the 24 h window of the Batch API).
No fairness on new work, which is what `offload_stranded` is about: the drain's
lease step stays fair and finds nothing. Its counterexample has no crash and no
failed write after the register.

`StormCoalescer`: the planner, route tasks, realtime workers and the closer's thread
run, and a batch task moves on between its calls. Nothing makes a caller submit, a
realtime or a batch call return, a horizon pass or anyone close; a route task gets
past a hung call by its deadline, and a close gives a hung batch call up at its own.

`DelegateJournal`: the launcher, the executor and the observer run while they live,
a reader keeps polling (`wait_for_delegate_job`), the child ends (it has a time
limit), and a worker whose executor has returned exits. Deaths are free.

`Governor` and `SpendCapture` have none: what they promise of progress depends on
deadlines and on callers that come again, and is not stated.

## Known deviations

What the code's comments, docstrings or tests say and the code does not do, beyond
the two findings above. Each name in the table is stated in its module and
refuted by TLC on an instance of the size above; none is a run, since the project
keeps its runs for the questions it can answer with yes and for the two findings
above.

| property | where | what happens |
|---|---|---|
| `LaneQueue.AcceptedIsProcessable` | `lane_queue.py:435` | the dedup lookup excludes `failed` only; `submit` answers `will_process: True` with the id of a retired row, which has no task any more and which no lease takes |
| `LaneQueue.BilledNotLeasedAgain` | `lane_queue.py:665` | a batched result without a handle parks its row as ordinary work; the next lease runs it realtime though it may be billed |
| `BatchTracker.BatchedNotRunRealtime` | `batch_tracker.py:459` | the answer to a submit is lost, `submit_offload` returns an error, and the drain runs the rows realtime while the provider holds the batch |
| `BatchTracker.AttemptsBounded` | `lane_queue.py:963` | `requeue_from_batch` and `lease` do not look at `max_attempts`; only `settle` and `reclaim` do |
| `BatchTracker.NeverBoughtTwice`, with two rows per lease and two batches | `batch_tracker.py:414` | the offload key is a hash of a set of rows; after a crash between submit and mark the rows come back in another set, whose key differs, and the batch is bought again (the comment at `lane_queue.py:1744-1746` promises otherwise). The promise is kept for each key (`KeyBoughtOnce`), and for each row when a lease has one row (theorem `BoughtOnce`) |
| `StormCoalescer.ServedNotRebought` | `storm_coalescer.py:332` | the route task gives a request up at its deadline while the worker has just served it, and reroutes it to the batch |
| `StormCoalescer.EvictionHurtsNobody` | `storm_route.py:83` | a caller that got the coalescer before the eviction submits between the look and `close(wait=False)`, and its request is answered with the shutdown's error, although the comment says an eviction never abandons a cohort |
| `DelegateJournal.NoStaleLoss` | `execution_journal.py:546` | the observer passes no expected identity, so the loss it makes of a dead launcher can end a job whose worker has adopted it meanwhile (`tests/test_delegate_detached_lifetime.py:201`) |
| `DelegateJournal.RejectedIsNotDone` | `delegate_router.py:139` | the provider's success is journalled before the result is judged; a result judged unusable is then finished as failed, the journal's success wins, and the row says done |
| `DelegateJournal.AcceptedIsKept` | `delegate_jobs.py:172` | a reader that saw a stale loss finishes the job as lost, finds success as the winner and writes the row without payload; the executor's finish then finds a row that has ended. The error handler after a journalled success does the same (`delegate_jobs.py:154`: "Persist a terminal job result in full") |
| `DelegateJournal.CaptureWins` | `execution_journal.py:410` | a repair restores the journal's loss with its empty exit code over a record that has a captured one, so the completion no longer supersedes the loss (`tests/test_terminal_projection_authority.py:34`) |
| `DelegateJournal.KilledIsGone` | `delegate_jobs.py:335` | a cancel claims the end before it kills; if the kill stays unconfirmed, the next call finds the claim and answers killed while the group lives (`tests/test_delegate_governed_controls.py:104`) |

Met while modelling, without a property of their own:

- `close(wait=True)` of the coalescer returns only when the realtime pool is
  joined, so a call that never returns holds it past its deadline
  (`OnlyRealtimeHoldsClose` says that nothing else does). `_inflight` keeps a
  future that was done before it was appended.
- An owner's thread runs in the context of the request that created it, so that
  request's deadline can fail the start for others. A write that committed may be
  reported as failed; `record_event` inserts by the id of the event, so the replay
  books nothing twice. After a join
  that timed out two connections may be open for a while (`HandlesEnd`). The
  `put` of the closing sentinel may block on a full queue.
- A hosted executor whose row write fails leaves the row running until its host
  exits, so `RowSettles` is for detached jobs. A loss that was superseded in the
  journal by a write cut before the ledger may stay in ledger and row. A job that
  timed out (a negative exit) is reported killed and its reason is dropped. A
  launcher that fails in `adopt` finishes the job as failed while its worker runs.

## Proofs

The theorems hold for any sets of ids, contents, processes, threads, requests,
charges, readers and cancellers and any limits that satisfy the assumptions named
in each module (finite sets where a cardinality is taken; limits that are positive;
NULL not a value). Each proof is an inductive invariant, one lemma per action or
group of actions, and PTL.

| module | theorem | statement |
|---|---|---|
| `LaneQueue_proofs` | `Invariance` | `Spec => []IInv` |
| | `TypeCorrect`, `BudgetKept`, `NeverQueuedTwice`, `SettledForGood` | `TypeOK`, `RetryBudget`, `OneRowPerContent`, `SettledStays` |
| | `DoneIsServed`, `TwinsSettleTogether` | `DoneWasServed`, `NoTwinLeftWaiting` |
| | `KeepsThePromise` | `KeepsItsWord`: the queue implements `WorkQueue` |
| `LaneBudget_proofs` | `ExecutionsBounded` | `ExecutionBudget`, for finitely many workers and no batched result without a handle (`Sober`) |
| `BatchTracker_proofs` | `TrackerInvariance` | `TrackerSpec => []TrackerInv` |
| | `TrackerTypeCorrect`, `SettledStaysOffloaded`, `FailOverComplete` | `TrackerTypeOK`, `SettledStays` on the offload path, `FailOverLeavesNone` |
| | `OffloadKeepsThePromise` | `KeepsItsWord`: the queue with batch offload implements `WorkQueue` |
| | `DoneIsServedOffloaded`, `NeverQueuedTwiceOffloaded`, `TwinsSettleOffloaded` | `DoneWasServed`, `OneRowPerContent`, `NoTwinLeftWaiting` on the offload path |
| | `KeyIsBoughtOnce` | `KeyBoughtOnce`, for one drain (`OneDrain`) and leases of any size |
| | `BoughtOnce` | `NeverBoughtTwice`, for one drain and one row per lease (`OneRow`) |
| `StormCoalescer_proofs` | `StormTypeCorrect`, `NobodyIsLost`, `CloseWaitsForRealtime`, `CloseAnswersAll` | `TypeOK`, `NoOneStranded`, `OnlyRealtimeHoldsClose`, `DrainedCloseAnswersAll` |
| | `PromiseIsSafe` | every step of the coalescer is a step of `StormPromise` or a stutter |
| `Governor_proofs` | `TypeCorrect`, `SharedCap`, `SlotsUnwound`, `GlobalPermits`, `PermitsComeBack`, `CapStays` | `TypeOK`, `SharedCapHeld`, `SlotsExact`, `GlobalExact`, `PermitsReturn`, `LearnedCapStays` |
| `LedgerWriter_proofs` | `WriterInvariance` | `WriterSpec => []WriterInv` |
| `SpendCapture_proofs` | `CaptureTypeCorrect`, `ChargesKept`, `SpoolsAreEvidence`, `NobodyLeftBehind`, `HandlesAreClosed` | `CaptureTypeOK`, `NothingLost`, `EvidenceKept`, `NeverLeftBehind`, `HandlesEnd` |
| | `DrainsAreCurrent` | `HoldsCurrent`: a drain writes back lines its spools still have, whatever is captured meanwhile |
| `DelegateJournal_proofs` | `Invariance` | `Spec => []IInv` |
| | `TypeCorrect`, `LedgerAgrees`, `RowAgrees`, `RowIsFinal`, `FirstEndStands`, `OthersLoseOnlyTheDead` | `TypeOK`, `LedgerFollows`, `RowFollows`, `RowStands`, `EndStands`, `LossIsOfTheDead` |

*Queue.* `IInv` is `PromiseInv` and `InBudget`; `PromiseInv` is `TypeOK`, `Known`,
`Addressed`, `OneRowPerContent`, `Matching`, `HandServed` and `DoneWasServed`.
`RetryBudget` is not inductive: a row can be settled as pending from `queued_batch`
(a late worker's park), so `InBudget` also bounds attempts there. `OneRowPerContent`
is not: that the lookup finds the older row needs its fingerprint to be its content
(`Addressed`). `Known` says that what is in the table or in hand has a content, which
the history variables need for their types. The argument goes row by row.
`Evolves(r, s)` is all that any operation may do to a row in the table: keep its
content and, if deduplicated, its fingerprint; leave settled rows settled; keep the
budget. One lemma per row operator shows that it evolves a row, one per action lifts
that to the table, and `RowEvolution` collects them. `DoneWasServed` is not inductive
either: a result settles the twins of its row too, so a fingerprint must name one
content (`Matching`), and the answer in a hand must be one that was given
(`HandServed`). `SettleDone` says who can get done in one settle, `QuietSteps` that
all steps but a settle and the sweep make nothing done.

*Promise.* `ShiftAdvances` maps a step that inserts no row: each row stays as callers
see it, ends or is forgotten, since `Moves` allows nothing else; done ones are
answered by `DoneWasServed` after the step; answers only grow, by contents somebody
asked for (`Grows`). `InsertAccepts` maps an insertion: `OneRowPerContent` after the
step is the guard of `WorkQueue.Accept`. Both lemmas need `PromiseInv` and no budget,
so they serve the queue and the tracker.

*Executions.* `attempts` does not count executions: a park refunds one, and a
worker that lost its lease may still execute. `Spent` says that the executions so
far, plus the workers that have yet to execute or to refund, never exceed the
attempts of the row. A lease adds one worker and one attempt, an execution turns a
worker into an execution, a refund takes one of each, and a reclaim or a crash can
only lose workers. Without `Sober` it is false: `unhandled` executes and refunds.

*Tracker.* A row that a batch returns goes back without a look at its attempts, so
`Evolves` is too strong and `Moves` is what remains without the budget. `TrackerInv`
is `PromiseInv`, the types of the stores and `RoundKnown`, that the rows of a round
have a content. `StepSettles` shows that a row gets done by a settle whose content
is answered by then, of a worker or of a batch, or by the sweep. `KeyBoughtOnce` is
not inductive: `KeyInv` adds that a round about to submit stands where no paid batch
has its rows. The look of `submit_offload` establishes it; the provider only takes
batches out of `Paid` or keeps them there; and no one else submits between the look
and the submit, which is what the drain's `flock` is for (`OneDrain`,
`lane_queue.py:1581`). Where the lock fails the code drains unguarded, and two
drains can both look and both buy. A lease may cut other sets of rows, so a row can
be in two paid batches (Known deviations). With one row per lease the key is the
row: `SinglesInv` says that every hand, every round that can still submit and every
batch has at most one row, and `BoughtOnce` follows.

*Storm.* `StormInv` adds to the properties: cohorts under way are disjoint (a
request has one route task); what a route task has not sent has no worker yet
(untouched until sent); a request whose worker is over and whose future still
waits stands on the reroute list of the task that awaits it; and `CloseInv`, that
a closer past its join has no planner beside it, and past its drain no task. These
are what `NoOneStranded` needs at `Await`, `Divert` and the three ways a pool
refuses.

*Governor.* `GovernorInv` counts: a slot is held exactly by the threads past
`_acquire_xp` and by at most as many as there are lock files; global permits plus
their holders are constant; and per bucket object, while the lane has never cooled,
free permits plus holders are the limit, also for the object a holder kept when
the bucket was replaced.

*Writer and capture.* `WriterInv` ties each request to its owner: an owner whose
admission is held is not retired or closed, a waiting job is in the queue of a
thread that serves, ahead of any sentinel, or was put to one that failed, and an
owner off the registry has a sentinel ahead or no connection. `CaptureInv` adds
`HoldsCurrent`: while a drain holds a spool's lock, the spool is what it read and no
other drain holds it. Without it the write-back could drop a charge spooled in
between, and `NothingLost` would not be inductive.

*Delegate.* `IInv` is `TypeOK /\ Stores /\ Hand /\ RowHeld`. `Stores` orders the
files: a record or a ledger that has ended has an ended journal behind it, and a
loss in the journal carries no captured evidence. `Hand` says that what an actor
is about to write to the row, or works toward, is what the journal says or a loss
that evidence replaced, which is what keeps the row true although it is written
without the lock. The conclusion for `EndStands` comes from the same case analysis
of `Written`.

Only model-checked is what is out of the prover's reach: liveness under fairness
(`EveryRowSettles`, `RowSettles`, `EveryEndIsLogged`, `BatchedRowSettles`, the
liveness half of `KeepsPromise`). No property of the runs needs induction over data.
Every safety property of a passing run has a theorem.

## Not modelled

- *Queue*: `hold_free_recovery` (a caller waits on its own row), migrations, vacuum,
  the drain's overload hold, which moves no row, and the archive file. A chunk of
  `purge` is archived and written in one transaction of the table (`lane_queue.py:1401`),
  so `Retire` and `Delete` are one action each; a cut between the two leaves the table
  as it was and a second copy in the file, which no property looks at.
- *Tracker*: the Anthropic path (local pending record, provider scan, hold window),
  sharding of one offload into several, `limit`s of one poll, failed reads (they
  end the round early, which a crash does too).
- *Storm*: the pacer's delays, the demultiplexing of batch answers by id, the
  registry of several coalescers, the executors of `storm_submit.py`.
- *Governor*: the batch sub-limit of a bucket, the 30 s for which a process may
  read learned limits late, the Retry-After cooldown before admission, the FIFO of
  one CLI, the pool of `try_admit`, a stale read of the cap by `grow`, and waiters
  on a bucket object that was replaced.
- *Writer*: the reset of a forked child, nested writes, bulk and exclusive scopes,
  progress of a drain. *Capture*: lines that are not JSON, events older than the
  dedup key, period locks.
- *Delegate*: worktrees and session leases, pruning and reclaiming, the staleness a
  status report adds, routing and classification, payload files.
- *Whole components*: the budget's caps (best effort under concurrency, as the code
  says, so no property of several steps is promised), the lane balancer (statistics),
  vendor calls and adapters (I/O inside one call; the queue sees the outcome
  class), CLI daemons and worktrees, resource caches, SQL maintenance, the semantic
  cache, reconciliation, pricing, fleet and hosted service, command line and
  reports. They are most of the repository's lines and hold arithmetic, text and I/O
  rather than protocols; `PROJECT.json` says why, part by part.

## What is left

1. The Anthropic path of the tracker and the executor of `storm_submit.py`; rows of
   a batch whose register was lost; a poll that an assertion aborts.
2. The liveness half of `WorkQueue`: every accepted row ends. It holds for the queue
   alone (`EveryRowSettles`) and fails with batch offload (`offload_stranded`).
3. A key of the offload that does not depend on how a lease cuts the rows, for which
   `NeverBoughtTwice` would hold, and could be proved, without `OneRow`.
4. The fork reset of the ledger's writer and its nested scopes.
5. Checkpointed resumption of whole jobs, and the protocol of the warm daemon.
