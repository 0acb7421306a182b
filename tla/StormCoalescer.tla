--------------------------- MODULE StormCoalescer ---------------------------
(***************************************************************************)
(* The storm coalescer (src/src/spendguard/storm_coalescer.py).  Requests  *)
(* of concurrent callers gather in a queue; a planner thread cuts the      *)
(* queue into cohorts; a route task per cohort sends what the realtime     *)
(* budget of the horizon grants to a pool of realtime workers and the rest *)
(* to the Batch API; whatever realtime refuses, fails or is late with is   *)
(* rerouted to the batch as well.  A closer shuts the three pools down.    *)
(*                                                                         *)
(* Threads interleave at the locks they take.  A realtime or a batch call  *)
(* may never return.  Time is left out: a deadline or the horizon may pass at any    *)
(* moment.  The planner takes the whole queue, and nothing else looks at   *)
(* the order of the requests, so a cohort is a set: which members go       *)
(* realtime is left to choice, up to the names of the requests.            *)
(***************************************************************************)
EXTENDS Naturals, FiniteSets

CONSTANTS
  Req,           \* requests callers may submit
  Budget,        \* realtime_budget: calls per horizon
  Concurrency,   \* realtime_concurrency: threads of the realtime pool
  RefillDepth,   \* batch_refill_depth
  Closers        \* how it may be closed: subset of {"drain", "leave", "evict"}

Pool == {"route", "batch", "rt"}
Answer == {"realtime", "batch", "exhausted", "raised", "shut"}
CloseMode == {"drain", "leave", "evict"}   \* close(True), close(False), _evict_idle

ASSUME BudgetAssumption == Budget \in Nat \ {0} /\ RefillDepth \in Nat
ASSUME ConcurrencyAssumption == Concurrency \in Nat \ {0}
ASSUME CloserAssumption == Closers \subseteq CloseMode
ASSUME ReqAssumption == IsFiniteSet(Req)

VARIABLES
  future,    \* "new" until submitted, "waiting", then how it was resolved
  queue,     \* _queue
  planner,   \* "none" (no live thread), "gathering", "drained", "handed"
  hand,      \* the cohort the planner holds between drain and _inflight
  routes,    \* route tasks not finished yet
  reserved,  \* reservations in the rolling horizon (_rt_reserved)
  worker,    \* the realtime worker of each request
  timedOut,  \* coordinator_timed_out_sequences
  batches,   \* batch tasks not finished yet
  closer,    \* where close() is
  mode,      \* how it was called
  late,      \* its drain deadline passed (timed_out)
  down       \* the pools that were shut down

callers == <<future, queue>>
planning == <<planner, hand>>
realtime == <<reserved, worker, timedOut>>
closing == <<closer, mode, late, down>>
vars == <<future, queue, planner, hand, routes, reserved, worker, timedOut,
          batches, closer, mode, late, down>>

(* A route task: its cohort; whether it claimed its realtime share, the    *)
(* share, the rest; what is not sent or not awaited yet; how often a       *)
(* request stands in the reroute list; whether the planner has put its     *)
(* future on _inflight.                                                    *)
Route == [ of : SUBSET Req, claimed : BOOLEAN, share : SUBSET Req, rest : SUBSET Req,
           unsent : SUBSET Req, unawaited : SUBSET Req, again : [Req -> Nat],
           listed : BOOLEAN ]

(* A batch task: _run_batch_overflow and its recursion.  Lists may name a  *)
(* request more than once.                                                 *)
Batch == [ todo : [Req -> Nat], failed : [Req -> Nat], depth : Nat ]

Nobody == [r \in Req |-> 0]
Stopped == closer \notin {"open", "evicting"}        \* _stop
Shut(p) == p \in down

Init ==
  /\ future = [r \in Req |-> "new"] /\ queue = {}
  /\ planner = "none" /\ hand = {} /\ routes = {}
  /\ reserved = 0 /\ worker = [r \in Req |-> "none"]
  /\ timedOut = {}
  /\ batches = {}
  /\ closer = "open" /\ mode = "none" /\ late = FALSE /\ down = {}

(* _set, _resolve_error: a future that is resolved already stays as it is. *)
Settled(S, a) ==
  [r \in Req |-> IF r \in S /\ future[r] = "waiting" THEN a ELSE future[r]]

-----------------------------------------------------------------------------
(* Submission and planning.                                                *)

Submit(r) ==
  /\ ~Stopped /\ future[r] = "new"
  /\ future' = [future EXCEPT ![r] = "waiting"]
  /\ queue' = queue \cup {r}
  /\ planner' = IF planner = "none" THEN "gathering" ELSE planner
  /\ UNCHANGED <<hand, routes, realtime, batches, closing>>

(* _drain_cohort: quiescence, the ceiling or an early storm cut the queue. *)
Drain ==
  /\ planner = "gathering" /\ queue # {}
  /\ hand' = queue /\ queue' = {} /\ planner' = "drained"
  /\ UNCHANGED <<future, routes, realtime, batches, closing>>

PlannerExits ==
  /\ planner = "gathering" /\ queue = {} /\ Stopped
  /\ planner' = "none"
  /\ UNCHANGED <<callers, hand, routes, realtime, batches, closing>>

NewRoute(C) == [ of |-> C, claimed |-> FALSE, share |-> {}, rest |-> C,
                 unsent |-> {}, unawaited |-> {}, again |-> Nobody,
                 listed |-> FALSE ]

HandOver ==
  /\ planner = "drained" /\ ~Shut("route")
  /\ routes' = routes \cup {NewRoute(hand)}
  /\ planner' = "handed"
  /\ UNCHANGED <<callers, hand, realtime, batches, closing>>

(* The route pool refuses: the planner answers for its cohort and for the  *)
(* queue, and dies.                                                        *)
HandRefused ==
  /\ planner = "drained" /\ Shut("route")
  /\ future' = Settled(hand \cup queue, "shut")
  /\ queue' = {} /\ hand' = {} /\ planner' = "none"
  /\ UNCHANGED <<routes, realtime, batches, closing>>

Enlist ==
  /\ planner = "handed"
  /\ routes' = {IF c.of = hand THEN [c EXCEPT !.listed = TRUE] ELSE c : c \in routes}
  /\ hand' = {} /\ planner' = "gathering"
  /\ UNCHANGED <<callers, realtime, batches, closing>>

-----------------------------------------------------------------------------
(* Routing one cohort.                                                     *)

Replace(c, d) == routes' = (routes \ {c}) \cup {d}

Least(m, n) == IF m <= n THEN m ELSE n

(* Mutant: every cohort claims a fresh budget.                             *)
GrantedAfresh(c) == Least(Cardinality(c.of), Budget)

Granted(c) == Least(Cardinality(c.of), Budget - reserved)

(* _claim_realtime checks and reserves under one lock.                     *)
Claim(c) ==
  /\ ~c.claimed
  /\ \E S \in SUBSET c.of :
       /\ Cardinality(S) = Granted(c)
       /\ Replace(c, [c EXCEPT !.claimed = TRUE, !.share = S, !.rest = c.of \ S,
                               !.unsent = S, !.unawaited = S])
       /\ reserved' = reserved + Cardinality(S)
  /\ UNCHANGED <<callers, planning, worker, timedOut, batches, closing>>

HorizonPasses ==
  /\ reserved > 0
  /\ reserved' = reserved - 1
  /\ UNCHANGED <<callers, planning, routes, worker, timedOut, batches, closing>>

Send(c, r) ==
  /\ r \in c.unsent /\ ~Shut("rt")
  /\ worker' = [worker EXCEPT ![r] = "pooled"]
  /\ Replace(c, [c EXCEPT !.unsent = @ \ {r}])
  /\ UNCHANGED <<callers, planning, reserved, timedOut, batches, closing>>

(* An exception in _run_realtime_paced: the whole share is answered with   *)
(* an error and its reroute list is lost, the calls already sent go on.    *)
ShareFails(c, a) ==
  /\ future' = Settled(c.share, a)
  /\ Replace(c, [c EXCEPT !.share = {}, !.unsent = {}, !.unawaited = {}, !.again = Nobody])
  /\ UNCHANGED <<queue, planning, realtime, batches, closing>>

(* No callback budget for a request, or none that is finite and positive;  *)
(* the budgets come before the first call is sent.                         *)
BudgetInvalid(c) == c.unsent # {} /\ c.unsent = c.share /\ ShareFails(c, "raised")

(* The realtime pool was shut down.                                        *)
SendRefused(c) == c.unsent # {} /\ Shut("rt") /\ ShareFails(c, "shut")

Await(c, r) ==
  /\ c.unsent = {} /\ r \in c.unawaited /\ worker[r] = "done"
  /\ Replace(c, [c EXCEPT !.unawaited = @ \ {r}])
  /\ UNCHANGED <<callers, planning, realtime, batches, closing>>

(* Mutant: only a call that has not begun is given up.                     *)
GiveUpPooled(c, r) ==
  /\ c.unsent = {} /\ r \in c.unawaited /\ worker[r] = "pooled"
  /\ timedOut' = timedOut \cup {r}
  /\ Replace(c, [c EXCEPT !.unawaited = @ \ {r}, !.again[r] = @ + 1])
  /\ UNCHANGED <<callers, planning, reserved, worker, batches, closing>>

(* The deadline of r passes and its future is not done.                    *)
GiveUp(c, r) ==
  /\ c.unsent = {} /\ r \in c.unawaited /\ worker[r] # "done"
  /\ timedOut' = timedOut \cup {r}
  /\ Replace(c, [c EXCEPT !.unawaited = @ \ {r}, !.again[r] = @ + 1])
  /\ UNCHANGED <<callers, planning, reserved, worker, batches, closing>>

(* Mutant: what realtime refused is forgotten.                             *)
RestOnly(c) == [r \in Req |-> IF r \in c.rest THEN 1 ELSE 0]

Overflow(c) ==
  [r \in Req |-> IF r \in c.rest THEN 1 ELSE c.again[r]]

Routed(c) == c.claimed /\ c.unsent = {} /\ c.unawaited = {}

Divert(c) ==
  /\ Routed(c) /\ ~Shut("batch")
  /\ batches' = batches \cup (IF Overflow(c) = Nobody THEN {} ELSE
                    {[todo |-> Overflow(c), failed |-> Nobody, depth |-> 0]})
  /\ routes' = routes \ {c}
  /\ UNCHANGED <<callers, planning, realtime, closing>>

DivertRefused(c) ==
  /\ Routed(c) /\ Shut("batch")
  /\ future' = Settled({r \in Req : Overflow(c)[r] > 0}, "shut")
  /\ routes' = routes \ {c}
  /\ UNCHANGED <<queue, planning, realtime, batches, closing>>

-----------------------------------------------------------------------------
(* A realtime worker (_serve_one_realtime).  It has left the lock when it  *)
(* is "leaving", and its future is done only when it is "done".            *)

Busy == {r \in Req : worker[r] \in {"calling", "leaving"}}

(* The reroute list is read when the cohort is routed; what is appended    *)
(* after that is never seen.                                               *)
Reroute(r) ==
  routes' = {IF r \in c.share THEN [c EXCEPT !.again[r] = @ + 1] ELSE c : c \in routes}

Begin(r) ==
  /\ worker[r] = "pooled" /\ Cardinality(Busy) < Concurrency
  /\ \/ /\ r \in timedOut
        /\ worker' = [worker EXCEPT ![r] = "leaving"] /\ UNCHANGED routes
     \/ /\ r \notin timedOut                              \* past its deadline
        /\ worker' = [worker EXCEPT ![r] = "leaving"] /\ Reroute(r)
     \/ /\ r \notin timedOut
        /\ worker' = [worker EXCEPT ![r] = "calling"] /\ UNCHANGED routes
  /\ UNCHANGED <<callers, planning, reserved, timedOut, batches, closing>>

CallReturns(r) ==
  /\ worker[r] = "calling"
  /\ worker' = [worker EXCEPT ![r] = "leaving"]
  /\ \/ r \in timedOut /\ UNCHANGED <<future, routes>>
     \/ r \notin timedOut /\ future' = Settled({r}, "realtime") /\ UNCHANGED routes
     \/ r \notin timedOut /\ Reroute(r) /\ UNCHANGED future
  /\ UNCHANGED <<queue, planning, reserved, timedOut, batches, closing>>

WorkerEnds(r) ==
  /\ worker[r] = "leaving"
  /\ worker' = [worker EXCEPT ![r] = "done"]
  /\ UNCHANGED <<callers, planning, routes, reserved, timedOut, batches, closing>>

-----------------------------------------------------------------------------
(* A batch task (_run_batch_overflow): one job per entry of its list.      *)

Swap(b, d) == batches' = (batches \ {b}) \cup {d}

RunJob(b, r) ==
  /\ b.todo[r] > 0
  /\ \/ /\ future' = Settled({r}, "batch")
        /\ Swap(b, [b EXCEPT !.todo[r] = @ - 1])
     \/ /\ future' = Settled({r}, "raised")               \* the submit raised
        /\ Swap(b, [b EXCEPT !.todo[r] = @ - 1])
     \/ /\ Swap(b, [b EXCEPT !.todo[r] = @ - 1, !.failed[r] = @ + 1])
        /\ UNCHANGED future                               \* failed or missing
  /\ UNCHANGED <<queue, planning, routes, realtime, closing>>

MayRefill(b) == b.depth < RefillDepth

Refill(b) ==
  /\ b.todo = Nobody /\ b.failed # Nobody /\ MayRefill(b)
  /\ Swap(b, [todo |-> b.failed, failed |-> Nobody, depth |-> b.depth + 1])
  /\ UNCHANGED <<callers, planning, routes, realtime, closing>>

BatchEnds(b) ==
  /\ b.todo = Nobody /\ (b.failed # Nobody => ~MayRefill(b))
  /\ future' = Settled({r \in Req : b.failed[r] > 0}, "exhausted")
  /\ batches' = batches \ {b}
  /\ UNCHANGED <<queue, planning, routes, realtime, closing>>

-----------------------------------------------------------------------------
(* Closing.                                                                *)

(* Mutant: the route tasks are not looked at.                              *)
BatchesDone == batches = {}

InflightDone == batches = {} /\ \A c \in routes : ~c.listed
IsIdle == queue = {} /\ InflightDone                      \* is_idle

(* storm_route._evict_idle: taken off the registry under _REG_LOCK, closed *)
(* after it.                                                               *)
ChooseToEvict ==
  /\ closer = "open" /\ "evict" \in Closers /\ IsIdle
  /\ closer' = "evicting"
  /\ UNCHANGED <<callers, planning, routes, realtime, batches, mode, late, down>>

Close(m) ==
  /\ m \in Closers
  /\ closer = IF m = "evict" THEN "evicting" ELSE "open"
  /\ closer' = "joining" /\ mode' = m
  /\ UNCHANGED <<callers, planning, routes, realtime, batches, late, down>>

(* Mutant: the planner is not waited for.                                  *)
JoinNotWaited ==
  /\ closer = "joining"
  /\ closer' = IF mode = "drain" THEN "draining" ELSE "shutting"
  /\ UNCHANGED <<callers, planning, routes, realtime, batches, mode, late, down>>

JoinReturns ==
  /\ closer = "joining" /\ planner = "none"
  /\ closer' = IF mode = "drain" THEN "draining" ELSE "shutting"
  /\ UNCHANGED <<callers, planning, routes, realtime, batches, mode, late, down>>

Drained ==
  /\ closer = "draining" /\ InflightDone
  /\ closer' = "shutting"
  /\ UNCHANGED <<callers, planning, routes, realtime, batches, mode, late, down>>

DrainTimesOut ==
  /\ closer \in {"joining", "draining"} /\ mode = "drain"
  /\ closer' = "shutting" /\ late' = TRUE
  /\ UNCHANGED <<callers, planning, routes, realtime, batches, mode, down>>

WaitsForPools == mode = "drain" /\ ~late

Earlier(p) == CASE p = "route" -> {} [] p = "batch" -> {"route"} [] p = "rt" -> {"route", "batch"}

Quiet(p) == CASE p = "route" -> routes = {}
              [] p = "batch" -> batches = {}
              [] p = "rt" -> \A r \in Req : worker[r] \in {"none", "done"}

(* pool.shutdown(wait): the pool refuses new work from here on, and runs   *)
(* what it was given.                                                      *)
ShutPool(p) ==
  /\ closer = "shutting" /\ p \notin down /\ Earlier(p) \subseteq down
  /\ WaitsForPools => \A q \in Earlier(p) : Quiet(q)
  /\ down' = down \cup {p}
  /\ UNCHANGED <<callers, planning, routes, realtime, batches, closer, mode, late>>

CloseReturns ==
  /\ closer = "shutting" /\ down = Pool
  /\ WaitsForPools => \A q \in Pool : Quiet(q)
  /\ closer' = "closed"
  /\ UNCHANGED <<callers, planning, routes, realtime, batches, mode, late, down>>

-----------------------------------------------------------------------------
Planning == Drain \/ PlannerExits \/ HandOver \/ HandRefused \/ Enlist

Routing(c) ==
  \/ Claim(c) \/ BudgetInvalid(c) \/ SendRefused(c) \/ Divert(c) \/ DivertRefused(c)
  \/ \E r \in Req : Send(c, r) \/ Await(c, r) \/ GiveUp(c, r)

Serving(r) == Begin(r) \/ WorkerEnds(r)

Batching(b) == Refill(b) \/ BatchEnds(b) \/ \E r \in Req : RunJob(b, r)

Closing == JoinReturns \/ Drained \/ CloseReturns \/ \E p \in Pool : ShutPool(p)

Next ==
  \/ \E r \in Req : Submit(r) \/ Serving(r) \/ CallReturns(r)
  \/ Planning
  \/ \E c \in routes : Routing(c)
  \/ \E b \in batches : Batching(b)
  \/ HorizonPasses
  \/ ChooseToEvict \/ \E m \in CloseMode : Close(m)
  \/ Closing \/ DrainTimesOut

(* Threads of the program run.  Nothing makes a caller submit, a realtime  *)
(* or a batch call return, or anyone close the coalescer.                  *)
Fairness ==
  /\ WF_vars(Planning)
  /\ WF_vars(\E c \in routes : Routing(c))
  /\ WF_vars(\E b \in batches : Refill(b) \/ BatchEnds(b))
  /\ WF_vars(\E r \in Req : Serving(r))
  /\ WF_vars(Closing)

Spec == Init /\ [][Next]_vars /\ Fairness

-----------------------------------------------------------------------------
TypeOK ==
  /\ future \in [Req -> {"new", "waiting"} \cup Answer]
  /\ queue \subseteq Req /\ hand \subseteq Req /\ timedOut \subseteq Req
  /\ planner \in {"none", "gathering", "drained", "handed"}
  /\ routes \subseteq Route
  /\ reserved \in 0 .. Budget
  /\ worker \in [Req -> {"none", "pooled", "calling", "leaving", "done"}]
  /\ batches \subseteq Batch
  /\ closer \in {"open", "evicting", "joining", "draining", "shutting", "closed"}
  /\ mode \in CloseMode \cup {"none"} /\ late \in BOOLEAN /\ down \subseteq Pool

(* Where a request that waits is looked after: the queue, the planner's    *)
(* hand, its cohort's lists, or a batch task's.                            *)
Listed(c, r) == r \in c.rest \/ r \in c.unawaited \/ c.again[r] > 0

InCustody(r) ==
  \/ r \in queue
  \/ planner = "drained" /\ r \in hand
  \/ \E c \in routes : Listed(c, r)
  \/ \E b \in batches : b.todo[r] > 0 \/ b.failed[r] > 0

(* No request is lost between two threads: as long as its future waits,    *)
(* some thread that will act on it holds it, and a queue that is not empty *)
(* has a live planner.  (submit_request, _plan_loop, _route_cohort,        *)
(* _run_realtime_paced, _run_batch_overflow and close() under every        *)
(* interleaving.)                                                          *)
NoOneStranded ==
  /\ \A r \in Req : future[r] = "waiting" => InCustody(r)
  /\ queue # {} => planner # "none"

(* close(wait=True) that returns within its deadline has cut nobody off:   *)
(* every accepted request was answered by realtime or batch, or failed     *)
(* there; none got an error made up by the shutdown.                       *)
DrainedCloseAnswersAll ==
  closer = "closed" /\ WaitsForPools => \A r \in Req : future[r] \notin {"waiting", "shut"}

(* Once close(wait=True) has drained in time, no route or batch task is    *)
(* left and none will start, so the pools it then waits for can hold it    *)
(* only with a realtime call that never returns.                           *)
OnlyRealtimeHoldsClose ==
  closer \in {"shutting", "closed"} /\ WaitsForPools => routes = {} /\ batches = {}

(* The requests of a batch task that is in a batch call, its own or that   *)
(* of a request listed before it, or waits for a thread of the pool.       *)
InBatchCall == {r \in Req : \E b \in batches : b.todo # Nobody /\ b.todo[r] + b.failed[r] > 0}

(* The coalescer keeps the promise of StormPromise: every accepted request *)
(* is resolved at most once, and it is resolved unless a batch call that   *)
(* never returns holds it: a hung realtime call, a close or an eviction at *)
(* any moment holds nobody.                                                *)
Promise == INSTANCE StormPromise WITH open <- ~Stopped, held <- InBatchCall
KeepsPromise == Promise!Spec

(* _run_realtime_paced and _run_batch_overflow: the coordinator never hands*)
(* to batch what realtime has served ("never double-resolve", "a succeeded *)
(* sibling is never re-submitted").  The code breaks it.                   *)
ServedNotRebought ==
  \A b \in batches, r \in Req : future[r] = "realtime" => b.todo[r] = 0

(* storm_route._evict_idle: "eviction NEVER abandons an in-flight cohort". *)
(* The code breaks it.                                                     *)
EvictionHurtsNobody == mode = "evict" => \A r \in Req : future[r] # "shut"
=============================================================================
