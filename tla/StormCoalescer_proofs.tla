----------------------- MODULE StormCoalescer_proofs -----------------------
(***************************************************************************)
(* Proofs about the storm coalescer: its types, that no request is lost    *)
(* between two threads, what a close in time may rely on, and that every   *)
(* step is one of the promise to callers (StormPromise) or a stutter.      *)
(*                                                                         *)
(* A request belongs to one thread at a time: the queue, the planner's     *)
(* hand, or one cohort; until its cohort has sent it, no worker has heard  *)
(* of it.  That is why a worker that is over, or late, has always left its *)
(* request answered or on the reroute list its coordinator will read.      *)
(***************************************************************************)
EXTENDS StormCoalescer, FiniteSetTheorems, TLAPS

-----------------------------------------------------------------------------
(* The inductive invariant.                                                *)

Untouched(r) == worker[r] = "none" /\ r \notin timedOut

(* Not taken into a cohort yet.                                            *)
Pending == queue \cup (IF planner = "drained" THEN hand ELSE {})

Shape(c) ==
  /\ c.share \subseteq c.of /\ c.rest \subseteq c.of
  /\ c.unsent \subseteq c.unawaited /\ c.unawaited \subseteq c.share
  /\ \A r \in Req : c.again[r] > 0 => r \in c.share
  /\ ~c.claimed => c.rest = c.of /\ c.share = {}

Over(r) == r \in timedOut \/ worker[r] \in {"leaving", "done"}

CohortInv(c) ==
  /\ Shape(c)
  /\ \A r \in c.of : future[r] # "new" /\ r \notin Pending
  /\ \A r \in c.of : ~c.claimed \/ r \in c.unsent => Untouched(r)
  /\ \A r \in c.share : future[r] = "waiting" /\ Over(r) => c.again[r] > 0
  /\ c.listed \/ (planner = "handed" /\ c.of = hand)

Disjoint == \A c, d \in routes : c.of \cap d.of # {} => c = d

PendingInv ==
  /\ \A r \in Pending : future[r] # "new"
  /\ \A r \in Req : r \in Pending \/ future[r] = "new" => Untouched(r)
  /\ planner = "drained" => queue \cap hand = {}

CloseInv ==
  /\ late \/ down # {} => closer \in {"shutting", "closed"}
  /\ closer \in {"draining", "shutting", "closed"} /\ ~late => planner = "none"
  /\ \A r \in Req : future[r] = "shut" => closer \in {"shutting", "closed"} /\ ~WaitsForPools

StormInv ==
  /\ TypeOK /\ (\A c \in routes : CohortInv(c)) /\ Disjoint /\ PendingInv
  /\ NoOneStranded /\ OnlyRealtimeHoldsClose /\ CloseInv

-----------------------------------------------------------------------------
(* Routes.                                                                 *)

LEMMA ActorsDistinct ==
  /\ "new" \notin Answer /\ "waiting" \notin Answer /\ Budget \in Nat \ {0} /\ RefillDepth \in Nat
  /\ \A a \in Answer : a # "shut" => a \in {"realtime", "batch", "exhausted", "raised"}
BY BudgetAssumption DEF Answer

LEMMA NobodyType == Nobody \in [Req -> Nat] /\ \A r \in Req : Nobody[r] = 0
BY DEF Nobody

(* One more entry on the reroute list.                                     *)
LEMMA RaisedRoute ==
  ASSUME NEW c \in Route, NEW r \in Req, NEW d, d = [c EXCEPT !.again[r] = @ + 1]
  PROVE  /\ d \in Route /\ d.of = c.of /\ d.claimed = c.claimed /\ d.share = c.share
         /\ d.rest = c.rest /\ d.unsent = c.unsent /\ d.unawaited = c.unawaited
         /\ d.listed = c.listed
         /\ d.again[r] = c.again[r] + 1 /\ \A q \in Req : q # r => d.again[q] = c.again[q]
<1>1. c.again \in [Req -> Nat] /\ c.again[r] \in Nat
  BY DEF Route
<1>2. d = [c EXCEPT !.again = [c.again EXCEPT ![r] = c.again[r] + 1]]
  BY <1>1
<1>3. [c.again EXCEPT ![r] = c.again[r] + 1] \in [Req -> Nat]
  BY <1>1
<1>4. d.again = [c.again EXCEPT ![r] = c.again[r] + 1]
  BY <1>2 DEF Route
<1>5. d \in Route
  BY <1>2, <1>3 DEF Route
<1> QED BY <1>1, <1>2, <1>4, <1>5 DEF Route

(* What a step must keep of a cohort it does not move.                     *)
LEMMA Bystander ==
  ASSUME StormInv, NEW e \in routes, Pending' \subseteq Pending,
         \A r \in e.of : /\ Untouched(r) => Untouched(r)'
                         /\ Over(r)' => Over(r) \/ e.again[r] > 0 \/ future'[r] # "waiting"
                         /\ future'[r] \in {future[r]} \cup Answer,
         e.listed \/ UNCHANGED planning
  PROVE  CohortInv(e)'
<1>1. CohortInv(e)
  BY DEF StormInv
<1>2. \A r \in e.share : r \in e.of
  BY <1>1 DEF CohortInv, Shape
<1>3. \A r \in e.of : future'[r] # "new" /\ (future'[r] = "waiting" => future[r] = "waiting")
  BY <1>1, ActorsDistinct DEF CohortInv
<1> QED BY <1>1, <1>2, <1>3 DEF CohortInv, Shape, planning

LEMMA ReplaceCohort ==
  ASSUME StormInv, NEW c \in routes, NEW d \in Route, Replace(c, d), d.of = c.of, CohortInv(d)',
         \A e \in routes \ {c} : CohortInv(e)'
  PROVE  routes' \subseteq Route /\ Disjoint' /\ \A e \in routes' : CohortInv(e)'
BY DEF StormInv, TypeOK, Disjoint, Replace

LEMMA MapCohorts ==
  ASSUME StormInv, NEW f, routes' = {f[c] : c \in routes},
         \A c \in routes : f[c] \in Route /\ f[c].of = c.of /\ CohortInv(f[c])'
  PROVE  routes' \subseteq Route /\ Disjoint' /\ \A e \in routes' : CohortInv(e)'
BY DEF StormInv, TypeOK, Disjoint

(* What a step must keep while the coalescer is being closed.              *)
LEMMA ClosingKept ==
  ASSUME StormInv, UNCHANGED closing,
         planner' = planner \/ planner # "none" \/ ~Stopped,
         routes' # {} \/ batches' # {} => routes # {} \/ batches # {} \/ planner # "none",
         \A r \in Req : future'[r] = "shut" =>
           future[r] = "shut" \/ (down # {} /\ (routes # {} \/ planner # "none"))
  PROVE  OnlyRealtimeHoldsClose' /\ CloseInv'
<1> USE DEF StormInv, closing, WaitsForPools
<1>1. CloseInv /\ OnlyRealtimeHoldsClose
  OBVIOUS
<1>2. closer \in {"draining", "shutting", "closed"} => Stopped
  BY DEF Stopped
<1>3. CloseInv'
  BY <1>1, <1>2 DEF CloseInv, OnlyRealtimeHoldsClose
<1>4. OnlyRealtimeHoldsClose'
  BY <1>1, <1>2 DEF CloseInv, OnlyRealtimeHoldsClose
<1> QED BY <1>3, <1>4

LEMMA SettledWell ==
  ASSUME StormInv, NEW S, NEW a \in Answer
  PROVE  /\ Settled(S, a) \in [Req -> {"new", "waiting"} \cup Answer]
         /\ \A r \in Req : /\ Settled(S, a)[r] \in {future[r]} \cup Answer
                           /\ Settled(S, a)[r] # "new" <=> future[r] # "new"
                           /\ Settled(S, a)[r] = "waiting" => future[r] = "waiting" /\ r \notin S
                           /\ Settled(S, a)[r] = "shut" => future[r] = "shut" \/ a = "shut"
BY ActorsDistinct DEF Settled, StormInv, TypeOK

-----------------------------------------------------------------------------
(* Submission and planning.                                                *)

LEMMA SubmitStep ==
  ASSUME StormInv, NEW r \in Req, Submit(r)
  PROVE  StormInv'
<1>1. /\ future' = [future EXCEPT ![r] = "waiting"] /\ future[r] = "new" /\ ~Stopped
      /\ queue' = queue \cup {r} /\ planner' = IF planner = "none" THEN "gathering" ELSE planner
      /\ UNCHANGED <<hand, routes, reserved, worker, timedOut, batches, closing>>
  BY DEF Submit, realtime
<1>2. TypeOK'
  BY <1>1 DEF StormInv, TypeOK, closing
<1>3. Pending' = Pending \cup {r} /\ r \notin Pending /\ Untouched(r)
  BY <1>1 DEF StormInv, PendingInv, Pending
<1>4. ASSUME NEW c \in routes PROVE CohortInv(c)'
  BY <1>1, <1>3 DEF StormInv, TypeOK, CohortInv, Shape, Untouched, Over
<1>5. PendingInv'
  <2>1. planner' = "drained" => queue' \cap hand' = {}
    BY <1>1, <1>3 DEF StormInv, PendingInv, Pending
  <2> QED BY <1>1, <1>3, <2>1 DEF StormInv, PendingInv, TypeOK, Untouched
<1>6. NoOneStranded'
  BY <1>1 DEF StormInv, NoOneStranded, InCustody, Listed, TypeOK
<1>7. OnlyRealtimeHoldsClose' /\ CloseInv'
  BY <1>1, ClosingKept DEF StormInv, TypeOK
<1> QED BY <1>1, <1>2, <1>4, <1>5, <1>6, <1>7 DEF StormInv, Disjoint

LEMMA DrainStep ==
  ASSUME StormInv, Drain
  PROVE  StormInv'
<1>1. /\ planner = "gathering" /\ hand' = queue /\ queue' = {} /\ planner' = "drained"
      /\ UNCHANGED <<future, routes, reserved, worker, timedOut, batches, closing>>
  BY DEF Drain, realtime
<1>2. TypeOK'
  BY <1>1 DEF StormInv, TypeOK, closing
<1>3. Pending' = Pending
  BY <1>1 DEF Pending
<1>4. ASSUME NEW c \in routes PROVE CohortInv(c)'
  BY <1>1, <1>3 DEF StormInv, CohortInv, Shape, Untouched, Over
<1>5. PendingInv'
  BY <1>1, <1>3 DEF StormInv, PendingInv, Untouched
<1>6. NoOneStranded'
  BY <1>1 DEF StormInv, NoOneStranded, InCustody, Listed
<1>7. OnlyRealtimeHoldsClose' /\ CloseInv'
  BY <1>1, ClosingKept
<1> QED BY <1>1, <1>2, <1>4, <1>5, <1>6, <1>7 DEF StormInv, Disjoint

LEMMA PlannerExitsStep ==
  ASSUME StormInv, PlannerExits
  PROVE  StormInv'
<1>1. /\ planner = "gathering" /\ queue = {} /\ planner' = "none"
      /\ UNCHANGED <<future, queue, hand, routes, reserved, worker, timedOut, batches, closing>>
  BY DEF PlannerExits, realtime, callers
<1>2. TypeOK'
  BY <1>1 DEF StormInv, TypeOK, closing
<1>3. Pending' = Pending
  BY <1>1 DEF Pending
<1>4. ASSUME NEW c \in routes PROVE CohortInv(c)'
  BY <1>1, <1>3 DEF StormInv, CohortInv, Shape, Untouched, Over
<1>5. PendingInv'
  BY <1>1, <1>3 DEF StormInv, PendingInv, Untouched
<1>6. NoOneStranded'
  BY <1>1 DEF StormInv, NoOneStranded, InCustody, Listed
<1>7. OnlyRealtimeHoldsClose' /\ CloseInv'
  BY <1>1, ClosingKept
<1> QED BY <1>1, <1>2, <1>4, <1>5, <1>6, <1>7 DEF StormInv, Disjoint

LEMMA HandOverStep ==
  ASSUME StormInv, HandOver
  PROVE  StormInv'
<1>1. /\ planner = "drained" /\ planner' = "handed" /\ routes' = routes \cup {NewRoute(hand)}
      /\ UNCHANGED <<future, queue, hand, reserved, worker, timedOut, batches, closing>>
  BY DEF HandOver, realtime, callers
<1>2. PICK d : d = NewRoute(hand)
  OBVIOUS
<1>3. /\ d \in Route /\ d.of = hand /\ ~d.claimed /\ d.share = {} /\ d.rest = hand
      /\ d.unsent = {} /\ d.unawaited = {} /\ ~d.listed /\ \A r \in Req : d.again[r] = 0
  BY <1>2, NobodyType DEF NewRoute, Route, StormInv, TypeOK
<1>4. TypeOK'
  BY <1>1, <1>2, <1>3 DEF StormInv, TypeOK, closing
<1>5. Pending = queue \cup hand /\ Pending' = queue /\ queue \cap hand = {} /\ hand \subseteq Req
  BY <1>1 DEF Pending, StormInv, PendingInv, TypeOK
<1>6. ASSUME NEW c \in routes PROVE CohortInv(c)'
  BY <1>1, <1>5 DEF StormInv, CohortInv, Shape, Untouched, Over
<1>7. CohortInv(d)'
  BY <1>1, <1>3, <1>5 DEF StormInv, PendingInv, CohortInv, Shape, Untouched
<1>8. Disjoint'
  BY <1>1, <1>2, <1>3, <1>5 DEF StormInv, Disjoint, CohortInv
<1>9. PendingInv'
  BY <1>1, <1>5 DEF StormInv, PendingInv, Untouched
<1>10. NoOneStranded'
  <2>1. ASSUME NEW r \in Req, future[r] = "waiting" PROVE InCustody(r)'
    <3>1. CASE r \in hand
      BY <1>1, <1>2, <1>3, <3>1 DEF InCustody, Listed
    <3>2. CASE r \notin hand
      BY <1>1, <2>1, <3>2 DEF StormInv, NoOneStranded, InCustody, Listed
    <3> QED BY <3>1, <3>2
  <2> QED BY <1>1, <2>1 DEF NoOneStranded
<1>11. OnlyRealtimeHoldsClose' /\ CloseInv'
  BY <1>1, ClosingKept
<1> QED BY <1>1, <1>2, <1>4, <1>6, <1>7, <1>8, <1>9, <1>10, <1>11 DEF StormInv

LEMMA HandRefusedStep ==
  ASSUME StormInv, HandRefused
  PROVE  StormInv'
<1>1. /\ planner = "drained" /\ planner' = "none" /\ queue' = {} /\ hand' = {}
      /\ future' = Settled(hand \cup queue, "shut") /\ down # {}
      /\ UNCHANGED <<routes, reserved, worker, timedOut, batches, closing>>
  BY DEF HandRefused, realtime, Shut
<1>2. /\ future' \in [Req -> {"new", "waiting"} \cup Answer]
      /\ \A r \in Req : /\ future'[r] \in {future[r]} \cup Answer
                        /\ future'[r] # "new" <=> future[r] # "new"
                        /\ future'[r] = "waiting" => future[r] = "waiting" /\ r \notin hand \cup queue
  BY <1>1, SettledWell DEF Answer
<1>3. TypeOK'
  BY <1>1, <1>2 DEF StormInv, TypeOK, closing
<1>4. Pending' = {}
  BY <1>1 DEF Pending
<1>5. ASSUME NEW c \in routes PROVE CohortInv(c)'
  <2>1. c.of \subseteq Req /\ (c.listed \/ planner = "handed")
    BY DEF StormInv, TypeOK, Route, CohortInv
  <2> QED BY <1>1, <1>2, <1>4, <2>1, Bystander DEF Untouched, Over
<1>6. PendingInv'
  BY <1>1, <1>2, <1>4 DEF StormInv, PendingInv, Untouched
<1>7. NoOneStranded'
  BY <1>1, <1>2 DEF StormInv, NoOneStranded, InCustody, Listed
<1>8. OnlyRealtimeHoldsClose' /\ CloseInv'
  BY <1>1, ClosingKept
<1> QED BY <1>1, <1>3, <1>5, <1>6, <1>7, <1>8 DEF StormInv, Disjoint

LEMMA EnlistStep ==
  ASSUME StormInv, Enlist
  PROVE  StormInv'
<1>1. /\ planner = "handed" /\ planner' = "gathering" /\ hand' = {}
      /\ UNCHANGED <<future, queue, reserved, worker, timedOut, batches, closing>>
  BY DEF Enlist, realtime, callers
<1>2. PICK f : f = [c \in routes |-> IF c.of = hand THEN [c EXCEPT !.listed = TRUE] ELSE c]
  OBVIOUS
<1>3. routes' = {f[c] : c \in routes}
  BY <1>2 DEF Enlist
<1>4. ASSUME NEW c \in routes
      PROVE  /\ f[c] \in Route /\ f[c].of = c.of /\ f[c].claimed = c.claimed /\ f[c].share = c.share
             /\ f[c].rest = c.rest /\ f[c].unsent = c.unsent /\ f[c].unawaited = c.unawaited
             /\ f[c].again = c.again /\ f[c].listed
  BY <1>1, <1>2 DEF StormInv, TypeOK, Route, CohortInv
<1>5. Pending' = Pending
  BY <1>1 DEF Pending
<1>6. ASSUME NEW c \in routes PROVE CohortInv(f[c])'
  BY <1>1, <1>4, <1>5 DEF StormInv, CohortInv, Shape, Untouched, Over
<1>7. routes' \subseteq Route /\ Disjoint' /\ \A e \in routes' : CohortInv(e)'
  BY <1>3, <1>4, <1>6, MapCohorts
<1>8. TypeOK'
  BY <1>1, <1>7 DEF StormInv, TypeOK, closing
<1>9. PendingInv'
  BY <1>1, <1>5 DEF StormInv, PendingInv, Untouched
<1>10. NoOneStranded'
  BY <1>1, <1>3, <1>4 DEF StormInv, NoOneStranded, InCustody, Listed
<1>11. OnlyRealtimeHoldsClose' /\ CloseInv'
  BY <1>1, ClosingKept
<1> QED BY <1>7, <1>8, <1>9, <1>10, <1>11 DEF StormInv

-----------------------------------------------------------------------------
(* Routing one cohort.                                                     *)

(* The invariant after a step of a route task, a worker or a batch task:   *)
(* it leaves the planner, the queue and the closer alone.                  *)
LEMMA RoutingKept ==
  ASSUME StormInv, UNCHANGED <<queue, planner, hand, closer, mode, late, down>>, TypeOK',
         routes' # {} \/ batches' # {} => routes # {} \/ batches # {},
         \A e \in routes' : CohortInv(e)', Disjoint',
         \A r \in Req : (future'[r] = "new" <=> future[r] = "new"),
         \A r \in Req : Untouched(r) => Untouched(r)' \/ \E c \in routes : r \in c.of,
         \A r \in Req : future'[r] = "waiting" =>
           /\ future[r] = "waiting"
           /\ (\E e \in routes : Listed(e, r)) \/ (\E b \in batches : b.todo[r] > 0 \/ b.failed[r] > 0)
              => (\E e \in routes' : Listed(e, r)) \/ (\E b \in batches' : b.todo[r] > 0 \/ b.failed[r] > 0),
         \A r \in Req : future'[r] = "shut" => future[r] = "shut" \/ (down # {} /\ routes # {})
  PROVE  StormInv'
<1>1. Pending' = Pending
  BY DEF Pending
<1>2. \A c \in routes : CohortInv(c) /\ c.of \subseteq Req
  BY DEF StormInv, TypeOK, Route
<1>3. PendingInv'
  <2>1. \A r \in Pending' : future'[r] # "new"
    BY <1>1 DEF StormInv, PendingInv, TypeOK, Pending
  <2>2. ASSUME NEW r \in Req, r \in Pending' \/ future'[r] = "new" PROVE Untouched(r)'
    BY <1>1, <1>2, <2>2 DEF StormInv, PendingInv, CohortInv
  <2> QED BY <2>1, <2>2 DEF StormInv, PendingInv
<1>4. NoOneStranded'
  BY DEF StormInv, NoOneStranded, InCustody
<1>5. OnlyRealtimeHoldsClose' /\ CloseInv'
  BY ClosingKept DEF closing
<1> QED BY <1>3, <1>4, <1>5 DEF StormInv

LEMMA ClaimStep ==
  ASSUME StormInv, NEW c \in routes, Claim(c)
  PROVE  StormInv'
<1>1. PICK S \in SUBSET c.of :
        /\ Cardinality(S) = Granted(c)
        /\ Replace(c, [c EXCEPT !.claimed = TRUE, !.share = S, !.rest = c.of \ S,
                                !.unsent = S, !.unawaited = S])
        /\ reserved' = reserved + Cardinality(S)
  BY DEF Claim
<1>2. /\ ~c.claimed
      /\ UNCHANGED <<future, queue, planner, hand, worker, timedOut, batches, closer, mode, late, down>>
  BY DEF Claim, callers, planning, closing
<1>3. PICK d : d = [c EXCEPT !.claimed = TRUE, !.share = S, !.rest = c.of \ S,
                             !.unsent = S, !.unawaited = S]
  OBVIOUS
<1>4. c \in Route /\ CohortInv(c) /\ c.of \subseteq Req /\ c.again \in [Req -> Nat]
  BY DEF StormInv, TypeOK, Route
<1>5. /\ d \in Route /\ d.of = c.of /\ d.claimed /\ d.share = S /\ d.rest = c.of \ S
      /\ d.unsent = S /\ d.unawaited = S /\ d.again = c.again /\ d.listed = c.listed
  BY <1>3, <1>4 DEF Route
<1>6. \A r \in Req : ~(c.again[r] > 0)
  BY <1>2, <1>4 DEF CohortInv, Shape
<1>7. reserved' \in 0 .. Budget
  <2>1. IsFiniteSet(c.of) /\ Cardinality(c.of) \in Nat
    BY <1>4, ReqAssumption, FS_Subset, FS_CardinalityType
  <2> QED BY <1>1, <2>1, ActorsDistinct DEF Granted, Least, StormInv, TypeOK
<1>8. Pending' = Pending
  BY <1>2 DEF Pending
<1>9. CohortInv(d)'
  BY <1>2, <1>4, <1>5, <1>6, <1>8 DEF CohortInv, Shape, Untouched, Over
<1>10. ASSUME NEW e \in routes PROVE CohortInv(e)'
  BY <1>2, <1>8 DEF StormInv, CohortInv, Shape, Untouched, Over
<1>11. routes' \subseteq Route /\ Disjoint' /\ \A e \in routes' : CohortInv(e)'
  BY <1>1, <1>3, <1>5, <1>9, <1>10, ReplaceCohort
<1>12. TypeOK'
  BY <1>2, <1>7, <1>11 DEF StormInv, TypeOK
<1>13. ASSUME NEW r \in Req, NEW e \in routes, Listed(e, r)
       PROVE  \E x \in routes' : Listed(x, r)
  BY <1>1, <1>2, <1>3, <1>4, <1>5, <1>6, <1>13 DEF Replace, Listed, CohortInv, Shape
<1> QED BY <1>2, <1>11, <1>12, <1>13, RoutingKept DEF Untouched

LEMMA HorizonPassesStep ==
  ASSUME StormInv, HorizonPasses
  PROVE  StormInv'
<1>1. /\ UNCHANGED <<future, queue, planner, hand, routes, worker, timedOut, batches, closer, mode, late, down>>
      /\ reserved > 0 /\ reserved' = reserved - 1
  BY DEF HorizonPasses, callers, planning, closing
<1>2. TypeOK'
  BY <1>1, ActorsDistinct DEF StormInv, TypeOK
<1> QED BY <1>1, <1>2 DEF StormInv, CohortInv, Shape, Untouched, Over, Pending, Disjoint, PendingInv,
              NoOneStranded, InCustody, OnlyRealtimeHoldsClose, WaitsForPools, CloseInv

LEMMA SendStep ==
  ASSUME StormInv, NEW c \in routes, NEW r \in Req, Send(c, r)
  PROVE  StormInv'
<1>1. /\ r \in c.unsent /\ worker' = [worker EXCEPT ![r] = "pooled"]
      /\ UNCHANGED <<future, queue, planner, hand, reserved, timedOut, batches, closer, mode, late, down>>
  BY DEF Send, callers, planning, closing
<1>2. PICK d : d = [c EXCEPT !.unsent = @ \ {r}]
  OBVIOUS
<1>3. Replace(c, d)
  BY <1>2 DEF Send
<1>4. c \in Route /\ CohortInv(c) /\ c.of \subseteq Req
  BY DEF StormInv, TypeOK, Route
<1>5. /\ d \in Route /\ d.of = c.of /\ d.claimed = c.claimed /\ d.share = c.share /\ d.rest = c.rest
      /\ d.unsent = c.unsent \ {r} /\ d.unawaited = c.unawaited /\ d.again = c.again /\ d.listed = c.listed
  BY <1>2, <1>4 DEF Route
<1>6. Untouched(r) /\ c.claimed /\ r \in c.of
  BY <1>1, <1>4 DEF CohortInv, Shape
<1>7. /\ worker'[r] = "pooled" /\ \A q \in Req : q # r => worker'[q] = worker[q]
      /\ worker' \in [Req -> {"none", "pooled", "calling", "leaving", "done"}]
  BY <1>1 DEF StormInv, TypeOK
<1>8. Pending' = Pending
  BY <1>1 DEF Pending
<1>9. CohortInv(d)'
  BY <1>1, <1>4, <1>5, <1>6, <1>7, <1>8 DEF CohortInv, Shape, Untouched, Over
<1>10. ASSUME NEW e \in routes \ {c} PROVE CohortInv(e)'
  <2>1. r \notin e.of /\ e.of \subseteq Req /\ CohortInv(e)
    BY <1>6 DEF StormInv, Disjoint, TypeOK, Route
  <2> QED BY <1>1, <1>7, <1>8, <2>1 DEF CohortInv, Shape, Untouched, Over
<1>11. routes' \subseteq Route /\ Disjoint' /\ \A e \in routes' : CohortInv(e)'
  BY <1>3, <1>5, <1>9, <1>10, ReplaceCohort
<1>12. TypeOK'
  BY <1>1, <1>7, <1>11 DEF StormInv, TypeOK
<1>13. ASSUME NEW q \in Req, NEW e \in routes, Listed(e, q)
       PROVE  \E x \in routes' : Listed(x, q)
  BY <1>3, <1>5, <1>13 DEF Replace, Listed
<1>14. \A q \in Req : q \notin c.of => Untouched(q)' = Untouched(q)
  BY <1>1, <1>6, <1>7 DEF Untouched
<1> QED BY <1>1, <1>11, <1>12, <1>13, <1>14, RoutingKept

LEMMA ShareFailsStep ==
  ASSUME StormInv, NEW c \in routes, c.unsent # {}, NEW a \in {"shut", "raised"},
         ShareFails(c, a), a = "shut" => down # {}
  PROVE  StormInv'
<1>1. /\ c.unsent # {} /\ future' = Settled(c.share, a)
      /\ UNCHANGED <<queue, planner, hand, reserved, worker, timedOut, batches, closer, mode, late, down>>
  BY DEF ShareFails, planning, realtime, closing
<1>2. PICK d : d = [c EXCEPT !.share = {}, !.unsent = {}, !.unawaited = {}, !.again = Nobody]
  OBVIOUS
<1>3. Replace(c, d)
  BY <1>2 DEF ShareFails
<1>4. c \in Route /\ CohortInv(c) /\ c.of \subseteq Req
  BY DEF StormInv, TypeOK, Route
<1>5. /\ d \in Route /\ d.of = c.of /\ d.claimed = c.claimed /\ d.share = {} /\ d.rest = c.rest
      /\ d.unsent = {} /\ d.unawaited = {} /\ d.again = Nobody /\ d.listed = c.listed
  BY <1>2, <1>4, NobodyType DEF Route
<1>6. c.claimed /\ \A q \in Req : Listed(c, q) => q \in c.rest \/ q \in c.share
  BY <1>1, <1>4 DEF CohortInv, Shape, Listed
<1>7. /\ future' \in [Req -> {"new", "waiting"} \cup Answer]
      /\ \A q \in Req : /\ future'[q] \in {future[q]} \cup Answer
                        /\ future'[q] = "new" <=> future[q] = "new"
                        /\ future'[q] = "waiting" => future[q] = "waiting" /\ q \notin c.share
  BY <1>1, SettledWell DEF Answer
<1>8. Pending' = Pending
  BY <1>1 DEF Pending
<1>9. CohortInv(d)'
  BY <1>1, <1>4, <1>5, <1>6, <1>7, <1>8, NobodyType DEF CohortInv, Shape
<1>10. ASSUME NEW e \in routes \ {c} PROVE CohortInv(e)'
  <2>1. e.of \subseteq Req
    BY DEF StormInv, TypeOK, Route
  <2> QED BY <1>1, <1>7, <1>8, <2>1, Bystander DEF Untouched, Over, planning
<1>11. routes' \subseteq Route /\ Disjoint' /\ \A e \in routes' : CohortInv(e)'
  BY <1>3, <1>5, <1>9, <1>10, ReplaceCohort
<1>12. TypeOK'
  BY <1>1, <1>7, <1>11 DEF StormInv, TypeOK
<1>13. ASSUME NEW q \in Req, future'[q] = "waiting", NEW e \in routes, Listed(e, q)
       PROVE  \E x \in routes' : Listed(x, q)
  BY <1>3, <1>5, <1>6, <1>7, <1>13 DEF Replace, Listed
<1>14. \A q \in Req : q \notin c.of => Untouched(q)' = Untouched(q)
  BY <1>1 DEF Untouched
<1>15. \A q \in Req : future'[q] = "shut" => future[q] = "shut" \/ down # {}
  BY <1>1 DEF Settled
<1> QED BY <1>1, <1>7, <1>11, <1>12, <1>13, <1>14, <1>15, RoutingKept

LEMMA FailedShareStep ==
  ASSUME StormInv, NEW c \in routes, BudgetInvalid(c) \/ SendRefused(c)
  PROVE  StormInv'
BY ShareFailsStep DEF BudgetInvalid, SendRefused, Shut

LEMMA AwaitStep ==
  ASSUME StormInv, NEW c \in routes, NEW r \in Req, Await(c, r)
  PROVE  StormInv'
<1>1. /\ c.unsent = {} /\ r \in c.unawaited /\ worker[r] = "done"
      /\ UNCHANGED <<future, queue, planner, hand, reserved, worker, timedOut, batches, closer, mode, late, down>>
  BY DEF Await, callers, planning, realtime, closing
<1>2. PICK d : d = [c EXCEPT !.unawaited = @ \ {r}]
  OBVIOUS
<1>3. Replace(c, d)
  BY <1>2 DEF Await
<1>4. c \in Route /\ CohortInv(c) /\ c.of \subseteq Req
  BY DEF StormInv, TypeOK, Route
<1>5. /\ d \in Route /\ d.of = c.of /\ d.claimed = c.claimed /\ d.share = c.share /\ d.rest = c.rest
      /\ d.unsent = c.unsent /\ d.unawaited = c.unawaited \ {r} /\ d.again = c.again /\ d.listed = c.listed
  BY <1>2, <1>4 DEF Route
<1>6. future[r] = "waiting" => c.again[r] > 0
  BY <1>1, <1>4 DEF CohortInv, Shape, Over
<1>7. Pending' = Pending
  BY <1>1 DEF Pending
<1>8. CohortInv(d)'
  BY <1>1, <1>4, <1>5, <1>7 DEF CohortInv, Shape, Untouched, Over
<1>9. ASSUME NEW e \in routes \ {c} PROVE CohortInv(e)'
  BY <1>1, <1>7, Bystander DEF Untouched, Over, planning
<1>10. routes' \subseteq Route /\ Disjoint' /\ \A e \in routes' : CohortInv(e)'
  BY <1>3, <1>5, <1>8, <1>9, ReplaceCohort
<1>11. TypeOK'
  BY <1>1, <1>10 DEF StormInv, TypeOK
<1>12. ASSUME NEW q \in Req, future'[q] = "waiting", NEW e \in routes, Listed(e, q)
       PROVE  \E x \in routes' : Listed(x, q)
  BY <1>1, <1>3, <1>5, <1>6, <1>12 DEF Replace, Listed
<1>13. \A q \in Req : q \notin c.of => Untouched(q)' = Untouched(q)
  BY <1>1 DEF Untouched
<1> QED BY <1>1, <1>10, <1>11, <1>12, <1>13, RoutingKept

LEMMA GiveUpStep ==
  ASSUME StormInv, NEW c \in routes, NEW r \in Req, GiveUp(c, r)
  PROVE  StormInv'
<1>1. /\ c.unsent = {} /\ r \in c.unawaited /\ timedOut' = timedOut \cup {r}
      /\ UNCHANGED <<future, queue, planner, hand, reserved, worker, batches, closer, mode, late, down>>
  BY DEF GiveUp, callers, planning, realtime, closing
<1>2. c \in Route /\ CohortInv(c) /\ c.of \subseteq Req /\ c.again \in [Req -> Nat]
  BY DEF StormInv, TypeOK, Route
<1>3. PICK d : d = [c EXCEPT !.unawaited = @ \ {r}, !.again[r] = @ + 1]
  OBVIOUS
<1>4. Replace(c, d)
  BY <1>3 DEF GiveUp
<1>5. PICK again : again = [c.again EXCEPT ![r] = c.again[r] + 1]
  OBVIOUS
<1>6. /\ d \in Route /\ d.of = c.of /\ d.claimed = c.claimed /\ d.share = c.share /\ d.rest = c.rest
      /\ d.unsent = c.unsent /\ d.unawaited = c.unawaited \ {r} /\ d.listed = c.listed
      /\ d.again = again
  <2>1. d = [c EXCEPT !.unawaited = c.unawaited \ {r}, !.again = again]
    BY <1>2, <1>3, <1>5 DEF Route
  <2>2. again \in [Req -> Nat]
    BY <1>2, <1>5
  <2> QED BY <1>2, <2>1, <2>2 DEF Route
<1>7. d.again[r] > 0 /\ \A q \in Req : q # r => d.again[q] = c.again[q]
  BY <1>2, <1>5, <1>6
<1>8. Pending' = Pending
  BY <1>1 DEF Pending
<1>9. c.claimed /\ r \in c.share /\ r \in c.of
  BY <1>1, <1>2 DEF CohortInv, Shape
<1>10. CohortInv(d)'
  BY <1>1, <1>2, <1>6, <1>7, <1>8, <1>9 DEF CohortInv, Shape, Untouched, Over
<1>11. ASSUME NEW e \in routes \ {c} PROVE CohortInv(e)'
  <2>1. r \notin e.of
    BY <1>9 DEF StormInv, Disjoint
  <2> QED BY <1>1, <1>8, <2>1, Bystander DEF Untouched, Over, planning
<1>12. routes' \subseteq Route /\ Disjoint' /\ \A e \in routes' : CohortInv(e)'
  BY <1>4, <1>6, <1>10, <1>11, ReplaceCohort
<1>13. TypeOK'
  BY <1>1, <1>12 DEF StormInv, TypeOK
<1>14. ASSUME NEW q \in Req, NEW e \in routes, Listed(e, q)
       PROVE  \E x \in routes' : Listed(x, q)
  BY <1>4, <1>6, <1>7, <1>14 DEF Replace, Listed
<1>15. \A q \in Req : q \notin c.of => Untouched(q)' = Untouched(q)
  BY <1>1, <1>9 DEF Untouched
<1> QED BY <1>1, <1>12, <1>13, <1>14, <1>15, RoutingKept

LEMMA DivertStep ==
  ASSUME StormInv, NEW c \in routes, Divert(c)
  PROVE  StormInv'
<1>1. /\ c.claimed /\ c.unsent = {} /\ c.unawaited = {} /\ routes' = routes \ {c}
      /\ UNCHANGED <<future, queue, planner, hand, reserved, worker, timedOut, closer, mode, late, down>>
  BY DEF Divert, callers, planning, realtime, closing, Routed
<1>2. c \in Route /\ CohortInv(c) /\ c.of \subseteq Req /\ c.again \in [Req -> Nat]
  BY DEF StormInv, TypeOK, Route
<1>3. Overflow(c) \in [Req -> Nat] /\ \A q \in Req : Listed(c, q) => Overflow(c)[q] > 0
  BY <1>1, <1>2 DEF Overflow, Listed
<1>4. PICK n : n = [todo |-> Overflow(c), failed |-> Nobody, depth |-> 0]
  OBVIOUS
<1>5. n \in Batch /\ n.todo = Overflow(c)
  BY <1>3, <1>4, NobodyType DEF Batch
<1>6. batches' = batches \cup (IF Overflow(c) = Nobody THEN {} ELSE {n})
  BY <1>4 DEF Divert
<1>7. TypeOK'
  BY <1>1, <1>5, <1>6 DEF StormInv, TypeOK
<1>8. Pending' = Pending
  BY <1>1 DEF Pending
<1>9. \A e \in routes' : CohortInv(e)'
  BY <1>1, <1>8, Bystander DEF Untouched, Over, planning
<1>10. Disjoint'
  BY <1>1 DEF StormInv, Disjoint
<1>11. ASSUME NEW q \in Req, NEW e \in routes, Listed(e, q)
       PROVE  (\E x \in routes' : Listed(x, q)) \/ \E b \in batches' : b.todo[q] > 0
  <2>1. CASE e = c
    <3>1. Overflow(c)[q] > 0 /\ Overflow(c) # Nobody
      BY <1>3, <1>11, <2>1, NobodyType
    <3> QED BY <1>5, <1>6, <3>1
  <2>2. CASE e # c
    BY <1>1, <1>11, <2>2 DEF Listed
  <2> QED BY <2>1, <2>2
<1>12. \A b \in batches : b \in batches'
  BY <1>6
<1> QED BY <1>1, <1>7, <1>9, <1>10, <1>11, <1>12, RoutingKept DEF Untouched

LEMMA DivertRefusedStep ==
  ASSUME StormInv, NEW c \in routes, DivertRefused(c)
  PROVE  StormInv'
<1>1. /\ c.claimed /\ c.unsent = {} /\ c.unawaited = {} /\ routes' = routes \ {c}
      /\ down # {} /\ future' = Settled({r \in Req : Overflow(c)[r] > 0}, "shut")
      /\ UNCHANGED <<queue, planner, hand, reserved, worker, timedOut, batches, closer, mode, late, down>>
  BY DEF DivertRefused, planning, realtime, closing, Routed, Shut
<1>2. c \in Route /\ CohortInv(c) /\ c.of \subseteq Req /\ c.again \in [Req -> Nat]
  BY DEF StormInv, TypeOK, Route
<1>3. \A q \in Req : Listed(c, q) => Overflow(c)[q] > 0
  BY <1>1, <1>2 DEF Overflow, Listed
<1>4. /\ future' \in [Req -> {"new", "waiting"} \cup Answer]
      /\ \A q \in Req : /\ future'[q] \in {future[q]} \cup Answer
                        /\ future'[q] = "new" <=> future[q] = "new"
                        /\ future'[q] = "waiting" => future[q] = "waiting" /\ ~(Overflow(c)[q] > 0)
  BY <1>1, SettledWell DEF Answer
<1>5. TypeOK'
  BY <1>1, <1>4 DEF StormInv, TypeOK
<1>6. Pending' = Pending
  BY <1>1 DEF Pending
<1>7. \A e \in routes : e.of \subseteq Req
  BY DEF StormInv, TypeOK, Route
<1>8. \A e \in routes' : CohortInv(e)'
  BY <1>1, <1>4, <1>6, <1>7, Bystander DEF Untouched, Over, planning
<1>9. Disjoint'
  BY <1>1 DEF StormInv, Disjoint
<1>10. ASSUME NEW q \in Req, future'[q] = "waiting", NEW e \in routes, Listed(e, q)
       PROVE  \E x \in routes' : Listed(x, q)
  BY <1>1, <1>3, <1>4, <1>10 DEF Listed
<1> QED BY <1>1, <1>4, <1>5, <1>8, <1>9, <1>10, RoutingKept DEF Untouched

-----------------------------------------------------------------------------
(* Workers and batch tasks.                                                *)

LEMMA WorkerMoves ==
  ASSUME StormInv, NEW r \in Req, NEW x \in {"calling", "leaving", "done"},
         worker[r] \in {"pooled", "calling", "leaving"},
         worker' = [worker EXCEPT ![r] = x],
         UNCHANGED <<queue, planner, hand, reserved, timedOut, batches, closer, mode, late, down>>,
         future' = future \/ future' = Settled({r}, "realtime"),
         routes' = routes \/ Reroute(r),
         x \in {"leaving", "done"} =>
           \/ worker[r] = "leaving" \/ r \in timedOut \/ future'[r] # "waiting" \/ Reroute(r)
  PROVE  StormInv'
<1>1. /\ worker'[r] = x /\ \A q \in Req : q # r => worker'[q] = worker[q]
      /\ worker' \in [Req -> {"none", "pooled", "calling", "leaving", "done"}]
  BY DEF StormInv, TypeOK
<1>2. /\ future' \in [Req -> {"new", "waiting"} \cup Answer]
      /\ \A q \in Req : /\ future'[q] \in {future[q]} \cup Answer
                        /\ future'[q] = "new" <=> future[q] = "new"
                        /\ future'[q] = "waiting" => future[q] = "waiting"
                        /\ future'[q] = "shut" => future[q] = "shut"
  BY SettledWell DEF Answer, StormInv, TypeOK
<1>3. ~Untouched(r) /\ \A q \in Req : Untouched(q)' = Untouched(q)
  BY <1>1 DEF Untouched
<1>4. Pending' = Pending
  BY DEF Pending
<1>5. \A e \in routes : CohortInv(e) /\ e \in Route /\ e.of \subseteq Req
  BY DEF StormInv, TypeOK, Route
<1>6. \A q \in Req : Over(q)' /\ future'[q] = "waiting" => Over(q) \/ (q = r /\ Reroute(r))
  BY <1>1 DEF Over
<1>7. \A e \in routes : \A q \in e.of : future'[q] # "new" /\ q \notin Pending'
  BY <1>2, <1>4, <1>5 DEF CohortInv
<1>8. CASE routes' = routes /\ ~Reroute(r)
  <2>1. ASSUME NEW e \in routes PROVE CohortInv(e)'
    <3>1. Shape(e) /\ \A q \in e.of : ~e.claimed \/ q \in e.unsent => Untouched(q)'
      BY <1>3, <1>5 DEF CohortInv
    <3>2. \A q \in e.share : future'[q] = "waiting" /\ Over(q)' => e.again[q] > 0
      BY <1>2, <1>5, <1>6, <1>8 DEF CohortInv, Shape
    <3> QED BY <1>5, <1>7, <3>1, <3>2 DEF CohortInv, Shape, Untouched
  <2>2. TypeOK'
    BY <1>1, <1>2, <1>8 DEF StormInv, TypeOK
  <2> QED BY <1>2, <1>3, <1>8, <2>1, <2>2, RoutingKept DEF StormInv, Disjoint
<1>9. CASE Reroute(r)
  <2>1. PICK f : f = [c \in routes |-> IF r \in c.share THEN [c EXCEPT !.again[r] = @ + 1] ELSE c]
    OBVIOUS
  <2>2. routes' = {f[c] : c \in routes}
    BY <1>9, <2>1 DEF Reroute
  <2>3. ASSUME NEW c \in routes
        PROVE  /\ f[c] \in Route /\ f[c].of = c.of /\ f[c].claimed = c.claimed /\ f[c].share = c.share
               /\ f[c].rest = c.rest /\ f[c].unsent = c.unsent /\ f[c].unawaited = c.unawaited
               /\ f[c].listed = c.listed
               /\ \A q \in Req : c.again[q] > 0 \/ (q = r /\ r \in c.share) => f[c].again[q] > 0
               /\ \A q \in Req : f[c].again[q] > 0 => c.again[q] > 0 \/ (q = r /\ r \in c.share)
    <3>1. c.again \in [Req -> Nat]
      BY <1>5 DEF Route
    <3>2. CASE r \in c.share
      <4>1. f[c] = [c EXCEPT !.again[r] = @ + 1]
        BY <2>1, <3>2
      <4> QED BY <1>5, <3>1, <3>2, <4>1, RaisedRoute
    <3>3. CASE r \notin c.share
      BY <1>5, <2>1, <3>3
    <3> QED BY <3>2, <3>3
  <2>4. ASSUME NEW c \in routes PROVE CohortInv(f[c])'
    <3>1. Shape(f[c])
      BY <1>5, <2>3 DEF CohortInv, Shape
    <3>2. \A q \in c.of : ~f[c].claimed \/ q \in f[c].unsent => Untouched(q)'
      BY <1>3, <1>5, <2>3 DEF CohortInv
    <3>3. \A q \in f[c].share : future'[q] = "waiting" /\ Over(q)' => f[c].again[q] > 0
      BY <1>2, <1>5, <1>6, <2>3 DEF CohortInv, Shape
    <3> QED BY <1>5, <1>7, <2>3, <3>1, <3>2, <3>3 DEF CohortInv, Shape, Untouched
  <2>5. routes' \subseteq Route /\ Disjoint' /\ \A e \in routes' : CohortInv(e)'
    BY <2>2, <2>3, <2>4, MapCohorts
  <2>6. TypeOK'
    BY <1>1, <1>2, <2>5 DEF StormInv, TypeOK
  <2>7. ASSUME NEW q \in Req, NEW e \in routes, Listed(e, q)
        PROVE  \E y \in routes' : Listed(y, q)
    BY <2>2, <2>3, <2>7 DEF Listed
  <2>8. routes' # {} => routes # {}
    BY <2>2
  <2> QED BY <1>2, <1>3, <2>5, <2>6, <2>7, <2>8, RoutingKept
<1> QED BY <1>8, <1>9

LEMMA WorkerSteps ==
  ASSUME StormInv, NEW r \in Req, Serving(r) \/ CallReturns(r)
  PROVE  StormInv'
<1> USE DEF callers, planning, closing
<1>1. CASE Begin(r)
  BY <1>1, WorkerMoves DEF Begin
<1>2. CASE WorkerEnds(r)
  BY <1>2, WorkerMoves DEF WorkerEnds
<1>3. CASE CallReturns(r)
  <2>1. \A a : a = Settled({r}, "realtime") => a[r] # "waiting"
    BY DEF Settled
  <2> QED BY <1>3, <2>1, WorkerMoves DEF CallReturns
<1> QED BY <1>1, <1>2, <1>3 DEF Serving

(* A batch task moves its requests between its own lists, or answers them. *)
LEMMA BatchMoves ==
  ASSUME StormInv, NEW b \in batches, NEW D, D \subseteq Batch, batches' = (batches \ {b}) \cup D,
         NEW S, NEW a, a \in Answer, a # "shut", future' = Settled(S, a),
         UNCHANGED <<queue, planner, hand, routes, reserved, worker, timedOut, closer, mode, late, down>>,
         \A r \in Req : b.todo[r] > 0 \/ b.failed[r] > 0 =>
           r \in S \/ \E d \in D : d.todo[r] > 0 \/ d.failed[r] > 0
  PROVE  StormInv'
<1>1. /\ future' \in [Req -> {"new", "waiting"} \cup Answer]
      /\ \A q \in Req : /\ future'[q] \in {future[q]} \cup Answer
                        /\ future'[q] = "new" <=> future[q] = "new"
                        /\ future'[q] = "waiting" => future[q] = "waiting" /\ q \notin S
                        /\ future'[q] = "shut" => future[q] = "shut"
  BY SettledWell DEF Answer
<1>2. TypeOK'
  BY <1>1 DEF StormInv, TypeOK
<1>3. Pending' = Pending
  BY DEF Pending
<1>4. \A e \in routes : e.of \subseteq Req
  BY DEF StormInv, TypeOK, Route
<1>5. \A e \in routes' : CohortInv(e)'
  BY <1>1, <1>3, <1>4, Bystander DEF Untouched, Over, planning
<1>6. ASSUME NEW q \in Req, future'[q] = "waiting", NEW e \in batches, e.todo[q] > 0 \/ e.failed[q] > 0
      PROVE  \E x \in batches' : x.todo[q] > 0 \/ x.failed[q] > 0
  BY <1>1, <1>6
<1> QED BY <1>1, <1>2, <1>5, <1>6, RoutingKept DEF Untouched, StormInv, Disjoint

LEMMA BatchSteps ==
  ASSUME StormInv, NEW b \in batches, Batching(b)
  PROVE  StormInv'
<1>1. b \in Batch /\ b.todo \in [Req -> Nat] /\ b.failed \in [Req -> Nat] /\ b.depth \in Nat
  BY DEF StormInv, TypeOK, Batch
<1>2. Settled({}, "batch") = future
  BY DEF Settled, StormInv, TypeOK
<1>3. ASSUME NEW r \in Req, RunJob(b, r) PROVE StormInv'
  <2>1. /\ b.todo[r] > 0
        /\ UNCHANGED <<queue, planner, hand, routes, reserved, worker, timedOut, closer, mode, late, down>>
    BY <1>3 DEF RunJob, planning, realtime, closing
  <2>2. PICK todo : todo = [b.todo EXCEPT ![r] = b.todo[r] - 1]
    OBVIOUS
  <2>3. todo \in [Req -> Nat] /\ \A q \in Req : q # r => todo[q] = b.todo[q]
    BY <1>1, <2>1, <2>2
  <2>4. ASSUME NEW a \in {"batch", "raised"}, future' = Settled({r}, a),
               Swap(b, [b EXCEPT !.todo[r] = @ - 1])
        PROVE  StormInv'
    <3>1. PICK d : d = [b EXCEPT !.todo[r] = @ - 1]
      OBVIOUS
    <3>2. d = [b EXCEPT !.todo = todo]
      BY <1>1, <2>2, <3>1 DEF Batch
    <3>3. d \in Batch /\ d.todo = todo /\ d.failed = b.failed
      BY <1>1, <2>3, <3>2 DEF Batch
    <3>4. PICK D : D = {d}
      OBVIOUS
    <3>5. batches' = (batches \ {b}) \cup D
      BY <2>4, <3>1, <3>4 DEF Swap
    <3>6. \A q \in Req : b.todo[q] > 0 \/ b.failed[q] > 0 =>
            q \in {r} \/ \E e \in D : e.todo[q] > 0 \/ e.failed[q] > 0
      BY <2>3, <3>3, <3>4
    <3>7. a \in Answer /\ a # "shut" /\ D \subseteq Batch
      BY <3>3, <3>4 DEF Answer
    <3> QED BY <2>1, <2>4, <3>5, <3>6, <3>7, BatchMoves
  <2>5. ASSUME UNCHANGED future, Swap(b, [b EXCEPT !.todo[r] = @ - 1, !.failed[r] = @ + 1])
        PROVE  StormInv'
    <3>1. PICK d : d = [b EXCEPT !.todo[r] = @ - 1, !.failed[r] = @ + 1]
      OBVIOUS
    <3>2. PICK failed : failed = [b.failed EXCEPT ![r] = b.failed[r] + 1]
      OBVIOUS
    <3>3. /\ failed \in [Req -> Nat] /\ failed[r] > 0
          /\ \A q \in Req : q # r => failed[q] = b.failed[q]
      BY <1>1, <3>2
    <3>4. d = [b EXCEPT !.todo = todo, !.failed = failed]
      BY <1>1, <2>2, <3>1, <3>2 DEF Batch
    <3>5. d \in Batch /\ d.todo = todo /\ d.failed = failed
      BY <1>1, <2>3, <3>3, <3>4 DEF Batch
    <3>6. PICK D : D = {d}
      OBVIOUS
    <3>7. batches' = (batches \ {b}) \cup D
      BY <2>5, <3>1, <3>6 DEF Swap
    <3>8. \A q \in Req : b.todo[q] > 0 \/ b.failed[q] > 0 =>
            q \in {} \/ \E e \in D : e.todo[q] > 0 \/ e.failed[q] > 0
      BY <2>3, <3>3, <3>5, <3>6
    <3>9. "batch" \in Answer /\ "batch" # "shut" /\ D \subseteq Batch
      BY <3>5, <3>6 DEF Answer
    <3> QED BY <1>2, <2>1, <2>5, <3>7, <3>8, <3>9, BatchMoves
  <2> QED BY <1>3, <2>4, <2>5 DEF RunJob
<1>4. CASE Refill(b)
  <2>1. /\ \A q \in Req : b.todo[q] = 0
        /\ Swap(b, [todo |-> b.failed, failed |-> Nobody, depth |-> b.depth + 1])
        /\ UNCHANGED <<future, queue, planner, hand, routes, reserved, worker, timedOut, closer, mode, late, down>>
    BY <1>4, NobodyType DEF Refill, callers, planning, realtime, closing
  <2>2. PICK d : d = [todo |-> b.failed, failed |-> Nobody, depth |-> b.depth + 1]
    OBVIOUS
  <2>3. d \in Batch /\ d.todo = b.failed
    BY <1>1, <2>2, NobodyType DEF Batch
  <2>4. PICK D : D = {d}
    OBVIOUS
  <2>5. batches' = (batches \ {b}) \cup D
    BY <2>1, <2>2, <2>4 DEF Swap
  <2>6. \A q \in Req : b.todo[q] > 0 \/ b.failed[q] > 0 =>
          q \in {} \/ \E e \in D : e.todo[q] > 0 \/ e.failed[q] > 0
    BY <2>1, <2>3, <2>4
  <2>7. "batch" \in Answer /\ "batch" # "shut" /\ D \subseteq Batch
    BY <2>3, <2>4 DEF Answer
  <2> QED BY <1>2, <2>1, <2>5, <2>6, <2>7, BatchMoves
<1>5. CASE BatchEnds(b)
  <2>1. /\ \A q \in Req : b.todo[q] = 0
        /\ future' = Settled({r \in Req : b.failed[r] > 0}, "exhausted") /\ batches' = batches \ {b}
        /\ UNCHANGED <<queue, planner, hand, routes, reserved, worker, timedOut, closer, mode, late, down>>
    BY <1>5, NobodyType DEF BatchEnds, planning, realtime, closing
  <2>2. PICK S : S = {r \in Req : b.failed[r] > 0}
    OBVIOUS
  <2>3. PICK D : D = {}
    OBVIOUS
  <2>4. batches' = (batches \ {b}) \cup D /\ future' = Settled(S, "exhausted")
    BY <2>1, <2>2, <2>3
  <2>5. \A q \in Req : b.todo[q] > 0 \/ b.failed[q] > 0 =>
          q \in S \/ \E e \in D : e.todo[q] > 0 \/ e.failed[q] > 0
    BY <2>1, <2>2
  <2>6. "exhausted" \in Answer /\ "exhausted" # "shut" /\ D \subseteq Batch
    BY <2>3 DEF Answer
  <2> QED BY <2>1, <2>4, <2>5, <2>6, BatchMoves
<1> QED BY <1>3, <1>4, <1>5 DEF Batching

-----------------------------------------------------------------------------
(* Closing.                                                                *)

LEMMA CloserMoves ==
  ASSUME StormInv, UNCHANGED <<future, queue, planner, hand, routes, reserved, worker, timedOut, batches>>,
         closer' \in {"evicting", "joining", "draining", "shutting", "closed"},
         mode' \in CloseMode \cup {"none"}, late' \in BOOLEAN, down' \subseteq Pool,
         OnlyRealtimeHoldsClose', CloseInv'
  PROVE  StormInv'
<1>1. TypeOK'
  BY DEF StormInv, TypeOK
<1>2. Pending' = Pending
  BY DEF Pending
<1>3. \A c \in routes' : CohortInv(c)'
  BY <1>2 DEF StormInv, CohortInv, Shape, Untouched, Over
<1>4. Disjoint' /\ PendingInv' /\ NoOneStranded'
  BY <1>2 DEF StormInv, Disjoint, PendingInv, Untouched, NoOneStranded, InCustody, Listed
<1> QED BY <1>1, <1>3, <1>4 DEF StormInv

LEMMA ClosingSteps ==
  ASSUME StormInv, Closing \/ DrainTimesOut \/ ChooseToEvict \/ \E m \in CloseMode : Close(m)
  PROVE  StormInv'
<1> USE DEF callers, planning, realtime
<1>1. /\ CloseInv /\ OnlyRealtimeHoldsClose /\ mode \in CloseMode \cup {"none"} /\ late \in BOOLEAN
      /\ down \subseteq Pool /\ \A c \in routes : c.listed \/ planner = "handed"
  BY DEF StormInv, TypeOK, CohortInv
<1>2. CASE ChooseToEvict
  BY <1>1, <1>2, CloserMoves DEF ChooseToEvict, CloseInv, OnlyRealtimeHoldsClose, WaitsForPools
<1>3. ASSUME NEW m \in CloseMode, Close(m) PROVE StormInv'
  BY <1>1, <1>3, CloserMoves DEF Close, CloseInv, OnlyRealtimeHoldsClose, WaitsForPools
<1>4. CASE JoinReturns
  BY <1>1, <1>4, CloserMoves DEF JoinReturns, CloseInv, OnlyRealtimeHoldsClose, WaitsForPools
<1>5. CASE Drained
  <2>1. routes = {} /\ batches = {}
    BY <1>1, <1>5 DEF Drained, InflightDone, CloseInv
  <2> QED BY <1>1, <1>5, <2>1, CloserMoves DEF Drained, CloseInv, OnlyRealtimeHoldsClose, WaitsForPools
<1>6. CASE DrainTimesOut
  BY <1>1, <1>6, CloserMoves DEF DrainTimesOut, CloseInv, OnlyRealtimeHoldsClose, WaitsForPools
<1>7. ASSUME NEW p \in Pool, ShutPool(p) PROVE StormInv'
  BY <1>1, <1>7, CloserMoves DEF ShutPool, CloseInv, OnlyRealtimeHoldsClose, WaitsForPools
<1>8. CASE CloseReturns
  BY <1>1, <1>8, CloserMoves DEF CloseReturns, CloseInv, OnlyRealtimeHoldsClose, WaitsForPools
<1> QED BY <1>2, <1>3, <1>4, <1>5, <1>6, <1>7, <1>8 DEF Closing

-----------------------------------------------------------------------------
(* The invariant.                                                          *)

LEMMA StormInitially == Init => StormInv
<1> SUFFICES ASSUME Init PROVE StormInv
  OBVIOUS
<1> USE DEF Init
<1>1. TypeOK
  <2>1. reserved \in 0 .. Budget
    BY BudgetAssumption
  <2> QED BY <2>1 DEF TypeOK
<1>2. Pending = {}
  BY DEF Pending
<1>3. PendingInv
  BY <1>2 DEF PendingInv, Untouched
<1>4. Disjoint /\ NoOneStranded /\ OnlyRealtimeHoldsClose /\ CloseInv
  BY DEF Disjoint, NoOneStranded, OnlyRealtimeHoldsClose, CloseInv
<1> QED BY <1>1, <1>3, <1>4 DEF StormInv

LEMMA StormKept == StormInv /\ [Next]_vars => StormInv'
<1> SUFFICES ASSUME StormInv, [Next]_vars PROVE StormInv'
  OBVIOUS
<1>1. ASSUME NEW r \in Req, Submit(r) \/ Serving(r) \/ CallReturns(r) PROVE StormInv'
  BY <1>1, SubmitStep, WorkerSteps
<1>2. CASE Planning
  BY <1>2, DrainStep, PlannerExitsStep, HandOverStep, HandRefusedStep, EnlistStep DEF Planning
<1>3. ASSUME NEW c \in routes, Routing(c) PROVE StormInv'
  BY <1>3, ClaimStep, SendStep, FailedShareStep, AwaitStep, GiveUpStep, DivertStep, DivertRefusedStep
     DEF Routing
<1>4. ASSUME NEW b \in batches, Batching(b) PROVE StormInv'
  BY <1>4, BatchSteps
<1>5. CASE UNCHANGED vars
  BY <1>5 DEF vars, StormInv, TypeOK, CohortInv, Shape, Untouched, Over, Pending, Disjoint, PendingInv,
              NoOneStranded, InCustody, Listed, OnlyRealtimeHoldsClose, WaitsForPools, CloseInv
<1> QED BY <1>1, <1>2, <1>3, <1>4, <1>5, HorizonPassesStep, ClosingSteps DEF Next

LEMMA StormInvariance == Spec => []StormInv
BY StormInitially, StormKept, PTL DEF Spec

(* The coalescer's state has its types: whatever the threads do, the       *)
(* horizon never holds more reservations than the realtime budget.         *)
THEOREM StormTypeCorrect == Spec => []TypeOK
<1>1. StormInv => TypeOK
  BY DEF StormInv
<1> QED BY <1>1, StormInvariance, PTL

(* No request is lost between two threads: while its future waits, the     *)
(* queue, the planner, a route task or a batch task holds it.              *)
THEOREM NobodyIsLost == Spec => []NoOneStranded
<1>1. StormInv => NoOneStranded
  BY DEF StormInv
<1> QED BY <1>1, StormInvariance, PTL

(* Past its drain, close(wait=True) waits for realtime workers only.       *)
THEOREM CloseWaitsForRealtime == Spec => []OnlyRealtimeHoldsClose
<1>1. StormInv => OnlyRealtimeHoldsClose
  BY DEF StormInv
<1> QED BY <1>1, StormInvariance, PTL

(* close(wait=True) that returns within its deadline leaves no caller      *)
(* waiting and gives none an error of its own making.                      *)
THEOREM CloseAnswersAll == Spec => []DrainedCloseAnswersAll
<1>1. StormInv => DrainedCloseAnswersAll
  <2> SUFFICES ASSUME StormInv, closer = "closed", WaitsForPools, NEW r \in Req
               PROVE  future[r] \notin {"waiting", "shut"}
    BY DEF DrainedCloseAnswersAll
  <2>1. planner = "none" /\ routes = {} /\ batches = {}
    BY DEF StormInv, CloseInv, OnlyRealtimeHoldsClose, WaitsForPools
  <2>2. queue = {} /\ ~InCustody(r)
    BY <2>1 DEF StormInv, NoOneStranded, InCustody
  <2> QED BY <2>2 DEF StormInv, NoOneStranded, CloseInv
<1> QED BY <1>1, StormInvariance, PTL

-----------------------------------------------------------------------------
(* The promise.                                                            *)

PromiseStep == [Promise!Next]_(Promise!promiseVars)

LEMMA SettlingResolves ==
  ASSUME StormInv, NEW S, NEW a \in Answer, future' = Settled(S, a), UNCHANGED closer
  PROVE  PromiseStep
<1>1. PICK T : T = {r \in Req : r \in S /\ future[r] = "waiting"}
  OBVIOUS
<1>2. T \in SUBSET Req /\ \A r \in T : future[r] = "waiting"
  BY <1>1
<1>3. future' = [r \in Req |-> IF r \in T THEN a ELSE future[r]]
  BY <1>1 DEF Settled
<1>4. Stopped' = Stopped
  BY DEF Stopped
<1>5. CASE T = {}
  BY <1>3, <1>4, <1>5 DEF StormInv, TypeOK, PromiseStep, Promise!promiseVars
<1>6. CASE T # {}
  BY <1>2, <1>3, <1>4, <1>6 DEF PromiseStep, Promise!Next, Promise!Resolve
<1> QED BY <1>5, <1>6

LEMMA StepKeepsPromise == StormInv /\ [Next]_vars => PromiseStep
<1> SUFFICES ASSUME StormInv, [Next]_vars PROVE PromiseStep
  OBVIOUS
<1> USE DEF closing
<1>1. ASSUME UNCHANGED <<future, closer>> PROVE PromiseStep
  BY <1>1 DEF PromiseStep, Promise!promiseVars, Stopped
<1>2. ASSUME NEW r \in Req, Submit(r) PROVE PromiseStep
  BY <1>2 DEF Submit, Stopped, PromiseStep, Promise!Next, Promise!Accept
<1>3. ASSUME NEW r \in Req, Serving(r) \/ CallReturns(r) PROVE PromiseStep
  BY <1>1, <1>3, SettlingResolves DEF Serving, Begin, WorkerEnds, CallReturns, callers, Answer
<1>4. CASE Planning
  BY <1>1, <1>4, SettlingResolves
     DEF Planning, Drain, PlannerExits, HandOver, HandRefused, Enlist, callers, Answer
<1>5. ASSUME NEW c \in routes, Routing(c) PROVE PromiseStep
  BY <1>1, <1>5, SettlingResolves
     DEF Routing, Claim, Send, BudgetInvalid, SendRefused, ShareFails, Await, GiveUp, Divert,
         DivertRefused, callers, Answer
<1>6. ASSUME NEW b \in batches, Batching(b) PROVE PromiseStep
  BY <1>1, <1>6, SettlingResolves DEF Batching, RunJob, Refill, BatchEnds, callers, Answer
<1>7. CASE Closing \/ DrainTimesOut \/ ChooseToEvict \/ \E m \in CloseMode : Close(m)
  <2>1. UNCHANGED future
    BY <1>7 DEF Closing, JoinReturns, Drained, CloseReturns, ShutPool, DrainTimesOut, ChooseToEvict,
                Close, callers
  <2>2. Stopped => Stopped'
    BY <1>7 DEF Stopped, Closing, JoinReturns, Drained, CloseReturns, ShutPool, DrainTimesOut,
                ChooseToEvict, Close
  <2>3. CASE Stopped' = Stopped
    BY <2>1, <2>3 DEF PromiseStep, Promise!promiseVars
  <2>4. CASE ~Stopped /\ Stopped'
    BY <2>1, <2>4 DEF PromiseStep, Promise!Next, Promise!Close
  <2> QED BY <2>2, <2>3, <2>4 DEF Stopped
<1>8. CASE HorizonPasses \/ UNCHANGED vars
  BY <1>1, <1>8 DEF HorizonPasses, vars, callers
<1> QED BY <1>2, <1>3, <1>4, <1>5, <1>6, <1>7, <1>8 DEF Next

(* Every step of the coalescer is a step of the promise to its callers, or *)
(* none: a request is accepted only while it is open, and no result ever   *)
(* replaces another.  (That a result comes is liveness, KeepsPromise.)     *)
THEOREM PromiseIsSafe == Spec => Promise!Init /\ [][Promise!Next]_(Promise!promiseVars)
<1>1. Init => Promise!Init
  BY DEF Init, Promise!Init, Stopped
<1>2. StormInv /\ [Next]_vars => [Promise!Next]_(Promise!promiseVars)
  BY StepKeepsPromise DEF PromiseStep
<1> QED BY <1>1, <1>2, StormInvariance, PTL DEF Spec
=============================================================================
