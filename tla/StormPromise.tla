---------------------------- MODULE StormPromise ----------------------------
(***************************************************************************)
(* What the storm coalescer promises the callers of submit_request: a      *)
(* request accepted while the coalescer is open gets a future, the future  *)
(* is resolved at most once, and it is resolved in the end, whoever closes *)
(* the coalescer and whichever realtime calls hang; only a batch call that *)
(* never returns may keep it for ever.  (submit_storm bounds its caller's  *)
(* wait on its own, so that a hung batch costs the answer, not the caller.)*)
(***************************************************************************)
CONSTANTS Req, Answer      \* requests; the kinds of result a future can hold

VARIABLES
  open,
  future,     \* future[r]: "new", "waiting" or an Answer
  held        \* an input: the requests a batch call holds

promiseVars == <<open, future>>

Init ==
  /\ open = TRUE
  /\ future = [r \in Req |-> "new"]

Accept(r) ==
  /\ open
  /\ future[r] = "new"
  /\ future' = [future EXCEPT ![r] = "waiting"]
  /\ UNCHANGED open

(* One step of a thread may resolve several futures (_resolve_error).      *)
Resolve(S, a) ==
  /\ S # {}
  /\ \A r \in S : future[r] = "waiting"
  /\ future' = [r \in Req |-> IF r \in S THEN a ELSE future[r]]
  /\ UNCHANGED open

Close ==
  /\ open
  /\ open' = FALSE
  /\ UNCHANGED future

Next ==
  \/ \E r \in Req : Accept(r)
  \/ \E S \in SUBSET Req, a \in Answer : Resolve(S, a)
  \/ Close

Resolved(r) == future[r] = "waiting" ~> future[r] # "waiting"

Spec ==
  /\ Init /\ [][Next]_promiseVars
  /\ \A r \in Req : <>[](r \in held) \/ Resolved(r)
=============================================================================
