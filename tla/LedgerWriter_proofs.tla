------------------------- MODULE LedgerWriter_proofs -------------------------
(***************************************************************************)
(* Proofs about the ledger's writer: that the admission lock, the retired  *)
(* flag and the closing sentinel together never leave a request to a       *)
(* thread that is gone.  The lemmas say what each action keeps; they are   *)
(* used again for the capture of charges, whose steps are these.           *)
(***************************************************************************)
EXTENDS LedgerWriter, SequenceTheorems, TLAPS

-----------------------------------------------------------------------------
(* Queues.                                                                 *)

In(s, x) == \E i \in 1 .. Len(s) : s[i] = x

(* Nothing is behind a sentinel.                                           *)
SentinelLast(s) == \A i \in 1 .. Len(s) : s[i] = None => i = Len(s)

LEMMA EmptyQueue ==
  ASSUME NEW S
  PROVE  <<>> \in Seq(S) /\ SentinelLast(<<>>) /\ \A x : ~In(<<>>, x)
BY DEF In, SentinelLast

LEMMA AppendQueue ==
  ASSUME NEW S, NEW s \in Seq(S), NEW e \in S
  PROVE  /\ Append(s, e) \in Seq(S)
         /\ \A x : In(Append(s, e), x) <=> In(s, x) \/ x = e
         /\ ~In(s, None) => SentinelLast(Append(s, e))
<1> DEFINE t == Append(s, e)
<1>1. /\ t \in Seq(S) /\ Len(t) = Len(s) + 1 /\ Len(s) \in Nat
      /\ t[Len(s) + 1] = e /\ \A i \in 1 .. Len(s) : t[i] = s[i]
  OBVIOUS
<1> HIDE DEF t
<1>2. ASSUME NEW x PROVE In(t, x) <=> In(s, x) \/ x = e
  <2>1. ASSUME In(s, x) PROVE In(t, x)
    BY <1>1, <2>1 DEF In
  <2>2. ASSUME x = e PROVE In(t, x)
    BY <1>1, <2>2 DEF In
  <2>3. ASSUME In(t, x), x # e PROVE In(s, x)
    BY <1>1, <2>3 DEF In
  <2> QED BY <2>1, <2>2, <2>3
<1>3. ~In(s, None) => SentinelLast(t)
  BY <1>1 DEF In, SentinelLast
<1> QED BY <1>1, <1>2, <1>3 DEF t

LEMMA TailQueue ==
  ASSUME NEW S, NEW s \in Seq(S), s # <<>>
  PROVE  /\ Tail(s) \in Seq(S) /\ Head(s) \in S
         /\ \A x : In(s, x) <=> In(Tail(s), x) \/ x = Head(s)
         /\ SentinelLast(s) => SentinelLast(Tail(s)) /\ (Head(s) = None => Tail(s) = <<>>)
<1> DEFINE t == Tail(s)
<1>1. /\ t \in Seq(S) /\ Head(s) \in S /\ Len(t) = Len(s) - 1 /\ Len(s) \in Nat /\ Len(s) > 0
      /\ s[1] = Head(s) /\ \A i \in 1 .. Len(t) : t[i] = s[i + 1]
  OBVIOUS
<1> HIDE DEF t
<1>2. Len(t) = 0 => t = <<>>
  BY <1>1, EmptySeq
<1>3. ASSUME NEW x PROVE In(s, x) <=> In(t, x) \/ x = Head(s)
  <2>1. ASSUME In(t, x) PROVE In(s, x)
    <3>1. PICK i \in 1 .. Len(t) : t[i] = x
      BY <2>1 DEF In
    <3>2. i + 1 \in 1 .. Len(s) /\ s[i + 1] = x
      BY <1>1, <3>1
    <3> QED BY <3>2 DEF In
  <2>2. ASSUME x = Head(s) PROVE In(s, x)
    BY <1>1, <2>2 DEF In
  <2>3. ASSUME In(s, x), x # Head(s) PROVE In(t, x)
    <3>1. PICK i \in 1 .. Len(s) : s[i] = x
      BY <2>3 DEF In
    <3>2. i - 1 \in 1 .. Len(t) /\ t[i - 1] = s[(i - 1) + 1]
      BY <1>1, <2>3, <3>1
    <3> QED BY <3>1, <3>2 DEF In
  <2> QED BY <2>1, <2>2, <2>3
<1>4. ASSUME SentinelLast(s) PROVE SentinelLast(t) /\ (Head(s) = None => t = <<>>)
  <2>1. \A i \in 1 .. Len(t) : i + 1 \in 1 .. Len(s)
    BY <1>1
  <2>2. SentinelLast(t)
    BY <1>1, <1>4, <2>1 DEF SentinelLast
  <2>3. Head(s) = None => Len(s) = 1
    BY <1>1, <1>4 DEF SentinelLast
  <2> QED BY <1>1, <1>2, <2>2, <2>3
<1> QED BY <1>1, <1>3, <1>4 DEF t

-----------------------------------------------------------------------------
(* The inductive invariant.                                                *)

WriterTypes ==
  /\ call \in [Request -> [stage : Stage, of : Owner \cup {None}]]
  /\ registry \in [Proc -> Owner \cup {None}]
  /\ thread \in [Owner -> Thread]
  /\ retired \in [Owner -> BOOLEAN] /\ handle \in [Owner -> BOOLEAN]
  /\ jobs \in [Owner -> Seq(Request \cup {None})]
  /\ job \in [Owner -> [by : Request \cup {None}, stage : JobStage]]
  /\ lease \in Owner \cup {None} /\ closer \in [Proc -> Owner \cup {None}]

(* What a request, a registry or a closer names is a thread of its own     *)
(* process; a registered owner is not retired.                             *)
Home(r) ==
  /\ call[r].of # None <=> call[r].stage \in {"fetched", "admitted", "cleared", "waiting"}
  /\ call[r].of # None => call[r].of[1] = ProcOf[r] /\ thread[call[r].of] # "none"

Registered(p) ==
  /\ registry[p] # None => /\ registry[p][1] = p /\ ~retired[registry[p]]
                           /\ thread[registry[p]] \notin {"none", "failed"}
  /\ closer[p] # None => closer[p][1] = p

(* Nobody retires or closes an owner whose admission is held.              *)
Admitting(r) ==
  call[r].stage \in {"admitted", "cleared", "waiting"} =>
    ~retired[call[r].of] /\ closer[ProcOf[r]] # call[r].of

(* The sentinel: only a closer sends it, it is the last in its queue, and  *)
(* a thread off the registry has one ahead.                                *)
Ending(o) ==
  /\ thread[o] = "ended" \/ In(jobs[o], None) => retired[o] \/ closer[o[1]] = o
  /\ SentinelLast(jobs[o])
  /\ thread[o] \in {"none", "unstarted", "ended", "failed"} => jobs[o] = <<>>
  /\ handle[o] => Alive(o)
  /\ thread[o] \in {"starting", "serving", "failing"} /\ (registry[o[1]] # o \/ closer[o[1]] = o)
       => In(jobs[o], None)

Served(r) ==
  /\ At(r, "cleared") => Alive(call[r].of) \/ thread[call[r].of] = "failed"
  /\ At(r, "waiting") => \/ thread[call[r].of] = "failed"
                         \/ thread[call[r].of] = "serving" /\ job[call[r].of].by = r
                         \/ Alive(call[r].of) /\ In(jobs[call[r].of], r)

WriterInv ==
  /\ WriterTypes
  /\ \A r \in Request : Home(r) /\ Admitting(r) /\ Served(r)
  /\ \A p \in Proc : Registered(p)
  /\ \A o \in Owner : Ending(o)

LEMMA OwnerHome == \A o \in Owner : o[1] \in Proc
BY DEF Owner

(* The steps of a request.                                                 *)

LEMMA FetchStep ==
  ASSUME WriterInv, NEW r \in Request, FetchOwner(r)
  PROVE  WriterInv'
<1>1. /\ call' = [call EXCEPT ![r] = [stage |-> "fetched", of |-> registry[ProcOf[r]]]]
      /\ registry[ProcOf[r]] # None /\ ProcOf[r] \in Proc /\ UNCHANGED owners
  BY RequestAssumption DEF FetchOwner, Fetch
<1>2. WriterTypes'
  BY <1>1 DEF WriterInv, WriterTypes, owners, Stage
<1>3. ASSUME NEW q \in Request PROVE Home(q)' /\ Admitting(q)' /\ Served(q)'
  BY <1>1 DEF WriterInv, WriterTypes, owners, Home, Admitting, Served, Registered, At, Alive
<1>4. (\A p \in Proc : Registered(p)') /\ \A o \in Owner : Ending(o)'
  BY <1>1 DEF WriterInv, owners, Registered, Ending, Alive
<1> QED BY <1>2, <1>3, <1>4 DEF WriterInv

LEMMA CreateStep ==
  ASSUME WriterInv, NEW r \in Request, NEW o \in Owner, CreateOwner(r, o)
  PROVE  WriterInv'
<1>0. PICK c \in [stage : {"fetched"}, of : {o}] \cup [stage : {"failed"}, of : {None}],
           th \in {"starting", "unstarted"} :
        call' = [call EXCEPT ![r] = c] /\ thread' = [thread EXCEPT ![o] = th]
  <2>1. CASE thread' = [thread EXCEPT ![o] = "starting"] /\ Fetch(r, o)
    BY <2>1 DEF Fetch
  <2>2. CASE thread' = [thread EXCEPT ![o] = "unstarted"] /\ Leave(r, "failed")
    BY <2>2 DEF Leave
  <2> QED BY <2>1, <2>2 DEF CreateOwner
<1>1. /\ ProcOf[r] \in Proc /\ registry[ProcOf[r]] = None /\ o[1] = ProcOf[r]
      /\ registry' = [registry EXCEPT ![o[1]] = o]
      /\ retired' = [retired EXCEPT ![o] = FALSE]
      /\ UNCHANGED <<handle, jobs, job, lease, closer>>
      /\ o # None
  BY RequestAssumption, OwnerAssumption DEF CreateOwner
<1>2. /\ thread[o] \in {"none", "ended", "failed"} /\ closer[o[1]] # o
      /\ \A q \in Request : call[q].of # o
      /\ call[r].stage = "new"
  BY DEF CreateOwner, Spare, Unused, At
<1>3. WriterTypes'
  BY <1>0, <1>1 DEF WriterInv, WriterTypes, Stage, Thread
<1>4. ASSUME NEW q \in Request PROVE Home(q)' /\ Admitting(q)' /\ Served(q)'
  <2>1. CASE q = r
    <3>1. call'[q] = c /\ thread'[o] = th
      BY <1>0, <2>1 DEF WriterInv, WriterTypes
    <3> QED BY <1>1, <2>1, <3>1, OwnerAssumption DEF Home, Admitting, Served, At
  <2>2. CASE q # r
    <3>1. /\ call'[q] = call[q] /\ call[q].of # o /\ call[q].of \in Owner \cup {None}
          /\ \A u \in Owner : u # o => thread'[u] = thread[u] /\ retired'[u] = retired[u]
      BY <1>0, <1>1, <1>2, <2>2 DEF WriterInv, WriterTypes
    <3>2. CASE call[q].of = None
      BY <3>1, <3>2 DEF WriterInv, Home, Admitting, Served, At
    <3>3. CASE call[q].of # None
      BY <1>1, <3>1, <3>3 DEF WriterInv, Home, Admitting, Served, At, Alive
    <3> QED BY <3>2, <3>3
  <2> QED BY <2>1, <2>2
<1>5. ASSUME NEW p \in Proc PROVE Registered(p)'
  BY <1>0, <1>1, <1>2 DEF WriterInv, WriterTypes, Registered
<1>6. ASSUME NEW u \in Owner PROVE Ending(u)'
  <2>1. CASE u = o
    <3>1. thread'[u] = th /\ registry'[u[1]] = u /\ jobs'[u] = <<>> /\ ~handle'[u] /\ closer'[u[1]] # u
      BY <1>0, <1>1, <1>2, <2>1 DEF WriterInv, WriterTypes, Ending, Alive
    <3> QED BY <3>1, EmptyQueue DEF Ending
  <2>2. CASE u # o
    BY <1>0, <1>1, <1>2, <2>2, OwnerAssumption DEF WriterInv, WriterTypes, Ending, Alive
  <2> QED BY <2>1, <2>2
<1> QED BY <1>3, <1>4, <1>5, <1>6 DEF WriterInv

(* A request that goes, or goes on, without a job.                         *)
LEMMA CallOnlyStep ==
  ASSUME WriterInv, NEW r \in Request, UNCHANGED owners, NEW c,
         call' = [call EXCEPT ![r] = c],
         c \in [stage : Stage, of : Owner \cup {None}], c.stage # "waiting",
         \/ c.of = None /\ c.stage \in {"new", "failed", "answered"}
         \/ /\ c.of # None /\ c.of = call[r].of /\ c.stage \in {"admitted", "cleared"}
            /\ ~retired[c.of] /\ closer[c.of[1]] # c.of
            /\ c.stage = "cleared" => Alive(c.of)
  PROVE  WriterInv'
<1>1. WriterTypes'
  BY DEF WriterInv, WriterTypes, owners
<1>2. ASSUME NEW q \in Request PROVE Home(q)' /\ Admitting(q)' /\ Served(q)'
  BY RequestAssumption DEF WriterInv, WriterTypes, owners, Home, Admitting, Served, At, Alive
<1>3. (\A p \in Proc : Registered(p)') /\ \A o \in Owner : Ending(o)'
  BY DEF WriterInv, owners, Registered, Ending, Alive
<1> QED BY <1>1, <1>2, <1>3 DEF WriterInv

LEMMA LeaveStep ==
  ASSUME WriterInv, NEW r \in Request, UNCHANGED owners,
         NEW stage \in {"new", "failed", "answered"}, Leave(r, stage)
  PROVE  WriterInv'
<1> DEFINE c == [stage |-> stage, of |-> None]
<1>1. /\ call' = [call EXCEPT ![r] = c] /\ c \in [stage : Stage, of : Owner \cup {None}]
      /\ c.stage # "waiting" /\ c.of = None /\ c.stage \in {"new", "failed", "answered"}
  BY DEF Leave, Stage
<1> HIDE DEF c
<1> QED BY <1>1, CallOnlyStep

LEMMA AdmitStep ==
  ASSUME WriterInv, NEW r \in Request, Admit(r)
  PROVE  WriterInv'
<1>1. CASE retired[call[r].of]
  BY <1>1, LeaveStep DEF Admit
<1>2. CASE ~retired[call[r].of]
  <2> DEFINE c == [call[r] EXCEPT !.stage = "admitted"]
  <2>1. /\ call[r] \in [stage : Stage, of : Owner \cup {None}] /\ call[r].stage = "fetched"
        /\ call[r].of # None /\ UNCHANGED owners /\ Free(call[r].of)
        /\ call' = [call EXCEPT ![r].stage = "admitted"]
    BY <1>2 DEF WriterInv, WriterTypes, Home, Admit, At, Goto
  <2>4. closer[call[r].of[1]] # call[r].of
    BY <2>1 DEF Free
  <2>2. /\ c \in [stage : Stage, of : Owner \cup {None}] /\ c.stage = "admitted"
        /\ c.of = call[r].of
    BY <2>1 DEF Stage
  <2>3. call' = [call EXCEPT ![r] = c]
    BY <2>1 DEF WriterInv, WriterTypes
  <2> HIDE DEF c
  <2> QED BY <1>2, <2>1, <2>2, <2>3, <2>4, CallOnlyStep
<1> QED BY <1>1, <1>2

LEMMA ClearStep ==
  ASSUME WriterInv, NEW r \in Request, Clear(r)
  PROVE  WriterInv'
<1> DEFINE c == [call[r] EXCEPT !.stage = "cleared"]
<1>1. /\ call[r] \in [stage : Stage, of : Owner \cup {None}] /\ call[r].stage = "admitted"
      /\ call[r].of # None /\ UNCHANGED owners /\ call' = [call EXCEPT ![r].stage = "cleared"]
      /\ ~retired[call[r].of] /\ closer[call[r].of[1]] # call[r].of /\ Alive(call[r].of)
  BY DEF WriterInv, WriterTypes, Home, Admitting, Clear, At, Goto
<1>2. c \in [stage : Stage, of : Owner \cup {None}] /\ c.stage = "cleared" /\ c.of = call[r].of
  BY <1>1 DEF Stage
<1>3. call' = [call EXCEPT ![r] = c]
  BY <1>1 DEF WriterInv, WriterTypes
<1> HIDE DEF c
<1> QED BY <1>1, <1>2, <1>3, CallOnlyStep

LEMMA PutAliveStep ==
  ASSUME WriterInv, NEW r \in Request, Put(r), Alive(call[r].of)
  PROVE  WriterInv'
<1> DEFINE o == call[r].of
<1>1. /\ call[r] \in [stage : Stage, of : Owner \cup {None}] /\ call[r].stage = "cleared"
      /\ o # None /\ o \in Owner /\ Alive(o) /\ o[1] = ProcOf[r]
      /\ ~retired[o] /\ closer[ProcOf[r]] # o
  BY DEF WriterInv, WriterTypes, Put, At, Home, Admitting
<1>2. /\ jobs' = [jobs EXCEPT ![o] = Append(jobs[o], r)]
      /\ call' = [call EXCEPT ![r] = [call[r] EXCEPT !.stage = "waiting"]]
      /\ UNCHANGED <<registry, thread, retired, handle, job, lease, closer>>
  BY DEF Put, Goto, WriterInv, WriterTypes
<1> HIDE DEF o
<1>3. ~In(jobs[o], None) /\ r \in Request \cup {None} /\ r # None
      /\ jobs[o] \in Seq(Request \cup {None})
  BY <1>1, RequestAssumption DEF WriterInv, WriterTypes, Ending
<1>4. /\ Append(jobs[o], r) \in Seq(Request \cup {None})
      /\ \A x : In(Append(jobs[o], r), x) <=> In(jobs[o], x) \/ x = r
      /\ SentinelLast(Append(jobs[o], r))
  BY <1>3, AppendQueue
<1>5. /\ \A u \in Owner : u # o => jobs'[u] = jobs[u]
      /\ jobs'[o] = Append(jobs[o], r)
      /\ jobs' \in [Owner -> Seq(Request \cup {None})]
  BY <1>1, <1>2, <1>4 DEF WriterInv, WriterTypes
<1>6. /\ call' \in [Request -> [stage : Stage, of : Owner \cup {None}]]
      /\ call'[r].stage = "waiting" /\ call'[r].of = o /\ \A q \in Request : q # r => call'[q] = call[q]
  BY <1>1, <1>2 DEF WriterInv, WriterTypes, Stage, o
<1>7. WriterTypes'
  BY <1>2, <1>5, <1>6 DEF WriterInv, WriterTypes
<1>8. ASSUME NEW q \in Request PROVE Home(q)' /\ Admitting(q)' /\ Served(q)'
  <2>1. CASE q = r
    BY <1>1, <1>2, <1>4, <1>5, <1>6, <2>1 DEF WriterInv, Home, Admitting, Served, Alive
  <2>2. CASE q # r
    <3>1. Home(q)' /\ Admitting(q)'
      BY <1>2, <1>6, <2>2 DEF WriterInv, Home, Admitting
    <3>2. Served(q)'
      BY <1>2, <1>4, <1>5, <1>6, <2>2 DEF WriterInv, WriterTypes, Home, Served, At, Alive
    <3> QED BY <3>1, <3>2
  <2> QED BY <2>1, <2>2
<1>9. \A p \in Proc : Registered(p)'
  BY <1>2 DEF WriterInv, Registered
<1>10. ASSUME NEW u \in Owner PROVE Ending(u)'
  <2>1. CASE u = o
    BY <1>1, <1>2, <1>3, <1>4, <1>5, <2>1 DEF WriterInv, Ending, Alive
  <2>2. CASE u # o
    BY <1>2, <1>5, <2>2 DEF WriterInv, Ending, Alive
  <2> QED BY <2>1, <2>2
<1> QED BY <1>7, <1>8, <1>9, <1>10 DEF WriterInv

(* A job put too late is with a thread that failed.                        *)
LEMMA PutStep ==
  ASSUME WriterInv, NEW r \in Request, Put(r)
  PROVE  WriterInv'
<1> DEFINE o == call[r].of
           c == [call[r] EXCEPT !.stage = "waiting"]
<1> SUFFICES ASSUME ~Alive(o) PROVE WriterInv'
  BY PutAliveStep
<1>1. /\ call[r] \in [stage : Stage, of : Owner \cup {None}] /\ call[r].stage = "cleared"
      /\ o # None /\ UNCHANGED owners /\ call' = [call EXCEPT ![r].stage = "waiting"]
      /\ thread[o] = "failed"
  BY DEF WriterInv, WriterTypes, Home, Served, Put, At, Goto, owners
<1>2. c \in [stage : Stage, of : Owner \cup {None}] /\ c.stage = "waiting" /\ c.of = call[r].of
  BY <1>1 DEF Stage
<1>3. call' = [call EXCEPT ![r] = c]
  BY <1>1 DEF WriterInv, WriterTypes
<1> HIDE DEF c
<1>4. WriterTypes'
  BY <1>1, <1>2, <1>3 DEF WriterInv, WriterTypes, owners
<1>5. ASSUME NEW q \in Request PROVE Home(q)' /\ Admitting(q)' /\ Served(q)'
  BY <1>1, <1>2, <1>3, RequestAssumption
     DEF WriterInv, WriterTypes, owners, Home, Admitting, Served, At, Alive
<1>6. (\A p \in Proc : Registered(p)') /\ \A u \in Owner : Ending(u)'
  BY <1>1 DEF WriterInv, owners, Registered, Ending, Alive
<1> QED BY <1>4, <1>5, <1>6 DEF WriterInv

LEMMA AskingStep ==
  ASSUME WriterInv, NEW r \in Request, Asking(r)
  PROVE  WriterInv'
BY FetchStep, CreateStep, AdmitStep, ClearStep, PutStep, LeaveStep DEF Asking, TurnedAway, Expire

-----------------------------------------------------------------------------
(* The steps of an owner.                                                  *)

LEMMA StartServingStep ==
  ASSUME WriterInv, NEW o \in Owner, StartServing(o)
  PROVE  WriterInv'
<1>1. WriterTypes'
  BY DEF WriterInv, WriterTypes, StartServing, Thread
<1>2. ASSUME NEW q \in Request PROVE Home(q)' /\ Admitting(q)' /\ Served(q)'
  BY DEF WriterInv, WriterTypes, StartServing, Home, Admitting, Served, At, Alive
<1>3. ASSUME NEW p \in Proc PROVE Registered(p)'
  BY DEF WriterInv, WriterTypes, StartServing, Registered
<1>4. ASSUME NEW u \in Owner PROVE Ending(u)'
  BY DEF WriterInv, WriterTypes, StartServing, Ending, Alive
<1> QED BY <1>1, <1>2, <1>3, <1>4 DEF WriterInv

LEMMA ThreadFailsStep ==
  ASSUME WriterInv, NEW o \in Owner, ThreadFails(o)
  PROVE  WriterInv'
<1> DEFINE gone == [stage |-> "failed", of |-> None]
<1>1. /\ thread[o] \in {"starting", "failing"} /\ thread' = [thread EXCEPT ![o] = "failed"]
      /\ registry' = [registry EXCEPT ![o[1]] = IF @ = o THEN None ELSE @]
      /\ jobs' = [jobs EXCEPT ![o] = <<>>] /\ handle' = [handle EXCEPT ![o] = FALSE]
      /\ call' = [r \in Request |-> IF At(r, "waiting") /\ call[r].of = o THEN gone ELSE call[r]]
      /\ o[1] \in Proc /\ UNCHANGED <<retired, job, lease, closer>>
  BY OwnerHome DEF ThreadFails, Deregistered
<1>2. gone \in [stage : Stage, of : Owner \cup {None}] /\ gone.stage = "failed" /\ gone.of = None
  BY DEF Stage
<1> HIDE DEF gone
<1>3. WriterTypes'
  <2>1. call' \in [Request -> [stage : Stage, of : Owner \cup {None}]]
    BY <1>1, <1>2 DEF WriterInv, WriterTypes
  <2> QED BY <1>1, <2>1, EmptyQueue DEF WriterInv, WriterTypes, Thread
<1>4. ASSUME NEW q \in Request PROVE Home(q)' /\ Admitting(q)' /\ Served(q)'
  <2>1. CASE call'[q] = gone
    BY <1>2, <2>1 DEF Home, Admitting, Served, At
  <2>2. CASE call'[q] = call[q] /\ ~(At(q, "waiting") /\ call[q].of = o)
    BY <1>1, <2>2 DEF WriterInv, WriterTypes, Home, Admitting, Served, At, Alive
  <2> QED BY <1>1, <2>1, <2>2
<1>5. ASSUME NEW p \in Proc PROVE Registered(p)'
  BY <1>1 DEF WriterInv, WriterTypes, Registered
<1>6. ASSUME NEW u \in Owner PROVE Ending(u)'
  <2>1. CASE u = o
    BY <1>1, <2>1, EmptyQueue DEF WriterInv, WriterTypes, Ending, Alive
  <2>2. CASE u # o
    BY <1>1, <2>2 DEF WriterInv, WriterTypes, Ending, Alive
  <2> QED BY <2>1, <2>2
<1> QED BY <1>3, <1>4, <1>5, <1>6 DEF WriterInv

LEMMA CloseRaisesStep ==
  ASSUME WriterInv, NEW o \in Owner, CloseRaises(o)
  PROVE  WriterInv'
<1>1. /\ thread[o] = "serving" /\ jobs[o] = <<>> /\ Free(o)
      /\ thread' = [thread EXCEPT ![o] = "failing"]
      /\ UNCHANGED <<call, registry, retired, handle, jobs, job, lease, closer>>
  BY DEF CloseRaises, Idle
<1>2. WriterTypes'
  BY <1>1 DEF WriterInv, WriterTypes, Thread
<1>3. ASSUME NEW q \in Request PROVE Home(q)' /\ Admitting(q)' /\ Served(q)'
  BY <1>1 DEF WriterInv, WriterTypes, Home, Admitting, Served, At, Free, Holds, Alive
<1>4. ASSUME NEW p \in Proc PROVE Registered(p)'
  BY <1>1 DEF WriterInv, WriterTypes, Registered
<1>5. ASSUME NEW u \in Owner PROVE Ending(u)'
  BY <1>1 DEF WriterInv, WriterTypes, Ending, Alive
<1> QED BY <1>2, <1>3, <1>4, <1>5 DEF WriterInv

LEMMA RetireStep ==
  ASSUME WriterInv, NEW o \in Owner, Retire(o)
  PROVE  WriterInv'
<1>1. /\ thread[o] = "serving" /\ jobs[o] = <<>> /\ Free(o)
      /\ handle' = [handle EXCEPT ![o] = FALSE] /\ retired' = [retired EXCEPT ![o] = TRUE]
      /\ registry' = [registry EXCEPT ![o[1]] = IF @ = o THEN None ELSE @]
      /\ thread' = [thread EXCEPT ![o] = "ended"] /\ o[1] \in Proc
      /\ UNCHANGED <<call, jobs, job, lease, closer>>
  BY OwnerHome DEF Retire, Idle, Deregistered
<1>2. WriterTypes'
  BY <1>1 DEF WriterInv, WriterTypes, Thread
<1>3. ASSUME NEW q \in Request PROVE Home(q)' /\ Admitting(q)' /\ Served(q)'
  BY <1>1 DEF WriterInv, WriterTypes, Home, Admitting, Served, At, Free, Holds, Alive
<1>4. ASSUME NEW p \in Proc PROVE Registered(p)'
  BY <1>1 DEF WriterInv, WriterTypes, Registered
<1>5. ASSUME NEW u \in Owner PROVE Ending(u)'
  <2>1. CASE u = o
    BY <1>1, <2>1, EmptyQueue DEF WriterInv, WriterTypes, Ending, Alive
  <2>2. CASE u # o
    BY <1>1, <2>2 DEF WriterInv, WriterTypes, Ending, Alive
  <2> QED BY <2>1, <2>2
<1> QED BY <1>2, <1>3, <1>4, <1>5 DEF WriterInv

(* The head of a queue, popped.                                            *)
LEMMA PoppedQueue ==
  ASSUME WriterInv, NEW o \in Owner, HasNext(o), Popped(o)
  PROVE  /\ jobs' \in [Owner -> Seq(Request \cup {None})]
         /\ \A u \in Owner : u # o => jobs'[u] = jobs[u]
         /\ \A x : In(jobs[o], x) <=> In(jobs'[o], x) \/ x = Head(jobs[o])
         /\ SentinelLast(jobs'[o]) /\ Head(jobs[o]) \in Request \cup {None}
         /\ Head(jobs[o]) = None => jobs'[o] = <<>>
<1>1. jobs[o] \in Seq(Request \cup {None}) /\ jobs[o] # <<>> /\ SentinelLast(jobs[o])
  BY DEF WriterInv, WriterTypes, Ending, HasNext
<1>2. jobs' = [jobs EXCEPT ![o] = Tail(jobs[o])]
  BY DEF Popped
<1>3. jobs'[o] = Tail(jobs[o]) /\ \A u \in Owner : u # o => jobs'[u] = jobs[u]
  BY <1>2 DEF WriterInv, WriterTypes
<1>4. /\ Tail(jobs[o]) \in Seq(Request \cup {None}) /\ Head(jobs[o]) \in Request \cup {None}
      /\ \A x : In(jobs[o], x) <=> In(Tail(jobs[o]), x) \/ x = Head(jobs[o])
      /\ SentinelLast(Tail(jobs[o])) /\ (Head(jobs[o]) = None => Tail(jobs[o]) = <<>>)
  BY <1>1, TailQueue
<1> QED BY <1>2, <1>3, <1>4 DEF WriterInv, WriterTypes

LEMMA TakeJobStep ==
  ASSUME WriterInv, NEW o \in Owner, TakeJob(o)
  PROVE  WriterInv'
<1> DEFINE h == Head(jobs[o])
<1>1. /\ HasNext(o) /\ Popped(o) /\ h # None /\ job[o] = NoJob
      /\ job' = [job EXCEPT ![o] = [by |-> h, stage |-> "begun"]] /\ lease' = o
      /\ UNCHANGED <<call, registry, thread, retired, handle, closer>>
  BY DEF TakeJob, HasNext
<1>2. /\ jobs' \in [Owner -> Seq(Request \cup {None})] /\ SentinelLast(jobs'[o]) /\ h \in Request
      /\ \A u \in Owner : u # o => jobs'[u] = jobs[u]
      /\ \A x : In(jobs[o], x) <=> In(jobs'[o], x) \/ x = h
  BY <1>1, PoppedQueue
<1> HIDE DEF h
<1>3. WriterTypes'
  BY <1>1, <1>2 DEF WriterInv, WriterTypes, JobStage
<1>4. ASSUME NEW q \in Request PROVE Home(q)' /\ Admitting(q)' /\ Served(q)'
  <2>1. Home(q)' /\ Admitting(q)'
    BY <1>1 DEF WriterInv, Home, Admitting
  <2>2. ASSUME At(q, "waiting"), thread[call[q].of] # "failed"
        PROVE  \/ thread[call[q].of] = "serving" /\ job'[call[q].of].by = q
               \/ Alive(call[q].of) /\ In(jobs'[call[q].of], q)
    <3>1. call[q].of \in Owner /\ Served(q) /\ job[o].by # q /\ thread[o] = "serving"
      BY <1>1, <2>2, RequestAssumption DEF WriterInv, WriterTypes, Home, At, NoJob, HasNext
    <3>2. CASE call[q].of = o
      BY <1>1, <1>2, <2>2, <3>1, <3>2 DEF WriterInv, WriterTypes, Served, Alive
    <3>3. CASE call[q].of # o
      BY <1>1, <1>2, <2>2, <3>1, <3>3 DEF WriterInv, WriterTypes, Served, Alive
    <3> QED BY <3>2, <3>3
  <2>3. Served(q)'
    BY <1>1, <2>2 DEF WriterInv, Served, At, Alive
  <2> QED BY <2>1, <2>3
<1>5. ASSUME NEW p \in Proc PROVE Registered(p)'
  BY <1>1 DEF WriterInv, Registered
<1>6. ASSUME NEW u \in Owner PROVE Ending(u)'
  <2>1. CASE u = o
    BY <1>1, <1>2, <2>1 DEF WriterInv, WriterTypes, Ending, HasNext, Alive
  <2>2. CASE u # o
    BY <1>1, <1>2, <2>2 DEF WriterInv, Ending, Alive
  <2> QED BY <2>1, <2>2
<1> QED BY <1>3, <1>4, <1>5, <1>6 DEF WriterInv

LEMMA RefuseJobStep ==
  ASSUME WriterInv, NEW o \in Owner, RefuseJob(o)
  PROVE  WriterInv'
<1> DEFINE h == Head(jobs[o])
<1>1. /\ HasNext(o) /\ Popped(o) /\ h # None /\ ~At(h, "waiting")
      /\ UNCHANGED <<call, registry, thread, retired, handle, job, lease, closer>>
  BY DEF RefuseJob
<1>2. /\ jobs' \in [Owner -> Seq(Request \cup {None})] /\ SentinelLast(jobs'[o]) /\ h \in Request
      /\ \A u \in Owner : u # o => jobs'[u] = jobs[u]
      /\ \A x : In(jobs[o], x) <=> In(jobs'[o], x) \/ x = h
  BY <1>1, PoppedQueue
<1> HIDE DEF h
<1>3. WriterTypes'
  BY <1>1, <1>2 DEF WriterInv, WriterTypes
<1>4. ASSUME NEW q \in Request PROVE Home(q)' /\ Admitting(q)' /\ Served(q)'
  <2>1. Home(q)' /\ Admitting(q)'
    BY <1>1 DEF WriterInv, Home, Admitting
  <2>2. ASSUME At(q, "waiting"), In(jobs[call[q].of], q)
        PROVE  In(jobs'[call[q].of], q)
    <3>1. call[q].of \in Owner /\ q # h
      BY <1>1, <2>2 DEF WriterInv, WriterTypes, Home, At
    <3> QED BY <1>2, <2>2, <3>1
  <2>3. Served(q)'
    BY <1>1, <2>2 DEF WriterInv, Served, At, Alive
  <2> QED BY <2>1, <2>3
<1>5. ASSUME NEW p \in Proc PROVE Registered(p)'
  BY <1>1 DEF WriterInv, Registered
<1>6. ASSUME NEW u \in Owner PROVE Ending(u)'
  <2>1. CASE u = o
    BY <1>1, <1>2, <2>1 DEF WriterInv, WriterTypes, Ending, HasNext, Alive
  <2>2. CASE u # o
    BY <1>1, <1>2, <2>2 DEF WriterInv, Ending, Alive
  <2> QED BY <2>1, <2>2
<1> QED BY <1>3, <1>4, <1>5, <1>6 DEF WriterInv

LEMMA EndThreadStep ==
  ASSUME WriterInv, NEW o \in Owner, EndThread(o)
  PROVE  WriterInv'
<1>1. /\ HasNext(o) /\ Popped(o) /\ Head(jobs[o]) = None
      /\ thread' = [thread EXCEPT ![o] = "ended"] /\ handle' = [handle EXCEPT ![o] = FALSE]
      /\ UNCHANGED <<call, registry, retired, job, lease, closer>>
  BY DEF EndThread
<1>2. /\ jobs' \in [Owner -> Seq(Request \cup {None})] /\ jobs'[o] = <<>>
      /\ \A u \in Owner : u # o => jobs'[u] = jobs[u]
      /\ In(jobs[o], None)
  BY <1>1, PoppedQueue
<1>3. /\ retired[o] \/ closer[o[1]] = o
      /\ \A q \in Request : call[q].of = o => call[q].stage \notin {"admitted", "cleared", "waiting"}
  BY <1>2, OwnerAssumption DEF WriterInv, Ending, Admitting, Home, Alive
<1>4. WriterTypes'
  BY <1>1, <1>2 DEF WriterInv, WriterTypes, Thread
<1>5. ASSUME NEW q \in Request PROVE Home(q)' /\ Admitting(q)' /\ Served(q)'
  <2>1. Home(q)' /\ Admitting(q)'
    BY <1>1 DEF WriterInv, WriterTypes, Home, Admitting
  <2>2. Served(q)'
    BY <1>1, <1>2, <1>3 DEF WriterInv, WriterTypes, Served, Home, At, Alive
  <2> QED BY <2>1, <2>2
<1>6. ASSUME NEW p \in Proc PROVE Registered(p)'
  BY <1>1 DEF WriterInv, WriterTypes, Registered
<1>7. ASSUME NEW u \in Owner PROVE Ending(u)'
  <2>1. CASE u = o
    BY <1>1, <1>2, <1>3, <2>1, EmptyQueue DEF WriterInv, WriterTypes, Ending, Alive
  <2>2. CASE u # o
    BY <1>1, <1>2, <2>2 DEF WriterInv, WriterTypes, Ending, Alive
  <2> QED BY <2>1, <2>2
<1> QED BY <1>4, <1>5, <1>6, <1>7 DEF WriterInv

LEMMA ServingStep ==
  ASSUME WriterInv, NEW o \in Owner, Serving(o)
  PROVE  WriterInv'
BY StartServingStep, ThreadFailsStep, CloseRaisesStep, RetireStep, TakeJobStep, RefuseJobStep,
   EndThreadStep DEF Serving

LEMMA ReachStep ==
  ASSUME WriterInv, NEW o \in Owner, NEW stage \in JobStage, Reach(o, stage)
  PROVE  WriterInv'
<1>1. WriterTypes'
  BY DEF WriterInv, WriterTypes, Reach
<1>2. ASSUME NEW q \in Request PROVE Home(q)' /\ Admitting(q)' /\ Served(q)'
  BY DEF WriterInv, WriterTypes, Reach, Home, Admitting, Served, At, Alive
<1>3. (\A p \in Proc : Registered(p)') /\ \A u \in Owner : Ending(u)'
  BY DEF WriterInv, Reach, Registered, Ending, Alive
<1> QED BY <1>1, <1>2, <1>3 DEF WriterInv

LEMMA CommitAbortStep ==
  ASSUME WriterInv, NEW o \in Owner, Commit(o) \/ Abort(o)
  PROVE  WriterInv'
BY ReachStep DEF Commit, Abort, JobStage

LEMMA ReportStep ==
  ASSUME WriterInv, NEW o \in Owner, Report(o)
  PROVE  WriterInv'
<1>0. job[o].by \in Request
  BY DEF Report, Working, WriterInv, WriterTypes
<1>r. PICK r \in Request : r = job[o].by
  BY <1>0
<1>1. /\ job' = [job EXCEPT ![o] = NoJob] /\ lease' = None
      /\ UNCHANGED <<registry, thread, retired, handle, jobs, closer>>
  BY DEF Report
<1>2. /\ call'[r].stage # "waiting"
      /\ \A q \in Request : q # r => call'[q] = call[q]
      /\ call'[r] = call[r] \/ (call'[r].of = None /\ call'[r].stage \in {"failed", "answered"})
      /\ call' \in [Request -> [stage : Stage, of : Owner \cup {None}]]
  <2>1. CASE ~At(r, "waiting") /\ call' = call
    BY <2>1 DEF At, WriterInv, WriterTypes
  <2>2. ASSUME NEW stage \in {"failed", "answered"}, Leave(r, stage)
        PROVE <1>2!1 /\ <1>2!2 /\ <1>2!3 /\ <1>2!4
    <3>1. [stage |-> stage, of |-> None] \in [stage : Stage, of : Owner \cup {None}]
      BY DEF Stage
    <3> QED BY <1>1, <2>2, <3>1 DEF Leave, At, WriterInv, WriterTypes
  <2> QED BY <1>r, <2>1, <2>2 DEF Report
<1>3. WriterTypes'
  BY <1>1, <1>2 DEF WriterInv, WriterTypes, NoJob, JobStage
<1>4. ASSUME NEW q \in Request PROVE Home(q)' /\ Admitting(q)' /\ Served(q)'
  <2>1. CASE q = r
    BY <1>1, <1>2, <2>1 DEF WriterInv, Home, Admitting, Served, At, Alive
  <2>2. CASE q # r
    <3>1. \A u \in Owner : job[u].by = q => job'[u].by = q
      BY <1>1, <1>r, <2>2 DEF WriterInv, WriterTypes
    <3> QED BY <1>1, <1>2, <2>2, <3>1 DEF WriterInv, WriterTypes, Home, Admitting, Served, At, Alive
  <2> QED BY <2>1, <2>2
<1>5. (\A p \in Proc : Registered(p)') /\ \A u \in Owner : Ending(u)'
  BY <1>1 DEF WriterInv, Registered, Ending, Alive
<1> QED BY <1>3, <1>4, <1>5 DEF WriterInv

-----------------------------------------------------------------------------
(* Closing, and the end of a process.                                      *)

LEMMA CloseOwnerStep ==
  ASSUME WriterInv, NEW p \in Proc, CloseOwner(p)
  PROVE  WriterInv'
<1>0. PICK o \in Owner : o = registry[p]
  BY DEF CloseOwner, WriterInv, WriterTypes
<1>1. /\ closer[p] = None /\ o # None /\ Free(o) /\ ~retired[o] /\ o[1] = p
      /\ registry[p] = o /\ thread[o] # "unstarted"
      /\ jobs' = [jobs EXCEPT ![o] = Append(jobs[o], None)]
      /\ closer' = [closer EXCEPT ![p] = o]
      /\ UNCHANGED <<call, registry, thread, retired, handle, job, lease>>
      /\ jobs[o] \in Seq(Request \cup {None})
  BY <1>0 DEF CloseOwner, WriterInv, WriterTypes, Registered
<1>2. ~In(jobs[o], None) /\ thread[o] \in {"starting", "serving", "failing"}
  BY <1>1 DEF WriterInv, WriterTypes, Thread, Ending, Registered
<1>3. /\ Append(jobs[o], None) \in Seq(Request \cup {None})
      /\ \A x : In(Append(jobs[o], None), x) <=> In(jobs[o], x) \/ x = None
      /\ SentinelLast(Append(jobs[o], None))
  BY <1>1, <1>2, AppendQueue
<1>4. /\ \A u \in Owner : u # o => jobs'[u] = jobs[u]
      /\ jobs'[o] = Append(jobs[o], None)
      /\ jobs' \in [Owner -> Seq(Request \cup {None})]
  BY <1>1, <1>3 DEF WriterInv, WriterTypes
<1>5. WriterTypes'
  BY <1>1, <1>4 DEF WriterInv, WriterTypes
<1>6. ASSUME NEW q \in Request PROVE Home(q)' /\ Admitting(q)' /\ Served(q)'
  <2>1. Home(q)'
    BY <1>1 DEF WriterInv, Home
  <2>2. Admitting(q)'
    BY <1>1, RequestAssumption DEF WriterInv, WriterTypes, Admitting, Home, Free, Holds
  <2>3. Served(q)'
    BY <1>1, <1>3, <1>4 DEF WriterInv, WriterTypes, Served, Home, At, Alive
  <2> QED BY <2>1, <2>2, <2>3
<1>7. ASSUME NEW q \in Proc PROVE Registered(q)'
  BY <1>1 DEF WriterInv, WriterTypes, Registered
<1>8. ASSUME NEW u \in Owner PROVE Ending(u)'
  <2>1. CASE u = o
    BY <1>1, <1>2, <1>3, <1>4, <2>1 DEF WriterInv, WriterTypes, Ending, Alive
  <2>2. CASE u # o
    BY <1>1, <1>4, <2>2, OwnerHome, OwnerAssumption DEF WriterInv, WriterTypes, Ending, Alive
  <2> QED BY <2>1, <2>2
<1> QED BY <1>5, <1>6, <1>7, <1>8 DEF WriterInv

LEMMA JoinedStep ==
  ASSUME WriterInv, NEW p \in Proc, Joined(p)
  PROVE  WriterInv'
<1>0. PICK o \in Owner : o = closer[p]
  BY DEF Joined, WriterInv, WriterTypes
<1>1. /\ o # None /\ o[1] = p /\ closer[p] = o
      /\ retired' = [retired EXCEPT ![o] = TRUE]
      /\ registry' = [registry EXCEPT ![p] = IF @ = o THEN None ELSE @]
      /\ closer' = [closer EXCEPT ![p] = None]
      /\ UNCHANGED <<call, thread, handle, jobs, job, lease>>
  BY <1>0, OwnerAssumption DEF Joined, Deregistered, WriterInv, Registered
<1>2. WriterTypes'
  BY <1>1 DEF WriterInv, WriterTypes
<1>3. ASSUME NEW q \in Request PROVE Home(q)' /\ Admitting(q)' /\ Served(q)'
  <2>1. Home(q)' /\ Served(q)'
    BY <1>1 DEF WriterInv, Home, Served, At, Alive
  <2>2. Admitting(q)'
    BY <1>1, RequestAssumption, OwnerAssumption DEF WriterInv, WriterTypes, Admitting, Home
  <2> QED BY <2>1, <2>2
<1>4. ASSUME NEW q \in Proc PROVE Registered(q)'
  BY <1>1 DEF WriterInv, WriterTypes, Registered
<1>5. ASSUME NEW u \in Owner PROVE Ending(u)'
  <2>1. CASE u = o
    BY <1>1, <2>1 DEF WriterInv, WriterTypes, Ending, Alive
  <2>2. CASE u # o
    BY <1>1, <2>2, OwnerHome, OwnerAssumption DEF WriterInv, WriterTypes, Ending, Alive
  <2> QED BY <2>1, <2>2
<1> QED BY <1>2, <1>3, <1>4, <1>5 DEF WriterInv

LEMMA KillStep ==
  ASSUME WriterInv, NEW p \in Proc, Kill(p)
  PROVE  WriterInv'
<1>1. WriterTypes'
  <2>1. /\ NoJob \in [by : Request \cup {None}, stage : JobStage]
        /\ [stage |-> "failed", of |-> None] \in [stage : Stage, of : Owner \cup {None}]
    BY DEF NoJob, JobStage, Stage
  <2>2. call' \in [Request -> [stage : Stage, of : Owner \cup {None}]]
    BY <2>1 DEF WriterInv, WriterTypes, Kill
  <2>3. /\ registry' \in [Proc -> Owner \cup {None}] /\ closer' \in [Proc -> Owner \cup {None}]
        /\ lease' \in Owner \cup {None}
    BY DEF WriterInv, WriterTypes, Kill
  <2>4. thread' \in [Owner -> Thread]
        /\ handle' \in [Owner -> BOOLEAN] /\ retired' \in [Owner -> BOOLEAN]
    BY DEF WriterInv, WriterTypes, Kill, Thread
  <2>5. jobs' \in [Owner -> Seq(Request \cup {None})]
    BY EmptyQueue DEF WriterInv, WriterTypes, Kill
  <2>6. job' \in [Owner -> [by : Request \cup {None}, stage : JobStage]]
    BY <2>1 DEF WriterInv, WriterTypes, Kill
  <2> QED BY <2>2, <2>3, <2>4, <2>5, <2>6 DEF WriterTypes
<1>2. ASSUME NEW o \in Owner
      PROVE  IF o[1] = p THEN /\ thread'[o] = "none" /\ ~handle'[o] /\ jobs'[o] = <<>>
                              /\ job'[o] = NoJob /\ ~retired'[o]
                         ELSE /\ thread'[o] = thread[o] /\ handle'[o] = handle[o]
                              /\ jobs'[o] = jobs[o] /\ job'[o] = job[o] /\ retired'[o] = retired[o]
  BY DEF Kill, WriterInv, WriterTypes
<1>3. ASSUME NEW q \in Proc
      PROVE  IF q = p THEN registry'[q] = None /\ closer'[q] = None
                      ELSE registry'[q] = registry[q] /\ closer'[q] = closer[q]
  BY DEF Kill, WriterInv, WriterTypes
<1>4. ASSUME NEW r \in Request
      PROVE  IF ProcOf[r] = p THEN call'[r].of = None /\ call'[r].stage \in {"new", "answered", "failed"}
                              ELSE call'[r] = call[r]
  BY DEF Kill, WriterInv, WriterTypes, Home, Over, Stage
<1>5. ASSUME NEW r \in Request PROVE Home(r)' /\ Admitting(r)' /\ Served(r)'
  <2>1. CASE ProcOf[r] = p
    BY <1>4, <2>1 DEF Home, Admitting, Served, At, Alive
  <2>2. CASE ProcOf[r] # p
    <3>1. Home(r) /\ Admitting(r) /\ Served(r) /\ call'[r] = call[r] /\ ProcOf[r] \in Proc
      BY <1>4, <2>2, RequestAssumption DEF WriterInv
    <3>2. CASE call[r].of = None
      BY <3>1, <3>2 DEF Home, Admitting, Served, At, Alive
    <3>3. CASE call[r].of # None
      <4>1. call[r].of \in Owner /\ call[r].of[1] # p
        BY <2>2, <3>1, <3>3 DEF Home, WriterInv, WriterTypes
      <4> QED BY <1>2, <1>3, <2>2, <3>1, <4>1 DEF Home, Admitting, Served, At, Alive
    <3> QED BY <3>2, <3>3
  <2> QED BY <2>1, <2>2
<1>6. ASSUME NEW q \in Proc PROVE Registered(q)'
  <2>1. CASE q = p
    BY <1>3, <2>1 DEF Registered
  <2>2. CASE q # p
    <3>1. Registered(q) /\ registry[q] \in Owner \cup {None} /\ registry'[q] = registry[q]
          /\ closer'[q] = closer[q]
      BY <1>3, <2>2 DEF WriterInv, WriterTypes
    <3> QED BY <1>2, <2>2, <3>1 DEF Registered
  <2> QED BY <2>1, <2>2
<1>7. ASSUME NEW o \in Owner PROVE Ending(o)'
  <2>1. CASE o[1] = p
    <3>1. jobs'[o] = <<>> /\ thread'[o] = "none" /\ ~handle'[o]
      BY <1>2, <2>1
    <3>2. ~In(jobs'[o], None) /\ SentinelLast(jobs'[o])
      BY <3>1, EmptyQueue
    <3> QED BY <3>1, <3>2 DEF Ending, Alive
  <2>2. CASE o[1] # p
    BY <1>2, <1>3, <2>2, OwnerHome DEF WriterInv, Ending, Alive
  <2> QED BY <2>1, <2>2
<1> QED BY <1>1, <1>5, <1>6, <1>7 DEF WriterInv

LEMMA ClosingStep ==
  ASSUME WriterInv, NEW p \in Proc, Closing(p)
  PROVE  WriterInv'
BY CloseOwnerStep, JoinedStep, KillStep DEF Closing

LEMMA WriterStays ==
  ASSUME WriterInv, UNCHANGED writerVars
  PROVE  WriterInv'
<1>1. WriterTypes'
  BY DEF WriterInv, WriterTypes, writerVars, owners
<1>2. \A r \in Request : Home(r)' /\ Admitting(r)' /\ Served(r)'
  BY DEF WriterInv, writerVars, owners, Home, Admitting, Served, At, Alive
<1>3. (\A p \in Proc : Registered(p)') /\ \A o \in Owner : Ending(o)'
  BY DEF WriterInv, writerVars, owners, Registered, Ending, Alive
<1> QED BY <1>1, <1>2, <1>3 DEF WriterInv

LEMMA WriterInitInv == WriterInit => WriterInv
<1> SUFFICES ASSUME WriterInit PROVE WriterInv
  OBVIOUS
<1>1. WriterTypes
  BY EmptyQueue DEF WriterInit, WriterTypes, Stage, Thread, JobStage, NoJob
<1>2. \A r \in Request : Home(r) /\ Admitting(r) /\ Served(r)
  BY DEF WriterInit, Home, Admitting, Served, At
<1>3. \A p \in Proc : Registered(p)
  BY DEF WriterInit, Registered
<1>4. ASSUME NEW o \in Owner PROVE Ending(o)
  <2>1. jobs[o] = <<>> /\ thread[o] = "none" /\ ~handle[o]
    BY DEF WriterInit
  <2> QED BY <2>1, EmptyQueue DEF Ending
<1> QED BY <1>1, <1>2, <1>3, <1>4 DEF WriterInv

(* The inductive invariant of the writer by itself: an owner whose         *)
(* admission is held is neither retired nor closed, a waiting job is in    *)
(* the hands of a serving thread, and a thread off the registry finds a    *)
(* sentinel at the end of its queue.                                       *)
THEOREM WriterInvariance == WriterSpec => []WriterInv
<1>1. WriterInv /\ [WriterNext]_writerVars => WriterInv'
  BY AskingStep, ServingStep, CommitAbortStep, ReportStep, ClosingStep, WriterStays
     DEF WriterNext
<1> QED BY WriterInitInv, <1>1, PTL DEF WriterSpec
=============================================================================
