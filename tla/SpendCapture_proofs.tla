------------------------ MODULE SpendCapture_proofs ------------------------
(***************************************************************************)
(* Proofs about the capture of charges.  The invariant ties the job an     *)
(* owner runs to the drain it is in the middle of and, once it is          *)
(* committed, to the rows it booked: that is why the lines taken off the   *)
(* spools, and the callers told of success, have their charge booked       *)
(* whatever dies next.                                                     *)
(***************************************************************************)
EXTENDS SpendCapture, LedgerWriter_proofs

CaptureTypes ==
  /\ booked \in [Charge -> Nat] /\ capture \in [Charge -> Captured]
  /\ spool \in [Spool -> SUBSET Line] /\ replay \in [Owner -> Replay]

(* A failed line had a try left; only a drain's job has a replay; what a   *)
(* committed job writes is there.                                          *)
Replaying(o) ==
  /\ \A e \in replay[o].bad : e.line.tries < RetryLimit
  /\ replay[o] # NoReplay => job[o].by \in Drainer
  /\ job[o].by # None /\ job[o].stage = "committed" => \A c \in Writes(o) : booked[c] > 0

(* What a drain has yet to write back it read from the spools as they      *)
(* still are, and no two drains hold the same spool.                       *)
HoldsCurrent ==
  \A o \in Owner : \A s \in replay[o].left :
    replay[o].read[s] = spool[s] /\ \A u \in Owner : s \in replay[u].left => u = o

CaptureInv ==
  /\ WriterInv /\ CaptureTypes
  /\ \A o \in Owner : Replaying(o)
  /\ HoldsCurrent /\ NothingLost

LEMMA Kinds == /\ Charge \subseteq Request /\ Drainer \subseteq Request
               /\ None \notin Charge /\ None \notin Drainer
               /\ \A d \in Drainer : d \notin Charge
BY CaptureAssumption, RequestAssumption

LEMMA NoReplayType == NoReplay \in Replay /\ NoReplay.bad = {} /\ NoReplay.good = {} /\ NoReplay.left = {}
BY DEF NoReplay, Replay

(* A drain that gives its spools up, or no step of a drain.                *)
LEMMA HoldsLess ==
  ASSUME HoldsCurrent, UNCHANGED spool,
         \A o \in Owner : replay'[o] = replay[o] \/ replay'[o] = NoReplay
  PROVE  HoldsCurrent'
BY NoReplayType DEF HoldsCurrent

-----------------------------------------------------------------------------
(* The writer's part of each step.                                         *)

(* Steps that commit nothing and answer nobody.                            *)
Quietly ==
  /\ \A o \in Owner : \/ job'[o] = job[o]
                      \/ job'[o].stage # "committed" /\ job'[o].by = job[o].by
                      \/ job'[o].stage # "committed" /\ job[o] = NoJob
  /\ \A r \in Request : call'[r].stage = "answered" => call[r].stage = "answered"

LEMMA AskingQuietly ==
  ASSUME WriterInv, NEW r \in Request, Asking(r)
  PROVE  Quietly
<1>1. job' = job
  BY DEF Asking, FetchOwner, CreateOwner, Admit, Clear, Put, TurnedAway, Expire, owners
<1>2. ASSUME NEW c, c.stage # "answered", call' = [call EXCEPT ![r] = c]
      PROVE  \A q \in Request : call'[q].stage = "answered" => call[q].stage = "answered"
  BY <1>2 DEF WriterInv, WriterTypes
<1>3. ASSUME NEW stage, stage # "answered", Goto(r, stage)
      PROVE  \A q \in Request : call'[q].stage = "answered" => call[q].stage = "answered"
  BY <1>3 DEF Goto, WriterInv, WriterTypes
<1>4. ASSUME NEW stage, stage # "answered", Leave(r, stage)
      PROVE  \A q \in Request : call'[q].stage = "answered" => call[q].stage = "answered"
  BY <1>2, <1>4 DEF Leave
<1>5. ASSUME NEW o, Fetch(r, o)
      PROVE  \A q \in Request : call'[q].stage = "answered" => call[q].stage = "answered"
  BY <1>2, <1>5 DEF Fetch
<1>6. \A q \in Request : call'[q].stage = "answered" => call[q].stage = "answered"
  BY <1>3, <1>4, <1>5 DEF Asking, FetchOwner, CreateOwner, Admit, Clear, Put, TurnedAway, Expire
<1> QED BY <1>1, <1>6 DEF Quietly

LEMMA ServingQuietly ==
  ASSUME WriterInv, NEW o \in Owner, Serving(o) \/ Abort(o)
  PROVE  Quietly
<1>1. ASSUME NEW r \in Request, call'[r].stage = "answered" PROVE call[r].stage = "answered"
  <2>1. CASE call' = call
    BY <1>1, <2>1
  <2>2. CASE ThreadFails(o)
    BY <1>1, <2>2 DEF ThreadFails
  <2> QED BY <2>1, <2>2 DEF Serving, StartServing, Retire, CloseRaises, TakeJob, RefuseJob,
                            EndThread, Abort, Reach
<1>2. CASE job' = job
  BY <1>1, <1>2 DEF Quietly
<1>3. CASE TakeJob(o)
  BY <1>1, <1>3 DEF Quietly, TakeJob, HasNext, WriterInv, WriterTypes
<1>4. CASE Abort(o)
  BY <1>1, <1>4 DEF Quietly, Abort, Reach, WriterInv, WriterTypes
<1>5. job' = job \/ TakeJob(o) \/ Abort(o)
  BY DEF Serving, StartServing, ThreadFails, Retire, CloseRaises, RefuseJob, EndThread
<1> QED BY <1>2, <1>3, <1>4, <1>5

LEMMA ClosingQuietly ==
  ASSUME NEW p \in Proc, CloseOwner(p) \/ Joined(p)
  PROVE  Quietly
BY DEF CloseOwner, Joined, Quietly

LEMMA QuietStep ==
  ASSUME CaptureInv, WriterInv', Quietly, Unrecorded
  PROVE  CaptureInv'
<1>1. CaptureTypes'
  BY DEF CaptureInv, CaptureTypes, Unrecorded
<1>2. ASSUME NEW o \in Owner PROVE Replaying(o)'
  <2>1. Replaying(o) /\ replay'[o] = replay[o] /\ booked' = booked
    BY DEF CaptureInv, Unrecorded
  <2>2. CASE job'[o] = job[o]
    BY <2>1, <2>2 DEF Replaying, Writes
  <2>3. CASE job'[o].stage # "committed" /\ job'[o].by = job[o].by
    BY <2>1, <2>3 DEF Replaying
  <2>4. CASE job'[o].stage # "committed" /\ job[o] = NoJob
    BY <2>1, <2>4, Kinds DEF Replaying, NoJob
  <2> QED BY <2>2, <2>3, <2>4 DEF Quietly
<1>3. HoldsCurrent'
  BY HoldsLess DEF CaptureInv, Unrecorded
<1>4. NothingLost'
  BY Kinds DEF CaptureInv, NothingLost, InSpool, Unrecorded, Quietly, At
<1> QED BY <1>1, <1>2, <1>3, <1>4 DEF CaptureInv

-----------------------------------------------------------------------------
(* The steps of a job.                                                     *)

LEMMA CommitJobStep ==
  ASSUME CaptureInv, NEW o \in Owner, CommitJob(o)
  PROVE  CaptureInv'
<1>1. WriterInv'
  BY CommitAbortStep DEF CaptureInv, CommitJob
<1>2. /\ job' = [job EXCEPT ![o].stage = "committed"] /\ call' = call
      /\ booked' = Recorded(Writes(o)) /\ UNCHANGED <<capture, spool, replay>>
  BY DEF CommitJob, Commit, Reach
<1>3. /\ \A c \in Charge : booked'[c] \in Nat /\ booked'[c] >= booked[c]
      /\ \A c \in Charge : c \in Writes(o) => booked'[c] > 0
      /\ booked' \in [Charge -> Nat]
  BY <1>2 DEF Recorded, CaptureInv, CaptureTypes
<1>4. CaptureTypes'
  BY <1>2, <1>3 DEF CaptureInv, CaptureTypes
<1>5. ASSUME NEW u \in Owner PROVE Writes(u) \subseteq Charge
  <2>1. replay[u] \in Replay
    BY DEF CaptureInv, CaptureTypes
  <2>2. ASSUME NEW e \in replay[u].good PROVE e.line.of \in Charge
    BY <2>1, <2>2 DEF Replay, Entry, Line
  <2> QED BY <2>2 DEF Writes
<1>6. ASSUME NEW u \in Owner PROVE Replaying(u)'
  <2>1. /\ Replaying(u) /\ replay'[u] = replay[u] /\ job'[u].by = job[u].by
        /\ u # o => job'[u] = job[u]
    BY <1>2 DEF CaptureInv, WriterInv, WriterTypes
  <2>2. Writes(u)' = Writes(u)
    BY <2>1 DEF Writes
  <2>3. CASE u = o
    BY <1>3, <1>5, <2>1, <2>2, <2>3 DEF Replaying
  <2>4. CASE u # o
    <3>1. ASSUME job[u].by # None, job[u].stage = "committed", NEW c \in Writes(u)
          PROVE  booked'[c] > 0
      <4>1. booked[c] > 0 /\ c \in Charge /\ booked[c] \in Nat
        BY <1>5, <2>1, <3>1 DEF Replaying, CaptureInv, CaptureTypes
      <4> QED BY <1>3, <4>1
    <3> QED BY <2>1, <2>2, <2>4, <3>1 DEF Replaying
  <2> QED BY <2>3, <2>4
<1>7. HoldsCurrent'
  BY <1>2, HoldsLess DEF CaptureInv
<1>8. NothingLost'
  <2>1. ASSUME NEW c \in Charge, booked[c] > 0 PROVE booked'[c] > 0
    BY <1>3, <2>1 DEF CaptureInv, CaptureTypes
  <2> QED BY <1>2, <2>1 DEF NothingLost, CaptureInv, InSpool, At
<1> QED BY <1>1, <1>4, <1>6, <1>7, <1>8 DEF CaptureInv

LEMMA ReportJobStep ==
  ASSUME CaptureInv, NEW o \in Owner, ReportJob(o)
  PROVE  CaptureInv'
<1>1. WriterInv'
  BY ReportStep DEF CaptureInv, ReportJob
<1>2. /\ job' = [job EXCEPT ![o] = NoJob] /\ UNCHANGED <<booked, capture, spool>>
      /\ replay' = [replay EXCEPT ![o] = NoReplay]
  BY DEF ReportJob, Report
<1>3. CaptureTypes'
  BY <1>2, NoReplayType DEF CaptureInv, CaptureTypes
<1>4. ASSUME NEW u \in Owner PROVE Replaying(u)'
  <2>1. CASE u = o
    BY <1>2, <2>1, NoReplayType DEF Replaying, CaptureInv, CaptureTypes, WriterInv, WriterTypes, NoJob
  <2>2. CASE u # o
    BY <1>2, <2>2 DEF Replaying, Writes, CaptureInv, CaptureTypes, WriterInv, WriterTypes
  <2> QED BY <2>1, <2>2
<1>5. ASSUME NEW c \in Charge, call'[c].stage = "answered" PROVE booked[c] > 0
  <2>1. CASE call[c].stage = "answered"
    BY <2>1 DEF CaptureInv, NothingLost, At
  <2>2. CASE call[c].stage # "answered"
    <3>1. c = job[o].by /\ job[o].stage = "committed"
      BY <1>5, <2>2, Kinds DEF ReportJob, Report, Leave, CaptureInv, WriterInv, WriterTypes
    <3>2. c \in Writes(o) /\ c # None
      BY <3>1, Kinds DEF Writes
    <3> QED BY <3>1, <3>2 DEF CaptureInv, Replaying
  <2> QED BY <2>1, <2>2
<1>6. NothingLost'
  BY <1>2, <1>5 DEF CaptureInv, NothingLost, InSpool, At
<1>7. HoldsCurrent'
  BY <1>2, HoldsLess DEF CaptureInv, CaptureTypes
<1> QED BY <1>1, <1>3, <1>4, <1>6, <1>7 DEF CaptureInv

LEMMA RehearseStep ==
  ASSUME CaptureInv, NEW o \in Owner, Rehearse(o)
  PROVE  CaptureInv'
<1>1. WriterInv' /\ UNCHANGED <<booked, capture, spool, call, job>>
  BY WriterStays DEF Rehearse, CaptureInv, writerVars, owners
<1>2. PICK good \in SUBSET Eligible, bad \in SUBSET Eligible :
        replay' = [replay EXCEPT ![o] = [ read |-> spool, good |-> good, bad |-> bad,
                                          left |-> {s \in Spool : spool[s] # {}} ]]
  BY DEF Rehearse
<1>3. Eligible \subseteq Entry /\ \A e \in Eligible : e.line.tries < RetryLimit
  BY DEF Eligible, Entry, CaptureInv, CaptureTypes
<1>4. [ read |-> spool, good |-> good, bad |-> bad, left |-> {s \in Spool : spool[s] # {}} ]
        \in Replay
  BY <1>3 DEF Replay, CaptureInv, CaptureTypes
<1>5. CaptureTypes'
  BY <1>1, <1>2, <1>4 DEF CaptureInv, CaptureTypes
<1>6. ASSUME NEW u \in Owner PROVE Replaying(u)'
  <2>1. CASE u = o
    BY <1>1, <1>2, <1>3, <2>1 DEF Replaying, Rehearse, Working, CaptureInv, CaptureTypes
  <2>2. CASE u # o
    BY <1>1, <1>2, <2>2 DEF Replaying, Writes, CaptureInv, CaptureTypes
  <2> QED BY <2>1, <2>2
<1>7. NothingLost'
  BY <1>1 DEF CaptureInv, NothingLost, InSpool, At
<1>8. HoldsCurrent'
  <2>1. /\ \A u \in Owner : u # o => replay'[u] = replay[u] /\ replay[u].left \cap Spool = {}
        /\ replay'[o].read = spool /\ replay'[o].left \subseteq Spool
        /\ \A u \in Owner : replay[u].left \subseteq Spool
    BY <1>2 DEF Rehearse, Locked, CaptureInv, CaptureTypes, Replay
  <2> QED BY <1>1, <2>1 DEF HoldsCurrent
<1> QED BY <1>1, <1>5, <1>6, <1>7, <1>8 DEF CaptureInv

(* A line leaves a spool replaced by its next try, or booked.              *)
LEMMA RemainingKeeps ==
  ASSUME CaptureInv, NEW o \in Owner, NEW s \in Spool, ReplaceSpool(o, s)
  PROVE  /\ Remaining(o, s) \subseteq Line
         /\ \A l \in spool[s] : booked[l.of] > 0 \/ \E m \in Remaining(o, s) : m.of = l.of
<1> DEFINE good == IF job[o].stage = "committed" THEN Lines(replay[o].good, s) ELSE {}
           bad == Lines(replay[o].bad, s)
<1>1. /\ replay[o] \in Replay /\ replay[o] # NoReplay /\ job[o].by \in Drainer
      /\ spool[s] \subseteq Line /\ Replaying(o) /\ RetryLimit \in Nat
  BY NoReplayType, LimitAssumption DEF ReplaceSpool, CaptureInv, CaptureTypes, Replaying
<1>2. bad \subseteq Line /\ \A l \in bad : l.tries < RetryLimit
  BY <1>1 DEF Replay, Entry, Lines, Replaying
<1>3. \A l \in good : booked[l.of] > 0
  BY <1>1, Kinds DEF Replaying, Writes, Lines
<1>4. \A l \in bad : /\ [l EXCEPT !.tries = @ + 1] \in Line
                     /\ [l EXCEPT !.tries = @ + 1].of = l.of
  BY <1>1, <1>2 DEF Line
<1> HIDE DEF good, bad
<1>7. replay[o].read[s] = spool[s]
  BY DEF ReplaceSpool, CaptureInv, HoldsCurrent
<1>5. Remaining(o, s) = (spool[s] \ (good \cup bad)) \cup Tried(bad)
  BY <1>7 DEF Remaining, Kept, good, bad
<1>6. Tried(bad) \subseteq Line /\ \A l \in bad : \E m \in Tried(bad) : m.of = l.of
  BY <1>4 DEF Tried
<1> QED BY <1>1, <1>3, <1>5, <1>6

LEMMA ReplaceSpoolStep ==
  ASSUME CaptureInv, NEW o \in Owner, NEW s \in Spool, ReplaceSpool(o, s)
  PROVE  CaptureInv' /\ \A c \in Charge : InSpool(c) /\ ~InSpool(c)' => booked[c] > 0
<1>1. WriterInv' /\ UNCHANGED <<booked, capture, call, job>>
  BY WriterStays DEF ReplaceSpool, CaptureInv, writerVars, owners
<1>2. /\ spool' = [spool EXCEPT ![s] = Remaining(o, s)]
      /\ replay' = [replay EXCEPT ![o] = IF @.left = {s} THEN NoReplay ELSE Replaced(o, s)]
  BY DEF ReplaceSpool
<1>3. /\ Replaced(o, s) \in Replay /\ Replaced(o, s).good = replay[o].good
      /\ Replaced(o, s).bad = replay[o].bad /\ Replaced(o, s).left = replay[o].left \ {s}
      /\ \A t \in Spool \ {s} : Replaced(o, s).read[t] = replay[o].read[t]
  BY DEF Replaced, CaptureInv, CaptureTypes, Replay
<1>4. CaptureTypes'
  BY <1>1, <1>2, <1>3, NoReplayType, RemainingKeeps DEF CaptureInv, CaptureTypes
<1>5. ASSUME NEW u \in Owner PROVE Replaying(u)'
  <2>0. Replaying(u) /\ replay[u] \in Replay
    BY DEF CaptureInv, CaptureTypes
  <2>1. CASE u = o /\ replay'[u] = NoReplay
    BY <1>1, <2>0, <2>1, NoReplayType DEF Replaying, Writes
  <2>2. CASE u = o /\ replay'[u] = Replaced(o, s)
    <3>1. replay[o] # NoReplay
      BY NoReplayType DEF ReplaceSpool
    <3> QED BY <1>1, <1>3, <2>0, <2>2, <3>1 DEF Replaying, Writes
  <2>3. CASE u # o
    BY <1>1, <1>2, <2>0, <2>3 DEF Replaying, Writes, CaptureInv, CaptureTypes
  <2> QED BY <1>2, <2>1, <2>2, <2>3 DEF CaptureInv, CaptureTypes
<1>6. \A c \in Charge : InSpool(c) => booked[c] > 0 \/ InSpool(c)'
  BY <1>2, RemainingKeeps DEF InSpool, CaptureInv, CaptureTypes
<1>7. NothingLost'
  BY <1>1, <1>6 DEF CaptureInv, NothingLost, At
<1>8. HoldsCurrent'
  <2>1. s \in replay[o].left /\ HoldsCurrent /\ \A u \in Owner : replay[u].left \subseteq Spool
    BY DEF ReplaceSpool, CaptureInv, CaptureTypes, Replay
  <2>2. /\ \A t \in Spool : t # s => spool'[t] = spool[t]
        /\ \A u \in Owner : u # o => replay'[u] = replay[u]
        /\ \A t \in replay'[o].left : /\ t # s /\ t \in replay[o].left
                                       /\ replay'[o].read[t] = replay[o].read[t]
    BY <1>2, <1>3, <2>1, NoReplayType DEF CaptureInv, CaptureTypes
  <2>3. \A u \in Owner : u # o => s \notin replay[u].left
    BY <2>1 DEF HoldsCurrent
  <2> QED BY <2>1, <2>2, <2>3 DEF HoldsCurrent
<1> QED BY <1>1, <1>4, <1>5, <1>6, <1>7, <1>8 DEF CaptureInv

-----------------------------------------------------------------------------
(* The steps of a caller, of a drain service, and the death of a process.  *)

LEMMA AppendedLine ==
  ASSUME CaptureInv, NEW c \in Charge, NEW s \in Spool, Appended(c, s)
  PROVE  /\ spool' \in [Spool -> SUBSET Line] /\ InSpool(c)'
         /\ \A d \in Charge : InSpool(d) => InSpool(d)'
<1>1. [of |-> c, tries |-> 0] \in Line
  BY LimitAssumption DEF Line
<1>2. \A t \in Spool : spool[t] \subseteq spool'[t]
  BY DEF Appended, CaptureInv, CaptureTypes
<1>3. [of |-> c, tries |-> 0] \in spool'[s]
  BY DEF Appended, CaptureInv, CaptureTypes
<1>4. spool' \in [Spool -> SUBSET Line]
  BY <1>1 DEF Appended, CaptureInv, CaptureTypes
<1> QED BY <1>2, <1>3, <1>4 DEF InSpool

LEMMA SpoolToStep ==
  ASSUME CaptureInv, NEW c \in Charge, NEW s \in Spool, NEW onFailure \in Captured \ {"spooled"},
         SpoolTo(c, s, onFailure)
  PROVE  CaptureInv' /\ \A d \in Charge : InSpool(d) => InSpool(d)'
<1>1. UNCHANGED <<call, registry, thread, retired, handle, jobs, job, lease, closer, booked, replay>>
  BY DEF SpoolTo, writerVars, owners
<1>2. WriterInv'
  BY <1>1, WriterStays DEF CaptureInv, writerVars, owners
<1>3. /\ spool' \in [Spool -> SUBSET Line] /\ \A d \in Charge : InSpool(d) => InSpool(d)'
      /\ capture' \in [Charge -> Captured] /\ \A d \in Charge : d # c => capture'[d] = capture[d]
      /\ capture'[c] = "spooled" => InSpool(c)'
  <2>1. CASE Appended(c, s) /\ capture' = [capture EXCEPT ![c] = "spooled"]
    BY <2>1, AppendedLine DEF CaptureInv, CaptureTypes, Captured
  <2>2. CASE Appended(c, s) /\ capture' = [capture EXCEPT ![c] = onFailure]
    BY <2>2, AppendedLine DEF CaptureInv, CaptureTypes
  <2>3. CASE UNCHANGED spool /\ capture' = [capture EXCEPT ![c] = onFailure]
    BY <2>3 DEF CaptureInv, CaptureTypes, InSpool
  <2> QED BY <2>1, <2>2, <2>3 DEF SpoolTo
<1>4. \A o \in Owner : Replaying(o)'
  BY <1>1 DEF CaptureInv, Replaying, Writes
<1>5. NothingLost'
  BY <1>1, <1>3 DEF CaptureInv, NothingLost, At
<1>6. HoldsCurrent'
  <2>1. \A t \in Spool : t # s => spool'[t] = spool[t]
    BY DEF SpoolTo, Appended, CaptureInv, CaptureTypes
  <2>2. \A o \in Owner : s \notin replay[o].left /\ replay[o].left \subseteq Spool
    BY DEF SpoolTo, Locked, CaptureInv, CaptureTypes, Replay
  <2> QED BY <1>1, <2>1, <2>2 DEF HoldsCurrent, CaptureInv
<1> QED BY <1>1, <1>2, <1>3, <1>4, <1>5, <1>6 DEF CaptureInv, CaptureTypes

LEMMA CaptureStep ==
  ASSUME CaptureInv, NEW c \in Charge, Capture(c)
  PROVE  CaptureInv' /\ \A d \in Charge : InSpool(d) => InSpool(d)'
BY SpoolToStep DEF Capture, Spool, Captured

LEMMA DrainAgainStep ==
  ASSUME CaptureInv, NEW d \in Drainer, DrainAgain(d)
  PROVE  CaptureInv'
<1>1. WriterInv' /\ Quietly /\ Unrecorded
  <2>1. Leave(d, "new") /\ UNCHANGED owners /\ d \in Request
    BY Kinds DEF DrainAgain
  <2>2. WriterInv'
    BY <2>1, LeaveStep DEF CaptureInv
  <2>3. Quietly
    BY <2>1 DEF Quietly, Leave, owners, CaptureInv, WriterInv, WriterTypes
  <2> QED BY <2>2, <2>3 DEF DrainAgain, Unrecorded
<1> QED BY <1>1, QuietStep

LEMMA DieStep ==
  ASSUME CaptureInv, NEW p \in Proc, Die(p)
  PROVE  CaptureInv'
<1>1. WriterInv'
  BY KillStep DEF CaptureInv, Die
<1>2. /\ UNCHANGED <<booked, spool>>
      /\ \A c \in Charge : capture'[c] = capture[c] \/ capture'[c] = "unsaved"
      /\ capture' \in [Charge -> Captured]
      /\ \A o \in Owner : IF o[1] = p THEN replay'[o] = NoReplay /\ job'[o] = NoJob
                                      ELSE replay'[o] = replay[o] /\ job'[o] = job[o]
      /\ replay' \in [Owner -> Replay]
  BY NoReplayType DEF Die, Kill, CaptureInv, CaptureTypes, Captured
<1>3. \A c \in Charge : call'[c].stage = "answered" => call[c].stage = "answered"
  BY Kinds DEF Die, Kill
<1>4. CaptureTypes'
  BY <1>2 DEF CaptureInv, CaptureTypes
<1>5. ASSUME NEW o \in Owner PROVE Replaying(o)'
  BY <1>2, NoReplayType DEF CaptureInv, Replaying, Writes, NoJob
<1>6. NothingLost'
  BY <1>2, <1>3 DEF CaptureInv, NothingLost, InSpool, At
<1>7. HoldsCurrent'
  BY <1>2, HoldsLess DEF CaptureInv
<1> QED BY <1>1, <1>4, <1>5, <1>6, <1>7 DEF CaptureInv

-----------------------------------------------------------------------------
(* The invariant, and the properties of the run.                           *)

LEMMA UnrecordedStep ==
  ASSUME CaptureInv, Unrecorded,
         \/ \E r \in Request : Asking(r)
         \/ \E o \in Owner : Serving(o) \/ Abort(o)
         \/ \E p \in Proc : CloseOwner(p) \/ Joined(p)
  PROVE  CaptureInv'
<1> USE DEF CaptureInv
<1>1. ASSUME NEW r \in Request, Asking(r) PROVE CaptureInv'
  BY <1>1, AskingStep, AskingQuietly, QuietStep
<1>2. ASSUME NEW o \in Owner, Serving(o) \/ Abort(o) PROVE CaptureInv'
  BY <1>2, ServingStep, CommitAbortStep, ServingQuietly, QuietStep
<1>3. ASSUME NEW p \in Proc, CloseOwner(p) \/ Joined(p) PROVE CaptureInv'
  BY <1>3, CloseOwnerStep, JoinedStep, ClosingQuietly, QuietStep
<1> QED BY <1>1, <1>2, <1>3

LEMMA CaptureInvStep ==
  ASSUME CaptureInv, [CaptureNext]_captureVars
  PROVE  CaptureInv' /\ \A c \in Charge : InSpool(c) /\ ~InSpool(c)' => booked[c] > 0
<1>1. CASE UNCHANGED spool
  <2>1. \A c \in Charge : InSpool(c) => InSpool(c)'
    BY <1>1 DEF InSpool
  <2>2. CASE UNCHANGED captureVars
    <3>1. WriterInv' /\ Quietly /\ Unrecorded
      BY <2>2, WriterStays DEF captureVars, writerVars, owners, Quietly, Unrecorded, CaptureInv
    <3> QED BY <2>1, <3>1, QuietStep
  <2>3. CASE CaptureNext
    BY <2>1, <2>3, UnrecordedStep, CommitJobStep, ReportJobStep, RehearseStep, ReplaceSpoolStep,
       CaptureStep, DrainAgainStep, DieStep DEF CaptureNext
  <2> QED BY <2>2, <2>3
<1>2. CASE ~UNCHANGED spool
  <2>1. (\E o \in Owner, s \in Spool : ReplaceSpool(o, s)) \/ \E c \in Charge : Capture(c)
    BY <1>2 DEF CaptureNext, captureVars, Unrecorded, CommitJob, ReportJob, Rehearse, DrainAgain, Die
  <2> QED BY <2>1, ReplaceSpoolStep, CaptureStep
<1> QED BY <1>1, <1>2

LEMMA CaptureInvInit == CaptureInit => CaptureInv
<1> SUFFICES ASSUME CaptureInit PROVE CaptureInv
  OBVIOUS
<1>1. WriterInv
  BY WriterInitInv DEF CaptureInit
<1>2. CaptureTypes
  BY NoReplayType DEF CaptureInit, CaptureTypes, Captured
<1>3. \A o \in Owner : Replaying(o)
  BY NoReplayType DEF CaptureInit, WriterInit, Replaying, NoJob
<1>4. HoldsCurrent /\ NothingLost
  BY Kinds, NoReplayType DEF CaptureInit, WriterInit, HoldsCurrent, NothingLost, At
<1> QED BY <1>1, <1>2, <1>3, <1>4 DEF CaptureInv

LEMMA CaptureInvHolds == CaptureSpec => []CaptureInv
<1> QED BY CaptureInvInit, CaptureInvStep, PTL DEF CaptureSpec

(* Every variable has its type; in particular a spooled line is never      *)
(* tried more often than the retry limit.                                  *)
THEOREM CaptureTypeCorrect == CaptureSpec => []CaptureTypeOK
<1>1. CaptureInv => CaptureTypeOK
  BY DEF CaptureInv, CaptureTypes, CaptureTypeOK, WriterInv, WriterTypes
<1> QED BY CaptureInvHolds, <1>1, PTL

(* What a drain writes back over a spool is made of the lines the spool    *)
(* still has: no charge is spooled between its reading and its writing,    *)
(* and no other drain replaces the spool meanwhile, so the lines of a      *)
(* charge that fails while the spools are drained are not overwritten.     *)
THEOREM DrainsAreCurrent == CaptureSpec => []HoldsCurrent
<1>1. CaptureInv => HoldsCurrent
  BY DEF CaptureInv
<1> QED BY CaptureInvHolds, <1>1, PTL

(* A charge whose caller was answered is booked, one whose caller was told *)
(* it is queued is booked or in a spool.                                   *)
THEOREM ChargesKept == CaptureSpec => []NothingLost
<1>1. CaptureInv => NothingLost
  BY DEF CaptureInv
<1> QED BY CaptureInvHolds, <1>1, PTL

(* A drain takes a charge off the spools only when it is booked.           *)
THEOREM SpoolsAreEvidence == CaptureSpec => EvidenceKept
<1>1. CaptureInv /\ [CaptureNext]_captureVars
        => [\A c \in Charge : InSpool(c) /\ ~InSpool(c)' => booked[c] > 0]_captureVars
  BY CaptureInvStep
<1> QED BY CaptureInvHolds, <1>1, PTL DEF CaptureSpec, EvidenceKept

(* A request with its owner's admission is served by a thread that is      *)
(* there, or was lost to an exception: no idle retirement and no close     *)
(* overtakes it.                                                           *)
THEOREM NobodyLeftBehind == CaptureSpec => []NeverLeftBehind
<1>1. CaptureInv => NeverLeftBehind
  <2> SUFFICES ASSUME WriterInv, NEW r \in Request, call[r].of # None
               PROVE  LET o == call[r].of IN
                      /\ At(r, "admitted") \/ At(r, "cleared")
                           => thread[o] \notin {"none", "ended"} /\ ~retired[o]
                      /\ At(r, "waiting") =>
                           /\ ~retired[o]
                           /\ \/ thread[o] = "failed"
                              \/ thread[o] = "serving" /\ job[o].by = r
                              \/ Alive(o) /\ \E i \in 1 .. Len(jobs[o]) :
                                   jobs[o][i] = r /\ \A k \in 1 .. i : jobs[o][k] # None
    BY DEF CaptureInv, NeverLeftBehind
  <2> DEFINE o == call[r].of
  <2>1. o \in Owner /\ o[1] = ProcOf[r] /\ thread[o] # "none" /\ jobs[o] \in Seq(Request \cup {None})
    BY DEF WriterInv, WriterTypes, Home
  <2>2. ASSUME At(r, "admitted") \/ At(r, "cleared") \/ At(r, "waiting")
        PROVE  ~retired[o] /\ thread[o] # "ended" /\ ~In(jobs[o], None)
    BY <2>1, <2>2 DEF WriterInv, Admitting, Ending, At
  <2>3. At(r, "waiting") => \/ thread[o] = "failed"
                            \/ thread[o] = "serving" /\ job[o].by = r
                            \/ Alive(o) /\ In(jobs[o], r)
    BY DEF WriterInv, Served
  <2>4. ASSUME At(r, "waiting"), In(jobs[o], r)
        PROVE  \E i \in 1 .. Len(jobs[o]) : jobs[o][i] = r /\ \A k \in 1 .. i : jobs[o][k] # None
    <3>1. PICK i \in 1 .. Len(jobs[o]) : jobs[o][i] = r
      BY <2>4 DEF In
    <3>2. Len(jobs[o]) \in Nat
      BY <2>1
    <3> QED BY <2>2, <2>4, <3>1, <3>2 DEF In
  <2> QED BY <2>1, <2>2, <2>3, <2>4
<1> QED BY CaptureInvHolds, <1>1, PTL

(* A connection off the registry has a sentinel ahead that closes it.      *)
THEOREM HandlesAreClosed == CaptureSpec => []HandlesEnd
<1>1. CaptureInv => HandlesEnd
  BY DEF CaptureInv, WriterInv, Ending, Alive, HandlesEnd, In
<1> QED BY CaptureInvHolds, <1>1, PTL
=============================================================================
