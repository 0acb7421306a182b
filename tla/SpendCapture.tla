---------------------------- MODULE SpendCapture ----------------------------
(***************************************************************************)
(* How a charge gets into the ledger (budget._record_spend_event and       *)
(* ledger_deadletter.py), on top of the ledger's writer.  A charge is      *)
(* written by a request of its own.  When that request fails, the whole    *)
(* event is appended to a retry spool on disk: the home spool, or the      *)
(* emergency spool if that fails.  A drain is a request whose job replays  *)
(* every line of the spools in one transaction, commits, and then replaces *)
(* the spools by the lines that remain.  Any process may die between any   *)
(* two steps.                                                              *)
(*                                                                         *)
(* The text of a line is its charge and its number of tries; the event's   *)
(* id is derived from its dedup key, so the charge is its own id.  Lines   *)
(* that are not JSON, and events older than the dedup key, are left out.   *)
(***************************************************************************)
EXTENDS LedgerWriter, FiniteSets

CONSTANTS
  Charge,        \* requests that book one charge each
  Drainer,       \* services that drain the spools again and again
  RetryLimit     \* ledger.deadletter_retry_limit

ASSUME CaptureAssumption == Request = Charge \cup Drainer /\ Charge \cap Drainer = {}
ASSUME LimitAssumption == RetryLimit \in Nat \ {0}

VARIABLES
  booked,    \* rows of spend_events with the charge's id
  capture,   \* what became of a write that failed; "unsaved" if the error was raised
             \* or the process died first
  spool,     \* lines of each spool
  replay     \* the drain an owner's job is in the middle of

captureVars == <<writerVars, booked, capture, spool, replay>>

Spool == {"home", "emergency"}                   \* spend_event_retry_paths
Line == [ of : Charge, tries : 0 .. RetryLimit ]
Captured == {"no", "home failed", "spooled", "unsaved"}

(* The lines a drain read, the entries it replayed and those that failed,  *)
(* and the spools it holds and has yet to replace.                         *)
Entry == [ in : Spool, line : Line ]
Replay == [ read : [Spool -> SUBSET Line], good : SUBSET Entry, bad : SUBSET Entry,
            left : SUBSET Spool ]
NoReplay == [ read |-> [s \in Spool |-> {}], good |-> {}, bad |-> {}, left |-> {} ]

CaptureInit ==
  /\ WriterInit
  /\ booked = [c \in Charge |-> 0] /\ capture = [c \in Charge |-> "no"]
  /\ spool = [s \in Spool |-> {}]
  /\ replay = [o \in Owner |-> NoReplay]

-----------------------------------------------------------------------------
(* Capturing one charge.                                                   *)

(* A drain holds the lock of every spool until its job is over.            *)
Locked(s) == \E o \in Owner : s \in replay[o].left

Appended(c, s) == spool' = [spool EXCEPT ![s] = @ \cup {[of |-> c, tries |-> 0]}]

(* append_spend_deadletter_event may fail after the line reached the file. *)
SpoolTo(c, s, onFailure) ==
  /\ ~Locked(s)
  /\ \/ Appended(c, s) /\ capture' = [capture EXCEPT ![c] = "spooled"]
     \/ Appended(c, s) /\ capture' = [capture EXCEPT ![c] = onFailure]
     \/ UNCHANGED spool /\ capture' = [capture EXCEPT ![c] = onFailure]
  /\ UNCHANGED <<writerVars, booked, replay>>

Capture(c) ==
  /\ At(c, "failed")
  /\ \/ capture[c] = "no" /\ SpoolTo(c, "home", "home failed")
     \/ capture[c] = "home failed" /\ SpoolTo(c, "emergency", "unsaved")

-----------------------------------------------------------------------------
(* The writer's jobs.                                                      *)

(* record_event: a row whose id is there already is not inserted.          *)
Recorded(S) == [c \in Charge |-> IF c \in S /\ booked[c] = 0 THEN 1 ELSE booked[c]]

Lines(E, s) == {e.line : e \in {d \in E : d.in = s}}
Tried(L) == {[l EXCEPT !.tries = @ + 1] : l \in L}

(* Mutant: what was not reached is dropped with the replayed.              *)
KeptFailedOnly(L, good, bad) == Tried(bad)

(* What stays in a spool when the lines in good were replayed, those in    *)
(* bad failed, and the others were exhausted or not reached.               *)
Kept(L, good, bad) == (L \ (good \cup bad)) \cup Tried(bad)

(* Mutant: exhausted lines are tried again.                                *)
EligibleAlways == UNION {{[in |-> s, line |-> l] : l \in spool[s]} : s \in Spool}

Eligible ==
  UNION {{[in |-> s, line |-> l] : l \in {m \in spool[s] : m.tries < RetryLimit}} : s \in Spool}

(* stage_and_commit_spend_deadletters up to its commit.                    *)
Rehearse(o) ==
  /\ Working(o, "begun") /\ job[o].by \in Drainer
  /\ replay[o] = NoReplay /\ \A s \in Spool : ~Locked(s)
  /\ \E good \in SUBSET Eligible : \E bad \in SUBSET (Eligible \ good) :
       replay' = [replay EXCEPT ![o] = [ read |-> spool, good |-> good, bad |-> bad,
                                         left |-> {s \in Spool : spool[s] # {}} ]]
  /\ UNCHANGED <<writerVars, booked, capture, spool>>

Writes(o) == IF job[o].by \in Charge THEN {job[o].by} ELSE {e.line.of : e \in replay[o].good}

CommitJob(o) ==
  /\ Commit(o)
  /\ booked' = Recorded(Writes(o))
  /\ UNCHANGED <<capture, spool, replay>>

(* Mutant: the replayed lines are taken off although the commit failed.    *)
RemainingAlways(o, s) == Kept(replay[o].read[s], Lines(replay[o].good, s), Lines(replay[o].bad, s))

(* What is written back comes from the lines that were read.  After a      *)
(* rollback the failed tries still count.                                  *)
Remaining(o, s) ==
  Kept(replay[o].read[s], IF job[o].stage = "committed" THEN Lines(replay[o].good, s) ELSE {},
       Lines(replay[o].bad, s))

Replaced(o, s) == [replay[o] EXCEPT !.left = @ \ {s}, !.read[s] = {}]

ReplaceSpool(o, s) ==
  /\ Working(o, "committed") \/ Working(o, "aborted")
  /\ s \in replay[o].left /\ (s = "emergency" => "home" \notin replay[o].left)
  /\ spool' = [spool EXCEPT ![s] = Remaining(o, s)]
  /\ replay' = [replay EXCEPT ![o] = IF @.left = {s} THEN NoReplay ELSE Replaced(o, s)]
  /\ UNCHANGED <<writerVars, booked, capture>>

(* The job ends, having replaced its spools or failed to.                  *)
ReportJob(o) ==
  /\ Report(o)
  /\ replay' = [replay EXCEPT ![o] = NoReplay]
  /\ UNCHANGED <<booked, capture, spool>>

DrainAgain(d) ==
  /\ call[d].stage \in Over
  /\ \A o \in Owner : job[o].by # d /\ \A i \in 1 .. Len(jobs[o]) : jobs[o][i] # d
  /\ Leave(d, "new")
  /\ UNCHANGED <<owners, booked, capture, spool, replay>>

(* A process dies, and with it the charges it was about to write or spool. *)
Die(p) ==
  /\ Kill(p)
  /\ capture' = [c \in Charge |->
       IF ProcOf[c] = p /\ call'[c].stage = "failed" /\ capture[c] \in {"no", "home failed"}
         THEN "unsaved" ELSE capture[c]]
  /\ replay' = [o \in Owner |-> IF o[1] = p THEN NoReplay ELSE replay[o]]
  /\ UNCHANGED <<booked, spool>>

Unrecorded == UNCHANGED <<booked, capture, spool, replay>>

CaptureNext ==
  \/ \E r \in Request : Asking(r) /\ Unrecorded
  \/ \E o \in Owner :
       \/ (Serving(o) \/ Abort(o)) /\ Unrecorded
       \/ CommitJob(o) \/ ReportJob(o)
       \/ Rehearse(o) \/ \E s \in Spool : ReplaceSpool(o, s)
  \/ \E c \in Charge : Capture(c)
  \/ \E d \in Drainer : DrainAgain(d)
  \/ \E p \in Proc : ((CloseOwner(p) \/ Joined(p)) /\ Unrecorded) \/ Die(p)

CaptureSpec == CaptureInit /\ [][CaptureNext]_captureVars

-----------------------------------------------------------------------------
CaptureTypeOK ==
  /\ call \in [Request -> [stage : Stage, of : Owner \cup {None}]]
  /\ registry \in [Proc -> Owner \cup {None}]
  /\ thread \in [Owner -> Thread]
  /\ {retired, handle} \subseteq [Owner -> BOOLEAN]
  /\ \A o \in Owner : jobs[o] \in Seq(Request \cup {None})
  /\ job \in [Owner -> [by : Request \cup {None}, stage : JobStage]]
  /\ lease \in Owner \cup {None} /\ closer \in [Proc -> Owner \cup {None}]
  /\ booked \in [Charge -> Nat] /\ capture \in [Charge -> Captured]
  /\ spool \in [Spool -> SUBSET Line] /\ replay \in [Owner -> Replay]

InSpool(c) == \E s \in Spool : \E l \in spool[s] : l.of = c

(* A caller that was told its charge is recorded, or queued for retry, can *)
(* rely on it whatever dies afterwards.  (_record_spend_event: "if both    *)
(* destinations fail, raise rather than silently lose the charge")         *)
NothingLost ==
  \A c \in Charge :
    /\ At(c, "answered") => booked[c] > 0
    /\ capture[c] = "spooled" => booked[c] > 0 \/ InSpool(c)

(* No line leaves the spools before its charge is booked for good.         *)
(* (stage_and_commit_spend_deadletters, replace_spend_deadletter_spool)    *)
EvidenceKept == [][\A c \in Charge : InSpool(c) /\ ~InSpool(c)' => booked[c] > 0]_captureVars

(* A request that has its owner's admission is never left to a thread that *)
(* ended otherwise than by an exception: no owner retires, or is closed,   *)
(* under a request, and a queued job is ahead of any sentinel.             *)
(* (admit_live_ledger_writer, the idle branch, close_ledger_writers)       *)
NeverLeftBehind ==
  \A r \in Request : call[r].of # None =>
    LET o == call[r].of IN
    /\ At(r, "admitted") \/ At(r, "cleared") => thread[o] \notin {"none", "ended"} /\ ~retired[o]
    /\ At(r, "waiting") =>
         /\ ~retired[o]
         /\ \/ thread[o] = "failed"
            \/ thread[o] = "serving" /\ job[o].by = r
            \/ Alive(o) /\ \E i \in 1 .. Len(jobs[o]) :
                              jobs[o][i] = r /\ \A k \in 1 .. i : jobs[o][k] # None

(* An owner off the registry holds its connection only until it reaches    *)
(* the sentinel in its queue, so replacements do not pile up handles.      *)
HandlesEnd ==
  \A o \in Owner : handle[o] /\ registry[o[1]] # o => \E i \in 1 .. Len(jobs[o]) : jobs[o][i] = None
=============================================================================
