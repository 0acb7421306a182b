------------------------------ MODULE Governor ------------------------------
(***************************************************************************)
(* The dispatch governor (src/src/spendguard/dispatch.py) with the shared  *)
(* rate window (xp_rate_window.py): what a call to a vendor takes before   *)
(* it runs, in this order, and gives back when it ends or cannot be        *)
(* admitted: a permit of the process's global semaphore, a permit of the   *)
(* bucket of its key, a place in the rate window all processes share, a    *)
(* flock slot of the key, and a place in the learned connection window.    *)
(*                                                                         *)
(* One vendor that rides one subscription lane, in several processes.  A   *)
(* call's key is the lane's while the lane serves, the vendor's while the  *)
(* lane cools down or the call must be metered; the code reads it anew at  *)
(* every step that needs it.  Deadlines may pass at any moment, windows    *)
(* may move on at any moment.  Request and token pacing inside a bucket    *)
(* delays a call and changes nothing else, so it is part of the waiting.   *)
(* What one process learns about the vendor the others know at once (the   *)
(* code reads the shared file every 30 seconds).  The batch sub-limit of a *)
(* bucket is left out.                                                     *)
(***************************************************************************)
EXTENDS Naturals, FiniteSets

CONSTANTS
  Thread,        \* threads that make calls
  Proc, ProcOf,  \* processes, and the process of each thread
  SkipsOf,       \* the skip_lane arguments each thread calls with
  LaneLimit,     \* lane_concurrency
  VendorLimit,   \* vendor_concurrency
  GlobalLimit,   \* global_concurrency
  RateMax,       \* calls the shared rate window admits
  MaxTariff,     \* bound: how often a process learns another rpm or tpm
  MaxSpells      \* bound: how often the lane cools down

Key == {"lane", "vendor"}
Limit(k) == IF k = "lane" THEN LaneLimit ELSE VendorLimit
Tariff == 0 .. MaxTariff
Bucket == Key \X Tariff

ASSUME ThreadAssumption == ProcOf \in [Thread -> Proc] /\ SkipsOf \in [Thread -> SUBSET BOOLEAN]
ASSUME FiniteAssumption == IsFiniteSet(Thread) /\ IsFiniteSet(Proc)
ASSUME LimitAssumption == /\ {LaneLimit, VendorLimit, GlobalLimit, RateMax} \subseteq Nat \ {0}
                          /\ MaxTariff \in Nat /\ MaxSpells \in Nat

VARIABLES
  call,      \* what each thread is doing: see Call
  free,      \* permits of each bucket object
  global,    \* permits of the global semaphore
  holders,   \* the threads that hold a flock slot of each key
  conn,      \* _conn_inflight of the vendor key
  cap,       \* the learned connection cap (learned_limits.json), 0 if none
  tariff,    \* version of the learned rpm and tpm
  rate,      \* reservations in the current rate window
  cooling,   \* the lane is cooling down
  spells     \* how often it did, up to MaxSpells

Stage == {"idle", "asked", "keyed", "waiting", "bucketed", "rated",
          "slotted", "running", "leaving"}

(* Where acquire() is, whether the call skips the lane, whether admit()    *)
(* saw it serving, the key that was read, the bucket object waited on.     *)
Call == [ stage : Stage, metered : BOOLEAN, rode : BOOLEAN, key : Key, bucket : Bucket ]
NoBucket == <<"vendor", 0>>
NoCall == [ stage |-> "idle", metered |-> FALSE, rode |-> FALSE, key |-> "vendor",
            bucket |-> NoBucket ]

learned == <<cap, tariff>>
lane == <<cooling, spells>>
vars == <<call, free, global, holders, conn, cap,
          tariff, rate, cooling, spells>>

Of(p) == {t \in Thread : ProcOf[t] = p}
Full == [b \in Bucket |-> Limit(b[1])]

Init ==
  /\ call = [t \in Thread |-> NoCall]
  /\ free = [p \in Proc |-> Full] /\ global = [p \in Proc |-> GlobalLimit]
  /\ holders = [k \in Key |-> {}]
  /\ conn = [p \in Proc |-> 0] /\ cap = 0
  /\ tariff = 0 /\ rate = 0
  /\ cooling = FALSE /\ spells = 0

-----------------------------------------------------------------------------
(* _key_and_limit, and the bucket object _bucket has for the key now.      *)
KeyNow(t) == IF call[t].metered \/ cooling THEN "vendor" ELSE "lane"

BucketNow(t) == LET k == KeyNow(t) IN <<k, IF k = "lane" THEN 0 ELSE tariff>>

At(t, stage) == call[t].stage = stage
Goto(t, stage) == call' = [call EXCEPT ![t].stage = stage]

(* admit() or acquire(): the caller asks for the lane or for the vendor.   *)
Ask(t, skip) ==
  /\ At(t, "idle")
  /\ call' = [call EXCEPT ![t] = [NoCall EXCEPT !.stage = "asked", !.metered = skip,
                                                !.rode = ~skip /\ ~cooling]]
  /\ UNCHANGED <<free, global, holders, conn, learned, rate, lane>>

(* The global permit, and the key read with it in hand.                    *)
TakeGlobal(t) ==
  /\ At(t, "asked") /\ global[ProcOf[t]] > 0
  /\ global' = [global EXCEPT ![ProcOf[t]] = @ - 1]
  /\ call' = [call EXCEPT ![t].stage = "keyed", ![t].key = KeyNow(t)]
  /\ UNCHANGED <<free, holders, conn, learned, rate, lane>>

ChooseBucket(t) ==
  /\ At(t, "keyed")
  /\ call' = [call EXCEPT ![t].stage = "waiting", ![t].bucket = BucketNow(t)]
  /\ UNCHANGED <<free, global, holders, conn, learned, rate, lane>>

(* A lane's calls skip the rate window.                                    *)
TakePermit(t) ==
  /\ At(t, "waiting") /\ free[ProcOf[t]][call[t].bucket] > 0
  /\ free' = [free EXCEPT ![ProcOf[t]][call[t].bucket] = @ - 1]
  /\ call' = [call EXCEPT ![t].stage = IF call[t].key = "lane" THEN "rated" ELSE "bucketed",
                          ![t].bucket = NoBucket]
  /\ UNCHANGED <<global, holders, conn, learned, rate, lane>>

(* xp_rate_window.reserve: check and insert in one transaction.            *)
ReserveRate(t) ==
  /\ At(t, "bucketed") /\ rate < RateMax
  /\ rate' = rate + 1
  /\ Goto(t, "rated")
  /\ UNCHANGED <<free, global, holders, conn, learned, lane>>

WindowMoves ==
  /\ rate > 0
  /\ rate' = rate - 1
  /\ UNCHANGED <<call, free, global, holders, conn, learned, lane>>

(* Mutant: only the slots of this process count.                           *)
OwnSlotsFree(t, k) == Cardinality({u \in holders[k] : ProcOf[u] = ProcOf[t]}) < Limit(k)

(* _acquire_xp: one of the Limit(k) lock files is free.                    *)
SlotFree(t, k) == Cardinality(holders[k]) < Limit(k)

TakeSlot(t) ==
  /\ At(t, "rated") /\ SlotFree(t, call[t].key)
  /\ holders' = [holders EXCEPT ![call[t].key] = @ \cup {t}]
  /\ Goto(t, IF call[t].key = "lane" THEN "running" ELSE "slotted")
  /\ UNCHANGED <<free, global, conn, learned, rate, lane>>

WindowOpen(p) == cap = 0 \/ conn[p] < cap

(* _conn_admit, under the condition's lock.                                *)
JoinWindow(t) ==
  /\ At(t, "slotted") /\ WindowOpen(ProcOf[t])
  /\ conn' = [conn EXCEPT ![ProcOf[t]] = @ + 1]
  /\ Goto(t, "running")
  /\ UNCHANGED <<free, global, holders, learned, rate, lane>>

-----------------------------------------------------------------------------
(* Giving back.                                                            *)

(* Mutant: a plain semaphore.                                              *)
FreedUnbounded(t) == [free EXCEPT ![ProcOf[t]][BucketNow(t)] = @ + 1]

(* BoundedSemaphore: a release too many raises, and is swallowed.          *)
Freed(t) ==
  [free EXCEPT ![ProcOf[t]][BucketNow(t)] = IF @ < Limit(KeyNow(t)) THEN @ + 1 ELSE @]

(* Mutant: the slot is not unwound.                                        *)
SlotKept(t) == holders

(* The slot on the thread's stack; on the way out of a failed acquire(),   *)
(* the one just taken.                                                     *)
SlotGiven(t) == [k \in Key |-> holders[k] \ {t}]

(* release(): the slot held, and a connection if the key is the vendor's   *)
(* now; then, with the key read once more, the bucket and the global.      *)
Release(t) ==
  /\ At(t, "running")
  /\ holders' = SlotGiven(t)
  /\ conn' = [conn EXCEPT ![ProcOf[t]] = IF KeyNow(t) = "vendor" /\ @ > 0 THEN @ - 1 ELSE @]
  /\ Goto(t, "leaving")
  /\ UNCHANGED <<free, global, learned, rate, lane>>

ReturnPermits(t) ==
  /\ At(t, "leaving")
  /\ free' = Freed(t)
  /\ global' = [global EXCEPT ![ProcOf[t]] = @ + 1]
  /\ call' = [call EXCEPT ![t] = NoCall]
  /\ UNCHANGED <<holders, conn, learned, rate, lane>>

(* Mutants: a call the connection window turned away keeps its bucket; one *)
(* that never had the global permit returns it.                            *)
HadBucket(t) == call[t].stage \in {"bucketed", "rated"}
GlobalAlways(t) == [global EXCEPT ![ProcOf[t]] = @ + 1]

HasBucket(t) == call[t].stage \in {"bucketed", "rated", "slotted"}

GlobalGiven(t) == IF At(t, "asked") THEN global ELSE [global EXCEPT ![ProcOf[t]] = @ + 1]

Shed(t) == [NoCall EXCEPT !.stage = "asked", !.metered = TRUE]

(* A deadline passes while the call waits; the except branch of acquire()  *)
(* gives back what it has.  admit() may shed a call that rode the lane to  *)
(* the metered key, once.                                                  *)
GiveUp(t) ==
  /\ call[t].stage \notin {"idle", "keyed", "running", "leaving"}
  /\ holders' = SlotGiven(t)
  /\ free' = IF HasBucket(t) THEN Freed(t) ELSE free
  /\ global' = GlobalGiven(t)
  /\ \/ call' = [call EXCEPT ![t] = NoCall]
     \/ call[t].rode /\ call' = [call EXCEPT ![t] = Shed(t)]
  /\ UNCHANGED <<conn, learned, rate, lane>>

(* The process dies: its memory is gone, the system frees its flocks.      *)
Crash(p) ==
  /\ \E t \in Thread : ProcOf[t] = p /\ ~At(t, "idle")
  /\ call' = [t \in Thread |-> IF ProcOf[t] = p THEN NoCall ELSE call[t]]
  /\ holders' = [k \in Key |-> holders[k] \ Of(p)]
  /\ free' = [free EXCEPT ![p] = Full]
  /\ global' = [global EXCEPT ![p] = GlobalLimit]
  /\ conn' = [conn EXCEPT ![p] = 0]
  /\ UNCHANGED <<learned, rate, lane>>

-----------------------------------------------------------------------------
(* What running calls teach: the lane's cooldown and the vendor's limits.  *)

Running(p) == \E t \in Thread : ProcOf[t] = p /\ At(t, "running") /\ call[t].key = "vendor"

(* Mutant: halving reaches zero, which means no cap.                       *)
ShrunkToNone(p) ==
  LET cur == IF cap = 0 THEN VendorLimit ELSE cap IN
  IF conn[p] > 1 THEN IF cur < conn[p] - 1 THEN cur ELSE conn[p] - 1 ELSE cur \div 2

Shrunk(p) ==
  LET cur == IF cap = 0 THEN VendorLimit ELSE cap
      low == IF conn[p] > 1 THEN IF cur < conn[p] - 1 THEN cur ELSE conn[p] - 1
                            ELSE cur \div 2
  IN  IF low < 1 THEN 1 ELSE low

(* shrink_connection_window, on the first 429 of a wave.                   *)
Shrink(p) ==
  /\ Running(p)
  /\ Shrunk(p) < IF cap = 0 THEN VendorLimit ELSE cap
  /\ cap' = Shrunk(p)
  /\ UNCHANGED <<call, free, global, holders, conn, tariff, rate, lane>>

(* grow_connection_window, on a success.                                   *)
Grow(p) ==
  /\ Running(p) /\ cap > 0 /\ cap < VendorLimit
  /\ cap' = cap + 1
  /\ UNCHANGED <<call, free, global, holders, conn, tariff, rate, lane>>

(* learn_rate_limit with another rpm or tpm: the vendor's next bucket is a *)
(* new object.                                                             *)
LearnTariff ==
  /\ \E p \in Proc : Running(p) /\ tariff < MaxTariff
  /\ tariff' = tariff + 1
  /\ UNCHANGED <<call, free, global, holders, conn, cap, rate, lane>>

LaneCools ==
  /\ ~cooling /\ \E t \in Thread : At(t, "running") /\ call[t].key = "lane"
  /\ spells < MaxSpells
  /\ cooling' = TRUE /\ spells' = spells + 1
  /\ UNCHANGED <<call, free, global, holders, conn, learned, rate>>

LaneRecovers ==
  /\ cooling
  /\ cooling' = FALSE
  /\ UNCHANGED <<call, free, global, holders, conn, learned, rate, spells>>

Next ==
  \/ \E t \in Thread :
       \/ \E skip \in SkipsOf[t] : Ask(t, skip)
       \/ TakeGlobal(t) \/ ChooseBucket(t) \/ TakePermit(t)
       \/ ReserveRate(t) \/ TakeSlot(t) \/ JoinWindow(t)
       \/ Release(t) \/ ReturnPermits(t) \/ GiveUp(t)
  \/ \E p \in Proc : Crash(p) \/ Shrink(p) \/ Grow(p)
  \/ LearnTariff \/ WindowMoves \/ LaneCools \/ LaneRecovers

Spec == Init /\ [][Next]_vars

-----------------------------------------------------------------------------
TypeOK ==
  /\ call \in [Thread -> Call]
  /\ \A p \in Proc : free[p] \in [Bucket -> Nat] /\ \A b \in Bucket : free[p][b] <= Limit(b[1])
  /\ global \in [Proc -> 0 .. GlobalLimit]
  /\ holders \in [Key -> SUBSET Thread]
  /\ conn \in [Proc -> Nat] /\ cap \in 0 .. VendorLimit
  /\ tariff \in Tariff /\ rate \in 0 .. RateMax
  /\ cooling \in BOOLEAN /\ spells \in 0 .. MaxSpells

Quiet(p) == \A t \in Of(p) : At(t, "idle")

(* Over all processes no more calls are under way on a key than it has     *)
(* flock slots, whatever crashes, sheds or changes its key.  (_acquire_xp) *)
SharedCapHeld ==
  \A k \in Key : Cardinality({t \in Thread : call[t].stage \in {"slotted", "running"} /\ call[t].key = k})
                   <= Limit(k)

(* A thread holds a slot exactly while it has been let past _acquire_xp,   *)
(* and every way out gives it back.                                        *)
SlotsExact ==
  \A t \in Thread :
    (\E k \in Key : t \in holders[k]) <=> call[t].stage \in {"slotted", "running"}

(* No way out of acquire(), admit() or release() loses or forges a permit  *)
(* of the global semaphore.                                                *)
GlobalExact ==
  \A p \in Proc :
    global[p] + Cardinality({t \in Of(p) : call[t].stage \notin {"idle", "asked"}}) = GlobalLimit

(* As long as the lane never cools, a process without calls has all its    *)
(* permits back and counts no connection, although buckets are replaced    *)
(* under their holders, and while calls run it counts each one.            *)
PermitsReturn ==
  spells = 0 => \A p \in Proc :
    /\ conn[p] = Cardinality({t \in Of(p) : At(t, "running") /\ call[t].key = "vendor"})
    /\ Quiet(p) => free[p][<<"lane", 0>>] = LaneLimit /\ free[p][<<"vendor", tariff>>] = VendorLimit

(* The learned cap is never shrunk to nothing, which would mean no cap.    *)
LearnedCapStays == [][cap > 0 => cap' > 0]_vars

(* release(): "the freed bucket/sub-slot is the one that was taken": a     *)
(* process without calls has all its permits.  The code breaks it.         *)
QuietMeansFree ==
  \A p \in Proc : Quiet(p) => free[p][<<"lane", 0>>] = LaneLimit /\ conn[p] = 0
=============================================================================
