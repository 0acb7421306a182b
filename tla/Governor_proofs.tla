--------------------------- MODULE Governor_proofs ---------------------------
(***************************************************************************)
(* Proofs about the dispatch governor.  What a thread holds is a function  *)
(* of where its call is; the invariant relates each counter (global        *)
(* permits, flock slots, bucket permits, connections) to the set of the    *)
(* threads that hold one, so every action is shown to move a thread into   *)
(* or out of such a set exactly when it moves the counter.                 *)
(***************************************************************************)
EXTENDS Governor, FiniteSetTheorems, TLAPS

-----------------------------------------------------------------------------
(* Sets of threads.                                                        *)

LEMMA Added ==
  ASSUME NEW S, NEW T, NEW x, IsFiniteSet(S), x \notin S, T = S \cup {x}
  PROVE  IsFiniteSet(T) /\ Cardinality(T) = Cardinality(S) + 1
BY FS_AddElement

LEMMA Dropped ==
  ASSUME NEW S, NEW T, NEW x, IsFiniteSet(S), x \in S, T = S \ {x}
  PROVE  IsFiniteSet(T) /\ Cardinality(T) = Cardinality(S) - 1
BY FS_RemoveElement

LEMMA Counted ==
  ASSUME NEW S, S \subseteq Thread
  PROVE  IsFiniteSet(S) /\ Cardinality(S) \in Nat
BY FS_Subset, FS_CardinalityType, FiniteAssumption

LEMMA NoneCounted ==
  ASSUME NEW S, S = {}
  PROVE  Cardinality(S) = 0
BY FS_EmptySet

-----------------------------------------------------------------------------
(* Types.                                                                  *)

LEMMA Limits ==
  /\ \A k \in Key : Limit(k) \in Nat \ {0}
  /\ GlobalLimit \in Nat \ {0} /\ VendorLimit \in Nat \ {0} /\ LaneLimit \in Nat \ {0}
  /\ RateMax \in Nat /\ MaxTariff \in Nat /\ MaxSpells \in Nat
BY LimitAssumption DEF Key, Limit

FreeType == \A p \in Proc : free[p] \in [Bucket -> Nat] /\ \A b \in Bucket : free[p][b] <= Limit(b[1])

(* TypeOK without the bound of the global semaphore, which GlobalExact     *)
(* gives.                                                                  *)
Types ==
  /\ call \in [Thread -> Call]
  /\ free \in [Proc -> [Bucket -> Nat]] /\ FreeType
  /\ global \in [Proc -> Nat]
  /\ holders \in [Key -> SUBSET Thread]
  /\ conn \in [Proc -> Nat] /\ cap \in 0 .. VendorLimit
  /\ tariff \in Tariff /\ rate \in 0 .. RateMax
  /\ cooling \in BOOLEAN /\ spells \in 0 .. MaxSpells

LEMMA NowTypes ==
  ASSUME Types, NEW t \in Thread
  PROVE  KeyNow(t) \in Key /\ BucketNow(t) \in Bucket /\ BucketNow(t)[1] = KeyNow(t)
         /\ (BucketNow(t)[1] = "vendor" => BucketNow(t)[2] = tariff)
         /\ (BucketNow(t)[1] = "lane" => BucketNow(t) = <<"lane", 0>>)
BY LimitAssumption DEF KeyNow, BucketNow, Key, Bucket, Tariff, Types

LEMMA CallTypes == NoBucket \in Bucket /\ NoCall \in Call
BY LimitAssumption DEF NoBucket, NoCall, Bucket, Key, Tariff, Call, Stage

LEMMA FreedType ==
  ASSUME Types, NEW t \in Thread, free' = Freed(t)
  PROVE  free' \in [Proc -> [Bucket -> Nat]] /\ FreeType'
<1> DEFINE p == ProcOf[t]
           b == BucketNow(t)
<1>1. p \in Proc /\ b \in Bucket /\ b[1] = KeyNow(t)
  BY ThreadAssumption, NowTypes
<1>2. free[p] \in [Bucket -> Nat] /\ Limit(b[1]) \in Nat /\ free[p][b] \in Nat
  BY <1>1, NowTypes, Limits DEF Types
<1> DEFINE n == IF free[p][b] < Limit(KeyNow(t)) THEN free[p][b] + 1 ELSE free[p][b]
<1>3. n \in Nat /\ n <= Limit(b[1])
  BY <1>1, <1>2 DEF Types, FreeType
<1>4. free' = [free EXCEPT ![p] = [free[p] EXCEPT ![b] = n]]
  BY DEF Freed
<1> HIDE DEF n, b
<1>5. free' \in [Proc -> [Bucket -> Nat]]
  BY <1>1, <1>2, <1>3, <1>4 DEF Types
<1>6. \A q \in Proc, c \in Bucket : free'[q][c] <= Limit(c[1])
  BY <1>1, <1>2, <1>3, <1>4 DEF Types, FreeType
<1> QED BY <1>5, <1>6 DEF FreeType

LEMMA ShrunkType ==
  ASSUME Types, NEW p \in Proc
  PROVE  Shrunk(p) \in 1 .. VendorLimit
BY Limits DEF Shrunk, Types

LEMMA InitTypes == Init => Types
<1> SUFFICES ASSUME Init PROVE Types
  OBVIOUS
<1>1. Full \in [Bucket -> Nat] /\ \A b \in Bucket : Full[b] <= Limit(b[1])
  BY Limits DEF Full, Bucket
<1>2. call \in [Thread -> Call]
  BY CallTypes DEF Init
<1>3. cap \in 0 .. VendorLimit /\ tariff \in Tariff /\ rate \in 0 .. RateMax /\ spells \in 0 .. MaxSpells
  BY Limits DEF Init, Tariff
<1>4. free \in [Proc -> [Bucket -> Nat]] /\ FreeType
  BY <1>1 DEF Init, FreeType
<1> QED BY <1>2, <1>3, <1>4, Limits DEF Init, Types

(* The steps of one call.                                                  *)
LEMMA CallTypesKept ==
  ASSUME Types, NEW t \in Thread, NEW c \in Call, call' = [call EXCEPT ![t] = c]
  PROVE  call' \in [Thread -> Call]
BY DEF Types

LEMMA GotoTypes ==
  ASSUME Types, NEW t \in Thread, NEW stage \in Stage, Goto(t, stage)
  PROVE  call' \in [Thread -> Call]
BY DEF Goto, Types, Call

LEMMA AdmissionTypes ==
  ASSUME Types, NEW t \in Thread,
         \/ \E skip \in SkipsOf[t] : Ask(t, skip)
         \/ TakeGlobal(t) \/ ChooseBucket(t) \/ TakePermit(t)
         \/ ReserveRate(t) \/ TakeSlot(t) \/ JoinWindow(t)
  PROVE  Types'
<1>0. ProcOf[t] \in Proc /\ SkipsOf[t] \subseteq BOOLEAN /\ call[t] \in Call
  BY ThreadAssumption DEF Types
<1>1. ASSUME NEW skip \in SkipsOf[t], Ask(t, skip) PROVE Types'
  <2>1. [NoCall EXCEPT !.stage = "asked", !.metered = skip, !.rode = ~skip /\ ~cooling] \in Call
    BY <1>0, CallTypes DEF Call, Stage, NoCall
  <2>2. call' \in [Thread -> Call]
    BY <1>1, <2>1, CallTypesKept DEF Ask
  <2> QED BY <1>1, <2>2 DEF Ask, Types, FreeType, learned, lane
<1>2. CASE TakeGlobal(t)
  <2>1. [call[t] EXCEPT !.stage = "keyed", !.key = KeyNow(t)] \in Call
    BY <1>0, NowTypes DEF Call, Stage
  <2>2. call' = [call EXCEPT ![t] = [call[t] EXCEPT !.stage = "keyed", !.key = KeyNow(t)]]
    BY <1>2, <1>0 DEF TakeGlobal, Types, Call
  <2>3. call' \in [Thread -> Call]
    BY <2>1, <2>2, CallTypesKept
  <2> QED BY <1>0, <1>2, <2>3 DEF TakeGlobal, Types, FreeType, learned, lane
<1>3. CASE ChooseBucket(t)
  <2>1. [call[t] EXCEPT !.stage = "waiting", !.bucket = BucketNow(t)] \in Call
    BY <1>0, NowTypes DEF Call, Stage
  <2>2. call' = [call EXCEPT ![t] = [call[t] EXCEPT !.stage = "waiting", !.bucket = BucketNow(t)]]
    BY <1>3, <1>0 DEF ChooseBucket, Types, Call
  <2>3. call' \in [Thread -> Call]
    BY <2>1, <2>2, CallTypesKept
  <2> QED BY <1>3, <2>3 DEF ChooseBucket, Types, FreeType, learned, lane
<1>4. CASE TakePermit(t)
  <2> DEFINE st == IF call[t].key = "lane" THEN "rated" ELSE "bucketed"
             b == call[t].bucket
             p == ProcOf[t]
  <2>1. [call[t] EXCEPT !.stage = st, !.bucket = NoBucket] \in Call
    BY <1>0, CallTypes DEF Call, Stage
  <2>2. call' = [call EXCEPT ![t] = [call[t] EXCEPT !.stage = st, !.bucket = NoBucket]]
    BY <1>4, <1>0 DEF TakePermit, Types, Call
  <2>3. call' \in [Thread -> Call]
    BY <2>1, <2>2, CallTypesKept
  <2>4. b \in Bucket /\ free[p] \in [Bucket -> Nat] /\ free[p][b] \in Nat /\ free[p][b] > 0
    BY <1>0, <1>4 DEF Call, Types, TakePermit
  <2>5. free' = [free EXCEPT ![p] = [free[p] EXCEPT ![b] = free[p][b] - 1]]
    BY <1>4 DEF TakePermit
  <2> HIDE DEF b, st
  <2>6. free' \in [Proc -> [Bucket -> Nat]]
    BY <1>0, <2>4, <2>5 DEF Types
  <2>7. \A q \in Proc, c \in Bucket : free'[q][c] <= free[q][c] /\ free'[q][c] \in Nat /\ free[q][c] \in Nat
    BY <1>0, <2>4, <2>5 DEF Types
  <2>8. \A c \in Bucket : Limit(c[1]) \in Nat
    BY Limits DEF Bucket
  <2>9. FreeType'
    BY <2>6, <2>7, <2>8 DEF FreeType, Types
  <2> QED BY <1>4, <2>3, <2>6, <2>9 DEF TakePermit, Types, learned, lane
<1>5. CASE ReserveRate(t)
  <2>1. call' \in [Thread -> Call]
    BY <1>5, GotoTypes DEF ReserveRate, Stage
  <2> QED BY <1>5, <2>1, Limits DEF ReserveRate, Types, FreeType, learned, lane
<1>6. CASE TakeSlot(t)
  <2>1. call' \in [Thread -> Call]
    BY <1>6, GotoTypes DEF TakeSlot, Stage
  <2> QED BY <1>0, <1>6, <2>1 DEF TakeSlot, Types, FreeType, learned, lane, Call
<1>7. CASE JoinWindow(t)
  <2>1. call' \in [Thread -> Call]
    BY <1>7, GotoTypes DEF JoinWindow, Stage
  <2> QED BY <1>0, <1>7, <2>1 DEF JoinWindow, Types, FreeType, learned, lane
<1> QED BY <1>1, <1>2, <1>3, <1>4, <1>5, <1>6, <1>7

LEMMA LeavingTypes ==
  ASSUME Types, NEW t \in Thread, Release(t) \/ ReturnPermits(t) \/ GiveUp(t)
  PROVE  Types'
<1>0. ProcOf[t] \in Proc /\ call[t] \in Call
  BY ThreadAssumption DEF Types
<1>1. SlotGiven(t) \in [Key -> SUBSET Thread]
  BY DEF SlotGiven, Types
<1>2. CASE Release(t)
  <2>1. call' \in [Thread -> Call]
    BY <1>2, GotoTypes DEF Release, Stage
  <2>2. conn' \in [Proc -> Nat]
    BY <1>0, <1>2 DEF Release, Types
  <2> QED BY <1>1, <1>2, <2>1, <2>2 DEF Release, Types, FreeType, learned, lane
<1>4. CASE ReturnPermits(t)
  <2>1. call' \in [Thread -> Call]
    BY <1>4, CallTypes, CallTypesKept DEF ReturnPermits
  <2>2. free' \in [Proc -> [Bucket -> Nat]] /\ FreeType'
    BY <1>4, FreedType DEF ReturnPermits
  <2>3. global' \in [Proc -> Nat]
    BY <1>0, <1>4 DEF ReturnPermits, Types
  <2> QED BY <1>4, <2>1, <2>2, <2>3 DEF ReturnPermits, Types, learned, lane
<1>3. CASE GiveUp(t)
  <2>1. Shed(t) \in Call
    BY CallTypes DEF Shed, Call, Stage, NoCall
  <2>2. call' \in [Thread -> Call]
    BY <1>3, <2>1, CallTypes, CallTypesKept DEF GiveUp
  <2>3. free' \in [Proc -> [Bucket -> Nat]] /\ FreeType'
    BY <1>3, FreedType DEF GiveUp, Types, FreeType
  <2>4. GlobalGiven(t) \in [Proc -> Nat]
    BY <1>0 DEF GlobalGiven, Types
  <2> QED BY <1>1, <1>3, <2>2, <2>3, <2>4 DEF GiveUp, Types, learned, lane
<1> QED BY <1>2, <1>3, <1>4

LEMMA CrashTypes ==
  ASSUME Types, NEW p \in Proc, Crash(p)
  PROVE  Types'
<1>1. Full \in [Bucket -> Nat] /\ \A b \in Bucket : Full[b] <= Limit(b[1])
  BY Limits DEF Full, Bucket
<1>2. call' \in [Thread -> Call]
  BY CallTypes DEF Crash, Types
<1>3. free' \in [Proc -> [Bucket -> Nat]] /\ FreeType'
  BY <1>1 DEF Crash, Types, FreeType
<1> QED BY <1>2, <1>3, Limits DEF Crash, Types, learned, lane

Learning ==
  \/ \E p \in Proc : Shrink(p) \/ Grow(p)
  \/ LearnTariff \/ WindowMoves \/ LaneCools \/ LaneRecovers

LEMMA LearningTypes ==
  ASSUME Types, Learning
  PROVE  Types'
<1>1. ASSUME NEW p \in Proc, Shrink(p) PROVE Types'
  BY <1>1, ShrunkType, Limits DEF Shrink, Types, FreeType, lane
<1>2. ASSUME NEW p \in Proc, Grow(p) PROVE Types'
  BY <1>2, Limits DEF Grow, Types, FreeType, lane
<1>3. CASE LearnTariff
  BY <1>3, Limits DEF LearnTariff, Types, FreeType, lane, Tariff
<1>4. CASE WindowMoves
  BY <1>4, Limits DEF WindowMoves, Types, FreeType, learned, lane
<1>5. CASE LaneCools
  BY <1>5, Limits DEF LaneCools, Types, FreeType, learned
<1>6. CASE LaneRecovers
  BY <1>6 DEF LaneRecovers, Types, FreeType, learned
<1> QED BY <1>1, <1>2, <1>3, <1>4, <1>5, <1>6 DEF Learning

LEMMA TypesStep ==
  ASSUME Types, [Next]_vars
  PROVE  Types'
<1>1. CASE Next
  BY <1>1, AdmissionTypes, LeavingTypes, CrashTypes, LearningTypes DEF Next, Learning
<1>2. CASE UNCHANGED vars
  BY <1>2 DEF vars, Types, FreeType, learned, lane
<1> QED BY <1>1, <1>2

-----------------------------------------------------------------------------
(* Flock slots.                                                            *)

Slotted == {"slotted", "running"}
HoldersExact ==
  \A k \in Key : holders[k] = {t \in Thread : call[t].stage \in Slotted /\ call[t].key = k}

SlotCap == \A k \in Key : Cardinality(holders[k]) <= Limit(k)

-----------------------------------------------------------------------------
(* What the steps of a thread make of its call, and of nobody else's.      *)

Others(t) == \A u \in Thread : u # t => call'[u] = call[u]

(* The stage moves; the key and the kind of the call stay.                 *)
Moves(t, from, to) ==
  /\ call[t].stage = from /\ call'[t].stage = to
  /\ call'[t].key = call[t].key /\ call'[t].metered = call[t].metered

LEMMA AskCalls ==
  ASSUME Types, NEW t \in Thread, NEW skip \in SkipsOf[t], Ask(t, skip)
  PROVE  Others(t) /\ call[t].stage = "idle" /\ call'[t].stage = "asked"
<1>1. call' = [call EXCEPT ![t] = [NoCall EXCEPT !.stage = "asked", !.metered = skip,
                                                !.rode = ~skip /\ ~cooling]]
  BY DEF Ask
<1>2. [NoCall EXCEPT !.stage = "asked", !.metered = skip, !.rode = ~skip /\ ~cooling].stage = "asked"
  BY DEF NoCall
<1>3. call[t].stage = "idle" /\ call \in [Thread -> Call]
  BY DEF Ask, At, Types
<1> QED BY <1>1, <1>2, <1>3 DEF Others

LEMMA TakeGlobalCalls ==
  ASSUME Types, NEW t \in Thread, TakeGlobal(t)
  PROVE  /\ Others(t) /\ call[t].stage = "asked" /\ call'[t].stage = "keyed"
         /\ call'[t].key = KeyNow(t) /\ call'[t].metered = call[t].metered
<1>1. call \in [Thread -> Call] /\ call[t] \in Call /\ call[t].stage = "asked"
  BY DEF Types, TakeGlobal, At
<1>2. call' = [call EXCEPT ![t] = [call[t] EXCEPT !.stage = "keyed", !.key = KeyNow(t)]]
  BY <1>1 DEF TakeGlobal, Call
<1>3. call'[t] = [call[t] EXCEPT !.stage = "keyed", !.key = KeyNow(t)] /\ Others(t)
  BY <1>1, <1>2 DEF Others
<1> QED BY <1>1, <1>3 DEF Call

LEMMA ChooseBucketCalls ==
  ASSUME Types, NEW t \in Thread, ChooseBucket(t)
  PROVE  Others(t) /\ Moves(t, "keyed", "waiting") /\ call'[t].bucket = BucketNow(t)
<1>1. call \in [Thread -> Call] /\ call[t] \in Call /\ call[t].stage = "keyed"
  BY DEF Types, ChooseBucket, At
<1>2. call' = [call EXCEPT ![t] = [call[t] EXCEPT !.stage = "waiting", !.bucket = BucketNow(t)]]
  BY <1>1 DEF ChooseBucket, Call
<1>3. call'[t] = [call[t] EXCEPT !.stage = "waiting", !.bucket = BucketNow(t)] /\ Others(t)
  BY <1>1, <1>2 DEF Others
<1> QED BY <1>1, <1>3 DEF Moves, Call

LEMMA TakePermitCalls ==
  ASSUME Types, NEW t \in Thread, TakePermit(t)
  PROVE  Others(t) /\ Moves(t, "waiting", IF call[t].key = "lane" THEN "rated" ELSE "bucketed")
<1> DEFINE st == IF call[t].key = "lane" THEN "rated" ELSE "bucketed"
<1>1. call \in [Thread -> Call] /\ call[t] \in Call /\ call[t].stage = "waiting"
  BY DEF Types, TakePermit, At
<1>2. call' = [call EXCEPT ![t] = [call[t] EXCEPT !.stage = st, !.bucket = NoBucket]]
  BY <1>1 DEF TakePermit, Call
<1> HIDE DEF st
<1>3. call'[t] = [call[t] EXCEPT !.stage = st, !.bucket = NoBucket] /\ Others(t)
  BY <1>1, <1>2 DEF Others
<1>4. Others(t) /\ Moves(t, "waiting", st)
  BY <1>1, <1>3 DEF Moves, Call
<1> QED BY <1>4 DEF st

LEMMA GotoCalls ==
  ASSUME Types, NEW t \in Thread, NEW from, NEW to, At(t, from), Goto(t, to)
  PROVE  Others(t) /\ Moves(t, from, to)
<1>1. call \in [Thread -> Call] /\ call[t] \in Call
  BY DEF Types
<1>2. call'[t] = [call[t] EXCEPT !.stage = to] /\ Others(t)
  BY <1>1 DEF Goto, Others
<1> QED BY <1>1, <1>2 DEF Moves, Call, At

LEMMA ReserveRateCalls ==
  ASSUME Types, NEW t \in Thread, ReserveRate(t)
  PROVE  Others(t) /\ Moves(t, "bucketed", "rated")
BY GotoCalls DEF ReserveRate

LEMMA TakeSlotCalls ==
  ASSUME Types, NEW t \in Thread, TakeSlot(t)
  PROVE  Others(t) /\ Moves(t, "rated", IF call[t].key = "lane" THEN "running" ELSE "slotted")
BY GotoCalls DEF TakeSlot

LEMMA JoinWindowCalls ==
  ASSUME Types, NEW t \in Thread, JoinWindow(t)
  PROVE  Others(t) /\ Moves(t, "slotted", "running")
BY GotoCalls DEF JoinWindow

LEMMA ReleaseCalls ==
  ASSUME Types, NEW t \in Thread, Release(t)
  PROVE  Others(t) /\ Moves(t, "running", "leaving")
BY GotoCalls DEF Release

LEMMA LeavingCalls ==
  ASSUME Types, NEW t \in Thread, ReturnPermits(t) \/ GiveUp(t)
  PROVE  /\ Others(t) /\ call[t].stage \notin {"idle", "keyed"}
         /\ call'[t].stage \in {"idle", "asked"}
<1>1. call \in [Thread -> Call] /\ NoCall.stage = "idle" /\ Shed(t).stage = "asked"
  BY DEF Types, NoCall, Shed
<1>2. call' = [call EXCEPT ![t] = NoCall] \/ call' = [call EXCEPT ![t] = Shed(t)]
  BY DEF ReturnPermits, GiveUp
<1>3. call[t].stage \notin {"idle", "keyed"}
  BY DEF ReturnPermits, GiveUp, At
<1> QED BY <1>1, <1>2, <1>3 DEF Others

LEMMA CrashCalls ==
  ASSUME Types, NEW p \in Proc, Crash(p)
  PROVE  /\ \A t \in Of(p) : call'[t].stage = "idle"
         /\ \A t \in Thread \ Of(p) : call'[t] = call[t]
BY DEF Types, Crash, Of, NoCall

LEMMA HoldersStep ==
  ASSUME Types, HoldersExact, [Next]_vars
  PROVE  HoldersExact'
<1> SUFFICES ASSUME NEW k \in Key, NEW u \in Thread
             PROVE  u \in holders'[k] <=> call'[u].stage \in Slotted /\ call'[u].key = k
  BY TypesStep DEF HoldersExact, Types
<1>0. u \in holders[k] <=> call[u].stage \in Slotted /\ call[u].key = k
  BY DEF HoldersExact
<1>1. ASSUME NEW t \in Thread,
             \/ \E skip \in SkipsOf[t] : Ask(t, skip)
             \/ TakeGlobal(t) \/ ChooseBucket(t) \/ TakePermit(t) \/ ReserveRate(t)
      PROVE  u \in holders'[k] <=> call'[u].stage \in Slotted /\ call'[u].key = k
  <2>1. Others(t) /\ call[t].stage \notin Slotted /\ call'[t].stage \notin Slotted
    BY <1>1, AskCalls, TakeGlobalCalls, ChooseBucketCalls, TakePermitCalls, ReserveRateCalls
       DEF Moves, Slotted
  <2>2. holders' = holders
    BY <1>1 DEF Ask, TakeGlobal, ChooseBucket, TakePermit, ReserveRate
  <2> QED BY <1>0, <2>1, <2>2 DEF Others
<1>2. ASSUME NEW t \in Thread, TakeSlot(t)
      PROVE  u \in holders'[k] <=> call'[u].stage \in Slotted /\ call'[u].key = k
  <2>1. Others(t) /\ Moves(t, "rated", IF call[t].key = "lane" THEN "running" ELSE "slotted")
    BY <1>2, TakeSlotCalls
  <2>2. holders' = [holders EXCEPT ![call[t].key] = @ \cup {t}] /\ call[t].key \in Key
    BY <1>2 DEF TakeSlot, Types, Call
  <2>3. CASE u = t
    BY <1>0, <2>1, <2>2, <2>3 DEF Moves, Slotted, Types
  <2>4. CASE u # t
    BY <1>0, <2>1, <2>2, <2>4 DEF Others, Types
  <2> QED BY <2>3, <2>4
<1>3. ASSUME NEW t \in Thread, JoinWindow(t)
      PROVE  u \in holders'[k] <=> call'[u].stage \in Slotted /\ call'[u].key = k
  <2>1. Others(t) /\ Moves(t, "slotted", "running") /\ holders' = holders
    BY <1>3, JoinWindowCalls DEF JoinWindow
  <2> QED BY <1>0, <2>1 DEF Others, Moves, Slotted
<1>4. ASSUME NEW t \in Thread, Release(t) \/ GiveUp(t)
      PROVE  u \in holders'[k] <=> call'[u].stage \in Slotted /\ call'[u].key = k
  <2>1. holders' = SlotGiven(t)
    BY <1>4 DEF Release, GiveUp
  <2>2. Others(t) /\ call'[t].stage \notin Slotted
    BY <1>4, ReleaseCalls, LeavingCalls DEF Moves, Slotted
  <2> QED BY <1>0, <2>1, <2>2 DEF SlotGiven, Others
<1>8. ASSUME NEW t \in Thread, ReturnPermits(t)
      PROVE  u \in holders'[k] <=> call'[u].stage \in Slotted /\ call'[u].key = k
  <2>1. holders' = holders /\ call[t].stage = "leaving"
    BY <1>8 DEF ReturnPermits, At
  <2>2. Others(t) /\ call'[t].stage \in {"idle", "asked"}
    BY <1>8, LeavingCalls
  <2> QED BY <1>0, <2>1, <2>2 DEF Slotted, Others
<1>5. ASSUME NEW p \in Proc, Crash(p)
      PROVE  u \in holders'[k] <=> call'[u].stage \in Slotted /\ call'[u].key = k
  BY <1>0, <1>5, CrashCalls DEF Crash, Of, Slotted
<1>6. CASE Learning
  BY <1>0, <1>6 DEF Learning, Shrink, Grow, LearnTariff, WindowMoves, LaneCools, LaneRecovers
<1>7. CASE UNCHANGED vars
  BY <1>0, <1>7 DEF vars
<1> QED BY <1>1, <1>2, <1>3, <1>4, <1>5, <1>6, <1>7, <1>8 DEF Next, Learning

LEMMA SlotCapStep ==
  ASSUME Types, HoldersExact, SlotCap, [Next]_vars
  PROVE  SlotCap'
<1> SUFFICES ASSUME NEW k \in Key PROVE Cardinality(holders'[k]) <= Limit(k)
  BY DEF SlotCap
<1>0. /\ holders[k] \subseteq Thread /\ Limit(k) \in Nat
      /\ Cardinality(holders[k]) <= Limit(k)
  BY Limits DEF Types, SlotCap
<1>1. ASSUME NEW t \in Thread, TakeSlot(t) PROVE Cardinality(holders'[k]) <= Limit(k)
  <2>1. CASE call[t].key = k
    <3>1. t \notin holders[k] /\ holders'[k] = holders[k] \cup {t}
      BY <1>1, <2>1 DEF TakeSlot, HoldersExact, Slotted, At, Types
    <3>2. Cardinality(holders[k]) < Limit(k)
      BY <1>1, <2>1 DEF TakeSlot, SlotFree
    <3> QED BY <1>0, <3>1, <3>2, Counted, Added
  <2>2. CASE call[t].key # k
    BY <1>0, <1>1, <2>2 DEF TakeSlot, Types
  <2> QED BY <2>1, <2>2
<1>2. CASE holders'[k] \subseteq holders[k]
  BY <1>0, <1>2, Counted, FS_Subset
<1>3. CASE ~ \E t \in Thread : TakeSlot(t)
  <2>1. ASSUME NEW t \in Thread, Release(t) \/ GiveUp(t)
        PROVE  holders'[k] \subseteq holders[k]
    BY <2>1 DEF Release, GiveUp, SlotGiven
  <2>2. ASSUME NEW p \in Proc, Crash(p)
        PROVE  holders'[k] \subseteq holders[k]
    BY <2>2 DEF Crash
  <2>3. CASE holders' = holders
    BY <1>2, <2>3
  <2>4. \/ holders' = holders \/ (\E t \in Thread : Release(t) \/ GiveUp(t)) \/ \E p \in Proc : Crash(p)
    BY <1>3 DEF Next, vars, Ask, TakeGlobal, ChooseBucket, TakePermit, ReserveRate,
       JoinWindow, ReturnPermits, Shrink, Grow, LearnTariff, WindowMoves, LaneCools,
       LaneRecovers
  <2> QED BY <1>2, <2>1, <2>2, <2>3, <2>4
<1> QED BY <1>1, <1>3

-----------------------------------------------------------------------------
(* The global semaphore.                                                   *)

Past(p) == {t \in Of(p) : call[t].stage \notin {"idle", "asked"}}

LEMMA GlobalStep ==
  ASSUME Types, GlobalExact, [Next]_vars
  PROVE  GlobalExact'
<1> SUFFICES ASSUME NEW p \in Proc PROVE global'[p] + Cardinality(Past(p)') = GlobalLimit
  BY DEF GlobalExact, Past
<1>0. /\ Past(p) \subseteq Thread /\ Past(p)' \subseteq Thread
      /\ global[p] \in Nat /\ GlobalLimit \in Nat
      /\ global[p] + Cardinality(Past(p)) = GlobalLimit
  BY Limits DEF Types, GlobalExact, Past, Of
<1>1. CASE global'[p] = global[p] /\ Past(p)' = Past(p)
  BY <1>0, <1>1
<1>2. ASSUME NEW t \in Thread,
             (\E skip \in SkipsOf[t] : Ask(t, skip)) \/ ChooseBucket(t) \/ TakePermit(t)
             \/ ReserveRate(t) \/ TakeSlot(t) \/ JoinWindow(t) \/ Release(t)
      PROVE  global'[p] = global[p] /\ Past(p)' = Past(p)
  <2>1. Others(t) /\ (call[t].stage \in {"idle", "asked"} <=> call'[t].stage \in {"idle", "asked"})
    BY <1>2, AskCalls, ChooseBucketCalls, TakePermitCalls, ReserveRateCalls, TakeSlotCalls,
       JoinWindowCalls, ReleaseCalls DEF Moves
  <2>2. global' = global
    BY <1>2 DEF Ask, ChooseBucket, TakePermit, ReserveRate, TakeSlot, JoinWindow, Release
  <2> QED BY <2>1, <2>2 DEF Past, Of, Others
<1>3. ASSUME NEW t \in Thread, TakeGlobal(t)
      PROVE  global'[p] + Cardinality(Past(p)') = GlobalLimit
  <2>1. Others(t) /\ call[t].stage = "asked" /\ call'[t].stage = "keyed"
    BY <1>3, TakeGlobalCalls
  <2>2. CASE ProcOf[t] = p
    <3>1. t \notin Past(p) /\ Past(p)' = Past(p) \cup {t} /\ global'[p] = global[p] - 1
      BY <1>3, <2>1, <2>2 DEF TakeGlobal, Past, Of, Others, Types
    <3> QED BY <1>0, <3>1, Counted, Added
  <2>3. CASE ProcOf[t] # p
    <3>1. Past(p)' = Past(p) /\ global'[p] = global[p]
      BY <1>3, <2>1, <2>3 DEF TakeGlobal, Past, Of, Others, Types
    <3> QED BY <1>1, <3>1
  <2> QED BY <2>2, <2>3
<1>4. ASSUME NEW t \in Thread, ReturnPermits(t) \/ GiveUp(t)
      PROVE  global'[p] + Cardinality(Past(p)') = GlobalLimit
  <2>1. /\ Others(t) /\ call[t].stage # "idle" /\ call'[t].stage \in {"idle", "asked"}
        /\ global' = IF call[t].stage = "asked" THEN global
                     ELSE [global EXCEPT ![ProcOf[t]] = @ + 1]
    BY <1>4, LeavingCalls DEF ReturnPermits, GiveUp, GlobalGiven, At
  <2>2. CASE ProcOf[t] = p /\ call[t].stage # "asked"
    <3>1. t \in Past(p) /\ Past(p)' = Past(p) \ {t} /\ global'[p] = global[p] + 1
      BY <2>1, <2>2 DEF Past, Of, Others, Types
    <3> QED BY <1>0, <3>1, Counted, Dropped
  <2>3. CASE ProcOf[t] # p \/ call[t].stage = "asked"
    <3>1. Past(p)' = Past(p) /\ global'[p] = global[p]
      BY <2>1, <2>3 DEF Past, Of, Others, Types
    <3> QED BY <1>1, <3>1
  <2> QED BY <2>2, <2>3
<1>5. ASSUME NEW q \in Proc, Crash(q)
      PROVE  global'[p] + Cardinality(Past(p)') = GlobalLimit
  <2>1. CASE p = q
    <3>1. Past(p)' = {} /\ global'[p] = GlobalLimit
      BY <1>5, <2>1, CrashCalls DEF Crash, Past, Types
    <3> QED BY <1>0, <3>1, NoneCounted
  <2>2. CASE p # q
    <3>1. Past(p)' = Past(p) /\ global'[p] = global[p]
      BY <1>5, <2>2, CrashCalls DEF Crash, Past, Of, Types
    <3> QED BY <1>1, <3>1
  <2> QED BY <2>1, <2>2
<1>6. CASE Learning \/ UNCHANGED vars
  <2>1. call' = call /\ global' = global
    BY <1>6 DEF Learning, Shrink, Grow, LearnTariff, WindowMoves, LaneCools, LaneRecovers, vars
  <2> QED BY <1>1, <2>1 DEF Past, Of
<1> QED BY <1>1, <1>2, <1>3, <1>4, <1>5, <1>6 DEF Next, Learning

-----------------------------------------------------------------------------
(* Permits of the buckets and the connection count, while the lane has     *)
(* never cooled.                                                           *)

Admitted == {"bucketed", "rated", "slotted", "running", "leaving"}
Riding(p, k) == {t \in Of(p) : call[t].stage \in Admitted /\ call[t].key = k}
Connected(p) == {t \in Of(p) : At(t, "running") /\ call[t].key = "vendor"}

(* The key a call was admitted under is the key it has now.                *)
KeysStay ==
  /\ ~cooling
  /\ \A t \in Thread :
       /\ call[t].stage \notin {"idle", "asked"} => call[t].key = KeyNow(t)
       /\ At(t, "waiting") => call[t].bucket[1] = call[t].key
       /\ At(t, "slotted") => call[t].key = "vendor"
       /\ At(t, "bucketed") => call[t].key = "vendor"

(* A bucket in use is the lane's one or one made for a tariff learned so   *)
(* far; the next ones are untouched.                                       *)
Buckets ==
  /\ \A t \in Thread : At(t, "waiting") =>
       IF call[t].bucket[1] = "lane" THEN call[t].bucket = <<"lane", 0>>
                                     ELSE call[t].bucket[2] <= tariff
  /\ \A p \in Proc, v \in Tariff : v > tariff => free[p][<<"vendor", v>>] = VendorLimit

ConnExact == \A p \in Proc : conn[p] = Cardinality(Connected(p))
LaneExact == \A p \in Proc : free[p][<<"lane", 0>>] + Cardinality(Riding(p, "lane")) = LaneLimit

(* A release may go to a newer bucket than the one that was taken, so the  *)
(* current one can hold more than the riding calls left it.                *)
VendorEnough ==
  \A p \in Proc : free[p][<<"vendor", tariff>>] + Cardinality(Riding(p, "vendor")) >= VendorLimit

PermitsExact == KeysStay /\ ConnExact /\ LaneExact /\ VendorEnough

LEMMA BucketsStep ==
  ASSUME Types, Buckets, [Next]_vars
  PROVE  Buckets'
<1> USE DEF Buckets
<1>0. ASSUME NEW t \in Thread, Others(t), call'[t].stage # "waiting",
             free' = free, tariff' = tariff
      PROVE  Buckets'
  BY <1>0 DEF Others, At
<1>1. ASSUME NEW t \in Thread, NEW skip \in SkipsOf[t], Ask(t, skip) PROVE Buckets'
  <2>1. Others(t) /\ call'[t].stage # "waiting"
    BY <1>1, AskCalls
  <2>2. free' = free /\ tariff' = tariff
    BY <1>1 DEF Ask, learned
  <2> QED BY <1>0, <2>1, <2>2
<1>2. ASSUME NEW t \in Thread, TakeGlobal(t) PROVE Buckets'
  <2>1. Others(t) /\ call'[t].stage # "waiting"
    BY <1>2, TakeGlobalCalls
  <2>2. free' = free /\ tariff' = tariff
    BY <1>2 DEF TakeGlobal, learned
  <2> QED BY <1>0, <2>1, <2>2
<1>3. ASSUME NEW t \in Thread, ChooseBucket(t) PROVE Buckets'
  <2>1. Others(t) /\ Moves(t, "keyed", "waiting") /\ call'[t].bucket = BucketNow(t)
    BY <1>3, ChooseBucketCalls
  <2>2. /\ tariff' = tariff /\ free' = free /\ tariff \in Nat
        /\ BucketNow(t)[1] \in Key
        /\ (BucketNow(t)[1] = "vendor" => BucketNow(t)[2] = tariff)
        /\ (BucketNow(t)[1] = "lane" => BucketNow(t) = <<"lane", 0>>)
    BY <1>3, NowTypes DEF ChooseBucket, learned, Types, Tariff
  <2>3. ASSUME NEW u \in Thread, At(u, "waiting")'
        PROVE  IF call'[u].bucket[1] = "lane" THEN call'[u].bucket = <<"lane", 0>>
                                             ELSE call'[u].bucket[2] <= tariff
    BY <2>1, <2>2, <2>3 DEF Others, At, Key
  <2> QED BY <2>2, <2>3 DEF At
<1>4. ASSUME NEW t \in Thread, TakePermit(t) PROVE Buckets'
  <2> DEFINE b == call[t].bucket
  <2>0. Others(t) /\ Moves(t, "waiting", IF call[t].key = "lane" THEN "rated" ELSE "bucketed")
    BY <1>4, TakePermitCalls
  <2>1. Others(t) /\ call'[t].stage # "waiting" /\ tariff' = tariff
    BY <1>4, <2>0 DEF Moves, TakePermit, learned
  <2>a. b \in Bucket /\ tariff \in Nat
    BY DEF Types, Call, Tariff
  <2>b. b[1] = "vendor" => b[2] <= tariff
    BY <1>4 DEF TakePermit
  <2>c. free' = [free EXCEPT ![ProcOf[t]] = [free[ProcOf[t]] EXCEPT ![b] = @ - 1]]
    BY <1>4 DEF TakePermit
  <2>2. /\ b \in Bucket /\ tariff \in Nat /\ (b[1] = "vendor" => b[2] <= tariff)
        /\ free' = [free EXCEPT ![ProcOf[t]] = [free[ProcOf[t]] EXCEPT ![b] = @ - 1]]
    BY <2>a, <2>b, <2>c
  <2> HIDE DEF b
  <2>3. ASSUME NEW p \in Proc, NEW v \in Tariff, v > tariff
        PROVE  free'[p][<<"vendor", v>>] = VendorLimit
    <3>1. <<"vendor", v>> # b /\ <<"vendor", v>> \in Bucket
      BY <2>2, <2>3 DEF Bucket, Key, Tariff
    <3>2. free'[p][<<"vendor", v>>] = free[p][<<"vendor", v>>]
      BY <2>2, <3>1 DEF Types
    <3> QED BY <2>3, <3>2
  <2> QED BY <2>1, <2>3 DEF Others, At
<1>5. ASSUME NEW t \in Thread, ReserveRate(t) PROVE Buckets'
  BY <1>5, ReserveRateCalls DEF ReserveRate, Others, Moves, At, learned
<1>6. ASSUME NEW t \in Thread, TakeSlot(t) PROVE Buckets'
  BY <1>6, TakeSlotCalls DEF TakeSlot, Others, Moves, At, learned
<1>7. ASSUME NEW t \in Thread, JoinWindow(t) PROVE Buckets'
  BY <1>7, JoinWindowCalls DEF JoinWindow, Others, Moves, At, learned
<1>13. ASSUME NEW t \in Thread, Release(t) PROVE Buckets'
  BY <1>13, ReleaseCalls DEF Release, Others, Moves, At, learned
<1>8. ASSUME NEW t \in Thread, ReturnPermits(t) \/ GiveUp(t) PROVE Buckets'
  <2>1. Others(t) /\ call'[t].stage # "waiting" /\ tariff' = tariff
    BY <1>8, LeavingCalls DEF ReturnPermits, GiveUp, learned
  <2>2. /\ tariff \in Nat /\ BucketNow(t) \in Bucket
        /\ BucketNow(t)[1] = "vendor" => BucketNow(t)[2] = tariff
    BY NowTypes DEF Types, Tariff
  <2>3. ASSUME NEW p \in Proc, NEW v \in Tariff, v > tariff
        PROVE  free'[p][<<"vendor", v>>] = free[p][<<"vendor", v>>]
    <3>1. <<"vendor", v>> # BucketNow(t) /\ <<"vendor", v>> \in Bucket
      BY <2>2, <2>3 DEF Bucket, Key, Tariff
    <3>2. Freed(t)[p][<<"vendor", v>>] = free[p][<<"vendor", v>>]
      BY <2>2, <3>1 DEF Freed, Types
    <3> QED BY <1>8, <3>2 DEF ReturnPermits, GiveUp
  <2> QED BY <2>1, <2>3 DEF Others, At
<1>9. ASSUME NEW p \in Proc, Crash(p) PROVE Buckets'
  <2>1. tariff' = tariff /\ \A u \in Thread : At(u, "waiting")' => call'[u] = call[u]
    BY <1>9, CrashCalls DEF Crash, learned, At
  <2>2. \A q \in Proc, v \in Tariff : v > tariff => free'[q][<<"vendor", v>>] = VendorLimit
    BY <1>9 DEF Crash, Types, Full, Bucket, Limit, Key
  <2> QED BY <2>1, <2>2 DEF At
<1>10. CASE LearnTariff
  <2>1. call' = call /\ free' = free /\ tariff' = tariff + 1 /\ tariff \in Nat
    BY <1>10 DEF LearnTariff, Types, Tariff
  <2>2. \A t \in Thread : At(t, "waiting") => call[t].bucket[2] \in Nat
    BY DEF Types, Call, Bucket, Tariff
  <2>3. \A v \in Tariff : v > tariff + 1 => v > tariff
    BY <2>1 DEF Tariff
  <2>4. \A v : v \in Nat /\ v <= tariff => v <= tariff + 1
    BY <2>1
  <2> QED BY <2>1, <2>2, <2>3, <2>4 DEF At
<1>11. CASE UNCHANGED <<call, free, tariff>>
  BY <1>11 DEF At
<1>12. \/ UNCHANGED <<call, free, tariff>> \/ LearnTariff
       \/ \E t \in Thread : \/ \E skip \in SkipsOf[t] : Ask(t, skip)
                            \/ TakeGlobal(t) \/ ChooseBucket(t) \/ TakePermit(t)
                            \/ ReserveRate(t) \/ TakeSlot(t) \/ JoinWindow(t)
                            \/ Release(t) \/ ReturnPermits(t) \/ GiveUp(t)
       \/ \E p \in Proc : Crash(p)
  BY DEF Next, vars, Shrink, Grow, WindowMoves, LaneCools, LaneRecovers, learned
<1> QED BY <1>1, <1>2, <1>3, <1>4, <1>5, <1>6, <1>7, <1>8, <1>9, <1>10, <1>11, <1>12, <1>13

(* Steps that move no call and no permit.                                  *)
Apart == UNCHANGED <<call, free, conn, tariff>>

LEMMA ApartSteps ==
  ASSUME [Next]_vars
  PROVE  \/ Apart \/ LearnTariff
         \/ \E t \in Thread : \/ \E skip \in SkipsOf[t] : Ask(t, skip)
                              \/ TakeGlobal(t) \/ ChooseBucket(t) \/ TakePermit(t)
                              \/ ReserveRate(t) \/ TakeSlot(t) \/ JoinWindow(t)
                              \/ Release(t) \/ ReturnPermits(t) \/ GiveUp(t)
         \/ \E p \in Proc : Crash(p)
BY DEF Next, vars, Shrink, Grow, WindowMoves, LaneCools, LaneRecovers, learned, Apart

LEMMA KeysStayStep ==
  ASSUME Types, KeysStay, [Next]_vars, ~cooling'
  PROVE  KeysStay'
<1> DEFINE Good(t) ==
      /\ call[t].stage \notin {"idle", "asked"} => call[t].key = KeyNow(t)
      /\ At(t, "waiting") => call[t].bucket[1] = call[t].key
      /\ At(t, "slotted") => call[t].key = "vendor"
      /\ At(t, "bucketed") => call[t].key = "vendor"
<1>0. ~cooling /\ \A u \in Thread : Good(u)
  BY DEF KeysStay
<1> SUFFICES ASSUME NEW u \in Thread PROVE Good(u)'
  BY DEF KeysStay
<1>1. call'[u] = call[u] => Good(u)'
  BY <1>0 DEF KeyNow, At
<1>2. call'[u].stage \in {"idle", "asked"} => Good(u)'
  BY DEF At
<1>3. ASSUME NEW t \in Thread, NEW from, NEW to, Others(t), Moves(t, from, to),
             from \notin {"idle", "asked"}, to \notin {"waiting"},
             to \in {"slotted", "bucketed"} => call[t].key = "vendor"
      PROVE  Good(u)'
  BY <1>0, <1>1, <1>3 DEF Others, Moves, KeyNow, At
<1>4. ASSUME NEW t \in Thread, NEW skip \in SkipsOf[t], Ask(t, skip) PROVE Good(u)'
  BY <1>1, <1>2, <1>4, AskCalls DEF Others
<1>5. ASSUME NEW t \in Thread, TakeGlobal(t) PROVE Good(u)'
  BY <1>0, <1>1, <1>5, TakeGlobalCalls DEF Others, KeyNow, At
<1>6. ASSUME NEW t \in Thread, ChooseBucket(t) PROVE Good(u)'
  <2>1. Others(t) /\ Moves(t, "keyed", "waiting") /\ call'[t].bucket = BucketNow(t)
    BY <1>6, ChooseBucketCalls
  <2>2. BucketNow(t)[1] = KeyNow(t) /\ call[t].key = KeyNow(t)
    BY <1>0, <2>1, NowTypes DEF Moves
  <2> QED BY <1>0, <1>1, <2>1, <2>2 DEF Others, Moves, KeyNow, At
<1>7. ASSUME NEW t \in Thread, TakePermit(t) PROVE Good(u)'
  <2> DEFINE to == IF call[t].key = "lane" THEN "rated" ELSE "bucketed"
  <2>1. Others(t) /\ Moves(t, "waiting", to) /\ call[t].key \in {"lane", "vendor"}
    BY <1>7, TakePermitCalls DEF Types, Call, Key
  <2>2. to # "waiting" /\ (to \in {"slotted", "bucketed"} => call[t].key = "vendor")
    BY <2>1
  <2> HIDE DEF to
  <2> QED BY <1>3, <2>1, <2>2
<1>8. ASSUME NEW t \in Thread, ReserveRate(t) PROVE Good(u)'
  BY <1>3, <1>8, ReserveRateCalls
<1>9. ASSUME NEW t \in Thread, TakeSlot(t) PROVE Good(u)'
  <2> DEFINE to == IF call[t].key = "lane" THEN "running" ELSE "slotted"
  <2>1. Others(t) /\ Moves(t, "rated", to) /\ call[t].key \in {"lane", "vendor"}
    BY <1>9, TakeSlotCalls DEF Types, Call, Key
  <2>2. to # "waiting" /\ (to \in {"slotted", "bucketed"} => call[t].key = "vendor")
    BY <2>1
  <2> HIDE DEF to
  <2> QED BY <1>3, <2>1, <2>2
<1>10. ASSUME NEW t \in Thread, JoinWindow(t) PROVE Good(u)'
  BY <1>3, <1>10, JoinWindowCalls
<1>14. ASSUME NEW t \in Thread, Release(t) PROVE Good(u)'
  BY <1>3, <1>14, ReleaseCalls
<1>11. ASSUME NEW t \in Thread, ReturnPermits(t) \/ GiveUp(t) PROVE Good(u)'
  BY <1>1, <1>2, <1>11, LeavingCalls DEF Others
<1>12. ASSUME NEW p \in Proc, Crash(p) PROVE Good(u)'
  BY <1>1, <1>2, <1>12, CrashCalls DEF Of
<1>13. CASE Apart \/ LearnTariff
  BY <1>1, <1>13 DEF Apart, LearnTariff
<1> HIDE DEF Good
<1> QED BY <1>4, <1>5, <1>6, <1>7, <1>8, <1>9, <1>10, <1>11, <1>12, <1>13, <1>14, ApartSteps

LEMMA ConnStep ==
  ASSUME Types, KeysStay, ConnExact, [Next]_vars
  PROVE  ConnExact'
<1> SUFFICES ASSUME NEW p \in Proc PROVE conn'[p] = Cardinality(Connected(p)')
  BY DEF ConnExact
<1>0. Connected(p) \subseteq Thread /\ conn[p] \in Nat /\ conn[p] = Cardinality(Connected(p))
  BY DEF Types, ConnExact, Connected, Of
<1>1. CASE conn'[p] = conn[p] /\ Connected(p)' = Connected(p)
  BY <1>0, <1>1
<1>2. ASSUME NEW t \in Thread,
             (\E skip \in SkipsOf[t] : Ask(t, skip)) \/ TakeGlobal(t) \/ ChooseBucket(t)
             \/ TakePermit(t) \/ ReserveRate(t) \/ ReturnPermits(t) \/ GiveUp(t)
      PROVE  conn'[p] = Cardinality(Connected(p)')
  <2>1. Others(t) /\ call[t].stage # "running"
    BY <1>2, AskCalls, TakeGlobalCalls, ChooseBucketCalls, TakePermitCalls, ReserveRateCalls,
       LeavingCalls DEF Moves, ReturnPermits, GiveUp, At
  <2>2. call'[t].stage # "running"
    BY <1>2, AskCalls, TakeGlobalCalls, ChooseBucketCalls, TakePermitCalls, ReserveRateCalls,
       LeavingCalls DEF Moves
  <2>3. conn' = conn
    BY <1>2 DEF Ask, TakeGlobal, ChooseBucket, TakePermit, ReserveRate, ReturnPermits, GiveUp
  <2>4. Connected(p)' = Connected(p)
    BY <2>1, <2>2 DEF Connected, Of, Others, At
  <2> QED BY <1>1, <2>3, <2>4
<1>3. ASSUME NEW t \in Thread, TakeSlot(t) PROVE conn'[p] = Cardinality(Connected(p)')
  <2> DEFINE to == IF call[t].key = "lane" THEN "running" ELSE "slotted"
  <2>1. Others(t) /\ Moves(t, "rated", to) /\ conn' = conn
    BY <1>3, TakeSlotCalls DEF TakeSlot
  <2>2. to = "running" => call[t].key # "vendor"
    OBVIOUS
  <2> HIDE DEF to
  <2>3. Connected(p)' = Connected(p)
    BY <2>1, <2>2 DEF Connected, Of, Others, At, Moves
  <2> QED BY <1>1, <2>1, <2>3
<1>4. ASSUME NEW t \in Thread, JoinWindow(t) PROVE conn'[p] = Cardinality(Connected(p)')
  <2>1. /\ Others(t) /\ Moves(t, "slotted", "running") /\ call[t].key = "vendor"
        /\ conn' = [conn EXCEPT ![ProcOf[t]] = @ + 1]
    BY <1>4, JoinWindowCalls DEF JoinWindow, KeysStay
  <2>2. CASE ProcOf[t] = p
    <3>1. t \notin Connected(p) /\ Connected(p)' = Connected(p) \cup {t} /\ conn'[p] = conn[p] + 1
      BY <2>1, <2>2 DEF Connected, Of, Others, At, Moves, Types
    <3> QED BY <1>0, <3>1, Counted, Added
  <2>3. CASE ProcOf[t] # p
    <3>1. Connected(p)' = Connected(p) /\ conn'[p] = conn[p]
      BY <2>1, <2>3 DEF Connected, Of, Others, At, Types
    <3> QED BY <1>1, <3>1
  <2> QED BY <2>2, <2>3
<1>5. ASSUME NEW t \in Thread, Release(t) PROVE conn'[p] = Cardinality(Connected(p)')
  <2>1. /\ Others(t) /\ At(t, "running") /\ call'[t].stage # "running"
        /\ call[t].key = KeyNow(t)
    BY <1>5, ReleaseCalls DEF Moves, KeysStay, At
  <2>2. conn' = [conn EXCEPT ![ProcOf[t]] = IF KeyNow(t) = "vendor" /\ @ > 0 THEN @ - 1 ELSE @]
    BY <1>5 DEF Release
  <2>3. CASE ProcOf[t] = p /\ call[t].key = "vendor"
    <3>1. t \in Connected(p) /\ Connected(p)' = Connected(p) \ {t}
      BY <2>1, <2>3 DEF Connected, Of, Others, At
    <3>2. Cardinality(Connected(p)') = Cardinality(Connected(p)) - 1
          /\ Cardinality(Connected(p)') \in Nat
      BY <1>0, <3>1, Counted, Dropped, FS_CardinalityType
    <3>3. conn[p] > 0
      BY <1>0, <3>2
    <3> QED BY <1>0, <2>1, <2>2, <2>3, <3>2, <3>3 DEF Types
  <2>4. CASE ~(ProcOf[t] = p /\ call[t].key = "vendor")
    <3>1. Connected(p)' = Connected(p)
      BY <2>1, <2>4 DEF Connected, Of, Others, At
    <3>2. conn'[p] = conn[p]
      BY <2>1, <2>2, <2>4 DEF Types
    <3> QED BY <1>1, <3>1, <3>2
  <2> QED BY <2>3, <2>4
<1>6. ASSUME NEW q \in Proc, Crash(q) PROVE conn'[p] = Cardinality(Connected(p)')
  <2>1. CASE p = q
    <3>1. Connected(p)' = {} /\ conn'[p] = 0
      BY <1>6, <2>1, CrashCalls DEF Crash, Connected, At, Types
    <3> QED BY <3>1, NoneCounted
  <2>2. CASE p # q
    <3>1. Connected(p)' = Connected(p) /\ conn'[p] = conn[p]
      BY <1>6, <2>2, CrashCalls DEF Crash, Connected, Of, At, Types
    <3> QED BY <1>1, <3>1
  <2> QED BY <2>1, <2>2
<1>7. CASE Apart \/ LearnTariff
  BY <1>1, <1>7 DEF Apart, LearnTariff, Connected, Of, At
<1> QED BY <1>2, <1>3, <1>4, <1>5, <1>6, <1>7, ApartSteps

(* How the riders of one key change, whatever the key.                     *)
LEMMA RidersStay ==
  ASSUME NEW t \in Thread, Others(t), NEW p \in Proc, NEW k \in Key,
         \/ ProcOf[t] # p
         \/ call[t].stage \notin Admitted /\ call'[t].stage \notin Admitted
         \/ /\ call[t].stage \in Admitted /\ call'[t].stage \in Admitted
            /\ call'[t].key = call[t].key
         \/ call[t].key # k /\ call'[t].key # k
         \/ call[t].key # k /\ call'[t].stage \notin Admitted
  PROVE  Riding(p, k)' = Riding(p, k)
BY DEF Riding, Of, Others

LEMMA RiderJoins ==
  ASSUME NEW t \in Thread, Others(t), NEW p \in Proc, NEW k \in Key, ProcOf[t] = p,
         call[t].stage \notin Admitted, call'[t].stage \in Admitted, call'[t].key = k
  PROVE  Cardinality(Riding(p, k)') = Cardinality(Riding(p, k)) + 1
<1>1. t \notin Riding(p, k) /\ Riding(p, k)' = Riding(p, k) \cup {t} /\ Riding(p, k) \subseteq Thread
  BY DEF Riding, Of, Others
<1> QED BY <1>1, Counted, Added

LEMMA RiderLeaves ==
  ASSUME NEW t \in Thread, Others(t), NEW p \in Proc, NEW k \in Key, ProcOf[t] = p,
         call[t].stage \in Admitted, call[t].key = k, call'[t].stage \notin Admitted
  PROVE  /\ Cardinality(Riding(p, k)') = Cardinality(Riding(p, k)) - 1
         /\ Cardinality(Riding(p, k)) \in Nat /\ Cardinality(Riding(p, k)) > 0
<1>1. t \in Riding(p, k) /\ Riding(p, k)' = Riding(p, k) \ {t} /\ Riding(p, k) \subseteq Thread
  BY DEF Riding, Of, Others
<1>2. Cardinality(Riding(p, k)') \in Nat
  BY <1>1, Counted
<1> QED BY <1>1, <1>2, Counted, Dropped

(* A permit leaves the bucket of the key, and one rider more has it.       *)
LEMMA PermitTaken ==
  ASSUME Types, KeysStay, Buckets, LaneExact, VendorEnough, NEW t \in Thread, TakePermit(t)
  PROVE  LaneExact' /\ VendorEnough'
<1> DEFINE b == call[t].bucket
           k == call[t].key
           q == ProcOf[t]
<1>1. Others(t) /\ Moves(t, "waiting", IF k = "lane" THEN "rated" ELSE "bucketed")
  BY TakePermitCalls
<1>2. call[t].stage \notin Admitted /\ call'[t].stage \in Admitted /\ call'[t].key = k
  BY <1>1 DEF Moves, Admitted
<1>3. b \in Bucket /\ k \in Key /\ b[1] = k /\ q \in Proc /\ tariff' = tariff /\ tariff \in Tariff
  BY ThreadAssumption DEF Types, Call, TakePermit, KeysStay, learned
<1>4. free' = [free EXCEPT ![q] = [free[q] EXCEPT ![b] = @ - 1]]
  BY DEF TakePermit
<1>5. k = "lane" => b = <<"lane", 0>>
  BY <1>3 DEF Buckets, TakePermit
<1> HIDE DEF b, k
<1>6. ASSUME NEW p \in Proc, NEW j \in Key
      PROVE  /\ Cardinality(Riding(p, j)) \in Nat
             /\ Cardinality(Riding(p, j)') = Cardinality(Riding(p, j)) + (IF p = q /\ j = k THEN 1 ELSE 0)
  <2>1. Cardinality(Riding(p, j)) \in Nat
    BY Counted DEF Riding, Of
  <2>2. CASE p = q /\ j = k
    BY <1>1, <1>2, <2>1, <2>2, RiderJoins
  <2>3. CASE ~(p = q /\ j = k)
    <3>1. Riding(p, j)' = Riding(p, j)
      BY <1>1, <1>2, <2>3, RidersStay DEF Riding, Of, Others
    <3> QED BY <2>1, <2>3, <3>1
  <2> QED BY <2>2, <2>3
<1>7. ASSUME NEW p \in Proc, NEW c \in Bucket
      PROVE  /\ free[p][c] \in Nat
             /\ free'[p][c] = IF p = q /\ c = b THEN free[p][c] - 1 ELSE free[p][c]
  BY <1>3, <1>4 DEF Types
<1>8. ASSUME NEW p \in Proc
      PROVE  free'[p][<<"lane", 0>>] + Cardinality(Riding(p, "lane")') = LaneLimit
  <2>1. <<"lane", 0>> \in Bucket /\ "lane" \in Key /\ LaneLimit \in Nat
    BY Limits DEF Bucket, Key, Tariff
  <2>2. free[p][<<"lane", 0>>] + Cardinality(Riding(p, "lane")) = LaneLimit
    BY DEF LaneExact
  <2>3. b = <<"lane", 0>> <=> k = "lane"
    BY <1>3, <1>5
  <2> QED BY <1>6, <1>7, <2>1, <2>2, <2>3
<1>9. ASSUME NEW p \in Proc
      PROVE  free'[p][<<"vendor", tariff>>] + Cardinality(Riding(p, "vendor")') >= VendorLimit
  <2>1. <<"vendor", tariff>> \in Bucket /\ "vendor" \in Key /\ VendorLimit \in Nat
    BY <1>3, Limits DEF Bucket, Key
  <2>2. free[p][<<"vendor", tariff>>] + Cardinality(Riding(p, "vendor")) >= VendorLimit
    BY DEF VendorEnough
  <2>3. b = <<"vendor", tariff>> => k = "vendor"
    BY <1>3
  <2> QED BY <1>6, <1>7, <2>1, <2>2, <2>3
<1> QED BY <1>3, <1>8, <1>9 DEF LaneExact, VendorEnough

(* The permit comes back to the bucket the key has now.                    *)
LEMMA PermitBack ==
  ASSUME Types, KeysStay, LaneExact, VendorEnough, NEW t \in Thread, Others(t),
         call[t].stage \in Admitted, call'[t].stage \notin Admitted, free' = Freed(t),
         tariff' = tariff
  PROVE  LaneExact' /\ VendorEnough'
<1> DEFINE b == BucketNow(t)
           k == call[t].key
           q == ProcOf[t]
<1>1. /\ b \in Bucket /\ k \in Key /\ b[1] = k /\ q \in Proc /\ tariff \in Tariff /\ KeyNow(t) = k
      /\ (k = "vendor" => b = <<"vendor", tariff>>) /\ (k = "lane" => b = <<"lane", 0>>)
  <2>1. call[t].stage \notin {"idle", "asked"}
    BY DEF Admitted
  <2>2. KeyNow(t) = k /\ k \in Key
    BY <2>1 DEF KeysStay, Types, Call
  <2>3. b = <<k, IF k = "lane" THEN 0 ELSE tariff>>
    BY <2>2 DEF BucketNow
  <2> QED BY <2>2, <2>3, NowTypes, ThreadAssumption DEF Types, Bucket
<1>2. free' = [free EXCEPT ![q] = [free[q] EXCEPT ![b] = IF @ < Limit(k) THEN @ + 1 ELSE @]]
  BY <1>1 DEF Freed
<1> HIDE DEF b, k
<1>3. ASSUME NEW p \in Proc, NEW c \in Bucket
      PROVE  /\ free[p][c] \in Nat
             /\ free'[p][c] = IF p = q /\ c = b /\ free[p][c] < Limit(k) THEN free[p][c] + 1 ELSE free[p][c]
  BY <1>1, <1>2 DEF Types
<1>4. ASSUME NEW p \in Proc, NEW j \in Key
      PROVE  /\ Cardinality(Riding(p, j)) \in Nat
             /\ p = q /\ j = k => /\ Cardinality(Riding(p, j)') = Cardinality(Riding(p, j)) - 1
                                  /\ Cardinality(Riding(p, j)) > 0
             /\ ~(p = q /\ j = k) => Cardinality(Riding(p, j)') = Cardinality(Riding(p, j))
  <2>1. Cardinality(Riding(p, j)) \in Nat
    BY Counted DEF Riding, Of
  <2>2. CASE p = q /\ j = k
    BY <2>1, <2>2, RiderLeaves DEF k
  <2>3. CASE ~(p = q /\ j = k)
    <3>1. Riding(p, j)' = Riding(p, j)
      BY <2>3, RidersStay DEF k
    <3> QED BY <2>1, <2>3, <3>1
  <2> QED BY <2>2, <2>3
<1>5. ASSUME NEW p \in Proc
      PROVE  free'[p][<<"lane", 0>>] + Cardinality(Riding(p, "lane")') = LaneLimit
  <2>1. <<"lane", 0>> \in Bucket /\ "lane" \in Key /\ LaneLimit \in Nat /\ Limit("lane") = LaneLimit
    BY Limits DEF Bucket, Key, Tariff, Limit
  <2>2. free[p][<<"lane", 0>>] + Cardinality(Riding(p, "lane")) = LaneLimit
    BY DEF LaneExact
  <2>3. b = <<"lane", 0>> <=> k = "lane"
    BY <1>1
  <2>4. CASE p = q /\ k = "lane"
    BY <1>3, <1>4, <2>1, <2>2, <2>3, <2>4
  <2>5. CASE ~(p = q /\ k = "lane")
    BY <1>3, <1>4, <2>1, <2>2, <2>3, <2>5
  <2> QED BY <2>4, <2>5
<1>6. ASSUME NEW p \in Proc
      PROVE  free'[p][<<"vendor", tariff>>] + Cardinality(Riding(p, "vendor")') >= VendorLimit
  <2>1. /\ <<"vendor", tariff>> \in Bucket /\ "vendor" \in Key /\ VendorLimit \in Nat
        /\ Limit("vendor") = VendorLimit
    BY <1>1, Limits DEF Bucket, Key, Limit
  <2>2. free[p][<<"vendor", tariff>>] + Cardinality(Riding(p, "vendor")) >= VendorLimit
    BY DEF VendorEnough
  <2>3. b = <<"vendor", tariff>> <=> k = "vendor"
    BY <1>1
  <2>4. CASE p = q /\ k = "vendor"
    BY <1>3, <1>4, <2>1, <2>2, <2>3, <2>4
  <2>5. CASE ~(p = q /\ k = "vendor")
    BY <1>3, <1>4, <2>1, <2>2, <2>3, <2>5
  <2> QED BY <2>4, <2>5
<1> QED BY <1>5, <1>6 DEF LaneExact, VendorEnough

LEMMA PermitsStep ==
  ASSUME Types, Buckets, PermitsExact, [Next]_vars, ~cooling'
  PROVE  PermitsExact'
<1> USE DEF PermitsExact
<1>1. KeysStay' /\ ConnExact'
  BY KeysStayStep, ConnStep
<1> SUFFICES LaneExact' /\ VendorEnough'
  BY <1>1
<1>2. "lane" \in Key /\ "vendor" \in Key
  BY DEF Key
<1>3. ASSUME free' = free, tariff' = tariff,
             \A p \in Proc, k \in Key : Riding(p, k)' = Riding(p, k)
      PROVE  LaneExact' /\ VendorEnough'
  BY <1>2, <1>3 DEF LaneExact, VendorEnough
<1>4. ASSUME NEW t \in Thread, Others(t), free' = free, tariff' = tariff,
             \/ call[t].stage \notin Admitted /\ call'[t].stage \notin Admitted
             \/ /\ call[t].stage \in Admitted /\ call'[t].stage \in Admitted
                /\ call'[t].key = call[t].key
      PROVE  LaneExact' /\ VendorEnough'
  BY <1>3, <1>4, RidersStay
<1>5. ASSUME NEW t \in Thread,
             \/ \E skip \in SkipsOf[t] : Ask(t, skip)
             \/ TakeGlobal(t) \/ ChooseBucket(t) \/ ReserveRate(t) \/ TakeSlot(t)
             \/ JoinWindow(t) \/ Release(t)
      PROVE  LaneExact' /\ VendorEnough'
  <2>1. free' = free /\ tariff' = tariff
    BY <1>5 DEF Ask, TakeGlobal, ChooseBucket, ReserveRate, TakeSlot, JoinWindow, Release, learned
  <2>2. Others(t)
    BY <1>5, AskCalls, TakeGlobalCalls, ChooseBucketCalls, ReserveRateCalls, TakeSlotCalls,
       JoinWindowCalls, ReleaseCalls
  <2>3. \/ call[t].stage \notin Admitted /\ call'[t].stage \notin Admitted
        \/ /\ call[t].stage \in Admitted /\ call'[t].stage \in Admitted
           /\ call'[t].key = call[t].key
    BY <1>5, AskCalls, TakeGlobalCalls, ChooseBucketCalls, ReserveRateCalls, TakeSlotCalls,
       JoinWindowCalls, ReleaseCalls DEF Admitted, Moves
  <2> QED BY <1>4, <2>1, <2>2, <2>3
<1>6. ASSUME NEW t \in Thread, TakePermit(t) PROVE LaneExact' /\ VendorEnough'
  BY <1>6, PermitTaken
<1>7. ASSUME NEW t \in Thread, ReturnPermits(t) PROVE LaneExact' /\ VendorEnough'
  <2>1. /\ Others(t) /\ call[t].stage \in Admitted /\ call'[t].stage \notin Admitted
        /\ free' = Freed(t) /\ tariff' = tariff
    BY <1>7, LeavingCalls DEF ReturnPermits, At, Admitted, learned
  <2> QED BY <2>1, PermitBack
<1>8. ASSUME NEW t \in Thread, GiveUp(t) PROVE LaneExact' /\ VendorEnough'
  <2>1. Others(t) /\ call'[t].stage \notin Admitted /\ tariff' = tariff
    BY <1>8, LeavingCalls DEF GiveUp, Admitted, learned
  <2>2. CASE HasBucket(t)
    <3>1. call[t].stage \in Admitted /\ free' = Freed(t)
      BY <1>8, <2>2 DEF GiveUp, HasBucket, Admitted
    <3> QED BY <2>1, <3>1, PermitBack
  <2>3. CASE ~HasBucket(t)
    <3>1. call[t].stage \notin Admitted /\ free' = free
      BY <1>8, <2>3 DEF GiveUp, HasBucket, Admitted
    <3> QED BY <1>4, <2>1, <3>1
  <2> QED BY <2>2, <2>3
<1>9. ASSUME NEW q \in Proc, Crash(q) PROVE LaneExact' /\ VendorEnough'
  <2>1. free' = [free EXCEPT ![q] = Full] /\ tariff' = tariff /\ tariff \in Tariff
    BY <1>9 DEF Crash, learned, Types
  <2>2. ASSUME NEW k \in Key PROVE Riding(q, k)' = {}
    BY <1>9, CrashCalls DEF Riding, Of, Admitted
  <2>3. ASSUME NEW k \in Key, NEW p \in Proc, p # q PROVE Riding(p, k)' = Riding(p, k)
    BY <1>9, <2>3, CrashCalls DEF Riding, Of, Admitted
  <2>4. <<"lane", 0>> \in Bucket /\ <<"vendor", tariff>> \in Bucket
    BY <2>1, Limits DEF Bucket, Key, Tariff
  <2>5. Full[<<"lane", 0>>] = LaneLimit /\ Full[<<"vendor", tariff>>] = VendorLimit
    BY <2>4 DEF Full, Limit
  <2>6. /\ free'[q] = Full /\ \A p \in Proc : p # q => free'[p] = free[p]
        /\ Cardinality(Riding(q, "lane")') = 0 /\ Cardinality(Riding(q, "vendor")') = 0
    BY <1>2, <2>1, <2>2, NoneCounted DEF Types
  <2>7. LaneLimit \in Nat /\ VendorLimit \in Nat
    BY Limits
  <2>8. ASSUME NEW p \in Proc
        PROVE  free'[p][<<"lane", 0>>] + Cardinality(Riding(p, "lane")') = LaneLimit
    <3>1. CASE p = q
      BY <2>5, <2>6, <2>7, <3>1
    <3>2. CASE p # q
      <4>1. Riding(p, "lane")' = Riding(p, "lane") /\ free'[p] = free[p]
        BY <1>2, <2>3, <2>6, <3>2
      <4> QED BY <4>1 DEF LaneExact
    <3> QED BY <3>1, <3>2
  <2>9. ASSUME NEW p \in Proc
        PROVE  free'[p][<<"vendor", tariff>>] + Cardinality(Riding(p, "vendor")') >= VendorLimit
    <3>1. CASE p = q
      BY <2>5, <2>6, <2>7, <3>1
    <3>2. CASE p # q
      <4>1. Riding(p, "vendor")' = Riding(p, "vendor") /\ free'[p] = free[p]
        BY <1>2, <2>3, <2>6, <3>2
      <4> QED BY <4>1 DEF VendorEnough
    <3> QED BY <3>1, <3>2
  <2> QED BY <2>1, <2>8, <2>9 DEF LaneExact, VendorEnough
<1>10. CASE LearnTariff
  <2>1. free' = free /\ call' = call /\ tariff' = tariff + 1 /\ tariff < MaxTariff
    BY <1>10 DEF LearnTariff
  <2>2. tariff + 1 \in Tariff /\ tariff + 1 > tariff /\ VendorLimit \in Nat
    BY <2>1, Limits DEF Types, Tariff
  <2>3. \A p \in Proc : free[p][<<"vendor", tariff + 1>>] = VendorLimit
    BY <2>2 DEF Buckets
  <2>4. \A p \in Proc, k \in Key : Riding(p, k)' = Riding(p, k) /\ Cardinality(Riding(p, k)) \in Nat
    BY <2>1, Counted DEF Riding, Of
  <2>5. LaneExact'
    BY <1>2, <2>1, <2>4 DEF LaneExact
  <2>6. VendorEnough'
    BY <1>2, <2>1, <2>2, <2>3, <2>4 DEF VendorEnough
  <2> QED BY <2>5, <2>6
<1>11. CASE Apart
  BY <1>3, <1>11 DEF Apart, Riding, Of
<1> QED BY <1>5, <1>6, <1>7, <1>8, <1>9, <1>10, <1>11, ApartSteps

-----------------------------------------------------------------------------
(* The inductive invariant, and the properties of the runs.                *)

GovernorInv ==
  /\ Types /\ HoldersExact /\ SlotCap /\ GlobalExact /\ Buckets
  /\ spells = 0 => PermitsExact

LEMMA InitInv == Init => GovernorInv
<1> SUFFICES ASSUME Init PROVE GovernorInv
  OBVIOUS
<1>1. \A t \in Thread : call[t].stage = "idle"
  BY DEF Init, NoCall
<1>2. HoldersExact
  BY <1>1 DEF HoldersExact, Slotted, Init
<1>3. SlotCap
  BY NoneCounted, Limits DEF SlotCap, Init
<1>4. GlobalExact
  <2>1. \A p \in Proc : {t \in Of(p) : call[t].stage \notin {"idle", "asked"}} = {}
    BY <1>1 DEF Of
  <2> QED BY <2>1, NoneCounted, Limits DEF GlobalExact, Init
<1>5. \A p \in Proc : free[p] = Full
  BY DEF Init
<1>6. Buckets
  <2>1. \A v \in Tariff : Full[<<"vendor", v>>] = VendorLimit
    BY DEF Full, Bucket, Key, Limit
  <2> QED BY <1>1, <1>5, <2>1 DEF Buckets, At
<1>7. PermitsExact
  <2>1. KeysStay
    BY <1>1 DEF KeysStay, At, Init
  <2>2. \A p \in Proc, k \in Key : Riding(p, k) = {} /\ Connected(p) = {}
    BY <1>1 DEF Riding, Of, Connected, Admitted, At
  <2>3. "lane" \in Key /\ "vendor" \in Key /\ tariff = 0 /\ 0 \in Tariff
    BY Limits DEF Key, Tariff, Init
  <2>4. Full[<<"lane", 0>>] = LaneLimit /\ Full[<<"vendor", 0>>] = VendorLimit
    BY <2>3 DEF Full, Bucket, Limit
  <2>5. ConnExact
    BY <2>2, <2>3, NoneCounted DEF ConnExact, Init
  <2>6. LaneExact /\ VendorEnough
    BY <1>5, <2>2, <2>3, <2>4, NoneCounted, Limits DEF LaneExact, VendorEnough
  <2> QED BY <2>1, <2>5, <2>6 DEF PermitsExact
<1> QED BY <1>2, <1>3, <1>4, <1>6, <1>7, InitTypes DEF GovernorInv

LEMMA InvStep == GovernorInv /\ [Next]_vars => GovernorInv'
<1> SUFFICES ASSUME GovernorInv, [Next]_vars PROVE GovernorInv'
  OBVIOUS
<1>1. Types /\ HoldersExact /\ SlotCap /\ GlobalExact /\ Buckets
  BY DEF GovernorInv
<1>2. Types' /\ HoldersExact' /\ SlotCap' /\ GlobalExact' /\ Buckets'
  BY <1>1, TypesStep, HoldersStep, SlotCapStep, GlobalStep, BucketsStep
<1>3. ASSUME spells' = 0 PROVE PermitsExact'
  <2>1. UNCHANGED <<cooling, spells>> \/ LaneCools \/ LaneRecovers
    BY DEF Next, vars, Ask, TakeGlobal, ChooseBucket, TakePermit, ReserveRate, TakeSlot,
       JoinWindow, Release, ReturnPermits, GiveUp, Crash, Shrink, Grow, LearnTariff, WindowMoves, lane
  <2>2. ~LaneCools
    <3>1. spells \in Nat
      BY <1>1 DEF Types
    <3> QED BY <1>3, <3>1 DEF LaneCools
  <2>3. spells = 0 /\ (cooling' = cooling \/ ~cooling')
    BY <1>3, <2>1, <2>2 DEF LaneRecovers
  <2>4. PermitsExact /\ ~cooling'
    BY <2>3 DEF GovernorInv, PermitsExact, KeysStay
  <2> QED BY <1>1, <2>4, PermitsStep
<1> QED BY <1>2, <1>3 DEF GovernorInv

LEMMA InvHolds == Spec => []GovernorInv
<1> QED BY InitInv, InvStep, PTL DEF Spec

LEMMA InvTypes == GovernorInv => TypeOK
<1> SUFFICES ASSUME GovernorInv PROVE TypeOK
  OBVIOUS
<1>1. Types /\ GlobalExact
  BY DEF GovernorInv
<1>2. ASSUME NEW p \in Proc PROVE global[p] \in 0 .. GlobalLimit
  <2>1. Past(p) \subseteq Thread
    BY DEF Past, Of
  <2>2. global[p] + Cardinality(Past(p)) = GlobalLimit /\ global[p] \in Nat
    BY <1>1 DEF GlobalExact, Past, Types
  <2> QED BY <2>1, <2>2, Counted, Limits
<1>3. global \in [Proc -> 0 .. GlobalLimit]
  BY <1>1, <1>2 DEF Types
<1> QED BY <1>1, <1>3 DEF Types, TypeOK, FreeType

LEMMA InvSlots == GovernorInv => SharedCapHeld /\ SlotsExact
<1> SUFFICES ASSUME GovernorInv PROVE SharedCapHeld /\ SlotsExact
  OBVIOUS
<1>1. Types /\ HoldersExact /\ SlotCap
  BY DEF GovernorInv
<1>2. SharedCapHeld
  BY <1>1 DEF HoldersExact, SlotCap, SharedCapHeld, Slotted
<1>3. SlotsExact
  BY <1>1 DEF HoldersExact, SlotsExact, Slotted, Types, Call
<1> QED BY <1>2, <1>3

LEMMA InvPermits == GovernorInv => PermitsReturn
<1> SUFFICES ASSUME GovernorInv, spells = 0, NEW p \in Proc
             PROVE  /\ conn[p] = Cardinality(Connected(p))
                    /\ Quiet(p) => /\ free[p][<<"lane", 0>>] = LaneLimit
                                   /\ free[p][<<"vendor", tariff>>] = VendorLimit
  BY DEF PermitsReturn, Connected
<1>1. Types /\ ConnExact /\ LaneExact /\ VendorEnough
  BY DEF GovernorInv, PermitsExact
<1>2. ASSUME Quiet(p)
      PROVE  free[p][<<"lane", 0>>] = LaneLimit /\ free[p][<<"vendor", tariff>>] = VendorLimit
  <2>1. Cardinality(Riding(p, "lane")) = 0 /\ Cardinality(Riding(p, "vendor")) = 0
    <3>1. Riding(p, "lane") = {} /\ Riding(p, "vendor") = {}
      BY <1>2 DEF Quiet, Riding, At, Admitted
    <3> QED BY <3>1, NoneCounted
  <2>2. <<"lane", 0>> \in Bucket /\ <<"vendor", tariff>> \in Bucket
    BY <1>1, Limits DEF Types, Bucket, Key, Tariff
  <2>3. /\ free[p][<<"lane", 0>>] \in Nat /\ free[p][<<"vendor", tariff>>] \in Nat
        /\ free[p][<<"vendor", tariff>>] <= VendorLimit
    BY <1>1, <2>2 DEF Types, FreeType, Limit
  <2> QED BY <1>1, <2>1, <2>3, Limits DEF LaneExact, VendorEnough
<1> QED BY <1>1, <1>2 DEF ConnExact

(* Every variable has its type; in particular no bucket ever holds more    *)
(* permits than its key's limit, and no process more global permits than   *)
(* global_concurrency.                                                     *)
THEOREM TypeCorrect == Spec => []TypeOK
<1> QED BY InvHolds, InvTypes, PTL

(* _acquire_xp keeps the calls under way on a key, over all processes,     *)
(* within the number of its lock files.                                    *)
THEOREM SharedCap == Spec => []SharedCapHeld
<1> QED BY InvHolds, InvSlots, PTL

(* Whatever way a call leaves acquire(), admit() or release(), its flock   *)
(* slot is given back, and never before.                                   *)
THEOREM SlotsUnwound == Spec => []SlotsExact
<1> QED BY InvHolds, InvSlots, PTL

(* No path loses or forges a permit of the global semaphore.               *)
THEOREM GlobalPermits == Spec => []GlobalExact
<1>1. GovernorInv => GlobalExact
  BY DEF GovernorInv
<1> QED BY InvHolds, <1>1, PTL

(* While the lane has never cooled, a process without calls has its        *)
(* permits back, although release() looks the bucket up anew, and its      *)
(* connection count is the number of vendor calls that run.                *)
THEOREM PermitsComeBack == Spec => []PermitsReturn
<1> QED BY InvHolds, InvPermits, PTL

(* shrink_connection_window never writes a cap of zero, which _conn_admit  *)
(* reads as no cap.                                                        *)
THEOREM CapStays == Spec => LearnedCapStays
<1>1. GovernorInv /\ [Next]_vars => [cap > 0 => cap' > 0]_vars
  <2> SUFFICES ASSUME GovernorInv, [Next]_vars, cap > 0 PROVE cap' > 0
    OBVIOUS
  <2>1. Types
    BY DEF GovernorInv
  <2>2. ASSUME NEW p \in Proc, Shrink(p) PROVE cap' > 0
    BY <2>1, <2>2, ShrunkType, Limits DEF Shrink
  <2>3. ASSUME NEW p \in Proc, Grow(p) PROVE cap' > 0
    BY <2>1, <2>3 DEF Grow, Types
  <2>4. cap' = cap \/ \E p \in Proc : Shrink(p) \/ Grow(p)
    BY DEF Next, vars, Ask, TakeGlobal, ChooseBucket, TakePermit, ReserveRate, TakeSlot,
       JoinWindow, Release, ReturnPermits, GiveUp, Crash, LearnTariff, WindowMoves, LaneCools,
       LaneRecovers, learned
  <2> QED BY <2>2, <2>3, <2>4
<1> QED BY InvHolds, <1>1, PTL DEF Spec, LearnedCapStays
=============================================================================
