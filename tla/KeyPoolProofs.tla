--------------------------- MODULE KeyPoolProofs ---------------------------
(***************************************************************************)
(* What holds of the key pool and of the two modules that use it, for      *)
(* every set of keys, models and callers or requests, and every            *)
(* concurrency limit and cooling duration.                                 *)
(*                                                                         *)
(* KeyPool: a slot is counted for its holder only, and the coolings        *)
(* outlive every reset of the pool.                                        *)
(*                                                                         *)
(* KeyLifecycle, the pool between the store, the reloads and the requests: *)
(* capacity is not eaten up, and coolings survive every reload.            *)
(*                                                                         *)
(* RequestExecution, whatever the upstreams answer, the clients cancel and *)
(* the other requests do to the keys: the request contract, the bill and   *)
(* the end of a cancelled request.  A request is touched by its own steps  *)
(* only, apart from the pool, so the invariant speaks of one request's     *)
(* record and key at a time.                                               *)
(***************************************************************************)
EXTENDS KeyLifecycle, RequestExecution, FiniteSetTheorems, TLAPS

-----------------------------------------------------------------------------
(* How the holders of a key change when one caller takes or drops it.      *)

LEMMA HoldersFinite ==
  ASSUME NEW k
  PROVE  IsFiniteSet(Holders(k)) /\ Cardinality(Holders(k)) \in Nat
<1>1. Holders(k) \in SUBSET Callers
  BY DEF Holders
<1> QED
  BY <1>1, PoolAssumption, FS_Subset, FS_CardinalityType

\* A caller without a key that takes k adds one holder to k, none elsewhere.
LEMMA HoldersGrow ==
  ASSUME NEW c \in Callers, NEW k \in Keys, holds[c] = NoKey,
         holds \in [Callers -> Keys \cup {NoKey}],
         holds' = [holds EXCEPT ![c] = k],
         NEW j \in Keys
  PROVE  Cardinality(Holders(j)') =
           IF j = k THEN Cardinality(Holders(j)) + 1 ELSE Cardinality(Holders(j))
<1>1. NoKey \notin Keys
  BY PoolAssumption
<1>2. Holders(j)' = IF j = k THEN Holders(j) \cup {c} ELSE Holders(j)
  BY <1>1 DEF Holders
<1>3. c \notin Holders(j)
  BY <1>1 DEF Holders
<1>4. IsFiniteSet(Holders(j))
  BY HoldersFinite
<1> QED
  BY <1>2, <1>3, <1>4, FS_AddElement

\* A caller that drops its key leaves that key with one holder less.
LEMMA HoldersShrink ==
  ASSUME NEW c \in Callers, holds[c] # NoKey,
         holds \in [Callers -> Keys \cup {NoKey}],
         holds' = [holds EXCEPT ![c] = NoKey],
         NEW j \in Keys
  PROVE  Cardinality(Holders(j)') =
           IF j = holds[c] THEN Cardinality(Holders(j)) - 1
                           ELSE Cardinality(Holders(j))
<1>1. NoKey \notin Keys
  BY PoolAssumption
<1>2. Holders(j)' = Holders(j) \ {c}
  BY <1>1 DEF Holders
<1>3. c \in Holders(j) <=> j = holds[c]
  BY DEF Holders
<1>4. IsFiniteSet(Holders(j))
  BY HoldersFinite
<1> QED
  BY <1>2, <1>3, <1>4, FS_RemoveElement

LEMMA UnexpiredType ==
  ASSUME NEW S, NEW d \in [S -> Nat]
  PROVE  Unexpired(d) \in [S -> Nat]
BY DEF Unexpired

-----------------------------------------------------------------------------
(* Type correctness.                                                       *)

LEMMA InitType == PoolInit => PoolTypeOK
BY DEF PoolInit, PoolTypeOK

LEMMA StepType == PoolTypeOK /\ [PoolNext]_poolVars => PoolTypeOK'
<1> SUFFICES ASSUME PoolTypeOK, [PoolNext]_poolVars PROVE PoolTypeOK'
  OBVIOUS
<1> USE DEF PoolTypeOK
<1> Limits \subseteq Nat /\ Durations \subseteq Nat
  BY PoolAssumption
<1>0. PurgeExpired => /\ cooling' \in [Keys -> Nat]
                      /\ modelCooling' \in [Keys \X Models -> Nat]
  BY UnexpiredType DEF PurgeExpired
<1>1. ASSUME NEW c \in Callers, NEW k \in Keys, NEW m \in Models \cup {NoModel},
             NEW limit \in Limits, AcquireSome(c, k, m, limit)
      PROVE  PoolTypeOK'
  BY <1>0, <1>1 DEF AcquireSome, Grant
<1>2. ASSUME NEW c \in Callers, NEW m \in Models \cup {NoModel},
             NEW limit \in Limits, AcquireNone(c, m, limit)
      PROVE  PoolTypeOK'
  BY <1>0, <1>2 DEF AcquireNone
<1>3. ASSUME NEW c \in Callers, NEW k \in Keys, NEW m \in Models \cup {NoModel},
             NEW limit \in Limits, TryAcquireSpecificKey(c, k, m, limit)
      PROVE  PoolTypeOK'
  BY <1>0, <1>3 DEF TryAcquireSpecificKey, Grant
<1>4. ASSUME NEW c \in Callers, ReleaseKey(c) PROVE PoolTypeOK'
  BY <1>4 DEF ReleaseKey
<1>5. ASSUME NEW k \in Keys, NEW d \in Durations, MarkCooling(k, d)
      PROVE  PoolTypeOK'
  <2>1. now + d \in Nat
    OBVIOUS
  <2> QED
    BY <1>5, <2>1 DEF MarkCooling
<1>6. ASSUME NEW k \in Keys, NEW m \in Models, NEW d \in Durations,
             MarkModelCooling(k, m, d)
      PROVE  PoolTypeOK'
  <2>1. now + d \in Nat
    OBVIOUS
  <2> QED
    BY <1>6, <2>1 DEF MarkModelCooling
<1>7. ASSUME NEW k \in Keys, MarkDead(k) PROVE PoolTypeOK'
  BY <1>7 DEF MarkDead
<1>8. ASSUME NEW k \in Keys, AddKey(k) PROVE PoolTypeOK'
  BY <1>8 DEF AddKey
<1>9. CASE Reset
  BY <1>9 DEF Reset
<1>10. CASE CleanupExpired
  BY <1>0, <1>10 DEF CleanupExpired
<1>11. CASE Tick
  BY <1>11 DEF Tick
<1>12. CASE UNCHANGED poolVars
  BY <1>12 DEF poolVars
<1> QED
  BY <1>1, <1>2, <1>3, <1>4, <1>5, <1>6, <1>7, <1>8, <1>9, <1>10, <1>11, <1>12
  DEF PoolNext

\* The pool's variables keep their types.
THEOREM PoolTypeCorrect == PoolSpec => []PoolTypeOK
<1>1. PoolInit => PoolTypeOK
  BY InitType
<1>2. PoolTypeOK /\ [PoolNext]_poolVars => PoolTypeOK'
  BY StepType
<1> QED
  BY <1>1, <1>2, PTL DEF PoolSpec

-----------------------------------------------------------------------------
(* Slots.                                                                  *)

LEMMA InitSlots == PoolInit => NoPhantomSlot
BY HoldersFinite DEF PoolInit, NoPhantomSlot

LEMMA GrantSlots ==
  ASSUME PoolTypeOK, NoPhantomSlot, NEW c \in Callers, NEW k \in Keys, Grant(c, k)
  PROVE  NoPhantomSlot'
<1> SUFFICES ASSUME NEW j \in Keys
             PROVE  concurrency'[j] <= Cardinality(Holders(j)')
  BY DEF NoPhantomSlot
<1>1. Cardinality(Holders(j)') =
        IF j = k THEN Cardinality(Holders(j)) + 1 ELSE Cardinality(Holders(j))
  BY HoldersGrow DEF Grant, PoolTypeOK
<1>2. concurrency'[j] = IF j = k THEN concurrency[j] + 1 ELSE concurrency[j]
  BY DEF Grant, PoolTypeOK
<1>3. concurrency[j] \in Nat /\ Cardinality(Holders(j)) \in Nat
  BY HoldersFinite DEF PoolTypeOK
<1>4. concurrency[j] <= Cardinality(Holders(j))
  BY DEF NoPhantomSlot
<1> QED
  BY <1>1, <1>2, <1>3, <1>4

LEMMA ReleaseSlots ==
  ASSUME PoolTypeOK, NoPhantomSlot, NEW c \in Callers, ReleaseKey(c)
  PROVE  NoPhantomSlot'
<1> SUFFICES ASSUME NEW j \in Keys
             PROVE  concurrency'[j] <= Cardinality(Holders(j)')
  BY DEF NoPhantomSlot
<1>1. Cardinality(Holders(j)') =
        IF j = holds[c] THEN Cardinality(Holders(j)) - 1
                        ELSE Cardinality(Holders(j))
  BY HoldersShrink DEF ReleaseKey, PoolTypeOK
<1>2. concurrency'[j] = IF j = holds[c] /\ concurrency[j] > 0
                        THEN concurrency[j] - 1 ELSE concurrency[j]
  BY DEF ReleaseKey, PoolTypeOK
<1>3. concurrency[j] \in Nat /\ Cardinality(Holders(j)) \in Nat
  BY HoldersFinite DEF PoolTypeOK
<1>4. concurrency[j] <= Cardinality(Holders(j))
  BY DEF NoPhantomSlot
<1>5. j = holds[c] => Cardinality(Holders(j)) # 0
  <2>1. j = holds[c] => c \in Holders(j)
    BY DEF Holders
  <2> QED
    BY <2>1, HoldersFinite, FS_EmptySet
<1> QED
  BY <1>1, <1>2, <1>3, <1>4, <1>5

\* Lowering counters while every holder stays keeps the invariant.
LEMMA LowerSlots ==
  ASSUME PoolTypeOK, NoPhantomSlot, UNCHANGED holds,
         \A j \in Keys : concurrency'[j] \in {0, concurrency[j]}
  PROVE  NoPhantomSlot'
<1> SUFFICES ASSUME NEW j \in Keys
             PROVE  concurrency'[j] <= Cardinality(Holders(j)')
  BY DEF NoPhantomSlot
<1>1. Holders(j)' = Holders(j)
  BY DEF Holders
<1>2. Cardinality(Holders(j)) \in Nat
  BY HoldersFinite
<1> QED
  BY <1>1, <1>2 DEF NoPhantomSlot

LEMMA StepSlots ==
  PoolTypeOK /\ NoPhantomSlot /\ [PoolNext]_poolVars => NoPhantomSlot'
<1> SUFFICES ASSUME PoolTypeOK, NoPhantomSlot, [PoolNext]_poolVars
             PROVE  NoPhantomSlot'
  OBVIOUS
<1>1. ASSUME NEW c \in Callers, NEW k \in Keys, NEW m \in Models \cup {NoModel},
             NEW limit \in Limits, AcquireSome(c, k, m, limit)
      PROVE  NoPhantomSlot'
  BY <1>1, GrantSlots DEF AcquireSome
<1>2. ASSUME NEW c \in Callers, NEW m \in Models \cup {NoModel},
             NEW limit \in Limits, AcquireNone(c, m, limit)
      PROVE  NoPhantomSlot'
  BY <1>2, LowerSlots DEF AcquireNone
<1>3. ASSUME NEW c \in Callers, NEW k \in Keys, NEW m \in Models \cup {NoModel},
             NEW limit \in Limits, TryAcquireSpecificKey(c, k, m, limit)
      PROVE  NoPhantomSlot'
  BY <1>3, GrantSlots, LowerSlots DEF TryAcquireSpecificKey
<1>4. ASSUME NEW c \in Callers, ReleaseKey(c) PROVE NoPhantomSlot'
  BY <1>4, ReleaseSlots
<1>5. ASSUME NEW k \in Keys, NEW d \in Durations, MarkCooling(k, d)
      PROVE  NoPhantomSlot'
  BY <1>5, LowerSlots DEF MarkCooling
<1>6. ASSUME NEW k \in Keys, NEW m \in Models, NEW d \in Durations,
             MarkModelCooling(k, m, d)
      PROVE  NoPhantomSlot'
  BY <1>6, LowerSlots DEF MarkModelCooling
<1>7. ASSUME NEW k \in Keys, MarkDead(k) PROVE NoPhantomSlot'
  BY <1>7, LowerSlots DEF MarkDead, PoolTypeOK
<1>8. ASSUME NEW k \in Keys, AddKey(k) PROVE NoPhantomSlot'
  BY <1>8, LowerSlots DEF AddKey
<1>9. CASE Reset
  BY <1>9, LowerSlots DEF Reset
<1>10. CASE CleanupExpired
  BY <1>10, LowerSlots DEF CleanupExpired
<1>11. CASE Tick
  BY <1>11, LowerSlots DEF Tick
<1>12. CASE UNCHANGED poolVars
  BY <1>12, LowerSlots DEF poolVars
<1> QED
  BY <1>1, <1>2, <1>3, <1>4, <1>5, <1>6, <1>7, <1>8, <1>9, <1>10, <1>11, <1>12
  DEF PoolNext

\* No slot is ever counted without a request that holds the key.
THEOREM SlotsAreHeld == PoolSpec => []NoPhantomSlot
<1>1. PoolInit => PoolTypeOK /\ NoPhantomSlot
  BY InitType, InitSlots
<1>2. PoolTypeOK /\ NoPhantomSlot /\ [PoolNext]_poolVars
        => PoolTypeOK' /\ NoPhantomSlot'
  BY StepType, StepSlots
<1> QED
  BY <1>1, <1>2, PTL DEF PoolSpec

-----------------------------------------------------------------------------
(* Coolings.                                                               *)

LEMMA UnchangedCoolings ==
  ASSUME PoolTypeOK, now # 0, UNCHANGED <<cooling, modelCooling>>
  PROVE  KeepsRunningCoolings
BY DEF KeepsRunningCoolings, PoolTypeOK

LEMMA PurgeKeepsCoolings ==
  ASSUME PoolTypeOK, now # 0, PurgeExpired
  PROVE  KeepsRunningCoolings
BY DEF KeepsRunningCoolings, PoolTypeOK, PurgeExpired, Unexpired

LEMMA StepCoolings ==
  ASSUME PoolTypeOK, now # 0, PoolNext
  PROVE  KeepsRunningCoolings
<1> USE UnchangedCoolings, PurgeKeepsCoolings
<1>1. ASSUME NEW c \in Callers, NEW k \in Keys, NEW m \in Models \cup {NoModel},
             NEW limit \in Limits, AcquireSome(c, k, m, limit)
      PROVE  KeepsRunningCoolings
  BY <1>1 DEF AcquireSome
<1>2. ASSUME NEW c \in Callers, NEW m \in Models \cup {NoModel},
             NEW limit \in Limits, AcquireNone(c, m, limit)
      PROVE  KeepsRunningCoolings
  BY <1>2 DEF AcquireNone
<1>3. ASSUME NEW c \in Callers, NEW k \in Keys, NEW m \in Models \cup {NoModel},
             NEW limit \in Limits, TryAcquireSpecificKey(c, k, m, limit)
      PROVE  KeepsRunningCoolings
  BY <1>3 DEF TryAcquireSpecificKey
<1>4. ASSUME NEW c \in Callers, ReleaseKey(c) PROVE KeepsRunningCoolings
  BY <1>4 DEF ReleaseKey
<1>5. ASSUME NEW k \in Keys, NEW d \in Durations, MarkCooling(k, d)
      PROVE  KeepsRunningCoolings
  <2>1. now + d \in Nat \ {0}
    BY PoolAssumption DEF PoolTypeOK
  <2> QED
    BY <1>5, <2>1 DEF MarkCooling, KeepsRunningCoolings, PoolTypeOK
<1>6. ASSUME NEW k \in Keys, NEW m \in Models, NEW d \in Durations,
             MarkModelCooling(k, m, d)
      PROVE  KeepsRunningCoolings
  <2>1. now + d \in Nat \ {0}
    BY PoolAssumption DEF PoolTypeOK
  <2> QED
    BY <1>6, <2>1 DEF MarkModelCooling, KeepsRunningCoolings, PoolTypeOK
<1>7. ASSUME NEW k \in Keys, MarkDead(k) PROVE KeepsRunningCoolings
  BY <1>7 DEF MarkDead
<1>8. ASSUME NEW k \in Keys, AddKey(k) PROVE KeepsRunningCoolings
  BY <1>8 DEF AddKey
<1>9. CASE Reset
  BY <1>9 DEF Reset
<1>10. CASE CleanupExpired
  BY <1>10 DEF CleanupExpired
<1>11. CASE Tick
  BY <1>11 DEF Tick
<1> QED
  BY <1>1, <1>2, <1>3, <1>4, <1>5, <1>6, <1>7, <1>8, <1>9, <1>10, <1>11
  DEF PoolNext

LEMMA ClockStep == PoolTypeOK /\ now # 0 /\ [PoolNext]_poolVars => now' # 0
<1> SUFFICES ASSUME PoolTypeOK, now # 0, [PoolNext]_poolVars PROVE now' # 0
  OBVIOUS
<1>1. CASE Tick
  BY <1>1 DEF Tick, PoolTypeOK
<1>2. CASE \E c \in Callers, m \in Models \cup {NoModel}, limit \in Limits :
             \/ \E k \in Keys : AcquireSome(c, k, m, limit)
             \/ AcquireNone(c, m, limit)
             \/ \E k \in Keys : TryAcquireSpecificKey(c, k, m, limit)
  BY <1>2 DEF AcquireSome, AcquireNone, TryAcquireSpecificKey
<1>3. CASE \/ \E c \in Callers : ReleaseKey(c)
           \/ \E k \in Keys, d \in Durations : MarkCooling(k, d)
           \/ \E k \in Keys, m \in Models, d \in Durations : MarkModelCooling(k, m, d)
           \/ \E k \in Keys : MarkDead(k) \/ AddKey(k)
  BY <1>3 DEF ReleaseKey, MarkCooling, MarkModelCooling, MarkDead, AddKey
<1>4. CASE Reset \/ CleanupExpired \/ UNCHANGED poolVars
  BY <1>4 DEF Reset, CleanupExpired, poolVars
<1> QED
  BY <1>1, <1>2, <1>3, <1>4 DEF PoolNext

\* A cooling that is still running is never forgotten: not by Reset, not by
\* MarkDead, not by the purge of any acquisition.
THEOREM CoolingsSurvive == PoolSpec => CoolingOutlivesReset
<1> DEFINE Inv == PoolTypeOK /\ now # 0
<1>1. PoolInit => Inv
  BY InitType DEF PoolInit
<1>2. Inv /\ [PoolNext]_poolVars => Inv'
  BY StepType, ClockStep
<1>3. Inv /\ [PoolNext]_poolVars => [KeepsRunningCoolings]_poolVars
  BY StepCoolings
<1> HIDE DEF Inv
<1> QED
  BY <1>1, <1>2, <1>3, PTL DEF PoolSpec, CoolingOutlivesReset

LEMMA LimitIsLimit == Limit \in Limits
BY LifecycleAssumption DEF Limit

-----------------------------------------------------------------------------
(* Reloads and requests over a store: KeyLifecycle.                        *)

Stages == {"new", "acquire", "wait", "call", "saveCooling", "saveDead", "finish", "retry",
           "done"}

\* From the acquisition to the release, over the answer and the writes to the
\* store that follow it.
WithKey == {"call", "saveCooling", "saveDead", "finish", "retry"}

KeyHeldInCall == \A c \in Callers : holds[c] # NoKey <=> pc[c] \in WithKey

LifecycleInv ==
  /\ PoolTypeOK /\ NoPhantomSlot /\ now # 0
  /\ pc \in [Callers -> Stages]
  /\ KeyHeldInCall

-----------------------------------------------------------------------------
(* What requests, reloads and administrators do to the pool are operations *)
(* of KeyPool.                                                             *)

\* A reload or restore.
LEMMA JobUsesPool ==
  ASSUME LifecycleInv, NEW t \in Threads, JobStep(t)
  PROVE  [PoolNext]_poolVars /\ UNCHANGED <<holds, pc>>
<1>1. ASSUME NEW k \in Keys, LoadAdd(t, k)
      PROVE  [PoolNext]_poolVars /\ UNCHANGED <<holds, pc>>
  BY <1>1 DEF LoadAdd, AddKey, PoolNext, callerVars
<1>2. CASE RestoreProbe(t) \/ LoadRead(t)
  BY <1>2 DEF RestoreProbe, LoadRead, poolVars, callerVars
<1>3. CASE LoadReset(t)
  BY <1>3 DEF LoadReset, Reset, PoolNext, callerVars
<1> QED
  BY <1>1, <1>2, <1>3 DEF JobStep

\* A request, from its arrival to its end.
LEMMA CallerUsesPool ==
  ASSUME LifecycleInv, NEW c \in Callers, Receive(c) \/ CallerStep(c) \/ GiveUp(c)
  PROVE  /\ [PoolNext]_poolVars
         /\ \E stage \in Stages :
              /\ pc' = [pc EXCEPT ![c] = stage]
              /\ holds'[c] # NoKey <=> stage \in WithKey
         /\ \A d \in Callers \ {c} : holds'[d] = holds[d]
<1> DEFINE Goal == /\ [PoolNext]_poolVars
                   /\ \E stage \in Stages :
                        /\ pc' = [pc EXCEPT ![c] = stage]
                        /\ holds'[c] # NoKey <=> stage \in WithKey
                   /\ \A d \in Callers \ {c} : holds'[d] = holds[d]
<1>1. /\ holds \in [Callers -> Keys \cup {NoKey}] /\ pc \in [Callers -> Stages]
      /\ holds[c] # NoKey <=> pc[c] \in WithKey
      /\ holds[c] # NoKey => holds[c] \in Keys
      /\ NoKey \notin Keys
  BY PoolAssumption DEF LifecycleInv, PoolTypeOK, KeyHeldInCall
<1>2. ASSUME NEW k \in Keys, AcquireHit(c, k) PROVE Goal
  <2>1. /\ AcquireSome(c, k, NoModel, Limit) /\ pc' = [pc EXCEPT ![c] = "call"]
        /\ holds' = [holds EXCEPT ![c] = k]
    BY <1>2 DEF AcquireHit, AcquireSome, Grant, MoveOn
  <2>2. [PoolNext]_poolVars
    BY <2>1, LimitIsLimit DEF PoolNext
  <2> QED
    BY <1>1, <2>1, <2>2 DEF Stages, WithKey
<1>3. CASE AcquireMiss(c)
  <2>1. /\ AcquireNone(c, NoModel, Limit) /\ UNCHANGED holds /\ pc[c] = "acquire"
        /\ pc' = pc \/ pc' = [pc EXCEPT ![c] = "wait"]
    BY <1>3 DEF AcquireMiss, AcquireNone, MoveOn
  <2>2. [PoolNext]_poolVars
    BY <2>1, LimitIsLimit DEF PoolNext
  <2>3. \E stage \in {"acquire", "wait"} : pc' = [pc EXCEPT ![c] = stage]
    BY <1>1, <2>1
  <2> QED
    BY <1>1, <2>1, <2>2, <2>3 DEF Stages, WithKey
<1>4. CASE Receive(c) \/ Poll(c) \/ GiveUp(c)
  <2>1. /\ pc[c] \in {"new", "wait"} /\ UNCHANGED holds /\ UNCHANGED poolVars
        /\ \E stage \in {"acquire", "done"} : pc' = [pc EXCEPT ![c] = stage]
    BY <1>4 DEF Receive, Poll, GiveUp, MoveOn, poolVars
  <2> QED
    BY <1>1, <2>1 DEF Stages, WithKey
<1>5. ASSUME NEW o \in {"ok", "rateLimited", "rejected", "transient"}, Answered(c, o)
      PROVE  Goal
  <2>1. pc[c] = "call" /\ holds[c] \in Keys
    BY <1>1, <1>5 DEF Answered, WithKey
  <2>2. \/ UNCHANGED poolVars
        \/ \E d \in Durations : MarkCooling(holds[c], d)
        \/ MarkDead(holds[c])
    BY <1>5 DEF Answered
  <2>3. [PoolNext]_poolVars /\ UNCHANGED holds
    BY <2>1, <2>2 DEF PoolNext, MarkCooling, MarkDead, poolVars
  <2>4. \E stage \in {"finish", "saveCooling", "saveDead", "retry"} :
          pc' = [pc EXCEPT ![c] = stage]
    BY <1>5 DEF Answered, MoveOn
  <2> QED
    BY <1>1, <2>1, <2>3, <2>4 DEF Stages, WithKey
<1>6. CASE SaveStatus(c)
  BY <1>1, <1>6 DEF SaveStatus, MoveOn, poolVars, Stages, WithKey
<1>7. CASE HandBack(c)
  <2>1. /\ ReleaseKey(c) /\ holds' = [holds EXCEPT ![c] = NoKey]
        /\ \E stage \in {"done", "acquire"} : pc' = [pc EXCEPT ![c] = stage]
    BY <1>7 DEF HandBack, ReleaseKey, MoveOn
  <2>2. [PoolNext]_poolVars
    BY <2>1 DEF PoolNext
  <2> QED
    BY <1>1, <2>1, <2>2 DEF Stages, WithKey
<1> QED
  BY <1>2, <1>3, <1>4, <1>5, <1>6, <1>7 DEF CallerStep

LEMMA AdminUsesNoPool ==
  ASSUME NEW a \in Admins, AdminStep(a)
  PROVE  UNCHANGED poolVars /\ UNCHANGED <<holds, pc>>
BY DEF AdminStep, UpdateAPIKeyStatus, AddAPIKey, DeleteAPIKey, UpdateAPIKey, ProbeAPIKey,
       ImportAPIKeys, ReloadSystem, AdminWrite, poolVars, callerVars

LEMMA OthersKeepRequests ==
  ASSUME LifecycleInv,
         \/ \E t \in Threads : JobStep(t)
         \/ \E a \in Admins : AdminStep(a)
         \/ \E t \in Background : BackgroundTick(t)
         \/ TimePasses \/ UNCHANGED vars
  PROVE  [PoolNext]_poolVars /\ UNCHANGED <<holds, pc>>
<1>1. CASE \E t \in Background : BackgroundTick(t)
  BY <1>1 DEF BackgroundTick, poolVars, callerVars
<1>2. CASE TimePasses
  BY <1>2 DEF TimePasses, Tick, PoolNext, callerVars
<1>3. CASE UNCHANGED vars
  BY <1>3 DEF vars, poolVars, callerVars
<1> QED
  BY <1>1, <1>2, <1>3, JobUsesPool, AdminUsesNoPool

-----------------------------------------------------------------------------
(* The invariant.                                                          *)

LEMMA LifecycleInitially == Init => LifecycleInv
<1> SUFFICES ASSUME Init PROVE LifecycleInv
  OBVIOUS
<1>1. PoolTypeOK
  BY DEF Init, PoolTypeOK, Servable
<1>2. NoPhantomSlot
  BY HoldersFinite DEF Init, NoPhantomSlot
<1>3. pc \in [Callers -> Stages] /\ KeyHeldInCall
  BY DEF Init, Stages, WithKey, KeyHeldInCall
<1> QED
  BY <1>1, <1>2, <1>3 DEF Init, LifecycleInv

LEMMA LifecycleStep ==
  ASSUME LifecycleInv, [Next]_vars
  PROVE  [PoolNext]_poolVars /\ LifecycleInv'
<1>1. /\ [PoolNext]_poolVars
      /\ pc' \in [Callers -> Stages] /\ KeyHeldInCall'
  <2>1. ASSUME NEW c \in Callers, Receive(c) \/ CallerStep(c) \/ GiveUp(c)
        PROVE  /\ [PoolNext]_poolVars
               /\ pc' \in [Callers -> Stages] /\ KeyHeldInCall'
    BY <2>1, CallerUsesPool DEF LifecycleInv, KeyHeldInCall
  <2>2. CASE \/ \E t \in Threads : JobStep(t)
             \/ \E a \in Admins : AdminStep(a)
             \/ \E t \in Background : BackgroundTick(t)
             \/ TimePasses \/ UNCHANGED vars
    BY <2>2, OthersKeepRequests DEF LifecycleInv, KeyHeldInCall
  <2> QED
    BY <2>1, <2>2 DEF Next
<1>2. PoolTypeOK' /\ NoPhantomSlot' /\ now' # 0
  BY <1>1, StepType, StepSlots, ClockStep DEF LifecycleInv
<1> QED
  BY <1>1, <1>2 DEF LifecycleInv

LEMMA LifecycleKept == LifecycleInv /\ [Next]_vars => LifecycleInv'
BY LifecycleStep

-----------------------------------------------------------------------------
(* What follows from it.                                                   *)

\* When no request is in flight no slot is counted, whatever reloads, dead marks
\* and failed attempts happened in between (redis.go 442-455, 518-531; proxy.go
\* 453-454).
THEOREM CapacityComesBack == Spec => []CapacityRestored
<1>1. LifecycleInv => CapacityRestored
  <2> SUFFICES ASSUME LifecycleInv, \A c \in Callers : pc[c] \in {"new", "done"},
                      NEW k \in Keys
               PROVE  concurrency[k] = 0
    BY DEF CapacityRestored
  <2>1. \A c \in Callers : holds[c] = NoKey
    BY DEF LifecycleInv, KeyHeldInCall, WithKey
  <2>2. Holders(k) = {}
    BY <2>1, PoolAssumption DEF Holders
  <2>3. Cardinality(Holders(k)) = 0
    BY <2>2, FS_EmptySet
  <2>4. concurrency[k] \in Nat /\ concurrency[k] <= 0
    BY <2>3 DEF LifecycleInv, PoolTypeOK, NoPhantomSlot
  <2> QED
    BY <2>4
<1> QED
  BY <1>1, LifecycleInitially, LifecycleKept, PTL DEF Spec

\* A cooling that is still running survives every reload, restore and
\* administrator's operation (redis.go 528-529 and 540).
THEOREM ReloadsKeepCoolings == Spec => CoolingOutlivesReset
<1>1. LifecycleInv /\ [Next]_vars => [KeepsRunningCoolings]_poolVars
  BY LifecycleStep, StepCoolings DEF LifecycleInv
<1> QED
  BY <1>1, LifecycleInitially, LifecycleKept, PTL DEF Spec, CoolingOutlivesReset

-----------------------------------------------------------------------------
(* One request on its way through the keys: RequestExecution.              *)

Results == {"none", "cached", "ok", "terminal", "bodyless", "retry", "transport", "5xx",
            "interrupted", "cut", "empty"}

Outcomes == {"open", "499", "503", "fallback", "exhausted", "error", "interrupted", "answered"}

RequestRecord ==
  [kind : Kinds, pc : Places, attempt : Nat, tries : Nat,
   preferred : Keys \cup {NoKey}, key : Keys \cup {NoKey}, reused : BOOLEAN,
   result : Results, cancelled : BOOLEAN, cancelledIn : Nat, lateCalls : Nat,
   header : BOOLEAN, got : {"nothing", "part", "whole"}, outcome : Outcomes,
   charged : BOOLEAN]

Allowance(kind) == MaxRetries + 1 + (IF kind \in Patient THEN ExtraAttempts ELSE 0)

\* A request holds its key h from the acquisition to the release; what the
\* JSON executors do after it, the relayed streams do before.
KeyHeldInAttempt(r, h) ==
  /\ h # NoKey <=>
       \/ r.pc \in {"bind", "bindWrite", "call", "calling", "coolModel", "backoff",
                    "relay", "release"}
       \/ r.pc \in {"rebind", "rebindWrite"} /\ r.kind \in Relayed
  /\ h # NoKey => r.key = h

\* What the attempt came to, where that decides what is next.
ResultFits(r) ==
  /\ r.pc \in {"rebind", "rebindWrite"} =>
       r.result = "ok" /\ r.kind \in Relayed \cup {"chat", "embeddings"}
  /\ r.pc = "relay" => r.kind \in Streaming
  /\ r.pc = "release" =>
       /\ r.result \in {"ok", "terminal", "bodyless", "retry", "interrupted", "cut", "empty"}
       /\ r.result = "interrupted" => r.kind \in Streaming
       /\ r.result = "cut" => r.kind \in Relayed
  /\ r.pc \in {"charge", "finish"} =>
       /\ r.kind # "models"
       /\ r.result = "interrupted" => r.kind = "sse"
       /\ r.result # "interrupted" => r.result = "cut" \/ r.got = "whole"

\* With something of an answer there is no second attempt, and how much of it
\* there is goes with how the attempt ended.
SeenIsFinal(r) ==
  /\ r.got # "nothing" =>
       r.pc \in {"relay", "release", "rebind", "rebindWrite", "charge", "finish", "closed"}
  /\ r.pc = "relay" => r.got # "whole" /\ (r.kind = "sse" => r.got = "part")
  /\ r.pc = "release" =>
       /\ r.result = "ok" => r.got = "whole"
       /\ r.result = "cut" => r.got = "part"
       /\ r.result = "interrupted" => r.got # "whole" /\ (r.kind = "sse" => r.got = "part")
       /\ r.result \in {"terminal", "bodyless", "retry", "empty"} => r.got = "nothing"
  /\ r.pc \in {"rebind", "rebindWrite"} =>
       r.got = IF r.kind \in Relayed THEN "nothing" ELSE "whole"
  /\ r.pc \in {"charge", "finish"} => r.got # "nothing"

BillFits(r, outcome) ==
  /\ r.got = "nothing" => ~r.charged
  /\ r.got = "whole" => (r.charged <=> r.kind # "models")
  /\ r.got = "part" => (r.charged <=> r.kind = "sse" \/ outcome = "answered")

BilledAtTheEnd(r) ==
  /\ r.charged => r.pc \in {"finish", "closed"}
  /\ r.pc = "finish" => r.charged
  /\ r.pc = "closed" => BillFits(r, r.outcome)
  /\ r.pc # "closed" => r.outcome = "open"

\* A call begun after the cancellation is the last one, and a patient request
\* gets no further than the head of the loop.
CancelledWindsUp(r) ==
  /\ r.lateCalls > 0 =>
       /\ r.lateCalls = 1 /\ r.cancelled
       /\ \/ r.pc \in {"calling", "closed"}
          \/ r.pc = "release" /\ r.result = "terminal"
          \/ r.pc = "top" /\ r.kind \in Patient
  /\ r.cancelled /\ r.kind \in Patient =>
       /\ \/ r.attempt = r.cancelledIn
          \/ r.attempt = r.cancelledIn + 1 /\ r.pc \in {"top", "closed"}
       /\ r.outcome = "fallback" => r.cancelledIn >= Allowance(r.kind) - 1

Sound(r, h) ==
  /\ KeyHeldInAttempt(r, h) /\ ResultFits(r) /\ SeenIsFinal(r)
  /\ BilledAtTheEnd(r) /\ CancelledWindsUp(r)

ExecInv ==
  /\ PoolTypeOK /\ NoPhantomSlot
  /\ binding \in Keys \cup {NoKey} /\ stored \in BOOLEAN
  /\ req \in [Requests -> RequestRecord]
  /\ \A c \in Requests : Sound(req[c], holds[c])

-----------------------------------------------------------------------------
(* One request's step, as the contract sees it.                            *)

PhaseOf(r) ==
  CASE r.pc = "closed" -> "closed"
    [] r.pc # "closed" /\ r.got # "nothing" -> "answering"
    [] r.pc # "closed" /\ r.got = "nothing" /\ r.header -> "greeted"
    [] OTHER -> "trying"

\* What the contract allows a request that goes from record r and key h to
\* record s and key g: nothing, Acquire, Greet, Answer, Release, Close or Bill.
Allowed(r, h, s, g) ==
  \/ /\ s.charged = r.charged
     /\ \/ PhaseOf(s) = PhaseOf(r) /\ (g # NoKey => h # NoKey)
        \/ PhaseOf(s) = PhaseOf(r) /\ PhaseOf(r) \in {"trying", "greeted"} /\ h = NoKey
        \/ PhaseOf(s) = "greeted" /\ PhaseOf(r) = "trying" /\ h # NoKey /\ g # NoKey
        \/ /\ PhaseOf(s) = "answering" /\ PhaseOf(r) \in {"trying", "greeted"}
           /\ g # NoKey <=> h # NoKey
        \/ PhaseOf(s) = "closed" /\ PhaseOf(r) # "closed" /\ g = NoKey
  \/ /\ s.charged /\ ~r.charged
     /\ PhaseOf(s) = "answering" /\ PhaseOf(r) = "answering" /\ h = NoKey /\ g = NoKey

Moves(c, s) ==
  /\ s \in RequestRecord
  /\ req' = [req EXCEPT ![c] = s]
  /\ Sound(s, holds'[c]) /\ Allowed(req[c], holds[c], s, holds'[c])
  /\ \A d \in Requests \ {c} : holds'[d] = holds[d]
  /\ binding' \in Keys \cup {NoKey} /\ stored' \in BOOLEAN

\* What the steps of a request know of it.
LEMMA RequestFacts ==
  ASSUME ExecInv, NEW c \in Requests
  PROVE  /\ req[c] \in RequestRecord /\ Sound(req[c], holds[c])
         /\ c \in Callers /\ holds[c] \in Keys \cup {NoKey}
         /\ Model(c) = NoModel \/ Model(c) \in Models
BY ExecutionAssumption DEF ExecInv, PoolTypeOK, Model

LEMMA ClosedRecord ==
  ASSUME NEW r \in RequestRecord, NEW outcome \in Outcomes
  PROVE  /\ Closed(r, outcome) \in RequestRecord
         /\ Closed(r, outcome).pc = "closed" /\ Closed(r, outcome).outcome = outcome
         /\ Closed(r, outcome).kind = r.kind /\ Closed(r, outcome).got = r.got
         /\ Closed(r, outcome).charged = r.charged
         /\ Closed(r, outcome).cancelled = r.cancelled
         /\ Closed(r, outcome).cancelledIn = r.cancelledIn
         /\ Closed(r, outcome).attempt = r.attempt
         /\ Closed(r, outcome).lateCalls = r.lateCalls
BY DEF Closed, OutOfRound, RequestRecord, Places, Results

LEMMA NextRecord ==
  ASSUME NEW r \in RequestRecord
  PROVE  /\ NextAttempt(r) \in RequestRecord
         /\ NextAttempt(r).pc = "top" /\ NextAttempt(r).outcome = r.outcome
         /\ NextAttempt(r).kind = r.kind /\ NextAttempt(r).header = r.header
         /\ NextAttempt(r).got = r.got
         /\ NextAttempt(r).charged = r.charged
         /\ NextAttempt(r).cancelled = r.cancelled
         /\ NextAttempt(r).cancelledIn = r.cancelledIn
         /\ NextAttempt(r).attempt = r.attempt + 1
         /\ NextAttempt(r).lateCalls = r.lateCalls
<1> DEFINE o == OutOfRound(r)
<1>1. /\ o \in RequestRecord /\ o.outcome = r.outcome /\ o.kind = r.kind
      /\ o.header = r.header /\ o.got = r.got /\ o.charged = r.charged /\ o.cancelled = r.cancelled
      /\ o.cancelledIn = r.cancelledIn /\ o.attempt = r.attempt /\ o.lateCalls = r.lateCalls
  BY DEF OutOfRound, RequestRecord, Results
<1>2. NextAttempt(r) = [o EXCEPT !.pc = "top", !.attempt = r.attempt + 1]
  BY <1>1 DEF NextAttempt
<1>3. r.attempt + 1 \in Nat
  BY DEF RequestRecord
<1> HIDE DEF o
<1>4. /\ NextAttempt(r) \in RequestRecord
      /\ NextAttempt(r).pc = "top" /\ NextAttempt(r).attempt = r.attempt + 1
  BY <1>1, <1>2, <1>3 DEF RequestRecord, Places
<1>5. /\ NextAttempt(r).outcome = o.outcome /\ NextAttempt(r).kind = o.kind
      /\ NextAttempt(r).header = o.header /\ NextAttempt(r).got = o.got
      /\ NextAttempt(r).charged = o.charged /\ NextAttempt(r).cancelled = o.cancelled
      /\ NextAttempt(r).cancelledIn = o.cancelledIn
      /\ NextAttempt(r).lateCalls = o.lateCalls
  BY <1>1, <1>2 DEF RequestRecord
<1> QED
  BY <1>1, <1>4, <1>5

\* A request that only goes from one place to another.
LEMMA Going ==
  ASSUME ExecInv, NEW c \in Requests, NEW place \in Places,
         Goto(c, place), UNCHANGED holds,
         binding' \in Keys \cup {NoKey}, stored' \in BOOLEAN,
         LET s == [req[c] EXCEPT !.pc = place]
         IN Sound(s, holds[c]) /\ Allowed(req[c], holds[c], s, holds[c])
  PROVE  \E s : Moves(c, s)
<1>1. [req[c] EXCEPT !.pc = place] \in RequestRecord
  BY RequestFacts DEF RequestRecord
<1>2. req' = [req EXCEPT ![c] = [req[c] EXCEPT !.pc = place]]
  BY DEF Goto, ExecInv
<1> QED
  BY <1>1, <1>2 DEF Moves

-----------------------------------------------------------------------------
(* The head of the loop.                                                   *)

LEMMA CacheHitMoves ==
  ASSUME ExecInv, NEW c \in Requests, CacheHit(c)
  PROVE  \E s : Moves(c, s)
<1> DEFINE r == req[c]
           s == [r EXCEPT !.pc = "charge", !.result = "cached", !.header = TRUE, !.got = "whole"]
<1>1. r \in RequestRecord /\ Sound(r, holds[c]) /\ r.pc = "start"
      /\ r.kind \in {"chat", "sse"} /\ req' = [req EXCEPT ![c] = s]
      /\ UNCHANGED <<holds, binding, stored>>
  BY RequestFacts DEF CacheHit, At, Became, poolVars
<1> HIDE DEF r
<1>2. s \in RequestRecord
  BY <1>1 DEF RequestRecord, Places, Results
<1>3. Sound(s, holds[c])
  BY <1>1 DEF Sound, KeyHeldInAttempt, ResultFits, SeenIsFinal, BilledAtTheEnd,
              CancelledWindsUp, RequestRecord
<1>4. Allowed(r, holds[c], s, holds[c])
  BY <1>1 DEF Allowed, PhaseOf, RequestRecord, Sound, SeenIsFinal
<1> QED
  BY <1>1, <1>2, <1>3, <1>4 DEF Moves, ExecInv, r

\* A request that ends does so without a key.
LEMMA Closing ==
  ASSUME ExecInv, NEW c \in Requests, NEW outcome \in Outcomes,
         Became(c, Closed(req[c], outcome)), req[c].pc # "closed",
         holds'[c] = NoKey, \A d \in Requests \ {c} : holds'[d] = holds[d],
         binding' \in Keys \cup {NoKey}, stored' \in BOOLEAN,
         BillFits(req[c], outcome),
         outcome = "fallback" /\ req[c].cancelled =>
           req[c].cancelledIn >= Allowance(req[c].kind) - 1
  PROVE  \E s : Moves(c, s)
<1> DEFINE r == req[c]
           s == Closed(r, outcome)
<1>1. r \in RequestRecord /\ Sound(r, holds[c])
  BY RequestFacts
<1>2. /\ s \in RequestRecord /\ s.pc = "closed" /\ s.outcome = outcome
      /\ s.kind = r.kind /\ s.got = r.got /\ s.charged = r.charged
      /\ s.cancelled = r.cancelled /\ s.cancelledIn = r.cancelledIn
      /\ s.attempt = r.attempt /\ s.lateCalls = r.lateCalls
  BY <1>1, ClosedRecord
<1> HIDE DEF s
<1>3. Sound(s, NoKey)
  <2>1. KeyHeldInAttempt(s, NoKey) /\ ResultFits(s) /\ SeenIsFinal(s)
    BY <1>2 DEF KeyHeldInAttempt, ResultFits, SeenIsFinal
  <2>2. BilledAtTheEnd(s)
    BY <1>2 DEF BilledAtTheEnd, BillFits
  <2>3. CancelledWindsUp(s)
    BY <1>1, <1>2 DEF CancelledWindsUp, Sound
  <2> QED
    BY <2>1, <2>2, <2>3 DEF Sound
<1>4. Allowed(r, holds[c], s, NoKey)
  BY <1>2 DEF Allowed, PhaseOf
<1>5. req' = [req EXCEPT ![c] = s]
  BY DEF Became, s
<1> QED
  BY <1>2, <1>3, <1>4, <1>5 DEF Moves

\* A request that turns to its next attempt, the client having seen nothing.
LEMMA Retrying ==
  ASSUME ExecInv, NEW c \in Requests, Became(c, NextAttempt(req[c])),
         req[c].got = "nothing", req[c].pc \in {"queue", "release", "forget"},
         req[c].lateCalls > 0 => req[c].kind \in Patient,
         holds'[c] = NoKey, \A d \in Requests \ {c} : holds'[d] = holds[d],
         binding' \in Keys \cup {NoKey}, stored' \in BOOLEAN
  PROVE  \E s : Moves(c, s)
<1> DEFINE r == req[c]
           s == NextAttempt(r)
<1>1. r \in RequestRecord /\ Sound(r, holds[c])
  BY RequestFacts
<1>2. /\ s \in RequestRecord /\ s.pc = "top" /\ s.outcome = r.outcome
      /\ s.kind = r.kind /\ s.header = r.header /\ s.got = r.got /\ s.charged = r.charged
      /\ s.cancelled = r.cancelled /\ s.cancelledIn = r.cancelledIn
      /\ s.attempt = r.attempt + 1 /\ s.lateCalls = r.lateCalls
  BY <1>1, NextRecord
<1> HIDE DEF s
<1>3. Sound(s, NoKey)
  <2>1. KeyHeldInAttempt(s, NoKey) /\ ResultFits(s) /\ SeenIsFinal(s)
    BY <1>2 DEF KeyHeldInAttempt, ResultFits, SeenIsFinal
  <2>2. BilledAtTheEnd(s)
    BY <1>1, <1>2 DEF BilledAtTheEnd, Sound
  <2>3. CancelledWindsUp(s)
    BY <1>1, <1>2 DEF CancelledWindsUp, Sound
  <2> QED
    BY <2>1, <2>2, <2>3 DEF Sound
<1>4. Allowed(r, holds[c], s, NoKey)
  BY <1>1, <1>2 DEF Allowed, PhaseOf, RequestRecord
<1>5. req' = [req EXCEPT ![c] = s]
  BY DEF Became, s
<1> QED
  BY <1>2, <1>3, <1>4, <1>5 DEF Moves

LEMMA BudgetIsAllowance ==
  ASSUME NEW c \in Requests
  PROVE  Budget(c) = Allowance(req[c].kind)
BY DEF Budget, Allowance

LEMMA HeadMoves ==
  ASSUME ExecInv, NEW c \in Requests,
         CacheMiss(c) \/ ClientGone(c) \/ BeginAttempt(c) \/ Exhausted(c)
  PROVE  \E s : Moves(c, s)
<1> DEFINE r == req[c]
<1>1. r \in RequestRecord /\ Sound(r, holds[c])
  BY RequestFacts
<1>2. /\ UNCHANGED <<holds, binding, stored>>
      /\ binding' \in Keys \cup {NoKey} /\ stored' \in BOOLEAN
  BY DEF CacheMiss, ClientGone, BeginAttempt, Exhausted, poolVars, ExecInv
<1>3. CASE CacheMiss(c)
  <2>1. r.pc = "start" /\ Goto(c, "top")
    BY <1>3 DEF CacheMiss, At
  <2>2. Sound([r EXCEPT !.pc = "top"], holds[c])
    BY <1>1, <2>1 DEF Sound, KeyHeldInAttempt, ResultFits, SeenIsFinal, BilledAtTheEnd,
                      CancelledWindsUp, RequestRecord
  <2>3. Allowed(r, holds[c], [r EXCEPT !.pc = "top"], holds[c])
    BY <1>1, <2>1 DEF Allowed, PhaseOf, RequestRecord
  <2> QED
    BY <1>2, <2>1, <2>2, <2>3, Going DEF Places
<1>4. CASE ClientGone(c)
  <2>1. r.pc = "top" /\ Became(c, Closed(r, "499")) /\ BillFits(r, "499") /\ holds[c] = NoKey
    BY <1>1, <1>4
       DEF ClientGone, At, Sound, SeenIsFinal, BillFits, BilledAtTheEnd, KeyHeldInAttempt
  <2> QED
    BY <1>2, <2>1, Closing DEF Outcomes
<1>5. CASE BeginAttempt(c)
  <2> DEFINE first == IF r.kind = "models" THEN NoKey ELSE binding
             s == [r EXCEPT !.pc = "preferred", !.preferred = first]
  <2>1. /\ r.pc = "top" /\ req' = [req EXCEPT ![c] = s]
        /\ ~(r.cancelled /\ r.kind \in Patient)
    BY <1>5 DEF BeginAttempt, At, Became
  <2>2. s \in RequestRecord
    BY <1>1, <1>2 DEF RequestRecord, Places
  <2>3. Sound(s, holds[c])
    BY <1>1, <2>1 DEF Sound, KeyHeldInAttempt, ResultFits, SeenIsFinal, BilledAtTheEnd,
                      CancelledWindsUp, RequestRecord
  <2>4. Allowed(r, holds[c], s, holds[c])
    BY <1>1, <2>1 DEF Allowed, PhaseOf, RequestRecord
  <2> QED
    BY <1>2, <2>1, <2>2, <2>3, <2>4 DEF Moves
<1>6. CASE Exhausted(c)
  <2> DEFINE outcome == IF r.kind \in Patient /\ SilentFallback
                        THEN "fallback" ELSE "exhausted"
  <2>1. /\ r.pc = "top" /\ r.attempt = Allowance(r.kind)
        /\ Became(c, Closed(r, outcome)) /\ BillFits(r, outcome) /\ holds[c] = NoKey
    BY <1>1, <1>6, BudgetIsAllowance
       DEF Exhausted, At, Sound, SeenIsFinal, BillFits, BilledAtTheEnd, KeyHeldInAttempt
  <2>2. outcome = "fallback" /\ r.cancelled => r.cancelledIn >= Allowance(r.kind) - 1
    BY <1>1, <2>1, ExecutionAssumption
       DEF Sound, CancelledWindsUp, RequestRecord, Allowance
  <2>3. outcome \in Outcomes /\ outcome \notin {"answered", "interrupted"}
    BY DEF Outcomes
  <2> HIDE DEF outcome
  <2> QED
    BY <1>2, <2>1, <2>2, <2>3, Closing
<1> QED
  BY <1>3, <1>4, <1>5, <1>6

-----------------------------------------------------------------------------
(* The key and the binding.                                                *)

\* The pool hands key k to request c, which goes to the place given.
LEMMA Granted ==
  ASSUME ExecInv, NEW c \in Requests, NEW k \in Keys, Grant(c, k),
         req[c].pc \in {"preferred", "queue"},
         NEW place \in {"bind", "call"}, NEW reused \in BOOLEAN,
         Became(c, [req[c] EXCEPT !.pc = place, !.reused = reused, !.key = k]),
         UNCHANGED <<binding, stored>>
  PROVE  \E s : Moves(c, s)
<1> DEFINE r == req[c]
           s == [r EXCEPT !.pc = place, !.reused = reused, !.key = k]
<1>1. r \in RequestRecord /\ Sound(r, holds[c]) /\ c \in Callers
  BY RequestFacts
<1>2. /\ holds'[c] = k /\ k # NoKey /\ holds[c] = NoKey
      /\ \A d \in Requests \ {c} : holds'[d] = holds[d]
  BY <1>1, PoolAssumption, ExecutionAssumption DEF Grant, ExecInv, PoolTypeOK
<1>3. s \in RequestRecord
  BY <1>1 DEF RequestRecord, Places
<1>4. Sound(s, k)
  BY <1>1, <1>2 DEF Sound, KeyHeldInAttempt, ResultFits, SeenIsFinal, BilledAtTheEnd,
                    CancelledWindsUp, RequestRecord
<1>5. Allowed(r, holds[c], s, k)
  BY <1>1, <1>2 DEF Allowed, PhaseOf, RequestRecord, Sound, SeenIsFinal
<1> QED
  BY <1>2, <1>3, <1>4, <1>5 DEF Moves, Became, ExecInv

LEMMA AcquisitionMoves ==
  ASSUME ExecInv, NEW c \in Requests,
         \/ AcquirePreferred(c) \/ QueueTimeout(c) \/ QueueCancelled(c)
         \/ \E k \in Keys : AcquireQueued(c, k)
  PROVE  \E s : Moves(c, s)
<1> DEFINE r == req[c]
<1>1. r \in RequestRecord /\ Sound(r, holds[c]) /\ c \in Callers
  BY RequestFacts
<1>2. UNCHANGED <<binding, stored>> /\ binding' \in Keys \cup {NoKey} /\ stored' \in BOOLEAN
  BY DEF AcquirePreferred, QueueTimeout, QueueCancelled, AcquireQueued, ExecInv
<1>3. ASSUME r.pc = "preferred", Goto(c, "queue"), UNCHANGED holds
      PROVE  \E s : Moves(c, s)
  <2>1. Sound([r EXCEPT !.pc = "queue"], holds[c])
    BY <1>1, <1>3 DEF Sound, KeyHeldInAttempt, ResultFits, SeenIsFinal, BilledAtTheEnd,
                      CancelledWindsUp, RequestRecord
  <2>2. Allowed(r, holds[c], [r EXCEPT !.pc = "queue"], holds[c])
    BY <1>1, <1>3 DEF Allowed, PhaseOf, RequestRecord
  <2> QED
    BY <1>2, <1>3, <2>1, <2>2, Going DEF Places
<1>4. CASE AcquirePreferred(c)
  <2>1. CASE r.preferred = NoKey
    BY <1>3, <1>4, <2>1 DEF AcquirePreferred, At, poolVars
  <2>2. CASE r.preferred # NoKey
    <3> DEFINE k == r.preferred
    <3>1. k \in Keys /\ k # NoKey /\ r.pc = "preferred" /\ holds[c] = NoKey
      BY <1>1, <1>4, <2>2
         DEF AcquirePreferred, At, RequestRecord, Sound, KeyHeldInAttempt
    <3>2. CASE Grant(c, k)
      <4>1. holds'[c] = k
        BY <1>1, <3>2 DEF Grant, ExecInv, PoolTypeOK
      <4>2. Became(c, [r EXCEPT !.pc = "bind", !.reused = TRUE, !.key = k])
        BY <1>4, <3>1, <4>1 DEF AcquirePreferred
      <4> QED
        BY <1>2, <3>1, <3>2, <4>2, Granted
    <3>3. CASE UNCHANGED <<concurrency, holds>>
      <4>1. Goto(c, "queue")
        BY <1>4, <3>1, <3>3 DEF AcquirePreferred
      <4> QED
        BY <1>3, <3>1, <3>3, <4>1
    <3> QED
      BY <1>4, <3>1, <3>2, <3>3 DEF AcquirePreferred, TryAcquireSpecificKey
  <2> QED
    BY <2>1, <2>2
<1>5. ASSUME NEW k \in Keys, AcquireQueued(c, k)
      PROVE  \E s : Moves(c, s)
  <2> DEFINE place == IF r.kind = "models" THEN "call" ELSE "bind"
  <2>1. Grant(c, k) /\ r.pc = "queue" /\ place \in {"bind", "call"} /\ r.reused \in BOOLEAN
    BY <1>1, <1>5 DEF AcquireQueued, AcquireSome, At, RequestRecord
  <2>2. Became(c, [r EXCEPT !.pc = place, !.key = k])
    BY <1>5 DEF AcquireQueued
  <2>3. [r EXCEPT !.pc = place, !.key = k]
          = [r EXCEPT !.pc = place, !.reused = r.reused, !.key = k]
    BY <1>1 DEF RequestRecord
  <2> HIDE DEF place
  <2>4. Became(c, [r EXCEPT !.pc = place, !.reused = r.reused, !.key = k])
    BY <2>2, <2>3 DEF Became
  <2> QED
    BY <1>2, <2>1, <2>4, Granted
<1>6. CASE QueueTimeout(c)
  <2>1. /\ r.pc = "queue" /\ Became(c, Closed(r, "503")) /\ BillFits(r, "503")
        /\ holds[c] = NoKey /\ UNCHANGED holds
    BY <1>1, <1>6
       DEF QueueTimeout, AcquireNone, At, Sound, SeenIsFinal, BillFits, BilledAtTheEnd
  <2> QED
    BY <1>2, <2>1, Closing DEF Outcomes
<1>7. CASE QueueCancelled(c)
  <2>1. /\ r.pc = "queue" /\ Became(c, NextAttempt(r)) /\ r.got = "nothing" /\ ~(r.lateCalls > 0)
        /\ holds[c] = NoKey /\ UNCHANGED holds
    BY <1>1, <1>7
       DEF QueueCancelled, AcquireNone, At, Sound, SeenIsFinal, CancelledWindsUp
  <2> QED
    BY <1>2, <2>1, Retrying
<1> QED
  BY <1>4, <1>5, <1>6, <1>7

\* The binding of the conversation changes between two places where the
\* request stands equally well.
LEMMA BindingMoves ==
  ASSUME ExecInv, NEW c \in Requests, NEW bind, NEW write, NEW next,
         <<bind, write, next>> \in {<<"bind", "bindWrite", "call">>,
           <<"rebind", "rebindWrite", IF req[c].kind \in Relayed THEN "relay" ELSE "charge">>},
         \/ BindUnlessBound(c, bind, write, next)
         \/ BindWrite(c, write, next)
         \/ At(c, bind) /\ Goto(c, write) /\ UNCHANGED <<poolVars, binding, stored>>
  PROVE  \E s : Moves(c, s)
<1> DEFINE r == req[c]
           after == IF r.kind \in Relayed THEN "relay" ELSE "charge"
<1>1. r \in RequestRecord /\ Sound(r, holds[c])
  BY RequestFacts
<1>2. UNCHANGED holds /\ binding' \in Keys \cup {NoKey} /\ stored' \in BOOLEAN
  BY <1>1 DEF BindUnlessBound, BindWrite, poolVars, ExecInv, RequestRecord
<1>3. PICK place \in {write, next} : Goto(c, place) /\ r.pc \in {bind, write}
  BY DEF BindUnlessBound, BindWrite, At
<1> DEFINE s == [r EXCEPT !.pc = place]
<1>4. CASE bind = "bind" /\ write = "bindWrite" /\ next = "call"
  <2>1. Sound(s, holds[c])
    BY <1>1, <1>3, <1>4 DEF Sound, KeyHeldInAttempt, ResultFits, SeenIsFinal,
                            BilledAtTheEnd, CancelledWindsUp, RequestRecord
  <2>2. Allowed(r, holds[c], s, holds[c])
    BY <1>1, <1>3, <1>4 DEF Allowed, PhaseOf, RequestRecord
  <2> QED
    BY <1>2, <1>3, <1>4, <2>1, <2>2, Going DEF Places
<1>5. CASE bind = "rebind" /\ write = "rebindWrite" /\ next = after
  <2>1. Sound(s, holds[c])
    BY <1>1, <1>3, <1>5 DEF Sound, KeyHeldInAttempt, ResultFits, SeenIsFinal,
                            BilledAtTheEnd, CancelledWindsUp, RequestRecord, Relayed, Streaming
  <2>2. Allowed(r, holds[c], s, holds[c])
    BY <1>1, <1>3, <1>5 DEF Allowed, PhaseOf, RequestRecord, Sound, SeenIsFinal
  <2>3. place \in Places
    BY <1>3, <1>5 DEF Places
  <2> QED
    BY <1>2, <1>3, <2>1, <2>2, <2>3, Going
<1> QED
  BY <1>4, <1>5

LEMMA BindMoves ==
  ASSUME ExecInv, NEW c \in Requests, Bind(c) \/ Rebind(c)
  PROVE  \E s : Moves(c, s)
<1> DEFINE next == IF req[c].kind \in Relayed THEN "relay" ELSE "charge"
<1>1. CASE Bind(c)
  BY <1>1, BindingMoves DEF Bind
<1>2. CASE Rebind(c)
  BY <1>2, BindingMoves DEF Rebind
<1> QED
  BY <1>1, <1>2

-----------------------------------------------------------------------------
(* The calls.                                                              *)

\* A call comes to its result: an answer, an answer to pass on as it is, or
\* the end of this key's attempt.
LEMMA EndCallMoves ==
  ASSUME ExecInv, NEW c \in Requests,
         NEW result \in {"ok", "terminal", "bodyless", "retry"}, EndCall(c, result),
         req[c].pc \in {"calling", "coolModel", "backoff"},
         req[c].lateCalls > 0 => result = "terminal",
         UNCHANGED holds, binding' \in Keys \cup {NoKey}, stored' \in BOOLEAN
  PROVE  \E s : Moves(c, s)
<1> DEFINE r == req[c]
           sse == result = "ok" /\ r.kind = "sse"
           relayed == result = "ok" /\ r.kind \in Relayed
           place == IF sse THEN "relay" ELSE IF relayed THEN "rebind" ELSE "release"
           seen == r.header \/ sse
           got == IF result = "ok" THEN Opening(r.kind) ELSE r.got
           s == [r EXCEPT !.pc = place, !.result = result, !.header = seen, !.got = got]
<1>1. r \in RequestRecord /\ Sound(r, holds[c])
  BY RequestFacts
<1>2. (CASE sse -> "relay" [] relayed -> "rebind" [] OTHER -> "release") = place
  BY DEF Relayed
<1>3. req' = [req EXCEPT ![c] = s]
  BY <1>1, <1>2 DEF EndCall, Became, RequestRecord
<1>4. place \in Places /\ seen \in BOOLEAN /\ got \in {"nothing", "part", "whole"}
  BY <1>1 DEF Places, RequestRecord, Opening
<1> HIDE DEF place, seen, got
<1>5. /\ s \in RequestRecord /\ s.pc = place /\ s.result = result
      /\ s.header = seen /\ s.got = got
      /\ s.kind = r.kind /\ s.key = r.key /\ s.charged = r.charged /\ s.outcome = r.outcome
      /\ s.cancelled = r.cancelled /\ s.cancelledIn = r.cancelledIn
      /\ s.attempt = r.attempt /\ s.lateCalls = r.lateCalls
  <2>1. s \in RequestRecord
    <3> HIDE DEF r
    <3>1. result \in Results
      BY DEF Results
    <3> QED
      BY <1>1, <1>4, <3>1 DEF RequestRecord
  <2>2. s.pc = place /\ s.result = result /\ s.header = seen /\ s.got = got
    BY <1>1 DEF RequestRecord
  <2>3. /\ s.kind = r.kind /\ s.key = r.key /\ s.charged = r.charged
        /\ s.outcome = r.outcome /\ s.cancelled = r.cancelled
        /\ s.cancelledIn = r.cancelledIn /\ s.attempt = r.attempt
        /\ s.lateCalls = r.lateCalls
    BY <1>1 DEF RequestRecord
  <2> QED
    BY <2>1, <2>2, <2>3
<1> HIDE DEF s
<1>6. /\ r.got = "nothing" /\ ~r.charged /\ r.outcome = "open"
      /\ holds[c] # NoKey /\ r.key = holds[c]
  BY <1>1 DEF Sound, SeenIsFinal, BilledAtTheEnd, KeyHeldInAttempt
<1>7. Sound(s, holds[c])
  <2>1. KeyHeldInAttempt(s, holds[c]) /\ ResultFits(s) /\ SeenIsFinal(s)
    BY <1>5, <1>6
       DEF KeyHeldInAttempt, ResultFits, SeenIsFinal, Relayed, Streaming, Kinds, Opening,
           RequestRecord, place, got
  <2>2. BilledAtTheEnd(s)
    BY <1>5, <1>6 DEF BilledAtTheEnd, place
  <2>3. CancelledWindsUp(s)
    BY <1>1, <1>5 DEF Sound, CancelledWindsUp, place
  <2> QED
    BY <2>1, <2>2, <2>3 DEF Sound
<1>8. Allowed(r, holds[c], s, holds[c])
  BY <1>1, <1>5, <1>6 DEF Allowed, PhaseOf, RequestRecord, Opening, place, seen, got
<1> QED
  BY <1>3, <1>5, <1>7, <1>8 DEF Moves

\* Whatever a call comes to, the request keeps its key and has not been billed.
LEMMA CallMoves ==
  ASSUME ExecInv, NEW c \in Requests, UpstreamCall(c)
  PROVE  \E s : Moves(c, s)
<1> DEFINE r == req[c]
<1>1. r \in RequestRecord /\ Sound(r, holds[c])
  BY RequestFacts
<1>2. /\ UNCHANGED <<holds, stored>> /\ stored' \in BOOLEAN
      /\ binding' \in Keys \cup {NoKey}
  <2>1. stored \in BOOLEAN /\ binding \in Keys \cup {NoKey}
    BY DEF ExecInv
  <2>2. Forget(c) => binding' \in Keys \cup {NoKey}
    BY <2>1 DEF Forget
  <2> QED
    BY <2>1, <2>2 DEF UpstreamCall, StartCall, CallCancelled, CallSucceeds, CallRefused,
         CallFails, Backoff, AuthRejected, RateLimited, CoolModel, MarkDead, MarkCooling,
         MarkModelCooling, poolVars
<1>3. ASSUME NEW place \in {"coolModel", "backoff"}, NEW result \in Results,
             r.pc = "calling", r.lateCalls = 0,
             Became(c, [r EXCEPT !.pc = place, !.result = result])
      PROVE  \E s : Moves(c, s)
  <2> DEFINE s == [r EXCEPT !.pc = place, !.result = result]
  <2>1. s \in RequestRecord
    BY <1>1 DEF RequestRecord, Places
  <2>2. Sound(s, holds[c])
    BY <1>1, <1>3 DEF Sound, KeyHeldInAttempt, ResultFits, SeenIsFinal, BilledAtTheEnd,
                      CancelledWindsUp, RequestRecord
  <2>3. Allowed(r, holds[c], s, holds[c])
    BY <1>1, <1>3 DEF Allowed, PhaseOf, RequestRecord
  <2> QED
    BY <1>2, <1>3, <2>1, <2>2, <2>3 DEF Moves, Became
<1>4. CASE StartCall(c)
  <2> DEFINE late == IF r.cancelled THEN r.lateCalls + 1 ELSE r.lateCalls
             s == [r EXCEPT !.pc = "calling", !.lateCalls = late]
  <2>1. r.pc = "call" /\ req' = [req EXCEPT ![c] = s] /\ late \in Nat
    BY <1>1, <1>4 DEF StartCall, At, Became, RequestRecord
  <2>2. late = IF r.cancelled THEN 1 ELSE 0
    BY <1>1, <2>1 DEF Sound, CancelledWindsUp, RequestRecord
  <2> HIDE DEF late
  <2>3. s \in RequestRecord
    BY <1>1, <2>1 DEF RequestRecord, Places
  <2>4. Sound(s, holds[c])
    BY <1>1, <2>1, <2>2 DEF Sound, KeyHeldInAttempt, ResultFits, SeenIsFinal, BilledAtTheEnd,
                      CancelledWindsUp, RequestRecord
  <2>5. Allowed(r, holds[c], s, holds[c])
    BY <1>1, <2>1 DEF Allowed, PhaseOf, RequestRecord
  <2> QED
    BY <1>2, <2>1, <2>3, <2>4, <2>5 DEF Moves
<1>5. CASE CallCancelled(c)
  BY <1>2, <1>5, EndCallMoves DEF CallCancelled, At
<1>6. CASE CallSucceeds(c)
  BY <1>2, <1>6, EndCallMoves DEF CallSucceeds, At
<1>7. CASE \E result \in {"terminal", "bodyless"} : CallRefused(c, result)
  BY <1>2, <1>7, EndCallMoves DEF CallRefused, At
<1>8. ASSUME NEW why \in {"transport", "5xx"}, CallFails(c, why)
      PROVE  \E s : Moves(c, s)
  <2>1. r.pc = "calling" /\ r.lateCalls = 0
    BY <1>8 DEF CallFails, At
  <2>2. CASE r.tries < TransportRetries
    <3>1. Became(c, [r EXCEPT !.pc = "backoff", !.result = why]) /\ why \in Results
      BY <1>8, <2>2 DEF CallFails, Results
    <3> QED
      BY <1>3, <2>1, <3>1
  <2>3. CASE ~(r.tries < TransportRetries)
    <3>1. EndCall(c, "retry")
      BY <1>8, <2>3 DEF CallFails
    <3> QED
      BY <1>2, <2>1, <3>1, EndCallMoves
  <2> QED
    BY <2>2, <2>3
<1>9. CASE Backoff(c)
  <2>1. r.pc = "backoff" /\ ~(r.lateCalls > 0)
    BY <1>1, <1>9 DEF Backoff, At, Sound, CancelledWindsUp
  <2>2. CASE Became(c, [r EXCEPT !.pc = "call", !.tries = @ + 1])
    <3> DEFINE n == r.tries + 1
               s == [r EXCEPT !.pc = "call", !.tries = n]
    <3>1. n \in Nat /\ req' = [req EXCEPT ![c] = s]
      BY <1>1, <2>2 DEF Became, RequestRecord
    <3> HIDE DEF n
    <3>2. s \in RequestRecord
      BY <1>1, <3>1 DEF RequestRecord, Places
    <3>3. Sound(s, holds[c])
      BY <1>1, <2>1 DEF Sound, KeyHeldInAttempt, ResultFits, SeenIsFinal, BilledAtTheEnd,
                        CancelledWindsUp, RequestRecord
    <3>4. Allowed(r, holds[c], s, holds[c])
      BY <1>1, <2>1 DEF Allowed, PhaseOf, RequestRecord
    <3> QED
      BY <1>2, <3>1, <3>2, <3>3, <3>4 DEF Moves
  <2>3. CASE EndCall(c, "terminal")
    BY <1>2, <2>1, <2>3, EndCallMoves
  <2> QED
    BY <1>9, <2>2, <2>3 DEF Backoff
<1>10. CASE AuthRejected(c)
  BY <1>2, <1>10, EndCallMoves DEF AuthRejected, At
<1>11. ASSUME NEW d \in Durations, RateLimited(c, d)
       PROVE  \E s : Moves(c, s)
  <2>1. r.pc = "calling" /\ r.lateCalls = 0 /\ Goto(c, "coolModel") /\ r.result \in Results
    BY <1>1, <1>11 DEF RateLimited, At, RequestRecord
  <2>2. [r EXCEPT !.pc = "coolModel"] = [r EXCEPT !.pc = "coolModel", !.result = r.result]
    BY <1>1 DEF RequestRecord
  <2>3. Became(c, [r EXCEPT !.pc = "coolModel", !.result = r.result])
    BY <2>1, <2>2 DEF Goto, Became, ExecInv
  <2> QED
    BY <1>3, <2>1, <2>3
<1>12. ASSUME NEW d \in Durations, CoolModel(c, d)
       PROVE  \E s : Moves(c, s)
  <2>1. r.pc = "coolModel" /\ ~(r.lateCalls > 0) /\ EndCall(c, "retry")
    BY <1>1, <1>12 DEF CoolModel, At, Sound, CancelledWindsUp
  <2> QED
    BY <1>2, <2>1, EndCallMoves
<1> QED
  BY <1>4, <1>5, <1>6, <1>7, <1>8, <1>9, <1>10, <1>11, <1>12 DEF UpstreamCall

-----------------------------------------------------------------------------
(* The stream, the release and the end.                                    *)

LEMMA RelayMoves ==
  ASSUME ExecInv, NEW c \in Requests,
         \/ RelayKeepsAlive(c) \/ RelayStarts(c)
         \/ \E result \in RelayResults : RelayEnds(c, result)
  PROVE  \E s : Moves(c, s)
<1> DEFINE r == req[c]
<1>1. r \in RequestRecord /\ Sound(r, holds[c]) /\ r.pc = "relay" /\ holds[c] # NoKey
  BY RequestFacts
     DEF RelayKeepsAlive, RelayStarts, RelayEnds, At, Sound, KeyHeldInAttempt
<1>2. /\ UNCHANGED <<holds, binding, stored>> /\ stored' \in BOOLEAN
      /\ binding' \in Keys \cup {NoKey}
  BY DEF RelayKeepsAlive, RelayStarts, RelayEnds, poolVars, ExecInv
<1>3. ASSUME NEW got \in {r.got, "part"}, RelayKeepsAlive(c) \/ r.got = "nothing",
             Became(c, [r EXCEPT !.header = TRUE, !.got = got])
      PROVE  \E s : Moves(c, s)
  <2> DEFINE s == [r EXCEPT !.header = TRUE, !.got = got]
  <2>1. s \in RequestRecord /\ req' = [req EXCEPT ![c] = s]
    BY <1>1, <1>3 DEF RequestRecord, Became
  <2>2. Sound(s, holds[c])
    BY <1>1 DEF Sound, KeyHeldInAttempt, ResultFits, SeenIsFinal, BilledAtTheEnd,
                CancelledWindsUp, RequestRecord
  <2>3. Allowed(r, holds[c], s, holds[c])
    BY <1>1, <1>3 DEF Allowed, PhaseOf, RequestRecord
  <2> QED
    BY <1>2, <2>1, <2>2, <2>3 DEF Moves
<1>4. CASE RelayKeepsAlive(c)
  <2>1. [r EXCEPT !.header = TRUE] = [r EXCEPT !.header = TRUE, !.got = r.got]
    BY <1>1 DEF RequestRecord
  <2> QED
    BY <1>3, <1>4, <2>1 DEF RelayKeepsAlive, Became
<1>5. CASE RelayStarts(c)
  BY <1>3, <1>5 DEF RelayStarts
<1>6. ASSUME NEW result \in RelayResults, RelayEnds(c, result)
      PROVE  \E s : Moves(c, s)
  <2> DEFINE got == IF result = "ok" THEN "whole" ELSE r.got
             s == [r EXCEPT !.pc = "release", !.result = result, !.got = got]
  <2>1. /\ req' = [req EXCEPT ![c] = s]
        /\ result \in {"ok", "cut"} => r.got = "part"
        /\ result \in {"cut", "empty"} => r.kind \in Relayed
        /\ result = "empty" => r.got = "nothing"
    BY <1>6 DEF RelayEnds, EndRelay, Became
  <2>2. s \in RequestRecord
    BY <1>1 DEF RequestRecord, Places, Results, RelayResults
  <2>3. Sound(s, holds[c])
    BY <1>1, <2>1 DEF Sound, KeyHeldInAttempt, ResultFits, SeenIsFinal, BilledAtTheEnd,
                      CancelledWindsUp, RequestRecord, RelayResults
  <2>4. Allowed(r, holds[c], s, holds[c])
    BY <1>1, <2>1 DEF Allowed, PhaseOf, RequestRecord
  <2> QED
    BY <1>2, <2>1, <2>2, <2>3, <2>4 DEF Moves
<1> QED
  BY <1>4, <1>5, <1>6

LEMMA ReleaseMoves ==
  ASSUME ExecInv, NEW c \in Requests, Release(c)
  PROVE  \E s : Moves(c, s)
<1> DEFINE r == req[c]
<1>1. r \in RequestRecord /\ Sound(r, holds[c]) /\ c \in Callers
  BY RequestFacts
<1>2. /\ UNCHANGED <<binding, stored>> /\ stored' \in BOOLEAN
      /\ binding' \in Keys \cup {NoKey} /\ holds'[c] = NoKey
      /\ \A d \in Requests \ {c} : holds'[d] = holds[d]
  BY <1>1, ExecutionAssumption DEF Release, ReleaseKey, ExecInv, PoolTypeOK
<1>3. r.pc = "release" /\ Became(c, AfterRelease(r)) /\ ~r.charged /\ holds[c] # NoKey
      /\ r.outcome = "open"
  BY <1>1 DEF Release, ReleaseKey, At, Sound, BilledAtTheEnd
<1> USE DEF Sound, ResultFits, SeenIsFinal, CancelledWindsUp, BillFits
<1>4. CASE \/ r.result \in {"retry", "bodyless"}
           \/ r.result = "terminal" /\ r.kind \in RetriesTerminal
  <2>1. AfterRelease(r) = NextAttempt(r)
    BY <1>4 DEF AfterRelease
  <2>2. r.got = "nothing" /\ (r.lateCalls > 0 => r.kind \in Patient)
    BY <1>1, <1>3, <1>4 DEF RetriesTerminal, Patient
  <2> QED
    BY <1>2, <1>3, <2>1, <2>2, Retrying
<1>5. CASE r.result = "terminal" /\ r.kind \notin RetriesTerminal
  <2>1. AfterRelease(r) = Closed(r, "error") /\ BillFits(r, "error")
    BY <1>1, <1>3, <1>5 DEF AfterRelease
  <2> QED
    BY <1>2, <1>3, <2>1, Closing DEF Outcomes
<1>6. CASE r.result = "interrupted" /\ r.kind \in Relayed
  <2>1. AfterRelease(r) = Closed(r, "interrupted") /\ BillFits(r, "interrupted")
    BY <1>1, <1>3, <1>6 DEF AfterRelease, Relayed, RequestRecord
  <2> QED
    BY <1>2, <1>3, <2>1, Closing DEF Outcomes
<1>7. CASE r.result = "ok" /\ r.kind = "models"
  <2>1. AfterRelease(r) = Closed(r, "answered") /\ BillFits(r, "answered")
    BY <1>1, <1>3, <1>7 DEF AfterRelease
  <2> QED
    BY <1>2, <1>3, <2>1, Closing DEF Outcomes
<1>8. ASSUME NEW place \in {"forget", "rebind", "charge"},
             AfterRelease(r) = [r EXCEPT !.pc = place],
             r.result \in {"ok", "empty", "cut", "interrupted"},
             place = "forget" => r.result = "empty",
             place = "rebind" => r.result = "ok" /\ r.kind \in {"chat", "embeddings"},
             place = "charge" => /\ r.kind \in Streaming
                                 /\ r.result = "interrupted" => r.kind = "sse"
                                 /\ r.got # "nothing"
      PROVE  \E s : Moves(c, s)
  <2> DEFINE s == [r EXCEPT !.pc = place]
  <2>1. s \in RequestRecord
    BY <1>1, <1>8 DEF RequestRecord, Places
  <2>2. Sound(s, NoKey)
    BY <1>1, <1>3, <1>8 DEF KeyHeldInAttempt, BilledAtTheEnd, RequestRecord, Relayed, Streaming
  <2>3. Allowed(r, holds[c], s, NoKey)
    BY <1>1, <1>3, <1>8 DEF Allowed, PhaseOf, RequestRecord
  <2> QED
    BY <1>2, <1>3, <1>8, <2>1, <2>2, <2>3 DEF Moves, Became
<1>9. CASE r.result = "empty"
  <2>1. AfterRelease(r) = [r EXCEPT !.pc = "forget"]
    BY <1>9 DEF AfterRelease
  <2> QED
    BY <1>8, <1>9, <2>1
<1>10. CASE r.result = "ok" /\ r.kind \in {"chat", "embeddings"}
  <2>1. AfterRelease(r) = [r EXCEPT !.pc = "rebind"]
    BY <1>10 DEF AfterRelease
  <2> QED
    BY <1>8, <1>10, <2>1
<1>11. CASE \/ r.result = "cut"
            \/ r.result = "ok" /\ r.kind \in Streaming
            \/ r.result = "interrupted" /\ r.kind = "sse"
  <2>1. AfterRelease(r) = [r EXCEPT !.pc = "charge"]
    BY <1>11 DEF AfterRelease, Streaming, Relayed
  <2>2. r.got # "nothing" /\ r.kind \in Streaming
    BY <1>1, <1>3, <1>11 DEF Streaming, Relayed
  <2> QED
    BY <1>8, <1>11, <2>1, <2>2
<1>12. /\ r.result \in {"ok", "terminal", "bodyless", "retry", "interrupted", "cut", "empty"}
       /\ r.result = "interrupted" => r.kind \in Streaming
       /\ r.kind \in Kinds
  BY <1>1, <1>3 DEF RequestRecord
<1> QED
  BY <1>4, <1>5, <1>6, <1>7, <1>9, <1>10, <1>11, <1>12 DEF Kinds, Streaming, Relayed

LEMMA EndMoves ==
  ASSUME ExecInv, NEW c \in Requests, ForgetEmpty(c) \/ Charge(c) \/ Finish(c)
  PROVE  \E s : Moves(c, s)
<1> DEFINE r == req[c]
<1>1. r \in RequestRecord /\ Sound(r, holds[c])
  BY RequestFacts
<1>2. /\ UNCHANGED holds /\ stored' \in BOOLEAN /\ binding' \in Keys \cup {NoKey}
  BY DEF ForgetEmpty, Forget, Charge, Finish, poolVars, ExecInv
<1>3. CASE ForgetEmpty(c)
  <2>1. /\ r.pc = "forget" /\ Became(c, NextAttempt(r)) /\ r.got = "nothing" /\ ~(r.lateCalls > 0)
        /\ holds[c] = NoKey
    BY <1>1, <1>3 DEF ForgetEmpty, At, Sound, SeenIsFinal, CancelledWindsUp, KeyHeldInAttempt
  <2> QED
    BY <1>2, <2>1, Retrying
<1>4. CASE Charge(c)
  <2> DEFINE s == [r EXCEPT !.pc = "finish", !.charged = TRUE]
  <2>1. r.pc = "charge" /\ req' = [req EXCEPT ![c] = s]
    BY <1>4 DEF Charge, At, Became
  <2>2. s \in RequestRecord
    BY <1>1 DEF RequestRecord, Places
  <2>3. Sound(s, holds[c])
    BY <1>1, <2>1 DEF Sound, KeyHeldInAttempt, ResultFits, SeenIsFinal, BilledAtTheEnd,
                      CancelledWindsUp, RequestRecord
  <2>4. Allowed(r, holds[c], s, holds[c])
    BY <1>1, <2>1
       DEF Allowed, PhaseOf, RequestRecord, Sound, SeenIsFinal, KeyHeldInAttempt, BilledAtTheEnd
  <2> QED
    BY <1>2, <2>1, <2>2, <2>3, <2>4 DEF Moves
<1>5. CASE Finish(c)
  <2> DEFINE outcome == IF r.result = "interrupted" THEN "interrupted" ELSE "answered"
  <2>1. /\ r.pc = "finish" /\ Became(c, Closed(r, outcome)) /\ holds[c] = NoKey
        /\ outcome \in {"answered", "interrupted"}
    BY <1>1, <1>5 DEF Finish, At, Sound, KeyHeldInAttempt
  <2>2. BillFits(r, outcome)
    BY <1>1, <2>1 DEF BillFits, Sound, BilledAtTheEnd, ResultFits, SeenIsFinal, RequestRecord
  <2> HIDE DEF outcome
  <2> QED
    BY <1>2, <2>1, <2>2, Closing DEF Outcomes
<1> QED
  BY <1>3, <1>4, <1>5

\* The client may go away in any place.
LEMMA CancelMoves ==
  ASSUME ExecInv, NEW c \in Requests, ClientCancels(c)
  PROVE  \E s : Moves(c, s)
<1> DEFINE r == req[c]
           s == [r EXCEPT !.cancelled = TRUE, !.cancelledIn = r.attempt]
<1>1. r \in RequestRecord /\ Sound(r, holds[c])
  BY RequestFacts
<1>2. /\ UNCHANGED holds /\ stored' \in BOOLEAN /\ binding' \in Keys \cup {NoKey}
  BY DEF ClientCancels, poolVars, ExecInv
<1>3. r.pc # "closed" /\ ~r.cancelled /\ req' = [req EXCEPT ![c] = s]
  BY DEF ClientCancels, At, Became
<1>4. s \in RequestRecord
  BY <1>1 DEF RequestRecord
<1>5. Sound(s, holds[c])
  BY <1>1, <1>3 DEF Sound, KeyHeldInAttempt, ResultFits, SeenIsFinal, BilledAtTheEnd,
                    CancelledWindsUp, RequestRecord
<1>6. Allowed(r, holds[c], s, holds[c])
  BY <1>1 DEF Allowed, PhaseOf, RequestRecord
<1> QED
  BY <1>2, <1>3, <1>4, <1>5, <1>6 DEF Moves

\* Every step of a request keeps what holds of it and is allowed.
LEMMA RequestMoves ==
  ASSUME ExecInv, NEW c \in Requests, RequestStep(c) \/ ClientCancels(c)
  PROVE  \E s : Moves(c, s)
<1>1. CASE CacheHit(c)
  BY <1>1, CacheHitMoves
<1>2. CASE CacheMiss(c) \/ ClientGone(c) \/ BeginAttempt(c) \/ Exhausted(c)
  BY <1>2, HeadMoves
<1>3. CASE \/ AcquirePreferred(c) \/ QueueTimeout(c) \/ QueueCancelled(c)
           \/ \E k \in Keys : AcquireQueued(c, k)
  BY <1>3, AcquisitionMoves
<1>4. CASE Bind(c) \/ Rebind(c)
  BY <1>4, BindMoves
<1>5. CASE UpstreamCall(c)
  BY <1>5, CallMoves
<1>6. CASE \/ RelayKeepsAlive(c) \/ RelayStarts(c)
           \/ \E result \in RelayResults : RelayEnds(c, result)
  BY <1>6, RelayMoves
<1>7. CASE Release(c)
  BY <1>7, ReleaseMoves
<1>8. CASE ForgetEmpty(c) \/ Charge(c) \/ Finish(c)
  BY <1>8, EndMoves
<1>9. CASE ClientCancels(c)
  BY <1>9, CancelMoves
<1> QED
  BY <1>1, <1>2, <1>3, <1>4, <1>5, <1>6, <1>7, <1>8, <1>9 DEF RequestStep

-----------------------------------------------------------------------------
(* What the requests do to the pool are operations of KeyPool.             *)

LEMMA RequestUsesPool ==
  ASSUME ExecInv, NEW c \in Requests, RequestStep(c) \/ ClientCancels(c)
  PROVE  [PoolNext]_poolVars
<1> DEFINE r == req[c]
<1>1. /\ r \in RequestRecord /\ Sound(r, holds[c]) /\ c \in Callers
      /\ Model(c) \in Models \cup {NoModel}
  BY RequestFacts
<1>2. Limit \in Limits
  BY ExecutionAssumption DEF Limit
<1>3. r.pc \in {"calling", "coolModel"} => r.key \in Keys
  BY <1>1 DEF Sound, KeyHeldInAttempt, RequestRecord
<1>4. CASE AcquirePreferred(c)
  <2>1. CASE r.preferred = NoKey
    BY <1>4, <2>1 DEF AcquirePreferred
  <2>2. CASE r.preferred # NoKey
    BY <1>1, <1>2, <1>4, <2>2 DEF AcquirePreferred, PoolNext, RequestRecord
  <2> QED
    BY <2>1, <2>2
<1>5. CASE \E k \in Keys : AcquireQueued(c, k)
  BY <1>1, <1>2, <1>5 DEF AcquireQueued, PoolNext
<1>6. CASE QueueTimeout(c) \/ QueueCancelled(c)
  BY <1>1, <1>2, <1>6 DEF QueueTimeout, QueueCancelled, PoolNext
<1>7. CASE UpstreamCall(c)
  <2>1. CASE AuthRejected(c)
    BY <1>3, <2>1 DEF AuthRejected, At, PoolNext
  <2>2. CASE \E d \in Durations : RateLimited(c, d)
    BY <1>3, <2>2 DEF RateLimited, At, PoolNext
  <2>3. ASSUME NEW d \in Durations, CoolModel(c, d)
        PROVE  [PoolNext]_poolVars
    <3>1. CASE Model(c) = NoModel
      BY <2>3, <3>1 DEF CoolModel
    <3>2. CASE Model(c) # NoModel
      BY <1>1, <1>3, <2>3, <3>2 DEF CoolModel, At, PoolNext
    <3> QED
      BY <3>1, <3>2
  <2>4. CASE \/ StartCall(c) \/ CallCancelled(c) \/ CallSucceeds(c)
             \/ \E result \in {"terminal", "bodyless"} : CallRefused(c, result)
             \/ \E why \in {"transport", "5xx"} : CallFails(c, why)
             \/ Backoff(c)
    BY <2>4 DEF StartCall, CallCancelled, CallSucceeds, CallRefused, CallFails, Backoff
  <2> QED
    BY <1>7, <2>1, <2>2, <2>3, <2>4 DEF UpstreamCall
<1>8. CASE Release(c)
  BY <1>1, <1>8 DEF Release, PoolNext
<1>9. CASE \/ CacheHit(c) \/ CacheMiss(c) \/ ClientGone(c) \/ BeginAttempt(c) \/ Exhausted(c)
           \/ Bind(c) \/ Rebind(c) \/ RelayKeepsAlive(c) \/ RelayStarts(c)
           \/ \E result \in RelayResults : RelayEnds(c, result)
           \/ ForgetEmpty(c) \/ Charge(c) \/ Finish(c) \/ ClientCancels(c)
  BY <1>9 DEF CacheHit, CacheMiss, ClientGone, BeginAttempt, Exhausted, Bind, Rebind,
     BindUnlessBound, BindWrite, RelayKeepsAlive, RelayStarts, RelayEnds, ForgetEmpty, Charge, Finish,
     ClientCancels
<1> QED
  BY <1>4, <1>5, <1>6, <1>7, <1>8, <1>9 DEF RequestStep

LEMMA OthersUsePool ==
  ASSUME ExecInv, OtherStep \/ ClockTick
  PROVE  /\ [PoolNext]_poolVars /\ UNCHANGED <<req, stored>>
         /\ binding' \in Keys \cup {NoKey}
         /\ \A c \in Requests : holds'[c] = holds[c]
<1>0. Limit \in Limits
  BY ExecutionAssumption DEF Limit
<1>1. ASSUME NEW c \in Others, NEW k \in Keys, OtherAcquires(c, k)
      PROVE  /\ [PoolNext]_poolVars /\ UNCHANGED <<req, stored, binding>>
             /\ \A d \in Requests : holds'[d] = holds[d]
  BY <1>0, <1>1, ExecutionAssumption
     DEF OtherAcquires, Others, PoolNext, AcquireSome, Grant, ExecInv, PoolTypeOK
<1>2. ASSUME NEW c \in Others, OtherReleases(c)
      PROVE  /\ [PoolNext]_poolVars /\ UNCHANGED <<req, stored, binding>>
             /\ \A d \in Requests : holds'[d] = holds[d]
  BY <1>2, ExecutionAssumption DEF OtherReleases, Others, PoolNext, ReleaseKey, ExecInv, PoolTypeOK
<1>3. ASSUME NEW c \in Others, OtherIsRefused(c)
      PROVE  /\ [PoolNext]_poolVars /\ UNCHANGED <<req, stored, binding, holds>>
  <2>1. holds[c] \in Keys
    BY <1>3 DEF OtherIsRefused, Others, ExecInv, PoolTypeOK
  <2> QED
    BY <1>3, <2>1 DEF OtherIsRefused, PoolNext, MarkDead
<1>4. CASE BindingChanges
  BY <1>4 DEF BindingChanges, poolVars
<1>5. CASE ClockTick
  BY <1>5 DEF ClockTick, Tick, PoolNext, ExecInv
<1> QED
  BY <1>1, <1>2, <1>3, <1>4, <1>5 DEF OtherStep, ExecInv

-----------------------------------------------------------------------------
(* The invariant.                                                          *)

LEMMA ExecInitially == ExecInit => ExecInv
<1> SUFFICES ASSUME ExecInit PROVE ExecInv
  OBVIOUS
<1>1. PoolTypeOK
  BY DEF ExecInit, PoolTypeOK
<1>2. NoPhantomSlot
  BY HoldersFinite DEF ExecInit, NoPhantomSlot
<1>3. ASSUME NEW kind \in RequestKinds
      PROVE  NewRequest(kind) \in RequestRecord /\ Sound(NewRequest(kind), NoKey)
  BY <1>3, ExecutionAssumption DEF NewRequest, RequestRecord, Places, Results, Outcomes,
     Sound, KeyHeldInAttempt, ResultFits, SeenIsFinal, BilledAtTheEnd, CancelledWindsUp
<1>4. /\ req \in [Requests -> RequestRecord]
      /\ \A c \in Requests : Sound(req[c], holds[c])
  BY <1>3, ExecutionAssumption DEF ExecInit
<1> QED
  BY <1>1, <1>2, <1>4 DEF ExecInit, ExecInv

LEMMA PoolKept ==
  ASSUME ExecInv, [PoolNext]_poolVars
  PROVE  PoolTypeOK' /\ NoPhantomSlot'
BY StepType, StepSlots DEF ExecInv

LEMMA ExecKept == ExecInv /\ [ExecNext]_execVars => ExecInv'
<1> SUFFICES ASSUME ExecInv, [ExecNext]_execVars PROVE ExecInv'
  OBVIOUS
<1>1. ASSUME NEW c \in Requests, RequestStep(c) \/ ClientCancels(c)
      PROVE  ExecInv'
  <2>1. PICK s : Moves(c, s)
    BY <1>1, RequestMoves
  <2>2. PoolTypeOK' /\ NoPhantomSlot'
    BY <1>1, RequestUsesPool, PoolKept
  <2> QED
    BY <2>1, <2>2 DEF Moves, ExecInv
<1>2. CASE OtherStep \/ ClockTick
  BY <1>2, OthersUsePool, PoolKept DEF ExecInv
<1>3. CASE UNCHANGED execVars
  <2>1. UNCHANGED poolVars /\ UNCHANGED <<binding, stored, req>> /\ UNCHANGED holds
    BY <1>3 DEF execVars, poolVars
  <2> QED
    BY <2>1, PoolKept DEF ExecInv
<1> QED
  BY <1>1, <1>2, <1>3 DEF ExecNext

-----------------------------------------------------------------------------
(* What follows from it.                                                   *)

\* Nothing of an answer costs nothing, over any number of attempts; a whole
\* answer is charged; one that broke off is charged if it was passed through,
\* and if it was translated exactly on the relay's verdict (proxy.go 409-871,
\* stream_live_compat.go 198-206 and 433-508, responses.go 276-290).
THEOREM BillMatchesDelivery == ExecSpec => []DeliveredIsCharged
<1>1. ExecInv => DeliveredIsCharged
  BY DEF ExecInv, Sound, BilledAtTheEnd, BillFits, DeliveredIsCharged, At
<1> QED
  BY <1>1, ExecInitially, ExecKept, PTL DEF ExecSpec

\* A client that goes away costs at most one more upstream call, whichever wait
\* the cancellation meets, and no further attempt of a patient executor
\* (proxy.go 425-427, 546-547).
THEOREM CancellationIsFinal == ExecSpec => []CancelStopsRequest
<1>1. ExecInv => CancelStopsRequest
  <2> SUFFICES ASSUME ExecInv, NEW c \in Requests
               PROVE  /\ req[c].lateCalls <= 1
                      /\ req[c].cancelled /\ req[c].kind \in Patient =>
                           /\ req[c].attempt <= req[c].cancelledIn + 1
                           /\ req[c].outcome = "fallback" =>
                                req[c].cancelledIn >= Budget(c) - 1
    BY DEF CancelStopsRequest
  <2>1. req[c] \in RequestRecord /\ CancelledWindsUp(req[c])
    BY RequestFacts DEF Sound
  <2> QED
    BY <2>1, BudgetIsAllowance DEF CancelledWindsUp, RequestRecord
<1> QED
  BY <1>1, ExecInitially, ExecKept, PTL DEF ExecSpec

\* The requests never lose a slot: a key's counter is the number of requests
\* that hold it, through every retry, stream and cancellation (scheduler.go 147-206).
THEOREM RequestsLeakNoSlot == ExecSpec => []NoPhantomSlot
<1>1. ExecInv => NoPhantomSlot
  BY DEF ExecInv
<1> QED
  BY <1>1, ExecInitially, ExecKept, PTL DEF ExecSpec

-----------------------------------------------------------------------------
(* The request contract.                                                   *)

LEMMA PhaseIsOfRecord ==
  ASSUME NEW c \in Requests
  PROVE  Phase(c) = PhaseOf(req[c]) /\ Phase(c)' = PhaseOf(req'[c])
BY DEF Phase, PhaseOf, At

\* A move of one request changes what the contract sees of that request only.
LEMMA MoveIsContractStep ==
  ASSUME ExecInv, NEW c \in Requests, NEW s, Moves(c, s)
  PROVE  [Contract!ContractNext]_(Contract!contractVars)
<1> DEFINE phase == [d \in Requests |-> Phase(d)]
           holding == {d \in Requests : holds[d] # NoKey}
           billed == {d \in Requests : req[d].charged}
           h == holds[c]
           g == holds'[c]
<1>1. /\ req[c] \in RequestRecord /\ s \in RequestRecord
      /\ Allowed(req[c], h, s, g)
      /\ req'[c] = s /\ \A d \in Requests \ {c} : req'[d] = req[d] /\ holds'[d] = holds[d]
  BY RequestFacts DEF Moves, ExecInv
<1>2. /\ phase[c] = PhaseOf(req[c])
      /\ phase' = [phase EXCEPT ![c] = PhaseOf(s)]
  BY <1>1, PhaseIsOfRecord
<1>3. /\ holding' = IF g # NoKey THEN holding \cup {c} ELSE holding \ {c}
      /\ c \in holding <=> h # NoKey
  BY <1>1
<1>4. /\ req[c].charged \in BOOLEAN /\ s.charged \in BOOLEAN
      /\ billed' = IF s.charged THEN billed \cup {c} ELSE billed \ {c}
      /\ c \in billed <=> req[c].charged
  BY <1>1 DEF RequestRecord
<1>5. phase = [phase EXCEPT ![c] = phase[c]]
  OBVIOUS
<1> HIDE DEF phase, holding, billed
<1>6. CASE s.charged = req[c].charged /\ PhaseOf(s) = PhaseOf(req[c]) /\ (g # NoKey => h # NoKey)
  <2>1. phase' = phase /\ billed' = billed
    BY <1>2, <1>4, <1>5, <1>6
  <2>2. holding' = holding \/ (c \in holding /\ holding' = holding \ {c})
    BY <1>3, <1>6
  <2> QED
    BY <2>1, <2>2 DEF Contract!ContractNext, Contract!Release, Contract!contractVars,
                      phase, holding, billed
<1>7. CASE /\ s.charged = req[c].charged /\ h = NoKey
           /\ PhaseOf(s) = PhaseOf(req[c]) /\ PhaseOf(req[c]) \in {"trying", "greeted"}
  <2>1. phase' = phase /\ billed' = billed /\ phase[c] \in Contract!Unanswered
    BY <1>2, <1>4, <1>5, <1>7 DEF Contract!Unanswered
  <2>2. c \notin holding /\ holding' \in {holding, holding \cup {c}}
    BY <1>3, <1>7
  <2> QED
    BY <2>1, <2>2 DEF Contract!ContractNext, Contract!Acquire, Contract!contractVars,
                      phase, holding, billed
<1>8. CASE /\ s.charged = req[c].charged /\ (g # NoKey <=> h # NoKey)
           /\ PhaseOf(s) = "answering" /\ PhaseOf(req[c]) \in {"trying", "greeted"}
  <2>1. /\ phase' = [phase EXCEPT ![c] = "answering"] /\ billed' = billed
        /\ phase[c] \in Contract!Unanswered
    BY <1>2, <1>4, <1>8 DEF Contract!Unanswered
  <2>2. holding' = holding
    BY <1>3, <1>8
  <2> QED
    BY <2>1, <2>2 DEF Contract!ContractNext, Contract!Answer, phase, holding, billed
<1>9. CASE /\ s.charged = req[c].charged /\ g = NoKey
            /\ PhaseOf(s) = "closed" /\ PhaseOf(req[c]) # "closed"
  <2>1. phase' = [phase EXCEPT ![c] = "closed"] /\ billed' = billed /\ phase[c] # "closed"
    BY <1>2, <1>4, <1>9
  <2>2. holding' = holding \ {c}
    BY <1>3, <1>9
  <2> QED
    BY <2>1, <2>2 DEF Contract!ContractNext, Contract!Close, phase, holding, billed
<1>10. CASE /\ s.charged /\ ~req[c].charged /\ h = NoKey /\ g = NoKey
            /\ PhaseOf(s) = "answering" /\ PhaseOf(req[c]) = "answering"
  <2>1. phase' = phase /\ billed' = billed \cup {c} /\ c \notin billed /\ phase[c] = "answering"
    BY <1>2, <1>4, <1>5, <1>10
  <2>2. c \notin holding /\ holding' = holding
    BY <1>3, <1>10
  <2> QED
    BY <2>1, <2>2 DEF Contract!ContractNext, Contract!Bill, phase, holding, billed
<1>11. CASE /\ s.charged = req[c].charged /\ h # NoKey /\ g # NoKey
            /\ PhaseOf(s) = "greeted" /\ PhaseOf(req[c]) = "trying"
  <2>1. phase' = [phase EXCEPT ![c] = "greeted"] /\ billed' = billed /\ phase[c] = "trying"
    BY <1>2, <1>4, <1>11
  <2>2. c \in holding /\ holding' = holding
    BY <1>3, <1>11
  <2> QED
    BY <2>1, <2>2 DEF Contract!ContractNext, Contract!Greet, phase, holding, billed
<1> QED
  BY <1>1, <1>6, <1>7, <1>8, <1>9, <1>10, <1>11 DEF Allowed

\* Each executor, over every path through attempts, retries, streams and
\* cancellations, holds one key at a time and gives it back before the end,
\* takes no further key once there is something of an answer for the client
\* (comments may be out), and charges at most once and only behind an answer
\* (proxy.go 409-871, stream_live_compat.go 102-332, responses.go 220-292,
\* embeddings.go 47-92).
THEOREM ExecutorsKeepContract == ExecSpec => ImplementsContract
<1>1. ExecInit => Contract!ContractInit
  <2> SUFFICES ASSUME ExecInit PROVE Contract!ContractInit
    OBVIOUS
  <2>1. \A c \in Requests : /\ req[c].pc = "start" /\ ~req[c].header /\ ~req[c].charged
                           /\ req[c].got = "nothing"
                           /\ holds[c] = NoKey
    BY ExecutionAssumption DEF ExecInit, NewRequest
  <2> QED
    BY <2>1 DEF Contract!ContractInit, Phase, At
<1>2. ExecInv /\ [ExecNext]_execVars => [Contract!ContractNext]_(Contract!contractVars)
  <2> SUFFICES ASSUME ExecInv, [ExecNext]_execVars
               PROVE  [Contract!ContractNext]_(Contract!contractVars)
    OBVIOUS
  <2>1. ASSUME NEW c \in Requests, RequestStep(c) \/ ClientCancels(c)
        PROVE  [Contract!ContractNext]_(Contract!contractVars)
    BY <2>1, RequestMoves, MoveIsContractStep
  <2>2. CASE OtherStep \/ ClockTick \/ UNCHANGED execVars
    <3>1. req' = req /\ \A c \in Requests : holds'[c] = holds[c]
      BY <2>2, OthersUsePool DEF execVars, poolVars
    <3> QED
      BY <3>1 DEF Contract!contractVars, Phase, At
  <2> QED
    BY <2>1, <2>2 DEF ExecNext
<1> QED
  BY <1>1, <1>2, ExecInitially, ExecKept, PTL
  DEF ExecSpec, ImplementsContract, Contract!ContractSpec
=============================================================================
