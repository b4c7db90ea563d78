---------------------------- MODULE KeyScheduler ----------------------------
(***************************************************************************)
(* The scheduler in local mode (no Redis): the pool of KeyPool, with the   *)
(* ordered slice of weighted keys and smooth weighted round robin.  What   *)
(* does not touch the slice is the pool's own action; what does is         *)
(* written out here, and Pool!PoolSpec is checked and proved to be         *)
(* implemented with  active  read off the slice.                           *)
(*                                                                         *)
(* Weights are integers counted in halves: a health multiplier of 0.5, 1   *)
(* and 2 is 1, 2 and 4, and a weight is base * multiplier in that unit.    *)
(***************************************************************************)
EXTENDS Integers, Sequences, FiniteSets

CONSTANTS Keys, Models, NoModel, Callers, NoKey, Limits, Durations, MaxTime,
          BaseWeights,   \* weights an administrator can give a key
          Multipliers    \* health multipliers, in halves, before clamping

VARIABLES now, slots, dead, cooling, modelCooling, concurrency, holds

vars == <<now, slots, dead, cooling, modelCooling, concurrency, holds>>

ActiveKeys == {slots[i].key : i \in DOMAIN slots}

Pool == INSTANCE KeyPool WITH active <- ActiveKeys

ASSUME SchedulerAssumption ==
  /\ Pool!PoolAssumption
  /\ BaseWeights \subseteq Nat \ {0}
  /\ Multipliers \subseteq Nat

Neutral == 2                  \* multiplier 1.0
MinMultiplier == 1            \* healthMultiplierMin = 0.5
MaxMultiplier == 4            \* healthMultiplierMax = 2.0

clampHealthMultiplier(x) ==
  IF x < MinMultiplier THEN MinMultiplier
  ELSE IF x > MaxMultiplier THEN MaxMultiplier ELSE x

-----------------------------------------------------------------------------
Init ==
  /\ slots = <<>>
  /\ now = 1
  /\ dead = {}
  /\ cooling = [k \in Keys |-> 0]
  /\ modelCooling = [km \in Keys \X Models |-> 0]
  /\ concurrency = [k \in Keys |-> 0]
  /\ holds = [c \in Callers |-> NoKey]

\* Mutants of Candidates: a dead key qualifies; a full key qualifies.
CandidatesWithDead(m, limit) ==
  {i \in DOMAIN slots : /\ ~Pool!Cooled(slots[i].key, m)
                        /\ concurrency[slots[i].key] < limit}

CandidatesOffByOne(m, limit) ==
  {i \in DOMAIN slots : Pool!Eligible(slots[i].key, m, limit + 1)}

\* The slice positions AcquireKey considers.
Candidates(m, limit) ==
  {i \in DOMAIN slots : Pool!Eligible(slots[i].key, m, limit)}

Raised(i) == slots[i].currentWeight + slots[i].weight

\* The highest raised weight, the earliest position on a tie.
Selected(E) ==
  CHOOSE i \in E : \A j \in E :
    Raised(j) < Raised(i) \/ (Raised(j) = Raised(i) /\ i <= j)

\* The loop adds up the weights of the candidates in the order of the slice.
TotalWeight(E) ==
  LET counted == [i \in DOMAIN slots |-> IF i \in E THEN slots[i].weight ELSE 0]
      total[n \in 0..Len(slots)] == IF n = 0 THEN 0 ELSE total[n - 1] + counted[n]
  IN total[Len(slots)]

\* Mutant of AfterRound: the credit is lost (the loop works on copies).
AfterRoundOnCopies(E) == slots

\* The slice after one round: candidates are raised, the winner pays for all.
AfterRound(E) ==
  [i \in DOMAIN slots |->
     IF i \notin E THEN slots[i]
     ELSE [slots[i] EXCEPT !.currentWeight =
             IF i = Selected(E) THEN Raised(i) - TotalWeight(E) ELSE Raised(i)]]

AcquireKey(c, m, limit) ==
  LET E == Candidates(m, limit) IN
  /\ holds[c] = NoKey
  /\ Pool!PurgeExpired
  /\ UNCHANGED <<now, dead>>
  /\ IF E = {} THEN UNCHANGED <<slots, concurrency, holds>>
     ELSE /\ Pool!Grant(c, slots[Selected(E)].key)
          /\ slots' = AfterRound(E)

\* An acquisition of the preferred key bypasses the round robin.
TryAcquireSpecificKey(c, k, m, limit) ==
  UNCHANGED slots /\ Pool!TryAcquireSpecificKey(c, k, m, limit)

\* Mutant of ReleaseKey: no guard against an already wiped counter.
ReleaseUnguarded(c) == UNCHANGED slots /\ Pool!ReleaseUnguarded(c)

ReleaseKey(c) == UNCHANGED slots /\ Pool!ReleaseKey(c)

MarkCooling(k, d) == UNCHANGED slots /\ Pool!MarkCooling(k, d)

MarkModelCooling(k, m, d) == UNCHANGED slots /\ Pool!MarkModelCooling(k, m, d)

\* Mutant of AddKey: a registered key gets its bare base weight back.
AddKeyDropsMultiplier(k, w) ==
  /\ slots' =
       IF k \in ActiveKeys
       THEN [i \in DOMAIN slots |->
               IF slots[i].key # k THEN slots[i]
               ELSE [slots[i] EXCEPT !.baseWeight = w, !.weight = w * Neutral]]
       ELSE Append(slots, [key |-> k, baseWeight |-> w, healthMult |-> Neutral,
                           weight |-> w * Neutral, currentWeight |-> 0])
  /\ UNCHANGED <<now, dead, cooling, modelCooling, concurrency, holds>>

\* Registers a key, or changes the base weight of a registered one.
AddKey(k, w) ==
  /\ slots' =
       IF k \in ActiveKeys
       THEN [i \in DOMAIN slots |->
               IF slots[i].key # k THEN slots[i]
               ELSE [slots[i] EXCEPT !.baseWeight = w,
                                     !.weight = w * slots[i].healthMult]]
       ELSE Append(slots, [key |-> k, baseWeight |-> w, healthMult |-> Neutral,
                           weight |-> w * Neutral, currentWeight |-> 0])
  /\ UNCHANGED <<now, dead, cooling, modelCooling, concurrency, holds>>

\* Keys that are not registered are ignored.
SetHealthMultiplier(k, x) ==
  /\ slots' = [i \in DOMAIN slots |->
       IF slots[i].key # k THEN slots[i]
       ELSE [slots[i] EXCEPT
               !.healthMult = clampHealthMultiplier(x),
               !.weight = slots[i].baseWeight * clampHealthMultiplier(x)]]
  /\ UNCHANGED <<now, dead, cooling, modelCooling, concurrency, holds>>

MarkDead(k) ==
  /\ slots' = [i \in DOMAIN slots |->
       IF slots[i].key # k THEN slots[i]
       ELSE [slots[i] EXCEPT !.currentWeight = 0]]
  /\ dead' = dead \cup {k}
  /\ concurrency' = [concurrency EXCEPT ![k] = 0]
  /\ UNCHANGED <<now, cooling, modelCooling, holds>>

\* Mutant of Reset: the coolings go too.
ResetEverything ==
  /\ slots' = <<>>
  /\ dead' = {}
  /\ concurrency' = [k \in Keys |-> 0]
  /\ cooling' = [k \in Keys |-> 0]
  /\ UNCHANGED <<now, modelCooling, holds>>

Reset ==
  /\ slots' = <<>>
  /\ dead' = {}
  /\ concurrency' = [k \in Keys |-> 0]
  /\ UNCHANGED <<now, cooling, modelCooling, holds>>

CleanupExpired == UNCHANGED slots /\ Pool!CleanupExpired

Tick == UNCHANGED slots /\ Pool!Tick

Next ==
  \/ \E c \in Callers, m \in Models \cup {NoModel}, limit \in Limits :
       \/ AcquireKey(c, m, limit)
       \/ \E k \in Keys : TryAcquireSpecificKey(c, k, m, limit)
  \/ \E c \in Callers : ReleaseKey(c)
  \/ \E k \in Keys, d \in Durations : MarkCooling(k, d)
  \/ \E k \in Keys, m \in Models, d \in Durations : MarkModelCooling(k, m, d)
  \/ \E k \in Keys, w \in BaseWeights : AddKey(k, w)
  \/ \E k \in Keys, x \in Multipliers : SetHealthMultiplier(k, x)
  \/ \E k \in Keys : MarkDead(k)
  \/ Reset
  \/ CleanupExpired
  \/ Tick

Spec == Init /\ [][Next]_vars

-----------------------------------------------------------------------------
(* Properties.                                                             *)

Slot == [key : Keys, baseWeight : Nat, healthMult : Nat, weight : Nat,
         currentWeight : Int]

\* Type invariant of the scheduler.
TypeOK ==
  /\ slots \in Seq(Slot)
  /\ now \in Nat
  /\ dead \subseteq Keys
  /\ cooling \in [Keys -> Nat]
  /\ modelCooling \in [Keys \X Models -> Nat]
  /\ concurrency \in [Keys -> Nat]
  /\ holds \in [Callers -> Keys \cup {NoKey}]

\* No key is registered twice, and the weight the round robin uses is always
\* base * multiplier with the multiplier in its band, however AddKey, Reset
\* and SetHealthMultiplier interleave: registering a key again, or scoring it
\* again, never compounds the weight (the comments at redis.go 127-131, 226).
WeightsConsistent ==
  /\ \A i, j \in DOMAIN slots : slots[i].key = slots[j].key => i = j
  /\ \A i \in DOMAIN slots :
       /\ slots[i].healthMult \in MinMultiplier..MaxMultiplier
       /\ slots[i].weight = slots[i].baseWeight * slots[i].healthMult

\* A running cooling is never dropped early, by a reload of the pool or by the
\* purges of other acquisitions (the comments at redis.go 528-529 and 540).
CoolingOutlivesReset == [][Pool!KeepsRunningCoolings]_vars

\* Every step of the weighted scheduler is a step of the abstract pool: the
\* round robin always picks an eligible key, and gives up only when there is
\* none (redis.go 324-352).
ImplementsPool == Pool!PoolSpec

\* ... and each acquisition respects its own request: the key it takes is
\* eligible for the model and the limit that were asked for, and it comes back
\* empty only when no key is (redis.go 301-353).
GrantsWhatWasAsked ==
  [][\A c \in Callers, m \in Models \cup {NoModel}, limit \in Limits :
       AcquireKey(c, m, limit) =>
         \/ Pool!AcquireNone(c, m, limit)
         \/ \E k \in Keys : Pool!AcquireSome(c, k, m, limit)]_vars
=============================================================================
