------------------------------ MODULE KeyPool ------------------------------
(***************************************************************************)
(* What the upstream-key scheduler of the gateway promises to its callers, *)
(* with the weighted choice left open: AcquireKey hands out SOME eligible  *)
(* key, or none when there is none.  Every operation runs under the        *)
(* scheduler's mutex, so each is one action.  KeyScheduler refines this    *)
(* module; KeyLifecycle composes it with the store and the requests.       *)
(*                                                                         *)
(* `holds` is not scheduler state: it records which key each caller        *)
(* acquired and has not released yet, the truth that the counters in       *)
(* `concurrency` approximate.                                              *)
(***************************************************************************)
EXTENDS Integers, FiniteSets

CONSTANTS
  Keys,          \* upstream keys, identified by their plaintext
  Models,        \* model names a request can ask for
  NoModel,       \* the empty model name (GET /models)
  Callers,       \* concurrent requests
  NoKey,         \* "no key": the empty string AcquireKey returns
  Limits,        \* values the per-key concurrency setting takes
  Durations,     \* cooling durations, in ticks
  MaxTime        \* bound on the clock

ASSUME PoolAssumption ==
  /\ NoKey \notin Keys
  /\ NoModel \notin Models
  /\ IsFiniteSet(Callers)
  /\ Limits \subseteq Nat \ {0}
  /\ Durations \subseteq Nat \ {0}
  /\ MaxTime \in Nat

VARIABLES
  now,           \* time.Now().Unix()
  active,        \* keys registered by AddKey
  dead,          \* keys marked dead since the last Reset
  cooling,       \* key -> deadline, 0 when there is no entry
  modelCooling,  \* <<key, model>> -> deadline, 0 when there is no entry
  concurrency,   \* key -> slots counted as taken
  holds          \* caller -> key it holds, or NoKey

poolVars == <<now, active, dead, cooling, modelCooling, concurrency, holds>>

\* The limit of the requests of a configuration that does not change.
Limit == CHOOSE l \in Limits : TRUE

-----------------------------------------------------------------------------
(* An entry blocks until the clock has passed it; expired entries are      *)
(* dropped by the next acquisition of any key.                             *)

Unexpired(deadline) == [x \in DOMAIN deadline |->
                          IF deadline[x] < now THEN 0 ELSE deadline[x]]

Cooled(k, m) ==
  \/ cooling[k] >= now
  \/ m # NoModel /\ modelCooling[<<k, m>>] >= now

Eligible(k, m, limit) ==
  /\ k \in active
  /\ k \notin dead
  /\ ~Cooled(k, m)
  /\ concurrency[k] < limit

Holders(k) == {c \in Callers : holds[c] = k}

-----------------------------------------------------------------------------
PoolInit ==
  /\ now = 1
  /\ active = {}
  /\ dead = {}
  /\ cooling = [k \in Keys |-> 0]
  /\ modelCooling = [km \in Keys \X Models |-> 0]
  /\ concurrency = [k \in Keys |-> 0]
  /\ holds = [c \in Callers |-> NoKey]

PurgeExpired ==
  /\ cooling' = Unexpired(cooling)
  /\ modelCooling' = Unexpired(modelCooling)

\* The slot is counted and handed to caller c in one critical section.
Grant(c, k) ==
  /\ holds[c] = NoKey
  /\ concurrency' = [concurrency EXCEPT ![k] = @ + 1]
  /\ holds' = [holds EXCEPT ![c] = k]

AcquireSome(c, k, m, limit) ==
  /\ Eligible(k, m, limit)
  /\ Grant(c, k)
  /\ PurgeExpired
  /\ UNCHANGED <<now, active, dead>>

AcquireNone(c, m, limit) ==
  /\ holds[c] = NoKey
  /\ \A k \in Keys : ~Eligible(k, m, limit)
  /\ PurgeExpired
  /\ UNCHANGED <<now, active, dead, concurrency, holds>>

\* TryAcquireSpecificKey: a refusal only purges.
TryAcquireSpecificKey(c, k, m, limit) ==
  /\ holds[c] = NoKey
  /\ PurgeExpired
  /\ UNCHANGED <<now, active, dead>>
  /\ \/ Eligible(k, m, limit) /\ Grant(c, k)
     \/ ~Eligible(k, m, limit) /\ UNCHANGED <<concurrency, holds>>

\* Mutants of ReleaseKey: no guard against an already wiped counter; the slot
\* of a cooling key is not given back.
ReleaseUnguarded(c) ==
  /\ holds[c] # NoKey
  /\ concurrency' = [concurrency EXCEPT ![holds[c]] = @ - 1]
  /\ holds' = [holds EXCEPT ![c] = NoKey]
  /\ UNCHANGED <<now, active, dead, cooling, modelCooling>>

ReleaseSkipsCooling(c) ==
  /\ holds[c] # NoKey
  /\ concurrency' = [concurrency EXCEPT
       ![holds[c]] = IF @ > 0 /\ cooling[holds[c]] < now THEN @ - 1 ELSE @]
  /\ holds' = [holds EXCEPT ![c] = NoKey]
  /\ UNCHANGED <<now, active, dead, cooling, modelCooling>>

ReleaseKey(c) ==
  /\ holds[c] # NoKey
  /\ concurrency' = [concurrency EXCEPT
       ![holds[c]] = IF @ > 0 THEN @ - 1 ELSE @]
  /\ holds' = [holds EXCEPT ![c] = NoKey]
  /\ UNCHANGED <<now, active, dead, cooling, modelCooling>>

MarkCooling(k, d) ==
  /\ cooling' = [cooling EXCEPT ![k] = now + d]
  /\ UNCHANGED <<now, active, dead, modelCooling, concurrency, holds>>

MarkModelCooling(k, m, d) ==
  /\ modelCooling' = [modelCooling EXCEPT ![<<k, m>>] = now + d]
  /\ UNCHANGED <<now, active, dead, cooling, concurrency, holds>>

MarkDead(k) ==
  /\ dead' = dead \cup {k}
  /\ concurrency' = [concurrency EXCEPT ![k] = 0]
  /\ UNCHANGED <<now, active, cooling, modelCooling, holds>>

AddKey(k) ==
  /\ active' = active \cup {k}
  /\ UNCHANGED <<now, dead, cooling, modelCooling, concurrency, holds>>

\* Reset forgets the pool, the dead marks and every counter; coolings stay.
Reset ==
  /\ active' = {}
  /\ dead' = {}
  /\ concurrency' = [k \in Keys |-> 0]
  /\ UNCHANGED <<now, cooling, modelCooling, holds>>

CleanupExpired ==
  /\ PurgeExpired
  /\ UNCHANGED <<now, active, dead, concurrency, holds>>

Tick ==
  /\ now < MaxTime
  /\ now' = now + 1
  /\ UNCHANGED <<active, dead, cooling, modelCooling, concurrency, holds>>

PoolNext ==
  \/ \E c \in Callers, m \in Models \cup {NoModel}, limit \in Limits :
       \/ \E k \in Keys : AcquireSome(c, k, m, limit)
       \/ AcquireNone(c, m, limit)
       \/ \E k \in Keys : TryAcquireSpecificKey(c, k, m, limit)
  \/ \E c \in Callers : ReleaseKey(c)
  \/ \E k \in Keys, d \in Durations : MarkCooling(k, d)
  \/ \E k \in Keys, m \in Models, d \in Durations : MarkModelCooling(k, m, d)
  \/ \E k \in Keys : MarkDead(k) \/ AddKey(k)
  \/ Reset
  \/ CleanupExpired
  \/ Tick

PoolSpec == PoolInit /\ [][PoolNext]_poolVars

-----------------------------------------------------------------------------
(* Properties.                                                             *)

\* Type invariant of the pool.
PoolTypeOK ==
  /\ now \in Nat
  /\ active \subseteq Keys
  /\ dead \subseteq Keys
  /\ cooling \in [Keys -> Nat]
  /\ modelCooling \in [Keys \X Models -> Nat]
  /\ concurrency \in [Keys -> Nat]
  /\ holds \in [Callers -> Keys \cup {NoKey}]

\* Every counted slot belongs to a request that is really in flight, whatever
\* the order of releases, Reset and MarkDead: a slot is never leaked, so a key
\* nobody uses is never refused for being full (redis.go 442-455, 489-508,
\* 518-531: the counters are wiped while requests still hold their keys).
NoPhantomSlot ==
  \A k \in Keys : concurrency[k] <= Cardinality(Holders(k))

\* A running cooling is never dropped early: only the clock passing the
\* deadline removes the entry, so it outlives Reset, MarkDead and the purges
\* of other acquisitions (the comments at redis.go 528-529 and 540).
KeepsRunningCoolings ==
  /\ \A k \in Keys : cooling[k] >= now => cooling'[k] # 0
  /\ \A km \in Keys \X Models : modelCooling[km] >= now => modelCooling'[km] # 0

CoolingOutlivesReset == [][KeepsRunningCoolings]_poolVars
=============================================================================
