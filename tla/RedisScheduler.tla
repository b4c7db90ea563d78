--------------------------- MODULE RedisScheduler ---------------------------
(***************************************************************************)
(* The key scheduler when REDIS_URL is set.  Acquisitions and releases are *)
(* Lua scripts, each one atomic step; everything else is a sequence of     *)
(* commands with nothing across them, interleaved with the scripts and     *)
(* with each other.  The pool outlives the process: what a crash or a lost *)
(* reply leaves counted is given back by the next reload, or by the        *)
(* expiry of the counter `lock_ttl` seconds after its last acquisition.    *)
(*                                                                         *)
(* One gateway process uses the Redis.  Which of the eligible keys the     *)
(* smooth round robin picks is the subject of KeyScheduler; here any may   *)
(* be picked, and of a key's score only the base weight is kept: the       *)
(* health multiplier decides nothing but the order.                        *)
(***************************************************************************)
EXTENDS Integers, FiniteSets

CONSTANTS Keys, Models, NoModel, Callers, NoSlot,
          Limit,      \* "maxConcurrency"
          LockTtl,    \* seconds a slot counter lives after an acquisition
          Bases,      \* weights an administrator gives to keys
          Gone,       \* no score; in the store: deleted, disabled, probe only
          MaxOps, MaxFaults   \* bounds: admin changes, faults and crashes

ASSUME RedisAssumption ==
  /\ IsFiniteSet(Callers) /\ NoSlot \notin Keys
  /\ Limit \in Nat \ {0} /\ LockTtl \in Nat \ {0}
  /\ MaxOps \in Nat /\ MaxFaults \in Nat
  /\ Gone \notin Bases

VARIABLES
  score,       \* nvidia:keys:active: key -> base weight in its score, or Gone
  dead,        \* nvidia:keys:dead
  base,        \* key_base_weight: key -> weight, or Gone
  cooling,     \* key_cooling and model_cooling: entries still running
  slots,       \* concurrency:<key>
  lease,       \* seconds left to each counter
  store,       \* key -> configured weight when it may serve, or Gone
  holds,       \* caller -> the key its request runs on
  job,         \* thread -> the commands it has still to send
  serving,     \* the process listens: its first load is over
  ops, faults  \* how much is left of each bound

keyVars == <<score, dead, base, cooling, slots, lease>>
processVars == <<store, holds, serving>>
bounds == <<ops, faults>>
schedulerVars == <<keyVars, processVars, job, bounds>>

\* The refresher (also the load at start), an administrator, the scorer.
Threads == {"refresher", "admin", "scorer"}

Idle == [step |-> "idle"]
Goto(t, j) == job' = [job EXCEPT ![t] = j]
Busy(t, step) == job[t].step = step

InPool == {k \in Keys : score[k] # Gone}

Holders(k) == {c \in Callers : holds[c] = k}

RedisInit ==
  /\ store \in [Keys -> Bases \cup {Gone}]
  /\ score = store /\ base = store
  /\ dead = {} /\ cooling = {}
  /\ slots = [k \in Keys |-> 0]
  /\ lease = [k \in Keys |-> 0]
  /\ holds = [c \in Callers |-> NoSlot]
  /\ job = [t \in Threads |-> Idle]
  /\ serving = TRUE
  /\ ops = MaxOps /\ faults = MaxFaults

-----------------------------------------------------------------------------
(* The scripts.                                                            *)

Cooled(k, m) == {k, <<k, m>>} \cap cooling # {}

Eligible(m) ==
  {k \in InPool \ dead : ~Cooled(k, m) /\ slots[k] < Limit}

\* INCR and EXPIRE at the end of both acquiring scripts.
TakeSlot(k) ==
  /\ slots' = [slots EXCEPT ![k] = @ + 1]
  /\ lease' = [lease EXCEPT ![k] = LockTtl]
  /\ UNCHANGED <<score, dead, base, cooling>>

\* The reply names the key, or it is lost on its way: then the slot is
\* counted and nobody holds it.
Acquire(c, k) ==
  /\ TakeSlot(k)
  /\ \/ holds' = [holds EXCEPT ![c] = k] /\ UNCHANGED faults
     \/ faults > 0 /\ faults' = faults - 1 /\ UNCHANGED holds
  /\ UNCHANGED <<store, serving, job, ops>>

LuaAcquireKey(c, m) ==
  /\ serving /\ holds[c] = NoSlot
  /\ \E k \in Eligible(m) : Acquire(c, k)

\* The key a conversation is bound to.
LuaTryAcquireSpecificKey(c, k, m) ==
  /\ serving /\ holds[c] = NoSlot
  /\ k \in Eligible(m)
  /\ Acquire(c, k)

\* A counter that has expired, or that a reload has removed, reads as zero.
LuaReleaseKey(k) ==
  /\ slots' = [slots EXCEPT ![k] = IF @ > 0 THEN @ - 1 ELSE @]
  /\ UNCHANGED lease

\* Its errors are ignored: a release that did not arrive is not repeated.
ReleaseKey(c) ==
  /\ holds[c] # NoSlot
  /\ holds' = [holds EXCEPT ![c] = NoSlot]
  /\ \/ LuaReleaseKey(holds[c]) /\ UNCHANGED faults
     \/ faults > 0 /\ faults' = faults - 1 /\ UNCHANGED <<slots, lease>>
  /\ UNCHANGED <<score, dead, base, cooling, store, serving, job, ops>>

-----------------------------------------------------------------------------
(* Single commands of requests: a 401/403 and a 429.                       *)

\* The slot stays counted: the request gives it back.
MarkDead(c) ==
  /\ holds[c] # NoSlot
  /\ dead' = dead \cup {holds[c]}
  /\ UNCHANGED <<score, base, cooling, slots, lease, processVars, job, bounds>>

\* The key is cooled for all models, or for one: two hashes.
Cool(c, e) ==
  /\ cooling' = cooling \cup {e}
  /\ UNCHANGED <<score, dead, base, slots, lease, processVars, job, bounds>>

MarkCooling(c) == holds[c] # NoSlot /\ Cool(c, holds[c])

MarkModelCooling(c, m) == holds[c] # NoSlot /\ Cool(c, <<holds[c], m>>)

-----------------------------------------------------------------------------
(* LoadActiveKeys: the store is read, the pool reset, the keys are added.  *)

Load == [step |-> "read"]

LoadRead(t) ==
  /\ Busy(t, "read")
  /\ Goto(t, [step |-> "range", snapshot |-> store])
  /\ UNCHANGED <<keyVars, processVars, bounds>>

\* ZRANGE: the keys whose counters will be deleted.
ResetRange(t) ==
  /\ Busy(t, "range")
  /\ Goto(t, [step |-> "del", snapshot |-> job[t].snapshot, listed |-> InPool])
  /\ UNCHANGED <<keyVars, processVars, bounds>>

AddAll(snapshot) ==
  [step |-> "add", snapshot |-> snapshot,
   todo |-> {k \in Keys : snapshot[k] # Gone}]

\* Mutants of ResetDel: the counters stay; the active set stays.
ResetDelKeepsCounters(t) ==
  /\ Busy(t, "del")
  /\ score' = [k \in Keys |-> Gone]
  /\ base' = [k \in Keys |-> Gone]
  /\ dead' = {}
  /\ Goto(t, AddAll(job[t].snapshot))
  /\ UNCHANGED <<cooling, slots, lease, processVars, bounds>>

ResetDelKeepsKeys(t) ==
  /\ Busy(t, "del")
  /\ slots' = [k \in Keys |-> IF k \in job[t].listed THEN 0 ELSE slots[k]]
  /\ lease' = [k \in Keys |-> IF k \in job[t].listed THEN 0 ELSE lease[k]]
  /\ dead' = {}
  /\ Goto(t, AddAll(job[t].snapshot))
  /\ UNCHANGED <<score, base, cooling, processVars, bounds>>

\* One DEL of the sets and of the listed counters; coolings are kept.
ResetDel(t) ==
  /\ Busy(t, "del")
  /\ score' = [k \in Keys |-> Gone]
  /\ base' = [k \in Keys |-> Gone]
  /\ dead' = {}
  /\ slots' = [k \in Keys |-> IF k \in job[t].listed THEN 0 ELSE slots[k]]
  /\ lease' = [k \in Keys |-> IF k \in job[t].listed THEN 0 ELSE lease[k]]
  /\ Goto(t, AddAll(job[t].snapshot))
  /\ UNCHANGED <<cooling, processVars, bounds>>

\* AddKey reads the multiplier, then writes the base weight ...
AddKeyBase(t, k) ==
  /\ Busy(t, "add") /\ k \in job[t].todo
  /\ base' = [base EXCEPT ![k] = job[t].snapshot[k]]
  /\ Goto(t, [step |-> "zadd", snapshot |-> job[t].snapshot,
              todo |-> job[t].todo \ {k}, key |-> k])
  /\ UNCHANGED <<score, dead, cooling, slots, lease, processVars, bounds>>

\* ... and then the score.
AddKeyScore(t) ==
  /\ Busy(t, "zadd")
  /\ score' = [score EXCEPT ![job[t].key] = job[t].snapshot[job[t].key]]
  /\ Goto(t, [step |-> "add", snapshot |-> job[t].snapshot, todo |-> job[t].todo])
  /\ UNCHANGED <<dead, base, cooling, slots, lease, processVars, bounds>>

\* The end of a load, whether it succeeded or not, lets a new process listen.
EndJob(t) ==
  /\ Goto(t, Idle)
  /\ serving' = (serving \/ t = "refresher")

LoadDone(t) ==
  /\ Busy(t, "add") /\ job[t].todo = {}
  /\ EndJob(t)
  /\ UNCHANGED <<keyVars, store, holds, bounds>>

LoadStep(t) ==
  \/ LoadRead(t) \/ ResetRange(t) \/ ResetDel(t)
  \/ \E k \in Keys : AddKeyBase(t, k)
  \/ AddKeyScore(t) \/ LoadDone(t)

RefresherTick ==
  /\ serving /\ Busy("refresher", "idle")
  /\ Goto("refresher", Load)
  /\ UNCHANGED <<keyVars, processVars, bounds>>

\* Any of the administrator's changes: written to the store, then a load.
AdminChange(k, w) ==
  /\ serving /\ ops > 0 /\ ops' = ops - 1
  /\ Busy("admin", "idle") /\ store[k] # w
  /\ store' = [store EXCEPT ![k] = w]
  /\ Goto("admin", Load)
  /\ UNCHANGED <<keyVars, holds, serving, faults>>

-----------------------------------------------------------------------------
(* SetHealthMultiplier of one key, every 30 s.                             *)

\* ZSCORE: only keys of the pool are scored ...
ScoreLookup(k) ==
  /\ serving /\ Busy("scorer", "idle")
  /\ k \in InPool
  /\ Goto("scorer", [step |-> "hget", key |-> k])
  /\ UNCHANGED <<keyVars, processVars, bounds>>

\* ... that have a base weight.
ScoreBase ==
  /\ Busy("scorer", "hget")
  /\ LET k == job["scorer"].key
     IN Goto("scorer", IF base[k] = Gone THEN Idle
                       ELSE [step |-> "write", key |-> k, base |-> base[k]])
  /\ UNCHANGED <<keyVars, processVars, bounds>>

\* ZADD puts the key into the active set, whether it is still there or not.
ScoreWrite ==
  /\ Busy("scorer", "write")
  /\ score' = [score EXCEPT ![job["scorer"].key] = job["scorer"].base]
  /\ Goto("scorer", Idle)
  /\ UNCHANGED <<dead, base, cooling, slots, lease, processVars, bounds>>

SetHealthMultiplier == ScoreBase \/ ScoreWrite

-----------------------------------------------------------------------------
(* Faults, expiry and time.                                                *)

\* A command of a job fails.  Reset takes an unavailable Redis for success
\* and the keys are added to the pool as it is; other errors end the job.
CommandFails(t) ==
  /\ faults > 0 /\ faults' = faults - 1
  /\ job[t].step \in {"range", "del", "add", "zadd", "hget", "write"}
  /\ \/ /\ Busy(t, "range") \/ Busy(t, "del")
        /\ Goto(t, AddAll(job[t].snapshot))
        /\ UNCHANGED serving
     \/ EndJob(t)
  /\ UNCHANGED <<keyVars, store, holds, ops>>

\* The process ends and starts again; its first load precedes its listening.
Crash ==
  /\ faults > 0 /\ faults' = faults - 1
  /\ holds' = [c \in Callers |-> NoSlot]
  /\ job' = [t \in Threads |-> IF t = "refresher" THEN Load ELSE Idle]
  /\ serving' = FALSE
  /\ UNCHANGED <<keyVars, store, ops>>

CoolingExpires(e) ==
  /\ e \in cooling
  /\ cooling' = cooling \ {e}
  /\ UNCHANGED <<score, dead, base, slots, lease, processVars, job, bounds>>

\* A second passes; Redis deletes the counters whose time is over.
LeaseTick ==
  /\ \E k \in Keys : lease[k] > 0
  /\ lease' = [k \in Keys |-> IF lease[k] > 0 THEN lease[k] - 1 ELSE 0]
  /\ slots' = [k \in Keys |-> IF lease'[k] > 0 THEN slots[k] ELSE 0]
  /\ UNCHANGED <<score, dead, base, cooling, processVars, job, bounds>>

RedisNext ==
  \/ \E c \in Callers :
       \/ \E m \in Models \cup {NoModel} :
            \/ LuaAcquireKey(c, m)
            \/ \E k \in Keys : LuaTryAcquireSpecificKey(c, k, m)
       \/ ReleaseKey(c) \/ MarkDead(c)
       \/ MarkCooling(c) \/ \E m \in Models : MarkModelCooling(c, m)
  \/ \E t \in {"refresher", "admin"} : LoadStep(t)
  \/ RefresherTick
  \/ \E k \in Keys, w \in Bases \cup {Gone} : AdminChange(k, w)
  \/ \E k \in Keys : ScoreLookup(k)
  \/ SetHealthMultiplier
  \/ \E t \in Threads : CommandFails(t)
  \/ Crash
  \/ \E e \in cooling : CoolingExpires(e)
  \/ LeaseTick

\* Threads run on, the refresher's ticker fires and time passes; requests may
\* take as long as they like.
Fairness ==
  /\ \A t \in {"refresher", "admin"} : WF_schedulerVars(LoadStep(t))
  /\ WF_schedulerVars(SetHealthMultiplier)
  /\ WF_schedulerVars(RefresherTick)
  /\ WF_schedulerVars(LeaseTick)

RedisSpec == RedisInit /\ [][RedisNext]_schedulerVars /\ Fairness

-----------------------------------------------------------------------------
(* Properties.                                                             *)

Commands == {"idle", "read", "range", "del", "add", "zadd", "hget", "write"}

\* Type invariant of the keys in Redis and of the process.
RedisTypeOK ==
  /\ {score, base, store} \subseteq [Keys -> Bases \cup {Gone}]
  /\ dead \subseteq Keys /\ cooling \subseteq Keys \cup (Keys \X Models)
  /\ slots \in [Keys -> Nat] /\ lease \in [Keys -> 0 .. LockTtl]
  /\ holds \in [Callers -> Keys \cup {NoSlot}]
  /\ DOMAIN job = Threads /\ \A t \in Threads : job[t].step \in Commands
  /\ serving \in BOOLEAN
  /\ ops \in 0 .. MaxOps /\ faults \in 0 .. MaxFaults

\* A slot is counted for nobody only after a reply was lost or the process
\* died: reloads, dead marks and the expiry of a counter under a long request
\* never make the later releases count wrong (redis.go 68-82, 518-556).
CountedSlotsAreHeld ==
  faults = MaxFaults =>
    \A k \in Keys : slots[k] \in 0..Cardinality(Holders(k))

\* Whatever is lost, no counter passes the limit, and each has a deadline: what a
\* reply or a process left behind can never become permanent (redis.go 45-71, 75-82).
CountersAreBounded ==
  \A k \in Keys :
    /\ slots[k] \in 0 .. Limit
    /\ slots[k] > 0 => lease[k] \in 1 .. LockTtl

\* ... and what was leaked then comes back, however much traffic renews the
\* key's counter: by the reloads for keys in the pool, by the expiry for keys
\* that are not (redis.go 70-71, 546-556).
LeakedSlotsComeBack ==
  \A k \in Keys :
    slots[k] > Cardinality(Holders(k)) ~> slots[k] <= Cardinality(Holders(k))

\* A score in flight can bring back a key that has just been deleted, in spite
\* of the lookup meant to prevent it, and a reload that meets an unavailable
\* Redis keeps what is there (redis.go 252-273, 534-555); but once the
\* administrator has finished and the faults are over, the pool holds
\* configured keys at configured weights only.
StaleScoresGoAway == <>[](\A k \in InPool : score[k] = store[k])
=============================================================================
