---------------------------- MODULE KeyLifecycle ----------------------------
(***************************************************************************)
(* An upstream key between three places that are never updated together:   *)
(* its status in the store, its registration in the scheduler pool, and    *)
(* the requests that hold it.  Requests (callers), the prober, the         *)
(* refresher and administrators all reload the pool from a store snapshot  *)
(* they read earlier, each reload being one read, one Reset and one AddKey *)
(* per key, with no lock across them.                                      *)
(*                                                                         *)
(* The pool is KeyPool (which KeyScheduler implements).  The store is seen *)
(* through db.ReadStore / db.UpdateStore, each of which is atomic.  It     *)
(* lists records, each with an id of its own; the pool and the requests    *)
(* know a key by its plaintext, which several records may share and an     *)
(* administrator may replace.                                              *)
(***************************************************************************)
EXTENDS KeyPool, Functions, Sequences

CONSTANTS Background,    \* background loops running: "prober", "refresher"
          Admins,        \* administrators' HTTP requests
          MaxAttempts,   \* attempts of a request: crossKeyAttemptBudget + 5
          MaxOps,        \* bound: admin operations in a behaviour
          InitialStores  \* lists of records the store can hold at start-up

Status == {"Active", "Cooling", "Dead", "Disabled"}
APIKey == [key : Keys, status : Status, probeOnly : BOOLEAN]

ASSUME LifecycleAssumption ==
  /\ Limits # {} /\ MaxAttempts \in Nat /\ MaxOps \in Nat
  /\ \A list \in InitialStores : list \in Seq(APIKey)
  /\ Background \subseteq {"prober", "refresher"}

VARIABLES
  store,      \* id -> record, in the order of the ids
  nextId,     \* NextAPIID
  job,        \* thread -> the reload or restore it is running
  pc,         \* caller -> where its request stands
  recovered,  \* callers that tried a recovery in the current acquisition
  attempts,   \* caller -> attempts left
  adminOps    \* admin operations left

storeVars == <<store, nextId>>
callerVars == <<pc, recovered, attempts>>
vars == <<poolVars, storeVars, job, callerVars, adminOps>>

Threads == Callers \cup Background \cup Admins

\* A restore walks `todo` (ids to probe), then a load reads the store again
\* (step "read"), resets the pool and adds the keys of `todo` one by one.
Idle == [step |-> "idle", todo |-> {}]

Ids == DOMAIN store
Stored == {store[i].key : i \in Ids}

Recoverable == {i \in Ids : store[i].status \in {"Cooling", "Dead"}}

Serving(i) == store[i].status = "Active" /\ ~ store[i].probeOnly
Servable == {k \in Keys : \E i \in Ids : store[i].key = k /\ Serving(i)}

\* setAPIKeyStatusByEncryptedID and mutateAPIKey, for a record that is there.
SetStatus(i, s) == store' = [store EXCEPT ![i].status = s] /\ UNCHANGED nextId

\* The first record of the list with this plaintext.
First(k) ==
  CHOOSE i \in Ids : store[i].key = k /\ \A j \in Ids : store[j].key = k => i <= j

-----------------------------------------------------------------------------
\* serveBackend loads the pool before it listens.
Init ==
  /\ store \in InitialStores /\ nextId = Len(store) + 1
  /\ now = 1
  /\ active = Servable
  /\ dead = {}
  /\ cooling = [k \in Keys |-> 0]
  /\ modelCooling = [km \in Keys \X Models |-> 0]
  /\ concurrency = [k \in Keys |-> 0]
  /\ holds = [c \in Callers |-> NoKey]
  /\ job = [t \in Threads |-> Idle]
  /\ pc = [c \in Callers |-> "new"]
  /\ recovered = {}
  /\ attempts = [c \in Callers |-> MaxAttempts]
  /\ adminOps = MaxOps

\* A restore with nothing left to probe goes on to the load, and a load with
\* nothing left to add is over.
StartJob(t, step, todo) ==
  job' = [job EXCEPT ![t] =
    IF todo # {} \/ step \in {"read", "reset"} THEN [step |-> step, todo |-> todo]
    ELSE IF step = "probe" THEN [step |-> "read", todo |-> {}]
    ELSE Idle]

\* The job a thread starts from idle; a restore reads the store first.
BeginRestore(t) == job[t] = Idle /\ StartJob(t, "probe", Recoverable)
BeginLoad(t) == job[t] = Idle /\ StartJob(t, "read", {})

-----------------------------------------------------------------------------
(* The steps of RestoreRecoverableStatuses and LoadActiveKeys.             *)

\* One record of the snapshot: the upstream is asked, and its answer, if it is
\* conclusive, is written over whatever status the record has by now.
RestoreProbe(t) ==
  /\ job[t].step = "probe"
  /\ \E i \in job[t].todo :
       /\ StartJob(t, "probe", job[t].todo \ {i})
       /\ \/ UNCHANGED storeVars
          \/ i \in Ids /\ \E s \in {"Active", "Cooling", "Dead"} : SetStatus(i, s)
  /\ UNCHANGED <<poolVars, callerVars, adminOps>>

\* Mutant of LoadRead: a refresh of the keys the pool knows.
LoadReadKnown(t) ==
  /\ job[t].step = "read"
  /\ StartJob(t, "reset", Servable \cap active)
  /\ UNCHANGED <<poolVars, storeVars, callerVars, adminOps>>

LoadRead(t) ==
  /\ job[t].step = "read"
  /\ StartJob(t, "reset", Servable)
  /\ UNCHANGED <<poolVars, storeVars, callerVars, adminOps>>

\* Mutant of LoadReset: the keys are added to the pool as it is.
LoadWithoutReset(t) ==
  /\ job[t].step = "reset"
  /\ StartJob(t, "add", job[t].todo)
  /\ UNCHANGED <<poolVars, storeVars, callerVars, adminOps>>

LoadReset(t) ==
  /\ job[t].step = "reset"
  /\ Reset
  /\ StartJob(t, "add", job[t].todo)
  /\ UNCHANGED <<storeVars, callerVars, adminOps>>

LoadAdd(t, k) ==
  /\ job[t].step = "add" /\ k \in job[t].todo
  /\ AddKey(k)
  /\ StartJob(t, "add", job[t].todo \ {k})
  /\ UNCHANGED <<storeVars, callerVars, adminOps>>

JobStep(t) ==
  \/ \E k \in Keys : LoadAdd(t, k)
  \/ RestoreProbe(t) \/ LoadRead(t) \/ LoadReset(t)

-----------------------------------------------------------------------------
(* A request: acquireKeyWithQueue, the upstream call, the release.         *)

MoveOn(c, where) == pc' = [pc EXCEPT ![c] = where]

Receive(c) ==
  /\ pc[c] = "new" /\ MoveOn(c, "acquire")
  /\ UNCHANGED <<poolVars, storeVars, job, recovered, attempts, adminOps>>

AcquireHit(c, k) ==
  /\ pc[c] = "acquire" /\ job[c] = Idle
  /\ AcquireSome(c, k, NoModel, Limit)
  /\ MoveOn(c, "call")
  /\ recovered' = recovered \ {c}
  /\ UNCHANGED <<storeVars, job, attempts, adminOps>>

\* The first miss of an acquisition restores and reloads; later ones wait.
AcquireMiss(c) ==
  /\ pc[c] = "acquire" /\ job[c] = Idle
  /\ AcquireNone(c, NoModel, Limit)
  /\ \/ c \notin recovered /\ BeginRestore(c) /\ UNCHANGED pc
     \/ c \in recovered /\ MoveOn(c, "wait") /\ UNCHANGED job
  /\ recovered' = recovered \cup {c}
  /\ UNCHANGED <<storeVars, attempts, adminOps>>

Poll(c) ==
  /\ pc[c] = "wait" /\ MoveOn(c, "acquire")
  /\ UNCHANGED <<poolVars, storeVars, job, recovered, attempts, adminOps>>

\* Mutant of GiveUp: no queue timeout.
NeverGiveUp(c) ==
  /\ c \notin Callers
  /\ UNCHANGED vars

\* The 45 s queue timeout, or the client going away.
GiveUp(c) ==
  /\ pc[c] = "wait" /\ MoveOn(c, "done")
  /\ recovered' = recovered \ {c}
  /\ UNCHANGED <<poolVars, storeVars, job, attempts, adminOps>>

\* The upstream answers; a 429 cools the key, a 401/403 kills it.
Answered(c, outcome) ==
  /\ pc[c] = "call"
  /\ \/ outcome = "ok" /\ UNCHANGED poolVars /\ MoveOn(c, "finish")
     \/ /\ outcome = "rateLimited" /\ MoveOn(c, "saveCooling")
        /\ \E d \in Durations : MarkCooling(holds[c], d)
     \/ /\ outcome = "rejected" /\ MoveOn(c, "saveDead")
        /\ MarkDead(holds[c])
     \/ outcome = "transient" /\ UNCHANGED poolVars /\ MoveOn(c, "retry")
  /\ UNCHANGED <<storeVars, job, recovered, attempts, adminOps>>

\* Mutant of SaveStatus: the last attempt ends without giving the slot back.
SaveStatusSkipsRelease(c) ==
  /\ pc[c] \in {"saveCooling", "saveDead"}
  /\ MoveOn(c, IF attempts[c] = 1 THEN "done" ELSE "retry")
  /\ UNCHANGED <<poolVars, storeVars, job, recovered, attempts, adminOps>>

\* updateAPIKeyStatusByPlaintext: no look at the status it replaces, nor at
\* other records of the same key.
SaveStatus(c) ==
  /\ pc[c] \in {"saveCooling", "saveDead"}
  /\ IF holds[c] \in Stored
     THEN SetStatus(First(holds[c]), IF pc[c] = "saveDead" THEN "Dead" ELSE "Cooling")
     ELSE UNCHANGED storeVars
  /\ MoveOn(c, "retry")
  /\ UNCHANGED <<poolVars, job, recovered, attempts, adminOps>>

\* ReleaseKey, then the end of the request or the next attempt.
HandBack(c) ==
  /\ pc[c] \in {"finish", "retry"}
  /\ ReleaseKey(c)
  /\ attempts' = [attempts EXCEPT ![c] = @ - 1]
  /\ MoveOn(c, IF pc[c] = "finish" \/ attempts[c] = 1 THEN "done" ELSE "acquire")
  /\ UNCHANGED <<storeVars, job, recovered, adminOps>>

CallerStep(c) ==
  \/ \E k \in Keys : AcquireHit(c, k)
  \/ AcquireMiss(c) \/ Poll(c)
  \/ \E o \in {"ok", "rateLimited", "rejected", "transient"} : Answered(c, o)
  \/ SaveStatus(c) \/ HandBack(c)

-----------------------------------------------------------------------------
(* Administrators and background loops.                                    *)

AdminWrite(a) ==
  /\ adminOps > 0 /\ adminOps' = adminOps - 1
  /\ BeginLoad(a)
  /\ UNCHANGED <<poolVars, callerVars>>

\* UpdateAPIKeyStatus takes Active and Disabled only.
UpdateAPIKeyStatus(a) ==
  /\ \E i \in Ids, s \in {"Active", "Disabled"} : SetStatus(i, s)
  /\ AdminWrite(a)

\* New records at the end of the list.
AddRecords(records) ==
  /\ store' = [i \in Ids \cup DOMAIN records |->
                 IF i \in Ids THEN store[i] ELSE records[i]]
  /\ nextId' = nextId + Cardinality(DOMAIN records)

NewRecord(k, flag) == [key |-> k, status |-> "Active", probeOnly |-> flag]

\* Whether the store has a record of this key already is not asked.
AddAPIKey(a) ==
  /\ \E k \in Keys, flag \in BOOLEAN : AddRecords([i \in {nextId} |-> NewRecord(k, flag)])
  /\ AdminWrite(a)

\* The lines of an import whose keys the store does not have yet become
\* records in one update; without any the pool is not reloaded.
ImportAPIKeys(a) ==
  /\ \E added \in SUBSET (Keys \ Stored) \ {{}} :
       \E line \in Bijection(nextId .. nextId + Cardinality(added) - 1, added) :
         AddRecords([i \in DOMAIN line |-> NewRecord(line[i], FALSE)])
  /\ AdminWrite(a)

DeleteAPIKey(a) ==
  /\ \E i \in Ids : store' = [j \in Ids \ {i} |-> store[j]]
  /\ UNCHANGED nextId
  /\ AdminWrite(a)

\* UpdateAPIKey, as far as it decides who may be served: another plaintext,
\* the flag; the status stays.
UpdateAPIKey(a) ==
  /\ \E i \in Ids, k \in Keys, flag \in BOOLEAN :
       store' = [store EXCEPT ![i].key = k, ![i].probeOnly = flag]
  /\ UNCHANGED nextId
  /\ AdminWrite(a)

\* ProbeAPIKey writes the upstream's verdict whatever the status was.
ProbeAPIKey(a) ==
  /\ \E i \in Ids, s \in {"Active", "Cooling", "Dead"} : SetStatus(i, s)
  /\ AdminWrite(a)

\* POST /system/reload: a load, and nothing before it.
ReloadSystem(a) == UNCHANGED storeVars /\ AdminWrite(a)

AdminStep(a) ==
  \/ UpdateAPIKeyStatus(a) \/ AddAPIKey(a) \/ ImportAPIKeys(a) \/ DeleteAPIKey(a)
  \/ UpdateAPIKey(a) \/ ProbeAPIKey(a) \/ ReloadSystem(a)

\* The tickers of the two background loops; a tick missed while the previous
\* run is busy is dropped.
BackgroundTick(t) ==
  /\ \/ t = "prober" /\ BeginRestore(t)
     \/ t = "refresher" /\ BeginLoad(t)
  /\ UNCHANGED <<poolVars, storeVars, callerVars, adminOps>>

\* Time matters while a cooling runs.
TimePasses ==
  /\ \E k \in Keys : cooling[k] >= now
  /\ Tick
  /\ UNCHANGED <<storeVars, job, callerVars, adminOps>>

Next ==
  \/ \E t \in Threads : JobStep(t)
  \/ \E c \in Callers : Receive(c) \/ CallerStep(c) \/ GiveUp(c)
  \/ \E a \in Admins : AdminStep(a)
  \/ \E t \in Background : BackgroundTick(t)
  \/ TimePasses

\* Goroutines keep running, the tickers keep firing, upstream calls have a
\* timeout and a waiting request has its own.
Fairness ==
  /\ \A a \in Admins : WF_vars(JobStep(a))
  /\ \A c \in Callers : WF_vars(JobStep(c) \/ CallerStep(c)) /\ SF_vars(GiveUp(c))
  /\ \A t \in Background : WF_vars(JobStep(t) \/ BackgroundTick(t))

Spec == Init /\ [][Next]_vars
FairSpec == Spec /\ Fairness

-----------------------------------------------------------------------------
(* Properties.                                                             *)

\* Type invariant of the composition.
TypeOK ==
  /\ PoolTypeOK
  /\ Ids \subseteq 1 .. nextId - 1 /\ store \in [Ids -> APIKey]
  /\ job \in [Threads -> [step : {"idle", "probe"}, todo : SUBSET (1 .. nextId - 1)]
                  \cup [step : {"idle", "read", "reset", "add"}, todo : SUBSET Keys]]
  /\ pc \in [Callers -> {"new", "acquire", "wait", "call", "saveCooling",
                         "saveDead", "finish", "retry", "done"}]
  /\ recovered \subseteq Callers
  /\ attempts \in [Callers -> 0..MaxAttempts]
  /\ adminOps \in 0..MaxOps

\* When no request is in flight no slot is counted, whatever reloads, dead
\* marks and failed attempts happened in between (redis.go 442-455, 518-531;
\* proxy.go 453-454): the pool's capacity is never eaten up.
CapacityRestored ==
  (\A c \in Callers : pc[c] \in {"new", "done"})
     => \A k \in Keys : concurrency[k] = 0

\* A reload that works from an old snapshot can register a key that has been
\* disabled, deleted or rejected meanwhile, but only for a time: once status
\* changes stop, the pool ends up inside the set of servable keys for good
\* (loader.go 22-51: read, Reset and AddKey under no common lock).
StaleKeysGoAway == <>[](active \subseteq Servable)

\* ... and every servable key keeps being brought back.  Each key for itself:
\* a reload that starts while another one is adding its keys takes them away
\* again, so the pool need not be complete at any one time.
ServableKeysReturn == \A k \in Keys : []<>(k \in Servable => k \in active)

\* Every request that starts waiting for a key gets an answer: a slot, a
\* failure after its attempts, or the queue timeout (proxy.go 113-168).
RequestsFinish == \A c \in Callers : pc[c] = "acquire" ~> pc[c] = "done"

\* The administrator's "concurrency per key" bounds the requests in flight on
\* a key (frontend/src/app/admin/system/page.tsx 192; affinity_test.go 27).
ConcurrencyLimitHolds ==
  \A k \in Keys : Cardinality(Holders(k)) <= Limit

\* Automatic recovery restores Cooling and Dead keys (proxy.go 139); a key the
\* administrator disabled keeps that status until an administrator acts.
DisabledStaysDisabled ==
  [][adminOps' = adminOps =>
       \A i \in Ids : store[i].status = "Disabled" => store'[i].status = "Disabled"]_vars
=============================================================================
