----------------------------- MODULE HealthRuns -----------------------------
(***************************************************************************)
(* Health checks started from the administration page.  A check collects   *)
(* what the report store shows, asks the upstream for its models, probes   *)
(* one or all of them with a pool of workers, and puts its report into the *)
(* store, which is written to the database afterwards, outside its lock.   *)
(* Nothing keeps two checks from running at once, and a check takes up to  *)
(* ten minutes.  A refresh of the model catalogue writes the store too.    *)
(*                                                                         *)
(* Of a report only the result of the full sweep is kept, as the number of *)
(* the sweep (they are numbered as they finish, 0 is none); the active     *)
(* run, the catalogue and the history travel with it.                      *)
(***************************************************************************)
EXTENDS Integers, FiniteSets

CONSTANTS Runs,         \* requests to RunHealthReport, GetUpstreamModels
          NModels,       \* length of the upstream's model catalogue
          Workers,      \* size of the worker pool: 4
          StoredSweeps, \* numbers of sweeps the database may start with
          MaxCrashes    \* bound

ASSUME HealthRunsAssumption ==
  /\ NModels \in Nat \ {0} /\ Workers \in Nat \ {0}
  /\ StoredSweeps \subseteq Nat /\ MaxCrashes \in Nat

VARIABLES
  shown,     \* the sweep the store in memory shows
  disk,      \* the sweep of the stored health state
  pc,        \* run -> where its handler stands
  scope,     \* run -> "single", "all" or "catalog"
  sweep,     \* run -> the sweep its handler carries: loaded, seen, to be stored
  next,      \* run -> number of the next model to hand out
  worker,    \* run -> worker -> the model it probes, Waiting or Ended
  results,   \* run -> model -> "none", "probed" or "skipped"
  expired,   \* runs whose overall time is over
  sweeps,    \* how many sweeps have been finished
  overlap,   \* whether two runs have ever been under way at once
  crashes    \* crashes left

Waiting == 0
Ended == -1

crewVars == <<next, worker, results, expired>>
storeVars == <<shown, disk, sweeps>>
runsVars == <<storeVars, pc, scope, sweep, crewVars, overlap, crashes>>

Tasks(r) == IF scope[r] = "all" THEN 1..NModels ELSE {1}

Crew(r) == {w \in 1..Workers : w <= Cardinality(Tasks(r))}

UnderWay == {r \in Runs : pc[r] \notin {"new", "done", "dead"}}

RunAt(r, where) == pc' = [pc EXCEPT ![r] = where]
Carry(r, n) == sweep' = [sweep EXCEPT ![r] = n]

RunsInit ==
  /\ disk \in StoredSweeps /\ sweeps = disk
  /\ shown = 0
  /\ pc = [r \in Runs |-> "new"]
  /\ scope = [r \in Runs |-> "all"]
  /\ sweep = [r \in Runs |-> 0]
  /\ next = [r \in Runs |-> 1]
  /\ worker = [r \in Runs |-> [w \in 1..Workers |-> Ended]]
  /\ results = [r \in Runs |-> [i \in 1..NModels |-> "none"]]
  /\ expired = {}
  /\ overlap = FALSE
  /\ crashes = MaxCrashes

-----------------------------------------------------------------------------
(* Before the probes.                                                      *)

\* ensureHydrated fills what is empty in memory, from a copy of the database
\* taken before it has the lock.  (It does nothing when the read or its JSON is
\* bad.  Neither can be while requests are served: the store is loaded before,
\* ReadStore copies the cache from then on, and the state is the gateway's own.)
Hydrated(loaded) == IF shown = 0 THEN loaded ELSE shown

Receive(r, s) ==
  /\ pc[r] = "new" /\ RunAt(r, "hydrate")
  /\ scope' = [scope EXCEPT ![r] = s]
  /\ Carry(r, disk)
  /\ overlap' = (overlap \/ UnderWay # {})
  /\ UNCHANGED <<storeVars, crewVars, crashes>>

\* Mutant of Hydrate: only GetHealthReport hydrates.
HydrateNothing(r) ==
  /\ pc[r] = "hydrate" /\ RunAt(r, "build")
  /\ UNCHANGED <<storeVars, scope, sweep, crewVars, overlap, crashes>>

Hydrate(r) ==
  /\ pc[r] = "hydrate" /\ RunAt(r, "build")
  /\ shown' = Hydrated(sweep[r])
  /\ UNCHANGED <<disk, sweeps, scope, sweep, crewVars, overlap, crashes>>

\* The report is built, with copies of what is shown at this time.
BuildReport(r) ==
  /\ pc[r] = "build" /\ scope[r] # "catalog" /\ RunAt(r, "upstream")
  /\ Carry(r, shown)
  /\ UNCHANGED <<storeVars, scope, crewVars, overlap, crashes>>

\* No key to probe with, or /models does not answer: a report without a run.
Unreachable(r) ==
  /\ pc[r] = "upstream" /\ RunAt(r, "put")
  /\ UNCHANGED <<storeVars, scope, sweep, crewVars, overlap, crashes>>

\* The one model that was asked for is not in the catalogue: no report.
UnknownModel(r) ==
  /\ pc[r] = "upstream" /\ scope[r] = "single" /\ RunAt(r, "done")
  /\ UNCHANGED <<storeVars, scope, sweep, crewVars, overlap, crashes>>

\* GetUpstreamModels: the catalogue is stored when the upstream has answered.
SetModelCatalog(r) ==
  /\ pc[r] = "build" /\ scope[r] = "catalog"
  /\ \/ RunAt(r, "persist") /\ Carry(r, shown)
     \/ RunAt(r, "done") /\ UNCHANGED sweep
  /\ UNCHANGED <<storeVars, scope, crewVars, overlap, crashes>>

GetHealthReport ==
  /\ shown' = Hydrated(disk)
  /\ UNCHANGED <<disk, sweeps, pc, scope, sweep, crewVars, overlap, crashes>>

-----------------------------------------------------------------------------
(* runModelRunTasks.                                                       *)

SetWorker(r, w, to) == worker' = [worker EXCEPT ![r][w] = to]

StartWorkers(r) ==
  /\ pc[r] = "upstream" /\ RunAt(r, "dispatch")
  /\ worker' = [worker EXCEPT ![r] =
                  [w \in 1..Workers |-> IF w \in Crew(r) THEN Waiting ELSE Ended]]
  /\ UNCHANGED <<storeVars, scope, sweep, next, results, expired, overlap, crashes>>

\* The channel is unbuffered: a model is handed to a worker that waits.
Dispatch(r, w) ==
  /\ pc[r] = "dispatch" /\ next[r] \in Tasks(r)
  /\ worker[r][w] = Waiting /\ SetWorker(r, w, next[r])
  /\ next' = [next EXCEPT ![r] = @ + 1]
  /\ UNCHANGED <<storeVars, pc, scope, sweep, results, expired, overlap, crashes>>

\* All models are out or the time is over; select picks any when both a
\* worker and the deadline are ready.  The channel is closed.
StopDispatch(r) ==
  /\ pc[r] = "dispatch" /\ (next[r] \notin Tasks(r) \/ r \in expired)
  /\ RunAt(r, "wait")
  /\ UNCHANGED <<storeVars, scope, sweep, crewVars, overlap, crashes>>

\* The upstream answers, or the time of the probe or of the run is over.
Probe(r, w) ==
  /\ worker[r][w] \notin {Waiting, Ended}
  /\ results' = [results EXCEPT ![r][worker[r][w]] = "probed"]
  /\ SetWorker(r, w, Waiting)
  /\ UNCHANGED <<storeVars, pc, scope, sweep, next, expired, overlap, crashes>>

WorkerExit(r, w) ==
  /\ pc[r] = "wait" /\ worker[r][w] = Waiting
  /\ SetWorker(r, w, Ended)
  /\ UNCHANGED <<storeVars, pc, scope, sweep, next, results, expired, overlap, crashes>>

\* Mutant of Skipped: off by one.
SkippedAfterNext(r, i) == i > next[r] /\ results[r][i] = "none"

\* Models that were never handed out.
Skipped(r, i) == i >= next[r] /\ results[r][i] = "none"

Collect(r) ==
  /\ pc[r] = "wait" /\ \A w \in 1..Workers : worker[r][w] = Ended
  /\ results' = [results EXCEPT ![r] = [i \in 1..NModels |->
       IF i \in Tasks(r) /\ Skipped(r, i) THEN "skipped" ELSE results[r][i]]]
  /\ RunAt(r, "ran")
  /\ UNCHANGED <<storeVars, scope, sweep, next, worker, expired, overlap, crashes>>

Expire(r) ==
  /\ pc[r] \in {"dispatch", "wait"} /\ r \notin expired
  /\ expired' = expired \cup {r}
  /\ UNCHANGED <<storeVars, pc, scope, sweep, next, worker, results, overlap, crashes>>

-----------------------------------------------------------------------------
(* The report store.                                                       *)

\* A finished sweep replaces the copy in the report.
FinishRun(r) ==
  /\ pc[r] = "ran" /\ RunAt(r, "put")
  /\ IF scope[r] = "all"
     THEN sweeps' = sweeps + 1 /\ Carry(r, sweeps')
     ELSE UNCHANGED <<sweeps, sweep>>
  /\ UNCHANGED <<shown, disk, scope, crewVars, overlap, crashes>>

\* What the report carries is shown from now on, unless it carries nothing;
\* the snapshot for the database is taken under the same lock.
Put(r) ==
  /\ pc[r] = "put" /\ RunAt(r, "persist")
  /\ shown' = IF sweep[r] = 0 THEN shown ELSE sweep[r]
  /\ Carry(r, shown')
  /\ UNCHANGED <<disk, sweeps, scope, crewVars, overlap, crashes>>

\* Errors of UpdateStore are ignored.
Persist(r) ==
  /\ pc[r] = "persist" /\ RunAt(r, "done")
  /\ disk' \in {disk, sweep[r]}
  /\ UNCHANGED <<shown, sweeps, scope, sweep, crewVars, overlap, crashes>>

\* The process dies and starts again: the store in memory is empty.
Crash ==
  /\ crashes > 0 /\ crashes' = crashes - 1
  /\ shown' = 0
  /\ pc' = [r \in Runs |-> IF r \in UnderWay THEN "dead" ELSE pc[r]]
  /\ worker' = [r \in Runs |-> [w \in 1..Workers |-> Ended]]
  /\ UNCHANGED <<disk, sweeps, scope, sweep, next, results, expired, overlap>>

HandlerStep(r) ==
  \/ Hydrate(r) \/ BuildReport(r) \/ SetModelCatalog(r)
  \/ Unreachable(r) \/ UnknownModel(r) \/ StartWorkers(r)
  \/ StopDispatch(r) \/ Collect(r)
  \/ FinishRun(r) \/ Put(r) \/ Persist(r)

WorkerStep(r, w) == Dispatch(r, w) \/ Probe(r, w) \/ WorkerExit(r, w)

RunsNext ==
  \/ \E r \in Runs :
       \/ \E s \in {"single", "all", "catalog"} : Receive(r, s)
       \/ HandlerStep(r) \/ Expire(r)
       \/ \E w \in 1..Workers : WorkerStep(r, w)
  \/ GetHealthReport
  \/ Crash

\* Goroutines run on and every upstream call has a deadline.
Fairness ==
  \A r \in Runs :
    /\ WF_runsVars(HandlerStep(r))
    /\ \A w \in 1..Workers : WF_runsVars(WorkerStep(r, w))

RunsSpec == RunsInit /\ [][RunsNext]_runsVars /\ Fairness

-----------------------------------------------------------------------------
(* Properties.                                                             *)

Places == {"new", "hydrate", "build", "upstream", "dispatch", "wait", "ran", "put",
           "persist", "done", "dead"}

\* Type invariant of runs, workers and the report store.
TypeOK ==
  /\ shown \in Nat /\ disk \in Nat /\ sweeps \in Nat
  /\ pc \in [Runs -> Places]
  /\ scope \in [Runs -> {"single", "all", "catalog"}]
  /\ sweep \in [Runs -> Nat]
  /\ next \in [Runs -> 1 .. NModels + 1]
  /\ worker \in [Runs -> [1 .. Workers -> {Ended, Waiting} \cup 1 .. NModels]]
  /\ results \in [Runs -> [1 .. NModels -> {"none", "probed", "skipped"}]]
  /\ expired \subseteq Runs /\ overlap \in BOOLEAN /\ crashes \in 0 .. MaxCrashes

\* A pool that has been started ends, with an entry for every model: probed
\* by one of the workers, or skipped because the time was over, whatever the
\* deadline does between two dispatches (health.go 676-742).
RunsReportEveryModel ==
  \A r \in Runs :
    pc[r] = "dispatch" ~>
      \/ pc[r] = "ran" /\ \A i \in Tasks(r) : results[r][i] # "none"
      \/ pc[r] = "dead"

\* As long as checks follow one another the database never goes back to an
\* older sweep, or to none, over restarts, checks of single models, checks of
\* an unreachable upstream and failed writes (health.go 1196-1229, 1298-1323).
StoredSweepIsKept == [][~overlap' => disk' >= disk]_runsVars

\* The page says it shows the result of the latest check of all models
\* (frontend/src/app/admin/health/page.tsx 445).
FullSweepIsLatest == [][shown' >= shown \/ crashes' # crashes]_runsVars
=============================================================================
