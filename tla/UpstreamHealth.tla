--------------------------- MODULE UpstreamHealth ---------------------------
(***************************************************************************)
(* How the gateway judges its upstream from the answers it gets: the       *)
(* circuit breaker of each model, and the health scorer, which cools keys  *)
(* (at once on repeated 5xx, and in its periodic evaluation on a low       *)
(* score) and turns scores into scheduling weights.  Requests record their *)
(* results in separate critical sections; an evaluation decides under the  *)
(* scorer's lock and acts on the scheduler after it.                       *)
(*                                                                         *)
(* Time is relative and counted in periods of the evaluation (30 s), so    *)
(* that liveness can be checked: a deadline is the number of periods left, *)
(* a failure in the breaker's window is its age.                           *)
(***************************************************************************)
EXTENDS Integers, Sequences, FiniteSets

CONSTANTS
  Keys, Models, Callers, NoKey,
  IllOutcomes,                  \* what calls come to while the upstream is ill
  Threshold, BreakerWindow, BreakerCooldown,       \* MODEL_BREAKER_*
  SampleWindow, MinSamples,     \* healthSampleWindowSize, healthMinSamples
  LowBase, LowMax,              \* healthBaseCooldown, healthMaxCooldown
  Step5xx, Max5xx,              \* health5xxBaseStep, health5xxMaxCooldown
  RateCooling, ModelRateCooling,\* coolings of a 429
  SameKeyRetries                \* calls repeated on the key of an attempt

\* A transport error is a "timeout" here: no status, and slow.  A "dud" is an
\* answer without content: a failure, retried, with no rate of its own.
Outcome == {"ok", "slow", "limited", "broken", "timeout", "dud", "refused", "rejected"}

ASSUME HealthAssumption ==
  /\ IllOutcomes \subseteq Outcome
  /\ {Threshold, BreakerWindow, BreakerCooldown, MinSamples, LowBase, Step5xx,
      RateCooling} \subseteq Nat \ {0}
  /\ SampleWindow >= MinSamples /\ SampleWindow \in Nat
  /\ LowMax >= LowBase /\ LowMax \in Nat
  /\ Max5xx >= Step5xx /\ Max5xx \in Nat
  /\ ModelRateCooling >= RateCooling /\ ModelRateCooling \in Nat
  /\ LowBase >= 2 /\ RateCooling >= 2   \* 60 s, against a period of 30 s
  /\ SameKeyRetries \in Nat

VARIABLES
  recent, openFor,           \* breaker: <<model, kind>> -> ages, periods left
  samples, streak5xx, streakLow,      \* scorer: one keyHealthState per key
  cooling, modelCooling, dead, multiplier,     \* scheduler, as far as needed
  plans,                     \* the evaluation under way
  req,                       \* caller -> its request
  ill                        \* the upstream may fail

breakerVars == <<recent, openFor>>
scorerVars == <<samples, streak5xx, streakLow>>
poolVars == <<cooling, modelCooling, dead, multiplier>>
vars == <<breakerVars, scorerVars, poolVars, plans, req, ill>>

-----------------------------------------------------------------------------
(* The score of a window, exact: Score(s) is the code's score times 90*n   *)
(* for n samples, which clears every fraction of the formula.              *)

Count(s, outcomes) == Cardinality({i \in DOMAIN s : s[i] \in outcomes})

Slow == {"slow", "timeout"}               \* 12 s; the others take 1 s
Seconds(s) == Len(s) + 11 * Count(s, Slow)

\* Full marks below the first rate, none above the second, linear between.
RTScore(s) ==
  LET n == Len(s) IN
  IF Seconds(s) < 2 * n THEN 1800 * n
  ELSE IF Seconds(s) > 10 * n THEN 0 ELSE 2250 * n - 225 * Seconds(s)

RateLimitScore(s) ==
  LET n == Len(s)  c == Count(s, {"limited"}) IN
  IF 20 * c < n THEN 1800 * n
  ELSE IF 10 * c > 3 * n THEN 0 ELSE 2160 * n - 7200 * c

ServerErrorScore(s) ==
  LET n == Len(s)  c == Count(s, {"broken", "timeout"}) IN
  IF 50 * c < n THEN 1800 * n
  ELSE IF 5 * c > n THEN 0 ELSE 2000 * n - 10000 * c

Score(s) ==
  3600 * Count(s, {"ok", "slow"})
    + RTScore(s) + RateLimitScore(s) + ServerErrorScore(s)

Scored(s) == Len(s) >= MinSamples
Low(s) == Scored(s) /\ Score(s) < 40 * 90 * Len(s)
Healthy(s) == Scored(s) /\ Score(s) >= 60 * 90 * Len(s)

\* Weights are in hundredths: 50 + 1.5 per point of score.
Neutral == 100
healthMultiplierForScore(s) == 50 + (Score(s) * 3) \div (180 * Len(s))

Min2(a, b) == IF a < b THEN a ELSE b

\* Doubling from the second low evaluation on, up to the cap.
lowCooldown[streak \in Nat] ==
  IF streak <= 1 THEN LowBase ELSE Min2(LowMax, 2 * lowCooldown[streak - 1])

escalation(streak) == Min2(Max5xx, (streak - 1) * Step5xx)

\* Bounds on the two counters: the coolings have reached their caps there.
Cap5xx == Max5xx + 1
CapLow == LowMax

-----------------------------------------------------------------------------
Kinds == {"429", "5xx"}

NoPlans == [due |-> FALSE, cool |-> [k \in Keys |-> 0], weigh |-> [k \in Keys |-> 0]]

NoRequest == [pc |-> "idle", model |-> "none", key |-> NoKey,
              tries |-> 0, escalate |-> 0]

Init ==
  /\ recent = [b \in Models \X Kinds |-> <<>>]
  /\ openFor = [b \in Models \X Kinds |-> 0]
  /\ samples = [k \in Keys |-> <<>>]
  /\ streak5xx = [k \in Keys |-> 0]
  /\ streakLow = [k \in Keys |-> 0]
  /\ cooling = [k \in Keys |-> 0]
  /\ modelCooling = [km \in Keys \X Models |-> 0]
  /\ dead = {}
  /\ multiplier = [k \in Keys |-> Neutral]
  /\ plans = NoPlans
  /\ req = [c \in Callers |-> NoRequest]
  /\ ill = TRUE

At(c, place) == req[c].pc = place
Goto(c, place) == req' = [req EXCEPT ![c].pc = place]

isOpen(m) == \E kind \in Kinds : openFor[<<m, kind>>] > 0

Selectable(k, m) ==
  k \notin dead /\ cooling[k] = 0 /\ modelCooling[<<k, m>>] = 0

-----------------------------------------------------------------------------
(* The breaker.                                                            *)

\* Failures in the window, of each kind apart; a trip empties the list.
recordFailure(m, kind) ==
  LET fresh(age) == age < BreakerWindow
      kept == Append(SelectSeq(recent[<<m, kind>>], fresh), 0)
  IN IF Len(kept) >= Threshold
     THEN /\ openFor' = [openFor EXCEPT ![<<m, kind>>] = BreakerCooldown]
          /\ recent' = [recent EXCEPT ![<<m, kind>>] = <<>>]
     ELSE recent' = [recent EXCEPT ![<<m, kind>>] = kept] /\ UNCHANGED openFor

-----------------------------------------------------------------------------
(* A request.  The breaker is asked once, before the queue for a key.      *)

Admit(c, m) ==
  /\ At(c, "idle") /\ ~isOpen(m)
  /\ req' = [req EXCEPT ![c].pc = "queue", ![c].model = m]
  /\ UNCHANGED <<breakerVars, scorerVars, poolVars, plans, ill>>

\* Mutant of Refuse: the gateway's own 429 counts as one of the upstream.
RefuseCounted(c, m) ==
  /\ At(c, "idle") /\ isOpen(m)
  /\ recordFailure(m, "429")
  /\ UNCHANGED <<scorerVars, poolVars, plans, req, ill>>

Refuse(c, m) == At(c, "idle") /\ isOpen(m) /\ UNCHANGED vars

Acquire(c, k) ==
  /\ At(c, "queue") /\ Selectable(k, req[c].model)
  /\ req' = [req EXCEPT ![c].pc = "call", ![c].key = k, ![c].tries = SameKeyRetries]
  /\ UNCHANGED <<breakerVars, scorerVars, poolVars, plans, ill>>

\* The queue times out, or there is no attempt left.
LeaveQueue(c) ==
  /\ At(c, "queue")
  /\ req' = [req EXCEPT ![c] = NoRequest]
  /\ UNCHANGED <<breakerVars, scorerVars, poolVars, plans, ill>>

\* Another key is tried without asking the breaker again.
NextAttempt(r) == [NoRequest EXCEPT !.pc = "queue", !.model = r.model]

Answers == IF ill THEN IllOutcomes ELSE {"ok"}

\* A 429 reaches the breaker before the scorer, ...
RateLimited(c) ==
  /\ At(c, "call") /\ "limited" \in Answers
  /\ recordFailure(req[c].model, "429")
  /\ Goto(c, "limited")
  /\ UNCHANGED <<scorerVars, poolVars, plans, ill>>

\* ... a 5xx after it.
ServerError(c) ==
  /\ At(c, "broken") /\ Goto(c, "retry")
  /\ recordFailure(req[c].model, "5xx")
  /\ UNCHANGED <<scorerVars, poolVars, plans, ill>>

\* Where a request goes once its result is scored.
Scoring(r, o) ==
  CASE o \in {"ok", "slow"} -> NoRequest
    [] o = "refused"  -> NextAttempt(r)
    [] o \in {"timeout", "dud"} -> [r EXCEPT !.pc = "retry"]
    [] o = "limited"  -> [r EXCEPT !.pc = "cool"]
    [] o = "rejected" -> [r EXCEPT !.pc = "kill"]
    [] o = "broken"   -> [r EXCEPT !.pc = "broken"]

Sampled(s, o) ==
  IF Len(s) < SampleWindow THEN Append(s, o) ELSE Append(Tail(s), o)

\* Under the scorer's lock: the sample, the run of 5xx, and the cooling they ask
\* for, which is carried out after the lock.
record(c, o) ==
  /\ \/ At(c, "call") /\ o \in Answers \ {"limited"}
     \/ At(c, "limited") /\ o = "limited"
  /\ LET k == req[c].key
         run == IF o = "broken" THEN Min2(Cap5xx, streak5xx[k] + 1) ELSE 0
     IN /\ samples' = [samples EXCEPT ![k] = Sampled(@, o)]
        /\ streak5xx' = [streak5xx EXCEPT ![k] = run]
        /\ req' = [req EXCEPT ![c] =
             IF run >= 2
             THEN [@ EXCEPT !.pc = "escalate", !.escalate = escalation(run)]
             ELSE Scoring(@, o)]
  /\ UNCHANGED <<breakerVars, streakLow, poolVars, plans, ill>>

\* The (key, model) pair is cooled, over what it had.
Escalate(c) ==
  /\ At(c, "escalate")
  /\ modelCooling' = [modelCooling EXCEPT ![<<req[c].key, req[c].model>>] = req[c].escalate]
  /\ req' = [req EXCEPT ![c] = Scoring([@ EXCEPT !.escalate = 0], "broken")]
  /\ UNCHANGED <<breakerVars, scorerVars, cooling, dead, multiplier, plans, ill>>

\* The same key is called again, whatever it has been marked with meanwhile,
\* unless the error is final, the budget is used up or the client is gone.
Retry(c) ==
  /\ At(c, "retry")
  /\ \/ req[c].tries > 0 /\ req' = [req EXCEPT ![c].pc = "call", ![c].tries = @ - 1]
     \/ req' = [req EXCEPT ![c] = NextAttempt(@)]
  /\ UNCHANGED <<breakerVars, scorerVars, poolVars, plans, ill>>

markCooling(c) ==
  /\ At(c, "cool") /\ Goto(c, "coolModel")
  /\ cooling' = [cooling EXCEPT ![req[c].key] = RateCooling]
  /\ UNCHANGED <<breakerVars, scorerVars, modelCooling, dead, multiplier, plans, ill>>

markModelCooling(c) ==
  /\ At(c, "coolModel")
  /\ req' = [req EXCEPT ![c] = NextAttempt(@)]
  /\ modelCooling' = [modelCooling EXCEPT ![<<req[c].key, req[c].model>>] = ModelRateCooling]
  /\ UNCHANGED <<breakerVars, scorerVars, cooling, dead, multiplier, plans, ill>>

MarkDead(c) ==
  /\ At(c, "kill") /\ Goto(c, "forget")
  /\ dead' = dead \cup {req[c].key}
  /\ UNCHANGED <<breakerVars, scorerVars, cooling, modelCooling, multiplier, plans, ill>>

reset(c) ==
  /\ At(c, "forget")
  /\ req' = [req EXCEPT ![c] = NextAttempt(@)]
  /\ samples' = [samples EXCEPT ![req[c].key] = <<>>]
  /\ streak5xx' = [streak5xx EXCEPT ![req[c].key] = 0]
  /\ streakLow' = [streakLow EXCEPT ![req[c].key] = 0]
  /\ UNCHANGED <<breakerVars, poolVars, plans, ill>>

-----------------------------------------------------------------------------
(* The evaluation: decided in one critical section, carried out after it,  *)
(* first every cooling, then every weight.                                 *)

Busy == plans.cool # NoPlans.cool \/ plans.weigh # NoPlans.weigh

\* Mutant of LowKeys: a key that is cooling already is left alone.
LowServingKeys == {k \in Keys : Low(samples[k]) /\ cooling[k] = 0}

LowKeys == {k \in Keys : Low(samples[k])}

evaluateScores ==
  /\ plans.due /\ ~Busy
  /\ LET streak(k) == IF k \in LowKeys THEN Min2(CapLow, streakLow[k] + 1)
                      ELSE IF Healthy(samples[k]) THEN 0 ELSE streakLow[k]
     IN /\ streakLow' = [k \in Keys |-> streak(k)]
        /\ plans' = [due |-> FALSE,
                     cool |-> [k \in Keys |->
                       IF k \in LowKeys THEN lowCooldown[streak(k)] ELSE 0],
                     weigh |-> [k \in Keys |-> IF Scored(samples[k])
                       THEN healthMultiplierForScore(samples[k]) ELSE 0]]
  /\ UNCHANGED <<breakerVars, samples, streak5xx, poolVars, req, ill>>

MarkCooling(k) ==
  /\ plans.cool[k] > 0
  /\ cooling' = [cooling EXCEPT ![k] = plans.cool[k]]
  /\ plans' = [plans EXCEPT !.cool[k] = 0]
  /\ UNCHANGED <<breakerVars, scorerVars, modelCooling, dead, multiplier, req, ill>>

SetHealthMultiplier(k) ==
  /\ plans.cool = NoPlans.cool /\ plans.weigh[k] > 0
  /\ multiplier' = [multiplier EXCEPT ![k] = plans.weigh[k]]
  /\ plans' = [plans EXCEPT !.weigh[k] = 0]
  /\ UNCHANGED <<breakerVars, scorerVars, cooling, modelCooling, dead, req, ill>>

-----------------------------------------------------------------------------
(* A reload of the pool: dead marks go (a key whose status in the store is *)
(* still Dead is left out, which is the same to the requests), weights     *)
(* start again, coolings stay.                                             *)
LoadActiveKeys ==
  /\ dead' \in SUBSET dead
  /\ multiplier' = [k \in Keys |-> Neutral]
  /\ UNCHANGED <<breakerVars, scorerVars, cooling, modelCooling, plans, req, ill>>

\* An age stops at the window: such a failure counts no more.
Aged(ages) == [i \in DOMAIN ages |-> Min2(BreakerWindow, ages[i] + 1)]

Passed(left) == [x \in DOMAIN left |-> IF left[x] > 0 THEN left[x] - 1 ELSE 0]

\* A period passes.  An evaluation is over long before the next one is due.
Tick ==
  /\ ~plans.due /\ ~Busy
  /\ plans' = [plans EXCEPT !.due = TRUE]
  /\ openFor' = Passed(openFor)
  /\ cooling' = Passed(cooling)
  /\ modelCooling' = Passed(modelCooling)
  /\ recent' = [b \in DOMAIN recent |-> Aged(recent[b])]
  /\ UNCHANGED <<scorerVars, dead, multiplier, req, ill>>

UpstreamChanges ==
  /\ ill' = ~ill
  /\ UNCHANGED <<breakerVars, scorerVars, poolVars, plans, req>>

RequestStep(c) ==
  \/ \E k \in Keys : Acquire(c, k)
  \/ RateLimited(c) \/ (\E o \in Outcome : record(c, o)) \/ Escalate(c)
  \/ ServerError(c) \/ Retry(c)
  \/ markCooling(c) \/ markModelCooling(c) \/ MarkDead(c) \/ reset(c)

EvaluationStep ==
  evaluateScores \/ \E k \in Keys : MarkCooling(k) \/ SetHealthMultiplier(k)

Next ==
  \/ \E c \in Callers :
       RequestStep(c) \/ LeaveQueue(c) \/ \E m \in Models : Admit(c, m) \/ Refuse(c, m)
  \/ EvaluationStep \/ LoadActiveKeys \/ Tick \/ UpstreamChanges

\* Calls, backoffs and queues have time limits, time passes, the evaluation runs.
Spec ==
  /\ Init /\ [][Next]_vars
  /\ \A c \in Callers : WF_vars(RequestStep(c)) /\ SF_vars(LeaveQueue(c))
  /\ WF_vars(EvaluationStep) /\ WF_vars(Tick)

-----------------------------------------------------------------------------
(* Properties.                                                             *)

\* Type invariant, with the bounds of every window and cooling.
HealthTypeOK ==
  /\ \A b \in Models \X Kinds :
       /\ Len(recent[b]) < Threshold
       /\ \A i \in DOMAIN recent[b] : recent[b][i] \in 0 .. BreakerWindow
       /\ openFor[b] \in 0 .. BreakerCooldown
  /\ \A k \in Keys :
       /\ Len(samples[k]) <= SampleWindow
       /\ \A i \in DOMAIN samples[k] : samples[k][i] \in Outcome
       /\ streak5xx[k] \in 0 .. Cap5xx /\ streakLow[k] \in 0 .. CapLow
       /\ cooling[k] \in 0 .. LowMax + RateCooling
       /\ \A m \in Models : modelCooling[<<k, m>>] \in 0 .. Max5xx + ModelRateCooling
       /\ multiplier[k] \in 50 .. 200
  /\ dead \subseteq Keys /\ ill \in BOOLEAN

\* When the upstream is well again for good, so is every model: its breaker
\* stays closed and no cooling of a key for this model is left, because breaker
\* and escalation live on fresh failures only (model_breaker.go 83-132;
\* health_scorer.go 93-113).  Coolings of whole keys are LowKeysRecover's.
OutageEnds ==
  <>[]~ill =>
    <>[](\A m \in Models : ~isOpen(m) /\ \A k \in Keys : modelCooling[<<k, m>>] = 0)

\* A key that the scorer has marked down as low is not handed out: it is cooled
\* before it gets the low weight, and every evaluation cools it again before the
\* last cooling, or a shorter one a 429 put in its place, is over
\* (health_scorer.go 169-188, and the comment at 196-197: the keys that take part
\* in the scheduling weigh 1.1 and more).
LowKeysAreOut ==
  ~Busy => \A k \in Keys, m \in Models :
    streakLow[k] > 0 /\ Selectable(k, m) => multiplier[k] >= Neutral

\* "When a key does well again its cooling expires by itself, and its score
\* rises with it" (health_scorer.go 17): no key that is not dead is kept
\* cooling for ever once the upstream is well.
LowKeysRecover ==
  <>[]~ill => \A k \in Keys : []<>(cooling[k] = 0)

\* While a model's breaker is open no key is tried for it (model_breaker.go 18).
NoCallWhileOpen ==
  [][\A c \in Callers : At(c, "call")' /\ ~At(c, "call") => ~isOpen(req[c].model)]_vars
=============================================================================
