------------------------- MODULE SchedulerFairness -------------------------
(***************************************************************************)
(* History of KeyScheduler's round robin: how often an eligible key has    *)
(* been passed over since it was last handed out by the round robin.       *)
(***************************************************************************)
EXTENDS KeyScheduler, FiniteSetsExt

\* There are finitely many keys, and a heaviest weight an administrator gives.
ASSUME FairnessAssumption ==
  /\ IsFiniteSet(Keys)
  /\ \E w \in BaseWeights : \A v \in BaseWeights : v <= w

VARIABLE passed   \* key -> rounds it was a candidate in and lost

fairVars == <<vars, passed>>

FairInit == Init /\ passed = [k \in Keys |-> 0]

AcquireAndCount(c, m, limit) ==
  LET E == Candidates(m, limit)
      losers == {slots[i].key : i \in E \ {Selected(E)}}
  IN
  /\ AcquireKey(c, m, limit)
  /\ passed' = IF E = {} THEN passed
               ELSE [k \in Keys |-> IF k = slots[Selected(E)].key THEN 0
                                    ELSE IF k \in losers THEN passed[k] + 1
                                    ELSE passed[k]]

\* Marking a key dead and reloading the pool start its account afresh; the
\* other operations leave the account alone.
FairNext ==
  \/ \E c \in Callers, m \in Models \cup {NoModel}, limit \in Limits :
       AcquireAndCount(c, m, limit)
  \/ \E k \in Keys : MarkDead(k) /\ passed' = [passed EXCEPT ![k] = 0]
  \/ Reset /\ passed' = [k \in Keys |-> 0]
  \/ /\ UNCHANGED passed
     /\ \/ \E c \in Callers : ReleaseKey(c)
        \/ \E c \in Callers, k \in Keys, m \in Models \cup {NoModel},
               limit \in Limits : TryAcquireSpecificKey(c, k, m, limit)
        \/ \E k \in Keys, w \in BaseWeights : AddKey(k, w)
        \/ \E k \in Keys, x \in Multipliers : SetHealthMultiplier(k, x)
        \/ \E k \in Keys, d \in Durations : MarkCooling(k, d)
        \/ \E k \in Keys, m \in Models, d \in Durations : MarkModelCooling(k, m, d)
        \/ CleanupExpired \/ Tick

FairSpec == FairInit /\ [][FairNext]_fairVars

-----------------------------------------------------------------------------
(* Properties.                                                             *)

Weights == {b * clampHealthMultiplier(x) : b \in BaseWeights,
                                           x \in Multipliers \cup {Neutral}}

CreditBound == (Cardinality(Keys) - 1) * Max(Weights)

\* The round robin's running credit never drifts, however the candidate set
\* changes between rounds (full, dead or reloaded keys) and however weights
\* are changed under it: what one key is owed or owes is bounded by one
\* heaviest weight per other key (redis.go 321-350, 497-503).
CreditBounded ==
  \A i \in DOMAIN slots : slots[i].currentWeight \in -CreditBound..CreditBound

\* No key that could serve is starved by heavier ones: the credit it gains in
\* each lost round, at least the lightest weight, makes it win before its
\* credit has crossed the whole band (redis.go 340-350 and the comment on
\* healthMultiplierMin at 135-138).
NoStarvation ==
  \A k \in Keys : passed[k] <= (2 * CreditBound) \div Min(Weights)
=============================================================================
