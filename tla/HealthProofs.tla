----------------------------- MODULE HealthProofs -----------------------------
(***************************************************************************)
(* A key that the scorer has marked as low is not handed out, for any      *)
(* number of keys, models and requests, any window and any coolings: not   *)
(* by an evaluation under way, whose decisions are carried out one by one, *)
(* nor after a cooling that a rate limit has put in the place of another.  *)
(*                                                                         *)
(* Health checks from the administration page, for any number of them,     *)
(* models and workers: none forgets a model, and checks that follow one    *)
(* another never put an older sweep into the database.                     *)
(***************************************************************************)
EXTENDS UpstreamHealth, HealthRuns, FiniteSetTheorems, SequenceTheorems,
        WellFoundedInduction, TLAPS

\* The part of the type invariant that the marks rest on.
MarksType ==
  /\ samples \in [Keys -> Seq(Outcome)]
  /\ streakLow \in [Keys -> Nat]
  /\ cooling \in [Keys -> Nat]
  /\ multiplier \in [Keys -> Int]
  /\ plans \in [due : BOOLEAN, cool : [Keys -> Nat], weigh : [Keys -> Int]]

\* A cooling that an evaluation has planned lasts beyond the next one.
PlansLast == \A k \in Keys : plans.cool[k] > 0 => plans.cool[k] >= 2

\* The key is cooled for longer than the time to the next evaluation.
Out(k) == cooling[k] >= IF plans.due THEN 1 ELSE 2

\* The key weighs enough, and the evaluation under way does not change that.
Fit(k) ==
  \/ plans.weigh[k] >= Neutral
  \/ plans.weigh[k] = 0 /\ multiplier[k] >= Neutral

\* A key that is marked has been scored, and is about to be cooled, is out, or
\* has recovered enough to serve although its mark stays.
MarkedAreOut ==
  \A k \in Keys : streakLow[k] > 0 =>
    Scored(samples[k]) /\ (plans.cool[k] > 0 \/ Out(k) \/ Fit(k))

MarksInv == MarksType /\ PlansLast /\ MarkedAreOut

-----------------------------------------------------------------------------
(* Scores.                                                                 *)

LEMMA CountType ==
  ASSUME NEW s \in Seq(Outcome), NEW O
  PROVE  Count(s, O) \in Nat
<1>1. Len(s) \in Nat /\ DOMAIN s = 1 .. Len(s)
  BY LenProperties
<1>2. IsFiniteSet(1 .. Len(s))
  BY <1>1, FS_Interval
<1>3. IsFiniteSet({i \in DOMAIN s : s[i] \in O})
  <2>1. {i \in DOMAIN s : s[i] \in O} \in SUBSET (1 .. Len(s))
    BY <1>1
  <2> QED
    BY <1>2, <2>1, FS_Subset
<1> QED
  BY <1>3, FS_CardinalityType DEF Count

LEMMA ScoreType ==
  ASSUME NEW s \in Seq(Outcome)
  PROVE  Score(s) \in Int /\ Len(s) \in Nat
<1>1. Len(s) \in Nat
  BY LenProperties
<1>2. /\ Count(s, Slow) \in Nat /\ Count(s, {"ok", "slow"}) \in Nat
      /\ Count(s, {"limited"}) \in Nat /\ Count(s, {"broken", "timeout"}) \in Nat
  BY CountType
<1>3. Seconds(s) \in Nat
  BY <1>1, <1>2 DEF Seconds
<1>4. RTScore(s) \in Int /\ RateLimitScore(s) \in Int /\ ServerErrorScore(s) \in Int
  <2>1. RTScore(s) \in Int
    BY <1>1, <1>3 DEF RTScore
  <2>2. RateLimitScore(s) \in Int
    BY <1>1, <1>2 DEF RateLimitScore
  <2>3. ServerErrorScore(s) \in Int
    BY <1>1, <1>2 DEF ServerErrorScore
  <2> QED
    BY <2>1, <2>2, <2>3
<1> QED
  BY <1>1, <1>2, <1>4 DEF Score

\* A window that has been scored, and is not low, gives a weight above the
\* neutral one.
LEMMA NotLowIsFit ==
  ASSUME NEW s \in Seq(Outcome), Scored(s)
  PROVE  /\ healthMultiplierForScore(s) \in Int
         /\ ~Low(s) => healthMultiplierForScore(s) >= Neutral
<1> DEFINE x == Score(s) * 3
           d == 180 * Len(s)
<1>1. Score(s) \in Int /\ Len(s) \in Nat /\ Len(s) >= 1
  <2>1. MinSamples \in Nat \ {0}
    BY HealthAssumption
  <2> QED
    BY <2>1, ScoreType DEF Scored
<1>2. x \in Int /\ d \in Nat \ {0}
  BY <1>1
<1>3. healthMultiplierForScore(s) = 50 + x \div d
  BY DEF healthMultiplierForScore
<1>4. ~Low(s) => x >= 60 * d
  BY <1>1 DEF Low
<1> HIDE DEF x, d
<1>5. x \div d \in Int
  BY <1>2
<1>6. x >= 60 * d => x \div d >= 60
  BY <1>2
<1> QED
  BY <1>3, <1>4, <1>5, <1>6 DEF Neutral

-----------------------------------------------------------------------------
(* Coolings of low keys.                                                   *)

\* Every non-empty set of natural numbers has a least element.
LEMMA LeastElement ==
  ASSUME NEW T, T \subseteq Nat, T # {}
  PROVE  \E x \in T : \A y \in T : x <= y
<1> DEFINE U == {0 .. x : x \in T}
<1>1. U \subseteq FiniteSubsetsOf(Nat) /\ U # {}
  <2>1. ASSUME NEW x \in T PROVE 0 .. x \in FiniteSubsetsOf(Nat)
    <3>1. x \in Int /\ 0 \in Int /\ 0 .. x \subseteq Nat
      OBVIOUS
    <3>2. IsFiniteSet(0 .. x)
      BY <3>1, FS_Interval
    <3> QED
      BY <3>1, <3>2 DEF FiniteSubsetsOf
  <2> QED
    BY <2>1
<1>2. PICK u \in U : \A v \in U : <<v, u>> \notin StrictSubsetOrdering(Nat)
  <2>1. IsWellFoundedOn(StrictSubsetOrdering(Nat), FiniteSubsetsOf(Nat))
    BY FS_StrictSubsetOrderingWellFounded
  <2> HIDE DEF U
  <2> QED
    BY <1>1, <2>1, WFMin
<1>3. PICK x \in T : u = 0 .. x
  BY <1>2
<1>4. ASSUME NEW y \in T, y < x PROVE FALSE
  <2>1. 0 .. y \subseteq u /\ 0 .. y # u /\ u \subseteq Nat
    <3>1. x \in u /\ x \notin 0 .. y
      BY <1>3, <1>4
    <3> QED
      BY <1>3, <1>4, <3>1
  <2> QED
    BY <1>2, <2>1 DEF StrictSubsetOrdering
<1> QED
  BY <1>4

\* What has the coolings of the first n streaks.
Long == {d \in Nat : d >= 2}
FirstCooldowns(g, n) ==
  /\ g \in [0 .. n -> Long]
  /\ \A i \in 0 .. n : g[i] = IF i <= 1 THEN LowBase ELSE Min2(LowMax, 2 * g[i - 1])

LEMMA NextCooldown ==
  ASSUME NEW n \in Nat, NEW g, FirstCooldowns(g, n)
  PROVE  \E h : FirstCooldowns(h, n + 1)
<1> DEFINE last == IF n + 1 <= 1 THEN LowBase ELSE Min2(LowMax, 2 * g[n])
           h == [i \in 0 .. n + 1 |-> IF i = n + 1 THEN last ELSE g[i]]
<1>1. LowBase \in Long /\ LowMax \in Long
  BY HealthAssumption DEF Long
<1>2. last \in Long
  <2>1. g[n] \in Long
    BY DEF FirstCooldowns
  <2> QED
    BY <1>1, <2>1 DEF Min2, Long
<1> HIDE DEF last
<1>3. \A i \in 0 .. n + 1 : i \in 0 .. n \/ i = n + 1
  OBVIOUS
<1>4. h \in [0 .. n + 1 -> Long]
  BY <1>2, <1>3 DEF FirstCooldowns
<1>5. ASSUME NEW i \in 0 .. n
      PROVE  h[i] = IF i <= 1 THEN LowBase ELSE Min2(LowMax, 2 * h[i - 1])
  <2>1. h[i] = g[i]
    OBVIOUS
  <2>2. ~(i <= 1) => h[i - 1] = g[i - 1]
    OBVIOUS
  <2> HIDE DEF h
  <2> QED
    BY <2>1, <2>2 DEF FirstCooldowns
<1>6. h[n + 1] = IF n + 1 <= 1 THEN LowBase ELSE Min2(LowMax, 2 * h[n])
  <2>1. h[n + 1] = last /\ h[n] = g[n]
    OBVIOUS
  <2> HIDE DEF h
  <2> QED
    BY <2>1 DEF last
<1> HIDE DEF h
<1>7. (n + 1) - 1 = n
  OBVIOUS
<1>8. FirstCooldowns(h, n + 1)
  BY <1>3, <1>4, <1>5, <1>6, <1>7 DEF FirstCooldowns
<1> QED
  BY <1>8

LEMMA CooldownsExist ==
  ASSUME NEW n \in Nat
  PROVE  \E g : FirstCooldowns(g, n)
<1> DEFINE Bad == {m \in Nat : ~ \E g : FirstCooldowns(g, m)}
<1>1. Bad = {}
  <2> SUFFICES ASSUME Bad # {} PROVE FALSE
    OBVIOUS
  <2>1. PICK m \in Bad : \A y \in Bad : m <= y
    <3>1. Bad \subseteq Nat
      OBVIOUS
    <3> HIDE DEF Bad
    <3> QED
      BY <3>1, LeastElement
  <2>2. m # 0
    <3>1. FirstCooldowns([i \in 0 .. 0 |-> LowBase], 0)
      BY HealthAssumption DEF FirstCooldowns, Long
    <3> QED
      BY <2>1, <3>1
  <2>3. m - 1 \in Nat /\ (m - 1) + 1 = m
    BY <2>1, <2>2
  <2>4. m - 1 \notin Bad
    <3>1. m \in Nat /\ ~(m <= m - 1)
      BY <2>1
    <3> HIDE DEF Bad
    <3> QED
      BY <2>1, <3>1
  <2>5. PICK g : FirstCooldowns(g, m - 1)
    BY <2>3, <2>4
  <2>6. \E h : FirstCooldowns(h, m)
    BY <2>3, <2>5, NextCooldown
  <2> QED
    BY <2>1, <2>6
<1> QED
  BY <1>1

LEMMA CooldownsAgree ==
  ASSUME NEW n \in Nat, NEW m \in Nat, NEW g, NEW h,
         FirstCooldowns(g, n), FirstCooldowns(h, m), NEW k \in Nat, k <= n, k <= m
  PROVE  g[k] = h[k]
<1> DEFINE Bad == {i \in 0 .. k : g[i] # h[i]}
<1>1. Bad = {}
  <2> SUFFICES ASSUME Bad # {} PROVE FALSE
    OBVIOUS
  <2>1. PICK i \in Bad : \A y \in Bad : i <= y
    <3>1. Bad \subseteq Nat
      OBVIOUS
    <3> HIDE DEF Bad
    <3> QED
      BY <3>1, LeastElement
  <2>2. i \in 0 .. n /\ i \in 0 .. m /\ i \in 0 .. k /\ g[i] # h[i]
    BY <2>1
  <2>3. ~(i <= 1)
    BY <2>2 DEF FirstCooldowns
  <2>4. i - 1 \in 0 .. k /\ ~(i <= i - 1)
    BY <2>2, <2>3
  <2>5. g[i - 1] = h[i - 1]
    <3>1. i - 1 \notin Bad
      <4> HIDE DEF Bad
      <4> QED
        BY <2>1, <2>4
    <3> QED
      BY <2>4, <3>1
  <2> QED
    BY <2>2, <2>3, <2>5 DEF FirstCooldowns
<1> QED
  BY <1>1

\* The doubling of a cooling is well defined, and no cooling is shorter than
\* two periods.
LEMMA CooldownsAreLong ==
  ASSUME NEW streak \in Nat
  PROVE  lowCooldown[streak] \in Nat /\ lowCooldown[streak] >= 2
<1> DEFINE G(n) == CHOOSE g : FirstCooldowns(g, n)
           f == [n \in Nat |-> G(n)[n]]
<1>1. ASSUME NEW n \in Nat PROVE FirstCooldowns(G(n), n)
  BY CooldownsExist
<1> HIDE DEF G
<1>2. \A n \in Nat : f[n] \in Long
  BY <1>1 DEF FirstCooldowns
<1>3. ASSUME NEW n \in Nat
      PROVE  f[n] = IF n <= 1 THEN LowBase ELSE Min2(LowMax, 2 * f[n - 1])
  <2>1. CASE n <= 1
    BY <1>1, <2>1 DEF FirstCooldowns
  <2>2. CASE ~(n <= 1)
    <3>1. n - 1 \in Nat /\ n - 1 <= n
      BY <2>2
    <3>2. G(n)[n - 1] = G(n - 1)[n - 1]
      BY <1>1, <3>1, CooldownsAgree
    <3>3. G(n)[n] = Min2(LowMax, 2 * G(n)[n - 1])
      BY <1>1, <2>2 DEF FirstCooldowns
    <3> QED
      BY <2>2, <3>1, <3>2, <3>3
  <2> QED
    BY <2>1, <2>2
<1>4. f = [n \in Nat |-> IF n <= 1 THEN LowBase ELSE Min2(LowMax, 2 * f[n - 1])]
  BY <1>3
<1> HIDE DEF f
<1>5. lowCooldown = CHOOSE g : g = [n \in Nat |-> IF n <= 1 THEN LowBase
                                              ELSE Min2(LowMax, 2 * g[n - 1])]
  BY DEF lowCooldown
<1>6. lowCooldown = [n \in Nat |-> IF n <= 1 THEN LowBase
                                   ELSE Min2(LowMax, 2 * lowCooldown[n - 1])]
  BY <1>4, <1>5, Zenon
<1> DEFINE Bad == {n \in Nat : lowCooldown[n] \notin Long}
<1>7. Bad = {}
  <2> SUFFICES ASSUME Bad # {} PROVE FALSE
    OBVIOUS
  <2>1. PICK m \in Bad : \A y \in Bad : m <= y
    <3>1. Bad \subseteq Nat
      OBVIOUS
    <3> HIDE DEF Bad
    <3> QED
      BY <3>1, LeastElement
  <2>2. m \in Nat /\ lowCooldown[m] \notin Long
    BY <2>1
  <2>3. LowBase \in Long /\ LowMax \in Long
    BY HealthAssumption DEF Long
  <2>4. ~(m <= 1) /\ lowCooldown[m] = Min2(LowMax, 2 * lowCooldown[m - 1])
    BY <1>6, <2>2, <2>3
  <2>5. lowCooldown[m - 1] \in Long
    <3>1. m - 1 \in Nat /\ ~(m <= m - 1)
      BY <2>2, <2>4
    <3>2. m - 1 \notin Bad
      <4> HIDE DEF Bad
      <4> QED
        BY <2>1, <3>1
    <3> QED
      BY <3>1, <3>2
  <2> QED
    BY <2>2, <2>3, <2>4, <2>5 DEF Min2, Long
<1> QED
  BY <1>7 DEF Long
-----------------------------------------------------------------------------
(* Steps.                                                                  *)

\* What leaves the marks, the coolings and the plans alone.
LEMMA MarksUntouched ==
  ASSUME MarksInv, UNCHANGED <<samples, streakLow, cooling, multiplier, plans>>
  PROVE  MarksInv'
BY DEF MarksInv, MarksType, PlansLast, MarkedAreOut, Out, Fit

\* A sample takes nobody's score away.
LEMMA RecordMarks ==
  ASSUME MarksInv, NEW c \in Callers, NEW o \in Outcome, record(c, o)
  PROVE  MarksInv'
<1> DEFINE k == req[c].key
<1>1. /\ samples' = [samples EXCEPT ![k] = Sampled(@, o)]
      /\ UNCHANGED <<streakLow, cooling, multiplier, plans>>
  BY DEF record, poolVars
<1>2. ASSUME NEW s \in Seq(Outcome)
      PROVE  Sampled(s, o) \in Seq(Outcome) /\ (Scored(s) => Scored(Sampled(s, o)))
  <2>1. MinSamples \in Nat \ {0} /\ SampleWindow \in Nat /\ SampleWindow >= MinSamples
    BY HealthAssumption
  <2>2. Len(s) \in Nat
    BY LenProperties
  <2>3. CASE Len(s) < SampleWindow
    <3>1. Sampled(s, o) = Append(s, o) /\ Append(s, o) \in Seq(Outcome)
          /\ Len(Append(s, o)) = Len(s) + 1
      BY <2>3, AppendProperties DEF Sampled
    <3> QED
      BY <2>1, <2>2, <3>1 DEF Scored
  <2>4. CASE ~(Len(s) < SampleWindow)
    <3>1. s # <<>>
      BY <2>1, <2>2, <2>4
    <3>2. Tail(s) \in Seq(Outcome) /\ Len(Tail(s)) = Len(s) - 1
      BY <3>1, HeadTailProperties
    <3>3. Sampled(s, o) = Append(Tail(s), o) /\ Append(Tail(s), o) \in Seq(Outcome)
          /\ Len(Append(Tail(s), o)) = Len(s)
      BY <2>2, <2>4, <3>2, AppendProperties DEF Sampled
    <3> QED
      BY <2>1, <2>2, <3>3 DEF Scored
  <2> QED
    BY <2>3, <2>4
<1> HIDE DEF k
<1>3. \A j \in Keys : samples'[j] = samples[j] \/ samples'[j] = Sampled(samples[j], o)
  BY <1>1 DEF MarksInv, MarksType
<1>4. samples' \in [Keys -> Seq(Outcome)]
  BY <1>1, <1>2 DEF MarksInv, MarksType
<1>5. \A j \in Keys : Scored(samples[j]) => Scored(samples'[j])
  BY <1>2, <1>3 DEF MarksInv, MarksType
<1> QED
  BY <1>1, <1>4, <1>5 DEF MarksInv, MarksType, PlansLast, MarkedAreOut, Out, Fit

\* A rejected key loses its mark with its samples.
LEMMA ResetMarks ==
  ASSUME MarksInv, NEW c \in Callers, reset(c)
  PROVE  MarksInv'
<1> DEFINE k == req[c].key
<1>1. /\ samples' = [samples EXCEPT ![k] = <<>>]
      /\ streakLow' = [streakLow EXCEPT ![k] = 0]
      /\ UNCHANGED <<cooling, multiplier, plans>>
  BY DEF reset, poolVars
<1> HIDE DEF k
<1>2. samples' \in [Keys -> Seq(Outcome)] /\ streakLow' \in [Keys -> Nat]
  <2>1. <<>> \in Seq(Outcome)
    OBVIOUS
  <2> QED
    BY <1>1, <2>1 DEF MarksInv, MarksType
<1>3. \A j \in Keys : streakLow'[j] > 0 =>
        streakLow'[j] = streakLow[j] /\ samples'[j] = samples[j]
  BY <1>1 DEF MarksInv, MarksType
<1> QED
  BY <1>1, <1>2, <1>3 DEF MarksInv, MarksType, PlansLast, MarkedAreOut, Out, Fit

\* A rate limit may shorten a cooling, but not to less than two periods.
LEMMA RateCoolingMarks ==
  ASSUME MarksInv, NEW c \in Callers, markCooling(c)
  PROVE  MarksInv'
<1> DEFINE k == req[c].key
<1>1. /\ cooling' = [cooling EXCEPT ![k] = RateCooling]
      /\ UNCHANGED <<samples, streakLow, multiplier, plans>>
  BY DEF markCooling, scorerVars
<1> HIDE DEF k
<1>2. RateCooling \in Nat /\ RateCooling >= 2
  BY HealthAssumption
<1>3. \A j \in Keys : Out(j) => Out(j)'
  BY <1>1, <1>2 DEF MarksInv, MarksType, Out
<1> QED
  BY <1>1, <1>2, <1>3 DEF MarksInv, MarksType, PlansLast, MarkedAreOut, Fit

\* An evaluation plans a cooling for every low key, and a weight above the
\* neutral one for a marked key that is not low.
LEMMA EvaluationMarks ==
  ASSUME MarksInv, evaluateScores
  PROVE  MarksInv'
<1> DEFINE streak(k) == IF k \in LowKeys THEN Min2(CapLow, streakLow[k] + 1)
                        ELSE IF Healthy(samples[k]) THEN 0 ELSE streakLow[k]
           cool == [k \in Keys |-> IF k \in LowKeys THEN lowCooldown[streak(k)] ELSE 0]
           weigh == [k \in Keys |-> IF Scored(samples[k])
                       THEN healthMultiplierForScore(samples[k]) ELSE 0]
<1>1. /\ streakLow' = [k \in Keys |-> streak(k)]
      /\ plans' = [due |-> FALSE, cool |-> cool, weigh |-> weigh]
      /\ UNCHANGED <<samples, cooling, multiplier>>
  BY DEF evaluateScores, poolVars
<1>2. ASSUME NEW k \in Keys PROVE streak(k) \in Nat
  <2>1. streakLow[k] \in Nat /\ CapLow \in Nat
    BY HealthAssumption DEF MarksInv, MarksType, CapLow
  <2> QED
    BY <2>1 DEF Min2
<1> HIDE DEF streak
<1>3. ASSUME NEW k \in Keys
      PROVE  /\ cool[k] \in Nat /\ (cool[k] > 0 => cool[k] >= 2)
             /\ k \in LowKeys => cool[k] > 0
  BY <1>2, CooldownsAreLong
<1>4. ASSUME NEW k \in Keys
      PROVE  /\ weigh[k] \in Int
             /\ Scored(samples[k]) /\ k \notin LowKeys => weigh[k] >= Neutral
  <2>1. samples[k] \in Seq(Outcome)
    BY DEF MarksInv, MarksType
  <2> QED
    BY <2>1, NotLowIsFit DEF LowKeys
<1>5. ASSUME NEW k \in Keys, streak(k) > 0 PROVE Scored(samples[k])
  <2>1. k \in LowKeys => Scored(samples[k])
    BY DEF LowKeys, Low
  <2>2. k \notin LowKeys => streakLow[k] > 0
    BY <1>5 DEF streak
  <2> QED
    BY <2>1, <2>2 DEF MarksInv, MarkedAreOut
<1>6. cool \in [Keys -> Nat] /\ weigh \in [Keys -> Int]
  BY <1>3, <1>4
<1> HIDE DEF cool, weigh
<1>7. plans'.cool = cool /\ plans'.weigh = weigh /\ plans'.due = FALSE
  BY <1>1
<1>8. MarksType'
  BY <1>1, <1>2, <1>6 DEF MarksInv, MarksType
<1>9. PlansLast'
  BY <1>3, <1>7 DEF PlansLast
<1>10. MarkedAreOut'
  <2> SUFFICES ASSUME NEW k \in Keys, streakLow'[k] > 0
               PROVE  Scored(samples'[k]) /\ (plans'.cool[k] > 0 \/ Out(k)' \/ Fit(k)')
    BY DEF MarkedAreOut
  <2>1. Scored(samples[k])
    BY <1>1, <1>5
  <2>2. CASE k \in LowKeys
    BY <1>1, <1>3, <1>7, <2>1, <2>2
  <2>3. CASE k \notin LowKeys
    <3>1. Fit(k)'
      BY <1>4, <1>7, <2>1, <2>3 DEF Fit
    <3> QED
      BY <1>1, <2>1, <3>1
  <2> QED
    BY <2>2, <2>3
<1> QED
  BY <1>8, <1>9, <1>10 DEF MarksInv

\* A key is cooled as planned.
LEMMA CoolingMarks ==
  ASSUME MarksInv, NEW k \in Keys, MarkCooling(k)
  PROVE  MarksInv'
<1>1. /\ cooling' = [cooling EXCEPT ![k] = plans.cool[k]]
      /\ plans' = [plans EXCEPT !.cool[k] = 0] /\ plans.cool[k] > 0
      /\ UNCHANGED <<samples, streakLow, multiplier>>
  BY DEF MarkCooling, scorerVars
<1>2. /\ plans'.due = plans.due /\ plans'.weigh = plans.weigh
      /\ plans'.cool = [plans.cool EXCEPT ![k] = 0]
  BY <1>1 DEF MarksInv, MarksType
<1>3. MarksType'
  BY <1>1 DEF MarksInv, MarksType
<1>4. PlansLast'
  BY <1>2 DEF MarksInv, MarksType, PlansLast
<1>5. Out(k)'
  <2>1. cooling'[k] = plans.cool[k] /\ plans.cool[k] \in Nat /\ plans.cool[k] >= 2
    BY <1>1 DEF MarksInv, MarksType, PlansLast
  <2> QED
    BY <2>1 DEF Out
<1>6. \A j \in Keys : j # k => (Out(j) => Out(j)') /\ plans'.cool[j] = plans.cool[j]
  BY <1>1, <1>2 DEF MarksInv, MarksType, Out
<1>7. \A j \in Keys : Fit(j) => Fit(j)'
  BY <1>1, <1>2 DEF Fit
<1>8. MarkedAreOut'
  BY <1>1, <1>5, <1>6, <1>7 DEF MarksInv, MarkedAreOut
<1> QED
  BY <1>3, <1>4, <1>8 DEF MarksInv

\* A weight is set when no cooling is left to be carried out.
LEMMA WeighingMarks ==
  ASSUME MarksInv, NEW k \in Keys, SetHealthMultiplier(k)
  PROVE  MarksInv'
<1>1. /\ multiplier' = [multiplier EXCEPT ![k] = plans.weigh[k]]
      /\ plans' = [plans EXCEPT !.weigh[k] = 0] /\ plans.weigh[k] > 0
      /\ plans.cool = NoPlans.cool
      /\ UNCHANGED <<samples, streakLow, cooling>>
  BY DEF SetHealthMultiplier, scorerVars
<1>2. /\ plans'.due = plans.due /\ plans'.cool = plans.cool
      /\ plans'.weigh = [plans.weigh EXCEPT ![k] = 0]
  BY <1>1 DEF MarksInv, MarksType
<1>3. MarksType'
  <2>1. plans \in [due : BOOLEAN, cool : [Keys -> Nat], weigh : [Keys -> Int]]
    BY DEF MarksInv, MarksType
  <2>2. plans' \in [due : BOOLEAN, cool : [Keys -> Nat], weigh : [Keys -> Int]]
    BY <1>1, <2>1
  <2>3. multiplier' \in [Keys -> Int]
    BY <1>1 DEF MarksInv, MarksType
  <2> QED
    BY <1>1, <2>2, <2>3 DEF MarksInv, MarksType
<1>4. PlansLast'
  BY <1>2 DEF MarksInv, PlansLast
<1>5. \A j \in Keys : Out(j) => Out(j)'
  BY <1>1, <1>2 DEF Out
<1>6. ASSUME NEW j \in Keys, Fit(j) PROVE Fit(j)'
  <2>1. CASE j = k
    <3>1. plans.weigh[k] \in Int /\ plans.weigh[k] >= Neutral
      BY <1>1, <1>6, <2>1 DEF MarksInv, MarksType, Fit
    <3>2. plans'.weigh[k] = 0 /\ multiplier'[k] = plans.weigh[k]
      BY <1>1, <1>2 DEF MarksInv, MarksType
    <3> QED
      BY <2>1, <3>1, <3>2 DEF Fit
  <2>2. CASE j # k
    <3>1. plans'.weigh[j] = plans.weigh[j] /\ multiplier'[j] = multiplier[j]
      BY <1>1, <1>2, <2>2 DEF MarksInv, MarksType
    <3> QED
      BY <1>6, <3>1 DEF Fit
  <2> QED
    BY <2>1, <2>2
<1>7. MarkedAreOut'
  BY <1>1, <1>2, <1>5, <1>6 DEF MarksInv, MarkedAreOut
<1> QED
  BY <1>3, <1>4, <1>7 DEF MarksInv

\* A reload gives every key the neutral weight.
LEMMA ReloadMarks ==
  ASSUME MarksInv, LoadActiveKeys
  PROVE  MarksInv'
<1>1. /\ multiplier' = [k \in Keys |-> Neutral]
      /\ UNCHANGED <<samples, streakLow, cooling, plans>>
  BY DEF LoadActiveKeys, scorerVars
<1>2. \A k \in Keys : (Out(k) => Out(k)') /\ (Fit(k) => Fit(k)')
  BY <1>1 DEF Out, Fit, Neutral
<1> QED
  BY <1>1, <1>2 DEF MarksInv, MarksType, PlansLast, MarkedAreOut, Neutral

\* A period passes between two evaluations only, and takes one from a cooling.
LEMMA TickMarks ==
  ASSUME MarksInv, Tick
  PROVE  MarksInv'
<1>1. /\ plans' = [plans EXCEPT !.due = TRUE] /\ ~plans.due /\ ~Busy
      /\ cooling' = [k \in DOMAIN cooling |-> IF cooling[k] > 0 THEN cooling[k] - 1 ELSE 0]
      /\ UNCHANGED <<samples, streakLow, multiplier>>
  BY DEF Tick, Passed, scorerVars
<1>2. plans'.due = TRUE /\ plans'.cool = plans.cool /\ plans'.weigh = plans.weigh
  BY <1>1 DEF MarksInv, MarksType
<1>3. MarksType'
  <2>1. plans \in [due : BOOLEAN, cool : [Keys -> Nat], weigh : [Keys -> Int]]
    BY DEF MarksInv, MarksType
  <2>2. plans' \in [due : BOOLEAN, cool : [Keys -> Nat], weigh : [Keys -> Int]]
    BY <1>1, <2>1
  <2>3. cooling' \in [Keys -> Nat]
    BY <1>1 DEF MarksInv, MarksType
  <2> QED
    BY <1>1, <2>2, <2>3 DEF MarksInv, MarksType
<1>4. PlansLast'
  BY <1>2 DEF MarksInv, PlansLast
<1>5. \A k \in Keys : (Out(k) => Out(k)') /\ (Fit(k) => Fit(k)')
  BY <1>1, <1>2 DEF MarksInv, MarksType, Out, Fit
<1>6. MarkedAreOut'
  BY <1>1, <1>2, <1>5 DEF MarksInv, MarkedAreOut
<1> QED
  BY <1>3, <1>4, <1>6 DEF MarksInv

-----------------------------------------------------------------------------
(* The theorem.                                                            *)

LEMMA MarksInitially ==
  ASSUME Init
  PROVE  MarksInv
<1>1. <<>> \in Seq(Outcome) /\ Neutral \in Int
  BY DEF Neutral
<1> QED
  BY <1>1 DEF Init, NoPlans, MarksInv, MarksType, PlansLast, MarkedAreOut

LEMMA MarksKept ==
  ASSUME MarksInv, [Next]_vars
  PROVE  MarksInv'
<1>1. ASSUME NEW c \in Callers, RequestStep(c) PROVE MarksInv'
  <2>1. CASE \/ \E k \in Keys : Acquire(c, k)
             \/ RateLimited(c) \/ Escalate(c) \/ ServerError(c) \/ Retry(c)
             \/ markModelCooling(c) \/ MarkDead(c)
    <3>1. UNCHANGED <<samples, streakLow, cooling, multiplier, plans>>
      BY <2>1 DEF Acquire, RateLimited, Escalate, ServerError, Retry, markModelCooling,
           MarkDead, scorerVars, poolVars
    <3> QED
      BY <3>1, MarksUntouched
  <2> QED
    BY <1>1, <2>1, RecordMarks, RateCoolingMarks, ResetMarks DEF RequestStep
<1>2. ASSUME NEW c \in Callers,
             LeaveQueue(c) \/ \E m \in Models : Admit(c, m) \/ Refuse(c, m)
      PROVE  MarksInv'
  <2>1. UNCHANGED <<samples, streakLow, cooling, multiplier, plans>>
    BY <1>2 DEF LeaveQueue, Admit, Refuse, scorerVars, poolVars, vars
  <2> QED
    BY <2>1, MarksUntouched
<1>3. ASSUME EvaluationStep PROVE MarksInv'
  BY <1>3, EvaluationMarks, CoolingMarks, WeighingMarks DEF EvaluationStep
<1>4. ASSUME UpstreamChanges \/ UNCHANGED vars PROVE MarksInv'
  <2>1. UNCHANGED <<samples, streakLow, cooling, multiplier, plans>>
    BY <1>4 DEF UpstreamChanges, scorerVars, poolVars, vars
  <2> QED
    BY <2>1, MarksUntouched
<1> QED
  BY <1>1, <1>2, <1>3, <1>4, ReloadMarks, TickMarks DEF Next

\* Between two evaluations, no key that is marked as low can be handed out with
\* a weight below the neutral one: whoever is marked is out until it has
\* recovered (health_scorer.go 150-188).
THEOREM LowKeysStayOut == Spec => []LowKeysAreOut
<1>1. Init => MarksInv
  BY MarksInitially
<1>2. MarksInv /\ [Next]_vars => MarksInv'
  BY MarksKept
<1>3. MarksInv => LowKeysAreOut
  <2> SUFFICES ASSUME MarksInv, ~Busy, NEW k \in Keys, NEW m \in Models,
                      streakLow[k] > 0, Selectable(k, m)
               PROVE  multiplier[k] >= Neutral
    BY DEF LowKeysAreOut
  <2>1. plans.cool[k] = 0 /\ plans.weigh[k] = 0
    BY DEF Busy, NoPlans
  <2>2. cooling[k] = 0
    BY DEF Selectable
  <2>3. ~Out(k)
    BY <2>2 DEF Out
  <2>4. Fit(k)
    BY <2>1, <2>3 DEF MarksInv, MarkedAreOut
  <2> QED
    BY <2>1, <2>4 DEF Fit, Neutral
<1> QED
  BY <1>1, <1>2, <1>3, PTL DEF Spec

-----------------------------------------------------------------------------
(* Health checks and their report store: HealthRuns.                       *)

\* The pool of a run: its workers are at work only between the dispatch of the
\* first model and the collection, and a model that was handed out is in the hands
\* of one of them or has its result.
CrewOK ==
  \A r \in Runs :
    /\ pc[r] \notin {"dispatch", "wait"} => \A w \in 1..Workers : worker[r][w] = Ended
    /\ pc[r] \in {"new", "hydrate", "build", "upstream"} => next[r] = 1
    /\ pc[r] \in {"dispatch", "wait"} =>
         \A i \in Tasks(r) : i < next[r] =>
           results[r][i] # "none" \/ \E w \in 1..Workers : worker[r][w] = i
    /\ pc[r] = "ran" => \A i \in Tasks(r) : results[r][i] # "none"

\* Nobody knows a sweep that has not been finished.
SweepsAreFinished == disk <= sweeps /\ shown <= sweeps /\ \A r \in Runs : sweep[r] <= sweeps

\* From its report on, a check carries what was shown when it was built or a sweep
\* of its own.
Carrying == {"upstream", "dispatch", "wait", "ran", "put", "persist"}

\* A check that runs alone carries nothing older than the database has, and memory
\* shows nothing older either, once it is not empty.
NothingOlder ==
  /\ \A r, q \in UnderWay : r = q
  /\ shown = 0 \/ shown >= disk
  /\ \A r \in Runs :
       /\ pc[r] = "hydrate" => sweep[r] = disk
       /\ pc[r] \in {"build"} \cup Carrying => shown >= disk
       /\ pc[r] \in Carrying => sweep[r] >= disk
       /\ pc[r] = "persist" => sweep[r] = shown

RunsInv ==
  /\ TypeOK /\ CrewOK /\ SweepsAreFinished
  /\ ~overlap => NothingOlder

-----------------------------------------------------------------------------
LEMMA TasksAreModels ==
  ASSUME NEW r \in Runs, NEW i \in Tasks(r)
  PROVE  i \in 1 .. NModels /\ i \in Nat
BY HealthRunsAssumption DEF Tasks

LEMMA RunsInitially == RunsInit => RunsInv
<1> SUFFICES ASSUME RunsInit PROVE RunsInv
  OBVIOUS
<1>1. TypeOK
  <2>1. disk \in Nat /\ sweeps \in Nat /\ shown \in Nat /\ crashes \in 0 .. MaxCrashes
    BY HealthRunsAssumption DEF RunsInit
  <2>2. next \in [Runs -> 1 .. NModels + 1]
    BY HealthRunsAssumption DEF RunsInit
  <2>3. /\ worker \in [Runs -> [1 .. Workers -> {Ended, Waiting} \cup 1 .. NModels]]
        /\ results \in [Runs -> [1 .. NModels -> {"none", "probed", "skipped"}]]
    BY DEF RunsInit
  <2> QED
    BY <2>1, <2>2, <2>3 DEF RunsInit, TypeOK, Places
<1>2. CrewOK
  BY DEF RunsInit, CrewOK
<1>3. SweepsAreFinished /\ NothingOlder
  BY <1>1 DEF RunsInit, TypeOK, SweepsAreFinished, NothingOlder, UnderWay, Carrying
<1> QED
  BY <1>1, <1>2, <1>3 DEF RunsInv

\* A step that leaves the pools alone, but for a run that gets past its own or is
\* told what to do.
LEMMA PoolsLeftAlone ==
  ASSUME RunsInv, NEW r \in Runs, UNCHANGED crewVars,
         scope' = scope \/ (pc[r] = "new" /\ \E s : scope' = [scope EXCEPT ![r] = s]),
         NEW to, RunAt(r, to),
         \/ pc[r] \in {"new", "hydrate", "build"} /\ to \in {"hydrate", "build", "upstream"}
         \/ pc[r] \notin {"dispatch", "wait"} /\ to \in {"put", "persist", "done"}
         \/ pc[r] = "dispatch" /\ to = "wait"
  PROVE  CrewOK'
<1> SUFFICES ASSUME NEW q \in Runs
             PROVE  /\ pc'[q] \notin {"dispatch", "wait"} =>
                         \A w \in 1..Workers : worker'[q][w] = Ended
                    /\ pc'[q] \in {"new", "hydrate", "build", "upstream"} => next'[q] = 1
                    /\ pc'[q] \in {"dispatch", "wait"} =>
                         \A i \in Tasks(q)' : i < next'[q] =>
                           results'[q][i] # "none" \/ \E w \in 1..Workers : worker'[q][w] = i
                    /\ pc'[q] = "ran" => \A i \in Tasks(q)' : results'[q][i] # "none"
  BY DEF CrewOK
<1>1. worker' = worker /\ next' = next /\ results' = results
  BY DEF crewVars
<1>2. pc'[q] = IF q = r THEN to ELSE pc[q]
  BY DEF RunsInv, TypeOK, RunAt
<1>3. pc'[q] \in {"dispatch", "wait", "ran"} => Tasks(q)' = Tasks(q)
  BY <1>2 DEF RunsInv, TypeOK, Tasks
<1>4. CASE q = r
  BY <1>1, <1>2, <1>3, <1>4 DEF RunsInv, CrewOK
<1>5. CASE q # r
  BY <1>1, <1>2, <1>3, <1>5 DEF RunsInv, CrewOK
<1> QED
  BY <1>4, <1>5

\* A step of a pool keeps its hands off the sweeps.
LEMMA SweepsLeftAlone ==
  ASSUME RunsInv, NEW r \in Runs, UNCHANGED <<storeVars, sweep, overlap>>, NEW to, RunAt(r, to),
         \/ pc[r] \in Carrying /\ to \in Carrying \ {"persist"}
         \/ to = "done"
         \/ pc[r] = to
  PROVE  SweepsAreFinished' /\ (~overlap' => NothingOlder')
<1>1. \A q \in Runs : pc'[q] = IF q = r THEN to ELSE pc[q]
  BY DEF RunsInv, TypeOK, RunAt
<1>2. shown' = shown /\ disk' = disk /\ sweeps' = sweeps /\ sweep' = sweep /\ overlap' = overlap
  BY DEF storeVars
<1>3. UnderWay' \subseteq UnderWay
  BY <1>1 DEF UnderWay, Carrying
<1> QED
  BY <1>1, <1>2, <1>3 DEF RunsInv, SweepsAreFinished, NothingOlder, Carrying


\* The steps, one disjunct per operation.
LEMMA RunsTypes ==
  ASSUME RunsInv, [RunsNext]_runsVars
  PROVE  TypeOK'
<1> USE DEF RunsInv, RunAt, Carry, storeVars, crewVars
<1>1. ASSUME NEW r \in Runs, NEW s \in {"single", "all", "catalog"}, Receive(r, s) PROVE TypeOK'
  BY <1>1 DEF Receive, TypeOK, Places
<1>2. ASSUME NEW r \in Runs, Hydrate(r) \/ BuildReport(r) \/ SetModelCatalog(r) PROVE TypeOK'
  <2>1. CASE Hydrate(r)
    BY <2>1 DEF Hydrate, Hydrated, TypeOK, Places
  <2>2. CASE BuildReport(r)
    BY <2>2 DEF BuildReport, TypeOK, Places
  <2>3. CASE SetModelCatalog(r)
    BY <2>3 DEF SetModelCatalog, TypeOK, Places
  <2> QED
    BY <1>2, <2>1, <2>2, <2>3
<1>3. ASSUME NEW r \in Runs, Unreachable(r) \/ UnknownModel(r) \/ StopDispatch(r) PROVE TypeOK'
  BY <1>3 DEF Unreachable, UnknownModel, StopDispatch, TypeOK, Places
<1>4. ASSUME NEW r \in Runs, StartWorkers(r) PROVE TypeOK'
  <2>1. [w \in 1..Workers |-> IF w \in Crew(r) THEN Waiting ELSE Ended]
          \in [1 .. Workers -> {Ended, Waiting} \cup 1 .. NModels]
    OBVIOUS
  <2> QED
    BY <1>4, <2>1 DEF StartWorkers, TypeOK, Places
<1>5. ASSUME NEW r \in Runs, NEW w \in 1 .. Workers, Dispatch(r, w) PROVE TypeOK'
  <2>1. next[r] \in 1 .. NModels /\ next[r] + 1 \in 1 .. NModels + 1
    BY <1>5, TasksAreModels, HealthRunsAssumption DEF Dispatch
  <2>2. worker' \in [Runs -> [1 .. Workers -> {Ended, Waiting} \cup 1 .. NModels]]
    BY <1>5, <2>1 DEF Dispatch, SetWorker, TypeOK
  <2>3. next' \in [Runs -> 1 .. NModels + 1]
    BY <1>5, <2>1 DEF Dispatch, TypeOK
  <2> QED
    BY <1>5, <2>2, <2>3 DEF Dispatch, TypeOK
<1>6. ASSUME NEW r \in Runs, NEW w \in 1 .. Workers, Probe(r, w) \/ WorkerExit(r, w) PROVE TypeOK'
  <2>1. worker' \in [Runs -> [1 .. Workers -> {Ended, Waiting} \cup 1 .. NModels]]
    <3>1. \E to \in {Ended, Waiting} : SetWorker(r, w, to)
      BY <1>6 DEF Probe, WorkerExit
    <3> QED
      BY <3>1 DEF SetWorker, TypeOK
  <2>2. results' \in [Runs -> [1 .. NModels -> {"none", "probed", "skipped"}]]
    <3>1. CASE results' = [results EXCEPT ![r][worker[r][w]] = "probed"]
      BY <3>1 DEF TypeOK
    <3> QED
      BY <1>6, <3>1 DEF Probe, WorkerExit, TypeOK
  <2> QED
    BY <1>6, <2>1, <2>2 DEF Probe, WorkerExit, TypeOK
<1>7. ASSUME NEW r \in Runs, Collect(r) PROVE TypeOK'
  <2>1. results' \in [Runs -> [1 .. NModels -> {"none", "probed", "skipped"}]]
    BY <1>7 DEF Collect, TypeOK
  <2> QED
    BY <1>7, <2>1 DEF Collect, TypeOK, Places
<1>8. ASSUME NEW r \in Runs, FinishRun(r) \/ Put(r) \/ Persist(r) PROVE TypeOK'
  <2>1. sweeps' \in Nat /\ shown' \in Nat /\ disk' \in Nat /\ sweep' \in [Runs -> Nat]
    <3>1. CASE FinishRun(r)
      BY <3>1 DEF FinishRun, TypeOK
    <3>2. CASE Put(r)
      BY <3>2 DEF Put, TypeOK
    <3>3. CASE Persist(r)
      BY <3>3 DEF Persist, TypeOK
    <3> QED
      BY <1>8, <3>1, <3>2, <3>3
  <2>2. pc' \in [Runs -> Places]
    BY <1>8 DEF FinishRun, Put, Persist, TypeOK, Places
  <2> QED
    BY <1>8, <2>1, <2>2 DEF FinishRun, Put, Persist, TypeOK
<1>9. ASSUME NEW r \in Runs, Expire(r) PROVE TypeOK'
  BY <1>9 DEF Expire, TypeOK
<1>10. CASE GetHealthReport
  BY <1>10 DEF GetHealthReport, Hydrated, TypeOK
<1>11. CASE Crash
  <2>1. worker' \in [Runs -> [1 .. Workers -> {Ended, Waiting} \cup 1 .. NModels]]
    BY <1>11 DEF Crash
  <2>2. crashes' \in 0 .. MaxCrashes
    BY <1>11, HealthRunsAssumption DEF Crash, TypeOK
  <2>3. pc' \in [Runs -> Places]
    BY <1>11 DEF Crash, TypeOK, Places
  <2> QED
    BY <1>11, <2>1, <2>2, <2>3 DEF Crash, TypeOK
<1>12. CASE UNCHANGED runsVars
  BY <1>12 DEF runsVars, TypeOK
<1> QED
  BY <1>1, <1>2, <1>3, <1>4, <1>5, <1>6, <1>7, <1>8, <1>9, <1>10, <1>11, <1>12
     DEF RunsNext, HandlerStep, WorkerStep

LEMMA CrewKept ==
  ASSUME RunsInv, [RunsNext]_runsVars
  PROVE  CrewOK'
<1>0. TypeOK /\ CrewOK /\ TypeOK'
  BY RunsTypes DEF RunsInv
<1>1. ASSUME NEW r \in Runs, NEW s \in {"single", "all", "catalog"}, Receive(r, s) PROVE CrewOK'
  BY <1>1, PoolsLeftAlone DEF Receive
<1>2. ASSUME NEW r \in Runs, Hydrate(r) \/ BuildReport(r) \/ SetModelCatalog(r) PROVE CrewOK'
  BY <1>2, PoolsLeftAlone DEF Hydrate, BuildReport, SetModelCatalog
<1>3. ASSUME NEW r \in Runs, Unreachable(r) \/ UnknownModel(r) \/ StopDispatch(r) PROVE CrewOK'
  BY <1>3, PoolsLeftAlone DEF Unreachable, UnknownModel, StopDispatch
<1>4. ASSUME NEW r \in Runs, FinishRun(r) \/ Put(r) \/ Persist(r) PROVE CrewOK'
  BY <1>4, PoolsLeftAlone DEF FinishRun, Put, Persist
<1>5. ASSUME NEW r \in Runs, StartWorkers(r) PROVE CrewOK'
  <2>1. /\ \A q \in Runs : pc'[q] = IF q = r THEN "dispatch" ELSE pc[q]
        /\ \A q \in Runs : q # r => worker'[q] = worker[q]
        /\ scope' = scope /\ next' = next /\ results' = results /\ next[r] = 1
    BY <1>0, <1>5 DEF StartWorkers, RunAt, TypeOK, CrewOK
  <2>2. \A i \in Tasks(r) : ~(i < 1)
    BY HealthRunsAssumption DEF Tasks
  <2> QED
    BY <1>0, <2>1, <2>2 DEF CrewOK, Tasks
<1>6. ASSUME NEW r \in Runs, NEW w \in 1 .. Workers, Dispatch(r, w) PROVE CrewOK'
  <2>1. /\ pc' = pc /\ scope' = scope /\ results' = results /\ pc[r] = "dispatch"
        /\ worker[r][w] = Waiting
        /\ \A q \in Runs, v \in 1 .. Workers :
             worker'[q][v] = IF q = r /\ v = w THEN next[r] ELSE worker[q][v]
        /\ \A q \in Runs : next'[q] = IF q = r THEN next[r] + 1 ELSE next[q]
    BY <1>0, <1>6 DEF Dispatch, SetWorker, TypeOK
  <2>2. \A i \in Tasks(r) : i \in Nat /\ i # Waiting /\ next[r] \in Nat
    BY <1>0, HealthRunsAssumption DEF Tasks, Waiting, TypeOK
  <2>3. \A i \in Tasks(r) : i < next[r] + 1 =>
          results[r][i] # "none" \/ \E v \in 1 .. Workers : worker'[r][v] = i
    <3> SUFFICES ASSUME NEW i \in Tasks(r), i < next[r] + 1, results[r][i] = "none"
                 PROVE  \E v \in 1 .. Workers : worker'[r][v] = i
      OBVIOUS
    <3>1. CASE i = next[r]
      BY <2>1, <3>1
    <3>2. CASE i < next[r]
      <4>1. PICK v \in 1 .. Workers : worker[r][v] = i
        BY <1>0, <2>1, <3>2 DEF CrewOK
      <4> QED
        BY <2>1, <2>2, <4>1
    <3> QED
      BY <2>2, <3>1, <3>2
  <2> QED
    BY <1>0, <2>1, <2>3 DEF CrewOK, Tasks
<1>7. ASSUME NEW r \in Runs, NEW w \in 1 .. Workers, Probe(r, w) PROVE CrewOK'
  <2>1. /\ pc' = pc /\ scope' = scope /\ next' = next
        /\ worker[r][w] \in 1 .. NModels /\ worker[r][w] # Ended
        /\ \A q \in Runs, v \in 1 .. Workers :
             worker'[q][v] = IF q = r /\ v = w THEN Waiting ELSE worker[q][v]
        /\ \A q \in Runs, i \in 1 .. NModels :
             results'[q][i] = IF q = r /\ i = worker[r][w] THEN "probed" ELSE results[q][i]
    <3>1. /\ pc' = pc /\ scope' = scope /\ next' = next
          /\ worker[r][w] \in 1 .. NModels /\ worker[r][w] # Ended
      BY <1>0, <1>7 DEF Probe, TypeOK
    <3>2. \A q \in Runs, v \in 1 .. Workers :
             worker'[q][v] = IF q = r /\ v = w THEN Waiting ELSE worker[q][v]
      BY <1>0, <1>7 DEF Probe, SetWorker, TypeOK
    <3>3. \A q \in Runs, i \in 1 .. NModels :
             results'[q][i] = IF q = r /\ i = worker[r][w] THEN "probed" ELSE results[q][i]
      BY <1>0, <1>7 DEF Probe, TypeOK
    <3> QED
      BY <3>1, <3>2, <3>3
  <2>2. pc[r] \in {"dispatch", "wait"}
    BY <1>0, <2>1 DEF CrewOK
  <2>3. \A i \in Tasks(r) : i < next[r] =>
          results'[r][i] # "none" \/ \E v \in 1 .. Workers : worker'[r][v] = i
    <3> SUFFICES ASSUME NEW i \in Tasks(r), i < next[r], results'[r][i] = "none"
                 PROVE  \E v \in 1 .. Workers : worker'[r][v] = i
      OBVIOUS
    <3>1. i # worker[r][w] /\ results[r][i] = "none"
      BY <2>1, TasksAreModels
    <3>2. PICK v \in 1 .. Workers : worker[r][v] = i
      BY <1>0, <2>2, <3>1 DEF CrewOK
    <3> QED
      BY <2>1, <3>1, <3>2
  <2>4. \A q \in Runs : q # r => \A i \in Tasks(q) : results'[q][i] = results[q][i]
    BY <2>1, TasksAreModels
  <2> QED
    BY <1>0, <2>1, <2>2, <2>3, <2>4 DEF CrewOK, Tasks
<1>8. ASSUME NEW r \in Runs, NEW w \in 1 .. Workers, WorkerExit(r, w) PROVE CrewOK'
  <2>1. /\ pc' = pc /\ scope' = scope /\ next' = next /\ results' = results
        /\ worker[r][w] = Waiting /\ pc[r] = "wait"
        /\ \A q \in Runs, v \in 1 .. Workers :
             worker'[q][v] = IF q = r /\ v = w THEN Ended ELSE worker[q][v]
    BY <1>0, <1>8 DEF WorkerExit, SetWorker, TypeOK
  <2>2. \A i \in Tasks(r) : i # Waiting
    BY TasksAreModels DEF Waiting
  <2> QED
    BY <1>0, <2>1, <2>2 DEF CrewOK, Tasks
<1>9. ASSUME NEW r \in Runs, Collect(r) PROVE CrewOK'
  <2>1. /\ \A q \in Runs : pc'[q] = IF q = r THEN "ran" ELSE pc[q]
        /\ pc[r] = "wait" /\ scope' = scope /\ next' = next /\ worker' = worker
        /\ \A w \in 1 .. Workers : worker[r][w] = Ended
        /\ \A q \in Runs : q # r => results'[q] = results[q]
        /\ \A i \in 1 .. NModels :
             results'[r][i] = IF i \in Tasks(r) /\ Skipped(r, i) THEN "skipped" ELSE results[r][i]
    BY <1>0, <1>9 DEF Collect, RunAt, TypeOK
  <2>2. \A i \in Tasks(r) : results'[r][i] # "none"
    <3> SUFFICES ASSUME NEW i \in Tasks(r), ~(i >= next[r]) PROVE results[r][i] # "none"
      BY <2>1, TasksAreModels DEF Skipped
    <3>1. \A w \in 1 .. Workers : worker[r][w] # i
      BY <2>1, TasksAreModels DEF Ended
    <3>2. i < next[r]
      BY <1>0, TasksAreModels DEF TypeOK
    <3> QED
      BY <1>0, <2>1, <3>1, <3>2 DEF CrewOK
  <2> QED
    BY <1>0, <2>1, <2>2 DEF CrewOK, Tasks
<1>10. ASSUME NEW r \in Runs, Expire(r) PROVE CrewOK'
  BY <1>0, <1>10 DEF Expire, CrewOK, Tasks
<1>11. CASE GetHealthReport
  BY <1>0, <1>11 DEF GetHealthReport, crewVars, CrewOK, Tasks
<1>12. CASE Crash
  <2>1. /\ \A q \in Runs : pc'[q] \in {"dead", "new", "done"} /\ (pc'[q] = "new" => pc[q] = "new")
        /\ \A q \in Runs, w \in 1 .. Workers : worker'[q][w] = Ended
        /\ next' = next
    BY <1>0, <1>12 DEF Crash, UnderWay, TypeOK
  <2> QED
    BY <1>0, <2>1 DEF CrewOK
<1>13. CASE UNCHANGED runsVars
  BY <1>0, <1>13 DEF runsVars, crewVars, CrewOK, Tasks
<1> QED
  BY <1>1, <1>2, <1>3, <1>4, <1>5, <1>6, <1>7, <1>8, <1>9, <1>10, <1>11, <1>12, <1>13
     DEF RunsNext, HandlerStep, WorkerStep


\* A check that is alone brings the database nothing older than what it has.
LEMMA SweepsKept ==
  ASSUME RunsInv, [RunsNext]_runsVars
  PROVE  SweepsAreFinished' /\ (~overlap' => NothingOlder' /\ disk' >= disk)
<1> DEFINE Kept == SweepsAreFinished' /\ (~overlap' => NothingOlder' /\ disk' >= disk)
<1>0. /\ TypeOK /\ SweepsAreFinished /\ (~overlap => NothingOlder)
      /\ disk \in Nat /\ shown \in Nat /\ sweeps \in Nat /\ \A r \in Runs : sweep[r] \in Nat
  BY DEF RunsInv, TypeOK
<1>a. ASSUME NEW r \in Runs, NEW to, RunAt(r, to)
      PROVE  \A q \in Runs : pc'[q] = IF q = r THEN to ELSE pc[q]
  BY <1>0, <1>a DEF TypeOK, RunAt
<1>b. ASSUME NEW r \in Runs, NEW n, Carry(r, n)
      PROVE  \A q \in Runs : sweep'[q] = IF q = r THEN n ELSE sweep[q]
  BY <1>0, <1>b DEF TypeOK, Carry
<1>c. ASSUME NEW r \in Runs, r \in UnderWay, ~overlap
      PROVE  NothingOlder /\ \A q \in Runs : q # r => pc[q] \in {"new", "done", "dead"}
  BY <1>0, <1>c DEF NothingOlder, UnderWay
<1>1. ASSUME NEW r \in Runs, NEW s \in {"single", "all", "catalog"}, Receive(r, s) PROVE Kept
  <2>1. /\ \A q \in Runs : pc'[q] = IF q = r THEN "hydrate" ELSE pc[q]
        /\ \A q \in Runs : sweep'[q] = IF q = r THEN disk ELSE sweep[q]
    BY <1>1, <1>a, <1>b DEF Receive
  <2>2. shown' = shown /\ disk' = disk /\ sweeps' = sweeps /\ pc[r] = "new"
    BY <1>1 DEF Receive, storeVars
  <2>3. ~overlap' => ~overlap /\ UnderWay = {}
    BY <1>0, <1>1 DEF Receive, TypeOK
  <2> QED
    BY <1>0, <2>1, <2>2, <2>3 DEF SweepsAreFinished, NothingOlder, UnderWay, Carrying
<1>2. ASSUME NEW r \in Runs, Hydrate(r) PROVE Kept
  <2>1. \A q \in Runs : pc'[q] = IF q = r THEN "build" ELSE pc[q]
    BY <1>2, <1>a DEF Hydrate
  <2>2. /\ shown' = (IF shown = 0 THEN sweep[r] ELSE shown) /\ disk' = disk /\ sweeps' = sweeps
        /\ sweep' = sweep /\ overlap' = overlap /\ pc[r] = "hydrate" /\ r \in UnderWay
    BY <1>2 DEF Hydrate, Hydrated, UnderWay
  <2> QED
    BY <1>0, <1>c, <2>1, <2>2 DEF SweepsAreFinished, NothingOlder, UnderWay, Carrying
<1>3. ASSUME NEW r \in Runs, BuildReport(r) \/ SetModelCatalog(r) PROVE Kept
  <2>1. /\ shown' = shown /\ disk' = disk /\ sweeps' = sweeps /\ overlap' = overlap
        /\ pc[r] = "build" /\ r \in UnderWay
    BY <1>3 DEF BuildReport, SetModelCatalog, storeVars, UnderWay
  <2>2. CASE \E to \in {"upstream", "persist"} : RunAt(r, to) /\ Carry(r, shown)
    <3>1. PICK to \in {"upstream", "persist"} : RunAt(r, to) /\ Carry(r, shown)
      BY <2>2
    <3>2. /\ \A q \in Runs : pc'[q] = IF q = r THEN to ELSE pc[q]
          /\ \A q \in Runs : sweep'[q] = IF q = r THEN shown ELSE sweep[q]
      BY <3>1, <1>a, <1>b
    <3> QED
      BY <1>0, <1>c, <2>1, <3>2 DEF SweepsAreFinished, NothingOlder, UnderWay, Carrying
  <2>3. CASE RunAt(r, "done") /\ UNCHANGED sweep
    BY <1>0, <2>1, <2>3, SweepsLeftAlone DEF storeVars
  <2> QED
    BY <1>3, <2>2, <2>3 DEF BuildReport, SetModelCatalog
<1>4. ASSUME NEW r \in Runs, Unreachable(r) \/ UnknownModel(r) \/ StartWorkers(r) PROVE Kept
  BY <1>0, <1>4, SweepsLeftAlone DEF Unreachable, UnknownModel, StartWorkers, Carrying, storeVars
<1>5. ASSUME NEW r \in Runs, StopDispatch(r) \/ Collect(r) PROVE Kept
  BY <1>0, <1>5, SweepsLeftAlone DEF StopDispatch, Collect, Carrying, storeVars
<1>6. ASSUME UNCHANGED <<storeVars, pc, sweep, overlap>> PROVE Kept
  BY <1>0, <1>6 DEF storeVars, SweepsAreFinished, NothingOlder, UnderWay
<1>7. ASSUME NEW r \in Runs, FinishRun(r) PROVE Kept
  <2>1. \A q \in Runs : pc'[q] = IF q = r THEN "put" ELSE pc[q]
    BY <1>7, <1>a DEF FinishRun
  <2>2. /\ shown' = shown /\ disk' = disk /\ overlap' = overlap /\ pc[r] = "ran" /\ r \in UnderWay
        /\ sweeps' \in {sweeps, sweeps + 1}
        /\ \A q \in Runs : sweep'[q] = IF q = r THEN sweep'[r] ELSE sweep[q]
        /\ \/ sweeps' = sweeps /\ sweep'[r] = sweep[r]
           \/ sweeps' = sweeps + 1 /\ sweep'[r] = sweeps + 1
    BY <1>0, <1>7, <1>b DEF FinishRun, UnderWay
  <2> QED
    BY <1>0, <1>c, <2>1, <2>2 DEF SweepsAreFinished, NothingOlder, UnderWay, Carrying
<1>8. ASSUME NEW r \in Runs, Put(r) PROVE Kept
  <2>1. \A q \in Runs : pc'[q] = IF q = r THEN "persist" ELSE pc[q]
    BY <1>8, <1>a DEF Put
  <2>2. /\ disk' = disk /\ sweeps' = sweeps /\ overlap' = overlap /\ pc[r] = "put" /\ r \in UnderWay
        /\ shown' = (IF sweep[r] = 0 THEN shown ELSE sweep[r])
        /\ \A q \in Runs : sweep'[q] = IF q = r THEN shown' ELSE sweep[q]
    BY <1>8, <1>b DEF Put, UnderWay
  <2> QED
    BY <1>0, <1>c, <2>1, <2>2 DEF SweepsAreFinished, NothingOlder, UnderWay, Carrying
<1>9. ASSUME NEW r \in Runs, Persist(r) PROVE Kept
  <2>1. \A q \in Runs : pc'[q] = IF q = r THEN "done" ELSE pc[q]
    BY <1>9, <1>a DEF Persist
  <2>2. /\ shown' = shown /\ sweeps' = sweeps /\ sweep' = sweep /\ overlap' = overlap
        /\ pc[r] = "persist" /\ r \in UnderWay /\ disk' \in {disk, sweep[r]}
    BY <1>9 DEF Persist, UnderWay
  <2> QED
    BY <1>0, <1>c, <2>1, <2>2 DEF SweepsAreFinished, NothingOlder, UnderWay, Carrying
<1>10. ASSUME GetHealthReport PROVE Kept
  <2>1. /\ shown' = (IF shown = 0 THEN disk ELSE shown) /\ pc' = pc /\ disk' = disk /\ sweeps' = sweeps
        /\ sweep' = sweep /\ overlap' = overlap
    BY <1>10 DEF GetHealthReport, Hydrated
  <2> QED
    BY <1>0, <2>1 DEF SweepsAreFinished, NothingOlder, UnderWay, Carrying
<1>11. ASSUME Crash PROVE Kept
  <2>1. /\ \A q \in Runs : pc'[q] \in {"dead", "new", "done"}
        /\ shown' = 0 /\ disk' = disk /\ sweeps' = sweeps /\ sweep' = sweep /\ overlap' = overlap
    BY <1>0, <1>11 DEF Crash, UnderWay, TypeOK
  <2> QED
    BY <1>0, <2>1 DEF SweepsAreFinished, NothingOlder, UnderWay, Carrying
<1> QED
  <2>1. ASSUME NEW r \in Runs, NEW w \in 1 .. Workers, WorkerStep(r, w) PROVE Kept
    BY <1>6, <2>1 DEF WorkerStep, Dispatch, Probe, WorkerExit
  <2>2. ASSUME NEW r \in Runs, Expire(r) PROVE Kept
    BY <1>6, <2>2 DEF Expire
  <2>3. ASSUME UNCHANGED runsVars PROVE Kept
    BY <1>6, <2>3 DEF runsVars
  <2> HIDE DEF Kept
  <2>4. ASSUME NEW r \in Runs, HandlerStep(r) PROVE Kept
    BY <1>2, <1>3, <1>4, <1>5, <1>7, <1>8, <1>9, <2>4 DEF HandlerStep
  <2>5. Kept
    BY <1>1, <1>10, <1>11, <2>1, <2>2, <2>3, <2>4 DEF RunsNext
  <2> QED
    BY <2>5 DEF Kept

\* Checks that follow one another never put an older sweep into the database, over
\* crashes, failed writes and reports that carry copies (health.go 1196-1229,
\* 1298-1323).
THEOREM SweepsNeverGoBack == RunsSpec => StoredSweepIsKept
<1>1. RunsInv /\ [RunsNext]_runsVars => RunsInv'
  BY RunsTypes, CrewKept, SweepsKept DEF RunsInv
<1>2. RunsInv /\ [RunsNext]_runsVars => [~overlap' => disk' >= disk]_runsVars
  BY SweepsKept
<1> QED
  BY <1>1, <1>2, RunsInitially, PTL DEF RunsSpec, StoredSweepIsKept

\* What a run has when its workers have ended: a result for each of its models.
EveryModelReported ==
  \A r \in Runs : pc[r] = "ran" => \A i \in Tasks(r) : results[r][i] # "none"

\* No model is lost between the channel and the workers, wherever the deadline
\* falls: none is without a result when the pool has ended (health.go 676-742).
THEOREM RunsAreComplete == RunsSpec => []EveryModelReported
<1>1. RunsInv /\ [RunsNext]_runsVars => RunsInv'
  BY RunsTypes, CrewKept, SweepsKept DEF RunsInv
<1>2. RunsInv => EveryModelReported
  BY DEF RunsInv, CrewOK, EveryModelReported
<1> QED
  BY <1>1, <1>2, RunsInitially, PTL DEF RunsSpec
=============================================================================
