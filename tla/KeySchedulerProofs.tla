------------------------- MODULE KeySchedulerProofs -------------------------
(***************************************************************************)
(* The weighted scheduler implements the abstract pool for every set of    *)
(* keys, weights, limits and callers, its weights stay consistent, and its *)
(* round robin starves no key.  The inductive invariant of the first two   *)
(* is TypeOK /\ WeightsConsistent: the refinement needs the type of the    *)
(* slice, so that a round of candidates has a winner, and the type needs   *)
(* the sum of the candidates' weights.  The third needs to know what every *)
(* set of keys is owed together (FairInv).                                 *)
(***************************************************************************)
EXTENDS SchedulerFairness, FiniteSetTheorems, SequenceTheorems,
        WellFoundedInduction, TLAPS

-----------------------------------------------------------------------------
(* Sums over the slice.  Induction over data is replaced by the smallest   *)
(* counterexample, which the well-founded order of finite sets provides.   *)

\* Every non-empty set of natural numbers has a least element.
LEMMA LeastElement ==
  ASSUME NEW T, T \subseteq Nat, T # {}
  PROVE  \E x \in T : \A y \in T : x <= y
<1> DEFINE U == {0 .. x : x \in T}
<1>1. U \subseteq FiniteSubsetsOf(Nat) /\ U # {}
  <2>1. ASSUME NEW x \in T PROVE 0 .. x \in FiniteSubsetsOf(Nat)
    <3>1. x \in Int /\ 0 \in Int /\ 0 .. x \subseteq Nat
      OBVIOUS
    <3>2. IsFiniteSet(0 .. x)
      BY <3>1, FS_Interval
    <3> QED
      BY <3>1, <3>2 DEF FiniteSubsetsOf
  <2> QED
    BY <2>1
<1>2. PICK u \in U : \A v \in U : <<v, u>> \notin StrictSubsetOrdering(Nat)
  <2>1. IsWellFoundedOn(StrictSubsetOrdering(Nat), FiniteSubsetsOf(Nat))
    BY FS_StrictSubsetOrderingWellFounded
  <2> HIDE DEF U
  <2> QED
    BY <1>1, <2>1, WFMin
<1>3. PICK x \in T : u = 0 .. x
  BY <1>2
<1>4. ASSUME NEW y \in T, y < x PROVE FALSE
  <2>1. 0 .. y \subseteq u /\ 0 .. y # u /\ u \subseteq Nat
    <3>1. x \in u /\ x \notin 0 .. y
      BY <1>3, <1>4
    <3> QED
      BY <1>3, <1>4, <3>1
  <2> QED
    BY <1>2, <2>1 DEF StrictSubsetOrdering
<1> QED
  BY <1>4

\* A function that satisfies the recursive equation of a running total exists:
\* the least length without one would extend the total one shorter.
LEMMA RunningTotalExists ==
  ASSUME NEW N \in Nat, NEW w \in [1 .. N -> Int]
  PROVE  \E g \in [0 .. N -> Int] :
           g = [n \in 0 .. N |-> IF n = 0 THEN 0 ELSE g[n - 1] + w[n]]
<1> DEFINE IsTotal(g, n) ==
             \A i \in 0 .. n : g[i] = IF i = 0 THEN 0 ELSE g[i - 1] + w[i]
           Bad == {n \in 0 .. N : \A g \in [0 .. n -> Int] : ~IsTotal(g, n)}
<1>1. Bad = {}
  <2> SUFFICES ASSUME Bad # {} PROVE FALSE
    OBVIOUS
  <2>1. PICK m \in Bad : \A y \in Bad : m <= y
    <3>1. Bad \subseteq Nat
      OBVIOUS
    <3> HIDE DEF Bad
    <3> QED
      BY <3>1, LeastElement
  <2>2. m # 0
    <3>1. ASSUME m = 0 PROVE FALSE
      <4> DEFINE g == [i \in 0 .. 0 |-> 0]
      <4>1. g \in [0 .. 0 -> Int] /\ IsTotal(g, 0)
        OBVIOUS
      <4> QED
        BY <2>1, <3>1, <4>1
    <3> QED
      BY <3>1
  <2>3. m - 1 \in 0 .. N /\ m \in 1 .. N
    BY <2>1, <2>2
  <2>4. PICK g \in [0 .. m - 1 -> Int] : IsTotal(g, m - 1)
    <3>1. m - 1 \notin Bad
      <4>1. m \in Int /\ ~(m <= m - 1)
        BY <2>3
      <4> HIDE DEF Bad
      <4> QED
        BY <2>1, <4>1
    <3> QED
      BY <2>3, <3>1
  <2> DEFINE h == [i \in 0 .. m |-> IF i = m THEN g[m - 1] + w[m] ELSE g[i]]
  <2>5. h \in [0 .. m -> Int]
    BY <2>3
  <2>6. IsTotal(h, m)
    <3>1. h[m] = h[m - 1] + w[m]
      BY <2>2, <2>3
    <3>2. ASSUME NEW i \in 0 .. m - 1
          PROVE  h[i] = IF i = 0 THEN 0 ELSE h[i - 1] + w[i]
      <4>1. i \in 0 .. m /\ i # m /\ h[i] = g[i]
        BY <2>3
      <4>2. i # 0 => i - 1 \in 0 .. m /\ i - 1 # m /\ h[i - 1] = g[i - 1]
        BY <2>3
      <4> HIDE DEF h
      <4> QED
        BY <2>4, <4>1, <4>2
    <3>3. \A i \in 0 .. m : i = m \/ i \in 0 .. m - 1
      BY <2>3
    <3> HIDE DEF h
    <3> QED
      BY <2>2, <3>1, <3>2, <3>3
  <2> QED
    BY <2>1, <2>5, <2>6
<1>2. PICK g \in [0 .. N -> Int] : IsTotal(g, N)
  <2>1. N \in 0 .. N
    OBVIOUS
  <2> QED
    BY <1>1, <2>1
<1>3. g = [n \in 0 .. N |-> IF n = 0 THEN 0 ELSE g[n - 1] + w[n]]
  BY <1>2
<1> QED
  BY <1>3

\* What holds for 0 and is inherited holds up to n.
LEMMA UpTo ==
  ASSUME NEW n \in Nat, NEW P, 0 \in P, \A k \in 1 .. n : k - 1 \in P => k \in P
  PROVE  \A k \in 0 .. n : k \in P
<1> DEFINE T == {k \in 0 .. n : k \notin P}
<1> SUFFICES ASSUME T # {} PROVE FALSE
  OBVIOUS
<1>1. PICK x \in T : \A y \in T : x <= y
  <2>1. T \subseteq Nat
    OBVIOUS
  <2> HIDE DEF T
  <2> QED
    BY <2>1, LeastElement
<1>2. x \in 1 .. n /\ x - 1 \in 0 .. n /\ ~(x <= x - 1)
  BY <1>1
<1>3. x - 1 \in P
  BY <1>1, <1>2
<1> QED
  BY <1>1, <1>2, <1>3

\* The functions that are added up.
Values(N) == [1 .. N -> Int]

\* The sums of the first 0, 1, ... N values of f, and the last of them.
Prefix(f, N) == CHOOSE g : g = [n \in 0 .. N |-> IF n = 0 THEN 0 ELSE g[n - 1] + f[n]]
Sum(f, N) == Prefix(f, N)[N]

IsTotal(g, f, N) ==
  /\ g \in [0 .. N -> Int]
  /\ g[0] = 0
  /\ \A n \in 1 .. N : g[n] = g[n - 1] + f[n]

LEMMA PrefixIsTotal ==
  ASSUME NEW N \in Nat, NEW f \in Values(N)
  PROVE  IsTotal(Prefix(f, N), f, N) /\ Sum(f, N) \in Int
<1>1. PICK g \in [0 .. N -> Int] :
        g = [n \in 0 .. N |-> IF n = 0 THEN 0 ELSE g[n - 1] + f[n]]
  BY RunningTotalExists DEF Values
<1> DEFINE p == Prefix(f, N)
<1>2. p = [n \in 0 .. N |-> IF n = 0 THEN 0 ELSE p[n - 1] + f[n]]
  BY <1>1 DEF Prefix
<1> HIDE DEF p
<1> DEFINE P == {n \in 0 .. N : p[n] \in Int}
<1>3. \A n \in 0 .. N : n \in P
  <2>1. 0 \in P
    BY <1>2
  <2>2. \A n \in 1 .. N : n - 1 \in P => n \in P
    BY <1>2 DEF Values
  <2> HIDE DEF P
  <2> QED
    BY <2>1, <2>2, UpTo
<1>4. IsTotal(p, f, N) /\ p[N] \in Int
  BY <1>2, <1>3 DEF IsTotal
<1> QED
  BY <1>4 DEF p, Sum

\* There is one running total of f only, whatever way it is written.
LEMMA OneTotal ==
  ASSUME NEW N \in Nat, NEW f \in Values(N), NEW g, IsTotal(g, f, N)
  PROVE  Sum(f, N) = g[N]
<1> DEFINE p == Prefix(f, N)
           P == {n \in 0 .. N : p[n] = g[n]}
<1>1. IsTotal(p, f, N)
  BY PrefixIsTotal
<1> HIDE DEF p
<1>2. 0 \in P
  BY <1>1 DEF IsTotal, Values
<1>3. \A n \in 1 .. N : n - 1 \in P => n \in P
  BY <1>1 DEF IsTotal, Values
<1>4. N \in P
  <2> HIDE DEF P
  <2>1. \A n \in 0 .. N : n \in P
    BY <1>2, <1>3, UpTo
  <2> QED
    BY <2>1
<1> QED
  BY <1>4 DEF p, Sum

LEMMA SumAdds ==
  ASSUME NEW N \in Nat, NEW f \in Values(N), NEW g \in Values(N),
         NEW h \in Values(N), \A i \in 1 .. N : h[i] = f[i] + g[i]
  PROVE  Sum(h, N) = Sum(f, N) + Sum(g, N)
<1> DEFINE p == Prefix(f, N)
           q == Prefix(g, N)
           t == [n \in 0 .. N |-> p[n] + q[n]]
<1>1. IsTotal(p, f, N) /\ IsTotal(q, g, N)
  BY PrefixIsTotal
<1>2. p[N] = Sum(f, N) /\ q[N] = Sum(g, N)
  BY DEF Sum
<1> HIDE DEF p, q
<1>3. IsTotal(t, h, N)
  BY <1>1 DEF IsTotal, Values
<1>4. t[N] = Sum(f, N) + Sum(g, N)
  BY <1>2
<1> HIDE DEF t
<1> QED
  BY <1>3, <1>4, OneTotal

LEMMA SumScales ==
  ASSUME NEW N \in Nat, NEW f \in Values(N), NEW k \in Int,
         NEW h \in Values(N), \A i \in 1 .. N : h[i] = k * f[i]
  PROVE  Sum(h, N) = k * Sum(f, N)
<1> DEFINE p == Prefix(f, N)
           t == [n \in 0 .. N |-> k * p[n]]
<1>1. IsTotal(p, f, N)
  BY PrefixIsTotal
<1>2. p[N] = Sum(f, N)
  BY DEF Sum
<1> HIDE DEF p
<1>3. IsTotal(t, h, N)
  <2>1. \A x, y \in Int : k * (x + y) = k * x + k * y /\ k * x \in Int
    OBVIOUS
  <2>2. t \in [0 .. N -> Int] /\ t[0] = 0
    BY <1>1 DEF IsTotal, Values
  <2>3. ASSUME NEW n \in 1 .. N PROVE t[n] = t[n - 1] + h[n]
    <3>1. p[n] = p[n - 1] + f[n] /\ p[n - 1] \in Int /\ f[n] \in Int /\ n - 1 \in 0 .. N
      BY <1>1 DEF IsTotal, Values
    <3>2. k * p[n] = k * p[n - 1] + k * f[n]
      BY <2>1, <3>1
    <3> QED
      BY <3>1, <3>2
  <2> HIDE DEF t
  <2> QED
    BY <2>2, <2>3 DEF IsTotal
<1>4. t[N] = k * Sum(f, N)
  BY <1>2
<1> HIDE DEF t
<1> QED
  BY <1>3, <1>4, OneTotal

LEMMA SumOfNaturals ==
  ASSUME NEW N \in Nat, NEW f \in Values(N), \A i \in 1 .. N : f[i] >= 0
  PROVE  Sum(f, N) >= 0
<1> DEFINE p == Prefix(f, N)
           P == {n \in 0 .. N : p[n] >= 0}
<1>1. IsTotal(p, f, N)
  BY PrefixIsTotal
<1> HIDE DEF p
<1>2. 0 \in P
  BY <1>1 DEF IsTotal, Values
<1>3. \A n \in 1 .. N : n - 1 \in P => n \in P
  BY <1>1 DEF IsTotal, Values
<1>4. N \in P
  <2> HIDE DEF P
  <2>1. \A n \in 0 .. N : n \in P
    BY <1>2, <1>3, UpTo
  <2> QED
    BY <2>1
<1> QED
  BY <1>4 DEF p, Sum

LEMMA SumOfOne ==
  ASSUME NEW N \in Nat, NEW f \in Values(N), NEW j \in 1 .. N,
         \A i \in 1 .. N : i # j => f[i] = 0
  PROVE  Sum(f, N) = f[j]
<1> DEFINE t == [n \in 0 .. N |-> IF n < j THEN 0 ELSE f[j]]
<1>1. IsTotal(t, f, N)
  BY DEF IsTotal, Values
<1>2. t[N] = f[j]
  OBVIOUS
<1> HIDE DEF t
<1> QED
  BY <1>1, <1>2, OneTotal

\* Ones add up to the length, and a last 0 adds nothing.
LEMMA SumOfOnes ==
  ASSUME NEW N \in Nat
  PROVE  Sum([i \in 1 .. N |-> 1], N) = N
<1> DEFINE f == [i \in 1 .. N |-> 1]
           t == [n \in 0 .. N |-> n]
<1>1. IsTotal(t, f, N) /\ f \in Values(N) /\ t[N] = N
  BY DEF IsTotal, Values
<1> HIDE DEF f, t
<1> QED
  BY <1>1, OneTotal DEF f

LEMMA SumExtends ==
  ASSUME NEW N \in Nat, NEW f \in Values(N), NEW h \in Values(N + 1),
         \A i \in 1 .. N : h[i] = f[i]
  PROVE  Sum(h, N + 1) = Sum(f, N) + h[N + 1]
<1> DEFINE p == Prefix(f, N)
           t == [n \in 0 .. N + 1 |-> IF n = N + 1 THEN p[N] + h[N + 1] ELSE p[n]]
<1>1. IsTotal(p, f, N)
  BY PrefixIsTotal
<1>2. p[N] = Sum(f, N)
  BY DEF Sum
<1> HIDE DEF p
<1>3. IsTotal(t, h, N + 1)
  BY <1>1 DEF IsTotal, Values
<1>4. t[N + 1] = Sum(f, N) + h[N + 1]
  BY <1>2
<1> HIDE DEF t
<1> QED
  BY <1>3, <1>4, OneTotal

-----------------------------------------------------------------------------
(* Sums over a set of positions.                                           *)

Only(f, S, N) == [i \in 1 .. N |-> IF i \in S THEN f[i] ELSE 0]
Over(f, S, N) == Sum(Only(f, S, N), N)
Size(S, N) == Over([i \in 1 .. N |-> 1], S, N)

\* What is said of the values at a set of positions.
Adds(h, f, g, A, N) == \A i \in A \cap (1 .. N) : h[i] = f[i] + g[i]
AtMost(f, k, A, N) == \A i \in A \cap (1 .. N) : f[i] <= k

LEMMA OverType ==
  ASSUME NEW N \in Nat, NEW f \in Values(N), NEW S
  PROVE  Only(f, S, N) \in Values(N) /\ Over(f, S, N) \in Int
<1>1. Only(f, S, N) \in Values(N)
  BY DEF Only, Values
<1> QED
  BY <1>1, PrefixIsTotal DEF Over

LEMMA OverJoins ==
  ASSUME NEW N \in Nat, NEW f \in Values(N), NEW A, NEW B, A \cap B = {}
  PROVE  Over(f, A \cup B, N) = Over(f, A, N) + Over(f, B, N)
<1>1. \A i \in 1 .. N : Only(f, A \cup B, N)[i] = Only(f, A, N)[i] + Only(f, B, N)[i]
  BY DEF Only, Values
<1> QED
  BY <1>1, OverType, SumAdds DEF Over

LEMMA OverOne ==
  ASSUME NEW N \in Nat, NEW f \in Values(N), NEW j \in 1 .. N
  PROVE  Over(f, {j}, N) = f[j]
<1>1. \A i \in 1 .. N : i # j => Only(f, {j}, N)[i] = 0
  BY DEF Only
<1>2. Only(f, {j}, N)[j] = f[j]
  BY DEF Only
<1> QED
  BY <1>1, <1>2, OverType, SumOfOne DEF Over

LEMMA OverSame ==
  ASSUME NEW N \in Nat, NEW f, NEW g, NEW A, \A i \in A \cap (1 .. N) : f[i] = g[i]
  PROVE  Over(f, A, N) = Over(g, A, N)
<1>1. Only(f, A, N) = Only(g, A, N)
  BY DEF Only
<1> QED
  BY <1>1 DEF Over

LEMMA OverAdds ==
  ASSUME NEW N \in Nat, NEW f \in Values(N), NEW g \in Values(N),
         NEW h \in Values(N), NEW A, Adds(h, f, g, A, N)
  PROVE  Over(h, A, N) = Over(f, A, N) + Over(g, A, N)
<1> DEFINE u == Only(f, A, N)
           v == Only(g, A, N)
           t == Only(h, A, N)
<1>1. ASSUME NEW i \in 1 .. N PROVE t[i] = u[i] + v[i]
  <2>1. CASE i \in A
    <3>1. h[i] = f[i] + g[i]
      BY <2>1 DEF Adds
    <3> QED
      BY <2>1, <3>1 DEF Only
  <2>2. CASE i \notin A
    BY <2>2 DEF Only
  <2> QED
    BY <2>1, <2>2
<1>2. u \in Values(N) /\ v \in Values(N) /\ t \in Values(N)
  BY OverType
<1> HIDE DEF u, v, t
<1>3. Sum(t, N) = Sum(u, N) + Sum(v, N)
  BY <1>1, <1>2, SumAdds
<1> QED
  BY <1>3 DEF Over, u, v, t

LEMMA OverOfNaturals ==
  ASSUME NEW N \in Nat, NEW f \in Values(N), NEW A,
         \A i \in A \cap (1 .. N) : f[i] >= 0
  PROVE  Over(f, A, N) >= 0
<1>1. \A i \in 1 .. N : Only(f, A, N)[i] >= 0
  BY DEF Only
<1> QED
  BY <1>1, OverType, SumOfNaturals DEF Over

LEMMA SizeType ==
  ASSUME NEW N \in Nat, NEW A
  PROVE  Size(A, N) \in Nat
<1> DEFINE one == [i \in 1 .. N |-> 1]
<1>1. one \in Values(N) /\ \A i \in 1 .. N : one[i] = 1
  BY DEF Values
<1> HIDE DEF one
<1>2. Over(one, A, N) \in Int /\ Over(one, A, N) >= 0
  BY <1>1, OverType, OverOfNaturals
<1> QED
  BY <1>2 DEF Size, one

LEMMA SizeJoins ==
  ASSUME NEW N \in Nat, NEW A, NEW B, A \cap B = {}
  PROVE  Size(A \cup B, N) = Size(A, N) + Size(B, N)
<1> DEFINE one == [i \in 1 .. N |-> 1]
<1>1. one \in Values(N)
  BY DEF Values
<1> HIDE DEF one
<1>2. Over(one, A \cup B, N) = Over(one, A, N) + Over(one, B, N)
  BY <1>1, OverJoins
<1> QED
  BY <1>2 DEF Size, one

LEMMA SizeOne ==
  ASSUME NEW N \in Nat, NEW j \in 1 .. N
  PROVE  Size({j}, N) = 1
<1> DEFINE one == [i \in 1 .. N |-> 1]
<1>1. one \in Values(N) /\ one[j] = 1
  BY DEF Values
<1> HIDE DEF one
<1>2. Over(one, {j}, N) = 1
  BY <1>1, OverOne
<1> QED
  BY <1>2 DEF Size, one

\* A sum is at most the largest value times the number of positions.
LEMMA OverIsAtMost ==
  ASSUME NEW N \in Nat, NEW f \in Values(N), NEW A, NEW k \in Int,
         AtMost(f, k, A, N)
  PROVE  Over(f, A, N) <= k * Size(A, N)
<1> DEFINE one == [i \in 1 .. N |-> 1]
           all == [i \in 1 .. N |-> k]
           rest == [i \in 1 .. N |-> k - f[i]]
<1>1. one \in Values(N) /\ all \in Values(N) /\ rest \in Values(N)
  BY DEF Values
<1>2. Over(all, A, N) = k * Size(A, N)
  <2>1. \A i \in 1 .. N : Only(all, A, N)[i] = k * Only(one, A, N)[i]
    BY DEF Only
  <2>2. Only(all, A, N) \in Values(N) /\ Only(one, A, N) \in Values(N)
    BY <1>1, OverType
  <2> HIDE DEF all
  <2>3. Sum(Only(all, A, N), N) = k * Sum(Only(one, A, N), N)
    BY <2>1, <2>2, SumScales
  <2> QED
    BY <2>3 DEF Over, Size
<1>3. Adds(all, f, rest, A, N) /\ \A i \in A \cap (1 .. N) : rest[i] >= 0
  <2> SUFFICES ASSUME NEW i \in A \cap (1 .. N)
               PROVE  all[i] = f[i] + rest[i] /\ rest[i] >= 0
    BY DEF Adds
  <2>1. f[i] \in Int /\ all[i] = k /\ rest[i] = k - f[i] /\ f[i] <= k
    BY DEF AtMost, Values
  <2> HIDE DEF all, rest
  <2> QED
    BY <2>1
<1> HIDE DEF all, rest, one
<1>5. Over(all, A, N) = Over(f, A, N) + Over(rest, A, N)
  BY <1>1, <1>3, OverAdds
<1>6. Over(rest, A, N) >= 0 /\ Over(rest, A, N) \in Int /\ Over(f, A, N) \in Int
  BY <1>1, <1>3, OverOfNaturals, OverType
<1> QED
  BY <1>2, <1>5, <1>6

LEMMA SizeIsAtMost ==
  ASSUME NEW N \in Nat, NEW A
  PROVE  Size(A, N) <= N
<1> DEFINE one == [i \in 1 .. N |-> 1]
<1>1. one \in Values(N)
  BY DEF Values
<1>2. Size(A \cup (1 .. N), N) = N
  <2>1. Only(one, A \cup (1 .. N), N) = one
    BY DEF Only
  <2> QED
    BY <2>1, SumOfOnes DEF Size, Over
<1>3. Size(A \cup (1 .. N), N) = Size(A, N) + Size((1 .. N) \ A, N)
  <2>1. A \cup (1 .. N) = A \cup ((1 .. N) \ A) /\ A \cap ((1 .. N) \ A) = {}
    OBVIOUS
  <2> QED
    BY <2>1, SizeJoins
<1>4. Size(A, N) \in Nat /\ Size((1 .. N) \ A, N) \in Nat
  BY SizeType
<1> QED
  BY <1>2, <1>3, <1>4

LEMMA OverExtends ==
  ASSUME NEW N \in Nat, NEW f \in Values(N), NEW h \in Values(N + 1),
         NEW S, \A i \in 1 .. N : h[i] = f[i]
  PROVE  Over(h, S, N + 1) =
           Over(f, S, N) + (IF N + 1 \in S THEN h[N + 1] ELSE 0)
<1> DEFINE u == Only(f, S, N)
           v == Only(h, S, N + 1)
<1>1. u \in Values(N) /\ v \in Values(N + 1)
  BY DEF Only, Values
<1>2. \A i \in 1 .. N : v[i] = u[i]
  BY DEF Only
<1>3. v[N + 1] = IF N + 1 \in S THEN h[N + 1] ELSE 0
  BY DEF Only
<1> HIDE DEF u, v
<1>4. Sum(v, N + 1) = Sum(u, N) + v[N + 1]
  BY <1>1, <1>2, SumExtends
<1> QED
  BY <1>3, <1>4 DEF Over, u, v

LEMMA SizeExtends ==
  ASSUME NEW N \in Nat, NEW S
  PROVE  Size(S, N + 1) = Size(S, N) + (IF N + 1 \in S THEN 1 ELSE 0)
<1> DEFINE f == [i \in 1 .. N |-> 1]
           h == [i \in 1 .. N + 1 |-> 1]
<1>1. f \in Values(N) /\ h \in Values(N + 1) /\ h[N + 1] = 1
      /\ \A i \in 1 .. N : h[i] = f[i]
  BY DEF Values
<1> HIDE DEF f, h
<1>2. Over(h, S, N + 1) = Over(f, S, N) + (IF N + 1 \in S THEN h[N + 1] ELSE 0)
  BY <1>1, OverExtends
<1> QED
  BY <1>1, <1>2 DEF Size, f, h

-----------------------------------------------------------------------------
(* The slice as values at positions.                                       *)

Credits == [i \in 1 .. Len(slots) |-> slots[i].currentWeight]
Loads == [i \in 1 .. Len(slots) |-> slots[i].weight]

LEMMA SliceValues ==
  ASSUME slots \in Seq(Slot)
  PROVE  /\ Len(slots) \in Nat /\ DOMAIN slots = 1 .. Len(slots)
         /\ Credits \in Values(Len(slots)) /\ Loads \in Values(Len(slots))
<1>1. Len(slots) \in Nat /\ DOMAIN slots = 1 .. Len(slots)
  BY LenProperties
<1>2. ASSUME NEW i \in 1 .. Len(slots)
      PROVE  slots[i].currentWeight \in Int /\ slots[i].weight \in Int
  <2>1. slots[i] \in Slot
    BY <1>2, ElementOfSeq
  <2> QED
    BY <2>1 DEF Slot
<1> QED
  BY <1>1, <1>2 DEF Credits, Loads, Values

\* The loop of a round adds up the weights of the candidates.
LEMMA TotalWeightIsSum ==
  ASSUME slots \in Seq(Slot), NEW E
  PROVE  TotalWeight(E) = Over(Loads, E, Len(slots))
<1> DEFINE N == Len(slots)
           w == [i \in DOMAIN slots |-> IF i \in E THEN slots[i].weight ELSE 0]
<1>1. w = Only(Loads, E, N)
  BY SliceValues DEF Only, Loads
<1>2. TotalWeight(E) = Sum(w, N)
  BY DEF TotalWeight, Sum, Prefix
<1> QED
  BY <1>1, <1>2 DEF Over

LEMMA TotalWeightType ==
  ASSUME slots \in Seq(Slot), NEW E
  PROVE  TotalWeight(E) \in Int
BY SliceValues, TotalWeightIsSum, OverType

-----------------------------------------------------------------------------
(* The winner of a round.                                                  *)

\* A round with candidates has a winner among them: the candidate that is
\* beaten by the fewest others is beaten by none.
LEMMA SelectedIsCandidate ==
  ASSUME slots \in Seq(Slot), NEW E, E \subseteq DOMAIN slots, E # {}
  PROVE  /\ Selected(E) \in E
         /\ \A j \in E : Raised(j) <= Raised(Selected(E))
<1> DEFINE Beats(j, i) == Raised(i) < Raised(j) \/ (Raised(i) = Raised(j) /\ j < i)
           Winners(i) == {j \in E : Beats(j, i)}
           U == {Winners(i) : i \in E}
<1>1. DOMAIN slots = 1 .. Len(slots) /\ Len(slots) \in Nat
  BY LenProperties
<1>2. \A i \in E : Raised(i) \in Int /\ i \in Int
  <2> SUFFICES ASSUME NEW i \in E PROVE Raised(i) \in Int /\ i \in Int
    OBVIOUS
  <2>1. slots[i] \in Slot
    BY <1>1, ElementOfSeq
  <2> QED
    BY <1>1, <2>1 DEF Raised, Slot
<1>3. U \subseteq FiniteSubsetsOf(E) /\ U # {}
  <2>1. IsFiniteSet(E)
    <3>1. IsFiniteSet(1 .. Len(slots))
      BY <1>1, FS_Interval
    <3> QED
      BY <1>1, <3>1, FS_Subset
  <2>2. ASSUME NEW i \in E PROVE Winners(i) \in FiniteSubsetsOf(E)
    <3>1. Winners(i) \in SUBSET E
      OBVIOUS
    <3> HIDE DEF Winners
    <3> QED
      BY <2>1, <3>1, FS_Subset DEF FiniteSubsetsOf
  <2> HIDE DEF Winners
  <2> QED
    BY <2>2
<1>4. PICK u \in U : \A v \in U : <<v, u>> \notin StrictSubsetOrdering(E)
  <2>1. IsWellFoundedOn(StrictSubsetOrdering(E), FiniteSubsetsOf(E))
    BY FS_StrictSubsetOrderingWellFounded
  <2> HIDE DEF U
  <2> QED
    BY <1>3, <2>1, WFMin
<1>5. PICK i \in E : u = Winners(i)
  BY <1>4
<1>6. ASSUME NEW j \in E, Beats(j, i) PROVE FALSE
  <2>1. Winners(j) \subseteq Winners(i)
    BY <1>2, <1>6
  <2>2. j \in Winners(i) /\ j \notin Winners(j)
    BY <1>2, <1>6
  <2>3. <<Winners(j), Winners(i)>> \in StrictSubsetOrdering(E)
    <3>1. Winners(i) \in SUBSET E /\ Winners(j) \in SUBSET E
      OBVIOUS
    <3> HIDE DEF Winners
    <3> QED
      BY <2>1, <2>2, <3>1 DEF StrictSubsetOrdering
  <2> HIDE DEF Winners
  <2> QED
    BY <1>4, <1>5, <2>3
<1>7. \A j \in E : Raised(j) < Raised(i) \/ (Raised(j) = Raised(i) /\ i <= j)
  BY <1>2, <1>6
<1> HIDE DEF Beats, Winners, U
<1>8. /\ Selected(E) \in E
      /\ \A j \in E : \/ Raised(j) < Raised(Selected(E))
                      \/ Raised(j) = Raised(Selected(E)) /\ Selected(E) <= j
  BY <1>7 DEF Selected
<1> QED
  BY <1>2, <1>8

-----------------------------------------------------------------------------
(* What the steps do to the slice.                                         *)

Consistent(s) ==
  /\ s.healthMult \in MinMultiplier .. MaxMultiplier
  /\ s.weight = s.baseWeight * s.healthMult

\* A step that rewrites the slots in place, consistently and without touching
\* their keys, preserves type and consistency and registers nobody.
LEMMA InPlace ==
  ASSUME TypeOK, WeightsConsistent, NEW f \in [DOMAIN slots -> Slot], slots' = f,
         \A i \in DOMAIN slots : f[i].key = slots[i].key /\ Consistent(f[i])
  PROVE  slots' \in Seq(Slot) /\ WeightsConsistent' /\ ActiveKeys' = ActiveKeys
<1>1. DOMAIN slots = 1 .. Len(slots) /\ Len(slots) \in Nat
  BY LenProperties DEF TypeOK
<1>2. DOMAIN slots' = DOMAIN slots
  OBVIOUS
<1>3. slots' \in Seq(Slot)
  BY <1>1
<1>4. ActiveKeys' = ActiveKeys
  BY <1>2 DEF ActiveKeys
<1>5. WeightsConsistent'
  BY <1>2 DEF WeightsConsistent, Consistent
<1> QED
  BY <1>3, <1>4, <1>5

\* Each slot of a consistent slice is a well-typed, consistent record.
LEMMA SlotsAre ==
  ASSUME TypeOK, WeightsConsistent, NEW i \in DOMAIN slots
  PROVE  slots[i] \in Slot /\ Consistent(slots[i])
<1>1. slots[i] \in Slot
  BY LenProperties, ElementOfSeq DEF TypeOK
<1> QED
  BY <1>1 DEF WeightsConsistent, Consistent

\* Clamping brings every multiplier into its band.
LEMMA Clamped ==
  ASSUME NEW x \in Nat
  PROVE  clampHealthMultiplier(x) \in MinMultiplier .. MaxMultiplier
BY DEF clampHealthMultiplier, MinMultiplier, MaxMultiplier

\* The round keeps slots and weights, and changes credits only.
LEMMA RoundSlice ==
  ASSUME TypeOK, WeightsConsistent, NEW E, E \subseteq DOMAIN slots, E # {},
         slots' = AfterRound(E)
  PROVE  slots' \in Seq(Slot) /\ WeightsConsistent' /\ ActiveKeys' = ActiveKeys
<1>1. TotalWeight(E) \in Int
  BY TotalWeightType DEF TypeOK
<1>2. ASSUME NEW i \in DOMAIN slots
      PROVE  /\ AfterRound(E)[i] \in Slot
             /\ AfterRound(E)[i].key = slots[i].key
             /\ Consistent(AfterRound(E)[i])
  <2>1. slots[i] \in Slot /\ Consistent(slots[i])
    BY SlotsAre
  <2>2. Raised(i) \in Int /\ Raised(i) - TotalWeight(E) \in Int
    BY <1>1, <2>1 DEF Raised, Slot
  <2>3. \A z \in Int : LET s == [slots[i] EXCEPT !.currentWeight = z]
                       IN s \in Slot /\ s.key = slots[i].key /\ Consistent(s)
    BY <2>1 DEF Slot, Consistent
  <2>4. AfterRound(E)[i] =
          IF i \notin E THEN slots[i]
          ELSE [slots[i] EXCEPT !.currentWeight =
                  IF i = Selected(E) THEN Raised(i) - TotalWeight(E) ELSE Raised(i)]
    BY DEF AfterRound
  <2> QED
    BY <2>1, <2>2, <2>3, <2>4
<1>3. AfterRound(E) \in [DOMAIN slots -> Slot]
  <2>1. AfterRound(E) = [i \in DOMAIN slots |-> AfterRound(E)[i]]
    BY DEF AfterRound
  <2> QED
    BY <1>2, <2>1
<1> QED
  BY <1>2, <1>3, InPlace

\* Registering a key again changes its base weight, registering a new one adds
\* a slot with the neutral multiplier; no key is registered twice.
LEMMA AddSlice ==
  ASSUME TypeOK, WeightsConsistent, NEW k \in Keys, NEW w \in BaseWeights,
         AddKey(k, w)
  PROVE  slots' \in Seq(Slot) /\ WeightsConsistent' /\ ActiveKeys' = ActiveKeys \cup {k}
<1>1. w \in Nat
  BY SchedulerAssumption
<1>2. CASE k \in ActiveKeys
  <2> DEFINE f == [i \in DOMAIN slots |->
                     IF slots[i].key # k THEN slots[i]
                     ELSE [slots[i] EXCEPT !.baseWeight = w,
                                           !.weight = w * slots[i].healthMult]]
  <2>1. slots' = f
    BY <1>2 DEF AddKey
  <2>2. ASSUME NEW i \in DOMAIN slots
        PROVE  f[i] \in Slot /\ f[i].key = slots[i].key /\ Consistent(f[i])
    <3>1. slots[i] \in Slot /\ Consistent(slots[i])
      BY SlotsAre
    <3>2. slots[i].healthMult \in Nat /\ w * slots[i].healthMult \in Nat
      BY <1>1, <3>1 DEF Slot
    <3> QED
      BY <1>1, <3>1, <3>2 DEF Slot, Consistent
  <2>3. f \in [DOMAIN slots -> Slot]
    BY <2>2
  <2> HIDE DEF f
  <2>4. slots' \in Seq(Slot) /\ WeightsConsistent' /\ ActiveKeys' = ActiveKeys
    BY <2>1, <2>2, <2>3, InPlace
  <2> QED
    BY <1>2, <2>4
<1>3. CASE k \notin ActiveKeys
  <2> DEFINE s == [key |-> k, baseWeight |-> w, healthMult |-> Neutral,
                   weight |-> w * Neutral, currentWeight |-> 0]
  <2>1. slots' = Append(slots, s)
    BY <1>3 DEF AddKey
  <2>2. s \in Slot /\ s.key = k /\ Consistent(s)
    BY <1>1 DEF Slot, Consistent, Neutral, MinMultiplier, MaxMultiplier
  <2> HIDE DEF s
  <2>3. /\ slots' \in Seq(Slot)
        /\ Len(slots) \in Nat
        /\ DOMAIN slots = 1 .. Len(slots)
        /\ DOMAIN slots' = 1 .. Len(slots) + 1
        /\ slots'[Len(slots) + 1] = s
        /\ \A i \in DOMAIN slots : slots'[i] = slots[i]
    BY <2>1, <2>2 DEF TypeOK
  <2>4. ActiveKeys' = ActiveKeys \cup {k}
    <3>1. \A i \in DOMAIN slots' : i \in DOMAIN slots \/ i = Len(slots) + 1
      BY <2>3
    <3>2. DOMAIN slots \subseteq DOMAIN slots' /\ Len(slots) + 1 \in DOMAIN slots'
      BY <2>3
    <3> QED
      BY <2>2, <2>3, <3>1, <3>2 DEF ActiveKeys
  <2>5. WeightsConsistent'
    <3>1. \A i \in DOMAIN slots' : i \in DOMAIN slots \/ i = Len(slots) + 1
      BY <2>3
    <3>2. \A i \in DOMAIN slots : slots'[i].key # k
      BY <1>3, <2>3 DEF ActiveKeys
    <3>3. \A i, j \in DOMAIN slots' : slots'[i].key = slots'[j].key => i = j
      BY <2>2, <2>3, <3>1, <3>2 DEF WeightsConsistent
    <3>4. \A i \in DOMAIN slots' : Consistent(slots'[i])
      BY <2>2, <2>3, <3>1, SlotsAre
    <3> QED
      BY <3>3, <3>4 DEF WeightsConsistent, Consistent
  <2> QED
    BY <2>3, <2>4, <2>5
<1> QED
  BY <1>2, <1>3

\* A new multiplier changes the weight of a registered key, from its base.
LEMMA MultiplierSlice ==
  ASSUME TypeOK, WeightsConsistent, NEW k \in Keys, NEW x \in Multipliers,
         SetHealthMultiplier(k, x)
  PROVE  slots' \in Seq(Slot) /\ WeightsConsistent' /\ ActiveKeys' = ActiveKeys
<1> DEFINE y == clampHealthMultiplier(x)
           f == [i \in DOMAIN slots |->
                   IF slots[i].key # k THEN slots[i]
                   ELSE [slots[i] EXCEPT !.healthMult = y,
                                         !.weight = slots[i].baseWeight * y]]
<1>1. slots' = f
  BY DEF SetHealthMultiplier
<1>2. y \in MinMultiplier .. MaxMultiplier /\ y \in Nat
  <2>1. x \in Nat
    BY SchedulerAssumption
  <2> QED
    BY <2>1, Clamped DEF MinMultiplier, MaxMultiplier
<1> HIDE DEF y
<1>3. ASSUME NEW i \in DOMAIN slots
      PROVE  f[i] \in Slot /\ f[i].key = slots[i].key /\ Consistent(f[i])
  <2>1. slots[i] \in Slot /\ Consistent(slots[i])
    BY SlotsAre
  <2>2. slots[i].baseWeight * y \in Nat
    BY <1>2, <2>1 DEF Slot
  <2> QED
    BY <1>2, <2>1, <2>2 DEF Slot, Consistent
<1>4. f \in [DOMAIN slots -> Slot]
  BY <1>3
<1> HIDE DEF f
<1> QED
  BY <1>1, <1>3, <1>4, InPlace

\* A dead mark clears the credit of the key.
LEMMA DeadSlice ==
  ASSUME TypeOK, WeightsConsistent, NEW k \in Keys, MarkDead(k)
  PROVE  slots' \in Seq(Slot) /\ WeightsConsistent' /\ ActiveKeys' = ActiveKeys
<1> DEFINE f == [i \in DOMAIN slots |->
                   IF slots[i].key # k THEN slots[i]
                   ELSE [slots[i] EXCEPT !.currentWeight = 0]]
<1>1. slots' = f
  BY DEF MarkDead
<1>2. ASSUME NEW i \in DOMAIN slots
      PROVE  f[i] \in Slot /\ f[i].key = slots[i].key /\ Consistent(f[i])
  <2>1. slots[i] \in Slot /\ Consistent(slots[i])
    BY SlotsAre
  <2> QED
    BY <2>1 DEF Slot, Consistent
<1>3. f \in [DOMAIN slots -> Slot]
  BY <1>2
<1> HIDE DEF f
<1> QED
  BY <1>1, <1>2, <1>3, InPlace

-----------------------------------------------------------------------------
(* Steps of the scheduler are steps of the pool.                           *)

\* A round hands out an eligible key, or finds that there is none.
LEMMA AcquireStep ==
  ASSUME TypeOK, WeightsConsistent, NEW c \in Callers,
         NEW m \in Models \cup {NoModel}, NEW limit \in Limits, AcquireKey(c, m, limit)
  PROVE  /\ slots' \in Seq(Slot) /\ WeightsConsistent' /\ ActiveKeys' = ActiveKeys
         /\ \/ Pool!AcquireNone(c, m, limit)
            \/ \E k \in Keys : Pool!AcquireSome(c, k, m, limit)
<1> DEFINE E == Candidates(m, limit)
<1>1. E \subseteq DOMAIN slots
  BY DEF Candidates
<1>2. CASE E = {}
  <2>1. slots' = slots /\ concurrency' = concurrency /\ holds' = holds
    BY <1>2 DEF AcquireKey
  <2>2. ASSUME NEW k \in Keys PROVE ~Pool!Eligible(k, m, limit)
    BY <1>2 DEF Candidates, Pool!Eligible, ActiveKeys
  <2>3. ActiveKeys' = ActiveKeys /\ WeightsConsistent'
    BY <2>1 DEF ActiveKeys, WeightsConsistent
  <2>4. Pool!AcquireNone(c, m, limit)
    BY <2>1, <2>2, <2>3 DEF AcquireKey, Pool!AcquireNone
  <2> QED
    BY <2>1, <2>3, <2>4 DEF TypeOK
<1>3. CASE E # {}
  <2> DEFINE k == slots[Selected(E)].key
  <2>1. Selected(E) \in E
    BY <1>1, <1>3, SelectedIsCandidate DEF TypeOK
  <2>2. k \in Keys /\ Pool!Eligible(k, m, limit)
    <3>1. slots[Selected(E)] \in Slot
      BY <1>1, <2>1, SlotsAre
    <3> QED
      BY <2>1, <3>1 DEF Candidates, Slot
  <2>3. Pool!Grant(c, k) /\ slots' = AfterRound(E)
    BY <1>3 DEF AcquireKey
  <2> HIDE DEF E
  <2>4. slots' \in Seq(Slot) /\ WeightsConsistent' /\ ActiveKeys' = ActiveKeys
    BY <1>1, <1>3, <2>3, RoundSlice
  <2> HIDE DEF k
  <2>5. Pool!AcquireSome(c, k, m, limit)
    BY <2>2, <2>3, <2>4 DEF AcquireKey, Pool!AcquireSome
  <2> QED
    BY <2>2, <2>4, <2>5
<1> QED
  BY <1>2, <1>3

\* What leaves the slice alone leaves its type, consistency and keys alone.
LEMMA SameSlice ==
  ASSUME TypeOK, WeightsConsistent, slots' = slots
  PROVE  slots' \in Seq(Slot) /\ WeightsConsistent' /\ ActiveKeys' = ActiveKeys
BY DEF TypeOK, WeightsConsistent, ActiveKeys

\* Every step keeps the slice typed and consistent, and is a step of the pool
\* or leaves it unchanged.
LEMMA StepSimulates ==
  ASSUME TypeOK, WeightsConsistent, [Next]_vars
  PROVE  /\ slots' \in Seq(Slot) /\ WeightsConsistent'
         /\ [Pool!PoolNext]_(Pool!poolVars)
<1> DEFINE Goal == /\ slots' \in Seq(Slot) /\ WeightsConsistent'
                   /\ [Pool!PoolNext]_(Pool!poolVars)
<1> SUFFICES Goal
  OBVIOUS
<1>1. ASSUME NEW c \in Callers, NEW m \in Models \cup {NoModel}, NEW limit \in Limits,
             AcquireKey(c, m, limit)
      PROVE  Goal
  BY <1>1, AcquireStep DEF Pool!PoolNext
<1>2. ASSUME NEW c \in Callers, NEW k \in Keys, NEW m \in Models \cup {NoModel},
             NEW limit \in Limits, TryAcquireSpecificKey(c, k, m, limit)
      PROVE  Goal
  BY <1>2, SameSlice DEF TryAcquireSpecificKey, Pool!PoolNext
<1>3. ASSUME NEW c \in Callers, ReleaseKey(c) PROVE Goal
  BY <1>3, SameSlice DEF ReleaseKey, Pool!PoolNext
<1>4. ASSUME NEW k \in Keys, NEW d \in Durations, MarkCooling(k, d) PROVE Goal
  BY <1>4, SameSlice DEF MarkCooling, Pool!PoolNext
<1>5. ASSUME NEW k \in Keys, NEW m \in Models, NEW d \in Durations,
             MarkModelCooling(k, m, d)
      PROVE  Goal
  BY <1>5, SameSlice DEF MarkModelCooling, Pool!PoolNext
<1>6. ASSUME NEW k \in Keys, NEW w \in BaseWeights, AddKey(k, w) PROVE Goal
  <2>1. slots' \in Seq(Slot) /\ WeightsConsistent' /\ ActiveKeys' = ActiveKeys \cup {k}
    BY <1>6, AddSlice
  <2>2. Pool!AddKey(k)
    BY <1>6, <2>1 DEF AddKey, Pool!AddKey
  <2> QED
    BY <2>1, <2>2 DEF Pool!PoolNext
<1>7. ASSUME NEW k \in Keys, NEW x \in Multipliers, SetHealthMultiplier(k, x) PROVE Goal
  <2>1. slots' \in Seq(Slot) /\ WeightsConsistent' /\ ActiveKeys' = ActiveKeys
    BY <1>7, MultiplierSlice
  <2>2. UNCHANGED Pool!poolVars
    BY <1>7, <2>1 DEF SetHealthMultiplier, Pool!poolVars
  <2> QED
    BY <2>1, <2>2
<1>8. ASSUME NEW k \in Keys, MarkDead(k) PROVE Goal
  <2>1. slots' \in Seq(Slot) /\ WeightsConsistent' /\ ActiveKeys' = ActiveKeys
    BY <1>8, DeadSlice
  <2>2. Pool!MarkDead(k)
    BY <1>8, <2>1 DEF MarkDead, Pool!MarkDead
  <2> QED
    BY <2>1, <2>2 DEF Pool!PoolNext
<1>9. CASE Reset
  <2>1. slots' = <<>>
    BY <1>9 DEF Reset
  <2>2. slots' \in Seq(Slot) /\ WeightsConsistent' /\ ActiveKeys' = {}
    BY <2>1 DEF WeightsConsistent, ActiveKeys
  <2>3. Pool!Reset
    BY <1>9, <2>2 DEF Reset, Pool!Reset
  <2> QED
    BY <2>2, <2>3 DEF Pool!PoolNext
<1>10. CASE CleanupExpired
  BY <1>10, SameSlice DEF CleanupExpired, Pool!PoolNext
<1>11. CASE Tick
  BY <1>11, SameSlice DEF Tick, Pool!PoolNext
<1>12. CASE UNCHANGED vars
  <2>1. slots' \in Seq(Slot) /\ WeightsConsistent' /\ ActiveKeys' = ActiveKeys
    BY <1>12, SameSlice DEF vars
  <2> QED
    BY <1>12, <2>1 DEF vars, Pool!poolVars
<1> HIDE DEF Goal
<1> QED
  BY <1>1, <1>2, <1>3, <1>4, <1>5, <1>6, <1>7, <1>8, <1>9, <1>10, <1>11, <1>12 DEF Next

-----------------------------------------------------------------------------
(* The theorems.                                                           *)

\* The pool part of the type, preserved by every step of the pool.
LEMMA PoolTypes ==
  ASSUME Pool!PoolTypeOK, [Pool!PoolNext]_(Pool!poolVars), ActiveKeys' \subseteq Keys
  PROVE  Pool!PoolTypeOK'
<1> USE DEF Pool!PoolTypeOK
<1>1. Limits \subseteq Nat /\ Durations \subseteq Nat
  BY SchedulerAssumption DEF Pool!PoolAssumption
<1>2. Pool!PurgeExpired => /\ cooling' \in [Keys -> Nat]
                           /\ modelCooling' \in [Keys \X Models -> Nat]
  BY DEF Pool!PurgeExpired, Pool!Unexpired
<1>3. ASSUME NEW c \in Callers, NEW k \in Keys, NEW m \in Models \cup {NoModel},
             NEW limit \in Limits,
             Pool!AcquireSome(c, k, m, limit) \/ Pool!TryAcquireSpecificKey(c, k, m, limit)
      PROVE  Pool!PoolTypeOK'
  BY <1>2, <1>3 DEF Pool!AcquireSome, Pool!TryAcquireSpecificKey, Pool!Grant
<1>4. ASSUME NEW c \in Callers, NEW m \in Models \cup {NoModel}, NEW limit \in Limits,
             Pool!AcquireNone(c, m, limit)
      PROVE  Pool!PoolTypeOK'
  BY <1>2, <1>4 DEF Pool!AcquireNone
<1>5. ASSUME NEW c \in Callers, Pool!ReleaseKey(c) PROVE Pool!PoolTypeOK'
  BY <1>5 DEF Pool!ReleaseKey
<1>6. ASSUME NEW k \in Keys, NEW d \in Durations,
             \/ Pool!MarkCooling(k, d)
             \/ \E m \in Models : Pool!MarkModelCooling(k, m, d)
      PROVE  Pool!PoolTypeOK'
  <2>1. now + d \in Nat
    BY <1>1
  <2> QED
    BY <1>6, <2>1 DEF Pool!MarkCooling, Pool!MarkModelCooling
<1>7. ASSUME NEW k \in Keys, Pool!MarkDead(k) \/ Pool!AddKey(k) PROVE Pool!PoolTypeOK'
  BY <1>7 DEF Pool!MarkDead, Pool!AddKey
<1>8. CASE Pool!Reset
  BY <1>8 DEF Pool!Reset
<1>9. CASE Pool!CleanupExpired \/ Pool!Tick
  BY <1>2, <1>9 DEF Pool!CleanupExpired, Pool!Tick
<1>10. CASE UNCHANGED Pool!poolVars
  BY <1>10 DEF Pool!poolVars
<1> QED
  BY <1>3, <1>4, <1>5, <1>6, <1>7, <1>8, <1>9, <1>10 DEF Pool!PoolNext

LEMMA Initially ==
  ASSUME Init
  PROVE  TypeOK /\ WeightsConsistent /\ Pool!PoolInit
BY DEF Init, TypeOK, WeightsConsistent, Pool!PoolInit, ActiveKeys

\* The inductive invariant.
LEMMA StepKeepsTypes ==
  ASSUME TypeOK, WeightsConsistent, [Next]_vars
  PROVE  TypeOK' /\ WeightsConsistent'
<1>1. slots' \in Seq(Slot) /\ WeightsConsistent' /\ [Pool!PoolNext]_(Pool!poolVars)
  BY StepSimulates
<1>2. ActiveKeys \subseteq Keys /\ ActiveKeys' \subseteq Keys
  <2>1. \A s \in Seq(Slot) : {s[i].key : i \in DOMAIN s} \subseteq Keys
    <3> SUFFICES ASSUME NEW s \in Seq(Slot), NEW i \in DOMAIN s PROVE s[i].key \in Keys
      OBVIOUS
    <3>1. s[i] \in Slot
      BY LenProperties, ElementOfSeq
    <3> QED
      BY <3>1 DEF Slot
  <2> QED
    BY <1>1, <2>1 DEF ActiveKeys, TypeOK
<1>3. Pool!PoolTypeOK
  BY <1>2 DEF TypeOK, Pool!PoolTypeOK
<1>4. Pool!PoolTypeOK'
  BY <1>1, <1>2, <1>3, PoolTypes
<1> QED
  BY <1>1, <1>4 DEF TypeOK, Pool!PoolTypeOK

\* The scheduler's variables keep their types: in particular the credits stay
\* integers, and the counters never fall below zero (redis.go 301-531).
THEOREM SchedulerTypeCorrect == Spec => []TypeOK
<1>1. Init => TypeOK /\ WeightsConsistent
  BY Initially
<1>2. TypeOK /\ WeightsConsistent /\ [Next]_vars => TypeOK' /\ WeightsConsistent'
  BY StepKeepsTypes
<1> QED
  BY <1>1, <1>2, PTL DEF Spec

\* No key is registered twice, and every weight is base * multiplier with the
\* multiplier in its band, however registrations, scores and reloads interleave
\* (redis.go 127-131, 226).
THEOREM WeightsStayConsistent == Spec => []WeightsConsistent
<1>1. Init => TypeOK /\ WeightsConsistent
  BY Initially
<1>2. TypeOK /\ WeightsConsistent /\ [Next]_vars => TypeOK' /\ WeightsConsistent'
  BY StepKeepsTypes
<1> QED
  BY <1>1, <1>2, PTL DEF Spec

\* The weighted round robin implements the abstract pool: it hands out an
\* eligible key whenever there is one, and everything else it does the pool
\* does (redis.go 156-531).
THEOREM SchedulerImplementsPool == Spec => ImplementsPool
<1>1. Init => TypeOK /\ WeightsConsistent
  BY Initially
<1>2. TypeOK /\ WeightsConsistent /\ [Next]_vars => TypeOK' /\ WeightsConsistent'
  BY StepKeepsTypes
<1>3. Init => Pool!PoolInit
  BY Initially
<1>4. TypeOK /\ WeightsConsistent /\ [Next]_vars => [Pool!PoolNext]_(Pool!poolVars)
  BY StepSimulates
<1> QED
  BY <1>1, <1>2, <1>3, <1>4, PTL DEF Spec, ImplementsPool, Pool!PoolSpec

\* Each acquisition takes a key that is eligible for its own model and limit,
\* or finds none because none is (redis.go 301-353).
THEOREM SchedulerGrantsWhatWasAsked == Spec => GrantsWhatWasAsked
<1> DEFINE Granted ==
      \A c \in Callers, m \in Models \cup {NoModel}, limit \in Limits :
        AcquireKey(c, m, limit) =>
          \/ Pool!AcquireNone(c, m, limit)
          \/ \E k \in Keys : Pool!AcquireSome(c, k, m, limit)
<1>1. Init => TypeOK /\ WeightsConsistent
  BY Initially
<1>2. TypeOK /\ WeightsConsistent /\ [Next]_vars => TypeOK' /\ WeightsConsistent'
  BY StepKeepsTypes
<1>3. TypeOK /\ WeightsConsistent => Granted
  BY AcquireStep
<1>4. TypeOK /\ WeightsConsistent /\ [Next]_vars => [Granted]_vars
  <2> HIDE DEF Granted
  <2> QED
    BY <1>3
<1> QED
  BY <1>1, <1>2, <1>4, PTL DEF Spec, GrantsWhatWasAsked

\* A step forgets only coolings that have passed, and the clock has started.
LEMMA CoolingStep ==
  ASSUME TypeOK, now # 0, [Next]_vars
  PROVE  Pool!KeepsRunningCoolings /\ now' # 0
<1> DEFINE Goal == Pool!KeepsRunningCoolings /\ now' # 0
<1> SUFFICES Goal
  OBVIOUS
<1>1. UNCHANGED <<cooling, modelCooling, now>> => Goal
  BY DEF Pool!KeepsRunningCoolings, TypeOK
<1>2. Pool!PurgeExpired /\ UNCHANGED now => Goal
  BY DEF Pool!KeepsRunningCoolings, Pool!PurgeExpired, Pool!Unexpired, TypeOK
<1>3. ASSUME NEW c \in Callers, NEW m \in Models \cup {NoModel}, NEW limit \in Limits,
             \/ AcquireKey(c, m, limit)
             \/ \E k \in Keys : TryAcquireSpecificKey(c, k, m, limit)
      PROVE  Goal
  BY <1>2, <1>3 DEF AcquireKey, TryAcquireSpecificKey, Pool!TryAcquireSpecificKey
<1>4. ASSUME NEW k \in Keys, NEW d \in Durations,
             \/ MarkCooling(k, d)
             \/ \E m \in Models : MarkModelCooling(k, m, d)
      PROVE  Goal
  <2>1. now + d \in Nat \ {0}
    BY SchedulerAssumption DEF Pool!PoolAssumption, TypeOK
  <2>2. CASE MarkCooling(k, d)
    BY <2>1, <2>2 DEF MarkCooling, Pool!MarkCooling, Pool!KeepsRunningCoolings, TypeOK
  <2>3. CASE \E m \in Models : MarkModelCooling(k, m, d)
    <3>1. PICK m \in Models : MarkModelCooling(k, m, d)
      BY <2>3
    <3> QED
      BY <2>1, <3>1
      DEF MarkModelCooling, Pool!MarkModelCooling, Pool!KeepsRunningCoolings, TypeOK
  <2> QED
    BY <1>4, <2>2, <2>3
<1>5. CASE \/ \E c \in Callers : ReleaseKey(c)
           \/ \E k \in Keys, w \in BaseWeights : AddKey(k, w)
           \/ \E k \in Keys, x \in Multipliers : SetHealthMultiplier(k, x)
           \/ \E k \in Keys : MarkDead(k)
           \/ Reset
           \/ UNCHANGED vars
  BY <1>1, <1>5 DEF ReleaseKey, Pool!ReleaseKey, AddKey, SetHealthMultiplier,
       MarkDead, Reset, vars
<1>6. CASE CleanupExpired
  BY <1>2, <1>6 DEF CleanupExpired, Pool!CleanupExpired
<1>7. CASE Tick
  BY <1>7 DEF Tick, Pool!Tick, Pool!KeepsRunningCoolings, TypeOK
<1> HIDE DEF Goal
<1> QED
  BY <1>3, <1>4, <1>5, <1>6, <1>7 DEF Next

\* A running cooling outlives reloads, dead marks and the purges of other
\* acquisitions (redis.go 528-529, 540).
THEOREM SchedulerKeepsCoolings == Spec => CoolingOutlivesReset
<1> DEFINE Inv == TypeOK /\ WeightsConsistent /\ now # 0
<1>1. Init => Inv
  BY Initially DEF Init
<1>2. Inv /\ [Next]_vars => Inv'
  BY StepKeepsTypes, CoolingStep
<1>3. Inv /\ [Next]_vars => [Pool!KeepsRunningCoolings]_vars
  BY CoolingStep
<1> HIDE DEF Inv
<1> QED
  BY <1>1, <1>2, <1>3, PTL DEF Spec, CoolingOutlivesReset
-----------------------------------------------------------------------------
(* The credits of a round robin.  What a set of s positions out of n is    *)
(* owed together is at most one heaviest weight for each pair of a         *)
(* position inside and one outside.                                        *)

Room(s, n, W) == s * (n - s) * W

Balanced(c, L, N, W) ==
  \A S \in SUBSET L :
    /\ Over(c, S, N) <= Room(Size(S, N), N, W)
    /\ -Over(c, S, N) <= Room(Size(S, N), N, W)

\* Leaving a positions of s, a times, and taking in one more, weighs as much
\* as staying.
LEMMA RoomShrinks ==
  ASSUME NEW s \in Int, NEW n \in Int, NEW W \in Int, NEW a \in Int
  PROVE  Room(s - a, n, W) + a * Room(s + 1, n, W) + a * (a + 1) * W
           = (a + 1) * Room(s, n, W)
<1>1. (s - a) * (n - (s - a)) + a * ((s + 1) * (n - (s + 1))) + a * (a + 1)
        = (a + 1) * (s * (n - s))
  OBVIOUS
<1>2. \A x, y, z, r \in Int : x + a * y + z = (a + 1) * r =>
        x * W + a * (y * W) + z * W = (a + 1) * (r * W)
  OBVIOUS
<1>3. /\ (s - a) * (n - (s - a)) \in Int /\ (s + 1) * (n - (s + 1)) \in Int
      /\ a * (a + 1) \in Int /\ s * (n - s) \in Int
  OBVIOUS
<1> QED
  BY <1>1, <1>2, <1>3 DEF Room

LEMMA RoomGrows ==
  ASSUME NEW s \in Int, NEW n \in Int, NEW W \in Int, NEW b \in Int
  PROVE  Room(s + b, n, W) + b * Room(s - 1, n, W) + b * (b + 1) * W
           = (b + 1) * Room(s, n, W)
<1>1. (s + b) * (n - (s + b)) + b * ((s - 1) * (n - (s - 1))) + b * (b + 1)
        = (b + 1) * (s * (n - s))
  OBVIOUS
<1>2. \A x, y, z, r \in Int : x + b * y + z = (b + 1) * r =>
        x * W + b * (y * W) + z * W = (b + 1) * (r * W)
  OBVIOUS
<1>3. /\ (s + b) * (n - (s + b)) \in Int /\ (s - 1) * (n - (s - 1)) \in Int
      /\ b * (b + 1) \in Int /\ s * (n - s) \in Int
  OBVIOUS
<1> QED
  BY <1>1, <1>2, <1>3 DEF Room

LEMMA RoomType ==
  ASSUME NEW s \in Int, NEW n \in Int, NEW W \in Int
  PROVE  Room(s, n, W) \in Int
BY DEF Room

\* A set X that is above the bound R is held down by the winner's credit q:
\* its a candidates d gained no more than q allows them.
LEMMA Squeezed ==
  ASSUME NEW a \in Nat, NEW W \in Int, NEW P \in Int, NEW Q \in Int, NEW R \in Int,
         NEW X \in Int, NEW rest \in Int, NEW d \in Int, NEW q \in Int, NEW before \in Int,
         X = rest + d, rest <= P, d <= (q + W) * a, before + q <= Q,
         X - before <= W * a, P + a * Q + a * (a + 1) * W = (a + 1) * R
  PROVE  X <= R
<1>1. q <= Q - X + W * a /\ q \in Int /\ W * a \in Int
  OBVIOUS
<1>2. (q + W) * a <= (Q - X + W * a + W) * a
  <2>1. \A u, v \in Int : u <= v => u * a <= v * a
    OBVIOUS
  <2>2. q + W <= Q - X + W * a + W /\ q + W \in Int /\ Q - X + W * a + W \in Int
    BY <1>1
  <2> QED
    BY <2>1, <2>2
<1>3. (Q - X + W * a + W) * a = a * Q - a * X + a * (a + 1) * W
  OBVIOUS
<1>4. /\ (q + W) * a \in Int /\ a * Q \in Int /\ a * X \in Int
      /\ a * (a + 1) * W \in Int /\ (a + 1) * R \in Int
  OBVIOUS
<1>5. a * X + X <= (a + 1) * R
  BY <1>2, <1>3, <1>4
<1>6. (a + 1) * X <= (a + 1) * R
  BY <1>5
<1>7. \A u, v \in Int, k \in Nat \ {0} : k * u <= k * v => u <= v
  <2> SUFFICES ASSUME NEW u \in Int, NEW v \in Int, NEW k \in Nat \ {0}, u > v
               PROVE  k * u > k * v
    OBVIOUS
  <2>1. \A x \in Int : x > 0 => k * x > 0
    OBVIOUS
  <2>2. u - v \in Int /\ u - v > 0 /\ k * u = k * v + k * (u - v)
    OBVIOUS
  <2> QED
    BY <2>1, <2>2
<1> QED
  BY <1>6, <1>7

\* One round: the candidates E gain their weights w, the winner m, whose raised
\* credit is the highest, pays for all of them.
RoundOf(c, d, w, E, m, N, W) ==
  /\ c \in Values(N) /\ d \in Values(N) /\ w \in Values(N)
  /\ E \subseteq 1 .. N /\ m \in E
  /\ \A i \in E : 0 <= w[i] /\ w[i] <= W
  /\ \A i \in E : c[i] + w[i] <= c[m] + w[m]
  /\ \A i \in (1 .. N) \ E : d[i] = c[i]
  /\ \A i \in E \ {m} : d[i] = c[i] + w[i]
  /\ d[m] = c[m] + w[m] - Over(w, E, N)

\* What a set without the winner gains.
LEMMA RoundGains ==
  ASSUME NEW N \in Nat, NEW W \in Nat, NEW c, NEW d, NEW w, NEW E, NEW m,
         RoundOf(c, d, w, E, m, N, W), NEW S, m \notin S
  PROVE  Over(d, S, N) = Over(c, S, N) + Over(w, S \cap E, N)
<1>1. c \in Values(N) /\ d \in Values(N) /\ w \in Values(N)
  BY DEF RoundOf
<1> DEFINE A == S \cap E
           R == S \ E
<1>2. S = A \cup R /\ A \cap R = {}
  OBVIOUS
<1>3. Over(d, R, N) = Over(c, R, N)
  <2>1. \A i \in R \cap (1 .. N) : d[i] = c[i]
    BY DEF RoundOf
  <2> HIDE DEF R
  <2> QED
    BY <2>1, OverSame
<1>4. Over(d, A, N) = Over(c, A, N) + Over(w, A, N)
  <2>1. Adds(d, c, w, A, N)
    BY DEF RoundOf, Adds
  <2> HIDE DEF A
  <2> QED
    BY <1>1, <2>1, OverAdds
<1> HIDE DEF A, R
<1>5. Over(d, S, N) = Over(d, A, N) + Over(d, R, N)
  BY <1>1, <1>2, OverJoins
<1>6. Over(c, S, N) = Over(c, A, N) + Over(c, R, N)
  BY <1>1, <1>2, OverJoins
<1>7. /\ Over(c, A, N) \in Int /\ Over(c, R, N) \in Int /\ Over(w, A, N) \in Int
  BY <1>1, OverType
<1>8. Over(d, S, N) = Over(c, S, N) + Over(w, A, N)
  BY <1>3, <1>4, <1>5, <1>6, <1>7
<1> QED
  BY <1>8 DEF A

\* A set with all candidates keeps what it has.
LEMMA RoundKeeps ==
  ASSUME NEW N \in Nat, NEW W \in Nat, NEW c, NEW d, NEW w, NEW E, NEW m,
         RoundOf(c, d, w, E, m, N, W), NEW S
  PROVE  Over(d, S \cup E, N) = Over(c, S \cup E, N)
<1>1. c \in Values(N) /\ d \in Values(N) /\ w \in Values(N)
      /\ m \in 1 .. N
  BY DEF RoundOf
<1> DEFINE U == S \cup E
           T == U \ {m}
           O == E \ {m}
<1>2. U = {m} \cup T /\ {m} \cap T = {} /\ m \notin T
      /\ E = {m} \cup O /\ {m} \cap O = {} /\ T \cap E = O
  BY DEF RoundOf
<1> HIDE DEF U, T, O
<1>3. Over(d, T, N) = Over(c, T, N) + Over(w, O, N)
  <2>1. Over(d, T, N) = Over(c, T, N) + Over(w, T \cap E, N)
    BY <1>2, RoundGains
  <2> QED
    BY <1>2, <2>1
<1>4. Over(d, U, N) = Over(d, {m}, N) + Over(d, T, N)
  BY <1>1, <1>2, OverJoins
<1>5. Over(c, U, N) = Over(c, {m}, N) + Over(c, T, N)
  BY <1>1, <1>2, OverJoins
<1>6. Over(w, E, N) = Over(w, {m}, N) + Over(w, O, N)
  BY <1>1, <1>2, OverJoins
<1>7. Over(d, {m}, N) = d[m] /\ Over(c, {m}, N) = c[m] /\ Over(w, {m}, N) = w[m]
  BY <1>1, OverOne
<1>8. d[m] = c[m] + w[m] - Over(w, E, N)
  BY DEF RoundOf
<1>9. /\ Over(c, T, N) \in Int /\ Over(w, O, N) \in Int
      /\ d[m] \in Int /\ c[m] \in Int /\ w[m] \in Int
  BY <1>1, OverType DEF Values
<1>10. Over(d, U, N) = Over(c, U, N)
  BY <1>3, <1>4, <1>5, <1>6, <1>7, <1>8, <1>9
<1> QED
  BY <1>10 DEF U

\* No set is owed more than its room after a round.
LEMMA RoundKeepsAbove ==
  ASSUME NEW N \in Nat, NEW W \in Nat, NEW c, NEW d, NEW w, NEW E, NEW m, NEW L,
         RoundOf(c, d, w, E, m, N, W), Balanced(c, L, N, W),
         E \subseteq L, NEW S \in SUBSET L
  PROVE  Over(d, S, N) <= Room(Size(S, N), N, W)
<1>1. c \in Values(N) /\ d \in Values(N) /\ w \in Values(N) /\ m \in L
      /\ m \in E /\ m \in 1 .. N
  BY DEF RoundOf
<1> DEFINE s == Size(S, N)
<1>2. s \in Nat /\ Over(c, S, N) \in Int /\ Over(d, S, N) \in Int /\ c[m] \in Int
      /\ Room(s, N, W) \in Int
  <2>1. s \in Nat
    BY SizeType
  <2>2. Over(c, S, N) \in Int /\ Over(d, S, N) \in Int
    BY <1>1, OverType
  <2>3. c[m] \in Int
    BY <1>1 DEF Values
  <2> HIDE DEF s
  <2>4. Room(s, N, W) \in Int
    BY <2>1, RoomType
  <2> QED
    BY <2>1, <2>2, <2>3, <2>4
<1>3. CASE m \in S
  <2> DEFINE T == S \cup E
             B == E \ S
  <2>1. T = S \cup B /\ S \cap B = {} /\ m \notin B /\ B \cap E = B
    BY <1>1, <1>3
  <2>2. \A i \in B \cap (1 .. N) : w[i] >= 0
    BY DEF RoundOf
  <2> HIDE DEF T, B
  <2>3. Over(d, T, N) = Over(c, T, N) /\ Over(d, B, N) = Over(c, B, N) + Over(w, B, N)
    <3>1. Over(d, T, N) = Over(c, T, N)
      BY RoundKeeps DEF T
    <3>2. Over(d, B, N) = Over(c, B, N) + Over(w, B \cap E, N)
      BY <2>1, RoundGains
    <3> QED
      BY <2>1, <3>1, <3>2
  <2>4. /\ Over(d, T, N) = Over(d, S, N) + Over(d, B, N)
        /\ Over(c, T, N) = Over(c, S, N) + Over(c, B, N)
    BY <1>1, <2>1, OverJoins
  <2>5. Over(w, B, N) >= 0 /\ Over(w, B, N) \in Int /\ Over(c, B, N) \in Int
        /\ Over(d, B, N) \in Int
    BY <1>1, <2>2, OverOfNaturals, OverType
  <2>6. Over(d, S, N) + Over(d, B, N) = Over(c, S, N) + Over(c, B, N)
    BY <2>3, <2>4
  <2>7. Over(d, S, N) <= Over(c, S, N)
    BY <1>2, <2>3, <2>5, <2>6
  <2>8. Over(c, S, N) <= Room(s, N, W)
    BY DEF Balanced
  <2> HIDE DEF s
  <2>9. Over(d, S, N) <= Room(s, N, W)
    BY <1>2, <2>7, <2>8
  <2> QED
    BY <2>9 DEF s
<1>4. CASE m \notin S
  <2> DEFINE A == S \cap E
             R == S \ E
             a == Size(A, N)
             k == c[m] + W
  <2>1. S = R \cup A /\ R \cap A = {} /\ R \in SUBSET L /\ S \cup {m} \in SUBSET L
        /\ S \cap {m} = {}
    BY <1>1, <1>4
  <2>2. AtMost(w, W, A, N) /\ AtMost(d, k, A, N)
    <3> SUFFICES ASSUME NEW i \in A \cap (1 .. N) PROVE w[i] <= W /\ d[i] <= k
      BY DEF AtMost
    <3>1. d[i] = c[i] + w[i] /\ c[i] + w[i] <= c[m] + w[m] /\ w[m] <= W /\ w[i] <= W
      BY <1>1, <1>4 DEF RoundOf
    <3>2. c[i] \in Int /\ w[i] \in Int /\ w[m] \in Int
      BY <1>1 DEF Values
    <3> QED
      BY <1>2, <3>1, <3>2
  <2>3. \A i \in R \cap (1 .. N) : d[i] = c[i]
    BY DEF RoundOf
  <2>4. a \in Nat /\ k \in Int
    BY <1>2, SizeType
  <2> HIDE DEF A, R, k
  <2>5. Over(d, S, N) = Over(c, S, N) + Over(w, A, N)
    <3>1. Over(d, S, N) = Over(c, S, N) + Over(w, S \cap E, N)
      BY <1>4, RoundGains
    <3> QED
      BY <3>1 DEF A
  <2>6. Over(d, S, N) = Over(c, R, N) + Over(d, A, N)
    <3>1. Over(d, R, N) = Over(c, R, N)
      BY <2>3, OverSame
    <3>2. Over(d, R \cup A, N) = Over(d, R, N) + Over(d, A, N)
      BY <1>1, <2>1, OverJoins
    <3> QED
      BY <2>1, <3>1, <3>2
  <2>7. Over(w, A, N) <= W * a /\ Over(d, A, N) <= k * a
    BY <1>1, <2>2, <2>4, OverIsAtMost
  <2>8. Size(R, N) = s - a
    <3>1. Size(S, N) = Size(R, N) + Size(A, N) /\ Size(R, N) \in Nat
      BY <2>1, SizeJoins, SizeType
    <3> QED
      BY <1>2, <2>4, <3>1
  <2>9. Size(S \cup {m}, N) = s + 1 /\ Over(c, S \cup {m}, N) = Over(c, S, N) + c[m]
    <3>1. Over(c, {m}, N) = c[m] /\ Size({m}, N) = 1
      BY <1>1, OverOne, SizeOne
    <3>2. Over(c, S \cup {m}, N) = Over(c, S, N) + Over(c, {m}, N)
      BY <1>1, <2>1, OverJoins
    <3>3. Size(S \cup {m}, N) = Size(S, N) + Size({m}, N)
      BY <2>1, SizeJoins
    <3> QED
      BY <3>1, <3>2, <3>3
  <2>10. Over(c, R, N) <= Room(s - a, N, W) /\ Over(c, S, N) + c[m] <= Room(s + 1, N, W)
    <3>1. \A T \in SUBSET L : Over(c, T, N) <= Room(Size(T, N), N, W)
      BY DEF Balanced
    <3>2. Over(c, R, N) <= Room(Size(R, N), N, W)
      BY <2>1, <3>1
    <3>3. Over(c, S \cup {m}, N) <= Room(Size(S \cup {m}, N), N, W)
      BY <2>1, <3>1
    <3> QED
      BY <2>8, <2>9, <3>2, <3>3
  <2>11. Room(s - a, N, W) + a * Room(s + 1, N, W) + a * (a + 1) * W
           = (a + 1) * Room(s, N, W)
    BY <1>2, <2>4, RoomShrinks
  <2>12. /\ Room(s - a, N, W) \in Int /\ Room(s + 1, N, W) \in Int
         /\ Over(c, R, N) \in Int /\ Over(d, A, N) \in Int /\ Over(w, A, N) \in Int
    <3>1. s - a \in Int /\ s + 1 \in Int
      BY <1>2, <2>4
    <3>2. \A x \in Int : Room(x, N, W) \in Int
      BY RoomType
    <3>3. Over(c, R, N) \in Int /\ Over(d, A, N) \in Int /\ Over(w, A, N) \in Int
      BY <1>1, OverType
    <3> QED
      BY <3>1, <3>2, <3>3
  <2> HIDE DEF a, s
  <2>13. Over(d, S, N) - Over(c, S, N) <= W * a
    BY <1>2, <2>4, <2>5, <2>7, <2>12
  <2>14. Over(d, S, N) <= Room(s, N, W)
    BY <1>2, <2>4, <2>6, <2>7, <2>10, <2>11, <2>12, <2>13, Squeezed DEF k
  <2> QED
    BY <2>14 DEF s
<1> QED
  BY <1>3, <1>4

\* No set owes more than its room after a round.
LEMMA RoundKeepsBelow ==
  ASSUME NEW N \in Nat, NEW W \in Nat, NEW c, NEW d, NEW w, NEW E, NEW m, NEW L,
         RoundOf(c, d, w, E, m, N, W), Balanced(c, L, N, W),
         E \subseteq L, NEW S \in SUBSET L
  PROVE  -Over(d, S, N) <= Room(Size(S, N), N, W)
<1>1. c \in Values(N) /\ d \in Values(N) /\ w \in Values(N) /\ m \in L
      /\ m \in E /\ m \in 1 .. N
  BY DEF RoundOf
<1> DEFINE s == Size(S, N)
<1>2. s \in Nat /\ Over(c, S, N) \in Int /\ Over(d, S, N) \in Int /\ c[m] \in Int
      /\ Room(s, N, W) \in Int
  <2>1. s \in Nat
    BY SizeType
  <2>2. Over(c, S, N) \in Int /\ Over(d, S, N) \in Int
    BY <1>1, OverType
  <2>3. c[m] \in Int
    BY <1>1 DEF Values
  <2> HIDE DEF s
  <2>4. Room(s, N, W) \in Int
    BY <2>1, RoomType
  <2> QED
    BY <2>1, <2>2, <2>3, <2>4
<1>3. CASE m \notin S
  <2> DEFINE A == S \cap E
  <2>1. \A i \in A \cap (1 .. N) : w[i] >= 0
    BY DEF RoundOf
  <2> HIDE DEF A
  <2>2. Over(d, S, N) = Over(c, S, N) + Over(w, A, N)
    <3>1. Over(d, S, N) = Over(c, S, N) + Over(w, S \cap E, N)
      BY <1>3, RoundGains
    <3> QED
      BY <3>1 DEF A
  <2>3. Over(w, A, N) >= 0 /\ Over(w, A, N) \in Int
    BY <1>1, <2>1, OverOfNaturals, OverType
  <2>4. -Over(c, S, N) <= Room(s, N, W)
    BY DEF Balanced
  <2> HIDE DEF s
  <2>5. -Over(d, S, N) <= Room(s, N, W)
    BY <1>2, <2>2, <2>3, <2>4
  <2> QED
    BY <2>5 DEF s
<1>4. CASE m \in S
  <2> DEFINE T == S \cup E
             B == E \ S
             U == S \ {m}
             b == Size(B, N)
             k == c[m] + W
  <2>1. T = S \cup B /\ S \cap B = {} /\ T \in SUBSET L /\ m \notin B /\ B \cap E = B
        /\ U \in SUBSET L /\ S = U \cup {m} /\ U \cap {m} = {}
    BY <1>1, <1>4
  <2>2. AtMost(w, W, B, N) /\ AtMost(d, k, B, N)
    <3> SUFFICES ASSUME NEW i \in B \cap (1 .. N) PROVE w[i] <= W /\ d[i] <= k
      BY DEF AtMost
    <3>1. d[i] = c[i] + w[i] /\ c[i] + w[i] <= c[m] + w[m] /\ w[m] <= W /\ w[i] <= W
      BY <1>1, <1>4 DEF RoundOf
    <3>2. c[i] \in Int /\ w[i] \in Int /\ w[m] \in Int
      BY <1>1 DEF Values
    <3> QED
      BY <1>2, <3>1, <3>2
  <2>3. b \in Nat /\ k \in Int
    BY <1>2, SizeType
  <2> HIDE DEF T, B, U, k
  <2>4. Over(d, T, N) = Over(c, T, N) /\ Over(d, B, N) = Over(c, B, N) + Over(w, B, N)
    <3>1. Over(d, T, N) = Over(c, T, N)
      BY RoundKeeps DEF T
    <3>2. Over(d, B, N) = Over(c, B, N) + Over(w, B \cap E, N)
      BY <2>1, RoundGains
    <3> QED
      BY <2>1, <3>1, <3>2
  <2>5. /\ Over(d, T, N) = Over(d, S, N) + Over(d, B, N)
        /\ Over(c, T, N) = Over(c, S, N) + Over(c, B, N)
    BY <1>1, <2>1, OverJoins
  <2>6. Over(w, B, N) <= W * b /\ Over(d, B, N) <= k * b
    BY <1>1, <2>2, <2>3, OverIsAtMost
  <2>7. Size(T, N) = s + b
    BY <2>1, SizeJoins
  <2>8. Size(U, N) = s - 1 /\ Over(c, U, N) = Over(c, S, N) - c[m]
    <3>1. Over(c, {m}, N) = c[m] /\ Size({m}, N) = 1
      BY <1>1, OverOne, SizeOne
    <3>2. Size(S, N) = Size(U, N) + Size({m}, N) /\ Size(U, N) \in Nat
      BY <2>1, SizeJoins, SizeType
    <3>3. Over(c, S, N) = Over(c, U, N) + Over(c, {m}, N) /\ Over(c, U, N) \in Int
      BY <1>1, <2>1, OverJoins, OverType
    <3> QED
      BY <1>2, <3>1, <3>2, <3>3
  <2>9. -Over(c, T, N) <= Room(s + b, N, W)
        /\ -(Over(c, S, N) - c[m]) <= Room(s - 1, N, W)
    <3>1. \A V \in SUBSET L : -Over(c, V, N) <= Room(Size(V, N), N, W)
      BY DEF Balanced
    <3>2. -Over(c, T, N) <= Room(Size(T, N), N, W)
      BY <2>1, <3>1
    <3>3. -Over(c, U, N) <= Room(Size(U, N), N, W)
      BY <2>1, <3>1
    <3> QED
      BY <2>7, <2>8, <3>2, <3>3
  <2>10. Room(s + b, N, W) + b * Room(s - 1, N, W) + b * (b + 1) * W
           = (b + 1) * Room(s, N, W)
    BY <1>2, <2>3, RoomGrows
  <2>11. /\ Room(s + b, N, W) \in Int /\ Room(s - 1, N, W) \in Int
         /\ Over(c, T, N) \in Int /\ Over(d, B, N) \in Int /\ Over(w, B, N) \in Int
         /\ Over(c, B, N) \in Int
    <3>1. s + b \in Int /\ s - 1 \in Int
      BY <1>2, <2>3
    <3>2. \A x \in Int : Room(x, N, W) \in Int
      BY RoomType
    <3>3. /\ Over(c, T, N) \in Int /\ Over(d, B, N) \in Int /\ Over(w, B, N) \in Int
          /\ Over(c, B, N) \in Int
      BY <1>1, OverType
    <3> QED
      BY <3>1, <3>2, <3>3
  <2>12. /\ Over(c, T, N) = Over(d, S, N) + Over(d, B, N)
         /\ Over(c, T, N) = Over(c, S, N) + Over(c, B, N)
    BY <2>4, <2>5
  <2> DEFINE x == -Over(d, S, N)
             before == -Over(c, S, N)
             rest == -Over(c, T, N)
  <2> HIDE DEF b, s
  <2>13. x \in Int /\ before \in Int /\ rest \in Int /\ x = rest + Over(d, B, N)
    BY <1>2, <2>11, <2>12
  <2>14. x - before <= W * b
    <3>1. x - before = Over(w, B, N)
      <4>1. Over(d, S, N) + Over(d, B, N) = Over(c, S, N) + Over(c, B, N)
        BY <2>12
      <4> QED
        BY <1>2, <2>4, <2>11, <4>1
    <3> QED
      BY <2>6, <3>1
  <2>15. before + c[m] <= Room(s - 1, N, W) /\ rest <= Room(s + b, N, W)
    BY <1>2, <2>9, <2>11
  <2> HIDE DEF x, before, rest
  <2>16. x <= Room(s, N, W)
    BY <1>2, <2>3, <2>6, <2>10, <2>11, <2>13, <2>14, <2>15, Squeezed DEF k
  <2> QED
    BY <2>16 DEF s, x
<1> QED
  BY <1>3, <1>4

LEMMA RoundStaysBalanced ==
  ASSUME NEW N \in Nat, NEW W \in Nat, NEW c, NEW d, NEW w, NEW E, NEW m, NEW L,
         RoundOf(c, d, w, E, m, N, W), Balanced(c, L, N, W), E \subseteq L
  PROVE  Balanced(d, L, N, W)
BY RoundKeepsAbove, RoundKeepsBelow DEF Balanced

\* Fewer positions, with what they had, stay balanced.
LEMMA BalancedAlong ==
  ASSUME NEW N \in Nat, NEW W \in Nat, NEW c, NEW d, NEW L, NEW M, M \subseteq L,
         \A i \in M : d[i] = c[i], Balanced(c, L, N, W)
  PROVE  Balanced(d, M, N, W)
<1> SUFFICES ASSUME NEW S \in SUBSET M
             PROVE  /\ Over(d, S, N) <= Room(Size(S, N), N, W)
                    /\ -Over(d, S, N) <= Room(Size(S, N), N, W)
  BY DEF Balanced
<1>1. Over(d, S, N) = Over(c, S, N)
  <2>1. \A i \in S \cap (1 .. N) : d[i] = c[i]
    OBVIOUS
  <2> QED
    BY <2>1, OverSame
<1>2. S \in SUBSET L
  OBVIOUS
<1> QED
  BY <1>1, <1>2 DEF Balanced

\* A further position that is owed nothing makes room.
LEMMA RoomForOneMore ==
  ASSUME NEW N \in Nat, NEW W \in Nat, NEW s \in 0 .. N
  PROVE  Room(s, N, W) <= Room(s, N + 1, W) /\ Room(s, N, W) <= Room(s + 1, N + 1, W)
<1>1. s * (N - s) <= s * (N + 1 - s)
  <2>1. s * (N + 1 - s) = s * (N - s) + s
    OBVIOUS
  <2> QED
    BY <2>1
<1>2. s * (N - s) <= (s + 1) * (N + 1 - (s + 1))
  <2>1. (s + 1) * (N + 1 - (s + 1)) = s * (N - s) + (N - s)
    OBVIOUS
  <2> QED
    BY <2>1
<1>3. \A x, y \in Int : x <= y => x * W <= y * W
  OBVIOUS
<1>4. /\ s * (N - s) \in Int /\ s * (N + 1 - s) \in Int
      /\ (s + 1) * (N + 1 - (s + 1)) \in Int
  OBVIOUS
<1> QED
  BY <1>1, <1>2, <1>3, <1>4 DEF Room

LEMMA BalancedGrows ==
  ASSUME NEW N \in Nat, NEW W \in Nat, NEW L, NEW c \in Values(N), NEW d \in Values(N + 1),
         \A i \in 1 .. N : d[i] = c[i], d[N + 1] = 0, Balanced(c, L, N, W)
  PROVE  Balanced(d, L \cup {N + 1}, N + 1, W)
<1> SUFFICES ASSUME NEW S \in SUBSET (L \cup {N + 1})
             PROVE  /\ Over(d, S, N + 1) <= Room(Size(S, N + 1), N + 1, W)
                    /\ -Over(d, S, N + 1) <= Room(Size(S, N + 1), N + 1, W)
  BY DEF Balanced
<1> DEFINE T == S \ {N + 1}
           s == Size(T, N)
           x == Over(c, T, N)
<1>1. T \in SUBSET L
  OBVIOUS
<1>2. \A i \in 1 .. N : i # N + 1 /\ (i \in T <=> i \in S)
  OBVIOUS
<1> HIDE DEF T
<1>3. \A f : Only(f, S, N) = Only(f, T, N)
  BY <1>2 DEF Only
<1>4. Over(c, S, N) = x /\ Size(S, N) = s
  BY <1>3 DEF Over, Size
<1>5. s \in 0 .. N /\ x \in Int
  <2>1. Size(T, N) \in Nat /\ Size(T, N) <= N /\ Over(c, T, N) \in Int
    BY SizeType, SizeIsAtMost, OverType
  <2> QED
    BY <2>1
<1>6. x <= Room(s, N, W) /\ -x <= Room(s, N, W)
  BY <1>1 DEF Balanced
<1>7. Over(d, S, N + 1) = x
  <2>1. Over(d, S, N + 1) = Over(c, S, N) + (IF N + 1 \in S THEN d[N + 1] ELSE 0)
    BY OverExtends
  <2>2. (IF N + 1 \in S THEN d[N + 1] ELSE 0) = 0
    OBVIOUS
  <2> HIDE DEF x
  <2> QED
    BY <1>4, <1>5, <2>1, <2>2
<1>8. Size(S, N + 1) = s \/ Size(S, N + 1) = s + 1
  <2>1. Size(S, N + 1) = Size(S, N) + (IF N + 1 \in S THEN 1 ELSE 0)
    BY SizeExtends
  <2> HIDE DEF s
  <2> QED
    BY <1>4, <1>5, <2>1
<1> HIDE DEF s, x
<1>9. Room(s, N, W) <= Room(s, N + 1, W) /\ Room(s, N, W) <= Room(s + 1, N + 1, W)
  BY <1>5, RoomForOneMore
<1>10. /\ Room(s, N, W) \in Int /\ Room(s, N + 1, W) \in Int
       /\ Room(s + 1, N + 1, W) \in Int
  <2>1. \A y, n \in Int : Room(y, n, W) \in Int
    BY RoomType
  <2>2. s \in Int /\ s + 1 \in Int /\ N \in Int /\ N + 1 \in Int
    BY <1>5
  <2> QED
    BY <2>1, <2>2
<1>11. CASE Size(S, N + 1) = s
  <2>1. x <= Room(s, N + 1, W) /\ -x <= Room(s, N + 1, W)
    BY <1>5, <1>6, <1>9, <1>10
  <2> QED
    BY <1>7, <1>11, <2>1
<1>12. CASE Size(S, N + 1) = s + 1
  <2>1. x <= Room(s + 1, N + 1, W) /\ -x <= Room(s + 1, N + 1, W)
    BY <1>5, <1>6, <1>9, <1>10
  <2> QED
    BY <1>7, <1>12, <2>1
<1> QED
  BY <1>8, <1>11, <1>12

\* Nothing is owed where there is nobody.
LEMMA EmptyIsBalanced ==
  ASSUME NEW N \in Nat, NEW W \in Nat, NEW c \in Values(N)
  PROVE  Balanced(c, {}, N, W)
<1>1. Over(c, {}, N) = 0 /\ Size({}, N) = 0
  <2> DEFINE none == {}
  <2>1. none \cup none = none /\ none \cap none = {}
    OBVIOUS
  <2> HIDE DEF none
  <2>2. Over(c, none \cup none, N) = Over(c, none, N) + Over(c, none, N)
    BY <2>1, OverJoins
  <2>3. Size(none \cup none, N) = Size(none, N) + Size(none, N)
    BY <2>1, SizeJoins
  <2>4. Over(c, none, N) = Over(c, none, N) + Over(c, none, N)
        /\ Size(none, N) = Size(none, N) + Size(none, N)
    BY <2>1, <2>2, <2>3
  <2>5. Over(c, none, N) \in Int /\ Size(none, N) \in Nat
    BY OverType, SizeType
  <2>6. Over(c, none, N) = 0 /\ Size(none, N) = 0
    <3>1. \A y \in Int : y = y + y => y = 0
      OBVIOUS
    <3>2. Size(none, N) \in Int
      BY <2>5
    <3> QED
      BY <2>4, <2>5, <3>1, <3>2, Zenon
  <2> QED
    BY <2>6 DEF none
<1>2. Room(0, N, W) = 0
  BY DEF Room
<1>3. \A S \in SUBSET {} : S = {}
  OBVIOUS
<1> QED
  BY <1>1, <1>2, <1>3 DEF Balanced

\* What one position of a balanced slice is owed or owes.
LEMMA OneIsBounded ==
  ASSUME NEW N \in Nat, NEW W \in Nat, NEW c \in Values(N), NEW L,
         Balanced(c, L, N, W), NEW i \in 1 .. N, i \in L
  PROVE  c[i] <= (N - 1) * W /\ -c[i] <= (N - 1) * W
<1>1. Over(c, {i}, N) = c[i] /\ Size({i}, N) = 1
  BY OverOne, SizeOne
<1>2. {i} \in SUBSET L
  OBVIOUS
<1>3. Room(1, N, W) = (N - 1) * W
  BY DEF Room
<1>4. /\ Over(c, {i}, N) <= Room(Size({i}, N), N, W)
      /\ -Over(c, {i}, N) <= Room(Size({i}, N), N, W)
  BY <1>2 DEF Balanced
<1> QED
  BY <1>1, <1>3, <1>4

\* A bounded set of natural numbers has a greatest element.
LEMMA GreatestElement ==
  ASSUME NEW T, T \subseteq Nat, T # {}, NEW b \in Nat, \A x \in T : x <= b
  PROVE  \E x \in T : \A y \in T : y <= x
<1> DEFINE U == {b - x : x \in T}
<1>1. U \subseteq Nat /\ U # {}
  <2>1. ASSUME NEW x \in T PROVE b - x \in Nat
    <3>1. x \in Nat /\ x <= b
      BY <2>1
    <3> QED
      BY <3>1
  <2> QED
    BY <2>1
<1>2. PICK u \in U : \A v \in U : u <= v
  <2> HIDE DEF U
  <2> QED
    BY <1>1, LeastElement
<1>3. PICK x \in T : u = b - x
  BY <1>2
<1>4. ASSUME NEW y \in T PROVE y <= x
  <2>1. u <= b - y /\ x \in Nat /\ y \in Nat
    BY <1>2, <1>4
  <2> QED
    BY <1>3, <2>1
<1> QED
  BY <1>4

-----------------------------------------------------------------------------
(* The round robin's invariant.                                            *)

Heaviest == Max(Weights)
Lightest == Min(Weights)

\* Heaviest and Lightest are what their names say.
LEMMA WeightsAre ==
  /\ Heaviest \in Nat /\ Lightest \in Nat \ {0}
  /\ \A v \in Weights : Lightest <= v /\ v <= Heaviest
<1>1. PICK w \in BaseWeights : \A v \in BaseWeights : v <= w
  BY FairnessAssumption
<1>2. BaseWeights \subseteq Nat \ {0} /\ Multipliers \cup {Neutral} \subseteq Nat
  BY SchedulerAssumption DEF Neutral
<1>3. \A x \in Nat : clampHealthMultiplier(x) \in 1 .. 4
  BY Clamped DEF MinMultiplier, MaxMultiplier
<1>4. \A v \in Weights : v \in Nat \ {0} /\ v <= 4 * w
  <2> SUFFICES ASSUME NEW b \in BaseWeights, NEW x \in Multipliers \cup {Neutral}
               PROVE  /\ b * clampHealthMultiplier(x) \in Nat \ {0}
                      /\ b * clampHealthMultiplier(x) <= 4 * w
    BY DEF Weights
  <2>1. b \in Nat \ {0} /\ w \in Nat \ {0} /\ b <= w
    BY <1>1, <1>2
  <2>2. clampHealthMultiplier(x) \in 1 .. 4
    BY <1>2, <1>3
  <2>3. \A y \in 1 .. 4 : b * y \in Nat \ {0} /\ b * y <= 4 * w
    BY <2>1
  <2> QED
    BY <2>2, <2>3
<1>5. Weights # {} /\ Weights \subseteq Nat
  <2>1. w * clampHealthMultiplier(Neutral) \in Weights
    BY DEF Weights
  <2> QED
    BY <1>4, <2>1
<1>6. \E x \in Weights : \A y \in Weights : y <= x
  <2>1. 4 * w \in Nat
    BY <1>1, <1>2
  <2> QED
    BY <1>4, <1>5, <2>1, GreatestElement
<1>7. \E x \in Weights : \A y \in Weights : x <= y
  BY <1>5, LeastElement
<1>8. Heaviest \in Weights /\ \A y \in Weights : y <= Heaviest
  <2>1. \E x \in Weights : \A y \in Weights : x >= y
    BY <1>5, <1>6
  <2>2. Heaviest \in Weights /\ \A y \in Weights : Heaviest >= y
    BY <2>1 DEF Heaviest, Max
  <2> QED
    BY <1>5, <2>2
<1>9. Lightest \in Weights /\ \A y \in Weights : Lightest <= y
  BY <1>7 DEF Lightest, Min
<1> QED
  BY <1>4, <1>8, <1>9

\* Every weight is one an administrator and a score can make.
WeightsKnown ==
  \A i \in DOMAIN slots :
    /\ slots[i].baseWeight \in BaseWeights
    /\ slots[i].healthMult \in {clampHealthMultiplier(x) : x \in Multipliers \cup {Neutral}}

\* The positions of keys that have not been marked dead.
Live == {i \in 1 .. Len(slots) : slots[i].key \notin dead}

CreditsBalance == Balanced(Credits, Live, Len(slots), Heaviest)

DeadOwesNothing ==
  \A i \in DOMAIN slots : slots[i].key \in dead => slots[i].currentWeight = 0

\* Who has been passed over has been credited for it.
PassedIsCredited ==
  /\ passed \in [Keys -> Nat]
  /\ \A k \in Keys \ ActiveKeys : passed[k] = 0
  /\ \A i \in DOMAIN slots :
       passed[slots[i].key] * Lightest <= slots[i].currentWeight + CreditBound

FairInv == /\ TypeOK /\ WeightsConsistent /\ WeightsKnown
           /\ CreditsBalance /\ DeadOwesNothing /\ PassedIsCredited

\* The weights that are used are known ones.
LEMMA LoadsAreKnown ==
  ASSUME TypeOK, WeightsConsistent, WeightsKnown, NEW i \in DOMAIN slots
  PROVE  /\ slots[i].weight \in Nat
         /\ Lightest <= slots[i].weight /\ slots[i].weight <= Heaviest
<1>1. slots[i].weight = slots[i].baseWeight * slots[i].healthMult
  BY DEF WeightsConsistent
<1>2. PICK x \in Multipliers \cup {Neutral} :
        slots[i].healthMult = clampHealthMultiplier(x)
  BY DEF WeightsKnown
<1>3. slots[i].weight \in Weights
  BY <1>1, <1>2 DEF WeightsKnown, Weights
<1>4. slots[i].weight \in Nat
  BY SlotsAre DEF Slot
<1> QED
  BY <1>3, <1>4, WeightsAre

\* There are no more slots than keys.
LEMMA SlotsAreFew ==
  ASSUME TypeOK, WeightsConsistent
  PROVE  Len(slots) <= Cardinality(Keys) /\ Cardinality(Keys) \in Nat
<1> DEFINE f == [i \in 1 .. Len(slots) |-> slots[i].key]
<1>1. Len(slots) \in Nat /\ DOMAIN slots = 1 .. Len(slots)
  BY SliceValues DEF TypeOK
<1>2. f \in Injection(1 .. Len(slots), Keys)
  <2>1. ASSUME NEW i \in 1 .. Len(slots) PROVE slots[i].key \in Keys
    BY <1>1, SlotsAre DEF Slot
  <2>2. \A i, j \in 1 .. Len(slots) : slots[i].key = slots[j].key => i = j
    BY <1>1 DEF WeightsConsistent
  <2> QED
    BY <2>1, <2>2 DEF Injection, IsInjective
<1>3. IsFiniteSet(Keys)
  BY FairnessAssumption
<1> HIDE DEF f
<1>4. Cardinality(1 .. Len(slots)) <= Cardinality(Keys)
  BY <1>2, <1>3, FS_Injection
<1>5. Cardinality(1 .. Len(slots)) = Len(slots)
  <2>1. \A n \in Nat : Cardinality(1 .. n) = n
    <3> SUFFICES ASSUME NEW n \in Nat PROVE Cardinality(1 .. n) = n
      OBVIOUS
    <3>1. Cardinality(1 .. n) = IF 1 > n THEN 0 ELSE n - 1 + 1
      BY FS_Interval
    <3> QED
      BY <3>1
  <2> QED
    BY <1>1, <2>1
<1> QED
  BY <1>3, <1>4, <1>5, FS_CardinalityType

\* The bound of one key's credit follows from the balance of all.
LEMMA CreditsAreBounded ==
  ASSUME TypeOK, WeightsConsistent, CreditsBalance, DeadOwesNothing
  PROVE  CreditBounded
<1> SUFFICES ASSUME NEW i \in DOMAIN slots
             PROVE  slots[i].currentWeight \in -CreditBound .. CreditBound
  BY DEF CreditBounded
<1> DEFINE N == Len(slots)
           K == Cardinality(Keys)
           z == slots[i].currentWeight
<1>1. N \in Nat /\ DOMAIN slots = 1 .. N /\ Credits \in Values(N) /\ Credits[i] = z
  BY SliceValues DEF TypeOK, Credits
<1>2. z \in Int
  BY SlotsAre DEF Slot
<1>3. Heaviest \in Nat
  BY WeightsAre
<1>4. 1 <= N /\ N <= K /\ K \in Nat
  BY <1>1, SlotsAreFew
<1> HIDE DEF N, K, z
<1>5. (N - 1) * Heaviest <= (K - 1) * Heaviest /\ (N - 1) * Heaviest \in Int
      /\ (K - 1) * Heaviest \in Nat
  <2>1. \A x, y \in Nat : x <= y => x * Heaviest <= y * Heaviest /\ x * Heaviest \in Nat
                                    /\ y * Heaviest \in Nat
    BY <1>3
  <2>2. N - 1 \in Nat /\ K - 1 \in Nat /\ N - 1 <= K - 1
    BY <1>1, <1>4
  <2> QED
    BY <2>1, <2>2
<1>6. CreditBound = (K - 1) * Heaviest
  BY DEF CreditBound, K, Heaviest
<1>7. z <= (N - 1) * Heaviest /\ -z <= (N - 1) * Heaviest
  <2>1. CASE slots[i].key \in dead
    <3>1. z = 0
      BY <2>1 DEF DeadOwesNothing, z
    <3>2. (N - 1) * Heaviest >= 0
      BY <1>1, <1>3, <1>4
    <3> QED
      BY <1>5, <3>1, <3>2
  <2>2. CASE slots[i].key \notin dead
    <3>1. i \in Live /\ i \in 1 .. N
      BY <1>1, <2>2 DEF Live, N
    <3>2. Balanced(Credits, Live, N, Heaviest)
      BY DEF CreditsBalance, N
    <3> QED
      BY <1>1, <1>3, <3>1, <3>2, OneIsBounded
  <2> QED
    BY <2>1, <2>2
<1>8. z \in -CreditBound .. CreditBound
  BY <1>2, <1>5, <1>6, <1>7
<1> QED
  BY <1>8 DEF z

-----------------------------------------------------------------------------
(* The steps of the round robin.                                           *)

\* Steps that leave credits, keys, dead marks and accounts alone.
LEMMA SameAccounts ==
  ASSUME TypeOK, CreditsBalance, DeadOwesNothing, PassedIsCredited,
         Len(slots') = Len(slots), DOMAIN slots' = DOMAIN slots,
         \A i \in DOMAIN slots : /\ slots'[i].key = slots[i].key
                                 /\ slots'[i].currentWeight = slots[i].currentWeight,
         UNCHANGED <<dead, passed>>
  PROVE  CreditsBalance' /\ DeadOwesNothing' /\ PassedIsCredited'
<1>1. DOMAIN slots = 1 .. Len(slots)
  BY SliceValues DEF TypeOK
<1>2. Credits' = Credits
  BY <1>1 DEF Credits
<1>3. Live' = Live
  BY <1>1 DEF Live
<1>4. CreditsBalance'
  <2>1. CreditsBalance' <=> Balanced(Credits', Live', Len(slots'), Heaviest)
    BY DEF CreditsBalance, Balanced, Heaviest
  <2> QED
    BY <1>2, <1>3, <2>1 DEF CreditsBalance
<1>5. DeadOwesNothing'
  BY DEF DeadOwesNothing
<1>6. ActiveKeys' = ActiveKeys
  BY DEF ActiveKeys
<1>7. PassedIsCredited'
  BY <1>6 DEF PassedIsCredited
<1> QED
  BY <1>4, <1>5, <1>7

\* What a round does to a slot.
LEMMA RoundSlot ==
  ASSUME TypeOK, WeightsConsistent, NEW E, E \subseteq DOMAIN slots, E # {},
         slots' = AfterRound(E), NEW i \in DOMAIN slots
  PROVE  /\ slots'[i].key = slots[i].key
         /\ slots'[i].baseWeight = slots[i].baseWeight
         /\ slots'[i].healthMult = slots[i].healthMult
         /\ slots'[i].currentWeight =
              IF i \notin E THEN slots[i].currentWeight
              ELSE IF i = Selected(E) THEN Raised(i) - TotalWeight(E) ELSE Raised(i)
<1>1. slots'[i] =
        IF i \notin E THEN slots[i]
        ELSE [slots[i] EXCEPT !.currentWeight =
                IF i = Selected(E) THEN Raised(i) - TotalWeight(E) ELSE Raised(i)]
  BY DEF AfterRound
<1>2. slots[i] \in Slot
  BY SlotsAre
<1>3. \A z : LET s == [slots[i] EXCEPT !.currentWeight = z]
             IN /\ s.key = slots[i].key /\ s.baseWeight = slots[i].baseWeight
                /\ s.healthMult = slots[i].healthMult /\ s.currentWeight = z
  BY <1>2 DEF Slot
<1> QED
  BY <1>1, <1>3

\* A round of the slice is a round of its credits.
LEMMA RoundIsRound ==
  ASSUME TypeOK, WeightsConsistent, WeightsKnown, NEW E, E \subseteq DOMAIN slots, E # {},
         slots' = AfterRound(E)
  PROVE  /\ Len(slots') = Len(slots) /\ DOMAIN slots' = DOMAIN slots
         /\ RoundOf(Credits, Credits', Loads, E, Selected(E), Len(slots), Heaviest)
<1> DEFINE N == Len(slots)
           m == Selected(E)
<1>1. /\ N \in Nat /\ DOMAIN slots = 1 .. N
      /\ Credits \in Values(N) /\ Loads \in Values(N)
  BY SliceValues DEF TypeOK
<1>2. DOMAIN slots' = DOMAIN slots
  BY DEF AfterRound
<1>3. slots' \in Seq(Slot)
  BY RoundSlice
<1>4. Len(slots') = N
  <2>1. Len(slots') \in Nat /\ DOMAIN slots' = 1 .. Len(slots')
    BY <1>3, LenProperties
  <2>2. \A a, b \in Nat : 1 .. a = 1 .. b => a = b
    <3> SUFFICES ASSUME NEW a \in Nat, NEW b \in Nat, 1 .. a = 1 .. b, a < b PROVE FALSE
      OBVIOUS
    <3>1. b \in 1 .. b /\ b \notin 1 .. a
      OBVIOUS
    <3> QED
      BY <3>1
  <2> QED
    BY <1>1, <1>2, <2>1, <2>2
<1>5. m \in E /\ \A j \in E : Raised(j) <= Raised(m)
  BY SelectedIsCandidate DEF TypeOK
<1>6. /\ \A i \in 1 .. N : Credits[i] = slots[i].currentWeight /\ Loads[i] = slots[i].weight
      /\ \A i \in 1 .. N : Credits'[i] = slots'[i].currentWeight
  BY <1>4 DEF Credits, Loads
<1>7. \A i \in 1 .. N : Raised(i) = Credits[i] + Loads[i]
  BY <1>6 DEF Raised
<1>8. \A i \in DOMAIN slots : 0 <= Loads[i] /\ Loads[i] <= Heaviest
  BY <1>1, <1>6, LoadsAreKnown
<1>9. Credits' \in Values(N)
  <2>1. ASSUME NEW i \in 1 .. N PROVE slots'[i].currentWeight \in Int
    <3>1. slots'[i] \in Slot
      BY <1>1, <1>2, <1>3, <1>4, ElementOfSeq
    <3> QED
      BY <3>1 DEF Slot
  <2> QED
    BY <1>4, <2>1 DEF Credits, Values
<1>10. TotalWeight(E) = Over(Loads, E, N)
  BY TotalWeightIsSum DEF TypeOK
<1>11. \A i \in 1 .. N :
         Credits'[i] = IF i \notin E THEN Credits[i]
                       ELSE IF i = m THEN Credits[i] + Loads[i] - Over(Loads, E, N)
                            ELSE Credits[i] + Loads[i]
  <2> SUFFICES ASSUME NEW i \in 1 .. N
               PROVE  Credits'[i] = IF i \notin E THEN Credits[i]
                                    ELSE IF i = m
                                         THEN Credits[i] + Loads[i] - Over(Loads, E, N)
                                         ELSE Credits[i] + Loads[i]
    OBVIOUS
  <2>1. slots'[i].currentWeight =
          IF i \notin E THEN slots[i].currentWeight
          ELSE IF i = m THEN Raised(i) - TotalWeight(E) ELSE Raised(i)
    BY <1>1, RoundSlot
  <2>2. Credits'[i] = slots'[i].currentWeight /\ Credits[i] = slots[i].currentWeight
    BY <1>6
  <2>3. Raised(i) = Credits[i] + Loads[i]
    BY <1>7
  <2>4. Raised(i) - TotalWeight(E) = Credits[i] + Loads[i] - Over(Loads, E, N)
    <3>1. Credits[i] \in Int /\ Loads[i] \in Int /\ Over(Loads, E, N) \in Int
      BY <1>1, OverType DEF Values
    <3>2. \A x, y, z \in Int : (x + y) - z = x + y - z
      OBVIOUS
    <3>3. Raised(i) - TotalWeight(E) = (Credits[i] + Loads[i]) - Over(Loads, E, N)
      BY <1>10, <2>3, Zenon
    <3> QED
      BY <3>1, <3>2, <3>3
  <2> HIDE DEF m, N
  <2> QED
    BY <2>1, <2>2, <2>3, <2>4
<1> HIDE DEF N, m
<1>12. RoundOf(Credits, Credits', Loads, E, m, N, Heaviest)
  BY <1>1, <1>5, <1>7, <1>8, <1>9, <1>11 DEF RoundOf
<1> QED
  BY <1>2, <1>4, <1>12 DEF N, m

\* The bound of a credit, in the next state.
LEMMA CreditsStayBounded ==
  (TypeOK /\ WeightsConsistent /\ CreditsBalance /\ DeadOwesNothing)' => CreditBounded'
<1>1. TypeOK /\ WeightsConsistent /\ CreditsBalance /\ DeadOwesNothing => CreditBounded
  BY CreditsAreBounded
<1> QED
  BY <1>1, PTL

\* A round keeps the balance: its candidates are live.
LEMMA AcquireBalances ==
  ASSUME FairInv, NEW c \in Callers, NEW m \in Models \cup {NoModel}, NEW limit \in Limits,
         AcquireKey(c, m, limit), Candidates(m, limit) # {}
  PROVE  CreditsBalance' /\ DeadOwesNothing' /\ WeightsKnown'
<1> DEFINE E == Candidates(m, limit)
           N == Len(slots)
<1>1. TypeOK /\ WeightsConsistent /\ WeightsKnown /\ CreditsBalance /\ DeadOwesNothing
  BY DEF FairInv
<1>2. E \subseteq DOMAIN slots /\ E # {} /\ E \subseteq Live
  <2>1. \A i \in E : i \in DOMAIN slots /\ slots[i].key \notin dead
    BY DEF Candidates, Pool!Eligible
  <2>2. DOMAIN slots = 1 .. N
    BY <1>1, SliceValues DEF TypeOK
  <2> QED
    BY <2>1, <2>2 DEF Live
<1>3. slots' = AfterRound(E) /\ dead' = dead
  BY DEF AcquireKey
<1> HIDE DEF E
<1>4. /\ Len(slots') = N /\ DOMAIN slots' = DOMAIN slots
      /\ RoundOf(Credits, Credits', Loads, E, Selected(E), N, Heaviest)
  BY <1>1, <1>2, <1>3, RoundIsRound
<1>5. N \in Nat /\ DOMAIN slots = 1 .. N /\ Heaviest \in Nat
  BY <1>1, SliceValues, WeightsAre DEF TypeOK
<1>6. \A i \in DOMAIN slots :
        /\ slots'[i].key = slots[i].key
        /\ slots'[i].baseWeight = slots[i].baseWeight
        /\ slots'[i].healthMult = slots[i].healthMult
        /\ i \notin E => slots'[i].currentWeight = slots[i].currentWeight
  BY <1>1, <1>2, <1>3, RoundSlot
<1>7. Live' = Live
  BY <1>3, <1>4, <1>5, <1>6 DEF Live
<1>8. CreditsBalance'
  <2>1. Balanced(Credits, Live, N, Heaviest)
    BY <1>1 DEF CreditsBalance
  <2> HIDE DEF N
  <2>2. Balanced(Credits', Live, N, Heaviest)
    BY <1>2, <1>4, <1>5, <2>1, RoundStaysBalanced
  <2>3. Balanced(Credits', Live', Len(slots'), Heaviest)
    BY <1>4, <1>7, <2>2
  <2> QED
    BY <2>3 DEF CreditsBalance, Balanced, Heaviest
<1>9. DeadOwesNothing'
  <2>1. \A i \in E : slots[i].key \notin dead
    BY <1>2 DEF Live
  <2> QED
    BY <1>1, <1>3, <1>4, <1>6, <2>1 DEF DeadOwesNothing
<1>10. WeightsKnown'
  BY <1>1, <1>4, <1>6 DEF WeightsKnown
<1> QED
  BY <1>8, <1>9, <1>10

\* Who loses a round is credited with its weight, who wins starts afresh.
LEMMA AcquireCredits ==
  ASSUME FairInv, NEW c \in Callers, NEW m \in Models \cup {NoModel}, NEW limit \in Limits,
         AcquireAndCount(c, m, limit), Candidates(m, limit) # {}, CreditBounded'
  PROVE  PassedIsCredited'
<1> DEFINE E == Candidates(m, limit)
           w == Selected(E)
           losers == {slots[i].key : i \in E \ {w}}
<1>1. TypeOK /\ WeightsConsistent /\ WeightsKnown /\ PassedIsCredited
  BY DEF FairInv
<1>2. E \subseteq DOMAIN slots /\ E # {}
  BY DEF Candidates
<1>3. slots' = AfterRound(E)
  BY DEF AcquireAndCount, AcquireKey
<1>4. passed' = [k \in Keys |-> IF k = slots[w].key THEN 0
                                ELSE IF k \in losers THEN passed[k] + 1 ELSE passed[k]]
  BY DEF AcquireAndCount
<1> HIDE DEF E
<1>5. w \in E /\ DOMAIN slots' = DOMAIN slots
  BY <1>1, <1>2, <1>3, SelectedIsCandidate DEF TypeOK, AfterRound
<1>6. \A i \in DOMAIN slots :
        /\ slots'[i].key = slots[i].key
        /\ slots'[i].currentWeight =
             IF i \notin E THEN slots[i].currentWeight
             ELSE IF i = w THEN Raised(i) - TotalWeight(E) ELSE Raised(i)
  BY <1>1, <1>2, <1>3, RoundSlot
<1>7. passed' \in [Keys -> Nat]
  <2>1. passed \in [Keys -> Nat]
    BY <1>1 DEF PassedIsCredited
  <2> HIDE DEF losers, w
  <2> QED
    BY <1>4, <2>1
<1>8. ActiveKeys' = ActiveKeys
  BY <1>5, <1>6 DEF ActiveKeys
<1>9. ASSUME NEW k \in Keys \ ActiveKeys PROVE passed'[k] = 0
  <2>1. \A i \in DOMAIN slots : slots[i].key # k
    BY <1>9 DEF ActiveKeys
  <2>2. k # slots[w].key /\ k \notin losers
    BY <1>2, <1>5, <2>1
  <2> QED
    BY <1>1, <1>4, <2>2 DEF PassedIsCredited
<1>10. ASSUME NEW i \in DOMAIN slots
       PROVE  passed'[slots'[i].key] * Lightest <= slots'[i].currentWeight + CreditBound
  <2> DEFINE k == slots[i].key
  <2>1. k \in Keys /\ slots[i].currentWeight \in Int /\ slots[i].weight \in Nat
        /\ Lightest <= slots[i].weight /\ Lightest \in Nat \ {0}
    BY <1>1, SlotsAre, LoadsAreKnown, WeightsAre DEF Slot
  <2>2. passed[k] * Lightest <= slots[i].currentWeight + CreditBound /\ passed[k] \in Nat
    BY <1>1, <2>1 DEF PassedIsCredited
  <2>3. CreditBound \in Int
    BY <1>1, SlotsAreFew, WeightsAre DEF CreditBound, Heaviest
  <2>4. slots'[i].key = k
    BY <1>6
  <2> HIDE DEF k
  <2>5. CASE i = w
    <3>1. passed'[k] = 0
      BY <1>4, <2>1, <2>5 DEF k
    <3>2. slots'[i].currentWeight \in -CreditBound .. CreditBound
      BY <1>5 DEF CreditBounded
    <3> QED
      BY <2>1, <2>3, <2>4, <3>1, <3>2
  <2>6. CASE i # w /\ i \in E
    <3>1. k # slots[w].key /\ k \in losers
      <4>1. slots[i].key # slots[w].key
        BY <1>1, <1>2, <1>5, <2>6 DEF WeightsConsistent
      <4> QED
        BY <2>6, <4>1 DEF k
    <3>2. passed'[k] = passed[k] + 1
      BY <1>4, <2>1, <3>1
    <3>3. slots'[i].currentWeight = slots[i].currentWeight + slots[i].weight
      BY <1>6, <2>6 DEF Raised
    <3>4. (passed[k] + 1) * Lightest = passed[k] * Lightest + Lightest
          /\ passed[k] * Lightest \in Int
      BY <2>1, <2>2
    <3> QED
      BY <2>1, <2>2, <2>3, <2>4, <3>2, <3>3, <3>4
  <2>7. CASE i \notin E
    <3>1. k # slots[w].key /\ k \notin losers
      <4>1. \A j \in E : slots[j].key # slots[i].key
        BY <1>1, <1>2, <2>7 DEF WeightsConsistent
      <4> QED
        BY <1>5, <4>1 DEF k
    <3>2. passed'[k] = passed[k]
      BY <1>4, <2>1, <3>1
    <3>3. slots'[i].currentWeight = slots[i].currentWeight
      BY <1>6, <2>7
    <3> QED
      BY <2>2, <2>4, <3>2, <3>3
  <2> QED
    BY <2>5, <2>6, <2>7
<1> HIDE DEF losers, w
<1>11. \A k \in Keys \ ActiveKeys' : passed'[k] = 0
  BY <1>8, <1>9
<1>12. CreditBound' = CreditBound /\ Lightest' = Lightest
  BY DEF CreditBound, Lightest
<1> QED
  BY <1>5, <1>7, <1>10, <1>11, <1>12 DEF PassedIsCredited

\* A step that rewrites the slots in place and leaves credits alone.
LEMMA InPlaceFair ==
  ASSUME FairInv, NEW f, slots' = f, DOMAIN f = DOMAIN slots, slots' \in Seq(Slot),
         \A i \in DOMAIN slots :
           /\ f[i].key = slots[i].key /\ f[i].currentWeight = slots[i].currentWeight
           /\ f[i].baseWeight \in BaseWeights
           /\ f[i].healthMult \in {clampHealthMultiplier(x) : x \in Multipliers \cup {Neutral}},
         UNCHANGED <<dead, passed>>
  PROVE  WeightsKnown' /\ CreditsBalance' /\ DeadOwesNothing' /\ PassedIsCredited'
<1>1. Len(slots') = Len(slots)
  <2>1. /\ Len(slots) \in Nat /\ DOMAIN slots = 1 .. Len(slots)
        /\ Len(slots') \in Nat /\ DOMAIN slots' = 1 .. Len(slots')
    BY LenProperties DEF FairInv, TypeOK
  <2>2. \A a, b \in Nat : 1 .. a = 1 .. b => a = b
    <3> SUFFICES ASSUME NEW a \in Nat, NEW b \in Nat, 1 .. a = 1 .. b, a < b PROVE FALSE
      OBVIOUS
    <3>1. b \in 1 .. b /\ b \notin 1 .. a
      OBVIOUS
    <3> QED
      BY <3>1
  <2> QED
    BY <2>1, <2>2
<1>2. CreditsBalance' /\ DeadOwesNothing' /\ PassedIsCredited'
  BY <1>1, SameAccounts DEF FairInv
<1>3. WeightsKnown'
  BY DEF WeightsKnown
<1> QED
  BY <1>2, <1>3

\* What leaves the slice alone.
LEMMA SameSliceFair ==
  ASSUME FairInv, UNCHANGED <<slots, dead, passed>>
  PROVE  WeightsKnown' /\ CreditsBalance' /\ DeadOwesNothing' /\ PassedIsCredited'
<1>1. CreditsBalance' /\ DeadOwesNothing' /\ PassedIsCredited'
  BY SameAccounts DEF FairInv
<1>2. WeightsKnown'
  BY DEF FairInv, WeightsKnown
<1> QED
  BY <1>1, <1>2

\* A score is a known multiplier.
LEMMA ScoreFair ==
  ASSUME FairInv, NEW k \in Keys, NEW x \in Multipliers, SetHealthMultiplier(k, x),
         passed' = passed
  PROVE  WeightsKnown' /\ CreditsBalance' /\ DeadOwesNothing' /\ PassedIsCredited'
<1> DEFINE y == clampHealthMultiplier(x)
           f == [i \in DOMAIN slots |->
                   IF slots[i].key # k THEN slots[i]
                   ELSE [slots[i] EXCEPT !.healthMult = y,
                                         !.weight = slots[i].baseWeight * y]]
           Mults == {clampHealthMultiplier(z) : z \in Multipliers \cup {Neutral}}
<1>1. TypeOK /\ WeightsConsistent /\ WeightsKnown
  BY DEF FairInv
<1>2. slots' = f /\ dead' = dead
  BY DEF SetHealthMultiplier
<1>3. slots' \in Seq(Slot)
  BY <1>1, MultiplierSlice
<1>4. y \in Mults
  OBVIOUS
<1>5. \A i \in DOMAIN slots : slots[i].healthMult \in Mults /\ slots[i].baseWeight \in BaseWeights
  BY <1>1 DEF WeightsKnown
<1> HIDE DEF y, Mults
<1>6. ASSUME NEW i \in DOMAIN slots
      PROVE  /\ f[i].key = slots[i].key /\ f[i].currentWeight = slots[i].currentWeight
             /\ f[i].baseWeight \in BaseWeights /\ f[i].healthMult \in Mults
  <2>1. slots[i] \in Slot
    BY <1>1, SlotsAre
  <2> QED
    BY <1>4, <1>5, <2>1 DEF Slot
<1>7. DOMAIN f = DOMAIN slots
  OBVIOUS
<1> HIDE DEF f
<1> QED
  BY <1>2, <1>3, <1>6, <1>7, InPlaceFair DEF Mults

\* A registered key that is registered again keeps its credit.
LEMMA ReaddFair ==
  ASSUME FairInv, NEW k \in Keys, NEW w \in BaseWeights, AddKey(k, w),
         k \in ActiveKeys, passed' = passed
  PROVE  WeightsKnown' /\ CreditsBalance' /\ DeadOwesNothing' /\ PassedIsCredited'
<1> DEFINE f == [i \in DOMAIN slots |->
                   IF slots[i].key # k THEN slots[i]
                   ELSE [slots[i] EXCEPT !.baseWeight = w,
                                         !.weight = w * slots[i].healthMult]]
           Mults == {clampHealthMultiplier(z) : z \in Multipliers \cup {Neutral}}
<1>1. TypeOK /\ WeightsConsistent /\ WeightsKnown
  BY DEF FairInv
<1>2. slots' = f /\ dead' = dead
  BY DEF AddKey
<1>3. slots' \in Seq(Slot)
  BY <1>1, AddSlice
<1>4. \A i \in DOMAIN slots : slots[i].healthMult \in Mults /\ slots[i].baseWeight \in BaseWeights
  BY <1>1 DEF WeightsKnown
<1> HIDE DEF Mults
<1>5. ASSUME NEW i \in DOMAIN slots
      PROVE  /\ f[i].key = slots[i].key /\ f[i].currentWeight = slots[i].currentWeight
             /\ f[i].baseWeight \in BaseWeights /\ f[i].healthMult \in Mults
  <2>1. slots[i] \in Slot
    BY <1>1, SlotsAre
  <2> QED
    BY <1>4, <2>1 DEF Slot
<1>6. DOMAIN f = DOMAIN slots
  OBVIOUS
<1> HIDE DEF f
<1> QED
  BY <1>2, <1>3, <1>5, <1>6, InPlaceFair DEF Mults

\* A new key starts with no credit and nothing to be credited for.
LEMMA AddFair ==
  ASSUME FairInv, NEW k \in Keys, NEW w \in BaseWeights, AddKey(k, w),
         k \notin ActiveKeys, passed' = passed, CreditBound >= 0
  PROVE  WeightsKnown' /\ CreditsBalance' /\ DeadOwesNothing' /\ PassedIsCredited'
<1> DEFINE N == Len(slots)
           s == [key |-> k, baseWeight |-> w, healthMult |-> Neutral,
                 weight |-> w * Neutral, currentWeight |-> 0]
<1>1. /\ TypeOK /\ WeightsConsistent /\ WeightsKnown /\ CreditsBalance
      /\ DeadOwesNothing /\ PassedIsCredited
  BY DEF FairInv
<1>2. slots' = Append(slots, s) /\ dead' = dead
  BY DEF AddKey
<1>3. s.key = k /\ s.baseWeight = w /\ s.healthMult = Neutral /\ s.currentWeight = 0
  OBVIOUS
<1>4. s \in Slot
  <2>1. w \in Nat /\ w * Neutral \in Nat /\ Neutral \in Nat
    BY SchedulerAssumption DEF Neutral
  <2> QED
    BY <2>1 DEF Slot
<1> HIDE DEF s
<1>5. /\ N \in Nat /\ DOMAIN slots = 1 .. N
      /\ Len(slots') = N + 1 /\ DOMAIN slots' = 1 .. N + 1
      /\ slots'[N + 1] = s
      /\ \A i \in 1 .. N : slots'[i] = slots[i]
  BY <1>1, <1>2, <1>4 DEF TypeOK
<1> HIDE DEF N
<1>6. \A i \in 1 .. N + 1 : i \in 1 .. N \/ i = N + 1
  BY <1>5
<1>7. WeightsKnown'
  <2>1. clampHealthMultiplier(Neutral) = Neutral
    BY DEF clampHealthMultiplier, Neutral, MinMultiplier, MaxMultiplier
  <2>2. Neutral \in {clampHealthMultiplier(x) : x \in Multipliers \cup {Neutral}}
    BY <2>1
  <2> QED
    BY <1>1, <1>3, <1>5, <1>6, <2>2 DEF WeightsKnown
<1>8. DeadOwesNothing'
  BY <1>1, <1>2, <1>3, <1>5, <1>6 DEF DeadOwesNothing
<1>9. CreditsBalance'
  <2>1. Credits \in Values(N) /\ Heaviest \in Nat
    BY <1>1, SliceValues, WeightsAre DEF TypeOK, N
  <2>2. /\ \A i \in 1 .. N : Credits'[i] = Credits[i]
        /\ Credits'[N + 1] = 0
    BY <1>3, <1>5 DEF Credits, N
  <2>3. Credits' \in Values(N + 1)
    <3>1. Credits' = [i \in 1 .. N + 1 |-> slots'[i].currentWeight]
      BY <1>5 DEF Credits
    <3>2. \A i \in 1 .. N : Credits[i] \in Int /\ Credits[i] = slots[i].currentWeight
      BY <2>1 DEF Values, Credits, N
    <3>3. \A i \in 1 .. N + 1 : slots'[i].currentWeight \in Int
      BY <1>3, <1>5, <1>6, <3>2
    <3> QED
      BY <3>1, <3>3 DEF Values
  <2>4. Balanced(Credits, Live, N, Heaviest)
    BY <1>1 DEF CreditsBalance, N
  <2>5. Balanced(Credits', Live \cup {N + 1}, N + 1, Heaviest)
    BY <1>5, <2>1, <2>2, <2>3, <2>4, BalancedGrows
  <2>6. Live' \subseteq Live \cup {N + 1}
    BY <1>2, <1>5, <1>6 DEF Live, N
  <2>7. Balanced(Credits', Live', N + 1, Heaviest)
    <3>1. N + 1 \in Nat
      BY <1>5
    <3> QED
      BY <2>1, <2>5, <2>6, <3>1, BalancedAlong
  <2> QED
    BY <1>5, <2>7 DEF CreditsBalance, Balanced, Heaviest
<1>10. PassedIsCredited'
  <2>1. ActiveKeys' = ActiveKeys \cup {k}
    BY <1>1, AddSlice
  <2>2. passed' \in [Keys -> Nat] /\ \A j \in Keys \ ActiveKeys' : passed'[j] = 0
    BY <1>1, <2>1 DEF PassedIsCredited
  <2>3. CreditBound' = CreditBound /\ Lightest' = Lightest /\ Lightest \in Nat
    BY WeightsAre DEF CreditBound, Lightest
  <2>4. passed[k] * Lightest <= s.currentWeight + CreditBound
    <3>1. passed[k] = 0
      BY <1>1 DEF PassedIsCredited
    <3>2. CreditBound \in Int
      BY <1>1, SlotsAreFew, WeightsAre DEF CreditBound, Heaviest
    <3> QED
      BY <1>3, <2>3, <3>1, <3>2
  <2>5. \A i \in 1 .. N : passed[slots[i].key] * Lightest
                            <= slots[i].currentWeight + CreditBound
    BY <1>1, <1>5 DEF PassedIsCredited
  <2>6. \A i \in DOMAIN slots' : passed'[slots'[i].key] * Lightest
                                   <= slots'[i].currentWeight + CreditBound
    BY <1>3, <1>5, <1>6, <2>4, <2>5
  <2> QED
    BY <2>2, <2>3, <2>6 DEF PassedIsCredited
<1> QED
  BY <1>7, <1>8, <1>9, <1>10

\* The band of the credits is not empty.
LEMMA BoundIsNatural ==
  ASSUME NEW k \in Keys
  PROVE  CreditBound \in Nat
<1>1. Cardinality(Keys) \in Nat
  BY FairnessAssumption, FS_CardinalityType
<1>2. Cardinality(Keys) # 0
  BY FairnessAssumption, FS_EmptySet
<1>3. Heaviest \in Nat
  BY WeightsAre
<1>4. \A x, y \in Nat : x # 0 => (x - 1) * y \in Nat
  OBVIOUS
<1> QED
  BY <1>1, <1>2, <1>3, <1>4 DEF CreditBound, Heaviest

\* A dead key leaves the balance, and its account starts afresh.
LEMMA DeadFair ==
  ASSUME FairInv, NEW k \in Keys, MarkDead(k), passed' = [passed EXCEPT ![k] = 0]
  PROVE  WeightsKnown' /\ CreditsBalance' /\ DeadOwesNothing' /\ PassedIsCredited'
<1> DEFINE f == [i \in DOMAIN slots |->
                   IF slots[i].key # k THEN slots[i]
                   ELSE [slots[i] EXCEPT !.currentWeight = 0]]
           N == Len(slots)
<1>1. /\ TypeOK /\ WeightsConsistent /\ WeightsKnown /\ CreditsBalance
      /\ DeadOwesNothing /\ PassedIsCredited
  BY DEF FairInv
<1>2. slots' = f /\ dead' = dead \cup {k}
  BY DEF MarkDead
<1>3. slots' \in Seq(Slot) /\ ActiveKeys' = ActiveKeys
  BY <1>1, DeadSlice
<1>4. DOMAIN f = DOMAIN slots
  OBVIOUS
<1>5. ASSUME NEW i \in DOMAIN slots
      PROVE  /\ f[i].key = slots[i].key
             /\ f[i].baseWeight = slots[i].baseWeight
             /\ f[i].healthMult = slots[i].healthMult
             /\ f[i].currentWeight = IF slots[i].key = k THEN 0 ELSE slots[i].currentWeight
  <2>1. slots[i] \in Slot
    BY <1>1, SlotsAre
  <2> QED
    BY <2>1 DEF Slot
<1> HIDE DEF f
<1>6. N \in Nat /\ DOMAIN slots = 1 .. N /\ Heaviest \in Nat
  BY <1>1, SliceValues, WeightsAre DEF TypeOK
<1>7. Len(slots') = N
  <2>1. Len(slots') \in Nat /\ 1 .. Len(slots') = 1 .. N
    BY <1>2, <1>3, <1>4, <1>6, LenProperties
  <2>2. \A a, b \in Nat : 1 .. a = 1 .. b => a = b
    <3> SUFFICES ASSUME NEW a \in Nat, NEW b \in Nat, 1 .. a = 1 .. b, a < b PROVE FALSE
      OBVIOUS
    <3>1. b \in 1 .. b /\ b \notin 1 .. a
      OBVIOUS
    <3> QED
      BY <3>1
  <2> HIDE DEF N
  <2> QED
    BY <1>6, <2>1, <2>2
<1>8. WeightsKnown'
  BY <1>1, <1>2, <1>4, <1>5 DEF WeightsKnown
<1>9. DeadOwesNothing'
  BY <1>1, <1>2, <1>4, <1>5 DEF DeadOwesNothing
<1>10. CreditsBalance'
  <2>1. Live' \subseteq Live
    BY <1>2, <1>4, <1>5, <1>6, <1>7 DEF Live
  <2>2. \A i \in Live' : Credits'[i] = Credits[i]
    BY <1>2, <1>4, <1>5, <1>6, <1>7 DEF Live, Credits
  <2>3. Balanced(Credits, Live, N, Heaviest)
    BY <1>1 DEF CreditsBalance
  <2> HIDE DEF N
  <2>4. Balanced(Credits', Live', N, Heaviest)
    BY <1>6, <2>1, <2>2, <2>3, BalancedAlong
  <2> QED
    BY <1>7, <2>4 DEF CreditsBalance, Balanced, Heaviest
<1>11. PassedIsCredited'
  <2>1. passed' \in [Keys -> Nat]
    BY <1>1 DEF PassedIsCredited
  <2>2. \A j \in Keys \ ActiveKeys' : passed'[j] = 0
    BY <1>1, <1>3 DEF PassedIsCredited
  <2>3. CreditBound' = CreditBound /\ Lightest' = Lightest
    BY DEF CreditBound, Lightest
  <2>4. CreditBound \in Nat /\ Lightest \in Nat
    BY BoundIsNatural, WeightsAre
  <2>5. ASSUME NEW i \in DOMAIN slots
        PROVE  passed'[f[i].key] * Lightest <= f[i].currentWeight + CreditBound
    <3>1. slots[i].key \in Keys
      BY <1>1, SlotsAre DEF Slot
    <3>2. CASE slots[i].key = k
      <4>1. passed'[f[i].key] = 0 /\ f[i].currentWeight = 0
        BY <1>1, <1>5, <3>2 DEF PassedIsCredited
      <4> QED
        BY <2>4, <4>1
    <3>3. CASE slots[i].key # k
      <4>1. passed'[f[i].key] = passed[slots[i].key]
            /\ f[i].currentWeight = slots[i].currentWeight
        BY <1>1, <1>5, <3>1, <3>3 DEF PassedIsCredited
      <4> QED
        BY <1>1, <4>1 DEF PassedIsCredited
    <3> QED
      BY <3>2, <3>3
  <2> QED
    BY <1>2, <1>4, <2>1, <2>2, <2>3, <2>5 DEF PassedIsCredited
<1> QED
  BY <1>8, <1>9, <1>10, <1>11

\* An empty slice is balanced.
LEMMA EmptyFair ==
  ASSUME slots = <<>>, passed = [k \in Keys |-> 0]
  PROVE  WeightsKnown /\ CreditsBalance /\ DeadOwesNothing /\ PassedIsCredited
<1>1. Len(slots) = 0 /\ DOMAIN slots = {} /\ slots \in Seq(Slot)
  OBVIOUS
<1>2. CreditsBalance
  <2>1. Credits \in Values(0) /\ Heaviest \in Nat
    BY <1>1, SliceValues, WeightsAre
  <2>2. Live = {}
    BY <1>1 DEF Live
  <2> QED
    BY <1>1, <2>1, <2>2, EmptyIsBalanced DEF CreditsBalance
<1> QED
  BY <1>1, <1>2 DEF WeightsKnown, DeadOwesNothing, PassedIsCredited

LEMMA EmptyStaysFair ==
  (slots = <<>> /\ passed = [k \in Keys |-> 0])' =>
    (WeightsKnown /\ CreditsBalance /\ DeadOwesNothing /\ PassedIsCredited)'
<1>1. slots = <<>> /\ passed = [k \in Keys |-> 0] =>
        WeightsKnown /\ CreditsBalance /\ DeadOwesNothing /\ PassedIsCredited
  BY EmptyFair
<1> QED
  BY <1>1, PTL

\* Every round keeps the accounts, with candidates or without.
LEMMA AcquireFair ==
  ASSUME FairInv, NEW c \in Callers, NEW m \in Models \cup {NoModel}, NEW limit \in Limits,
         AcquireAndCount(c, m, limit), TypeOK' /\ WeightsConsistent'
  PROVE  WeightsKnown' /\ CreditsBalance' /\ DeadOwesNothing' /\ PassedIsCredited'
<1>1. AcquireKey(c, m, limit)
  BY DEF AcquireAndCount
<1>2. CASE Candidates(m, limit) = {}
  <2>1. UNCHANGED <<slots, dead, passed>>
    BY <1>2 DEF AcquireAndCount, AcquireKey
  <2> QED
    BY <2>1, SameSliceFair
<1>3. CASE Candidates(m, limit) # {}
  <2>1. CreditsBalance' /\ DeadOwesNothing' /\ WeightsKnown'
    BY <1>1, <1>3, AcquireBalances
  <2>2. CreditBounded'
    BY <2>1, CreditsStayBounded
  <2>3. PassedIsCredited'
    BY <1>3, <2>2, AcquireCredits
  <2> QED
    BY <2>1, <2>3
<1> QED
  BY <1>2, <1>3

\* The counting scheduler takes the scheduler's steps.
LEMMA CountingSteps ==
  ASSUME [FairNext]_fairVars
  PROVE  [Next]_vars
<1>1. CASE FairNext
  <2>1. (\E c \in Callers, m \in Models \cup {NoModel}, limit \in Limits :
            AcquireAndCount(c, m, limit)) => Next
    BY DEF AcquireAndCount, Next
  <2> QED
    BY <1>1, <2>1 DEF FairNext, Next
<1>2. CASE UNCHANGED fairVars
  BY <1>2 DEF fairVars
<1> QED
  BY <1>1, <1>2

LEMMA FairInitially ==
  ASSUME FairInit
  PROVE  FairInv
<1>1. TypeOK /\ WeightsConsistent
  BY Initially DEF FairInit
<1>2. slots = <<>> /\ passed = [k \in Keys |-> 0]
  BY DEF FairInit, Init
<1> QED
  BY <1>1, <1>2, EmptyFair DEF FairInv

\* Every step keeps the accounts.
LEMMA FairStep ==
  ASSUME FairInv, [FairNext]_fairVars
  PROVE  FairInv'
<1> DEFINE Goal == WeightsKnown' /\ CreditsBalance' /\ DeadOwesNothing' /\ PassedIsCredited'
<1>1. TypeOK' /\ WeightsConsistent'
  BY CountingSteps, StepKeepsTypes DEF FairInv
<1>2. ASSUME NEW c \in Callers, NEW m \in Models \cup {NoModel}, NEW limit \in Limits,
             AcquireAndCount(c, m, limit)
      PROVE  Goal
  BY <1>1, <1>2, AcquireFair
<1>3. ASSUME NEW k \in Keys, MarkDead(k), passed' = [passed EXCEPT ![k] = 0]
      PROVE  Goal
  BY <1>3, DeadFair
<1>4. ASSUME Reset, passed' = [k \in Keys |-> 0] PROVE Goal
  <2>1. slots' = <<>>
    BY <1>4 DEF Reset
  <2> QED
    BY <1>4, <2>1, EmptyStaysFair
<1>5. ASSUME UNCHANGED <<slots, dead, passed>> PROVE Goal
  BY <1>5, SameSliceFair
<1>6. ASSUME NEW k \in Keys, NEW w \in BaseWeights, AddKey(k, w), UNCHANGED passed
      PROVE  Goal
  <2>1. CASE k \in ActiveKeys
    BY <1>6, <2>1, ReaddFair
  <2>2. CASE k \notin ActiveKeys
    <3>1. CreditBound >= 0
      BY BoundIsNatural
    <3> QED
      BY <1>6, <2>2, <3>1, AddFair
  <2> QED
    BY <2>1, <2>2
<1>7. ASSUME NEW k \in Keys, NEW x \in Multipliers, SetHealthMultiplier(k, x),
             UNCHANGED passed
      PROVE  Goal
  BY <1>7, ScoreFair
<1>8. ASSUME UNCHANGED passed,
             \/ \E c \in Callers : ReleaseKey(c)
             \/ \E c \in Callers, k \in Keys, m \in Models \cup {NoModel},
                    limit \in Limits : TryAcquireSpecificKey(c, k, m, limit)
             \/ \E k \in Keys, d \in Durations : MarkCooling(k, d)
             \/ \E k \in Keys, m \in Models, d \in Durations : MarkModelCooling(k, m, d)
             \/ CleanupExpired \/ Tick
      PROVE  Goal
  <2>1. UNCHANGED <<slots, dead>>
    BY <1>8 DEF ReleaseKey, Pool!ReleaseKey, TryAcquireSpecificKey,
         Pool!TryAcquireSpecificKey, Pool!Grant, MarkCooling, Pool!MarkCooling,
         MarkModelCooling, Pool!MarkModelCooling, CleanupExpired, Pool!CleanupExpired,
         Tick, Pool!Tick
  <2> QED
    BY <1>5, <1>8, <2>1
<1>9. ASSUME UNCHANGED fairVars PROVE Goal
  BY <1>5, <1>9 DEF fairVars, vars
<1> HIDE DEF Goal
<1>10. Goal
  BY <1>2, <1>3, <1>4, <1>6, <1>7, <1>8, <1>9 DEF FairNext
<1> QED
  BY <1>1, <1>10 DEF FairInv, Goal

\* What d goes into p times fits into q, if it fits at all.
LEMMA FitsInto ==
  ASSUME NEW p \in Nat, NEW q \in Nat, NEW d \in Nat \ {0}, p * d <= q
  PROVE  p <= q \div d
<1> DEFINE r == q \div d
<1>1. r \in Int /\ q < (r + 1) * d
  OBVIOUS
<1> HIDE DEF r
<1>2. CASE p >= r + 1
  <2>1. \A x, y \in Int : x >= y => x * d >= y * d
    OBVIOUS
  <2>2. p * d >= (r + 1) * d
    BY <1>1, <1>2, <2>1
  <2>3. (r + 1) * d \in Int /\ p * d \in Int
    BY <1>1
  <2> QED
    BY <1>1, <2>2, <2>3
<1>3. CASE p < r + 1
  BY <1>1, <1>3 DEF r
<1> QED
  BY <1>1, <1>2, <1>3

\* The credits' band bounds how often a key can have been passed over.
LEMMA NobodyIsStarved ==
  ASSUME FairInv
  PROVE  CreditBounded /\ NoStarvation
<1>1. CreditBounded
  BY CreditsAreBounded DEF FairInv
<1>2. ASSUME NEW k \in Keys
      PROVE  passed[k] <= (2 * CreditBound) \div Lightest
  <2>1. CreditBound \in Nat /\ Lightest \in Nat \ {0} /\ passed[k] \in Nat
    BY BoundIsNatural, WeightsAre DEF FairInv, PassedIsCredited
  <2>2. passed[k] * Lightest <= 2 * CreditBound
    <3>1. CASE k \notin ActiveKeys
      <4>1. passed[k] = 0
        BY <3>1 DEF FairInv, PassedIsCredited
      <4> QED
        BY <2>1, <4>1
    <3>2. CASE k \in ActiveKeys
      <4>1. PICK i \in DOMAIN slots : slots[i].key = k
        BY <3>2 DEF ActiveKeys
      <4>2. slots[i].currentWeight \in -CreditBound .. CreditBound
        BY <1>1 DEF CreditBounded
      <4>3. passed[k] * Lightest <= slots[i].currentWeight + CreditBound
        BY <4>1 DEF FairInv, PassedIsCredited
      <4>4. passed[k] * Lightest \in Nat
        BY <2>1
      <4> QED
        BY <2>1, <4>2, <4>3, <4>4
    <3> QED
      BY <3>1, <3>2
  <2> QED
    BY <2>1, <2>2, FitsInto
<1> QED
  BY <1>1, <1>2 DEF NoStarvation, Lightest

\* What a key of the round robin is owed or owes never exceeds one heaviest
\* weight per other key, whatever keys fill up, die, are reloaded or are given
\* another weight between the rounds (redis.go 321-350, 497-503).
THEOREM RoundRobinNeverDrifts == FairSpec => []CreditBounded
<1>1. FairInit => FairInv
  BY FairInitially
<1>2. FairInv /\ [FairNext]_fairVars => FairInv'
  BY FairStep
<1>3. FairInv => CreditBounded
  BY NobodyIsStarved
<1> QED
  BY <1>1, <1>2, <1>3, PTL DEF FairSpec

\* A key that could serve is passed over a bounded number of times before the
\* round robin hands it out, for every set of keys and of weights: each lost
\* round credits it with at least the lightest weight, and its credit stays in
\* its band (redis.go 135-138, 340-350).
THEOREM NobodyStarves == FairSpec => []NoStarvation
<1>1. FairInit => FairInv
  BY FairInitially
<1>2. FairInv /\ [FairNext]_fairVars => FairInv'
  BY FairStep
<1>3. FairInv => NoStarvation
  BY NobodyIsStarved
<1> QED
  BY <1>1, <1>2, <1>3, PTL DEF FairSpec

=============================================================================
