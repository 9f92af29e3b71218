--------------------------- MODULE AdmissionProofs ---------------------------
(***************************************************************************)
(* TypeOK, RateHolds, MonthlyMatchesDaily and OverspendBounded for any     *)
(* number of handlers and requests, any limits and any calendar.  The sums *)
(* of the model are folds over finite sets: their laws come first, each    *)
(* from a smallest set that would break it.                                *)
(***************************************************************************)
EXTENDS Admission, FiniteSetTheorems, WellFoundedInduction, TLAPS
-----------------------------------------------------------------------------
(* Sums over finite sets.                                                  *)

\* Among the finite subsets of D that have some property, one is smallest.
LEMMA SmallestSubset ==
    ASSUME NEW D, IsFiniteSet(D), NEW T \in SUBSET (SUBSET D), T # {}
    PROVE  \E s \in T : \A t \in T : t \subseteq s => t = s
<1>1. FiniteSubsetsOf(D) = SUBSET D
  BY FS_FiniteSubsetsOfFinite
<1>2. IsWellFoundedOn(StrictSubsetOrdering(D), SUBSET D)
  BY <1>1, FS_StrictSubsetOrderingWellFounded
<1>3. \E s \in T : \A t \in T : ~ (<<t, s>> \in StrictSubsetOrdering(D))
  BY <1>2, WFMin
<1>4. QED
  BY <1>3 DEF StrictSubsetOrdering

Pick(s) == CHOOSE x \in s : TRUE
\* g is the function that the sum of f over D is defined by.
Sums(f, D, g) ==
    g = [s \in SUBSET D |-> IF s = {} THEN 0 ELSE f[Pick(s)] + g[s \ {Pick(s)}]]

LEMMA PickIn == \A s : s # {} => Pick(s) \in s
BY DEF Pick

LEMMA SumsAre ==
    ASSUME NEW f, NEW D
    PROVE  SumFunctionOnSet(f, D) = (CHOOSE g : Sums(f, D, g))[D]
BY DEF SumFunctionOnSet, FoldFunctionOnSet, MapThenFoldSet, Sums, Pick

LEMMA SumsAt ==
    ASSUME NEW f, NEW D, NEW g, Sums(f, D, g), NEW s \in SUBSET D
    PROVE  g[s] = IF s = {} THEN 0 ELSE f[Pick(s)] + g[s \ {Pick(s)}]
BY DEF Sums

LEMMA SumsAgree ==
    ASSUME NEW f, NEW D, NEW E, NEW g, NEW h, Sums(f, D, g), Sums(f, E, h),
           NEW s \in SUBSET D, s \in SUBSET E, IsFiniteSet(s)
    PROVE  g[s] = h[s]
<1> DEFINE T == {t \in SUBSET s : g[t] # h[t]}
<1>. SUFFICES ASSUME T # {} PROVE FALSE
  OBVIOUS
<1>1. PICK t \in T : \A u \in T : u \subseteq t => u = t
  <2>1. T \in SUBSET (SUBSET s)
    OBVIOUS
  <2> HIDE DEF T
  <2>2. QED
    BY <2>1, SmallestSubset
<1>2. t \in SUBSET D /\ t \in SUBSET E
  OBVIOUS
<1>3. CASE t = {}
  BY <1>2, <1>3, SumsAt
<1>4. CASE t # {}
  <2>1. Pick(t) \in t
    BY <1>4, PickIn
  <2>2. t \ {Pick(t)} \notin T
    BY <1>1, <2>1
  <2>3. g[t \ {Pick(t)}] = h[t \ {Pick(t)}]
    BY <2>2
  <2>4. /\ g[t] = f[Pick(t)] + g[t \ {Pick(t)}]
        /\ h[t] = f[Pick(t)] + h[t \ {Pick(t)}]
    BY <1>2, <1>4, SumsAt
  <2>5. QED
    BY <2>3, <2>4
<1>5. QED
  BY <1>3, <1>4

LEMMA SumsExist ==
    ASSUME NEW f, NEW D, IsFiniteSet(D)
    PROVE  \E g : Sums(f, D, g)
<1> DEFINE T == {s \in SUBSET D : ~ \E g : Sums(f, s, g)}
<1>. SUFFICES ASSUME T # {} PROVE FALSE
  OBVIOUS
<1>1. PICK s \in T : \A t \in T : t \subseteq s => t = s
  <2>1. T \in SUBSET (SUBSET D)
    OBVIOUS
  <2> HIDE DEF T
  <2>2. QED
    BY <2>1, SmallestSubset
<1> DEFINE G(t) == CHOOSE g : Sums(f, t, g)
<1>2. \A t \in SUBSET s : t # s => Sums(f, t, G(t))
  BY <1>1
<1> DEFINE h == [t \in SUBSET s |->
                   IF t = {} THEN 0 ELSE f[Pick(t)] + G(t \ {Pick(t)})[t \ {Pick(t)}]]
<1> HIDE DEF G
<1>3. ASSUME NEW t \in SUBSET s, t # s PROVE h[t] = G(t)[t]
  <2>1. Sums(f, t, G(t)) /\ t \in SUBSET t
    BY <1>2, <1>3
  <2>2. CASE t = {}
    BY <2>1, <2>2, SumsAt
  <2>3. CASE t # {}
    <3> DEFINE u == t \ {Pick(t)}
    <3>1. u \in SUBSET t /\ u # t /\ u \in SUBSET s /\ u # s /\ u \in SUBSET u
      BY <1>3, <2>3, PickIn
    <3>2. Sums(f, u, G(u))
      BY <1>2, <3>1
    <3>3. IsFiniteSet(u)
      BY <3>1, FS_Subset
    <3> HIDE DEF u
    <3>4. G(t)[u] = G(u)[u]
      BY <2>1, <3>1, <3>2, <3>3, SumsAgree
    <3>5. G(t)[t] = f[Pick(t)] + G(t)[u]
      BY <2>1, <2>3, SumsAt DEF u
    <3>6. h[t] = f[Pick(t)] + G(u)[u]
      BY <2>3 DEF u
    <3>7. QED
      BY <3>4, <3>5, <3>6
  <2>4. QED
    BY <2>2, <2>3
<1>4. \A t \in SUBSET s : t # {} => h[t] = f[Pick(t)] + h[t \ {Pick(t)}]
  <2>. SUFFICES ASSUME NEW t \in SUBSET s, t # {}
       PROVE  h[t] = f[Pick(t)] + h[t \ {Pick(t)}]
    OBVIOUS
  <2> DEFINE u == t \ {Pick(t)}
  <2>1. u \in SUBSET s /\ u # s
    BY PickIn
  <2>2. h[u] = G(u)[u]
    BY <1>3, <2>1
  <2>3. QED
    BY <2>2
<1>5. Sums(f, s, h)
  <2>1. h = [t \in SUBSET s |-> IF t = {} THEN 0 ELSE f[Pick(t)] + h[t \ {Pick(t)}]]
    <3>1. h = [t \in SUBSET s |-> h[t]]
      OBVIOUS
    <3>2. h[{}] = 0
      OBVIOUS
    <3> HIDE DEF h
    <3>3. QED
      BY <1>4, <3>1, <3>2
  <2> HIDE DEF h
  <2>2. QED
    BY <2>1 DEF Sums
<1>6. QED
  BY <1>1, <1>5

LEMMA SumStep ==
    ASSUME NEW f, NEW D, IsFiniteSet(D)
    PROVE  SumFunctionOnSet(f, D) =
             IF D = {} THEN 0 ELSE f[Pick(D)] + SumFunctionOnSet(f, D \ {Pick(D)})
<1> DEFINE E == D \ {Pick(D)}
<1> DEFINE g == CHOOSE g : Sums(f, D, g)
<1> DEFINE h == CHOOSE h : Sums(f, E, h)
<1>1. IsFiniteSet(E) /\ E \in SUBSET D /\ E \in SUBSET E /\ D \in SUBSET D
  BY FS_Subset
<1>2. Sums(f, D, g) /\ SumFunctionOnSet(f, D) = g[D]
  BY SumsExist, SumsAre
<1>3. Sums(f, E, h) /\ SumFunctionOnSet(f, E) = h[E]
  BY <1>1, SumsExist, SumsAre
<1> HIDE DEF E, g, h
<1>4. g[E] = h[E]
  BY <1>1, <1>2, <1>3, SumsAgree
<1>5. g[D] = IF D = {} THEN 0 ELSE f[Pick(D)] + g[E]
  BY <1>1, <1>2, SumsAt DEF E
<1>6. QED
  BY <1>2, <1>3, <1>4, <1>5 DEF E

\* A sum of naturals is a natural.
LEMMA SumType ==
    ASSUME NEW f, NEW D, IsFiniteSet(D), \A x \in D : f[x] \in Nat
    PROVE  SumFunctionOnSet(f, D) \in Nat
<1> DEFINE T == {s \in SUBSET D : SumFunctionOnSet(f, s) \notin Nat}
<1>. SUFFICES ASSUME T # {} PROVE FALSE
  OBVIOUS
<1>1. PICK s \in T : \A t \in T : t \subseteq s => t = s
  <2>1. T \in SUBSET (SUBSET D)
    OBVIOUS
  <2> HIDE DEF T
  <2>2. QED
    BY <2>1, SmallestSubset
<1>2. IsFiniteSet(s)
  BY FS_Subset
<1>3. s # {} /\ SumFunctionOnSet(f, s) = f[Pick(s)] + SumFunctionOnSet(f, s \ {Pick(s)})
  <2>1. SumFunctionOnSet(f, s) =
            IF s = {} THEN 0 ELSE f[Pick(s)] + SumFunctionOnSet(f, s \ {Pick(s)})
    BY <1>2, SumStep
  <2>2. SumFunctionOnSet(f, s) # 0
    OBVIOUS
  <2> HIDE DEF T
  <2>3. QED
    BY <2>1, <2>2
<1>4. Pick(s) \in s
  BY <1>3, PickIn
<1>5. SumFunctionOnSet(f, s \ {Pick(s)}) \in Nat
  BY <1>1, <1>4
<1>6. f[Pick(s)] \in Nat
  BY <1>4
<1>7. QED
  BY <1>3, <1>5, <1>6

LEMMA SumRemove ==
    ASSUME NEW f, NEW D, IsFiniteSet(D), \A x \in D : f[x] \in Nat, NEW y \in D
    PROVE  SumFunctionOnSet(f, D) = f[y] + SumFunctionOnSet(f, D \ {y})
<1> DEFINE Fails(s, x) == SumFunctionOnSet(f, s) # f[x] + SumFunctionOnSet(f, s \ {x})
<1> DEFINE T == {s \in SUBSET D : \E x \in s : Fails(s, x)}
<1>. SUFFICES ASSUME T # {} PROVE FALSE
  OBVIOUS
<1>1. PICK s \in T : \A t \in T : t \subseteq s => t = s
  <2>1. T \in SUBSET (SUBSET D)
    OBVIOUS
  <2> HIDE DEF T
  <2>2. QED
    BY <2>1, SmallestSubset
<1>2. PICK x \in s : Fails(s, x)
  OBVIOUS
<1> DEFINE p == Pick(s)
<1>3. p \in s
  BY <1>2, PickIn
<1>4. \A t \in SUBSET s : IsFiniteSet(t) /\ SumFunctionOnSet(f, t) \in Nat
  <2>1. \A t \in SUBSET s : IsFiniteSet(t)
    BY FS_Subset
  <2>2. QED
    BY <2>1, SumType
<1>5. SumFunctionOnSet(f, s) = f[p] + SumFunctionOnSet(f, s \ {p})
  BY <1>2, <1>4, SumStep
<1>6. x # p
  BY <1>2, <1>5
<1> HIDE DEF p
<1>7. /\ SumFunctionOnSet(f, s \ {p}) = f[x] + SumFunctionOnSet(f, (s \ {p}) \ {x})
      /\ SumFunctionOnSet(f, s \ {x}) = f[p] + SumFunctionOnSet(f, (s \ {x}) \ {p})
  <2>1. s \ {p} \in SUBSET D /\ s \ {p} \notin T /\ x \in s \ {p}
    BY <1>1, <1>3, <1>6
  <2>2. s \ {x} \in SUBSET D /\ s \ {x} \notin T /\ p \in s \ {x}
    BY <1>1, <1>3, <1>6
  <2>3. QED
    BY <2>1, <2>2
<1>8. (s \ {p}) \ {x} = (s \ {x}) \ {p}
  OBVIOUS
<1>9. SumFunctionOnSet(f, (s \ {p}) \ {x}) \in Nat /\ f[p] \in Nat /\ f[x] \in Nat
  BY <1>3, <1>4
<1>10. SumFunctionOnSet(f, s) = f[x] + SumFunctionOnSet(f, s \ {x})
  <2> DEFINE rest == SumFunctionOnSet(f, (s \ {p}) \ {x})
  <2>1. /\ SumFunctionOnSet(f, s) = f[p] + (f[x] + rest)
        /\ SumFunctionOnSet(f, s \ {x}) = f[p] + rest
    BY <1>5, <1>7, <1>8
  <2>2. rest \in Nat /\ f[p] \in Nat /\ f[x] \in Nat
    BY <1>9
  <2> HIDE DEF rest
  <2>3. QED
    BY <2>1, <2>2
<1>11. QED
  BY <1>2, <1>10

LEMMA SumEqual ==
    ASSUME NEW f, NEW g, NEW D, IsFiniteSet(D), \A x \in D : f[x] = g[x]
    PROVE  SumFunctionOnSet(f, D) = SumFunctionOnSet(g, D)
<1> DEFINE T == {s \in SUBSET D : SumFunctionOnSet(f, s) # SumFunctionOnSet(g, s)}
<1>. SUFFICES ASSUME T # {} PROVE FALSE
  OBVIOUS
<1>1. PICK s \in T : \A t \in T : t \subseteq s => t = s
  <2>1. T \in SUBSET (SUBSET D)
    OBVIOUS
  <2> HIDE DEF T
  <2>2. QED
    BY <2>1, SmallestSubset
<1>2. IsFiniteSet(s)
  BY FS_Subset
<1>3. /\ SumFunctionOnSet(f, s) =
            IF s = {} THEN 0 ELSE f[Pick(s)] + SumFunctionOnSet(f, s \ {Pick(s)})
      /\ SumFunctionOnSet(g, s) =
            IF s = {} THEN 0 ELSE g[Pick(s)] + SumFunctionOnSet(g, s \ {Pick(s)})
  BY <1>2, SumStep
<1>4. s # {}
  BY <1>3
<1>5. Pick(s) \in s
  BY <1>4, PickIn
<1>6. SumFunctionOnSet(f, s \ {Pick(s)}) = SumFunctionOnSet(g, s \ {Pick(s)})
  BY <1>1, <1>5
<1>7. QED
  BY <1>3, <1>4, <1>5, <1>6

\* The sum when one value changes.
LEMMA SumUpdate ==
    ASSUME NEW f, NEW g, NEW D, IsFiniteSet(D), NEW y \in D,
           \A x \in D : f[x] \in Nat, g[y] \in Nat, \A x \in D \ {y} : g[x] = f[x]
    PROVE  SumFunctionOnSet(g, D) = SumFunctionOnSet(f, D) - f[y] + g[y]
<1>1. IsFiniteSet(D \ {y})
  BY FS_Subset
<1>2. SumFunctionOnSet(f, D \ {y}) = SumFunctionOnSet(g, D \ {y})
  BY <1>1, SumEqual
<1>3. \A x \in D : g[x] \in Nat
  OBVIOUS
<1>4. /\ SumFunctionOnSet(f, D) = f[y] + SumFunctionOnSet(f, D \ {y})
      /\ SumFunctionOnSet(g, D) = g[y] + SumFunctionOnSet(g, D \ {y})
  BY <1>3, SumRemove
<1>5. SumFunctionOnSet(f, D \ {y}) \in Nat /\ f[y] \in Nat /\ g[y] \in Nat
  BY <1>1, SumType
<1>6. QED
  BY <1>2, <1>4, <1>5

\* No value is larger than the sum.
LEMMA SumBounds ==
    ASSUME NEW f, NEW D, IsFiniteSet(D), \A x \in D : f[x] \in Nat, NEW y \in D
    PROVE  f[y] <= SumFunctionOnSet(f, D)
<1>1. SumFunctionOnSet(f, D \ {y}) \in Nat /\ f[y] \in Nat
  BY FS_Subset, SumType
<1>2. SumFunctionOnSet(f, D) = f[y] + SumFunctionOnSet(f, D \ {y})
  BY SumRemove
<1>3. QED
  BY <1>1, <1>2

\* Restricting a sum to a part of the set, or the function to it.
LEMMA SumFilter ==
    ASSUME NEW f, NEW g, NEW D, IsFiniteSet(D), NEW S \in SUBSET D,
           \A x \in D : f[x] \in Nat, \A x \in D : g[x] = IF x \in S THEN f[x] ELSE 0
    PROVE  SumFunctionOnSet(g, D) = SumFunctionOnSet(f, S)
<1> DEFINE Fails(s) == SumFunctionOnSet(g, s) # SumFunctionOnSet(f, s \cap S)
<1> DEFINE T == {s \in SUBSET D : Fails(s)}
<1>. SUFFICES ASSUME T # {} PROVE FALSE
  <2>1. T = {} => ~Fails(D)
    OBVIOUS
  <2>2. D \cap S = S
    OBVIOUS
  <2>3. QED
    BY <2>1, <2>2
<1>1. PICK s \in T : \A t \in T : t \subseteq s => t = s
  <2>1. T \in SUBSET (SUBSET D)
    OBVIOUS
  <2> HIDE DEF T
  <2>2. QED
    BY <2>1, SmallestSubset
<1>2. s \in SUBSET D /\ Fails(s) /\ IsFiniteSet(s) /\ IsFiniteSet(s \cap S)
  BY FS_Subset
<1>3. s # {}
  <2>1. SumFunctionOnSet(g, {}) = 0 /\ SumFunctionOnSet(f, {}) = 0
    BY FS_EmptySet, SumStep
  <2>2. {} \cap S = {}
    OBVIOUS
  <2>3. QED
    BY <1>2, <2>1, <2>2
<1> DEFINE x == Pick(s)
<1>4. x \in s
  BY <1>3, PickIn
<1> HIDE DEF x
<1>5. SumFunctionOnSet(g, s \ {x}) = SumFunctionOnSet(f, (s \ {x}) \cap S)
  BY <1>1, <1>4
<1>6. \A y \in D : g[y] \in Nat
  OBVIOUS
<1>7. SumFunctionOnSet(g, s) = g[x] + SumFunctionOnSet(g, s \ {x})
  BY <1>2, <1>4, <1>6, SumRemove
<1>8. CASE x \in S
  <2>1. SumFunctionOnSet(f, s \cap S) = f[x] + SumFunctionOnSet(f, (s \cap S) \ {x})
    BY <1>2, <1>4, <1>8, SumRemove
  <2>2. (s \cap S) \ {x} = (s \ {x}) \cap S /\ g[x] = f[x]
    BY <1>4, <1>8
  <2>3. QED
    BY <1>2, <1>5, <1>7, <2>1, <2>2
<1>9. CASE x \notin S
  <2>1. s \cap S = (s \ {x}) \cap S /\ g[x] = 0
    BY <1>4, <1>9
  <2>2. SumFunctionOnSet(g, s \ {x}) \in Nat
    <3>1. IsFiniteSet(s \ {x}) /\ \A y \in s \ {x} : g[y] \in Nat
      BY <1>2, <1>6, FS_Subset
    <3>2. QED
      BY <3>1, SumType
  <2>3. QED
    BY <1>2, <1>5, <1>7, <2>1, <2>2
<1>10. QED
  BY <1>8, <1>9
-----------------------------------------------------------------------------
(* The invariant.                                                          *)

SumOver(f) == SumFunctionOnSet(f, Requests)

Types ==
    /\ clock \in Minutes
    /\ rpm \in [Minutes -> Nat]
    /\ tpm \in [Minutes -> Nat]
    /\ daily \in [Days -> Nat]
    /\ monthly \in [Months -> Nat]
    /\ req \in [Requests -> RequestRecord]
    /\ arrived \in 0 .. MaxArrivals
    /\ passed \in [Minutes -> [requests : Nat, tokens : Nat]]
    /\ missed \in [Months -> Nat]

\* No request knows a later time than the clock.
Timely == \A r \in Requests : req[r].now <= clock

Is(b) == IF b THEN 1 ELSE 0

\* A minute counts only requests that arrived, and none that is still to be counted.
Adding == [r \in Requests |-> Is(req[r].at = "rpm_add")]
RpmCounted == \A t \in Minutes : rpm[t] + SumOver(Adding) <= arrived

\* What was admitted in a minute, and what is about to be, is in its bucket.
Reading(t) == [r \in Requests |-> Is(req[r].at = "rpm_total" /\ req[r].now = t)]
ReadingTokens(t) ==
    [r \in Requests |-> IF req[r].at = "tpm_total" /\ req[r].now = t
                        THEN req[r].tokens ELSE 0]
PassedCounted ==
    \A t \in Minutes :
        /\ passed[t].requests + SumOver(Reading(t)) <= rpm[t]
        /\ passed[t].tokens + SumOver(ReadingTokens(t)) <= tpm[t]

\* The two counters differ by what is between the two statements of Commit.
DaysOf(m) == {Day(t) : t \in {s \in Minutes : Month(s) = m}}
Charging(m) ==
    [r \in Requests |-> IF req[r].at = "commit_monthly" /\ Month(req[r].now) = m
                        THEN req[r].cost ELSE 0]
CountersAgree ==
    \A m \in Months :
        SumFunctionOnSet(daily, DaysOf(m)) = monthly[m] + missed[m] + SumOver(Charging(m))

\* Before its verdict a request may hold an older time than the clock.
Early == {"rpm_add", "rpm_total", "body", "tpm_add", "tpm_total", "daily_used"}

\* r may still charge day d, or month m, although its budget is spent: it was or will be
\* checked against an earlier day, or has passed its check.
MayChargeDay(r, d) ==
    \/ req[r].at \in Early /\ Day(req[r].now) < d
    \/ req[r].at = "monthly_used" /\ \/ Day(req[r].now) < d
                                     \/ Day(req[r].now) = d /\ req[r].used <= DailyCents
    \/ req[r].at = "calling" /\ Day(clock) <= d
    \/ req[r].at = "commit_daily" /\ Day(req[r].now) = d
MayChargeMonth(r, m) ==
    \/ req[r].at \in Early \union {"monthly_used"} /\ Month(req[r].now) < m
    \/ req[r].at = "calling" /\ Month(clock) <= m
    \/ req[r].at \in {"commit_daily", "commit_monthly"} /\ Month(req[r].now) = m

DayChargers(d) == {r \in Requests : MayChargeDay(r, d)}
MonthChargers(m) == {r \in Requests : MayChargeMonth(r, m)}

\* A counter is over its budget by at most the costs of those that no longer charge it.
Within(used, limit, chargers) ==
    \/ used <= limit
    \/ used + Cardinality(chargers) * MaxCost <= limit + Cardinality(Requests) * MaxCost

ChargedByNow ==
    /\ \A d \in Days : daily[d] > 0 => d <= Day(clock)
    /\ \A m \in Months : monthly[m] > 0 => m <= Month(clock)
Overspent ==
    HardCap =>
        /\ DailyCents > 0 => \A d \in Days : Within(daily[d], DailyCents, DayChargers(d))
        /\ MonthlyCents > 0 =>
              \A m \in Months : Within(monthly[m], MonthlyCents, MonthChargers(m))

IInv ==
    /\ Types /\ Timely
    /\ RpmCounted /\ PassedCounted /\ RateHolds
    /\ CountersAgree
    /\ ChargedByNow /\ Overspent
-----------------------------------------------------------------------------
(* The steps.                                                              *)

\* r goes on with these locals, and every other request keeps its own.
Becomes(r, at, now, tokens, used, cost) ==
    req' = [req EXCEPT ![r] = [at |-> at, now |-> now, tokens |-> tokens,
                               used |-> used, cost |-> cost]]

Goes(r, at, now, tokens, used, cost) ==
    /\ req' \in [Requests -> RequestRecord]
    /\ req'[r].at = at /\ req'[r].now = now /\ req'[r].tokens = tokens
    /\ req'[r].used = used /\ req'[r].cost = cost
    /\ \A q \in Requests : q # r => req'[q] = req[q]
Stays(r, at) == Goes(r, at, req[r].now, req[r].tokens, req[r].used, req[r].cost)
Ends(r) == Goes(r, "idle", 0, 0, 0, 0)

LEMMA BecomesFacts ==
    ASSUME Types, NEW r \in Requests, NEW at \in Places, NEW now \in Minutes,
           NEW tokens \in Tokens \union {0}, NEW used \in Nat,
           NEW cost \in Costs \union {0}, Becomes(r, at, now, tokens, used, cost)
    PROVE  Goes(r, at, now, tokens, used, cost)
<1> DEFINE x == [at |-> at, now |-> now, tokens |-> tokens, used |-> used, cost |-> cost]
<1>1. x \in RequestRecord
  BY DEF RequestRecord
<1>2. req \in [Requests -> RequestRecord] /\ req' = [req EXCEPT ![r] = x]
  BY DEF Types, Becomes
<1>3. x.at = at /\ x.now = now /\ x.tokens = tokens /\ x.used = used /\ x.cost = cost
  OBVIOUS
<1> HIDE DEF x
<1>4. QED
  BY <1>1, <1>2, <1>3 DEF Goes

LEMMA RequestFacts ==
    ASSUME Types, NEW r \in Requests
    PROVE  /\ req[r] \in RequestRecord
           /\ req[r].at \in Places /\ req[r].now \in Minutes
           /\ req[r].tokens \in Tokens \union {0} /\ req[r].tokens \in Nat
           /\ req[r].used \in Nat
           /\ req[r].cost \in Costs \union {0} /\ req[r].cost \in Nat
<1>1. req[r] \in RequestRecord
  BY DEF Types
<1>2. \A x : (x \in Tokens \union {0} => x \in Nat) /\ (x \in Costs \union {0} => x \in Nat)
  <2>1. Tokens \subseteq Nat /\ Costs \subseteq Nat
    BY AdmissionAssumption
  <2>2. 0 \in Nat
    OBVIOUS
  <2>3. QED
    BY <2>1, <2>2, Zenon
<1>3. /\ req[r].at \in Places /\ req[r].now \in Minutes
      /\ req[r].tokens \in Tokens \union {0} /\ req[r].used \in Nat
      /\ req[r].cost \in Costs \union {0}
  BY <1>1 DEF RequestRecord
<1>4. req[r].tokens \in Nat /\ req[r].cost \in Nat
  BY <1>2, <1>3
<1>5. QED
  BY <1>1, <1>3, <1>4

LEMMA MoveFacts ==
    ASSUME Types, NEW r \in Requests, NEW p \in Places, Move(r, p)
    PROVE  Stays(r, p)
<1>1. req' = [req EXCEPT ![r] = [req[r] EXCEPT !.at = p]]
  BY DEF Move
<1>2. [req[r] EXCEPT !.at = p] =
        [at |-> p, now |-> req[r].now, tokens |-> req[r].tokens,
         used |-> req[r].used, cost |-> req[r].cost]
  <2>1. req[r] \in RequestRecord
    BY RequestFacts
  <2>2. QED
    BY <2>1 DEF RequestRecord
<1>3. Becomes(r, p, req[r].now, req[r].tokens, req[r].used, req[r].cost)
  BY <1>1, <1>2 DEF Becomes
<1>4. QED
  BY <1>3, RequestFacts, BecomesFacts DEF Stays

LEMMA StartFacts ==
    ASSUME Types, NEW r \in Requests, NEW p \in Places, Start(r, p)
    PROVE  Goes(r, p, clock, req[r].tokens, req[r].used, req[r].cost)
<1> DEFINE x == [req[r] EXCEPT !.at = p]
<1>1. req' = [req EXCEPT ![r] = [x EXCEPT !.now = clock]]
  BY DEF Start, Types
<1>2. x = [at |-> p, now |-> req[r].now, tokens |-> req[r].tokens,
           used |-> req[r].used, cost |-> req[r].cost]
  <2>1. req[r] \in RequestRecord
    BY RequestFacts
  <2>2. QED
    BY <2>1 DEF RequestRecord
<1> HIDE DEF x
<1>3. [x EXCEPT !.now = clock] = [at |-> p, now |-> clock, tokens |-> req[r].tokens,
                                 used |-> req[r].used, cost |-> req[r].cost]
  BY <1>2
<1>4. Becomes(r, p, clock, req[r].tokens, req[r].used, req[r].cost)
  BY <1>1, <1>3 DEF Becomes
<1>5. clock \in Minutes
  BY DEF Types
<1>6. QED
  BY <1>4, <1>5, RequestFacts, BecomesFacts

LEMMA ReturnFacts ==
    ASSUME Types, NEW r \in Requests, Return(r)
    PROVE  Ends(r)
<1>1. Becomes(r, "idle", 0, 0, 0, 0)
  BY DEF Return, Becomes, Idle
<1>2. "idle" \in Places
  BY DEF Places
<1>3. 0 \in Minutes /\ 0 \in Nat /\ 0 \in Tokens \union {0} /\ 0 \in Costs \union {0}
  BY AdmissionAssumption DEF Minutes
<1>4. QED
  BY <1>1, <1>2, <1>3, BecomesFacts DEF Ends

\* What a step does to the sum of a function of the requests, if it is a step of one.
LEMMA SumMoves ==
    ASSUME NEW f \in [Requests -> Nat], NEW g \in [Requests -> Nat],
           NEW r \in Requests, \A q \in Requests : q # r => g[q] = f[q]
    PROVE  /\ SumOver(f) \in Nat /\ SumOver(g) \in Nat
           /\ SumOver(g) = SumOver(f) - f[r] + g[r]
           /\ f[r] \in Nat /\ g[r] \in Nat /\ f[r] <= SumOver(f)
<1>1. IsFiniteSet(Requests)
  BY AdmissionAssumption
<1>2. \A q \in Requests : f[q] \in Nat /\ g[q] \in Nat
  OBVIOUS
<1>3. SumOver(f) \in Nat /\ SumOver(g) \in Nat
  BY <1>1, <1>2, SumType DEF SumOver
<1>4. SumOver(g) = SumOver(f) - f[r] + g[r]
  BY <1>1, <1>2, SumUpdate DEF SumOver
<1>5. f[r] <= SumOver(f)
  BY <1>1, <1>2, SumBounds DEF SumOver
<1>6. QED
  BY <1>2, <1>3, <1>4, <1>5

LEMMA SumZero ==
    ASSUME NEW f \in [Requests -> Nat], \A q \in Requests : f[q] = 0
    PROVE  SumOver(f) = 0
<1>1. IsFiniteSet(Requests) /\ {} \in SUBSET Requests
  BY AdmissionAssumption
<1>2. SumFunctionOnSet(f, Requests) = SumFunctionOnSet(f, {})
  <2>1. \A x \in Requests : f[x] = IF x \in {} THEN f[x] ELSE 0
    OBVIOUS
  <2>2. \A x \in Requests : f[x] \in Nat
    OBVIOUS
  <2>3. QED
    BY <1>1, <2>1, <2>2, SumFilter
<1>3. SumFunctionOnSet(f, {}) = 0
  BY FS_EmptySet, SumStep
<1>4. QED
  BY <1>2, <1>3 DEF SumOver

LEMMA ArriveGoes ==
    ASSUME Types, NEW r \in Requests, Arrive(r)
    PROVE  \E p \in {"rpm_add", "body"} :
              Goes(r, p, clock, req[r].tokens, req[r].used, req[r].cost)
<1>1. {"rpm_add", "body"} \subseteq Places
  BY DEF Places
<1>2. QED
  BY <1>1, StartFacts DEF Arrive

LEMMA RpmAddGoes ==
    ASSUME Types, NEW r \in Requests, RpmAdd(r)
    PROVE  Stays(r, "rpm_total")
BY MoveFacts DEF RpmAdd, Places

LEMMA RpmTotalGoes ==
    ASSUME Types, NEW r \in Requests, RpmTotal(r)
    PROVE  IF Total(rpm, req[r].now) <= RPM THEN Stays(r, "body") ELSE Ends(r)
<1>1. "body" \in Places
  BY DEF Places
<1>2. QED
  BY <1>1, MoveFacts, ReturnFacts DEF RpmTotal

LEMMA DispatchGoes ==
    ASSUME Types, NEW r \in Requests, Dispatch(r)
    PROVE  \/ Ends(r)
           \/ \E p \in {"tpm_add", "daily_used"}, tokens \in Tokens :
                Goes(r, p, clock, tokens, req[r].used, req[r].cost)
<1>1. CASE Return(r)
  BY <1>1, ReturnFacts
<1>2. CASE ~Return(r)
  <2>1. PICK tokens \in Tokens :
          req' = [req EXCEPT ![r].at = IF TPM > 0 THEN "tpm_add" ELSE "daily_used",
                             ![r].now = clock,
                             ![r].tokens = tokens]
    BY <1>2 DEF Dispatch
  <2>2. PICK p \in {"tpm_add", "daily_used"} :
           p = IF TPM > 0 THEN "tpm_add" ELSE "daily_used"
    OBVIOUS
  <2> DEFINE x == [req[r] EXCEPT !.at = p]
  <2>3. req' = [req EXCEPT ![r] = [[x EXCEPT !.now = clock] EXCEPT !.tokens = tokens]]
    BY <2>1, <2>2 DEF Types
  <2>4. x = [at |-> p, now |-> req[r].now, tokens |-> req[r].tokens,
             used |-> req[r].used, cost |-> req[r].cost]
    <3>1. req[r] \in RequestRecord
      BY RequestFacts
    <3>2. QED
      BY <3>1 DEF RequestRecord
  <2> HIDE DEF x
  <2>5. [[x EXCEPT !.now = clock] EXCEPT !.tokens = tokens] =
          [at |-> p, now |-> clock, tokens |-> tokens, used |-> req[r].used,
           cost |-> req[r].cost]
    <3> DEFINE y == [x EXCEPT !.now = clock]
    <3>1. y = [at |-> p, now |-> clock, tokens |-> req[r].tokens, used |-> req[r].used,
               cost |-> req[r].cost]
      BY <2>4
    <3> HIDE DEF y
    <3>2. [y EXCEPT !.tokens = tokens] =
            [at |-> p, now |-> clock, tokens |-> tokens, used |-> req[r].used,
             cost |-> req[r].cost]
      BY <3>1
    <3>3. QED
      BY <3>2 DEF y
  <2>6. Becomes(r, p, clock, tokens, req[r].used, req[r].cost)
    BY <2>3, <2>5 DEF Becomes
  <2>7. clock \in Minutes /\ p \in Places /\ tokens \in Tokens \union {0}
    BY DEF Types, Places
  <2>8. Goes(r, p, clock, tokens, req[r].used, req[r].cost)
    BY <2>6, <2>7, RequestFacts, BecomesFacts
  <2>9. QED
    BY <2>8
<1>3. QED
  BY <1>1, <1>2

LEMMA TpmAddGoes ==
    ASSUME Types, NEW r \in Requests, TpmAdd(r)
    PROVE  Stays(r, "tpm_total")
BY MoveFacts DEF TpmAdd, Places

LEMMA TpmTotalGoes ==
    ASSUME Types, NEW r \in Requests, TpmTotal(r)
    PROVE  IF Total(tpm, req[r].now) <= TPM
           THEN Goes(r, "daily_used", clock, req[r].tokens, req[r].used, req[r].cost)
           ELSE Ends(r)
<1>1. "daily_used" \in Places
  BY DEF Places
<1>2. QED
  BY <1>1, StartFacts, ReturnFacts DEF TpmTotal

LEMMA DailyUsedGoes ==
    ASSUME Types, NEW r \in Requests, DailyUsed(r)
    PROVE  \E now \in req[r].now .. clock :
              /\ now \in Minutes
              /\ Goes(r, "monthly_used", now, req[r].tokens, daily[Day(now)], req[r].cost)
<1>1. PICK now \in req[r].now .. clock :
         req' = [req EXCEPT ![r].at = "monthly_used", ![r].now = now,
                            ![r].used = daily[Day(now)]]
  BY DEF DailyUsed
<1> DEFINE x == [req[r] EXCEPT !.at = "monthly_used"]
<1>2. req' = [req EXCEPT ![r] = [[x EXCEPT !.now = now] EXCEPT !.used = daily[Day(now)]]]
  BY <1>1 DEF Types
<1>3. x = [at |-> "monthly_used", now |-> req[r].now, tokens |-> req[r].tokens,
           used |-> req[r].used, cost |-> req[r].cost]
  <2>1. req[r] \in RequestRecord
    BY RequestFacts
  <2>2. QED
    BY <2>1 DEF RequestRecord
<1> HIDE DEF x
<1>4. [[x EXCEPT !.now = now] EXCEPT !.used = daily[Day(now)]] =
        [at |-> "monthly_used", now |-> now, tokens |-> req[r].tokens,
         used |-> daily[Day(now)], cost |-> req[r].cost]
  <2> DEFINE y == [x EXCEPT !.now = now]
  <2>1. y = [at |-> "monthly_used", now |-> now, tokens |-> req[r].tokens,
             used |-> req[r].used, cost |-> req[r].cost]
    BY <1>3
  <2> HIDE DEF y
  <2>2. [y EXCEPT !.used = daily[Day(now)]] =
          [at |-> "monthly_used", now |-> now, tokens |-> req[r].tokens,
           used |-> daily[Day(now)], cost |-> req[r].cost]
    BY <2>1
  <2>3. QED
    BY <2>2 DEF y
<1>5. Becomes(r, "monthly_used", now, req[r].tokens, daily[Day(now)], req[r].cost)
  BY <1>2, <1>4 DEF Becomes
<1>6. now \in Minutes
  <2>1. req[r].now \in Minutes /\ clock \in Minutes /\ MaxClock \in Nat
    BY RequestFacts, AdmissionAssumption DEF Types
  <2>2. QED
    BY <2>1 DEF Minutes
<1>7. daily[Day(now)] \in Nat /\ "monthly_used" \in Places
  BY <1>6 DEF Types, Days, Places
<1>8. Goes(r, "monthly_used", now, req[r].tokens, daily[Day(now)], req[r].cost)
  BY <1>5, <1>6, <1>7, RequestFacts, BecomesFacts
<1>9. QED
  BY <1>6, <1>8

LEMMA MonthlyUsedGoes ==
    ASSUME Types, NEW r \in Requests, MonthlyUsed(r)
    PROVE  IF Refuses(req[r].used, monthly[Month(req[r].now)])
           THEN Ends(r) ELSE Goes(r, "calling", 0, 0, 0, 0)
<1>1. CASE Refuses(req[r].used, monthly[Month(req[r].now)])
  BY <1>1, ReturnFacts DEF MonthlyUsed
<1>2. CASE ~Refuses(req[r].used, monthly[Month(req[r].now)])
  <2>1. req' = [req EXCEPT ![r] = [Idle EXCEPT !.at = "calling"]]
    BY <1>2 DEF MonthlyUsed
  <2>2. [Idle EXCEPT !.at = "calling"] =
           [at |-> "calling", now |-> 0, tokens |-> 0, used |-> 0, cost |-> 0]
    BY DEF Idle
  <2>3. Becomes(r, "calling", 0, 0, 0, 0)
    BY <2>1, <2>2 DEF Becomes
  <2>4. "calling" \in Places
    BY DEF Places
  <2>5. 0 \in Minutes /\ 0 \in Nat /\ 0 \in Tokens \union {0} /\ 0 \in Costs \union {0}
    BY AdmissionAssumption DEF Minutes
  <2>6. Goes(r, "calling", 0, 0, 0, 0)
    BY <2>3, <2>4, <2>5, BecomesFacts
  <2>7. QED
    BY <1>2, <2>6
<1>3. QED
  BY <1>1, <1>2

LEMMA DispatchedGoes ==
    ASSUME Types, NEW r \in Requests, NEW cost \in Costs \union {0}, Dispatched(r, cost)
    PROVE  IF cost > 0
           THEN Goes(r, "commit_daily", clock, req[r].tokens, req[r].used, cost)
           ELSE Ends(r)
<1>1. CASE cost > 0
  <2>1. req' = [req EXCEPT ![r].at = "commit_daily", ![r].now = clock, ![r].cost = cost]
    BY <1>1 DEF Dispatched
  <2> DEFINE x == [req[r] EXCEPT !.at = "commit_daily"]
  <2>2. req' = [req EXCEPT ![r] = [[x EXCEPT !.now = clock] EXCEPT !.cost = cost]]
    BY <2>1 DEF Types
  <2>3. x = [at |-> "commit_daily", now |-> req[r].now, tokens |-> req[r].tokens,
             used |-> req[r].used, cost |-> req[r].cost]
    <3>1. req[r] \in RequestRecord
      BY RequestFacts
    <3>2. QED
      BY <3>1 DEF RequestRecord
  <2> HIDE DEF x
  <2>4. [[x EXCEPT !.now = clock] EXCEPT !.cost = cost] =
          [at |-> "commit_daily", now |-> clock, tokens |-> req[r].tokens,
           used |-> req[r].used, cost |-> cost]
    <3> DEFINE y == [x EXCEPT !.now = clock]
    <3>1. y = [at |-> "commit_daily", now |-> clock, tokens |-> req[r].tokens,
               used |-> req[r].used, cost |-> req[r].cost]
      BY <2>3
    <3> HIDE DEF y
    <3>2. [y EXCEPT !.cost = cost] =
            [at |-> "commit_daily", now |-> clock, tokens |-> req[r].tokens,
             used |-> req[r].used, cost |-> cost]
      BY <3>1
    <3>3. QED
      BY <3>2 DEF y
  <2>5. Becomes(r, "commit_daily", clock, req[r].tokens, req[r].used, cost)
    BY <2>2, <2>4 DEF Becomes
  <2>6. clock \in Minutes /\ "commit_daily" \in Places
    BY DEF Types, Places
  <2>7. Goes(r, "commit_daily", clock, req[r].tokens, req[r].used, cost)
    BY <2>5, <2>6, RequestFacts, BecomesFacts
  <2>8. QED
    BY <1>1, <2>7
<1>2. CASE ~(cost > 0)
  BY <1>2, ReturnFacts DEF Dispatched
<1>3. QED
  BY <1>1, <1>2

LEMMA CommitDailyGoes ==
    ASSUME Types, NEW r \in Requests, CommitDaily(r)
    PROVE  Stays(r, "commit_monthly")
BY MoveFacts DEF CommitDaily, Places

LEMMA CommitMonthlyGoes ==
    ASSUME Types, NEW r \in Requests, CommitMonthly(r)
    PROVE  Ends(r)
BY ReturnFacts DEF CommitMonthly

LEMMA FailGoes ==
    ASSUME Types, NEW r \in Requests, Fail(r)
    PROVE  Ends(r)
BY ReturnFacts DEF Fail
-----------------------------------------------------------------------------
(* Types, and that no minute counts more requests than arrived.            *)

LEMMA Numbers ==
    /\ RPM \in Nat /\ TPM \in Nat /\ DailyCents \in Nat /\ MonthlyCents \in Nat
    /\ MaxClock \in Nat /\ MaxArrivals \in Nat /\ HardCap \in BOOLEAN
BY AdmissionAssumption

LEMMA CountUp ==
    ASSUME NEW S, NEW f \in [S -> Nat], NEW x \in S, NEW n \in Nat, NEW g,
           g = [f EXCEPT ![x] = @ + n]
    PROVE  /\ g \in [S -> Nat] /\ g[x] = f[x] + n
           /\ \A y \in S : y # x => g[y] = f[y]
OBVIOUS

LEMMA CalendarIn ==
    \A t \in Minutes : /\ Day(t) \in Days /\ Month(t) \in Months
                       /\ Day(t) \in Nat /\ Month(t) \in Nat
BY AdmissionAssumption DEF Days, Months, Minutes

LEMMA MinutesAreNat == \A t \in Minutes : t \in Nat /\ t <= MaxClock
BY Numbers DEF Minutes

LEMMA PassedUp ==
    ASSUME Types, NEW t \in Minutes, NEW n \in Nat
    PROVE  /\ passed' = [passed EXCEPT ![t].requests = @ + n] =>
                /\ passed' \in [Minutes -> [requests : Nat, tokens : Nat]]
                /\ passed'[t].requests = passed[t].requests + n
                /\ passed'[t].tokens = passed[t].tokens
                /\ \A u \in Minutes : u # t => passed'[u] = passed[u]
           /\ passed' = [passed EXCEPT ![t].tokens = @ + n] =>
                /\ passed' \in [Minutes -> [requests : Nat, tokens : Nat]]
                /\ passed'[t].requests = passed[t].requests
                /\ passed'[t].tokens = passed[t].tokens + n
                /\ \A u \in Minutes : u # t => passed'[u] = passed[u]
<1>1. passed \in [Minutes -> [requests : Nat, tokens : Nat]]
  BY DEF Types
<1>2. passed[t] \in [requests : Nat, tokens : Nat]
  BY <1>1
<1>3. ASSUME passed' = [passed EXCEPT ![t].requests = @ + n]
      PROVE  /\ passed' \in [Minutes -> [requests : Nat, tokens : Nat]]
             /\ passed'[t].requests = passed[t].requests + n
             /\ passed'[t].tokens = passed[t].tokens
             /\ \A u \in Minutes : u # t => passed'[u] = passed[u]
  <2> DEFINE x == [passed[t] EXCEPT !.requests = @ + n]
  <2>1. /\ x \in [requests : Nat, tokens : Nat]
        /\ x.requests = passed[t].requests + n /\ x.tokens = passed[t].tokens
    BY <1>2
  <2>2. passed' = [passed EXCEPT ![t] = x]
    BY <1>3
  <2> HIDE DEF x
  <2>3. QED
    BY <1>1, <2>1, <2>2
<1>4. ASSUME passed' = [passed EXCEPT ![t].tokens = @ + n]
      PROVE  /\ passed' \in [Minutes -> [requests : Nat, tokens : Nat]]
             /\ passed'[t].requests = passed[t].requests
             /\ passed'[t].tokens = passed[t].tokens + n
             /\ \A u \in Minutes : u # t => passed'[u] = passed[u]
  <2> DEFINE x == [passed[t] EXCEPT !.tokens = @ + n]
  <2>1. /\ x \in [requests : Nat, tokens : Nat]
        /\ x.requests = passed[t].requests /\ x.tokens = passed[t].tokens + n
    BY <1>2
  <2>2. passed' = [passed EXCEPT ![t] = x]
    BY <1>4
  <2> HIDE DEF x
  <2>3. QED
    BY <1>1, <2>1, <2>2
<1>5. QED
  BY <1>3, <1>4

LEMMA TypesStep ==
    ASSUME Types, [Next]_vars
    PROVE  Types'
<1>1. CASE UNCHANGED vars
  BY <1>1 DEF Types, vars
<1>2. ASSUME NEW r \in Requests, Arrive(r) PROVE Types'
  <2>1. req' \in [Requests -> RequestRecord]
    BY <1>2, ArriveGoes DEF Goes
  <2>2. arrived' \in 0 .. MaxArrivals
    BY <1>2, Numbers DEF Arrive, Types
  <2>3. QED
    BY <1>2, <2>1, <2>2 DEF Arrive, Types
<1>3. ASSUME NEW r \in Requests, RpmAdd(r) PROVE Types'
  <2>1. req' \in [Requests -> RequestRecord]
    BY <1>3, RpmAddGoes DEF Goes, Stays
  <2>2. rpm' \in [Minutes -> Nat]
    BY <1>3, RequestFacts, CountUp DEF RpmAdd, Types
  <2>3. QED
    BY <1>3, <2>1, <2>2 DEF RpmAdd, Types
<1>4. ASSUME NEW r \in Requests, RpmTotal(r) PROVE Types'
  <2>1. req' \in [Requests -> RequestRecord]
    BY <1>4, RpmTotalGoes DEF Goes, Stays, Ends
  <2>2. passed' \in [Minutes -> [requests : Nat, tokens : Nat]]
    <3>1. req[r].now \in Minutes /\ 1 \in Nat
      BY RequestFacts
    <3>2. \/ passed' = [passed EXCEPT ![req[r].now].requests = @ + 1]
          \/ passed' = passed
      BY <1>4 DEF RpmTotal
    <3>3. QED
      BY <3>1, <3>2, PassedUp DEF Types
  <2>3. QED
    BY <1>4, <2>1, <2>2 DEF RpmTotal, Types
<1>5. ASSUME NEW r \in Requests, Dispatch(r) PROVE Types'
  <2>1. req' \in [Requests -> RequestRecord]
    BY <1>5, DispatchGoes DEF Goes, Ends
  <2>2. QED
    BY <1>5, <2>1 DEF Dispatch, Types
<1>6. ASSUME NEW r \in Requests, TpmAdd(r) PROVE Types'
  <2>1. req' \in [Requests -> RequestRecord]
    BY <1>6, TpmAddGoes DEF Goes, Stays
  <2>2. tpm' \in [Minutes -> Nat]
    BY <1>6, RequestFacts, CountUp DEF TpmAdd, Types
  <2>3. QED
    BY <1>6, <2>1, <2>2 DEF TpmAdd, Types
<1>7. ASSUME NEW r \in Requests, TpmTotal(r) PROVE Types'
  <2>1. req' \in [Requests -> RequestRecord]
    BY <1>7, TpmTotalGoes DEF Goes, Ends
  <2>2. passed' \in [Minutes -> [requests : Nat, tokens : Nat]]
    <3>1. req[r].now \in Minutes /\ req[r].tokens \in Nat
      BY RequestFacts
    <3>2. \/ passed' = [passed EXCEPT ![req[r].now].tokens = @ + req[r].tokens]
          \/ passed' = passed
      BY <1>7 DEF TpmTotal
    <3>3. QED
      BY <3>1, <3>2, PassedUp DEF Types
  <2>3. QED
    BY <1>7, <2>1, <2>2 DEF TpmTotal, Types
<1>8. ASSUME NEW r \in Requests, DailyUsed(r) PROVE Types'
  <2>1. req' \in [Requests -> RequestRecord]
    BY <1>8, DailyUsedGoes DEF Goes
  <2>2. QED
    BY <1>8, <2>1 DEF DailyUsed, Types
<1>9. ASSUME NEW r \in Requests, MonthlyUsed(r) PROVE Types'
  <2>1. req' \in [Requests -> RequestRecord]
    BY <1>9, MonthlyUsedGoes DEF Goes, Ends
  <2>2. QED
    BY <1>9, <2>1 DEF MonthlyUsed, Types
<1>10. ASSUME NEW r \in Requests, NEW cost \in Costs \union {0}, Dispatched(r, cost)
       PROVE Types'
  <2>1. req' \in [Requests -> RequestRecord]
    BY <1>10, DispatchedGoes DEF Goes, Ends
  <2>2. QED
    BY <1>10, <2>1 DEF Dispatched, Types
<1>11. ASSUME NEW r \in Requests, CommitDaily(r) PROVE Types'
  <2>1. req' \in [Requests -> RequestRecord]
    BY <1>11, CommitDailyGoes DEF Goes, Stays
  <2>2. daily' \in [Days -> Nat]
    BY <1>11, RequestFacts, CalendarIn, CountUp DEF CommitDaily, Types
  <2>3. QED
    BY <1>11, <2>1, <2>2 DEF CommitDaily, Types
<1>12. ASSUME NEW r \in Requests, CommitMonthly(r) PROVE Types'
  <2>1. req' \in [Requests -> RequestRecord]
    BY <1>12, CommitMonthlyGoes DEF Goes, Ends
  <2>2. monthly' \in [Months -> Nat]
    BY <1>12, RequestFacts, CalendarIn, CountUp DEF CommitMonthly, Types
  <2>3. QED
    BY <1>12, <2>1, <2>2 DEF CommitMonthly, Types
<1>13. ASSUME NEW r \in Requests, Fail(r) PROVE Types'
  <2>1. req' \in [Requests -> RequestRecord]
    BY <1>13, FailGoes DEF Goes, Ends
  <2>2. missed' \in [Months -> Nat]
    <3>1. req[r].cost \in Nat /\ Month(req[r].now) \in Months
      BY RequestFacts, CalendarIn
    <3>2. \/ missed' = [missed EXCEPT ![Month(req[r].now)] = @ + req[r].cost]
          \/ missed' = missed
      BY <1>13 DEF Fail
    <3>3. QED
      BY <3>1, <3>2, CountUp DEF Types
  <2>3. QED
    BY <1>13, <2>1, <2>2 DEF Fail, Types
<1>14. ASSUME Tick PROVE Types'
  <2>1. clock' \in Minutes
    BY <1>14, Numbers DEF Tick, Types, Minutes
  <2>2. QED
    BY <1>14, <2>1 DEF Tick, Types
<1>15. QED
  BY <1>1, <1>2, <1>3, <1>4, <1>5, <1>6, <1>7, <1>8, <1>9, <1>10, <1>11, <1>12, <1>13,
     <1>14 DEF Next

LEMMA TimelyStep ==
    ASSUME Types, Timely, [Next]_vars
    PROVE  Timely'
<1> DEFINE Keeps(r) == /\ req'[r].now <= clock
                       /\ \A q \in Requests : q # r => req'[q] = req[q]
<1>1. ASSUME NEW r \in Requests, Keeps(r), clock' = clock PROVE Timely'
  BY <1>1 DEF Timely
<1>2. CASE UNCHANGED vars
  BY <1>2 DEF Timely, vars
<1>3. clock <= clock /\ 0 <= clock /\ \A r \in Requests : req[r].now <= clock
  BY Numbers DEF Types, Timely, Minutes
<1>4. ASSUME NEW r \in Requests, Arrive(r) PROVE Timely'
  <2>1. Keeps(r)
    BY <1>3, <1>4, ArriveGoes DEF Goes
  <2>2. QED
    BY <1>1, <1>4, <2>1 DEF Arrive
<1>5. ASSUME NEW r \in Requests, RpmAdd(r) PROVE Timely'
  <2>1. Keeps(r)
    BY <1>3, <1>5, RpmAddGoes DEF Goes, Stays
  <2>2. QED
    BY <1>1, <1>5, <2>1 DEF RpmAdd
<1>6. ASSUME NEW r \in Requests, RpmTotal(r) PROVE Timely'
  <2>1. Keeps(r)
    BY <1>3, <1>6, RpmTotalGoes DEF Goes, Stays, Ends
  <2>2. QED
    BY <1>1, <1>6, <2>1 DEF RpmTotal
<1>7. ASSUME NEW r \in Requests, Dispatch(r) PROVE Timely'
  <2>1. Keeps(r)
    BY <1>3, <1>7, DispatchGoes DEF Goes, Ends
  <2>2. QED
    BY <1>1, <1>7, <2>1 DEF Dispatch
<1>8. ASSUME NEW r \in Requests, TpmAdd(r) PROVE Timely'
  <2>1. Keeps(r)
    BY <1>3, <1>8, TpmAddGoes DEF Goes, Stays
  <2>2. QED
    BY <1>1, <1>8, <2>1 DEF TpmAdd
<1>9. ASSUME NEW r \in Requests, TpmTotal(r) PROVE Timely'
  <2>1. Keeps(r)
    BY <1>3, <1>9, TpmTotalGoes DEF Goes, Ends
  <2>2. QED
    BY <1>1, <1>9, <2>1 DEF TpmTotal
<1>10. ASSUME NEW r \in Requests, DailyUsed(r) PROVE Timely'
  <2>1. Keeps(r)
    <3>1. PICK now \in req[r].now .. clock :
             Goes(r, "monthly_used", now, req[r].tokens, daily[Day(now)], req[r].cost)
      BY <1>10, DailyUsedGoes
    <3>2. now <= clock
      BY RequestFacts, Numbers DEF Types, Minutes
    <3>3. QED
      BY <3>1, <3>2 DEF Goes
  <2>2. QED
    BY <1>1, <1>10, <2>1 DEF DailyUsed
<1>11. ASSUME NEW r \in Requests, MonthlyUsed(r) PROVE Timely'
  <2>1. Keeps(r)
    BY <1>3, <1>11, MonthlyUsedGoes DEF Goes, Ends
  <2>2. QED
    BY <1>1, <1>11, <2>1 DEF MonthlyUsed
<1>12. ASSUME NEW r \in Requests, NEW cost \in Costs \union {0}, Dispatched(r, cost)
       PROVE  Timely'
  <2>1. Keeps(r)
    BY <1>3, <1>12, DispatchedGoes DEF Goes, Ends
  <2>2. QED
    BY <1>1, <1>12, <2>1 DEF Dispatched
<1>13. ASSUME NEW r \in Requests, CommitDaily(r) PROVE Timely'
  <2>1. Keeps(r)
    BY <1>3, <1>13, CommitDailyGoes DEF Goes, Stays
  <2>2. QED
    BY <1>1, <1>13, <2>1 DEF CommitDaily
<1>14. ASSUME NEW r \in Requests, CommitMonthly(r) PROVE Timely'
  <2>1. Keeps(r)
    BY <1>3, <1>14, CommitMonthlyGoes DEF Goes, Ends
  <2>2. QED
    BY <1>1, <1>14, <2>1 DEF CommitMonthly
<1>15. ASSUME NEW r \in Requests, Fail(r) PROVE Timely'
  <2>1. Keeps(r)
    BY <1>3, <1>15, FailGoes DEF Goes, Ends
  <2>2. QED
    BY <1>1, <1>15, <2>1 DEF Fail
<1>16. ASSUME Tick PROVE Timely'
  <2>1. \A r \in Requests : req[r].now \in Nat /\ clock \in Nat
    BY RequestFacts, MinutesAreNat DEF Types
  <2>2. req' = req /\ clock' = clock + 1
    BY <1>16 DEF Tick
  <2>3. ASSUME NEW r \in Requests PROVE req'[r].now <= clock'
    <3>1. req[r].now <= clock
      BY DEF Timely
    <3>2. QED
      BY <2>1, <2>2, <3>1
  <2>4. QED
    BY <2>3 DEF Timely
<1>17. QED
  BY <1>2, <1>4, <1>5, <1>6, <1>7, <1>8, <1>9, <1>10, <1>11, <1>12, <1>13, <1>14, <1>15,
     <1>16 DEF Next

\* The sums that count requests, when one of them goes on.
LEMMA AddingMoves ==
    ASSUME NEW r \in Requests, \A q \in Requests : q # r => req'[q] = req[q]
    PROVE  /\ SumOver(Adding) \in Nat /\ SumOver(Adding') \in Nat
           /\ SumOver(Adding') = SumOver(Adding) - Is(req[r].at = "rpm_add")
                                                 + Is(req'[r].at = "rpm_add")
<1>1. Adding \in [Requests -> Nat] /\ Adding' \in [Requests -> Nat]
  BY DEF Adding, Is
<1>2. \A q \in Requests : q # r => Adding'[q] = Adding[q]
  BY DEF Adding
<1>3. Adding[r] = Is(req[r].at = "rpm_add") /\ Adding'[r] = Is(req'[r].at = "rpm_add")
  BY DEF Adding
<1> HIDE DEF Adding
<1>4. QED
  BY <1>1, <1>2, <1>3, SumMoves

LEMMA RpmCountedHolds ==
    ASSUME \A t \in Minutes : rpm'[t] + SumOver(Adding') <= arrived'
    PROVE  RpmCounted'
BY DEF RpmCounted

LEMMA RpmCountedStep ==
    ASSUME Types, RpmCounted, [Next]_vars
    PROVE  RpmCounted'
<1> DEFINE Leaves(r) == /\ req'[r].at # "rpm_add"
                        /\ \A q \in Requests : q # r => req'[q] = req[q]
<1>1. arrived \in Nat /\ (\A t \in Minutes : rpm[t] \in Nat)
      /\ (\A t \in Minutes : rpm[t] + SumOver(Adding) <= arrived)
  BY Numbers DEF Types, RpmCounted
<1>2. ASSUME NEW r \in Requests, Leaves(r), rpm' = rpm, arrived' = arrived
      PROVE  RpmCounted'
  <2>1. /\ SumOver(Adding) \in Nat /\ SumOver(Adding') \in Nat
        /\ SumOver(Adding') <= SumOver(Adding)
    BY <1>2, AddingMoves DEF Is
  <2>2. \A t \in Minutes : rpm'[t] + SumOver(Adding') <= arrived'
    BY <1>1, <1>2, <2>1
  <2>3. QED
    BY <2>2, RpmCountedHolds
<1>3. CASE UNCHANGED vars
  <2>1. rpm' = rpm /\ arrived' = arrived /\ Adding' = Adding
    BY <1>3 DEF vars, Adding
  <2>2. QED
    BY <1>1, <2>1, RpmCountedHolds
<1>4. ASSUME NEW r \in Requests, Arrive(r) PROVE RpmCounted'
  <2>1. \A q \in Requests : q # r => req'[q] = req[q]
    BY <1>4, ArriveGoes DEF Goes
  <2>2. rpm' = rpm /\ arrived' = arrived + 1
    BY <1>4 DEF Arrive
  <2>3. /\ SumOver(Adding) \in Nat /\ SumOver(Adding') \in Nat
        /\ SumOver(Adding') <= SumOver(Adding) + 1
    BY <2>1, AddingMoves DEF Is
  <2>4. \A t \in Minutes : rpm'[t] + SumOver(Adding') <= arrived'
    BY <1>1, <2>2, <2>3
  <2>5. QED
    BY <2>4, RpmCountedHolds
<1>5. ASSUME NEW r \in Requests, RpmAdd(r) PROVE RpmCounted'
  <2>1. req'[r].at = "rpm_total" /\ \A q \in Requests : q # r => req'[q] = req[q]
    BY <1>5, RpmAddGoes DEF Goes, Stays
  <2>2. arrived' = arrived /\ req[r].at = "rpm_add"
    BY <1>5 DEF RpmAdd
  <2>3. \A t \in Minutes : rpm'[t] \in Nat /\ rpm'[t] <= rpm[t] + 1
    <3>1. /\ rpm' \in [Minutes -> Nat] /\ rpm'[req[r].now] = rpm[req[r].now] + 1
          /\ \A t \in Minutes : t # req[r].now => rpm'[t] = rpm[t]
      BY <1>5, RequestFacts, CountUp DEF RpmAdd, Types
    <3>2. QED
      BY <1>1, <3>1
  <2>4. /\ SumOver(Adding) \in Nat /\ SumOver(Adding') \in Nat
        /\ SumOver(Adding') = SumOver(Adding) - 1
    BY <2>1, <2>2, AddingMoves DEF Is
  <2>5. \A t \in Minutes : rpm'[t] + SumOver(Adding') <= arrived'
    BY <1>1, <2>2, <2>3, <2>4
  <2>6. QED
    BY <2>5, RpmCountedHolds
<1>6. ASSUME NEW r \in Requests, RpmTotal(r) PROVE RpmCounted'
  <2>1. Leaves(r)
    BY <1>6, RpmTotalGoes DEF Goes, Stays, Ends
  <2>2. QED
    BY <1>2, <1>6, <2>1 DEF RpmTotal
<1>7. ASSUME NEW r \in Requests, Dispatch(r) PROVE RpmCounted'
  <2>1. Leaves(r)
    BY <1>7, DispatchGoes DEF Goes, Ends
  <2>2. QED
    BY <1>2, <1>7, <2>1 DEF Dispatch
<1>8. ASSUME NEW r \in Requests, TpmAdd(r) PROVE RpmCounted'
  <2>1. Leaves(r)
    BY <1>8, TpmAddGoes DEF Goes, Stays
  <2>2. QED
    BY <1>2, <1>8, <2>1 DEF TpmAdd
<1>9. ASSUME NEW r \in Requests, TpmTotal(r) PROVE RpmCounted'
  <2>1. Leaves(r)
    BY <1>9, TpmTotalGoes DEF Goes, Ends
  <2>2. QED
    BY <1>2, <1>9, <2>1 DEF TpmTotal
<1>10. ASSUME NEW r \in Requests, DailyUsed(r) PROVE RpmCounted'
  <2>1. Leaves(r)
    BY <1>10, DailyUsedGoes DEF Goes
  <2>2. QED
    BY <1>2, <1>10, <2>1 DEF DailyUsed
<1>11. ASSUME NEW r \in Requests, MonthlyUsed(r) PROVE RpmCounted'
  <2>1. Leaves(r)
    BY <1>11, MonthlyUsedGoes DEF Goes, Ends
  <2>2. QED
    BY <1>2, <1>11, <2>1 DEF MonthlyUsed
<1>12. ASSUME NEW r \in Requests, NEW cost \in Costs \union {0}, Dispatched(r, cost)
       PROVE  RpmCounted'
  <2>1. Leaves(r)
    BY <1>12, DispatchedGoes DEF Goes, Ends
  <2>2. QED
    BY <1>2, <1>12, <2>1 DEF Dispatched
<1>13. ASSUME NEW r \in Requests, CommitDaily(r) PROVE RpmCounted'
  <2>1. Leaves(r)
    BY <1>13, CommitDailyGoes DEF Goes, Stays
  <2>2. QED
    BY <1>2, <1>13, <2>1 DEF CommitDaily
<1>14. ASSUME NEW r \in Requests, CommitMonthly(r) PROVE RpmCounted'
  <2>1. Leaves(r)
    BY <1>14, CommitMonthlyGoes DEF Goes, Ends
  <2>2. QED
    BY <1>2, <1>14, <2>1 DEF CommitMonthly
<1>15. ASSUME NEW r \in Requests, Fail(r) PROVE RpmCounted'
  <2>1. Leaves(r)
    BY <1>15, FailGoes DEF Goes, Ends
  <2>2. QED
    BY <1>2, <1>15, <2>1 DEF Fail
<1>16. ASSUME Tick PROVE RpmCounted'
  <2>1. rpm' = rpm /\ arrived' = arrived /\ Adding' = Adding
    BY <1>16 DEF Tick, Adding
  <2>2. QED
    BY <1>1, <2>1, RpmCountedHolds
<1>17. QED
  BY <1>3, <1>4, <1>5, <1>6, <1>7, <1>8, <1>9, <1>10, <1>11, <1>12, <1>13, <1>14, <1>15,
     <1>16 DEF Next
-----------------------------------------------------------------------------
(* What was admitted in a minute is in its bucket.                         *)

LEMMA ReadingMoves ==
    ASSUME Types, NEW r \in Requests, NEW t, \A q \in Requests : q # r => req'[q] = req[q]
    PROVE  /\ SumOver(Reading(t)) \in Nat /\ SumOver(Reading(t)') \in Nat
           /\ SumOver(Reading(t)') =
                SumOver(Reading(t)) - Is(req[r].at = "rpm_total" /\ req[r].now = t)
                                    + Is(req'[r].at = "rpm_total" /\ req'[r].now = t)
<1>1. Reading(t) \in [Requests -> Nat] /\ Reading(t)' \in [Requests -> Nat]
  BY DEF Reading, Is
<1>2. \A q \in Requests : q # r => Reading(t)'[q] = Reading(t)[q]
  BY DEF Reading
<1>3. /\ Reading(t)[r] = Is(req[r].at = "rpm_total" /\ req[r].now = t)
      /\ Reading(t)'[r] = Is(req'[r].at = "rpm_total" /\ req'[r].now = t)
  BY DEF Reading
<1> HIDE DEF Reading
<1>4. QED
  BY <1>1, <1>2, <1>3, SumMoves

NumbersHeld ==
    \A r \in Requests : req[r].tokens \in Nat /\ req[r].cost \in Nat /\ req[r].used \in Nat

LEMMA NumbersAreHeld == Types => NumbersHeld
BY RequestFacts DEF NumbersHeld

LEMMA ReadingTokensMoves ==
    ASSUME Types, Types', NEW r \in Requests, NEW t,
           \A q \in Requests : q # r => req'[q] = req[q]
    PROVE  /\ SumOver(ReadingTokens(t)) \in Nat /\ SumOver(ReadingTokens(t)') \in Nat
           /\ SumOver(ReadingTokens(t)') =
                SumOver(ReadingTokens(t))
                  - (IF req[r].at = "tpm_total" /\ req[r].now = t THEN req[r].tokens ELSE 0)
                  + (IF req'[r].at = "tpm_total" /\ req'[r].now = t
                     THEN req'[r].tokens ELSE 0)
<1>1. ReadingTokens(t) \in [Requests -> Nat] /\ ReadingTokens(t)' \in [Requests -> Nat]
  <2>1. \A q \in Requests : req[q].tokens \in Nat
    BY RequestFacts
  <2>2. \A q \in Requests : req'[q].tokens \in Nat
    <3>1. NumbersHeld'
      BY NumbersAreHeld, PTL
    <3>2. QED
      BY <3>1 DEF NumbersHeld
  <2>3. QED
    BY <2>1, <2>2 DEF ReadingTokens
<1>2. \A q \in Requests : q # r => ReadingTokens(t)'[q] = ReadingTokens(t)[q]
  BY DEF ReadingTokens
<1>3. /\ ReadingTokens(t)[r] = IF req[r].at = "tpm_total" /\ req[r].now = t
                               THEN req[r].tokens ELSE 0
      /\ ReadingTokens(t)'[r] = IF req'[r].at = "tpm_total" /\ req'[r].now = t
                                THEN req'[r].tokens ELSE 0
  BY DEF ReadingTokens
<1> HIDE DEF ReadingTokens
<1>4. QED
  BY <1>1, <1>2, <1>3, SumMoves

LEMMA PassedCountedHolds ==
    ASSUME \A t \in Minutes :
             /\ passed'[t].requests + SumOver(Reading(t)') <= rpm'[t]
             /\ passed'[t].tokens + SumOver(ReadingTokens(t)') <= tpm'[t]
    PROVE  PassedCounted'
BY DEF PassedCounted

\* The two inequalities, at a minute.
LEMMA PassedAt ==
    ASSUME Types, PassedCounted, NEW t \in Minutes
    PROVE  /\ passed[t].requests \in Nat /\ passed[t].tokens \in Nat
           /\ rpm[t] \in Nat /\ tpm[t] \in Nat
           /\ passed[t].requests + SumOver(Reading(t)) <= rpm[t]
           /\ passed[t].tokens + SumOver(ReadingTokens(t)) <= tpm[t]
BY DEF Types, PassedCounted

\* A request that is not before a total adds to no sum.
LEMMA PassedCountedKept ==
    ASSUME Types, Types', PassedCounted, NEW r \in Requests,
           req'[r].at \notin {"rpm_total", "tpm_total"},
           \A q \in Requests : q # r => req'[q] = req[q],
           UNCHANGED <<rpm, tpm, passed>>
    PROVE  PassedCounted'
<1>. SUFFICES ASSUME NEW t \in Minutes
     PROVE  /\ passed'[t].requests + SumOver(Reading(t)') <= rpm'[t]
            /\ passed'[t].tokens + SumOver(ReadingTokens(t)') <= tpm'[t]
  BY PassedCountedHolds
<1>1. /\ SumOver(Reading(t)) \in Nat /\ SumOver(Reading(t)') \in Nat
      /\ SumOver(Reading(t)') <= SumOver(Reading(t))
  BY ReadingMoves DEF Is
<1>2. /\ SumOver(ReadingTokens(t)) \in Nat /\ SumOver(ReadingTokens(t)') \in Nat
      /\ SumOver(ReadingTokens(t)') <= SumOver(ReadingTokens(t))
  <2>1. req[r].tokens \in Nat
    BY RequestFacts
  <2>2. /\ SumOver(ReadingTokens(t)) \in Nat /\ SumOver(ReadingTokens(t)') \in Nat
        /\ SumOver(ReadingTokens(t)') =
              SumOver(ReadingTokens(t))
                - (IF req[r].at = "tpm_total" /\ req[r].now = t THEN req[r].tokens ELSE 0)
                + 0
    BY ReadingTokensMoves
  <2>3. QED
    BY <2>1, <2>2
<1>3. QED
  BY <1>1, <1>2, PassedAt

LEMMA RpmAddPassed ==
    ASSUME Types, Types', PassedCounted, NEW r \in Requests, RpmAdd(r)
    PROVE  PassedCounted'
<1>. SUFFICES ASSUME NEW t \in Minutes
     PROVE  /\ passed'[t].requests + SumOver(Reading(t)') <= rpm'[t]
            /\ passed'[t].tokens + SumOver(ReadingTokens(t)') <= tpm'[t]
  BY PassedCountedHolds
<1>1. /\ req[r].at = "rpm_add" /\ req'[r].at = "rpm_total" /\ req'[r].now = req[r].now
      /\ \A q \in Requests : q # r => req'[q] = req[q]
      /\ UNCHANGED <<tpm, passed>>
  BY RpmAddGoes DEF RpmAdd, Goes, Stays
<1>2. /\ SumOver(Reading(t)) \in Nat /\ SumOver(Reading(t)') \in Nat
      /\ SumOver(Reading(t)') = SumOver(Reading(t)) + Is(req[r].now = t)
  BY <1>1, ReadingMoves DEF Is
<1>3. /\ SumOver(ReadingTokens(t)) \in Nat
      /\ SumOver(ReadingTokens(t)') = SumOver(ReadingTokens(t))
  <2>1. /\ SumOver(ReadingTokens(t)) \in Nat
        /\ SumOver(ReadingTokens(t)') = SumOver(ReadingTokens(t)) - 0 + 0
    BY <1>1, ReadingTokensMoves
  <2>2. QED
    BY <2>1
<1>4. rpm'[t] = rpm[t] + Is(req[r].now = t)
  <2>1. /\ rpm'[req[r].now] = rpm[req[r].now] + 1
        /\ \A u \in Minutes : u # req[r].now => rpm'[u] = rpm[u]
    BY RequestFacts, CountUp DEF RpmAdd, Types
  <2>2. rpm[t] \in Nat
    BY DEF Types
  <2>3. QED
    BY <2>1, <2>2 DEF Is
<1>5. Is(req[r].now = t) \in Nat
  BY DEF Is
<1>6. QED
  BY <1>1, <1>2, <1>3, <1>4, <1>5, PassedAt

LEMMA RpmTotalPassed ==
    ASSUME Types, Types', PassedCounted, NEW r \in Requests, RpmTotal(r)
    PROVE  PassedCounted'
<1>1. CASE ~(Total(rpm, req[r].now) <= RPM)
  <2>1. Ends(r) /\ UNCHANGED <<rpm, tpm, passed>>
    BY <1>1, RpmTotalGoes DEF RpmTotal
  <2>2. QED
    BY <2>1, PassedCountedKept DEF Ends, Goes
<1>2. CASE Total(rpm, req[r].now) <= RPM
  <2>. SUFFICES ASSUME NEW t \in Minutes
       PROVE  /\ passed'[t].requests + SumOver(Reading(t)') <= rpm'[t]
              /\ passed'[t].tokens + SumOver(ReadingTokens(t)') <= tpm'[t]
    BY PassedCountedHolds
  <2>1. /\ req[r].at = "rpm_total" /\ req'[r].at = "body"
        /\ \A q \in Requests : q # r => req'[q] = req[q]
        /\ UNCHANGED <<rpm, tpm>>
        /\ passed' = [passed EXCEPT ![req[r].now].requests = @ + 1]
    BY <1>2, RpmTotalGoes DEF RpmTotal, Goes, Stays
  <2>2. /\ SumOver(Reading(t)) \in Nat /\ SumOver(Reading(t)') \in Nat
        /\ SumOver(Reading(t)') = SumOver(Reading(t)) - Is(req[r].now = t)
    BY <2>1, ReadingMoves DEF Is
  <2>3. /\ SumOver(ReadingTokens(t)) \in Nat
        /\ SumOver(ReadingTokens(t)') = SumOver(ReadingTokens(t))
    <3>1. /\ SumOver(ReadingTokens(t)) \in Nat
          /\ SumOver(ReadingTokens(t)') = SumOver(ReadingTokens(t)) - 0 + 0
      BY <2>1, ReadingTokensMoves
    <3>2. QED
      BY <3>1
  <2>4. /\ passed'[t].requests = passed[t].requests + Is(req[r].now = t)
        /\ passed'[t].tokens = passed[t].tokens
    <3>1. req[r].now \in Minutes /\ 1 \in Nat
      BY RequestFacts
    <3>2. /\ passed'[req[r].now].requests = passed[req[r].now].requests + 1
          /\ passed'[req[r].now].tokens = passed[req[r].now].tokens
          /\ \A u \in Minutes : u # req[r].now => passed'[u] = passed[u]
      BY <2>1, <3>1, PassedUp
    <3>3. passed[t].requests \in Nat
      BY DEF Types
    <3>4. QED
      BY <3>2, <3>3 DEF Is
  <2>5. Is(req[r].now = t) \in Nat
    BY DEF Is
  <2>6. QED
    BY <2>1, <2>2, <2>3, <2>4, <2>5, PassedAt
<1>3. QED
  BY <1>1, <1>2

LEMMA TpmAddPassed ==
    ASSUME Types, Types', PassedCounted, NEW r \in Requests, TpmAdd(r)
    PROVE  PassedCounted'
<1>. SUFFICES ASSUME NEW t \in Minutes
     PROVE  /\ passed'[t].requests + SumOver(Reading(t)') <= rpm'[t]
            /\ passed'[t].tokens + SumOver(ReadingTokens(t)') <= tpm'[t]
  BY PassedCountedHolds
<1>1. /\ req[r].at = "tpm_add" /\ req'[r].at = "tpm_total" /\ req'[r].now = req[r].now
      /\ req'[r].tokens = req[r].tokens
      /\ \A q \in Requests : q # r => req'[q] = req[q]
      /\ UNCHANGED <<rpm, passed>>
  BY TpmAddGoes DEF TpmAdd, Goes, Stays
<1> DEFINE more == IF req[r].now = t THEN req[r].tokens ELSE 0
<1>2. /\ SumOver(Reading(t)) \in Nat /\ SumOver(Reading(t)') \in Nat
      /\ SumOver(Reading(t)') = SumOver(Reading(t))
  BY <1>1, ReadingMoves DEF Is
<1>3. req[r].tokens \in Nat
  BY RequestFacts
<1>4. /\ SumOver(ReadingTokens(t)) \in Nat /\ SumOver(ReadingTokens(t)') \in Nat
      /\ SumOver(ReadingTokens(t)') = SumOver(ReadingTokens(t)) + more
  <2>1. /\ SumOver(ReadingTokens(t)) \in Nat /\ SumOver(ReadingTokens(t)') \in Nat
        /\ SumOver(ReadingTokens(t)') =
             SumOver(ReadingTokens(t)) - 0 + more
    BY <1>1, ReadingTokensMoves
  <2> HIDE DEF more
  <2>2. QED
    BY <2>1
<1>5. tpm'[t] = tpm[t] + more
  <2>1. /\ tpm'[req[r].now] = tpm[req[r].now] + req[r].tokens
        /\ \A u \in Minutes : u # req[r].now => tpm'[u] = tpm[u]
    BY RequestFacts, CountUp DEF TpmAdd, Types
  <2>2. tpm[t] \in Nat
    BY DEF Types
  <2>3. QED
    BY <2>1, <2>2
<1>6. more \in Nat
  BY <1>3
<1> HIDE DEF more
<1>7. QED
  BY <1>1, <1>2, <1>4, <1>5, <1>6, PassedAt

LEMMA TpmTotalPassed ==
    ASSUME Types, Types', PassedCounted, NEW r \in Requests, TpmTotal(r)
    PROVE  PassedCounted'
<1>1. CASE ~(Total(tpm, req[r].now) <= TPM)
  <2>1. Ends(r) /\ UNCHANGED <<rpm, tpm, passed>>
    BY <1>1, TpmTotalGoes DEF TpmTotal
  <2>2. QED
    BY <2>1, PassedCountedKept DEF Ends, Goes
<1>2. CASE Total(tpm, req[r].now) <= TPM
  <2>. SUFFICES ASSUME NEW t \in Minutes
       PROVE  /\ passed'[t].requests + SumOver(Reading(t)') <= rpm'[t]
              /\ passed'[t].tokens + SumOver(ReadingTokens(t)') <= tpm'[t]
    BY PassedCountedHolds
  <2>1. /\ req[r].at = "tpm_total" /\ req'[r].at = "daily_used"
        /\ \A q \in Requests : q # r => req'[q] = req[q]
        /\ UNCHANGED <<rpm, tpm>>
        /\ passed' = [passed EXCEPT ![req[r].now].tokens = @ + req[r].tokens]
    BY <1>2, TpmTotalGoes DEF TpmTotal, Goes
  <2> DEFINE less == IF req[r].now = t THEN req[r].tokens ELSE 0
  <2>2. /\ SumOver(Reading(t)) \in Nat /\ SumOver(Reading(t)') \in Nat
        /\ SumOver(Reading(t)') = SumOver(Reading(t))
    BY <2>1, ReadingMoves DEF Is
  <2>3. req[r].tokens \in Nat /\ req[r].now \in Minutes
    BY RequestFacts
  <2>4. less \in Nat
    BY <2>3
  <2>5. /\ SumOver(ReadingTokens(t)) \in Nat /\ SumOver(ReadingTokens(t)') \in Nat
        /\ SumOver(ReadingTokens(t)') = SumOver(ReadingTokens(t)) - less
    <3>1. /\ SumOver(ReadingTokens(t)) \in Nat /\ SumOver(ReadingTokens(t)') \in Nat
          /\ SumOver(ReadingTokens(t)') = SumOver(ReadingTokens(t)) - less + 0
      BY <2>1, ReadingTokensMoves
    <3> HIDE DEF less
    <3>2. QED
      BY <2>4, <3>1
  <2>6. /\ passed'[t].requests = passed[t].requests
        /\ passed'[t].tokens = passed[t].tokens + less
    <3>1. /\ passed'[req[r].now].tokens = passed[req[r].now].tokens + req[r].tokens
          /\ passed'[req[r].now].requests = passed[req[r].now].requests
          /\ \A u \in Minutes : u # req[r].now => passed'[u] = passed[u]
      BY <2>1, <2>3, PassedUp
    <3>2. passed[t].tokens \in Nat
      BY DEF Types
    <3>3. QED
      BY <3>1, <3>2
  <2> HIDE DEF less
  <2>7. QED
    BY <2>1, <2>2, <2>4, <2>5, <2>6, PassedAt
<1>3. QED
  BY <1>1, <1>2

LEMMA PassedCountedStep ==
    ASSUME Types, Types', PassedCounted, [Next]_vars
    PROVE  PassedCounted'
<1> DEFINE Goes2(r) == /\ req'[r].at \notin {"rpm_total", "tpm_total"}
                       /\ \A q \in Requests : q # r => req'[q] = req[q]
<1>1. CASE UNCHANGED vars
  BY <1>1 DEF vars, PassedCounted, Reading, ReadingTokens
<1>2. ASSUME NEW r \in Requests, Arrive(r) PROVE PassedCounted'
  <2>1. Goes2(r)
    BY <1>2, ArriveGoes DEF Goes
  <2>2. QED
    BY <1>2, <2>1, PassedCountedKept DEF Arrive
<1>3. ASSUME NEW r \in Requests, Dispatch(r) PROVE PassedCounted'
  <2>1. Goes2(r)
    BY <1>3, DispatchGoes DEF Goes, Ends
  <2>2. QED
    BY <1>3, <2>1, PassedCountedKept DEF Dispatch
<1>4. ASSUME NEW r \in Requests, DailyUsed(r) PROVE PassedCounted'
  <2>1. Goes2(r)
    BY <1>4, DailyUsedGoes DEF Goes
  <2>2. QED
    BY <1>4, <2>1, PassedCountedKept DEF DailyUsed
<1>5. ASSUME NEW r \in Requests, MonthlyUsed(r) PROVE PassedCounted'
  <2>1. Goes2(r)
    BY <1>5, MonthlyUsedGoes DEF Goes, Ends
  <2>2. QED
    BY <1>5, <2>1, PassedCountedKept DEF MonthlyUsed
<1>6. ASSUME NEW r \in Requests, NEW cost \in Costs \union {0}, Dispatched(r, cost)
      PROVE  PassedCounted'
  <2>1. Goes2(r)
    BY <1>6, DispatchedGoes DEF Goes, Ends
  <2>2. QED
    BY <1>6, <2>1, PassedCountedKept DEF Dispatched
<1>7. ASSUME NEW r \in Requests, CommitDaily(r) PROVE PassedCounted'
  <2>1. Goes2(r)
    BY <1>7, CommitDailyGoes DEF Goes, Stays
  <2>2. QED
    BY <1>7, <2>1, PassedCountedKept DEF CommitDaily
<1>8. ASSUME NEW r \in Requests, CommitMonthly(r) PROVE PassedCounted'
  <2>1. Goes2(r)
    BY <1>8, CommitMonthlyGoes DEF Goes, Ends
  <2>2. QED
    BY <1>8, <2>1, PassedCountedKept DEF CommitMonthly
<1>9. ASSUME NEW r \in Requests, Fail(r) PROVE PassedCounted'
  <2>1. Goes2(r)
    BY <1>9, FailGoes DEF Goes, Ends
  <2>2. QED
    BY <1>9, <2>1, PassedCountedKept DEF Fail
<1>10. ASSUME Tick PROVE PassedCounted'
  BY <1>10 DEF Tick, PassedCounted, Reading, ReadingTokens
<1>11. QED
  BY <1>1, <1>2, <1>3, <1>4, <1>5, <1>6, <1>7, <1>8, <1>9, <1>10,
     RpmAddPassed, RpmTotalPassed, TpmAddPassed, TpmTotalPassed DEF Next

\* A bucket is no more than the total of the minutes from its own.
LEMMA TotalBounds ==
    ASSUME NEW value \in [Minutes -> Nat], NEW t \in Minutes
    PROVE  Total(value, t) \in Nat /\ value[t] <= Total(value, t)
<1> DEFINE D == {m \in Minutes : m >= t}
<1>1. IsFiniteSet(Minutes)
  BY Numbers, FS_Interval DEF Minutes
<1>2. IsFiniteSet(D)
  BY <1>1, FS_Subset
<1>3. t \in D
  BY MinutesAreNat
<1>4. \A m \in D : value[m] \in Nat
  OBVIOUS
<1> HIDE DEF D
<1>5. SumFunctionOnSet(value, D) \in Nat /\ value[t] <= SumFunctionOnSet(value, D)
  BY <1>2, <1>3, <1>4, SumType, SumBounds
<1>6. QED
  BY <1>5 DEF Total, D

LEMMA RateHoldsKept ==
    ASSUME RateHolds, passed' = passed
    PROVE  RateHolds'
BY DEF RateHolds

LEMMA RpmTotalRate ==
    ASSUME Types, Types', PassedCounted', RateHolds, NEW r \in Requests, RpmTotal(r)
    PROVE  RateHolds'
<1>1. CASE ~(Total(rpm, req[r].now) <= RPM)
  BY <1>1, RateHoldsKept DEF RpmTotal
<1>2. CASE Total(rpm, req[r].now) <= RPM
  <2>1. /\ rpm' = rpm /\ UNCHANGED tpm
        /\ passed' = [passed EXCEPT ![req[r].now].requests = @ + 1]
        /\ \A q \in Requests : q # r => req'[q] = req[q]
    BY <1>2, RpmTotalGoes DEF RpmTotal, Goes, Stays
  <2>2. PICK t \in Minutes : t = req[r].now
    BY RequestFacts
  <2>3. passed'[t].requests + SumOver(Reading(t)') <= rpm[t]
    BY <2>1 DEF PassedCounted
  <2>4. SumOver(Reading(t)') \in Nat
    BY <2>1, ReadingMoves
  <2>5. /\ passed'[t].requests \in Nat /\ passed'[t].tokens = passed[t].tokens
        /\ \A u \in Minutes : u # t => passed'[u] = passed[u]
    <3>1. 1 \in Nat
      OBVIOUS
    <3>2. passed' = [passed EXCEPT ![t].requests = @ + 1]
      BY <2>1, <2>2
    <3>3. /\ passed'[t].tokens = passed[t].tokens
          /\ \A u \in Minutes : u # t => passed'[u] = passed[u]
      BY <3>1, <3>2, PassedUp
    <3>4. QED
      BY <3>3 DEF Types
  <2>6. rpm[t] \in Nat /\ rpm[t] <= RPM
    <3>1. rpm \in [Minutes -> Nat]
      BY DEF Types
    <3>2. Total(rpm, t) \in Nat /\ rpm[t] <= Total(rpm, t) /\ rpm[t] \in Nat
      BY <3>1, TotalBounds
    <3>3. Total(rpm, t) <= RPM
      BY <1>2, <2>2
    <3>4. QED
      BY <3>2, <3>3, Numbers
  <2>7. passed'[t].requests <= RPM
    BY <2>3, <2>4, <2>5, <2>6, Numbers
  <2>8. \A u \in Minutes : /\ RPM > 0 => passed'[u].requests <= RPM
                           /\ TPM > 0 => passed'[u].tokens <= TPM
    <3>1. \A u \in Minutes : /\ RPM > 0 => passed[u].requests <= RPM
                             /\ TPM > 0 => passed[u].tokens <= TPM
      BY DEF RateHolds
    <3>2. QED
      BY <2>5, <2>7, <3>1
  <2>9. QED
    BY <2>8 DEF RateHolds
<1>3. QED
  BY <1>1, <1>2

LEMMA TpmTotalRate ==
    ASSUME Types, Types', PassedCounted', RateHolds, NEW r \in Requests, TpmTotal(r)
    PROVE  RateHolds'
<1>1. CASE ~(Total(tpm, req[r].now) <= TPM)
  BY <1>1, RateHoldsKept DEF TpmTotal
<1>2. CASE Total(tpm, req[r].now) <= TPM
  <2>1. /\ tpm' = tpm
        /\ passed' = [passed EXCEPT ![req[r].now].tokens = @ + req[r].tokens]
        /\ \A q \in Requests : q # r => req'[q] = req[q]
    BY <1>2, TpmTotalGoes DEF TpmTotal, Goes
  <2>2. PICK t \in Minutes : t = req[r].now
    BY RequestFacts
  <2>3. passed'[t].tokens + SumOver(ReadingTokens(t)') <= tpm[t]
    BY <2>1 DEF PassedCounted
  <2>4. SumOver(ReadingTokens(t)') \in Nat
    BY <2>1, ReadingTokensMoves
  <2>5. /\ passed'[t].tokens \in Nat /\ passed'[t].requests = passed[t].requests
        /\ \A u \in Minutes : u # t => passed'[u] = passed[u]
    <3>1. req[r].tokens \in Nat
      BY RequestFacts
    <3>2. passed' = [passed EXCEPT ![t].tokens = @ + req[r].tokens]
      BY <2>1, <2>2
    <3>3. /\ passed'[t].requests = passed[t].requests
          /\ \A u \in Minutes : u # t => passed'[u] = passed[u]
      BY <3>1, <3>2, PassedUp
    <3>4. QED
      BY <3>3 DEF Types
  <2>6. tpm[t] \in Nat /\ tpm[t] <= TPM
    <3>1. tpm \in [Minutes -> Nat]
      BY DEF Types
    <3>2. Total(tpm, t) \in Nat /\ tpm[t] <= Total(tpm, t) /\ tpm[t] \in Nat
      BY <3>1, TotalBounds
    <3>3. Total(tpm, t) <= TPM
      BY <1>2, <2>2
    <3>4. QED
      BY <3>2, <3>3, Numbers
  <2>7. passed'[t].tokens <= TPM
    BY <2>3, <2>4, <2>5, <2>6, Numbers
  <2>8. \A u \in Minutes : /\ RPM > 0 => passed'[u].requests <= RPM
                           /\ TPM > 0 => passed'[u].tokens <= TPM
    <3>1. \A u \in Minutes : /\ RPM > 0 => passed[u].requests <= RPM
                             /\ TPM > 0 => passed[u].tokens <= TPM
      BY DEF RateHolds
    <3>2. QED
      BY <2>5, <2>7, <3>1
  <2>9. QED
    BY <2>8 DEF RateHolds
<1>3. QED
  BY <1>1, <1>2

LEMMA RateHoldsStep ==
    ASSUME Types, Types', PassedCounted', RateHolds, [Next]_vars
    PROVE  RateHolds'
<1>1. ASSUME passed' # passed
      PROVE  \E r \in Requests : RpmTotal(r) \/ TpmTotal(r)
  BY <1>1 DEF Next, vars, Arrive, RpmAdd, Dispatch, TpmAdd, DailyUsed, MonthlyUsed,
     Dispatched, CommitDaily, CommitMonthly, Fail, Tick
<1>2. QED
  BY <1>1, RateHoldsKept, RpmTotalRate, TpmTotalRate
-----------------------------------------------------------------------------
(* The counters of the days and of the month.                              *)

LEMMA DaysOfFacts ==
    ASSUME NEW m
    PROVE  /\ DaysOf(m) \subseteq Days /\ IsFiniteSet(DaysOf(m))
           /\ \A t \in Minutes : Day(t) \in DaysOf(m) <=> Month(t) = m
<1> DEFINE S == {s \in Minutes : Month(s) = m}
<1>1. IsFiniteSet(Minutes)
  BY Numbers, FS_Interval DEF Minutes
<1>2. IsFiniteSet(S)
  BY <1>1, FS_Subset
<1>3. DaysOf(m) = {Day(t) : t \in S}
  BY DEF DaysOf
<1>4. IsFiniteSet({Day(t) : t \in S})
  <2> DEFINE f == [t \in S |-> Day(t)]
  <2> HIDE DEF S
  <2>1. f \in Surjection(S, {Day(t) : t \in S})
    BY DEF Surjection
  <2> HIDE DEF f
  <2>2. QED
    BY <1>2, <2>1, FS_Surjection
<1>5. DaysOf(m) \subseteq Days
  BY <1>3 DEF Days, S
<1>6. \A t \in Minutes : Month(t) = m => Day(t) \in DaysOf(m)
  BY DEF DaysOf
<1>7. ASSUME NEW t \in Minutes, Day(t) \in DaysOf(m) PROVE Month(t) = m
  <2>1. PICK s \in Minutes : Month(s) = m /\ Day(s) = Day(t)
    BY <1>7 DEF DaysOf
  <2>2. Month(s) = Month(t)
    BY <2>1, AdmissionAssumption DEF Minutes
  <2>3. QED
    BY <2>1, <2>2
<1>8. QED
  BY <1>3, <1>4, <1>5, <1>6, <1>7

LEMMA ChargingMoves ==
    ASSUME Types, Types', NEW r \in Requests, NEW m,
           \A q \in Requests : q # r => req'[q] = req[q]
    PROVE  /\ SumOver(Charging(m)) \in Nat /\ SumOver(Charging(m)') \in Nat
           /\ SumOver(Charging(m)') =
                SumOver(Charging(m))
                  - (IF req[r].at = "commit_monthly" /\ Month(req[r].now) = m
                     THEN req[r].cost ELSE 0)
                  + (IF req'[r].at = "commit_monthly" /\ Month(req'[r].now) = m
                     THEN req'[r].cost ELSE 0)
<1>1. Charging(m) \in [Requests -> Nat] /\ Charging(m)' \in [Requests -> Nat]
  <2>1. \A q \in Requests : req[q].cost \in Nat
    BY RequestFacts
  <2>2. \A q \in Requests : req'[q].cost \in Nat
    <3>1. NumbersHeld'
      BY NumbersAreHeld, PTL
    <3>2. QED
      BY <3>1 DEF NumbersHeld
  <2>3. QED
    BY <2>1, <2>2 DEF Charging
<1>2. \A q \in Requests : q # r => Charging(m)'[q] = Charging(m)[q]
  BY DEF Charging
<1>3. /\ Charging(m)[r] = IF req[r].at = "commit_monthly" /\ Month(req[r].now) = m
                          THEN req[r].cost ELSE 0
      /\ Charging(m)'[r] = IF req'[r].at = "commit_monthly" /\ Month(req'[r].now) = m
                           THEN req'[r].cost ELSE 0
  BY DEF Charging
<1> HIDE DEF Charging
<1>4. QED
  BY <1>1, <1>2, <1>3, SumMoves

LEMMA CountersAgreeHolds ==
    ASSUME \A m \in Months : SumFunctionOnSet(daily', DaysOf(m)) =
                               monthly'[m] + missed'[m] + SumOver(Charging(m)')
    PROVE  CountersAgree'
BY DEF CountersAgree

LEMMA AgreeAt ==
    ASSUME Types, CountersAgree, NEW m \in Months
    PROVE  /\ monthly[m] \in Nat /\ missed[m] \in Nat
           /\ SumFunctionOnSet(daily, DaysOf(m)) \in Nat
           /\ SumFunctionOnSet(daily, DaysOf(m)) =
                monthly[m] + missed[m] + SumOver(Charging(m))
<1>1. \A d \in DaysOf(m) : daily[d] \in Nat
  <2>1. DaysOf(m) \subseteq Days
    BY DaysOfFacts
  <2>2. \A d \in Days : daily[d] \in Nat
    BY DEF Types
  <2>3. QED
    BY <2>1, <2>2
<1>2. SumFunctionOnSet(daily, DaysOf(m)) \in Nat
  BY <1>1, DaysOfFacts, SumType
<1>3. QED
  BY <1>2 DEF Types, CountersAgree

LEMMA CountersAgreeKept ==
    ASSUME Types, Types', CountersAgree, NEW r \in Requests,
           "commit_monthly" \notin {req[r].at, req'[r].at},
           \A q \in Requests : q # r => req'[q] = req[q],
           UNCHANGED <<daily, monthly, missed>>
    PROVE  CountersAgree'
<1>. SUFFICES ASSUME NEW m \in Months
     PROVE  SumFunctionOnSet(daily', DaysOf(m)) =
               monthly'[m] + missed'[m] + SumOver(Charging(m)')
  BY CountersAgreeHolds
<1>1. /\ SumOver(Charging(m)) \in Nat
      /\ SumOver(Charging(m)') = SumOver(Charging(m)) - 0 + 0
  BY ChargingMoves
<1>2. SumOver(Charging(m)') = SumOver(Charging(m))
  BY <1>1
<1>3. QED
  BY <1>2, AgreeAt

LEMMA CommitDailyAgrees ==
    ASSUME Types, Types', CountersAgree, NEW r \in Requests, CommitDaily(r)
    PROVE  CountersAgree'
<1>. SUFFICES ASSUME NEW m \in Months
     PROVE  SumFunctionOnSet(daily', DaysOf(m)) =
               monthly'[m] + missed'[m] + SumOver(Charging(m)')
  BY CountersAgreeHolds
<1>1. PICK t \in Minutes : t = req[r].now
  BY RequestFacts
<1>2. PICK c \in Nat : c = req[r].cost
  BY RequestFacts
<1>3. /\ req[r].at = "commit_daily" /\ req'[r].at = "commit_monthly"
      /\ req'[r].now = t /\ req'[r].cost = c
      /\ \A q \in Requests : q # r => req'[q] = req[q]
      /\ UNCHANGED <<monthly, missed>>
      /\ daily' = [daily EXCEPT ![Day(t)] = @ + c]
  BY <1>1, <1>2, CommitDailyGoes DEF CommitDaily, Goes, Stays
<1>4. /\ daily \in [Days -> Nat] /\ daily' \in [Days -> Nat]
      /\ Day(t) \in Days /\ daily'[Day(t)] = daily[Day(t)] + c
      /\ \A d \in Days : d # Day(t) => daily'[d] = daily[d]
  BY <1>3, CalendarIn, CountUp DEF Types
<1> DEFINE D == DaysOf(m)
<1>5. /\ D \subseteq Days /\ IsFiniteSet(D)
      /\ Day(t) \in D <=> Month(t) = m
  BY DaysOfFacts
<1>6. /\ monthly[m] \in Nat /\ missed[m] \in Nat /\ SumFunctionOnSet(daily, D) \in Nat
      /\ SumFunctionOnSet(daily, D) = monthly[m] + missed[m] + SumOver(Charging(m))
  BY AgreeAt
<1> DEFINE more == IF Month(t) = m THEN c ELSE 0
<1>7. /\ SumOver(Charging(m)) \in Nat /\ SumOver(Charging(m)') \in Nat
      /\ SumOver(Charging(m)') = SumOver(Charging(m)) + more
  <2>1. /\ SumOver(Charging(m)) \in Nat /\ SumOver(Charging(m)') \in Nat
        /\ SumOver(Charging(m)') = SumOver(Charging(m)) - 0 + more
    BY <1>3, ChargingMoves
  <2>2. more \in Nat
    OBVIOUS
  <2> HIDE DEF more
  <2>3. QED
    BY <2>1, <2>2
<1> HIDE DEF D
<1>8. SumFunctionOnSet(daily', D) = SumFunctionOnSet(daily, D) + more
  <2>1. \A d \in D : daily[d] \in Nat /\ daily'[d] \in Nat
    BY <1>4, <1>5
  <2>2. CASE Month(t) = m
    <3>1. Day(t) \in D /\ daily[Day(t)] \in Nat /\ daily'[Day(t)] \in Nat
      BY <1>5, <2>1, <2>2
    <3>2. \A d \in D \ {Day(t)} : daily'[d] = daily[d]
      BY <1>4, <1>5
    <3>3. SumFunctionOnSet(daily', D) =
             SumFunctionOnSet(daily, D) - daily[Day(t)] + daily'[Day(t)]
      BY <1>5, <2>1, <3>1, <3>2, SumUpdate
    <3>4. QED
      BY <1>4, <1>6, <2>2, <3>1, <3>3
  <2>3. CASE Month(t) # m
    <3>1. \A d \in D : daily[d] = daily'[d]
      BY <1>4, <1>5, <2>3
    <3>2. SumFunctionOnSet(daily', D) = SumFunctionOnSet(daily, D)
      BY <1>5, <3>1, SumEqual
    <3>3. QED
      BY <1>6, <2>3, <3>2
  <2>4. QED
    BY <2>2, <2>3
<1>9. more \in Nat
  OBVIOUS
<1>10. monthly'[m] = monthly[m] /\ missed'[m] = missed[m]
  BY <1>3
<1> HIDE DEF more
<1>11. SumFunctionOnSet(daily', D) = monthly'[m] + missed'[m] + SumOver(Charging(m)')
  BY <1>6, <1>7, <1>8, <1>9, <1>10
<1>12. QED
  BY <1>11 DEF D

\* The two ways a request leaves Commit: the month is charged, or misses the charge.
LEMMA ChargedAgrees ==
    ASSUME Types, Types', CountersAgree, NEW r \in Requests,
           req[r].at = "commit_monthly", Ends(r), daily' = daily,
           NEW t \in Minutes, t = req[r].now,
           \/ /\ monthly' = [monthly EXCEPT ![Month(t)] = @ + req[r].cost]
              /\ missed' = missed
           \/ /\ missed' = [missed EXCEPT ![Month(t)] = @ + req[r].cost]
              /\ monthly' = monthly
    PROVE  CountersAgree'
<1>. SUFFICES ASSUME NEW m \in Months
     PROVE  SumFunctionOnSet(daily', DaysOf(m)) =
               monthly'[m] + missed'[m] + SumOver(Charging(m)')
  BY CountersAgreeHolds
<1>1. PICK c \in Nat : c = req[r].cost
  BY RequestFacts
<1>2. req'[r].at = "idle" /\ \A q \in Requests : q # r => req'[q] = req[q]
  BY DEF Ends, Goes
<1> DEFINE less == IF Month(t) = m THEN c ELSE 0
<1>3. less \in Nat
  OBVIOUS
<1>4. /\ SumOver(Charging(m)) \in Nat /\ SumOver(Charging(m)') \in Nat
      /\ SumOver(Charging(m)') = SumOver(Charging(m)) - less + 0
  BY <1>1, <1>2, ChargingMoves
<1>5. /\ monthly[m] \in Nat /\ missed[m] \in Nat
      /\ monthly'[m] + missed'[m] = monthly[m] + missed[m] + less
      /\ monthly'[m] \in Nat /\ missed'[m] \in Nat
  <2>1. monthly \in [Months -> Nat] /\ missed \in [Months -> Nat] /\ Month(t) \in Months
    BY CalendarIn DEF Types
  <2>2. CASE monthly' = [monthly EXCEPT ![Month(t)] = @ + c] /\ missed' = missed
    BY <2>1, <2>2
  <2>3. CASE missed' = [missed EXCEPT ![Month(t)] = @ + c] /\ monthly' = monthly
    BY <2>1, <2>3
  <2>4. QED
    BY <1>1, <2>2, <2>3
<1> HIDE DEF less
<1>6. SumFunctionOnSet(daily, DaysOf(m)) = monthly[m] + missed[m] + SumOver(Charging(m))
  BY AgreeAt
<1>7. SumFunctionOnSet(daily, DaysOf(m)) = monthly'[m] + missed'[m] + SumOver(Charging(m)')
  BY <1>3, <1>4, <1>5, <1>6
<1>8. QED
  BY <1>7

LEMMA CountersAgreeStep ==
    ASSUME Types, Types', CountersAgree, [Next]_vars
    PROVE  CountersAgree'
<1> DEFINE Apart(r) == /\ "commit_monthly" \notin {req[r].at, req'[r].at}
                       /\ \A q \in Requests : q # r => req'[q] = req[q]
<1>1. CASE UNCHANGED vars
  BY <1>1 DEF vars, CountersAgree, Charging
<1>2. ASSUME NEW r \in Requests, Arrive(r) PROVE CountersAgree'
  <2>1. Apart(r)
    BY <1>2, ArriveGoes DEF Goes, Arrive
  <2>2. QED
    BY <1>2, <2>1, CountersAgreeKept DEF Arrive
<1>3. ASSUME NEW r \in Requests, RpmAdd(r) PROVE CountersAgree'
  <2>1. Apart(r)
    BY <1>3, RpmAddGoes DEF Goes, Stays, RpmAdd
  <2>2. QED
    BY <1>3, <2>1, CountersAgreeKept DEF RpmAdd
<1>4. ASSUME NEW r \in Requests, RpmTotal(r) PROVE CountersAgree'
  <2>1. Apart(r)
    BY <1>4, RpmTotalGoes DEF Goes, Stays, Ends, RpmTotal
  <2>2. QED
    BY <1>4, <2>1, CountersAgreeKept DEF RpmTotal
<1>5. ASSUME NEW r \in Requests, Dispatch(r) PROVE CountersAgree'
  <2>1. Apart(r)
    BY <1>5, DispatchGoes DEF Goes, Ends, Dispatch
  <2>2. QED
    BY <1>5, <2>1, CountersAgreeKept DEF Dispatch
<1>6. ASSUME NEW r \in Requests, TpmAdd(r) PROVE CountersAgree'
  <2>1. Apart(r)
    BY <1>6, TpmAddGoes DEF Goes, Stays, TpmAdd
  <2>2. QED
    BY <1>6, <2>1, CountersAgreeKept DEF TpmAdd
<1>7. ASSUME NEW r \in Requests, TpmTotal(r) PROVE CountersAgree'
  <2>1. Apart(r)
    BY <1>7, TpmTotalGoes DEF Goes, Ends, TpmTotal
  <2>2. QED
    BY <1>7, <2>1, CountersAgreeKept DEF TpmTotal
<1>8. ASSUME NEW r \in Requests, DailyUsed(r) PROVE CountersAgree'
  <2>1. Apart(r)
    BY <1>8, DailyUsedGoes DEF Goes, DailyUsed
  <2>2. QED
    BY <1>8, <2>1, CountersAgreeKept DEF DailyUsed
<1>9. ASSUME NEW r \in Requests, MonthlyUsed(r) PROVE CountersAgree'
  <2>1. Apart(r)
    BY <1>9, MonthlyUsedGoes DEF Goes, Ends, MonthlyUsed
  <2>2. QED
    BY <1>9, <2>1, CountersAgreeKept DEF MonthlyUsed
<1>10. ASSUME NEW r \in Requests, NEW cost \in Costs \union {0}, Dispatched(r, cost)
       PROVE  CountersAgree'
  <2>1. Apart(r)
    BY <1>10, DispatchedGoes DEF Goes, Ends, Dispatched
  <2>2. QED
    BY <1>10, <2>1, CountersAgreeKept DEF Dispatched
<1>11. ASSUME NEW r \in Requests, CommitMonthly(r) PROVE CountersAgree'
  <2>1. Ends(r)
    BY <1>11, CommitMonthlyGoes
  <2>2. req[r].now \in Minutes
    BY RequestFacts
  <2>3. QED
    BY <1>11, <2>1, <2>2, ChargedAgrees DEF CommitMonthly
<1>12. ASSUME NEW r \in Requests, Fail(r) PROVE CountersAgree'
  <2>1. Ends(r)
    BY <1>12, FailGoes
  <2>2. req[r].now \in Minutes
    BY RequestFacts
  <2>3. CASE req[r].at = "commit_monthly"
    BY <1>12, <2>1, <2>2, <2>3, ChargedAgrees DEF Fail
  <2>4. CASE req[r].at # "commit_monthly"
    <3>1. Apart(r)
      BY <2>1, <2>4 DEF Ends, Goes
    <3>2. QED
      BY <1>12, <2>4, <3>1, CountersAgreeKept DEF Fail
  <2>5. QED
    BY <2>3, <2>4
<1>13. ASSUME Tick PROVE CountersAgree'
  BY <1>13 DEF Tick, CountersAgree, Charging
<1>14. QED
  BY <1>1, <1>2, <1>3, <1>4, <1>5, <1>6, <1>7, <1>8, <1>9, <1>10, <1>11, <1>12, <1>13,
     CommitDailyAgrees DEF Next

LEMMA MatchesDaily ==
    ASSUME Types, CountersAgree
    PROVE  MonthlyMatchesDaily
<1>. SUFFICES ASSUME NEW m \in Months
     PROVE  SumFunctionOnSet(daily, DaysOf(m)) = monthly[m] + missed[m] +
               SumFunctionOnSet([r \in Requests |-> req[r].cost],
                   {r \in Requests : req[r].at = "commit_monthly" /\ Month(req[r].now) = m})
  BY DEF MonthlyMatchesDaily, DaysOf
<1> DEFINE f == [r \in Requests |-> req[r].cost]
           S == {r \in Requests : req[r].at = "commit_monthly" /\ Month(req[r].now) = m}
<1>1. \A r \in Requests : f[r] \in Nat
  BY RequestFacts
<1>2. S \in SUBSET Requests /\ IsFiniteSet(Requests)
  BY AdmissionAssumption
<1>3. \A r \in Requests : Charging(m)[r] = IF r \in S THEN f[r] ELSE 0
  BY DEF Charging
<1> HIDE DEF f, S
<1>4. SumOver(Charging(m)) = SumFunctionOnSet(f, S)
  BY <1>1, <1>2, <1>3, SumFilter DEF SumOver
<1>5. SumFunctionOnSet(daily, DaysOf(m)) = monthly[m] + missed[m] + SumOver(Charging(m))
  BY DEF CountersAgree
<1>6. QED
  BY <1>4, <1>5 DEF f, S
-----------------------------------------------------------------------------
(* The budget is overspent only by requests that may still charge it.      *)

LEMMA MaxCostFacts == MaxCost \in Nat /\ \A c \in Costs \union {0} : c <= MaxCost
<1>1. \E c \in Costs \union {0} : \A d \in Costs : d <= c
  BY AdmissionAssumption
<1>2. MaxCost \in Costs \union {0} /\ \A d \in Costs : d <= MaxCost
  BY <1>1 DEF MaxCost
<1>3. Costs \subseteq Nat /\ 0 \in Nat
  BY AdmissionAssumption
<1>4. MaxCost \in Nat
  BY <1>2, <1>3, Zenon
<1>5. QED
  BY <1>2, <1>4

LEMMA Fewer ==
    ASSUME NEW a \in Nat, NEW b \in Nat, NEW n \in Nat, a + 1 <= b
    PROVE  a * n + n <= b * n
<1>1. PICK k \in Nat : b = a + 1 + k
  <2>1. b - (a + 1) \in Nat /\ b = a + 1 + (b - (a + 1))
    OBVIOUS
  <2>2. QED
    BY <2>1
<1>2. b * n = a * n + n + k * n
  BY <1>1
<1>3. a * n \in Nat /\ k * n \in Nat
  OBVIOUS
<1>4. QED
  BY <1>2, <1>3

LEMMA AtMost ==
    ASSUME NEW a \in Nat, NEW b \in Nat, NEW n \in Nat, a <= b
    PROVE  a * n <= b * n
<1>1. CASE a = b
  BY <1>1
<1>2. CASE a + 1 <= b
  <2>1. a * n \in Nat /\ b * n \in Nat
    OBVIOUS
  <2>2. QED
    BY <1>2, <2>1, Fewer
<1>3. QED
  BY <1>1, <1>2

LEMMA RequestsCount ==
    ASSUME NEW C \in SUBSET Requests
    PROVE  /\ Cardinality(Requests) \in Nat /\ IsFiniteSet(C)
           /\ Cardinality(C) \in Nat /\ Cardinality(C) <= Cardinality(Requests)
<1>1. IsFiniteSet(Requests)
  BY AdmissionAssumption
<1>2. IsFiniteSet(C) /\ Cardinality(C) <= Cardinality(Requests)
  BY <1>1, FS_Subset
<1>3. QED
  BY <1>1, <1>2, FS_CardinalityType

LEMMA WithinKept ==
    ASSUME NEW C \in SUBSET Requests, NEW E \in SUBSET Requests,
           NEW used \in Nat, NEW limit \in Nat, Within(used, limit, C),
           used > limit => E \subseteq C
    PROVE  Within(used, limit, E)
<1>1. CASE used <= limit
  BY <1>1 DEF Within
<1>2. CASE used > limit
  <2> DEFINE cs == Cardinality(C) * MaxCost
             es == Cardinality(E) * MaxCost
             all == Cardinality(Requests) * MaxCost
  <2>1. IsFiniteSet(C) /\ E \in SUBSET C
    BY <1>2, RequestsCount
  <2>2. Cardinality(E) <= Cardinality(C)
    BY <2>1, FS_Subset
  <2>3. /\ Cardinality(E) \in Nat /\ Cardinality(C) \in Nat
        /\ Cardinality(Requests) \in Nat /\ MaxCost \in Nat
    BY RequestsCount, MaxCostFacts
  <2>4. es <= cs /\ es \in Nat /\ cs \in Nat /\ all \in Nat
    BY <2>2, <2>3, AtMost
  <2>5. used + cs <= limit + all
    BY <1>2 DEF Within
  <2> HIDE DEF es, cs, all
  <2>6. used + es <= limit + all
    BY <2>4, <2>5
  <2>7. QED
    BY <2>6 DEF Within, es, all
<1>3. QED
  BY <1>1, <1>2

LEMMA WithinGrows ==
    ASSUME NEW C \in SUBSET Requests, NEW E \in SUBSET Requests,
           NEW r \in Requests, r \notin E, NEW cost \in Costs \union {0}, cost \in Nat,
           NEW used \in Nat, NEW limit \in Nat, Within(used, limit, C),
           used > limit => E \subseteq C /\ r \in C
    PROVE  Within(used + cost, limit, E)
<1> DEFINE cs == Cardinality(C) * MaxCost
           es == Cardinality(E) * MaxCost
           all == Cardinality(Requests) * MaxCost
<1>1. /\ Cardinality(E) \in Nat /\ Cardinality(C) \in Nat
      /\ Cardinality(Requests) \in Nat /\ MaxCost \in Nat /\ cost <= MaxCost
      /\ IsFiniteSet(C) /\ IsFiniteSet(Requests)
  BY RequestsCount, MaxCostFacts, AdmissionAssumption
<1>2. es \in Nat /\ cs \in Nat /\ all \in Nat
  BY <1>1
<1>3. CASE used <= limit
  <2>1. E \in SUBSET (Requests \ {r})
    OBVIOUS
  <2>2. /\ IsFiniteSet(Requests \ {r})
        /\ Cardinality(Requests \ {r}) = Cardinality(Requests) - 1
    BY <1>1, FS_RemoveElement
  <2>3. Cardinality(E) <= Cardinality(Requests \ {r})
    BY <2>1, <2>2, FS_Subset
  <2>4. Cardinality(E) + 1 <= Cardinality(Requests)
    BY <1>1, <2>2, <2>3
  <2>5. es + MaxCost <= all
    BY <1>1, <2>4, Fewer
  <2> HIDE DEF es, cs, all
  <2>6. (used + cost) + es <= limit + all
    BY <1>1, <1>2, <1>3, <2>5
  <2>7. QED
    BY <2>6 DEF Within, es, all
<1>4. CASE used > limit
  <2>1. E \in SUBSET (C \ {r}) /\ r \in C
    BY <1>4
  <2>2. IsFiniteSet(C \ {r}) /\ Cardinality(C \ {r}) = Cardinality(C) - 1
    BY <1>1, <2>1, FS_RemoveElement
  <2>3. Cardinality(E) <= Cardinality(C \ {r})
    BY <2>1, <2>2, FS_Subset
  <2>4. Cardinality(E) + 1 <= Cardinality(C)
    BY <1>1, <2>2, <2>3
  <2>5. es + MaxCost <= cs
    BY <1>1, <2>4, Fewer
  <2>6. used + cs <= limit + all
    BY <1>4 DEF Within
  <2> HIDE DEF es, cs, all
  <2>7. (used + cost) + es <= limit + all
    BY <1>1, <1>2, <2>5, <2>6
  <2>8. QED
    BY <2>7 DEF Within, es, all
<1>5. QED
  BY <1>3, <1>4

\* A step of one request leaves the others, and the clock.
LEMMA OthersKept ==
    ASSUME Types, NEW r \in Requests, NEW q \in Requests, q # r,
           \/ Arrive(q) \/ RpmAdd(q) \/ RpmTotal(q) \/ Dispatch(q) \/ TpmAdd(q)
           \/ TpmTotal(q) \/ DailyUsed(q) \/ MonthlyUsed(q)
           \/ \E cost \in Costs \union {0} : Dispatched(q, cost)
           \/ CommitDaily(q) \/ CommitMonthly(q) \/ Fail(q)
    PROVE  req'[r] = req[r] /\ clock' = clock
<1>1. clock' = clock
  BY DEF Arrive, RpmAdd, RpmTotal, Dispatch, TpmAdd, TpmTotal, DailyUsed, MonthlyUsed,
     Dispatched, CommitDaily, CommitMonthly, Fail
<1>2. CASE Arrive(q)
  BY <1>1, <1>2, ArriveGoes DEF Goes
<1>3. CASE RpmAdd(q) \/ RpmTotal(q)
  BY <1>1, <1>3, RpmAddGoes, RpmTotalGoes DEF Goes, Stays, Ends
<1>4. CASE Dispatch(q)
  BY <1>1, <1>4, DispatchGoes DEF Goes, Ends
<1>5. CASE TpmAdd(q) \/ TpmTotal(q)
  BY <1>1, <1>5, TpmAddGoes, TpmTotalGoes DEF Goes, Stays, Ends
<1>6. CASE DailyUsed(q)
  BY <1>1, <1>6, DailyUsedGoes DEF Goes
<1>7. CASE MonthlyUsed(q)
  BY <1>1, <1>7, MonthlyUsedGoes DEF Goes, Ends
<1>8. CASE \E cost \in Costs \union {0} : Dispatched(q, cost)
  BY <1>1, <1>8, DispatchedGoes DEF Goes, Ends
<1>9. CASE CommitDaily(q) \/ CommitMonthly(q) \/ Fail(q)
  BY <1>1, <1>9, CommitDailyGoes, CommitMonthlyGoes, FailGoes DEF Goes, Stays, Ends
<1>10. QED
  BY <1>1, <1>2, <1>3, <1>4, <1>5, <1>6, <1>7, <1>8, <1>9

LEMMA CalendarGrows ==
    \A s, t \in Minutes : s <= t => Day(s) <= Day(t) /\ Month(s) <= Month(t)
BY AdmissionAssumption DEF Minutes

LEMMA ChargedByNowStep ==
    ASSUME Types, Types', Timely, ChargedByNow, [Next]_vars
    PROVE  ChargedByNow'
<1>1. ASSUME UNCHANGED <<daily, monthly, clock>> PROVE ChargedByNow'
  BY <1>1 DEF ChargedByNow
<1>2. ASSUME NEW r \in Requests, CommitDaily(r) PROVE ChargedByNow'
  <2>1. PICK t \in Minutes : t = req[r].now /\ t <= clock
    BY RequestFacts DEF Timely
  <2>2. Day(t) <= Day(clock)
    BY <2>1, CalendarGrows DEF Types
  <2>3. req[r].cost \in Nat /\ Day(t) \in Days
    BY RequestFacts, CalendarIn
  <2>4. /\ daily' = [daily EXCEPT ![Day(t)] = @ + req[r].cost]
        /\ UNCHANGED <<monthly, clock>>
    BY <1>2, <2>1 DEF CommitDaily
  <2>5. \A d \in Days : d # Day(t) => daily'[d] = daily[d]
    BY <2>3, <2>4, CountUp DEF Types
  <2>6. QED
    BY <2>2, <2>4, <2>5 DEF ChargedByNow
<1>3. ASSUME NEW r \in Requests, CommitMonthly(r) PROVE ChargedByNow'
  <2>1. PICK t \in Minutes : t = req[r].now /\ t <= clock
    BY RequestFacts DEF Timely
  <2>2. Month(t) <= Month(clock)
    BY <2>1, CalendarGrows DEF Types
  <2>3. req[r].cost \in Nat /\ Month(t) \in Months
    BY RequestFacts, CalendarIn
  <2>4. /\ monthly' = [monthly EXCEPT ![Month(t)] = @ + req[r].cost]
        /\ UNCHANGED <<daily, clock>>
    BY <1>3, <2>1 DEF CommitMonthly
  <2>5. \A m \in Months : m # Month(t) => monthly'[m] = monthly[m]
    BY <2>3, <2>4, CountUp DEF Types
  <2>6. QED
    BY <2>2, <2>4, <2>5 DEF ChargedByNow
<1>4. ASSUME Tick PROVE ChargedByNow'
  <2>1. clock \in Minutes /\ clock' \in Minutes /\ clock <= clock'
    <3>1. clock \in Minutes /\ clock' \in Minutes
      BY DEF Types
    <3>2. clock' = clock + 1 /\ clock \in Nat
      BY <1>4, <3>1, MinutesAreNat DEF Tick
    <3>3. QED
      BY <3>1, <3>2
  <2>2. Day(clock) <= Day(clock') /\ Month(clock) <= Month(clock')
    BY <2>1, CalendarGrows
  <2>3. /\ Day(clock) \in Nat /\ Day(clock') \in Nat
        /\ Month(clock) \in Nat /\ Month(clock') \in Nat
    BY <2>1, CalendarIn
  <2>4. daily' = daily /\ monthly' = monthly
    BY <1>4 DEF Tick
  <2>5. \A d \in Days : d \in Nat
    BY CalendarIn DEF Days
  <2>6. \A m \in Months : m \in Nat
    BY CalendarIn DEF Months
  <2>7. \A d \in Days : daily'[d] > 0 => d <= Day(clock')
    BY <2>2, <2>3, <2>4, <2>5 DEF ChargedByNow
  <2>8. \A m \in Months : monthly'[m] > 0 => m <= Month(clock')
    BY <2>2, <2>3, <2>4, <2>6 DEF ChargedByNow
  <2>9. QED
    BY <2>7, <2>8 DEF ChargedByNow
<1>5. ASSUME ~ UNCHANGED <<daily, monthly, clock>>, Next
      PROVE  Tick \/ \E r \in Requests : CommitDaily(r) \/ CommitMonthly(r)
  BY <1>5 DEF Next, Arrive, RpmAdd, RpmTotal, Dispatch, TpmAdd, TpmTotal, DailyUsed,
     MonthlyUsed, Dispatched, Fail
<1>6. CASE UNCHANGED vars
  BY <1>1, <1>6 DEF vars
<1>7. QED
  BY <1>1, <1>2, <1>3, <1>4, <1>5, <1>6

\* Once the day is over its budget, no request becomes one that charges it.
DayIsFull(d) == HardCap /\ DailyCents > 0 /\ daily[d] > DailyCents

LEMMA DayNumbers ==
    ASSUME Types, Types', Timely, ChargedByNow, NEW d \in Days, DayIsFull(d),
           NEW r \in Requests
    PROVE  /\ d \in Nat /\ d <= Day(clock) /\ Day(clock) \in Nat
           /\ req[r].now \in Minutes /\ Day(req[r].now) \in Nat
           /\ Day(req[r].now) <= Day(clock)
<1>1. d \in Nat
  BY CalendarIn DEF Days
<1>2. daily[d] > 0
  BY Numbers DEF DayIsFull, Types
<1>3. clock \in Minutes /\ req[r].now \in Minutes /\ req[r].now <= clock
  BY RequestFacts DEF Types, Timely
<1>4. QED
  BY <1>1, <1>2, <1>3, CalendarIn, CalendarGrows DEF ChargedByNow

LEMMA DayChargersStep ==
    ASSUME Types, Types', Timely, ChargedByNow, NEW d \in Days, DayIsFull(d),
           [Next]_vars, NEW r \in Requests, MayChargeDay(r, d)'
    PROVE  MayChargeDay(r, d)
<1>1. /\ d \in Nat /\ d <= Day(clock) /\ Day(clock) \in Nat
      /\ req[r].now \in Minutes /\ Day(req[r].now) \in Nat
      /\ Day(req[r].now) <= Day(clock)
  BY DayNumbers
<1>2. ASSUME req'[r] = req[r], clock' = clock PROVE MayChargeDay(r, d)
  BY <1>2 DEF MayChargeDay
<1>3. CASE UNCHANGED vars
  BY <1>2, <1>3 DEF vars
<1>4. ASSUME Arrive(r) PROVE MayChargeDay(r, d)
  <2>1. req'[r].at \in {"rpm_add", "body"} /\ req'[r].now = clock /\ clock' = clock
    BY <1>4, ArriveGoes DEF Goes, Arrive
  <2>2. ~ MayChargeDay(r, d)'
    BY <1>1, <2>1 DEF MayChargeDay, Early
  <2>3. QED
    BY <2>2
<1>5. ASSUME RpmAdd(r) PROVE MayChargeDay(r, d)
  <2>1. /\ req[r].at = "rpm_add" /\ req'[r].at = "rpm_total"
        /\ req'[r].now = req[r].now /\ clock' = clock
    BY <1>5, RpmAddGoes DEF Goes, Stays, RpmAdd
  <2>2. QED
    BY <2>1 DEF MayChargeDay, Early
<1>6. ASSUME RpmTotal(r) PROVE MayChargeDay(r, d)
  <2>1. /\ req[r].at = "rpm_total" /\ clock' = clock
        /\ \/ req'[r].at = "body" /\ req'[r].now = req[r].now
           \/ req'[r].at = "idle"
    BY <1>6, RpmTotalGoes DEF Goes, Stays, Ends, RpmTotal
  <2>2. QED
    BY <2>1 DEF MayChargeDay, Early
<1>7. ASSUME Dispatch(r) PROVE MayChargeDay(r, d)
  <2>1. /\ clock' = clock
        /\ \/ req'[r].at \in {"tpm_add", "daily_used"} /\ req'[r].now = clock
           \/ req'[r].at = "idle"
    BY <1>7, DispatchGoes DEF Goes, Ends, Dispatch
  <2>2. ~ MayChargeDay(r, d)'
    BY <1>1, <2>1 DEF MayChargeDay, Early
  <2>3. QED
    BY <2>2
<1>8. ASSUME TpmAdd(r) PROVE MayChargeDay(r, d)
  <2>1. /\ req[r].at = "tpm_add" /\ req'[r].at = "tpm_total"
        /\ req'[r].now = req[r].now /\ clock' = clock
    BY <1>8, TpmAddGoes DEF Goes, Stays, TpmAdd
  <2>2. QED
    BY <2>1 DEF MayChargeDay, Early
<1>9. ASSUME TpmTotal(r) PROVE MayChargeDay(r, d)
  <2>1. /\ clock' = clock
        /\ \/ req'[r].at = "daily_used" /\ req'[r].now = clock
           \/ req'[r].at = "idle"
    BY <1>9, TpmTotalGoes DEF Goes, Ends, TpmTotal
  <2>2. ~ MayChargeDay(r, d)'
    BY <1>1, <2>1 DEF MayChargeDay, Early
  <2>3. QED
    BY <2>2
<1>10. ASSUME DailyUsed(r) PROVE MayChargeDay(r, d)
  <2>1. req[r].at = "daily_used" /\ clock' = clock
    BY <1>10 DEF DailyUsed
  <2>2. PICK now \in req[r].now .. clock :
           /\ now \in Minutes /\ req'[r].at = "monthly_used" /\ req'[r].now = now
           /\ req'[r].used = daily[Day(now)]
    BY <1>10, DailyUsedGoes DEF Goes
  <2>3. req[r].now <= now
    BY <1>1, <2>2, MinutesAreNat DEF Types
  <2>4. Day(req[r].now) <= Day(now) /\ Day(now) \in Nat
    BY <1>1, <2>2, <2>3, CalendarGrows, CalendarIn
  <2>5. Day(now) < d \/ (Day(now) = d /\ daily[d] <= DailyCents)
    BY <2>1, <2>2 DEF MayChargeDay, Early
  <2>6. daily[d] \in Nat
    BY DEF Types
  <2>7. Day(now) < d
    BY <2>5, <2>6, Numbers DEF DayIsFull
  <2>8. Day(req[r].now) < d
    BY <1>1, <2>4, <2>7
  <2>9. QED
    BY <2>1, <2>8 DEF MayChargeDay, Early
<1>11. ASSUME MonthlyUsed(r) PROVE MayChargeDay(r, d)
  <2>1. req[r].at = "monthly_used" /\ clock' = clock
    BY <1>11 DEF MonthlyUsed
  <2>2. CASE Refuses(req[r].used, monthly[Month(req[r].now)])
    <3>1. req'[r].at = "idle"
      BY <1>11, <2>2, MonthlyUsedGoes DEF Goes, Ends
    <3>2. QED
      BY <3>1 DEF MayChargeDay, Early
  <2>3. CASE ~ Refuses(req[r].used, monthly[Month(req[r].now)])
    <3>1. req'[r].at = "calling"
      BY <1>11, <2>3, MonthlyUsedGoes DEF Goes
    <3>2. Day(clock) = d
      BY <1>1, <2>1, <3>1 DEF MayChargeDay, Early
    <3>3. ~ (DailyCents > 0 /\ req[r].used + 0 > DailyCents)
      BY <2>3 DEF Refuses, Over, EstimatedCents, DayIsFull
    <3>4. req[r].used <= DailyCents
      BY <3>3, RequestFacts, Numbers DEF DayIsFull
    <3>5. QED
      BY <1>1, <2>1, <3>2, <3>4 DEF MayChargeDay, Early
  <2>4. QED
    BY <2>2, <2>3
<1>12. ASSUME NEW cost \in Costs \union {0}, Dispatched(r, cost) PROVE MayChargeDay(r, d)
  <2>1. /\ req[r].at = "calling" /\ clock' = clock
        /\ \/ req'[r].at = "commit_daily" /\ req'[r].now = clock
           \/ req'[r].at = "idle"
    BY <1>12, DispatchedGoes DEF Goes, Ends, Dispatched
  <2>2. QED
    BY <1>1, <2>1 DEF MayChargeDay, Early
<1>13. ASSUME CommitDaily(r) PROVE MayChargeDay(r, d)
  <2>1. req'[r].at = "commit_monthly"
    BY <1>13, CommitDailyGoes DEF Goes, Stays
  <2>2. QED
    BY <2>1 DEF MayChargeDay, Early
<1>14. ASSUME CommitMonthly(r) \/ Fail(r) PROVE MayChargeDay(r, d)
  <2>1. req'[r].at = "idle"
    BY <1>14, CommitMonthlyGoes, FailGoes DEF Goes, Ends
  <2>2. QED
    BY <2>1 DEF MayChargeDay, Early
<1>15. ASSUME Tick PROVE MayChargeDay(r, d)
  <2>1. req' = req /\ clock' = clock + 1
    BY <1>15 DEF Tick
  <2>2. Day(clock) <= Day(clock') /\ Day(clock') \in Nat
    <3>1. clock \in Minutes /\ clock' \in Minutes
      BY DEF Types
    <3>2. clock <= clock'
      BY <2>1, <3>1, MinutesAreNat
    <3>3. QED
      BY <3>1, <3>2, CalendarGrows, CalendarIn
  <2>3. Day(clock') <= d => Day(clock) <= d
    BY <1>1, <2>2
  <2>4. QED
    BY <2>1, <2>3 DEF MayChargeDay, Early
<1>16. ASSUME NEW q \in Requests, q # r,
              \/ Arrive(q) \/ RpmAdd(q) \/ RpmTotal(q) \/ Dispatch(q) \/ TpmAdd(q)
              \/ TpmTotal(q) \/ DailyUsed(q) \/ MonthlyUsed(q)
              \/ \E cost \in Costs \union {0} : Dispatched(q, cost)
              \/ CommitDaily(q) \/ CommitMonthly(q) \/ Fail(q)
       PROVE  MayChargeDay(r, d)
  BY <1>2, <1>16, OthersKept
<1>17. QED
  BY <1>3, <1>4, <1>5, <1>6, <1>7, <1>8, <1>9, <1>10, <1>11, <1>12, <1>13, <1>14, <1>15,
     <1>16 DEF Next

\* Once the month is over its budget, no request becomes one that charges it.
MonthIsFull(m) == HardCap /\ MonthlyCents > 0 /\ monthly[m] > MonthlyCents

LEMMA MonthNumbers ==
    ASSUME Types, Types', Timely, ChargedByNow, NEW m \in Months, MonthIsFull(m),
           NEW r \in Requests
    PROVE  /\ m \in Nat /\ m <= Month(clock) /\ Month(clock) \in Nat
           /\ req[r].now \in Minutes /\ Month(req[r].now) \in Nat
           /\ Month(req[r].now) <= Month(clock)
<1>1. m \in Nat
  BY CalendarIn DEF Months
<1>2. monthly[m] > 0
  BY Numbers DEF MonthIsFull, Types
<1>3. clock \in Minutes /\ req[r].now \in Minutes /\ req[r].now <= clock
  BY RequestFacts DEF Types, Timely
<1>4. QED
  BY <1>1, <1>2, <1>3, CalendarIn, CalendarGrows DEF ChargedByNow

LEMMA MonthChargersStep ==
    ASSUME Types, Types', Timely, ChargedByNow, NEW m \in Months, MonthIsFull(m),
           [Next]_vars, NEW r \in Requests, MayChargeMonth(r, m)'
    PROVE  MayChargeMonth(r, m)
<1>1. /\ m \in Nat /\ m <= Month(clock) /\ Month(clock) \in Nat
      /\ req[r].now \in Minutes /\ Month(req[r].now) \in Nat
      /\ Month(req[r].now) <= Month(clock)
  BY MonthNumbers
<1>2. ASSUME req'[r] = req[r], clock' = clock PROVE MayChargeMonth(r, m)
  BY <1>2 DEF MayChargeMonth
<1>3. CASE UNCHANGED vars
  BY <1>2, <1>3 DEF vars
<1>4. ASSUME Arrive(r) PROVE MayChargeMonth(r, m)
  <2>1. req'[r].at \in {"rpm_add", "body"} /\ req'[r].now = clock /\ clock' = clock
    BY <1>4, ArriveGoes DEF Goes, Arrive
  <2>2. ~ MayChargeMonth(r, m)'
    BY <1>1, <2>1 DEF MayChargeMonth, Early
  <2>3. QED
    BY <2>2
<1>5. ASSUME RpmAdd(r) PROVE MayChargeMonth(r, m)
  <2>1. /\ req[r].at = "rpm_add" /\ req'[r].at = "rpm_total"
        /\ req'[r].now = req[r].now /\ clock' = clock
    BY <1>5, RpmAddGoes DEF Goes, Stays, RpmAdd
  <2>2. QED
    BY <2>1 DEF MayChargeMonth, Early
<1>6. ASSUME RpmTotal(r) PROVE MayChargeMonth(r, m)
  <2>1. /\ req[r].at = "rpm_total" /\ clock' = clock
        /\ \/ req'[r].at = "body" /\ req'[r].now = req[r].now
           \/ req'[r].at = "idle"
    BY <1>6, RpmTotalGoes DEF Goes, Stays, Ends, RpmTotal
  <2>2. QED
    BY <2>1 DEF MayChargeMonth, Early
<1>7. ASSUME Dispatch(r) PROVE MayChargeMonth(r, m)
  <2>1. /\ clock' = clock
        /\ \/ req'[r].at \in {"tpm_add", "daily_used"} /\ req'[r].now = clock
           \/ req'[r].at = "idle"
    BY <1>7, DispatchGoes DEF Goes, Ends, Dispatch
  <2>2. ~ MayChargeMonth(r, m)'
    BY <1>1, <2>1 DEF MayChargeMonth, Early
  <2>3. QED
    BY <2>2
<1>8. ASSUME TpmAdd(r) PROVE MayChargeMonth(r, m)
  <2>1. /\ req[r].at = "tpm_add" /\ req'[r].at = "tpm_total"
        /\ req'[r].now = req[r].now /\ clock' = clock
    BY <1>8, TpmAddGoes DEF Goes, Stays, TpmAdd
  <2>2. QED
    BY <2>1 DEF MayChargeMonth, Early
<1>9. ASSUME TpmTotal(r) PROVE MayChargeMonth(r, m)
  <2>1. /\ clock' = clock
        /\ \/ req'[r].at = "daily_used" /\ req'[r].now = clock
           \/ req'[r].at = "idle"
    BY <1>9, TpmTotalGoes DEF Goes, Ends, TpmTotal
  <2>2. ~ MayChargeMonth(r, m)'
    BY <1>1, <2>1 DEF MayChargeMonth, Early
  <2>3. QED
    BY <2>2
<1>10. ASSUME DailyUsed(r) PROVE MayChargeMonth(r, m)
  <2>1. req[r].at = "daily_used" /\ clock' = clock
    BY <1>10 DEF DailyUsed
  <2>2. PICK now \in req[r].now .. clock :
           now \in Minutes /\ req'[r].at = "monthly_used" /\ req'[r].now = now
    BY <1>10, DailyUsedGoes DEF Goes
  <2>3. req[r].now <= now
    BY <1>1, <2>2, MinutesAreNat DEF Types
  <2>4. Month(req[r].now) <= Month(now) /\ Month(now) \in Nat
    BY <1>1, <2>2, <2>3, CalendarGrows, CalendarIn
  <2>5. Month(now) < m
    BY <2>1, <2>2 DEF MayChargeMonth, Early
  <2>6. Month(req[r].now) < m
    BY <1>1, <2>4, <2>5
  <2>7. QED
    BY <2>1, <2>6 DEF MayChargeMonth, Early
<1>11. ASSUME MonthlyUsed(r) PROVE MayChargeMonth(r, m)
  <2>1. req[r].at = "monthly_used" /\ clock' = clock
    BY <1>11 DEF MonthlyUsed
  <2>2. CASE Refuses(req[r].used, monthly[Month(req[r].now)])
    <3>1. req'[r].at = "idle"
      BY <1>11, <2>2, MonthlyUsedGoes DEF Goes, Ends
    <3>2. QED
      BY <3>1 DEF MayChargeMonth, Early
  <2>3. CASE ~ Refuses(req[r].used, monthly[Month(req[r].now)])
    <3>1. req'[r].at = "calling"
      BY <1>11, <2>3, MonthlyUsedGoes DEF Goes
    <3>2. Month(clock) = m
      BY <1>1, <2>1, <3>1 DEF MayChargeMonth, Early
    <3>3. ~ (MonthlyCents > 0 /\ monthly[Month(req[r].now)] + 0 > MonthlyCents)
      BY <2>3 DEF Refuses, Over, EstimatedCents, MonthIsFull
    <3>4. Month(req[r].now) # m
      <4>1. monthly[m] \in Nat
        BY DEF Types
      <4>2. QED
        BY <3>3, <4>1 DEF MonthIsFull
    <3>5. QED
      BY <1>1, <2>1, <3>2, <3>4 DEF MayChargeMonth, Early
  <2>4. QED
    BY <2>2, <2>3
<1>12. ASSUME NEW cost \in Costs \union {0}, Dispatched(r, cost) PROVE MayChargeMonth(r, m)
  <2>1. /\ req[r].at = "calling" /\ clock' = clock
        /\ \/ req'[r].at = "commit_daily" /\ req'[r].now = clock
           \/ req'[r].at = "idle"
    BY <1>12, DispatchedGoes DEF Goes, Ends, Dispatched
  <2>2. QED
    BY <1>1, <2>1 DEF MayChargeMonth, Early
<1>13. ASSUME CommitDaily(r) PROVE MayChargeMonth(r, m)
  <2>1. /\ req[r].at = "commit_daily" /\ req'[r].at = "commit_monthly"
        /\ req'[r].now = req[r].now
    BY <1>13, CommitDailyGoes DEF Goes, Stays, CommitDaily
  <2>2. QED
    BY <2>1 DEF MayChargeMonth, Early
<1>14. ASSUME CommitMonthly(r) \/ Fail(r) PROVE MayChargeMonth(r, m)
  <2>1. req'[r].at = "idle"
    BY <1>14, CommitMonthlyGoes, FailGoes DEF Goes, Ends
  <2>2. QED
    BY <2>1 DEF MayChargeMonth, Early
<1>15. ASSUME Tick PROVE MayChargeMonth(r, m)
  <2>1. req' = req /\ clock' = clock + 1
    BY <1>15 DEF Tick
  <2>2. Month(clock) <= Month(clock') /\ Month(clock') \in Nat
    <3>1. clock \in Minutes /\ clock' \in Minutes
      BY DEF Types
    <3>2. clock <= clock'
      BY <2>1, <3>1, MinutesAreNat
    <3>3. QED
      BY <3>1, <3>2, CalendarGrows, CalendarIn
  <2>3. Month(clock') <= m => Month(clock) <= m
    BY <1>1, <2>2
  <2>4. QED
    BY <2>1, <2>3 DEF MayChargeMonth, Early
<1>16. ASSUME NEW q \in Requests, q # r,
              \/ Arrive(q) \/ RpmAdd(q) \/ RpmTotal(q) \/ Dispatch(q) \/ TpmAdd(q)
              \/ TpmTotal(q) \/ DailyUsed(q) \/ MonthlyUsed(q)
              \/ \E cost \in Costs \union {0} : Dispatched(q, cost)
              \/ CommitDaily(q) \/ CommitMonthly(q) \/ Fail(q)
       PROVE  MayChargeMonth(r, m)
  BY <1>2, <1>16, OthersKept
<1>17. QED
  BY <1>3, <1>4, <1>5, <1>6, <1>7, <1>8, <1>9, <1>10, <1>11, <1>12, <1>13, <1>14, <1>15,
     <1>16 DEF Next

LEMMA DayWithin ==
    ASSUME Types, Types', Timely, ChargedByNow, [Next]_vars, HardCap, DailyCents > 0,
           NEW d \in Days, Within(daily[d], DailyCents, DayChargers(d))
    PROVE  Within(daily'[d], DailyCents, DayChargers(d)')
<1>1. /\ DayChargers(d) \in SUBSET Requests /\ DayChargers(d)' \in SUBSET Requests
      /\ daily[d] \in Nat /\ DailyCents \in Nat
  BY Numbers DEF DayChargers, Types
<1>2. daily[d] > DailyCents => DayChargers(d)' \subseteq DayChargers(d)
  BY DayChargersStep DEF DayChargers, DayIsFull
<1>3. CASE daily'[d] = daily[d]
  BY <1>1, <1>2, <1>3, WithinKept
<1>4. CASE daily'[d] # daily[d]
  <2>1. PICK r \in Requests : CommitDaily(r)
    BY <1>4 DEF Next, vars, Arrive, RpmAdd, RpmTotal, Dispatch, TpmAdd, TpmTotal,
       DailyUsed, MonthlyUsed, Dispatched, CommitMonthly, Fail, Tick
  <2>2. PICK c \in Costs \union {0} : c = req[r].cost /\ c \in Nat
    BY RequestFacts
  <2>3. /\ req[r].at = "commit_daily" /\ req'[r].at = "commit_monthly"
        /\ daily' = [daily EXCEPT ![Day(req[r].now)] = @ + c]
    BY <2>1, <2>2, CommitDailyGoes DEF CommitDaily, Goes, Stays
  <2>4. Day(req[r].now) \in Days
    BY RequestFacts, CalendarIn
  <2>5. Day(req[r].now) = d /\ daily'[d] = daily[d] + c
    BY <1>4, <2>2, <2>3, <2>4, CountUp DEF Types
  <2>6. r \in DayChargers(d)
    BY <2>3, <2>5 DEF DayChargers, MayChargeDay
  <2>7. r \notin DayChargers(d)'
    BY <2>3 DEF DayChargers, MayChargeDay, Early
  <2>8. Within(daily[d] + c, DailyCents, DayChargers(d)')
    BY <1>1, <1>2, <2>2, <2>6, <2>7, WithinGrows
  <2>9. QED
    BY <2>5, <2>8
<1>5. QED
  BY <1>3, <1>4

LEMMA MonthWithin ==
    ASSUME Types, Types', Timely, ChargedByNow, [Next]_vars, HardCap, MonthlyCents > 0,
           NEW m \in Months, Within(monthly[m], MonthlyCents, MonthChargers(m))
    PROVE  Within(monthly'[m], MonthlyCents, MonthChargers(m)')
<1>1. /\ MonthChargers(m) \in SUBSET Requests /\ MonthChargers(m)' \in SUBSET Requests
      /\ monthly[m] \in Nat /\ MonthlyCents \in Nat
  BY Numbers DEF MonthChargers, Types
<1>2. monthly[m] > MonthlyCents => MonthChargers(m)' \subseteq MonthChargers(m)
  BY MonthChargersStep DEF MonthChargers, MonthIsFull
<1>3. CASE monthly'[m] = monthly[m]
  BY <1>1, <1>2, <1>3, WithinKept
<1>4. CASE monthly'[m] # monthly[m]
  <2>1. PICK r \in Requests : CommitMonthly(r)
    BY <1>4 DEF Next, vars, Arrive, RpmAdd, RpmTotal, Dispatch, TpmAdd, TpmTotal,
       DailyUsed, MonthlyUsed, Dispatched, CommitDaily, Fail, Tick
  <2>2. PICK c \in Costs \union {0} : c = req[r].cost /\ c \in Nat
    BY RequestFacts
  <2>3. /\ req[r].at = "commit_monthly" /\ req'[r].at = "idle"
        /\ monthly' = [monthly EXCEPT ![Month(req[r].now)] = @ + c]
    BY <2>1, <2>2, CommitMonthlyGoes DEF CommitMonthly, Goes, Ends
  <2>4. Month(req[r].now) \in Months
    BY RequestFacts, CalendarIn
  <2>5. Month(req[r].now) = m /\ monthly'[m] = monthly[m] + c
    BY <1>4, <2>2, <2>3, <2>4, CountUp DEF Types
  <2>6. r \in MonthChargers(m)
    BY <2>3, <2>5 DEF MonthChargers, MayChargeMonth
  <2>7. r \notin MonthChargers(m)'
    BY <2>3 DEF MonthChargers, MayChargeMonth, Early
  <2>8. Within(monthly[m] + c, MonthlyCents, MonthChargers(m)')
    BY <1>1, <1>2, <2>2, <2>6, <2>7, WithinGrows
  <2>9. QED
    BY <2>5, <2>8
<1>5. QED
  BY <1>3, <1>4

LEMMA OverspentStep ==
    ASSUME Types, Types', Timely, ChargedByNow, Overspent, [Next]_vars
    PROVE  Overspent'
<1>1. ASSUME HardCap, DailyCents > 0, NEW d \in Days
      PROVE  Within(daily'[d], DailyCents, DayChargers(d)')
  BY <1>1, DayWithin DEF Overspent
<1>2. ASSUME HardCap, MonthlyCents > 0, NEW m \in Months
      PROVE  Within(monthly'[m], MonthlyCents, MonthChargers(m)')
  BY <1>2, MonthWithin DEF Overspent
<1>3. QED
  BY <1>1, <1>2 DEF Overspent, Within

LEMMA WithinBounds ==
    ASSUME NEW C \in SUBSET Requests, NEW used \in Nat, NEW limit \in Nat,
           Within(used, limit, C)
    PROVE  used <= limit + Cardinality(Requests) * MaxCost
<1> DEFINE cs == Cardinality(C) * MaxCost
           all == Cardinality(Requests) * MaxCost
<1>1. cs \in Nat /\ all \in Nat
  BY RequestsCount, MaxCostFacts
<1>2. used <= limit \/ used + cs <= limit + all
  BY DEF Within
<1> HIDE DEF cs, all
<1>3. used <= limit + all
  BY <1>1, <1>2
<1>4. QED
  BY <1>3 DEF all

LEMMA SpendsNoMore ==
    ASSUME Types, Overspent
    PROVE  OverspendBounded
<1>1. ASSUME HardCap, DailyCents > 0, NEW d \in Days
      PROVE  daily[d] <= DailyCents + Cardinality(Requests) * MaxCost
  <2>1. DayChargers(d) \in SUBSET Requests /\ daily[d] \in Nat /\ DailyCents \in Nat
    BY Numbers DEF DayChargers, Types
  <2>2. Within(daily[d], DailyCents, DayChargers(d))
    BY <1>1 DEF Overspent
  <2>3. QED
    BY <2>1, <2>2, WithinBounds
<1>2. ASSUME HardCap, MonthlyCents > 0, NEW m \in Months
      PROVE  monthly[m] <= MonthlyCents + Cardinality(Requests) * MaxCost
  <2>1. MonthChargers(m) \in SUBSET Requests /\ monthly[m] \in Nat /\ MonthlyCents \in Nat
    BY Numbers DEF MonthChargers, Types
  <2>2. Within(monthly[m], MonthlyCents, MonthChargers(m))
    BY <1>2 DEF Overspent
  <2>3. QED
    BY <2>1, <2>2, WithinBounds
<1>3. QED
  BY <1>1, <1>2 DEF OverspendBounded
-----------------------------------------------------------------------------
(* The theorems.                                                           *)

LEMMA AdmissionInit ==
    ASSUME Init
    PROVE  IInv
<1>1. /\ clock = 0 /\ arrived = 0
      /\ rpm = [t \in Minutes |-> 0] /\ tpm = [t \in Minutes |-> 0]
      /\ daily = [d \in Days |-> 0] /\ monthly = [m \in Months |-> 0]
      /\ passed = [t \in Minutes |-> [requests |-> 0, tokens |-> 0]]
      /\ missed = [m \in Months |-> 0]
      /\ req = [r \in Requests |-> Idle]
  BY DEF Init
<1>2. Idle \in RequestRecord
  <2>1. "idle" \in Places /\ 0 \in Minutes /\ 0 \in Tokens \union {0}
        /\ 0 \in Costs \union {0}
    BY Numbers DEF Places, Minutes
  <2>2. QED
    BY <2>1 DEF Idle, RequestRecord
<1>3. Types
  BY <1>1, <1>2, Numbers DEF Types, Minutes
<1>4. Timely
  BY <1>1 DEF Timely, Idle
<1>5. \A r \in Requests : req[r].at = "idle"
  BY <1>1 DEF Idle
<1>6. SumOver(Adding) = 0
  <2>1. Adding \in [Requests -> Nat] /\ \A r \in Requests : Adding[r] = 0
    BY <1>5 DEF Adding, Is
  <2>2. QED
    BY <2>1, SumZero
<1>7. \A t : SumOver(Reading(t)) = 0 /\ SumOver(ReadingTokens(t)) = 0
  <2>. SUFFICES ASSUME NEW t PROVE SumOver(Reading(t)) = 0 /\ SumOver(ReadingTokens(t)) = 0
    OBVIOUS
  <2>1. Reading(t) \in [Requests -> Nat] /\ \A r \in Requests : Reading(t)[r] = 0
    BY <1>5 DEF Reading, Is
  <2>2. /\ ReadingTokens(t) \in [Requests -> Nat]
        /\ \A r \in Requests : ReadingTokens(t)[r] = 0
    BY <1>5 DEF ReadingTokens
  <2>3. QED
    BY <2>1, <2>2, SumZero
<1>8. RpmCounted
  BY <1>1, <1>6 DEF RpmCounted
<1>9. PassedCounted
  BY <1>1, <1>7 DEF PassedCounted
<1>10. RateHolds
  BY <1>1, Numbers DEF RateHolds
<1>11. CountersAgree
  <2>. SUFFICES ASSUME NEW m \in Months
       PROVE  SumFunctionOnSet(daily, DaysOf(m)) =
                monthly[m] + missed[m] + SumOver(Charging(m))
    BY DEF CountersAgree
  <2>1. Charging(m) \in [Requests -> Nat] /\ \A r \in Requests : Charging(m)[r] = 0
    BY <1>5 DEF Charging
  <2>2. SumOver(Charging(m)) = 0
    BY <2>1, SumZero
  <2>3. SumFunctionOnSet(daily, DaysOf(m)) = 0
    <3>1. IsFiniteSet(DaysOf(m)) /\ {} \in SUBSET DaysOf(m) /\ DaysOf(m) \subseteq Days
      BY DaysOfFacts
    <3>2. /\ \A d \in DaysOf(m) : daily[d] \in Nat
          /\ \A d \in DaysOf(m) : daily[d] = IF d \in {} THEN daily[d] ELSE 0
      BY <1>1, <3>1
    <3>3. SumFunctionOnSet(daily, DaysOf(m)) = SumFunctionOnSet(daily, {})
      BY <3>1, <3>2, SumFilter
    <3>4. SumFunctionOnSet(daily, {}) = 0
      BY FS_EmptySet, SumStep
    <3>5. QED
      BY <3>3, <3>4
  <2>4. QED
    BY <1>1, <2>2, <2>3
<1>12. ChargedByNow
  BY <1>1 DEF ChargedByNow
<1>13. Overspent
  BY <1>1, Numbers DEF Overspent, Within
<1>14. QED
  BY <1>3, <1>4, <1>8, <1>9, <1>10, <1>11, <1>12, <1>13 DEF IInv

LEMMA AdmissionStep ==
    ASSUME IInv, [Next]_vars
    PROVE  IInv'
<1>1. Types'
  BY TypesStep DEF IInv
<1>2. Timely' /\ RpmCounted' /\ PassedCounted'
  BY <1>1, TimelyStep, RpmCountedStep, PassedCountedStep DEF IInv
<1>3. RateHolds'
  BY <1>1, <1>2, RateHoldsStep DEF IInv
<1>4. CountersAgree'
  BY <1>1, CountersAgreeStep DEF IInv
<1>5. ChargedByNow' /\ Overspent'
  BY <1>1, ChargedByNowStep, OverspentStep DEF IInv
<1>6. QED
  BY <1>1, <1>2, <1>3, <1>4, <1>5 DEF IInv

LEMMA AdmissionIInv == Spec => []IInv
<1>1. Init => IInv
  BY AdmissionInit
<1>2. IInv /\ [Next]_vars => IInv'
  BY AdmissionStep
<1>3. QED
  BY <1>1, <1>2, PTL DEF Spec

\* Every variable keeps its type; the bucket of a minute counts no more requests than
\* arrived, which each add to it once (internal/ingress/ratelimit.go).
THEOREM AdmissionTypeOK == Spec => []TypeOK
<1>1. IInv => TypeOK
  <2>. SUFFICES ASSUME IInv PROVE TypeOK
    OBVIOUS
  <2>1. rpm \in [Minutes -> 0 .. MaxArrivals]
    <3>1. ASSUME NEW t \in Minutes PROVE rpm[t] \in 0 .. MaxArrivals
      <4>1. rpm[t] \in Nat /\ arrived \in 0 .. MaxArrivals
        BY DEF IInv, Types
      <4>2. SumOver(Adding) \in Nat
        <5>1. Adding \in [Requests -> Nat]
          BY DEF Adding, Is
        <5>2. IsFiniteSet(Requests) /\ \A r \in Requests : Adding[r] \in Nat
          BY <5>1, AdmissionAssumption
        <5>3. QED
          BY <5>2, SumType DEF SumOver
      <4>3. rpm[t] + SumOver(Adding) <= arrived
        BY DEF IInv, RpmCounted
      <4>4. QED
        BY <4>1, <4>2, <4>3, Numbers
    <3>2. QED
      BY <3>1 DEF IInv, Types
  <2>2. QED
    BY <2>1 DEF IInv, Types, TypeOK
<1>2. QED
  BY <1>1, AdmissionIInv, PTL

\* No minute admits more requests or tokens than the limits of the key, for any number of
\* handlers between adding to a bucket and reading the total (RateLimiter.Allow).
THEOREM AdmissionRateHolds == Spec => []RateHolds
<1>1. IInv => RateHolds
  BY DEF IInv
<1>2. QED
  BY <1>1, AdmissionIInv, PTL

\* The counters of the days of a month add up to that of the month, up to the charges that
\* are, or stopped, between the two statements (Tracker.Commit).
THEOREM AdmissionMonthlyMatchesDaily == Spec => []MonthlyMatchesDaily
<1>1. IInv => MonthlyMatchesDaily
  BY MatchesDaily DEF IInv
<1>2. QED
  BY <1>1, AdmissionIInv, PTL

\* Under a hard cap a budget is overspent by at most one request's cost for each handler,
\* although Tracker.PreCheck and Tracker.Commit are apart, also at midnight.
THEOREM AdmissionOverspendBounded == Spec => []OverspendBounded
<1>1. IInv => OverspendBounded
  BY SpendsNoMore DEF IInv
<1>2. QED
  BY <1>1, AdmissionIInv, PTL
=============================================================================
