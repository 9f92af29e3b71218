------------------------------- MODULE Router -------------------------------
(***************************************************************************)
(* internal/router: concurrent Dispatch calls share one Health and one     *)
(* Breaker per upstream, with no lock.  A step is one method call on one   *)
(* of these records (or one look at them); everything between two steps is *)
(* local to the request.  A provider call is the long step: the request    *)
(* sits at "calling" while others run.                                     *)
(***************************************************************************)
EXTENDS Integers, Sequences, FiniteSets

CONSTANTS
    Requests,   \* goroutines that serve ingress requests
    Upstreams,  \* upstream IDs
    Pools,      \* alias :> [strategy, members, priority], as New indexes them
    Unknown,    \* an alias no pool serves
    SickAfter,  \* errors in a row that make an upstream sick (3 in Failure)
    Threshold,  \* failures that open a breaker (New passes 2)
    None        \* "no value"

Strategies == {"weighted", "random", "round_robin", "least_inflight",
               "lowest_latency", "first_available", "priority"}

ASSUME RouterAssumption ==
    /\ Unknown \notin DOMAIN Pools
    /\ None \notin Upstreams
    /\ None \notin {"ok", "retry", "fatal", "error"}
    /\ SickAfter \in Nat \ {0}
    /\ Threshold \in Nat \ {0}
    /\ \A a \in DOMAIN Pools :
        /\ Pools[a].strategy \in Strategies
        /\ Pools[a].members \in Seq(Upstreams)
        /\ Pools[a].priority \in [Upstreams -> Int]

VARIABLES
    health,   \* health[u]: Router.health
    breaker,  \* breaker[u]: Router.breakers
    req       \* req[r]: the locals of the Dispatch call that serves r

vars == <<health, breaker, req>>
-----------------------------------------------------------------------------
(* Health (health.go) and Breaker (breaker.go).  ConsecutiveOK is only     *)
(* compared with 1 just after it is incremented, so it is left out; errors *)
(* and failures stop at the highest value the code compares them with.     *)

\* A State string is two machine words: two overlapping stores may leave the
\* pointer of one with the length of the other, which equals no State.
Torn == "torn"

HealthStates == {"healthy", "degraded", "sick", "cooling_off", Torn}

\* Breaker methods compare State with open and half_open only, so a torn
\* breaker state acts as closed and is written "closed" here.
BreakerStates == {"closed", "open", "half_open"}
HealthRecord == [state : HealthStates, errors : 0 .. SickAfter]
BreakerRecord ==
    [state : BreakerStates, failures : 0 .. Threshold, expired : BOOLEAN]

UpTo(bound, n) == IF n < bound THEN n ELSE bound

HealthSuccess(h) == [state |-> "healthy", errors |-> 0]

HealthFailure(h) ==
    LET n == UpTo(SickAfter, h.errors + 1)
    IN  [state |-> IF n >= SickAfter THEN "sick" ELSE "degraded", errors |-> n]

\* Mutant: Cooldown does not lift an upstream out of "sick".
HealthCooldownUnlessSick(h) ==
    IF h.state = "sick" THEN h ELSE [h EXCEPT !.state = "cooling_off"]

HealthCooldown(h) == [h EXCEPT !.state = "cooling_off"]

Available(state) == state \in {"healthy", "degraded"}

\* Mutant: a success pays back one failure only.
BreakerSuccessPayingBack(b) ==
    [state |-> "closed", failures |-> b.failures - 1, expired |-> FALSE]

BreakerSuccess(b) == [state |-> "closed", failures |-> 0, expired |-> FALSE]

\* expired: RecoveryTimeout has passed since openedAt.
BreakerFailure(b) ==
    LET n == UpTo(Threshold, b.failures + 1)
    IN  IF b.state = "half_open" \/ n >= Threshold
        THEN [state |-> "open", failures |-> n, expired |-> FALSE]
        ELSE [b EXCEPT !.failures = n]

BreakerHalfOpen(b) == [b EXCEPT !.state = "half_open", !.expired = FALSE]

\* health.Success(), .Failure() or .Cooldown(), as the request's place says.
HealthWrite(place, h) ==
    CASE place = "health_ok" -> HealthSuccess(h)
      [] place = "health_fail" -> HealthFailure(h)
      [] OTHER -> HealthCooldown(h)

\* breaker.Success(), .Failure(), or the store in .Allow().
BreakerWrite(place, b) ==
    CASE place = "breaker_ok" -> BreakerSuccess(b)
      [] place = "breaker_fail" -> BreakerFailure(b)
      [] OTHER -> BreakerHalfOpen(b)
-----------------------------------------------------------------------------
(* The locals of a Dispatch call, and where it is.                         *)

HealthWrites == {"health_ok", "health_fail", "cool", "refused"}
BreakerWrites == {"breaker_ok", "breaker_fail"}
Places == {"idle", "candidates", "recovery", "allow", "calling"}
            \union HealthWrites \union BreakerWrites

RequestRecord ==
    [at : Places,
     alias : DOMAIN Pools \union {None},
     attempt : Nat,                      \* attempts, the loop counter
     seen : Nat,                         \* upstreams looked at by Select
     cand : SUBSET Upstreams,            \* those it found usable
     upstream : Upstreams \union {None}, \* selection.Upstream
     calls : Nat,                        \* provider calls so far
     outcome : {"ok", "retry", "fatal", None},  \* of the last call
     answer : {"ok", "error", None}]     \* what Dispatch returned

Answered(answer) ==
    [at |-> "idle", alias |-> None, attempt |-> 0, seen |-> 0, cand |-> {},
     upstream |-> None, calls |-> 0, outcome |-> None, answer |-> answer]

Members(q) == Pools[q.alias].members

\* Select begins: the loop over pool.Upstreams in candidates().
Attempt(q, n) ==
    [q EXCEPT !.at = "candidates", !.attempt = n, !.seen = 0, !.cand = {},
              !.upstream = None]

\* Mutant: the loop counter is not advanced.
RetryForever(q) == Attempt(q, q.attempt)

\* continue: the loop header checks attempts < len(pool.Upstreams).
Retry(q) ==
    IF q.attempt + 1 < Len(Members(q))
    THEN Attempt(q, q.attempt + 1)
    ELSE Answered("error")

\* The upstream whose turn it is in candidates() or recoveryCandidates().
Looking(q) == Members(q)[q.seen + 1]

Looked(q, usable) ==
    [q EXCEPT !.seen = @ + 1,
              !.cand = IF usable THEN @ \union {Looking(q)} ELSE @]

\* Mutants: the failure path without its Cooldown, and without the return on
\* an error that must not be retried.
AfterWriteNoCooldown(q) ==
    CASE q.at = "health_ok" -> [q EXCEPT !.at = "breaker_ok"]
      [] q.at \in {"health_fail", "cool"} -> [q EXCEPT !.at = "breaker_fail"]
      [] q.at \in {"refused", "breaker_fail"} -> Retry(q)
      [] q.at = "breaker_ok" -> Answered("ok")
      [] q.at = "allow" -> [q EXCEPT !.at = "calling"]
      [] q.at = "recovery" -> Looked(q, TRUE)
AfterWriteRetryingAll(q) ==
    CASE q.at = "health_fail" -> [q EXCEPT !.at = "cool"]
      [] OTHER -> AfterWriteNoCooldown(q)

\* Where a request goes after it wrote Health or Breaker.
AfterWrite(q) ==
    CASE q.at = "health_ok" -> [q EXCEPT !.at = "breaker_ok"]
      [] q.at = "health_fail" -> [q EXCEPT !.at = "cool"]
      [] q.at = "cool" -> [q EXCEPT !.at = "breaker_fail"]
      [] q.at = "refused" -> Retry(q)
      [] q.at = "breaker_ok" -> Answered("ok")
      [] q.at = "breaker_fail" ->
            IF q.outcome = "fatal" THEN Answered("error") ELSE Retry(q)
      [] q.at = "allow" -> [q EXCEPT !.at = "calling"]
      [] q.at = "recovery" -> Looked(q, TRUE)
-----------------------------------------------------------------------------
(* strategy.go.  Select builds a fresh selector for every selection, so a  *)
(* round robin starts at index 0 each time; InFlight and LatencyMs are     *)
(* never set, so least_inflight and lowest_latency keep the first one.     *)

Position(a, u) ==
    CHOOSE i \in 1 .. Len(Pools[a].members) :
        /\ Pools[a].members[i] = u
        /\ \A j \in 1 .. (i - 1) : Pools[a].members[j] # u

First(a, cand) ==
    {u \in cand : \A v \in cand : Position(a, u) <= Position(a, v)}

BestPriority(a, cand) ==
    {u \in cand : \A v \in cand : Pools[a].priority[u] <= Pools[a].priority[v]}

\* The candidates Selector.Select may return.
Picks(a, cand) ==
    CASE Pools[a].strategy \in {"weighted", "random"} -> cand
      [] Pools[a].strategy = "priority" -> First(a, BestPriority(a, cand))
      [] OTHER -> First(a, cand)
-----------------------------------------------------------------------------
Init ==
    /\ health = [u \in Upstreams |-> [state |-> "healthy", errors |-> 0]]
    /\ breaker = [u \in Upstreams |->
                    [state |-> "closed", failures |-> 0, expired |-> FALSE]]
    /\ req = [r \in Requests |-> Answered(None)]

\* Dispatch starts: Resolve, then the first attempt; an empty pool and an
\* alias without a pool are errors at once.
Arrive(r, alias) ==
    /\ req[r].at = "idle"
    /\ req' = [req EXCEPT ![r] =
                 IF alias \in DOMAIN Pools /\ Pools[alias].members # <<>>
                 THEN Attempt([Answered(None) EXCEPT !.alias = alias], 0)
                 ELSE Answered("error")]
    /\ UNCHANGED <<health, breaker>>

\* Does request s store to health[u].State, or breaker[u].State, now?
WritesHealth(s, u) == req[s].at \in HealthWrites /\ req[s].upstream = u

LooksAt(s, u) ==
    /\ req[s].at \in {"candidates", "recovery"}
    /\ req[s].seen < Len(Members(req[s]))
    /\ Looking(req[s]) = u

HalfOpens(s, u) ==
    /\ breaker[u].state = "open" /\ breaker[u].expired
    /\ \/ req[s].at = "allow" /\ req[s].upstream = u
       \/ req[s].at = "recovery" /\ LooksAt(s, u) /\ health[u].state = "cooling_off"

WritesBreaker(s, u) ==
    \/ req[s].at \in BreakerWrites /\ req[s].upstream = u
    \/ HalfOpens(s, u)

\* What r may read there while another request is changing it.
HealthRead(r, u) ==
    {health[u].state} \union
        {x \in {Torn} : \E s \in Requests \ {r} :
            /\ WritesHealth(s, u)
            /\ HealthWrite(req[s].at, health[u]).state # health[u].state}
BreakerRead(r, u) ==
    {breaker[u].state} \union
        {x \in {"closed"} : \E s \in Requests \ {r} :
            /\ WritesBreaker(s, u)
            /\ BreakerWrite(req[s].at, breaker[u]).state # breaker[u].state}

\* One round of the loop in Pool.candidates.
LookForCandidate(r) ==
    /\ req[r].at = "candidates"
    /\ req[r].seen < Len(Members(req[r]))
    /\ \E state \in HealthRead(r, Looking(req[r])) :
         req' = [req EXCEPT ![r] = Looked(@, Available(state))]
    /\ UNCHANGED <<health, breaker>>

\* One round of the loop in recoveryCandidates: Allow() is asked only of an
\* upstream that cools off, and then turns an expired open breaker half open
\* whether or not that upstream is the one selected in the end.
LookForRecovery(r) ==
    /\ req[r].at = "recovery"
    /\ req[r].seen < Len(Members(req[r]))
    /\ LET u == Looking(req[r]) IN
       \E state \in HealthRead(r, u), guard \in BreakerRead(r, u) :
         IF state # "cooling_off"
         THEN /\ req' = [req EXCEPT ![r] = Looked(@, FALSE)]
              /\ UNCHANGED breaker
         ELSE /\ req' = [req EXCEPT ![r] =
                            Looked(@, guard # "open" \/ breaker[u].expired)]
              /\ breaker' = IF guard = "open" /\ breaker[u].expired
                            THEN [breaker EXCEPT ![u] = BreakerHalfOpen(@)]
                            ELSE breaker
    /\ UNCHANGED health

\* The selector returns one of the usable upstreams.
Select(r) ==
    /\ req[r].at \in {"candidates", "recovery"}
    /\ req[r].seen = Len(Members(req[r]))
    /\ \E u \in Picks(req[r].alias, req[r].cand) :
         req' = [req EXCEPT ![r].at = "allow", ![r].upstream = u,
                            ![r].seen = 0, ![r].cand = {}]
    /\ UNCHANGED <<health, breaker>>

\* No candidate is available: look for one that may recover; if there is
\* none of these either, Dispatch returns the selector's error.
SelectNone(r) ==
    /\ req[r].at \in {"candidates", "recovery"}
    /\ req[r].seen = Len(Members(req[r]))
    /\ req[r].cand = {}
    /\ req' = [req EXCEPT ![r] =
                 IF @.at = "candidates"
                 THEN [@ EXCEPT !.at = "recovery", !.seen = 0]
                 ELSE Answered("error")]
    /\ UNCHANGED <<health, breaker>>

\* breaker.Allow() just before the provider call.
Allow(r) ==
    /\ req[r].at = "allow"
    /\ LET u == req[r].upstream IN
       \E guard \in BreakerRead(r, u) :
         /\ req' = [req EXCEPT ![r].at =
                      IF guard # "open" \/ breaker[u].expired
                      THEN "calling" ELSE "refused"]
         /\ breaker' = IF guard = "open" /\ breaker[u].expired
                       THEN [breaker EXCEPT ![u] = BreakerHalfOpen(@)]
                       ELSE breaker
    /\ UNCHANGED health

\* Provider.Chat returns: an answer, an error that may be retried (also any
\* error that is not an *adapter.Error, and the network error the adapters
\* make of a cancelled context), or an *adapter.Error that may not.
ChatReturns(r, outcome) ==
    /\ req[r].at = "calling"
    /\ req' = [req EXCEPT ![r].at =
                 IF outcome = "ok" THEN "health_ok" ELSE "health_fail",
                          ![r].outcome = outcome,
                          ![r].calls = @ + 1]
    /\ UNCHANGED <<health, breaker>>

\* The call on health that follows the provider call, or a refusal.
UpdateHealth(r) ==
    /\ req[r].at \in HealthWrites
    /\ health' = [health EXCEPT ![req[r].upstream] = HealthWrite(req[r].at, @)]
    /\ req' = [req EXCEPT ![r] = AfterWrite(@)]
    /\ UNCHANGED breaker

\* The call on the breaker that ends an attempt.
UpdateBreaker(r) ==
    /\ req[r].at \in BreakerWrites
    /\ breaker' = [breaker EXCEPT ![req[r].upstream] = BreakerWrite(req[r].at, @)]
    /\ req' = [req EXCEPT ![r] = AfterWrite(@)]
    /\ UNCHANGED health

\* What two overlapping writes W and V may leave in a record: the state one of
\* them stores, or a torn one if they store different states; and the count
\* after both in either order, or, if both count, after only one of them.
MixedStates(now, alone, ordered, torn) ==
    LET stored == {x.state : x \in ordered} \union
                    ({x.state : x \in alone} \ {now.state})
    IN  stored \union {x \in {torn} : Cardinality(stored) > 1}

Counts(place) == place \in {"health_ok", "health_fail"} \union BreakerWrites

MixedCounts(p, q, alone, ordered) ==
    IF Counts(p) /\ Counts(q) THEN alone \union ordered ELSE ordered

RaceOnHealth(r, s) ==
    /\ r # s
    /\ req[r].at \in HealthWrites /\ req[s].at \in HealthWrites
    /\ req[r].upstream = req[s].upstream
    /\ LET u == req[r].upstream
           W(h) == HealthWrite(req[r].at, h)
           V(h) == HealthWrite(req[s].at, h)
           alone == {W(health[u]), V(health[u])}
           ordered == {W(V(health[u])), V(W(health[u]))}
       IN  \E state \in MixedStates(health[u], alone, ordered, Torn),
              x \in MixedCounts(req[r].at, req[s].at, alone, ordered) :
             health' = [health EXCEPT ![u] = [state |-> state, errors |-> x.errors]]
    /\ req' = [req EXCEPT ![r] = AfterWrite(@), ![s] = AfterWrite(@)]
    /\ UNCHANGED breaker

RaceOnBreaker(r, s) ==
    /\ r # s
    /\ \E u \in Upstreams :
         /\ WritesBreaker(r, u) /\ WritesBreaker(s, u)
         /\ LET W(b) == BreakerWrite(req[r].at, b)
                V(b) == BreakerWrite(req[s].at, b)
                alone == {W(breaker[u]), V(breaker[u])}
                ordered == {W(V(breaker[u])), V(W(breaker[u]))}
            IN  \E state \in MixedStates(breaker[u], alone, ordered, "closed"),
                   x \in MixedCounts(req[r].at, req[s].at, alone, ordered),
                   y \in ordered :
                  breaker' = [breaker EXCEPT ![u] =
                    [state |-> state, failures |-> x.failures, expired |-> y.expired]]
    /\ req' = [req EXCEPT ![r] = AfterWrite(@), ![s] = AfterWrite(@)]
    /\ UNCHANGED health

\* RecoveryTimeout (50 ms) passes after a breaker opened.
Elapse(u) ==
    /\ breaker[u].state = "open"
    /\ ~breaker[u].expired
    /\ breaker' = [breaker EXCEPT ![u].expired = TRUE]
    /\ UNCHANGED <<health, req>>
-----------------------------------------------------------------------------
Dispatching(r) ==
    \/ LookForCandidate(r)
    \/ LookForRecovery(r)
    \/ Select(r)
    \/ SelectNone(r)
    \/ Allow(r)
    \/ \E outcome \in {"ok", "retry", "fatal"} : ChatReturns(r, outcome)
    \/ UpdateHealth(r)
    \/ UpdateBreaker(r)

Next ==
    \/ \E r \in Requests, alias \in DOMAIN Pools \union {Unknown} : Arrive(r, alias)
    \/ \E r \in Requests : Dispatching(r)
    \/ \E r, s \in Requests : RaceOnHealth(r, s)
    \/ \E r, s \in Requests : RaceOnBreaker(r, s)
    \/ \E u \in Upstreams : Elapse(u)

\* Goroutines are scheduled, provider calls end (the adapters' HTTP client
\* gives up after ten minutes) and time passes.
Fairness ==
    /\ \A r \in Requests : WF_vars(Dispatching(r))
    /\ \A u \in Upstreams : WF_vars(Elapse(u))

SafetySpec == Init /\ [][Next]_vars

Spec == SafetySpec /\ Fairness

\* Clients also keep asking for every model.
Demand ==
    \A r \in Requests : WF_vars(\E alias \in DOMAIN Pools : Arrive(r, alias))

LiveSpec == Spec /\ Demand
-----------------------------------------------------------------------------
(* Properties.                                                             *)

TypeOK ==
    /\ health \in [Upstreams -> HealthRecord]
    /\ breaker \in [Upstreams -> BreakerRecord]
    /\ req \in [Requests -> RequestRecord]

\* No upstream is lost by bookkeeping.  Select takes an upstream that is
\* healthy or degraded, or else one that cools off; a sick one is in neither
\* list and nothing but the request that made it so would ever move it on.
\* So whenever an upstream is degraded or sick, a request that failed on it is
\* about to cool it off (the Failure(); Cooldown() pair of router.go:99-100).
NoUpstreamStranded ==
    \A u \in Upstreams :
        health[u].state \in {"degraded", "sick"} =>
            \E r \in Requests : req[r].at = "cool" /\ req[r].upstream = u

\* Dispatch keeps the promise of Failover, whatever the interleaving: the
\* retry loop of router.go:77-111 never calls past an answer, a fatal error
\* or the size of the pool, and never answers "ok" without an answer.
Promise == INSTANCE Failover WITH
    Limits <- {Len(Pools[a].members) : a \in DOMAIN Pools},
    busy <- [r \in Requests |-> req[r].at # "idle"],
    limit <- [r \in Requests |->
                IF req[r].at = "idle" THEN 0 ELSE Len(Members(req[r]))],
    calls <- [r \in Requests |-> req[r].calls],
    last <- [r \in Requests |-> req[r].outcome],
    answer <- [r \in Requests |-> req[r].answer]

KeepsPromise == Promise!Spec

\* Every Dispatch call returns.
EveryRequestEnds ==
    \A r \in Requests : (req[r].at # "idle") ~> (req[r].at = "idle")

\* A pool comes back.  If from some time on no provider call fails, and not
\* every upstream of the pool has a torn state, then requests that keep
\* asking for the pool are answered again and again: the breaker and the
\* cooling off never lock a whole pool out for good.
ServiceRecovers ==
    \A a \in DOMAIN Pools :
        (/\ Pools[a].members # <<>>
         /\ <>[](\A r \in Requests : req[r].at # "health_fail")
         /\ <>[](\E i \in DOMAIN Pools[a].members :
                    health[Pools[a].members[i]].state # Torn))
        => []<>(\E r \in Requests : req[r].at = "breaker_ok")
=============================================================================
