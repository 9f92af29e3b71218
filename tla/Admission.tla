----------------------------- MODULE Admission ------------------------------
(***************************************************************************)
(* internal/ingress and internal/budget: how a request of one bridge key   *)
(* is admitted and charged.  RateLimiter.Allow adds to the bucket of the   *)
(* minute and then sums the buckets; Tracker.PreCheck reads the counters   *)
(* of the day and the month before the request is dispatched, and          *)
(* Tracker.Commit adds its cost to both afterwards.  Every SQL statement   *)
(* is a step of its own, and any may fail.  The tables are keyed by the    *)
(* bridge key, so that keys do not affect each other and one is enough.    *)
(***************************************************************************)
EXTENDS Integers, FiniteSets, Functions

CONSTANTS
    Requests,       \* handlers that serve requests of the key at a time
    RPM, TPM,       \* its rate limits, 0 for none
    DailyCents, MonthlyCents, HardCap,  \* its budgets, 0 for none
    Tokens,         \* estimated input tokens of a request
    Costs,          \* cents a provider call may cost, 0 for none charged
    MaxClock,       \* bound: the last tick of the clock, a minute
    Day(_), Month(_),  \* the day and the month of a tick
    MaxArrivals     \* bound: requests that arrive

ASSUME AdmissionAssumption ==
    /\ IsFiniteSet(Requests)
    /\ {RPM, TPM, DailyCents, MonthlyCents, MaxClock, MaxArrivals} \subseteq Nat
    /\ HardCap \in BOOLEAN
    /\ Tokens \subseteq Nat /\ Costs \subseteq Nat
    /\ \A t \in 0 .. MaxClock : Day(t) \in Nat /\ Month(t) \in Nat
    /\ \E c \in Costs \union {0} : \A d \in Costs : d <= c
    /\ \A s, t \in 0 .. MaxClock :
         /\ s <= t => Day(s) <= Day(t) /\ Month(s) <= Month(t)
         /\ Day(s) = Day(t) => Month(s) = Month(t)

VARIABLES
    clock,    \* time.Now(), in minutes
    rpm, tpm, \* rpm[t], tpm[t]: the ratelimit_buckets of minute t
    daily,    \* daily[d]: the budget_counters of the key
    monthly,  \* monthly[m]
    req,      \* req[r]: the locals of the handler that serves r
    arrived,  \* number of requests so far
    passed,   \* passed[t]: history, what Allow admitted in minute t
    missed    \* missed[m]: history, cents that only the daily counter got

vars == <<clock, rpm, tpm, daily, monthly, req, arrived, passed, missed>>

Minutes == 0 .. MaxClock
Days == {Day(t) : t \in Minutes}
Months == {Month(t) : t \in Minutes}

\* Between two steps of the budget part, the request holds now, what it read
\* and what it must charge.
Places == {"idle", "rpm_add", "rpm_total", "body", "tpm_add", "tpm_total",
           "daily_used", "monthly_used", "calling", "commit_daily", "commit_monthly"}

RequestRecord ==
    [at : Places,
     now : Minutes,       \* now := l.now() or t.now() of the call it is in
     tokens : Tokens \union {0},
     used : Nat,          \* dailyUsed
     cost : Costs \union {0}]

Idle == [at |-> "idle", now |-> 0, tokens |-> 0, used |-> 0, cost |-> 0]
-----------------------------------------------------------------------------
(* The checks.                                                             *)

\* Mutant: the sum starts after the bucket of the request.
TotalAfter(value, t) ==
    SumFunctionOnSet(value, {m \in Minutes : m > t})

\* SELECT SUM(value) ... AND bucket >= ?
Total(value, t) == SumFunctionOnSet(value, {m \in Minutes : m >= t})

\* overDaily and overMonthly; the estimate ServeConfig passes is always 0.
EstimatedCents == 0
Over(limit, used) == limit > 0 /\ used + EstimatedCents > limit

\* Mutant: a request is refused when it is over both limits.
RefusesIfBoth(dailyUsed, monthlyUsed) ==
    HardCap /\ Over(DailyCents, dailyUsed) /\ Over(MonthlyCents, monthlyUsed)
Refuses(dailyUsed, monthlyUsed) ==
    HardCap /\ (Over(DailyCents, dailyUsed) \/ Over(MonthlyCents, monthlyUsed))

Move(r, place) == req' = [req EXCEPT ![r].at = place]

\* Where a call of PreCheck, Allow or Commit starts, now is the clock.
Start(r, place) == req' = [req EXCEPT ![r].at = place, ![r].now = clock]

Return(r) == req' = [req EXCEPT ![r] = Idle]
-----------------------------------------------------------------------------
Init ==
    /\ clock = 0
    /\ rpm = [t \in Minutes |-> 0]
    /\ tpm = [t \in Minutes |-> 0]
    /\ daily = [d \in Days |-> 0]
    /\ monthly = [m \in Months |-> 0]
    /\ req = [r \in Requests |-> Idle]
    /\ arrived = 0
    /\ passed = [t \in Minutes |-> [requests |-> 0, tokens |-> 0]]
    /\ missed = [m \in Months |-> 0]

\* authorize: the key is valid; the rate limit closure is called.
Arrive(r) ==
    /\ req[r].at = "idle"
    /\ arrived < MaxArrivals
    /\ arrived' = arrived + 1
    /\ Start(r, IF RPM > 0 THEN "rpm_add" ELSE "body")
    /\ UNCHANGED <<clock, rpm, tpm, daily, monthly, passed, missed>>

\* Mutant: the statement is sent twice.
RpmAddTwice(r) ==
    /\ req[r].at = "rpm_add"
    /\ rpm' = [rpm EXCEPT ![req[r].now] = @ + 2]
    /\ Move(r, "rpm_total")
    /\ UNCHANGED <<clock, tpm, daily, monthly, arrived, passed, missed>>

\* INSERT INTO ratelimit_buckets ... DO UPDATE SET value = value + 1
RpmAdd(r) ==
    /\ req[r].at = "rpm_add"
    /\ rpm' = [rpm EXCEPT ![req[r].now] = @ + 1]
    /\ Move(r, "rpm_total")
    /\ UNCHANGED <<clock, tpm, daily, monthly, arrived, passed, missed>>

\* SELECT SUM(value): within the limit the request goes on, else it is a 429.
RpmTotal(r) ==
    /\ req[r].at = "rpm_total"
    /\ IF Total(rpm, req[r].now) <= RPM
       THEN /\ passed' = [passed EXCEPT ![req[r].now].requests = @ + 1]
            /\ Move(r, "body")
       ELSE /\ Return(r)
            /\ UNCHANGED passed
    /\ UNCHANGED <<clock, rpm, tpm, daily, monthly, arrived, missed>>

\* The body is read and normalized, which may take long or end in a 400 or
\* 413 (or the request was for /v1/models); dispatch calls the budget closure.
Dispatch(r) ==
    /\ req[r].at = "body"
    /\ \/ Return(r)
       \/ \E tokens \in Tokens :
            req' = [req EXCEPT ![r].at = IF TPM > 0 THEN "tpm_add" ELSE "daily_used",
                               ![r].now = clock,
                               ![r].tokens = tokens]
    /\ UNCHANGED <<clock, rpm, tpm, daily, monthly, arrived, passed, missed>>

TpmAdd(r) ==
    /\ req[r].at = "tpm_add"
    /\ tpm' = [tpm EXCEPT ![req[r].now] = @ + req[r].tokens]
    /\ Move(r, "tpm_total")
    /\ UNCHANGED <<clock, rpm, daily, monthly, arrived, passed, missed>>

TpmTotal(r) ==
    /\ req[r].at = "tpm_total"
    /\ IF Total(tpm, req[r].now) <= TPM
       THEN /\ passed' = [passed EXCEPT ![req[r].now].tokens = @ + req[r].tokens]
            /\ Start(r, "daily_used")
       ELSE /\ Return(r)
            /\ UNCHANGED passed
    /\ UNCHANGED <<clock, rpm, tpm, daily, monthly, arrived, missed>>

\* PreCheck takes the time, some while after the last step of the request,
\* then t.used(..., "daily", ...).
DailyUsed(r) ==
    /\ req[r].at = "daily_used"
    /\ \E now \in req[r].now .. clock :
         req' = [req EXCEPT ![r].at = "monthly_used", ![r].now = now,
                            ![r].used = daily[Day(now)]]
    /\ UNCHANGED <<clock, rpm, tpm, daily, monthly, arrived, passed, missed>>

\* PreCheck: t.used(..., "monthly", ...), and the verdict: dispatch or a 402.
MonthlyUsed(r) ==
    /\ req[r].at = "monthly_used"
    /\ IF Refuses(req[r].used, monthly[Month(req[r].now)])
       THEN Return(r)
       ELSE req' = [req EXCEPT ![r] = [Idle EXCEPT !.at = "calling"]]
    /\ UNCHANGED <<clock, rpm, tpm, daily, monthly, arrived, passed, missed>>

\* The dispatcher returns and the observer charges the key.  An error, a
\* stream and a response without a price cost nothing.
Dispatched(r, cost) ==
    /\ req[r].at = "calling"
    /\ IF cost > 0
       THEN req' = [req EXCEPT ![r].at = "commit_daily", ![r].now = clock,
                               ![r].cost = cost]
       ELSE Return(r)
    /\ UNCHANGED <<clock, rpm, tpm, daily, monthly, arrived, passed, missed>>

CommitDaily(r) ==
    /\ req[r].at = "commit_daily"
    /\ daily' = [daily EXCEPT ![Day(req[r].now)] = @ + req[r].cost]
    /\ Move(r, "commit_monthly")
    /\ UNCHANGED <<clock, rpm, tpm, monthly, arrived, passed, missed>>

\* Mutant: the bucket of the month is computed when it is charged.
CommitMonthlyLate(r) ==
    /\ req[r].at = "commit_monthly"
    /\ monthly' = [monthly EXCEPT ![Month(clock)] = @ + req[r].cost]
    /\ Return(r)
    /\ UNCHANGED <<clock, rpm, tpm, daily, arrived, passed, missed>>

CommitMonthly(r) ==
    /\ req[r].at = "commit_monthly"
    /\ monthly' = [monthly EXCEPT ![Month(req[r].now)] = @ + req[r].cost]
    /\ Return(r)
    /\ UNCHANGED <<clock, rpm, tpm, daily, arrived, passed, missed>>

\* A statement fails before it has an effect: before the dispatch the request
\* is refused, after it the error is dropped and Commit stops.  The statement
\* that reports an error after its effect, and the end of the process, leave
\* what a failure of the next statement leaves.
Fail(r) ==
    /\ req[r].at \notin {"idle", "body", "calling"}
    /\ Return(r)
    /\ missed' = IF req[r].at = "commit_monthly"
                 THEN [missed EXCEPT ![Month(req[r].now)] = @ + req[r].cost]
                 ELSE missed
    /\ UNCHANGED <<clock, rpm, tpm, daily, monthly, arrived, passed>>

Tick ==
    /\ clock < MaxClock
    /\ clock' = clock + 1
    /\ UNCHANGED <<rpm, tpm, daily, monthly, req, arrived, passed, missed>>

Next ==
    \/ \E r \in Requests :
        \/ Arrive(r)
        \/ RpmAdd(r) \/ RpmTotal(r) \/ Dispatch(r) \/ TpmAdd(r) \/ TpmTotal(r)
        \/ DailyUsed(r) \/ MonthlyUsed(r)
        \/ \E cost \in Costs \union {0} : Dispatched(r, cost)
        \/ CommitDaily(r) \/ CommitMonthly(r)
        \/ Fail(r)
    \/ Tick

Spec == Init /\ [][Next]_vars
-----------------------------------------------------------------------------
(* Properties.                                                             *)

TypeOK ==
    /\ clock \in Minutes
    /\ rpm \in [Minutes -> 0 .. MaxArrivals]
    /\ tpm \in [Minutes -> Nat]
    /\ daily \in [Days -> Nat]
    /\ monthly \in [Months -> Nat]
    /\ req \in [Requests -> RequestRecord]
    /\ arrived \in 0 .. MaxArrivals
    /\ passed \in [Minutes -> [requests : Nat, tokens : Nat]]
    /\ missed \in [Months -> Nat]

\* In no minute does the limiter admit more requests, or more tokens, than
\* the key may use, although adding and reading are two statements and a
\* request may read its total in a later minute than it was counted in.
RateHolds ==
    \A t \in Minutes :
        /\ RPM > 0 => passed[t].requests <= RPM
        /\ TPM > 0 => passed[t].tokens <= TPM

MaxCost == CHOOSE c \in Costs \union {0} : \A d \in Costs : d <= c

\* A hard cap may be overspent, but only by requests that run at the same
\* time: by at most one cost for each of them, even at midnight, when requests
\* checked against one day are charged to the next.
OverspendBounded ==
    LET slack == Cardinality(Requests) * MaxCost IN
    HardCap =>
        /\ DailyCents > 0 => \A d \in Days : daily[d] <= DailyCents + slack
        /\ MonthlyCents > 0 => \A m \in Months : monthly[m] <= MonthlyCents + slack

\* The two counters agree: the days of a month sum up to the month, the cents
\* being charged, and those of a Commit that stopped halfway.
MonthlyMatchesDaily ==
    \A m \in Months :
        SumFunctionOnSet(daily, {Day(t) : t \in {s \in Minutes : Month(s) = m}}) =
            monthly[m] + missed[m] +
            SumFunctionOnSet([r \in Requests |-> req[r].cost],
                {r \in Requests : /\ req[r].at = "commit_monthly"
                                  /\ Month(req[r].now) = m})
=============================================================================
