------------------------------ MODULE Failover ------------------------------
(***************************************************************************)
(* What Router.Dispatch promises its caller, whatever the health of the    *)
(* upstreams and whatever other requests do meanwhile: a request calls     *)
(* providers one at a time, at most as many times as its pool has          *)
(* upstreams; it never calls another provider after one has answered or    *)
(* after an error that must not be retried; and it is answered "ok"        *)
(* exactly when the last provider it called answered.                      *)
(***************************************************************************)
EXTENDS Naturals

CONSTANTS
    Requests,   \* the concurrent callers of Dispatch
    Limits,     \* the sizes of the pools
    None        \* "no value"

CallOutcome == {"ok", "retry", "fatal"}

VARIABLES
    busy,    \* busy[r]: is r being dispatched?
    limit,   \* limit[r]: how many provider calls r may make
    calls,   \* calls[r]: how many provider calls r has made
    last,    \* last[r]: how its last provider call ended
    answer   \* answer[r]: what r's caller was told

vars == <<busy, limit, calls, last, answer>>

TypeOK ==
    /\ busy \in [Requests -> BOOLEAN]
    /\ limit \in [Requests -> Limits \union {0}]
    /\ calls \in [Requests -> Nat]
    /\ last \in [Requests -> CallOutcome \union {None}]
    /\ answer \in [Requests -> {"ok", "error", None}]

Init ==
    /\ busy = [r \in Requests |-> FALSE]
    /\ limit = [r \in Requests |-> 0]
    /\ calls = [r \in Requests |-> 0]
    /\ last = [r \in Requests |-> None]
    /\ answer = [r \in Requests |-> None]

\* No pool can serve the request: it is refused with no provider call.
Reject(r) ==
    /\ ~busy[r]
    /\ answer' = [answer EXCEPT ![r] = "error"]
    /\ UNCHANGED <<busy, limit, calls, last>>

Begin(r, n) ==
    /\ ~busy[r]
    /\ busy' = [busy EXCEPT ![r] = TRUE]
    /\ limit' = [limit EXCEPT ![r] = n]
    /\ answer' = [answer EXCEPT ![r] = None]
    /\ UNCHANGED <<calls, last>>

\* A provider is called and the call ends: only before the first answer and
\* the first non-retryable error, and within the limit.
Call(r, outcome) ==
    /\ busy[r]
    /\ last[r] \in {None, "retry"}
    /\ calls[r] < limit[r]
    /\ calls' = [calls EXCEPT ![r] = @ + 1]
    /\ last' = [last EXCEPT ![r] = outcome]
    /\ UNCHANGED <<busy, limit, answer>>

\* Callers learn of success exactly when their last call succeeded.  Two
\* requests can end in one step: see Router!RaceOnHealth.
Finish(done) ==
    /\ done # {}
    /\ \A r \in done : busy[r]
    /\ busy' = [r \in Requests |-> busy[r] /\ r \notin done]
    /\ limit' = [r \in Requests |-> IF r \in done THEN 0 ELSE limit[r]]
    /\ calls' = [r \in Requests |-> IF r \in done THEN 0 ELSE calls[r]]
    /\ last' = [r \in Requests |-> IF r \in done THEN None ELSE last[r]]
    /\ answer' = [r \in Requests |->
                    IF r \notin done THEN answer[r]
                    ELSE IF last[r] = "ok" THEN "ok" ELSE "error"]

Next ==
    \/ \E r \in Requests : Reject(r)
    \/ \E r \in Requests, n \in Limits : Begin(r, n)
    \/ \E r \in Requests, outcome \in CallOutcome : Call(r, outcome)
    \/ \E done \in SUBSET Requests : Finish(done)

Spec == Init /\ [][Next]_vars
=============================================================================
