---------------------------- MODULE RouterProofs ----------------------------
(***************************************************************************)
(* Router for every set of requests and upstreams, every table of pools    *)
(* and both thresholds: type correctness, NoUpstreamStranded and the       *)
(* refinement of Failover.                                                 *)
(***************************************************************************)
EXTENDS Router, TLAPS

\* The places at which a request has not yet had an answer that ends it, and
\* those at which it works on its selected upstream.
Trying == {"candidates", "recovery", "allow", "calling", "refused"}
Failing == {"health_fail", "cool", "breaker_fail"}
Answering == {"health_ok", "breaker_ok"}
Looks == {"candidates", "recovery"}
OnUpstream == (Trying \ Looks) \union Failing \union Answering

\* What holds of the locals of one request at each of its places.
LocalInv(q) ==
    /\ q \in RequestRecord
    /\ q.at = "idle" => q = Answered(q.answer)
    /\ q.at # "idle" =>
         /\ q.alias \in DOMAIN Pools
         /\ q.attempt < Len(Members(q))
         /\ q.answer = None
    /\ q.at \in Looks => q.seen <= Len(Members(q))
    /\ q.at \in OnUpstream => q.upstream \in Upstreams
    /\ q.at \in Trying => q.calls <= q.attempt /\ q.outcome \in {None, "retry"}
    /\ q.at \in Failing => q.outcome \in {"retry", "fatal"}
    /\ q.at \in Answering => q.outcome = "ok"
    /\ q.at \in Failing \union Answering => q.calls <= q.attempt + 1

SharedInv ==
    /\ health \in [Upstreams -> HealthRecord]
    /\ breaker \in [Upstreams -> BreakerRecord]

LocalsInv ==
    /\ req \in [Requests -> RequestRecord]
    /\ \A r \in Requests : LocalInv(req[r])

IInv == SharedInv /\ LocalsInv /\ NoUpstreamStranded
-----------------------------------------------------------------------------
(* The steps of one request's locals.                                      *)

\* A call that has returned is consistent.
LEMMA AnsweredLocal ==
    ASSUME NEW answer \in {"ok", "error", None}
    PROVE  /\ LocalInv(Answered(answer))
           /\ Answered(answer).at = "idle"
           /\ Answered(answer).answer = answer
BY RouterAssumption
   DEF LocalInv, Answered, RequestRecord, Places, HealthWrites, BreakerWrites,
       Looks, OnUpstream, Trying, Failing, Answering

\* The members of the pool a request was resolved to.
LEMMA MembersType ==
    ASSUME NEW q, LocalInv(q), q.at # "idle"
    PROVE  /\ Members(q) \in Seq(Upstreams)
           /\ Len(Members(q)) \in Nat
           /\ q.alias \in DOMAIN Pools
BY RouterAssumption DEF LocalInv, Members

\* An attempt within the loop bound starts consistently.
LEMMA AttemptLocal ==
    ASSUME NEW q \in RequestRecord, NEW n \in Nat,
           q.alias \in DOMAIN Pools, n < Len(Members(q)), q.answer = None,
           q.calls <= n, q.outcome \in {None, "retry"}
    PROVE  LocalInv(Attempt(q, n))
<1>. DEFINE p == Attempt(q, n)
<1>1. p \in RequestRecord
  BY DEF Attempt, RequestRecord, Places
<1>2. /\ p.at = "candidates" /\ p.alias = q.alias /\ p.attempt = n
      /\ p.seen = 0 /\ p.answer = None /\ p.calls = q.calls
      /\ p.outcome = q.outcome
  BY DEF Attempt, RequestRecord
<1>3. Members(p) = Members(q) /\ Len(Members(q)) \in Nat
  BY <1>2, RouterAssumption DEF Members
<1>4. QED
  BY <1>1, <1>2, <1>3
     DEF LocalInv, Looks, OnUpstream, Trying, Failing, Answering

\* What the caller of Dispatch sees of q: the request goes on, or it returns
\* "ok" exactly when its last call did.
GoesOn(q, p) ==
    /\ p.at # "idle"
    /\ p.alias = q.alias /\ p.calls = q.calls
    /\ p.outcome = q.outcome /\ p.answer = q.answer
Returns(q, p) == p = Answered(IF q.outcome = "ok" THEN "ok" ELSE "error")

\* continue keeps the request consistent: another attempt, or the error.
LEMMA RetryLocal ==
    ASSUME NEW q, LocalInv(q), q.at \in {"refused", "breaker_fail"},
           q.outcome \in {None, "retry"}
    PROVE  LocalInv(Retry(q)) /\ (GoesOn(q, Retry(q)) \/ Returns(q, Retry(q)))
<1>. DEFINE n == q.attempt + 1
<1>1. /\ q \in RequestRecord /\ q.alias \in DOMAIN Pools /\ q.answer = None
      /\ q.attempt \in Nat /\ q.calls <= n
  BY DEF LocalInv, RequestRecord, Trying, Failing, Answering
<1>2. CASE n < Len(Members(q))
  <2>1. Retry(q) = Attempt(q, n)
    BY <1>2 DEF Retry
  <2>2. LocalInv(Attempt(q, n))
    BY <1>1, <1>2, AttemptLocal
  <2>3. GoesOn(q, Attempt(q, n))
    BY <1>1 DEF GoesOn, Attempt, RequestRecord
  <2>4. QED
    BY <2>1, <2>2, <2>3
<1>3. CASE ~(n < Len(Members(q)))
  <2>1. Retry(q) = Answered("error")
    BY <1>3 DEF Retry
  <2>2. QED
    BY <2>1, AnsweredLocal, RouterAssumption DEF Returns
<1>4. QED
  BY <1>2, <1>3

\* One look at an upstream.
LEMMA LookedLocal ==
    ASSUME NEW q, LocalInv(q), q.at \in Looks, q.seen < Len(Members(q)),
           NEW usable \in BOOLEAN
    PROVE  LocalInv(Looked(q, usable)) /\ GoesOn(q, Looked(q, usable))
<1>. DEFINE p == Looked(q, usable)
<1>1. /\ q \in RequestRecord /\ q.at # "idle" /\ q.alias \in DOMAIN Pools
      /\ q.seen \in Nat
  BY DEF LocalInv, Looks, RequestRecord
<1>2. Members(q) \in Seq(Upstreams) /\ Len(Members(q)) \in Nat
  BY <1>1, MembersType
<1>3. Looking(q) \in Upstreams
  BY <1>1, <1>2 DEF Looking
<1>4. p \in RequestRecord
  <2>. DEFINE c == IF usable THEN q.cand \union {Looking(q)} ELSE q.cand
              n == q.seen + 1
  <2>1. c \in SUBSET Upstreams /\ n \in Nat
    BY <1>1, <1>3 DEF RequestRecord
  <2>2. p = [q EXCEPT !.seen = n, !.cand = c]
    BY DEF Looked
  <2>. HIDE DEF c, n
  <2>3. QED
    BY <1>1, <2>1, <2>2 DEF RequestRecord
<1>5. /\ p.at = q.at /\ p.alias = q.alias /\ p.attempt = q.attempt
      /\ p.seen = q.seen + 1 /\ p.answer = q.answer /\ p.calls = q.calls
      /\ p.outcome = q.outcome /\ p.upstream = q.upstream
  BY <1>1 DEF Looked, RequestRecord
<1>6. Members(p) = Members(q)
  BY <1>5 DEF Members
<1>7. QED
  BY <1>1, <1>2, <1>4, <1>5, <1>6
     DEF LocalInv, GoesOn, Looks, OnUpstream, Trying, Failing, Answering

\* Moving on to a later place of the same attempt.
LEMMA MoveLocal ==
    ASSUME NEW q, LocalInv(q), NEW place,
           \/ q.at = "health_ok" /\ place = "breaker_ok"
           \/ q.at = "health_fail" /\ place = "cool"
           \/ q.at = "cool" /\ place = "breaker_fail"
           \/ q.at = "allow" /\ place \in {"calling", "refused"}
    PROVE  /\ LocalInv([q EXCEPT !.at = place])
           /\ GoesOn(q, [q EXCEPT !.at = place])
<1>. DEFINE p == [q EXCEPT !.at = place]
<1>1. q \in RequestRecord /\ q.at # "idle" /\ place # "idle"
  BY DEF LocalInv
<1>2. p \in RequestRecord
  BY <1>1 DEF RequestRecord, Places, HealthWrites, BreakerWrites
<1>3. /\ p.at = place /\ p.alias = q.alias /\ p.attempt = q.attempt
      /\ p.answer = q.answer /\ p.calls = q.calls
      /\ p.outcome = q.outcome /\ p.upstream = q.upstream
  BY <1>1 DEF RequestRecord
<1>4. Members(p) = Members(q)
  BY <1>3 DEF Members
<1>5. QED
  BY <1>1, <1>2, <1>3, <1>4
     DEF LocalInv, GoesOn, Looks, OnUpstream, Trying, Failing, Answering

\* A request that has written Health or Breaker.
Writes(q) ==
    \/ q.at \in HealthWrites \union BreakerWrites \union {"allow"}
    \/ q.at = "recovery" /\ q.seen < Len(Members(q))

LEMMA AfterWriteLocal ==
    ASSUME NEW q, LocalInv(q), Writes(q)
    PROVE  /\ LocalInv(AfterWrite(q))
           /\ GoesOn(q, AfterWrite(q)) \/ Returns(q, AfterWrite(q))
           /\ AfterWrite(q).at = "cool" <=> q.at = "health_fail"
           /\ q.at = "health_fail" => AfterWrite(q).upstream = q.upstream
<1>1. CASE q.at \in {"health_ok", "health_fail", "cool", "allow"}
  <2>. DEFINE place == CASE q.at = "health_ok" -> "breaker_ok"
                         [] q.at = "health_fail" -> "cool"
                         [] q.at = "cool" -> "breaker_fail"
                         [] q.at = "allow" -> "calling"
  <2>1. AfterWrite(q) = [q EXCEPT !.at = place]
    BY <1>1 DEF AfterWrite
  <2>2. /\ LocalInv([q EXCEPT !.at = place])
        /\ GoesOn(q, [q EXCEPT !.at = place])
    BY <1>1, MoveLocal
  <2>3. /\ [q EXCEPT !.at = place].at = place
        /\ [q EXCEPT !.at = place].upstream = q.upstream
    BY DEF LocalInv, RequestRecord
  <2>4. QED
    BY <1>1, <2>1, <2>2, <2>3
<1>2. CASE \/ q.at = "refused"
           \/ q.at = "breaker_fail" /\ q.outcome # "fatal"
  <2>1. AfterWrite(q) = Retry(q)
    BY <1>2 DEF AfterWrite
  <2>2. q.outcome \in {None, "retry"}
    BY <1>2 DEF LocalInv, Trying, Failing
  <2>3. LocalInv(Retry(q)) /\ (GoesOn(q, Retry(q)) \/ Returns(q, Retry(q)))
    BY <1>2, <2>2, RetryLocal
  <2>4. Retry(q).at # "cool"
    BY DEF Retry, Attempt, Answered, LocalInv, RequestRecord
  <2>5. QED
    BY <1>2, <2>1, <2>3, <2>4
<1>3. CASE q.at = "breaker_fail" /\ q.outcome = "fatal"
  <2>1. AfterWrite(q) = Answered("error")
    BY <1>3 DEF AfterWrite
  <2>2. QED
    BY <1>3, <2>1, AnsweredLocal DEF Returns
<1>4. CASE q.at = "breaker_ok"
  <2>1. AfterWrite(q) = Answered("ok")
    BY <1>4 DEF AfterWrite
  <2>2. q.outcome = "ok"
    BY <1>4 DEF LocalInv, Answering
  <2>3. QED
    BY <1>4, <2>1, <2>2, AnsweredLocal DEF Returns
<1>5. CASE q.at = "recovery"
  <2>1. AfterWrite(q) = Looked(q, TRUE)
    BY <1>5 DEF AfterWrite
  <2>2. q.seen < Len(Members(q))
    BY <1>5 DEF Writes, HealthWrites, BreakerWrites
  <2>3. LocalInv(Looked(q, TRUE)) /\ GoesOn(q, Looked(q, TRUE))
    BY <1>5, <2>2, LookedLocal DEF Looks
  <2>4. Looked(q, TRUE).at = "recovery"
    BY <1>5 DEF Looked, LocalInv, RequestRecord
  <2>5. QED
    BY <1>5, <2>1, <2>3, <2>4
<1>6. q.at \in {"health_ok", "health_fail", "cool", "allow", "refused",
               "breaker_ok", "breaker_fail", "recovery"}
  BY DEF Writes, HealthWrites, BreakerWrites
<1>7. QED
  BY <1>1, <1>2, <1>3, <1>4, <1>5, <1>6
-----------------------------------------------------------------------------
(* The steps of the shared records.                                        *)

\* Each method leaves a record of its type.
LEMMA HealthWriteType ==
    ASSUME NEW place, NEW h \in HealthRecord
    PROVE  /\ HealthWrite(place, h) \in HealthRecord
           /\ place \in HealthWrites /\ place # "health_fail" =>
                HealthWrite(place, h).state \in {"healthy", "cooling_off"}
<1>1. h.state \in HealthStates /\ h.errors \in 0 .. SickAfter
  BY DEF HealthRecord
<1>2. HealthSuccess(h) \in HealthRecord /\ HealthSuccess(h).state = "healthy"
  BY RouterAssumption DEF HealthSuccess, HealthRecord, HealthStates
<1>3. HealthFailure(h) \in HealthRecord
  <2>1. UpTo(SickAfter, h.errors + 1) \in 0 .. SickAfter
    BY <1>1, RouterAssumption DEF UpTo
  <2>2. QED
    BY <2>1 DEF HealthFailure, HealthRecord, HealthStates
<1>4. HealthCooldown(h) \in HealthRecord /\ HealthCooldown(h).state = "cooling_off"
  BY DEF HealthCooldown, HealthRecord, HealthStates
<1>5. QED
  BY <1>2, <1>3, <1>4 DEF HealthWrite, HealthWrites

LEMMA BreakerHalfOpenType ==
    ASSUME NEW b \in BreakerRecord
    PROVE  BreakerHalfOpen(b) \in BreakerRecord
BY DEF BreakerHalfOpen, BreakerRecord, BreakerStates

LEMMA BreakerWriteType ==
    ASSUME NEW place, NEW b \in BreakerRecord
    PROVE  BreakerWrite(place, b) \in BreakerRecord
<1>1. BreakerSuccess(b) \in BreakerRecord
  BY RouterAssumption DEF BreakerSuccess, BreakerRecord, BreakerStates
<1>2. BreakerFailure(b) \in BreakerRecord
  <2>. DEFINE n == UpTo(Threshold, b.failures + 1)
  <2>1. n \in 0 .. Threshold
    BY RouterAssumption DEF UpTo, BreakerRecord
  <2>. HIDE DEF n
  <2>2. /\ [state |-> "open", failures |-> n, expired |-> FALSE] \in BreakerRecord
        /\ [b EXCEPT !.failures = n] \in BreakerRecord
    BY <2>1 DEF BreakerRecord, BreakerStates
  <2>3. QED
    BY <2>2 DEF BreakerFailure, n
<1>3. QED
  BY <1>1, <1>2, BreakerHalfOpenType DEF BreakerWrite
-----------------------------------------------------------------------------
(* The actions, as steps of the locals: all but Arrive and ChatReturns are *)
(* quiet, their caller sees at most that a call returns.                   *)

Quiet ==
    \A s \in Requests :
        \/ req'[s] = req[s]
        \/ /\ req[s].at # "idle"
           /\ GoesOn(req[s], req'[s]) \/ Returns(req[s], req'[s])

LEMMA MoveOne ==
    ASSUME LocalsInv, NEW r \in Requests, req[r].at # "idle",
           NEW p, LocalInv(p), GoesOn(req[r], p) \/ Returns(req[r], p),
           req' = [req EXCEPT ![r] = p]
    PROVE  LocalsInv' /\ Quiet
<1>1. p \in RequestRecord
  BY DEF LocalInv
<1>2. req' \in [Requests -> RequestRecord]
  BY <1>1 DEF LocalsInv
<1>3. \A s \in Requests : req'[s] = IF s = r THEN p ELSE req[s]
  BY DEF LocalsInv
<1>4. \A s \in Requests : LocalInv(req'[s])
  BY <1>3 DEF LocalsInv
<1>5. Quiet
  BY <1>3 DEF Quiet
<1>6. QED
  BY <1>2, <1>4, <1>5 DEF LocalsInv

LEMMA MoveTwo ==
    ASSUME LocalsInv, NEW r \in Requests, NEW s \in Requests, r # s,
           Writes(req[r]), Writes(req[s]),
           req' = [req EXCEPT ![r] = AfterWrite(@), ![s] = AfterWrite(@)]
    PROVE  LocalsInv' /\ Quiet
<1>1. LocalInv(req[r]) /\ LocalInv(req[s])
  BY DEF LocalsInv
<1>2. req[r].at # "idle" /\ req[s].at # "idle"
  BY DEF Writes, HealthWrites, BreakerWrites
<1>3. \A t \in Requests :
        req'[t] = IF t \in {r, s} THEN AfterWrite(req[t]) ELSE req[t]
  BY DEF LocalsInv
<1>4. \A t \in {r, s} :
        /\ LocalInv(AfterWrite(req[t]))
        /\ GoesOn(req[t], AfterWrite(req[t])) \/ Returns(req[t], AfterWrite(req[t]))
  BY <1>1, AfterWriteLocal
<1>5. \A t \in Requests : LocalInv(req'[t])
  BY <1>3, <1>4 DEF LocalsInv
<1>6. req' \in [Requests -> RequestRecord]
  <2>1. AfterWrite(req[r]) \in RequestRecord /\ AfterWrite(req[s]) \in RequestRecord
    BY <1>4 DEF LocalInv
  <2>2. QED
    BY <2>1 DEF LocalsInv
<1>7. Quiet
  BY <1>2, <1>3, <1>4 DEF Quiet
<1>8. QED
  BY <1>5, <1>6, <1>7 DEF LocalsInv

LEMMA ArriveLocals ==
    ASSUME LocalsInv, NEW r \in Requests,
           NEW alias \in DOMAIN Pools \union {Unknown}, Arrive(r, alias)
    PROVE  LocalsInv'
<1>. DEFINE q == [Answered(None) EXCEPT !.alias = alias]
            p == IF alias \in DOMAIN Pools /\ Pools[alias].members # <<>>
                 THEN Attempt(q, 0) ELSE Answered("error")
<1>1. req' = [req EXCEPT ![r] = p]
  BY DEF Arrive
<1>2. LocalInv(p)
  <2>1. CASE alias \in DOMAIN Pools /\ Pools[alias].members # <<>>
    <3>1. Answered(None) \in RequestRecord
      BY AnsweredLocal DEF LocalInv
    <3>2. /\ q \in RequestRecord /\ q.alias = alias /\ q.answer = None
          /\ q.calls = 0 /\ q.outcome = None
      BY <2>1, <3>1 DEF RequestRecord, Answered
    <3>3. Members(q) = Pools[alias].members /\ Members(q) \in Seq(Upstreams)
      BY <2>1, <3>2, RouterAssumption DEF Members
    <3>4. 0 < Len(Members(q))
      BY <2>1, <3>3
    <3>. HIDE DEF q
    <3>5. LocalInv(Attempt(q, 0))
      BY <2>1, <3>2, <3>4, AttemptLocal
    <3>6. QED
      BY <2>1, <3>5 DEF q
  <2>2. CASE ~(alias \in DOMAIN Pools /\ Pools[alias].members # <<>>)
    BY <2>2, AnsweredLocal
  <2>3. QED
    BY <2>1, <2>2
<1>. HIDE DEF p
<1>3. p \in RequestRecord
  BY <1>2 DEF LocalInv
<1>4. req' \in [Requests -> RequestRecord]
  BY <1>1, <1>3 DEF LocalsInv
<1>5. \A s \in Requests : LocalInv(req'[s])
  BY <1>1, <1>2 DEF LocalsInv
<1>6. QED
  BY <1>4, <1>5 DEF LocalsInv

LEMMA LookForCandidateLocals ==
    ASSUME LocalsInv, NEW r \in Requests, LookForCandidate(r)
    PROVE  LocalsInv' /\ Quiet
<1>1. PICK state \in HealthRead(r, Looking(req[r])) :
        req' = [req EXCEPT ![r] = Looked(@, Available(state))]
  BY DEF LookForCandidate
<1>. DEFINE usable == Available(state)
<1>2. usable \in BOOLEAN
  BY DEF Available
<1>3. /\ LocalInv(req[r]) /\ req[r].at \in Looks /\ req[r].at # "idle"
      /\ req[r].seen < Len(Members(req[r]))
  BY DEF LookForCandidate, LocalsInv, Looks
<1>. HIDE DEF usable
<1>4. LocalInv(Looked(req[r], usable)) /\ GoesOn(req[r], Looked(req[r], usable))
  BY <1>2, <1>3, LookedLocal
<1>5. req' = [req EXCEPT ![r] = Looked(req[r], usable)]
  BY <1>1 DEF usable
<1>6. QED
  BY <1>3, <1>4, <1>5, MoveOne

LEMMA LookForRecoveryLocals ==
    ASSUME LocalsInv, NEW r \in Requests, LookForRecovery(r)
    PROVE  LocalsInv' /\ Quiet
<1>1. PICK usable \in BOOLEAN : req' = [req EXCEPT ![r] = Looked(req[r], usable)]
  BY DEF LookForRecovery
<1>2. /\ LocalInv(req[r]) /\ req[r].at \in Looks /\ req[r].at # "idle"
      /\ req[r].seen < Len(Members(req[r]))
  BY DEF LookForRecovery, LocalsInv, Looks
<1>3. LocalInv(Looked(req[r], usable)) /\ GoesOn(req[r], Looked(req[r], usable))
  BY <1>2, LookedLocal
<1>4. QED
  BY <1>1, <1>2, <1>3, MoveOne

\* Every strategy returns one of the candidates it was given.
LEMMA PicksCandidates ==
    ASSUME NEW a, NEW cand
    PROVE  Picks(a, cand) \subseteq cand
<1>1. First(a, cand) \subseteq cand
  BY DEF First
<1>2. First(a, BestPriority(a, cand)) \subseteq cand
  BY DEF First, BestPriority
<1>3. QED
  BY <1>1, <1>2 DEF Picks

LEMMA SelectLocals ==
    ASSUME LocalsInv, NEW r \in Requests, Select(r)
    PROVE  LocalsInv' /\ Quiet
<1>. DEFINE q == req[r]
<1>1. PICK u \in Picks(q.alias, q.cand) :
        req' = [req EXCEPT ![r].at = "allow", ![r].upstream = u,
                           ![r].seen = 0, ![r].cand = {}]
  BY DEF Select
<1>2. LocalInv(q) /\ q \in RequestRecord /\ q.at \in Looks /\ q.at # "idle"
  BY DEF Select, LocalsInv, LocalInv, Looks
<1>3. u \in Upstreams
  BY <1>2, PicksCandidates DEF RequestRecord
<1>. DEFINE p == [q EXCEPT !.at = "allow", !.upstream = u, !.seen = 0, !.cand = {}]
<1>4. req' = [req EXCEPT ![r] = p]
  BY <1>1 DEF LocalsInv
<1>5. p \in RequestRecord
  BY <1>2, <1>3 DEF RequestRecord, Places
<1>6. /\ p.at = "allow" /\ p.alias = q.alias /\ p.attempt = q.attempt
      /\ p.answer = q.answer /\ p.calls = q.calls
      /\ p.outcome = q.outcome /\ p.upstream = u
  BY <1>2 DEF RequestRecord
<1>7. Members(p) = Members(q)
  BY <1>6 DEF Members
<1>8. LocalInv(p) /\ GoesOn(q, p)
  BY <1>2, <1>3, <1>5, <1>6, <1>7
     DEF LocalInv, GoesOn, Looks, OnUpstream, Trying, Failing, Answering
<1>. HIDE DEF p
<1>9. QED
  BY <1>2, <1>4, <1>8, MoveOne

LEMMA SelectNoneLocals ==
    ASSUME LocalsInv, NEW r \in Requests, SelectNone(r)
    PROVE  LocalsInv' /\ Quiet
<1>. DEFINE q == req[r]
<1>1. LocalInv(q) /\ q \in RequestRecord /\ q.at \in Looks /\ q.at # "idle"
  BY DEF SelectNone, LocalsInv, LocalInv, Looks
<1>2. CASE q.at = "candidates"
  <2>. DEFINE p == [q EXCEPT !.at = "recovery", !.seen = 0]
  <2>1. req' = [req EXCEPT ![r] = p]
    BY <1>2 DEF SelectNone
  <2>2. p \in RequestRecord
    BY <1>1 DEF RequestRecord, Places
  <2>3. /\ p.at = "recovery" /\ p.alias = q.alias /\ p.attempt = q.attempt
        /\ p.seen = 0 /\ p.answer = q.answer /\ p.calls = q.calls
        /\ p.outcome = q.outcome
    BY <1>1 DEF RequestRecord
  <2>4. Members(p) = Members(q) /\ Len(Members(q)) \in Nat
    BY <1>1, <2>3, MembersType DEF Members
  <2>5. LocalInv(p) /\ GoesOn(q, p)
    BY <1>1, <1>2, <2>2, <2>3, <2>4
       DEF LocalInv, GoesOn, Looks, OnUpstream, Trying, Failing, Answering
  <2>. HIDE DEF p
  <2>6. QED
    BY <1>1, <2>1, <2>5, MoveOne
<1>3. CASE q.at = "recovery"
  <2>1. req' = [req EXCEPT ![r] = Answered("error")]
    BY <1>3 DEF SelectNone
  <2>2. LocalInv(Answered("error"))
    BY AnsweredLocal
  <2>3. q.outcome # "ok"
    BY <1>3, RouterAssumption DEF LocalsInv, LocalInv, Trying
  <2>4. Returns(q, Answered("error"))
    BY <2>3 DEF Returns
  <2>5. QED
    BY <1>1, <2>1, <2>2, <2>4, MoveOne
<1>4. QED
  BY <1>1, <1>2, <1>3 DEF Looks

LEMMA AllowLocals ==
    ASSUME LocalsInv, NEW r \in Requests, Allow(r)
    PROVE  LocalsInv' /\ Quiet
<1>1. PICK place \in {"calling", "refused"} :
        req' = [req EXCEPT ![r] = [req[r] EXCEPT !.at = place]]
  BY DEF Allow
<1>2. LocalInv(req[r]) /\ req[r].at = "allow"
  BY DEF Allow, LocalsInv
<1>. DEFINE p == [req[r] EXCEPT !.at = place]
<1>3. LocalInv(p) /\ GoesOn(req[r], p)
  BY <1>2, MoveLocal
<1>. HIDE DEF p
<1>4. QED
  BY <1>1, <1>2, <1>3, MoveOne DEF p

\* A provider call has ended: the one step in which calls and outcome change.
Called(q, p, outcome) ==
    /\ p.at \in {"health_ok", "health_fail"}
    /\ p.alias = q.alias /\ p.answer = q.answer
    /\ p.calls = q.calls + 1 /\ p.outcome = outcome

LEMMA ChatReturnsLocals ==
    ASSUME LocalsInv, NEW r \in Requests, NEW outcome \in {"ok", "retry", "fatal"},
           ChatReturns(r, outcome)
    PROVE  /\ LocalsInv'
           /\ \A s \in Requests \ {r} : req'[s] = req[s]
           /\ Called(req[r], req'[r], outcome)
<1>. DEFINE q == req[r]
            place == IF outcome = "ok" THEN "health_ok" ELSE "health_fail"
            n == q.calls + 1
            p == [q EXCEPT !.at = place, !.outcome = outcome, !.calls = n]
<1>1. LocalInv(q) /\ q \in RequestRecord /\ q.at = "calling"
  BY DEF ChatReturns, LocalsInv, LocalInv
<1>2. req' = [req EXCEPT ![r] = p]
  BY DEF ChatReturns, LocalsInv
<1>3. n \in Nat /\ place \in {"health_ok", "health_fail"}
  BY <1>1 DEF RequestRecord
<1>4. (place = "health_ok") <=> (outcome = "ok")
  OBVIOUS
<1>5. n = q.calls + 1
  OBVIOUS
<1>. HIDE DEF n, place
<1>6. p \in RequestRecord
  BY <1>1, <1>3 DEF RequestRecord, Places, HealthWrites
<1>7. /\ p.at = place /\ p.alias = q.alias /\ p.attempt = q.attempt
      /\ p.answer = q.answer /\ p.calls = n /\ p.outcome = outcome
      /\ p.upstream = q.upstream
  BY <1>1 DEF RequestRecord
<1>8. Members(p) = Members(q)
  BY <1>7 DEF Members
<1>9. LocalInv(p)
  <2>1. /\ q.calls \in Nat /\ q.attempt \in Nat /\ q.calls <= q.attempt
        /\ q.alias \in DOMAIN Pools /\ q.attempt < Len(Members(q))
        /\ q.answer = None /\ q.upstream \in Upstreams
    BY <1>1 DEF LocalInv, RequestRecord, Trying, OnUpstream, Looks
  <2>2. p.at \notin Trying /\ p.at \notin Looks /\ p.at # "idle"
    BY <1>3, <1>7 DEF Trying, Looks
  <2>3. /\ p.at \in Failing => p.outcome \in {"retry", "fatal"}
        /\ p.at \in Answering => p.outcome = "ok"
    BY <1>3, <1>4, <1>7 DEF Failing, Answering
  <2>4. p.calls <= p.attempt + 1
    BY <2>1, <1>5, <1>7
  <2>. HIDE DEF p
  <2>5. QED
    BY <1>6, <1>7, <1>8, <2>1, <2>2, <2>3, <2>4 DEF LocalInv
<1>10. Called(q, p, outcome)
  BY <1>3, <1>5, <1>7 DEF Called
<1>. HIDE DEF p
<1>11. \A s \in Requests : req'[s] = IF s = r THEN p ELSE req[s]
  BY <1>2 DEF LocalsInv
<1>12. req' \in [Requests -> RequestRecord]
  BY <1>2, <1>6 DEF LocalsInv
<1>13. \A s \in Requests : LocalInv(req'[s])
  BY <1>9, <1>11 DEF LocalsInv
<1>14. QED
  BY <1>10, <1>11, <1>12, <1>13 DEF LocalsInv

LEMMA UpdateLocals ==
    ASSUME LocalsInv, NEW r \in Requests, UpdateHealth(r) \/ UpdateBreaker(r)
    PROVE  LocalsInv' /\ Quiet
<1>1. /\ LocalInv(req[r]) /\ Writes(req[r]) /\ req[r].at # "idle"
      /\ req' = [req EXCEPT ![r] = AfterWrite(req[r])]
  BY DEF UpdateHealth, UpdateBreaker, LocalsInv, Writes, HealthWrites, BreakerWrites
<1>2. /\ LocalInv(AfterWrite(req[r]))
      /\ GoesOn(req[r], AfterWrite(req[r])) \/ Returns(req[r], AfterWrite(req[r]))
  BY <1>1, AfterWriteLocal
<1>3. QED
  BY <1>1, <1>2, MoveOne

LEMMA RaceLocals ==
    ASSUME LocalsInv, NEW r \in Requests, NEW s \in Requests,
           RaceOnHealth(r, s) \/ RaceOnBreaker(r, s)
    PROVE  LocalsInv' /\ Quiet
<1>1. r # s /\ req' = [req EXCEPT ![r] = AfterWrite(@), ![s] = AfterWrite(@)]
  BY DEF RaceOnHealth, RaceOnBreaker
<1>2. Writes(req[r]) /\ Writes(req[s])
  BY DEF RaceOnHealth, RaceOnBreaker, WritesBreaker, HalfOpens, LooksAt, Writes
<1>3. QED
  BY <1>1, <1>2, MoveTwo
-----------------------------------------------------------------------------
(* The actions, as steps of the shared records.                            *)


LEMMA SetHealth ==
    ASSUME SharedInv, NEW u, NEW h, u \in Upstreams => h \in HealthRecord,
           health' = [health EXCEPT ![u] = h], UNCHANGED breaker
    PROVE  SharedInv'
BY DEF SharedInv

LEMMA SetBreaker ==
    ASSUME SharedInv, NEW u, NEW b, u \in Upstreams => b \in BreakerRecord,
           breaker' = [breaker EXCEPT ![u] = b], UNCHANGED health
    PROVE  SharedInv'
BY DEF SharedInv

\* Allow() leaves the breaker alone or half opens it.
LEMMA MaybeHalfOpenShared ==
    ASSUME SharedInv, NEW u, UNCHANGED health,
           \/ breaker' = breaker
           \/ breaker' = [breaker EXCEPT ![u] = BreakerHalfOpen(@)]
    PROVE  SharedInv'
<1>1. u \in Upstreams => BreakerHalfOpen(breaker[u]) \in BreakerRecord
  BY BreakerHalfOpenType DEF SharedInv
<1>2. CASE breaker' = [breaker EXCEPT ![u] = BreakerHalfOpen(@)]
  <2>1. breaker' = [breaker EXCEPT ![u] = BreakerHalfOpen(breaker[u])]
    BY <1>2
  <2>2. QED
    BY <1>1, <2>1, SetBreaker
<1>3. CASE breaker' = breaker
  BY <1>3 DEF SharedInv
<1>4. QED
  BY <1>2, <1>3

\* A race leaves nothing but a torn state and what one of the two leaves.
LEMMA MixedBounds ==
    ASSUME NEW now, NEW alone, NEW ordered, NEW torn, NEW p, NEW q
    PROVE  /\ MixedStates(now, alone, ordered, torn)
                \subseteq {x.state : x \in alone \union ordered} \union {torn}
           /\ MixedCounts(p, q, alone, ordered) \subseteq alone \union ordered
BY DEF MixedStates, MixedCounts

LEMMA RaceOnHealthShared ==
    ASSUME SharedInv, LocalsInv, NEW r \in Requests, NEW s \in Requests,
           RaceOnHealth(r, s)
    PROVE  /\ SharedInv'
           /\ \A v \in Upstreams \ {req[r].upstream} : health'[v] = health[v]
           /\ (req[r].at # "health_fail" /\ req[s].at # "health_fail") =>
                 health'[req[r].upstream].state \in {"healthy", "cooling_off", Torn}
<1>. DEFINE u == req[r].upstream
            W(h) == HealthWrite(req[r].at, h)
            V(h) == HealthWrite(req[s].at, h)
            alone == {W(health[u]), V(health[u])}
            ordered == {W(V(health[u])), V(W(health[u]))}
<1>1. PICK state \in MixedStates(health[u], alone, ordered, Torn),
           x \in MixedCounts(req[r].at, req[s].at, alone, ordered) :
        health' = [health EXCEPT ![u] = [state |-> state, errors |-> x.errors]]
  BY DEF RaceOnHealth
<1>2. /\ req[r].at \in HealthWrites /\ req[s].at \in HealthWrites
      /\ u \in Upstreams /\ UNCHANGED breaker
  BY DEF RaceOnHealth, LocalsInv, LocalInv, HealthWrites, OnUpstream, Trying,
         Looks, Failing, Answering
<1>3. health[u] \in HealthRecord
  BY <1>2 DEF SharedInv
<1>4. /\ W(health[u]) \in HealthRecord /\ V(health[u]) \in HealthRecord
      /\ W(V(health[u])) \in HealthRecord /\ V(W(health[u])) \in HealthRecord
  BY <1>3, HealthWriteType
<1>5. state \in {y.state : y \in alone \union ordered} \union {Torn}
      /\ x \in alone \union ordered
  BY <1>1, MixedBounds
<1>6. [state |-> state, errors |-> x.errors] \in HealthRecord
  <2>1. x \in HealthRecord
    BY <1>4, <1>5
  <2>2. state \in HealthStates
    BY <1>4, <1>5 DEF HealthRecord, HealthStates
  <2>3. QED
    BY <2>1, <2>2 DEF HealthRecord
<1>7. SharedInv'
  BY <1>1, <1>2, <1>6, SetHealth
<1>8. \A v \in Upstreams \ {u} : health'[v] = health[v]
  BY <1>1 DEF SharedInv
<1>9. ASSUME req[r].at # "health_fail", req[s].at # "health_fail"
      PROVE  health'[u].state \in {"healthy", "cooling_off", Torn}
  <2>1. \A y \in alone \union ordered : y.state \in {"healthy", "cooling_off"}
    BY <1>2, <1>3, <1>4, <1>9, HealthWriteType
  <2>. HIDE DEF alone, ordered
  <2>2. state \in {"healthy", "cooling_off", Torn}
    BY <1>5, <2>1
  <2>3. health'[u] = [state |-> state, errors |-> x.errors]
    BY <1>1, <1>2 DEF SharedInv
  <2>4. QED
    BY <2>2, <2>3
<1>10. QED
  BY <1>7, <1>8, <1>9

LEMMA RaceOnBreakerShared ==
    ASSUME SharedInv, NEW r \in Requests, NEW s \in Requests, RaceOnBreaker(r, s)
    PROVE  SharedInv'
<1>1. PICK u \in Upstreams :
        LET W(b) == BreakerWrite(req[r].at, b)
            V(b) == BreakerWrite(req[s].at, b)
            alone == {W(breaker[u]), V(breaker[u])}
            ordered == {W(V(breaker[u])), V(W(breaker[u]))}
        IN  \E state \in MixedStates(breaker[u], alone, ordered, "closed"),
               x \in MixedCounts(req[r].at, req[s].at, alone, ordered),
               y \in ordered :
              breaker' = [breaker EXCEPT ![u] =
                [state |-> state, failures |-> x.failures, expired |-> y.expired]]
  BY DEF RaceOnBreaker
<1>. DEFINE W(b) == BreakerWrite(req[r].at, b)
            V(b) == BreakerWrite(req[s].at, b)
            alone == {W(breaker[u]), V(breaker[u])}
            ordered == {W(V(breaker[u])), V(W(breaker[u]))}
<1>2. PICK state \in MixedStates(breaker[u], alone, ordered, "closed"),
           x \in MixedCounts(req[r].at, req[s].at, alone, ordered),
           y \in ordered :
        breaker' = [breaker EXCEPT ![u] =
            [state |-> state, failures |-> x.failures, expired |-> y.expired]]
  BY <1>1
<1>3. \A b \in BreakerRecord : W(b) \in BreakerRecord /\ V(b) \in BreakerRecord
  BY BreakerWriteType
<1>4. /\ W(breaker[u]) \in BreakerRecord /\ V(breaker[u]) \in BreakerRecord
      /\ W(V(breaker[u])) \in BreakerRecord /\ V(W(breaker[u])) \in BreakerRecord
  BY <1>3 DEF SharedInv
<1>5. /\ state \in {z.state : z \in alone \union ordered} \union {"closed"}
      /\ x \in alone \union ordered
  BY <1>2, MixedBounds
<1>6. x \in BreakerRecord /\ y \in BreakerRecord
  BY <1>2, <1>4, <1>5
<1>7. state \in BreakerStates
  BY <1>4, <1>5 DEF BreakerRecord, BreakerStates
<1>8. [state |-> state, failures |-> x.failures, expired |-> y.expired] \in BreakerRecord
  BY <1>6, <1>7 DEF BreakerRecord
<1>9. UNCHANGED health
  BY DEF RaceOnBreaker
<1>10. QED
  BY <1>2, <1>8, <1>9, SetBreaker

LEMMA NextShared ==
    ASSUME SharedInv, LocalsInv, Next
    PROVE  SharedInv'
<1>1. ASSUME NEW r \in Requests, NEW alias, Arrive(r, alias)
      PROVE  SharedInv'
  BY <1>1 DEF Arrive, SharedInv
<1>2. ASSUME NEW r \in Requests, Dispatching(r)
      PROVE  SharedInv'
  <2>1. CASE LookForRecovery(r)
    <3>1. UNCHANGED health
      BY <2>1 DEF LookForRecovery
    <3>2. \/ breaker' = breaker
          \/ breaker' = [breaker EXCEPT ![Looking(req[r])] = BreakerHalfOpen(@)]
      BY <2>1 DEF LookForRecovery
    <3>3. QED
      BY <3>1, <3>2, MaybeHalfOpenShared
  <2>2. CASE Allow(r)
    <3>1. /\ UNCHANGED health
          /\ \/ breaker' = breaker
             \/ breaker' = [breaker EXCEPT ![req[r].upstream] = BreakerHalfOpen(@)]
      BY <2>2 DEF Allow
    <3>2. QED
      BY <3>1, MaybeHalfOpenShared
  <2>3. CASE UpdateHealth(r)
    <3>. DEFINE u == req[r].upstream
                h == HealthWrite(req[r].at, health[u])
    <3>1. health' = [health EXCEPT ![u] = h] /\ UNCHANGED breaker
      BY <2>3 DEF UpdateHealth
    <3>2. u \in Upstreams => h \in HealthRecord
      BY HealthWriteType DEF SharedInv
    <3>. HIDE DEF h, u
    <3>3. QED
      BY <3>1, <3>2, SetHealth
  <2>4. CASE UpdateBreaker(r)
    <3>. DEFINE u == req[r].upstream
                b == BreakerWrite(req[r].at, breaker[u])
    <3>1. breaker' = [breaker EXCEPT ![u] = b] /\ UNCHANGED health
      BY <2>4 DEF UpdateBreaker
    <3>2. u \in Upstreams => b \in BreakerRecord
      BY BreakerWriteType DEF SharedInv
    <3>. HIDE DEF b, u
    <3>3. QED
      BY <3>1, <3>2, SetBreaker
  <2>5. CASE \/ LookForCandidate(r) \/ Select(r) \/ SelectNone(r)
             \/ \E outcome \in {"ok", "retry", "fatal"} : ChatReturns(r, outcome)
    BY <2>5 DEF LookForCandidate, Select, SelectNone, ChatReturns, SharedInv
  <2>6. QED
    BY <1>2, <2>1, <2>2, <2>3, <2>4, <2>5 DEF Dispatching
<1>3. ASSUME NEW r \in Requests, NEW s \in Requests,
             RaceOnHealth(r, s) \/ RaceOnBreaker(r, s)
      PROVE  SharedInv'
  BY <1>3, RaceOnHealthShared, RaceOnBreakerShared
<1>4. ASSUME NEW u \in Upstreams, Elapse(u)
      PROVE  SharedInv'
  BY <1>4 DEF Elapse, SharedInv, BreakerRecord
<1>5. QED
  BY <1>1, <1>2, <1>3, <1>4 DEF Next

LEMMA NextLocals ==
    ASSUME LocalsInv, Next
    PROVE  LocalsInv'
<1>1. ASSUME NEW u \in Upstreams, Elapse(u)
      PROVE  LocalsInv'
  BY <1>1 DEF Elapse, LocalsInv
<1>2. ASSUME NEW r \in Requests, Dispatching(r)
      PROVE  LocalsInv'
  BY <1>2, LookForCandidateLocals, LookForRecoveryLocals, SelectLocals,
     SelectNoneLocals, AllowLocals, ChatReturnsLocals, UpdateLocals
     DEF Dispatching
<1>3. QED
  BY <1>1, <1>2, ArriveLocals, RaceLocals DEF Next

\* A step that leaves health alone and moves no request out of "cool" keeps
\* every witness of NoUpstreamStranded.
LEMMA WitnessKept ==
    ASSUME NoUpstreamStranded, UNCHANGED health,
           \A s \in Requests : req[s].at = "cool" => req'[s] = req[s]
    PROVE  NoUpstreamStranded'
BY DEF NoUpstreamStranded

LEMMA UpdateHealthStranded ==
    ASSUME NoUpstreamStranded, SharedInv, LocalsInv, NEW r \in Requests,
           UpdateHealth(r)
    PROVE  NoUpstreamStranded'
<1>. DEFINE u == req[r].upstream
<1>1. /\ req[r].at \in HealthWrites /\ Writes(req[r]) /\ LocalInv(req[r])
      /\ u \in Upstreams
  BY DEF UpdateHealth, Writes, LocalsInv, LocalInv, HealthWrites, OnUpstream,
         Trying, Looks, Failing, Answering
<1>2. /\ health' = [health EXCEPT ![u] = HealthWrite(req[r].at, health[u])]
      /\ req' = [req EXCEPT ![r] = AfterWrite(req[r])]
  BY DEF UpdateHealth
<1>3. /\ health'[u] = HealthWrite(req[r].at, health[u])
      /\ \A v \in Upstreams \ {u} : health'[v] = health[v]
      /\ req'[r] = AfterWrite(req[r])
      /\ \A s \in Requests \ {r} : req'[s] = req[s]
  BY <1>1, <1>2 DEF SharedInv, LocalsInv
<1>4. CASE req[r].at = "health_fail"
  <2>1. req'[r].at = "cool" /\ req'[r].upstream = u
    BY <1>1, <1>3, <1>4, AfterWriteLocal
  <2>2. QED
    BY <1>3, <1>4, <2>1 DEF NoUpstreamStranded
<1>5. CASE req[r].at # "health_fail"
  <2>1. health'[u].state \in {"healthy", "cooling_off"}
    BY <1>1, <1>3, <1>5, HealthWriteType DEF SharedInv
  <2>2. QED
    BY <1>3, <2>1 DEF NoUpstreamStranded
<1>6. QED
  BY <1>4, <1>5

LEMMA RaceOnHealthStranded ==
    ASSUME NoUpstreamStranded, SharedInv, LocalsInv,
           NEW r \in Requests, NEW s \in Requests, RaceOnHealth(r, s)
    PROVE  NoUpstreamStranded'
<1>. DEFINE u == req[r].upstream
<1>1. /\ r # s /\ req[s].upstream = u
      /\ req[r].at \in HealthWrites /\ req[s].at \in HealthWrites
      /\ Writes(req[r]) /\ Writes(req[s])
      /\ LocalInv(req[r]) /\ LocalInv(req[s])
      /\ req' = [req EXCEPT ![r] = AfterWrite(@), ![s] = AfterWrite(@)]
  BY DEF RaceOnHealth, Writes, LocalsInv
<1>2. /\ req'[r] = AfterWrite(req[r]) /\ req'[s] = AfterWrite(req[s])
      /\ \A t \in Requests \ {r, s} : req'[t] = req[t]
  BY <1>1 DEF LocalsInv
<1>3. \A v \in Upstreams \ {u} : health'[v] = health[v]
  BY RaceOnHealthShared
<1>4. ASSUME health'[u].state \in {"degraded", "sick"}
      PROVE  \E t \in Requests : req'[t].at = "cool" /\ req'[t].upstream = u
  <2>1. CASE req[r].at = "health_fail" \/ req[s].at = "health_fail"
    BY <1>1, <1>2, <2>1, AfterWriteLocal
  <2>2. CASE req[r].at # "health_fail" /\ req[s].at # "health_fail"
    <3>1. health'[u].state \in {"healthy", "cooling_off", Torn}
      BY <2>2, RaceOnHealthShared
    <3>2. QED
      BY <1>4, <3>1 DEF Torn
  <2>3. QED
    BY <2>1, <2>2
<1>5. ASSUME NEW v \in Upstreams \ {u}, health'[v].state \in {"degraded", "sick"}
      PROVE  \E t \in Requests : req'[t].at = "cool" /\ req'[t].upstream = v
  <2>1. health[v].state \in {"degraded", "sick"}
    BY <1>3, <1>5
  <2>2. PICK t \in Requests : req[t].at = "cool" /\ req[t].upstream = v
    BY <2>1 DEF NoUpstreamStranded
  <2>3. t \notin {r, s}
    BY <1>1, <2>2
  <2>4. req'[t] = req[t]
    BY <1>2, <2>3
  <2>5. QED
    BY <2>2, <2>4
<1>. HIDE DEF u
<1>6. QED
  BY <1>4, <1>5 DEF NoUpstreamStranded

LEMMA NextStranded ==
    ASSUME NoUpstreamStranded, SharedInv, LocalsInv, Next
    PROVE  NoUpstreamStranded'
<1>1. ASSUME NEW r \in Requests, NEW alias \in DOMAIN Pools \union {Unknown},
             Arrive(r, alias)
      PROVE  NoUpstreamStranded'
  BY <1>1, WitnessKept DEF Arrive, LocalsInv
<1>2. ASSUME NEW r \in Requests, Dispatching(r), ~UpdateHealth(r)
      PROVE  NoUpstreamStranded'
  <2>1. UNCHANGED health /\ req[r].at # "cool"
    BY <1>2 DEF Dispatching, LookForCandidate, LookForRecovery, Select, SelectNone,
                Allow, ChatReturns, UpdateBreaker, BreakerWrites
  <2>2. \A s \in Requests \ {r} : req'[s] = req[s]
    BY <1>2 DEF Dispatching, LookForCandidate, LookForRecovery, Select, SelectNone,
                Allow, ChatReturns, UpdateBreaker, LocalsInv
  <2>3. QED
    BY <2>1, <2>2, WitnessKept
<1>3. ASSUME NEW r \in Requests, NEW s \in Requests, RaceOnBreaker(r, s)
      PROVE  NoUpstreamStranded'
  <2>1. /\ UNCHANGED health /\ req[r].at # "cool" /\ req[s].at # "cool"
        /\ req' = [req EXCEPT ![r] = AfterWrite(@), ![s] = AfterWrite(@)]
    BY <1>3 DEF RaceOnBreaker, WritesBreaker, HalfOpens, BreakerWrites
  <2>2. \A t \in Requests \ {r, s} : req'[t] = req[t]
    BY <2>1 DEF LocalsInv
  <2>3. QED
    BY <2>1, <2>2, WitnessKept
<1>4. ASSUME NEW u \in Upstreams, Elapse(u)
      PROVE  NoUpstreamStranded'
  BY <1>4, WitnessKept DEF Elapse
<1>5. QED
  BY <1>1, <1>2, <1>3, <1>4, UpdateHealthStranded, RaceOnHealthStranded
     DEF Next, Dispatching
-----------------------------------------------------------------------------
(* The theorems.                                                           *)

LEMMA InitInv == Init => IInv
<1>. SUFFICES ASSUME Init PROVE IInv
  OBVIOUS
<1>1. SharedInv
  BY RouterAssumption
     DEF Init, SharedInv, HealthRecord, HealthStates, BreakerRecord, BreakerStates
<1>2. LocalsInv
  <2>1. Answered(None) \in RequestRecord /\ LocalInv(Answered(None))
    BY AnsweredLocal DEF LocalInv
  <2>2. QED
    BY <2>1 DEF Init, LocalsInv
<1>3. NoUpstreamStranded
  BY DEF Init, NoUpstreamStranded
<1>4. QED
  BY <1>1, <1>2, <1>3 DEF IInv

LEMMA NextInv == IInv /\ [Next]_vars => IInv'
<1>1. CASE UNCHANGED vars
  BY <1>1 DEF vars, IInv, SharedInv, LocalsInv, NoUpstreamStranded
<1>2. CASE Next
  BY <1>2, NextShared, NextLocals, NextStranded DEF IInv
<1>3. QED
  BY <1>1, <1>2

LEMMA SafetyInv == SafetySpec => []IInv
BY InitInv, NextInv, PTL DEF SafetySpec

\* The records of the router and the locals of every request keep their types
\* for any number of requests, upstreams and pools.
THEOREM RouterTypeOK == SafetySpec => []TypeOK
<1>1. IInv => TypeOK
  BY DEF IInv, SharedInv, LocalsInv, TypeOK
<1>2. QED
  BY <1>1, SafetyInv, PTL

\* No interleaving of Dispatch calls, racing ones included, leaves an upstream
\* degraded or sick once every call that failed on it has cooled it off.
THEOREM RouterNoUpstreamStranded == SafetySpec => []NoUpstreamStranded
<1>1. IInv => NoUpstreamStranded
  BY DEF IInv
<1>2. QED
  BY <1>1, SafetyInv, PTL
-----------------------------------------------------------------------------
(* The refinement: every step of Router is one of Failover, or none.       *)

\* A quiet step returns from the calls that become idle, and from no other.
LEMMA QuietPromise ==
    ASSUME LocalsInv, Quiet
    PROVE  [Promise!Next]_Promise!vars
<1>0. PICK done \in SUBSET Requests :
        done = {s \in Requests : req[s].at # "idle" /\ req'[s].at = "idle"}
  OBVIOUS
<1>1. ASSUME NEW s \in Requests, s \notin done
      PROVE  /\ (req'[s].at # "idle") = (req[s].at # "idle")
             /\ Members(req'[s]) = Members(req[s])
             /\ req'[s].calls = req[s].calls /\ req'[s].outcome = req[s].outcome
             /\ req'[s].answer = req[s].answer
  <2>1. \/ req'[s] = req[s]
        \/ /\ req[s].at # "idle"
           /\ GoesOn(req[s], req'[s]) \/ Returns(req[s], req'[s])
    BY DEF Quiet
  <2>2. req[s].at # "idle" => ~Returns(req[s], req'[s])
    BY <1>0, <1>1 DEF Returns, Answered
  <2>3. QED
    BY <1>0, <1>1, <2>1, <2>2 DEF GoesOn, Members
<1>2. ASSUME NEW s \in done
      PROVE  /\ req'[s].calls = 0 /\ req'[s].outcome = None
             /\ req'[s].answer = IF req[s].outcome = "ok" THEN "ok" ELSE "error"
  <2>1. Returns(req[s], req'[s])
    BY <1>0, <1>2 DEF Quiet, GoesOn
  <2>2. QED
    BY <2>1 DEF Returns, Answered
<1>3. CASE done = {}
  BY <1>1, <1>3 DEF Promise!vars
<1>4. CASE done # {}
  <2>1. Promise!Finish(done)
    BY <1>0, <1>1, <1>2, <1>4 DEF Promise!Finish
  <2>2. QED
    BY <2>1 DEF Promise!Next
<1>5. QED
  BY <1>3, <1>4

LEMMA ArrivePromise ==
    ASSUME LocalsInv, NEW r \in Requests,
           NEW alias \in DOMAIN Pools \union {Unknown}, Arrive(r, alias)
    PROVE  Promise!Next
<1>. DEFINE q == [Answered(None) EXCEPT !.alias = alias]
<1>1. /\ req[r].at = "idle" /\ req[r] = Answered(req[r].answer)
      /\ \A s \in Requests \ {r} : req'[s] = req[s]
  BY DEF Arrive, LocalsInv, LocalInv
<1>2. req[r].calls = 0 /\ req[r].outcome = None
  BY <1>1 DEF Answered
<1>3. CASE alias \in DOMAIN Pools /\ Pools[alias].members # <<>>
  <2>1. req'[r] = Attempt(q, 0)
    BY <1>3 DEF Arrive, LocalsInv
  <2>2. /\ req'[r].at = "candidates" /\ req'[r].alias = alias
        /\ req'[r].calls = 0 /\ req'[r].outcome = None /\ req'[r].answer = None
    BY <2>1 DEF Attempt, Answered
  <2>3. Members(req'[r]) = Pools[alias].members
    BY <2>2 DEF Members
  <2>4. Promise!Begin(r, Len(Pools[alias].members))
    BY <1>1, <1>2, <2>2, <2>3 DEF Promise!Begin
  <2>5. QED
    BY <1>3, <2>4 DEF Promise!Next
<1>4. CASE ~(alias \in DOMAIN Pools /\ Pools[alias].members # <<>>)
  <2>1. req'[r] = Answered("error")
    BY <1>4 DEF Arrive, LocalsInv
  <2>2. /\ req'[r].at = "idle" /\ req'[r].calls = 0
        /\ req'[r].outcome = None /\ req'[r].answer = "error"
    BY <2>1 DEF Answered
  <2>3. Promise!Reject(r)
    BY <1>1, <1>2, <2>2 DEF Promise!Reject
  <2>4. QED
    BY <2>3 DEF Promise!Next
<1>5. QED
  BY <1>3, <1>4

LEMMA ChatReturnsPromise ==
    ASSUME LocalsInv, NEW r \in Requests, NEW outcome \in {"ok", "retry", "fatal"},
           ChatReturns(r, outcome)
    PROVE  Promise!Next
<1>1. /\ \A s \in Requests \ {r} : req'[s] = req[s]
      /\ Called(req[r], req'[r], outcome)
  BY ChatReturnsLocals
<1>2. LocalInv(req[r]) /\ req[r] \in RequestRecord /\ req[r].at = "calling"
  BY DEF ChatReturns, LocalsInv, LocalInv
<1>3. /\ req[r].calls < Len(Members(req[r]))
      /\ req[r].outcome \in {None, "retry"}
  <2>1. /\ req[r].calls <= req[r].attempt /\ req[r].attempt < Len(Members(req[r]))
        /\ req[r].outcome \in {None, "retry"}
    BY <1>2 DEF LocalInv, Trying
  <2>2. Len(Members(req[r])) \in Nat
    BY <1>2, MembersType
  <2>3. QED
    BY <1>2, <2>1, <2>2 DEF RequestRecord
<1>4. Members(req'[r]) = Members(req[r]) /\ req'[r].at # "idle"
  BY <1>1 DEF Called, Members
<1>5. Promise!Call(r, outcome)
  BY <1>1, <1>2, <1>3, <1>4 DEF Promise!Call, Called
<1>6. QED
  BY <1>5 DEF Promise!Next, Promise!CallOutcome

LEMMA NextPromise ==
    ASSUME LocalsInv, [Next]_vars
    PROVE  [Promise!Next]_Promise!vars
<1>1. CASE UNCHANGED vars
  BY <1>1, QuietPromise DEF vars, Quiet
<1>2. ASSUME NEW u \in Upstreams, Elapse(u)
      PROVE  Quiet
  BY <1>2 DEF Elapse, Quiet
<1>3. ASSUME NEW r \in Requests, Dispatching(r)
      PROVE  \/ Quiet
             \/ \E outcome \in {"ok", "retry", "fatal"} : ChatReturns(r, outcome)
  BY <1>3, LookForCandidateLocals, LookForRecoveryLocals, SelectLocals,
     SelectNoneLocals, AllowLocals, UpdateLocals DEF Dispatching
<1>4. CASE Next
  BY <1>2, <1>3, <1>4, QuietPromise, ArrivePromise, ChatReturnsPromise,
     RaceLocals DEF Next
<1>5. QED
  BY <1>1, <1>4

\* Router.Dispatch keeps the promise of Failover: a provider is never called
\* again after it answered or failed for good, nor more often than the pool
\* has upstreams, and the caller is told of success exactly when there was one.
THEOREM RouterKeepsPromise == SafetySpec => KeepsPromise
<1>1. Init => Promise!Init
  <2>1. Init => \A r \in Requests :
          /\ req[r].at = "idle" /\ req[r].calls = 0
          /\ req[r].outcome = None /\ req[r].answer = None
    BY DEF Init, Answered
  <2>2. QED
    BY <2>1 DEF Promise!Init
<1>2. IInv /\ [Next]_vars => [Promise!Next]_Promise!vars
  BY NextPromise DEF IInv
<1>3. QED
  BY <1>1, <1>2, SafetyInv, PTL DEF SafetySpec, KeepsPromise, Promise!Spec
=============================================================================
