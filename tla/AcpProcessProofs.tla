-------------------------- MODULE AcpProcessProofs --------------------------
(***************************************************************************)
(* TypeOK, TextIsTheRequests, RetryWaitsForTheFirst and                    *)
(* PoolForgetsOnlyTheDead for any number of requests, processes and        *)
(* faults.  The heart of the invariant is Outstanding: a call that was not *)
(* cut short is under way only where its request waits for it, with the    *)
(* answer last.  First says where the first prompt of a request may be     *)
(* under way otherwise.                                                    *)
(***************************************************************************)
EXTENDS AcpProcess, SequenceTheorems, TLAPS
-----------------------------------------------------------------------------
(* The invariant.                                                          *)

Types ==
    /\ pool \in Processes \union {None}
    /\ proc \in [Processes -> ProcessRecord]
    /\ req \in [Requests -> RequestRecord]
    /\ ended \subseteq Requests
    /\ started \in 0 .. MaxStarts /\ faults \in 0 .. MaxFaults
    /\ robbed \subseteq Processes /\ cut \subseteq Call /\ astray \subseteq Processes

\* A request that has a process has one that was started, and so has the pool.
Placed ==
    /\ pool \in (1 .. started) \union {None}
    /\ \A r \in Requests :
         req[r].at \notin {"none", "get", "start", "done"} => req[r].proc \in 1 .. started

\* Only a first try is dropped to be sent again.
FirstTry ==
    \A r \in Requests :
        IF req[r].at \in {"drop", "dropping"}
        THEN req[r].then = "retry" => req[r].try = 1
        ELSE req[r].then = "retry"

\* A process that was waited for is gone, and one that is gone works on nothing.
Down == \A p \in Processes : /\ proc[p].closed => ~proc[p].up
                             /\ ~proc[p].up => proc[p].work = {}

Held == \A r \in Requests : req[r].at = "recv" => proc[req[r].proc].callMu = r

\* A message of a call, and the request that waits for its answer.
Of(message, call) == message.kind # "noise" /\ message.call = call
Waits(p, call) ==
    req[call.by].at = "recv" /\ req[call.by].proc = p /\ call = CallOf(call.by)

\* A call that was not cut short is under way where its request waits for it.
OutstandingAt(p, call) ==
    /\ call \in proc[p].work =>
         /\ Waits(p, call)
         /\ \A i \in 1 .. Len(proc[p].out) : ~ Of(proc[p].out[i], call)
    /\ \A i \in 1 .. Len(proc[p].out) :
         Of(proc[p].out[i], call) =>
           /\ Waits(p, call)
           /\ proc[p].out[i].kind = "answer" =>
                \A j \in i + 1 .. Len(proc[p].out) : ~ Of(proc[p].out[j], call)
Outstanding == \A p \in Processes : \A call \in Call \ cut : OutstandingAt(p, call)

\* A call that was cut short is not sent again.
Past(call) ==
    LET r == call.by IN
    \/ req[r].at = "done" \/ call.try < req[r].try
    \/ call.try = req[r].try /\ req[r].at \in {"drop", "dropping"}
CutIsPast == \A call \in cut : Past(call)

\* The first prompt of r is under way on p: r waits for it, drops p for it, or has
\* dropped another process.
FirstAt(p, r) ==
    PromptOf(r, 1) \in proc[p].work =>
        \/ Waits(p, PromptOf(r, 1))
        \/ req[r].then = "retry" /\ req[r].at = "drop" /\ req[r].proc = p
        \/ req[r].then = "retry" /\ req[r].at = "dropping" /\ (req[r].proc = p \/ p \in astray)
        \/ req[r].try = 2 /\ p \in astray
First == \A r \in Requests \ ended : \A p \in Processes : FirstAt(p, r)

\* A request that takes a process has no text yet.
NoTextYet ==
    \A r \in Requests :
        (\/ req[r].at \in {"none", "get", "start"}
         \/ req[r].at \in {"drop", "dropping"} /\ req[r].then = "retry") => req[r].text = {}

IInv ==
    /\ Types /\ Placed /\ FirstTry /\ Down /\ Held /\ Outstanding /\ CutIsPast /\ First
    /\ NoTextYet /\ TextIsTheRequests
-----------------------------------------------------------------------------
(* What the steps do to the locals of a request.                           *)

RGoes(r, at, p, method, try, then, text) ==
    /\ req' \in [Requests -> RequestRecord]
    /\ req'[r].at = at /\ req'[r].proc = p /\ req'[r].method = method
    /\ req'[r].try = try /\ req'[r].then = then /\ req'[r].text = text
    /\ \A q \in Requests : q # r => req'[q] = req[q]

LEMMA RequestFacts ==
    ASSUME Types, NEW r \in Requests
    PROVE  /\ req[r] \in RequestRecord
           /\ req[r].at \in Places /\ req[r].proc \in Processes \union {None}
           /\ req[r].method \in Methods /\ req[r].try \in 1 .. 2
           /\ req[r].then \in {"retry", "done"} /\ req[r].text \subseteq Call
<1>1. req[r] \in RequestRecord
  BY DEF Types
<1>2. QED
  BY <1>1 DEF RequestRecord

LEMMA RecordGoes ==
    ASSUME Types, NEW r \in Requests, NEW at \in Places, NEW p \in Processes \union {None},
           NEW method \in Methods, NEW try \in 1 .. 2, NEW then \in {"retry", "done"},
           NEW text \in SUBSET Call,
           req' = [req EXCEPT ![r] = [at |-> at, proc |-> p, method |-> method,
                                      try |-> try, then |-> then, text |-> text]]
    PROVE  RGoes(r, at, p, method, try, then, text)
<1> DEFINE x == [at |-> at, proc |-> p, method |-> method, try |-> try, then |-> then,
                 text |-> text]
<1>1. x \in RequestRecord
  BY DEF RequestRecord
<1>2. req \in [Requests -> RequestRecord] /\ req' = [req EXCEPT ![r] = x]
  BY DEF Types
<1>3. /\ x.at = at /\ x.proc = p /\ x.method = method /\ x.try = try /\ x.then = then
      /\ x.text = text
  OBVIOUS
<1> HIDE DEF x
<1>4. QED
  BY <1>1, <1>2, <1>3 DEF RGoes

\* An update of some fields, with the others named.
LEMMA FieldAt ==
    ASSUME NEW x \in RequestRecord, NEW a
    PROVE  [x EXCEPT !.at = a] =
             [at |-> a, proc |-> x.proc, method |-> x.method, try |-> x.try,
              then |-> x.then, text |-> x.text]
BY DEF RequestRecord

LEMMA FieldAtProc ==
    ASSUME NEW x \in RequestRecord, NEW a, NEW b
    PROVE  [x EXCEPT !.at = a, !.proc = b] =
             [at |-> a, proc |-> b, method |-> x.method, try |-> x.try,
              then |-> x.then, text |-> x.text]
<1> DEFINE y == [x EXCEPT !.at = a]
<1>1. y = [at |-> a, proc |-> x.proc, method |-> x.method, try |-> x.try,
           then |-> x.then, text |-> x.text]
  BY FieldAt
<1> HIDE DEF y
<1>2. [y EXCEPT !.proc = b] =
        [at |-> a, proc |-> b, method |-> x.method, try |-> x.try,
         then |-> x.then, text |-> x.text]
  BY <1>1
<1>3. QED
  BY <1>2 DEF y

LEMMA FieldAtMethod ==
    ASSUME NEW x \in RequestRecord, NEW a, NEW b
    PROVE  [x EXCEPT !.at = a, !.method = b] =
             [at |-> a, proc |-> x.proc, method |-> b, try |-> x.try,
              then |-> x.then, text |-> x.text]
<1> DEFINE y == [x EXCEPT !.at = a]
<1>1. y = [at |-> a, proc |-> x.proc, method |-> x.method, try |-> x.try,
           then |-> x.then, text |-> x.text]
  BY FieldAt
<1> HIDE DEF y
<1>2. [y EXCEPT !.method = b] =
        [at |-> a, proc |-> x.proc, method |-> b, try |-> x.try,
         then |-> x.then, text |-> x.text]
  BY <1>1
<1>3. QED
  BY <1>2 DEF y

LEMMA FieldAtThen ==
    ASSUME NEW x \in RequestRecord, NEW a, NEW b
    PROVE  [x EXCEPT !.at = a, !.then = b] =
             [at |-> a, proc |-> x.proc, method |-> x.method, try |-> x.try,
              then |-> b, text |-> x.text]
<1> DEFINE y == [x EXCEPT !.at = a]
<1>1. y = [at |-> a, proc |-> x.proc, method |-> x.method, try |-> x.try,
           then |-> x.then, text |-> x.text]
  BY FieldAt
<1> HIDE DEF y
<1>2. [y EXCEPT !.then = b] =
        [at |-> a, proc |-> x.proc, method |-> x.method, try |-> x.try,
         then |-> b, text |-> x.text]
  BY <1>1
<1>3. QED
  BY <1>2 DEF y

LEMMA FieldAtText ==
    ASSUME NEW x \in RequestRecord, NEW a, NEW b
    PROVE  [x EXCEPT !.at = a, !.text = b] =
             [at |-> a, proc |-> x.proc, method |-> x.method, try |-> x.try,
              then |-> x.then, text |-> b]
<1> DEFINE y == [x EXCEPT !.at = a]
<1>1. y = [at |-> a, proc |-> x.proc, method |-> x.method, try |-> x.try,
           then |-> x.then, text |-> x.text]
  BY FieldAt
<1> HIDE DEF y
<1>2. [y EXCEPT !.text = b] =
        [at |-> a, proc |-> x.proc, method |-> x.method, try |-> x.try,
         then |-> x.then, text |-> b]
  BY <1>1
<1>3. QED
  BY <1>2 DEF y

\* The same for req, from the update of the record of r.
LEMMA GoesAt ==
    ASSUME Types, NEW r \in Requests, NEW a \in Places,
           req' = [req EXCEPT ![r] = [req[r] EXCEPT !.at = a]]
    PROVE  RGoes(r, a, req[r].proc, req[r].method, req[r].try, req[r].then, req[r].text)
<1> DEFINE x == [req[r] EXCEPT !.at = a]
<1>1. req[r] \in RequestRecord
  BY RequestFacts
<1>2. /\ x \in RequestRecord
      /\ x.at = a /\ x.proc = req[r].proc /\ x.method = req[r].method
      /\ x.try = req[r].try /\ x.then = req[r].then /\ x.text = req[r].text
  BY <1>1 DEF RequestRecord
<1>3. req' = [req EXCEPT ![r] = x] /\ req \in [Requests -> RequestRecord]
  BY DEF Types
<1> HIDE DEF x
<1>4. QED
  BY <1>2, <1>3 DEF RGoes

LEMMA GoesAtProc ==
    ASSUME Types, NEW r \in Requests, NEW a \in Places, NEW b \in Processes \union {None},
           req' = [req EXCEPT ![r] = [req[r] EXCEPT !.at = a, !.proc = b]]
    PROVE  RGoes(r, a, b, req[r].method, req[r].try, req[r].then, req[r].text)
<1> DEFINE x == [req[r] EXCEPT !.at = a, !.proc = b]
<1>1. req[r] \in RequestRecord
  BY RequestFacts
<1>2. /\ x \in RequestRecord
      /\ x.at = a /\ x.proc = b /\ x.method = req[r].method
      /\ x.try = req[r].try /\ x.then = req[r].then /\ x.text = req[r].text
  BY <1>1 DEF RequestRecord
<1>3. req' = [req EXCEPT ![r] = x] /\ req \in [Requests -> RequestRecord]
  BY DEF Types
<1> HIDE DEF x
<1>4. QED
  BY <1>2, <1>3 DEF RGoes

LEMMA GoesAtMethod ==
    ASSUME Types, NEW r \in Requests, NEW a \in Places, NEW b \in Methods,
           req' = [req EXCEPT ![r] = [req[r] EXCEPT !.at = a, !.method = b]]
    PROVE  RGoes(r, a, req[r].proc, b, req[r].try, req[r].then, req[r].text)
<1> DEFINE x == [req[r] EXCEPT !.at = a, !.method = b]
<1>1. req[r] \in RequestRecord
  BY RequestFacts
<1>2. /\ x \in RequestRecord
      /\ x.at = a /\ x.proc = req[r].proc /\ x.method = b
      /\ x.try = req[r].try /\ x.then = req[r].then /\ x.text = req[r].text
  BY <1>1 DEF RequestRecord
<1>3. req' = [req EXCEPT ![r] = x] /\ req \in [Requests -> RequestRecord]
  BY DEF Types
<1> HIDE DEF x
<1>4. QED
  BY <1>2, <1>3 DEF RGoes

\* Finish: the request is over, and so is its context.
Finishes(r) == /\ RGoes(r, "done", None, "initialize", 1, "retry", {})
               /\ ended' = ended \union {r}

LEMMA FinishGoes ==
    ASSUME Types, NEW r \in Requests, Finish(r)
    PROVE  Finishes(r)
<1>1. req' = [req EXCEPT ![r] = [at |-> "done", proc |-> None, method |-> "initialize",
                                 try |-> 1, then |-> "retry", text |-> {}]]
  <2>1. [Idle EXCEPT !.at = "done"] =
          [at |-> "done", proc |-> None, method |-> "initialize", try |-> 1,
           then |-> "retry", text |-> {}]
    BY DEF Idle
  <2>2. QED
    BY <2>1 DEF Finish
<1>2. /\ "done" \in Places /\ None \in Processes \union {None} /\ "initialize" \in Methods
      /\ 1 \in 1 .. 2 /\ "retry" \in {"retry", "done"} /\ {} \in SUBSET Call
  BY DEF Places, Methods
<1>3. RGoes(r, "done", None, "initialize", 1, "retry", {})
  BY <1>1, <1>2, RecordGoes
<1>4. QED
  BY <1>3 DEF Finishes, Finish

LEMMA FailGoes ==
    ASSUME Types, NEW r \in Requests, NEW broken, Fail(r, broken)
    PROVE  \/ Finishes(r)
           \/ /\ ended' = ended
              /\ \/ /\ req[r].method = "session/close"
                    /\ RGoes(r, "drop", req[r].proc, req[r].method, req[r].try, "done",
                             req[r].text)
                 \/ /\ req[r].try = 1
                    /\ RGoes(r, "drop", req[r].proc, req[r].method, req[r].try,
                             req[r].then, {})
<1>1. req[r] \in RequestRecord
  BY RequestFacts
<1>2. "drop" \in Places /\ "done" \in {"retry", "done"} /\ {} \in SUBSET Call
  BY DEF Places
<1>3. CASE req[r].method = "session/close"
  <2>1. req' = [req EXCEPT ![r] = [req[r] EXCEPT !.at = "drop", !.then = "done"]]
    BY <1>3 DEF Fail, Types
  <2>2. RGoes(r, "drop", req[r].proc, req[r].method, req[r].try, "done", req[r].text)
    BY <1>1, <1>2, <2>1, RequestFacts, FieldAtThen, RecordGoes
  <2>3. QED
    BY <1>3, <2>2 DEF Fail
<1>4. CASE req[r].method # "session/close" /\ broken /\ req[r].try = 1
  <2>1. req' = [req EXCEPT ![r] = [req[r] EXCEPT !.at = "drop", !.text = {}]]
    BY <1>4 DEF Fail, Types
  <2>2. PICK text \in SUBSET Call : text = {}
    OBVIOUS
  <2>3. req' = [req EXCEPT ![r] =
                  [at |-> "drop", proc |-> req[r].proc, method |-> req[r].method,
                   try |-> req[r].try, then |-> req[r].then, text |-> text]]
    <3>1. req' = [req EXCEPT ![r] = [req[r] EXCEPT !.at = "drop", !.text = text]]
      BY <2>1, <2>2
    <3>2. [req[r] EXCEPT !.at = "drop", !.text = text] =
            [at |-> "drop", proc |-> req[r].proc, method |-> req[r].method,
             try |-> req[r].try, then |-> req[r].then, text |-> text]
      BY <1>1, FieldAtText, Zenon
    <3>3. QED
      BY <3>1, <3>2, Zenon
  <2>4. RGoes(r, "drop", req[r].proc, req[r].method, req[r].try, req[r].then, text)
    BY <1>2, <2>3, RequestFacts, RecordGoes
  <2>5. QED
    BY <1>4, <2>2, <2>4 DEF Fail
<1>5. CASE req[r].method # "session/close" /\ ~(broken /\ req[r].try = 1)
  BY <1>5, FinishGoes DEF Fail
<1>6. QED
  BY <1>3, <1>4, <1>5

LEMMA ProceedGoes ==
    ASSUME Types, NEW r \in Requests, Proceed(r)
    PROVE  \/ Finishes(r)
           \/ /\ ended' = ended
              /\ \E method \in Methods :
                    RGoes(r, "call", req[r].proc, method, req[r].try, req[r].then, req[r].text)
<1>1. CASE Finish(r)
  BY <1>1, FinishGoes
<1>2. CASE ~Finish(r)
  <2>1. PICK method \in Methods :
           method = IF req[r].method = "initialize" THEN "session/prompt" ELSE "session/close"
    BY DEF Methods
  <2>2. req' = [req EXCEPT ![r] = [req[r] EXCEPT !.at = "call", !.method = method]]
    BY <1>2, <2>1 DEF Proceed, Types
  <2>3. req[r] \in RequestRecord /\ "call" \in Places
    BY RequestFacts DEF Places
  <2>4. req' = [req EXCEPT ![r] =
                  [at |-> "call", proc |-> req[r].proc, method |-> method,
                   try |-> req[r].try, then |-> req[r].then, text |-> req[r].text]]
    BY <2>2, <2>3, FieldAtMethod
  <2>5. RGoes(r, "call", req[r].proc, method, req[r].try, req[r].then, req[r].text)
    BY <2>3, <2>4, RequestFacts, RecordGoes
  <2>6. QED
    BY <1>2, <2>5 DEF Proceed
<1>3. QED
  BY <1>1, <1>2

LEMMA AfterDropGoes ==
    ASSUME Types, FirstTry, NEW r \in Requests, req[r].at \in {"drop", "dropping"},
           AfterDrop(r)
    PROVE  \/ Finishes(r)
           \/ /\ req[r].then = "retry" /\ ended' = ended
              /\ RGoes(r, "get", None, "initialize", 2, "retry", req[r].text)
<1>1. CASE req[r].then = "done"
  BY <1>1, FinishGoes DEF AfterDrop
<1>2. CASE req[r].then = "retry"
  <2>1. req[r].try = 1 /\ req[r] \in RequestRecord
    BY <1>2, RequestFacts DEF FirstTry
  <2> DEFINE x == [req[r] EXCEPT !.at = "get", !.proc = None]
  <2>2. x = [at |-> "get", proc |-> None, method |-> req[r].method, try |-> 1,
             then |-> "retry", text |-> req[r].text]
    <3>1. x = [at |-> "get", proc |-> None, method |-> req[r].method, try |-> req[r].try,
               then |-> req[r].then, text |-> req[r].text]
      BY <2>1, FieldAtProc
    <3> HIDE DEF x
    <3>2. QED
      BY <1>2, <2>1, <3>1
  <2>3. req' = [req EXCEPT ![r] = [[x EXCEPT !.method = "initialize"]
                                     EXCEPT !.try = req[r].try + 1]]
    BY <1>2 DEF AfterDrop, Types
  <2> HIDE DEF x
  <2> DEFINE y == [x EXCEPT !.method = "initialize"]
  <2>4. y = [at |-> "get", proc |-> None, method |-> "initialize", try |-> 1,
             then |-> "retry", text |-> req[r].text]
    BY <2>2
  <2> HIDE DEF y
  <2>5. [y EXCEPT !.try = req[r].try + 1] =
          [at |-> "get", proc |-> None, method |-> "initialize", try |-> 2,
           then |-> "retry", text |-> req[r].text]
    BY <2>1, <2>4
  <2>6. req' = [req EXCEPT ![r] = [at |-> "get", proc |-> None, method |-> "initialize",
                                   try |-> 2, then |-> "retry", text |-> req[r].text]]
    BY <2>3, <2>5 DEF y
  <2>7. /\ "get" \in Places /\ None \in Processes \union {None} /\ "initialize" \in Methods
        /\ 2 \in 1 .. 2 /\ "retry" \in {"retry", "done"} /\ req[r].text \in SUBSET Call
    BY RequestFacts DEF Places, Methods
  <2>8. RGoes(r, "get", None, "initialize", 2, "retry", req[r].text)
    BY <2>6, <2>7, RecordGoes
  <2>9. QED
    BY <1>2, <2>8 DEF AfterDrop
<1>3. QED
  BY <1>1, <1>2, RequestFacts
-----------------------------------------------------------------------------
(* What the steps do to a process.                                         *)

PFields(x, up, closed, callMu, work, out) ==
    /\ x \in ProcessRecord
    /\ x.up = up /\ x.closed = closed /\ x.callMu = callMu /\ x.work = work /\ x.out = out

PGoes(p, up, closed, callMu, work, out) ==
    /\ proc' \in [Processes -> ProcessRecord]
    /\ PFields(proc'[p], up, closed, callMu, work, out)
    /\ \A o \in Processes : o # p => proc'[o] = proc[o]

\* Only fields that the invariant does not name may have changed.
Quiet ==
    /\ proc' \in [Processes -> ProcessRecord]
    /\ \A p \in Processes : PFields(proc'[p], proc[p].up, proc[p].closed, proc[p].callMu,
                                    proc[p].work, proc[p].out)

LEMMA ProcessFacts ==
    ASSUME Types, NEW p \in Processes
    PROVE  /\ proc[p] \in ProcessRecord
           /\ proc[p].up \in BOOLEAN /\ proc[p].closed \in BOOLEAN
           /\ proc[p].initMu \in Requests \union {None}
           /\ proc[p].callMu \in Requests \union {None}
           /\ proc[p].work \in SUBSET Call /\ proc[p].out \in Seq(Message)
           /\ proc[p].abandoned \in Nat
<1>1. proc[p] \in ProcessRecord
  BY DEF Types
<1>2. QED
  BY <1>1 DEF ProcessRecord

LEMMA ProcessOf ==
    ASSUME Types, Placed, NEW r \in Requests,
           req[r].at \notin {"none", "get", "start", "done"}
    PROVE  req[r].proc \in Processes /\ req[r].proc \in 1 .. started
<1>1. started \in 0 .. MaxStarts /\ req[r].proc \in 1 .. started /\ MaxStarts \in Nat
  BY AcpAssumption DEF Types, Placed
<1>2. QED
  BY <1>1 DEF Processes

LEMMA GoesFrom ==
    ASSUME Types, NEW p \in Processes, NEW x, NEW up, NEW closed, NEW callMu, NEW work,
           NEW out, PFields(x, up, closed, callMu, work, out), proc' = [proc EXCEPT ![p] = x]
    PROVE  PGoes(p, up, closed, callMu, work, out)
<1>1. proc \in [Processes -> ProcessRecord] /\ x \in ProcessRecord
  BY DEF Types, PFields
<1>2. QED
  BY <1>1 DEF PGoes

LEMMA QuietIfSame ==
    ASSUME Types, UNCHANGED proc
    PROVE  Quiet
BY ProcessFacts DEF Quiet, PFields, Types

LEMMA QuietIfOne ==
    ASSUME Types, NEW p \in Processes,
           PGoes(p, proc[p].up, proc[p].closed, proc[p].callMu, proc[p].work, proc[p].out)
    PROVE  Quiet
BY ProcessFacts DEF Quiet, PGoes, PFields

\* The locks of r as the deferred unlocks leave callMu.
Released(p, r) == IF proc[p].callMu = r THEN None ELSE proc[p].callMu

LEMMA UnlockedFields ==
    ASSUME Types, NEW p \in Processes, NEW r \in Requests
    PROVE  PFields(Unlocked(p, r), proc[p].up, proc[p].closed, Released(p, r),
                   proc[p].work, proc[p].out)
<1> DEFINE a == IF proc[p].callMu = r THEN None ELSE proc[p].callMu
           b == IF proc[p].initMu = r THEN None ELSE proc[p].initMu
<1>1. a \in Requests \union {None} /\ b \in Requests \union {None}
  BY ProcessFacts
<1>2. Unlocked(p, r) = [proc[p] EXCEPT !.callMu = a, !.initMu = b]
  <2>1. [proc[p] EXCEPT !.callMu = a].initMu = proc[p].initMu
    BY ProcessFacts DEF ProcessRecord
  <2>2. QED
    BY <2>1 DEF Unlocked
<1>3. proc[p] \in ProcessRecord
  BY ProcessFacts
<1>4. a = Released(p, r)
  BY DEF Released
<1> HIDE DEF a, b
<1>5. PFields([proc[p] EXCEPT !.callMu = a, !.initMu = b], proc[p].up, proc[p].closed, a,
              proc[p].work, proc[p].out)
  BY <1>1, <1>3 DEF PFields, ProcessRecord
<1>6. QED
  BY <1>2, <1>4, <1>5

LEMMA UnlockedGoes ==
    ASSUME Types, NEW p \in Processes, NEW r \in Requests,
           proc' = [proc EXCEPT ![p] = Unlocked(p, r)]
    PROVE  PGoes(p, proc[p].up, proc[p].closed, Released(p, r), proc[p].work, proc[p].out)
BY UnlockedFields, GoesFrom

LEMMA TailType ==
    ASSUME NEW s \in Seq(Message), s # <<>>
    PROVE  /\ Tail(s) \in Seq(Message) /\ Head(s) \in Message /\ Head(s) = s[1]
           /\ Len(s) \in Nat /\ Len(s) >= 1 /\ Len(Tail(s)) = Len(s) - 1
           /\ \A i \in 1 .. Len(s) - 1 : Tail(s)[i] = s[i + 1]
OBVIOUS

LEMMA NoProcessFields == PFields(NoProcess, FALSE, TRUE, None, {}, <<>>)
BY DEF PFields, NoProcess, ProcessRecord

LEMMA StartProc ==
    ASSUME Types, NEW r \in Requests, Start(r)
    PROVE  /\ started + 1 \in Processes /\ started' = started + 1
           /\ PGoes(started + 1, TRUE, FALSE, None, {}, <<>>)
<1>1. started + 1 \in Processes /\ started' = started + 1
  BY AcpAssumption DEF Types, Start, Processes
<1> DEFINE x == [NoProcess EXCEPT !.up = TRUE, !.closed = FALSE, !.owner = r]
<1>2. PFields(x, TRUE, FALSE, None, {}, <<>>)
  BY NoProcessFields DEF PFields, ProcessRecord
<1>3. proc' = [proc EXCEPT ![started + 1] = x]
  BY DEF Start
<1> HIDE DEF x
<1>4. QED
  BY <1>1, <1>2, <1>3, GoesFrom

LEMMA EnsureProc ==
    ASSUME Types, Placed, NEW r \in Requests, EnsureInitialized(r)
    PROVE  Quiet
<1>1. CASE UNCHANGED proc
  BY <1>1, QuietIfSame
<1>2. CASE ~ UNCHANGED proc
  <2>1. PICK p \in Processes : p = req[r].proc
    BY ProcessOf DEF EnsureInitialized
  <2>2. proc' = [proc EXCEPT ![p] = [proc[p] EXCEPT !.initMu = r]]
    BY <1>2, <2>1 DEF EnsureInitialized
  <2>3. proc[p] \in ProcessRecord
    BY ProcessFacts
  <2>4. PFields([proc[p] EXCEPT !.initMu = r], proc[p].up, proc[p].closed, proc[p].callMu,
                proc[p].work, proc[p].out)
    BY <2>3 DEF PFields, ProcessRecord
  <2>5. QED
    BY <2>2, <2>4, GoesFrom, QuietIfOne
<1>3. QED
  BY <1>1, <1>2

LEMMA CallType ==
    ASSUME Types, NEW r \in Requests
    PROVE  CallOf(r) \in Call /\ CallOf(r).by = r
BY RequestFacts DEF CallOf, Call

LEMMA SendProc ==
    ASSUME Types, Placed, NEW r \in Requests, Send(r), proc[req[r].proc].up
    PROVE  PGoes(req[r].proc, TRUE, proc[req[r].proc].closed, r,
                 proc[req[r].proc].work \union {CallOf(r)}, proc[req[r].proc].out)
<1>1. PICK p \in Processes : p = req[r].proc
  BY ProcessOf DEF Send
<1> DEFINE w == proc[p].work \union {CallOf(r)}
<1>2. w \in SUBSET Call /\ proc[p] \in ProcessRecord
  BY ProcessFacts, CallType
<1>3. proc' = [proc EXCEPT ![p] = [proc[p] EXCEPT !.callMu = r, !.work = w]]
  BY <1>1, <1>2 DEF Send, Types, ProcessRecord
<1> HIDE DEF w
<1>4. PFields([proc[p] EXCEPT !.callMu = r, !.work = w], proc[p].up, proc[p].closed, r, w,
              proc[p].out)
  BY <1>2 DEF PFields, ProcessRecord
<1>5. proc[p].up = TRUE
  BY <1>1, ProcessFacts
<1>6. QED
  BY <1>1, <1>3, <1>4, <1>5, GoesFrom DEF w

\* Receive takes the first message; the answer to its call ends the call.
TakesAnswer(r) ==
    Head(proc[req[r].proc].out) = [kind |-> "answer", call |-> CallOf(r)]

LEMMA ReceiveProc ==
    ASSUME Types, Placed, NEW r \in Requests, Receive(r), NEW p, p = req[r].proc
    PROVE  /\ p \in Processes /\ proc[p].out # <<>>
           /\ PGoes(p, proc[p].up, proc[p].closed,
                    IF TakesAnswer(r) THEN Released(p, r) ELSE proc[p].callMu,
                    proc[p].work, Tail(proc[p].out))
<1>1. p \in Processes /\ proc[p].out # <<>> /\ Tail(proc[p].out) \in Seq(Message)
  <2>1. p \in Processes /\ proc[p].out # <<>>
    BY ProcessOf DEF Receive
  <2>2. QED
    BY <2>1, ProcessFacts, TailType
<1>2. CASE TakesAnswer(r)
  <2> DEFINE x == Unlocked(p, r)
  <2>1. PFields(x, proc[p].up, proc[p].closed, Released(p, r), proc[p].work, proc[p].out)
    BY <1>1, UnlockedFields
  <2>2. \/ proc' = [proc EXCEPT ![p] = [x EXCEPT !.out = Tail(@),
                                   !.ready = @ \/ req[r].method = "initialize"]]
        \/ proc' = [proc EXCEPT ![p] = [x EXCEPT !.out = Tail(@)]]
    BY <1>2 DEF Receive, TakesAnswer
  <2> HIDE DEF x
  <2>3. x.out = proc[p].out /\ x \in ProcessRecord
    BY <2>1 DEF PFields
  <2>4. CASE proc' = [proc EXCEPT ![p] = [x EXCEPT !.out = Tail(@)]]
    <3>1. PFields([x EXCEPT !.out = Tail(proc[p].out)], proc[p].up, proc[p].closed,
                  Released(p, r), proc[p].work, Tail(proc[p].out))
      BY <1>1, <2>1 DEF PFields, ProcessRecord
    <3>2. proc' = [proc EXCEPT ![p] = [x EXCEPT !.out = Tail(proc[p].out)]]
      BY <2>3, <2>4
    <3>3. QED
      BY <1>1, <1>2, <3>1, <3>2, GoesFrom
  <2>5. CASE proc' = [proc EXCEPT ![p] = [x EXCEPT !.out = Tail(@),
                                     !.ready = @ \/ req[r].method = "initialize"]]
    <3> DEFINE y == [x EXCEPT !.out = Tail(proc[p].out)]
    <3>1. PFields(y, proc[p].up, proc[p].closed,
                  Released(p, r), proc[p].work, Tail(proc[p].out))
      BY <1>1, <2>1 DEF PFields, ProcessRecord
    <3>2. PICK b \in BOOLEAN : b = (y.ready \/ req[r].method = "initialize")
      OBVIOUS
    <3>3. proc' = [proc EXCEPT ![p] = [y EXCEPT !.ready = @ \/ req[r].method = "initialize"]]
      BY <2>3, <2>5
    <3> HIDE DEF y
    <3>4. proc' = [proc EXCEPT ![p] = [y EXCEPT !.ready = b]]
      BY <3>2, <3>3
    <3>5. PFields([y EXCEPT !.ready = b], proc[p].up, proc[p].closed,
                  Released(p, r), proc[p].work, Tail(proc[p].out))
      BY <3>1 DEF PFields, ProcessRecord
    <3>6. QED
      BY <1>1, <1>2, <3>4, <3>5, GoesFrom
  <2>6. QED
    BY <1>1, <2>2, <2>4, <2>5
<1>3. CASE ~ TakesAnswer(r)
  <2>1. proc' = [proc EXCEPT ![p] = [proc[p] EXCEPT !.out = Tail(@)]]
    BY <1>1, <1>3 DEF Receive, TakesAnswer, Types
  <2>2. PFields([proc[p] EXCEPT !.out = Tail(proc[p].out)], proc[p].up, proc[p].closed,
                proc[p].callMu, proc[p].work, Tail(proc[p].out))
    <3>1. PICK t \in Seq(Message) : t = Tail(proc[p].out)
      BY <1>1
    <3>2. proc[p] \in ProcessRecord
      BY <1>1, ProcessFacts
    <3>3. PICK x \in ProcessRecord : x = proc[p]
      BY <3>2
    <3>4. [x EXCEPT !.out = t] \in ProcessRecord
      BY ONLY <3>1, <3>3 DEF ProcessRecord
    <3>5. PFields([x EXCEPT !.out = t], x.up, x.closed, x.callMu, x.work, t)
      BY ONLY <3>3, <3>4 DEF PFields, ProcessRecord
    <3>6. QED
      BY ONLY <3>1, <3>3, <3>5
  <2>3. QED
    BY <1>1, <1>3, <2>1, <2>2, GoesFrom
<1>4. QED
  BY <1>2, <1>3

LEMMA AbandonProc ==
    ASSUME Types, Placed, NEW r \in Requests, Abandon(r), NEW p, p = req[r].proc
    PROVE  /\ p \in Processes
           /\ PGoes(p, proc[p].up, proc[p].closed, Released(p, r), proc[p].work, proc[p].out)
<1>1. p \in Processes
  BY ProcessOf DEF Abandon
<1> DEFINE x == Unlocked(p, r)
<1>2. PFields(x, proc[p].up, proc[p].closed, Released(p, r), proc[p].work, proc[p].out)
  BY <1>1, UnlockedFields
<1>3. proc' = [proc EXCEPT ![p] = [x EXCEPT !.abandoned = @ + 1]]
  BY DEF Abandon
<1> HIDE DEF x
<1>4. PFields([x EXCEPT !.abandoned = @ + 1], proc[p].up, proc[p].closed, Released(p, r),
              proc[p].work, proc[p].out)
  BY <1>2 DEF PFields, ProcessRecord
<1>5. QED
  BY <1>1, <1>3, <1>4, GoesFrom

\* A message that an abandoned reader takes.
LEMMA StealProc ==
    ASSUME Types, NEW p \in Processes, Steal(p)
    PROVE  PGoes(p, proc[p].up, proc[p].closed, proc[p].callMu, proc[p].work,
                 Tail(proc[p].out))
<1>1. /\ proc[p] \in ProcessRecord /\ Tail(proc[p].out) \in Seq(Message)
      /\ proc[p].abandoned - 1 \in Nat
  BY ProcessFacts, TailType DEF Steal
<1>2. proc' = [proc EXCEPT ![p] = [proc[p] EXCEPT !.abandoned = proc[p].abandoned - 1,
                                                  !.out = Tail(proc[p].out)]]
  BY <1>1 DEF Steal, Types, ProcessRecord
<1>3. PFields([proc[p] EXCEPT !.abandoned = proc[p].abandoned - 1,
                              !.out = Tail(proc[p].out)],
              proc[p].up, proc[p].closed, proc[p].callMu, proc[p].work, Tail(proc[p].out))
  BY <1>1 DEF PFields, ProcessRecord
<1>4. QED
  BY <1>2, <1>3, GoesFrom

LEMMA GarbleProc ==
    ASSUME Types, Placed, NEW r \in Requests, Garble(r), NEW p, p = req[r].proc
    PROVE  /\ p \in Processes
           /\ PGoes(p, proc[p].up, proc[p].closed, Released(p, r), proc[p].work,
                    Tail(proc[p].out))
<1>1. /\ p \in Processes /\ Tail(proc[p].out) \in Seq(Message)
      /\ proc[p].abandoned - 1 \in Nat
  <2>1. p \in Processes /\ proc[p].out # <<>> /\ proc[p].abandoned > 0
    BY ProcessOf DEF Garble
  <2>2. QED
    BY <2>1, ProcessFacts, TailType
<1> DEFINE x == Unlocked(p, r)
<1>2. PFields(x, proc[p].up, proc[p].closed, Released(p, r), proc[p].work, proc[p].out)
      /\ x.abandoned = proc[p].abandoned
  <2>1. x.abandoned = proc[p].abandoned
    BY <1>1, ProcessFacts DEF Unlocked, ProcessRecord
  <2>2. QED
    BY <1>1, <2>1, UnlockedFields
<1>3. proc' = [proc EXCEPT ![p] = [x EXCEPT !.abandoned = @ - 1, !.out = Tail(@)]]
  BY DEF Garble
<1> HIDE DEF x
<1>4. proc' = [proc EXCEPT ![p] = [x EXCEPT !.abandoned = proc[p].abandoned - 1,
                                            !.out = Tail(proc[p].out)]]
  BY <1>2, <1>3 DEF PFields, ProcessRecord
<1>5. PFields([x EXCEPT !.abandoned = proc[p].abandoned - 1, !.out = Tail(proc[p].out)],
              proc[p].up, proc[p].closed, Released(p, r), proc[p].work, Tail(proc[p].out))
  BY <1>1, <1>2 DEF PFields, ProcessRecord
<1>6. QED
  BY <1>1, <1>4, <1>5, GoesFrom

LEMMA MisreadProc ==
    ASSUME Types, Placed, NEW r \in Requests, Misread(r), NEW p, p = req[r].proc
    PROVE  /\ p \in Processes
           /\ PGoes(p, proc[p].up, proc[p].closed, Released(p, r), proc[p].work,
                    Tail(proc[p].out))
<1>1. p \in Processes /\ Tail(proc[p].out) \in Seq(Message)
  <2>1. p \in Processes /\ proc[p].out # <<>>
    BY ProcessOf DEF Misread
  <2>2. QED
    BY <2>1, ProcessFacts, TailType
<1> DEFINE x == Unlocked(p, r)
<1>2. PFields(x, proc[p].up, proc[p].closed, Released(p, r), proc[p].work, proc[p].out)
  BY <1>1, UnlockedFields
<1>3. proc' = [proc EXCEPT ![p] = [x EXCEPT !.out = Tail(@)]]
  BY DEF Misread
<1> HIDE DEF x
<1>4. proc' = [proc EXCEPT ![p] = [x EXCEPT !.out = Tail(proc[p].out)]]
  BY <1>2, <1>3 DEF PFields, ProcessRecord
<1>5. PFields([x EXCEPT !.out = Tail(proc[p].out)],
              proc[p].up, proc[p].closed, Released(p, r), proc[p].work, Tail(proc[p].out))
  BY <1>1, <1>2 DEF PFields, ProcessRecord
<1>6. QED
  BY <1>1, <1>4, <1>5, GoesFrom

\* What an agent writes that is nobody's.
LEMMA BabbleProc ==
    ASSUME Types, NEW p \in Processes, Babble(p)
    PROVE  PGoes(p, proc[p].up, proc[p].closed, proc[p].callMu, proc[p].work,
                 Append(proc[p].out, Noise))
<1>1. Noise \in Message
  BY DEF Message
<1>2. proc[p] \in ProcessRecord /\ Append(proc[p].out, Noise) \in Seq(Message)
  BY <1>1, ProcessFacts, AppendProperties
<1>3. proc' = [proc EXCEPT ![p] = [proc[p] EXCEPT !.out = Append(proc[p].out, Noise)]]
  BY <1>2 DEF Babble, Types
<1>4. PFields([proc[p] EXCEPT !.out = Append(proc[p].out, Noise)], proc[p].up,
              proc[p].closed, proc[p].callMu, proc[p].work, Append(proc[p].out, Noise))
  BY <1>2 DEF PFields, ProcessRecord
<1>5. QED
  BY <1>3, <1>4, GoesFrom

\* A process ends: on its own or killed, with what it wrote still in the pipe, or
\* waited for.
LEMMA GoneProc ==
    ASSUME Types, NEW p \in Processes, Gone(p)
    PROVE  PGoes(p, FALSE, proc[p].closed, proc[p].callMu, {}, proc[p].out)
<1>1. proc[p] \in ProcessRecord
  BY ProcessFacts
<1>2. proc' = [proc EXCEPT ![p] = [proc[p] EXCEPT !.up = FALSE, !.work = {},
                                                  !.stopping = FALSE, !.owner = None]]
  BY DEF Gone
<1>3. PFields([proc[p] EXCEPT !.up = FALSE, !.work = {}, !.stopping = FALSE,
                              !.owner = None],
              FALSE, proc[p].closed, proc[p].callMu, {}, proc[p].out)
  BY <1>1 DEF PFields, ProcessRecord
<1>4. QED
  BY <1>2, <1>3, GoesFrom

LEMMA EndedProc ==
    ASSUME Types, NEW p \in Processes, proc' = [proc EXCEPT ![p] = Ended(p)]
    PROVE  PGoes(p, FALSE, TRUE, proc[p].callMu, {}, <<>>)
<1>1. /\ proc[p].callMu \in Requests \union {None}
      /\ proc[p].initMu \in Requests \union {None}
  BY ProcessFacts
<1>2. PFields([NoProcess EXCEPT !.initMu = proc[p].initMu, !.callMu = proc[p].callMu],
              FALSE, TRUE, proc[p].callMu, {}, <<>>)
  BY <1>1, NoProcessFields DEF PFields, ProcessRecord
<1>3. QED
  BY <1>2, GoesFrom DEF Ended

LEMMA StoppingProc ==
    ASSUME Types, NEW p \in Processes, proc' = [proc EXCEPT ![p].stopping = TRUE]
    PROVE  Quiet
<1>1. proc[p] \in ProcessRecord
  BY ProcessFacts
<1>2. PFields([proc[p] EXCEPT !.stopping = TRUE], proc[p].up, proc[p].closed,
              proc[p].callMu, proc[p].work, proc[p].out)
  BY <1>1 DEF PFields, ProcessRecord
<1>3. QED
  BY <1>2, GoesFrom, QuietIfOne

\* What the agent writes for a call.
Written(call) ==
    (IF call.method = "session/prompt" THEN <<[kind |-> "update", call |-> call]>> ELSE <<>>)
      \o <<[kind |-> "answer", call |-> call]>>

LEMMA AnswerProc ==
    ASSUME Types, NEW p \in Processes, Answer(p)
    PROVE  \E call \in proc[p].work :
              PGoes(p, proc[p].up, proc[p].closed, proc[p].callMu, proc[p].work \ {call},
                    proc[p].out \o Written(call))
<1>1. PICK call \in proc[p].work :
         proc' = [proc EXCEPT ![p].work = @ \ {call},
                     ![p].out = @ \o (IF call.method = "session/prompt"
                                      THEN <<[kind |-> "update", call |-> call]>>
                                      ELSE <<>>)
                                  \o <<[kind |-> "answer", call |-> call]>>]
  BY DEF Answer
<1> DEFINE a == IF call.method = "session/prompt"
                THEN <<[kind |-> "update", call |-> call]>> ELSE <<>>
           b == <<[kind |-> "answer", call |-> call]>>
           w == proc[p].work \ {call}
           o == proc[p].out \o Written(call)
<1>2. /\ proc[p] \in ProcessRecord /\ proc[p].work \in SUBSET Call
      /\ proc[p].out \in Seq(Message)
  BY ProcessFacts
<1>3. a \in Seq(Message) /\ b \in Seq(Message)
  <2>1. /\ [kind |-> "update", call |-> call] \in Message
        /\ [kind |-> "answer", call |-> call] \in Message
    BY <1>2 DEF Message
  <2>2. QED
    BY <2>1
<1>4. (proc[p].out \o a) \o b = o /\ o \in Seq(Message)
  <2>1. Written(call) = a \o b
    BY DEF Written
  <2> HIDE DEF a, b
  <2>2. o = proc[p].out \o (a \o b)
    BY <2>1, Zenon
  <2> HIDE DEF o
  <2>3. (proc[p].out \o a) \o b = proc[p].out \o (a \o b)
    <3>1. \A s, t, u \in Seq(Message) : (s \o t) \o u = s \o (t \o u)
      BY ConcatAssociative
    <3>2. QED
      BY <1>2, <1>3, <3>1, Zenon
  <2>4. a \o b \in Seq(Message)
    BY <1>3, ConcatProperties, Zenon
  <2>5. proc[p].out \o (a \o b) \in Seq(Message)
    BY <1>2, <2>4, ConcatProperties, Zenon
  <2>6. QED
    BY <2>2, <2>3, <2>5, Zenon
<1>5. w \in SUBSET Call
  BY <1>2
<1>6. proc' = [proc EXCEPT ![p] = [proc[p] EXCEPT !.work = w, !.out = o]]
  <2>1. proc' = [proc EXCEPT ![p] = [proc[p] EXCEPT !.work = w,
                                                    !.out = (proc[p].out \o a) \o b]]
    BY <1>1, <1>2 DEF Types, ProcessRecord
  <2>2. QED
    BY <1>4, <2>1
<1> HIDE DEF a, b, w, o
<1>7. PFields([proc[p] EXCEPT !.work = w, !.out = o], proc[p].up, proc[p].closed,
              proc[p].callMu, w, o)
  BY <1>2, <1>4, <1>5 DEF PFields, ProcessRecord
<1>8. PGoes(p, proc[p].up, proc[p].closed, proc[p].callMu, w, o)
  BY <1>6, <1>7, GoesFrom
<1>9. QED
  BY <1>8 DEF w, o
-----------------------------------------------------------------------------
(* The invariant of one request, and how the request of a step keeps it.   *)

RequestInv(r) ==
    /\ req[r].at \notin {"none", "get", "start", "done"} => req[r].proc \in 1 .. started
    /\ IF req[r].at \in {"drop", "dropping"}
       THEN req[r].then = "retry" => req[r].try = 1
       ELSE req[r].then = "retry"
    /\ (\/ req[r].at \in {"none", "get", "start"}
        \/ req[r].at \in {"drop", "dropping"} /\ req[r].then = "retry") => req[r].text = {}
    /\ \A call \in req[r].text : call = PromptOf(r, req[r].try) \/ call \in cut
    /\ \A call \in cut : call.by = r => Past(call)

RequestsInv == /\ pool \in (1 .. started) \union {None}
               /\ \A r \in Requests : RequestInv(r)

LEMMA RequestInvs ==
    ASSUME Types
    PROVE  (Placed /\ FirstTry /\ NoTextYet /\ CutIsPast /\ TextIsTheRequests) <=> RequestsInv
<1>1. \A call \in cut : call.by \in Requests
  BY DEF Types, Call
<1>2. QED
  BY <1>1 DEF RequestsInv, Placed, FirstTry, NoTextYet, CutIsPast, TextIsTheRequests,
              RequestInv

\* What every step does to the rest of the state.
Grown ==
    /\ started' \in started .. MaxStarts /\ faults' \in 0 .. MaxFaults
    /\ robbed' \subseteq Processes
    /\ cut \subseteq cut' /\ cut' \subseteq Call
    /\ astray \subseteq astray' /\ astray' \subseteq Processes
    /\ pool' \in (1 .. started') \union {None}

Moves(r) ==
    /\ req' \in [Requests -> RequestRecord]
    /\ \A q \in Requests : q # r => req'[q] = req[q]
    /\ ended \subseteq ended' /\ ended' \subseteq Requests
    /\ \A call \in cut' : call \in cut \/ call.by = r
    /\ RequestInv(r)'

Leaves(r) == Moves(r) /\ req'[r].at # "recv"

\* The call that r is in is the only one it may cut short.
CutsOwn(r) == \A call \in cut' : call \in cut \/ call = CallOf(r)

LEMMA OthersKeep ==
    ASSUME Types, NEW r \in Requests, \A q \in Requests : RequestInv(q), Grown, Moves(r)
    PROVE  \A q \in Requests : RequestInv(q)'
<1> SUFFICES ASSUME NEW q \in Requests
             PROVE  RequestInv(q)'
  OBVIOUS
<1>1. CASE q = r
  BY <1>1 DEF Moves
<1>2. CASE q # r
  <2>1. req'[q] = req[q] /\ cut \subseteq cut'
    BY <1>2 DEF Moves, Grown
  <2>2. 1 .. started \subseteq 1 .. started'
    BY AcpAssumption DEF Types, Grown
  <2>3. RequestInv(q) /\ \A call \in cut' : call.by = q => call \in cut
    BY <1>2 DEF Moves
  <2>4. \A call \in cut' : call.by = q => Past(call)'
    BY <2>1, <2>3 DEF RequestInv, Past
  <2>5. QED
    BY <2>1, <2>2, <2>3, <2>4 DEF RequestInv, PromptOf
<1>3. QED
  BY <1>1, <1>2

LEMMA FinishMoves ==
    ASSUME Types, NEW r \in Requests, CutsOwn(r), Finishes(r)
    PROVE  Leaves(r)
<1>1. \A call \in cut' : call \in cut \/ call.by = r
  BY CallType DEF CutsOwn
<1>2. \A call : call.by = r => Past(call)'
  BY DEF Finishes, RGoes, Past
<1>3. QED
  BY <1>1, <1>2 DEF Finishes, RGoes, Leaves, Moves, RequestInv, Types

\* Where a request is that has a process.
Bound(r) == req[r].at \notin {"none", "get", "start", "done"}

\* A call that was cut short before is a call of an earlier try, and so stays past.
LEMMA CutBefore ==
    ASSUME NEW r \in Requests, RequestInv(r), req[r].at \notin {"drop", "dropping", "done"},
           NEW call \in cut, call.by = r
    PROVE  call.try < req[r].try
BY DEF RequestInv, Past

LEMMA FailMoves ==
    ASSUME Types, NEW r \in Requests, RequestInv(r), Bound(r), Grown, CutsOwn(r),
           req[r].at \notin {"drop", "dropping"}, NEW broken, Fail(r, broken)
    PROVE  Leaves(r)
<1>1. CASE Finishes(r)
  BY <1>1, FinishMoves
<1>2. /\ 1 .. started \subseteq 1 .. started' /\ cut \subseteq cut'
      /\ \A call \in cut' : call \in cut \/ call.by = r
  BY AcpAssumption, CallType DEF Types, Grown, CutsOwn
<1>3. ASSUME req'[r].at = "drop", req'[r].try = req[r].try
      PROVE  \A call \in cut' : call.by = r => Past(call)'
  <2> SUFFICES ASSUME NEW call \in cut', call.by = r
               PROVE  Past(call)'
    OBVIOUS
  <2>1. CASE call = CallOf(r)
    BY <1>3, <2>1 DEF Past, CallOf
  <2>2. CASE call # CallOf(r)
    <3>1. call.try < req[r].try
      BY <2>2, CutBefore DEF CutsOwn, Bound
    <3>2. QED
      BY <1>3, <3>1 DEF Past
  <2>3. QED
    BY <2>1, <2>2
<1>4. ASSUME ended' = ended,
             RGoes(r, "drop", req[r].proc, req[r].method, req[r].try, "done", req[r].text)
      PROVE  Leaves(r)
  BY <1>2, <1>3, <1>4 DEF RGoes, Leaves, Moves, RequestInv, Types, Bound, PromptOf
<1>5. ASSUME ended' = ended, req[r].try = 1,
             RGoes(r, "drop", req[r].proc, req[r].method, req[r].try, req[r].then, {})
      PROVE  Leaves(r)
  BY <1>2, <1>3, <1>5 DEF RGoes, Leaves, Moves, RequestInv, Types, Bound
<1>6. QED
  BY <1>1, <1>4, <1>5, FailGoes

\* A step of r that stays in its try and cuts nothing short.
LEMMA StillPast ==
    ASSUME NEW r \in Requests, RequestInv(r), req[r].at \notin {"drop", "dropping", "done"},
           cut' = cut, req'[r].try = req[r].try
    PROVE  \A call \in cut' : call.by = r => Past(call)'
BY CutBefore DEF Past

LEMMA ProceedMoves ==
    ASSUME Types, NEW r \in Requests, RequestInv(r), Bound(r), Grown, cut' = cut,
           req[r].at \notin {"drop", "dropping"}, Proceed(r)
    PROVE  Leaves(r)
<1>1. CASE Finishes(r)
  BY <1>1, FinishMoves DEF CutsOwn
<1>2. ASSUME ended' = ended, NEW method \in Methods,
             RGoes(r, "call", req[r].proc, method, req[r].try, req[r].then, req[r].text)
      PROVE  Leaves(r)
  <2>1. 1 .. started \subseteq 1 .. started'
    BY AcpAssumption DEF Types, Grown
  <2>2. \A call \in cut' : call.by = r => Past(call)'
    BY <1>2, StillPast DEF RGoes, Bound
  <2>3. QED
    BY <1>2, <2>1, <2>2 DEF RGoes, Leaves, Moves, RequestInv, Types, Bound, PromptOf
<1>3. QED
  BY <1>1, <1>2, ProceedGoes

LEMMA AfterDropMoves ==
    ASSUME Types, FirstTry, NEW r \in Requests, RequestInv(r), cut' = cut,
           req[r].at \in {"drop", "dropping"}, AfterDrop(r)
    PROVE  Leaves(r)
<1>1. CASE Finishes(r)
  BY <1>1, FinishMoves DEF CutsOwn
<1>2. ASSUME req[r].then = "retry", ended' = ended,
             RGoes(r, "get", None, "initialize", 2, "retry", req[r].text)
      PROVE  Leaves(r)
  <2>1. req[r].text = {} /\ req[r].try = 1
    BY <1>2 DEF RequestInv
  <2>2. \A call \in cut : call.by = r => Past(call)'
    <3> SUFFICES ASSUME NEW call \in cut, call.by = r
                 PROVE  Past(call)'
      OBVIOUS
    <3>1. call.try <= 1 /\ call.try \in 1 .. 2
      BY <2>1 DEF RequestInv, Past, Types, Call
    <3>2. req'[r].try = 2
      BY <1>2 DEF RGoes
    <3>3. QED
      BY <3>1, <3>2 DEF Past
  <2>3. QED
    BY <1>2, <2>1, <2>2 DEF RGoes, Leaves, Moves, RequestInv, Types
<1>3. QED
  BY <1>1, <1>2, AfterDropGoes
-----------------------------------------------------------------------------
(* How the steps keep what is under way for a call.                        *)

SameCall(q) == /\ req'[q].at = req[q].at /\ req'[q].proc = req[q].proc
               /\ req'[q].method = req[q].method /\ req'[q].try = req[q].try

\* The pipe was left alone or closed, or its first message was read.
Drained(p) ==
    \/ proc'[p].out = proc[p].out
    \/ proc'[p].out = <<>>
    \/ proc[p].out # <<>> /\ proc'[p].out = Tail(proc[p].out)

LEMMA PairKept ==
    ASSUME Types, NEW p \in Processes, NEW call, OutstandingAt(p, call), Drained(p),
           call \in proc'[p].work => call \in proc[p].work,
           Waits(p, call) => Waits(p, call)'
    PROVE  OutstandingAt(p, call)'
<1> DEFINE s == proc[p].out
           t == proc'[p].out
           Now == Waits(p, call)'
<1>1. s \in Seq(Message) /\ Len(s) \in Nat
  BY ProcessFacts
<1>2. call \in proc[p].work => Now /\ \A i \in 1 .. Len(s) : ~ Of(s[i], call)
  BY DEF OutstandingAt
<1>3. \A i \in 1 .. Len(s) :
         Of(s[i], call) =>
           Now /\ (s[i].kind = "answer" => \A j \in i + 1 .. Len(s) : ~ Of(s[j], call))
  BY DEF OutstandingAt
<1> SUFFICES /\ call \in proc'[p].work => Now /\ \A i \in 1 .. Len(t) : ~ Of(t[i], call)
             /\ \A i \in 1 .. Len(t) :
                   Of(t[i], call) =>
                     Now /\ (t[i].kind = "answer" => \A j \in i + 1 .. Len(t) : ~ Of(t[j], call))
  BY DEF OutstandingAt, Of
<1>4. CASE t = s
  <2> HIDE DEF Now, s, t
  <2>1. QED
    BY <1>2, <1>3, <1>4
<1>5. CASE t = <<>>
  <2>1. 1 .. Len(t) = {}
    BY <1>5
  <2> HIDE DEF Now, s, t
  <2>2. QED
    BY <1>2, <2>1
<1>6. CASE s # <<>> /\ t = Tail(s)
  <2>1. /\ Len(t) \in Nat /\ Len(t) = Len(s) - 1 /\ Len(s) >= 1
        /\ \A i \in 1 .. Len(t) : i + 1 \in 1 .. Len(s) /\ t[i] = s[i + 1]
    <3> HIDE DEF s, t
    <3>1. QED
      BY <1>1, <1>6, TailType
  <2> HIDE DEF Now, s, t
  <2>2. call \in proc'[p].work => Now /\ \A i \in 1 .. Len(t) : ~ Of(t[i], call)
    BY <1>2, <2>1
  <2>3. ASSUME NEW i \in 1 .. Len(t), Of(t[i], call)
        PROVE  Now /\ (t[i].kind = "answer" => \A j \in i + 1 .. Len(t) : ~ Of(t[j], call))
    <3>1. i + 1 \in 1 .. Len(s) /\ t[i] = s[i + 1]
      BY <2>1
    <3>2. /\ Now
          /\ s[i + 1].kind = "answer" => \A j \in (i + 1) + 1 .. Len(s) : ~ Of(s[j], call)
      BY <1>3, <2>3, <3>1
    <3>3. ASSUME t[i].kind = "answer", NEW j \in i + 1 .. Len(t)
          PROVE  ~ Of(t[j], call)
      <4>1. j \in 1 .. Len(t) /\ j + 1 \in (i + 1) + 1 .. Len(s)
        BY <2>1
      <4>2. t[j] = s[j + 1]
        BY <2>1, <4>1
      <4>3. QED
        BY <3>1, <3>2, <3>3, <4>1, <4>2
    <3>4. QED
      BY <3>2, <3>3
  <2>4. QED
    BY <2>2, <2>3
<1>7. QED
  BY <1>4, <1>5, <1>6 DEF Drained

LEMMA NothingKept ==
    ASSUME NEW p \in Processes, NEW call, call \notin proc'[p].work,
           \A i \in 1 .. Len(proc'[p].out) : ~ Of(proc'[p].out[i], call)
    PROVE  OutstandingAt(p, call)'
BY DEF OutstandingAt, Of

\* Only the call that r was in needs a word of its own.
LEMMA OutstandingKept ==
    ASSUME Types, Outstanding, cut \subseteq cut', NEW r \in Requests,
           \A q \in Requests : q # r => SameCall(q),
           \A p \in Processes : proc'[p].work \subseteq proc[p].work /\ Drained(p),
           \/ SameCall(r) \/ req[r].at # "recv" \/ CallOf(r) \in cut'
           \/ \A p \in Processes, call \in Call :
                p = req[r].proc /\ call = CallOf(r) => OutstandingAt(p, call)'
    PROVE  Outstanding'
<1> SUFFICES ASSUME NEW p \in Processes, NEW call \in Call \ cut'
             PROVE  OutstandingAt(p, call)'
  BY DEF Outstanding
<1>1. OutstandingAt(p, call) /\ call.by \in Requests
  BY DEF Outstanding, Call
<1>2. CASE Waits(p, call) => Waits(p, call)'
  BY <1>1, <1>2, PairKept
<1>3. CASE Waits(p, call) /\ ~ Waits(p, call)'
  <2>1. req[call.by].at = "recv" /\ req[call.by].proc = p /\ call = CallOf(call.by)
    BY <1>3 DEF Waits
  <2>2. ~ SameCall(call.by)
    BY <1>3, <2>1 DEF Waits, SameCall, CallOf
  <2>3. call.by = r
    BY <1>1, <2>2
  <2>4. QED
    BY <1>1, <2>1, <2>2, <2>3
<1>4. QED
  BY <1>2, <1>3

LEMMA HeldKept ==
    ASSUME Types, Placed, Held, NEW r \in Requests,
           \A p \in Processes : \/ proc'[p].callMu = proc[p].callMu
                                \/ proc'[p].callMu = Released(p, r),
           \A q \in Requests :
              req'[q].at = "recv" =>
                /\ SameCall(q)
                /\ q # r \/ \A p \in Processes : proc'[p].callMu = proc[p].callMu
    PROVE  Held'
<1> SUFFICES ASSUME NEW q \in Requests, req'[q].at = "recv"
             PROVE  proc'[req'[q].proc].callMu = q
  BY DEF Held
<1>1. /\ req[q].at = "recv" /\ req'[q].proc = req[q].proc
      /\ proc[req[q].proc].callMu = q
  BY DEF Held, SameCall
<1>2. req[q].proc \in Processes
  BY <1>1, ProcessOf
<1>3. QED
  BY <1>1, <1>2 DEF Released
-----------------------------------------------------------------------------
(* How the steps keep where the first prompt of a request may be.          *)

\* What the step of r has to show of its own prompt.
FirstOwn(r) == r \in ended' \/ \A p \in Processes : FirstAt(p, r)'

LEMMA FirstKept ==
    ASSUME First, ended \subseteq ended', astray \subseteq astray', NEW r \in Requests,
           \A q \in Requests : q # r => req'[q] = req[q],
           \A p \in Processes : proc'[p].work \subseteq proc[p].work,
           FirstOwn(r)
    PROVE  First'
<1> SUFFICES ASSUME NEW q \in Requests \ ended', NEW p \in Processes
             PROVE  FirstAt(p, q)'
  BY DEF First
<1>1. CASE q = r
  BY <1>1 DEF FirstOwn
<1>2. CASE q # r
  <2>1. FirstAt(p, q) /\ req'[q] = req[q] /\ proc'[p].work \subseteq proc[p].work
    BY <1>2 DEF First
  <2>2. PromptOf(q, 1).by = q
    BY DEF PromptOf
  <2>3. Waits(p, PromptOf(q, 1)) => Waits(p, PromptOf(q, 1))'
    BY <2>1, <2>2 DEF Waits, CallOf, PromptOf
  <2>4. QED
    BY <2>1, <2>3 DEF FirstAt, PromptOf
<1>3. QED
  BY <1>1, <1>2

\* r is neither in a call nor in a Drop, and stays in its try.
LEMMA FirstElsewhere ==
    ASSUME First, astray \subseteq astray', ended \subseteq ended', NEW r \in Requests,
           \A p \in Processes : proc'[p].work \subseteq proc[p].work,
           req[r].at \notin {"recv", "drop", "dropping"}, req'[r].try = req[r].try
    PROVE  FirstOwn(r)
<1> SUFFICES ASSUME r \notin ended', NEW p \in Processes, PromptOf(r, 1) \in proc'[p].work
             PROVE  req'[r].try = 2 /\ p \in astray'
  BY DEF FirstOwn, FirstAt, PromptOf
<1>1. FirstAt(p, r) /\ PromptOf(r, 1) \in proc[p].work
  BY DEF First
<1>2. ~ Waits(p, PromptOf(r, 1))
  BY DEF Waits, PromptOf
<1>3. QED
  BY <1>1, <1>2 DEF FirstAt

\* r fails in a call, or before it was sent.
LEMMA FailFirst ==
    ASSUME Types, FirstTry, First, astray \subseteq astray', ended \subseteq ended',
           NEW r \in Requests, \A p \in Processes : proc'[p].work \subseteq proc[p].work,
           req[r].at \in {"call", "recv"}, NEW broken, Fail(r, broken)
    PROVE  FirstOwn(r)
<1>1. CASE Finishes(r)
  BY <1>1 DEF Finishes, FirstOwn
<1>2. CASE ~ Finishes(r)
  <2> SUFFICES ASSUME r \notin ended', NEW p \in Processes, PromptOf(r, 1) \in proc'[p].work
               PROVE  FirstAt(p, r)'
    BY DEF FirstOwn, FirstAt, PromptOf
  <2>1. FirstAt(p, r) /\ PromptOf(r, 1) \in proc[p].work
    BY DEF First
  <2>2. /\ req'[r].at = "drop" /\ req'[r].proc = req[r].proc /\ req'[r].try = req[r].try
        /\ req[r].method = "session/close" \/ req'[r].then = req[r].then
    BY <1>2, FailGoes DEF RGoes
  <2>3. CASE Waits(p, PromptOf(r, 1))
    <3>1. req[r].method = "session/prompt" /\ req[r].proc = p
      BY <2>3 DEF Waits, PromptOf, CallOf
    <3>2. req[r].then = "retry"
      BY DEF FirstTry
    <3>3. QED
      BY <2>2, <3>1, <3>2 DEF FirstAt
  <2>4. CASE ~ Waits(p, PromptOf(r, 1))
    BY <2>1, <2>2, <2>4 DEF FirstAt
  <2>5. QED
    BY <2>3, <2>4
<1>3. QED
  BY <1>1, <1>2

\* What the proof of every step comes to.
LEMMA StepKeeps ==
    ASSUME IInv, NEW r \in Requests, Grown, Moves(r),
           proc' \in [Processes -> ProcessRecord], Down', Held', Outstanding', First'
    PROVE  IInv'
<1>1. Types'
  <2>1. started' \in 0 .. MaxStarts /\ 1 .. started' \subseteq Processes
    BY AcpAssumption DEF IInv, Types, Grown, Processes
  <2>2. QED
    BY <2>1 DEF Types, Grown, Moves
<1>2. \A q \in Requests : RequestInv(q)
  BY RequestInvs DEF IInv, RequestsInv
<1>3. \A q \in Requests : RequestInv(q)'
  BY <1>2, OthersKeep DEF IInv
<1>4. RequestsInv'
  <2>1. pool' \in (1 .. started') \union {None}
    BY DEF Grown
  <2>2. QED
    BY <1>3, <2>1 DEF RequestsInv
<1>5. (Placed /\ FirstTry /\ NoTextYet /\ CutIsPast /\ TextIsTheRequests)'
  BY <1>1, <1>4, RequestInvs, PTL
<1>6. QED
  BY <1>1, <1>5 DEF IInv
-----------------------------------------------------------------------------
(* The steps of a request that leave the processes alone.                  *)

LEMMA QuietStep ==
    ASSUME IInv, NEW r \in Requests, Grown, Moves(r), Quiet, FirstOwn(r),
           (req[r].at # "recv" /\ req'[r].at # "recv") \/ SameCall(r)
    PROVE  IInv'
<1>1. /\ \A q \in Requests : SameCall(q) \/ (req'[q].at # "recv" /\ req[q].at # "recv")
      /\ \A q \in Requests : q # r => SameCall(q)
      /\ \A p \in Processes :
           /\ proc'[p].up = proc[p].up /\ proc'[p].closed = proc[p].closed
           /\ proc'[p].callMu = proc[p].callMu
           /\ proc'[p].work = proc[p].work /\ proc'[p].out = proc[p].out
  BY DEF Moves, Quiet, PFields, SameCall
<1>2. Down'
  BY <1>1 DEF Down, IInv
<1>3. Held'
  BY <1>1, HeldKept DEF IInv
<1>4. Outstanding'
  <2>1. \A p \in Processes : proc'[p].work \subseteq proc[p].work /\ Drained(p)
    BY <1>1 DEF Drained
  <2>2. QED
    BY <1>1, <2>1, OutstandingKept DEF IInv, Grown
<1>5. First'
  BY <1>1, FirstKept DEF IInv, Grown, Moves
<1>6. QED
  BY <1>2, <1>3, <1>4, <1>5, StepKeeps DEF Quiet

\* The other variables of a step that changes only these.
LEMMA GrownIfSame ==
    ASSUME Types, Placed, UNCHANGED <<started, faults, histories>>,
           pool' \in (1 .. started) \union {None}
    PROVE  Grown /\ cut' = cut /\ astray' = astray
BY AcpAssumption DEF Types, Grown, histories

LEMMA RequestInvOf ==
    ASSUME IInv, NEW r \in Requests
    PROVE  RequestInv(r)
BY RequestInvs DEF IInv, RequestsInv

\* A step of r that moves it on within its try, and cuts nothing short.
LEMMA MovesOn ==
    ASSUME IInv, NEW r \in Requests, Grown, cut' = cut, ended' = ended,
           NEW at \in Places, NEW p \in Processes \union {None}, NEW method \in Methods,
           RGoes(r, at, p, method, req[r].try, req[r].then, req[r].text),
           req[r].at \notin {"drop", "dropping", "done"}, at \notin {"drop", "dropping"},
           at \notin {"none", "get", "start", "done"} => p \in 1 .. started',
           at \in {"none", "get", "start"} => req[r].text = {}
    PROVE  Moves(r)
<1>1. RequestInv(r) /\ Types
  BY RequestInvOf DEF IInv
<1>2. \A call \in cut' : call.by = r => Past(call)'
  BY <1>1, StillPast DEF RGoes
<1>3. QED
  BY <1>1, <1>2 DEF RGoes, Moves, RequestInv, Types, PromptOf

LEMMA GetKeeps ==
    ASSUME IInv, NEW r \in Requests, Get(r)
    PROVE  IInv'
<1>1. Types /\ Placed /\ NoTextYet /\ req[r] \in RequestRecord
  BY RequestFacts DEF IInv
<1>2. req[r].at \in {"none", "get"} /\ req[r].text = {} /\ ended' = ended
  BY <1>1 DEF Get, Arriving, NoTextYet
<1>3. Grown /\ Quiet /\ cut' = cut
  BY <1>1, GrownIfSame, QuietIfSame DEF Get, Placed
<1>4. ASSUME req'[r].try = req[r].try
      PROVE  FirstOwn(r)
  <2>1. \A p \in Processes : proc'[p].work \subseteq proc[p].work
    BY DEF Get
  <2>2. QED
    BY <1>2, <1>3, <1>4, <2>1, FirstElsewhere DEF IInv, Grown
<1>5. CASE pool # None /\ ~ proc[pool].closed
  <2>1. /\ pool \in Processes \union {None} /\ pool \in 1 .. started /\ "init" \in Places
        /\ started' = started
    BY <1>1, <1>5 DEF Types, Placed, Places, Get
  <2>2. req' = [req EXCEPT ![r] = [req[r] EXCEPT !.at = "init", !.proc = pool]]
    BY <1>1, <1>5 DEF Get, Types
  <2>3. RGoes(r, "init", pool, req[r].method, req[r].try, req[r].then, req[r].text)
    BY <1>1, <2>1, <2>2, GoesAtProc
  <2>4. req[r].method \in Methods
    BY <1>1, RequestFacts
  <2>5. Moves(r) /\ req'[r].at # "recv" /\ req'[r].try = req[r].try
    BY <1>2, <1>3, <2>1, <2>3, <2>4, MovesOn DEF RGoes
  <2>6. QED
    BY <1>2, <1>3, <1>4, <2>5, QuietStep
<1>6. CASE ~(pool # None /\ ~ proc[pool].closed)
  <2>1. "start" \in Places
    BY DEF Places
  <2>2. req' = [req EXCEPT ![r] = [req[r] EXCEPT !.at = "start"]]
    BY <1>1, <1>6 DEF Get, Types
  <2>3. RGoes(r, "start", req[r].proc, req[r].method, req[r].try, req[r].then, req[r].text)
    BY <1>1, <2>1, <2>2, GoesAt
  <2>4. req[r].method \in Methods /\ req[r].proc \in Processes \union {None}
    BY <1>1, RequestFacts
  <2>5. Moves(r) /\ req'[r].at # "recv" /\ req'[r].try = req[r].try
    BY <1>2, <1>3, <2>1, <2>3, <2>4, MovesOn DEF RGoes
  <2>6. QED
    BY <1>2, <1>3, <1>4, <2>5, QuietStep
<1>7. QED
  BY <1>5, <1>6

LEMMA StartFailsKeeps ==
    ASSUME IInv, NEW r \in Requests, StartFails(r)
    PROVE  IInv'
<1>1. Types /\ Placed
  BY DEF IInv
<1>2. Grown /\ Quiet /\ CutsOwn(r)
  BY <1>1, GrownIfSame, QuietIfSame DEF StartFails, Placed, CutsOwn
<1>3. Finishes(r)
  BY <1>1, FinishGoes DEF StartFails
<1>4. Leaves(r) /\ FirstOwn(r)
  BY <1>1, <1>2, <1>3, FinishMoves DEF Finishes, FirstOwn
<1>5. QED
  BY <1>2, <1>4, QuietStep DEF StartFails, Leaves

LEMMA StoreKeeps ==
    ASSUME IInv, NEW r \in Requests, Store(r)
    PROVE  IInv'
<1>1. /\ Types /\ Placed /\ req[r] \in RequestRecord /\ "init" \in Places
      /\ req[r].method \in Methods /\ req[r].at = "store"
      /\ ended' = ended /\ started' = started
  BY RequestFacts DEF IInv, Places, Store
<1>2. req[r].proc \in Processes /\ req[r].proc \in 1 .. started
  BY <1>1, ProcessOf DEF Store
<1>3. Grown /\ Quiet /\ cut' = cut
  BY <1>1, <1>2, GrownIfSame, QuietIfSame DEF Store
<1>4. req' = [req EXCEPT ![r] = [req[r] EXCEPT !.at = "init"]]
  BY <1>1 DEF Store, Types
<1>5. RGoes(r, "init", req[r].proc, req[r].method, req[r].try, req[r].then, req[r].text)
  BY <1>1, <1>4, GoesAt
<1>6. Moves(r) /\ req'[r].at # "recv" /\ req'[r].try = req[r].try
  BY <1>1, <1>2, <1>3, <1>5, MovesOn DEF RGoes
<1>7. FirstOwn(r)
  BY <1>1, <1>3, <1>6, FirstElsewhere DEF IInv, Grown, Store
<1>8. QED
  BY <1>1, <1>3, <1>6, <1>7, QuietStep

LEMMA EnsureInitializedKeeps ==
    ASSUME IInv, NEW r \in Requests, EnsureInitialized(r)
    PROVE  IInv'
<1>1. /\ Types /\ Placed /\ req[r] \in RequestRecord /\ "call" \in Places
      /\ req[r].at = "init" /\ ended' = ended /\ started' = started
  BY RequestFacts DEF IInv, Places, EnsureInitialized
<1>2. req[r].proc \in Processes /\ req[r].proc \in 1 .. started
  BY <1>1, ProcessOf DEF EnsureInitialized
<1>3. Grown /\ Quiet /\ cut' = cut
  BY <1>1, GrownIfSame, EnsureProc DEF EnsureInitialized, Placed
<1>4. PICK method \in Methods :
         req' = [req EXCEPT ![r] = [req[r] EXCEPT !.at = "call", !.method = method]]
  BY <1>1 DEF EnsureInitialized, Types, Methods
<1>5. RGoes(r, "call", req[r].proc, method, req[r].try, req[r].then, req[r].text)
  BY <1>1, <1>4, GoesAtMethod
<1>6. Moves(r) /\ req'[r].at # "recv" /\ req'[r].try = req[r].try
  BY <1>1, <1>2, <1>3, <1>5, MovesOn DEF RGoes
<1>7. FirstOwn(r)
  <2>1. \A p \in Processes : proc'[p].work \subseteq proc[p].work
    BY <1>3 DEF Quiet, PFields
  <2>2. QED
    BY <1>1, <1>3, <1>6, <2>1, FirstElsewhere DEF IInv, Grown
<1>8. QED
  BY <1>1, <1>3, <1>6, <1>7, QuietStep

\* The client of r leaves.
LEMMA CancelKeeps ==
    ASSUME IInv, NEW r \in Requests, Cancel(r)
    PROVE  IInv'
<1>1. Types /\ Placed /\ RequestInv(r)
  BY RequestInvOf DEF IInv
<1>2. Grown /\ Quiet /\ cut' = cut
  <2>1. faults' \in 0 .. MaxFaults
    BY <1>1, AcpAssumption DEF Types, Cancel
  <2>2. QED
    BY <1>1, <2>1, AcpAssumption, QuietIfSame
       DEF Cancel, Grown, Types, Placed, histories
<1>3. Moves(r) /\ SameCall(r) /\ FirstOwn(r)
  <2>1. req' = req /\ ended' = ended \union {r} /\ started' = started
    BY DEF Cancel
  <2>2. RequestInv(r)'
    BY <1>1, <1>2, <2>1 DEF RequestInv, Past
  <2>3. QED
    BY <1>1, <1>2, <2>1, <2>2 DEF Moves, Types, SameCall, FirstOwn
<1>4. QED
  BY <1>2, <1>3, QuietStep
-----------------------------------------------------------------------------
(* The steps of a request at the pipe.                                     *)

\* r reads from the pipe of p, or leaves it.
LEMMA PipeStep ==
    ASSUME IInv, NEW r \in Requests, NEW p \in Processes, Grown, Moves(r), FirstOwn(r),
           NEW callMu, NEW out,
           PGoes(p, proc[p].up, proc[p].closed, callMu, proc[p].work, out),
           \/ SameCall(r) /\ callMu = proc[p].callMu
           \/ req'[r].at # "recv" /\ callMu \in {proc[p].callMu, Released(p, r)},
           out = proc[p].out \/ (proc[p].out # <<>> /\ out = Tail(proc[p].out)),
           \/ SameCall(r) \/ req[r].at # "recv" \/ CallOf(r) \in cut'
           \/ \A o \in Processes, call \in Call :
                o = req[r].proc /\ call = CallOf(r) => OutstandingAt(o, call)'
    PROVE  IInv'
<1>1. /\ proc' \in [Processes -> ProcessRecord]
      /\ proc'[p].up = proc[p].up /\ proc'[p].closed = proc[p].closed
      /\ proc'[p].callMu = callMu /\ proc'[p].work = proc[p].work /\ proc'[p].out = out
      /\ \A o \in Processes : o # p => proc'[o] = proc[o]
  BY DEF PGoes, PFields
<1>2. \A q \in Requests : q # r => req'[q] = req[q] /\ SameCall(q)
  BY DEF Moves, SameCall
<1>3. Down'
  BY <1>1 DEF Down, IInv
<1>4. Held'
  <2>1. \A o \in Processes : \/ proc'[o].callMu = proc[o].callMu
                             \/ proc'[o].callMu = Released(o, r)
    BY <1>1
  <2>2. \A q \in Requests :
           req'[q].at = "recv" =>
             /\ SameCall(q)
             /\ q # r \/ \A o \in Processes : proc'[o].callMu = proc[o].callMu
    BY <1>1, <1>2
  <2>3. QED
    BY <2>1, <2>2, HeldKept DEF IInv
<1>5. \A o \in Processes : proc'[o].work \subseteq proc[o].work /\ Drained(o)
  <2> TAKE o \in Processes
  <2>1. CASE o = p
    BY <1>1, <2>1 DEF Drained
  <2>2. CASE o # p
    BY <1>1, <2>2 DEF Drained
  <2>3. QED
    BY <2>1, <2>2
<1>6. Outstanding'
  BY <1>2, <1>5, OutstandingKept DEF IInv, Grown
<1>7. First'
  BY <1>2, <1>5, FirstKept DEF IInv, Grown, Moves
<1>8. QED
  BY <1>1, <1>3, <1>4, <1>6, <1>7, StepKeeps

\* r fails in a call or before it was sent, whatever it leaves in the pipe.
LEMMA FailedStep ==
    ASSUME IInv, NEW r \in Requests, NEW p \in Processes, p = req[r].proc,
           req[r].at \in {"call", "recv"}, Grown, CutsOwn(r), ended \subseteq ended',
           NEW out,
           PGoes(p, proc[p].up, proc[p].closed, Released(p, r), proc[p].work, out),
           out = proc[p].out \/ (proc[p].out # <<>> /\ out = Tail(proc[p].out)),
           NEW broken, Fail(r, broken),
           \/ req[r].at # "recv" \/ CallOf(r) \in cut'
           \/ \A o \in Processes, call \in Call :
                o = req[r].proc /\ call = CallOf(r) => OutstandingAt(o, call)'
    PROVE  IInv'
<1>1. Types /\ RequestInv(r) /\ Bound(r) /\ req[r].at \notin {"drop", "dropping"}
  BY RequestInvOf DEF IInv, Bound
<1>2. Leaves(r)
  BY <1>1, FailMoves
<1>3. \A o \in Processes : proc'[o].work \subseteq proc[o].work
  BY DEF PGoes, PFields
<1>4. FirstOwn(r)
  BY <1>3, FailFirst DEF IInv, Grown
<1>5. QED
  BY <1>2, <1>4, PipeStep DEF Leaves

\* Fail leaves the contexts of other requests alone.
LEMMA FailEnds ==
    ASSUME NEW r \in Requests, NEW broken, Fail(r, broken)
    PROVE  ended \subseteq ended'
BY DEF Fail, Finish

\* Send takes callMu and gives the agent the call, or finds the agent gone.
LEMMA SendKeeps ==
    ASSUME IInv, NEW r \in Requests, Send(r)
    PROVE  IInv'
<1>1. /\ Types /\ Placed /\ req[r].at = "call" /\ RequestInv(r) /\ Bound(r)
      /\ "recv" \in Places /\ req[r].method \in Methods
  BY RequestInvOf, RequestFacts DEF IInv, Send, Places, Bound
<1>2. PICK p \in Processes : p = req[r].proc /\ p \in 1 .. started
  BY <1>1, ProcessOf
<1>3. Grown /\ cut' = cut /\ astray' = astray /\ started' = started
  BY <1>1, GrownIfSame DEF Send, Placed
<1>4. CASE ~ proc[p].up
  <2>1. Fail(r, TRUE) /\ CutsOwn(r) /\ ended \subseteq ended'
    BY <1>2, <1>3, <1>4, FailEnds DEF Send, CutsOwn
  <2>2. PGoes(p, proc[p].up, proc[p].closed, Released(p, r), proc[p].work, proc[p].out)
    BY <1>1, <1>2, <1>4, UnlockedGoes DEF Send
  <2>3. QED
    BY <1>1, <1>2, <1>3, <2>1, <2>2, FailedStep
<1>5. CASE proc[p].up
  <2>1. req' = [req EXCEPT ![r] = [req[r] EXCEPT !.at = "recv"]] /\ ended' = ended
    BY <1>1, <1>2, <1>5 DEF Send, Types
  <2>2. RGoes(r, "recv", p, req[r].method, req[r].try, req[r].then, req[r].text)
    BY <1>1, <1>2, <2>1, GoesAt
  <2>3. Moves(r)
    BY <1>1, <1>2, <1>3, <2>1, <2>2, MovesOn
  <2>4. PICK w : w = proc[p].work \union {CallOf(r)}
    OBVIOUS
  <2>5. PGoes(p, TRUE, proc[p].closed, r, w, proc[p].out)
    BY <1>1, <1>2, <1>5, <2>4, SendProc
  <2>6. /\ proc' \in [Processes -> ProcessRecord]
        /\ proc'[p].up /\ proc'[p].closed = proc[p].closed
        /\ proc'[p].callMu = r /\ proc'[p].work = w /\ proc'[p].out = proc[p].out
        /\ \A o \in Processes : o # p => proc'[o] = proc[o]
    BY <2>5 DEF PGoes, PFields
  <2>7. proc[p].callMu = None /\ \A q \in Requests : q # None
    BY <1>2, AcpAssumption DEF Send
  <2>8. \A q \in Requests : q # r => req'[q] = req[q] /\ SameCall(q)
    BY <2>3 DEF Moves, SameCall
  <2>9. Down'
    BY <1>5, <2>6 DEF Down, IInv
  <2>10. Held'
    <3> SUFFICES ASSUME NEW q \in Requests, req'[q].at = "recv"
                 PROVE  proc'[req'[q].proc].callMu = q
      BY DEF Held
    <3>1. CASE q = r
      BY <2>2, <2>6, <3>1 DEF RGoes
    <3>2. CASE q # r
      <4>1. proc[req[q].proc].callMu = q /\ req'[q] = req[q] /\ req[q].at = "recv"
        BY <2>8, <3>2 DEF Held, IInv
      <4>2. req[q].proc \in Processes
        BY <1>1, <4>1, ProcessOf
      <4>3. QED
        BY <2>6, <2>7, <4>1, <4>2
    <3>3. QED
      BY <3>1, <3>2
  <2>11. \A o \in Processes, call \in Call :
            call \in proc'[o].work => call \in proc[o].work \/ (o = p /\ call = CallOf(r))
    BY <2>4, <2>6
  <2>12. /\ CallOf(r) \in Call /\ CallOf(r).by = r /\ CallOf(r)' = CallOf(r)
         /\ req'[r].at = "recv" /\ req'[r].proc = p /\ req'[r].try = req[r].try
    BY <1>1, <2>2, CallType DEF CallOf, RGoes
  <2>13. Outstanding'
    <3> SUFFICES ASSUME NEW o \in Processes, NEW call \in Call \ cut'
                 PROVE  OutstandingAt(o, call)'
      BY DEF Outstanding
    <3>1. OutstandingAt(o, call) /\ call.by \in Requests
      BY <1>3 DEF Outstanding, IInv, Call
    <3>2. CASE o # p \/ call # CallOf(r)
      <4>1. Drained(o)
        BY <2>6 DEF Drained
      <4>2. call \in proc'[o].work => call \in proc[o].work
        BY <2>11, <3>2
      <4>3. Waits(o, call) => Waits(o, call)'
        <5>1. call.by # r \/ ~ Waits(o, call)
          BY <1>1 DEF Waits
        <5>2. QED
          BY <2>8, <3>1, <5>1 DEF Waits, CallOf
      <4>4. QED
        BY <1>1, <3>1, <4>1, <4>2, <4>3, PairKept
    <3>3. CASE o = p /\ call = CallOf(r)
      <4>1. ~ Waits(p, call)
        BY <1>1, <2>12, <3>3 DEF Waits
      <4>2. \A i \in 1 .. Len(proc[p].out) : ~ Of(proc[p].out[i], call)
        BY <3>1, <3>3, <4>1 DEF OutstandingAt
      <4>3. Waits(p, call)'
        BY <2>12, <3>3 DEF Waits
      <4>4. QED
        BY <2>6, <3>3, <4>2, <4>3 DEF OutstandingAt, Of
    <3>4. QED
      BY <3>2, <3>3
  <2>14. First'
    <3> SUFFICES ASSUME NEW q \in Requests \ ended', NEW o \in Processes,
                        PromptOf(q, 1) \in proc'[o].work
                 PROVE  FirstAt(o, q)'
      BY DEF First, FirstAt, PromptOf
    <3>1. FirstAt(o, q) /\ PromptOf(q, 1) \in Call /\ PromptOf(q, 1).by = q
      BY <2>1 DEF First, IInv, PromptOf, Call, Methods
    <3>2. CASE q = r /\ PromptOf(q, 1) = CallOf(r) /\ o = p
      <4>1. Waits(o, PromptOf(q, 1))'
        BY <2>12, <3>2 DEF Waits, PromptOf
      <4>2. QED
        BY <4>1 DEF FirstAt
    <3>3. CASE q = r /\ ~(PromptOf(q, 1) = CallOf(r) /\ o = p)
      <4>1. PromptOf(q, 1) \in proc[o].work /\ ~ Waits(o, PromptOf(q, 1))
        BY <1>1, <2>11, <3>1, <3>3 DEF Waits
      <4>2. req[r].try = 2 /\ o \in astray
        BY <1>1, <3>1, <3>3, <4>1 DEF FirstAt
      <4>3. QED
        BY <1>3, <2>12, <3>3, <4>2 DEF FirstAt
    <3>4. CASE q # r
      <4>1. PromptOf(q, 1) \in proc[o].work /\ req'[q] = req[q]
        BY <2>8, <2>11, <2>12, <3>1, <3>4
      <4>2. Waits(o, PromptOf(q, 1)) => Waits(o, PromptOf(q, 1))'
        BY <3>1, <4>1 DEF Waits, CallOf, PromptOf
      <4>3. QED
        BY <1>3, <3>1, <4>1, <4>2 DEF FirstAt, PromptOf
    <3>5. QED
      BY <3>2, <3>3, <3>4
  <2>15. QED
    BY <1>3, <2>3, <2>6, <2>9, <2>10, <2>13, <2>14, StepKeeps
<1>6. QED
  BY <1>4, <1>5

\* A chunk that r reads is of the call it is in, or of one that was cut short.
LEMMA HeadIsOwn ==
    ASSUME IInv, NEW r \in Requests, NEW p \in Processes, req[r].at = "recv",
           req[r].proc = p, proc[p].out # <<>>, NEW call \in Call \ cut,
           Of(Head(proc[p].out), call)
    PROVE  call = CallOf(r)
<1>1. /\ Head(proc[p].out) = proc[p].out[1] /\ 1 \in 1 .. Len(proc[p].out)
  BY ProcessFacts, TailType DEF IInv
<1>2. OutstandingAt(p, call) /\ call.by \in Requests
  BY DEF IInv, Outstanding, Call
<1>3. Waits(p, call)
  BY <1>1, <1>2 DEF OutstandingAt
<1>4. proc[p].callMu = r /\ proc[p].callMu = call.by
  BY <1>2, <1>3 DEF IInv, Held, Waits
<1>5. QED
  BY <1>3, <1>4 DEF Waits

\* The call that a request is in was not cut short.
LEMMA CallIsWhole ==
    ASSUME IInv, NEW r \in Requests, req[r].at = "recv"
    PROVE  CallOf(r) \in Call \ cut /\ CallOf(r).by = r
<1>1. CallOf(r) \in Call /\ CallOf(r).by = r /\ CallOf(r).try = req[r].try
  BY CallType DEF IInv, CallOf
<1>2. req[r].try \in 1 .. 2
  BY RequestFacts DEF IInv
<1>3. ~ Past(CallOf(r))
  BY <1>1, <1>2 DEF Past
<1>4. QED
  BY <1>1, <1>3 DEF IInv, CutIsPast

\* After its answer nothing of a call is under way.
LEMMA AnswerIsLast ==
    ASSUME IInv, NEW r \in Requests, NEW p \in Processes, req[r].at = "recv",
           req[r].proc = p, proc[p].out # <<>>, NEW call, call = CallOf(r),
           Head(proc[p].out) = [kind |-> "answer", call |-> call],
           proc'[p].work = proc[p].work, proc'[p].out = Tail(proc[p].out)
    PROVE  OutstandingAt(p, call)' /\ call \notin proc[p].work
<1> DEFINE s == proc[p].out
           t == proc'[p].out
<1>1. /\ s[1].kind = "answer" /\ Of(s[1], call)
      /\ Len(s) \in Nat /\ Len(s) >= 1 /\ Len(t) = Len(s) - 1
      /\ \A i \in 1 .. Len(t) : t[i] = s[i + 1]
  <2>1. Head(s).kind = "answer" /\ Of(Head(s), call)
    BY DEF Of
  <2>2. s \in Seq(Message) /\ s # <<>> /\ t = Tail(s)
    BY ProcessFacts DEF IInv
  <2> HIDE DEF s, t
  <2>3. QED
    BY <2>1, <2>2, TailType
<1>2. OutstandingAt(p, call)
  BY CallIsWhole DEF IInv, Outstanding
<1>3. 1 \in 1 .. Len(s)
  BY <1>1
<1>4. call \notin proc[p].work
  BY <1>1, <1>2, <1>3 DEF OutstandingAt
<1>5. \A j \in 1 + 1 .. Len(s) : ~ Of(s[j], call)
  BY <1>1, <1>2, <1>3 DEF OutstandingAt
<1>6. \A i \in 1 .. Len(t) : ~ Of(t[i], call)
  <2> HIDE DEF s, t
  <2>1. QED
    BY <1>1, <1>5
<1>7. QED
  BY <1>4, <1>6, NothingKept

LEMMA ReceiveKeeps ==
    ASSUME IInv, NEW r \in Requests, Receive(r)
    PROVE  IInv'
<1>1. /\ Types /\ Placed /\ req[r].at = "recv" /\ RequestInv(r) /\ Bound(r)
      /\ req[r] \in RequestRecord
  BY RequestInvOf, RequestFacts DEF IInv, Receive, Bound
<1>2. PICK p \in Processes : p = req[r].proc /\ p \in 1 .. started
  BY <1>1, ProcessOf
<1>3. PICK message : message = Head(proc[p].out)
  OBVIOUS
<1>4. /\ proc[p].out # <<>> /\ message \in Message
  BY <1>1, <1>2, <1>3, ProcessFacts, TailType DEF Receive
<1>5. Grown /\ cut' = cut
  <2>1. faults' \in 0 .. MaxFaults
    BY <1>1, AcpAssumption DEF Types, Receive
  <2>2. QED
    BY <1>1, <2>1, AcpAssumption, SMTT(30) DEF Receive, Grown, Types, Placed, histories
<1>6. CASE TakesAnswer(r)
  <2>1. PGoes(p, proc[p].up, proc[p].closed, Released(p, r), proc[p].work,
              Tail(proc[p].out))
    BY <1>1, <1>2, <1>6, ReceiveProc
  <2>2. /\ proc'[p].work = proc[p].work /\ proc'[p].out = Tail(proc[p].out)
        /\ \A o \in Processes : proc'[o].work = proc[o].work
    BY <2>1 DEF PGoes, PFields
  <2>3. PICK call \in Call \ cut : call = CallOf(r)
    BY <1>1, CallIsWhole
  <2>4. Head(proc[p].out) = [kind |-> "answer", call |-> call]
    BY <1>2, <1>6, <2>3 DEF TakesAnswer
  <2>5. OutstandingAt(p, call)' /\ call \notin proc[p].work
    BY <1>1, <1>2, <1>4, <2>2, <2>3, <2>4, AnswerIsLast
  <2>6. \A o \in Processes, c \in Call :
           o = req[r].proc /\ c = CallOf(r) => OutstandingAt(o, c)'
    BY <1>2, <2>3, <2>5
  <2>7. ASSUME NEW broken \in BOOLEAN, Fail(r, broken)
        PROVE  IInv'
    BY <1>1, <1>2, <1>4, <1>5, <2>1, <2>6, <2>7, FailEnds, FailedStep DEF CutsOwn
  <2>8. ASSUME Proceed(r)
        PROVE  IInv'
    <3>1. Leaves(r)
      BY <1>1, <1>5, <2>8, ProceedMoves
    <3>2. FirstOwn(r)
      <4>1. CASE Finishes(r)
        BY <4>1 DEF Finishes, FirstOwn
      <4>2. CASE ~ Finishes(r)
        <5> SUFFICES ASSUME r \notin ended', NEW o \in Processes,
                            PromptOf(r, 1) \in proc'[o].work
                     PROVE  req'[r].try = 2 /\ o \in astray'
          BY DEF FirstOwn, FirstAt, PromptOf
        <5>1. FirstAt(o, r) /\ PromptOf(r, 1) \in proc[o].work
          BY <2>2, <3>1 DEF IInv, First, Leaves, Moves
        <5>2. PromptOf(r, 1).by = r
          BY DEF PromptOf
        <5>3. ~ Waits(o, PromptOf(r, 1))
          BY <1>2, <2>3, <2>5, <5>1, <5>2 DEF Waits
        <5>4. req[r].try = 2 /\ o \in astray
          BY <1>1, <5>1, <5>3 DEF FirstAt
        <5>5. req'[r].try = req[r].try
          BY <1>1, <2>8, <4>2, ProceedGoes DEF RGoes
        <5>6. QED
          BY <1>5, <5>4, <5>5 DEF Grown
      <4>3. QED
        BY <4>1, <4>2
    <3>3. QED
      BY <1>2, <1>4, <1>5, <2>1, <2>6, <3>1, <3>2, PipeStep DEF Leaves
  <2>9. QED
    BY <1>6, <2>7, <2>8 DEF Receive, TakesAnswer
<1>7. CASE ~ TakesAnswer(r)
  <2>1. PGoes(p, proc[p].up, proc[p].closed, proc[p].callMu, proc[p].work,
              Tail(proc[p].out))
    BY <1>1, <1>2, <1>7, ReceiveProc
  <2>2. ended' = ended /\ started' = started
    BY <1>7 DEF Receive, TakesAnswer
  <2>3. Moves(r) /\ SameCall(r) /\ req'[r].then = req[r].then
    <3>1. CASE req' = req
      BY <1>1, <1>5, <2>2, <3>1 DEF Moves, SameCall, RequestInv, Types, Past
    <3>2. CASE req' # req
      <4>1. /\ req' = [req EXCEPT ![r] =
                         [req[r] EXCEPT !.text = req[r].text \union {message.call}]]
            /\ message.kind = "update" /\ req[r].method = "session/prompt"
        BY <1>1, <1>2, <1>3, <1>7, <3>2 DEF Receive, TakesAnswer, Types, RequestRecord
      <4>2. message.call \in Call /\ Of(message, message.call)
        BY <1>4, <4>1 DEF Message, Noise, Of
      <4>3. PICK x : x = [req[r] EXCEPT !.text = req[r].text \union {message.call}]
        OBVIOUS
      <4>4. /\ x \in RequestRecord
            /\ x.at = req[r].at /\ x.proc = req[r].proc /\ x.method = req[r].method
            /\ x.try = req[r].try /\ x.then = req[r].then
            /\ x.text = req[r].text \union {message.call}
        BY <1>1, <4>2, <4>3 DEF RequestRecord
      <4>5. /\ req' \in [Requests -> RequestRecord] /\ req'[r] = x
            /\ \A q \in Requests : q # r => req'[q] = req[q]
        BY <1>1, <4>1, <4>3, <4>4 DEF Types
      <4>6. message.call \in cut \/ message.call = PromptOf(r, req[r].try)
        <5>1. message.call \in cut \/ message.call = CallOf(r)
          BY <1>1, <1>2, <1>3, <1>4, <4>2, HeadIsOwn
        <5>2. QED
          BY <4>1, <5>1 DEF CallOf, PromptOf
      <4>7. \A call \in cut' : call.by = r => Past(call)'
        BY <1>1, <1>5, <4>4, <4>5, StillPast
      <4>8. RequestInv(r)'
        BY <1>1, <1>2, <1>5, <2>2, <4>4, <4>5, <4>6, <4>7 DEF RequestInv, PromptOf
      <4>9. QED
        BY <1>1, <1>5, <2>2, <4>4, <4>5, <4>8 DEF Moves, SameCall, Types
    <3>3. QED
      BY <3>1, <3>2
  <2>4. FirstOwn(r)
    <3> SUFFICES ASSUME r \notin ended', NEW o \in Processes
                 PROVE  FirstAt(o, r)'
      BY DEF FirstOwn
    <3>1. FirstAt(o, r) /\ proc'[o].work = proc[o].work
      BY <2>1, <2>2 DEF IInv, First, PGoes, PFields
    <3>2. PromptOf(r, 1).by = r
      BY DEF PromptOf
    <3>3. Waits(o, PromptOf(r, 1)) => Waits(o, PromptOf(r, 1))'
      BY <2>3, <3>2 DEF Waits, CallOf, SameCall, PromptOf
    <3>4. QED
      BY <1>5, <2>3, <3>1, <3>3 DEF FirstAt, SameCall, Grown, PromptOf
  <2>5. QED
    BY <1>2, <1>4, <1>5, <2>1, <2>3, <2>4, PipeStep
<1>8. QED
  BY <1>6, <1>7

\* A call that is cut short: by noise, the end of the pipe, its client, or bytes that
\* an abandoned reader left of a message.
LEMMA CutKeeps ==
    ASSUME IInv, NEW r \in Requests, Misread(r) \/ Eof(r) \/ Abandon(r) \/ Garble(r)
    PROVE  IInv'
<1>1. /\ Types /\ Placed /\ req[r].at = "recv"
      /\ UNCHANGED <<pool, started, faults, astray>> /\ cut' = cut \union {CallOf(r)}
  BY DEF IInv, Misread, Eof, Abandon, Garble
<1>2. PICK p \in Processes : p = req[r].proc
  BY <1>1, ProcessOf
<1>3. Grown
  <2>1. robbed' \subseteq Processes
    BY <1>1, <1>2 DEF Misread, Eof, Abandon, Garble, Types
  <2>2. cut' \subseteq Call
    BY <1>1, CallType DEF Types
  <2>3. QED
    BY <1>1, <2>1, <2>2, AcpAssumption DEF Grown, Types, Placed
<1>4. CutsOwn(r) /\ CallOf(r) \in cut'
  BY <1>1 DEF CutsOwn
<1>5. PICK broken \in BOOLEAN : Fail(r, broken)
  BY DEF Misread, Eof, Abandon, Garble
<1>6. ended \subseteq ended'
  BY <1>5, FailEnds
<1>7. CASE Eof(r) \/ Abandon(r)
  <2>1. PGoes(p, proc[p].up, proc[p].closed, Released(p, r), proc[p].work, proc[p].out)
    BY <1>1, <1>2, <1>7, UnlockedGoes, AbandonProc DEF Eof
  <2>2. QED
    BY <1>1, <1>2, <1>3, <1>4, <1>5, <1>6, <2>1, FailedStep
<1>8. CASE Misread(r) \/ Garble(r)
  <2>1. /\ PGoes(p, proc[p].up, proc[p].closed, Released(p, r), proc[p].work,
                 Tail(proc[p].out))
        /\ proc[p].out # <<>>
    BY <1>1, <1>2, <1>8, MisreadProc, GarbleProc DEF Misread, Garble
  <2>2. QED
    BY <1>1, <1>2, <1>3, <1>4, <1>5, <1>6, <2>1, FailedStep
<1>9. QED
  BY <1>7, <1>8
-----------------------------------------------------------------------------
(* The steps that begin and end a process, and those of the agent.         *)

\* A process that was just started has no call and no reader.
LEMMA StartKeeps ==
    ASSUME IInv, NEW r \in Requests, Start(r)
    PROVE  IInv'
<1>1. /\ Types /\ Placed /\ req[r].at = "start" /\ "store" \in Places
      /\ req[r] \in RequestRecord /\ req[r].method \in Methods /\ ended' = ended
  BY RequestFacts DEF IInv, Start, Places
<1>2. PICK p \in Processes : p = started + 1
  BY <1>1, StartProc
<1>3. PGoes(p, TRUE, FALSE, None, {}, <<>>)
  BY <1>1, <1>2, StartProc
<1>4. /\ proc' \in [Processes -> ProcessRecord]
      /\ proc'[p].up = TRUE /\ proc'[p].closed = FALSE
      /\ proc'[p].work = {} /\ proc'[p].out = <<>>
      /\ \A o \in Processes : o # p => proc'[o] = proc[o]
  BY <1>3 DEF PGoes, PFields
<1>5. req' = [req EXCEPT ![r] = [req[r] EXCEPT !.at = "store", !.proc = p]]
  BY <1>1, <1>2 DEF Start, Types
<1>6. RGoes(r, "store", p, req[r].method, req[r].try, req[r].then, req[r].text)
  BY <1>1, <1>5, GoesAtProc
<1>7. Grown /\ cut' = cut /\ p \in 1 .. started'
  BY <1>1, <1>2, AcpAssumption DEF Start, Grown, Types, Placed, Processes, histories
<1>8. Moves(r) /\ req'[r].at # "recv" /\ req'[r].try = req[r].try
  BY <1>1, <1>6, <1>7, MovesOn DEF RGoes
<1>9. \A q \in Requests : q # r => req'[q] = req[q] /\ SameCall(q)
  BY <1>8 DEF Moves, SameCall
<1>10. Down'
  BY <1>4 DEF Down, IInv
<1>11. Held'
  <2> SUFFICES ASSUME NEW q \in Requests, req'[q].at = "recv"
               PROVE  proc'[req'[q].proc].callMu = q
    BY DEF Held
  <2>1. req'[q] = req[q] /\ req[q].at = "recv" /\ proc[req[q].proc].callMu = q
    BY <1>8, <1>9 DEF Held, IInv
  <2>2. req[q].proc \in Processes /\ req[q].proc \in 1 .. started
    BY <1>1, <2>1, ProcessOf
  <2>3. req[q].proc # p
    BY <1>1, <1>2, <2>2, AcpAssumption DEF Types
  <2>4. QED
    BY <1>4, <2>1, <2>2, <2>3
<1>12. \A o \in Processes : proc'[o].work \subseteq proc[o].work /\ Drained(o)
  <2> TAKE o \in Processes
  <2>1. CASE o = p
    BY <1>4, <2>1 DEF Drained
  <2>2. CASE o # p
    BY <1>4, <2>2 DEF Drained
  <2>3. QED
    BY <2>1, <2>2
<1>13. Outstanding'
  BY <1>1, <1>7, <1>9, <1>12, OutstandingKept DEF IInv, Grown
<1>14. First'
  <2>1. FirstOwn(r)
    BY <1>1, <1>7, <1>8, <1>12, FirstElsewhere DEF IInv, Grown
  <2>2. QED
    BY <1>1, <1>7, <1>9, <1>12, <2>1, FirstKept DEF IInv, Grown
<1>15. QED
  BY <1>4, <1>7, <1>8, <1>10, <1>11, <1>13, <1>14, StepKeeps

\* No request takes a lock, and no pipe gets a message.
LEMMA ProcessesKeep ==
    ASSUME Types, Placed, Held, Outstanding, cut \subseteq cut',
           NEW r \in Requests, \A q \in Requests : q # r => SameCall(q),
           SameCall(r) \/ (req[r].at # "recv" /\ req'[r].at # "recv"),
           \A p \in Processes :
              /\ proc'[p].callMu = proc[p].callMu
              /\ proc'[p].closed => ~ proc'[p].up
              /\ ~ proc'[p].up => proc'[p].work = {}
              /\ proc'[p].work \subseteq proc[p].work /\ Drained(p)
    PROVE  Down' /\ Held' /\ Outstanding'
<1>1. Down'
  BY DEF Down
<1>2. Held'
  <2> SUFFICES ASSUME NEW q \in Requests, req'[q].at = "recv"
               PROVE  proc'[req'[q].proc].callMu = q
    BY DEF Held
  <2>1. /\ req[q].at = "recv" /\ req'[q].proc = req[q].proc
        /\ proc[req[q].proc].callMu = q
    BY DEF Held, SameCall
  <2>2. req[q].proc \in Processes
    BY <2>1, ProcessOf
  <2>3. QED
    BY <2>1, <2>2
<1>3. Outstanding'
  BY OutstandingKept
<1>4. QED
  BY <1>1, <1>2, <1>3

\* A step of a process alone.
LEMMA ProcessStepKeeps ==
    ASSUME IInv, Grown, UNCHANGED <<req, ended, cut, astray>>,
           proc' \in [Processes -> ProcessRecord], Down', Held', Outstanding',
           \A p \in Processes : proc'[p].work \subseteq proc[p].work
    PROVE  IInv'
<1>1. Types'
  <2>1. started' \in 0 .. MaxStarts /\ 1 .. started' \subseteq Processes
    BY AcpAssumption DEF IInv, Types, Grown, Processes
  <2>2. QED
    BY <2>1 DEF IInv, Types, Grown
<1>2. RequestsInv'
  <2>1. pool' \in (1 .. started') \union {None}
    BY DEF Grown
  <2>2. ASSUME NEW q \in Requests
        PROVE  RequestInv(q)'
    <3>1. RequestInv(q) /\ 1 .. started \subseteq 1 .. started'
      BY RequestInvOf, AcpAssumption DEF IInv, Types, Grown
    <3>2. QED
      BY <3>1 DEF RequestInv, Past, PromptOf
  <2>3. QED
    BY <2>1, <2>2 DEF RequestsInv
<1>3. (Placed /\ FirstTry /\ NoTextYet /\ CutIsPast /\ TextIsTheRequests)'
  BY <1>1, <1>2, RequestInvs, PTL
<1>4. First'
  BY DEF IInv, First, FirstAt, PromptOf, Waits, CallOf
<1>5. QED
  BY <1>1, <1>3, <1>4 DEF IInv

LEMMA ProcessAlone ==
    ASSUME IInv, Grown, UNCHANGED <<req, ended, cut, astray>>,
           proc' \in [Processes -> ProcessRecord],
           \A p \in Processes :
              /\ proc'[p].callMu = proc[p].callMu
              /\ proc'[p].closed => ~ proc'[p].up
              /\ ~ proc'[p].up => proc'[p].work = {}
              /\ proc'[p].work \subseteq proc[p].work /\ Drained(p)
    PROVE  IInv'
<1>1. Down' /\ Held' /\ Outstanding'
  <2>1. \A q \in Requests : SameCall(q)
    BY DEF SameCall
  <2>2. CASE Requests = {}
    BY <2>2 DEF Down, Held, Outstanding, Call
  <2>3. CASE Requests # {}
    <3>1. PICK r \in Requests : TRUE
      BY <2>3
    <3>2. QED
      BY <2>1, <3>1, ProcessesKeep DEF IInv
  <2>4. QED
    BY <2>2, <2>3
<1>2. QED
  BY <1>1, ProcessStepKeeps

LEMMA QuietProcessStep ==
    ASSUME IInv, Grown, UNCHANGED <<req, ended, cut, astray>>, Quiet
    PROVE  IInv'
<1>1. \A p \in Processes :
        /\ proc'[p].up = proc[p].up /\ proc'[p].closed = proc[p].closed
        /\ proc'[p].callMu = proc[p].callMu
        /\ proc'[p].work = proc[p].work /\ proc'[p].out = proc[p].out
  BY DEF Quiet, PFields
<1>2. QED
  BY <1>1, ProcessAlone DEF IInv, Down, Drained, Quiet

\* A process ends, with or without its pipe.
LEMMA EndFacts ==
    ASSUME IInv, NEW p \in Processes, NEW closed, NEW out, out \in {proc[p].out, <<>>},
           PGoes(p, FALSE, closed, proc[p].callMu, {}, out)
    PROVE  /\ proc' \in [Processes -> ProcessRecord]
           /\ \A o \in Processes :
                /\ proc'[o].callMu = proc[o].callMu
                /\ proc'[o].closed => ~ proc'[o].up
                /\ ~ proc'[o].up => proc'[o].work = {}
                /\ proc'[o].work \subseteq proc[o].work /\ Drained(o)
<1>1. /\ proc' \in [Processes -> ProcessRecord]
      /\ proc'[p].up = FALSE /\ proc'[p].callMu = proc[p].callMu
      /\ proc'[p].work = {} /\ proc'[p].out = out
      /\ \A o \in Processes : o # p => proc'[o] = proc[o]
  BY DEF PGoes, PFields
<1> SUFFICES ASSUME NEW o \in Processes
             PROVE  /\ proc'[o].callMu = proc[o].callMu
                    /\ proc'[o].closed => ~ proc'[o].up
                    /\ ~ proc'[o].up => proc'[o].work = {}
                    /\ proc'[o].work \subseteq proc[o].work /\ Drained(o)
  BY <1>1
<1>2. CASE o = p
  BY <1>1, <1>2 DEF Drained
<1>3. CASE o # p
  BY <1>1, <1>3 DEF Drained, IInv, Down
<1>4. QED
  BY <1>2, <1>3

\* The pool's process may be another than the one of the request.
LEMMA DropKeeps ==
    ASSUME IInv, NEW r \in Requests, Drop(r)
    PROVE  IInv'
<1>1. /\ Types /\ Placed /\ FirstTry /\ req[r].at = "drop" /\ RequestInv(r)
      /\ req[r] \in RequestRecord /\ "dropping" \in Places
  BY RequestInvOf, RequestFacts DEF IInv, Drop, Places
<1>2. req[r].proc \in Processes /\ req[r].proc \in 1 .. started
  BY <1>1, ProcessOf
<1>3. PICK target : target = IF req[r].then = "retry" THEN pool ELSE req[r].proc
  OBVIOUS
<1>4. /\ pool' = IF pool = target THEN None ELSE pool
      /\ astray' = IF target = req[r].proc THEN astray ELSE astray \union {req[r].proc}
      /\ UNCHANGED <<started, faults, robbed, cut>>
  BY <1>3 DEF Drop
<1>5. Grown /\ cut' = cut
  <2>1. pool' \in (1 .. started') \union {None}
    BY <1>1, <1>4 DEF Placed
  <2>2. started' \in started .. MaxStarts /\ faults' \in 0 .. MaxFaults
    BY <1>1, <1>4, AcpAssumption DEF Types
  <2>3. astray \subseteq astray' /\ astray' \subseteq Processes
    BY <1>1, <1>2, <1>4 DEF Types
  <2>4. QED
    BY <1>1, <1>4, <2>1, <2>2, <2>3 DEF Grown, Types
\* What is left of the first prompt is with the process that r drops, or is astray.
<1>6. ASSUME NEW p \in Processes, PromptOf(r, 1) \in proc[p].work, r \notin ended
      PROVE  \/ p \in astray' /\ (req[r].then = "retry" \/ req[r].try = 2)
             \/ req[r].then = "retry" /\ req[r].proc = p /\ p = target /\ ~ proc[p].closed
  <2>1. FirstAt(p, r) /\ ~ Waits(p, PromptOf(r, 1))
    BY <1>1, <1>6 DEF IInv, First, Waits, PromptOf
  <2>2. ~ proc[p].closed
    BY <1>6 DEF IInv, Down
  <2>3. QED
    BY <1>1, <1>4, <1>6, <2>1, <2>2 DEF FirstAt
<1>7. CASE AfterDrop(r) /\ UNCHANGED proc
  <2>1. Leaves(r) /\ Quiet
    BY <1>1, <1>5, <1>7, AfterDropMoves, QuietIfSame
  <2>2. target = None \/ proc[target].closed
    <3>1. ASSUME target # None, ~ proc[target].closed
          PROVE  FALSE
      <4>1. /\ req' = [req EXCEPT ![r].at = "dropping", ![r].proc = target]
        BY <1>3, <3>1 DEF Drop
      <4>2. req'[r].at = "dropping"
        BY <1>1, <4>1 DEF Types, RequestRecord
      <4>3. Finishes(r) \/ req'[r].at = "get"
        BY <1>1, <1>7, AfterDropGoes DEF RGoes
      <4>4. QED
        BY <4>2, <4>3 DEF Finishes, RGoes
    <3>2. QED
      BY <3>1
  <2>3. FirstOwn(r)
    <3>1. CASE Finishes(r)
      BY <3>1 DEF Finishes, FirstOwn
    <3>2. CASE ~ Finishes(r)
      <4>1. req'[r].try = 2 /\ ended' = ended
        BY <1>1, <1>7, <3>2, AfterDropGoes DEF RGoes
      <4>2. None \notin Processes
        BY AcpAssumption DEF Processes
      <4>3. \A p \in Processes :
              PromptOf(r, 1) \in proc[p].work /\ r \notin ended => p \in astray'
        BY <1>6, <2>2, <4>2
      <4>4. QED
        BY <1>7, <4>1, <4>3 DEF FirstOwn, FirstAt, PromptOf
    <3>3. QED
      BY <3>1, <3>2
  <2>4. QED
    BY <1>1, <1>5, <2>1, <2>3, QuietStep DEF Leaves
<1>8. CASE ~(AfterDrop(r) /\ UNCHANGED proc)
  <2>1. /\ target # None /\ ended' = ended
        /\ proc' = [proc EXCEPT ![target].stopping = TRUE]
        /\ req' = [req EXCEPT ![r].at = "dropping", ![r].proc = target]
    BY <1>3, <1>8 DEF Drop
  <2>2. target \in Processes /\ target \in 1 .. started
    BY <1>1, <1>2, <1>3, <2>1 DEF Types, Placed
  <2>3. Quiet
    BY <1>1, <2>1, <2>2, StoppingProc
  <2>4. req' = [req EXCEPT ![r] = [req[r] EXCEPT !.at = "dropping", !.proc = target]]
    BY <1>1, <2>1 DEF Types
  <2>5. RGoes(r, "dropping", target, req[r].method, req[r].try, req[r].then, req[r].text)
    BY <1>1, <2>2, <2>4, GoesAtProc
  <2>6. \A call \in cut' : call.by = r => Past(call)'
    BY <1>1, <1>5, <2>5 DEF RGoes, RequestInv, Past
  <2>7. Moves(r) /\ req'[r].at # "recv"
    BY <1>1, <1>4, <2>1, <2>2, <2>5, <2>6 DEF RGoes, Moves, RequestInv, Types, PromptOf
  <2>8. FirstOwn(r)
    <3>1. \A p \in Processes : proc'[p].work = proc[p].work
      BY <2>3 DEF Quiet, PFields
    <3>2. QED
      BY <1>6, <2>1, <2>5, <3>1 DEF FirstOwn, FirstAt, RGoes, PromptOf
  <2>9. QED
    BY <1>1, <1>5, <2>3, <2>7, <2>8, QuietStep
<1>9. QED
  BY <1>7, <1>8

LEMMA DroppedKeeps ==
    ASSUME IInv, NEW r \in Requests, Dropped(r)
    PROVE  IInv'
<1>1. /\ Types /\ Placed /\ FirstTry /\ req[r].at = "dropping" /\ RequestInv(r)
      /\ AfterDrop(r)
  BY RequestInvOf DEF IInv, Dropped
<1>2. PICK p \in Processes : p = req[r].proc
  BY <1>1, ProcessOf
<1>3. Grown /\ cut' = cut /\ astray' = astray
  BY <1>1, GrownIfSame DEF Dropped, Placed
<1>4. Leaves(r)
  BY <1>1, <1>3, AfterDropMoves
<1>5. \A q \in Requests : q # r => SameCall(q) /\ req'[q] = req[q]
  BY <1>4 DEF Leaves, Moves, SameCall
<1>6. \A o \in Processes : proc'[o].work \subseteq proc[o].work
      /\ (o # p \/ r \in ended \/ proc'[o].work = {})
  <2>1. CASE UNCHANGED proc /\ r \in ended
    BY <2>1
  <2>2. CASE proc' = [proc EXCEPT ![p] = Ended(p)]
    <3>1. PGoes(p, FALSE, TRUE, proc[p].callMu, {}, <<>>)
      BY <1>1, <2>2, EndedProc
    <3>2. QED
      BY <3>1 DEF PGoes, PFields
  <2>3. QED
    BY <1>2, <2>1, <2>2 DEF Dropped
<1>7. FirstOwn(r)
  <2>1. CASE Finishes(r)
    BY <2>1 DEF Finishes, FirstOwn
  <2>2. CASE ~ Finishes(r)
    <3>1. req[r].then = "retry" /\ req[r].try = 1 /\ req'[r].try = 2
      BY <1>1, <2>2, AfterDropGoes DEF RGoes, FirstTry
    <3> SUFFICES ASSUME r \notin ended', NEW o \in Processes,
                        PromptOf(r, 1) \in proc'[o].work
                 PROVE  o \in astray'
      BY <3>1 DEF FirstOwn, FirstAt, PromptOf
    <3>2. r \notin ended
      BY <1>4 DEF Leaves, Moves
    <3>3. FirstAt(o, r) /\ PromptOf(r, 1) \in proc[o].work /\ o # p
      BY <1>6, <3>2 DEF IInv, First
    <3>4. ~ Waits(o, PromptOf(r, 1))
      BY <1>1 DEF Waits, PromptOf
    <3>5. QED
      BY <1>1, <1>2, <1>3, <3>1, <3>3, <3>4 DEF FirstAt
  <2>3. QED
    BY <2>1, <2>2
<1>8. CASE UNCHANGED proc
  BY <1>1, <1>3, <1>4, <1>7, <1>8, QuietIfSame, QuietStep DEF Leaves
<1>9. CASE proc' = [proc EXCEPT ![p] = Ended(p)]
  <2>1. PGoes(p, FALSE, TRUE, proc[p].callMu, {}, <<>>)
    BY <1>1, <1>9, EndedProc
  <2>2. /\ proc' \in [Processes -> ProcessRecord]
        /\ \A o \in Processes :
             /\ proc'[o].callMu = proc[o].callMu
             /\ proc'[o].closed => ~ proc'[o].up
             /\ ~ proc'[o].up => proc'[o].work = {}
             /\ proc'[o].work \subseteq proc[o].work /\ Drained(o)
    BY <2>1, EndFacts
  <2>3. Down' /\ Held' /\ Outstanding'
    BY <1>1, <1>3, <1>4, <1>5, <2>2, ProcessesKeep DEF Leaves, IInv, Grown
  <2>4. First'
    BY <1>3, <1>4, <1>5, <1>6, <1>7, FirstKept DEF Leaves, Moves, IInv, Grown
  <2>5. QED
    BY <1>3, <1>4, <2>2, <2>3, <2>4, StepKeeps DEF Leaves
<1>10. QED
  BY <1>2, <1>8, <1>9 DEF Dropped

\* Exit, Stop and Kill: the agent is gone, what it wrote can still be read.
LEMMA GoneKeeps ==
    ASSUME IInv, NEW p \in Processes, Gone(p), Grown,
           UNCHANGED <<req, ended, cut, astray>>
    PROVE  IInv'
<1>1. PGoes(p, FALSE, proc[p].closed, proc[p].callMu, {}, proc[p].out)
  BY GoneProc DEF IInv
<1>2. QED
  BY <1>1, EndFacts, ProcessAlone

LEMMA FaultGrown ==
    ASSUME Types, Placed, UNCHANGED <<pool, started, histories>>,
           faults < MaxFaults, faults' = faults + 1
    PROVE  Grown /\ cut' = cut /\ astray' = astray
<1>1. faults' \in 0 .. MaxFaults
  BY AcpAssumption DEF Types
<1>2. QED
  BY <1>1, AcpAssumption DEF Types, Grown, Placed, histories

LEMMA ExitKeeps ==
    ASSUME IInv, NEW p \in Processes, Exit(p)
    PROVE  IInv'
BY FaultGrown, GoneKeeps DEF Exit, IInv

LEMMA StopKeeps ==
    ASSUME IInv, NEW p \in Processes, Stop(p) \/ Kill(p)
    PROVE  IInv'
<1>1. Grown /\ cut' = cut /\ astray' = astray
  BY GrownIfSame DEF Stop, Kill, IInv, Placed
<1>2. QED
  BY <1>1, GoneKeeps DEF Stop, Kill

LEMMA ReapKeeps ==
    ASSUME IInv, NEW p \in Processes, Reap(p)
    PROVE  IInv'
<1>1. Grown /\ cut' = cut /\ astray' = astray
  BY GrownIfSame DEF Reap, IInv, Placed
<1>2. PGoes(p, FALSE, TRUE, proc[p].callMu, {}, <<>>)
  BY EndedProc DEF IInv, Reap
<1>3. QED
  BY <1>1, <1>2, EndFacts, ProcessAlone DEF Reap

LEMMA ForgetKeeps ==
    ASSUME IInv, NEW p \in Processes, Forget(p)
    PROVE  IInv'
<1>1. Grown /\ Quiet /\ cut' = cut /\ astray' = astray
  BY GrownIfSame, QuietIfSame DEF Forget, IInv
<1>2. QED
  BY <1>1, QuietProcessStep DEF Forget

LEMMA IdleFiresKeeps ==
    ASSUME IInv, NEW p \in Processes, IdleFires(p)
    PROVE  IInv'
<1>1. Grown /\ Quiet /\ cut' = cut /\ astray' = astray
  BY FaultGrown, StoppingProc DEF IdleFires, IInv
<1>2. QED
  BY <1>1, QuietProcessStep DEF IdleFires

LEMMA StealKeeps ==
    ASSUME IInv, NEW p \in Processes, Steal(p)
    PROVE  IInv'
<1>1. Grown /\ UNCHANGED <<req, ended, cut, astray>>
  BY AcpAssumption DEF Steal, Grown, IInv, Types, Placed
<1>2. PGoes(p, proc[p].up, proc[p].closed, proc[p].callMu, proc[p].work,
            Tail(proc[p].out))
  BY StealProc DEF IInv
<1>3. /\ proc' \in [Processes -> ProcessRecord]
      /\ proc'[p].up = proc[p].up /\ proc'[p].closed = proc[p].closed
      /\ proc'[p].callMu = proc[p].callMu /\ proc'[p].work = proc[p].work
      /\ proc'[p].out = Tail(proc[p].out) /\ proc[p].out # <<>>
      /\ \A o \in Processes : o # p => proc'[o] = proc[o]
  BY <1>2 DEF PGoes, PFields, Steal
<1>4. \A o \in Processes :
        /\ proc'[o].callMu = proc[o].callMu
        /\ proc'[o].closed => ~ proc'[o].up
        /\ ~ proc'[o].up => proc'[o].work = {}
        /\ proc'[o].work \subseteq proc[o].work /\ Drained(o)
  <2> TAKE o \in Processes
  <2>1. CASE o = p
    BY <1>3, <2>1 DEF IInv, Down, Drained
  <2>2. CASE o # p
    BY <1>3, <2>2 DEF Drained, IInv, Down
  <2>3. QED
    BY <2>1, <2>2
<1>5. QED
  BY <1>1, <1>3, <1>4, ProcessAlone

LEMMA WrittenType ==
    ASSUME NEW call \in Call
    PROVE  /\ Written(call) \in Seq(Message)
           /\ Len(Written(call)) \in 1 .. 2
           /\ \A i \in 1 .. Len(Written(call)) :
                /\ Written(call)[i].kind # "noise" /\ Written(call)[i].call = call
                /\ Written(call)[i].kind = "answer" => i = Len(Written(call))
<1> DEFINE u == [kind |-> "update", call |-> call]
           a == [kind |-> "answer", call |-> call]
<1>1. /\ u \in Message /\ a \in Message /\ u.call = call /\ a.call = call
      /\ u.kind = "update" /\ a.kind = "answer"
  BY DEF Message
<1>2. CASE call.method = "session/prompt"
  <2>1. Written(call) = <<u>> \o <<a>>
    BY <1>2 DEF Written
  <2> HIDE DEF u, a
  <2>2. /\ <<u>> \in Seq(Message) /\ Len(<<u>>) = 1 /\ <<u>>[1] = u
        /\ <<a>> \in Seq(Message) /\ Len(<<a>>) = 1 /\ <<a>>[1] = a
    BY <1>1
  <2>3. PICK s : s = <<u>>
    OBVIOUS
  <2>4. PICK t : t = <<a>>
    OBVIOUS
  <2>5. /\ s \in Seq(Message) /\ Len(s) = 1 /\ s[1] = u
        /\ t \in Seq(Message) /\ Len(t) = 1 /\ t[1] = a
    BY <2>2, <2>3, <2>4, Zenon
  <2>6. PICK w : w = s \o t
    OBVIOUS
  <2>7. w \in Seq(Message) /\ Len(w) = 2 /\ w[1] = u /\ w[2] = a
    BY <2>5, <2>6, ConcatProperties
  <2>8. w = Written(call)
    BY <2>1, <2>3, <2>4, <2>6, Zenon
  <2>9. \A i \in 1 .. Len(w) :
           w[i].kind # "noise" /\ w[i].call = call /\ (w[i].kind = "answer" => i = Len(w))
    <3> TAKE i \in 1 .. Len(w)
    <3>1. i = 1 \/ i = 2
      BY <2>7
    <3>2. CASE i = 1
      BY <1>1, <2>7, <3>2
    <3>3. CASE i = 2
      BY <1>1, <2>7, <3>3
    <3>4. QED
      BY <3>1, <3>2, <3>3
  <2>10. w \in Seq(Message) /\ Len(w) \in 1 .. 2
    BY <2>7
  <2>11. QED
    BY <2>8, <2>9, <2>10, Zenon
<1>3. CASE call.method # "session/prompt"
  <2>1. Written(call) = <<>> \o <<a>>
    BY <1>3 DEF Written
  <2> HIDE DEF u, a
  <2>2. <<>> \o <<a>> = <<a>>
    BY <1>1
  <2>3. QED
    BY <1>1, <2>1, <2>2
<1>4. QED
  BY <1>2, <1>3

\* What is under way when the agent has answered a call.
LEMMA AnswerOutstanding ==
    ASSUME Types, NEW p \in Processes, NEW c, OutstandingAt(p, c),
           NEW call \in proc[p].work, UNCHANGED req,
           proc'[p].work = proc[p].work \ {call},
           proc'[p].out = proc[p].out \o Written(call)
    PROVE  OutstandingAt(p, c)'
<1> DEFINE s == proc[p].out
           t == proc'[p].out
           u == Written(call)
           Now == Waits(p, c)'
<1>1. /\ u \in Seq(Message) /\ Len(u) \in 1 .. 2
      /\ \A i \in 1 .. Len(u) : /\ u[i].kind # "noise" /\ u[i].call = call
                                /\ u[i].kind = "answer" => i = Len(u)
  BY ProcessFacts, WrittenType
<1>2. /\ s \in Seq(Message) /\ Len(s) \in Nat
  BY ProcessFacts
<1>3. /\ Len(t) = Len(s) + Len(u)
      /\ \A i \in 1 .. Len(t) : t[i] = IF i <= Len(s) THEN s[i] ELSE u[i - Len(s)]
  <2>1. t = s \o u
    OBVIOUS
  <2> HIDE DEF s, t, u
  <2>2. QED
    BY <1>1, <1>2, <2>1, ConcatProperties
<1>4. Waits(p, c) => Now
  BY DEF Waits, CallOf
<1>5. c \in proc[p].work => Now /\ \A i \in 1 .. Len(s) : ~ Of(s[i], c)
  BY <1>4 DEF OutstandingAt
<1>6. \A i \in 1 .. Len(s) :
         Of(s[i], c) =>
           Now /\ (s[i].kind = "answer" => \A j \in i + 1 .. Len(s) : ~ Of(s[j], c))
  BY <1>4 DEF OutstandingAt
<1> SUFFICES /\ c \in proc'[p].work => Now /\ \A i \in 1 .. Len(t) : ~ Of(t[i], c)
             /\ \A i \in 1 .. Len(t) :
                   Of(t[i], c) =>
                     Now /\ (t[i].kind = "answer" => \A j \in i + 1 .. Len(t) : ~ Of(t[j], c))
  BY DEF OutstandingAt, Of
<1> HIDE DEF s, t, u, Now
<1>7. \A i \in 1 .. Len(t) :
         \/ i \in 1 .. Len(s) /\ t[i] = s[i]
         \/ /\ i > Len(s) /\ t[i].call = call
            /\ t[i].kind = "answer" => i = Len(t)
  <2> TAKE i \in 1 .. Len(t)
  <2>1. CASE i <= Len(s)
    BY <1>2, <1>3, <2>1
  <2>2. CASE i > Len(s)
    <3>1. /\ i \in Nat /\ Len(u) \in Nat /\ Len(s) \in Nat /\ Len(t) = Len(s) + Len(u)
          /\ i <= Len(t)
      BY <1>1, <1>2, <1>3
    <3>2. i - Len(s) \in 1 .. Len(u)
      BY <2>2, <3>1
    <3>3. t[i] = u[i - Len(s)]
      BY <1>2, <1>3, <2>2
    <3>4. t[i].kind = "answer" => i - Len(s) = Len(u)
      BY <1>1, <3>2, <3>3
    <3>5. QED
      BY <1>1, <2>2, <3>1, <3>2, <3>3, <3>4
  <2>3. QED
    BY <1>2, <2>1, <2>2
<1>8. CASE call = c
  <2>1. Now /\ \A i \in 1 .. Len(s) : ~ Of(s[i], c)
    BY <1>5, <1>8
  <2>2. c \notin proc'[p].work
    BY <1>8
  <2>3. ASSUME NEW i \in 1 .. Len(t), Of(t[i], c), t[i].kind = "answer",
               NEW j \in i + 1 .. Len(t)
        PROVE  ~ Of(t[j], c)
    <3>1. i = Len(t) /\ Len(t) \in Nat
      BY <1>1, <1>2, <1>3, <1>7, <2>1, <2>3
    <3>2. QED
      BY <3>1
  <2>4. QED
    BY <2>1, <2>2, <2>3
<1>9. CASE call # c
  <2>1. \A i \in 1 .. Len(t) : Of(t[i], c) => i \in 1 .. Len(s) /\ t[i] = s[i]
    BY <1>7, <1>9 DEF Of
  <2>2. c \in proc'[p].work => Now /\ \A i \in 1 .. Len(t) : ~ Of(t[i], c)
    BY <1>5, <2>1
  <2>3. ASSUME NEW i \in 1 .. Len(t), Of(t[i], c)
        PROVE  Now /\ (t[i].kind = "answer" => \A j \in i + 1 .. Len(t) : ~ Of(t[j], c))
    <3>1. i \in 1 .. Len(s) /\ t[i] = s[i]
      BY <2>1, <2>3
    <3>2. Now
      BY <1>6, <2>3, <3>1
    <3>3. ASSUME t[i].kind = "answer", NEW j \in i + 1 .. Len(t), Of(t[j], c)
          PROVE  FALSE
      <4>1. j \in 1 .. Len(t)
        BY <1>2, <3>1
      <4>2. j \in 1 .. Len(s) /\ t[j] = s[j]
        BY <2>1, <3>3, <4>1
      <4>3. j \in i + 1 .. Len(s)
        BY <1>2, <3>1, <4>2
      <4>4. QED
        BY <1>6, <2>3, <3>1, <3>3, <4>2, <4>3
    <3>4. QED
      BY <3>2, <3>3
  <2>4. QED
    BY <2>2, <2>3
<1>10. QED
  BY <1>8, <1>9

\* Noise is of no call.
LEMMA NoiseOutstanding ==
    ASSUME Types, NEW p \in Processes, NEW c, OutstandingAt(p, c), UNCHANGED req,
           proc'[p].work = proc[p].work, proc'[p].out = Append(proc[p].out, Noise)
    PROVE  OutstandingAt(p, c)'
<1> DEFINE s == proc[p].out
           t == proc'[p].out
           Now == Waits(p, c)'
<1>1. s \in Seq(Message) /\ Len(s) \in Nat
  BY ProcessFacts
<1>2. ~ Of(Noise, c)
  BY DEF Of, Noise
<1>3. /\ Len(t) = Len(s) + 1
      /\ \A i \in 1 .. Len(s) : t[i] = s[i]
      /\ t[Len(s) + 1] = Noise
  <2>1. Noise \in Message /\ t = Append(s, Noise)
    BY DEF Message
  <2> HIDE DEF s, t
  <2>2. QED
    BY <1>1, <2>1, AppendProperties
<1>4. Waits(p, c) => Now
  BY DEF Waits, CallOf
<1>5. c \in proc[p].work => Now /\ \A i \in 1 .. Len(s) : ~ Of(s[i], c)
  BY <1>4 DEF OutstandingAt
<1>6. \A i \in 1 .. Len(s) :
         Of(s[i], c) =>
           Now /\ (s[i].kind = "answer" => \A j \in i + 1 .. Len(s) : ~ Of(s[j], c))
  BY <1>4 DEF OutstandingAt
<1> SUFFICES /\ c \in proc[p].work => Now /\ \A i \in 1 .. Len(t) : ~ Of(t[i], c)
             /\ \A i \in 1 .. Len(t) :
                   Of(t[i], c) =>
                     Now /\ (t[i].kind = "answer" => \A j \in i + 1 .. Len(t) : ~ Of(t[j], c))
  BY DEF OutstandingAt, Of
<1> HIDE DEF s, t, Now
<1>7. \A i \in 1 .. Len(t) : Of(t[i], c) => i \in 1 .. Len(s) /\ Of(s[i], c) /\ t[i] = s[i]
  <2> TAKE i \in 1 .. Len(t)
  <2>1. i \in 1 .. Len(s) \/ i = Len(s) + 1
    BY <1>1, <1>3
  <2>2. QED
    BY <1>2, <1>3, <2>1
<1>8. ASSUME NEW i \in 1 .. Len(t), Of(t[i], c)
      PROVE  Now /\ (t[i].kind = "answer" => \A j \in i + 1 .. Len(t) : ~ Of(t[j], c))
  <2>1. i \in 1 .. Len(s) /\ Of(s[i], c) /\ t[i] = s[i]
    BY <1>7, <1>8
  <2>2. ASSUME t[i].kind = "answer", NEW j \in i + 1 .. Len(t), Of(t[j], c)
        PROVE  FALSE
    <3>1. j \in 1 .. Len(t)
      BY <1>1, <2>1
    <3>2. j \in i + 1 .. Len(s) /\ Of(s[j], c)
      BY <1>1, <1>7, <2>1, <2>2, <3>1
    <3>3. QED
      BY <1>6, <2>1, <2>2, <3>2
  <2>3. QED
    BY <1>6, <2>1, <2>2
<1>9. QED
  BY <1>5, <1>7, <1>8

\* The agent writes to its pipe.
LEMMA WriteKeeps ==
    ASSUME IInv, NEW p \in Processes, Grown, UNCHANGED <<req, ended, cut, astray>>,
           NEW work, NEW out, work \subseteq proc[p].work,
           PGoes(p, proc[p].up, proc[p].closed, proc[p].callMu, work, out),
           \A c \in Call \ cut : OutstandingAt(p, c)'
    PROVE  IInv'
<1>1. /\ proc' \in [Processes -> ProcessRecord]
      /\ proc'[p].up = proc[p].up /\ proc'[p].closed = proc[p].closed
      /\ proc'[p].callMu = proc[p].callMu
      /\ proc'[p].work \subseteq proc[p].work
      /\ \A o \in Processes : o # p => proc'[o] = proc[o]
  BY DEF PGoes, PFields
<1>2. Down'
  BY <1>1 DEF IInv, Down
<1>3. Held'
  <2> SUFFICES ASSUME NEW q \in Requests, req'[q].at = "recv"
               PROVE  proc'[req'[q].proc].callMu = q
    BY DEF Held
  <2>1. req[q].proc \in Processes /\ proc[req[q].proc].callMu = q
    BY ProcessOf DEF IInv, Held
  <2>2. QED
    BY <1>1, <2>1
<1>4. Outstanding'
  <2> SUFFICES ASSUME NEW o \in Processes, NEW c \in Call \ cut'
               PROVE  OutstandingAt(o, c)'
    BY DEF Outstanding
  <2>1. CASE o = p
    BY <2>1
  <2>2. CASE o # p
    <3>1. OutstandingAt(o, c) /\ Drained(o) /\ proc'[o].work = proc[o].work
      BY <1>1, <2>2 DEF IInv, Outstanding, Drained
    <3>2. Waits(o, c) => Waits(o, c)'
      BY DEF Waits, CallOf
    <3>3. QED
      BY <3>1, <3>2, PairKept DEF IInv
  <2>3. QED
    BY <2>1, <2>2
<1>5. QED
  BY <1>1, <1>2, <1>3, <1>4, ProcessStepKeeps

LEMMA AnswerKeeps ==
    ASSUME IInv, NEW p \in Processes, Answer(p)
    PROVE  IInv'
<1>1. Types /\ UNCHANGED <<pool, req, ended, started, faults, histories>>
  BY DEF IInv, Answer
<1>2. Grown /\ cut' = cut /\ astray' = astray
  BY <1>1, GrownIfSame DEF IInv, Placed
<1>3. PICK call \in proc[p].work :
         PGoes(p, proc[p].up, proc[p].closed, proc[p].callMu, proc[p].work \ {call},
               proc[p].out \o Written(call))
  BY <1>1, AnswerProc
<1>4. /\ proc'[p].work = proc[p].work \ {call}
      /\ proc'[p].out = proc[p].out \o Written(call)
  BY <1>3 DEF PGoes, PFields
<1>5. ASSUME NEW c \in Call \ cut
      PROVE  OutstandingAt(p, c)'
  <2>1. OutstandingAt(p, c)
    BY DEF IInv, Outstanding
  <2>2. QED
    BY <1>1, <1>4, <2>1, AnswerOutstanding
<1>6. QED
  BY <1>1, <1>2, <1>3, <1>5, WriteKeeps

LEMMA BabbleKeeps ==
    ASSUME IInv, NEW p \in Processes, Babble(p)
    PROVE  IInv'
<1>1. Types /\ UNCHANGED <<pool, req, ended, started, histories>>
  BY DEF IInv, Babble
<1>2. Grown /\ cut' = cut /\ astray' = astray
  BY <1>1, FaultGrown DEF IInv, Babble
<1>3. PGoes(p, proc[p].up, proc[p].closed, proc[p].callMu, proc[p].work,
            Append(proc[p].out, Noise))
  BY <1>1, BabbleProc
<1>4. /\ proc'[p].work = proc[p].work
      /\ proc'[p].out = Append(proc[p].out, Noise)
  BY <1>3 DEF PGoes, PFields
<1>5. ASSUME NEW c \in Call \ cut
      PROVE  OutstandingAt(p, c)'
  <2>1. OutstandingAt(p, c)
    BY DEF IInv, Outstanding
  <2>2. QED
    BY <1>1, <1>4, <2>1, NoiseOutstanding
<1>6. QED
  BY <1>1, <1>2, <1>3, <1>5, WriteKeeps
-----------------------------------------------------------------------------
(* The invariant holds, and what follows from it.                          *)

LEMMA InitHolds == Init => IInv
<1> SUFFICES ASSUME Init
             PROVE  IInv
  OBVIOUS
<1>1. NoProcess \in ProcessRecord
  BY NoProcessFields DEF PFields
<1>2. Idle \in RequestRecord
  <2>1. /\ "none" \in Places /\ None \in Processes \union {None} /\ "initialize" \in Methods
        /\ 1 \in 1 .. 2 /\ "retry" \in {"retry", "done"} /\ {} \in SUBSET Requests
    BY DEF Places, Methods
  <2>2. QED
    BY <2>1 DEF Idle, RequestRecord
<1>3. Types
  BY <1>1, <1>2, AcpAssumption DEF Init, Types
<1>4. \A r \in Requests :
         req[r].at = "none" /\ req[r].text = {} /\ req[r].then = "retry"
  BY DEF Init, Idle
<1>5. \A p \in Processes : /\ proc[p].closed /\ ~ proc[p].up /\ proc[p].work = {}
                           /\ proc[p].out = <<>>
  BY NoProcessFields DEF Init, PFields
<1>6. Placed /\ FirstTry /\ NoTextYet /\ CutIsPast /\ TextIsTheRequests
  BY <1>4 DEF Init, Placed, FirstTry, NoTextYet, CutIsPast, TextIsTheRequests
<1>7. Down /\ Held
  BY <1>4, <1>5 DEF Down, Held
<1>8. Outstanding
  BY <1>4, <1>5 DEF Outstanding, OutstandingAt
<1>9. First
  BY <1>5 DEF First, FirstAt
<1>10. QED
  BY <1>3, <1>6, <1>7, <1>8, <1>9 DEF IInv

LEMMA StutterKeeps ==
    ASSUME IInv, UNCHANGED vars
    PROVE  IInv'
<1>1. Grown /\ Quiet /\ cut' = cut /\ astray' = astray
  BY GrownIfSame, QuietIfSame DEF vars, IInv, Placed
<1>2. QED
  BY <1>1, QuietProcessStep DEF vars

LEMMA RequestStepKeeps ==
    ASSUME IInv, NEW r \in Requests,
           RequestStep(r) \/ Arrive(r) \/ Cancel(r) \/ Garble(r) \/ Misread(r)
    PROVE  IInv'
<1>1. CASE Get(r)
  BY <1>1, GetKeeps
<1>2. CASE Start(r)
  BY <1>2, StartKeeps
<1>3. CASE StartFails(r)
  BY <1>3, StartFailsKeeps
<1>4. CASE Store(r)
  BY <1>4, StoreKeeps
<1>5. CASE EnsureInitialized(r)
  BY <1>5, EnsureInitializedKeeps
<1>6. CASE Send(r)
  BY <1>6, SendKeeps
<1>7. CASE Receive(r)
  BY <1>7, ReceiveKeeps
<1>8. CASE Misread(r) \/ Eof(r) \/ Abandon(r) \/ Garble(r)
  BY <1>8, CutKeeps
<1>9. CASE Drop(r)
  BY <1>9, DropKeeps
<1>10. CASE Dropped(r)
  BY <1>10, DroppedKeeps
<1>11. CASE Cancel(r)
  BY <1>11, CancelKeeps
<1>12. QED
  BY <1>1, <1>2, <1>3, <1>4, <1>5, <1>6, <1>7, <1>8, <1>9, <1>10, <1>11
     DEF RequestStep, Arrive

LEMMA ProcessStepsKeep ==
    ASSUME IInv, NEW p \in Processes,
           \/ ProcessStep(p) \/ Steal(p) \/ IdleFires(p)
           \/ Babble(p) \/ Exit(p) \/ Stop(p)
    PROVE  IInv'
<1>1. CASE Answer(p)
  BY <1>1, AnswerKeeps
<1>2. CASE Kill(p) \/ Stop(p)
  BY <1>2, StopKeeps
<1>3. CASE Reap(p)
  BY <1>3, ReapKeeps
<1>4. CASE Forget(p)
  BY <1>4, ForgetKeeps
<1>5. CASE Steal(p)
  BY <1>5, StealKeeps
<1>6. CASE IdleFires(p)
  BY <1>6, IdleFiresKeeps
<1>7. CASE Exit(p)
  BY <1>7, ExitKeeps
<1>8. CASE Babble(p)
  BY <1>8, BabbleKeeps
<1>9. QED
  BY <1>1, <1>2, <1>3, <1>4, <1>5, <1>6, <1>7, <1>8 DEF ProcessStep

LEMMA NextKeeps == IInv /\ [Next]_vars => IInv'
BY StutterKeeps, RequestStepKeeps, ProcessStepsKeep DEF Next

LEMMA IInvHolds == Spec => []IInv
BY InitHolds, NextKeeps, PTL DEF Spec

\* Every reachable state is one of the declared types, whatever the requests, the
\* processes and the faults (cliacp/process.go, pool.go and the locals of chatACP).
THEOREM AcpProcessTypeOK == Spec => []TypeOK
<1>1. IInv => TypeOK
  BY DEF IInv, Types, TypeOK
<1>2. QED
  BY <1>1, IInvHolds, PTL

\* The text of an answer holds chunks of the request's own prompt, and of prompts whose
\* call was cut short while the agent worked: callMu and the order in which an agent
\* answers are enough, for any number of requests over one process.
THEOREM AcpProcessTextIsTheRequests == Spec => []TextIsTheRequests
<1>1. IInv => TextIsTheRequests
  BY DEF IInv
<1>2. QED
  BY <1>1, IInvHolds, PTL

\* For a client that waits, chatACP sends a prompt a second time only when no agent works
\* on the first, but for a first call that was cut short on a process that a Drop passed
\* by: the others were dropped and waited for.
THEOREM AcpProcessRetryWaitsForTheFirst == Spec => RetryWaitsForTheFirst
<1> DEFINE Once(r) ==
              (req[r].at = "call" /\ req'[r].at = "recv" /\ req[r].try = 2 /\ r \notin ended)
              => \A p \in Processes :
                    PromptOf(r, 1) \in proc[p].work => PromptOf(r, 1) \in cut /\ p \in astray
<1>1. IInv => \A r \in Requests : Once(r)
  <2> SUFFICES ASSUME IInv, NEW r \in Requests, req[r].at = "call", r \notin ended,
                      NEW p \in Processes, PromptOf(r, 1) \in proc[p].work
               PROVE  PromptOf(r, 1) \in cut /\ p \in astray
    OBVIOUS
  <2>1. PICK call \in Call : call = PromptOf(r, 1)
    BY DEF PromptOf, Call, Methods
  <2>2. ~ Waits(p, call)
    BY <2>1 DEF Waits, PromptOf
  <2>3. call \in cut
    BY <2>1, <2>2 DEF IInv, Outstanding, OutstandingAt
  <2>4. p \in astray
    BY <2>1, <2>2 DEF IInv, First, FirstAt
  <2>5. QED
    BY <2>1, <2>3, <2>4
<1>2. QED
  BY <1>1, IInvHolds, PTL DEF RetryWaitsForTheFirst

\* The pool loses a running process only to a Drop: an entry is removed by the goroutine
\* that waited for that process, and a process that was waited for is gone.
THEOREM AcpProcessPoolForgetsOnlyTheDead == Spec => PoolForgetsOnlyTheDead
<1> DEFINE Forgets == pool # None /\ pool' = None
           Dead == ~ proc[pool].up
           ByDrop == \E r \in Requests : req[r].at = "drop" /\ req'[r].at # "drop"
<1>1. IInv /\ [Next]_vars => (Forgets => Dead \/ ByDrop)
  <2> SUFFICES ASSUME IInv, [Next]_vars, pool # None, pool' = None
               PROVE  Dead \/ ByDrop
    OBVIOUS
  <2>1. CASE \E r \in Requests : Store(r)
    <3>1. PICK r \in Requests : Store(r)
      BY <2>1
    <3>2. req[r].proc \in Processes /\ None \notin Processes
      BY <3>1, ProcessOf, AcpAssumption DEF IInv, Store, Processes
    <3>3. QED
      BY <3>1, <3>2 DEF Store
  <2>2. CASE \E r \in Requests : Drop(r)
    <3>1. PICK r \in Requests : Drop(r)
      BY <2>2
    <3>2. Types /\ FirstTry /\ req[r].at = "drop"
      BY <3>1 DEF IInv, Drop
    <3>3. CASE AfterDrop(r)
      <4>1. Finishes(r) \/ req'[r].at = "get"
        BY <3>2, <3>3, AfterDropGoes DEF RGoes
      <4>2. req'[r].at # "drop"
        BY <4>1 DEF Finishes, RGoes
      <4>3. QED
        BY <3>2, <4>2
    <3>4. CASE ~ AfterDrop(r)
      <4>1. PICK target : req' = [req EXCEPT ![r].at = "dropping", ![r].proc = target]
        BY <3>1, <3>4 DEF Drop
      <4>2. req'[r].at = "dropping"
        BY <3>2, <4>1, RequestFacts DEF Types, RequestRecord
      <4>3. QED
        BY <3>2, <4>2
    <3>5. QED
      BY <3>3, <3>4
  <2>3. CASE \E p \in Processes : Forget(p)
    BY <2>3 DEF Forget, IInv, Down
  <2>4. pool' = pool \/ \/ \E r \in Requests : Store(r) \/ Drop(r)
                        \/ \E p \in Processes : Forget(p)
    <3>1. CASE UNCHANGED vars
      BY <3>1 DEF vars
    <3>2. ASSUME NEW r \in Requests,
                 RequestStep(r) \/ Arrive(r) \/ Cancel(r) \/ Garble(r) \/ Misread(r),
                 ~ Store(r), ~ Drop(r)
          PROVE  pool' = pool
      BY <3>2 DEF RequestStep, Arrive, Get, Start, StartFails, EnsureInitialized, Send,
                  Receive, Eof, Abandon, Dropped, Cancel, Garble, Misread
    <3>3. ASSUME NEW p \in Processes,
                 \/ ProcessStep(p) \/ Steal(p) \/ IdleFires(p)
                 \/ Babble(p) \/ Exit(p) \/ Stop(p),
                 ~ Forget(p)
          PROVE  pool' = pool
      BY <3>3 DEF ProcessStep, Answer, Kill, Reap, Steal, IdleFires, Babble, Exit, Stop
    <3>4. QED
      BY <3>1, <3>2, <3>3 DEF Next
  <2>5. QED
    BY <2>1, <2>2, <2>3, <2>4
<1>2. IInv /\ [Next]_vars => [Forgets => Dead \/ ByDrop]_vars
  BY <1>1
<1>3. QED
  BY <1>2, IInvHolds, PTL DEF Spec, PoolForgetsOnlyTheDead
=============================================================================
