----------------------------- MODULE AcpProcess -----------------------------
(***************************************************************************)
(* internal/cliacp and the ACP half of its adapter: the processes of one   *)
(* upstream, the pool that hands the current one out, and the requests     *)
(* that call it over one pipe.  A call holds callMu until its answer is    *)
(* there; a cancelled call leaves a goroutine behind that reads one more   *)
(* message.  exec.CommandContext ties a process to the request that        *)
(* started it, an idle timer and Drop shut it down, and chatACP sends a    *)
(* prompt again when the process broke.  Upstreams do not share processes. *)
(* An agent answers each call once, the chunks of a prompt before its      *)
(* answer; between them it may write anything else.                        *)
(***************************************************************************)
EXTENDS Integers, Sequences, FiniteSets

CONSTANTS
    Requests,      \* numbers of requests, each calls Chat once
    MaxStarts,     \* bound: processes
    MaxFaults,     \* bound: clients that leave, agents that exit, answer with an
                   \* error or write noise, and idle timers that fire
    CanClose,      \* the agent has the session capability "close"
    None

ASSUME AcpAssumption ==
    /\ Requests \subseteq Nat /\ IsFiniteSet(Requests) /\ None \notin Nat
    /\ MaxStarts \in Nat /\ MaxFaults \in Nat /\ CanClose \in BOOLEAN

VARIABLES
    pool,      \* Pool.processes[id], None when absent
    proc,      \* proc[p]: process p and its pipe
    req,       \* req[r]: the locals of chatACP
    ended,     \* requests whose context is done: the client left, or Chat returned
    started,   \* number of processes so far
    faults,    \* number of those so far
    robbed,    \* history: processes of which an abandoned reader took a message
    cut,       \* history: calls that ended before their answer was read
    astray     \* history: processes a Drop was meant for and passed by

histories == <<robbed, cut, astray>>
vars == <<pool, proc, req, ended, started, faults, histories>>

Processes == 1 .. MaxStarts
\* session/new and session/set_config_option fail and end like initialize: left out.
Methods == {"initialize", "session/prompt", "session/close"}
Call == [by : Requests, method : Methods, try : 1 .. 2]
\* Noise is what is neither: a line that does not parse, an update with other
\* parameters than expected, a request or notification of the agent's own.
Noise == [kind |-> "noise"]
Message == [kind : {"answer", "update"}, call : Call] \union {Noise}

ProcessRecord ==
    [up : BOOLEAN,             \* the agent runs
     closed : BOOLEAN,         \* Process.closed
     owner : Requests \union {None},   \* the request whose context it was started with
     ready : BOOLEAN,          \* acpInitialized
     initMu : Requests \union {None},
     callMu : Requests \union {None},
     stopping : BOOLEAN,       \* Shutdown has sent its message
     work : SUBSET Call,       \* calls the agent has not answered
     out : Seq(Message),       \* what it wrote and nobody read
     abandoned : Nat]          \* readers that cancelled calls left behind

NoProcess == [up |-> FALSE, closed |-> TRUE, owner |-> None, ready |-> FALSE,
              initMu |-> None, callMu |-> None, stopping |-> FALSE,
              work |-> {}, out |-> <<>>, abandoned |-> 0]

Places == {"none", "get", "start", "store", "init", "call", "recv", "drop",
           "dropping", "done"}

RequestRecord ==
    [at : Places, proc : Processes \union {None}, method : Methods,
     try : 1 .. 2,
     then : {"retry", "done"},   \* where the Drop it is in leads
     text : SUBSET Call]         \* the prompts whose chunks are in its text

Idle == [at |-> "none", proc |-> None, method |-> "initialize", try |-> 1,
         then |-> "retry", text |-> {}]

Init ==
    /\ pool = None
    /\ proc = [p \in Processes |-> NoProcess]
    /\ req = [r \in Requests |-> Idle]
    /\ ended = {} /\ started = 0 /\ faults = 0
    /\ robbed = {} /\ cut = {} /\ astray = {}
-----------------------------------------------------------------------------
CallOf(r) == [by |-> r, method |-> req[r].method, try |-> req[r].try]

\* Mutant: a failed call leaves acpInitMu locked.
UnlockedCall(p, r) == [proc[p] EXCEPT !.callMu = IF @ = r THEN None ELSE @]

\* callMu and acpInitMu as the deferred unlocks of r leave them.
Unlocked(p, r) ==
    [proc[p] EXCEPT !.callMu = IF @ = r THEN None ELSE @,
                    !.initMu = IF @ = r THEN None ELSE @]

Finish(r) ==
    /\ req' = [req EXCEPT ![r] = [Idle EXCEPT !.at = "done"]]
    /\ ended' = ended \union {r}

\* Mutant: a broken process is a reason to send again, however often it was.
FailRetryingAlways(r, broken) ==
    IF req[r].method # "session/close" /\ broken
    THEN /\ req' = [req EXCEPT ![r] = [@ EXCEPT !.at = "drop", !.text = {}]]
         /\ UNCHANGED ended
    ELSE Finish(r)

\* An error of chatACPOnce.  If its text tells of a broken process ("file already
\* closed", "eof", "broken pipe") the pool's process is dropped and the request
\* sent once more.  What the agent wrote to stderr is part of the text.  A session
\* that cannot be closed does not fail its request.
Fail(r, broken) ==
    IF req[r].method = "session/close"
    THEN /\ req' = [req EXCEPT ![r].at = "drop", ![r].then = "done"]
         /\ UNCHANGED ended
    ELSE IF broken /\ req[r].try = 1
    THEN /\ req' = [req EXCEPT ![r] = [@ EXCEPT !.at = "drop", !.text = {}]]
         /\ UNCHANGED ended
    ELSE Finish(r)

\* After the answer to its method, r goes on with the next one.
Proceed(r) ==
    IF req[r].method = "session/close" \/ (req[r].method = "session/prompt" /\ ~CanClose)
    THEN Finish(r)
    ELSE /\ req' = [req EXCEPT ![r].at = "call",
                       ![r].method = IF @ = "initialize" THEN "session/prompt"
                                     ELSE "session/close"]
         /\ UNCHANGED ended
-----------------------------------------------------------------------------
(* Pool.Get and StartProcess.                                              *)

\* Requests are numbered in the order they come to the pool.
Arriving(r) == req[r].at = "none" /\ \A q \in Requests : q < r => req[q].at # "none"

\* The lock is held for the lookup only.
Get(r) ==
    /\ Arriving(r) \/ req[r].at = "get"
    /\ req' = IF pool # None /\ ~proc[pool].closed
              THEN [req EXCEPT ![r].at = "init", ![r].proc = pool]
              ELSE [req EXCEPT ![r].at = "start"]
    /\ UNCHANGED <<pool, proc, ended, started, faults, histories>>

\* The command fails to start, as it must when the request has ended.
StartFails(r) ==
    /\ req[r].at = "start"
    /\ Finish(r)
    /\ UNCHANGED <<pool, proc, started, faults, histories>>

\* Mutant: the process is not tied to the request that starts it.
StartDetached(r) ==
    /\ req[r].at = "start" /\ r \notin ended
    /\ started < MaxStarts
    /\ started' = started + 1
    /\ proc' = [proc EXCEPT ![started + 1] = [NoProcess EXCEPT !.up = TRUE, !.closed = FALSE]]
    /\ req' = [req EXCEPT ![r].at = "store", ![r].proc = started + 1]
    /\ UNCHANGED <<pool, ended, faults, histories>>

Start(r) ==
    /\ req[r].at = "start" /\ r \notin ended
    /\ started < MaxStarts
    /\ LET p == started + 1 IN
        /\ started' = p
        /\ proc' = [proc EXCEPT ![p] = [NoProcess EXCEPT !.up = TRUE, !.closed = FALSE,
                                                         !.owner = r]]
        /\ req' = [req EXCEPT ![r].at = "store", ![r].proc = p]
    /\ UNCHANGED <<pool, ended, faults, histories>>

Store(r) ==
    /\ req[r].at = "store"
    /\ pool' = req[r].proc
    /\ req' = [req EXCEPT ![r].at = "init"]
    /\ UNCHANGED <<proc, ended, started, faults, histories>>
-----------------------------------------------------------------------------
(* EnsureACPInitialized and CallWithHandler.                               *)

\* acpInitMu is held over the call that initializes the agent.
EnsureInitialized(r) ==
    LET p == req[r].proc IN
    /\ req[r].at = "init"
    /\ proc[p].initMu = None
    /\ IF proc[p].ready
       THEN /\ req' = [req EXCEPT ![r].at = "call", ![r].method = "session/prompt"]
            /\ UNCHANGED proc
       ELSE /\ req' = [req EXCEPT ![r].at = "call", ![r].method = "initialize"]
            /\ proc' = [proc EXCEPT ![p].initMu = r]
    /\ UNCHANGED <<pool, ended, started, faults, histories>>

\* Mutant: calls are not serialized.
SendUnlocked(r) ==
    LET p == req[r].proc IN
    /\ req[r].at = "call" /\ proc[p].up
    /\ proc' = [proc EXCEPT ![p].work = @ \union {CallOf(r)}]
    /\ req' = [req EXCEPT ![r].at = "recv"]
    /\ UNCHANGED <<pool, ended, started, faults, histories>>

\* callMu is taken and the call sent, whether the request has ended or not.
Send(r) ==
    LET p == req[r].proc IN
    /\ req[r].at = "call"
    /\ proc[p].callMu = None
    /\ IF proc[p].up
       THEN /\ proc' = [proc EXCEPT ![p].callMu = r, ![p].work = @ \union {CallOf(r)}]
            /\ req' = [req EXCEPT ![r].at = "recv"]
            /\ UNCHANGED ended
       ELSE /\ proc' = [proc EXCEPT ![p] = Unlocked(p, r)]
            /\ Fail(r, TRUE)
    /\ UNCHANGED <<pool, started, faults, histories>>

\* The next message: the answer to the call ends it, well or with an error; an
\* update is passed to the handler, which only the prompt has and which takes
\* chunks of any session; answers to earlier calls and noise are skipped, an
\* agent's own request after it was refused.
Receive(r) ==
    LET p == req[r].proc
        message == Head(proc[p].out)
    IN
    /\ req[r].at = "recv" /\ proc[p].out # <<>>
    /\ IF message = [kind |-> "answer", call |-> CallOf(r)]
       THEN \/ /\ proc' = [proc EXCEPT ![p] = [Unlocked(p, r) EXCEPT
                               !.out = Tail(@),
                               !.ready = @ \/ req[r].method = "initialize"]]
               /\ Proceed(r)
               /\ UNCHANGED faults
            \/ /\ faults < MaxFaults /\ faults' = faults + 1
               /\ proc' = [proc EXCEPT ![p] = [Unlocked(p, r) EXCEPT !.out = Tail(@)]]
               /\ \E broken \in BOOLEAN : Fail(r, broken)
       ELSE /\ proc' = [proc EXCEPT ![p].out = Tail(@)]
            /\ req' = IF message.kind = "update" /\ req[r].method = "session/prompt"
                      THEN [req EXCEPT ![r].text = @ \union {message.call}] ELSE req
            /\ UNCHANGED <<ended, faults>>
    /\ UNCHANGED <<pool, started, histories>>

\* An error of Recv or of the handler ends the call, and so does a request of the
\* agent's own under the id of the call, taken for its answer.  The error of an
\* empty line reads "EOF", as that of a broken process does.
Misread(r) ==
    LET p == req[r].proc IN
    /\ req[r].at = "recv" /\ proc[p].out # <<>> /\ Head(proc[p].out) = Noise
    /\ proc' = [proc EXCEPT ![p] = [Unlocked(p, r) EXCEPT !.out = Tail(@)]]
    /\ \E broken \in BOOLEAN : Fail(r, broken)
    /\ cut' = cut \union {CallOf(r)}
    /\ UNCHANGED <<pool, started, faults, robbed, astray>>

\* The pipe of an agent that is gone reads as its end, or is already closed.
Eof(r) ==
    LET p == req[r].proc IN
    /\ req[r].at = "recv" /\ ~proc[p].up
    /\ proc' = [proc EXCEPT ![p] = Unlocked(p, r)]
    /\ Fail(r, TRUE)
    /\ cut' = cut \union {CallOf(r)}
    /\ UNCHANGED <<pool, started, faults, robbed, astray>>

\* recv returns ctx.Err(); its goroutine goes on reading.
Abandon(r) ==
    LET p == req[r].proc IN
    /\ req[r].at = "recv" /\ r \in ended
    /\ proc' = [proc EXCEPT ![p] = [Unlocked(p, r) EXCEPT !.abandoned = @ + 1]]
    /\ \E broken \in BOOLEAN : Fail(r, broken)
    /\ cut' = cut \union {CallOf(r)}
    /\ UNCHANGED <<pool, started, faults, robbed, astray>>

\* The abandoned reader takes a message that was meant for a later call.
Steal(p) ==
    /\ proc[p].abandoned > 0 /\ proc[p].out # <<>>
    /\ proc' = [proc EXCEPT ![p].abandoned = @ - 1, ![p].out = Tail(@)]
    /\ robbed' = robbed \union {p}
    /\ UNCHANGED <<pool, req, ended, started, faults, cut, astray>>

\* Two goroutines read the one bufio.Reader, a data race: the later call may get
\* bytes that do not parse (an "unexpected EOF" of the decoder among the errors).
Garble(r) ==
    LET p == req[r].proc IN
    /\ req[r].at = "recv" /\ proc[p].abandoned > 0 /\ proc[p].out # <<>>
    /\ proc' = [proc EXCEPT ![p] = [Unlocked(p, r) EXCEPT !.abandoned = @ - 1,
                                                          !.out = Tail(@)]]
    /\ robbed' = robbed \union {p}
    /\ \E broken \in BOOLEAN : Fail(r, broken)
    /\ cut' = cut \union {CallOf(r)}
    /\ UNCHANGED <<pool, started, faults, astray>>
-----------------------------------------------------------------------------
(* Pool.Drop and Process.Shutdown.                                         *)

Ended(p) == [NoProcess EXCEPT !.initMu = proc[p].initMu, !.callMu = proc[p].callMu]

AfterDrop(r) ==
    IF req[r].then = "done" THEN Finish(r)
    ELSE /\ req' = [req EXCEPT ![r].at = "get", ![r].proc = None,
                               ![r].method = "initialize", ![r].try = @ + 1]
         /\ UNCHANGED ended

\* dropProcess names no process: whatever the pool holds by now is dropped.  After
\* a failed session/close only the process of the request is.
Drop(r) ==
    LET target == IF req[r].then = "retry" THEN pool ELSE req[r].proc IN
    /\ req[r].at = "drop"
    /\ pool' = IF pool = target THEN None ELSE pool
    /\ IF target = None \/ (target # None /\ proc[target].closed)
       THEN AfterDrop(r) /\ UNCHANGED proc
       ELSE /\ proc' = [proc EXCEPT ![target].stopping = TRUE]
            /\ req' = [req EXCEPT ![r].at = "dropping", ![r].proc = target]
            /\ UNCHANGED ended
    /\ astray' = IF target = req[r].proc THEN astray ELSE astray \union {req[r].proc}
    /\ UNCHANGED <<started, faults, robbed, cut>>

\* Mutant: Drop does not wait for the process.
DroppedAtOnce(r) ==
    LET p == req[r].proc IN
    /\ req[r].at = "dropping"
    /\ proc' = [proc EXCEPT ![p] = Ended(p)] \/ UNCHANGED proc
    /\ AfterDrop(r)
    /\ UNCHANGED <<pool, started, faults, histories>>

\* The process is gone, is killed after five seconds, or the request has ended.
Dropped(r) ==
    LET p == req[r].proc IN
    /\ req[r].at = "dropping"
    /\ \/ proc' = [proc EXCEPT ![p] = Ended(p)]
       \/ r \in ended /\ UNCHANGED proc
    /\ AfterDrop(r)
    /\ UNCHANGED <<pool, started, faults, histories>>

\* The idle timer was last reset when the latest call began, so it can fire during
\* a call.
IdleFires(p) ==
    /\ proc[p].up /\ ~proc[p].closed /\ ~proc[p].stopping
    /\ faults < MaxFaults /\ faults' = faults + 1
    /\ proc' = [proc EXCEPT ![p].stopping = TRUE]
    /\ UNCHANGED <<pool, req, ended, started, histories>>
-----------------------------------------------------------------------------
(* The agent (any program), its end, and the client of a request.          *)

Gone(p) == proc' = [proc EXCEPT ![p] = [@ EXCEPT !.up = FALSE, !.work = {},
                                                 !.stopping = FALSE, !.owner = None]]

\* The agent answers a call; a prompt with a chunk of text first.
Answer(p) ==
    /\ proc[p].up
    /\ \E call \in proc[p].work :
        proc' = [proc EXCEPT ![p].work = @ \ {call},
                     ![p].out = @ \o (IF call.method = "session/prompt"
                                      THEN <<[kind |-> "update", call |-> call]>>
                                      ELSE <<>>)
                                  \o <<[kind |-> "answer", call |-> call]>>]
    /\ UNCHANGED <<pool, req, ended, started, faults, histories>>

\* It writes a line that is no answer and no update of a prompt.
Babble(p) ==
    /\ proc[p].up
    /\ faults < MaxFaults /\ faults' = faults + 1
    /\ proc' = [proc EXCEPT ![p].out = Append(@, Noise)]
    /\ UNCHANGED <<pool, req, ended, started, histories>>

Exit(p) ==
    /\ proc[p].up
    /\ faults < MaxFaults /\ faults' = faults + 1
    /\ Gone(p)
    /\ UNCHANGED <<pool, req, ended, started, histories>>

\* It obeys Shutdown, or the timer of Shutdown kills it.  The idle timer gives
\* Shutdown the same five seconds, so an agent that does not obey may also stay.
Stop(p) ==
    /\ proc[p].up /\ proc[p].stopping
    /\ Gone(p)
    /\ UNCHANGED <<pool, req, ended, started, faults, histories>>

\* exec.CommandContext kills it when the request that started it has ended.
Kill(p) ==
    /\ proc[p].up /\ proc[p].owner \in ended
    /\ Gone(p)
    /\ UNCHANGED <<pool, req, ended, started, faults, histories>>

\* cmd.Wait closes the pipe and returns.
Reap(p) ==
    /\ ~proc[p].up /\ ~proc[p].closed
    /\ proc' = [proc EXCEPT ![p] = Ended(p)]
    /\ UNCHANGED <<pool, req, ended, started, faults, histories>>

\* Mutant: the pool's entry is removed whichever process it is.
ForgetAny(p) ==
    /\ p <= started /\ proc[p].closed /\ pool # None
    /\ pool' = None
    /\ UNCHANGED <<proc, req, ended, started, faults, histories>>

Forget(p) ==
    /\ p <= started /\ proc[p].closed /\ pool = p
    /\ pool' = None
    /\ UNCHANGED <<proc, req, ended, started, faults, histories>>

Cancel(r) ==
    /\ req[r].at \notin {"none", "done"} /\ r \notin ended
    /\ faults < MaxFaults /\ faults' = faults + 1
    /\ ended' = ended \union {r}
    /\ UNCHANGED <<pool, proc, req, started, histories>>
-----------------------------------------------------------------------------
RequestStep(r) ==
    \/ req[r].at = "get" /\ Get(r)
    \/ Start(r) \/ StartFails(r) \/ Store(r)
    \/ EnsureInitialized(r) \/ Send(r)
    \/ Receive(r) \/ Eof(r) \/ Abandon(r)
    \/ Drop(r) \/ Dropped(r)

Arrive(r) == req[r].at = "none" /\ Get(r)

ProcessStep(p) == Answer(p) \/ Kill(p) \/ Reap(p) \/ Forget(p)

Next ==
    \/ \E r \in Requests : RequestStep(r) \/ Arrive(r) \/ Cancel(r) \/ Garble(r) \/ Misread(r)
    \/ \E p \in Processes : ProcessStep(p) \/ Steal(p) \/ IdleFires(p) \/ Babble(p) \/ Exit(p) \/ Stop(p)

\* The goroutines of the requests and of the processes run, and agents answer.
\* Nothing makes a client leave, an agent exit or a timer fire.
Fairness ==
    /\ \A r \in Requests : WF_vars(RequestStep(r))
    /\ \A p \in Processes : WF_vars(Answer(p)) /\ WF_vars(Kill(p) \/ Reap(p) \/ Forget(p))

Spec == Init /\ [][Next]_vars /\ Fairness
-----------------------------------------------------------------------------
TypeOK ==
    /\ pool \in Processes \union {None}
    /\ DOMAIN proc = Processes /\ \A p \in Processes : proc[p] \in ProcessRecord
    /\ req \in [Requests -> RequestRecord]
    /\ ended \subseteq Requests
    /\ started \in 0 .. MaxStarts /\ faults \in 0 .. MaxFaults
    /\ robbed \subseteq Processes /\ cut \subseteq Call /\ astray \subseteq Processes

PromptOf(r, try) == [by |-> r, method |-> "session/prompt", try |-> try]

\* The text of an answer holds chunks of the request's own prompt, and of prompts whose
\* call ended before its answer was read and whose agent went on: callMu keeps two calls
\* off one pipe only while both are waited for, and the handler of CallWithHandler takes
\* the chunks of any session.
TextIsTheRequests ==
    \A r \in Requests :
        \A call \in req[r].text : call = PromptOf(r, req[r].try) \/ call \in cut

\* For a client that still waits, chatACP sends a prompt a second time only when no
\* agent is still working on the first, but for one whose process had lost its place in
\* the pool when its call was cut short: dropProcess drops, and waits for, the process
\* the pool holds.
RetryWaitsForTheFirst ==
    [][\A r \in Requests :
          (req[r].at = "call" /\ req'[r].at = "recv" /\ req[r].try = 2 /\ r \notin ended)
          => \A p \in Processes :
                PromptOf(r, 1) \in proc[p].work => PromptOf(r, 1) \in cut /\ p \in astray]_vars

\* Pool.processes loses a running process only to a Drop: the goroutine that waits for
\* an old process does not remove the one that took its place.
PoolForgetsOnlyTheDead ==
    [][(pool # None /\ pool' = None)
       => \/ ~proc[pool].up
          \/ \E r \in Requests : req[r].at = "drop" /\ req'[r].at # "drop"]_vars

\* Chat returns, unless a reader left behind by a cancelled call disturbed the
\* pipe: neither the locks nor noise nor a dead or dropped process keep a request for
\* ever.  A request calls Chat once, so it is enough that again and again none is in it.
EveryRequestReturns ==
    []<>(robbed # {} \/ \A r \in Requests : req[r].at \in {"none", "done"})

\* An agent that lost its place in the pool, to a second Get or to a Drop, does not
\* go on running: nobody can find it again to shut it down.  A process takes its place
\* once, so it is enough that again and again only the pool's runs.
OrphansEnd ==
    []<>(robbed # {} \/ \A p \in Processes : proc[p].up => pool = p)

\* A process in the pool that no call uses goes on running, to be used by the next
\* request, until its idle timer fires, it exits or it is dropped.
IdleProcessIsKept ==
    [][\A p \in Processes :
          (pool = p /\ proc[p].up /\ proc[p].callMu = None /\ ~proc[p].stopping
           /\ faults' = faults) => proc'[p].up]_vars
=============================================================================
