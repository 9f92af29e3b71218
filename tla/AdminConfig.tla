---------------------------- MODULE AdminConfig ----------------------------
(***************************************************************************)
(* The pool configuration: adminRuntime.pools in memory, the pools file,   *)
(* and the live router, replaced together by the admin handlers (persist)  *)
(* and by Reload, which no lock keeps apart; SIGHUP on its way to Reload;  *)
(* and the start of the service from the file.  A pool is absent, "good",  *)
(* "unknown" (names a provider the registry has not) or "noid" (has an     *)
(* upstream without id, which only loading the file refuses).              *)
(***************************************************************************)
EXTENDS Integers, FiniteSets

CONSTANTS
    Pools,         \* names of pools
    MaxHandlers,   \* bound: admin requests
    MaxFaults,     \* bound: failed writes, crashes, and edits by the operator
    MaxSignals,    \* bound: SIGHUPs
    None

ASSUME AdminConfigAssumption ==
    /\ IsFiniteSet(Pools) /\ {MaxHandlers, MaxFaults, MaxSignals} \subseteq Nat

VARIABLES
    memory,     \* adminRuntime.pools
    file,       \* the pools file, None when it does not parse
    live,       \* the pools liveRouter.router was built from
    up,         \* the service runs
    restart,    \* a restart-only field of the config file differs from what runs
    ops,        \* ops[o]: the locals of a handler; 0 is the reload loop
    begun,      \* number of handlers begun
    hup,        \* the channel of signal.Notify
    reload,     \* the channel of the reload loop
    unserved,   \* history: a SIGHUP came and no Reload has read the files since
    faults, signals

vars == <<memory, file, live, up, restart, ops, begun, hup, reload, unserved,
          faults, signals>>
process == <<memory, live, up>>
budgets == <<faults, signals>>
signalling == <<hup, reload, unserved>>

Handlers == 1 .. MaxHandlers
Defs == {"absent", "good", "unknown", "noid"}
Config == [Pools -> Defs]
Empty == [p \in Pools |-> "absent"]

\* raw and router: what Marshal and RouterFromConfigPools made of the pools.
\* alone (history): nothing else has touched the configuration since it began.
Idle == [at |-> "none", raw |-> Empty, router |-> Empty, alone |-> TRUE]

Init ==
    /\ memory = Empty /\ file = Empty /\ live = Empty
    /\ up = TRUE /\ restart = FALSE
    /\ ops = [o \in {0} \union Handlers |-> Idle]
    /\ begun = 0
    /\ hup = FALSE /\ reload = FALSE /\ unserved = FALSE
    /\ faults = 0 /\ signals = 0
-----------------------------------------------------------------------------
Fault == faults < MaxFaults /\ faults' = faults + 1 /\ UNCHANGED signals

Routable(pools) == \A p \in Pools : pools[p] # "unknown"
Loadable(pools) == pools # None /\ \A p \in Pools : pools[p] # "noid"

Running(o) == ops[o].at \notin {"none", "done"}

Begins(o, at) ==
    ops' = [q \in DOMAIN ops |->
              IF q = o THEN [Idle EXCEPT !.at = at,
                                         !.alone = \A r \in DOMAIN ops : ~Running(r)]
              ELSE IF Running(q) THEN [ops[q] EXCEPT !.alone = FALSE] ELSE ops[q]]

Ends(o) == ops' = [ops EXCEPT ![o] = [Idle EXCEPT !.at = IF o = 0 THEN "none" ELSE "done"]]

BeginsHandler(at) == /\ up /\ begun < MaxHandlers /\ begun' = begun + 1
                     /\ Begins(begun + 1, at)
-----------------------------------------------------------------------------
(* The handlers change the pools in memory first, then they persist.       *)

Upsert ==
    \E p \in Pools, def \in Defs \ {"absent"} :
        /\ BeginsHandler("marshal")
        /\ memory' = [memory EXCEPT ![p] = def]
        /\ UNCHANGED <<file, live, up, restart, signalling, budgets>>

DeletePool ==
    \E p \in Pools :
        /\ memory[p] # "absent"
        /\ BeginsHandler("marshal")
        /\ memory' = [memory EXCEPT ![p] = "absent"]
        /\ UNCHANGED <<file, live, up, restart, signalling, budgets>>

\* One upstream of known provider and id is added to a pool or replaced.
upsertUpstream(p) ==
    /\ BeginsHandler("marshal")
    /\ memory' = [memory EXCEPT ![p] = IF @ = "absent" THEN "good" ELSE @]
    /\ UNCHANGED <<file, live, up, restart, signalling, budgets>>

\* The key is in the vault already when the pools are changed, and stays there
\* when they cannot be.
APIKeyCreate == \E p \in Pools : upsertUpstream(p)

\* The default pool of an agent is one that has no upstream of another provider.
CLIEnable == \E p \in Pools : upsertUpstream(p)

\* Mutant: the file is written before the router is built.
MarshalWriting(o) ==
    /\ ops[o].at = "marshal"
    /\ ops' = [ops EXCEPT ![o].raw = memory, ![o].at = "route"]
    /\ file' = memory
    /\ UNCHANGED <<process, restart, begun, signalling, budgets>>

Marshal(o) ==
    /\ ops[o].at = "marshal"
    /\ ops' = [ops EXCEPT ![o].raw = memory, ![o].at = "route"]
    /\ UNCHANGED <<process, file, restart, begun, signalling, budgets>>

\* RouterFromConfigPools reads the pools again.
Route(o) ==
    /\ ops[o].at = "route"
    /\ IF Routable(memory)
       THEN ops' = [ops EXCEPT ![o].router = memory, ![o].at = "write"]
       ELSE Ends(o)
    /\ UNCHANGED <<process, file, restart, begun, signalling, budgets>>

\* os.WriteFile opens the file, which truncates it, and then writes: in between, an
\* empty file is what a Reload or a start finds, and it does not load.
Truncate(o) ==
    /\ ops[o].at = "write"
    /\ \/ /\ file' = None
          /\ ops' = [ops EXCEPT ![o].at = "fill"]
          /\ UNCHANGED budgets
       \/ Ends(o) /\ Fault /\ UNCHANGED file
    /\ UNCHANGED <<process, restart, begun, signalling>>

\* What another wrote since the file was truncated may stick out behind.
Write(o) ==
    /\ ops[o].at = "fill"
    /\ \/ /\ file' \in {ops[o].raw} \union (IF file = None THEN {} ELSE {None})
          /\ ops' = [ops EXCEPT ![o].raw = Empty, ![o].at = "set"]
          /\ UNCHANGED budgets
       \/ Ends(o) /\ file' = None /\ Fault
    /\ UNCHANGED <<process, restart, begun, signalling>>

\* Mutant: the router is not replaced.
SetNothing(o) ==
    /\ ops[o].at = "set"
    /\ Ends(o)
    /\ UNCHANGED <<process, file, restart, begun, signalling, budgets>>

\* liveRouter.Set, and the event pool_reloaded or reload.
Set(o) ==
    /\ ops[o].at = "set"
    /\ live' = ops[o].router
    /\ Ends(o)
    /\ UNCHANGED <<memory, up, file, restart, begun, signalling, budgets>>
-----------------------------------------------------------------------------
(* Reload, called by a handler or by the loop that serves SIGHUP.          *)

BeginReload ==
    /\ BeginsHandler("read")
    /\ UNCHANGED <<process, file, restart, signalling, budgets>>

ReloadLoop ==
    /\ up /\ reload /\ ~Running(0)
    /\ reload' = FALSE
    /\ Begins(0, "read")
    /\ UNCHANGED <<process, file, restart, begun, hup, unserved, budgets>>

\* Mutant: the error of LoadPools is not looked at.
ReadUnchecked(o) ==
    /\ ops[o].at = "read"
    /\ unserved' = FALSE
    /\ IF restart THEN Ends(o)
       ELSE ops' = [ops EXCEPT ![o].router = file, ![o].at = "assign"]
    /\ UNCHANGED <<process, file, restart, begun, hup, reload, budgets>>

\* The files are read and checked; a restart-only field, a file that does not load
\* and an unknown provider leave everything as it was.
Read(o) ==
    /\ ops[o].at = "read"
    /\ unserved' = FALSE
    /\ IF ~restart /\ Loadable(file) /\ Routable(file)
       THEN ops' = [ops EXCEPT ![o].router = file, ![o].at = "assign"]
       ELSE Ends(o)
    /\ UNCHANGED <<process, file, restart, begun, hup, reload, budgets>>

Assign(o) ==
    /\ ops[o].at = "assign"
    /\ memory' = ops[o].router
    /\ ops' = [ops EXCEPT ![o].at = "set"]
    /\ UNCHANGED <<live, up, file, restart, begun, signalling, budgets>>
-----------------------------------------------------------------------------
(* Signals.                                                                *)

Hup ==
    /\ up /\ signals < MaxSignals /\ signals' = signals + 1
    /\ hup' = TRUE /\ unserved' = TRUE
    /\ UNCHANGED <<process, file, restart, ops, begun, reload, faults>>

\* Mutant: the reload channel has no buffer.
ForwardUnbuffered ==
    /\ up /\ hup
    /\ hup' = FALSE /\ reload' = ~Running(0)
    /\ UNCHANGED <<process, file, restart, ops, begun, unserved, budgets>>

\* serveSignals: with a reload waiting already, the signal adds nothing.
Forward ==
    /\ up /\ hup
    /\ hup' = FALSE /\ reload' = TRUE
    /\ UNCHANGED <<process, file, restart, ops, begun, unserved, budgets>>
-----------------------------------------------------------------------------
(* The operator, the end of the process and its start.                     *)

Edit ==
    /\ Fault
    /\ \/ \E p \in Pools : file' = [Empty EXCEPT ![p] = "good"] /\ UNCHANGED restart
       \/ restart' = TRUE /\ UNCHANGED file
    /\ ops' = [o \in DOMAIN ops |-> IF Running(o) THEN [ops[o] EXCEPT !.alone = FALSE]
                                    ELSE ops[o]]
    /\ UNCHANGED <<process, begun, signalling>>

Crash ==
    /\ up /\ up' = FALSE /\ Fault
    /\ ops' = [o \in DOMAIN ops |-> [Idle EXCEPT !.at = IF Running(o) /\ o # 0 THEN "done"
                                                        ELSE IF o = 0 THEN "none"
                                                        ELSE ops[o].at]]
    /\ file' \in {file} \union (IF \E o \in DOMAIN ops : ops[o].at = "fill" THEN {None}
                                ELSE {})
    /\ memory' = Empty /\ live' = Empty
    /\ hup' = FALSE /\ reload' = FALSE /\ unserved' = FALSE
    /\ UNCHANGED <<restart, begun>>

\* ServeConfig returns an error, and the service stays down, if the file does not
\* load or names an unknown provider.
Boot ==
    /\ ~up /\ Loadable(file) /\ Routable(file)
    /\ up' = TRUE /\ memory' = file /\ live' = file /\ restart' = FALSE
    /\ UNCHANGED <<file, ops, begun, signalling, budgets>>
-----------------------------------------------------------------------------
Step(o) ==
    \/ Marshal(o) \/ Route(o) \/ Truncate(o) \/ Write(o) \/ Set(o)
    \/ Read(o) \/ Assign(o)

Next ==
    \/ Upsert \/ DeletePool \/ APIKeyCreate \/ CLIEnable \/ BeginReload
    \/ \E o \in DOMAIN ops : Step(o)
    \/ Hup \/ Forward \/ ReloadLoop
    \/ Edit \/ Crash \/ Boot

Fairness == /\ WF_vars(Forward) /\ WF_vars(ReloadLoop)
            /\ \A o \in {0} \union Handlers : WF_vars(Step(o))

Spec == Init /\ [][Next]_vars /\ Fairness
-----------------------------------------------------------------------------
TypeOK ==
    /\ {memory, live} \subseteq Config /\ file \in Config \union {None}
    /\ {up, restart, hup, reload, unserved} \subseteq BOOLEAN
    /\ DOMAIN ops = {0} \union Handlers
    /\ \A o \in DOMAIN ops :
        ops[o] \in [at : {"none", "marshal", "route", "write", "fill", "set", "read",
                          "assign", "done"},
                    raw : Config, router : Config, alone : BOOLEAN]
    /\ begun \in 0 .. MaxHandlers
    /\ faults \in 0 .. MaxFaults /\ signals \in 0 .. MaxSignals

\* A handler or a Reload that reports success and met no other leaves the pools in
\* memory, the file and the live router the same, whatever earlier failures left.
SuccessIsEverywhere ==
    [][\A o \in DOMAIN ops : (ops[o].at = "set" /\ ops'[o].at # "set" /\ up' /\ ops[o].alone)
          => memory' = file' /\ file' = live']_vars

\* A handler that meets no other never leaves a file that cannot be routed at the next
\* start: the router is built before the file is written.
PersistsWhatItRouted ==
    [][\A o \in Handlers :
          (file' # file /\ file' # None /\ ops'[o] # ops[o] /\ ops[o].alone /\ up')
          => Routable(file')]_vars

\* A SIGHUP is not lost: after it, and as long as the service runs, the files are read
\* again, also when it arrives while an earlier Reload is running: none stays unserved
\* for ever.
SignalIsServed == []<>(~unserved \/ ~up)
=============================================================================
