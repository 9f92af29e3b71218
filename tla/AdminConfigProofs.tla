-------------------------- MODULE AdminConfigProofs --------------------------
(***************************************************************************)
(* TypeOK, SuccessIsEverywhere and PersistsWhatItRouted for any finite set *)
(* of pools and any number of handlers, faults and signals.  A router      *)
(* that a handler holds was built from pools that can be routed; and a     *)
(* handler that has met no other holds, at each place, what memory and     *)
(* file hold.                                                              *)
(***************************************************************************)
EXTENDS AdminConfig, TLAPS

Writers == {0} \union Handlers
Op == [at : {"none", "marshal", "route", "write", "fill", "set", "read", "assign", "done"},
       raw : Config, router : Config, alone : BOOLEAN]

Types ==
    /\ memory \in Config /\ live \in Config /\ file \in Config \union {None}
    /\ {up, restart, hup, reload, unserved} \subseteq BOOLEAN
    /\ ops \in [Writers -> Op]
    /\ begun \in 0 .. MaxHandlers
    /\ faults \in 0 .. MaxFaults /\ signals \in 0 .. MaxSignals

\* The routers that are live, or will be, were built without an error.
RoutersComplete ==
    /\ Routable(live)
    /\ \A o \in Writers : ops[o].at \in {"write", "fill", "set", "assign"} => Routable(ops[o].router)

\* A process that is down runs nothing.
DownIsIdle == ~up => \A o \in Writers : ~Running(o)

\* Who has met no other runs by itself.
AloneIsAlone ==
    \A o \in Writers : Running(o) /\ ops[o].alone =>
        \A r \in Writers \ {o} : ~Running(r)

\* What a handler that has met no other holds is what memory and file hold.
HoldsWhatIsThere ==
    \A o \in Writers : ops[o].alone =>
        /\ ops[o].at = "route" => ops[o].raw = memory
        /\ ops[o].at \in {"write", "fill"} => ops[o].raw = memory /\ ops[o].router = memory
        /\ ops[o].at = "fill" => file = None
        /\ ops[o].at = "set" => ops[o].router = memory /\ file = memory
        /\ ops[o].at = "assign" => ops[o].router = file

UnbegunIsIdle == \A o \in Handlers : o > begun => ~Running(o)

IInv == /\ Types /\ RoutersComplete /\ DownIsIdle /\ AloneIsAlone
        /\ HoldsWhatIsThere /\ UnbegunIsIdle
-----------------------------------------------------------------------------
LEMMA EmptyIsRoutable == Empty \in Config /\ Routable(Empty)
BY DEF Empty, Config, Defs, Routable

LEMMA IdleType ==
    /\ \A at \in {"none", "marshal", "read", "done"}, b \in BOOLEAN :
         [Idle EXCEPT !.at = at, !.alone = b] \in Op
    /\ \A at \in {"none", "done"} : [Idle EXCEPT !.at = at] \in Op
BY EmptyIsRoutable DEF Idle, Op

LEMMA InitInv == Init => IInv
<1>. SUFFICES ASSUME Init PROVE IInv
  OBVIOUS
<1>1. Idle \in Op
  BY EmptyIsRoutable DEF Idle, Op
<1>2. Types
  <2>1. MaxHandlers \in Nat /\ MaxFaults \in Nat /\ MaxSignals \in Nat
    BY AdminConfigAssumption
  <2>2. ops \in [Writers -> Op]
    BY <1>1 DEF Init, Writers
  <2>3. {up, restart, hup, reload, unserved} \subseteq BOOLEAN
    BY DEF Init
  <2>4. memory \in Config /\ live \in Config /\ file \in Config
    BY EmptyIsRoutable DEF Init
  <2>5. QED
    BY <2>1, <2>2, <2>3, <2>4 DEF Init, Types
<1>3. \A o \in Writers : ops[o] = Idle /\ ~Running(o)
  BY DEF Init, Writers, Idle, Running
<1>4. RoutersComplete
  <2>1. Routable(live)
    BY EmptyIsRoutable DEF Init, Routable
  <2>2. \A o \in Writers : ops[o].at = "none"
    BY <1>3 DEF Idle
  <2>3. QED
    BY <2>1, <2>2 DEF RoutersComplete
<1>5. DownIsIdle /\ AloneIsAlone /\ HoldsWhatIsThere
  BY <1>3 DEF DownIsIdle, AloneIsAlone, HoldsWhatIsThere, Idle
<1>6. UnbegunIsIdle
  BY <1>3 DEF UnbegunIsIdle, Handlers, Writers
<1>7. QED
  BY <1>2, <1>4, <1>5, <1>6 DEF IInv

\* A step of a writer that runs.  No other that runs has met none, so that what the
\* others hold may differ from memory and file by now.
LEMMA StepInv ==
    ASSUME IInv, NEW o \in Writers, Running(o),
           NEW q \in Op, ops' = [ops EXCEPT ![o] = q],
           q.at \notin {"none", "done"} => q.alone = ops[o].alone,
           q.at \in {"write", "fill", "set", "assign"} => Routable(q.router),
           q.alone =>
              /\ q.at = "route" => q.raw = memory'
              /\ q.at \in {"write", "fill"} => q.raw = memory' /\ q.router = memory'
              /\ q.at = "fill" => file' = None
              /\ q.at = "set" => q.router = memory' /\ file' = memory'
              /\ q.at = "assign" => q.router = file',
           memory' \in Config, live' \in Config, Routable(live'),
           file' \in Config \union {None},
           reload' \in BOOLEAN, unserved' \in BOOLEAN, faults' \in 0 .. MaxFaults,
           UNCHANGED <<up, restart, hup, begun, signals>>
    PROVE  IInv'
<1>1. /\ ops' \in [Writers -> Op]
      /\ \A r \in Writers : ops'[r] = IF r = o THEN q ELSE ops[r]
  BY DEF IInv, Types
<1>2. Types'
  BY <1>1 DEF IInv, Types
<1>3. RoutersComplete'
  BY <1>1 DEF IInv, RoutersComplete, Routable
<1>4. DownIsIdle'
  BY <1>1 DEF IInv, DownIsIdle, Running
<1>5. AloneIsAlone'
  BY <1>1 DEF IInv, AloneIsAlone, Running
<1>6. \A r \in Writers \ {o} : Running(r) => ~ops[r].alone
  BY DEF IInv, AloneIsAlone
<1>7. HoldsWhatIsThere'
  BY <1>1, <1>6 DEF IInv, HoldsWhatIsThere, Running
<1>8. UnbegunIsIdle'
  BY <1>1 DEF IInv, UnbegunIsIdle, Running, Writers
<1>9. QED
  BY <1>2, <1>3, <1>4, <1>5, <1>7, <1>8 DEF IInv

\* A writer begins; whoever runs has met it.
LEMMA BeginInv ==
    ASSUME IInv, NEW o \in Writers, ~Running(o), up,
           NEW at \in {"marshal", "read"}, Begins(o, at),
           memory' \in Config, begun' \in 0 .. MaxHandlers, reload' \in BOOLEAN,
           begun <= begun', o <= begun',
           UNCHANGED <<file, live, up, restart, hup, unserved, faults, signals>>
    PROVE  IInv'
<1>. DEFINE alone == \A r \in DOMAIN ops : ~Running(r)
            q == [Idle EXCEPT !.at = at, !.alone = alone]
<1>0. \A r \in Writers : ops[r] \in Op /\ DOMAIN ops = Writers
  BY DEF IInv, Types
<1>1. q \in Op /\ q.at = at /\ q.alone = alone
  BY IdleType DEF Idle
<1>2. \A r \in Writers : [ops[r] EXCEPT !.alone = FALSE] \in Op
  BY <1>0 DEF Op
<1>3. \A r \in Writers :
         ops'[r] = IF r = o THEN q
                   ELSE IF Running(r) THEN [ops[r] EXCEPT !.alone = FALSE] ELSE ops[r]
  BY <1>0 DEF Begins
<1>4. ops' \in [Writers -> Op]
  <2>1. DOMAIN ops' = Writers /\ ops' = [r \in Writers |-> ops'[r]]
    BY <1>0 DEF Begins
  <2>2. \A r \in Writers : ops'[r] \in Op
    BY <1>0, <1>1, <1>2, <1>3
  <2>3. QED
    BY <2>1, <2>2
<1>5. \A r \in Writers \ {o} :
         /\ ops'[r].at = ops[r].at /\ ops'[r].router = ops[r].router
         /\ Running(r) => ~ops'[r].alone
         /\ ~Running(r) => ops'[r] = ops[r]
  BY <1>0, <1>3 DEF Op
<1>. HIDE DEF q
<1>6. Types'
  BY <1>4 DEF IInv, Types
<1>7. RoutersComplete'
  BY <1>1, <1>3, <1>5 DEF IInv, RoutersComplete, Routable
<1>8. DownIsIdle'
  BY DEF DownIsIdle
<1>9. AloneIsAlone'
  <2>1. \A r \in Writers \ {o} : Running(r)' <=> Running(r)
    BY <1>5 DEF Running
  <2>2. ops'[o].alone => \A r \in Writers : ~Running(r)
    BY <1>0, <1>1, <1>3
  <2>3. QED
    BY <2>1, <2>2, <1>5 DEF AloneIsAlone
<1>10. HoldsWhatIsThere'
  BY <1>1, <1>3, <1>5 DEF IInv, HoldsWhatIsThere, Running
<1>11. UnbegunIsIdle'
  <2>. SUFFICES ASSUME NEW r \in Handlers, r > begun' PROVE ~Running(r)'
    BY DEF UnbegunIsIdle
  <2>1. r \in Writers \ {o} /\ r > begun
    BY AdminConfigAssumption DEF Writers, Handlers, IInv, Types
  <2>2. ops'[r].at = ops[r].at /\ ~Running(r)
    BY <1>5, <2>1 DEF IInv, UnbegunIsIdle
  <2>3. QED
    BY <2>2 DEF Running
<1>12. QED
  BY <1>6, <1>7, <1>8, <1>9, <1>10, <1>11 DEF IInv
-----------------------------------------------------------------------------
LEMMA EndsInv ==
    ASSUME IInv, NEW o \in Writers, Running(o), Ends(o),
           live' \in Config, Routable(live'), file' \in Config \union {None},
           unserved' \in BOOLEAN, faults' \in 0 .. MaxFaults,
           UNCHANGED <<memory, up, restart, hup, reload, begun, signals>>
    PROVE  IInv'
<1>. DEFINE q == [Idle EXCEPT !.at = IF o = 0 THEN "none" ELSE "done"]
<1>1. q \in Op /\ q.at \in {"none", "done"}
  BY IdleType DEF Idle
<1>2. ops' = [ops EXCEPT ![o] = q]
  BY DEF Ends
<1>3. memory' \in Config /\ reload' \in BOOLEAN
  BY DEF IInv, Types
<1>. HIDE DEF q
<1>4. QED
  BY <1>1, <1>2, <1>3, StepInv

LEMMA MarshalInv ==
    ASSUME IInv, NEW o \in Writers, Marshal(o) PROVE IInv'
<1>. DEFINE q == [ops[o] EXCEPT !.raw = memory, !.at = "route"]
<1>1. ops[o] \in Op /\ DOMAIN ops = Writers /\ memory \in Config /\ Running(o)
  BY DEF IInv, Types, Marshal, Running
<1>2. /\ q \in Op /\ q.at = "route" /\ q.raw = memory /\ q.alone = ops[o].alone
      /\ ops' = [ops EXCEPT ![o] = q]
  BY <1>1 DEF Marshal, Op
<1>3. Routable(live')
  BY DEF Marshal, process, IInv, RoutersComplete, Routable
<1>. HIDE DEF q
<1>4. QED
  BY <1>1, <1>2, <1>3, StepInv
     DEF Marshal, process, signalling, budgets, IInv, Types

LEMMA RouteInv ==
    ASSUME IInv, NEW o \in Writers, Route(o) PROVE IInv'
<1>1. ops[o] \in Op /\ DOMAIN ops = Writers /\ memory \in Config /\ Running(o)
  BY DEF IInv, Types, Route, Running
<1>2. Routable(live')
  BY DEF Route, process, IInv, RoutersComplete, Routable
<1>3. CASE Routable(memory)
  <2>. DEFINE q == [ops[o] EXCEPT !.router = memory, !.at = "write"]
  <2>1. /\ q \in Op /\ q.at = "write" /\ q.router = memory /\ q.raw = ops[o].raw
        /\ q.alone = ops[o].alone /\ ops' = [ops EXCEPT ![o] = q]
    BY <1>1, <1>3 DEF Route, Op
  <2>2. q.alone => q.raw = memory
    BY <2>1 DEF Route, IInv, HoldsWhatIsThere
  <2>3. Routable(q.router)
    BY <1>3
  <2>. HIDE DEF q
  <2>4. QED
    BY <1>1, <1>2, <2>1, <2>2, <2>3, StepInv
       DEF Route, process, signalling, budgets, IInv, Types
<1>4. CASE ~Routable(memory)
  BY <1>1, <1>2, <1>4, EndsInv DEF Route, process, signalling, budgets, IInv, Types
<1>5. QED
  BY <1>3, <1>4

LEMMA TruncateInv ==
    ASSUME IInv, NEW o \in Writers, Truncate(o) PROVE IInv'
<1>1. ops[o] \in Op /\ DOMAIN ops = Writers /\ Running(o)
  BY DEF IInv, Types, Truncate, Running
<1>2. Routable(live')
  BY DEF Truncate, process, IInv, RoutersComplete, Routable
<1>3. CASE file' = None /\ UNCHANGED budgets /\ ops' = [ops EXCEPT ![o].at = "fill"]
  <2>. DEFINE q == [ops[o] EXCEPT !.at = "fill"]
  <2>1. /\ q \in Op /\ q.at = "fill" /\ q.router = ops[o].router /\ q.raw = ops[o].raw
        /\ q.alone = ops[o].alone /\ ops' = [ops EXCEPT ![o] = q]
    BY <1>1, <1>3 DEF Op
  <2>2. q.alone => q.raw = memory /\ q.router = memory
    BY <2>1 DEF Truncate, IInv, HoldsWhatIsThere
  <2>3. Routable(q.router)
    BY <2>1 DEF Truncate, IInv, RoutersComplete, Routable
  <2>. HIDE DEF q
  <2>4. QED
    BY <1>1, <1>2, <1>3, <2>1, <2>2, <2>3, StepInv
       DEF Truncate, process, signalling, budgets, IInv, Types
<1>4. CASE Ends(o) /\ Fault /\ UNCHANGED file
  <2>1. file' \in Config \union {None} /\ faults' \in 0 .. MaxFaults
    BY <1>4, AdminConfigAssumption DEF Fault, IInv, Types
  <2>2. QED
    BY <1>1, <1>2, <1>4, <2>1, EndsInv
       DEF Truncate, process, signalling, Fault, IInv, Types
<1>5. QED
  BY <1>3, <1>4 DEF Truncate

LEMMA WriteInv ==
    ASSUME IInv, NEW o \in Writers, Write(o) PROVE IInv'
<1>1. ops[o] \in Op /\ DOMAIN ops = Writers /\ Running(o)
  BY DEF IInv, Types, Write, Running
<1>2. Routable(live')
  BY DEF Write, process, IInv, RoutersComplete, Routable
<1>3. CASE /\ file' \in {ops[o].raw} \union (IF file = None THEN {} ELSE {None})
           /\ UNCHANGED budgets
           /\ ops' = [ops EXCEPT ![o].raw = Empty, ![o].at = "set"]
  <2>. DEFINE q == [ops[o] EXCEPT !.raw = Empty, !.at = "set"]
  <2>1. /\ q \in Op /\ q.at = "set" /\ q.router = ops[o].router
        /\ q.alone = ops[o].alone /\ ops' = [ops EXCEPT ![o] = q]
    BY <1>1, <1>3, EmptyIsRoutable DEF Op
  <2>2. q.alone => q.router = memory /\ file' = memory
    BY <1>3, <2>1 DEF Write, IInv, HoldsWhatIsThere
  <2>3. Routable(q.router)
    BY <2>1 DEF Write, IInv, RoutersComplete, Routable
  <2>4. file' \in Config \union {None}
    BY <1>1, <1>3 DEF Op
  <2>. HIDE DEF q
  <2>5. QED
    BY <1>1, <1>2, <1>3, <2>1, <2>2, <2>3, <2>4, StepInv
       DEF Write, process, signalling, budgets, IInv, Types
<1>4. CASE Ends(o) /\ file' = None /\ Fault
  <2>1. file' \in Config \union {None} /\ faults' \in 0 .. MaxFaults
    BY <1>4, AdminConfigAssumption DEF Fault, IInv, Types
  <2>2. QED
    BY <1>1, <1>2, <1>4, <2>1, EndsInv
       DEF Write, process, signalling, Fault, IInv, Types
<1>5. QED
  BY <1>3, <1>4 DEF Write

LEMMA SetInv ==
    ASSUME IInv, NEW o \in Writers, Set(o) PROVE IInv'
<1>1. Running(o) /\ live' \in Config
  BY DEF IInv, Types, Op, Set, Running
<1>2. Routable(live')
  BY DEF Set, IInv, RoutersComplete, Routable
<1>3. QED
  BY <1>1, <1>2, EndsInv DEF Set, signalling, budgets, IInv, Types

LEMMA ReadInv ==
    ASSUME IInv, NEW o \in Writers, Read(o) PROVE IInv'
<1>1. ops[o] \in Op /\ DOMAIN ops = Writers /\ Running(o)
  BY DEF IInv, Types, Read, Running
<1>2. Routable(live')
  BY DEF Read, process, IInv, RoutersComplete, Routable
<1>3. CASE ~restart /\ Loadable(file) /\ Routable(file)
  <2>. DEFINE q == [ops[o] EXCEPT !.router = file, !.at = "assign"]
  <2>1. file \in Config
    BY <1>3 DEF Loadable, IInv, Types
  <2>2. /\ q \in Op /\ q.at = "assign" /\ q.router = file
        /\ q.alone = ops[o].alone /\ ops' = [ops EXCEPT ![o] = q]
    BY <1>1, <1>3, <2>1 DEF Read, Op
  <2>3. Routable(q.router)
    BY <1>3
  <2>. HIDE DEF q
  <2>4. QED
    BY <1>1, <1>2, <2>2, <2>3, StepInv DEF Read, process, budgets, IInv, Types
<1>4. CASE ~(~restart /\ Loadable(file) /\ Routable(file))
  <2>1. Ends(o) /\ unserved' = FALSE
    BY <1>4 DEF Read
  <2>2. QED
    BY <1>1, <1>2, <2>1, EndsInv DEF Read, process, budgets, IInv, Types
<1>5. QED
  BY <1>3, <1>4

LEMMA AssignInv ==
    ASSUME IInv, NEW o \in Writers, Assign(o) PROVE IInv'
<1>. DEFINE q == [ops[o] EXCEPT !.at = "set"]
<1>1. ops[o] \in Op /\ DOMAIN ops = Writers /\ Running(o)
  BY DEF IInv, Types, Assign, Running
<1>2. /\ q \in Op /\ q.at = "set" /\ q.router = ops[o].router
      /\ q.alone = ops[o].alone /\ ops' = [ops EXCEPT ![o] = q]
  BY <1>1 DEF Assign, Op
<1>3. memory' = q.router /\ memory' \in Config
  BY <1>1, <1>2 DEF Assign, Op
<1>4. q.alone => file' = memory'
  BY <1>2 DEF Assign, IInv, HoldsWhatIsThere
<1>5. Routable(q.router) /\ Routable(live')
  BY <1>2 DEF Assign, IInv, RoutersComplete, Routable
<1>. HIDE DEF q
<1>6. QED
  BY <1>1, <1>2, <1>3, <1>4, <1>5, StepInv
     DEF Assign, signalling, budgets, IInv, Types
-----------------------------------------------------------------------------
LEMMA BeginHandlerInv ==
    ASSUME IInv, NEW at \in {"marshal", "read"}, BeginsHandler(at),
           memory' \in Config, UNCHANGED <<file, live, up, restart, signalling, budgets>>
    PROVE  IInv'
<1>1. /\ begun \in 0 .. MaxHandlers /\ MaxHandlers \in Nat /\ reload \in BOOLEAN
      /\ up /\ begun < MaxHandlers /\ begun' = begun + 1 /\ Begins(begun + 1, at)
  BY AdminConfigAssumption DEF BeginsHandler, IInv, Types
<1>. DEFINE o == begun + 1
<1>2. o \in Writers /\ begun' \in 0 .. MaxHandlers /\ Begins(o, at) /\ up
  BY <1>1 DEF Writers, Handlers
<1>. HIDE DEF o
<1>3. ~Running(o)
  BY <1>1 DEF o, IInv, UnbegunIsIdle, Handlers
<1>4. begun <= begun' /\ o <= begun'
  BY <1>1 DEF o
<1>5. QED
  BY <1>1, <1>2, <1>3, <1>4, BeginInv DEF signalling, budgets

LEMMA UpsertInv == IInv /\ (Upsert \/ DeletePool) => IInv'
<1>. SUFFICES ASSUME IInv, Upsert \/ DeletePool PROVE IInv'
  OBVIOUS
<1>1. PICK p \in Pools, def \in Defs :
        /\ BeginsHandler("marshal")
        /\ memory' = [memory EXCEPT ![p] = def]
        /\ UNCHANGED <<file, live, up, restart, signalling, budgets>>
  BY DEF Upsert, DeletePool, Defs
<1>2. memory' \in Config
  BY <1>1 DEF IInv, Types, Config
<1>3. QED
  BY <1>1, <1>2, BeginHandlerInv

LEMMA UpstreamInv == IInv /\ (APIKeyCreate \/ CLIEnable) => IInv'
<1>. SUFFICES ASSUME IInv, NEW p \in Pools, upsertUpstream(p) PROVE IInv'
  BY DEF APIKeyCreate, CLIEnable
<1>1. "good" \in Defs /\ memory[p] \in Defs /\ memory \in [Pools -> Defs]
  BY DEF Defs, IInv, Types, Config
<1>2. memory' \in Config
  BY <1>1 DEF upsertUpstream, Config
<1>3. QED
  BY <1>2, BeginHandlerInv DEF upsertUpstream

LEMMA BeginReloadInv == IInv /\ (BeginReload \/ ReloadLoop) => IInv'
<1>. SUFFICES ASSUME IInv, BeginReload \/ ReloadLoop PROVE IInv'
  OBVIOUS
<1>1. memory \in Config /\ begun \in 0 .. MaxHandlers
  BY DEF IInv, Types
<1>2. CASE BeginReload
  BY <1>1, <1>2, BeginHandlerInv DEF BeginReload, process
<1>3. CASE ReloadLoop
  <2>1. 0 \in Writers /\ 0 <= begun /\ begun <= begun
    BY <1>1, AdminConfigAssumption DEF Writers
  <2>2. QED
    BY <1>1, <1>3, <2>1, BeginInv DEF ReloadLoop, process, budgets
<1>4. QED
  BY <1>2, <1>3

LEMMA SignalInv == IInv /\ (Hup \/ Forward) => IInv'
<1>. SUFFICES ASSUME IInv, Hup \/ Forward PROVE IInv'
  OBVIOUS
<1>1. /\ hup' \in BOOLEAN /\ reload' \in BOOLEAN /\ unserved' \in BOOLEAN
      /\ UNCHANGED <<memory, file, live, up, restart, ops, begun, faults>>
  BY DEF Hup, Forward, process, budgets, IInv, Types
<1>2. signals' \in 0 .. MaxSignals
  BY AdminConfigAssumption DEF Hup, Forward, budgets, IInv, Types
<1>3. Types'
  BY <1>1, <1>2 DEF IInv, Types
<1>4. QED
  BY <1>1, <1>3 DEF IInv, RoutersComplete, Routable, DownIsIdle, AloneIsAlone,
                    HoldsWhatIsThere, UnbegunIsIdle, Running

LEMMA EditInv == IInv /\ Edit => IInv'
<1>. SUFFICES ASSUME IInv, Edit PROVE IInv'
  OBVIOUS
<1>1. /\ ops \in [Writers -> Op] /\ DOMAIN ops = Writers
      /\ UNCHANGED <<memory, live, up, begun, hup, reload, unserved, signals>>
  BY DEF Edit, Fault, process, signalling, IInv, Types
<1>2. faults' \in 0 .. MaxFaults
  BY AdminConfigAssumption DEF Edit, Fault, IInv, Types
<1>3. file' \in Config \union {None} /\ restart' \in BOOLEAN
  <2>1. \A p \in Pools : [Empty EXCEPT ![p] = "good"] \in Config
    BY DEF Empty, Config, Defs
  <2>2. QED
    BY <2>1 DEF Edit, IInv, Types
<1>4. \A r \in Writers :
         ops'[r] = IF Running(r) THEN [ops[r] EXCEPT !.alone = FALSE] ELSE ops[r]
  BY <1>1 DEF Edit
<1>5. \A r \in Writers :
         /\ ops'[r] \in Op /\ ops'[r].at = ops[r].at /\ ops'[r].router = ops[r].router
         /\ Running(r) => ~ops'[r].alone
  <2>1. \A q \in Op : /\ [q EXCEPT !.alone = FALSE] \in Op
                      /\ [q EXCEPT !.alone = FALSE].at = q.at
                      /\ [q EXCEPT !.alone = FALSE].router = q.router
                      /\ ~[q EXCEPT !.alone = FALSE].alone
    BY DEF Op
  <2>2. \A r \in Writers : ops[r] \in Op
    BY <1>1
  <2>3. QED
    BY <1>4, <2>1, <2>2
<1>6. ops' \in [Writers -> Op]
  <2>1. ops' = [r \in Writers |-> ops'[r]]
    BY <1>1 DEF Edit
  <2>2. QED
    BY <1>5, <2>1
<1>7. Types'
  BY <1>1, <1>2, <1>3, <1>6 DEF IInv, Types
<1>8. /\ RoutersComplete' /\ DownIsIdle' /\ AloneIsAlone' /\ HoldsWhatIsThere'
      /\ UnbegunIsIdle'
  <2>1. RoutersComplete'
    BY <1>1, <1>5 DEF IInv, RoutersComplete, Routable
  <2>2. DownIsIdle' /\ AloneIsAlone' /\ HoldsWhatIsThere'
    BY <1>1, <1>5 DEF IInv, DownIsIdle, AloneIsAlone, HoldsWhatIsThere, Running
  <2>3. UnbegunIsIdle'
    BY <1>1, <1>5 DEF IInv, UnbegunIsIdle, Running, Writers
  <2>4. QED
    BY <2>1, <2>2, <2>3
<1>9. QED
  BY <1>7, <1>8 DEF IInv

LEMMA CrashInv == IInv /\ Crash => IInv'
<1>. SUFFICES ASSUME IInv, Crash PROVE IInv'
  OBVIOUS
<1>1. /\ ops \in [Writers -> Op] /\ DOMAIN ops = Writers
      /\ UNCHANGED <<restart, begun, signals>>
      /\ memory' = Empty /\ live' = Empty /\ ~up' /\ up' = FALSE
      /\ hup' = FALSE /\ reload' = FALSE /\ unserved' = FALSE
  BY DEF Crash, Fault, IInv, Types
<1>2. faults' \in 0 .. MaxFaults
  BY AdminConfigAssumption DEF Crash, Fault, IInv, Types
<1>3. file' \in Config \union {None}
  BY DEF Crash, IInv, Types
<1>4. \A r \in Writers : \E at \in {"none", "done"} : ops'[r] = [Idle EXCEPT !.at = at]
  BY <1>1 DEF Crash, Running
<1>5. \A r \in Writers : ops'[r] \in Op /\ ops'[r].at \in {"none", "done"}
  BY <1>4, IdleType DEF Idle
<1>6. ops' \in [Writers -> Op]
  <2>1. ops' = [r \in Writers |-> ops'[r]]
    BY <1>1 DEF Crash
  <2>2. QED
    BY <1>5, <2>1
<1>7. Types'
  BY <1>1, <1>2, <1>3, <1>6, EmptyIsRoutable DEF IInv, Types
<1>8. Routable(live')
  BY <1>1, EmptyIsRoutable DEF Routable
<1>9. QED
  BY <1>5, <1>7, <1>8 DEF IInv, RoutersComplete, DownIsIdle, AloneIsAlone, Routable,
                          HoldsWhatIsThere, UnbegunIsIdle, Running, Writers

LEMMA BootInv == IInv /\ Boot => IInv'
<1>. SUFFICES ASSUME IInv, Boot PROVE IInv'
  OBVIOUS
<1>1. file \in Config /\ Routable(file) /\ \A o \in Writers : ~Running(o)
  BY DEF Boot, Loadable, IInv, Types, DownIsIdle
<1>2. /\ memory' = file /\ live' = file /\ up' = TRUE /\ restart' = FALSE
      /\ UNCHANGED <<file, ops, begun, hup, reload, unserved, faults, signals>>
  BY DEF Boot, signalling, budgets
<1>3. Types'
  BY <1>1, <1>2 DEF IInv, Types
<1>4. RoutersComplete'
  BY <1>1, <1>2 DEF IInv, RoutersComplete, Routable
<1>5. DownIsIdle' /\ AloneIsAlone' /\ HoldsWhatIsThere'
  BY <1>1, <1>2 DEF DownIsIdle, AloneIsAlone, HoldsWhatIsThere, Running
<1>6. UnbegunIsIdle'
  BY <1>2 DEF IInv, UnbegunIsIdle, Running
<1>7. QED
  BY <1>3, <1>4, <1>5, <1>6 DEF IInv

LEMMA NextInv == IInv /\ [Next]_vars => IInv'
<1>. SUFFICES ASSUME IInv, [Next]_vars PROVE IInv'
  OBVIOUS
<1>1. CASE UNCHANGED vars
  BY <1>1 DEF vars, IInv, Types, RoutersComplete, Routable, DownIsIdle, AloneIsAlone,
              HoldsWhatIsThere, UnbegunIsIdle, Running
<1>2. DOMAIN ops = Writers
  BY DEF IInv, Types
<1>3. ASSUME NEW o \in Writers, Step(o) PROVE IInv'
  BY <1>3, MarshalInv, RouteInv, TruncateInv, WriteInv, SetInv, ReadInv, AssignInv DEF Step
<1>4. QED
  BY <1>1, <1>2, <1>3, UpsertInv, UpstreamInv, BeginReloadInv, SignalInv, EditInv,
     CrashInv, BootInv DEF Next

LEMMA SafetyInv == Spec => []IInv
BY InitInv, NextInv, PTL DEF Spec
-----------------------------------------------------------------------------
\* The pools in memory, the file, the live router and every handler have the
\* values the model gives them.
THEOREM AdminConfigTypeOK == Spec => []TypeOK
<1>1. IInv => TypeOK
  <2>. SUFFICES ASSUME IInv PROVE TypeOK
    OBVIOUS
  <2>1. DOMAIN ops = {0} \union Handlers /\ \A o \in DOMAIN ops : ops[o] \in Op
    BY DEF IInv, Types, Writers
  <2>2. QED
    BY <2>1 DEF IInv, Types, TypeOK, Op
<1>2. QED
  BY <1>1, SafetyInv, PTL

LEMMA OthersStay ==
    ASSUME IInv, Next, NEW o \in Writers, Running(o), up',
           ops'[o].at # ops[o].at
    PROVE  Step(o)
<1>1. /\ ops \in [Writers -> Op] /\ DOMAIN ops = Writers /\ begun \in 0 .. MaxHandlers
      /\ MaxHandlers \in Nat
  BY AdminConfigAssumption DEF IInv, Types
<1>2. ASSUME NEW w \in Writers, NEW at, Begins(w, at), ~Running(w) PROVE FALSE
  <2>1. /\ w # o
        /\ ops'[o] = [ops[o] EXCEPT !.alone = FALSE]
    BY <1>1, <1>2 DEF Begins
  <2>2. QED
    BY <1>1, <2>1 DEF Op
<1>3. ASSUME NEW at, BeginsHandler(at) PROVE FALSE
  <2>1. begun + 1 \in Handlers /\ Begins(begun + 1, at)
    BY <1>1, <1>3 DEF BeginsHandler, Handlers
  <2>2. ~Running(begun + 1)
    BY <1>1, <2>1 DEF IInv, UnbegunIsIdle
  <2>3. QED
    BY <1>2, <2>1, <2>2 DEF Writers
<1>4. CASE Edit
  <2>1. ops'[o] = [ops[o] EXCEPT !.alone = FALSE]
    BY <1>1, <1>4 DEF Edit
  <2>2. QED
    BY <1>1, <2>1 DEF Op
<1>5. ASSUME NEW w \in Writers, w # o, Step(w) PROVE FALSE
  <2>1. ops'[o] = ops[o]
    BY <1>1, <1>5 DEF Step, Marshal, Route, Truncate, Write, Set, Read, Assign, Ends
  <2>2. QED
    BY <2>1
<1>6. CASE ReloadLoop
  BY <1>2, <1>6 DEF ReloadLoop, Writers
<1>7. CASE Hup \/ Forward \/ Crash \/ Boot
  BY <1>7 DEF Hup, Forward, Crash, Boot
<1>8. CASE Upsert \/ DeletePool \/ APIKeyCreate \/ CLIEnable \/ BeginReload
  BY <1>3, <1>8 DEF Upsert, DeletePool, APIKeyCreate, CLIEnable, upsertUpstream,
                    BeginReload
<1>9. QED
  BY <1>1, <1>4, <1>5, <1>6, <1>7, <1>8 DEF Next

\* A handler or Reload that met no other and reports success leaves memory, file and
\* live router the same: what it set is what it wrote, and is what memory holds.
THEOREM AdminConfigSuccessIsEverywhere == Spec => SuccessIsEverywhere
<1>. DEFINE A == \A o \in DOMAIN ops :
                   (ops[o].at = "set" /\ ops'[o].at # "set" /\ up' /\ ops[o].alone)
                     => memory' = file' /\ file' = live'
<1>1. IInv /\ Next => A
  <2>. SUFFICES ASSUME IInv, Next, NEW o \in DOMAIN ops,
                       ops[o].at = "set", ops'[o].at # "set", up', ops[o].alone
                PROVE  memory' = file' /\ file' = live'
    OBVIOUS
  <2>1. o \in Writers /\ Running(o)
    BY DEF IInv, Types, Running
  <2>2. Set(o)
    BY <2>1, OthersStay DEF Step, Marshal, Route, Truncate, Write, Read, Assign
  <2>3. QED
    BY <2>1, <2>2 DEF Set, IInv, HoldsWhatIsThere
<1>2. IInv /\ [Next]_vars => [A]_vars
  BY <1>1
<1>3. QED
  BY <1>2, SafetyInv, PTL DEF Spec, SuccessIsEverywhere

\* A handler that met no other leaves no file that the next start cannot route: it
\* writes what memory held when its router was built.
THEOREM AdminConfigPersistsWhatItRouted == Spec => PersistsWhatItRouted
<1>. DEFINE A == \A o \in Handlers :
                   (file' # file /\ file' # None /\ ops'[o] # ops[o] /\ ops[o].alone /\ up')
                      => Routable(file')
<1>1. IInv /\ Next => A
  <2>. SUFFICES ASSUME IInv, Next, NEW o \in Handlers, file' # file, file' # None,
                       ops'[o] # ops[o], ops[o].alone, up'
                PROVE  Routable(file')
    OBVIOUS
  <2>1. CASE Edit
    <3>1. PICK p \in Pools : file' = [Empty EXCEPT ![p] = "good"]
      BY <2>1 DEF Edit
    <3>2. QED
      BY <3>1 DEF Routable, Empty
  <2>2. ASSUME NEW w \in Writers, Step(w) PROVE Routable(file')
    <3>1. Write(w)
      BY <2>2 DEF Step, Marshal, Route, Truncate, Set, Read, Assign
    <3>2. ops'[o] # ops[o] /\ DOMAIN ops = Writers
      BY DEF IInv, Types
    <3>3. w = o /\ file' = ops[o].raw
      BY <3>1, <3>2 DEF Write, Ends, Fault, Writers
    <3>4. o \in Writers /\ ops[o].at = "fill"
      BY <3>1, <3>3 DEF Write, Writers
    <3>5. ops[o].raw = ops[o].router /\ Routable(ops[o].router)
      BY <3>4 DEF IInv, HoldsWhatIsThere, RoutersComplete
    <3>6. QED
      BY <3>3, <3>5 DEF Routable
  <2>3. CASE Upsert \/ DeletePool \/ APIKeyCreate \/ CLIEnable \/ BeginReload
    BY <2>3 DEF Upsert, DeletePool, APIKeyCreate, CLIEnable, upsertUpstream, BeginReload
  <2>4. CASE Hup \/ Forward \/ ReloadLoop \/ Crash \/ Boot
    BY <2>4 DEF Hup, Forward, ReloadLoop, Crash, Boot
  <2>5. QED
    BY <2>1, <2>2, <2>3, <2>4 DEF Next, IInv, Types
<1>2. IInv /\ [Next]_vars => [A]_vars
  BY <1>1
<1>3. QED
  BY <1>2, SafetyInv, PTL DEF Spec, PersistsWhatItRouted
=============================================================================
