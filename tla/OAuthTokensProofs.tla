------------------------- MODULE OAuthTokensProofs -------------------------
(***************************************************************************)
(* TypeOK, CodeIsSentOnce, DeletedStaysDeleted and ValidRefreshTokenIsKept *)
(* for any number of operations, logins and faults.  The inductive         *)
(* invariant says of each login who may still send its code, and of each   *)
(* grant how the refresh tokens in the vault and in the hands of           *)
(* operations relate to the one the server accepts; Burial says of each    *)
(* deleted grant that nobody holds a token of it.                          *)
(***************************************************************************)
EXTENDS OAuthTokens, FiniteSetTheorems, TLAPS

Op == [kind : Kinds, at : Places, token : Token \union {None}, login : Grants]

Types ==
    /\ row \in Token \union {None}
    /\ ops \in [Ops -> Op]
    /\ \A o \in Ops : ops[o].at \in {"post", "store", "use"} => ops[o].token # None
    /\ begun \in 0 .. MaxOps /\ faults \in 0 .. MaxFaults
    /\ pending \in [Logins -> {"none", "fresh", "old"}]
    /\ code \in [Logins -> {"none", "begun", "issued", "denied", "used"}]
    /\ rotates \in BOOLEAN /\ live \in [Grants -> Serials]
    /\ exchanges \in [Logins -> Nat]

UnbegunIsIdle == \A o \in Ops : o > begun => ops[o].at = "none"

\* A refresh token is numbered by the rotations before it, and an operation makes
\* at most one of these, on its way to one of the last places.
Last == {"store", "delete", "use", "ended"}
Spent == {o \in Ops : ops[o].at \in Last}
Newest == 1 + Cardinality(Spent)
SerialsBounded ==
    /\ row # None => row.refresh <= Newest
    /\ \A o \in Ops : ops[o].token # None => ops[o].token.refresh <= Newest
    /\ \A g \in Grants : live[g] <= Newest

\* Operation o will send the code of login l, if nothing fails.
Sends(o, l) == ops[o].login = l /\ ops[o].at \in {"waiting", "exchange"}

\* The code of a login is with the browser, with one operation, or has been sent.
OneSender ==
    \A l \in Logins :
        /\ code[l] = "none" => pending[l] = "none"
        /\ exchanges[l] <= 1
        /\ code[l] = "none" \/ pending[l] # "none" =>
              exchanges[l] = 0 /\ \A o \in Ops : ~Sends(o, l)
        /\ \A o \in Ops : Sends(o, l) =>
              exchanges[l] = 0 /\ \A p \in Ops \ {o} : ~Sends(p, l)

OnlyRefreshable ==
    \A o \in Ops : ops[o].at = "post" /\ ops[o].kind # "revoke" => ops[o].token.refresh # 0

Logging == {"waiting", "exchange", "poll", "wait"}
HasLogin == \A o \in Ops : ops[o].at \in Logging => ops[o].login \in Logins

\* There is no token of a grant before its code was used.
GrantsBeginOnce ==
    \A l \in Logins : code[l] # "used" =>
        /\ live[l] = 0
        /\ row # None => row.grant # l
        /\ \A o \in Ops : ops[o].token # None => ops[o].token.grant # l

InRow(g) == row # None /\ row.grant = g
Posts(o, g) == ops[o].at = "post" /\ ops[o].token.grant = g
Stores(o, g) == ops[o].at = "store" /\ ops[o].token.grant = g

\* What is about to be stored is the refresh token the server accepts.  When it
\* rotates them, one operation at most is about to store it, and then whoever else
\* holds a token of the grant holds one that was ended.
StoresTheLive ==
    \A g \in Grants : live[g] # 0 =>
        /\ \A o \in Ops : Stores(o, g) => ops[o].token.refresh = live[g]
        /\ rotates =>
            /\ InRow(g) => row.refresh <= live[g]
            /\ \A p \in Ops : Posts(p, g) => ops[p].token.refresh <= live[g]
            /\ \A o \in Ops : Stores(o, g) =>
                /\ InRow(g) => row.refresh < live[g]
                /\ \A p \in Ops : Posts(p, g) => ops[p].token.refresh < live[g]
                /\ \A p \in Ops \ {o} : ~Stores(p, g)

IInv ==
    /\ Types /\ UnbegunIsIdle /\ SerialsBounded
    /\ OneSender
    /\ OnlyRefreshable /\ HasLogin
    /\ GrantsBeginOnce /\ StoresTheLive
-----------------------------------------------------------------------------
LEMMA CardBounds ==
    ASSUME NEW T \in SUBSET Ops, NEW S \in SUBSET T
    PROVE  /\ Cardinality(S) \in Nat /\ Cardinality(T) \in Nat
           /\ Cardinality(S) <= Cardinality(T) /\ Cardinality(T) <= MaxOps
           /\ \A o \in T \ S : Cardinality(S) + 1 <= Cardinality(T)
<1>1. MaxOps \in Nat
  BY OAuthAssumption
<1>2. IsFiniteSet(Ops) /\ Cardinality(Ops) = MaxOps
  BY <1>1, FS_Interval DEF Ops
<1>3. IsFiniteSet(T) /\ Cardinality(T) <= MaxOps /\ Cardinality(T) \in Nat
  BY <1>2, FS_Subset, FS_CardinalityType
<1>4. IsFiniteSet(S) /\ Cardinality(S) <= Cardinality(T) /\ Cardinality(S) \in Nat
  BY <1>3, FS_Subset, FS_CardinalityType
<1>5. ASSUME NEW o \in T \ S PROVE Cardinality(S) + 1 <= Cardinality(T)
  <2>1. Cardinality(S \union {o}) = Cardinality(S) + 1
    BY <1>4, FS_AddElement
  <2>2. Cardinality(S \union {o}) <= Cardinality(T)
    <3>1. S \union {o} \in SUBSET T
      OBVIOUS
    <3>2. QED
      BY <1>3, <3>1, FS_Subset
  <2>3. QED
    BY <2>1, <2>2
<1>6. QED
  BY <1>3, <1>4, <1>5

LEMMA NewestType == Newest \in 1 .. MaxOps + 1
<1>1. Spent \in SUBSET Ops /\ MaxOps \in Nat
  BY OAuthAssumption DEF Spent
<1>2. QED
  BY <1>1, CardBounds DEF Newest

\* An operation that has not been at one of the last places can rotate.
LEMMA MayRotate ==
    ASSUME NEW o \in Ops, ops[o].at \notin Last
    PROVE  Newest + 1 \in 1 .. MaxOps + 1
<1>1. Spent \in SUBSET Ops /\ o \notin Spent /\ MaxOps \in Nat
  BY OAuthAssumption DEF Spent
<1>2. Cardinality(Spent) + 1 <= Cardinality(Ops) /\ Cardinality(Ops) <= MaxOps
      /\ Cardinality(Spent) \in Nat /\ Cardinality(Ops) \in Nat
  BY <1>1, CardBounds
<1>3. QED
  BY <1>1, <1>2 DEF Newest

LEMMA NoOpType ==
    /\ NoOp \in Op /\ NoOp.at = "none" /\ NoOp.token = None /\ NoOp.login = 0
    /\ \A at \in Places :
         /\ [NoOp EXCEPT !.at = at] \in Op
         /\ [NoOp EXCEPT !.at = at].at = at /\ [NoOp EXCEPT !.at = at].token = None
         /\ [NoOp EXCEPT !.at = at].login = 0
<1>1. 0 \in Grants
  BY OAuthAssumption DEF Grants
<1>2. QED
  BY <1>1 DEF NoOp, Op, Kinds, Places

LEMMA TokenIsNotNone == None \notin Token
<1>1. Token \subseteq [grant : Nat, refresh : Nat, due : BOOLEAN]
  BY OAuthAssumption DEF Token, Grants, Serials
<1>2. QED
  BY <1>1, OAuthAssumption

\* The parts of the invariant that are about one operation, or about serials.
Local == /\ Types /\ UnbegunIsIdle /\ SerialsBounded
         /\ OnlyRefreshable /\ HasLogin

LEMMA StepLocal ==
    ASSUME IInv, NEW o \in Ops, NEW q \in Op, ops' = [ops EXCEPT ![o] = q],
           q.at \in {"post", "store", "use"} => q.token # None,
           ops[o].at \in Last => q.at \in Last,
           NEW n \in Nat,
           n = Newest \/ (n = Newest + 1 /\ ops[o].at \notin Last /\ q.at \in Last),
           q.token # None => q.token.refresh <= n,
           row' # None => row'.refresh <= n,
           \A g \in Grants : live'[g] <= n,
           q.at = "post" /\ q.kind # "revoke" => q.token.refresh # 0,
           q.at \in Logging => q.login \in Logins,
           row' \in Token \union {None}, live' \in [Grants -> Serials],
           begun' \in 0 .. MaxOps, o <= begun', begun <= begun',
           faults' \in 0 .. MaxFaults, rotates' \in BOOLEAN,
           pending' \in [Logins -> {"none", "fresh", "old"}],
           code' \in [Logins -> {"none", "begun", "issued", "denied", "used"}],
           exchanges' \in [Logins -> Nat]
    PROVE  Local'
<1>1. /\ ops' \in [Ops -> Op] /\ ops \in [Ops -> Op]
      /\ \A p \in Ops : ops'[p] = IF p = o THEN q ELSE ops[p]
  BY DEF IInv, Types
<1>2. Types'
  BY <1>1 DEF IInv, Types
<1>3. UnbegunIsIdle'
  <2>. SUFFICES ASSUME NEW p \in Ops, p > begun' PROVE ops'[p].at = "none"
    BY DEF UnbegunIsIdle
  <2>1. p # o /\ p > begun
    BY OAuthAssumption DEF IInv, Types, Ops
  <2>2. QED
    BY <1>1, <2>1 DEF IInv, UnbegunIsIdle
<1>4. SerialsBounded'
  <2>1. Spent \in SUBSET Spent' /\ Spent' \in SUBSET Ops
    BY <1>1 DEF Spent
  <2>2. /\ Newest \in Nat /\ Newest' \in Nat /\ Newest <= Newest'
        /\ \A p \in Spent' \ Spent : Newest + 1 <= Newest'
    BY <2>1, CardBounds DEF Newest
  <2>3. n <= Newest'
    <3>1. CASE n = Newest
      BY <2>2, <3>1
    <3>2. CASE n = Newest + 1 /\ ops[o].at \notin Last /\ q.at \in Last
      <4>1. o \in Spent' \ Spent
        BY <1>1, <3>2 DEF Spent
      <4>2. QED
        BY <2>2, <3>2, <4>1
    <3>3. QED
      BY <3>1, <3>2
  <2>4. row' # None => row'.refresh <= Newest'
    <3>1. row' # None => row'.refresh \in Nat
      BY OAuthAssumption DEF Token, Serials
    <3>2. QED
      BY <2>2, <2>3, <3>1
  <2>5. ASSUME NEW g \in Grants PROVE live'[g] <= Newest'
    <3>1. live'[g] \in Nat
      BY OAuthAssumption DEF Serials
    <3>2. QED
      BY <2>2, <2>3, <3>1
  <2>6. ASSUME NEW p \in Ops, ops'[p].token # None PROVE ops'[p].token.refresh <= Newest'
    <3>1. ops'[p].token.refresh \in Nat
      BY <1>1, <2>6, OAuthAssumption DEF Op, Token, Serials
    <3>2. CASE p = o
      BY <1>1, <2>2, <2>3, <2>6, <3>1, <3>2
    <3>3. CASE p # o
      BY <1>1, <2>2, <2>6, <3>1, <3>3 DEF IInv, SerialsBounded
    <3>4. QED
      BY <3>2, <3>3
  <2>7. QED
    BY <2>4, <2>5, <2>6 DEF SerialsBounded
<1>5. OnlyRefreshable'
  BY <1>1 DEF IInv, OnlyRefreshable
<1>6. HasLogin'
  BY <1>1 DEF IInv, HasLogin
<1>7. QED
  BY <1>2, <1>3, <1>4, <1>5, <1>6 DEF Local

\* A step that does not touch the logins, or lets go of one.
LEMMA StepSender ==
    ASSUME IInv, NEW o \in Ops, NEW q \in Op, ops' = [ops EXCEPT ![o] = q],
           q.at \in {"waiting", "exchange"} =>
               ops[o].at \in {"waiting", "exchange"} /\ q.login = ops[o].login,
           \A l \in Logins : code'[l] = "none" <=> code[l] = "none",
           UNCHANGED <<pending, exchanges>>
    PROVE  OneSender'
<1>1. \A p \in Ops : ops'[p] = IF p = o THEN q ELSE ops[p]
  BY DEF IInv, Types
<1>2. \A l \in Logins, p \in Ops : Sends(p, l)' => Sends(p, l)
  BY <1>1 DEF Sends
<1>3. QED
  BY <1>2 DEF IInv, OneSender

\* A step that leaves the grants of the server as they are, and may take a token from
\* the row, or give up the row.
LEMMA StepGrants ==
    ASSUME IInv, NEW o \in Ops, NEW q \in Op, ops' = [ops EXCEPT ![o] = q],
           UNCHANGED <<live, rotates>>,
           \A l \in Logins : code'[l] = "used" <=> code[l] = "used",
           row' = row \/ row' = None,
           q.at # "store", q.token # None => q.token = row \/ q.token = ops[o].token,
           q.at = "post" => row # None /\ q.token = row
    PROVE  GrantsBeginOnce' /\ StoresTheLive'
<1>1. \A p \in Ops : ops'[p] = IF p = o THEN q ELSE ops[p]
  BY DEF IInv, Types
<1>2. GrantsBeginOnce'
  BY <1>1 DEF IInv, GrantsBeginOnce
<1>3. /\ \A g \in Grants : InRow(g)' => InRow(g) /\ row' = row
      /\ \A g \in Grants, p \in Ops : Stores(p, g)' => Stores(p, g) /\ ops'[p] = ops[p]
      /\ \A g \in Grants, p \in Ops : Posts(p, g)' =>
            \/ Posts(p, g) /\ ops'[p] = ops[p]
            \/ row # None /\ InRow(g) /\ ops'[p].token = row
  BY <1>1 DEF InRow, Stores, Posts
<1>4. StoresTheLive'
  BY <1>3 DEF IInv, StoresTheLive
<1>5. QED
  BY <1>2, <1>4

\* A step of an operation that leaves the grants of the server as they are, stores
\* nothing, and holds no token but one it held or reads now.
LEMMA StepQuiet ==
    ASSUME IInv, NEW o \in Ops, NEW q \in Op, ops' = [ops EXCEPT ![o] = q],
           UNCHANGED <<live, rotates>>, row' = row \/ row' = None,
           code' \in [Logins -> {"none", "begun", "issued", "denied", "used"}],
           \A l \in Logins : code'[l] = "used" <=> code[l] = "used",
           begun' \in 0 .. MaxOps, o <= begun', begun <= begun',
           faults' \in 0 .. MaxFaults,
           pending' \in [Logins -> {"none", "fresh", "old"}],
           exchanges' \in [Logins -> Nat],
           ops[o].at \in Last => q.at \in Last, q.at # "store",
           q.at \in Logging => q.login \in Logins,
           \/ q.token = None /\ q.at \notin {"post", "use"}
           \/ /\ row # None /\ q.token = row
              /\ q.at = "post" /\ q.kind # "revoke" => row.refresh # 0
    PROVE  Local' /\ GrantsBeginOnce' /\ StoresTheLive'
<1>1. /\ Newest \in Nat
      /\ row # None => row.refresh <= Newest
      /\ \A g \in Grants : live[g] <= Newest
  BY NewestType, OAuthAssumption DEF IInv, SerialsBounded
<1>2. /\ row \in Token \union {None} /\ live \in [Grants -> Serials] /\ rotates \in BOOLEAN
  BY DEF IInv, Types
<1>3. Local'
  BY <1>1, <1>2, StepLocal
<1>4. GrantsBeginOnce' /\ StoresTheLive'
  BY StepGrants
<1>5. QED
  BY <1>3, <1>4

LEMMA GoesIs ==
    ASSUME IInv, NEW o \in Ops, NEW at \in Places, NEW token \in Token \union {None},
           Goes(o, at, token)
    PROVE  \E q \in Op : /\ ops' = [ops EXCEPT ![o] = q]
                         /\ q.at = at /\ q.token = token
                         /\ q.kind = ops[o].kind /\ q.login = ops[o].login
<1>. DEFINE q == [ops[o] EXCEPT !.at = at, !.token = token]
<1>1. ops[o] \in Op /\ ops \in [Ops -> Op]
  BY DEF IInv, Types
<1>2. /\ q \in Op /\ q.at = at /\ q.token = token
      /\ q.kind = ops[o].kind /\ q.login = ops[o].login
  BY <1>1 DEF Op
<1>3. ops' = [ops EXCEPT ![o] = q]
  BY <1>1 DEF Goes, Op
<1>. HIDE DEF q
<1>4. QED
  BY <1>2, <1>3

LEMMA EndsIs ==
    ASSUME NEW o \in Ops, Ends(o)
    PROVE  \E q \in Op : /\ ops' = [ops EXCEPT ![o] = q]
                         /\ q.at = "ended" /\ q.token = None /\ q.login = 0
<1>1. "ended" \in Places
  BY DEF Places
<1>2. QED
  BY <1>1, NoOpType DEF Ends

LEMMA BeginsIs ==
    ASSUME IInv, NEW kind \in Kinds, NEW at \in Places, NEW token \in Token \union {None},
           NEW login \in Grants, Begins(kind, at, token, login)
    PROVE  \E o \in Ops, q \in Op :
              /\ ops' = [ops EXCEPT ![o] = q] /\ ops[o].at = "none"
              /\ q.kind = kind /\ q.at = at /\ q.token = token /\ q.login = login
              /\ begun' \in 0 .. MaxOps /\ o <= begun' /\ begun <= begun'
<1>. DEFINE q == [kind |-> kind, at |-> at, token |-> token, login |-> login]
            o == begun + 1
<1>1. begun \in 0 .. MaxOps /\ MaxOps \in Nat
  BY OAuthAssumption DEF IInv, Types
<1>2. o \in Ops /\ begun' \in 0 .. MaxOps /\ o <= begun' /\ begun <= begun' /\ o > begun
  BY <1>1 DEF Begins, Ops
<1>3. ops[o].at = "none"
  BY <1>2 DEF IInv, UnbegunIsIdle
<1>4. q \in Op /\ q.kind = kind /\ q.at = at /\ q.token = token /\ q.login = login
  BY DEF Op
<1>5. ops' = [ops EXCEPT ![o] = q]
  BY DEF Begins
<1>. HIDE DEF q, o
<1>6. QED
  BY <1>2, <1>3, <1>4, <1>5

LEMMA FaultType == IInv /\ (Fault \/ UNCHANGED faults) => faults' \in 0 .. MaxFaults
BY OAuthAssumption DEF IInv, Types, Fault

\* An operation that goes on or ends, and does none of what the lemmas below are about.
LEMMA GoesOnInv ==
    ASSUME IInv, NEW o \in Ops, NEW q \in Op, ops' = [ops EXCEPT ![o] = q],
           ops[o].at # "none",
           q.at = "ended" \/ ops[o].at \notin Last,
           \/ q.at \in {"ended", "delete"} /\ q.token = None
           \/ /\ q.at \in {"wait", "poll"} /\ q.token = None
              /\ q.login = ops[o].login /\ ops[o].at \in Logging
           \/ /\ q.at = "exchange" /\ q.token = None
              /\ q.login = ops[o].login /\ ops[o].at = "waiting"
           \/ q.at = "post" /\ q.token = row /\ row # None /\ row.refresh # 0,
           row' = row \/ row' = None,
           Fault \/ UNCHANGED faults,
           UNCHANGED <<rotates, begun, pending, code, live, exchanges>>
    PROVE  IInv'
<1>1. /\ begun \in 0 .. MaxOps /\ o <= begun /\ begun <= begun
      /\ code \in [Logins -> {"none", "begun", "issued", "denied", "used"}]
      /\ pending \in [Logins -> {"none", "fresh", "old"}]
      /\ exchanges \in [Logins -> Nat]
  BY OAuthAssumption DEF IInv, Types, UnbegunIsIdle, Ops
<1>2. /\ ops[o].at \in Last => q.at \in Last
      /\ q.at \in Logging => q.login \in Logins
  BY DEF Last, Logging, IInv, HasLogin
<1>3. Local' /\ GrantsBeginOnce' /\ StoresTheLive'
  BY <1>1, <1>2, FaultType, StepQuiet
<1>4. OneSender'
  BY StepSender
<1>5. QED
  BY <1>3, <1>4 DEF IInv, Local

LEMMA EndsInv ==
    ASSUME IInv, NEW o \in Ops, Ends(o), ops[o].at # "none",
           row' = row \/ row' = None, Fault \/ UNCHANGED faults,
           UNCHANGED <<rotates, begun, pending, code, live, exchanges>>
    PROVE  IInv'
<1>1. PICK q \in Op : ops' = [ops EXCEPT ![o] = q] /\ q.at = "ended" /\ q.token = None
  BY EndsIs
<1>2. QED
  BY <1>1, GoesOnInv

LEMMA LoadInv == ASSUME IInv, NEW o \in Ops, Load(o) PROVE IInv'
<1>1. CASE Ends(o)
  BY <1>1, EndsInv DEF Load
<1>2. CASE Goes(o, "post", row) /\ row # None /\ row.refresh # 0
  <2>1. row \in Token \union {None} /\ "post" \in Places
    BY DEF IInv, Types, Places
  <2>2. PICK q \in Op : ops' = [ops EXCEPT ![o] = q] /\ q.at = "post" /\ q.token = row
    BY <1>2, <2>1, GoesIs
  <2>3. ops[o].at = "load" /\ "load" \notin Last
    BY DEF Load, Last
  <2>4. QED
    BY <1>2, <2>2, <2>3, GoesOnInv DEF Load
<1>3. QED
  BY <1>1, <1>2 DEF Load

LEMMA CliCallbackInv == ASSUME IInv, NEW o \in Ops, CliCallback(o) PROVE IInv'
<1>1. CASE Ends(o) /\ Fault
  BY <1>1, EndsInv DEF CliCallback
<1>2. CASE Goes(o, "exchange", None) /\ UNCHANGED faults
  <2>1. "exchange" \in Places
    BY DEF Places
  <2>2. PICK q \in Op : /\ ops' = [ops EXCEPT ![o] = q] /\ q.at = "exchange"
                       /\ q.token = None /\ q.login = ops[o].login
    BY <1>2, <2>1, GoesIs
  <2>3. ops[o].at = "waiting" /\ "waiting" \notin Last
    BY DEF CliCallback, Last
  <2>4. QED
    BY <1>2, <2>2, <2>3, GoesOnInv DEF CliCallback
<1>3. QED
  BY <1>1, <1>2 DEF CliCallback

LEMMA WakeInv == ASSUME IInv, NEW o \in Ops, Wake(o) PROVE IInv'
<1>1. "poll" \in Places
  BY DEF Places
<1>2. PICK q \in Op : /\ ops' = [ops EXCEPT ![o] = q] /\ q.at = "poll"
                     /\ q.token = None /\ q.login = ops[o].login
  BY <1>1, GoesIs DEF Wake
<1>3. ops[o].at = "wait" /\ "wait" \notin Last /\ "wait" \in Logging
  BY DEF Wake, Last, Logging
<1>4. QED
  BY <1>2, <1>3, GoesOnInv DEF Wake

LEMMA DeleteInv == ASSUME IInv, NEW o \in Ops, Delete(o) \/ Use(o) PROVE IInv'
BY EndsInv DEF Delete, Use, Bury
-----------------------------------------------------------------------------
(* The server answers.                                                     *)

\* The server rotated, and the answer is to be stored or was lost.
LEMMA RotatedInv ==
    ASSUME IInv, NEW o \in Ops, NEW q \in Op, ops' = [ops EXCEPT ![o] = q],
           ops[o].at = "post", ops[o].kind # "revoke",
           live[ops[o].token.grant] = ops[o].token.refresh, rotates,
           live' = [live EXCEPT ![ops[o].token.grant] = ops[o].token.refresh + 1],
           \/ q.at = "ended" /\ q.token = None
           \/ /\ q.at = "store" /\ q.token # None
              /\ q.token.grant = ops[o].token.grant
              /\ q.token.refresh = ops[o].token.refresh + 1,
           Fault \/ UNCHANGED faults,
           UNCHANGED <<rotates, row, begun, pending, code, exchanges>>
    PROVE  IInv'
<1>. DEFINE g == ops[o].token.grant
            s == ops[o].token.refresh
<1>1. /\ ops \in [Ops -> Op] /\ ops[o].token \in Token /\ g \in Grants /\ s \in Nat
      /\ s # 0 /\ s <= Newest /\ Newest \in Nat /\ o <= begun
      /\ s + 1 \in Serials /\ ops[o].at \notin Last /\ q.at \in Last
      /\ live \in [Grants -> Serials] /\ live[g] = s
  <2>1. ops \in [Ops -> Op] /\ ops[o].token \in Token /\ live \in [Grants -> Serials]
    BY DEF IInv, Types, Op
  <2>2. ops[o].at \notin Last /\ q.at \in Last
    BY DEF Last
  <2>3. g \in Grants /\ s \in Nat /\ s <= Newest /\ Newest \in Nat
    BY <2>1, TokenIsNotNone, NewestType, OAuthAssumption
       DEF Token, Serials, IInv, SerialsBounded
  <2>4. s # 0
    BY DEF IInv, OnlyRefreshable
  <2>5. s + 1 \in Serials
    BY <2>2, <2>3, MayRotate, OAuthAssumption DEF Serials
  <2>6. o <= begun
    BY OAuthAssumption DEF IInv, Types, UnbegunIsIdle, Ops
  <2>7. QED
    BY <2>1, <2>2, <2>3, <2>4, <2>5, <2>6
<1>2. \A h \in Grants : live'[h] = IF h = g THEN s + 1 ELSE live[h]
  BY <1>1
<1>3. \A p \in Ops : ops'[p] = IF p = o THEN q ELSE ops[p]
  BY <1>1
<1>4. Local'
  <2>1. live' \in [Grants -> Serials]
    BY <1>1
  <2>2. \A h \in Grants : live[h] <= Newest /\ live[h] \in Nat
    BY <1>1, OAuthAssumption DEF IInv, SerialsBounded, Serials
  <2>3. \A h \in Grants : live'[h] <= Newest + 1
    BY <1>1, <1>2, <2>2
  <2>4. row # None => row.refresh <= Newest + 1
    BY <1>1, OAuthAssumption DEF IInv, Types, SerialsBounded, Token, Serials
  <2>5. q.token # None => q.token.refresh <= Newest + 1
    BY <1>1
  <2>6. Newest + 1 \in Nat
    BY <1>1
  <2>7. /\ row \in Token \union {None} /\ begun \in 0 .. MaxOps /\ rotates \in BOOLEAN
        /\ code \in [Logins -> {"none", "begun", "issued", "denied", "used"}]
        /\ pending \in [Logins -> {"none", "fresh", "old"}]
        /\ exchanges \in [Logins -> Nat]
    BY DEF IInv, Types
  <2>8. /\ q.at \in {"post", "store", "use"} => q.token # None
        /\ q.at # "post"
        /\ begun <= begun /\ q.at \notin Logging
    BY <2>7 DEF Logging
  <2>. HIDE DEF g, s
  <2>9. QED
    BY <1>1, <2>1, <2>3, <2>4, <2>5, <2>6, <2>7, <2>8, FaultType, StepLocal
<1>5. OneSender'
  BY StepSender
<1>6. \A l \in Logins : code[l] # "used" => l # g
  BY <1>1, TokenIsNotNone DEF IInv, GrantsBeginOnce
<1>7. GrantsBeginOnce'
  BY <1>1, <1>2, <1>3, <1>6, TokenIsNotNone DEF IInv, GrantsBeginOnce, Logins, Grants
<1>8. StoresTheLive'
  <2>1. /\ InRow(g) => row.refresh \in Nat /\ row.refresh <= s
        /\ \A p \in Ops : Posts(p, g) =>
              ops[p].token.refresh \in Nat /\ ops[p].token.refresh <= s
    BY <1>1, OAuthAssumption
       DEF IInv, Types, StoresTheLive, InRow, Posts, Op, Token, Serials
  <2>2. \A p \in Ops : ~Stores(p, g)
    BY <1>1 DEF IInv, StoresTheLive, Posts
  <2>3. \A h \in Grants : InRow(h)' <=> InRow(h)
    BY DEF InRow
  <2>4. \A h \in Grants, p \in Ops :
          /\ Posts(p, h)' => Posts(p, h) /\ ops'[p] = ops[p]
          /\ Stores(p, h)' =>
                \/ p # o /\ Stores(p, h) /\ ops'[p] = ops[p]
                \/ p = o /\ h = g /\ ops'[p].token.refresh = s + 1
    BY <1>3 DEF Posts, Stores
  <2>. HIDE DEF g, s
  <2>. SUFFICES ASSUME NEW h \in Grants, live'[h] # 0
                PROVE  /\ \A p \in Ops : Stores(p, h)' => ops'[p].token.refresh = live'[h]
                       /\ rotates' =>
                          /\ InRow(h)' => row'.refresh <= live'[h]
                          /\ \A p \in Ops : Posts(p, h)' => ops'[p].token.refresh <= live'[h]
                          /\ \A u \in Ops : Stores(u, h)' =>
                              /\ InRow(h)' => row'.refresh < live'[h]
                              /\ \A p \in Ops : Posts(p, h)' =>
                                                  ops'[p].token.refresh < live'[h]
                              /\ \A p \in Ops \ {u} : ~Stores(p, h)'
    BY DEF StoresTheLive
  <2>5. CASE h = g
    BY <1>1, <1>2, <2>1, <2>2, <2>3, <2>4, <2>5
  <2>6. CASE h # g
    BY <1>1, <1>2, <2>3, <2>4, <2>6 DEF IInv, StoresTheLive
  <2>7. QED
    BY <2>5, <2>6
<1>9. QED
  BY <1>4, <1>5, <1>7, <1>8 DEF IInv, Local

\* The server did not rotate: the answer is stored with the refresh token that was sent.
LEMMA KeptInv ==
    ASSUME IInv, NEW o \in Ops, NEW q \in Op, ops' = [ops EXCEPT ![o] = q],
           ops[o].at = "post", ops[o].kind # "revoke",
           live[ops[o].token.grant] = ops[o].token.refresh, ~rotates, live' = live,
           \/ q.at = "ended" /\ q.token = None
           \/ /\ q.at = "store" /\ q.token # None
              /\ q.token.grant = ops[o].token.grant
              /\ q.token.refresh = ops[o].token.refresh,
           Fault \/ UNCHANGED faults,
           UNCHANGED <<rotates, row, begun, pending, code, exchanges>>
    PROVE  IInv'
<1>1. /\ \A p \in Ops : ops'[p] = IF p = o THEN q ELSE ops[p]
      /\ ops[o].token # None /\ ops[o].token \in Token
  BY TokenIsNotNone DEF IInv, Types, Op
<1>2. Local'
  <2>1. /\ Newest \in Nat /\ \A h \in Grants : live[h] <= Newest
        /\ row # None => row.refresh <= Newest
        /\ q.token # None => q.token.refresh <= Newest
    BY <1>1, NewestType, OAuthAssumption DEF IInv, SerialsBounded
  <2>2. /\ row \in Token \union {None} /\ begun \in 0 .. MaxOps /\ rotates \in BOOLEAN
        /\ code \in [Logins -> {"none", "begun", "issued", "denied", "used"}]
        /\ pending \in [Logins -> {"none", "fresh", "old"}]
        /\ exchanges \in [Logins -> Nat] /\ live \in [Grants -> Serials]
    BY DEF IInv, Types
  <2>3. o <= begun /\ begun <= begun /\ ops[o].at \notin Last /\ q.at \notin Logging
    BY OAuthAssumption DEF IInv, Types, UnbegunIsIdle, Ops, Last, Logging
  <2>4. QED
    BY <2>1, <2>2, <2>3, FaultType, StepLocal
<1>3. OneSender'
  BY StepSender
<1>4. GrantsBeginOnce'
  BY <1>1 DEF IInv, GrantsBeginOnce
<1>5. StoresTheLive'
  <2>1. \A h \in Grants, p \in Ops : Stores(p, h)' =>
           \/ Stores(p, h) /\ ops'[p] = ops[p]
           \/ ops'[p].token.refresh = live[h]
    BY <1>1 DEF Stores
  <2>2. QED
    BY <2>1 DEF IInv, StoresTheLive
<1>6. QED
  BY <1>2, <1>3, <1>4, <1>5 DEF IInv, Local

LEMMA RefreshInv == ASSUME IInv, NEW o \in Ops, Refresh(o) PROVE IInv'
<1>. DEFINE token == ops[o].token
            serial == IF rotates THEN token.refresh + 1 ELSE 0
            new(due) == [grant |-> token.grant, refresh |-> serial, due |-> due]
<1>1. /\ ops[o].at = "post" /\ ops[o].kind # "revoke" /\ ops[o].at # "none"
      /\ UNCHANGED <<rotates, row, begun, pending, code, exchanges>>
  BY DEF Refresh
<1>2. CASE Ends(o) /\ live' = live /\ (Fault \/ UNCHANGED faults)
  BY <1>1, <1>2, EndsInv
<1>3. CASE /\ live[token.grant] = token.refresh
           /\ live' = [live EXCEPT ![token.grant] = IF rotates THEN serial ELSE @]
           /\ \/ /\ \E due \in BOOLEAN : Goes(o, "store", KeepOld(token, new(due)))
                 /\ UNCHANGED faults
              \/ Ends(o) /\ Fault
  <2>1. /\ token \in Token /\ live \in [Grants -> Serials] /\ rotates \in BOOLEAN
        /\ token.grant \in Grants /\ token.refresh \in Nat /\ token.refresh # 0
    BY <1>1, OAuthAssumption DEF IInv, Types, Op, OnlyRefreshable, Token, Serials
  <2>2. ops[o].at \notin Last
    BY <1>1 DEF Last
  <2>3. token.refresh + 1 \in Serials /\ token.refresh \in Serials
    <3>1. token.refresh <= Newest
      BY <2>1, TokenIsNotNone DEF IInv, SerialsBounded
    <3>2. Newest + 1 \in 1 .. MaxOps + 1 /\ Newest \in Nat /\ MaxOps \in Nat
      BY <2>2, MayRotate, NewestType, OAuthAssumption
    <3>3. QED
      BY <2>1, <3>1, <3>2 DEF Serials
  <2>4. ASSUME NEW due \in BOOLEAN
        PROVE  /\ KeepOld(token, new(due)) \in Token
               /\ KeepOld(token, new(due)) # None
               /\ KeepOld(token, new(due)).grant = token.grant
               /\ KeepOld(token, new(due)).refresh =
                     IF rotates THEN token.refresh + 1 ELSE token.refresh
    <3>. DEFINE kept == [grant |-> token.grant,
                         refresh |-> IF rotates THEN token.refresh + 1 ELSE token.refresh,
                         due |-> due]
    <3>. HIDE DEF token
    <3>1. KeepOld(token, new(due)) = kept
      <4>1. CASE rotates
        <5>1. new(due).refresh = token.refresh + 1 /\ new(due).refresh # 0
          BY <2>1, <4>1
        <5>2. QED
          BY <4>1, <5>1 DEF KeepOld
      <4>2. CASE ~rotates
        BY <2>1, <4>2 DEF KeepOld
      <4>3. QED
        BY <4>1, <4>2
    <3>2. kept \in Token
      BY <2>1, <2>3 DEF Token
    <3>3. QED
      BY <3>1, <3>2, TokenIsNotNone
  <2>. HIDE DEF new
  <2>5. PICK q \in Op :
          /\ ops' = [ops EXCEPT ![o] = q]
          /\ \/ q.at = "ended" /\ q.token = None
             \/ /\ q.at = "store" /\ q.token # None /\ q.token.grant = token.grant
                /\ q.token.refresh = IF rotates THEN token.refresh + 1 ELSE token.refresh
    <3>1. "store" \in Places
      BY DEF Places
    <3>2. ASSUME NEW due \in BOOLEAN, Goes(o, "store", KeepOld(token, new(due)))
          PROVE  \E q \in Op : /\ ops' = [ops EXCEPT ![o] = q]
                               /\ q.at = "store" /\ q.token = KeepOld(token, new(due))
      BY <2>4, <3>1, <3>2, GoesIs
    <3>3. CASE Ends(o) /\ Fault
      BY <3>3, EndsIs
    <3>4. QED
      BY <1>3, <2>4, <3>2, <3>3
  <2>6. Fault \/ UNCHANGED faults
    BY <1>3
  <2>7. CASE rotates
    <3>1. live' = [live EXCEPT ![token.grant] = token.refresh + 1]
      BY <1>3, <2>7
    <3>2. QED
      BY <1>1, <1>3, <2>5, <2>6, <2>7, <3>1, RotatedInv
  <2>8. CASE ~rotates
    <3>1. live' = live
      BY <1>3, <2>1, <2>8
    <3>2. QED
      BY <1>1, <1>3, <2>5, <2>6, <2>8, <3>1, KeptInv
  <2>9. QED
    BY <2>7, <2>8
<1>4. QED
  BY <1>2, <1>3 DEF Refresh

\* RevokeToken: the grant is at an end.
LEMMA RevokeInv == ASSUME IInv, NEW o \in Ops, Revoke(o) PROVE IInv'
<1>. DEFINE g == ops[o].token.grant
<1>1. /\ ops[o].at = "post" /\ ops[o].at # "none" /\ ops[o].at \notin Last
      /\ UNCHANGED <<rotates, row, begun, pending, code, exchanges>>
  BY DEF Revoke, Last
<1>2. "delete" \in Places
  BY DEF Places
<1>3. PICK q \in Op :
        /\ ops' = [ops EXCEPT ![o] = q] /\ q.token = None /\ q.at \in {"ended", "delete"}
        /\ Fault \/ UNCHANGED faults
  BY <1>2, GoesIs, EndsIs DEF Revoke
<1>4. CASE live' = live
  BY <1>1, <1>3, <1>4, GoesOnInv
<1>5. CASE live' = [live EXCEPT ![g] = 0]
  <2>1. /\ live \in [Grants -> Serials] /\ 0 \in Serials
        /\ \A p \in Ops : ops'[p] = IF p = o THEN q ELSE ops[p]
    BY <1>3, OAuthAssumption DEF IInv, Types, Serials
  <2>2. \A h \in Grants : live'[h] = live[h] \/ live'[h] = 0
    BY <1>5, <2>1
  <2>3. Local'
    <3>1. live' \in [Grants -> Serials]
      BY <1>5, <2>1
    <3>2. /\ \A h \in Grants : live'[h] <= Newest
          /\ row # None => row.refresh <= Newest
          /\ Newest \in Nat
      BY <2>2, NewestType, OAuthAssumption DEF IInv, SerialsBounded
    <3>3. /\ row \in Token \union {None} /\ begun \in 0 .. MaxOps /\ rotates \in BOOLEAN
          /\ code \in [Logins -> {"none", "begun", "issued", "denied", "used"}]
          /\ pending \in [Logins -> {"none", "fresh", "old"}]
          /\ exchanges \in [Logins -> Nat]
      BY DEF IInv, Types
    <3>4. o <= begun /\ begun <= begun /\ q.at \notin Logging
      BY <1>1, <1>3, OAuthAssumption DEF IInv, Types, UnbegunIsIdle, Ops, Logging
    <3>5. QED
      BY <1>1, <1>3, <3>1, <3>2, <3>3, <3>4, FaultType, StepLocal
  <2>4. OneSender'
    BY <1>1, <1>3, StepSender
  <2>5. GrantsBeginOnce'
    BY <1>1, <1>3, <2>1, <2>2 DEF IInv, GrantsBeginOnce, Logins, Grants
  <2>6. StoresTheLive'
    <3>1. /\ \A h \in Grants : InRow(h)' <=> InRow(h)
          /\ \A h \in Grants, p \in Ops : Stores(p, h)' => Stores(p, h) /\ ops'[p] = ops[p]
          /\ \A h \in Grants, p \in Ops : Posts(p, h)' => Posts(p, h) /\ ops'[p] = ops[p]
      BY <1>1, <1>3, <2>1 DEF InRow, Stores, Posts
    <3>2. QED
      BY <1>1, <2>2, <3>1 DEF IInv, StoresTheLive
  <2>7. QED
    BY <2>3, <2>4, <2>5, <2>6 DEF IInv, Local
<1>6. QED
  BY <1>4, <1>5 DEF Revoke

\* The server takes the code of a login.
LEMMA GrantedLocal ==
    ASSUME IInv, NEW o \in Ops, NEW q \in Op, ops' = [ops EXCEPT ![o] = q],
           NEW l \in Logins, NEW serial \in {0, 1},
           ops[o].at \in {"exchange", "poll"},
           code[l] = "issued", code' = [code EXCEPT ![l] = "used"],
           live' = [live EXCEPT ![l] = serial],
           \/ q.at = "ended" /\ q.token = None
           \/ q.at = "store" /\ \E due \in BOOLEAN : q.token = NewGrant(l, serial, due),
           Fault \/ UNCHANGED faults, exchanges' \in [Logins -> Nat],
           UNCHANGED <<rotates, row, begun, pending>>
    PROVE  Local' /\ GrantsBeginOnce' /\ StoresTheLive'
<1>1. /\ l \in Grants /\ serial \in Serials /\ serial <= 1
      /\ q.at = "store" =>
            q.token \in Token /\ q.token # None /\ q.token.grant = l /\ q.token.refresh = serial
  <2>1. l \in Grants /\ serial \in Serials /\ serial <= 1
    BY OAuthAssumption DEF Logins, Grants, Serials
  <2>2. ASSUME NEW due \in BOOLEAN, q.token = NewGrant(l, serial, due)
        PROVE  /\ q.token \in Token /\ q.token # None
               /\ q.token.grant = l /\ q.token.refresh = serial
    <3>1. q.token \in Token
      BY <2>1, <2>2 DEF NewGrant, Token
    <3>2. QED
      BY <2>2, <3>1, TokenIsNotNone DEF NewGrant
  <2>3. QED
    BY <2>1, <2>2
<1>2. /\ \A p \in Ops : ops'[p] = IF p = o THEN q ELSE ops[p]
      /\ \A h \in Grants : live'[h] = IF h = l THEN serial ELSE live[h]
      /\ \A k \in Logins : code'[k] = IF k = l THEN "used" ELSE code[k]
  BY DEF IInv, Types
<1>3. Local'
  <2>1. /\ live' \in [Grants -> Serials]
        /\ code' \in [Logins -> {"none", "begun", "issued", "denied", "used"}]
    BY <1>1 DEF IInv, Types
  <2>2. /\ Newest \in Nat /\ 1 <= Newest
        /\ \A h \in Grants : live'[h] <= Newest
        /\ row # None => row.refresh <= Newest
        /\ q.token # None => q.token.refresh <= Newest
    BY <1>1, <1>2, NewestType, OAuthAssumption DEF IInv, SerialsBounded
  <2>3. /\ row \in Token \union {None} /\ begun \in 0 .. MaxOps /\ rotates \in BOOLEAN
        /\ pending \in [Logins -> {"none", "fresh", "old"}]
    BY DEF IInv, Types
  <2>4. o <= begun /\ begun <= begun /\ ops[o].at \notin Last /\ q.at \notin Logging
    BY OAuthAssumption DEF IInv, Types, UnbegunIsIdle, Ops, Last, Logging
  <2>5. QED
    BY <1>1, <2>1, <2>2, <2>3, <2>4, FaultType, StepLocal
<1>4. GrantsBeginOnce'
  BY <1>1, <1>2 DEF IInv, GrantsBeginOnce, Logins, Grants
<1>5. /\ ~InRow(l)
      /\ \A p \in Ops : ~Posts(p, l) /\ ~Stores(p, l)
  BY DEF IInv, Types, GrantsBeginOnce, InRow, Posts, Stores
<1>6. /\ \A h \in Grants : InRow(h)' <=> InRow(h)
      /\ \A h \in Grants, p \in Ops : Posts(p, h)' => Posts(p, h) /\ ops'[p] = ops[p]
      /\ \A h \in Grants, p \in Ops : Stores(p, h)' =>
            \/ p # o /\ Stores(p, h) /\ ops'[p] = ops[p]
            \/ p = o /\ h = l /\ ops'[p].token.refresh = serial
  BY <1>1, <1>2 DEF InRow, Posts, Stores
<1>7. StoresTheLive'
  <2>. SUFFICES ASSUME NEW h \in Grants, live'[h] # 0
                PROVE  /\ \A p \in Ops : Stores(p, h)' => ops'[p].token.refresh = live'[h]
                       /\ rotates' =>
                          /\ InRow(h)' => row'.refresh <= live'[h]
                          /\ \A p \in Ops : Posts(p, h)' => ops'[p].token.refresh <= live'[h]
                          /\ \A u \in Ops : Stores(u, h)' =>
                              /\ InRow(h)' => row'.refresh < live'[h]
                              /\ \A p \in Ops : Posts(p, h)' =>
                                                  ops'[p].token.refresh < live'[h]
                              /\ \A p \in Ops \ {u} : ~Stores(p, h)'
    BY DEF StoresTheLive
  <2>1. CASE h = l
    BY <1>2, <1>5, <1>6, <2>1
  <2>2. CASE h # l
    BY <1>2, <1>6, <2>2 DEF IInv, StoresTheLive
  <2>3. QED
    BY <2>1, <2>2
<1>8. QED
  BY <1>3, <1>4, <1>7

LEMMA GoesNewIs ==
    ASSUME IInv, NEW o \in Ops, NEW l \in Logins, NEW serial \in {0, 1},
           NEW due \in BOOLEAN, Goes(o, "store", NewGrant(l, serial, due))
    PROVE  \E q \in Op : /\ ops' = [ops EXCEPT ![o] = q]
                         /\ q.at = "store" /\ q.token = NewGrant(l, serial, due)
<1>1. NewGrant(l, serial, due) \in Token /\ "store" \in Places
  BY OAuthAssumption DEF NewGrant, Token, Logins, Grants, Serials, Places
<1>2. QED
  BY <1>1, GoesIs

LEMMA ExchangeInv == ASSUME IInv, NEW o \in Ops, Exchange(o) PROVE IInv'
<1>. DEFINE l == ops[o].login
<1>1. /\ ops[o].at = "exchange" /\ ops[o].at # "none" /\ l \in Logins
      /\ UNCHANGED <<rotates, row, begun, pending>>
      /\ exchanges' = [exchanges EXCEPT ![l] = @ + 1]
      /\ exchanges' \in [Logins -> Nat]
      /\ \A k \in Logins : exchanges'[k] = IF k = l THEN exchanges[l] + 1 ELSE exchanges[k]
  <2>1. ops[o].at = "exchange" /\ l \in Logins
    BY DEF Exchange, IInv, HasLogin, Logging
  <2>2. exchanges \in [Logins -> Nat]
    BY DEF IInv, Types
  <2>3. QED
    BY <2>1, <2>2 DEF Exchange
<1>2. /\ Sends(o, l) /\ exchanges[l] = 0 /\ pending[l] = "none" /\ code[l] # "none"
      /\ \A p \in Ops \ {o} : ~Sends(p, l)
  BY <1>1 DEF IInv, OneSender, Sends
<1>3. ASSUME NEW q \in Op, ops' = [ops EXCEPT ![o] = q], q.at \in {"store", "ended"},
             \A k \in Logins : code'[k] = "none" <=> code[k] = "none"
      PROVE  OneSender'
  <2>. HIDE DEF l
  <2>1. \A p \in Ops : ops'[p] = IF p = o THEN q ELSE ops[p]
    BY <1>3 DEF IInv, Types
  <2>2. \A p \in Ops, k \in Logins : Sends(p, k)' => p # o /\ Sends(p, k)
    BY <1>3, <2>1 DEF Sends
  <2>3. QED
    BY <1>1, <1>2, <1>3, <2>2 DEF IInv, OneSender
<1>4. CASE Ends(o) /\ UNCHANGED <<code, live>> /\ (Fault \/ UNCHANGED faults)
  <2>1. PICK q \in Op : ops' = [ops EXCEPT ![o] = q] /\ q.at = "ended" /\ q.token = None
    BY <1>4, EndsIs
  <2>2. /\ begun \in 0 .. MaxOps /\ o <= begun /\ begun <= begun
        /\ code \in [Logins -> {"none", "begun", "issued", "denied", "used"}]
        /\ pending \in [Logins -> {"none", "fresh", "old"}]
    BY <1>1, OAuthAssumption DEF IInv, Types, UnbegunIsIdle, Ops
  <2>3. q.at \in Last /\ q.at \notin Logging
    BY <2>1 DEF Last, Logging
  <2>4. Local' /\ GrantsBeginOnce' /\ StoresTheLive'
    BY <1>1, <1>4, <2>1, <2>2, <2>3, FaultType, StepQuiet
  <2>5. QED
    BY <1>3, <1>4, <2>1, <2>4 DEF IInv, Local
<1>5. CASE /\ code[l] = "issued" /\ code' = [code EXCEPT ![l] = "used"]
           /\ \E serial \in {0, 1}, due \in BOOLEAN :
                /\ live' = [live EXCEPT ![l] = serial]
                /\ \/ Goes(o, "store", NewGrant(l, serial, due)) /\ UNCHANGED faults
                   \/ Ends(o) /\ Fault
  <2>. HIDE DEF l
  <2>1. PICK serial \in {0, 1} :
                /\ live' = [live EXCEPT ![l] = serial]
                /\ \/ \E due \in BOOLEAN : /\ Goes(o, "store", NewGrant(l, serial, due))
                                           /\ UNCHANGED faults
                   \/ Ends(o) /\ Fault
    BY <1>5
  <2>2. PICK q \in Op : /\ ops' = [ops EXCEPT ![o] = q]
                       /\ \/ q.at = "ended" /\ q.token = None
                          \/ /\ q.at = "store"
                             /\ \E due \in BOOLEAN : q.token = NewGrant(l, serial, due)
    BY <1>1, <2>1, GoesNewIs, EndsIs
  <2>3. Local' /\ GrantsBeginOnce' /\ StoresTheLive'
    <3>1. /\ ops[o].at \in {"exchange", "poll"} /\ l \in Logins
          /\ exchanges' \in [Logins -> Nat] /\ UNCHANGED <<rotates, row, begun, pending>>
      BY <1>1
    <3>2. Fault \/ UNCHANGED faults
      BY <2>1
    <3>3. QED
      BY <1>5, <2>1, <2>2, <3>1, <3>2, GrantedLocal
  <2>4. \A k \in Logins : code'[k] = "none" <=> code[k] = "none"
    BY <1>1, <1>2, <1>5 DEF IInv, Types
  <2>5. QED
    BY <1>3, <2>2, <2>3, <2>4 DEF IInv, Local
<1>6. QED
  BY <1>4, <1>5 DEF Exchange

LEMMA PollInv == ASSUME IInv, NEW o \in Ops, Poll(o) PROVE IInv'
<1>. DEFINE l == ops[o].login
<1>1. /\ ops[o].at = "poll" /\ ops[o].at # "none" /\ ops[o].at \notin Last
      /\ ops[o].at \in Logging /\ l \in Logins
      /\ UNCHANGED <<rotates, row, begun, pending, exchanges>>
  BY DEF Poll, IInv, HasLogin, Logging, Last
<1>2. CASE Ends(o) /\ UNCHANGED <<code, live>> /\ (Fault \/ UNCHANGED faults)
  BY <1>1, <1>2, EndsInv
<1>3. CASE Goes(o, "wait", None) /\ UNCHANGED <<code, live>> /\ (Fault \/ UNCHANGED faults)
  <2>1. "wait" \in Places
    BY DEF Places
  <2>2. PICK q \in Op : /\ ops' = [ops EXCEPT ![o] = q] /\ q.at = "wait"
                       /\ q.token = None /\ q.login = ops[o].login
    BY <1>3, <2>1, GoesIs
  <2>3. QED
    BY <1>1, <1>3, <2>2, GoesOnInv
<1>4. CASE /\ code[l] = "issued" /\ code' = [code EXCEPT ![l] = "used"]
           /\ \E serial \in {0, 1}, due \in BOOLEAN :
                /\ live' = [live EXCEPT ![l] = serial]
                /\ \/ Goes(o, "store", NewGrant(l, serial, due)) /\ UNCHANGED faults
                   \/ Ends(o) /\ Fault
  <2>. HIDE DEF l
  <2>1. PICK serial \in {0, 1} :
                /\ live' = [live EXCEPT ![l] = serial]
                /\ \/ \E due \in BOOLEAN : /\ Goes(o, "store", NewGrant(l, serial, due))
                                           /\ UNCHANGED faults
                   \/ Ends(o) /\ Fault
    BY <1>4
  <2>2. PICK q \in Op : /\ ops' = [ops EXCEPT ![o] = q]
                       /\ \/ q.at = "ended" /\ q.token = None
                          \/ /\ q.at = "store"
                             /\ \E due \in BOOLEAN : q.token = NewGrant(l, serial, due)
    BY <1>1, <2>1, GoesNewIs, EndsIs
  <2>3. exchanges' \in [Logins -> Nat] /\ (Fault \/ UNCHANGED faults)
    BY <1>1, <2>1 DEF IInv, Types
  <2>4. Local' /\ GrantsBeginOnce' /\ StoresTheLive'
    BY <1>1, <1>4, <2>1, <2>2, <2>3, GrantedLocal
  <2>5. \A k \in Logins : code'[k] = "none" <=> code[k] = "none"
    BY <1>1, <1>4 DEF IInv, Types
  <2>6. OneSender'
    BY <1>1, <2>2, <2>5, StepSender
  <2>7. QED
    BY <2>4, <2>6 DEF IInv, Local
<1>5. QED
  BY <1>2, <1>3, <1>4 DEF Poll
-----------------------------------------------------------------------------
(* The vault row.                                                          *)

\* What the operation stores is the refresh token that is valid.
LEMMA StoreInv == ASSUME IInv, NEW o \in Ops, Store(o) PROVE IInv'
<1>1. /\ ops[o].at = "store" /\ ops[o].at # "none" /\ ops[o].at \in Last
      /\ ops[o].token # None /\ ops[o].token \in Token /\ ops \in [Ops -> Op]
      /\ UNCHANGED <<rotates, begun, pending, code, live, exchanges>>
  BY DEF Store, Last, IInv, Types, Op
<1>2. CASE Ends(o) /\ Fault /\ UNCHANGED row
  BY <1>1, <1>2, EndsInv
<1>3. CASE /\ row' = ops[o].token /\ UNCHANGED faults
           /\ IF ops[o].kind = "request" THEN Goes(o, "use", ops[o].token) ELSE Ends(o)
  <2>1. PICK q \in Op : /\ ops' = [ops EXCEPT ![o] = q]
                       /\ \/ q.at = "ended" /\ q.token = None
                          \/ q.at = "use" /\ q.token = ops[o].token
    <3>1. "use" \in Places
      BY DEF Places
    <3>2. QED
      BY <1>1, <1>3, <3>1, GoesIs, EndsIs
  <2>2. \A p \in Ops : ops'[p] = IF p = o THEN q ELSE ops[p]
    BY <1>1, <2>1
  <2>3. Local'
    <3>1. /\ Newest \in Nat /\ \A h \in Grants : live[h] <= Newest
          /\ ops[o].token.refresh <= Newest
      BY <1>1, NewestType, OAuthAssumption DEF IInv, SerialsBounded
    <3>2. /\ begun \in 0 .. MaxOps /\ rotates \in BOOLEAN
          /\ code \in [Logins -> {"none", "begun", "issued", "denied", "used"}]
          /\ pending \in [Logins -> {"none", "fresh", "old"}]
          /\ exchanges \in [Logins -> Nat] /\ live \in [Grants -> Serials]
      BY DEF IInv, Types
    <3>3. /\ o <= begun /\ begun <= begun
          /\ q.at \in Last /\ q.at \notin Logging
      BY <1>1, <2>1, OAuthAssumption
         DEF IInv, Types, UnbegunIsIdle, Ops, Last, Logging
    <3>4. QED
      BY <1>1, <1>3, <2>1, <3>1, <3>2, <3>3, FaultType, StepLocal
  <2>4. OneSender'
    BY <1>1, <2>1, StepSender
  <2>5. GrantsBeginOnce'
    BY <1>1, <1>3, <2>1, <2>2 DEF IInv, GrantsBeginOnce
  <2>6. /\ \A h \in Grants : InRow(h)' => Stores(o, h) /\ row'.refresh = ops[o].token.refresh
        /\ \A h \in Grants, p \in Ops : Posts(p, h)' => Posts(p, h) /\ ops'[p] = ops[p]
        /\ \A h \in Grants, p \in Ops : Stores(p, h)' =>
              p # o /\ Stores(p, h) /\ ops'[p] = ops[p]
    BY <1>1, <1>3, <2>1, <2>2 DEF InRow, Posts, Stores
  <2>7. StoresTheLive'
    <3>. SUFFICES ASSUME NEW h \in Grants, live[h] # 0
                  PROVE  /\ \A p \in Ops : Stores(p, h)' => ops'[p].token.refresh = live[h]
                         /\ rotates =>
                            /\ InRow(h)' => row'.refresh <= live[h]
                            /\ \A p \in Ops : Posts(p, h)' => ops'[p].token.refresh <= live[h]
                            /\ \A u \in Ops : Stores(u, h)' =>
                                /\ InRow(h)' => row'.refresh < live[h]
                                /\ \A p \in Ops : Posts(p, h)' =>
                                                    ops'[p].token.refresh < live[h]
                                /\ \A p \in Ops \ {u} : ~Stores(p, h)'
      BY <1>1 DEF StoresTheLive
    <3>1. live[h] \in Nat
      BY OAuthAssumption DEF IInv, Types, Serials
    <3>2. InRow(h)' => row'.refresh = live[h] /\ (rotates => \A p \in Ops : ~Stores(p, h)')
      BY <2>6 DEF IInv, StoresTheLive
    <3>3. QED
      BY <2>6, <3>1, <3>2 DEF IInv, StoresTheLive
  <2>8. QED
    BY <2>3, <2>4, <2>5, <2>7 DEF IInv, Local
<1>4. QED
  BY <1>2, <1>3 DEF Store

\* The row is deleted, comes within refreshSkew of its end, or stays; a login begins,
\* is decided or gets old.
LEMMA ServerInv ==
    ASSUME IInv, UNCHANGED <<rotates, ops, begun, live, exchanges, faults>>,
           \/ row' = row \/ row' = None
           \/ row # None /\ row' = [row EXCEPT !.due = TRUE],
           code' \in [Logins -> {"none", "begun", "issued", "denied", "used"}],
           pending' \in [Logins -> {"none", "fresh", "old"}],
           \A l \in Logins :
              /\ code'[l] = "used" <=> code[l] = "used"
              /\ code'[l] = "none" => code[l] = "none"
              /\ pending'[l] # "none" =>
                    pending[l] # "none" \/ (code[l] = "none" /\ code'[l] # "none")
    PROVE  IInv'
<1>1. /\ row' \in Token \union {None}
      /\ row' # None => row # None /\ row'.grant = row.grant /\ row'.refresh = row.refresh
  BY DEF IInv, Types, Token
<1>2. Types'
  BY <1>1 DEF IInv, Types
<1>3. UnbegunIsIdle' /\ OnlyRefreshable' /\ HasLogin'
  BY DEF IInv, UnbegunIsIdle, OnlyRefreshable, HasLogin
<1>4. SerialsBounded'
  <2>1. Newest' = Newest
    BY DEF Newest, Spent
  <2>2. QED
    BY <1>1, <2>1 DEF IInv, SerialsBounded
<1>5. OneSender'
  BY DEF IInv, OneSender, Sends
<1>6. GrantsBeginOnce'
  BY <1>1 DEF IInv, GrantsBeginOnce
<1>7. StoresTheLive'
  BY <1>1 DEF IInv, StoresTheLive, InRow, Posts, Stores
<1>8. QED
  BY <1>2, <1>3, <1>4, <1>5, <1>6, <1>7 DEF IInv

LEMMA RowInv == IInv /\ (DeleteCredential \/ Due) => IInv'
<1>. SUFFICES ASSUME IInv, DeleteCredential \/ Due PROVE IInv'
  OBVIOUS
<1>1. /\ code \in [Logins -> {"none", "begun", "issued", "denied", "used"}]
      /\ pending \in [Logins -> {"none", "fresh", "old"}]
  BY DEF IInv, Types
<1>2. QED
  BY <1>1, ServerInv DEF DeleteCredential, Due, Bury

LEMMA LoginInv ==
    IInv /\ (OAuthBootstrap \/ \E l \in Logins : Decide(l) \/ Ages(l)) => IInv'
<1>. SUFFICES ASSUME IInv, OAuthBootstrap \/ \E l \in Logins : Decide(l) \/ Ages(l)
              PROVE  IInv'
  OBVIOUS
<1>1. /\ code \in [Logins -> {"none", "begun", "issued", "denied", "used"}]
      /\ pending \in [Logins -> {"none", "fresh", "old"}]
  BY DEF IInv, Types
<1>2. CASE OAuthBootstrap
  BY <1>1, <1>2, ServerInv DEF OAuthBootstrap, Unbegun
<1>3. CASE \E l \in Logins : Decide(l)
  BY <1>1, <1>3, ServerInv DEF Decide
<1>4. CASE \E l \in Logins : Ages(l)
  BY <1>1, <1>4, ServerInv DEF Ages
<1>5. QED
  BY <1>2, <1>3, <1>4
-----------------------------------------------------------------------------
(* Operations begin, and the process ends.                                 *)

LEMMA BeginTokenInv == IInv /\ (BearerToken \/ BeginManager) => IInv'
<1>. SUFFICES ASSUME IInv, BearerToken \/ BeginManager PROVE IInv'
  OBVIOUS
<1>1. /\ row # None /\ row \in Token /\ 0 \in Grants
      /\ UNCHANGED <<row, rotates, pending, code, live, exchanges, faults>>
      /\ code \in [Logins -> {"none", "begun", "issued", "denied", "used"}]
      /\ pending \in [Logins -> {"none", "fresh", "old"}]
      /\ exchanges \in [Logins -> Nat]
      /\ {"request", "refresh", "revoke"} \subseteq Kinds
      /\ {"load", "use", "post"} \subseteq Places
  BY OAuthAssumption DEF BearerToken, BeginManager, IInv, Types, Grants, Kinds, Places
<1>2. PICK o \in Ops, q \in Op :
        /\ ops' = [ops EXCEPT ![o] = q] /\ ops[o].at = "none"
        /\ begun' \in 0 .. MaxOps /\ o <= begun' /\ begun <= begun'
        /\ \/ q.at \in {"load", "use"} /\ q.token = row
           \/ q.at = "post" /\ q.token = row /\ (q.kind # "revoke" => row.refresh # 0)
  <2>1. CASE row.due /\ Begins("request", "load", row, 0)
    BY <1>1, <2>1, BeginsIs
  <2>2. CASE ~row.due /\ Begins("request", "use", row, 0)
    BY <1>1, <2>2, BeginsIs
  <2>3. CASE row.refresh # 0 /\ Begins("refresh", "post", row, 0)
    BY <1>1, <2>3, BeginsIs
  <2>4. CASE Begins("revoke", "post", row, 0)
    <3>1. PICK o \in Ops, q \in Op :
            /\ ops' = [ops EXCEPT ![o] = q] /\ ops[o].at = "none"
            /\ q.kind = "revoke" /\ q.at = "post" /\ q.token = row
            /\ begun' \in 0 .. MaxOps /\ o <= begun' /\ begun <= begun'
      BY <1>1, <2>4, BeginsIs
    <3>2. QED
      BY <3>1
  <2>5. QED
    BY <2>1, <2>2, <2>3, <2>4 DEF BearerToken, BeginManager
<1>3. ops[o].at \notin Last /\ q.at \notin Logging
  BY <1>2 DEF Last, Logging
<1>4. Local' /\ GrantsBeginOnce' /\ StoresTheLive'
  BY <1>1, <1>2, <1>3, FaultType, StepQuiet
<1>5. OneSender'
  BY <1>1, <1>2, StepSender
<1>6. QED
  BY <1>4, <1>5 DEF IInv, Local

LEMMA BeginCommandInv == IInv /\ BeginCommand => IInv'
<1>. SUFFICES ASSUME IInv, BeginCommand PROVE IInv'
  OBVIOUS
<1>1. PICK l \in Logins :
        /\ code[l] = "none" /\ code' = [code EXCEPT ![l] = "begun"]
        /\ Begins("cli", "waiting", None, l) \/ Begins("device", "poll", None, l)
        /\ UNCHANGED <<rotates, row, pending, live, exchanges, faults>>
  BY DEF BeginCommand, Unbegun
<1>2. /\ l \in Grants /\ {"cli", "device"} \subseteq Kinds
      /\ {"waiting", "poll"} \subseteq Places
      /\ code' \in [Logins -> {"none", "begun", "issued", "denied", "used"}]
      /\ pending \in [Logins -> {"none", "fresh", "old"}]
      /\ exchanges \in [Logins -> Nat]
      /\ \A k \in Logins : code'[k] = IF k = l THEN "begun" ELSE code[k]
  BY <1>1, OAuthAssumption DEF IInv, Types, Logins, Grants, Kinds, Places
<1>3. PICK o \in Ops, q \in Op :
        /\ ops' = [ops EXCEPT ![o] = q] /\ ops[o].at = "none"
        /\ begun' \in 0 .. MaxOps /\ o <= begun' /\ begun <= begun'
        /\ q.at \in {"waiting", "poll"} /\ q.token = None /\ q.login = l
  BY <1>1, <1>2, BeginsIs
<1>4. ops[o].at \notin Last
  BY <1>3 DEF Last
<1>5. Local' /\ GrantsBeginOnce' /\ StoresTheLive'
  BY <1>1, <1>2, <1>3, <1>4, FaultType, StepQuiet
<1>6. OneSender'
  <2>1. \A p \in Ops : ops'[p] = IF p = o THEN q ELSE ops[p]
    BY <1>3 DEF IInv, Types
  <2>2. \A p \in Ops, k \in Logins : Sends(p, k)' => Sends(p, k) \/ (p = o /\ k = l)
    BY <1>3, <2>1 DEF Sends
  <2>3. /\ pending[l] = "none" /\ exchanges[l] = 0
        /\ \A p \in Ops : ~Sends(p, l)
    BY <1>1 DEF IInv, OneSender
  <2>4. QED
    BY <1>1, <1>2, <2>2, <2>3 DEF IInv, OneSender
<1>7. QED
  BY <1>5, <1>6 DEF IInv, Local

LEMMA OAuthCallbackInv == IInv /\ OAuthCallback => IInv'
<1>. SUFFICES ASSUME IInv, OAuthCallback PROVE IInv'
  OBVIOUS
<1>1. PICK l \in Logins :
        /\ code[l] \in {"issued", "used"} /\ pending[l] # "none"
        /\ IF pending[l] = "fresh" THEN Begins("callback", "exchange", None, l)
                                   ELSE UNCHANGED <<ops, begun>>
        /\ pending' = [pending EXCEPT ![l] = "none"]
        /\ UNCHANGED <<row, rotates, code, live, exchanges, faults>>
  BY DEF OAuthCallback
<1>2. /\ pending' \in [Logins -> {"none", "fresh", "old"}]
      /\ \A k \in Logins : pending'[k] = IF k = l THEN "none" ELSE pending[k]
      /\ code \in [Logins -> {"none", "begun", "issued", "denied", "used"}]
      /\ exchanges \in [Logins -> Nat]
      /\ l \in Grants /\ "callback" \in Kinds /\ "exchange" \in Places
  BY <1>1, OAuthAssumption DEF IInv, Types, Logins, Grants, Kinds, Places
<1>3. CASE UNCHANGED <<ops, begun>>
  BY <1>1, <1>2, <1>3, ServerInv
<1>4. CASE Begins("callback", "exchange", None, l)
  <2>1. PICK o \in Ops, q \in Op :
          /\ ops' = [ops EXCEPT ![o] = q] /\ ops[o].at = "none"
          /\ begun' \in 0 .. MaxOps /\ o <= begun' /\ begun <= begun'
          /\ q.at = "exchange" /\ q.token = None /\ q.login = l
    BY <1>2, <1>4, BeginsIs
  <2>2. ops[o].at \notin Last
    BY <2>1 DEF Last
  <2>3. Local' /\ GrantsBeginOnce' /\ StoresTheLive'
    BY <1>1, <1>2, <2>1, <2>2, FaultType, StepQuiet
  <2>4. OneSender'
    <3>1. \A p \in Ops : ops'[p] = IF p = o THEN q ELSE ops[p]
      BY <2>1 DEF IInv, Types
    <3>2. \A p \in Ops, k \in Logins : Sends(p, k)' => Sends(p, k) \/ (p = o /\ k = l)
      BY <2>1, <3>1 DEF Sends
    <3>3. /\ exchanges[l] = 0 /\ \A p \in Ops : ~Sends(p, l)
      BY <1>1 DEF IInv, OneSender
    <3>4. QED
      BY <1>1, <1>2, <3>2, <3>3 DEF IInv, OneSender
  <2>5. QED
    BY <2>3, <2>4 DEF IInv, Local
<1>5. QED
  BY <1>1, <1>3, <1>4

LEMMA CrashInv == IInv /\ Crash => IInv'
<1>. SUFFICES ASSUME IInv, Crash PROVE IInv'
  OBVIOUS
<1>1. /\ ops \in [Ops -> Op] /\ faults' \in 0 .. MaxFaults
      /\ UNCHANGED <<rotates, row, begun, code, live, exchanges>>
      /\ pending' = [l \in Logins |-> "none"]
  BY FaultType DEF Crash, IInv, Types
<1>2. "ended" \in Places
  BY DEF Places
<1>3. \A p \in Ops :
        \/ ops'[p] = ops[p] /\ ops[p].at \in {"none", "ended"}
        \/ /\ Running(p) /\ ops'[p] \in Op /\ ops'[p].at = "ended"
           /\ ops'[p].token = None /\ ops'[p].login = 0
  BY <1>2, NoOpType DEF Crash, Running
<1>4. ops' \in [Ops -> Op]
  <2>1. ops' = [p \in Ops |-> ops'[p]]
    BY DEF Crash
  <2>2. \A p \in Ops : ops'[p] \in Op
    BY <1>1, <1>3
  <2>3. QED
    BY <2>1, <2>2
<1>5. Types'
  BY <1>1, <1>3, <1>4 DEF IInv, Types
<1>6. UnbegunIsIdle' /\ OnlyRefreshable' /\ HasLogin'
  BY <1>1, <1>3 DEF IInv, UnbegunIsIdle, Running, OnlyRefreshable,
                    HasLogin, Logging
<1>7. SerialsBounded'
  <2>1. Spent \in SUBSET Spent' /\ Spent' \in SUBSET Ops
    BY <1>3 DEF Spent, Last
  <2>2. Newest \in Nat /\ Newest' \in Nat /\ Newest <= Newest'
    BY <2>1, CardBounds DEF Newest
  <2>3. /\ row # None => row.refresh \in Nat
        /\ \A p \in Ops : ops[p].token # None => ops[p].token.refresh \in Nat
        /\ \A g \in Grants : live[g] \in Nat
    BY OAuthAssumption DEF IInv, Types, Op, Token, Serials
  <2>4. \A p \in Ops : ops'[p].token # None => ops'[p].token = ops[p].token
    BY <1>3
  <2>5. QED
    BY <1>1, <2>2, <2>3, <2>4 DEF IInv, SerialsBounded
<1>8. OneSender'
  BY <1>1, <1>3 DEF IInv, OneSender, Sends
<1>9. GrantsBeginOnce'
  BY <1>1, <1>3 DEF IInv, GrantsBeginOnce
<1>10. StoresTheLive'
  <2>1. \A p \in Ops, g \in Grants : ~Posts(p, g)' /\ ~Stores(p, g)'
    BY <1>3 DEF Posts, Stores
  <2>2. QED
    BY <1>1, <2>1 DEF IInv, StoresTheLive, InRow
<1>11. QED
  BY <1>5, <1>6, <1>7, <1>8, <1>9, <1>10 DEF IInv
-----------------------------------------------------------------------------
LEMMA InitInv == Init => IInv
<1>. SUFFICES ASSUME Init PROVE IInv
  OBVIOUS
<1>1. /\ MaxOps \in Nat /\ MaxLogins \in Nat /\ MaxFaults \in Nat
      /\ 0 \in Grants /\ {0, 1} \subseteq Serials
  BY OAuthAssumption DEF Grants, Serials
<1>2. /\ row \in Token \union {None}
      /\ row # None => row.grant = 0 /\ row.refresh \in {0, 1}
  BY <1>1 DEF Init, Token
<1>3. \A o \in Ops : /\ ops[o] = NoOp /\ ops[o].at = "none"
                     /\ ops[o].token = None /\ ops[o].login = 0
  BY NoOpType DEF Init
<1>4. \A g \in Grants : /\ live[g] \in {0, 1}
                        /\ g # 0 => live[g] = 0
                        /\ row # None /\ g = 0 => live[g] = row.refresh
  BY <1>2 DEF Init
<1>5. Types
  <2>1. ops \in [Ops -> Op]
    BY NoOpType DEF Init
  <2>2. live \in [Grants -> Serials]
    BY <1>1, <1>4 DEF Init
  <2>3. /\ pending \in [Logins -> {"none", "fresh", "old"}]
        /\ code \in [Logins -> {"none", "begun", "issued", "denied", "used"}]
        /\ exchanges \in [Logins -> Nat] /\ rotates \in BOOLEAN
        /\ begun \in 0 .. MaxOps /\ faults \in 0 .. MaxFaults
    BY <1>1 DEF Init
  <2>4. QED
    BY <1>2, <1>3, <2>1, <2>2, <2>3 DEF Types
<1>6. UnbegunIsIdle /\ OnlyRefreshable /\ HasLogin
  BY <1>3 DEF UnbegunIsIdle, OnlyRefreshable, HasLogin, Logging
<1>7. SerialsBounded
  BY <1>2, <1>3, <1>4, NewestType, OAuthAssumption DEF SerialsBounded
<1>8. OneSender
  BY <1>3 DEF Init, OneSender, Sends
<1>9. GrantsBeginOnce
  BY <1>2, <1>3, <1>4, OAuthAssumption DEF GrantsBeginOnce, Logins, Grants
<1>10. StoresTheLive
  BY <1>2, <1>3, <1>4 DEF StoresTheLive, InRow, Posts, Stores
<1>11. QED
  BY <1>5, <1>6, <1>7, <1>8, <1>9, <1>10 DEF IInv

LEMMA NextInv == IInv /\ [Next]_vars => IInv'
<1>. SUFFICES ASSUME IInv, [Next]_vars PROVE IInv'
  OBVIOUS
<1>1. CASE UNCHANGED vars
  <2>1. /\ code \in [Logins -> {"none", "begun", "issued", "denied", "used"}]
        /\ pending \in [Logins -> {"none", "fresh", "old"}]
    BY DEF IInv, Types
  <2>2. QED
    BY <1>1, <2>1, ServerInv DEF vars
<1>2. ASSUME NEW o \in Ops, Step(o) PROVE IInv'
  BY <1>2, LoadInv, RefreshInv, RevokeInv, CliCallbackInv, ExchangeInv, PollInv, WakeInv,
     StoreInv, DeleteInv DEF Step
<1>3. QED
  BY <1>1, <1>2, BeginTokenInv, BeginCommandInv, OAuthCallbackInv, RowInv, LoginInv,
     CrashInv DEF Next

LEMMA SafetyInv == Spec => []IInv
BY InitInv, NextInv, PTL DEF Spec
-----------------------------------------------------------------------------
(* Deleted grants.                                                         *)

\* The code of a deleted grant's login was used, and nobody holds a token of it.
Burial ==
    /\ buried \subseteq Grants
    /\ \A g \in buried :
         /\ \A l \in Logins : l = g => code[l] = "used"
         /\ ~InRow(g)
         /\ \A o \in Ops : ~UnderWay(o, g)

\* An operation goes on with the token of the row, with one it has under way, or with
\* none, and the row is as before, or it is deleted, or has the token of an operation.
LEMMA StepBurial ==
    ASSUME IInv, Burial, buried' = buried,
           \A l \in Logins : code[l] = "used" => code'[l] = "used",
           \A g \in buried : InRow(g)' => InRow(g) \/ \E o \in Ops : UnderWay(o, g),
           \A g \in buried, o \in Ops : UnderWay(o, g)' => InRow(g) \/ UnderWay(o, g)
    PROVE  Burial'
BY DEF Burial

LEMMA BuryBurial ==
    ASSUME IInv, Burial, Bury, code' = code,
           \A g \in Grants, o \in Ops : UnderWay(o, g)' => UnderWay(o, g)
    PROVE  Burial'
<1>1. /\ buried' \subseteq Grants
      /\ \A g \in buried' \ buried : InRow(g) /\ \A o \in Ops : ~UnderWay(o, g)
  BY DEF Bury, Burial, InRow
<1>2. \A g \in Grants : ~InRow(g)'
  BY DEF Bury, InRow
<1>3. \A g \in buried' \ buried, l \in Logins : l = g => code[l] = "used"
  BY <1>1 DEF IInv, GrantsBeginOnce, InRow
<1>4. QED
  BY <1>1, <1>2, <1>3 DEF Burial

LEMMA NextBurial == IInv /\ Burial /\ [Next]_vars => Burial'
<1>. SUFFICES ASSUME IInv, Burial, [Next]_vars PROVE Burial'
  OBVIOUS
<1>1. /\ ops \in [Ops -> Op] /\ code \in [Logins -> {"none", "begun", "issued", "denied", "used"}]
      /\ row \in Token \union {None} /\ begun \in Nat /\ buried \subseteq Grants
  BY OAuthAssumption DEF IInv, Types, Burial
<1>2. ASSUME NEW o \in Ops, NEW at, NEW token, Ends(o) \/ Goes(o, at, token)
      PROVE  \A p \in Ops, g \in Grants : UnderWay(p, g)' =>
                UnderWay(p, g) \/ (p = o /\ at = ops'[o].at /\ token = ops'[o].token)
  BY <1>1, <1>2 DEF Ends, Goes, UnderWay, Op, NoOp
<1>3. ASSUME NEW kind, NEW at, NEW token, NEW login, Begins(kind, at, token, login)
      PROVE  \A p \in Ops, g \in Grants : UnderWay(p, g)' =>
                \/ UnderWay(p, g)
                \/ at \in {"post", "store"} /\ token.grant = g
  BY <1>1, <1>3 DEF Begins, UnderWay
<1>4. CASE UNCHANGED vars
  BY <1>4, StepBurial DEF vars, InRow, UnderWay
<1>5. CASE BearerToken \/ BeginManager
  <2>1. /\ row # None /\ row' = row /\ code' = code /\ buried' = buried
        /\ \A p \in Ops, g \in Grants : UnderWay(p, g)' => InRow(g) \/ UnderWay(p, g)
    BY <1>3, <1>5 DEF BearerToken, BeginManager, InRow
  <2>2. QED
    BY <1>1, <2>1, StepBurial DEF InRow
<1>6. CASE BeginCommand \/ OAuthCallback
  <2>1. /\ row' = row /\ buried' = buried
        /\ \A l \in Logins : code[l] = "used" => code'[l] = "used"
    BY <1>1, <1>6 DEF BeginCommand, OAuthCallback, Unbegun
  <2>2. \A p \in Ops, g \in Grants : UnderWay(p, g)' => UnderWay(p, g)
    BY <1>3, <1>6 DEF BeginCommand, OAuthCallback, UnderWay
  <2>3. QED
    BY <1>1, <2>1, <2>2, StepBurial DEF InRow
<1>7. CASE OAuthBootstrap \/ Due \/ \E l \in Logins : Decide(l) \/ Ages(l)
  <2>1. /\ ops' = ops /\ buried' = buried
        /\ \A l \in Logins : code[l] = "used" => code'[l] = "used"
    BY <1>1, <1>7 DEF OAuthBootstrap, Unbegun, Due, Decide, Ages
  <2>2. \A g \in Grants : InRow(g)' => InRow(g)
    BY <1>1, <1>7 DEF OAuthBootstrap, Due, Decide, Ages, InRow, Token
  <2>3. QED
    BY <1>1, <2>1, <2>2, StepBurial DEF UnderWay
<1>8. CASE DeleteCredential
  BY <1>8, BuryBurial DEF DeleteCredential, UnderWay
<1>9. CASE Crash
  <2>1. /\ row' = row /\ code' = code /\ buried' = buried
        /\ \A p \in Ops, g \in Grants : UnderWay(p, g)' => UnderWay(p, g)
    BY <1>9 DEF Crash, UnderWay, NoOp
  <2>2. QED
    BY <1>1, <2>1, StepBurial DEF InRow
<1>10. ASSUME NEW o \in Ops, Load(o) PROVE Burial'
  <2>1. /\ row' = row /\ code' = code /\ buried' = buried
        /\ \A p \in Ops, g \in Grants : UnderWay(p, g)' => InRow(g) \/ UnderWay(p, g)
    BY <1>1, <1>2, <1>10 DEF Load, InRow, UnderWay, Ends, NoOp
  <2>2. QED
    BY <1>1, <2>1, StepBurial DEF InRow
<1>11. ASSUME NEW o \in Ops, Revoke(o) \/ CliCallback(o) \/ Wake(o) \/ Use(o) PROVE Burial'
  <2>1. row' = row /\ code' = code /\ buried' = buried
    BY <1>11 DEF Revoke, CliCallback, Wake, Use
  <2>2. \A p \in Ops, g \in Grants : UnderWay(p, g)' => UnderWay(p, g)
    BY <1>1, <1>11 DEF Revoke, CliCallback, Wake, Use, Ends, Goes, NoOp, UnderWay, Op
  <2>3. QED
    BY <1>1, <2>1, <2>2, StepBurial DEF InRow
<1>12. ASSUME NEW o \in Ops, Delete(o) PROVE Burial'
  <2>1. \A p \in Ops, g \in Grants : UnderWay(p, g)' => UnderWay(p, g)
    BY <1>1, <1>12 DEF Delete, Ends, NoOp, UnderWay
  <2>2. CASE Bury
    BY <1>12, <2>1, <2>2, BuryBurial DEF Delete
  <2>3. CASE UNCHANGED <<row, buried>>
    BY <1>1, <1>12, <2>1, <2>3, StepBurial DEF Delete, InRow
  <2>4. QED
    BY <1>12, <2>2, <2>3 DEF Delete
<1>13. ASSUME NEW o \in Ops, Store(o) PROVE Burial'
  <2>1. /\ ops[o].at = "store" /\ code' = code /\ buried' = buried
        /\ row' = ops[o].token \/ row' = row
    BY <1>13 DEF Store
  <2>2. \A p \in Ops, g \in Grants : UnderWay(p, g)' => UnderWay(p, g)
    BY <1>1, <1>13 DEF Store, Ends, Goes, NoOp, UnderWay, Op
  <2>3. QED
    BY <1>1, <2>1, <2>2, StepBurial DEF InRow, UnderWay
<1>14. ASSUME NEW o \in Ops, Refresh(o) PROVE Burial'
  <2>1. /\ ops[o].at = "post" /\ ops[o].kind # "revoke"
        /\ row' = row /\ code' = code /\ buried' = buried
    BY <1>14 DEF Refresh
  <2>2. \/ Ends(o)
        \/ \E token : Goes(o, "store", token) /\ token.grant = ops[o].token.grant
    <3>. DEFINE serial == IF rotates THEN ops[o].token.refresh + 1 ELSE 0
                new(due) == [grant |-> ops[o].token.grant, refresh |-> serial, due |-> due]
    <3>1. \A due \in BOOLEAN : KeepOld(ops[o].token, new(due)).grant = ops[o].token.grant
      BY DEF KeepOld
    <3>2. \/ Ends(o)
          \/ \E due \in BOOLEAN : Goes(o, "store", KeepOld(ops[o].token, new(due)))
      BY <1>14, <2>1 DEF Refresh
    <3>. HIDE DEF new
    <3>3. QED
      BY <3>1, <3>2
  <2>3. \A p \in Ops, g \in Grants : UnderWay(p, g)' => UnderWay(p, g)
    BY <1>1, <2>1, <2>2 DEF Ends, Goes, NoOp, UnderWay, Op
  <2>4. QED
    BY <1>1, <2>1, <2>3, StepBurial DEF InRow
<1>15. ASSUME NEW o \in Ops, Exchange(o) \/ Poll(o) PROVE Burial'
  <2>. DEFINE l == ops[o].login
  <2>1. l \in Logins /\ row' = row /\ buried' = buried
    BY <1>15 DEF Exchange, Poll, IInv, HasLogin, Logging
  <2>2. \A k \in Logins : code[k] = "used" => code'[k] = "used"
    BY <1>1, <1>15 DEF Exchange, Poll
  <2>3. \A p \in Ops, g \in Grants : UnderWay(p, g)' =>
            UnderWay(p, g) \/ (g = l /\ code[l] # "used")
    BY <1>1, <1>15 DEF Exchange, Poll, Ends, Goes, NoOp, UnderWay, Op, NewGrant
  <2>4. \A p \in Ops, g \in buried : UnderWay(p, g)' => UnderWay(p, g)
    BY <1>1, <2>1, <2>3 DEF Burial
  <2>5. QED
    BY <1>1, <2>1, <2>2, <2>4, StepBurial DEF InRow
<1>16. QED
  BY <1>4, <1>5, <1>6, <1>7, <1>8, <1>9, <1>10, <1>11, <1>12, <1>13, <1>14, <1>15
     DEF Next, Step

LEMMA BurialInv == Spec => []Burial
<1>1. Init => Burial
  BY DEF Init, Burial
<1>2. QED
  BY <1>1, NextBurial, SafetyInv, PTL DEF Spec
-----------------------------------------------------------------------------
\* Rows, operations and grants have the values the model gives them; in particular
\* no refresh token is rotated more often than there are operations.
THEOREM OAuthTokensTypeOK == Spec => []TypeOK
<1>1. IInv /\ Burial => TypeOK
  BY DEF IInv, Types, TypeOK, Op, Burial
<1>2. QED
  BY <1>1, SafetyInv, BurialInv, PTL

\* The code of a login is sent at most once, for every number of callbacks that come
\* back with it and of logins under way.
THEOREM OAuthTokensCodeIsSentOnce == Spec => []CodeIsSentOnce
<1>1. IInv => CodeIsSentOnce
  BY DEF IInv, OneSender, CodeIsSentOnce
<1>2. QED
  BY <1>1, SafetyInv, PTL

\* A deleted credential stays deleted, however many refreshes, requests and logins
\* overlap with the deletion, but for those that had a token of it in hand.
THEOREM OAuthTokensDeletedStaysDeleted == Spec => []DeletedStaysDeleted
<1>1. Burial => DeletedStaysDeleted
  BY DEF Burial, InRow, DeletedStaysDeleted
<1>2. QED
  BY <1>1, BurialInv, PTL

\* An operation that is about to store a token goes on to do so, unless there is a
\* fault; and then the row holds the token that is valid.
LEMMA StepKeeps ==
    ASSUME IInv, Next, NEW g \in Grants, Kept(g), faults' = faults,
           ~(row # None /\ row' = None), ~(row' # None /\ row'.grant # g)
    PROVE  Kept(g)'
<1>. DEFINE Valid(token) == token # None /\ token.grant = g /\ token.refresh = live[g]
<1>1. /\ ops \in [Ops -> Op] /\ live \in [Grants -> Serials] /\ faults \in Nat
      /\ row \in Token \union {None} /\ ~Fault
  BY OAuthAssumption DEF IInv, Types, Fault
<1>2. /\ live[g] = 0 \/ Valid(row) \/ \E p \in Ops : ops[p].at = "store" /\ Valid(ops[p].token)
  BY DEF Kept
<1>3. ASSUME live' = live \/ live'[g] = 0 \/ live'[g] = live[g],
             row' # None /\ row # None =>
                row'.grant = row.grant /\ row'.refresh = row.refresh,
             \A p \in Ops : ops[p].at = "store" =>
                ops'[p].at = "store" /\ ops'[p].token = ops[p].token
      PROVE  Kept(g)'
  BY <1>2, <1>3 DEF Kept
<1>4. ASSUME NEW o \in Ops, ops'[o].at = "store", ops'[o].token # None,
             ops'[o].token.grant = g, ops'[o].token.refresh = live'[g]
      PROVE  Kept(g)'
  BY <1>4 DEF Kept
<1>5. ASSUME NEW o \in Ops, NEW at, NEW token,
             Ends(o) \/ Goes(o, at, token), ops[o].at # "store"
      PROVE  \A p \in Ops : ops[p].at = "store" =>
                ops'[p].at = "store" /\ ops'[p].token = ops[p].token
  BY <1>1, <1>5 DEF Ends, Goes
<1>6. ASSUME NEW kind, NEW at, NEW token, NEW login, Begins(kind, at, token, login)
      PROVE  \A p \in Ops : ops[p].at = "store" =>
                ops'[p].at = "store" /\ ops'[p].token = ops[p].token
  <2>1. \A p \in Ops : p > begun => ops[p].at # "store"
    BY DEF IInv, UnbegunIsIdle
  <2>2. begun \in Nat /\ begun + 1 > begun
    BY OAuthAssumption DEF IInv, Types
  <2>3. QED
    BY <1>1, <1>6, <2>1, <2>2 DEF Begins
<1>7. CASE BearerToken \/ BeginManager \/ BeginCommand
  BY <1>3, <1>6, <1>7 DEF BearerToken, BeginManager, BeginCommand
<1>8. CASE OAuthCallback
  BY <1>3, <1>6, <1>8 DEF OAuthCallback
<1>9. CASE \/ DeleteCredential \/ Due \/ OAuthBootstrap
           \/ \E l \in Logins : Decide(l) \/ Ages(l)
  <2>1. UNCHANGED <<ops, live>>
    BY <1>9 DEF DeleteCredential, Due, OAuthBootstrap, Decide, Ages
  <2>2. row' # None /\ row # None => row'.grant = row.grant /\ row'.refresh = row.refresh
    BY <1>1, <1>9
       DEF DeleteCredential, Due, OAuthBootstrap, Decide, Ages, Token, Bury
  <2>3. QED
    BY <1>3, <2>1, <2>2
<1>10. CASE Crash
  BY <1>1, <1>10 DEF Crash
<1>11. ASSUME NEW o \in Ops,
              Load(o) \/ CliCallback(o) \/ Wake(o) \/ Use(o) \/ Delete(o) \/ Revoke(o)
       PROVE  Kept(g)'
  <2>1. \A p \in Ops : ops[p].at = "store" =>
                ops'[p].at = "store" /\ ops'[p].token = ops[p].token
    BY <1>1, <1>5, <1>11 DEF Load, CliCallback, Wake, Use, Delete, Revoke
  <2>2. live' = live \/ live'[g] = 0 \/ live'[g] = live[g]
    BY <1>1, <1>11 DEF Load, CliCallback, Wake, Use, Delete, Revoke
  <2>3. row' = row \/ row' = None
    BY <1>11 DEF Load, CliCallback, Wake, Use, Delete, Revoke, Bury
  <2>4. QED
    BY <1>3, <2>1, <2>2, <2>3
<1>12. ASSUME NEW o \in Ops, Store(o) PROVE Kept(g)'
  <2>1. /\ row' = ops[o].token /\ ops[o].at = "store" /\ ops[o].token # None
        /\ live' = live
    BY <1>1, <1>12 DEF Store, IInv, Types
  <2>2. Stores(o, g)
    BY <2>1 DEF Stores
  <2>3. live[g] # 0 => ops[o].token.refresh = live[g]
    BY <2>2 DEF IInv, StoresTheLive
  <2>4. QED
    BY <2>1, <2>2, <2>3 DEF Kept, Stores
<1>13. ASSUME NEW o \in Ops, Refresh(o) PROVE Kept(g)'
  <2>. DEFINE token == ops[o].token
              serial == IF rotates THEN token.refresh + 1 ELSE 0
              new(due) == [grant |-> token.grant, refresh |-> serial, due |-> due]
  <2>1. ops[o].at = "post" /\ row' = row
    BY <1>13 DEF Refresh
  <2>2. CASE live' = live
    <3>1. \A p \in Ops : ops[p].at = "store" =>
                ops'[p].at = "store" /\ ops'[p].token = ops[p].token
      BY <1>5, <1>13, <2>1 DEF Refresh
    <3>2. QED
      BY <1>3, <2>1, <2>2, <3>1
  <2>3. ASSUME live' # live,
               live' = [live EXCEPT ![token.grant] = IF rotates THEN serial ELSE @],
               NEW due \in BOOLEAN, Goes(o, "store", KeepOld(token, new(due)))
        PROVE  Kept(g)'
    <3>1. token \in Token /\ token.grant \in Grants /\ token.refresh \in Nat
      BY <2>1, OAuthAssumption DEF IInv, Types, Op, Token, Serials
    <3>2. rotates
      BY <1>1, <2>3, <3>1
    <3>3. live' = [live EXCEPT ![token.grant] = token.refresh + 1]
      BY <2>3, <3>2
    <3>4. ops'[o].at = "store" /\ ops'[o].token = KeepOld(token, new(due))
      BY <1>1, <2>3 DEF Goes, Op
    <3>5. /\ KeepOld(token, new(due)) = new(due)
          /\ new(due).refresh = token.refresh + 1 /\ new(due).grant = token.grant
      BY <3>1, <3>2 DEF KeepOld
    <3>6. new(due) # None
      <4>1. new(due) \in [grant : Nat, refresh : Nat, due : BOOLEAN]
        BY <3>1, <3>2, OAuthAssumption DEF Grants
      <4>2. QED
        BY <4>1, OAuthAssumption
    <3>. HIDE DEF new, token
    <3>7. CASE token.grant = g
      <4>1. live'[g] = token.refresh + 1
        BY <1>1, <3>1, <3>3, <3>7
      <4>2. QED
        BY <1>4, <3>4, <3>5, <3>6, <3>7, <4>1
    <3>8. CASE token.grant # g
      <4>1. live'[g] = live[g]
        BY <1>1, <3>1, <3>3, <3>8
      <4>2. QED
        BY <1>3, <1>5, <2>1, <2>3, <4>1
    <3>9. QED
      BY <3>7, <3>8
  <2>4. QED
    BY <1>1, <1>13, <2>2, <2>3 DEF Refresh
<1>14. ASSUME NEW o \in Ops, Exchange(o) \/ Poll(o) PROVE Kept(g)'
  <2>. DEFINE l == ops[o].login
  <2>1. ops[o].at \in {"exchange", "poll"} /\ row' = row /\ l \in Logins /\ l \in Grants
    BY <1>14, OAuthAssumption
       DEF Exchange, Poll, IInv, HasLogin, Logging, Logins, Grants
  <2>2. CASE UNCHANGED <<code, live>> /\ (Ends(o) \/ Goes(o, "wait", None))
    BY <1>3, <1>5, <2>1, <2>2
  <2>3. ASSUME NEW serial \in {0, 1}, NEW due \in BOOLEAN,
               live' = [live EXCEPT ![l] = serial],
               Goes(o, "store", NewGrant(l, serial, due))
        PROVE  Kept(g)'
    <3>1. CASE l # g
      <4>1. live'[g] = live[g]
        BY <1>1, <2>1, <2>3, <3>1
      <4>2. QED
        BY <1>3, <1>5, <2>1, <2>3, <4>1
    <3>2. CASE l = g
      <4>1. ops'[o].at = "store" /\ ops'[o].token = NewGrant(l, serial, due) /\ live'[g] = serial
        BY <1>1, <2>1, <2>3, <3>2 DEF Goes, Op
      <4>2. NewGrant(l, serial, due) \in Token
        BY <2>1, OAuthAssumption DEF NewGrant, Token, Serials
      <4>3. QED
        BY <1>4, <3>2, <4>1, <4>2, TokenIsNotNone DEF NewGrant
    <3>3. QED
      BY <3>1, <3>2
  <2>4. QED
    BY <1>1, <1>14, <2>2, <2>3 DEF Exchange, Poll
<1>15. QED
  BY <1>7, <1>8, <1>9, <1>10, <1>11, <1>12, <1>13, <1>14 DEF Next, Step

\* However many operations refresh, revoke and store at the same time, and whether
\* the server rotates refresh tokens or not, the valid one is not lost.
THEOREM OAuthTokensValidRefreshTokenIsKept == Spec => ValidRefreshTokenIsKept
<1>. DEFINE A == \A g \in Grants : Kept(g) =>
                    \/ Kept(g)'
                    \/ faults' # faults
                    \/ row # None /\ row' = None
                    \/ row' # None /\ row'.grant # g
<1>1. IInv /\ Next => A
  BY StepKeeps
<1>2. IInv /\ [Next]_vars => [A]_vars
  BY <1>1
<1>3. QED
  BY <1>2, SafetyInv, PTL DEF Spec, ValidRefreshTokenIsKept
=============================================================================
