---------------------------- MODULE OAuthTokens ----------------------------
(***************************************************************************)
(* internal/oauth, its adapter, the admin handlers and commands that use   *)
(* them, and the vault: one credential, the vault row that holds its       *)
(* token, and the operations that read and replace the row around a call   *)
(* to the authorization server, none of which excludes another.  A login   *)
(* (admin callback, CLI callback server, device flow) begins a new grant   *)
(* at the server; a refresh may rotate the grant's refresh token.          *)
(* Time is "due" (a token is within refreshSkew of its expiry) and "old"   *)
(* (a pending login has waited for more than 15 minutes).                  *)
(***************************************************************************)
EXTENDS Integers, FiniteSets

CONSTANTS
    MaxOps,       \* bound: operations
    MaxLogins,    \* bound: logins begun
    MaxFaults,    \* bound: lost replies, refusals, failed writes, crashes
    None

ASSUME OAuthAssumption ==
    /\ {MaxOps, MaxLogins, MaxFaults} \subseteq Nat
    /\ None \notin [grant : Nat, refresh : Nat, due : BOOLEAN]

VARIABLES
    row,        \* the vault row: a token or None
    ops,        \* ops[o]: the locals of operation o
    begun,      \* number of operations begun
    pending,    \* adminRuntime.pendingOAuth: state -> its age
    code,       \* server: what became of the authorization of a login
    rotates,    \* server: whether it rotates refresh tokens
    live,       \* server: the refresh token of a grant that is valid, 0 when none is
    exchanges,  \* history: exchanges[l], codes of login l sent to the server
    buried,     \* history: grants deleted from the vault while nothing was under way
    faults

vars == <<row, ops, begun, pending, code, rotates, live, exchanges, buried,
          faults>>

Ops == 1 .. MaxOps
Logins == 1 .. MaxLogins
Grants == 0 .. MaxLogins       \* grant 0 was there before
Serials == 0 .. MaxOps + 1     \* refresh tokens of a grant; 0: the server returned none

Token == [grant : Grants, refresh : Serials, due : BOOLEAN]
Kinds == {"request", "refresh", "revoke", "callback", "cli", "device"}
Places == {"none", "load", "post", "exchange", "waiting", "poll", "wait",
           "store", "delete", "use", "ended"}

NoOp == [kind |-> "request", at |-> "none", token |-> None, login |-> 0]

Init ==
    /\ row \in {None} \union [grant : {0}, refresh : {0, 1}, due : BOOLEAN]
    /\ ops = [o \in Ops |-> NoOp]
    /\ begun = 0
    /\ pending = [l \in Logins |-> "none"]
    /\ code = [l \in Logins |-> "none"]
    /\ rotates \in BOOLEAN
    /\ live = [g \in Grants |-> IF g = 0 /\ row # None THEN row.refresh ELSE 0]
    /\ exchanges = [l \in Logins |-> 0]
    /\ buried = {}
    /\ faults = 0
-----------------------------------------------------------------------------
Fault == faults < MaxFaults /\ faults' = faults + 1

\* Operation o goes on at a place, with a token.
Goes(o, at, token) ==
    ops' = [ops EXCEPT ![o].at = at, ![o].token = token]

\* It returns, with a result or an error.
Ends(o) == ops' = [ops EXCEPT ![o] = [NoOp EXCEPT !.at = "ended"]]

Begins(kind, at, token, login) ==
    /\ begun < MaxOps /\ begun' = begun + 1
    /\ ops' = [ops EXCEPT ![begun + 1] = [kind |-> kind, at |-> at, token |-> token,
                                          login |-> login]]

Unbegun(l) == /\ code[l] = "none" /\ \A k \in Logins : k < l => code[k] # "none"

\* bearerToken: a token that is due is refreshed, and what the refresh returns is used
\* as it is.  RefreshDue would refresh every row, but nothing starts the RefreshWorker.
BearerToken ==
    /\ row # None
    /\ IF row.due THEN Begins("request", "load", row, 0)
                  ELSE Begins("request", "use", row, 0)
    /\ UNCHANGED <<row, rotates, pending, code, live, exchanges, buried, faults>>

\* Manager.Refresh and Revoke begin with loadToken; a token without a refresh token
\* cannot be refreshed.
BeginManager ==
    /\ row # None
    /\ \/ row.refresh # 0 /\ Begins("refresh", "post", row, 0)
       \/ Begins("revoke", "post", row, 0)
    /\ UNCHANGED <<row, rotates, pending, code, live, exchanges, buried, faults>>

\* An operation has a token of grant g to refresh or to store.
UnderWay(o, g) ==
    /\ ops[o].at = "store" \/ (ops[o].at = "post" /\ ops[o].kind # "revoke")
    /\ ops[o].token.grant = g

\* The row is deleted, for good unless a token of its grant is under way.
Bury ==
    /\ row' = None
    /\ buried' = buried \union
           {g \in Grants : /\ row # None /\ row.grant = g
                          /\ \A o \in Ops : ~UnderWay(o, g)}

\* adminCredentialService.Delete
DeleteCredential ==
    /\ row # None /\ Bury
    /\ UNCHANGED <<rotates, ops, begun, pending, code, live, exchanges, faults>>

\* BootstrapBrowser and BootstrapDevice: one call does the whole login.
BeginCommand ==
    \E l \in Logins :
        /\ Unbegun(l)
        /\ Begins("cli", "waiting", None, l) \/ Begins("device", "poll", None, l)
        /\ code' = [code EXCEPT ![l] = "begun"]
        /\ UNCHANGED <<rotates, row, pending, live, exchanges, buried, faults>>

\* BeginBrowser: the admin keeps the state and the verifier for the callback.
OAuthBootstrap ==
    \E l \in Logins :
        /\ Unbegun(l)
        /\ code' = [code EXCEPT ![l] = "begun"]
        /\ pending' = [pending EXCEPT ![l] = "fresh"]
        /\ UNCHANGED <<rotates, row, ops, begun, live, exchanges, buried, faults>>

\* Mutant: the pending login is removed when its code has been exchanged.
OAuthCallbackKeeping ==
    \E l \in Logins :
        /\ code[l] \in {"issued", "used"} /\ pending[l] # "none"
        /\ IF pending[l] = "fresh" THEN Begins("callback", "exchange", None, l)
                                   ELSE UNCHANGED <<ops, begun>>
        /\ pending' = [pending EXCEPT ![l] = IF @ = "old" THEN "none" ELSE @]
        /\ UNCHANGED <<row, rotates, code, live, exchanges, buried, faults>>

\* The browser comes back with a state and a code, perhaps more than once: a state
\* that is unknown or old is refused.
OAuthCallback ==
    \E l \in Logins :
        /\ code[l] \in {"issued", "used"} /\ pending[l] # "none"
        /\ IF pending[l] = "fresh" THEN Begins("callback", "exchange", None, l)
                                   ELSE UNCHANGED <<ops, begun>>
        /\ pending' = [pending EXCEPT ![l] = "none"]
        /\ UNCHANGED <<row, rotates, code, live, exchanges, buried, faults>>
-----------------------------------------------------------------------------
\* Mutant: the error of loadToken is not looked at.
LoadUnchecked(o) ==
    /\ ops[o].at = "load"
    /\ Goes(o, "post", row)
    /\ UNCHANGED <<row, rotates, begun, pending, code, live, exchanges, buried, faults>>

\* Mutant: the refresh goes on with the token bearerToken has read.
LoadNothing(o) ==
    /\ ops[o].at = "load"
    /\ IF ops[o].token.refresh = 0 THEN Ends(o) ELSE Goes(o, "post", ops[o].token)
    /\ UNCHANGED <<row, rotates, begun, pending, code, live, exchanges, buried, faults>>

\* The refresh of bearerToken loads the row again.
Load(o) ==
    /\ ops[o].at = "load"
    /\ IF row = None \/ (row # None /\ row.refresh = 0)
       THEN Ends(o) ELSE Goes(o, "post", row)
    /\ UNCHANGED <<row, rotates, begun, pending, code, live, exchanges, buried, faults>>

\* Mutant: the refresh token of the answer is not looked at.
KeepOwn(old, new) == [new EXCEPT !.refresh = old.refresh]

\* What Refresh stores: the old refresh token if the server returned none.
KeepOld(old, new) == IF new.refresh = 0 THEN [new EXCEPT !.refresh = old.refresh] ELSE new

\* The server's answer to a refresh: a new access token, and perhaps a new refresh
\* token that ends the old one; a refresh token that is not valid is refused.  The
\* server gives the lifetime: a token may be due as it comes.
Refresh(o) ==
    LET token == ops[o].token IN
    /\ ops[o].at = "post" /\ ops[o].kind # "revoke"
    /\ \/ /\ live[token.grant] = token.refresh
          /\ LET serial == IF rotates THEN token.refresh + 1 ELSE 0
                 new(due) == [grant |-> token.grant, refresh |-> serial, due |-> due]
             IN
             /\ live' = [live EXCEPT ![token.grant] = IF rotates THEN serial ELSE @]
             /\ \/ /\ \E due \in BOOLEAN : Goes(o, "store", KeepOld(token, new(due)))
                   /\ UNCHANGED faults
                \/ Ends(o) /\ Fault        \* the reply is lost
       \/ /\ live[token.grant] # token.refresh
          /\ Ends(o) /\ UNCHANGED <<rotates, live, faults>>
       \/ Ends(o) /\ Fault /\ UNCHANGED live
    /\ UNCHANGED <<rotates, row, begun, pending, code, exchanges, buried>>

\* RevokeToken sends the refresh token (the access token when there is none) and
\* ends the grant, unless the provider has no revoke_url; then the row is deleted.
Revoke(o) ==
    /\ ops[o].at = "post" /\ ops[o].kind = "revoke"
    /\ \/ /\ live' = [live EXCEPT ![ops[o].token.grant] = 0]
          /\ \/ Goes(o, "delete", None) /\ UNCHANGED faults
             \/ Ends(o) /\ Fault
       \/ Goes(o, "delete", None) /\ UNCHANGED <<live, faults>>
       \/ Ends(o) /\ Fault /\ UNCHANGED live
    /\ UNCHANGED <<rotates, row, begun, pending, code, exchanges, buried>>

\* The callback server of BootstrapBrowser: the first request decides, also one
\* with another state or an error.
CliCallback(o) ==
    /\ ops[o].at = "waiting"
    /\ \/ code[ops[o].login] = "issued" /\ Goes(o, "exchange", None) /\ UNCHANGED faults
       \/ Ends(o) /\ Fault
    /\ UNCHANGED <<rotates, row, begun, pending, code, live, exchanges, buried>>

NewGrant(l, serial, due) == [grant |-> l, refresh |-> serial, due |-> due]

\* ExchangeCode: a code is good once.
Exchange(o) ==
    LET l == ops[o].login IN
    /\ ops[o].at = "exchange"
    /\ exchanges' = [exchanges EXCEPT ![l] = @ + 1]
    /\ \/ /\ code[l] = "issued"
          /\ code' = [code EXCEPT ![l] = "used"]
          /\ \E serial \in {0, 1}, due \in BOOLEAN :
              /\ live' = [live EXCEPT ![l] = serial]
              /\ \/ Goes(o, "store", NewGrant(l, serial, due)) /\ UNCHANGED faults
                 \/ Ends(o) /\ Fault
       \/ /\ code[l] # "issued"
          /\ Ends(o) /\ UNCHANGED <<rotates, code, live, faults>>
       \/ Ends(o) /\ Fault /\ UNCHANGED <<rotates, code, live>>
    /\ UNCHANGED <<rotates, row, begun, pending, buried>>

\* Mutant: a denial is taken for a pending authorization.
PollAlways(o) ==
    LET l == ops[o].login IN
    /\ ops[o].at = "poll"
    /\ \/ code[l] \in {"begun", "denied"} /\ Goes(o, "wait", None) /\ UNCHANGED <<code, live>>
       \/ /\ code[l] = "issued"
          /\ code' = [code EXCEPT ![l] = "used"]
          /\ \E serial \in {0, 1} :
              /\ live' = [live EXCEPT ![l] = serial]
              /\ Goes(o, "store", NewGrant(l, serial, FALSE))
    /\ UNCHANGED <<rotates, row, begun, pending, exchanges, buried, faults>>

\* PollDeviceAuthorization: authorization_pending, slow_down and temporary errors
\* lead to another poll, a denial, an expired code and a broken connection end it.
Poll(o) ==
    LET l == ops[o].login IN
    /\ ops[o].at = "poll"
    /\ \/ code[l] = "begun" /\ Goes(o, "wait", None) /\ UNCHANGED <<code, live, faults>>
       \/ code[l] = "denied" /\ Ends(o) /\ UNCHANGED <<rotates, code, live, faults>>
       \/ /\ code[l] = "issued"
          /\ code' = [code EXCEPT ![l] = "used"]
          /\ \E serial \in {0, 1}, due \in BOOLEAN :
              /\ live' = [live EXCEPT ![l] = serial]
              /\ \/ Goes(o, "store", NewGrant(l, serial, due)) /\ UNCHANGED faults
                 \/ Ends(o) /\ Fault
       \/ /\ Goes(o, "wait", None) \/ Ends(o)
          /\ Fault /\ UNCHANGED <<rotates, code, live>>
    /\ UNCHANGED <<rotates, row, begun, pending, exchanges, buried>>

Wake(o) ==
    /\ ops[o].at = "wait"
    /\ Goes(o, "poll", None)
    /\ UNCHANGED <<rotates, row, begun, pending, code, live, exchanges, buried, faults>>

\* storeToken: vault.Put replaces the row, whatever it holds by now.
Store(o) ==
    /\ ops[o].at = "store"
    /\ \/ /\ row' = ops[o].token
          /\ IF ops[o].kind = "request" THEN Goes(o, "use", ops[o].token)
             ELSE Ends(o)
          /\ UNCHANGED faults
       \/ Ends(o) /\ Fault /\ UNCHANGED row
    /\ UNCHANGED <<rotates, begun, pending, code, live, exchanges, buried>>

Delete(o) ==
    /\ ops[o].at = "delete"
    /\ \/ Bury /\ Ends(o) /\ UNCHANGED faults
       \/ Ends(o) /\ Fault /\ UNCHANGED <<row, buried>>
    /\ UNCHANGED <<rotates, begun, pending, code, live, exchanges>>

\* do: the access token goes to the upstream.
Use(o) ==
    /\ ops[o].at = "use"
    /\ Ends(o)
    /\ UNCHANGED <<rotates, row, begun, pending, code, live, exchanges, buried, faults>>
-----------------------------------------------------------------------------
(* The user, the passing of time, and the end of the process.              *)

\* The user consents, or denies, or lets a device code expire.
Decide(l) ==
    /\ code[l] = "begun"
    /\ \/ code' = [code EXCEPT ![l] = "issued"]
       \/ code' = [code EXCEPT ![l] = "denied"]
    /\ UNCHANGED <<rotates, row, ops, begun, pending, live, exchanges, buried, faults>>

\* The token comes within refreshSkew of its end.
Due ==
    /\ row # None /\ ~row.due
    /\ row' = [row EXCEPT !.due = TRUE]
    /\ UNCHANGED <<rotates, ops, begun, pending, code, live, exchanges, buried, faults>>

Ages(l) ==
    /\ pending[l] = "fresh"
    /\ pending' = [pending EXCEPT ![l] = "old"]
    /\ UNCHANGED <<rotates, row, ops, begun, code, live, exchanges, buried, faults>>

Running(o) == ops[o].at \notin {"none", "ended"}

Crash ==
    /\ Fault
    /\ ops' = [o \in Ops |-> IF Running(o) THEN [NoOp EXCEPT !.at = "ended"] ELSE ops[o]]
    /\ pending' = [l \in Logins |-> "none"]
    /\ UNCHANGED <<rotates, row, begun, code, live, exchanges, buried>>
-----------------------------------------------------------------------------
Step(o) ==
    \/ Load(o) \/ Refresh(o) \/ Revoke(o) \/ CliCallback(o)
    \/ Exchange(o) \/ Poll(o) \/ Wake(o) \/ Store(o) \/ Delete(o) \/ Use(o)

Next ==
    \/ BearerToken \/ BeginManager \/ DeleteCredential
    \/ BeginCommand \/ OAuthBootstrap \/ OAuthCallback
    \/ \E o \in Ops : Step(o)
    \/ \E l \in Logins : Decide(l) \/ Ages(l)
    \/ Due \/ Crash

\* Operations go on, and the authorization server decides or lets the code expire.
Fairness ==
    /\ \A o \in Ops : WF_vars(Step(o))
    /\ \A l \in Logins : WF_vars(Decide(l))

Spec == Init /\ [][Next]_vars /\ Fairness
-----------------------------------------------------------------------------
TypeOK ==
    /\ row \in Token \union {None}
    /\ ops \in [Ops -> [kind : Kinds, at : Places, token : Token \union {None},
                        login : Grants]]
    /\ \A o \in Ops : ops[o].at \in {"post", "store", "use"} => ops[o].token # None
    /\ begun \in 0 .. MaxOps /\ faults \in 0 .. MaxFaults
    /\ pending \in [Logins -> {"none", "fresh", "old"}]
    /\ code \in [Logins -> {"none", "begun", "issued", "denied", "used"}]
    /\ rotates \in BOOLEAN /\ live \in [Grants -> Serials]
    /\ exchanges \in [Logins -> Nat] /\ buried \subseteq Grants

\* The code of a login goes to the token endpoint once, however often the browser
\* comes back with it, at the same time or later.
CodeIsSentOnce == \A l \in Logins : exchanges[l] <= 1

\* A credential that an admin deletes or revokes stays deleted, whatever refreshes,
\* requests and callbacks began before or begin later, unless a refresh or a login
\* that had its token already in hand stores it after the deletion.
DeletedStaysDeleted == \A g \in buried : row = None \/ row.grant # g

\* The token with the refresh token of g the server accepts is in the vault, or an
\* operation is about to store it.
Kept(g) ==
    LET kept(token) == token # None /\ token.grant = g /\ token.refresh = live[g] IN
    live[g] = 0 \/ kept(row) \/ \E o \in Ops : ops[o].at = "store" /\ kept(ops[o].token)

\* However refreshes of one credential overlap, the refresh token that is valid is not
\* lost, whether the server rotates refresh tokens or not: that takes a fault, a row
\* that is deleted, or the token of another login.  (It is lost when the server rotates
\* only sometimes: the refresh that kept the old token may store it last.)
ValidRefreshTokenIsKept ==
    [][\A g \in Grants : Kept(g) =>
          \/ Kept(g)'
          \/ faults' # faults
          \/ row # None /\ row' = None
          \/ row' # None /\ row'.grant # g]_vars

\* A device login ends, however often the server asks to wait.  An operation logs in
\* once, so it is enough that again and again none polls.
DeviceLoginEnds ==
    []<>(\A o \in Ops : ops[o].at \notin {"poll", "wait"})
=============================================================================
