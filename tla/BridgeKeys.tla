----------------------------- MODULE BridgeKeys -----------------------------
(***************************************************************************)
(* internal/auth: bridge keys live in SQLite; BridgeKeyStore.Validate      *)
(* looks them up through an LRU cache with a time to live, and the ingress *)
(* closures of ServeConfig keep the last validated row of a key in a       *)
(* sync.Map from which the limits of a request are read.  The admin API    *)
(* and the CLI change the rows while requests are being validated.  A step *)
(* is one SQL statement, one method call on a cache, or time passing.      *)
(***************************************************************************)
EXTENDS Integers, Sequences, FiniteSets

CONSTANTS
    Keys,       \* bridge keys: a key stands for its ID, token and hash
    Settings,   \* what a row holds besides revoked_at: scopes, budgets, limits
    Requests,   \* ingress requests being served
    Admins,     \* admin API calls and CLI processes
    CacheSize,  \* Cache.max
    TTL,        \* Cache.ttl, in ticks
    Patience,   \* ticks a request may take from its SELECT to its cache.Put
    None        \* "no value"

Row == [live : BOOLEAN, settings : Settings]

ASSUME BridgeKeysAssumption ==
    /\ CacheSize \in Nat \ {0}
    /\ TTL \in Nat \ {0}
    /\ Patience \in Nat
    /\ None \notin Row \union Settings \union Keys \union BOOLEAN
    /\ None \notin [settings : Settings, age : Nat]

VARIABLES
    row,      \* row[k]: the row of table bridge_keys, or None
    phase,    \* phase[k]: has k been created, and deleted?
    items,    \* items[k]: Cache.items, the cached entry or None
    entries,  \* Cache.entries: keys, the most recently used first
    latest,   \* latest[k]: keyCache of ServeConfig
    req,      \* req[r]: the locals of a request being validated
    admin,    \* admin[a]: the locals of an admin call
    gone      \* gone[k][x]: ticks since row k was live with settings x

vars == <<row, phase, items, entries, latest, req, admin, gone>>

\* The longest an accepted key may have been revoked; gone stops there.
Window == TTL + Patience

Entry == [settings : Settings, age : 0 .. TTL]
Patches == [settings : Settings \union {None}, revoked : BOOLEAN \union {None}]

Live(k, x) == row[k] = [live |-> TRUE, settings |-> x]
-----------------------------------------------------------------------------
(* Cache (cache.go): every method holds the mutex.                         *)

\* The list without the element of k: entries.Remove, half of MoveToFront.
Without(seq, k) ==
    IF \E i \in DOMAIN seq : seq[i] = k
    THEN LET i == CHOOSE n \in DOMAIN seq : seq[n] = k
         IN  [n \in 1 .. Len(seq) - 1 |-> IF n < i THEN seq[n] ELSE seq[n + 1]]
    ELSE seq

\* Get: an entry whose time is over is removed.  A hit moves the key to the
\* front and leaves expiresAt alone.
Hit(k) == items[k] # None /\ items[k].age < TTL

\* Mutant: a hit renews the entry.
CacheGetRenewing(k) ==
    /\ items' = IF Hit(k) THEN [items EXCEPT ![k].age = 0]
                ELSE [items EXCEPT ![k] = None]
    /\ entries' = IF Hit(k) THEN <<k>> \o Without(entries, k)
                  ELSE Without(entries, k)
CacheGet(k) ==
    /\ items' = IF Hit(k) THEN items ELSE [items EXCEPT ![k] = None]
    /\ entries' = IF Hit(k) THEN <<k>> \o Without(entries, k)
                  ELSE Without(entries, k)

\* Mutant: Put does not look for an entry of the same hash.
CachePutTwice(k, x) ==
    /\ items' = [items EXCEPT ![k] = [settings |-> x, age |-> 0]]
    /\ entries' = IF Len(entries) < CacheSize THEN <<k>> \o entries
                  ELSE <<k>> \o SubSeq(entries, 1, CacheSize - 1)

\* Put: replace the entry of k, or push a new one and evict the last.
CachePut(k, x) ==
    LET entry == [settings |-> x, age |-> 0]
        list == <<k>> \o Without(entries, k)
        last == list[Len(list)]
    IN  IF Len(list) <= CacheSize
        THEN /\ items' = [items EXCEPT ![k] = entry]
             /\ entries' = list
        ELSE /\ items' = [items EXCEPT ![k] = entry, ![last] = None]
             /\ entries' = SubSeq(list, 1, Len(list) - 1)
-----------------------------------------------------------------------------
(* Requests: Validate (bridgekey.go), then the closures of ServeConfig.    *)

Places == {"idle", "lookup", "fill", "accepted", "limit", "budget", "admitted"}

RequestRecord ==
    [at : Places,
     key : Keys \union {None},
     settings : Settings \union {None},  \* of the row Validate returns
     limits : Settings \union {None},    \* of the row the limits come from
     waited : 0 .. Patience]             \* ticks since the SELECT

Idle == [at |-> "idle", key |-> None, settings |-> None, limits |-> None,
         waited |-> 0]

\* An admin call between its SELECT and its Put holds the row it will write.
AdminRecord == [key : Keys \union {None}, row : Row \union {None}]

NoCall == [key |-> None, row |-> None]

Init ==
    /\ row = [k \in Keys |-> None]
    /\ phase = [k \in Keys |-> "unborn"]
    /\ items = [k \in Keys |-> None]
    /\ entries = <<>>
    /\ latest = [k \in Keys |-> None]
    /\ req = [r \in Requests |-> Idle]
    /\ admin = [a \in Admins |-> NoCall]
    /\ gone = [k \in Keys |-> [x \in Settings |-> Window]]

\* Validate asks the cache.  Only the token of k has the hash of k, so that
\* the prefix of a cached row is always the one of the token.
Validate(r, k) ==
    /\ req[r].at = "idle"
    /\ CacheGet(k)
    /\ req' = [req EXCEPT ![r] =
                 IF Hit(k)
                 THEN [Idle EXCEPT !.at = "accepted", !.key = k,
                                   !.settings = items[k].settings]
                 ELSE [Idle EXCEPT !.at = "lookup", !.key = k]]
    /\ UNCHANGED <<row, phase, latest, admin, gone>>

\* Mutant: GetByHash without "revoked_at IS NULL".
LookupAny(r) ==
    /\ req[r].at = "lookup"
    /\ req' = [req EXCEPT ![r] =
                 IF row[req[r].key] # None
                 THEN [@ EXCEPT !.at = "fill", !.settings = row[req[r].key].settings]
                 ELSE Idle]
    /\ UNCHANGED <<row, phase, items, entries, latest, admin, gone>>

\* repo.GetByHash: SELECT ... AND revoked_at IS NULL; anything else, also a
\* database error, refuses the request.
Lookup(r) ==
    /\ req[r].at = "lookup"
    /\ \E found \in {row[req[r].key], None} :
         req' = [req EXCEPT ![r] =
                   IF found # None /\ found.live
                   THEN [@ EXCEPT !.at = "fill", !.settings = found.settings]
                   ELSE Idle]
    /\ UNCHANGED <<row, phase, items, entries, latest, admin, gone>>

Fill(r) ==
    /\ req[r].at = "fill"
    /\ CachePut(req[r].key, req[r].settings)
    /\ req' = [req EXCEPT ![r].at = "accepted", ![r].waited = 0]
    /\ UNCHANGED <<row, phase, latest, admin, gone>>

\* Mutant: LoadOrStore.
RememberFirst(r) ==
    /\ req[r].at = "accepted"
    /\ latest' = [latest EXCEPT ![req[r].key] = IF @ = None THEN req[r].settings ELSE @]
    /\ req' = [req EXCEPT ![r].at = "limit"]
    /\ UNCHANGED <<row, phase, items, entries, admin, gone>>

\* keyCache.Store(key.ID, *key); MarkUsed writes only last_used_at.
Remember(r) ==
    /\ req[r].at = "accepted"
    /\ latest' = [latest EXCEPT ![req[r].key] = req[r].settings]
    /\ req' = [req EXCEPT ![r].at = "limit"]
    /\ UNCHANGED <<row, phase, items, entries, admin, gone>>

\* cachedBridgeKey(&keyCache, keyID), for the rate limit and then the budget.
LoadLimits(r) ==
    /\ req[r].at \in {"limit", "budget"}
    /\ req' = [req EXCEPT ![r].at = IF @ = "limit" THEN "budget" ELSE "admitted",
                          ![r].limits = latest[req[r].key]]
    /\ UNCHANGED <<row, phase, items, entries, latest, admin, gone>>

\* The request has been served, or refused after its limits were read, or its
\* body was not accepted.
Leave(r) ==
    /\ req[r].at \in {"budget", "admitted"}
    /\ req' = [req EXCEPT ![r] = Idle]
    /\ UNCHANGED <<row, phase, items, entries, latest, admin, gone>>
-----------------------------------------------------------------------------
(* The admin API (admin_services.go) and the CLI (keys.go).                *)

\* The row of k changes: settings that are no longer live start to be gone.
Write(k, new) ==
    /\ row' = [row EXCEPT ![k] = new]
    /\ gone' = [gone EXCEPT ![k] =
                  [x \in Settings |->
                     IF new = [live |-> TRUE, settings |-> x] THEN 0 ELSE @[x]]]

\* adminKeyService.Create, KeysCreateStored: a fresh random token and ID.
Create(k, x) ==
    /\ phase[k] = "unborn"
    /\ phase' = [phase EXCEPT ![k] = "created"]
    /\ Write(k, [live |-> TRUE, settings |-> x])
    /\ UNCHANGED <<items, entries, latest, req, admin>>

Patched(old, patch) ==
    [live |-> IF patch.revoked = None THEN old.live ELSE ~patch.revoked,
     settings |-> IF patch.settings = None THEN old.settings ELSE patch.settings]

\* adminKeyService.Patch and KeysRevokeStored read the whole row, change their
\* copy of it ...
PatchReads(a, k, patch) ==
    /\ admin[a] = NoCall
    /\ row[k] # None
    /\ admin' = [admin EXCEPT ![a] = [key |-> k, row |-> Patched(row[k], patch)]]
    /\ UNCHANGED <<row, phase, items, entries, latest, req, gone>>

\* ... and Put it back whole: INSERT ... ON CONFLICT(id) DO UPDATE.
PatchWrites(a) ==
    /\ admin[a] # NoCall
    /\ Write(admin[a].key, admin[a].row)
    /\ admin' = [admin EXCEPT ![a] = NoCall]
    /\ UNCHANGED <<phase, items, entries, latest, req>>

\* The Put fails, or the process of the call ends before it.
PatchFails(a) ==
    /\ admin[a] # NoCall
    /\ admin' = [admin EXCEPT ![a] = NoCall]
    /\ UNCHANGED <<row, phase, items, entries, latest, req, gone>>

\* adminKeyService.Delete: DELETE FROM bridge_keys WHERE id = ?
Delete(k) ==
    /\ phase[k] = "created"
    /\ phase' = [phase EXCEPT ![k] = "deleted"]
    /\ Write(k, None)
    /\ UNCHANGED <<items, entries, latest, req, admin>>
-----------------------------------------------------------------------------
UpTo(bound, n) == IF n < bound THEN n ELSE bound

\* A tick.  No request sits longer than Patience between SELECT and Put.
Tick ==
    /\ \A r \in Requests : req[r].at = "fill" => req[r].waited < Patience
    /\ req' = [r \in Requests |->
                 IF req[r].at = "fill" THEN [req[r] EXCEPT !.waited = @ + 1]
                 ELSE req[r]]
    /\ items' = [k \in Keys |->
                   IF items[k] = None THEN None
                   ELSE [items[k] EXCEPT !.age = UpTo(TTL, @ + 1)]]
    /\ gone' = [k \in Keys |-> [x \in Settings |->
                  IF Live(k, x) THEN 0 ELSE UpTo(Window, gone[k][x] + 1)]]
    /\ UNCHANGED <<row, phase, entries, latest, admin>>

Serving(r) ==
    \/ Lookup(r)
    \/ Fill(r)
    \/ Remember(r)
    \/ LoadLimits(r)
    \/ Leave(r)

Next ==
    \/ \E r \in Requests, k \in Keys : Validate(r, k)
    \/ \E r \in Requests : Serving(r)
    \/ \E k \in Keys, x \in Settings : Create(k, x)
    \/ \E a \in Admins, k \in Keys, patch \in Patches : PatchReads(a, k, patch)
    \/ \E a \in Admins : PatchWrites(a)
    \/ \E a \in Admins : PatchFails(a)
    \/ \E k \in Keys : Delete(k)
    \/ Tick

SafetySpec == Init /\ [][Next]_vars

\* Goroutines are scheduled and time passes.
Spec ==
    /\ SafetySpec
    /\ \A r \in Requests : WF_vars(Serving(r))
    /\ WF_vars(Tick)
-----------------------------------------------------------------------------
(* Properties.                                                             *)

\* The two halves of the cache agree: the list holds each cached key once, and
\* never more than CacheSize of them.
CacheOK ==
    /\ entries \in Seq(Keys)
    /\ Len(entries) <= CacheSize
    /\ \A i, j \in DOMAIN entries : entries[i] = entries[j] => i = j
    /\ \A k \in Keys : (items[k] # None) = (\E i \in DOMAIN entries : entries[i] = k)

TypeOK ==
    /\ row \in [Keys -> Row \union {None}]
    /\ phase \in [Keys -> {"unborn", "created", "deleted"}]
    /\ items \in [Keys -> Entry \union {None}]
    /\ latest \in [Keys -> Settings \union {None}]
    /\ req \in [Requests -> RequestRecord]
    /\ admin \in [Admins -> AdminRecord]
    /\ gone \in [Keys -> [Settings -> 0 .. Window]]
    /\ CacheOK

\* What Validate returns is never older than the time to live plus the time a
\* request takes to put a row it has read into the cache: when a key is
\* accepted, its row was live with exactly these settings less than Window ago,
\* however hits, evictions, fills and admin calls interleave.
StalenessBounded ==
    [][\A r \in Requests :
         (req[r].at # "accepted" /\ req'[r].at = "accepted") =>
            gone[req'[r].key][req'[r].settings] < Window]_vars

\* When a row stops changing, requests are limited by it from some time on:
\* neither the cache nor keyCache, whose last writer may hold an older row,
\* keeps old settings in use.
SettingsTakeHold ==
    \A k \in Keys, x \in Settings :
        <>[]Live(k, x) =>
            <>[](\A r \in Requests :
                    (req[r].at = "admitted" /\ req[r].key = k) => req[r].limits = x)

\* When a key is revoked or deleted for good, it is refused from some time on.
RevocationTakesHold ==
    \A k \in Keys :
        <>[](\A x \in Settings : ~Live(k, x)) =>
            <>[](\A r \in Requests : ~(req[r].at = "admitted" /\ req[r].key = k))
=============================================================================
