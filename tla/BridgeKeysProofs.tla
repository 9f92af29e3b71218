-------------------------- MODULE BridgeKeysProofs --------------------------
(***************************************************************************)
(* StalenessBounded for every number of keys, requests and admin calls,    *)
(* every cache size, time to live and patience.  The argument: settings    *)
(* are gone for at most as long as the request that read them has waited,  *)
(* and a cached entry adds its age to the Patience of the request that put *)
(* it there, which only holds because a hit does not renew the entry.      *)
(***************************************************************************)
EXTENDS BridgeKeys, SequenceTheorems, TLAPS

\* The types of the state the argument speaks of.
Types ==
    /\ row \in [Keys -> Row \union {None}]
    /\ items \in [Keys -> Entry \union {None}]
    /\ gone \in [Keys -> [Settings -> 0 .. Window]]
    /\ latest \in [Keys -> Settings \union {None}]
    /\ req \in [Requests -> RequestRecord]
    /\ admin \in [Admins -> AdminRecord]
    /\ \A r \in Requests :
         /\ req[r].at # "idle" => req[r].key \in Keys
         /\ req[r].at \notin {"idle", "lookup"} => req[r].settings \in Settings
    /\ \A a \in Admins : admin[a] # NoCall =>
                            admin[a].key \in Keys /\ admin[a].row \in Row

\* A live row is not gone.
LiveIsNow == \A k \in Keys, x \in Settings : Live(k, x) => gone[k][x] = 0

\* A row that was read has been gone for no longer than its reader waits.
ReadsRecent ==
    \A r \in Requests :
        req[r].at = "fill" => gone[req[r].key][req[r].settings] <= req[r].waited

\* A cached row has been gone for no longer than it is old, plus Patience.
EntriesRecent ==
    \A k \in Keys :
        items[k] # None => gone[k][items[k].settings] <= items[k].age + Patience

IInv == Types /\ LiveIsNow /\ ReadsRecent /\ EntriesRecent
-----------------------------------------------------------------------------
LEMMA InitInv == Init => IInv
<1>. SUFFICES ASSUME Init PROVE IInv
  OBVIOUS
<1>1. Window \in Nat
  BY BridgeKeysAssumption DEF Window
<1>2. Idle \in RequestRecord
  BY BridgeKeysAssumption DEF Idle, RequestRecord, Places
<1>3. NoCall \in AdminRecord
  BY DEF NoCall, AdminRecord
<1>4. Types
  BY <1>1, <1>2, <1>3 DEF Init, Types, Idle
<1>5. QED
  <2>1. \A x \in Settings : [live |-> TRUE, settings |-> x] \in Row
    BY DEF Row
  <2>2. LiveIsNow
    BY <2>1, BridgeKeysAssumption DEF Init, LiveIsNow, Live
  <2>3. QED
    BY <1>4, <2>2 DEF Init, IInv, ReadsRecent, EntriesRecent, Idle
-----------------------------------------------------------------------------
(* The caches.                                                             *)

\* Get at most removes the entry of its key.
LEMMA GetItems ==
    ASSUME Types, NEW k \in Keys, CacheGet(k)
    PROVE  /\ items' \in [Keys -> Entry \union {None}]
           /\ \A j \in Keys : items'[j] \in {items[j], None}
BY DEF CacheGet, Types

\* Put leaves a new entry for its key, and at most removes others.
LEMMA PutItems ==
    ASSUME Types, NEW k \in Keys, NEW x \in Settings, CachePut(k, x)
    PROVE  /\ items' \in [Keys -> Entry \union {None}]
           /\ \A j \in Keys :
                \/ items'[j] \in {items[j], None}
                \/ j = k /\ items'[j] = [settings |-> x, age |-> 0]
<1>. DEFINE entry == [settings |-> x, age |-> 0]
            list == <<k>> \o Without(entries, k)
            last == list[Len(list)]
<1>1. \/ items' = [items EXCEPT ![k] = entry]
      \/ items' = [items EXCEPT ![k] = entry, ![last] = None]
  BY DEF CachePut
<1>2. entry \in Entry
  BY BridgeKeysAssumption DEF Entry
<1>. HIDE DEF last, entry
<1>3. items' \in [Keys -> Entry \union {None}]
  BY <1>1, <1>2 DEF Types
<1>4. \A j \in Keys : \/ items'[j] \in {items[j], None}
                      \/ j = k /\ items'[j] = entry
  BY <1>1 DEF Types
<1>5. QED
  BY <1>3, <1>4 DEF entry
-----------------------------------------------------------------------------
(* Requests.                                                               *)

\* A step of one request that leaves rows and cached entries alone, except for
\* entries it removes.
LEMMA RequestStep ==
    ASSUME IInv, NEW r \in Requests, NEW q \in RequestRecord,
           req' = [req EXCEPT ![r] = q],
           q.at # "idle" => q.key \in Keys,
           q.at \notin {"idle", "lookup"} => q.settings \in Settings,
           q.at = "fill" => gone[q.key][q.settings] <= q.waited,
           items' \in [Keys -> Entry \union {None}],
           \A k \in Keys : items'[k] \in {items[k], None},
           latest' \in [Keys -> Settings \union {None}],
           UNCHANGED <<row, admin, gone>>
    PROVE  IInv'
<1>1. \A s \in Requests : req'[s] = IF s = r THEN q ELSE req[s]
  BY DEF IInv, Types
<1>2. req' \in [Requests -> RequestRecord]
  BY DEF IInv, Types
<1>3. Types'
  BY <1>1, <1>2 DEF IInv, Types
<1>4. LiveIsNow'
  BY DEF IInv, LiveIsNow, Live
<1>5. ReadsRecent'
  BY <1>1 DEF IInv, ReadsRecent
<1>6. EntriesRecent'
  BY DEF IInv, EntriesRecent
<1>7. QED
  BY <1>3, <1>4, <1>5, <1>6 DEF IInv

LEMMA IdleType == Idle \in RequestRecord /\ Idle.at = "idle"
BY BridgeKeysAssumption DEF Idle, RequestRecord, Places

LEMMA ValidateInv ==
    ASSUME IInv, NEW r \in Requests, NEW k \in Keys, Validate(r, k)
    PROVE  IInv'
<1>1. /\ items' \in [Keys -> Entry \union {None}]
      /\ \A j \in Keys : items'[j] \in {items[j], None}
  BY GetItems DEF Validate, IInv
<1>2. CASE Hit(k)
  <2>. DEFINE x == items[k].settings
              q == [Idle EXCEPT !.at = "accepted", !.key = k, !.settings = x]
  <2>1. x \in Settings
    BY <1>2 DEF Hit, IInv, Types, Entry
  <2>2. req' = [req EXCEPT ![r] = q]
    BY <1>2 DEF Validate
  <2>. HIDE DEF x
  <2>3. q \in RequestRecord /\ q.at = "accepted" /\ q.key = k /\ q.settings = x
    BY <2>1, IdleType DEF RequestRecord, Places
  <2>. HIDE DEF q
  <2>4. QED
    BY <1>1, <2>1, <2>2, <2>3, RequestStep DEF Validate, IInv, Types
<1>3. CASE ~Hit(k)
  <2>. DEFINE q == [Idle EXCEPT !.at = "lookup", !.key = k]
  <2>1. q \in RequestRecord /\ q.at = "lookup" /\ q.key = k
    BY IdleType DEF RequestRecord, Places
  <2>2. req' = [req EXCEPT ![r] = q]
    BY <1>3 DEF Validate
  <2>. HIDE DEF q
  <2>3. QED
    BY <1>1, <2>1, <2>2, RequestStep DEF Validate, IInv, Types
<1>4. QED
  BY <1>2, <1>3

LEMMA LookupInv ==
    ASSUME IInv, NEW r \in Requests, Lookup(r)
    PROVE  IInv'
<1>1. /\ req[r].at = "lookup" /\ req[r].key \in Keys /\ req[r] \in RequestRecord
      /\ req[r].waited \in Nat
      /\ items \in [Keys -> Entry \union {None}]
  BY BridgeKeysAssumption DEF Lookup, IInv, Types, RequestRecord
<1>2. PICK found \in {row[req[r].key], None} :
        req' = [req EXCEPT ![r] =
                  IF found # None /\ found.live
                  THEN [@ EXCEPT !.at = "fill", !.settings = found.settings]
                  ELSE Idle]
  BY DEF Lookup
<1>3. CASE found # None /\ found.live
  <2>. DEFINE x == found.settings
              q == [req[r] EXCEPT !.at = "fill", !.settings = x]
  <2>1. found \in Row /\ found = row[req[r].key]
    BY <1>1, <1>2, <1>3 DEF IInv, Types
  <2>2. x \in Settings /\ found = [live |-> TRUE, settings |-> x]
    BY <1>3, <2>1 DEF Row
  <2>3. gone[req[r].key][x] = 0
    BY <1>1, <2>1, <2>2 DEF IInv, LiveIsNow, Live
  <2>4. req' = [req EXCEPT ![r] = q]
    BY <1>2, <1>3
  <2>. HIDE DEF x
  <2>5. /\ q \in RequestRecord /\ q.at = "fill" /\ q.key = req[r].key
        /\ q.settings = x /\ q.waited = req[r].waited
    BY <1>1, <2>2 DEF RequestRecord, Places
  <2>6. gone[q.key][q.settings] <= q.waited
    BY <1>1, <2>3, <2>5
  <2>. HIDE DEF q
  <2>7. QED
    BY <1>1, <2>2, <2>4, <2>5, <2>6, RequestStep DEF Lookup, IInv, Types
<1>4. CASE ~(found # None /\ found.live)
  <2>1. req' = [req EXCEPT ![r] = Idle]
    BY <1>2, <1>4
  <2>2. QED
    BY <1>1, <2>1, IdleType, RequestStep DEF Lookup, IInv, Types
<1>5. QED
  BY <1>3, <1>4

LEMMA FillInv ==
    ASSUME IInv, NEW r \in Requests, Fill(r)
    PROVE  IInv'
<1>. DEFINE q == [req[r] EXCEPT !.at = "accepted", !.waited = 0]
            k == req[r].key
            x == req[r].settings
<1>1. /\ k \in Keys /\ x \in Settings /\ gone[k][x] <= req[r].waited
      /\ req[r].waited \in 0 .. Patience /\ req[r] \in RequestRecord
  BY DEF Fill, IInv, Types, ReadsRecent, RequestRecord
<1>2. /\ items' \in [Keys -> Entry \union {None}]
      /\ \A j \in Keys :
           \/ items'[j] \in {items[j], None}
           \/ j = k /\ items'[j] = [settings |-> x, age |-> 0]
  BY <1>1, PutItems DEF Fill, IInv
<1>3. /\ q \in RequestRecord /\ q.at = "accepted" /\ q.key = k /\ q.settings = x
  <2>1. 0 \in 0 .. Patience
    BY BridgeKeysAssumption
  <2>2. QED
    BY <1>1, <2>1 DEF RequestRecord, Places
<1>4. req' = [req EXCEPT ![r] = q]
  BY DEF Fill, IInv, Types
<1>5. gone[k][x] \in Nat /\ gone[k][x] <= Patience
  BY <1>1, BridgeKeysAssumption DEF IInv, Types, Window
<1>. HIDE DEF q, k, x
<1>6. \A s \in Requests : req'[s] = IF s = r THEN q ELSE req[s]
  BY <1>4 DEF IInv, Types
<1>7. req' \in [Requests -> RequestRecord]
  BY <1>3, <1>4 DEF IInv, Types
<1>8. UNCHANGED <<row, latest, admin, gone>>
  BY DEF Fill
<1>9. Types'
  BY <1>1, <1>2, <1>3, <1>6, <1>7, <1>8 DEF IInv, Types
<1>10. LiveIsNow'
  BY <1>8 DEF IInv, LiveIsNow, Live
<1>11. ReadsRecent'
  BY <1>3, <1>6, <1>8 DEF IInv, ReadsRecent
<1>12. EntriesRecent'
  BY <1>2, <1>5, <1>8, BridgeKeysAssumption DEF IInv, EntriesRecent
<1>13. QED
  BY <1>9, <1>10, <1>11, <1>12 DEF IInv

\* The rest of a request's way changes only its place and its limits.
LEMMA OtherStepsInv ==
    ASSUME IInv, NEW r \in Requests, Remember(r) \/ LoadLimits(r) \/ Leave(r)
    PROVE  IInv'
<1>1. /\ req[r] \in RequestRecord /\ req[r].at # "idle" /\ req[r].key \in Keys
      /\ req[r].at # "lookup" /\ req[r].settings \in Settings
      /\ items \in [Keys -> Entry \union {None}]
      /\ latest \in [Keys -> Settings \union {None}]
  BY DEF Remember, LoadLimits, Leave, IInv, Types
<1>2. CASE Remember(r)
  <2>. DEFINE q == [req[r] EXCEPT !.at = "limit"]
  <2>1. /\ q \in RequestRecord /\ q.at = "limit" /\ q.key = req[r].key
        /\ q.settings = req[r].settings
    BY <1>1 DEF RequestRecord, Places
  <2>2. req' = [req EXCEPT ![r] = q]
    BY <1>2 DEF Remember
  <2>. HIDE DEF q
  <2>3. QED
    BY <1>1, <1>2, <2>1, <2>2, RequestStep DEF Remember
<1>3. CASE LoadLimits(r)
  <2>. DEFINE place == IF req[r].at = "limit" THEN "budget" ELSE "admitted"
              limits == latest[req[r].key]
              q == [req[r] EXCEPT !.at = place, !.limits = limits]
  <2>1. req' = [req EXCEPT ![r] = q]
    BY <1>3 DEF LoadLimits, IInv, Types
  <2>2. place \in {"budget", "admitted"} /\ limits \in Settings \union {None}
    BY <1>1
  <2>. HIDE DEF place, limits
  <2>3. /\ q \in RequestRecord /\ q.at = place /\ q.key = req[r].key
        /\ q.settings = req[r].settings
    BY <1>1, <2>2 DEF RequestRecord, Places
  <2>. HIDE DEF q
  <2>4. QED
    BY <1>1, <1>3, <2>1, <2>2, <2>3, RequestStep DEF LoadLimits
<1>4. CASE Leave(r)
  BY <1>1, <1>4, IdleType, RequestStep DEF Leave
<1>5. QED
  BY <1>2, <1>3, <1>4
-----------------------------------------------------------------------------
(* Admin calls.                                                            *)

\* A row that is written is not gone; every other has been as long as before.
LEMMA WriteInv ==
    ASSUME IInv, NEW k \in Keys, NEW new \in Row \union {None}, Write(k, new),
           admin' \in [Admins -> AdminRecord],
           \A a \in Admins : admin'[a] \in {admin[a], NoCall},
           UNCHANGED <<items, latest, req>>
    PROVE  IInv'
<1>. DEFINE now(x) == new = [live |-> TRUE, settings |-> x]
            since == [x \in Settings |-> IF now(x) THEN 0 ELSE gone[k][x]]
<1>1. row' = [row EXCEPT ![k] = new] /\ gone' = [gone EXCEPT ![k] = since]
  BY DEF Write, IInv, Types
<1>2. Window \in Nat
  BY BridgeKeysAssumption DEF Window
<1>3. since \in [Settings -> 0 .. Window]
  BY <1>2 DEF IInv, Types
<1>4. gone' \in [Keys -> [Settings -> 0 .. Window]]
  <2>. HIDE DEF since
  <2>1. QED
    BY <1>1, <1>3 DEF IInv, Types
<1>5. \A j \in Keys, x \in Settings : gone'[j][x] \in {gone[j][x], 0}
  BY <1>1 DEF IInv, Types
<1>6. Types'
  BY <1>1, <1>4 DEF IInv, Types
<1>7. LiveIsNow'
  <2>. SUFFICES ASSUME NEW j \in Keys, NEW x \in Settings, Live(j, x)'
                PROVE  gone'[j][x] = 0
    BY DEF LiveIsNow
  <2>1. CASE j = k
    BY <1>1, <2>1 DEF Live, IInv, Types
  <2>2. CASE j # k
    BY <1>1, <2>2 DEF Live, LiveIsNow, IInv, Types
  <2>3. QED
    BY <2>1, <2>2
<1>8. ReadsRecent'
  <2>. SUFFICES ASSUME NEW r \in Requests, req[r].at = "fill"
                PROVE  gone'[req[r].key][req[r].settings] <= req[r].waited
    BY DEF ReadsRecent
  <2>1. /\ req[r].key \in Keys /\ req[r].settings \in Settings
        /\ req[r].waited \in Nat
        /\ gone[req[r].key][req[r].settings] <= req[r].waited
    BY BridgeKeysAssumption DEF IInv, Types, ReadsRecent, RequestRecord
  <2>2. QED
    BY <1>5, <2>1
<1>9. EntriesRecent'
  <2>. SUFFICES ASSUME NEW j \in Keys, items[j] # None
                PROVE  gone'[j][items[j].settings] <= items[j].age + Patience
    BY DEF EntriesRecent
  <2>1. /\ items[j].settings \in Settings /\ items[j].age \in Nat
        /\ gone[j][items[j].settings] <= items[j].age + Patience
    BY BridgeKeysAssumption DEF IInv, Types, EntriesRecent, Entry
  <2>2. QED
    BY <1>5, <2>1, BridgeKeysAssumption
<1>10. QED
  BY <1>6, <1>7, <1>8, <1>9 DEF IInv

LEMMA AdminInv ==
    ASSUME IInv, NEW a \in Admins, NEW k \in Keys, NEW patch \in Patches,
           PatchReads(a, k, patch) \/ PatchWrites(a) \/ PatchFails(a)
    PROVE  IInv'
<1>1. NoCall \in AdminRecord
  BY DEF NoCall, AdminRecord
<1>2. CASE PatchReads(a, k, patch)
  <2>. DEFINE new == Patched(row[k], patch)
              call == [key |-> k, row |-> new]
  <2>1. row[k] \in Row
    BY <1>2 DEF PatchReads, IInv, Types
  <2>2. new \in Row
    BY <2>1 DEF Patched, Row, Patches
  <2>3. call \in AdminRecord /\ call.key \in Keys /\ call.row \in Row
    <3>. HIDE DEF new
    <3>1. QED
      BY <2>2 DEF AdminRecord
  <2>4. admin' = [admin EXCEPT ![a] = call] /\ UNCHANGED <<row, items, latest, req, gone>>
    BY <1>2 DEF PatchReads
  <2>. HIDE DEF call
  <2>5. Types'
    BY <2>3, <2>4 DEF IInv, Types
  <2>6. QED
    BY <2>4, <2>5 DEF IInv, LiveIsNow, Live, ReadsRecent, EntriesRecent
<1>3. CASE PatchWrites(a)
  <2>1. admin[a].key \in Keys /\ admin[a].row \in Row
    BY <1>3 DEF PatchWrites, IInv, Types
  <2>2. /\ admin' \in [Admins -> AdminRecord]
        /\ \A b \in Admins : admin'[b] \in {admin[b], NoCall}
    BY <1>1, <1>3 DEF PatchWrites, IInv, Types
  <2>3. QED
    BY <1>3, <2>1, <2>2, WriteInv DEF PatchWrites
<1>4. CASE PatchFails(a)
  <2>1. Types'
    BY <1>1, <1>4 DEF PatchFails, IInv, Types
  <2>2. QED
    BY <1>4, <2>1 DEF PatchFails, IInv, LiveIsNow, Live, ReadsRecent, EntriesRecent
<1>5. QED
  BY <1>2, <1>3, <1>4

LEMMA CreateDeleteInv ==
    ASSUME IInv, NEW k \in Keys,
           Delete(k) \/ \E x \in Settings : Create(k, x)
    PROVE  IInv'
<1>1. PICK new \in Row \union {None} : Write(k, new) /\ UNCHANGED <<items, latest, req, admin>>
  BY DEF Delete, Create, Row
<1>2. admin' \in [Admins -> AdminRecord]
  BY <1>1 DEF IInv, Types
<1>3. QED
  BY <1>1, <1>2, WriteInv
-----------------------------------------------------------------------------
(* Time.                                                                   *)

LEMMA UpToType ==
    ASSUME NEW bound \in Nat, NEW n \in 0 .. bound
    PROVE  /\ UpTo(bound, n + 1) \in 0 .. bound
           /\ UpTo(bound, n + 1) <= n + 1
           /\ UpTo(bound, n + 1) >= n
           /\ n < bound => UpTo(bound, n + 1) = n + 1
           /\ n = bound => UpTo(bound, n + 1) = bound
BY DEF UpTo

LEMMA TickInv ==
    ASSUME IInv, Tick
    PROVE  IInv'
<1>1. TTL \in Nat /\ Patience \in Nat /\ Window \in Nat /\ Window = TTL + Patience
  BY BridgeKeysAssumption DEF Window
<1>2. ASSUME NEW k \in Keys, NEW x \in Settings
      PROVE  /\ gone'[k][x] \in 0 .. Window
             /\ gone'[k][x] <= gone[k][x] + 1
             /\ Live(k, x)' => gone'[k][x] = 0
  <2>1. gone'[k][x] = IF Live(k, x) THEN 0 ELSE UpTo(Window, gone[k][x] + 1)
    BY DEF Tick
  <2>2. gone[k][x] \in 0 .. Window
    BY DEF IInv, Types
  <2>3. Live(k, x)' = Live(k, x)
    BY DEF Tick, Live
  <2>4. CASE Live(k, x)
    BY <1>1, <2>1, <2>2, <2>4
  <2>5. CASE ~Live(k, x)
    BY <1>1, <2>1, <2>2, <2>3, <2>5, UpToType
  <2>6. QED
    BY <2>4, <2>5
<1>3. ASSUME NEW k \in Keys, items[k] # None
      PROVE  /\ items'[k] \in Entry
             /\ items'[k].settings = items[k].settings
             /\ gone'[k][items[k].settings] <= items'[k].age + Patience
  <2>. DEFINE age == UpTo(TTL, items[k].age + 1)
  <2>1. items[k] \in Entry /\ items[k].age \in 0 .. TTL /\ items[k].settings \in Settings
    BY <1>3 DEF IInv, Types, Entry
  <2>2. items'[k] = [items[k] EXCEPT !.age = age]
    BY <1>3 DEF Tick
  <2>3. /\ age \in 0 .. TTL
        /\ items[k].age < TTL => age = items[k].age + 1
        /\ items[k].age = TTL => age = TTL
    BY <1>1, <2>1, UpToType
  <2>. HIDE DEF age
  <2>4. /\ items'[k] \in Entry /\ items'[k].age = age
        /\ items'[k].settings = items[k].settings
    BY <2>1, <2>2, <2>3 DEF Entry
  <2>5. /\ gone'[k][items[k].settings] <= gone[k][items[k].settings] + 1
        /\ gone'[k][items[k].settings] \in 0 .. Window
        /\ gone[k][items[k].settings] \in 0 .. Window
    BY <1>2, <2>1 DEF IInv, Types
  <2>6. gone[k][items[k].settings] <= items[k].age + Patience
    BY <1>3 DEF IInv, EntriesRecent
  <2>7. QED
    BY <1>1, <2>1, <2>3, <2>4, <2>5, <2>6
<1>4. ASSUME NEW r \in Requests
      PROVE  /\ req'[r] \in RequestRecord /\ req'[r].at = req[r].at
             /\ req'[r].key = req[r].key /\ req'[r].settings = req[r].settings
             /\ req[r].at = "fill" => req'[r].waited = req[r].waited + 1
  <2>1. req[r] \in RequestRecord /\ req[r].waited \in 0 .. Patience
    BY DEF IInv, Types, RequestRecord
  <2>2. CASE req[r].at = "fill"
    <3>. DEFINE n == req[r].waited + 1
    <3>1. n \in 0 .. Patience /\ req'[r] = [req[r] EXCEPT !.waited = n]
      BY <1>1, <2>1, <2>2 DEF Tick
    <3>. HIDE DEF n
    <3>2. /\ req'[r] \in RequestRecord /\ req'[r].waited = n
          /\ req'[r].at = req[r].at /\ req'[r].key = req[r].key
          /\ req'[r].settings = req[r].settings
      BY <2>1, <3>1 DEF RequestRecord
    <3>3. QED
      BY <3>2 DEF n
  <2>3. CASE req[r].at # "fill"
    BY <2>1, <2>3 DEF Tick
  <2>4. QED
    BY <2>2, <2>3
<1>5. Types'
  <2>1. gone' \in [Keys -> [Settings -> 0 .. Window]]
    BY <1>2 DEF Tick
  <2>2. items' \in [Keys -> Entry \union {None}]
    BY <1>3 DEF Tick
  <2>3. req' \in [Requests -> RequestRecord]
    BY <1>4 DEF Tick
  <2>4. QED
    BY <1>4, <2>1, <2>2, <2>3 DEF Tick, IInv, Types
<1>6. LiveIsNow'
  BY <1>2 DEF LiveIsNow
<1>7. ReadsRecent'
  <2>. SUFFICES ASSUME NEW r \in Requests, req'[r].at = "fill"
                PROVE  gone'[req'[r].key][req'[r].settings] <= req'[r].waited
    BY DEF ReadsRecent
  <2>1. /\ req[r].at = "fill" /\ req[r].key \in Keys /\ req[r].settings \in Settings
        /\ req[r].waited \in Nat
        /\ gone[req[r].key][req[r].settings] <= req[r].waited
        /\ gone[req[r].key][req[r].settings] \in 0 .. Window
    BY <1>1, <1>4 DEF IInv, Types, ReadsRecent, RequestRecord
  <2>2. gone'[req[r].key][req[r].settings] <= gone[req[r].key][req[r].settings] + 1
    BY <1>2, <2>1
  <2>3. gone'[req[r].key][req[r].settings] \in 0 .. Window
    BY <1>2, <2>1
  <2>4. QED
    BY <1>1, <1>4, <2>1, <2>2, <2>3
<1>8. EntriesRecent'
  BY <1>3 DEF EntriesRecent, Tick
<1>9. QED
  BY <1>5, <1>6, <1>7, <1>8 DEF IInv

LEMMA NextInv == IInv /\ [Next]_vars => IInv'
<1>. SUFFICES ASSUME IInv, [Next]_vars PROVE IInv'
  OBVIOUS
<1>1. CASE UNCHANGED vars
  BY <1>1 DEF vars, IInv, Types, LiveIsNow, Live, ReadsRecent, EntriesRecent
<1>2. ASSUME NEW a \in Admins, PatchWrites(a) \/ PatchFails(a)
      PROVE  IInv'
  <2>1. [settings |-> None, revoked |-> None] \in Patches
    BY DEF Patches
  <2>2. admin[a].key \in Keys
    BY <1>2 DEF PatchWrites, PatchFails, IInv, Types
  <2>3. QED
    BY <1>2, <2>1, <2>2, AdminInv
<1>3. ASSUME NEW a \in Admins, NEW k \in Keys, NEW patch \in Patches,
             PatchReads(a, k, patch)
      PROVE  IInv'
  BY <1>3, AdminInv
<1>4. ASSUME NEW r \in Requests, Serving(r)
      PROVE  IInv'
  BY <1>4, LookupInv, FillInv, OtherStepsInv DEF Serving
<1>5. QED
  BY <1>1, <1>2, <1>3, <1>4, ValidateInv, CreateDeleteInv, TickInv DEF Next

\* What a step accepts is recent: by a hit, the entry is younger than the time
\* to live; by a fill, the row was read at most Patience ago.
LEMMA AcceptsRecent ==
    ASSUME IInv, [Next]_vars, NEW r \in Requests,
           req[r].at # "accepted", req'[r].at = "accepted"
    PROVE  gone[req'[r].key][req'[r].settings] < Window
<1>1. /\ req \in [Requests -> RequestRecord]
      /\ TTL \in Nat \ {0} /\ Patience \in Nat /\ Window = TTL + Patience
  BY BridgeKeysAssumption DEF IInv, Types, Window
<1>2. CASE \E k \in Keys : Validate(r, k)
  <2>1. PICK k \in Keys : Validate(r, k)
    BY <1>2
  <2>2. /\ Hit(k)
        /\ req'[r].key = k /\ req'[r].settings = items[k].settings
    BY <1>1, <2>1, IdleType DEF Validate, Idle
  <2>3. /\ items[k] \in Entry /\ items[k].age \in 0 .. TTL /\ items[k].age < TTL
        /\ items[k].settings \in Settings
        /\ gone[k][items[k].settings] <= items[k].age + Patience
    BY <2>2 DEF Hit, IInv, Types, Entry, EntriesRecent
  <2>4. gone[k][items[k].settings] \in 0 .. Window
    BY <2>3 DEF IInv, Types
  <2>5. QED
    BY <1>1, <2>2, <2>3, <2>4
<1>3. CASE Fill(r)
  <2>1. /\ req[r].at = "fill" /\ req[r].key \in Keys /\ req[r].settings \in Settings
        /\ req[r].waited \in 0 .. Patience
        /\ gone[req[r].key][req[r].settings] <= req[r].waited
    BY <1>1, <1>3 DEF Fill, IInv, Types, ReadsRecent, RequestRecord
  <2>2. req'[r].key = req[r].key /\ req'[r].settings = req[r].settings
    BY <1>1, <1>3 DEF Fill
  <2>3. gone[req[r].key][req[r].settings] \in 0 .. Window
    BY <2>1 DEF IInv, Types
  <2>4. QED
    BY <1>1, <2>1, <2>2, <2>3
<1>4. ASSUME NEW s \in Requests, s # r, Serving(s) \/ \E k \in Keys : Validate(s, k)
      PROVE  FALSE
  BY <1>1, <1>4 DEF Serving, Lookup, Fill, Remember, LoadLimits, Leave, Validate
<1>5. ASSUME Lookup(r) \/ Remember(r) \/ LoadLimits(r) \/ Leave(r)
      PROVE  FALSE
  <2>1. Idle.at = "idle"
    BY IdleType
  <2>2. CASE Lookup(r)
    BY <1>1, <2>1, <2>2 DEF Lookup
  <2>3. CASE Remember(r)
    BY <1>1, <2>3 DEF Remember, RequestRecord
  <2>4. CASE LoadLimits(r)
    <3>1. req'[r].at \in {"budget", "admitted"}
      BY <1>1, <2>4 DEF LoadLimits, RequestRecord
    <3>2. QED
      BY <1>5, <3>1
  <2>5. CASE Leave(r)
    BY <1>1, <2>1, <2>5 DEF Leave
  <2>6. QED
    BY <1>5, <2>2, <2>3, <2>4, <2>5
<1>6. CASE Tick
  BY <1>6 DEF Tick
<1>7. CASE UNCHANGED req
  BY <1>7
<1>8. QED
  BY <1>2, <1>3, <1>4, <1>5, <1>6, <1>7
     DEF Next, Serving, Create, PatchReads, PatchWrites, PatchFails, Delete, vars

LEMMA SafetyInv == SafetySpec => []IInv
BY InitInv, NextInv, PTL DEF SafetySpec

\* A key that was revoked, deleted or given other settings stops being accepted
\* as it was after the time to live of the cache and the time of one lookup,
\* for every number of requests, admins and keys and every size of the cache.
THEOREM BridgeKeysStalenessBounded == SafetySpec => StalenessBounded
<1>1. IInv /\ [Next]_vars =>
        [\A r \in Requests :
           (req[r].at # "accepted" /\ req'[r].at = "accepted") =>
              gone[req'[r].key][req'[r].settings] < Window]_vars
  BY AcceptsRecent
<1>2. QED
  BY <1>1, SafetyInv, PTL DEF SafetySpec, StalenessBounded
-----------------------------------------------------------------------------
(* The two halves of the cache agree, and with them TypeOK.                *)

\* A list of keys that holds each key once.
Distinct(seq) ==
    /\ seq \in Seq(Keys)
    /\ \A i, j \in DOMAIN seq : seq[i] = seq[j] => i = j

In(seq, k) == \E i \in DOMAIN seq : seq[i] = k

\* Removing an element keeps the others, and one fewer of them.
LEMMA WithoutKey ==
    ASSUME NEW seq, Distinct(seq), NEW k \in Keys
    PROVE  /\ Distinct(Without(seq, k))
           /\ \A j \in Keys : In(Without(seq, k), j) = (j # k /\ In(seq, j))
           /\ Len(Without(seq, k)) = IF In(seq, k) THEN Len(seq) - 1 ELSE Len(seq)
<1>1. /\ seq \in Seq(Keys) /\ Len(seq) \in Nat /\ DOMAIN seq = 1 .. Len(seq)
      /\ \A i \in 1 .. Len(seq) : seq[i] \in Keys
      /\ \A i, j \in 1 .. Len(seq) : seq[i] = seq[j] => i = j
  BY DEF Distinct
<1>2. CASE ~In(seq, k)
  BY <1>2 DEF Without, In
<1>3. CASE In(seq, k)
  <2>. DEFINE p == CHOOSE n \in DOMAIN seq : seq[n] = k
              rest == [n \in 1 .. Len(seq) - 1 |-> IF n < p THEN seq[n] ELSE seq[n + 1]]
  <2>1. p \in 1 .. Len(seq) /\ seq[p] = k
    BY <1>1, <1>3 DEF In
  <2>2. Without(seq, k) = rest
    BY <1>3 DEF Without, In
  <2>. HIDE DEF p
  <2>3. /\ rest \in Seq(Keys) /\ Len(rest) = Len(seq) - 1
        /\ DOMAIN rest = 1 .. Len(seq) - 1
    <3>1. Len(seq) - 1 \in Nat
      BY <1>1, <2>1
    <3>2. \A n \in 1 .. Len(seq) - 1 : rest[n] \in Keys
      BY <1>1, <2>1
    <3>3. rest \in [1 .. Len(seq) - 1 -> Keys]
      BY <3>2
    <3>. HIDE DEF rest
    <3>4. QED
      BY <3>1, <3>3, IsASeq, LenProperties
  <2>4. \A n \in 1 .. Len(seq) - 1 :
          rest[n] = IF n < p THEN seq[n] ELSE seq[n + 1]
    OBVIOUS
  <2>. HIDE DEF rest
  <2>5. \A i, j \in DOMAIN rest : rest[i] = rest[j] => i = j
    BY <1>1, <2>1, <2>3, <2>4
  <2>6. ASSUME NEW j \in Keys, j # k, NEW i \in 1 .. Len(seq), seq[i] = j
        PROVE  In(rest, j)
    <3>1. CASE i < p
      BY <1>1, <2>1, <2>3, <2>4, <2>6, <3>1 DEF In
    <3>2. CASE i > p
      <4>1. i - 1 \in DOMAIN rest /\ rest[i - 1] = j
        BY <1>1, <2>1, <2>3, <2>4, <2>6, <3>2
      <4>2. QED
        BY <4>1 DEF In
    <3>3. QED
      BY <1>1, <2>1, <2>6, <3>1, <3>2
  <2>7. ASSUME NEW j \in Keys, NEW n \in DOMAIN rest, rest[n] = j
        PROVE  j # k /\ In(seq, j)
    BY <1>1, <2>1, <2>3, <2>4, <2>7 DEF In
  <2>8. \A j \in Keys : In(rest, j) = (j # k /\ In(seq, j))
    <3>. SUFFICES ASSUME NEW j \in Keys
                  PROVE  In(rest, j) <=> (j # k /\ In(seq, j))
      BY DEF In
    <3>1. In(rest, j) => j # k /\ In(seq, j)
      BY <2>7 DEF In
    <3>2. j # k /\ In(seq, j) => In(rest, j)
      BY <1>1, <2>6 DEF In
    <3>3. QED
      BY <3>1, <3>2
  <2>9. QED
    BY <1>3, <2>2, <2>3, <2>5, <2>8 DEF Distinct
<1>4. QED
  BY <1>2, <1>3

\* Pushing a key that the list does not hold.
LEMMA PushKey ==
    ASSUME NEW seq, Distinct(seq), NEW k \in Keys, ~In(seq, k)
    PROVE  /\ Distinct(<<k>> \o seq)
           /\ \A j \in Keys : In(<<k>> \o seq, j) = (j = k \/ In(seq, j))
           /\ Len(<<k>> \o seq) = Len(seq) + 1
           /\ (<<k>> \o seq)[1] = k
<1>. DEFINE list == <<k>> \o seq
<1>1. /\ seq \in Seq(Keys) /\ Len(seq) \in Nat /\ DOMAIN seq = 1 .. Len(seq)
      /\ \A i \in 1 .. Len(seq) : seq[i] \in Keys /\ seq[i] # k
      /\ \A i, j \in 1 .. Len(seq) : seq[i] = seq[j] => i = j
  BY DEF Distinct, In
<1>2. \A s, t \in Seq(Keys) :
        /\ s \o t \in Seq(Keys) /\ Len(s \o t) = Len(s) + Len(t)
        /\ \A i \in 1 .. Len(s) + Len(t) :
             (s \o t)[i] = IF i <= Len(s) THEN s[i] ELSE t[i - Len(s)]
  BY ConcatProperties
<1>3. <<k>> \in Seq(Keys) /\ Len(<<k>>) = 1 /\ <<k>>[1] = k
  OBVIOUS
<1>4. /\ list \in Seq(Keys) /\ Len(list) = 1 + Len(seq)
      /\ \A i \in 1 .. 1 + Len(seq) : list[i] = IF i <= 1 THEN <<k>>[i] ELSE seq[i - 1]
  BY <1>1, <1>2, <1>3
<1>. HIDE DEF list
<1>5. /\ DOMAIN list = 1 .. 1 + Len(seq)
      /\ list[1] = k
      /\ \A i \in 2 .. 1 + Len(seq) : list[i] = seq[i - 1]
  BY <1>1, <1>3, <1>4
<1>6. \A i, j \in DOMAIN list : list[i] = list[j] => i = j
  BY <1>1, <1>5
<1>7. ASSUME NEW j \in Keys PROVE In(list, j) <=> (j = k \/ In(seq, j))
  <2>1. ASSUME NEW i \in DOMAIN seq, seq[i] = j PROVE In(list, j)
    <3>1. i + 1 \in DOMAIN list /\ list[i + 1] = j
      BY <1>1, <1>5, <2>1
    <3>2. QED
      BY <3>1 DEF In
  <2>2. In(list, k)
    BY <1>1, <1>5 DEF In
  <2>3. ASSUME NEW i \in DOMAIN list, list[i] = j, j # k PROVE In(seq, j)
    <3>1. i - 1 \in DOMAIN seq /\ seq[i - 1] = j
      BY <1>1, <1>5, <2>3
    <3>2. QED
      BY <3>1 DEF In
  <2>4. QED
    BY <2>1, <2>2, <2>3 DEF In
<1>8. \A j \in Keys : In(list, j) = (j = k \/ In(seq, j))
  BY <1>7 DEF In
<1>9. QED
  BY <1>1, <1>4, <1>5, <1>6, <1>8 DEF Distinct, list

\* Taking the last key away.
LEMMA DropLast ==
    ASSUME NEW seq, Distinct(seq), Len(seq) > 0
    PROVE  LET last == seq[Len(seq)]
               front == SubSeq(seq, 1, Len(seq) - 1)
           IN  /\ last \in Keys
               /\ Distinct(front)
               /\ \A j \in Keys : In(front, j) = (j # last /\ In(seq, j))
               /\ Len(front) = Len(seq) - 1
<1>. DEFINE last == seq[Len(seq)]
            front == SubSeq(seq, 1, Len(seq) - 1)
<1>1. /\ seq \in Seq(Keys) /\ Len(seq) \in Nat /\ DOMAIN seq = 1 .. Len(seq)
      /\ \A i \in 1 .. Len(seq) : seq[i] \in Keys
      /\ \A i, j \in 1 .. Len(seq) : seq[i] = seq[j] => i = j
  BY DEF Distinct
<1>2. /\ front \in Seq(Keys) /\ Len(front) = Len(seq) - 1
      /\ \A i \in 1 .. Len(seq) - 1 : front[i] = seq[i]
  BY <1>1
<1>3. DOMAIN front = 1 .. Len(seq) - 1
  BY <1>1, <1>2
<1>. HIDE DEF front
<1>4. \A i, j \in DOMAIN front : front[i] = front[j] => i = j
  BY <1>1, <1>2, <1>3
<1>5. ASSUME NEW j \in Keys PROVE In(front, j) <=> (j # last /\ In(seq, j))
  <2>1. ASSUME NEW i \in DOMAIN front, front[i] = j PROVE j # last /\ In(seq, j)
    BY <1>1, <1>2, <1>3, <2>1 DEF In
  <2>2. ASSUME NEW i \in DOMAIN seq, seq[i] = j, j # last PROVE In(front, j)
    <3>1. i \in DOMAIN front /\ front[i] = j
      BY <1>1, <1>2, <1>3, <2>2
    <3>2. QED
      BY <3>1 DEF In
  <2>3. QED
    BY <2>1, <2>2 DEF In
<1>6. \A j \in Keys : In(front, j) = (j # last /\ In(seq, j))
  BY <1>5 DEF In
<1>7. last \in Keys
  BY <1>1
<1>8. QED
  BY <1>2, <1>4, <1>6, <1>7 DEF Distinct, front
-----------------------------------------------------------------------------
LEMMA EntryIsNotNone == None \notin Entry
<1>1. 0 .. TTL \subseteq Nat
  BY BridgeKeysAssumption
<1>2. Entry \subseteq [settings : Settings, age : Nat]
  BY <1>1 DEF Entry
<1>3. QED
  BY <1>2, BridgeKeysAssumption

LEMMA CacheAgrees ==
    CacheOK <=> /\ Distinct(entries)
                /\ Len(entries) <= CacheSize
                /\ \A k \in Keys : (items[k] # None) = In(entries, k)
BY DEF CacheOK, Distinct, In

LEMMA CacheGetOK ==
    ASSUME Types, CacheOK, NEW k \in Keys, CacheGet(k)
    PROVE  CacheOK'
<1>. DEFINE rest == Without(entries, k)
<1>1. /\ Distinct(entries) /\ Len(entries) <= CacheSize /\ Len(entries) \in Nat
      /\ \A j \in Keys : (items[j] # None) = In(entries, j)
  BY CacheAgrees DEF Distinct
<1>2. /\ Distinct(rest)
      /\ \A j \in Keys : In(rest, j) = (j # k /\ In(entries, j))
      /\ Len(rest) = IF In(entries, k) THEN Len(entries) - 1 ELSE Len(entries)
  BY <1>1, WithoutKey
<1>3. ~In(rest, k)
  BY <1>2
<1>. HIDE DEF rest
<1>4. CASE Hit(k)
  <2>. DEFINE list == <<k>> \o rest
  <2>1. entries' = list /\ items' = items
    BY <1>4 DEF CacheGet, rest
  <2>2. /\ Distinct(list) /\ Len(list) = Len(rest) + 1
        /\ \A j \in Keys : In(list, j) = (j = k \/ In(rest, j))
    BY <1>2, <1>3, PushKey
  <2>. HIDE DEF list
  <2>3. In(entries, k)
    BY <1>1, <1>4 DEF Hit
  <2>4. Len(list) <= CacheSize
    BY <1>1, <1>2, <2>2, <2>3
  <2>5. \A j \in Keys : In(list, j) = In(entries, j)
    BY <1>2, <2>2, <2>3 DEF In
  <2>6. \A j \in Keys : (items[j] # None) = In(list, j)
    BY <1>1, <2>5
  <2>7. QED
    BY <2>1, <2>2, <2>4, <2>6 DEF CacheOK, Distinct, In
<1>5. CASE ~Hit(k)
  <2>1. entries' = rest /\ items' = [items EXCEPT ![k] = None]
    BY <1>5 DEF CacheGet, rest
  <2>2. Len(rest) <= CacheSize
    BY <1>1, <1>2, BridgeKeysAssumption
  <2>3. \A j \in Keys : items'[j] = IF j = k THEN None ELSE items[j]
    BY <2>1 DEF Types
  <2>4. \A j \in Keys : (items'[j] # None) = In(rest, j)
    BY <1>1, <1>2, <2>3 DEF In
  <2>5. QED
    BY <1>2, <2>1, <2>2, <2>4 DEF CacheOK, Distinct, In
<1>6. QED
  BY <1>4, <1>5

\* The key that Put evicts is never the one it has just put in front.
LEMMA CachePutOK ==
    ASSUME Types, CacheOK, NEW k \in Keys, NEW x \in Settings, CachePut(k, x)
    PROVE  CacheOK'
<1>. DEFINE entry == [settings |-> x, age |-> 0]
            rest == Without(entries, k)
            list == <<k>> \o rest
            last == list[Len(list)]
            front == SubSeq(list, 1, Len(list) - 1)
<1>1. /\ Distinct(entries) /\ Len(entries) <= CacheSize /\ Len(entries) \in Nat
      /\ \A j \in Keys : (items[j] # None) = In(entries, j)
  BY CacheAgrees DEF Distinct
<1>2. /\ Distinct(rest)
      /\ \A j \in Keys : In(rest, j) = (j # k /\ In(entries, j))
      /\ Len(rest) = IF In(entries, k) THEN Len(entries) - 1 ELSE Len(entries)
  BY <1>1, WithoutKey
<1>3. ~In(rest, k)
  BY <1>2
<1>4. \/ /\ Len(list) <= CacheSize
         /\ items' = [items EXCEPT ![k] = entry]
         /\ entries' = list
      \/ /\ ~(Len(list) <= CacheSize)
         /\ items' = [items EXCEPT ![k] = entry, ![last] = None]
         /\ entries' = front
  BY DEF CachePut
<1>5. entry # None
  <2>1. entry \in Entry
    BY BridgeKeysAssumption DEF Entry
  <2>2. QED
    BY <2>1, EntryIsNotNone
<1>. HIDE DEF rest, entry
<1>6. /\ Distinct(list) /\ Len(list) = Len(rest) + 1 /\ list[1] = k
      /\ \A j \in Keys : In(list, j) = (j = k \/ In(rest, j))
  BY <1>2, <1>3, PushKey
<1>. HIDE DEF list
<1>7. \A j \in Keys : In(list, j) = (j = k \/ In(entries, j))
  BY <1>2, <1>6 DEF In
<1>8. /\ last \in Keys /\ Distinct(front) /\ Len(front) = Len(list) - 1
      /\ \A j \in Keys : In(front, j) = (j # last /\ In(list, j))
  <2>1. Len(list) > 0
    BY <1>1, <1>2, <1>6
  <2>2. QED
    BY <1>6, <2>1, DropLast
<1>9. CASE Len(list) <= CacheSize
  <2>1. items' = [items EXCEPT ![k] = entry] /\ entries' = list
    BY <1>4, <1>9
  <2>2. \A j \in Keys : items'[j] = IF j = k THEN entry ELSE items[j]
    BY <2>1 DEF Types
  <2>3. \A j \in Keys : (items'[j] # None) = In(list, j)
    BY <1>1, <1>5, <1>7, <2>2 DEF In
  <2>4. QED
    BY <1>6, <1>9, <2>1, <2>3 DEF CacheOK, Distinct, In
<1>10. CASE ~(Len(list) <= CacheSize)
  <2>1. items' = [items EXCEPT ![k] = entry, ![last] = None] /\ entries' = front
    BY <1>4, <1>10
  <2>2. last # k
    <3>1. Len(list) > 1 /\ Len(list) \in Nat
      BY <1>1, <1>2, <1>6, <1>10, BridgeKeysAssumption
    <3>2. DOMAIN list = 1 .. Len(list)
      BY <1>6 DEF Distinct
    <3>3. 1 \in DOMAIN list /\ Len(list) \in DOMAIN list /\ Len(list) # 1
      BY <3>1, <3>2
    <3>4. QED
      BY <1>6, <3>3 DEF Distinct
  <2>. HIDE DEF last, front
  <2>3. \A j \in Keys : items'[j] = IF j = last THEN None
                                    ELSE IF j = k THEN entry ELSE items[j]
    BY <1>8, <2>1 DEF Types
  <2>4. \A j \in Keys : (items'[j] # None) = In(front, j)
    <3>. SUFFICES ASSUME NEW j \in Keys PROVE (items'[j] # None) <=> In(front, j)
      BY DEF In
    <3>1. In(front, j) <=> j # last /\ (j = k \/ items[j] # None)
      BY <1>1, <1>7, <1>8
    <3>2. QED
      BY <1>5, <2>2, <2>3, <3>1
  <2>5. Len(front) <= CacheSize
    BY <1>1, <1>2, <1>6, <1>8, BridgeKeysAssumption
  <2>6. QED
    BY <1>8, <2>1, <2>4, <2>5 DEF CacheOK, Distinct, In
<1>11. QED
  BY <1>9, <1>10

\* Time leaves an entry an entry.
LEMMA TickCacheOK ==
    ASSUME Types, CacheOK, Tick
    PROVE  CacheOK'
<1>1. \A k \in Keys : (items'[k] # None) = (items[k] # None)
  <2>1. ASSUME NEW k \in Keys, items[k] # None
        PROVE  items'[k] # None
    <3>. DEFINE age == UpTo(TTL, items[k].age + 1)
    <3>1. items[k] \in Entry /\ items[k].age \in 0 .. TTL /\ TTL \in Nat
      BY <2>1, BridgeKeysAssumption DEF Types, Entry
    <3>2. age \in 0 .. TTL
      BY <3>1, UpToType
    <3>3. items'[k] = [items[k] EXCEPT !.age = age]
      BY <2>1 DEF Tick
    <3>. HIDE DEF age
    <3>4. items'[k] \in Entry
      BY <3>1, <3>2, <3>3 DEF Entry
    <3>5. None \notin Entry
      BY EntryIsNotNone
    <3>6. QED
      BY <3>4, <3>5
  <2>2. ASSUME NEW k \in Keys, items[k] = None
        PROVE  items'[k] = None
    BY <2>2 DEF Tick
  <2>3. QED
    BY <2>1, <2>2
<1>2. entries' = entries
  BY DEF Tick
<1>3. QED
  BY <1>1, <1>2 DEF CacheOK

-----------------------------------------------------------------------------
\* The staleness argument, the cache and the phases of the keys.
WInv ==
    /\ IInv
    /\ CacheOK
    /\ phase \in [Keys -> {"unborn", "created", "deleted"}]

LEMMA InitW == Init => WInv
<1>. SUFFICES ASSUME Init PROVE WInv
  OBVIOUS
<1>1. entries = <<>> /\ \A k \in Keys : items[k] = None
  BY DEF Init
<1>2. entries \in Seq(Keys) /\ Len(entries) = 0
  BY <1>1, EmptySeq
<1>3. DOMAIN entries = 1 .. 0
  BY <1>2, LenProperties
<1>4. \A i \in DOMAIN entries : FALSE
  BY <1>3
<1>5. CacheOK
  <2>1. Len(entries) <= CacheSize
    BY <1>2, BridgeKeysAssumption
  <2>2. Distinct(entries)
    BY <1>2, <1>4 DEF Distinct
  <2>3. \A k \in Keys : ~(items[k] # None) /\ ~In(entries, k)
    BY <1>1, <1>4 DEF In
  <2>4. \A k \in Keys : (items[k] # None) = In(entries, k)
    BY <2>3 DEF In
  <2>5. QED
    BY <2>1, <2>2, <2>4, CacheAgrees
<1>6. QED
  BY <1>5, InitInv DEF WInv, Init

LEMMA NextW == WInv /\ [Next]_vars => WInv'
<1>. SUFFICES ASSUME WInv, [Next]_vars PROVE WInv'
  OBVIOUS
<1>1. IInv' /\ Types
  BY NextInv DEF WInv, IInv
<1>2. phase' \in [Keys -> {"unborn", "created", "deleted"}]
  BY DEF WInv, Next, vars, Validate, Serving, Lookup, Fill, Remember, LoadLimits,
         Leave, Create, PatchReads, PatchWrites, PatchFails, Delete, Tick
<1>3. CacheOK'
  <2>1. CASE \E r \in Requests, k \in Keys : Validate(r, k)
    BY <1>1, <2>1, CacheGetOK DEF WInv, Validate
  <2>2. CASE \E r \in Requests : Fill(r)
    <3>1. PICK r \in Requests : Fill(r)
      BY <2>2
    <3>2. req[r].key \in Keys /\ req[r].settings \in Settings
      BY <1>1, <3>1 DEF Fill, Types
    <3>3. QED
      BY <1>1, <3>1, <3>2, CachePutOK DEF WInv, Fill
  <2>3. CASE Tick
    BY <1>1, <2>3, TickCacheOK DEF WInv
  <2>4. CASE UNCHANGED <<items, entries>>
    BY <2>4 DEF WInv, CacheOK
  <2>5. QED
    BY <2>1, <2>2, <2>3, <2>4
       DEF Next, vars, Serving, Lookup, Remember, LoadLimits, Leave, Create,
           PatchReads, PatchWrites, PatchFails, Delete
<1>4. QED
  BY <1>1, <1>2, <1>3 DEF WInv

\* The state keeps its types, and the map and the list of the cache hold the
\* same keys, each once and never more than its size, whatever order hits,
\* expiries, evictions and replaced entries come in.
THEOREM BridgeKeysTypeOK == SafetySpec => []TypeOK
<1>1. WInv => TypeOK
  BY DEF WInv, IInv, Types, TypeOK
<1>2. QED
  BY <1>1, InitW, NextW, PTL DEF SafetySpec
=============================================================================
