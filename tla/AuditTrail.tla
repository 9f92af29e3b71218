----------------------------- MODULE AuditTrail -----------------------------
(***************************************************************************)
(* What the audit log promises: a record that Write has accepted is stored *)
(* in the order of acceptance, once, or fails when its turn comes; a       *)
(* stored record is indexed at most once and leaves the archive only when  *)
(* its day is past the retention.  A crash loses what was not yet stored.  *)
(***************************************************************************)
EXTENDS Integers, Sequences

CONSTANTS
    Records,
    MaxDay,      \* bound: the last day
    Retention    \* days a record is kept, 0 for ever

VARIABLES
    today,
    dayOf,       \* dayOf[r]: the day of an accepted record
    pending,     \* accepted records not yet stored
    kept,        \* records that can be read back from the archive
    failed,      \* records whose own write or index statement failed
    indexed      \* records the index knows

Init ==
    /\ today = 0
    /\ dayOf = <<>>
    /\ pending = <<>>
    /\ kept = {} /\ failed = {} /\ indexed = {}

Accept(r) ==
    /\ r \notin DOMAIN dayOf
    /\ \E d \in 0 .. today :
         dayOf' = [s \in DOMAIN dayOf \union {r} |-> IF s = r THEN d ELSE dayOf[s]]
    /\ pending' = Append(pending, r)
    /\ UNCHANGED <<today, kept, failed, indexed>>

Store ==
    /\ pending # <<>>
    /\ kept' = kept \union {Head(pending)}
    /\ pending' = Tail(pending)
    /\ UNCHANGED <<today, dayOf, failed, indexed>>

Lose ==
    /\ pending # <<>>
    /\ failed' = failed \union {Head(pending)}
    /\ pending' = Tail(pending)
    /\ UNCHANGED <<today, dayOf, kept, indexed>>

\* A stored record is indexed, or its index statement fails.
Index(r) ==
    /\ r \in DOMAIN dayOf
    /\ \A i \in DOMAIN pending : pending[i] # r
    /\ r \notin failed \union indexed
    /\ \/ /\ indexed' = indexed \union {r}
          /\ UNCHANGED failed
       \/ /\ failed' = failed \union {r}
          /\ UNCHANGED indexed
    /\ UNCHANGED <<today, dayOf, pending, kept>>

Expire(d) ==
    /\ Retention > 0
    /\ today - d > Retention
    /\ kept' = {r \in kept : dayOf[r] # d}
    /\ UNCHANGED <<today, dayOf, pending, failed, indexed>>

Crash ==
    /\ pending' = <<>>
    /\ UNCHANGED <<today, dayOf, kept, failed, indexed>>

NextDay ==
    /\ today' = today + 1
    /\ UNCHANGED <<dayOf, pending, kept, failed, indexed>>

Next ==
    \/ \E r \in Records : Accept(r) \/ Index(r)
    \/ Store \/ Lose
    \/ \E d \in 0 .. MaxDay : Expire(d)
    \/ Crash \/ NextDay

vars == <<today, dayOf, pending, kept, failed, indexed>>

Spec == Init /\ [][Next]_vars
=============================================================================
