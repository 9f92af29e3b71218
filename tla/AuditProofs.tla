----------------------------- MODULE AuditProofs -----------------------------
(***************************************************************************)
(* TypeOK, NoSendOnClosed, NothingLeftAtExit and RowsReadTheirRecord, and  *)
(* that the audit log implements AuditTrail, for any number of records,    *)
(* days and faults and any size of the channels.  The inductive invariant  *)
(* says where an accepted record can be (in one of the channels or in the  *)
(* writer's hand, or settled), that no file is written to that may already *)
(* have been compressed or removed, and that an archive                    *)
(* holds nothing that the file beside it lacks.                            *)
(***************************************************************************)
EXTENDS Audit, SequenceTheorems, FiniteSetTheorems, TLAPS

Types ==
    /\ today \in Days
    /\ request \in [Records -> {"none", "writing", "written", "gone"}]
    /\ dayOf \in [Records -> Days]
    /\ phase \in {"serving", "draining"} \union Closing \union Ended
    /\ watching \in BOOLEAN
    /\ queue \in Seq(Records) /\ Len(queue) <= Cap
    /\ hand \in IndexedRecord \union {None}
    /\ current \in [day : Days, file : {"none", "open", "unlinked", "closed"}]
    /\ backlog \in Seq(IndexedRecord) /\ Len(backlog) <= Cap
    /\ index \in [Records -> Row \union {NoRow}]
    /\ plain \in [Days -> Lines]
    /\ packed \in [Days -> [lines : Lines, whole : BOOLEAN]]
    /\ rotator \in [at : {"idle", "next", "copy", "remove"}, now : Days,
                    day : 0 .. MaxDay + 1]
    /\ faults \in 0 .. MaxFaults
    /\ failed \subseteq Records /\ lost \subseteq Records

InQueue(r) == \E i \in 1 .. Len(queue) : queue[i] = r
InHand(r) == hand # None /\ hand.record = r
InBacklog(r) == \E i \in 1 .. Len(backlog) : backlog[i].record = r
Settled(r) == index[r] # NoRow \/ r \in failed

\* Nobody sends on a channel that is closed, or is to be closed next.
ClosedLast ==
    /\ phase # "panicked"
    /\ phase \in Closing \union {"exited"} => \A r \in Records : request[r] # "writing"
    /\ phase \in {"close_indexer", "exited"} => queue = <<>> /\ hand = None
    /\ phase = "exited" => backlog = <<>>

\* A record waits on the day of its stamp or the next; what is rotated is older.
Past(d) == d + 1 < today
WaitsNotLong ==
    \A r \in Records :
        /\ dayOf[r] <= today
        /\ request[r] = "writing" \/ InQueue(r) => ~Past(dayOf[r])

\* An accepted record is in one place only, and is there once.
Once ==
    /\ \A i, j \in 1 .. Len(queue) : queue[i] = queue[j] => i = j
    /\ \A i, j \in 1 .. Len(backlog) : backlog[i].record = backlog[j].record => i = j
    /\ \A r \in Records :
        /\ InQueue(r) => ~InHand(r) /\ ~InBacklog(r) /\ ~Settled(r)
        /\ InHand(r) => ~InBacklog(r) /\ ~Settled(r)
        /\ InBacklog(r) => ~Settled(r)

\* What the process has not forgotten of an accepted record, and nothing of any other.
Accepted ==
    \A r \in Records :
        /\ request[r] = "written" =>
              InQueue(r) \/ InHand(r) \/ InBacklog(r) \/ Settled(r) \/ r \in lost
        /\ InQueue(r) \/ InHand(r) \/ InBacklog(r) \/ Settled(r) => request[r] = "written"

\* A file holds accepted records; each stands for one that left the queue, or a fault.
Taken == {r \in Records : request[r] = "written" /\ ~InQueue(r)}
Stored ==
    /\ \A d \in Days : Len(plain[d]) <= Cardinality(Taken) + faults
    /\ \A d \in Days :
        /\ \A i \in 1 .. Len(plain[d]) :
              plain[d][i] = None \/ request[plain[d][i]] = "written"
        /\ \A i \in 1 .. Len(packed[d].lines) :
              packed[d].lines[i] = None \/ request[packed[d].lines[i]] = "written"

PastDays ==
    /\ current.file = "unlinked" => Past(current.day)
    /\ rotator.now <= today
    /\ rotator.at \in {"copy", "remove"} => Past(rotator.day)
    /\ \A d \in Days : packed[d] # NoArchive => Past(d)

\* The archive of a file that is still there holds no line the file lacks; and all
\* its lines before it is removed.  Only a file with lines is compressed.
Archives ==
    /\ \A d \in Days : plain[d] # <<>> =>
          \A i \in 1 .. Len(packed[d].lines) :
              \E j \in 1 .. Len(plain[d]) : plain[d][j] = packed[d].lines[i]
    /\ rotator.at = "copy" => plain[rotator.day] # <<>>
    /\ rotator.at = "remove" =>
          packed[rotator.day].whole /\ packed[rotator.day].lines = plain[rotator.day]

\* A row says where its record is, or its file is gone for good.
Placed(r, row) ==
    \/ plain[row.day] = <<>> /\ Past(row.day)
    \/ row.at \in 1 .. Len(plain[row.day]) /\ plain[row.day][row.at] = r
Rows ==
    /\ \A r \in Records : index[r] # NoRow => Placed(r, index[r])
    /\ hand # None => Placed(hand.record, hand.row)
    /\ \A i \in 1 .. Len(backlog) : Placed(backlog[i].record, backlog[i].row)

IInv ==
    /\ Types /\ ClosedLast
    /\ WaitsNotLong /\ Once /\ Accepted
    /\ Stored /\ PastDays /\ Archives /\ Rows
-----------------------------------------------------------------------------
LEMMA TailFacts ==
    ASSUME NEW S, NEW s \in Seq(S), s # <<>>
    PROVE  /\ Len(s) \in Nat \ {0} /\ Head(s) = s[1] /\ Head(s) \in S
           /\ Tail(s) \in Seq(S) /\ Len(Tail(s)) = Len(s) - 1
           /\ \A i \in 1 .. Len(Tail(s)) : Tail(s)[i] = s[i + 1] /\ i + 1 \in 1 .. Len(s)
           /\ \A i \in 1 .. Len(s) : i # 1 => i - 1 \in 1 .. Len(Tail(s))
BY EmptySeq, HeadTailProperties, LenProperties

LEMMA AppendFacts ==
    ASSUME NEW S, NEW s \in Seq(S), NEW e \in S
    PROVE  /\ Len(s) \in Nat /\ Append(s, e) \in Seq(S) /\ Append(s, e) # <<>>
           /\ Len(Append(s, e)) = Len(s) + 1
           /\ \A i \in 1 .. Len(s) : Append(s, e)[i] = s[i]
           /\ Append(s, e)[Len(s) + 1] = e
BY AppendProperties, LenProperties

LEMMA QueueTail ==
    ASSUME Types, Once, queue # <<>>, queue' = Tail(queue)
    PROVE  /\ Head(queue) \in Records /\ InQueue(Head(queue))
           /\ queue' \in Seq(Records) /\ Len(queue') <= Cap
           /\ \A r : InQueue(r)' <=> InQueue(r) /\ r # Head(queue)
           /\ \A i, j \in 1 .. Len(queue') : queue'[i] = queue'[j] => i = j
<1>1. queue \in Seq(Records) /\ Len(queue) <= Cap /\ Cap \in Nat
  BY AuditAssumption DEF Types
<1>2. /\ Len(queue) \in Nat \ {0} /\ Head(queue) = queue[1] /\ Head(queue) \in Records
      /\ Tail(queue) \in Seq(Records) /\ Len(Tail(queue)) = Len(queue) - 1
      /\ \A i \in 1 .. Len(Tail(queue)) : Tail(queue)[i] = queue[i + 1]
                                            /\ i + 1 \in 1 .. Len(queue)
      /\ \A i \in 1 .. Len(queue) : i # 1 => i - 1 \in 1 .. Len(Tail(queue))
  BY <1>1, TailFacts
<1>3. Len(queue') = Len(queue) - 1 /\ Len(queue') <= Cap
  BY <1>1, <1>2
<1>4. InQueue(Head(queue))
  BY <1>2 DEF InQueue
<1>5. \A i \in 1 .. Len(queue') : i + 1 \in 1 .. Len(queue) /\ queue'[i] = queue[i + 1]
  BY <1>2
<1>6. \A i, j \in 1 .. Len(queue') : queue'[i] = queue'[j] => i = j
  <2>. SUFFICES ASSUME NEW i \in 1 .. Len(queue'), NEW j \in 1 .. Len(queue'),
                       queue'[i] = queue'[j]
                PROVE  i = j
    OBVIOUS
  <2>1. i + 1 = j + 1
    BY <1>5 DEF Once
  <2>2. QED
    BY <2>1
<1>7. ASSUME NEW r PROVE InQueue(r)' <=> InQueue(r) /\ r # Head(queue)
  <2>1. ASSUME NEW i \in 1 .. Len(queue'), queue'[i] = r PROVE InQueue(r) /\ r # Head(queue)
    <3>1. i + 1 \in 1 .. Len(queue) /\ queue[i + 1] = r /\ i + 1 # 1 /\ 1 \in 1 .. Len(queue)
      BY <1>2, <1>5, <2>1
    <3>2. QED
      BY <1>2, <3>1 DEF InQueue, Once
  <2>2. ASSUME NEW i \in 1 .. Len(queue), queue[i] = r, r # Head(queue) PROVE InQueue(r)'
    <3>1. i - 1 \in 1 .. Len(queue') /\ queue'[i - 1] = r
      BY <1>2, <1>5, <2>2
    <3>2. QED
      BY <3>1 DEF InQueue
  <2>3. QED
    BY <2>1, <2>2 DEF InQueue
<1>8. QED
  BY <1>2, <1>3, <1>4, <1>6, <1>7

LEMMA BacklogTail ==
    ASSUME Types, Once, backlog # <<>>, backlog' = Tail(backlog)
    PROVE  /\ Head(backlog) \in IndexedRecord /\ Head(backlog) = backlog[1]
           /\ 1 \in 1 .. Len(backlog)
           /\ backlog' \in Seq(IndexedRecord) /\ Len(backlog') <= Cap
           /\ \A r : InBacklog(r)' <=> InBacklog(r) /\ r # Head(backlog).record
           /\ \A i, j \in 1 .. Len(backlog') :
                 backlog'[i].record = backlog'[j].record => i = j
           /\ \A i \in 1 .. Len(backlog') :
                 i + 1 \in 1 .. Len(backlog) /\ backlog'[i] = backlog[i + 1]
<1>1. backlog \in Seq(IndexedRecord) /\ Len(backlog) <= Cap /\ Cap \in Nat
  BY AuditAssumption DEF Types
<1>2. /\ Len(backlog) \in Nat \ {0} /\ Head(backlog) = backlog[1]
      /\ Head(backlog) \in IndexedRecord
      /\ Tail(backlog) \in Seq(IndexedRecord) /\ Len(Tail(backlog)) = Len(backlog) - 1
      /\ \A i \in 1 .. Len(Tail(backlog)) : Tail(backlog)[i] = backlog[i + 1]
                                              /\ i + 1 \in 1 .. Len(backlog)
      /\ \A i \in 1 .. Len(backlog) : i # 1 => i - 1 \in 1 .. Len(Tail(backlog))
  BY <1>1, TailFacts
<1>3. Len(backlog') = Len(backlog) - 1 /\ Len(backlog') <= Cap /\ 1 \in 1 .. Len(backlog)
  BY <1>1, <1>2
<1>4. \A i \in 1 .. Len(backlog') :
        i + 1 \in 1 .. Len(backlog) /\ backlog'[i] = backlog[i + 1]
  BY <1>2
<1>5. \A i, j \in 1 .. Len(backlog') : backlog'[i].record = backlog'[j].record => i = j
  <2>. SUFFICES ASSUME NEW i \in 1 .. Len(backlog'), NEW j \in 1 .. Len(backlog'),
                       backlog'[i].record = backlog'[j].record
                PROVE  i = j
    OBVIOUS
  <2>1. i + 1 = j + 1
    BY <1>4 DEF Once
  <2>2. QED
    BY <2>1
<1>6. ASSUME NEW r PROVE InBacklog(r)' <=> InBacklog(r) /\ r # Head(backlog).record
  <2>1. ASSUME NEW i \in 1 .. Len(backlog'), backlog'[i].record = r
        PROVE  InBacklog(r) /\ r # Head(backlog).record
    <3>1. i + 1 \in 1 .. Len(backlog) /\ backlog[i + 1].record = r /\ i + 1 # 1
      BY <1>4, <2>1
    <3>2. QED
      BY <1>2, <1>3, <3>1 DEF InBacklog, Once
  <2>2. ASSUME NEW i \in 1 .. Len(backlog), backlog[i].record = r, r # Head(backlog).record
        PROVE  InBacklog(r)'
    <3>1. i - 1 \in 1 .. Len(backlog') /\ backlog'[i - 1].record = r
      BY <1>2, <1>4, <2>2
    <3>2. QED
      BY <3>1 DEF InBacklog
  <2>3. QED
    BY <2>1, <2>2 DEF InBacklog
<1>7. QED
  BY <1>2, <1>3, <1>4, <1>5, <1>6

LEMMA QueueAppend ==
    ASSUME Types, Once, NEW r \in Records, ~InQueue(r), Len(queue) < Cap,
           queue' = Append(queue, r)
    PROVE  /\ queue' \in Seq(Records) /\ Len(queue') <= Cap
           /\ \A s : InQueue(s)' <=> InQueue(s) \/ s = r
           /\ \A i, j \in 1 .. Len(queue') : queue'[i] = queue'[j] => i = j
<1>1. queue \in Seq(Records) /\ Cap \in Nat
  BY AuditAssumption DEF Types
<1>2. /\ Len(queue) \in Nat /\ queue' \in Seq(Records) /\ Len(queue') = Len(queue) + 1
      /\ \A i \in 1 .. Len(queue) : queue'[i] = queue[i]
      /\ queue'[Len(queue) + 1] = r
  BY <1>1, AppendFacts
<1>3. \A i \in 1 .. Len(queue') : i \in 1 .. Len(queue) \/ i = Len(queue) + 1
  BY <1>2
<1>4. \A i \in 1 .. Len(queue) : i \in 1 .. Len(queue') /\ queue[i] # r
  BY <1>2 DEF InQueue
<1>5. Len(queue) + 1 \in 1 .. Len(queue') /\ Len(queue') <= Cap
  BY <1>1, <1>2
<1>6. \A i, j \in 1 .. Len(queue') : queue'[i] = queue'[j] => i = j
  BY <1>2, <1>3, <1>4 DEF Once
<1>7. \A s : InQueue(s)' <=> InQueue(s) \/ s = r
  BY <1>2, <1>3, <1>4, <1>5 DEF InQueue
<1>8. QED
  BY <1>2, <1>5, <1>6, <1>7

LEMMA BacklogAppend ==
    ASSUME Types, Once, NEW e \in IndexedRecord, ~InBacklog(e.record), Len(backlog) < Cap,
           backlog' = Append(backlog, e)
    PROVE  /\ backlog' \in Seq(IndexedRecord) /\ Len(backlog') <= Cap
           /\ \A s : InBacklog(s)' <=> InBacklog(s) \/ s = e.record
           /\ \A i, j \in 1 .. Len(backlog') :
                 backlog'[i].record = backlog'[j].record => i = j
           /\ \A i \in 1 .. Len(backlog') :
                 \/ i \in 1 .. Len(backlog) /\ backlog'[i] = backlog[i]
                 \/ backlog'[i] = e
<1>1. backlog \in Seq(IndexedRecord) /\ Cap \in Nat
  BY AuditAssumption DEF Types
<1>2. /\ Len(backlog) \in Nat /\ backlog' \in Seq(IndexedRecord)
      /\ Len(backlog') = Len(backlog) + 1
      /\ \A i \in 1 .. Len(backlog) : backlog'[i] = backlog[i]
      /\ backlog'[Len(backlog) + 1] = e
  BY <1>1, AppendFacts
<1>3. \A i \in 1 .. Len(backlog') : i \in 1 .. Len(backlog) \/ i = Len(backlog) + 1
  BY <1>2
<1>4. \A i \in 1 .. Len(backlog) : i \in 1 .. Len(backlog') /\ backlog[i].record # e.record
  BY <1>2 DEF InBacklog
<1>5. Len(backlog) + 1 \in 1 .. Len(backlog') /\ Len(backlog') <= Cap
  BY <1>1, <1>2
<1>6. \A i, j \in 1 .. Len(backlog') : backlog'[i].record = backlog'[j].record => i = j
  BY <1>2, <1>3, <1>4 DEF Once
<1>7. \A s : InBacklog(s)' <=> InBacklog(s) \/ s = e.record
  BY <1>2, <1>3, <1>4, <1>5 DEF InBacklog
<1>8. QED
  BY <1>2, <1>3, <1>5, <1>6, <1>7
-----------------------------------------------------------------------------
LEMMA TakenBounds ==
    ASSUME NEW T \in SUBSET Records, NEW S \in SUBSET T
    PROVE  /\ Cardinality(S) \in Nat /\ Cardinality(T) \in Nat
           /\ Cardinality(S) <= Cardinality(T) /\ Cardinality(T) <= MaxRecords
           /\ \A r \in T \ S : Cardinality(S) + 1 <= Cardinality(T)
<1>1. MaxRecords \in Nat
  BY AuditAssumption
<1>2. IsFiniteSet(Records) /\ Cardinality(Records) = MaxRecords
  BY <1>1, FS_Interval DEF Records
<1>3. IsFiniteSet(T) /\ Cardinality(T) <= MaxRecords /\ Cardinality(T) \in Nat
  BY <1>2, FS_Subset, FS_CardinalityType
<1>4. IsFiniteSet(S) /\ Cardinality(S) <= Cardinality(T) /\ Cardinality(S) \in Nat
  BY <1>3, FS_Subset, FS_CardinalityType
<1>5. ASSUME NEW r \in T \ S PROVE Cardinality(S) + 1 <= Cardinality(T)
  <2>1. Cardinality(S \union {r}) = Cardinality(S) + 1
    BY <1>4, FS_AddElement
  <2>2. S \union {r} \in SUBSET T
    OBVIOUS
  <2>3. Cardinality(S \union {r}) <= Cardinality(T)
    BY <1>3, <2>2, FS_Subset
  <2>4. QED
    BY <2>1, <2>3
<1>6. QED
  BY <1>3, <1>4, <1>5

LEMMA Arithmetic ==
    /\ MaxRecords \in Nat /\ Cap \in Nat \ {0} /\ MaxDay \in Nat /\ MaxFaults \in Nat
    /\ CompressAfter \in Nat /\ Retention \in Nat
    /\ Days \subseteq Nat /\ Records \subseteq Nat /\ Row \subseteq [day : Nat, at : Nat]
    /\ IndexedRecord \subseteq [record : Nat, row : [day : Nat, at : Nat]]
    /\ None \notin Records /\ None \notin IndexedRecord
    /\ NoRow \notin Row
<1>1. /\ MaxRecords \in Nat /\ Cap \in Nat \ {0} /\ MaxDay \in Nat /\ MaxFaults \in Nat
      /\ CompressAfter \in Nat /\ Retention \in Nat
      /\ Days \subseteq Nat /\ Records \subseteq Nat
  BY AuditAssumption DEF Days, Records
<1>2. 1 .. MaxRecords + MaxFaults \subseteq Nat
  BY <1>1
<1>3. ASSUME NEW row \in Row PROVE row \in [day : Nat, at : Nat]
  BY <1>1, <1>2 DEF Row
<1>4. ASSUME NEW e \in IndexedRecord PROVE e \in [record : Nat, row : [day : Nat, at : Nat]]
  BY <1>1, <1>3 DEF IndexedRecord
<1>5. NoRow \notin Row
  BY <1>1 DEF NoRow, Row
<1>6. QED
  BY <1>1, <1>3, <1>4, <1>5, AuditAssumption

\* Stored, when no file grows.
LEMMA StoredFrame ==
    ASSUME Types, Stored, Types',
           \A r \in Records : request[r] = "written" =>
                request'[r] = "written" /\ (InQueue(r)' => InQueue(r)),
           faults <= faults',
           \A d \in Days : plain'[d] = plain[d] \/ plain'[d] = <<>>,
           \A d \in Days : \/ packed'[d].lines = packed[d].lines
                           \/ packed'[d].lines = plain[d] \/ packed'[d].lines = <<>>
    PROVE  Stored'
<1>1. Taken \in SUBSET Taken' /\ Taken' \in SUBSET Records
  BY DEF Taken
<1>2. /\ Cardinality(Taken) \in Nat /\ Cardinality(Taken') \in Nat
      /\ Cardinality(Taken) <= Cardinality(Taken')
  BY <1>1, TakenBounds
<1>3. faults \in Nat /\ faults' \in Nat
  BY Arithmetic DEF Types
<1>4. ASSUME NEW d \in Days PROVE Len(plain'[d]) <= Cardinality(Taken') + faults'
  <2>1. Len(plain[d]) \in Nat /\ Len(plain[d]) <= Cardinality(Taken) + faults
    BY LenProperties DEF Types, Stored, Lines
  <2>2. Len(plain'[d]) \in Nat /\ Len(plain'[d]) <= Len(plain[d])
    BY <2>1
  <2>3. QED
    BY <1>2, <1>3, <2>1, <2>2
<1>5. ASSUME NEW d \in Days, NEW i \in 1 .. Len(plain'[d])
      PROVE  plain'[d][i] = None \/ request'[plain'[d][i]] = "written"
  <2>1. plain'[d] = plain[d]
    BY <1>5
  <2>2. plain[d][i] \in Records \union {None}
    BY <2>1, ElementOfSeq DEF Types, Lines
  <2>3. QED
    BY <2>1, <2>2 DEF Stored
<1>6. ASSUME NEW d \in Days, NEW i \in 1 .. Len(packed'[d].lines)
      PROVE  packed'[d].lines[i] = None \/ request'[packed'[d].lines[i]] = "written"
  <2>1. packed'[d].lines = packed[d].lines \/ packed'[d].lines = plain[d]
    BY <1>6
  <2>2. plain[d] \in Lines /\ packed[d].lines \in Lines
    BY DEF Types
  <2>3. packed'[d].lines[i] \in Records \union {None}
    BY <2>1, <2>2, ElementOfSeq DEF Lines
  <2>4. QED
    BY <2>1, <2>3 DEF Stored
<1>7. QED
  BY <1>4, <1>5, <1>6 DEF Stored
-----------------------------------------------------------------------------
\* Where the records are, when no channel moves.
LEMMA PlacesFrame ==
    ASSUME queue' = queue, hand' = hand, backlog' = backlog, index' = index,
           failed' = failed
    PROVE  \A r : /\ InQueue(r)' <=> InQueue(r)
                  /\ InHand(r)' <=> InHand(r)
                  /\ InBacklog(r)' <=> InBacklog(r)
                  /\ Settled(r)' <=> Settled(r)
BY DEF InQueue, InHand, InBacklog, Settled

LEMMA ObserveInv ==
    ASSUME IInv, NEW r \in Records, Observe(r)
    PROVE  IInv'
<1>1. Types'
  BY DEF IInv, Types, Observe, process, disk
<1>2. \A s : /\ InQueue(s)' <=> InQueue(s)
             /\ InHand(s)' <=> InHand(s)
             /\ InBacklog(s)' <=> InBacklog(s)
             /\ Settled(s)' <=> Settled(s)
  BY PlacesFrame DEF Observe, process
<1>3. /\ request[r] = "none"
      /\ \A s \in Records : request'[s] = IF s = r THEN "writing" ELSE request[s]
      /\ \A s \in Records : dayOf'[s] = IF s = r THEN today ELSE dayOf[s]
  BY DEF IInv, Types, Observe
<1>4. ClosedLast'
  BY DEF IInv, ClosedLast, Observe, Closing
<1>5. WaitsNotLong'
  <2>1. today \in Nat /\ today' = today
    BY Arithmetic DEF IInv, Types, Observe
  <2>2. QED
    BY <1>2, <1>3, <2>1 DEF IInv, WaitsNotLong, Past
<1>6. Once'
  BY <1>2 DEF IInv, Once, Observe, process
<1>7. Accepted'
  BY <1>2, <1>3 DEF IInv, Accepted, Observe
<1>8. Stored'
  <2>1. faults' = faults /\ plain' = plain /\ packed' = packed /\ faults <= faults'
    BY Arithmetic DEF IInv, Types, Observe, disk
  <2>2. \A s \in Records : request[s] = "written" =>
            request'[s] = "written" /\ (InQueue(s)' => InQueue(s))
    BY <1>2, <1>3
  <2>3. QED
    BY <1>1, <2>1, <2>2, StoredFrame DEF IInv
<1>9. PastDays' /\ Archives' /\ Rows'
  BY DEF IInv, PastDays, Past, Archives, Rows, Placed, Observe, process, disk
<1>10. QED
  BY <1>1, <1>4, <1>5, <1>6, <1>7, <1>8, <1>9 DEF IInv

LEMMA WriteInv ==
    ASSUME IInv, NEW r \in Records, Write(r)
    PROVE  IInv'
<1>1. /\ phase' = phase /\ phase \notin Closing /\ request[r] = "writing"
      /\ Len(queue) < Cap /\ queue' = Append(queue, r)
      /\ request' = [request EXCEPT ![r] = "written"]
  BY DEF IInv, ClosedLast, Write
<1>2. ~InQueue(r) /\ ~InHand(r) /\ ~InBacklog(r) /\ ~Settled(r)
  BY <1>1 DEF IInv, Accepted
<1>3. /\ queue' \in Seq(Records) /\ Len(queue') <= Cap
      /\ \A s : InQueue(s)' <=> InQueue(s) \/ s = r
      /\ \A i, j \in 1 .. Len(queue') : queue'[i] = queue'[j] => i = j
  BY <1>1, <1>2, QueueAppend DEF IInv
<1>4. \A s : /\ InHand(s)' <=> InHand(s)
             /\ InBacklog(s)' <=> InBacklog(s)
             /\ Settled(s)' <=> Settled(s)
  BY DEF Write, InHand, InBacklog, Settled
<1>5. \A s \in Records : request'[s] = IF s = r THEN "written" ELSE request[s]
  BY <1>1 DEF IInv, Types
<1>6. Types'
  BY <1>1, <1>3 DEF IInv, Types, Write, disk
<1>7. ClosedLast'
  <2>1. phase \notin Closing \union {"exited"}
    BY <1>1 DEF IInv, ClosedLast
  <2>2. QED
    BY <1>1, <2>1 DEF IInv, ClosedLast, Closing
<1>8. WaitsNotLong'
  BY <1>1, <1>3, <1>5 DEF IInv, WaitsNotLong, Past, Write
<1>9. Once'
  <2>1. \A i, j \in 1 .. Len(backlog') : backlog'[i].record = backlog'[j].record => i = j
    BY DEF IInv, Once, Write
  <2>2. \A s \in Records :
          /\ InQueue(s)' => ~InHand(s)' /\ ~InBacklog(s)' /\ ~Settled(s)'
          /\ InHand(s)' => ~InBacklog(s)' /\ ~Settled(s)'
          /\ InBacklog(s)' => ~Settled(s)'
    BY <1>2, <1>3, <1>4 DEF IInv, Once
  <2>3. QED
    BY <1>3, <2>1, <2>2 DEF Once
<1>10. Accepted'
  BY <1>3, <1>4, <1>5 DEF IInv, Accepted, Write
<1>11. Stored'
  <2>1. faults' = faults /\ plain' = plain /\ packed' = packed /\ faults <= faults'
    BY Arithmetic DEF IInv, Types, Write, disk
  <2>2. \A s \in Records : request[s] = "written" =>
            request'[s] = "written" /\ (InQueue(s)' => InQueue(s))
    BY <1>1, <1>3, <1>5
  <2>3. QED
    BY <1>6, <2>1, <2>2, StoredFrame DEF IInv
<1>12. PastDays' /\ Archives' /\ Rows'
  BY DEF IInv, PastDays, Past, Archives, Rows, Placed, Write, disk
<1>13. QED
  BY <1>6, <1>7, <1>8, <1>9, <1>10, <1>11, <1>12 DEF IInv

LEMMA WriterEnqueuesInv ==
    ASSUME IInv, WriterEnqueues
    PROVE  IInv'
<1> DEFINE r == hand.record
<1>1. hand \in IndexedRecord /\ r \in Records /\ InHand(r)
  BY DEF IInv, Types, WriterEnqueues, IndexedRecord, InHand
<1>2. phase \notin {"close_indexer", "exited"}
  BY DEF IInv, ClosedLast, WriterEnqueues
<1>3. /\ phase' = phase /\ Len(backlog) < Cap /\ backlog' = Append(backlog, hand)
      /\ hand' = None
      /\ UNCHANGED <<today, request, dayOf, watching, queue, current, index, plain, packed,
                     rotator, faults, failed, lost>>
  BY <1>2 DEF WriterEnqueues, disk
<1>4. ~InQueue(r) /\ ~InBacklog(r) /\ ~Settled(r)
  BY <1>1 DEF IInv, Once
<1>5. /\ backlog' \in Seq(IndexedRecord) /\ Len(backlog') <= Cap
      /\ \A s : InBacklog(s)' <=> InBacklog(s) \/ s = r
      /\ \A i, j \in 1 .. Len(backlog') : backlog'[i].record = backlog'[j].record => i = j
      /\ \A i \in 1 .. Len(backlog') :
            \/ i \in 1 .. Len(backlog) /\ backlog'[i] = backlog[i]
            \/ backlog'[i] = hand
  BY <1>1, <1>3, <1>4, BacklogAppend DEF IInv
<1>6. \A s : /\ InQueue(s)' <=> InQueue(s)
             /\ ~InHand(s)' /\ (InHand(s) <=> s = r)
             /\ Settled(s)' <=> Settled(s)
  BY <1>1, <1>3 DEF InQueue, InHand, Settled
<1> HIDE DEF r
<1>7. Types'
  BY <1>3, <1>5 DEF IInv, Types
<1>8. ClosedLast'
  BY <1>2, <1>3 DEF IInv, ClosedLast
<1>9. WaitsNotLong'
  BY <1>3, <1>6 DEF IInv, WaitsNotLong, Past
<1>10. Once'
  <2>1. \A i, j \in 1 .. Len(queue') : queue'[i] = queue'[j] => i = j
    BY <1>3 DEF IInv, Once
  <2>2. \A s \in Records :
          /\ InQueue(s)' => ~InHand(s)' /\ ~InBacklog(s)' /\ ~Settled(s)'
          /\ InHand(s)' => ~InBacklog(s)' /\ ~Settled(s)'
          /\ InBacklog(s)' => ~Settled(s)'
    BY <1>4, <1>5, <1>6 DEF IInv, Once
  <2>3. QED
    BY <1>5, <2>1, <2>2 DEF Once
<1>11. Accepted'
  BY <1>3, <1>5, <1>6 DEF IInv, Accepted
<1>12. Stored'
  <2>1. faults <= faults'
    BY <1>3, Arithmetic DEF IInv, Types
  <2>2. \A s \in Records : request[s] = "written" =>
            request'[s] = "written" /\ (InQueue(s)' => InQueue(s))
    BY <1>3, <1>6
  <2>3. QED
    BY <1>3, <1>7, <2>1, <2>2, StoredFrame DEF IInv
<1>13. PastDays' /\ Archives'
  BY <1>3 DEF IInv, PastDays, Past, Archives
<1>14. Rows'
  <2>1. \A s, row : Placed(s, row)' <=> Placed(s, row)
    BY <1>3 DEF Placed, Past
  <2>2. \A i \in 1 .. Len(backlog') : Placed(backlog'[i].record, backlog'[i].row)
    BY <1>1, <1>5, Arithmetic DEF IInv, Rows, r
  <2>3. QED
    BY <1>3, <2>1, <2>2 DEF IInv, Rows
<1>15. QED
  BY <1>7, <1>8, <1>9, <1>10, <1>11, <1>12, <1>13, <1>14 DEF IInv

LEMMA IndexerPutsInv ==
    ASSUME IInv, IndexerPuts
    PROVE  IInv'
<1> DEFINE entry == Head(backlog)
<1> DEFINE r == entry.record
<1>1. /\ backlog # <<>> /\ backlog' = Tail(backlog)
      /\ UNCHANGED <<today, request, dayOf, phase, watching, queue, hand, current,
                     plain, packed, rotator, lost>>
  BY DEF IndexerPuts, disk
<1>2. \/ index' = [index EXCEPT ![r] = entry.row] /\ faults' = faults /\ failed' = failed
      \/ Fault /\ failed' = failed \union {r} /\ index' = index
  BY DEF IndexerPuts
<1>3. /\ entry \in IndexedRecord /\ entry = backlog[1] /\ 1 \in 1 .. Len(backlog)
      /\ backlog' \in Seq(IndexedRecord) /\ Len(backlog') <= Cap
      /\ \A s : InBacklog(s)' <=> InBacklog(s) /\ s # r
      /\ \A i, j \in 1 .. Len(backlog') : backlog'[i].record = backlog'[j].record => i = j
      /\ \A i \in 1 .. Len(backlog') :
            i + 1 \in 1 .. Len(backlog) /\ backlog'[i] = backlog[i + 1]
  BY <1>1, BacklogTail DEF IInv
<1>4. r \in Records /\ entry.row \in Row /\ InBacklog(r) /\ entry.row # NoRow
  BY <1>3, Arithmetic DEF IndexedRecord, InBacklog
<1>5. Placed(r, entry.row)
  BY <1>3 DEF IInv, Rows
<1> HIDE DEF entry
<1>6. \A s \in Records : index'[s] = index[s] \/ (s = r /\ index'[s] = entry.row)
  BY <1>2 DEF IInv, Types
<1>7. \A s : /\ InQueue(s)' <=> InQueue(s)
             /\ InHand(s)' <=> InHand(s)
  BY <1>1 DEF InQueue, InHand
<1>8. \A s \in Records : Settled(s)' <=> Settled(s) \/ s = r
  <2>1. CASE index' = [index EXCEPT ![r] = entry.row] /\ failed' = failed
    <3>1. \A s \in Records : index'[s] = IF s = r THEN entry.row ELSE index[s]
      BY <2>1, <1>4 DEF IInv, Types
    <3>2. QED
      BY <2>1, <3>1, <1>4 DEF Settled
  <2>2. CASE failed' = failed \union {r} /\ index' = index
    BY <2>2 DEF Settled
  <2>3. QED
    BY <1>2, <2>1, <2>2
<1> HIDE DEF r
<1>9. faults' \in 0 .. MaxFaults /\ faults <= faults'
  BY <1>2, Arithmetic DEF IInv, Types, Fault
<1>10. Types'
  BY <1>1, <1>2, <1>3, <1>4, <1>9 DEF IInv, Types
<1>11. ClosedLast'
  <2>1. backlog # <<>>
    BY <1>1
  <2>2. QED
    BY <1>1, <2>1 DEF IInv, ClosedLast
<1>12. WaitsNotLong'
  BY <1>1, <1>7 DEF IInv, WaitsNotLong, Past
<1>13. Once'
  <2>1. \A i, j \in 1 .. Len(queue') : queue'[i] = queue'[j] => i = j
    BY <1>1 DEF IInv, Once
  <2>2. \A s \in Records :
          /\ InQueue(s)' => ~InHand(s)' /\ ~InBacklog(s)' /\ ~Settled(s)'
          /\ InHand(s)' => ~InBacklog(s)' /\ ~Settled(s)'
          /\ InBacklog(s)' => ~Settled(s)'
    BY <1>3, <1>4, <1>7, <1>8 DEF IInv, Once
  <2>3. QED
    BY <1>3, <2>1, <2>2 DEF Once
<1>14. Accepted'
  BY <1>1, <1>3, <1>4, <1>7, <1>8 DEF IInv, Accepted
<1>15. Stored'
  <2>1. \A s \in Records : request[s] = "written" =>
            request'[s] = "written" /\ (InQueue(s)' => InQueue(s))
    BY <1>1, <1>7
  <2>2. QED
    BY <1>1, <1>9, <1>10, <2>1, StoredFrame DEF IInv
<1>16. PastDays' /\ Archives'
  BY <1>1 DEF IInv, PastDays, Past, Archives
<1>17. Rows'
  <2>1. \A s, row : Placed(s, row)' <=> Placed(s, row)
    BY <1>1 DEF Placed, Past
  <2>2. \A s \in Records : index'[s] # NoRow => Placed(s, index'[s])
    BY <1>5, <1>6 DEF IInv, Rows
  <2>3. \A i \in 1 .. Len(backlog') : Placed(backlog'[i].record, backlog'[i].row)
    BY <1>3 DEF IInv, Rows
  <2>4. QED
    BY <1>1, <2>1, <2>2, <2>3 DEF IInv, Rows
<1>18. QED
  BY <1>10, <1>11, <1>12, <1>13, <1>14, <1>15, <1>16, <1>17 DEF IInv

\* What an append can do: at most one line more in the file of the record's day,
\* which rotation does not touch.
LEMMA WriterAppendsFacts ==
    ASSUME IInv, WriterAppends, NEW r \in Records, r = Head(queue), NEW d \in Days,
           d = dayOf[r]
    PROVE  /\ ~Past(d)
           /\ faults' \in 0 .. MaxFaults /\ faults <= faults'
           /\ current' \in [day : Days, file : {"none", "open", "unlinked", "closed"}]
           /\ current'.file = "unlinked" => Past(current'.day)
           /\ \/ plain' = plain
              \/ \E x \in {r, None} : plain' = [plain EXCEPT ![d] = Append(@, x)]
           /\ \/ /\ hand' = None /\ failed' = failed \union {r}
                 /\ plain' = plain \/ plain' = [plain EXCEPT ![d] = Append(@, None)]
              \/ /\ hand' = [record |-> r, row |-> [day |-> d, at |-> Len(plain[d]) + 1]]
                 /\ plain' = [plain EXCEPT ![d] = Append(@, r)]
                 /\ failed' = failed
<1>1. ~Past(d)
  <2>1. queue # <<>>
    BY DEF WriterAppends
  <2>2. queue \in Seq(Records)
    BY DEF IInv, Types
  <2>3. InQueue(r)
    <3>1. Len(queue) \in Nat \ {0} /\ Head(queue) = queue[1]
      BY <2>1, <2>2, TailFacts
    <3>2. QED
      BY <3>1 DEF InQueue
  <2>4. QED
    BY <2>3 DEF IInv, WaitsNotLong
<1>2. Appended(r, d) \/ Rejected(r, d)
  BY DEF WriterAppends
<1>3. /\ current \in [day : Days, file : {"none", "open", "unlinked", "closed"}]
      /\ current.file = "unlinked" => Past(current.day)
      /\ faults \in 0 .. MaxFaults /\ MaxFaults \in Nat
  BY Arithmetic DEF IInv, Types, PastDays
<1>4. Today(d) => current.file # "unlinked"
  BY <1>1, <1>3 DEF Today
<1>5. CASE Appended(r, d)
  <2>1. plain' = [plain EXCEPT ![d] = Append(@, r)]
    BY <1>4, <1>5 DEF Appended
  <2>2. current' = current \/ current' = [day |-> d, file |-> "open"]
    BY <1>5 DEF Appended
  <2>3. faults' = faults
    BY <1>5 DEF Appended
  <2>4. /\ current' \in [day : Days, file : {"none", "open", "unlinked", "closed"}]
        /\ current'.file = "unlinked" => Past(current'.day)
    BY <1>3, <2>2
  <2>5. hand' = [record |-> r, row |-> [day |-> d, at |-> Len(plain[d]) + 1]]
        /\ failed' = failed
    BY <1>5 DEF Appended, WriterAppends
  <2>6. \E x \in {r, None} : plain' = [plain EXCEPT ![d] = Append(@, x)]
    BY <2>1
  <2>7. faults' \in 0 .. MaxFaults /\ faults <= faults'
    BY <1>3, <2>3
  <2>8. QED
    BY <1>1, <2>1, <2>4, <2>5, <2>6, <2>7
<1>6. CASE Rejected(r, d)
  <2>1. \/ current' = current \/ current' = [day |-> d, file |-> "open"]
        \/ current' = [current EXCEPT !.file = "closed"]
        \/ current' = [current EXCEPT !.file = "none"]
    BY <1>6 DEF Rejected
  <2>2. /\ current' \in [day : Days, file : {"none", "open", "unlinked", "closed"}]
        /\ current'.file = "unlinked" => Past(current'.day)
    BY <1>3, <2>1
  <2>3. faults' \in 0 .. MaxFaults /\ faults <= faults'
    <3>1. faults' = faults \/ Fault
      BY <1>6 DEF Rejected
    <3>2. QED
      BY <1>3, <3>1 DEF Fault
  <2>4. plain' = plain \/ plain' = [plain EXCEPT ![d] = Append(@, None)]
    BY <1>6 DEF Rejected, Torn
  <2>5. QED
    BY <1>1, <1>6, <2>2, <2>3, <2>4 DEF Rejected
<1>7. QED
  BY <1>2, <1>5, <1>6

LEMMA WriterAppendsInv ==
    ASSUME IInv, WriterAppends
    PROVE  IInv'
<1>. SUFFICES ASSUME NEW r, r = Head(queue), NEW d, d = dayOf[r]
     PROVE  IInv'
  OBVIOUS
<1>1. /\ queue # <<>> /\ queue' = Tail(queue) /\ hand = None /\ Up
      /\ UNCHANGED <<today, request, dayOf, phase, watching, backlog, index, packed,
                     rotator, lost>>
  BY DEF WriterAppends
<1>2. /\ r \in Records /\ InQueue(r)
      /\ queue' \in Seq(Records) /\ Len(queue') <= Cap
      /\ \A s : InQueue(s)' <=> InQueue(s) /\ s # r
      /\ \A i, j \in 1 .. Len(queue') : queue'[i] = queue'[j] => i = j
  BY <1>1, QueueTail DEF IInv
<1>3. d \in Days
  BY <1>2 DEF IInv, Types
<1>4. /\ ~Past(d)
      /\ faults' \in 0 .. MaxFaults /\ faults <= faults'
      /\ current' \in [day : Days, file : {"none", "open", "unlinked", "closed"}]
      /\ current'.file = "unlinked" => Past(current'.day)
      /\ \/ plain' = plain
         \/ \E x \in {r, None} : plain' = [plain EXCEPT ![d] = Append(@, x)]
      /\ \/ hand' = None /\ failed' = failed \union {r}
         \/ /\ hand' = [record |-> r, row |-> [day |-> d, at |-> Len(plain[d]) + 1]]
            /\ plain' = [plain EXCEPT ![d] = Append(@, r)]
            /\ failed' = failed
  BY <1>2, <1>3, WriterAppendsFacts
<1>5. request[r] = "written" /\ ~InBacklog(r) /\ ~Settled(r)
  BY <1>2 DEF IInv, Once, Accepted
<1>6. \A s : InBacklog(s)' <=> InBacklog(s)
  BY <1>1 DEF InBacklog
<1>7. /\ Taken \in SUBSET Taken' /\ Taken' \in SUBSET Records /\ r \in Taken' \ Taken
  BY <1>1, <1>2, <1>5 DEF Taken
<1>8. /\ Cardinality(Taken) \in Nat /\ Cardinality(Taken') \in Nat
      /\ Cardinality(Taken) + 1 <= Cardinality(Taken') /\ Cardinality(Taken') <= MaxRecords
  BY <1>7, TakenBounds
<1>9. /\ faults \in Nat /\ faults' \in Nat /\ faults <= MaxFaults
      /\ MaxFaults \in Nat /\ MaxRecords \in Nat
  BY <1>4, Arithmetic DEF IInv, Types
<1>10. \A e \in Days :
        /\ plain[e] \in Seq(Records \union {None}) /\ Len(plain[e]) \in Nat
        /\ Len(plain[e]) <= Cardinality(Taken) + faults
  BY LenProperties DEF IInv, Types, Lines, Stored
<1>11. \A e \in Days : 
         \/ plain'[e] = plain[e]
         \/ e = d /\ \E x \in {r, None} : plain'[e] = Append(plain[e], x)
  BY <1>4, SMTT(30) DEF IInv, Types
<1>12. \A e \in Days :
        /\ plain'[e] \in Seq(Records \union {None})
        /\ Len(plain'[e]) \in Nat /\ Len(plain[e]) <= Len(plain'[e])
        /\ Len(plain'[e]) <= Len(plain[e]) + 1
        /\ plain[e] # <<>> => plain'[e] # <<>>
        /\ \A i \in 1 .. Len(plain[e]) : plain'[e][i] = plain[e][i]
        /\ \A i \in 1 .. Len(plain'[e]) :
             i \in 1 .. Len(plain[e]) \/ plain'[e][i] \in {r, None}
  <2>. SUFFICES ASSUME NEW e \in Days, NEW x \in {r, None}, plain'[e] = Append(plain[e], x)
       PROVE  /\ plain'[e] \in Seq(Records \union {None})
              /\ Len(plain'[e]) = Len(plain[e]) + 1
              /\ plain'[e] # <<>>
              /\ \A i \in 1 .. Len(plain[e]) : plain'[e][i] = plain[e][i]
              /\ plain'[e][Len(plain[e]) + 1] = x
    BY <1>10, <1>11
  <2>1. plain[e] \in Seq(Records \union {None}) /\ x \in Records \union {None}
    BY <1>2, <1>10
  <2>2. QED
    BY <2>1, AppendFacts
<1>13. hand' = None \/ (InHand(r)' /\ hand' \in IndexedRecord)
  <2>. SUFFICES ASSUME
         hand' = [record |-> r, row |-> [day |-> d, at |-> Len(plain[d]) + 1]]
       PROVE  InHand(r)' /\ hand' \in IndexedRecord
    BY <1>4
  <2>1. Len(plain[d]) + 1 \in 1 .. MaxRecords + MaxFaults
    BY <1>3, <1>8, <1>9, <1>10
  <2>2. hand' \in IndexedRecord
    BY <1>2, <1>3, <2>1 DEF IndexedRecord, Row
  <2>3. hand'.record = r /\ hand' # None
    BY <2>2, Arithmetic
  <2>4. QED
    BY <2>2, <2>3 DEF InHand
<1>14. /\ \A s : InHand(s)' => s = r
       /\ \A s \in Records : Settled(s)' <=> Settled(s) \/ (s = r /\ r \in failed')
       /\ InHand(r)' <=> r \notin failed'
  <2>1. failed' = failed \/ failed' = failed \union {r}
    BY <1>4
  <2>2. \A s : InHand(s)' => s = r
    BY <1>4 DEF InHand
  <2>3. \A s \in Records : Settled(s)' <=> Settled(s) \/ (s = r /\ r \in failed')
    BY <1>1, <1>5, <2>1 DEF Settled
  <2>4. InHand(r)' <=> r \notin failed'
    <3>1. CASE hand' = None /\ failed' = failed \union {r}
      BY <3>1 DEF InHand
    <3>2. CASE failed' = failed /\ InHand(r)'
      BY <3>2, <1>5 DEF Settled
    <3>3. ASSUME hand' = [record |-> r, row |-> [day |-> d, at |-> Len(plain[d]) + 1]]
          PROVE  InHand(r)'
      <4>1. hand' \in [record : Nat, row : [day : Nat, at : Nat]]
        BY <1>2, <1>3, <1>10, <3>3, Arithmetic
      <4>2. hand' # None
        BY <4>1, AuditAssumption
      <4>3. QED
        BY <4>2, <1>13
    <3>4. QED
      BY <3>1, <3>2, <3>3, <1>4
  <2>5. QED
    BY <2>2, <2>3, <2>4
<1>15. Types'
  <2>1. plain' \in [Days -> Lines]
    <3>1. DOMAIN plain' = Days /\ plain' = [e \in Days |-> plain'[e]]
      BY <1>4 DEF IInv, Types
    <3>2. QED
      BY <1>12, <3>1 DEF Lines
  <2>2. failed' \subseteq Records
    BY <1>2, <1>4 DEF IInv, Types
  <2>3. hand' \in IndexedRecord \union {None}
    BY <1>13
  <2>4. QED
    BY <1>1, <1>2, <1>4, <2>1, <2>2, <2>3 DEF IInv, Types
<1>16. ClosedLast'
  <2>1. phase \notin {"close_indexer", "exited"}
    BY <1>1 DEF IInv, ClosedLast
  <2>2. QED
    BY <1>1, <2>1 DEF IInv, ClosedLast
<1>17. WaitsNotLong'
  BY <1>1, <1>2 DEF IInv, WaitsNotLong, Past
<1>18. Once'
  <2>1. \A i, j \in 1 .. Len(backlog') : backlog'[i].record = backlog'[j].record => i = j
    BY <1>1 DEF IInv, Once
  <2>2. \A s \in Records :
          /\ InQueue(s)' => ~InHand(s)' /\ ~InBacklog(s)' /\ ~Settled(s)'
          /\ InHand(s)' => ~InBacklog(s)' /\ ~Settled(s)'
          /\ InBacklog(s)' => ~Settled(s)'
    BY <1>2, <1>5, <1>6, <1>14 DEF IInv, Once
  <2>3. QED
    BY <1>2, <2>1, <2>2 DEF Once
<1>19. Accepted'
  <2>1. \A s : ~InHand(s)
    BY <1>1 DEF InHand
  <2>2. QED
    BY <1>1, <1>2, <1>5, <1>6, <1>14, <2>1 DEF IInv, Accepted
<1>20. Stored'
  <2>1. \A e \in Days : Len(plain'[e]) <= Cardinality(Taken') + faults'
    BY <1>4, <1>8, <1>9, <1>10, <1>12, SMTT(30)
  <2>2. \A e \in Days : \A i \in 1 .. Len(plain'[e]) :
           plain'[e][i] = None \/ request'[plain'[e][i]] = "written"
    BY <1>1, <1>5, <1>12 DEF IInv, Stored
  <2>3. \A e \in Days : \A i \in 1 .. Len(packed'[e].lines) :
           packed'[e].lines[i] = None \/ request'[packed'[e].lines[i]] = "written"
    BY <1>1 DEF IInv, Stored
  <2>4. QED
    BY <2>1, <2>2, <2>3 DEF Stored
<1>21. PastDays'
  BY <1>1, <1>4 DEF IInv, PastDays, Past
<1>22. \A e \in Days : Past(e) => plain'[e] = plain[e]
  BY <1>4, <1>11
<1>23. Archives'
  <2>1. ASSUME NEW e \in Days, plain'[e] # <<>>, NEW i \in 1 .. Len(packed'[e].lines)
        PROVE  \E j \in 1 .. Len(plain'[e]) : plain'[e][j] = packed'[e].lines[i]
    <3>1. packed[e] # NoArchive
      BY <1>1, <2>1 DEF NoArchive
    <3>2. plain'[e] = plain[e]
      BY <1>22, <3>1 DEF IInv, PastDays
    <3>3. QED
      BY <1>1, <2>1, <3>2 DEF IInv, Archives
  <2>2. ASSUME rotator'.at = "remove"
        PROVE  packed'[rotator'.day].whole /\ packed'[rotator'.day].lines = plain'[rotator'.day]
    <3>1. Past(rotator.day) /\ rotator.day \in Days
      <4>1. Past(rotator.day)
        BY <1>1, <2>2 DEF IInv, PastDays
      <4>2. QED
        BY <4>1, Arithmetic DEF IInv, Types, Past, Days
    <3>2. QED
      BY <1>1, <1>22, <2>2, <3>1 DEF IInv, Archives
  <2>3. rotator'.at = "copy" => plain'[rotator'.day] # <<>>
    <3>1. rotator.at = "copy" => Past(rotator.day) /\ rotator.day \in Days
      BY Arithmetic DEF IInv, Types, PastDays, Past, Days
    <3>2. QED
      BY <1>1, <1>22, <3>1 DEF IInv, Archives
  <2>4. QED
    BY <2>1, <2>2, <2>3 DEF Archives
<1>24. Rows'
  <2>1. ASSUME NEW s, NEW row \in Row, Placed(s, row) PROVE Placed(s, row)'
    <3>1. row.day \in Days
      BY DEF Row
    <3>2. CASE plain[row.day] = <<>> /\ Past(row.day)
      BY <1>1, <1>22, <3>1, <3>2 DEF Placed, Past
    <3>3. CASE row.at \in 1 .. Len(plain[row.day]) /\ plain[row.day][row.at] = s
      <4>1. row.at \in 1 .. Len(plain'[row.day])
        BY <1>10, <1>12, <3>1, <3>3
      <4>2. QED
        BY <1>12, <3>1, <3>3, <4>1 DEF Placed
    <3>4. QED
      BY <2>1, <3>2, <3>3 DEF Placed
  <2>2. \A s \in Records : index'[s] # NoRow => Placed(s, index[s])'
    <3>1. \A s \in Records : index'[s] # NoRow =>
            index'[s] = index[s] /\ index[s] \in Row /\ Placed(s, index[s])
      BY <1>1 DEF IInv, Types, Rows
    <3>2. ASSUME NEW s \in Records, index'[s] # NoRow PROVE Placed(s, index[s])'
      <4>1. PICK row \in Row : row = index[s] /\ row = index'[s] /\ Placed(s, row)
        BY <3>1, <3>2
      <4>2. Placed(s, row)'
        BY ONLY <2>1, <4>1
      <4>3. QED
        BY ONLY <4>1, <4>2 DEF Placed
    <3>3. QED
      BY <3>2
  <2>3. hand' # None => Placed(hand.record, hand.row)'
    <3>. SUFFICES ASSUME
         hand' = [record |-> r, row |-> [day |-> d, at |-> Len(plain[d]) + 1]],
         plain' = [plain EXCEPT ![d] = Append(@, r)]
       PROVE  Placed(hand.record, hand.row)'
      BY <1>4
    <3>1. plain'[d] = Append(plain[d], r)
      BY <1>3 DEF IInv, Types
    <3>2. plain[d] \in Seq(Records) \/ plain[d] \in Seq(Records \union {None})
      BY <1>3, <1>10
    <3>3. plain'[d][Len(plain[d]) + 1] = r /\ Len(plain'[d]) = Len(plain[d]) + 1
          /\ Len(plain[d]) \in Nat
      BY <1>2, <1>3, <1>10, <3>1, AppendFacts
    <3>4. QED
      BY <3>3 DEF Placed
  <2>4. \A i \in 1 .. Len(backlog') : Placed(backlog[i].record, backlog[i].row)'
    <3>1. ASSUME NEW i \in 1 .. Len(backlog) PROVE backlog[i].row \in Row
      <4>1. backlog \in Seq(IndexedRecord)
        BY DEF IInv, Types
      <4>2. backlog[i] \in IndexedRecord
        BY <4>1, ElementOfSeq
      <4>3. QED
        BY <4>2 DEF IndexedRecord
    <3>2. \A i \in 1 .. Len(backlog') : /\ backlog'[i] = backlog[i] /\ backlog[i].row \in Row
                                        /\ Placed(backlog[i].record, backlog[i].row)
      BY <1>1, <3>1 DEF IInv, Rows
    <3>3. \A i \in 1 .. Len(backlog') : backlog'[i] = backlog[i]
                                          /\ Placed(backlog[i].record, backlog[i].row)'
      BY <2>1, <3>2
    <3>4. QED
      BY <3>3 DEF Placed, Past
  <2>5. QED
    BY <2>2, <2>3, <2>4 DEF Rows
<1>25. QED
  BY <1>15, <1>16, <1>17, <1>18, <1>19, <1>20, <1>21, <1>23, <1>24 DEF IInv

\* The steps of the shutdown move nothing but the phase.
LEMMA PhaseInv ==
    ASSUME IInv, ClosedLast', UNCHANGED <<today, request, dayOf, queue, hand, backlog>>,
           UNCHANGED <<index, plain, packed, rotator, faults, failed, lost>>,
           current' = current \/ current' = NoFile,
           phase' \in {"serving", "draining"} \union Closing \union Ended,
           watching' \in BOOLEAN
    PROVE  IInv'
<1>1. current' \in [day : Days, file : {"none", "open", "unlinked", "closed"}]
      /\ (current'.file = "unlinked" => Past(current'.day))
  <2>1. CASE current' = current
    BY <2>1 DEF IInv, Types, PastDays
  <2>2. CASE current' = NoFile
    BY <2>2, AuditAssumption DEF NoFile, Days
  <2>3. QED
    BY <2>1, <2>2
<1>2. Types'
  BY <1>1 DEF IInv, Types
<1>3. \A s : /\ InQueue(s)' <=> InQueue(s)
             /\ InHand(s)' <=> InHand(s)
             /\ InBacklog(s)' <=> InBacklog(s)
             /\ Settled(s)' <=> Settled(s)
  BY PlacesFrame
<1>4. WaitsNotLong'
  BY <1>3 DEF IInv, WaitsNotLong, Past
<1>5. Once'
  BY <1>3 DEF IInv, Once
<1>6. Accepted'
  BY <1>3 DEF IInv, Accepted
<1>7. Stored'
  BY <1>3 DEF IInv, Stored, Taken
<1>8. PastDays'
  BY <1>1 DEF IInv, PastDays, Past
<1>9. Archives' /\ Rows'
  BY DEF IInv, Archives, Rows, Placed, Past
<1>10. QED
  BY <1>2, <1>4, <1>5, <1>6, <1>7, <1>8, <1>9 DEF IInv

LEMMA StoppingInv ==
    ASSUME IInv, Shutdown \/ Leave \/ Stopping
    PROVE  IInv'
<1>1. CASE Shutdown
  <2>1. ClosedLast'
    BY <1>1 DEF Shutdown, process, IInv, ClosedLast, Closing
  <2>2. QED
    BY <1>1, <2>1, PhaseInv DEF Shutdown, process, disk
<1>2. CASE Leave
  <2>1. ClosedLast'
    BY <1>2 DEF Leave, process, IInv, ClosedLast, Closing
  <2>2. phase' \in {"serving", "draining"} \union Closing \union Ended
    BY <1>2 DEF Leave
  <2>3. QED
    BY <1>2, <2>1, <2>2, PhaseInv DEF Leave, process, disk
<1>3. CASE Drained
  <2>1. ClosedLast'
    BY <1>3 DEF Drained, process, IInv, ClosedLast, Closing
  <2>2. phase' \in {"serving", "draining"} \union Closing \union Ended
    BY <1>3 DEF Drained, Closing
  <2>3. watching' \in BOOLEAN
    BY <1>3 DEF Drained, IInv, Types
  <2>4. QED
    BY <1>3, <2>1, <2>2, <2>3, PhaseInv DEF Drained, process, disk
<1>4. CASE WriterCloses
  <2>1. ClosedLast'
    BY <1>4 DEF WriterCloses, process, IInv, ClosedLast, Closing
  <2>2. phase' \in {"serving", "draining"} \union Closing \union Ended
    BY <1>4 DEF WriterCloses, Closing
  <2>3. watching' \in BOOLEAN
    BY <1>4 DEF WriterCloses, IInv, Types
  <2>4. QED
    BY <1>4, <2>1, <2>2, <2>3, PhaseInv DEF WriterCloses, disk
<1>5. CASE IndexerCloses
  <2>1. ClosedLast'
    BY <1>5 DEF IndexerCloses, process, IInv, ClosedLast, Closing
  <2>2. phase' \in {"serving", "draining"} \union Closing \union Ended
    BY <1>5 DEF IndexerCloses, Ended
  <2>3. watching' \in BOOLEAN
    BY <1>5 DEF IndexerCloses, IInv, Types
  <2>4. QED
    BY <1>5, <2>1, <2>2, <2>3, PhaseInv DEF IndexerCloses, process, disk
<1>6. QED
  BY <1>1, <1>2, <1>3, <1>4, <1>5 DEF Stopping

LEMMA CrashInv ==
    ASSUME IInv, Crash
    PROVE  IInv'
<1>1. /\ phase' = "serving" /\ watching' = FALSE
      /\ queue' = <<>> /\ hand' = None /\ current' = NoFile /\ backlog' = <<>>
      /\ \A r \in Records :
            request'[r] = IF request[r] = "writing" THEN "gone" ELSE request[r]
      /\ lost' = lost \union {r \in Records : Unindexed(r)}
      /\ UNCHANGED <<today, dayOf, index, plain, packed, rotator, failed>>
  BY DEF Crash, disk
<1>2. faults' \in 0 .. MaxFaults /\ faults <= faults'
  BY Arithmetic DEF IInv, Types, Crash, Fault
<1>3. \A r : ~InQueue(r)' /\ ~InHand(r)' /\ ~InBacklog(r)' /\ (Settled(r)' <=> Settled(r))
  BY <1>1 DEF InQueue, InHand, InBacklog, Settled
<1>4. Types'
  <2>1. request' \in [Records -> {"none", "writing", "written", "gone"}]
    BY DEF IInv, Types, Crash
  <2>2. /\ queue' \in Seq(Records) /\ Len(queue') <= Cap
        /\ backlog' \in Seq(IndexedRecord) /\ Len(backlog') <= Cap
    BY <1>1, Arithmetic
  <2>3. current' \in [day : Days, file : {"none", "open", "unlinked", "closed"}]
    BY <1>1, AuditAssumption DEF NoFile, Days
  <2>4. lost' \subseteq Records
    BY <1>1 DEF IInv, Types
  <2>5. QED
    BY <1>1, <1>2, <2>1, <2>2, <2>3, <2>4 DEF IInv, Types
<1>5. ClosedLast'
  BY <1>1 DEF ClosedLast, Closing
<1>6. WaitsNotLong'
  BY <1>1, <1>3 DEF IInv, WaitsNotLong, Past
<1>7. Once'
  BY <1>1, <1>3 DEF Once
<1>8. Accepted'
  <2>1. ASSUME NEW r \in Records, request'[r] = "written" PROVE Settled(r)' \/ r \in lost'
    <3>1. request[r] = "written"
      BY <1>1, <2>1
    <3>2. Settled(r) \/ Unindexed(r)
      BY <3>1 DEF Settled, Unindexed
    <3>3. QED
      BY <1>1, <1>3, <3>2
  <2>2. ASSUME NEW r \in Records, Settled(r)' PROVE request'[r] = "written"
    BY <1>1, <1>3, <2>2 DEF IInv, Accepted
  <2>3. QED
    BY <1>3, <2>1, <2>2 DEF Accepted
<1>9. Stored'
  <2>1. \A s \in Records : request[s] = "written" =>
            request'[s] = "written" /\ (InQueue(s)' => InQueue(s))
    BY <1>1, <1>3
  <2>2. QED
    BY <1>1, <1>2, <1>4, <2>1, StoredFrame DEF IInv
<1>10. PastDays'
  <2>1. current'.file # "unlinked"
    BY <1>1 DEF NoFile
  <2>2. QED
    BY <1>1, <2>1 DEF IInv, PastDays, Past
<1>11. Archives'
  BY <1>1 DEF IInv, Archives
<1>12. Rows'
  BY <1>1 DEF IInv, Rows, Placed, Past
<1>13. QED
  BY <1>4, <1>5, <1>6, <1>7, <1>8, <1>9, <1>10, <1>11, <1>12 DEF IInv

LEMMA NextDayInv ==
    ASSUME IInv, NextDay
    PROVE  IInv'
<1>1. /\ today \in Nat /\ today' = today + 1 /\ today < MaxDay /\ MaxDay \in Nat
      /\ \A r \in Records : dayOf[r] \in Nat
  BY Arithmetic DEF NextDay, IInv, Types
<1>2. UNCHANGED <<request, dayOf, phase, watching, queue, hand, current, backlog, index, plain,
                  packed, rotator, faults, failed, lost>>
  BY DEF NextDay, process, disk
<1>3. Types'
  <2>1. today' \in Days
    BY <1>1 DEF Days
  <2>2. QED
    BY <1>2, <2>1 DEF IInv, Types
<1>4. \A s : /\ InQueue(s)' <=> InQueue(s)
             /\ InHand(s)' <=> InHand(s)
             /\ InBacklog(s)' <=> InBacklog(s)
             /\ Settled(s)' <=> Settled(s)
  BY <1>2, PlacesFrame
<1>5. WaitsNotLong'
  <2>1. ASSUME NEW r \in Records, request[r] = "writing" \/ InQueue(r) PROVE dayOf[r] = today
    <3>1. CASE request[r] = "writing"
      BY <3>1 DEF NextDay
    <3>2. CASE InQueue(r)
      <4>1. queue \in Seq(Records)
        BY DEF IInv, Types
      <4>2. DOMAIN queue = 1 .. Len(queue)
        BY <4>1, LenProperties
      <4>3. r \in Range(queue)
        BY <3>2, <4>2 DEF InQueue, Range
      <4>4. QED
        BY <4>3 DEF NextDay
    <3>3. QED
      BY <2>1, <3>1, <3>2
  <2>2. QED
    BY <1>1, <1>2, <1>4, <2>1 DEF IInv, WaitsNotLong, Past
<1>6. \A d \in Nat : Past(d) => Past(d)'
  BY <1>1 DEF Past
<1>7. ClosedLast' /\ Archives'
  BY <1>2 DEF IInv, ClosedLast, Archives
<1>8. Once'
  BY <1>2, <1>4 DEF IInv, Once
<1>9. Accepted'
  BY <1>2, <1>4 DEF IInv, Accepted
<1>10. Stored'
  <2>1. faults <= faults'
    BY <1>2, Arithmetic DEF IInv, Types
  <2>2. QED
    BY <1>2, <1>3, <1>4, <2>1, StoredFrame DEF IInv
<1>11. PastDays'
  <2>1. current.day \in Nat /\ rotator.day \in Nat /\ rotator.now \in Nat /\ Days \subseteq Nat
    <3>1. current.day \in Days /\ rotator.day \in 0 .. MaxDay + 1 /\ rotator.now \in Days
      BY DEF IInv, Types
    <3>2. MaxDay \in Nat /\ Days \subseteq Nat
      BY Arithmetic
    <3>3. rotator.day \in Nat
      BY <3>1, <3>2
    <3>4. current.day \in Nat /\ rotator.now \in Nat
      BY <3>1, <3>2
    <3>5. QED
      BY <3>2, <3>3, <3>4
  <2>2. rotator'.now <= today'
    BY <1>1, <1>2, <2>1 DEF IInv, PastDays
  <2>3. QED
    BY <1>2, <1>6, <2>1, <2>2 DEF IInv, PastDays
<1>12. Rows'
  <2>1. ASSUME NEW s, NEW row \in Row, Placed(s, row)
        PROVE  \/ plain'[row.day] = <<>> /\ row.day + 1 < today'
               \/ row.at \in 1 .. Len(plain'[row.day]) /\ plain'[row.day][row.at] = s
    <3>1. row.day \in Nat
      BY Arithmetic DEF Row
    <3>2. QED
      BY <1>1, <1>2, <2>1, <3>1 DEF Placed, Past
  <2>2. \A s \in Records : index[s] # NoRow => Placed(s, index[s])'
    <3>1. \A s \in Records : index[s] # NoRow => index[s] \in Row /\ Placed(s, index[s])
      BY DEF IInv, Types, Rows
    <3>2. ASSUME NEW s \in Records, index[s] # NoRow PROVE Placed(s, index[s])'
      <4>1. index'[s] = index[s] /\ index[s] \in Row /\ Placed(s, index[s])
        BY <1>2, <3>1, <3>2
      <4>2. QED
        BY <2>1, <4>1 DEF Placed, Past
    <3>3. QED
      BY <3>2
  <2>3. hand # None => Placed(hand.record, hand.row)'
    <3>1. hand # None => hand.row \in Row /\ Placed(hand.record, hand.row)
      BY DEF IInv, Types, Rows, IndexedRecord
    <3>2. QED
      BY <1>2, <2>1, <3>1 DEF Placed, Past
  <2>4. \A i \in 1 .. Len(backlog) : Placed(backlog[i].record, backlog[i].row)'
    <3>1. ASSUME NEW i \in 1 .. Len(backlog) PROVE backlog[i].row \in Row
      <4>1. backlog[i] \in IndexedRecord
        BY ElementOfSeq DEF IInv, Types
      <4>2. QED
        BY <4>1 DEF IndexedRecord
    <3>2. ASSUME NEW i \in 1 .. Len(backlog)
          PROVE  Placed(backlog[i].record, backlog[i].row)'
      <4>1. /\ backlog'[i] = backlog[i] /\ backlog[i].row \in Row
            /\ Placed(backlog[i].record, backlog[i].row)
        BY <1>2, <3>1 DEF IInv, Rows
      <4>2. QED
        BY <2>1, <4>1 DEF Placed, Past
    <3>3. QED
      BY <3>2
  <2>5. QED
    BY <1>2, <2>2, <2>3, <2>4 DEF Rows, Placed, Past
<1>13. QED
  BY <1>3, <1>5, <1>7, <1>8, <1>9, <1>10, <1>11, <1>12 DEF IInv

\* What no step of RotateAndPrune touches, and what it needs to show.
LEMMA RotationInv ==
    ASSUME IInv, UNCHANGED <<today, request, dayOf, phase, watching>>,
           UNCHANGED <<queue, hand, backlog, index, failed, lost>>,
           faults' \in 0 .. MaxFaults, faults <= faults',
           current' \in [day : Days, file : {"none", "open", "unlinked", "closed"}],
           plain' \in [Days -> Lines],
           packed' \in [Days -> [lines : Lines, whole : BOOLEAN]],
           rotator' \in [at : {"idle", "next", "copy", "remove"}, now : Days,
                         day : 0 .. MaxDay + 1],
           \A d \in Days : plain'[d] = plain[d] \/ (plain'[d] = <<>> /\ Past(d)),
           \A d \in Days : \/ packed'[d].lines = packed[d].lines
                           \/ packed'[d].lines = plain[d] \/ packed'[d].lines = <<>>,
           PastDays', Archives'
    PROVE  IInv'
<1>1. Types'
  BY DEF IInv, Types
<1>2. \A s : /\ InQueue(s)' <=> InQueue(s)
             /\ InHand(s)' <=> InHand(s)
             /\ InBacklog(s)' <=> InBacklog(s)
             /\ Settled(s)' <=> Settled(s)
  BY PlacesFrame
<1>3. ClosedLast'
  BY DEF IInv, ClosedLast
<1>4. WaitsNotLong'
  BY <1>2 DEF IInv, WaitsNotLong, Past
<1>5. Once'
  BY <1>2 DEF IInv, Once
<1>6. Accepted'
  BY <1>2 DEF IInv, Accepted
<1>7. Stored'
  BY <1>1, <1>2, StoredFrame DEF IInv
<1>8. Rows'
  <2>1. ASSUME NEW s, NEW row \in Row, Placed(s, row)
        PROVE  \/ plain'[row.day] = <<>> /\ row.day + 1 < today'
               \/ row.at \in 1 .. Len(plain'[row.day]) /\ plain'[row.day][row.at] = s
    <3>1. row.day \in Days
      BY DEF Row
    <3>2. QED
      BY <2>1, <3>1 DEF Placed, Past
  <2>2. ASSUME NEW s \in Records, index[s] # NoRow PROVE Placed(s, index[s])'
    <3>1. index'[s] = index[s] /\ index[s] \in Row /\ Placed(s, index[s])
      BY <2>2 DEF IInv, Types, Rows
    <3>2. PICK row \in Row : row = index[s] /\ row = index'[s] /\ Placed(s, row)
      BY <3>1
    <3>3. \/ plain'[row.day] = <<>> /\ row.day + 1 < today'
          \/ row.at \in 1 .. Len(plain'[row.day]) /\ plain'[row.day][row.at] = s
      BY ONLY <2>1, <3>2
    <3>4. QED
      BY ONLY <3>2, <3>3 DEF Placed, Past
  <2>3. hand # None => Placed(hand.record, hand.row)'
    <3>1. CASE hand # None
      <4>1. PICK x : x = hand /\ x.row \in Row /\ Placed(x.record, x.row)
        BY <3>1 DEF IInv, Types, Rows, IndexedRecord
      <4>2. \/ plain'[x.row.day] = <<>> /\ x.row.day + 1 < today'
            \/ /\ x.row.at \in 1 .. Len(plain'[x.row.day])
               /\ plain'[x.row.day][x.row.at] = x.record
        BY ONLY <2>1, <4>1
      <4>3. hand' = hand
        OBVIOUS
      <4>4. QED
        BY ONLY <4>1, <4>2, <4>3 DEF Placed, Past
    <3>2. QED
      BY <3>1
  <2>4. ASSUME NEW i \in 1 .. Len(backlog) PROVE Placed(backlog[i].record, backlog[i].row)'
    <3>1. backlog[i] \in IndexedRecord
      BY ElementOfSeq DEF IInv, Types
    <3>2. backlog'[i] = backlog[i] /\ backlog[i].row \in Row
      BY <3>1 DEF IndexedRecord
    <3>3. Placed(backlog[i].record, backlog[i].row)
      BY DEF IInv, Rows
    <3>4. PICK x \in IndexedRecord :
            /\ x = backlog[i] /\ x = backlog'[i]
            /\ x.row \in Row /\ Placed(x.record, x.row)
      BY <3>1, <3>2, <3>3
    <3>5. \/ plain'[x.row.day] = <<>> /\ x.row.day + 1 < today'
          \/ /\ x.row.at \in 1 .. Len(plain'[x.row.day])
             /\ plain'[x.row.day][x.row.at] = x.record
      BY ONLY <2>1, <3>4
    <3>6. QED
      BY ONLY <3>4, <3>5 DEF Placed, Past
  <2>5. QED
    BY <2>2, <2>3, <2>4 DEF Rows, Placed, Past
<1>9. QED
  BY <1>1, <1>3, <1>4, <1>5, <1>6, <1>7, <1>8 DEF IInv

\* A file is unlinked when its day is past; a writer that has it open keeps it so.
LEMMA UnlinkFacts ==
    ASSUME IInv, NEW d \in Days, Past(d), Unlink(d)
    PROVE  /\ plain' \in [Days -> Lines]
           /\ \A e \in Days : plain'[e] = IF e = d THEN <<>> ELSE plain[e]
           /\ current' \in [day : Days, file : {"none", "open", "unlinked", "closed"}]
           /\ current'.file = "unlinked" => Past(current'.day)
<1>1. <<>> \in Lines
  BY DEF Lines
<1>2. plain' \in [Days -> Lines] /\ \A e \in Days : plain'[e] = IF e = d THEN <<>> ELSE plain[e]
  BY <1>1 DEF IInv, Types, Unlink
<1>3. /\ current \in [day : Days, file : {"none", "open", "unlinked", "closed"}]
      /\ current.file = "unlinked" => Past(current.day)
  BY DEF IInv, Types, PastDays
<1>4. \/ current' = current
      \/ current.day = d /\ current' = [current EXCEPT !.file = "unlinked"]
  BY DEF Unlink
<1>5. \/ current' = current
      \/ current'.day = d /\ current' = [day |-> d, file |-> "unlinked"]
  BY <1>3, <1>4
<1>6. /\ current' \in [day : Days, file : {"none", "open", "unlinked", "closed"}]
      /\ current'.file = "unlinked" => Past(current'.day)
  BY <1>3, <1>5
<1>7. QED
  BY <1>2, <1>6

LEMMA OldIsPast ==
    ASSUME IInv, NEW d \in Days, Expired(d) \/ Compressible(d)
    PROVE  Past(d)
<1>1. \/ Retention > 0 /\ rotator.now - d > Retention
      \/ CompressAfter > 0 /\ rotator.now - d > CompressAfter
  BY DEF Expired, Compressible, Old
<1>2. rotator.now \in Days /\ today \in Days /\ rotator.now <= today
  BY DEF IInv, Types, PastDays
<1>3. {rotator.now, today, d, Retention, CompressAfter} \subseteq Nat
  BY <1>2, Arithmetic
<1>4. rotator.now - d >= 2
  BY <1>1, <1>3
<1>5. QED
  BY <1>2, <1>3, <1>4 DEF Past

LEMMA NextOfDay == \A d \in Days : d \in 0 .. MaxDay + 1 /\ d + 1 \in 0 .. MaxDay + 1
BY Arithmetic DEF Days

LEMMA RotateBeginsOrEndsInv ==
    ASSUME IInv, Rotate \/ RotateEnds \/ RotateFails
    PROVE  IInv'
<1>1. /\ UNCHANGED <<today, request, dayOf, phase, watching>>
      /\ UNCHANGED <<queue, hand, backlog, index, failed, lost>>
      /\ UNCHANGED <<current, plain, packed>>
  BY DEF Rotate, RotateEnds, RotateFails, process, disk
<1>2. faults' \in 0 .. MaxFaults /\ faults <= faults'
  <2>1. faults' = faults \/ Fault
    BY DEF Rotate, RotateEnds, RotateFails
  <2>2. QED
    BY <2>1, Arithmetic DEF IInv, Types, Fault
<1>3. rotator' = Resting \/ rotator' = [at |-> "next", now |-> today, day |-> 0]
  BY DEF Rotate, RotateEnds, RotateFails
<1>4. today \in Days /\ 0 \in Days /\ 0 \in 0 .. MaxDay + 1 /\ Days \subseteq Nat
  BY Arithmetic DEF IInv, Types, Days
<1>5. rotator' \in [at : {"idle", "next", "copy", "remove"}, now : Days, day : 0 .. MaxDay + 1]
  BY <1>3, <1>4 DEF Resting
<1>6. rotator'.now <= today /\ rotator'.at \notin {"copy", "remove"}
  BY <1>3, <1>4 DEF Resting
<1>7. PastDays'
  BY <1>1, <1>6 DEF IInv, PastDays, Past
<1>8. Archives'
  BY <1>1, <1>6 DEF IInv, Archives
<1>9. /\ current' \in [day : Days, file : {"none", "open", "unlinked", "closed"}]
      /\ plain' \in [Days -> Lines]
      /\ packed' \in [Days -> [lines : Lines, whole : BOOLEAN]]
  BY <1>1 DEF IInv, Types
<1>10. QED
  BY <1>1, <1>2, <1>5, <1>7, <1>8, <1>9, RotationInv

LEMMA RotateDayInv ==
    ASSUME IInv, NEW d \in Days, RotateDay(d)
    PROVE  IInv'
<1>1. /\ UNCHANGED <<today, request, dayOf, phase, watching>>
      /\ UNCHANGED <<queue, hand, backlog, index, faults, failed, lost>>
  BY DEF RotateDay
<1>2. Past(d)
  BY OldIsPast DEF RotateDay, Due
<1>3. faults' \in 0 .. MaxFaults /\ faults <= faults'
  BY <1>1, Arithmetic DEF IInv, Types
<1>4. <<>> \in Lines
  BY DEF Lines
<1>5. CASE Expired(d)
  <2>1. /\ Unlink(d) /\ packed' = [packed EXCEPT ![d] = NoArchive]
        /\ rotator' = [rotator EXCEPT !.at = "next", !.day = d + 1]
    BY <1>5 DEF RotateDay, Rotating
  <2>2. /\ plain' \in [Days -> Lines]
        /\ \A e \in Days : plain'[e] = IF e = d THEN <<>> ELSE plain[e]
        /\ current' \in [day : Days, file : {"none", "open", "unlinked", "closed"}]
        /\ current'.file = "unlinked" => Past(current'.day)
    BY <1>2, <2>1, UnlinkFacts
  <2>3. /\ packed' \in [Days -> [lines : Lines, whole : BOOLEAN]]
        /\ \A e \in Days : packed'[e] = IF e = d THEN NoArchive ELSE packed[e]
    BY <1>4, <2>1 DEF IInv, Types, NoArchive
  <2>4. /\ rotator' \in [at : {"idle", "next", "copy", "remove"}, now : Days,
                         day : 0 .. MaxDay + 1]
        /\ rotator'.now = rotator.now /\ rotator'.at = "next"
    BY <2>1, NextOfDay DEF IInv, Types
  <2>5. PastDays'
    BY <1>1, <2>2, <2>3, <2>4 DEF IInv, PastDays, Past
  <2>6. Archives'
    <3>1. ASSUME NEW e \in Days, plain'[e] # <<>> PROVE e # d
      BY <2>2, <3>1
    <3>2. QED
      BY <2>2, <2>3, <2>4, <3>1 DEF IInv, Archives
  <2>7. \A e \in Days : packed'[e].lines = packed[e].lines \/ packed'[e].lines = <<>>
    BY <2>3 DEF NoArchive
  <2>8. QED
    BY <1>1, <1>2, <1>3, <2>2, <2>3, <2>4, <2>5, <2>6, <2>7, RotationInv
<1>6. CASE ~Expired(d)
  <2>1. /\ packed' = [packed EXCEPT ![d] = [lines |-> <<>>, whole |-> FALSE]]
        /\ rotator' = [rotator EXCEPT !.at = "copy", !.day = d]
        /\ UNCHANGED <<plain, current>> /\ plain[d] # <<>>
    BY <1>6 DEF RotateDay, Rotating, Due, Compressible
  <2>2. /\ packed' \in [Days -> [lines : Lines, whole : BOOLEAN]]
        /\ \A e \in Days :
              packed'[e] = IF e = d THEN [lines |-> <<>>, whole |-> FALSE] ELSE packed[e]
    BY <1>4, <2>1 DEF IInv, Types
  <2>3. /\ rotator' \in [at : {"idle", "next", "copy", "remove"}, now : Days,
                         day : 0 .. MaxDay + 1]
        /\ rotator'.now = rotator.now /\ rotator'.at = "copy" /\ rotator'.day = d
    BY <2>1, NextOfDay DEF IInv, Types
  <2>4. PastDays'
    BY <1>1, <1>2, <2>1, <2>2, <2>3 DEF IInv, PastDays, Past
  <2>5. Archives'
    BY <2>1, <2>2, <2>3 DEF IInv, Archives
  <2>6. \A e \in Days : packed'[e].lines = packed[e].lines \/ packed'[e].lines = <<>>
    BY <2>2
  <2>7. /\ current' \in [day : Days, file : {"none", "open", "unlinked", "closed"}]
        /\ plain' \in [Days -> Lines]
    BY <2>1 DEF IInv, Types
  <2>8. QED
    BY <1>1, <1>3, <2>1, <2>2, <2>3, <2>4, <2>5, <2>6, <2>7, RotationInv
<1>7. QED
  BY <1>5, <1>6

\* The day that is being compressed is a day, and past.
LEMMA RotatedDay ==
    ASSUME IInv, rotator.at \in {"copy", "remove"}
    PROVE  rotator.day \in Days /\ Past(rotator.day)
<1>1. Past(rotator.day)
  BY DEF IInv, PastDays
<1>2. rotator.day \in 0 .. MaxDay + 1 /\ today \in 0 .. MaxDay /\ MaxDay \in Nat
  BY Arithmetic DEF IInv, Types, Days
<1>3. QED
  BY <1>1, <1>2 DEF Past, Days

LEMMA CompressInv ==
    ASSUME IInv, Compress
    PROVE  IInv'
<1> DEFINE d == rotator.day
<1>1. /\ UNCHANGED <<today, request, dayOf, phase, watching>>
      /\ UNCHANGED <<queue, hand, backlog, index, faults, failed, lost, plain, current>>
      /\ packed' = [packed EXCEPT ![d] = [lines |-> plain[d], whole |-> TRUE]]
      /\ rotator' = [rotator EXCEPT !.at = "remove", !.day = d]
  BY DEF Compress, Rotating, process
<1>2. d \in Days /\ Past(d)
  BY RotatedDay DEF Compress
<1>3. faults' \in 0 .. MaxFaults /\ faults <= faults'
  BY <1>1, Arithmetic DEF IInv, Types
<1>4. /\ packed' \in [Days -> [lines : Lines, whole : BOOLEAN]]
      /\ \A e \in Days :
            packed'[e] = IF e = d THEN [lines |-> plain[d], whole |-> TRUE] ELSE packed[e]
  BY <1>1, <1>2 DEF IInv, Types
<1>5. /\ rotator' \in [at : {"idle", "next", "copy", "remove"}, now : Days,
                       day : 0 .. MaxDay + 1]
      /\ rotator'.now = rotator.now /\ rotator'.at = "remove" /\ rotator'.day = d
  BY <1>1, <1>2, NextOfDay DEF IInv, Types
<1>6. PastDays'
  BY <1>1, <1>2, <1>4, <1>5 DEF IInv, PastDays, Past
<1>7. Archives'
  BY <1>1, <1>2, <1>4, <1>5 DEF IInv, Archives
<1>8. \A e \in Days : packed'[e].lines = packed[e].lines \/ packed'[e].lines = plain[e]
  BY <1>4
<1>9. /\ current' \in [day : Days, file : {"none", "open", "unlinked", "closed"}]
      /\ plain' \in [Days -> Lines]
  BY <1>1 DEF IInv, Types
<1>10. QED
  BY <1>1, <1>3, <1>4, <1>5, <1>6, <1>7, <1>8, <1>9, RotationInv

LEMMA RemoveInv ==
    ASSUME IInv, Remove
    PROVE  IInv'
<1> DEFINE d == rotator.day
<1>1. /\ UNCHANGED <<today, request, dayOf, phase, watching>>
      /\ UNCHANGED <<queue, hand, backlog, index, faults, failed, lost, packed>>
      /\ Unlink(d) /\ rotator' = [rotator EXCEPT !.at = "next", !.day = d + 1]
  BY DEF Remove, Rotating
<1>2. d \in Days /\ Past(d)
  BY RotatedDay DEF Remove
<1> HIDE DEF d
<1>3. faults' \in 0 .. MaxFaults /\ faults <= faults'
  BY <1>1, Arithmetic DEF IInv, Types
<1>4. /\ plain' \in [Days -> Lines]
      /\ \A e \in Days : plain'[e] = IF e = d THEN <<>> ELSE plain[e]
      /\ current' \in [day : Days, file : {"none", "open", "unlinked", "closed"}]
      /\ current'.file = "unlinked" => Past(current'.day)
  BY <1>1, <1>2, UnlinkFacts
<1>5. /\ rotator' \in [at : {"idle", "next", "copy", "remove"}, now : Days,
                       day : 0 .. MaxDay + 1]
      /\ rotator'.now = rotator.now /\ rotator'.at = "next"
  BY <1>1, <1>2, NextOfDay DEF IInv, Types
<1>6. PastDays'
  BY <1>1, <1>4, <1>5 DEF IInv, PastDays, Past
<1>7. Archives'
  <2>1. ASSUME NEW e \in Days, plain'[e] # <<>> PROVE plain'[e] = plain[e]
    BY <1>4, <2>1
  <2>2. QED
    BY <1>1, <1>5, <2>1 DEF IInv, Archives
<1>8. packed' \in [Days -> [lines : Lines, whole : BOOLEAN]]
  BY <1>1 DEF IInv, Types
<1>9. QED
  BY <1>1, <1>2, <1>3, <1>4, <1>5, <1>6, <1>7, <1>8, RotationInv
-----------------------------------------------------------------------------
LEMMA InitInv == Init => IInv
<1>. SUFFICES ASSUME Init PROVE IInv
  OBVIOUS
<1>1. 0 \in Days /\ 0 \in 0 .. MaxDay + 1 /\ 0 \in 0 .. MaxFaults /\ Cap \in Nat \ {0}
  BY Arithmetic DEF Days
<1>2. /\ <<>> \in Lines /\ Len(<<>>) = 0 /\ <<>> \in Seq(Records) /\ <<>> \in Seq(IndexedRecord)
      /\ 1 .. 0 = {}
  BY DEF Lines
<1>3. Types
  <2>1. packed \in [Days -> [lines : Lines, whole : BOOLEAN]]
    BY <1>2 DEF Init, NoArchive
  <2>2. rotator \in [at : {"idle", "next", "copy", "remove"}, now : Days, day : 0 .. MaxDay + 1]
    BY <1>1 DEF Init, Resting
  <2>3. current \in [day : Days, file : {"none", "open", "unlinked", "closed"}]
    BY <1>1 DEF Init, NoFile
  <2>4. /\ queue \in Seq(Records) /\ Len(queue) <= Cap
        /\ backlog \in Seq(IndexedRecord) /\ Len(backlog) <= Cap
    BY <1>1, <1>2 DEF Init
  <2>5. /\ today \in Days /\ faults \in 0 .. MaxFaults /\ dayOf \in [Records -> Days]
        /\ index \in [Records -> Row \union {NoRow}] /\ plain \in [Days -> Lines]
    BY <1>1, <1>2 DEF Init
  <2>6. QED
    BY <2>1, <2>2, <2>3, <2>4, <2>5 DEF Init, Types
<1>4. \A r \in Records : ~InQueue(r) /\ ~InHand(r) /\ ~InBacklog(r) /\ ~Settled(r)
  BY <1>2 DEF Init, InQueue, InHand, InBacklog, Settled
<1>5. ClosedLast
  BY DEF Init, ClosedLast, Closing
<1>6. WaitsNotLong
  BY <1>1, <1>4 DEF Init, WaitsNotLong
<1>7. Once
  BY <1>2, <1>4 DEF Init, Once
<1>8. Accepted
  BY <1>4 DEF Init, Accepted
<1>9. Stored
  <2>1. Taken = {}
    BY DEF Init, Taken
  <2>2. Cardinality(Taken) = 0
    BY <2>1, FS_EmptySet
  <2>3. \A d \in Days : plain[d] = <<>> /\ packed[d].lines = <<>>
    BY DEF Init, NoArchive
  <2>4. QED
    BY <1>2, <2>2, <2>3 DEF Init, Stored
<1>10. PastDays
  <2>1. rotator.now = 0 /\ rotator.at = "idle" /\ current.file = "none" /\ today = 0
    BY DEF Init, Resting, NoFile
  <2>2. \A d \in Days : packed[d] = NoArchive
    BY DEF Init
  <2>3. QED
    BY <2>1, <2>2 DEF PastDays
<1>11. Archives
  BY DEF Init, Archives, Resting
<1>12. Rows
  BY <1>2 DEF Init, Rows
<1>13. QED
  BY <1>3, <1>5, <1>6, <1>7, <1>8, <1>9, <1>10, <1>11, <1>12 DEF IInv

LEMMA NextInv == IInv /\ [Next]_vars => IInv'
<1>. SUFFICES ASSUME IInv, [Next]_vars PROVE IInv'
  OBVIOUS
<1>1. CASE \E r \in Records : Observe(r) \/ Write(r)
  BY <1>1, ObserveInv, WriteInv
<1>2. CASE Writing \/ IndexerPuts
  BY <1>2, WriterAppendsInv, WriterEnqueuesInv, IndexerPutsInv DEF Writing
<1>3. CASE Shutdown \/ Leave \/ Stopping \/ Crash
  BY <1>3, StoppingInv, CrashInv
<1>4. CASE Rotate \/ RotateEnds \/ RotateFails
  BY <1>4, RotateBeginsOrEndsInv
<1>5. CASE (\E d \in Days : RotateDay(d)) \/ Compress \/ Remove
  BY <1>5, RotateDayInv, CompressInv, RemoveInv
<1>6. CASE NextDay
  BY <1>6, NextDayInv
<1>7. CASE UNCHANGED vars
  <2>1. /\ UNCHANGED <<today, request, dayOf, queue, hand, backlog>>
        /\ UNCHANGED <<index, plain, packed, rotator, faults, failed, lost>>
        /\ UNCHANGED <<phase, watching, current>>
    BY <1>7 DEF vars
  <2>2. ClosedLast'
    BY <2>1 DEF IInv, ClosedLast
  <2>3. /\ phase' \in {"serving", "draining"} \union Closing \union Ended
        /\ watching' \in BOOLEAN
    BY <2>1 DEF IInv, Types
  <2>4. QED
    BY <2>1, <2>2, <2>3, PhaseInv
<1>8. QED
  BY <1>1, <1>2, <1>3, <1>4, <1>5, <1>6, <1>7 DEF Next

LEMMA SafetyInv == Spec => []IInv
<1>1. Init => IInv
  BY InitInv
<1>2. IInv /\ [Next]_vars => IInv'
  BY NextInv
<1>3. QED
  BY <1>1, <1>2, PTL DEF Spec

\* The variables keep their types: the channels their bounds, and an offset the bound
\* that lines in a file have.
THEOREM AuditTypeOK == Spec => []TypeOK
<1>1. IInv => TypeOK
  BY DEF IInv, Types, TypeOK
<1>2. QED
  BY <1>1, SafetyInv, PTL

\* Shutdown closes each channel when nobody can send on it any more, whatever
\* handlers, the writer and the indexer are at when it begins.
THEOREM AuditNoSendOnClosed == Spec => []NoSendOnClosed
<1>1. IInv => NoSendOnClosed
  BY DEF IInv, ClosedLast, NoSendOnClosed
<1>2. QED
  BY <1>1, SafetyInv, PTL

\* A process that has exited has indexed every record a handler wrote,
\* but for those whose own append or statement failed and those an earlier crash took.
THEOREM AuditNothingLeftAtExit == Spec => []NothingLeftAtExit
<1>1. IInv => NothingLeftAtExit
  <2>. SUFFICES ASSUME IInv, phase = "exited", NEW r \in Records, request[r] = "written"
                PROVE  index[r] # NoRow \/ r \in failed \union lost
    BY DEF NothingLeftAtExit
  <2>1. queue = <<>> /\ hand = None /\ backlog = <<>>
    BY DEF IInv, ClosedLast
  <2>2. ~InQueue(r) /\ ~InHand(r) /\ ~InBacklog(r)
    BY <2>1 DEF InQueue, InHand, InBacklog
  <2>3. QED
    BY <2>2 DEF IInv, Accepted, Settled
<1>2. QED
  BY <1>1, SafetyInv, PTL

\* A row of the index is shown with its own record, or with none when the file of its
\* day is gone: no append, torn line, compression or removal puts another in its place.
THEOREM AuditRowsReadTheirRecord == Spec => []RowsReadTheirRecord
<1>1. IInv => RowsReadTheirRecord
  <2>. SUFFICES ASSUME IInv, NEW r \in Records, index[r] # NoRow
                PROVE  \/ readAuditRecord(index[r]) = r
                       \/ readAuditRecord(index[r]) = None /\ plain[index[r].day] = <<>>
    BY DEF RowsReadTheirRecord, Query
  <2>1. Placed(r, index[r]) /\ index[r].day \in Days
    BY DEF IInv, Rows, Types, Row
  <2>2. plain[index[r].day] \in Seq(Records \union {None})
    BY <2>1 DEF IInv, Types, Lines
  <2>3. DOMAIN plain[index[r].day] = 1 .. Len(plain[index[r].day])
    BY <2>2, LenProperties
  <2>4. CASE plain[index[r].day] = <<>>
    <3>1. DOMAIN plain[index[r].day] = {}
      BY <2>3, <2>4
    <3>2. QED
      BY <2>4, <3>1 DEF readAuditRecord
  <2>5. CASE plain[index[r].day] # <<>>
    BY <2>1, <2>3, <2>5 DEF readAuditRecord, Placed
  <2>6. QED
    BY <2>4, <2>5
<1>2. QED
  BY <1>1, SafetyInv, PTL
-----------------------------------------------------------------------------
(* Each step is a step of AuditTrail or leaves its variables alone.        *)

Written == {s \in Records : request[s] = "written"}
Stamps == [r \in Written |-> dayOf[r]]
Indexed == {r \in Records : index[r] # NoRow}

In(r, lines) == \E i \in 1 .. Len(lines) : lines[i] = r
IsKept(r, p, z) == In(r, p) \/ (z.whole /\ In(r, z.lines))

KeptNow == {r \in Records : IsKept(r, plain[dayOf[r]], packed[dayOf[r]])}
LEMMA KeptIs == Types => Kept = KeptNow
<1>. SUFFICES ASSUME Types PROVE Kept = KeptNow
  OBVIOUS
<1>1. ASSUME NEW s \in Lines, NEW r PROVE r \in Range(s) <=> In(r, s)
  <2>1. DOMAIN s = 1 .. Len(s)
    BY LenProperties DEF Lines
  <2>2. QED
    BY <2>1 DEF Range, In
<1>2. ASSUME NEW r \in Records
      PROVE  plain[dayOf[r]] \in Lines /\ packed[dayOf[r]].lines \in Lines
  BY DEF Types
<1>3. QED
  BY <1>1, <1>2 DEF Kept, KeptNow, IsKept

LEMMA KeptIsWritten == IInv => Kept \subseteq Written
<1>. SUFFICES ASSUME IInv, NEW r \in Kept PROVE request[r] = "written"
  BY DEF Kept, Written
<1>1. r \in Records /\ IsKept(r, plain[dayOf[r]], packed[dayOf[r]])
  BY KeptIs DEF IInv, KeptNow
<1>2. dayOf[r] \in Days /\ r # None
  BY <1>1, Arithmetic DEF IInv, Types
<1>3. QED
  BY <1>1, <1>2 DEF IsKept, In, IInv, Stored

LEMMA TrailStutter ==
    ASSUME UNCHANGED <<today, request, dayOf, queue, failed, index>>, Kept' = Kept
    PROVE  UNCHANGED Trail!vars
BY DEF Trail!vars

LEMMA ObserveTrail ==
    ASSUME IInv, IInv', NEW r \in Records, Observe(r)
    PROVE  UNCHANGED Trail!vars
<1>1. /\ request[r] = "none" /\ request'[r] = "writing"
      /\ \A s \in Records \ {r} : request'[s] = request[s] /\ dayOf'[s] = dayOf[s]
      /\ UNCHANGED <<today, queue, failed, index, plain, packed>>
  BY DEF IInv, Types, Observe, process, disk
<1>2. Stamps' = Stamps /\ Written' = Written
  BY <1>1 DEF Stamps, Written
<1>3. Kept' = Kept
  <2>1. r \notin Kept /\ r \notin Kept'
    <3>1. r \notin Written /\ r \notin Written'
      BY <1>1 DEF Written
    <3>2. (IInv => Kept \subseteq Written)'
      BY KeptIsWritten, PTL
    <3>3. QED
      BY <3>1, <3>2, KeptIsWritten
  <2>2. \A s \in Records \ {r} : s \in Kept' <=> s \in Kept
    BY <1>1 DEF Kept
  <2>3. Kept \subseteq Records /\ Kept' \subseteq Records
    BY DEF Kept
  <2>4. QED
    BY <2>1, <2>2, <2>3
<1>4. QED
  BY <1>1, <1>2, <1>3 DEF Trail!vars, Stamps, Written

LEMMA WriteTrail ==
    ASSUME IInv, NEW r \in Records, Write(r)
    PROVE  Trail!Accept(r)
<1>1. /\ request[r] = "writing" /\ queue' = Append(queue, r)
      /\ request' = [request EXCEPT ![r] = "written"]
      /\ UNCHANGED <<today, dayOf, index, failed, plain, packed>>
  BY DEF Write, disk, IInv, ClosedLast
<1>2. \A s \in Records : request'[s] = IF s = r THEN "written" ELSE request[s]
  BY <1>1 DEF IInv, Types
<1>3. Written' = Written \union {r} /\ r \notin Written
  BY <1>1, <1>2 DEF Written
<1>4. dayOf[r] \in 0 .. today
  <2>1. dayOf[r] \in Nat /\ today \in Nat
    BY Arithmetic DEF IInv, Types
  <2>2. QED
    BY <2>1 DEF IInv, WaitsNotLong
<1>5. Stamps' = [s \in DOMAIN Stamps \union {r} |-> IF s = r THEN dayOf[r] ELSE Stamps[s]]
  BY <1>1, <1>3 DEF Stamps
<1>6. r \notin DOMAIN Stamps
  BY <1>3 DEF Stamps
<1>7. Kept' = Kept /\ Indexed' = Indexed
  BY <1>1 DEF Kept, Indexed
<1>8. QED
  BY <1>1, <1>4, <1>5, <1>6, <1>7 DEF Trail!Accept, Stamps, Written, Indexed

LEMMA WriterAppendsTrail ==
    ASSUME IInv, IInv', WriterAppends
    PROVE  Trail!Store \/ Trail!Lose
<1>. SUFFICES ASSUME NEW r, r = Head(queue), NEW d, d = dayOf[r]
     PROVE  Trail!Store \/ Trail!Lose
  OBVIOUS
<1>1. /\ queue # <<>> /\ queue' = Tail(queue)
      /\ UNCHANGED <<today, request, dayOf, index, packed>>
  BY DEF WriterAppends
<1>2. r \in Records /\ d \in Days
  <2>1. r \in Records
    BY <1>1, TailFacts DEF IInv, Types
  <2>2. QED
    BY <2>1 DEF IInv, Types
<1>3. \/ /\ failed' = failed \union {r}
         /\ plain' = plain \/ plain' = [plain EXCEPT ![d] = Append(@, None)]
      \/ plain' = [plain EXCEPT ![d] = Append(@, r)] /\ failed' = failed
  BY <1>2, WriterAppendsFacts
<1>4. (Types => Kept = KeptNow)'
  BY KeptIs, PTL
<1>5. /\ Kept = {s \in Records : IsKept(s, plain[dayOf[s]], packed[dayOf[s]])}
      /\ Kept' = {s \in Records : IsKept(s, plain'[dayOf[s]], packed[dayOf[s]])}
  BY <1>1, <1>4, KeptIs DEF IInv, KeptNow
<1>6. ASSUME NEW x \in {r, None}, plain' = [plain EXCEPT ![d] = Append(@, x)]
      PROVE  \A s \in Records : In(s, plain'[dayOf[s]]) <=>
                In(s, plain[dayOf[s]]) \/ (s = x /\ dayOf[s] = d)
  <2>. SUFFICES ASSUME NEW s \in Records
       PROVE  In(s, plain'[dayOf[s]]) <=>
                In(s, plain[dayOf[s]]) \/ (s = x /\ dayOf[s] = d)
    OBVIOUS
  <2>1. dayOf[s] \in Days /\ plain[d] \in Seq(Records \union {None})
        /\ x \in Records \union {None}
    <3>1. x \in Records \union {None}
      BY <1>2
    <3>2. dayOf[s] \in Days /\ plain[d] \in Lines
      BY <1>2 DEF IInv, Types
    <3>3. QED
      BY <3>1, <3>2 DEF Lines
  <2>2. plain'[dayOf[s]] = IF dayOf[s] = d THEN Append(plain[d], x) ELSE plain[dayOf[s]]
    BY <1>6, <2>1 DEF IInv, Types
  <2>3. /\ Len(plain[d]) \in Nat /\ Len(Append(plain[d], x)) = Len(plain[d]) + 1
        /\ \A i \in 1 .. Len(plain[d]) : Append(plain[d], x)[i] = plain[d][i]
        /\ Append(plain[d], x)[Len(plain[d]) + 1] = x
    BY <2>1, AppendFacts
  <2>4. In(s, Append(plain[d], x)) <=> In(s, plain[d]) \/ s = x
    <3>1. \A i \in 1 .. Len(plain[d]) + 1 : i \in 1 .. Len(plain[d]) \/ i = Len(plain[d]) + 1
      BY <2>3
    <3>2. \A i \in 1 .. Len(plain[d]) : i \in 1 .. Len(plain[d]) + 1
      BY <2>3
    <3>3. Len(plain[d]) + 1 \in 1 .. Len(plain[d]) + 1
      BY <2>3
    <3>4. QED
      BY <2>3, <3>1, <3>2, <3>3 DEF In
  <2>5. QED
    BY <2>2, <2>4
<1>7. CASE plain' = [plain EXCEPT ![d] = Append(@, r)] /\ failed' = failed
  <2>1. \A s \in Records : In(s, plain'[dayOf[s]]) <=> In(s, plain[dayOf[s]]) \/ s = r
    BY <1>6, <1>7
  <2>2. Kept' = Kept \union {r}
    BY <1>2, <1>5, <2>1 DEF IsKept
  <2>3. Trail!Store
    BY <1>1, <1>7, <2>2 DEF Trail!Store
  <2>4. QED
    BY <2>3
<1>8. CASE /\ failed' = failed \union {r}
           /\ plain' = plain \/ plain' = [plain EXCEPT ![d] = Append(@, None)]
  <2>1. Kept' = Kept
    <3>1. CASE plain' = plain
      BY <1>5, <3>1
    <3>2. CASE plain' = [plain EXCEPT ![d] = Append(@, None)]
      <4>1. \A s \in Records : In(s, plain'[dayOf[s]]) <=> In(s, plain[dayOf[s]])
        BY <1>6, <3>2, Arithmetic
      <4>2. QED
        BY <1>5, <4>1 DEF IsKept
    <3>3. QED
      BY <1>8, <3>1, <3>2
  <2>2. Trail!Lose
    BY <1>1, <1>8, <2>1 DEF Trail!Lose
  <2>3. QED
    BY <2>2
<1>9. QED
  BY <1>3, <1>7, <1>8

LEMMA IndexerPutsTrail ==
    ASSUME IInv, IndexerPuts
    PROVE  \E r \in Records : Trail!Index(r)
<1>. SUFFICES ASSUME NEW r, r = Head(backlog).record
     PROVE  \E s \in Records : Trail!Index(s)
  OBVIOUS
<1>1. /\ backlog # <<>> /\ backlog' = Tail(backlog)
      /\ UNCHANGED <<today, request, dayOf, queue, plain, packed>>
  BY DEF IndexerPuts, disk
<1>2. r \in Records /\ Head(backlog).row \in Row /\ InBacklog(r)
  BY <1>1, BacklogTail DEF IInv, IndexedRecord, InBacklog
<1>3. request[r] = "written" /\ ~InQueue(r) /\ ~Settled(r)
  BY <1>2 DEF IInv, Accepted, Once
<1>4. \A i \in DOMAIN queue : queue[i] # r
  <2>1. DOMAIN queue = 1 .. Len(queue)
    BY LenProperties DEF IInv, Types
  <2>2. QED
    BY <1>3, <2>1 DEF InQueue
<1>5. Kept' = Kept
  BY <1>1 DEF Kept
<1>6. \/ Indexed' = Indexed \union {r} /\ failed' = failed
      \/ failed' = failed \union {r} /\ Indexed' = Indexed
  <2>1. CASE index' = [index EXCEPT ![r] = Head(backlog).row] /\ failed' = failed
    <3>1. \A s \in Records : index'[s] = IF s = r THEN Head(backlog).row ELSE index[s]
      BY <2>1 DEF IInv, Types
    <3>2. Head(backlog).row # NoRow
      BY <1>2, Arithmetic
    <3>3. QED
      BY <1>2, <2>1, <3>1, <3>2 DEF Indexed
  <2>2. CASE failed' = failed \union {r} /\ index' = index
    BY <2>2 DEF Indexed
  <2>3. QED
    BY <2>1, <2>2 DEF IndexerPuts
<1>7. r \notin failed \union Indexed /\ r \in Written
  BY <1>2, <1>3 DEF Settled, Indexed, Written
<1>8. Trail!Index(r)
  BY <1>1, <1>4, <1>5, <1>6, <1>7 DEF Trail!Index, Indexed, Written
<1>9. QED
  BY <1>2, <1>8

LEMMA CrashTrail ==
    ASSUME IInv, Crash
    PROVE  Trail!Crash
<1>1. /\ queue' = <<>> /\ UNCHANGED <<today, dayOf, index, failed, plain, packed>>
      /\ \A r \in Records :
            request'[r] = IF request[r] = "writing" THEN "gone" ELSE request[r]
  BY DEF Crash, disk
<1>2. Written' = Written
  BY <1>1 DEF Written
<1>3. Stamps' = Stamps /\ Kept' = Kept /\ Indexed' = Indexed
  BY <1>1, <1>2 DEF Stamps, Kept, Indexed
<1>4. QED
  BY <1>1, <1>3 DEF Trail!Crash, Stamps, Written, Indexed

LEMMA NextDayTrail ==
    ASSUME IInv, NextDay
    PROVE  Trail!NextDay
BY DEF NextDay, process, disk, Kept, Trail!NextDay

\* Only files whose day is past the retention take records out of the archive.
LEMMA RotateDayTrail ==
    ASSUME IInv, IInv', NEW d \in Days, RotateDay(d)
    PROVE  Trail!Expire(d) \/ UNCHANGED Trail!vars
<1>1. UNCHANGED <<today, request, dayOf, queue, index, failed>>
  BY DEF RotateDay
<1>2. (Types => Kept = KeptNow)'
  BY KeptIs, PTL
<1>3. /\ Kept = {s \in Records : IsKept(s, plain[dayOf[s]], packed[dayOf[s]])}
      /\ Kept' = {s \in Records : IsKept(s, plain'[dayOf[s]], packed'[dayOf[s]])}
      /\ \A s \in Records : dayOf[s] \in Days
  BY <1>1, <1>2, KeptIs DEF IInv, Types, KeptNow
<1>4. CASE Expired(d)
  <2>1. /\ plain' = [plain EXCEPT ![d] = <<>>]
        /\ packed' = [packed EXCEPT ![d] = NoArchive]
    BY <1>4 DEF RotateDay, Unlink
  <2>2. \A s \in Records :
          /\ plain'[dayOf[s]] = IF dayOf[s] = d THEN <<>> ELSE plain[dayOf[s]]
          /\ packed'[dayOf[s]] = IF dayOf[s] = d THEN NoArchive ELSE packed[dayOf[s]]
    BY <1>3, <2>1 DEF IInv, Types
  <2>3. \A s : ~IsKept(s, <<>>, NoArchive)
    BY DEF IsKept, In, NoArchive
  <2>4. Kept' = {s \in Kept : dayOf[s] # d}
    BY <1>3, <2>2, <2>3
  <2>5. \A s \in Kept : Stamps[s] = dayOf[s]
    BY KeptIsWritten DEF Stamps
  <2>6. Kept' = {s \in Kept : Stamps[s] # d}
    BY <2>4, <2>5
  <2>7. Retention > 0 /\ today - d > Retention
    <3>1. Retention > 0 /\ rotator.now - d > Retention
      BY <1>4 DEF Expired, Old
    <3>2. rotator.now \in Nat /\ today \in Nat /\ d \in Nat /\ Retention \in Nat
      BY Arithmetic DEF IInv, Types
    <3>3. rotator.now <= today
      BY DEF IInv, PastDays
    <3>4. QED
      BY <3>1, <3>2, <3>3
  <2>8. Trail!Expire(d)
    BY <1>1, <2>6, <2>7 DEF Trail!Expire, Stamps, Written
  <2>9. QED
    BY <2>8
<1>5. CASE ~Expired(d)
  <2>1. /\ packed' = [packed EXCEPT ![d] = [lines |-> <<>>, whole |-> FALSE]]
        /\ plain' = plain /\ plain[d] # <<>>
    BY <1>5 DEF RotateDay, Due, Compressible
  <2>2. \A s \in Records :
          packed'[dayOf[s]] = IF dayOf[s] = d THEN [lines |-> <<>>, whole |-> FALSE]
                              ELSE packed[dayOf[s]]
    BY <1>3, <2>1 DEF IInv, Types
  <2>3. \A s : In(s, packed[d].lines) => In(s, plain[d])
    BY <2>1 DEF In, IInv, Archives
  <2>4. \A s : IsKept(s, plain[d], [lines |-> <<>>, whole |-> FALSE])
                 <=> IsKept(s, plain[d], packed[d])
    BY <2>3 DEF IsKept
  <2>5. Kept' = Kept
    BY <1>3, <2>1, <2>2, <2>4
  <2>6. QED
    BY <1>1, <2>5, TrailStutter
<1>6. QED
  BY <1>4, <1>5

LEMMA CompressTrail ==
    ASSUME IInv, IInv', Compress
    PROVE  UNCHANGED Trail!vars
<1>. SUFFICES ASSUME NEW d \in Days, d = rotator.day
     PROVE  UNCHANGED Trail!vars
  BY RotatedDay DEF Compress
<1>1. /\ UNCHANGED <<today, request, dayOf, queue, index, failed, plain>>
      /\ packed' = [packed EXCEPT ![d] = [lines |-> plain[d], whole |-> TRUE]]
  BY DEF Compress, process
<1>2. (Types => Kept = KeptNow)'
  BY KeptIs, PTL
<1>3. /\ Kept = {s \in Records : IsKept(s, plain[dayOf[s]], packed[dayOf[s]])}
      /\ Kept' = {s \in Records : IsKept(s, plain[dayOf[s]], packed'[dayOf[s]])}
      /\ \A s \in Records : dayOf[s] \in Days
  BY <1>1, <1>2, KeptIs DEF IInv, Types, KeptNow
<1>4. \A s \in Records :
        packed'[dayOf[s]] = IF dayOf[s] = d THEN [lines |-> plain[d], whole |-> TRUE]
                            ELSE packed[dayOf[s]]
  BY <1>1, <1>3 DEF IInv, Types
<1>5. plain[d] # <<>>
  BY DEF Compress, IInv, Archives
<1>6. \A s : In(s, packed[d].lines) => In(s, plain[d])
  BY <1>5 DEF In, IInv, Archives
<1>7. \A s : IsKept(s, plain[d], [lines |-> plain[d], whole |-> TRUE])
               <=> IsKept(s, plain[d], packed[d])
  BY <1>6 DEF IsKept
<1>8. Kept' = Kept
  BY <1>3, <1>4, <1>7
<1>9. QED
  BY <1>1, <1>8, TrailStutter

LEMMA RemoveTrail ==
    ASSUME IInv, IInv', Remove
    PROVE  UNCHANGED Trail!vars
<1>. SUFFICES ASSUME NEW d \in Days, d = rotator.day
     PROVE  UNCHANGED Trail!vars
  BY RotatedDay DEF Remove
<1>1. /\ UNCHANGED <<today, request, dayOf, queue, index, failed, packed>>
      /\ plain' = [plain EXCEPT ![d] = <<>>]
  BY DEF Remove, Unlink
<1>2. (Types => Kept = KeptNow)'
  BY KeptIs, PTL
<1>3. /\ Kept = {s \in Records : IsKept(s, plain[dayOf[s]], packed[dayOf[s]])}
      /\ Kept' = {s \in Records : IsKept(s, plain'[dayOf[s]], packed[dayOf[s]])}
      /\ \A s \in Records : dayOf[s] \in Days
  BY <1>1, <1>2, KeptIs DEF IInv, Types, KeptNow
<1>4. \A s \in Records :
        plain'[dayOf[s]] = IF dayOf[s] = d THEN <<>> ELSE plain[dayOf[s]]
  BY <1>1, <1>3 DEF IInv, Types
<1>5. packed[d].whole /\ packed[d].lines = plain[d]
  BY DEF Remove, IInv, Archives
<1>6. \A s : IsKept(s, <<>>, packed[d]) <=> IsKept(s, plain[d], packed[d])
  BY <1>5 DEF IsKept, In
<1>7. Kept' = Kept
  BY <1>3, <1>4, <1>6
<1>8. QED
  BY <1>1, <1>7, TrailStutter

LEMMA NextTrail == IInv /\ IInv' /\ [Next]_vars => [Trail!Next]_Trail!vars
<1>. SUFFICES ASSUME IInv, IInv', [Next]_vars PROVE [Trail!Next]_Trail!vars
  OBVIOUS
<1>1. ASSUME NEW r \in Records, Observe(r) PROVE UNCHANGED Trail!vars
  BY <1>1, ObserveTrail
<1>2. ASSUME NEW r \in Records, Write(r) PROVE Trail!Next
  BY <1>2, WriteTrail DEF Trail!Next
<1>3. CASE WriterAppends
  BY <1>3, WriterAppendsTrail DEF Trail!Next
<1>4. CASE IndexerPuts
  BY <1>4, IndexerPutsTrail DEF Trail!Next
<1>5. CASE WriterEnqueues \/ Shutdown \/ Leave \/ Stopping \/ Rotate \/ RotateEnds \/ RotateFails
  <2>1. UNCHANGED <<today, request, dayOf, queue, failed, index, plain, packed>>
    BY <1>5 DEF WriterEnqueues, Shutdown, Leave, Stopping, Drained, WriterCloses,
                IndexerCloses, Rotate, RotateEnds, RotateFails, process, disk
  <2>2. Kept' = Kept
    BY <2>1 DEF Kept
  <2>3. QED
    BY <2>1, <2>2, TrailStutter
<1>6. CASE Crash \/ NextDay
  BY <1>6, CrashTrail, NextDayTrail DEF Trail!Next
<1>7. ASSUME NEW d \in Days, RotateDay(d) PROVE [Trail!Next]_Trail!vars
  <2>1. d \in 0 .. MaxDay
    BY DEF Days
  <2>2. QED
    BY <1>7, <2>1, RotateDayTrail DEF Trail!Next
<1>8. CASE Compress \/ Remove
  BY <1>8, CompressTrail, RemoveTrail
<1>9. CASE UNCHANGED vars
  <2>1. UNCHANGED <<today, request, dayOf, queue, failed, index, plain, packed>>
    BY <1>9 DEF vars
  <2>2. Kept' = Kept
    BY <2>1 DEF Kept
  <2>3. QED
    BY <2>1, <2>2, TrailStutter
<1>10. QED
  BY <1>1, <1>2, <1>3, <1>4, <1>5, <1>6, <1>7, <1>8, <1>9 DEF Next, Writing

\* Handlers, writer, indexer, rotation, crashes and restarts together keep the promise
\* of AuditTrail: in order, once, and until the retention is over.
THEOREM AuditKeepsTheTrail == Spec => KeepsTheTrail
<1>1. Init => Trail!Init
  <2>. SUFFICES ASSUME Init PROVE Trail!Init
    OBVIOUS
  <2>1. IInv
    BY InitInv
  <2>2. Written = {} /\ Indexed = {}
    BY DEF Init, Written, Indexed
  <2>3. Kept = {}
    BY <2>1, <2>2, KeptIsWritten
  <2>4. Stamps = <<>>
    BY <2>2 DEF Stamps
  <2>5. QED
    BY <2>2, <2>3, <2>4 DEF Init, Trail!Init, Stamps, Written, Indexed
<1>2. IInv /\ IInv' /\ [Next]_vars => [Trail!Next]_Trail!vars
  BY NextTrail
<1>3. QED
  BY <1>1, <1>2, SafetyInv, PTL DEF Spec, KeepsTheTrail, Trail!Spec
=============================================================================
