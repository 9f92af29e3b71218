------------------------------- MODULE Audit --------------------------------
(***************************************************************************)
(* internal/audit, and the parts of ServeConfig that feed and close it: a  *)
(* handler stamps its record and sends it to a bounded channel, the writer *)
(* appends it to the file of its day and passes it to the indexer through  *)
(* a second bounded channel, the indexer puts a row with its offset, and   *)
(* "maintenance prune-audit" compresses and prunes files meanwhile.        *)
(* Statements and system calls may fail, and the process may crash.        *)
(***************************************************************************)
EXTENDS Integers, Sequences, FiniteSets, Functions

CONSTANTS
    MaxRecords,     \* bound: records, numbered in the order of their TS
    Cap,            \* WriterBuffer, the places of either channel
    CompressAfter,  \* rotate_compress_after_days
    Retention,      \* retention_days
    MaxDay,         \* bound: the last day
    MaxFaults,      \* bound: statements and calls that fail, and crashes
    None            \* no record: no record in hand, or a torn line in a file

ASSUME AuditAssumption ==
    /\ None \notin Nat /\ None \notin [record : Nat, row : [day : Nat, at : Nat]]
    /\ Cap \in Nat \ {0}
    /\ {MaxRecords, CompressAfter, Retention, MaxDay, MaxFaults} \subseteq Nat

VARIABLES
    today,     \* time.Now(), in days
    request,   \* request[r]: where the handler of r is
    dayOf,     \* dayOf[r]: TS of the record, once it is stamped
    phase,     \* where ServeConfig is
    watching,  \* an admin's event stream is open during the shutdown
    queue,     \* Writer.ch
    hand,      \* the IndexedRecord between append and Enqueue
    current,   \* Writer.currentDay and currentFile
    backlog,   \* Indexer.ch
    index,     \* index[r]: day and offset in the audit_index row of r
    plain,     \* plain[d]: the records in the .jsonl of day d
    packed,    \* packed[d]: those in its .jsonl.gz
    rotator,   \* the locals of RotateAndPrune
    faults,    \* number of failures and crashes so far
    failed,    \* history: records whose own append or index statement failed
    lost       \* history: accepted records a crash took before they were indexed

vars == <<today, request, dayOf, phase, watching, queue, hand, current, backlog,
          index, plain, packed, rotator, faults, failed, lost>>
disk == <<plain, packed>>
process == <<queue, hand, current, backlog>>

Records == 1 .. MaxRecords
Days == 0 .. MaxDay
NoFile == [day |-> 0, file |-> "none"]
Row == [day : Days, at : 1 .. MaxRecords + MaxFaults]
NoRow == [day |-> 0, at |-> 0]
IndexedRecord == [record : Records, row : Row]
NoArchive == [lines |-> <<>>, whole |-> TRUE]
Resting == [at |-> "idle", now |-> 0, day |-> 0]

Closing == {"close_writer", "close_indexer"}
Ended == {"exited", "panicked"}
Up == phase \notin Ended
-----------------------------------------------------------------------------
Init ==
    /\ today = 0
    /\ request = [r \in Records |-> "none"]
    /\ dayOf = [r \in Records |-> 0]
    /\ phase = "serving"
    /\ watching = FALSE
    /\ queue = <<>> /\ hand = None /\ current = NoFile /\ backlog = <<>>
    /\ index = [r \in Records |-> NoRow]
    /\ plain = [d \in Days |-> <<>>]
    /\ packed = [d \in Days |-> NoArchive]
    /\ rotator = Resting
    /\ faults = 0
    /\ failed = {} /\ lost = {}

\* A system call or a statement fails, or a process dies.
Fault ==
    /\ faults < MaxFaults
    /\ faults' = faults + 1
-----------------------------------------------------------------------------
(* Handlers.                                                               *)

\* The dispatch of r has ended, well or not: the observer builds the record.
\* A handler runs until shutdownServers has waited for it.
Observe(r) ==
    /\ phase \in {"serving", "draining"}
    /\ request[r] = "none"
    /\ \A s \in 1 .. r - 1 : request[s] # "none"
    /\ request' = [request EXCEPT ![r] = "writing"]
    /\ dayOf' = [dayOf EXCEPT ![r] = today]
    /\ UNCHANGED <<today, phase, watching, process, index, disk, rotator,
                   faults, failed, lost>>

\* Mutant: the channel has no bound.
WriteUnbounded(r) ==
    /\ request[r] = "writing" /\ phase \notin Closing
    /\ queue' = Append(queue, r)
    /\ request' = [request EXCEPT ![r] = "written"]
    /\ UNCHANGED <<today, dayOf, phase, watching, hand, current, backlog, index,
                   disk, rotator, faults, failed, lost>>

\* Writer.Write blocks on a full channel, whatever becomes of the client, and
\* panics on a closed one.
Write(r) ==
    /\ request[r] = "writing"
    /\ IF phase \in Closing
       THEN /\ phase' = "panicked"
            /\ UNCHANGED <<request, queue>>
       ELSE /\ Len(queue) < Cap
            /\ queue' = Append(queue, r)
            /\ request' = [request EXCEPT ![r] = "written"]
            /\ UNCHANGED phase
    /\ UNCHANGED <<today, dayOf, watching, hand, current, backlog, index, disk,
                   rotator, faults, failed, lost>>
-----------------------------------------------------------------------------
(* Writer.run: append, with openDay, and Enqueue.                          *)

IsOpen == current.file \in {"open", "unlinked"}
Today(d) == current.file # "none" /\ current.day = d

\* Mutant: the offset is taken before the file of the day is opened.
AppendedAtOldOffset(r, d) ==
    /\ current.file # "closed"
    /\ current' = IF Today(d) THEN current ELSE [day |-> d, file |-> "open"]
    /\ plain' = [plain EXCEPT ![d] = Append(@, r)]
    /\ hand' = [record |-> r, row |-> [day |-> d, at |-> Len(plain[current.day]) + 1]]
    /\ UNCHANGED <<faults, failed>>

\* Append to the end of the file; a file that rotation has removed is still
\* open, but what is written to it is gone.
Appended(r, d) ==
    /\ current.file # "closed"
    /\ current' = IF Today(d) THEN current ELSE [day |-> d, file |-> "open"]
    /\ plain' = IF Today(d) /\ current.file = "unlinked"
                THEN plain
                ELSE [plain EXCEPT ![d] = Append(@, r)]
    /\ hand' = [record |-> r, row |-> [day |-> d, at |-> Len(plain[d]) + 1]]
    /\ UNCHANGED <<faults, failed>>

\* Writing fails, and may leave part of a line.
Torn(d) ==
    \/ UNCHANGED plain
    \/ /\ current'.file = "open"
       /\ plain' = [plain EXCEPT ![d] = Append(@, None)]

\* append returns an error: the file of the last day was closed without a new
\* one in its place, or Sync, Close, OpenFile, Seek or Write fails now.  setErr
\* keeps the first error, and nothing reads it; the record is gone.
Rejected(r, d) ==
    /\ failed' = failed \union {r}
    /\ hand' = None
    /\ \/ /\ current.file = "closed"
          /\ UNCHANGED <<current, plain, faults>>
       \/ /\ Fault /\ IsOpen /\ Today(d)
          /\ UNCHANGED current
          /\ Torn(d)
       \/ /\ Fault /\ current.file # "closed" /\ ~Today(d)
          /\ \/ /\ current' \in {current, [current EXCEPT !.file = IF IsOpen THEN "closed" ELSE "none"]}
                /\ UNCHANGED plain
             \/ /\ current' = [day |-> d, file |-> "open"]
                /\ Torn(d)

\* Mutant: run returns at the first error.
WriterAppendsUntilError ==
    /\ Up /\ queue # <<>> /\ hand = None /\ failed = {}
    /\ queue' = Tail(queue)
    /\ LET r == Head(queue) IN Appended(r, dayOf[r]) \/ Rejected(r, dayOf[r])
    /\ UNCHANGED <<today, request, dayOf, phase, watching, backlog, index, packed,
                   rotator, lost>>

WriterAppends ==
    /\ Up /\ queue # <<>> /\ hand = None
    /\ queue' = Tail(queue)
    /\ LET r == Head(queue) IN Appended(r, dayOf[r]) \/ Rejected(r, dayOf[r])
    /\ UNCHANGED <<today, request, dayOf, phase, watching, backlog, index, packed,
                   rotator, lost>>

WriterEnqueues ==
    /\ Up /\ hand # None
    /\ IF phase = "close_indexer"
       THEN /\ phase' = "panicked"
            /\ UNCHANGED <<hand, backlog>>
       ELSE /\ Len(backlog) < Cap
            /\ backlog' = Append(backlog, hand)
            /\ hand' = None
            /\ UNCHANGED phase
    /\ UNCHANGED <<today, request, dayOf, watching, queue, current, index, disk,
                   rotator, faults, failed, lost>>

\* Mutant: run returns at the first error.
IndexerPutsUntilError ==
    /\ Up /\ backlog # <<>> /\ failed = {}
    /\ backlog' = Tail(backlog)
    /\ LET entry == Head(backlog) IN
        \/ /\ index' = [index EXCEPT ![entry.record] = entry.row]
           /\ UNCHANGED <<faults, failed>>
        \/ /\ Fault
           /\ failed' = failed \union {entry.record}
           /\ UNCHANGED index
    /\ UNCHANGED <<today, request, dayOf, phase, watching, queue, hand, current,
                   disk, rotator, lost>>

\* Indexer.run: INSERT INTO audit_index.
IndexerPuts ==
    /\ Up /\ backlog # <<>>
    /\ backlog' = Tail(backlog)
    /\ LET entry == Head(backlog) IN
        \/ /\ index' = [index EXCEPT ![entry.record] = entry.row]
           /\ UNCHANGED <<faults, failed>>
        \/ /\ Fault
           /\ failed' = failed \union {entry.record}
           /\ UNCHANGED index
    /\ UNCHANGED <<today, request, dayOf, phase, watching, queue, hand, current,
                   disk, rotator, lost>>
-----------------------------------------------------------------------------
(* Shutdown, crash and restart.                                            *)

\* SIGTERM, with or without an admin's event stream open.
Shutdown ==
    /\ phase = "serving"
    /\ phase' = "draining"
    /\ watching' \in BOOLEAN
    /\ UNCHANGED <<today, request, dayOf, process, index, disk, rotator,
                   faults, failed, lost>>

\* Bus.ServeHTTP returns only when its client goes.
Leave ==
    /\ phase = "draining" /\ watching
    /\ watching' = FALSE
    /\ UNCHANGED <<today, request, dayOf, phase, process, index, disk, rotator,
                   faults, failed, lost>>

\* Mutant: the deferred calls begin at once.
DrainedAtOnce ==
    /\ phase = "draining"
    /\ phase' = "close_writer"
    /\ UNCHANGED <<today, request, dayOf, watching, process, index, disk, rotator,
                   faults, failed, lost>>

\* shutdownServers has waited for every handler; the deferred calls begin.
Drained ==
    /\ phase = "draining"
    /\ ~watching
    /\ \A r \in Records : request[r] # "writing"
    /\ phase' = "close_writer"
    /\ UNCHANGED <<today, request, dayOf, watching, process, index, disk, rotator,
                   faults, failed, lost>>

\* Writer.Close: run has drained the channel; the file is synced and closed.
WriterCloses ==
    /\ phase = "close_writer"
    /\ queue = <<>> /\ hand = None
    /\ current' = NoFile
    /\ phase' = "close_indexer"
    /\ UNCHANGED <<today, request, dayOf, watching, queue, hand, backlog, index,
                   disk, rotator, faults, failed, lost>>

\* Mutant: the process ends without waiting for the indexer.
IndexerClosesAtOnce ==
    /\ phase = "close_indexer"
    /\ phase' = "exited"
    /\ UNCHANGED <<today, request, dayOf, watching, process, index, disk, rotator,
                   faults, failed, lost>>

IndexerCloses ==
    /\ phase = "close_indexer"
    /\ backlog = <<>>
    /\ phase' = "exited"
    /\ UNCHANGED <<today, request, dayOf, watching, process, index, disk, rotator,
                   faults, failed, lost>>

Unindexed(r) == request[r] = "written" /\ index[r] = NoRow /\ r \notin failed

\* The process dies and is started again.
Crash ==
    /\ Up
    /\ Fault
    /\ phase' = "serving"
    /\ watching' = FALSE
    /\ queue' = <<>> /\ hand' = None /\ current' = NoFile /\ backlog' = <<>>
    /\ request' = [r \in Records |->
                     IF request[r] = "writing" THEN "gone" ELSE request[r]]
    /\ lost' = lost \union {r \in Records : Unindexed(r)}
    /\ UNCHANGED <<today, dayOf, index, disk, rotator, failed>>
-----------------------------------------------------------------------------
(* RotateAndPrune, in a process of its own, one at a time.                 *)

Rotating(at, day) == rotator' = [rotator EXCEPT !.at = at, !.day = day]

\* The file of day d leaves the directory; a writer may have it open.
Unlink(d) ==
    /\ plain' = [plain EXCEPT ![d] = <<>>]
    /\ current' = IF current.file = "open" /\ current.day = d
                  THEN [current EXCEPT !.file = "unlinked"] ELSE current

Old(d, days) == days > 0 /\ rotator.now - d > days
Present(d) == plain[d] # <<>> \/ packed[d] # NoArchive
Expired(d) == Old(d, Retention) /\ Present(d)

\* Mutant: a file is compressed one day early.
CompressibleEarly(d) ==
    CompressAfter > 0 /\ rotator.now - d >= CompressAfter /\ plain[d] # <<>>
Compressible(d) == Old(d, CompressAfter) /\ plain[d] # <<>>

Due(d) == d >= rotator.day /\ d <= rotator.now /\ (Expired(d) \/ Compressible(d))

Rotate ==
    /\ rotator.at = "idle"
    /\ \E d \in Days : Present(d) /\ d < today
    /\ rotator' = [at |-> "next", now |-> today, day |-> 0]
    /\ UNCHANGED <<today, request, dayOf, phase, watching, process, index, disk,
                   faults, failed, lost>>

\* The files of the next day with something due: both are removed, or
\* compression begins with an empty archive.
RotateDay(d) ==
    /\ rotator.at = "next"
    /\ Due(d) /\ \A e \in Days : Due(e) => d <= e
    /\ IF Expired(d)
       THEN /\ Unlink(d)
            /\ packed' = [packed EXCEPT ![d] = NoArchive]
            /\ Rotating("next", d + 1)
       ELSE /\ packed' = [packed EXCEPT ![d] = [lines |-> <<>>, whole |-> FALSE]]
            /\ Rotating("copy", d)
            /\ UNCHANGED <<plain, current>>
    /\ UNCHANGED <<today, request, dayOf, phase, watching, queue, hand, backlog,
                   index, faults, failed, lost>>

RotateEnds ==
    /\ rotator.at = "next"
    /\ \A d \in Days : ~Due(d)
    /\ rotator' = Resting
    /\ UNCHANGED <<today, request, dayOf, phase, watching, process, index, disk,
                   faults, failed, lost>>

\* io.Copy, gz.Close and out.Close have succeeded.
Compress ==
    LET d == rotator.day IN
    /\ rotator.at = "copy"
    /\ packed' = [packed EXCEPT ![d] = [lines |-> plain[d], whole |-> TRUE]]
    /\ Rotating("remove", d)
    /\ UNCHANGED <<today, request, dayOf, phase, watching, process, index, plain,
                   faults, failed, lost>>

Remove ==
    /\ rotator.at = "remove"
    /\ Unlink(rotator.day)
    /\ Rotating("next", rotator.day + 1)
    /\ UNCHANGED <<today, request, dayOf, phase, watching, queue, hand, backlog,
                   index, packed, faults, failed, lost>>

\* A call fails, or the process of the rotation ends.
RotateFails ==
    /\ rotator.at # "idle"
    /\ Fault
    /\ rotator' = Resting
    /\ UNCHANGED <<today, request, dayOf, phase, watching, process, index, disk,
                   failed, lost>>

\* A record reaches its file before the day after its own is over.
NextDay ==
    /\ today < MaxDay
    /\ \A r \in Records :
         (request[r] = "writing" \/ r \in Range(queue)) => dayOf[r] = today
    /\ today' = today + 1
    /\ UNCHANGED <<request, dayOf, phase, watching, process, index, disk, rotator,
                   faults, failed, lost>>
-----------------------------------------------------------------------------
(* The audit query of the admin API, for any state it may be asked in.     *)

\* The record at the row's offset; None: the file is gone, the offset is past its
\* end, or what is there does not parse.
readAuditRecord(row) ==
    IF row.at \in DOMAIN plain[row.day] THEN plain[row.day][row.at] ELSE None

\* The rows of the index, each with the fields of the record read for it.
Query == [r \in {s \in Records : index[s] # NoRow} |-> readAuditRecord(index[r])]

-----------------------------------------------------------------------------
Writing == WriterAppends \/ WriterEnqueues
Stopping == Drained \/ WriterCloses \/ IndexerCloses

Next ==
    \/ \E r \in Records : Observe(r) \/ Write(r)
    \/ Writing \/ IndexerPuts
    \/ Shutdown \/ Leave \/ Stopping \/ Crash
    \/ Rotate \/ (\E d \in Days : RotateDay(d)) \/ RotateEnds
    \/ Compress \/ Remove \/ RotateFails
    \/ NextDay

\* Every goroutine of the server runs on; nothing makes a client leave, an
\* operator rotate, or a day pass.
Fairness ==
    /\ \A r \in Records : WF_vars(Write(r))
    /\ WF_vars(Writing) /\ WF_vars(IndexerPuts) /\ WF_vars(Stopping)

Spec == Init /\ [][Next]_vars /\ Fairness
-----------------------------------------------------------------------------
(* Properties.                                                             *)

Lines == Seq(Records \union {None})

TypeOK ==
    /\ today \in Days
    /\ request \in [Records -> {"none", "writing", "written", "gone"}]
    /\ dayOf \in [Records -> Days]
    /\ phase \in {"serving", "draining"} \union Closing \union Ended
    /\ watching \in BOOLEAN
    /\ queue \in Seq(Records) /\ Len(queue) <= Cap
    /\ hand \in IndexedRecord \union {None}
    /\ current \in [day : Days, file : {"none", "open", "unlinked", "closed"}]
    /\ backlog \in Seq(IndexedRecord) /\ Len(backlog) <= Cap
    /\ index \in [Records -> Row \union {NoRow}]
    /\ plain \in [Days -> Lines]
    /\ packed \in [Days -> [lines : Lines, whole : BOOLEAN]]
    /\ rotator.at \in {"idle", "next", "copy", "remove"}
    /\ faults \in 0 .. MaxFaults
    /\ failed \subseteq Records /\ lost \subseteq Records

\* Neither channel is closed while someone may still send on it.
NoSendOnClosed == phase # "panicked"

\* TASKS.md 256: "no data loss on graceful shutdown".  Once the process has
\* exited, what handlers wrote is indexed, but for the records whose own append
\* or statement failed and those an earlier crash took.
NothingLeftAtExit ==
    phase = "exited" =>
        \A r \in Records : request[r] = "written" =>
            index[r] # NoRow \/ r \in failed \union lost

\* The query never shows a row with the fields of another record, and shows the
\* row's own as long as the file of its day is there, whatever was torn, compressed,
\* pruned or written again in between.
RowsReadTheirRecord ==
    \A r \in DOMAIN Query :
        Query[r] = r \/ (Query[r] = None /\ plain[index[r].day] = <<>>)

Kept == {r \in Records :
           \/ r \in Range(plain[dayOf[r]])
           \/ packed[dayOf[r]].whole /\ r \in Range(packed[dayOf[r]].lines)}

\* Writing, compressing, pruning, crashes and restarts together keep every
\* record they promise to keep, in order and once.
Trail == INSTANCE AuditTrail WITH
    dayOf <- [r \in {s \in Records : request[s] = "written"} |-> dayOf[r]],
    pending <- queue,
    kept <- Kept,
    indexed <- {r \in Records : index[r] # NoRow}
KeepsTheTrail == Trail!Spec

\* No accepted record waits for ever: it is indexed, or it had its turn and its
\* own append or statement failed, also after others before it have failed.
RecordsSettle ==
    \A r \in Records :
        request[r] = "written" ~> (index[r] # NoRow \/ r \in failed \union lost)

\* A shutdown ends, however full the channels, unless an event stream is open.
ShutdownEnds == phase = "draining" ~> (phase \in {"exited", "serving"} \/ watching)
=============================================================================
