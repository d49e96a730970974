------------------------------ MODULE LogStore ------------------------------
(***************************************************************************)
(* The database sink of LogManager (src/src/logging_system/log_manager.py) *)
(* with LogDatabase's buffered writes (log_database.py).  Every thread of  *)
(* the platform logs; each entry is put into a buffer under the database's *)
(* lock and written with the next flush.  Shutdown flushes and closes      *)
(* while other threads still log.                                          *)
(*                                                                         *)
(* Whatever holds the database's lock is one step.  Entries that are       *)
(* turned away (paused, below the level) are not logged; unsubscribing the *)
(* bus loggers only makes fewer threads log.  The ring buffer, the file    *)
(* and the listeners share nothing with the database.  Nobody calls        *)
(* insert_many, clear, prune or vacuum.                                    *)
(*                                                                         *)
(* A crash leaves the committed rows: what the invariants say of rows they *)
(* say at every step, so of a crash there too.                             *)
(***************************************************************************)
EXTENDS Naturals, SequencesExt

CONSTANTS
    Loggers,        \* threads that log
    BufferSize,     \* configuration "logging.buffer_size"
    MaxEntries,     \* bound: entries logged
    MaxFaults,      \* bound: writes the disk refuses
    MaxCloses       \* bound: calls of close(); the shutdown makes two

ASSUME LogAssumption ==
    /\ BufferSize \in Nat \ {0}
    /\ MaxEntries \in Nat /\ MaxFaults \in Nat /\ MaxCloses \in Nat

VARIABLES
    managed,    \* LogManager.database is not None
    connected,  \* the connection is open
    logging,    \* logging[l]: the entry l is in log() with; 0 outside
    holds,      \* holds[l]: l has read self.database for its insert()
    unsaved,    \* LogDatabase._buffer
    loose,      \* rows of the transaction a failed flush left open
    rows,       \* communication_log, as committed
    closer,     \* where the thread that shuts down is
    entries, faults, closes,
    accepted,   \* history: the entries as they were put into the buffer
    sealed      \* history: how many there were when the connection was closed

logVars == <<managed, connected, logging, holds, unsaved, loose, rows, closer,
             entries, faults, closes, accepted, sealed>>

Entry == 1 .. MaxEntries

LogTypeOK ==
    /\ managed \in BOOLEAN /\ connected \in BOOLEAN
    /\ logging \in [Loggers -> 0 .. entries]
    /\ holds \in [Loggers -> BOOLEAN]
    /\ \A s \in {unsaved, loose, rows, accepted} : s \in Seq(Entry)
    /\ closer \in {"idle", "flushing", "closing", "forgetting"}
    /\ entries \in 0 .. MaxEntries /\ faults \in 0 .. MaxFaults /\ closes \in 0 .. MaxCloses
    /\ sealed \in 0 .. Len(accepted)
    \* The manager forgets a closed database only, and close() is then over.
    /\ connected => managed
    \* What was written and not committed is still to be written.
    /\ Range(loose) \subseteq Range(unsaved)

LogInit ==
    /\ managed = TRUE /\ connected = TRUE
    /\ logging = [l \in Loggers |-> 0] /\ holds = [l \in Loggers |-> FALSE]
    /\ unsaved = <<>> /\ loose = <<>> /\ rows = <<>>
    /\ closer = "idle"
    /\ entries = 0 /\ faults = 0 /\ closes = 0
    /\ accepted = <<>> /\ sealed = 0

-----------------------------------------------------------------------------
(* LogDatabase._flush_locked with buffer b: done says whether it returned. *)

\* Mutant: the buffer is emptied first, and written from a copy.
EmptiesFirst(b) == unsaved' = <<>>

\* executemany() or commit() raises before the buffer is emptied.
Keeps(b) == unsaved' = b

NothingToStore(b, done) ==
    /\ b = <<>> /\ done
    /\ UNCHANGED <<unsaved, loose, rows, faults>>

Stores(b, done) ==
    /\ b # <<>> /\ connected /\ done
    /\ rows' = rows \o loose \o b
    /\ unsaved' = <<>> /\ loose' = <<>>
    /\ UNCHANGED faults

\* The disk refuses: the rows before the failing one stay in the open
\* transaction, or SQLite has rolled it back.
Refused(b, done) ==
    /\ b # <<>> /\ connected /\ ~done
    /\ faults < MaxFaults /\ faults' = faults + 1
    /\ Keeps(b)
    /\ \/ \E n \in 0 .. Len(b) : loose' = loose \o SubSeq(b, 1, n)
       \/ loose' = <<>>
    /\ UNCHANGED rows

\* ProgrammingError: the connection is closed.
NoConnection(b, done) ==
    /\ b # <<>> /\ ~connected /\ ~done
    /\ Keeps(b)
    /\ UNCHANGED <<loose, rows, faults>>

FlushLocked(b, done) ==
    NothingToStore(b, done) \/ Stores(b, done) \/ Refused(b, done) \/ NoConnection(b, done)

-----------------------------------------------------------------------------
(* log()                                                                   *)

\* Up to "self.database is not None"; without a database the call is over.
Log(l) ==
    /\ logging[l] = 0 /\ entries < MaxEntries
    /\ entries' = entries + 1
    /\ logging' = [logging EXCEPT ![l] = IF managed THEN entries + 1 ELSE 0]
    /\ UNCHANGED <<managed, connected, holds, unsaved, loose, rows, closer, faults, closes,
                   accepted, sealed>>

\* self.database is read once more: AttributeError when it is None by now.
Reread(l) ==
    /\ logging[l] # 0 /\ ~holds[l]
    /\ holds' = [holds EXCEPT ![l] = managed]
    /\ logging' = [logging EXCEPT ![l] = IF managed THEN @ ELSE 0]
    /\ UNCHANGED <<managed, connected, unsaved, loose, rows, closer, entries, faults, closes,
                   accepted, sealed>>

\* Written when the buffer is full, or the last flush is flush_interval_s ago.
Inserted(l, b) ==
    \/ Len(b) < BufferSize /\ unsaved' = b /\ UNCHANGED <<loose, rows, faults>>
    \/ \E done \in BOOLEAN : FlushLocked(b, done)

\* A flush that raises ends log(); the entry is in the buffer all the same.
Insert(l) ==
    /\ holds[l]
    /\ accepted' = Append(accepted, logging[l])
    /\ Inserted(l, Append(unsaved, logging[l]))
    /\ logging' = [logging EXCEPT ![l] = 0]
    /\ holds' = [holds EXCEPT ![l] = FALSE]
    /\ UNCHANGED <<managed, connected, closer, entries, closes, sealed>>

-----------------------------------------------------------------------------
(* flush() and close(), called by MainController.shutdown and again by     *)
(* Application.shutdown.                                                   *)

\* flush() of the manager, outside close().
LogFlush ==
    /\ closer = "idle" /\ managed /\ unsaved # <<>>
    /\ \E done \in BOOLEAN : FlushLocked(unsaved, done)
    /\ UNCHANGED <<managed, connected, logging, holds, closer, entries, closes, accepted, sealed>>

Close ==
    /\ closer = "idle" /\ closes < MaxCloses
    /\ closes' = closes + 1
    /\ closer' = IF managed THEN "flushing" ELSE "idle"
    /\ UNCHANGED <<managed, connected, logging, holds, unsaved, loose, rows, entries, faults,
                   accepted, sealed>>

\* The flush close() begins with.
FlushFirst ==
    /\ closer = "flushing"
    /\ \E done \in BOOLEAN :
          /\ FlushLocked(unsaved, done)
          /\ closer' = IF done THEN "closing" ELSE "idle"
    /\ UNCHANGED <<managed, connected, logging, holds, entries, closes, accepted, sealed>>

\* Mutant: the connection is closed as it is, the flush was just done.
CloseAsItIs ==
    /\ closer = "closing"
    /\ connected' = FALSE /\ closer' = "forgetting" /\ sealed' = Len(accepted)
    /\ loose' = <<>>
    /\ UNCHANGED <<managed, logging, holds, unsaved, rows, entries, faults, closes, accepted>>

\* LogDatabase.close: a last flush and the end of the connection under one
\* lock; a flush that raises leaves it open and close() is over.
CloseDatabase ==
    /\ closer = "closing"
    /\ \E done \in BOOLEAN :
          /\ FlushLocked(unsaved, done)
          /\ connected' = (connected /\ ~done)
          /\ closer' = IF done THEN "forgetting" ELSE "idle"
          /\ sealed' = IF done THEN Len(accepted) ELSE sealed
    /\ UNCHANGED <<managed, logging, holds, entries, closes, accepted>>

\* self.database = None
Forget ==
    /\ closer = "forgetting"
    /\ managed' = FALSE /\ closer' = "idle"
    /\ UNCHANGED <<connected, logging, holds, unsaved, loose, rows, entries, faults, closes,
                   accepted, sealed>>

LogNext ==
    \/ \E l \in Loggers : Log(l) \/ Reread(l) \/ Insert(l)
    \/ LogFlush \/ Close \/ FlushFirst \/ CloseDatabase \/ Forget

LogSpec == LogInit /\ [][LogNext]_logVars

-----------------------------------------------------------------------------
\* Rows are written again after a failed flush, but none before an entry that
\* was logged earlier: whenever the platform dies, the table has the entries up
\* to some moment and none of them is missing (_flush_locked empties the buffer
\* after the commit).
NothingSkipped ==
    \A i \in DOMAIN rows, j \in DOMAIN accepted :
        rows[i] = accepted[j] => \A k \in 1 .. j - 1 : \E h \in 1 .. i - 1 : rows[h] = accepted[k]

\* Once the database is closed it has every entry that was put into its buffer
\* before, those of threads that logged during close() too.
ClosedIsStored ==
    ~connected => \A j \in 1 .. sealed : accepted[j] \in Range(rows)
=============================================================================
