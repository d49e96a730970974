------------------------------- MODULE PgStore -------------------------------
(***************************************************************************)
(* The API service's PostgreSQL store (services/api/lib/db-postgres.js):   *)
(* collections are arrays in memory, and a debounced flush rewrites those  *)
(* that were touched, each with a DELETE of its table and an INSERT of     *)
(* what memory holds, in one transaction.  The tables are those of         *)
(* database/migrations/0001_init.sql, whose foreign keys cascade.          *)
(*                                                                         *)
(* The service runs on one thread, but every statement is awaited: while   *)
(* PostgreSQL works, request handlers and scans go on changing the arrays. *)
(*                                                                         *)
(* A row is present in a version, 1 and up, which every change of it       *)
(* counts up; version 0 is a row that is not there.  The store begins on   *)
(* freshly migrated tables, and a table has at most the 200 rows one       *)
(* INSERT takes.  A flush is over before the next timer fires (120 ms); a  *)
(* second one in parallel is not modelled, nor is what open() makes of the *)
(* rows of an earlier process, nor close(), which drops the timer.         *)
(***************************************************************************)
EXTENDS Naturals, Sequences

CONSTANTS
    PgHome,         \* PgHome[r]: the collection of row r
    PgParents,      \* PgParents[r]: the rows r references ON DELETE CASCADE
    PgLinks,        \* PgLinks[r]: the rows r references ON DELETE SET NULL
    PgAccepted,     \* the rows that pass NOT NULL and CHECK
    PgSeeded,       \* the rows ensureDemoUser() pushes at startup
    MaxVersion,     \* bound: the versions of a row
    MaxOutages      \* bound: the flushes PostgreSQL breaks off

PgRows == DOMAIN PgHome

FlushOrder == <<"notifications", "subscriptions", "reports", "devices", "sessions", "vehicles",
                "audit", "users">>

Collections == {FlushOrder[i] : i \in DOMAIN FlushOrder} \cup {"tokens"}

\* The collections the service itself touches, without a user's request.
ServiceOwn == {"sessions", "notifications", "tokens"}

\* A report's session belongs to the report's user; users refer to nothing.
ASSUME SchemaAssumption ==
    /\ PgHome \in [PgRows -> Collections]
    /\ PgParents \in [PgRows -> SUBSET PgRows] /\ PgLinks \in [PgRows -> SUBSET PgRows]
    /\ \A r \in PgRows : \A p \in PgParents[r] : PgParents[p] \subseteq PgParents[r]
    /\ \A r \in PgRows : PgHome[r] = "users" => PgParents[r] = {} /\ PgLinks[r] = {}
    /\ PgAccepted \subseteq PgRows /\ PgSeeded \subseteq PgRows
    /\ MaxVersion \in Nat \ {0} /\ MaxOutages \in Nat

VARIABLES
    memory,     \* memory[r]: the version the array holds
    removed,    \* the rows that were spliced out of their array
    dirty,      \* the names collection() was asked for since they were last rewritten
    flushTimer, \* a flush is scheduled
    flush,      \* the flush under way: where it is and what it has inserted
    tables,     \* what the transaction under way sees
    committed,  \* what PostgreSQL keeps
    outages     \* history: the flushes broken off

pgVars == <<memory, removed, dirty, flushTimer, flush, tables, committed, outages>>

NoRow == [version |-> 0, linked |-> FALSE]
StoredRow == [version : 0 .. MaxVersion, linked : BOOLEAN]

NoFlush == [pc |-> "idle", at |-> 0, put |-> [r \in PgRows |-> NoRow], done |-> {}]

\* What the rows of collection c are in memory.
Held(c) == {r \in PgRows : PgHome[r] = c /\ memory[r] > 0}

PgInit ==
    /\ memory = [r \in PgRows |-> IF r \in PgSeeded THEN 1 ELSE 0]
    /\ removed = {}
    /\ dirty = {"users", "sessions"}
    /\ flushTimer = FALSE
    /\ flush = NoFlush
    /\ tables = [r \in PgRows |-> NoRow] /\ committed = tables
    /\ outages = 0

-----------------------------------------------------------------------------
(* The routes and the runtime.                                             *)

\* collection(), and who asks: every authenticated request looks its user up.
\* (A body is awaited between the two; Look is that a user was looked up only.)
Touched(c) ==
    \/ c \in ServiceOwn /\ dirty' = dirty \cup {c}
    \/ dirty' = dirty \cup {c, "users"}

\* A request that changes nothing schedules no flush.
Look(c) ==
    /\ Touched(c)
    /\ UNCHANGED <<memory, removed, flushTimer, flush, tables, committed, outages>>

Changed(r, version) ==
    /\ memory' = [memory EXCEPT ![r] = version]
    /\ flushTimer' = TRUE
    /\ UNCHANGED <<flush, tables, committed, outages>>

\* push(): what the new row refers to was looked up in memory.
Push(r) ==
    /\ memory[r] = 0 /\ r \notin removed
    /\ \A p \in PgParents[r] \cup PgLinks[r] : memory[p] > 0
    /\ Touched(PgHome[r]) /\ Changed(r, 1)
    /\ UNCHANGED removed

Update(r) ==
    /\ memory[r] \in 1 .. MaxVersion - 1
    /\ Touched(PgHome[r]) /\ Changed(r, memory[r] + 1)
    /\ UNCHANGED removed

\* A row that was found before an await is changed after it (a scan's progress,
\* a vehicle's PATCH, a device's pairing): nobody asks for the collection again.
UpdateHeld(r) ==
    /\ PgHome[r] \in {"sessions", "vehicles", "devices"}
    /\ memory[r] \in 1 .. MaxVersion - 1
    /\ Changed(r, memory[r] + 1)
    /\ UNCHANGED <<removed, dirty>>

\* splice(); rows that refer to it stay.  Users are never removed.
Splice(r) ==
    /\ memory[r] > 0 /\ PgHome[r] # "users"
    /\ Touched(PgHome[r]) /\ Changed(r, 0)
    /\ removed' = removed \cup {r}

-----------------------------------------------------------------------------
(* flush()                                                                 *)

\* DELETE FROM the table of c: rows that refer to its rows go too, or lose
\* their link.
Emptied(c) ==
    LET In(rows) == \E p \in rows : PgHome[p] = c
    IN [r \in PgRows |-> IF PgHome[r] = c \/ In(PgParents[r]) THEN NoRow
                         ELSE IF In(PgLinks[r]) THEN [tables[r] EXCEPT !.linked = FALSE]
                         ELSE tables[r]]

\* The loop from the collection after the last one: the next dirty one is
\* deleted, or the transaction committed.
NextStatement(names, put, done) ==
    LET left == {i \in DOMAIN FlushOrder : i > flush.at /\ FlushOrder[i] \in names}
    IN \/ /\ left = {}
          /\ flush' = [flush EXCEPT !.pc = "commit", !.put = put, !.done = done]
          /\ UNCHANGED tables
       \/ \E i \in left :
             /\ \A j \in left : i <= j
             /\ flush' = [pc |-> "delete", at |-> i, put |-> put, done |-> done]
             /\ tables' = Emptied(FlushOrder[i])

\* The timer: BEGIN is sent, if any collection is dirty.
StartFlush ==
    /\ flushTimer /\ flush.pc = "idle"
    /\ flushTimer' = FALSE
    /\ flush' = IF dirty = {} THEN flush ELSE [flush EXCEPT !.pc = "begin"]
    /\ UNCHANGED <<memory, removed, dirty, tables, committed, outages>>

Begun ==
    /\ flush.pc = "begin"
    /\ NextStatement(dirty, flush.put, flush.done)
    /\ UNCHANGED <<memory, removed, dirty, flushTimer, committed, outages>>

Current == FlushOrder[flush.at]

\* dirty.delete(name), and on to the next collection.
Rewritten(put) ==
    /\ dirty' = dirty \ {Current}
    /\ NextStatement(dirty', put, flush.done \cup {Current})
    /\ UNCHANGED <<memory, removed, flushTimer, committed, outages>>

\* Mutant: no transaction, what was done stays done.
RollbackOfNothing ==
    /\ flush' = NoFlush /\ committed' = tables
    /\ UNCHANGED <<memory, removed, dirty, flushTimer, tables>>

\* ROLLBACK; whoever waits for the flush swallows the error.  What the flush
\* has already rewritten stays forgotten.
Rollback ==
    /\ flush' = NoFlush /\ tables' = committed
    /\ UNCHANGED <<memory, removed, dirty, flushTimer, committed>>

\* Every reference must be in its table.
Admitted(rows) ==
    /\ rows \subseteq PgAccepted
    /\ \A r \in rows : \A p \in PgParents[r] \cup PgLinks[r] : tables[p].version > 0

NothingToInsert == flush.pc = "delete" /\ Held(Current) = {} /\ Rewritten(flush.put)

AsHeld(r) == [version |-> memory[r], linked |-> PgLinks[r] # {}]

InsertRows ==
    /\ flush.pc = "delete" /\ Held(Current) # {} /\ Admitted(Held(Current))
    /\ LET With(f) == [r \in PgRows |-> IF r \in Held(Current) THEN AsHeld(r) ELSE f[r]]
       IN /\ tables' = With(tables)
          /\ flush' = [flush EXCEPT !.pc = "insert", !.put = With(@)]
    /\ UNCHANGED <<memory, removed, dirty, flushTimer, committed, outages>>

InsertRefused ==
    /\ flush.pc = "delete" /\ Held(Current) # {} /\ ~Admitted(Held(Current))
    /\ Rollback /\ UNCHANGED outages

RowsInserted == flush.pc = "insert" /\ Rewritten(flush.put)

Commit ==
    /\ flush.pc = "commit"
    /\ committed' = tables /\ flush' = NoFlush
    /\ UNCHANGED <<memory, removed, dirty, flushTimer, tables, outages>>

\* No connection, or one that breaks.
Outage ==
    /\ flush.pc # "idle"
    /\ outages < MaxOutages /\ outages' = outages + 1
    /\ Rollback

FlushStep ==
    \/ StartFlush \/ Begun \/ NothingToInsert \/ InsertRows \/ InsertRefused \/ RowsInserted
    \/ Commit \/ Outage

PgNext ==
    \/ \E r \in PgRows : Look(PgHome[r])
    \/ \E r \in PgRows : Push(r) \/ Update(r) \/ UpdateHeld(r) \/ Splice(r)
    \/ FlushStep

PgSpec == PgInit /\ [][PgNext]_pgVars

PgTypeOK ==
    /\ memory \in [PgRows -> 0 .. MaxVersion] /\ removed \subseteq PgRows
    /\ dirty \subseteq Collections /\ flushTimer \in BOOLEAN
    /\ flush \in [pc : {"idle", "begin", "delete", "insert", "commit"},
                  at : 0 .. Len(FlushOrder), put : [PgRows -> StoredRow],
                  done : SUBSET Collections]
    /\ tables \in [PgRows -> StoredRow] /\ committed \in [PgRows -> StoredRow]
    /\ outages \in 0 .. MaxOutages

-----------------------------------------------------------------------------
\* A transaction that is about to be committed has in its tables what it wrote
\* there: "Rewrite every touched collection into its table, in one transaction."
RewritesTouched ==
    flush.pc = "commit" =>
        \A r \in PgRows : PgHome[r] \in flush.done => tables[r] = flush.put[r]

\* PostgreSQL keeps a row as it was at some time, and never goes back to an
\* earlier one, whatever changes while a flush is under way or breaks it off;
\* and it keeps every user, although their table is emptied time and again.
KeepsUp ==
    [][\A r \in PgRows :
          \/ committed'[r].version >= committed[r].version
          \/ committed'[r].version = 0 /\ PgHome[r] # "users"]_pgVars
=============================================================================
