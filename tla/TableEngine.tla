----------------------------- MODULE TableEngine -----------------------------
(***************************************************************************)
(* The id assignment and the commit pipeline of the table engine           *)
(* (TEDirectDB, TECachedDB) for tables with `no_duplicate`: `set()` gives  *)
(* a key the id it already has, or a new one, and stages the row;          *)
(* `commit_all()` hands the staged rows to a writer thread and returns;    *)
(* every read of a table that the pending batch writes waits for it.       *)
(*                                                                         *)
(* Actors: the main thread (every call of the engine), the writer thread   *)
(* of the pending batch, which writes each table as one transaction on a   *)
(* connection of its own, and the faults: a table that cannot be written,  *)
(* a connection lost between a COMMIT and its answer, and the death of the *)
(* process. A row is its key and its id: the columns after the id are the  *)
(* key of a deduplicated table.                                            *)
(***************************************************************************)
EXTENDS Naturals, FiniteSets

CONSTANTS
    Tables,      \* cached tables with no_duplicate
    Keys,        \* the contents their rows may have
    MaxId,       \* bound on the ids handed out per table
    ChunkRows,   \* rows of one INSERT statement (max_rows of insert())
    MaxFailures, \* bound on the tables that cannot be written
    MaxLostAcks  \* bound on the connections lost while a COMMIT is answered

ASSUME EngineAssumptions ==
    MaxId \in Nat /\ ChunkRows \in Nat \ {0} /\ MaxFailures \in Nat /\ MaxLostAcks \in Nat

NoId == 0   \* a key without an entry; ids start at 1

VARIABLES
    db,        \* per table: the rows <<key, id>> of the database
    queued,    \* queued_set: per table and key the id of its staged row
    index,     \* _nodup_index: per table and key the id the cache knows
    memo,      \* _committed_nodup_keys: the ids of committed keys ...
    absent,    \* ... and the keys memoized as absent from the database
    complete,  \* _nodup_complete: tables whose index has every row
    nextId,    \* next_id
    writing,   \* "none", or which call writes the batch: commit_all() with the writer
               \* thread ("background") or without ("all"), commit() ("one")
    staged,    \* batch.staged: the rows taken out of the staging queues
    added,     \* batch.added_nodup: the keys that are new in memo
    toWrite,   \* per table: the keys of the batch still to be inserted
    failed,    \* failed_table_ids
    purge,     \* tables whose cache is dropped after the batch
    promised,  \* rows returned by set() since the engine was started
    failures, lostAcks  \* the faults that may still happen

cacheVars == <<index, memo, absent, complete>>
batchVars == <<writing, staged, added, toWrite, failed, purge>>
faultVars == <<failures, lostAcks>>
vars == <<db, queued, cacheVars, nextId, batchVars, promised, faultVars>>

Empty == [t \in Tables |-> [k \in Keys |-> NoId]]
None == [t \in Tables |-> {}]

\* The database's answer for a key: db.select on every column after the id.
Found(t, k) == \E row \in db[t] : row[1] = k
DbId(t, k) == IF Found(t, k) THEN (CHOOSE row \in db[t] : row[1] = k)[2] ELSE NoId

NoBatch ==
    /\ writing = "none" /\ staged = Empty /\ added = None
    /\ toWrite = None /\ failed = {} /\ purge = {}

Init ==
    /\ db = None /\ queued = Empty
    /\ index = Empty /\ memo = Empty /\ absent = None /\ complete = Tables
    /\ nextId = [t \in Tables |-> 1]
    /\ NoBatch
    /\ promised = None
    /\ failures = MaxFailures /\ lostAcks = MaxLostAcks

-----------------------------------------------------------------------------
(***************************************************************************)
(* set() and get(): what id does this key have?                            *)
(***************************************************************************)
\* A synchronous write keeps the main thread inside the call.
Free == writing \in {"none", "background"}

\* batch.table_ids: the tables with rows to insert.
BatchTables == {t \in Tables : added[t] # {}}

\* _await_writes: a read of a table that the pending batch writes first joins
\* the batch.
MayRead(t) == writing = "none" \/ t \notin BatchTables

\* What set() finds without a read: the cache, the staging queue, then the
\* committed keys.
KnownId(t, k) ==
    IF index[t][k] # NoId THEN index[t][k]
    ELSE IF queued[t][k] # NoId THEN queued[t][k]
    ELSE memo[t][k]

\* _committed_nodup_id asks the database.
NeedsRead(t, k) ==
    /\ index[t][k] = NoId /\ memo[t][k] = NoId
    /\ k \notin absent[t] /\ t \notin complete

Promise(t, k, i) == promised' = [promised EXCEPT ![t] = @ \cup {<<k, i>>}]

\* The key has an id in memory: no row is staged. A key that only the
\* committed keys have is put into the cache again.
SetKnown(t, k) ==
    /\ Free /\ KnownId(t, k) # NoId
    /\ Promise(t, k, KnownId(t, k))
    /\ index' = IF queued[t][k] = NoId THEN [index EXCEPT ![t][k] = KnownId(t, k)] ELSE index
    /\ UNCHANGED <<db, queued, memo, absent, complete, nextId, batchVars, faultVars>>

\* The database has the key: cache that row instead of minting a second id.
SetStored(t, k) ==
    /\ Free /\ KnownId(t, k) = NoId /\ NeedsRead(t, k) /\ MayRead(t)
    /\ Found(t, k)
    /\ Promise(t, k, DbId(t, k))
    /\ memo' = [memo EXCEPT ![t][k] = DbId(t, k)]
    /\ index' = [index EXCEPT ![t][k] = DbId(t, k)]
    /\ UNCHANGED <<db, queued, absent, complete, nextId, batchVars, faultVars>>

\* The key is new: stage it under the next id.
SetNew(t, k) ==
    /\ Free /\ KnownId(t, k) = NoId
    /\ NeedsRead(t, k) => MayRead(t) /\ ~Found(t, k)
    /\ nextId[t] <= MaxId
    /\ absent' = IF NeedsRead(t, k) THEN [absent EXCEPT ![t] = @ \cup {k}] ELSE absent
    /\ queued' = [queued EXCEPT ![t][k] = nextId[t]]
    /\ index' = [index EXCEPT ![t][k] = nextId[t]]
    /\ nextId' = [nextId EXCEPT ![t] = @ + 1]
    /\ Promise(t, k, nextId[t])
    /\ UNCHANGED <<db, memo, complete, batchVars, faultVars>>

\* get() of a full key: a read is memoized, also when it finds nothing.
GetReads(t, k) ==
    /\ Free /\ NeedsRead(t, k) /\ MayRead(t)
    /\ memo' = [memo EXCEPT ![t][k] = DbId(t, k)]
    /\ absent' = IF Found(t, k) THEN absent ELSE [absent EXCEPT ![t] = @ \cup {k}]
    /\ UNCHANGED <<db, queued, index, complete, nextId, batchVars, promised, faultVars>>

-----------------------------------------------------------------------------
(***************************************************************************)
(* commit(), commit_all(): the batch and its writer.                       *)
(***************************************************************************)
StagedKeys(t) == {k \in Keys : queued[t][k] # NoId}

\* Mutant: a key memoized as absent is left as it is.
TakeStaged_KeepAbsent(ts) ==
    LET new == [t \in Tables |-> IF t \in ts THEN {k \in StagedKeys(t) : memo[t][k] = NoId} ELSE {}]
    IN /\ staged' = [t \in Tables |-> IF t \in ts THEN queued[t] ELSE Empty[t]]
       /\ added' = new
       /\ toWrite' = new
       /\ queued' = [t \in Tables |-> IF t \in ts THEN Empty[t] ELSE queued[t]]
       /\ memo' = [t \in Tables |-> [k \in Keys |->
                      IF k \in new[t] \ absent[t] THEN queued[t][k] ELSE memo[t][k]]]
       /\ UNCHANGED absent

\* _take_staged: the rows leave the staging queues and count as committed. A
\* staged key that the committed keys already have is not written again.
TakeStaged(ts) ==
    LET new == [t \in Tables |-> IF t \in ts THEN {k \in StagedKeys(t) : memo[t][k] = NoId} ELSE {}]
    IN /\ staged' = [t \in Tables |-> IF t \in ts THEN queued[t] ELSE Empty[t]]
       /\ added' = new
       /\ toWrite' = new
       /\ queued' = [t \in Tables |-> IF t \in ts THEN Empty[t] ELSE queued[t]]
       /\ memo' = [t \in Tables |-> [k \in Keys |->
                      IF k \in new[t] THEN queued[t][k] ELSE memo[t][k]]]
       /\ absent' = [t \in Tables |-> absent[t] \ new[t]]

\* commit_all() with background commits on.
CommitInBackground ==
    /\ writing = "none" /\ \E t \in Tables : StagedKeys(t) # {}
    /\ TakeStaged(Tables)
    /\ writing' = "background" /\ purge' = {}
    /\ UNCHANGED <<db, index, complete, nextId, failed, promised, faultVars>>

\* commit_all() and commit() that write before they return; with
\* update_in_mem_indexes=False they drop the caches of the tables after it.
CommitAndWait(call, ts, drop) ==
    /\ writing = "none"
    /\ TakeStaged(ts)
    /\ writing' = call /\ purge' = IF drop THEN ts ELSE {}
    /\ UNCHANGED <<db, index, complete, nextId, failed, promised, faultVars>>

\* commit_tables_parallel with a single table and no writer thread inserts
\* on the connection of the main thread, which commits every statement; any
\* other table is one transaction.
InStatements(t) == writing = "all" /\ BatchTables = {t}

\* The keys that reach the database together: those of a whole transaction,
\* or of the next statement, in the order of the ids.
IsInsert(t, ks) ==
    /\ ks # {} /\ ks \subseteq toWrite[t]
    /\ IF InStatements(t)
       THEN /\ Cardinality(ks) <= ChunkRows
            /\ ks # toWrite[t] => Cardinality(ks) = ChunkRows
            /\ \A k \in ks, l \in toWrite[t] \ ks : staged[t][k] < staged[t][l]
       ELSE ks = toWrite[t]

\* The rows of these keys, and whether the primary key of one is taken.
Payload(t, ks) == {<<k, staged[t][k]>> : k \in ks}
Duplicate(t, ks) == \E row \in db[t] : \E k \in ks : row[2] = staged[t][k]

Insert(t, ks) ==
    /\ IsInsert(t, ks) /\ ~Duplicate(t, ks)
    /\ db' = [db EXCEPT ![t] = @ \cup Payload(t, ks)]

WriteTable(t) ==
    \E ks \in SUBSET Keys :
        /\ Insert(t, ks)
        /\ toWrite' = [toWrite EXCEPT ![t] = @ \ ks]
        /\ UNCHANGED <<queued, cacheVars, nextId, writing, staged, added, failed, purge, promised, faultVars>>

\* Mutant: the error is dropped.
TableFails_Dropped(t) ==
    /\ toWrite' = [toWrite EXCEPT ![t] = {}]
    /\ UNCHANGED <<db, queued, cacheVars, nextId, writing, staged, added, failed, purge, promised, lostAcks>>

TableFails(t) ==
    /\ toWrite' = [toWrite EXCEPT ![t] = {}]
    /\ failed' = failed \cup {t}
    /\ UNCHANGED <<db, queued, cacheVars, nextId, writing, staged, added, purge, promised, lostAcks>>

\* An error, or the third lost connection: a transaction was rolled back,
\* statements were not.
WriteFails(t) ==
    /\ toWrite[t] # {} /\ failures > 0
    /\ failures' = failures - 1
    /\ TableFails(t)

\* "Duplicate entry for primary key": an error as well.
WriteIsDuplicate(t) ==
    /\ \E ks \in SUBSET Keys : IsInsert(t, ks) /\ Duplicate(t, ks)
    /\ TableFails(t)
    /\ UNCHANGED failures

\* The connection is lost after the server committed and before the answer:
\* the rows are written again on a new connection.
WriteAckLost(t) ==
    /\ lostAcks > 0
    /\ \E ks \in SUBSET Keys : Insert(t, ks)
    /\ lostAcks' = lostAcks - 1
    /\ UNCHANGED <<queued, cacheVars, nextId, batchVars, promised, failures>>

\* Mutant: a table whose cache was dropped still counts as completely cached.
JoinSucceeds_StillComplete ==
    /\ writing # "none" /\ toWrite = None /\ failed = {}
    /\ index' = [t \in Tables |-> IF t \in purge THEN Empty[t] ELSE index[t]]
    /\ writing' = "none" /\ staged' = Empty /\ added' = None /\ purge' = {}
    /\ UNCHANGED <<db, queued, memo, absent, complete, nextId, toWrite, failed, promised, faultVars>>

\* wait_for_commit, or the end of a synchronous write, after success.
JoinSucceeds ==
    /\ writing # "none" /\ toWrite = None /\ failed = {}
    /\ index' = [t \in Tables |-> IF t \in purge THEN Empty[t] ELSE index[t]]
    /\ complete' = complete \ purge
    /\ writing' = "none" /\ staged' = Empty /\ added' = None /\ purge' = {}
    /\ UNCHANGED <<db, queued, memo, absent, nextId, toWrite, failed, promised, faultVars>>

\* Mutant: the restored keys stay with the committed keys.
JoinFails_KeepCommitted ==
    /\ writing # "none" /\ toWrite = None /\ failed # {}
    /\ queued' = [t \in Tables |-> [k \in Keys |->
                    IF t \in failed /\ queued[t][k] = NoId THEN staged[t][k] ELSE queued[t][k]]]
    /\ writing' = "none" /\ staged' = Empty /\ added' = None /\ failed' = {} /\ purge' = {}
    /\ UNCHANGED <<db, index, memo, absent, complete, nextId, toWrite, promised, faultVars>>

\* _restore_batch: the rows of the tables the database did not commit go back
\* to staging and their keys leave the committed keys; then the error is raised.
JoinFails ==
    /\ writing # "none" /\ toWrite = None /\ failed # {}
    /\ queued' = [t \in Tables |-> [k \in Keys |->
                    IF t \in failed /\ queued[t][k] = NoId THEN staged[t][k] ELSE queued[t][k]]]
    /\ memo' = [t \in Tables |-> [k \in Keys |->
                  IF t \in failed /\ k \in added[t] THEN NoId ELSE memo[t][k]]]
    /\ writing' = "none" /\ staged' = Empty /\ added' = None /\ failed' = {} /\ purge' = {}
    /\ UNCHANGED <<db, index, absent, complete, nextId, toWrite, promised, faultVars>>

-----------------------------------------------------------------------------
(***************************************************************************)
(* start_new_db() and the death of the process.                            *)
(***************************************************************************)
\* Mutant: the highest id itself.
IsNextId_Max(t, n) ==
    /\ \A row \in db[t] : row[2] <= n
    /\ (n = 1 /\ db[t] = {}) \/ \E row \in db[t] : row[2] = n

\* db.get_next_id: SELECT COALESCE(MAX(id), 0) + 1.
IsNextId(t, n) ==
    /\ \A row \in db[t] : row[2] < n
    /\ n = 1 \/ \E row \in db[t] : row[2] + 1 = n

\* The staging queues are emptied and the tables of `preloaded` read into the
\* cache; a table packed into shared memory leaves no committed keys behind.
StartWith(preloaded, packed) ==
    /\ queued' = Empty
    /\ index' = [t \in Tables |-> [k \in Keys |-> IF t \in preloaded THEN DbId(t, k) ELSE NoId]]
    /\ memo' = [t \in Tables |-> [k \in Keys |->
                  IF t \in preloaded \ packed THEN DbId(t, k) ELSE NoId]]
    /\ absent' = None /\ complete' = preloaded
    /\ nextId' \in [Tables -> 1..(MaxId + 1)]
    /\ \A t \in Tables : IsNextId(t, nextId'[t])
    /\ staged' = Empty /\ added' = None /\ purge' = {} /\ toWrite' = None /\ failed' = {}
    /\ writing' = "none"
    /\ promised' = None
    /\ UNCHANGED <<db, faultVars>>

\* close() joins the pending batch first, so a restart finds none.
Restart(preloaded, packed) == writing = "none" /\ StartWith(preloaded, packed)

\* The process dies, its writer thread with it, and is started again.
CrashAndStart(preloaded, packed) == writing # "none" /\ StartWith(preloaded, packed)

SetStep(t, k) == SetKnown(t, k) \/ SetStored(t, k) \/ SetNew(t, k)
WriterStep(t) == WriteTable(t) \/ WriteFails(t) \/ WriteIsDuplicate(t) \/ WriteAckLost(t)
CommitStep ==
    \/ CommitInBackground
    \/ \E drop \in BOOLEAN :
          \/ CommitAndWait("all", Tables, drop)
          \/ \E t \in Tables : CommitAndWait("one", {t}, drop)
JoinStep == JoinSucceeds \/ JoinFails

Next ==
    \/ \E t \in Tables, k \in Keys : SetStep(t, k) \/ GetReads(t, k)
    \/ CommitStep
    \/ \E t \in Tables : WriterStep(t)
    \/ JoinStep
    \/ \E preloaded, packed \in SUBSET Tables :
          Restart(preloaded, packed) \/ CrashAndStart(preloaded, packed)

Spec == Init /\ [][Next]_vars

(***************************************************************************)
(* The ingest loop of the main thread commits everything again and again,  *)
(* the writer thread runs, and a finished batch is joined. Nothing else    *)
(* need happen. Other calls may come between two commits, hence SF.        *)
(***************************************************************************)
CommitEverything == CommitInBackground \/ CommitAndWait("all", Tables, TRUE)
Fairness ==
    /\ SF_vars(CommitEverything)
    /\ WF_vars(\E t \in Tables : WriteTable(t) \/ WriteIsDuplicate(t))
    /\ WF_vars(JoinStep)
FairSpec == Spec /\ Fairness

-----------------------------------------------------------------------------
(***************************************************************************)
(* Properties.                                                             *)
(***************************************************************************)
Ids == Nat \ {NoId}

TypeOK ==
    /\ db \in [Tables -> SUBSET (Keys \X Ids)]
    /\ queued \in [Tables -> [Keys -> Nat]] /\ staged \in [Tables -> [Keys -> Nat]]
    /\ index \in [Tables -> [Keys -> Nat]] /\ memo \in [Tables -> [Keys -> Nat]]
    /\ absent \in [Tables -> SUBSET Keys] /\ added \in [Tables -> SUBSET Keys]
    /\ complete \subseteq Tables /\ purge \subseteq Tables
    /\ toWrite \in [Tables -> SUBSET Keys] /\ \A t \in Tables : toWrite[t] \subseteq added[t]
    /\ failed \subseteq BatchTables
    /\ nextId \in [Tables -> Ids]
    /\ writing \in {"none", "background", "all", "one"}
    /\ writing = "none" => NoBatch
    /\ promised \in [Tables -> SUBSET (Keys \X Ids)]
    /\ failures \in Nat /\ lostAcks \in Nat

\* The rows of a table wherever they are: in the database, staged, or in the
\* batch that is being written.
IsRow(t, k, i) ==
    i # NoId /\ (<<k, i>> \in db[t] \/ queued[t][k] = i \/ staged[t][k] = i)
Rows(t) == db[t] \cup {<<k, queued[t][k]>> : k \in StagedKeys(t)}
           \cup {<<k, staged[t][k]>> : k \in {l \in Keys : staged[t][l] # NoId}}

\* A key never gets a second id and an id never a second key, over the
\* database, the staging queues and the pending batch together: "staging it
\* cannot mint a second id for content the database already stores".
UniqueIds ==
    \A t \in Tables : \A r, s \in Rows(t) : r[1] = s[1] <=> r[2] = s[2]

\* A row that set() returned is not lost while the engine runs: a table that
\* could not be written comes back to staging, also its rows that a later
\* commit would otherwise skip as committed.
NoLostRow == \A t \in Tables : promised[t] \subseteq Rows(t)

\* What a lookup of a full key returns: the cache, the committed keys, or the
\* database once the pending batch is joined.
Lookup(t, k) ==
    IF index[t][k] # NoId THEN index[t][k]
    ELSE IF ~NeedsRead(t, k) THEN memo[t][k]
    ELSE DbId(t, k)

\* A lookup that does not have to wait finds every row that set() returned,
\* staged, being written or stored, under its id.
ReadYourWrites ==
    \A t \in Tables, row \in UNION {promised[u] : u \in Tables} :
        row \in promised[t] /\ (NeedsRead(t, row[1]) => MayRead(t)) => Lookup(t, row[1]) = row[2]

\* The engine implements the directory of ids: the id of a key is where its
\* row is.
RowId(t, k) ==
    IF queued[t][k] # NoId THEN queued[t][k]
    ELSE IF staged[t][k] # NoId THEN staged[t][k] ELSE DbId(t, k)
Directory == INSTANCE IdDirectory WITH
    ids <- [t \in Tables |-> [k \in Keys |-> RowId(t, k)]],
    stored <- [t \in Tables |-> {k \in Keys : Found(t, k)}]
ImplementsDirectory == Directory!Spec

\* A staged row reaches the database, unless the engine is started anew.
EventuallyStored ==
    \A t \in Tables, k \in Keys, i \in 1..MaxId :
        <<k, i>> \in promised[t] ~> (<<k, i>> \in db[t] \/ <<k, i>> \notin promised[t])
=============================================================================
