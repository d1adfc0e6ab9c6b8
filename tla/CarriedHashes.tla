---------------------------- MODULE CarriedHashes ----------------------------
(***************************************************************************)
(* Deduplication of ASTs: view_set() (te_direct_db.py) gives a content the *)
(* id m_ast_hash has for it, or stages a new m_ast row and its hash. The   *)
(* hashes are the one table that TECachedDB carries from version to        *)
(* version: a packed snapshot and an overlay of the rows since, which are  *)
(* trusted without reading the database as long as nothing disturbed them. *)
(*                                                                         *)
(* Actors: the main thread, version after version; the writers of the two  *)
(* tables, each a transaction of its own; failures and the death of the    *)
(* process. A hash is the content it was computed of.                      *)
(***************************************************************************)
EXTENDS Naturals, FiniteSets, FiniteSetsExt

CONSTANTS
    Contents,    \* contents of ASTs
    Versions,
    MaxId,       \* bound on the AST ids
    MaxFailures, \* bound on tables that could not be written
    MaxCrashes

ASSUME CarriedAssumptions ==
    MaxId \in Nat /\ MaxFailures \in Nat /\ MaxCrashes \in Nat

Hash == "m_ast_hash"
Ast == "m_ast"

VARIABLES
    hashes,    \* m_ast_hash in the database: the id of each content
    asts,      \* m_ast in the database: the ids with a row
    mark,      \* m_ingest_watermark of m_ast, per version
    done,      \* versions ingested to completion
    version,   \* the version the process is ingesting
    up,        \* G.TE is started
    carried,   \* there is a carried snapshot
    snapshot,  \* its rows
    overlay,   \* _carried_overlays: rows since
    heap,      \* _pk_index when the table is not carried
    committed, \* _committed_pks
    memo,      \* queued_view
    queued,    \* queued_set of m_ast_hash
    newAsts,   \* queued_set of m_ast
    nextId,
    writing,   \* how the batch is written: "none", "background", "keep" or "drop" the cache after it
    batch,     \* the rows taken out of staging
    toWrite, failed, \* its tables
    failures, crashes

dbVars == <<hashes, asts, mark, done>>
carriedVars == <<carried, snapshot, overlay>>
stagingVars == <<memo, queued, newAsts, nextId>>
batchVars == <<writing, batch, toWrite, failed>>
boundVars == <<failures, crashes>>
hashVars == <<dbVars, version, up, carriedVars, heap, committed, stagingVars, batchVars, boundVars>>

NoId == 0
NoVersion == "no version"
NoMark == MaxId + 1
NoRows == [c \in Contents |-> NoId]
NoBatch == [rows |-> NoRows, added |-> {}, asts |-> {}]

Contained(rows) == {c \in Contents : rows[c] # NoId}
Over(top, rows) == [c \in Contents |-> IF top[c] # NoId THEN top[c] ELSE rows[c]]
Without(rows, keys) == [c \in Contents |-> IF c \in keys THEN NoId ELSE rows[c]]
LastId(ids) == Max(ids \cup {0})

EngineIsNew ==
    /\ memo' = NoRows /\ queued' = NoRows /\ newAsts' = {}
    /\ writing' = "none" /\ batch' = NoBatch /\ toWrite' = {} /\ failed' = {}

HashesInit ==
    /\ hashes = NoRows /\ asts = {} /\ mark = [v \in Versions |-> NoMark] /\ done = {}
    /\ version = NoVersion /\ up = FALSE
    /\ carried = FALSE /\ snapshot = NoRows /\ overlay = NoRows /\ heap = NoRows /\ committed = {}
    /\ memo = NoRows /\ queued = NoRows /\ newAsts = {} /\ nextId = 1
    /\ writing = "none" /\ batch = NoBatch /\ toWrite = {} /\ failed = {}
    /\ failures = MaxFailures /\ crashes = MaxCrashes

Detached == carried' = FALSE /\ snapshot' = NoRows /\ overlay' = NoRows

-----------------------------------------------------------------------------
(***************************************************************************)
(* Versions: main.update and core/ingest_state.py.                         *)
(***************************************************************************)
Begin(v) ==
    /\ version = NoVersion /\ v \notin done /\ mark[v] = NoMark
    /\ version' = v
    /\ mark' = [mark EXCEPT ![v] = LastId(asts)]
    /\ UNCHANGED <<hashes, asts, done, up, carriedVars, heap, committed, stagingVars, batchVars, boundVars>>

\* Mutant: the carried rows are not forgotten.
RollBack_KeepsCarried(v) ==
    /\ version = NoVersion /\ mark[v] # NoMark
    /\ hashes' = Without(hashes, {c \in Contents : hashes[c] > mark[v]})
    /\ asts' = {id \in asts : id <= mark[v]}
    /\ mark' = [mark EXCEPT ![v] = NoMark]
    /\ UNCHANGED <<done, version, up, carriedVars, heap, committed, stagingVars, batchVars, boundVars>>

\* rollback_version and _forget_rolled_back_rows, before an interrupted
\* version begins again: what lies above its marks is deleted, unless another
\* version is found to have been finished since.
RollBack(v) ==
    /\ version = NoVersion /\ mark[v] # NoMark
    /\ \/ /\ hashes' = Without(hashes, {c \in Contents : hashes[c] > mark[v]})
          /\ asts' = {id \in asts : id <= mark[v]}
       \/ done # {} /\ UNCHANGED <<hashes, asts>>
    /\ mark' = [mark EXCEPT ![v] = NoMark]
    /\ Detached
    /\ UNCHANGED <<done, version, up, heap, committed, stagingVars, batchVars, boundVars>>

\* The table has a row of its own that is nobody's.
SnapshotRows == Cardinality(Contained(snapshot)) + 1

\* CARRY_RELOAD_RATIO.
CarryReusable == carried /\ 2 * Cardinality(Contained(overlay)) <= SnapshotRows

\* _carried_rows_in_memory; also what the view of the table shows.
CarriedRows == Over(overlay, snapshot)

\* start_new_db: the snapshot is used again, or packed again with its overlay,
\* or the table is read and packed. Without huge pages, or when packing fails,
\* the rows are cached on the heap.
Start ==
    /\ version # NoVersion /\ ~up
    /\ LET rows == IF carried THEN CarriedRows ELSE hashes IN
       \/ /\ CarryReusable
          /\ heap' = NoRows /\ committed' = {}
          /\ UNCHANGED carriedVars
       \/ /\ ~CarryReusable
          /\ carried' = TRUE /\ snapshot' = rows /\ overlay' = NoRows
          /\ heap' = NoRows /\ committed' = {}
       \/ /\ ~CarryReusable
          /\ Detached
          /\ heap' = rows /\ committed' = Contained(rows)
    /\ up' = TRUE
    /\ EngineIsNew
    /\ nextId' = LastId(asts) + 1
    /\ UNCHANGED <<dbVars, version, boundVars>>

\* close(), and the version is finished or not.
Close ==
    /\ up /\ writing = "none" /\ queued = NoRows /\ newAsts = {}
    /\ up' = FALSE /\ heap' = NoRows
    /\ \/ done' = done \cup {version} /\ mark' = [mark EXCEPT ![version] = NoMark]
       \/ UNCHANGED <<done, mark>>
    /\ version' = NoVersion
    /\ UNCHANGED <<hashes, asts, carriedVars, committed, stagingVars, batchVars, boundVars>>

\* The process dies, and another one is started.
Crash ==
    /\ version # NoVersion /\ crashes > 0
    /\ crashes' = crashes - 1
    /\ version' = NoVersion /\ up' = FALSE
    /\ Detached
    /\ heap' = NoRows /\ committed' = {}
    /\ EngineIsNew /\ nextId' = 1
    /\ UNCHANGED <<dbVars, failures>>

-----------------------------------------------------------------------------
(***************************************************************************)
(* view_set().                                                             *)
(***************************************************************************)
MainThreadIsFree == up /\ writing \in {"none", "background"}

\* Mutant: rows since the snapshot are not looked at.
Cached_Snapshot == IF carried THEN snapshot ELSE heap

\* TECachedDB.get by primary key; a miss is not looked up in the database.
Cached == IF carried THEN CarriedRows ELSE heap

Known(c) == Over(memo, Over(queued, Cached))[c]

ReuseAst(c) ==
    /\ MainThreadIsFree /\ Known(c) # NoId
    /\ memo' = [memo EXCEPT ![c] = Known(c)]
    /\ UNCHANGED <<dbVars, version, up, carriedVars, heap, committed, queued, newAsts, nextId, batchVars, boundVars>>

\* The hash of a key known to be committed is not staged again.
StoreAst(c) ==
    /\ MainThreadIsFree /\ Known(c) = NoId /\ nextId <= MaxId
    /\ memo' = [memo EXCEPT ![c] = nextId]
    /\ newAsts' = newAsts \cup {nextId}
    /\ nextId' = nextId + 1
    /\ IF c \in committed THEN UNCHANGED <<queued, overlay, heap>>
       ELSE /\ queued' = [queued EXCEPT ![c] = nextId]
            /\ overlay' = IF carried THEN [overlay EXCEPT ![c] = nextId] ELSE overlay
            /\ heap' = IF carried THEN heap ELSE [heap EXCEPT ![c] = nextId]
    /\ UNCHANGED <<dbVars, version, up, carried, snapshot, committed, batchVars, boundVars>>

-----------------------------------------------------------------------------
(***************************************************************************)
(* commit_all().                                                           *)
(***************************************************************************)
\* _record_carried, _evict_committed_rows or clear_cache, after a batch was
\* submitted or written.
Upkeep(kind, rows, keys) ==
    /\ overlay' = IF carried THEN Over(rows, overlay) ELSE overlay
    /\ committed' = IF carried \/ kind = "drop" THEN keys ELSE keys \cup Contained(heap)
    /\ heap' = NoRows
    /\ UNCHANGED <<carried, snapshot>>

\* _take_staged, then _submit() or the write itself.
CommitAll(kind) ==
    /\ up /\ writing = "none" /\ (queued # NoRows \/ newAsts # {})
    /\ LET added == IF carried THEN {} ELSE Contained(queued) \ committed IN
       /\ batch' = [rows |-> IF carried THEN queued ELSE Without(queued, committed),
                    added |-> added, asts |-> newAsts]
       /\ IF kind = "background" THEN Upkeep(kind, queued, committed \cup added)
          ELSE committed' = committed \cup added /\ UNCHANGED <<carriedVars, heap>>
    /\ toWrite' = (IF batch'.rows # NoRows THEN {Hash} ELSE {}) \cup (IF newAsts # {} THEN {Ast} ELSE {})
    /\ failed' = {}
    /\ writing' = kind
    /\ queued' = NoRows /\ newAsts' = {}
    /\ UNCHANGED <<dbVars, version, up, memo, nextId, boundVars>>

\* The hashes are idempotent: those there stay. An AST may not be there yet.
Insert(t) ==
    IF t = Hash THEN hashes' = Over(hashes, batch.rows) /\ UNCHANGED asts
    ELSE batch.asts \cap asts = {} /\ asts' = asts \cup batch.asts /\ UNCHANGED hashes

WriteTable(t) ==
    /\ t \in toWrite
    /\ Insert(t)
    /\ toWrite' = toWrite \ {t}
    /\ UNCHANGED <<mark, done, version, up, carriedVars, heap, committed, stagingVars, writing, batch, failed, boundVars>>

\* A table is reported as not committed; what became of its rows is unknown.
FailTable(t) ==
    /\ t \in toWrite /\ failures > 0
    /\ failures' = failures - 1
    /\ Insert(t) \/ UNCHANGED <<hashes, asts>>
    /\ toWrite' = toWrite \ {t} /\ failed' = failed \cup {t}
    /\ UNCHANGED <<mark, done, version, up, carriedVars, heap, committed, stagingVars, writing, batch, crashes>>

\* The same AST is not inserted twice.
RefuseTable ==
    /\ Ast \in toWrite /\ batch.asts \cap asts # {}
    /\ toWrite' = toWrite \ {Ast} /\ failed' = failed \cup {Ast}
    /\ UNCHANGED <<dbVars, version, up, carriedVars, heap, committed, stagingVars, writing, batch, boundVars>>

BatchIsOver == writing' = "none" /\ batch' = NoBatch /\ toWrite' = {} /\ failed' = {}

Written ==
    /\ writing # "none" /\ toWrite = {} /\ failed = {}
    /\ IF writing = "background" THEN UNCHANGED <<carriedVars, heap, committed>>
       ELSE Upkeep(writing, batch.rows, committed)
    /\ BatchIsOver
    /\ UNCHANGED <<dbVars, version, up, stagingVars, boundVars>>

\* _restore_batch: the rows are staged again, and a carried table is no longer
\* trusted: the cache has only the restored rows then.
Restore ==
    /\ queued' = IF Hash \in failed THEN Over(queued, batch.rows) ELSE queued
    /\ newAsts' = IF Ast \in failed THEN newAsts \cup batch.asts ELSE newAsts
    /\ IF Hash \in failed
       THEN /\ Detached
            /\ heap' = Over(heap, batch.rows)
            /\ committed' = committed \ batch.added
       ELSE UNCHANGED <<carriedVars, heap, committed>>

\* The error is raised in whoever waits for the batch.
NotWritten ==
    /\ writing # "none" /\ toWrite = {} /\ failed # {}
    /\ Restore
    /\ BatchIsOver
    /\ UNCHANGED <<dbVars, version, up, memo, nextId, boundVars>>


HashesNext ==
    \/ \E v \in Versions : Begin(v) \/ RollBack(v)
    \/ Start \/ Close \/ Crash
    \/ \E c \in Contents : ReuseAst(c) \/ StoreAst(c)
    \/ \E kind \in {"background", "keep", "drop"} : CommitAll(kind)
    \/ \E t \in {Hash, Ast} : WriteTable(t) \/ FailTable(t)
    \/ RefuseTable \/ Written \/ NotWritten

HashesSpec == HashesInit /\ [][HashesNext]_hashVars

-----------------------------------------------------------------------------
(***************************************************************************)
(* Properties.                                                             *)
(***************************************************************************)
\* The carried rows are the rows of the database, without reading it: in
\* particular when the next version uses or packs them again.
CarriedMirrorsDatabase ==
    carried /\ writing = "none" => \A c \in Contents : queued[c] = NoId => CarriedRows[c] = hashes[c]

\* While the table is carried, no content that is stored is given another id.
StoredKeepsItsId ==
    carried => \A c \in Contents : memo[c] # NoId /\ hashes[c] # NoId => memo[c] = hashes[c]
=============================================================================
