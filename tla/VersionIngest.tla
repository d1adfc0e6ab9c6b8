---------------------------- MODULE VersionIngest ----------------------------
(***************************************************************************)
(* The ingestion of versions and the recovery of interrupted ones          *)
(* (core/ingest_state.py, ingest_git_dag, update and the release pipeline  *)
(* of main.py) against the database they share across process starts.      *)
(*                                                                         *)
(* A version is the head commit of a release tag. Its run registers the    *)
(* commits up to it, records the highest id of every id-allocating table,  *)
(* links the files whose blob is already parsed, parses the others, and is *)
(* DONE once its last table is written. Every SQL statement of the run is  *)
(* a step of its own, the tables of a commit are written independently,    *)
(* and the process may die between any two steps.                          *)
(*                                                                         *)
(* The schema is cut to one table of each role: `commit`, `blob` and `tag` *)
(* with allocated ids, `def` with an allocated id and two marked parents   *)
(* (m_blob_symbol_def), the link table `bridge` (m_bridge_tag), the rows   *)
(* of a version `checkpoint`, and the bookkeeping `ref`, `state`, `mark`   *)
(* (m_ingest_watermark) and `reparse` (m_ingest_blob). A column that is a  *)
(* foreign key has the name of its parent table. Ids come from the table   *)
(* engine, which TableEngine models: one id per content.                   *)
(***************************************************************************)
EXTENDS Naturals, FiniteSets, Sequences, FiniteSetsExt, SequencesExt, Lists

CONSTANTS
    CommitOrder,  \* the head commits of the versions, oldest first: each has the earlier ones in its history
    HeadOf,       \* per release tag: its head commit
    Tree,         \* per head commit: the files of the version (a file is a path and a content)
    Touched,      \* per head commit: contents only intermediate commits before it had
    TagOf,        \* per file: the tag its parse produces
    TargetLists,  \* the lists of release tags a process may be started with
    DeleteChunk,  \* rows deleted per statement (_DELETE_CHUNK)
    MaxCrashes    \* bound on the deaths of the process

Refs == DOMAIN HeadOf
Commits == ToSet(CommitOrder)
Files == DOMAIN TagOf
NoCommit == "no commit"   \* no previous version in this process
NoId == 0                 \* a commit without a row; ids start at 1

ASSUME IngestAssumptions ==
    /\ CommitOrder \in Seq(Commits) /\ IsInjective(CommitOrder) /\ NoCommit \notin Commits
    /\ \A r \in Refs : HeadOf[r] \in Commits
    /\ \A c \in Commits : Tree[c] \subseteq Files /\ IsFiniteSet(Tree[c]) /\ Touched[c] \subseteq Files
    /\ TargetLists \subseteq Seq(Refs)
    /\ DeleteChunk \in Nat \ {0} /\ MaxCrashes \in Nat

VARIABLES
    db,       \* per table: its rows
    pc,       \* what the process does next; "down" when there is none
    todo,     \* target_refs: the tags still to ingest, the current one first
    base,     \* gp.Old_Version_Name: the version the change list is relative to
    cur,      \* gp.VID: the commit id of the version
    plan,     \* the deletes still to run ...
    after,    \* ... and what the process does then
    work,     \* the files still to parse
    staged,   \* the table engine's staging queues
    batch,    \* its pending batch
    before,   \* history: the content tables when the run began
    crashes   \* the crashes left

processVars == <<todo, base, cur>>
engineVars == <<staged, batch>>
vars == <<db, pc, processVars, plan, after, work, engineVars, before, crashes>>

\* The tables the engine writes, and those a rollback restores.
Cached == {"blob", "tag", "def", "bridge", "checkpoint"}
Content == Cached \cup {"commit"}
Book == {"ref", "state", "mark", "reparse"}
Nothing == [t \in Cached |-> {}]
NoRun == [t \in Content |-> {}]

\* The foreign keys: per child table its columns, named after their parents.
ForeignKeys == [checkpoint |-> {"blob"}, bridge |-> {"blob", "tag"}, def |-> {"blob", "tag"},
                ref |-> {"commit"}, state |-> {"commit"}]

\* marked_tables: the tables with an allocated id, in the order of the schema.
MarkedTables == <<"blob", "tag", "commit", "def">>
\* blob_derived_tables: what parsing a blob produces.
BlobDerived == <<"bridge", "def">>

DONE == "done"
PARSING == "parsing"

Target == HeadOf[Head(todo)]
History(c) == {CommitOrder[i] : i \in 1 .. (CHOOSE i \in DOMAIN CommitOrder : CommitOrder[i] = c)}
Known == IF base = NoCommit THEN {} ELSE History(base)

\* get_version_tags: a list starts at the start version whatever its end, so
\* that the releases before one it names are named before it.
OldestFirst ==
    \A L \in TargetLists : \A i \in DOMAIN L :
        \A c \in History(HeadOf[L[i]]) \ {HeadOf[L[i]]} : \E j \in 1 .. i - 1 : HeadOf[L[j]] = c

MaxId(rows) == Max({0} \cup {r.id : r \in rows})
IdIn(rows, x) == IF \E r \in rows : r.of = x THEN (CHOOSE r \in rows : r.of = x).id ELSE NoId
CommitId(c) == IdIn(db.commit, c)
BlobId(f) == IdIn(db.blob, f)

RefId(r) == IF \E row \in db.ref : row.name = r
            THEN (CHOOSE row \in db.ref : row.name = r).commit ELSE NoId
Status(id) == IF \E row \in db.state : row.commit = id
              THEN (CHOOSE row \in db.state : row.commit = id).status ELSE "new"
\* Mutant: INSERT IGNORE, which keeps the status a commit has.
WithStatus_Ignore(id, s) ==
    db.state \cup (IF Status(id) = "new" THEN {[commit |-> id, status |-> s]} ELSE {})
\* set_status: an upsert.
WithStatus(id, s) == {row \in db.state : row.commit # id} \cup {[commit |-> id, status |-> s]}
RowsOf(t, id) == {row \in db[t] : row.commit = id}

Init ==
    /\ db = [t \in Content \cup Book |-> {}]
    /\ pc = "down" /\ todo = << >> /\ base = NoCommit /\ cur = NoId
    /\ plan = << >> /\ after = "next" /\ work = {}
    /\ staged = Nothing /\ batch = Nothing
    /\ before = NoRun
    /\ crashes = MaxCrashes

\* The process is gone, with what it had staged.
ProcessEnds ==
    /\ pc' = "down" /\ todo' = << >> /\ base' = NoCommit /\ cur' = NoId
    /\ plan' = << >> /\ after' = "next" /\ work' = {}
    /\ staged' = Nothing /\ batch' = Nothing

RunDeletes(deletes, then) == pc' = "delete" /\ plan' = deletes /\ after' = then

-----------------------------------------------------------------------------
(***************************************************************************)
(* The release pipeline: which version is next?                            *)
(***************************************************************************)
Finished(r) == Status(RefId(r)) = DONE

\* main(): skip the finished versions at the front of the list. The base set
\* there does not survive ingest_git_dag, which overwrites it: the first
\* version of a process is compared with the empty tree.
Launch(targets) ==
    /\ pc = "down" /\ targets \in TargetLists
    /\ \E i \in DOMAIN targets :
          /\ ~Finished(targets[i]) /\ \A j \in 1 .. i - 1 : Finished(targets[j])
          /\ todo' = SubSeq(targets, i, Len(targets))
    /\ pc' = "check" /\ base' = NoCommit
    /\ UNCHANGED <<db, cur, plan, after, work, engineVars, before, crashes>>

\* The process goes on with the next version, or ends.
Advance ==
    /\ base' = Target /\ cur' = NoId
    /\ todo' = Tail(todo)
    /\ pc' = IF Len(todo) = 1 THEN "down" ELSE "check"

\* ingest_git_dag: the version is finished already, under this tag or (an
\* alias, which is registered) under another tag of the same commit.
SkipFinished ==
    LET r == Head(todo) IN
    /\ pc = "check" /\ Finished(r)
    /\ Advance
    /\ UNCHANGED <<db, plan, after, work, engineVars, before, crashes>>

RegisterAlias ==
    LET r == Head(todo) IN
    /\ pc = "check" /\ RefId(r) = NoId /\ Status(CommitId(Target)) = DONE
    /\ db' = [db EXCEPT !.ref = @ \cup {[name |-> r, commit |-> CommitId(Target)]}]
    /\ Advance
    /\ UNCHANGED <<plan, after, work, engineVars, before, crashes>>

KnownId == IF RefId(Head(todo)) # NoId THEN RefId(Head(todo)) ELSE CommitId(Target)

\* A new version, or an interrupted one: then it is rolled back first.
CheckVersion ==
    /\ pc = "check" /\ Status(KnownId) # DONE
    /\ cur' = CommitId(Target)
    /\ pc' = IF Status(KnownId) = PARSING THEN "recover" ELSE "register"
    /\ UNCHANGED <<db, todo, base, plan, after, work, engineVars, before, crashes>>

-----------------------------------------------------------------------------
(***************************************************************************)
(* rollback_version and the purge its callers fall back to.                *)
(***************************************************************************)
\* DELETE FROM t WHERE col is one of ids.
Delete(t, col, ids) == [table |-> t, col |-> col, ids |-> ids]
\* Mutant: the row at the mark is taken for a row of the run.
Above_Inclusive(t, col, m) == Delete(t, col, {row[col] : row \in {r \in db[t] : r[col] >= m}})
Above(t, col, m) == Delete(t, col, {row[col] : row \in {r \in db[t] : r[col] > m}})
Matching(d) == {row \in db[d.table] : row[d.col] \in d.ids}

Marks == LET rows == RowsOf("mark", cur) IN
         [t \in {row.table : row \in rows} |-> (CHOOSE row \in rows : row.table = t).max]

\* _completed_after: a version finished on top of the interrupted run.
CompletedAfter ==
    /\ "commit" \in DOMAIN Marks
    /\ \E row \in db.state : row.status = DONE /\ row.commit > Marks["commit"]

\* precheck_queries: a row older than the run references a row of the run.
OlderReferences ==
    \E t \in DOMAIN Marks \cap DOMAIN ForeignKeys : \E parent \in ForeignKeys[t] \cap DOMAIN Marks :
        \E row \in db[t] : row.id <= Marks[t] /\ row[parent] > Marks[parent]

\* discard_marks, also the last part of set_status(DONE) and the first of begin.
DiscardMarks == <<Delete("mark", "commit", {cur}), Delete("reparse", "commit", {cur})>>

\* The rows of the version itself.
VersionRows == <<Delete("checkpoint", "commit", {cur})>>

\* rollback_plan, part 1: what the run derived from blobs that existed before.
DerivedRows ==
    LET blobs == {row.blob : row \in RowsOf("reparse", cur)} IN
    IF blobs = {} THEN << >>
    ELSE [i \in DOMAIN BlobDerived |-> Delete(BlobDerived[i], "blob", blobs)]

\* A child with a mark of its own is cleared by that mark.
LinksOf(child, t) ==
    IF t \in ForeignKeys[child] /\ child \notin DOMAIN Marks
    THEN <<Above(child, t, Marks[t])>> ELSE << >>

\* Mutant: the link tables of a table are not cleared.
NewRowsOf_NoLinks(t) == IF t \in DOMAIN Marks THEN <<Above(t, "id", Marks[t])>> ELSE << >>

\* rollback_plan, part 2: the rows above a mark, after those of the tables
\* (_children) that link to them.
NewRowsOf(t) ==
    IF t \notin DOMAIN Marks THEN << >>
    ELSE LinksOf("checkpoint", t) \o LinksOf("bridge", t) \o LinksOf("def", t)
         \o LinksOf("ref", t) \o LinksOf("state", t) \o <<Above(t, "id", Marks[t])>>

\* Children before parents (_child_first_order).
RollbackPlan ==
    VersionRows \o DerivedRows
    \o NewRowsOf("commit") \o NewRowsOf("def") \o NewRowsOf("blob") \o NewRowsOf("tag")

\* rollback_version: True after the rollback; False when there are no marks,
\* or stale ones: the caller purges the rows of the version only. The
\* RecoveryError of rows older than the run ends the process.
Recover ==
    /\ pc = "recover"
    /\ \/ /\ DOMAIN Marks = {} \/ CompletedAfter
          /\ RunDeletes((IF CompletedAfter THEN DiscardMarks ELSE << >>) \o VersionRows, "register")
          /\ UNCHANGED <<processVars, work, engineVars>>
       \/ /\ DOMAIN Marks # {} /\ ~CompletedAfter
          /\ IF OlderReferences THEN ProcessEnds
             ELSE /\ RunDeletes(RollbackPlan \o DiscardMarks, "register")
                  /\ UNCHANGED <<processVars, work, engineVars>>
    /\ UNCHANGED <<db, before, crashes>>

\* One DELETE ... LIMIT statement; a step ends with one that found less than
\* the limit.
DeleteRows ==
    /\ pc = "delete" /\ plan # << >>
    /\ LET d == Head(plan)
           n == Cardinality(Matching(d))
       IN /\ \E chunk \in kSubset(IF n < DeleteChunk THEN n ELSE DeleteChunk, Matching(d)) :
                db' = [db EXCEPT ![d.table] = @ \ chunk]
          /\ plan' = IF n < DeleteChunk THEN Tail(plan) ELSE plan
    /\ UNCHANGED <<pc, processVars, after, work, engineVars, before, crashes>>

DeletesDone ==
    /\ pc = "delete" /\ plan = << >>
    /\ IF after = "next" THEN Advance ELSE pc' = after /\ UNCHANGED processVars
    /\ UNCHANGED <<db, plan, after, work, engineVars, before, crashes>>

-----------------------------------------------------------------------------
(***************************************************************************)
(* The start of a run: ingest_git_dag after the check, and begin().        *)
(***************************************************************************)
\* _ingest_commit_range: the commits without a row, oldest first. (The range may
\* leave out the history of an earlier version, which has its rows.)
NewCommits == Those(CommitOrder, {c \in History(Target) : CommitId(c) = NoId})

RegisterCommits ==
    /\ pc = "register"
    /\ LET new  == IF cur = NoId THEN NewCommits ELSE << >>
           rows == {[id |-> MaxId(db.commit) + i, of |-> new[i]] : i \in DOMAIN new}
       IN /\ db' = [db EXCEPT !.commit = @ \cup rows]
          /\ cur' = IF cur = NoId THEN IdIn(db.commit \cup rows, Target) ELSE cur
    /\ before' = NoRun
    /\ pc' = "ref"
    /\ UNCHANGED <<todo, base, plan, after, work, engineVars, crashes>>

\* The m_git_ref row; begin() first forgets the marks of an earlier run.
RegisterRef ==
    LET r == Head(todo) IN
    /\ pc = "ref"
    /\ db' = [db EXCEPT !.ref = {row \in @ : row.name # r} \cup {[name |-> r, commit |-> cur]}]
    /\ RunDeletes(DiscardMarks, "mark")
    /\ UNCHANGED <<processVars, work, engineVars, before, crashes>>

\* begin(): one table after the other.
MarkTable ==
    /\ pc = "mark"
    /\ \E i \in DOMAIN MarkedTables :
          /\ MarkedTables[i] \notin DOMAIN Marks
          /\ \A j \in 1 .. i - 1 : MarkedTables[j] \in DOMAIN Marks
          /\ db' = [db EXCEPT !.mark = @ \cup {[commit |-> cur, table |-> MarkedTables[i],
                                                max |-> MaxId(db[MarkedTables[i]])]}]
    /\ UNCHANGED <<pc, processVars, plan, after, work, engineVars, before, crashes>>

MarkParsing ==
    /\ pc = "mark" /\ ToSet(MarkedTables) \subseteq DOMAIN Marks
    /\ db' = [db EXCEPT !.state = WithStatus(cur, PARSING)]
    /\ before' = [t \in Content |-> db[t]]
    /\ pc' = "dedup"
    /\ UNCHANGED <<processVars, plan, after, work, engineVars, crashes>>

-----------------------------------------------------------------------------
(***************************************************************************)
(* update(): reuse, parse, commit.                                         *)
(***************************************************************************)
\* _tagged_blob_ids: what counts as parsed.
Tagged(f) == \E row \in db.bridge : row.blob = BlobId(f)
Checkpoint(f, rows) == [commit |-> cur, blob |-> IdIn(rows, f)]

Changed == Tree[Target] \ (IF base = NoCommit THEN {} ELSE Tree[base])
Reused == {f \in Changed : BlobId(f) # NoId /\ Tagged(f)}
\* processing_unchanges: what the checkpoint of the previous version has.
Carried == {f \in Tree[Target] \ Changed :
              [commit |-> CommitId(base), blob |-> BlobId(f)] \in db.checkpoint}

\* _record_reparsed_blobs: existing blobs that are parsed now.
Reparsed == {[commit |-> cur, blob |-> BlobId(f)] : f \in {g \in Changed \ Reused : BlobId(g) # NoId}}

\* Steps 4.4 and 4.5, and the unchanged files: link what is parsed.
Dedup ==
    /\ pc = "dedup"
    /\ staged' = [Nothing EXCEPT !.checkpoint =
                    {Checkpoint(f, db.blob) : f \in Reused \cup Carried} \ db.checkpoint]
    /\ db' = [db EXCEPT !.reparse = @ \cup Reparsed]
    /\ work' = Tree[Target] \ (Reused \cup Carried)
    /\ pc' = "parse"
    /\ UNCHANGED <<processVars, plan, after, batch, before, crashes>>

\* get_set of the table engine: the row of a content, staged when it is new.
Held(t) == db[t] \cup batch[t] \cup staged[t]
Fresh(t) == MaxId(Held(t)) + 1
RowFor(t, x) == [id |-> IF IdIn(Held(t), x) # NoId THEN IdIn(Held(t), x) ELSE Fresh(t), of |-> x]

\* The tables with no_duplicate, a hash of the row, or idempotent_pk.
Deduplicated == {"blob", "tag", "bridge"}

\* One parsed file: its ChangeSet is executed.
ParseFile(f) ==
    /\ pc = "parse" /\ f \in work
    /\ LET b    == RowFor("blob", f)
           t    == RowFor("tag", TagOf[f])
           rows == [blob       |-> {b},
                    tag        |-> {t},
                    def        |-> {[id |-> Fresh("def"), blob |-> b.id, tag |-> t.id]},
                    bridge     |-> {[blob |-> b.id, tag |-> t.id]},
                    checkpoint |-> {[commit |-> cur, blob |-> b.id]}]
       IN staged' = [x \in Cached |->
                        staged[x] \cup (IF x \in Deduplicated THEN rows[x] \ Held(x) ELSE rows[x])]
    /\ work' = work \ {f}
    /\ UNCHANGED <<db, pc, processVars, plan, after, batch, before, crashes>>

\* processing_git_commits: the blobs the commits of the range wrote get a row;
\* those of intermediate commits are not parsed.
Missing == {f \in UNION {Tree[c] \cup Touched[c] : c \in History(Target) \ Known} :
              IdIn(Held("blob"), f) = NoId}

StageTouched(f) ==
    /\ pc = "parse" /\ work = {} /\ f \in Missing
    /\ staged' = [staged EXCEPT !.blob = @ \cup {RowFor("blob", f)}]
    /\ UNCHANGED <<db, pc, processVars, plan, after, work, batch, before, crashes>>

\* commit_all: the staged rows become the pending batch.
CommitAll ==
    /\ pc = "parse" /\ batch = Nothing /\ staged # Nothing
    /\ batch' = staged /\ staged' = Nothing
    /\ UNCHANGED <<db, pc, processVars, plan, after, work, before, crashes>>

\* Every table of the batch is a transaction of its own, in any order.
WriteTable(t) ==
    /\ batch[t] # {}
    /\ db' = [db EXCEPT ![t] = @ \cup batch[t]]
    /\ batch' = [batch EXCEPT ![t] = {}]
    /\ UNCHANGED <<pc, processVars, plan, after, work, staged, before, crashes>>

\* Mutant: the version is finished before its last tables are written.
AllWritten_Queued == staged = Nothing
\* Step 7: the last commit_all was joined by close().
AllWritten == staged = Nothing /\ batch = Nothing

\* finish_version_ingest: the status first, then the marks.
Finish ==
    /\ pc = "parse" /\ work = {} /\ Missing = {} /\ AllWritten
    /\ db' = [db EXCEPT !.state = WithStatus(cur, DONE)]
    /\ RunDeletes(DiscardMarks, "next")
    /\ before' = NoRun
    /\ UNCHANGED <<processVars, work, engineVars, crashes>>

\* A crash, a kill, a deadline, an exception of the run: the process ends.
Crash ==
    /\ pc # "down" /\ crashes > 0
    /\ crashes' = crashes - 1
    /\ ProcessEnds
    /\ UNCHANGED <<db, before>>

\* Nothing is left to do for any list.
AllFinished ==
    /\ pc = "down" /\ \A r \in Refs : Finished(r)
    /\ UNCHANGED vars

Step ==
    \/ \E targets \in TargetLists : Launch(targets)
    \/ SkipFinished \/ RegisterAlias \/ CheckVersion
    \/ Recover \/ DeleteRows \/ DeletesDone
    \/ RegisterCommits \/ RegisterRef \/ MarkTable \/ MarkParsing
    \/ Dedup \/ \E f \in Files : ParseFile(f) \/ StageTouched(f)
    \/ CommitAll \/ \E t \in Cached : WriteTable(t)
    \/ Finish

Next == Step \/ Crash \/ AllFinished

Spec == Init /\ [][Next]_vars

(***************************************************************************)
(* Fairness: a process that is not killed goes on, and the operator starts *)
(* the pipeline again while versions are missing.                          *)
(***************************************************************************)
FairSpec == Spec /\ WF_vars(Step)

-----------------------------------------------------------------------------
(***************************************************************************)
(* Properties.                                                             *)
(***************************************************************************)
\* The rows of a file whose parse results are stored completely.
Parsed(f) ==
    \E b \in db.blob, t \in db.tag :
        /\ b.of = f /\ t.of = TagOf[f]
        /\ {row.tag : row \in {r \in db.bridge : r.blob = b.id}} = {t.id}
        /\ {row.tag : row \in {r \in db.def : r.blob = b.id}} = {t.id}
        /\ Cardinality({r \in db.def : r.blob = b.id}) = 1

\* A version the webapp lists is whole, whatever was interrupted before or
\* while it was ingested: its checkpoint has every file of its tree and no
\* other, and each of them has its one tag and its one definition
\* ("INGEST_DONE once its last rows are committed").
FinishedIsWhole ==
    \A row \in {r \in db.state : r.status = DONE} : \E c \in db.commit :
        /\ c.id = row.commit
        /\ \E ref \in db.ref : ref.commit = c.id
        /\ {r.blob : r \in RowsOf("checkpoint", c.id)} = {BlobId(f) : f \in Tree[c.of]}
        /\ \A f \in Tree[c.of] : Parsed(f)

\* A rollback, also one that was itself interrupted and started again, brings
\* the content tables back to what they were when the run began.
RollbackRestores ==
    pc = "register" /\ before # NoRun => \A t \in Content : db[t] = before[t]

\* The rows a finished version consists of.
VersionContent(id) ==
    LET blobs == {r.blob : r \in RowsOf("checkpoint", id)}
        tags  == {r.tag : r \in {x \in db.bridge : x.blob \in blobs}}
    IN [checkpoint |-> RowsOf("checkpoint", id),
        blob       |-> {r \in db.blob : r.id \in blobs},
        tag        |-> {r \in db.tag : r.id \in tags},
        bridge     |-> {r \in db.bridge : r.blob \in blobs},
        def        |-> {r \in db.def : r.blob \in blobs}]

\* No step deletes or changes a row of a finished version: "stale marks left
\* by older interrupted runs cannot take a finished version down with them".
FinishedIsKept ==
    [][\A row \in {r \in db.state : r.status = DONE} :
          \A t \in Cached : VersionContent(row.commit)[t] \subseteq db'[t]]_vars

\* With the crashes over, every release of the list is finished: no rollback
\* is refused, and none has to be repeated for ever.
AllIngested == <>[](\A r \in Refs : Finished(r))
=============================================================================
