----------------------------- MODULE RefPipelines -----------------------------
(***************************************************************************)
(* Which reference is ingested when, against which base, and what is made  *)
(* of earlier runs: the release pipeline, the branch pipeline, the repair  *)
(* (--repair) and the backfill (--backfill) of main.py over the states of  *)
(* core/ingest_state.py.                                                   *)
(*                                                                         *)
(* A reference is a tag, a branch or a bare commit with a head commit of    *)
(* its own; the commits lie on one line. What VersionIngest does table by  *)
(* table is one step here. Of the rows of a version only their extent is   *)
(* kept, and of the marks of a run how many commits there were when it     *)
(* began and which versions began after it: their rows may refer to rows   *)
(* above its marks.                                                        *)
(***************************************************************************)
EXTENDS Naturals, FiniteSets, Sequences, FiniteSetsExt, SequencesExt, Lists

CONSTANTS
    History,      \* the references, oldest head commit first
    Tags,         \* those that are tags: the releases
    ReleaseLists, \* target_refs of the release pipeline
    RepairLists,  \* target_refs with --repair and --backfill
    BranchLists,  \* target_refs of the branch pipeline
    Legacy,       \* what was ingested before states existed: sets of <<complete, partial>> versions
    MaxLaunches,  \* bound on the launches that are no plain release pipeline over all tags
    MaxStops      \* bound on crashes and expired deadlines

Refs == ToSet(History)
NoRef == "none"   \* VID 0, no reference; as a base: the empty tree

ASSUME PipelineAssumptions ==
    /\ NoRef \notin Refs /\ Tags \subseteq Refs
    /\ History \in Seq(Refs) /\ IsInjective(History)
    /\ ReleaseLists \subseteq Seq(Refs) \ {<< >>} /\ RepairLists \subseteq ReleaseLists
    /\ BranchLists \subseteq Seq(Refs)
    /\ \A l \in Legacy : l[1] \subseteq Refs /\ l[2] \subseteq Refs
    /\ MaxLaunches \in Nat /\ MaxStops \in Nat

VARIABLES
    commits,   \* m_commit: the head commits with a row, in the order of their ids
    refs,      \* m_git_ref: the registered references
    status,    \* m_ingest_state
    rows,      \* m_bridge_checkpoint: "none", "part", "most" (90% of the tree) or "whole"
    baseOf,    \* what the rows of a version were compared with
    mark,      \* m_ingest_watermark: how many commits lie below the marks of a version
    above,     \* the versions begun since those marks were taken
    disturbed, \* history: the versions begun after the marks of one that was rolled back
    pc, tasks, \* what the process does next, and after that
    vid, old,  \* gp.VID and gp.Old_VID
    realigned, \* history: the successors the process has purged
    expired,   \* the deadline is exceeded, or the operator asked to quit
    launches, stops

markVars == <<mark, above, disturbed>>
dbVars == <<commits, refs, status, rows, baseOf, markVars>>
processVars == <<tasks, vid, old, realigned, expired>>
boundVars == <<launches, stops>>
vars == <<dbVars, pc, processVars, boundVars>>

CanonicalTags == Those(History, Tags)
NoMarks == Len(History) + 1
Until(r) == SubSeq(History, 1, CHOOSE i \in DOMAIN History : History[i] = r)

Init ==
    /\ \E l \in Legacy :
          /\ rows = [r \in Refs |-> IF r \in l[1] THEN "whole" ELSE IF r \in l[2] THEN "part" ELSE "none"]
          /\ refs = l[1] \cup l[2]
          /\ commits = Those(History, UNION {ToSet(Until(r)) : r \in refs})
    /\ status = [r \in Refs |-> "none"]
    /\ baseOf = [r \in Refs |-> NoRef]
    /\ mark = [r \in Refs |-> NoMarks] /\ above = [r \in Refs |-> {}] /\ disturbed = {}
    /\ pc = "down" /\ tasks = << >> /\ vid = NoRef /\ old = NoRef
    /\ realigned = {} /\ expired = FALSE
    /\ launches = MaxLaunches /\ stops = MaxStops

ProcessEnds ==
    /\ pc' = "down" /\ tasks' = << >> /\ vid' = NoRef /\ old' = NoRef
    /\ realigned' = {} /\ expired' = FALSE

-----------------------------------------------------------------------------
(***************************************************************************)
(* States of versions, and how an interrupted one is undone.               *)
(***************************************************************************)
\* Mutant: any state row makes a version done.
PreviousIngest_AnyRow(r) ==
    IF status[r] # "none" THEN "done"
    ELSE IF rows[r] = "none" THEN "new" ELSE IF rows[r] = "part" THEN "legacy_partial" ELSE "done"

\* _previous_ingest: without a state row the checkpoint decides.
PreviousIngest(r) ==
    CASE status[r] = "done" -> "done"
      [] status[r] = "parsing" -> "interrupted"
      [] status[r] = "none" /\ rows[r] = "none" -> "new"
      [] status[r] = "none" /\ rows[r] = "part" -> "legacy_partial"
      [] OTHER -> "done"

\* fetch_repo_version_states lists the registered references.
StateOf(r) == IF r \in refs THEN PreviousIngest(r) ELSE "new"
IsDone(r) == StateOf(r) = "done"

\* A legacy version that is done gets its state row.
WithStatesOf(resolved) == [r \in Refs |-> IF r \in resolved /\ IsDone(r) THEN "done" ELSE status[r]]

\* _purge_partial_version: the rows of the version itself.
Purge(r) ==
    /\ rows' = [rows EXCEPT ![r] = "none"]
    /\ UNCHANGED <<commits, refs, status>>

\* Mutant: marks are never stale.
CompletedAfter_Never(r) == FALSE

\* _completed_after: a version with a later commit id has finished.
CompletedAfter(r) == \E i \in DOMAIN commits : i > mark[r] /\ status[commits[i]] = "done"

HasUsableMarks(r) == mark[r] # NoMarks /\ ~CompletedAfter(r)

\* discard_marks.
DiscardMarks(r) ==
    /\ mark' = [mark EXCEPT ![r] = NoMarks]
    /\ above' = [above EXCEPT ![r] = {}]
    /\ disturbed' = disturbed \ {r}

\* rollback_plan: the commits above the marks go with their references and
\* states, and with the rows above the marks what refers to them. A version
\* begun since, finished or not, loses what was new then, or nothing: its
\* checkpoint refers to files and blobs and not to its commit. What is left
\* counts as a part, even if it is nothing: what follows is the same.
DeleteAbove(r) ==
    LET gone == ToSet(SubSeq(commits, mark[r] + 1, Len(commits))) IN
    /\ commits' = SubSeq(commits, 1, Min({mark[r], Len(commits)}))
    /\ refs' = refs \ gone
    /\ status' = [s \in Refs |-> IF s \in gone THEN "none" ELSE status[s]]
    /\ \E cut \in SUBSET above[r] :
          rows' = [s \in Refs |-> IF s = r THEN "none"
                                  ELSE IF s \in cut /\ rows[s] # "none" THEN "part" ELSE rows[s]]
    /\ mark' = [mark EXCEPT ![r] = NoMarks]
    /\ above' = [s \in Refs |-> IF s \in above[r] \cup {r} THEN {} ELSE above[s]]
    /\ disturbed' = (disturbed \cup above[r]) \ {r}

\* precheck_queries: the marks lie above the rows of today, since those of a
\* run before it were used, and a version was begun since: a row below them
\* may refer to one above them.
MayRefuse(r) == HasUsableMarks(r) /\ r \in disturbed /\ above[r] # {}

\* rollback_version, else _purge_partial_version.
RollBack(r) ==
    /\ IF HasUsableMarks(r) THEN DeleteAbove(r) ELSE Purge(r) /\ DiscardMarks(r)
    /\ UNCHANGED baseOf

\* Mutant: the successor keeps its status.
PurgeDifferentialRows_KeepDone(r) ==
    /\ rows' = [rows EXCEPT ![r] = "none"]
    /\ UNCHANGED <<commits, refs, status, baseOf, markVars>>

\* purge_version_differential_rows.
PurgeDifferentialRows(r) ==
    /\ rows' = [rows EXCEPT ![r] = "none"]
    /\ status' = [status EXCEPT ![r] = IF @ = "none" THEN @ ELSE "parsing"]
    /\ UNCHANGED <<commits, refs, baseOf, markVars>>

-----------------------------------------------------------------------------
(***************************************************************************)
(* main(): what a process is going to do.                                  *)
(***************************************************************************)
Task(op, r, b) == [op |-> op, ref |-> r, base |-> b]
Update(r, b) == <<Task("update", r, b)>>
RolledBackFirst(r) == IF StateOf(r) = "interrupted" THEN <<Task("rollback", r, NoRef)>> ELSE << >>
Before(list, i) == IF i > 1 THEN list[i - 1] ELSE NoRef

\* A successor of versions that are backfilled.
Realign(r, b) == <<Task("purge", r, b)>> \o Update(r, b)

\* orchestrate_repair_pipeline: every missing version with a finished one
\* behind it, in order, and then the finished one.
Missing(list, i) == ~IsDone(list[i]) /\ \E j \in i + 1 .. Len(list) : IsDone(list[j])
GapTasks(list) ==
    FlattenSeq([i \in DOMAIN list |->
        IF Missing(list, i) THEN RolledBackFirst(list[i]) \o Update(list[i], Before(list, i))
        ELSE IF i > 1 /\ Missing(list, i - 1) THEN Realign(list[i], list[i - 1])
        ELSE << >>])

\* The same for one version, whatever its state is.
BackfillTasks(list, i) ==
    LET later == {j \in i + 1 .. Len(list) : IsDone(list[j])}
        pred  == Before(list, i)
    IN RolledBackFirst(list[i]) \o Update(list[i], IF pred \in refs THEN pred ELSE NoRef)
       \o IF later = {} THEN << >> ELSE Realign(list[Min(later)], list[i])

\* get_version_tags: the tags from the first reference on, which is listed
\* itself when it is no tag.
From(list) ==
    LET tags == Those(CanonicalTags, {t \in Tags : Head(list) \in ToSet(Until(t))})
    IN IF Head(list) \in Tags THEN tags ELSE <<Head(list)>> \o tags

\* The prefix scan: what is left of the list, with the base for its first
\* version. An interrupted version is rolled back.
Rest(list) ==
    LET open == {i \in DOMAIN list : ~IsDone(list[i])}
        i    == Min(open)
        r    == list[i]
        undo == IF i = 1 THEN << >>
                ELSE IF StateOf(r) = "legacy_partial" THEN <<Task("partial", r, NoRef)>>
                ELSE RolledBackFirst(r)
    IN IF open = {} THEN << >>
       ELSE undo \o [k \in 1 .. Len(list) - i + 1 |->
                        Task("next", list[i + k - 1], IF k = 1 THEN Before(list, i) ELSE NoRef)]

\* The scan decides the legacy versions it looks at.
Scanned(list) ==
    LET open == {i \in DOMAIN list : ~IsDone(list[i])}
    IN ToSet(IF open = {} THEN list ELSE SubSeq(list, 1, Min(open)))

Goes(todo) == pc' = "task" /\ tasks' = todo
UnchangedButStates == UNCHANGED <<commits, refs, rows, baseOf, markVars>>
IsDown == pc = "down" /\ UNCHANGED <<vid, old, realigned, expired, stops>>
Uses(bounded) ==
    /\ bounded => launches > 0
    /\ launches' = IF bounded THEN launches - 1 ELSE launches

LaunchRelease(list) ==
    /\ IsDown /\ Uses(list # CanonicalTags)
    /\ \E i \in DOMAIN list : ~IsDone(list[i])
    /\ Goes(Rest(list))
    /\ status' = WithStatesOf(Scanned(list))
    /\ UnchangedButStates

\* The branch pipeline leaves the finished branches out.
LaunchBranches(list) ==
    /\ IsDown /\ Uses(TRUE)
    /\ LET open == Those(list, {r \in Refs : StateOf(r) # "done"}) IN
       /\ open # << >>
       /\ Goes([i \in DOMAIN open |-> Task("branch", open[i], NoRef)])
    /\ UNCHANGED dbVars

\* --repair and --backfill decide every legacy version. After a repair comes
\* the release pipeline, with the states as they are then.
LaunchRepair(list) ==
    /\ IsDown /\ Uses(TRUE)
    /\ Goes(GapTasks(From(list)) \o <<[op |-> "scan", list |-> list]>>)
    /\ status' = WithStatesOf(refs)
    /\ UnchangedButStates

LaunchBackfill(list) ==
    /\ IsDown /\ Uses(TRUE)
    /\ \E i \in DOMAIN list : Goes(BackfillTasks(list, i))
    /\ status' = WithStatesOf(refs)
    /\ UnchangedButStates

-----------------------------------------------------------------------------
(***************************************************************************)
(* The tasks.                                                              *)
(***************************************************************************)
NextIs(op) == pc = "task" /\ tasks # << >> /\ Head(tasks).op = op
Current == Head(tasks).ref
TaskDone == pc' = "task" /\ tasks' = Tail(tasks)

Undo ==
    /\ \/ NextIs("rollback") /\ RollBack(Current)
       \/ NextIs("partial") /\ Purge(Current) /\ UNCHANGED <<baseOf, markVars>>
    /\ TaskDone
    /\ UNCHANGED <<vid, old, realigned, expired, boundVars>>

PurgeSuccessor ==
    /\ NextIs("purge")
    /\ PurgeDifferentialRows(Current)
    /\ realigned' = realigned \cup {Current}
    /\ TaskDone
    /\ UNCHANGED <<vid, old, expired, boundVars>>

\* update(): the repair goes on whatever the time is.
StartUpdate ==
    /\ NextIs("update")
    /\ pc' = "check"
    /\ old' = Head(tasks).base
    /\ UNCHANGED <<dbVars, tasks, vid, realigned, expired, boundVars>>

\* The pipelines look at the deadline and the quit request first. Branches
\* have no base.
StartNext ==
    /\ NextIs("next") \/ NextIs("branch")
    /\ ~expired
    /\ pc' = "check"
    /\ old' = IF Head(tasks).op = "branch" THEN NoRef
              ELSE IF Head(tasks).base # NoRef THEN Head(tasks).base ELSE old
    /\ UNCHANGED <<dbVars, tasks, vid, realigned, expired, boundVars>>

StopsEarly ==
    /\ NextIs("next") \/ NextIs("branch")
    /\ expired
    /\ ProcessEnds /\ UNCHANGED <<dbVars, boundVars>>

\* After a repair the prefix is scanned with fresh states.
Rescan ==
    /\ NextIs("scan")
    /\ Goes(Rest(Head(tasks).list))
    /\ status' = WithStatesOf(Scanned(Head(tasks).list))
    /\ UnchangedButStates
    /\ UNCHANGED <<vid, old, realigned, expired, boundVars>>

AllTasksDone ==
    /\ pc = "task" /\ tasks = << >>
    /\ ProcessEnds /\ UNCHANGED <<dbVars, boundVars>>

-----------------------------------------------------------------------------
(***************************************************************************)
(* ingest_git_dag and the rest of update().                                *)
(***************************************************************************)
IsCheckpoint(r) == r \in Tags \/ vid = NoRef \/ old = NoRef

\* A reference that is no checkpoint counts as new, and so does one without a
\* commit row.
Earlier(r) == IF IsCheckpoint(r) /\ r \in ToSet(commits) THEN PreviousIngest(r) ELSE "new"

Moves(r) == old' = vid /\ vid' = r

\* A reference that is not registered becomes an alias.
SkipDone ==
    /\ pc = "check" /\ Earlier(Current) = "done"
    /\ status' = [status EXCEPT ![Current] = "done"]
    /\ refs' = refs \cup {Current}
    /\ Moves(Current) /\ TaskDone
    /\ UNCHANGED <<commits, rows, baseOf, markVars>>
    /\ UNCHANGED <<realigned, expired, boundVars>>

Recover ==
    /\ pc = "check"
    /\ \/ Earlier(Current) = "interrupted" /\ RollBack(Current)
       \/ Earlier(Current) = "legacy_partial" /\ Purge(Current) /\ UNCHANGED <<baseOf, markVars>>
       \/ Earlier(Current) = "new" /\ UNCHANGED dbVars
    /\ pc' = "begin"
    /\ UNCHANGED <<processVars, boundVars>>

RollsBack == NextIs("rollback") \/ (pc = "check" /\ Earlier(Current) = "interrupted")

\* RecoveryError ends the process.
Refuse ==
    /\ RollsBack /\ MayRefuse(Current)
    /\ ProcessEnds /\ UNCHANGED <<dbVars, boundVars>>

\* The commits and the reference get their rows; begin() replaces the marks.
\* The base is the version before in this process, whatever base the
\* pipeline chose: ingest_git_dag overwrites it.
Begin ==
    LET r == Current IN
    /\ pc = "begin"
    /\ commits' = commits \o Those(Until(r), Refs \ ToSet(commits))
    /\ refs' = refs \cup {r}
    /\ mark' = [mark EXCEPT ![r] = Len(commits')]
    /\ above' = [s \in Refs |-> IF s = r THEN {} ELSE IF mark[s] = NoMarks THEN above[s] ELSE above[s] \cup {r}]
    /\ disturbed' = disturbed \ {r}
    /\ status' = [status EXCEPT ![r] = "parsing"]
    /\ Moves(r)
    /\ pc' = "parse"
    /\ UNCHANGED <<rows, baseOf, tasks, realigned, expired, boundVars>>

\* The checkpoint names the files that are reused first.
Write ==
    /\ pc = "parse" /\ rows[Current] \in {"none", "part"}
    /\ \E extent \in {"part", "most"} : rows' = [rows EXCEPT ![Current] = extent]
    /\ UNCHANGED <<commits, refs, status, baseOf, markVars, pc, processVars, boundVars>>

\* finish_version_ingest, after the last rows.
Finish ==
    LET r == Current IN
    /\ pc = "parse"
    /\ rows' = [rows EXCEPT ![r] = "whole"] /\ baseOf' = [baseOf EXCEPT ![r] = old]
    /\ status' = [status EXCEPT ![r] = "done"] /\ DiscardMarks(r)
    /\ TaskDone
    /\ UNCHANGED <<commits, refs, vid, old, realigned, expired, boundVars>>

\* update() returns early: the version stays PARSING, the pipeline goes on.
ReturnEarly ==
    /\ pc = "parse" /\ expired
    /\ TaskDone
    /\ UNCHANGED <<dbVars, vid, old, realigned, expired, boundVars>>

\* --duration is over, or 'q' was pressed.
Expire ==
    /\ pc # "down" /\ ~expired /\ stops > 0
    /\ expired' = TRUE /\ stops' = stops - 1
    /\ UNCHANGED <<dbVars, pc, tasks, vid, old, realigned, launches>>

Crash ==
    /\ pc # "down" /\ stops > 0
    /\ stops' = stops - 1
    /\ ProcessEnds /\ UNCHANGED <<dbVars, launches>>

Step ==
    \/ Undo \/ PurgeSuccessor \/ StartUpdate \/ StartNext \/ StopsEarly \/ Rescan \/ AllTasksDone
    \/ SkipDone \/ Recover \/ Refuse \/ Begin \/ Write \/ Finish \/ ReturnEarly

Launch ==
    \/ \E list \in ReleaseLists : LaunchRelease(list)
    \/ \E list \in RepairLists : LaunchRepair(list) \/ LaunchBackfill(From(list))
    \/ \E list \in BranchLists : LaunchBranches(list)

AllFinished == pc = "down" /\ (\A r \in Tags : IsDone(r)) /\ UNCHANGED vars

Next == Step \/ Launch \/ Expire \/ Crash \/ AllFinished

Spec == Init /\ [][Next]_vars

(***************************************************************************)
(* Fairness: a process that is not stopped goes on, and the operator       *)
(* starts the release pipeline over all tags again while one is missing.   *)
(***************************************************************************)
FairSpec == Spec /\ WF_vars(Step) /\ WF_vars(LaunchRelease(CanonicalTags))

-----------------------------------------------------------------------------
(***************************************************************************)
(* Properties.                                                             *)
(***************************************************************************)
\* A finished version is opened again by a repair, to compare it with the
\* version that has just been put in front of it, and by begin() when it is
\* named behind two other references and is no tag; no rollback and no other
\* pipeline does. It loses rows to such a repair, and to the rollback of a run
\* that began before its own although its commit is the later one.
FinishedStaysFinished ==
    [][\A r \in Refs :
          LET realigns == NextIs("purge") /\ r = Current /\ vid = Head(tasks).base
              again    == pc = "begin" /\ r = Current /\ r \notin Tags /\ vid # NoRef /\ old # NoRef
              overtook == /\ RollsBack /\ r \in above[Current]
                          /\ \E i \in 1 .. mark[Current] : commits[i] = r
          IN /\ status[r] = "done" /\ status'[r] # "done" => realigns \/ again
             /\ status[r] = "done" /\ rows'[r] # rows[r] => realigns \/ overtook]_vars

\* A repair that was not stopped leaves no gap in the history, and every
\* successor it purged is finished again, compared with the version before it.
RepairAligns ==
    NextIs("scan") /\ ~expired =>
        LET list == From(Head(tasks).list) IN
        /\ \A i \in DOMAIN list : ~Missing(list, i)
        /\ \A i \in DOMAIN list : list[i] \in realigned =>
              status[list[i]] = "done" /\ baseOf[list[i]] = Before(list, i)

\* Whatever was launched, stopped, repaired or backfilled before: starting the
\* release pipeline again and again gives every release its rows, except those
\* that were begun after the marks of a run that was rolled back; unless the
\* rollback of such a release may be refused for good.
ReleasesFinish ==
    \/ <>[](\A r \in Tags : IsDone(r) /\ (rows[r] = "whole" \/ r \in disturbed))
    \/ <>[](\E r \in Tags \cap disturbed : status[r] = "parsing" /\ MayRefuse(r))
=============================================================================
