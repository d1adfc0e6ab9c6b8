------------------------- MODULE DependencyScheduler -------------------------
(***************************************************************************)
(* The execution of the ChangeSets of one version in dependency order      *)
(* (DependencyScheduler and execute_phase2_parallel_waves of main.py,      *)
(* ChangeSet.execute and resolve_ref of core/TableHandling.py), driven by  *)
(* the two stages of trigger_multicore.                                    *)
(*                                                                         *)
(* A file's ChangeSet is a sequence of operations; those that matter here  *)
(* refer to a symbol of another file, so a ChangeSet is the sequence of    *)
(* the files its operations refer to, in operation order. ChangeSets       *)
(* arrive from the workers in batches, in any order within a stage. One    *)
(* that refers to a file of this version that has not executed waits for   *)
(* it; what nothing woke is executed by the wave pass, which forces an     *)
(* answer to the references it cannot resolve: a row of the symbol's name, *)
(* which may be that of an earlier version, or a stub.                     *)
(*                                                                         *)
(* The parent process is sequential: `agenda` holds the loops it is in,    *)
(* innermost first, and every iteration of a loop is a step.               *)
(***************************************************************************)
EXTENDS Naturals, FiniteSets, Sequences, FiniteSetsExt, SequencesExt

CONSTANTS
    File,      \* paths of the repository
    Plain,     \* files of the types that refer to nothing (T_NO_FOREIGN)
    Elsewhere, \* a path that never has a ChangeSet (outside the repository)
    Versions,  \* the versions to ingest: records of headers, sources, missing, undelivered and refs
    MaxEpochs, \* bound on the epochs of Stage 2
    MayExpire  \* whether the process has a deadline

ASSUME SchedulerAssumptions ==
    /\ IsFiniteSet(File) /\ Elsewhere \notin File /\ Plain \subseteq File
    /\ MaxEpochs \in Nat \ {0} /\ MayExpire \in BOOLEAN
    /\ \A v \in Versions :
          /\ v.headers \subseteq File /\ v.sources \subseteq File /\ v.missing \subseteq File
          /\ v.undelivered \subseteq File
          /\ v.headers \cap v.sources = {} /\ v.missing \cap (v.headers \cup v.sources) = {}
          /\ v.refs \in [File -> Seq(File \cup {Elsewhere})]
          /\ \A f \in File : f \notin ToSet(v.refs[f]) /\ (f \in Plain => v.refs[f] = << >>)

VARIABLES
    version,   \* the version: its files, and what each one refers to
    stage,     \* where trigger_multicore is
    agenda,    \* the loops the parent is in
    changed,   \* gp._changed_paths_set
    stored,    \* the keys of gp.ChangeSet_Dict
    answer,    \* per file and operation: how its reference was resolved
    started,   \* files whose ChangeSet ran at least once: its own symbols exist
    published, \* gp.completed_paths: fully executed, symbols published, buffers evacuated
    completed, \* scheduler.completed
    waiters,   \* scheduler.waiters
    pending,   \* scheduler.pending_deps ({}: none)
    ready,     \* scheduler._ready
    deferred,  \* scheduler.deferred_queue
    batch,     \* the rest of the worker batch (or of the deferred queue) being gone through
    epochs,    \* Stage 2 epochs begun
    remaining, \* wave pass: the files to execute ...
    entered,   \* ... those it began with ...
    wave,      \* ... and the rest of the current wave
    expired    \* the deadline has passed

execution == <<answer, started, published, stored>>
parking == <<completed, waiters, pending, ready, deferred>>
waves == <<remaining, entered, wave>>
vars == <<version, stage, agenda, changed, execution, parking, batch, epochs, waves, expired>>

Refs(f) == version.refs[f]
Deps(f) == ToSet(Refs(f)) \ {f}
Update == version.headers \cup version.sources \cup version.missing

Init ==
    /\ version \in Versions
    /\ stage = "start" /\ agenda = << >>
    /\ changed = version.headers \cup version.sources
    /\ stored = {} /\ started = {} /\ published = {} /\ completed = {}
    /\ answer = [f \in File |-> [k \in DOMAIN version.refs[f] |-> "none"]]
    /\ waiters = [f \in File |-> {}] /\ pending = [f \in File |-> {}]
    /\ ready = {} /\ deferred = {} /\ batch = {}
    /\ epochs = 0 /\ expired = FALSE
    /\ remaining = {} /\ entered = {} /\ wave = {}

-----------------------------------------------------------------------------
(* One execution of a ChangeSet                                            *)

InFlight(f) == f \notin completed /\ f \in changed \cup stored

(* Unanswered operations only. A symbol is bound once its file is          *)
(* published, or as soon as its own operation ran if that ChangeSet is at  *)
(* hand (`seen`: in the batch or the LRU cache, not compressed). A file    *)
(* that is not in flight is looked up in the database ("database" also     *)
(* where that has no such symbol and a stub is made). The reference to one *)
(* that is gets the `fallback`: it waits ("none"), or with force_stubs it  *)
(* is answered by the symbol's name.                                       *)
Resolve(d, seen, fallback) ==
    IF d = Elsewhere THEN "none"
    ELSE IF d \in published \cup (started \cap seen) THEN "bound"
    ELSE IF d \notin changed \cup stored THEN "database"
    ELSE fallback

Executed(f, seen, fallback) ==
    [k \in DOMAIN answer[f] |->
        IF answer[f][k] = "none" THEN Resolve(Refs(f)[k], seen, fallback[k]) ELSE answer[f][k]]

\* Without force_stubs every reference to a file in flight waits.
Waiting(f) == [k \in DOMAIN answer[f] |-> "none"]

(* With force_stubs it does not. What is found under the symbol's name     *)
(* depends on rows this model does not have: a row of this run, staged or  *)
(* shared, else one the database holds, which may be that of an earlier    *)
(* version ("database"), else a new notbind stub. Rows of this run count   *)
(* as "stub": they stand in for the symbol, too.                           *)
ByName(f) == [DOMAIN answer[f] -> {"stub", "database"}]

Whole(answers) == \A k \in DOMAIN answers : answers[k] # "none"

\* cs.blocked_on: the file of the last operation that has to wait for one.
BlockedOn(f, answers) ==
    LET blocked == { k \in DOMAIN answers : answers[k] = "none" /\ Refs(f)[k] # Elsewhere }
    IN  IF blocked = {} THEN Elsewhere ELSE Refs(f)[Max(blocked)]

\* The ChangeSets an execution may find uncompressed.
AtHand(f) == SUBSET ((started \ published) \cap Deps(f))

\* Mutant: a held header keeps the files it waited for.
Wake_KeepsPending(D, queue) ==
    /\ waiters' = [d \in File |-> IF d \in D THEN {} ELSE waiters[d]]
    /\ ready' = queue \cup { w \in UNION { waiters[d] : d \in D } : pending[w] = {} }
    /\ UNCHANGED pending

(* Complete the files of D: what was waiting only on them is to run next,  *)
(* after the ChangeSets already in `queue`.                                *)
Wake(D, queue) ==
    LET left == [w \in File |-> pending[w] \ { d \in D : w \in waiters[d] }]
    IN  /\ waiters' = [d \in File |-> IF d \in D THEN {} ELSE waiters[d]]
        /\ pending' = left
        /\ ready' = queue \cup { w \in UNION { waiters[d] : d \in D } : left[w] = {} }

Complete(f, queue) == completed' = completed \cup {f} /\ Wake({f}, queue)

(* DependencyScheduler._execute: publish the file and wake what waited on  *)
(* it, or park it: on the file that blocks it if that one will complete,   *)
(* else in the deferred queue (`defer`).                                   *)
Publish(f, answers, queue) ==
    /\ Whole(answers)
    /\ published' = published \cup {f}
    /\ Complete(f, queue)
    /\ UNCHANGED deferred

Park(f, answers, defer, queue) ==
    LET d     == BlockedOn(f, answers)
        waits == d # Elsewhere /\ d # f /\ InFlight(d)
    IN  /\ ~Whole(answers)
        /\ waiters' = IF waits THEN [waiters EXCEPT ![d] = @ \cup {f}] ELSE waiters
        /\ deferred' = IF defer /\ ~waits THEN deferred \cup {f} ELSE deferred
        /\ ready' = queue
        /\ UNCHANGED <<published, completed, pending>>

Execute(f, defer, queue) == \E seen \in AtHand(f) :
    LET answers == Executed(f, seen, Waiting(f))
    IN  /\ answer' = [answer EXCEPT ![f] = answers]
        /\ started' = started \cup {f}
        /\ stored' = stored \cup {f}
        /\ Publish(f, answers, queue) \/ Park(f, answers, defer, queue)

-----------------------------------------------------------------------------
(* DependencyScheduler.ingest_batch                                        *)

Doing(loop) == agenda # << >> /\ Head(agenda) = loop
Leave == agenda' = Tail(agenda)
Idle == agenda = << >>

HeaderStage == stage \in {"headers", "missing"}

FilesOf(s) ==
    CASE s = "headers" -> version.headers
      [] s = "missing" -> version.missing
      [] s = "sources" -> version.sources \cup (IF version.headers = {} THEN version.missing ELSE {})
      [] OTHER         -> {}

Outstanding == FilesOf(stage) \ stored

\* A batch arrives; its plain files are executed before any other (execute_and_purge).
Arrive == \E files \in SUBSET (Outstanding \ version.undelivered) :
    /\ Idle /\ files # {}
    /\ batch' = files
    /\ started' = started \cup (files \cap Plain)
    /\ published' = published \cup (files \cap Plain)
    /\ agenda' = <<"ingest", "drain">>
    /\ UNCHANGED <<version, stage, changed, answer, stored, parking, epochs, waves, expired>>

IngestPlain(f) ==
    /\ f \in Plain
    /\ stored' = stored \cup {f}
    /\ Complete(f, ready)
    /\ UNCHANGED <<answer, started, published, deferred>>

\* A header waits for every file in flight it refers to before it runs.
Hold(f) ==
    LET blocking == { d \in Deps(f) : InFlight(d) }
    IN  /\ f \notin Plain /\ HeaderStage /\ blocking # {}
        /\ pending' = [pending EXCEPT ![f] = blocking]
        /\ waiters' = [d \in File |-> IF d \in blocking THEN waiters[d] \cup {f} ELSE waiters[d]]
        /\ stored' = stored \cup {f}
        /\ UNCHANGED <<answer, started, published, completed, ready, deferred>>

RunOnArrival(f) ==
    /\ f \notin Plain
    /\ HeaderStage => \A d \in Deps(f) : ~InFlight(d)
    /\ Execute(f, ~HeaderStage, ready)

Ingest == \E f \in batch :
    /\ Doing("ingest")
    /\ batch' = batch \ {f}
    /\ IngestPlain(f) \/ Hold(f) \/ RunOnArrival(f)
    /\ UNCHANGED <<version, stage, agenda, changed, epochs, waves, expired>>

IngestDone ==
    /\ Doing("ingest") /\ batch = {} /\ Leave
    /\ UNCHANGED <<version, stage, changed, execution, parking, batch, epochs, waves, expired>>

-----------------------------------------------------------------------------
(* _drain_ready and drain_deferred_queue                                   *)

Drain == \E f \in ready :
    /\ Doing("drain")
    /\ IF f \in completed \/ f \notin stored
       THEN ready' = ready \ {f} /\ UNCHANGED <<execution, completed, waiters, pending, deferred>>
       ELSE Execute(f, TRUE, ready \ {f})
    /\ UNCHANGED <<version, stage, agenda, changed, batch, epochs, waves, expired>>

DrainDone ==
    /\ Doing("drain") /\ ready = {} /\ Leave
    /\ UNCHANGED <<version, stage, changed, execution, parking, batch, epochs, waves, expired>>

\* _wake_completed: the waiters of files completed outside the scheduler.
WakeCompleted == Wake({ d \in completed : waiters[d] # {} }, ready)

\* drain_deferred_queue: wake and drain, then retry what is deferred by then.
Redo == <<"drain", "take", "retry", "drain">>

TakeDeferred ==
    /\ Doing("take") /\ Leave
    /\ batch' = deferred /\ deferred' = {}
    /\ UNCHANGED <<version, stage, changed, execution, completed, waiters, pending, ready, epochs, waves, expired>>

Retry == \E f \in batch :
    /\ Doing("retry")
    /\ batch' = batch \ {f}
    /\ IF f \in completed
       THEN UNCHANGED <<execution, parking>>
       ELSE Execute(f, TRUE, ready)
    /\ UNCHANGED <<version, stage, agenda, changed, epochs, waves, expired>>

RetryDone ==
    /\ Doing("retry") /\ batch = {} /\ Leave
    /\ UNCHANGED <<version, stage, changed, execution, parking, batch, epochs, waves, expired>>

-----------------------------------------------------------------------------
(* execute_phase2_parallel_waves                                           *)

SelectRemaining ==
    /\ Doing("select") /\ Leave
    /\ remaining' = stored \ completed /\ entered' = stored \ completed
    /\ wave' = {}
    /\ UNCHANGED <<version, stage, changed, execution, parking, batch, epochs, expired>>

\* Mutant: a wave is everything that remains.
Unblocked_All == remaining

\* Files that refer to no file still to execute in this pass.
Unblocked == { f \in remaining : Deps(f) \cap remaining = {} }
Dependents(f) == { g \in entered : f \in Deps(g) }

Choosing == Doing("waves") /\ wave = {} /\ remaining # {} /\ ~expired

NextWave ==
    /\ Choosing /\ Unblocked # {}
    /\ wave' = Unblocked
    /\ UNCHANGED <<version, stage, agenda, changed, execution, parking, batch, epochs, remaining, entered, expired>>

\* The wave pass evacuates a ChangeSet whether or not every operation was answered.
Evacuate(f, answers) ==
    /\ answer' = [answer EXCEPT ![f] = answers]
    /\ started' = started \cup {f}
    /\ published' = published \cup {f}
    /\ completed' = completed \cup {f}
    /\ remaining' = remaining \ {f}
    /\ UNCHANGED <<version, stage, agenda, changed, stored, waiters, pending, ready, deferred, batch, epochs,
                   entered, expired>>

\* Nothing is unblocked: a file most others wait on is executed with force_stubs.
BreakCycle == \E f \in remaining : \E seen \in AtHand(f), fallback \in ByName(f) :
    /\ Choosing /\ Unblocked = {}
    /\ \A g \in remaining : Cardinality(Dependents(g)) <= Cardinality(Dependents(f))
    /\ Evacuate(f, Executed(f, seen, fallback))
    /\ UNCHANGED wave

\* Mutant: no second run with force_stubs.
RunWave_NoStubs == \E f \in wave : \E seen \in AtHand(f) :
    /\ Doing("waves")
    /\ Evacuate(f, Executed(f, seen, Waiting(f)))
    /\ wave' = wave \ {f}

\* Without force_stubs first; with it if that leaves something unanswered.
RunWave == \E f \in wave : \E seen \in AtHand(f), fallback \in ByName(f) :
    /\ Doing("waves")
    /\ LET plainly == Executed(f, seen, Waiting(f))
       IN  Evacuate(f, IF Whole(plainly) THEN plainly ELSE Executed(f, seen, fallback))
    /\ wave' = wave \ {f}

WavesDone ==
    /\ Doing("waves") /\ wave = {} /\ (remaining = {} \/ expired) /\ Leave
    /\ UNCHANGED <<version, stage, changed, execution, parking, batch, epochs, waves, expired>>

\* resolve_headers and finalize, after their wave pass: what is left counts as completed.
CloseHeaders ==
    /\ Doing("close") /\ stage = "resolve" /\ Leave
    /\ completed' = completed \cup stored
    /\ pending' = [f \in File |-> {}]
    /\ waiters' = [d \in File |-> IF d \in completed \cup stored THEN {} ELSE waiters[d]]
    /\ ready' = ready \cup UNION { waiters[d] : d \in completed \cup stored }
    /\ UNCHANGED <<version, stage, changed, execution, deferred, batch, epochs, waves, expired>>

CloseUpdate ==
    /\ Doing("close") /\ stage = "finalize" /\ Leave
    /\ completed' = completed \cup stored
    /\ pending' = [f \in File |-> {}] /\ waiters' = [f \in File |-> {}]
    /\ stage' = "done"
    /\ UNCHANGED <<version, changed, execution, ready, deferred, batch, epochs, waves, expired>>

-----------------------------------------------------------------------------
(* trigger_multicore, _run_source_epochs and update                        *)

\* Mutant: the missing files are collected only.
PropagateTree_NotChanged ==
    /\ stage = "start"
    /\ stage' = IF version.headers # {} THEN "headers" ELSE "sources"
    /\ epochs' = IF version.headers # {} THEN 0 ELSE 1
    /\ UNCHANGED <<version, agenda, changed, execution, parking, batch, waves, expired>>

\* Before the first batch is ingested, the files missing from the previous version are known.
PropagateTree ==
    /\ stage = "start"
    /\ changed' = changed \cup version.missing
    /\ stage' = IF version.headers # {} THEN "headers" ELSE "sources"
    /\ epochs' = IF version.headers # {} THEN 0 ELSE 1
    /\ UNCHANGED <<version, agenda, execution, parking, batch, waves, expired>>

\* Mutant: a stage ends only when every file has arrived.
StageOver_All == Idle /\ (Outstanding = {} \/ expired)

\* The workers deliver nothing more: files of dead workers, symlinks; or the deadline has passed.
StageOver == Idle /\ (Outstanding \subseteq version.undelivered \/ expired)

ParseMissing ==
    /\ StageOver /\ stage = "headers" /\ version.missing # {} /\ ~expired
    /\ stage' = "missing"
    /\ UNCHANGED <<version, agenda, changed, execution, parking, batch, epochs, waves, expired>>

ResolveHeaders ==
    /\ StageOver /\ ~expired
    /\ stage = "missing" \/ (stage = "headers" /\ version.missing = {})
    /\ stage' = "resolve"
    /\ agenda' = <<"select", "waves", "close", "drain">>
    /\ UNCHANGED <<version, changed, execution, parking, batch, epochs, waves, expired>>

StartSources ==
    /\ Idle /\ stage = "resolve" /\ ~expired /\ version.sources # {}
    /\ stage' = "sources" /\ epochs' = 1
    /\ UNCHANGED <<version, agenda, changed, execution, parking, batch, waves, expired>>

\* Between two epochs: drain_deferred_queue.
NextEpoch ==
    /\ Idle /\ stage = "sources" /\ ~expired /\ Outstanding # {} /\ epochs < MaxEpochs
    /\ epochs' = epochs + 1
    /\ WakeCompleted
    /\ agenda' = Redo
    /\ UNCHANGED <<version, stage, changed, execution, completed, deferred, batch, waves, expired>>

Finalize ==
    /\ \/ StageOver /\ (stage = "sources" \/ (stage \in {"headers", "missing"} /\ expired))
       \/ Idle /\ stage = "resolve" /\ (expired \/ version.sources = {})
    /\ stage' = "finalize"
    /\ WakeCompleted
    /\ agenda' = Redo \o <<"select", "waves", "close">>
    /\ UNCHANGED <<version, changed, execution, completed, deferred, batch, epochs, waves, expired>>

DeadlinePasses ==
    /\ MayExpire /\ ~expired /\ stage # "done"
    /\ expired' = TRUE
    /\ UNCHANGED <<version, stage, agenda, changed, execution, parking, batch, epochs, waves>>

Step ==
    \/ PropagateTree \/ ParseMissing \/ ResolveHeaders \/ StartSources \/ NextEpoch \/ Finalize
    \/ Arrive \/ Ingest \/ IngestDone \/ Drain \/ DrainDone
    \/ TakeDeferred \/ Retry \/ RetryDone
    \/ SelectRemaining \/ NextWave \/ BreakCycle \/ RunWave \/ WavesDone \/ CloseHeaders \/ CloseUpdate

Next == Step \/ DeadlinePasses

(* The parent goes on while it can, and the workers deliver.               *)
Spec == Init /\ [][Next]_vars /\ WF_vars(Step)

-----------------------------------------------------------------------------
(* Properties                                                              *)

\* The references of f lead into a cycle: f is one of some files each of which
\* refers to one of them.
LeadsToCycle(f) == \E S \in SUBSET File : f \in S /\ \A g \in S : Deps(g) \cap S # {}

FirstStage == version.headers \cup (IF version.headers = {} THEN {} ELSE version.missing)

(* Why operation k of f may get something else than the symbol it refers   *)
(* to: the file referred to is delivered by no worker, or only in Stage 2  *)
(* to a Stage 1 file, or the references lead into a cycle.                 *)
Forced(f, k) ==
    \/ Refs(f)[k] \in version.undelivered
    \/ f \in FirstStage /\ Refs(f)[k] \notin FirstStage
    \/ LeadsToCycle(f)

(* "Rule 24" (TableHandling.py:474): while a file of the update has not    *)
(* executed, the database still describes its previous version. A          *)
(* reference to it gets a row from there only where it must, whatever the  *)
(* order of arrival: no file waits, is retried or comes up in a wave too   *)
(* early to be bound; files missing from the previous version count, too   *)
(* (main.py:2274).                                                         *)
NoStaleAnswer == \A f \in File : \A k \in DOMAIN answer[f] :
    answer[f][k] = "database" /\ Refs(f)[k] \in Update => Forced(f, k)

(* A stub, or another row of this run with the symbol's name, replaces a   *)
(* symbol that exists only where the code says it must. With NoStaleAnswer:*)
(* where nothing forces it, each reference to the update is bound to its   *)
(* symbol.                                                                 *)
StubsAreForced == \A f \in File : \A k \in DOMAIN answer[f] :
    answer[f][k] = "stub" => Forced(f, k)

(* No ChangeSet is forgotten: between batches, one that has arrived and    *)
(* not executed waits on a file that is still to complete, and is woken by *)
(* each of them if it is held; or it refers to a path without ChangeSet    *)
(* and is in the deferred queue, or left to resolve_headers.               *)
NothingForgotten ==
    Idle /\ stage \notin {"resolve", "finalize", "done"} =>
        /\ ready = {}
        /\ \A f \in stored \ completed :
              \/ \E d \in File : f \in waiters[d] /\ InFlight(d)
              \/ Elsewhere \in Deps(f) /\ (f \in deferred \/ HeaderStage)
        /\ \A f \in File : \A d \in pending[f] : f \in waiters[d] /\ InFlight(d)

(* A ChangeSet is never evacuated with unresolved operations               *)
(* (core/API.md:484), but for references to paths that have no ChangeSet.  *)
EvacuatedWhole == \A f \in published : \A k \in DOMAIN answer[f] :
    answer[f][k] = "none" => Refs(f)[k] = Elsewhere

(* The update comes to its end: no wake-up cascade, retry or wave pass     *)
(* goes on forever or waits for a file that never comes.                   *)
ComesToEnd == <>(stage = "done")
=============================================================================
