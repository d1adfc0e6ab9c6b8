----------------------------- MODULE WorkerStage -----------------------------
(***************************************************************************)
(* One call of `_run_worker_stage()` of main.py: batches of files are      *)
(* parsed by forked worker processes and streamed back to the ingest       *)
(* (main) thread of the parent through a reader thread.                    *)
(*                                                                         *)
(* Actors: the workers (a parsing thread and a serializer thread each),    *)
(* the reader thread and the main thread of the parent, and the faults:    *)
(* a worker killed at any time, a worker that cannot open its database, a  *)
(* result that cannot be decoded, an ingest callback that raises, and the  *)
(* execution deadline.                                                     *)
(*                                                                         *)
(* A batch is a sequence of files and is named by its index in `batches`.  *)
(* The recursive retry call of the code is the next `round` of the same    *)
(* machine: only its batches, and the fact that it is a retry, carry over. *)
(***************************************************************************)
EXTENDS Naturals, Sequences, FiniteSets, SequencesExt, Lists

CONSTANTS
    Files,          \* the changed files of the stage
    Batches,        \* the batches given to the stage: a sequence of sequences of files
    NumWorkers,     \* the worker processes asked for
    TasksAhead,     \* _TASKS_AHEAD: batches a worker may hold unreturned
    PrefetchDepth,  \* _PREFETCH_DEPTH: results the reader may queue for the main thread
    SerializeDepth, \* finished batches a worker may hold: its queue and the one being sent
    PipeFrames,     \* result frames that fit a worker's pipe before `send_bytes` blocks
    Killers,        \* files whose parsing always kills the worker (libclang abort, OOM kill)
    Faulty,         \* files whose parsing raises an exception that the worker catches
    Rejected,       \* files whose result cannot be unpickled or makes the ingest callback raise
    MaxFaults,      \* bound on each kind of fault: a function on FaultKinds
    DeadlineSet     \* whether an execution deadline is set

FaultKinds == {"crash", "init", "frame"}

ASSUME StageAssumptions ==
    /\ NumWorkers \in Nat \ {0}
    /\ TasksAhead \in Nat \ {0}
    /\ PrefetchDepth \in Nat \ {0}
    /\ SerializeDepth \in Nat \ {0}
    /\ PipeFrames \in Nat \ {0}
    /\ Batches \in Seq(Seq(Files)) /\ Batches # << >>
    /\ Killers \subseteq Files /\ Faulty \subseteq Files /\ Rejected \subseteq Files
    /\ MaxFaults \in [FaultKinds -> Nat]
    /\ DeadlineSet \in BOOLEAN

\* The change list names a file once, and it is cut into batches.
ASSUME NoFileTwice ==
    \A i, j \in DOMAIN Batches : \A k \in DOMAIN Batches[i], l \in DOMAIN Batches[j] :
        Batches[i][k] = Batches[j][l] => i = j /\ k = l

STOP == 0                    \* the stop frame; a task frame is the batch number
NoTask == 0                  \* the worker parses nothing
STAGE_END == [tag |-> "END"] \* _STAGE_END
Nothing == [tag |-> "none"]  \* the reader offers nothing

VARIABLES
    round,       \* 1: the call itself; above 1: its retry calls (retry_lost is False)
    batches,     \* the batches of this round
    disp,        \* pending, assigned, stopped and the task pipes of the workers
    openConns,   \* open_conns of the reader
    doneWorkers, \* done_workers
    initFailed,  \* init_failed
    suspects,    \* suspect_batches
    offering,    \* the item the reader thread is blocked on in _offer
    frames,      \* the queue between the reader and the main thread
    worker,      \* per worker: what its parsing thread does
    task,        \* per worker: the batch it is parsing
    outbox,      \* per worker: parsed batches not sent yet
    pipe,        \* per worker: the frames the parent has not read yet
    received,    \* the batches the main thread took from the queue
    ingested,    \* per file: how many times it was given to the ingest callback with success
    errored,     \* files with a recorded parse, decode or ingest error
    lost,        \* files reported as lost: "died" or "noworker"
    faults,      \* the faults left
    outcome      \* "run", or how the stage ended: "done", "raised", "deadline"

readerVars == <<disp, openConns, doneWorkers, initFailed, suspects, offering>>
workerVars == <<worker, task, outbox>>
resultVars == <<received, ingested, errored, lost>>
roundVars == <<round, batches>>
vars == <<roundVars, readerVars, frames, workerVars, pipe, resultVars, faults, outcome>>

Least(a, b) == IF a < b THEN a ELSE b
Most(a, b) == IF a < b THEN b ELSE a

\* The workers started for a list of batches.
Procs(bs) == 1 .. Most(1, Least(NumWorkers, Len(bs)))
Workers == Procs(batches)
FilesOf(bs) == UNION {ToSet(bs[i]) : i \in DOMAIN bs}
NoneEach == [w \in Workers |-> << >>]

UpTo(n) == [i \in 1..n |-> i]
InOrder(ws) == Those(UpTo(NumWorkers), ws)

\* Mutant: no stop frame once no batch is left.
Dispatch_NoStop(d, w) ==
    IF w \in d.stopped \/ d.pending = << >> THEN d
    ELSE [d EXCEPT !.pending = Tail(@),
                   !.assigned[w] = Append(@, Head(d.pending)),
                   !.tasks[w] = Append(@, Head(d.pending))]

(***************************************************************************)
(* _dispatch: the worker's next batch, or its stop frame once no batch is  *)
(* left. Sending to a worker that is gone raises OSError, which is         *)
(* ignored: the frame is never read, exactly as a frame left in `tasks`.   *)
(***************************************************************************)
Dispatch(d, w) ==
    IF w \in d.stopped THEN d
    ELSE IF d.pending # << >>
    THEN [d EXCEPT !.pending = Tail(@),
                   !.assigned[w] = Append(@, Head(d.pending)),
                   !.tasks[w] = Append(@, Head(d.pending))]
    ELSE [d EXCEPT !.stopped = @ \cup {w},
                   !.tasks[w] = Append(@, STOP)]

DispatchAll(d, ws) ==
    LET after[n \in 0..Len(ws)] == IF n = 0 THEN d ELSE Dispatch(after[n - 1], ws[n])
    IN after[Len(ws)]

Undealt(bs) ==
    [pending  |-> UpTo(Len(bs)),
     assigned |-> [w \in Procs(bs) |-> << >>],
     stopped  |-> {},
     tasks    |-> [w \in Procs(bs) |-> << >>]]

\* What the reader thread does first: TasksAhead passes over the new workers.
Dealt(bs) ==
    LET pass[n \in 0..TasksAhead] ==
          IF n = 0 THEN Undealt(bs) ELSE DispatchAll(pass[n - 1], InOrder(Procs(bs)))
    IN pass[TasksAhead]

Init ==
    /\ round = 1
    /\ batches = Batches
    /\ disp = Dealt(Batches)
    /\ openConns = Procs(Batches)
    /\ doneWorkers = {} /\ initFailed = {} /\ suspects = << >>
    /\ offering = Nothing /\ frames = << >>
    /\ worker = [w \in Procs(Batches) |-> "init"]
    /\ task = [w \in Procs(Batches) |-> NoTask]
    /\ outbox = [w \in Procs(Batches) |-> << >>]
    /\ pipe = [w \in Procs(Batches) |-> << >>]
    /\ received = {}
    /\ ingested = [f \in Files |-> 0]
    /\ errored = {}
    /\ lost = [died |-> {}, noworker |-> {}]
    /\ faults = MaxFaults
    /\ outcome = "run"

-----------------------------------------------------------------------------
(***************************************************************************)
(* The worker process: file_processing_worker.                             *)
(***************************************************************************)
Alive(w) == worker[w] \in {"init", "idle", "parsing", "queueing", "stopping"}
CanSend(w) == Len(pipe[w]) < PipeFrames
Send(w, frame) == pipe' = [pipe EXCEPT ![w] = Append(@, frame)]
Spend(kind) == faults[kind] > 0 /\ faults' = [faults EXCEPT ![kind] = @ - 1]

\* start_new_db succeeds.
WorkerInit(w) ==
    /\ worker[w] = "init"
    /\ worker' = [worker EXCEPT ![w] = "idle"]
    /\ UNCHANGED <<task, outbox, pipe, faults>>

\* start_new_db raises: the worker reports it and closes its pipe.
WorkerInitFails(w) ==
    /\ worker[w] = "init"
    /\ Spend("init")
    /\ Send(w, [tag |-> "INIT_FAILED"])
    /\ worker' = [worker EXCEPT ![w] = "exited"]
    /\ UNCHANGED <<task, outbox>>

\* _recv_task: a task, or the stop frame that ends the loop.
WorkerRecv(w) ==
    /\ worker[w] = "idle"
    /\ disp.tasks[w] # << >>
    /\ LET b == Head(disp.tasks[w]) IN
       /\ worker' = [worker EXCEPT ![w] = IF b = STOP THEN "stopping" ELSE "parsing"]
       /\ task' = [task EXCEPT ![w] = b]
    /\ disp' = [disp EXCEPT !.tasks[w] = Tail(@)]
    /\ UNCHANGED <<outbox, pipe, faults>>

Kills(b) == ToSet(batches[b]) \cap Killers # {}

\* Every file of the batch is parsed; the exception of one file is recorded
\* with the batch and the others go on.
WorkerParse(w) ==
    /\ worker[w] = "parsing" /\ ~Kills(task[w])
    /\ worker' = [worker EXCEPT ![w] = "queueing"]
    /\ UNCHANGED <<task, outbox, pipe, faults>>

\* The process is gone: what it had parsed and not sent goes with it, the
\* frames already in its pipe do not.
Dies(w) ==
    /\ worker' = [worker EXCEPT ![w] = "dead"]
    /\ task' = [task EXCEPT ![w] = NoTask]
    /\ outbox' = [outbox EXCEPT ![w] = << >>]
    /\ UNCHANGED pipe

\* A file of the batch takes the process down.
WorkerKilled(w) ==
    /\ worker[w] = "parsing" /\ Kills(task[w])
    /\ Dies(w)
    /\ UNCHANGED faults

\* worker_serialize_queue.put: blocks while the queue is full.
WorkerQueue(w) ==
    /\ worker[w] = "queueing"
    /\ Len(outbox[w]) < SerializeDepth
    /\ outbox' = [outbox EXCEPT ![w] = Append(@, task[w])]
    /\ task' = [task EXCEPT ![w] = NoTask]
    /\ worker' = [worker EXCEPT ![w] = "idle"]
    /\ UNCHANGED <<pipe, faults>>

\* _serializer_loop: one result frame, concurrently with the parsing thread.
SerializerSend(w) ==
    /\ Alive(w) /\ outbox[w] # << >> /\ CanSend(w)
    /\ Send(w, [tag |-> "RESULT", batch |-> Head(outbox[w])])
    /\ outbox' = [outbox EXCEPT ![w] = Tail(@)]
    /\ UNCHANGED <<worker, task, faults>>

\* After the stop frame: the serializer is joined, then the done frame is
\* sent and the pipe closed.
WorkerFinish(w) ==
    /\ worker[w] = "stopping"
    /\ outbox[w] = << >> /\ CanSend(w)
    /\ Send(w, [tag |-> "DONE"])
    /\ worker' = [worker EXCEPT ![w] = "exited"]
    /\ UNCHANGED <<task, outbox, faults>>

\* A signal kills the worker at any other time.
WorkerCrash(w) == Alive(w) /\ Spend("crash") /\ Dies(w)

ParserStep(w) ==
    \/ /\ \/ WorkerInit(w) \/ WorkerParse(w) \/ WorkerKilled(w)
          \/ WorkerQueue(w) \/ WorkerFinish(w)
       /\ UNCHANGED disp
    \/ WorkerRecv(w)

SerializerStep(w) == SerializerSend(w) /\ UNCHANGED disp

WorkerFault(w) == (WorkerInitFails(w) \/ WorkerCrash(w)) /\ UNCHANGED disp

\* The rest of a step of a worker process.
InWorker(w) ==
    /\ outcome = "run" /\ w \in Workers
    /\ UNCHANGED <<roundVars, openConns, doneWorkers, initFailed, suspects, offering,
                   frames, resultVars, outcome>>

-----------------------------------------------------------------------------
(***************************************************************************)
(* The reader thread: _reader_loop.                                        *)
(***************************************************************************)
CanRead(w) == offering = Nothing /\ w \in openConns /\ pipe[w] # << >>
Read(w) == pipe' = [pipe EXCEPT ![w] = Tail(@)]

ReadDone(w) ==
    /\ CanRead(w) /\ Head(pipe[w]).tag = "DONE"
    /\ Read(w)
    /\ doneWorkers' = doneWorkers \cup {w}
    /\ UNCHANGED <<disp, openConns, initFailed, suspects, offering, faults>>

ReadInitFailed(w) ==
    /\ CanRead(w) /\ Head(pipe[w]).tag = "INIT_FAILED"
    /\ Read(w)
    /\ initFailed' = initFailed \cup {w}
    /\ UNCHANGED <<disp, openConns, doneWorkers, suspects, offering, faults>>

\* Take the returned batch off the worker, keep the worker supplied, then
\* offer the result to the main thread.
ReadResult(w) ==
    /\ CanRead(w) /\ Head(pipe[w]).tag = "RESULT"
    /\ Read(w)
    /\ LET b == Head(pipe[w]).batch IN
       /\ disp' = Dispatch([disp EXCEPT !.assigned[w] = RemoveFirst(@, b)], w)
       /\ offering' = Head(pipe[w])
    /\ UNCHANGED <<openConns, doneWorkers, initFailed, suspects, faults>>

\* _decode_batch_result raises: the error is recorded, nothing is dispatched.
ReadUnreadable(w) ==
    /\ CanRead(w) /\ Head(pipe[w]).tag = "RESULT"
    /\ Spend("frame")
    /\ Read(w)
    /\ UNCHANGED readerVars

\* Mutant: the dead worker's list is not cleared.
GiveBack_KeepAssigned(d, w, unstarted) == [d EXCEPT !.pending = unstarted \o @]

\* The queued batches of a dead worker, back at the front of `pending`.
GiveBack(d, w, unstarted) ==
    [d EXCEPT !.pending = unstarted \o @, !.assigned[w] = << >>]

\* The survivors to top up.
BelowDepth(ws) == {o \in ws : Len(disp.assigned[o]) < TasksAhead}

\* EOF on a pipe: the worker exited or died and its last frame was read.
ReadEOF(w) ==
    /\ offering = Nothing /\ w \in openConns
    /\ pipe[w] = << >> /\ worker[w] \in {"exited", "dead"}
    /\ openConns' = openConns \ {w}
    /\ LET unreturned == disp.assigned[w]
           crashed    == w \notin doneWorkers /\ unreturned # << >>
           blame      == crashed /\ w \notin initFailed
           back       == GiveBack(disp, w, IF blame THEN Tail(unreturned) ELSE unreturned)
       IN /\ suspects' = IF blame THEN Append(suspects, Head(unreturned)) ELSE suspects
          /\ disp' = IF crashed THEN DispatchAll(back, InOrder(BelowDepth(openConns'))) ELSE disp
    /\ UNCHANGED <<pipe, doneWorkers, initFailed, offering, faults>>

ReaderStep(w) ==
    /\ outcome = "run"
    /\ \/ ReadDone(w) \/ ReadInitFailed(w) \/ ReadResult(w)
       \/ ReadUnreadable(w) \/ ReadEOF(w)
    /\ UNCHANGED <<roundVars, frames, workerVars, resultVars, outcome>>

\* _offer: blocks while PrefetchDepth results wait for the main thread. The
\* end marker follows once no connection is left.
ReaderOffer ==
    /\ outcome = "run" /\ Len(frames) < PrefetchDepth
    /\ \/ /\ offering \notin {Nothing, STAGE_END}
          /\ frames' = Append(frames, offering)
          /\ offering' = Nothing
       \/ /\ offering = Nothing /\ openConns = {}
          /\ frames' = Append(frames, STAGE_END)
          /\ offering' = STAGE_END
    /\ UNCHANGED <<roundVars, disp, openConns, doneWorkers, initFailed, suspects,
                   workerVars, pipe, resultVars, faults, outcome>>

-----------------------------------------------------------------------------
(***************************************************************************)
(* The main thread: decode and ingest, then the verdict on the round.      *)
(***************************************************************************)
\* frames.get() of a result.
TakeResult(b) ==
    /\ outcome = "run" /\ frames # << >> /\ Head(frames) # STAGE_END
    /\ b = Head(frames).batch
    /\ frames' = Tail(frames)
    /\ received' = received \cup {b}
    /\ UNCHANGED <<roundVars, readerVars, workerVars, pipe, lost, faults, outcome>>

Rejects(b) == ToSet(batches[b]) \cap Rejected # {}

Ingest(b) ==
    /\ TakeResult(b) /\ ~Rejects(b)
    /\ ingested' = [f \in Files |->
                      IF f \in ToSet(batches[b]) \ Faulty THEN ingested[f] + 1 ELSE ingested[f]]
    /\ errored' = errored \cup (ToSet(batches[b]) \cap Faulty)

\* pickle.loads raises, or the ingest callback does: the errors of the
\* batch are recorded and the stage goes on.
IngestFails(b) ==
    /\ TakeResult(b) /\ Rejects(b)
    /\ errored' = errored \cup ToSet(batches[b])
    /\ UNCHANGED ingested

\* The verdict once the end marker arrives.
Suspects == Those(suspects, 1..Len(batches) \ received)

\* Mutant: what was received is parsed again.
Unfinished_All == Those(UpTo(Len(batches)), 1..Len(batches) \ ToSet(Suspects))
\* Mutant: only what no worker was given.
Unfinished_Pending == disp.pending

Unfinished == Those(UpTo(Len(batches)), 1..Len(batches) \ (received \cup ToSet(Suspects)))
BatchesOf(ids) == [i \in DOMAIN ids |-> batches[ids[i]]]

OneFileEach(ids) ==
    LET fs == FlattenSeq(BatchesOf(ids)) IN [i \in DOMAIN fs |-> <<fs[i]>>]

RetryBatches ==
    (IF round = 1 THEN OneFileEach(Suspects) ELSE << >>) \o BatchesOf(Unfinished)

\* A retry round that got nowhere.
NoProgress == round > 1 /\ Suspects = << >> /\ received = {}

StageOver ==
    /\ outcome = "run" /\ frames # << >> /\ Head(frames) = STAGE_END

StageRaises ==
    /\ StageOver /\ initFailed = Workers
    /\ outcome' = "raised"
    /\ UNCHANGED <<roundVars, readerVars, frames, workerVars, pipe, resultVars, faults>>

Reported ==
    [died     |-> IF round = 1 THEN lost.died ELSE lost.died \cup FilesOf(BatchesOf(Suspects)),
     noworker |-> IF NoProgress THEN lost.noworker \cup FilesOf(BatchesOf(Unfinished))
                  ELSE lost.noworker]

StageReturns ==
    /\ StageOver /\ initFailed # Workers
    /\ RetryBatches = << >> \/ NoProgress
    /\ lost' = Reported
    /\ outcome' = "done"
    /\ UNCHANGED <<roundVars, readerVars, frames, workerVars, pipe, received, ingested,
                   errored, faults>>

StageRetries ==
    /\ StageOver /\ initFailed # Workers
    /\ RetryBatches # << >> /\ ~NoProgress
    /\ lost' = Reported
    /\ round' = round + 1
    /\ batches' = RetryBatches
    /\ disp' = Dealt(RetryBatches)
    /\ openConns' = Procs(RetryBatches)
    /\ doneWorkers' = {} /\ initFailed' = {} /\ suspects' = << >>
    /\ offering' = Nothing /\ frames' = << >>
    /\ worker' = [w \in Procs(RetryBatches) |-> "init"]
    /\ task' = [w \in Procs(RetryBatches) |-> NoTask]
    /\ outbox' = [w \in Procs(RetryBatches) |-> << >>]
    /\ pipe' = [w \in Procs(RetryBatches) |-> << >>]
    /\ received' = {}
    /\ UNCHANGED <<ingested, errored, faults, outcome>>

\* The execution deadline: the main thread stops reading, terminates the
\* workers and returns without a retry; the state of the call is gone.
DeadlineHit ==
    /\ DeadlineSet /\ outcome = "run"
    /\ frames = << >> \/ received # {}  \* checked on an empty queue and after a result
    /\ outcome' = IF initFailed = Workers THEN "raised" ELSE "deadline"
    /\ disp' = [pending |-> << >>, assigned |-> NoneEach, stopped |-> Workers, tasks |-> NoneEach]
    /\ openConns' = {} /\ doneWorkers' = {} /\ initFailed' = {} /\ suspects' = << >>
    /\ offering' = Nothing /\ frames' = << >>
    /\ worker' = [w \in Workers |-> "dead"] /\ task' = [w \in Workers |-> NoTask]
    /\ outbox' = NoneEach /\ pipe' = NoneEach /\ received' = {}
    /\ UNCHANGED <<roundVars, ingested, errored, lost, faults>>

\* The stage is over: nothing of it runs any more.
Finished == outcome # "run" /\ UNCHANGED vars

MainStep ==
    (\E b \in 1..Len(batches) : Ingest(b) \/ IngestFails(b)) \/ StageRaises \/ StageReturns \/ StageRetries

Next ==
    \/ \E w \in 1..NumWorkers :
          \/ InWorker(w) /\ (ParserStep(w) \/ SerializerStep(w) \/ WorkerFault(w))
          \/ ReaderStep(w)
    \/ ReaderOffer
    \/ MainStep
    \/ DeadlineHit
    \/ Finished

(***************************************************************************)
(* Threads and processes that are not killed run: while some thread of the *)
(* stage can take a step, one of them does. No fairness among the threads  *)
(* is needed. Faults and the deadline need never happen.                   *)
(***************************************************************************)
Progress ==
    \/ \E w \in 1..NumWorkers :
          \/ InWorker(w) /\ (ParserStep(w) \/ SerializerStep(w))
          \/ ReaderStep(w)
    \/ ReaderOffer
    \/ MainStep

Fairness == WF_vars(Progress)

Spec == Init /\ [][Next]_vars
FairSpec == Spec /\ Fairness

-----------------------------------------------------------------------------
(***************************************************************************)
(* Properties.                                                             *)
(***************************************************************************)
BatchIds == 1..Len(batches)
InFlight == {frames[i].batch : i \in {j \in DOMAIN frames : frames[j] # STAGE_END}}
            \cup (IF offering \in {Nothing, STAGE_END} THEN {} ELSE {offering.batch})
FilesLost == lost.died \cup lost.noworker

\* A batch is in one place only: waiting, with one worker, on its way to the
\* main thread, received, or blamed for a death. No batch is dropped by the
\* handling of a dead worker and none is given to two workers.
Custody ==
    LET places(b) ==
          Cardinality({i \in DOMAIN disp.pending : disp.pending[i] = b})
          + Cardinality({wi \in Workers \X (1..TasksAhead) :
                           /\ wi[2] \in DOMAIN disp.assigned[wi[1]]
                           /\ disp.assigned[wi[1]][wi[2]] = b})
          + Cardinality({i \in DOMAIN suspects : suspects[i] = b})
          + (IF b \in InFlight THEN 1 ELSE 0)
          + (IF b \in received THEN 1 ELSE 0)
    IN outcome = "run" => \A b \in BatchIds : places(b) = 1

\* No file is ingested twice, whatever dies and however often the lost batches
\* are parsed again, and the report about a lost file, "it was not ingested", is
\* true.
NoDoubleIngest == \A f \in Files : ingested[f] <= (IF f \in FilesLost THEN 0 ELSE 1)

\* When the stage returns, every file was ingested or has an error or a loss
\* reported: no file disappears silently.
AccountedFor ==
    outcome = "done" =>
        \A f \in FilesOf(Batches) : ingested[f] = 1 \/ f \in errored \/ f \in FilesLost

\* A living worker returned everything it was given and waits for a task,
\* while the parent still counts its batches as unreturned: every result it
\* had to give for them was unreadable, so nothing was dispatched in return.
Starved(w) ==
    /\ worker[w] = "idle" /\ disp.tasks[w] = << >> /\ w \notin disp.stopped
    /\ outbox[w] = << >> /\ pipe[w] = << >>
    /\ Len(disp.assigned[w]) = TasksAhead

\* The stage ends: nobody waits for ever on a dead worker, on a full queue or
\* on a pipe with nothing more to come, however many results are unreadable.
\* The one exception is a worker, not killed, that delivered as many of them as
\* its queue depth and is waited for.
Termination == <>(outcome # "run") \/ <>[](\E w \in Workers : Starved(w))
=============================================================================
