--------------------------- MODULE MailResolution ---------------------------
(***************************************************************************)
(* Linking commits to mailing-list mails through the remote query daemon:  *)
(* MailingListClient (src/parser/mailing_list/ml_client.py), one per       *)
(* parser process, and the daemon they share (ml_server.py).               *)
(*                                                                         *)
(* A client cuts its commits into chunks and posts one chunk at a time.    *)
(* The daemon admits a request when a slot is free and its memory is below *)
(* a soft limit, tries at least the first commit of it, and answers with   *)
(* what it tried and what it deferred.  The client halves, retries, defers *)
(* or drops chunks on refusals, errors and timeouts.  A daemon that passes *)
(* its hard memory limit exits; a client that finds none healthy launches  *)
(* one over ssh by a start-up script that a file lock serializes.          *)
(*                                                                         *)
(* The environment chooses when a daemon is short of memory, how far it    *)
(* gets with a chunk, which commits have a mail and when a timer fires.    *)
(***************************************************************************)
EXTENDS Integers, Sequences, SequencesExt, FiniteSets

CONSTANTS
    Client,             \* parser processes that resolve commits
    Work,               \* Work[c]: the commits client c was given, in order
    BatchSize,          \* mailing_list.batch_size
    MaxChunkAttempts,   \* MAX_CHUNK_ATTEMPTS
    StartAttempts,      \* DAEMON_START_ATTEMPTS
    MaxConcurrent,      \* request slots of a daemon
    MaxDaemons,         \* bound: daemon processes ever started
    AutoStart,          \* the clients configured with auto_start_daemon
    HoldCoversBoot      \* timing: a daemon listens before LOCK_HOLD_SECONDS end

ASSUME MailAssumption ==
    /\ BatchSize \in Nat \ {0} /\ MaxChunkAttempts \in Nat \ {0}
    /\ StartAttempts \in Nat \ {0} /\ MaxConcurrent \in Nat \ {0}
    /\ MaxDaemons \in Nat \ {0} /\ AutoStart \subseteq Client /\ HoldCoversBoot \in BOOLEAN
    /\ IsFiniteSet(Client)
    /\ \A c \in Client : Work[c] \in Seq(Range(Work[c])) /\ IsInjective(Work[c])

VARIABLES
    daemon,     \* daemon[d]: the processes: "none", "booting", "up" or "dead"
    outdated,   \* the daemons of an earlier DAEMON_VERSION
    slots,      \* free slots of the request_slots semaphore of the daemon that is up
    orphans,    \* its requests whose client has given up: waiting for a slot, running
    waiting,    \* start-up scripts that wait for the lock
    holder,     \* where the script that holds the lock is, or "free"
    pc,         \* where client c is
    starts,     \* launches of the start-up in progress
    queue,      \* chunks still to post: sequence of [commits, attempt]
    current,    \* the chunk in flight
    recovered,  \* client c has re-established a lost connection
    answered,   \* commits the daemon tried, with a mail in the results or none
    dropped     \* commits given up

clientVars == <<pc, starts, queue, current, recovered, answered, dropped>>
daemonVars == <<daemon, outdated, slots, orphans>>
scriptVars == <<waiting, holder>>
mailVars == <<daemonVars, scriptVars, clientVars>>

Daemon == 1..MaxDaemons
NoChunk == [commits |-> <<>>, attempt |-> 0]

Up == {d \in Daemon : daemon[d] = "up"}

\* What /health answers: some daemon listens and it has the client's DAEMON_VERSION.
Healthy == Up \ outdated # {}

Booting == {d \in Daemon : daemon[d] = "booting"}

(***************************************************************************)
(* The chunks of a sequence of commits, each of `size` but the last.       *)
(***************************************************************************)
Chunks(commits, size, attempt) ==
    [i \in 1..((Len(commits) + size - 1) \div size) |->
        [commits |-> SubSeq(commits, (i - 1) * size + 1,
                            IF i * size < Len(commits) THEN i * size ELSE Len(commits)),
         attempt |-> attempt]]

\* Mutant: the second half starts one commit too late.
Halves_SkipMiddle(chunk) ==
    LET mid == Len(chunk.commits) \div 2
    IN  << [chunk EXCEPT !.commits = SubSeq(@, 1, mid)],
           [chunk EXCEPT !.commits = SubSeq(@, mid + 2, Len(@))] >>

Halves(chunk) ==
    LET mid == Len(chunk.commits) \div 2
    IN  << [chunk EXCEPT !.commits = SubSeq(@, 1, mid)],
           [chunk EXCEPT !.commits = SubSeq(@, mid + 1, Len(@))] >>

MailInit ==
    /\ \/ daemon = [d \in Daemon |-> "none"] /\ outdated = {}
       \/ /\ daemon = [d \in Daemon |-> IF d = 1 THEN "up" ELSE "none"]
          /\ outdated \in {{}, {1}}
    /\ slots = MaxConcurrent
    /\ orphans = [waiting |-> 0, running |-> 0]
    /\ waiting = 0 /\ holder = "free"
    /\ pc = [c \in Client |-> "probe"]
    /\ starts = [c \in Client |-> 0]
    /\ queue = [c \in Client |-> Chunks(Work[c], BatchSize, 1)]
    /\ current = [c \in Client |-> NoChunk]
    /\ recovered = [c \in Client |-> FALSE]
    /\ answered = [c \in Client |-> {}]
    /\ dropped = [c \in Client |-> {}]

-----------------------------------------------------------------------------
(***************************************************************************)
(* Finding or launching a daemon                                           *)
(***************************************************************************)

\* ConnectionError: the call ends and what it had resolved goes with it.
Raise(c) ==
    /\ pc' = [pc EXCEPT ![c] = "failed"]
    /\ queue' = [queue EXCEPT ![c] = <<>>]
    /\ current' = [current EXCEPT ![c] = NoChunk]
    /\ answered' = [answered EXCEPT ![c] = {}]
    /\ dropped' = [dropped EXCEPT ![c] = {}]

\* A health check that succeeds, at once or after a launch.
FindHealthy(c) ==
    /\ pc[c] \in {"probe", "starting"} /\ Healthy
    /\ pc' = [pc EXCEPT ![c] = "post"]
    /\ starts' = [starts EXCEPT ![c] = 0]
    /\ UNCHANGED <<daemonVars, scriptVars, queue, current, recovered, answered, dropped>>

\* Nothing healthy, now or when an attempt's wait is over: launch the start-up
\* script, again if need be, or raise.
StartUp(c) ==
    /\ pc[c] = "probe" => ~Healthy
    /\ IF c \in AutoStart /\ starts[c] < StartAttempts
         THEN /\ pc' = [pc EXCEPT ![c] = "starting"]
              /\ starts' = [starts EXCEPT ![c] = @ + 1]
              /\ waiting' = waiting + 1
              /\ UNCHANGED <<queue, current, answered, dropped>>
         ELSE /\ Raise(c)
              /\ UNCHANGED <<starts, waiting>>
    /\ UNCHANGED <<daemonVars, holder, recovered>>

FindNone(c) == pc[c] = "probe" /\ StartUp(c)

StartTimesOut(c) == pc[c] = "starting" /\ StartUp(c)

\* flock -w LOCK_WAIT_SECONDS 9
TakeLock ==
    /\ waiting > 0 /\ holder = "free"
    /\ waiting' = waiting - 1
    /\ holder' = "locked"
    /\ UNCHANGED <<daemonVars, clientVars>>

LockTimesOut ==
    /\ waiting > 0 /\ holder # "free"
    /\ waiting' = waiting - 1
    /\ UNCHANGED <<holder, daemonVars, clientVars>>

\* Mutant: the script restarts the daemon without probing it again.
ProbeInLock_Skipped ==
    /\ holder = "locked"
    /\ holder' = "killing"
    /\ UNCHANGED <<waiting, daemonVars, clientVars>>

\* The health probe inside the lock: a healthy daemon ends the script.
ProbeInLock ==
    /\ holder = "locked"
    /\ holder' = IF Healthy THEN "free" ELSE "killing"
    /\ UNCHANGED <<waiting, daemonVars, clientVars>>

\* A daemon is gone, and with it its slots and the requests it was serving.
Gone(d) ==
    /\ daemon' = [daemon EXCEPT ![d] = "dead"]
    /\ slots' = MaxConcurrent
    /\ orphans' = [waiting |-> 0, running |-> 0]
    /\ pc' = [c \in Client |-> IF pc[c] \in {"sent", "served"} THEN "lost" ELSE pc[c]]
    /\ UNCHANGED <<outdated, starts, queue, current, recovered, answered, dropped>>

\* The process that owns the listening socket is killed.
KillListener ==
    /\ holder = "killing"
    /\ holder' = "draining"
    /\ IF Up = {} THEN UNCHANGED <<daemonVars, clientVars>> ELSE \E d \in Up : Gone(d)
    /\ UNCHANGED waiting

\* The socket is free: a daemon is launched without the lock's descriptor.
Launch ==
    /\ holder = "draining"
    /\ holder' = "holding"
    /\ \E d \in Daemon : /\ daemon[d] = "none"
                         /\ \A e \in 1..(d - 1) : daemon[e] # "none"
                         /\ daemon' = [daemon EXCEPT ![d] = "booting"]
    /\ UNCHANGED <<waiting, outdated, slots, orphans, clientVars>>

\* The script ends LOCK_HOLD_SECONDS after the launch and the lock is free.
Unlock ==
    /\ holder = "holding"
    /\ HoldCoversBoot => Booting = {}
    /\ holder' = "free"
    /\ UNCHANGED <<waiting, daemonVars, clientVars>>

\* run_server: the listen bind succeeds only when nothing else listens.
Bind(d) ==
    /\ daemon[d] = "booting" /\ Up = {}
    /\ daemon' = [daemon EXCEPT ![d] = "up"]
    /\ UNCHANGED <<outdated, slots, orphans, scriptVars, clientVars>>

\* BIND_RETRY_SECONDS are over, or the archive cannot be opened.
BootFails(d) ==
    /\ daemon[d] = "booting"
    /\ daemon' = [daemon EXCEPT ![d] = "dead"]
    /\ UNCHANGED <<outdated, slots, orphans, scriptVars, clientVars>>

\* MemoryGuard: the hard limit is passed, os._exit(3).
MemoryExit(d) ==
    /\ daemon[d] = "up"
    /\ Gone(d)
    /\ UNCHANGED scriptVars

-----------------------------------------------------------------------------
(***************************************************************************)
(* The daemon: admission and slots                                         *)
(***************************************************************************)
AdmitOrphan ==
    /\ orphans.waiting > 0 /\ slots > 0
    /\ slots' = slots - 1
    /\ orphans' = [waiting |-> orphans.waiting - 1, running |-> orphans.running + 1]
    /\ UNCHANGED <<daemon, outdated, scriptVars, clientVars>>

RefuseOrphan ==
    /\ orphans.waiting > 0
    /\ orphans' = [orphans EXCEPT !.waiting = @ - 1]
    /\ UNCHANGED <<daemon, outdated, slots, scriptVars, clientVars>>

FinishOrphan ==
    /\ orphans.running > 0
    /\ slots' = slots + 1
    /\ orphans' = [orphans EXCEPT !.running = @ - 1]
    /\ UNCHANGED <<daemon, outdated, scriptVars, clientVars>>

Admit(c) ==
    /\ pc[c] = "sent" /\ Up # {} /\ slots > 0
    /\ slots' = slots - 1
    /\ pc' = [pc EXCEPT ![c] = "served"]
    /\ UNCHANGED <<daemon, outdated, orphans, scriptVars, starts, queue, current, recovered, answered, dropped>>

-----------------------------------------------------------------------------
(***************************************************************************)
(* The client's loop over its chunks                                       *)
(***************************************************************************)
Post(c) ==
    /\ pc[c] = "post"
    /\ IF queue[c] = <<>>
         THEN /\ pc' = [pc EXCEPT ![c] = "done"]
              /\ UNCHANGED <<queue, current>>
         ELSE /\ pc' = [pc EXCEPT ![c] = "sent"]
              /\ current' = [current EXCEPT ![c] = Head(queue[c])]
              /\ queue' = [queue EXCEPT ![c] = Tail(@)]
    /\ UNCHANGED <<daemonVars, scriptVars, starts, recovered, answered, dropped>>

\* The client leaves the chunk in flight and goes on with `chunks` first.
GoOn(c, chunks) ==
    /\ queue' = [queue EXCEPT ![c] = chunks \o @]
    /\ current' = [current EXCEPT ![c] = NoChunk]
    /\ pc' = [pc EXCEPT ![c] = "post"]

DropChunk(c) == dropped' = [dropped EXCEPT ![c] = @ \cup Range(current[c].commits)]

\* Mutant: the slot is released on every path, admitted or not.
ReleaseSlot_Always(c) == slots' = slots + 1

ReleaseSlot(c) == slots' = IF pc[c] = "served" THEN slots + 1 ELSE slots

\* resolve_batch_until stops between two commits, never before the first, when
\* the time budget is used up or memory is above the soft limit.
Stops(chunk) == 1..Len(chunk.commits)
Tried(chunk, n) == SubSeq(chunk.commits, 1, n)
Deferred(chunk, n) == SubSeq(chunk.commits, n + 1, Len(chunk.commits))

\* What the daemon deferred goes back to the queue, in smaller chunks.
Requeue(chunk, deferred) ==
    LET half == (IF Len(deferred) < BatchSize THEN Len(deferred) ELSE BatchSize) \div 2
    IN  Chunks(deferred, IF half > 1 THEN half ELSE 1, chunk.attempt + 1)

\* A 200 with results and pending commits.
Answer(c) ==
    LET chunk == current[c]
    IN  \E n \in Stops(chunk) :
        /\ pc[c] = "served" /\ Up # {}
        /\ ReleaseSlot(c)
        /\ answered' = [answered EXCEPT ![c] = @ \cup Range(Tried(chunk, n))]
        /\ IF chunk.attempt < MaxChunkAttempts
             THEN GoOn(c, Requeue(chunk, Deferred(chunk, n))) /\ UNCHANGED dropped
             ELSE /\ dropped' = [dropped EXCEPT ![c] = @ \cup Range(Deferred(chunk, n))]
                  /\ GoOn(c, <<>>)
        /\ UNCHANGED <<daemon, outdated, orphans, scriptVars, starts, recovered>>

\* Mutant: a refused commit is retried without counting the attempt.
Backpressure_Forever(c) ==
    LET chunk == current[c]
    IN  /\ pc[c] \in {"sent", "served"} /\ Up # {}
        /\ ReleaseSlot(c)
        /\ IF Len(chunk.commits) > 1
             THEN GoOn(c, Halves(chunk)) /\ UNCHANGED dropped
             ELSE GoOn(c, <<chunk>>) /\ UNCHANGED dropped
        /\ UNCHANGED <<daemon, outdated, orphans, scriptVars, starts, recovered, answered>>

\* 503: memory above the soft limit or no slot at admission, or a MemoryError later.
Backpressure(c) ==
    LET chunk == current[c]
    IN  /\ pc[c] \in {"sent", "served"} /\ Up # {}
        /\ ReleaseSlot(c)
        /\ IF Len(chunk.commits) > 1
             THEN GoOn(c, Halves(chunk)) /\ UNCHANGED dropped
           ELSE IF chunk.attempt < MaxChunkAttempts
             THEN GoOn(c, <<[chunk EXCEPT !.attempt = @ + 1]>>) /\ UNCHANGED dropped
           ELSE GoOn(c, <<>>) /\ DropChunk(c)
        /\ UNCHANGED <<daemon, outdated, orphans, scriptVars, starts, recovered, answered>>

\* Any other HTTP error: the chunk is halved until the failing commit is alone.
ServerError(c) ==
    LET chunk == current[c]
    IN  /\ pc[c] = "served" /\ Up # {}
        /\ ReleaseSlot(c)
        /\ IF Len(chunk.commits) > 1
             THEN GoOn(c, Halves(chunk)) /\ UNCHANGED dropped
             ELSE GoOn(c, <<>>) /\ DropChunk(c)
        /\ UNCHANGED <<daemon, outdated, orphans, scriptVars, starts, recovered, answered>>

\* The daemon that had the request is gone, or none listens.  The first loss of
\* the call re-establishes a daemon and posts the chunk again, a later one raises.
ConnectionLost(c) ==
    /\ pc[c] = "lost" \/ (pc[c] = "sent" /\ Up = {})
    /\ IF ~recovered[c] /\ c \in AutoStart
         THEN /\ recovered' = [recovered EXCEPT ![c] = TRUE]
              /\ queue' = [queue EXCEPT ![c] = <<current[c]>> \o @]
              /\ current' = [current EXCEPT ![c] = NoChunk]
              /\ pc' = [pc EXCEPT ![c] = "probe"]
              /\ UNCHANGED <<answered, dropped>>
         ELSE Raise(c) /\ UNCHANGED recovered
    /\ UNCHANGED <<daemonVars, scriptVars, starts>>

\* The socket timeout fires; what the daemon still does for the request is an orphan.
SocketTimeout(c) ==
    LET chunk == current[c]
    IN  /\ pc[c] \in {"sent", "served"} /\ Up # {}
        /\ orphans' = IF pc[c] = "served"
                        THEN [orphans EXCEPT !.running = @ + 1]
                        ELSE [orphans EXCEPT !.waiting = @ + 1]
        /\ IF Len(chunk.commits) > 1
             THEN GoOn(c, Halves(chunk)) /\ UNCHANGED <<answered, dropped>>
           ELSE IF Healthy
             THEN GoOn(c, <<>>) /\ DropChunk(c) /\ UNCHANGED answered
           ELSE Raise(c)
        /\ UNCHANGED <<daemon, outdated, slots, scriptVars, starts, recovered>>

-----------------------------------------------------------------------------
ClientStep(c) ==
    \/ FindHealthy(c) \/ FindNone(c) \/ StartTimesOut(c)
    \/ Post(c) \/ Answer(c) \/ Backpressure(c) \/ ServerError(c)
    \/ ConnectionLost(c) \/ SocketTimeout(c)

ScriptStep ==
    \/ TakeLock \/ LockTimesOut \/ ProbeInLock
    \/ KillListener \/ Launch \/ Unlock

MailNext ==
    \/ \E c \in Client : ClientStep(c) \/ Admit(c)
    \/ ScriptStep
    \/ \E d \in Daemon : Bind(d) \/ BootFails(d) \/ MemoryExit(d)
    \/ AdmitOrphan \/ RefuseOrphan \/ FinishOrphan

MailSpec == MailInit /\ [][MailNext]_mailVars

\* Every wait of a client is bounded by a timer of its own.
MailFairSpec == MailSpec /\ \A c \in Client : WF_mailVars(ClientStep(c))

-----------------------------------------------------------------------------
(***************************************************************************)
(* Properties                                                              *)
(***************************************************************************)
\* The places of k in the chunks still to post.
Posted(c, k) ==
    UNION {{<<i, j>> : j \in {m \in DOMAIN queue[c][i].commits : queue[c][i].commits[m] = k}} : i \in DOMAIN queue[c]}

Times(c, k) ==
    Cardinality(Posted(c, k))
    + Cardinality({i \in 1..3 : k \in <<Range(current[c].commits), answered[c], dropped[c]>>[i]})

\* Through every halving, deferral, retry and loss, each commit a client was given
\* is in exactly one place: once in a chunk, or answered, or dropped with a warning
\* (the queue of resolve_commits).
EachCommitOnce ==
    \A c \in Client : pc[c] # "failed" => \A k \in Range(Work[c]) : Times(c, k) = 1

\* Whatever is refused, abandoned, failed or killed, the semaphore counts exactly
\* the requests that run in the daemon (_admit and _finish_heavy): a slot leaked
\* by one path would end in a daemon that refuses everyone.
SlotsAreRequests ==
    slots + orphans.running + Cardinality({c \in Client : pc[c] = "served"}) = MaxConcurrent

\* A start-up script never kills a healthy daemon, so no client tears down the
\* queries of another (the lock, the probe inside it and the hold after a launch).
HealthyNotKilled ==
    [][ (holder = "killing" /\ holder' = "draining")
            => \A d \in Up \ outdated : daemon'[d] = "up" ]_mailVars

\* resolve_commits returns or raises, whatever the daemon does: no chunk is
\* retried for ever.
ClientsFinish == \A c \in Client : <>(pc[c] \in {"done", "failed"})
=============================================================================
