---------------------------- MODULE ConnectionPool ----------------------------
(***************************************************************************)
(* The database connections of the web back end (database/pool.py): a      *)
(* bounded pool opened on demand, replaced by a new one when a connection  *)
(* cannot be made, and shared by the threads that serve requests.          *)
(*                                                                         *)
(* A thread is one request: get_db_cursor() from its first look at _POOL   *)
(* to the release of its connection. Each `with self._cond` block is one   *)
(* step, _POOL_LOCK is held over several. Connections are counted, not     *)
(* named. The database may go away and come back at any time. A request    *)
(* is "done" with its result or with an exception.                         *)
(***************************************************************************)
EXTENDS Naturals, Sequences, FiniteSets, SequencesExt

CONSTANTS
    Requests,    \* the requests
    Size,        \* connections of a pool (POOL_SIZE)
    MaxRetries,  \* max_retries of get_pooled_connection
    MaxDrops     \* bound on how often the database goes away

ASSUME PoolAssumptions ==
    /\ Size \in Nat \ {0} /\ MaxRetries \in Nat \ {0} /\ MaxDrops \in Nat
    /\ IsFiniteSet(Requests) /\ "nobody" \notin Requests

NoPool == 0     \* _POOL is None; a pool is its index in `pools`
Nobody == "nobody"

VARIABLES
    pools,     \* every pool built so far: _closed, _idle and _open (counts), and who waits on _cond
    current,   \* _POOL
    lock,      \* who holds _POOL_LOCK
    pc,        \* per request: what it does next
    mine,      \* per request: `pool`
    failures,  \* per request: `failures`
    dropping,  \* per request: idle connections it took out in close()
    up, drops  \* the database, and how often it may still go away

requestVars == <<mine, failures, dropping>>
databaseVars == <<up, drops>>
vars == <<pools, current, lock, pc, requestVars, databaseVars>>

Init ==
    /\ pools = << >> /\ current = NoPool /\ lock = Nobody
    /\ pc = [r \in Requests |-> "look"]
    /\ mine = [r \in Requests |-> NoPool]
    /\ failures = [r \in Requests |-> 0]
    /\ dropping = [r \in Requests |-> 0]
    /\ up = TRUE /\ drops = MaxDrops

GoTo(r, label) == pc' = [pc EXCEPT ![r] = label]
OfMine(r) == pools[mine[r]]

-----------------------------------------------------------------------------
(***************************************************************************)
(* get_db_pool, _create_pool.                                              *)
(***************************************************************************)
Use(r, p) == mine' = [mine EXCEPT ![r] = p]

\* The first look is without the lock. No thread switch falls between its two
\* reads of _POOL: CPython switches at calls and backward jumps.
FindPool(r) ==
    /\ pc[r] = "look" /\ current # NoPool
    /\ Use(r, current) /\ GoTo(r, "acquire")
    /\ UNCHANGED <<pools, current, lock, failures, dropping, databaseVars>>

NoPoolYet(r) ==
    /\ pc[r] = "look" /\ current = NoPool
    /\ GoTo(r, "create")
    /\ UNCHANGED <<pools, current, lock, requestVars, databaseVars>>

\* The second look is with it.
CreatedMeanwhile(r) ==
    /\ pc[r] = "create" /\ lock = Nobody /\ current # NoPool
    /\ Use(r, current) /\ GoTo(r, "acquire")
    /\ UNCHANGED <<pools, current, lock, failures, dropping, databaseVars>>

StartCreation(r) ==
    /\ pc[r] = "create" /\ lock = Nobody /\ current = NoPool
    /\ lock' = r /\ GoTo(r, "check")
    /\ UNCHANGED <<pools, current, requestVars, databaseVars>>

\* The new pool is checked with one connection, which stays idle in it.
CreatePool(r) ==
    /\ pc[r] = "check" /\ up
    /\ pools' = Append(pools, [closed |-> FALSE, idle |-> 1, open |-> 1, waiters |-> << >>])
    /\ current' = Len(pools')
    /\ Use(r, current') /\ GoTo(r, "acquire")
    /\ lock' = Nobody
    /\ UNCHANGED <<failures, dropping, databaseVars>>

\* Mutant: the lock outlives the exception.
CreationFails_KeepLock(r) ==
    /\ pc[r] = "check" /\ ~up
    /\ GoTo(r, "done")
    /\ UNCHANGED <<pools, current, lock, requestVars, databaseVars>>

\* The check raises: so does the request, also one that was going to retry.
CreationFails(r) ==
    /\ pc[r] = "check" /\ ~up
    /\ GoTo(r, "done")
    /\ lock' = Nobody
    /\ UNCHANGED <<pools, current, requestVars, databaseVars>>

-----------------------------------------------------------------------------
(***************************************************************************)
(* ConnectionPool.acquire.                                                 *)
(***************************************************************************)
Entering == {"acquire", "woken", "late"}   \* about to enter the loop's critical section
Room(p) == p.idle > 0 \/ p.open < Size

\* A thread that wakes up by itself leaves the waiters when it has the lock.
Left(p, r) == [p EXCEPT !.waiters = RemoveFirst(@, r)]
SetMine(r, p) == pools' = [pools EXCEPT ![mine[r]] = p]

PoolIsClosed(r) ==
    /\ pc[r] \in Entering /\ OfMine(r).closed
    /\ SetMine(r, Left(OfMine(r), r))
    /\ GoTo(r, "done")
    /\ UNCHANGED <<current, lock, requestVars, databaseVars>>

TakeIdle(r) ==
    /\ pc[r] \in Entering /\ ~OfMine(r).closed /\ OfMine(r).idle > 0
    /\ SetMine(r, [Left(OfMine(r), r) EXCEPT !.idle = @ - 1])
    /\ GoTo(r, "use")
    /\ UNCHANGED <<current, lock, requestVars, databaseVars>>

OpenNew(r) ==
    /\ pc[r] \in Entering /\ ~OfMine(r).closed /\ OfMine(r).idle = 0 /\ OfMine(r).open < Size
    /\ SetMine(r, [Left(OfMine(r), r) EXCEPT !.open = @ + 1])
    /\ GoTo(r, "connect")
    /\ UNCHANGED <<current, lock, requestVars, databaseVars>>

\* _cond.wait while every connection is lent.
Wait(r) ==
    /\ pc[r] \in {"acquire", "woken"} /\ ~OfMine(r).closed /\ ~Room(OfMine(r))
    /\ SetMine(r, [OfMine(r) EXCEPT !.waiters = Append(@, r)])
    /\ GoTo(r, "asleep")
    /\ UNCHANGED <<current, lock, requestVars, databaseVars>>

\* POOL_WAIT_S are over. The thread stays among the waiters until it has the lock.
WaitEnds(r) ==
    /\ pc[r] = "asleep"
    /\ GoTo(r, "late")
    /\ UNCHANGED <<pools, current, lock, requestVars, databaseVars>>

\* "pool exhausted": the time is over (a woken thread may find that, too).
Exhausted(r) ==
    /\ pc[r] \in {"woken", "late"} /\ ~OfMine(r).closed /\ ~Room(OfMine(r))
    /\ SetMine(r, Left(OfMine(r), r))
    /\ GoTo(r, "done")
    /\ UNCHANGED <<current, lock, requestVars, databaseVars>>

-----------------------------------------------------------------------------
(***************************************************************************)
(* Connections that come back: release, _forget and close.                 *)
(***************************************************************************)
\* _cond.notify: the thread that waits longest, if there is one, also when its
\* time is over and it has not left yet. The request itself goes on at `label`.
NotifyAndGoTo(r, waiters, label) ==
    pc' = [[q \in Requests |->
              IF waiters # << >> /\ q = Head(waiters) /\ pc[q] = "asleep" THEN "woken" ELSE pc[q]]
           EXCEPT ![r] = label]

Notified(p) == [p EXCEPT !.waiters = IF @ = << >> THEN @ ELSE Tail(@)]

\* Mutant: nobody hears of the room.
Forget_Silent(r, label) ==
    /\ SetMine(r, [OfMine(r) EXCEPT !.open = @ - 1])
    /\ GoTo(r, label)

\* _forget: the connection is gone, there is room for another.
Forget(r, label) ==
    /\ SetMine(r, [Notified(OfMine(r)) EXCEPT !.open = @ - 1])
    /\ NotifyAndGoTo(r, OfMine(r).waiters, label)

Connect(r) ==
    /\ pc[r] = "connect" /\ up
    /\ GoTo(r, "use")
    /\ UNCHANGED <<pools, current, lock, requestVars, databaseVars>>

\* get_pooled_connection resets the pool, unless the request failed too often.
ConnectFails(r) ==
    /\ pc[r] = "connect" /\ ~up
    /\ failures' = [failures EXCEPT ![r] = @ + 1]
    /\ Forget(r, IF failures'[r] >= MaxRetries THEN "done" ELSE "reset")
    /\ UNCHANGED <<current, lock, mine, dropping, databaseVars>>

\* Mutant: a closed pool takes connections back.
GiveBack_Closed(r) ==
    /\ pc[r] = "use"
    /\ SetMine(r, [Notified(OfMine(r)) EXCEPT !.idle = @ + 1])
    /\ NotifyAndGoTo(r, OfMine(r).waiters, "done")

\* release of a connection that works, whatever became of the request.
GiveBack(r) ==
    /\ pc[r] = "use"
    /\ IF OfMine(r).closed THEN Forget(r, "done")
       ELSE /\ SetMine(r, [Notified(OfMine(r)) EXCEPT !.idle = @ + 1])
            /\ NotifyAndGoTo(r, OfMine(r).waiters, "done")

\* release of a broken one: the connection failed, or a result cannot be drained.
GiveBackBroken(r) == pc[r] = "use" /\ Forget(r, "done")

Release(r) ==
    /\ GiveBack(r) \/ GiveBackBroken(r)
    /\ UNCHANGED <<current, lock, requestVars, databaseVars>>

\* Mutant: whatever pool there is goes.
Detach_Any(r) ==
    /\ pc[r] = "reset" /\ lock = Nobody
    /\ current' = NoPool
    /\ GoTo(r, "close")
    /\ UNCHANGED <<pools, lock, requestVars, databaseVars>>

\* The pool that failed is not handed out any more. Another request may have
\* replaced it already.
Detach(r) ==
    /\ pc[r] = "reset" /\ lock = Nobody
    /\ current' = IF current = mine[r] THEN NoPool ELSE current
    /\ GoTo(r, "close")
    /\ UNCHANGED <<pools, lock, requestVars, databaseVars>>

\* close: the flag and the idle connections in one block ...
ClosePool(r) ==
    /\ pc[r] = "close"
    /\ SetMine(r, [OfMine(r) EXCEPT !.closed = TRUE, !.idle = 0])
    /\ dropping' = [dropping EXCEPT ![r] = OfMine(r).idle]
    /\ GoTo(r, "drop")
    /\ UNCHANGED <<current, lock, mine, failures, databaseVars>>

\* ... then they are closed one by one.
DropIdle(r) ==
    /\ pc[r] = "drop" /\ dropping[r] > 0
    /\ Forget(r, "drop")
    /\ dropping' = [dropping EXCEPT ![r] = @ - 1]
    /\ UNCHANGED <<current, lock, mine, failures, databaseVars>>

\* After a pause the request starts again.
TryAgain(r) ==
    /\ pc[r] = "drop" /\ dropping[r] = 0
    /\ GoTo(r, "look")
    /\ UNCHANGED <<pools, current, lock, requestVars, databaseVars>>

-----------------------------------------------------------------------------
\* The database server or the tunnel goes away and comes back.
DatabaseChanges ==
    /\ up' = ~up
    /\ up => drops > 0
    /\ drops' = IF up THEN drops - 1 ELSE drops
    /\ UNCHANGED <<pools, current, lock, pc, requestVars>>

Over(r) == pc[r] = "done"
AllOver == (\A r \in Requests : Over(r)) /\ UNCHANGED vars

RequestStep(r) ==
    \/ FindPool(r) \/ NoPoolYet(r) \/ CreatedMeanwhile(r)
    \/ StartCreation(r) \/ CreatePool(r) \/ CreationFails(r)
    \/ PoolIsClosed(r) \/ TakeIdle(r) \/ OpenNew(r) \/ Wait(r) \/ WaitEnds(r) \/ Exhausted(r)
    \/ Connect(r) \/ ConnectFails(r) \/ Release(r)
    \/ Detach(r) \/ ClosePool(r) \/ DropIdle(r) \/ TryAgain(r)

Next == (\E r \in Requests : RequestStep(r)) \/ DatabaseChanges \/ AllOver

Spec == Init /\ [][Next]_vars

(***************************************************************************)
(* Threads run, connection attempts and queries come to an end, and so     *)
(* does POOL_WAIT_S. The database need not come back.                      *)
(***************************************************************************)
FairSpec == Spec /\ \A r \in Requests : WF_vars(RequestStep(r))

-----------------------------------------------------------------------------
(***************************************************************************)
(* Properties.                                                             *)
(***************************************************************************)
PoolIds == 1..Len(pools)
At(p, labels) == {r \in Requests : mine[r] = p /\ pc[r] \in labels}

\* The connections taken out of the pool by close() that it has not closed yet.
Doomed(p) == {x \in At(p, {"drop"}) \X (1..Size) : x[2] <= dropping[x[1]]}

\* `_open` is the number of connections of the pool, in whatever hands, through
\* failed connects, broken connections and a close in between: it never exceeds
\* the size, and never keeps counting one that is gone (which would shrink the
\* pool for good). A closed pool keeps no idle connection.
CountsConnections ==
    \A p \in PoolIds :
        /\ pools[p].open = pools[p].idle + Cardinality(At(p, {"connect", "use"})) + Cardinality(Doomed(p))
        /\ pools[p].open <= Size
        /\ pools[p].closed => pools[p].idle = 0

\* No lost wake-up: while a request sleeps on an open pool, every free place is
\* one that a request already woken is about to look at.
NoLostWakeup ==
    \A p \in PoolIds :
        ~pools[p].closed /\ At(p, {"asleep"}) # {} =>
            pools[p].idle + (Size - pools[p].open) <= Cardinality(At(p, {"woken", "late"}))

\* At most one pool is in use: any other is closed, or somebody is about to
\* close it. No reset strands a pool with its connections.
NoPoolStranded ==
    \A p \in PoolIds : p = current \/ pools[p].closed \/ At(p, {"close"}) # {}

\* Every request gets its result or an exception, whatever the database does:
\* none waits for ever for _POOL_LOCK, for a connection, or for a pool that was
\* replaced.
EveryRequestEnds == <>(\A r \in Requests : Over(r))
=============================================================================
