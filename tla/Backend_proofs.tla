----------------------------- MODULE Backend_proofs -----------------------------
(***************************************************************************)
(* Proofs about the web back end: the connections its requests share, and  *)
(* the tokens by which the browser and the caches follow the database. The *)
(* two do not meet.                                                        *)
(***************************************************************************)
EXTENDS ConnectionPool, SyncCaches, QueueLemmas, FiniteSetTheorems, TLAPS

-----------------------------------------------------------------------------
(***************************************************************************)
(* ConnectionPool: the inductive invariants and what follows, for any      *)
(* number of requests and connections.                                     *)
(***************************************************************************)
USE PoolAssumptions DEF NoPool, Nobody

-----------------------------------------------------------------------------
(***************************************************************************)
(* The base: types, who waits, the lock, and no stranded pool.             *)
(***************************************************************************)
Labels == {"look", "create", "check", "acquire", "woken", "late", "asleep", "connect", "use",
           "reset", "close", "drop", "done"}
PoolStates == [closed : BOOLEAN, idle : Nat, open : Int, waiters : Seq(Requests)]

PoolTypes ==
    /\ pools \in Seq(PoolStates)
    /\ current \in 0..Len(pools)
    /\ pc \in [Requests -> Labels]
    /\ mine \in [Requests -> 0..Len(pools)]
    /\ failures \in [Requests -> Nat]
    /\ dropping \in [Requests -> Nat]

\* Whoever is past get_db_pool has a pool.
HasPool == \A r \in Requests : pc[r] \notin {"look", "create", "check", "done"} => mine[r] \in PoolIds

\* A pool is only made while _POOL_LOCK is held and there is none.
LockHeld == \A r \in Requests : pc[r] = "check" => lock = r /\ current = NoPool

\* Who waits on _cond: each sleeper once, and some whose time is over.
W(p) == Range(pools[p].waiters)

WaitersInv ==
    \A p \in PoolIds :
        /\ IsInjective(pools[p].waiters)
        /\ \A q \in W(p) : mine[q] = p /\ pc[q] \in {"asleep", "late"}
        /\ \A q \in At(p, {"asleep"}) : q \in W(p)

Base == PoolTypes /\ HasPool /\ LockHeld /\ WaitersInv /\ NoPoolStranded

LEMMA InitBase == Init => Base
<1> SUFFICES ASSUME Init PROVE Base
  OBVIOUS
<1> USE DEF Init
<1>1. Len(pools) = 0 /\ pools \in Seq(PoolStates)
  OBVIOUS
<1>2. PoolTypes
  BY <1>1 DEF PoolTypes, Labels
<1>3. PoolIds = {}
  BY <1>1 DEF PoolIds
<1>4. QED
  BY <1>2, <1>3 DEF Base, HasPool, LockHeld, WaitersInv, NoPoolStranded

\* What a step of r on its own pool leaves alone.
OnMine(r, x) ==
    /\ mine[r] \in PoolIds /\ x \in PoolStates
    /\ pools' = [pools EXCEPT ![mine[r]] = x]

LEMMA OnMineFacts ==
    ASSUME PoolTypes, NEW r \in Requests, NEW x, OnMine(r, x)
    PROVE  /\ pools' \in Seq(PoolStates) /\ Len(pools') = Len(pools) /\ PoolIds' = PoolIds
           /\ pools'[mine[r]] = x
           /\ \A p \in PoolIds \ {mine[r]} : pools'[p] = pools[p]
BY DEF OnMine, PoolTypes, PoolIds

LEMMA WaiterFacts ==
    ASSUME Base, NEW p \in PoolIds
    PROVE  /\ pools[p] \in PoolStates /\ pools[p].waiters \in Seq(Requests) /\ IsInjective(pools[p].waiters)
           /\ \A q \in W(p) : q \in Requests /\ mine[q] = p /\ pc[q] \in {"asleep", "late"}
<1>1. pools[p] \in PoolStates
  BY DEF Base, PoolTypes, PoolIds
<1>2. pools[p].waiters \in Seq(Requests)
  BY <1>1 DEF PoolStates
<1>3. W(p) \subseteq Requests
  BY <1>2 DEF W, Range
<1>4. QED
  BY <1>1, <1>2, <1>3 DEF Base, WaitersInv

\* r enters and does not wait (again).
LEMMA LeaveBase ==
    ASSUME Base, NEW r \in Requests, pc[r] \in Entering,
           NEW label \in {"use", "connect", "done"}, NEW x, OnMine(r, x),
           x.waiters = RemoveFirst(OfMine(r).waiters, r), x.closed = OfMine(r).closed,
           GoTo(r, label), UNCHANGED <<current, lock, requestVars>>
    PROVE  Base'
<1> DEFINE m == mine[r]
<1> USE DEF Base, GoTo, requestVars
<1>1. /\ pools' \in Seq(PoolStates) /\ Len(pools') = Len(pools) /\ PoolIds' = PoolIds
      /\ pools'[m] = x /\ \A p \in PoolIds \ {m} : pools'[p] = pools[p]
  BY OnMineFacts
<1>2. m \in PoolIds /\ pools[m] \in PoolStates
  BY DEF OnMine, PoolTypes, PoolIds
<1>3. W(m)' = W(m) \ {r} /\ IsInjective(x.waiters) /\ x.closed = pools[m].closed
  <2>1. pools[m].waiters \in Seq(Requests) /\ IsInjective(pools[m].waiters)
    BY <1>2, WaiterFacts
  <2>2. x.waiters = RemoveFirst(pools[m].waiters, r) /\ x.closed = pools[m].closed
    BY DEF OfMine
  <2>3. IsInjective(x.waiters) /\ Range(x.waiters) = Range(pools[m].waiters) \ {r}
    BY <2>1, <2>2, Removed
  <2>4. QED
    BY <1>1, <2>2, <2>3 DEF W
<1>4. PoolTypes'
  BY <1>1 DEF PoolTypes, Labels
<1>5. HasPool'
  BY <1>1, <1>2 DEF HasPool, PoolTypes
<1>6. LockHeld'
  BY <1>4 DEF LockHeld, PoolTypes
<1>7. WaitersInv'
  <2>1. ASSUME NEW p \in PoolIds, p # m
        PROVE  /\ pools'[p] = pools[p] /\ W(p)' = W(p) /\ r \notin W(p)
               /\ \A q \in W(p) : mine'[q] = p /\ pc'[q] \in {"asleep", "late"}
    <3>1. pools'[p] = pools[p] /\ W(p)' = W(p)
      BY <1>1, <2>1 DEF W
    <3>2. \A q \in W(p) : q \in Requests /\ mine[q] = p /\ pc[q] \in {"asleep", "late"}
      BY WaiterFacts
    <3>3. QED
      BY <2>1, <3>1, <3>2 DEF PoolTypes
  <2>2. \A q \in W(m) \ {r} : mine'[q] = m /\ pc'[q] \in {"asleep", "late"}
    <3>1. \A q \in W(m) : q \in Requests /\ mine[q] = m /\ pc[q] \in {"asleep", "late"}
      BY <1>2, WaiterFacts
    <3>2. QED
      BY <3>1 DEF PoolTypes
  <2>3. \A p \in PoolIds : At(p, {"asleep"})' = At(p, {"asleep"}) \ {r}
    BY DEF At, PoolTypes
  <2>4. QED
    BY <1>1, <1>3, <2>1, <2>2, <2>3 DEF WaitersInv
<1>8. NoPoolStranded'
  <2>1. \A p \in PoolIds : At(p, {"close"})' = At(p, {"close"})
    BY DEF At, PoolTypes, Entering
  <2>2. QED
    BY <1>1, <1>3, <2>1 DEF NoPoolStranded
<1>9. QED
  BY <1>4, <1>5, <1>6, <1>7, <1>8

\* r goes to sleep.
LEMMA WaitBase == ASSUME Base, NEW r \in Requests, Wait(r) PROVE Base'
<1> DEFINE m == mine[r]
           x == [pools[m] EXCEPT !.waiters = Append(@, r)]
<1> USE DEF Base, GoTo, requestVars
<1>2. m \in PoolIds /\ pools[m] \in PoolStates
  <2>1. pc[r] \in {"acquire", "woken"} /\ mine[r] \in 0..Len(pools)
    BY DEF Wait, PoolTypes
  <2>2. m \in PoolIds
    BY <2>1 DEF HasPool
  <2>3. QED
    BY <2>2, WaiterFacts
<1>10. x \in PoolStates /\ x.waiters = Append(pools[m].waiters, r) /\ x.closed = pools[m].closed
  <2>1. pools[m].waiters \in Seq(Requests)
    BY <1>2 DEF PoolStates
  <2>2. Append(pools[m].waiters, r) \in Seq(Requests)
    BY <2>1
  <2>3. QED
    BY <1>2, <2>2 DEF PoolStates
<1>11. /\ OnMine(r, x) /\ UNCHANGED <<current, lock, mine, failures, dropping>>
       /\ pc' = [pc EXCEPT ![r] = "asleep"] /\ pc[r] \in {"acquire", "woken"}
  BY <1>2, <1>10 DEF OnMine, Wait, SetMine, OfMine
<1> HIDE DEF x
<1>1. /\ pools' \in Seq(PoolStates) /\ Len(pools') = Len(pools) /\ PoolIds' = PoolIds
      /\ pools'[m] = x /\ \A p \in PoolIds \ {m} : pools'[p] = pools[p]
  BY <1>11, OnMineFacts
<1>12. \A p \in PoolIds : \A q \in W(p) : q \in Requests \ {r} /\ mine[q] = p /\ pc[q] \in {"asleep", "late"}
  BY <1>11, WaiterFacts
<1>3. W(m)' = W(m) \cup {r} /\ IsInjective(x.waiters)
  <2>1. r \notin W(m)
    BY <1>2, <1>12
  <2>2. IsInjective(pools[m].waiters) /\ pools[m].waiters \in Seq(Requests)
    BY <1>2 DEF WaitersInv, PoolStates
  <2>3. QED
    <3>1. IsInjective(Append(pools[m].waiters, r)) /\ Range(Append(pools[m].waiters, r)) = Range(pools[m].waiters) \cup {r}
      BY <2>1, <2>2, Appended DEF W
    <3>2. QED
      BY <1>1, <1>10, <1>11, <3>1 DEF W
<1>4. PoolTypes'
  BY <1>1, <1>11 DEF PoolTypes, Labels
<1>5. HasPool'
  BY <1>1, <1>2, <1>11 DEF HasPool, PoolTypes
<1>6. LockHeld'
  BY <1>4, <1>11 DEF LockHeld, PoolTypes
<1>7. WaitersInv'
  <2>1. ASSUME NEW p \in PoolIds, p # m
        PROVE  /\ pools'[p] = pools[p] /\ W(p)' = W(p)
               /\ \A q \in W(p) : mine'[q] = p /\ pc'[q] \in {"asleep", "late"}
    <3>1. pools'[p] = pools[p] /\ W(p)' = W(p)
      BY <1>1, <2>1 DEF W
    <3>2. QED
      BY <1>11, <1>12, <3>1 DEF PoolTypes
  <2>2. \A q \in W(m) \cup {r} : mine'[q] = m /\ pc'[q] \in {"asleep", "late"}
    BY <1>2, <1>11, <1>12 DEF PoolTypes
  <2>3. \A p \in PoolIds : At(p, {"asleep"})' \subseteq At(p, {"asleep"}) \cup {q \in {r} : p = m}
    BY <1>11 DEF At, PoolTypes
  <2>4. QED
    BY <1>1, <1>3, <2>1, <2>2, <2>3 DEF WaitersInv
<1>8. NoPoolStranded'
  <2>1. \A p \in PoolIds : At(p, {"close"})' = At(p, {"close"})
    BY <1>11 DEF At, PoolTypes
  <2>2. QED
    BY <1>1, <1>2, <1>10, <1>11, <2>1 DEF NoPoolStranded
<1>9. QED
  BY <1>4, <1>5, <1>6, <1>7, <1>8

\* Whom a notify takes out of the queue, if anybody.
First(p) == {q \in Requests : pools[p].waiters # <<>> /\ q = Head(pools[p].waiters)}

\* A connection of r comes back or goes, and the first waiter hears of it.
Notifies(r, label, x) ==
    /\ pc[r] \in {"connect", "use", "drop"} /\ label \in {"done", "reset", "drop"}
    /\ OnMine(r, x)
    /\ x.waiters = Notified(OfMine(r)).waiters /\ x.closed = OfMine(r).closed
    /\ NotifyAndGoTo(r, OfMine(r).waiters, label)
    /\ UNCHANGED <<current, lock, mine>>
    /\ failures' \in [Requests -> Nat] /\ dropping' \in [Requests -> Nat]

LEMMA NotifyFacts ==
    ASSUME Base, NEW r \in Requests, NEW label, NEW x, Notifies(r, label, x)
    PROVE  /\ mine[r] \in PoolIds /\ pools[mine[r]] \in PoolStates
           /\ First(mine[r]) \subseteq W(mine[r]) /\ (First(mine[r]) = {} => W(mine[r]) = {})
           /\ \A q, t \in First(mine[r]) : q = t
           /\ W(mine[r])' = W(mine[r]) \ First(mine[r])
           /\ \A p \in PoolIds \ {mine[r]} : W(p)' = W(p)
           /\ IsInjective(x.waiters)
           /\ pc' \in [Requests -> Labels] /\ pc'[r] = label
           /\ \A q \in Requests \ {r} :
                 IF q \in First(mine[r]) /\ pc[q] = "asleep" THEN pc'[q] = "woken" ELSE pc'[q] = pc[q]
           /\ \A p \in PoolIds : \A q \in W(p) : q \in Requests \ {r} /\ mine[q] = p /\ pc[q] \in {"asleep", "late"}
<1> DEFINE m == mine[r]
           w == pools[m].waiters
<1> USE DEF Base, Notifies
<1>1. m \in PoolIds /\ pools[m] \in PoolStates
  BY DEF OnMine, PoolTypes, PoolIds
<1>2. w \in Seq(Requests) /\ IsInjective(w)
  BY <1>1 DEF PoolStates, WaitersInv
<1>3. x.waiters = IF w = <<>> THEN w ELSE Tail(w)
  BY <1>1 DEF Notified, OfMine, PoolStates
<1>4. /\ pools' \in Seq(PoolStates) /\ Len(pools') = Len(pools) /\ PoolIds' = PoolIds
      /\ pools'[m] = x /\ \A p \in PoolIds \ {m} : pools'[p] = pools[p]
  BY OnMineFacts
<1>5. CASE w = <<>>
  <2>1. Range(w) = {} /\ First(m) = {}
    BY <1>5 DEF Range, First
  <2>2. x.waiters = w
    BY <1>3, <1>5
  <2>3. W(m)' = W(m) /\ W(m) = {} /\ \A p \in PoolIds \ {m} : W(p)' = W(p)
    BY <1>4, <2>1, <2>2 DEF W
  <2>4. pc' = [pc EXCEPT ![r] = label]
    BY <1>5 DEF NotifyAndGoTo, OfMine, PoolTypes
  <2>5. \A p \in PoolIds : \A q \in W(p) : q \in Requests \ {r} /\ mine[q] = p /\ pc[q] \in {"asleep", "late"}
    BY WaiterFacts
  <2>6. pc' \in [Requests -> Labels] /\ pc'[r] = label /\ \A q \in Requests \ {r} : pc'[q] = pc[q]
    BY <2>4 DEF PoolTypes, Labels
  <2>7. QED
    BY <1>1, <1>2, <2>1, <2>2, <2>3, <2>5, <2>6
<1>6. CASE w # <<>>
  <2>1. /\ Tail(w) \in Seq(Requests) /\ IsInjective(Tail(w))
        /\ Head(w) \in Range(w) /\ Range(Tail(w)) = Range(w) \ {Head(w)}
    BY <1>2, <1>6, Popped
  <2>2. First(m) = {Head(w)}
    BY <1>2, <1>6 DEF First
  <2>3. x.waiters = Tail(w)
    BY <1>3, <1>6
  <2>4. W(m)' = W(m) \ First(m) /\ First(m) \subseteq W(m)
    BY <1>4, <2>1, <2>2, <2>3 DEF W
  <2>5. \A p \in PoolIds : \A q \in W(p) : q \in Requests \ {r} /\ mine[q] = p /\ pc[q] \in {"asleep", "late"}
    BY WaiterFacts
  <2>6. /\ pc' \in [Requests -> Labels] /\ pc'[r] = label
        /\ \A q \in Requests \ {r} :
              IF q \in First(m) /\ pc[q] = "asleep" THEN pc'[q] = "woken" ELSE pc'[q] = pc[q]
    BY <1>6, <2>2 DEF NotifyAndGoTo, OfMine, PoolTypes, Labels
  <2>7. \A p \in PoolIds \ {m} : W(p)' = W(p)
    BY <1>4 DEF W
  <2>8. QED
    BY <1>1, <2>1, <2>2, <2>3, <2>4, <2>5, <2>6, <2>7
<1>7. QED
  BY <1>5, <1>6

LEMMA NotifyBase ==
    ASSUME Base, NEW r \in Requests, NEW label, NEW x, Notifies(r, label, x)
    PROVE  Base'
<1> DEFINE m == mine[r]
<1>1. /\ pools' \in Seq(PoolStates) /\ Len(pools') = Len(pools) /\ PoolIds' = PoolIds
      /\ pools'[m] = x /\ \A p \in PoolIds \ {m} : pools'[p] = pools[p]
  BY OnMineFacts DEF Notifies, Base
<1>2. /\ label \in {"done", "reset", "drop"} /\ UNCHANGED <<current, lock, mine>>
      /\ failures' \in [Requests -> Nat] /\ dropping' \in [Requests -> Nat]
      /\ x.closed = pools[m].closed /\ pc[r] \in {"connect", "use", "drop"}
  BY DEF Notifies, OfMine
<1>3. /\ m \in PoolIds /\ pools[m] \in PoolStates
      /\ First(m) \subseteq W(m) /\ W(m)' = W(m) \ First(m)
      /\ IsInjective(x.waiters) /\ pc' \in [Requests -> Labels] /\ pc'[r] = label
      /\ \A q \in Requests \ {r} :
            IF q \in First(m) /\ pc[q] = "asleep" THEN pc'[q] = "woken" ELSE pc'[q] = pc[q]
      /\ \A p \in PoolIds : \A q \in W(p) : q \in Requests \ {r} /\ mine[q] = p /\ pc[q] \in {"asleep", "late"}
  BY NotifyFacts
<1>4. PoolTypes'
  BY <1>1, <1>2, <1>3 DEF Base, PoolTypes
<1>5. HasPool'
  BY <1>1, <1>2, <1>3 DEF Base, HasPool
<1>6. LockHeld'
  BY <1>2, <1>3 DEF Base, LockHeld
<1>7. WaitersInv'
  <2>1. ASSUME NEW p \in PoolIds, p # m
        PROVE  /\ pools'[p] = pools[p] /\ W(p)' = W(p)
               /\ \A q \in W(p) : mine'[q] = p /\ pc'[q] \in {"asleep", "late"}
    <3>1. pools'[p] = pools[p] /\ W(p)' = W(p)
      BY <1>1, <2>1 DEF W
    <3>2. ASSUME NEW q \in W(p) PROVE mine'[q] = p /\ pc'[q] \in {"asleep", "late"}
      <4>1. q \in Requests \ {r} /\ mine[q] = p /\ mine[q] # m /\ pc[q] \in {"asleep", "late"}
        BY <1>3, <2>1
      <4>2. q \notin First(m)
        BY <1>3, <4>1
      <4>3. QED
        BY <1>2, <1>3, <4>1, <4>2
    <3>3. QED
      BY <3>1, <3>2
  <2>2. \A q \in W(m) \ First(m) : mine'[q] = m /\ pc'[q] \in {"asleep", "late"}
    BY <1>2, <1>3
  <2>3. \A p \in PoolIds : \A q \in At(p, {"asleep"})' : q \in At(p, {"asleep"}) /\ q \notin First(m)
    BY <1>2, <1>3 DEF At
  <2>4. \A p \in PoolIds : At(p, {"asleep"}) \subseteq W(p) /\ IsInjective(pools[p].waiters)
    BY DEF Base, WaitersInv
  <2>5. ASSUME NEW p \in PoolIds
        PROVE  /\ IsInjective(pools'[p].waiters)
               /\ \A q \in W(p)' : mine'[q] = p /\ pc'[q] \in {"asleep", "late"}
               /\ \A q \in At(p, {"asleep"})' : q \in W(p)'
    <3>1. CASE p = m
      <4>1. IsInjective(pools'[m].waiters) /\ \A q \in W(m)' : mine'[q] = m /\ pc'[q] \in {"asleep", "late"}
        BY <1>1, <1>3, <2>2
      <4>2. \A q \in At(m, {"asleep"})' : q \in W(m) \ First(m)
        BY <1>2, <1>3, <2>3, <2>4
      <4>3. QED
        BY <1>2, <1>3, <3>1, <4>1, <4>2
    <3>2. CASE p # m
      BY <2>1, <2>3, <2>4, <3>2
    <3>3. QED
      BY <3>1, <3>2
  <2>6. QED
    BY <1>1, <2>5 DEF WaitersInv
<1>8. NoPoolStranded'
  <2>1. \A p \in PoolIds : At(p, {"close"})' = At(p, {"close"})
    BY <1>2, <1>3 DEF At
  <2>2. QED
    BY <1>1, <1>2, <1>3, <2>1 DEF NoPoolStranded, Base
<1>9. QED
  BY <1>4, <1>5, <1>6, <1>7, <1>8 DEF Base

\* A step of r that leaves the pools as they are: r goes on at `label`, with the
\* pool p, and nobody gets or loses a pool unnoticed.
Plain(r, label, p) ==
    /\ UNCHANGED <<pools, failures, dropping>>
    /\ label \in Labels \ {"asleep"} /\ pc' = [pc EXCEPT ![r] = label]
    /\ pc[r] \in {"asleep", "late"} => label = "late" /\ UNCHANGED mine
    /\ p \in 0..Len(pools) /\ mine' = [mine EXCEPT ![r] = p]
    /\ label \notin {"look", "create", "check", "done"} => p \in PoolIds
    /\ \/ UNCHANGED <<lock, current>> /\ label # "check" /\ pc[r] # "close"
       \/ /\ lock = Nobody /\ lock' = r /\ label = "check" /\ UNCHANGED current /\ current = NoPool
          /\ pc[r] # "close"
       \/ lock' = Nobody /\ pc[r] = "check" /\ label # "check" /\ UNCHANGED current
       \/ /\ lock = Nobody /\ lock' = lock /\ current' = (IF current = mine[r] THEN NoPool ELSE current)
          /\ label = "close" /\ pc[r] = "reset" /\ UNCHANGED mine

LEMMA PlainBase ==
    ASSUME Base, NEW r \in Requests, NEW label, NEW p, Plain(r, label, p)
    PROVE  Base'
<1> USE DEF Base, Plain
<1>1. PoolIds' = PoolIds /\ pc' \in [Requests -> Labels] /\ mine' \in [Requests -> 0..Len(pools)]
      /\ pc'[r] = label /\ mine'[r] = p
      /\ \A q \in Requests \ {r} : pc'[q] = pc[q] /\ mine'[q] = mine[q]
  BY DEF PoolTypes, PoolIds
<1>2. PoolTypes'
  BY <1>1 DEF PoolTypes
<1>3. HasPool'
  BY <1>1 DEF HasPool
<1>4. LockHeld'
  BY <1>1 DEF LockHeld
<1>5. WaitersInv'
  <2>1. ASSUME NEW t \in PoolIds, NEW q \in W(t) PROVE mine'[q] = t /\ pc'[q] \in {"asleep", "late"}
    <3>1. q \in Requests /\ mine[q] = t /\ pc[q] \in {"asleep", "late"}
      BY WaiterFacts
    <3>2. QED
      BY <1>1, <3>1
  <2>2. \A t \in PoolIds : At(t, {"asleep"})' \subseteq At(t, {"asleep"}) /\ W(t)' = W(t)
    BY <1>1 DEF At, W
  <2>3. QED
    BY <1>1, <2>1, <2>2 DEF WaitersInv
<1>6. NoPoolStranded'
  <2>1. \A t \in PoolIds : At(t, {"close"}) \subseteq At(t, {"close"})'
    BY <1>1 DEF At
  <2>2. ASSUME current = mine[r], label = "close", UNCHANGED mine
        PROVE  \A t \in PoolIds : t = current => At(t, {"close"})' # {}
    BY <1>1, <2>2 DEF At
  <2>3. QED
    BY <1>1, <2>1, <2>2 DEF NoPoolStranded
<1>7. QED
  BY <1>2, <1>3, <1>4, <1>5, <1>6

LEMMA CreateBase == ASSUME Base, NEW r \in Requests, CreatePool(r) PROVE Base'
<1> DEFINE new == [closed |-> FALSE, idle |-> 1, open |-> 1, waiters |-> <<>>]
<1> USE DEF Base
<1>0. PICK n \in Nat : n = Len(pools) + 1
  BY DEF PoolTypes
<1>1. new \in PoolStates /\ Range(new.waiters) = {} /\ IsInjective(new.waiters)
  BY DEF PoolStates, Range, IsInjective
<1>2. /\ pools' = Append(pools, new) /\ current' = Len(pools') /\ lock' = Nobody
      /\ mine' = [mine EXCEPT ![r] = current'] /\ pc' = [pc EXCEPT ![r] = "acquire"]
      /\ pc[r] = "check" /\ UNCHANGED <<failures, dropping>>
  BY DEF CreatePool, Use, GoTo
<1> HIDE DEF new
<1>3. Len(pools) \in Nat /\ n = Len(pools) + 1
  BY <1>0 DEF PoolTypes
<1>4. /\ pools' \in Seq(PoolStates) /\ Len(pools') = n /\ pools'[n] = new
      /\ \A p \in PoolIds : pools'[p] = pools[p]
  BY <1>1, <1>2, <1>3 DEF PoolTypes, PoolIds
<1>5. current' = n /\ PoolIds' = PoolIds \cup {n} /\ n \notin PoolIds /\ n \notin 0..Len(pools) /\ n \in 0..n
  BY <1>2, <1>3, <1>4 DEF PoolIds
<1>6. 0..Len(pools) \subseteq 0..n
  BY <1>3
<1>7. /\ pc' \in [Requests -> Labels] /\ mine' \in [Requests -> 0..n]
      /\ pc'[r] = "acquire" /\ mine'[r] = n
      /\ \A q \in Requests \ {r} : pc'[q] = pc[q] /\ mine'[q] = mine[q]
  BY <1>2, <1>5, <1>6 DEF PoolTypes, Labels
<1>8. PoolTypes'
  BY <1>2, <1>4, <1>5, <1>7 DEF PoolTypes
<1>9. HasPool'
  BY <1>5, <1>7 DEF HasPool
<1>10. lock = r /\ current = NoPool
  BY <1>2 DEF LockHeld
<1>11. LockHeld'
  BY <1>7, <1>10 DEF LockHeld
<1>12. WaitersInv'
  <2>1. ASSUME NEW t \in PoolIds, NEW q \in W(t) PROVE mine'[q] = t /\ pc'[q] \in {"asleep", "late"}
    <3>1. q \in Requests /\ mine[q] = t /\ pc[q] \in {"asleep", "late"}
      BY WaiterFacts
    <3>2. QED
      BY <1>2, <1>7, <3>1
  <2>2. \A t \in PoolIds : At(t, {"asleep"})' \subseteq At(t, {"asleep"}) /\ W(t)' = W(t)
    BY <1>4, <1>7 DEF At, W
  <2>3. ASSUME NEW q \in At(n, {"asleep"})' PROVE FALSE
    <3>1. q \in Requests \ {r} /\ mine[q] = n
      BY <1>7 DEF At
    <3>2. QED
      BY <1>5, <3>1 DEF PoolTypes
  <2>4. QED
    BY <1>1, <1>4, <1>5, <2>1, <2>2, <2>3 DEF WaitersInv, W
<1>13. NoPoolStranded'
  <2>1. \A t \in PoolIds : At(t, {"close"}) \subseteq At(t, {"close"})'
    BY <1>2, <1>7 DEF At
  <2>2. \A t \in PoolIds : t # NoPool
    BY DEF PoolIds
  <2>3. QED
    BY <1>4, <1>5, <1>10, <2>1, <2>2 DEF NoPoolStranded
<1>14. QED
  BY <1>8, <1>9, <1>11, <1>12, <1>13

LEMMA CloseBase == ASSUME Base, NEW r \in Requests, ClosePool(r) PROVE Base'
<1> DEFINE m == mine[r]
           x == [pools[m] EXCEPT !.closed = TRUE, !.idle = 0]
<1> USE DEF Base
<1>1. m \in PoolIds /\ pools[m] \in PoolStates /\ pc[r] = "close"
  <2>1. pc[r] = "close"
    BY DEF ClosePool
  <2>2. QED
    BY <2>1, WaiterFacts DEF HasPool
<1>2. x \in PoolStates /\ x.closed /\ x.idle = 0 /\ x.waiters = pools[m].waiters
  BY <1>1 DEF PoolStates
<1>3. /\ OnMine(r, x) /\ UNCHANGED <<current, lock, mine, failures>>
      /\ dropping' = [dropping EXCEPT ![r] = pools[m].idle] /\ pc' = [pc EXCEPT ![r] = "drop"]
  BY <1>1, <1>2 DEF OnMine, ClosePool, SetMine, OfMine, GoTo
<1> HIDE DEF x
<1>4. /\ pools' \in Seq(PoolStates) /\ Len(pools') = Len(pools) /\ PoolIds' = PoolIds
      /\ pools'[m] = x /\ \A p \in PoolIds \ {m} : pools'[p] = pools[p]
  BY <1>3, OnMineFacts
<1>5. pools[m].idle \in Nat
  BY <1>1 DEF PoolStates
<1>6. PoolTypes'
  BY <1>3, <1>4, <1>5 DEF PoolTypes, Labels
<1>7. HasPool' /\ LockHeld'
  BY <1>1, <1>3, <1>4 DEF HasPool, LockHeld, PoolTypes
<1>8. WaitersInv'
  <2>1. \A t \in PoolIds : pools'[t].waiters = pools[t].waiters /\ W(t)' = W(t)
    BY <1>1, <1>2, <1>4 DEF W
  <2>2. ASSUME NEW t \in PoolIds, NEW q \in W(t) PROVE mine'[q] = t /\ pc'[q] \in {"asleep", "late"}
    <3>1. q \in Requests /\ mine[q] = t /\ pc[q] \in {"asleep", "late"}
      BY WaiterFacts
    <3>2. QED
      BY <1>1, <1>3, <3>1 DEF PoolTypes
  <2>3. \A t \in PoolIds : At(t, {"asleep"})' \subseteq At(t, {"asleep"})
    BY <1>3 DEF At, PoolTypes
  <2>4. QED
    BY <1>4, <2>1, <2>2, <2>3 DEF WaitersInv
<1>9. NoPoolStranded'
  <2>1. \A t \in PoolIds \ {m} : At(t, {"close"}) \subseteq At(t, {"close"})'
    BY <1>3 DEF At, PoolTypes
  <2>2. QED
    BY <1>2, <1>3, <1>4, <2>1 DEF NoPoolStranded
<1>10. QED
  BY <1>6, <1>7, <1>8, <1>9
\* The steps that take a connection of r back or give it up.
LEMMA NotifySteps ==
    ASSUME Base, NEW r \in Requests, ConnectFails(r) \/ Release(r) \/ DropIdle(r)
    PROVE  \E l, x : Notifies(r, l, x)
<1> DEFINE m == mine[r]
<1> USE DEF requestVars
<1>1. failures \in [Requests -> Nat] /\ dropping \in [Requests -> Nat]
  BY DEF Base, PoolTypes
<1>2. pc[r] \in {"connect", "use", "drop"}
  BY DEF ConnectFails, Release, GiveBack, GiveBackBroken, DropIdle
<1>3. m \in PoolIds /\ pools[m] \in PoolStates
  BY <1>2, WaiterFacts DEF Base, HasPool
<1> DEFINE told == Notified(pools[m])
           less == [told EXCEPT !.open = @ - 1]
           more == [told EXCEPT !.idle = @ + 1]
<1>4. told \in PoolStates /\ told.closed = pools[m].closed
      /\ told.idle = pools[m].idle /\ told.open = pools[m].open
  <2>1. pools[m].waiters # << >> => Tail(pools[m].waiters) \in Seq(Requests)
    BY <1>3 DEF PoolStates
  <2>2. QED
    BY <1>3, <2>1 DEF Notified, PoolStates
<1>5. less \in PoolStates /\ less.waiters = told.waiters /\ less.closed = pools[m].closed
  BY <1>4 DEF PoolStates
<1>6. more \in PoolStates /\ more.waiters = told.waiters /\ more.closed = pools[m].closed
  BY <1>4 DEF PoolStates
<1>7. UNCHANGED <<current, lock, mine>>
  BY DEF ConnectFails, Release, DropIdle
<1>8. failures' \in [Requests -> Nat] /\ dropping' \in [Requests -> Nat]
  <2>1. CASE ConnectFails(r)
    BY <1>1, <2>1 DEF ConnectFails
  <2>2. CASE Release(r)
    BY <1>1, <2>2 DEF Release
  <2>3. CASE DropIdle(r)
    <3>1. dropping[r] \in Nat /\ dropping[r] > 0
      BY <1>1, <2>3 DEF DropIdle
    <3>2. dropping[r] - 1 \in Nat /\ dropping' = [dropping EXCEPT ![r] = dropping[r] - 1]
      BY <2>3, <3>1 DEF DropIdle
    <3>3. UNCHANGED failures
      BY <2>3 DEF DropIdle
    <3>4. QED
      BY <1>1, <3>2, <3>3
  <2>4. QED
    BY <2>1, <2>2, <2>3
<1>9. ASSUME NEW label \in {"done", "reset", "drop"}, Forget(r, label) PROVE \E l, x : Notifies(r, l, x)
  <2>1. OnMine(r, less) /\ NotifyAndGoTo(r, OfMine(r).waiters, label)
    BY <1>3, <1>5, <1>9 DEF OnMine, Forget, SetMine, OfMine
  <2> HIDE DEF less
  <2>2. Notifies(r, label, less)
    BY <1>2, <1>5, <1>7, <1>8, <2>1 DEF Notifies, OfMine
  <2>3. QED
    BY <2>2
<1>10. CASE ConnectFails(r)
  BY <1>9, <1>10 DEF ConnectFails
<1>11. CASE DropIdle(r) \/ GiveBackBroken(r)
  BY <1>9, <1>11 DEF DropIdle, GiveBackBroken
<1>12. CASE GiveBack(r)
  <2>1. CASE OfMine(r).closed
    BY <1>9, <1>12, <2>1 DEF GiveBack
  <2>2. CASE ~OfMine(r).closed
    <3>1. OnMine(r, more) /\ NotifyAndGoTo(r, OfMine(r).waiters, "done")
      BY <1>3, <1>6, <1>12, <2>2 DEF OnMine, GiveBack, SetMine, OfMine
    <3> HIDE DEF more
    <3>2. Notifies(r, "done", more)
      BY <1>2, <1>6, <1>7, <1>8, <3>1 DEF Notifies, OfMine
    <3>3. QED
      BY <3>2
  <2>3. QED
    BY <2>1, <2>2
<1>13. QED
  BY <1>10, <1>11, <1>12 DEF Release

LEMMA StepBase == ASSUME Base, NEW r \in Requests, RequestStep(r) PROVE Base'
<1> USE DEF requestVars, GoTo, Labels
<1> DEFINE m == mine[r]
<1>1. /\ mine[r] \in 0..Len(pools) /\ mine \in [Requests -> 0..Len(pools)] /\ PoolIds = 1..Len(pools)
      /\ Len(pools) \in Nat /\ current \in 0..Len(pools)
      /\ failures \in [Requests -> Nat] /\ dropping \in [Requests -> Nat]
      /\ mine = [mine EXCEPT ![r] = m]
  BY DEF Base, PoolTypes, PoolIds
<1>2. ASSUME pc[r] \notin {"look", "create", "check", "done"}
      PROVE  /\ m \in PoolIds /\ pools[m] \in PoolStates
             /\ pools[m].waiters \in Seq(Requests) /\ IsInjective(pools[m].waiters)
  BY <1>2, WaiterFacts DEF Base, HasPool
<1>3. CASE FindPool(r) \/ CreatedMeanwhile(r)
  <2>1. current \in PoolIds /\ current \in 0..Len(pools)
    BY <1>1, <1>3 DEF FindPool, CreatedMeanwhile
  <2>2. /\ pc[r] \in {"look", "create"} /\ UNCHANGED <<pools, current, lock, failures, dropping>>
        /\ mine' = [mine EXCEPT ![r] = current] /\ pc' = [pc EXCEPT ![r] = "acquire"]
    BY <1>3 DEF FindPool, CreatedMeanwhile, Use
  <2>3. Plain(r, "acquire", current)
    BY <2>1, <2>2 DEF Plain
  <2>4. QED
    BY <2>3, PlainBase
<1>4. CASE NoPoolYet(r) \/ CreationFails(r) \/ Connect(r) \/ WaitEnds(r) \/ TryAgain(r)
  <2>1. CASE NoPoolYet(r)
    <3>1. Plain(r, "create", m)
      BY <1>1, <2>1 DEF NoPoolYet, Plain
    <3>2. QED
      BY <3>1, PlainBase
  <2>2. CASE CreationFails(r)
    <3>1. Plain(r, "done", m)
      BY <1>1, <2>2 DEF CreationFails, Plain
    <3>2. QED
      BY <3>1, PlainBase
  <2>3. CASE Connect(r)
    <3>1. m \in PoolIds
      BY <1>2, <2>3 DEF Connect
    <3>2. /\ pc[r] = "connect" /\ UNCHANGED <<pools, current, lock, failures, dropping, mine>>
          /\ mine' = [mine EXCEPT ![r] = m] /\ pc' = [pc EXCEPT ![r] = "use"]
      BY <1>1, <2>3 DEF Connect
    <3>3. Plain(r, "use", m)
      BY <1>1, <3>1, <3>2 DEF Plain
    <3>4. QED
      BY <3>3, PlainBase
  <2>4. CASE WaitEnds(r)
    <3>1. m \in PoolIds
      BY <1>2, <2>4 DEF WaitEnds
    <3>2. /\ pc[r] = "asleep" /\ UNCHANGED <<pools, current, lock, failures, dropping, mine>>
          /\ mine' = [mine EXCEPT ![r] = m] /\ pc' = [pc EXCEPT ![r] = "late"]
      BY <1>1, <2>4 DEF WaitEnds
    <3>3. Plain(r, "late", m)
      BY <1>1, <3>1, <3>2 DEF Plain
    <3>4. QED
      BY <3>3, PlainBase
  <2>5. CASE TryAgain(r)
    <3>1. Plain(r, "look", m)
      BY <1>1, <2>5 DEF TryAgain, Plain
    <3>2. QED
      BY <3>1, PlainBase
  <2>6. QED
    BY <1>4, <2>1, <2>2, <2>3, <2>4, <2>5
<1>5. CASE StartCreation(r)
  <2>1. Plain(r, "check", m)
    BY <1>1, <1>5 DEF StartCreation, Plain
  <2>2. QED
    BY <2>1, PlainBase
<1>6. CASE CreatePool(r)
  BY <1>6, CreateBase
<1>7. CASE PoolIsClosed(r) \/ TakeIdle(r) \/ OpenNew(r) \/ Exhausted(r)
  <2> DEFINE w == RemoveFirst(pools[m].waiters, r)
  <2>1. pc[r] \in Entering
    BY <1>7 DEF PoolIsClosed, TakeIdle, OpenNew, Exhausted, Entering
  <2>2. m \in PoolIds /\ pools[m] \in PoolStates /\ w \in Seq(Requests)
    <3>1. pc[r] \notin {"look", "create", "check", "done"}
      BY <2>1 DEF Entering
    <3>2. QED
      BY <1>2, <3>1, Removed
  <2> HIDE DEF w
  <2> DEFINE left == [pools[m] EXCEPT !.waiters = w]
             less == [left EXCEPT !.idle = @ - 1]
             more == [left EXCEPT !.open = @ + 1]
  <2>3. left \in PoolStates /\ left.waiters = w /\ left.closed = pools[m].closed
        /\ left.idle = pools[m].idle /\ left.open = pools[m].open
    BY <2>2 DEF PoolStates
  <2>4. left = Left(OfMine(r), r)
    BY DEF Left, OfMine, w
  <2> HIDE DEF left
  <2>5. CASE PoolIsClosed(r) \/ Exhausted(r)
    <3>1. OnMine(r, left) /\ GoTo(r, "done") /\ UNCHANGED <<current, lock, requestVars>>
      BY <2>2, <2>3, <2>4, <2>5 DEF OnMine, PoolIsClosed, Exhausted, SetMine
    <3>2. QED
      BY <2>1, <2>3, <3>1, LeaveBase DEF OfMine, w
  <2>6. CASE TakeIdle(r)
    <3>1. pools[m].idle - 1 \in Nat
      BY <2>2, <2>6 DEF TakeIdle, OfMine, PoolStates
    <3>2. less \in PoolStates /\ less.waiters = w /\ less.closed = pools[m].closed
      BY <2>3, <3>1 DEF PoolStates
    <3>3. OnMine(r, less) /\ GoTo(r, "use") /\ UNCHANGED <<current, lock, requestVars>>
      BY <2>2, <2>4, <2>6, <3>2 DEF OnMine, TakeIdle, SetMine
    <3> HIDE DEF less
    <3>4. QED
      BY <2>1, <3>2, <3>3, LeaveBase DEF OfMine, w
  <2>7. CASE OpenNew(r)
    <3>1. pools[m].open + 1 \in Int
      BY <2>2 DEF PoolStates
    <3>2. more \in PoolStates /\ more.waiters = w /\ more.closed = pools[m].closed
      BY <2>3, <3>1 DEF PoolStates
    <3>3. OnMine(r, more) /\ GoTo(r, "connect") /\ UNCHANGED <<current, lock, requestVars>>
      BY <2>2, <2>4, <2>7, <3>2 DEF OnMine, OpenNew, SetMine
    <3> HIDE DEF more
    <3>4. QED
      BY <2>1, <3>2, <3>3, LeaveBase DEF OfMine, w
  <2>8. QED
    BY <1>7, <2>5, <2>6, <2>7
<1>8. CASE Wait(r)
  BY <1>8, WaitBase
<1>9. CASE ConnectFails(r) \/ Release(r) \/ DropIdle(r)
  BY <1>9, NotifySteps, NotifyBase
<1>10. CASE Detach(r)
  <2>1. m \in PoolIds
    BY <1>2, <1>10 DEF Detach
  <2>2. Plain(r, "close", m)
    BY <1>1, <1>10, <2>1 DEF Detach, Plain
  <2>3. QED
    BY <2>2, PlainBase
<1>11. CASE ClosePool(r)
  BY <1>11, CloseBase
<1>12. QED
  BY <1>3, <1>4, <1>5, <1>6, <1>7, <1>8, <1>9, <1>10, <1>11 DEF RequestStep

LEMMA NextBase == Base /\ [Next]_vars => Base'
<1> SUFFICES ASSUME Base, [Next]_vars PROVE Base'
  OBVIOUS
<1>1. ASSUME NEW r \in Requests, RequestStep(r) PROVE Base'
  BY <1>1, StepBase
<1>2. CASE UNCHANGED <<pools, current, lock, pc, requestVars>>
  BY <1>2 DEF requestVars, Base, PoolTypes, HasPool, LockHeld, WaitersInv, NoPoolStranded, At, W, PoolIds
<1>3. QED
  BY <1>1, <1>2 DEF Next, DatabaseChanges, AllOver, vars

LEMMA AlwaysBase == Spec => []Base
<1>1. QED
  BY InitBase, NextBase, PTL DEF Spec

(***************************************************************************)
(* At most one pool is in use: whatever the order in which requests find a *)
(* failed pool, detach it and create the next, every pool but _POOL is     *)
(* closed or in the hands of a request that is about to close it.          *)
(***************************************************************************)
THEOREM PoolsAreClosed == Spec => []NoPoolStranded
<1>1. Base => NoPoolStranded
  BY DEF Base
<1>2. QED
  BY <1>1, AlwaysBase, PTL
-----------------------------------------------------------------------------
(***************************************************************************)
(* What a step does to the counts, and to the other requests.              *)
(***************************************************************************)
Changed(p, i, o) ==
    /\ pools'[p].closed = pools[p].closed
    /\ pools'[p].idle = pools[p].idle + i
    /\ pools'[p].open = pools[p].open + o

\* The steps of a request that write its pool.
OnPool(r) ==
    \/ PoolIsClosed(r) \/ TakeIdle(r) \/ OpenNew(r) \/ Wait(r) \/ Exhausted(r)
    \/ ConnectFails(r) \/ Release(r) \/ ClosePool(r) \/ DropIdle(r)

\* The steps that leave all pools alone.
OffPool(r) ==
    \/ FindPool(r) \/ NoPoolYet(r) \/ CreatedMeanwhile(r) \/ StartCreation(r) \/ CreationFails(r)
    \/ WaitEnds(r) \/ Connect(r) \/ Detach(r) \/ TryAgain(r)

LEMMA OnPoolFacts ==
    ASSUME Base, NEW r \in Requests, OnPool(r)
    PROVE  /\ mine[r] \in PoolIds /\ pools[mine[r]] \in PoolStates /\ UNCHANGED mine
           /\ PoolIds' = PoolIds
           /\ \A p \in PoolIds \ {mine[r]} : pools'[p] = pools[p]
<1>1. pc[r] \notin {"look", "create", "check", "done"}
  BY DEF OnPool, PoolIsClosed, TakeIdle, OpenNew, Wait, Exhausted, ConnectFails, Release, GiveBack,
         GiveBackBroken, ClosePool, DropIdle, Entering
<1>2. mine[r] \in PoolIds /\ pools[mine[r]] \in PoolStates
  BY <1>1, WaiterFacts DEF Base, HasPool
<1>3. UNCHANGED mine
  BY DEF OnPool, PoolIsClosed, TakeIdle, OpenNew, Wait, Exhausted, ConnectFails, Release, ClosePool,
         DropIdle, requestVars
<1>4. \E x : pools' = [pools EXCEPT ![mine[r]] = x]
  BY DEF OnPool, PoolIsClosed, TakeIdle, OpenNew, Wait, Exhausted, ConnectFails, Release, GiveBack,
         GiveBackBroken, Forget, ClosePool, DropIdle, SetMine
<1>5. pools \in Seq(PoolStates) /\ PoolIds = 1..Len(pools)
  BY DEF Base, PoolTypes, PoolIds
<1>6. QED
  BY <1>2, <1>3, <1>4, <1>5 DEF PoolIds

WithIdle(x, i) == [x EXCEPT !.idle = i]
WithOpen(x, o) == [x EXCEPT !.open = o]

LEMMA CountsChange ==
    ASSUME Base, NEW r \in Requests, OnPool(r), NEW m, m = mine[r]
    PROVE  /\ PoolIsClosed(r) \/ Wait(r) \/ Exhausted(r) => Changed(m, 0, 0)
           /\ TakeIdle(r) => Changed(m, -1, 0)
           /\ OpenNew(r) => Changed(m, 0, 1)
           /\ ConnectFails(r) \/ DropIdle(r) => Changed(m, 0, -1)
           /\ Release(r) => Changed(m, 0, -1) \/ (~pools[m].closed /\ Changed(m, 1, 0))
           /\ ClosePool(r) => pools'[m] = [pools[m] EXCEPT !.closed = TRUE, !.idle = 0]
<1> DEFINE w == pools[m].waiters
<1>1. m \in PoolIds /\ pools[m] \in PoolStates /\ pools \in Seq(PoolStates) /\ PoolIds = 1..Len(pools)
  BY OnPoolFacts DEF Base, PoolTypes, PoolIds
<1>2. ASSUME NEW x, pools' = [pools EXCEPT ![mine[r]] = x] PROVE pools'[m] = x
  BY <1>1, <1>2
<1> DEFINE left == [pools[m] EXCEPT !.waiters = RemoveFirst(w, r)]
           told == [pools[m] EXCEPT !.waiters = IF w = << >> THEN w ELSE Tail(w)]
<1>3. pools[m].idle \in Nat /\ pools[m].open \in Int
  BY <1>1 DEF PoolStates
<1>4. /\ left.idle = pools[m].idle /\ left.open = pools[m].open /\ left.closed = pools[m].closed
      /\ \A i : /\ WithIdle(left, i).idle = i /\ WithIdle(left, i).open = pools[m].open
                /\ WithIdle(left, i).closed = pools[m].closed
      /\ \A o : /\ WithOpen(left, o).idle = pools[m].idle /\ WithOpen(left, o).open = o
                /\ WithOpen(left, o).closed = pools[m].closed
  BY <1>1 DEF PoolStates, WithIdle, WithOpen
<1>5. /\ told.idle = pools[m].idle /\ told.open = pools[m].open /\ told.closed = pools[m].closed
      /\ \A i : /\ WithIdle(told, i).idle = i /\ WithIdle(told, i).open = pools[m].open
                /\ WithIdle(told, i).closed = pools[m].closed
      /\ \A o : /\ WithOpen(told, o).idle = pools[m].idle /\ WithOpen(told, o).open = o
                /\ WithOpen(told, o).closed = pools[m].closed
  BY <1>1 DEF PoolStates, WithIdle, WithOpen
<1>6. left = Left(OfMine(r), r) /\ told = Notified(OfMine(r)) /\ OfMine(r) = pools[m]
  BY DEF Left, Notified, OfMine
<1> HIDE DEF left, told
<1>7. PoolIsClosed(r) \/ Exhausted(r) => Changed(m, 0, 0)
  <2>1. PoolIsClosed(r) \/ Exhausted(r) => pools'[m] = left
    BY <1>2, <1>6 DEF PoolIsClosed, Exhausted, SetMine
  <2>2. QED
    BY <1>3, <1>4, <2>1 DEF Changed
<1>8. Wait(r) => Changed(m, 0, 0)
  <2>1. ASSUME NEW t PROVE LET y == [pools[m] EXCEPT !.waiters = t]
                           IN  y.idle = pools[m].idle /\ y.open = pools[m].open /\ y.closed = pools[m].closed
    BY <1>1 DEF PoolStates
  <2>2. QED
    BY <1>2, <1>3, <1>6, <2>1 DEF Wait, SetMine, Changed
<1>9. TakeIdle(r) => Changed(m, -1, 0)
  <2>1. TakeIdle(r) => pools'[m] = WithIdle(left, pools[m].idle - 1)
    BY <1>2, <1>4, <1>6 DEF WithIdle, TakeIdle, SetMine
  <2>2. QED
    BY <1>3, <1>4, <2>1 DEF Changed
<1>10. OpenNew(r) => Changed(m, 0, 1)
  <2>1. OpenNew(r) => pools'[m] = WithOpen(left, pools[m].open + 1)
    <3>1. OpenNew(r) => pools' = [pools EXCEPT ![mine[r]] = WithOpen(left, left.open + 1)]
      BY <1>6 DEF WithOpen, OpenNew, SetMine
    <3>2. QED
      BY <1>2, <1>4, <3>1
  <2>2. QED
    BY <1>3, <1>4, <2>1 DEF Changed
<1>11. ASSUME NEW label, Forget(r, label) PROVE Changed(m, 0, -1)
  <2>1. pools'[m] = WithOpen(told, pools[m].open - 1)
    BY <1>2, <1>5, <1>6, <1>11 DEF WithOpen, Forget, SetMine
  <2>2. QED
    BY <1>3, <1>5, <2>1 DEF Changed
<1>12. GiveBack(r) => Changed(m, 0, -1) \/ (~pools[m].closed /\ Changed(m, 1, 0))
  <2>1. GiveBack(r) /\ ~pools[m].closed => pools'[m] = WithIdle(told, pools[m].idle + 1)
    <3>1. GiveBack(r) /\ ~pools[m].closed => SetMine(r, [told EXCEPT !.idle = @ + 1])
      BY <1>6 DEF GiveBack
    <3>2. [told EXCEPT !.idle = @ + 1] = WithIdle(told, pools[m].idle + 1)
      BY <1>5 DEF WithIdle
    <3>3. QED
      BY <1>2, <3>1, <3>2 DEF SetMine
  <2>2. GiveBack(r) /\ ~pools[m].closed => Changed(m, 1, 0)
    BY <1>3, <1>5, <2>1 DEF Changed
  <2>3. QED
    BY <1>6, <1>11, <2>2 DEF GiveBack
<1>13. ClosePool(r) => pools'[m] = [pools[m] EXCEPT !.closed = TRUE, !.idle = 0]
  BY <1>2, <1>6 DEF ClosePool, SetMine
<1>14. ConnectFails(r) \/ DropIdle(r) \/ GiveBackBroken(r) => Changed(m, 0, -1)
  BY <1>11 DEF ConnectFails, DropIdle, GiveBackBroken
<1>15. QED
  BY <1>7, <1>8, <1>9, <1>10, <1>12, <1>13, <1>14 DEF Release

\* The other requests stay where they are, but for one that is woken.
Others(r) ==
    \A q \in Requests \ {r} :
        /\ mine'[q] = mine[q] /\ dropping'[q] = dropping[q]
        /\ pc'[q] = pc[q] \/ (pc[q] = "asleep" /\ pc'[q] = "woken")

LEMMA OthersStay == ASSUME Base, NEW r \in Requests, RequestStep(r) PROVE Others(r)
<1> DEFINE Moved == \A q \in Requests \ {r} : mine'[q] = mine[q] /\ dropping'[q] = dropping[q]
           Goes == \A q \in Requests \ {r} : pc'[q] = pc[q] \/ (pc[q] = "asleep" /\ pc'[q] = "woken")
<1> USE DEF requestVars
<1>1. /\ pc \in [Requests -> Labels] /\ mine \in [Requests -> 0..Len(pools)]
      /\ dropping \in [Requests -> Nat]
  BY DEF Base, PoolTypes
<1>2. ASSUME NEW label, GoTo(r, label) PROVE Goes
  BY <1>1, <1>2 DEF GoTo
<1>3. ASSUME NEW waiters, NEW label, NotifyAndGoTo(r, waiters, label) PROVE Goes
  BY <1>1, <1>3 DEF NotifyAndGoTo
<1>4. CASE OffPool(r)
  <2>1. Goes
    BY <1>2, <1>4 DEF OffPool, FindPool, NoPoolYet, CreatedMeanwhile, StartCreation, CreationFails,
                      WaitEnds, Connect, Detach, TryAgain
  <2>2. Moved
    BY <1>1, <1>4 DEF OffPool, FindPool, NoPoolYet, CreatedMeanwhile, StartCreation, CreationFails,
                      WaitEnds, Connect, Detach, TryAgain, Use
  <2>3. QED
    BY <2>1, <2>2 DEF Others
<1>5. CASE CreatePool(r)
  BY <1>1, <1>2, <1>5 DEF CreatePool, Use, Others
<1>6. CASE PoolIsClosed(r) \/ TakeIdle(r) \/ OpenNew(r) \/ Wait(r) \/ Exhausted(r) \/ ClosePool(r)
  <2>1. Goes
    BY <1>2, <1>6 DEF PoolIsClosed, TakeIdle, OpenNew, Wait, Exhausted, ClosePool
  <2>2. Moved
    BY <1>1, <1>6 DEF PoolIsClosed, TakeIdle, OpenNew, Wait, Exhausted, ClosePool
  <2>3. QED
    BY <2>1, <2>2 DEF Others
<1>7. CASE ConnectFails(r) \/ Release(r) \/ DropIdle(r)
  <2>1. Goes
    BY <1>3, <1>7 DEF ConnectFails, Release, GiveBack, GiveBackBroken, DropIdle, Forget
  <2>2. Moved
    BY <1>1, <1>7 DEF ConnectFails, Release, DropIdle
  <2>3. QED
    BY <2>1, <2>2 DEF Others
<1>8. QED
  BY <1>4, <1>5, <1>6, <1>7 DEF RequestStep, OffPool
-----------------------------------------------------------------------------
(***************************************************************************)
(* No lost wake-up. A request whose time is over stays in the queue until  *)
(* it has the lock, so a notification may go to it: it counts as told of a *)
(* free place once it has left the queue.                                  *)
(***************************************************************************)
Alert(p) == At(p, {"woken"}) \cup (At(p, {"late"}) \ W(p))
Places(p) == pools[p].idle + (Size - pools[p].open)

Wakened == \A p \in PoolIds : ~pools[p].closed /\ W(p) # {} => Places(p) <= Cardinality(Alert(p))

LEMMA AlertFacts == ASSUME NEW p PROVE IsFiniteSet(Alert(p)) /\ Cardinality(Alert(p)) \in Nat
<1>1. Alert(p) \subseteq Requests
  BY DEF Alert, At
<1>2. QED
  BY <1>1, FS_Subset, FS_CardinalityType

LEMMA QueueLeft ==
    ASSUME Base, NEW r \in Requests, TakeIdle(r) \/ OpenNew(r), NEW m, m = mine[r]
    PROVE  W(m)' = W(m) \ {r}
<1> DEFINE left == [pools[m] EXCEPT !.waiters = RemoveFirst(pools[m].waiters, r)]
<1>1. m \in PoolIds /\ pools[m] \in PoolStates
  BY OnPoolFacts DEF OnPool
<1>2. pools[m].waiters \in Seq(Requests) /\ IsInjective(pools[m].waiters)
  BY <1>1, WaiterFacts
<1>3. /\ left.waiters = RemoveFirst(pools[m].waiters, r)
      /\ \A i : WithIdle(left, i).waiters = left.waiters /\ WithOpen(left, i).waiters = left.waiters
  BY <1>1 DEF PoolStates, WithIdle, WithOpen
<1>4. left = Left(OfMine(r), r) /\ OfMine(r) = pools[m]
  BY DEF Left, OfMine
<1> HIDE DEF left
<1>5. \E i : pools' = [pools EXCEPT ![m] = WithIdle(left, i)] \/ pools' = [pools EXCEPT ![m] = WithOpen(left, i)]
  BY <1>4 DEF TakeIdle, OpenNew, SetMine, WithIdle, WithOpen
<1>6. pools \in Seq(PoolStates) /\ PoolIds = 1..Len(pools)
  BY DEF Base, PoolTypes, PoolIds
<1>7. pools'[m].waiters = RemoveFirst(pools[m].waiters, r)
  BY <1>1, <1>3, <1>5, <1>6
<1>8. QED
  BY <1>2, <1>7, Removed DEF W

LEMMA StepWakened == ASSUME Base, Wakened, NEW r \in Requests, RequestStep(r) PROVE Wakened'
<1>1. Others(r)
  BY OthersStay
<1>2. ASSUME NEW p \in PoolIds, pools'[p] = pools[p], r \notin Alert(p)
      PROVE  ~pools'[p].closed /\ W(p)' # {} => Places(p)' <= Cardinality(Alert(p)')
  <2>1. W(p)' = W(p) /\ Places(p)' = Places(p)
    BY <1>2 DEF W, Places
  <2>2. Alert(p) \subseteq Alert(p)'
    BY <1>1, <1>2, <2>1 DEF Others, Alert, At
  <2>3. Cardinality(Alert(p)) <= Cardinality(Alert(p)')
    <3>1. IsFiniteSet(Alert(p)')
      <4>1. Alert(p)' \subseteq Requests
        BY DEF Alert, At
      <4>2. QED
        BY <4>1, FS_Subset
    <3>2. QED
      BY <2>2, <3>1, FS_Subset
  <2>4. QED
    <3>1. Places(p) \in Int
      BY <1>2, WaiterFacts DEF Places, PoolStates
    <3>2. Cardinality(Alert(p)) \in Nat /\ Cardinality(Alert(p)') \in Nat
      <4>1. Alert(p)' \subseteq Requests
        BY DEF Alert, At
      <4>2. QED
        BY <4>1, AlertFacts, FS_Subset, FS_CardinalityType
    <3>3. ~pools[p].closed /\ W(p) # {} => Places(p) <= Cardinality(Alert(p))
      BY DEF Wakened
    <3> HIDE DEF Places
    <3>4. QED
      BY <1>2, <2>1, <2>3, <3>1, <3>2, <3>3
<1>3. CASE OffPool(r)
  <2>1. UNCHANGED pools /\ pc[r] \in {"look", "create", "check", "asleep", "connect", "reset", "drop"}
    BY <1>3 DEF OffPool, FindPool, NoPoolYet, CreatedMeanwhile, StartCreation, CreationFails, WaitEnds,
                Connect, Detach, TryAgain
  <2>2. \A p : r \notin Alert(p)
    BY <2>1 DEF Alert, At
  <2>3. QED
    BY <1>2, <2>1, <2>2 DEF Wakened, PoolIds
<1>4. CASE CreatePool(r)
  <2> DEFINE new == [closed |-> FALSE, idle |-> 1, open |-> 1, waiters |-> << >>]
  <2>1. pools' = Append(pools, new) /\ pc[r] = "check" /\ pools \in Seq(PoolStates)
    BY <1>4 DEF CreatePool, Base, PoolTypes
  <2>2. new.waiters = << >>
    OBVIOUS
  <2> HIDE DEF new
  <2>3. \A p : r \notin Alert(p)
    BY <2>1 DEF Alert, At
  <2>4. ASSUME NEW p \in PoolIds' PROVE (p \in PoolIds /\ pools'[p] = pools[p]) \/ pools'[p] = new
    BY <2>1 DEF PoolIds
  <2>5. ASSUME NEW p, pools'[p] = new PROVE W(p)' = {}
    BY <2>2, <2>5 DEF W, Range
  <2>6. QED
    BY <1>2, <2>3, <2>4, <2>5 DEF Wakened
<1>5. CASE OnPool(r)
  <2>1. PICK m \in PoolIds : m = mine[r] /\ pools[m] \in PoolStates
    BY <1>5, OnPoolFacts
  <2>2. PoolIds' = PoolIds /\ UNCHANGED mine /\ \A p \in PoolIds \ {m} : pools'[p] = pools[p]
    BY <1>5, <2>1, OnPoolFacts
  <2>3. ASSUME NEW p \in PoolIds \ {m}
        PROVE  ~pools'[p].closed /\ W(p)' # {} => Places(p)' <= Cardinality(Alert(p)')
    <3>1. r \notin Alert(p)
      BY <2>1 DEF Alert, At
    <3>2. QED
      BY <1>2, <2>2, <3>1
  <2>4. pools[m].idle \in Nat /\ pools[m].open \in Int /\ Places(m) \in Int /\ Size \in Nat
    BY <2>1 DEF PoolStates, Places
  <2>5. /\ IsFiniteSet(Alert(m)) /\ Cardinality(Alert(m)) \in Nat
        /\ IsFiniteSet(Alert(m)') /\ Cardinality(Alert(m)') \in Nat
    <3>1. Alert(m)' \subseteq Requests
      BY DEF Alert, At
    <3>2. QED
      BY <3>1, AlertFacts, FS_Subset, FS_CardinalityType
  <2> DEFINE Goal == ~pools'[m].closed /\ W(m)' # {} => Places(m)' <= Cardinality(Alert(m)')
  <2>6. ASSUME PoolIsClosed(r) \/ ClosePool(r) PROVE Goal
    <3>1. pools'[m].closed
      <4>1. PoolIsClosed(r) => pools'[m].closed = pools[m].closed
        BY <1>5, <2>1, CountsChange DEF Changed
      <4>2. ClosePool(r) => pools'[m] = [pools[m] EXCEPT !.closed = TRUE, !.idle = 0]
        BY <1>5, <2>1, CountsChange
      <4>3. PoolIsClosed(r) => pools[m].closed
        BY <2>1 DEF PoolIsClosed, OfMine
      <4>4. QED
        BY <2>1, <2>6, <4>1, <4>2, <4>3 DEF PoolStates
    <3>2. QED
      BY <3>1
  <2>7. ASSUME Wait(r) \/ Exhausted(r) PROVE Goal
    <3>1. pools[m].idle = 0 /\ pools[m].open >= Size
      BY <2>1, <2>4, <2>7 DEF Wait, Exhausted, Room, OfMine
    <3>2. Changed(m, 0, 0)
      BY <1>5, <2>1, <2>7, CountsChange
    <3>3. Places(m)' <= 0
      BY <2>4, <3>1, <3>2 DEF Changed, Places
    <3>4. Places(m)' \in Int
      BY <2>4, <3>2 DEF Changed, Places
    <3> HIDE DEF Places
    <3>5. QED
      BY <2>5, <3>3, <3>4
  <2>8. ASSUME TakeIdle(r) \/ OpenNew(r) PROVE Goal
    <3>1. Places(m)' = Places(m) - 1
      <4>1. Changed(m, -1, 0) \/ Changed(m, 0, 1)
        BY <1>5, <2>1, <2>8, CountsChange
      <4>2. QED
        BY <2>4, <4>1 DEF Changed, Places
    <3>2. pools'[m].closed = pools[m].closed
      BY <1>5, <2>1, <2>8, CountsChange DEF Changed
    <3>3. W(m)' = W(m) \ {r}
      BY <2>1, <2>8, QueueLeft
    <3>4. Alert(m) \ {r} \subseteq Alert(m)'
      BY <1>1, <3>3 DEF Others, Alert, At
    <3>5. Cardinality(Alert(m)) - 1 <= Cardinality(Alert(m) \ {r}) /\ Cardinality(Alert(m) \ {r}) \in Nat
      <4>1. IsFiniteSet(Alert(m) \ {r})
        BY <2>5, FS_RemoveElement
      <4>2. Cardinality(Alert(m) \ {r}) \in Nat
        BY <4>1, FS_CardinalityType
      <4>3. Cardinality(Alert(m) \ {r}) \in {Cardinality(Alert(m)) - 1, Cardinality(Alert(m))}
        BY <2>5, FS_RemoveElement
      <4>4. QED
        BY <2>5, <4>2, <4>3
    <3>6. Cardinality(Alert(m) \ {r}) <= Cardinality(Alert(m)')
      BY <2>5, <3>4, FS_Subset
    <3>7. W(m)' # {} => W(m) # {}
      BY <3>3
    <3> HIDE DEF Places
    <3>8. ~pools[m].closed /\ W(m) # {} => Places(m) <= Cardinality(Alert(m))
      BY DEF Wakened
    <3>9. ASSUME NEW a \in Int, NEW b \in Nat, NEW c \in Nat, NEW d \in Nat, a <= b, b - 1 <= c, c <= d
          PROVE  a - 1 <= d
      BY <3>9
    <3>10. QED
      BY <2>4, <2>5, <3>1, <3>2, <3>5, <3>6, <3>7, <3>8, <3>9
  <2>9. ASSUME ConnectFails(r) \/ Release(r) \/ DropIdle(r) PROVE Goal
    <3>1. PICK label, x : Notifies(r, label, x)
      BY <2>9, NotifySteps
    <3>2. PICK F : F = First(m)
      OBVIOUS
    <3>3. /\ F \subseteq W(m) /\ (F = {} => W(m) = {})
          /\ \A q, t \in F : q = t
          /\ W(m)' = W(m) \ F
          /\ pc'[r] = label
          /\ \A q \in Requests \ {r} :
                IF q \in F /\ pc[q] = "asleep" THEN pc'[q] = "woken" ELSE pc'[q] = pc[q]
          /\ \A q \in W(m) : q \in Requests \ {r} /\ mine[q] = m /\ pc[q] \in {"asleep", "late"}
      <4>1. W(mine[r])' = W(m)'
        BY <2>1, <2>2 DEF W
      <4>2. QED
        BY <2>1, <3>1, <3>2, <4>1, NotifyFacts
    <3>4. CASE W(m) = {}
      <4>1. W(m)' = {}
        BY <3>3, <3>4
      <4>2. QED
        BY <4>1
    <3>5. CASE W(m) # {}
      <4>1. PICK h : F = {h} /\ h \in W(m)
        BY <3>3, <3>5
      <4>2. h \notin Alert(m)
        BY <3>3, <4>1 DEF Alert, At
      <4>3. h \in Alert(m)'
        BY <2>2, <3>3, <4>1 DEF Alert, At
      <4>4. r \notin Alert(m)
        BY <3>1 DEF Notifies, Alert, At
      <4>5. Alert(m) \subseteq Alert(m)'
        BY <1>1, <3>3, <4>4 DEF Others, Alert, At
      <4>6. Alert(m) \cup {h} \subseteq Alert(m)'
        BY <4>3, <4>5
      <4>7. Cardinality(Alert(m) \cup {h}) = Cardinality(Alert(m)) + 1
        BY <2>5, <4>2, FS_AddElement
      <4>8. Cardinality(Alert(m)) + 1 <= Cardinality(Alert(m)')
        BY <2>5, <4>6, <4>7, FS_Subset
      <4>9. Places(m)' = Places(m) + 1 /\ pools'[m].closed = pools[m].closed
        <5>1. Changed(m, 0, -1) \/ Changed(m, 1, 0)
          BY <1>5, <2>1, <2>9, CountsChange
        <5>2. QED
          BY <2>4, <5>1 DEF Changed, Places
      <4> HIDE DEF Places
      <4>10. ~pools[m].closed => Places(m) <= Cardinality(Alert(m))
        BY <3>5 DEF Wakened
      <4>11. QED
        BY <2>4, <2>5, <4>8, <4>9, <4>10
    <3>6. QED
      BY <3>4, <3>5
  <2>10. Goal
    BY <1>5, <2>6, <2>7, <2>8, <2>9 DEF OnPool
  <2>11. QED
    BY <2>2, <2>3, <2>10 DEF Wakened
<1>6. QED
  BY <1>3, <1>4, <1>5 DEF RequestStep, OffPool, OnPool

(***************************************************************************)
(* No lost wake-up: while a request sleeps on an open pool, every free     *)
(* place is one that a request already woken, or one whose time is over,   *)
(* is about to look at.                                                    *)
(***************************************************************************)
THEOREM WakeupsArrive == Spec => []NoLostWakeup
<1>1. Init => Wakened
  BY DEF Init, Wakened, PoolIds
<1>2. Base /\ Wakened /\ [Next]_vars => Wakened'
  <2> SUFFICES ASSUME Base, Wakened, [Next]_vars PROVE Wakened'
    OBVIOUS
  <2>1. ASSUME NEW r \in Requests, RequestStep(r) PROVE Wakened'
    BY <2>1, StepWakened
  <2>2. CASE UNCHANGED <<pools, current, lock, pc, requestVars>>
    BY <2>2 DEF requestVars, Wakened, Places, Alert, At, W, PoolIds
  <2>3. QED
    BY <2>1, <2>2 DEF Next, DatabaseChanges, AllOver, vars
<1>3. Base /\ Wakened => NoLostWakeup
  <2> SUFFICES ASSUME Base, Wakened, NEW p \in PoolIds, ~pools[p].closed, At(p, {"asleep"}) # {}
               PROVE  Places(p) <= Cardinality(At(p, {"woken", "late"}))
    BY DEF NoLostWakeup, Places
  <2>1. W(p) # {}
    BY DEF Base, WaitersInv
  <2>2. Places(p) <= Cardinality(Alert(p)) /\ Places(p) \in Int
    BY <2>1, WaiterFacts DEF Wakened, Places, PoolStates
  <2>3. Alert(p) \subseteq At(p, {"woken", "late"}) /\ At(p, {"woken", "late"}) \subseteq Requests
    BY DEF Alert, At
  <2>4. IsFiniteSet(At(p, {"woken", "late"}))
    BY <2>3, FS_Subset
  <2>5. Cardinality(Alert(p)) <= Cardinality(At(p, {"woken", "late"}))
    BY <2>3, <2>4, FS_Subset
  <2>6. Cardinality(Alert(p)) \in Nat /\ Cardinality(At(p, {"woken", "late"})) \in Nat
    BY <2>4, AlertFacts, FS_CardinalityType
  <2> HIDE DEF Places
  <2>7. QED
    BY <2>2, <2>5, <2>6
<1>4. QED
  BY <1>1, <1>2, <1>3, AlwaysBase, PTL DEF Spec
-----------------------------------------------------------------------------
(***************************************************************************)
(* Every connection is counted, in whatever hands.                         *)
(***************************************************************************)
Lent(p) == At(p, {"connect", "use"})

Count(p) ==
    /\ pools[p].open = pools[p].idle + Cardinality(Lent(p)) + Cardinality(Doomed(p))
    /\ pools[p].open <= Size
    /\ pools[p].closed => pools[p].idle = 0

Counted == (\A p \in PoolIds : Count(p)) /\ (\A r \in Requests : dropping[r] <= Size)

LEMMA FiniteHands ==
    ASSUME NEW p
    PROVE  /\ IsFiniteSet(Lent(p)) /\ Cardinality(Lent(p)) \in Nat
           /\ IsFiniteSet(Doomed(p)) /\ Cardinality(Doomed(p)) \in Nat
<1>1. Lent(p) \subseteq Requests /\ Doomed(p) \subseteq Requests \X (1..Size)
  BY DEF Lent, Doomed, At
<1>2. IsFiniteSet(1..Size)
  BY FS_Interval
<1>3. IsFiniteSet(Requests \X (1..Size))
  BY <1>2, FS_Product
<1>4. IsFiniteSet(Lent(p)) /\ IsFiniteSet(Doomed(p))
  BY <1>1, <1>3, FS_Subset
<1>5. QED
  BY <1>4, FS_CardinalityType

LEMMA LentChange ==
    ASSUME NEW r \in Requests, Others(r), NEW p
    PROVE  /\ (r \in Lent(p)) = (r \in Lent(p)') => Lent(p)' = Lent(p)
           /\ r \notin Lent(p) /\ r \in Lent(p)' => Cardinality(Lent(p)') = Cardinality(Lent(p)) + 1
           /\ r \in Lent(p) /\ r \notin Lent(p)' => Cardinality(Lent(p)') = Cardinality(Lent(p)) - 1
<1>1. Lent(p)' \ {r} = Lent(p) \ {r}
  BY DEF Others, Lent, At
<1>2. (r \in Lent(p)) = (r \in Lent(p)') => Lent(p)' = Lent(p)
  BY <1>1
<1>3. ASSUME r \notin Lent(p), r \in Lent(p)'
      PROVE  Cardinality(Lent(p)') = Cardinality(Lent(p)) + 1
  <2>1. Lent(p)' = Lent(p) \cup {r}
    BY <1>1, <1>3
  <2>2. QED
    BY <1>3, <2>1, FiniteHands, FS_AddElement
<1>4. ASSUME r \in Lent(p), r \notin Lent(p)'
      PROVE  Cardinality(Lent(p)') = Cardinality(Lent(p)) - 1
  <2>1. Lent(p)' = Lent(p) \ {r}
    BY <1>1, <1>4
  <2>2. QED
    BY <1>4, <2>1, FiniteHands, FS_RemoveElement
<1>5. QED
  BY <1>2, <1>3, <1>4

\* r's row of Doomed(p).
Row(r, p) == {x \in {r} \X (1..Size) : r \in At(p, {"drop"}) /\ x[2] <= dropping[r]}

LEMMA DoomedRows ==
    ASSUME NEW r \in Requests, Others(r), NEW p
    PROVE  \E D : /\ Doomed(p) = D \cup Row(r, p) /\ Doomed(p)' = D \cup Row(r, p)'
                  /\ \A x \in D : x[1] # r
<1> DEFINE D == {x \in Doomed(p) : x[1] # r}
<1>1. Doomed(p) = D \cup Row(r, p)
  BY DEF Doomed, Row, At
<1>2. Doomed(p)' = D \cup Row(r, p)'
  BY DEF Others, Doomed, Row, At
<1>3. QED
  BY <1>1, <1>2

LEMMA DoomedChange ==
    ASSUME NEW r \in Requests, Others(r), NEW p
    PROVE  /\ Row(r, p)' = Row(r, p) => Doomed(p)' = Doomed(p)
           /\ \A k \in 0..Size : Row(r, p) = {} /\ Row(r, p)' = {r} \X (1..k)
                 => Cardinality(Doomed(p)') = Cardinality(Doomed(p)) + k
           /\ \A x \in Row(r, p) : Row(r, p)' = Row(r, p) \ {x}
                 => Cardinality(Doomed(p)') = Cardinality(Doomed(p)) - 1
<1>1. PICK D : /\ Doomed(p) = D \cup Row(r, p) /\ Doomed(p)' = D \cup Row(r, p)'
               /\ \A x \in D : x[1] # r
  BY DoomedRows
<1>2. Row(r, p)' = Row(r, p) => Doomed(p)' = Doomed(p)
  BY <1>1
<1>3. ASSUME NEW k \in 0..Size, Row(r, p) = {}, Row(r, p)' = {r} \X (1..k)
      PROVE  Cardinality(Doomed(p)') = Cardinality(Doomed(p)) + k
  <2>1. Doomed(p)' = Doomed(p) \cup ({r} \X (1..k)) /\ Doomed(p) = D
    BY <1>1, <1>3
  <2>2. Doomed(p) \cap ({r} \X (1..k)) = {}
    BY <1>1, <2>1
  <2>3. IsFiniteSet(1..k) /\ Cardinality(1..k) = k
    <3>1. 1 \in Int /\ k \in Int /\ (IF 1 > k THEN 0 ELSE k - 1 + 1) = k
      OBVIOUS
    <3>2. QED
      BY <3>1, FS_Interval
  <2>4. IsFiniteSet({r}) /\ Cardinality({r}) = 1
    BY FS_Singleton
  <2>5. IsFiniteSet({r} \X (1..k)) /\ Cardinality({r} \X (1..k)) = 1 * k
    BY <2>3, <2>4, FS_Product
  <2>6. Cardinality({}) = 0
    BY FS_EmptySet
  <2>7. Cardinality(Doomed(p)') = Cardinality(Doomed(p)) + Cardinality({r} \X (1..k)) - Cardinality({})
    BY <2>1, <2>2, <2>5, FiniteHands, FS_Union
  <2>8. QED
    BY <2>5, <2>6, <2>7, FiniteHands
<1>4. ASSUME NEW x \in Row(r, p), Row(r, p)' = Row(r, p) \ {x}
      PROVE  Cardinality(Doomed(p)') = Cardinality(Doomed(p)) - 1
  <2>1. x[1] = r
    BY DEF Row
  <2>2. Doomed(p)' = Doomed(p) \ {x} /\ x \in Doomed(p)
    BY <1>1, <1>4, <2>1
  <2>3. QED
    BY <2>2, FiniteHands, FS_RemoveElement
<1>5. QED
  BY <1>2, <1>3, <1>4
LEMMA StepCounted == ASSUME Base, Counted, NEW r \in Requests, RequestStep(r) PROVE Counted'
<1> DEFINE Drops == \A q \in Requests : dropping'[q] <= Size
<1>1. Others(r)
  BY OthersStay
<1>2. /\ pc \in [Requests -> Labels] /\ mine \in [Requests -> 0..Len(pools)]
      /\ dropping \in [Requests -> Nat] /\ Size \in Nat /\ Size >= 1
  BY DEF Base, PoolTypes
<1>3. ASSUME NEW p \in PoolIds, pools'[p] = pools[p],
             (r \in Lent(p)) = (r \in Lent(p)'), Row(r, p)' = Row(r, p)
      PROVE  Count(p)'
  BY <1>1, <1>3, LentChange, DoomedChange DEF Counted, Count
<1>4. ASSUME UNCHANGED dropping PROVE Drops
  BY <1>4 DEF Counted
<1>5. CASE OffPool(r)
  <2>1. UNCHANGED <<pools, dropping>>
    BY <1>5 DEF OffPool, FindPool, NoPoolYet, CreatedMeanwhile, StartCreation, CreationFails, WaitEnds,
                Connect, Detach, TryAgain, requestVars
  <2>2. ASSUME NEW p PROVE (r \in Lent(p)) = (r \in Lent(p)') /\ Row(r, p)' = Row(r, p)
    <3>1. CASE Connect(r)
      BY <1>2, <3>1 DEF Connect, GoTo, requestVars, Lent, Row, At
    <3>2. CASE TryAgain(r)
      <4>1. pc[r] = "drop" /\ pc'[r] = "look" /\ dropping[r] = 0
        BY <1>2, <3>2 DEF TryAgain, GoTo
      <4>2. \A i \in 1..Size : ~(i <= 0)
        OBVIOUS
      <4>3. QED
        BY <4>1, <4>2 DEF Lent, Row, At
    <3>3. CASE OffPool(r) /\ ~Connect(r) /\ ~TryAgain(r)
      <4>1. /\ pc[r] \in {"look", "create", "check", "asleep", "reset"}
            /\ pc'[r] \in {"acquire", "create", "check", "done", "late", "close"}
        BY <1>2, <3>3 DEF OffPool, FindPool, NoPoolYet, CreatedMeanwhile, StartCreation, CreationFails,
                          WaitEnds, Detach, GoTo
      <4>2. QED
        BY <4>1 DEF Lent, Row, At
    <3>4. QED
      BY <1>5, <3>1, <3>2, <3>3
  <2>3. \A p \in PoolIds : Count(p)'
    BY <1>3, <2>1, <2>2
  <2>4. QED
    BY <1>4, <2>1, <2>3 DEF Counted, PoolIds
<1>6. CASE CreatePool(r)
  <2> DEFINE new == [closed |-> FALSE, idle |-> 1, open |-> 1, waiters |-> << >>]
  <2>1. /\ pools' = Append(pools, new) /\ pc[r] = "check" /\ pools \in Seq(PoolStates)
        /\ pc'[r] = "acquire" /\ UNCHANGED dropping /\ mine' = [mine EXCEPT ![r] = Len(pools')]
    BY <1>2, <1>6 DEF CreatePool, Base, PoolTypes, GoTo, Use
  <2>2. new.open = 1 /\ new.idle = 1 /\ new.closed = FALSE
    OBVIOUS
  <2> HIDE DEF new
  <2>3. \A p : r \notin Lent(p) /\ r \notin Lent(p)' /\ Row(r, p)' = Row(r, p)
    BY <2>1 DEF Lent, Row, At
  <2>4. PICK n \in Nat : n = Len(pools) + 1
    BY <2>1
  <2>5. /\ pools'[n] = new /\ PoolIds' = PoolIds \cup {n} /\ n \notin 0..Len(pools)
        /\ \A p \in PoolIds : pools'[p] = pools[p]
    BY <2>1, <2>4 DEF PoolIds
  <2>6. Count(n)'
    <3>1. Lent(n)' = {} /\ Doomed(n)' = {}
      <4>1. \A q \in Requests \ {r} : mine'[q] # n
        BY <1>2, <2>1, <2>5
      <4>2. QED
        BY <2>1, <4>1 DEF Lent, Doomed, At
    <3>2. Cardinality({}) = 0
      BY FS_EmptySet
    <3>3. 1 = 1 + 0 + 0
      OBVIOUS
    <3>4. QED
      BY <1>2, <2>2, <2>5, <3>1, <3>2, <3>3 DEF Count
  <2>7. \A p \in PoolIds : Count(p)'
    BY <1>3, <2>3, <2>5
  <2>8. QED
    BY <1>4, <2>1, <2>5, <2>6, <2>7 DEF Counted
<1>7. CASE OnPool(r)
  <2>1. PICK m \in PoolIds : m = mine[r] /\ pools[m] \in PoolStates
    BY <1>7, OnPoolFacts
  <2>2. PoolIds' = PoolIds /\ UNCHANGED mine /\ \A p \in PoolIds \ {m} : pools'[p] = pools[p]
    BY <1>7, <2>1, OnPoolFacts
  <2>3. ASSUME NEW p \in PoolIds \ {m} PROVE Count(p)'
    <3>1. (r \in Lent(p)) = (r \in Lent(p)') /\ Row(r, p)' = Row(r, p)
      BY <2>1, <2>2 DEF Lent, Row, At
    <3>2. QED
      BY <1>3, <2>2, <3>1
  <2>4. PICK i \in Nat, o \in Int, l \in Nat, d \in Nat :
           /\ i = pools[m].idle /\ o = pools[m].open
           /\ l = Cardinality(Lent(m)) /\ d = Cardinality(Doomed(m))
    BY <2>1, FiniteHands DEF PoolStates
  <2>5. o = i + l + d /\ o <= Size /\ (pools[m].closed => i = 0)
    BY <2>4 DEF Counted, Count
  <2>6. ASSUME NEW di \in {-1, 0, 1}, NEW do \in {-1, 0, 1}, NEW dl \in {-1, 0, 1}, NEW dd \in {-1, 0},
               Changed(m, di, do), do = di + dl + dd,
               Cardinality(Lent(m)') = l + dl, Cardinality(Doomed(m)') = d + dd,
               do = 1 => o < Size, pools[m].closed => di = 0
        PROVE  Count(m)'
    <3>1. pools'[m].idle = i + di /\ pools'[m].open = o + do /\ pools'[m].closed = pools[m].closed
      BY <2>4, <2>6 DEF Changed
    <3>2. o + do = (i + di) + (l + dl) + (d + dd)
      BY <2>5, <2>6
    <3>3. o + do <= Size
      BY <1>2, <2>5, <2>6
    <3>4. pools[m].closed => i + di = 0
      BY <2>5, <2>6
    <3>5. QED
      BY <2>6, <3>1, <3>2, <3>3, <3>4 DEF Count
  <2>7. CASE PoolIsClosed(r) \/ Wait(r) \/ Exhausted(r)
    <3>1. /\ pc[r] \in Entering /\ pc'[r] \in {"asleep", "done"} /\ UNCHANGED dropping
      BY <1>2, <2>7 DEF PoolIsClosed, Wait, Exhausted, Entering, GoTo, requestVars
    <3>2. r \notin Lent(m) /\ r \notin Lent(m)' /\ Row(r, m)' = Row(r, m)
      BY <3>1 DEF Entering, Lent, Row, At
    <3>3. Changed(m, 0, 0)
      BY <1>7, <2>1, <2>7, CountsChange
    <3>4. Lent(m)' = Lent(m) /\ Doomed(m)' = Doomed(m)
      BY <1>1, <3>2, LentChange, DoomedChange
    <3>5. Count(m)'
      BY <2>4, <2>6, <3>3, <3>4
    <3>6. QED
      BY <1>4, <2>2, <2>3, <3>1, <3>5 DEF Counted
  <2>8. CASE TakeIdle(r) \/ OpenNew(r)
    <3>1. /\ pc[r] \in Entering /\ pc'[r] \in {"use", "connect"} /\ UNCHANGED dropping
      BY <1>2, <2>8 DEF TakeIdle, OpenNew, GoTo, requestVars
    <3>2. r \notin Lent(m) /\ r \in Lent(m)' /\ Row(r, m)' = Row(r, m)
      BY <2>1, <2>2, <3>1 DEF Entering, Lent, Row, At
    <3>3. Cardinality(Lent(m)') = l + 1 /\ Cardinality(Doomed(m)') = d
      BY <1>1, <2>4, <3>2, LentChange, DoomedChange
    <3>4. Count(m)'
      <4>1. CASE TakeIdle(r)
        <5>1. Changed(m, -1, 0)
          BY <1>7, <2>1, <4>1, CountsChange
        <5>2. ~pools[m].closed
          BY <2>1, <4>1 DEF TakeIdle, OfMine
        <5>3. -1 \in {-1, 0, 1} /\ 0 = -1 + 1 + 0 /\ d = d + 0
          BY <2>4
        <5>4. QED
          BY <2>6, <3>3, <5>1, <5>2, <5>3
      <4>2. CASE OpenNew(r)
        <5>1. Changed(m, 0, 1)
          BY <1>7, <2>1, <4>2, CountsChange
        <5>2. o < Size
          BY <2>1, <2>4, <4>2 DEF OpenNew, OfMine
        <5>3. QED
          BY <2>6, <3>3, <5>1, <5>2
      <4>3. QED
        BY <2>8, <4>1, <4>2
    <3>5. QED
      BY <1>4, <2>2, <2>3, <3>1, <3>4 DEF Counted
  <2>9. CASE ConnectFails(r) \/ Release(r)
    <3>1. /\ pc[r] \in {"connect", "use"} /\ pc'[r] \in {"done", "reset"} /\ UNCHANGED dropping
      BY <1>2, <2>9 DEF ConnectFails, Release, GiveBack, GiveBackBroken, Forget, NotifyAndGoTo, requestVars
    <3>2. r \in Lent(m) /\ r \notin Lent(m)' /\ Row(r, m)' = Row(r, m)
      BY <2>1, <3>1 DEF Lent, Row, At
    <3>3. Cardinality(Lent(m)') = l - 1 /\ Cardinality(Doomed(m)') = d
      BY <1>1, <2>4, <3>2, LentChange, DoomedChange
    <3>4. Changed(m, 0, -1) \/ (~pools[m].closed /\ Changed(m, 1, 0))
      BY <1>7, <2>1, <2>9, CountsChange
    <3>5. Count(m)'
      <4>1. -1 \in {-1, 0, 1} /\ l - 1 = l + (-1) /\ d = d + 0 /\ -1 = 0 + -1 + 0 /\ 0 = 1 + -1 + 0
        BY <2>4
      <4>2. QED
        BY <2>6, <3>3, <3>4, <4>1
    <3>6. QED
      BY <1>4, <2>2, <2>3, <3>1, <3>5 DEF Counted
  <2>10. CASE ClosePool(r)
    <3>1. /\ pc[r] = "close" /\ pc'[r] = "drop" /\ dropping'[r] = i
      BY <1>2, <2>1, <2>4, <2>10 DEF ClosePool, GoTo, OfMine
    <3>2. i \in 0..Size
      BY <1>2, <2>4, <2>5
    <3>3. Row(r, m) = {} /\ Row(r, m)' = {r} \X (1..i)
      <4>1. {j \in 1..Size : j <= i} = 1..i
        BY <1>2, <3>2
      <4>2. QED
        BY <2>1, <2>2, <3>1, <4>1 DEF Row, At
    <3>4. r \notin Lent(m) /\ r \notin Lent(m)'
      BY <3>1 DEF Lent, At
    <3>5. Cardinality(Doomed(m)') = d + i /\ Lent(m)' = Lent(m)
      BY <1>1, <2>4, <3>2, <3>3, <3>4, LentChange, DoomedChange
    <3>6. pools'[m].open = o /\ pools'[m].idle = 0
      <4>1. pools'[m] = [pools[m] EXCEPT !.closed = TRUE, !.idle = 0]
        BY <1>7, <2>1, <2>10, CountsChange
      <4>2. QED
        BY <2>1, <2>4, <4>1 DEF PoolStates
    <3>7. o = 0 + l + (d + i)
      BY <2>4, <2>5
    <3>8. Count(m)'
      BY <2>4, <2>5, <3>5, <3>6, <3>7 DEF Count
    <3>9. Drops
      BY <1>1, <1>2, <3>1, <3>2 DEF Others, Counted
    <3>10. QED
      BY <2>2, <2>3, <3>8, <3>9 DEF Counted
  <2>11. CASE DropIdle(r)
    <3>1. PICK k \in Nat : k = dropping[r] /\ k >= 1 /\ k <= Size
      BY <1>2, <2>11 DEF DropIdle, Counted
    <3>2. pc[r] = "drop" /\ pc'[r] = "drop" /\ dropping'[r] = k - 1
      BY <1>2, <2>11, <3>1 DEF DropIdle, Forget, NotifyAndGoTo
    <3>3. <<r, k>> \in Row(r, m) /\ Row(r, m)' = Row(r, m) \ {<<r, k>>}
      <4>1. \A j \in 1..Size : (j <= k - 1) <=> (j <= k /\ j # k)
        BY <3>1
      <4>2. k \in 1..Size
        BY <1>2, <3>1
      <4>3. QED
        BY <2>1, <2>2, <3>1, <3>2, <4>1, <4>2 DEF Row, At
    <3>4. r \notin Lent(m) /\ r \notin Lent(m)'
      BY <3>2 DEF Lent, At
    <3>5. Cardinality(Doomed(m)') = d - 1 /\ Lent(m)' = Lent(m)
      BY <1>1, <2>4, <3>3, <3>4, LentChange, DoomedChange
    <3>6. Changed(m, 0, -1)
      BY <1>7, <2>1, <2>11, CountsChange
    <3>7. Count(m)'
      <4>1. -1 \in {-1, 0} /\ l = l + 0 /\ d - 1 = d + (-1) /\ -1 = 0 + 0 + -1
        BY <2>4
      <4>2. QED
        BY <2>4, <2>6, <3>5, <3>6, <4>1
    <3>8. Drops
      BY <1>1, <1>2, <3>1, <3>2 DEF Others, Counted
    <3>9. QED
      BY <2>2, <2>3, <3>7, <3>8 DEF Counted
  <2>12. QED
    BY <1>7, <2>7, <2>8, <2>9, <2>10, <2>11 DEF OnPool
<1>8. QED
  BY <1>5, <1>6, <1>7 DEF RequestStep, OffPool, OnPool

(***************************************************************************)
(* `_open` counts the connections of a pool through failed connects,       *)
(* broken connections and a close in between: it never exceeds the size,   *)
(* and no connection that is gone stays counted. A closed pool keeps none. *)
(***************************************************************************)
THEOREM ConnectionsCounted == Spec => []CountsConnections
<1>1. Init => Counted
  BY DEF Init, Counted, PoolIds
<1>2. Base /\ Counted /\ [Next]_vars => Counted'
  <2> SUFFICES ASSUME Base, Counted, [Next]_vars PROVE Counted'
    OBVIOUS
  <2>1. ASSUME NEW r \in Requests, RequestStep(r) PROVE Counted'
    BY <2>1, StepCounted
  <2>2. CASE UNCHANGED <<pools, current, lock, pc, requestVars>>
    BY <2>2 DEF requestVars, Counted, Count, Lent, Doomed, At, PoolIds
  <2>3. QED
    BY <2>1, <2>2 DEF Next, DatabaseChanges, AllOver, vars
<1>3. Counted => CountsConnections
  BY DEF Counted, Count, Lent, CountsConnections
<1>4. QED
  BY <1>1, <1>2, <1>3, AlwaysBase, PTL DEF Spec

-----------------------------------------------------------------------------
(***************************************************************************)
(* SyncCaches: the inductive invariant and what follows, for any number of *)
(* changes and faults.                                                     *)
(***************************************************************************)
HIDE PoolAssumptions DEF NoPool, Nobody

CallLabels == {"idle", "token", "gate", "store", "entry", "keep", "look", "fill", "answer"}

CallStates == [pc : CallLabels, token : Int, value : Int, label : Int, key : Int]

SyncTypes ==
    /\ gen \in Nat
    /\ ttl \in [token : Int, young : BOOLEAN, since : SUBSET Calls]
    /\ gate \in Calls \cup {Free} /\ covers \subseteq Calls
    /\ entry \in [label : Int, recent : BOOLEAN, value : Int]
    /\ plain \in Int /\ stamps \in Int
    /\ calls \in [Calls -> CallStates]

\* A token is read from a state that was, never from one to come.
TokensFromThePast ==
    /\ ttl.token <= gen
    /\ \A c \in Calls : calls[c].token <= gen

\* Whoever computes a token holds the gate.
GateHeld == \A c \in Calls : IsAt(c, "store") <=> gate = c

\* The calls a computed token is for wait at the gate.
WaitersAtGate ==
    /\ \A c \in covers \cup ttl.since : IsAt(c, "gate")
    /\ gate = Free => covers = {}

\* Such a call had asked before the token was computed.
AtLeast(t, u) == t = None \/ t >= u

SharedIsFresh ==
    /\ \A c \in ttl.since : AtLeast(ttl.token, calls[c].token)
    /\ \A c \in covers : AtLeast(calls[gate].token, calls[c].token)

\* A catalog is built after the tokens it is labelled with were read.
BuiltAfterLabel == \A c \in Calls : IsAt(c, "keep") => calls[c].value >= calls[c].token

SyncInv ==
    /\ SyncTypes /\ TokensFromThePast /\ GateHeld /\ WaitersAtGate
    /\ SharedIsFresh /\ BuiltAfterLabel /\ CatalogAsNewAsLabel

USE SyncAssumption DEF None, Free, Calls, Catalogs, IsAt, CallStates

\* Shapes of a call that opens or ends.
LEMMA IdleCall ==
    /\ Idle \in CallStates
    /\ Idle.pc = "idle" /\ Idle.token = -1
BY DEF Idle, CallLabels

LEMMA OpenCall ==
    ASSUME SyncInv, NEW c \in Calls, NEW label \in {"token", "look"}, NEW key \in Int,
           calls' = Open(c, label, key)
    PROVE  /\ calls' \in [Calls -> CallStates]
           /\ calls'[c].pc = label /\ calls'[c].token = -1
           /\ \A d \in Calls \ {c} : calls'[d] = calls[d]
<1> DEFINE r == [Idle EXCEPT !.pc = label, !.key = key]
<1>1. label \in CallLabels
  BY DEF CallLabels
<1>2. r \in CallStates /\ r.pc = label /\ r.token = -1
  BY <1>1, IdleCall
<1>3. calls' = [calls EXCEPT ![c] = r]
  BY DEF Open
<1> HIDE DEF r
<1>4. QED
  BY <1>2, <1>3 DEF SyncInv, SyncTypes

LEMMA EndedCall ==
    ASSUME SyncInv, NEW c \in Calls, Ends(c)
    PROVE  /\ calls' \in [Calls -> CallStates]
           /\ calls'[c].pc = "idle" /\ calls'[c].token = -1
           /\ \A d \in Calls \ {c} : calls'[d] = calls[d]
           /\ IsAt(c, "answer")
BY IdleCall DEF Ends, SyncInv, SyncTypes

LEMMA InitInv == SyncInit => SyncInv
<1> SUFFICES ASSUME SyncInit PROVE SyncInv
  OBVIOUS
<1> USE DEF SyncInit, Idle
<1>1. SyncTypes
  <2>1. calls \in [Calls -> CallStates]
    BY DEF CallLabels
  <2>2. QED
    BY <2>1 DEF SyncTypes
<1>2. TokensFromThePast
  BY DEF TokensFromThePast
<1>3. GateHeld
  BY DEF GateHeld
<1>4. WaitersAtGate
  BY DEF WaitersAtGate
<1>5. SharedIsFresh
  BY DEF SharedIsFresh
<1>6. BuiltAfterLabel
  BY DEF BuiltAfterLabel
<1>7. CatalogAsNewAsLabel
  BY DEF CatalogAsNewAsLabel
<1>8. QED
  BY <1>1, <1>2, <1>3, <1>4, <1>5, <1>6, <1>7 DEF SyncInv

\* One call goes on, and neither takes a token from the gate nor gives one.
CallGoesOn(c) ==
    /\ UNCHANGED <<gen, ttl, gate, covers>>
    /\ ~IsAt(c, "gate") /\ ~IsAt(c, "store") /\ ~IsAt(c, "store")'
    /\ calls'[c].token <= gen
    /\ IsAt(c, "keep")' => calls'[c].value >= calls'[c].token
    /\ \A d \in Calls \ {c} : calls'[d] = calls[d]

\* Most steps only move one call.
LEMMA GoesOnInv ==
    ASSUME SyncInv, NEW c \in Calls, SyncTypes', CatalogAsNewAsLabel', CallGoesOn(c)
    PROVE SyncInv'
<1> USE DEF SyncInv, CallGoesOn
<1>2. TokensFromThePast'
  BY DEF TokensFromThePast
<1>3. GateHeld'
  BY DEF GateHeld
<1>4. WaitersAtGate'
  <2>1. covers \cup ttl.since \subseteq Calls \ {c}
    <3>1. covers \subseteq Calls /\ ttl.since \subseteq Calls
      BY DEF SyncTypes
    <3>2. \A d \in covers \cup ttl.since : IsAt(d, "gate")
      BY DEF WaitersAtGate
    <3>3. ~IsAt(c, "gate")
      OBVIOUS
    <3> HIDE DEF SyncInv, CallGoesOn
    <3>4. QED
      BY <3>1, <3>2, <3>3
  <2>2. QED
    BY <2>1 DEF WaitersAtGate
<1>5. SharedIsFresh'
  BY DEF SharedIsFresh, AtLeast, WaitersAtGate, GateHeld, SyncTypes
<1>6. BuiltAfterLabel'
  BY DEF BuiltAfterLabel
<1>8. QED
  BY <1>2, <1>3, <1>4, <1>5, <1>6

\* The other steps move none.
LEMMA FrameInv ==
    ASSUME SyncInv, SyncTypes', gen' >= gen, UNCHANGED <<gate, covers>>,
           ttl'.token = ttl.token, ttl'.since = ttl.since,
           entry'.label = entry.label, entry'.value = entry.value,
           \A d \in Calls : /\ calls'[d].pc = calls[d].pc /\ calls'[d].token = calls[d].token
                           /\ calls'[d].value = calls[d].value
    PROVE SyncInv'
<1> USE DEF SyncInv, SyncTypes
<1>2. TokensFromThePast'
  BY DEF TokensFromThePast
<1>3. GateHeld'
  BY DEF GateHeld
<1>4. WaitersAtGate'
  BY DEF WaitersAtGate
<1>5. SharedIsFresh'
  BY DEF SharedIsFresh, AtLeast, WaitersAtGate
<1>6. BuiltAfterLabel'
  BY DEF BuiltAfterLabel
<1>7. CatalogAsNewAsLabel'
  BY DEF CatalogAsNewAsLabel
<1>8. QED
  BY <1>2, <1>3, <1>4, <1>5, <1>6, <1>7

-----------------------------------------------------------------------------
(***************************************************************************)
(* The calls, one lemma per action.                                        *)
(***************************************************************************)
LEMMA TokenHitInv ==
    ASSUME SyncInv, NEW c \in Calls, TokenHit(c)
    PROVE SyncInv'
<1> USE DEF TokenHit, WithToken, Open, Ends, Heard, Fault, serverVars, pageVars, boundVars
<1>1. SyncTypes'
  BY DEF SyncInv, SyncTypes, CallLabels
<1>2. CatalogAsNewAsLabel'
  BY DEF SyncInv, CatalogAsNewAsLabel, BuiltAfterLabel, Label, SyncTypes
<1>3. CallGoesOn(c)
  BY DEF SyncInv, SyncTypes, CallGoesOn, TokensFromThePast, BuiltAfterLabel, CallLabels
<1>4. QED
  BY <1>1, <1>2, <1>3, GoesOnInv

LEMMA TokenMissInv ==
    ASSUME SyncInv, NEW c \in Calls, TokenMiss(c)
    PROVE SyncInv'
<1> USE DEF TokenMiss, WithToken, Open, Ends, Heard, Fault, serverVars, pageVars, boundVars
<1>1. SyncTypes'
  BY DEF SyncInv, SyncTypes, CallLabels
<1>2. CatalogAsNewAsLabel'
  BY DEF SyncInv, CatalogAsNewAsLabel, BuiltAfterLabel, Label, SyncTypes
<1>3. CallGoesOn(c)
  BY DEF SyncInv, SyncTypes, CallGoesOn, TokensFromThePast, BuiltAfterLabel, CallLabels
<1>4. QED
  BY <1>1, <1>2, <1>3, GoesOnInv

LEMMA EntryHitInv ==
    ASSUME SyncInv, NEW c \in Calls, EntryHit(c)
    PROVE SyncInv'
<1> USE DEF EntryHit, WithToken, Open, Ends, Heard, Fault, serverVars, pageVars, boundVars
<1>1. SyncTypes'
  BY DEF SyncInv, SyncTypes, CallLabels
<1>2. CatalogAsNewAsLabel'
  BY DEF SyncInv, CatalogAsNewAsLabel, BuiltAfterLabel, Label, SyncTypes
<1>3. CallGoesOn(c)
  BY DEF SyncInv, SyncTypes, CallGoesOn, TokensFromThePast, BuiltAfterLabel, CallLabels
<1>4. QED
  BY <1>1, <1>2, <1>3, GoesOnInv

LEMMA EntryBuildInv ==
    ASSUME SyncInv, NEW c \in Calls, EntryBuild(c)
    PROVE SyncInv'
<1> USE DEF EntryBuild, WithToken, Open, Ends, Heard, Fault, serverVars, pageVars, boundVars
<1>1. SyncTypes'
  BY DEF SyncInv, SyncTypes, CallLabels
<1>2. CatalogAsNewAsLabel'
  BY DEF SyncInv, CatalogAsNewAsLabel, BuiltAfterLabel, Label, SyncTypes
<1>3. CallGoesOn(c)
  BY DEF SyncInv, SyncTypes, CallGoesOn, TokensFromThePast, BuiltAfterLabel, CallLabels
<1>4. QED
  BY <1>1, <1>2, <1>3, GoesOnInv

LEMMA EntryKeepInv ==
    ASSUME SyncInv, NEW c \in Calls, EntryKeep(c)
    PROVE SyncInv'
<1> USE DEF EntryKeep, WithToken, Open, Ends, Heard, Fault, serverVars, pageVars, boundVars
<1>1. SyncTypes'
  <2>1. entry' \in [label : Int, recent : BOOLEAN, value : Int]
    BY DEF Label, SyncInv, SyncTypes
  <2>2. calls' \in [Calls -> CallStates]
    BY DEF SyncInv, SyncTypes, CallLabels
  <2>3. QED
    BY <2>1, <2>2 DEF SyncInv, SyncTypes
<1>2. CatalogAsNewAsLabel'
  BY DEF SyncInv, CatalogAsNewAsLabel, BuiltAfterLabel, Label, SyncTypes
<1>3. CallGoesOn(c)
  BY DEF SyncInv, SyncTypes, CallGoesOn, TokensFromThePast, BuiltAfterLabel, CallLabels
<1>4. QED
  BY <1>1, <1>2, <1>3, GoesOnInv

LEMMA DataHitInv ==
    ASSUME SyncInv, NEW c \in Calls, DataHit(c)
    PROVE SyncInv'
<1> USE DEF DataHit, WithToken, Open, Ends, Heard, Fault, serverVars, pageVars, boundVars
<1>1. SyncTypes'
  BY DEF SyncInv, SyncTypes, CallLabels
<1>2. CatalogAsNewAsLabel'
  BY DEF SyncInv, CatalogAsNewAsLabel, BuiltAfterLabel, Label, SyncTypes
<1>3. CallGoesOn(c)
  BY DEF SyncInv, SyncTypes, CallGoesOn, TokensFromThePast, BuiltAfterLabel, CallLabels
<1>4. QED
  BY <1>1, <1>2, <1>3, GoesOnInv

LEMMA DataReadInv ==
    ASSUME SyncInv, NEW c \in Calls, DataRead(c)
    PROVE SyncInv'
<1> USE DEF DataRead, WithToken, Open, Ends, Heard, Fault, serverVars, pageVars, boundVars
<1>1. SyncTypes'
  BY DEF SyncInv, SyncTypes, CallLabels
<1>2. CatalogAsNewAsLabel'
  BY DEF SyncInv, CatalogAsNewAsLabel, BuiltAfterLabel, Label, SyncTypes
<1>3. CallGoesOn(c)
  BY DEF SyncInv, SyncTypes, CallGoesOn, TokensFromThePast, BuiltAfterLabel, CallLabels
<1>4. QED
  BY <1>1, <1>2, <1>3, GoesOnInv

LEMMA DataFillInv ==
    ASSUME SyncInv, NEW c \in Calls, DataFill(c)
    PROVE SyncInv'
<1> USE DEF DataFill, WithToken, Open, Ends, Heard, Fault, serverVars, pageVars, boundVars
<1>1. SyncTypes'
  BY DEF SyncInv, SyncTypes, CallLabels
<1>2. CatalogAsNewAsLabel'
  BY DEF SyncInv, CatalogAsNewAsLabel, BuiltAfterLabel, Label, SyncTypes
<1>3. CallGoesOn(c)
  BY DEF SyncInv, SyncTypes, CallGoesOn, TokensFromThePast, BuiltAfterLabel, CallLabels
<1>4. QED
  BY <1>1, <1>2, <1>3, GoesOnInv

LEMMA SyncAnsweredInv ==
    ASSUME SyncInv, SyncAnswered
    PROVE SyncInv'
<1>1. Ends("sync")
  BY DEF SyncAnswered
<1>2. UNCHANGED <<gen, ttl, gate, covers, entry, plain>> /\ UNCHANGED stamps
  BY DEF SyncAnswered, serverVars, pageVars
<1>3. SyncTypes'
  BY <1>1, <1>2, EndedCall DEF SyncInv, SyncTypes
<1>4. CallGoesOn("sync")
  BY <1>1, <1>2, EndedCall DEF CallGoesOn, SyncInv, SyncTypes
<1>5. QED
  BY <1>2, <1>3, <1>4, GoesOnInv DEF SyncInv, CatalogAsNewAsLabel

LEMMA AskSyncInv ==
    ASSUME SyncInv, AskSync
    PROVE SyncInv'
<1>1. calls' = Open("sync", "token", -1) /\ IsAt("sync", "idle")
  BY DEF AskSync
<1>2. UNCHANGED <<gen, ttl, gate, covers, entry, plain>> /\ UNCHANGED stamps
  BY DEF AskSync, serverVars, pageVars
<1>3. SyncTypes'
  BY <1>1, <1>2, OpenCall DEF SyncInv, SyncTypes
<1>4. CallGoesOn("sync")
  BY <1>1, <1>2, OpenCall DEF CallGoesOn, SyncInv, SyncTypes
<1>5. QED
  BY <1>2, <1>3, <1>4, GoesOnInv DEF SyncInv, CatalogAsNewAsLabel

LEMMA ApplyInv ==
    ASSUME SyncInv, Apply
    PROVE SyncInv'
<1> DEFINE t == Head(queue)
<1>0. CASE Refetches(t)
  <2>1. calls' = Open("catalog", "token", -1) /\ IsAt("catalog", "idle")
    BY <1>0 DEF Apply
  <2>2. UNCHANGED <<gen, ttl, gate, covers, entry, plain, stamps>>
    BY DEF Apply, serverVars
  <2>3. SyncTypes'
    BY <2>1, <2>2, OpenCall DEF SyncInv, SyncTypes
  <2>4. CallGoesOn("catalog")
    BY <2>1, <2>2, OpenCall DEF CallGoesOn, SyncInv, SyncTypes
  <2>5. QED
    BY <2>2, <2>3, <2>4, GoesOnInv DEF SyncInv, CatalogAsNewAsLabel
<1>1. CASE ~Refetches(t)
  <2>1. UNCHANGED <<gen, ttl, gate, covers, entry, plain, stamps, calls>>
    BY <1>1 DEF Apply, serverVars
  <2>2. QED
    BY <2>1, FrameInv DEF SyncInv, SyncTypes
<1>2. QED
  BY <1>0, <1>1

LEMMA CatalogAnsweredInv ==
    ASSUME SyncInv, CatalogAnswered
    PROVE SyncInv'
<1>1. Ends("catalog")
  BY DEF CatalogAnswered
<1>2. UNCHANGED <<gen, ttl, gate, covers, entry, plain>> /\ stamps' \in Int
  BY DEF SyncInv, SyncTypes, CatalogAnswered, serverVars, pageVars
<1>3. SyncTypes'
  BY <1>1, <1>2, EndedCall DEF SyncInv, SyncTypes
<1>4. CallGoesOn("catalog")
  BY <1>1, <1>2, EndedCall DEF CallGoesOn, SyncInv, SyncTypes
<1>5. QED
  BY <1>2, <1>3, <1>4, GoesOnInv DEF SyncInv, CatalogAsNewAsLabel

LEMMA CatalogLostInv ==
    ASSUME SyncInv, CatalogLost
    PROVE SyncInv'
<1>1. Ends("catalog")
  BY DEF CatalogLost
<1>2. UNCHANGED <<gen, ttl, gate, covers, entry, plain>> /\ UNCHANGED stamps
  BY DEF CatalogLost, serverVars, pageVars
<1>3. SyncTypes'
  BY <1>1, <1>2, EndedCall DEF SyncInv, SyncTypes
<1>4. CallGoesOn("catalog")
  BY <1>1, <1>2, EndedCall DEF CallGoesOn, SyncInv, SyncTypes
<1>5. QED
  BY <1>2, <1>3, <1>4, GoesOnInv DEF SyncInv, CatalogAsNewAsLabel

LEMMA CatalogOrphanedInv ==
    ASSUME SyncInv, CatalogOrphaned
    PROVE SyncInv'
<1>1. Ends("catalog")
  BY DEF CatalogOrphaned
<1>2. UNCHANGED <<gen, ttl, gate, covers, entry, plain>> /\ UNCHANGED stamps
  BY DEF CatalogOrphaned, serverVars, pageVars
<1>3. SyncTypes'
  BY <1>1, <1>2, EndedCall DEF SyncInv, SyncTypes
<1>4. CallGoesOn("catalog")
  BY <1>1, <1>2, EndedCall DEF CallGoesOn, SyncInv, SyncTypes
<1>5. QED
  BY <1>2, <1>3, <1>4, GoesOnInv DEF SyncInv, CatalogAsNewAsLabel

LEMMA DataAnsweredInv ==
    ASSUME SyncInv, DataAnswered
    PROVE SyncInv'
<1>1. Ends("data")
  BY DEF DataAnswered
<1>2. UNCHANGED <<gen, ttl, gate, covers, entry, plain>> /\ UNCHANGED stamps
  BY DEF DataAnswered, serverVars, pageVars
<1>3. SyncTypes'
  BY <1>1, <1>2, EndedCall DEF SyncInv, SyncTypes
<1>4. CallGoesOn("data")
  BY <1>1, <1>2, EndedCall DEF CallGoesOn, SyncInv, SyncTypes
<1>5. QED
  BY <1>2, <1>3, <1>4, GoesOnInv DEF SyncInv, CatalogAsNewAsLabel

LEMMA AskDataInv ==
    ASSUME SyncInv, AskData
    PROVE SyncInv'
<1>1. calls' = Open("data", "look", stamps) /\ IsAt("data", "idle")
  BY DEF AskData
<1>2. UNCHANGED <<gen, ttl, gate, covers, entry, plain>> /\ UNCHANGED stamps
  BY DEF AskData, serverVars, pageVars
<1>3. SyncTypes'
  BY <1>1, <1>2, OpenCall DEF SyncInv, SyncTypes
<1>4. CallGoesOn("data")
  BY <1>1, <1>2, OpenCall DEF CallGoesOn, SyncInv, SyncTypes
<1>5. QED
  BY <1>2, <1>3, <1>4, GoesOnInv DEF SyncInv, CatalogAsNewAsLabel

LEMMA OtherAsksInv ==
    ASSUME SyncInv, OtherAsks
    PROVE SyncInv'
<1>1. calls' = Open("other", "token", -1) /\ IsAt("other", "idle")
  BY DEF OtherAsks
<1>2. UNCHANGED <<gen, ttl, gate, covers, entry, plain>> /\ UNCHANGED stamps
  BY DEF OtherAsks, serverVars, pageVars
<1>3. SyncTypes'
  BY <1>1, <1>2, OpenCall DEF SyncInv, SyncTypes
<1>4. CallGoesOn("other")
  BY <1>1, <1>2, OpenCall DEF CallGoesOn, SyncInv, SyncTypes
<1>5. QED
  BY <1>2, <1>3, <1>4, GoesOnInv DEF SyncInv, CatalogAsNewAsLabel

LEMMA OtherAnsweredInv ==
    ASSUME SyncInv, OtherAnswered
    PROVE SyncInv'
<1>1. Ends("other")
  BY DEF OtherAnswered
<1>2. UNCHANGED <<gen, ttl, gate, covers, entry, plain>> /\ UNCHANGED stamps
  BY DEF OtherAnswered, serverVars, pageVars
<1>3. SyncTypes'
  BY <1>1, <1>2, EndedCall DEF SyncInv, SyncTypes
<1>4. CallGoesOn("other")
  BY <1>1, <1>2, EndedCall DEF CallGoesOn, SyncInv, SyncTypes
<1>5. QED
  BY <1>2, <1>3, <1>4, GoesOnInv DEF SyncInv, CatalogAsNewAsLabel

-----------------------------------------------------------------------------
\* What happens around the calls.
LEMMA ChangeInv == SyncInv /\ Change => SyncInv'
<1> SUFFICES ASSUME SyncInv, Change PROVE SyncInv'
  OBVIOUS
<1>1. SyncTypes'
  BY DEF Change, SyncInv, SyncTypes, serverVars, pageVars
<1>2. QED
  BY <1>1, FrameInv DEF Change, SyncInv, SyncTypes, serverVars, pageVars

LEMMA TokenExpiresInv == SyncInv /\ TokenExpires => SyncInv'
<1> SUFFICES ASSUME SyncInv, TokenExpires PROVE SyncInv'
  OBVIOUS
<1>1. SyncTypes'
  BY DEF TokenExpires, SyncInv, SyncTypes, serverVars, pageVars
<1>2. QED
  BY <1>1, FrameInv DEF TokenExpires, SyncInv, SyncTypes, serverVars, pageVars

LEMMA EntryAgesInv == SyncInv /\ EntryAges => SyncInv'
<1> SUFFICES ASSUME SyncInv, EntryAges PROVE SyncInv'
  OBVIOUS
<1>1. SyncTypes'
  BY DEF EntryAges, SyncInv, SyncTypes, serverVars, pageVars
<1>2. QED
  BY <1>1, FrameInv DEF EntryAges, SyncInv, SyncTypes, serverVars, pageVars

LEMMA ReloadInv == SyncInv /\ Reload => SyncInv'
<1> SUFFICES ASSUME SyncInv, Reload PROVE SyncInv'
  OBVIOUS
<1>1. UNCHANGED <<gen, ttl, gate, covers, plain, entry, stamps>> /\ calls' = [calls EXCEPT !["data"].key = -1]
  BY DEF Reload, serverVars
<1>2. \A d \in Calls : /\ calls'[d].pc = calls[d].pc /\ calls'[d].token = calls[d].token
                        /\ calls'[d].value = calls[d].value
  BY <1>1 DEF SyncInv, SyncTypes
<1>3. SyncTypes'
  BY <1>1 DEF SyncInv, SyncTypes
<1>4. QED
  BY <1>1, <1>2, <1>3, FrameInv DEF SyncInv, SyncTypes

-----------------------------------------------------------------------------
(***************************************************************************)
(* The gate of _Ttl.get.                                                   *)
(***************************************************************************)
LEMMA TokenSharedInv ==
    ASSUME SyncInv, NEW c \in Calls, TokenShared(c) PROVE SyncInv'
<1> USE DEF TokenShared, WithToken, Answers, pageVars
<1>1. SyncTypes'
  BY DEF SyncInv, SyncTypes, CallLabels
<1>2. /\ UNCHANGED <<gen, gate, covers, entry>> /\ ttl'.token = ttl.token /\ ttl'.since = ttl.since \ {c}
      /\ gate = Free /\ calls'[c].token = ttl.token /\ calls'[c].pc \in {"entry", "answer"}
      /\ \A d \in Calls \ {c} : calls'[d] = calls[d]
  BY DEF SyncInv, SyncTypes
<1> USE DEF SyncInv, SyncTypes
<1>3. TokensFromThePast'
  BY <1>2 DEF TokensFromThePast
<1>4. GateHeld'
  BY <1>2 DEF GateHeld
<1>5. WaitersAtGate'
  BY <1>2 DEF WaitersAtGate
<1>6. SharedIsFresh'
  BY <1>2 DEF SharedIsFresh, AtLeast, WaitersAtGate
<1>7. BuiltAfterLabel'
  BY <1>2 DEF BuiltAfterLabel
<1>8. QED
  BY <1>1, <1>2, <1>3, <1>4, <1>5, <1>6, <1>7 DEF CatalogAsNewAsLabel

LEMMA TokenComputeInv ==
    ASSUME SyncInv, NEW c \in Calls, TokenCompute(c) PROVE SyncInv'
<1> USE DEF TokenCompute, Answers, pageVars
<1>1. SyncTypes'
  BY DEF SyncInv, SyncTypes, CallLabels
<1>2. /\ UNCHANGED <<gen, ttl, entry>> /\ gate = Free /\ gate' = c /\ c \notin ttl.since
      /\ covers' = {d \in Calls \ {c} : IsAt(d, "gate")}
      /\ calls'[c].token \in {gen, None} /\ calls'[c].pc = "store"
      /\ \A d \in Calls \ {c} : calls'[d] = calls[d]
  BY DEF SyncInv, SyncTypes
<1> USE DEF SyncInv, SyncTypes
<1>3. TokensFromThePast'
  BY <1>2 DEF TokensFromThePast
<1>4. GateHeld'
  BY <1>2 DEF GateHeld
<1>5. WaitersAtGate'
  BY <1>2 DEF WaitersAtGate
<1>6. SharedIsFresh'
  BY <1>2 DEF SharedIsFresh, AtLeast, TokensFromThePast
<1>7. BuiltAfterLabel'
  BY <1>2 DEF BuiltAfterLabel
<1>8. QED
  BY <1>1, <1>2, <1>3, <1>4, <1>5, <1>6, <1>7 DEF CatalogAsNewAsLabel

LEMMA TokenStoreInv ==
    ASSUME SyncInv, NEW c \in Calls, TokenStore(c) PROVE SyncInv'
<1> DEFINE t == calls[c].token
<1>1. /\ UNCHANGED <<gen, entry, stamps>> /\ gate = c /\ gate' = Free /\ covers' = {}
      /\ ttl'.token = t /\ ttl'.since = covers
      /\ calls'[c].token = t /\ calls'[c].pc \in {"entry", "answer"}
      /\ \A d \in Calls \ {c} : calls'[d] = calls[d]
  BY DEF TokenStore, WithToken, pageVars, SyncInv, SyncTypes, GateHeld
<1>2. ttl' \in [token : Int, young : BOOLEAN, since : SUBSET Calls] /\ plain' \in Int
  BY DEF TokenStore, SyncInv, SyncTypes
<1>3. calls' \in [Calls -> CallStates]
  BY DEF TokenStore, WithToken, SyncInv, SyncTypes, CallLabels
<1> USE DEF SyncInv, SyncTypes
<1>4. SyncTypes'
  BY <1>1, <1>2, <1>3
<1>5. TokensFromThePast'
  BY <1>1 DEF TokensFromThePast
<1>6. GateHeld'
  BY <1>1 DEF GateHeld
<1>7. WaitersAtGate'
  <2>1. c \notin covers
    BY <1>1 DEF WaitersAtGate, GateHeld
  <2>2. \A d \in covers : d \in Calls \ {c} /\ calls[d].pc = "gate"
    BY <2>1 DEF WaitersAtGate
  <2>3. \A d \in (covers \cup ttl.since)' : calls'[d].pc = "gate"
    BY <1>1, <2>2
  <2>4. QED
    BY <1>1, <2>3 DEF WaitersAtGate
<1>8. SharedIsFresh'
  BY <1>1 DEF SharedIsFresh, AtLeast, WaitersAtGate, GateHeld
<1>9. BuiltAfterLabel'
  BY <1>1 DEF BuiltAfterLabel
<1>10. QED
  BY <1>1, <1>4, <1>5, <1>6, <1>7, <1>8, <1>9 DEF CatalogAsNewAsLabel

-----------------------------------------------------------------------------
LEMMA StepInv == SyncInv /\ [SyncNext]_syncVars => SyncInv'
<1> SUFFICES ASSUME SyncInv, [SyncNext]_syncVars PROVE SyncInv'
  OBVIOUS
<1>1. CASE UNCHANGED syncVars
  BY <1>1, FrameInv DEF syncVars, serverVars, pageVars, SyncInv, SyncTypes
<1>2. ASSUME NEW c \in Calls, ServerStep(c) PROVE SyncInv'
  BY <1>2, TokenHitInv, TokenMissInv, TokenSharedInv, TokenComputeInv, TokenStoreInv,
     EntryHitInv, EntryBuildInv, EntryKeepInv, DataHitInv, DataReadInv, DataFillInv DEF ServerStep
<1>3. CASE PageStep
  BY <1>3, AskSyncInv, SyncAnsweredInv, ApplyInv, CatalogAnsweredInv, CatalogLostInv,
     CatalogOrphanedInv, DataAnsweredInv DEF PageStep
<1>4. QED
  BY <1>1, <1>2, <1>3, ChangeInv, TokenExpiresInv, EntryAgesInv, AskDataInv, OtherAsksInv,
     OtherAnsweredInv, ReloadInv DEF SyncNext

LEMMA Invariance == SyncSpec => []SyncInv
BY InitInv, StepInv, PTL DEF SyncSpec

\* Whatever changes while a catalog is built, TokenCache.get never keeps it under
\* a token newer than its content: it would be served as current.
THEOREM CatalogIsCurrent == SyncSpec => []CatalogAsNewAsLabel
<1>1. SyncInv => CatalogAsNewAsLabel
  BY DEF SyncInv
<1>2. QED
  BY <1>1, Invariance, PTL

\* The only way from the gate to a token is the one of TokenShared.
LEMMA GateStep ==
    ASSUME SyncInv, NEW c \in Calls, [SyncNext]_syncVars, IsAt(c, "gate"), calls'[c].pc \in {"entry", "answer"}
    PROVE  calls'[c].token = None \/ calls'[c].token >= calls[c].token
<1> USE DEF SyncInv, SyncTypes
<1>1. CASE TokenShared(c)
  BY <1>1 DEF TokenShared, WithToken, Answers, SharedIsFresh, AtLeast
<1>2. CASE \E d \in Calls \ {c} : ServerStep(d)
  <2>1. calls'[c] = calls[c]
    <3>1. PICK d \in Calls \ {c} : ServerStep(d)
      BY <1>2
    <3>2. CASE TokenHit(d) \/ TokenMiss(d) \/ TokenShared(d)
      BY <3>2 DEF TokenHit, TokenMiss, TokenShared, WithToken
    <3>3. CASE TokenCompute(d) \/ TokenStore(d)
      BY <3>3 DEF TokenCompute, TokenStore, WithToken
    <3>4. CASE EntryHit(d) \/ EntryBuild(d) \/ EntryKeep(d)
      BY <3>4 DEF EntryHit, EntryBuild, EntryKeep
    <3>5. CASE DataHit(d) \/ DataRead(d) \/ DataFill(d)
      BY <3>5 DEF DataHit, DataRead, DataFill
    <3> HIDE DEF SyncInv, SyncTypes
    <3>6. QED
      BY <3>1, <3>2, <3>3, <3>4, <3>5 DEF ServerStep
  <2>2. QED
    BY <2>1
<1>3. CASE ServerStep(c) /\ ~TokenShared(c)
  <2>1. TokenCompute(c)
    BY <1>3 DEF ServerStep, TokenHit, TokenMiss, TokenStore, EntryHit, EntryBuild, EntryKeep, DataHit, DataRead, DataFill
  <2>2. QED
    BY <2>1 DEF TokenCompute
<1>4. CASE ~\E d \in Calls : ServerStep(d)
  <2>1. calls'[c].pc = calls[c].pc
    <3>1. CASE UNCHANGED syncVars \/ Change \/ TokenExpires \/ EntryAges
      BY <3>1 DEF syncVars, Change, TokenExpires, EntryAges
    <3>2. CASE SyncAnswered \/ CatalogAnswered \/ CatalogLost \/ CatalogOrphaned \/ DataAnswered \/ OtherAnswered
      <4>1. \E d \in Calls : Ends(d)
        BY <3>2 DEF SyncAnswered, CatalogAnswered, CatalogLost, CatalogOrphaned, DataAnswered, OtherAnswered
      <4>2. QED
        BY <4>1, EndedCall
    <3>3. CASE Reload
      BY <3>3 DEF Reload
    <3>4. CASE AskSync \/ AskData \/ OtherAsks
      <4>1. \E d \in Calls, label \in {"token", "look"}, key \in Int : IsAt(d, "idle") /\ calls' = Open(d, label, key)
        BY <3>4 DEF AskSync, AskData, OtherAsks
      <4>2. QED
        BY <4>1, OpenCall
    <3>5. CASE Apply
      <4>1. calls' = calls \/ (IsAt("catalog", "idle") /\ calls' = Open("catalog", "token", -1))
        BY <3>5 DEF Apply
      <4>2. QED
        BY <4>1, OpenCall
    <3>6. QED
      BY <1>4, <3>1, <3>2, <3>3, <3>4, <3>5 DEF SyncNext, PageStep
  <2>2. QED
    BY <2>1
<1>5. QED
  BY <1>1, <1>2, <1>3, <1>4

\* Waiting in _Ttl.get for the computation of another request never gives a token
\* older than the state the waiting request started in, however many requests wait
\* and however the computations fail.
THEOREM SharedTokens == SyncSpec => SharedTokenIsFresh
<1>1. SyncInv /\ [SyncNext]_syncVars =>
        [\A c \in Calls : IsAt(c, "gate") /\ calls'[c].pc \in {"entry", "answer"} =>
            calls'[c].token = None \/ calls'[c].token >= calls[c].token]_syncVars
  BY GateStep
<1>2. QED
  BY <1>1, Invariance, PTL DEF SyncSpec, SharedTokenIsFresh
=================================================================================
