---------------------------- MODULE ChangeSetStore ----------------------------
(***************************************************************************)
(* CompressedChangeSetDict (core/GreatProcessor.py) and the way main.py    *)
(* uses it: ChangeSets are kept as objects in a small LRU cache, pickled   *)
(* when they leave it, and as they are once they are executed (evacuated). *)
(*                                                                         *)
(* A ChangeSet is how many of its operations have been executed. One is    *)
(* executed at a time; meanwhile operations that refer to another file     *)
(* load that file's ChangeSet, which may push the executed one out of the  *)
(* cache: its caller then works on an object the store does not know.      *)
(***************************************************************************)
EXTENDS Naturals, Sequences, FiniteSets, SequencesExt

CONSTANTS
    Keys,        \* paths
    Steps,       \* operations per ChangeSet
    LruSize,
    Unpicklable  \* those that cannot be pickled before they are executed

ASSUME StoreAssumptions ==
    /\ Steps \in Nat \ {0} /\ LruSize \in Nat \ {0} /\ Unpicklable \subseteq Keys
    /\ "none" \notin Keys

VARIABLES
    lru,    \* _lru_cache, oldest first
    cached, \* the objects in it
    packed, \* _compressed_store
    evac,   \* _evacuated_store
    held    \* the ChangeSet being executed

storeVars == <<lru, cached, packed, evac>>
csVars == <<storeVars, held>>

Progress == 0 .. Steps
Nothing == Steps + 1  \* None
Absent == Steps + 2   \* no such key
NotHeld == [key |-> "none", progress |-> 0]

IsEvacuated(value) == value = Steps

\* The store as a value: loading and storing are functions of it.
Store == [lru |-> lru, cached |-> cached, packed |-> packed, evac |-> evac]
StoreBecomes(s) == lru' = s.lru /\ cached' = s.cached /\ packed' = s.packed /\ evac' = s.evac
EmptyStore ==
    [lru |-> << >>, cached |-> [k \in Keys |-> 0], packed |-> [k \in Keys |-> Absent], evac |-> {}]

Init ==
    /\ lru = EmptyStore.lru /\ cached = EmptyStore.cached
    /\ packed = EmptyStore.packed /\ evac = EmptyStore.evac
    /\ held = NotHeld

\* The newest place of a key counts.
ValueOf(s, k) ==
    IF k \in s.evac THEN Steps ELSE IF k \in ToSet(s.lru) THEN s.cached[k] ELSE s.packed[k]

IsStored(k) == ValueOf(Store, k) # Absent

-----------------------------------------------------------------------------
Compress(s, ks) == [s EXCEPT !.packed = [k \in Keys |-> IF k \in ks THEN s.cached[k] ELSE @[k]]]

MoveToEvacuated(s, ks) ==
    [s EXCEPT !.packed = [k \in Keys |-> IF k \in ks THEN Absent ELSE @[k]],
              !.evac = @ \cup ks]

\* It becomes the newest one.
Keep(s) == [s EXCEPT !.lru = Append(Tail(@), Head(@))]

Fails(s, k) == k \in Unpicklable /\ ~IsEvacuated(s.cached[k])

\* The entries _evict_lru takes out: the oldest ones, as long as there are too
\* many and none fails to be pickled.
TooOld(s) == {i \in 1 .. Len(s.lru) : i + LruSize <= Len(s.lru)}
Leaving(s) == Cardinality({i \in TooOld(s) : \A j \in 1 .. i : ~Fails(s, s.lru[j])})

\* _evict_lru: it stops at the one that fails, which is kept.
EvictLru(s) ==
    LET out == {s.lru[i] : i \in 1 .. Leaving(s)}
        done == {k \in out : IsEvacuated(s.cached[k])}
        rest == [s EXCEPT !.lru = SubSeq(@, Leaving(s) + 1, Len(@))]
        left == Compress(MoveToEvacuated(rest, done), out \ done)
    IN IF Len(left.lru) > LruSize THEN Keep(left) ELSE left

\* _place: an older pickle of the key stays below a cached object.
Place(s, k, value) ==
    LET without == [s EXCEPT !.lru = RemoveFirst(@, k), !.evac = @ \ {k}]
    IN CASE value = Nothing -> [without EXCEPT !.packed[k] = Nothing]
         [] value # Nothing /\ IsEvacuated(value) -> MoveToEvacuated(without, {k})
         [] OTHER -> [without EXCEPT !.lru = Append(@, k), !.cached[k] = value]

\* What is unpickled: back into the cache, unless it has been executed.
Unpack(s, k) ==
    CASE s.packed[k] = Nothing -> s
      [] s.packed[k] = Steps -> MoveToEvacuated(s, {k})
      [] OTHER -> EvictLru([s EXCEPT !.lru = Append(@, k), !.cached[k] = s.packed[k]])

\* _load, for a key that is there.
Load(s, k) ==
    CASE k \in s.evac -> s
      [] k \notin s.evac /\ k \in ToSet(s.lru) -> [s EXCEPT !.lru = Append(RemoveFirst(@, k), k)]
      [] OTHER -> Unpack(s, k)

-----------------------------------------------------------------------------
(***************************************************************************)
(* The callers.                                                            *)
(***************************************************************************)
\* A ChangeSet arrives, executed already or not; a file without one.
Put(k, value) ==
    /\ held = NotHeld /\ ~IsStored(k)
    /\ StoreBecomes(EvictLru(Place(Store, k, value)))
    /\ UNCHANGED held

Take(k) ==
    /\ held = NotHeld /\ ValueOf(Store, k) \in Progress
    /\ StoreBecomes(Load(Store, k))
    /\ held' = [key |-> k, progress |-> ValueOf(Store, k)]

IsAttached == held.key \in ToSet(lru)

\* An operation is executed: the object is changed, wherever it is.
Work ==
    /\ held # NotHeld /\ ~IsEvacuated(held.progress)
    /\ held' = [held EXCEPT !.progress = @ + 1]
    /\ cached' = IF IsAttached THEN [cached EXCEPT ![held.key] = held'.progress] ELSE cached
    /\ UNCHANGED <<lru, packed, evac>>

\* An operation needs the data of another file.
LookAt(k) ==
    /\ held # NotHeld /\ ~IsEvacuated(held.progress) /\ k # held.key /\ IsStored(k)
    /\ StoreBecomes(Load(Store, k))
    /\ UNCHANGED held

\* Mutant: it is not stored again, as it came from the store.
PutBack_NotAgain == held # NotHeld /\ held' = NotHeld /\ UNCHANGED storeVars

PutBack ==
    /\ held # NotHeld
    /\ StoreBecomes(EvictLru(Place(Store, held.key, held.progress)))
    /\ held' = NotHeld

\* A symlink that is parsed like a file, after all files: the object is left
\* where it is.
LeaveFallback ==
    /\ IsEvacuated(held.progress)
    /\ \A k \in Keys \ {held.key} : ValueOf(Store, k) \in {Absent, Nothing, Steps}
    /\ held' = NotHeld
    /\ UNCHANGED storeVars

\* The next version.
Clear == held = NotHeld /\ StoreBecomes(EmptyStore) /\ UNCHANGED held

Next ==
    \/ \E k \in Keys : Take(k) \/ LookAt(k) \/ \E value \in {0, Steps, Nothing} : Put(k, value)
    \/ Work \/ PutBack \/ LeaveFallback \/ Clear

Spec == Init /\ [][Next]_csVars

-----------------------------------------------------------------------------
(***************************************************************************)
(* Properties.                                                             *)
(***************************************************************************)
AsDictionary == INSTANCE Dictionary WITH
    entry <- [k \in Keys |-> IF k = held.key THEN held.progress ELSE ValueOf(Store, k)]

\* Evictions, pickles that are out of date and entries worked on outside the
\* store are not seen by the callers: they use a dictionary.
ImplementsDictionary == AsDictionary!Spec
=============================================================================
