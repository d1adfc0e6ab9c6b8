----------------------------- MODULE Stores_proofs -----------------------------
(***************************************************************************)
(* Proofs about what is kept apart from its owner: the ChangeSet store is  *)
(* a dictionary, the carried hashes are those of the database, and a       *)
(* session is open in one window and loses no tab. The three do not meet.  *)
(***************************************************************************)
EXTENDS ChangeSetStore, CarriedHashes, BrowserSessions, QueueLemmas, FiniteSetTheorems, TLAPS

-----------------------------------------------------------------------------
(***************************************************************************)
(* ChangeSetStore: an implementation of Dictionary, for any number of      *)
(* keys, operations and cached entries.                                    *)
(***************************************************************************)
USE StoreAssumptions

-----------------------------------------------------------------------------
(***************************************************************************)
(* The store as a value.                                                   *)
(***************************************************************************)
Packed == (0 .. Steps - 1) \cup {Nothing, Absent}
Stores == [lru : Seq(Keys), cached : [Keys -> Progress], packed : [Keys -> Packed], evac : SUBSET Keys]

\* No key is in the cache twice, or in the cache and evacuated.
StoreOK(s) == s \in Stores /\ IsInjective(s.lru) /\ Range(s.lru) \cap s.evac = {}

SameValues(s, t) == \A k \in Keys : ValueOf(t, k) = ValueOf(s, k)

\* The record with these fields, and what the operations do to them.
Parts(s, l, c, p, e) == s.lru = l /\ s.cached = c /\ s.packed = p /\ s.evac = e

LEMMA Values ==
    ASSUME NEW s, NEW l, NEW c, NEW p, NEW e, Parts(s, l, c, p, e), NEW k
    PROVE  ValueOf(s, k) = IF k \in e THEN Steps ELSE IF k \in Range(l) THEN c[k] ELSE p[k]
BY DEF Parts, ValueOf, ToSet, Range

LEMMA Distinct == Steps \notin Packed /\ Nothing \notin Progress /\ Absent \notin Progress /\ Nothing # Absent
BY DEF Packed, Progress, Nothing, Absent

LEMMA Numbers == Progress = (0 .. Steps - 1) \cup {Steps} /\ 0 \in Progress /\ Steps \in Progress
BY DEF Progress

LEMMA FieldTypes ==
    ASSUME NEW s, StoreOK(s)
    PROVE  /\ Parts(s, s.lru, s.cached, s.packed, s.evac)
           /\ s.lru \in Seq(Keys) /\ s.cached \in [Keys -> Progress] /\ s.packed \in [Keys -> Packed]
           /\ s.evac \subseteq Keys /\ Range(s.lru) \subseteq Keys
<1>1. s.lru \in Seq(Keys)
  BY DEF StoreOK, Stores
<1>2. Range(s.lru) \subseteq Keys
  BY <1>1 DEF Range
<1>3. QED
  BY <1>1, <1>2 DEF StoreOK, Stores, Parts

LEMMA LruFields ==
    ASSUME NEW s \in Stores, NEW l \in Seq(Keys), NEW e \in SUBSET Keys
    PROVE  LET t == [s EXCEPT !.lru = l, !.evac = e]
           IN  t \in Stores /\ Parts(t, l, s.cached, s.packed, e)
BY DEF Stores, Parts

LEMMA OnlyLru ==
    ASSUME NEW s \in Stores, NEW l \in Seq(Keys)
    PROVE  LET t == [s EXCEPT !.lru = l]
           IN  t \in Stores /\ Parts(t, l, s.cached, s.packed, s.evac)
BY DEF Stores, Parts

LEMMA MovedFields ==
    ASSUME NEW s \in Stores, NEW ks \in SUBSET Keys
    PROVE  /\ MoveToEvacuated(s, ks) \in Stores
           /\ Parts(MoveToEvacuated(s, ks), s.lru, s.cached,
                    [k \in Keys |-> IF k \in ks THEN Absent ELSE s.packed[k]], s.evac \cup ks)
<1> DEFINE p == [k \in Keys |-> IF k \in ks THEN Absent ELSE s.packed[k]]
<1>1. p \in [Keys -> Packed]
  BY DEF Stores, Packed
<1>2. MoveToEvacuated(s, ks) = [s EXCEPT !.packed = p, !.evac = s.evac \cup ks]
  BY DEF MoveToEvacuated, Stores
<1> HIDE DEF p
<1>3. QED
  BY <1>1, <1>2 DEF Stores, Parts, p

LEMMA CompressedFields ==
    ASSUME NEW s \in Stores, NEW ks \in SUBSET Keys, \A k \in ks : s.cached[k] # Steps
    PROVE  /\ Compress(s, ks) \in Stores
           /\ Parts(Compress(s, ks), s.lru, s.cached,
                    [k \in Keys |-> IF k \in ks THEN s.cached[k] ELSE s.packed[k]], s.evac)
<1> DEFINE p == [k \in Keys |-> IF k \in ks THEN s.cached[k] ELSE s.packed[k]]
<1>1. \A k \in ks : s.cached[k] \in Packed
  BY Numbers DEF Stores, Packed
<1>2. p \in [Keys -> Packed]
  BY <1>1 DEF Stores
<1>3. Compress(s, ks) = [s EXCEPT !.packed = p]
  BY DEF Compress, Stores
<1> HIDE DEF p
<1>4. QED
  BY <1>2, <1>3 DEF Stores, Parts, p

-----------------------------------------------------------------------------
(***************************************************************************)
(* Eviction is not seen, and never reaches the newest entry.               *)
(***************************************************************************)
LEMMA LeavingBound ==
    ASSUME NEW s, StoreOK(s)
    PROVE  Leaving(s) \in 0..Len(s.lru) /\ (Len(s.lru) > 0 => Leaving(s) < Len(s.lru))
<1> DEFINE L == Len(s.lru)
           T == {i \in TooOld(s) : \A j \in 1 .. i : ~Fails(s, s.lru[j])}
<1>1. L \in Nat
  BY FieldTypes
<1>2. LruSize \in Nat /\ LruSize >= 1
  OBVIOUS
<1>3. CASE L = 0
  <2>1. TooOld(s) = {}
    BY <1>3 DEF TooOld
  <2>2. T = {}
    BY <2>1
  <2>3. Leaving(s) = 0
    BY <2>2, FS_EmptySet DEF Leaving
  <2>4. QED
    BY <1>3, <2>3
<1>4. CASE L > 0
  <2>1. T \subseteq 1..(L - 1)
    BY <1>1, <1>2 DEF TooOld
  <2>2. 1 \in Int /\ L - 1 \in Int /\ (IF 1 > L - 1 THEN 0 ELSE L - 1 - 1 + 1) = L - 1
    BY <1>1, <1>4
  <2>3. IsFiniteSet(1..(L - 1)) /\ Cardinality(1..(L - 1)) = L - 1
    BY <2>2, FS_Interval
  <2>4. IsFiniteSet(T) /\ Cardinality(T) <= L - 1
    BY <2>1, <2>3, FS_Subset
  <2>5. Cardinality(T) \in Nat
    BY <2>4, FS_CardinalityType
  <2>6. Leaving(s) = Cardinality(T)
    BY DEF Leaving
  <2> HIDE DEF T
  <2>7. QED
    BY <1>1, <1>4, <2>4, <2>5, <2>6
<1>5. QED
  BY <1>1, <1>3, <1>4

LEMMA Evicted ==
    ASSUME NEW s, StoreOK(s)
    PROVE  /\ StoreOK(EvictLru(s)) /\ SameValues(s, EvictLru(s))
           /\ EvictLru(s).cached = s.cached /\ s.evac \subseteq EvictLru(s).evac
           /\ Range(EvictLru(s).lru) \subseteq Range(s.lru)
           /\ Len(s.lru) > 0 => s.lru[Len(s.lru)] \in Range(EvictLru(s).lru)
<1> DEFINE n == Leaving(s)
           out == {s.lru[i] : i \in 1 .. n}
           executed == {k \in out : IsEvacuated(s.cached[k])}
           q == SubSeq(s.lru, n + 1, Len(s.lru))
           rest == [s EXCEPT !.lru = q]
           moved == MoveToEvacuated(rest, executed)
           left == Compress(moved, out \ executed)
           p == [k \in Keys |-> IF k \in out \ executed THEN s.cached[k] ELSE IF k \in executed THEN Absent ELSE s.packed[k]]
<1>1. s \in Stores /\ s.lru \in Seq(Keys) /\ IsInjective(s.lru) /\ Range(s.lru) \cap s.evac = {}
  BY FieldTypes DEF StoreOK
<1>2. n \in 0..Len(s.lru) /\ (Len(s.lru) > 0 => n < Len(s.lru)) /\ Len(s.lru) \in Nat
  BY <1>1, LeavingBound
<1>3. out \subseteq Range(s.lru) /\ out \subseteq Keys
  <2>1. \A i \in 1..n : i \in DOMAIN s.lru
    BY <1>1, <1>2
  <2>2. QED
    BY <1>1, <2>1 DEF Range
<1>4. /\ q \in Seq(Keys) /\ IsInjective(q) /\ Range(q) = Range(s.lru) \ out
      /\ Len(s.lru) > 0 => s.lru[Len(s.lru)] \in Range(q)
  <2> HIDE DEF n
  <2>1. PICK m \in 0..Len(s.lru) : m = n
    BY <1>2
  <2>2. PICK x \in Seq(Keys) : x = s.lru
    BY <1>1
  <2>3. /\ SubSeq(x, m + 1, Len(x)) \in Seq(Keys) /\ IsInjective(SubSeq(x, m + 1, Len(x)))
        /\ Range(SubSeq(x, m + 1, Len(x))) = Range(x) \ {x[i] : i \in 1..m}
        /\ m < Len(x) => x[Len(x)] \in Range(SubSeq(x, m + 1, Len(x)))
    <3>1. IsInjective(x) /\ m \in 0..Len(x)
      BY <1>1, <2>1, <2>2
    <3>2. QED
      BY <2>2, <3>1, Dropped
  <2>4. q = SubSeq(x, m + 1, Len(x)) /\ out = {x[i] : i \in 1..m}
    BY <2>1, <2>2
  <2> HIDE DEF q, out
  <2>5. QED
    BY <1>2, <2>1, <2>2, <2>3, <2>4
<1>5. EvictLru(s) = IF Len(left.lru) > LruSize THEN Keep(left) ELSE left
  <2>1. [s EXCEPT !.lru = SubSeq(@, Leaving(s) + 1, Len(@))] = rest
    OBVIOUS
  <2>2. QED
    BY <2>1 DEF EvictLru
<1> HIDE DEF n, q
<1>6. rest \in Stores /\ Parts(rest, q, s.cached, s.packed, s.evac)
  BY <1>1, <1>4, OnlyLru
<1> HIDE DEF rest
<1>7. /\ moved \in Stores
      /\ Parts(moved, q, s.cached, [k \in Keys |-> IF k \in executed THEN Absent ELSE s.packed[k]], s.evac \cup executed)
  BY <1>3, <1>6, MovedFields DEF Parts
<1> HIDE DEF moved
<1>8. left \in Stores /\ Parts(left, q, s.cached, p, s.evac \cup executed)
  <2>1. \A k \in out \ executed : moved.cached[k] # Steps
    BY <1>7 DEF Parts, IsEvacuated
  <2>2. /\ left \in Stores
        /\ Parts(left, moved.lru, moved.cached,
                 [k \in Keys |-> IF k \in out \ executed THEN moved.cached[k] ELSE moved.packed[k]], moved.evac)
    BY <1>3, <1>7, <2>1, CompressedFields
  <2>3. [k \in Keys |-> IF k \in out \ executed THEN moved.cached[k] ELSE moved.packed[k]] = p
    BY <1>7 DEF Parts
  <2> HIDE DEF left, executed, out
  <2>4. QED
    BY <1>7, <2>2, <2>3 DEF Parts
<1> HIDE DEF left
<1>9. PICK l \in Seq(Keys) :
         /\ IsInjective(l) /\ Range(l) = Range(q)
         /\ EvictLru(s) \in Stores /\ Parts(EvictLru(s), l, s.cached, p, s.evac \cup executed)
  <2>1. CASE Len(left.lru) > LruSize
    <3>1. left.lru = q /\ q # <<>>
      BY <1>8, <2>1 DEF Parts
    <3>2. /\ Append(Tail(q), Head(q)) \in Seq(Keys) /\ IsInjective(Append(Tail(q), Head(q)))
          /\ Range(Append(Tail(q), Head(q))) = Range(q)
      BY <1>4, <3>1, Rotated
    <3>3. EvictLru(s) = [left EXCEPT !.lru = Append(Tail(q), Head(q))]
      BY <1>5, <2>1, <3>1 DEF Keep
    <3>4. /\ EvictLru(s) \in Stores
          /\ Parts(EvictLru(s), Append(Tail(q), Head(q)), left.cached, left.packed, left.evac)
      BY <1>8, <3>2, <3>3, OnlyLru
    <3> HIDE DEF p, executed, out
    <3>5. QED
      BY <1>8, <3>2, <3>4 DEF Parts
  <2>2. CASE ~(Len(left.lru) > LruSize)
    BY <1>4, <1>5, <1>8, <2>2
  <2>3. QED
    BY <2>1, <2>2
<1>10. SameValues(s, EvictLru(s))
  <2> SUFFICES ASSUME NEW k \in Keys PROVE ValueOf(EvictLru(s), k) = ValueOf(s, k)
    BY DEF SameValues
  <2>1. ValueOf(s, k) = IF k \in s.evac THEN Steps ELSE IF k \in Range(s.lru) THEN s.cached[k] ELSE s.packed[k]
    BY FieldTypes, Values
  <2>2. ValueOf(EvictLru(s), k) =
           IF k \in s.evac \cup executed THEN Steps ELSE IF k \in Range(l) THEN s.cached[k] ELSE p[k]
    BY <1>9, Values
  <2>3. CASE k \in out
    BY <1>1, <1>3, <1>4, <1>9, <2>1, <2>2, <2>3 DEF IsEvacuated
  <2>4. CASE k \notin out
    BY <1>4, <1>9, <2>1, <2>2, <2>4
  <2>5. QED
    BY <2>3, <2>4
<1>11. StoreOK(EvictLru(s))
  BY <1>1, <1>4, <1>9 DEF StoreOK, Parts
<1>12. QED
  BY <1>4, <1>9, <1>10, <1>11 DEF Parts

-----------------------------------------------------------------------------
(***************************************************************************)
(* Storing replaces one entry, loading none.                               *)
(***************************************************************************)
LEMMA Placed ==
    ASSUME NEW s, StoreOK(s), NEW k \in Keys, NEW value \in Progress \cup {Nothing}
    PROVE  /\ StoreOK(Place(s, k, value)) /\ ValueOf(Place(s, k, value), k) = value
           /\ \A j \in Keys \ {k} : ValueOf(Place(s, k, value), j) = ValueOf(s, j)
<1> DEFINE l == RemoveFirst(s.lru, k)
           e == s.evac \ {k}
           without == [s EXCEPT !.lru = l, !.evac = e]
<1>1. s \in Stores /\ s.lru \in Seq(Keys) /\ IsInjective(s.lru) /\ Range(s.lru) \cap s.evac = {}
      /\ s.cached \in [Keys -> Progress] /\ s.packed \in [Keys -> Packed] /\ s.evac \subseteq Keys
  BY FieldTypes DEF StoreOK
<1>2. l \in Seq(Keys) /\ IsInjective(l) /\ Range(l) = Range(s.lru) \ {k}
  BY <1>1, Removed
<1>3. without \in Stores /\ Parts(without, l, s.cached, s.packed, e)
  BY <1>1, <1>2, LruFields
<1>4. Place(s, k, value) =
         CASE value = Nothing -> [without EXCEPT !.packed[k] = Nothing]
           [] value # Nothing /\ value = Steps -> MoveToEvacuated(without, {k})
           [] OTHER -> [without EXCEPT !.lru = Append(@, k), !.cached[k] = value]
  BY DEF Place, IsEvacuated
<1>5. \A j : ValueOf(s, j) = IF j \in s.evac THEN Steps ELSE IF j \in Range(s.lru) THEN s.cached[j] ELSE s.packed[j]
  BY FieldTypes, Values
<1> HIDE DEF without, l
<1>6. CASE value = Nothing
  <2> DEFINE p == [s.packed EXCEPT ![k] = Nothing]
             t == [without EXCEPT !.packed = p]
  <2>1. Place(s, k, value) = t
    BY <1>3, <1>4, <1>6 DEF Parts
  <2>2. p \in [Keys -> Packed]
    BY <1>1 DEF Packed
  <2> HIDE DEF p
  <2>3. t \in Stores /\ Parts(t, l, s.cached, p, e)
    BY <1>3, <2>2 DEF Stores, Parts
  <2>4. \A j : ValueOf(t, j) = IF j \in e THEN Steps ELSE IF j \in Range(l) THEN s.cached[j] ELSE p[j]
    BY <2>3, Values
  <2>5. StoreOK(t)
    BY <1>1, <1>2, <2>3 DEF StoreOK, Parts
  <2> HIDE DEF t
  <2>6. ValueOf(t, k) = Nothing
    BY <1>1, <1>2, <2>4 DEF p
  <2>7. \A j \in Keys \ {k} : ValueOf(t, j) = ValueOf(s, j)
    BY <1>1, <1>2, <1>5, <2>4 DEF p
  <2>8. QED
    BY <1>6, <2>1, <2>5, <2>6, <2>7
<1>7. CASE value = Steps
  <2> DEFINE p == [j \in Keys |-> IF j \in {k} THEN Absent ELSE s.packed[j]]
             t == MoveToEvacuated(without, {k})
  <2>1. Place(s, k, value) = t
    BY <1>4, <1>7, Distinct, Numbers
  <2>2. t \in Stores /\ Parts(t, without.lru, without.cached,
                             [j \in Keys |-> IF j \in {k} THEN Absent ELSE without.packed[j]], without.evac \cup {k})
    BY <1>3, MovedFields
  <2> HIDE DEF t
  <2>3. Parts(t, l, s.cached, p, e \cup {k})
    BY <1>3, <2>2 DEF Parts
  <2> HIDE DEF p
  <2>4. \A j : ValueOf(t, j) = IF j \in e \cup {k} THEN Steps ELSE IF j \in Range(l) THEN s.cached[j] ELSE p[j]
    BY <2>3, Values
  <2>5. StoreOK(t)
    BY <1>1, <1>2, <2>2, <2>3 DEF StoreOK, Parts
  <2>6. ValueOf(t, k) = Steps
    BY <2>4
  <2>7. \A j \in Keys \ {k} : ValueOf(t, j) = ValueOf(s, j)
    BY <1>1, <1>2, <1>5, <2>4 DEF p
  <2>8. QED
    BY <1>7, <2>1, <2>5, <2>6, <2>7
<1>8. CASE value \in Progress \ {Steps}
  <2> DEFINE c == [s.cached EXCEPT ![k] = value]
             q == Append(l, k)
             t == [without EXCEPT !.lru = q, !.cached = c]
  <2>1. Place(s, k, value) = t
    BY <1>3, <1>4, <1>8, Distinct DEF Parts
  <2>2. c \in [Keys -> Progress]
    BY <1>1, <1>8
  <2>3. q \in Seq(Keys) /\ IsInjective(q) /\ Range(q) = Range(l) \cup {k}
    BY <1>2, Appended
  <2> HIDE DEF c, q
  <2>4. t \in Stores /\ Parts(t, q, c, s.packed, e)
    BY <1>3, <2>2, <2>3 DEF Stores, Parts
  <2> HIDE DEF t
  <2>5. \A j : ValueOf(t, j) = IF j \in e THEN Steps ELSE IF j \in Range(q) THEN c[j] ELSE s.packed[j]
    BY <2>4, Values
  <2>6. StoreOK(t)
    BY <1>1, <1>2, <2>3, <2>4 DEF StoreOK, Parts
  <2>7. ValueOf(t, k) = value
    BY <1>1, <1>2, <2>3, <2>5 DEF c
  <2>8. \A j \in Keys \ {k} : ValueOf(t, j) = ValueOf(s, j)
    BY <1>1, <1>2, <1>5, <2>3, <2>5 DEF c
  <2>9. QED
    BY <2>1, <2>6, <2>7, <2>8
<1>9. QED
  BY <1>6, <1>7, <1>8

LEMMA Loaded ==
    ASSUME NEW s, StoreOK(s), NEW k \in Keys, ValueOf(s, k) # Absent
    PROVE  /\ StoreOK(Load(s, k)) /\ SameValues(s, Load(s, k))
           /\ Range(Load(s, k).lru) \subseteq Range(s.lru) \cup {k}
           /\ \A j \in Keys \ {k} : Load(s, k).cached[j] = s.cached[j]
           /\ Range(s.lru) \subseteq Range(Load(s, k).lru) \/ ValueOf(s, k) \in Progress \ {Steps}
           /\ ValueOf(s, k) \in Progress =>
                 \/ k \in Load(s, k).evac /\ ValueOf(s, k) = Steps
                 \/ k \in Range(Load(s, k).lru) /\ Load(s, k).cached[k] = ValueOf(s, k)
<1>1. s \in Stores /\ s.lru \in Seq(Keys) /\ IsInjective(s.lru) /\ Range(s.lru) \cap s.evac = {}
      /\ s.cached \in [Keys -> Progress] /\ s.packed \in [Keys -> Packed] /\ s.evac \subseteq Keys
  BY FieldTypes DEF StoreOK
<1>2. \A j : ValueOf(s, j) = IF j \in s.evac THEN Steps ELSE IF j \in Range(s.lru) THEN s.cached[j] ELSE s.packed[j]
  BY FieldTypes, Values
<1>3. ToSet(s.lru) = Range(s.lru)
  BY DEF ToSet, Range
<1>4. CASE k \in s.evac
  <2>1. Load(s, k) = s
    BY <1>4 DEF Load
  <2>2. QED
    BY <1>2, <1>4, <2>1 DEF SameValues
<1>5. CASE k \notin s.evac /\ k \in Range(s.lru)
  <2> DEFINE l == RemoveFirst(s.lru, k)
             q == Append(l, k)
             t == [s EXCEPT !.lru = q]
  <2>1. Load(s, k) = t
    BY <1>3, <1>5 DEF Load
  <2>2. l \in Seq(Keys) /\ IsInjective(l) /\ Range(l) = Range(s.lru) \ {k}
    BY <1>1, Removed
  <2> HIDE DEF l
  <2>3. q \in Seq(Keys) /\ IsInjective(q) /\ Range(q) = Range(s.lru)
    <3>1. q \in Seq(Keys) /\ IsInjective(q) /\ Range(q) = Range(l) \cup {k}
      BY <2>2, Appended
    <3> HIDE DEF q
    <3>2. QED
      BY <1>5, <2>2, <3>1
  <2> HIDE DEF q
  <2>4. t \in Stores /\ Parts(t, q, s.cached, s.packed, s.evac)
    BY <1>1, <2>3, OnlyLru
  <2> HIDE DEF t
  <2>5. \A j : ValueOf(t, j) = IF j \in s.evac THEN Steps ELSE IF j \in Range(q) THEN s.cached[j] ELSE s.packed[j]
    BY <2>4, Values
  <2>6. SameValues(s, t)
    BY <1>2, <2>3, <2>5 DEF SameValues
  <2>7. StoreOK(t)
    BY <1>1, <2>3, <2>4 DEF StoreOK, Parts
  <2>8. k \in Range(t.lru) /\ t.cached[k] = ValueOf(s, k) /\ Range(t.lru) = Range(s.lru) /\ t.cached = s.cached
    BY <1>2, <1>5, <2>3, <2>4 DEF Parts
  <2>9. QED
    BY <2>1, <2>6, <2>7, <2>8
<1>6. CASE k \notin s.evac /\ k \notin Range(s.lru)
  <2>1. Load(s, k) = Unpack(s, k) /\ ValueOf(s, k) = s.packed[k]
    BY <1>2, <1>3, <1>6 DEF Load
  <2>2. s.packed[k] \in (Progress \ {Steps}) \cup {Nothing}
    BY <1>1, <2>1, Distinct, Numbers DEF Packed
  <2>3. CASE s.packed[k] = Nothing
    <3>1. Load(s, k) = s
      BY <2>1, <2>3, Distinct, Numbers DEF Unpack
    <3>2. QED
      BY <2>1, <2>3, <3>1, Distinct DEF SameValues
  <2>4. CASE s.packed[k] \in Progress \ {Steps}
    <3> DEFINE c == [s.cached EXCEPT ![k] = s.packed[k]]
               q == Append(s.lru, k)
               t == [s EXCEPT !.lru = q, !.cached = c]
    <3>1. Load(s, k) = EvictLru(t)
      BY <1>1, <2>1, <2>4, Distinct DEF Unpack, Stores
    <3>2. c \in [Keys -> Progress]
      BY <1>1, <2>4
    <3>3. q \in Seq(Keys) /\ IsInjective(q) /\ Range(q) = Range(s.lru) \cup {k}
      BY <1>1, <1>6, Appended
    <3>4. Len(q) > 0 /\ q[Len(q)] = k
      BY <1>1
    <3> HIDE DEF q, c
    <3>5. t \in Stores /\ Parts(t, q, c, s.packed, s.evac)
      BY <1>1, <3>2, <3>3 DEF Stores, Parts
    <3> HIDE DEF t
    <3>6. \A j : ValueOf(t, j) = IF j \in s.evac THEN Steps ELSE IF j \in Range(q) THEN c[j] ELSE s.packed[j]
      BY <3>5, Values
    <3>7. SameValues(s, t)
      <4>1. c[k] = s.packed[k] /\ \A j \in Keys \ {k} : c[j] = s.cached[j]
        BY <1>1 DEF c
      <4>2. QED
        BY <1>2, <1>6, <3>3, <3>6, <4>1 DEF SameValues
    <3>8. StoreOK(t)
      BY <1>1, <1>6, <3>3, <3>5 DEF StoreOK, Parts
    <3>9. /\ StoreOK(EvictLru(t)) /\ SameValues(t, EvictLru(t)) /\ EvictLru(t).cached = c
          /\ Range(EvictLru(t).lru) \subseteq Range(q) /\ k \in Range(EvictLru(t).lru)
      BY <3>4, <3>5, <3>8, Evicted DEF Parts
    <3>10. SameValues(s, EvictLru(t))
      BY <3>7, <3>9 DEF SameValues
    <3>11. c[k] = s.packed[k] /\ \A j \in Keys \ {k} : c[j] = s.cached[j]
      BY <1>1 DEF c
    <3>12. QED
      BY <2>1, <2>4, <3>1, <3>3, <3>9, <3>10, <3>11
  <2>5. QED
    BY <2>2, <2>3, <2>4
<1>7. QED
  BY <1>4, <1>5, <1>6

-----------------------------------------------------------------------------
(***************************************************************************)
(* The inductive invariant. The ChangeSet being executed is the object in  *)
(* the store, or it was pushed out of the cache, and then another one is   *)
(* still to be executed: that is when it must be stored again.             *)
(***************************************************************************)
ToExecute(k) == ValueOf(Store, k) \in Progress \ {Steps}

HeldFresh ==
    \/ IsAttached /\ cached[held.key] = held.progress
    \/ held.key \in evac /\ held.progress = Steps
    \/ ~IsAttached /\ \E k \in Keys \ {held.key} : ToExecute(k)

StoreInv ==
    /\ StoreOK(Store)
    /\ \/ held = NotHeld
       \/ held \in [key : Keys, progress : Progress] /\ HeldFresh

LEMMA HeldIsKey == ASSUME held \in [key : Keys, progress : Progress] PROVE held # NotHeld /\ held.key \in Keys /\ held.progress \in Progress
BY DEF NotHeld

LEMMA Becomes == ASSUME NEW t \in Stores, StoreBecomes(t) PROVE Store' = t
BY DEF Stores, StoreBecomes, Store

LEMMA StoreParts == Parts(Store, lru, cached, packed, evac) /\ ToSet(lru) = Range(lru)
BY DEF Parts, Store, ToSet, Range

LEMMA EmptyOK == StoreOK(EmptyStore) /\ \A k \in Keys : ValueOf(EmptyStore, k) = Absent
<1> DEFINE c == [k \in Keys |-> 0]
           p == [k \in Keys |-> Absent]
<1>1. c \in [Keys -> Progress] /\ p \in [Keys -> Packed] /\ << >> \in Seq(Keys)
  BY Numbers DEF Packed
<1>2. Range(<< >>) = {} /\ IsInjective(<< >>)
  BY DEF Range, IsInjective
<1>3. EmptyStore = [lru |-> << >>, cached |-> c, packed |-> p, evac |-> {}]
  BY DEF EmptyStore
<1> HIDE DEF c, p
<1>4. EmptyStore \in Stores /\ Parts(EmptyStore, << >>, c, p, {})
  BY <1>1, <1>3 DEF Stores, Parts
<1>5. StoreOK(EmptyStore)
  BY <1>2, <1>4 DEF StoreOK, Parts
<1>6. \A k : ValueOf(EmptyStore, k) = p[k]
  BY <1>2, <1>4, Values
<1>7. QED
  BY <1>5, <1>6 DEF p

LEMMA InitInv == Init => StoreInv
<1> SUFFICES ASSUME Init PROVE StoreInv
  OBVIOUS
<1>1. Store = EmptyStore
  BY DEF Init, Store, EmptyStore
<1>2. QED
  BY <1>1, EmptyOK DEF Init, StoreInv

\* The dictionary that callers see.
Entry == [k \in Keys |-> IF k = held.key THEN held.progress ELSE ValueOf(Store, k)]

\* Without an entry being executed it is the store's.
LEMMA EntryAtRest == ASSUME held = NotHeld PROVE Entry = [k \in Keys |-> ValueOf(Store, k)]
BY DEF Entry, NotHeld

\* One step: the invariant holds again, and callers see a step of a dictionary.
Refines == StoreInv' /\ [AsDictionary!Next]_(AsDictionary!dictVars)

LEMMA StepPut ==
    ASSUME StoreInv, NEW k \in Keys, NEW value \in {0, Steps, Nothing}, Put(k, value)
    PROVE  Refines
<1> DEFINE s == Place(Store, k, value)
           t == EvictLru(s)
<1>1. held = NotHeld /\ held' = NotHeld /\ ValueOf(Store, k) = Absent /\ StoreOK(Store) /\ StoreBecomes(t)
  BY DEF Put, IsStored, StoreInv
<1>2. value \in Progress \cup {Nothing}
  BY Numbers
<1>3. /\ StoreOK(s) /\ ValueOf(s, k) = value
      /\ \A j \in Keys \ {k} : ValueOf(s, j) = ValueOf(Store, j)
  BY <1>1, <1>2, Placed
<1> HIDE DEF s
<1>4. StoreOK(t) /\ SameValues(s, t)
  BY <1>3, Evicted
<1> HIDE DEF t
<1>5. Store' = t
  BY <1>1, <1>4, Becomes DEF StoreOK
<1>6. StoreInv'
  BY <1>1, <1>4, <1>5 DEF StoreInv
<1>7. Entry = [j \in Keys |-> ValueOf(Store, j)] /\ Entry' = [j \in Keys |-> ValueOf(t, j)]
  BY <1>1, <1>5, EntryAtRest DEF Entry, NotHeld
<1>8. Entry[k] = Absent /\ Entry' = [Entry EXCEPT ![k] = value]
  BY <1>1, <1>3, <1>4, <1>7 DEF SameValues
<1>9. AsDictionary!Put(k, value)
  BY <1>1, <1>8 DEF AsDictionary!Put, Entry, NotHeld, AsDictionary!NotHeld, Absent, AsDictionary!Absent
<1>10. AsDictionary!Next
  BY <1>2, <1>9 DEF AsDictionary!Next, Progress, AsDictionary!Progress, Nothing, AsDictionary!Nothing
<1>11. QED
  BY <1>6, <1>10 DEF Refines

LEMMA StepTake == ASSUME StoreInv, NEW k \in Keys, Take(k) PROVE Refines
<1> DEFINE v == ValueOf(Store, k)
           t == Load(Store, k)
<1>1. held = NotHeld /\ v \in Progress /\ held' = [key |-> k, progress |-> v] /\ StoreOK(Store) /\ StoreBecomes(t)
  BY DEF Take, StoreInv
<1>2. v # Absent
  BY <1>1, Distinct
<1>3. /\ StoreOK(t) /\ SameValues(Store, t)
      /\ (k \in t.evac /\ v = Steps) \/ (k \in Range(t.lru) /\ t.cached[k] = v)
  BY <1>1, <1>2, Loaded
<1> HIDE DEF t, v
<1>4. Store' = t
  BY <1>1, <1>3, Becomes DEF StoreOK
<1>5. lru' = t.lru /\ cached' = t.cached /\ evac' = t.evac
  BY <1>1 DEF StoreBecomes
<1>6. held' \in [key : Keys, progress : Progress] /\ held'.key = k /\ held'.progress = v
  BY <1>1
<1>7. HeldFresh'
  BY <1>3, <1>5, <1>6 DEF HeldFresh, IsAttached, ToSet, Range
<1>8. StoreInv'
  BY <1>3, <1>4, <1>6, <1>7 DEF StoreInv
<1>9. Entry = [j \in Keys |-> ValueOf(Store, j)]
  BY <1>1, EntryAtRest
<1>10. Entry' = Entry /\ Entry[k] = v
  BY <1>3, <1>4, <1>6, <1>9 DEF Entry, SameValues, v
<1>11. AsDictionary!Take(k)
  BY <1>1, <1>10 DEF AsDictionary!Take, Entry, NotHeld, AsDictionary!NotHeld, Progress, AsDictionary!Progress
<1>12. QED
  BY <1>8, <1>11 DEF Refines, AsDictionary!Next

LEMMA StepLookAt == ASSUME StoreInv, NEW k \in Keys, LookAt(k) PROVE Refines
<1> DEFINE t == Load(Store, k)
           h == held.key
<1>1. /\ held # NotHeld /\ held.progress # Steps /\ k # held.key /\ ValueOf(Store, k) # Absent
      /\ StoreBecomes(t) /\ held' = held
  BY DEF LookAt, IsStored, IsEvacuated
<1>2. StoreOK(Store) /\ held \in [key : Keys, progress : Progress] /\ HeldFresh /\ h \in Keys
  BY <1>1 DEF StoreInv
<1>3. /\ StoreOK(t) /\ SameValues(Store, t)
      /\ Range(t.lru) \subseteq Range(Store.lru) \cup {k}
      /\ \A j \in Keys \ {k} : t.cached[j] = Store.cached[j]
      /\ Range(Store.lru) \subseteq Range(t.lru) \/ ToExecute(k)
  BY <1>1, <1>2, Loaded DEF ToExecute
<1> HIDE DEF t
<1>4. Store' = t
  BY <1>1, <1>3, Becomes DEF StoreOK
<1>5. /\ lru' = t.lru /\ cached' = t.cached /\ Store.lru = lru /\ Store.cached = cached
      /\ ToSet(lru) = Range(lru) /\ ToSet(lru)' = Range(t.lru)
  BY <1>1 DEF StoreBecomes, Store, ToSet, Range
<1>6. \A j \in Keys : ToExecute(j)' <=> ToExecute(j)
  BY <1>3, <1>4 DEF ToExecute, SameValues
<1>7. HeldFresh'
  <2>1. CASE IsAttached /\ cached[h] = held.progress
    <3>1. h \in Range(lru) /\ cached'[h] = held.progress
      BY <1>1, <1>2, <1>3, <1>5, <2>1 DEF IsAttached
    <3>2. h \in Range(t.lru) \/ (h \notin Range(t.lru) /\ ToExecute(k))
      BY <1>3, <1>5, <3>1
    <3>3. QED
      BY <1>1, <1>5, <1>6, <3>1, <3>2 DEF HeldFresh, IsAttached
  <2>2. CASE ~IsAttached /\ \E j \in Keys \ {h} : ToExecute(j)
    <3>1. h \notin Range(t.lru)
      BY <1>1, <1>3, <1>5, <2>2 DEF IsAttached
    <3>2. QED
      BY <1>1, <1>5, <1>6, <2>2, <3>1 DEF HeldFresh, IsAttached
  <2>3. QED
    BY <1>1, <1>2, <2>1, <2>2 DEF HeldFresh
<1>8. StoreInv'
  BY <1>1, <1>2, <1>3, <1>4, <1>7 DEF StoreInv
<1>9. Entry' = Entry
  BY <1>1, <1>3, <1>4 DEF Entry, SameValues
<1>10. UNCHANGED AsDictionary!dictVars
  BY <1>1, <1>9 DEF AsDictionary!dictVars, Entry
<1>11. QED
  BY <1>8, <1>10 DEF Refines

LEMMA StepWork == ASSUME StoreInv, Work PROVE Refines
<1> DEFINE h == held.key
           n == held.progress + 1
<1>1. /\ held # NotHeld /\ held.progress # Steps /\ held' = [held EXCEPT !.progress = n]
      /\ cached' = (IF IsAttached THEN [cached EXCEPT ![h] = held'.progress] ELSE cached)
      /\ UNCHANGED <<lru, packed, evac>>
  BY DEF Work, IsEvacuated
<1>2. StoreOK(Store) /\ held \in [key : Keys, progress : Progress] /\ HeldFresh /\ h \in Keys
  BY <1>1 DEF StoreInv
<1>3. held.progress \in Nat /\ held.progress < Steps /\ n \in Progress
  BY <1>1, <1>2 DEF Progress
<1>4. held' \in [key : Keys, progress : Progress] /\ held'.key = h /\ held'.progress = n
  BY <1>1, <1>2, <1>3
<1>5. /\ lru \in Seq(Keys) /\ cached \in [Keys -> Progress] /\ packed \in [Keys -> Packed]
      /\ evac \subseteq Keys /\ IsInjective(lru) /\ Range(lru) \cap evac = {}
  BY <1>2 DEF StoreOK, Stores, Store
<1> HIDE DEF n
<1>6. cached' \in [Keys -> Progress] /\ \A j \in Keys \ {h} : cached'[j] = cached[j]
  BY <1>1, <1>2, <1>3, <1>4, <1>5
<1>7. StoreOK(Store')
  BY <1>1, <1>5, <1>6 DEF StoreOK, Stores, Store
<1>8. \A j \in Keys \ {h} : ValueOf(Store', j) = ValueOf(Store, j)
  <2>1. Parts(Store', lru, cached', packed, evac)
    BY <1>1 DEF Parts, Store
  <2>2. QED
    BY <1>6, <2>1, StoreParts, Values
<1>9. IsAttached' = IsAttached
  BY <1>1, <1>4 DEF IsAttached
<1>10. HeldFresh'
  <2>1. CASE IsAttached
    <3>1. cached'[h] = n
      BY <1>1, <1>2, <1>4, <1>5, <2>1
    <3>2. QED
      BY <1>4, <1>9, <2>1, <3>1 DEF HeldFresh
  <2>2. CASE ~IsAttached
    <3>1. PICK k \in Keys \ {h} : ToExecute(k)
      BY <1>1, <1>2, <2>2 DEF HeldFresh
    <3>2. ToExecute(k)'
      BY <1>8, <3>1 DEF ToExecute
    <3>3. QED
      BY <1>4, <1>9, <2>2, <3>1, <3>2 DEF HeldFresh
  <2>3. QED
    BY <2>1, <2>2
<1>11. StoreInv'
  BY <1>4, <1>7, <1>10 DEF StoreInv
<1>12. Entry' = [Entry EXCEPT ![h] = n]
  BY <1>2, <1>4, <1>8 DEF Entry
<1>13. AsDictionary!Work
  BY <1>1, <1>3, <1>12 DEF AsDictionary!Work, Entry, NotHeld, AsDictionary!NotHeld, n
<1>14. QED
  BY <1>11, <1>13 DEF Refines, AsDictionary!Next

LEMMA StepPutBack == ASSUME StoreInv, PutBack PROVE Refines
<1> DEFINE s == Place(Store, held.key, held.progress)
           t == EvictLru(s)
           h == held.key
<1>1. held # NotHeld /\ held' = NotHeld /\ StoreBecomes(t)
  BY DEF PutBack
<1>2. StoreOK(Store) /\ h \in Keys /\ held.progress \in Progress
  BY <1>1 DEF StoreInv
<1>3. /\ StoreOK(s) /\ ValueOf(s, h) = held.progress
      /\ \A j \in Keys \ {h} : ValueOf(s, j) = ValueOf(Store, j)
  BY <1>2, Placed
<1> HIDE DEF s
<1>4. StoreOK(t) /\ SameValues(s, t)
  BY <1>3, Evicted
<1> HIDE DEF t
<1>5. Store' = t
  BY <1>1, <1>4, Becomes DEF StoreOK
<1>6. StoreInv'
  BY <1>1, <1>4, <1>5 DEF StoreInv
<1>7. Entry' = [j \in Keys |-> ValueOf(t, j)]
  BY <1>1, <1>5 DEF Entry, NotHeld
<1>8. Entry' = Entry
  BY <1>2, <1>3, <1>4, <1>7 DEF Entry, SameValues
<1>9. AsDictionary!Release
  BY <1>1, <1>8 DEF AsDictionary!Release, Entry, NotHeld, AsDictionary!NotHeld
<1>10. QED
  BY <1>6, <1>9 DEF Refines, AsDictionary!Next

LEMMA StepLeaveFallback == ASSUME StoreInv, LeaveFallback PROVE Refines
<1> DEFINE h == held.key
<1>1. /\ held.progress = Steps /\ held' = NotHeld /\ UNCHANGED <<lru, cached, packed, evac>>
      /\ \A k \in Keys \ {h} : ValueOf(Store, k) \in {Absent, Nothing, Steps}
  BY DEF LeaveFallback, IsEvacuated, storeVars
<1>2. held # NotHeld
  BY <1>1 DEF NotHeld
<1>3. StoreOK(Store) /\ h \in Keys /\ HeldFresh
  BY <1>2 DEF StoreInv
<1>4. \A k \in Keys \ {h} : ~ToExecute(k)
  BY <1>1, Distinct, Numbers DEF ToExecute
<1>5. (h \in Range(lru) /\ cached[h] = Steps) \/ h \in evac
  BY <1>1, <1>3, <1>4, StoreParts DEF HeldFresh, IsAttached
<1>6. ValueOf(Store, h) = Steps
  BY <1>5, StoreParts, Values
<1>7. Store' = Store
  BY <1>1 DEF Store
<1>8. StoreInv'
  BY <1>1, <1>3, <1>7 DEF StoreInv
<1>9. Entry' = [j \in Keys |-> ValueOf(Store, j)]
  BY <1>1, <1>7 DEF Entry, NotHeld
<1>10. Entry' = Entry
  BY <1>1, <1>6, <1>9 DEF Entry
<1>11. AsDictionary!Release
  BY <1>1, <1>2, <1>10 DEF AsDictionary!Release, Entry, NotHeld, AsDictionary!NotHeld
<1>12. QED
  BY <1>8, <1>11 DEF Refines, AsDictionary!Next

LEMMA StepClear == ASSUME StoreInv, Clear PROVE Refines
<1>1. held = NotHeld /\ held' = NotHeld /\ StoreBecomes(EmptyStore)
  BY DEF Clear
<1>2. Store' = EmptyStore
  BY <1>1, EmptyOK, Becomes DEF StoreOK
<1>3. StoreInv'
  BY <1>1, <1>2, EmptyOK DEF StoreInv
<1>4. Entry' = [k \in Keys |-> Absent]
  BY <1>1, <1>2, EmptyOK DEF Entry, NotHeld
<1>5. AsDictionary!Clear
  BY <1>1, <1>4 DEF AsDictionary!Clear, Entry, NotHeld, AsDictionary!NotHeld, Absent, AsDictionary!Absent
<1>6. QED
  BY <1>3, <1>5 DEF Refines, AsDictionary!Next

(***************************************************************************)
(* Evictions, pickles that are out of date and entries worked on outside   *)
(* the store are not seen by the callers: they use a dictionary.           *)
(***************************************************************************)
THEOREM StoreIsDictionary == Spec => ImplementsDictionary
<1>1. Init => AsDictionary!Init
  <2> SUFFICES ASSUME Init PROVE AsDictionary!Init
    OBVIOUS
  <2>1. Store = EmptyStore /\ held = NotHeld
    BY DEF Init, Store, EmptyStore
  <2>2. Entry = [k \in Keys |-> Absent]
    BY <2>1, EmptyOK, EntryAtRest
  <2>3. QED
    BY <2>1, <2>2 DEF AsDictionary!Init, Entry, NotHeld, AsDictionary!NotHeld, Absent, AsDictionary!Absent
<1>2. StoreInv /\ [Next]_csVars => Refines
  <2> SUFFICES ASSUME StoreInv, [Next]_csVars PROVE Refines
    OBVIOUS
  <2>1. CASE UNCHANGED csVars
    BY <2>1 DEF csVars, storeVars, Refines, StoreInv, HeldFresh, IsAttached, ToExecute, Store,
                AsDictionary!dictVars
  <2>2. CASE Next
    BY <2>2, StepPut, StepTake, StepLookAt, StepWork, StepPutBack, StepLeaveFallback, StepClear DEF Next
  <2>3. QED
    BY <2>1, <2>2
<1>3. QED
  BY <1>1, <1>2, InitInv, PTL DEF Spec, Refines, ImplementsDictionary, AsDictionary!Spec

-----------------------------------------------------------------------------
(***************************************************************************)
(* CarriedHashes: what is carried from version to version is what the      *)
(* database has, and content that is stored keeps its id.                  *)
(***************************************************************************)
RowTypes ==
    /\ DOMAIN hashes = Contents /\ DOMAIN memo = Contents /\ DOMAIN queued = Contents
    /\ DOMAIN snapshot = Contents /\ DOMAIN overlay = Contents
    /\ DOMAIN batch.rows = Contents

\* Between two batches nothing is half-written, and nothing is staged in an engine that is down.
BatchInv ==
    /\ writing = "none" => batch = NoBatch /\ toWrite = {} /\ failed = {}
    /\ ~up => writing = "none" /\ queued = NoRows

(* One content, while the table is carried. What the process has given an  *)
(* id is in the carried rows. The carried rows are ahead of the database   *)
(* by what is staged and by what of the batch is not written yet; a row    *)
(* that is staged or in the batch is nowhere else.                         *)
Ahead(c) ==
    /\ memo[c] # NoId => CarriedRows[c] = memo[c]
    /\ queued[c] # NoId => /\ CarriedRows[c] = queued[c]
                           /\ hashes[c] = NoId /\ batch.rows[c] = NoId
    /\ batch.rows[c] # NoId => /\ CarriedRows[c] = batch.rows[c]
                               /\ hashes[c] \in {NoId, batch.rows[c]}
                               /\ Hash \notin toWrite \cup failed => hashes[c] = batch.rows[c]
    /\ queued[c] = NoId /\ batch.rows[c] = NoId => CarriedRows[c] = hashes[c]

\* A carried table has no committed keys: every row that is new is staged.
CarriedInv == carried => committed = {} /\ \A c \in Contents : Ahead(c)

HashInv == RowTypes /\ BatchInv /\ CarriedInv

-----------------------------------------------------------------------------
\* What the operators on rows give for one content.
LEMMA RowsOf ==
    /\ \A top, rows : /\ DOMAIN Over(top, rows) = Contents
                      /\ \A c \in Contents : Over(top, rows)[c] = IF top[c] # NoId THEN top[c] ELSE rows[c]
    /\ \A rows, keys : DOMAIN Without(rows, keys) = Contents
    /\ DOMAIN NoRows = Contents /\ \A c \in Contents : NoRows[c] = NoId
    /\ NoBatch.rows = NoRows
    /\ Hash # Ast
BY DEF Over, Without, NoRows, NoBatch, Hash, Ast

LEMMA CarriedRow ==
    ASSUME NEW c \in Contents
    PROVE  CarriedRows[c] = IF overlay[c] # NoId THEN overlay[c] ELSE snapshot[c]
BY RowsOf DEF CarriedRows

LEMMA HashInit == HashesInit => HashInv
<1> SUFFICES ASSUME HashesInit PROVE HashInv
  OBVIOUS
<1>1. RowTypes
  BY RowsOf DEF HashesInit, RowTypes
<1>2. BatchInv
  BY DEF HashesInit, BatchInv
<1>3. CarriedInv
  BY DEF HashesInit, CarriedInv
<1>4. QED
  BY <1>1, <1>2, <1>3 DEF HashInv

\* A step that changes nothing the carried rows are compared with.
LEMMA SameRows ==
    ASSUME HashInv,
           UNCHANGED <<hashes, snapshot, overlay, memo, queued, batch, toWrite, failed, writing>>,
           carried' => carried /\ committed' = committed, up' = up \/ (writing = "none" /\ queued = NoRows)
    PROVE  HashInv'
<1>1. RowTypes'
  BY DEF HashInv, RowTypes
<1>2. BatchInv'
  BY DEF HashInv, BatchInv
<1>3. CarriedInv'
  BY DEF HashInv, CarriedInv, Ahead, CarriedRows
<1>4. QED
  BY <1>1, <1>2, <1>3 DEF HashInv

\* The versions: nothing is carried over a rollback or a death.
LEMMA RollBackHashes ==
    ASSUME HashInv, NEW v \in Versions, RollBack(v)
    PROVE  HashInv'
<1>1. /\ hashes' = hashes \/ \E keys : hashes' = Without(hashes, keys)
      /\ carried' = FALSE /\ snapshot' = NoRows /\ overlay' = NoRows
      /\ UNCHANGED <<up, memo, queued, writing, batch, toWrite, failed>>
  BY DEF RollBack, Detached, stagingVars, batchVars
<1>2. RowTypes'
  BY <1>1, RowsOf DEF HashInv, RowTypes
<1>3. QED
  BY <1>1, <1>2 DEF HashInv, BatchInv, CarriedInv

LEMMA CrashHashes ==
    ASSUME HashInv, Crash
    PROVE  HashInv'
<1>1. /\ carried' = FALSE /\ snapshot' = NoRows /\ overlay' = NoRows /\ hashes' = hashes
      /\ memo' = NoRows /\ queued' = NoRows
      /\ writing' = "none" /\ batch' = NoBatch /\ toWrite' = {} /\ failed' = {}
  BY DEF Crash, Detached, EngineIsNew, dbVars
<1>2. RowTypes'
  BY <1>1, RowsOf DEF HashInv, RowTypes
<1>3. QED
  BY <1>1, <1>2 DEF HashInv, BatchInv, CarriedInv

\* A new engine takes the snapshot as it is, packs it with its overlay, or packs what it reads.
LEMMA StartHashes ==
    ASSUME HashInv, Start
    PROVE  HashInv'
<1>1. /\ ~up /\ hashes' = hashes
      /\ memo' = NoRows /\ queued' = NoRows
      /\ writing' = "none" /\ batch' = NoBatch /\ toWrite' = {} /\ failed' = {}
  BY DEF Start, EngineIsNew, dbVars
<1>2. writing = "none" /\ queued = NoRows /\ batch = NoBatch
  BY <1>1 DEF HashInv, BatchInv
<1>3. PICK rows : rows = IF carried THEN CarriedRows ELSE hashes
  OBVIOUS
<1>4. DOMAIN rows = Contents /\ \A c \in Contents : rows[c] = hashes[c]
  <2>1. CASE carried
    <3>1. DOMAIN rows = Contents /\ rows = CarriedRows
      BY <1>3, <2>1, RowsOf DEF CarriedRows
    <3>2. \A c \in Contents : queued[c] = NoId /\ batch.rows[c] = NoId
      BY <1>2, RowsOf
    <3>3. QED
      BY <2>1, <3>1, <3>2 DEF HashInv, CarriedInv, Ahead
  <2>2. CASE ~carried
    BY <1>3, <2>2 DEF HashInv, RowTypes
  <2>3. QED
    BY <2>1, <2>2
<1>5. \/ carried /\ carried' = carried /\ snapshot' = snapshot /\ overlay' = overlay /\ committed' = {}
      \/ carried' = TRUE /\ snapshot' = rows /\ overlay' = NoRows /\ committed' = {}
      \/ carried' = FALSE /\ snapshot' = NoRows /\ overlay' = NoRows
  BY <1>3 DEF Start, CarryReusable, Detached, carriedVars
<1>6. RowTypes'
  BY <1>1, <1>4, <1>5, RowsOf DEF HashInv, RowTypes
<1>7. BatchInv'
  BY <1>1 DEF BatchInv
<1>8. CarriedInv'
  <2> SUFFICES ASSUME carried', NEW c \in Contents PROVE committed' = {} /\ Ahead(c)'
    BY <1>5 DEF CarriedInv
  <2>1. CarriedRows'[c] = hashes[c]
    <3>1. CASE carried /\ snapshot' = snapshot /\ overlay' = overlay
      <4>1. CarriedRows' = CarriedRows
        BY <3>1 DEF CarriedRows
      <4>2. QED
        BY <1>3, <1>4, <3>1, <4>1
    <3>2. CASE snapshot' = rows /\ overlay' = NoRows
      BY <1>4, <3>2, RowsOf DEF CarriedRows
    <3>3. QED
      BY <1>5, <3>1, <3>2
  <2>2. QED
    BY <1>1, <1>5, <2>1, RowsOf DEF Ahead
<1>9. QED
  BY <1>6, <1>7, <1>8 DEF HashInv

\* What view_set() finds for a content of a carried table is its carried row.
LEMMA KnownRow ==
    ASSUME HashInv, carried, NEW c \in Contents
    PROVE  Known(c) = CarriedRows[c]
<1>1. Ahead(c)
  BY DEF HashInv, CarriedInv
<1>2. Known(c) = IF memo[c] # NoId THEN memo[c]
                 ELSE IF queued[c] # NoId THEN queued[c] ELSE CarriedRows[c]
  BY RowsOf DEF Known, Cached
<1>3. QED
  BY <1>1, <1>2 DEF Ahead

LEMMA ReuseHashes ==
    ASSUME HashInv, NEW c \in Contents, ReuseAst(c)
    PROVE  HashInv'
<1>1. /\ memo' = [memo EXCEPT ![c] = Known(c)]
      /\ UNCHANGED <<hashes, snapshot, overlay, queued, batch, toWrite, failed, writing, carried, committed, up>>
  BY DEF ReuseAst, dbVars, carriedVars, batchVars
<1>2. RowTypes'
  BY <1>1 DEF HashInv, RowTypes
<1>3. BatchInv'
  BY <1>1 DEF HashInv, BatchInv
<1>4. CarriedInv'
  <2> SUFFICES ASSUME carried, NEW d \in Contents PROVE committed = {} /\ Ahead(d)'
    BY <1>1 DEF CarriedInv
  <2>1. committed = {} /\ Ahead(d)
    BY DEF HashInv, CarriedInv
  <2>2. CarriedRows' = CarriedRows
    BY <1>1 DEF CarriedRows
  <2>3. memo'[d] # NoId => CarriedRows[d] = memo'[d]
    BY <1>1, <2>1, KnownRow DEF Ahead, HashInv, RowTypes
  <2>4. QED
    BY <1>1, <2>1, <2>2, <2>3 DEF Ahead
<1>5. QED
  BY <1>2, <1>3, <1>4 DEF HashInv

\* Content without a carried row has none in the database either: its new id is the first.
LEMMA StoreHashes ==
    ASSUME HashInv, NEW c \in Contents, StoreAst(c)
    PROVE  HashInv'
<1>1. /\ up /\ Known(c) = NoId /\ memo' = [memo EXCEPT ![c] = nextId]
      /\ UNCHANGED <<hashes, snapshot, batch, toWrite, failed, writing, carried, committed, up>>
      /\ IF c \in committed THEN UNCHANGED <<queued, overlay>>
         ELSE /\ queued' = [queued EXCEPT ![c] = nextId]
              /\ overlay' = IF carried THEN [overlay EXCEPT ![c] = nextId] ELSE overlay
  BY DEF StoreAst, MainThreadIsFree, dbVars, batchVars
<1>2. RowTypes'
  BY <1>1 DEF HashInv, RowTypes
<1>3. BatchInv'
  BY <1>1 DEF HashInv, BatchInv
<1>4. CarriedInv'
  <2> SUFFICES ASSUME carried, NEW d \in Contents PROVE committed = {} /\ Ahead(d)'
    BY <1>1 DEF CarriedInv
  <2>1. committed = {} /\ Ahead(d) /\ Ahead(c)
    BY DEF HashInv, CarriedInv
  <2>2. queued' = [queued EXCEPT ![c] = nextId] /\ overlay' = [overlay EXCEPT ![c] = nextId]
    BY <1>1, <2>1
  <2>3. CASE d # c
    <3>1. memo'[d] = memo[d] /\ queued'[d] = queued[d] /\ overlay'[d] = overlay[d]
      BY <1>1, <2>2, <2>3 DEF HashInv, RowTypes
    <3>2. CarriedRows'[d] = CarriedRows[d]
      BY <1>1, <3>1, RowsOf DEF CarriedRows
    <3>3. QED
      BY <1>1, <2>1, <3>1, <3>2 DEF Ahead
  <2>4. CASE d = c
    <3>1. memo'[c] = nextId /\ queued'[c] = nextId /\ overlay'[c] = nextId
      BY <1>1, <2>2 DEF HashInv, RowTypes
    <3>2. CarriedRows[c] = NoId
      BY <1>1, KnownRow
    <3>3. overlay[c] = NoId /\ snapshot[c] = NoId
      BY <3>2, CarriedRow
    <3>4. CarriedRows'[c] = nextId
      BY <1>1, <3>1, <3>3, RowsOf DEF CarriedRows
    <3>5. batch.rows[c] = NoId /\ queued[c] = NoId /\ hashes[c] = NoId
      BY <2>1, <3>2 DEF Ahead
    <3>6. hashes'[c] = NoId /\ batch'.rows[c] = NoId
      BY <1>1, <3>5
    <3>7. Ahead(c)'
      BY <3>1, <3>4, <3>6 DEF Ahead
    <3>8. QED
      BY <2>1, <2>4, <3>7
  <2>5. QED
    BY <2>1, <2>3, <2>4
<1>5. QED
  BY <1>2, <1>3, <1>4 DEF HashInv

\* The staged rows become the batch; nothing of it is written yet.
LEMMA CommitHashes ==
    ASSUME HashInv, NEW kind \in {"background", "keep", "drop"}, CommitAll(kind)
    PROVE  HashInv'
<1>1. /\ up /\ writing = "none" /\ writing' = kind /\ failed' = {} /\ queued' = NoRows
      /\ batch'.rows = IF carried THEN queued ELSE Without(queued, committed)
      /\ batch'.rows # NoRows => Hash \in toWrite'
      /\ UNCHANGED <<hashes, memo, up, snapshot, carried>>
      /\ carried => overlay' \in {overlay, Over(queued, overlay)} /\ committed' = committed \cup {}
      /\ ~carried => overlay' = overlay
  BY DEF CommitAll, Upkeep, dbVars, carriedVars
<1>2. RowTypes'
  <2>1. DOMAIN batch'.rows = Contents
    BY <1>1, RowsOf DEF HashInv, RowTypes
  <2>2. DOMAIN overlay' = Contents
    BY <1>1, RowsOf DEF HashInv, RowTypes
  <2>3. QED
    BY <1>1, <2>1, <2>2, RowsOf DEF HashInv, RowTypes
<1>3. BatchInv'
  BY <1>1 DEF BatchInv
<1>4. CarriedInv'
  <2>0. carried' => carried /\ committed' = {}
    BY <1>1, RowsOf DEF HashInv, CarriedInv
  <2> SUFFICES ASSUME carried, NEW c \in Contents PROVE Ahead(c)'
    BY <1>1, <2>0 DEF CarriedInv
  <2>1. committed = {} /\ Ahead(c)
    BY DEF HashInv, CarriedInv
  <2>2. queued'[c] = NoId /\ batch'.rows[c] = queued[c] /\ batch.rows[c] = NoId
    BY <1>1, RowsOf DEF HashInv, BatchInv
  <2>3. CarriedRows'[c] = CarriedRows[c]
    <3>1. overlay'[c] = overlay[c] \/ overlay'[c] = IF queued[c] # NoId THEN queued[c] ELSE overlay[c]
      BY <1>1, RowsOf
    <3>2. CarriedRows'[c] = IF overlay'[c] # NoId THEN overlay'[c] ELSE snapshot[c]
      BY <1>1, RowsOf DEF CarriedRows
    <3>3. QED
      BY <2>1, <3>1, <3>2, CarriedRow DEF Ahead
  <2>4. batch'.rows[c] # NoId => Hash \in toWrite'
    BY <1>1, RowsOf
  <2>5. hashes'[c] = hashes[c] /\ memo'[c] = memo[c]
    BY <1>1
  <2>6. Ahead(c)'
    BY <2>1, <2>2, <2>3, <2>4, <2>5 DEF Ahead
  <2>7. QED
    BY <1>1, <2>1, <2>6
<1>5. QED
  BY <1>2, <1>3, <1>4 DEF HashInv

\* A table is written, or reported as not written, or refused.
LEMMA TableHashes ==
    ASSUME HashInv,
           (\E t \in {Hash, Ast} : WriteTable(t) \/ FailTable(t)) \/ RefuseTable
    PROVE  HashInv'
<1>1. /\ toWrite # {}
      /\ hashes' = hashes \/ hashes' = Over(hashes, batch.rows)
      /\ Hash \notin toWrite' \cup failed' =>
            Hash \notin toWrite \cup failed \/ hashes' = Over(hashes, batch.rows)
      /\ UNCHANGED <<snapshot, overlay, memo, queued, batch, writing, carried, committed, up>>
  <2>1. CASE \E t \in {Hash, Ast} : WriteTable(t)
    BY <2>1, RowsOf DEF WriteTable, Insert, carriedVars, stagingVars
  <2>2. CASE \E t \in {Hash, Ast} : FailTable(t)
    BY <2>2, RowsOf DEF FailTable, Insert, carriedVars, stagingVars
  <2>3. CASE RefuseTable
    BY <2>3, RowsOf DEF RefuseTable, dbVars, carriedVars, stagingVars
  <2>4. QED
    BY <2>1, <2>2, <2>3
<1>2. RowTypes'
  BY <1>1, RowsOf DEF HashInv, RowTypes
<1>3. BatchInv'
  BY <1>1 DEF HashInv, BatchInv
<1>4. CarriedInv'
  <2>0. carried' => carried /\ committed' = {}
    BY <1>1, RowsOf DEF HashInv, CarriedInv
  <2> SUFFICES ASSUME carried, NEW c \in Contents PROVE Ahead(c)'
    BY <1>1, <2>0 DEF CarriedInv
  <2>1. committed = {} /\ Ahead(c)
    BY DEF HashInv, CarriedInv
  <2>2. CarriedRows' = CarriedRows
    BY <1>1 DEF CarriedRows
  <2>3. hashes'[c] = hashes[c] \/ hashes'[c] = IF hashes[c] # NoId THEN hashes[c] ELSE batch.rows[c]
    BY <1>1, RowsOf
  <2>4. /\ memo'[c] = memo[c] /\ queued'[c] = queued[c] /\ batch'.rows[c] = batch.rows[c]
    BY <1>1
  <2>5. batch.rows[c] # NoId /\ Hash \notin toWrite' \cup failed' => hashes'[c] = batch.rows[c]
    <3>1. ASSUME batch.rows[c] # NoId, hashes' = Over(hashes, batch.rows)
          PROVE  hashes'[c] = batch.rows[c]
      BY <2>1, <3>1, RowsOf DEF Ahead
    <3>2. ASSUME batch.rows[c] # NoId, Hash \notin toWrite \cup failed
          PROVE  hashes'[c] = batch.rows[c]
      BY <2>1, <2>3, <3>2 DEF Ahead
    <3>3. QED
      BY <1>1, <3>1, <3>2
  <2>6. Ahead(c)'
    BY <2>1, <2>2, <2>3, <2>4, <2>5 DEF Ahead
  <2>7. QED
    BY <2>1, <2>6
<1>5. QED
  BY <1>2, <1>3, <1>4 DEF HashInv

\* The batch is over; the overlay has its rows, or they are no longer carried.
LEMMA OverHashes ==
    ASSUME HashInv, Written \/ NotWritten
    PROVE  HashInv'
<1>1. /\ toWrite = {} /\ writing # "none"
      /\ writing' = "none" /\ batch' = NoBatch /\ toWrite' = {} /\ failed' = {}
      /\ UNCHANGED <<hashes, memo, up>>
  BY DEF Written, NotWritten, BatchIsOver, stagingVars, dbVars
<1>2. \/ /\ Hash \notin failed /\ UNCHANGED <<queued, snapshot, carried>>
         /\ overlay' \in {overlay, Over(batch.rows, overlay)}
         /\ carried => committed' = committed
      \/ /\ carried' = FALSE /\ snapshot' = NoRows /\ overlay' = NoRows
         /\ queued' = Over(queued, batch.rows)
  <2>1. CASE Written
    BY <2>1 DEF Written, Upkeep, carriedVars, stagingVars
  <2>2. CASE NotWritten
    BY <2>2 DEF NotWritten, Restore, Detached, carriedVars
  <2>3. QED
    BY <2>1, <2>2
<1>3. RowTypes'
  <2>1. DOMAIN overlay' = Contents /\ DOMAIN queued' = Contents /\ DOMAIN snapshot' = Contents
    BY <1>2, RowsOf DEF HashInv, RowTypes
  <2>2. QED
    BY <1>1, <2>1, RowsOf DEF HashInv, RowTypes
<1>4. BatchInv'
  BY <1>1 DEF HashInv, BatchInv
<1>5. CarriedInv'
  <2>0. carried' => carried /\ committed' = {}
    BY <1>1, <1>2, RowsOf DEF HashInv, CarriedInv
  <2> SUFFICES ASSUME carried', NEW c \in Contents PROVE Ahead(c)'
    BY <2>0 DEF CarriedInv
  <2>1. /\ carried /\ Hash \notin failed /\ UNCHANGED <<queued, snapshot>> /\ committed' = committed
        /\ overlay' \in {overlay, Over(batch.rows, overlay)}
    BY <1>2
  <2>2. committed = {} /\ Ahead(c)
    BY <2>1 DEF HashInv, CarriedInv
  <2>3. CarriedRows'[c] = CarriedRows[c]
    <3>1. overlay'[c] = overlay[c] \/ overlay'[c] = IF batch.rows[c] # NoId THEN batch.rows[c] ELSE overlay[c]
      BY <2>1, RowsOf
    <3>2. CarriedRows'[c] = IF overlay'[c] # NoId THEN overlay'[c] ELSE snapshot[c]
      BY <2>1, RowsOf DEF CarriedRows
    <3>3. QED
      BY <2>2, <3>1, <3>2, CarriedRow DEF Ahead
  <2>4. batch'.rows[c] = NoId /\ queued'[c] = queued[c] /\ memo'[c] = memo[c] /\ hashes'[c] = hashes[c]
    BY <1>1, <2>1, RowsOf
  <2>5. batch.rows[c] # NoId => hashes[c] = batch.rows[c]
    BY <1>1, <2>1, <2>2 DEF Ahead
  <2>6. Ahead(c)'
    BY <2>2, <2>3, <2>4, <2>5 DEF Ahead
  <2>7. QED
    BY <2>1, <2>2, <2>6
<1>6. QED
  BY <1>3, <1>4, <1>5 DEF HashInv

LEMMA HashStep == HashInv /\ [HashesNext]_hashVars => HashInv'
<1> SUFFICES ASSUME HashInv, [HashesNext]_hashVars PROVE HashInv'
  OBVIOUS
<1>1. CASE UNCHANGED hashVars
  BY <1>1, SameRows DEF hashVars, dbVars, carriedVars, stagingVars, batchVars
<1>2. CASE \E v \in Versions : Begin(v)
  BY <1>2, SameRows DEF Begin, carriedVars, stagingVars, batchVars
<1>3. CASE \E v \in Versions : RollBack(v)
  BY <1>3, RollBackHashes
<1>4. CASE Start
  BY <1>4, StartHashes
<1>5. CASE Close
  BY <1>5, SameRows DEF Close, carriedVars, stagingVars, batchVars
<1>6. CASE Crash
  BY <1>6, CrashHashes
<1>7. CASE \E c \in Contents : ReuseAst(c) \/ StoreAst(c)
  BY <1>7, ReuseHashes, StoreHashes
<1>8. CASE \E kind \in {"background", "keep", "drop"} : CommitAll(kind)
  BY <1>8, CommitHashes
<1>9. CASE (\E t \in {Hash, Ast} : WriteTable(t) \/ FailTable(t)) \/ RefuseTable
  BY <1>9, TableHashes
<1>10. CASE Written \/ NotWritten
  BY <1>10, OverHashes
<1>11. QED
  BY <1>1, <1>2, <1>3, <1>4, <1>5, <1>6, <1>7, <1>8, <1>9, <1>10 DEF HashesNext

(* The hashes carried from version to version are those of the database,   *)
(* without reading it: through background batches, tables that could not   *)
(* be written, rollbacks of interrupted versions and deaths, for any       *)
(* contents and versions and without a bound on the ids.                   *)
THEOREM CarriedIsDatabase == HashesSpec => []CarriedMirrorsDatabase
<1>1. HashInv => CarriedMirrorsDatabase
  <2> SUFFICES ASSUME HashInv, carried, writing = "none", NEW c \in Contents, queued[c] = NoId
               PROVE  CarriedRows[c] = hashes[c]
    BY DEF CarriedMirrorsDatabase
  <2>1. batch.rows[c] = NoId
    BY RowsOf DEF HashInv, BatchInv
  <2>2. QED
    BY <2>1 DEF HashInv, CarriedInv, Ahead
<1>2. QED
  BY <1>1, HashInit, HashStep, PTL DEF HashesSpec

(* While the table is carried, content whose hash is stored is given its   *)
(* stored id by view_set() and no other.                                   *)
THEOREM StoredIdsAreKept == HashesSpec => []StoredKeepsItsId
<1>1. HashInv => StoredKeepsItsId
  BY DEF HashInv, CarriedInv, Ahead, StoredKeepsItsId
<1>2. QED
  BY <1>1, HashInit, HashStep, PTL DEF HashesSpec

-----------------------------------------------------------------------------
(***************************************************************************)
(* BrowserSessions: a session is open in one window.                       *)
(***************************************************************************)
Pages == {"none", "loading", "mounting", "ready"}
Messages ==
    {Claim(s) : s \in Sessions} \cup {Gone(s) : s \in Sessions}
    \cup {Offer(t, s, w) : t \in Tabs, s \in Sessions, w \in Windows}
    \cup {Accepted(t, w) : t \in Tabs, w \in Windows}

SessionTypes ==
    /\ DOMAIN stored \subseteq Sessions /\ unused \subseteq Sessions
    /\ page \in [Windows -> Pages]
    /\ holds \in [Windows -> Sessions \cup {None}]
    /\ inbox \in [Windows -> Seq(Messages)]

\* A window holds a session only while its page hears the channel: a claim reaches it.
HoldersListen == \A w \in Windows : holds[w] # None => Listens(w)

HolderInv == SessionTypes /\ HoldersListen /\ OneHolder

\* The window is about to hear that another has its session.
Told(w) == Claim(holds[w]) \in ToSet(inbox[w])

\* What a step keeps of the windows it does not act in.
StaysTold(v) == holds'[v] = holds[v] /\ (Told(v) => Told(v)')

\* A step of one window: it leaves its session, or keeps it, or enters one and
\* claims it from every other window.
LEMMA HolderStep ==
    ASSUME OneHolder, holds \in [Windows -> Sessions \cup {None}], NEW w \in Windows,
           \A v \in Windows \ {w} : StaysTold(v),
           \/ holds'[w] = None
           \/ StaysTold(w)
           \/ \A v \in Windows \ {w} : holds[v] = holds'[w] => Told(v)'
    PROVE  OneHolder'
<1> SUFFICES ASSUME NEW u \in Windows, NEW v \in Windows, u # v, holds'[u] # None, holds'[u] = holds'[v]
             PROVE  Told(u)' \/ Told(v)'
  BY DEF OneHolder, Told
<1>1. CASE w \notin {u, v}
  <2>1. StaysTold(u) /\ StaysTold(v)
    BY <1>1
  <2>2. Told(u) \/ Told(v)
    BY <2>1 DEF OneHolder, StaysTold, Told
  <2>3. QED
    BY <2>1, <2>2 DEF StaysTold
<1>2. ASSUME NEW x \in Windows, x # w, holds'[x] = holds'[w], holds'[w] # None
      PROVE  Told(x)' \/ Told(w)'
  <2>1. StaysTold(x)
    BY <1>2
  <2>2. CASE StaysTold(w)
    <3>1. Told(x) \/ Told(w)
      BY <1>2, <2>1, <2>2 DEF OneHolder, StaysTold, Told
    <3>2. QED
      BY <2>1, <2>2, <3>1 DEF StaysTold
  <2>3. CASE \A y \in Windows \ {w} : holds[y] = holds'[w] => Told(y)'
    BY <1>2, <2>1, <2>3 DEF StaysTold
  <2>4. QED
    BY <1>2, <2>2, <2>3
<1>3. QED
  BY <1>1, <1>2

LEMMA MessageKinds ==
    /\ \A s \in Sessions : Claim(s) \in Messages /\ Gone(s) \in Messages
    /\ \A t \in Tabs, s \in Sessions, w \in Windows : Offer(t, s, w) \in Messages
    /\ \A t \in Tabs, w \in Windows : Accepted(t, w) \in Messages
    /\ \A m \in Messages : m.type = "takeover" => m = Claim(m.session)
    /\ \A m \in Messages : m.type = "push" => m.tab \in Tabs /\ m.to \in Sessions /\ m.from \in Windows
    /\ \A s : Claim(s).type = "takeover" /\ Claim(s).session = s
<1>1. \A s \in Sessions : Claim(s) \in Messages /\ Gone(s) \in Messages
  BY DEF Messages
<1>2. \A t \in Tabs, s \in Sessions, w \in Windows : Offer(t, s, w) \in Messages
  BY DEF Messages
<1>3. \A t \in Tabs, w \in Windows : Accepted(t, w) \in Messages
  BY DEF Messages
<1>4. \A m \in Messages : m.type = "takeover" => m = Claim(m.session)
  BY DEF Messages, Claim, Gone, Offer, Accepted
<1>5. \A m \in Messages : m.type = "push" => m.tab \in Tabs /\ m.to \in Sessions /\ m.from \in Windows
  BY DEF Messages, Claim, Gone, Offer, Accepted
<1>6. \A s : Claim(s).type = "takeover" /\ Claim(s).session = s
  BY DEF Claim
<1>7. QED
  BY <1>1, <1>2, <1>3, <1>4, <1>5, <1>6

\* A message is put behind what the window has not handled yet.
LEMMA SentAdds ==
    ASSUME NEW boxes \in [Windows -> Seq(Messages)], NEW w \in Windows, NEW m \in Messages
    PROVE  /\ Sent(boxes, w, m) \in [Windows -> Seq(Messages)]
           /\ \A v \in Windows : ToSet(boxes[v]) \subseteq ToSet(Sent(boxes, w, m)[v])
           /\ \A v \in Windows \ {w} : Listens(v) => m \in ToSet(Sent(boxes, w, m)[v])
<1>1. ASSUME NEW s \in Seq(Messages)
      PROVE  Append(s, m) \in Seq(Messages) /\ ToSet(s) \subseteq ToSet(Append(s, m)) /\ m \in ToSet(Append(s, m))
  <2>1. /\ Append(s, m) \in Seq(Messages) /\ Len(s) \in Nat
        /\ Len(Append(s, m)) = Len(s) + 1 /\ DOMAIN Append(s, m) = 1..(Len(s) + 1) /\ DOMAIN s = 1..Len(s)
        /\ \A i \in 1..Len(s) : Append(s, m)[i] = s[i]
        /\ Append(s, m)[Len(s) + 1] = m
    OBVIOUS
  <2>2. QED
    BY <2>1 DEF ToSet
<1>2. QED
  BY <1>1 DEF Sent

\* What is left of the inbox when its first message has been handled.
LEMMA HandledKeeps ==
    ASSUME inbox \in [Windows -> Seq(Messages)], NEW w \in Windows, inbox[w] # << >>
    PROVE  /\ Handled(w) \in [Windows -> Seq(Messages)]
           /\ Head(inbox[w]) \in Messages
           /\ \A v \in Windows \ {w} : Handled(w)[v] = inbox[v]
           /\ ToSet(inbox[w]) = ToSet(Handled(w)[w]) \cup {Head(inbox[w])}
<1>1. PICK s \in Seq(Messages) : s = inbox[w]
  OBVIOUS
<1>2. /\ Tail(s) \in Seq(Messages) /\ Head(s) \in Messages /\ Head(s) = s[1]
      /\ Len(s) \in Nat \ {0} /\ DOMAIN s = 1..Len(s) /\ DOMAIN Tail(s) = 1..(Len(s) - 1)
      /\ \A i \in 1..(Len(s) - 1) : Tail(s)[i] = s[i + 1]
  BY <1>1
<1>3. ToSet(s) \subseteq ToSet(Tail(s)) \cup {Head(s)}
  <2> SUFFICES ASSUME NEW i \in 1..Len(s), i # 1 PROVE s[i] \in ToSet(Tail(s))
    BY <1>2 DEF ToSet
  <2>1. i - 1 \in 1..(Len(s) - 1) /\ Tail(s)[i - 1] = s[i]
    BY <1>2
  <2>2. QED
    BY <1>2, <2>1 DEF ToSet
<1>4. ToSet(Tail(s)) \cup {Head(s)} \subseteq ToSet(s)
  BY <1>2 DEF ToSet
<1>5. QED
  BY <1>1, <1>2, <1>3, <1>4 DEF Handled

LEMMA ItemSet == ASSUME NEW items, NEW s, NEW r PROVE DOMAIN SetItem(items, s, r) = DOMAIN items \cup {s}
BY DEF SetItem

LEMMA FlushedItems ==
    ASSUME SessionTypes, NEW w \in Windows
    PROVE  DOMAIN Flushed(w) \subseteq Sessions /\ holds[w] \in Sessions \cup {None}
<1>1. holds[w] \in Sessions \cup {None}
  BY DEF SessionTypes
<1>2. DOMAIN SetItem(stored, holds[w], tabs[w]) = DOMAIN stored \cup {holds[w]}
  BY ItemSet
<1>3. QED
  BY <1>1, <1>2 DEF Flushed, SessionTypes

\* Nobody enters or leaves a session.
LEMMA QuietInv ==
    ASSUME HolderInv, NEW w \in Windows, holds' = holds,
           DOMAIN stored' \subseteq Sessions, unused' \subseteq unused, page' \in [Windows -> Pages],
           \A v \in Windows : Listens(v) => Listens(v)',
           inbox' \in [Windows -> Seq(Messages)],
           \A v \in Windows : Told(v) => Told(v)'
    PROVE  HolderInv'
<1>1. SessionTypes'
  BY DEF HolderInv, SessionTypes
<1>2. HoldersListen'
  BY DEF HolderInv, HoldersListen
<1>3. \A v \in Windows : StaysTold(v)
  BY DEF StaysTold
<1>4. OneHolder /\ holds \in [Windows -> Sessions \cup {None}]
  BY DEF HolderInv, SessionTypes
<1>5. OneHolder'
  BY <1>3, <1>4, HolderStep
<1>6. QED
  BY <1>1, <1>2, <1>5 DEF HolderInv

\* A window leaves its session.
LEMMA LeaveInv ==
    ASSUME HolderInv, NEW w \in Windows, holds' = [holds EXCEPT ![w] = None],
           DOMAIN stored' \subseteq Sessions, unused' \subseteq unused, page' \in [Windows -> Pages],
           \A v \in Windows \ {w} : Listens(v) => Listens(v)',
           inbox' \in [Windows -> Seq(Messages)],
           \A v \in Windows \ {w} : ToSet(inbox[v]) \subseteq ToSet(inbox'[v])
    PROVE  HolderInv'
<1>1. /\ OneHolder /\ holds \in [Windows -> Sessions \cup {None}]
      /\ holds'[w] = None /\ \A v \in Windows \ {w} : holds'[v] = holds[v]
  BY DEF HolderInv, SessionTypes
<1>2. SessionTypes'
  BY DEF HolderInv, SessionTypes
<1>3. HoldersListen'
  BY <1>1 DEF HolderInv, HoldersListen
<1>4. \A v \in Windows \ {w} : StaysTold(v)
  BY <1>1 DEF StaysTold, Told
<1>5. OneHolder'
  BY <1>1, <1>4, HolderStep
<1>6. QED
  BY <1>2, <1>3, <1>5 DEF HolderInv

\* A window enters session s and claims it.
LEMMA EnterInv ==
    ASSUME HolderInv, NEW w \in Windows, NEW s \in Sessions,
           holds' = [holds EXCEPT ![w] = s],
           DOMAIN stored' \subseteq Sessions, unused' \subseteq unused,
           page' \in [Windows -> Pages], page'[w] \in {"mounting", "ready"},
           \A v \in Windows \ {w} : page'[v] = page[v],
           NEW boxes \in [Windows -> Seq(Messages)],
           \A v \in Windows \ {w} : ToSet(inbox[v]) \subseteq ToSet(boxes[v]),
           inbox' = Sent(boxes, w, Claim(s))
    PROVE  HolderInv'
<1>1. /\ OneHolder /\ holds \in [Windows -> Sessions \cup {None}]
      /\ holds'[w] = s /\ \A v \in Windows \ {w} : holds'[v] = holds[v]
  BY DEF HolderInv, SessionTypes
<1>2. Claim(s) \in Messages
  BY MessageKinds
<1>3. /\ inbox' \in [Windows -> Seq(Messages)]
      /\ \A v \in Windows \ {w} : ToSet(inbox[v]) \subseteq ToSet(inbox'[v])
      /\ \A v \in Windows \ {w} : Listens(v) => Claim(s) \in ToSet(inbox'[v])
  BY <1>2, SentAdds
<1>4. SessionTypes'
  BY <1>1, <1>3 DEF HolderInv, SessionTypes
<1>5. HoldersListen'
  BY <1>1 DEF HolderInv, HoldersListen, Listens
<1>6. \A v \in Windows \ {w} : StaysTold(v)
  BY <1>1, <1>3 DEF StaysTold, Told
<1>7. \A v \in Windows \ {w} : holds[v] = holds'[w] => Told(v)' \/ holds'[w] = None
  BY <1>1, <1>3 DEF HolderInv, HoldersListen, Told
<1>8. OneHolder'
  BY <1>1, <1>6, <1>7, HolderStep
<1>9. QED
  BY <1>4, <1>5, <1>8 DEF HolderInv

LEMMA HolderInit == SessionsInit => HolderInv
<1> SUFFICES ASSUME SessionsInit PROVE HolderInv
  OBVIOUS
<1>1. /\ DOMAIN stored \subseteq Sessions /\ unused \subseteq Sessions
      /\ holds \in [Windows -> DOMAIN stored \cup {None}]
      /\ \A v, w \in Windows : v # w /\ holds[v] # None => holds[v] # holds[w]
      /\ page = [w \in Windows |-> IF holds[w] = None THEN "none" ELSE "ready"]
      /\ inbox = [w \in Windows |-> << >>]
  BY DEF SessionsInit
<1>2. SessionTypes
  BY <1>1 DEF SessionTypes, Pages
<1>3. HoldersListen
  BY <1>1 DEF HoldersListen, Listens
<1>4. OneHolder
  BY <1>1 DEF OneHolder
<1>5. QED
  BY <1>2, <1>3, <1>4 DEF HolderInv

\* The steps between two messages.
LEMMA PageHolders ==
    ASSUME HolderInv, NEW w \in Windows, OpenPage(w) \/ NothingPinned(w) \/ Mount(w) \/ FlushState(w)
    PROVE  HolderInv'
<1>1. UNCHANGED <<unused, holds, inbox>>
  BY DEF OpenPage, NothingPinned, Mount, FlushState
<1>2. DOMAIN stored' \subseteq Sessions
  BY FlushedItems DEF OpenPage, NothingPinned, Mount, FlushState, HolderInv, SessionTypes
<1>3. page' \in [Windows -> Pages]
  BY DEF OpenPage, NothingPinned, Mount, FlushState, HolderInv, SessionTypes, Pages
<1>4. \A v \in Windows : Listens(v) => Listens(v)'
  BY DEF OpenPage, NothingPinned, Mount, FlushState, HolderInv, SessionTypes, Listens
<1>5. \A v \in Windows : Told(v) => Told(v)'
  BY <1>1 DEF Told
<1>6. QED
  BY <1>1, <1>2, <1>3, <1>4, <1>5, QuietInv DEF HolderInv, SessionTypes

\* A window draws its tabs and a message is sent.
LEMMA SendHolders ==
    ASSUME HolderInv, NEW w \in Windows, NEW m \in Messages, NEW boxes \in [Windows -> Seq(Messages)],
           \A v \in Windows : Claim(holds[v]) \in ToSet(inbox[v]) => Claim(holds[v]) \in ToSet(boxes[v]),
           inbox' = Sent(boxes, w, m), UNCHANGED <<unused, page, holds>>,
           DOMAIN stored' \subseteq Sessions
    PROVE  HolderInv'
<1>1. /\ inbox' \in [Windows -> Seq(Messages)]
      /\ \A v \in Windows : ToSet(boxes[v]) \subseteq ToSet(inbox'[v])
  BY SentAdds
<1>2. \A v \in Windows : Told(v) => Told(v)'
  BY <1>1 DEF Told
<1>3. page' \in [Windows -> Pages] /\ \A v \in Windows : Listens(v) => Listens(v)'
  BY DEF HolderInv, SessionTypes, Listens
<1>4. QED
  BY <1>1, <1>2, <1>3, QuietInv

\* A message that is not a claim on the window's session is handled.
LEMMA OtherHandled ==
    ASSUME HolderInv, NEW w \in Windows, inbox[w] # << >>, Head(inbox[w]) # Claim(holds[w])
    PROVE  /\ Handled(w) \in [Windows -> Seq(Messages)] /\ Head(inbox[w]) \in Messages
           /\ \A v \in Windows : Claim(holds[v]) \in ToSet(inbox[v]) => Claim(holds[v]) \in ToSet(Handled(w)[v])
<1>1. inbox \in [Windows -> Seq(Messages)]
  BY DEF HolderInv, SessionTypes
<1>2. QED
  BY <1>1, HandledKeeps

LEMMA HandleHolders ==
    ASSUME HolderInv, NEW w \in Windows, inbox[w] # << >>, Head(inbox[w]) # Claim(holds[w]),
           inbox' = Handled(w), UNCHANGED <<stored, unused, page, holds>>
    PROVE  HolderInv'
<1>1. /\ inbox' \in [Windows -> Seq(Messages)]
      /\ \A v \in Windows : Told(v) => Told(v)'
  BY OtherHandled DEF Told
<1>2. DOMAIN stored' \subseteq Sessions /\ page' \in [Windows -> Pages]
      /\ \A v \in Windows : Listens(v) => Listens(v)'
  BY DEF HolderInv, SessionTypes, Listens
<1>3. QED
  BY <1>1, <1>2, QuietInv

LEMMA HeardHead ==
    ASSUME HolderInv, NEW w \in Windows, NEW type, Heard(w, type)
    PROVE  /\ inbox[w] # << >> /\ Head(inbox[w]).type = type /\ Head(inbox[w]) \in Messages
           /\ type # "takeover" => Head(inbox[w]) # Claim(holds[w])
<1>1. inbox[w] # << >> /\ Head(inbox[w]).type = type
  BY DEF Heard
<1>2. Head(inbox[w]) \in Messages
  BY <1>1, HandledKeeps DEF HolderInv, SessionTypes
<1>3. QED
  BY <1>1, <1>2, MessageKinds

LEMMA TakenOverHolders == ASSUME HolderInv, NEW w \in Windows, TakenOver(w) PROVE HolderInv'
<1>1. /\ inbox[w] # << >> /\ Head(inbox[w]).type = "takeover" /\ Head(inbox[w]) \in Messages
      /\ inbox' = Handled(w) /\ UNCHANGED <<stored, unused, page>>
  BY HeardHead DEF TakenOver
<1>2. Head(inbox[w]) = Claim(Head(inbox[w]).session)
  BY <1>1, MessageKinds
<1>3. CASE IsClaimed(w)
  <2>1. holds' = [holds EXCEPT ![w] = None]
    BY <1>3 DEF TakenOver, NoSession
  <2>2. /\ inbox' \in [Windows -> Seq(Messages)]
        /\ \A v \in Windows \ {w} : ToSet(inbox[v]) \subseteq ToSet(inbox'[v])
    BY <1>1, HandledKeeps DEF HolderInv, SessionTypes
  <2>3. DOMAIN stored' \subseteq Sessions /\ page' \in [Windows -> Pages]
        /\ \A v \in Windows : Listens(v) => Listens(v)'
    BY <1>1 DEF HolderInv, SessionTypes, Listens
  <2>4. QED
    BY <1>1, <2>1, <2>2, <2>3, LeaveInv
<1>4. CASE ~IsClaimed(w)
  <2>1. holds' = holds
    BY <1>4 DEF TakenOver
  <2>2. Head(inbox[w]) # Claim(holds[w])
    BY <1>4, MessageKinds DEF IsClaimed
  <2>3. QED
    BY <1>1, <2>1, <2>2, HandleHolders
<1>5. QED
  BY <1>3, <1>4

LEMMA RehydrateHolders == ASSUME HolderInv, NEW w \in Windows, Rehydrate(w) PROVE HolderInv'
<1>1. /\ page' = [page EXCEPT ![w] = "mounting"] /\ page \in [Windows -> Pages]
      /\ inbox \in [Windows -> Seq(Messages)] /\ DOMAIN stored \subseteq Sessions /\ unused \subseteq Sessions
  BY DEF Rehydrate, HolderInv, SessionTypes
<1>2. page' \in [Windows -> Pages] /\ page'[w] \in {"mounting", "ready"}
      /\ \A v \in Windows \ {w} : page'[v] = page[v]
  BY <1>1 DEF Pages
<1>3. PICK s \in Sessions : /\ holds' = [holds EXCEPT ![w] = s] /\ unused' \subseteq unused
                            /\ inbox' = Sent(inbox, w, Claim(s)) /\ DOMAIN stored' \subseteq Sessions
  <2>1. CASE \E s \in DOMAIN stored : /\ LoadSession(w, s) /\ inbox' = Sent(inbox, w, Claim(s)) /\ UNCHANGED unused
    BY <1>1, <2>1, FlushedItems DEF LoadSession, Enter, HolderInv
  <2>2. CASE \E s \in unused : /\ DOMAIN stored = {} /\ unused' = unused \ {s}
                               /\ Enter(w, s, {}, SetItem(stored, s, {})) /\ inbox' = Sent(inbox, w, Claim(s))
    <3>1. PICK s \in unused : /\ unused' = unused \ {s} /\ DOMAIN stored = {}
                              /\ Enter(w, s, {}, SetItem(stored, s, {})) /\ inbox' = Sent(inbox, w, Claim(s))
      BY <2>2
    <3>2. DOMAIN SetItem(stored, s, {}) = DOMAIN stored \cup {s}
      BY ItemSet
    <3>3. DOMAIN stored' = {s} /\ s \in Sessions
      BY <1>1, <3>1, <3>2 DEF Enter
    <3>4. QED
      BY <3>1, <3>3 DEF Enter
  <2>3. QED
    BY <2>1, <2>2 DEF Rehydrate
<1>4. QED
  BY <1>1, <1>2, <1>3, EnterInv

\* The user opens a session, or a new one.
LEMMA OpenHolders ==
    ASSUME HolderInv, NEW w \in Windows, NEW s \in Sessions, OpenSession(w, s) \/ NewSession(w, s)
    PROVE  HolderInv'
<1>1. /\ inbox \in [Windows -> Seq(Messages)] /\ page \in [Windows -> Pages]
      /\ page[w] = "ready" /\ page' = page
  BY DEF OpenSession, NewSession, Gesture, HolderInv, SessionTypes
<1>2. /\ holds' = [holds EXCEPT ![w] = s] /\ inbox' = Sent(inbox, w, Claim(s)) /\ unused' \subseteq unused
  BY DEF OpenSession, NewSession, LoadSession, Enter
<1>3. stored' = Flushed(w) \/ stored' = SetItem(Flushed(w), s, {})
  BY DEF OpenSession, NewSession, LoadSession, Enter
<1>4. DOMAIN Flushed(w) \subseteq Sessions
  BY FlushedItems DEF HolderInv
<1>5. DOMAIN SetItem(Flushed(w), s, {}) = DOMAIN Flushed(w) \cup {s}
  BY ItemSet
<1>6. DOMAIN stored' \subseteq Sessions
  BY <1>3, <1>4, <1>5
<1>7. QED
  BY <1>1, <1>2, <1>6, EnterInv

LEMMA DeleteHolders == ASSUME HolderInv, NEW w \in Windows, NEW s \in Sessions, DeleteSession(w, s) PROVE HolderInv'
<1>1. /\ inbox \in [Windows -> Seq(Messages)] /\ page \in [Windows -> Pages]
      /\ page[w] = "ready" /\ UNCHANGED <<page, unused>>
  BY DEF DeleteSession, Gesture, HolderInv, SessionTypes
<1>2. PICK left : DOMAIN left \subseteq Sessions
                  /\ \/ \E r \in DOMAIN left : /\ Enter(w, r, left[r], left)
                                               /\ inbox' = Sent(Sent(inbox, w, Gone(s)), w, Claim(r))
                     \/ /\ stored' = left /\ inbox' = Sent(inbox, w, Gone(s))
                        /\ holds' = [holds EXCEPT ![w] = None] \/ holds' = holds
  <2> DEFINE l == [r \in DOMAIN stored \ {s} |-> stored[r]]
  <2>1. DOMAIN l \subseteq Sessions
    BY DEF HolderInv, SessionTypes
  <2>2. QED
    BY <2>1 DEF DeleteSession, NoSession
<1>3. Gone(s) \in Messages
  BY MessageKinds
<1>4. PICK boxes : /\ boxes = Sent(inbox, w, Gone(s)) /\ boxes \in [Windows -> Seq(Messages)]
                   /\ \A v \in Windows : ToSet(inbox[v]) \subseteq ToSet(boxes[v])
  BY <1>1, <1>3, SentAdds
<1>5. CASE \E r \in DOMAIN left : Enter(w, r, left[r], left) /\ inbox' = Sent(boxes, w, Claim(r))
  <2>1. PICK r \in Sessions : /\ holds' = [holds EXCEPT ![w] = r] /\ stored' = left
                              /\ inbox' = Sent(boxes, w, Claim(r))
    BY <1>2, <1>5 DEF Enter
  <2>2. QED
    BY <1>1, <1>2, <1>4, <2>1, EnterInv
<1>6. CASE stored' = left /\ inbox' = boxes /\ holds' = [holds EXCEPT ![w] = None]
  <2>1. \A v \in Windows : Listens(v) => Listens(v)'
    BY <1>1 DEF Listens
  <2>2. QED
    BY <1>1, <1>2, <1>4, <1>6, <2>1, LeaveInv
<1>7. CASE stored' = left /\ inbox' = boxes /\ holds' = holds
  BY <1>1, <1>2, <1>3, <1>4, <1>7, SendHolders
<1>8. QED
  BY <1>2, <1>4, <1>5, <1>6, <1>7

LEMMA HearGoneHolders == ASSUME HolderInv, NEW w \in Windows, HearGone(w) PROVE HolderInv'
<1>1. /\ inbox[w] # << >> /\ Head(inbox[w]) # Claim(holds[w]) /\ UNCHANGED <<page, unused>>
      /\ inbox \in [Windows -> Seq(Messages)] /\ page \in [Windows -> Pages] /\ DOMAIN stored \subseteq Sessions
  BY HeardHead DEF HearGone, HolderInv, SessionTypes
<1>2. /\ Handled(w) \in [Windows -> Seq(Messages)]
      /\ \A v \in Windows \ {w} : Handled(w)[v] = inbox[v]
  BY <1>1, HandledKeeps
<1>3. CASE \E r \in DOMAIN stored : page[w] = "ready" /\ LoadSession(w, r) /\ inbox' = Sent(Handled(w), w, Claim(r))
  <2>1. PICK r \in Sessions : /\ holds' = [holds EXCEPT ![w] = r] /\ stored' = Flushed(w) /\ page[w] = "ready"
                              /\ inbox' = Sent(Handled(w), w, Claim(r))
    BY <1>1, <1>3 DEF LoadSession, Enter
  <2>2. DOMAIN stored' \subseteq Sessions
    BY <2>1, FlushedItems DEF HolderInv
  <2>3. QED
    BY <1>1, <1>2, <2>1, <2>2, EnterInv
<1>4. CASE inbox' = Handled(w) /\ UNCHANGED <<stored, holds>>
  BY <1>1, <1>4, HandleHolders
<1>5. QED
  BY <1>3, <1>4 DEF HearGone

LEMMA PageGoesHolders ==
    ASSUME HolderInv, NEW w \in Windows, NEW saves \in BOOLEAN, PageGoes(w, saves)
    PROVE  HolderInv'
<1>1. /\ holds' = [holds EXCEPT ![w] = None] /\ unused' = unused
      /\ page' = [page EXCEPT ![w] = "none"] /\ inbox' = [inbox EXCEPT ![w] = << >>]
      /\ stored' = Flushed(w) \/ stored' = stored
  BY DEF PageGoes
<1>2. /\ page' \in [Windows -> Pages] /\ inbox' \in [Windows -> Seq(Messages)]
      /\ \A v \in Windows \ {w} : page'[v] = page[v] /\ inbox'[v] = inbox[v]
  BY <1>1 DEF HolderInv, SessionTypes, Pages
<1>3. DOMAIN stored' \subseteq Sessions
  BY <1>1, FlushedItems DEF HolderInv, SessionTypes
<1>4. QED
  BY <1>1, <1>2, <1>3, LeaveInv DEF Listens

\* Tabs that are closed, dropped, pushed and taken.
LEMMA TabHolders ==
    ASSUME HolderInv, NEW w \in Windows, NEW t \in Tabs,
           \/ CloseTab(w, t)
           \/ \E v \in Windows : DropTab(w, v, t)
           \/ \E s \in Sessions : PushTab(w, t, s) \/ ElevateTab(w, t, s)
    PROVE  HolderInv'
<1>1. inbox \in [Windows -> Seq(Messages)] /\ page \in [Windows -> Pages] /\ DOMAIN stored \subseteq Sessions
  BY DEF HolderInv, SessionTypes
<1>2. CASE CloseTab(w, t)
  <2>1. UNCHANGED <<stored, unused, page, holds, inbox>>
    BY <1>2 DEF CloseTab
  <2>2. QED
    BY <1>1, <2>1, QuietInv DEF Listens, Told
<1>3. ASSUME NEW v \in Windows, DropTab(w, v, t) PROVE HolderInv'
  <2>1. UNCHANGED <<stored, unused, page, holds>> /\ inbox' = Sent(inbox, w, Accepted(t, v))
    BY <1>3 DEF DropTab, TakeTab
  <2>2. Accepted(t, v) \in Messages
    BY MessageKinds
  <2>3. QED
    BY <1>1, <2>1, <2>2, SendHolders
<1>4. ASSUME NEW s \in Sessions, PushTab(w, t, s) PROVE HolderInv'
  <2>1. /\ UNCHANGED <<unused, page, holds>> /\ inbox' = Sent(inbox, w, Offer(t, s, w))
        /\ stored' = SetItem(stored, holds[w], tabs[w]) /\ holds[w] # None
    BY <1>4 DEF PushTab
  <2>2. Offer(t, s, w) \in Messages
    BY MessageKinds
  <2>3. DOMAIN SetItem(stored, holds[w], tabs[w]) = DOMAIN stored \cup {holds[w]} /\ holds[w] \in Sessions
    BY <2>1, ItemSet, FlushedItems DEF HolderInv
  <2>4. DOMAIN stored' \subseteq Sessions
    BY <1>1, <2>1, <2>3
  <2>5. QED
    BY <1>1, <2>1, <2>2, <2>4, SendHolders
<1>5. ASSUME NEW s \in Sessions, ElevateTab(w, t, s) PROVE HolderInv'
  <2>1. /\ UNCHANGED <<holds, inbox>> /\ unused' \subseteq unused
        /\ stored' = SetItem(stored, s, {t})
        /\ page' = page \/ \E v \in Windows : page[v] = "none" /\ page' = [page EXCEPT ![v] = "loading"]
    BY <1>5 DEF ElevateTab
  <2>2. DOMAIN SetItem(stored, s, {t}) = DOMAIN stored \cup {s}
    BY ItemSet
  <2>3. DOMAIN stored' \subseteq Sessions
    BY <1>1, <2>1, <2>2
  <2>4. page' \in [Windows -> Pages] /\ \A v \in Windows : Listens(v) => Listens(v)'
    BY <1>1, <2>1 DEF Listens, Pages
  <2>5. QED
    BY <1>1, <2>1, <2>3, <2>4, QuietInv DEF Told
<1>6. QED
  BY <1>2, <1>3, <1>4, <1>5

LEMMA PushedHolders ==
    ASSUME HolderInv, NEW w \in Windows, TakePushed(w) \/ IgnorePushed(w) \/ HearAccepted(w)
    PROVE  HolderInv'
<1>1. PICK m : /\ m = Head(inbox[w]) /\ m \in Messages /\ inbox[w] # << >> /\ m # Claim(holds[w])
               /\ TakePushed(w) => m.type = "push"
  BY HeardHead DEF TakePushed, IgnorePushed, HearAccepted
<1>2. UNCHANGED <<stored, unused, page, holds>>
  BY DEF TakePushed, IgnorePushed, HearAccepted
<1>3. CASE TakePushed(w)
  <2>1. inbox' = Sent(Handled(w), w, Accepted(m.tab, m.from))
    BY <1>1, <1>3 DEF TakePushed, TakeTab
  <2>2. Accepted(m.tab, m.from) \in Messages
    BY <1>1, <1>3, MessageKinds
  <2>3. DOMAIN stored' \subseteq Sessions
    BY <1>2 DEF HolderInv, SessionTypes
  <2>4. QED
    BY <1>1, <1>2, <2>1, <2>2, <2>3, OtherHandled, SendHolders
<1>4. CASE inbox' = Handled(w)
  BY <1>1, <1>2, <1>4, HandleHolders
<1>5. QED
  BY <1>3, <1>4 DEF IgnorePushed, HearAccepted

LEMMA UnansweredHolders ==
    ASSUME HolderInv, NEW w \in Windows, NEW p \in timers[w], PushUnanswered(w, p)
    PROVE  HolderInv'
<1>1. UNCHANGED <<unused, page, holds, inbox>> /\ DOMAIN stored' = DOMAIN stored
  BY DEF PushUnanswered, WithTab
<1>2. QED
  BY <1>1, QuietInv DEF HolderInv, SessionTypes, Listens, Told

LEMMA HolderNext == HolderInv /\ [SessionsNext]_sessionVars => HolderInv'
<1> SUFFICES ASSUME HolderInv, [SessionsNext]_sessionVars PROVE HolderInv'
  OBVIOUS
<1>1. CASE UNCHANGED sessionVars
  BY <1>1 DEF sessionVars, windowVars, historyVars, HolderInv, SessionTypes, HoldersListen, Listens, OneHolder
<1>2. CASE SessionsNext
  <2>1. PICK w \in Windows :
          \/ OpenPage(w) \/ Rehydrate(w) \/ NothingPinned(w) \/ Mount(w)
          \/ FlushState(w) \/ Hears(w)
          \/ \E saves \in BOOLEAN : PageGoes(w, saves)
          \/ \E p \in timers[w] : PushUnanswered(w, p)
          \/ \E s \in Sessions : OpenSession(w, s) \/ NewSession(w, s) \/ DeleteSession(w, s)
          \/ \E t \in Tabs :
                \/ CloseTab(w, t)
                \/ \E v \in Windows : DropTab(w, v, t)
                \/ \E s \in Sessions : PushTab(w, t, s) \/ ElevateTab(w, t, s)
    BY <1>2 DEF SessionsNext
  <2>2. QED
    BY <2>1, PageHolders, RehydrateHolders, TakenOverHolders, HearGoneHolders, PushedHolders,
       PageGoesHolders, UnansweredHolders, OpenHolders, DeleteHolders, TabHolders DEF Hears
<1>3. QED
  BY <1>1, <1>2

\* A session is open in one window at a time: however many windows open, reload,
\* delete and take over sessions, two hold the same one only while a claim is on its
\* way to one of them, which signs out when it hears it.
THEOREM OneWindowHolds == SessionsSpec => []OneHolder
<1>1. HolderInv => OneHolder
  BY DEF HolderInv
<1>2. QED
  BY <1>1, HolderInit, HolderNext, PTL DEF SessionsSpec

-----------------------------------------------------------------------------
(* No tab is lost while every transfer finds its session where it was      *)
(* offered.                                                                *)
USE SessionAssumption

Mail(w) == ToSet(inbox[w])
Moving(m) == m.type \in {"push", "accepted"}
Source(m) == IF m.type = "push" THEN m.from ELSE m.source

Named(ts, n) == \E t \in ts : Name(t) = n
Shows(w, n) == Named(tabs[w], n)
RecordedIn(items, s, n) == s \in DOMAIN items /\ Named(items[s], n)
Recorded(s, n) == RecordedIn(stored, s, n)
HeldIn(s) == \E w \in Windows : holds[w] = s

(* Where a tab is safe from what others write: in the memory of a window   *)
(* with a session or offered to it, or in the record of a session that no  *)
(* window holds.                                                           *)
Offered(w, n) == \E m \in Mail(w) : m.type = "push" /\ Name(m.tab) = n /\ m.to = holds[w]
Keeps(w, n) == holds[w] # None /\ (Shows(w, n) \/ Offered(w, n))
Shelved(n) == \E s \in DOMAIN stored : Recorded(s, n) /\ ~HeldIn(s)
Located(n, W) == Shelved(n) \/ \E w \in W : Keeps(w, n)

WindowTypes ==
    /\ DOMAIN tabs = Windows
    /\ dirty \in [Windows -> BOOLEAN]
    /\ DOMAIN pending = Windows /\ DOMAIN timers = Windows

PagesWork == \A w \in Windows :
    /\ inbox[w] # << >> => Listens(w)
    /\ timers[w] # {} => page[w] = "ready"

NotGivenOut == \A s \in unused : s \notin DOMAIN stored /\ ~HeldIn(s)

(* A transfer begins only when every message was handled, so that those in *)
(* the inboxes are about one tab of one window, and not together with the  *)
(* end of a session.                                                       *)
OneTransfer ==
    /\ \A u, v \in Windows : \A m \in Mail(u), k \in Mail(v) :
          /\ Moving(m) => k.type # "gone"
          /\ Moving(m) /\ Moving(k) => m.tab = k.tab /\ Source(m) = Source(k)
    /\ \A w \in Windows : \A m \in Mail(w) : m.type = "push" => m.from # w

MoveInv == HolderInv /\ WindowTypes /\ PagesWork /\ NotGivenOut /\ OneTransfer

OneEach == \A v, w \in Windows : v # w /\ holds[v] # None => holds[v] # holds[w]

\* What a window would lose if it left without saving, or when it is signed out.
Saved(w) == \A n \in Names \ closed : Shows(w, n) => Recorded(holds[w], n)

CleanSaved == \A w \in Windows : holds[w] # None /\ ~dirty[w] => Saved(w)
ClaimedSaved == \A w \in Windows : holds[w] # None /\ Claim(holds[w]) \in Mail(w) => Saved(w)

OffersStand == \A w \in Windows : \A m \in Mail(w) : m.type = "push" => Claim(m.to) \notin Mail(w)

\* A push whose time runs: who holds the target has still to answer, or has answered.
TimersWait == \A v, u \in Windows : \A p \in timers[v] :
    p[1] \in pending[v] /\ holds[u] # None /\ holds[u] = p[2] =>
        u # v /\ (Offer(p[1], p[2], v) \in Mail(u) \/ Accepted(p[1], v) \in Mail(v))

\* A tab that was taken need not be where it was.
TakenStay == \A v \in Windows : \A m \in Mail(v) :
    m.type = "accepted" /\ m.source = v /\ Name(m.tab) \in Names \ closed =>
        Located(Name(m.tab), Windows \ {v})

AllLocated == \A n \in Names \ closed : Located(n, Windows)

SettledInv ==
    OneEach /\ CleanSaved /\ ClaimedSaved /\ OffersStand /\ TimersWait /\ TakenStay /\ AllLocated

LostInv == MoveInv /\ (settled => SettledInv)

\* What is located is safe.
LEMMA Located_Safe == ASSUME LostInv PROVE NeverLostWhenSettled
<1> SUFFICES ASSUME settled, NEW n \in Names \ closed PROVE Safe(n)
  BY DEF NeverLostWhenSettled, NeverLost
<1>1. Located(n, Windows)
  BY DEF LostInv, SettledInv, AllLocated
<1>2. QED
  BY <1>1 DEF Located, Shelved, Recorded, RecordedIn, Keeps, Shows, Named, Offered, Mail, Safe

-----------------------------------------------------------------------------
(* Messages and records                                                    *)

LEMMA Kinds ==
    /\ \A m \in Messages : m.type \in {"takeover", "gone", "push", "accepted"}
    /\ \A m \in Messages : m.type = "push" => m = Offer(m.tab, m.to, m.from) /\ m.tab \in Tabs
    /\ \A m \in Messages : m.type = "accepted" => m = Accepted(m.tab, m.source) /\ m.tab \in Tabs
    /\ \A s : Claim(s).type = "takeover" /\ Gone(s).type = "gone"
    /\ \A s, r : Claim(s) = Claim(r) => s = r
    /\ \A t, s, w : LET m == Offer(t, s, w) IN m.type = "push" /\ m.tab = t /\ m.to = s /\ m.from = w
    /\ \A t, w : LET m == Accepted(t, w) IN m.type = "accepted" /\ m.tab = t /\ m.source = w
<1>1. \A m \in Messages : m.type \in {"takeover", "gone", "push", "accepted"}
  BY DEF Messages, Claim, Gone, Offer, Accepted
<1>2. \A m \in Messages : m.type = "push" => m = Offer(m.tab, m.to, m.from) /\ m.tab \in Tabs
  BY DEF Messages, Claim, Gone, Offer, Accepted
<1>3. \A m \in Messages : m.type = "accepted" => m = Accepted(m.tab, m.source) /\ m.tab \in Tabs
  BY DEF Messages, Claim, Gone, Offer, Accepted
<1>4. \A s : Claim(s).type = "takeover" /\ Claim(s).session = s /\ Gone(s).type = "gone"
  BY DEF Claim, Gone
<1>5. \A s, r : Claim(s) = Claim(r) => s = r
  BY <1>4
<1>6. \A t, s, w : LET m == Offer(t, s, w) IN m.type = "push" /\ m.tab = t /\ m.to = s /\ m.from = w
  BY DEF Offer
<1>7. \A t, w : LET m == Accepted(t, w) IN m.type = "accepted" /\ m.tab = t /\ m.source = w
  BY DEF Accepted
<1>8. QED
  BY <1>1, <1>2, <1>3, <1>4, <1>5, <1>6, <1>7

\* What is in the inboxes once a message was sent.
LEMMA SentMail ==
    ASSUME NEW boxes \in [Windows -> Seq(Messages)], NEW w \in Windows, NEW m \in Messages
    PROVE  \A v \in Windows : \A k :
              k \in ToSet(Sent(boxes, w, m)[v]) <=> k \in ToSet(boxes[v]) \/ (k = m /\ v # w /\ Listens(v))
<1>1. ASSUME NEW s \in Seq(Messages) PROVE ToSet(Append(s, m)) = ToSet(s) \cup {m}
  <2>1. /\ Len(s) \in Nat /\ DOMAIN Append(s, m) = 1..(Len(s) + 1) /\ DOMAIN s = 1..Len(s)
        /\ \A i \in 1..Len(s) : Append(s, m)[i] = s[i]
        /\ Append(s, m)[Len(s) + 1] = m
    OBVIOUS
  <2>2. ToSet(Append(s, m)) \subseteq ToSet(s) \cup {m}
    <3>1. \A i \in 1..(Len(s) + 1) : i \in 1..Len(s) \/ i = Len(s) + 1
      BY <2>1
    <3>2. QED
      BY <2>1, <3>1 DEF ToSet
  <2>3. ToSet(s) \cup {m} \subseteq ToSet(Append(s, m))
    <3>1. \A i \in 1..Len(s) : i \in 1..(Len(s) + 1)
      BY <2>1
    <3>2. Len(s) + 1 \in 1..(Len(s) + 1)
      BY <2>1
    <3>3. QED
      BY <2>1, <3>1, <3>2 DEF ToSet
  <2>4. QED
    BY <2>2, <2>3
<1>2. QED
  BY <1>1 DEF Sent

LEMMA NoMail == ASSUME NEW w \in Windows, inbox[w] = << >> PROVE Mail(w) = {}
BY DEF Mail, ToSet

LEMMA SomeMail == ASSUME SessionTypes, NEW w \in Windows, Mail(w) = {} PROVE inbox[w] = << >>
<1>1. PICK s \in Seq(Messages) : s = inbox[w]
  BY DEF SessionTypes
<1>2. s # << >> => 1 \in DOMAIN s
  OBVIOUS
<1>3. s # << >> => s[1] \in ToSet(s)
  BY <1>2 DEF ToSet
<1>4. QED
  BY <1>1, <1>3 DEF Mail

LEMMA HandledMail ==
    ASSUME SessionTypes, NEW w \in Windows, inbox[w] # << >>
    PROVE  /\ Handled(w) \in [Windows -> Seq(Messages)]
           /\ Head(inbox[w]) \in Messages /\ Head(inbox[w]) \in Mail(w)
           /\ \A v \in Windows : \A k : k \in ToSet(Handled(w)[v]) => k \in Mail(v)
           /\ \A v \in Windows : \A k \in Mail(v) :
                 k \in ToSet(Handled(w)[v]) \/ (v = w /\ k = Head(inbox[w]))
BY HandledKeeps DEF SessionTypes, Mail

LEMMA ItemRecords ==
    ASSUME NEW items, NEW s, NEW r
    PROVE  \A x, n : RecordedIn(SetItem(items, s, r), x, n) <=> IF x = s THEN Named(r, n) ELSE RecordedIn(items, x, n)
BY DEF SetItem, RecordedIn

LEMMA FlushedRecords ==
    ASSUME NEW w \in Windows
    PROVE  \A x, n : RecordedIn(Flushed(w), x, n) <=>
                IF dirty[w] /\ holds[w] # None /\ x = holds[w] THEN Shows(w, n) ELSE Recorded(x, n)
BY ItemRecords DEF Flushed, Recorded, Shows

\* A tab keeps its name with another id.
LEMMA SameName ==
    ASSUME NEW t, NEW others, HasId(t, others)
    PROVE  Name(AsIdIn(t, others)) = Name(t)
<1>1. CASE t \notin others
  BY <1>1 DEF AsIdIn
<1>2. CASE t \in others
  <2> DEFINE free == FreshIds(t)
             ids == {u[2] : u \in free}
  <2>1. free # {} /\ \A u \in free : Name(u) = Name(t) /\ u[2] \in Nat
    BY <1>2 DEF HasId, FreshIds, Tabs
  <2>2. ids \subseteq Nat /\ ids # {}
    BY <2>1
  <2>3. PICK i \in ids : \A j \in ids : ~(<<j, i>> \in OpToRel(<, Nat))
    BY <2>2, WFMin, NatLessThanWellFounded, Zenon
  <2> HIDE DEF ids
  <2>4. \A j \in ids : ~(j < i)
    BY <2>2, <2>3 DEF OpToRel
  <2>5. \E u \in free : \A v \in free : u[2] <= v[2]
    <3>1. PICK u \in free : u[2] = i
      BY DEF ids
    <3>2. \A v \in free : v[2] \in ids /\ v[2] \in Nat /\ u[2] \in Nat
      BY <2>1 DEF ids
    <3>3. QED
      BY <2>4, <3>1, <3>2
  <2>6. AsIdIn(t, others) \in free
    BY <1>2, <2>5 DEF AsIdIn
  <2>7. QED
    BY <2>1, <2>6
<1>3. QED
  BY <1>1, <1>2

-----------------------------------------------------------------------------
(* What holds of windows and messages whether transfers find their session *)
(* or not                                                                  *)

\* What a step of one window may be.
WindowStep(w) ==
    \/ OpenPage(w) \/ Rehydrate(w) \/ NothingPinned(w) \/ Mount(w)
    \/ FlushState(w) \/ Hears(w)
    \/ \E saves \in BOOLEAN : PageGoes(w, saves)
    \/ \E p \in timers[w] : PushUnanswered(w, p)
    \/ \E s \in Sessions : OpenSession(w, s) \/ NewSession(w, s) \/ DeleteSession(w, s)
    \/ \E t \in Tabs :
          \/ CloseTab(w, t)
          \/ \E v \in Windows : DropTab(w, v, t)
          \/ \E s \in Sessions : PushTab(w, t, s) \/ ElevateTab(w, t, s)

LEMMA TypesMove == ASSUME MoveInv, NEW w \in Windows, WindowStep(w) PROVE WindowTypes'
<1>1. WindowTypes
  BY DEF MoveInv
<1>2. CASE OpenPage(w) \/ Rehydrate(w) \/ NothingPinned(w) \/ Mount(w) \/ FlushState(w)
  BY <1>1, <1>2 DEF OpenPage, Rehydrate, NothingPinned, Mount, FlushState, LoadSession, Enter, windowVars,
     WindowTypes
<1>3. CASE TakenOver(w) \/ HearGone(w)
  BY <1>1, <1>3 DEF TakenOver, HearGone, NoSession, LoadSession, Enter, windowVars, WindowTypes
<1>4. CASE TakePushed(w) \/ IgnorePushed(w) \/ HearAccepted(w)
  BY <1>1, <1>4 DEF TakePushed, IgnorePushed, HearAccepted, TakeTab, Touched, WithoutTab, windowVars, WindowTypes
<1>5. CASE \E saves \in BOOLEAN : PageGoes(w, saves)
  BY <1>1, <1>5 DEF PageGoes, WindowTypes
<1>6. CASE \E p \in timers[w] : PushUnanswered(w, p)
  BY <1>1, <1>6 DEF PushUnanswered, Touched, WithoutTab, WindowTypes
<1>7. CASE \E s \in Sessions : OpenSession(w, s) \/ NewSession(w, s)
  BY <1>1, <1>7 DEF OpenSession, NewSession, LoadSession, Enter, windowVars, WindowTypes
<1>8. CASE \E s \in Sessions : DeleteSession(w, s)
  BY <1>1, <1>8 DEF DeleteSession, NoSession, Enter, windowVars, WindowTypes
<1>9. ASSUME NEW t \in Tabs, CloseTab(w, t) \/ \E v \in Windows : DropTab(w, v, t) PROVE WindowTypes'
  BY <1>1, <1>9 DEF CloseTab, DropTab, TakeTab, Touched, WithoutTab, windowVars, WindowTypes
<1>10. ASSUME NEW t \in Tabs, NEW s \in Sessions, PushTab(w, t, s) \/ ElevateTab(w, t, s) PROVE WindowTypes'
  BY <1>1, <1>10 DEF PushTab, ElevateTab, Touched, WithoutTab, windowVars, WindowTypes
<1>11. QED
  BY <1>2, <1>3, <1>4, <1>5, <1>6, <1>7, <1>8, <1>9, <1>10 DEF WindowStep, Hears

\* Nothing is sent to a page that does not listen; one that goes leaves nothing.
LEMMA PagesMove == ASSUME MoveInv, NEW w \in Windows, WindowStep(w) PROVE PagesWork'
<1>1. PagesWork /\ WindowTypes /\ page \in [Windows -> Pages] /\ inbox \in [Windows -> Seq(Messages)]
  BY DEF MoveInv, HolderInv, SessionTypes
<1>2. \A boxes, m : \A v \in Windows :
          Sent(boxes, w, m)[v] # << >> => Listens(v) \/ boxes[v] # << >>
  BY DEF Sent
<1>3. inbox[w] # << >> => \A v \in Windows : Handled(w)[v] # << >> => inbox[v] # << >>
  BY <1>1 DEF Handled
<1>4. ASSUME \A v \in Windows : inbox'[v] # << >> => Listens(v),
             \A v \in Windows : Listens(v) => Listens(v)',
             \A v \in Windows : timers'[v] # {} => page[v] = "ready" /\ page'[v] = "ready"
      PROVE  PagesWork'
  BY <1>4 DEF PagesWork
<1>5. CASE OpenPage(w) \/ NothingPinned(w) \/ Mount(w) \/ FlushState(w)
  BY <1>1, <1>5 DEF OpenPage, NothingPinned, Mount, FlushState, windowVars, PagesWork, Listens
<1>6. CASE Rehydrate(w)
  <2>1. /\ page[w] = "loading" /\ page' = [page EXCEPT ![w] = "mounting"] /\ timers' = timers
        /\ \E s : inbox' = Sent(inbox, w, Claim(s))
    BY <1>6 DEF Rehydrate, windowVars
  <2>2. QED
    BY <1>1, <1>2, <2>1 DEF PagesWork, Listens
<1>7. CASE TakenOver(w) \/ HearGone(w) \/ TakePushed(w) \/ IgnorePushed(w) \/ HearAccepted(w)
  <2>1. inbox[w] # << >> /\ UNCHANGED <<page, timers>>
    BY <1>7 DEF TakenOver, HearGone, TakePushed, IgnorePushed, HearAccepted, Heard, windowVars
  <2>2. inbox' = Handled(w) \/ \E m : inbox' = Sent(Handled(w), w, m)
    BY <1>7 DEF TakenOver, HearGone, TakePushed, IgnorePushed, HearAccepted, TakeTab
  <2>3. QED
    BY <1>1, <1>2, <1>3, <2>1, <2>2 DEF PagesWork, Listens
<1>8. CASE \E saves \in BOOLEAN : PageGoes(w, saves)
  BY <1>1, <1>8 DEF PageGoes, PagesWork, WindowTypes, Listens
<1>9. CASE \E p \in timers[w] : PushUnanswered(w, p)
  BY <1>1, <1>9 DEF PushUnanswered, PagesWork, WindowTypes, Listens
<1>10. CASE \E s \in Sessions : OpenSession(w, s) \/ NewSession(w, s) \/ DeleteSession(w, s)
  <2>1. UNCHANGED <<page, timers>>
    BY <1>10 DEF OpenSession, NewSession, DeleteSession, windowVars
  <2>2. \/ \E m : inbox' = Sent(inbox, w, m)
        \/ \E m, k : inbox' = Sent(Sent(inbox, w, m), w, k)
    BY <1>10 DEF OpenSession, NewSession, DeleteSession
  <2>3. QED
    BY <1>1, <1>2, <2>1, <2>2 DEF PagesWork, Listens
<1>11. ASSUME NEW t \in Tabs, CloseTab(w, t) \/ \E v \in Windows : DropTab(w, v, t) PROVE PagesWork'
  <2>1. UNCHANGED <<page, timers>> /\ (inbox' = inbox \/ \E m : inbox' = Sent(inbox, w, m))
    BY <1>11 DEF CloseTab, DropTab, TakeTab, windowVars
  <2>2. QED
    BY <1>1, <1>2, <2>1 DEF PagesWork, Listens
<1>12. ASSUME NEW t \in Tabs, NEW s \in Sessions, PushTab(w, t, s) PROVE PagesWork'
  <2>1. page[w] = "ready" /\ page' = page /\ (\E m : inbox' = Sent(inbox, w, m))
        /\ \A v \in Windows \ {w} : timers'[v] = timers[v]
    BY <1>1, <1>12 DEF PushTab, Gesture, WindowTypes
  <2>2. QED
    BY <1>1, <1>2, <2>1 DEF PagesWork, Listens
<1>13. ASSUME NEW t \in Tabs, NEW s \in Sessions, ElevateTab(w, t, s) PROVE PagesWork'
  <2>1. UNCHANGED <<inbox, timers>>
        /\ (page' = page \/ \E v \in Windows : page[v] = "none" /\ page' = [page EXCEPT ![v] = "loading"])
    BY <1>13 DEF ElevateTab, windowVars
  <2>2. QED
    BY <1>1, <2>1 DEF PagesWork, Listens
<1>14. QED
  BY <1>5, <1>6, <1>7, <1>8, <1>9, <1>10, <1>11, <1>12, <1>13 DEF WindowStep, Hears

LEMMA FlushedDomain ==
    ASSUME NEW w \in Windows
    PROVE  DOMAIN stored \subseteq DOMAIN Flushed(w) /\ DOMAIN Flushed(w) \subseteq DOMAIN stored \cup {holds[w]}
<1>1. DOMAIN SetItem(stored, holds[w], tabs[w]) = DOMAIN stored \cup {holds[w]}
  BY ItemSet
<1>2. QED
  BY <1>1 DEF Flushed

\* Who enters a session not given out takes its id out.
LEMMA NotGivenMove == ASSUME MoveInv, NEW w \in Windows, WindowStep(w) PROVE NotGivenOut'
<1>1. NotGivenOut /\ holds \in [Windows -> Sessions \cup {None}] /\ unused \subseteq Sessions
  BY DEF MoveInv, HolderInv, SessionTypes
<1>2. ASSUME NEW gone, unused' = unused \ gone,
             DOMAIN stored' \subseteq DOMAIN stored \cup gone \cup {holds[w]},
             \A v \in Windows : holds'[v] \in {None, holds[v]} \cup DOMAIN stored \cup gone
      PROVE  NotGivenOut'
  BY <1>1, <1>2 DEF NotGivenOut, HeldIn
<1>3. ASSUME unused' = unused,
             DOMAIN stored' \subseteq DOMAIN stored \cup {holds[w]},
             \A v \in Windows : holds'[v] \in {None, holds[v]} \cup DOMAIN stored
      PROVE  NotGivenOut'
  BY <1>1, <1>3 DEF NotGivenOut, HeldIn
<1>4. CASE OpenPage(w) \/ NothingPinned(w) \/ Mount(w) \/ FlushState(w)
  BY <1>1, <1>3, <1>4, FlushedDomain DEF OpenPage, NothingPinned, Mount, FlushState
<1>5. CASE Rehydrate(w)
  <2>1. CASE \E s \in DOMAIN stored : LoadSession(w, s) /\ UNCHANGED unused
    BY <1>1, <1>3, <2>1, FlushedDomain DEF LoadSession, Enter
  <2>2. CASE \E s \in unused : unused' = unused \ {s} /\ Enter(w, s, {}, SetItem(stored, s, {}))
    <3>1. PICK s \in unused : unused' = unused \ {s} /\ holds' = [holds EXCEPT ![w] = s]
                              /\ stored' = SetItem(stored, s, {})
      BY <2>2 DEF Enter
    <3>2. DOMAIN stored' = DOMAIN stored \cup {s}
      BY <3>1, ItemSet
    <3>3. QED
      BY <1>1, <1>2, <3>1, <3>2
  <2>3. QED
    BY <1>5, <2>1, <2>2 DEF Rehydrate
<1>6. CASE TakenOver(w) \/ TakePushed(w) \/ IgnorePushed(w) \/ HearAccepted(w)
  BY <1>1, <1>3, <1>6 DEF TakenOver, NoSession, TakePushed, IgnorePushed, HearAccepted
<1>7. CASE HearGone(w) \/ \E s \in Sessions : OpenSession(w, s)
  BY <1>1, <1>3, <1>7, FlushedDomain DEF HearGone, OpenSession, LoadSession, Enter
<1>8. CASE (\E saves \in BOOLEAN : PageGoes(w, saves)) \/ \E p \in timers[w] : PushUnanswered(w, p)
  BY <1>1, <1>3, <1>8, FlushedDomain DEF PageGoes, PushUnanswered, WithTab
<1>9. ASSUME NEW s \in Sessions, NewSession(w, s) PROVE NotGivenOut'
  <2>1. /\ s \in unused /\ unused' = unused \ {s} /\ holds' = [holds EXCEPT ![w] = s]
        /\ stored' = SetItem(Flushed(w), s, {})
    BY <1>9 DEF NewSession, Enter
  <2>2. DOMAIN stored' = DOMAIN Flushed(w) \cup {s}
    BY <2>1, ItemSet
  <2>3. QED
    BY <1>1, <1>2, <2>1, <2>2, FlushedDomain
<1>10. ASSUME NEW s \in Sessions, DeleteSession(w, s) PROVE NotGivenOut'
  <2>1. PICK left : /\ DOMAIN left \subseteq DOMAIN stored /\ unused' = unused /\ stored' = left
                    /\ \/ \E r \in DOMAIN left : holds' = [holds EXCEPT ![w] = r]
                       \/ holds' = [holds EXCEPT ![w] = None] \/ holds' = holds
    <3>1. DOMAIN [r \in DOMAIN stored \ {s} |-> stored[r]] \subseteq DOMAIN stored
      OBVIOUS
    <3>2. QED
      BY <1>10, <3>1 DEF DeleteSession, NoSession, Enter
  <2>2. QED
    BY <1>1, <1>3, <2>1
<1>11. ASSUME NEW t \in Tabs, CloseTab(w, t) \/ \E v \in Windows : DropTab(w, v, t) PROVE NotGivenOut'
  BY <1>1, <1>3, <1>11 DEF CloseTab, DropTab
<1>12. ASSUME NEW t \in Tabs, NEW s \in Sessions, PushTab(w, t, s) PROVE NotGivenOut'
  BY <1>1, <1>3, <1>12, ItemSet DEF PushTab
<1>13. ASSUME NEW t \in Tabs, NEW s \in Sessions, ElevateTab(w, t, s) PROVE NotGivenOut'
  <2>1. s \in unused /\ unused' = unused \ {s} /\ holds' = holds /\ DOMAIN stored' = DOMAIN stored \cup {s}
    BY <1>13, ItemSet DEF ElevateTab
  <2>2. QED
    BY <1>1, <1>2, <2>1
<1>14. QED
  BY <1>4, <1>5, <1>6, <1>7, <1>8, <1>9, <1>10, <1>11, <1>12, <1>13 DEF WindowStep, Hears

\* Messages that are new agree with each other and with those that are there.
LEMMA TransferKept ==
    ASSUME OneTransfer, NEW added,
           \A v \in Windows : \A m \in Mail(v)' : m \in Mail(v) \/ (m \in added /\ (m.type = "push" => m.from # v)),
           \A m, k \in added : Moving(m) => k.type # "gone" /\ (Moving(k) => m.tab = k.tab /\ Source(m) = Source(k)),
           \A v \in Windows : \A m \in Mail(v), k \in added :
               /\ (Moving(m) => k.type # "gone") /\ (Moving(k) => m.type # "gone")
               /\ (Moving(m) /\ Moving(k) => m.tab = k.tab /\ Source(m) = Source(k))
    PROVE  OneTransfer'
<1>1. ASSUME NEW u \in Windows, NEW v \in Windows, NEW m \in Mail(u)', NEW k \in Mail(v)', Moving(m)
      PROVE  k.type # "gone" /\ (Moving(k) => m.tab = k.tab /\ Source(m) = Source(k))
  <2>1. m \in Mail(u) \/ m \in added
    OBVIOUS
  <2>2. k \in Mail(v) \/ k \in added
    OBVIOUS
  <2>3. CASE m \in Mail(u) /\ k \in Mail(v)
    BY <1>1, <2>3 DEF OneTransfer
  <2>4. QED
    BY <1>1, <2>1, <2>2, <2>3
<1>2. \A v \in Windows : \A m \in Mail(v)' : m.type = "push" => m.from # v
  BY DEF OneTransfer
<1>3. QED
  BY <1>1, <1>2 DEF OneTransfer, Moving, Source

\* The user acts when no message is on its way.
LEMMA Quiet == ASSUME NEW w \in Windows, Gesture(w) PROVE \A v \in Windows : Mail(v) = {} /\ inbox[v] = << >>
BY NoMail DEF Gesture

LEMMA BoxTypes == ASSUME MoveInv PROVE SessionTypes /\ inbox \in [Windows -> Seq(Messages)] /\ OneTransfer
BY DEF MoveInv, HolderInv, SessionTypes

\* A message is sent to the others.
LEMMA MailSent ==
    ASSUME SessionTypes, NEW w \in Windows, NEW m \in Messages, inbox' = Sent(inbox, w, m)
    PROVE  \A v \in Windows : \A k :
              k \in Mail(v)' <=> k \in Mail(v) \/ (k = m /\ v # w /\ Listens(v))
<1>1. inbox \in [Windows -> Seq(Messages)]
  BY DEF SessionTypes
<1>2. QED
  BY <1>1, SentMail DEF Mail

\* One message is handled; another may be sent.
LEMMA MailHandled ==
    ASSUME SessionTypes, NEW w \in Windows, inbox[w] # << >>, inbox' = Handled(w)
    PROVE  /\ \A v \in Windows : \A k \in Mail(v)' : k \in Mail(v)
           /\ \A v \in Windows : \A k \in Mail(v) : k \in Mail(v)' \/ (v = w /\ k = Head(inbox[w]))
BY HandledMail DEF Mail

LEMMA MailAnswered ==
    ASSUME SessionTypes, NEW w \in Windows, inbox[w] # << >>, NEW m \in Messages, inbox' = Sent(Handled(w), w, m)
    PROVE  /\ \A v \in Windows : \A k \in Mail(v)' : k \in Mail(v) \/ (k = m /\ v # w /\ Listens(v))
           /\ \A v \in Windows : \A k \in Mail(v) : k \in Mail(v)' \/ (v = w /\ k = Head(inbox[w]))
           /\ \A v \in Windows \ {w} : Listens(v) => m \in Mail(v)'
<1>1. PICK boxes \in [Windows -> Seq(Messages)] : boxes = Handled(w)
  BY HandledMail
<1>2. \A v \in Windows : \A k :
          k \in ToSet(Sent(boxes, w, m)[v]) <=> k \in ToSet(boxes[v]) \/ (k = m /\ v # w /\ Listens(v))
  BY SentMail
<1>3. /\ \A v \in Windows : \A k : k \in ToSet(boxes[v]) => k \in Mail(v)
      /\ \A v \in Windows : \A k \in Mail(v) : k \in ToSet(boxes[v]) \/ (v = w /\ k = Head(inbox[w]))
  BY <1>1, HandledMail
<1>4. \A v \in Windows : Mail(v)' = ToSet(Sent(boxes, w, m)[v])
  BY <1>1 DEF Mail
<1>5. QED
  BY <1>2, <1>3, <1>4

\* A session is deleted and the one that is left is claimed.
LEMMA MailDeleted ==
    ASSUME SessionTypes, NEW w \in Windows, NEW m \in Messages, NEW k \in Messages,
           inbox' = Sent(Sent(inbox, w, m), w, k)
    PROVE  \A v \in Windows : \A x :
              x \in Mail(v)' <=> x \in Mail(v) \/ (x \in {m, k} /\ v # w /\ Listens(v))
<1>1. inbox \in [Windows -> Seq(Messages)]
  BY DEF SessionTypes
<1>2. PICK boxes \in [Windows -> Seq(Messages)] : boxes = Sent(inbox, w, m)
  BY <1>1, SentAdds
<1>3. \A v \in Windows : \A x :
          x \in ToSet(Sent(inbox, w, m)[v]) <=> x \in ToSet(inbox[v]) \/ (x = m /\ v # w /\ Listens(v))
  BY <1>1, SentMail
<1>4. \A v \in Windows : \A x :
          x \in ToSet(Sent(boxes, w, k)[v]) <=> x \in ToSet(boxes[v]) \/ (x = k /\ v # w /\ Listens(v))
  BY SentMail
<1>5. \A v \in Windows : \A x :
          x \in ToSet(boxes[v]) <=> x \in Mail(v) \/ (x = m /\ v # w /\ Listens(v))
  BY <1>2, <1>3 DEF Mail
<1>6. \A v \in Windows : Mail(v)' = ToSet(Sent(boxes, w, k)[v])
  BY <1>2 DEF Mail
<1>7. QED
  BY <1>4, <1>5, <1>6

\* What a window hears.
LEMMA HeadHeard ==
    ASSUME MoveInv, NEW w \in Windows, NEW type, Heard(w, type)
    PROVE  /\ inbox[w] # << >> /\ Head(inbox[w]) \in Messages /\ Head(inbox[w]) \in Mail(w)
           /\ Head(inbox[w]).type = type /\ Listens(w)
BY HandledMail DEF Heard, MoveInv, HolderInv, PagesWork

LEMMA TransferMove == ASSUME MoveInv, NEW w \in Windows, WindowStep(w) PROVE OneTransfer'
<1>1. SessionTypes /\ OneTransfer
  BY BoxTypes
<1>2. ASSUME \A v \in Windows : Mail(v)' \subseteq Mail(v) PROVE OneTransfer'
  BY <1>1, <1>2 DEF OneTransfer, Moving, Source
<1>3. ASSUME NEW s \in Sessions, \A v \in Windows : Mail(v)' \subseteq Mail(v) \cup {Claim(s)} PROVE OneTransfer'
  <2>1. PICK added : added = {Claim(s)}
    OBVIOUS
  <2>2. \A m \in added : m.type = "takeover"
    BY <2>1, Kinds
  <2>3. QED
    BY <1>1, <1>3, <2>1, <2>2, TransferKept DEF Moving
<1>4. CASE OpenPage(w) \/ NothingPinned(w) \/ Mount(w) \/ FlushState(w)
           \/ \E p \in timers[w] : PushUnanswered(w, p)
  <2>1. inbox' = inbox
    BY <1>4 DEF OpenPage, NothingPinned, Mount, FlushState, PushUnanswered
  <2>2. QED
    BY <1>2, <2>1 DEF Mail
<1>5. CASE Rehydrate(w)
  <2>1. PICK s \in Sessions : inbox' = Sent(inbox, w, Claim(s))
    BY <1>1, <1>5 DEF Rehydrate, SessionTypes
  <2>2. QED
    BY <1>1, <1>3, <2>1, MailSent, MessageKinds
<1>6. CASE TakenOver(w) \/ IgnorePushed(w) \/ HearAccepted(w)
  <2>1. inbox[w] # << >> /\ inbox' = Handled(w)
    BY <1>6 DEF TakenOver, IgnorePushed, HearAccepted, Heard
  <2>2. QED
    BY <1>1, <1>2, <2>1, MailHandled
<1>7. CASE HearGone(w)
  <2>1. inbox[w] # << >>
    BY <1>7 DEF HearGone, Heard
  <2>2. CASE inbox' = Handled(w)
    BY <1>1, <1>2, <2>1, <2>2, MailHandled
  <2>3. CASE \E r \in DOMAIN stored : inbox' = Sent(Handled(w), w, Claim(r))
    BY <1>1, <1>3, <2>1, <2>3, MailAnswered, MessageKinds DEF SessionTypes
  <2>4. QED
    BY <1>7, <2>2, <2>3 DEF HearGone
<1>8. CASE TakePushed(w)
  <2>1. PICK m : /\ m = Head(inbox[w]) /\ m \in Messages /\ m \in Mail(w) /\ m.type = "push" /\ inbox[w] # << >>
                 /\ inbox' = Sent(Handled(w), w, Accepted(m.tab, m.from))
    BY <1>8, HeadHeard DEF TakePushed, TakeTab
  <2>2. PICK k \in Messages : k = Accepted(m.tab, m.from) /\ k.type = "accepted" /\ k.tab = m.tab /\ k.source = m.from
    BY <2>1, MessageKinds, Kinds
  <2>3. \A v \in Windows : Mail(v)' \subseteq Mail(v) \cup {k}
    BY <1>1, <2>1, <2>2, MailAnswered
  <2>4. \A v \in Windows : \A x \in Mail(v) : x.type # "gone" /\ (Moving(x) => x.tab = m.tab /\ Source(x) = m.from)
    BY <1>1, <2>1 DEF OneTransfer, Moving, Source
  <2>5. QED
    BY <1>1, <2>2, <2>3, <2>4, TransferKept DEF Moving, Source
<1>9. CASE \E saves \in BOOLEAN : PageGoes(w, saves)
  <2>1. inbox' = [inbox EXCEPT ![w] = << >>]
    BY <1>9 DEF PageGoes
  <2>2. \A v \in Windows : Mail(v)' \subseteq Mail(v)
    BY <1>1, <2>1 DEF Mail, SessionTypes, ToSet
  <2>3. QED
    BY <1>2, <2>2
<1>10. CASE \E s \in Sessions : OpenSession(w, s) \/ NewSession(w, s)
  <2>1. PICK s \in Sessions : inbox' = Sent(inbox, w, Claim(s))
    BY <1>10 DEF OpenSession, NewSession
  <2>2. QED
    BY <1>1, <1>3, <2>1, MailSent, MessageKinds
<1>11. ASSUME NEW s \in Sessions, DeleteSession(w, s) PROVE OneTransfer'
  <2>1. \A v \in Windows : Mail(v) = {}
    BY <1>11, Quiet DEF DeleteSession
  <2>2. PICK added : /\ \A k \in added : k.type \in {"gone", "takeover"}
                     /\ \A v \in Windows : Mail(v)' \subseteq added
    <3>1. CASE inbox' = Sent(inbox, w, Gone(s))
      <4>1. PICK m \in Messages : m = Gone(s) /\ m.type = "gone"
        BY MessageKinds, Kinds
      <4>2. \A v \in Windows : \A x : x \in Mail(v)' <=> x \in Mail(v) \/ (x = m /\ v # w /\ Listens(v))
        BY <1>1, <3>1, <4>1, MailSent
      <4>3. \A v \in Windows : Mail(v)' \subseteq {m}
        BY <2>1, <4>2
      <4>4. \A k \in {m} : k.type \in {"gone", "takeover"}
        BY <4>1
      <4>5. QED
        BY <4>3, <4>4
    <3>2. CASE \E r \in DOMAIN stored : inbox' = Sent(Sent(inbox, w, Gone(s)), w, Claim(r))
      <4>1. PICK r \in Sessions : inbox' = Sent(Sent(inbox, w, Gone(s)), w, Claim(r))
        BY <1>1, <3>2 DEF SessionTypes
      <4>2. PICK m \in Messages, k \in Messages : m = Gone(s) /\ k = Claim(r)
        BY MessageKinds
      <4>3. \A v \in Windows : \A x :
                x \in Mail(v)' <=> x \in Mail(v) \/ (x \in {m, k} /\ v # w /\ Listens(v))
        BY <1>1, <4>1, <4>2, MailDeleted
      <4>4. QED
        BY <2>1, <4>2, <4>3, Kinds
    <3>3. QED
      BY <1>11, <3>1, <3>2 DEF DeleteSession
  <2>3. QED
    BY <1>1, <2>1, <2>2, TransferKept DEF Moving
<1>12. ASSUME NEW t \in Tabs, CloseTab(w, t) \/ \E s \in Sessions : ElevateTab(w, t, s) PROVE OneTransfer'
  <2>1. inbox' = inbox
    BY <1>12 DEF CloseTab, ElevateTab
  <2>2. QED
    BY <1>2, <2>1 DEF Mail
<1>13. ASSUME NEW t \in Tabs, NEW v \in Windows, DropTab(w, v, t) PROVE OneTransfer'
  <2>1. \A u \in Windows : Mail(u) = {}
    BY <1>13, Quiet DEF DropTab
  <2>2. PICK k \in Messages : k = Accepted(t, v) /\ k.type = "accepted"
    BY MessageKinds, Kinds
  <2>3. \A u \in Windows : Mail(u)' \subseteq {k}
    BY <1>1, <1>13, <2>1, <2>2, MailSent DEF DropTab, TakeTab
  <2>4. QED
    BY <1>1, <2>1, <2>2, <2>3, TransferKept
<1>14. ASSUME NEW t \in Tabs, NEW s \in Sessions, PushTab(w, t, s) PROVE OneTransfer'
  <2>1. \A u \in Windows : Mail(u) = {}
    BY <1>14, Quiet DEF PushTab
  <2>2. PICK k \in Messages : k = Offer(t, s, w) /\ k.type = "push" /\ k.from = w
    BY MessageKinds, Kinds
  <2>3. \A u \in Windows : \A x : x \in Mail(u)' <=> x \in Mail(u) \/ (x = k /\ u # w /\ Listens(u))
    BY <1>1, <1>14, <2>2, MailSent DEF PushTab
  <2>4. \A u \in Windows : \A x \in Mail(u)' : x \in {k} /\ x.from # u
    BY <2>1, <2>2, <2>3
  <2>5. \A x, y \in {k} : y.type # "gone" /\ x.tab = y.tab /\ Source(x) = Source(y)
    BY <2>2
  <2>6. QED
    BY <1>1, <2>1, <2>4, <2>5, TransferKept
<1>15. QED
  BY <1>4, <1>5, <1>6, <1>7, <1>8, <1>9, <1>10, <1>11, <1>12, <1>13, <1>14 DEF WindowStep, Hears

LEMMA MoveStep == ASSUME MoveInv, NEW w \in Windows, WindowStep(w) PROVE MoveInv'
<1>1. HolderInv /\ SessionsNext
  BY DEF MoveInv, WindowStep, SessionsNext
<1>2. HolderInv'
  BY <1>1, HolderNext
<1>3. QED
  BY <1>2, TypesMove, PagesMove, NotGivenMove, TransferMove DEF MoveInv

-----------------------------------------------------------------------------
(* What a step of one window leaves alone, while every transfer finds its  *)
(* session where it was offered                                            *)

\* The records other than the one of its own session keep what the user did not close.
RecordsStay(w) ==
    \A n \in Names \ closed' : \A r : r # holds[w] /\ Recorded(r, n) => RecordedIn(stored', r, n)

OneStep(w) ==
    /\ closed \subseteq closed'
    /\ \A v \in Windows \ {w} :
          /\ holds'[v] = holds[v] /\ tabs'[v] = tabs[v] /\ dirty'[v] = dirty[v]
          /\ pending'[v] = pending[v] /\ timers'[v] = timers[v]
    /\ RecordsStay(w)

OffersStay(w) == \A v \in Windows \ {w} : \A m \in Mail(v) : m.type = "push" => m \in Mail(v)'

\* Records are those of sessions.
LEMMA RecordOwners ==
    ASSUME MoveInv
    PROVE  /\ \A r, n : Recorded(r, n) => r \in Sessions /\ r # None /\ r \in DOMAIN stored
           /\ holds \in [Windows -> Sessions \cup {None}]
BY DEF MoveInv, HolderInv, SessionTypes, Recorded, RecordedIn

\* Who had saved has saved, if the window of the step did.
LEMMA SavesStay ==
    ASSUME MoveInv, OneEach, CleanSaved, ClaimedSaved, NEW w \in Windows, OneStep(w),
           \A v \in Windows \ {w} :
               holds[v] # None /\ Claim(holds[v]) \in Mail(v)' => Claim(holds[v]) \in Mail(v),
           holds'[w] # None /\ (dirty'[w] => Claim(holds'[w]) \in Mail(w)') => Saved(w)'
    PROVE  CleanSaved' /\ ClaimedSaved'
<1>1. ASSUME NEW v \in Windows \ {w}, holds[v] # None, Saved(v) PROVE Saved(v)'
  <2>1. holds[v] # holds[w] /\ holds'[v] = holds[v] /\ tabs'[v] = tabs[v] /\ Names \ closed' \subseteq Names \ closed
    BY <1>1 DEF OneEach, OneStep
  <2>2. \A n \in Names \ closed' : Shows(v, n)' => RecordedIn(stored', holds'[v], n)
    BY <1>1, <2>1 DEF OneStep, RecordsStay, Saved, Shows
  <2>3. QED
    BY <2>2 DEF Saved, Recorded
<1>2. CleanSaved'
  BY <1>1 DEF CleanSaved, OneStep
<1>3. ClaimedSaved'
  BY <1>1 DEF ClaimedSaved, CleanSaved, OneStep
<1>4. QED
  BY <1>2, <1>3

\* What another window keeps it keeps.
LEMMA KeepsStay ==
    ASSUME NEW w \in Windows, OneStep(w), OffersStay(w), NEW v \in Windows \ {w}, NEW n, Keeps(v, n)
    PROVE  Keeps(v, n)'
<1>1. holds'[v] = holds[v] /\ tabs'[v] = tabs[v]
  BY DEF OneStep
<1>2. Offered(v, n) => Offered(v, n)'
  BY <1>1 DEF Offered, OffersStay
<1>3. Shows(v, n) => Shows(v, n)'
  BY <1>1 DEF Shows
<1>4. QED
  BY <1>1, <1>2, <1>3 DEF Keeps

\* A tab on the shelf stays there unless its session is entered.
LEMMA ShelvedStays ==
    ASSUME MoveInv, NEW w \in Windows, OneStep(w), NEW n \in Names \ closed',
           NEW s, Recorded(s, n), ~HeldIn(s), holds'[w] # s
    PROVE  Shelved(n)'
<1>1. s # holds[w] /\ s # None
  BY RecordOwners DEF HeldIn
<1>2. RecordedIn(stored', s, n) /\ s \in DOMAIN stored'
  BY <1>1 DEF OneStep, RecordsStay, RecordedIn
<1>3. \A v \in Windows : holds'[v] # s
  BY DEF OneStep, HeldIn
<1>4. QED
  BY <1>2, <1>3 DEF Shelved, Recorded, HeldIn

\* What is located is located still, but for what the window of the step keeps.
LEMMA LocatedStays ==
    ASSUME MoveInv, NEW w \in Windows, OneStep(w), OffersStay(w), holds'[w] \in {None, holds[w]},
           NEW n \in Names \ closed', NEW W \in SUBSET Windows, Located(n, W),
           w \in W /\ Keeps(w, n) => Located(n, W)'
    PROVE  Located(n, W)'
<1>1. CASE Shelved(n)
  <2>1. PICK s : Recorded(s, n) /\ ~HeldIn(s)
    BY <1>1 DEF Shelved
  <2>2. holds'[w] # s
    BY <2>1, RecordOwners DEF HeldIn
  <2>3. QED
    BY <2>1, <2>2, ShelvedStays DEF Located
<1>2. CASE \E v \in W \ {w} : Keeps(v, n)
  BY <1>2, KeepsStay DEF Located
<1>3. QED
  BY <1>1, <1>2 DEF Located

\* Tabs are located still, and so are those that were taken, new ones or old.
LEMMA AllStays ==
    ASSUME MoveInv, AllLocated, TakenStay, closed \subseteq closed',
           \A n \in Names \ closed' : Located(n, Windows) => Located(n, Windows)',
           \A v \in Windows : \A m \in Mail(v)' :
               m.type = "accepted" /\ m.source = v /\ Name(m.tab) \in Names \ closed' =>
                   \/ m \in Mail(v) /\ (Located(Name(m.tab), Windows \ {v}) => Located(Name(m.tab), Windows \ {v})')
                   \/ Located(Name(m.tab), Windows \ {v})'
    PROVE  AllLocated' /\ TakenStay'
<1>1. AllLocated'
  BY DEF AllLocated
<1>2. ASSUME NEW v \in Windows, NEW m \in Mail(v)',
             m.type = "accepted", m.source = v, Name(m.tab) \in Names \ closed'
      PROVE  Located(Name(m.tab), Windows \ {v})'
  <2>1. CASE m \in Mail(v) /\ (Located(Name(m.tab), Windows \ {v}) => Located(Name(m.tab), Windows \ {v})')
    BY <1>2, <2>1 DEF TakenStay
  <2>2. QED
    BY <1>2, <2>1
<1>3. QED
  BY <1>1, <1>2 DEF TakenStay

\* The same where no tab was taken.
LEMMA NothingMisplaced ==
    ASSUME MoveInv, AllLocated, TakenStay, closed \subseteq closed',
           \A n \in Names \ closed', W \in SUBSET Windows : Located(n, W) => Located(n, W)',
           \A v \in Windows : \A m \in Mail(v)' : m.type = "accepted" => m \in Mail(v)
    PROVE  AllLocated' /\ TakenStay'
<1>1. \A n \in Names \ closed' : Located(n, Windows) => Located(n, Windows)'
  OBVIOUS
<1>2. \A v \in Windows : \A m \in Mail(v)' :
          m.type = "accepted" /\ m.source = v /\ Name(m.tab) \in Names \ closed' =>
              m \in Mail(v) /\ (Located(Name(m.tab), Windows \ {v}) => Located(Name(m.tab), Windows \ {v})')
  OBVIOUS
<1>3. QED
  BY <1>1, <1>2, AllStays

\* Without new offers and claims no offer meets a claim.
LEMMA OffersKept ==
    ASSUME OffersStand, \A v \in Windows : \A m \in Mail(v)' : m.type \in {"push", "takeover"} => m \in Mail(v)
    PROVE  OffersStand'
<1>1. ASSUME NEW v \in Windows, NEW m \in Mail(v)', m.type = "push" PROVE Claim(m.to) \notin Mail(v)'
  <2>1. m \in Mail(v) /\ Claim(m.to).type = "takeover"
    BY <1>1, Kinds
  <2>2. Claim(m.to) \notin Mail(v)
    BY <1>1, <2>1 DEF OffersStand
  <2>3. QED
    BY <2>1, <2>2
<1>2. QED
  BY <1>1 DEF OffersStand

\* Times run as before, and answers that are lost are those of others.
LEMMA TimersStay ==
    ASSUME MoveInv, TimersWait,
           \A v \in Windows : timers'[v] \subseteq timers[v] /\ pending'[v] \subseteq pending[v],
           \A u, v \in Windows : \A p \in timers'[v] :
               p[1] \in pending'[v] /\ holds'[u] # None /\ holds'[u] = p[2] =>
                   /\ holds[u] = p[2]
                   /\ Offer(p[1], p[2], v) \in Mail(u) =>
                          Offer(p[1], p[2], v) \in Mail(u)' \/ Accepted(p[1], v) \in Mail(v)'
                   /\ Accepted(p[1], v) \in Mail(v) => Accepted(p[1], v) \in Mail(v)'
    PROVE  TimersWait'
<1>1. ASSUME NEW v \in Windows, NEW u \in Windows, NEW p \in timers'[v],
             p[1] \in pending'[v], holds'[u] # None, holds'[u] = p[2]
      PROVE  u # v /\ (Offer(p[1], p[2], v) \in Mail(u)' \/ Accepted(p[1], v) \in Mail(v)')
  <2>1. p \in timers[v] /\ p[1] \in pending[v] /\ holds[u] = p[2] /\ holds[u] # None
    BY <1>1
  <2>2. u # v /\ (Offer(p[1], p[2], v) \in Mail(u) \/ Accepted(p[1], v) \in Mail(v))
    BY <2>1 DEF TimersWait
  <2>3. QED
    BY <1>1, <2>2
<1>2. QED
  BY <1>1 DEF TimersWait

-----------------------------------------------------------------------------
(* A window enters a session                                               *)

\* Nobody else had the session and nothing was on its way to it: what its record
\* had is kept by the window now, and what the window kept is in the record it left.
LEMMA EnterKeeps ==
    ASSUME MoveInv, SettledInv, NEW w \in Windows, NEW s \in Sessions,
           holds' = [holds EXCEPT ![w] = s], OneStep(w), dirty'[w],
           pending' = pending, timers' = timers,
           ~HeldByAnother(s, w), ~OnItsWay(s),
           \A m \in Mail(w) : ~Moving(m),
           \A m \in Mail(w)' : m \in Mail(w),
           \A v \in Windows : \A m \in Mail(v)' : m \in Mail(v) \/ m = Claim(s) \/ m.type = "gone",
           \A v \in Windows : \A m \in Mail(v) : Moving(m) => m \in Mail(v)',
           \A n \in Names \ closed' : RecordedIn(stored', s, n) <=> Named(tabs'[w], n),
           \A n \in Names \ closed' : holds[w] # None /\ Shows(w, n) => RecordedIn(stored', holds[w], n)
    PROVE  SettledInv'
<1>1. /\ holds'[w] = s /\ s # None
      /\ \A v \in Windows \ {w} : holds'[v] = holds[v] /\ holds[v] # s
  BY RecordOwners DEF HeldByAnother
<1>2. \A v \in Windows : \A m \in Mail(v) : m.type = "push" => m.to # s /\ v # w
  BY DEF OnItsWay, Mail, Moving
<1>3. \A v \in Windows : \A p \in timers[v] : p[2] # s
  BY DEF OnItsWay
<1>4. OneEach'
  BY <1>1 DEF SettledInv, OneEach
<1>5. CleanSaved' /\ ClaimedSaved'
  <2>1. \A v \in Windows \ {w} :
            holds[v] # None /\ Claim(holds[v]) \in Mail(v)' => Claim(holds[v]) \in Mail(v)
    BY <1>1, Kinds
  <2>2. Saved(w)'
    BY <1>1 DEF Saved, Shows, Recorded
  <2>3. QED
    BY <2>1, <2>2, SavesStay DEF SettledInv
<1>6. OffersStand'
  <2>1. ASSUME NEW v \in Windows, NEW m \in Mail(v)', m.type = "push" PROVE Claim(m.to) \notin Mail(v)'
    <3>1. m \in Mail(v) /\ Claim(m.to).type = "takeover"
      BY <2>1, Kinds
    <3>2. Claim(m.to) \notin Mail(v)
      BY <2>1, <3>1 DEF SettledInv, OffersStand
    <3>3. Claim(m.to) # Claim(s)
      BY <1>2, <2>1, <3>1, Kinds
    <3>4. QED
      BY <3>1, <3>2, <3>3
  <2>2. QED
    BY <2>1 DEF OffersStand
<1>7. TimersWait'
  <2>1. ASSUME NEW u \in Windows, NEW v \in Windows, NEW p \in timers'[v], holds'[u] # None, holds'[u] = p[2]
        PROVE  holds[u] = p[2]
    BY <1>1, <1>3, <2>1
  <2>2. \A v \in Windows : \A t, r, x : Offer(t, r, x) \in Mail(v) => Offer(t, r, x) \in Mail(v)'
    BY Kinds DEF Moving
  <2>3. \A v \in Windows : \A t, x : Accepted(t, x) \in Mail(v) => Accepted(t, x) \in Mail(v)'
    BY Kinds DEF Moving
  <2>4. QED
    BY <2>1, <2>2, <2>3, TimersStay DEF SettledInv
<1>8. OffersStay(w)
  BY DEF OffersStay, Moving
<1>9. ASSUME NEW n \in Names \ closed', NEW W \in SUBSET Windows, w \in W, Located(n, W)
      PROVE  Located(n, W)'
  <2>1. Named(tabs'[w], n) => Keeps(w, n)'
    BY <1>1 DEF Keeps, Shows
  <2>2. ASSUME NEW r, Recorded(r, n), ~HeldIn(r) PROVE Located(n, W)'
    <3>1. CASE r = s
      <4>1. r # holds[w]
        BY <2>2, RecordOwners DEF HeldIn
      <4>2. RecordedIn(stored', s, n)
        BY <2>2, <3>1, <4>1 DEF OneStep, RecordsStay
      <4>3. QED
        BY <1>9, <2>1, <4>2 DEF Located
    <3>2. CASE r # s
      <4>1. holds'[w] # r
        BY <1>1, <3>2
      <4>2. Shelved(n)'
        BY <2>2, <4>1, ShelvedStays
      <4>3. QED
        BY <4>2 DEF Located
    <3>3. QED
      BY <3>1, <3>2
  <2>3. ASSUME Keeps(w, n) PROVE Located(n, W)'
    <3>1. holds[w] # None /\ Shows(w, n)
      BY <2>3 DEF Keeps, Offered, Moving
    <3>2. RecordedIn(stored', holds[w], n)
      BY <3>1
    <3>3. CASE holds[w] = s
      BY <1>9, <2>1, <3>2, <3>3 DEF Located
    <3>4. CASE holds[w] # s
      <4>1. \A v \in Windows : holds'[v] # holds[w]
        BY <1>1, <3>1, <3>4 DEF SettledInv, OneEach
      <4>2. Shelved(n)'
        BY <3>2, <4>1 DEF Shelved, Recorded, RecordedIn, HeldIn
      <4>3. QED
        BY <4>2 DEF Located
    <3>5. QED
      BY <3>3, <3>4
  <2>4. ASSUME NEW v \in W \ {w}, Keeps(v, n) PROVE Located(n, W)'
    BY <1>8, <2>4, KeepsStay DEF Located
  <2>5. QED
    BY <1>9, <2>2, <2>3, <2>4 DEF Located, Shelved
<1>10. AllLocated' /\ TakenStay'
  <2>1. \A n \in Names \ closed' : Located(n, Windows) => Located(n, Windows)'
    BY <1>9
  <2>2. ASSUME NEW v \in Windows, NEW m \in Mail(v)', m.type = "accepted"
        PROVE  m \in Mail(v) /\ v # w
    BY <2>2, Kinds DEF Moving
  <2>3. \A v \in Windows : \A m \in Mail(v)' : m.type = "accepted" /\ Name(m.tab) \in Names \ closed' =>
            m \in Mail(v) /\ (Located(Name(m.tab), Windows \ {v}) => Located(Name(m.tab), Windows \ {v})')
    BY <1>9, <2>2
  <2>4. QED
    BY <2>1, <2>3, AllStays DEF SettledInv, OneStep
<1>11. QED
  BY <1>4, <1>5, <1>6, <1>7, <1>10 DEF SettledInv

\* The claim goes to the others, and what moves stays where it is.
ClaimSent(w, s) ==
    /\ \A m \in Mail(w) : ~Moving(m)
    /\ \A m \in Mail(w)' : m \in Mail(w)
    /\ \A v \in Windows : \A m \in Mail(v)' : m \in Mail(v) \/ m = Claim(s) \/ m.type = "gone"
    /\ \A v \in Windows : \A m \in Mail(v) : Moving(m) => m \in Mail(v)'

\* The same of the action.
LEMMA EnterSession ==
    ASSUME MoveInv, SettledInv, NEW w \in Windows, NEW s \in Sessions, NEW record, NEW base,
           Enter(w, s, record, base), settled', ClaimSent(w, s),
           closed \subseteq closed', pending' = pending, timers' = timers,
           \A n \in Names \ closed' : RecordedIn(base, s, n) <=> Named(record, n),
           \A n \in Names \ closed' : \A r : r # holds[w] /\ Recorded(r, n) => RecordedIn(base, r, n),
           \A n \in Names \ closed' : holds[w] # None /\ Shows(w, n) => RecordedIn(base, holds[w], n)
    PROVE  SettledInv'
<1>1. /\ stored' = base /\ holds' = [holds EXCEPT ![w] = s] /\ tabs' = [tabs EXCEPT ![w] = record]
      /\ dirty' = [dirty EXCEPT ![w] = TRUE] /\ ~HeldByAnother(s, w) /\ ~OnItsWay(s)
  BY DEF Enter
<1>2. WindowTypes /\ DOMAIN holds = Windows
  BY RecordOwners DEF MoveInv
<1>3. tabs'[w] = record /\ dirty'[w]
  BY <1>1, <1>2 DEF WindowTypes
<1>4. OneStep(w)
  BY <1>1, <1>2 DEF OneStep, RecordsStay, WindowTypes
<1>5. /\ \A m \in Mail(w) : ~Moving(m)
      /\ \A m \in Mail(w)' : m \in Mail(w)
      /\ \A v \in Windows : \A m \in Mail(v)' : m \in Mail(v) \/ m = Claim(s) \/ m.type = "gone"
      /\ \A v \in Windows : \A m \in Mail(v) : Moving(m) => m \in Mail(v)'
  BY DEF ClaimSent
<1>6. QED
  BY <1>1, <1>3, <1>4, <1>5, EnterKeeps

\* The record that is read is the one that is stored once the session is left.
LEMMA LoadKeeps ==
    ASSUME MoveInv, SettledInv, NEW w \in Windows, NEW s \in DOMAIN stored,
           LoadSession(w, s), settled', ClaimSent(w, s), closed' = closed, UNCHANGED windowVars
    PROVE  SettledInv'
<1>1. Enter(w, s, stored[s], Flushed(w)) /\ s \in Sessions /\ s # None /\ pending' = pending /\ timers' = timers
  BY SessionAssumption DEF LoadSession, windowVars, MoveInv, HolderInv, SessionTypes
<1>2. ~(dirty[w] /\ holds[w] = s)
  BY <1>1 DEF Enter
<1>3. \A n : RecordedIn(Flushed(w), s, n) <=> Named(stored[s], n)
  BY <1>2, FlushedRecords DEF Recorded, RecordedIn
<1>4. \A r, n : r # holds[w] /\ Recorded(r, n) => RecordedIn(Flushed(w), r, n)
  BY FlushedRecords
<1>5. \A n \in Names \ closed' : holds[w] # None /\ Shows(w, n) => RecordedIn(Flushed(w), holds[w], n)
  BY FlushedRecords DEF SettledInv, CleanSaved, Saved
<1>6. QED
  BY <1>1, <1>3, <1>4, <1>5, EnterSession

\* A session that was not given out holds nothing and is not on anyone's way.
LEMMA NewKeeps ==
    ASSUME MoveInv, SettledInv, NEW w \in Windows, NEW s \in unused, NEW base,
           Enter(w, s, {}, SetItem(base, s, {})), settled', ClaimSent(w, s), closed' = closed, UNCHANGED windowVars,
           base = Flushed(w) \/ (base = stored /\ holds[w] = None)
    PROVE  SettledInv'
<1>1. s \in Sessions /\ s \notin DOMAIN stored /\ ~HeldIn(s) /\ pending' = pending /\ timers' = timers
  BY DEF windowVars, MoveInv, HolderInv, SessionTypes, NotGivenOut
<1>2. \A r, n : RecordedIn(SetItem(base, s, {}), r, n) <=> (r # s /\ RecordedIn(base, r, n))
  BY ItemRecords DEF Named
<1>3. \A n : ~Named({}, n)
  BY DEF Named
<1>4. /\ \A r, n : r # holds[w] /\ Recorded(r, n) => RecordedIn(base, r, n)
      /\ \A n \in Names \ closed' : holds[w] # None /\ Shows(w, n) => RecordedIn(base, holds[w], n)
  <2>1. CASE base = Flushed(w)
    BY <2>1, FlushedRecords DEF SettledInv, CleanSaved, Saved
  <2>2. CASE base = stored /\ holds[w] = None
    BY <2>2 DEF Recorded
  <2>3. QED
    BY <2>1, <2>2
<1>5. \A r, n : Recorded(r, n) => r # s
  BY <1>1 DEF Recorded, RecordedIn
<1>6. holds[w] # s
  BY <1>1 DEF HeldIn
<1>7. /\ \A n \in Names \ closed' : RecordedIn(SetItem(base, s, {}), s, n) <=> Named({}, n)
      /\ \A n \in Names \ closed' : \A r : r # holds[w] /\ Recorded(r, n) => RecordedIn(SetItem(base, s, {}), r, n)
      /\ \A n \in Names \ closed' :
             holds[w] # None /\ Shows(w, n) => RecordedIn(SetItem(base, s, {}), holds[w], n)
  BY <1>2, <1>3, <1>4, <1>5, <1>6
<1>8. QED
  BY <1>1, <1>7, EnterSession

\* Claims sent to the others by a window that has heard everything.
LEMMA ClaimIsSent ==
    ASSUME SessionTypes, NEW w \in Windows, NEW s \in Sessions, Mail(w) = {}, inbox' = Sent(inbox, w, Claim(s))
    PROVE  ClaimSent(w, s)
<1>1. PICK m \in Messages : m = Claim(s)
  BY MessageKinds
<1>2. \A v \in Windows : \A k : k \in Mail(v)' <=> k \in Mail(v) \/ (k = m /\ v # w /\ Listens(v))
  BY <1>1, MailSent
<1>3. QED
  BY <1>1, <1>2 DEF ClaimSent

\* A page that loads has heard nothing and had no session.
LEMMA RehydrateSettled ==
    ASSUME MoveInv, SettledInv, NEW w \in Windows, Rehydrate(w), settled'
    PROVE  SettledInv'
<1>1. SessionTypes /\ page[w] = "loading" /\ UNCHANGED windowVars /\ closed' = closed
  BY DEF Rehydrate, MoveInv, HolderInv
<1>2. ~Listens(w)
  BY <1>1 DEF Listens
<1>3. Mail(w) = {} /\ holds[w] = None
  BY <1>1, <1>2, NoMail DEF MoveInv, PagesWork, HolderInv, HoldersListen
<1>4. CASE \E s \in DOMAIN stored : LoadSession(w, s) /\ inbox' = Sent(inbox, w, Claim(s))
  <2>1. PICK s \in DOMAIN stored : LoadSession(w, s) /\ inbox' = Sent(inbox, w, Claim(s))
    BY <1>4
  <2>2. s \in Sessions
    BY <1>1 DEF SessionTypes
  <2>3. QED
    BY <1>1, <1>3, <2>1, <2>2, ClaimIsSent, LoadKeeps
<1>5. CASE \E s \in unused : Enter(w, s, {}, SetItem(stored, s, {})) /\ inbox' = Sent(inbox, w, Claim(s))
  <2>1. PICK s \in unused : Enter(w, s, {}, SetItem(stored, s, {})) /\ inbox' = Sent(inbox, w, Claim(s))
    BY <1>5
  <2>2. s \in Sessions
    BY <1>1 DEF SessionTypes
  <2>3. QED
    BY <1>1, <1>3, <2>1, <2>2, ClaimIsSent, NewKeeps
<1>6. QED
  BY <1>4, <1>5 DEF Rehydrate

\* The user opens a session, or a new one.
LEMMA OpenSettled ==
    ASSUME MoveInv, SettledInv, NEW w \in Windows, NEW s \in Sessions,
           OpenSession(w, s) \/ NewSession(w, s), settled'
    PROVE  SettledInv'
<1>1. SessionTypes /\ UNCHANGED windowVars /\ closed' = closed /\ Mail(w) = {} /\ inbox' = Sent(inbox, w, Claim(s))
  BY Quiet DEF OpenSession, NewSession, MoveInv, HolderInv
<1>2. ClaimSent(w, s)
  BY <1>1, ClaimIsSent
<1>3. CASE OpenSession(w, s)
  BY <1>1, <1>2, <1>3, LoadKeeps DEF OpenSession
<1>4. CASE NewSession(w, s)
  <2>1. s \in unused /\ Enter(w, s, {}, SetItem(Flushed(w), s, {}))
    BY <1>4 DEF NewSession
  <2>2. QED
    BY <1>1, <1>2, <2>1, NewKeeps
<1>5. QED
  BY <1>3, <1>4

\* The session of the window was deleted and it enters the one that is left.
LEMMA HearGoneSettled ==
    ASSUME MoveInv, SettledInv, NEW w \in Windows, NEW r \in DOMAIN stored, Heard(w, "gone"),
           LoadSession(w, r), inbox' = Sent(Handled(w), w, Claim(r)), UNCHANGED windowVars, closed' = closed, settled'
    PROVE  SettledInv'
<1>1. SessionTypes /\ OneTransfer /\ r \in Sessions
  BY BoxTypes DEF SessionTypes
<1>2. PICK m \in Messages : m = Claim(r)
  BY <1>1, MessageKinds
<1>3. PICK g \in Mail(w) : g = Head(inbox[w]) /\ g.type = "gone" /\ inbox[w] # << >>
  BY HeadHeard
<1>4. /\ \A v \in Windows : \A k \in Mail(v)' : k \in Mail(v) \/ (k = m /\ v # w /\ Listens(v))
      /\ \A v \in Windows : \A k \in Mail(v) : k \in Mail(v)' \/ (v = w /\ k = g)
  BY <1>1, <1>2, <1>3, MailAnswered
<1>5. \A k \in Mail(w) : ~Moving(k)
  BY <1>1, <1>3 DEF OneTransfer
<1>6. ClaimSent(w, r)
  BY <1>2, <1>3, <1>4, <1>5 DEF ClaimSent, Moving
<1>7. QED
  BY <1>6, LoadKeeps

\* A session is deleted by a window that enters the one that is left.
LEMMA DeleteEntersSettled ==
    ASSUME MoveInv, SettledInv, NEW w \in Windows, NEW s \in Sessions, NEW r \in Sessions, NEW left,
           left = [x \in DOMAIN stored \ {s} |-> stored[x]], r \in DOMAIN left, Gesture(w),
           closed' = closed \cup {Name(t) : t \in stored[s] \cup UNION {tabs[v] : v \in {u \in Windows : holds[u] = s}}},
           holds[w] \in {s, None}, Enter(w, r, left[r], left),
           inbox' = Sent(Sent(inbox, w, Gone(s)), w, Claim(r)), UNCHANGED windowVars, settled'
    PROVE  SettledInv'
<1>1. SessionTypes /\ pending' = pending /\ timers' = timers /\ \A v \in Windows : Mail(v) = {}
  BY Quiet DEF MoveInv, HolderInv, windowVars
<1>2. PICK m \in Messages, k \in Messages : m = Gone(s) /\ k = Claim(r)
  BY MessageKinds
<1>3. \A v \in Windows : \A x : x \in Mail(v)' <=> x \in Mail(v) \/ (x \in {m, k} /\ v # w /\ Listens(v))
  BY <1>1, <1>2, MailDeleted
<1>4. ClaimSent(w, r)
  BY <1>1, <1>2, <1>3, Kinds DEF ClaimSent
<1>5. \A n \in Names \ closed' : ~Recorded(s, n) /\ \A v \in Windows : holds[v] = s => ~Shows(v, n)
  BY DEF Recorded, RecordedIn, Shows, Named
<1>6. \A x, n : RecordedIn(left, x, n) <=> x # s /\ Recorded(x, n)
  BY DEF RecordedIn, Recorded
<1>7. \A n : RecordedIn(left, r, n) <=> Named(left[r], n)
  BY DEF RecordedIn
<1>8. \A n \in Names \ closed' : \A x : x # holds[w] /\ Recorded(x, n) => RecordedIn(left, x, n)
  BY <1>5, <1>6
<1>9. \A n \in Names \ closed' : holds[w] # None /\ Shows(w, n) => RecordedIn(left, holds[w], n)
  BY <1>5
<1>10. QED
  BY <1>1, <1>4, <1>7, <1>8, <1>9, EnterSession

-----------------------------------------------------------------------------
(* A window leaves its session                                             *)

\* What the window kept is in the record, and nobody holds that.
LEMMA LeaveKeeps ==
    ASSUME MoveInv, SettledInv, NEW w \in Windows, holds' = [holds EXCEPT ![w] = None], OneStep(w),
           \/ timers'[w] = {}
           \/ timers'[w] = timers[w] /\ pending'[w] = pending[w] /\ \A m \in Mail(w) : Moving(m) => m \in Mail(w)',
           \A v \in Windows : \A m \in Mail(v)' : m \in Mail(v) \/ m.type = "gone",
           \A v \in Windows \ {w} : \A m \in Mail(v) : Moving(m) => m \in Mail(v)',
           \A m \in Mail(w) : m.type = "push" => m.to # holds[w],
           \A n \in Names \ closed' : holds[w] # None /\ Shows(w, n) => RecordedIn(stored', holds[w], n)
    PROVE  SettledInv'
<1>1. holds'[w] = None /\ \A v \in Windows \ {w} : holds'[v] = holds[v]
  BY RecordOwners
<1>2. OneEach'
  BY <1>1 DEF SettledInv, OneEach
<1>3. CleanSaved' /\ ClaimedSaved'
  <2>1. \A v \in Windows \ {w} :
            holds[v] # None /\ Claim(holds[v]) \in Mail(v)' => Claim(holds[v]) \in Mail(v)
    BY Kinds
  <2>2. QED
    BY <1>1, <2>1, SavesStay DEF SettledInv
<1>4. OffersStand'
  <2>1. \A v \in Windows : \A m \in Mail(v)' : m.type \in {"push", "takeover"} => m \in Mail(v)
    OBVIOUS
  <2>2. QED
    BY <2>1, OffersKept DEF SettledInv
<1>5. TimersWait'
  <2>1. \A v \in Windows : \A t, r, x : v # w /\ Offer(t, r, x) \in Mail(v) => Offer(t, r, x) \in Mail(v)'
    BY Kinds DEF Moving
  <2>2. \A v \in Windows : \A t, x :
            (v # w \/ timers'[w] # {}) /\ Accepted(t, x) \in Mail(v) => Accepted(t, x) \in Mail(v)'
    BY Kinds DEF Moving
  <2>3. \A u, v \in Windows : \A p \in timers'[v] :
            p[1] \in pending'[v] /\ holds'[u] # None /\ holds'[u] = p[2] =>
                /\ p \in timers[v] /\ p[1] \in pending[v] /\ u # w /\ holds[u] = holds'[u] /\ (v # w \/ timers'[w] # {})
    BY <1>1 DEF OneStep
  <2>4. ASSUME NEW v \in Windows, NEW u \in Windows, NEW p \in timers'[v],
               p[1] \in pending'[v], holds'[u] # None, holds'[u] = p[2]
        PROVE  u # v /\ (Offer(p[1], p[2], v) \in Mail(u)' \/ Accepted(p[1], v) \in Mail(v)')
    <3>1. p \in timers[v] /\ p[1] \in pending[v] /\ u # w /\ holds[u] = p[2] /\ holds[u] # None
          /\ (v # w \/ timers'[w] # {})
      BY <2>3, <2>4
    <3>2. u # v /\ (Offer(p[1], p[2], v) \in Mail(u) \/ Accepted(p[1], v) \in Mail(v))
      BY <3>1 DEF SettledInv, TimersWait
    <3>3. QED
      BY <2>1, <2>2, <3>1, <3>2
  <2>5. QED
    BY <2>4 DEF TimersWait
<1>6. OffersStay(w)
  BY DEF OffersStay, Moving
<1>7. ASSUME NEW n \in Names \ closed', NEW W \in SUBSET Windows, Located(n, W)
      PROVE  Located(n, W)'
  <2>1. ASSUME Keeps(w, n) PROVE Located(n, W)'
    <3>1. holds[w] # None /\ Shows(w, n)
      BY <2>1 DEF Keeps, Offered
    <3>2. RecordedIn(stored', holds[w], n) /\ \A v \in Windows : holds'[v] # holds[w]
      BY <1>1, <3>1 DEF SettledInv, OneEach
    <3>3. Shelved(n)'
      BY <3>2 DEF Shelved, Recorded, RecordedIn, HeldIn
    <3>4. QED
      BY <3>3 DEF Located
  <2>2. QED
    BY <1>1, <1>6, <1>7, <2>1, LocatedStays
<1>8. AllLocated' /\ TakenStay'
  <2>1. \A v \in Windows : \A m \in Mail(v)' : m.type = "accepted" => m \in Mail(v)
    OBVIOUS
  <2>2. QED
    BY <1>7, <2>1, NothingMisplaced DEF SettledInv, OneStep
<1>9. QED
  BY <1>2, <1>3, <1>4, <1>5, <1>8 DEF SettledInv

\* Who hears the claim of another window has saved its tabs, and was offered none.
LEMMA TakenOverSettled ==
    ASSUME MoveInv, SettledInv, NEW w \in Windows, TakenOver(w), IsClaimed(w), holds[w] # None
    PROVE  SettledInv'
<1>1. SessionTypes /\ OneTransfer /\ WindowTypes
  BY BoxTypes DEF MoveInv
<1>2. PICK c \in Mail(w) : c = Head(inbox[w]) /\ c \in Messages /\ c.type = "takeover" /\ inbox[w] # << >>
  BY HeadHeard DEF TakenOver
<1>3. c = Claim(holds[w])
  BY <1>2, MessageKinds DEF IsClaimed
<1>4. /\ inbox' = Handled(w) /\ NoSession(w) /\ stored' = stored /\ tabs' = tabs /\ closed' = closed
      /\ pending' = pending /\ timers' = timers
  BY DEF TakenOver, windowVars, historyVars
<1>5. /\ \A v \in Windows : \A k \in Mail(v)' : k \in Mail(v)
      /\ \A v \in Windows : \A k \in Mail(v) : k \in Mail(v)' \/ (v = w /\ k = c)
  BY <1>1, <1>2, <1>4, MailHandled
<1>6. OneStep(w)
  BY <1>1, <1>4, RecordOwners DEF OneStep, RecordsStay, Recorded, NoSession, WindowTypes
<1>7. Saved(w)
  BY <1>2, <1>3 DEF SettledInv, ClaimedSaved
<1>8. \A n \in Names \ closed' : Shows(w, n) => RecordedIn(stored', holds[w], n)
  BY <1>4, <1>7 DEF Saved, Recorded
<1>9. \A m \in Mail(w) : m.type = "push" => m.to # holds[w]
  BY <1>2, <1>3 DEF SettledInv, OffersStand
<1>10. \A v \in Windows : \A m \in Mail(v) : Moving(m) => m \in Mail(v)'
  BY <1>2, <1>5 DEF Moving
<1>11. holds' = [holds EXCEPT ![w] = None]
  BY <1>4 DEF NoSession
<1>12. QED
  BY <1>4, <1>5, <1>6, <1>8, <1>9, <1>10, <1>11, LeaveKeeps

\* A page that goes has saved, or had nothing to save.
LEMMA PageGoesSettled ==
    ASSUME MoveInv, SettledInv, NEW w \in Windows, NEW saves \in BOOLEAN, PageGoes(w, saves), settled'
    PROVE  SettledInv'
<1>1. SessionTypes /\ OneTransfer /\ WindowTypes
  BY BoxTypes DEF MoveInv
<1>2. /\ stored' = IF saves THEN Flushed(w) ELSE stored
      /\ holds' = [holds EXCEPT ![w] = None] /\ timers'[w] = {} /\ closed' = closed
      /\ inbox' = [inbox EXCEPT ![w] = <<>>]
      /\ ~OnItsWay(holds[w]) /\ (saves \/ ~dirty[w])
  BY <1>1 DEF PageGoes, WindowTypes
<1>3. /\ \A v \in Windows \ {w} : Mail(v)' = Mail(v)
      /\ Mail(w)' = {}
  BY <1>1, <1>2 DEF Mail, SessionTypes, ToSet
<1>4. \A r, n : RecordedIn(stored', r, n) <=>
          IF saves /\ dirty[w] /\ holds[w] # None /\ r = holds[w] THEN Shows(w, n) ELSE Recorded(r, n)
  BY <1>2, FlushedRecords DEF Recorded
<1>5. RecordsStay(w)
  BY <1>4 DEF RecordsStay
<1>6. OneStep(w)
  BY <1>1, <1>2, <1>5, RecordOwners DEF PageGoes, OneStep, WindowTypes
<1>7. \A n \in Names \ closed' : holds[w] # None /\ Shows(w, n) => RecordedIn(stored', holds[w], n)
  BY <1>2, <1>4 DEF SettledInv, CleanSaved, Saved
<1>8. \A m \in Mail(w) : m.type = "push" => m.to # holds[w]
  BY <1>2 DEF OnItsWay, Mail
<1>9. QED
  BY <1>2, <1>3, <1>6, <1>7, <1>8, LeaveKeeps

\* The window that deletes its session leaves it unsaved: what was there is closed.
LEMMA DeleteLeavesSettled ==
    ASSUME MoveInv, SettledInv, NEW w \in Windows, NEW s \in Sessions, Gesture(w), holds[w] = s,
           stored' = [x \in DOMAIN stored \ {s} |-> stored[x]], NoSession(w),
           closed' = closed \cup {Name(t) : t \in stored[s] \cup UNION {tabs[v] : v \in {u \in Windows : holds[u] = s}}},
           inbox' = Sent(inbox, w, Gone(s)), tabs' = tabs, UNCHANGED windowVars
    PROVE  SettledInv'
<1>1. SessionTypes /\ WindowTypes /\ pending' = pending /\ timers' = timers /\ \A v \in Windows : Mail(v) = {}
  BY Quiet DEF MoveInv, HolderInv, windowVars
<1>2. PICK m \in Messages : m = Gone(s)
  BY MessageKinds
<1>3. \A v \in Windows : \A k : k \in Mail(v)' <=> k \in Mail(v) \/ (k = m /\ v # w /\ Listens(v))
  BY <1>1, <1>2, MailSent
<1>4. \A n \in Names \ closed' : ~Recorded(s, n) /\ ~Shows(w, n)
  BY DEF Recorded, RecordedIn, Shows, Named
<1>5. \A x, n : RecordedIn(stored', x, n) <=> x # s /\ Recorded(x, n)
  BY DEF RecordedIn, Recorded
<1>6. OneStep(w)
  <2>1. RecordsStay(w)
    BY <1>4, <1>5 DEF RecordsStay
  <2>2. closed \subseteq closed'
    OBVIOUS
  <2>3. QED
    BY <1>1, <2>1, <2>2, RecordOwners DEF OneStep, NoSession, WindowTypes
<1>7. holds' = [holds EXCEPT ![w] = None]
  BY DEF NoSession
<1>8. timers'[w] = timers[w] /\ pending'[w] = pending[w] /\ \A k \in Mail(w) : Moving(k) => k \in Mail(w)'
  BY <1>1
<1>9. /\ \A v \in Windows : \A k \in Mail(v)' : k \in Mail(v) \/ k.type = "gone"
      /\ \A v \in Windows \ {w} : \A k \in Mail(v) : Moving(k) => k \in Mail(v)'
  BY <1>2, <1>3, Kinds
<1>10. \A k \in Mail(w) : k.type = "push" => k.to # holds[w]
  BY <1>1
<1>11. \A n \in Names \ closed' : holds[w] # None /\ Shows(w, n) => RecordedIn(stored', holds[w], n)
  BY <1>4
<1>12. QED
  BY <1>6, <1>7, <1>8, <1>9, <1>10, <1>11, LeaveKeeps

-----------------------------------------------------------------------------
(* A window stays in its session                                           *)

\* One holder, and saves, while nobody enters or leaves.
LEMMA StayKeeps ==
    ASSUME MoveInv, SettledInv, NEW w \in Windows, holds' = holds, OneStep(w),
           \A v \in Windows : \A m \in Mail(v)' : m.type = "takeover" => m \in Mail(v),
           holds[w] # None /\ (dirty'[w] => Claim(holds[w]) \in Mail(w)') => Saved(w)'
    PROVE  OneEach' /\ CleanSaved' /\ ClaimedSaved'
<1>1. OneEach'
  BY DEF SettledInv, OneEach
<1>2. \A v \in Windows \ {w} : holds[v] # None /\ Claim(holds[v]) \in Mail(v)' => Claim(holds[v]) \in Mail(v)
  BY Kinds
<1>3. QED
  BY <1>1, <1>2, SavesStay DEF SettledInv

\* With no message there is no push whose target is held.
LEMMA QuietTimers ==
    ASSUME TimersWait, \A v \in Windows : Mail(v) = {}, holds' = holds, pending' = pending, timers' = timers
    PROVE  TimersWait'
<1>1. \A v, u \in Windows : \A p \in timers[v] : ~(p[1] \in pending[v] /\ holds[u] # None /\ holds[u] = p[2])
  BY DEF TimersWait
<1>2. QED
  BY <1>1 DEF TimersWait

\* Pages come and show: nothing else changes.
LEMMA PagesSettled ==
    ASSUME SettledInv, UNCHANGED <<stored, holds, tabs, dirty, pending, timers, inbox, closed>>
    PROVE  SettledInv'
<1>1. \A n, W : Located(n, W)' <=> Located(n, W)
  BY DEF Located, Shelved, Recorded, RecordedIn, HeldIn, Keeps, Shows, Named, Offered, Mail
<1>2. \A w \in Windows : Saved(w)' <=> Saved(w)
  BY DEF Saved, Shows, Recorded, RecordedIn, Named
<1>3. OneEach' /\ OffersStand' /\ TimersWait'
  BY DEF SettledInv, OneEach, OffersStand, TimersWait, Mail
<1>4. CleanSaved' /\ ClaimedSaved'
  BY <1>2 DEF SettledInv, CleanSaved, ClaimedSaved, Mail
<1>5. TakenStay' /\ AllLocated'
  BY <1>1 DEF SettledInv, TakenStay, AllLocated, Mail
<1>6. QED
  BY <1>3, <1>4, <1>5 DEF SettledInv

\* The delayed save.
LEMMA FlushSettled ==
    ASSUME MoveInv, SettledInv, NEW w \in Windows, FlushState(w)
    PROVE  SettledInv'
<1>1. WindowTypes /\ stored' = Flushed(w) /\ dirty[w] /\ dirty' = [dirty EXCEPT ![w] = FALSE]
      /\ UNCHANGED <<holds, tabs, pending, timers, inbox, closed>>
  BY DEF FlushState, MoveInv, windowVars, historyVars
<1>2. /\ \A v \in Windows : Mail(v)' = Mail(v)
      /\ \A v \in Windows : \A n : Shows(v, n)' <=> Shows(v, n)
  BY <1>1 DEF Mail, Shows, Named
<1>3. OneStep(w)
  BY <1>1, FlushedRecords DEF OneStep, RecordsStay, WindowTypes
<1>4. holds[w] # None => Saved(w)'
  BY <1>1, <1>2, FlushedRecords DEF Saved, Recorded
<1>5. OneEach' /\ CleanSaved' /\ ClaimedSaved'
  BY <1>1, <1>2, <1>3, <1>4, StayKeeps
<1>6. OffersStand' /\ TimersWait'
  BY <1>1, <1>2 DEF SettledInv, OffersStand, TimersWait
<1>7. OffersStay(w) /\ \A n : Keeps(w, n) => Keeps(w, n)'
  BY <1>1, <1>2 DEF OffersStay, Keeps, Offered
<1>8. ASSUME NEW n \in Names \ closed', NEW W \in SUBSET Windows, Located(n, W) PROVE Located(n, W)'
  <2>1. w \in W /\ Keeps(w, n) => Located(n, W)'
    BY <1>7 DEF Located
  <2>2. QED
    BY <1>1, <1>3, <1>7, <1>8, <2>1, LocatedStays
<1>9. AllLocated' /\ TakenStay'
  BY <1>1, <1>2, <1>8, NothingMisplaced DEF SettledInv
<1>10. QED
  BY <1>5, <1>6, <1>9 DEF SettledInv

\* A message is handled that is not for the window, or comes too late.
LEMMA IgnoredSettled ==
    ASSUME MoveInv, SettledInv, NEW w \in Windows, inbox[w] # << >>, inbox' = Handled(w),
           UNCHANGED <<stored, holds, tabs, dirty, pending, timers, closed>>,
           Head(inbox[w]).type = "push" => Head(inbox[w]).to # holds[w],
           Head(inbox[w]).type = "accepted" => Head(inbox[w]).source # w \/ page[w] # "ready"
    PROVE  SettledInv'
<1>1. SessionTypes /\ OneTransfer /\ WindowTypes
  BY BoxTypes DEF MoveInv
<1>2. PICK h \in Mail(w) : h = Head(inbox[w])
  BY <1>1, HandledMail
<1>3. /\ \A v \in Windows : \A k \in Mail(v)' : k \in Mail(v)
      /\ \A v \in Windows : \A k \in Mail(v) : k \in Mail(v)' \/ (v = w /\ k = h)
  BY <1>1, <1>2, MailHandled
<1>4. \A v \in Windows : \A n : Shows(v, n)' <=> Shows(v, n)
  BY DEF Shows, Named
<1>5. OneStep(w)
  BY DEF OneStep, RecordsStay, Recorded
<1>6. Saved(w) => Saved(w)'
  BY <1>4 DEF Saved, Recorded
<1>7. OneEach' /\ CleanSaved' /\ ClaimedSaved'
  BY <1>3, <1>5, <1>6, StayKeeps DEF SettledInv, CleanSaved, ClaimedSaved
<1>8. OffersStand'
  BY <1>3, OffersKept DEF SettledInv
<1>9. TimersWait'
  <2>1. ASSUME NEW u \in Windows, NEW v \in Windows, NEW p \in timers[v], holds[u] = p[2],
               Offer(p[1], p[2], v) \in Mail(u)
        PROVE  Offer(p[1], p[2], v) \in Mail(u)'
    <3>1. Offer(p[1], p[2], v).type = "push" /\ Offer(p[1], p[2], v).to = p[2]
      BY Kinds
    <3>2. u = w => Offer(p[1], p[2], v) # h
      BY <1>2, <2>1, <3>1
    <3>3. QED
      BY <1>3, <2>1, <3>2
  <2>2. ASSUME NEW v \in Windows, NEW p \in timers[v], Accepted(p[1], v) \in Mail(v)
        PROVE  Accepted(p[1], v) \in Mail(v)'
    <3>1. Accepted(p[1], v).type = "accepted" /\ Accepted(p[1], v).source = v
      BY Kinds
    <3>2. page[v] = "ready"
      BY DEF MoveInv, PagesWork
    <3>3. v = w => Accepted(p[1], v) # h
      BY <1>2, <3>1, <3>2
    <3>4. QED
      BY <1>3, <2>2, <3>3
  <2>3. QED
    BY <2>1, <2>2, TimersStay DEF SettledInv
<1>10. OffersStay(w)
  BY <1>3 DEF OffersStay
<1>11. \A n : Keeps(w, n) => Keeps(w, n)'
  BY <1>2, <1>3, <1>4 DEF Keeps, Offered
<1>12. ASSUME NEW n \in Names \ closed', NEW W \in SUBSET Windows, Located(n, W) PROVE Located(n, W)'
  <2>1. w \in W /\ Keeps(w, n) => Located(n, W)'
    BY <1>11 DEF Located
  <2>2. QED
    BY <1>5, <1>10, <1>12, <2>1, LocatedStays
<1>13. AllLocated' /\ TakenStay'
  BY <1>3, <1>12, NothingMisplaced DEF SettledInv
<1>14. QED
  BY <1>7, <1>8, <1>9, <1>13 DEF SettledInv

-----------------------------------------------------------------------------
(* Tabs are closed and moved                                               *)

\* A tab the user closed; the names of the others are shown as before.
LEMMA CloseSettled ==
    ASSUME MoveInv, SettledInv, NEW w \in Windows, NEW t \in Tabs, CloseTab(w, t)
    PROVE  SettledInv'
<1>1. /\ WindowTypes /\ \A v \in Windows : Mail(v) = {}
      /\ holds[w] # None /\ tabs' = [tabs EXCEPT ![w] = @ \ {t}] /\ dirty' = [dirty EXCEPT ![w] = holds[w] # None]
      /\ closed' = closed \cup {Name(t)} /\ UNCHANGED <<stored, holds, pending, timers, inbox>>
  BY Quiet DEF CloseTab, WithoutTab, Touched, MoveInv, windowVars
<1>2. \A v \in Windows : Mail(v)' = {}
  BY <1>1 DEF Mail
<1>3. OneStep(w)
  BY <1>1 DEF OneStep, RecordsStay, Recorded, WindowTypes
<1>4. dirty'[w] /\ tabs'[w] = tabs[w] \ {t}
  BY <1>1 DEF WindowTypes
<1>5. OneEach' /\ CleanSaved' /\ ClaimedSaved'
  BY <1>1, <1>2, <1>3, <1>4, StayKeeps
<1>6. OffersStand' /\ OffersStay(w) /\ TimersWait'
  BY <1>1, <1>2, QuietTimers DEF OffersStand, OffersStay, SettledInv
<1>7. \A n \in Names \ closed' : Keeps(w, n) => Keeps(w, n)'
  BY <1>1, <1>2, <1>4 DEF Keeps, Offered, Shows, Named
<1>8. ASSUME NEW n \in Names \ closed', NEW W \in SUBSET Windows, Located(n, W) PROVE Located(n, W)'
  <2>1. w \in W /\ Keeps(w, n) => Located(n, W)'
    BY <1>7 DEF Located
  <2>2. QED
    BY <1>1, <1>3, <1>6, <1>8, <2>1, LocatedStays
<1>9. AllLocated' /\ TakenStay'
  BY <1>1, <1>2, <1>8, NothingMisplaced DEF SettledInv
<1>10. QED
  BY <1>5, <1>6, <1>9 DEF SettledInv

\* A tab moves into a record of its own that nobody holds.
LEMMA ElevateSettled ==
    ASSUME MoveInv, SettledInv, NEW w \in Windows, NEW t \in Tabs, NEW s \in Sessions, ElevateTab(w, t, s)
    PROVE  SettledInv'
<1>1. /\ WindowTypes /\ \A v \in Windows : Mail(v) = {}
      /\ s \notin DOMAIN stored /\ ~HeldIn(s) /\ stored' = SetItem(stored, s, {t})
      /\ holds[w] # None /\ tabs' = [tabs EXCEPT ![w] = @ \ {t}] /\ dirty' = [dirty EXCEPT ![w] = holds[w] # None]
      /\ UNCHANGED <<holds, pending, timers, inbox, closed>>
  BY Quiet DEF ElevateTab, WithoutTab, Touched, MoveInv, NotGivenOut, windowVars
<1>2. \A v \in Windows : Mail(v)' = {}
  BY <1>1 DEF Mail
<1>3. \A r, n : RecordedIn(stored', r, n) <=> IF r = s THEN Name(t) = n ELSE Recorded(r, n)
  BY <1>1, ItemRecords DEF Named, Recorded
<1>4. \A r, n : Recorded(r, n) => r # s
  BY <1>1 DEF Recorded, RecordedIn
<1>5. OneStep(w)
  BY <1>1, <1>3, <1>4 DEF OneStep, RecordsStay, WindowTypes
<1>6. dirty'[w] /\ tabs'[w] = tabs[w] \ {t}
  BY <1>1 DEF WindowTypes
<1>7. OneEach' /\ CleanSaved' /\ ClaimedSaved'
  BY <1>1, <1>2, <1>5, <1>6, StayKeeps
<1>8. OffersStand' /\ OffersStay(w) /\ TimersWait'
  BY <1>1, <1>2, QuietTimers DEF OffersStand, OffersStay, SettledInv
<1>9. Shelved(Name(t))'
  BY <1>1, <1>3 DEF Shelved, Recorded, RecordedIn, HeldIn
<1>10. \A n : Keeps(w, n) /\ n # Name(t) => Keeps(w, n)'
  BY <1>1, <1>2, <1>6 DEF Keeps, Offered, Shows, Named
<1>11. ASSUME NEW n \in Names \ closed', NEW W \in SUBSET Windows, Located(n, W) PROVE Located(n, W)'
  <2>1. w \in W /\ Keeps(w, n) => Located(n, W)'
    BY <1>9, <1>10 DEF Located
  <2>2. QED
    BY <1>1, <1>5, <1>8, <1>11, <2>1, LocatedStays
<1>12. AllLocated' /\ TakenStay'
  BY <1>1, <1>2, <1>11, NothingMisplaced DEF SettledInv
<1>13. QED
  BY <1>7, <1>8, <1>12 DEF SettledInv

\* A session is deleted by a window that stays in its own, or in none.
LEMMA DeleteStaysSettled ==
    ASSUME MoveInv, SettledInv, NEW w \in Windows, NEW s \in Sessions, Gesture(w),
           stored' = [x \in DOMAIN stored \ {s} |-> stored[x]],
           closed' = closed \cup {Name(t) : t \in stored[s] \cup UNION {tabs[v] : v \in {u \in Windows : holds[u] = s}}},
           inbox' = Sent(inbox, w, Gone(s)), UNCHANGED <<holds, tabs, dirty, pending, timers>>, holds[w] # s
    PROVE  SettledInv'
<1>1. SessionTypes /\ WindowTypes /\ \A v \in Windows : Mail(v) = {}
  BY Quiet DEF MoveInv, HolderInv
<1>2. PICK m \in Messages : m = Gone(s) /\ m.type = "gone"
  BY MessageKinds, Kinds
<1>3. \A v \in Windows : \A k : k \in Mail(v)' <=> k \in Mail(v) \/ (k = m /\ v # w /\ Listens(v))
  BY <1>1, <1>2, MailSent
<1>4. \A v \in Windows : \A k \in Mail(v)' : k.type = "gone"
  BY <1>1, <1>2, <1>3
<1>5. \A n \in Names \ closed' : ~Recorded(s, n)
  BY DEF Recorded, RecordedIn, Named
<1>6. \A x, n : RecordedIn(stored', x, n) <=> x # s /\ Recorded(x, n)
  BY DEF RecordedIn, Recorded
<1>7. closed \subseteq closed'
  OBVIOUS
<1>8. OneStep(w)
  BY <1>5, <1>6, <1>7 DEF OneStep, RecordsStay
<1>9. Saved(w) => Saved(w)'
  BY <1>6, <1>7 DEF Saved, Shows, Recorded
<1>10. OneEach' /\ CleanSaved' /\ ClaimedSaved'
  <2>1. \A v \in Windows : \A k \in Mail(v)' : k.type # "takeover"
    BY <1>4
  <2>2. holds[w] # None /\ (dirty'[w] => Claim(holds[w]) \in Mail(w)') => Saved(w)'
    BY <1>9, <2>1, Kinds DEF SettledInv, CleanSaved
  <2>3. QED
    BY <1>8, <2>1, <2>2, StayKeeps
<1>11. OffersStand' /\ OffersStay(w) /\ TimersWait'
  BY <1>1, <1>4, QuietTimers DEF OffersStand, OffersStay, SettledInv
<1>12. \A n \in Names \ closed' : Keeps(w, n) => Keeps(w, n)'
  BY <1>1 DEF Keeps, Offered, Shows, Named
<1>13. ASSUME NEW n \in Names \ closed', NEW W \in SUBSET Windows, Located(n, W) PROVE Located(n, W)'
  <2>1. w \in W /\ Keeps(w, n) => Located(n, W)'
    BY <1>12 DEF Located
  <2>2. QED
    BY <1>8, <1>11, <1>13, <2>1, LocatedStays
<1>14. AllLocated' /\ TakenStay'
  BY <1>4, <1>7, <1>13, NothingMisplaced DEF SettledInv
<1>15. QED
  BY <1>10, <1>11, <1>14 DEF SettledInv

\* What a window that takes a tab shows then.
LEMMA TakenShown ==
    ASSUME WindowTypes, NEW w \in Windows, NEW t, holds[w] # None, holds' = holds,
           HasId(t, tabs[w]), tabs' = [tabs EXCEPT ![w] = @ \cup {AsIdIn(t, @)}]
    PROVE  Keeps(w, Name(t))' /\ \A n : Shows(w, n) => Shows(w, n)'
<1>1. tabs'[w] = tabs[w] \cup {AsIdIn(t, tabs[w])}
  BY DEF WindowTypes
<1>2. Name(AsIdIn(t, tabs[w])) = Name(t)
  BY SameName
<1>3. QED
  BY <1>1, <1>2 DEF Keeps, Shows, Named

\* A tab that was dragged is shown here before it is closed there.
LEMMA DropSettled ==
    ASSUME MoveInv, SettledInv, NEW w \in Windows, NEW t \in Tabs, NEW v \in Windows, DropTab(w, v, t)
    PROVE  SettledInv'
<1>1. /\ SessionTypes /\ WindowTypes /\ \A u \in Windows : Mail(u) = {}
      /\ v # w /\ holds[w] # None /\ HasId(t, tabs[w])
      /\ tabs' = [tabs EXCEPT ![w] = @ \cup {AsIdIn(t, @)}] /\ dirty' = [dirty EXCEPT ![w] = holds[w] # None]
      /\ inbox' = Sent(inbox, w, Accepted(t, v))
      /\ UNCHANGED <<stored, holds, pending, timers, closed>>
  BY Quiet DEF DropTab, TakeTab, MayTake, Touched, MoveInv, HolderInv, windowVars
<1>2. PICK m \in Messages : m = Accepted(t, v) /\ m.type = "accepted" /\ m.tab = t /\ m.source = v
  BY MessageKinds, Kinds
<1>3. \A u \in Windows : \A k : k \in Mail(u)' <=> k \in Mail(u) \/ (k = m /\ u # w /\ Listens(u))
  BY <1>1, <1>2, MailSent
<1>4. \A u \in Windows : \A k \in Mail(u)' : k = m /\ u # w
  BY <1>1, <1>3
<1>5. OneStep(w)
  BY <1>1 DEF OneStep, RecordsStay, Recorded, WindowTypes
<1>6. dirty'[w]
  BY <1>1 DEF WindowTypes
<1>7. OneEach' /\ CleanSaved' /\ ClaimedSaved'
  BY <1>1, <1>2, <1>4, <1>5, <1>6, StayKeeps
<1>8. OffersStand' /\ OffersStay(w) /\ TimersWait'
  BY <1>1, <1>2, <1>4, QuietTimers DEF OffersStand, OffersStay, SettledInv
<1>9. Keeps(w, Name(t))' /\ \A n : Shows(w, n) => Shows(w, n)'
  BY <1>1, TakenShown
<1>10. \A n : Keeps(w, n) => Keeps(w, n)'
  BY <1>1, <1>9 DEF Keeps, Offered
<1>11. ASSUME NEW n \in Names \ closed', NEW W \in SUBSET Windows, Located(n, W) PROVE Located(n, W)'
  <2>1. w \in W /\ Keeps(w, n) => Located(n, W)'
    BY <1>10 DEF Located
  <2>2. QED
    BY <1>1, <1>5, <1>8, <1>11, <2>1, LocatedStays
<1>12. AllLocated' /\ TakenStay'
  <2>1. \A n \in Names \ closed' : Located(n, Windows) => Located(n, Windows)'
    BY <1>11
  <2>2. \A u \in Windows : \A k \in Mail(u)' : Located(Name(k.tab), Windows \ {u})'
    BY <1>2, <1>4, <1>9 DEF Located
  <2>3. QED
    BY <1>1, <2>1, <2>2, AllStays DEF SettledInv
<1>13. QED
  BY <1>7, <1>8, <1>12 DEF SettledInv

\* A tab is offered from a saved session to a window that listens.
LEMMA PushSettled ==
    ASSUME MoveInv, SettledInv, NEW w \in Windows, NEW t \in Tabs, NEW s \in Sessions, PushTab(w, t, s), settled'
    PROVE  SettledInv'
<1>1. /\ SessionTypes /\ WindowTypes /\ \A u \in Windows : Mail(u) = {}
      /\ holds[w] # None /\ s # holds[w] /\ \A p \in timers[w] : p[1] # t
      /\ stored' = SetItem(stored, holds[w], tabs[w]) /\ dirty' = [dirty EXCEPT ![w] = FALSE]
      /\ pending' = [pending EXCEPT ![w] = @ \cup {t}] /\ timers' = [timers EXCEPT ![w] = @ \cup {<<t, s>>}]
      /\ inbox' = Sent(inbox, w, Offer(t, s, w))
      /\ UNCHANGED <<holds, tabs, closed>>
  BY Quiet DEF PushTab, MoveInv, HolderInv
<1>2. PICK m \in Messages : m = Offer(t, s, w) /\ m.type = "push"
  BY MessageKinds, Kinds
<1>3. \A u \in Windows : \A k : k \in Mail(u)' <=> k \in Mail(u) \/ (k = m /\ u # w /\ Listens(u))
  BY <1>1, <1>2, MailSent
<1>4. \A u \in Windows : \A k \in Mail(u)' : k.type = "push"
  BY <1>1, <1>2, <1>3
<1>5. \A r, n : RecordedIn(stored', r, n) <=> IF r = holds[w] THEN Shows(w, n) ELSE Recorded(r, n)
  BY <1>1, ItemRecords DEF Recorded, Shows
<1>6. OneStep(w)
  BY <1>1, <1>5 DEF OneStep, RecordsStay, WindowTypes
<1>7. Saved(w)'
  BY <1>1, <1>5 DEF Saved, Recorded, Shows
<1>8. OneEach' /\ CleanSaved' /\ ClaimedSaved'
  <2>1. \A u \in Windows : \A k \in Mail(u)' : k.type # "takeover"
    BY <1>4
  <2>2. QED
    BY <1>1, <1>6, <1>7, <2>1, StayKeeps
<1>9. OffersStand' /\ OffersStay(w)
  BY <1>1, <1>4, Kinds DEF OffersStand, OffersStay
<1>10. TimersWait'
  <2>1. ASSUME NEW v \in Windows, NEW u \in Windows, NEW p \in timers'[v],
               p[1] \in pending'[v], holds'[u] # None, holds'[u] = p[2]
        PROVE  u # v /\ (Offer(p[1], p[2], v) \in Mail(u)' \/ Accepted(p[1], v) \in Mail(v)')
    <3>1. CASE v = w /\ p = <<t, s>>
      <4>1. u # w /\ Listens(u)
        BY <1>1, <2>1, <3>1 DEF MoveInv, HolderInv, HoldersListen
      <4>2. m \in Mail(u)'
        BY <1>3, <4>1
      <4>3. QED
        BY <1>2, <3>1, <4>1, <4>2
    <3>2. CASE ~(v = w /\ p = <<t, s>>)
      <4>1. p \in timers[v] /\ p[1] \in pending[v] /\ holds[u] # None /\ holds[u] = p[2]
        BY <1>1, <2>1, <3>2 DEF WindowTypes
      <4>2. Offer(p[1], p[2], v) \in Mail(u) \/ Accepted(p[1], v) \in Mail(v)
        BY <4>1 DEF SettledInv, TimersWait
      <4>3. QED
        BY <1>1, <4>2
    <3>3. QED
      BY <3>1, <3>2
  <2>2. QED
    BY <2>1 DEF TimersWait
<1>11. \A n : Keeps(w, n) => Keeps(w, n)'
  BY <1>1 DEF Keeps, Offered, Shows
<1>12. ASSUME NEW n \in Names \ closed', NEW W \in SUBSET Windows, Located(n, W) PROVE Located(n, W)'
  <2>1. w \in W /\ Keeps(w, n) => Located(n, W)'
    BY <1>11 DEF Located
  <2>2. QED
    BY <1>1, <1>6, <1>9, <1>12, <2>1, LocatedStays
<1>13. AllLocated' /\ TakenStay'
  BY <1>1, <1>4, <1>12, NothingMisplaced DEF SettledInv
<1>14. QED
  BY <1>8, <1>9, <1>10, <1>13 DEF SettledInv

\* The tab that was offered is shown, and the window it comes from is told.
LEMMA TakePushedSettled ==
    ASSUME MoveInv, SettledInv, NEW w \in Windows, TakePushed(w)
    PROVE  SettledInv'
<1>1. SessionTypes /\ WindowTypes /\ OneTransfer
  BY BoxTypes DEF MoveInv
<1>2. PICK h \in Mail(w) : /\ h = Head(inbox[w]) /\ h \in Messages /\ h.type = "push" /\ inbox[w] # << >>
                           /\ holds[w] = h.to /\ HasId(h.tab, tabs[w])
                           /\ tabs' = [tabs EXCEPT ![w] = @ \cup {AsIdIn(h.tab, @)}]
                           /\ inbox' = Sent(Handled(w), w, Accepted(h.tab, h.from))
  BY HeadHeard DEF TakePushed, TakeTab
<1>3. /\ h.to \in Sessions /\ h.from \in Windows /\ h.from # w /\ h.tab \in Tabs
      /\ h = Offer(h.tab, h.to, h.from)
  BY <1>1, <1>2, MessageKinds, Kinds DEF OneTransfer
<1>4. holds[w] # None /\ dirty' = [dirty EXCEPT ![w] = TRUE] /\ UNCHANGED <<stored, holds, pending, timers, closed>>
  BY <1>2, <1>3, SessionAssumption DEF TakePushed, TakeTab, Touched, windowVars, historyVars
<1>5. PICK m \in Messages : m = Accepted(h.tab, h.from) /\ m.type = "accepted" /\ m.tab = h.tab /\ m.source = h.from
  BY <1>3, MessageKinds, Kinds
<1>6. /\ \A v \in Windows : \A k \in Mail(v)' : k \in Mail(v) \/ (k = m /\ v # w /\ Listens(v))
      /\ \A v \in Windows : \A k \in Mail(v) : k \in Mail(v)' \/ (v = w /\ k = h)
      /\ \A v \in Windows \ {w} : Listens(v) => m \in Mail(v)'
  BY <1>1, <1>2, <1>5, MailAnswered
<1>7. OneStep(w)
  BY <1>1, <1>2, <1>4 DEF OneStep, RecordsStay, Recorded, WindowTypes
<1>8. OneEach' /\ CleanSaved' /\ ClaimedSaved'
  <2>1. \A v \in Windows : \A k \in Mail(v)' : k.type = "takeover" => k \in Mail(v)
    BY <1>5, <1>6
  <2>2. Claim(holds[w]) \notin Mail(w)
    BY <1>2 DEF SettledInv, OffersStand
  <2>3. dirty'[w] /\ Claim(holds[w]) \notin Mail(w)'
    BY <1>1, <1>4, <1>6, <2>2 DEF WindowTypes
  <2>4. QED
    BY <1>4, <1>7, <2>1, <2>3, StayKeeps
<1>9. OffersStand'
  <2>1. \A v \in Windows : \A k \in Mail(v)' : k.type \in {"push", "takeover"} => k \in Mail(v)
    BY <1>5, <1>6
  <2>2. QED
    BY <2>1, OffersKept DEF SettledInv
<1>10. TimersWait'
  <2>1. ASSUME NEW u \in Windows, NEW v \in Windows, NEW p \in timers[v], Offer(p[1], p[2], v) \in Mail(u)
        PROVE  Offer(p[1], p[2], v) \in Mail(u)' \/ Accepted(p[1], v) \in Mail(v)'
    <3>1. CASE Offer(p[1], p[2], v) = h
      <4>1. h.tab = p[1] /\ h.from = v
        BY <3>1, Kinds
      <4>2. Listens(v)
        BY DEF MoveInv, PagesWork, Listens
      <4>3. m \in Mail(v)'
        BY <1>3, <1>6, <4>1, <4>2
      <4>4. QED
        BY <1>5, <4>1, <4>3
    <3>2. QED
      BY <1>6, <2>1, <3>1
  <2>2. ASSUME NEW v \in Windows, NEW p \in timers[v], Accepted(p[1], v) \in Mail(v)
        PROVE  Accepted(p[1], v) \in Mail(v)'
    <3>1. Accepted(p[1], v) # h
      BY <1>2, Kinds
    <3>2. QED
      BY <1>6, <2>2, <3>1
  <2>3. QED
    BY <1>4, <2>1, <2>2, TimersStay DEF SettledInv
<1>11. OffersStay(w)
  BY <1>6 DEF OffersStay
<1>12. Keeps(w, Name(h.tab))' /\ \A n : Shows(w, n) => Shows(w, n)'
  BY <1>1, <1>2, <1>4, TakenShown
<1>13. \A n : Keeps(w, n) => Keeps(w, n)'
  <2>1. \A n : Offered(w, n) => Offered(w, n)' \/ n = Name(h.tab)
    BY <1>4, <1>6 DEF Offered
  <2>2. QED
    BY <1>4, <1>12, <2>1 DEF Keeps
<1>14. ASSUME NEW n \in Names \ closed', NEW W \in SUBSET Windows, Located(n, W) PROVE Located(n, W)'
  <2>1. w \in W /\ Keeps(w, n) => Located(n, W)'
    BY <1>13 DEF Located
  <2>2. QED
    BY <1>4, <1>7, <1>11, <1>14, <2>1, LocatedStays
<1>15. AllLocated' /\ TakenStay'
  <2>1. \A n \in Names \ closed' : Located(n, Windows) => Located(n, Windows)'
    BY <1>14
  <2>2. ASSUME NEW v \in Windows, NEW k \in Mail(v)', k.type = "accepted", Name(k.tab) \in Names \ closed'
        PROVE  \/ k \in Mail(v) /\ (Located(Name(k.tab), Windows \ {v}) => Located(Name(k.tab), Windows \ {v})')
               \/ Located(Name(k.tab), Windows \ {v})'
    <3>1. CASE k \in Mail(v)
      BY <1>14, <2>2, <3>1
    <3>2. CASE k = m /\ v # w
      BY <1>5, <1>12, <3>2 DEF Located
    <3>3. QED
      BY <1>6, <3>1, <3>2
  <2>3. QED
    BY <1>4, <2>1, <2>2, AllStays DEF SettledInv
<1>16. QED
  BY <1>8, <1>9, <1>10, <1>15 DEF SettledInv

\* The tab was taken, and is located without this window: it may be closed here.
LEMMA HearAcceptedSettled ==
    ASSUME MoveInv, SettledInv, NEW w \in Windows, HearAccepted(w), Head(inbox[w]).source = w, page[w] = "ready"
    PROVE  SettledInv'
<1>1. SessionTypes /\ WindowTypes /\ OneTransfer
  BY BoxTypes DEF MoveInv
<1>2. PICK h \in Mail(w) : h = Head(inbox[w]) /\ h \in Messages /\ h.type = "accepted" /\ inbox[w] # << >>
  BY HeadHeard DEF HearAccepted
<1>3. /\ inbox' = Handled(w) /\ h.source = w /\ h = Accepted(h.tab, w)
      /\ pending' = [pending EXCEPT ![w] = @ \ {h.tab}] /\ tabs' = [tabs EXCEPT ![w] = @ \ {h.tab}]
      /\ dirty' = IF h.tab \in tabs[w] THEN [dirty EXCEPT ![w] = holds[w] # None] ELSE dirty
      /\ UNCHANGED <<stored, holds, timers, closed>>
  BY <1>2, Kinds DEF HearAccepted, WithoutTab, Touched, historyVars
<1>4. /\ \A v \in Windows : \A k \in Mail(v)' : k \in Mail(v)
      /\ \A v \in Windows : \A k \in Mail(v) : k \in Mail(v)' \/ (v = w /\ k = h)
  BY <1>1, <1>2, <1>3, MailHandled
<1>5. OneStep(w)
  BY <1>1, <1>3 DEF OneStep, RecordsStay, Recorded, WindowTypes
<1>6. tabs'[w] = tabs[w] \ {h.tab} /\ (~dirty'[w] /\ holds[w] # None => ~dirty[w])
  BY <1>1, <1>3 DEF WindowTypes
<1>7. Saved(w) => Saved(w)'
  BY <1>3, <1>6 DEF Saved, Shows, Named, Recorded
<1>8. OneEach' /\ CleanSaved' /\ ClaimedSaved'
  BY <1>3, <1>4, <1>5, <1>6, <1>7, StayKeeps DEF SettledInv, CleanSaved, ClaimedSaved
<1>9. OffersStand'
  BY <1>4, OffersKept DEF SettledInv
<1>10. TimersWait'
  <2>1. \A v \in Windows : timers'[v] \subseteq timers[v] /\ pending'[v] \subseteq pending[v]
    BY <1>1, <1>3 DEF WindowTypes
  <2>2. \A u, v \in Windows : \A t, s : Offer(t, s, v) \in Mail(u) => Offer(t, s, v) \in Mail(u)'
    BY <1>2, <1>4, Kinds
  <2>3. ASSUME NEW v \in Windows, NEW p \in timers'[v], p[1] \in pending'[v], Accepted(p[1], v) \in Mail(v)
        PROVE  Accepted(p[1], v) \in Mail(v)'
    <3>1. v = w => p[1] # h.tab
      BY <1>1, <1>3, <2>3 DEF WindowTypes
    <3>2. v = w => Accepted(p[1], v) # h
      BY <1>3, <3>1, Kinds
    <3>3. QED
      BY <1>4, <2>3, <3>2
  <2>4. QED
    BY <1>3, <2>1, <2>2, <2>3, TimersStay DEF SettledInv
<1>11. OffersStay(w)
  BY <1>4 DEF OffersStay
<1>12. \A n : Keeps(w, n) /\ n # Name(h.tab) => Keeps(w, n)'
  <2>1. \A n : Offered(w, n) => Offered(w, n)'
    BY <1>2, <1>3, <1>4 DEF Offered
  <2>2. \A n : Shows(w, n) /\ n # Name(h.tab) => Shows(w, n)'
    BY <1>6 DEF Shows, Named
  <2>3. QED
    BY <1>3, <2>1, <2>2 DEF Keeps
<1>13. ASSUME NEW n \in Names \ closed', NEW W \in SUBSET Windows, Located(n, W), w \notin W \/ n # Name(h.tab)
       PROVE  Located(n, W)'
  <2>1. w \in W /\ Keeps(w, n) => Located(n, W)'
    BY <1>12, <1>13 DEF Located
  <2>2. QED
    BY <1>3, <1>5, <1>11, <1>13, <2>1, LocatedStays
<1>14. \A n \in Names \ closed' : Located(n, Windows \ {w}) => Located(n, Windows \ {w})'
  BY <1>13
<1>15. AllLocated' /\ TakenStay'
  <2>1. ASSUME NEW n \in Names \ closed', Located(n, Windows) PROVE Located(n, Windows)'
    <3>1. CASE n = Name(h.tab)
      <4>1. Located(n, Windows \ {w})
        BY <1>2, <1>3, <3>1 DEF SettledInv, TakenStay
      <4>2. Located(n, Windows \ {w})'
        BY <1>14, <4>1
      <4>3. QED
        BY <4>2 DEF Located
    <3>2. QED
      BY <1>13, <2>1, <3>1
  <2>2. ASSUME NEW v \in Windows, NEW k \in Mail(v)', k.type = "accepted", k.source = v
        PROVE  k \in Mail(v) /\ v = w
    BY <1>1, <1>2, <1>3, <1>4, <2>2 DEF OneTransfer, Moving, Source
  <2>3. \A v \in Windows : \A k \in Mail(v)' :
            k.type = "accepted" /\ k.source = v /\ Name(k.tab) \in Names \ closed' =>
                k \in Mail(v) /\ (Located(Name(k.tab), Windows \ {v}) => Located(Name(k.tab), Windows \ {v})')
    BY <1>14, <2>2
  <2>4. QED
    BY <1>3, <2>1, <2>3, AllStays DEF SettledInv
<1>16. QED
  BY <1>8, <1>9, <1>10, <1>15 DEF SettledInv

\* A time that runs out loses nothing by itself.
LEMMA TimerGoes ==
    ASSUME MoveInv, TimersWait, NEW w \in Windows, NEW p \in timers[w],
           timers' = [timers EXCEPT ![w] = @ \ {p}], pending' = [pending EXCEPT ![w] = @ \ {p[1]}],
           UNCHANGED <<holds, inbox>>
    PROVE  /\ TimersWait' /\ \A v \in Windows : Mail(v)' = Mail(v)
           /\ \A v \in Windows \ {w} : timers'[v] = timers[v] /\ pending'[v] = pending[v]
<1>1. WindowTypes
  BY DEF MoveInv
<1>2. /\ \A v \in Windows \ {w} : timers'[v] = timers[v] /\ pending'[v] = pending[v]
      /\ \A v \in Windows : timers'[v] \subseteq timers[v] /\ pending'[v] \subseteq pending[v]
  BY <1>1 DEF WindowTypes
<1>3. \A v \in Windows : Mail(v)' = Mail(v)
  BY DEF Mail
<1>4. QED
  BY <1>2, <1>3, TimersStay

\* Nobody answered: nobody holds the session, or who does has the tab or its offer.
LEMMA WrittenSettled ==
    ASSUME MoveInv, SettledInv, NEW w \in Windows, NEW p \in timers[w], PushUnanswered(w, p),
           p[1] \in pending[w], p[1] \in tabs[w], p[2] \in DOMAIN stored
    PROVE  SettledInv'
<1> DEFINE t == p[1]  s == p[2]
<1>1. WindowTypes /\ OneTransfer /\ s \in Sessions /\ s # None
  BY BoxTypes, SessionAssumption DEF MoveInv, SessionTypes
<1>2. /\ HasId(t, stored[s]) /\ stored' = [stored EXCEPT ![s] = @ \cup {AsIdIn(t, @)}]
      /\ tabs' = [tabs EXCEPT ![w] = @ \ {t}] /\ dirty' = [dirty EXCEPT ![w] = holds[w] # None]
      /\ timers' = [timers EXCEPT ![w] = @ \ {p}] /\ pending' = [pending EXCEPT ![w] = @ \ {t}]
      /\ UNCHANGED <<holds, inbox, closed>>
  BY DEF PushUnanswered, WithTab, WithoutTab, Touched, historyVars
<1>3. /\ TimersWait' /\ \A v \in Windows : Mail(v)' = Mail(v)
      /\ \A v \in Windows \ {w} : timers'[v] = timers[v] /\ pending'[v] = pending[v]
  BY <1>2, TimerGoes DEF SettledInv
<1>4. /\ \A r, n : Recorded(r, n) => RecordedIn(stored', r, n)
      /\ RecordedIn(stored', s, Name(t))
  <2>1. stored'[s] = stored[s] \cup {AsIdIn(t, stored[s])} /\ DOMAIN stored' = DOMAIN stored
        /\ \A r \in DOMAIN stored : stored[r] \subseteq stored'[r]
    BY <1>2
  <2>2. Name(AsIdIn(t, stored[s])) = Name(t)
    BY <1>2, SameName
  <2>3. QED
    BY <2>1, <2>2 DEF Recorded, RecordedIn, Named
<1>5. OneStep(w)
  BY <1>1, <1>2, <1>3, <1>4 DEF OneStep, RecordsStay, WindowTypes
<1>6. tabs'[w] = tabs[w] \ {t} /\ (holds[w] # None => dirty'[w])
  BY <1>1, <1>2 DEF WindowTypes
<1>7. Saved(w) => Saved(w)'
  BY <1>2, <1>4, <1>6 DEF Saved, Shows, Named, Recorded
<1>8. OneEach' /\ CleanSaved' /\ ClaimedSaved'
  BY <1>2, <1>3, <1>5, <1>6, <1>7, StayKeeps DEF SettledInv, ClaimedSaved
<1>9. OffersStand' /\ OffersStay(w)
  BY <1>3 DEF SettledInv, OffersStand, OffersStay
<1>10. \A n : Keeps(w, n) /\ n # Name(t) => Keeps(w, n)'
  BY <1>2, <1>3, <1>6 DEF Keeps, Offered, Shows, Named
<1>11. ASSUME NEW n \in Names \ closed', NEW W \in SUBSET Windows, Located(n, W), w \notin W \/ n # Name(t)
       PROVE  Located(n, W)'
  <2>1. w \in W /\ Keeps(w, n) => Located(n, W)'
    BY <1>10, <1>11 DEF Located
  <2>2. QED
    BY <1>2, <1>5, <1>9, <1>11, <2>1, LocatedStays
<1>12. CASE ~HeldIn(s)
  <2>1. Shelved(Name(t))'
    BY <1>2, <1>4, <1>12 DEF Shelved, Recorded, RecordedIn, HeldIn
  <2>2. ASSUME NEW n \in Names \ closed', NEW W \in SUBSET Windows, Located(n, W) PROVE Located(n, W)'
    BY <1>11, <2>1, <2>2 DEF Located
  <2>3. AllLocated' /\ TakenStay'
    BY <1>2, <1>3, <2>2, NothingMisplaced DEF SettledInv
  <2>4. QED
    BY <1>3, <1>8, <1>9, <2>3 DEF SettledInv
<1>13. CASE HeldIn(s)
  <2>1. PICK u \in Windows : holds[u] = s
    BY <1>13 DEF HeldIn
  <2>2. u # w /\ (Offer(t, s, w) \in Mail(u) \/ Accepted(t, w) \in Mail(w))
    BY <1>1, <2>1 DEF SettledInv, TimersWait
  <2>3. PICK x \in Windows : \E m \in Mail(x) : Moving(m) /\ Source(m) = w /\ m.tab = t
    BY <2>2, Kinds DEF Moving, Source
  <2>4. ASSUME NEW v \in Windows, NEW k \in Mail(v)', k.type = "accepted", k.source = v
        PROVE  k \in Mail(v) /\ v = w /\ k.tab = t
    BY <1>1, <1>3, <2>3, <2>4 DEF OneTransfer, Moving, Source
  <2>5. Name(t) \in Names \ closed' => Located(Name(t), Windows)'
    <3>1. CASE Offer(t, s, w) \in Mail(u)
      <4>1. Offered(u, Name(t))'
        BY <1>2, <1>3, <2>1, <3>1, Kinds DEF Offered
      <4>2. QED
        BY <1>1, <1>2, <2>1, <4>1 DEF Located, Keeps
    <3>2. CASE Accepted(t, w) \in Mail(w)
      <4>1. PICK k \in Mail(w) : k.type = "accepted" /\ k.tab = t /\ k.source = w
        BY <3>2, Kinds
      <4>2. Name(t) \in Names \ closed' => Located(Name(t), Windows \ {w})
        BY <1>2, <4>1 DEF SettledInv, TakenStay
      <4>3. Name(t) \in Names \ closed' => Located(Name(t), Windows \ {w})'
        BY <1>11, <4>2
      <4>4. QED
        BY <4>3 DEF Located
    <3>3. QED
      BY <2>2, <3>1, <3>2
  <2>6. AllLocated' /\ TakenStay'
    <3>1. \A n \in Names \ closed' : Located(n, Windows) => Located(n, Windows)'
      BY <1>11, <2>5
    <3>2. \A n \in Names \ closed' : Located(n, Windows \ {w}) => Located(n, Windows \ {w})'
      BY <1>11
    <3>3. \A v \in Windows : \A k \in Mail(v)' :
              k.type = "accepted" /\ k.source = v /\ Name(k.tab) \in Names \ closed' =>
                  k \in Mail(v) /\ (Located(Name(k.tab), Windows \ {v}) => Located(Name(k.tab), Windows \ {v})')
      BY <2>4, <3>2
    <3>4. QED
      BY <1>2, <3>1, <3>3, AllStays DEF SettledInv
  <2>7. QED
    BY <1>3, <1>8, <1>9, <2>6 DEF SettledInv
<1>14. QED
  BY <1>12, <1>13

\* The tab is written into the record, or its time ends and nothing changes.
LEMMA UnansweredSettled ==
    ASSUME MoveInv, SettledInv, NEW w \in Windows, NEW p \in timers[w], PushUnanswered(w, p)
    PROVE  SettledInv'
<1>1. CASE p[1] \in pending[w] /\ p[1] \in tabs[w] /\ p[2] \in DOMAIN stored
  BY <1>1, WrittenSettled
<1>2. CASE ~(p[1] \in pending[w] /\ p[1] \in tabs[w] /\ p[2] \in DOMAIN stored)
  <2>1. /\ timers' = [timers EXCEPT ![w] = @ \ {p}] /\ pending' = [pending EXCEPT ![w] = @ \ {p[1]}]
        /\ UNCHANGED <<stored, holds, tabs, dirty, inbox, closed>>
    BY <1>2 DEF PushUnanswered, historyVars
  <2>2. TimersWait'
    BY <2>1, TimerGoes DEF SettledInv
  <2>3. \A n, W : Located(n, W)' <=> Located(n, W)
    BY <2>1 DEF Located, Shelved, Recorded, RecordedIn, HeldIn, Keeps, Shows, Named, Offered, Mail
  <2>4. \A v \in Windows : Saved(v)' <=> Saved(v)
    BY <2>1 DEF Saved, Shows, Recorded, RecordedIn, Named
  <2>5. OneEach' /\ OffersStand'
    BY <2>1 DEF SettledInv, OneEach, OffersStand, Mail
  <2>6. CleanSaved' /\ ClaimedSaved'
    BY <2>1, <2>4 DEF SettledInv, CleanSaved, ClaimedSaved, Mail
  <2>7. TakenStay' /\ AllLocated'
    BY <2>1, <2>3 DEF SettledInv, TakenStay, AllLocated, Mail
  <2>8. QED
    BY <2>2, <2>5, <2>6, <2>7 DEF SettledInv
<1>3. QED
  BY <1>1, <1>2

\* Messages are heard one by one.
LEMMA HearsSettled ==
    ASSUME MoveInv, SettledInv, NEW w \in Windows, Hears(w), settled'
    PROVE  SettledInv'
<1>1. CASE TakenOver(w)
  <2>1. PICK h \in Messages : /\ h = Head(inbox[w]) /\ h.type = "takeover" /\ inbox[w] # << >>
                              /\ h = Claim(h.session)
    BY <1>1, HeadHeard, MessageKinds DEF TakenOver
  <2>2. h.session \in Sessions
    BY <2>1, Kinds DEF Messages, Claim, Gone, Offer, Accepted
  <2>3. CASE IsClaimed(w)
    BY <1>1, <2>1, <2>2, <2>3, TakenOverSettled, SessionAssumption DEF IsClaimed
  <2>4. CASE ~IsClaimed(w)
    BY <1>1, <2>1, <2>4, IgnoredSettled DEF TakenOver, windowVars, historyVars
  <2>5. QED
    BY <2>3, <2>4
<1>2. CASE HearGone(w)
  <2>1. Heard(w, "gone") /\ UNCHANGED windowVars /\ closed' = closed
    BY <1>2 DEF HearGone
  <2>2. CASE \E r \in DOMAIN stored : LoadSession(w, r) /\ inbox' = Sent(Handled(w), w, Claim(r))
    BY <2>1, <2>2, HearGoneSettled
  <2>3. CASE inbox' = Handled(w) /\ UNCHANGED <<stored, pin, holds, tabs, dirty, settled>>
    BY <2>1, <2>3, HeadHeard, IgnoredSettled DEF windowVars
  <2>4. QED
    BY <1>2, <2>2, <2>3 DEF HearGone
<1>3. CASE TakePushed(w)
  BY <1>3, TakePushedSettled
<1>4. CASE IgnorePushed(w)
  <2>1. Head(inbox[w]).type = "push" /\ inbox[w] # << >> /\ Head(inbox[w]).to # holds[w]
    BY <1>4, HeadHeard DEF IgnorePushed
  <2>2. QED
    BY <1>4, <2>1, IgnoredSettled DEF IgnorePushed, windowVars
<1>5. CASE HearAccepted(w)
  <2>1. Head(inbox[w]).type = "accepted" /\ inbox[w] # << >>
    BY <1>5, HeadHeard DEF HearAccepted
  <2>2. CASE Head(inbox[w]).source = w /\ page[w] = "ready"
    BY <1>5, <2>2, HearAcceptedSettled
  <2>3. CASE ~(Head(inbox[w]).source = w /\ page[w] = "ready")
    BY <1>5, <2>1, <2>3, IgnoredSettled DEF HearAccepted, historyVars
  <2>4. QED
    BY <2>2, <2>3
<1>6. QED
  BY <1>1, <1>2, <1>3, <1>4, <1>5 DEF Hears

\* The window that deletes a session enters another, leaves, or stays.
LEMMA DeleteSettled ==
    ASSUME MoveInv, SettledInv, NEW w \in Windows, NEW s \in Sessions, DeleteSession(w, s), settled'
    PROVE  SettledInv'
<1>1. PICK left : left = [x \in DOMAIN stored \ {s} |-> stored[x]]
  OBVIOUS
<1>2. DOMAIN left \subseteq Sessions
  BY <1>1 DEF MoveInv, HolderInv, SessionTypes
<1>3. /\ Gesture(w) /\ UNCHANGED windowVars
      /\ closed' = closed \cup {Name(t) : t \in stored[s] \cup UNION {tabs[v] : v \in {u \in Windows : holds[u] = s}}}
      /\ \/ \E r \in DOMAIN left :
               /\ holds[w] \in {s, None} /\ Enter(w, r, left[r], left)
               /\ inbox' = Sent(Sent(inbox, w, Gone(s)), w, Claim(r))
         \/ /\ stored' = left
            /\ IF holds[w] = s THEN NoSession(w) ELSE UNCHANGED <<holds, pin, dirty>>
            /\ inbox' = Sent(inbox, w, Gone(s)) /\ tabs' = tabs
  BY <1>1 DEF DeleteSession
<1>4. CASE \E r \in DOMAIN left :
               /\ holds[w] \in {s, None} /\ Enter(w, r, left[r], left)
               /\ inbox' = Sent(Sent(inbox, w, Gone(s)), w, Claim(r))
  <2>1. PICK r \in DOMAIN left : /\ holds[w] \in {s, None} /\ Enter(w, r, left[r], left)
                                 /\ inbox' = Sent(Sent(inbox, w, Gone(s)), w, Claim(r))
    BY <1>4
  <2>2. r \in Sessions
    BY <1>2
  <2>3. QED
    BY <1>1, <1>3, <2>1, <2>2, DeleteEntersSettled
<1>5. CASE /\ stored' = left
           /\ IF holds[w] = s THEN NoSession(w) ELSE UNCHANGED <<holds, pin, dirty>>
           /\ inbox' = Sent(inbox, w, Gone(s)) /\ tabs' = tabs
  <2>1. CASE holds[w] = s
    BY <1>1, <1>3, <1>5, <2>1, DeleteLeavesSettled
  <2>2. CASE holds[w] # s
    <3>1. UNCHANGED <<holds, tabs, dirty, pending, timers>>
      BY <1>3, <1>5, <2>2 DEF windowVars
    <3>2. QED
      BY <1>1, <1>3, <1>5, <2>2, <3>1, DeleteStaysSettled
  <2>3. QED
    BY <2>1, <2>2
<1>6. QED
  BY <1>3, <1>4, <1>5

\* One action after the other.
LEMMA SettledMove ==
    ASSUME MoveInv, SettledInv, NEW w \in Windows, WindowStep(w), settled'
    PROVE  SettledInv'
<1>1. CASE OpenPage(w) \/ NothingPinned(w) \/ Mount(w)
  BY <1>1, PagesSettled DEF OpenPage, NothingPinned, Mount, windowVars, historyVars
<1>2. CASE Rehydrate(w)
  BY <1>2, RehydrateSettled
<1>3. CASE FlushState(w)
  BY <1>3, FlushSettled
<1>4. CASE Hears(w)
  BY <1>4, HearsSettled
<1>5. CASE \E saves \in BOOLEAN : PageGoes(w, saves)
  BY <1>5, PageGoesSettled
<1>6. CASE \E p \in timers[w] : PushUnanswered(w, p)
  BY <1>6, UnansweredSettled
<1>7. CASE \E s \in Sessions : OpenSession(w, s) \/ NewSession(w, s) \/ DeleteSession(w, s)
  BY <1>7, OpenSettled, DeleteSettled
<1>8. CASE \E t \in Tabs : CloseTab(w, t) \/ \E v \in Windows : DropTab(w, v, t)
  BY <1>8, CloseSettled, DropSettled
<1>9. CASE \E t \in Tabs : \E s \in Sessions : PushTab(w, t, s) \/ ElevateTab(w, t, s)
  BY <1>9, PushSettled, ElevateSettled
<1>10. QED
  BY <1>1, <1>2, <1>3, <1>4, <1>5, <1>6, <1>7, <1>8, <1>9 DEF WindowStep

\* Once a session has changed hands under a transfer, this is never undone.
LEMMA SettledOnce == ASSUME NEW w \in Windows, WindowStep(w), settled' PROVE settled
<1>1. CASE OpenPage(w) \/ NothingPinned(w) \/ Mount(w) \/ FlushState(w)
  BY <1>1 DEF OpenPage, NothingPinned, Mount, FlushState, historyVars
<1>2. CASE Rehydrate(w) \/ \E s \in Sessions : OpenSession(w, s) \/ NewSession(w, s) \/ DeleteSession(w, s)
  BY <1>2 DEF Rehydrate, OpenSession, NewSession, DeleteSession, LoadSession, Enter
<1>3. CASE Hears(w)
  BY <1>3 DEF Hears, TakenOver, HearGone, LoadSession, Enter, TakePushed, IgnorePushed, HearAccepted, historyVars
<1>4. CASE (\E saves \in BOOLEAN : PageGoes(w, saves)) \/ \E p \in timers[w] : PushUnanswered(w, p)
  BY <1>4 DEF PageGoes, PushUnanswered, historyVars
<1>5. CASE \E t \in Tabs :
              \/ CloseTab(w, t)
              \/ \E v \in Windows : DropTab(w, v, t)
              \/ \E s \in Sessions : PushTab(w, t, s) \/ ElevateTab(w, t, s)
  BY <1>5 DEF CloseTab, DropTab, PushTab, ElevateTab
<1>6. QED
  BY <1>1, <1>2, <1>3, <1>4, <1>5 DEF WindowStep

LEMMA LostNext == LostInv /\ [SessionsNext]_sessionVars => LostInv'
<1> SUFFICES ASSUME LostInv, [SessionsNext]_sessionVars PROVE LostInv'
  OBVIOUS
<1>1. CASE UNCHANGED sessionVars
  <2>1. /\ UNCHANGED <<stored, unused, page, pin, holds, tabs, dirty, pending, timers, inbox, closed, settled>>
        /\ MoveInv
    BY <1>1 DEF sessionVars, windowVars, historyVars, LostInv
  <2>2. HolderInv'
    BY <1>1, HolderNext DEF LostInv, MoveInv
  <2>3. WindowTypes' /\ PagesWork' /\ NotGivenOut' /\ OneTransfer'
    BY <2>1 DEF MoveInv, WindowTypes, PagesWork, Listens, NotGivenOut, HeldIn, OneTransfer, Mail
  <2>4. settled' => SettledInv'
    BY <2>1, PagesSettled DEF LostInv
  <2>5. QED
    BY <2>2, <2>3, <2>4 DEF LostInv, MoveInv
<1>2. CASE SessionsNext
  <2>1. PICK w \in Windows : WindowStep(w)
    BY <1>2 DEF SessionsNext, WindowStep
  <2>2. MoveInv'
    BY <2>1, MoveStep DEF LostInv
  <2>3. ASSUME settled' PROVE SettledInv'
    <3>1. MoveInv /\ SettledInv
      BY <2>1, <2>3, SettledOnce DEF LostInv
    <3>2. QED
      BY <2>1, <2>3, <3>1, SettledMove
  <2>4. QED
    BY <2>2, <2>3 DEF LostInv
<1>3. QED
  BY <1>1, <1>2

\* Every window starts with a session of its own, saved.
LEMMA LostInit == SessionsInit => LostInv
<1> SUFFICES ASSUME SessionsInit PROVE LostInv
  OBVIOUS
<1>1. HolderInv /\ holds \in [Windows -> Sessions \cup {None}]
  BY HolderInit DEF HolderInv, SessionTypes
<1>2. PICK full, empty \in Sessions :
          /\ full # empty
          /\ stored = [s \in {full, empty} |-> IF s = full THEN {<<n, 1>> : n \in Names} ELSE {}]
          /\ unused = Sessions \ {full, empty}
  BY DEF SessionsInit
<1>3. /\ holds \in [Windows -> DOMAIN stored \cup {None}]
      /\ \A v, w \in Windows : v # w /\ holds[v] # None => holds[v] # holds[w]
      /\ page = [w \in Windows |-> IF holds[w] = None THEN "none" ELSE "ready"]
      /\ tabs = [w \in Windows |-> IF holds[w] = None THEN {} ELSE stored[holds[w]]]
      /\ dirty = [w \in Windows |-> FALSE] /\ pending = [w \in Windows |-> {}]
      /\ timers = [w \in Windows |-> {}] /\ inbox = [w \in Windows |-> <<>>] /\ closed = {}
  BY DEF SessionsInit
<1>4. \A w \in Windows : Mail(w) = {} /\ timers[w] = {}
  BY <1>3, NoMail
<1>5. WindowTypes
  BY <1>3 DEF WindowTypes
<1>6. PagesWork
  BY <1>3 DEF PagesWork
<1>7. NotGivenOut
  BY <1>2, <1>3, SessionAssumption DEF NotGivenOut, HeldIn
<1>8. OneTransfer
  BY <1>4 DEF OneTransfer
<1>9. OneEach
  BY <1>3 DEF OneEach
<1>10. \A w \in Windows : holds[w] # None => tabs[w] = stored[holds[w]] /\ holds[w] \in DOMAIN stored
  BY <1>3
<1>11. CleanSaved
  BY <1>10 DEF CleanSaved, Saved, Shows, Recorded, RecordedIn
<1>12. ClaimedSaved /\ OffersStand /\ TimersWait /\ TakenStay
  BY <1>4 DEF ClaimedSaved, OffersStand, TimersWait, TakenStay
<1>13. AllLocated
  <2>1. ASSUME NEW n \in Names PROVE Located(n, Windows)
    <3>1. full \in DOMAIN stored /\ Named(stored[full], n)
      <4>1. <<n, 1>> \in stored[full] /\ Name(<<n, 1>>) = n
        BY <1>2 DEF Name
      <4>2. QED
        BY <1>2, <4>1 DEF Named
    <3>2. CASE HeldIn(full)
      BY <1>2, <1>10, <3>1, <3>2, SessionAssumption DEF HeldIn, Located, Keeps, Shows
    <3>3. CASE ~HeldIn(full)
      BY <3>1, <3>3 DEF Located, Shelved, Recorded, RecordedIn
    <3>4. QED
      BY <3>2, <3>3
  <2>2. QED
    BY <2>1 DEF AllLocated
<1>14. QED
  BY <1>1, <1>5, <1>6, <1>7, <1>8, <1>9, <1>11, <1>12, <1>13 DEF LostInv, MoveInv, SettledInv

\* However many windows open, reload, close and delete sessions, and move tabs in
\* any order, a tab the user did not close is in a window, in a record, or offered
\* to the window that holds its session, as long as no session changes hands while
\* a tab is on its way to it.
THEOREM TabsAreNeverLost == SessionsSpec => []NeverLostWhenSettled
<1>1. LostInv => NeverLostWhenSettled
  BY Located_Safe
<1>2. QED
  BY <1>1, LostInit, LostNext, PTL DEF SessionsSpec
=============================================================================
