-------------------------- MODULE TableEngine_proofs --------------------------
(***************************************************************************)
(* Proofs about TableEngine: the inductive invariant and what follows.     *)
(***************************************************************************)
EXTENDS TableEngine, TLAPS

\* Ids are handed out in order.
RowsBelow ==
    \A t \in Tables, k \in Keys, i \in Nat : IsRow(t, k, i) => i < nextId[t]

RowsUnique ==
    \A t \in Tables, k, l \in Keys, i, j \in Nat :
        IsRow(t, k, i) /\ IsRow(t, l, j) => (k = l <=> i = j)

\* The cache only knows rows that exist, and knows every row not stored yet.
IndexSound ==
    \A t \in Tables, k \in Keys :
        /\ index[t][k] # NoId => IsRow(t, k, index[t][k])
        /\ queued[t][k] # NoId => index[t][k] = queued[t][k]
        /\ staged[t][k] # NoId => index[t][k] = staged[t][k]

\* A committed key is stored, or its row is in the pending batch.
MemoSound ==
    \A t \in Tables, k \in Keys :
        /\ memo[t][k] # NoId =>
              <<k, memo[t][k]>> \in db[t] \/ (k \in added[t] /\ staged[t][k] = memo[t][k])
        /\ staged[t][k] # NoId => memo[t][k] = staged[t][k]

\* Transactions that are over and did not fail have stored their rows.
BatchSound ==
    /\ \A t \in Tables, k \in Keys : k \in added[t] => staged[t][k] # NoId
    /\ \A t \in Tables, k \in Keys :
          k \in added[t] \ toWrite[t] /\ t \notin failed => <<k, staged[t][k]>> \in db[t]
    /\ \A t \in purge, k \in Keys : queued[t][k] = NoId
    /\ purge # {} => ~Free

\* What is memoized as absent is absent, and not about to be written.
AbsentTrue ==
    \A t \in Tables, k \in Keys : k \in absent[t] => k \notin added[t] /\ ~Found(t, k)

CompleteTrue ==
    \A t \in complete, k \in Keys, i \in Nat : IsRow(t, k, i) => index[t][k] = i

PromisedKept ==
    \A t \in Tables, k \in Keys, i \in Nat : <<k, i>> \in promised[t] => IsRow(t, k, i)

Inv ==
    /\ TypeOK
    /\ RowsBelow /\ RowsUnique /\ IndexSound /\ MemoSound
    /\ BatchSound /\ AbsentTrue /\ CompleteTrue /\ PromisedKept
USE EngineAssumptions DEF NoId, Ids

LEMMA DbIdFound ==
    ASSUME TypeOK, NEW t \in Tables, NEW k \in Keys
    PROVE  /\ DbId(t, k) \in Nat
           /\ Found(t, k) => DbId(t, k) # NoId /\ <<k, DbId(t, k)>> \in db[t]
           /\ ~Found(t, k) => DbId(t, k) = NoId
<1>1. CASE Found(t, k)
  <2>1. PICK row \in db[t] : row[1] = k
    BY <1>1 DEF Found
  <2> DEFINE r == CHOOSE x \in db[t] : x[1] = k
  <2>2. r \in db[t] /\ r[1] = k
    BY <2>1
  <2>3. DbId(t, k) = r[2]
    BY <1>1 DEF DbId
  <2> HIDE DEF r
  <2>4. r \in Keys \X Ids
    BY <2>2 DEF TypeOK
  <2>5. r = <<k, r[2]>> /\ r[2] \in Nat /\ r[2] # NoId
    BY <2>2, <2>4
  <2> QED
    BY <1>1, <2>2, <2>3, <2>5
<1>2. CASE ~Found(t, k)
  BY <1>2 DEF DbId
<1> QED
  BY <1>1, <1>2


LEMMA InitInv == Init => Inv
<1> SUFFICES ASSUME Init PROVE Inv
  OBVIOUS
<1> USE DEF Init, NoBatch, Empty, None
<1>1. TypeOK
  BY DEF TypeOK, BatchTables, NoBatch
<1>2. RowsBelow /\ RowsUnique /\ CompleteTrue
  BY DEF RowsBelow, RowsUnique, CompleteTrue, IsRow
<1>3. IndexSound /\ MemoSound /\ BatchSound
  BY DEF IndexSound, MemoSound, BatchSound
<1>4. AbsentTrue /\ PromisedKept
  BY DEF AbsentTrue, PromisedKept
<1> QED
  BY <1>1, <1>2, <1>3, <1>4 DEF Inv

\* The types of single entries.
LEMMA Entries ==
    ASSUME TypeOK
    PROVE  /\ complete \subseteq Tables /\ purge \subseteq Tables
           /\ \A t \in Tables, k \in Keys :
                 /\ queued[t][k] \in Nat /\ staged[t][k] \in Nat
                 /\ index[t][k] \in Nat /\ memo[t][k] \in Nat
           /\ \A t \in Tables : nextId[t] \in Nat /\ nextId[t] # NoId
           /\ \A t \in Tables, k \in Keys, i \in Nat : IsRow(t, k, i) => i # NoId
BY DEF TypeOK, IsRow

\* What an action that leaves the batch alone leaves alone.
LEMMA SameBatch ==
    ASSUME UNCHANGED batchVars
    PROVE  /\ NoBatch' <=> NoBatch
           /\ BatchTables' = BatchTables
           /\ writing' = writing /\ staged' = staged /\ added' = added
           /\ toWrite' = toWrite /\ failed' = failed /\ purge' = purge
BY DEF batchVars, NoBatch, BatchTables, Empty, None

\* A step that gives no key an id and takes none away.
SameIds == \A t \in Tables, k \in Keys, i \in Nat : IsRow(t, k, i)' <=> IsRow(t, k, i)
USE DEF SameIds

\* A step that keeps the rows and the ids handed out, and adds entries of the
\* cache only for rows.
LEMMA SameRows ==
    ASSUME Inv, complete' = complete, nextId' = nextId, UNCHANGED batchVars, queued' = queued,
           SameIds,
           \A t \in Tables, k \in Keys :
              index'[t][k] = index[t][k] \/ (index'[t][k] \in Nat /\ IsRow(t, k, index'[t][k]))
    PROVE  RowsBelow' /\ RowsUnique' /\ IndexSound' /\ CompleteTrue'
<1> USE Entries, SameBatch DEF Inv
<1>1. RowsBelow' /\ RowsUnique'
  BY DEF RowsBelow, RowsUnique
<1>2. ASSUME NEW u \in Tables, NEW l \in Keys, NEW j \in Nat, IsRow(u, l, j), index[u][l] = j
      PROVE  index'[u][l] = j
  BY <1>2 DEF RowsUnique
<1>3. CompleteTrue'
  BY <1>2 DEF CompleteTrue
<1>4. ASSUME NEW u \in Tables, NEW l \in Keys
      PROVE  /\ index'[u][l] # NoId => IsRow(u, l, index[u][l])'
             /\ queued'[u][l] # NoId => index'[u][l] = queued'[u][l]
             /\ staged'[u][l] # NoId => index'[u][l] = staged'[u][l]
  <2>1. index[u][l] # NoId => IsRow(u, l, index[u][l])
    BY DEF IndexSound
  <2>2. index'[u][l] # NoId => IsRow(u, l, index[u][l])'
    BY <2>1 DEF IsRow
  <2>3. queued[u][l] # NoId => IsRow(u, l, queued[u][l]) /\ index[u][l] = queued[u][l]
    BY DEF IsRow, IndexSound
  <2>4. staged[u][l] # NoId => IsRow(u, l, staged[u][l]) /\ index[u][l] = staged[u][l]
    BY DEF IsRow, IndexSound
  <2>5. queued[u][l] # NoId => index'[u][l] = queued[u][l]
    BY <1>2, <2>3
  <2>6. staged[u][l] # NoId => index'[u][l] = staged[u][l]
    BY <1>2, <2>4
  <2> QED
    BY <2>2, <2>5, <2>6
<1>5. IndexSound'
  BY <1>4 DEF IndexSound
<1> QED
  BY <1>1, <1>3, <1>5

LEMMA SetKnownStep ==
    ASSUME Inv, NEW t \in Tables, NEW k \in Keys, SetKnown(t, k)
    PROVE  Inv' /\ SameIds
<1> DEFINE i == KnownId(t, k)
<1> USE DEF Inv
<1>1. IsRow(t, k, i) /\ i \in Ids
  BY DEF TypeOK, IndexSound, MemoSound, KnownId, IsRow, SetKnown
<1>2. /\ UNCHANGED batchVars /\ UNCHANGED faultVars
      /\ db' = db /\ queued' = queued /\ memo' = memo /\ absent' = absent
      /\ complete' = complete /\ nextId' = nextId
  BY DEF SetKnown
<1>3. promised' = [promised EXCEPT ![t] = @ \cup {<<k, i>>}]
  BY DEF SetKnown, Promise
<1>4. /\ index' \in [Tables -> [Keys -> Nat]]
      /\ \A u \in Tables, l \in Keys :
            index'[u][l] = index[u][l] \/ (u = t /\ l = k /\ index'[u][l] = i)
  BY <1>1 DEF SetKnown, TypeOK
<1> HIDE DEF i
<1> USE SameBatch
<1>5. SameIds
  BY <1>2 DEF IsRow
<1>6. TypeOK'
  <2>1. promised' \in [Tables -> SUBSET (Keys \X Ids)]
    BY <1>1, <1>3 DEF TypeOK
  <2> QED
    BY <1>2, <1>4, <2>1 DEF TypeOK, faultVars
<1>7. RowsBelow' /\ RowsUnique' /\ IndexSound' /\ CompleteTrue'
  <2>1. \A u \in Tables, l \in Keys :
           index'[u][l] = index[u][l] \/ (index'[u][l] \in Nat /\ IsRow(u, l, index'[u][l]))
    BY <1>1, <1>4
  <2> QED
    BY <1>2, <1>5, <2>1, SameRows
<1>8. MemoSound' /\ BatchSound' /\ AbsentTrue'
  BY <1>2 DEF MemoSound, BatchSound, AbsentTrue, Found, Free
<1>9. PromisedKept'
  BY <1>1, <1>3, <1>5 DEF PromisedKept, TypeOK
<1> QED
  BY <1>5, <1>6, <1>7, <1>8, <1>9

LEMMA SetStoredStep ==
    ASSUME Inv, NEW t \in Tables, NEW k \in Keys, SetStored(t, k)
    PROVE  Inv' /\ SameIds
<1> DEFINE i == DbId(t, k)
<1> USE DEF Inv
<1>1. i \in Ids /\ <<k, i>> \in db[t]
  BY DbIdFound DEF SetStored
<1>2. /\ UNCHANGED batchVars /\ UNCHANGED faultVars
      /\ db' = db /\ queued' = queued /\ absent' = absent
      /\ complete' = complete /\ nextId' = nextId
  BY DEF SetStored
<1>3. promised' = [promised EXCEPT ![t] = @ \cup {<<k, i>>}]
  BY DEF SetStored, Promise
<1>4. /\ index' \in [Tables -> [Keys -> Nat]]
      /\ \A u \in Tables, l \in Keys :
            index'[u][l] = index[u][l] \/ (u = t /\ l = k /\ index'[u][l] = i)
  BY <1>1 DEF SetStored, TypeOK
<1>5. /\ memo' \in [Tables -> [Keys -> Nat]]
      /\ \A u \in Tables, l \in Keys :
            memo'[u][l] = memo[u][l] \/ (u = t /\ l = k /\ memo'[u][l] = i)
  BY <1>1 DEF SetStored, TypeOK
<1>6. memo[t][k] = NoId /\ staged[t][k] = NoId
  <2>1. memo[t][k] = NoId
    BY DEF SetStored, NeedsRead
  <2> QED
    BY <2>1 DEF MemoSound
<1> HIDE DEF i
<1> USE SameBatch
<1>7. SameIds
  BY <1>2 DEF IsRow
<1>8. TypeOK'
  <2>1. promised' \in [Tables -> SUBSET (Keys \X Ids)]
    BY <1>1, <1>3 DEF TypeOK
  <2> QED
    BY <1>2, <1>4, <1>5, <2>1 DEF TypeOK, faultVars
<1>9. RowsBelow' /\ RowsUnique' /\ IndexSound' /\ CompleteTrue'
  <2>1. IsRow(t, k, i)
    BY <1>1 DEF IsRow
  <2>2. \A u \in Tables, l \in Keys :
           index'[u][l] = index[u][l] \/ (index'[u][l] \in Nat /\ IsRow(u, l, index'[u][l]))
    BY <1>1, <1>4, <2>1
  <2> QED
    BY <1>2, <1>7, <2>2, SameRows
<1>10. MemoSound'
  <2> SUFFICES ASSUME NEW u \in Tables, NEW l \in Keys
               PROVE  /\ memo'[u][l] # NoId =>
                            \/ <<l, memo'[u][l]>> \in db'[u]
                            \/ l \in added'[u] /\ staged'[u][l] = memo'[u][l]
                      /\ staged'[u][l] # NoId => memo'[u][l] = staged'[u][l]
    BY DEF MemoSound
  <2> QED
    BY <1>1, <1>2, <1>5, <1>6 DEF MemoSound
<1>11. BatchSound' /\ AbsentTrue'
  BY <1>2 DEF BatchSound, AbsentTrue, Found, Free
<1>12. PromisedKept'
  BY <1>1, <1>3, <1>7 DEF PromisedKept, TypeOK, IsRow
<1> QED
  BY <1>7, <1>8, <1>9, <1>10, <1>11, <1>12

LEMMA GetReadsStep ==
    ASSUME Inv, NEW t \in Tables, NEW k \in Keys, GetReads(t, k)
    PROVE  Inv' /\ SameIds
<1> DEFINE i == DbId(t, k)
<1> USE DEF Inv
<1>1. i \in Nat /\ (i # NoId => <<k, i>> \in db[t])
  BY DbIdFound
<1>2. /\ UNCHANGED batchVars /\ UNCHANGED faultVars
      /\ db' = db /\ queued' = queued /\ index' = index
      /\ complete' = complete /\ nextId' = nextId /\ promised' = promised
  BY DEF GetReads
<1>3. /\ absent' \in [Tables -> SUBSET Keys]
      /\ \A u \in Tables, l \in Keys : l \in absent'[u] =>
            l \in absent[u] \/ (u = t /\ l = k /\ ~Found(t, k))
  BY DEF GetReads, TypeOK
<1>4. /\ memo' \in [Tables -> [Keys -> Nat]]
      /\ \A u \in Tables, l \in Keys :
            memo'[u][l] = memo[u][l] \/ (u = t /\ l = k /\ memo'[u][l] = i)
  BY <1>1 DEF GetReads, TypeOK
<1>5. staged[t][k] = NoId /\ k \notin added[t]
  <2>1. memo[t][k] = NoId
    BY DEF GetReads, NeedsRead
  <2> QED
    BY <2>1 DEF MemoSound, BatchSound
<1> HIDE DEF i
<1> USE SameBatch
<1>6. SameIds
  BY <1>2 DEF IsRow
<1>7. TypeOK'
  BY <1>2, <1>3, <1>4 DEF TypeOK, faultVars
<1>8. RowsBelow' /\ RowsUnique' /\ IndexSound' /\ CompleteTrue'
  BY <1>2, <1>6, SameRows
<1>9. MemoSound'
  <2> SUFFICES ASSUME NEW u \in Tables, NEW l \in Keys
               PROVE  /\ memo'[u][l] # NoId =>
                            \/ <<l, memo'[u][l]>> \in db'[u]
                            \/ l \in added'[u] /\ staged'[u][l] = memo'[u][l]
                      /\ staged'[u][l] # NoId => memo'[u][l] = staged'[u][l]
    BY DEF MemoSound
  <2> QED
    BY <1>1, <1>2, <1>4, <1>5 DEF MemoSound
<1>10. BatchSound' /\ PromisedKept'
  BY <1>2, <1>6 DEF BatchSound, PromisedKept, Free
<1>11. AbsentTrue'
  BY <1>2, <1>3, <1>5 DEF AbsentTrue, Found
<1> QED
  BY <1>6, <1>7, <1>8, <1>9, <1>10, <1>11

\* A key that set() finds nowhere has no row.
LEMMA NewKey ==
    ASSUME Inv, NEW t \in Tables, NEW k \in Keys, KnownId(t, k) = NoId,
           NeedsRead(t, k) => ~Found(t, k)
    PROVE  /\ index[t][k] = NoId /\ staged[t][k] = NoId /\ queued[t][k] = NoId
           /\ memo[t][k] = NoId /\ k \notin added[t] /\ ~Found(t, k)
           /\ \A i \in Nat : ~IsRow(t, k, i)
<1> USE Entries DEF Inv
<1>1. index[t][k] = NoId /\ staged[t][k] = NoId /\ queued[t][k] = NoId
  BY DEF KnownId, IndexSound
<1>2. memo[t][k] = NoId /\ k \notin added[t]
  BY <1>1 DEF KnownId, BatchSound
<1>3. ~Found(t, k)
  <2>1. CASE t \in complete
    <3>1. \A i \in Nat : ~IsRow(t, k, i) \/ i = NoId
      BY <1>1, <2>1 DEF CompleteTrue
    <3> QED
      BY <3>1, DbIdFound DEF IsRow
  <2>2. CASE k \in absent[t]
    BY <2>2 DEF AbsentTrue
  <2> QED
    BY <1>1, <1>2, <2>1, <2>2 DEF NeedsRead
<1> QED
  BY <1>1, <1>2, <1>3 DEF IsRow, Found

LEMMA SetNewStep ==
    ASSUME Inv, NEW t \in Tables, NEW k \in Keys, SetNew(t, k)
    PROVE  /\ Inv'
           /\ db' = db /\ \A i \in Nat : ~IsRow(t, k, i)
           /\ nextId[t] # NoId /\ \A l \in Keys : ~IsRow(t, l, nextId[t])
           /\ \A u \in Tables, l \in Keys, j \in Nat :
                 IsRow(u, l, j)' <=> IsRow(u, l, j) \/ (u = t /\ l = k /\ j = nextId[t])
<1> DEFINE n == nextId[t]
<1> USE DEF Inv
<1>1. /\ index[t][k] = NoId /\ staged[t][k] = NoId /\ queued[t][k] = NoId
      /\ memo[t][k] = NoId /\ k \notin added[t] /\ ~Found(t, k)
      /\ \A i \in Nat : ~IsRow(t, k, i)
  <2>1. KnownId(t, k) = NoId /\ (NeedsRead(t, k) => ~Found(t, k))
    BY DEF SetNew
  <2> QED
    BY <2>1, NewKey
<1>2. /\ UNCHANGED batchVars /\ UNCHANGED faultVars
      /\ db' = db /\ memo' = memo /\ complete' = complete
  BY DEF SetNew
<1>3. n \in Ids
  BY Entries
<1>4. promised' = [promised EXCEPT ![t] = @ \cup {<<k, n>>}]
  BY DEF SetNew, Promise
<1>5. /\ index' \in [Tables -> [Keys -> Nat]] /\ queued' \in [Tables -> [Keys -> Nat]]
      /\ \A u \in Tables, l \in Keys :
            IF u = t /\ l = k THEN index'[u][l] = n /\ queued'[u][l] = n
            ELSE index'[u][l] = index[u][l] /\ queued'[u][l] = queued[u][l]
  BY <1>3 DEF SetNew, TypeOK
<1>6. /\ nextId' \in [Tables -> Ids]
      /\ \A u \in Tables : nextId'[u] = IF u = t THEN n + 1 ELSE nextId[u]
  BY <1>3 DEF SetNew, TypeOK
<1>7. /\ absent' \in [Tables -> SUBSET Keys]
      /\ \A u \in Tables, l \in Keys : l \in absent'[u] =>
            l \in absent[u] \/ (u = t /\ l = k)
  BY DEF SetNew, TypeOK
<1>8. purge = {}
  <2>1. Free
    BY DEF SetNew
  <2> QED
    BY <2>1 DEF BatchSound
<1> HIDE DEF n
<1> USE SameBatch
<1>9. \A u \in Tables, l \in Keys, j \in Nat :
         IsRow(u, l, j)' <=> IsRow(u, l, j) \/ (u = t /\ l = k /\ j = n)
  BY <1>1, <1>2, <1>3, <1>5 DEF IsRow
<1>10. \A l \in Keys, j \in Nat : IsRow(t, l, j) => j < n /\ l # k
  BY <1>1 DEF RowsBelow, n
<1>11. TypeOK'
  <2>1. promised' \in [Tables -> SUBSET (Keys \X Ids)]
    BY <1>3, <1>4 DEF TypeOK
  <2>2. writing = "none" => NoBatch
    BY DEF TypeOK
  <2> QED
    BY <1>2, <1>5, <1>6, <1>7, <2>1, <2>2 DEF TypeOK, faultVars
<1>12. RowsBelow'
  <2> SUFFICES ASSUME NEW u \in Tables, NEW l \in Keys, NEW j \in Nat, IsRow(u, l, j)'
               PROVE  j < nextId'[u]
    BY DEF RowsBelow
  <2>1. CASE u = t
    BY <1>3, <1>6, <1>9, <1>10, <2>1
  <2>2. CASE u # t
    BY <1>6, <1>9, <2>2 DEF RowsBelow
  <2> QED
    BY <2>1, <2>2
<1>13. RowsUnique'
  <2> SUFFICES ASSUME NEW u \in Tables, NEW l \in Keys, NEW m \in Keys,
                      NEW i \in Nat, NEW j \in Nat, IsRow(u, l, i)', IsRow(u, m, j)'
               PROVE  l = m <=> i = j
    BY DEF RowsUnique
  <2>1. CASE IsRow(u, l, i) /\ IsRow(u, m, j)
    BY <2>1 DEF RowsUnique
  <2> QED
    BY <1>3, <1>9, <1>10, <2>1
<1>14. IndexSound'
  <2> SUFFICES ASSUME NEW u \in Tables, NEW l \in Keys
               PROVE  /\ index'[u][l] # NoId => IsRow(u, l, index[u][l])'
                      /\ queued'[u][l] # NoId => index'[u][l] = queued'[u][l]
                      /\ staged'[u][l] # NoId => index'[u][l] = staged'[u][l]
    BY DEF IndexSound
  <2>1. CASE u = t /\ l = k
    <3>1. index'[u][l] = n /\ queued'[u][l] = n /\ staged'[u][l] = NoId
      BY <1>1, <1>2, <1>5, <2>1
    <3> QED
      BY <1>3, <3>1 DEF IsRow
  <2>2. CASE ~(u = t /\ l = k)
    BY <1>2, <1>5, <2>2 DEF IsRow, IndexSound
  <2> QED
    BY <2>1, <2>2
<1>15. MemoSound' /\ BatchSound'
  BY <1>2, <1>8 DEF MemoSound, BatchSound
<1>16. AbsentTrue'
  BY <1>1, <1>2, <1>7 DEF AbsentTrue, Found
<1>17. CompleteTrue'
  <2> SUFFICES ASSUME NEW u \in complete, NEW l \in Keys, NEW j \in Nat, IsRow(u, l, j)'
               PROVE  index'[u][l] = j
    BY <1>2 DEF CompleteTrue
  <2> QED
    BY <1>1, <1>5, <1>9, Entries DEF CompleteTrue
<1>18. PromisedKept'
  BY <1>3, <1>4, <1>9 DEF PromisedKept, TypeOK
<1> QED
  <2>1. Inv'
    BY <1>11, <1>12, <1>13, <1>14, <1>15, <1>16, <1>17, <1>18
  <2> QED
    BY <1>1, <1>2, <1>3, <1>9, <1>10, <2>1 DEF n

\* What there is when no batch is pending.
LEMMA Idle ==
    ASSUME TypeOK, writing = "none"
    PROVE  /\ \A t \in Tables, k \in Keys : staged[t][k] = NoId /\ k \notin added[t]
           /\ toWrite = None /\ failed = {} /\ purge = {}
<1>1. NoBatch
  BY DEF TypeOK
<1> QED
  BY <1>1 DEF NoBatch, Empty, None

LEMMA TakeStagedStep ==
    ASSUME Inv, NEW ts \in SUBSET Tables, writing = "none", TakeStaged(ts),
           db' = db, index' = index, complete' = complete, nextId' = nextId,
           failed' = failed, promised' = promised, UNCHANGED faultVars,
           writing' \in {"background", "all", "one"}, purge' \subseteq ts,
           purge' # {} => writing' # "background"
    PROVE  Inv' /\ SameIds
<1> DEFINE new(t) == IF t \in ts THEN {k \in StagedKeys(t) : memo[t][k] = NoId} ELSE {}
<1> USE Entries, Idle DEF Inv
<1>1. /\ staged' \in [Tables -> [Keys -> Nat]] /\ queued' \in [Tables -> [Keys -> Nat]]
      /\ \A t \in Tables, k \in Keys :
            IF t \in ts THEN staged'[t][k] = queued[t][k] /\ queued'[t][k] = NoId
            ELSE staged'[t][k] = NoId /\ queued'[t][k] = queued[t][k]
  BY DEF TakeStaged, TypeOK, Empty
<1>2. \A t \in Tables, k \in Keys :
         k \in new(t) <=> t \in ts /\ queued[t][k] # NoId /\ memo[t][k] = NoId
  BY DEF StagedKeys
<1>3. added' \in [Tables -> SUBSET Keys] /\ \A t \in Tables : added'[t] = new(t)
  BY DEF TakeStaged, StagedKeys
<1>4. toWrite' = added'
  BY DEF TakeStaged
<1>5. /\ memo' \in [Tables -> [Keys -> Nat]]
      /\ \A t \in Tables, k \in Keys :
            memo'[t][k] = IF k \in new(t) THEN queued[t][k] ELSE memo[t][k]
  BY DEF TakeStaged, TypeOK
<1>6. absent' \in [Tables -> SUBSET Keys] /\ \A t \in Tables : absent'[t] = absent[t] \ new(t)
  BY DEF TakeStaged, TypeOK
<1> HIDE DEF new
<1>7. \A t \in Tables, k \in Keys : memo[t][k] # NoId => <<k, memo[t][k]>> \in db[t]
  BY DEF MemoSound
<1>8. \A t \in Tables, k \in Keys :
         queued[t][k] # NoId /\ memo[t][k] # NoId => queued[t][k] = memo[t][k]
  <2> SUFFICES ASSUME NEW t \in Tables, NEW k \in Keys, queued[t][k] # NoId, memo[t][k] # NoId
               PROVE  queued[t][k] = memo[t][k]
    OBVIOUS
  <2>1. IsRow(t, k, queued[t][k]) /\ IsRow(t, k, memo[t][k])
    BY <1>7 DEF IsRow
  <2> QED
    BY <2>1 DEF RowsUnique
<1>9. SameIds
  BY <1>1 DEF IsRow
<1>10. TypeOK'
  <2>1. failed' \subseteq BatchTables'
    OBVIOUS
  <2>2. complete' \subseteq Tables /\ purge' \subseteq Tables
    OBVIOUS
  <2> QED
    BY <1>1, <1>3, <1>4, <1>5, <1>6, <2>1, <2>2 DEF TypeOK, faultVars
<1>11. RowsBelow' /\ RowsUnique' /\ CompleteTrue' /\ PromisedKept'
  BY <1>9 DEF RowsBelow, RowsUnique, CompleteTrue, PromisedKept
<1>12. IndexSound'
  <2> SUFFICES ASSUME NEW t \in Tables, NEW k \in Keys
               PROVE  /\ index[t][k] # NoId => IsRow(t, k, index[t][k])'
                      /\ queued'[t][k] # NoId => index[t][k] = queued'[t][k]
                      /\ staged'[t][k] # NoId => index[t][k] = staged'[t][k]
    BY DEF IndexSound
  <2> QED
    BY <1>1 DEF IndexSound, IsRow
<1>13. MemoSound'
  <2> SUFFICES ASSUME NEW t \in Tables, NEW k \in Keys
               PROVE  /\ memo'[t][k] # NoId =>
                            \/ <<k, memo'[t][k]>> \in db[t]
                            \/ k \in added'[t] /\ staged'[t][k] = memo'[t][k]
                      /\ staged'[t][k] # NoId => memo'[t][k] = staged'[t][k]
    BY DEF MemoSound
  <2>1. CASE k \in new(t)
    BY <1>1, <1>2, <1>3, <1>5, <2>1
  <2>2. CASE k \notin new(t)
    <3>1. /\ memo'[t][k] = memo[t][k]
          /\ memo'[t][k] # NoId => <<k, memo'[t][k]>> \in db'[t]
      BY <1>5, <1>7, <2>2
    <3>2. staged'[t][k] # NoId => memo[t][k] = staged'[t][k]
      BY <1>1, <1>2, <1>8, <2>2
    <3> QED
      BY <3>1, <3>2
  <2> QED
    BY <2>1, <2>2
<1>14. BatchSound'
  BY <1>1, <1>2, <1>3, <1>4 DEF BatchSound, Free
<1>15. AbsentTrue'
  BY <1>3, <1>6 DEF AbsentTrue, Found
<1> QED
  BY <1>9, <1>10, <1>11, <1>12, <1>13, <1>14, <1>15

LEMMA CommitSteps == Inv /\ CommitStep => Inv' /\ SameIds /\ db' = db
<1>1. ASSUME Inv, CommitInBackground PROVE Inv' /\ SameIds /\ db' = db
  BY <1>1, TakeStagedStep DEF CommitInBackground
<1>2. ASSUME Inv, NEW ts \in SUBSET Tables, NEW drop \in BOOLEAN,
             NEW call \in {"all", "one"}, CommitAndWait(call, ts, drop)
      PROVE  Inv' /\ SameIds /\ db' = db
  BY <1>2, TakeStagedStep DEF CommitAndWait
<1> QED
  BY <1>1, <1>2 DEF CommitStep

\* Some of the rows of a table reach the database, and may still count as
\* not written.
LEMMA StoreStep ==
    ASSUME Inv, NEW t \in Tables, NEW ks \in SUBSET Keys, ks # {}, ks \subseteq toWrite[t],
           db' = [db EXCEPT ![t] = @ \cup Payload(t, ks)],
           toWrite' = toWrite \/ toWrite' = [toWrite EXCEPT ![t] = @ \ ks],
           queued' = queued, UNCHANGED cacheVars, nextId' = nextId, writing' = writing,
           staged' = staged, added' = added, failed' = failed, purge' = purge,
           promised' = promised, failures' = failures, lostAcks' \in Nat
    PROVE  Inv' /\ SameIds
<1> USE Entries DEF Inv
<1>1. ks \subseteq added[t] /\ writing # "none"
  BY Idle DEF TypeOK, None
<1>2. index' = index /\ memo' = memo /\ absent' = absent /\ complete' = complete
  BY DEF cacheVars
<1>3. Payload(t, ks) \subseteq Keys \X Ids
  BY <1>1 DEF Payload, BatchSound, TypeOK
<1>4. \A k \in Keys, i \in Nat : <<k, i>> \in Payload(t, ks) <=> k \in ks /\ i = staged[t][k]
  BY DEF Payload
<1>5. /\ db' \in [Tables -> SUBSET (Keys \X Ids)]
      /\ \A u \in Tables : db'[u] = IF u = t THEN db[u] \cup Payload(t, ks) ELSE db[u]
  BY <1>3 DEF TypeOK
<1>6. \A u \in Tables, k \in Keys, i \in Nat :
         <<k, i>> \in db'[u] <=> <<k, i>> \in db[u] \/ (u = t /\ k \in ks /\ i = staged[t][k])
  BY <1>4, <1>5
<1>7. SameIds
  BY <1>6 DEF IsRow
<1>8. /\ toWrite' \in [Tables -> SUBSET Keys]
      /\ \A u \in Tables : toWrite'[u] \subseteq toWrite[u] /\ toWrite[u] \subseteq toWrite'[u] \cup ks
      /\ \A u \in Tables : u # t => toWrite'[u] = toWrite[u]
  <2>1. CASE toWrite' = toWrite
    BY <2>1 DEF TypeOK
  <2>2. CASE toWrite' = [toWrite EXCEPT ![t] = @ \ ks]
    <3>1. /\ toWrite' \in [Tables -> SUBSET Keys]
          /\ \A u \in Tables : toWrite'[u] = IF u = t THEN toWrite[u] \ ks ELSE toWrite[u]
      BY <2>2 DEF TypeOK
    <3> QED
      BY <3>1
  <2> QED
    BY <2>1, <2>2
<1>9. TypeOK'
  <2>1. BatchTables' = BatchTables
    BY DEF BatchTables
  <2>2. writing' # "none"
    BY <1>1
  <2>3. \A u \in Tables : toWrite'[u] \subseteq added'[u]
    BY <1>8 DEF TypeOK
  <2> QED
    BY <1>2, <1>5, <1>8, <2>1, <2>2, <2>3 DEF TypeOK
<1>10. RowsBelow' /\ RowsUnique' /\ CompleteTrue' /\ PromisedKept'
  BY <1>2, <1>7 DEF RowsBelow, RowsUnique, CompleteTrue, PromisedKept
<1>11. IndexSound'
  <2> SUFFICES ASSUME NEW u \in Tables, NEW k \in Keys
               PROVE  /\ index[u][k] # NoId => IsRow(u, k, index[u][k])'
                      /\ queued[u][k] # NoId => index[u][k] = queued[u][k]
                      /\ staged[u][k] # NoId => index[u][k] = staged[u][k]
    BY <1>2 DEF IndexSound
  <2> QED
    BY <1>2, <1>6 DEF IndexSound, IsRow
<1>12. MemoSound'
  BY <1>2, <1>6 DEF MemoSound
<1>13. BatchSound'
  BY <1>6, <1>8 DEF BatchSound, Free
<1>14. AbsentTrue'
  <2> SUFFICES ASSUME NEW u \in Tables, NEW k \in Keys, k \in absent[u], k \notin added[u], ~Found(u, k)
               PROVE  ~Found(u, k)'
    BY <1>2 DEF AbsentTrue
  <2> QED
    BY <1>1, <1>5 DEF Found, Payload
<1> QED
  BY <1>7, <1>9, <1>10, <1>11, <1>12, <1>13, <1>14

LEMMA FailStep ==
    ASSUME Inv, NEW t \in Tables, toWrite[t] # {}, TableFails(t), failures' \in Nat
    PROVE  Inv' /\ SameIds
<1> USE Entries DEF Inv
<1>1. t \in BatchTables /\ writing # "none"
  BY Idle DEF TypeOK, BatchTables, None
<1>2. /\ toWrite' = [toWrite EXCEPT ![t] = {}] /\ failed' = failed \cup {t}
      /\ db' = db /\ queued' = queued /\ nextId' = nextId /\ writing' = writing
      /\ staged' = staged /\ added' = added /\ purge' = purge
      /\ promised' = promised /\ lostAcks' = lostAcks
      /\ index' = index /\ memo' = memo /\ absent' = absent /\ complete' = complete
  BY DEF TableFails, cacheVars
<1>3. SameIds
  BY <1>2 DEF IsRow
<1>4. /\ toWrite' \in [Tables -> SUBSET Keys]
      /\ \A u \in Tables : toWrite'[u] \subseteq toWrite[u]
      /\ \A u \in Tables : u # t => toWrite'[u] = toWrite[u]
  BY <1>2 DEF TypeOK
<1>5. TypeOK'
  <2>1. BatchTables' = BatchTables
    BY <1>2 DEF BatchTables
  <2>2. writing' # "none"
    BY <1>1, <1>2
  <2>3. \A u \in Tables : toWrite'[u] \subseteq added'[u]
    BY <1>2, <1>4 DEF TypeOK
  <2> QED
    BY <1>1, <1>2, <1>4, <2>1, <2>2, <2>3 DEF TypeOK
<1>6. RowsBelow' /\ RowsUnique' /\ CompleteTrue' /\ PromisedKept'
  BY <1>2, <1>3 DEF RowsBelow, RowsUnique, CompleteTrue, PromisedKept
<1>7. IndexSound'
  BY <1>2 DEF IndexSound, IsRow
<1>8. MemoSound' /\ AbsentTrue'
  BY <1>2 DEF MemoSound, AbsentTrue, Found
<1>9. BatchSound'
  BY <1>2, <1>4 DEF BatchSound, Free
<1> QED
  BY <1>3, <1>5, <1>6, <1>7, <1>8, <1>9

\* A step of the writer keeps the ids and the database, or stores rows of
\* the batch.
LEMMA WriterSteps ==
    ASSUME Inv, NEW t \in Tables, WriterStep(t)
    PROVE  /\ Inv' /\ SameIds
           /\ \/ db' = db
              \/ \E ks \in SUBSET added[t] : db' = [db EXCEPT ![t] = @ \cup Payload(t, ks)]
<1>1. failures \in Nat /\ lostAcks \in Nat /\ toWrite[t] \subseteq added[t]
  BY DEF Inv, TypeOK
<1>2. CASE WriteTable(t)
  <2>1. PICK ks \in SUBSET Keys :
            /\ Insert(t, ks)
            /\ toWrite' = [toWrite EXCEPT ![t] = @ \ ks]
            /\ UNCHANGED <<queued, cacheVars, nextId, writing, staged, added, failed, purge, promised, faultVars>>
    BY <1>2 DEF WriteTable
  <2>2. ks # {} /\ ks \subseteq toWrite[t] /\ db' = [db EXCEPT ![t] = @ \cup Payload(t, ks)]
    BY <2>1 DEF Insert, IsInsert
  <2> QED
    BY <1>1, <2>1, <2>2, StoreStep DEF faultVars
<1>3. CASE WriteFails(t)
  <2>1. failures' \in Nat /\ toWrite[t] # {} /\ TableFails(t)
    BY <1>1, <1>3 DEF WriteFails
  <2>2. db' = db
    BY <2>1 DEF TableFails
  <2> QED
    BY <2>1, <2>2, FailStep
<1>4. CASE WriteIsDuplicate(t)
  BY <1>1, <1>4, FailStep DEF WriteIsDuplicate, IsInsert, TableFails
<1>5. CASE WriteAckLost(t)
  <2>1. lostAcks' \in Nat
    BY <1>1, <1>5 DEF WriteAckLost
  <2>2. PICK ks \in SUBSET Keys : Insert(t, ks)
    BY <1>5 DEF WriteAckLost
  <2>3. ks # {} /\ ks \subseteq toWrite[t] /\ db' = [db EXCEPT ![t] = @ \cup Payload(t, ks)]
    BY <2>2 DEF Insert, IsInsert
  <2>4. /\ UNCHANGED cacheVars /\ UNCHANGED batchVars
        /\ queued' = queued /\ nextId' = nextId /\ promised' = promised /\ failures' = failures
    BY <1>5 DEF WriteAckLost
  <2> QED
    BY <1>1, <2>1, <2>3, <2>4, SameBatch, StoreStep
<1> QED
  BY <1>2, <1>3, <1>4, <1>5 DEF WriterStep

\* When every transaction of the batch is over, a staged row of a table that
\* did not fail is stored.
LEMMA Landed ==
    ASSUME Inv, toWrite = None
    PROVE  \A t \in Tables, k \in Keys :
              t \notin failed /\ staged[t][k] # NoId => <<k, staged[t][k]>> \in db[t]
BY DEF Inv, MemoSound, BatchSound, None

\* No batch is pending after a join or a start.
LEMMA NoBatchNext ==
    ASSUME staged' = Empty, added' = None, purge' = {}, toWrite' = None, failed' = {},
           writing' = "none"
    PROVE  /\ NoBatch'
           /\ failed' \subseteq BatchTables' /\ toWrite' \in [Tables -> SUBSET Keys]
           /\ staged' \in [Tables -> [Keys -> Nat]] /\ added' \in [Tables -> SUBSET Keys]
           /\ \A t \in Tables, k \in Keys :
            staged'[t][k] = NoId /\ k \notin added'[t] /\ toWrite'[t] = {}
BY DEF NoBatch, Empty, None

LEMMA JoinSucceedsStep == Inv /\ JoinSucceeds => Inv' /\ SameIds
<1> SUFFICES ASSUME Inv, JoinSucceeds PROVE Inv' /\ SameIds
  OBVIOUS
<1> USE Entries DEF Inv
<1>1. /\ staged' = Empty /\ added' = None /\ purge' = {} /\ writing' = "none"
      /\ toWrite = None /\ toWrite' = toWrite /\ failed = {} /\ failed' = failed
      /\ db' = db /\ queued' = queued /\ memo' = memo /\ absent' = absent
      /\ nextId' = nextId /\ promised' = promised /\ UNCHANGED faultVars
      /\ complete' = complete \ purge
  BY DEF JoinSucceeds
<1>2. /\ NoBatch'
      /\ failed' \subseteq BatchTables' /\ toWrite' \in [Tables -> SUBSET Keys]
      /\ staged' \in [Tables -> [Keys -> Nat]] /\ added' \in [Tables -> SUBSET Keys]
      /\ \A t \in Tables, k \in Keys :
            staged'[t][k] = NoId /\ k \notin added'[t] /\ toWrite'[t] = {}
  BY <1>1, NoBatchNext
<1>3. /\ index' \in [Tables -> [Keys -> Nat]]
      /\ \A t \in Tables, k \in Keys :
            index'[t][k] = IF t \in purge THEN NoId ELSE index[t][k]
  BY DEF JoinSucceeds, TypeOK, Empty
<1>4. \A t \in Tables, k \in Keys : staged[t][k] # NoId => <<k, staged[t][k]>> \in db[t]
  BY <1>1, Landed
<1>5. SameIds
  BY <1>1, <1>2, <1>4 DEF IsRow
<1>6. TypeOK'
  BY <1>1, <1>2, <1>3 DEF TypeOK, faultVars
<1>7. RowsBelow' /\ RowsUnique' /\ PromisedKept'
  BY <1>1, <1>5 DEF RowsBelow, RowsUnique, PromisedKept
<1>8. CompleteTrue'
  BY <1>1, <1>3, <1>5 DEF CompleteTrue
<1>9. IndexSound'
  <2> SUFFICES ASSUME NEW t \in Tables, NEW k \in Keys
               PROVE  /\ index'[t][k] # NoId => IsRow(t, k, index[t][k])'
                      /\ queued'[t][k] # NoId => index'[t][k] = queued'[t][k]
                      /\ staged'[t][k] # NoId => index'[t][k] = staged'[t][k]
    BY DEF IndexSound
  <2>1. queued[t][k] # NoId => t \notin purge
    BY DEF BatchSound
  <2> QED
    BY <1>1, <1>2, <1>3, <1>4, <2>1 DEF IndexSound, IsRow
<1>10. MemoSound'
  BY <1>1, <1>2, <1>4 DEF MemoSound
<1>11. BatchSound' /\ AbsentTrue'
  BY <1>1, <1>2 DEF BatchSound, AbsentTrue, Found
<1> QED
  BY <1>5, <1>6, <1>7, <1>8, <1>9, <1>10, <1>11

LEMMA JoinFailsStep == Inv /\ JoinFails => Inv' /\ SameIds
<1> SUFFICES ASSUME Inv, JoinFails PROVE Inv' /\ SameIds
  OBVIOUS
<1> USE Entries DEF Inv
<1>1. /\ staged' = Empty /\ added' = None /\ purge' = {} /\ writing' = "none"
      /\ toWrite = None /\ toWrite' = toWrite /\ failed' = {}
      /\ db' = db /\ index' = index /\ absent' = absent /\ complete' = complete
      /\ nextId' = nextId /\ promised' = promised /\ UNCHANGED faultVars
  BY DEF JoinFails
<1>2. /\ NoBatch'
      /\ failed' \subseteq BatchTables' /\ toWrite' \in [Tables -> SUBSET Keys]
      /\ staged' \in [Tables -> [Keys -> Nat]] /\ added' \in [Tables -> SUBSET Keys]
      /\ \A t \in Tables, k \in Keys :
            staged'[t][k] = NoId /\ k \notin added'[t] /\ toWrite'[t] = {}
  BY <1>1, NoBatchNext
<1>3. /\ queued' \in [Tables -> [Keys -> Nat]]
      /\ \A t \in Tables, k \in Keys : queued'[t][k] =
            IF t \in failed /\ queued[t][k] = NoId THEN staged[t][k] ELSE queued[t][k]
  BY DEF JoinFails, TypeOK
<1>4. /\ memo' \in [Tables -> [Keys -> Nat]]
      /\ \A t \in Tables, k \in Keys : memo'[t][k] =
            IF t \in failed /\ k \in added[t] THEN NoId ELSE memo[t][k]
  BY DEF JoinFails, TypeOK
<1>5. \A t \in Tables, k \in Keys :
         t \notin failed /\ staged[t][k] # NoId => <<k, staged[t][k]>> \in db[t]
  BY <1>1, Landed
<1>6. \A t \in Tables, k \in Keys :
         queued[t][k] # NoId /\ staged[t][k] # NoId => queued[t][k] = staged[t][k]
  BY DEF IndexSound
<1>7. SameIds
  <2> SUFFICES ASSUME NEW t \in Tables, NEW k \in Keys, NEW i \in Nat
               PROVE  IsRow(t, k, i)' <=> IsRow(t, k, i)
    OBVIOUS
  <2>1. IsRow(t, k, i)' <=> i # NoId /\ (<<k, i>> \in db[t] \/ queued'[t][k] = i)
    BY <1>1, <1>2 DEF IsRow
  <2>2. CASE t \in failed
    BY <1>3, <1>6, <2>1, <2>2 DEF IsRow
  <2>3. CASE t \notin failed
    BY <1>3, <1>5, <2>1, <2>3 DEF IsRow
  <2> QED
    BY <2>2, <2>3
<1>8. TypeOK'
  BY <1>1, <1>2, <1>3, <1>4 DEF TypeOK, faultVars
<1>9. RowsBelow' /\ RowsUnique' /\ PromisedKept' /\ CompleteTrue'
  BY <1>1, <1>7 DEF RowsBelow, RowsUnique, PromisedKept, CompleteTrue
<1>10. IndexSound'
  <2> SUFFICES ASSUME NEW t \in Tables, NEW k \in Keys
               PROVE  /\ index[t][k] # NoId => IsRow(t, k, index[t][k])'
                      /\ queued'[t][k] # NoId => index[t][k] = queued'[t][k]
                      /\ staged'[t][k] # NoId => index[t][k] = staged'[t][k]
    BY <1>1 DEF IndexSound
  <2>1. index[t][k] # NoId => IsRow(t, k, index[t][k])
    BY DEF IndexSound
  <2>2. index[t][k] # NoId => IsRow(t, k, index[t][k])'
    BY <1>1, <1>2, <1>3, <1>5, <1>6, <2>1 DEF IsRow
  <2>3. queued[t][k] # NoId => index[t][k] = queued[t][k]
    BY DEF IndexSound
  <2>4. staged[t][k] # NoId => index[t][k] = staged[t][k]
    BY DEF IndexSound
  <2> QED
    BY ONLY <1>2, <1>3, <2>2, <2>3, <2>4, t \in Tables, k \in Keys
<1>11. MemoSound'
  <2> SUFFICES ASSUME NEW t \in Tables, NEW k \in Keys, memo'[t][k] # NoId
               PROVE  <<k, memo'[t][k]>> \in db[t]
    BY <1>1, <1>2 DEF MemoSound
  <2> QED
    BY <1>1, <1>4 DEF MemoSound, BatchSound, None
<1>12. BatchSound' /\ AbsentTrue'
  BY <1>1, <1>2 DEF BatchSound, AbsentTrue, Found
<1> QED
  BY <1>7, <1>8, <1>9, <1>10, <1>11, <1>12

LEMMA StartStep ==
    ASSUME Inv, NEW preloaded \in SUBSET Tables, NEW packed \in SUBSET Tables,
           StartWith(preloaded, packed)
    PROVE  /\ Inv' /\ db' = db
           /\ \A t \in Tables, k \in Keys, i \in Nat :
                 IsRow(t, k, i)' <=> i # NoId /\ <<k, i>> \in db[t]
<1> USE Entries DEF Inv
<1>1. /\ staged' = Empty /\ added' = None /\ purge' = {} /\ writing' = "none"
      /\ toWrite' = None /\ failed' = {}
      /\ db' = db /\ queued' = Empty /\ absent' = None /\ complete' = preloaded
      /\ promised' = None /\ UNCHANGED faultVars
  BY DEF StartWith
<1>2. /\ NoBatch'
      /\ failed' \subseteq BatchTables' /\ toWrite' \in [Tables -> SUBSET Keys]
      /\ staged' \in [Tables -> [Keys -> Nat]] /\ added' \in [Tables -> SUBSET Keys]
      /\ \A t \in Tables, k \in Keys :
            staged'[t][k] = NoId /\ k \notin added'[t] /\ toWrite'[t] = {}
  BY <1>1, NoBatchNext
<1>3. /\ queued' \in [Tables -> [Keys -> Nat]] /\ absent' \in [Tables -> SUBSET Keys]
      /\ promised' \in [Tables -> SUBSET (Keys \X Ids)]
      /\ \A t \in Tables, k \in Keys :
            queued'[t][k] = NoId /\ k \notin absent'[t] /\ promised'[t] = {}
  BY <1>1 DEF Empty, None
<1>4. \A t \in Tables, k \in Keys : DbId(t, k) \in Nat
  BY DbIdFound
<1>5. /\ index' \in [Tables -> [Keys -> Nat]]
      /\ \A t \in Tables, k \in Keys :
            index'[t][k] = IF t \in preloaded THEN DbId(t, k) ELSE NoId
  BY <1>4 DEF StartWith
<1>6. /\ memo' \in [Tables -> [Keys -> Nat]]
      /\ \A t \in Tables, k \in Keys :
            memo'[t][k] = IF t \in preloaded \ packed THEN DbId(t, k) ELSE NoId
  BY <1>4 DEF StartWith
<1>7. /\ nextId' \in [Tables -> Ids]
      /\ \A t \in Tables : IsNextId(t, nextId'[t])
  BY DEF StartWith
<1>8. \A t \in Tables, k \in Keys, i \in Nat : IsRow(t, k, i)' <=> i # NoId /\ <<k, i>> \in db[t]
  <2> SUFFICES ASSUME NEW t \in Tables, NEW k \in Keys, NEW i \in Nat
               PROVE  IsRow(t, k, i)' <=> i # NoId /\ <<k, i>> \in db[t]
    OBVIOUS
  <2>1. queued'[t][k] = NoId /\ staged'[t][k] = NoId /\ db' = db
    BY <1>1, <1>2, <1>3
  <2> QED
    BY <2>1 DEF IsRow
<1>9. \A t \in Tables, k \in Keys : DbId(t, k) # NoId => <<k, DbId(t, k)>> \in db[t]
  BY DbIdFound
<1>10. TypeOK'
  BY <1>1, <1>2, <1>3, <1>5, <1>6, <1>7 DEF TypeOK, faultVars
<1>11. RowsBelow'
  <2> SUFFICES ASSUME NEW t \in Tables, NEW k \in Keys, NEW i \in Nat, <<k, i>> \in db[t]
               PROVE  i < nextId'[t]
    BY <1>8 DEF RowsBelow
  <2> QED
    BY <1>7 DEF IsNextId
<1>12. RowsUnique' /\ PromisedKept'
  <2>1. \A t \in Tables, k \in Keys, i \in Nat : IsRow(t, k, i)' => IsRow(t, k, i)
    BY <1>8 DEF IsRow
  <2> QED
    BY <1>3, <2>1 DEF RowsUnique, PromisedKept
<1>13. IndexSound'
  <2> SUFFICES ASSUME NEW t \in Tables, NEW k \in Keys
               PROVE  /\ index'[t][k] # NoId => IsRow(t, k, index[t][k])'
                      /\ queued'[t][k] # NoId => index'[t][k] = queued'[t][k]
                      /\ staged'[t][k] # NoId => index'[t][k] = staged'[t][k]
    BY DEF IndexSound
  <2> QED
    BY <1>1, <1>2, <1>3, <1>5, <1>9 DEF IsRow
<1>14. MemoSound'
  BY <1>1, <1>2, <1>6, <1>9 DEF MemoSound
<1>15. BatchSound' /\ AbsentTrue'
  BY <1>1, <1>2, <1>3 DEF BatchSound, AbsentTrue
<1>16. CompleteTrue'
  <2> SUFFICES ASSUME NEW t \in preloaded, NEW k \in Keys, NEW i \in Nat, IsRow(t, k, i)'
               PROVE  index'[t][k] = i
    BY <1>1 DEF CompleteTrue
  <2>1. t \in Tables /\ i # NoId /\ <<k, i>> \in db[t]
    BY <1>8
  <2>2. <<k, DbId(t, k)>> \in db[t] /\ DbId(t, k) # NoId
    BY <2>1, DbIdFound DEF Found
  <2>3. DbId(t, k) = i
    BY <1>4, <2>1, <2>2 DEF RowsUnique, IsRow
  <2> QED
    BY <1>5, <2>1, <2>3
<1> QED
  BY <1>1, <1>8, <1>10, <1>11, <1>12, <1>13, <1>14, <1>15, <1>16

LEMMA Stutter == Inv /\ UNCHANGED vars => Inv'
<1> SUFFICES ASSUME Inv, UNCHANGED vars PROVE Inv'
  OBVIOUS
<1> USE SameBatch DEF Inv
<1>1. /\ UNCHANGED batchVars /\ UNCHANGED faultVars
      /\ db' = db /\ queued' = queued /\ nextId' = nextId /\ promised' = promised
      /\ index' = index /\ memo' = memo /\ absent' = absent /\ complete' = complete
  BY DEF vars, cacheVars
<1>2. SameIds
  BY <1>1 DEF IsRow
<1>3. TypeOK'
  BY <1>1 DEF TypeOK, faultVars
<1>4. RowsBelow' /\ RowsUnique' /\ IndexSound' /\ CompleteTrue' /\ PromisedKept'
  BY <1>1, <1>2, SameRows DEF PromisedKept
<1>5. MemoSound' /\ BatchSound' /\ AbsentTrue'
  BY <1>1 DEF MemoSound, BatchSound, AbsentTrue, Found, Free
<1> QED
  BY <1>3, <1>4, <1>5

LEMMA NextInv == Inv /\ [Next]_vars => Inv'
<1> SUFFICES ASSUME Inv, [Next]_vars PROVE Inv'
  OBVIOUS
<1>1. ASSUME NEW t \in Tables, NEW k \in Keys, SetStep(t, k) \/ GetReads(t, k) PROVE Inv'
  BY <1>1, SetKnownStep, SetStoredStep, SetNewStep, GetReadsStep DEF SetStep
<1>2. CASE CommitStep
  BY <1>2, CommitSteps
<1>3. CASE \E t \in Tables : WriterStep(t)
  BY <1>3, WriterSteps
<1>4. CASE JoinStep
  BY <1>4, JoinSucceedsStep, JoinFailsStep DEF JoinStep
<1>5. ASSUME NEW preloaded \in SUBSET Tables, NEW packed \in SUBSET Tables,
             Restart(preloaded, packed) \/ CrashAndStart(preloaded, packed)
      PROVE  Inv'
  BY <1>5, StartStep DEF Restart, CrashAndStart
<1>6. CASE UNCHANGED vars
  BY <1>6, Stutter
<1> QED
  BY <1>1, <1>2, <1>3, <1>4, <1>5, <1>6 DEF Next

-----------------------------------------------------------------------------
(***************************************************************************)
(* The theorems.                                                           *)
(***************************************************************************)
THEOREM Invariance == Spec => []Inv
BY InitInv, NextInv, PTL DEF Spec

\* The types, and a batch only while a commit is pending.
THEOREM Typing == Spec => []TypeOK
<1>1. Inv => TypeOK
  BY DEF Inv
<1> QED
  BY Invariance, <1>1, PTL

LEMMA RowsAreRows ==
    ASSUME TypeOK, NEW t \in Tables
    PROVE  \A r : r \in Rows(t) <=> r \in Keys \X Ids /\ IsRow(t, r[1], r[2])
<1>1. /\ db[t] \subseteq Keys \X Ids
      /\ \A k \in Keys : queued[t][k] \in Nat /\ staged[t][k] \in Nat
  BY DEF TypeOK
<1>2. ASSUME NEW r \in Rows(t) PROVE r \in Keys \X Ids /\ IsRow(t, r[1], r[2])
  <2>1. CASE r \in db[t]
    BY <1>1, <2>1 DEF IsRow
  <2>2. CASE \E k \in Keys : queued[t][k] # NoId /\ r = <<k, queued[t][k]>>
    BY <1>1, <2>2 DEF IsRow
  <2>3. CASE \E k \in Keys : staged[t][k] # NoId /\ r = <<k, staged[t][k]>>
    BY <1>1, <2>3 DEF IsRow
  <2> QED
    BY <2>1, <2>2, <2>3 DEF Rows, StagedKeys
<1>3. ASSUME NEW r \in Keys \X Ids, IsRow(t, r[1], r[2]) PROVE r \in Rows(t)
  <2>1. r = <<r[1], r[2]>> /\ r[1] \in Keys /\ r[2] # NoId
    OBVIOUS
  <2> QED
    BY <1>3, <2>1 DEF IsRow, Rows, StagedKeys
<1> QED
  BY <1>2, <1>3

\* Whatever the order of lookups, commits, failed transactions, lost answers,
\* restarts and crashes, a deduplicated key has one id and an id one key.
THEOREM IdsAreUnique == Spec => []UniqueIds
<1>1. Inv => UniqueIds
  <2> SUFFICES ASSUME Inv, NEW t \in Tables, NEW r \in Rows(t), NEW s \in Rows(t)
               PROVE  r[1] = s[1] <=> r[2] = s[2]
    BY DEF UniqueIds
  <2>1. r \in Keys \X Ids /\ IsRow(t, r[1], r[2]) /\ s \in Keys \X Ids /\ IsRow(t, s[1], s[2])
    BY RowsAreRows DEF Inv
  <2> QED
    BY <2>1 DEF Inv, RowsUnique
<1> QED
  BY Invariance, <1>1, PTL

\* A row that set() returned stays staged, in the pending batch or stored.
THEOREM RowsAreKept == Spec => []NoLostRow
<1>1. Inv => NoLostRow
  <2> SUFFICES ASSUME Inv, NEW t \in Tables, NEW r \in promised[t]
               PROVE  r \in Rows(t)
    BY DEF NoLostRow
  <2>1. r \in Keys \X Ids
    BY DEF Inv, TypeOK
  <2>2. r = <<r[1], r[2]>> /\ r[1] \in Keys /\ r[2] \in Nat
    BY <2>1
  <2>3. IsRow(t, r[1], r[2])
    BY <2>2 DEF Inv, PromisedKept
  <2> QED
    BY <2>1, <2>3, RowsAreRows DEF Inv
<1> QED
  BY Invariance, <1>1, PTL

\* A lookup finds every row that set() returned, under the id it returned.
THEOREM LookupsFindRows == Spec => []ReadYourWrites
<1>1. Inv => ReadYourWrites
  <2> SUFFICES ASSUME Inv, NEW t \in Tables, NEW r \in promised[t]
               PROVE  Lookup(t, r[1]) = r[2]
    BY DEF ReadYourWrites
  <2> DEFINE k == r[1]
             i == r[2]
  <2> USE Entries DEF Inv
  <2>1. r = <<k, i>> /\ k \in Keys /\ i \in Nat /\ i # NoId
    BY DEF TypeOK
  <2>2. IsRow(t, k, i)
    BY <2>1 DEF PromisedKept
  <2> HIDE DEF k, i
  <2>3. \A j \in Nat : IsRow(t, k, j) => j = i
    BY <2>1, <2>2 DEF RowsUnique
  <2>4. CASE index[t][k] # NoId
    BY <2>1, <2>3, <2>4 DEF IndexSound, Lookup
  <2>5. CASE index[t][k] = NoId
    <3>1. <<k, i>> \in db[t] /\ Found(t, k) /\ t \notin complete
      BY <2>1, <2>2, <2>5 DEF IsRow, IndexSound, Found, CompleteTrue
    <3>2. k \notin absent[t]
      BY <2>1, <3>1 DEF AbsentTrue
    <3>3. CASE memo[t][k] = NoId
      <4>1. IsRow(t, k, DbId(t, k)) /\ DbId(t, k) \in Nat
        BY <2>1, <3>1, DbIdFound DEF IsRow
      <4> QED
        BY <2>1, <2>3, <2>5, <3>1, <3>2, <3>3, <4>1 DEF Lookup, NeedsRead
    <3>4. CASE memo[t][k] # NoId
      <4>1. IsRow(t, k, memo[t][k])
        BY <2>1, <3>4 DEF MemoSound, IsRow
      <4> QED
        BY <2>1, <2>3, <2>5, <3>4, <4>1 DEF Lookup, NeedsRead
    <3> QED
      BY <3>3, <3>4
  <2> QED
    BY <2>4, <2>5 DEF k, i
<1> QED
  BY Invariance, <1>1, PTL

-----------------------------------------------------------------------------
(***************************************************************************)
(* The engine implements the directory of ids.                             *)
(***************************************************************************)
ids == [t \in Tables |-> [k \in Keys |-> RowId(t, k)]]
stored == [t \in Tables |-> {k \in Keys : Found(t, k)}]

\* The id of a key is the id of its row.
RowIdSound ==
    \A t \in Tables, k \in Keys :
        /\ RowId(t, k) \in Nat
        /\ \A i \in Nat : IsRow(t, k, i) <=> i # NoId /\ RowId(t, k) = i

LEMMA RowIdIsRow == Inv => RowIdSound
<1> SUFFICES ASSUME Inv, NEW t \in Tables, NEW k \in Keys
             PROVE  /\ RowId(t, k) \in Nat
                    /\ \A i \in Nat : IsRow(t, k, i) <=> i # NoId /\ RowId(t, k) = i
  BY DEF RowIdSound
<1> USE Entries DEF Inv
<1>1. RowId(t, k) \in Nat
  BY DbIdFound DEF RowId
<1>2. RowId(t, k) # NoId => IsRow(t, k, RowId(t, k))
  BY DbIdFound DEF RowId, IsRow
<1>3. ASSUME NEW i \in Nat, IsRow(t, k, i) PROVE RowId(t, k) # NoId
  BY <1>3, DbIdFound DEF RowId, IsRow, Found
<1>4. ASSUME NEW i \in Nat, IsRow(t, k, i) PROVE i # NoId /\ RowId(t, k) = i
  BY <1>1, <1>2, <1>3, <1>4 DEF RowsUnique
<1> QED
  BY <1>1, <1>2, <1>4

LEMMA RowIdNext == Inv' => RowIdSound'
BY RowIdIsRow, PTL

\* A step that gives no key an id keeps the ids.
LEMMA IdsKept == ASSUME Inv, Inv', SameIds PROVE ids' = ids
<1>1. ASSUME NEW t \in Tables, NEW k \in Keys PROVE RowId(t, k)' = RowId(t, k)
  BY RowIdIsRow, RowIdNext DEF RowIdSound
<1> QED
  BY <1>1 DEF ids

\* The ids with one entry changed to the next id.
LEMMA OneEntry ==
    ASSUME NEW t \in Tables, NEW k \in Keys
    PROVE  [ids EXCEPT ![t][k] = nextId[t]] =
              [u \in Tables |-> [l \in Keys |->
                  IF u = t /\ l = k THEN nextId[t] ELSE RowId(u, l)]]
BY DEF ids

LEMMA AssignStep ==
    ASSUME Inv, Inv', NEW t \in Tables, NEW k \in Keys, SetNew(t, k)
    PROVE  Directory!Assign(t, k)
<1> USE RowIdIsRow, RowIdNext, SetNewStep DEF RowIdSound
<1>1. RowId(t, k) = NoId
  OBVIOUS
<1>2. nextId[t] \in Nat /\ nextId[t] # NoId /\ \A l \in Keys : RowId(t, l) # nextId[t]
  BY Entries DEF Inv
<1>3. RowId(t, k)' = nextId[t]
  BY <1>2
<1>4. ASSUME NEW u \in Tables, NEW l \in Keys, ~(u = t /\ l = k)
      PROVE  RowId(u, l)' = RowId(u, l)
  BY <1>4
<1>5. ids' = [ids EXCEPT ![t][k] = nextId[t]]
  <2>1. ids' = [u \in Tables |-> [l \in Keys |->
                    IF u = t /\ l = k THEN nextId[t] ELSE RowId(u, l)]]
    BY <1>3, <1>4 DEF ids
  <2>2. [ids EXCEPT ![t][k] = nextId[t]] =
           [u \in Tables |-> [l \in Keys |->
               IF u = t /\ l = k THEN nextId[t] ELSE RowId(u, l)]]
    BY ONLY OneEntry, t \in Tables, k \in Keys
  <2> QED
    BY <2>1, <2>2, Zenon
<1>6. stored' = stored
  BY DEF stored, Found
<1>7. /\ ids[t][k] = 0 /\ ids'[t][k] = nextId[t]
      /\ \A l \in Keys : ids[t][l] # nextId[t]
  BY <1>1, <1>2, <1>3 DEF ids
<1>8. /\ ids[t][k] = 0
      /\ ids'[t][k] # 0 /\ \A l \in Keys : ids[t][l] # ids'[t][k]
      /\ ids' = [ids EXCEPT ![t][k] = ids'[t][k]]
      /\ stored' = stored
  BY <1>2, <1>5, <1>6, <1>7
<1> QED
  BY <1>8 DEF Directory!Assign, ids, stored

LEMMA StoreRefines ==
    ASSUME Inv, Inv', NEW t \in Tables, NEW ks \in SUBSET added[t], SameIds,
           db' = [db EXCEPT ![t] = @ \cup Payload(t, ks)]
    PROVE  Directory!Store(t, ks)
<1>1. ids' = ids
  BY IdsKept
<1>2. db \in [Tables -> SUBSET (Keys \X Ids)] /\ ks \subseteq Keys /\ ks \subseteq added[t]
  BY DEF Inv, TypeOK
<1>3. \A u \in Tables : db'[u] = IF u = t THEN db[u] \cup Payload(t, ks) ELSE db[u]
  BY <1>2
<1>4. ASSUME NEW u \in Tables, NEW k \in Keys
      PROVE  Found(u, k)' <=> Found(u, k) \/ (u = t /\ k \in ks)
  <2>1. (\E row \in Payload(t, ks) : row[1] = k) <=> k \in ks
    <3>1. ASSUME NEW row \in Payload(t, ks), row[1] = k PROVE k \in ks
      BY <3>1 DEF Payload
    <3>2. ASSUME k \in ks PROVE <<k, staged[t][k]>> \in Payload(t, ks)
      BY <3>2 DEF Payload
    <3>3. <<k, staged[t][k]>>[1] = k
      OBVIOUS
    <3> QED
      BY <3>1, <3>2, <3>3
  <2> QED
    BY <1>3, <2>1 DEF Found
<1>5. stored' = [stored EXCEPT ![t] = @ \cup ks]
  BY <1>2, <1>4 DEF stored
<1>6. \A k \in ks : ids[t][k] # 0
  <2> SUFFICES ASSUME NEW k \in ks PROVE RowId(t, k) # NoId
    BY <1>2 DEF ids
  <2>1. k \in Keys /\ IsRow(t, k, staged[t][k]) /\ staged[t][k] \in Nat
    BY <1>2, Entries DEF Inv, BatchSound, IsRow
  <2> QED
    BY <2>1, RowIdIsRow DEF RowIdSound
<1> QED
  BY <1>1, <1>5, <1>6 DEF Directory!Store, ids, stored

LEMMA ForgetRefines ==
    ASSUME Inv, Inv', db' = db,
           \A t \in Tables, k \in Keys, i \in Nat :
              IsRow(t, k, i)' <=> i # NoId /\ <<k, i>> \in db[t]
    PROVE  Directory!Forget
<1>1. ASSUME NEW t \in Tables, NEW k \in Keys
      PROVE  RowId(t, k)' = IF Found(t, k) THEN RowId(t, k) ELSE 0
  <2>1. CASE Found(t, k)
    <3>1. /\ DbId(t, k) \in Nat /\ DbId(t, k) # NoId /\ <<k, DbId(t, k)>> \in db[t]
      BY <2>1, DbIdFound DEF Inv
    <3>2. IsRow(t, k, DbId(t, k))
      BY <3>1 DEF IsRow
    <3> QED
      BY <2>1, <3>1, <3>2, RowIdIsRow, RowIdNext DEF RowIdSound
  <2>2. CASE ~Found(t, k)
    <3>1. \A i \in Nat : <<k, i>> \notin db[t]
      BY <2>2 DEF Found
    <3> QED
      BY <2>2, <3>1, RowIdNext DEF RowIdSound
  <2> QED
    BY <2>1, <2>2
<1>2. ids' = [t \in Tables |-> [k \in Keys |-> IF k \in stored[t] THEN ids[t][k] ELSE 0]]
  BY <1>1 DEF ids, stored
<1>3. stored' = stored
  BY DEF stored, Found
<1> QED
  BY <1>2, <1>3 DEF Directory!Forget, ids, stored

\* A step that keeps the ids and the database.
LEMMA KeepRefines ==
    ASSUME Inv, Inv', SameIds, db' = db
    PROVE  UNCHANGED Directory!vars
<1>1. ids' = ids
  BY IdsKept
<1>2. stored' = stored
  BY DEF stored, Found
<1> QED
  BY <1>1, <1>2 DEF Directory!vars, ids, stored

LEMMA InitRefines == Init => Directory!Init
<1> SUFFICES ASSUME Init PROVE Directory!Init
  OBVIOUS
<1>1. \A t \in Tables, k \in Keys : RowId(t, k) = 0 /\ ~Found(t, k)
  BY DEF Init, NoBatch, Empty, None, RowId, DbId, Found
<1> QED
  BY <1>1 DEF Directory!Init

\* Every step of the engine is a step of the directory or leaves it alone.
LEMMA NextRefines == Inv /\ Inv' /\ [Next]_vars => [Directory!Next]_(Directory!vars)
<1> SUFFICES ASSUME Inv, Inv', [Next]_vars
             PROVE  Directory!Next \/ UNCHANGED Directory!vars
  OBVIOUS
<1>1. ASSUME NEW t \in Tables, NEW k \in Keys, SetNew(t, k) PROVE Directory!Next
  BY <1>1, AssignStep DEF Directory!Next
<1>2. ASSUME NEW t \in Tables, NEW k \in Keys,
             SetKnown(t, k) \/ SetStored(t, k) \/ GetReads(t, k)
      PROVE  UNCHANGED Directory!vars
  <2>1. SameIds
    BY <1>2, SetKnownStep, SetStoredStep, GetReadsStep
  <2>2. db' = db
    BY <1>2 DEF SetKnown, SetStored, GetReads
  <2> QED
    BY <2>1, <2>2, KeepRefines
<1>3. CASE CommitStep
  BY <1>3, CommitSteps, KeepRefines
<1>4. ASSUME NEW t \in Tables, WriterStep(t)
      PROVE  Directory!Next \/ UNCHANGED Directory!vars
  <2>1. /\ SameIds
        /\ \/ db' = db
           \/ \E ks \in SUBSET added[t] : db' = [db EXCEPT ![t] = @ \cup Payload(t, ks)]
    BY <1>4, WriterSteps
  <2>2. CASE db' = db
    BY <2>1, <2>2, KeepRefines
  <2>3. ASSUME NEW ks \in SUBSET added[t], db' = [db EXCEPT ![t] = @ \cup Payload(t, ks)]
        PROVE  Directory!Next
    <3>1. Directory!Store(t, ks)
      BY <2>1, <2>3, StoreRefines
    <3>2. ks \in SUBSET Keys
      BY DEF Inv, TypeOK
    <3> QED
      BY <3>1, <3>2 DEF Directory!Next
  <2> QED
    BY <2>1, <2>2, <2>3
<1>5. CASE JoinStep
  <2>1. SameIds
    BY <1>5, JoinSucceedsStep, JoinFailsStep DEF JoinStep
  <2>2. db' = db
    BY <1>5 DEF JoinStep, JoinSucceeds, JoinFails
  <2> QED
    BY <2>1, <2>2, KeepRefines
<1>6. ASSUME NEW preloaded \in SUBSET Tables, NEW packed \in SUBSET Tables,
             Restart(preloaded, packed) \/ CrashAndStart(preloaded, packed)
      PROVE  Directory!Next
  <2>1. StartWith(preloaded, packed)
    BY <1>6 DEF Restart, CrashAndStart
  <2>2. Directory!Forget
    BY <2>1, StartStep, ForgetRefines
  <2> QED
    BY <2>2 DEF Directory!Next
<1>7. CASE UNCHANGED vars
  <2>1. SameIds /\ db' = db
    BY <1>7 DEF vars, batchVars, IsRow
  <2> QED
    BY <2>1, KeepRefines
<1> QED
  BY <1>1, <1>2, <1>3, <1>4, <1>5, <1>6, <1>7 DEF Next, SetStep

\* The engine implements the directory of ids, whatever the tables, the keys
\* and the faults: no lookup, commit, failure or restart changes an id.
THEOREM Refinement == Spec => ImplementsDirectory
BY Invariance, InitRefines, NextRefines, PTL DEF Spec, ImplementsDirectory, Directory!Spec
=============================================================================
