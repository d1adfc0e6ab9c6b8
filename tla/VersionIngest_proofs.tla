------------------------ MODULE VersionIngest_proofs ------------------------
(***************************************************************************)
(* Proofs about VersionIngest: a rollback, interrupted and repeated as     *)
(* often as may be, restores the content; no step takes a row from a       *)
(* finished version; and a finished version is whole.                      *)
(***************************************************************************)
EXTENDS VersionIngest, QueueLemmas, FiniteSetTheorems

-----------------------------------------------------------------------------
(***************************************************************************)
(* The inductive invariant.                                                *)
(***************************************************************************)
Ids == Nat \ {0}
Marked == {"blob", "tag", "commit", "def"}
Phases == {"down", "check", "recover", "register", "ref", "delete", "mark", "dedup", "parse"}

\* The content tables at the last point a rollback goes back to.
Stable == IF before = NoRun THEN [t \in Content |-> db[t]] ELSE before
\* All rows the engine knows, written or not.
AllRows == [t \in Cached |-> Held(t)]

RowType == [commit     |-> [id : Ids, of : Commits],
            blob       |-> [id : Ids, of : Files],
            tag        |-> [id : Ids, of : {TagOf[f] : f \in Files}],
            def        |-> [id : Ids, blob : Ids, tag : Ids],
            bridge     |-> [blob : Ids, tag : Ids],
            checkpoint |-> [commit : Ids, blob : Ids],
            ref        |-> [name : Refs, commit : Ids],
            state      |-> [commit : Ids, status : {DONE, PARSING}],
            mark       |-> [commit : Ids, table : Marked, max : Nat],
            reparse    |-> [commit : Ids, blob : Ids]]

Tables(T, S) ==
    /\ DOMAIN T = S
    /\ \A t \in S : T[t] \subseteq RowType[t] /\ IsFiniteSet(T[t])

TypeOK ==
    /\ Tables(db, Content \cup Book)
    /\ Tables(before, Content)
    /\ Tables(staged, Cached) /\ Tables(batch, Cached)
    /\ pc \in Phases /\ after \in {"register", "mark", "next"}
    /\ todo \in Seq(Refs) /\ work \subseteq Files
    /\ pc # "parse" => staged = Nothing /\ batch = Nothing

\* Versions are finished in the order of the history.
DoneId(id) == [commit |-> id, status |-> DONE] \in db.state
ParsingId(id) == [commit |-> id, status |-> PARSING] \in db.state
DoneCommit(c) == \E r \in db.commit : r.of = c /\ DoneId(r.id)
Earlier(c) == History(c) \ {c}
Reached(c) == \A e \in Earlier(c) : DoneCommit(e)
InOrder(L) == \A i \in DOMAIN L : \A c \in Earlier(HeadOf[L[i]]) :
                 DoneCommit(c) \/ \E j \in 1 .. i - 1 : HeadOf[L[j]] = c
OneRow(rows) == \A r, s \in rows : r.id = s.id \/ r.of = s.of => r = s
OneStatus == \A r, s \in db.state : r.commit = s.commit => r = s

Registered ==
    /\ OneRow(db.commit)
    /\ OneStatus
    /\ \A t \in {"ref", "state", "mark", "reparse"} : \A row \in db[t] :
          \E r \in db.commit : r.id = row.commit /\ Reached(r.of)
    /\ \A row \in db.ref : \E r \in db.commit : r.id = row.commit /\ r.of = HeadOf[row.name]

\* Where the process is.
AllMarked(id) == \A t \in Marked : \E mk \in db.mark : mk.commit = id /\ mk.table = t
Deleting(then) == pc = "delete" /\ after = then
IsCur == [id |-> cur, of |-> Target] \in db.commit

Position ==
    /\ base = NoCommit \/ (base \in Commits /\ DoneCommit(base))
    /\ pc # "down" => todo # << >> /\ InOrder(todo)
    /\ pc \in {"recover", "register"} => cur = CommitId(Target) /\ ~DoneCommit(Target)
    /\ pc \in {"ref", "mark", "dedup", "parse"} \/ Deleting("register") \/ Deleting("mark") =>
          IsCur /\ ~DoneId(cur)
    /\ Deleting("next") => IsCur /\ DoneId(cur)
    /\ pc \in {"recover", "dedup", "parse"} \/ Deleting("register") => ParsingId(cur)
    /\ pc \in {"mark", "dedup", "parse"} \/ Deleting("mark") => \E row \in db.ref : row.commit = cur
    /\ pc \in {"ref", "mark"} \/ Deleting("mark") \/ Deleting("next") => before = NoRun
    /\ pc \in {"dedup", "parse"} => before # NoRun /\ AllMarked(cur)
    /\ before # NoRun => \E row \in db.state : row.status = PARSING
    /\ pc \in {"register", "dedup"} => \A t \in Content : db[t] = Stable[t]

\* The stable rows: every parsed blob has its one tag and its one definition.
Derived(T, row) == \E b \in T["blob"], g \in T["tag"] :
                      b.id = row.blob /\ g.id = row.tag /\ g.of = TagOf[b.of]
Sound(T) ==
    /\ OneRow(T["blob"]) /\ OneRow(T["tag"])
    /\ \A row \in T["bridge"] : Derived(T, row) /\ \E d \in T["def"] : d.blob = row.blob
    /\ \A row \in T["def"] : Derived(T, row) /\ \E r \in T["bridge"] : r.blob = row.blob
    /\ \A r, s \in T["def"] : r.blob = s.blob => r = s

\* A file of a version that is complete.
Stored(T, id, f) ==
    \E b \in T["blob"] : /\ b.of = f /\ [commit |-> id, blob |-> b.id] \in T["checkpoint"]
                         /\ \E r \in T["bridge"] : r.blob = b.id
FileOf(T, row, c) == \E b \in T["blob"] : b.id = row.blob /\ b.of \in Tree[c]

Whole ==
    /\ \A r \in db.commit : DoneId(r.id) =>
          /\ \E row \in db.ref : row.commit = r.id
          /\ \A f \in Tree[r.of] : Stored(Stable, r.id, f)
    /\ \A row \in Stable.checkpoint : \E r \in db.commit :
          r.id = row.commit /\ DoneId(r.id) /\ FileOf(Stable, row, r.of)

\* What was written since is above the marks, or derived from a recorded blob.
Top(t) == MaxId(Stable[t])
Redone(b) == \E row \in db.reparse : row.blob = b /\ ParsingId(row.commit)
NewBlob(b) == b > Top("blob") \/ Redone(b)
IsNew(t, row) ==
    /\ t \in {"blob", "tag", "def"} => row.id > Top(t)
    /\ t \in {"bridge", "def"} => NewBlob(row.blob)
    /\ t = "checkpoint" => ParsingId(row.commit)

Since ==
    /\ \A t \in Content : Stable[t] \subseteq db[t]
    /\ Stable.commit = db.commit
    /\ OneRow(Held("blob")) /\ OneRow(Held("tag"))
    /\ \A t \in Cached : \A row \in Held(t) \ Stable[t] : IsNew(t, row)
    /\ (\E t \in Cached : Held(t) # Stable[t]) => \A s \in db.state : s.status = PARSING => AllMarked(s.commit)

Recorded ==
    /\ \A mk \in db.mark : ~DoneId(mk.commit) => mk.max = Top(mk.table)
    /\ \A rp \in db.reparse : ~DoneId(rp.commit) =>
          \A t \in {"bridge", "def"} : \A row \in Stable[t] : row.blob # rp.blob

\* The deletes to come spare what is stable and reach all that is not, before
\* the marks go.
Logs == {"mark", "reparse"}
Covers(d, t, row) == d.table = t /\ row[d.col] \in d.ids
Spares(d) ==
    \/ d.table \in Logs /\ d.col = "commit" /\ d.ids = {cur}
    \/ d.table \in Content /\ \A row \in Stable[d.table] : row[d.col] \notin d.ids
    \/ d.table \in {"ref", "state"} /\ \A row \in db[d.table] : row[d.col] \notin d.ids
Reaches(t, row) ==
    \E i \in DOMAIN plan : Covers(plan[i], t, row) /\ \A j \in 1 .. i : plan[j].table \notin Logs

Deletes == [table : Content \cup Book, col : {"id", "blob", "tag", "commit"}, ids : SUBSET Nat]
Deleted ==
    pc = "delete" =>
      /\ plan \in Seq(Deletes)
      /\ \A i \in DOMAIN plan : Spares(plan[i])
      /\ after # "register" => \A i \in DOMAIN plan : plan[i].table \in Logs
      /\ after = "register" =>
            \A t \in Cached : \A row \in db[t] \ Stable[t] : Reaches(t, row)

\* While files are parsed.
Unparsed(f) ==
    \A b \in Held("blob") : b.of = f =>
        /\ \A r \in Held("bridge") : r.blob # b.id
        /\ b \in Stable.blob => [commit |-> cur, blob |-> b.id] \in db.reparse
Parsing ==
    pc = "parse" =>
      /\ work \subseteq Tree[Target]
      /\ Sound(AllRows)
      /\ \A f \in Tree[Target] \ work : Stored(AllRows, cur, f)
      /\ \A row \in Held("checkpoint") : row.commit = cur => FileOf(AllRows, row, Target)
      /\ \A f \in work : Unparsed(f)

\* What holds of the tables, and what of the process.
Data == Registered /\ Sound(Stable) /\ Whole /\ Since /\ Recorded

IInv == TypeOK /\ Data /\ Position /\ Deleted /\ Parsing

-----------------------------------------------------------------------------
(***************************************************************************)
(* Rows and ids.                                                           *)
(***************************************************************************)
\* The ids of finitely many rows are bounded.
LEMMA FiniteBound ==
    ASSUME NEW rows, IsFiniteSet(rows), \A r \in rows : r.id \in Nat
    PROVE  \E n \in Nat : \A r \in rows : r.id <= n
<1> DEFINE Bounded(S) == \E n \in Nat : \A r \in S : r.id <= n
           T == {Cardinality(S) : S \in {s \in SUBSET rows : ~Bounded(s)}}
<1> SUFFICES ASSUME ~Bounded(rows) PROVE FALSE
  OBVIOUS
<1>1. ASSUME NEW S \in SUBSET rows
      PROVE  IsFiniteSet(S) /\ Cardinality(S) \in Nat
  BY FS_Subset, FS_CardinalityType
<1>2. T \in SUBSET Nat /\ T # {}
  <2>1. rows \in {s \in SUBSET rows : ~Bounded(s)}
    OBVIOUS
  <2> HIDE DEF Bounded
  <2>2. QED
    BY <1>1, <2>1
<1>3. PICK t \in T : \A y \in T : ~(y < t)
  <2> HIDE DEF T
  <2>1. QED
    BY <1>2, LeastNumber
<1>4. PICK S \in SUBSET rows : ~Bounded(S) /\ Cardinality(S) = t
  <2> HIDE DEF Bounded
  <2>1. QED
    BY <1>3
<1>5. PICK x \in S : TRUE
  <2>1. 0 \in Nat
    OBVIOUS
  <2>2. QED
    BY <1>4, <2>1
<1>6. IsFiniteSet(S \ {x}) /\ Cardinality(S \ {x}) = t - 1 /\ t \in Nat
  BY <1>1, <1>4, <1>5, FS_RemoveElement
<1>7. S \ {x} \in SUBSET rows
  OBVIOUS
<1>8. Bounded(S \ {x})
  <2> SUFFICES ASSUME ~Bounded(S \ {x}) PROVE FALSE
    OBVIOUS
  <2>1. t - 1 \in T
    <3> HIDE DEF Bounded
    <3>1. QED
      BY <1>6, <1>7
  <2> HIDE DEF T
  <2>2. QED
    BY <1>3, <1>6, <2>1
<1>9. PICK n \in Nat : \A r \in S \ {x} : r.id <= n
  BY <1>8
<1>10. PICK m \in Nat : n <= m /\ x.id <= m
  <2>1. x.id \in Nat
    BY <1>5
  <2>2. n + x.id \in Nat /\ n <= n + x.id /\ x.id <= n + x.id
    BY <2>1
  <2>3. QED
    BY <2>2
<1>11. ASSUME NEW r \in S PROVE r.id <= m
  <2>1. CASE r = x
    BY <1>10, <2>1
  <2>2. CASE r # x
    <3>1. r \in S \ {x} /\ r.id \in Nat
      BY <2>2
    <3>2. QED
      BY <1>9, <1>10, <3>1
  <2>3. QED
    BY <2>1, <2>2
<1>12. Bounded(S)
  BY <1>11
<1>13. QED
  BY <1>4, <1>12

\* The highest id of a table bounds its ids, and is one of them or 0.
LEMMA HighestId ==
    ASSUME NEW rows, IsFiniteSet(rows), \A r \in rows : r.id \in Nat
    PROVE  /\ MaxId(rows) \in Nat /\ \A r \in rows : r.id <= MaxId(rows)
           /\ MaxId(rows) = 0 \/ \E r \in rows : r.id = MaxId(rows)
<1> DEFINE S == {0} \cup {r.id : r \in rows}
           U == {n \in Nat : \A x \in S : x <= n}
<1>1. S \subseteq Nat /\ 0 \in S /\ \A r \in rows : r.id \in S
  OBVIOUS
<1>2. PICK b \in Nat : \A r \in rows : r.id <= b
  BY FiniteBound
<1>3. \A x \in S : x <= b
  BY <1>2
<1>4. U \in SUBSET Nat /\ b \in U
  BY <1>3
<1>5. PICK u \in U : \A y \in U : ~(y < u)
  <2> HIDE DEF U
  <2>1. QED
    BY <1>4, LeastNumber
<1>6. u \in Nat /\ \A x \in S : x <= u
  BY <1>5
<1>7. u \in S
  <2> SUFFICES ASSUME u \notin S PROVE FALSE
    OBVIOUS
  <2>1. u # 0
    BY <1>1
  <2>2. u - 1 \in Nat /\ u - 1 < u
    BY <1>6, <2>1
  <2>3. \A x \in S : x <= u - 1
    <3> TAKE x \in S
    <3>1. x \in Nat /\ x <= u /\ x # u
      <4> HIDE DEF S
      <4>1. QED
        BY <1>1, <1>6
    <3>2. QED
      BY <1>6, <3>1
  <2>4. u - 1 \in U
    <3> HIDE DEF S
    <3>1. QED
      BY <2>2, <2>3
  <2>5. QED
    BY <1>5, <2>2, <2>4
<1> HIDE DEF S
<1>8. \E x \in S : \A y \in S : x >= y
  <2>1. \A y \in S : u >= y
    BY <1>1, <1>6
  <2>2. QED
    BY <1>7, <2>1
<1>9. MaxId(rows) = Max(S)
  BY DEF MaxId, S
<1>10. Max(S) \in S /\ \A y \in S : Max(S) >= y
  BY <1>8 DEF Max
<1>11. Max(S) \in Nat /\ \A y \in S : y <= Max(S)
  BY <1>1, <1>10
<1>12. Max(S) = 0 \/ \E r \in rows : r.id = Max(S)
  BY <1>10 DEF S
<1>13. QED
  BY <1>1, <1>9, <1>11, <1>12

\* The id of a content is that of its row.
LEMMA IdOfRow ==
    ASSUME NEW rows, OneRow(rows), NEW r \in rows
    PROVE  IdIn(rows, r.of) = r.id
<1> DEFINE Is(s) == s \in rows /\ s.of = r.of
<1>1. (CHOOSE s \in rows : s.of = r.of) = r
  <2>1. \A s \in rows : s.of = r.of => s = r
    BY DEF OneRow
  <2>2. QED
    BY <2>1
<1>2. QED
  BY <1>1 DEF IdIn

LEMMA IdOfContent ==
    ASSUME NEW rows, NEW x, OneRow(rows), \A r \in rows : r.id \in Ids
    PROVE  /\ IdIn(rows, x) = NoId <=> \A r \in rows : r.of # x
           /\ IdIn(rows, x) # NoId => \E r \in rows : r.of = x /\ r.id = IdIn(rows, x)
<1>1. CASE \E r \in rows : r.of = x
  <2>1. PICK r \in rows : r.of = x
    BY <1>1
  <2>2. IdIn(rows, x) = r.id
    BY <2>1, IdOfRow
  <2>3. QED
    BY <2>1, <2>2 DEF Ids, NoId
<1>2. CASE ~\E r \in rows : r.of = x
  BY <1>2 DEF IdIn
<1>3. QED
  BY <1>1, <1>2

-----------------------------------------------------------------------------
(***************************************************************************)
(* The history, and the versions that are finished.                        *)
(***************************************************************************)
\* A commit is in its own history, and the histories are nested.
LEMMA Histories ==
    /\ \A c \in Commits : c \in History(c) /\ History(c) \subseteq Commits
    /\ \A c, d \in Commits : c # d => c \in Earlier(d) \/ d \in Earlier(c)
<1>1. /\ DOMAIN CommitOrder = 1 .. Len(CommitOrder) /\ Len(CommitOrder) \in Nat
      /\ \A i \in DOMAIN CommitOrder : CommitOrder[i] \in Commits
      /\ \A i, j \in DOMAIN CommitOrder : CommitOrder[i] = CommitOrder[j] => i = j
  BY IngestAssumptions DEF IsInjective
<1>2. ASSUME NEW c \in Commits
      PROVE  \E i \in DOMAIN CommitOrder :
                CommitOrder[i] = c /\ History(c) = {CommitOrder[k] : k \in 1 .. i}
  <2>1. PICK i \in DOMAIN CommitOrder : CommitOrder[i] = c
    BY DEF Commits, ToSet
  <2>2. (CHOOSE k \in DOMAIN CommitOrder : CommitOrder[k] = c) = i
    BY <1>1, <2>1
  <2>3. QED
    BY <2>1, <2>2 DEF History
<1>3. ASSUME NEW c \in Commits
      PROVE  c \in History(c) /\ History(c) \subseteq Commits
  <2>1. PICK i \in DOMAIN CommitOrder :
                CommitOrder[i] = c /\ History(c) = {CommitOrder[k] : k \in 1 .. i}
    BY <1>2
  <2>2. i \in 1 .. i /\ 1 .. i \subseteq DOMAIN CommitOrder
    BY <1>1
  <2>3. QED
    BY <1>1, <2>1, <2>2
<1>4. ASSUME NEW c \in Commits, NEW d \in Commits, c # d
      PROVE  c \in Earlier(d) \/ d \in Earlier(c)
  <2>1. PICK i \in DOMAIN CommitOrder :
                CommitOrder[i] = c /\ History(c) = {CommitOrder[k] : k \in 1 .. i}
    BY <1>2
  <2>2. PICK j \in DOMAIN CommitOrder :
                CommitOrder[j] = d /\ History(d) = {CommitOrder[k] : k \in 1 .. j}
    BY <1>2
  <2>3. i \in 1 .. j \/ j \in 1 .. i
    BY <1>1
  <2>4. c \in History(d) \/ d \in History(c)
    BY <2>1, <2>2, <2>3
  <2>5. QED
    BY <1>4, <2>4 DEF Earlier
<1>5. QED
  BY <1>3, <1>4

\* What the rows of a table look like.
LEMMA RowTypes ==
    ASSUME TypeOK
    PROVE  /\ \A r \in db["commit"] : r.id \in Ids /\ r.of \in Commits /\ r = [id |-> r.id, of |-> r.of]
           /\ \A r \in db["ref"] : r.name \in Refs /\ r.commit \in Ids
           /\ \A r \in db["state"] : r.commit \in Ids /\ r.status \in {DONE, PARSING}
                                     /\ r = [commit |-> r.commit, status |-> r.status]
           /\ \A r \in db["mark"] : r.commit \in Ids /\ r.table \in Marked /\ r.max \in Nat
           /\ \A r \in db["reparse"] : r.commit \in Ids /\ r.blob \in Ids
                                       /\ r = [commit |-> r.commit, blob |-> r.blob]
<1>1. \A t \in {"commit", "ref", "state", "mark", "reparse"} : db[t] \subseteq RowType[t]
  BY DEF TypeOK, Tables, Content, Cached, Book
<1>2. QED
  BY <1>1 DEF RowType

\* A commit is done or not by its id.
LEMMA DoneById ==
    ASSUME TypeOK, Registered, NEW r \in db["commit"]
    PROVE  DoneCommit(r.of) <=> DoneId(r.id)
BY DEF DoneCommit, Registered, OneRow

\* There is one version at a time to go on with.
LEMMA OneOpen ==
    ASSUME TypeOK, Registered,
           NEW r \in db["commit"], Reached(r.of), ~DoneId(r.id),
           NEW c \in Commits, Reached(c), ~DoneCommit(c)
    PROVE  r.of = c
<1>1. ~DoneCommit(r.of) /\ r.of \in Commits
  BY DoneById, RowTypes
<1>2. QED
  BY <1>1, Histories DEF Reached

\* The status of a commit, and the commit a tag is registered for.
LEMMA StatusIs ==
    ASSUME TypeOK, Registered, NEW id
    PROVE  /\ Status(id) = DONE <=> DoneId(id)
           /\ Status(id) = PARSING <=> ParsingId(id)
           /\ Status(id) # "new" => DoneId(id) \/ ParsingId(id)
           /\ ~(DoneId(id) /\ ParsingId(id))
           /\ DoneId(id) \/ ParsingId(id) => id \in Ids
<1>1. ASSUME NEW row \in db["state"], row.commit = id
      PROVE  Status(id) = row.status
  <2>1. \A s \in db["state"] : s.commit = id => s = row
    BY <1>1 DEF Registered, OneStatus
  <2>2. (CHOOSE s \in db["state"] : s.commit = id) = row
    BY <1>1, <2>1
  <2>3. QED
    BY <1>1, <2>2 DEF Status
<1>2. ASSUME ~\E row \in db["state"] : row.commit = id PROVE Status(id) = "new"
  BY <1>2 DEF Status
<1>3. \A row \in db["state"] : /\ row.commit \in Ids /\ row.status \in {DONE, PARSING}
                               /\ row = [commit |-> row.commit, status |-> row.status]
  BY RowTypes
<1>4. CASE \E row \in db["state"] : row.commit = id
  <2>1. PICK row \in db["state"] : row.commit = id
    BY <1>4
  <2>2. \A s \in db["state"] : s.commit = id => s = row
    BY <2>1 DEF Registered, OneStatus
  <2>3. Status(id) = row.status /\ row = [commit |-> id, status |-> row.status] /\ id \in Ids
    BY <1>1, <1>3, <2>1
  <2>4. DoneId(id) <=> row.status = DONE
    BY <2>2, <2>3 DEF DoneId, DONE, PARSING
  <2>5. ParsingId(id) <=> row.status = PARSING
    BY <2>2, <2>3 DEF ParsingId, DONE, PARSING
  <2>6. row.status \in {DONE, PARSING} /\ DONE # PARSING
    BY <1>3 DEF DONE, PARSING
  <2>7. QED
    BY <2>3, <2>4, <2>5, <2>6 DEF DONE, PARSING
<1>5. CASE ~\E row \in db["state"] : row.commit = id
  <2>1. ~DoneId(id) /\ ~ParsingId(id)
    BY <1>5 DEF DoneId, ParsingId
  <2>2. QED
    BY <1>2, <1>5, <2>1 DEF DONE, PARSING
<1>6. QED
  BY <1>4, <1>5

LEMMA CommitIdIs ==
    ASSUME TypeOK, Registered, NEW c
    PROVE  /\ CommitId(c) = NoId <=> \A r \in db["commit"] : r.of # c
           /\ CommitId(c) # NoId => [id |-> CommitId(c), of |-> c] \in db["commit"]
           /\ \A r \in db["commit"] : r.of = c => CommitId(c) = r.id
<1>1. OneRow(db["commit"]) /\ \A r \in db["commit"] : r.id \in Ids /\ r = [id |-> r.id, of |-> r.of]
  BY RowTypes DEF Registered
<1>2. CommitId(c) = IdIn(db["commit"], c)
  BY DEF CommitId
<1>3. QED
  BY <1>1, <1>2, IdOfContent, IdOfRow

\* A tag, once registered, has the row of its head commit.
LEMMA RefIdIs ==
    ASSUME TypeOK, Registered, NEW t
    PROVE  RefId(t) # NoId => RefId(t) = CommitId(HeadOf[t])
<1> SUFFICES ASSUME RefId(t) # NoId PROVE RefId(t) = CommitId(HeadOf[t])
  OBVIOUS
<1>1. PICK row \in db["ref"] : row.name = t /\ RefId(t) = row.commit
  BY DEF RefId
<1>2. PICK r \in db["commit"] : r.id = row.commit /\ r.of = HeadOf[t]
  BY <1>1 DEF Registered
<1>3. QED
  BY <1>1, <1>2, CommitIdIs

LEMMA FinishedIsDone ==
    ASSUME TypeOK, Registered, NEW t, Finished(t)
    PROVE  DoneCommit(HeadOf[t])
<1>1. DoneId(RefId(t)) /\ RefId(t) # NoId
  BY StatusIs DEF Finished, Ids, NoId
<1>2. [id |-> RefId(t), of |-> HeadOf[t]] \in db["commit"]
  BY <1>1, RefIdIs, CommitIdIs
<1>3. QED
  BY <1>1, <1>2 DEF DoneCommit

\* The status main() asks for is that of the target's commit.
LEMMA KnownIs ==
    ASSUME TypeOK, Registered
    PROVE  /\ Status(KnownId) = DONE <=> DoneCommit(Target)
           /\ Status(KnownId) = PARSING => ParsingId(CommitId(Target))
           /\ ParsingId(CommitId(Target)) => Status(KnownId) = PARSING
<1>1. KnownId = CommitId(Target)
  BY RefIdIs DEF KnownId, Target
<1>2. DoneId(CommitId(Target)) <=> DoneCommit(Target)
  <2>1. ASSUME DoneId(CommitId(Target)) PROVE DoneCommit(Target)
    <3>1. CommitId(Target) # NoId
      BY <2>1, StatusIs DEF Ids, NoId
    <3>2. [id |-> CommitId(Target), of |-> Target] \in db["commit"]
      BY <3>1, CommitIdIs
    <3>3. QED
      BY <2>1, <3>2 DEF DoneCommit
  <2>2. ASSUME DoneCommit(Target) PROVE DoneId(CommitId(Target))
    BY <2>2, CommitIdIs DEF DoneCommit
  <2>3. QED
    BY <2>1, <2>2
<1>3. QED
  BY <1>1, <1>2, StatusIs

-----------------------------------------------------------------------------
(***************************************************************************)
(* What each part of the invariant depends on.                             *)
(***************************************************************************)
LEMMA StableIs ==
    /\ before = NoRun => \A t \in Content : Stable[t] = db[t]
    /\ before # NoRun => \A t \in Content : Stable[t] = before[t]
BY DEF Stable

LEMMA StableTypes ==
    ASSUME TypeOK
    PROVE  \A t \in Content : Stable[t] \subseteq RowType[t] /\ IsFiniteSet(Stable[t])
BY StableIs DEF TypeOK, Tables

\* Fields of the stable rows.
LEMMA StableRows ==
    ASSUME TypeOK
    PROVE  /\ \A t \in {"blob", "tag", "commit", "def"} : \A r \in Stable[t] : r.id \in Ids
           /\ \A t \in {"bridge", "def", "checkpoint"} : \A r \in Stable[t] : r.blob \in Ids
           /\ \A t \in {"bridge", "def"} : \A r \in Stable[t] : r.tag \in Ids
           /\ \A r \in Stable["checkpoint"] : r.commit \in Ids
           /\ \A r \in Stable["blob"] : r.of \in Files /\ r = [id |-> r.id, of |-> r.of]
           /\ \A r \in Stable["checkpoint"] : r = [commit |-> r.commit, blob |-> r.blob]
<1>1. \A t \in {"blob", "tag", "commit", "def", "bridge", "checkpoint"} : Stable[t] \subseteq RowType[t]
  BY StableTypes DEF Content, Cached
<1>2. QED
  BY <1>1 DEF RowType

\* The same rows of the engine, written and not written.
LEMMA HeldTypes ==
    ASSUME TypeOK
    PROVE  /\ \A t \in Cached : AllRows[t] = Held(t)
           /\ \A t \in Cached : Held(t) \subseteq RowType[t] /\ IsFiniteSet(Held(t)) /\ db[t] \subseteq Held(t)
<1>1. \A t \in Cached : AllRows[t] = Held(t)
  BY DEF AllRows
<1>2. ASSUME NEW t \in Cached
      PROVE  Held(t) \subseteq RowType[t] /\ IsFiniteSet(Held(t)) /\ db[t] \subseteq Held(t)
  <2>1. /\ db[t] \subseteq RowType[t] /\ batch[t] \subseteq RowType[t] /\ staged[t] \subseteq RowType[t]
        /\ IsFiniteSet(db[t]) /\ IsFiniteSet(batch[t]) /\ IsFiniteSet(staged[t])
    BY DEF TypeOK, Tables, Content
  <2>2. IsFiniteSet(db[t] \cup batch[t])
    BY <2>1, FS_Union
  <2>3. IsFiniteSet((db[t] \cup batch[t]) \cup staged[t])
    BY <2>1, <2>2, FS_Union
  <2>4. QED
    BY <2>1, <2>3 DEF Held
<1>3. QED
  BY <1>1, <1>2

LEMMA HeldRows ==
    ASSUME TypeOK
    PROVE  /\ \A t \in {"blob", "tag", "def"} : \A r \in Held(t) : r.id \in Ids
           /\ \A t \in {"bridge", "def", "checkpoint"} : \A r \in Held(t) : r.blob \in Ids
           /\ \A t \in {"bridge", "def"} : \A r \in Held(t) : r.tag \in Ids
           /\ \A r \in Held("checkpoint") : r.commit \in Ids
           /\ \A r \in Held("blob") : r.of \in Files /\ r = [id |-> r.id, of |-> r.of]
           /\ \A r \in Held("tag") : r = [id |-> r.id, of |-> r.of]
           /\ \A r \in Held("checkpoint") : r = [commit |-> r.commit, blob |-> r.blob]
           /\ \A r \in Held("bridge") : r = [blob |-> r.blob, tag |-> r.tag]
<1>1. \A t \in {"blob", "tag", "def", "bridge", "checkpoint"} : Held(t) \subseteq RowType[t]
  BY HeldTypes DEF Cached
<1>2. QED
  BY <1>1 DEF RowType

\* Outside the parse phase nothing is staged.
LEMMA NothingStaged ==
    ASSUME TypeOK, pc # "parse"
    PROVE  \A t \in Cached : Held(t) = db[t] /\ staged[t] = {} /\ batch[t] = {}
BY DEF TypeOK, Held, Nothing

\* The highest stable id.
LEMMA TopIs ==
    ASSUME TypeOK, NEW t \in Marked
    PROVE  /\ Top(t) \in Nat /\ \A r \in Stable[t] : r.id <= Top(t)
           /\ Top(t) = 0 \/ \E r \in Stable[t] : r.id = Top(t)
<1>1. t \in Content /\ t \in {"blob", "tag", "commit", "def"}
  BY DEF Marked, Content, Cached
<1>2. IsFiniteSet(Stable[t]) /\ \A r \in Stable[t] : r.id \in Nat
  BY <1>1, StableTypes, StableRows DEF Ids
<1>3. QED
  BY <1>2, HighestId DEF Top

\* The first version of the list comes next in the history.
LEMMA TargetIs ==
    ASSUME TypeOK, todo # << >>, InOrder(todo)
    PROVE  Head(todo) \in Refs /\ Target \in Commits /\ Reached(Target)
<1>1. 1 \in DOMAIN todo /\ Head(todo) = todo[1] /\ todo[1] \in Refs
  BY DEF TypeOK
<1>2. Target = HeadOf[todo[1]] /\ Target \in Commits
  BY <1>1, IngestAssumptions DEF Target
<1>3. \A c \in Earlier(Target) : DoneCommit(c) \/ \E j \in 1 .. 1 - 1 : HeadOf[todo[j]] = c
  BY <1>1, <1>2 DEF InOrder
<1>4. \A j \in 1 .. 1 - 1 : FALSE
  OBVIOUS
<1>5. QED
  BY <1>1, <1>2, <1>3, <1>4 DEF Reached

\* What is not finished belongs to the version the process is at.
LEMMA OpenIsCur ==
    ASSUME TypeOK, Registered, todo # << >>, InOrder(todo), IsCur, ~DoneId(cur)
    PROVE  /\ cur \in Ids
           /\ \A t \in {"state", "mark", "reparse"} : \A row \in db[t] : ~DoneId(row.commit) => row.commit = cur
           /\ \A id : ParsingId(id) => id = cur
<1> DEFINE c == [id |-> cur, of |-> Target]
<1>1. c \in db["commit"] /\ c.id = cur /\ c.of = Target
  BY DEF IsCur
<1>2. Target \in Commits /\ Reached(Target) /\ ~DoneCommit(Target) /\ cur \in Ids
  BY <1>1, TargetIs, DoneById, RowTypes
<1>3. ASSUME NEW t \in {"ref", "state", "mark", "reparse"}, NEW row \in db[t], ~DoneId(row.commit)
      PROVE  row.commit = cur
  <2>1. PICK r \in db["commit"] : r.id = row.commit /\ Reached(r.of)
    BY DEF Registered
  <2>2. r.of = Target
    BY <1>2, <1>3, <2>1, OneOpen
  <2>3. r = c
    BY <1>1, <2>2 DEF Registered, OneRow
  <2>4. QED
    BY <1>1, <2>1, <2>3
<1>4. ASSUME NEW id, ParsingId(id) PROVE id = cur
  <2>1. [commit |-> id, status |-> PARSING] \in db["state"] /\ ~DoneId(id)
    BY <1>4, StatusIs DEF ParsingId
  <2>2. QED
    BY <1>3, <2>1
<1>5. QED
  BY <1>2, <1>3, <1>4

\* The marks of the run.
LEMMA MarksAre ==
    ASSUME TypeOK, Recorded, ~DoneId(cur)
    PROVE  /\ DOMAIN Marks \subseteq Marked
           /\ \A t \in Marked : t \in DOMAIN Marks <=> \E mk \in db["mark"] : mk.commit = cur /\ mk.table = t
           /\ \A t \in DOMAIN Marks : Marks[t] = Top(t)
           /\ AllMarked(cur) <=> DOMAIN Marks = Marked
<1> DEFINE rows == RowsOf("mark", cur)
<1>1. DOMAIN Marks = {row.table : row \in rows}
  BY DEF Marks
<1>2. \A row : row \in rows <=> row \in db["mark"] /\ row.commit = cur
  BY DEF RowsOf
<1>3. \A row \in rows : row.table \in Marked /\ row.max = Top(row.table)
  BY <1>2, RowTypes DEF Recorded
<1>4. ASSUME NEW t \in DOMAIN Marks PROVE Marks[t] = Top(t)
  <2>1. Marks[t] = (CHOOSE row \in rows : row.table = t).max
    BY DEF Marks
  <2>2. \E row \in rows : row.table = t
    BY <1>1
  <2> HIDE DEF rows
  <2>3. (CHOOSE row \in rows : row.table = t) \in rows /\ (CHOOSE row \in rows : row.table = t).table = t
    BY <2>2
  <2>4. QED
    BY <1>3, <2>1, <2>3
<1> HIDE DEF rows
<1>5. \A t \in Marked : t \in DOMAIN Marks <=> \E mk \in db["mark"] : mk.commit = cur /\ mk.table = t
  BY <1>1, <1>2
<1>6. DOMAIN Marks \subseteq Marked
  BY <1>1, <1>3
<1>7. QED
  BY <1>4, <1>5, <1>6 DEF AllMarked

-----------------------------------------------------------------------------
(***************************************************************************)
(* Steps that leave what a part depends on alone.                          *)
(***************************************************************************)
SameStable == \A t \in Content : Stable'[t] = Stable[t]

LEMMA KeepsStable ==
    ASSUME before' = before, \A t \in Content : db'[t] = db[t]
    PROVE  SameStable
<1>1. before = NoRun => \A t \in Content : Stable[t] = db[t]
  BY DEF Stable
<1>2. before # NoRun => \A t \in Content : Stable[t] = before[t]
  BY DEF Stable
<1>3. before' = NoRun => \A t \in Content : Stable'[t] = db'[t]
  BY DEF Stable
<1>4. before' # NoRun => \A t \in Content : Stable'[t] = before'[t]
  BY DEF Stable
<1>5. NoRun' = NoRun
  BY DEF NoRun
<1>6. QED
  BY <1>1, <1>2, <1>3, <1>4, <1>5 DEF SameStable

SameBook(S) == \A t \in S : db'[t] = db[t]
FewerLogs == \A t \in Logs : db'[t] \subseteq db[t]

LEMMA KeepsStatus ==
    ASSUME SameBook({"state", "commit"})
    PROVE  /\ \A id : DoneId(id)' <=> DoneId(id)
           /\ \A id : ParsingId(id)' <=> ParsingId(id)
           /\ \A c : DoneCommit(c)' <=> DoneCommit(c)
           /\ \A c : Reached(c)' <=> Reached(c)
           /\ \A c : CommitId(c)' = CommitId(c)
<1>1. db'["state"] = db["state"] /\ db'["commit"] = db["commit"]
  BY DEF SameBook
<1>2. \A id : DoneId(id)' <=> DoneId(id)
  BY <1>1 DEF DoneId
<1>3. \A id : ParsingId(id)' <=> ParsingId(id)
  BY <1>1 DEF ParsingId
<1>4. \A c : DoneCommit(c)' <=> DoneCommit(c)
  BY <1>1, <1>2 DEF DoneCommit
<1>5. \A c : Reached(c)' <=> Reached(c)
  BY <1>4 DEF Reached, Earlier, History
<1>6. \A c : CommitId(c)' = CommitId(c)
  BY <1>1 DEF CommitId
<1>7. QED
  BY <1>2, <1>3, <1>4, <1>5, <1>6

LEMMA KeepsRegistered ==
    ASSUME Registered, SameBook({"commit", "state", "ref"}), FewerLogs
    PROVE  Registered'
<1>1. /\ db'["state"] = db["state"] /\ db'["commit"] = db["commit"] /\ db'["ref"] = db["ref"]
      /\ db'["mark"] \subseteq db["mark"] /\ db'["reparse"] \subseteq db["reparse"]
  BY DEF SameBook, FewerLogs, Logs
<1>2. SameBook({"state", "commit"})
  BY <1>1 DEF SameBook
<1>3. \A c : Reached(c)' <=> Reached(c)
  BY <1>2, KeepsStatus
<1>4. \A t \in {"ref", "state", "mark", "reparse"} : \A row \in db'[t] :
          \E r \in db'["commit"] : r.id = row.commit /\ Reached(r.of)'
  <2> TAKE t \in {"ref", "state", "mark", "reparse"}
  <2> TAKE row \in db'[t]
  <2>1. row \in db[t]
    BY <1>1
  <2>2. PICK r \in db["commit"] : r.id = row.commit /\ Reached(r.of)
    BY <2>1 DEF Registered
  <2>3. QED
    BY <1>1, <1>3, <2>2
<1>5. OneRow(db'["commit"]) /\ OneStatus'
  BY <1>1 DEF Registered, OneStatus, OneRow
<1>6. \A row \in db'["ref"] : \E r \in db'["commit"] : r.id = row.commit /\ r.of = HeadOf[row.name]
  BY <1>1 DEF Registered
<1>7. QED
  BY <1>4, <1>5, <1>6 DEF Registered

LEMMA KeepsSound ==
    ASSUME NEW T, NEW U, \A t \in Cached : U[t] = T[t], Sound(T)
    PROVE  Sound(U)
<1>1. U["blob"] = T["blob"] /\ U["tag"] = T["tag"] /\ U["bridge"] = T["bridge"] /\ U["def"] = T["def"]
  BY DEF Cached
<1>2. QED
  BY <1>1 DEF Sound, Derived, OneRow

LEMMA KeepsWhole ==
    ASSUME Whole, SameStable, SameBook({"commit", "state", "ref"})
    PROVE  Whole'
<1>1. /\ db'["state"] = db["state"] /\ db'["commit"] = db["commit"] /\ db'["ref"] = db["ref"]
      /\ Stable'["blob"] = Stable["blob"] /\ Stable'["checkpoint"] = Stable["checkpoint"]
      /\ Stable'["bridge"] = Stable["bridge"]
  BY DEF SameBook, SameStable, Content, Cached
<1>2. \A id : DoneId(id)' <=> DoneId(id)
  BY <1>1 DEF DoneId
<1>3. \A id, f : Stored(Stable', id, f) <=> Stored(Stable, id, f)
  BY <1>1 DEF Stored
<1>4. \A row, c : FileOf(Stable', row, c) <=> FileOf(Stable, row, c)
  BY <1>1 DEF FileOf
<1>5. \A r \in db'["commit"] : DoneId(r.id)' =>
          /\ \E row \in db'["ref"] : row.commit = r.id
          /\ \A f \in Tree[r.of] : Stored(Stable', r.id, f)
  BY <1>1, <1>2, <1>3 DEF Whole
<1>6. \A row \in Stable'["checkpoint"] : \E r \in db'["commit"] :
          r.id = row.commit /\ DoneId(r.id)' /\ FileOf(Stable', row, r.of)
  <2> TAKE row \in Stable'["checkpoint"]
  <2>1. PICK r \in db["commit"] : r.id = row.commit /\ DoneId(r.id) /\ FileOf(Stable, row, r.of)
    BY <1>1 DEF Whole
  <2>2. QED
    BY <1>1, <1>2, <1>4, <2>1
<1>7. QED
  BY <1>5, <1>6 DEF Whole

LEMMA KeepsTop ==
    ASSUME SameStable, NEW t \in Content
    PROVE  Top(t)' = Top(t)
BY DEF SameStable, Top

LEMMA KeepsRecorded ==
    ASSUME TypeOK, Recorded, SameStable, SameBook({"commit", "state"}), FewerLogs
    PROVE  Recorded'
<1>1. \A id : DoneId(id)' <=> DoneId(id)
  BY KeepsStatus DEF SameBook
<1>2. db'["mark"] \subseteq db["mark"] /\ db'["reparse"] \subseteq db["reparse"]
  BY DEF FewerLogs, Logs
<1>3. \A mk \in db["mark"] : mk.table \in Content
  BY RowTypes DEF Marked, Content, Cached
<1>4. Stable'["bridge"] = Stable["bridge"] /\ Stable'["def"] = Stable["def"]
  BY DEF SameStable, Content, Cached
<1>5. \A mk \in db'["mark"] : ~DoneId(mk.commit)' => mk.max = Top(mk.table)'
  <2> SUFFICES ASSUME NEW mk \in db'["mark"], ~DoneId(mk.commit)' PROVE mk.max = Top(mk.table)'
    OBVIOUS
  <2>1. mk \in db["mark"] /\ ~DoneId(mk.commit) /\ mk.table \in Content
    BY <1>1, <1>2, <1>3
  <2>2. mk.max = Top(mk.table)
    BY <2>1 DEF Recorded
  <2>3. QED
    BY <2>1, <2>2, KeepsTop
<1>6. \A rp \in db'["reparse"] : ~DoneId(rp.commit)' =>
          \A t \in {"bridge", "def"} : \A row \in Stable'[t] : row.blob # rp.blob
  BY <1>1, <1>2, <1>4 DEF Recorded
<1>7. QED
  BY <1>5, <1>6 DEF Recorded

\* Rows may go as long as the stable ones stay.
LEMMA KeepsSince ==
    ASSUME TypeOK, Since, SameStable, SameBook({"commit", "state", "mark", "reparse"}),
           \A t \in Content : Stable'[t] \subseteq db'[t],
           \A t \in Cached : Held(t)' \subseteq Held(t)
    PROVE  Since'
<1>1. /\ \A id : ParsingId(id)' <=> ParsingId(id)
      /\ db'["commit"] = db["commit"] /\ db'["reparse"] = db["reparse"] /\ db'["mark"] = db["mark"]
      /\ db'["state"] = db["state"]
  BY KeepsStatus DEF SameBook
<1>2. /\ Stable'["commit"] = Stable["commit"]
      /\ Top("blob")' = Top("blob") /\ Top("tag")' = Top("tag") /\ Top("def")' = Top("def")
      /\ \A t \in Cached : Stable'[t] = Stable[t]
  BY KeepsTop DEF SameStable, Content, Cached
<1>3. \A b : NewBlob(b)' <=> NewBlob(b)
  BY <1>1, <1>2 DEF NewBlob, Redone
<1>4. \A t, row : IsNew(t, row)' <=> IsNew(t, row)
  BY <1>1, <1>2, <1>3 DEF IsNew
<1>5. OneRow(Held("blob"))' /\ OneRow(Held("tag"))'
  <2>1. Held("blob")' \subseteq Held("blob") /\ Held("tag")' \subseteq Held("tag")
    BY DEF Cached
  <2>2. QED
    BY <2>1 DEF Since, OneRow
<1>6. \A t \in Cached : \A row \in Held(t)' \ Stable'[t] : IsNew(t, row)'
  BY <1>2, <1>4 DEF Since
<1>7. Stable'["commit"] = db'["commit"]
  BY <1>1, <1>2 DEF Since
<1>8. (\E t \in Cached : Held(t)' # Stable'[t]) => \A s \in db'["state"] : s.status = PARSING => AllMarked(s.commit)'
  <2> SUFFICES ASSUME NEW t \in Cached, Held(t)' # Stable'[t]
               PROVE  \A s \in db'["state"] : s.status = PARSING => AllMarked(s.commit)'
    OBVIOUS
  <2>1. Stable'[t] \subseteq Held(t)'
    BY DEF Held, Content
  <2>2. Held(t) # Stable[t]
    BY <1>2, <2>1
  <2>3. \A s \in db["state"] : s.status = PARSING => AllMarked(s.commit)
    BY <2>2 DEF Since
  <2>4. QED
    BY <1>1, <2>3 DEF AllMarked
<1>9. QED
  BY <1>5, <1>6, <1>7, <1>8 DEF Since

\* When only stable rows are left there is nothing to show.
LEMMA CleanSince ==
    ASSUME Sound(Stable'), Stable'["commit"] = db'["commit"],
           \A t \in Cached : Held(t)' = Stable'[t] /\ db'[t] = Stable'[t]
    PROVE  Since'
<1>1. \A t \in Content : Stable'[t] \subseteq db'[t]
  BY DEF Content
<1>2. OneRow(Held("blob"))' /\ OneRow(Held("tag"))'
  BY DEF Sound, Cached, OneRow
<1>3. QED
  BY <1>1, <1>2 DEF Since, Content, Cached

LEMMA KeepsOrder ==
    ASSUME InOrder(todo), todo' = todo, \A c : DoneCommit(c)' <=> DoneCommit(c)
    PROVE  InOrder(todo)'
BY DEF InOrder, Earlier, History

\* Nothing is written, and nothing staged is added.
LEMMA KeepsData ==
    ASSUME TypeOK, Data, UNCHANGED <<db, before>>, \A t \in Cached : Held(t)' \subseteq Held(t)
    PROVE  Data'
<1>1. SameStable
  BY KeepsStable
<1>2. SameBook({"commit", "state", "ref"}) /\ SameBook({"commit", "state"}) /\ FewerLogs
      /\ SameBook({"commit", "state", "mark", "reparse"})
  BY DEF SameBook, FewerLogs
<1>3. \A t \in Content : Stable'[t] \subseteq db'[t]
  BY <1>1 DEF Data, Since, SameStable
<1>4. Sound(Stable')
  <2>1. \A t \in Cached : Stable'[t] = Stable[t]
    BY <1>1 DEF SameStable, Content
  <2>2. QED
    BY <2>1, KeepsSound DEF Data
<1>5. QED
  BY <1>1, <1>2, <1>3, <1>4, KeepsRegistered, KeepsWhole, KeepsSince, KeepsRecorded DEF Data

-----------------------------------------------------------------------------
(***************************************************************************)
(* The release pipeline.                                                   *)
(***************************************************************************)
\* Between two versions little is known of the process.
LEMMA Between ==
    ASSUME pc' \in {"down", "check"},
           (base = NoCommit \/ (base \in Commits /\ DoneCommit(base)))',
           (pc # "down" => todo # << >> /\ InOrder(todo))',
           (before # NoRun => \E row \in db.state : row.status = PARSING)'
    PROVE  Position' /\ Deleted' /\ Parsing'
BY DEF Position, Deleted, Parsing, Deleting

LEMMA SomeTarget ==
    ASSUME TypeOK, todo # << >>
    PROVE  /\ Head(todo) \in Refs /\ Target \in Commits /\ Tail(todo) \in Seq(Refs)
           /\ Len(Tail(todo)) = Len(todo) - 1 /\ Len(todo) \in Nat \ {0}
           /\ \A i \in 1 .. Len(todo) - 1 : Tail(todo)[i] = todo[i + 1]
           /\ Head(todo) = todo[1]
<1>1. todo \in Seq(Refs)
  BY DEF TypeOK
<1>2. Head(todo) \in Refs
  BY <1>1
<1>3. QED
  BY <1>1, <1>2, IngestAssumptions DEF Target

LEMMA OrderedNext ==
    ASSUME \A c : DoneCommit(c)' <=> DoneCommit(c),
           \A i \in DOMAIN todo' : \A c \in Earlier(HeadOf[todo'[i]]) :
              DoneCommit(c) \/ \E j \in 1 .. i - 1 : HeadOf[todo'[j]] = c
    PROVE  InOrder(todo)'
BY DEF InOrder, Earlier, History

\* The rest of an ordered list is ordered when its first version is done.
LEMMA RestInOrder ==
    ASSUME TypeOK, todo # << >>, InOrder(todo), DoneCommit(Target),
           todo' = Tail(todo), \A c : DoneCommit(c)' <=> DoneCommit(c)
    PROVE  InOrder(todo)'
<1>1. /\ Len(todo) \in Nat \ {0} /\ DOMAIN todo = 1 .. Len(todo) /\ DOMAIN todo' = 1 .. Len(todo) - 1
      /\ \A i \in 1 .. Len(todo) - 1 : todo'[i] = todo[i + 1]
      /\ Target = HeadOf[todo[1]]
  <2>1. todo' \in Seq(Refs) /\ Len(todo') = Len(todo) - 1
    BY SomeTarget
  <2>2. QED
    BY <2>1, SomeTarget DEF TypeOK, Target
<1>11. DOMAIN todo' = 1 .. Len(todo) - 1
  BY <1>1
<1> SUFFICES ASSUME NEW i \in 1 .. Len(todo) - 1, NEW c \in Earlier(HeadOf[todo'[i]]), ~DoneCommit(c)
             PROVE  \E j \in 1 .. i - 1 : HeadOf[todo'[j]] = c
  <2>1. (\A i \in 1 .. Len(todo) - 1 : \A c \in Earlier(HeadOf[todo'[i]]) :
              DoneCommit(c) \/ \E j \in 1 .. i - 1 : HeadOf[todo'[j]] = c)
        => InOrder(todo)'
    BY <1>11, OrderedNext
  <2>2. QED
    BY <2>1
<1>2. i + 1 \in DOMAIN todo /\ todo'[i] = todo[i + 1] /\ i \in Nat
  BY <1>1
<1>3. PICK j \in 1 .. (i + 1) - 1 : HeadOf[todo[j]] = c
  BY <1>2 DEF InOrder
<1>4. j # 1
  BY <1>1, <1>3
<1>5. j - 1 \in 1 .. i - 1 /\ j - 1 \in 1 .. Len(todo) - 1
  BY <1>1, <1>2, <1>3, <1>4
<1>6. todo'[j - 1] = todo[j]
  <2>1. j - 1 + 1 = j
    BY <1>3, <1>2
  <2>2. QED
    BY <1>1, <1>5, <2>1
<1>7. QED
  BY <1>3, <1>5, <1>6

\* The process goes on after a finished version.
LEMMA AdvanceStep ==
    ASSUME TypeOK, Position, pc # "down", DoneCommit(Target), Advance,
           \A c : DoneCommit(c)' <=> DoneCommit(c),
           before' = before, SameBook({"state"})
    PROVE  Position' /\ Deleted' /\ Parsing'
<1>1. todo # << >> /\ InOrder(todo) /\ todo' = Tail(todo) /\ base' = Target
      /\ pc' = IF Len(todo) = 1 THEN "down" ELSE "check"
  BY DEF Position, Advance
<1>2. pc' \in {"down", "check"}
  BY <1>1
<1>3. (base = NoCommit \/ (base \in Commits /\ DoneCommit(base)))'
  BY <1>1, SomeTarget DEF Commits
<1>4. (pc # "down" => todo # << >> /\ InOrder(todo))'
  <2>1. ASSUME pc' # "down" PROVE todo' # << >>
    <3>1. Len(Tail(todo)) # 0
      BY <1>1, <2>1, SomeTarget
    <3>2. Len(<< >>) = 0
      OBVIOUS
    <3>3. todo' = Tail(todo)
      BY <1>1
    <3>4. QED
      BY <3>1, <3>2, <3>3
  <2>2. QED
    BY <1>1, <2>1, RestInOrder
<1>5. (before # NoRun => \E row \in db.state : row.status = PARSING)'
  BY DEF Position, SameBook
<1>6. QED
  BY <1>2, <1>3, <1>4, <1>5, Between

LEMMA LaunchStep ==
    ASSUME OldestFirst, IInv, NEW targets \in TargetLists, Launch(targets)
    PROVE  IInv'
<1> USE DEF IInv
<1>1. targets \in Seq(Refs) /\ Len(targets) \in Nat /\ DOMAIN targets = 1 .. Len(targets)
  BY IngestAssumptions
<1>2. PICK i \in DOMAIN targets : /\ \A j \in 1 .. i - 1 : Finished(targets[j])
                                  /\ todo' = SubSeq(targets, i, Len(targets))
  BY DEF Launch
<1>3. /\ pc = "down" /\ pc' = "check" /\ base' = NoCommit
      /\ UNCHANGED <<db, cur, plan, after, work, staged, batch, before>>
  BY DEF Launch, engineVars
<1>4. /\ todo' \in Seq(Refs) /\ Len(todo') = Len(targets) - i + 1 /\ i \in 1 .. Len(targets)
      /\ \A k \in 1 .. Len(targets) - i + 1 : todo'[k] = targets[i + k - 1]
  <2>1. \A k \in i .. Len(targets) : targets[k] \in Refs
    BY <1>1
  <2>2. QED
    BY <1>1, <1>2, <2>1, SubSeqProperties
<1>5. \A c : DoneCommit(c)' <=> DoneCommit(c)
  BY <1>3, KeepsStatus DEF SameBook
<1>6. InOrder(todo)'
  <2>1. DOMAIN todo' = 1 .. Len(targets) - i + 1
    BY <1>1, <1>4
  <2> SUFFICES ASSUME NEW k \in 1 .. Len(targets) - i + 1, NEW c \in Earlier(HeadOf[todo'[k]]), ~DoneCommit(c)
               PROVE  \E j \in 1 .. k - 1 : HeadOf[todo'[j]] = c
    BY <1>5, <2>1 DEF InOrder, Earlier, History
  <2>2. i + k - 1 \in DOMAIN targets /\ todo'[k] = targets[i + k - 1]
    BY <1>1, <1>4
  <2>3. PICK j \in 1 .. (i + k - 1) - 1 : HeadOf[targets[j]] = c
    BY <2>2 DEF OldestFirst, Earlier
  <2>4. ~(j \in 1 .. i - 1)
    <3> SUFFICES ASSUME j \in 1 .. i - 1 PROVE FALSE
      OBVIOUS
    <3>1. Finished(targets[j])
      BY <1>2
    <3>2. QED
      BY <2>3, <3>1, FinishedIsDone DEF Data
  <2>5. j - i + 1 \in 1 .. k - 1 /\ j - i + 1 \in 1 .. Len(targets) - i + 1 /\ i + (j - i + 1) - 1 = j
    BY <1>1, <1>4, <2>3, <2>4
  <2>6. todo'[j - i + 1] = targets[j]
    BY <1>4, <2>5
  <2>7. QED
    BY <2>3, <2>5, <2>6
<1>7. todo' # << >>
  BY <1>1, <1>4
<1>8. Position' /\ Deleted' /\ Parsing'
  <2>1. (before # NoRun => \E row \in db.state : row.status = PARSING)'
    BY <1>3 DEF Position
  <2>2. QED
    BY <1>3, <1>6, <1>7, <2>1, Between
<1>9. Data'
  BY <1>3, KeepsData DEF Held
<1>10. TypeOK'
  BY <1>3, <1>4 DEF TypeOK, Tables, Phases
<1>11. QED
  BY <1>8, <1>9, <1>10

LEMMA SkipStep ==
    ASSUME IInv, SkipFinished
    PROVE  IInv'
<1> USE DEF IInv
<1>1. /\ pc = "check" /\ Finished(Head(todo)) /\ Advance /\ todo # << >>
      /\ UNCHANGED <<db, plan, after, work, staged, batch, before>>
  BY DEF SkipFinished, engineVars, Position
<1>2. DoneCommit(Target)
  BY <1>1, FinishedIsDone DEF Target, Data
<1>3. Data'
  BY <1>1, KeepsData DEF Held
<1>4. Position' /\ Deleted' /\ Parsing'
  <2>1. \A c : DoneCommit(c)' <=> DoneCommit(c)
    BY <1>1, KeepsStatus DEF SameBook
  <2>2. QED
    BY <1>1, <1>2, <2>1, AdvanceStep DEF SameBook
<1>5. TypeOK'
  <2>1. todo' \in Seq(Refs) /\ pc' \in {"down", "check"}
    BY <1>1, SomeTarget DEF Advance
  <2>2. QED
    BY <1>1, <2>1 DEF TypeOK, Tables, Phases
<1>6. QED
  BY <1>3, <1>4, <1>5

LEMMA CheckStep ==
    ASSUME IInv, CheckVersion
    PROVE  IInv'
<1> USE DEF IInv
<1>1. /\ pc = "check" /\ Status(KnownId) # DONE /\ cur' = CommitId(Target) /\ todo # << >> /\ InOrder(todo)
      /\ pc' = IF Status(KnownId) = PARSING THEN "recover" ELSE "register"
      /\ UNCHANGED <<db, todo, base, plan, after, work, staged, batch, before>>
  BY DEF CheckVersion, engineVars, Position
<1>2. ~DoneCommit(Target) /\ (pc' = "recover" => ParsingId(CommitId(Target)))
  BY <1>1, KnownIs DEF Data
<1>3. Data'
  BY <1>1, KeepsData DEF Held
<1>4. /\ \A c : DoneCommit(c)' <=> DoneCommit(c)
      /\ \A id : ParsingId(id)' <=> ParsingId(id)
      /\ \A c : CommitId(c)' = CommitId(c)
  BY <1>1, KeepsStatus DEF SameBook
<1>5. TypeOK'
  BY <1>1 DEF TypeOK, Tables, Phases
<1>6. Target' = Target
  BY <1>1 DEF Target
<1>7. pc' = "register" => \A t \in Content : db'[t] = Stable'[t]
  <2> SUFFICES ASSUME pc' = "register" PROVE \A t \in Content : db'[t] = Stable'[t]
    OBVIOUS
  <2>1. Status(KnownId) # PARSING
    BY <1>1
  <2>2. before = NoRun
    <3> SUFFICES ASSUME before # NoRun PROVE FALSE
      OBVIOUS
    <3>1. PICK row \in db["state"] : row.status = PARSING
      BY DEF Position
    <3>2. ParsingId(row.commit) /\ ~DoneId(row.commit)
      <4>1. ParsingId(row.commit)
        BY <3>1, RowTypes DEF ParsingId
      <4>2. QED
        BY <4>1, StatusIs DEF Data
    <3>3. PICK r \in db["commit"] : r.id = row.commit /\ Reached(r.of)
      BY DEF Data, Registered
    <3>4. r.of = Target
      BY <1>1, <1>2, <3>2, <3>3, TargetIs, OneOpen DEF Data
    <3>5. CommitId(Target) = row.commit
      BY <3>3, <3>4, CommitIdIs DEF Data
    <3>6. QED
      BY <2>1, <3>2, <3>5, KnownIs DEF Data
  <2>3. \A t \in Content : db[t] = Stable[t]
    BY <2>2, StableIs
  <2>4. SameStable
    BY <1>1, KeepsStable
  <2>5. QED
    BY <1>1, <2>3, <2>4 DEF SameStable
<1>8. Position'
  <2>1. pc' \in {"recover", "register"}
    BY <1>1
  <2>2. (base = NoCommit \/ (base \in Commits /\ DoneCommit(base)))'
    BY <1>1, <1>4 DEF Position, Commits
  <2>3. (InOrder(todo))'
    BY <1>1, <1>4, KeepsOrder
  <2>4. (before # NoRun => \E row \in db.state : row.status = PARSING)'
    BY <1>1 DEF Position
  <2>5. (cur = CommitId(Target) /\ ~DoneCommit(Target))'
    BY <1>1, <1>2, <1>4, <1>6
  <2>6. pc' = "recover" => ParsingId(cur)'
    BY <1>1, <1>2, <1>4
  <2>7. QED
    BY <1>1, <1>7, <2>1, <2>2, <2>3, <2>4, <2>5, <2>6 DEF Position, Deleting
<1>9. Deleted' /\ Parsing'
  BY <1>1 DEF Deleted, Parsing
<1>10. QED
  BY <1>3, <1>5, <1>8, <1>9

LEMMA CrashStep ==
    ASSUME IInv, ProcessEnds, UNCHANGED <<db, before>>
    PROVE  IInv'
<1> USE DEF IInv
<1>1. /\ pc' = "down" /\ todo' = << >> /\ base' = NoCommit /\ work' = {} /\ after' = "next"
      /\ staged' = Nothing /\ batch' = Nothing
  BY DEF ProcessEnds
<1>2. Data'
  <2>1. \A t \in Cached : Held(t)' \subseteq Held(t)
    BY <1>1 DEF Held, Nothing
  <2>2. QED
    BY <2>1, KeepsData
<1>3. Position' /\ Deleted' /\ Parsing'
  <2>1. (before # NoRun => \E row \in db.state : row.status = PARSING)'
    BY DEF Position
  <2>2. QED
    BY <1>1, <2>1, Between
<1>4. TypeOK'
  <2>1. Tables(Nothing, Cached)
    BY FS_EmptySet DEF Tables, Nothing
  <2>2. << >> \in Seq(Refs)
    OBVIOUS
  <2>3. Tables(staged', Cached) /\ Tables(batch', Cached) /\ Tables(db', Content \cup Book) /\ Tables(before', Content)
    BY <1>1, <2>1 DEF TypeOK
  <2>4. QED
    BY <1>1, <2>2, <2>3 DEF TypeOK, Phases
<1>5. QED
  BY <1>2, <1>3, <1>4

-----------------------------------------------------------------------------
(***************************************************************************)
(* The deletes of a rollback.                                              *)
(***************************************************************************)
\* Deletes of a rollback that spare the stable rows and the marks.
Fine(p) == p \in Seq(Deletes) /\ \A i \in DOMAIN p : Spares(p[i]) /\ p[i].table \notin Logs
Covered(p, t, row) == \E i \in DOMAIN p : Covers(p[i], t, row)

LEMMA FineJoin ==
    ASSUME NEW p, NEW q, Fine(p), Fine(q)
    PROVE  /\ Fine(p \o q)
           /\ \A t, row : Covered(p, t, row) \/ Covered(q, t, row) => Covered(p \o q, t, row)
<1>1. p \in Seq(Deletes) /\ q \in Seq(Deletes)
  BY DEF Fine
<1>2. /\ p \o q \in Seq(Deletes) /\ Len(p) \in Nat /\ Len(q) \in Nat
      /\ DOMAIN p = 1 .. Len(p) /\ DOMAIN q = 1 .. Len(q) /\ DOMAIN (p \o q) = 1 .. Len(p) + Len(q)
      /\ \A i \in 1 .. Len(p) + Len(q) : (p \o q)[i] = IF i <= Len(p) THEN p[i] ELSE q[i - Len(p)]
  BY <1>1, ConcatProperties
<1>3. PICK u : u = p \o q
  OBVIOUS
<1>4. ASSUME NEW i \in DOMAIN u
      PROVE  (i \in DOMAIN p /\ u[i] = p[i]) \/ (i - Len(p) \in DOMAIN q /\ u[i] = q[i - Len(p)])
  BY <1>2, <1>3
<1>5. Fine(u)
  <2>1. \A i \in DOMAIN u : Spares(u[i]) /\ u[i].table \notin Logs
    BY <1>4 DEF Fine
  <2>2. QED
    BY <1>2, <1>3, <2>1 DEF Fine
<1>6. ASSUME NEW i \in DOMAIN p PROVE i \in DOMAIN u /\ u[i] = p[i]
  BY <1>2, <1>3
<1>7. ASSUME NEW i \in DOMAIN q PROVE i + Len(p) \in DOMAIN u /\ u[i + Len(p)] = q[i]
  <2>1. i + Len(p) \in 1 .. Len(p) + Len(q) /\ ~(i + Len(p) <= Len(p)) /\ i + Len(p) - Len(p) = i
    BY <1>2
  <2>2. QED
    BY <1>2, <1>3, <2>1
<1>8. ASSUME NEW t, NEW row, Covered(p, t, row) \/ Covered(q, t, row)
      PROVE  Covered(u, t, row)
  <2>1. CASE Covered(p, t, row)
    BY <1>6, <2>1 DEF Covered
  <2>2. CASE Covered(q, t, row)
    BY <1>7, <2>2 DEF Covered
  <2>3. QED
    BY <1>8, <2>1, <2>2
<1>9. QED
  BY <1>3, <1>5, <1>8

LEMMA FineEmpty == Fine(<< >>)
BY DEF Fine

LEMMA FineOne ==
    ASSUME NEW d \in Deletes, Spares(d), d.table \notin Logs
    PROVE  /\ Fine(<<d>>)
           /\ \A t, row : Covers(d, t, row) => Covered(<<d>>, t, row)
<1>1. <<d>> \in Seq(Deletes) /\ DOMAIN <<d>> = {1} /\ <<d>>[1] = d
  OBVIOUS
<1>2. PICK u : u = <<d>>
  OBVIOUS
<1>3. Fine(u)
  BY <1>1, <1>2 DEF Fine
<1>4. \A t, row : Covers(d, t, row) => Covered(u, t, row)
  BY <1>1, <1>2 DEF Covered
<1>5. QED
  BY <1>2, <1>3, <1>4

\* A delete of the rows above a mark.
LEMMA AboveFine ==
    ASSUME NEW t \in Content \cup {"ref", "state"}, NEW col \in {"id", "blob", "tag", "commit"}, NEW m \in Nat,
           \A row \in db[t] : row[col] \in Nat,
           t \in Content => \A row \in Stable[t] : row[col] \in Nat /\ row[col] <= m,
           t \notin Content => \A row \in db[t] : row[col] <= m
    PROVE  /\ Fine(<<Above(t, col, m)>>)
           /\ \A row \in db[t] : row[col] > m => Covered(<<Above(t, col, m)>>, t, row)
<1> DEFINE ids == {row[col] : row \in {r \in db[t] : r[col] > m}}
           d == Above(t, col, m)
<1>1. d.table = t /\ d.col = col /\ d.ids = ids /\ d \in Deletes
  <2>1. ids \in SUBSET Nat
    OBVIOUS
  <2>2. t \in Content \cup Book
    BY DEF Book
  <2>3. d = [table |-> t, col |-> col, ids |-> ids]
    BY DEF Above, Delete
  <2> HIDE DEF d, ids
  <2>4. QED
    BY <2>1, <2>2, <2>3 DEF Deletes
<1>2. t \notin Logs
  BY DEF Content, Cached, Logs
<1>3. ASSUME NEW row, row[col] \in Nat, row[col] <= m PROVE row[col] \notin ids
  BY <1>3
<1>4. ASSUME NEW row \in db[t], row[col] > m PROVE row[col] \in ids
  BY <1>4
<1> HIDE DEF d, ids
<1>5. Spares(d)
  <2>1. CASE t \in Content
    BY <1>1, <1>3, <2>1 DEF Spares
  <2>2. CASE t \notin Content
    <3>1. t \in {"ref", "state"} /\ \A row \in db[t] : row[col] \notin ids
      BY <1>3, <2>2
    <3>2. QED
      BY <1>1, <3>1 DEF Spares
  <2>3. QED
    BY <2>1, <2>2
<1>6. \A row \in db[t] : row[col] > m => Covers(d, t, row)
  BY <1>1, <1>4 DEF Covers
<1>7. Fine(<<d>>) /\ \A row \in db[t] : row[col] > m => Covered(<<d>>, t, row)
  BY <1>1, <1>2, <1>5, <1>6, FineOne
<1>8. QED
  BY <1>7 DEF d

\* The rows that refer to a marked table refer to the stable rows below its mark.
LEMMA StableLinks ==
    ASSUME TypeOK, Sound(Stable), Whole, Registered, Since
    PROVE  /\ \A row \in Stable["checkpoint"] : row.blob <= Top("blob")
           /\ \A t \in {"bridge", "def"} : \A row \in Stable[t] : row.blob <= Top("blob") /\ row.tag <= Top("tag")
           /\ \A t \in {"ref", "state"} : \A row \in db[t] : row.commit <= Top("commit")
<1>1. \A t \in Marked : \A r \in Stable[t] : r.id <= Top(t)
  BY TopIs
<1>2. ASSUME NEW row \in Stable["checkpoint"] PROVE row.blob <= Top("blob")
  BY <1>1 DEF Whole, FileOf, Marked
<1>3. ASSUME NEW t \in {"bridge", "def"}, NEW row \in Stable[t]
      PROVE  row.blob <= Top("blob") /\ row.tag <= Top("tag")
  <2>1. Derived(Stable, row)
    BY DEF Sound
  <2>2. QED
    BY <1>1, <2>1 DEF Derived, Marked
<1>4. ASSUME NEW t \in {"ref", "state"}, NEW row \in db[t] PROVE row.commit <= Top("commit")
  BY <1>1 DEF Registered, Since, Marked
<1>5. QED
  BY <1>2, <1>3, <1>4

LEMMA DbRows ==
    ASSUME TypeOK
    PROVE  /\ \A t \in {"blob", "tag", "commit", "def"} : \A r \in db[t] : r["id"] \in Nat
           /\ \A t \in {"bridge", "def", "checkpoint"} : \A r \in db[t] : r["blob"] \in Nat
           /\ \A t \in {"bridge", "def"} : \A r \in db[t] : r["tag"] \in Nat
           /\ \A t \in {"checkpoint", "ref", "state"} : \A r \in db[t] : r["commit"] \in Nat
<1>1. \A t \in {"blob", "tag", "commit", "def", "bridge", "checkpoint", "ref", "state"} : db[t] \subseteq RowType[t]
  BY DEF TypeOK, Tables, Content, Cached, Book
<1>2. QED
  BY <1>1 DEF RowType, Ids

\* The links of each table.
LEMMA LinksFine ==
    ASSUME TypeOK, Data, ~DoneId(cur), NEW t \in Marked, t \in DOMAIN Marks,
           NEW child \in {"checkpoint", "bridge", "def", "ref", "state"}
    PROVE  /\ Fine(LinksOf(child, t))
           /\ child = "bridge" /\ t = "blob" =>
                 \A row \in db["bridge"] : row.blob > Top("blob") => Covered(LinksOf(child, t), "bridge", row)
<1>1. Marks[t] = Top(t) /\ Top(t) \in Nat /\ DOMAIN Marks \subseteq Marked
  BY MarksAre, TopIs DEF Data
<1>2. CASE t \in ForeignKeys[child] /\ child \notin DOMAIN Marks
  <2>1. LinksOf(child, t) = <<Above(child, t, Top(t))>>
    BY <1>1, <1>2 DEF LinksOf
  <2>2. /\ child \in {"checkpoint", "bridge", "def"} => t \in {"blob", "tag"}
        /\ child = "checkpoint" => t = "blob"
        /\ child \in {"ref", "state"} => t = "commit"
    BY <1>2 DEF ForeignKeys
  <2>3. child \in Content \cup {"ref", "state"} /\ t \in {"id", "blob", "tag", "commit"}
    BY <2>2 DEF Content, Cached
  <2>4. \A row \in db[child] : row[t] \in Nat
    BY <2>2, DbRows
  <2>5. child \in Content => \A row \in Stable[child] : row[t] \in Nat /\ row[t] <= Top(t)
    <3>1. child \in Content => child \in {"checkpoint", "bridge", "def"}
      BY DEF Content, Cached
    <3>2. child \in Content => \A row \in Stable[child] : row[t] \in Nat
      BY <2>4 DEF Data, Since
    <3>3. child \in Content => \A row \in Stable[child] : row[t] <= Top(t)
      BY <2>2, <3>1, StableLinks DEF Data
    <3>4. QED
      BY <3>2, <3>3
  <2>6. child \notin Content => \A row \in db[child] : row[t] <= Top(t)
    <3>1. child \notin Content => child \in {"ref", "state"}
      BY DEF Content, Cached
    <3>2. QED
      BY <2>2, <3>1, StableLinks DEF Data
  <2>7. /\ Fine(<<Above(child, t, Top(t))>>)
        /\ \A row \in db[child] : row[t] > Top(t) => Covered(<<Above(child, t, Top(t))>>, child, row)
    BY <1>1, <2>3, <2>4, <2>5, <2>6, AboveFine
  <2>8. QED
    BY <2>1, <2>7
<1>3. CASE ~(t \in ForeignKeys[child] /\ child \notin DOMAIN Marks)
  <2>1. LinksOf(child, t) = << >>
    BY <1>3 DEF LinksOf
  <2>2. ~(child = "bridge" /\ t = "blob")
    BY <1>1, <1>3 DEF ForeignKeys, Marked
  <2>3. QED
    BY <2>1, <2>2, FineEmpty
<1>4. QED
  BY <1>2, <1>3

LEMMA NewRowsFine ==
    ASSUME TypeOK, Data, ~DoneId(cur), NEW t \in Marked
    PROVE  /\ Fine(NewRowsOf(t))
           /\ t \in DOMAIN Marks => \A row \in db[t] : row.id > Top(t) => Covered(NewRowsOf(t), t, row)
           /\ t \in DOMAIN Marks /\ t = "blob" =>
                 \A row \in db["bridge"] : row.blob > Top("blob") => Covered(NewRowsOf(t), "bridge", row)
<1>1. CASE t \notin DOMAIN Marks
  BY <1>1, FineEmpty DEF NewRowsOf
<1>2. CASE t \in DOMAIN Marks
  <2>1. Marks[t] = Top(t) /\ Top(t) \in Nat
    BY <1>2, MarksAre, TopIs DEF Data
  <2>2. PICK a, b, c, d, e, f : /\ a = LinksOf("checkpoint", t) /\ b = LinksOf("bridge", t) /\ c = LinksOf("def", t)
                                /\ d = LinksOf("ref", t) /\ e = LinksOf("state", t) /\ f = <<Above(t, "id", Top(t))>>
    OBVIOUS
  <2>3. NewRowsOf(t) = a \o b \o c \o d \o e \o f
    BY <1>2, <2>1, <2>2 DEF NewRowsOf
  <2>4. Fine(a) /\ Fine(b) /\ Fine(c) /\ Fine(d) /\ Fine(e)
    BY <1>2, <2>2, LinksFine
  <2>5. t = "blob" => \A row \in db["bridge"] : row.blob > Top("blob") => Covered(b, "bridge", row)
    BY <1>2, <2>2, LinksFine
  <2>6. Fine(f) /\ \A row \in db[t] : row.id > Top(t) => Covered(f, t, row)
    <3>1. t \in Content /\ t \in {"blob", "tag", "commit", "def"}
      BY DEF Marked, Content, Cached
    <3>2. (\A row \in db[t] : row["id"] \in Nat) /\ \A row \in Stable[t] : row["id"] \in Nat /\ row["id"] <= Top(t)
      BY <3>1, DbRows, StableRows, TopIs DEF Ids
    <3>3. /\ Fine(<<Above(t, "id", Top(t))>>)
          /\ \A row \in db[t] : row["id"] > Top(t) => Covered(<<Above(t, "id", Top(t))>>, t, row)
      BY <2>1, <3>1, <3>2, AboveFine
    <3>4. QED
      BY <2>2, <3>3
  <2>7. Fine(a \o b) /\ Fine((a \o b) \o c) /\ Fine(((a \o b) \o c) \o d) /\ Fine((((a \o b) \o c) \o d) \o e)
        /\ Fine(((((a \o b) \o c) \o d) \o e) \o f)
    BY <2>4, <2>6, FineJoin
  <2>8. \A s, row : Covered(b, s, row) \/ Covered(f, s, row) => Covered(((((a \o b) \o c) \o d) \o e) \o f, s, row)
    BY <2>4, <2>6, <2>7, FineJoin
  <2>9. QED
    BY <2>3, <2>5, <2>6, <2>7, <2>8
<1>3. QED
  BY <1>1, <1>2

-----------------------------------------------------------------------------
(***************************************************************************)
(* rollback_version.                                                       *)
(***************************************************************************)
\* No version is ever finished above the marks of an interrupted one.
LEMMA NeverCompletedAfter ==
    ASSUME TypeOK, Data, ~DoneId(cur)
    PROVE  ~CompletedAfter
<1> SUFFICES ASSUME CompletedAfter PROVE FALSE
  OBVIOUS
<1>1. PICK row \in db["state"] : row.commit > Marks["commit"] /\ "commit" \in DOMAIN Marks
  BY DEF CompletedAfter
<1>2. Marks["commit"] = Top("commit") /\ Top("commit") \in Nat
  BY <1>1, MarksAre, TopIs DEF Data, Marked
<1>3. row.commit <= Top("commit") /\ row.commit \in Nat
  BY StableLinks, RowTypes DEF Data, Ids
<1>4. QED
  BY <1>1, <1>2, <1>3

LEMMA VersionRowsFine ==
    ASSUME TypeOK, Data, ~DoneId(cur), cur \in Ids
    PROVE  /\ Fine(VersionRows)
           /\ \A row : row.commit = cur => Covered(VersionRows, "checkpoint", row)
<1> DEFINE d == Delete("checkpoint", "commit", {cur})
<1>1. d.table = "checkpoint" /\ d.col = "commit" /\ d.ids = {cur}
  BY DEF Delete
<1>2. d \in Deletes
  BY DEF Delete, Deletes, Content, Cached, Book, Ids
<1>3. "checkpoint" \in Content /\ "checkpoint" \notin Logs
  BY DEF Content, Cached, Logs
<1> HIDE DEF d
<1>4. \A row \in Stable["checkpoint"] : row["commit"] \notin {cur}
  BY DEF Data, Whole
<1>5. Spares(d)
  BY <1>1, <1>3, <1>4 DEF Spares
<1>6. \A row : row.commit = cur => Covers(d, "checkpoint", row)
  BY <1>1 DEF Covers
<1>7. Fine(<<d>>) /\ \A row : row.commit = cur => Covered(<<d>>, "checkpoint", row)
  BY <1>1, <1>2, <1>3, <1>5, <1>6, FineOne
<1>8. QED
  BY <1>7 DEF VersionRows, d

LEMMA DerivedRowsFine ==
    ASSUME TypeOK, Data, ~DoneId(cur)
    PROVE  /\ Fine(DerivedRows)
           /\ \A row, rp : rp \in db["reparse"] /\ rp.commit = cur /\ rp.blob = row.blob
                             => Covered(DerivedRows, "bridge", row)
<1> DEFINE blobs == {row.blob : row \in RowsOf("reparse", cur)}
           a == Delete("bridge", "blob", blobs)
           b == Delete("def", "blob", blobs)
<1>1. \A rp \in db["reparse"] : rp.commit = cur => rp.blob \in blobs
  BY DEF RowsOf
<1>2. ASSUME NEW x \in blobs
      PROVE  \E rp \in db["reparse"] : rp.commit = cur /\ rp.blob = x
  BY DEF RowsOf
<1>3. blobs \in SUBSET Nat
  BY RowTypes DEF RowsOf, Ids
<1>4. DerivedRows = IF blobs = {} THEN << >> ELSE <<a, b>>
  <2>1. DOMAIN BlobDerived = {1, 2} /\ BlobDerived[1] = "bridge" /\ BlobDerived[2] = "def"
    BY DEF BlobDerived
  <2>2. DerivedRows = IF blobs = {} THEN << >> ELSE [i \in DOMAIN BlobDerived |-> Delete(BlobDerived[i], "blob", blobs)]
    BY DEF DerivedRows
  <2>3. [i \in DOMAIN BlobDerived |-> Delete(BlobDerived[i], "blob", blobs)] = <<a, b>>
    <3> HIDE DEF blobs
    <3>1. QED
      BY <2>1
  <2>4. QED
    BY <2>2, <2>3
<1> HIDE DEF blobs
<1>5. \A t \in {"bridge", "def"} : \A row \in Stable[t] : row["blob"] \notin blobs
  BY <1>2 DEF Data, Recorded
<1>6. /\ a.table = "bridge" /\ a.col = "blob" /\ a.ids = blobs
      /\ b.table = "def" /\ b.col = "blob" /\ b.ids = blobs
  BY DEF Delete
<1>7. a \in Deletes /\ b \in Deletes
  BY <1>3 DEF Delete, Deletes, Content, Cached, Book
<1>8. {"bridge", "def"} \subseteq Content /\ "bridge" \notin Logs /\ "def" \notin Logs
  BY DEF Content, Cached, Logs
<1> HIDE DEF a, b
<1>9. Spares(a) /\ Spares(b)
  BY <1>5, <1>6, <1>8 DEF Spares
<1>10. <<a, b>> \in Seq(Deletes) /\ DOMAIN <<a, b>> = {1, 2} /\ <<a, b>>[1] = a /\ <<a, b>>[2] = b
  BY <1>7
<1>11. PICK u : u = <<a, b>>
  OBVIOUS
<1>12. Fine(u) /\ \A t, row : Covers(a, t, row) => Covered(u, t, row)
  <2>1. \A i \in DOMAIN u : Spares(u[i]) /\ u[i].table \notin Logs
    BY <1>6, <1>8, <1>9, <1>10, <1>11
  <2>2. 1 \in DOMAIN u /\ u[1] = a
    BY <1>10, <1>11
  <2>3. QED
    BY <1>10, <1>11, <2>1, <2>2 DEF Fine, Covered
<1>13. ASSUME NEW row, NEW rp, rp \in db["reparse"], rp.commit = cur, rp.blob = row.blob
       PROVE  Covered(DerivedRows, "bridge", row)
  <2>1. row["blob"] \in blobs
    BY <1>1, <1>13
  <2>2. Covers(a, "bridge", row)
    BY <1>6, <2>1 DEF Covers
  <2>3. QED
    BY <1>4, <1>11, <1>12, <2>1, <2>2
<1>14. Fine(DerivedRows)
  BY <1>4, <1>11, <1>12, FineEmpty
<1>15. QED
  BY <1>13, <1>14

LEMMA RollbackFine ==
    ASSUME TypeOK, Data, ~DoneId(cur), cur \in Ids, \A id : ParsingId(id) => id = cur, pc # "parse"
    PROVE  /\ Fine(RollbackPlan)
           /\ AllMarked(cur) => \A t \in Cached : \A row \in db[t] \ Stable[t] : Covered(RollbackPlan, t, row)
<1>1. PICK a, b, c, d, e, f : /\ a = VersionRows /\ b = DerivedRows /\ c = NewRowsOf("commit") /\ d = NewRowsOf("def")
                              /\ e = NewRowsOf("blob") /\ f = NewRowsOf("tag")
  OBVIOUS
<1>2. RollbackPlan = a \o b \o c \o d \o e \o f
  BY <1>1 DEF RollbackPlan
<1>3. Fine(a) /\ Fine(b) /\ Fine(c) /\ Fine(d) /\ Fine(e) /\ Fine(f)
  BY <1>1, VersionRowsFine, DerivedRowsFine, NewRowsFine DEF Marked
<1>4. Fine(a \o b) /\ Fine((a \o b) \o c) /\ Fine(((a \o b) \o c) \o d) /\ Fine((((a \o b) \o c) \o d) \o e)
      /\ Fine(((((a \o b) \o c) \o d) \o e) \o f)
  BY <1>3, FineJoin
<1>5. \A t, row : \/ Covered(a, t, row) \/ Covered(b, t, row) \/ Covered(d, t, row) \/ Covered(e, t, row) \/ Covered(f, t, row)
                  => Covered(((((a \o b) \o c) \o d) \o e) \o f, t, row)
  BY <1>3, <1>4, FineJoin
<1>6. ASSUME AllMarked(cur), NEW t \in Cached, NEW row \in db[t] \ Stable[t]
      PROVE  Covered(RollbackPlan, t, row)
  <2>1. row \in Held(t) \ Stable[t]
    BY NothingStaged
  <2>2. IsNew(t, row)
    BY <2>1 DEF Data, Since
  <2>3. DOMAIN Marks = Marked /\ {"def", "blob", "tag"} \subseteq Marked
    BY <1>6, MarksAre DEF Data, Marked
  <2>4. CASE t \in {"blob", "tag", "def"}
    <3>1. row.id > Top(t)
      BY <2>2, <2>4 DEF IsNew
    <3>2. Covered(NewRowsOf(t), t, row)
      BY <2>3, <2>4, <3>1, NewRowsFine
    <3>3. QED
      BY <1>1, <1>2, <1>5, <2>4, <3>2
  <2>5. CASE t = "bridge"
    <3>1. NewBlob(row.blob)
      BY <2>2, <2>5 DEF IsNew
    <3>2. CASE row.blob > Top("blob")
      <4>1. Covered(e, "bridge", row)
        BY <1>1, <2>3, <2>5, <3>2, NewRowsFine
      <4>2. QED
        BY <1>2, <1>5, <2>5, <4>1
    <3>3. CASE Redone(row.blob)
      <4>1. PICK rp \in db["reparse"] : rp.blob = row.blob /\ rp.commit = cur
        BY <1>6, <3>3 DEF Redone
      <4>2. Covered(b, "bridge", row)
        BY <1>1, <4>1, DerivedRowsFine
      <4>3. QED
        BY <1>2, <1>5, <2>5, <4>2
    <3>4. QED
      BY <3>1, <3>2, <3>3 DEF NewBlob
  <2>6. CASE t = "checkpoint"
    <3>1. row.commit = cur
      BY <2>2, <2>6 DEF IsNew
    <3>2. Covered(a, "checkpoint", row)
      BY <1>1, <3>1, VersionRowsFine
    <3>3. QED
      BY <1>2, <1>5, <2>6, <3>2
  <2>7. QED
    BY <2>4, <2>5, <2>6 DEF Cached
<1>7. QED
  BY <1>2, <1>4, <1>6

\* The marks go last.
LEMMA DiscardMarksAre ==
    ASSUME cur \in Ids
    PROVE  /\ DiscardMarks \in Seq(Deletes)
           /\ \A i \in DOMAIN DiscardMarks : Spares(DiscardMarks[i]) /\ DiscardMarks[i].table \in Logs
<1> DEFINE a == Delete("mark", "commit", {cur})
           b == Delete("reparse", "commit", {cur})
<1>1. /\ a.table = "mark" /\ a.col = "commit" /\ a.ids = {cur}
      /\ b.table = "reparse" /\ b.col = "commit" /\ b.ids = {cur}
  BY DEF Delete
<1>2. a \in Deletes /\ b \in Deletes
  BY DEF Delete, Deletes, Book, Content, Ids
<1>3. DiscardMarks = <<a, b>>
  BY DEF DiscardMarks
<1> HIDE DEF a, b
<1>4. Spares(a) /\ Spares(b) /\ a.table \in Logs /\ b.table \in Logs
  BY <1>1 DEF Spares, Logs
<1>5. <<a, b>> \in Seq(Deletes) /\ DOMAIN <<a, b>> = {1, 2} /\ <<a, b>>[1] = a /\ <<a, b>>[2] = b
  BY <1>2
<1>6. PICK u : u = <<a, b>>
  OBVIOUS
<1>7. \A i \in DOMAIN u : Spares(u[i]) /\ u[i].table \in Logs
  BY <1>4, <1>5, <1>6
<1>8. QED
  BY <1>3, <1>5, <1>6, <1>7

\* What a delete spares depends on the tables only.
LEMMA KeepsSpares ==
    ASSUME cur' = cur, SameStable, SameBook({"ref", "state"})
    PROVE  \A d : Spares(d)' <=> Spares(d)
<1>1. db'["ref"] = db["ref"] /\ db'["state"] = db["state"]
  BY DEF SameBook
<1>2. \A d : d.table \in {"ref", "state"} => db'[d.table] = db[d.table]
  BY <1>1
<1>3. \A d : d.table \in Content => Stable'[d.table] = Stable[d.table]
  BY DEF SameStable
<1>4. Content' = Content /\ Logs' = Logs
  BY DEF Content, Cached, Logs
<1>5. QED
  BY <1>2, <1>3 DEF Spares, Content, Cached, Logs

\* A plan is a list of fine deletes, then of the marks.
LEMMA PlanStarts ==
    ASSUME NEW p, NEW q, Fine(p), q \in Seq(Deletes), \A i \in DOMAIN q : Spares(q[i]) /\ q[i].table \in Logs,
           plan' = p \o q, cur' = cur, UNCHANGED <<db, before>>, after' = "register",
           \A t \in Cached : \A row \in db[t] \ Stable[t] : Covered(p, t, row)
    PROVE  Deleted'
<1>1. p \in Seq(Deletes)
  BY DEF Fine
<1>2. /\ plan' \in Seq(Deletes) /\ Len(p) \in Nat /\ Len(q) \in Nat
      /\ DOMAIN p = 1 .. Len(p) /\ DOMAIN q = 1 .. Len(q) /\ DOMAIN plan' = 1 .. Len(p) + Len(q)
      /\ \A i \in 1 .. Len(p) + Len(q) : plan'[i] = IF i <= Len(p) THEN p[i] ELSE q[i - Len(p)]
  BY <1>1, ConcatProperties
<1>3. SameStable
  BY KeepsStable
<1>4. \A d : Spares(d)' <=> Spares(d)
  BY <1>3, KeepsSpares DEF SameBook
<1>5. ASSUME NEW i \in DOMAIN plan' PROVE Spares(plan'[i])
  <2>1. (i \in DOMAIN p /\ plan'[i] = p[i]) \/ (i - Len(p) \in DOMAIN q /\ plan'[i] = q[i - Len(p)])
    BY <1>2
  <2>2. QED
    BY <2>1 DEF Fine
<1>6. ASSUME NEW t \in Cached, NEW row \in db[t] \ Stable[t]
      PROVE  \E i \in DOMAIN plan' : Covers(plan'[i], t, row) /\ \A j \in 1 .. i : plan'[j].table \notin Logs
  <2>1. PICK i \in DOMAIN p : Covers(p[i], t, row)
    BY DEF Covered
  <2>2. \A j \in 1 .. i : j \in DOMAIN p /\ plan'[j] = p[j]
    BY <1>2
  <2>3. \A j \in 1 .. i : plan'[j].table \notin Logs
    BY <2>2 DEF Fine
  <2>4. i \in 1 .. i /\ i \in DOMAIN plan'
    BY <1>2
  <2>5. QED
    BY <2>1, <2>2, <2>3, <2>4
<1>7. \A t \in Cached : db'[t] = db[t] /\ Stable'[t] = Stable[t]
  BY <1>3 DEF SameStable, Content
<1>8. \A t \in Cached : \A row \in db'[t] \ Stable'[t] : Reaches(t, row)'
  BY <1>6, <1>7 DEF Reaches, Covers, Logs, Cached
<1>9. \A i \in DOMAIN plan' : Spares(plan[i])'
  BY <1>4, <1>5
<1>10. QED
  BY <1>2, <1>8, <1>9 DEF Deleted, Deletes, Content, Cached, Book

LEMMA RecoverStep ==
    ASSUME IInv, Recover
    PROVE  IInv'
<1> USE DEF IInv
<1>1. /\ pc = "recover" /\ UNCHANGED <<db, before>> /\ todo # << >> /\ InOrder(todo)
      /\ cur = CommitId(Target) /\ ~DoneCommit(Target) /\ ParsingId(cur)
  BY DEF Recover, Position
<1>2. ~DoneId(cur) /\ cur \in Ids
  BY <1>1, StatusIs DEF Data
<1>3. IsCur
  BY <1>1, <1>2, CommitIdIs DEF Data, IsCur, Ids, NoId
<1>4. \A id : ParsingId(id) => id = cur
  BY <1>1, <1>2, <1>3, OpenIsCur DEF Data
<1>5. ~CompletedAfter
  BY <1>2, NeverCompletedAfter
<1>6. CASE ProcessEnds
  BY <1>1, <1>6, CrashStep
<1>7. ASSUME UNCHANGED <<todo, base, cur, work, staged, batch>>, pc' = "delete", after' = "register", Deleted'
      PROVE  IInv'
  <2>1. Data'
    BY <1>1, <1>7, KeepsData DEF Held
  <2>2. TypeOK'
    BY <1>1, <1>7 DEF TypeOK, Tables, Phases
  <2>3. \A c : DoneCommit(c)' <=> DoneCommit(c)
    BY <1>1, KeepsStatus DEF SameBook
  <2>4. \A id : (DoneId(id)' <=> DoneId(id)) /\ (ParsingId(id)' <=> ParsingId(id))
    BY <1>1, KeepsStatus DEF SameBook
  <2>5. InOrder(todo)'
    BY <1>1, <1>7, <2>3, KeepsOrder
  <2>6. (IsCur /\ ~DoneId(cur) /\ ParsingId(cur))'
    BY <1>1, <1>2, <1>3, <1>7, <2>4 DEF IsCur, Target
  <2>7. (base = NoCommit \/ (base \in Commits /\ DoneCommit(base)))'
    BY <1>1, <1>7, <2>3 DEF Position, Commits
  <2>8. (before # NoRun => \E row \in db.state : row.status = PARSING)'
    BY <1>1, <1>7 DEF Position
  <2>9. Position'
    BY <1>1, <1>7, <2>5, <2>6, <2>7, <2>8 DEF Position, Deleting
  <2>10. Parsing'
    BY <1>7 DEF Parsing
  <2>11. QED
    BY <1>7, <2>1, <2>2, <2>9, <2>10
<1>8. CASE ~AllMarked(cur) /\ RunDeletes((IF CompletedAfter THEN DiscardMarks ELSE << >>) \o VersionRows, "register")
           /\ UNCHANGED <<processVars, work, engineVars>>
  <2>1. Fine(VersionRows)
    BY <1>2, VersionRowsFine
  <2>2. plan' = VersionRows \o << >>
    <3>1. VersionRows \in Seq(Deletes)
      BY <2>1 DEF Fine
    <3>2. plan' = << >> \o VersionRows
      BY <1>5, <1>8 DEF RunDeletes
    <3>3. QED
      BY <3>1, <3>2, ConcatEmptySeq
  <2>3. \A t \in Cached : \A row \in db[t] \ Stable[t] : Covered(VersionRows, t, row)
    <3>1. \A t \in Cached : Held(t) = Stable[t]
      <4> SUFFICES ASSUME NEW t \in Cached, Held(t) # Stable[t] PROVE FALSE
        OBVIOUS
      <4>1. AllMarked(cur)
        BY <1>1, RowTypes DEF Data, Since, ParsingId
      <4>2. QED
        BY <1>8, <4>1
    <3>2. QED
      BY <1>1, <3>1, NothingStaged
  <2>4. << >> \in Seq(Deletes) /\ DOMAIN << >> = {}
    OBVIOUS
  <2>5. Deleted'
    BY <1>1, <1>8, <2>1, <2>2, <2>3, <2>4, PlanStarts DEF RunDeletes, processVars
  <2>6. QED
    BY <1>7, <1>8, <2>5 DEF RunDeletes, processVars, engineVars
<1>9. CASE RunDeletes(RollbackPlan \o DiscardMarks, "register") /\ UNCHANGED <<processVars, work, engineVars>>
  <2>1. Fine(RollbackPlan)
    BY <1>1, <1>2, <1>4, RollbackFine
  <2>2. \A t \in Cached : \A row \in db[t] \ Stable[t] : Covered(RollbackPlan, t, row)
    <3>1. CASE AllMarked(cur)
      BY <1>1, <1>2, <1>4, <3>1, RollbackFine
    <3>2. CASE ~AllMarked(cur)
      <4>1. \A t \in Cached : Held(t) = Stable[t]
        BY <1>1, <3>2, RowTypes DEF Data, Since, ParsingId
      <4>2. QED
        BY <1>1, <4>1, NothingStaged
    <3>3. QED
      BY <3>1, <3>2
  <2>3. /\ DiscardMarks \in Seq(Deletes)
        /\ \A i \in DOMAIN DiscardMarks : Spares(DiscardMarks[i]) /\ DiscardMarks[i].table \in Logs
    BY <1>2, DiscardMarksAre
  <2>4. Deleted'
    BY <1>1, <1>9, <2>1, <2>2, <2>3, PlanStarts DEF RunDeletes, processVars
  <2>5. QED
    BY <1>7, <1>9, <2>4 DEF RunDeletes, processVars, engineVars
<1>10. DOMAIN Marks = {} => ~AllMarked(cur)
  BY <1>2, MarksAre DEF Data, Marked
<1>11. QED
  BY <1>5, <1>6, <1>8, <1>9, <1>10 DEF Recover

-----------------------------------------------------------------------------
(***************************************************************************)
(* The deletes are run.                                                    *)
(***************************************************************************)
\* Once the deletes are through only stable rows are left.
LEMMA DeletedIsClean ==
    ASSUME TypeOK, Data, pc = "delete",
           \A t \in Cached : \A row \in db[t] \ Stable[t] : FALSE
    PROVE  /\ \A t \in Content : db[t] = Stable[t]
           /\ \A t \in Cached : Held(t) = Stable[t]
<1>1. \A t \in Content : Stable[t] \subseteq db[t]
  BY DEF Data, Since
<1>2. db["commit"] = Stable["commit"]
  BY DEF Data, Since
<1>3. \A t \in Cached : db[t] = Stable[t]
  BY <1>1 DEF Content
<1>4. \A t \in Cached : Held(t) = db[t]
  BY NothingStaged
<1>5. QED
  BY <1>2, <1>3, <1>4 DEF Content

LEMMA DeletesDoneStep ==
    ASSUME IInv, DeletesDone
    PROVE  IInv'
<1> USE DEF IInv
<1>1. /\ pc = "delete" /\ plan = << >> /\ UNCHANGED <<db, plan, after, work, staged, batch, before>>
      /\ IF after = "next" THEN Advance ELSE pc' = after /\ UNCHANGED <<todo, base, cur>>
  BY DEF DeletesDone, engineVars, processVars
<1>2. todo # << >> /\ InOrder(todo) /\ IsCur
  BY <1>1 DEF Position, Deleting, TypeOK
<1>3. Data'
  BY <1>1, KeepsData DEF Held
<1>4. /\ \A c : DoneCommit(c)' <=> DoneCommit(c)
      /\ \A id : (ParsingId(id)' <=> ParsingId(id)) /\ (DoneId(id)' <=> DoneId(id))
      /\ \A c : CommitId(c)' = CommitId(c)
  BY <1>1, KeepsStatus DEF SameBook
<1>5. CASE after = "next"
  <2>1. DoneCommit(Target)
    BY <1>1, <1>2, <1>5 DEF Position, Deleting, DoneCommit, IsCur
  <2>2. Position' /\ Deleted' /\ Parsing'
    BY <1>1, <1>4, <1>5, <2>1, AdvanceStep DEF SameBook
  <2>3. todo' \in Seq(Refs) /\ pc' \in {"down", "check"}
    BY <1>1, <1>2, <1>5, SomeTarget DEF Advance
  <2>4. TypeOK'
    BY <1>1, <2>3 DEF TypeOK, Tables, Phases
  <2>5. QED
    BY <1>3, <2>2, <2>4
<1>6. CASE after # "next"
  <2>1. /\ pc' = after /\ after \in {"register", "mark"}
        /\ UNCHANGED <<todo, base, cur>>
    BY <1>1, <1>6 DEF TypeOK
  <2>2. TypeOK'
    BY <1>1, <2>1 DEF TypeOK, Tables, Phases
  <2>3. InOrder(todo)'
    BY <1>2, <1>4, <2>1, KeepsOrder
  <2>4. (base = NoCommit \/ (base \in Commits /\ DoneCommit(base)))'
    BY <1>1, <1>4, <2>1 DEF Position, Commits
  <2>5. (before # NoRun => \E row \in db.state : row.status = PARSING)'
    BY <1>1 DEF Position
  <2>6. ~DoneId(cur)
    BY <1>1, <2>1 DEF Position, Deleting
  <2>7. (IsCur /\ ~DoneId(cur))'
    BY <1>1, <1>2, <1>4, <2>1, <2>6 DEF IsCur, Target
  <2>8. CASE after = "register"
    <3>1. cur = CommitId(Target) /\ ~DoneCommit(Target)
      <4> DEFINE r == [id |-> cur, of |-> Target]
      <4>1. r \in db["commit"] /\ r.id = cur /\ r.of = Target
        BY <1>2 DEF IsCur
      <4>2. QED
        BY <2>6, <4>1, CommitIdIs, DoneById DEF Data
    <3>2. (cur = CommitId(Target) /\ ~DoneCommit(Target))'
      BY <1>1, <1>4, <2>1, <3>1 DEF Target
    <3>3. \A t \in Content : db'[t] = Stable'[t]
      <4>1. \A t \in Cached : \A row \in db[t] \ Stable[t] : FALSE
        BY <1>1, <2>8 DEF Deleted, Reaches
      <4>2. \A t \in Content : db[t] = Stable[t]
        BY <1>1, <4>1, DeletedIsClean
      <4>3. SameStable
        BY <1>1, KeepsStable
      <4>4. QED
        BY <1>1, <4>2, <4>3 DEF SameStable
    <3>4. Position'
      BY <1>1, <1>2, <2>1, <2>3, <2>4, <2>5, <2>8, <3>2, <3>3 DEF Position, Deleting
    <3>5. Deleted' /\ Parsing'
      BY <2>1, <2>8 DEF Deleted, Parsing
    <3>6. QED
      BY <1>3, <2>2, <3>4, <3>5
  <2>9. CASE after = "mark"
    <3>1. before = NoRun /\ \E row \in db["ref"] : row.commit = cur
      BY <1>1, <2>9 DEF Position, Deleting
    <3>2. (before = NoRun /\ \E row \in db["ref"] : row.commit = cur)'
      BY <1>1, <2>1, <3>1 DEF NoRun, Content, Cached
    <3>3. Position'
      BY <1>1, <1>2, <2>1, <2>3, <2>4, <2>5, <2>7, <2>9, <3>2 DEF Position, Deleting
    <3>4. Deleted' /\ Parsing'
      BY <2>1, <2>9 DEF Deleted, Parsing
    <3>5. QED
      BY <1>3, <2>2, <3>3, <3>4
  <2>10. QED
    BY <2>1, <2>8, <2>9
<1>7. QED
  BY <1>5, <1>6

\* One statement: some of the rows it matches go, and all of them with the last.
LEMMA Statement ==
    ASSUME TypeOK, DeleteRows
    PROVE  /\ pc = "delete" /\ plan # << >>
           /\ UNCHANGED <<pc, todo, base, cur, after, work, staged, batch, before>>
           /\ DOMAIN db' = DOMAIN db
           /\ \A t \in DOMAIN db : t # Head(plan).table => db'[t] = db[t]
           /\ \A t \in DOMAIN db : t = Head(plan).table =>
                 db'[t] \subseteq db[t] /\ \A row \in db[t] \ db'[t] : Covers(Head(plan), t, row)
           /\ \/ plan' = plan
              \/ plan' = Tail(plan) /\ \A t \in DOMAIN db : \A row \in db'[t] : ~Covers(Head(plan), t, row)
<1> DEFINE d == Head(plan)
           M == Matching(d)
           n == Cardinality(M)
<1>1. /\ pc = "delete" /\ plan # << >>
      /\ UNCHANGED <<pc, todo, base, cur, after, work, staged, batch, before>>
  BY DEF DeleteRows, processVars, engineVars
<1>2. PICK chunk \in kSubset(IF n < DeleteChunk THEN n ELSE DeleteChunk, M) : db' = [db EXCEPT ![d.table] = @ \ chunk]
  BY DEF DeleteRows
<1>3. plan' = IF n < DeleteChunk THEN Tail(plan) ELSE plan
  BY DEF DeleteRows
<1>4. M = {row \in db[d.table] : row[d.col] \in d.ids}
  BY DEF Matching
<1>5. chunk \in SUBSET M /\ Cardinality(chunk) = IF n < DeleteChunk THEN n ELSE DeleteChunk
  BY <1>2 DEF kSubset
<1> HIDE DEF d, n, M
<1>6. DOMAIN db' = DOMAIN db /\ \A t \in DOMAIN db : t # d.table => db'[t] = db[t]
  BY <1>2
<1>7. d.table \in DOMAIN db => db'[d.table] = db[d.table] \ chunk
  BY <1>2
<1>8. \A t \in DOMAIN db : t = d.table =>
         db'[t] \subseteq db[t] /\ \A row \in db[t] \ db'[t] : Covers(d, t, row)
  BY <1>4, <1>5, <1>7 DEF Covers
<1>9. CASE n < DeleteChunk
  <2>1. plan' = Tail(plan)
    BY <1>3, <1>9
  <2>2. ASSUME NEW t \in DOMAIN db, NEW row \in db'[t], Covers(d, t, row) PROVE FALSE
    <3>1. t = d.table /\ row[d.col] \in d.ids
      BY <2>2 DEF Covers
    <3>2. row \in db[t] /\ row \notin chunk
      BY <1>7, <3>1
    <3>3. row \in M
      BY <1>4, <3>1, <3>2
    <3>4. IsFiniteSet(M)
      <4>1. IsFiniteSet(db[d.table]) /\ M \subseteq db[d.table]
        BY <1>4, <3>1 DEF TypeOK, Tables
      <4>2. QED
        BY <4>1, FS_Subset
    <3>5. Cardinality(chunk) = Cardinality(M)
      BY <1>5, <1>9 DEF n
    <3>6. chunk = M
      BY <1>5, <3>4, <3>5, FS_Subset
    <3>7. QED
      BY <3>2, <3>3, <3>6
  <2>3. QED
    BY <1>1, <1>6, <1>8, <2>1, <2>2 DEF d
<1>10. CASE ~(n < DeleteChunk)
  BY <1>1, <1>3, <1>6, <1>8, <1>10 DEF d
<1>11. QED
  BY <1>9, <1>10

\* What a statement of the plan leaves as it is.
LEMMA StatementKeeps ==
    ASSUME IInv, DeleteRows
    PROVE  /\ SameStable /\ SameBook({"commit", "state", "ref"}) /\ FewerLogs
           /\ Head(plan).table \notin Logs => SameBook(Logs)
           /\ \A t \in Content : Stable[t] \subseteq db'[t]
           /\ \A t \in Content \cup Book : db'[t] \subseteq db[t]
<1> USE DEF IInv
<1> DEFINE d == Head(plan)
<1>1. /\ DOMAIN db = Content \cup Book
      /\ \A t \in DOMAIN db : t # d.table => db'[t] = db[t]
      /\ \A t \in DOMAIN db : t = d.table =>
            db'[t] \subseteq db[t] /\ \A row \in db[t] \ db'[t] : Covers(d, t, row)
  BY Statement DEF TypeOK, Tables
<1>2. Spares(d)
  <2>1. plan \in Seq(Deletes) /\ plan # << >> /\ \A i \in DOMAIN plan : Spares(plan[i])
    BY Statement DEF Deleted
  <2>2. 1 \in DOMAIN plan /\ d = plan[1]
    BY <2>1
  <2>3. QED
    BY <2>1, <2>2
<1>3. before' = before
  BY Statement
<1> HIDE DEF d
<1>4. \A t \in Content : Stable[t] \subseteq db[t]
  BY DEF Data, Since
<1>5. \A t \in Content : Stable[t] \subseteq db'[t]
  <2> TAKE t \in Content
  <2>1. CASE t # d.table
    BY <1>1, <1>4, <2>1
  <2>2. CASE t = d.table
    <3>1. \A row \in Stable[t] : ~Covers(d, t, row)
      BY <1>2, <2>2 DEF Spares, Covers, Content, Cached, Logs
    <3>2. QED
      BY <1>1, <1>4, <2>2, <3>1
  <2>3. QED
    BY <2>1, <2>2
<1>6. SameStable
  <2>1. CASE before = NoRun
    <3>1. \A t \in Content : Stable[t] = db[t]
      BY <2>1, StableIs
    <3>2. \A t \in Content : db'[t] = db[t]
      BY <1>1, <1>5, <3>1
    <3>3. QED
      BY <1>3, <3>2, KeepsStable
  <2>2. CASE before # NoRun
    <3>1. \A t \in Content : Stable[t] = before[t]
      BY <2>2, StableIs
    <3>2. \A t \in Content : Stable'[t] = before'[t]
      <4>1. before' # NoRun'
        BY <1>3, <2>2 DEF NoRun, Content, Cached
      <4>2. QED
        BY <4>1 DEF Stable
    <3>3. QED
      BY <1>3, <3>1, <3>2 DEF SameStable
  <2>3. QED
    BY <2>1, <2>2
<1>7. db'["commit"] = db["commit"]
  <2>1. Stable["commit"] = db["commit"] /\ Stable["commit"] \subseteq db'["commit"]
    BY <1>5 DEF Data, Since, Content
  <2>2. "commit" \in DOMAIN db
    BY <1>1 DEF Content
  <2>3. QED
    BY <1>1, <2>1, <2>2
<1>8. ASSUME NEW t \in {"ref", "state"} PROVE db'[t] = db[t]
  <2>1. t \in DOMAIN db
    BY <1>1 DEF Book
  <2>2. CASE t = d.table
    <3>1. \A row \in db[t] : ~Covers(d, t, row)
      BY <1>2, <2>2 DEF Spares, Covers, Content, Cached, Logs
    <3>2. QED
      BY <1>1, <2>1, <2>2, <3>1
  <2>3. QED
    BY <1>1, <2>1, <2>2
<1>9. \A t \in Logs : t \in DOMAIN db
  BY <1>1 DEF Logs, Book
<1>10. QED
  BY <1>1, <1>5, <1>6, <1>7, <1>8, <1>9 DEF SameBook, FewerLogs, d

\* The rest of the plan still reaches every row that is not stable.
LEMMA StatementDeleted ==
    ASSUME IInv, DeleteRows
    PROVE  Deleted'
<1> USE DEF IInv
<1>1. /\ plan \in Seq(Deletes) /\ plan # << >> /\ \A i \in DOMAIN plan : Spares(plan[i])
      /\ after # "register" => \A i \in DOMAIN plan : plan[i].table \in Logs
      /\ after = "register" => \A t \in Cached : \A row \in db[t] \ Stable[t] : Reaches(t, row)
  BY Statement DEF Deleted
<1>2. after' = after /\ cur' = cur /\ SameStable /\ SameBook({"ref", "state"})
  BY Statement, StatementKeeps DEF SameBook
<1>3. \A d : Spares(d)' <=> Spares(d)
  BY <1>2, KeepsSpares
<1>4. \A t \in Cached : db'[t] \subseteq db[t] /\ Stable'[t] = Stable[t]
  BY <1>2, StatementKeeps DEF SameStable, Content
<1>5. CASE plan' = plan
  <2>1. \A t \in Cached : \A row \in db'[t] \ Stable'[t] : Reaches(t, row) => Reaches(t, row)'
    BY <1>5 DEF Reaches, Covers, Logs, Cached
  <2>2. after' = "register" => \A t \in Cached : \A row \in db'[t] \ Stable'[t] : Reaches(t, row)'
    BY <1>1, <1>2, <1>4, <2>1 DEF Cached
  <2>3. \A i \in DOMAIN plan' : Spares(plan[i])'
    BY <1>1, <1>3, <1>5
  <2>4. plan' \in Seq(Deletes) /\ (after' # "register" => \A i \in DOMAIN plan' : plan'[i].table \in Logs)
    BY <1>1, <1>2, <1>5
  <2>5. QED
    BY <2>2, <2>3, <2>4 DEF Deleted, Deletes, Content, Cached, Book, Logs
<1>6. CASE /\ plan' = Tail(plan)
           /\ \A t \in DOMAIN db : \A row \in db'[t] : ~Covers(Head(plan), t, row)
  <2>1. /\ plan' \in Seq(Deletes) /\ Len(plan) \in Nat \ {0} /\ DOMAIN plan = 1 .. Len(plan)
        /\ DOMAIN plan' = 1 .. Len(plan) - 1 /\ Head(plan) = plan[1]
        /\ \A i \in 1 .. Len(plan) - 1 : plan'[i] = plan[i + 1]
    BY <1>1, <1>6
  <2>2. \A i \in DOMAIN plan' : i + 1 \in DOMAIN plan /\ plan'[i] = plan[i + 1]
    BY <2>1
  <2>3. \A i \in DOMAIN plan' : Spares(plan[i])'
    BY <1>1, <1>3, <2>2
  <2>4. after' # "register" => \A i \in DOMAIN plan' : plan'[i].table \in Logs
    BY <1>1, <1>2, <2>2
  <2>5. ASSUME after = "register", NEW t \in Cached, NEW row \in db'[t] \ Stable'[t]
        PROVE  Reaches(t, row)'
    <3>1. row \in db[t] \ Stable[t] /\ t \in DOMAIN db
      BY <1>4, <2>5 DEF TypeOK, Tables, Content
    <3>2. PICK i \in DOMAIN plan : Covers(plan[i], t, row) /\ \A j \in 1 .. i : plan[j].table \notin Logs
      BY <1>1, <2>5, <3>1 DEF Reaches
    <3>3. i # 1
      BY <1>6, <2>1, <2>5, <3>1, <3>2
    <3>4. i - 1 \in DOMAIN plan' /\ plan'[i - 1] = plan[i]
      <4>1. i - 1 \in 1 .. Len(plan) - 1 /\ (i - 1) + 1 = i
        BY <2>1, <3>2, <3>3
      <4>2. QED
        BY <2>1, <4>1
    <3>5. \A j \in 1 .. i - 1 : plan'[j].table \notin Logs
      <4> TAKE j \in 1 .. i - 1
      <4>1. j + 1 \in 1 .. i /\ j \in 1 .. Len(plan) - 1
        BY <2>1, <3>2
      <4>2. QED
        BY <2>1, <3>2, <4>1
    <3>6. \E k \in DOMAIN plan' : Covers(plan'[k], t, row) /\ \A j \in 1 .. k : plan'[j].table \notin Logs
      BY <3>2, <3>4, <3>5
    <3>7. QED
      BY <3>6 DEF Reaches, Covers, Logs
  <2>6. after' = "register" => \A t \in Cached : \A row \in db'[t] \ Stable'[t] : Reaches(t, row)'
    BY <1>2, <2>5
  <2>7. QED
    BY <2>1, <2>3, <2>4, <2>6 DEF Deleted, Deletes, Content, Cached, Book, Logs
<1>7. QED
  BY <1>5, <1>6, Statement

LEMMA DeleteStep ==
    ASSUME IInv, DeleteRows
    PROVE  IInv'
<1> USE DEF IInv
<1>1. /\ pc = "delete" /\ plan # << >> /\ DOMAIN db' = DOMAIN db
      /\ UNCHANGED <<pc, todo, base, cur, after, work, staged, batch, before>>
  BY Statement
<1>2. /\ SameStable /\ SameBook({"commit", "state", "ref"}) /\ FewerLogs
      /\ \A t \in Content : Stable[t] \subseteq db'[t]
      /\ \A t \in Content \cup Book : db'[t] \subseteq db[t]
  BY StatementKeeps
<1>3. TypeOK'
  <2>1. \A t \in Content \cup Book : db'[t] \subseteq RowType[t] /\ IsFiniteSet(db'[t])
    BY <1>2, FS_Subset DEF TypeOK, Tables
  <2>2. Tables(db, Content \cup Book)'
    BY <1>1, <2>1 DEF TypeOK, Tables, Content, Book, Cached, RowType, Ids, Commits, Files, Refs, Marked
  <2>3. QED
    BY <1>1, <2>2 DEF TypeOK, Tables
<1>4. SameBook({"commit", "state"})
  BY <1>2 DEF SameBook
<1>5. Sound(Stable')
  <2>1. \A t \in Cached : Stable'[t] = Stable[t]
    BY <1>2 DEF SameStable, Content
  <2>2. QED
    BY <2>1, KeepsSound DEF Data
<1>6. Since'
  <2>1. CASE Head(plan).table \notin Logs
    <3>1. SameBook({"commit", "state", "mark", "reparse"})
      BY <1>2, <2>1, StatementKeeps DEF SameBook, Logs
    <3>2. \A t \in Content : Stable'[t] \subseteq db'[t]
      BY <1>2 DEF SameStable
    <3>3. \A t \in Cached : Held(t)' \subseteq Held(t)
      BY <1>1, <1>2 DEF Held, Content
    <3>4. QED
      BY <1>2, <3>1, <3>2, <3>3, KeepsSince DEF Data
  <2>2. CASE Head(plan).table \in Logs
    <3>1. \A t \in Cached : \A row \in db[t] \ Stable[t] : FALSE
      <4>1. CASE after = "register"
        <5> SUFFICES ASSUME NEW t \in Cached, NEW row \in db[t] \ Stable[t] PROVE FALSE
          OBVIOUS
        <5>1. PICK i \in DOMAIN plan : \A j \in 1 .. i : plan[j].table \notin Logs
          BY <1>1, <4>1 DEF Deleted, Reaches
        <5>2. plan \in Seq(Deletes)
          BY <1>1 DEF Deleted
        <5>3. 1 \in 1 .. i /\ Head(plan) = plan[1]
          BY <1>1, <5>1, <5>2
        <5>4. QED
          BY <2>2, <5>1, <5>3
      <4>2. CASE after # "register"
        <5>1. before = NoRun
          BY <1>1, <4>2 DEF Position, Deleting, TypeOK
        <5>2. QED
          BY <5>1, StableIs DEF Content
      <4>3. QED
        BY <4>1, <4>2
    <3>2. \A t \in Cached : Held(t) = Stable[t] /\ db[t] = Stable[t]
      BY <1>1, <3>1, DeletedIsClean DEF Content
    <3>3. \A t \in Cached : db'[t] = Stable'[t]
      <4> TAKE t \in Cached
      <4>1. t \in Content
        BY DEF Content
      <4>2. db'[t] \subseteq db[t] /\ Stable[t] \subseteq db'[t] /\ Stable'[t] = Stable[t] /\ db[t] = Stable[t]
        BY <1>2, <3>2, <4>1 DEF SameStable
      <4>3. QED
        BY <4>2
    <3>4. \A t \in Cached : Held(t)' = db'[t]
      <4>1. \A t \in Cached : staged[t] = {} /\ batch[t] = {}
        BY <1>1, NothingStaged
      <4>2. QED
        BY <1>1, <4>1 DEF Held
    <3>5. (Stable["commit"] = db["commit"])'
      BY <1>2 DEF SameStable, SameBook, Data, Since, Content
    <3>6. \A t \in Cached : Held(t)' = Stable'[t] /\ db'[t] = Stable'[t]
      BY <3>3, <3>4
    <3>7. QED
      BY <1>5, <3>5, <3>6, CleanSince
  <2>3. QED
    BY <2>1, <2>2
<1>7. Data'
  BY <1>2, <1>4, <1>5, <1>6, KeepsRegistered, KeepsWhole, KeepsRecorded DEF Data
<1>8. Position'
  <2>1. /\ \A c : DoneCommit(c)' <=> DoneCommit(c)
        /\ \A id : (ParsingId(id)' <=> ParsingId(id)) /\ (DoneId(id)' <=> DoneId(id))
        /\ \A c : CommitId(c)' = CommitId(c)
        /\ db'["ref"] = db["ref"] /\ db'["state"] = db["state"] /\ db'["commit"] = db["commit"]
    BY <1>2, <1>4, KeepsStatus DEF SameBook
  <2>2. InOrder(todo)'
    BY <1>1, <2>1, KeepsOrder DEF Position
  <2>3. QED
    BY <1>1, <2>1, <2>2 DEF Position, Deleting, IsCur, Target, NoRun, Content, Cached, Commits
<1>9. Deleted' /\ Parsing'
  BY <1>1, StatementDeleted DEF Parsing
<1>10. QED
  BY <1>3, <1>7, <1>8, <1>9

-----------------------------------------------------------------------------
(***************************************************************************)
(* The rows of the tags.                                                   *)
(***************************************************************************)
\* A tag of a reached commit is registered; a row of a finished version stays.
LEMMA RefWritten ==
    ASSUME TypeOK, Data, NEW x \in Refs, NEW id, [id |-> id, of |-> HeadOf[x]] \in db["commit"],
           Reached(HeadOf[x]), UNCHANGED <<before, staged, batch>>, DOMAIN db' = DOMAIN db,
           \A t \in DOMAIN db : t # "ref" => db'[t] = db[t],
           [name |-> x, commit |-> id] \in db'["ref"],
           \A row \in db'["ref"] : row \in db["ref"] \/ row = [name |-> x, commit |-> id],
           \A row \in db["ref"] : DoneId(row.commit) => row \in db'["ref"]
    PROVE  Tables(db, Content \cup Book)' /\ Data'
<1> DEFINE new == [name |-> x, commit |-> id]
           c == [id |-> id, of |-> HeadOf[x]]
<1>1. DOMAIN db = Content \cup Book /\ \A t \in Content : t # "ref" /\ t \in DOMAIN db
  BY DEF TypeOK, Tables, Content, Cached
<1>2. SameStable
  BY <1>1, KeepsStable
<1>3. /\ db'["commit"] = db["commit"] /\ db'["state"] = db["state"]
      /\ db'["mark"] = db["mark"] /\ db'["reparse"] = db["reparse"]
  BY <1>1 DEF Content, Book
<1>4. SameBook({"commit", "state", "mark", "reparse"}) /\ SameBook({"commit", "state"})
      /\ SameBook({"state", "commit"}) /\ FewerLogs
  BY <1>3 DEF SameBook, FewerLogs, Logs
<1>5. id \in Ids /\ c \in db["commit"] /\ c.id = id /\ c.of = HeadOf[x]
  BY RowTypes
<1>6. new \in RowType["ref"] /\ new.name = x /\ new.commit = id
  BY <1>5 DEF RowType
<1>7. /\ \A k : DoneId(k)' <=> DoneId(k)
      /\ \A k : Reached(k)' <=> Reached(k)
  BY <1>4, KeepsStatus
<1>8. Tables(db, Content \cup Book)'
  <2>1. db["ref"] \subseteq RowType["ref"] /\ IsFiniteSet(db["ref"])
    BY DEF TypeOK, Tables, Book
  <2>2. db'["ref"] \subseteq db["ref"] \cup {new}
    OBVIOUS
  <2>3. IsFiniteSet(db["ref"] \cup {new})
    BY <2>1, FS_AddElement
  <2>4. db'["ref"] \subseteq RowType["ref"] /\ IsFiniteSet(db'["ref"])
    BY <1>6, <2>1, <2>2, <2>3, FS_Subset
  <2>5. \A t \in Content \cup Book : db'[t] \subseteq RowType[t] /\ IsFiniteSet(db'[t])
    BY <1>1, <2>4 DEF TypeOK, Tables
  <2>6. QED
    BY <1>1, <2>5 DEF Tables, Content, Book, Cached, RowType, Ids, Commits, Files, Refs, Marked
<1> HIDE DEF new, c
<1>9. Registered'
  <2>1. \A t \in {"ref", "state", "mark", "reparse"} : \A row \in db'[t] :
            \E r \in db'["commit"] : r.id = row.commit /\ Reached(r.of)'
    <3> SUFFICES ASSUME NEW t \in {"ref", "state", "mark", "reparse"}, NEW row \in db'[t]
                 PROVE  \E r \in db["commit"] : r.id = row.commit /\ Reached(r.of)
      BY <1>3, <1>7
    <3>1. CASE row \in db[t]
      BY <3>1 DEF Data, Registered
    <3>2. CASE row = new
      BY <1>5, <1>6, <3>2
    <3>3. QED
      BY <1>3, <3>1, <3>2 DEF new
  <2>2. \A row \in db'["ref"] : \E r \in db'["commit"] : r.id = row.commit /\ r.of = HeadOf[row.name]
    <3> SUFFICES ASSUME NEW row \in db'["ref"]
                 PROVE  \E r \in db["commit"] : r.id = row.commit /\ r.of = HeadOf[row.name]
      BY <1>3
    <3>1. CASE row \in db["ref"]
      BY <3>1 DEF Data, Registered
    <3>2. CASE row = new
      BY <1>5, <1>6, <3>2
    <3>3. QED
      BY <3>1, <3>2 DEF new
  <2>3. OneRow(db'["commit"]) /\ OneStatus'
    BY <1>3 DEF Data, Registered, OneStatus, OneRow
  <2>4. QED
    BY <2>1, <2>2, <2>3 DEF Registered
<1>10. Sound(Stable')
  <2>1. \A t \in Cached : Stable'[t] = Stable[t]
    BY <1>2 DEF SameStable, Content
  <2>2. QED
    BY <2>1, KeepsSound DEF Data
<1>11. Whole'
  <2>1. /\ Stable'["blob"] = Stable["blob"] /\ Stable'["checkpoint"] = Stable["checkpoint"]
        /\ Stable'["bridge"] = Stable["bridge"]
    BY <1>2 DEF SameStable, Content, Cached
  <2>2. \A k, f : Stored(Stable', k, f) <=> Stored(Stable, k, f)
    BY <2>1 DEF Stored
  <2>3. \A row, k : FileOf(Stable', row, k) <=> FileOf(Stable, row, k)
    BY <2>1 DEF FileOf
  <2>4. ASSUME NEW r \in db'["commit"], DoneId(r.id)'
        PROVE  (\E row \in db'["ref"] : row.commit = r.id) /\ \A f \in Tree[r.of] : Stored(Stable', r.id, f)
    <3>1. r \in db["commit"] /\ DoneId(r.id)
      BY <1>3, <1>7, <2>4
    <3>2. (\E row \in db["ref"] : row.commit = r.id) /\ \A f \in Tree[r.of] : Stored(Stable, r.id, f)
      BY <3>1 DEF Data, Whole
    <3>3. QED
      BY <2>2, <3>1, <3>2
  <2>5. \A row \in Stable'["checkpoint"] : \E r \in db'["commit"] :
            r.id = row.commit /\ DoneId(r.id)' /\ FileOf(Stable', row, r.of)
    <3> TAKE row \in Stable'["checkpoint"]
    <3>1. PICK r \in db["commit"] : r.id = row.commit /\ DoneId(r.id) /\ FileOf(Stable, row, r.of)
      BY <2>1 DEF Data, Whole
    <3>2. QED
      BY <1>3, <1>7, <2>3, <3>1
  <2>6. QED
    BY <2>4, <2>5 DEF Whole
<1>12. Since'
  <2>1. \A t \in Content : Stable'[t] \subseteq db'[t]
    BY <1>1, <1>2 DEF SameStable, Data, Since
  <2>2. \A t \in Cached : Held(t)' \subseteq Held(t)
    BY <1>1 DEF Held, Content
  <2>3. QED
    BY <1>2, <1>4, <2>1, <2>2, KeepsSince DEF Data
<1>13. Recorded'
  BY <1>2, <1>4, KeepsRecorded DEF Data
<1>14. QED
  BY <1>8, <1>9, <1>10, <1>11, <1>12, <1>13 DEF Data

LEMMA AliasStep ==
    ASSUME IInv, RegisterAlias
    PROVE  IInv'
<1> USE DEF IInv
<1> DEFINE x == Head(todo)
<1>1. /\ pc = "check" /\ todo # << >> /\ InOrder(todo) /\ Advance
      /\ Status(CommitId(Target)) = DONE
      /\ db' = [db EXCEPT !.ref = @ \cup {[name |-> x, commit |-> CommitId(Target)]}]
      /\ UNCHANGED <<plan, after, work, staged, batch, before>>
  BY DEF RegisterAlias, engineVars, Position
<1>2. x \in Refs /\ Target = HeadOf[x] /\ Reached(HeadOf[x])
  BY <1>1, TargetIs DEF Target
<1>3. [id |-> CommitId(Target), of |-> Target] \in db["commit"] /\ DoneId(CommitId(Target))
  BY <1>1, StatusIs, CommitIdIs DEF Data, Ids, NoId
<1>4. DoneCommit(Target)
  BY <1>3 DEF DoneCommit
<1> HIDE DEF x
<1>5. "ref" \in DOMAIN db /\ DOMAIN db' = DOMAIN db
  BY <1>1 DEF TypeOK, Tables, Book
<1>6. /\ \A t \in DOMAIN db : t # "ref" => db'[t] = db[t]
      /\ db'["ref"] = db["ref"] \cup {[name |-> x, commit |-> CommitId(Target)]}
  BY <1>1, <1>5
<1>7. Tables(db, Content \cup Book)' /\ Data'
  <2>1. \A row \in db'["ref"] : row \in db["ref"] \/ row = [name |-> x, commit |-> CommitId(Target)]
    BY <1>6
  <2>2. [name |-> x, commit |-> CommitId(Target)] \in db'["ref"] /\ \A row \in db["ref"] : row \in db'["ref"]
    BY <1>6
  <2>3. QED
    BY <1>1, <1>2, <1>3, <1>5, <1>6, <2>1, <2>2, RefWritten
<1>8. SameBook({"state", "commit"}) /\ SameBook({"state"})
  BY <1>5, <1>6 DEF SameBook, TypeOK, Tables, Content, Book
<1>9. Position' /\ Deleted' /\ Parsing'
  <2>1. \A c : DoneCommit(c)' <=> DoneCommit(c)
    BY <1>8, KeepsStatus
  <2>2. QED
    BY <1>1, <1>4, <1>8, <2>1, AdvanceStep
<1>10. TypeOK'
  <2>1. todo' \in Seq(Refs) /\ pc' \in {"down", "check"}
    BY <1>1, SomeTarget DEF Advance
  <2>2. QED
    BY <1>1, <1>7, <2>1 DEF TypeOK, Tables, Phases
<1>11. QED
  BY <1>7, <1>9, <1>10

LEMMA RefStep ==
    ASSUME IInv, RegisterRef
    PROVE  IInv'
<1> USE DEF IInv
<1> DEFINE x == Head(todo)
<1>1. /\ pc = "ref" /\ todo # << >> /\ InOrder(todo) /\ IsCur /\ ~DoneId(cur) /\ before = NoRun
      /\ db' = [db EXCEPT !.ref = {row \in @ : row.name # x} \cup {[name |-> x, commit |-> cur]}]
      /\ pc' = "delete" /\ plan' = DiscardMarks /\ after' = "mark"
      /\ UNCHANGED <<todo, base, cur, work, staged, batch, before>>
  BY DEF RegisterRef, RunDeletes, processVars, engineVars, Position
<1>2. x \in Refs /\ Target = HeadOf[x] /\ Reached(HeadOf[x])
  BY <1>1, TargetIs DEF Target
<1>3. [id |-> cur, of |-> HeadOf[x]] \in db["commit"]
  BY <1>1, <1>2 DEF IsCur
<1> HIDE DEF x
<1>4. cur \in Ids
  BY <1>3, RowTypes
<1>5. "ref" \in DOMAIN db /\ DOMAIN db' = DOMAIN db
  BY <1>1 DEF TypeOK, Tables, Book
<1>6. /\ \A t \in DOMAIN db : t # "ref" => db'[t] = db[t]
      /\ db'["ref"] = {row \in db["ref"] : row.name # x} \cup {[name |-> x, commit |-> cur]}
  BY <1>1, <1>5
<1>7. ASSUME NEW row \in db["ref"], DoneId(row.commit) PROVE row.name # x
  <2> SUFFICES ASSUME row.name = x PROVE FALSE
    OBVIOUS
  <2>1. PICK r \in db["commit"] : r.id = row.commit /\ r.of = HeadOf[x]
    BY DEF Data, Registered
  <2>2. r = [id |-> cur, of |-> HeadOf[x]]
    BY <1>3, <2>1 DEF Data, Registered, OneRow
  <2>3. QED
    BY <1>1, <1>7, <2>1, <2>2
<1>8. Tables(db, Content \cup Book)' /\ Data'
  <2>1. \A row \in db'["ref"] : row \in db["ref"] \/ row = [name |-> x, commit |-> cur]
    BY <1>6
  <2>2. [name |-> x, commit |-> cur] \in db'["ref"] /\ \A row \in db["ref"] : DoneId(row.commit) => row \in db'["ref"]
    BY <1>6, <1>7
  <2>3. QED
    BY <1>1, <1>2, <1>3, <1>5, <1>6, <2>1, <2>2, RefWritten
<1>9. TypeOK'
  BY <1>1, <1>8 DEF TypeOK, Tables, Phases
<1>10. SameBook({"state", "commit"})
  BY <1>5, <1>6 DEF SameBook, TypeOK, Tables, Content, Book
<1>11. /\ \A c : DoneCommit(c)' <=> DoneCommit(c)
       /\ \A id : DoneId(id)' <=> DoneId(id)
  BY <1>10, KeepsStatus
<1>12. Position'
  <2>1. InOrder(todo)'
    BY <1>1, <1>11, KeepsOrder
  <2>2. (IsCur /\ ~DoneId(cur))'
    BY <1>1, <1>10, <1>11 DEF IsCur, Target, SameBook
  <2>3. (\E row \in db.ref : row.commit = cur)'
    <3>1. [name |-> x, commit |-> cur] \in db'["ref"] /\ [name |-> x, commit |-> cur].commit = cur
      BY <1>6
    <3>2. \E row \in db'["ref"] : row.commit = cur'
      BY <1>1, <3>1
    <3>3. QED
      BY <3>2
  <2>4. (before = NoRun)'
    BY <1>1 DEF NoRun, Content, Cached
  <2>5. (base = NoCommit \/ (base \in Commits /\ DoneCommit(base)))'
    BY <1>1, <1>11 DEF Position, Commits
  <2>6. QED
    BY <1>1, <2>1, <2>2, <2>3, <2>4, <2>5 DEF Position, Deleting
<1>13. Deleted' /\ Parsing'
  <2>1. /\ plan' \in Seq(Deletes)
        /\ \A i \in DOMAIN plan' : plan'[i].table \in Logs /\ Spares(plan'[i])
    BY <1>1, <1>4, DiscardMarksAre
  <2>2. ASSUME NEW i \in DOMAIN plan' PROVE Spares(plan[i])'
    <3>1. plan'[i].col = "commit" /\ plan'[i].ids = {cur} /\ plan'[i].table \in Logs
      BY <1>1, <2>1, <2>2, DiscardMarksAre DEF Spares, Logs, Content, Cached
    <3>2. QED
      BY <1>1, <3>1 DEF Spares, Logs
  <2>3. QED
    BY <1>1, <2>1, <2>2 DEF Deleted, Deletes, Content, Cached, Book, Logs, Parsing
<1>14. QED
  BY <1>8, <1>9, <1>12, <1>13

-----------------------------------------------------------------------------
(***************************************************************************)
(* The start of a run.                                                     *)
(***************************************************************************)
\* The image of a finite set is finite.
LEMMA FiniteImage ==
    ASSUME NEW S, NEW T, NEW f \in [S -> T], \A y \in T : \E x \in S : f[x] = y, IsFiniteSet(S)
    PROVE  IsFiniteSet(T)
<1>1. f \in Surjection(S, T)
  BY DEF Surjection
<1>2. QED
  BY <1>1, FS_Surjection

\* _ingest_commit_range: fresh ids, one per commit without a row.
LEMMA NewRows ==
    ASSUME TypeOK, Registered, Target \in Commits, cur = CommitId(Target),
           NEW new, new = (IF cur = NoId THEN NewCommits ELSE << >>),
           NEW rows, rows = {[id |-> MaxId(db.commit) + i, of |-> new[i]] : i \in DOMAIN new}
    PROVE  /\ rows \subseteq RowType["commit"] /\ IsFiniteSet(rows)
           /\ \A r \in rows : \A s \in db["commit"] : r.id > s.id /\ r.of # s.of
           /\ OneRow(rows)
           /\ cur = NoId => \E r \in rows : r.of = Target
           /\ cur # NoId => rows = {}
<1> DEFINE m == MaxId(db.commit)
           lacks == {c \in History(Target) : CommitId(c) = NoId}
<1>1. m \in Nat /\ \A s \in db["commit"] : s.id <= m
  <2>1. IsFiniteSet(db["commit"]) /\ \A s \in db["commit"] : s.id \in Nat
    BY RowTypes DEF TypeOK, Tables, Content, Ids
  <2>2. QED
    BY <2>1, HighestId
<1> HIDE DEF m
<1>2. /\ NewCommits \in Seq(Commits) /\ Range(NewCommits) = Range(CommitOrder) \cap lacks
      /\ IsInjective(NewCommits)
  BY IngestAssumptions, ThoseOf DEF NewCommits
<1>3. new \in Seq(Commits) /\ IsInjective(new) /\ \A i \in DOMAIN new : new[i] \in lacks
  <2>1. CASE cur = NoId
    BY <1>2, <2>1 DEF Range
  <2>2. CASE cur # NoId
    <3>1. << >> \in Seq(Commits) /\ DOMAIN << >> = {}
      OBVIOUS
    <3>2. QED
      BY <2>2, <3>1 DEF IsInjective
  <2>3. QED
    BY <2>1, <2>2
<1>4. /\ DOMAIN new = 1 .. Len(new) /\ Len(new) \in Nat /\ \A i \in DOMAIN new : new[i] \in Commits
      /\ \A i, j \in DOMAIN new : new[i] = new[j] => i = j
  BY <1>3 DEF IsInjective
<1>5. ASSUME NEW r \in rows
      PROVE  \E i \in DOMAIN new : r = [id |-> m + i, of |-> new[i]] /\ r.id = m + i /\ r.of = new[i]
  BY DEF m
<1>6. \A i \in DOMAIN new : m + i \in Ids /\ m + i > m
  BY <1>1, <1>4 DEF Ids
<1>7. rows \subseteq RowType["commit"]
  <2> SUFFICES ASSUME NEW r \in rows PROVE r \in [id : Ids, of : Commits]
    BY DEF RowType
  <2>1. QED
    BY <1>4, <1>5, <1>6
<1>8. IsFiniteSet(rows)
  <2>1. PICK f : f = [i \in DOMAIN new |-> [id |-> m + i, of |-> new[i]]]
    OBVIOUS
  <2>2. f \in [DOMAIN new -> rows]
    BY <2>1 DEF m
  <2>3. \A r \in rows : \E i \in DOMAIN new : f[i] = r
    BY <1>5, <2>1
  <2>4. IsFiniteSet(DOMAIN new)
    BY <1>4, FS_Interval
  <2>5. QED
    BY <2>2, <2>3, <2>4, FiniteImage
<1>9. ASSUME NEW r \in rows, NEW s \in db["commit"] PROVE r.id > s.id /\ r.of # s.of
  <2>1. PICK i \in DOMAIN new : r.id = m + i /\ r.of = new[i]
    BY <1>5
  <2>2. CommitId(r.of) = NoId
    BY <1>3, <2>1
  <2>3. r.of # s.of
    BY <2>2, CommitIdIs
  <2>4. m + i > m /\ s.id <= m /\ s.id \in Nat /\ m + i \in Nat
    BY <1>1, <1>6, RowTypes DEF Ids
  <2>5. QED
    BY <1>1, <2>1, <2>3, <2>4
<1>10. OneRow(rows)
  <2> SUFFICES ASSUME NEW r \in rows, NEW s \in rows, r.id = s.id \/ r.of = s.of PROVE r = s
    BY DEF OneRow
  <2>1. PICK i \in DOMAIN new : r = [id |-> m + i, of |-> new[i]] /\ r.id = m + i /\ r.of = new[i]
    BY <1>5
  <2>2. PICK j \in DOMAIN new : s = [id |-> m + j, of |-> new[j]] /\ s.id = m + j /\ s.of = new[j]
    BY <1>5
  <2>3. i = j
    <3>1. CASE m + i = m + j
      BY <1>1, <1>4, <3>1
    <3>2. CASE new[i] = new[j]
      BY <1>4, <3>2
    <3>3. QED
      BY <2>1, <2>2, <3>1, <3>2
  <2>4. QED
    BY <2>1, <2>2, <2>3
<1>11. ASSUME cur = NoId PROVE \E r \in rows : r.of = Target
  <2>1. Target \in lacks
    BY <1>11, Histories
  <2>2. Target \in Range(CommitOrder)
    BY DEF Commits, ToSet, Range
  <2>3. PICK i \in DOMAIN new : new[i] = Target
    BY <1>2, <1>11, <2>1, <2>2 DEF Range
  <2>4. [id |-> m + i, of |-> new[i]] \in rows
    BY DEF m
  <2>5. QED
    BY <2>3, <2>4
<1>12. cur # NoId => rows = {}
  <2>1. DOMAIN << >> = {}
    OBVIOUS
  <2>2. QED
    BY <2>1
<1>13. QED
  BY <1>7, <1>8, <1>9, <1>10, <1>11, <1>12

LEMMA CommitsStep ==
    ASSUME IInv, RegisterCommits
    PROVE  IInv'
<1> USE DEF IInv
<1> DEFINE new == IF cur = NoId THEN NewCommits ELSE << >>
           rows == {[id |-> MaxId(db.commit) + i, of |-> new[i]] : i \in DOMAIN new}
<1>1. /\ pc = "register" /\ todo # << >> /\ InOrder(todo) /\ cur = CommitId(Target) /\ ~DoneCommit(Target)
      /\ \A t \in Content : db[t] = Stable[t]
      /\ db' = [db EXCEPT !.commit = @ \cup rows]
      /\ cur' = IF cur = NoId THEN IdIn(db.commit \cup rows, Target) ELSE cur
      /\ before' = NoRun /\ pc' = "ref"
      /\ UNCHANGED <<todo, base, plan, after, work, staged, batch>>
  BY DEF RegisterCommits, engineVars, Position
<1>2. Target \in Commits /\ Reached(Target)
  BY <1>1, TargetIs
<1>3. /\ rows \subseteq RowType["commit"] /\ IsFiniteSet(rows)
      /\ \A r \in rows : \A s \in db["commit"] : r.id > s.id /\ r.of # s.of
      /\ OneRow(rows)
      /\ cur = NoId => \E r \in rows : r.of = Target
      /\ cur # NoId => rows = {}
  BY <1>1, <1>2, NewRows DEF Data
<1> HIDE DEF new, rows
<1>4. DOMAIN db = Content \cup Book /\ "commit" \in DOMAIN db
  BY DEF TypeOK, Tables, Content
<1>5. /\ DOMAIN db' = DOMAIN db /\ db'["commit"] = db["commit"] \cup rows
      /\ \A t \in DOMAIN db : t # "commit" => db'[t] = db[t]
  BY <1>1, <1>4
<1>6. Tables(db, Content \cup Book)'
  <2>1. db["commit"] \subseteq RowType["commit"] /\ IsFiniteSet(db["commit"])
    BY DEF TypeOK, Tables, Content
  <2>2. IsFiniteSet(db["commit"] \cup rows)
    BY <1>3, <2>1, FS_Union
  <2>3. db'["commit"] \subseteq RowType["commit"] /\ IsFiniteSet(db'["commit"])
    BY <1>3, <1>5, <2>1, <2>2
  <2>4. \A t \in Content \cup Book : db'[t] \subseteq RowType[t] /\ IsFiniteSet(db'[t])
    <3> SUFFICES ASSUME NEW t \in Content \cup Book
                 PROVE  db'[t] \subseteq RowType[t] /\ IsFiniteSet(db'[t])
      OBVIOUS
    <3>1. CASE t = "commit"
      BY <2>3, <3>1
    <3>2. CASE t # "commit"
      BY <1>4, <1>5, <3>2 DEF TypeOK, Tables
    <3>3. QED
      BY <3>1, <3>2
  <2>5. QED
    BY <1>4, <1>5, <2>4 DEF Tables, Content, Book, Cached, RowType, Ids, Commits, Files, Refs, Marked
<1>7. TypeOK'
  <2>1. Tables(NoRun, Content)
    BY FS_EmptySet DEF Tables, NoRun
  <2>2. Tables(before, Content)'
    BY <1>1, <2>1 DEF Tables, Content, Book, Cached, RowType, Ids, Commits, Files, Refs, Marked
  <2>3. QED
    BY <1>1, <1>6, <2>2 DEF TypeOK, Tables, Phases
<1>8. OneRow(db'["commit"])
  <2>1. OneRow(db["commit"])
    BY DEF Data, Registered
  <2>2. \A r \in rows : \A s \in db["commit"] : r.id # s.id /\ r.of # s.of
    <3> SUFFICES ASSUME NEW r \in rows, NEW s \in db["commit"] PROVE r.id # s.id
      BY <1>3
    <3>1. r.id > s.id /\ s.id \in Nat
      BY <1>3, RowTypes DEF Ids
    <3>2. QED
      BY <3>1
  <2>3. QED
    BY <1>3, <1>5, <2>1, <2>2 DEF OneRow
<1>9. /\ db'["state"] = db["state"] /\ db'["ref"] = db["ref"]
      /\ db'["mark"] = db["mark"] /\ db'["reparse"] = db["reparse"]
      /\ \A t \in Cached : db'[t] = db[t]
  BY <1>4, <1>5 DEF Content, Book, Cached
<1>10. /\ \A id : DoneId(id)' <=> DoneId(id)
       /\ \A id : ParsingId(id)' <=> ParsingId(id)
  BY <1>9 DEF DoneId, ParsingId
<1>11. \A r \in rows : ~DoneId(r.id)
  <2> SUFFICES ASSUME NEW r \in rows, DoneId(r.id) PROVE FALSE
    OBVIOUS
  <2>1. PICK s \in db["commit"] : s.id = r.id
    BY DEF DoneId, Data, Registered
  <2>2. s.id \in Nat /\ r.id > s.id
    BY <1>3, RowTypes DEF Ids
  <2>3. QED
    BY <2>1, <2>2
<1>12. \A c : DoneCommit(c)' <=> DoneCommit(c)
  BY <1>5, <1>10, <1>11 DEF DoneCommit
<1>13. \A c : Reached(c)' <=> Reached(c)
  BY <1>12 DEF Reached, Earlier, History
<1>14. \A t \in Content : Stable'[t] = db'[t]
  BY <1>1, StableIs DEF Stable, NoRun, Content, Cached
<1>15. \A t \in Cached : Stable'[t] = Stable[t]
  BY <1>1, <1>9, <1>14 DEF Content
<1>16. Registered'
  <2>1. \A t \in {"ref", "state", "mark", "reparse"} : \A row \in db'[t] :
            \E r \in db'["commit"] : r.id = row.commit /\ Reached(r.of)'
    <3> TAKE t \in {"ref", "state", "mark", "reparse"}
    <3> TAKE row \in db'[t]
    <3>1. row \in db[t]
      BY <1>9
    <3>2. PICK r \in db["commit"] : r.id = row.commit /\ Reached(r.of)
      BY <3>1 DEF Data, Registered
    <3>3. QED
      BY <1>5, <1>13, <3>2
  <2>2. OneStatus'
    BY <1>9 DEF Data, Registered, OneStatus
  <2>3. \A row \in db'["ref"] : \E r \in db'["commit"] : r.id = row.commit /\ r.of = HeadOf[row.name]
    BY <1>5, <1>9 DEF Data, Registered
  <2>4. QED
    BY <1>8, <2>1, <2>2, <2>3 DEF Registered
<1>17. Sound(Stable')
  BY <1>15, KeepsSound DEF Data
<1>18. Whole'
  <2>1. /\ Stable'["blob"] = Stable["blob"] /\ Stable'["checkpoint"] = Stable["checkpoint"]
        /\ Stable'["bridge"] = Stable["bridge"]
    BY <1>15 DEF Cached
  <2>2. \A k, f : Stored(Stable', k, f) <=> Stored(Stable, k, f)
    BY <2>1 DEF Stored
  <2>3. \A row, k : FileOf(Stable', row, k) <=> FileOf(Stable, row, k)
    BY <2>1 DEF FileOf
  <2>4. ASSUME NEW r \in db'["commit"], DoneId(r.id)'
        PROVE  (\E row \in db'["ref"] : row.commit = r.id) /\ \A f \in Tree[r.of] : Stored(Stable', r.id, f)
    <3>1. r \in db["commit"] /\ DoneId(r.id)
      BY <1>5, <1>10, <1>11, <2>4
    <3>2. (\E row \in db["ref"] : row.commit = r.id) /\ \A f \in Tree[r.of] : Stored(Stable, r.id, f)
      BY <3>1 DEF Data, Whole
    <3>3. QED
      BY <1>9, <2>2, <3>1, <3>2
  <2>5. \A row \in Stable'["checkpoint"] : \E r \in db'["commit"] :
            r.id = row.commit /\ DoneId(r.id)' /\ FileOf(Stable', row, r.of)
    <3> TAKE row \in Stable'["checkpoint"]
    <3>1. PICK r \in db["commit"] : r.id = row.commit /\ DoneId(r.id) /\ FileOf(Stable, row, r.of)
      BY <2>1 DEF Data, Whole
    <3>2. QED
      BY <1>5, <1>10, <2>3, <3>1
  <2>6. QED
    BY <2>4, <2>5 DEF Whole
<1>19. Since'
  <2>1. \A t \in Cached : Held(t)' = db'[t]
    BY <1>1, NothingStaged DEF Held
  <2>2. \A t \in Cached : Held(t)' = Stable'[t] /\ db'[t] = Stable'[t]
    BY <1>14, <2>1 DEF Content
  <2>3. Stable'["commit"] = db'["commit"]
    BY <1>14 DEF Content
  <2>4. QED
    BY <1>17, <2>2, <2>3, CleanSince
\* There are no marks to speak of unless the commits were there already.
<1>20. Recorded'
  <2>1. Stable'["bridge"] = Stable["bridge"] /\ Stable'["def"] = Stable["def"]
    BY <1>15 DEF Cached
  <2>2. ASSUME NEW mk \in db'["mark"], ~DoneId(mk.commit)' PROVE mk.max = Top(mk.table)'
    <3>1. mk \in db["mark"] /\ ~DoneId(mk.commit) /\ mk.table \in Marked
      BY <1>9, <1>10, <2>2, RowTypes
    <3>2. mk.max = Top(mk.table)
      BY <3>1 DEF Data, Recorded
    <3>3. cur # NoId
      <4>1. PICK r \in db["commit"] : r.id = mk.commit /\ Reached(r.of)
        BY <3>1 DEF Data, Registered
      <4>2. r.of = Target
        BY <1>1, <1>2, <3>1, <4>1, OneOpen DEF Data
      <4>3. QED
        BY <1>1, <4>2, CommitIdIs DEF Data
    <3>4. Stable'["commit"] = Stable["commit"]
      BY <1>1, <1>3, <1>5, <1>14, <3>3 DEF Content
    <3>5. Stable'[mk.table] = Stable[mk.table]
      BY <1>15, <3>1, <3>4 DEF Marked, Cached
    <3>6. QED
      BY <3>2, <3>5 DEF Top
  <2>3. \A rp \in db'["reparse"] : ~DoneId(rp.commit)' =>
            \A t \in {"bridge", "def"} : \A row \in Stable'[t] : row.blob # rp.blob
    BY <1>9, <1>10, <2>1 DEF Data, Recorded
  <2>4. QED
    BY <2>2, <2>3 DEF Recorded
<1>21. Position'
  <2>1. InOrder(todo)'
    BY <1>1, <1>12, KeepsOrder
  <2>2. [id |-> cur', of |-> Target] \in db'["commit"] /\ ~DoneId(cur')
    <3>1. CASE cur = NoId
      <4>1. PICK r \in rows : r.of = Target
        BY <1>3, <3>1
      <4>2. cur' = r.id
        <5>1. cur' = IdIn(db'["commit"], r.of)
          BY <1>1, <1>5, <3>1, <4>1
        <5>2. r \in db'["commit"]
          BY <1>5
        <5>3. QED
          BY <1>8, <5>1, <5>2, IdOfRow
      <4>3. r = [id |-> r.id, of |-> r.of]
        BY <1>3 DEF RowType
      <4>4. QED
        BY <1>5, <1>11, <4>1, <4>2, <4>3
    <3>2. CASE cur # NoId
      <4>1. [id |-> cur, of |-> Target] \in db["commit"]
        BY <1>1, <3>2, CommitIdIs DEF Data
      <4>2. ~DoneId(cur)
        BY <1>1, <4>1 DEF DoneCommit
      <4>3. QED
        BY <1>1, <1>5, <3>2, <4>1, <4>2
    <3>3. QED
      BY <3>1, <3>2
  <2>3. (IsCur /\ ~DoneId(cur))'
    BY <1>1, <1>10, <2>2 DEF IsCur, Target
  <2>4. (before = NoRun)'
    BY <1>1 DEF NoRun, Content, Cached
  <2>5. (base = NoCommit \/ (base \in Commits /\ DoneCommit(base)))'
    BY <1>1, <1>12 DEF Position, Commits
  <2>6. QED
    BY <1>1, <2>1, <2>3, <2>4, <2>5 DEF Position, Deleting
<1>22. Deleted' /\ Parsing'
  BY <1>1 DEF Deleted, Parsing
<1>23. QED
  BY <1>7, <1>16, <1>17, <1>18, <1>19, <1>20, <1>21, <1>22 DEF Data

-----------------------------------------------------------------------------
(***************************************************************************)
(* The bookkeeping of a run.                                               *)
(***************************************************************************)
\* A mark or a reparsed blob of the version is recorded.
LEMMA LogWritten ==
    ASSUME TypeOK, Data, IsCur, Reached(Target), NEW log \in Logs, before' = before,
           NEW rows, rows \subseteq RowType[log], IsFiniteSet(rows), \A row \in rows : row.commit = cur,
           DOMAIN db' = DOMAIN db, \A t \in DOMAIN db : t # log => db'[t] = db[t], db'[log] = db[log] \cup rows,
           log = "mark" => \A row \in rows : row.max = Top(row.table),
           log = "reparse" => \A row \in rows : \A t \in {"bridge", "def"} : \A s \in Stable[t] : s.blob # row.blob
    PROVE  /\ SameStable /\ SameBook({"commit", "state", "ref"})
           /\ Tables(db, Content \cup Book)' /\ Registered' /\ Sound(Stable') /\ Whole' /\ Recorded'
<1>1. DOMAIN db = Content \cup Book /\ log \in DOMAIN db /\ log \notin Content
  BY DEF TypeOK, Tables, Logs, Book, Content, Cached
<1>2. SameStable
  BY <1>1, KeepsStable
<1>3. db'["commit"] = db["commit"] /\ db'["state"] = db["state"] /\ db'["ref"] = db["ref"]
  BY <1>1 DEF Content, Book, Logs
<1>4. SameBook({"commit", "state", "ref"}) /\ SameBook({"state", "commit"})
  BY <1>3 DEF SameBook
<1>5. /\ \A id : DoneId(id)' <=> DoneId(id)
      /\ \A c : Reached(c)' <=> Reached(c)
  BY <1>4, KeepsStatus
<1>6. Tables(db, Content \cup Book)'
  <2>1. db[log] \subseteq RowType[log] /\ IsFiniteSet(db[log])
    BY <1>1 DEF TypeOK, Tables
  <2>2. IsFiniteSet(db[log] \cup rows)
    BY <2>1, FS_Union
  <2>3. db'[log] \subseteq RowType[log] /\ IsFiniteSet(db'[log])
    BY <2>1, <2>2
  <2>4. \A t \in Content \cup Book : db'[t] \subseteq RowType[t] /\ IsFiniteSet(db'[t])
    BY <1>1, <2>3 DEF TypeOK, Tables
  <2>5. QED
    BY <1>1, <2>4 DEF Tables, Content, Book, Cached, RowType, Ids, Commits, Files, Refs, Marked
<1>7. Registered'
  <2>1. [id |-> cur, of |-> Target] \in db["commit"] /\ [id |-> cur, of |-> Target].id = cur
        /\ [id |-> cur, of |-> Target].of = Target
    BY DEF IsCur
  <2>2. \A t \in {"ref", "state", "mark", "reparse"} : \A row \in db'[t] :
            \E r \in db'["commit"] : r.id = row.commit /\ Reached(r.of)'
    <3> SUFFICES ASSUME NEW t \in {"ref", "state", "mark", "reparse"}, NEW row \in db'[t]
                 PROVE  \E r \in db["commit"] : r.id = row.commit /\ Reached(r.of)
      BY <1>3, <1>5
    <3>1. CASE row \in db[t]
      BY <3>1 DEF Data, Registered
    <3>2. CASE row \notin db[t]
      <4>1. t = log /\ row \in rows
        BY <1>1, <3>2 DEF Book
      <4>2. QED
        BY <2>1, <4>1
    <3>3. QED
      BY <3>1, <3>2
  <2>3. OneRow(db'["commit"]) /\ OneStatus'
    BY <1>3 DEF Data, Registered, OneStatus, OneRow
  <2>4. \A row \in db'["ref"] : \E r \in db'["commit"] : r.id = row.commit /\ r.of = HeadOf[row.name]
    BY <1>3 DEF Data, Registered
  <2>5. QED
    BY <2>2, <2>3, <2>4 DEF Registered
<1>8. Sound(Stable')
  <2>1. \A t \in Cached : Stable'[t] = Stable[t]
    BY <1>2 DEF SameStable, Content
  <2>2. QED
    BY <2>1, KeepsSound DEF Data
<1>9. Whole'
  BY <1>2, <1>4, KeepsWhole DEF Data
<1>10. Recorded'
  <2>1. Stable'["bridge"] = Stable["bridge"] /\ Stable'["def"] = Stable["def"]
    BY <1>2 DEF SameStable, Content, Cached
  <2>2. ASSUME NEW mk \in db'["mark"], ~DoneId(mk.commit)' PROVE mk.max = Top(mk.table)'
    <3>1. mk.max = Top(mk.table) /\ mk.table \in Marked
      <4>1. CASE mk \in db["mark"]
        BY <1>5, <2>2, <4>1, RowTypes DEF Data, Recorded
      <4>2. CASE mk \notin db["mark"]
        <5>1. log = "mark" /\ mk \in rows
          BY <1>1, <4>2 DEF Logs, Book
        <5>2. mk \in RowType["mark"]
          BY <5>1
        <5>3. QED
          BY <5>1, <5>2 DEF RowType
      <4>3. QED
        BY <4>1, <4>2
    <3>2. mk.table \in Content
      BY <3>1 DEF Marked, Content, Cached
    <3>3. QED
      BY <1>2, <3>1, <3>2, KeepsTop
  <2>3. ASSUME NEW rp \in db'["reparse"], ~DoneId(rp.commit)', NEW t \in {"bridge", "def"}, NEW row \in Stable'[t]
        PROVE  row.blob # rp.blob
    <3>1. CASE rp \in db["reparse"]
      BY <1>5, <2>1, <2>3, <3>1 DEF Data, Recorded
    <3>2. CASE rp \notin db["reparse"]
      <4>1. log = "reparse" /\ rp \in rows
        BY <1>1, <3>2 DEF Logs, Book
      <4>2. QED
        BY <2>1, <4>1
    <3>3. QED
      BY <3>1, <3>2
  <2>4. QED
    BY <2>2, <2>3 DEF Recorded
<1>11. QED
  BY <1>2, <1>4, <1>6, <1>7, <1>8, <1>9, <1>10

LEMMA MarkStep ==
    ASSUME IInv, MarkTable
    PROVE  IInv'
<1> USE DEF IInv
<1>1. /\ pc = "mark" /\ todo # << >> /\ InOrder(todo) /\ IsCur /\ ~DoneId(cur) /\ before = NoRun
      /\ UNCHANGED <<pc, todo, base, cur, plan, after, work, staged, batch, before>>
  BY DEF MarkTable, processVars, engineVars, Position
<1>2. PICK i \in DOMAIN MarkedTables :
         db' = [db EXCEPT !.mark = @ \cup {[commit |-> cur, table |-> MarkedTables[i], max |-> MaxId(db[MarkedTables[i]])]}]
  BY DEF MarkTable
<1>3. MarkedTables[i] \in Marked /\ MarkedTables[i] \in Content
  <2>1. MarkedTables \in Seq(Marked)
    BY DEF MarkedTables, Marked
  <2>2. QED
    BY <2>1 DEF Marked, Content, Cached
<1>4. PICK t : t = MarkedTables[i]
  OBVIOUS
<1>5. cur \in Ids /\ Reached(Target)
  BY <1>1, TargetIs, OpenIsCur DEF Data
<1>6. \A k \in Content : Stable[k] = db[k]
  BY <1>1, StableIs
<1>7. MaxId(db[t]) = Top(t) /\ Top(t) \in Nat
  BY <1>3, <1>4, <1>6, TopIs DEF Top
<1>8. PICK mk : mk = [commit |-> cur, table |-> t, max |-> Top(t)]
  OBVIOUS
<1>9. mk.commit = cur /\ mk.table = t /\ mk.max = Top(t) /\ mk \in RowType["mark"]
  BY <1>3, <1>4, <1>5, <1>7, <1>8 DEF RowType
<1>10. "mark" \in DOMAIN db /\ DOMAIN db' = DOMAIN db
  BY <1>2 DEF TypeOK, Tables, Book
<1>11. (\A k \in DOMAIN db : k # "mark" => db'[k] = db[k]) /\ db'["mark"] = db["mark"] \cup {mk}
  BY <1>2, <1>4, <1>7, <1>8, <1>10
<1>12. /\ SameStable /\ SameBook({"commit", "state", "ref"})
       /\ Tables(db, Content \cup Book)' /\ Registered' /\ Sound(Stable') /\ Whole' /\ Recorded'
  BY <1>1, <1>5, <1>9, <1>10, <1>11, FS_Singleton, LogWritten DEF Logs
<1>13. Since'
  <2>1. \A k \in Cached : db'[k] = db[k] /\ Stable'[k] = Stable[k] /\ Stable[k] = db[k]
    BY <1>6, <1>11, <1>12 DEF TypeOK, Tables, Content, Cached, SameStable
  <2>2. \A k \in Cached : Held(k)' = db'[k]
    BY <1>1, NothingStaged DEF Held
  <2>3. Stable'["commit"] = db'["commit"]
    BY <1>6, <1>12 DEF SameStable, SameBook, Content
  <2>4. \A k \in Cached : Held(k)' = Stable'[k] /\ db'[k] = Stable'[k]
    BY <2>1, <2>2
  <2>5. QED
    BY <1>12, <2>3, <2>4, CleanSince
<1>14. TypeOK'
  BY <1>1, <1>12 DEF TypeOK, Tables
<1>15. Position'
  <2>1. /\ \A c : DoneCommit(c)' <=> DoneCommit(c)
        /\ \A id : DoneId(id)' <=> DoneId(id)
    BY <1>12, KeepsStatus DEF SameBook
  <2>2. InOrder(todo)'
    BY <1>1, <2>1, KeepsOrder
  <2>3. (IsCur /\ ~DoneId(cur))'
    BY <1>1, <1>12, <2>1 DEF IsCur, Target, SameBook
  <2>4. (\E row \in db.ref : row.commit = cur)'
    BY <1>1, <1>12 DEF Position, SameBook
  <2>5. (before = NoRun)'
    BY <1>1 DEF NoRun, Content, Cached
  <2>6. (base = NoCommit \/ (base \in Commits /\ DoneCommit(base)))'
    BY <1>1, <2>1 DEF Position, Commits
  <2>7. QED
    BY <1>1, <2>2, <2>3, <2>4, <2>5, <2>6 DEF Position, Deleting
<1>16. Deleted' /\ Parsing'
  BY <1>1 DEF Deleted, Parsing
<1>17. QED
  BY <1>12, <1>13, <1>14, <1>15, <1>16 DEF Data

\* set_status of the version.
LEMMA StatusWritten ==
    ASSUME TypeOK, Registered, IsCur, ~DoneId(cur), Reached(Target), NEW s \in {DONE, PARSING},
           db' = [db EXCEPT !.state = WithStatus(cur, s)]
    PROVE  /\ DOMAIN db' = DOMAIN db /\ \A t \in DOMAIN db : t # "state" => db'[t] = db[t]
           /\ Tables(db, Content \cup Book)' /\ Registered'
           /\ \A id : DoneId(id)' <=> DoneId(id) \/ (s = DONE /\ id = cur)
           /\ \A id : ParsingId(id)' <=> (ParsingId(id) /\ id # cur) \/ (s = PARSING /\ id = cur)
           /\ \A c : DoneCommit(c) => DoneCommit(c)'
           /\ s = PARSING => \A c : DoneCommit(c)' <=> DoneCommit(c)
           /\ s = DONE => \A c : c = Target => DoneCommit(c)'
<1> DEFINE new == [commit |-> cur, status |-> s]
           c == [id |-> cur, of |-> Target]
<1>1. c \in db["commit"] /\ c.id = cur /\ c.of = Target
  BY DEF IsCur
<1>2. new.commit = cur /\ new.status = s /\ cur \in Ids /\ new \in RowType["state"]
  BY <1>1, RowTypes DEF RowType
<1>3. DOMAIN db = Content \cup Book /\ "state" \in DOMAIN db
  BY DEF TypeOK, Tables, Book
<1>4. /\ DOMAIN db' = DOMAIN db /\ \A t \in DOMAIN db : t # "state" => db'[t] = db[t]
      /\ db'["state"] = {row \in db["state"] : row.commit # cur} \cup {new}
  BY <1>3 DEF WithStatus
<1> HIDE DEF new, c
<1>5. db'["commit"] = db["commit"] /\ db'["ref"] = db["ref"] /\ db'["mark"] = db["mark"] /\ db'["reparse"] = db["reparse"]
  BY <1>3, <1>4 DEF Content, Book
<1>6. Tables(db, Content \cup Book)'
  <2>1. db["state"] \subseteq RowType["state"] /\ IsFiniteSet(db["state"])
    BY DEF TypeOK, Tables, Book
  <2>2. {row \in db["state"] : row.commit # cur} \subseteq db["state"]
    OBVIOUS
  <2>3. IsFiniteSet({row \in db["state"] : row.commit # cur})
    BY <2>1, <2>2, FS_Subset
  <2>9. IsFiniteSet({row \in db["state"] : row.commit # cur} \cup {new})
    BY <2>3, FS_AddElement
  <2>4. db'["state"] \subseteq RowType["state"] /\ IsFiniteSet(db'["state"])
    BY <1>2, <1>4, <2>1, <2>9
  <2>5. \A t \in Content \cup Book : db'[t] \subseteq RowType[t] /\ IsFiniteSet(db'[t])
    BY <1>3, <1>4, <2>4 DEF TypeOK, Tables
  <2>6. QED
    BY <1>3, <1>4, <2>5 DEF Tables, Content, Book, Cached, RowType, Ids, Commits, Files, Refs, Marked
<1>7. \A id, v : [commit |-> id, status |-> v] \in db'["state"] <=>
                   \/ id # cur /\ [commit |-> id, status |-> v] \in db["state"]
                   \/ id = cur /\ v = s
  BY <1>4 DEF new
<1>8. \A id : DoneId(id)' <=> DoneId(id) \/ (s = DONE /\ id = cur)
  BY <1>7 DEF DoneId, DONE, PARSING
<1>9. \A id : ParsingId(id)' <=> (ParsingId(id) /\ id # cur) \/ (s = PARSING /\ id = cur)
  BY <1>7 DEF ParsingId, DONE, PARSING
<1>10. \A k : DoneCommit(k) => DoneCommit(k)'
  BY <1>5, <1>8 DEF DoneCommit
<1>11. s = PARSING => \A k : DoneCommit(k)' <=> DoneCommit(k)
  BY <1>5, <1>8 DEF DoneCommit, DONE, PARSING
<1>12. s = DONE => \A k : k = Target => DoneCommit(k)'
  BY <1>1, <1>5, <1>8 DEF DoneCommit
<1>13. \A k : Reached(k) => Reached(k)'
  BY <1>10 DEF Reached, Earlier, History
<1>14. Registered'
  <2>1. \A t \in {"ref", "state", "mark", "reparse"} : \A row \in db'[t] :
            \E r \in db'["commit"] : r.id = row.commit /\ Reached(r.of)'
    <3> SUFFICES ASSUME NEW t \in {"ref", "state", "mark", "reparse"}, NEW row \in db'[t]
                 PROVE  \E r \in db["commit"] : r.id = row.commit /\ Reached(r.of)
      BY <1>5, <1>13
    <3>1. CASE row \in db[t]
      BY <3>1 DEF Registered
    <3>2. CASE row \notin db[t]
      <4>1. row = new
        BY <1>4, <1>5, <3>2
      <4>2. QED
        BY <1>1, <1>2, <4>1
    <3>3. QED
      BY <3>1, <3>2
  <2>2. OneStatus'
    <3>1. \A a, b \in db'["state"] : a.commit = b.commit => a = b
      BY <1>2, <1>4 DEF Registered, OneStatus
    <3>2. QED
      BY <3>1 DEF OneStatus
  <2>3. OneRow(db'["commit"]) /\ \A row \in db'["ref"] : \E r \in db'["commit"] : r.id = row.commit /\ r.of = HeadOf[row.name]
    BY <1>5 DEF Registered, OneRow
  <2>4. QED
    BY <2>1, <2>2, <2>3 DEF Registered
<1>15. QED
  BY <1>4, <1>6, <1>8, <1>9, <1>10, <1>11, <1>12, <1>14

LEMMA ParsingStep ==
    ASSUME IInv, MarkParsing
    PROVE  IInv'
<1> USE DEF IInv
<1>1. /\ pc = "mark" /\ todo # << >> /\ InOrder(todo) /\ IsCur /\ ~DoneId(cur) /\ before = NoRun
      /\ db' = [db EXCEPT !.state = WithStatus(cur, PARSING)]
      /\ before' = [t \in Content |-> db[t]] /\ pc' = "dedup"
      /\ ToSet(MarkedTables) \subseteq DOMAIN Marks
      /\ UNCHANGED <<todo, base, cur, plan, after, work, staged, batch>>
  BY DEF MarkParsing, processVars, engineVars, Position
<1>2. Reached(Target) /\ \A id : ParsingId(id) => id = cur
  BY <1>1, TargetIs, OpenIsCur DEF Data
<1>3. /\ DOMAIN db' = DOMAIN db /\ \A t \in DOMAIN db : t # "state" => db'[t] = db[t]
      /\ Tables(db, Content \cup Book)' /\ Registered'
      /\ \A id : DoneId(id)' <=> DoneId(id)
      /\ \A id : ParsingId(id)' <=> id = cur
      /\ \A c : DoneCommit(c)' <=> DoneCommit(c)
  BY <1>1, <1>2, StatusWritten DEF Data, DONE, PARSING
<1>4. /\ db'["commit"] = db["commit"] /\ db'["ref"] = db["ref"] /\ db'["mark"] = db["mark"]
      /\ db'["reparse"] = db["reparse"] /\ \A t \in Content : db'[t] = db[t]
  BY <1>3 DEF TypeOK, Tables, Content, Cached, Book
<1>5. \A t \in Content : Stable[t] = db[t]
  BY <1>1, StableIs
<1>6. \A t \in Content : Stable'[t] = db[t]
  <2>1. before' = NoRun' => \A t \in Content : Stable'[t] = db'[t]
    BY DEF Stable
  <2>2. before' # NoRun' => \A t \in Content : Stable'[t] = before'[t]
    BY DEF Stable
  <2>3. QED
    BY <1>1, <1>4, <2>1, <2>2
<1>7. SameStable
  BY <1>5, <1>6 DEF SameStable
<1>8. Sound(Stable')
  <2>1. \A t \in Cached : Stable'[t] = Stable[t]
    BY <1>7 DEF SameStable, Content
  <2>2. QED
    BY <2>1, KeepsSound DEF Data
<1>9. Whole'
  <2>1. /\ Stable'["blob"] = Stable["blob"] /\ Stable'["checkpoint"] = Stable["checkpoint"]
        /\ Stable'["bridge"] = Stable["bridge"]
    BY <1>7 DEF SameStable, Content, Cached
  <2>2. \A k, f : Stored(Stable', k, f) <=> Stored(Stable, k, f)
    BY <2>1 DEF Stored
  <2>3. \A row, k : FileOf(Stable', row, k) <=> FileOf(Stable, row, k)
    BY <2>1 DEF FileOf
  <2>4. \A r \in db'["commit"] : DoneId(r.id)' =>
            (\E row \in db'["ref"] : row.commit = r.id) /\ \A f \in Tree[r.of] : Stored(Stable', r.id, f)
    BY <1>3, <1>4, <2>2 DEF Data, Whole
  <2>5. \A row \in Stable'["checkpoint"] : \E r \in db'["commit"] :
            r.id = row.commit /\ DoneId(r.id)' /\ FileOf(Stable', row, r.of)
    <3> TAKE row \in Stable'["checkpoint"]
    <3>1. PICK r \in db["commit"] : r.id = row.commit /\ DoneId(r.id) /\ FileOf(Stable, row, r.of)
      BY <2>1 DEF Data, Whole
    <3>2. QED
      BY <1>3, <1>4, <2>3, <3>1
  <2>6. QED
    BY <2>4, <2>5 DEF Whole
<1>10. \A t \in Cached : Held(t)' = Stable'[t] /\ db'[t] = Stable'[t]
  <2>1. \A t \in Cached : staged[t] = {} /\ batch[t] = {}
    BY <1>1, NothingStaged
  <2>2. QED
    BY <1>1, <1>4, <1>6, <2>1 DEF Held, Content
<1>11. Since'
  BY <1>4, <1>6, <1>8, <1>10, CleanSince DEF Content
<1>12. Recorded'
  <2>1. ASSUME NEW mk \in db'["mark"], ~DoneId(mk.commit)' PROVE mk.max = Top(mk.table)'
    <3>1. mk.max = Top(mk.table) /\ mk.table \in Content
      BY <1>3, <1>4, <2>1, RowTypes DEF Data, Recorded, Marked, Content, Cached
    <3>2. QED
      BY <1>7, <3>1, KeepsTop
  <2>2. Stable'["bridge"] = Stable["bridge"] /\ Stable'["def"] = Stable["def"]
    BY <1>7 DEF SameStable, Content, Cached
  <2>3. QED
    BY <1>3, <1>4, <2>1, <2>2 DEF Data, Recorded
<1>13. TypeOK'
  <2>1. \A t \in Content : db[t] \subseteq RowType[t] /\ IsFiniteSet(db[t])
    BY DEF TypeOK, Tables
  <2>2. Tables(before', Content)
    BY <1>1, <2>1 DEF Tables
  <2>3. Tables(before, Content)'
    BY <1>1, <2>2 DEF Tables, Content, Book, Cached, RowType, Ids, Commits, Files, Refs, Marked
  <2>4. QED
    BY <1>1, <1>3, <2>3 DEF TypeOK, Tables, Phases
<1>14. Position'
  <2>1. InOrder(todo)'
    BY <1>1, <1>3, KeepsOrder
  <2>2. (IsCur /\ ~DoneId(cur) /\ ParsingId(cur))'
    BY <1>1, <1>3, <1>4 DEF IsCur, Target
  <2>3. (\E row \in db.ref : row.commit = cur)'
    BY <1>1, <1>4 DEF Position
  <2>4. (base = NoCommit \/ (base \in Commits /\ DoneCommit(base)))'
    BY <1>1, <1>3 DEF Position, Commits
  <2>5. (before # NoRun)'
    <3>1. before'["commit"] = db["commit"] /\ db["commit"] # {}
      BY <1>1 DEF IsCur, Content
    <3>2. NoRun["commit"] = {}
      BY DEF NoRun, Content
    <3>3. before' # NoRun
      BY <3>1, <3>2
    <3>4. QED
      BY <3>3 DEF NoRun, Content, Cached
  <2>6. AllMarked(cur)'
    <3>1. Marked \subseteq ToSet(MarkedTables)
      <4>1. MarkedTables[1] = "blob" /\ MarkedTables[2] = "tag" /\ MarkedTables[3] = "commit" /\ MarkedTables[4] = "def"
            /\ DOMAIN MarkedTables = {1, 2, 3, 4}
        BY DEF MarkedTables
      <4>2. QED
        BY <4>1 DEF Marked, ToSet
    <3>2. DOMAIN Marks = Marked
      BY <1>1, <3>1, MarksAre DEF Data
    <3>3. AllMarked(cur)
      BY <1>1, <3>2, MarksAre DEF Data
    <3>4. QED
      BY <1>1, <1>4, <3>3 DEF AllMarked, Marked
  <2>7. (\E row \in db.state : row.status = PARSING)'
    <3>1. [commit |-> cur, status |-> PARSING] \in db'["state"]
      BY <1>1, <2>2 DEF ParsingId
    <3>2. QED
      BY <3>1 DEF PARSING
  <2>8. (\A t \in Content : db[t] = Stable[t])'
    BY <1>4, <1>6 DEF Content, Cached
  <2>9. QED
    BY <1>1, <2>1, <2>2, <2>3, <2>4, <2>5, <2>6, <2>7, <2>8 DEF Position, Deleting
<1>15. Deleted' /\ Parsing'
  BY <1>1 DEF Deleted, Parsing
<1>16. QED
  BY <1>3, <1>8, <1>9, <1>11, <1>12, <1>13, <1>14, <1>15 DEF Data

-----------------------------------------------------------------------------
(***************************************************************************)
(* update(): what is parsed already.                                       *)
(***************************************************************************)
LEMMA SoundOf ==
    ASSUME NEW T, NEW U, \A t \in {"blob", "tag", "bridge", "def"} : U[t] = T[t], Sound(T)
    PROVE  Sound(U)
BY DEF Sound, Derived, OneRow

LEMMA BlobIdIs ==
    ASSUME TypeOK, OneRow(db["blob"]), NEW f
    PROVE  /\ BlobId(f) # NoId => \E b \in db["blob"] : b.of = f /\ b.id = BlobId(f) /\ BlobId(f) \in Ids
           /\ \A b \in db["blob"] : b.of = f => BlobId(f) = b.id /\ BlobId(f) # NoId
<1>1. \A b \in db["blob"] : b.id \in Ids
  <2>1. db["blob"] \subseteq RowType["blob"]
    BY DEF TypeOK, Tables, Content, Cached
  <2>2. QED
    BY <2>1 DEF RowType
<1>2. BlobId(f) = IdIn(db["blob"], f)
  BY DEF BlobId
<1>3. QED
  BY <1>1, <1>2, IdOfContent, IdOfRow DEF Ids, NoId

\* The files of a finished version are linked and parsed.
LEMMA BaseHas ==
    ASSUME TypeOK, Data, base \in Commits, DoneCommit(base), \A t \in Content : db[t] = Stable[t], NEW f \in Tree[base]
    PROVE  /\ [commit |-> CommitId(base), blob |-> BlobId(f)] \in db["checkpoint"]
           /\ BlobId(f) # NoId /\ Tagged(f)
<1>1. PICK r \in db["commit"] : r.of = base /\ DoneId(r.id)
  BY DEF DoneCommit
<1>2. CommitId(base) = r.id
  BY <1>1, CommitIdIs DEF Data
<1>3. db["blob"] = Stable["blob"] /\ db["checkpoint"] = Stable["checkpoint"] /\ db["bridge"] = Stable["bridge"]
  BY DEF Content, Cached
<1>4. PICK b \in Stable["blob"] : /\ b.of = f /\ [commit |-> r.id, blob |-> b.id] \in Stable["checkpoint"]
                                  /\ \E s \in Stable["bridge"] : s.blob = b.id
  BY <1>1 DEF Data, Whole, Stored
<1>5. OneRow(db["blob"])
  BY <1>3 DEF Data, Sound
<1>6. BlobId(f) = b.id /\ BlobId(f) # NoId
  BY <1>3, <1>4, <1>5, BlobIdIs
<1>7. QED
  BY <1>2, <1>3, <1>4, <1>6 DEF Tagged

\* What steps 4.4 and 4.5 link, and what is left to parse.
LEMMA Linked ==
    ASSUME TypeOK, Data, Target \in Commits, base = NoCommit \/ (base \in Commits /\ DoneCommit(base)),
           \A t \in Content : db[t] = Stable[t]
    PROVE  /\ Reused \cup Carried \subseteq Tree[Target]
           /\ \A f \in Reused \cup Carried : BlobId(f) # NoId /\ Tagged(f)
           /\ \A f \in Tree[Target] \ (Reused \cup Carried) :
                 f \in Changed \ Reused /\ (BlobId(f) # NoId => ~Tagged(f))
<1>1. Changed \subseteq Tree[Target] /\ Reused \subseteq Changed /\ Carried \subseteq Tree[Target] \ Changed
  BY DEF Changed, Reused, Carried
<1>2. ASSUME NEW f \in Tree[Target] \ Changed
      PROVE  base \in Commits /\ DoneCommit(base) /\ f \in Tree[base]
  BY IngestAssumptions DEF Changed
<1>3. ASSUME NEW f \in Tree[Target] \ Changed
      PROVE  f \in Carried /\ BlobId(f) # NoId /\ Tagged(f)
  BY <1>2, BaseHas DEF Carried
<1>4. ASSUME NEW f \in Reused PROVE BlobId(f) # NoId /\ Tagged(f)
  BY DEF Reused
<1>5. ASSUME NEW f \in Changed \ Reused, BlobId(f) # NoId PROVE ~Tagged(f)
  BY <1>5 DEF Reused
<1>6. QED
  BY <1>1, <1>3, <1>4, <1>5

LEMMA DedupStep ==
    ASSUME IInv, Dedup
    PROVE  IInv'
<1> USE DEF IInv
<1> DEFINE S == {Checkpoint(f, db.blob) : f \in Reused \cup Carried}
<1>1. /\ pc = "dedup" /\ todo # << >> /\ InOrder(todo) /\ IsCur /\ ~DoneId(cur) /\ ParsingId(cur)
      /\ before # NoRun /\ AllMarked(cur) /\ \A t \in Content : db[t] = Stable[t]
      /\ base = NoCommit \/ (base \in Commits /\ DoneCommit(base))
      /\ \E row \in db["ref"] : row.commit = cur
      /\ staged' = [Nothing EXCEPT !.checkpoint = S \ db.checkpoint]
      /\ db' = [db EXCEPT !.reparse = @ \cup Reparsed]
      /\ work' = Tree[Target] \ (Reused \cup Carried) /\ pc' = "parse"
      /\ UNCHANGED <<todo, base, cur, plan, after, batch, before>>
  BY DEF Dedup, processVars, Position
<1>2. /\ cur \in Ids /\ Target \in Commits /\ Reached(Target)
      /\ \A id : ParsingId(id) => id = cur
  BY <1>1, TargetIs, OpenIsCur DEF Data
<1>3. /\ Reused \cup Carried \subseteq Tree[Target]
      /\ \A f \in Reused \cup Carried : BlobId(f) # NoId /\ Tagged(f)
      /\ \A f \in Tree[Target] \ (Reused \cup Carried) :
            f \in Changed \ Reused /\ (BlobId(f) # NoId => ~Tagged(f))
  BY <1>1, <1>2, Linked DEF Data
<1>4. /\ db["blob"] = Stable["blob"] /\ db["tag"] = Stable["tag"] /\ db["bridge"] = Stable["bridge"]
      /\ db["def"] = Stable["def"] /\ db["checkpoint"] = Stable["checkpoint"] /\ OneRow(db["blob"])
  BY <1>1 DEF Content, Cached, Data, Sound
<1>5. /\ \A f : BlobId(f) # NoId => \E b \in db["blob"] : b.of = f /\ b.id = BlobId(f) /\ BlobId(f) \in Ids
      /\ \A f : \A b \in db["blob"] : b.of = f => BlobId(f) = b.id /\ BlobId(f) # NoId
  BY <1>4, BlobIdIs
\* The blobs that are parsed now have no stable rows.
<1>6. ASSUME NEW row \in Reparsed
      PROVE  /\ row \in RowType["reparse"] /\ row.commit = cur
             /\ \A t \in {"bridge", "def"} : \A s \in Stable[t] : s.blob # row.blob
  <2>1. PICK f \in Changed \ Reused : BlobId(f) # NoId /\ row = [commit |-> cur, blob |-> BlobId(f)]
    BY DEF Reparsed
  <2>2. row.commit = cur /\ row.blob = BlobId(f) /\ row \in RowType["reparse"]
    BY <1>2, <1>5, <2>1 DEF RowType
  <2>3. \A s \in Stable["bridge"] : s.blob # row.blob
    BY <1>4, <2>1, <2>2 DEF Reused, Tagged
  <2>4. \A s \in Stable["def"] : s.blob # row.blob
    BY <2>3 DEF Data, Sound
  <2>5. QED
    BY <2>2, <2>3, <2>4
<1>7. IsFiniteSet(Reparsed)
  <2> DEFINE D == {g \in Changed \ Reused : BlobId(g) # NoId}
  <2>1. D \subseteq Tree[Target] /\ IsFiniteSet(Tree[Target])
    BY <1>2, IngestAssumptions DEF Changed
  <2>2. IsFiniteSet(D)
    BY <2>1, FS_Subset
  <2>3. PICK g : g = [f \in D |-> [commit |-> cur, blob |-> BlobId(f)]]
    OBVIOUS
  <2>4. g \in [D -> Reparsed] /\ \A row \in Reparsed : \E f \in D : g[f] = row
    BY <2>3 DEF Reparsed
  <2> HIDE DEF D
  <2>5. QED
    BY <2>2, <2>4, FiniteImage
<1>8. "reparse" \in DOMAIN db /\ DOMAIN db = Content \cup Book
  BY DEF TypeOK, Tables, Book
<1>9. /\ DOMAIN db' = DOMAIN db /\ db'["reparse"] = db["reparse"] \cup Reparsed
      /\ \A t \in DOMAIN db : t # "reparse" => db'[t] = db[t]
  BY <1>1, <1>8
<1>10. /\ SameStable /\ SameBook({"commit", "state", "ref"})
       /\ Tables(db, Content \cup Book)' /\ Registered' /\ Sound(Stable') /\ Whole' /\ Recorded'
  <2>1. Reparsed \subseteq RowType["reparse"] /\ \A row \in Reparsed : row.commit = cur
    BY <1>6
  <2>2. \A row \in Reparsed : \A t \in {"bridge", "def"} : \A s \in Stable[t] : s.blob # row.blob
    BY <1>6
  <2>3. "reparse" \in Logs /\ before' = before /\ "reparse" # "mark"
    BY <1>1 DEF Logs
  <2>4. QED
    BY <1>1, <1>2, <1>7, <1>9, <2>1, <2>2, <2>3, LogWritten
<1>11. /\ \A t \in Content : db'[t] = db[t] /\ Stable'[t] = db[t]
       /\ db'["mark"] = db["mark"] /\ db'["state"] = db["state"] /\ db'["ref"] = db["ref"]
  BY <1>1, <1>8, <1>9, <1>10 DEF SameStable, Content, Cached, Book
\* What is staged.
<1>12. ASSUME NEW row \in S
       PROVE  /\ row \in RowType["checkpoint"] /\ row.commit = cur
              /\ \E f \in Tree[Target] : \E b \in db["blob"] : b.of = f /\ row.blob = b.id
  <2>1. PICK f \in Reused \cup Carried : row = [commit |-> cur, blob |-> BlobId(f)]
    BY DEF Checkpoint, BlobId
  <2>2. row.commit = cur /\ row.blob = BlobId(f)
    BY <2>1
  <2>3. PICK b \in db["blob"] : b.of = f /\ b.id = BlobId(f) /\ BlobId(f) \in Ids
    BY <1>3, <1>5
  <2>4. row \in RowType["checkpoint"]
    BY <1>2, <2>1, <2>3 DEF RowType
  <2>5. QED
    BY <1>3, <2>2, <2>3, <2>4
<1>13. IsFiniteSet(S)
  <2>1. IsFiniteSet(Reused \cup Carried)
    BY <1>2, <1>3, IngestAssumptions, FS_Subset
  <2>2. PICK g : g = [f \in Reused \cup Carried |-> Checkpoint(f, db.blob)]
    OBVIOUS
  <2>3. g \in [Reused \cup Carried -> S] /\ \A row \in S : \E f \in Reused \cup Carried : g[f] = row
    BY <2>2
  <2> HIDE DEF S
  <2>4. QED
    BY <2>1, <2>3, FiniteImage
<1>14. \A f \in Reused \cup Carried : [commit |-> cur, blob |-> BlobId(f)] \in S
  BY DEF Checkpoint, BlobId
<1> HIDE DEF S
<1>15. /\ DOMAIN staged' = Cached /\ staged'["checkpoint"] = S \ db["checkpoint"]
       /\ \A t \in Cached : t # "checkpoint" => staged'[t] = {}
       /\ \A t \in Cached : batch'[t] = {}
  <2>1. DOMAIN Nothing = Cached /\ \A t \in Cached : Nothing[t] = {}
    BY DEF Nothing
  <2>2. "checkpoint" \in Cached
    BY DEF Cached
  <2>3. \A t \in Cached : batch[t] = {}
    BY <1>1, NothingStaged
  <2>4. DOMAIN staged' = Cached /\ staged'["checkpoint"] = S \ db["checkpoint"]
    BY <1>1, <2>1, <2>2
  <2>5. \A t \in Cached : t # "checkpoint" => staged'[t] = {}
    BY <1>1, <2>1
  <2>6. QED
    BY <1>1, <2>3, <2>4, <2>5
<1>16. /\ Held("checkpoint")' = db["checkpoint"] \cup S
       /\ \A t \in Cached : t # "checkpoint" => Held(t)' = db[t]
  <2>1. \A t \in Cached : db'[t] = db[t] /\ t \in Content
    BY <1>11 DEF Content
  <2>2. "checkpoint" \in Cached
    BY DEF Cached
  <2>3. QED
    BY <1>15, <2>1, <2>2 DEF Held
<1>17. Held("blob")' = db["blob"] /\ Held("tag")' = db["tag"] /\ Held("bridge")' = db["bridge"]
       /\ Held("def")' = db["def"]
  BY <1>16 DEF Cached
<1>18. AllRows'["blob"] = db["blob"] /\ AllRows'["tag"] = db["tag"] /\ AllRows'["bridge"] = db["bridge"]
       /\ AllRows'["def"] = db["def"] /\ AllRows'["checkpoint"] = db["checkpoint"] \cup S
  BY <1>16, <1>17 DEF AllRows, Cached
<1>19. (IsCur /\ ~DoneId(cur) /\ ParsingId(cur) /\ AllMarked(cur))' /\ \A id : ParsingId(id)' <=> ParsingId(id)
       /\ \A c : DoneCommit(c)' <=> DoneCommit(c)
  <2>1. /\ \A c : DoneCommit(c)' <=> DoneCommit(c)
        /\ \A id : (DoneId(id)' <=> DoneId(id)) /\ (ParsingId(id)' <=> ParsingId(id))
    BY <1>10, KeepsStatus DEF SameBook
  <2>2. QED
    BY <1>1, <1>10, <1>11, <2>1 DEF IsCur, Target, SameBook, AllMarked, Marked
<1>20. Since'
  <2>1. \A t \in Content : Stable'[t] \subseteq db'[t]
    BY <1>11
  <2>2. Stable'["commit"] = db'["commit"]
    BY <1>11 DEF Content
  <2>3. OneRow(Held("blob"))' /\ OneRow(Held("tag"))'
    BY <1>4, <1>17 DEF Data, Sound, OneRow
  <2>4. ASSUME NEW t \in Cached, NEW row \in Held(t)' \ Stable'[t]
        PROVE  IsNew(t, row)'
    <3>1. t = "checkpoint" /\ row \in S
      BY <1>11, <1>16, <2>4 DEF Content
    <3>2. ParsingId(row.commit)'
      BY <1>1, <1>12, <1>19, <3>1
    <3>3. QED
      BY <3>1, <3>2 DEF IsNew
  <2>5. \A s \in db'["state"] : s.status = PARSING => AllMarked(s.commit)'
    <3> SUFFICES ASSUME NEW s \in db["state"], s.status = PARSING PROVE AllMarked(s.commit)'
      BY <1>11
    <3>1. s.commit = cur
      BY <1>2, RowTypes DEF ParsingId
    <3>2. QED
      BY <1>1, <1>19, <3>1
  <2>6. QED
    BY <2>1, <2>2, <2>3, <2>4, <2>5 DEF Since, Content, Cached
<1>21. TypeOK'
  <2>1. S \ db["checkpoint"] \subseteq RowType["checkpoint"] /\ IsFiniteSet(S \ db["checkpoint"])
    BY <1>12, <1>13, FS_Subset
  <2>2. \A t \in Cached : staged'[t] \subseteq RowType[t] /\ IsFiniteSet(staged'[t])
    BY <1>15, <2>1, FS_EmptySet
  <2>3. Tables(staged, Cached)'
    BY <1>15, <2>2 DEF Tables, Content, Book, Cached, RowType, Ids, Commits, Files, Refs, Marked
  <2>4. work' \subseteq Files
    BY <1>1, <1>2, IngestAssumptions
  <2>5. QED
    BY <1>1, <1>10, <2>3, <2>4 DEF TypeOK, Tables, Phases, Files
<1>22. Position'
  <2>1. InOrder(todo)'
    BY <1>1, <1>19, KeepsOrder
  <2>2. (\E row \in db.ref : row.commit = cur)'
    BY <1>1, <1>11
  <2>3. (before # NoRun)'
    BY <1>1 DEF NoRun, Content, Cached
  <2>4. (\E row \in db.state : row.status = PARSING)'
    BY <1>1, <1>11 DEF Position
  <2>5. (base = NoCommit \/ (base \in Commits /\ DoneCommit(base)))'
    BY <1>1, <1>19 DEF Position, Commits
  <2>6. QED
    BY <1>1, <1>19, <2>1, <2>2, <2>3, <2>4, <2>5 DEF Position, Deleting
<1>23. Parsing'
  <2>1. Target' = Target /\ cur' = cur
    BY <1>1 DEF Target
  <2>2. Sound(AllRows')
    <3>1. \A t \in {"blob", "tag", "bridge", "def"} : AllRows'[t] = Stable[t]
      BY <1>4, <1>18
    <3>2. QED
      BY <3>1, SoundOf DEF Data
  <2>3. ASSUME NEW f \in Tree[Target] \ work'
        PROVE  Stored(AllRows', cur, f)
    <3>1. f \in Reused \cup Carried
      BY <1>1, <2>3
    <3>2. BlobId(f) # NoId /\ Tagged(f)
      BY <1>3, <3>1
    <3>3. PICK b \in db["blob"] : b.of = f /\ b.id = BlobId(f)
      BY <1>5, <3>2
    <3>4. [commit |-> cur, blob |-> b.id] \in AllRows'["checkpoint"]
      BY <1>14, <1>18, <3>1, <3>3
    <3>5. \E r \in db["bridge"] : r.blob = b.id
      BY <3>2, <3>3 DEF Tagged
    <3>6. QED
      BY <1>18, <3>3, <3>4, <3>5 DEF Stored
  <2>4. ASSUME NEW row \in Held("checkpoint")', row.commit = cur
        PROVE  FileOf(AllRows', row, Target)
    <3>1. row \notin db["checkpoint"]
      BY <1>1, <1>4, <2>4 DEF Data, Whole
    <3>2. row \in S
      BY <1>16, <3>1
    <3>3. QED
      BY <1>12, <1>18, <3>2 DEF FileOf
  <2>5. ASSUME NEW f \in work'
        PROVE  Unparsed(f)'
    <3>1. f \in Changed \ Reused /\ (BlobId(f) # NoId => ~Tagged(f))
      BY <1>1, <1>3, <2>5
    <3>2. ASSUME NEW b \in db["blob"], b.of = f
          PROVE  (\A r \in db["bridge"] : r.blob # b.id) /\ [commit |-> cur, blob |-> b.id] \in db'["reparse"]
      <4>1. BlobId(f) = b.id /\ BlobId(f) # NoId
        BY <1>5, <3>2
      <4>2. [commit |-> cur, blob |-> BlobId(f)] \in Reparsed
        BY <3>1, <4>1 DEF Reparsed
      <4>3. QED
        BY <1>9, <3>1, <4>1, <4>2 DEF Tagged
    <3>3. QED
      BY <1>1, <1>17, <3>2 DEF Unparsed
  <2>6. QED
    BY <1>1, <2>1, <2>2, <2>3, <2>4, <2>5 DEF Parsing
<1>24. Deleted'
  BY <1>1 DEF Deleted
<1>25. QED
  BY <1>10, <1>20, <1>21, <1>22, <1>23, <1>24 DEF Data

-----------------------------------------------------------------------------
(***************************************************************************)
(* update(): parse and commit.                                             *)
(***************************************************************************)
\* More rows of the engine do not undo what is stored.
LEMMA StoredMore ==
    ASSUME NEW T, NEW U, \A t \in {"blob", "bridge", "checkpoint"} : T[t] \subseteq U[t], NEW id, NEW f, Stored(T, id, f)
    PROVE  Stored(U, id, f)
<1>1. T["blob"] \subseteq U["blob"] /\ T["bridge"] \subseteq U["bridge"] /\ T["checkpoint"] \subseteq U["checkpoint"]
  OBVIOUS
<1>2. QED
  BY <1>1 DEF Stored

\* The phase as such goes on.
LEMMA StillParsing ==
    ASSUME TypeOK, Position, pc = "parse", UNCHANGED <<pc, todo, base, cur, before>>, SameBook({"commit", "state", "ref", "mark"})
    PROVE  Position'
<1>1. /\ db'["commit"] = db["commit"] /\ db'["state"] = db["state"] /\ db'["ref"] = db["ref"] /\ db'["mark"] = db["mark"]
      /\ SameBook({"state", "commit"})
  BY DEF SameBook
<1>2. /\ \A c : DoneCommit(c)' <=> DoneCommit(c)
      /\ \A id : (DoneId(id)' <=> DoneId(id)) /\ (ParsingId(id)' <=> ParsingId(id))
  BY <1>1, KeepsStatus
<1>3. InOrder(todo)'
  BY <1>2, KeepsOrder DEF Position
<1>4. (IsCur /\ ~DoneId(cur) /\ ParsingId(cur) /\ AllMarked(cur))'
  BY <1>1, <1>2 DEF Position, IsCur, Target, AllMarked, Marked
<1>5. (before # NoRun)'
  BY DEF Position, NoRun, Content, Cached
<1>6. (\E row \in db.state : row.status = PARSING)' /\ (\E row \in db.ref : row.commit = cur)'
  BY <1>1 DEF Position
<1>7. (base = NoCommit \/ (base \in Commits /\ DoneCommit(base)))'
  BY <1>2 DEF Position, Commits
<1>8. todo' # << >>
  BY DEF Position
<1>9. QED
  BY <1>3, <1>4, <1>5, <1>6, <1>7, <1>8 DEF Position, Deleting

\* Rows that are staged are above the marks, or derived from a recorded blob.
LEMMA StagedData ==
    ASSUME TypeOK, Data, Position, pc = "parse", UNCHANGED <<db, before>>,
           \A t \in Cached : Held(t) \subseteq Held(t)',
           \A t \in Cached : \A row \in Held(t)' \ Held(t) : row \notin Stable[t] => IsNew(t, row),
           OneRow(Held("blob"))', OneRow(Held("tag"))'
    PROVE  Data'
<1>1. SameStable
  BY KeepsStable
<1>2. SameBook({"commit", "state", "ref"}) /\ SameBook({"commit", "state"}) /\ FewerLogs /\ SameBook({"state", "commit"})
  BY DEF SameBook, FewerLogs
<1>3. \A t \in Content : Stable'[t] = Stable[t]
  BY <1>1 DEF SameStable
<1>4. Sound(Stable')
  <2>1. \A t \in Cached : Stable'[t] = Stable[t]
    BY <1>3 DEF Content
  <2>2. QED
    BY <2>1, KeepsSound DEF Data
<1>5. Since'
  <2>1. /\ \A id : ParsingId(id)' <=> ParsingId(id)
        /\ Top("blob")' = Top("blob") /\ Top("tag")' = Top("tag") /\ Top("def")' = Top("def")
    BY <1>1, <1>2, KeepsStatus, KeepsTop DEF Content, Cached
  <2>2. \A b : NewBlob(b)' <=> NewBlob(b)
    BY <2>1 DEF NewBlob, Redone
  <2>3. \A t, row : IsNew(t, row)' <=> IsNew(t, row)
    BY <2>1, <2>2 DEF IsNew
  <2>4. \A t \in Cached : \A row \in Held(t)' \ Stable'[t] : IsNew(t, row)'
    <3> TAKE t \in Cached
    <3>1. Stable'[t] = Stable[t]
      BY <1>3 DEF Content
    <3>2. QED
      BY <2>3, <3>1 DEF Data, Since
  <2>5. \A s \in db'["state"] : s.status = PARSING => AllMarked(s.commit)'
    <3> SUFFICES ASSUME NEW s \in db["state"], s.status = PARSING PROVE AllMarked(s.commit)
      BY DEF AllMarked, Marked
    <3>1. ParsingId(s.commit)
      BY RowTypes DEF ParsingId
    <3>2. s.commit = cur
      BY <3>1, OpenIsCur DEF Position, Data
    <3>3. QED
      BY <3>2 DEF Position
  <2>6. \A t \in Content : Stable'[t] \subseteq db'[t]
    BY <1>3 DEF Data, Since
  <2>7. Stable'["commit"] = db'["commit"]
    BY <1>3 DEF Data, Since, Content
  <2>8. QED
    BY <2>4, <2>5, <2>6, <2>7 DEF Since, Content, Cached
<1>6. QED
  BY <1>1, <1>2, <1>4, <1>5, KeepsRegistered, KeepsWhole, KeepsRecorded DEF Data

\* get_set: one row per content, with an id above those of the engine's rows
\* when it is new.
LEMMA Rows ==
    ASSUME TypeOK, Since, NEW t \in {"blob", "tag"}, NEW x, NEW b, b = RowFor(t, x)
    PROVE  /\ b.of = x /\ b.id \in Ids /\ b = [id |-> b.id, of |-> x]
           /\ b \in Held(t) \/ \A r \in Held(t) : r.of # x /\ r.id < b.id
           /\ OneRow(Held(t) \cup {b})
           /\ b \notin Stable[t] => b.id > Top(t)
<1> DEFINE H == Held(t)
<1>1. t \in Cached /\ t \in Content /\ t \in Marked /\ t \in {"blob", "tag", "def"}
  BY DEF Cached, Content, Marked
<1>2. IsFiniteSet(H) /\ OneRow(H) /\ \A r \in H : r.id \in Ids /\ r = [id |-> r.id, of |-> r.of]
  BY <1>1, HeldTypes, HeldRows DEF Since
<1>3. Stable[t] \subseteq H
  BY <1>1, HeldTypes DEF Since
<1>4. \A r \in H \ Stable[t] : r.id > Top(t)
  BY <1>1 DEF Since, IsNew
<1>5. MaxId(H) \in Nat /\ \A r \in H : r.id <= MaxId(H)
  BY <1>2, HighestId DEF Ids
<1>6. Top(t) \in Nat /\ Top(t) <= MaxId(H)
  <2>1. Top(t) \in Nat /\ (Top(t) = 0 \/ \E r \in Stable[t] : r.id = Top(t))
    BY <1>1, TopIs
  <2>2. QED
    BY <1>3, <1>5, <2>1
<1>7. b = [id |-> IF IdIn(H, x) # NoId THEN IdIn(H, x) ELSE MaxId(H) + 1, of |-> x]
  BY DEF RowFor, Fresh
<1>8. /\ IdIn(H, x) = NoId <=> \A r \in H : r.of # x
      /\ IdIn(H, x) # NoId => \E r \in H : r.of = x /\ r.id = IdIn(H, x)
  BY <1>2, IdOfContent
<1> HIDE DEF H
<1>9. CASE IdIn(H, x) # NoId
  <2>1. PICK r \in H : r.of = x /\ r.id = IdIn(H, x)
    BY <1>8, <1>9
  <2>2. b = r
    BY <1>2, <1>7, <1>9, <2>1
  <2>3. H \cup {b} = H
    BY <2>1, <2>2
  <2>4. OneRow(H \cup {b})
    BY <1>2, <2>3
  <2>5. QED
    BY <1>2, <1>4, <2>1, <2>2, <2>4 DEF H
<1>10. CASE IdIn(H, x) = NoId
  <2>1. b.id = MaxId(H) + 1 /\ b.of = x /\ b = [id |-> b.id, of |-> x]
    BY <1>7, <1>10
  <2>2. b.id \in Ids /\ b.id > Top(t)
    BY <1>5, <1>6, <2>1 DEF Ids
  <2>3. \A r \in H : r.of # x /\ r.id < b.id /\ r.id # b.id
    <3> TAKE r \in H
    <3>1. r.of # x
      BY <1>8, <1>10
    <3>2. r.id \in Nat /\ r.id <= MaxId(H)
      BY <1>2, <1>5 DEF Ids
    <3>3. QED
      BY <1>5, <2>1, <3>1, <3>2
  <2>4. OneRow(H \cup {b})
    BY <1>2, <2>1, <2>3 DEF OneRow
  <2>5. QED
    BY <2>1, <2>2, <2>3, <2>4 DEF H
<1>11. QED
  BY <1>9, <1>10

LEMMA FreshDef ==
    ASSUME TypeOK, Since
    PROVE  Fresh("def") \in Ids /\ Fresh("def") > Top("def")
<1>1. "def" \in Cached /\ "def" \in Content /\ "def" \in Marked
  BY DEF Cached, Content, Marked
<1>2. IsFiniteSet(Held("def")) /\ \A r \in Held("def") : r.id \in Nat
  BY <1>1, HeldTypes, HeldRows DEF Ids
<1>3. Stable["def"] \subseteq Held("def")
  BY <1>1, HeldTypes DEF Since
<1>4. MaxId(Held("def")) \in Nat /\ \A r \in Held("def") : r.id <= MaxId(Held("def"))
  BY <1>2, HighestId
<1>5. Top("def") \in Nat /\ (Top("def") = 0 \/ \E r \in Stable["def"] : r.id = Top("def"))
  BY <1>1, TopIs
<1>6. QED
  BY <1>3, <1>4, <1>5 DEF Fresh, Ids

\* A blob without derived rows as far as the engine knows.
LEMMA NoneYet ==
    ASSUME TypeOK, Data, Parsing, pc = "parse", NEW f \in work, NEW b, b = RowFor("blob", f)
    PROVE  /\ \A r \in Held("bridge") : r.blob # b.id
           /\ b \in Stable["blob"] => [commit |-> cur, blob |-> b.id] \in db["reparse"]
<1>1. b.of = f /\ b.id \in Ids /\ (b \in Held("blob") \/ \A r \in Held("blob") : r.of # f /\ r.id < b.id)
  BY Rows DEF Data
<1>2. CASE b \in Held("blob")
  BY <1>1, <1>2 DEF Parsing, Unparsed
<1>3. CASE \A r \in Held("blob") : r.of # f /\ r.id < b.id
  <2>1. Sound(AllRows) /\ AllRows["bridge"] = Held("bridge") /\ AllRows["blob"] = Held("blob")
    BY HeldTypes DEF Parsing, Cached
  <2>2. ASSUME NEW r \in Held("bridge"), r.blob = b.id PROVE FALSE
    <3>1. PICK a \in Held("blob") : a.id = r.blob
      BY <2>1 DEF Sound, Derived
    <3>2. a.id < b.id /\ a.id \in Nat
      BY <1>3, <3>1, HeldRows DEF Ids
    <3>3. QED
      BY <2>2, <3>1, <3>2
  <2>3. b \notin Stable["blob"]
    <3>1. Stable["blob"] \subseteq Held("blob")
      BY HeldTypes DEF Data, Since, Cached, Content
    <3>2. QED
      BY <1>1, <1>3, <3>1
  <2>4. QED
    BY <2>2, <2>3
<1>4. QED
  BY <1>1, <1>2, <1>3

\* What a parsed file adds to the rows the engine knows.
LEMMA Parses ==
    ASSUME TypeOK, NEW f, ParseFile(f), NEW b, b = RowFor("blob", f), NEW g, g = RowFor("tag", TagOf[f]),
           NEW d, d = [id |-> Fresh("def"), blob |-> b.id, tag |-> g.id],
           NEW l, l = [blob |-> b.id, tag |-> g.id], NEW k, k = [commit |-> cur, blob |-> b.id],
           b \in RowType["blob"], g \in RowType["tag"], d \in RowType["def"], l \in RowType["bridge"],
           k \in RowType["checkpoint"]
    PROVE  /\ Held("blob")' = Held("blob") \cup {b} /\ Held("tag")' = Held("tag") \cup {g}
           /\ Held("def")' = Held("def") \cup {d} /\ Held("bridge")' = Held("bridge") \cup {l}
           /\ Held("checkpoint")' = Held("checkpoint") \cup {k}
           /\ Tables(staged, Cached)'
<1> DEFINE rows == [blob |-> {b}, tag |-> {g}, def |-> {d}, bridge |-> {l}, checkpoint |-> {k}]
<1>1. /\ staged' = [x \in Cached |->
                      staged[x] \cup (IF x \in Deduplicated THEN rows[x] \ Held(x) ELSE rows[x])]
      /\ UNCHANGED <<db, batch>>
  BY DEF ParseFile
<1>2. /\ rows["blob"] = {b} /\ rows["tag"] = {g} /\ rows["def"] = {d} /\ rows["bridge"] = {l}
      /\ rows["checkpoint"] = {k}
  OBVIOUS
<1> HIDE DEF rows
<1>3. \A x \in Cached : Held(x)' = Held(x) \cup rows[x]
  BY <1>1 DEF Held
<1>4. \A x \in Cached : rows[x] \subseteq RowType[x] /\ IsFiniteSet(rows[x])
  <2>1. IsFiniteSet({b}) /\ IsFiniteSet({g}) /\ IsFiniteSet({d}) /\ IsFiniteSet({l}) /\ IsFiniteSet({k})
    BY FS_Singleton
  <2>2. {b} \subseteq RowType["blob"] /\ {g} \subseteq RowType["tag"] /\ {d} \subseteq RowType["def"]
        /\ {l} \subseteq RowType["bridge"] /\ {k} \subseteq RowType["checkpoint"]
    OBVIOUS
  <2>3. QED
    BY <1>2, <2>1, <2>2 DEF Cached
<1>5. ASSUME NEW x \in Cached
      PROVE  staged'[x] \subseteq RowType[x] /\ IsFiniteSet(staged'[x])
  <2>1. PICK new : new = IF x \in Deduplicated THEN rows[x] \ Held(x) ELSE rows[x]
    OBVIOUS
  <2>2. new \subseteq rows[x] /\ staged'[x] = staged[x] \cup new
    BY <1>1, <2>1
  <2>3. IsFiniteSet(new) /\ IsFiniteSet(staged[x]) /\ staged[x] \subseteq RowType[x]
    BY <1>4, <2>2, FS_Subset DEF TypeOK, Tables
  <2>4. IsFiniteSet(staged[x] \cup new)
    BY <2>3, FS_Union
  <2>5. QED
    BY <1>4, <2>2, <2>3, <2>4
<1>6. DOMAIN staged' = Cached
  BY <1>1
<1>7. Tables(staged, Cached)'
  BY <1>5, <1>6 DEF Tables, Content, Book, Cached, RowType, Ids, Commits, Files, Refs, Marked
<1>8. {"blob", "tag", "def", "bridge", "checkpoint"} \subseteq Cached
  BY DEF Cached
<1>9. QED
  BY <1>2, <1>3, <1>7, <1>8

LEMMA ParseStep ==
    ASSUME IInv, NEW f, ParseFile(f)
    PROVE  IInv'
<1> USE DEF IInv
<1>1. /\ pc = "parse" /\ f \in work /\ work' = work \ {f}
      /\ UNCHANGED <<db, pc, todo, base, cur, plan, after, batch, before>>
      /\ todo # << >> /\ InOrder(todo) /\ IsCur /\ ~DoneId(cur) /\ ParsingId(cur)
  BY DEF ParseFile, processVars, Position
<1>2. f \in Files /\ f \in Tree[Target] /\ cur \in Ids
  BY <1>1, OpenIsCur DEF TypeOK, Parsing, Data
<1>3. PICK b, g : b = RowFor("blob", f) /\ g = RowFor("tag", TagOf[f])
  OBVIOUS
<1>4. /\ b.of = f /\ b.id \in Ids /\ b = [id |-> b.id, of |-> f]
      /\ OneRow(Held("blob") \cup {b}) /\ (b \notin Stable["blob"] => b.id > Top("blob"))
  BY <1>3, Rows DEF Data
<1>5. /\ g.of = TagOf[f] /\ g.id \in Ids /\ g = [id |-> g.id, of |-> TagOf[f]]
      /\ OneRow(Held("tag") \cup {g}) /\ (g \notin Stable["tag"] => g.id > Top("tag"))
  BY <1>3, Rows DEF Data
<1>6. PICK d, l, k : /\ d = [id |-> Fresh("def"), blob |-> b.id, tag |-> g.id]
                     /\ l = [blob |-> b.id, tag |-> g.id] /\ k = [commit |-> cur, blob |-> b.id]
  OBVIOUS
<1>7. /\ d.blob = b.id /\ d.tag = g.id /\ d.id = Fresh("def") /\ l.blob = b.id /\ l.tag = g.id
      /\ k.commit = cur /\ k.blob = b.id
  BY <1>6
<1>8. Fresh("def") \in Ids /\ Fresh("def") > Top("def")
  BY FreshDef DEF Data
<1>9. /\ b \in RowType["blob"] /\ g \in RowType["tag"] /\ d \in RowType["def"] /\ l \in RowType["bridge"]
      /\ k \in RowType["checkpoint"]
  BY <1>2, <1>4, <1>5, <1>6, <1>8 DEF RowType
<1>10. /\ Held("blob")' = Held("blob") \cup {b} /\ Held("tag")' = Held("tag") \cup {g}
       /\ Held("def")' = Held("def") \cup {d} /\ Held("bridge")' = Held("bridge") \cup {l}
       /\ Held("checkpoint")' = Held("checkpoint") \cup {k}
       /\ Tables(staged, Cached)'
  BY <1>3, <1>6, <1>9, Parses
<1>11. /\ \A r \in Held("bridge") : r.blob # b.id
       /\ b \in Stable["blob"] => [commit |-> cur, blob |-> b.id] \in db["reparse"]
  BY <1>1, <1>3, NoneYet
<1>12. NewBlob(b.id)
  <2>1. CASE b \in Stable["blob"]
    <3>1. k \in db["reparse"]
      BY <1>6, <1>11, <2>1
    <3>2. QED
      BY <1>1, <1>7, <3>1 DEF NewBlob, Redone
  <2>2. CASE b \notin Stable["blob"]
    BY <1>4, <2>2 DEF NewBlob
  <2>3. QED
    BY <2>1, <2>2
<1>13. Data'
  <2>1. \A t \in Cached : Held(t) \subseteq Held(t)'
    BY <1>10 DEF Cached
  <2>2. ASSUME NEW t \in Cached, NEW row \in Held(t)' \ Held(t), row \notin Stable[t]
        PROVE  IsNew(t, row)
    <3>1. CASE t = "blob"
      <4>1. row = b
        BY <1>10, <2>2, <3>1
      <4>2. QED
        BY <1>4, <2>2, <3>1, <4>1 DEF IsNew
    <3>2. CASE t = "tag"
      <4>1. row = g
        BY <1>10, <2>2, <3>2
      <4>2. QED
        BY <1>5, <2>2, <3>2, <4>1 DEF IsNew
    <3>3. CASE t = "def"
      <4>1. row = d
        BY <1>10, <2>2, <3>3
      <4>2. QED
        BY <1>7, <1>8, <1>12, <3>3, <4>1 DEF IsNew
    <3>4. CASE t = "bridge"
      <4>1. row = l
        BY <1>10, <2>2, <3>4
      <4>2. QED
        BY <1>7, <1>12, <3>4, <4>1 DEF IsNew
    <3>5. CASE t = "checkpoint"
      <4>1. row = k
        BY <1>10, <2>2, <3>5
      <4>2. QED
        BY <1>1, <1>7, <3>5, <4>1 DEF IsNew
    <3>6. QED
      BY <3>1, <3>2, <3>3, <3>4, <3>5 DEF Cached
  <2>3. OneRow(Held("blob"))' /\ OneRow(Held("tag"))'
    <3>1. OneRow(Held("blob")') /\ OneRow(Held("tag")')
      BY <1>4, <1>5, <1>10
    <3>2. QED
      BY <3>1 DEF OneRow
  <2>4. QED
    BY <1>1, <2>1, <2>2, <2>3, StagedData
<1>14. TypeOK'
  <2>1. work' \subseteq Files
    BY <1>1 DEF TypeOK
  <2>2. QED
    BY <1>1, <1>10, <2>1 DEF TypeOK, Tables, Phases, Files
<1>15. Position'
  BY <1>1, StillParsing DEF SameBook
<1>16. PICK T : T = AllRows
  OBVIOUS
<1>17. PICK U : U = AllRows'
  OBVIOUS
<1>18. /\ T["blob"] = Held("blob") /\ T["tag"] = Held("tag") /\ T["def"] = Held("def")
       /\ T["bridge"] = Held("bridge") /\ T["checkpoint"] = Held("checkpoint")
  BY <1>16 DEF AllRows, Cached
<1>19. /\ U["blob"] = T["blob"] \cup {b} /\ U["tag"] = T["tag"] \cup {g} /\ U["def"] = T["def"] \cup {d}
       /\ U["bridge"] = T["bridge"] \cup {l} /\ U["checkpoint"] = T["checkpoint"] \cup {k}
  BY <1>10, <1>17, <1>18 DEF AllRows, Cached
<1>20. /\ Sound(T) /\ work \subseteq Tree[Target]
       /\ \A x \in Tree[Target] \ work : Stored(T, cur, x)
       /\ \A row \in Held("checkpoint") : row.commit = cur => FileOf(T, row, Target)
       /\ \A x \in work : Unparsed(x)
  BY <1>1, <1>16 DEF Parsing
<1>21. Sound(U)
  <2>1. OneRow(U["blob"]) /\ OneRow(U["tag"])
    BY <1>4, <1>5, <1>18, <1>19
  <2>2. \A r \in T["bridge"] : r.blob # b.id
    BY <1>11, <1>18
  <2>3. g.of = TagOf[b.of]
    BY <1>4, <1>5
  <2>4. \A row : Derived(T, row) => Derived(U, row)
    BY <1>19 DEF Derived
  <2>5. Derived(U, d) /\ Derived(U, l)
    BY <1>7, <1>19, <2>3 DEF Derived
  <2>6. \A r \in T["def"] : r.blob # b.id
    BY <1>20, <2>2 DEF Sound
  <2>7. \A row \in U["bridge"] : Derived(U, row) /\ \E r \in U["def"] : r.blob = row.blob
    BY <1>7, <1>19, <1>20, <2>4, <2>5 DEF Sound
  <2>8. \A row \in U["def"] : Derived(U, row) /\ \E r \in U["bridge"] : r.blob = row.blob
    BY <1>7, <1>19, <1>20, <2>4, <2>5 DEF Sound
  <2>9. \A r, s \in U["def"] : r.blob = s.blob => r = s
    BY <1>7, <1>19, <1>20, <2>6 DEF Sound
  <2>10. QED
    BY <2>1, <2>7, <2>8, <2>9 DEF Sound
<1>22. \A x \in Tree[Target] \ work' : Stored(U, cur, x)
  <2> TAKE x \in Tree[Target] \ work'
  <2>1. CASE x = f
    <3>1. b \in U["blob"] /\ l \in U["bridge"] /\ [commit |-> cur, blob |-> b.id] \in U["checkpoint"]
      BY <1>6, <1>19
    <3>2. QED
      BY <1>4, <1>7, <2>1, <3>1 DEF Stored
  <2>2. CASE x # f
    <3>1. Stored(T, cur, x)
      BY <1>1, <1>20, <2>2
    <3>2. \A t \in {"blob", "bridge", "checkpoint"} : T[t] \subseteq U[t]
      BY <1>19
    <3>3. QED
      BY <3>1, <3>2, StoredMore
  <2>3. QED
    BY <2>1, <2>2
<1>23. \A row \in Held("checkpoint")' : row.commit = cur => FileOf(U, row, Target)
  <2> SUFFICES ASSUME NEW row \in Held("checkpoint")', row.commit = cur PROVE FileOf(U, row, Target)
    OBVIOUS
  <2>1. CASE row = k
    BY <1>2, <1>4, <1>7, <1>19, <2>1 DEF FileOf
  <2>2. CASE row # k
    <3>1. FileOf(T, row, Target)
      BY <1>10, <1>20, <2>2
    <3>2. QED
      BY <1>19, <3>1 DEF FileOf
  <2>3. QED
    BY <2>1, <2>2
<1>24. \A x \in work' : Unparsed(x)'
  <2> SUFFICES ASSUME NEW x \in work', NEW a \in Held("blob")', a.of = x
               PROVE  /\ \A r \in Held("bridge")' : r.blob # a.id
                      /\ a \in Stable'["blob"] => [commit |-> cur', blob |-> a.id] \in db'["reparse"]
    BY DEF Unparsed
  <2>1. x \in work /\ x # f /\ a # b
    BY <1>1, <1>4
  <2>2. a \in Held("blob")
    BY <1>10, <2>1
  <2>3. /\ \A r \in Held("bridge") : r.blob # a.id
        /\ a \in Stable["blob"] => [commit |-> cur, blob |-> a.id] \in db["reparse"]
    BY <1>20, <2>1, <2>2 DEF Unparsed
  <2>4. a.id # b.id
    BY <1>4, <2>1, <2>2 DEF OneRow
  <2>5. Stable'["blob"] = Stable["blob"]
    BY <1>1, KeepsStable DEF SameStable, Content, Cached
  <2>6. QED
    BY <1>1, <1>7, <1>10, <2>3, <2>4, <2>5
<1>25. Parsing'
  <2>1. Target' = Target /\ cur' = cur /\ work' \subseteq Tree[Target]
    BY <1>1, <1>20 DEF Target
  <2>2. QED
    BY <1>17, <1>21, <1>22, <1>23, <1>24, <2>1 DEF Parsing
<1>26. Deleted'
  BY <1>1 DEF Deleted
<1>27. QED
  BY <1>13, <1>14, <1>15, <1>25, <1>26

LEMMA TouchStep ==
    ASSUME IInv, NEW f \in Files, StageTouched(f)
    PROVE  IInv'
<1> USE DEF IInv
<1>1. /\ pc = "parse" /\ work = {} /\ work' = work
      /\ staged' = [staged EXCEPT !.blob = @ \cup {RowFor("blob", f)}]
      /\ UNCHANGED <<db, pc, todo, base, cur, plan, after, batch, before>>
  BY DEF StageTouched, processVars
<1>2. PICK b : b = RowFor("blob", f)
  OBVIOUS
<1>3. /\ b.of = f /\ b.id \in Ids /\ b = [id |-> b.id, of |-> f]
      /\ OneRow(Held("blob") \cup {b}) /\ (b \notin Stable["blob"] => b.id > Top("blob"))
  BY <1>2, Rows DEF Data
<1>4. DOMAIN staged = Cached /\ "blob" \in Cached
  BY DEF TypeOK, Tables, Cached
<1>5. DOMAIN staged' = Cached /\ staged'["blob"] = staged["blob"] \cup {b}
      /\ \A t \in Cached : t # "blob" => staged'[t] = staged[t]
  BY <1>1, <1>2, <1>4
<1>6. Held("blob")' = Held("blob") \cup {b} /\ \A t \in Cached : t # "blob" => Held(t)' = Held(t)
  BY <1>1, <1>5 DEF Held
<1>7. Data'
  <2>1. \A t \in Cached : Held(t) \subseteq Held(t)'
    BY <1>6
  <2>2. \A t \in Cached : \A row \in Held(t)' \ Held(t) : row \notin Stable[t] => IsNew(t, row)
    BY <1>3, <1>6 DEF IsNew
  <2>3. OneRow(Held("blob"))' /\ OneRow(Held("tag"))'
    <3>1. OneRow(Held("blob")') /\ OneRow(Held("tag")')
      BY <1>3, <1>6 DEF Data, Since, Cached
    <3>2. QED
      BY <3>1 DEF OneRow
  <2>4. QED
    BY <1>1, <2>1, <2>2, <2>3, StagedData
<1>8. TypeOK'
  <2>1. staged["blob"] \subseteq RowType["blob"] /\ IsFiniteSet(staged["blob"])
    BY <1>4 DEF TypeOK, Tables
  <2>2. b \in RowType["blob"]
    BY <1>3 DEF RowType
  <2>3. IsFiniteSet(staged["blob"] \cup {b})
    BY <2>1, FS_AddElement
  <2>4. \A t \in Cached : staged'[t] \subseteq RowType[t] /\ IsFiniteSet(staged'[t])
    BY <1>5, <2>1, <2>2, <2>3 DEF TypeOK, Tables
  <2>5. Tables(staged, Cached)'
    BY <1>5, <2>4 DEF Tables, Content, Book, Cached, RowType, Ids, Commits, Files, Refs, Marked
  <2>6. QED
    BY <1>1, <2>5 DEF TypeOK, Tables, Phases, Files
<1>9. Position'
  BY <1>1, StillParsing DEF SameBook
<1>10. PICK T : T = AllRows
  OBVIOUS
<1>11. PICK U : U = AllRows'
  OBVIOUS
<1>12. /\ T["blob"] = Held("blob") /\ T["tag"] = Held("tag") /\ T["def"] = Held("def")
       /\ T["bridge"] = Held("bridge") /\ T["checkpoint"] = Held("checkpoint")
  BY <1>10 DEF AllRows, Cached
<1>13. /\ U["blob"] = T["blob"] \cup {b} /\ U["tag"] = T["tag"] /\ U["def"] = T["def"]
       /\ U["bridge"] = T["bridge"] /\ U["checkpoint"] = T["checkpoint"]
  BY <1>6, <1>11, <1>12 DEF AllRows, Cached
<1>14. /\ Sound(T) /\ \A x \in Tree[Target] : Stored(T, cur, x)
       /\ \A row \in Held("checkpoint") : row.commit = cur => FileOf(T, row, Target)
  BY <1>1, <1>10 DEF Parsing
<1>15. Sound(U)
  <2>1. OneRow(U["blob"]) /\ OneRow(U["tag"])
    BY <1>3, <1>12, <1>13, <1>14 DEF Sound
  <2>2. \A row : Derived(T, row) => Derived(U, row)
    BY <1>13 DEF Derived
  <2>3. QED
    BY <1>13, <1>14, <2>1, <2>2 DEF Sound
<1>16. \A x \in Tree[Target] : Stored(U, cur, x)
  <2>1. \A t \in {"blob", "bridge", "checkpoint"} : T[t] \subseteq U[t]
    BY <1>13
  <2>2. QED
    BY <1>14, <2>1, StoredMore
<1>17. \A row \in Held("checkpoint")' : row.commit = cur => FileOf(U, row, Target)
  BY <1>6, <1>13, <1>14 DEF FileOf, Cached
<1>18. Parsing'
  <2>1. Target' = Target /\ cur' = cur /\ work' = {}
    BY <1>1 DEF Target
  <2>2. QED
    BY <1>11, <1>15, <1>16, <1>17, <2>1 DEF Parsing
<1>19. Deleted'
  BY <1>1 DEF Deleted
<1>20. QED
  BY <1>7, <1>8, <1>9, <1>18, <1>19

\* Moving staged rows on changes nothing but where they are.
LEMMA StillUnparsed ==
    ASSUME Parsing, pc = "parse", UNCHANGED <<work, todo, cur>>, SameStable,
           db'["reparse"] = db["reparse"], \A t \in Cached : Held(t)' = Held(t)
    PROVE  Parsing'
<1>1. AllRows' = AllRows
  BY DEF AllRows, Cached
<1>2. Held("blob")' = Held("blob") /\ Held("bridge")' = Held("bridge") /\ Held("checkpoint")' = Held("checkpoint")
      /\ Stable'["blob"] = Stable["blob"]
  BY DEF Cached, SameStable, Content
<1>3. Target' = Target
  BY DEF Target
<1>4. \A f : Unparsed(f)' <=> Unparsed(f)
  BY <1>2 DEF Unparsed
<1>5. QED
  BY <1>1, <1>2, <1>3, <1>4 DEF Parsing

LEMMA CommitStep ==
    ASSUME IInv, CommitAll
    PROVE  IInv'
<1> USE DEF IInv
<1>1. /\ pc = "parse" /\ batch = Nothing /\ batch' = staged /\ staged' = Nothing
      /\ UNCHANGED <<db, pc, todo, base, cur, plan, after, work, before>>
  BY DEF CommitAll, processVars
<1>2. \A t \in Cached : Held(t)' = Held(t)
  BY <1>1 DEF Held, Nothing
<1>3. Data'
  BY <1>1, <1>2, KeepsData
<1>4. TypeOK'
  <2>1. Tables(Nothing, Cached)
    BY FS_EmptySet DEF Tables, Nothing
  <2>2. Tables(batch', Cached) /\ Tables(staged', Cached) /\ Tables(db', Content \cup Book) /\ Tables(before', Content)
    BY <1>1, <2>1 DEF TypeOK
  <2>3. QED
    BY <1>1, <2>2 DEF TypeOK
<1>5. Position'
  BY <1>1, StillParsing DEF SameBook
<1>6. Parsing'
  BY <1>1, <1>2, KeepsStable, StillUnparsed
<1>7. Deleted'
  BY <1>1 DEF Deleted
<1>8. QED
  BY <1>3, <1>4, <1>5, <1>6, <1>7

LEMMA WriteStep ==
    ASSUME IInv, NEW t \in Cached, WriteTable(t)
    PROVE  IInv'
<1> USE DEF IInv
<1>1. /\ db' = [db EXCEPT ![t] = @ \cup batch[t]] /\ batch' = [batch EXCEPT ![t] = {}] /\ batch[t] # {}
      /\ UNCHANGED <<pc, todo, base, cur, plan, after, work, staged, before>>
  BY DEF WriteTable, processVars
<1>2. pc = "parse" /\ before # NoRun
  BY <1>1, NothingStaged DEF Position
<1>3. DOMAIN db = Content \cup Book /\ DOMAIN batch = Cached /\ t \in DOMAIN db /\ t \in Content
  BY DEF TypeOK, Tables, Content
<1>4. /\ DOMAIN db' = DOMAIN db /\ db'[t] = db[t] \cup batch[t] /\ \A s \in DOMAIN db : s # t => db'[s] = db[s]
      /\ DOMAIN batch' = Cached /\ batch'[t] = {} /\ \A s \in Cached : s # t => batch'[s] = batch[s]
  BY <1>1, <1>3
<1>5. \A s \in Cached : Held(s)' = Held(s)
  <2>1. \A s \in Cached : s \in DOMAIN db
    BY <1>3 DEF Content
  <2>2. QED
    BY <1>1, <1>4, <2>1 DEF Held
<1>6. SameStable
  <2>1. \A s \in Content : Stable[s] = before[s]
    BY <1>2, StableIs
  <2>2. before' # NoRun'
    BY <1>1, <1>2 DEF NoRun, Content, Cached
  <2>3. \A s \in Content : Stable'[s] = before'[s]
    BY <2>2 DEF Stable
  <2>4. QED
    BY <1>1, <2>1, <2>3 DEF SameStable
<1>7. /\ db'["commit"] = db["commit"] /\ db'["state"] = db["state"] /\ db'["ref"] = db["ref"]
      /\ db'["mark"] = db["mark"] /\ db'["reparse"] = db["reparse"]
  BY <1>3, <1>4 DEF Content, Book, Cached
<1>8. SameBook({"commit", "state", "ref"}) /\ SameBook({"commit", "state"}) /\ FewerLogs
      /\ SameBook({"commit", "state", "mark", "reparse"}) /\ SameBook({"commit", "state", "ref", "mark"})
  BY <1>7 DEF SameBook, FewerLogs, Logs
<1>9. \A s \in Content : Stable'[s] \subseteq db'[s]
  BY <1>3, <1>4, <1>6 DEF SameStable, Data, Since
<1>10. Sound(Stable')
  <2>1. \A s \in Cached : Stable'[s] = Stable[s]
    BY <1>6 DEF SameStable, Content
  <2>2. QED
    BY <2>1, KeepsSound DEF Data
<1>11. Data'
  BY <1>5, <1>6, <1>8, <1>9, <1>10, KeepsRegistered, KeepsWhole, KeepsSince, KeepsRecorded DEF Data
<1>12. TypeOK'
  <2>1. db[t] \subseteq RowType[t] /\ IsFiniteSet(db[t]) /\ batch[t] \subseteq RowType[t] /\ IsFiniteSet(batch[t])
    BY <1>3 DEF TypeOK, Tables
  <2>2. IsFiniteSet(db[t] \cup batch[t]) /\ IsFiniteSet({})
    BY <2>1, FS_Union, FS_EmptySet
  <2>3. \A s \in Content \cup Book : db'[s] \subseteq RowType[s] /\ IsFiniteSet(db'[s])
    BY <1>3, <1>4, <2>1, <2>2 DEF TypeOK, Tables
  <2>4. \A s \in Cached : batch'[s] \subseteq RowType[s] /\ IsFiniteSet(batch'[s])
    BY <1>4, <2>2 DEF TypeOK, Tables
  <2>5. Tables(db, Content \cup Book)' /\ Tables(batch, Cached)'
    BY <1>3, <1>4, <2>3, <2>4 DEF Tables, Content, Book, Cached, RowType, Ids, Commits, Files, Refs, Marked
  <2>6. QED
    BY <1>1, <1>2, <2>5 DEF TypeOK, Tables, Phases, Files
<1>13. Position'
  BY <1>1, <1>2, <1>8, StillParsing
<1>14. Parsing'
  BY <1>1, <1>2, <1>5, <1>6, <1>7, StillUnparsed
<1>15. Deleted'
  BY <1>1, <1>2 DEF Deleted
<1>16. QED
  BY <1>11, <1>12, <1>13, <1>14, <1>15

\* The version is whole when it is finished.
LEMMA FinishStep ==
    ASSUME IInv, Finish
    PROVE  IInv'
<1> USE DEF IInv
<1>1. /\ pc = "parse" /\ work = {} /\ staged = Nothing /\ batch = Nothing
      /\ db' = [db EXCEPT !.state = WithStatus(cur, DONE)]
      /\ pc' = "delete" /\ plan' = DiscardMarks /\ after' = "next" /\ before' = NoRun
      /\ UNCHANGED <<todo, base, cur, work, staged, batch>>
      /\ todo # << >> /\ InOrder(todo) /\ IsCur /\ ~DoneId(cur)
  BY DEF Finish, AllWritten, RunDeletes, processVars, engineVars, Position
<1>2. /\ Reached(Target) /\ cur \in Ids /\ \A id : ParsingId(id) => id = cur
      /\ \A t \in {"state", "mark", "reparse"} : \A row \in db[t] : ~DoneId(row.commit) => row.commit = cur
  BY <1>1, TargetIs, OpenIsCur DEF Data
<1>3. /\ DOMAIN db' = DOMAIN db /\ \A t \in DOMAIN db : t # "state" => db'[t] = db[t]
      /\ Tables(db, Content \cup Book)' /\ Registered'
      /\ \A id : DoneId(id)' <=> DoneId(id) \/ id = cur
      /\ \A c : DoneCommit(c) => DoneCommit(c)'
  BY <1>1, <1>2, StatusWritten DEF Data, DONE, PARSING
<1>4. /\ db'["commit"] = db["commit"] /\ db'["ref"] = db["ref"] /\ db'["mark"] = db["mark"]
      /\ db'["reparse"] = db["reparse"] /\ \A t \in Content : db'[t] = db[t]
  BY <1>3 DEF TypeOK, Tables, Content, Cached, Book
<1>5. \A t \in Content : Stable'[t] = db[t]
  <2>1. before' = NoRun' => \A t \in Content : Stable'[t] = db'[t]
    BY DEF Stable
  <2>2. NoRun' = NoRun
    BY DEF NoRun, Content, Cached
  <2>3. QED
    BY <1>1, <1>4, <2>1, <2>2
<1>6. \A t \in Cached : Held(t) = db[t] /\ AllRows[t] = db[t]
  BY <1>1 DEF Held, AllRows, Nothing
<1>7. PICK T : T = AllRows
  OBVIOUS
<1>8. /\ Sound(T) /\ \A f \in Tree[Target] : Stored(T, cur, f)
      /\ \A row \in Held("checkpoint") : row.commit = cur => FileOf(T, row, Target)
  BY <1>1, <1>7 DEF Parsing
<1>9. \A t \in Cached : T[t] = db[t] /\ Stable'[t] = db[t] /\ Stable[t] \subseteq db[t]
  BY <1>5, <1>6, <1>7 DEF Content, Data, Since
<1>10. Sound(Stable')
  BY <1>8, <1>9, KeepsSound
<1>11. [id |-> cur, of |-> Target] \in db["commit"] /\ \A r \in db["commit"] : r.id = cur => r.of = Target
  BY <1>1 DEF IsCur, Data, Registered, OneRow
<1>12. /\ \A id, f : Stored(Stable, id, f) \/ Stored(T, id, f) => Stored(Stable', id, f)
       /\ \A row, c : FileOf(Stable, row, c) \/ FileOf(T, row, c) => FileOf(Stable', row, c)
  <2>1. \A t \in {"blob", "bridge", "checkpoint"} : Stable[t] \subseteq Stable'[t] /\ T[t] \subseteq Stable'[t]
    BY <1>9 DEF Cached
  <2>2. \A row, c : FileOf(Stable, row, c) \/ FileOf(T, row, c) => FileOf(Stable', row, c)
    BY <2>1 DEF FileOf
  <2>3. \A id, f : Stored(Stable, id, f) \/ Stored(T, id, f) => Stored(Stable', id, f)
    BY <2>1, StoredMore
  <2>4. QED
    BY <2>2, <2>3
<1>13. Whole'
  <2>1. ASSUME NEW r \in db'["commit"], DoneId(r.id)'
        PROVE  (\E row \in db'["ref"] : row.commit = r.id) /\ \A f \in Tree[r.of] : Stored(Stable', r.id, f)
    <3>1. CASE DoneId(r.id)
      BY <1>4, <1>12, <3>1 DEF Data, Whole
    <3>2. CASE r.id = cur
      <4>1. \E row \in db["ref"] : row.commit = cur
        BY <1>1 DEF Position
      <4>2. r.of = Target
        BY <1>4, <1>11, <3>2
      <4>3. QED
        BY <1>4, <1>8, <1>12, <3>2, <4>1, <4>2
    <3>3. QED
      BY <1>3, <2>1, <3>1, <3>2
  <2>2. ASSUME NEW row \in Stable'["checkpoint"]
        PROVE  \E r \in db'["commit"] : r.id = row.commit /\ DoneId(r.id)' /\ FileOf(Stable', row, r.of)
    <3>1. CASE row \in Stable["checkpoint"]
      <4>1. PICK r \in db["commit"] : r.id = row.commit /\ DoneId(r.id) /\ FileOf(Stable, row, r.of)
        BY <3>1 DEF Data, Whole
      <4>2. QED
        BY <1>3, <1>4, <1>12, <4>1
    <3>2. CASE row \notin Stable["checkpoint"]
      <4>1. row \in Held("checkpoint") \ Stable["checkpoint"]
        BY <1>6, <1>9, <2>2, <3>2 DEF Cached
      <4>2. row.commit = cur
        BY <1>2, <4>1 DEF Data, Since, IsNew, Cached
      <4>3. FileOf(Stable', row, Target)
        BY <1>8, <1>12, <4>1, <4>2
      <4>4. [id |-> cur, of |-> Target].id = cur /\ [id |-> cur, of |-> Target].of = Target
        OBVIOUS
      <4>5. QED
        BY <1>3, <1>4, <1>11, <4>2, <4>3, <4>4
    <3>3. QED
      BY <3>1, <3>2
  <2>3. QED
    BY <2>1, <2>2 DEF Whole
<1>14. Since'
  <2>1. \A t \in Cached : Held(t)' = db'[t] /\ db'[t] = db[t]
    BY <1>1, <1>4 DEF Held, Nothing, Content
  <2>2. \A t \in Cached : Held(t)' = Stable'[t] /\ db'[t] = Stable'[t]
    BY <1>9, <2>1
  <2>3. Stable'["commit"] = db'["commit"]
    BY <1>4, <1>5 DEF Content
  <2>4. QED
    BY <1>10, <2>2, <2>3, CleanSince
<1>15. Recorded'
  BY <1>2, <1>3, <1>4 DEF Recorded
<1>16. TypeOK'
  <2>1. Tables(NoRun, Content)
    BY FS_EmptySet DEF Tables, NoRun
  <2>2. Tables(before, Content)'
    BY <1>1, <2>1 DEF Tables, Content, Book, Cached, RowType, Ids, Commits, Files, Refs, Marked
  <2>3. staged' = Nothing' /\ batch' = Nothing'
    BY <1>1 DEF Nothing, Cached
  <2>4. QED
    BY <1>1, <1>3, <2>2, <2>3 DEF TypeOK, Tables, Phases, Files
<1>17. Position'
  <2>1. InOrder(todo)'
    BY <1>1, <1>3 DEF InOrder, Earlier, History
  <2>2. (IsCur /\ DoneId(cur))'
    BY <1>1, <1>3, <1>4 DEF IsCur, Target
  <2>3. (before = NoRun)'
    BY <1>1 DEF NoRun, Content, Cached
  <2>4. (base = NoCommit \/ (base \in Commits /\ DoneCommit(base)))'
    BY <1>1, <1>3 DEF Position, Commits
  <2>5. QED
    BY <1>1, <2>1, <2>2, <2>3, <2>4 DEF Position, Deleting
<1>18. Deleted' /\ Parsing'
  <2>1. /\ plan' \in Seq(Deletes)
        /\ \A i \in DOMAIN plan' : plan'[i].table \in Logs /\ Spares(plan'[i])
    BY <1>1, <1>2, DiscardMarksAre
  <2>2. ASSUME NEW i \in DOMAIN plan' PROVE Spares(plan[i])'
    <3>1. plan'[i].col = "commit" /\ plan'[i].ids = {cur} /\ plan'[i].table \in Logs
      BY <1>1, <2>1, <2>2, DiscardMarksAre DEF Spares, Logs, Content, Cached
    <3>2. QED
      BY <1>1, <3>1 DEF Spares, Logs
  <2>3. QED
    BY <1>1, <2>1, <2>2 DEF Deleted, Deletes, Content, Cached, Book, Logs, Parsing
<1>19. QED
  BY <1>3, <1>10, <1>13, <1>14, <1>15, <1>16, <1>17, <1>18 DEF Data

LEMMA Initial ==
    ASSUME Init
    PROVE  IInv
<1>1. /\ \A t \in Content \cup Book : db[t] = {}
      /\ DOMAIN db = Content \cup Book
      /\ pc = "down" /\ todo = << >> /\ base = NoCommit /\ work = {} /\ staged = Nothing /\ batch = Nothing
      /\ before = NoRun /\ after = "next"
  BY DEF Init
<1>2. TypeOK
  <2>1. Tables(Nothing, Cached) /\ Tables(NoRun, Content) /\ Tables(db, Content \cup Book)
    BY <1>1, FS_EmptySet DEF Tables, Nothing, NoRun
  <2>2. << >> \in Seq(Refs)
    OBVIOUS
  <2>3. QED
    BY <1>1, <2>1, <2>2 DEF TypeOK, Phases
<1>3. \A t \in Content : Stable[t] = {} /\ db[t] = {}
  BY <1>1, StableIs
<1>4. /\ db["commit"] = {} /\ db["ref"] = {} /\ db["state"] = {} /\ db["mark"] = {} /\ db["reparse"] = {}
      /\ Stable["blob"] = {} /\ Stable["tag"] = {} /\ Stable["bridge"] = {} /\ Stable["def"] = {}
      /\ Stable["checkpoint"] = {} /\ Stable["commit"] = {}
  BY <1>1, <1>3 DEF Content, Cached, Book
<1>5. Registered /\ Sound(Stable) /\ Whole /\ Recorded
  BY <1>4 DEF Registered, Sound, Whole, Recorded, OneRow, OneStatus
<1>6. Since
  <2>1. \A t \in Cached : Held(t) = {} /\ Stable[t] = {}
    BY <1>1, <1>2, <1>3, NothingStaged DEF Content
  <2>2. QED
    BY <1>3, <1>4, <2>1 DEF Since, OneRow, Cached
<1>7. Position /\ Deleted /\ Parsing
  BY <1>1 DEF Position, Deleting, Deleted, Parsing
<1>8. QED
  BY <1>2, <1>5, <1>6, <1>7 DEF IInv, Data

-----------------------------------------------------------------------------
(***************************************************************************)
(* The theorems.                                                           *)
(***************************************************************************)
LEMMA Stutter ==
    ASSUME IInv, UNCHANGED vars
    PROVE  IInv'
<1> USE DEF IInv
<1>1. UNCHANGED <<db, pc, todo, base, cur, plan, after, work, staged, batch, before>>
  BY DEF vars, processVars, engineVars
<1>2. Data'
  BY <1>1, KeepsData DEF Held
<1>3. TypeOK'
  BY <1>1 DEF TypeOK, Tables
<1>4. SameStable /\ SameBook({"ref", "state"}) /\ SameBook({"state", "commit"})
  BY <1>1, KeepsStable DEF SameBook
<1>5. /\ \A c : DoneCommit(c)' <=> DoneCommit(c)
      /\ \A id : (DoneId(id)' <=> DoneId(id)) /\ (ParsingId(id)' <=> ParsingId(id))
      /\ \A c : CommitId(c)' = CommitId(c)
  BY <1>4, KeepsStatus
<1>6. Position'
  <2>1. pc # "down" => InOrder(todo)'
    BY <1>1, <1>5, KeepsOrder DEF Position
  <2>2. (\A t \in Content : db[t] = Stable[t]) => \A t \in Content : db'[t] = Stable'[t]
    BY <1>1, <1>4 DEF SameStable
  <2>3. Target' = Target /\ (IsCur' <=> IsCur) /\ (AllMarked(cur)' <=> AllMarked(cur))
    BY <1>1 DEF Target, IsCur, AllMarked, Marked
  <2>4. NoRun' = NoRun /\ Content' = Content /\ Commits' = Commits
    BY DEF NoRun, Content, Cached, Commits
  <2>5. QED
    BY <1>1, <1>5, <2>1, <2>2, <2>3, <2>4 DEF Position, Deleting
<1>7. Deleted'
  <2>1. \A d : Spares(d)' <=> Spares(d)
    BY <1>1, <1>4, KeepsSpares
  <2>2. \A t, row : Reaches(t, row)' <=> Reaches(t, row)
    BY <1>1 DEF Reaches, Covers, Logs
  <2>3. \A t \in Cached : db'[t] = db[t] /\ Stable'[t] = Stable[t]
    BY <1>1, <1>4 DEF SameStable, Content
  <2>4. ASSUME pc = "delete" PROVE Deleted'
    <3>1. \A i \in DOMAIN plan' : Spares(plan[i])'
      BY <1>1, <2>1, <2>4 DEF Deleted
    <3>2. after' = "register" => \A t \in Cached : \A row \in db'[t] \ Stable'[t] : Reaches(t, row)'
      BY <1>1, <2>2, <2>3, <2>4 DEF Deleted
    <3>3. plan' \in Seq(Deletes) /\ (after' # "register" => \A i \in DOMAIN plan' : plan'[i].table \in Logs)
      BY <1>1, <2>4 DEF Deleted
    <3>4. QED
      BY <3>1, <3>2, <3>3 DEF Deleted, Deletes, Content, Cached, Book, Logs
  <2>5. QED
    BY <1>1, <2>4 DEF Deleted
<1>8. Parsing'
  <2>1. ASSUME pc = "parse" PROVE Parsing'
    BY <1>1, <1>4, <2>1, StillUnparsed DEF Held
  <2>2. QED
    BY <1>1, <2>1 DEF Parsing
<1>9. QED
  BY <1>2, <1>3, <1>6, <1>7, <1>8

LEMMA EveryStep ==
    ASSUME OldestFirst, IInv, [Next]_vars
    PROVE  IInv'
<1>1. ASSUME NEW targets \in TargetLists, Launch(targets) PROVE IInv'
  BY <1>1, LaunchStep
<1>2. CASE SkipFinished
  BY <1>2, SkipStep
<1>3. CASE RegisterAlias
  BY <1>3, AliasStep
<1>4. CASE CheckVersion
  BY <1>4, CheckStep
<1>5. CASE Recover
  BY <1>5, RecoverStep
<1>6. CASE DeleteRows
  BY <1>6, DeleteStep
<1>7. CASE DeletesDone
  BY <1>7, DeletesDoneStep
<1>8. CASE RegisterCommits
  BY <1>8, CommitsStep
<1>9. CASE RegisterRef
  BY <1>9, RefStep
<1>10. CASE MarkTable
  BY <1>10, MarkStep
<1>11. CASE MarkParsing
  BY <1>11, ParsingStep
<1>12. CASE Dedup
  BY <1>12, DedupStep
<1>13. ASSUME NEW f \in Files, ParseFile(f) PROVE IInv'
  BY <1>13, ParseStep
<1>14. ASSUME NEW f \in Files, StageTouched(f) PROVE IInv'
  BY <1>14, TouchStep
<1>15. CASE CommitAll
  BY <1>15, CommitStep
<1>16. ASSUME NEW t \in Cached, WriteTable(t) PROVE IInv'
  BY <1>16, WriteStep
<1>17. CASE Finish
  BY <1>17, FinishStep
<1>18. CASE Crash
  BY <1>18, CrashStep DEF Crash
<1>19. CASE AllFinished \/ UNCHANGED vars
  BY <1>19, Stutter DEF AllFinished
<1>20. QED
  BY <1>1, <1>2, <1>3, <1>4, <1>5, <1>6, <1>7, <1>8, <1>9, <1>10, <1>11, <1>12, <1>13, <1>14, <1>15, <1>16,
     <1>17, <1>18, <1>19 DEF Next, Step

\* Recovery (core/ingest_state.py) and the run it recovers (ingest_git_dag,
\* update): whatever was interrupted, the rows of the finished versions are
\* stable, every other row is above a recorded mark or belongs to a recorded
\* blob, and the deletes a rollback still has to run reach all of them and
\* none that is stable.
THEOREM IngestInvariant ==
    ASSUME OldestFirst
    PROVE  Spec => []IInv
<1>1. Init => IInv
  BY Initial
<1>2. IInv /\ [Next]_vars => IInv'
  BY EveryStep
<1>3. QED
  BY <1>1, <1>2, PTL DEF Spec

\* rollback_version: a rollback, also one that was itself interrupted and
\* started again, brings the content tables back to what they were when the
\* run began.
THEOREM RollbackRestored ==
    ASSUME OldestFirst
    PROVE  Spec => []RollbackRestores
<1>1. IInv => RollbackRestores
  BY StableIs DEF IInv, Position, RollbackRestores
<1>2. QED
  BY <1>1, IngestInvariant, PTL

\* The checkpoint rows of a finished version are stable, and so are the rows
\* derived from their blobs.
LEMMA DoneRows ==
    ASSUME IInv, NEW id, DoneId(id), NEW k \in db["checkpoint"], k.commit = id
    PROVE  /\ k \in Stable["checkpoint"]
           /\ \E r \in db["commit"] : \E b \in Stable["blob"] :
                 /\ r.id = id /\ b.id = k.blob /\ b.of \in Tree[r.of]
                 /\ \E s \in Stable["bridge"] : s.blob = b.id
<1> USE DEF IInv
<1>1. k \in Stable["checkpoint"]
  <2> SUFFICES ASSUME k \notin Stable["checkpoint"] PROVE FALSE
    OBVIOUS
  <2>1. k \in Held("checkpoint") /\ "checkpoint" \in Cached
    BY DEF Held, Cached
  <2>2. ParsingId(id)
    BY <2>1 DEF Data, Since, IsNew
  <2>3. QED
    BY <2>2, StatusIs DEF Data
<1>2. PICK r \in db["commit"] : r.id = id /\ FileOf(Stable, k, r.of)
  BY <1>1 DEF Data, Whole
<1>3. PICK b \in Stable["blob"] : b.id = k.blob /\ b.of \in Tree[r.of]
  BY <1>2 DEF FileOf
<1>4. Stored(Stable, r.id, b.of)
  BY <1>2, <1>3 DEF Data, Whole
<1>5. PICK a \in Stable["blob"] : a.of = b.of /\ \E s \in Stable["bridge"] : s.blob = a.id
  BY <1>4 DEF Stored
<1>6. a = b
  BY <1>5 DEF Data, Sound, OneRow
<1>7. QED
  BY <1>1, <1>2, <1>3, <1>5, <1>6

LEMMA DerivedStay ==
    ASSUME IInv, NEW b \in Stable["blob"], \E s \in Stable["bridge"] : s.blob = b.id,
           NEW t \in {"bridge", "def"}, NEW row \in db[t], row.blob = b.id
    PROVE  row \in Stable[t]
<1> USE DEF IInv
<1> SUFFICES ASSUME row \notin Stable[t] PROVE FALSE
  OBVIOUS
<1>1. row \in Held(t) \ Stable[t] /\ t \in Cached
  BY DEF Held, Cached
<1>2. NewBlob(b.id)
  BY <1>1 DEF Data, Since, IsNew
<1>3. ~(b.id > Top("blob"))
  BY TopIs, StableRows DEF Marked, Ids
<1>4. PICK rp \in db["reparse"] : rp.blob = b.id /\ ParsingId(rp.commit)
  BY <1>2, <1>3 DEF NewBlob, Redone
<1>5. ~DoneId(rp.commit)
  BY <1>4, StatusIs DEF Data
<1>6. QED
  BY <1>4, <1>5 DEF Data, Recorded

LEMMA DoneContent ==
    ASSUME IInv, NEW id, DoneId(id), NEW t \in Cached
    PROVE  VersionContent(id)[t] \subseteq Stable[t]
<1> USE DEF IInv
<1> DEFINE blobs == {r.blob : r \in RowsOf("checkpoint", id)}
           tags == {r.tag : r \in {x \in db.bridge : x.blob \in blobs}}
<1>1. /\ VersionContent(id)["checkpoint"] = RowsOf("checkpoint", id)
      /\ VersionContent(id)["blob"] = {r \in db.blob : r.id \in blobs}
      /\ VersionContent(id)["tag"] = {r \in db.tag : r.id \in tags}
      /\ VersionContent(id)["bridge"] = {r \in db.bridge : r.blob \in blobs}
      /\ VersionContent(id)["def"] = {r \in db.def : r.blob \in blobs}
  BY DEF VersionContent
<1>2. RowsOf("checkpoint", id) = {row \in db["checkpoint"] : row.commit = id}
  BY DEF RowsOf
<1>3. ASSUME NEW x \in blobs
      PROVE  \E b \in Stable["blob"] : b.id = x /\ \E s \in Stable["bridge"] : s.blob = b.id
  <2>1. PICK k \in db["checkpoint"] : k.commit = id /\ k.blob = x
    BY <1>2
  <2>2. QED
    BY <2>1, DoneRows
<1>4. ASSUME NEW y \in tags
      PROVE  \E r \in db["bridge"] : r.blob \in blobs /\ r.tag = y
  OBVIOUS
<1> HIDE DEF blobs, tags
<1>5. OneRow(db["blob"]) /\ OneRow(db["tag"]) /\ Stable["blob"] \subseteq db["blob"] /\ Stable["tag"] \subseteq db["tag"]
  <2>1. db["blob"] \subseteq Held("blob") /\ db["tag"] \subseteq Held("tag")
    BY DEF Held
  <2>2. OneRow(db["blob"]) /\ OneRow(db["tag"])
    BY <2>1 DEF Data, Since, OneRow
  <2>3. QED
    BY <2>2 DEF Data, Since, Content, Cached
<1>6. CASE t = "checkpoint"
  BY <1>1, <1>2, <1>6, DoneRows
<1>7. CASE t = "blob"
  BY <1>1, <1>3, <1>5, <1>7 DEF OneRow
<1>8. ASSUME NEW s \in {"bridge", "def"}, NEW row \in db[s], row.blob \in blobs
      PROVE  row \in Stable[s]
  <2>1. PICK b \in Stable["blob"] : b.id = row.blob /\ \E l \in Stable["bridge"] : l.blob = b.id
    BY <1>3, <1>8
  <2>2. QED
    BY <2>1, DerivedStay
<1>9. CASE t = "tag"
  <2> SUFFICES ASSUME NEW row \in db["tag"], row.id \in tags PROVE row \in Stable["tag"]
    BY <1>1, <1>9
  <2>1. PICK r \in db["bridge"] : r.blob \in blobs /\ r.tag = row.id
    BY <1>4
  <2>2. r \in Stable["bridge"]
    BY <1>8, <2>1
  <2>3. PICK g \in Stable["tag"] : g.id = row.id
    BY <2>1, <2>2 DEF Data, Sound, Derived
  <2>4. QED
    BY <1>5, <2>3 DEF OneRow
<1>10. QED
  BY <1>1, <1>6, <1>7, <1>8, <1>9 DEF Cached

\* No step deletes a stable row.
LEMMA StableStay ==
    ASSUME IInv, [Next]_vars, NEW t \in Cached
    PROVE  Stable[t] \subseteq db'[t]
<1> USE DEF IInv
<1>1. t \in Content /\ t \notin Book /\ t # "commit" /\ t \in DOMAIN db /\ Stable[t] \subseteq db[t]
  BY DEF Content, Cached, Book, TypeOK, Tables, Data, Since
<1>2. CASE DeleteRows
  BY <1>1, <1>2, StatementKeeps
<1>3. ASSUME NEW s \in Cached, WriteTable(s) PROVE db[t] \subseteq db'[t]
  <2>1. db' = [db EXCEPT ![s] = @ \cup batch[s]]
    BY <1>3 DEF WriteTable
  <2>2. QED
    BY <1>1, <2>1
<1>4. CASE db' = db
  BY <1>1, <1>4
<1>5. CASE RegisterAlias \/ RegisterRef \/ MarkTable \/ MarkParsing \/ Dedup \/ RegisterCommits \/ Finish
  <2>1. db'[t] = db[t]
    <3>1. t \notin {"ref", "mark", "state", "reparse", "commit"}
      BY <1>1 DEF Book
    <3>2. QED
      BY <1>1, <1>5, <3>1 DEF RegisterAlias, RegisterRef, MarkTable, MarkParsing, Dedup, RegisterCommits, Finish
  <2>2. QED
    BY <1>1, <2>1
<1>6. CASE \/ \E targets \in TargetLists : Launch(targets)
           \/ SkipFinished \/ CheckVersion \/ Recover \/ DeletesDone
           \/ (\E f \in Files : ParseFile(f) \/ StageTouched(f)) \/ CommitAll
           \/ Crash \/ AllFinished \/ UNCHANGED vars
  <2>1. db' = db
    BY <1>6 DEF Launch, SkipFinished, CheckVersion, Recover, DeletesDone, ParseFile, StageTouched, CommitAll,
                Crash, AllFinished, vars
  <2>2. QED
    BY <1>4, <2>1
<1>7. QED
  BY <1>1, <1>2, <1>3, <1>5, <1>6 DEF Next, Step

\* "Stale marks left by older interrupted runs cannot take a finished version
\* down with them" (core/ingest_state.py): no step deletes or changes a row of
\* a finished version.
THEOREM FinishedKept ==
    ASSUME OldestFirst
    PROVE  Spec => FinishedIsKept
<1> DEFINE Kept == \A row \in {r \in db.state : r.status = DONE} :
                      \A t \in Cached : VersionContent(row.commit)[t] \subseteq db'[t]
<1>1. IInv /\ [Next]_vars => Kept
  <2> SUFFICES ASSUME IInv, [Next]_vars, NEW row \in db["state"], row.status = DONE, NEW t \in Cached
               PROVE  VersionContent(row.commit)[t] \subseteq db'[t]
    OBVIOUS
  <2>1. DoneId(row.commit)
    BY RowTypes DEF DoneId, IInv
  <2>2. VersionContent(row.commit)[t] \subseteq Stable[t]
    BY <2>1, DoneContent
  <2>3. QED
    BY <2>2, StableStay
<1>2. IInv /\ [Next]_vars => [Kept]_vars
  BY <1>1
<1>3. QED
  BY <1>2, IngestInvariant, PTL DEF Spec, FinishedIsKept

\* update() and finish_version_ingest: a version the webapp lists is whole,
\* whatever was interrupted before or while it was ingested.
THEOREM FinishedWhole ==
    ASSUME OldestFirst
    PROVE  Spec => []FinishedIsWhole
<1>1. IInv => FinishedIsWhole
  <2> USE DEF IInv
  <2> SUFFICES ASSUME IInv, NEW row \in db["state"], row.status = DONE
               PROVE  \E c \in db["commit"] :
                        /\ c.id = row.commit
                        /\ \E ref \in db["ref"] : ref.commit = c.id
                        /\ {r.blob : r \in RowsOf("checkpoint", c.id)} = {BlobId(f) : f \in Tree[c.of]}
                        /\ \A f \in Tree[c.of] : Parsed(f)
    BY DEF FinishedIsWhole
  <2>1. DoneId(row.commit)
    BY RowTypes DEF DoneId
  <2>2. PICK c \in db["commit"] : c.id = row.commit
    BY DEF Data, Registered
  <2>3. (\E ref \in db["ref"] : ref.commit = c.id) /\ \A f \in Tree[c.of] : Stored(Stable, c.id, f)
    BY <2>1, <2>2 DEF Data, Whole
  <2>4. /\ OneRow(db["blob"]) /\ Stable["blob"] \subseteq db["blob"] /\ Stable["tag"] \subseteq db["tag"]
        /\ Stable["bridge"] \subseteq db["bridge"] /\ Stable["def"] \subseteq db["def"]
        /\ Stable["checkpoint"] \subseteq db["checkpoint"]
    <3>1. db["blob"] \subseteq Held("blob")
      BY DEF Held
    <3>2. OneRow(db["blob"])
      BY <3>1 DEF Data, Since, OneRow
    <3>3. QED
      BY <3>2 DEF Data, Since, Content, Cached
  <2>5. \A b \in db["blob"] : BlobId(b.of) = b.id
    BY <2>4, BlobIdIs
  <2>6. {r.blob : r \in RowsOf("checkpoint", c.id)} = {BlobId(f) : f \in Tree[c.of]}
    <3>1. ASSUME NEW r \in RowsOf("checkpoint", c.id)
          PROVE  \E f \in Tree[c.of] : r.blob = BlobId(f)
      <4>1. r \in db["checkpoint"] /\ r.commit = c.id
        BY DEF RowsOf
      <4>2. PICK d \in db["commit"], b \in Stable["blob"] : d.id = c.id /\ b.id = r.blob /\ b.of \in Tree[d.of]
        BY <2>1, <2>2, <4>1, DoneRows
      <4>3. d = c
        BY <4>2 DEF Data, Registered, OneRow
      <4>4. QED
        BY <2>4, <2>5, <4>2, <4>3
    <3>2. ASSUME NEW f \in Tree[c.of]
          PROVE  \E r \in RowsOf("checkpoint", c.id) : r.blob = BlobId(f)
      <4>1. PICK b \in Stable["blob"] : b.of = f /\ [commit |-> c.id, blob |-> b.id] \in Stable["checkpoint"]
        BY <2>3 DEF Stored
      <4>2. PICK r : r = [commit |-> c.id, blob |-> b.id]
        OBVIOUS
      <4>3. r.commit = c.id /\ r.blob = b.id /\ r \in db["checkpoint"] /\ BlobId(f) = b.id
        BY <2>4, <2>5, <4>1, <4>2
      <4>4. QED
        BY <4>3 DEF RowsOf
    <3>3. QED
      BY <3>1, <3>2
  <2>7. ASSUME NEW f \in Tree[c.of] PROVE Parsed(f)
    <3>1. PICK b \in Stable["blob"], l \in Stable["bridge"] : b.of = f /\ l.blob = b.id
      BY <2>3 DEF Stored
    <3>2. ASSUME NEW t \in {"bridge", "def"}, NEW s \in db[t], s.blob = b.id
          PROVE  s \in Stable[t] /\ Derived(Stable, s)
      <4>1. s \in Stable[t]
        BY <3>1, <3>2, DerivedStay
      <4>2. QED
        BY <4>1 DEF Data, Sound
    <3>3. Derived(Stable, l)
      BY DEF Data, Sound
    <3>4. ASSUME NEW s, s.blob = b.id, Derived(Stable, s)
          PROVE  \E g \in Stable["tag"] : g.id = s.tag /\ g.of = TagOf[f]
      <4>1. PICK a \in Stable["blob"], g \in Stable["tag"] : a.id = s.blob /\ g.id = s.tag /\ g.of = TagOf[a.of]
        BY <3>4 DEF Derived
      <4>2. a = b
        BY <3>4, <4>1 DEF Data, Sound, OneRow
      <4>3. QED
        BY <3>1, <4>1, <4>2
    <3>5. PICK g \in Stable["tag"] : g.id = l.tag /\ g.of = TagOf[f]
      BY <3>1, <3>3, <3>4
    <3>6. ASSUME NEW t \in {"bridge", "def"}, NEW s \in db[t], s.blob = b.id
          PROVE  s.tag = g.id
      <4>1. PICK h \in Stable["tag"] : h.id = s.tag /\ h.of = TagOf[f]
        BY <3>2, <3>4, <3>6
      <4>2. h = g
        BY <3>5, <4>1 DEF Data, Sound, OneRow
      <4>3. QED
        BY <4>1, <4>2
    <3>7. PICK d \in Stable["def"] : d.blob = b.id
      BY <3>1 DEF Data, Sound
    <3>8. {r \in db["def"] : r.blob = b.id} = {d}
      <4>1. \A r \in db["def"] : r.blob = b.id => r = d
        <5> TAKE r \in db["def"]
        <5> HAVE r.blob = b.id
        <5>1. r \in Stable["def"]
          BY <3>2
        <5>2. QED
          BY <3>7, <5>1 DEF Data, Sound
      <4>2. QED
        BY <2>4, <3>7, <4>1
    <3>9. Cardinality({r \in db["def"] : r.blob = b.id}) = 1
      BY <3>8, FS_Singleton
    <3>10. {s.tag : s \in {r \in db["bridge"] : r.blob = b.id}} = {g.id}
      BY <2>4, <3>1, <3>5, <3>6
    <3>11. {s.tag : s \in {r \in db["def"] : r.blob = b.id}} = {g.id}
      BY <2>4, <3>6, <3>7, <3>8
    <3>12. b \in db["blob"] /\ g \in db["tag"]
      BY <2>4
    <3>13. QED
      BY <3>1, <3>5, <3>9, <3>10, <3>11, <3>12 DEF Parsed
  <2>8. QED
    BY <2>2, <2>3, <2>6, <2>7
<1>2. QED
  BY <1>1, IngestInvariant, PTL
=============================================================================
