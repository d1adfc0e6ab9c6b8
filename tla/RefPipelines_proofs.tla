-------------------------- MODULE RefPipelines_proofs --------------------------
(***************************************************************************)
(* What the pipelines keep, whatever is launched, stopped and repaired:    *)
(* proofs for any history, any lists of references and any number of       *)
(* launches and crashes.                                                   *)
(***************************************************************************)
EXTENDS RefPipelines, QueueLemmas, FiniteSetTheorems

(***************************************************************************)
(* The tasks.                                                              *)
(***************************************************************************)
Bases == Refs \cup {NoRef}
Plain == [op : {"rollback", "partial", "purge", "update", "next", "branch"}, ref : Refs, base : Bases]
Scans == [op : {"scan"}, list : ReleaseLists]
AllTasks == Plain \cup Scans

Is(t, op, r) == t.op = op /\ t.ref = r

\* A purge comes after the update of its base and before that of its version.
Links(s) ==
    \A i \in DOMAIN s : s[i].op = "purge" =>
        /\ i > 1 => Is(s[i - 1], "update", s[i].base)
        /\ i + 1 \in DOMAIN s /\ Is(s[i + 1], "update", s[i].ref)

\* An update is of a checkpoint.
Covers(s) == \A i \in DOMAIN s : s[i].op = "update" => s[i].ref \in Tags \/ s[i].base = NoRef

\* What is undone is not what a task before it ingests.
Undoes(t) == t.op \in {"rollback", "partial"}
Precedes(a, t) == a.op \in {"rollback", "purge"} \/ (a.op = "update" /\ a.ref # t.ref)
UndoneFirst(s) == \A i \in DOMAIN s : Undoes(s[i]) => \A j \in 1 .. i - 1 : Precedes(s[j], s[i])

IsPlan(s) == s \in Seq(AllTasks) /\ Links(s) /\ Covers(s) /\ UndoneFirst(s)

LEMMA TaskTypes ==
    ASSUME NEW op \in {"rollback", "partial", "purge", "update", "next", "branch"}, NEW r \in Refs, NEW b \in Bases
    PROVE  /\ Task(op, r, b) \in Plain
           /\ Task(op, r, b).op = op /\ Task(op, r, b).ref = r /\ Task(op, r, b).base = b
BY DEF Task, Plain

\* Short lists.
LEMMA Short ==
    ASSUME NEW S, NEW a \in S, NEW b \in S
    PROVE  /\ <<a>> \in Seq(S) /\ Len(<<a>>) = 1 /\ <<a>>[1] = a
           /\ << >> \o <<a>> = <<a>>
           /\ <<a>> \o <<b>> \in Seq(S) /\ Len(<<a>> \o <<b>>) = 2
           /\ (<<a>> \o <<b>>)[1] = a /\ (<<a>> \o <<b>>)[2] = b
OBVIOUS

\* What is behind the first task of a plan is a plan.
LEMMA TailIsPlan ==
    ASSUME NEW s, IsPlan(s), s # << >>
    PROVE  /\ IsPlan(Tail(s))
           /\ Len(Tail(s)) = Len(s) - 1
           /\ \A i \in 1..(Len(s) - 1) : Tail(s)[i] = s[i + 1]
           /\ Tail(s) # << >> /\ Tail(s)[1].op = "purge" => Is(s[1], "update", Tail(s)[1].base)
           /\ \A i \in DOMAIN Tail(s) : Undoes(Tail(s)[i]) => Precedes(s[1], Tail(s)[i])
           /\ \A i \in DOMAIN Tail(s) : \E j \in DOMAIN s : Tail(s)[i] = s[j]
<1> DEFINE t == Tail(s)
<1>1. s \in Seq(AllTasks) /\ Len(s) \in Nat /\ Len(s) > 0 /\ DOMAIN s = 1..Len(s)
  BY DEF IsPlan
<1>2. /\ t \in Seq(AllTasks) /\ Len(t) = Len(s) - 1 /\ DOMAIN t = 1..(Len(s) - 1)
      /\ \A i \in 1..(Len(s) - 1) : t[i] = s[i + 1]
  BY <1>1
<1> HIDE DEF t
<1>3. ASSUME NEW i \in DOMAIN t
      PROVE  /\ i \in Nat /\ i >= 1 /\ i + 1 \in DOMAIN s /\ t[i] = s[i + 1] /\ i + 1 > 1 /\ i + 1 - 1 = i
             /\ i > 1 => t[i - 1] = s[i]
             /\ i + 1 + 1 \in DOMAIN s => i + 1 \in DOMAIN t /\ t[i + 1] = s[i + 1 + 1]
  BY <1>1, <1>2
<1>4. Links(t)
  <2> SUFFICES ASSUME NEW i \in DOMAIN t, t[i].op = "purge"
               PROVE  /\ i > 1 => Is(t[i - 1], "update", t[i].base)
                      /\ i + 1 \in DOMAIN t /\ Is(t[i + 1], "update", t[i].ref)
    BY DEF Links
  <2>1. PICK j : j = i + 1
    OBVIOUS
  <2>2. j \in DOMAIN s /\ s[j].op = "purge" /\ j > 1 /\ j - 1 = i
    BY <1>3, <2>1
  <2>3. Is(s[j - 1], "update", s[j].base) /\ j + 1 \in DOMAIN s /\ Is(s[j + 1], "update", s[j].ref)
    BY <2>2 DEF IsPlan, Links
  <2>4. QED
    BY <1>3, <2>1, <2>2, <2>3
<1>5. Covers(t)
  <2> SUFFICES ASSUME NEW i \in DOMAIN t
               PROVE  t[i].op = "update" => t[i].ref \in Tags \/ t[i].base = NoRef
    BY DEF Covers
  <2>1. i + 1 \in DOMAIN s /\ t[i] = s[i + 1]
    BY <1>3
  <2>2. QED
    BY <2>1 DEF IsPlan, Covers
<1>a. ASSUME NEW i \in DOMAIN t, Undoes(t[i])
      PROVE  Precedes(s[1], t[i]) /\ \A j \in 1 .. i - 1 : Precedes(t[j], t[i])
  <2>1. PICK k : k = i + 1
    OBVIOUS
  <2>2. k \in DOMAIN s /\ t[i] = s[k] /\ 1 \in 1 .. k - 1
    BY <1>3, <2>1
  <2>3. \A j \in 1 .. k - 1 : Precedes(s[j], s[k])
    BY <1>a, <2>2 DEF IsPlan, UndoneFirst
  <2>4. ASSUME NEW j \in 1 .. i - 1 PROVE Precedes(t[j], t[i])
    <3>1. j \in 1 .. (Len(s) - 1) /\ j + 1 \in 1 .. k - 1
      BY <1>1, <1>2, <1>3, <2>1
    <3>2. t[j] = s[j + 1]
      BY <1>2, <3>1
    <3>3. QED
      BY <2>2, <2>3, <3>1, <3>2
  <2>5. QED
    BY <2>2, <2>3, <2>4
<1>b. UndoneFirst(t)
  BY <1>a DEF UndoneFirst
<1>c. \A i \in DOMAIN t : \E j \in DOMAIN s : t[i] = s[j]
  BY <1>3
<1>6. t # << >> => 1 \in DOMAIN t
  BY <1>2
<1>7. ASSUME t # << >>
      PROVE  t[1].op = "purge" => Is(s[1], "update", t[1].base)
  <2>1. PICK j : j = 2
    OBVIOUS
  <2>2. j \in DOMAIN s /\ t[1] = s[j] /\ j > 1 /\ j - 1 = 1
    BY <1>3, <1>6, <1>7, <2>1
  <2>3. s[j].op = "purge" => Is(s[j - 1], "update", s[j].base)
    BY <2>2 DEF IsPlan, Links
  <2>4. QED
    BY <2>2, <2>3
<1>8. IsPlan(t)
  BY <1>2, <1>4, <1>5, <1>b DEF IsPlan
<1>9. QED
  BY <1>2, <1>7, <1>8, <1>a, <1>c DEF t

(***************************************************************************)
(* The lists of references.                                                *)
(***************************************************************************)
LEMMA UntilType ==
    ASSUME NEW r \in Refs
    PROVE  Until(r) \in Seq(Refs)
<1>1. History \in Seq(Refs) /\ Refs = {History[i] : i \in DOMAIN History}
  BY PipelineAssumptions DEF Refs, ToSet
<1>2. \E i \in DOMAIN History : History[i] = r
  BY <1>1
<1>3. PICK i \in DOMAIN History : i = (CHOOSE j \in DOMAIN History : History[j] = r)
  BY <1>2
<1>4. SubSeq(History, 1, i) \in Seq(Refs)
  BY <1>1
<1>5. QED
  BY <1>3, <1>4 DEF Until

LEMMA UntilHead ==
    ASSUME NEW r \in Refs
    PROVE  r \in ToSet(Until(r))
<1>1. History \in Seq(Refs) /\ DOMAIN History = 1 .. Len(History) /\ Refs = {History[i] : i \in DOMAIN History}
  BY PipelineAssumptions DEF Refs, ToSet
<1>2. PICK i \in DOMAIN History : i = (CHOOSE j \in DOMAIN History : History[j] = r) /\ History[i] = r
  BY <1>1
<1>3. PICK t : t = SubSeq(History, 1, i)
  OBVIOUS
<1>4. i \in Nat /\ i >= 1 /\ i <= Len(History)
  BY <1>1
<1>5. i \in DOMAIN t /\ t[i] = History[i]
  BY <1>1, <1>3, <1>4
<1>6. Until(r) = t
  BY <1>2, <1>3 DEF Until
<1>7. QED
  BY <1>2, <1>5, <1>6 DEF ToSet

LEMMA FromFacts ==
    ASSUME NEW list \in ReleaseLists
    PROVE  /\ From(list) \in Seq(Refs) /\ IsInjective(From(list))
           /\ \A i \in 2 .. Len(From(list)) : From(list)[i] \in Tags
<1>1. list \in Seq(Refs) /\ list # << >> /\ Head(list) \in Refs
  BY PipelineAssumptions
<1>2. PICK C : C = CanonicalTags
  OBVIOUS
<1>3. C \in Seq(Refs) /\ IsInjective(C) /\ Range(C) \subseteq Tags
  BY <1>2, ThoseOf, PipelineAssumptions DEF CanonicalTags
<1>4. PICK T, t : T = {u \in Tags : Head(list) \in ToSet(Until(u))} /\ t = Those(C, T)
  OBVIOUS
<1>5. t \in Seq(Refs) /\ IsInjective(t) /\ Range(t) = Range(C) \cap T
  BY <1>3, <1>4, ThoseOf
<1>6. Range(t) \subseteq Tags
  BY <1>3, <1>5
<1>7. From(list) = IF Head(list) \in Tags THEN t ELSE <<Head(list)>> \o t
  BY <1>2, <1>4 DEF From
<1>8. \A i \in DOMAIN t : t[i] \in Tags
  BY <1>6 DEF Range
<1>9. CASE Head(list) \in Tags
  <2>1. From(list) = t
    BY <1>7, <1>9
  <2>2. \A i \in 2 .. Len(t) : i \in DOMAIN t
    BY <1>5
  <2>3. QED
    BY <1>5, <1>8, <2>1, <2>2
<1>10. CASE Head(list) \notin Tags
  <2>1. PICK h : h = <<Head(list)>>
    OBVIOUS
  <2>2. h \in Seq(Refs) /\ IsInjective(h) /\ Range(h) = {Head(list)} /\ Len(h) = 1
    BY <1>1, <2>1 DEF IsInjective, Range
  <2>3. Range(h) \cap Range(t) = {}
    BY <1>6, <1>10, <2>2
  <2>4. h \o t \in Seq(Refs) /\ IsInjective(h \o t)
    BY <1>5, <2>2, <2>3, Joined
  <2>5. From(list) = h \o t
    BY <1>7, <1>10, <2>1
  <2>6. /\ Len(h \o t) = Len(h) + Len(t)
        /\ \A i \in 1 .. Len(h) + Len(t) : (h \o t)[i] = IF i <= Len(h) THEN h[i] ELSE t[i - Len(h)]
    BY <1>5, <2>2, ConcatProperties
  <2>7. ASSUME NEW i \in 2 .. Len(h \o t) PROVE (h \o t)[i] \in Tags
    <3>1. i \in 1 .. Len(h) + Len(t) /\ ~(i <= Len(h)) /\ i - Len(h) \in DOMAIN t
      BY <1>5, <2>2, <2>6
    <3>2. QED
      BY <1>8, <2>6, <3>1
  <2>8. QED
    BY <2>4, <2>5, <2>7
<1>11. QED
  BY <1>9, <1>10

(***************************************************************************)
(* The plan of a repair.                                                   *)
(***************************************************************************)
Piece(list, i) ==
    IF Missing(list, i) THEN RolledBackFirst(list[i]) \o Update(list[i], Before(list, i))
    ELSE IF i > 1 /\ Missing(list, i - 1) THEN Realign(list[i], list[i - 1])
    ELSE << >>

\* What of the list a repair updates.
Planned(list, i) == Missing(list, i) \/ (i > 1 /\ Missing(list, i - 1))

\* A list of references the repair works on.
Ordered(list) == list \in Seq(Refs) /\ IsInjective(list) /\ \A i \in 2 .. Len(list) : list[i] \in Tags

LEMMA PieceFacts ==
    ASSUME NEW list, Ordered(list), NEW i \in DOMAIN list
    PROVE  LET p == Piece(list, i) IN
           /\ p \in Seq(Plain) /\ Len(p) \in 0..2
           /\ Missing(list, i) => Len(p) >= 1
           /\ Len(p) >= 1 => /\ Is(p[Len(p)], "update", list[i]) /\ Planned(list, i)
                             /\ list[i] \in Tags \/ p[Len(p)].base = NoRef
           /\ Len(p) = 2 => \/ Is(p[1], "rollback", list[i]) /\ ~IsDone(list[i])
                            \/ /\ Is(p[1], "purge", list[i]) /\ i > 1 /\ Missing(list, i - 1)
                               /\ p[1].base = list[i - 1]
<1>1. list \in Seq(Refs) /\ DOMAIN list = 1 .. Len(list) /\ Len(list) \in Nat /\ list[i] \in Refs
      /\ (i > 1 => i - 1 \in DOMAIN list /\ list[i - 1] \in Refs /\ list[i] \in Tags)
  BY DEF Ordered
<1>2. CASE Missing(list, i)
  <2>1. PICK u : u = Task("update", list[i], Before(list, i))
    OBVIOUS
  <2>2. Before(list, i) \in Bases
    BY <1>1 DEF Before, Bases
  <2>3. u \in Plain /\ u.op = "update" /\ u.ref = list[i] /\ u.base = Before(list, i)
    BY <1>1, <2>1, <2>2, TaskTypes
  <2>4. list[i] \in Tags \/ u.base = NoRef
    <3>1. i > 1 \/ Before(list, i) = NoRef
      BY DEF Before
    <3>2. QED
      BY <1>1, <2>3, <3>1
  <2>5. Update(list[i], Before(list, i)) = <<u>>
    BY <2>1 DEF Update
  <2>6. CASE StateOf(list[i]) = "interrupted"
    <3>1. PICK b : b = Task("rollback", list[i], NoRef)
      OBVIOUS
    <3>2. b \in Plain /\ b.op = "rollback" /\ b.ref = list[i]
      BY <1>1, <3>1, TaskTypes DEF Bases
    <3>a. ~IsDone(list[i])
      BY <2>6 DEF IsDone
    <3>3. Piece(list, i) = <<b>> \o <<u>>
      BY <1>2, <2>5, <2>6, <3>1 DEF Piece, RolledBackFirst
    <3>4. PICK p : p = <<b>> \o <<u>>
      OBVIOUS
    <3>5. p \in Seq(Plain) /\ Len(p) = 2 /\ p[1] = b /\ p[2] = u
      BY <2>3, <3>2, <3>4, Short
    <3>6. QED
      BY <1>2, <2>3, <2>4, <3>2, <3>a, <3>3, <3>4, <3>5 DEF Is, Planned
  <2>7. CASE StateOf(list[i]) # "interrupted"
    <3>1. Piece(list, i) = << >> \o <<u>>
      BY <1>2, <2>5, <2>7 DEF Piece, RolledBackFirst
    <3>2. PICK p : p = << >> \o <<u>>
      OBVIOUS
    <3>3. p \in Seq(Plain) /\ Len(p) = 1 /\ p[1] = u
      BY <2>3, <3>2, Short
    <3>4. QED
      BY <1>2, <2>3, <2>4, <3>1, <3>2, <3>3 DEF Is, Planned
  <2>8. QED
    BY <2>6, <2>7
<1>3. CASE ~Missing(list, i) /\ i > 1 /\ Missing(list, i - 1)
  <2>1. PICK b, u : b = Task("purge", list[i], list[i - 1]) /\ u = Task("update", list[i], list[i - 1])
    OBVIOUS
  <2>2. list[i - 1] \in Bases
    BY <1>1, <1>3 DEF Bases
  <2>3. /\ b \in Plain /\ b.op = "purge" /\ b.ref = list[i] /\ b.base = list[i - 1]
        /\ u \in Plain /\ u.op = "update" /\ u.ref = list[i]
    BY <1>1, <2>1, <2>2, TaskTypes
  <2>4. Piece(list, i) = <<b>> \o <<u>>
    BY <1>3, <2>1 DEF Piece, Realign, Update
  <2>5. PICK p : p = <<b>> \o <<u>>
    OBVIOUS
  <2>6. p \in Seq(Plain) /\ Len(p) = 2 /\ p[1] = b /\ p[2] = u
    BY <2>3, <2>5, Short
  <2>7. QED
    BY <1>1, <1>3, <2>3, <2>4, <2>5, <2>6 DEF Is, Planned
<1>4. CASE ~Missing(list, i) /\ ~(i > 1 /\ Missing(list, i - 1))
  <2>1. PICK p : p = Piece(list, i)
    OBVIOUS
  <2>2. p = << >>
    BY <1>4, <2>1 DEF Piece
  <2>3. p \in Seq(Plain) /\ Len(p) = 0
    BY <2>2
  <2>4. QED
    BY <1>4, <2>1, <2>3
<1>5. QED
  BY <1>2, <1>3, <1>4

\* The plan for the first n references of the list.
GapPlan(g, list, n) ==
    /\ g \in Seq(Plain) /\ Links(g)
    /\ \A k \in DOMAIN g : g[k].op \in {"rollback", "purge", "update"}
    /\ \A k \in DOMAIN g : g[k].op = "purge" =>
          k > 1 /\ \E i \in 2 .. Len(list) : g[k].ref = list[i] /\ g[k].base = list[i - 1]
    /\ \A k \in DOMAIN g : g[k].op = "update" =>
          /\ g[k].ref \in Tags \/ g[k].base = NoRef
          /\ \E i \in 1 .. n : g[k].ref = list[i] /\ Planned(list, i)
    /\ \A k, l \in DOMAIN g : g[k].op = "update" /\ g[l].op = "update" /\ g[k].ref = g[l].ref => k = l
    /\ UndoneFirst(g) /\ \A k \in DOMAIN g : Undoes(g[k]) => ~IsDone(g[k].ref)
    /\ \A i \in 1 .. n : Missing(list, i) => \E k \in DOMAIN g : Is(g[k], "update", list[i])
    /\ n >= 1 /\ Missing(list, n) => g # << >> /\ Is(g[Len(g)], "update", list[n])

LEMMA NoPlan ==
    ASSUME NEW list
    PROVE  GapPlan(<< >>, list, 0)
BY DEF GapPlan, Links, UndoneFirst

LEMMA PlanGrows ==
    ASSUME NEW list, Ordered(list), NEW n \in Nat, n + 1 \in DOMAIN list,
           NEW g, GapPlan(g, list, n)
    PROVE  GapPlan(g \o Piece(list, n + 1), list, n + 1)
<1>1. PICK N : N = n + 1
  OBVIOUS
<1>2. N \in DOMAIN list /\ N >= 1 /\ N - 1 = n /\ N \in 1 .. Len(list) /\ N \in Nat /\ Len(list) \in Nat
  BY <1>1 DEF Ordered
<1>3. PICK p : p = Piece(list, N)
  OBVIOUS
<1>4. /\ p \in Seq(Plain) /\ Len(p) \in 0..2
      /\ Missing(list, N) => Len(p) >= 1
      /\ Len(p) >= 1 => /\ Is(p[Len(p)], "update", list[N]) /\ Planned(list, N)
                        /\ list[N] \in Tags \/ p[Len(p)].base = NoRef
      /\ Len(p) = 2 => \/ Is(p[1], "rollback", list[N]) /\ ~IsDone(list[N])
                       \/ /\ Is(p[1], "purge", list[N]) /\ N > 1 /\ Missing(list, n)
                          /\ p[1].base = list[n]
  BY <1>2, <1>3, PieceFacts
<1>5. PICK h : h = g \o p
  OBVIOUS
<1>6. PICK m : m = Len(g)
  OBVIOUS
<1>7. g \in Seq(Plain) /\ m \in Nat /\ DOMAIN g = 1..m
  BY <1>6 DEF GapPlan
<1>8. /\ h \in Seq(Plain) /\ Len(h) = m + Len(p)
      /\ \A i \in 1 .. m + Len(p) : h[i] = IF i <= m THEN g[i] ELSE p[i - m]
  BY <1>4, <1>5, <1>6, <1>7, ConcatProperties
<1>9. DOMAIN h = 1 .. m + Len(p) /\ \A k \in DOMAIN g : k \in DOMAIN h /\ h[k] = g[k]
  BY <1>4, <1>7, <1>8
\* The new tasks.
<1>10. ASSUME NEW k \in DOMAIN h, k \notin DOMAIN g
       PROVE  \/ k = Len(h) /\ Is(h[k], "update", list[N]) /\ Planned(list, N) /\ (list[N] \in Tags \/ h[k].base = NoRef)
              \/ /\ k = m + 1 /\ Len(h) = m + 2 /\ h[k + 1] = p[2] /\ h[k] = p[1] /\ Len(p) = 2
                 /\ Is(h[k + 1], "update", list[N])
                 /\ \/ Is(h[k], "rollback", list[N]) /\ ~IsDone(list[N])
                    \/ Is(h[k], "purge", list[N]) /\ N > 1 /\ Missing(list, n) /\ h[k].base = list[n]
  <2>1. k \in Nat /\ k > m /\ k <= m + Len(p) /\ h[k] = p[k - m] /\ k - m \in 1 .. Len(p)
    BY <1>4, <1>7, <1>8, <1>9, <1>10
  <2>2. CASE k = m + Len(p)
    <3>1. Len(p) >= 1 /\ h[k] = p[Len(p)] /\ k = Len(h)
      BY <1>4, <1>7, <1>8, <2>1, <2>2
    <3>2. QED
      BY <1>4, <3>1
  <2>3. CASE k # m + Len(p)
    <3>1. Len(p) = 2 /\ k = m + 1 /\ k - m = 1 /\ h[k] = p[1]
      BY <1>4, <1>7, <2>1, <2>3
    <3>2. h[k + 1] = p[2]
      <4>1. PICK l : l = k + 1
        OBVIOUS
      <4>2. l \in 1 .. m + Len(p) /\ ~(l <= m) /\ l - m = 2
        BY <1>7, <3>1, <4>1
      <4>3. h[l] = p[l - m]
        BY <1>8, <4>2
      <4>4. h[l] = p[2]
        BY <4>2, <4>3, Zenon
      <4>5. QED
        BY <4>1, <4>4, Zenon
    <3>3. QED
      <4>1. k = m + 1 /\ Len(h) = m + 2 /\ h[k] = p[1] /\ Len(p) = 2
        BY <1>8, <3>1
      <4>2. Is(p[2], "update", list[N])
        BY <1>4, <4>1
      <4>3. \/ Is(h[k], "rollback", list[N]) /\ ~IsDone(list[N])
            \/ Is(h[k], "purge", list[N]) /\ N > 1 /\ Missing(list, n) /\ h[k].base = list[n]
        BY <1>4, <4>1
      <4>4. QED
        BY <3>2, <4>1, <4>2, <4>3
  <2>4. QED
    BY <2>2, <2>3
<1>11. \A k \in DOMAIN h : h[k].op \in {"rollback", "purge", "update"}
  BY <1>9, <1>10 DEF GapPlan, Is
<1>12. ASSUME NEW k \in DOMAIN h, h[k].op = "purge"
       PROVE  /\ k > 1 /\ Is(h[k - 1], "update", h[k].base)
              /\ k + 1 \in DOMAIN h /\ Is(h[k + 1], "update", h[k].ref)
              /\ \E i \in 2 .. Len(list) : h[k].ref = list[i] /\ h[k].base = list[i - 1]
  <2>1. CASE k \in DOMAIN g
    <3>1. g[k].op = "purge" /\ h[k] = g[k]
      BY <1>9, <1>12, <2>1
    <3>2. k > 1 /\ k + 1 \in DOMAIN g /\ k - 1 \in DOMAIN g
      BY <1>7, <2>1, <3>1 DEF GapPlan, Links
    <3>3. Is(g[k - 1], "update", g[k].base) /\ Is(g[k + 1], "update", g[k].ref)
      BY <2>1, <3>1, <3>2 DEF GapPlan, Links
    <3>4. \E i \in 2 .. Len(list) : g[k].ref = list[i] /\ g[k].base = list[i - 1]
      BY <2>1, <3>1 DEF GapPlan
    <3>5. QED
      BY <1>9, <3>1, <3>2, <3>3, <3>4
  <2>2. CASE k \notin DOMAIN g
    <3>1. /\ k = m + 1 /\ Len(h) = m + 2 /\ Is(h[k + 1], "update", list[N])
          /\ Is(h[k], "purge", list[N]) /\ N > 1 /\ Missing(list, n) /\ h[k].base = list[n]
      BY <1>10, <1>12, <2>2 DEF Is
    <3>2. g # << >> /\ Is(g[m], "update", list[n])
      BY <1>2, <1>6, <3>1 DEF GapPlan
    <3>3. m >= 1 /\ m \in DOMAIN g /\ h[m] = g[m] /\ k - 1 = m /\ k + 1 \in DOMAIN h
      BY <1>7, <1>8, <1>9, <1>6, <3>1, <3>2
    <3>4. N \in 2 .. Len(list) /\ h[k].ref = list[N] /\ h[k].base = list[N - 1]
      BY <1>2, <3>1 DEF Is
    <3>5. QED
      BY <1>7, <3>1, <3>2, <3>3, <3>4 DEF Is
  <2>3. QED
    BY <2>1, <2>2
<1>13. Links(h)
  BY <1>12 DEF Links
<1>14. ASSUME NEW k \in DOMAIN h, h[k].op = "update"
       PROVE  /\ h[k].ref \in Tags \/ h[k].base = NoRef
              /\ \E i \in 1 .. N : h[k].ref = list[i] /\ Planned(list, i)
              /\ \/ k \in DOMAIN g /\ g[k].op = "update" /\ \E i \in 1 .. n : h[k].ref = list[i]
                 \/ k = Len(h) /\ h[k].ref = list[N]
  <2>1. CASE k \in DOMAIN g
    <3>1. h[k] = g[k]
      BY <1>9, <2>1
    <3>2. /\ g[k].ref \in Tags \/ g[k].base = NoRef
          /\ \E i \in 1 .. n : g[k].ref = list[i] /\ Planned(list, i)
      BY <1>14, <2>1, <3>1 DEF GapPlan
    <3>3. PICK i \in 1 .. n : g[k].ref = list[i] /\ Planned(list, i)
      BY <3>2
    <3>4. i \in 1 .. N
      BY <1>1, <1>2
    <3>5. QED
      BY <1>14, <2>1, <3>1, <3>2, <3>3, <3>4
  <2>2. CASE k \notin DOMAIN g
    <3>1. k = Len(h) /\ h[k].ref = list[N] /\ Planned(list, N) /\ (list[N] \in Tags \/ h[k].base = NoRef)
      BY <1>10, <1>14, <2>2 DEF Is
    <3>2. N \in 1 .. N
      BY <1>2
    <3>3. QED
      BY <3>1, <3>2
  <2>3. QED
    BY <2>1, <2>2
<1>15. \A i \in 1 .. n : list[i] # list[N]
  BY <1>1, <1>2 DEF Ordered, IsInjective
<1>16. ASSUME NEW k \in DOMAIN h, NEW l \in DOMAIN h, h[k].op = "update", h[l].op = "update", h[k].ref = h[l].ref
       PROVE  k = l
  <2>1. CASE k \in DOMAIN g /\ g[k].op = "update" /\ l \in DOMAIN g /\ g[l].op = "update"
    BY <1>9, <1>16, <2>1 DEF GapPlan
  <2>2. CASE k = Len(h) /\ h[k].ref = list[N]
    BY <1>14, <1>15, <1>16, <2>2
  <2>3. CASE l = Len(h) /\ h[l].ref = list[N]
    BY <1>14, <1>15, <1>16, <2>3
  <2>4. QED
    BY <1>14, <1>16, <2>1, <2>2, <2>3
<1>17. Missing(list, N) => h # << >> /\ Is(h[Len(h)], "update", list[N]) /\ Len(h) \in DOMAIN h
  <2> SUFFICES ASSUME Missing(list, N) PROVE h # << >> /\ Is(h[Len(h)], "update", list[N]) /\ Len(h) \in DOMAIN h
    OBVIOUS
  <2>1. Len(p) >= 1 /\ Len(h) \in DOMAIN h /\ Len(h) \notin DOMAIN g
    BY <1>4, <1>7, <1>8, <1>9
  <2>2. Is(h[Len(h)], "update", list[N])
    BY <1>7, <1>10, <2>1
  <2>3. QED
    BY <2>1, <2>2
<1>18. ASSUME NEW i \in 1 .. N, Missing(list, i)
       PROVE  \E k \in DOMAIN h : Is(h[k], "update", list[i])
  <2>1. CASE i = N
    BY <1>17, <1>18, <2>1
  <2>2. CASE i # N
    <3>1. i \in 1 .. n
      BY <1>1, <1>2, <2>2
    <3>2. PICK k \in DOMAIN g : Is(g[k], "update", list[i])
      BY <1>18, <3>1 DEF GapPlan
    <3>3. QED
      BY <1>9, <3>2
  <2>3. QED
    BY <2>1, <2>2
<1>a. ASSUME NEW k \in DOMAIN h, Undoes(h[k])
      PROVE  ~IsDone(h[k].ref) /\ \A j \in 1 .. k - 1 : Precedes(h[j], h[k])
  <2>1. CASE k \in DOMAIN g
    <3>1. h[k] = g[k] /\ \A j \in 1 .. k - 1 : j \in DOMAIN g /\ h[j] = g[j]
      BY <1>7, <1>9, <2>1
    <3>2. ~IsDone(g[k].ref) /\ \A j \in 1 .. k - 1 : Precedes(g[j], g[k])
      BY <1>a, <2>1, <3>1 DEF GapPlan, UndoneFirst
    <3>3. QED
      BY <3>1, <3>2
  <2>2. CASE k \notin DOMAIN g
    <3>1. k = m + 1 /\ h[k].ref = list[N] /\ ~IsDone(list[N])
      BY <1>10, <1>a, <2>2 DEF Is, Undoes
    <3>2. ASSUME NEW j \in 1 .. k - 1 PROVE Precedes(h[j], h[k])
      <4>1. j \in DOMAIN g /\ h[j] = g[j]
        BY <1>7, <1>9, <3>1
      <4>2. g[j].op \in {"rollback", "purge", "update"}
        BY <4>1 DEF GapPlan
      <4>3. g[j].op = "update" => \E i \in 1 .. n : g[j].ref = list[i]
        BY <4>1 DEF GapPlan
      <4>4. g[j].op = "update" => g[j].ref # list[N]
        BY <1>15, <4>3
      <4>5. QED
        BY <3>1, <4>1, <4>2, <4>4 DEF Precedes
    <3>3. QED
      BY <3>1, <3>2
  <2>3. QED
    BY <2>1, <2>2
<1>b. UndoneFirst(h) /\ \A k \in DOMAIN h : Undoes(h[k]) => ~IsDone(h[k].ref)
  BY <1>a DEF UndoneFirst
<1>19. GapPlan(h, list, N)
  BY <1>8, <1>11, <1>12, <1>13, <1>14, <1>16, <1>17, <1>18, <1>b DEF GapPlan
<1>20. QED
  BY <1>1, <1>3, <1>5, <1>19

LEMMA GapTasksArePlan ==
    ASSUME NEW list, Ordered(list)
    PROVE  GapPlan(GapTasks(list), list, Len(list))
<1>1. list \in Seq(Refs) /\ Len(list) \in Nat /\ DOMAIN list = 1 .. Len(list)
  BY DEF Ordered
<1>2. PICK ss : ss = [i \in DOMAIN list |-> Piece(list, i)]
  OBVIOUS
<1>3. GapTasks(list) = FlattenSeq(ss)
  BY <1>2 DEF GapTasks, Piece
<1>4. \A i \in DOMAIN list : Piece(list, i) \in Seq(Plain)
  BY PieceFacts
<1>5. ss \in Seq(Seq(Plain)) /\ Len(ss) = Len(list) /\ \A i \in DOMAIN list : ss[i] = Piece(list, i)
  BY <1>1, <1>2, <1>4
<1>6. CASE Len(list) = 0
  <2>1. FlattenSeq(ss) = << >>
    BY <1>5, <1>6 DEF FlattenSeq
  <2>2. GapPlan(<< >>, list, 0)
    BY NoPlan
  <2>3. QED
    BY <1>3, <1>6, <2>1, <2>2, Zenon
<1>7. CASE Len(list) # 0
  <2>1. PICK h : Flattens(h, ss)
    BY <1>5, <1>7, Flattening
  <2> DEFINE N == Len(list)
             T == {k \in 0 .. (N - 1) : GapPlan(h[k + 1], list, k + 1)}
  <2>2. 0 \in T
    <3>1. PICK o : o = 1
      OBVIOUS
    <3>2. h[1] = Piece(list, 1) /\ 1 \in DOMAIN list
      BY <1>1, <1>5, <1>7, <2>1 DEF Flattens
    <3>3. Piece(list, 1) \in Seq(Plain)
      BY <1>4, <3>2
    <3>4. << >> \o Piece(list, 1) = Piece(list, 1)
      BY <3>3
    <3>5. GapPlan(<< >>, list, 0)
      BY NoPlan
    <3>6. 0 \in Nat /\ 0 + 1 = 1
      OBVIOUS
    <3>7. GapPlan(<< >> \o Piece(list, 0 + 1), list, 0 + 1)
      BY <3>2, <3>5, <3>6, PlanGrows
    <3>8. GapPlan(h[0 + 1], list, 0 + 1)
      BY <3>2, <3>4, <3>6, <3>7
    <3>9. QED
      BY <1>1, <1>7, <3>8
  <2>3. ASSUME NEW k \in 0 .. (N - 1), k < N - 1, k \in T PROVE k + 1 \in T
    <3>1. PICK m : m = k + 1
      OBVIOUS
    <3>2. m \in Nat /\ m \in 1 .. N /\ m < N /\ m + 1 \in DOMAIN list
      BY <1>1, <2>3, <3>1
    <3>3. GapPlan(h[m], list, m)
      BY <2>3, <3>1
    <3>4. h[m + 1] = h[m] \o ss[m + 1]
      BY <1>5, <2>1, <3>2 DEF Flattens
    <3>5. ss[m + 1] = Piece(list, m + 1)
      BY <1>5, <3>2
    <3>6. PICK g : g = h[m]
      OBVIOUS
    <3>7. GapPlan(g \o Piece(list, m + 1), list, m + 1)
      BY <3>2, <3>3, <3>6, PlanGrows
    <3>8. GapPlan(h[m + 1], list, m + 1)
      BY <3>4, <3>5, <3>6, <3>7, Zenon
    <3>9. k + 1 \in 0 .. (N - 1)
      BY <1>1, <2>3
    <3>10. QED
      BY <3>1, <3>8, <3>9
  <2>4. T = 0 .. (N - 1)
    <3>1. N - 1 \in Nat /\ T \in SUBSET (0 .. (N - 1))
      BY <1>1, <1>7
    <3> HIDE DEF T, N
    <3>2. QED
      BY <2>2, <2>3, <3>1, Climb
  <2>5. GapPlan(h[N], list, N)
    <3>1. N - 1 \in 0 .. (N - 1) /\ N - 1 + 1 = N
      BY <1>1, <1>7
    <3>2. N - 1 \in T
      BY <2>4, <3>1
    <3>3. GapPlan(h[N - 1 + 1], list, N - 1 + 1)
      BY <3>2
    <3>4. QED
      BY <3>1, <3>3
  <2>6. QED
    BY <1>3, <1>5, <2>1, <2>5 DEF Flattens
<1>8. QED
  BY <1>6, <1>7

\* The tasks of a repair that is followed by a scan of the list.
RepairPlan(s, list) ==
    /\ s \in Seq(AllTasks) /\ s # << >>
    /\ s[Len(s)].op = "scan" /\ s[Len(s)].list = list
    /\ \A k \in DOMAIN s : k = Len(s) \/ s[k].op \in {"rollback", "purge", "update"}
    /\ \A k \in DOMAIN s : s[k].op = "purge" =>
          \E i \in 2 .. Len(From(list)) : s[k].ref = From(list)[i] /\ s[k].base = From(list)[i - 1]
    /\ \A k, l \in DOMAIN s : s[k].op = "update" /\ s[l].op = "update" /\ s[k].ref = s[l].ref => k = l

InPlan(s, r) == \E k \in DOMAIN s : Is(s[k], "update", r)

\* What a plan undoes is not finished when the plan is made.
Resets(s) == \A k \in DOMAIN s : Undoes(s[k]) => ~IsDone(s[k].ref)

LEMMA RepairIsPlan ==
    ASSUME NEW list \in ReleaseLists
    PROVE  LET L == From(list)
               s == GapTasks(L) \o <<[op |-> "scan", list |-> list]>> IN
           /\ IsPlan(s) /\ RepairPlan(s, list) /\ s[1].op # "purge" /\ Resets(s)
           /\ \A i \in DOMAIN L : Missing(L, i) => InPlan(s, L[i])
           /\ \A i \in DOMAIN L : InPlan(s, L[i]) => Planned(L, i)
<1>1. PICK L, g, e : L = From(list) /\ g = GapTasks(L) /\ e = [op |-> "scan", list |-> list]
  OBVIOUS
<1>2. Ordered(L)
  BY <1>1, FromFacts DEF Ordered
<1>3. GapPlan(g, L, Len(L))
  BY <1>1, <1>2, GapTasksArePlan
<1>4. e \in Scans /\ e.op = "scan" /\ e.list = list
  BY <1>1 DEF Scans
<1>5. PICK s, m : s = g \o <<e>> /\ m = Len(g)
  OBVIOUS
<1>6. g \in Seq(AllTasks) /\ m \in Nat /\ DOMAIN g = 1..m /\ DOMAIN L = 1 .. Len(L) /\ Len(L) \in Nat
  BY <1>2, <1>3, <1>5 DEF GapPlan, AllTasks, Ordered
<1>7. /\ s \in Seq(AllTasks) /\ Len(s) = m + 1 /\ DOMAIN s = 1..(m + 1) /\ s # << >>
      /\ s[m + 1] = e /\ \A k \in 1..m : s[k] = g[k]
  BY <1>4, <1>5, <1>6 DEF AllTasks
<1>8. \A k \in DOMAIN s : (k = m + 1 /\ s[k].op = "scan") \/ (k \in DOMAIN g /\ s[k] = g[k])
  <2>1. \A k \in DOMAIN s : k = m + 1 \/ k \in 1..m
    BY <1>6, <1>7
  <2>2. s[m + 1].op = "scan"
    BY <1>4, <1>7
  <2>3. QED
    BY <1>6, <1>7, <2>1, <2>2
<1>9. \A k \in DOMAIN g : k \in DOMAIN s /\ s[k] = g[k]
  BY <1>3, <1>6, <1>7 DEF GapPlan
<1>10. Links(s)
  <2> SUFFICES ASSUME NEW k \in DOMAIN s, s[k].op = "purge"
               PROVE  /\ k > 1 => Is(s[k - 1], "update", s[k].base)
                      /\ k + 1 \in DOMAIN s /\ Is(s[k + 1], "update", s[k].ref)
    BY DEF Links
  <2>1. k \in DOMAIN g /\ s[k] = g[k]
    BY <1>8
  <2>2. k + 1 \in DOMAIN g /\ Is(g[k + 1], "update", g[k].ref)
    BY <1>3, <2>1 DEF GapPlan, Links
  <2>3. k > 1 => k - 1 \in DOMAIN g /\ Is(g[k - 1], "update", g[k].base)
    BY <1>3, <1>6, <2>1 DEF GapPlan, Links
  <2>4. QED
    BY <1>9, <2>1, <2>2, <2>3
<1>11. Covers(s)
  <2> SUFFICES ASSUME NEW k \in DOMAIN s
               PROVE  s[k].op = "update" => s[k].ref \in Tags \/ s[k].base = NoRef
    BY DEF Covers
  <2>1. CASE k = m + 1 /\ s[k].op = "scan"
    BY <2>1
  <2>2. CASE k \in DOMAIN g /\ s[k] = g[k]
    BY <1>3, <2>2 DEF GapPlan
  <2>3. QED
    BY <1>8, <2>1, <2>2
<1>a. ASSUME NEW k \in DOMAIN s, Undoes(s[k])
      PROVE  ~IsDone(s[k].ref) /\ \A j \in 1 .. k - 1 : Precedes(s[j], s[k])
  <2>1. k \in DOMAIN g /\ s[k] = g[k]
    BY <1>8, <1>a DEF Undoes
  <2>2. ~IsDone(g[k].ref) /\ \A j \in 1 .. k - 1 : Precedes(g[j], g[k])
    BY <1>3, <1>a, <2>1 DEF GapPlan, UndoneFirst
  <2>3. \A j \in 1 .. k - 1 : s[j] = g[j]
    BY <1>6, <1>7, <2>1
  <2>4. QED
    BY <2>1, <2>2, <2>3
<1>b. UndoneFirst(s) /\ Resets(s)
  BY <1>a DEF UndoneFirst, Resets
<1>12. s[1].op # "purge"
  <2>1. 1 \in DOMAIN s
    BY <1>6, <1>7
  <2>2. \A k \in DOMAIN g : g[k].op = "purge" => k > 1
    BY <1>3 DEF GapPlan
  <2>3. QED
    BY <1>6, <1>8, <2>1, <2>2
<1>13. \A k \in DOMAIN s : k = Len(s) \/ s[k].op \in {"rollback", "purge", "update"}
  BY <1>3, <1>7, <1>8 DEF GapPlan
<1>14. \A k \in DOMAIN s : s[k].op = "purge" => \E i \in 2 .. Len(L) : s[k].ref = L[i] /\ s[k].base = L[i - 1]
  BY <1>3, <1>8 DEF GapPlan
<1>15. \A k, l \in DOMAIN s : s[k].op = "update" /\ s[l].op = "update" /\ s[k].ref = s[l].ref => k = l
  BY <1>3, <1>8 DEF GapPlan
<1>16. IsPlan(s)
  BY <1>7, <1>10, <1>11, <1>b DEF IsPlan
<1>17. RepairPlan(s, list)
  BY <1>1, <1>4, <1>7, <1>13, <1>14, <1>15 DEF RepairPlan
<1>18. ASSUME NEW i \in DOMAIN L, Missing(L, i) PROVE InPlan(s, L[i])
  <2>1. PICK k \in DOMAIN g : Is(g[k], "update", L[i])
    BY <1>3, <1>6, <1>18 DEF GapPlan
  <2>2. QED
    BY <1>9, <2>1 DEF InPlan
<1>19. ASSUME NEW i \in DOMAIN L, InPlan(s, L[i]) PROVE Planned(L, i)
  <2>1. PICK k \in DOMAIN s : Is(s[k], "update", L[i])
    BY <1>19 DEF InPlan
  <2>2. k \in DOMAIN g /\ g[k].op = "update" /\ g[k].ref = L[i]
    BY <1>8, <2>1 DEF Is
  <2>3. PICK j \in 1 .. Len(L) : L[i] = L[j] /\ Planned(L, j)
    BY <1>3, <2>2 DEF GapPlan
  <2>4. i = j
    BY <1>2, <1>6, <2>3 DEF Ordered, IsInjective
  <2>5. QED
    BY <2>3, <2>4
<1>20. QED
  BY <1>1, <1>5, <1>12, <1>16, <1>17, <1>18, <1>19, <1>b

(***************************************************************************)
(* The other plans.                                                        *)
(***************************************************************************)
LEMMA LeastOf ==
    ASSUME NEW T \in SUBSET Nat, T # {}
    PROVE  Min(T) \in T /\ \A y \in T : Min(T) <= y
<1>1. PICK t \in T : \A y \in T : ~(y < t)
  BY LeastNumber
<1>2. \A y \in T : t <= y
  BY <1>1
<1>3. QED
  BY <1>2 DEF Min

\* What follows a plan: nothing that has to be first.
Follows(t, s) ==
    /\ t # << >> => (t[1].op = "purge" => s # << >> /\ Is(s[Len(s)], "update", t[1].base))
    /\ \A i \in DOMAIN t : ~Undoes(t[i])

LEMMA PlansJoin ==
    ASSUME NEW s, NEW t, IsPlan(s), IsPlan(t), Follows(t, s), s # << >>
    PROVE  IsPlan(s \o t) /\ s \o t # << >> /\ (s \o t)[1] = s[1] /\ (Resets(s) => Resets(s \o t))
<1>1. PICK u, m : u = s \o t /\ m = Len(s)
  OBVIOUS
<1>2. s \in Seq(AllTasks) /\ t \in Seq(AllTasks) /\ m \in Nat /\ m >= 1 /\ DOMAIN s = 1..m
      /\ DOMAIN t = 1..Len(t) /\ Len(t) \in Nat
  BY <1>1 DEF IsPlan
<1>3. /\ u \in Seq(AllTasks) /\ Len(u) = m + Len(t)
      /\ \A i \in 1 .. m + Len(t) : u[i] = IF i <= m THEN s[i] ELSE t[i - m]
  BY <1>1, <1>2, ConcatProperties
<1>4. DOMAIN u = 1 .. m + Len(t)
  BY <1>2, <1>3
<1>5. \A i \in DOMAIN s : i \in DOMAIN u /\ u[i] = s[i]
  BY <1>2, <1>3, <1>4
<1>6. \A j \in DOMAIN t : m + j \in DOMAIN u /\ u[m + j] = t[j]
  <2> TAKE j \in DOMAIN t
  <2>1. PICK l : l = m + j
    OBVIOUS
  <2>2. l \in 1 .. m + Len(t) /\ ~(l <= m) /\ l - m = j
    BY <1>2, <2>1
  <2>3. u[l] = t[l - m]
    BY <1>3, <2>2
  <2>4. u[l] = t[j]
    BY <2>2, <2>3, Zenon
  <2>5. QED
    BY <1>4, <2>1, <2>2, <2>4
<1>7. ASSUME NEW i \in DOMAIN u, i \notin DOMAIN s
      PROVE  \E j \in DOMAIN t : i = m + j
  <2>1. i - m \in DOMAIN t /\ i = m + (i - m)
    BY <1>2, <1>4, <1>7
  <2>2. QED
    BY <2>1
<1>8. Links(u)
  <2> SUFFICES ASSUME NEW i \in DOMAIN u, u[i].op = "purge"
               PROVE  /\ i > 1 => Is(u[i - 1], "update", u[i].base)
                      /\ i + 1 \in DOMAIN u /\ Is(u[i + 1], "update", u[i].ref)
    BY DEF Links
  <2>1. CASE i \in DOMAIN s
    <3>1. u[i] = s[i]
      BY <1>5, <2>1
    <3>2. /\ i > 1 => Is(s[i - 1], "update", s[i].base)
          /\ i + 1 \in DOMAIN s /\ Is(s[i + 1], "update", s[i].ref)
      BY <2>1, <3>1 DEF IsPlan, Links
    <3>3. i > 1 => i - 1 \in DOMAIN s
      BY <1>2, <2>1
    <3>4. QED
      BY <1>5, <3>1, <3>2, <3>3
  <2>2. CASE i \notin DOMAIN s
    <3>1. PICK j \in DOMAIN t : i = m + j
      BY <1>7, <2>2
    <3>2. u[i] = t[j] /\ t[j].op = "purge"
      BY <1>6, <3>1
    <3>3. j + 1 \in DOMAIN t /\ Is(t[j + 1], "update", t[j].ref)
      BY <3>2 DEF IsPlan, Links
    <3>4. i + 1 \in DOMAIN u /\ u[i + 1] = t[j + 1]
      <4>1. m + (j + 1) \in DOMAIN u /\ u[m + (j + 1)] = t[j + 1]
        BY <1>6, <3>3
      <4>2. m + (j + 1) = i + 1
        BY <1>2, <3>1
      <4>3. QED
        BY <4>1, <4>2, Zenon
    <3>5. CASE j = 1
      <4>1. t # << >> /\ Is(s[m], "update", t[1].base)
        BY <1>1, <1>2, <3>2, <3>5 DEF Follows
      <4>2. i - 1 = m /\ m \in DOMAIN s /\ u[m] = s[m]
        BY <1>2, <1>5, <3>1, <3>5
      <4>3. QED
        BY <3>2, <3>3, <3>4, <3>5, <4>1, <4>2
    <3>6. CASE j # 1
      <4>1. PICK l : l = j - 1
        OBVIOUS
      <4>2. l \in DOMAIN t /\ j > 1 /\ m + l = i - 1
        BY <1>2, <3>1, <3>6, <4>1
      <4>3. Is(t[j - 1], "update", t[j].base)
        BY <3>2, <4>2 DEF IsPlan, Links
      <4>4. u[m + l] = t[l]
        BY <1>6, <4>2
      <4>5. u[i - 1] = t[j - 1]
        BY <4>1, <4>2, <4>4, Zenon
      <4>6. QED
        BY <3>2, <3>3, <3>4, <4>3, <4>5
    <3>7. QED
      BY <3>5, <3>6
  <2>3. QED
    BY <2>1, <2>2
<1>9. Covers(u)
  <2> SUFFICES ASSUME NEW i \in DOMAIN u
               PROVE  u[i].op = "update" => u[i].ref \in Tags \/ u[i].base = NoRef
    BY DEF Covers
  <2>1. CASE i \in DOMAIN s
    BY <1>5, <2>1 DEF IsPlan, Covers
  <2>2. CASE i \notin DOMAIN s
    <3>1. PICK j \in DOMAIN t : i = m + j
      BY <1>7, <2>2
    <3>2. u[i] = t[j]
      BY <1>6, <3>1
    <3>3. t[j].op = "update" => t[j].ref \in Tags \/ t[j].base = NoRef
      BY DEF IsPlan, Covers
    <3>4. QED
      BY <3>2, <3>3
  <2>3. QED
    BY <2>1, <2>2
<1>10. u # << >> /\ u[1] = s[1]
  <2>1. 1 \in DOMAIN s
    BY <1>2
  <2>2. QED
    BY <1>2, <1>3, <1>5, <2>1
<1>a. ASSUME NEW i \in DOMAIN u, Undoes(u[i])
      PROVE  i \in DOMAIN s /\ u[i] = s[i] /\ \A j \in 1 .. i - 1 : Precedes(u[j], u[i])
  <2>1. i \in DOMAIN s
    <3>1. ASSUME i \notin DOMAIN s PROVE FALSE
      <4>1. PICK j \in DOMAIN t : i = m + j
        BY <1>7, <3>1
      <4>2. u[i] = t[j]
        BY <1>6, <4>1
      <4>3. QED
        BY <1>a, <4>2 DEF Follows
    <3>2. QED
      BY <3>1
  <2>2. u[i] = s[i] /\ \A j \in 1 .. i - 1 : j \in DOMAIN s /\ u[j] = s[j]
    BY <1>2, <1>5, <2>1
  <2>3. \A j \in 1 .. i - 1 : Precedes(s[j], s[i])
    BY <1>a, <2>1, <2>2 DEF IsPlan, UndoneFirst
  <2>4. QED
    BY <2>1, <2>2, <2>3
<1>b. UndoneFirst(u)
  BY <1>a DEF UndoneFirst
<1>c. Resets(s) => Resets(u)
  BY <1>a DEF Resets
<1>11. QED
  BY <1>1, <1>3, <1>8, <1>9, <1>10, <1>b, <1>c DEF IsPlan

\* A plan of one task.
LEMMA OneTask ==
    ASSUME NEW t \in Plain, t.op # "purge", t.op = "update" => t.ref \in Tags \/ t.base = NoRef
    PROVE  IsPlan(<<t>>) /\ <<t>> # << >> /\ <<t>>[1] = t /\ Len(<<t>>) = 1
<1>1. PICK s : s = <<t>>
  OBVIOUS
<1>2. s \in Seq(AllTasks) /\ Len(s) = 1 /\ DOMAIN s = {1} /\ s[1] = t /\ s # << >>
  BY <1>1 DEF AllTasks
<1>3. Links(s) /\ Covers(s) /\ UndoneFirst(s)
  BY <1>2 DEF Links, Covers, UndoneFirst
<1>4. QED
  BY <1>1, <1>2, <1>3 DEF IsPlan

LEMMA RealignIsPlan ==
    ASSUME NEW r \in Tags, NEW b \in Refs
    PROVE  /\ IsPlan(Realign(r, b)) /\ Realign(r, b) \in Seq(Plain) /\ Len(Realign(r, b)) = 2
           /\ Is(Realign(r, b)[1], "purge", r) /\ Realign(r, b)[1].base = b
           /\ \A i \in DOMAIN Realign(r, b) : ~Undoes(Realign(r, b)[i])
<1>1. r \in Refs /\ b \in Bases
  BY PipelineAssumptions DEF Bases
<1>2. PICK p, u, s : p = Task("purge", r, b) /\ u = Task("update", r, b) /\ s = <<p>> \o <<u>>
  OBVIOUS
<1>3. /\ p \in Plain /\ p.op = "purge" /\ p.ref = r /\ p.base = b
      /\ u \in Plain /\ u.op = "update" /\ u.ref = r /\ u.base = b
  BY <1>1, <1>2, TaskTypes
<1>4. Realign(r, b) = s
  BY <1>2 DEF Realign, Update
<1>5. s \in Seq(Plain) /\ Len(s) = 2 /\ s[1] = p /\ s[2] = u
  BY <1>2, <1>3, Short
<1>6. s \in Seq(AllTasks) /\ DOMAIN s = {1, 2}
  BY <1>5 DEF AllTasks
<1>7. Links(s)
  BY <1>3, <1>5, <1>6 DEF Links, Is
<1>8. Covers(s)
  BY <1>3, <1>5, <1>6 DEF Covers
<1>a. \A i \in DOMAIN s : ~Undoes(s[i])
  BY <1>3, <1>5, <1>6 DEF Undoes
<1>b. UndoneFirst(s)
  BY <1>a DEF UndoneFirst
<1>9. QED
  BY <1>3, <1>4, <1>5, <1>6, <1>7, <1>8, <1>a, <1>b DEF IsPlan, Is

\* What an operator starts with a plan: no scan after it, no purge first.
IsStart(s) == IsPlan(s) /\ s \in Seq(Plain) /\ (s # << >> => s[1].op # "purge") /\ Resets(s)

LEMMA StartsJoin ==
    ASSUME NEW s, NEW t, IsStart(s), IsPlan(t), t \in Seq(Plain), Follows(t, s), s # << >>
    PROVE  IsStart(s \o t) /\ s \o t # << >> /\ (s \o t)[1] = s[1]
<1>1. IsPlan(s \o t) /\ s \o t # << >> /\ (s \o t)[1] = s[1] /\ Resets(s \o t)
  BY PlansJoin DEF IsStart
<1>2. s \o t \in Seq(Plain)
  BY ConcatProperties DEF IsStart
<1>3. QED
  BY <1>1, <1>2 DEF IsStart

LEMMA BackfillIsPlan ==
    ASSUME refs \subseteq Refs, NEW list, Ordered(list), NEW i \in DOMAIN list
    PROVE  IsStart(BackfillTasks(list, i))
<1>1. /\ DOMAIN list = 1 .. Len(list) /\ Len(list) \in Nat /\ \A j \in DOMAIN list : list[j] \in Refs
      /\ \A j \in 2 .. Len(list) : list[j] \in Tags
  BY DEF Ordered
<1>2. PICK r, b, u, later :
         /\ r = list[i] /\ b = (IF Before(list, i) \in refs THEN Before(list, i) ELSE NoRef)
         /\ u = Task("update", r, b) /\ later = {j \in i + 1 .. Len(list) : IsDone(list[j])}
  OBVIOUS
<1>3. r \in Refs /\ b \in Bases /\ (i > 1 => r \in Tags) /\ (~(i > 1) => b = NoRef)
  BY <1>1, <1>2, PipelineAssumptions DEF Bases, Before
<1>4. u \in Plain /\ u.op = "update" /\ u.ref = r /\ (u.ref \in Tags \/ u.base = NoRef)
  BY <1>2, <1>3, TaskTypes
<1>5. PICK us : us = <<u>>
  OBVIOUS
<1>6. IsPlan(us) /\ us # << >> /\ us[1] = u /\ Len(us) = 1 /\ us \in Seq(Plain)
  BY <1>4, <1>5, OneTask
<1>7. PICK s : s = RolledBackFirst(r) \o us
  OBVIOUS
<1>a. DOMAIN us = {1} /\ ~Undoes(us[1]) /\ \A k \in DOMAIN us : ~Undoes(us[k])
  BY <1>4, <1>5, <1>6 DEF Undoes
<1>8. IsStart(s) /\ s # << >> /\ Is(s[Len(s)], "update", r)
  <2>1. CASE StateOf(r) = "interrupted"
    <3>1. PICK d, ds : d = Task("rollback", r, NoRef) /\ ds = <<d>>
      OBVIOUS
    <3>2. d \in Plain /\ d.op = "rollback" /\ d.ref = r /\ ~IsDone(r)
      BY <1>3, <2>1, <3>1, TaskTypes DEF Bases, IsDone
    <3>3. IsPlan(ds) /\ ds # << >> /\ ds[1] = d /\ ds \in Seq(Plain) /\ Len(ds) = 1
      BY <3>1, <3>2, OneTask
    <3>4. s = ds \o us
      BY <1>7, <2>1, <3>1 DEF RolledBackFirst
    <3>a. DOMAIN ds = {1}
      BY <3>1
    <3>5. Follows(us, ds) /\ IsStart(ds)
      BY <1>4, <1>6, <1>a, <3>2, <3>3, <3>a DEF Follows, IsStart, Resets
    <3>6. IsStart(s) /\ s # << >> /\ s[1] = d
      BY <1>6, <3>3, <3>4, <3>5, StartsJoin
    <3>7. Len(s) = 2 /\ s[2] = u
      <4>1. s = <<d>> \o <<u>>
        BY <1>5, <3>1, <3>4
      <4>2. QED
        BY <1>4, <3>2, <4>1, Short
    <3>8. QED
      BY <1>4, <3>2, <3>6, <3>7 DEF Is
  <2>2. CASE StateOf(r) # "interrupted"
    <3>1. s = us
      BY <1>6, <1>7, <2>2 DEF RolledBackFirst
    <3>2. QED
      BY <1>4, <1>6, <1>a, <3>1 DEF IsStart, Is, Resets
  <2>3. QED
    BY <2>1, <2>2
<1>9. BackfillTasks(list, i) = s \o IF later = {} THEN << >> ELSE Realign(list[Min(later)], list[i])
  BY <1>2, <1>5, <1>7 DEF BackfillTasks, Update
<1>10. CASE later = {}
  <2>1. s \o << >> = s
    BY <1>8 DEF IsStart
  <2>2. QED
    BY <1>8, <1>9, <1>10, <2>1
<1>11. CASE later # {}
  <2>1. later \in SUBSET Nat
    BY <1>1, <1>2
  <2>2. PICK j : j = Min(later)
    OBVIOUS
  <2>3. j \in later
    BY <1>11, <2>1, <2>2, LeastOf
  <2>4. j \in 2 .. Len(list) /\ list[j] \in Tags
    BY <1>1, <1>2, <2>3
  <2>5. PICK t : t = Realign(list[j], r)
    OBVIOUS
  <2>6. /\ IsPlan(t) /\ t \in Seq(Plain) /\ Len(t) = 2 /\ Is(t[1], "purge", list[j]) /\ t[1].base = r
        /\ \A k \in DOMAIN t : ~Undoes(t[k])
    BY <1>3, <2>4, <2>5, RealignIsPlan
  <2>7. Follows(t, s)
    BY <1>8, <2>6 DEF Follows, Is
  <2>8. IsStart(s \o t) /\ (s \o t)[1] = s[1]
    BY <1>8, <2>6, <2>7, StartsJoin
  <2>9. BackfillTasks(list, i) = s \o t
    BY <1>2, <1>9, <1>11, <2>2, <2>5
  <2>10. QED
    BY <1>8, <2>8, <2>9
<1>12. QED
  BY <1>10, <1>11

\* What is left of the list after a scan.
LEMMA RestIsPlan ==
    ASSUME NEW list \in ReleaseLists
    PROVE  IsStart(Rest(list))
<1>1. /\ list \in Seq(Refs) /\ DOMAIN list = 1 .. Len(list) /\ Len(list) \in Nat
      /\ \A j \in DOMAIN list : list[j] \in Refs
  BY PipelineAssumptions
<1>2. PICK open, i : open = {j \in DOMAIN list : ~IsDone(list[j])} /\ i = Min(open)
  OBVIOUS
<1>3. CASE open = {}
  <2>1. Rest(list) = << >>
    BY <1>2, <1>3 DEF Rest
  <2>2. IsStart(<< >>)
    BY DEF IsStart, IsPlan, Links, Covers, UndoneFirst, Resets
  <2>3. QED
    BY <2>1, <2>2
<1>4. CASE open # {}
  <2>1. open \in SUBSET Nat
    BY <1>1, <1>2
  <2>2. i \in open
    BY <1>2, <1>4, <2>1, LeastOf
  <2>3. i \in DOMAIN list /\ i \in Nat /\ i >= 1 /\ list[i] \in Refs /\ ~IsDone(list[i])
    BY <1>1, <1>2, <2>2
  <2> DEFINE Base(k) == IF k = 1 THEN Before(list, i) ELSE NoRef
             m == Len(list) - i + 1
             n == [k \in 1 .. m |-> Task("next", list[i + k - 1], Base(k))]
  <2>4. m \in Nat /\ m >= 1
    BY <1>1, <2>3
  <2>5. ASSUME NEW k \in 1 .. m
        PROVE  /\ i + k - 1 \in DOMAIN list /\ Base(k) \in Bases
               /\ n[k] = Task("next", list[i + k - 1], Base(k))
               /\ n[k] \in Plain /\ n[k].op = "next" /\ n[k].ref = list[i + k - 1]
    <3>1. i + k - 1 \in DOMAIN list /\ list[i + k - 1] \in Refs
      BY <1>1, <2>3, <2>5
    <3>2. Base(k) \in Bases
      <4>1. i > 1 => i - 1 \in DOMAIN list
        BY <1>1, <2>3
      <4>2. QED
        BY <1>1, <4>1 DEF Before, Bases
    <3>3. PICK b, r : b = Base(k) /\ r = list[i + k - 1]
      OBVIOUS
    <3>4. n[k] = Task("next", r, b)
      BY <3>3
    <3>5. QED
      BY <3>1, <3>2, <3>3, <3>4, TaskTypes
  <2> HIDE DEF n
  <2>6. n \in Seq(Plain) /\ Len(n) = m /\ DOMAIN n = 1 .. m /\ n # << >>
    <3>1. n = [k \in 1 .. m |-> n[k]]
      BY DEF n
    <3> HIDE DEF m
    <3>2. QED
      BY <2>4, <2>5, <3>1
  <2>7. n \in Seq(AllTasks)
    BY <2>6 DEF AllTasks
  <2>8. Links(n)
    BY <2>5, <2>6 DEF Links
  <2>9. Covers(n)
    BY <2>5, <2>6 DEF Covers
  <2>a. \A k \in DOMAIN n : ~Undoes(n[k])
    BY <2>5, <2>6 DEF Undoes
  <2>10. IsPlan(n) /\ Resets(n)
    BY <2>7, <2>8, <2>9, <2>a DEF IsPlan, UndoneFirst, Resets
  <2>11. n[1].op = "next"
    <3>1. 1 \in 1 .. m
      BY <2>4
    <3>2. QED
      BY <2>5, <3>1
  <2>12. PICK undo : undo = IF i = 1 THEN << >>
                            ELSE IF StateOf(list[i]) = "legacy_partial" THEN <<Task("partial", list[i], NoRef)>>
                            ELSE RolledBackFirst(list[i])
    OBVIOUS
  <2>13. Rest(list) = undo \o n
    BY <1>2, <1>4, <2>12 DEF Rest, n
  <2>14. undo = << >> \/ \E t \in Plain : t.op \in {"partial", "rollback"} /\ undo = <<t>> /\ ~IsDone(t.ref)
    <3>1. PICK a, b : a = Task("partial", list[i], NoRef) /\ b = Task("rollback", list[i], NoRef)
      OBVIOUS
    <3>2. a \in Plain /\ a.op = "partial" /\ a.ref = list[i] /\ b \in Plain /\ b.op = "rollback" /\ b.ref = list[i]
      BY <2>3, <3>1, TaskTypes DEF Bases
    <3>3. undo = << >> \/ undo = <<a>> \/ undo = <<b>>
      BY <2>12, <3>1 DEF RolledBackFirst
    <3>4. QED
      BY <2>3, <3>2, <3>3
  <2>15. CASE undo = << >>
    <3>1. Rest(list) = n
      BY <2>6, <2>13, <2>15
    <3>2. IsStart(n)
      BY <2>6, <2>10, <2>11 DEF IsStart
    <3>3. QED
      BY <3>1, <3>2
  <2>16. CASE \E t \in Plain : t.op \in {"partial", "rollback"} /\ undo = <<t>> /\ ~IsDone(t.ref)
    <3>1. PICK t \in Plain : t.op \in {"partial", "rollback"} /\ undo = <<t>> /\ ~IsDone(t.ref)
      BY <2>16
    <3>2. IsPlan(undo) /\ undo # << >> /\ undo[1] = t /\ Len(undo) = 1 /\ undo \in Seq(Plain)
      BY <3>1, OneTask
    <3>3. IsStart(undo)
      <4>1. DOMAIN undo = {1}
        BY <3>1
      <4>2. QED
        BY <3>1, <3>2, <4>1 DEF IsStart, Resets
    <3>4. Follows(n, undo)
      BY <2>11, <2>a DEF Follows
    <3>5. IsStart(undo \o n)
      BY <2>6, <2>10, <3>2, <3>3, <3>4, StartsJoin
    <3>6. QED
      BY <2>13, <3>5
  <2>17. QED
    BY <2>14, <2>15, <2>16
<1>5. QED
  BY <1>3, <1>4

\* The branches that are left.
LEMMA BranchesArePlan ==
    ASSUME NEW list \in BranchLists, NEW S
    PROVE  LET open == Those(list, S)
               s    == [i \in DOMAIN open |-> Task("branch", open[i], NoRef)]
           IN IsStart(s)
<1>1. PICK open : open = Those(list, S)
  OBVIOUS
<1>2. open \in Seq(Refs) /\ DOMAIN open = 1 .. Len(open) /\ Len(open) \in Nat /\ \A i \in DOMAIN open : open[i] \in Refs
  BY <1>1, ThoseOf, PipelineAssumptions
<1>3. PICK s : s = [i \in DOMAIN open |-> Task("branch", open[i], NoRef)]
  OBVIOUS
<1>4. \A i \in DOMAIN open : Task("branch", open[i], NoRef) \in Plain /\ Task("branch", open[i], NoRef).op = "branch"
  BY <1>2, TaskTypes DEF Bases
<1>5. s \in Seq(Plain) /\ DOMAIN s = 1 .. Len(open) /\ \A i \in DOMAIN s : s[i].op = "branch"
  BY <1>2, <1>3, <1>4
<1>6. s \in Seq(AllTasks)
  BY <1>5 DEF AllTasks
<1>7. Links(s) /\ Covers(s) /\ UndoneFirst(s) /\ Resets(s)
  BY <1>5 DEF Links, Covers, UndoneFirst, Resets, Undoes
<1>8. s # << >> => 1 \in DOMAIN s
  BY <1>5
<1>9. QED
  BY <1>1, <1>3, <1>5, <1>6, <1>7, <1>8 DEF IsStart, IsPlan

-----------------------------------------------------------------------------
(***************************************************************************)
(* What holds in every state.                                              *)
(***************************************************************************)
Extents == {"none", "part", "most", "whole"}
States == {"none", "parsing", "done"}

Types ==
    /\ commits \in Seq(Refs) /\ refs \subseteq Refs
    /\ status \in [Refs -> States] /\ rows \in [Refs -> Extents]
    /\ baseOf \in [Refs -> Bases] /\ mark \in [Refs -> Nat]
    /\ above \in [Refs -> SUBSET Refs] /\ disturbed \subseteq Refs
    /\ vid \in Bases /\ old \in Bases /\ realigned \subseteq Refs
    /\ pc \in {"down", "task", "check", "begin", "parse"}

\* Only registered references have states, and their commits have rows.
Registered ==
    /\ \A r \in Refs : status[r] # "none" => r \in refs
    /\ refs \subseteq ToSet(commits)

\* Where a process stands in its plan.
Progress ==
    /\ IsPlan(tasks)
    /\ pc = "down" => tasks = << >> /\ realigned = {} /\ ~expired
    /\ pc \in {"check", "begin", "parse"} => tasks # << >> /\ Head(tasks).op \in {"update", "next", "branch"}
    /\ pc = "task" /\ tasks # << >> /\ Head(tasks).op = "purge" => vid = Head(tasks).base
    /\ pc = "parse" => vid = Current /\ status[Current] = "parsing"

\* begin() finds a finished version only behind two others, and if it is no tag.
NotAgain == pc = "begin" => status[Current] # "done" \/ ~IsCheckpoint(Current)

\* What is still to be undone is not finished.
Unfinished == \A k \in DOMAIN tasks : Undoes(tasks[k]) => status[tasks[k].ref] # "done"

PlanInv == Types /\ Registered /\ Progress /\ NotAgain /\ Unfinished

(***************************************************************************)
(* Operators of the model.                                                 *)
(***************************************************************************)
\* A reference is done when its state row says so, or without one when its
\* rows do.
LEMMA DoneFacts ==
    ASSUME NEW r \in Refs, Types
    PROVE  /\ PreviousIngest(r) = "done" <=> status[r] = "done" \/ (status[r] = "none" /\ rows[r] \in {"most", "whole"})
           /\ IsDone(r) <=> r \in refs /\ PreviousIngest(r) = "done"
           /\ PreviousIngest(r) = "interrupted" => status[r] = "parsing"
           /\ PreviousIngest(r) = "legacy_partial" => status[r] = "none"
           /\ IsDone(r) /\ Registered => r \in ToSet(commits)
<1>1. status[r] \in States /\ rows[r] \in Extents
  BY DEF Types
<1>2. /\ PreviousIngest(r) = "done" <=> status[r] = "done" \/ (status[r] = "none" /\ rows[r] \in {"most", "whole"})
      /\ PreviousIngest(r) = "interrupted" => status[r] = "parsing"
      /\ PreviousIngest(r) = "legacy_partial" => status[r] = "none"
  BY <1>1 DEF PreviousIngest, States, Extents
<1>3. IsDone(r) <=> r \in refs /\ PreviousIngest(r) = "done"
  BY DEF IsDone, StateOf
<1>4. QED
  BY <1>2, <1>3 DEF Registered

\* The same in terms of the rows of the tables.
LEMMA DoneNext ==
    ASSUME NEW r \in Refs, Types, Types'
    PROVE  /\ IsDone(r) <=> r \in refs /\ (status[r] = "done" \/ (status[r] = "none" /\ rows[r] \in {"most", "whole"}))
           /\ IsDone(r)' <=> r \in refs' /\ (status'[r] = "done" \/ (status'[r] = "none" /\ rows'[r] \in {"most", "whole"}))
           /\ PreviousIngest(r)' = "done" <=> status'[r] = "done" \/ (status'[r] = "none" /\ rows'[r] \in {"most", "whole"})
<1>1. status'[r] \in States /\ rows'[r] \in Extents
  BY DEF Types
<1>2. PreviousIngest(r)' = "done" <=> status'[r] = "done" \/ (status'[r] = "none" /\ rows'[r] \in {"most", "whole"})
  BY <1>1 DEF PreviousIngest, States, Extents
<1>3. IsDone(r)' <=> r \in refs' /\ PreviousIngest(r)' = "done"
  BY DEF IsDone, StateOf
<1>4. QED
  BY <1>2, <1>3, DoneFacts

\* Resolving legacy versions changes no version that is done, and none that is not.
Resolves(resolved) ==
    /\ WithStatesOf(resolved) \in [Refs -> States]
    /\ \A r \in Refs :
          /\ status[r] = "done" => WithStatesOf(resolved)[r] = "done"
          /\ ~IsDone(r) => WithStatesOf(resolved)[r] = status[r]
          /\ r \in resolved /\ IsDone(r) => WithStatesOf(resolved)[r] = "done"

LEMMA WithStatesFacts ==
    ASSUME Types, NEW resolved
    PROVE  Resolves(resolved)
<1>1. status \in [Refs -> States]
  BY DEF Types
<1>2. PICK w : w = WithStatesOf(resolved)
  OBVIOUS
<1>3. w = [r \in Refs |-> IF r \in resolved /\ IsDone(r) THEN "done" ELSE status[r]]
  BY <1>2 DEF WithStatesOf
<1>4. /\ w \in [Refs -> States]
      /\ \A r \in Refs : w[r] = IF r \in resolved /\ IsDone(r) THEN "done" ELSE status[r]
  BY <1>1, <1>3 DEF States
<1>5. QED
  BY <1>2, <1>4 DEF Resolves

\* A step that only decides legacy versions.
LEMMA Decides ==
    ASSUME PlanInv, NEW resolved, status' = WithStatesOf(resolved), UNCHANGED <<commits, refs>>
    PROVE  /\ status' \in [Refs -> States] /\ Registered'
           /\ \A r \in Refs : ~IsDone(r) => status'[r] = status[r] /\ status[r] # "done"
           /\ \A r \in Refs : status[r] = "done" => status'[r] = "done"
<1>1. Types /\ Registered
  BY DEF PlanInv
<1>2. Resolves(resolved)
  BY <1>1, WithStatesFacts
<1>3. \A r \in Refs : status[r] = "done" => IsDone(r)
  BY <1>1, DoneFacts DEF Registered, Types, States
<1>4. \A r \in Refs : ~IsDone(r) => status'[r] = status[r] /\ status[r] # "done"
  BY <1>2, <1>3 DEF Resolves
<1>5. \A r \in Refs : IsDone(r) => r \in refs
  BY <1>1, DoneFacts
<1>6. Registered'
  <2>1. \A r \in Refs : status'[r] # "none" => r \in refs'
    BY <1>1, <1>4, <1>5 DEF Registered
  <2>2. refs' \subseteq ToSet(commits')
    BY <1>1 DEF Registered
  <2>3. QED
    BY <2>1, <2>2 DEF Registered
<1>7. QED
  BY <1>2, <1>4, <1>6 DEF Resolves

\* A step that undoes versions: what is done stays so, and so do the bases.
Keeps ==
    /\ commits' \in Seq(Refs) /\ refs' \subseteq refs
    /\ status' \in [Refs -> States] /\ rows' \in [Refs -> Extents]
    /\ mark' \in [Refs -> Nat] /\ above' \in [Refs -> SUBSET Refs] /\ disturbed' \subseteq Refs
    /\ baseOf' = baseOf
    /\ Registered => Registered'
    /\ \A r \in Refs : status[r] = "done" <=> status'[r] = "done"
    /\ \A r \in Refs : status[r] = "done" /\ r \in refs => r \in refs'
    /\ \A r \in refs' : status'[r] = status[r]
    /\ \A r \in Refs : rows'[r] \in {rows[r], "none", "part"}

\* Only what has just been undone may have lost its rows, and what was begun
\* after its marks.
Loses(r, s) ==
    rows'[s] # rows[s] => s = r \/ (s \in above[r] /\ \E i \in 1 .. mark[r] : commits[i] = s)

LEMMA PurgeKeeps ==
    ASSUME Types, NEW r \in Refs, Purge(r), UNCHANGED baseOf,
           mark' \in [Refs -> Nat], above' \in [Refs -> SUBSET Refs], disturbed' \subseteq Refs
    PROVE  Keeps /\ rows'[r] = "none" /\ \A s \in Refs : Loses(r, s)
<1>1. /\ status' = status /\ commits' = commits /\ refs' = refs /\ baseOf' = baseOf
      /\ rows' = [rows EXCEPT ![r] = "none"]
  BY DEF Purge
<1>2. /\ rows \in [Refs -> Extents] /\ commits \in Seq(Refs) /\ refs \subseteq Refs
      /\ status \in [Refs -> States]
  BY DEF Types
<1>3. rows' \in [Refs -> Extents] /\ \A s \in Refs : rows'[s] = IF s = r THEN "none" ELSE rows[s]
  BY <1>1, <1>2 DEF Extents
<1>4. Registered => Registered'
  BY <1>1 DEF Registered
<1>5. QED
  BY <1>1, <1>2, <1>3, <1>4 DEF Keeps, Loses

LEMMA DeleteKeeps ==
    ASSUME Types, Registered, NEW r \in Refs, DeleteAbove(r), ~CompletedAfter(r), UNCHANGED baseOf
    PROVE  Keeps /\ rows'[r] = "none" /\ \A s \in Refs : status[s] = "done" => Loses(r, s)
<1>1. /\ rows \in [Refs -> Extents] /\ commits \in Seq(Refs) /\ refs \subseteq Refs
      /\ status \in [Refs -> States] /\ mark \in [Refs -> Nat]
      /\ above \in [Refs -> SUBSET Refs] /\ disturbed \subseteq Refs
  BY DEF Types
<1>2. Len(History) \in Nat /\ NoMarks \in Nat
  BY PipelineAssumptions DEF NoMarks
<1>3. PICK m, n, later, gone : /\ m = mark[r] /\ n = Len(commits)
                               /\ later = SubSeq(commits, m + 1, n) /\ gone = ToSet(later)
  OBVIOUS
<1>4. /\ commits' = SubSeq(commits, 1, Min({m, n}))
      /\ refs' = refs \ gone
      /\ status' = [s \in Refs |-> IF s \in gone THEN "none" ELSE status[s]]
      /\ \E cut \in SUBSET above[r] :
            rows' = [s \in Refs |-> IF s = r THEN "none"
                                    ELSE IF s \in cut /\ rows[s] # "none" THEN "part" ELSE rows[s]]
      /\ mark' = [mark EXCEPT ![r] = NoMarks]
      /\ above' = [s \in Refs |-> IF s \in above[r] \cup {r} THEN {} ELSE above[s]]
      /\ disturbed' = (disturbed \cup above[r]) \ {r}
  BY <1>3 DEF DeleteAbove
<1>5. m \in Nat /\ n \in Nat /\ DOMAIN commits = 1..n
  BY <1>1, <1>3
<1>6. PICK k : k = Min({m, n})
  OBVIOUS
<1>7. k \in {m, n} /\ k <= n /\ k <= m /\ k \in Nat
  <2>1. PICK T : T = {m, n}
    OBVIOUS
  <2>2. T \in SUBSET Nat /\ T # {} /\ n \in T /\ m \in T
    BY <1>5, <2>1
  <2>3. Min(T) \in T /\ \A y \in T : Min(T) <= y
    BY <2>2, LeastOf
  <2>4. QED
    BY <1>5, <1>6, <2>1, <2>2, <2>3
<1>8. commits' = SubSeq(commits, 1, k)
  BY <1>4, <1>6
<1>9. commits' \in Seq(Refs) /\ Len(commits') = k /\ \A i \in 1 .. k : commits'[i] = commits[i]
  <2>1. \A j \in 1..k : commits[j] \in Refs
    BY <1>1, <1>5, <1>7
  <2>2. /\ commits' \in Seq(Refs)
        /\ Len(commits') = IF 1 <= k THEN k - 1 + 1 ELSE 0
        /\ \A i \in 1 .. k - 1 + 1 : commits'[i] = commits[1 + i - 1]
    BY <1>7, <1>8, <2>1, SubSeqProperties
  <2>3. k - 1 + 1 = k /\ (~(1 <= k) => k = 0) /\ \A i \in 1 .. k : 1 + i - 1 = i
    BY <1>7
  <2>4. QED
    BY <2>2, <2>3
\* The commits above the marks.
<1>10. DOMAIN later = 1 .. n - m /\ \A i \in 1 .. n - m : later[i] = commits[m + i]
  <2>1. \A i \in (m + 1) .. n : commits[i] \in Refs
    BY <1>1, <1>5
  <2>2. m + 1 \in Int /\ n \in Int
    BY <1>5
  <2>3. /\ later \in Seq(Refs)
        /\ Len(later) = IF m + 1 <= n THEN n - (m + 1) + 1 ELSE 0
        /\ \A i \in 1 .. n - (m + 1) + 1 : later[i] = commits[m + 1 + i - 1]
    BY <1>3, <2>1, <2>2, SubSeqProperties
  <2>4. n - (m + 1) + 1 = n - m /\ \A i \in 1 .. n - m : m + 1 + i - 1 = m + i
    BY <1>5
  <2>5. DOMAIN later = 1 .. n - m
    BY <1>5, <2>3
  <2>6. QED
    BY <2>3, <2>4, <2>5
<1>11. \A s \in gone : \E j \in DOMAIN commits : j > m /\ commits[j] = s
  <2> TAKE s \in gone
  <2>1. PICK i \in DOMAIN later : later[i] = s
    BY <1>3 DEF ToSet
  <2>2. i \in 1 .. n - m /\ s = commits[m + i]
    BY <1>10, <2>1
  <2>3. PICK j : j = m + i
    OBVIOUS
  <2>4. j \in DOMAIN commits /\ j > m /\ commits[j] = s
    BY <1>5, <2>2, <2>3
  <2>5. QED
    BY <2>4
<1>12. \A j \in DOMAIN commits : j > m => commits[j] \in gone
  <2> TAKE j \in DOMAIN commits
  <2> HAVE j > m
  <2>1. PICK i : i = j - m
    OBVIOUS
  <2>2. i \in DOMAIN later /\ later[i] = commits[m + i] /\ m + i = j
    BY <1>5, <1>10, <2>1
  <2>3. later[i] = commits[j]
    BY <2>2
  <2>4. QED
    BY <1>3, <2>2, <2>3 DEF ToSet
<1>13. ASSUME NEW s \in gone PROVE s \in Refs => status[s] # "done"
  <2>1. PICK j \in DOMAIN commits : j > m /\ commits[j] = s
    BY <1>11
  <2>2. QED
    BY <1>3, <2>1 DEF CompletedAfter
<1>14. PICK cut \in SUBSET above[r] :
          rows' = [s \in Refs |-> IF s = r THEN "none" ELSE IF s \in cut /\ rows[s] # "none" THEN "part" ELSE rows[s]]
  BY <1>4
<1>15. /\ rows' \in [Refs -> Extents]
       /\ \A s \in Refs : rows'[s] = IF s = r THEN "none" ELSE IF s \in cut /\ rows[s] # "none" THEN "part" ELSE rows[s]
  BY <1>1, <1>14 DEF Extents
<1>16. /\ status' \in [Refs -> States]
       /\ \A s \in Refs : status'[s] = IF s \in gone THEN "none" ELSE status[s]
  BY <1>1, <1>4 DEF States
<1>17. mark' \in [Refs -> Nat] /\ above' \in [Refs -> SUBSET Refs] /\ disturbed' \subseteq Refs
  BY <1>1, <1>2, <1>4
<1>18. refs' \subseteq refs /\ \A s : s \in refs' <=> s \in refs /\ s \notin gone
  BY <1>4
<1>19. Registered'
  <2>1. \A s \in Refs : status'[s] # "none" => s \in refs'
    BY <1>16, <1>18 DEF Registered
  <2>2. ASSUME NEW s \in refs' PROVE s \in ToSet(commits')
    <3>1. PICK i \in DOMAIN commits : commits[i] = s
      BY <1>18, <2>2 DEF Registered, ToSet
    <3>2. ~(i > m)
      BY <1>12, <1>18, <2>2, <3>1
    <3>3. i \in 1 .. k
      BY <1>5, <1>7, <3>1, <3>2
    <3>4. i \in DOMAIN commits' /\ commits'[i] = s
      BY <1>9, <3>1, <3>3
    <3>5. QED
      BY <3>4 DEF ToSet
  <2>3. QED
    BY <2>1, <2>2 DEF Registered
<1>20. \A s \in Refs : rows'[s] \in {rows[s], "none", "part"}
  BY <1>15
<1>21. \A s \in Refs : status[s] = "done" <=> status'[s] = "done"
  BY <1>13, <1>16
<1>22. \A s \in Refs : status[s] = "done" /\ s \in refs => s \in refs'
  BY <1>13, <1>18
<1>23. \A s \in refs' : status'[s] = status[s]
  BY <1>1, <1>16, <1>18
<1>24. Keeps
  BY <1>9, <1>15, <1>16, <1>17, <1>18, <1>19, <1>20, <1>21, <1>22, <1>23 DEF Keeps
<1>25. ASSUME NEW s \in Refs, status[s] = "done" PROVE Loses(r, s)
  <2> SUFFICES ASSUME rows'[s] # rows[s], s # r
               PROVE  s \in above[r] /\ \E i \in 1 .. mark[r] : commits[i] = s
    BY DEF Loses
  <2>1. s \in above[r]
    BY <1>15
  <2>2. PICK i \in DOMAIN commits : commits[i] = s
    BY <1>25 DEF Registered, ToSet
  <2>3. ~(i > m)
    BY <1>12, <1>13, <1>25, <2>2
  <2>4. i \in 1 .. mark[r]
    BY <1>3, <1>5, <2>2, <2>3
  <2>5. QED
    BY <2>1, <2>2, <2>4
<1>26. QED
  BY <1>15, <1>24, <1>25

LEMMA RollBackKeeps ==
    ASSUME Types, Registered, NEW r \in Refs, RollBack(r)
    PROVE  Keeps /\ rows'[r] = "none" /\ \A s \in Refs : status[s] = "done" => Loses(r, s)
<1>1. CASE HasUsableMarks(r)
  BY <1>1, DeleteKeeps DEF RollBack, HasUsableMarks
<1>2. CASE ~HasUsableMarks(r)
  <2>1. Purge(r) /\ DiscardMarks(r) /\ UNCHANGED baseOf
    BY <1>2 DEF RollBack
  <2>2. mark \in [Refs -> Nat] /\ above \in [Refs -> SUBSET Refs] /\ disturbed \subseteq Refs /\ NoMarks \in Nat
    BY PipelineAssumptions DEF Types, NoMarks
  <2>3. mark' \in [Refs -> Nat] /\ above' \in [Refs -> SUBSET Refs] /\ disturbed' \subseteq Refs
    BY <2>1, <2>2 DEF DiscardMarks
  <2>4. QED
    BY <2>1, <2>3, PurgeKeeps
<1>3. QED
  BY <1>1, <1>2

(***************************************************************************)
(* The head of the plan, and what is left when it is done.                 *)
(***************************************************************************)
HeadTask(s) ==
    /\ s[1] \in AllTasks /\ Head(s) = s[1]
    /\ s[1].op # "scan" => s[1].ref \in Refs /\ s[1].base \in Bases
    /\ s[1].op = "scan" => s[1].list \in ReleaseLists
    /\ s[1].op = "update" => s[1].ref \in Tags \/ s[1].base = NoRef

LEMMA HeadFacts ==
    ASSUME NEW s, IsPlan(s), s # << >>
    PROVE  HeadTask(s)
<1>1. s \in Seq(AllTasks) /\ 1 \in DOMAIN s /\ Head(s) = s[1] /\ s[1] \in AllTasks
  BY DEF IsPlan
<1>2. s[1].op = "update" => s[1].ref \in Tags \/ s[1].base = NoRef
  BY <1>1 DEF IsPlan, Covers
<1>3. s[1] \in Plain \/ s[1] \in Scans
  BY <1>1 DEF AllTasks
<1>4. s[1] \in Plain => s[1].op # "scan" /\ s[1].ref \in Refs /\ s[1].base \in Bases
  BY DEF Plain
<1>5. s[1] \in Scans => s[1].op = "scan" /\ s[1].list \in ReleaseLists
  BY DEF Scans
<1>6. QED
  BY <1>1, <1>2, <1>3, <1>4, <1>5 DEF HeadTask

\* A purge is next when its base has been ingested; what is undone later is
\* another version than the one just ingested.
Continues ==
    /\ IsPlan(tasks')
    /\ tasks' # << >> /\ Head(tasks').op = "purge" => Is(Head(tasks), "update", Head(tasks').base)
    /\ \A k \in DOMAIN tasks' : Undoes(tasks'[k]) =>
          Precedes(Head(tasks), tasks'[k]) /\ \E j \in DOMAIN tasks : tasks'[k] = tasks[j]

LEMMA Continuing ==
    ASSUME IsPlan(tasks), tasks # << >>, tasks' = Tail(tasks)
    PROVE  Continues
<1>1. PICK s, t : s = tasks /\ t = Tail(tasks)
  OBVIOUS
<1>2. IsPlan(s) /\ s # << >> /\ t = Tail(s)
  BY <1>1
<1>3. /\ IsPlan(t)
      /\ t # << >> /\ t[1].op = "purge" => Is(s[1], "update", t[1].base)
      /\ \A i \in DOMAIN t : Undoes(t[i]) => Precedes(s[1], t[i])
      /\ \A i \in DOMAIN t : \E j \in DOMAIN s : t[i] = s[j]
  BY <1>2, TailIsPlan
<1>4. Head(s) = s[1] /\ (t # << >> => Head(t) = t[1])
  BY <1>2, <1>3, HeadFacts DEF HeadTask
<1>5. QED
  BY <1>1, <1>3, <1>4 DEF Continues

\* A task changes what is finished only of its own version.
LEMMA AfterTask ==
    ASSUME PlanInv, tasks # << >>, TaskDone, Types', Registered',
           Head(tasks).op = "update" => vid' = Current,
           \A r \in Refs : status[r] # "done" /\ status'[r] = "done" =>
              r = Current /\ Head(tasks).op \in {"update", "next", "branch"}
    PROVE  PlanInv'
<1>1. IsPlan(tasks) /\ pc' = "task" /\ tasks' = Tail(tasks)
  BY DEF PlanInv, Progress, TaskDone
<1>2. Continues
  BY <1>1, Continuing
<1>3. Progress'
  BY <1>1, <1>2 DEF Progress, Continues, Is, Current
<1>4. NotAgain'
  BY <1>1 DEF NotAgain
<1>5. Unfinished'
  <2> SUFFICES ASSUME NEW k \in DOMAIN tasks', Undoes(tasks'[k]) PROVE status'[tasks'[k].ref] # "done"
    BY DEF Unfinished
  <2>1. Precedes(Head(tasks), tasks'[k])
    BY <1>2 DEF Continues
  <2>2. PICK j \in DOMAIN tasks : tasks'[k] = tasks[j]
    BY <1>2 DEF Continues
  <2>3. status[tasks'[k].ref] # "done"
    BY <2>2 DEF PlanInv, Unfinished
  <2>4. tasks'[k].ref \in Refs
    <3>1. tasks[j] \in AllTasks
      BY <1>1 DEF IsPlan
    <3>2. tasks[j] \notin Scans
      BY <2>2 DEF Scans, Undoes
    <3>3. QED
      BY <2>2, <3>1, <3>2 DEF AllTasks, Plain
  <2>5. Head(tasks).op \in {"update", "next", "branch"} => tasks'[k].ref # Current
    BY <2>1 DEF Precedes, Current
  <2>6. QED
    BY <2>3, <2>4, <2>5
<1>6. QED
  BY <1>3, <1>4, <1>5 DEF PlanInv

\* A process that ends, and one that begins.
LEMMA AfterEnd ==
    ASSUME PlanInv, ProcessEnds, UNCHANGED dbVars
    PROVE  PlanInv'
<1>1. IsPlan(tasks')
  BY DEF ProcessEnds, IsPlan, Links, Covers, UndoneFirst
<1>2. Types'
  BY DEF PlanInv, Types, ProcessEnds, dbVars, markVars, Bases
<1>3. Registered'
  BY DEF PlanInv, Registered, ProcessEnds, dbVars
<1>4. Progress'
  BY <1>1 DEF Progress, ProcessEnds
<1>5. NotAgain' /\ Unfinished'
  BY DEF NotAgain, Unfinished, ProcessEnds
<1>6. QED
  BY <1>2, <1>3, <1>4, <1>5 DEF PlanInv

LEMMA AfterLaunch ==
    ASSUME PlanInv, NEW s, Goes(s), IsPlan(s), s # << >> => s[1].op # "purge", Resets(s),
           UNCHANGED <<commits, refs, rows, baseOf, markVars, vid, old, realigned>>,
           NEW resolved, status' = WithStatesOf(resolved) \/ status' = status
    PROVE  PlanInv'
<1>1. pc' = "task" /\ tasks' = s
  BY DEF Goes
<1>2. s # << >> => Head(s) = s[1]
  BY HeadFacts DEF HeadTask
<1>3. Types /\ Registered
  BY DEF PlanInv
<1>4. /\ status' \in [Refs -> States] /\ Registered'
      /\ \A r \in Refs : ~IsDone(r) => status'[r] = status[r] /\ status[r] # "done"
  <2>1. CASE status' = WithStatesOf(resolved)
    BY <2>1, Decides
  <2>2. CASE status' = status
    <3>1. \A r \in Refs : status[r] = "done" => IsDone(r)
      BY <1>3, DoneFacts DEF Registered
    <3>2. QED
      BY <1>3, <2>2, <3>1 DEF Types, Registered
  <2>3. QED
    BY <2>1, <2>2
<1>5. Types'
  BY <1>1, <1>3, <1>4 DEF Types, markVars
<1>6. Progress'
  BY <1>1, <1>2 DEF Progress
<1>7. NotAgain'
  BY <1>1 DEF NotAgain
<1>8. Unfinished'
  <2> SUFFICES ASSUME NEW k \in DOMAIN s, Undoes(s[k]) PROVE status'[s[k].ref] # "done"
    BY <1>1 DEF Unfinished
  <2>1. ~IsDone(s[k].ref)
    BY DEF Resets
  <2>2. s[k] \in AllTasks /\ s[k] \notin Scans
    BY DEF IsPlan, Scans, Undoes
  <2>3. s[k].ref \in Refs
    BY <2>2 DEF AllTasks, Plain
  <2>4. QED
    BY <1>4, <2>1, <2>3
<1>9. QED
  BY <1>4, <1>5, <1>6, <1>7, <1>8 DEF PlanInv

(***************************************************************************)
(* Every action keeps it.                                                  *)
(***************************************************************************)
LEMMA InitPlan ==
    ASSUME Init
    PROVE  PlanInv
<1>1. PICK l \in Legacy :
          /\ rows = [r \in Refs |-> IF r \in l[1] THEN "whole" ELSE IF r \in l[2] THEN "part" ELSE "none"]
          /\ refs = l[1] \cup l[2]
          /\ commits = Those(History, UNION {ToSet(Until(r)) : r \in refs})
  BY DEF Init
<1>2. l[1] \subseteq Refs /\ l[2] \subseteq Refs /\ History \in Seq(Refs) /\ Len(History) \in Nat
  BY PipelineAssumptions
<1>3. /\ status = [r \in Refs |-> "none"]
      /\ baseOf = [r \in Refs |-> NoRef] /\ mark = [r \in Refs |-> NoMarks]
      /\ above = [r \in Refs |-> {}] /\ disturbed = {}
      /\ pc = "down" /\ tasks = << >> /\ vid = NoRef /\ old = NoRef
      /\ realigned = {} /\ expired = FALSE
  BY DEF Init
<1>4. PICK T : T = UNION {ToSet(Until(r)) : r \in refs}
  OBVIOUS
<1>5. commits \in Seq(Refs) /\ refs \subseteq Refs /\ Range(commits) = Range(History) \cap T
  BY <1>1, <1>2, <1>4, ThoseOf, PipelineAssumptions
<1>6. rows \in [Refs -> Extents]
  BY <1>1 DEF Extents
<1>7. /\ status \in [Refs -> States] /\ baseOf \in [Refs -> Bases] /\ mark \in [Refs -> Nat]
      /\ above \in [Refs -> SUBSET Refs]
  BY <1>2, <1>3 DEF Bases, NoMarks, States
<1>8. Types
  BY <1>3, <1>5, <1>6, <1>7 DEF Types, Bases
<1>9. Registered
  <2>1. ASSUME NEW r \in refs PROVE r \in ToSet(commits)
    <3>1. r \in Refs /\ r \in ToSet(Until(r))
      BY <1>5, <2>1, UntilHead
    <3>2. r \in T
      BY <1>4, <2>1, <3>1
    <3>3. r \in Range(History)
      BY <3>1 DEF Refs, ToSet, Range
    <3>4. QED
      BY <1>5, <3>2, <3>3 DEF ToSet, Range
  <2>2. QED
    BY <1>3, <2>1 DEF Registered
<1>10. IsPlan(tasks)
  BY <1>3 DEF IsPlan, Links, Covers, UndoneFirst
<1>11. Progress
  BY <1>3, <1>10 DEF Progress
<1>12. NotAgain /\ Unfinished
  BY <1>3 DEF NotAgain, Unfinished
<1>13. QED
  BY <1>8, <1>9, <1>11, <1>12 DEF PlanInv

\* What a task undoes is not finished, and nothing finished loses rows to it
\* but what was begun after its marks.
LosesOnly(r) == \A s \in Refs : status[s] = "done" => s # r /\ Loses(r, s)

LEMMA UndoKeeps ==
    ASSUME PlanInv, Undo
    PROVE  /\ tasks # << >> /\ Keeps /\ TaskDone /\ Head(tasks).op \in {"rollback", "partial"} /\ LosesOnly(Current)
           /\ Head(tasks).op = "partial" => \A s \in Refs : status[s] = "done" => rows'[s] = rows[s]
<1>1. /\ pc = "task" /\ tasks # << >> /\ TaskDone
      /\ \/ Head(tasks).op = "rollback" /\ RollBack(Current)
         \/ Head(tasks).op = "partial" /\ Purge(Current) /\ UNCHANGED <<baseOf, markVars>>
  BY DEF Undo, NextIs
<1>2. Types /\ Registered /\ IsPlan(tasks) /\ HeadTask(tasks)
  BY <1>1, HeadFacts DEF PlanInv, Progress
<1>3. PICK r \in Refs : r = Current
  BY <1>1, <1>2 DEF HeadTask, Current
<1>4. status[r] # "done"
  <2>1. 1 \in DOMAIN tasks /\ Head(tasks) = tasks[1] /\ Undoes(tasks[1])
    BY <1>1, <1>2 DEF IsPlan, HeadTask, Undoes
  <2>2. QED
    BY <1>3, <2>1 DEF PlanInv, Unfinished, Current
<1>5. CASE Head(tasks).op = "rollback" /\ RollBack(Current)
  <2>1. Keeps /\ \A s \in Refs : status[s] = "done" => Loses(r, s)
    BY <1>2, <1>3, <1>5, RollBackKeeps
  <2>2. QED
    BY <1>1, <1>3, <1>4, <1>5, <2>1 DEF LosesOnly
<1>6. CASE Head(tasks).op = "partial" /\ Purge(Current) /\ UNCHANGED <<baseOf, markVars>>
  <2>1. mark' \in [Refs -> Nat] /\ above' \in [Refs -> SUBSET Refs] /\ disturbed' \subseteq Refs
    BY <1>2, <1>6 DEF Types, markVars
  <2>2. Keeps /\ \A s \in Refs : Loses(r, s)
    BY <1>2, <1>3, <1>6, <2>1, PurgeKeeps
  <2>3. \A s \in Refs : s # r => rows'[s] = rows[s]
    BY <1>2, <1>3, <1>6 DEF Purge, Types
  <2>4. QED
    BY <1>1, <1>3, <1>4, <1>6, <2>2, <2>3 DEF LosesOnly
<1>7. QED
  BY <1>1, <1>5, <1>6

\* What undoes a version keeps the types and the references.
LEMMA UndoneTypes ==
    ASSUME PlanInv, Keeps, pc' \in {"task", "begin"}, UNCHANGED <<vid, old, realigned>>
    PROVE  Types' /\ Registered'
BY DEF PlanInv, Types, Keeps

LEMMA UndoPlan ==
    ASSUME PlanInv, Undo
    PROVE  PlanInv'
<1>1. tasks # << >> /\ Keeps /\ TaskDone /\ Head(tasks).op \in {"rollback", "partial"}
  BY UndoKeeps
<1>2. UNCHANGED <<vid, old, realigned>> /\ pc' = "task"
  BY DEF Undo, TaskDone
<1>3. Types' /\ Registered'
  BY <1>1, <1>2, UndoneTypes
<1>4. \A r \in Refs : ~(status[r] # "done" /\ status'[r] = "done")
  BY <1>1 DEF Keeps
<1>5. QED
  BY <1>1, <1>3, <1>4, AfterTask

LEMMA PurgePlan ==
    ASSUME PlanInv, PurgeSuccessor
    PROVE  PlanInv'
<1>1. /\ tasks # << >> /\ Head(tasks).op = "purge" /\ TaskDone /\ PurgeDifferentialRows(Current)
      /\ realigned' = realigned \cup {Current} /\ UNCHANGED <<vid, old, expired>>
  BY DEF PurgeSuccessor, NextIs
<1>2. Types /\ Registered /\ IsPlan(tasks)
  BY DEF PlanInv, Progress
<1>3. PICK c \in Refs : c = Current
  BY <1>1, <1>2, HeadFacts DEF HeadTask, Current
<1>4. /\ rows' = [rows EXCEPT ![c] = "none"] /\ UNCHANGED <<commits, refs, baseOf, mark, above, disturbed>>
      /\ status' = [status EXCEPT ![c] = IF @ = "none" THEN @ ELSE "parsing"]
  BY <1>1, <1>3 DEF PurgeDifferentialRows, markVars
<1>5. /\ rows' \in [Refs -> Extents] /\ status' \in [Refs -> States]
      /\ \A r \in Refs : status'[r] = IF r # c THEN status[r] ELSE IF status[r] = "none" THEN "none" ELSE "parsing"
  BY <1>2, <1>3, <1>4 DEF Types, Extents, States
<1>6. Types'
  BY <1>1, <1>2, <1>3, <1>4, <1>5 DEF Types, TaskDone
<1>7. Registered'
  BY <1>2, <1>4, <1>5 DEF Registered
<1>8. \A r \in Refs : ~(status[r] # "done" /\ status'[r] = "done")
  BY <1>5
<1>9. QED
  BY <1>1, <1>6, <1>7, <1>8, AfterTask

LEMMA StartUpdatePlan ==
    ASSUME PlanInv, StartUpdate
    PROVE  PlanInv'
<1>1. /\ pc = "task" /\ tasks # << >> /\ Head(tasks).op = "update" /\ pc' = "check" /\ old' = Head(tasks).base
      /\ UNCHANGED <<dbVars, tasks, vid, realigned, expired>>
  BY DEF StartUpdate, NextIs
<1>2. IsPlan(tasks)
  BY DEF PlanInv, Progress
<1>3. Head(tasks).base \in Bases
  BY <1>1, <1>2, HeadFacts DEF HeadTask
<1>4. Types'
  BY <1>1, <1>3 DEF PlanInv, Types, dbVars, markVars
<1>5. Registered'
  BY <1>1 DEF PlanInv, Registered, dbVars
<1>6. Progress'
  BY <1>1, <1>2 DEF Progress
<1>7. NotAgain' /\ Unfinished'
  BY <1>1 DEF PlanInv, NotAgain, Unfinished, dbVars
<1>8. QED
  BY <1>4, <1>5, <1>6, <1>7 DEF PlanInv

LEMMA StartNextPlan ==
    ASSUME PlanInv, StartNext
    PROVE  PlanInv'
<1>1. /\ pc = "task" /\ tasks # << >> /\ Head(tasks).op \in {"next", "branch"} /\ pc' = "check"
      /\ old' = IF Head(tasks).op = "branch" THEN NoRef
                ELSE IF Head(tasks).base # NoRef THEN Head(tasks).base ELSE old
      /\ UNCHANGED <<dbVars, tasks, vid, realigned, expired>>
  BY DEF StartNext, NextIs
<1>2. IsPlan(tasks) /\ old \in Bases
  BY DEF PlanInv, Progress, Types
<1>3. Head(tasks).base \in Bases
  BY <1>1, <1>2, HeadFacts DEF HeadTask
<1>4. old' \in Bases
  BY <1>1, <1>2, <1>3 DEF Bases
<1>5. Types'
  BY <1>1, <1>4 DEF PlanInv, Types, dbVars, markVars
<1>6. Registered'
  BY <1>1 DEF PlanInv, Registered, dbVars
<1>7. Progress'
  BY <1>1, <1>2 DEF Progress
<1>8. NotAgain' /\ Unfinished'
  BY <1>1 DEF PlanInv, NotAgain, Unfinished, dbVars
<1>9. QED
  BY <1>5, <1>6, <1>7, <1>8 DEF PlanInv

LEMMA RescanPlan ==
    ASSUME PlanInv, Rescan
    PROVE  PlanInv'
<1>1. tasks # << >> /\ Head(tasks).op = "scan" /\ IsPlan(tasks)
  BY DEF Rescan, NextIs, PlanInv, Progress
<1>2. PICK list \in ReleaseLists : list = Head(tasks).list
  BY <1>1, HeadFacts DEF HeadTask
<1>3. PICK s, w : s = Rest(list) /\ w = Scanned(list)
  OBVIOUS
<1>4. /\ Goes(s) /\ status' = WithStatesOf(w)
      /\ UNCHANGED <<commits, refs, rows, baseOf, markVars, vid, old, realigned>>
  BY <1>2, <1>3 DEF Rescan, UnchangedButStates
<1>5. IsPlan(s) /\ Resets(s) /\ (s # << >> => s[1].op # "purge")
  BY <1>3, RestIsPlan DEF IsStart
<1>6. QED
  BY <1>4, <1>5, AfterLaunch

LEMMA SkipPlan ==
    ASSUME PlanInv, SkipDone
    PROVE  PlanInv'
<1>1. /\ pc = "check" /\ status' = [status EXCEPT ![Current] = "done"] /\ refs' = refs \cup {Current}
      /\ vid' = Current /\ old' = vid /\ TaskDone /\ Earlier(Current) = "done"
      /\ UNCHANGED <<commits, rows, baseOf, mark, above, disturbed, realigned, expired>>
  BY DEF SkipDone, Moves, markVars
<1>2. IsPlan(tasks) /\ Types /\ Registered /\ tasks # << >> /\ Head(tasks).op \in {"update", "next", "branch"}
  BY <1>1 DEF PlanInv, Progress
<1>3. PICK c \in Refs : c = Current
  BY <1>2, HeadFacts DEF HeadTask, Current
<1>4. c \in ToSet(commits)
  BY <1>1, <1>3 DEF Earlier
<1>5. status' \in [Refs -> States] /\ \A r \in Refs : r # c => status'[r] = status[r]
  BY <1>1, <1>2, <1>3 DEF Types, States
<1>6. Types'
  BY <1>1, <1>2, <1>3, <1>5 DEF Types, TaskDone, Bases
<1>7. Registered'
  BY <1>1, <1>2, <1>3, <1>4, <1>5 DEF Registered
<1>8. \A r \in Refs : status[r] # "done" /\ status'[r] = "done" =>
         r = Current /\ Head(tasks).op \in {"update", "next", "branch"}
  BY <1>2, <1>3, <1>5
<1>9. QED
  BY <1>1, <1>2, <1>6, <1>7, <1>8, AfterTask

\* What is recovered is not finished, unless it is looked at as no checkpoint.
LEMMA RecoverKeeps ==
    ASSUME PlanInv, Recover
    PROVE  /\ Keeps /\ (status[Current] # "done" \/ ~IsCheckpoint(Current))
           /\ PreviousIngest(Current) # "done" => (rows' = rows /\ status' = status) \/ rows'[Current] = "none"
           /\ RollsBack => LosesOnly(Current)
           /\ ~RollsBack => \A s \in Refs : status[s] = "done" => rows'[s] = rows[s]
<1>1. /\ pc = "check" /\ Types /\ Registered /\ IsPlan(tasks) /\ tasks # << >>
      /\ Head(tasks).op \in {"update", "next", "branch"}
  BY DEF PlanInv, Progress, Recover
<1>2. PICK r \in Refs : r = Current
  BY <1>1, HeadFacts DEF HeadTask, Current
<1>3. RollsBack <=> Earlier(r) = "interrupted"
  BY <1>1, <1>2 DEF RollsBack, NextIs
<1>4. \/ Earlier(r) = "interrupted" /\ RollBack(r)
      \/ Earlier(r) = "legacy_partial" /\ Purge(r) /\ UNCHANGED <<baseOf, markVars>>
      \/ Earlier(r) = "new" /\ UNCHANGED dbVars
  BY <1>2 DEF Recover
<1>5. status[r] # "done" \/ ~IsCheckpoint(r)
  <2> SUFFICES ASSUME IsCheckpoint(r), status[r] = "done" PROVE FALSE
    OBVIOUS
  <2>1. r \in ToSet(commits)
    BY <1>1 DEF Registered
  <2>2. Earlier(r) = PreviousIngest(r)
    BY <2>1 DEF Earlier
  <2>3. PreviousIngest(r) = "done"
    BY <1>1, DoneFacts
  <2>4. QED
    BY <1>4, <2>2, <2>3
<1>6. CASE Earlier(r) = "interrupted" /\ RollBack(r)
  <2>1. Keeps /\ rows'[r] = "none" /\ \A s \in Refs : status[s] = "done" => Loses(r, s)
    BY <1>1, <1>6, RollBackKeeps
  <2>2. status[r] # "done"
    BY <1>1, <1>6, DoneFacts DEF Earlier
  <2>3. QED
    BY <1>2, <1>3, <1>5, <1>6, <2>1, <2>2 DEF LosesOnly
<1>7. CASE Earlier(r) = "legacy_partial" /\ Purge(r) /\ UNCHANGED <<baseOf, markVars>>
  <2>1. mark' \in [Refs -> Nat] /\ above' \in [Refs -> SUBSET Refs] /\ disturbed' \subseteq Refs
    BY <1>1, <1>7 DEF Types, markVars
  <2>2. Keeps /\ rows'[r] = "none"
    BY <1>1, <1>7, <2>1, PurgeKeeps
  <2>3. status[r] # "done"
    BY <1>1, <1>7, DoneFacts DEF Earlier
  <2>4. \A s \in Refs : s # r => rows'[s] = rows[s]
    BY <1>1, <1>7 DEF Purge, Types
  <2>5. QED
    BY <1>2, <1>3, <1>5, <1>7, <2>2, <2>3, <2>4
<1>8. CASE Earlier(r) = "new" /\ UNCHANGED dbVars
  <2>1. UNCHANGED <<commits, refs, status, rows, baseOf, mark, above, disturbed>>
    BY <1>8 DEF dbVars, markVars
  <2>2. Registered => Registered'
    BY <2>1 DEF Registered
  <2>3. Keeps
    BY <1>1, <2>1, <2>2 DEF Types, Keeps
  <2>4. QED
    BY <1>2, <1>3, <1>5, <1>8, <2>1, <2>3
<1>9. QED
  BY <1>4, <1>6, <1>7, <1>8

LEMMA RecoverPlan ==
    ASSUME PlanInv, Recover
    PROVE  PlanInv'
<1>1. pc = "check" /\ pc' = "begin" /\ UNCHANGED <<tasks, vid, old, realigned, expired>>
  BY DEF Recover, processVars
<1>2. IsPlan(tasks) /\ Types /\ tasks # << >> /\ Head(tasks).op \in {"update", "next", "branch"}
  BY <1>1 DEF PlanInv, Progress
<1>3. Keeps /\ (status[Current] # "done" \/ ~IsCheckpoint(Current))
  BY RecoverKeeps
<1>4. Types' /\ Registered'
  BY <1>1, <1>3, UndoneTypes
<1>5. Current \in Refs
  BY <1>2, HeadFacts DEF HeadTask, Current
<1>6. NotAgain'
  BY <1>1, <1>3, <1>5 DEF NotAgain, Current, IsCheckpoint, Keeps
<1>7. Unfinished'
  <2> SUFFICES ASSUME NEW k \in DOMAIN tasks, Undoes(tasks[k]) PROVE status'[tasks[k].ref] # "done"
    BY <1>1 DEF Unfinished
  <2>1. tasks[k] \in AllTasks /\ tasks[k] \notin Scans
    BY <1>2 DEF IsPlan, Scans, Undoes
  <2>2. tasks[k].ref \in Refs
    BY <2>1 DEF AllTasks, Plain
  <2>3. status[tasks[k].ref] # "done"
    BY DEF PlanInv, Unfinished
  <2>4. QED
    BY <1>3, <2>2, <2>3 DEF Keeps
<1>8. Progress'
  BY <1>1, <1>2 DEF Progress
<1>9. QED
  BY <1>4, <1>6, <1>7, <1>8 DEF PlanInv

LEMMA BeginPlan ==
    ASSUME PlanInv, Begin
    PROVE  PlanInv'
<1>1. PICK r, new : r = Current /\ new = Those(Until(r), Refs \ ToSet(commits))
  OBVIOUS
<1>2. /\ pc = "begin" /\ pc' = "parse" /\ vid' = r /\ old' = vid
      /\ commits' = commits \o new /\ refs' = refs \cup {r}
      /\ mark' = [mark EXCEPT ![r] = Len(commits')]
      /\ above' = [s \in Refs |-> IF s = r THEN {} ELSE IF mark[s] = NoMarks THEN above[s] ELSE above[s] \cup {r}]
      /\ disturbed' = disturbed \ {r}
      /\ status' = [status EXCEPT ![r] = "parsing"]
      /\ UNCHANGED <<rows, baseOf, tasks, realigned, expired>>
  BY <1>1 DEF Begin, Moves
<1>3. IsPlan(tasks) /\ Types /\ Registered /\ tasks # << >> /\ Head(tasks).op \in {"update", "next", "branch"}
  BY <1>2 DEF PlanInv, Progress
<1>4. r \in Refs
  BY <1>1, <1>3, HeadFacts DEF HeadTask, Current
<1>5. new \in Seq(Refs) /\ Range(new) = Range(Until(r)) \cap (Refs \ ToSet(commits))
  BY <1>1, <1>4, UntilType, ThoseOf
<1>6. commits \in Seq(Refs)
  BY <1>3 DEF Types
<1>7. commits' \in Seq(Refs) /\ \A s : s \in ToSet(commits) \/ s \in Range(new) => s \in ToSet(commits')
  <2>1. PICK m, n : m = Len(commits) /\ n = Len(new)
    OBVIOUS
  <2>2. /\ m \in Nat /\ n \in Nat /\ DOMAIN commits = 1..m /\ DOMAIN new = 1..n
        /\ commits' \in Seq(Refs) /\ Len(commits') = m + n /\ DOMAIN commits' = 1 .. m + n
        /\ \A i \in 1 .. m + n : commits'[i] = IF i <= m THEN commits[i] ELSE new[i - m]
    BY <1>2, <1>5, <1>6, <2>1, ConcatProperties
  <2>3. ASSUME NEW i \in DOMAIN commits PROVE commits[i] \in ToSet(commits')
    <3>1. i \in DOMAIN commits' /\ commits'[i] = commits[i]
      BY <2>2
    <3>2. QED
      BY <3>1 DEF ToSet
  <2>4. ASSUME NEW i \in DOMAIN new PROVE new[i] \in ToSet(commits')
    <3>1. PICK j : j = m + i
      OBVIOUS
    <3>2. j \in DOMAIN commits' /\ ~(j <= m) /\ j - m = i
      BY <2>2, <3>1
    <3>3. commits'[j] = new[j - m]
      BY <2>2, <3>2
    <3>4. commits'[j] = new[i]
      BY <3>2, <3>3
    <3>5. QED
      BY <3>2, <3>4 DEF ToSet
  <2>5. QED
    BY <2>2, <2>3, <2>4 DEF ToSet, Range
<1>8. r \in ToSet(commits')
  <2>1. r \in Range(Until(r))
    BY <1>4, UntilHead DEF ToSet, Range
  <2>2. QED
    BY <1>4, <1>5, <1>7, <2>1
<1>9. Len(commits') \in Nat
  BY <1>7
<1>10. /\ mark' \in [Refs -> Nat] /\ status' \in [Refs -> States] /\ above' \in [Refs -> SUBSET Refs]
       /\ disturbed' \subseteq Refs /\ refs' \subseteq Refs
       /\ status'[r] = "parsing" /\ \A s \in Refs : s # r => status'[s] = status[s]
  BY <1>2, <1>3, <1>4, <1>9 DEF Types, States
<1>11. Types'
  BY <1>2, <1>3, <1>4, <1>7, <1>10 DEF Types, Bases
<1>12. Registered'
  <2>1. \A s \in Refs : status'[s] # "none" => s \in refs'
    BY <1>2, <1>3, <1>10 DEF Registered
  <2>2. refs' \subseteq ToSet(commits')
    BY <1>2, <1>3, <1>7, <1>8 DEF Registered
  <2>3. QED
    BY <2>1, <2>2 DEF Registered
<1>13. Progress'
  BY <1>1, <1>2, <1>3, <1>10 DEF Progress, Current
<1>14. NotAgain'
  BY <1>2 DEF NotAgain
<1>15. Unfinished'
  <2> SUFFICES ASSUME NEW k \in DOMAIN tasks, Undoes(tasks[k]) PROVE status'[tasks[k].ref] # "done"
    BY <1>2 DEF Unfinished
  <2>1. tasks[k] \in AllTasks /\ tasks[k] \notin Scans
    BY <1>3 DEF IsPlan, Scans, Undoes
  <2>2. tasks[k].ref \in Refs
    BY <2>1 DEF AllTasks, Plain
  <2>3. status[tasks[k].ref] # "done"
    BY DEF PlanInv, Unfinished
  <2>4. QED
    BY <1>10, <2>2, <2>3
<1>16. QED
  BY <1>11, <1>12, <1>13, <1>14, <1>15 DEF PlanInv

LEMMA WritePlan ==
    ASSUME PlanInv, Write
    PROVE  PlanInv'
<1>1. /\ pc = "parse" /\ UNCHANGED <<commits, refs, status, baseOf, mark, above, disturbed, pc, tasks, vid, old, realigned, expired>>
      /\ \E extent \in {"part", "most"} : rows' = [rows EXCEPT ![Current] = extent]
  BY DEF Write, markVars, processVars
<1>2. rows' \in [Refs -> Extents]
  BY <1>1 DEF PlanInv, Types, Extents
<1>3. Types'
  BY <1>1, <1>2 DEF PlanInv, Types
<1>4. Registered' /\ Progress' /\ NotAgain' /\ Unfinished'
  BY <1>1 DEF PlanInv, Registered, Progress, NotAgain, Unfinished, Current
<1>5. QED
  BY <1>3, <1>4 DEF PlanInv

LEMMA FinishPlan ==
    ASSUME PlanInv, Finish
    PROVE  PlanInv'
<1>1. /\ pc = "parse" /\ TaskDone
      /\ rows' = [rows EXCEPT ![Current] = "whole"] /\ baseOf' = [baseOf EXCEPT ![Current] = old]
      /\ status' = [status EXCEPT ![Current] = "done"] /\ DiscardMarks(Current)
      /\ UNCHANGED <<commits, refs, vid, old, realigned, expired>>
  BY DEF Finish
<1>2. /\ Types /\ Registered /\ tasks # << >> /\ vid = Current /\ status[Current] = "parsing"
      /\ IsPlan(tasks) /\ Head(tasks).op \in {"update", "next", "branch"}
  BY <1>1 DEF PlanInv, Progress
<1>3. PICK c \in Refs : c = Current
  BY <1>2, HeadFacts DEF HeadTask, Current
<1>4. NoMarks \in Nat
  BY PipelineAssumptions DEF NoMarks
<1>5. /\ mark' \in [Refs -> Nat] /\ above' \in [Refs -> SUBSET Refs] /\ disturbed' \subseteq Refs
      /\ rows' \in [Refs -> Extents] /\ baseOf' \in [Refs -> Bases] /\ status' \in [Refs -> States]
  BY <1>1, <1>2, <1>3, <1>4 DEF Types, DiscardMarks, Extents, States
<1>6. \A r \in Refs : r # c => status'[r] = status[r]
  BY <1>1, <1>2, <1>3 DEF Types
<1>7. Types'
  BY <1>1, <1>2, <1>5 DEF Types, TaskDone
<1>8. Registered'
  BY <1>1, <1>2, <1>3, <1>6 DEF Registered
<1>9. \A r \in Refs : status[r] # "done" /\ status'[r] = "done" =>
         r = Current /\ Head(tasks).op \in {"update", "next", "branch"}
  BY <1>2, <1>3, <1>6
<1>10. QED
  BY <1>1, <1>2, <1>7, <1>8, <1>9, AfterTask

LEMMA ReturnPlan ==
    ASSUME PlanInv, ReturnEarly
    PROVE  PlanInv'
<1>1. pc = "parse" /\ TaskDone /\ UNCHANGED <<commits, refs, status, rows, baseOf, mark, above, disturbed>>
      /\ UNCHANGED <<vid, old, realigned, expired>>
  BY DEF ReturnEarly, dbVars, markVars
<1>2. Types /\ Registered /\ tasks # << >> /\ vid = Current
  BY <1>1 DEF PlanInv, Progress
<1>3. Types' /\ Registered'
  BY <1>1, <1>2 DEF Types, Registered, TaskDone
<1>4. QED
  BY <1>1, <1>2, <1>3, AfterTask

(***************************************************************************)
(* The launches.                                                           *)
(***************************************************************************)
LEMMA LaunchReleasePlan ==
    ASSUME PlanInv, NEW list \in ReleaseLists, LaunchRelease(list)
    PROVE  PlanInv'
<1>1. PICK s, w : s = Rest(list) /\ w = Scanned(list)
  OBVIOUS
<1>2. Goes(s) /\ status' = WithStatesOf(w) /\ UNCHANGED <<commits, refs, rows, baseOf, markVars, vid, old, realigned>>
  BY <1>1 DEF LaunchRelease, IsDown, UnchangedButStates
<1>3. IsPlan(s) /\ Resets(s) /\ (s # << >> => s[1].op # "purge")
  BY <1>1, RestIsPlan DEF IsStart
<1>4. QED
  BY <1>2, <1>3, AfterLaunch

LEMMA LaunchBranchesPlan ==
    ASSUME PlanInv, NEW list \in BranchLists, LaunchBranches(list)
    PROVE  PlanInv'
<1>1. PICK S, open, s : /\ S = {r \in Refs : StateOf(r) # "done"} /\ open = Those(list, S)
                        /\ s = [i \in DOMAIN open |-> Task("branch", open[i], NoRef)]
  OBVIOUS
<1>2. Goes(s) /\ status' = status /\ UNCHANGED <<commits, refs, rows, baseOf, markVars, vid, old, realigned>>
  BY <1>1 DEF LaunchBranches, IsDown, dbVars
<1>3. IsPlan(s) /\ Resets(s) /\ (s # << >> => s[1].op # "purge")
  BY <1>1, BranchesArePlan DEF IsStart
<1>4. QED
  BY <1>2, <1>3, AfterLaunch

LEMMA LaunchRepairPlan ==
    ASSUME PlanInv, NEW list \in ReleaseLists, LaunchRepair(list)
    PROVE  PlanInv'
<1>1. PICK s : s = GapTasks(From(list)) \o <<[op |-> "scan", list |-> list]>>
  OBVIOUS
<1>2. Goes(s) /\ status' = WithStatesOf(refs) /\ UNCHANGED <<commits, refs, rows, baseOf, markVars, vid, old, realigned>>
  BY <1>1 DEF LaunchRepair, IsDown, UnchangedButStates
<1>3. IsPlan(s) /\ Resets(s) /\ s[1].op # "purge"
  BY <1>1, RepairIsPlan
<1>4. QED
  BY <1>2, <1>3, AfterLaunch

LEMMA LaunchBackfillPlan ==
    ASSUME PlanInv, NEW list \in ReleaseLists, LaunchBackfill(From(list))
    PROVE  PlanInv'
<1>1. Ordered(From(list)) /\ refs \subseteq Refs
  BY FromFacts DEF Ordered, PlanInv, Types
<1>2. PICK i \in DOMAIN From(list) : Goes(BackfillTasks(From(list), i))
  BY DEF LaunchBackfill
<1>3. PICK L, s : L = From(list) /\ s = BackfillTasks(L, i)
  OBVIOUS
<1>4. Goes(s) /\ status' = WithStatesOf(refs) /\ UNCHANGED <<commits, refs, rows, baseOf, markVars, vid, old, realigned>>
  BY <1>2, <1>3 DEF LaunchBackfill, IsDown, UnchangedButStates
<1>5. IsPlan(s) /\ Resets(s) /\ (s # << >> => s[1].op # "purge")
  BY <1>1, <1>2, <1>3, BackfillIsPlan DEF IsStart
<1>6. QED
  BY <1>4, <1>5, AfterLaunch

LEMMA StayPlan ==
    ASSUME PlanInv, UNCHANGED <<dbVars, pc, tasks, vid, old, realigned>>, pc # "down" \/ expired' = expired
    PROVE  PlanInv'
<1>1. UNCHANGED <<commits, refs, status, rows, baseOf, mark, above, disturbed, pc, tasks, vid, old, realigned>>
  BY DEF dbVars, markVars
<1>2. Types' /\ Registered' /\ Progress' /\ Unfinished'
  BY <1>1 DEF PlanInv, Types, Registered, Progress, Unfinished, Current
<1>3. NotAgain'
  BY <1>1 DEF PlanInv, NotAgain, IsCheckpoint, Current
<1>4. QED
  BY <1>2, <1>3 DEF PlanInv

LEMMA NextPlan ==
    ASSUME PlanInv, [Next]_vars
    PROVE  PlanInv'
<1>1. CASE UNCHANGED vars
  <2>1. UNCHANGED <<dbVars, pc, tasks, vid, old, realigned, expired>>
    BY <1>1 DEF vars, processVars
  <2>2. QED
    BY <2>1, StayPlan
<1>2. CASE Step
  <2>1. CASE StopsEarly \/ AllTasksDone \/ Refuse
    BY <2>1, AfterEnd DEF StopsEarly, AllTasksDone, Refuse
  <2>2. QED
    BY <1>2, <2>1, UndoPlan, PurgePlan, StartUpdatePlan, StartNextPlan, RescanPlan, SkipPlan, RecoverPlan,
       BeginPlan, WritePlan, FinishPlan, ReturnPlan DEF Step
<1>3. CASE Launch
  <2>1. RepairLists \subseteq ReleaseLists
    BY PipelineAssumptions
  <2>2. QED
    BY <1>3, <2>1, LaunchReleasePlan, LaunchRepairPlan, LaunchBackfillPlan, LaunchBranchesPlan DEF Launch
<1>4. CASE Expire
  BY <1>4, StayPlan DEF Expire
<1>5. CASE Crash
  BY <1>5, AfterEnd DEF Crash
<1>6. CASE AllFinished
  <2>1. UNCHANGED <<dbVars, pc, tasks, vid, old, realigned, expired>>
    BY <1>6 DEF AllFinished, vars, processVars
  <2>2. QED
    BY <2>1, StayPlan
<1>7. QED
  BY <1>1, <1>2, <1>3, <1>4, <1>5, <1>6 DEF Next

\* The process keeps to a plan whose every task has been made for what it does.
THEOREM PlanHolds == Spec => []PlanInv
<1>1. Init => PlanInv
  BY InitPlan
<1>2. PlanInv /\ [Next]_vars => PlanInv'
  BY NextPlan
<1>3. QED
  BY <1>1, <1>2, PTL DEF Spec

-----------------------------------------------------------------------------
(***************************************************************************)
(* What is finished stays finished.                                        *)
(***************************************************************************)
Realigns(r) == NextIs("purge") /\ r = Current /\ vid = Head(tasks).base
Again(r) == pc = "begin" /\ r = Current /\ r \notin Tags /\ vid # NoRef /\ old # NoRef
Overtook(r) == RollsBack /\ r \in above[Current] /\ \E i \in 1 .. mark[Current] : commits[i] = r

Opened == \A r \in Refs : status[r] = "done" /\ status'[r] # "done" => Realigns(r) \/ Again(r)
Emptied == \A r \in Refs : status[r] = "done" /\ rows'[r] # rows[r] => Realigns(r) \/ Overtook(r)

LEMMA FinishedStep ==
    ASSUME PlanInv, [Next]_vars
    PROVE  Opened /\ Emptied
<1>1. Types /\ Progress /\ NotAgain
  BY DEF PlanInv
<1>2. CASE status' = status /\ rows' = rows
  BY <1>2 DEF Opened, Emptied
<1>3. ASSUME NEW w, status' = WithStatesOf(w), rows' = rows PROVE Opened /\ Emptied
  <2>1. Resolves(w)
    BY <1>1, WithStatesFacts
  <2>2. QED
    BY <1>3, <2>1 DEF Resolves, Opened, Emptied
<1>4. CASE PurgeSuccessor
  <2>1. /\ NextIs("purge") /\ status' = [status EXCEPT ![Current] = IF @ = "none" THEN @ ELSE "parsing"]
        /\ rows' = [rows EXCEPT ![Current] = "none"]
    BY <1>4 DEF PurgeSuccessor, PurgeDifferentialRows
  <2>2. vid = Head(tasks).base
    BY <1>1, <2>1 DEF Progress, NextIs
  <2>3. \A r \in Refs : r # Current => status'[r] = status[r] /\ rows'[r] = rows[r]
    BY <1>1, <2>1 DEF Types
  <2>4. QED
    BY <2>1, <2>2, <2>3 DEF Opened, Emptied, Realigns
<1>5. CASE Begin
  <2>1. pc = "begin" /\ status' = [status EXCEPT ![Current] = "parsing"] /\ rows' = rows
    BY <1>5 DEF Begin
  <2>2. \A r \in Refs : r # Current => status'[r] = status[r]
    BY <1>1, <2>1 DEF Types
  <2>3. status[Current] = "done" => Again(Current)
    BY <1>1, <2>1 DEF NotAgain, IsCheckpoint, Again
  <2>4. QED
    BY <2>1, <2>2, <2>3 DEF Opened, Emptied
<1>6. CASE Write
  <2>1. /\ pc = "parse" /\ status' = status
        /\ \E extent \in {"part", "most"} : rows' = [rows EXCEPT ![Current] = extent]
    BY <1>6 DEF Write
  <2>2. status[Current] = "parsing"
    BY <1>1, <2>1 DEF Progress
  <2>3. \A r \in Refs : r # Current => rows'[r] = rows[r]
    BY <1>1, <2>1 DEF Types
  <2>4. QED
    BY <2>1, <2>2, <2>3 DEF Opened, Emptied
<1>7. CASE Finish
  <2>1. /\ pc = "parse" /\ status' = [status EXCEPT ![Current] = "done"]
        /\ rows' = [rows EXCEPT ![Current] = "whole"]
    BY <1>7 DEF Finish
  <2>2. status[Current] = "parsing"
    BY <1>1, <2>1 DEF Progress
  <2>3. \A r \in Refs : r # Current => status'[r] = status[r] /\ rows'[r] = rows[r]
    BY <1>1, <2>1 DEF Types
  <2>4. QED
    BY <2>2, <2>3 DEF Opened, Emptied
<1>8. CASE SkipDone
  <2>1. status' = [status EXCEPT ![Current] = "done"] /\ rows' = rows
    BY <1>8 DEF SkipDone
  <2>2. \A r \in Refs : r # Current => status'[r] = status[r]
    BY <1>1, <2>1 DEF Types
  <2>3. \A r \in Refs : r = Current => status'[r] = "done"
    BY <1>1, <2>1 DEF Types
  <2>4. QED
    BY <2>1, <2>2, <2>3 DEF Opened, Emptied
<1>9. ASSUME Keeps, RollsBack, LosesOnly(Current) PROVE Opened /\ Emptied
  <2>1. Opened
    BY <1>9 DEF Keeps, Opened
  <2>2. Emptied
    BY <1>9 DEF LosesOnly, Loses, Emptied, Overtook
  <2>3. QED
    BY <2>1, <2>2
<1>10. ASSUME Keeps, \A r \in Refs : status[r] = "done" => rows'[r] = rows[r] PROVE Opened /\ Emptied
  BY <1>10 DEF Keeps, Opened, Emptied
<1>11. CASE Undo
  <2>1. CASE Head(tasks).op = "partial"
    BY <1>10, <1>11, <2>1, UndoKeeps
  <2>2. CASE Head(tasks).op # "partial"
    <3>1. RollsBack
      BY <1>11, <2>2 DEF Undo, NextIs, RollsBack
    <3>2. QED
      BY <1>9, <1>11, <3>1, UndoKeeps
  <2>3. QED
    BY <2>1, <2>2
<1>12. CASE Recover
  BY <1>9, <1>10, <1>12, RecoverKeeps
<1>13. CASE Rescan
  BY <1>3, <1>13 DEF Rescan, UnchangedButStates
<1>14. CASE StartUpdate \/ StartNext \/ StopsEarly \/ AllTasksDone \/ Refuse \/ ReturnEarly
  BY <1>2, <1>14 DEF StartUpdate, StartNext, StopsEarly, AllTasksDone, Refuse, ReturnEarly, dbVars
<1>15. CASE Launch
  <2>1. ASSUME NEW list \in ReleaseLists, LaunchRelease(list) PROVE Opened /\ Emptied
    BY <1>3, <2>1 DEF LaunchRelease, UnchangedButStates
  <2>2. ASSUME NEW list \in RepairLists, LaunchRepair(list) PROVE Opened /\ Emptied
    BY <1>3, <2>2 DEF LaunchRepair, UnchangedButStates
  <2>3. ASSUME NEW list \in RepairLists, LaunchBackfill(From(list)) PROVE Opened /\ Emptied
    BY <1>3, <2>3 DEF LaunchBackfill, UnchangedButStates
  <2>4. ASSUME NEW list \in BranchLists, LaunchBranches(list) PROVE Opened /\ Emptied
    BY <1>2, <2>4 DEF LaunchBranches, dbVars
  <2>5. QED
    BY <1>15, <2>1, <2>2, <2>3, <2>4 DEF Launch
<1>16. CASE Expire \/ Crash \/ AllFinished \/ UNCHANGED vars
  BY <1>2, <1>16 DEF Expire, Crash, AllFinished, vars, dbVars
<1>17. QED
  BY <1>4, <1>5, <1>6, <1>7, <1>8, <1>11, <1>12, <1>13, <1>14, <1>15, <1>16 DEF Next, Step

\* A finished version is opened again only by a repair, to compare it with the
\* version it has just put in front of it, or as the third reference that is no
\* tag; and only such a repair, or the rollback of a run that began before its
\* own with a later commit, takes rows of it. For any history, lists of
\* references, launches and stops.
THEOREM FinishedStays == Spec => FinishedStaysFinished
<1>1. PlanInv /\ [Next]_vars => PlanInv'
  BY NextPlan
<1>2. PlanInv /\ [Next]_vars =>
        [\A r \in Refs :
           LET realigns == NextIs("purge") /\ r = Current /\ vid = Head(tasks).base
               again    == pc = "begin" /\ r = Current /\ r \notin Tags /\ vid # NoRef /\ old # NoRef
               overtook == /\ RollsBack /\ r \in above[Current]
                           /\ \E i \in 1 .. mark[Current] : commits[i] = r
           IN /\ status[r] = "done" /\ status'[r] # "done" => realigns \/ again
              /\ status[r] = "done" /\ rows'[r] # rows[r] => realigns \/ overtook]_vars
  BY FinishedStep DEF Opened, Emptied, Realigns, Again, Overtook
<1>3. QED
  BY <1>1, <1>2, InitPlan, PTL DEF Spec, FinishedStaysFinished

-----------------------------------------------------------------------------
(***************************************************************************)
(* What a repair that is not stopped does.                                 *)
(***************************************************************************)
\* The legacy versions have been decided.
Decided == \A r \in Refs : IsDone(r) => status[r] = "done"

\* Finished, or to be finished by the repair.
Held(r) == IsDone(r) \/ InPlan(tasks, r)

\* Together these have no gap.
Closed(L) == \A j \in DOMAIN L : \A i \in 1 .. j - 1 : Held(L[j]) => Held(L[i])

\* A purged successor is finished again or next, and its base is the version
\* before it: the process has it as its version when it begins.
Aligned(L, i) ==
    \/ status[L[i]] = "done" /\ baseOf[L[i]] = Before(L, i) /\ ~InPlan(tasks, L[i])
    \/ /\ Is(Head(tasks), "update", L[i])
       /\ pc \in {"task", "check", "begin"} /\ vid = Before(L, i) /\ PreviousIngest(L[i]) # "done"
    \/ Is(Head(tasks), "update", L[i]) /\ pc = "parse" /\ old = Before(L, i)

AllAligned(L) == \A i \in DOMAIN L : L[i] \in realigned => Aligned(L, i)

LooksAtCheckpoint == pc = "check" => Current \in Tags \/ old = NoRef

Repairs(list) ==
    /\ RepairPlan(tasks, list) /\ Decided /\ LooksAtCheckpoint
    /\ Closed(From(list)) /\ AllAligned(From(list))

RepairInv == tasks \in Seq(Plain) \/ expired \/ \E list \in ReleaseLists : Repairs(list)

\* A repair's plan, its head and what is behind it.
RepairTasks(s) ==
    /\ s # << >> /\ Len(s) \in Nat /\ Head(s) = s[1] /\ 1 \in DOMAIN s
    /\ s[1].op \in {"rollback", "purge", "update", "scan"}
    /\ s[1].op = "scan" => Len(s) = 1 /\ \A r : ~InPlan(s, r)
    /\ \A r : Is(s[1], "update", r) => InPlan(s, r)

LEMMA RepairHead ==
    ASSUME NEW s, NEW list, RepairPlan(s, list)
    PROVE  RepairTasks(s) /\ (s[1].op = "scan" => s[1].list = list)
<1>1. s \in Seq(AllTasks) /\ s # << >> /\ Len(s) \in Nat /\ DOMAIN s = 1..Len(s) /\ Head(s) = s[1] /\ 1 \in DOMAIN s
  BY DEF RepairPlan
<1>2. 1 = Len(s) \/ s[1].op \in {"rollback", "purge", "update"}
  BY <1>1 DEF RepairPlan
<1>3. s[Len(s)].op = "scan" /\ s[Len(s)].list = list
  BY DEF RepairPlan
<1>4. s[1].op \in {"rollback", "purge", "update", "scan"}
  BY <1>2, <1>3
<1>5. s[1].op = "scan" => Len(s) = 1
  BY <1>2
<1>6. s[1].op = "scan" => s[1].list = list
  BY <1>3, <1>5
<1>7. s[1].op = "scan" => \A r : ~InPlan(s, r)
  <2> SUFFICES ASSUME s[1].op = "scan", NEW r, InPlan(s, r) PROVE FALSE
    OBVIOUS
  <2>1. PICK k \in DOMAIN s : Is(s[k], "update", r)
    BY DEF InPlan
  <2>a. Len(s) = 1
    BY <1>5
  <2>2. k = 1
    <3>1. DOMAIN s = 1..Len(s)
      BY <1>1
    <3>2. k \in 1..1
      BY <2>a, <3>1
    <3>3. QED
      BY <3>2
  <2>3. s[k].op = "update"
    BY <2>1 DEF Is
  <2>4. s[1].op = "update"
    BY <2>2, <2>3
  <2>5. QED
    BY <2>4
<1>8. \A r : Is(s[1], "update", r) => InPlan(s, r)
  BY <1>1 DEF InPlan
<1>9. QED
  BY <1>1, <1>4, <1>5, <1>6, <1>7, <1>8 DEF RepairTasks

\* The rest of the plan: what its head has updated is not updated again.
RepairRest(s, t, list) ==
    /\ RepairPlan(t, list) /\ t # << >> /\ t[1] = s[2] /\ 2 \in DOMAIN s
    /\ \A r : InPlan(t, r) => InPlan(s, r) /\ ~Is(s[1], "update", r)
    /\ \A r : InPlan(s, r) => InPlan(t, r) \/ Is(s[1], "update", r)

LEMMA RepairTail ==
    ASSUME NEW s, NEW list, RepairPlan(s, list), s[1].op # "scan"
    PROVE  RepairRest(s, Tail(s), list)
<1>1. s \in Seq(AllTasks) /\ s # << >> /\ Len(s) \in Nat /\ DOMAIN s = 1..Len(s) /\ Len(s) >= 1
  BY DEF RepairPlan
<1>2. s[Len(s)].op = "scan" /\ s[Len(s)].list = list
  BY DEF RepairPlan
<1>3. Len(s) # 1
  BY <1>2
<1>4. PICK t, n : t = Tail(s) /\ n = Len(s) - 1
  OBVIOUS
<1>5. /\ n \in Nat /\ n >= 1 /\ n + 1 = Len(s)
      /\ t \in Seq(AllTasks) /\ Len(t) = n /\ DOMAIN t = 1..n /\ t # << >>
      /\ \A k \in 1..n : t[k] = s[k + 1]
  BY <1>1, <1>3, <1>4
<1>6. \A k \in DOMAIN t : k + 1 \in DOMAIN s /\ t[k] = s[k + 1] /\ k + 1 # 1
  BY <1>1, <1>5
<1>7. \A k \in DOMAIN s : k = 1 \/ \E l \in DOMAIN t : k = l + 1
  <2> SUFFICES ASSUME NEW k \in DOMAIN s, k # 1 PROVE \E l \in DOMAIN t : k = l + 1
    OBVIOUS
  <2>1. k - 1 \in DOMAIN t /\ k = k - 1 + 1
    BY <1>1, <1>5
  <2>2. QED
    BY <2>1
<1>8. t[n].op = "scan" /\ t[n].list = list
  BY <1>2, <1>5
<1>9. \A k \in DOMAIN t : k = n \/ t[k].op \in {"rollback", "purge", "update"}
  <2>1. \A k \in DOMAIN t : k + 1 = Len(s) => k = n
    BY <1>5
  <2>2. QED
    BY <1>6, <2>1 DEF RepairPlan
<1>10. \A k \in DOMAIN t : t[k].op = "purge" =>
          \E i \in 2 .. Len(From(list)) : t[k].ref = From(list)[i] /\ t[k].base = From(list)[i - 1]
  BY <1>6 DEF RepairPlan
<1>11. \A k, l \in DOMAIN t : t[k].op = "update" /\ t[l].op = "update" /\ t[k].ref = t[l].ref => k = l
  <2>1. \A k, l \in DOMAIN t : k + 1 = l + 1 => k = l
    BY <1>5
  <2>2. \A k, l \in DOMAIN s : s[k].op = "update" /\ s[l].op = "update" /\ s[k].ref = s[l].ref => k = l
    BY DEF RepairPlan
  <2>3. QED
    BY <1>6, <2>1, <2>2
<1>12. RepairPlan(t, list)
  BY <1>5, <1>8, <1>9, <1>10, <1>11 DEF RepairPlan
<1>13. t[1] = s[2] /\ 2 \in DOMAIN s /\ 1 \in DOMAIN s
  BY <1>1, <1>5
<1>14. ASSUME NEW r, InPlan(t, r) PROVE InPlan(s, r) /\ ~Is(s[1], "update", r)
  <2>1. PICK k \in DOMAIN t : Is(t[k], "update", r)
    BY <1>14 DEF InPlan
  <2>2. PICK l \in DOMAIN s : l # 1 /\ Is(s[l], "update", r)
    BY <1>6, <2>1
  <2>3. ~Is(s[1], "update", r)
    BY <1>13, <2>2 DEF RepairPlan, Is
  <2>4. QED
    BY <2>2, <2>3 DEF InPlan
<1>15. ASSUME NEW r, InPlan(s, r) PROVE InPlan(t, r) \/ Is(s[1], "update", r)
  <2>1. PICK k \in DOMAIN s : Is(s[k], "update", r)
    BY <1>15 DEF InPlan
  <2>2. CASE k = 1
    BY <2>1, <2>2
  <2>3. CASE k # 1
    <3>1. PICK l \in DOMAIN t : k = l + 1
      BY <1>7, <2>3
    <3>2. Is(t[l], "update", r)
      BY <1>6, <2>1, <3>1
    <3>3. QED
      BY <3>2 DEF InPlan
  <2>4. QED
    BY <2>2, <2>3
<1>16. RepairRest(s, t, list)
  BY <1>5, <1>12, <1>13, <1>14, <1>15 DEF RepairRest
<1>17. QED
  BY <1>4, <1>16

\* What is held stays so: a step that keeps this keeps the versions without a gap.
SameHeld == \A r \in Refs : Held(r) <=> Held(r)'

LEMMA RepairsGoOn ==
    ASSUME NEW list \in ReleaseLists, Repairs(list),
           RepairPlan(tasks', list), Decided', LooksAtCheckpoint', SameHeld, AllAligned(From(list))'
    PROVE  RepairInv'
<1>1. PICK L : L = From(list)
  OBVIOUS
<1>2. L \in Seq(Refs) /\ DOMAIN L = 1 .. Len(L) /\ Len(L) \in Nat
  BY <1>1, FromFacts
<1>3. Closed(L)
  BY <1>1 DEF Repairs
<1>4. Closed(L)'
  <2> SUFFICES ASSUME NEW j \in DOMAIN L, NEW i \in 1 .. j - 1, Held(L[j])'
               PROVE  Held(L[i])'
    BY DEF Closed
  <2>1. PICK a, b : a = L[i] /\ b = L[j]
    OBVIOUS
  <2>2. a \in Refs /\ b \in Refs
    <3>1. i \in DOMAIN L
      BY <1>2
    <3>2. QED
      BY <1>2, <2>1, <3>1
  <2>3. Held(b)'
    BY <2>1
  <2>4. Held(b)
    BY <2>2, <2>3 DEF SameHeld
  <2>5. Held(a)
    BY <1>3, <2>1, <2>4 DEF Closed
  <2>6. Held(a)'
    BY <2>2, <2>5 DEF SameHeld
  <2>7. QED
    BY <2>1, <2>6
<1>5. Repairs(list)'
  BY <1>1, <1>4 DEF Repairs
<1>6. QED
  BY <1>5 DEF RepairInv

\* The facts that every step of a repair uses.
RepairState(list) ==
    /\ Types /\ Progress /\ IsPlan(tasks) /\ RepairTasks(tasks)
    /\ Head(tasks).op \in {"rollback", "purge", "update", "scan"}
    /\ Head(tasks).op # "scan" => Current \in Refs /\ RepairRest(tasks, Tail(tasks), list)
    /\ Decided /\ LooksAtCheckpoint /\ AllAligned(From(list)) /\ RepairPlan(tasks, list)
    /\ From(list) \in Seq(Refs) /\ IsInjective(From(list))

LEMMA RepairStates ==
    ASSUME PlanInv, NEW list \in ReleaseLists, Repairs(list)
    PROVE  RepairState(list)
<1>1. Types /\ Progress /\ IsPlan(tasks)
  BY DEF PlanInv, Progress
<1>2. Decided /\ LooksAtCheckpoint /\ AllAligned(From(list)) /\ RepairPlan(tasks, list)
  BY DEF Repairs
<1>3. RepairTasks(tasks)
  BY <1>2, RepairHead
<1>4. Head(tasks) = tasks[1] /\ tasks # << >> /\ tasks[1].op \in {"rollback", "purge", "update", "scan"}
  BY <1>3 DEF RepairTasks
<1>5. HeadTask(tasks)
  BY <1>1, <1>4, HeadFacts
<1>6. Head(tasks).op # "scan" => Current \in Refs
  BY <1>4, <1>5 DEF HeadTask, Current
<1>7. Head(tasks).op # "scan" => RepairRest(tasks, Tail(tasks), list)
  BY <1>2, <1>4, RepairTail
<1>8. From(list) \in Seq(Refs) /\ IsInjective(From(list))
  BY FromFacts
<1>9. Head(tasks).op \in {"rollback", "purge", "update", "scan"}
  BY <1>4
<1>10. QED
  BY <1>1, <1>2, <1>3, <1>6, <1>7, <1>8, <1>9 DEF RepairState

\* A task other than an update takes nothing out of the plan, an update its version.
LEMMA PlanAfter ==
    ASSUME NEW list, RepairState(list), Head(tasks).op # "scan", tasks' = Tail(tasks)
    PROVE  /\ RepairPlan(tasks', list)
           /\ \A r \in Refs : InPlan(tasks', r) => InPlan(tasks, r)
           /\ \A r \in Refs : InPlan(tasks', r) /\ Head(tasks).op = "update" => r # Current
           /\ \A r \in Refs : InPlan(tasks, r) => InPlan(tasks', r) \/ (Head(tasks).op = "update" /\ r = Current)
<1>1. RepairRest(tasks, Tail(tasks), list) /\ Head(tasks) = tasks[1]
  BY DEF RepairState, RepairTasks
<1>2. QED
  BY <1>1 DEF RepairRest, Is, Current

\* What undoes a version changes nothing that is held or aligned.
LEMMA KeepsHeld ==
    ASSUME Keeps, Types, Types', Decided
    PROVE  Decided' /\ \A r \in Refs : IsDone(r) <=> IsDone(r)'
<1>1. ASSUME NEW r \in Refs PROVE (IsDone(r)' => status'[r] = "done" /\ IsDone(r)) /\ (IsDone(r) => IsDone(r)')
  <2>1. /\ IsDone(r) <=> r \in refs /\ (status[r] = "done" \/ (status[r] = "none" /\ rows[r] \in {"most", "whole"}))
        /\ IsDone(r)' <=> r \in refs' /\ (status'[r] = "done" \/ (status'[r] = "none" /\ rows'[r] \in {"most", "whole"}))
    BY DoneNext
  <2>2. IsDone(r) => status[r] = "done"
    BY DEF Decided
  <2>3. /\ r \in refs' => r \in refs /\ status'[r] = status[r]
        /\ status[r] = "done" /\ r \in refs => r \in refs' /\ status'[r] = "done"
        /\ rows'[r] \in {rows[r], "none", "part"}
    BY DEF Keeps
  <2>4. QED
    BY <2>1, <2>2, <2>3
<1>2. QED
  BY <1>1 DEF Decided

\* The types hold after every step.
LEMMA NextTypes ==
    ASSUME PlanInv, PlanInv'
    PROVE  Types /\ Types'
BY DEF PlanInv

LEMMA UndoRepairs ==
    ASSUME PlanInv, PlanInv', NEW list \in ReleaseLists, Repairs(list), Undo
    PROVE  RepairInv'
<1>1. RepairState(list) /\ Types'
  BY RepairStates, NextTypes
<1>2. Keeps /\ TaskDone /\ Head(tasks).op \in {"rollback", "partial"}
  BY UndoKeeps
<1>3. tasks' = Tail(tasks) /\ pc' = "task" /\ UNCHANGED <<vid, old, realigned>> /\ baseOf' = baseOf
  BY <1>2 DEF TaskDone, Undo, Keeps
<1>4. RepairPlan(tasks', list) /\ \A r \in Refs : InPlan(tasks, r) <=> InPlan(tasks', r)
  BY <1>1, <1>2, <1>3, PlanAfter
<1>5. Decided' /\ \A r \in Refs : IsDone(r) <=> IsDone(r)'
  BY <1>1, <1>2, KeepsHeld DEF RepairState
<1>6. SameHeld
  BY <1>4, <1>5 DEF SameHeld, Held
<1>7. LooksAtCheckpoint'
  BY <1>3 DEF LooksAtCheckpoint
<1>8. AllAligned(From(list))'
  <2>1. PICK L : L = From(list)
    OBVIOUS
  <2>2. L \in Seq(Refs) /\ AllAligned(L)
    BY <1>1, <2>1 DEF RepairState
  <2>3. ASSUME NEW i \in DOMAIN L, L[i] \in realigned' PROVE Aligned(L, i)'
    <3>1. L[i] \in Refs /\ Aligned(L, i)
      BY <1>3, <2>2, <2>3 DEF AllAligned
    <3>2. status[L[i]] = "done" /\ baseOf[L[i]] = Before(L, i) /\ ~InPlan(tasks, L[i])
      BY <1>2, <3>1 DEF Aligned, Is
    <3>3. status'[L[i]] = "done" /\ baseOf'[L[i]] = Before(L, i) /\ ~InPlan(tasks', L[i])
      BY <1>2, <1>3, <1>4, <3>1, <3>2 DEF Keeps
    <3>4. QED
      BY <3>3 DEF Aligned, Before
  <2>4. QED
    BY <2>1, <2>3 DEF AllAligned
<1>9. QED
  BY <1>4, <1>5, <1>6, <1>7, <1>8, RepairsGoOn

LEMMA PurgeRepairs ==
    ASSUME PlanInv, PlanInv', NEW list \in ReleaseLists, Repairs(list), PurgeSuccessor
    PROVE  RepairInv'
<1>1. RepairState(list) /\ Types'
  BY RepairStates, NextTypes
<1>2. /\ pc = "task" /\ tasks # << >> /\ Head(tasks).op = "purge" /\ tasks' = Tail(tasks) /\ pc' = "task"
      /\ realigned' = realigned \cup {Current} /\ UNCHANGED <<vid, old, expired>>
      /\ rows' = [rows EXCEPT ![Current] = "none"] /\ UNCHANGED <<refs, baseOf>>
      /\ status' = [status EXCEPT ![Current] = IF @ = "none" THEN @ ELSE "parsing"]
  BY DEF PurgeSuccessor, NextIs, TaskDone, PurgeDifferentialRows
<1>3. RepairPlan(tasks', list) /\ \A r \in Refs : InPlan(tasks, r) <=> InPlan(tasks', r)
  BY <1>1, <1>2, PlanAfter
<1>4. PICK c \in Refs : c = Current
  BY <1>1, <1>2 DEF RepairState
<1>5. Types /\ status \in [Refs -> States] /\ rows \in [Refs -> Extents]
  BY <1>1 DEF RepairState, Types
<1>6. /\ \A r \in Refs : r # c => status'[r] = status[r] /\ rows'[r] = rows[r]
      /\ status'[c] # "done" /\ rows'[c] = "none"
  BY <1>2, <1>4, <1>5
<1>7. PreviousIngest(c)' # "done" /\ ~IsDone(c)'
  BY <1>1, <1>4, <1>5, <1>6, DoneNext
<1>8. \A r \in Refs : r # c => (IsDone(r) <=> IsDone(r)')
  BY <1>1, <1>2, <1>5, <1>6, DoneNext
<1>9. Decided'
  BY <1>1, <1>6, <1>7, <1>8 DEF RepairState, Decided
<1>10. /\ tasks'[1] = tasks[2] /\ 2 \in DOMAIN tasks /\ Head(tasks) = tasks[1] /\ tasks' # << >>
       /\ 1 \in DOMAIN tasks
  BY <1>1, <1>2 DEF RepairState, RepairRest, RepairTasks
<1>11. RepairTasks(tasks')
  BY <1>3, RepairHead
<1>12. Is(Head(tasks'), "update", c)
  <2>1. 1 + 1 = 2
    OBVIOUS
  <2>2. Is(tasks[2], "update", tasks[1].ref)
    BY <1>1, <1>2, <1>10, <2>1 DEF RepairState, IsPlan, Links
  <2>3. Head(tasks') = tasks'[1]
    BY <1>11 DEF RepairTasks
  <2>4. QED
    BY <1>4, <1>10, <2>2, <2>3 DEF Current
<1>13. InPlan(tasks', c)
  BY <1>11, <1>12 DEF RepairTasks
<1>14. SameHeld
  BY <1>3, <1>8, <1>13, <1>4 DEF SameHeld, Held
<1>15. LooksAtCheckpoint'
  BY <1>2 DEF LooksAtCheckpoint
<1>16. AllAligned(From(list))'
  <2>1. PICK L : L = From(list)
    OBVIOUS
  <2>2. L \in Seq(Refs) /\ AllAligned(L) /\ IsInjective(L) /\ DOMAIN L = 1 .. Len(L) /\ Len(L) \in Nat
    BY <1>1, <2>1 DEF RepairState
  <2>3. PICK k \in 2 .. Len(L) : tasks[1].ref = L[k] /\ tasks[1].base = L[k - 1]
    BY <1>1, <1>2, <1>10, <2>1 DEF RepairState, RepairPlan
  <2>4. k \in DOMAIN L /\ L[k] = c /\ vid = L[k - 1] /\ Before(L, k) = L[k - 1]
    BY <1>1, <1>2, <1>4, <1>10, <2>2, <2>3 DEF RepairState, Progress, Current, Before
  <2>5. ASSUME NEW i \in DOMAIN L, L[i] \in realigned' PROVE Aligned(L, i)'
    <3>1. CASE L[i] = c
      <4>1. i = k
        BY <2>2, <2>4, <3>1 DEF IsInjective
      <4>2. vid' = Before(L, i)
        BY <1>2, <2>4, <4>1
      <4>3. PreviousIngest(L[i])' # "done" /\ Is(Head(tasks'), "update", L[i])
        BY <1>7, <1>12, <3>1
      <4>4. QED
        BY <1>2, <4>2, <4>3 DEF Aligned, Before
    <3>2. CASE L[i] # c
      <4>1. L[i] \in Refs /\ Aligned(L, i)
        BY <1>2, <1>4, <2>2, <2>5, <3>2 DEF AllAligned
      <4>2. status[L[i]] = "done" /\ baseOf[L[i]] = Before(L, i) /\ ~InPlan(tasks, L[i])
        BY <1>2, <4>1 DEF Aligned, Is
      <4>3. status'[L[i]] = "done" /\ baseOf'[L[i]] = Before(L, i) /\ ~InPlan(tasks', L[i])
        BY <1>2, <1>3, <1>6, <3>2, <4>1, <4>2
      <4>4. QED
        BY <4>3 DEF Aligned, Before
    <3>3. QED
      BY <3>1, <3>2
  <2>6. QED
    BY <2>1, <2>5 DEF AllAligned
<1>17. QED
  BY <1>3, <1>9, <1>14, <1>15, <1>16, RepairsGoOn

LEMMA StartRepairs ==
    ASSUME PlanInv, NEW list \in ReleaseLists, Repairs(list), StartUpdate
    PROVE  RepairInv'
<1>1. RepairState(list)
  BY RepairStates
<1>2. /\ pc = "task" /\ Head(tasks).op = "update" /\ pc' = "check" /\ old' = Head(tasks).base
      /\ UNCHANGED <<commits, refs, status, rows, baseOf, tasks, vid, realigned, expired>>
  BY DEF StartUpdate, NextIs, dbVars
<1>3. RepairPlan(tasks', list)
  BY <1>1, <1>2 DEF RepairState
<1>4. \A r : (IsDone(r) <=> IsDone(r)') /\ PreviousIngest(r)' = PreviousIngest(r)
  BY <1>2 DEF IsDone, StateOf, PreviousIngest
<1>5. Decided' /\ SameHeld
  BY <1>1, <1>2, <1>4 DEF RepairState, Decided, SameHeld, Held
<1>6. LooksAtCheckpoint'
  <2>1. HeadTask(tasks)
    BY <1>1, HeadFacts DEF RepairState, RepairTasks
  <2>2. Current \in Tags \/ Head(tasks).base = NoRef
    BY <1>2, <2>1 DEF HeadTask, Current
  <2>3. QED
    BY <1>2, <2>2 DEF LooksAtCheckpoint, Current
<1>7. AllAligned(From(list))'
  <2>1. PICK L : L = From(list)
    OBVIOUS
  <2>2. AllAligned(L)
    BY <1>1, <2>1 DEF RepairState
  <2>3. ASSUME NEW i \in DOMAIN L, L[i] \in realigned' PROVE Aligned(L, i)'
    <3>1. Aligned(L, i)
      BY <1>2, <2>2, <2>3 DEF AllAligned
    <3>2. PreviousIngest(L[i])' = PreviousIngest(L[i])
      BY <1>4
    <3>3. QED
      BY <1>2, <3>1, <3>2 DEF Aligned, Before
  <2>4. QED
    BY <2>1, <2>3 DEF AllAligned
<1>8. QED
  BY <1>3, <1>5, <1>6, <1>7, RepairsGoOn

LEMMA SkipRepairs ==
    ASSUME PlanInv, PlanInv', NEW list \in ReleaseLists, Repairs(list), SkipDone
    PROVE  RepairInv'
<1>1. RepairState(list) /\ Types /\ Types'
  BY RepairStates, NextTypes
<1>2. /\ pc = "check" /\ Earlier(Current) = "done" /\ pc' = "task" /\ tasks' = Tail(tasks)
      /\ status' = [status EXCEPT ![Current] = "done"] /\ refs' = refs \cup {Current}
      /\ UNCHANGED <<rows, baseOf, realigned>>
  BY DEF SkipDone, TaskDone
<1>3. Head(tasks).op = "update"
  BY <1>1, <1>2 DEF RepairState, Progress
<1>4. PICK c \in Refs : c = Current
  BY <1>1, <1>3 DEF RepairState
<1>5. PreviousIngest(c) = "done"
  BY <1>2, <1>4 DEF Earlier
<1>6. InPlan(tasks, c)
  BY <1>1, <1>3, <1>4 DEF RepairState, RepairTasks, Is, Current
<1>7. RepairPlan(tasks', list)
      /\ \A r \in Refs : (InPlan(tasks', r) => InPlan(tasks, r) /\ r # c) /\ (InPlan(tasks, r) => InPlan(tasks', r) \/ r = c)
  BY <1>1, <1>2, <1>3, <1>4, PlanAfter
<1>8. status'[c] = "done" /\ c \in refs' /\ \A r \in Refs : r # c => status'[r] = status[r] /\ (r \in refs' <=> r \in refs)
  BY <1>1, <1>2, <1>4 DEF Types
<1>9. IsDone(c)' /\ \A r \in Refs : r # c => (IsDone(r) <=> IsDone(r)')
  BY <1>1, <1>2, <1>4, <1>8, DoneNext
<1>10. Decided'
  BY <1>1, <1>8, <1>9 DEF RepairState, Decided
<1>11. SameHeld
  BY <1>6, <1>7, <1>9 DEF SameHeld, Held
<1>12. LooksAtCheckpoint'
  BY <1>2 DEF LooksAtCheckpoint
<1>13. AllAligned(From(list))'
  <2>1. PICK L : L = From(list)
    OBVIOUS
  <2>2. L \in Seq(Refs) /\ AllAligned(L)
    BY <1>1, <2>1 DEF RepairState
  <2>3. ASSUME NEW i \in DOMAIN L, L[i] \in realigned' PROVE Aligned(L, i)'
    <3>1. L[i] \in Refs /\ Aligned(L, i)
      BY <1>2, <2>2, <2>3 DEF AllAligned
    <3>2. Is(Head(tasks), "update", L[i]) => L[i] = c
      BY <1>4 DEF Is, Current
    <3>3. status[L[i]] = "done" /\ baseOf[L[i]] = Before(L, i) /\ ~InPlan(tasks, L[i])
      BY <1>2, <1>5, <3>1, <3>2 DEF Aligned
    <3>4. status'[L[i]] = "done" /\ baseOf'[L[i]] = Before(L, i) /\ ~InPlan(tasks', L[i])
      BY <1>2, <1>7, <1>8, <3>1, <3>3
    <3>5. QED
      BY <3>4 DEF Aligned, Before
  <2>4. QED
    BY <2>1, <2>3 DEF AllAligned
<1>14. QED
  BY <1>7, <1>10, <1>11, <1>12, <1>13, RepairsGoOn

LEMMA RecoverRepairs ==
    ASSUME PlanInv, PlanInv', NEW list \in ReleaseLists, Repairs(list), Recover
    PROVE  RepairInv'
<1>1. RepairState(list) /\ Types /\ Types'
  BY RepairStates, NextTypes
<1>2. /\ pc = "check" /\ pc' = "begin" /\ UNCHANGED <<tasks, vid, old, realigned, expired>> /\ Keeps
      /\ PreviousIngest(Current) # "done" => (rows' = rows /\ status' = status) \/ rows'[Current] = "none"
  BY RecoverKeeps DEF Recover, processVars
<1>3. RepairPlan(tasks', list)
  BY <1>1, <1>2 DEF RepairState
<1>4. Decided' /\ \A r \in Refs : IsDone(r) <=> IsDone(r)'
  BY <1>1, <1>2, KeepsHeld DEF RepairState
<1>5. SameHeld
  BY <1>2, <1>4 DEF SameHeld, Held
<1>6. LooksAtCheckpoint'
  BY <1>2 DEF LooksAtCheckpoint
<1>7. AllAligned(From(list))'
  <2>1. PICK L : L = From(list)
    OBVIOUS
  <2>2. L \in Seq(Refs) /\ AllAligned(L)
    BY <1>1, <2>1 DEF RepairState
  <2>3. ASSUME NEW i \in DOMAIN L, L[i] \in realigned' PROVE Aligned(L, i)'
    <3>1. L[i] \in Refs /\ Aligned(L, i)
      BY <1>2, <2>2, <2>3 DEF AllAligned
    <3>2. CASE Is(Head(tasks), "update", L[i])
      <4>1. L[i] = Current
        BY <3>2 DEF Is, Current
      <4>2. PreviousIngest(L[i]) # "done" => PreviousIngest(L[i])' # "done"
        <5>1. CASE rows' = rows /\ status' = status
          BY <5>1 DEF PreviousIngest
        <5>2. CASE rows'[Current] = "none"
          <6>1. PreviousIngest(L[i]) # "done" => status[L[i]] # "done"
            BY <1>1, <3>1, DoneFacts
          <6>2. PreviousIngest(L[i]) # "done" => status'[L[i]] # "done"
            BY <1>2, <3>1, <6>1 DEF Keeps
          <6>3. QED
            BY <1>1, <3>1, <4>1, <5>2, <6>2, DoneNext
        <5>3. QED
          BY <1>2, <4>1, <5>1, <5>2
      <4>3. (status[L[i]] = "done" => status'[L[i]] = "done") /\ baseOf' = baseOf
        BY <1>2, <3>1 DEF Keeps
      <4>4. QED
        BY <1>2, <3>1, <4>2, <4>3 DEF Aligned, Before
    <3>3. CASE ~Is(Head(tasks), "update", L[i])
      <4>1. status[L[i]] = "done" /\ baseOf[L[i]] = Before(L, i) /\ ~InPlan(tasks, L[i])
        BY <3>1, <3>3 DEF Aligned
      <4>2. status'[L[i]] = "done" /\ baseOf' = baseOf
        BY <1>2, <3>1, <4>1 DEF Keeps
      <4>3. QED
        BY <1>2, <4>1, <4>2 DEF Aligned, Before
    <3>4. QED
      BY <3>2, <3>3
  <2>4. QED
    BY <2>1, <2>3 DEF AllAligned
<1>8. QED
  BY <1>3, <1>4, <1>5, <1>6, <1>7, RepairsGoOn

LEMMA BeginRepairs ==
    ASSUME PlanInv, PlanInv', NEW list \in ReleaseLists, Repairs(list), Begin
    PROVE  RepairInv'
<1>1. RepairState(list) /\ Types /\ Types'
  BY RepairStates, NextTypes
<1>2. /\ pc = "begin" /\ pc' = "parse" /\ old' = vid /\ status' = [status EXCEPT ![Current] = "parsing"]
      /\ refs' = refs \cup {Current} /\ UNCHANGED <<rows, baseOf, tasks, realigned>>
  BY DEF Begin, Moves
<1>3. Head(tasks).op = "update"
  BY <1>1, <1>2 DEF RepairState, Progress
<1>4. PICK c \in Refs : c = Current
  BY <1>1, <1>3 DEF RepairState
<1>5. RepairPlan(tasks', list)
  BY <1>1, <1>2 DEF RepairState
<1>6. InPlan(tasks, c)
  BY <1>1, <1>3, <1>4 DEF RepairState, RepairTasks, Is, Current
<1>7. status \in [Refs -> States]
  BY <1>1 DEF Types
<1>8. status'[c] = "parsing" /\ \A r \in Refs : r # c => status'[r] = status[r] /\ (r \in refs' <=> r \in refs)
  BY <1>2, <1>4, <1>7
<1>9. ~IsDone(c)' /\ \A r \in Refs : r # c => (IsDone(r) <=> IsDone(r)')
  BY <1>1, <1>2, <1>4, <1>8, DoneNext
<1>10. Decided'
  BY <1>1, <1>8, <1>9 DEF RepairState, Decided
<1>11. SameHeld
  BY <1>2, <1>6, <1>9 DEF SameHeld, Held
<1>12. LooksAtCheckpoint'
  BY <1>2 DEF LooksAtCheckpoint
<1>13. AllAligned(From(list))'
  <2>1. PICK L : L = From(list)
    OBVIOUS
  <2>2. L \in Seq(Refs) /\ AllAligned(L)
    BY <1>1, <2>1 DEF RepairState
  <2>3. ASSUME NEW i \in DOMAIN L, L[i] \in realigned' PROVE Aligned(L, i)'
    <3>1. L[i] \in Refs /\ Aligned(L, i)
      BY <1>2, <2>2, <2>3 DEF AllAligned
    <3>2. CASE L[i] = c
      <4>1. Is(Head(tasks), "update", L[i]) /\ vid = Before(L, i)
        BY <1>6, <3>1, <3>2, <1>2 DEF Aligned
      <4>2. QED
        BY <1>2, <4>1 DEF Aligned, Before
    <3>3. CASE L[i] # c
      <4>1. ~Is(Head(tasks), "update", L[i])
        BY <1>4, <3>3 DEF Is, Current
      <4>2. status[L[i]] = "done" /\ baseOf[L[i]] = Before(L, i) /\ ~InPlan(tasks, L[i])
        BY <3>1, <4>1 DEF Aligned
      <4>3. status'[L[i]] = "done" /\ baseOf'[L[i]] = Before(L, i) /\ ~InPlan(tasks', L[i])
        BY <1>2, <1>8, <3>1, <3>3, <4>2
      <4>4. QED
        BY <4>3 DEF Aligned, Before
    <3>4. QED
      BY <3>2, <3>3
  <2>4. QED
    BY <2>1, <2>3 DEF AllAligned
<1>14. QED
  BY <1>5, <1>10, <1>11, <1>12, <1>13, RepairsGoOn

LEMMA WriteRepairs ==
    ASSUME PlanInv, PlanInv', NEW list \in ReleaseLists, Repairs(list), Write
    PROVE  RepairInv'
<1>1. RepairState(list) /\ Types /\ Types'
  BY RepairStates, NextTypes
<1>2. /\ pc = "parse" /\ pc' = "parse" /\ \E extent \in {"part", "most"} : rows' = [rows EXCEPT ![Current] = extent]
      /\ UNCHANGED <<refs, status, baseOf, tasks, vid, old, realigned>>
  BY DEF Write, processVars
<1>3. Head(tasks).op = "update"
  BY <1>1, <1>2 DEF RepairState, Progress
<1>4. PICK c \in Refs : c = Current
  BY <1>1, <1>3 DEF RepairState
<1>5. RepairPlan(tasks', list)
  BY <1>1, <1>2 DEF RepairState
<1>6. status[c] = "parsing"
  BY <1>1, <1>2, <1>4 DEF RepairState, Progress
<1>7. \A r \in Refs : r # c => rows'[r] = rows[r]
  BY <1>1, <1>2, <1>4 DEF Types
<1>8. ASSUME NEW r \in Refs PROVE (IsDone(r)' => status'[r] = "done") /\ (IsDone(r) <=> IsDone(r)')
  <2>1. IsDone(r) <=> IsDone(r)'
    BY <1>1, <1>2, <1>6, <1>7, DoneNext
  <2>2. IsDone(r) => status[r] = "done"
    BY <1>1 DEF RepairState, Decided
  <2>3. QED
    BY <1>2, <2>1, <2>2
<1>9. Decided'
  BY <1>8 DEF Decided
<1>10. SameHeld
  BY <1>2, <1>8 DEF SameHeld, Held
<1>11. LooksAtCheckpoint'
  BY <1>2 DEF LooksAtCheckpoint
<1>12. AllAligned(From(list))'
  <2>1. PICK L : L = From(list)
    OBVIOUS
  <2>2. AllAligned(L)
    BY <1>1, <2>1 DEF RepairState
  <2>3. ASSUME NEW i \in DOMAIN L, L[i] \in realigned' PROVE Aligned(L, i)'
    <3>1. Aligned(L, i)
      BY <1>2, <2>2, <2>3 DEF AllAligned
    <3>2. QED
      BY <1>2, <3>1 DEF Aligned, Before
  <2>4. QED
    BY <2>1, <2>3 DEF AllAligned
<1>13. QED
  BY <1>5, <1>9, <1>10, <1>11, <1>12, RepairsGoOn

LEMMA FinishRepairs ==
    ASSUME PlanInv, PlanInv', NEW list \in ReleaseLists, Repairs(list), Finish
    PROVE  RepairInv'
<1>1. RepairState(list) /\ Types /\ Types' /\ Registered
  BY RepairStates, NextTypes DEF PlanInv
<1>2. /\ pc = "parse" /\ pc' = "task" /\ tasks' = Tail(tasks)
      /\ rows' = [rows EXCEPT ![Current] = "whole"] /\ baseOf' = [baseOf EXCEPT ![Current] = old]
      /\ status' = [status EXCEPT ![Current] = "done"] /\ UNCHANGED <<refs, realigned>>
  BY DEF Finish, TaskDone
<1>3. Head(tasks).op = "update"
  BY <1>1, <1>2 DEF RepairState, Progress
<1>4. PICK c \in Refs : c = Current
  BY <1>1, <1>3 DEF RepairState
<1>5. RepairPlan(tasks', list)
      /\ \A r \in Refs : (InPlan(tasks', r) => InPlan(tasks, r) /\ r # c) /\ (InPlan(tasks, r) => InPlan(tasks', r) \/ r = c)
  BY <1>1, <1>2, <1>3, <1>4, PlanAfter
<1>6. InPlan(tasks, c)
  BY <1>1, <1>3, <1>4 DEF RepairState, RepairTasks, Is, Current
<1>7. status \in [Refs -> States] /\ rows \in [Refs -> Extents] /\ baseOf \in [Refs -> Bases]
  BY <1>1 DEF Types
<1>a. c \in refs
  BY <1>1, <1>2, <1>4 DEF RepairState, Progress, Registered
<1>8. /\ status'[c] = "done" /\ baseOf'[c] = old
      /\ \A r \in Refs : r # c => status'[r] = status[r] /\ rows'[r] = rows[r] /\ baseOf'[r] = baseOf[r]
  BY <1>2, <1>4, <1>7
<1>9. IsDone(c)' /\ \A r \in Refs : r # c => (IsDone(r) <=> IsDone(r)')
  BY <1>1, <1>2, <1>4, <1>8, <1>a, DoneNext
<1>10. Decided'
  BY <1>1, <1>8, <1>9 DEF RepairState, Decided
<1>11. SameHeld
  BY <1>5, <1>6, <1>9 DEF SameHeld, Held
<1>12. LooksAtCheckpoint'
  BY <1>2 DEF LooksAtCheckpoint
<1>13. AllAligned(From(list))'
  <2>1. PICK L : L = From(list)
    OBVIOUS
  <2>2. L \in Seq(Refs) /\ AllAligned(L)
    BY <1>1, <2>1 DEF RepairState
  <2>3. ASSUME NEW i \in DOMAIN L, L[i] \in realigned' PROVE Aligned(L, i)'
    <3>1. L[i] \in Refs /\ Aligned(L, i)
      BY <1>2, <2>2, <2>3 DEF AllAligned
    <3>2. CASE L[i] = c
      <4>1. old = Before(L, i)
        BY <1>2, <1>6, <3>1, <3>2 DEF Aligned
      <4>2. status'[L[i]] = "done" /\ baseOf'[L[i]] = Before(L, i) /\ ~InPlan(tasks', L[i])
        BY <1>5, <1>8, <3>2, <4>1
      <4>3. QED
        BY <4>2 DEF Aligned, Before
    <3>3. CASE L[i] # c
      <4>1. ~Is(Head(tasks), "update", L[i])
        BY <1>4, <3>3 DEF Is, Current
      <4>2. status[L[i]] = "done" /\ baseOf[L[i]] = Before(L, i) /\ ~InPlan(tasks, L[i])
        BY <3>1, <4>1 DEF Aligned
      <4>3. status'[L[i]] = "done" /\ baseOf'[L[i]] = Before(L, i) /\ ~InPlan(tasks', L[i])
        BY <1>5, <1>8, <3>1, <3>3, <4>2
      <4>4. QED
        BY <4>3 DEF Aligned, Before
    <3>4. QED
      BY <3>2, <3>3
  <2>4. QED
    BY <2>1, <2>3 DEF AllAligned
<1>14. QED
  BY <1>5, <1>10, <1>11, <1>12, <1>13, RepairsGoOn

\* A repair begins with nothing realigned, and no gap but those it is to fill.
LEMMA LaunchRepairs ==
    ASSUME PlanInv, PlanInv', NEW list \in ReleaseLists, LaunchRepair(list)
    PROVE  RepairInv'
<1>1. PICK L, s : L = From(list) /\ s = GapTasks(L) \o <<[op |-> "scan", list |-> list]>>
  OBVIOUS
<1>2. /\ pc = "down" /\ pc' = "task" /\ tasks' = s /\ status' = WithStatesOf(refs) /\ UNCHANGED <<refs, rows, realigned>>
  BY <1>1 DEF LaunchRepair, IsDown, UnchangedButStates, Goes
<1>3. /\ RepairPlan(s, list) /\ \A i \in DOMAIN L : Missing(L, i) => InPlan(s, L[i])
      /\ \A i \in DOMAIN L : InPlan(s, L[i]) => Planned(L, i)
  BY <1>1, RepairIsPlan
<1>4. L \in Seq(Refs) /\ DOMAIN L = 1 .. Len(L) /\ Len(L) \in Nat
  BY <1>1, FromFacts
<1>5. Types /\ Types' /\ realigned = {}
  BY <1>2 DEF PlanInv, Progress
<1>6. PICK w : w = refs
  OBVIOUS
<1>7. Resolves(w)
  BY <1>5, WithStatesFacts
<1>8. \A r \in Refs : /\ status[r] = "done" => status'[r] = "done"
                      /\ ~IsDone(r) => status'[r] = status[r]
                      /\ r \in refs /\ IsDone(r) => status'[r] = "done"
  BY <1>2, <1>6, <1>7 DEF Resolves
<1>9. ASSUME NEW r \in Refs PROVE (IsDone(r)' => status'[r] = "done") /\ (IsDone(r) <=> IsDone(r)')
  <2>1. /\ IsDone(r) <=> r \in refs /\ (status[r] = "done" \/ (status[r] = "none" /\ rows[r] \in {"most", "whole"}))
        /\ IsDone(r)' <=> r \in refs' /\ (status'[r] = "done" \/ (status'[r] = "none" /\ rows'[r] \in {"most", "whole"}))
    BY <1>5, DoneNext
  <2>2. QED
    BY <1>2, <1>8, <2>1
<1>10. Decided'
  BY <1>9 DEF Decided
<1>11. LooksAtCheckpoint'
  BY <1>2 DEF LooksAtCheckpoint
<1>12. AllAligned(L)'
  BY <1>2, <1>5 DEF AllAligned
<1>13. Closed(L)'
  <2> SUFFICES ASSUME NEW j \in DOMAIN L, NEW i \in 1 .. j - 1, Held(L[j])'
               PROVE  Held(L[i])'
    BY DEF Closed
  <2>1. i \in DOMAIN L /\ i < j /\ j \in Nat /\ i \in Nat /\ j <= Len(L) /\ L[i] \in Refs /\ L[j] \in Refs
    BY <1>4
  <2>2. Held(L[j])' => IsDone(L[j]) \/ InPlan(s, L[j])
    BY <1>2, <1>9, <2>1 DEF Held
  <2>3. IsDone(L[i]) \/ Missing(L, i) => Held(L[i])'
    BY <1>2, <1>3, <1>9, <2>1 DEF Held
  <2>4. ASSUME NEW k \in DOMAIN L, IsDone(L[k]), i < k PROVE IsDone(L[i]) \/ Missing(L, i)
    <3>1. k \in i + 1 .. Len(L)
      BY <1>4, <2>1, <2>4
    <3>2. QED
      BY <2>4, <3>1 DEF Missing
  <2>5. CASE IsDone(L[j])
    BY <2>1, <2>3, <2>4, <2>5
  <2>6. CASE Missing(L, j)
    <3>1. PICK k \in j + 1 .. Len(L) : IsDone(L[k])
      BY <2>6 DEF Missing
    <3>2. k \in DOMAIN L /\ i < k
      BY <1>4, <2>1, <3>1
    <3>3. QED
      BY <2>3, <2>4, <3>1, <3>2
  <2>7. CASE j > 1 /\ Missing(L, j - 1)
    <3>1. PICK k \in j - 1 + 1 .. Len(L) : IsDone(L[k])
      BY <2>7 DEF Missing
    <3>2. k \in DOMAIN L /\ i < k
      BY <1>4, <2>1, <3>1
    <3>3. QED
      BY <2>3, <2>4, <3>1, <3>2
  <2>8. QED
    BY <1>3, <2>2, <2>5, <2>6, <2>7 DEF Planned
<1>14. RepairPlan(tasks', list)
  BY <1>2, <1>3
<1>15. Repairs(list)'
  BY <1>1, <1>10, <1>11, <1>12, <1>13, <1>14 DEF Repairs
<1>16. QED
  BY <1>15 DEF RepairInv

\* What is launched otherwise, and what follows the scan, has no scan.
LEMMA PlainRuns ==
    ASSUME PlanInv, NEW s, IsStart(s), Goes(s)
    PROVE  RepairInv'
BY DEF IsStart, Goes, RepairInv

LEMMA LaunchKeepsRepairs ==
    ASSUME PlanInv, PlanInv', Launch
    PROVE  RepairInv'
<1>1. ASSUME NEW list \in ReleaseLists, LaunchRelease(list) PROVE RepairInv'
  <2>1. PICK s : s = Rest(list)
    OBVIOUS
  <2>2. IsStart(s) /\ Goes(s)
    BY <1>1, <2>1, RestIsPlan DEF LaunchRelease
  <2>3. QED
    BY <2>2, PlainRuns
<1>2. ASSUME NEW list \in ReleaseLists, LaunchBackfill(From(list)) PROVE RepairInv'
  <2>1. Ordered(From(list)) /\ refs \subseteq Refs
    BY FromFacts DEF Ordered, PlanInv, Types
  <2>2. PICK i \in DOMAIN From(list) : Goes(BackfillTasks(From(list), i))
    BY <1>2 DEF LaunchBackfill
  <2>3. PICK L, s : L = From(list) /\ s = BackfillTasks(L, i)
    OBVIOUS
  <2>4. IsStart(s) /\ Goes(s)
    BY <2>1, <2>2, <2>3, BackfillIsPlan
  <2>5. QED
    BY <2>4, PlainRuns
<1>3. ASSUME NEW list \in BranchLists, LaunchBranches(list) PROVE RepairInv'
  <2>1. PICK S, open, s : /\ S = {r \in Refs : StateOf(r) # "done"} /\ open = Those(list, S)
                          /\ s = [i \in DOMAIN open |-> Task("branch", open[i], NoRef)]
    OBVIOUS
  <2>2. IsStart(s) /\ Goes(s)
    BY <1>3, <2>1, BranchesArePlan DEF LaunchBranches
  <2>3. QED
    BY <2>2, PlainRuns
<1>4. RepairLists \subseteq ReleaseLists
  BY PipelineAssumptions
<1>5. QED
  BY <1>1, <1>2, <1>3, <1>4, LaunchRepairs DEF Launch

LEMMA NextRepairs ==
    ASSUME PlanInv, PlanInv', RepairInv, [Next]_vars
    PROVE  RepairInv'
<1>1. CASE tasks' = << >>
  BY <1>1 DEF RepairInv
<1>2. CASE Launch
  BY <1>2, LaunchKeepsRepairs
<1>3. CASE expired'
  BY <1>3 DEF RepairInv
<1>4. CASE Rescan
  <2>1. tasks # << >> /\ Head(tasks).op = "scan" /\ IsPlan(tasks)
    BY <1>4 DEF Rescan, NextIs, PlanInv, Progress
  <2>2. PICK list \in ReleaseLists : list = Head(tasks).list
    BY <2>1, HeadFacts DEF HeadTask
  <2>3. PICK s : s = Rest(list)
    OBVIOUS
  <2>4. IsStart(s) /\ Goes(s)
    BY <1>4, <2>2, <2>3, RestIsPlan DEF Rescan
  <2>5. QED
    BY <2>4, PlainRuns
<1>5. ASSUME Step, tasks \in Seq(Plain), ~Rescan, tasks' # << >> PROVE RepairInv'
  <2>1. tasks' = tasks \/ (tasks' = Tail(tasks) /\ tasks # << >>)
    <3>1. CASE pc = "parse" \/ pc = "check"
      <4>1. tasks # << >>
        BY <3>1 DEF PlanInv, Progress
      <4>2. QED
        BY <1>5, <4>1 DEF Step, Undo, PurgeSuccessor, StartUpdate, StartNext, StopsEarly, AllTasksDone, SkipDone,
           Recover, Refuse, Begin, Write, Finish, ReturnEarly, NextIs, TaskDone, ProcessEnds, processVars
    <3>2. CASE ~(pc = "parse" \/ pc = "check")
      BY <1>5, <3>2 DEF Step, Undo, PurgeSuccessor, StartUpdate, StartNext, StopsEarly, AllTasksDone, SkipDone,
         Recover, Refuse, Begin, Write, Finish, ReturnEarly, NextIs, TaskDone, ProcessEnds, processVars
    <3>3. QED
      BY <3>1, <3>2
  <2>2. tasks' \in Seq(Plain)
    BY <1>5, <2>1
  <2>3. QED
    BY <2>2 DEF RepairInv
<1>6. ASSUME Step, NEW list \in ReleaseLists, Repairs(list), ~expired, ~expired', ~Rescan, tasks' # << >>
      PROVE  RepairInv'
  <2>1. RepairState(list)
    BY <1>6, RepairStates
  <2>2. ~StartNext /\ ~StopsEarly /\ ~AllTasksDone /\ ~Refuse /\ ~ReturnEarly
    BY <1>6, <2>1 DEF RepairState, StartNext, StopsEarly, AllTasksDone, Refuse, ReturnEarly, NextIs, ProcessEnds
  <2>3. Undo \/ PurgeSuccessor \/ StartUpdate \/ SkipDone \/ Recover \/ Begin \/ Write \/ Finish
    BY <1>6, <2>2 DEF Step
  <2>4. QED
    BY <1>6, <2>3, UndoRepairs, PurgeRepairs, StartRepairs, SkipRepairs, RecoverRepairs, BeginRepairs, WriteRepairs,
       FinishRepairs
<1>7. CASE Step
  <2>1. expired' = expired \/ tasks' = << >>
    BY <1>7 DEF Step, Undo, PurgeSuccessor, StartUpdate, StartNext, StopsEarly, Rescan, AllTasksDone, SkipDone,
       Recover, Refuse, Begin, Write, Finish, ReturnEarly, ProcessEnds, processVars
  <2>2. QED
    BY <1>1, <1>3, <1>4, <1>5, <1>6, <1>7, <2>1 DEF RepairInv
<1>8. CASE Expire
  BY <1>3, <1>8 DEF Expire
<1>9. CASE Crash
  BY <1>1, <1>9 DEF Crash, ProcessEnds
<1>10. CASE UNCHANGED vars
  <2>1. tasks' = tasks /\ expired' = expired /\ pc' = pc /\ old' = old /\ vid' = vid /\ realigned' = realigned
        /\ refs' = refs /\ status' = status /\ rows' = rows /\ baseOf' = baseOf
    BY <1>10 DEF vars, dbVars, processVars
  <2>2. ASSUME NEW list \in ReleaseLists, Repairs(list) PROVE RepairInv'
    <3>1. RepairState(list)
      BY <2>2, RepairStates
    <3>2. \A r : (IsDone(r) <=> IsDone(r)') /\ PreviousIngest(r)' = PreviousIngest(r)
      BY <2>1 DEF IsDone, StateOf, PreviousIngest
    <3>3. RepairPlan(tasks', list) /\ Decided' /\ LooksAtCheckpoint' /\ SameHeld
      BY <2>1, <3>1, <3>2 DEF RepairState, Decided, LooksAtCheckpoint, SameHeld, Held, Current
    <3>4. AllAligned(From(list))'
      <4>1. PICK L : L = From(list)
        OBVIOUS
      <4>2. ASSUME NEW i \in DOMAIN L, L[i] \in realigned' PROVE Aligned(L, i)'
        <5>1. Aligned(L, i)
          BY <2>1, <3>1, <4>1, <4>2 DEF RepairState, AllAligned
        <5>2. PreviousIngest(L[i])' = PreviousIngest(L[i])
          BY <3>2
        <5>3. QED
          BY <2>1, <5>1, <5>2 DEF Aligned, Before
      <4>3. QED
        BY <4>1, <4>2 DEF AllAligned
    <3>5. QED
      BY <2>2, <3>3, <3>4, RepairsGoOn
  <2>3. QED
    BY <2>1, <2>2 DEF RepairInv
<1>11. QED
  BY <1>2, <1>7, <1>8, <1>9, <1>10 DEF Next, AllFinished

LEMMA RepairInvImplies ==
    ASSUME PlanInv, RepairInv
    PROVE  RepairAligns
<1> SUFFICES ASSUME NextIs("scan"), ~expired
             PROVE  LET list == From(Head(tasks).list) IN
                    /\ \A i \in DOMAIN list : ~Missing(list, i)
                    /\ \A i \in DOMAIN list : list[i] \in realigned =>
                          status[list[i]] = "done" /\ baseOf[list[i]] = Before(list, i)
  BY DEF RepairAligns
<1>1. tasks # << >> /\ Head(tasks).op = "scan" /\ IsPlan(tasks)
  BY DEF NextIs, PlanInv, Progress
<1>2. tasks \notin Seq(Plain)
  <2>1. tasks \in Seq(Plain) => Head(tasks) \in Plain
    BY <1>1
  <2>2. Head(tasks) \in Plain => Head(tasks).op # "scan"
    BY DEF Plain
  <2>3. QED
    BY <1>1, <2>1, <2>2
<1>3. PICK list \in ReleaseLists : Repairs(list)
  BY <1>2 DEF RepairInv
<1>4. RepairState(list)
  BY <1>3, RepairStates
<1>5. Head(tasks) = tasks[1] /\ \A r : ~InPlan(tasks, r)
  BY <1>1, <1>4 DEF RepairState, RepairTasks
<1>6. Head(tasks).list = list
  BY <1>1, <1>4, <1>5, RepairHead DEF RepairState
<1>7. PICK L : L = From(list)
  OBVIOUS
<1>8. L \in Seq(Refs) /\ DOMAIN L = 1 .. Len(L) /\ Len(L) \in Nat
  BY <1>7, FromFacts
<1>9. \A r : Held(r) <=> IsDone(r)
  BY <1>5 DEF Held
<1>10. ASSUME NEW i \in DOMAIN L, Missing(L, i) PROVE FALSE
  <2>1. ~IsDone(L[i]) /\ \E j \in i + 1 .. Len(L) : IsDone(L[j])
    BY <1>10 DEF Missing
  <2>2. PICK j \in i + 1 .. Len(L) : IsDone(L[j])
    BY <2>1
  <2>3. j \in DOMAIN L /\ i \in 1 .. j - 1
    BY <1>8, <2>2
  <2>4. Closed(L)
    BY <1>3, <1>7 DEF Repairs
  <2>5. Held(L[i])
    BY <1>9, <2>2, <2>3, <2>4 DEF Closed
  <2>6. QED
    BY <1>9, <2>1, <2>5
<1>11. ASSUME NEW i \in DOMAIN L, L[i] \in realigned PROVE status[L[i]] = "done" /\ baseOf[L[i]] = Before(L, i)
  <2>1. Aligned(L, i)
    BY <1>4, <1>7, <1>11 DEF RepairState, AllAligned
  <2>2. ~Is(Head(tasks), "update", L[i])
    BY <1>1 DEF Is
  <2>3. QED
    BY <2>1, <2>2 DEF Aligned
<1>12. QED
  BY <1>6, <1>7, <1>10, <1>11

\* A repair that is not stopped leaves no gap, and every successor it purged is
\* finished again with the version before it as its base, for any list of
\* references, whatever it finds in the database.
THEOREM RepairsAlign == Spec => []RepairAligns
<1>1. Init => PlanInv /\ RepairInv
  <2>1. Init => tasks \in Seq(Plain)
    BY DEF Init
  <2>2. QED
    BY <2>1, InitPlan DEF RepairInv
<1>2. PlanInv /\ RepairInv /\ [Next]_vars => PlanInv' /\ RepairInv'
  BY NextPlan, NextRepairs
<1>3. PlanInv /\ RepairInv => RepairAligns
  BY RepairInvImplies
<1>4. QED
  BY <1>1, <1>2, <1>3, PTL DEF Spec
===============================================================================
