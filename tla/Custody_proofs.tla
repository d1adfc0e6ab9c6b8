---------------------------- MODULE Custody_proofs ----------------------------
(***************************************************************************)
(* Proofs that what is handed over is not lost.  The commits of the        *)
(* mailing list client: what becomes of each of them, the slots of the     *)
(* daemons, and that start-ups spare a healthy daemon.  The ChangeSets of  *)
(* DependencyScheduler: which answers each gets, what is evacuated, and    *)
(* that none is forgotten.                                                 *)
(***************************************************************************)
EXTENDS MailResolution, DependencyScheduler, SequenceTheorems, FiniteSetTheorems,
        WellFoundedInduction, TLAPS


-----------------------------------------------------------------------------
(***************************************************************************)
(* Arithmetic of positions in chunks of n.                                 *)
(***************************************************************************)
LEMMA DivBounds ==
    ASSUME NEW n \in Nat \ {0}, NEW a \in Nat
    PROVE  /\ a \div n \in Nat
           /\ (a \div n) * n <= a /\ a < (a \div n) * n + n
<1>1. a \div n \in Nat
  OBVIOUS
<1>2. (a \div n) * n <= a
  OBVIOUS
<1>3. a < (a \div n) * n + n
  OBVIOUS
<1> QED BY <1>1, <1>2, <1>3

LEMMA TimesMono ==
    ASSUME NEW n \in Nat \ {0}, NEW i \in Nat, NEW k \in Nat, i < k
    PROVE  i * n + n <= k * n
<1>1. PICK d \in Nat : k = i + 1 + d
  <2>1. k - i - 1 \in Nat /\ k = i + 1 + (k - i - 1)
    OBVIOUS
  <2> QED BY <2>1
<1>2. k * n = i * n + n + d * n
  BY <1>1
<1>3. d * n \in Nat /\ i * n \in Nat
  OBVIOUS
<1> QED BY <1>2, <1>3

LEMMA SamePlace ==
    ASSUME NEW n \in Nat \ {0}, NEW i \in Nat, NEW k \in Nat, NEW j \in 1..n, NEW l \in 1..n,
           i * n + j = k * n + l
    PROVE  i = k /\ j = l
<1>1. i * n \in Nat /\ k * n \in Nat
  OBVIOUS
<1>2. ~(i < k)
  BY <1>1, TimesMono
<1>3. ~(k < i)
  BY <1>1, TimesMono
<1> QED BY <1>1, <1>2, <1>3

LEMMA ChunkCount ==
    ASSUME NEW n \in Nat \ {0}, NEW L \in Nat
    PROVE  /\ (L + n - 1) \div n \in Nat
           /\ \A i \in Nat : i < (L + n - 1) \div n <=> i * n < L
<1> DEFINE count == (L + n - 1) \div n
<1>0. L + n - 1 \in Nat
  OBVIOUS
<1>1. count \in Nat /\ count * n <= L + n - 1 /\ L + n - 1 < count * n + n
  BY <1>0, DivBounds
<1>2. count * n \in Nat
  BY <1>1
<1> HIDE DEF count
<1>3. ASSUME NEW i \in Nat, i < count PROVE i * n < L
  <2>1. i * n + n <= count * n
    BY <1>1, <1>3, TimesMono
  <2>2. i * n \in Nat
    OBVIOUS
  <2> QED BY <1>1, <1>2, <2>1, <2>2
<1>4. ASSUME NEW i \in Nat, ~(i < count) PROVE ~(i * n < L)
  <2>1. i = count \/ count < i
    BY <1>1, <1>4
  <2>2. i * n >= count * n
    BY <1>1, <1>2, <2>1, TimesMono
  <2>3. i * n \in Nat
    OBVIOUS
  <2> QED BY <1>1, <1>2, <2>2, <2>3
<1> QED BY <1>1, <1>3, <1>4 DEF count

-----------------------------------------------------------------------------
(***************************************************************************)
(* Sequences of chunks.                                                    *)
(***************************************************************************)
ChunkOf(S) == [commits : Seq(S), attempt : Nat]

\* k is in a chunk of q.
Has(q, k) == \E i \in DOMAIN q : \E j \in DOMAIN q[i].commits : q[i].commits[j] = k

\* It is at no two positions.
Once(q, k) ==
    \A i, l \in DOMAIN q : \A j \in DOMAIN q[i].commits, m \in DOMAIN q[l].commits :
        q[i].commits[j] = k /\ q[l].commits[m] = k => i = l /\ j = m

\* The chunks of q together are the commits of s, none of them twice.
Splits(q, s, S) ==
    /\ q \in Seq(ChunkOf(S))
    /\ \A k \in S : (Has(q, k) <=> k \in Range(s)) /\ Once(q, k)

LEMMA SubSeqPart ==
    ASSUME NEW S, NEW s \in Seq(S), NEW b \in Nat, NEW e \in Nat, b <= e, e <= Len(s)
    PROVE  /\ SubSeq(s, b + 1, e) \in Seq(S)
           /\ Len(SubSeq(s, b + 1, e)) = e - b
           /\ \A j \in 1..(e - b) : SubSeq(s, b + 1, e)[j] = s[b + j]
<1>1. \A i \in (b + 1)..e : s[i] \in S
  OBVIOUS
<1>2. /\ SubSeq(s, b + 1, e) \in Seq(S)
      /\ Len(SubSeq(s, b + 1, e)) = IF b + 1 <= e THEN e - (b + 1) + 1 ELSE 0
      /\ \A i \in 1 .. e - (b + 1) + 1 : SubSeq(s, b + 1, e)[i] = s[b + 1 + i - 1]
  BY <1>1, SubSeqProperties
<1>3. QED
  BY <1>2

\* Cutting a sequence into chunks of n loses nothing and repeats nothing.
LEMMA ChunksSplit ==
    ASSUME NEW S, NEW s \in Seq(S), IsInjective(s), NEW n \in Nat \ {0}, NEW a \in Nat
    PROVE  Splits(Chunks(s, n, a), s, S)
<1> DEFINE L == Len(s)
           count == (L + n - 1) \div n
           q == Chunks(s, n, a)
           e(i) == IF i * n < L THEN i * n ELSE L
<1>1. L \in Nat /\ count \in Nat /\ \A i \in Nat : i < count <=> i * n < L
  BY ChunkCount
<1>2. q = [i \in 1..count |-> [commits |-> SubSeq(s, (i - 1) * n + 1, e(i)), attempt |-> a]]
  BY DEF Chunks
<1> HIDE DEF L, count, q
<1>3. ASSUME NEW i \in 1..count
      PROVE  /\ (i - 1) * n \in Nat /\ (i - 1) * n < e(i) /\ e(i) <= L /\ e(i) <= (i - 1) * n + n
             /\ e(i) \in Nat
  <2>1. i - 1 \in Nat /\ i - 1 < count
    BY <1>1
  <2>2. (i - 1) * n < L
    BY <1>1, <2>1
  <2>3. (i - 1) * n \in Nat /\ i * n \in Nat
    BY <2>1
  <2>4. i * n = (i - 1) * n + n
    BY <2>1
  <2>5. QED
    BY <1>1, <2>2, <2>3, <2>4
<1> HIDE DEF e
<1>4. ASSUME NEW i \in 1..count
      PROVE  /\ q[i] = [commits |-> SubSeq(s, (i - 1) * n + 1, e(i)), attempt |-> a]
             /\ q[i].commits \in Seq(S) /\ q[i] \in ChunkOf(S)
             /\ DOMAIN q[i].commits = 1..(e(i) - (i - 1) * n)
             /\ \A j \in DOMAIN q[i].commits : q[i].commits[j] = s[(i - 1) * n + j]
  <2>1. q[i].commits = SubSeq(s, (i - 1) * n + 1, e(i)) /\ q[i].attempt = a
    BY <1>2
  <2>3. /\ SubSeq(s, (i - 1) * n + 1, e(i)) \in Seq(S)
        /\ Len(SubSeq(s, (i - 1) * n + 1, e(i))) = e(i) - (i - 1) * n
        /\ \A j \in 1..(e(i) - (i - 1) * n) : SubSeq(s, (i - 1) * n + 1, e(i))[j] = s[(i - 1) * n + j]
    <3>1. (i - 1) * n <= e(i) /\ e(i) <= Len(s) /\ (i - 1) * n \in Nat /\ e(i) \in Nat
      BY <1>1, <1>3 DEF L
    <3>2. QED
      BY <3>1, SubSeqPart
  <2>4. DOMAIN q[i].commits = 1..(e(i) - (i - 1) * n)
    BY <2>1, <2>3
  <2>5. q[i] \in ChunkOf(S)
    BY <1>2, <2>1, <2>3 DEF ChunkOf
  <2>6. QED
    BY <1>2, <2>1, <2>3, <2>4, <2>5
<1>10. ASSUME NEW i \in 1..count, NEW j \in 1..(e(i) - (i - 1) * n) PROVE (i - 1) * n + j \in 1..L
  BY <1>1, <1>3
<1>5. q \in Seq(ChunkOf(S)) /\ DOMAIN q = 1..count
  BY <1>1, <1>2, <1>4
<1>6. ASSUME NEW k \in S, Has(q, k) PROVE k \in Range(s)
  <2>0. PICK i \in 1..count : \E j \in DOMAIN q[i].commits : q[i].commits[j] = k
    BY <1>5, <1>6 DEF Has
  <2>1. PICK j \in DOMAIN q[i].commits : q[i].commits[j] = k
    BY <2>0
  <2>2. s[(i - 1) * n + j] = k /\ j \in 1..(e(i) - (i - 1) * n)
    BY <1>4, <2>1
  <2>3. (i - 1) * n + j \in 1..L
    BY <1>10, <2>2
  <2>4. QED
    BY <2>2, <2>3 DEF Range, L
<1>7. ASSUME NEW k \in S, k \in Range(s) PROVE Has(q, k)
  <2>1. PICK m \in 1..L : s[m] = k
    BY <1>7 DEF Range, L
  <2> DEFINE d == (m - 1) \div n
  <2>2. d \in Nat /\ d * n <= m - 1 /\ m - 1 < d * n + n
    BY <1>1, <2>1, DivBounds
  <2> HIDE DEF d
  <2>3. d * n \in Nat /\ d * n < L
    BY <1>1, <2>2
  <2>4. d < count
    BY <1>1, <2>2, <2>3
  <2> DEFINE i == d + 1
             j == m - d * n
  <2>5. i \in 1..count /\ i - 1 = d
    BY <1>1, <2>2, <2>4
  <2>6. j \in Nat \ {0} /\ j <= n /\ d * n + j = m
    BY <1>1, <2>2, <2>3
  <2>7. i * n = d * n + n
    BY <2>2
  <2>8. j <= e(i) - d * n
    BY <1>1, <2>1, <2>3, <2>6, <2>7 DEF e
  <2>9. j \in 1..(e(i) - (i - 1) * n)
    BY <1>3, <2>5, <2>6, <2>8
  <2>10. q[i].commits[j] = s[m] /\ j \in DOMAIN q[i].commits
    <3>1. j \in DOMAIN q[i].commits /\ q[i].commits[j] = s[(i - 1) * n + j]
      BY <1>4, <2>5, <2>9
    <3>2. (i - 1) * n + j = m
      BY <2>5, <2>6
    <3>3. QED
      BY <3>1, <3>2
  <2>11. QED
    BY <1>5, <2>1, <2>5, <2>10 DEF Has
<1>8. ASSUME NEW k \in S PROVE Once(q, k)
  <2> SUFFICES ASSUME NEW i \in 1..count, NEW l \in 1..count,
                      NEW j \in DOMAIN q[i].commits, NEW m \in DOMAIN q[l].commits,
                      q[i].commits[j] = k, q[l].commits[m] = k
               PROVE  i = l /\ j = m
    BY <1>5 DEF Once
  <2>1. s[(i - 1) * n + j] = s[(l - 1) * n + m] /\ j \in 1..(e(i) - (i - 1) * n) /\ m \in 1..(e(l) - (l - 1) * n)
    BY <1>4
  <2>2. (i - 1) * n + j \in 1..L /\ (l - 1) * n + m \in 1..L
    BY <1>10, <2>1
  <2>3. (i - 1) * n + j = (l - 1) * n + m
    BY <2>1, <2>2 DEF IsInjective, L
  <2>4. j \in 1..n /\ m \in 1..n
    <3>1. ASSUME NEW x \in Int, x <= n PROVE 1..x \subseteq 1..n
      BY <3>1
    <3>2. e(i) - (i - 1) * n \in Int /\ e(i) - (i - 1) * n <= n
      BY <1>3
    <3>3. e(l) - (l - 1) * n \in Int /\ e(l) - (l - 1) * n <= n
      BY <1>3
    <3>4. 1..(e(i) - (i - 1) * n) \subseteq 1..n /\ 1..(e(l) - (l - 1) * n) \subseteq 1..n
      BY <3>1, <3>2, <3>3
    <3>5. QED
      BY <2>1, <3>4
  <2>5. i - 1 \in Nat /\ l - 1 \in Nat
    BY <1>1
  <2>6. i - 1 = l - 1 /\ j = m
    BY <2>3, <2>4, <2>5, SamePlace
  <2>7. QED
    BY <2>6, <1>1
<1>9. QED
  BY <1>5, <1>6, <1>7, <1>8 DEF Splits, q

\* Nor does halving a chunk.
LEMMA HalvesSplit ==
    ASSUME NEW S, NEW chunk \in ChunkOf(S), IsInjective(chunk.commits)
    PROVE  Splits(Halves(chunk), chunk.commits, S)
<1> DEFINE s == chunk.commits
           mid == Len(s) \div 2
           a == SubSeq(s, 1, mid)
           b == SubSeq(s, mid + 1, Len(s))
           q == Halves(chunk)
<1>1. s \in Seq(S) /\ mid \in Nat /\ mid <= Len(s)
  BY DEF ChunkOf
<1>11. Len(s) \in Nat
  BY <1>1
<1>4. q = <<[chunk EXCEPT !.commits = a], [chunk EXCEPT !.commits = b]>>
  BY DEF Halves
<1> HIDE DEF mid, q
<1>2. /\ a \in Seq(S) /\ Len(a) = mid /\ \A j \in 1..mid : a[j] = s[j]
  <2>1. /\ SubSeq(s, 0 + 1, mid) \in Seq(S)
        /\ Len(SubSeq(s, 0 + 1, mid)) = mid - 0
        /\ \A j \in 1..(mid - 0) : SubSeq(s, 0 + 1, mid)[j] = s[0 + j]
    BY <1>1, SubSeqPart
  <2>2. a = SubSeq(s, 0 + 1, mid) /\ mid - 0 = mid /\ \A j \in 1..mid : 0 + j = j
    BY <1>1
  <2> HIDE DEF a
  <2>3. QED
    BY <2>1, <2>2
<1>3. /\ b \in Seq(S) /\ Len(b) = Len(s) - mid /\ \A j \in 1..(Len(s) - mid) : b[j] = s[mid + j]
  BY <1>1, <1>11, SubSeqPart
<1> HIDE DEF a, b
<1>5. /\ q \in Seq(ChunkOf(S)) /\ DOMAIN q = 1..2
      /\ q[1].commits = a /\ q[2].commits = b
  <2>1. PICK x, y : x = [chunk EXCEPT !.commits = a] /\ y = [chunk EXCEPT !.commits = b]
    OBVIOUS
  <2>2. x \in ChunkOf(S) /\ x.commits = a /\ y \in ChunkOf(S) /\ y.commits = b
    BY <1>2, <1>3, <2>1 DEF ChunkOf
  <2>3. q = <<x, y>>
    BY <1>4, <2>1
  <2>4. QED
    BY <2>2, <2>3
<1>6. DOMAIN a = 1..mid /\ DOMAIN b = 1..(Len(s) - mid) /\ DOMAIN s = 1..Len(s)
  BY <1>1, <1>2, <1>3
<1>7. ASSUME NEW k \in S, Has(q, k) PROVE k \in Range(s)
  <2>1. (\E j \in DOMAIN a : a[j] = k) \/ (\E j \in DOMAIN b : b[j] = k)
    BY <1>5, <1>7 DEF Has
  <2>2. CASE \E j \in DOMAIN a : a[j] = k
    BY <1>1, <1>2, <1>6, <2>2 DEF Range
  <2>3. CASE \E j \in DOMAIN b : b[j] = k
    <3>1. PICK j \in 1..(Len(s) - mid) : s[mid + j] = k
      BY <1>3, <1>6, <2>3
    <3>2. mid + j \in DOMAIN s
      BY <1>1, <1>6
    <3>3. QED
      BY <3>1, <3>2 DEF Range
  <2>4. QED
    BY <2>1, <2>2, <2>3
<1>8. ASSUME NEW k \in S, k \in Range(s) PROVE Has(q, k)
  <2>1. PICK m \in 1..Len(s) : s[m] = k
    BY <1>6, <1>8 DEF Range
  <2>2. CASE m <= mid
    <3>1. m \in DOMAIN a /\ a[m] = k
      BY <1>1, <1>2, <1>6, <2>1, <2>2
    <3>2. QED
      BY <1>5, <3>1 DEF Has
  <2>3. CASE m > mid
    <3>1. m - mid \in DOMAIN b /\ b[m - mid] = k
      BY <1>1, <1>3, <1>6, <2>1, <2>3
    <3>2. QED
      BY <1>5, <3>1 DEF Has
  <2>4. QED
    BY <1>1, <2>2, <2>3
<1>9. ASSUME NEW k \in S PROVE Once(q, k)
  <2> DEFINE off(i) == IF i = 1 THEN 0 ELSE mid
  <2>1. ASSUME NEW i \in 1..2, NEW j \in DOMAIN q[i].commits
        PROVE  /\ off(i) + j \in DOMAIN s /\ q[i].commits[j] = s[off(i) + j]
               /\ j \in Nat \ {0} /\ (i = 1 => j <= mid)
    <3>1. CASE i = 1
      BY <1>1, <1>2, <1>5, <1>6, <3>1
    <3>2. CASE i = 2
      <4>1. q[i].commits = b /\ j \in 1..(Len(s) - mid)
        BY <1>5, <1>6, <3>2
      <4>2. mid + j \in DOMAIN s /\ b[j] = s[mid + j] /\ j \in Nat \ {0}
        BY <1>1, <1>3, <1>6, <1>11, <4>1
      <4>3. QED
        BY <3>2, <4>1, <4>2
    <3>3. QED
      BY <3>1, <3>2
  <2> SUFFICES ASSUME NEW i \in 1..2, NEW l \in 1..2,
                      NEW j \in DOMAIN q[i].commits, NEW m \in DOMAIN q[l].commits,
                      q[i].commits[j] = k, q[l].commits[m] = k
               PROVE  i = l /\ j = m
    BY <1>5 DEF Once
  <2>2. off(i) + j = off(l) + m
    BY <2>1 DEF IsInjective
  <2>3. j \in Nat \ {0} /\ (i = 1 => j <= mid) /\ m \in Nat \ {0} /\ (l = 1 => m <= mid)
    BY <2>1
  <2>4. QED
    BY <1>1, <2>2, <2>3
<1>10. QED
  BY <1>5, <1>7, <1>8, <1>9 DEF Splits, q

LEMMA SameSplit ==
    ASSUME NEW S, NEW chunk \in ChunkOf(S), IsInjective(chunk.commits)
    PROVE  Splits(<<chunk>>, chunk.commits, S)
BY DEF Splits, Has, Once, ChunkOf, IsInjective, Range

LEMMA NoneSplit == ASSUME NEW S PROVE Splits(<<>>, <<>>, S)
BY DEF Splits, Has, Once, Range

\* Chunks put before the queue.
LEMMA Joined ==
    ASSUME NEW S, NEW q \in Seq(ChunkOf(S)), NEW r \in Seq(ChunkOf(S)), NEW k \in S
    PROVE  /\ q \o r \in Seq(ChunkOf(S))
           /\ Has(q \o r, k) <=> Has(q, k) \/ Has(r, k)
           /\ Once(q, k) /\ Once(r, k) /\ ~(Has(q, k) /\ Has(r, k)) => Once(q \o r, k)
<1> DEFINE w == q \o r
<1>1. /\ w \in Seq(ChunkOf(S)) /\ DOMAIN w = 1..(Len(q) + Len(r))
      /\ \A i \in 1..Len(q) : w[i] = q[i]
      /\ \A i \in 1..Len(r) : w[Len(q) + i] = r[i]
  OBVIOUS
<1>2. \A i \in DOMAIN w : \/ i \in 1..Len(q) /\ w[i] = q[i]
                          \/ i - Len(q) \in 1..Len(r) /\ w[i] = r[i - Len(q)]
  BY <1>1
<1>3. DOMAIN q = 1..Len(q) /\ DOMAIN r = 1..Len(r) /\ Len(q) \in Nat /\ Len(r) \in Nat
  OBVIOUS
<1> HIDE DEF w
<1>4. Has(w, k) => Has(q, k) \/ Has(r, k)
  BY <1>2, <1>3 DEF Has
<1>5. Has(q, k) => Has(w, k)
  BY <1>1, <1>3 DEF Has
<1>6. Has(r, k) => Has(w, k)
  <2> SUFFICES ASSUME Has(r, k) PROVE Has(w, k)
    OBVIOUS
  <2>1. PICK i \in 1..Len(r) : \E j \in DOMAIN r[i].commits : r[i].commits[j] = k
    BY <1>3 DEF Has
  <2>2. Len(q) + i \in DOMAIN w /\ w[Len(q) + i] = r[i]
    BY <1>1, <1>3
  <2>3. QED
    BY <2>1, <2>2 DEF Has
<1>7. ASSUME Once(q, k), Once(r, k), ~(Has(q, k) /\ Has(r, k)) PROVE Once(w, k)
  <2> SUFFICES ASSUME NEW i \in DOMAIN w, NEW l \in DOMAIN w,
                      NEW j \in DOMAIN w[i].commits, NEW m \in DOMAIN w[l].commits,
                      w[i].commits[j] = k, w[l].commits[m] = k
               PROVE  i = l /\ j = m
    BY DEF Once
  <2>1. CASE i \in 1..Len(q) /\ l \in 1..Len(q)
    BY <1>1, <1>3, <1>7, <2>1 DEF Once
  <2>2. CASE i \notin 1..Len(q) /\ l \notin 1..Len(q)
    <3>1. i - Len(q) = l - Len(q) /\ j = m
      BY <1>2, <1>3, <1>7, <2>2 DEF Once
    <3>2. i \in Int /\ l \in Int
      BY <1>1, <1>3
    <3>3. QED
      BY <1>3, <3>1, <3>2
  <2>3. CASE (i \in 1..Len(q)) # (l \in 1..Len(q))
    <3>1. Has(q, k) /\ Has(r, k)
      BY <1>2, <1>3, <2>3 DEF Has
    <3>2. QED
      BY <1>7, <3>1
  <2>4. QED
    BY <2>1, <2>2, <2>3
<1>8. QED
  BY <1>1, <1>4, <1>5, <1>6, <1>7 DEF w

\* The chunk taken from the queue.
LEMMA Taken ==
    ASSUME NEW S, NEW q \in Seq(ChunkOf(S)), q # <<>>, NEW k \in S, Once(q, k)
    PROVE  /\ Head(q) \in ChunkOf(S) /\ Tail(q) \in Seq(ChunkOf(S))
           /\ Has(q, k) <=> k \in Range(Head(q).commits) \/ Has(Tail(q), k)
           /\ ~(k \in Range(Head(q).commits) /\ Has(Tail(q), k))
           /\ Once(Tail(q), k)
           /\ \A j, m \in DOMAIN Head(q).commits :
                 Head(q).commits[j] = k /\ Head(q).commits[m] = k => j = m
<1> DEFINE t == Tail(q)
<1>1. /\ Head(q) = q[1] /\ Len(q) \in Nat \ {0} /\ DOMAIN q = 1..Len(q)
      /\ t \in Seq(ChunkOf(S)) /\ DOMAIN t = 1..(Len(q) - 1)
      /\ \A i \in 1..(Len(q) - 1) : t[i] = q[i + 1] /\ i + 1 \in DOMAIN q
  OBVIOUS
<1>2. 1 \in DOMAIN q /\ q[1] \in ChunkOf(S)
  BY <1>1
<1>3. \A i \in DOMAIN q : i = 1 \/ (i - 1 \in DOMAIN t /\ t[i - 1] = q[i])
  BY <1>1
<1> HIDE DEF t
<1>4. Has(q, k) => k \in Range(q[1].commits) \/ Has(t, k)
  BY <1>3 DEF Has, Range
<1>5. k \in Range(q[1].commits) => Has(q, k)
  BY <1>2 DEF Has, Range
<1>6. Has(t, k) => Has(q, k)
  <2> SUFFICES ASSUME Has(t, k) PROVE Has(q, k)
    OBVIOUS
  <2>1. PICK i \in DOMAIN t : \E j \in DOMAIN t[i].commits : t[i].commits[j] = k
    BY DEF Has
  <2>2. i + 1 \in DOMAIN q /\ q[i + 1] = t[i]
    BY <1>1
  <2>3. QED
    BY <2>1, <2>2 DEF Has
<1>7. ~(k \in Range(q[1].commits) /\ Has(t, k))
  <2> SUFFICES ASSUME k \in Range(q[1].commits), Has(t, k) PROVE FALSE
    OBVIOUS
  <2>1. PICK j \in DOMAIN q[1].commits : q[1].commits[j] = k
    BY DEF Range
  <2>2. PICK i \in DOMAIN t : \E m \in DOMAIN t[i].commits : t[i].commits[m] = k
    BY DEF Has
  <2>3. i + 1 \in DOMAIN q /\ t[i] = q[i + 1] /\ i + 1 # 1
    BY <1>1
  <2>4. QED
    BY <1>2, <2>1, <2>2, <2>3 DEF Once
<1>8. Once(t, k)
  <2> SUFFICES ASSUME NEW i \in DOMAIN t, NEW l \in DOMAIN t,
                      NEW j \in DOMAIN t[i].commits, NEW m \in DOMAIN t[l].commits,
                      t[i].commits[j] = k, t[l].commits[m] = k
               PROVE  i = l /\ j = m
    BY DEF Once
  <2>1. i + 1 \in DOMAIN q /\ t[i] = q[i + 1] /\ l + 1 \in DOMAIN q /\ t[l] = q[l + 1]
    BY <1>1
  <2>2. i + 1 = l + 1 /\ j = m
    BY <2>1 DEF Once
  <2>3. i \in Int /\ l \in Int
    BY <1>1
  <2>4. QED
    BY <2>2, <2>3
<1>9. QED
  BY <1>1, <1>2, <1>4, <1>5, <1>6, <1>7, <1>8 DEF Once, t

-----------------------------------------------------------------------------
(***************************************************************************)
(* The clients.                                                            *)
(***************************************************************************)
Commits == UNION {Range(Work[c]) : c \in Client}

CommitTypes ==
    /\ pc \in [Client -> {"probe", "starting", "post", "sent", "served", "lost", "done", "failed"}]
    /\ queue \in [Client -> Seq(ChunkOf(Commits))]
    /\ current \in [Client -> ChunkOf(Commits)]
    /\ answered \in [Client -> SUBSET Commits]
    /\ dropped \in [Client -> SUBSET Commits]

\* Each commit of a client, and no other, is in one of the four places, and in a
\* chunk at one position.
OnePlace(c, k) ==
    LET q == Has(queue[c], k)
        f == k \in Range(current[c].commits)
        a == k \in answered[c]
        d == k \in dropped[c]
    IN  /\ Once(queue[c], k)
        /\ k \in Range(Work[c]) <=> q \/ f \/ a \/ d
        /\ q => ~f /\ ~a /\ ~d
        /\ f => ~a /\ ~d
        /\ a => ~d

KeptOnce(c) ==
    /\ IsInjective(current[c].commits)
    /\ pc[c] \notin {"sent", "served", "lost", "failed"} => current[c].commits = <<>>
    /\ pc[c] # "failed" => \A k \in Commits : OnePlace(c, k)

CommitsInv == CommitTypes /\ \A c \in Client : KeptOnce(c)

LEMMA NoChunkType == NoChunk \in ChunkOf(Commits) /\ NoChunk.commits = <<>> /\ IsInjective(NoChunk.commits)
                     /\ \A k : k \notin Range(NoChunk.commits)
BY DEF NoChunk, ChunkOf, IsInjective, Range

USE MailAssumption

LEMMA WorkType == ASSUME NEW c \in Client PROVE Work[c] \in Seq(Commits) /\ IsInjective(Work[c])
<1>1. Work[c] \in Seq(Range(Work[c])) /\ Range(Work[c]) \subseteq Commits
  BY DEF Commits
<1>2. QED
  BY <1>1

LEMMA CommitsInit == MailInit => CommitsInv
<1> SUFFICES ASSUME MailInit PROVE CommitsInv
  OBVIOUS
<1>1. ASSUME NEW c \in Client PROVE Splits(Chunks(Work[c], BatchSize, 1), Work[c], Commits)
  BY WorkType, ChunksSplit
<1>2. \A c \in Client : /\ queue[c] = Chunks(Work[c], BatchSize, 1) /\ current[c] = NoChunk
                        /\ answered[c] = {} /\ dropped[c] = {}
  BY DEF MailInit
<1>3. CommitTypes
  <2>1. queue \in [Client -> Seq(ChunkOf(Commits))]
    BY <1>1 DEF MailInit, Splits
  <2>2. QED
    BY <2>1, NoChunkType DEF MailInit, CommitTypes
<1>4. ASSUME NEW c \in Client PROVE KeptOnce(c)
  <2>1. ASSUME NEW k \in Commits PROVE OnePlace(c, k)
    <3>1. Once(queue[c], k) /\ (Has(queue[c], k) <=> k \in Range(Work[c]))
      BY <1>1, <1>2 DEF Splits
    <3>2. QED
      BY <1>2, <3>1, NoChunkType DEF OnePlace
  <2>2. QED
    BY <1>2, <2>1, NoChunkType DEF KeptOnce
<1>5. QED
  BY <1>3, <1>4 DEF CommitsInv

\* Only client c moves.
Only(c) ==
    \A d \in Client \ {c} :
        /\ pc'[d] = pc[d] /\ queue'[d] = queue[d] /\ current'[d] = current[d]
        /\ answered'[d] = answered[d] /\ dropped'[d] = dropped[d]

LEMMA OnlyInv ==
    ASSUME CommitsInv, NEW c \in Client, Only(c), CommitTypes', KeptOnce(c)'
    PROVE  CommitsInv'
<1>1. ASSUME NEW d \in Client \ {c} PROVE KeptOnce(d)'
  <2>1. KeptOnce(d)
    BY DEF CommitsInv
  <2>2. /\ pc'[d] = pc[d] /\ queue'[d] = queue[d] /\ current'[d] = current[d]
        /\ answered'[d] = answered[d] /\ dropped'[d] = dropped[d]
    BY DEF Only
  <2>3. QED
    BY <2>1, <2>2 DEF KeptOnce, OnePlace
<1>2. QED
  BY <1>1 DEF CommitsInv

\* The chunk in flight ends: part of it goes back to the queue, the rest is settled.
LEMMA GoOnInv ==
    ASSUME CommitsInv, NEW c \in Client, pc[c] # "failed", NEW chunks, NEW s, NEW A, NEW D,
           Splits(chunks, s, Commits), A \subseteq Commits, D \subseteq Commits,
           \A k \in Commits : /\ k \in Range(current[c].commits) <=> k \in Range(s) \/ k \in A \/ k \in D
                              /\ k \in Range(s) => k \notin A /\ k \notin D
                              /\ k \in A => k \notin D,
           NEW p \in {"post", "probe"}, pc' = [pc EXCEPT ![c] = p],
           queue' = [queue EXCEPT ![c] = chunks \o @],
           current' = [current EXCEPT ![c] = NoChunk],
           answered' = [answered EXCEPT ![c] = @ \cup A],
           dropped' = [dropped EXCEPT ![c] = @ \cup D]
    PROVE  CommitsInv'
<1>1. /\ pc'[c] = p /\ queue'[c] = chunks \o queue[c] /\ current'[c] = NoChunk
      /\ answered'[c] = answered[c] \cup A /\ dropped'[c] = dropped[c] \cup D /\ Only(c)
  BY DEF CommitsInv, CommitTypes, Only
<1>2. chunks \in Seq(ChunkOf(Commits)) /\ queue[c] \in Seq(ChunkOf(Commits))
  BY DEF Splits, CommitsInv, CommitTypes
<1>3. CommitTypes'
  BY <1>2, NoChunkType DEF CommitsInv, CommitTypes
<1>4. ASSUME NEW k \in Commits PROVE OnePlace(c, k)'
  <2>1. OnePlace(c, k)
    BY DEF CommitsInv, KeptOnce
  <2>2. (Has(chunks, k) <=> k \in Range(s)) /\ Once(chunks, k)
    BY DEF Splits
  <2>3. Has(chunks, k) => ~Has(queue[c], k)
    BY <2>1, <2>2 DEF OnePlace
  <2>4. Once(queue'[c], k) /\ (Has(queue'[c], k) <=> Has(chunks, k) \/ Has(queue[c], k))
    <3>1. Once(queue[c], k)
      BY <2>1 DEF OnePlace
    <3>2. /\ Once(chunks \o queue[c], k)
          /\ Has(chunks \o queue[c], k) <=> Has(chunks, k) \/ Has(queue[c], k)
      BY <1>2, <2>2, <2>3, <3>1, Joined
    <3>3. QED
      BY <1>1, <3>2
  <2>5. k \notin Range(current'[c].commits)
    BY <1>1, NoChunkType
  <2>6. QED
    BY <1>1, <2>1, <2>2, <2>4, <2>5 DEF OnePlace
<1>5. KeptOnce(c)'
  BY <1>1, <1>4, NoChunkType DEF KeptOnce
<1>6. QED
  BY <1>1, <1>3, <1>5, OnlyInv

\* Nothing moves but the place of c, or the call of c is over.
LEMMA PlaceInv ==
    ASSUME CommitsInv, NEW c \in Client, UNCHANGED <<queue, current, answered, dropped>>,
           NEW p \in {"probe", "starting", "post", "sent", "served", "lost", "done"},
           pc' = [pc EXCEPT ![c] = p], pc[c] # "failed",
           pc[c] \in {"sent", "served", "lost"} => p \in {"sent", "served", "lost"}
    PROVE  CommitsInv'
<1>1. CommitTypes' /\ Only(c) /\ pc'[c] = p
  BY DEF CommitsInv, CommitTypes, Only
<1>2. KeptOnce(c)'
  BY <1>1 DEF CommitsInv, KeptOnce, OnePlace
<1>3. QED
  BY <1>1, <1>2, OnlyInv

LEMMA RaiseInv == ASSUME CommitsInv, NEW c \in Client, Raise(c) PROVE CommitsInv'
<1>1. CommitTypes'
  BY NoChunkType DEF CommitsInv, CommitTypes, Raise
<1>2. Only(c) /\ pc'[c] = "failed" /\ current'[c] = NoChunk
  BY DEF CommitsInv, CommitTypes, Only, Raise
<1>3. KeptOnce(c)'
  BY <1>2, NoChunkType DEF KeptOnce
<1>4. QED
  BY <1>1, <1>2, <1>3, OnlyInv

LEMMA PostInv == ASSUME CommitsInv, NEW c \in Client, Post(c) PROVE CommitsInv'
<1>1. CASE queue[c] = <<>>
  BY <1>1, PlaceInv DEF Post
<1>2. CASE queue[c] # <<>>
  <2>1. /\ pc[c] = "post" /\ pc' = [pc EXCEPT ![c] = "sent"]
        /\ current' = [current EXCEPT ![c] = Head(queue[c])]
        /\ queue' = [queue EXCEPT ![c] = Tail(@)]
        /\ UNCHANGED <<answered, dropped>>
    BY <1>2 DEF Post
  <2>2. \A k \in Commits : OnePlace(c, k)
    BY <2>1 DEF CommitsInv, KeptOnce
  <2>3. queue[c] \in Seq(ChunkOf(Commits)) /\ \A k \in Commits : Once(queue[c], k)
    BY <2>2 DEF CommitsInv, CommitTypes, OnePlace
  <2>4. Head(queue[c]) \in ChunkOf(Commits) /\ Tail(queue[c]) \in Seq(ChunkOf(Commits))
    BY <1>2, <2>3
  <2>5. CommitTypes'
    BY <2>1, <2>4 DEF CommitsInv, CommitTypes
  <2>6. /\ pc'[c] = "sent" /\ current'[c] = Head(queue[c]) /\ queue'[c] = Tail(queue[c])
        /\ answered'[c] = answered[c] /\ dropped'[c] = dropped[c] /\ Only(c)
    BY <2>1 DEF CommitsInv, CommitTypes, Only
  <2>7. ASSUME NEW k \in Commits PROVE OnePlace(c, k)'
    <3>1. /\ Has(queue[c], k) <=> k \in Range(Head(queue[c]).commits) \/ Has(Tail(queue[c]), k)
          /\ ~(k \in Range(Head(queue[c]).commits) /\ Has(Tail(queue[c]), k))
          /\ Once(Tail(queue[c]), k)
      BY <1>2, <2>3, Taken
    <3>2. current[c].commits = <<>>
      BY <2>1 DEF CommitsInv, KeptOnce
    <3>3. k \notin Range(current[c].commits)
      BY <3>2 DEF Range
    <3>4. OnePlace(c, k)
      BY <2>2
    <3>5. QED
      BY <2>6, <3>1, <3>3, <3>4 DEF OnePlace
  <2>8. IsInjective(Head(queue[c]).commits)
    <3>1. \A k \in Commits : \A j, m \in DOMAIN Head(queue[c]).commits :
              Head(queue[c]).commits[j] = k /\ Head(queue[c]).commits[m] = k => j = m
      BY <1>2, <2>3, Taken
    <3>2. \A j \in DOMAIN Head(queue[c]).commits : Head(queue[c]).commits[j] \in Commits
      BY <2>4 DEF ChunkOf
    <3>3. QED
      BY <3>1, <3>2 DEF IsInjective
  <2>9. KeptOnce(c)'
    BY <2>6, <2>7, <2>8 DEF KeptOnce
  <2>10. QED
    BY <2>5, <2>6, <2>9, OnlyInv
<1>3. QED
  BY <1>1, <1>2

\* What was tried and what was deferred are the two parts of the chunk.
LEMMA CutParts ==
    ASSUME NEW S, NEW chunk \in ChunkOf(S), IsInjective(chunk.commits), NEW n \in Stops(chunk)
    PROVE  /\ Deferred(chunk, n) \in Seq(S) /\ IsInjective(Deferred(chunk, n))
           /\ Range(Tried(chunk, n)) \subseteq S
           /\ \A k \in S : /\ k \in Range(chunk.commits) <=> k \in Range(Tried(chunk, n)) \/ k \in Range(Deferred(chunk, n))
                           /\ ~(k \in Range(Tried(chunk, n)) /\ k \in Range(Deferred(chunk, n)))
<1> DEFINE s == chunk.commits
           a == SubSeq(s, 1, n)
           b == SubSeq(s, n + 1, Len(s))
<1>1. s \in Seq(S) /\ n \in Nat \ {0} /\ n <= Len(s) /\ Len(s) \in Nat
  BY DEF ChunkOf, Stops
<1>2. /\ a \in Seq(S) /\ Len(a) = n /\ \A j \in 1..n : a[j] = s[j]
  <2>1. /\ SubSeq(s, 0 + 1, n) \in Seq(S)
        /\ Len(SubSeq(s, 0 + 1, n)) = n - 0
        /\ \A j \in 1..(n - 0) : SubSeq(s, 0 + 1, n)[j] = s[0 + j]
    BY <1>1, SubSeqPart
  <2>2. a = SubSeq(s, 0 + 1, n) /\ n - 0 = n /\ \A j \in 1..n : 0 + j = j
    BY <1>1
  <2> HIDE DEF a
  <2>3. QED
    BY <2>1, <2>2
<1>3. /\ b \in Seq(S) /\ Len(b) = Len(s) - n /\ \A j \in 1..(Len(s) - n) : b[j] = s[n + j]
  BY <1>1, SubSeqPart
<1>4. Tried(chunk, n) = a /\ Deferred(chunk, n) = b
  BY DEF Tried, Deferred
<1> HIDE DEF a, b
<1>5. DOMAIN a = 1..n /\ DOMAIN b = 1..(Len(s) - n) /\ DOMAIN s = 1..Len(s)
  BY <1>1, <1>2, <1>3
<1>6. IsInjective(b)
  <2>1. ASSUME NEW i \in 1..(Len(s) - n), NEW j \in 1..(Len(s) - n), b[i] = b[j] PROVE i = j
    <3>1. s[n + i] = s[n + j] /\ n + i \in DOMAIN s /\ n + j \in DOMAIN s
      BY <1>1, <1>3, <1>5, <2>1
    <3>2. n + i = n + j
      BY <3>1 DEF IsInjective
    <3>3. QED
      BY <1>1, <3>2
  <2>2. QED
    BY <1>1, <1>5, <2>1 DEF IsInjective
<1>7. ASSUME NEW k \in S, k \in Range(s) PROVE k \in Range(a) \/ k \in Range(b)
  <2>1. PICK m \in 1..Len(s) : s[m] = k
    BY <1>5, <1>7 DEF Range
  <2>2. CASE m <= n
    BY <1>1, <1>2, <1>5, <2>1, <2>2 DEF Range
  <2>3. CASE m > n
    <3>1. m - n \in 1..(Len(s) - n) /\ b[m - n] = k
      BY <1>1, <1>3, <2>1, <2>3
    <3>2. QED
      BY <1>5, <3>1 DEF Range
  <2>4. QED
    BY <1>1, <2>2, <2>3
<1>8. ASSUME NEW k \in S, k \in Range(a) PROVE k \in Range(s)
  BY <1>1, <1>2, <1>5, <1>8 DEF Range
<1>9. ASSUME NEW k \in S, k \in Range(b) PROVE k \in Range(s)
  <2>1. PICK j \in 1..(Len(s) - n) : b[j] = k
    BY <1>5, <1>9 DEF Range
  <2>2. n + j \in 1..Len(s) /\ s[n + j] = k
    BY <1>1, <1>3, <2>1
  <2>3. QED
    BY <1>5, <2>2 DEF Range
<1>10. ASSUME NEW k \in S, k \in Range(a), k \in Range(b) PROVE FALSE
  <2>1. PICK i \in 1..n : a[i] = k
    BY <1>5, <1>10 DEF Range
  <2>2. PICK j \in 1..(Len(s) - n) : b[j] = k
    BY <1>5, <1>10 DEF Range
  <2>3. i \in 1..Len(s) /\ n + j \in 1..Len(s) /\ i # n + j
    BY <1>1
  <2>4. s[i] = k
    BY <1>2, <2>1
  <2>5. s[n + j] = k
    BY <1>3, <2>2
  <2>6. QED
    BY <1>5, <2>3, <2>4, <2>5 DEF IsInjective
<1>11. Range(a) \subseteq S
  BY <1>2, <1>5 DEF Range
<1>12. QED
  BY <1>3, <1>4, <1>6, <1>7, <1>8, <1>9, <1>10, <1>11

LEMMA RequeueSplit ==
    ASSUME NEW S, NEW chunk \in ChunkOf(S), NEW s \in Seq(S), IsInjective(s)
    PROVE  Splits(Requeue(chunk, s), s, S)
<1> DEFINE half == (IF Len(s) < BatchSize THEN Len(s) ELSE BatchSize) \div 2
           size == IF half > 1 THEN half ELSE 1
<1>0. Len(s) \in Nat /\ BatchSize \in Nat /\ \A m \in Nat : m \div 2 \in Nat
  OBVIOUS
<1>1. half \in Nat
  BY <1>0
<1>5. chunk.attempt + 1 \in Nat
  BY DEF ChunkOf
<1> HIDE DEF half
<1>2. size \in Nat \ {0}
  BY <1>1
<1>3. Requeue(chunk, s) = Chunks(s, size, chunk.attempt + 1)
  BY DEF Requeue, half
<1> HIDE DEF size
<1>4. QED
  BY <1>2, <1>3, <1>5, ChunksSplit

\* The ways a chunk in flight ends without an answer.
LEMMA UnansweredInv ==
    ASSUME CommitsInv, NEW c \in Client, pc[c] # "failed", NEW p \in {"post", "probe"},
           pc' = [pc EXCEPT ![c] = p], current' = [current EXCEPT ![c] = NoChunk],
           UNCHANGED answered,
           \/ /\ \/ queue' = [queue EXCEPT ![c] = Halves(current[c]) \o @]
                 \/ queue' = [queue EXCEPT ![c] = <<current[c]>> \o @]
                 \/ queue' = [queue EXCEPT ![c] = <<[current[c] EXCEPT !.attempt = @ + 1]>> \o @]
              /\ UNCHANGED dropped
           \/ queue' = [queue EXCEPT ![c] = <<>> \o @] /\ DropChunk(c)
    PROVE  CommitsInv'
<1> DEFINE chunk == current[c]
           again == [chunk EXCEPT !.attempt = @ + 1]
<1>1. chunk \in ChunkOf(Commits) /\ IsInjective(chunk.commits)
  BY DEF CommitsInv, CommitTypes, KeptOnce
<1>2. again \in ChunkOf(Commits) /\ again.commits = chunk.commits
  BY <1>1 DEF ChunkOf
<1>3. Range(chunk.commits) \subseteq Commits
  BY <1>1 DEF ChunkOf, Range
<1>4. /\ Splits(Halves(chunk), chunk.commits, Commits) /\ Splits(<<chunk>>, chunk.commits, Commits)
      /\ Splits(<<again>>, chunk.commits, Commits) /\ Splits(<<>>, <<>>, Commits)
  BY <1>1, <1>2, HalvesSplit, SameSplit, NoneSplit
<1>5. answered' = [answered EXCEPT ![c] = @ \cup {}]
  BY DEF CommitsInv, CommitTypes
<1>6. UNCHANGED dropped => dropped' = [dropped EXCEPT ![c] = @ \cup {}]
  BY DEF CommitsInv, CommitTypes
<1>7. DropChunk(c) => dropped' = [dropped EXCEPT ![c] = @ \cup Range(chunk.commits)]
  BY DEF DropChunk
<1>8. \A k : k \notin Range(<<>>)
  BY DEF Range
<1> HIDE DEF chunk, again
<1>9. ASSUME NEW chunks, Splits(chunks, chunk.commits, Commits), queue' = [queue EXCEPT ![c] = chunks \o @],
             UNCHANGED dropped
      PROVE  CommitsInv'
  BY <1>5, <1>6, <1>9, GoOnInv, {} \subseteq Commits DEF chunk
<1>10. CASE queue' = [queue EXCEPT ![c] = <<>> \o @] /\ DropChunk(c)
  BY <1>3, <1>4, <1>5, <1>7, <1>8, <1>10, GoOnInv, {} \subseteq Commits DEF chunk
<1>11. QED
  BY <1>4, <1>9, <1>10 DEF chunk, again

LEMMA AnswerInv == ASSUME CommitsInv, NEW c \in Client, Answer(c) PROVE CommitsInv'
<1> DEFINE chunk == current[c]
<1>1. PICK n \in Stops(chunk) :
        /\ pc[c] = "served" /\ pc' = [pc EXCEPT ![c] = "post"]
        /\ current' = [current EXCEPT ![c] = NoChunk]
        /\ answered' = [answered EXCEPT ![c] = @ \cup Range(Tried(chunk, n))]
        /\ \/ queue' = [queue EXCEPT ![c] = Requeue(chunk, Deferred(chunk, n)) \o @] /\ UNCHANGED dropped
           \/ /\ queue' = [queue EXCEPT ![c] = <<>> \o @]
              /\ dropped' = [dropped EXCEPT ![c] = @ \cup Range(Deferred(chunk, n))]
  BY DEF Answer, GoOn
<1>2. chunk \in ChunkOf(Commits) /\ IsInjective(chunk.commits)
  BY DEF CommitsInv, CommitTypes, KeptOnce
<1> DEFINE A == Range(Tried(chunk, n))
           s == Deferred(chunk, n)
<1>3. /\ s \in Seq(Commits) /\ IsInjective(s) /\ A \subseteq Commits
      /\ \A k \in Commits : /\ k \in Range(chunk.commits) <=> k \in A \/ k \in Range(s)
                            /\ ~(k \in A /\ k \in Range(s))
  BY <1>2, CutParts
<1>4. Splits(Requeue(chunk, s), s, Commits) /\ Splits(<<>>, <<>>, Commits)
  BY <1>2, <1>3, RequeueSplit, NoneSplit
<1>5. UNCHANGED dropped => dropped' = [dropped EXCEPT ![c] = @ \cup {}]
  BY DEF CommitsInv, CommitTypes
<1>6. \A k : k \notin Range(<<>>)
  BY DEF Range
<1>7. Range(s) \subseteq Commits
  BY <1>3 DEF Range
<1> HIDE DEF A, s, chunk
<1>8. CASE queue' = [queue EXCEPT ![c] = Requeue(chunk, s) \o @] /\ UNCHANGED dropped
  BY <1>1, <1>3, <1>4, <1>5, <1>8, GoOnInv, {} \subseteq Commits DEF chunk, A
<1>9. CASE queue' = [queue EXCEPT ![c] = <<>> \o @] /\ dropped' = [dropped EXCEPT ![c] = @ \cup Range(s)]
  BY <1>1, <1>3, <1>4, <1>6, <1>7, <1>9, GoOnInv DEF chunk, A
<1>10. QED
  BY <1>1, <1>8, <1>9 DEF s

LEMMA ClientCommits == ASSUME CommitsInv, NEW c \in Client, ClientStep(c) \/ Admit(c) PROVE CommitsInv'
<1>1. CASE FindHealthy(c)
  BY <1>1, PlaceInv DEF FindHealthy
<1>2. CASE FindNone(c) \/ StartTimesOut(c)
  <2>1. pc[c] \in {"probe", "starting"}
    BY <1>2 DEF FindNone, StartTimesOut
  <2>2. Raise(c) \/ (pc' = [pc EXCEPT ![c] = "starting"] /\ UNCHANGED <<queue, current, answered, dropped>>)
    BY <1>2 DEF FindNone, StartTimesOut, StartUp
  <2>3. QED
    BY <2>1, <2>2, RaiseInv, PlaceInv
<1>3. CASE Backpressure(c)
  <2>1. \/ GoOn(c, Halves(current[c])) /\ UNCHANGED dropped
        \/ GoOn(c, <<[current[c] EXCEPT !.attempt = @ + 1]>>) /\ UNCHANGED dropped
        \/ GoOn(c, <<>>) /\ DropChunk(c)
    BY <1>3 DEF Backpressure
  <2>2. pc[c] # "failed" /\ UNCHANGED answered
    BY <1>3 DEF Backpressure
  <2>3. QED
    BY <2>1, <2>2, UnansweredInv DEF GoOn
<1>4. CASE ServerError(c)
  <2>1. \/ GoOn(c, Halves(current[c])) /\ UNCHANGED dropped
        \/ GoOn(c, <<>>) /\ DropChunk(c)
    BY <1>4 DEF ServerError
  <2>2. pc[c] # "failed" /\ UNCHANGED answered
    BY <1>4 DEF ServerError
  <2>3. QED
    BY <2>1, <2>2, UnansweredInv DEF GoOn
<1>5. CASE ConnectionLost(c)
  <2>1. \/ Raise(c)
        \/ /\ queue' = [queue EXCEPT ![c] = <<current[c]>> \o @]
           /\ current' = [current EXCEPT ![c] = NoChunk]
           /\ pc' = [pc EXCEPT ![c] = "probe"]
           /\ UNCHANGED <<answered, dropped>>
    BY <1>5 DEF ConnectionLost
  <2>2. pc[c] # "failed"
    BY <1>5 DEF ConnectionLost
  <2>3. QED
    BY <2>1, <2>2, RaiseInv, UnansweredInv
<1>6. CASE SocketTimeout(c)
  <2>1. \/ GoOn(c, Halves(current[c])) /\ UNCHANGED <<answered, dropped>>
        \/ GoOn(c, <<>>) /\ DropChunk(c) /\ UNCHANGED answered
        \/ Raise(c)
    BY <1>6 DEF SocketTimeout
  <2>2. pc[c] # "failed"
    BY <1>6 DEF SocketTimeout
  <2>3. QED
    BY <2>1, <2>2, RaiseInv, UnansweredInv DEF GoOn
<1>7. CASE Admit(c)
  BY <1>7, PlaceInv DEF Admit
<1>8. QED
  BY <1>1, <1>2, <1>3, <1>4, <1>5, <1>6, <1>7, AnswerInv, PostInv DEF ClientStep

\* The daemons and the script move no commit.
LEMMA DaemonCommits ==
    ASSUME CommitsInv, UNCHANGED <<queue, current, answered, dropped>>,
           \/ UNCHANGED pc
           \/ pc' = [c \in Client |-> IF pc[c] \in {"sent", "served"} THEN "lost" ELSE pc[c]]
    PROVE  CommitsInv'
<1>1. CommitTypes'
  BY DEF CommitsInv, CommitTypes
<1>2. ASSUME NEW c \in Client PROVE KeptOnce(c)'
  <2>1. /\ pc'[c] \notin {"sent", "served", "lost", "failed"} => pc[c] \notin {"sent", "served", "lost", "failed"}
        /\ pc'[c] # "failed" => pc[c] # "failed"
    BY DEF CommitsInv, CommitTypes
  <2>2. QED
    BY <2>1 DEF CommitsInv, KeptOnce, OnePlace
<1>3. QED
  BY <1>1, <1>2 DEF CommitsInv

LEMMA CommitsStep == CommitsInv /\ [MailNext]_mailVars => CommitsInv'
<1> SUFFICES ASSUME CommitsInv, [MailNext]_mailVars PROVE CommitsInv'
  OBVIOUS
<1> USE DEF daemonVars, scriptVars, clientVars
<1>1. CASE UNCHANGED mailVars
  BY <1>1, DaemonCommits DEF mailVars
<1>2. CASE ScriptStep
  BY <1>2, DaemonCommits DEF ScriptStep, TakeLock, LockTimesOut, ProbeInLock, KillListener, Launch, Unlock, Gone
<1>3. ASSUME NEW d \in Daemon, Bind(d) \/ BootFails(d) \/ MemoryExit(d) PROVE CommitsInv'
  BY <1>3, DaemonCommits DEF Bind, BootFails, MemoryExit, Gone
<1>4. CASE AdmitOrphan \/ RefuseOrphan \/ FinishOrphan
  BY <1>4, DaemonCommits DEF AdmitOrphan, RefuseOrphan, FinishOrphan
<1>5. QED
  BY <1>1, <1>2, <1>3, <1>4, ClientCommits DEF MailNext

LEMMA OnceIsOne ==
    ASSUME CommitsInv, NEW c \in Client, pc[c] # "failed", NEW k \in Range(Work[c])
    PROVE  Times(c, k) = 1
<1> DEFINE three == <<Range(current[c].commits), answered[c], dropped[c]>>
           others == {i \in 1..3 : k \in three[i]}
<1>1. k \in Commits
  BY DEF Commits
<1>2. OnePlace(c, k)
  BY <1>1 DEF CommitsInv, KeptOnce
<1>6. Times(c, k) = Cardinality(Posted(c, k)) + Cardinality(others)
  BY DEF Times
<1>7. Cardinality({}) = 0 /\ \A x : Cardinality({x}) = 1
  BY FS_Singleton, FS_EmptySet
<1>3. CASE Has(queue[c], k)
  <2>1. PICK i \in DOMAIN queue[c] : \E j \in DOMAIN queue[c][i].commits : queue[c][i].commits[j] = k
    BY <1>3 DEF Has
  <2>2. PICK j \in DOMAIN queue[c][i].commits : queue[c][i].commits[j] = k
    BY <2>1
  <2>3. Once(queue[c], k)
    BY <1>2 DEF OnePlace
  <2>4. Posted(c, k) = {<<i, j>>}
    BY <2>2, <2>3 DEF Posted, Once
  <2>5. others = {}
    BY <1>2, <1>3 DEF OnePlace
  <2>6. QED
    <3>1. Cardinality(Posted(c, k)) = 1 /\ Cardinality(others) = 0
      BY <1>7, <2>4, <2>5
    <3> HIDE DEF others
    <3>2. QED
      BY <1>6, <3>1
<1>4. CASE ~Has(queue[c], k)
  <2>1. Posted(c, k) = {}
    BY <1>4 DEF Posted, Has
  <2>2. \E i \in 1..3 : others = {i}
    <3>1. CASE k \in Range(current[c].commits)
      BY <1>2, <3>1, others = {1} DEF OnePlace
    <3>2. CASE k \in answered[c]
      BY <1>2, <3>2 DEF OnePlace
    <3>3. CASE k \in dropped[c]
      BY <1>2, <3>3 DEF OnePlace
    <3>4. QED
      BY <1>2, <1>4, <3>1, <3>2, <3>3 DEF OnePlace
  <2>3. QED
    <3>1. Cardinality(Posted(c, k)) = 0 /\ Cardinality(others) = 1
      BY <1>7, <2>1, <2>2
    <3> HIDE DEF others
    <3>2. QED
      BY <1>6, <3>1
<1>5. QED
  BY <1>3, <1>4

\* Through every halving, deferral, retry, loss and restart of a daemon, each commit
\* that a client was given is in exactly one place: once in a chunk of its queue or in
\* flight, or answered, or dropped with a warning (resolve_commits). For every number
\* of clients and commits, every batch size and every limit on attempts.
THEOREM NoCommitLost == MailSpec => []EachCommitOnce
<1>1. CommitsInv => EachCommitOnce
  BY OnceIsOne DEF EachCommitOnce
<1>2. QED
  BY <1>1, CommitsInit, CommitsStep, PTL DEF MailSpec

-----------------------------------------------------------------------------
(* The slots of the daemons, and their start-ups                           *)

Places == {"probe", "starting", "post", "sent", "served", "lost", "done", "failed"}

Served == {c \in Client : pc[c] = "served"}

ServerTypes ==
    /\ pc \in [Client -> Places]
    /\ daemon \in [Daemon -> {"none", "booting", "up", "dead"}]
    /\ outdated \subseteq Daemon
    /\ slots \in Nat
    /\ orphans \in [waiting : Nat, running : Nat]

SlotsInv == ServerTypes /\ SlotsAreRequests

LEMMA ServedCounts ==
    ASSUME NEW S \in SUBSET Client, NEW c \in Client
    PROVE  /\ IsFiniteSet(S) /\ Cardinality(S) \in Nat
           /\ c \notin S => Cardinality(S \cup {c}) = Cardinality(S) + 1
           /\ c \in S => Cardinality(S \ {c}) = Cardinality(S) - 1 /\ Cardinality(S) > 0
<1>1. IsFiniteSet(S)
  BY FS_Subset
<1>2. Cardinality(S) \in Nat
  BY <1>1, FS_CardinalityType
<1>3. c \notin S => Cardinality(S \cup {c}) = Cardinality(S) + 1
  BY <1>1, FS_AddElement
<1>4. c \in S => Cardinality(S \ {c}) = Cardinality(S) - 1
  BY <1>1, FS_RemoveElement
<1>5. c \in S => Cardinality(S) > 0
  BY <1>1, <1>2, FS_EmptySet
<1>6. QED
  BY <1>1, <1>2, <1>3, <1>4, <1>5

LEMMA SlotsInit == MailInit => SlotsInv
<1> SUFFICES ASSUME MailInit PROVE SlotsInv
  OBVIOUS
<1>1. ServerTypes
  BY DEF MailInit, ServerTypes, Places, Daemon
<1>2. {c \in Client : pc[c] = "served"} = {}
  BY DEF MailInit
<1>3. Cardinality({c \in Client : pc[c] = "served"}) = 0
  BY <1>2, FS_EmptySet
<1>4. slots = MaxConcurrent /\ orphans.running = 0
  BY DEF MailInit
<1>5. QED
  BY <1>1, <1>3, <1>4 DEF SlotsInv, SlotsAreRequests

\* A client leaves its slot, takes one, or neither: what becomes of the count.
Moves(c) ==
    /\ UNCHANGED <<daemon, outdated>>
    /\ \E p \in Places : pc' = [pc EXCEPT ![c] = p]
    /\ \/ /\ pc[c] = "served" <=> pc'[c] = "served"
          /\ slots' = slots /\ orphans'.running = orphans.running
       \/ /\ pc[c] = "served" /\ pc'[c] # "served"
          /\ \/ slots' = slots + 1 /\ orphans' = orphans
             \/ slots' = slots /\ orphans'.running = orphans.running + 1
       \/ /\ pc[c] # "served" /\ pc'[c] = "served"
          /\ slots > 0 /\ slots' = slots - 1 /\ orphans' = orphans
    /\ orphans' \in [waiting : Nat, running : Nat]

LEMMA MovesInv == ASSUME SlotsInv, NEW c \in Client, Moves(c) PROVE SlotsInv'
<1> USE DEF SlotsInv, ServerTypes, Moves
<1>1. ServerTypes'
  BY DEF Places
<1>2. \A d \in Client \ {c} : pc'[d] = pc[d]
  OBVIOUS
<1>3. /\ (pc[c] = "served" <=> pc'[c] = "served") => Served' = Served
      /\ pc[c] = "served" /\ pc'[c] # "served" => Served' = Served \ {c} /\ c \in Served
      /\ pc[c] # "served" /\ pc'[c] = "served" => Served' = Served \cup {c} /\ c \notin Served
  BY <1>2 DEF Served
<1>4. Served \in SUBSET Client
  BY DEF Served
<1>5. slots + orphans.running + Cardinality(Served) = MaxConcurrent
  BY DEF SlotsAreRequests, Served
<1>6. slots' + orphans'.running + Cardinality(Served') = MaxConcurrent
  <2>1. CASE pc[c] = "served" <=> pc'[c] = "served"
    BY <2>1, <1>3, <1>5
  <2>2. CASE pc[c] = "served" /\ pc'[c] # "served"
    <3>1. /\ Cardinality(Served') = Cardinality(Served) - 1
          /\ Cardinality(Served) \in Nat
      BY <1>3, <1>4, <2>2, ServedCounts
    <3>2. QED
      BY <1>5, <2>2, <3>1
  <2>3. CASE pc[c] # "served" /\ pc'[c] = "served"
    <3>1. /\ Cardinality(Served') = Cardinality(Served) + 1
          /\ Cardinality(Served) \in Nat
      BY <1>3, <1>4, <2>3, ServedCounts
    <3>2. QED
      BY <1>5, <2>3, <3>1
  <2>4. QED
    BY <2>1, <2>2, <2>3
<1>7. QED
  BY <1>1, <1>6 DEF SlotsAreRequests, Served

LEMMA ClientSlots == ASSUME SlotsInv, NEW c \in Client, ClientStep(c) \/ Admit(c) PROVE SlotsInv'
<1> USE DEF daemonVars, scriptVars, clientVars
<1>1. Moves(c)
  <2> USE DEF SlotsInv, ServerTypes, Moves, Places
  <2>1. CASE FindHealthy(c)
    BY <2>1 DEF FindHealthy
  <2>2. CASE FindNone(c) \/ StartTimesOut(c)
    BY <2>2 DEF FindNone, StartTimesOut, StartUp, Raise
  <2>3. CASE Post(c)
    BY <2>3 DEF Post
  <2>4. CASE Answer(c)
    BY <2>4 DEF Answer, ReleaseSlot, GoOn
  <2>5. CASE Backpressure(c)
    BY <2>5 DEF Backpressure, ReleaseSlot, GoOn
  <2>6. CASE ServerError(c)
    BY <2>6 DEF ServerError, ReleaseSlot, GoOn
  <2>7. CASE ConnectionLost(c)
    BY <2>7 DEF ConnectionLost, Raise
  <2>8. CASE SocketTimeout(c)
    <3>1. \E p \in {"post", "failed"} : pc' = [pc EXCEPT ![c] = p]
      BY <2>8 DEF SocketTimeout, GoOn, Raise
    <3>2. pc[c] = "served" => slots' = slots /\ orphans' = [orphans EXCEPT !.running = @ + 1]
      BY <2>8 DEF SocketTimeout
    <3>3. pc[c] # "served" => slots' = slots /\ orphans' = [orphans EXCEPT !.waiting = @ + 1]
      BY <2>8 DEF SocketTimeout
    <3>4. UNCHANGED <<daemon, outdated>>
      BY <2>8 DEF SocketTimeout
    <3>5. orphans' \in [waiting : Nat, running : Nat]
      BY <3>2, <3>3
    <3>6. pc'[c] # "served"
      BY <3>1
    <3>7. CASE pc[c] = "served"
      BY <3>1, <3>2, <3>4, <3>5, <3>6, <3>7
    <3>8. CASE pc[c] # "served"
      BY <3>1, <3>3, <3>4, <3>5, <3>6, <3>8
    <3>9. QED
      BY <3>7, <3>8
  <2>9. CASE Admit(c)
    BY <2>9 DEF Admit
  <2>10. QED
    BY <2>1, <2>2, <2>3, <2>4, <2>5, <2>6, <2>7, <2>8, <2>9 DEF ClientStep
<1>2. QED
  BY <1>1, MovesInv

LEMMA GoneSlots == ASSUME SlotsInv, NEW d \in Daemon, Gone(d) PROVE SlotsInv'
<1> USE DEF SlotsInv, ServerTypes, Gone
<1>1. ServerTypes'
  BY DEF Places
<1>2. {c \in Client : pc'[c] = "served"} = {}
  OBVIOUS
<1>3. Cardinality({c \in Client : pc'[c] = "served"}) = 0
  BY <1>2, FS_EmptySet
<1>4. QED
  BY <1>1, <1>3 DEF SlotsAreRequests

LEMMA SlotsStep == SlotsInv /\ [MailNext]_mailVars => SlotsInv'
<1> SUFFICES ASSUME SlotsInv, [MailNext]_mailVars PROVE SlotsInv'
  OBVIOUS
<1> USE DEF SlotsInv, ServerTypes, daemonVars, scriptVars, clientVars
<1>1. ASSUME UNCHANGED <<daemonVars, pc>> PROVE SlotsInv'
  BY <1>1 DEF SlotsAreRequests
<1>2. ASSUME UNCHANGED <<slots, orphans, pc, outdated>>,
             NEW d \in Daemon, NEW s \in {"booting", "up", "dead"}, daemon' = [daemon EXCEPT ![d] = s]
      PROVE  SlotsInv'
  BY <1>2 DEF SlotsAreRequests
<1>3. ASSUME NEW c \in Client, ClientStep(c) \/ Admit(c) PROVE SlotsInv'
  BY <1>3, ClientSlots
<1>4. CASE ScriptStep
  <2>1. CASE KillListener
    BY <2>1, <1>1, GoneSlots DEF KillListener, Up
  <2>2. CASE Launch
    BY <2>2, <1>2 DEF Launch
  <2>3. QED
    BY <1>1, <1>4, <2>1, <2>2 DEF ScriptStep, TakeLock, LockTimesOut, ProbeInLock, Unlock
<1>5. ASSUME NEW d \in Daemon, Bind(d) \/ BootFails(d) \/ MemoryExit(d) PROVE SlotsInv'
  BY <1>2, <1>5, GoneSlots DEF Bind, BootFails, MemoryExit
<1>6. CASE AdmitOrphan \/ RefuseOrphan \/ FinishOrphan
  <2>1. ServerTypes' /\ slots' + orphans'.running = slots + orphans.running /\ pc' = pc
    <3>1. CASE AdmitOrphan
      BY <3>1 DEF AdmitOrphan
    <3>2. CASE RefuseOrphan
      BY <3>2 DEF RefuseOrphan
    <3>3. CASE FinishOrphan
      <4>1. PICK o : o = orphans.running - 1
        OBVIOUS
      <4>2. orphans.running \in Nat /\ o \in Nat /\ orphans.running = o + 1
        BY <3>3, <4>1 DEF FinishOrphan
      <4>3. orphans' = [orphans EXCEPT !.running = o] /\ slots' = slots + 1 /\ pc' = pc
        BY <3>3, <4>1 DEF FinishOrphan
      <4>4. orphans'.running = o /\ orphans' \in [waiting : Nat, running : Nat]
        BY <4>2, <4>3
      <4>5. slots' \in Nat /\ slots' + o = slots + (o + 1)
        <5>1. PICK s : s = slots
          OBVIOUS
        <5>2. s \in Nat /\ slots' = s + 1
          BY <4>3, <5>1
        <5>3. s + 1 \in Nat /\ (s + 1) + o = s + (o + 1)
          BY <4>2, <5>2
        <5>4. QED
          BY <5>1, <5>2, <5>3
      <4>6. pc' \in [Client -> Places] /\ daemon' = daemon /\ outdated' = outdated
        BY <3>3, <4>3 DEF FinishOrphan
      <4>7. ServerTypes'
        BY <4>4, <4>5, <4>6
      <4>8. slots' + orphans'.running = slots + orphans.running
        BY <4>2, <4>4, <4>5
      <4>9. QED
        BY <4>3, <4>7, <4>8
    <3>4. QED
      BY <1>6, <3>1, <3>2, <3>3
  <2>2. Cardinality(Served) \in Nat
    BY ServedCounts, FS_Subset, FS_CardinalityType DEF Served
  <2>3. QED
    BY <2>1, <2>2 DEF SlotsAreRequests, Served
<1>7. CASE UNCHANGED mailVars
  BY <1>1, <1>7 DEF mailVars
<1>8. QED
  BY <1>3, <1>4, <1>5, <1>6, <1>7 DEF MailNext

\* The semaphore of a daemon counts the requests that run in it (_admit, _finish_heavy),
\* for any number of clients, slots and daemons: no path leaks a slot or frees one twice.
THEOREM SlotsCounted == MailSpec => []SlotsAreRequests
<1>1. SlotsInv => SlotsAreRequests
  BY DEF SlotsInv
<1>2. QED
  BY <1>1, SlotsInit, SlotsStep, PTL DEF MailSpec

-----------------------------------------------------------------------------
(***************************************************************************)
(* The start-up script.                                                    *)
(***************************************************************************)
\* A daemon boots only while the script that launched it holds the lock, and none
\* becomes healthy between the probe inside the lock and the kill.
ScriptInv ==
    /\ daemon \in [Daemon -> {"none", "booting", "up", "dead"}]
    /\ holder # "holding" => Booting = {}
    /\ holder = "killing" => ~Healthy

LEMMA ScriptInit == MailInit => ScriptInv
<1> SUFFICES ASSUME MailInit PROVE ScriptInv
  OBVIOUS
<1>1. daemon \in [Daemon -> {"none", "up"}] /\ holder = "free"
  BY DEF MailInit
<1>2. QED
  BY <1>1 DEF ScriptInv, Booting

LEMMA ScriptStepInv == ASSUME HoldCoversBoot PROVE ScriptInv /\ [MailNext]_mailVars => ScriptInv'
<1> SUFFICES ASSUME ScriptInv, [MailNext]_mailVars PROVE ScriptInv'
  OBVIOUS
<1> USE DEF ScriptInv, Booting, Healthy, Up, daemonVars, scriptVars, clientVars
<1>1. ASSUME UNCHANGED <<daemon, outdated, holder>> PROVE ScriptInv'
  BY <1>1
<1>2. ASSUME NEW d \in Daemon, Gone(d), holder' # "killing",
             holder' = holder \/ (holder # "holding" /\ holder' # "holding")
      PROVE  ScriptInv'
  BY <1>2 DEF Gone
<1>3. ASSUME NEW c \in Client, ClientStep(c) \/ Admit(c) PROVE ScriptInv'
  BY <1>1, <1>3 DEF ClientStep, Admit, FindHealthy, FindNone, StartTimesOut, StartUp, Post, Answer,
     Backpressure, ServerError, ConnectionLost, SocketTimeout
<1>4. CASE ScriptStep
  <2>1. CASE TakeLock
    BY <2>1 DEF TakeLock
  <2>2. CASE LockTimesOut
    BY <2>2, <1>1 DEF LockTimesOut
  <2>3. CASE ProbeInLock
    BY <2>3 DEF ProbeInLock
  <2>4. CASE KillListener
    BY <2>4, <1>2 DEF KillListener
  <2>5. CASE Launch
    BY <2>5 DEF Launch
  <2>6. CASE Unlock
    BY <2>6 DEF Unlock
  <2>7. QED
    BY <1>4, <2>1, <2>2, <2>3, <2>4, <2>5, <2>6 DEF ScriptStep
<1>5. ASSUME NEW d \in Daemon, Bind(d) PROVE ScriptInv'
  BY <1>5 DEF Bind
<1>6. ASSUME NEW d \in Daemon, BootFails(d) PROVE ScriptInv'
  BY <1>6 DEF BootFails
<1>7. ASSUME NEW d \in Daemon, MemoryExit(d) PROVE ScriptInv'
  BY <1>7 DEF MemoryExit, Gone
<1>8. CASE AdmitOrphan \/ RefuseOrphan \/ FinishOrphan
  BY <1>1, <1>8 DEF AdmitOrphan, RefuseOrphan, FinishOrphan
<1>9. CASE UNCHANGED mailVars
  BY <1>1, <1>9 DEF mailVars
<1>10. QED
  BY <1>3, <1>4, <1>5, <1>6, <1>7, <1>8, <1>9 DEF MailNext

\* If a daemon listens before the hold of its lock ends, the script that kills the
\* listener never meets a healthy one: what it found unhealthy inside the lock has
\* not been replaced since.
THEOREM HealthyDaemonSurvives == ASSUME HoldCoversBoot PROVE MailSpec => HealthyNotKilled
<1>1. ScriptInv /\ [MailNext]_mailVars => ScriptInv'
  BY ScriptStepInv
<1>2. ScriptInv =>
        [(holder = "killing" /\ holder' = "draining") => \A d \in Up \ outdated : daemon'[d] = "up"]_mailVars
  BY DEF ScriptInv, Healthy
<1>3. QED
  BY <1>1, <1>2, ScriptInit, PTL DEF MailSpec, HealthyNotKilled

-----------------------------------------------------------------------------
(* Positions of the parent: what is left of its loops.                     *)
Ingesting == <<"ingest", "drain">>
Draining == <<"drain">>
Taking == <<"take", "retry", "drain">>
Retrying == <<"retry", "drain">>
Selecting == <<"select", "waves", "close", "drain">>
Waving == <<"waves", "close", "drain">>
Closing == <<"close", "drain">>

Gathering == stage \in {"headers", "missing", "sources"}

ScheduleTypes ==
    /\ version \in Versions
    /\ changed \subseteq File /\ stored \subseteq File
    /\ published \subseteq File /\ completed \subseteq File
    /\ ready \subseteq File /\ deferred \subseteq File /\ batch \subseteq File
    /\ remaining \subseteq File /\ wave \subseteq File
    /\ waiters \in [File -> SUBSET File] /\ pending \in [File -> SUBSET File]
    /\ DOMAIN answer = File
    /\ \A f \in File : DOMAIN answer[f] = DOMAIN Refs(f)

(* Nothing executes before the files missing from the previous version are *)
(* known; then the set of changed files is the whole update.               *)
UpdateKnown ==
    /\ stage = "start" => agenda = << >> /\ changed = version.headers \cup version.sources
    /\ stage # "start" => changed = Update

AnswersInv == ScheduleTypes /\ UpdateKnown /\ EvacuatedWhole

(* The loops the parent may be in, by stage.                               *)
Loops ==
    /\ stage = "start" => agenda = << >>
    /\ stage \in {"headers", "missing"} => agenda \in {<< >>, Ingesting, Draining}
    /\ stage = "sources" => agenda \in {<< >>, Ingesting, Redo, Taking, Retrying, Draining}
    /\ stage = "resolve" => agenda \in {Selecting, Waving, Closing, Draining, << >>}

(* A ChangeSet waits on a file that is still to complete, or is left to    *)
(* the deferred queue, or to resolve_headers.                              *)
Waits(f) == \E d \in File : f \in waiters[d] /\ InFlight(d)
LeftOver(f) == Elsewhere \in Deps(f) /\ (f \in deferred \/ HeaderStage)
Kept(f) == Waits(f) \/ LeftOver(f)

\* A ChangeSet of S is to run next, or waits, or is left over.
InCustody(S, due) == \A g \in S : g \in due \/ Kept(g)

\* What a held header waits for will wake it.
Linked == \A f \in File : \A d \in pending[f] : f \in waiters[d] /\ InFlight(d)

\* The files about to be executed.
Due == ready \cup (IF agenda = Retrying THEN batch ELSE {})

CompletedArePublished == completed \subseteq published

StartInv ==
    /\ stored = {} /\ completed = {} /\ ready = {}
    /\ \A f \in File : pending[f] = {}

(* While the batches of a stage arrive.                                    *)
GatheringInv ==
    /\ Linked
    /\ CompletedArePublished
    /\ agenda = Ingesting => batch \cap Plain \subseteq published
    /\ agenda = << >> => ready = {}
    /\ InCustody(stored \ completed, Due)

(* In resolve_headers: the wave pass takes what remains, and leaves        *)
(* nothing unless the deadline passes; only then is a ChangeSet completed  *)
(* that was not executed, and the sources are not started.                 *)
ResolvingInv ==
    /\ agenda \in {Selecting, Waving, Closing} \/ ~expired => CompletedArePublished
    /\ agenda = Waving => stored \ completed \subseteq remaining
    /\ agenda = Closing => expired \/ stored \subseteq completed
    /\ agenda \in {Draining, << >>} =>
          stored \subseteq completed /\ \A f \in File : pending[f] = {}
    /\ agenda = << >> => ready = {}

Custody ==
    /\ Loops
    /\ stage = "start" => StartInv
    /\ Gathering => GatheringInv
    /\ stage = "resolve" => ResolvingInv

StageKnown == stage \in {"start", "headers", "missing", "sources", "resolve", "finalize", "done"}

CustodyInv == AnswersInv /\ StageKnown /\ Custody

-----------------------------------------------------------------------------
(* The references of a file, and one execution of its ChangeSet            *)

\* A file refers to files and to Elsewhere, never to itself; a plain file to nothing.
LEMMA References ==
    ASSUME version \in Versions, NEW f \in File
    PROVE  /\ f \notin Deps(f) /\ Deps(f) \subseteq File \cup {Elsewhere}
           /\ Deps(f) = { Refs(f)[k] : k \in DOMAIN Refs(f) }
           /\ DOMAIN Refs(f) = 1..Len(Refs(f)) /\ Len(Refs(f)) \in Nat
           /\ f \in Plain => DOMAIN Refs(f) = {}
           /\ Elsewhere \notin File /\ Plain \subseteq File
<1>1. /\ version.refs \in [File -> Seq(File \cup {Elsewhere})]
      /\ f \notin ToSet(version.refs[f]) /\ (f \in Plain => version.refs[f] = << >>)
  BY SchedulerAssumptions
<1> DEFINE s == version.refs[f]
<1>2. s \in Seq(File \cup {Elsewhere})
  BY <1>1
<1>3. Refs(f) = s /\ f \notin ToSet(s) /\ (f \in Plain => s = << >>)
  BY <1>1 DEF Refs
<1> HIDE DEF s
<1>4. ToSet(s) = { s[k] : k \in DOMAIN s } /\ DOMAIN s = 1..Len(s) /\ Len(s) \in Nat
  BY <1>2 DEF ToSet
<1>5. ToSet(s) \subseteq File \cup {Elsewhere}
  BY <1>2, <1>4
<1>6. Deps(f) = ToSet(s)
  BY <1>3 DEF Deps
<1>7. s = << >> => DOMAIN s = {}
  BY <1>4
<1>8. QED
  BY <1>3, <1>4, <1>5, <1>6, <1>7, SchedulerAssumptions

\* A nonempty set of positions has a last one.
LEMMA LastPosition ==
    ASSUME NEW n \in Nat, NEW S \in SUBSET (1..n), S # {}
    PROVE  Max(S) \in S
<1> DEFINE T == { n - k : k \in S }
<1>1. T \subseteq Nat /\ T # {}
  <2>1. \A k \in S : n - k \in Nat
    OBVIOUS
  <2>2. QED
    BY <2>1
<1>2. PICK t \in T : \A y \in T : ~(<<y, t>> \in OpToRel(<, Nat))
  BY <1>1, WFMin, NatLessThanWellFounded, Zenon
<1>3. \A y \in T : ~(y < t)
  BY <1>1, <1>2 DEF OpToRel
<1>4. PICK m \in S : t = n - m
  OBVIOUS
<1>5. \A k \in S : m >= k
  <2> TAKE k \in S
  <2>1. ~(n - k < n - m)
    BY <1>3, <1>4
  <2>2. QED
    BY <2>1
<1>6. QED
  BY <1>5 DEF Max

\* The answers an execution leaves.
LEMMA ExecutedAnswers ==
    ASSUME ScheduleTypes, NEW f \in File, NEW seen, NEW fallback,
           NEW answers, answers = Executed(f, seen, fallback)
    PROVE  /\ DOMAIN answers = DOMAIN Refs(f)
           /\ \A k \in DOMAIN Refs(f) :
                 /\ Refs(f)[k] \in File \cup {Elsewhere}
                 /\ answers[k] = "none" => answer[f][k] = "none"
                 /\ answers[k] = "none" =>
                       \/ Refs(f)[k] = Elsewhere
                       \/ Refs(f)[k] \in changed \cup stored /\ Refs(f)[k] \notin published
<1>1. DOMAIN answer[f] = DOMAIN Refs(f)
  BY DEF ScheduleTypes
<1>2. DOMAIN answers = DOMAIN Refs(f)
  BY <1>1 DEF Executed
<1>3. \A k \in DOMAIN Refs(f) : Refs(f)[k] \in File \cup {Elsewhere}
  BY References DEF ScheduleTypes
<1>4. \A k \in DOMAIN Refs(f) :
          answers[k] = IF answer[f][k] = "none" THEN Resolve(Refs(f)[k], seen, fallback[k]) ELSE answer[f][k]
  BY <1>1 DEF Executed
<1>5. \A d, fall : Resolve(d, seen, fall) = "none" =>
                   d = Elsewhere \/ (d \in changed \cup stored /\ d \notin published)
  BY DEF Resolve
<1>6. QED
  BY <1>2, <1>3, <1>4, <1>5

\* What blocks a ChangeSet is a file it refers to that has not executed, or it refers elsewhere.
LEMMA Blocking ==
    ASSUME ScheduleTypes, NEW f \in File, NEW seen, NEW answers,
           answers = Executed(f, seen, Waiting(f)), ~Whole(answers)
    PROVE  LET d == BlockedOn(f, answers)
           IN  \/ d = Elsewhere /\ Elsewhere \in Deps(f)
               \/ d \in File /\ d # f /\ d \in changed \cup stored /\ d \notin published
<1> DEFINE blocked == { k \in DOMAIN answers : answers[k] = "none" /\ Refs(f)[k] # Elsewhere }
<1>1. DOMAIN answers = DOMAIN Refs(f)
  BY ExecutedAnswers
<1>2. \A k \in DOMAIN Refs(f) : Refs(f)[k] \in Deps(f)
  BY References DEF ScheduleTypes
<1>3. CASE blocked = {}
  <2>1. PICK k \in DOMAIN answers : answers[k] = "none"
    BY DEF Whole
  <2>2. Refs(f)[k] = Elsewhere
    BY <1>3, <2>1
  <2>3. BlockedOn(f, answers) = Elsewhere
    BY <1>3 DEF BlockedOn
  <2>4. QED
    BY <1>1, <1>2, <2>2, <2>3
<1>4. CASE blocked # {}
  <2>1. blocked \subseteq 1..Len(Refs(f)) /\ Len(Refs(f)) \in Nat
    BY <1>1, References DEF ScheduleTypes
  <2>2. Max(blocked) \in blocked
    BY <1>4, <2>1, LastPosition
  <2>3. BlockedOn(f, answers) = Refs(f)[Max(blocked)]
    BY <1>4 DEF BlockedOn
  <2> HIDE DEF blocked
  <2>4. PICK k \in blocked : k = Max(blocked)
    BY <2>2
  <2>5. k \in DOMAIN Refs(f) /\ answers[k] = "none" /\ Refs(f)[k] # Elsewhere
    BY <1>1, <2>4 DEF blocked
  <2>6. Refs(f)[k] \in File /\ Refs(f)[k] \in changed \cup stored /\ Refs(f)[k] \notin published
    <3>1. \A j \in DOMAIN Refs(f) :
              /\ Refs(f)[j] \in File \cup {Elsewhere}
              /\ answers[j] = "none" => Refs(f)[j] = Elsewhere
                                        \/ (Refs(f)[j] \in changed \cup stored /\ Refs(f)[j] \notin published)
      BY ExecutedAnswers
    <3>2. QED
      BY <2>5, <3>1
  <2>7. Refs(f)[k] # f
    BY <1>2, <2>5, References DEF ScheduleTypes
  <2>8. QED
    BY <2>3, <2>4, <2>6, <2>7
<1>5. QED
  BY <1>3, <1>4

\* Completing files wakes what waited on them, and only that.
LEMMA WakeTypes ==
    ASSUME ScheduleTypes, NEW D \in SUBSET File, NEW due \in SUBSET File, Wake(D, due)
    PROVE  /\ waiters' \in [File -> SUBSET File] /\ pending' \in [File -> SUBSET File]
           /\ ready' \subseteq File
<1>1. waiters \in [File -> SUBSET File] /\ pending \in [File -> SUBSET File]
  BY DEF ScheduleTypes
<1>2. waiters' \in [File -> SUBSET File]
  BY <1>1 DEF Wake
<1>3. pending' \in [File -> SUBSET File]
  BY <1>1 DEF Wake
<1>4. UNION { waiters[d] : d \in D } \subseteq File
  BY <1>1
<1>5. ready' \subseteq File
  BY <1>4 DEF Wake
<1>6. QED
  BY <1>2, <1>3, <1>5

\* Parking changes no pending file and takes nobody from where it waits.
LEMMA ParkTypes ==
    ASSUME ScheduleTypes, NEW f \in File, NEW seen, NEW defer, NEW due \in SUBSET File,
           NEW answers, answers = Executed(f, seen, Waiting(f)), Park(f, answers, defer, due)
    PROVE  /\ waiters' \in [File -> SUBSET File]
           /\ \A d \in File : waiters[d] \subseteq waiters'[d]
           /\ UNCHANGED <<published, completed, pending>> /\ ready' = due
           /\ deferred \subseteq deferred' /\ deferred' \subseteq deferred \cup {f}
<1>1. waiters \in [File -> SUBSET File]
  BY DEF ScheduleTypes
<1>2. PICK d : d = BlockedOn(f, answers)
  OBVIOUS
<1>3. d # Elsewhere => d \in File
  BY <1>2, Blocking DEF Park
<1>4. waiters' = waiters \/ (d \in File /\ waiters' = [waiters EXCEPT ![d] = @ \cup {f}])
  BY <1>2, <1>3 DEF Park
<1>5. QED
  BY <1>1, <1>4 DEF Park

\* New answers take no old one back.
Answered(f, answers) ==
    /\ DOMAIN answers = DOMAIN Refs(f)
    /\ \A k \in DOMAIN Refs(f) : answers[k] = "none" => answer[f][k] = "none"

LEMMA ExecutedAnswered ==
    ASSUME AnswersInv, NEW f \in File, NEW seen, NEW fallback
    PROVE  Answered(f, Executed(f, seen, fallback))
<1>1. PICK answers : answers = Executed(f, seen, fallback)
  OBVIOUS
<1>2. /\ DOMAIN answers = DOMAIN Refs(f)
      /\ \A k \in DOMAIN Refs(f) : answers[k] = "none" => answer[f][k] = "none"
  BY <1>1, ExecutedAnswers DEF AnswersInv
<1>3. QED
  BY <1>1, <1>2 DEF Answered

\* A step that only replaces the answers of one file keeps what holds of them.
LEMMA OneAnswered ==
    ASSUME AnswersInv, version' = version, NEW f \in File, NEW answers, Answered(f, answers),
           answer' = [answer EXCEPT ![f] = answers],
           published' \subseteq published \cup {f},
           f \in published' \ published =>
               \A k \in DOMAIN answers : answers[k] = "none" => Refs(f)[k] = Elsewhere
    PROVE  /\ DOMAIN answer' = File /\ \A g \in File : DOMAIN answer'[g] = DOMAIN Refs(g)'
           /\ EvacuatedWhole'
<1>1. DOMAIN answer = File /\ \A g \in File : DOMAIN answer[g] = DOMAIN Refs(g)
  BY DEF AnswersInv, ScheduleTypes
<1>2. /\ DOMAIN answer' = File
      /\ answer'[f] = answers /\ \A g \in File \ {f} : answer'[g] = answer[g]
  BY <1>1
<1>3. \A g : Refs(g)' = Refs(g)
  BY DEF Refs
<1>5. \A g \in File : DOMAIN answer'[g] = DOMAIN Refs(g)'
  BY <1>1, <1>2, <1>3 DEF Answered
<1>7. EvacuatedWhole'
  <2> SUFFICES ASSUME NEW g \in published', NEW k \in DOMAIN answer'[g], answer'[g][k] = "none"
               PROVE  Refs(g)[k] = Elsewhere
    BY <1>3 DEF EvacuatedWhole
  <2>1. published \subseteq File
    BY DEF AnswersInv, ScheduleTypes
  <2>2. CASE g # f
    <3>1. g \in published /\ answer'[g] = answer[g]
      BY <1>2, <2>1, <2>2
    <3>2. QED
      BY <3>1 DEF AnswersInv, EvacuatedWhole
  <2>3. CASE g = f /\ f \in published
    <3>1. k \in DOMAIN answer[f] /\ answer[f][k] = "none"
      BY <1>1, <1>2, <2>3 DEF Answered
    <3>2. QED
      BY <2>3, <3>1 DEF AnswersInv, EvacuatedWhole
  <2>4. CASE g = f /\ f \notin published
    BY <1>2, <2>4
  <2>5. QED
    BY <2>2, <2>3, <2>4
<1>8. QED
  BY <1>2, <1>5, <1>7

\* Executing a ChangeSet in the scheduler.
LEMMA ExecuteAnswers ==
    ASSUME AnswersInv, stage # "start", stage' # "start",
           version' = version, changed' = changed, batch' \subseteq File,
           UNCHANGED <<remaining, wave>>,
           NEW f \in File, NEW defer, NEW due \in SUBSET File, Execute(f, defer, due)
    PROVE  AnswersInv'
<1>1. PICK seen \in AtHand(f) :
          /\ answer' = [answer EXCEPT ![f] = Executed(f, seen, Waiting(f))]
          /\ stored' = stored \cup {f}
          /\ \/ Publish(f, Executed(f, seen, Waiting(f)), due)
             \/ Park(f, Executed(f, seen, Waiting(f)), defer, due)
  BY DEF Execute
<1>2. PICK answers : answers = Executed(f, seen, Waiting(f))
  OBVIOUS
<1>3. Answered(f, answers)
  BY <1>2, ExecutedAnswered
<1>4. ScheduleTypes
  BY DEF AnswersInv
<1>5. /\ published' \subseteq published \cup {f} /\ completed' \subseteq completed \cup {f}
      /\ waiters' \in [File -> SUBSET File] /\ pending' \in [File -> SUBSET File]
      /\ ready' \subseteq File /\ deferred' \subseteq File
      /\ f \in published' \ published => Whole(answers)
  <2>1. CASE Publish(f, answers, due)
    <3>1. Wake({f}, due) /\ completed' = completed \cup {f} /\ published' = published \cup {f}
          /\ Whole(answers) /\ deferred' = deferred
      BY <2>1 DEF Publish, Complete
    <3>2. deferred' \subseteq File
      BY <1>4, <3>1 DEF ScheduleTypes
    <3>3. QED
      BY <1>4, <3>1, <3>2, WakeTypes
  <2>2. CASE Park(f, answers, defer, due)
    <3>1. /\ waiters' \in [File -> SUBSET File] /\ ready' = due
          /\ deferred' \subseteq deferred \cup {f}
          /\ UNCHANGED <<published, completed, pending>>
      BY <1>2, <1>4, <2>2, ParkTypes
    <3>2. QED
      BY <1>4, <3>1 DEF ScheduleTypes
  <2>3. QED
    BY <1>1, <1>2, <2>1, <2>2
<1>6. /\ DOMAIN answer' = File /\ \A g \in File : DOMAIN answer'[g] = DOMAIN Refs(g)'
      /\ EvacuatedWhole'
  <2>1. answer' = [answer EXCEPT ![f] = answers]
    BY <1>1, <1>2
  <2>2. f \in published' \ published =>
            \A k \in DOMAIN answers : answers[k] = "none" => Refs(f)[k] = Elsewhere
    BY <1>5 DEF Whole
  <2>3. published' \subseteq published \cup {f}
    BY <1>5
  <2>4. QED
    BY <1>3, <2>1, <2>2, <2>3, OneAnswered
<1>7. ScheduleTypes'
  BY <1>1, <1>4, <1>5, <1>6 DEF ScheduleTypes
<1>8. UpdateKnown'
  BY DEF AnswersInv, UpdateKnown, Update
<1>9. QED
  BY <1>6, <1>7, <1>8 DEF AnswersInv

-----------------------------------------------------------------------------
(* Which answers a ChangeSet gets, and what is evacuated                   *)

LEMMA AnswersInit == Init => AnswersInv
<1> SUFFICES ASSUME Init PROVE AnswersInv
  OBVIOUS
<1>1. version \in Versions /\ version.headers \cup version.sources \subseteq File
  BY SchedulerAssumptions DEF Init
<1>2. /\ DOMAIN answer = File
      /\ \A f \in File : /\ DOMAIN answer[f] = DOMAIN Refs(f)
                         /\ \A k \in DOMAIN answer[f] : answer[f][k] = "none"
  BY DEF Init, Refs
<1>3. ScheduleTypes
  BY <1>1, <1>2 DEF Init, ScheduleTypes
<1>4. UpdateKnown
  BY DEF Init, UpdateKnown
<1>5. EvacuatedWhole
  BY DEF Init, EvacuatedWhole
<1>6. QED
  BY <1>3, <1>4, <1>5 DEF AnswersInv

\* A step that answers nothing and evacuates nothing.
LEMMA SameAnswers ==
    ASSUME AnswersInv, UNCHANGED <<version, answer, published>>, changed' = changed,
           stage # "start", stage' # "start",
           stored' \subseteq File, completed' \subseteq File, ready' \subseteq File, deferred' \subseteq File,
           batch' \subseteq File, remaining' \subseteq File, wave' \subseteq File,
           waiters' \in [File -> SUBSET File], pending' \in [File -> SUBSET File]
    PROVE  AnswersInv'
<1>1. ScheduleTypes'
  BY DEF AnswersInv, ScheduleTypes, Refs
<1>2. UpdateKnown'
  BY DEF AnswersInv, UpdateKnown, Update
<1>3. EvacuatedWhole'
  BY DEF AnswersInv, EvacuatedWhole, Refs, Update
<1>4. QED
  BY <1>1, <1>2, <1>3 DEF AnswersInv

\* The parent is in a loop only after the start.
LEMMA Started ==
    ASSUME AnswersInv
    PROVE  /\ agenda # << >> => stage # "start"
           /\ \A loop : Doing(loop) => stage # "start"
BY DEF AnswersInv, UpdateKnown, Doing

LEMMA PropagateTreeAnswers ==
    ASSUME AnswersInv, PropagateTree
    PROVE  AnswersInv'
<1>1. version.missing \subseteq File
  BY SchedulerAssumptions DEF AnswersInv, ScheduleTypes
<1>2. ScheduleTypes'
  BY <1>1 DEF AnswersInv, ScheduleTypes, PropagateTree, execution, parking, waves, Refs
<1>3. UpdateKnown'
  BY DEF AnswersInv, UpdateKnown, PropagateTree, Update
<1>4. EvacuatedWhole'
  BY DEF AnswersInv, EvacuatedWhole, PropagateTree, execution, Refs, Update
<1>5. QED
  BY <1>2, <1>3, <1>4 DEF AnswersInv

\* Steps that only move the parent on.
LEMMA MovesOnAnswers ==
    ASSUME AnswersInv,
           \/ ParseMissing \/ ResolveHeaders \/ StartSources
           \/ IngestDone \/ DrainDone \/ RetryDone \/ WavesDone
    PROVE  AnswersInv'
<1>1. stage # "start"
  BY Started DEF ParseMissing, ResolveHeaders, StartSources, IngestDone, DrainDone, RetryDone, WavesDone
<1>2. stage' # "start"
  BY <1>1 DEF ParseMissing, ResolveHeaders, StartSources, IngestDone, DrainDone, RetryDone, WavesDone
<1>3. UNCHANGED <<version, changed, execution, parking, batch, waves>>
  BY DEF ParseMissing, ResolveHeaders, StartSources, IngestDone, DrainDone, RetryDone, WavesDone
<1>4. QED
  BY <1>1, <1>2, <1>3, SameAnswers DEF execution, parking, waves, AnswersInv, ScheduleTypes

LEMMA TakeDeferredAnswers ==
    ASSUME AnswersInv, TakeDeferred
    PROVE  AnswersInv'
<1>1. stage # "start" /\ stage' # "start"
  BY Started DEF TakeDeferred
<1>2. /\ batch' = deferred /\ deferred' = {}
      /\ UNCHANGED <<version, changed, execution, completed, waiters, pending, ready, waves>>
  BY DEF TakeDeferred
<1>3. QED
  BY <1>1, <1>2, SameAnswers DEF execution, waves, AnswersInv, ScheduleTypes

LEMMA WaveStepsAnswers ==
    ASSUME AnswersInv, SelectRemaining \/ NextWave
    PROVE  AnswersInv'
<1>1. stage # "start" /\ stage' # "start"
  BY Started DEF SelectRemaining, NextWave, Choosing
<1>2. UNCHANGED <<version, changed, execution, parking, batch>>
  BY DEF SelectRemaining, NextWave
<1>3. remaining' \subseteq File /\ wave' \subseteq File
  BY DEF SelectRemaining, NextWave, Unblocked, AnswersInv, ScheduleTypes
<1>4. QED
  BY <1>1, <1>2, <1>3, SameAnswers DEF execution, parking, AnswersInv, ScheduleTypes

LEMMA DeadlineAnswers ==
    ASSUME AnswersInv, UNCHANGED <<version, stage, agenda, changed, execution, parking, batch, epochs, waves>>
    PROVE  AnswersInv'
BY DEF AnswersInv, ScheduleTypes, UpdateKnown, EvacuatedWhole, Update, Refs,
       execution, parking, waves

LEMMA WakingAnswers ==
    ASSUME AnswersInv, NextEpoch \/ Finalize
    PROVE  AnswersInv'
<1>1. stage # "start" /\ stage' # "start"
  BY DEF NextEpoch, Finalize
<1>2. PICK D : D = { d \in completed : waiters[d] # {} }
  OBVIOUS
<1>3. Wake(D, ready) /\ D \subseteq File /\ ready \subseteq File
  BY <1>2 DEF NextEpoch, Finalize, WakeCompleted, AnswersInv, ScheduleTypes
<1>4. waiters' \in [File -> SUBSET File] /\ pending' \in [File -> SUBSET File] /\ ready' \subseteq File
  BY <1>3, WakeTypes DEF AnswersInv
<1>5. UNCHANGED <<version, changed, execution, completed, deferred, batch, waves>>
  BY DEF NextEpoch, Finalize
<1>6. QED
  BY <1>1, <1>4, <1>5, SameAnswers DEF execution, waves, AnswersInv, ScheduleTypes

LEMMA ClosingAnswers ==
    ASSUME AnswersInv, CloseHeaders \/ CloseUpdate
    PROVE  AnswersInv'
<1>1. stage # "start" /\ stage' # "start"
  BY DEF CloseHeaders, CloseUpdate
<1>2. waiters \in [File -> SUBSET File] /\ completed \cup stored \subseteq File /\ ready \subseteq File
  BY DEF AnswersInv, ScheduleTypes
<1>3. pending' \in [File -> SUBSET File] /\ waiters' \in [File -> SUBSET File]
      /\ completed' \subseteq File
  BY <1>2 DEF CloseHeaders, CloseUpdate
<1>4. ready' \subseteq File
  <2>1. UNION { waiters[d] : d \in completed \cup stored } \subseteq File
    BY <1>2
  <2>2. QED
    BY <1>2, <2>1 DEF CloseHeaders, CloseUpdate
<1>5. UNCHANGED <<version, changed, execution, deferred, batch, waves>>
  BY DEF CloseHeaders, CloseUpdate
<1>6. QED
  BY <1>1, <1>3, <1>4, <1>5, SameAnswers DEF execution, waves, AnswersInv, ScheduleTypes

\* A batch brings files of the update; the plain ones refer to nothing.
LEMMA ArriveAnswers ==
    ASSUME AnswersInv, Arrive
    PROVE  AnswersInv'
<1>1. PICK files \in SUBSET (Outstanding \ version.undelivered) :
          /\ files # {} /\ batch' = files
          /\ published' = published \cup (files \cap Plain)
          /\ UNCHANGED <<version, stage, changed, answer, stored, parking, waves>>
  BY DEF Arrive
<1>2. ScheduleTypes /\ version \in Versions
  BY DEF AnswersInv, ScheduleTypes
<1>3. stage # "start" /\ Outstanding \subseteq File
  BY <1>1, <1>2, SchedulerAssumptions DEF Outstanding, FilesOf
<1>4. published' \subseteq File /\ batch' \subseteq File
  BY <1>1, <1>2, <1>3 DEF ScheduleTypes
<1>5. ScheduleTypes'
  BY <1>1, <1>2, <1>4 DEF ScheduleTypes, parking, waves, Refs
<1>6. UpdateKnown'
  BY <1>1, <1>3 DEF AnswersInv, UpdateKnown, Update
<1>7. EvacuatedWhole'
  <2>1. \A f \in File : f \in Plain => DOMAIN answer[f] = {}
    BY <1>2, References DEF ScheduleTypes
  <2>2. files \subseteq File
    BY <1>3
  <2>3. QED
    BY <1>1, <2>1, <2>2 DEF AnswersInv, EvacuatedWhole, Refs
<1>8. QED
  BY <1>5, <1>6, <1>7 DEF AnswersInv

LEMMA IngestAnswers ==
    ASSUME AnswersInv, Ingest
    PROVE  AnswersInv'
<1>1. PICK f \in batch :
          /\ Doing("ingest") /\ batch' = batch \ {f}
          /\ IngestPlain(f) \/ Hold(f) \/ RunOnArrival(f)
          /\ UNCHANGED <<version, stage, agenda, changed, epochs, waves, expired>>
  BY DEF Ingest
<1>2. stage # "start" /\ stage' # "start"
  BY <1>1, Started
<1>3. ScheduleTypes /\ f \in File /\ batch' \subseteq File
  BY <1>1 DEF AnswersInv, ScheduleTypes
<1>4. CASE IngestPlain(f)
  <2>1. Wake({f}, ready) /\ completed' = completed \cup {f} /\ stored' = stored \cup {f}
        /\ UNCHANGED <<answer, published, deferred>>
    BY <1>4 DEF IngestPlain, Complete
  <2>2. {f} \subseteq File /\ ready \subseteq File
    BY <1>3 DEF ScheduleTypes
  <2>3. waiters' \in [File -> SUBSET File] /\ pending' \in [File -> SUBSET File] /\ ready' \subseteq File
    BY <1>3, <2>1, <2>2, WakeTypes
  <2>4. QED
    BY <1>1, <1>2, <1>3, <2>1, <2>3, SameAnswers DEF ScheduleTypes, waves
<1>5. CASE Hold(f)
  <2>1. PICK blocking : /\ blocking \subseteq changed \cup stored
                        /\ pending' = [pending EXCEPT ![f] = blocking]
                        /\ waiters' = [d \in File |-> IF d \in blocking THEN waiters[d] \cup {f} ELSE waiters[d]]
    BY <1>5 DEF Hold, InFlight
  <2>2. waiters' \in [File -> SUBSET File] /\ pending' \in [File -> SUBSET File]
    BY <1>3, <2>1 DEF ScheduleTypes
  <2>3. stored' = stored \cup {f} /\ UNCHANGED <<answer, published, completed, ready, deferred>>
    BY <1>5 DEF Hold
  <2>4. QED
    BY <1>1, <1>2, <1>3, <2>2, <2>3, SameAnswers DEF ScheduleTypes, waves
<1>6. CASE RunOnArrival(f)
  <2>1. PICK defer : Execute(f, defer, ready)
    BY <1>6 DEF RunOnArrival
  <2>2. QED
    BY <1>1, <1>2, <1>3, <2>1, ExecuteAnswers DEF ScheduleTypes, waves
<1>7. QED
  BY <1>1, <1>4, <1>5, <1>6

LEMMA DrainAnswers ==
    ASSUME AnswersInv, Drain
    PROVE  AnswersInv'
<1>1. PICK f \in ready :
          /\ Doing("drain")
          /\ IF f \in completed \/ f \notin stored
             THEN ready' = ready \ {f} /\ UNCHANGED <<execution, completed, waiters, pending, deferred>>
             ELSE Execute(f, TRUE, ready \ {f})
          /\ UNCHANGED <<version, stage, agenda, changed, batch, epochs, waves, expired>>
  BY DEF Drain
<1>2. stage # "start" /\ stage' # "start"
  BY <1>1, Started
<1>3. ScheduleTypes /\ f \in File /\ ready \ {f} \subseteq File
  BY <1>1 DEF AnswersInv, ScheduleTypes
<1>4. CASE f \in completed \/ f \notin stored
  BY <1>1, <1>2, <1>3, <1>4, SameAnswers DEF ScheduleTypes, waves, execution
<1>5. CASE ~(f \in completed \/ f \notin stored)
  <2>1. PICK due : due = ready \ {f}
    OBVIOUS
  <2>2. Execute(f, TRUE, due) /\ due \in SUBSET File
    BY <1>1, <1>3, <1>5, <2>1
  <2>3. QED
    BY <1>1, <1>2, <1>3, <2>2, ExecuteAnswers DEF ScheduleTypes, waves
<1>6. QED
  BY <1>4, <1>5

LEMMA RetryAnswers ==
    ASSUME AnswersInv, Retry
    PROVE  AnswersInv'
<1>1. PICK f \in batch :
          /\ Doing("retry") /\ batch' = batch \ {f}
          /\ IF f \in completed THEN UNCHANGED <<execution, parking>> ELSE Execute(f, TRUE, ready)
          /\ UNCHANGED <<version, stage, agenda, changed, epochs, waves, expired>>
  BY DEF Retry
<1>2. stage # "start" /\ stage' # "start"
  BY <1>1, Started
<1>3. ScheduleTypes /\ f \in File /\ batch' \subseteq File /\ ready \in SUBSET File
  BY <1>1 DEF AnswersInv, ScheduleTypes
<1>4. CASE f \in completed
  BY <1>1, <1>2, <1>3, <1>4, SameAnswers DEF ScheduleTypes, waves, execution, parking
<1>5. CASE f \notin completed
  BY <1>1, <1>2, <1>3, <1>5, ExecuteAnswers DEF ScheduleTypes, waves
<1>6. QED
  BY <1>4, <1>5

\* The wave pass leaves no operation unanswered but those that refer elsewhere.
LEMMA EvacuateAnswers ==
    ASSUME AnswersInv, stage # "start", NEW f \in File, NEW answers, Answered(f, answers),
           \A k \in DOMAIN answers : answers[k] = "none" => Refs(f)[k] = Elsewhere,
           Evacuate(f, answers), wave' \subseteq File
    PROVE  AnswersInv'
<1>1. /\ DOMAIN answer' = File /\ \A g \in File : DOMAIN answer'[g] = DOMAIN Refs(g)'
      /\ EvacuatedWhole'
  BY OneAnswered DEF Evacuate
<1>2. ScheduleTypes'
  BY <1>1 DEF Evacuate, AnswersInv, ScheduleTypes
<1>3. UpdateKnown'
  BY DEF Evacuate, AnswersInv, UpdateKnown, Update
<1>4. QED
  BY <1>1, <1>2, <1>3 DEF AnswersInv

\* With force_stubs, only a reference elsewhere stays unanswered.
LEMMA ForcedAnswers ==
    ASSUME AnswersInv, NEW f \in File, NEW seen, NEW fallback \in ByName(f),
           NEW answers, answers = Executed(f, seen, fallback)
    PROVE  /\ Answered(f, answers)
           /\ \A k \in DOMAIN answers : answers[k] = "none" => Refs(f)[k] = Elsewhere
<1>1. Answered(f, answers)
  BY ExecutedAnswered
<1>2. /\ DOMAIN answers = DOMAIN Refs(f)
      /\ \A k \in DOMAIN Refs(f) : answers[k] = "none" => Refs(f)[k] = Elsewhere
  <2>1. DOMAIN answer[f] = DOMAIN Refs(f)
    BY DEF AnswersInv, ScheduleTypes
  <2>2. DOMAIN answers = DOMAIN Refs(f)
    BY <2>1 DEF Executed
  <2>3. ASSUME NEW k \in DOMAIN Refs(f), answers[k] = "none" PROVE Refs(f)[k] = Elsewhere
    <3>1. answers[k] = IF answer[f][k] = "none" THEN Resolve(Refs(f)[k], seen, fallback[k]) ELSE answer[f][k]
      BY <2>1 DEF Executed
    <3>2. fallback[k] # "none"
      BY <2>1 DEF ByName
    <3>3. QED
      BY <2>3, <3>1, <3>2 DEF Resolve
  <2>4. QED
    BY <2>2, <2>3
<1>3. QED
  BY <1>1, <1>2

LEMMA BreakCycleAnswers ==
    ASSUME AnswersInv, BreakCycle
    PROVE  AnswersInv'
<1>1. PICK f \in remaining : \E seen \in AtHand(f), fallback \in ByName(f) :
          Choosing /\ Evacuate(f, Executed(f, seen, fallback)) /\ UNCHANGED wave
  BY DEF BreakCycle
<1>2. f \in File /\ wave' \subseteq File /\ stage # "start"
  BY <1>1, Started DEF AnswersInv, ScheduleTypes, Choosing
<1>3. PICK answers : \E seen \in AtHand(f), fallback \in ByName(f) :
          answers = Executed(f, seen, fallback) /\ Evacuate(f, answers)
  BY <1>1
<1>4. Answered(f, answers) /\ \A k \in DOMAIN answers : answers[k] = "none" => Refs(f)[k] = Elsewhere
  BY <1>2, <1>3, ForcedAnswers
<1>5. QED
  BY <1>2, <1>3, <1>4, EvacuateAnswers

LEMMA RunWaveAnswers ==
    ASSUME AnswersInv, RunWave
    PROVE  AnswersInv'
<1>1. PICK f \in wave : \E seen \in AtHand(f), fallback \in ByName(f) :
          /\ Doing("waves") /\ wave' = wave \ {f}
          /\ LET plainly == Executed(f, seen, Waiting(f))
             IN  Evacuate(f, IF Whole(plainly) THEN plainly ELSE Executed(f, seen, fallback))
  BY DEF RunWave
<1>2. f \in File /\ wave' \subseteq File /\ stage # "start"
  BY <1>1, Started DEF AnswersInv, ScheduleTypes
<1>3. PICK seen \in AtHand(f), fallback \in ByName(f) :
          Evacuate(f, IF Whole(Executed(f, seen, Waiting(f))) THEN Executed(f, seen, Waiting(f))
                                                         ELSE Executed(f, seen, fallback))
  BY <1>1
<1>4. PICK answers :
          /\ Evacuate(f, answers)
          /\ \/ answers = Executed(f, seen, Waiting(f)) /\ Whole(answers)
             \/ answers = Executed(f, seen, fallback)
  BY <1>3
<1>5. Answered(f, answers) /\ \A k \in DOMAIN answers : answers[k] = "none" => Refs(f)[k] = Elsewhere
  <2>1. CASE answers = Executed(f, seen, fallback)
    BY <1>2, <2>1, ForcedAnswers
  <2>2. CASE answers = Executed(f, seen, Waiting(f)) /\ Whole(answers)
    BY <1>2, <2>2, ExecutedAnswered DEF Whole
  <2>3. QED
    BY <1>4, <2>1, <2>2
<1>6. QED
  BY <1>2, <1>4, <1>5, EvacuateAnswers

LEMMA AnswersStep == AnswersInv /\ [Next]_vars => AnswersInv'
<1> SUFFICES ASSUME AnswersInv, [Next]_vars PROVE AnswersInv'
  OBVIOUS
<1>1. CASE DeadlinePasses \/ UNCHANGED vars
  BY <1>1, DeadlineAnswers DEF DeadlinePasses, vars
<1>2. CASE PropagateTree
  BY <1>2, PropagateTreeAnswers
<1>3. CASE \/ ParseMissing \/ ResolveHeaders \/ StartSources
           \/ IngestDone \/ DrainDone \/ RetryDone \/ WavesDone
  BY <1>3, MovesOnAnswers
<1>4. CASE NextEpoch \/ Finalize
  BY <1>4, WakingAnswers
<1>5. CASE Arrive
  BY <1>5, ArriveAnswers
<1>6. CASE Ingest
  BY <1>6, IngestAnswers
<1>7. CASE Drain
  BY <1>7, DrainAnswers
<1>8. CASE TakeDeferred
  BY <1>8, TakeDeferredAnswers
<1>9. CASE Retry
  BY <1>9, RetryAnswers
<1>10. CASE SelectRemaining \/ NextWave
  BY <1>10, WaveStepsAnswers
<1>11. CASE BreakCycle
  BY <1>11, BreakCycleAnswers
<1>12. CASE RunWave
  BY <1>12, RunWaveAnswers
<1>13. CASE CloseHeaders \/ CloseUpdate
  BY <1>13, ClosingAnswers
<1>14. QED
  BY <1>1, <1>2, <1>3, <1>4, <1>5, <1>6, <1>7, <1>8, <1>9, <1>10, <1>11, <1>12, <1>13 DEF Next, Step

(* A ChangeSet is evacuated only with all its operations resolved, but for *)
(* those that refer to a path without ChangeSet.                           *)
THEOREM EvacuatedComplete == Spec => []EvacuatedWhole
<1>1. AnswersInv => EvacuatedWhole
  BY DEF AnswersInv
<1>2. QED
  BY <1>1, AnswersInit, AnswersStep, PTL DEF Spec

-----------------------------------------------------------------------------
(* No ChangeSet is forgotten                                               *)

\* What each position does next, and what is left of it then.
LEMMA Positions ==
    /\ Head(Ingesting) = "ingest" /\ Tail(Ingesting) = Draining /\ Ingesting # << >>
    /\ Head(Draining) = "drain" /\ Tail(Draining) = << >> /\ Draining # << >>
    /\ Head(Redo) = "drain" /\ Tail(Redo) = Taking /\ Redo # << >>
    /\ Head(Taking) = "take" /\ Tail(Taking) = Retrying /\ Taking # << >>
    /\ Head(Retrying) = "retry" /\ Tail(Retrying) = Draining /\ Retrying # << >>
    /\ Head(Selecting) = "select" /\ Tail(Selecting) = Waving /\ Selecting # << >>
    /\ Head(Waving) = "waves" /\ Tail(Waving) = Closing /\ Waving # << >>
    /\ Head(Closing) = "close" /\ Tail(Closing) = Draining /\ Closing # << >>
<1>1. Head(Ingesting) = "ingest" /\ Tail(Ingesting) = Draining /\ Ingesting # << >>
  BY DEF Ingesting, Draining
<1>2. Head(Draining) = "drain" /\ Tail(Draining) = << >> /\ Draining # << >>
  BY DEF Draining
<1>3. Head(Redo) = "drain" /\ Tail(Redo) = Taking /\ Redo # << >>
  BY DEF Redo, Taking
<1>4. Head(Taking) = "take" /\ Tail(Taking) = Retrying /\ Taking # << >>
  BY DEF Taking, Retrying
<1>5. Head(Retrying) = "retry" /\ Tail(Retrying) = Draining /\ Retrying # << >>
  BY DEF Retrying, Draining
<1>6. Head(Selecting) = "select" /\ Tail(Selecting) = Waving /\ Selecting # << >>
  BY DEF Selecting, Waving
<1>7. Head(Waving) = "waves" /\ Tail(Waving) = Closing /\ Waving # << >>
  BY DEF Waving, Closing
<1>8. Head(Closing) = "close" /\ Tail(Closing) = Draining /\ Closing # << >>
  BY DEF Closing, Draining
<1>9. QED
  BY <1>1, <1>2, <1>3, <1>4, <1>5, <1>6, <1>7, <1>8

\* Which position a loop is at, stage by stage.
LEMMA AtLoop ==
    ASSUME Loops
    PROVE  /\ Gathering /\ Doing("ingest") => agenda = Ingesting
           /\ Gathering /\ Doing("drain") => agenda = Draining \/ (stage = "sources" /\ agenda = Redo)
           /\ Gathering /\ Doing("take") => stage = "sources" /\ agenda = Taking
           /\ Gathering /\ Doing("retry") => stage = "sources" /\ agenda = Retrying
           /\ Gathering => ~Doing("select") /\ ~Doing("waves") /\ ~Doing("close")
           /\ stage = "resolve" /\ Doing("select") => agenda = Selecting
           /\ stage = "resolve" /\ Doing("waves") => agenda = Waving
           /\ stage = "resolve" /\ Doing("close") => agenda = Closing
           /\ stage = "resolve" /\ Doing("drain") => agenda = Draining
           /\ stage = "resolve" => ~Doing("ingest") /\ ~Doing("take") /\ ~Doing("retry")
           /\ stage = "start" => \A loop : ~Doing(loop)
BY Positions DEF Loops, Doing, Gathering

\* Completing files wakes what waited only on them; the rest goes on waiting.
LEMMA WakeKeeps ==
    ASSUME ScheduleTypes, Linked, UNCHANGED <<version, stage, changed>>,
           stored \subseteq stored', deferred \subseteq deferred',
           NEW D \in SUBSET File, completed' = completed \cup D,
           NEW due \in SUBSET File, Wake(D, due),
           NEW rest, NEW S \in SUBSET File, InCustody(S, due \cup rest)
    PROVE  Linked' /\ InCustody(S, ready \cup rest)'
<1> DEFINE left == [w \in File |-> pending[w] \ { d \in D : w \in waiters[d] }]
<1>1. /\ \A d \in File : waiters'[d] = IF d \in D THEN {} ELSE waiters[d]
      /\ pending' = left
      /\ ready' = due \cup { w \in UNION { waiters[d] : d \in D } : left[w] = {} }
  BY DEF Wake
<1>2. /\ \A d \in File : waiters[d] \subseteq File
      /\ \A g \in File : pending[g] \subseteq File
      /\ \A g \in File : left[g] = pending[g] \ { d \in D : g \in waiters[d] }
  BY DEF ScheduleTypes
<1> HIDE DEF left
<1>3. \A d \in File : InFlight(d) /\ d \notin D => InFlight(d)'
  BY DEF InFlight
<1>4. \A g \in File : \A d \in left[g] : d \in File /\ g \in waiters'[d] /\ InFlight(d)'
  <2> TAKE g \in File
  <2> TAKE d \in left[g]
  <2>1. d \in pending[g] /\ d \in File /\ ~(d \in D /\ g \in waiters[d])
    BY <1>2
  <2>2. g \in waiters[d] /\ InFlight(d)
    BY <2>1 DEF Linked
  <2>3. d \notin D
    BY <2>1, <2>2
  <2>4. QED
    BY <1>1, <1>3, <2>1, <2>2, <2>3
<1>5. Linked'
  BY <1>1, <1>4 DEF Linked
<1>6. ASSUME NEW g \in S
      PROVE  g \in ready' \cup rest \/ Kept(g)'
  <2>1. CASE g \in due \cup rest
    BY <1>1, <2>1
  <2>2. CASE LeftOver(g)
    BY <2>2 DEF Kept, LeftOver, Deps, Refs, HeaderStage
  <2>3. CASE Waits(g)
    <3>1. PICK d \in File : g \in waiters[d] /\ InFlight(d)
      BY <2>3 DEF Waits
    <3>2. CASE d \notin D
      BY <1>1, <1>3, <3>1, <3>2 DEF Kept, Waits
    <3>3. CASE d \in D /\ left[g] = {}
      BY <1>1, <3>1, <3>3
    <3>4. CASE left[g] # {}
      <4>1. PICK e \in left[g] : TRUE
        BY <3>4
      <4>2. e \in File /\ g \in waiters'[e] /\ InFlight(e)'
        BY <1>4, <4>1
      <4>3. QED
        BY <4>2 DEF Kept, Waits
    <3>5. QED
      BY <3>2, <3>3, <3>4
  <2>4. QED
    BY <2>1, <2>2, <2>3 DEF InCustody, Kept
<1>7. QED
  BY <1>5, <1>6 DEF InCustody

\* A step that takes nobody out of where it waits keeps what is kept.
LEMMA StaysKept ==
    ASSUME UNCHANGED <<version, stage, changed>>, completed' = completed,
           stored \subseteq stored', deferred \subseteq deferred',
           \A d \in File : waiters[d] \subseteq waiters'[d],
           NEW g, Kept(g)
    PROVE  Kept(g)'
<1>1. \A d : InFlight(d) => InFlight(d)'
  BY DEF InFlight
<1>2. LeftOver(g) => LeftOver(g)'
  BY DEF LeftOver, Deps, Refs, HeaderStage
<1>3. Waits(g) => Waits(g)'
  BY <1>1 DEF Waits
<1>4. QED
  BY <1>2, <1>3 DEF Kept

\* A parked ChangeSet waits on a file that is still to complete, or refers elsewhere.
LEMMA ParkKeeps ==
    ASSUME ScheduleTypes, Linked, CompletedArePublished, UNCHANGED <<version, stage, changed>>,
           NEW f \in File, stored' = stored \cup {f},
           NEW defer, defer \/ HeaderStage,
           NEW seen, NEW answers, answers = Executed(f, seen, Waiting(f)),
           NEW due \in SUBSET File, Park(f, answers, defer, due),
           NEW rest, NEW S, InCustody(S, due \cup rest)
    PROVE  Linked' /\ CompletedArePublished' /\ InCustody(S \cup {f}, ready \cup rest)'
<1>1. /\ \A d \in File : waiters[d] \subseteq waiters'[d]
      /\ UNCHANGED <<published, completed, pending>> /\ ready' = due
      /\ deferred \subseteq deferred'
  BY ParkTypes
<1>2. \A d : InFlight(d) => InFlight(d)'
  BY <1>1 DEF InFlight
<1>3. Linked'
  BY <1>1, <1>2 DEF Linked, ScheduleTypes
<1>4. CompletedArePublished'
  BY <1>1 DEF CompletedArePublished
<1>5. \A g \in S : g \in ready' \cup rest \/ Kept(g)'
  BY <1>1, StaysKept DEF InCustody
<1>6. PICK d : d = BlockedOn(f, answers)
  OBVIOUS
<1>7. \/ d = Elsewhere /\ Elsewhere \in Deps(f)
      \/ d \in File /\ d # f /\ d \in changed \cup stored /\ d \notin published
  BY <1>6, Blocking DEF Park
<1>8. Kept(f)'
  <2>1. CASE d = Elsewhere
    <3>1. deferred' = IF defer THEN deferred \cup {f} ELSE deferred
      BY <1>6, <2>1 DEF Park
    <3>2. Elsewhere \in Deps(f) /\ (f \in deferred' \/ HeaderStage)
      BY <1>7, <2>1, <3>1, SchedulerAssumptions
    <3>3. QED
      BY <3>2 DEF Kept, LeftOver, Deps, Refs, HeaderStage
  <2>2. CASE d # Elsewhere
    <3>1. d \in File /\ d # f /\ InFlight(d)
      BY <1>7, <2>2 DEF InFlight, CompletedArePublished
    <3>2. waiters' = [waiters EXCEPT ![d] = @ \cup {f}]
      BY <1>6, <2>2, <3>1 DEF Park
    <3>3. f \in waiters'[d] /\ InFlight(d)'
      BY <1>2, <3>1, <3>2 DEF ScheduleTypes
    <3>4. QED
      BY <3>1, <3>3 DEF Kept, Waits
  <2>3. QED
    BY <2>1, <2>2
<1>9. QED
  BY <1>3, <1>4, <1>5, <1>8 DEF InCustody

\* One execution keeps every ChangeSet in custody, the executed one included.
LEMMA ExecuteKeeps ==
    ASSUME ScheduleTypes, Linked, CompletedArePublished, UNCHANGED <<version, stage, changed>>,
           NEW f \in File, NEW defer, defer \/ HeaderStage,
           NEW due \in SUBSET File, Execute(f, defer, due),
           NEW rest, InCustody((stored \ completed) \ {f}, due \cup rest)
    PROVE  Linked' /\ CompletedArePublished' /\ InCustody(stored \ completed, ready \cup rest)'
<1>1. PICK seen \in AtHand(f) :
          /\ stored' = stored \cup {f}
          /\ \/ Publish(f, Executed(f, seen, Waiting(f)), due)
             \/ Park(f, Executed(f, seen, Waiting(f)), defer, due)
  BY DEF Execute
<1>2. PICK answers, S : answers = Executed(f, seen, Waiting(f)) /\ S = (stored \ completed) \ {f}
  OBVIOUS
<1>3. S \in SUBSET File /\ InCustody(S, due \cup rest)
  BY <1>2 DEF ScheduleTypes
<1>4. CASE Publish(f, answers, due)
  <2>1. /\ Wake({f}, due) /\ completed' = completed \cup {f} /\ published' = published \cup {f}
        /\ deferred' = deferred
    BY <1>4 DEF Publish, Complete
  <2>2. Linked' /\ InCustody(S, ready \cup rest)'
    BY <1>1, <1>3, <2>1, WakeKeeps
  <2>3. CompletedArePublished'
    BY <2>1 DEF CompletedArePublished
  <2>4. stored' \ completed' \subseteq S
    BY <1>1, <1>2, <2>1
  <2>5. QED
    BY <2>2, <2>3, <2>4 DEF InCustody
<1>5. CASE Park(f, answers, defer, due)
  <2>1. Linked' /\ CompletedArePublished' /\ InCustody(S \cup {f}, ready \cup rest)'
    BY <1>1, <1>2, <1>3, <1>5, ParkKeeps
  <2>2. stored' \ completed' \subseteq S \cup {f}
    BY <1>1, <1>2, <1>5 DEF Park
  <2>3. QED
    BY <2>1, <2>2 DEF InCustody
<1>6. QED
  BY <1>1, <1>2, <1>4, <1>5

\* At the end of an update nothing is in custody any more.
LEMMA Over ==
    ASSUME stage' \in {"finalize", "done"}
    PROVE  Custody'
BY DEF Custody, Loops, Gathering

LEMMA CustodyInit == Init => Custody
<1> SUFFICES ASSUME Init PROVE Custody
  OBVIOUS
<1>1. StartInv
  BY DEF Init, StartInv
<1>2. QED
  BY <1>1 DEF Init, Custody, Loops, Gathering

LEMMA PropagateTreeCustody ==
    ASSUME CustodyInv, PropagateTree
    PROVE  Custody'
<1>1. StartInv /\ agenda = << >>
  BY DEF CustodyInv, Custody, Loops, PropagateTree
<1>2. stage' \in {"headers", "sources"} /\ UNCHANGED <<agenda, execution, parking>>
  BY DEF PropagateTree
<1>3. Linked' /\ CompletedArePublished' /\ InCustody(stored \ completed, Due)'
  BY <1>1, <1>2 DEF StartInv, Linked, CompletedArePublished, InCustody, execution, parking
<1>4. agenda' = << >> /\ ready' = {} /\ agenda' # Ingesting
  BY <1>1, <1>2, Positions DEF StartInv, parking
<1>5. QED
  BY <1>2, <1>3, <1>4 DEF Custody, Loops, Gathering, GatheringInv

LEMMA ParseMissingCustody ==
    ASSUME CustodyInv, ParseMissing
    PROVE  Custody'
<1>1. agenda = << >> /\ stage = "headers" /\ stage' = "missing"
      /\ UNCHANGED <<version, agenda, changed, execution, parking, batch>>
  BY DEF ParseMissing, StageOver, Idle
<1>2. GatheringInv
  BY <1>1 DEF CustodyInv, Custody, Gathering
<1>3. Linked' /\ CompletedArePublished'
  BY <1>1, <1>2 DEF GatheringInv, Linked, CompletedArePublished, InFlight, execution, parking
<1>4. Due' = Due /\ \A g : Kept(g) => Kept(g)'
  BY <1>1 DEF Due, Kept, Waits, LeftOver, HeaderStage, InFlight, Deps, Refs, execution, parking
<1>5. InCustody(stored \ completed, Due)'
  BY <1>1, <1>2, <1>4 DEF GatheringInv, InCustody, execution, parking
<1>6. agenda' = << >> /\ ready' = {} /\ agenda' # Ingesting
  BY <1>1, <1>2, Positions DEF GatheringInv, parking
<1>7. QED
  BY <1>1, <1>3, <1>5, <1>6 DEF Custody, Loops, Gathering, GatheringInv

LEMMA ResolveHeadersCustody ==
    ASSUME CustodyInv, ResolveHeaders
    PROVE  Custody'
<1>1. stage \in {"headers", "missing"} /\ stage' = "resolve" /\ agenda' = Selecting
      /\ UNCHANGED <<execution, parking>>
  BY DEF ResolveHeaders, Selecting
<1>2. CompletedArePublished'
  BY <1>1 DEF CustodyInv, Custody, Gathering, GatheringInv, CompletedArePublished, execution, parking
<1>3. agenda' \notin {Waving, Closing, Draining, << >>}
  BY <1>1, Positions
<1>4. ResolvingInv'
  BY <1>2, <1>3 DEF ResolvingInv
<1>5. QED
  BY <1>1, <1>4 DEF Custody, Loops, Gathering

\* The sources start only if resolve_headers left nothing.
LEMMA StartSourcesCustody ==
    ASSUME CustodyInv, StartSources
    PROVE  Custody'
<1>1. agenda = << >> /\ stage = "resolve" /\ ~expired /\ stage' = "sources"
      /\ UNCHANGED <<version, agenda, changed, execution, parking, batch>>
  BY DEF StartSources, Idle
<1>2. ResolvingInv
  BY <1>1 DEF CustodyInv, Custody
<1>3. CompletedArePublished /\ stored \subseteq completed /\ ready = {}
      /\ \A f \in File : pending[f] = {}
  BY <1>1, <1>2 DEF ResolvingInv
<1>4. Linked' /\ CompletedArePublished' /\ InCustody(stored \ completed, Due)'
  BY <1>1, <1>3 DEF Linked, CompletedArePublished, InCustody, execution, parking
<1>5. agenda' = << >> /\ ready' = {} /\ agenda' # Ingesting
  BY <1>1, <1>3, Positions DEF parking
<1>6. QED
  BY <1>1, <1>4, <1>5 DEF Custody, Loops, Gathering, GatheringInv

\* _wake_completed at an epoch boundary.
LEMMA NextEpochCustody ==
    ASSUME CustodyInv, NextEpoch
    PROVE  Custody'
<1>1. /\ agenda = << >> /\ stage = "sources" /\ agenda' = Redo
      /\ UNCHANGED <<version, stage, changed, execution, completed, deferred, batch>>
      /\ WakeCompleted
  BY DEF NextEpoch, Idle
<1>2. GatheringInv /\ ScheduleTypes
  BY <1>1 DEF CustodyInv, Custody, Gathering, AnswersInv
<1>3. PICK D, S : D = { d \in completed : waiters[d] # {} } /\ S = stored \ completed
  OBVIOUS
<1>4. /\ D \in SUBSET File /\ Wake(D, ready) /\ completed' = completed \cup D
      /\ S \in SUBSET File /\ ready \in SUBSET File
  BY <1>1, <1>2, <1>3 DEF WakeCompleted, ScheduleTypes
<1>5. Due = ready \cup {} /\ Due' = ready' \cup {}
  BY <1>1, Positions DEF Due
<1>6. InCustody(S, ready \cup {}) /\ Linked
  BY <1>2, <1>3, <1>5 DEF GatheringInv
<1>7. Linked' /\ InCustody(S, ready \cup {})'
  BY <1>1, <1>2, <1>4, <1>6, WakeKeeps DEF execution
<1>8. CompletedArePublished'
  BY <1>1, <1>2 DEF GatheringInv, CompletedArePublished, execution
<1>9. stored' \ completed' = S
  BY <1>1, <1>3 DEF execution
<1>10. InCustody(stored \ completed, Due)'
  BY <1>5, <1>7, <1>9 DEF InCustody
<1>11. agenda' # << >> /\ agenda' # Ingesting
  BY <1>1, Positions
<1>12. QED
  BY <1>1, <1>7, <1>8, <1>10, <1>11 DEF Custody, Loops, Gathering, GatheringInv

LEMMA ArriveCustody ==
    ASSUME CustodyInv, Arrive
    PROVE  Custody'
<1>1. PICK files \in SUBSET (Outstanding \ version.undelivered) :
          /\ agenda = << >> /\ files # {}
          /\ batch' = files /\ published' = published \cup (files \cap Plain)
          /\ agenda' = Ingesting
          /\ UNCHANGED <<version, stage, changed, stored, parking>>
  BY DEF Arrive, Idle, Ingesting
<1>2. stage \in {"headers", "missing", "sources"}
  BY <1>1 DEF Outstanding, FilesOf
<1>3. GatheringInv
  BY <1>2 DEF CustodyInv, Custody, Gathering
<1>4. Linked'
  BY <1>1, <1>3 DEF GatheringInv, Linked, InFlight, parking
<1>5. CompletedArePublished' /\ batch' \cap Plain \subseteq published'
  BY <1>1, <1>3 DEF GatheringInv, CompletedArePublished, parking
<1>6. Due = ready /\ Due' = ready
  BY <1>1, Positions DEF Due, parking
<1>7. \A g : Kept(g)' <=> Kept(g)
  BY <1>1 DEF Kept, Waits, LeftOver, HeaderStage, InFlight, Deps, Refs, parking
<1>8. InCustody(stored \ completed, Due)'
  BY <1>1, <1>3, <1>6, <1>7 DEF GatheringInv, InCustody, parking
<1>9. agenda' # << >>
  BY <1>1, Positions
<1>10. QED
  BY <1>1, <1>2, <1>4, <1>5, <1>8, <1>9 DEF Custody, Loops, Gathering, GatheringInv

\* A plain file is complete when it comes to the ChangeSet it arrived with.
LEMMA IngestPlainKeeps ==
    ASSUME ScheduleTypes, GatheringInv, agenda = Ingesting, UNCHANGED <<version, stage, changed>>,
           NEW f \in batch, IngestPlain(f)
    PROVE  Linked' /\ CompletedArePublished' /\ InCustody(stored \ completed, ready \cup {})'
<1>1. /\ f \in Plain /\ stored' = stored \cup {f} /\ Wake({f}, ready)
      /\ completed' = completed \cup {f} /\ UNCHANGED <<published, deferred>>
  BY DEF IngestPlain, Complete
<1>2. PICK S : S = stored \ completed
  OBVIOUS
<1>3. Due = ready \cup {}
  BY Positions DEF Due
<1>4. /\ {f} \in SUBSET File /\ ready \in SUBSET File /\ S \in SUBSET File
      /\ Linked /\ InCustody(S, ready \cup {})
  BY <1>2, <1>3 DEF ScheduleTypes, GatheringInv
<1>5. Linked' /\ InCustody(S, ready \cup {})'
  BY <1>1, <1>4, WakeKeeps
<1>6. CompletedArePublished'
  BY <1>1 DEF GatheringInv, CompletedArePublished
<1>7. stored' \ completed' \subseteq S
  BY <1>1, <1>2
<1>8. QED
  BY <1>5, <1>6, <1>7 DEF InCustody

\* A held header waits on every file in flight that it refers to.
LEMMA HoldKeeps ==
    ASSUME ScheduleTypes, GatheringInv, agenda = Ingesting, UNCHANGED <<version, stage, changed>>,
           NEW f \in batch, Hold(f)
    PROVE  Linked' /\ CompletedArePublished' /\ InCustody(stored \ completed, ready \cup {})'
<1>1. f \in File /\ waiters \in [File -> SUBSET File] /\ pending \in [File -> SUBSET File]
      /\ changed \cup stored \subseteq File
  BY DEF ScheduleTypes
<1>2. PICK blocking : blocking = { d \in Deps(f) : InFlight(d) }
  OBVIOUS
<1>3. /\ blocking # {}
      /\ pending' = [pending EXCEPT ![f] = blocking]
      /\ waiters' = [d \in File |-> IF d \in blocking THEN waiters[d] \cup {f} ELSE waiters[d]]
      /\ stored' = stored \cup {f}
      /\ UNCHANGED <<published, completed, ready, deferred>>
  BY <1>2 DEF Hold
<1>4. \A d \in blocking : d \in File /\ InFlight(d)
  BY <1>1, <1>2 DEF InFlight
<1>5. \A d : InFlight(d) => InFlight(d)'
  BY <1>3 DEF InFlight
<1>6. \A d \in File : waiters[d] \subseteq waiters'[d] /\ (d \in blocking => f \in waiters'[d])
  BY <1>3
<1>7. pending'[f] = blocking /\ \A g \in File \ {f} : pending'[g] = pending[g]
  BY <1>1, <1>3
<1>8. Linked'
  <2> SUFFICES ASSUME NEW g \in File, NEW d \in pending'[g] PROVE g \in waiters'[d] /\ InFlight(d)'
    BY DEF Linked
  <2>1. CASE g = f
    BY <1>4, <1>5, <1>6, <1>7, <2>1
  <2>2. CASE g # f
    <3>1. d \in pending[g] /\ d \in File
      BY <1>1, <1>7, <2>2
    <3>2. g \in waiters[d] /\ InFlight(d)
      BY <3>1 DEF GatheringInv, Linked
    <3>3. QED
      BY <1>5, <1>6, <3>1, <3>2
  <2>3. QED
    BY <2>1, <2>2
<1>9. CompletedArePublished'
  BY <1>3 DEF GatheringInv, CompletedArePublished
<1>10. Kept(f)'
  <2>1. PICK d \in blocking : TRUE
    BY <1>3
  <2>2. d \in File /\ f \in waiters'[d] /\ InFlight(d)'
    BY <1>4, <1>5, <1>6, <2>1
  <2>3. QED
    BY <2>2 DEF Kept, Waits
<1>11. \A g : Kept(g) => Kept(g)'
  BY <1>3, <1>6, StaysKept
<1>12. Due = ready
  BY Positions DEF Due
<1>13. \A g \in stored \ completed : g \in ready \/ Kept(g)
  BY <1>12 DEF GatheringInv, InCustody
<1>14. InCustody(stored \ completed, ready \cup {})'
  BY <1>3, <1>10, <1>11, <1>13 DEF InCustody
<1>15. QED
  BY <1>8, <1>9, <1>14

LEMMA IngestCustody ==
    ASSUME CustodyInv, Ingest
    PROVE  Custody'
<1>1. PICK f \in batch :
          /\ Doing("ingest") /\ batch' = batch \ {f}
          /\ IngestPlain(f) \/ Hold(f) \/ RunOnArrival(f)
          /\ UNCHANGED <<version, stage, agenda, changed>>
  BY DEF Ingest
<1>2. ScheduleTypes /\ Loops /\ f \in File /\ ready \in SUBSET File
  BY <1>1 DEF CustodyInv, Custody, AnswersInv, ScheduleTypes
<1>3. CASE ~Gathering
  <2>1. stage \notin {"start", "resolve"}
    BY <1>1, <1>2, AtLoop
  <2>2. QED
    BY <1>1, <1>2, <1>3, <2>1 DEF Custody, Loops, Gathering
<1>4. CASE Gathering
  <2>1. agenda = Ingesting /\ GatheringInv
    BY <1>1, <1>2, <1>4, AtLoop DEF CustodyInv, Custody
  <2>2. Linked' /\ CompletedArePublished' /\ InCustody(stored \ completed, ready \cup {})'
    <3>1. CASE IngestPlain(f)
      BY <1>1, <1>2, <2>1, <3>1, IngestPlainKeeps
    <3>2. CASE Hold(f)
      BY <1>1, <1>2, <2>1, <3>2, HoldKeeps
    <3>3. CASE RunOnArrival(f)
      <4>1. PICK defer : Execute(f, defer, ready) /\ (defer \/ HeaderStage)
        BY <3>3 DEF RunOnArrival
      <4>2. Due = ready \cup {}
        BY <2>1, Positions DEF Due
      <4>3. Linked /\ CompletedArePublished /\ InCustody((stored \ completed) \ {f}, ready \cup {})
        BY <2>1, <4>2 DEF GatheringInv, InCustody
      <4>4. QED
        BY <1>1, <1>2, <4>1, <4>3, ExecuteKeeps
    <3>4. QED
      BY <1>1, <3>1, <3>2, <3>3
  <2>3. Due' = ready' \cup {}
    BY <1>1, <2>1, Positions DEF Due
  <2>4. InCustody(stored \ completed, Due)'
    BY <2>2, <2>3 DEF InCustody
  <2>5. batch' \cap Plain \subseteq published'
    <3>1. batch \cap Plain \subseteq published
      BY <2>1 DEF GatheringInv
    <3>2. published \subseteq published'
      BY <1>1 DEF IngestPlain, Hold, RunOnArrival, Execute, Publish, Park
    <3>3. QED
      BY <1>1, <3>1, <3>2
  <2>6. agenda' # << >>
    BY <1>1, <2>1, Positions
  <2>7. GatheringInv'
    BY <2>2, <2>4, <2>5, <2>6 DEF GatheringInv
  <2>8. QED
    BY <1>1, <1>2, <1>4, <2>7 DEF Custody, Loops, Gathering
<1>5. QED
  BY <1>3, <1>4

\* A position of the parent that changes nothing else, while batches arrive.
LEMMA MovesOnKeeps ==
    ASSUME GatheringInv, Due' = Due,
           UNCHANGED <<version, stage, changed, execution, parking>>,
           agenda' # Ingesting, agenda' = << >> => ready = {}
    PROVE  GatheringInv'
<1>1. Linked' /\ CompletedArePublished'
  BY DEF GatheringInv, Linked, CompletedArePublished, InFlight, execution, parking
<1>2. \A g : Kept(g) => Kept(g)'
  BY DEF Kept, Waits, LeftOver, HeaderStage, InFlight, Deps, Refs, execution, parking
<1>3. InCustody(stored \ completed, Due)'
  BY <1>2 DEF GatheringInv, InCustody, execution, parking
<1>4. QED
  BY <1>1, <1>3 DEF GatheringInv, parking

LEMMA IngestDoneCustody ==
    ASSUME CustodyInv, IngestDone
    PROVE  Custody'
<1>1. /\ Doing("ingest") /\ agenda' = Tail(agenda)
      /\ UNCHANGED <<version, stage, changed, execution, parking>>
  BY DEF IngestDone, Leave
<1>2. Loops
  BY DEF CustodyInv, Custody
<1>3. CASE ~Gathering
  <2>1. stage \notin {"start", "resolve"}
    BY <1>1, <1>2, AtLoop
  <2>2. QED
    BY <1>1, <1>3, <2>1 DEF Custody, Loops, Gathering
<1>4. CASE Gathering
  <2>1. agenda = Ingesting /\ GatheringInv
    BY <1>1, <1>2, <1>4, AtLoop DEF CustodyInv, Custody
  <2>2. agenda' = Draining
    BY <1>1, <2>1, Positions
  <2>3. Due' = Due /\ agenda' # Ingesting /\ agenda' # << >>
    BY <1>1, <2>1, <2>2, Positions DEF Due, parking
  <2>4. GatheringInv'
    BY <1>1, <2>1, <2>3, MovesOnKeeps
  <2>5. QED
    BY <1>1, <1>4, <2>2, <2>4 DEF Custody, Loops, Gathering
<1>5. QED
  BY <1>3, <1>4

LEMMA DrainCustody ==
    ASSUME CustodyInv, Drain
    PROVE  Custody'
<1>1. PICK f \in ready :
          /\ Doing("drain")
          /\ IF f \in completed \/ f \notin stored
             THEN ready' = ready \ {f} /\ UNCHANGED <<execution, completed, waiters, pending, deferred>>
             ELSE Execute(f, TRUE, ready \ {f})
          /\ UNCHANGED <<version, stage, agenda, changed, batch, waves, expired>>
  BY DEF Drain
<1>2. ScheduleTypes /\ Loops /\ f \in File
  BY <1>1 DEF CustodyInv, Custody, AnswersInv, ScheduleTypes
<1>3. CASE stage \notin {"headers", "missing", "sources", "resolve"}
  <2>1. stage # "start"
    BY <1>1, <1>2, AtLoop
  <2>2. QED
    BY <1>1, <1>3, <2>1 DEF Custody, Loops, Gathering
<1>4. CASE Gathering
  <2>1. agenda \in {Draining, Redo} /\ GatheringInv
    BY <1>1, <1>2, <1>4, AtLoop DEF CustodyInv, Custody
  <2>2. agenda # Ingesting /\ agenda # << >> /\ agenda # Retrying
    BY <2>1, Positions
  <2>3. PICK due : due = ready \ {f}
    OBVIOUS
  <2>4. Due = ready /\ Due' = ready' \cup {}
    BY <1>1, <2>2 DEF Due
  <2>5. Linked' /\ CompletedArePublished' /\ InCustody(stored \ completed, ready \cup {})'
    <3>1. CASE f \in completed \/ f \notin stored
      <4>1. ready' = due /\ UNCHANGED <<execution, completed, waiters, pending, deferred>>
        BY <1>1, <2>3, <3>1
      <4>2. Linked' /\ CompletedArePublished'
        BY <1>1, <2>1, <4>1 DEF GatheringInv, Linked, CompletedArePublished, InFlight, execution
      <4>3. \A g : Kept(g) => Kept(g)'
        BY <1>1, <4>1 DEF Kept, Waits, LeftOver, HeaderStage, InFlight, Deps, Refs, execution
      <4>4. \A g \in stored \ completed : g \in due \/ Kept(g)
        BY <2>1, <2>3, <2>4, <3>1 DEF GatheringInv, InCustody
      <4>5. QED
        BY <4>1, <4>2, <4>3, <4>4 DEF InCustody, execution
    <3>2. CASE ~(f \in completed \/ f \notin stored)
      <4>1. Execute(f, TRUE, due) /\ due \in SUBSET File
        BY <1>1, <1>2, <2>3, <3>2 DEF ScheduleTypes
      <4>2. Linked /\ CompletedArePublished /\ InCustody((stored \ completed) \ {f}, due \cup {})
        BY <2>1, <2>3, <2>4 DEF GatheringInv, InCustody
      <4>3. QED
        BY <1>1, <1>2, <4>1, <4>2, ExecuteKeeps
    <3>3. QED
      BY <3>1, <3>2
  <2>6. InCustody(stored \ completed, Due)'
    BY <2>4, <2>5 DEF InCustody
  <2>7. GatheringInv'
    BY <1>1, <2>2, <2>5, <2>6 DEF GatheringInv
  <2>8. QED
    BY <1>1, <1>2, <1>4, <2>7 DEF Custody, Loops, Gathering
<1>5. CASE stage = "resolve"
  <2>1. agenda = Draining /\ ResolvingInv
    BY <1>1, <1>2, <1>5, AtLoop DEF CustodyInv, Custody
  <2>2. stored \subseteq completed
    BY <2>1 DEF ResolvingInv
  <2>3. UNCHANGED <<execution, completed, waiters, pending, deferred>>
    BY <1>1, <2>2
  <2>4. agenda' \notin {Selecting, Waving, Closing, << >>}
    BY <1>1, <2>1, Positions
  <2>5. ResolvingInv'
    BY <1>1, <2>1, <2>3, <2>4 DEF ResolvingInv, CompletedArePublished, execution
  <2>6. QED
    BY <1>1, <1>2, <1>5, <2>5 DEF Custody, Loops, Gathering
<1>6. QED
  BY <1>3, <1>4, <1>5 DEF Gathering

LEMMA DrainDoneCustody ==
    ASSUME CustodyInv, DrainDone
    PROVE  Custody'
<1>1. /\ Doing("drain") /\ ready = {} /\ agenda' = Tail(agenda)
      /\ UNCHANGED <<version, stage, changed, execution, parking, batch, expired>>
  BY DEF DrainDone, Leave
<1>2. Loops
  BY DEF CustodyInv, Custody
<1>3. CASE stage \notin {"headers", "missing", "sources", "resolve"}
  <2>1. stage # "start"
    BY <1>1, <1>2, AtLoop
  <2>2. QED
    BY <1>1, <1>3, <2>1 DEF Custody, Loops, Gathering
<1>4. CASE Gathering
  <2>1. agenda = Draining \/ (stage = "sources" /\ agenda = Redo)
    BY <1>1, <1>2, <1>4, AtLoop
  <2>2. agenda' = << >> \/ (stage = "sources" /\ agenda' = Taking)
    BY <1>1, <2>1, Positions
  <2>3. Due' = Due /\ agenda' # Ingesting
    BY <1>1, <2>1, <2>2, Positions DEF Due, parking
  <2>4. GatheringInv'
    BY <1>1, <1>4, <2>3, MovesOnKeeps DEF CustodyInv, Custody
  <2>5. QED
    BY <1>1, <1>4, <2>2, <2>4 DEF Custody, Loops, Gathering
<1>5. CASE stage = "resolve"
  <2>1. agenda = Draining /\ ResolvingInv
    BY <1>1, <1>2, <1>5, AtLoop DEF CustodyInv, Custody
  <2>2. agenda' = << >> /\ agenda' \notin {Selecting, Waving, Closing}
    BY <1>1, <2>1, Positions
  <2>3. ResolvingInv'
    BY <1>1, <2>1, <2>2, Positions DEF ResolvingInv, CompletedArePublished, execution, parking
  <2>4. QED
    BY <1>1, <1>5, <2>2, <2>3 DEF Custody, Loops, Gathering
<1>6. QED
  BY <1>3, <1>4, <1>5 DEF Gathering

\* The deferred queue is taken to be retried, all of it.
LEMMA TakeDeferredCustody ==
    ASSUME CustodyInv, TakeDeferred
    PROVE  Custody'
<1>1. /\ Doing("take") /\ agenda' = Tail(agenda) /\ batch' = deferred
      /\ UNCHANGED <<version, stage, changed, execution, completed, waiters, pending, ready>>
  BY DEF TakeDeferred, Leave
<1>2. Loops
  BY DEF CustodyInv, Custody
<1>3. CASE ~Gathering
  <2>1. stage \notin {"start", "resolve"}
    BY <1>1, <1>2, AtLoop
  <2>2. QED
    BY <1>1, <1>3, <2>1 DEF Custody, Loops, Gathering
<1>4. CASE Gathering
  <2>1. stage = "sources" /\ agenda = Taking /\ GatheringInv
    BY <1>1, <1>2, <1>4, AtLoop DEF CustodyInv, Custody
  <2>2. agenda' = Retrying /\ agenda' # << >> /\ agenda' # Ingesting /\ agenda # Retrying
    BY <1>1, <2>1, Positions
  <2>3. Due = ready /\ Due' = ready \cup deferred
    BY <1>1, <2>2 DEF Due
  <2>4. Linked' /\ CompletedArePublished'
    BY <1>1, <2>1 DEF GatheringInv, Linked, CompletedArePublished, InFlight, execution
  <2>5. ~HeaderStage
    BY <2>1 DEF HeaderStage
  <2>6. \A g : Kept(g) => g \in deferred \/ Kept(g)'
    BY <1>1, <2>5 DEF Kept, Waits, LeftOver, InFlight, execution
  <2>7. InCustody(stored \ completed, Due)'
    BY <1>1, <2>1, <2>3, <2>6 DEF GatheringInv, InCustody, execution
  <2>8. GatheringInv'
    BY <2>2, <2>4, <2>7 DEF GatheringInv
  <2>9. QED
    BY <1>1, <2>1, <2>2, <2>8 DEF Custody, Loops, Gathering
<1>5. QED
  BY <1>3, <1>4

LEMMA RetryCustody ==
    ASSUME CustodyInv, Retry
    PROVE  Custody'
<1>1. PICK f \in batch :
          /\ Doing("retry") /\ batch' = batch \ {f}
          /\ IF f \in completed THEN UNCHANGED <<execution, parking>> ELSE Execute(f, TRUE, ready)
          /\ UNCHANGED <<version, stage, agenda, changed>>
  BY DEF Retry
<1>2. ScheduleTypes /\ Loops /\ f \in File /\ ready \in SUBSET File
  BY <1>1 DEF CustodyInv, Custody, AnswersInv, ScheduleTypes
<1>3. CASE ~Gathering
  <2>1. stage \notin {"start", "resolve"}
    BY <1>1, <1>2, AtLoop
  <2>2. QED
    BY <1>1, <1>3, <2>1 DEF Custody, Loops, Gathering
<1>4. CASE Gathering
  <2>1. agenda = Retrying /\ GatheringInv
    BY <1>1, <1>2, <1>4, AtLoop DEF CustodyInv, Custody
  <2>2. agenda' # Ingesting /\ agenda' # << >>
    BY <1>1, <2>1, Positions
  <2>3. PICK rest : rest = batch \ {f}
    OBVIOUS
  <2>4. Due = ready \cup batch /\ Due' = ready' \cup rest
    BY <1>1, <2>1, <2>3 DEF Due
  <2>5. Linked' /\ CompletedArePublished' /\ InCustody(stored \ completed, ready \cup rest)'
    <3>1. CASE f \in completed
      <4>1. UNCHANGED <<execution, parking>>
        BY <1>1, <3>1
      <4>2. Linked' /\ CompletedArePublished'
        BY <1>1, <2>1, <4>1 DEF GatheringInv, Linked, CompletedArePublished, InFlight, execution, parking
      <4>3. \A g : Kept(g) => Kept(g)'
        BY <1>1, <4>1 DEF Kept, Waits, LeftOver, HeaderStage, InFlight, Deps, Refs, execution, parking
      <4>4. \A g \in stored \ completed : g \in ready \cup rest \/ Kept(g)
        BY <2>1, <2>3, <2>4, <3>1 DEF GatheringInv, InCustody
      <4>5. QED
        BY <4>1, <4>2, <4>3, <4>4 DEF InCustody, execution, parking
    <3>2. CASE f \notin completed
      <4>1. Execute(f, TRUE, ready)
        BY <1>1, <3>2
      <4>2. Linked /\ CompletedArePublished /\ InCustody((stored \ completed) \ {f}, ready \cup rest)
        BY <2>1, <2>3, <2>4 DEF GatheringInv, InCustody
      <4>3. QED
        BY <1>1, <1>2, <4>1, <4>2, ExecuteKeeps
    <3>3. QED
      BY <3>1, <3>2
  <2>6. InCustody(stored \ completed, Due)'
    BY <2>4, <2>5 DEF InCustody
  <2>7. GatheringInv'
    BY <2>2, <2>5, <2>6 DEF GatheringInv
  <2>8. QED
    BY <1>1, <1>2, <1>4, <2>7 DEF Custody, Loops, Gathering
<1>5. QED
  BY <1>3, <1>4

LEMMA RetryDoneCustody ==
    ASSUME CustodyInv, RetryDone
    PROVE  Custody'
<1>1. /\ Doing("retry") /\ batch = {} /\ agenda' = Tail(agenda)
      /\ UNCHANGED <<version, stage, changed, execution, parking>>
  BY DEF RetryDone, Leave
<1>2. Loops
  BY DEF CustodyInv, Custody
<1>3. CASE ~Gathering
  <2>1. stage \notin {"start", "resolve"}
    BY <1>1, <1>2, AtLoop
  <2>2. QED
    BY <1>1, <1>3, <2>1 DEF Custody, Loops, Gathering
<1>4. CASE Gathering
  <2>1. stage = "sources" /\ agenda = Retrying /\ GatheringInv
    BY <1>1, <1>2, <1>4, AtLoop DEF CustodyInv, Custody
  <2>2. agenda' = Draining
    BY <1>1, <2>1, Positions
  <2>3. Due' = Due /\ agenda' # Ingesting /\ agenda' # << >>
    BY <1>1, <2>1, <2>2, Positions DEF Due, parking
  <2>4. GatheringInv'
    BY <1>1, <2>1, <2>3, MovesOnKeeps
  <2>5. QED
    BY <1>1, <2>1, <2>2, <2>4 DEF Custody, Loops, Gathering
<1>5. QED
  BY <1>3, <1>4

\* The wave pass of resolve_headers; the one of finalize is past all custody.
LEMMA WaveCustody ==
    ASSUME CustodyInv, SelectRemaining \/ NextWave \/ BreakCycle \/ RunWave \/ WavesDone
    PROVE  Custody'
<1>1. /\ Doing("select") \/ Doing("waves")
      /\ stage' = stage
  BY DEF SelectRemaining, NextWave, BreakCycle, RunWave, WavesDone, Choosing, Evacuate
<1>2. Loops
  BY DEF CustodyInv, Custody
<1>3. CASE stage # "resolve"
  <2>1. stage # "start" /\ ~Gathering
    BY <1>1, <1>2, AtLoop
  <2>2. QED
    BY <1>1, <1>3, <2>1 DEF Custody, Loops, Gathering
<1>4. CASE stage = "resolve"
  <2>1. ResolvingInv
    BY <1>4 DEF CustodyInv, Custody
  <2>2. CASE SelectRemaining
    <3>1. agenda = Selecting /\ agenda' = Tail(agenda)
      BY <1>2, <1>4, <2>2, AtLoop DEF SelectRemaining, Leave
    <3>2. agenda' = Waving /\ agenda' \notin {Closing, Draining, << >>}
      BY <3>1, Positions
    <3>3. remaining' = stored \ completed /\ UNCHANGED <<execution, parking>>
      BY <2>2 DEF SelectRemaining
    <3>4. CompletedArePublished'
      BY <2>1, <3>1, <3>3 DEF ResolvingInv, CompletedArePublished, execution, parking
    <3>5. ResolvingInv'
      BY <3>2, <3>3, <3>4 DEF ResolvingInv, execution, parking
    <3>6. QED
      BY <1>1, <1>4, <3>2, <3>5 DEF Custody, Loops, Gathering
  <2>3. CASE NextWave \/ BreakCycle \/ RunWave
    <3>1. agenda = Waving /\ agenda' = agenda
      BY <1>2, <1>4, <2>3, AtLoop DEF NextWave, BreakCycle, RunWave, Choosing, Evacuate
    <3>2. agenda' \notin {Closing, Draining, << >>}
      BY <3>1, Positions
    <3>3. CompletedArePublished /\ stored \ completed \subseteq remaining
      BY <2>1, <3>1 DEF ResolvingInv
    <3>4. CompletedArePublished' /\ stored' \ completed' \subseteq remaining'
      <4>1. CASE NextWave
        BY <3>3, <4>1 DEF NextWave, CompletedArePublished, execution, parking
      <4>2. CASE BreakCycle \/ RunWave
        <5>1. \E f : /\ published' = published \cup {f} /\ completed' = completed \cup {f}
                     /\ remaining' = remaining \ {f} /\ stored' = stored
          BY <4>2 DEF BreakCycle, RunWave, Evacuate
        <5>2. QED
          BY <3>3, <5>1 DEF CompletedArePublished
      <4>3. QED
        BY <2>3, <4>1, <4>2
    <3>5. ResolvingInv'
      BY <3>1, <3>2, <3>4 DEF ResolvingInv
    <3>6. QED
      BY <1>1, <1>4, <3>1, <3>5 DEF Custody, Loops, Gathering
  <2>4. CASE WavesDone
    <3>1. agenda = Waving /\ agenda' = Tail(agenda)
      BY <1>2, <1>4, <2>4, AtLoop DEF WavesDone, Leave
    <3>2. agenda' = Closing /\ agenda' \notin {Waving, Draining, << >>}
      BY <3>1, Positions
    <3>3. (remaining = {} \/ expired) /\ UNCHANGED <<execution, parking, expired>>
      BY <2>4 DEF WavesDone
    <3>4. CompletedArePublished /\ (expired \/ stored \subseteq completed)
      BY <2>1, <3>1, <3>3 DEF ResolvingInv
    <3>5. ResolvingInv'
      BY <3>2, <3>3, <3>4 DEF ResolvingInv, CompletedArePublished, execution, parking
    <3>6. QED
      BY <1>1, <1>4, <3>2, <3>5 DEF Custody, Loops, Gathering
  <2>5. QED
    BY <2>2, <2>3, <2>4
<1>5. QED
  BY <1>3, <1>4

\* What the deadline left unexecuted counts as completed; then the sources do not start.
LEMMA CloseHeadersCustody ==
    ASSUME CustodyInv, CloseHeaders
    PROVE  Custody'
<1>1. /\ Doing("close") /\ stage = "resolve" /\ stage' = stage /\ agenda' = Tail(agenda)
      /\ completed' = completed \cup stored /\ pending' = [f \in File |-> {}]
      /\ UNCHANGED <<execution, expired>>
  BY DEF CloseHeaders, Leave
<1>2. agenda = Closing /\ ResolvingInv
  BY <1>1, AtLoop DEF CustodyInv, Custody
<1>3. agenda' = Draining /\ agenda' \notin {Selecting, Waving, Closing, << >>}
  BY <1>1, <1>2, Positions
<1>4. CompletedArePublished /\ (expired \/ stored \subseteq completed)
  BY <1>2 DEF ResolvingInv
<1>5. ~expired' => CompletedArePublished'
  BY <1>1, <1>4 DEF CompletedArePublished, execution
<1>6. stored' \subseteq completed' /\ \A f \in File : pending'[f] = {}
  BY <1>1 DEF execution
<1>7. ResolvingInv'
  BY <1>3, <1>5, <1>6 DEF ResolvingInv
<1>8. QED
  BY <1>1, <1>3, <1>7 DEF Custody, Loops, Gathering

LEMMA DeadlineCustody ==
    ASSUME CustodyInv, expired' = expired \/ expired' = TRUE,
           UNCHANGED <<version, stage, agenda, changed, execution, parking, batch, epochs, waves>>
    PROVE  Custody'
<1>1. Loops' = Loops
  BY DEF Loops
<1>2. StartInv' = StartInv
  BY DEF StartInv, execution, parking
<1>3. ASSUME GatheringInv PROVE GatheringInv'
  <2>1. Linked' /\ CompletedArePublished'
    BY <1>3 DEF GatheringInv, Linked, CompletedArePublished, InFlight, execution, parking
  <2>2. Due' = Due /\ \A g : Kept(g) => Kept(g)'
    BY DEF Due, Kept, Waits, LeftOver, HeaderStage, InFlight, Deps, Refs, execution, parking
  <2>3. InCustody(stored \ completed, Due)'
    BY <1>3, <2>2 DEF GatheringInv, InCustody, execution, parking
  <2>4. QED
    BY <1>3, <2>1, <2>3 DEF GatheringInv, execution, parking
<1>4. ResolvingInv => ResolvingInv'
  BY DEF ResolvingInv, CompletedArePublished, execution, parking, waves
<1>5. QED
  BY <1>1, <1>2, <1>3, <1>4 DEF CustodyInv, Custody, Gathering

LEMMA StageStep == StageKnown /\ [Next]_vars => StageKnown'
BY DEF StageKnown, Next, Step, vars, PropagateTree, ParseMissing, ResolveHeaders, StartSources,
       NextEpoch, Finalize, Arrive, Ingest, IngestDone, Drain, DrainDone, TakeDeferred, Retry,
       RetryDone, SelectRemaining, NextWave, BreakCycle, RunWave, Evacuate, WavesDone,
       CloseHeaders, CloseUpdate, DeadlinePasses

LEMMA CustodyStep == CustodyInv /\ [Next]_vars => CustodyInv'
<1> SUFFICES ASSUME CustodyInv, [Next]_vars PROVE Custody'
  BY AnswersStep, StageStep DEF CustodyInv
<1>1. CASE DeadlinePasses \/ UNCHANGED vars
  BY <1>1, DeadlineCustody DEF DeadlinePasses, vars
<1>2. CASE PropagateTree
  BY <1>2, PropagateTreeCustody
<1>3. CASE ParseMissing
  BY <1>3, ParseMissingCustody
<1>4. CASE ResolveHeaders
  BY <1>4, ResolveHeadersCustody
<1>5. CASE StartSources
  BY <1>5, StartSourcesCustody
<1>6. CASE NextEpoch
  BY <1>6, NextEpochCustody
<1>7. CASE Finalize \/ CloseUpdate
  BY <1>7, Over DEF Finalize, CloseUpdate
<1>8. CASE Arrive
  BY <1>8, ArriveCustody
<1>9. CASE Ingest
  BY <1>9, IngestCustody
<1>10. CASE IngestDone
  BY <1>10, IngestDoneCustody
<1>11. CASE Drain
  BY <1>11, DrainCustody
<1>12. CASE DrainDone
  BY <1>12, DrainDoneCustody
<1>13. CASE TakeDeferred
  BY <1>13, TakeDeferredCustody
<1>14. CASE Retry
  BY <1>14, RetryCustody
<1>15. CASE RetryDone
  BY <1>15, RetryDoneCustody
<1>16. CASE SelectRemaining \/ NextWave \/ BreakCycle \/ RunWave \/ WavesDone
  BY <1>16, WaveCustody
<1>17. CASE CloseHeaders
  BY <1>17, CloseHeadersCustody
<1>18. QED
  BY <1>1, <1>2, <1>3, <1>4, <1>5, <1>6, <1>7, <1>8, <1>9, <1>10, <1>11, <1>12, <1>13, <1>14,
     <1>15, <1>16, <1>17 DEF Next, Step

(* Between two batches every ChangeSet that has arrived and not executed   *)
(* waits on a file that is still to complete, and is woken by each of them *)
(* if it is held, or refers to a path without ChangeSet and is deferred or *)
(* left to resolve_headers: the wake-ups, retries and the wave pass forget *)
(* none, whatever the references and the order of arrival.                 *)
THEOREM NoneForgotten == Spec => []NothingForgotten
<1>1. CustodyInv => NothingForgotten
  <2> SUFFICES ASSUME CustodyInv, agenda = << >>, stage \notin {"resolve", "finalize", "done"}
               PROVE  /\ ready = {} /\ Linked
                      /\ \A f \in stored \ completed : Kept(f)
    BY DEF NothingForgotten, Idle, Linked, Kept, Waits, LeftOver
  <2>1. CASE stage = "start"
    BY <2>1 DEF CustodyInv, Custody, StartInv, Linked
  <2>2. CASE Gathering
    <3>1. GatheringInv /\ ready = {}
      BY <2>2 DEF CustodyInv, Custody, GatheringInv
    <3>2. Due = {}
      BY <3>1, Positions DEF Due
    <3>3. QED
      BY <3>1, <3>2 DEF GatheringInv, InCustody
  <2>3. stage \in {"start", "headers", "missing", "sources", "resolve", "finalize", "done"}
    BY DEF CustodyInv, StageKnown
  <2>4. QED
    BY <2>1, <2>2, <2>3 DEF Gathering
<1>2. Init => CustodyInv
  BY AnswersInit, CustodyInit DEF CustodyInv, StageKnown, Init
<1>3. QED
  BY <1>1, <1>2, CustodyStep, PTL DEF Spec

-----------------------------------------------------------------------------
(* A stub stands only where one is needed                                  *)

LoopNames == {"ingest", "drain", "take", "retry", "select", "waves", "close"}

(* A wave pass follows its selection and is followed by what closes it;    *)
(* batches are ingested while they arrive, wave passes come after.         *)
AgendaInv ==
    /\ agenda \in Seq(LoopNames)
    /\ \A i \in DOMAIN agenda :
          /\ agenda[i] = "waves" => i = 1 \/ agenda[i - 1] = "select"
          /\ agenda[i] = "close" => i = 1 \/ agenda[i - 1] = "waves"
          /\ agenda[i] = "waves" => stage \in {"resolve", "finalize", "done"}
          /\ agenda[i] = "ingest" => Gathering

(* A wave pass that is not cut off by the deadline has before it whatever  *)
(* has arrived and was not executed.                                       *)
PassInv ==
    /\ wave \subseteq remaining /\ remaining \subseteq stored /\ deferred \subseteq stored
    /\ wave # {} => Doing("waves")
    /\ \A f \in wave : Deps(f) \cap remaining = {}
    /\ Doing("waves") /\ (~expired \/ wave # {}) => stored \subseteq published \cup remaining
    /\ Doing("close") /\ ~expired => stored \subseteq published
    /\ stage \in {"finalize", "done"} /\ ~expired => CompletedArePublished

(* Which files have arrived, but for those no worker delivers.             *)
Delivered(S) == S \ stored \subseteq version.undelivered

ArrivalInv ==
    /\ stage \in {"headers", "missing", "resolve"} => version.headers # {}
    /\ stage \in {"start", "headers", "missing", "resolve"} => stored \cup batch \subseteq FirstStage
    /\ stage = "missing" => Delivered(version.headers)
    /\ stage \in {"resolve", "sources"} => Delivered(FirstStage)
    /\ stage \in {"finalize", "done"} /\ (~expired \/ wave # {}) => Delivered(Update)

(* An answer that is not the symbol of a file of the update: a row of the  *)
(* previous version, or one of this run with the symbol's name.            *)
StandsIn(a, d) == a = "stub" \/ (a = "database" /\ d \in Update)

StandInsForced == \A f \in File : \A k \in DOMAIN answer[f] :
    StandsIn(answer[f][k], Refs(f)[k]) => Forced(f, k)

StubsInv == AgendaInv /\ PassInv /\ ArrivalInv /\ StandInsForced

\* The files f leads to: the least set that has what f, and what each of them, refers to.
Reach(f) ==
    { g \in File : \A S \in SUBSET File :
          (\A h \in S \cup {f} : Deps(h) \cap File \subseteq S) => g \in S }

\* LeadsToCycle means what it says: f reaches a file that reaches itself.
LEMMA CycleReached ==
    ASSUME NEW f \in File, LeadsToCycle(f)
    PROVE  \E g \in Reach(f) : g \in Reach(g)
<1> PICK S \in SUBSET File : f \in S /\ \A g \in S : Deps(g) \cap S # {}
  BY DEF LeadsToCycle
<1>1. \A h, d \in File : d \in Deps(h) => d \in Reach(h)
  BY DEF Reach
<1>2. ASSUME NEW h \in File, NEW g \in Reach(h) PROVE Reach(g) \subseteq Reach(h)
  <2> SUFFICES ASSUME NEW x \in Reach(g), NEW T \in SUBSET File,
                      \A y \in T \cup {h} : Deps(y) \cap File \subseteq T
               PROVE  x \in T
    BY DEF Reach
  <2>1. g \in T
    BY <1>2 DEF Reach
  <2>2. QED
    BY <2>1 DEF Reach
<1> DEFINE C == S \cap Reach(f)
           sizes == {Cardinality(Reach(h)) : h \in C}
<1>3. \A h : IsFiniteSet(Reach(h)) /\ Cardinality(Reach(h)) \in Nat /\ Reach(h) \subseteq File
  <2> TAKE h
  <2>1. Reach(h) \in SUBSET File
    BY DEF Reach
  <2>2. IsFiniteSet(Reach(h))
    BY <2>1, FS_Subset, SchedulerAssumptions
  <2>3. QED
    BY <2>1, <2>2, FS_CardinalityType
<1>4. sizes \subseteq Nat /\ sizes # {}
  BY <1>1, <1>3
<1>5. PICK n \in sizes : \A m \in sizes : ~(<<m, n>> \in OpToRel(<, Nat))
  BY <1>4, WFMin, NatLessThanWellFounded, Zenon
<1>6. \A m \in sizes : ~(m < n)
  BY <1>4, <1>5 DEF OpToRel
<1>7. PICK g \in C : n = Cardinality(Reach(g))
  OBVIOUS
<1>8. PICK h \in S : h \in Deps(g)
  OBVIOUS
<1>9. h \in Reach(g) /\ h \in C
  BY <1>1, <1>2, <1>8
<1>10. Reach(h) \subseteq Reach(g)
  BY <1>2, <1>9
<1>11. Cardinality(Reach(h)) <= Cardinality(Reach(g))
       /\ (Cardinality(Reach(h)) = Cardinality(Reach(g)) => Reach(g) = Reach(h))
  <2>1. Reach(h) \in SUBSET Reach(g)
    BY <1>10
  <2>2. QED
    BY <1>3, <2>1, FS_Subset
<1>12. ~(Cardinality(Reach(h)) < Cardinality(Reach(g)))
  BY <1>6, <1>7, <1>9
<1>13. Reach(h) = Reach(g)
  BY <1>3, <1>11, <1>12
<1>14. QED
  BY <1>9, <1>13

\* Without force_stubs no reference is answered by its name.
LEMMA PlainAnswers ==
    ASSUME ScheduleTypes, changed = Update, NEW f \in File, NEW seen, NEW k \in DOMAIN Refs(f),
           StandsIn(Executed(f, seen, Waiting(f))[k], Refs(f)[k])
    PROVE  StandsIn(answer[f][k], Refs(f)[k])
<1>1. Executed(f, seen, Waiting(f))[k] =
          IF answer[f][k] = "none" THEN Resolve(Refs(f)[k], seen, "none") ELSE answer[f][k]
  BY DEF Executed, Waiting, ScheduleTypes
<1>2. ~StandsIn(Resolve(Refs(f)[k], seen, "none"), Refs(f)[k])
  BY DEF Resolve, StandsIn
<1>3. QED
  BY <1>1, <1>2

\* Such an answer refers to a file of the update, or one that has arrived, not yet executed.
LEMMA StandInAnswers ==
    ASSUME ScheduleTypes, changed = Update, NEW f \in File, NEW seen, NEW fallback, NEW k \in DOMAIN Refs(f),
           StandsIn(Executed(f, seen, fallback)[k], Refs(f)[k]), ~StandsIn(answer[f][k], Refs(f)[k])
    PROVE  /\ Refs(f)[k] \in File /\ Refs(f)[k] \in Deps(f)
           /\ Refs(f)[k] \in changed \cup stored /\ Refs(f)[k] \notin published
<1>1. Executed(f, seen, fallback)[k] =
          IF answer[f][k] = "none" THEN Resolve(Refs(f)[k], seen, fallback[k]) ELSE answer[f][k]
  BY DEF Executed, ScheduleTypes
<1>2. StandsIn(Resolve(Refs(f)[k], seen, fallback[k]), Refs(f)[k]) =>
          Refs(f)[k] # Elsewhere /\ Refs(f)[k] \in changed \cup stored /\ Refs(f)[k] \notin published
  BY DEF Resolve, StandsIn
<1>3. Refs(f)[k] \in Deps(f) /\ Deps(f) \subseteq File \cup {Elsewhere}
  BY References DEF ScheduleTypes
<1>4. QED
  BY <1>1, <1>2, <1>3

-----------------------------------------------------------------------------
(* The steps of the parent, as far as stubs are concerned                  *)

\* Steps that go through files one by one: they force nothing.
OneByOne == Ingest \/ Drain \/ Retry
\* Steps that leave a loop, but for the wave pass.
Leaving == IngestDone \/ DrainDone \/ RetryDone \/ TakeDeferred
\* Steps between two batches.
Between == PropagateTree \/ ParseMissing \/ ResolveHeaders \/ StartSources \/ NextEpoch \/ Finalize

\* What is parked has arrived; what is published and completed goes together.
LEMMA ExecuteStubs ==
    ASSUME ScheduleTypes, changed = Update,
           NEW f \in File, NEW defer, NEW due \in SUBSET File, Execute(f, defer, due)
    PROVE  /\ stored' = stored \cup {f} /\ deferred' \subseteq deferred \cup {f}
           /\ published \subseteq published'
           /\ CompletedArePublished => CompletedArePublished'
           /\ DOMAIN answer' = File
           /\ \A g \in File : \A k \in DOMAIN Refs(g) :
                 StandsIn(answer'[g][k], Refs(g)[k]) => StandsIn(answer[g][k], Refs(g)[k])
<1>1. PICK seen \in AtHand(f) :
          /\ answer' = [answer EXCEPT ![f] = Executed(f, seen, Waiting(f))]
          /\ stored' = stored \cup {f}
          /\ \/ Publish(f, Executed(f, seen, Waiting(f)), due)
             \/ Park(f, Executed(f, seen, Waiting(f)), defer, due)
  BY DEF Execute
<1>2. PICK answers : answers = Executed(f, seen, Waiting(f))
  OBVIOUS
<1>3. DOMAIN answer' = File /\ answer'[f] = answers /\ \A g \in File \ {f} : answer'[g] = answer[g]
  BY <1>1, <1>2 DEF ScheduleTypes
<1>4. \A k \in DOMAIN Refs(f) : StandsIn(answers[k], Refs(f)[k]) => StandsIn(answer[f][k], Refs(f)[k])
  BY <1>2, PlainAnswers
<1>5. CASE Publish(f, answers, due)
  <2>1. published' = published \cup {f} /\ completed' = completed \cup {f} /\ deferred' = deferred
    BY <1>5 DEF Publish, Complete
  <2>2. QED
    BY <1>1, <1>3, <1>4, <2>1 DEF CompletedArePublished
<1>6. CASE Park(f, answers, defer, due)
  <2>1. UNCHANGED <<published, completed>> /\ deferred' \subseteq deferred \cup {f}
    BY <1>2, <1>6, ParkTypes
  <2>2. QED
    BY <1>1, <1>3, <1>4, <2>1 DEF CompletedArePublished
<1>7. QED
  BY <1>1, <1>2, <1>5, <1>6

\* What such a step may do.
LEMMA OneByOneStep ==
    ASSUME CustodyInv, OneByOne
    PROVE  /\ Doing("ingest") \/ Doing("drain") \/ Doing("retry")
           /\ UNCHANGED <<version, stage, agenda, changed, waves, expired>>
           /\ batch' \subseteq batch /\ stored \subseteq stored' /\ stored' \subseteq stored \cup batch
           /\ deferred' \subseteq deferred \cup stored'
           /\ published \subseteq published'
           /\ ~Doing("ingest") /\ CompletedArePublished => CompletedArePublished'
           /\ DOMAIN answer' = File
           /\ \A g \in File : \A k \in DOMAIN Refs(g) :
                 StandsIn(answer'[g][k], Refs(g)[k]) => StandsIn(answer[g][k], Refs(g)[k])
<1>1. ScheduleTypes /\ changed = Update
  <2>1. agenda # << >>
    BY DEF OneByOne, Ingest, Drain, Retry, Doing
  <2>2. QED
    BY <2>1 DEF CustodyInv, AnswersInv, UpdateKnown
<1>2. CASE Ingest
  <2>1. PICK f \in batch :
            /\ Doing("ingest") /\ batch' = batch \ {f}
            /\ IngestPlain(f) \/ Hold(f) \/ RunOnArrival(f)
            /\ UNCHANGED <<version, stage, agenda, changed, epochs, waves, expired>>
    BY <1>2 DEF Ingest
  <2>2. CASE IngestPlain(f) \/ Hold(f)
    <3>1. stored' = stored \cup {f} /\ UNCHANGED <<answer, published, deferred>>
      BY <2>2 DEF IngestPlain, Hold
    <3>2. QED
      BY <1>1, <2>1, <3>1 DEF ScheduleTypes
  <2>3. CASE RunOnArrival(f)
    <3>1. PICK defer : Execute(f, defer, ready)
      BY <2>3 DEF RunOnArrival
    <3>2. f \in File /\ ready \in SUBSET File
      BY <1>1, <2>1 DEF ScheduleTypes
    <3>3. QED
      BY <1>1, <2>1, <3>1, <3>2, ExecuteStubs
  <2>4. QED
    BY <2>1, <2>2, <2>3
<1>3. CASE Drain
  <2>1. PICK f \in ready :
            /\ Doing("drain")
            /\ IF f \in completed \/ f \notin stored
               THEN ready' = ready \ {f} /\ UNCHANGED <<execution, completed, waiters, pending, deferred>>
               ELSE Execute(f, TRUE, ready \ {f})
            /\ UNCHANGED <<version, stage, agenda, changed, batch, epochs, waves, expired>>
    BY <1>3 DEF Drain
  <2>2. CASE f \in completed \/ f \notin stored
    BY <1>1, <2>1, <2>2 DEF ScheduleTypes, execution, CompletedArePublished
  <2>3. CASE ~(f \in completed \/ f \notin stored)
    <3>1. PICK due \in SUBSET File : Execute(f, TRUE, due)
      <4>1. ready \ {f} \in SUBSET File
        BY <1>1 DEF ScheduleTypes
      <4>2. QED
        BY <2>1, <2>3, <4>1
    <3>2. f \in File /\ f \in stored
      BY <1>1, <2>1, <2>3 DEF ScheduleTypes
    <3>3. QED
      BY <1>1, <2>1, <3>1, <3>2, ExecuteStubs
  <2>4. QED
    BY <2>2, <2>3
<1>4. CASE Retry
  <2>1. PICK f \in batch :
            /\ Doing("retry") /\ batch' = batch \ {f}
            /\ IF f \in completed THEN UNCHANGED <<execution, parking>> ELSE Execute(f, TRUE, ready)
            /\ UNCHANGED <<version, stage, agenda, changed, epochs, waves, expired>>
    BY <1>4 DEF Retry
  <2>2. CASE f \in completed
    BY <1>1, <2>1, <2>2 DEF ScheduleTypes, execution, parking, CompletedArePublished
  <2>3. CASE f \notin completed
    <3>1. f \in File /\ ready \in SUBSET File
      BY <1>1, <2>1 DEF ScheduleTypes
    <3>2. QED
      BY <1>1, <2>1, <2>3, <3>1, ExecuteStubs
  <2>4. QED
    BY <2>2, <2>3
<1>5. QED
  BY <1>2, <1>3, <1>4 DEF OneByOne

\* A step that leaves a loop goes on with the next one.
LEMMA LeavingStep ==
    ASSUME CustodyInv, Leaving
    PROVE  /\ Doing("ingest") \/ Doing("drain") \/ Doing("take") \/ Doing("retry")
           /\ agenda' = Tail(agenda)
           /\ UNCHANGED <<version, stage, changed, execution, completed, waves, expired>>
           /\ batch' \subseteq batch \cup deferred /\ deferred' \subseteq deferred
BY DEF Leaving, IngestDone, DrainDone, RetryDone, TakeDeferred, Leave, parking

LEMMA BetweenStep ==
    ASSUME CustodyInv, Between
    PROVE  /\ Idle
           /\ UNCHANGED <<version, execution, completed, deferred, batch, waves, expired>>
           /\ stage' \in {"headers", "missing", "resolve", "sources", "finalize"}
<1>1. PropagateTree => Idle
  BY DEF CustodyInv, AnswersInv, UpdateKnown, PropagateTree, Idle
<1>2. QED
  BY <1>1 DEF Between, PropagateTree, ParseMissing, ResolveHeaders, StartSources, NextEpoch, Finalize,
              StageOver, parking

\* The two steps of the wave pass that execute a file.
LEMMA WaveStep ==
    ASSUME CustodyInv, RunWave \/ BreakCycle
    PROVE  \E f \in remaining \cup wave : \E seen, fallback :
              /\ Doing("waves")
              /\ UNCHANGED <<version, stage, agenda, changed, stored, deferred, batch, expired>>
              /\ published' = published \cup {f} /\ completed' = completed \cup {f}
              /\ remaining' = remaining \ {f}
              /\ answer' = [answer EXCEPT ![f] = Executed(f, seen, fallback)]
              /\ \/ f \in wave /\ wave' = wave \ {f}
                 \/ f \in remaining /\ wave = {} /\ wave' = {} /\ ~expired /\ Unblocked = {}
<1>1. CASE RunWave
  <2>1. PICK f \in wave : \E seen \in AtHand(f), fallback \in ByName(f) :
            /\ Doing("waves") /\ wave' = wave \ {f}
            /\ LET plainly == Executed(f, seen, Waiting(f))
               IN  Evacuate(f, IF Whole(plainly) THEN plainly ELSE Executed(f, seen, fallback))
    BY <1>1 DEF RunWave
  <2>2. PICK seen \in AtHand(f), forced \in ByName(f) :
            Evacuate(f, IF Whole(Executed(f, seen, Waiting(f))) THEN Executed(f, seen, Waiting(f))
                                                                ELSE Executed(f, seen, forced))
    BY <2>1
  <2>3. PICK fallback : Evacuate(f, Executed(f, seen, fallback))
    BY <2>2
  <2>4. QED
    BY <2>1, <2>3 DEF Evacuate
<1>2. CASE BreakCycle
  <2>1. PICK f \in remaining : \E seen \in AtHand(f), fallback \in ByName(f) :
            Choosing /\ Unblocked = {} /\ Evacuate(f, Executed(f, seen, fallback)) /\ UNCHANGED wave
    BY <1>2 DEF BreakCycle
  <2>2. PICK seen \in AtHand(f), fallback \in ByName(f) : Evacuate(f, Executed(f, seen, fallback))
    BY <2>1
  <2>3. QED
    BY <2>1, <2>2 DEF Evacuate, Choosing
<1>3. QED
  BY <1>1, <1>2

-----------------------------------------------------------------------------
\* The loops keep their order.
LEMMA TailAgenda ==
    ASSUME AgendaInv, agenda # << >>, agenda' = Tail(agenda),
           stage' = stage \/ (stage = "finalize" /\ stage' = "done")
    PROVE  AgendaInv' /\ \A loop : Doing(loop)' => 2 \in DOMAIN agenda /\ agenda[2] = loop
<1>1. /\ agenda \in Seq(LoopNames) /\ DOMAIN agenda = 1 .. Len(agenda) /\ Len(agenda) \in Nat \ {0}
  BY DEF AgendaInv
<1>2. /\ agenda' \in Seq(LoopNames) /\ DOMAIN agenda' = 1 .. Len(agenda) - 1
      /\ \A i \in DOMAIN agenda' : i + 1 \in DOMAIN agenda /\ agenda'[i] = agenda[i + 1]
  BY <1>1
<1>3. ASSUME NEW i \in DOMAIN agenda'
      PROVE  /\ agenda'[i] = "waves" => i = 1 \/ agenda'[i - 1] = "select"
             /\ agenda'[i] = "close" => i = 1 \/ agenda'[i - 1] = "waves"
             /\ agenda'[i] = "waves" => stage' \in {"resolve", "finalize", "done"}
             /\ agenda'[i] = "ingest" => Gathering'
  <2>1. PICK j \in DOMAIN agenda : j = i + 1 /\ agenda'[i] = agenda[j]
    BY <1>2
  <2>2. i = 1 \/ (i - 1 \in DOMAIN agenda' /\ agenda'[i - 1] = agenda[j - 1])
    BY <1>1, <1>2, <2>1
  <2>3. i = 1 \/ j # 1
    BY <1>2, <2>1
  <2>4. /\ agenda[j] = "waves" => j = 1 \/ agenda[j - 1] = "select"
        /\ agenda[j] = "close" => j = 1 \/ agenda[j - 1] = "waves"
        /\ agenda[j] = "waves" => stage \in {"resolve", "finalize", "done"}
        /\ agenda[j] = "ingest" => Gathering
    BY <2>1 DEF AgendaInv
  <2>5. QED
    BY <2>1, <2>2, <2>3, <2>4 DEF Gathering
<1>4. AgendaInv'
  BY <1>2, <1>3 DEF AgendaInv
<1>5. ASSUME NEW loop, Doing(loop)' PROVE 2 \in DOMAIN agenda /\ agenda[2] = loop
  <2>1. agenda' # << >> /\ Head(agenda') = loop
    BY <1>5 DEF Doing
  <2>2. 1 \in DOMAIN agenda' /\ agenda'[1] = loop
    BY <1>2, <2>1
  <2>3. QED
    BY <1>2, <2>2
<1>6. QED
  BY <1>4, <1>5

\* The loops finalize begins.
LEMMA FinalLoops ==
    ASSUME Finalize
    PROVE  /\ agenda' \in Seq(LoopNames) /\ DOMAIN agenda' = 1..7
           /\ \A i \in 1..4 : agenda'[i] \in {"drain", "take", "retry"}
           /\ agenda'[5] = "select" /\ agenda'[6] = "waves" /\ agenda'[7] = "close"
<1>1. PICK s : s = Redo
  OBVIOUS
<1>2. PICK t : t = <<"select", "waves", "close">>
  OBVIOUS
<1>3. agenda' = s \o t
  BY <1>1, <1>2 DEF Finalize
<1>4. Len(s) = 4 /\ \A i \in 1..4 : s[i] \in {"drain", "take", "retry"}
  BY <1>1 DEF Redo
<1>5. Len(t) = 3 /\ t[1] = "select" /\ t[2] = "waves" /\ t[3] = "close"
  BY <1>2
<1>6. /\ s \o t \in Seq(LoopNames) /\ Len(s \o t) = Len(s) + Len(t)
      /\ \A i \in 1 .. Len(s) + Len(t) : (s \o t)[i] = IF i <= Len(s) THEN s[i] ELSE t[i - Len(s)]
  <2>1. s \in Seq(LoopNames)
    BY <1>1 DEF Redo, LoopNames
  <2>2. t \in Seq(LoopNames)
    BY <1>2 DEF LoopNames
  <2>3. QED
    BY <2>1, <2>2, ConcatProperties
<1>7. /\ agenda' \in Seq(LoopNames) /\ Len(agenda') = 7
      /\ \A i \in 1..7 : agenda'[i] = IF i <= 4 THEN s[i] ELSE t[i - 4]
  BY <1>3, <1>4, <1>5, <1>6
<1>8. QED
  BY <1>4, <1>5, <1>7

\* What a step does to the loops: none, or it leaves one, or it begins some from none.
LEMMA AgendaStep == CustodyInv /\ AgendaInv /\ [Next]_vars => AgendaInv'
<1> SUFFICES ASSUME CustodyInv, AgendaInv, [Next]_vars PROVE AgendaInv'
  OBVIOUS
<1>1. CASE agenda' = agenda /\ stage' = stage
  BY <1>1 DEF AgendaInv, Gathering
<1>2. CASE Leaving \/ SelectRemaining \/ WavesDone \/ CloseHeaders \/ CloseUpdate
  <2>1. agenda # << >> /\ agenda' = Tail(agenda)
    BY <1>2 DEF Leaving, IngestDone, DrainDone, RetryDone, TakeDeferred, SelectRemaining, WavesDone,
                CloseHeaders, CloseUpdate, Doing, Leave
  <2>2. stage' = stage \/ (stage = "finalize" /\ stage' = "done")
    BY <1>2 DEF Leaving, IngestDone, DrainDone, RetryDone, TakeDeferred, SelectRemaining, WavesDone,
                CloseHeaders, CloseUpdate
  <2>3. QED
    BY <2>1, <2>2, TailAgenda
<1>3. CASE Arrive
  <2>1. agenda' = <<"ingest", "drain">> /\ stage' = stage /\ Outstanding # {}
    BY <1>3 DEF Arrive
  <2>2. Gathering'
    BY <2>1 DEF Outstanding, FilesOf, Gathering
  <2>3. QED
    BY <2>1, <2>2 DEF AgendaInv, LoopNames
<1>4. CASE ResolveHeaders
  BY <1>4 DEF ResolveHeaders, AgendaInv, LoopNames
<1>5. CASE NextEpoch
  BY <1>5 DEF NextEpoch, Redo, AgendaInv, LoopNames
<1>6. CASE Finalize
  <2>3. stage' = "finalize"
    BY <1>6 DEF Finalize
  <2>6. /\ agenda' \in Seq(LoopNames) /\ DOMAIN agenda' = 1..7
        /\ \A i \in 1..4 : agenda'[i] \in {"drain", "take", "retry"}
        /\ agenda'[5] = "select" /\ agenda'[6] = "waves" /\ agenda'[7] = "close"
    BY <1>6, FinalLoops
  <2>8. \A i \in DOMAIN agenda' :
            i \in 1..4 \/ i = 5 \/ (i = 6 /\ i - 1 = 5) \/ (i = 7 /\ i - 1 = 6)
    BY <2>6
  <2>9. \A i \in DOMAIN agenda' :
            /\ agenda'[i] = "waves" => i = 1 \/ agenda'[i - 1] = "select"
            /\ agenda'[i] = "close" => i = 1 \/ agenda'[i - 1] = "waves"
            /\ agenda'[i] # "ingest"
    BY <2>6, <2>8
  <2>10. QED
    BY <2>3, <2>6, <2>9 DEF AgendaInv
<1>7. CASE PropagateTree \/ ParseMissing \/ StartSources
  <2>1. Idle /\ agenda' = agenda
    BY <1>7, BetweenStep DEF Between, PropagateTree, ParseMissing, StartSources
  <2>2. agenda' = << >>
    BY <2>1 DEF Idle
  <2>3. QED
    BY <2>2 DEF AgendaInv
<1>8. CASE DeadlinePasses \/ UNCHANGED vars \/ OneByOne \/ NextWave \/ BreakCycle \/ RunWave
  <2>1. agenda' = agenda /\ stage' = stage
    BY <1>8, OneByOneStep DEF DeadlinePasses, vars, NextWave, BreakCycle, RunWave, Evacuate
  <2>2. QED
    BY <1>1, <2>1
<1>9. QED
  BY <1>2, <1>3, <1>4, <1>5, <1>6, <1>7, <1>8 DEF Next, Step, Leaving, OneByOne

-----------------------------------------------------------------------------
(* The wave pass has what is left before it.                               *)

\* Another loop, or none, runs no wave and closes none.
LEMMA OneLoop ==
    /\ Doing("ingest") \/ Doing("drain") \/ Doing("take") \/ Doing("retry") \/ Doing("select") \/ Idle =>
          ~Doing("waves") /\ ~Doing("close")
    /\ Doing("waves") => ~Doing("close") /\ ~Idle
    /\ Doing("close") => ~Idle
BY DEF Doing, Idle

LEMMA FinishedPublished ==
    ASSUME CustodyInv, PassInv, ~expired PROVE CompletedArePublished
<1>1. CASE stage = "start"
  BY <1>1 DEF CustodyInv, Custody, StartInv, CompletedArePublished
<1>2. CASE Gathering
  BY <1>2 DEF CustodyInv, Custody, GatheringInv
<1>3. CASE stage = "resolve"
  BY <1>3 DEF CustodyInv, Custody, ResolvingInv
<1>4. CASE stage \in {"finalize", "done"}
  BY <1>4 DEF PassInv
<1>5. QED
  BY <1>1, <1>2, <1>3, <1>4 DEF CustodyInv, StageKnown, Gathering

LEMMA OneByOnePass ==
    ASSUME CustodyInv, AgendaInv, PassInv, OneByOne
    PROVE  PassInv'
<1>1. /\ Doing("ingest") \/ Doing("drain") \/ Doing("retry")
      /\ UNCHANGED <<version, stage, agenda, waves, expired>>
      /\ stored \subseteq stored' /\ deferred' \subseteq deferred \cup stored'
      /\ ~Doing("ingest") /\ CompletedArePublished => CompletedArePublished'
  BY OneByOneStep
<1>2. ~Doing("waves") /\ ~Doing("close")
  BY <1>1, OneLoop
<1>3. ~Doing("waves")' /\ ~Doing("close")' /\ wave' = {}
  BY <1>1, <1>2 DEF Doing, waves, PassInv
<1>4. stage \in {"finalize", "done"} => ~Doing("ingest")
  <2> SUFFICES ASSUME Doing("ingest") PROVE Gathering
    BY DEF Gathering
  <2>1. 1 \in DOMAIN agenda /\ agenda[1] = "ingest"
    BY DEF Doing, AgendaInv
  <2>2. QED
    BY <2>1 DEF AgendaInv
<1>5. QED
  BY <1>1, <1>3, <1>4 DEF PassInv, waves

LEMMA LeavingPass ==
    ASSUME CustodyInv, AgendaInv, PassInv, Leaving
    PROVE  PassInv'
<1>1. /\ Doing("ingest") \/ Doing("drain") \/ Doing("take") \/ Doing("retry")
      /\ agenda' = Tail(agenda)
      /\ UNCHANGED <<version, stage, changed, execution, completed, waves, expired>>
      /\ deferred' \subseteq deferred
  BY LeavingStep
<1>2. ~Doing("waves") /\ wave = {} /\ agenda # << >>
  BY <1>1, OneLoop DEF PassInv, Doing
<1>3. \A loop : Doing(loop)' => 2 \in DOMAIN agenda /\ agenda[2] = loop
  BY <1>1, <1>2, TailAgenda
<1>4. agenda[1] \in {"ingest", "drain", "take", "retry"}
  BY <1>1 DEF Doing, AgendaInv
<1>5. ~Doing("waves")' /\ ~Doing("close")'
  BY <1>3, <1>4 DEF AgendaInv
<1>6. QED
  BY <1>1, <1>2, <1>5 DEF PassInv, waves, execution, CompletedArePublished

LEMMA BetweenPass ==
    ASSUME CustodyInv, AgendaInv, PassInv, Between \/ Arrive, AgendaInv'
    PROVE  PassInv'
<1>1. Idle /\ UNCHANGED <<version, stored, answer, completed, deferred, waves, expired>>
      /\ published \subseteq published'
  BY BetweenStep DEF Arrive, execution, parking
<1>2. wave = {}
  BY <1>1, OneLoop DEF PassInv
<1>3. ~Doing("waves")' /\ ~Doing("close")'
  <2>1. CASE Between
    <3>1. CASE PropagateTree \/ ParseMissing \/ StartSources
      BY <1>1, <3>1, OneLoop DEF PropagateTree, ParseMissing, StartSources, Doing, Idle
    <3>2. CASE ResolveHeaders
      BY <3>2 DEF ResolveHeaders, Doing
    <3>3. CASE NextEpoch
      BY <3>3 DEF NextEpoch, Redo, Doing
    <3>4. CASE Finalize
      <4>1. /\ agenda' \in Seq(LoopNames) /\ DOMAIN agenda' = 1..7
            /\ agenda'[1] \in {"drain", "take", "retry"}
        BY <3>4, FinalLoops
      <4>2. QED
        BY <4>1 DEF Doing
    <3>5. QED
      BY <2>1, <3>1, <3>2, <3>3, <3>4 DEF Between
  <2>2. CASE Arrive
    BY <2>2 DEF Arrive, Doing
  <2>3. QED
    BY <2>1, <2>2
<1>4. stage' \in {"finalize", "done"} /\ ~expired' => CompletedArePublished'
  BY <1>1, FinishedPublished DEF CompletedArePublished
<1>5. QED
  BY <1>1, <1>2, <1>3, <1>4 DEF PassInv, waves

LEMMA WavePass ==
    ASSUME CustodyInv, PassInv, RunWave \/ BreakCycle
    PROVE  PassInv'
<1>1. PICK f \in remaining \cup wave :
              /\ Doing("waves")
              /\ UNCHANGED <<version, stage, agenda, stored, deferred, expired>>
              /\ published' = published \cup {f} /\ completed' = completed \cup {f}
              /\ remaining' = remaining \ {f}
              /\ \/ f \in wave /\ wave' = wave \ {f}
                 \/ f \in remaining /\ wave = {} /\ wave' = {} /\ ~expired
  BY WaveStep
<1>2. wave' \subseteq remaining' /\ remaining' \subseteq stored' /\ deferred' \subseteq stored'
  BY <1>1 DEF PassInv
<1>3. Doing("waves")' /\ ~Doing("close")'
  BY <1>1 DEF Doing
<1>4. \A g \in wave' : Deps(g)' \cap remaining' = {}
  BY <1>1 DEF PassInv, Deps, Refs
<1>5. ~expired' \/ wave' # {} => stored' \subseteq published' \cup remaining'
  BY <1>1 DEF PassInv
<1>6. stage' \in {"finalize", "done"} /\ ~expired' => CompletedArePublished'
  BY <1>1 DEF PassInv, CompletedArePublished
<1>7. QED
  BY <1>2, <1>3, <1>4, <1>5, <1>6 DEF PassInv

LEMMA SelectPass ==
    ASSUME CustodyInv, AgendaInv, PassInv, SelectRemaining
    PROVE  PassInv'
<1>1. /\ Doing("select") /\ agenda' = Tail(agenda)
      /\ remaining' = stored \ completed /\ wave' = {}
      /\ UNCHANGED <<version, stage, execution, completed, deferred, expired>>
  BY DEF SelectRemaining, Leave, parking
<1>2. agenda # << >> /\ agenda[1] = "select"
  BY <1>1 DEF Doing, AgendaInv
<1>3. ~Doing("close")'
  <2>1. Doing("close")' => 2 \in DOMAIN agenda /\ agenda[2] = "close"
    BY <1>1, <1>2, TailAgenda
  <2>2. QED
    BY <1>2, <2>1 DEF AgendaInv
<1>4. ~expired => stored \subseteq published \cup (stored \ completed)
  BY FinishedPublished DEF CompletedArePublished
<1>5. QED
  BY <1>1, <1>3, <1>4 DEF PassInv, execution, CompletedArePublished

LEMMA NextWavePass ==
    ASSUME CustodyInv, PassInv, NextWave
    PROVE  PassInv'
<1>1. /\ Doing("waves") /\ ~expired /\ wave = {} /\ wave' = { f \in remaining : Deps(f) \cap remaining = {} }
      /\ UNCHANGED <<version, stage, agenda, execution, completed, deferred, remaining, expired>>
  BY DEF NextWave, Choosing, Unblocked, parking
<1>2. Doing("waves")' /\ ~Doing("close")'
  BY <1>1 DEF Doing
<1>3. stored \subseteq published \cup remaining
  BY <1>1 DEF PassInv
<1>4. \A f \in wave' : Deps(f)' \cap remaining' = {}
  BY <1>1 DEF Deps, Refs
<1>5. QED
  BY <1>1, <1>2, <1>3, <1>4 DEF PassInv, execution, CompletedArePublished

LEMMA WavesDonePass ==
    ASSUME CustodyInv, AgendaInv, PassInv, WavesDone
    PROVE  PassInv'
<1>1. /\ Doing("waves") /\ agenda' = Tail(agenda) /\ wave = {} /\ (remaining = {} \/ expired)
      /\ UNCHANGED <<version, stage, execution, completed, deferred, waves, expired>>
  BY DEF WavesDone, Leave, parking
<1>2. agenda # << >> /\ agenda[1] = "waves"
  BY <1>1 DEF Doing, AgendaInv
<1>3. ~Doing("waves")'
  <2>1. Doing("waves")' => 2 \in DOMAIN agenda /\ agenda[2] = "waves"
    BY <1>1, <1>2, TailAgenda
  <2>2. 2 \in DOMAIN agenda /\ agenda[2] = "waves" => agenda[1] = "select"
    BY DEF AgendaInv
  <2>3. QED
    BY <1>2, <2>1, <2>2
<1>4. ~expired => stored \subseteq published
  BY <1>1 DEF PassInv
<1>5. QED
  BY <1>1, <1>3, <1>4 DEF PassInv, waves, execution, CompletedArePublished

LEMMA ClosePass ==
    ASSUME CustodyInv, AgendaInv, PassInv, CloseHeaders \/ CloseUpdate
    PROVE  PassInv'
<1>1. /\ Doing("close") /\ agenda' = Tail(agenda) /\ completed' = completed \cup stored
      /\ UNCHANGED <<version, execution, deferred, waves, expired>>
      /\ (stage = "resolve" /\ stage' = stage) \/ (stage = "finalize" /\ stage' = "done")
  BY DEF CloseHeaders, CloseUpdate, Leave
<1>2. agenda # << >> /\ agenda[1] = "close" /\ wave = {}
  BY <1>1, OneLoop DEF Doing, AgendaInv, PassInv
<1>3. ~Doing("waves")' /\ ~Doing("close")'
  <2>1. \A loop : Doing(loop)' => 2 \in DOMAIN agenda /\ agenda[2] = loop
    BY <1>1, <1>2, TailAgenda
  <2>2. /\ 2 \in DOMAIN agenda /\ agenda[2] = "waves" => agenda[1] = "select"
        /\ 2 \in DOMAIN agenda /\ agenda[2] = "close" => agenda[1] = "waves"
    BY DEF AgendaInv
  <2>3. QED
    BY <1>2, <2>1, <2>2
<1>4. stage \in {"finalize", "done"} /\ ~expired => completed \cup stored \subseteq published
  BY <1>1 DEF PassInv, CompletedArePublished
<1>5. QED
  BY <1>1, <1>2, <1>3, <1>4 DEF PassInv, waves, execution, CompletedArePublished

LEMMA PassStep == CustodyInv /\ AgendaInv /\ PassInv /\ [Next]_vars => PassInv'
<1> SUFFICES ASSUME CustodyInv, AgendaInv, PassInv, [Next]_vars PROVE PassInv'
  OBVIOUS
<1>1. AgendaInv'
  BY AgendaStep
<1>2. CASE DeadlinePasses \/ UNCHANGED vars
  <2>1. UNCHANGED <<version, stage, agenda, execution, parking, waves>> /\ (expired' => ~expired \/ expired)
        /\ (~expired' => ~expired)
    BY <1>2 DEF DeadlinePasses, vars
  <2>2. \A f : Deps(f)' = Deps(f)
    BY <2>1 DEF Deps, Refs
  <2>3. QED
    BY <2>1, <2>2 DEF PassInv, Doing, execution, parking, waves, CompletedArePublished
<1>3. CASE OneByOne
  BY <1>3, OneByOnePass
<1>4. CASE Leaving
  BY <1>4, LeavingPass
<1>5. CASE Between \/ Arrive
  BY <1>1, <1>5, BetweenPass
<1>6. CASE SelectRemaining
  BY <1>6, SelectPass
<1>7. CASE NextWave
  BY <1>7, NextWavePass
<1>8. CASE RunWave \/ BreakCycle
  BY <1>8, WavePass
<1>9. CASE WavesDone
  BY <1>9, WavesDonePass
<1>10. CASE CloseHeaders \/ CloseUpdate
  BY <1>10, ClosePass
<1>11. QED
  BY <1>2, <1>3, <1>4, <1>5, <1>6, <1>7, <1>8, <1>9, <1>10 DEF Next, Step, Between, Leaving, OneByOne

-----------------------------------------------------------------------------
(* What has arrived when a stage ends                                      *)

\* Nothing that has arrived is lost, and nothing of another stage arrives.
LEMMA ArrivalKept ==
    ASSUME ArrivalInv, UNCHANGED <<version, stage>>, stored \subseteq stored',
           stage \in {"start", "headers", "missing", "resolve"} =>
               stored' \cup batch' \subseteq FirstStage,
           ~expired' \/ wave' # {} => ~expired \/ wave # {}
    PROVE  ArrivalInv'
<1>1. FirstStage' = FirstStage /\ Update' = Update /\ version'.headers = version.headers
  BY DEF FirstStage, Update
<1>2. \A S : Delivered(S) => S \ stored' \subseteq version'.undelivered
  BY DEF Delivered
<1>3. QED
  BY <1>1, <1>2 DEF ArrivalInv, Delivered

LEMMA ArriveArrival ==
    ASSUME ArrivalInv, Arrive
    PROVE  ArrivalInv'
<1>1. PICK files : files \subseteq Outstanding /\ files # {} /\ batch' = files
                   /\ UNCHANGED <<version, stage, stored, waves, expired>>
  BY DEF Arrive
<1>2. stage \in {"start", "headers", "missing", "resolve"} => files \subseteq FirstStage
  BY <1>1 DEF Outstanding, FilesOf, FirstStage, ArrivalInv
<1>3. stage \in {"start", "headers", "missing", "resolve"} => stored' \cup batch' \subseteq FirstStage
  BY <1>1, <1>2 DEF ArrivalInv
<1>4. QED
  BY <1>1, <1>3, ArrivalKept DEF waves

LEMMA BetweenArrival ==
    ASSUME CustodyInv, PassInv, ArrivalInv, Between
    PROVE  ArrivalInv'
<1>1. /\ Idle /\ UNCHANGED <<version, stored, batch, wave, expired>>
  BY BetweenStep DEF execution, waves
<1>2. wave' = {}
  BY <1>1, OneLoop DEF PassInv
<1>3. FirstStage' = FirstStage /\ Update' = Update /\ version' = version /\ stored' = stored
      /\ \A S : Delivered(S) => S \ stored' \subseteq version'.undelivered
  BY <1>1 DEF FirstStage, Update, Delivered
<1>4. CASE PropagateTree
  <2>1. stage = "start" /\ stage' = IF version.headers # {} THEN "headers" ELSE "sources"
    BY <1>4 DEF PropagateTree
  <2>2. stage' = "sources" => FirstStage = {}
    BY <2>1 DEF FirstStage
  <2>3. QED
    BY <1>1, <1>3, <2>1, <2>2 DEF ArrivalInv, Delivered
<1>5. CASE ParseMissing
  <2>1. stage = "headers" /\ stage' = "missing" /\ Delivered(version.headers)
    BY <1>5 DEF ParseMissing, StageOver, Outstanding, FilesOf, Delivered
  <2>2. QED
    BY <1>1, <1>3, <2>1 DEF ArrivalInv, Delivered
<1>6. CASE ResolveHeaders
  <2>1. stage \in {"headers", "missing"} /\ stage' = "resolve" /\ Outstanding \subseteq version.undelivered
        /\ (stage = "missing" \/ version.missing = {})
    BY <1>6 DEF ResolveHeaders, StageOver
  <2>2. Delivered(FirstStage)
    BY <2>1 DEF Outstanding, FilesOf, FirstStage, ArrivalInv, Delivered
  <2>3. QED
    BY <1>1, <1>3, <2>1, <2>2 DEF ArrivalInv, Delivered
<1>7. CASE StartSources \/ NextEpoch
  <2>1. stage \in {"resolve", "sources"} /\ stage' = "sources"
    BY <1>7 DEF StartSources, NextEpoch
  <2>2. QED
    BY <1>3, <2>1 DEF ArrivalInv, Delivered
<1>8. CASE Finalize
  <2>1. stage' = "finalize"
        /\ (~expired => \/ stage = "sources" /\ Outstanding \subseteq version.undelivered
                        \/ stage = "resolve" /\ version.sources = {})
    BY <1>8 DEF Finalize, StageOver
  <2>2. ~expired => Delivered(Update)
    BY <2>1 DEF ArrivalInv, Outstanding, FilesOf, FirstStage, Update, Delivered
  <2>3. QED
    BY <1>1, <1>2, <1>3, <2>1, <2>2 DEF ArrivalInv, Delivered
<1>9. QED
  BY <1>4, <1>5, <1>6, <1>7, <1>8 DEF Between

LEMMA ArrivalStep == CustodyInv /\ PassInv /\ ArrivalInv /\ [Next]_vars => ArrivalInv'
<1> SUFFICES ASSUME CustodyInv, PassInv, ArrivalInv, [Next]_vars PROVE ArrivalInv'
  OBVIOUS
<1>1. stage \in {"start", "headers", "missing", "resolve"} => stored \cup batch \subseteq FirstStage
  BY DEF ArrivalInv
<1>2. CASE OneByOne
  <2>1. UNCHANGED <<version, stage, wave, expired>> /\ batch' \subseteq batch /\ stored \subseteq stored'
        /\ stored' \subseteq stored \cup batch
    BY <1>2, OneByOneStep DEF waves
  <2>2. QED
    BY <1>1, <2>1, ArrivalKept
<1>3. CASE Leaving
  <2>1. UNCHANGED <<version, stage, stored, wave, expired>> /\ batch' \subseteq batch \cup deferred
    BY <1>3, LeavingStep DEF waves, execution
  <2>2. deferred \subseteq stored
    BY DEF PassInv
  <2>3. QED
    BY <1>1, <2>1, <2>2, ArrivalKept
<1>4. CASE Between
  BY <1>4, BetweenArrival
<1>5. CASE Arrive
  BY <1>5, ArriveArrival
<1>6. CASE RunWave \/ BreakCycle
  <2>1. UNCHANGED <<version, stage, stored, batch, expired>> /\ (wave' # {} => wave # {})
    BY <1>6, WaveStep
  <2>2. QED
    BY <1>1, <2>1, ArrivalKept
<1>7. CASE NextWave
  <2>1. UNCHANGED <<version, stage, stored, batch, expired>> /\ ~expired
    BY <1>7 DEF NextWave, Choosing, execution
  <2>2. QED
    BY <1>1, <2>1, ArrivalKept
<1>8. CASE SelectRemaining \/ WavesDone \/ CloseHeaders
  <2>1. UNCHANGED <<version, stage, stored, batch, expired>> /\ (wave' # {} => wave # {})
    BY <1>8 DEF SelectRemaining, WavesDone, CloseHeaders, execution, waves
  <2>2. QED
    BY <1>1, <2>1, ArrivalKept
<1>9. CASE CloseUpdate
  BY <1>9 DEF CloseUpdate, ArrivalInv, Delivered, Update, execution, waves
<1>10. CASE DeadlinePasses \/ UNCHANGED vars
  <2>1. UNCHANGED <<version, stage, stored, batch, wave>> /\ (~expired' => ~expired)
    BY <1>10 DEF DeadlinePasses, vars, execution, waves
  <2>2. ~expired' \/ wave' # {} => ~expired \/ wave # {}
    BY <2>1
  <2>3. QED
    BY <1>1, <2>1, <2>2, ArrivalKept
<1>11. QED
  BY <1>2, <1>3, <1>4, <1>5, <1>6, <1>7, <1>8, <1>9, <1>10 DEF Next, Step, Between, Leaving, OneByOne

-----------------------------------------------------------------------------
(* The stand-ins themselves                                                *)

\* A step that adds no stand-in but forced ones.
LEMMA StandInsKept ==
    ASSUME CustodyInv', version' = version, StandInsForced,
           \A f \in File : \A k \in DOMAIN Refs(f) :
               StandsIn(answer'[f][k], Refs(f)[k]) => StandsIn(answer[f][k], Refs(f)[k]) \/ Forced(f, k),
           CustodyInv
    PROVE  StandInsForced'
<1>1. \A f \in File : DOMAIN answer[f] = DOMAIN Refs(f) /\ DOMAIN answer'[f] = DOMAIN Refs(f)
  BY DEF CustodyInv, AnswersInv, ScheduleTypes, Refs
<1>2. \A f \in File : \A k \in DOMAIN answer'[f] : StandsIn(answer'[f][k], Refs(f)[k]) => Forced(f, k)
  BY <1>1 DEF StandInsForced
<1>3. /\ \A f : Refs(f)' = Refs(f)
      /\ \A f, k : Forced(f, k)' = Forced(f, k)
  BY DEF FirstStage, Refs, LeadsToCycle, Deps, Forced
<1>4. \A a, d : StandsIn(a, d)' = StandsIn(a, d)
  BY DEF StandsIn, Update
<1>5. \A f, k : StandsIn(answer[f][k], Refs(f)[k])' = StandsIn(answer'[f][k], Refs(f)[k])
  BY <1>3 DEF StandsIn, Update
<1>6. QED
  BY <1>2, <1>3, <1>5 DEF StandInsForced

LEMMA WaveStandIns ==
    ASSUME CustodyInv, AgendaInv, PassInv, ArrivalInv, RunWave \/ BreakCycle,
           NEW f \in File, NEW k \in DOMAIN Refs(f),
           StandsIn(answer'[f][k], Refs(f)[k]), ~StandsIn(answer[f][k], Refs(f)[k])
    PROVE  Forced(f, k)
<1>1. PICK h \in remaining \cup wave : \E seen, fallback :
              /\ Doing("waves")
              /\ answer' = [answer EXCEPT ![h] = Executed(h, seen, fallback)]
              /\ h \in wave \/ (h \in remaining /\ Unblocked = {})
  BY WaveStep
<1>2. PICK seen, fallback : answer' = [answer EXCEPT ![h] = Executed(h, seen, fallback)]
  BY <1>1
<1>3. ScheduleTypes /\ changed = Update
  BY <1>1, Started DEF CustodyInv, AnswersInv, UpdateKnown
<1>4. f = h /\ StandsIn(Executed(f, seen, fallback)[k], Refs(f)[k])
  BY <1>2, <1>3 DEF ScheduleTypes
<1>5. PICK d : d = Refs(f)[k]
  OBVIOUS
<1>6. d \in File /\ d \in Deps(f) /\ d \in changed \cup stored /\ d \notin published
  BY <1>3, <1>4, <1>5, StandInAnswers
<1>7. CASE f \in remaining /\ Unblocked = {}
  <2>1. \A g \in remaining : Deps(g) \cap remaining # {}
    BY <1>7 DEF Unblocked
  <2>2. remaining \in SUBSET File
    BY <1>3 DEF ScheduleTypes
  <2>3. QED
    BY <1>7, <2>1, <2>2 DEF LeadsToCycle, Forced
<1>8. CASE f \in wave
  <2>1. d \notin remaining /\ f \in stored /\ stored \subseteq published \cup remaining
    BY <1>1, <1>6, <1>8 DEF PassInv
  <2>2. agenda # << >> /\ agenda[1] = "waves"
    BY <1>1 DEF Doing, AgendaInv
  <2>3. stage \in {"resolve", "finalize", "done"}
    BY <2>2 DEF AgendaInv
  <2>4. d \in Update \ stored
    BY <1>3, <1>6, <2>1
  <2>5. CASE stage \in {"finalize", "done"}
    BY <1>5, <1>8, <2>4, <2>5 DEF ArrivalInv, Delivered, Forced
  <2>6. CASE stage = "resolve"
    BY <1>5, <2>1, <2>4, <2>6 DEF ArrivalInv, Delivered, Forced
  <2>7. QED
    BY <2>3, <2>5, <2>6
<1>9. QED
  BY <1>1, <1>4, <1>7, <1>8

LEMMA StandInsStep == StubsInv /\ CustodyInv /\ CustodyInv' /\ [Next]_vars => StandInsForced'
<1> SUFFICES ASSUME StubsInv, CustodyInv, CustodyInv', [Next]_vars PROVE StandInsForced'
  OBVIOUS
<1>1. ScheduleTypes /\ StandInsForced /\ AgendaInv /\ PassInv /\ ArrivalInv
  BY DEF CustodyInv, AnswersInv, StubsInv
<1>2. CASE OneByOne
  BY <1>1, <1>2, OneByOneStep, StandInsKept
<1>3. CASE RunWave \/ BreakCycle
  <2>1. version' = version
    BY <1>3, WaveStep
  <2>2. QED
    BY <1>1, <1>3, <2>1, WaveStandIns, StandInsKept
<1>4. CASE UNCHANGED <<version, answer>>
  BY <1>1, <1>4, StandInsKept
<1>5. CASE Leaving \/ Between
  <2>1. UNCHANGED <<version, answer>>
    BY <1>5, LeavingStep, BetweenStep DEF execution
  <2>2. QED
    BY <1>4, <2>1
<1>6. CASE \/ Arrive \/ SelectRemaining \/ NextWave \/ WavesDone \/ CloseHeaders \/ CloseUpdate
           \/ DeadlinePasses \/ UNCHANGED vars
  <2>1. UNCHANGED <<version, answer>>
    BY <1>6 DEF Arrive, SelectRemaining, NextWave, WavesDone, CloseHeaders, CloseUpdate, DeadlinePasses,
                vars, execution
  <2>2. QED
    BY <1>4, <2>1
<1>7. QED
  BY <1>2, <1>3, <1>5, <1>6 DEF Next, Step, Between, Leaving, OneByOne

LEMMA StubsInit == Init => StubsInv
<1> SUFFICES ASSUME Init PROVE StubsInv
  OBVIOUS
<1>1. agenda = << >> /\ stage = "start" /\ stored = {} /\ batch = {} /\ deferred = {}
      /\ remaining = {} /\ wave = {}
  BY DEF Init
<1>2. AgendaInv
  BY <1>1 DEF AgendaInv
<1>3. PassInv
  BY <1>1 DEF PassInv, Doing
<1>4. ArrivalInv
  BY <1>1 DEF ArrivalInv
<1>5. StandInsForced
  BY DEF Init, StandInsForced, StandsIn
<1>6. QED
  BY <1>2, <1>3, <1>4, <1>5 DEF StubsInv

LEMMA StandIns == Spec => []StandInsForced
<1>1. StubsInv => StandInsForced
  BY DEF StubsInv
<1>2. Init => CustodyInv /\ StubsInv
  BY AnswersInit, CustodyInit, StubsInit DEF CustodyInv, StageKnown, Init
<1>3. CustodyInv /\ StubsInv /\ [Next]_vars => (CustodyInv /\ StubsInv)'
  BY CustodyStep, AgendaStep, PassStep, ArrivalStep, StandInsStep DEF StubsInv
<1>4. QED
  BY <1>1, <1>2, <1>3, PTL DEF Spec

(* A reference to a file of the update gets a row the database has, which  *)
(* may be that of the file's previous version, only if no worker delivers  *)
(* that file, or it comes in Stage 2 and was asked for in Stage 1, or the  *)
(* references of the file that asks lead into a cycle; never because it    *)
(* was asked for too early, for every reference graph, order of arrival    *)
(* and interleaving of the parent's loops.                                 *)
THEOREM AnswersAreCurrent == Spec => []NoStaleAnswer
<1>1. StandInsForced => NoStaleAnswer
  BY DEF StandInsForced, StandsIn, NoStaleAnswer
<1>2. QED
  BY <1>1, StandIns, PTL

(* A reference is answered with a stub, or by the name of its symbol with  *)
(* another row of this run, only for the same three reasons: in any other  *)
(* graph execute_phase2_parallel_waves finds each file after those it      *)
(* refers to.                                                              *)
THEOREM StubsAreNecessary == Spec => []StubsAreForced
<1>1. StandInsForced => StubsAreForced
  BY DEF StandInsForced, StandsIn, StubsAreForced
<1>2. QED
  BY <1>1, StandIns, PTL
=============================================================================
