----------------------------- MODULE QueueLemmas -----------------------------
(***************************************************************************)
(* Queues without duplicates, used as the waiters of a condition and as    *)
(* the order of an LRU cache: what taking an element out, from anywhere or *)
(* from the head, and adding one at the end do to the elements. Lists that *)
(* are selected from others or concatenated, and functions that iterate.   *)
(***************************************************************************)
EXTENDS Integers, SequencesExt, Lists, SequenceTheorems, WellFoundedInduction, TLAPS

LEMMA RemoveFirstPlace ==
    ASSUME NEW S, NEW s \in Seq(S), IsInjective(s), NEW i \in 1..Len(s)
    PROVE  RemoveFirst(s, s[i]) = SubSeq(s, 1, i - 1) \o SubSeq(s, i + 1, Len(s))
<1>1. {j \in 1..Len(s) : s[j] = s[i]} = {i}
  BY DEF IsInjective
<1>2. SelectInSeq(s, LAMBDA v : v = s[i]) = i
  BY <1>1 DEF SelectInSeq, Min
<1>3. QED
  BY <1>2 DEF RemoveFirst, RemoveAt

LEMMA Removed ==
    ASSUME NEW S, NEW s \in Seq(S), IsInjective(s), NEW e
    PROVE  /\ RemoveFirst(s, e) \in Seq(S) /\ IsInjective(RemoveFirst(s, e))
           /\ Range(RemoveFirst(s, e)) = Range(s) \ {e}
<1>1. CASE e \notin Range(s)
  <2>1. RemoveFirst(s, e) = s
    BY <1>1 DEF RemoveFirst, Range
  <2>2. QED
    BY <1>1, <2>1
<1>2. CASE e \in Range(s)
  <2>1. PICK i \in 1..Len(s) : s[i] = e
    BY <1>2 DEF Range
  <2> DEFINE a == SubSeq(s, 1, i - 1)
             b == SubSeq(s, i + 1, Len(s))
             t == a \o b
  <2>2. RemoveFirst(s, e) = t
    BY <2>1, RemoveFirstPlace
  <2>3. Len(s) \in Nat /\ i \in Nat /\ i >= 1 /\ i <= Len(s) /\ DOMAIN s = 1..Len(s)
    OBVIOUS
  <2>4. a \in Seq(S) /\ Len(a) = i - 1 /\ \A j \in 1..(i - 1) : a[j] = s[j]
    BY <2>3, SubSeqProperties
  <2>5. b \in Seq(S) /\ Len(b) = Len(s) - i /\ \A j \in 1..(Len(s) - i) : b[j] = s[i + j]
    <3>1. /\ b \in Seq(S) /\ Len(b) = (IF i + 1 <= Len(s) THEN Len(s) - (i + 1) + 1 ELSE 0)
          /\ \A j \in 1..(Len(s) - (i + 1) + 1) : b[j] = s[i + 1 + j - 1]
      BY <2>3, SubSeqProperties
    <3>2. Len(s) - (i + 1) + 1 = Len(s) - i /\ (IF i + 1 <= Len(s) THEN Len(s) - (i + 1) + 1 ELSE 0) = Len(s) - i
      <4>1. ASSUME NEW n \in Nat, i <= n
            PROVE  n - (i + 1) + 1 = n - i /\ (IF i + 1 <= n THEN n - (i + 1) + 1 ELSE 0) = n - i
        BY <2>3, <4>1
      <4>2. QED
        BY <2>3, <4>1
    <3>3. \A j \in 1..(Len(s) - i) : i + 1 + j - 1 = i + j
      BY <2>3
    <3> HIDE DEF b
    <3>4. QED
      BY <3>1, <3>2, <3>3
  <2> HIDE DEF a, b
  <2>6. /\ t \in Seq(S) /\ Len(t) = Len(s) - 1 /\ DOMAIN t = 1..(Len(s) - 1)
        /\ \A j \in DOMAIN t : t[j] = IF j < i THEN s[j] ELSE s[j + 1]
    <3>1. t \in Seq(S) /\ Len(t) = Len(s) - 1 /\ DOMAIN t = 1..(Len(s) - 1)
      <4>1. t \in Seq(S) /\ Len(t) = Len(a) + Len(b)
        <5>1. a \in Seq(S) /\ b \in Seq(S)
          BY <2>4, <2>5
        <5>2. QED
          BY <5>1, ConcatProperties
      <4>2. Len(a) + Len(b) = Len(s) - 1
        BY <2>3, <2>4, <2>5
      <4> HIDE DEF t
      <4>3. QED
        BY <4>1, <4>2
    <3>2. ASSUME NEW j \in 1..(Len(s) - 1), j < i PROVE t[j] = s[j]
      BY <2>3, <2>4, <2>5, <3>2
    <3>3. ASSUME NEW j \in 1..(Len(s) - 1), ~(j < i) PROVE t[j] = s[j + 1]
      <4>1. j - (i - 1) \in 1..(Len(s) - i) /\ j > Len(a) /\ j <= Len(a) + Len(b)
        BY <2>3, <2>4, <2>5, <3>3
      <4>2. t[j] = b[j - (i - 1)]
        BY <2>4, <2>5, <4>1
      <4>3. i + (j - (i - 1)) = j + 1
        BY <2>3
      <4>4. QED
        BY <2>5, <4>1, <4>2, <4>3
    <3>4. QED
      BY <3>1, <3>2, <3>3
  <2> HIDE DEF t
  <2>7. IsInjective(t)
    BY <2>3, <2>6 DEF IsInjective
  <2>8. Range(t) \subseteq Range(s) \ {e}
    BY <2>1, <2>3, <2>6 DEF IsInjective, Range
  <2>9. ASSUME NEW j \in 1..Len(s), s[j] # e PROVE s[j] \in Range(t)
    <3>1. CASE j < i
      BY <2>3, <2>6, <3>1 DEF Range
    <3>2. CASE j > i
      <4>1. j - 1 \in DOMAIN t /\ t[j - 1] = s[j]
        BY <2>3, <2>6, <3>2
      <4>2. QED
        BY <4>1 DEF Range
    <3>3. QED
      BY <2>1, <2>3, <2>9, <3>1, <3>2
  <2>10. Range(s) \ {e} \subseteq Range(t)
    BY <2>3, <2>9 DEF Range
  <2>11. QED
    BY <2>2, <2>6, <2>7, <2>8, <2>10
<1>3. QED
  BY <1>1, <1>2

LEMMA Popped ==
    ASSUME NEW S, NEW s \in Seq(S), IsInjective(s), s # <<>>
    PROVE  /\ Tail(s) \in Seq(S) /\ IsInjective(Tail(s))
           /\ Head(s) \in Range(s) /\ Range(Tail(s)) = Range(s) \ {Head(s)}
<1> DEFINE t == Tail(s)
<1>1. /\ Head(s) = s[1] /\ Len(s) \in Nat \ {0} /\ DOMAIN s = 1..Len(s)
      /\ t \in Seq(S) /\ DOMAIN t = 1..(Len(s) - 1)
      /\ \A i \in 1..(Len(s) - 1) : t[i] = s[i + 1]
  OBVIOUS
<1> HIDE DEF t
<1>2. IsInjective(t)
  <2>1. ASSUME NEW i \in 1..(Len(s) - 1), NEW j \in 1..(Len(s) - 1), t[i] = t[j] PROVE i = j
    <3>1. i + 1 \in DOMAIN s /\ j + 1 \in DOMAIN s /\ s[i + 1] = s[j + 1]
      BY <1>1, <2>1
    <3>2. i + 1 = j + 1
      BY <3>1 DEF IsInjective
    <3>3. QED
      BY <1>1, <3>2
  <2>2. QED
    BY <1>1, <2>1 DEF IsInjective
<1>3. Head(s) \in Range(s)
  BY <1>1 DEF Range
<1>4. Range(t) \subseteq Range(s) \ {Head(s)}
  <2>1. ASSUME NEW i \in 1..(Len(s) - 1) PROVE i + 1 \in DOMAIN s /\ i + 1 # 1 /\ s[i + 1] # s[1]
    BY <1>1 DEF IsInjective
  <2>2. ASSUME NEW e \in Range(t) PROVE e \in Range(s) \ {Head(s)}
    <3>1. PICK i \in 1..(Len(s) - 1) : e = s[i + 1]
      BY <1>1, <2>2 DEF Range
    <3>2. i + 1 \in DOMAIN s /\ s[i + 1] # Head(s)
      BY <1>1, <2>1
    <3>3. QED
      BY <3>1, <3>2 DEF Range
  <2>3. QED
    BY <2>2
<1>5. ASSUME NEW j \in 1..Len(s), s[j] # s[1] PROVE s[j] \in Range(t)
  <2>1. j - 1 \in DOMAIN t /\ t[j - 1] = s[j]
    BY <1>1, <1>5
  <2>2. QED
    BY <2>1 DEF Range
<1>6. Range(s) \ {Head(s)} \subseteq Range(t)
  BY <1>1, <1>5 DEF Range
<1>7. QED
  BY <1>1, <1>2, <1>3, <1>4, <1>6 DEF t

LEMMA Appended ==
    ASSUME NEW S, NEW s \in Seq(S), IsInjective(s), NEW e \in S, e \notin Range(s)
    PROVE  /\ Append(s, e) \in Seq(S) /\ IsInjective(Append(s, e))
           /\ Range(Append(s, e)) = Range(s) \cup {e}
<1> DEFINE t == Append(s, e)
<1>1. /\ t \in Seq(S) /\ DOMAIN t = 1..(Len(s) + 1) /\ Len(s) \in Nat /\ DOMAIN s = 1..Len(s)
      /\ \A i \in 1..Len(s) : t[i] = s[i]
      /\ t[Len(s) + 1] = e
  OBVIOUS
<1> HIDE DEF t
<1>2. IsInjective(t)
  BY <1>1 DEF IsInjective, Range
<1>3. Range(t) = Range(s) \cup {e}
  <2>1. Len(s) + 1 \in DOMAIN t
    BY <1>1
  <2>2. \A i \in DOMAIN t : i \in DOMAIN s \/ i = Len(s) + 1
    BY <1>1
  <2>3. DOMAIN s \subseteq DOMAIN t
    BY <1>1
  <2>4. QED
    BY <1>1, <2>1, <2>2, <2>3 DEF Range
<1>4. QED
  BY <1>1, <1>2, <1>3 DEF t

\* The first n elements are taken out.
LEMMA Dropped ==
    ASSUME NEW S, NEW s \in Seq(S), IsInjective(s), NEW n \in 0..Len(s)
    PROVE  /\ SubSeq(s, n + 1, Len(s)) \in Seq(S) /\ IsInjective(SubSeq(s, n + 1, Len(s)))
           /\ Len(SubSeq(s, n + 1, Len(s))) = Len(s) - n
           /\ Range(SubSeq(s, n + 1, Len(s))) = Range(s) \ {s[i] : i \in 1..n}
           /\ n < Len(s) => s[Len(s)] \in Range(SubSeq(s, n + 1, Len(s)))
<1> DEFINE t == SubSeq(s, n + 1, Len(s))
<1>1. Len(s) \in Nat /\ n \in Nat /\ n <= Len(s) /\ DOMAIN s = 1..Len(s)
  OBVIOUS
<1>2. t \in Seq(S) /\ Len(t) = Len(s) - n /\ \A i \in 1..(Len(s) - n) : t[i] = s[n + i]
  <2>1. /\ t \in Seq(S) /\ Len(t) = (IF n + 1 <= Len(s) THEN Len(s) - (n + 1) + 1 ELSE 0)
        /\ \A i \in 1..(Len(s) - (n + 1) + 1) : t[i] = s[n + 1 + i - 1]
    BY <1>1, SubSeqProperties
  <2> HIDE DEF t
  <2>2. ASSUME NEW l \in Nat, n <= l
        PROVE  l - (n + 1) + 1 = l - n /\ (IF n + 1 <= l THEN l - (n + 1) + 1 ELSE 0) = l - n
    BY <1>1, <2>2
  <2>3. Len(s) - (n + 1) + 1 = Len(s) - n /\ Len(t) = Len(s) - n
    BY <1>1, <2>1, <2>2
  <2>4. \A i \in 1..(Len(s) - n) : n + 1 + i - 1 = n + i
    BY <1>1
  <2>5. QED
    BY <2>1, <2>3, <2>4
<1> HIDE DEF t
<1>3. DOMAIN t = 1..(Len(s) - n)
  BY <1>2
<1>4. ASSUME NEW i \in DOMAIN t
      PROVE  n + i \in DOMAIN s /\ t[i] = s[n + i] /\ \A j \in 1..n : s[j] # t[i]
  <2>1. n + i \in DOMAIN s /\ t[i] = s[n + i]
    BY <1>1, <1>2, <1>3
  <2>2. \A j \in 1..n : j \in DOMAIN s /\ j # n + i
    BY <1>1, <1>3
  <2>3. QED
    BY <2>1, <2>2 DEF IsInjective
<1>5. IsInjective(t)
  <2>1. ASSUME NEW i \in DOMAIN t, NEW j \in DOMAIN t, t[i] = t[j] PROVE i = j
    <3>1. n + i = n + j
      BY <1>4, <2>1 DEF IsInjective
    <3>2. QED
      BY <1>1, <1>3, <3>1
  <2>2. QED
    BY <2>1 DEF IsInjective
<1>6. ASSUME NEW i \in DOMAIN s, i > n PROVE s[i] \in Range(t)
  <2>1. i - n \in DOMAIN t /\ t[i - n] = s[i]
    <3>1. i - n \in 1..(Len(s) - n) /\ n + (i - n) = i
      BY <1>1, <1>6
    <3>2. QED
      BY <1>2, <1>3, <3>1
  <2>2. QED
    BY <2>1 DEF Range
<1>7. Range(t) = Range(s) \ {s[i] : i \in 1..n}
  <2>1. Range(t) \subseteq Range(s) \ {s[i] : i \in 1..n}
    BY <1>4 DEF Range
  <2>2. \A i \in DOMAIN s : i > n \/ i \in 1..n
    BY <1>1
  <2>3. Range(s) \ {s[i] : i \in 1..n} \subseteq Range(t)
    BY <1>6, <2>2 DEF Range
  <2>4. QED
    BY <2>1, <2>3
<1>8. n < Len(s) => s[Len(s)] \in Range(t)
  BY <1>1, <1>6
<1>9. QED
  BY <1>2, <1>5, <1>7, <1>8 DEF t

\* The oldest element becomes the newest.
LEMMA Rotated ==
    ASSUME NEW S, NEW s \in Seq(S), IsInjective(s), s # <<>>
    PROVE  /\ Append(Tail(s), Head(s)) \in Seq(S) /\ IsInjective(Append(Tail(s), Head(s)))
           /\ Range(Append(Tail(s), Head(s))) = Range(s)
<1>1. /\ Tail(s) \in Seq(S) /\ IsInjective(Tail(s))
      /\ Head(s) \in Range(s) /\ Range(Tail(s)) = Range(s) \ {Head(s)}
  BY Popped
<1>2. PICK t, e : t = Tail(s) /\ e = Head(s)
  OBVIOUS
<1>3. e \in S
  BY <1>2
<1>4. t \in Seq(S) /\ IsInjective(t) /\ e \notin Range(t)
  BY <1>1, <1>2
<1>5. /\ Append(t, e) \in Seq(S) /\ IsInjective(Append(t, e))
      /\ Range(Append(t, e)) = Range(t) \cup {e}
  BY <1>3, <1>4, Appended
<1>6. Range(t) \cup {e} = Range(s)
  BY <1>1, <1>2
<1>7. QED
  BY <1>2, <1>5, <1>6

-----------------------------------------------------------------------------
(***************************************************************************)
(* Recursive functions over the natural numbers, and lists of lists.       *)
(***************************************************************************)
LEMMA LeastNumber ==
    ASSUME NEW T \in SUBSET Nat, T # {}
    PROVE  \E t \in T : \A y \in T : ~(y < t)
<1>1. PICK t \in T : \A y \in T : ~(<<y, t>> \in OpToRel(<, Nat))
  BY WFMin, NatLessThanWellFounded, Zenon
<1>2. QED
  BY <1>1 DEF OpToRel

\* What holds of 0, and of n + 1 when it holds of n, holds up to N.
LEMMA Climb ==
    ASSUME NEW N \in Nat, NEW T \in SUBSET (0..N), 0 \in T,
           \A n \in 0..N : n < N /\ n \in T => n + 1 \in T
    PROVE  T = 0..N
<1> SUFFICES ASSUME T # 0..N PROVE FALSE
  OBVIOUS
<1>1. (0..N) \ T \in SUBSET Nat /\ (0..N) \ T # {}
  <2>1. 0..N \subseteq Nat
    OBVIOUS
  <2>2. T \subseteq 0..N
    OBVIOUS
  <2> PICK R : R = 0..N
    OBVIOUS
  <2>3. R \ T \subseteq Nat /\ R \ T # {}
    BY <2>1, <2>2, Zenon
  <2>4. QED
    BY <2>3
<1>2. PICK t \in (0..N) \ T : \A y \in (0..N) \ T : ~(y < t)
  BY <1>1, LeastNumber
<1>3. t # 0 /\ t \in Nat /\ t <= N
  BY <1>2
<1>4. t - 1 \in 0..N /\ t - 1 < N /\ t - 1 < t
  BY <1>3
<1>5. t - 1 \in T
  BY <1>2, <1>4
<1>6. t - 1 + 1 \in T
  BY <1>4, <1>5
<1>7. QED
  BY <1>2, <1>3, <1>6

Iterates(g, d0, N, F) == g[0] = d0 /\ \A n \in 1..N : g[n] = F[<<n, g[n - 1]>>]

\* A recursive function over 0..N exists, its step being the function F.
LEMMA Iterated ==
    ASSUME NEW D, NEW d0 \in D, NEW N \in Nat, NEW F \in [(1..N) \X D -> D]
    PROVE  \E g \in [0..N -> D] : Iterates(g, d0, N, F)
<1> DEFINE Iter(g, k) == g[0] = d0 /\ \A n \in 1..k : g[n] = F[<<n, g[n - 1]>>]
           T == {k \in 0..N : \E g \in [0..N -> D] : Iter(g, k)}
<1>1. 0 \in T
  <2>1. PICK g : g = [n \in 0..N |-> d0]
    OBVIOUS
  <2>2. g \in [0..N -> D] /\ Iter(g, 0)
    BY <2>1
  <2> HIDE DEF Iter
  <2>3. QED
    BY <2>2
<1>2. ASSUME NEW k \in 0..N, k < N, k \in T PROVE k + 1 \in T
  <2>1. PICK g \in [0..N -> D] : Iter(g, k)
    BY <1>2
  <2>2. k + 1 \in 1..N /\ k \in 0..N
    BY <1>2
  <2>3. PICK e \in D : e = F[<<k + 1, g[k]>>]
    BY <2>1, <2>2
  <2> DEFINE h == [g EXCEPT ![k + 1] = e]
  <2>4. h \in [0..N -> D]
    BY <2>2
  <2>5. h[0] = d0
    BY <2>1, <2>2
  <2>6. ASSUME NEW n \in 1..(k + 1) PROVE h[n] = F[<<n, h[n - 1]>>]
    <3>1. n - 1 # k + 1 /\ n - 1 \in 0..N /\ n \in 0..N
      BY <2>2
    <3>2. h[n - 1] = g[n - 1]
      BY <3>1
    <3>3. CASE n = k + 1
      <4>1. h[n] = e /\ n - 1 = k
        BY <2>2, <3>3
      <4>2. QED
        BY <2>3, <3>2, <3>3, <4>1
    <3>4. CASE n # k + 1
      <4>1. n \in 1..k /\ h[n] = g[n]
        BY <2>2, <3>1, <3>4
      <4>2. QED
        BY <2>1, <3>2, <4>1
    <3>5. QED
      BY <3>3, <3>4
  <2>7. Iter(h, k + 1)
    BY <2>5, <2>6
  <2>8. k + 1 \in 0..N
    BY <2>2
  <2> HIDE DEF h, Iter
  <2>9. QED
    BY <2>4, <2>7, <2>8
<1>3. T = 0..N
  <2> HIDE DEF T
  <2>1. T \in SUBSET (0..N)
    BY DEF T
  <2>2. QED
    BY <1>1, <1>2, <2>1, Climb
<1>4. PICK g \in [0..N -> D] : Iter(g, N)
  <2> HIDE DEF Iter
  <2>1. N \in T
    BY <1>3
  <2>2. QED
    BY <2>1
<1>5. QED
  BY <1>4 DEF Iterates

\* Two lists of different elements, one behind the other.
LEMMA Joined ==
    ASSUME NEW S, NEW s \in Seq(S), NEW t \in Seq(S), IsInjective(s), IsInjective(t),
           Range(s) \cap Range(t) = {}
    PROVE  /\ s \o t \in Seq(S) /\ IsInjective(s \o t)
           /\ Range(s \o t) = Range(s) \cup Range(t) /\ Len(s \o t) = Len(s) + Len(t)
<1> DEFINE u == s \o t
<1>1. /\ u \in Seq(S) /\ Len(u) = Len(s) + Len(t)
      /\ \A i \in 1 .. Len(s) + Len(t) : u[i] = IF i <= Len(s) THEN s[i] ELSE t[i - Len(s)]
  BY ConcatProperties
<1>2. Range(u) = Range(s) \cup Range(t)
  BY RangeConcatenation
<1> HIDE DEF u
<1>3. /\ DOMAIN u = 1..(Len(s) + Len(t)) /\ DOMAIN s = 1..Len(s) /\ DOMAIN t = 1..Len(t)
      /\ Len(s) \in Nat /\ Len(t) \in Nat
  BY <1>1
<1>4. \A i \in DOMAIN u : IF i <= Len(s) THEN i \in DOMAIN s ELSE i - Len(s) \in DOMAIN t
  BY <1>3
<1>5. \A i \in DOMAIN s, j \in DOMAIN t : s[i] # t[j]
  BY DEF Range
<1>6. IsInjective(u)
  <2>1. ASSUME NEW i \in DOMAIN u, NEW j \in DOMAIN u, u[i] = u[j] PROVE i = j
    <3>1. CASE i <= Len(s) /\ j <= Len(s)
      BY <1>1, <1>3, <1>4, <2>1, <3>1 DEF IsInjective
    <3>2. CASE ~(i <= Len(s)) /\ ~(j <= Len(s))
      <4>1. i - Len(s) \in DOMAIN t /\ j - Len(s) \in DOMAIN t /\ t[i - Len(s)] = t[j - Len(s)]
        BY <1>1, <1>3, <1>4, <2>1, <3>2
      <4>2. i - Len(s) = j - Len(s)
        BY <4>1 DEF IsInjective
      <4>3. QED
        BY <1>3, <4>2
    <3>3. CASE i <= Len(s) /\ ~(j <= Len(s))
      BY <1>1, <1>3, <1>4, <1>5, <2>1, <3>3
    <3>4. CASE ~(i <= Len(s)) /\ j <= Len(s)
      BY <1>1, <1>3, <1>4, <1>5, <2>1, <3>4
    <3>5. QED
      BY <3>1, <3>2, <3>3, <3>4
  <2>2. QED
    BY <2>1 DEF IsInjective
<1>7. QED
  BY <1>1, <1>2, <1>6 DEF u

LEMMA AppendRange ==
    ASSUME NEW S, NEW s \in Seq(S), NEW e \in S
    PROVE  Append(s, e) \in Seq(S) /\ Range(Append(s, e)) = Range(s) \cup {e}
<1> DEFINE t == Append(s, e)
<1>1. /\ t \in Seq(S) /\ DOMAIN t = 1..(Len(s) + 1) /\ Len(s) \in Nat /\ DOMAIN s = 1..Len(s)
      /\ \A i \in 1..Len(s) : t[i] = s[i]
      /\ t[Len(s) + 1] = e
  OBVIOUS
<1> HIDE DEF t
<1>2. Len(s) + 1 \in DOMAIN t /\ (\A i \in DOMAIN t : i \in DOMAIN s \/ i = Len(s) + 1) /\ DOMAIN s \subseteq DOMAIN t
  BY <1>1
<1>3. Range(t) = Range(s) \cup {e}
  BY <1>1, <1>2 DEF Range
<1>4. QED
  BY <1>1, <1>3 DEF t

\* What is selected from a list.
LEMMA ThoseOf ==
    ASSUME NEW X, NEW s \in Seq(X), NEW S
    PROVE  /\ Those(s, S) \in Seq(X) /\ Range(Those(s, S)) = Range(s) \cap S
           /\ IsInjective(s) => IsInjective(Those(s, S))
<1> DEFINE N == Len(s)
           those[n \in 0..N] ==
              IF n = 0 THEN << >> ELSE IF s[n] \in S THEN Append(those[n - 1], s[n]) ELSE those[n - 1]
           F == [p \in (1..N) \X Seq(X) |-> IF s[p[1]] \in S THEN Append(p[2], s[p[1]]) ELSE p[2]]
<1>1. N \in Nat /\ DOMAIN s = 1..N /\ \A i \in 1..N : s[i] \in X
  OBVIOUS
<1>11. \E g \in [0..N -> Seq(X)] : Iterates(g, << >>, N, F)
  <2>1. F \in [(1..N) \X Seq(X) -> Seq(X)]
    <3>1. \A p \in (1..N) \X Seq(X) : (IF s[p[1]] \in S THEN Append(p[2], s[p[1]]) ELSE p[2]) \in Seq(X)
      <4> TAKE p \in (1..N) \X Seq(X)
      <4>1. p[1] \in 1..N /\ p[2] \in Seq(X) /\ s[p[1]] \in X
        BY <1>1
      <4>2. Append(p[2], s[p[1]]) \in Seq(X)
        BY <4>1
      <4>3. QED
        BY <4>1, <4>2
    <3> HIDE DEF N
    <3>2. QED
      BY <3>1
  <2>2. << >> \in Seq(X)
    OBVIOUS
  <2> HIDE DEF F, N
  <2>3. QED
    BY <1>1, <2>1, <2>2, Iterated
<1>2. PICK g \in [0..N -> Seq(X)] : g[0] = << >> /\ \A n \in 1..N : g[n] = F[<<n, g[n - 1]>>]
  <2> HIDE DEF F
  <2>1. QED
    BY <1>11 DEF Iterates
<1>3. g = [n \in 0..N |-> IF n = 0 THEN << >> ELSE IF s[n] \in S THEN Append(g[n - 1], s[n]) ELSE g[n - 1]]
  <2>1. ASSUME NEW n \in 0..N
        PROVE  g[n] = IF n = 0 THEN << >> ELSE IF s[n] \in S THEN Append(g[n - 1], s[n]) ELSE g[n - 1]
    <3>1. CASE n = 0
      <4> HIDE DEF F
      <4>1. QED
        BY <1>2, <3>1
    <3>2. CASE n # 0
      <4>1. n \in 1..N /\ n - 1 \in 0..N /\ g[n - 1] \in Seq(X)
        BY <1>1, <3>2
      <4>2. g[n] = F[<<n, g[n - 1]>>]
        <5> HIDE DEF F
        <5>1. QED
          BY <1>2, <3>2
      <4>3. QED
        BY <3>2, <4>1, <4>2
    <3>3. QED
      BY <3>1, <3>2
  <2> HIDE DEF F
  <2>2. QED
    BY <1>2, <2>1
<1>4. those = [n \in 0..N |-> IF n = 0 THEN << >>
                              ELSE IF s[n] \in S THEN Append(those[n - 1], s[n]) ELSE those[n - 1]]
  BY <1>3
<1>5. Those(s, S) = those[N]
  BY DEF Those
<1> HIDE DEF those
<1> DEFINE Kept(n) == /\ those[n] \in Seq(X) /\ Range(those[n]) = {s[i] : i \in 1..n} \cap S
                      /\ IsInjective(s) => IsInjective(those[n])
           T == {n \in 0..N : Kept(n)}
<1>6. 0 \in T
  <2>1. those[0] = << >> /\ 0 \in 0..N
    BY <1>1, <1>4
  <2>2. << >> \in Seq(X) /\ IsInjective(<< >>) /\ Range(<< >>) = {} /\ 1..0 = {}
    BY DEF IsInjective, Range
  <2>3. QED
    BY <2>1, <2>2
<1>7. ASSUME NEW n \in 0..N, n < N, n \in T PROVE n + 1 \in T
  <2>1. n + 1 \in 1..N /\ n + 1 \in 0..N /\ n + 1 # 0 /\ n + 1 - 1 = n /\ n \in Nat
    BY <1>1, <1>7
  <2>2. those[n + 1] = IF s[n + 1] \in S THEN Append(those[n], s[n + 1]) ELSE those[n]
    <3>1. those[n + 1] = IF s[n + 1] \in S THEN Append(those[n + 1 - 1], s[n + 1]) ELSE those[n + 1 - 1]
      <4>1. \A i \in 0..N : those[i] = IF i = 0 THEN << >> ELSE IF s[i] \in S THEN Append(those[i - 1], s[i])
                                       ELSE those[i - 1]
        <5> HIDE DEF N
        <5>1. QED
          BY <1>4
      <4> HIDE DEF N
      <4>2. QED
        BY <2>1, <4>1
    <3>2. QED
      BY <2>1, <3>1
  <2>3. {s[i] : i \in 1..(n + 1)} = {s[i] : i \in 1..n} \cup {s[n + 1]}
    <3>1. 1..(n + 1) = 1..n \cup {n + 1}
      BY <2>1
    <3>2. QED
      BY <3>1
  <2>4. Kept(n)
    BY <1>7
  <2>5. PICK t, e : t = those[n] /\ e = s[n + 1]
    OBVIOUS
  <2>6. t \in Seq(X) /\ e \in X
    BY <1>1, <2>1, <2>4, <2>5
  <2>7. CASE e \in S
    <3>1. those[n + 1] = Append(t, e)
      BY <2>2, <2>5, <2>7
    <3>2. Range(Append(t, e)) = Range(t) \cup {e} /\ Append(t, e) \in Seq(X)
      BY <2>6, AppendRange
    <3>3. IsInjective(s) => IsInjective(Append(t, e))
      <4> SUFFICES ASSUME IsInjective(s) PROVE IsInjective(Append(t, e))
        OBVIOUS
      <4>1. e \notin Range(t)
        <5>1. \A i \in 1..n : i \in DOMAIN s /\ n + 1 \in DOMAIN s /\ i # n + 1
          BY <1>1, <2>1
        <5>2. \A i \in 1..n : s[i] # s[n + 1]
          BY <5>1 DEF IsInjective
        <5>3. QED
          BY <2>4, <2>5, <5>2
      <4>2. IsInjective(t)
        BY <2>4, <2>5
      <4>3. QED
        BY <2>6, <4>1, <4>2, Appended
    <3>4. Range(t) \cup {e} = {s[i] : i \in 1..(n + 1)} \cap S
      BY <2>3, <2>4, <2>5, <2>7
    <3>5. Kept(n + 1)
      BY <3>1, <3>2, <3>3, <3>4
    <3>6. QED
      BY <2>1, <3>5
  <2>8. CASE e \notin S
    <3>1. those[n + 1] = t
      BY <2>2, <2>5, <2>8
    <3>2. Kept(n + 1)
      BY <2>3, <2>4, <2>5, <2>8, <3>1
    <3>3. QED
      BY <2>1, <3>2
  <2>9. QED
    BY <2>7, <2>8
<1>8. N \in T
  <2>1. T \in SUBSET (0..N)
    OBVIOUS
  <2> HIDE DEF T, N
  <2>2. T = 0..N
    BY <1>1, <1>6, <1>7, <2>1, Climb
  <2>3. QED
    BY <1>1, <2>2
<1>9. {s[i] : i \in 1..N} = Range(s)
  BY <1>1 DEF Range
<1>10. QED
  BY <1>5, <1>8, <1>9

\* A list of lists is flattened by appending one after the other.
Flattens(h, ss) ==
    /\ h[1] = ss[1] /\ h[Len(ss)] = FlattenSeq(ss)
    /\ \A m \in 1..Len(ss) : m < Len(ss) => h[m + 1] = h[m] \o ss[m + 1]

LEMMA Flattening ==
    ASSUME NEW S, NEW ss \in Seq(Seq(S)), Len(ss) # 0
    PROVE  \E h : Flattens(h, ss)
<1> DEFINE N == Len(ss)
<1>11. N \in Nat /\ DOMAIN ss = 1..N /\ \A i \in 1..N : ss[i] \in Seq(S)
  OBVIOUS
<1>12. N # 0
  OBVIOUS
<1> DEFINE flatten[i \in 1..N] == IF i = 1 THEN ss[i] ELSE flatten[i - 1] \o ss[i]
           F == [p \in (1..N) \X Seq(S) |-> IF p[1] = 1 THEN ss[1] ELSE p[2] \o ss[p[1]]]
<1>1. F \in [(1..N) \X Seq(S) -> Seq(S)]
  <2>1. \A p \in (1..N) \X Seq(S) : (IF p[1] = 1 THEN ss[1] ELSE p[2] \o ss[p[1]]) \in Seq(S)
    <3> TAKE p \in (1..N) \X Seq(S)
    <3>1. p[1] \in 1..N /\ p[2] \in Seq(S) /\ ss[p[1]] \in Seq(S) /\ ss[1] \in Seq(S)
      BY <1>11, <1>12
    <3>2. p[2] \o ss[p[1]] \in Seq(S)
      BY <3>1, ConcatProperties
    <3>3. QED
      BY <3>1, <3>2
  <2> HIDE DEF N
  <2>2. QED
    BY <2>1
<1>2. \E g \in [0..N -> Seq(S)] : Iterates(g, << >>, N, F)
  <2>1. << >> \in Seq(S)
    OBVIOUS
  <2> HIDE DEF F, N
  <2>2. QED
    BY <1>11, <1>1, <2>1, Iterated
<1>3. PICK g \in [0..N -> Seq(S)] : g[0] = << >> /\ \A n \in 1..N : g[n] = F[<<n, g[n - 1]>>]
  <2> HIDE DEF F
  <2>1. QED
    BY <1>2 DEF Iterates
<1>4. PICK h : h = [i \in 1..N |-> g[i]]
  OBVIOUS
<1>5. h = [i \in 1..N |-> IF i = 1 THEN ss[i] ELSE h[i - 1] \o ss[i]]
  <2>1. ASSUME NEW i \in 1..N PROVE g[i] = IF i = 1 THEN ss[i] ELSE h[i - 1] \o ss[i]
    <3>1. i \in 0..N /\ i # 0 /\ i - 1 \in 0..N /\ g[i - 1] \in Seq(S)
      <4> HIDE DEF N, F
      <4>1. i \in 0..N /\ i # 0 /\ i - 1 \in 0..N
        BY <1>11
      <4>2. QED
        BY <4>1
    <3>2. g[i] = F[<<i, g[i - 1]>>]
      <4> HIDE DEF F
      <4>1. QED
        BY <1>3, <3>1
    <3>3. F[<<i, g[i - 1]>>] = IF i = 1 THEN ss[1] ELSE g[i - 1] \o ss[i]
      BY <3>1
    <3>4. i # 1 => h[i - 1] = g[i - 1]
      BY <1>11, <1>4
    <3>5. QED
      BY <3>2, <3>3, <3>4
  <2>2. QED
    BY <1>4, <2>1
<1>6. flatten = [i \in 1..N |-> IF i = 1 THEN ss[i] ELSE flatten[i - 1] \o ss[i]]
  BY <1>5
<1>7. FlattenSeq(ss) = flatten[N]
  BY <1>12 DEF FlattenSeq
<1> HIDE DEF flatten
<1>8. flatten[1] = ss[1] /\ \A m \in 1..N : m < N => flatten[m + 1] = flatten[m] \o ss[m + 1]
  <2>1. \A i \in 1..N : flatten[i] = IF i = 1 THEN ss[i] ELSE flatten[i - 1] \o ss[i]
    <3> HIDE DEF N, F
    <3>1. QED
      BY <1>6
  <2>2. 1 \in 1..N
    BY <1>11, <1>12
  <2>3. ASSUME NEW m \in 1..N, m < N PROVE flatten[m + 1] = flatten[m] \o ss[m + 1]
    <3>1. PICK l : l = m + 1
      OBVIOUS
    <3>2. l \in 1..N /\ l # 1 /\ l - 1 = m
      BY <1>11, <2>3, <3>1
    <3>3. flatten[l] = flatten[l - 1] \o ss[l]
      BY <2>1, <3>2, Zenon
    <3>4. flatten[l] = flatten[m] \o ss[l]
      BY <3>2, <3>3, Zenon
    <3>5. QED
      BY <3>1, <3>4, Zenon
  <2>4. QED
    BY <2>1, <2>2, <2>3
<1>9. QED
  BY <1>7, <1>8 DEF Flattens

LEMMA Flattened ==
    ASSUME NEW S, NEW ss \in Seq(Seq(S)),
           \A i \in DOMAIN ss : IsInjective(ss[i]),
           \A i, j \in DOMAIN ss : i # j => Range(ss[i]) \cap Range(ss[j]) = {}
    PROVE  /\ FlattenSeq(ss) \in Seq(S) /\ IsInjective(FlattenSeq(ss))
           /\ Range(FlattenSeq(ss)) = UNION {Range(ss[i]) : i \in DOMAIN ss}
<1> DEFINE N == Len(ss)
<1>1. N \in Nat /\ DOMAIN ss = 1..N /\ \A i \in 1..N : ss[i] \in Seq(S)
  OBVIOUS
<1>2. CASE N = 0
  <2>1. ss = << >> /\ FlattenSeq(ss) = << >> /\ DOMAIN ss = {}
    BY <1>2 DEF FlattenSeq
  <2>2. << >> \in Seq(S) /\ IsInjective(<< >>) /\ Range(<< >>) = {}
    BY DEF IsInjective, Range
  <2>3. QED
    BY <2>1, <2>2
<1>3. CASE N # 0
  <2>1. PICK flatten : Flattens(flatten, ss)
    BY <1>1, <1>3, Flattening
  <2>2. FlattenSeq(ss) = flatten[N] /\ flatten[1] = ss[1]
    BY <2>1 DEF Flattens
  <2> DEFINE Flat(i) == /\ flatten[i] \in Seq(S) /\ IsInjective(flatten[i])
                        /\ Range(flatten[i]) = UNION {Range(ss[j]) : j \in 1..i}
             T == {k \in 0..(N - 1) : Flat(k + 1)}
  <2>3. 0 \in T
    <3>1. flatten[1] = ss[1] /\ 1 \in 1..N
      BY <1>1, <1>3, <2>2
    <3>2. UNION {Range(ss[j]) : j \in 1..1} = Range(ss[1])
      <4>1. 1..1 = {1}
        OBVIOUS
      <4>2. QED
        BY <4>1
    <3>3. Flat(1)
      BY <1>1, <3>1, <3>2
    <3>4. 0 \in 0..(N - 1) /\ 0 + 1 = 1
      BY <1>1, <1>3
    <3> HIDE DEF Flat
    <3>5. QED
      BY <3>3, <3>4
  <2>4. ASSUME NEW k \in 0..(N - 1), k < N - 1, k \in T PROVE k + 1 \in T
    <3>1. PICK m : m = k + 1
      OBVIOUS
    <3>2. m \in 1..N /\ m + 1 \in 1..N /\ m + 1 # 1 /\ m + 1 - 1 = m
      BY <1>1, <2>4, <3>1
    <3>3. Flat(m)
      BY <2>4, <3>1
    <3>4. flatten[m + 1] = flatten[m] \o ss[m + 1]
      <4>1. m \in 1..Len(ss) /\ m < Len(ss)
        <5> HIDE DEF T
        <5>1. QED
          BY <1>1, <2>4, <3>1, <3>2
      <4>2. QED
        BY <2>1, <4>1, Zenon DEF Flattens
    <3>5. Range(flatten[m]) \cap Range(ss[m + 1]) = {}
      <4>1. \A j \in 1..m : j \in DOMAIN ss /\ j # m + 1
        BY <1>1, <3>2
      <4>2. \A j \in 1..m : Range(ss[j]) \cap Range(ss[m + 1]) = {}
        BY <1>1, <3>2, <4>1
      <4>3. QED
        BY <3>3, <4>2
    <3>6. ss[m + 1] \in Seq(S) /\ IsInjective(ss[m + 1])
      BY <1>1, <3>2
    <3>7. /\ flatten[m] \o ss[m + 1] \in Seq(S) /\ IsInjective(flatten[m] \o ss[m + 1])
          /\ Range(flatten[m] \o ss[m + 1]) = Range(flatten[m]) \cup Range(ss[m + 1])
      <4>1. flatten[m] \in Seq(S) /\ IsInjective(flatten[m])
        BY <3>3
      <4>2. QED
        BY <3>5, <3>6, <4>1, Joined
    <3>8. UNION {Range(ss[j]) : j \in 1..(m + 1)} = (UNION {Range(ss[j]) : j \in 1..m}) \cup Range(ss[m + 1])
      <4>1. PICK A, B, l : A = 1..m /\ B = 1..(m + 1) /\ l = m + 1
        OBVIOUS
      <4>2. B = A \cup {l}
        BY <3>2, <4>1
      <4>3. UNION {Range(ss[j]) : j \in B} = (UNION {Range(ss[j]) : j \in A}) \cup Range(ss[l])
        BY <4>2
      <4>4. QED
        BY <4>1, <4>3
    <3>9. Flat(m + 1)
      <4>1. flatten[m + 1] \in Seq(S) /\ IsInjective(flatten[m + 1])
        BY <3>4, <3>7
      <4>2. Range(flatten[m + 1]) = UNION {Range(ss[j]) : j \in 1..(m + 1)}
        BY <3>3, <3>4, <3>7, <3>8
      <4>3. QED
        BY <4>1, <4>2
    <3>10. k + 1 \in 0..(N - 1) /\ k + 1 + 1 = m + 1
      BY <1>1, <2>4, <3>1
    <3> HIDE DEF Flat
    <3>11. QED
      BY <3>9, <3>10
  <2>5. T = 0..(N - 1)
    <3>1. N - 1 \in Nat /\ T \in SUBSET (0..(N - 1))
      BY <1>1, <1>3
    <3> HIDE DEF T, N
    <3>2. QED
      BY <2>3, <2>4, <3>1, Climb
  <2>6. Flat(N)
    <3>1. N - 1 \in 0..(N - 1) /\ N - 1 + 1 = N
      BY <1>1, <1>3
    <3> HIDE DEF Flat
    <3>2. N - 1 \in T
      BY <2>5, <3>1
    <3>3. Flat(N - 1 + 1)
      BY <3>2
    <3>4. QED
      BY <3>1, <3>3
  <2>7. QED
    BY <1>1, <2>2, <2>6
<1>4. QED
  BY <1>2, <1>3
==============================================================================
