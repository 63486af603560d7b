--------------------------- MODULE OpDedupProofs ---------------------------
(***************************************************************************)
(* The ring of op-ids, for any op-ids and any size: used with protection,  *)
(* nothing is granted twice however often a source is replayed, the ring   *)
(* is over its size only by what is protected, and evict goes by age; as   *)
(* the lobby uses it, a login gets back the ring that was stored.  All of  *)
(* it comes from what the loop of evict does to a ring (EvictFacts).       *)
(***************************************************************************)
EXTENDS OpDedup, SequenceTheorems, WellFoundedInduction, TLAPS

\* A leaf that names no prover goes to Zenon first and then to the SMT solver.
USE ZenonT(2), SMTT(30), ZenonT(30)

-----------------------------------------------------------------------------
(* Induction and recursion over the rounds of a loop *)

\* A set of natural numbers has a least one.
LEMMA Least ==
    ASSUME NEW T, T \subseteq Nat, T # {}
    PROVE  \E n \in T : \A m \in T : n <= m
<1>1. IsWellFoundedOn(OpToRel(<, Nat), Nat)
  BY NatLessThanWellFounded
<1>2. PICK n \in T : \A m \in T : ~(<<m, n>> \in OpToRel(<, Nat))
  BY <1>1, WFMin, Zenon
<1>3. \A m \in T : ~(m < n)
  BY <1>2 DEF OpToRel
<1> QED
  BY <1>3

\* What holds of 0, and of each number of 1..N with the one before it, holds of
\* all numbers of 0..N.
LEMMA UpTo ==
    ASSUME NEW N \in Nat, NEW T, 0 \in T, \A n \in 1..N : n - 1 \in T => n \in T
    PROVE  0..N \subseteq T
<1> SUFFICES ASSUME (0..N) \ T # {} PROVE FALSE
  OBVIOUS
<1>1. PICK n \in (0..N) \ T : \A m \in (0..N) \ T : n <= m
  <2> DEFINE U == (0..N) \ T
  <2>1. U \subseteq Nat /\ U # {}
    OBVIOUS
  <2> HIDE DEF U
  <2>2. \E n \in U : \A m \in U : n <= m
    BY <2>1, Least
  <2> QED
    BY <2>2 DEF U
<1>2. n \in 1..N /\ n - 1 \in 0..N
  BY <1>1
<1>3. n - 1 \in T
  BY <1>1, <1>2
<1> QED
  BY <1>1, <1>2, <1>3

\* f follows a recursion: it starts with a, and step gives each value from the
\* one before.
Follows(f, N, a, step) == f[0] = a /\ \A k \in 1..N : f[k] = step[k][f[k - 1]]

\* Functions of 0..N may be defined by recursion.
LEMMA Recursion ==
    ASSUME NEW N \in Nat, NEW S, NEW a \in S, NEW step \in [1..N -> [S -> S]]
    PROVE  \E f \in [0..N -> S] : Follows(f, N, a, step)
<1> DEFINE T == {n \in 0..N : \E g \in [0..n -> S] : Follows(g, n, a, step)}
<1>1. 0 \in T
  <2> DEFINE g == [k \in 0..0 |-> a]
  <2>1. g \in [0..0 -> S] /\ Follows(g, 0, a, step)
    BY DEF Follows
  <2> HIDE DEF g
  <2> QED
    BY <2>1
<1>2. ASSUME NEW n \in 1..N, n - 1 \in T PROVE n \in T
  <2>1. PICK g \in [0..n-1 -> S] : Follows(g, n - 1, a, step)
    BY <1>2
  <2> DEFINE b == step[n][g[n - 1]]
             h == [k \in 0..n |-> IF k = n THEN b ELSE g[k]]
  <2>2. b \in S
    OBVIOUS
  <2>3. h \in [0..n -> S] /\ h[0] = a /\ h[n] = b /\ \A k \in 0..n-1 : h[k] = g[k]
    BY <2>1, <2>2 DEF Follows
  <2> HIDE DEF h
  <2>4. ASSUME NEW k \in 1..n PROVE h[k] = step[k][h[k - 1]]
    <3>1. k - 1 \in 0..n-1
      OBVIOUS
    <3>2. CASE k = n
      BY <2>3, <3>1, <3>2
    <3>3. CASE k # n
      BY <2>1, <2>3, <3>1, <3>3 DEF Follows
    <3> QED
      BY <3>2, <3>3
  <2>5. Follows(h, n, a, step)
    BY <2>3, <2>4 DEF Follows
  <2> QED
    BY <2>3, <2>5
<1> HIDE DEF T
<1>3. 0..N \subseteq T
  BY <1>1, <1>2, UpTo
<1> QED
  BY <1>3 DEF T

-----------------------------------------------------------------------------
(* evict *)

\* A ring of op-ids without repetitions.
Rings == {s \in Seq(Ops) : IsInjective(s)}

\* t is what n rounds of evict have left of s.
Left(s, p, n, t) ==
    /\ t \in Rings
    /\ Range(t) \subseteq Range(s)
    /\ Range(s) \cap p \subseteq Range(t)
    /\ \A a, b \in DOMAIN t : a < b => \E i, j \in DOMAIN s : i < j /\ s[i] = t[a] /\ s[j] = t[b]
    /\ \A i, j \in DOMAIN s :
          i < j /\ s[i] \notin p /\ s[j] \notin p /\ s[i] \in Range(t) => s[j] \in Range(t)
    /\ Len(t) <= max \/ Range(t) \subseteq p \/ Len(t) <= Len(s) - n
    /\ Len(s) <= max => t = s

\* The first op-id that is not protected is found if there is one.
LEMMA OldestFacts ==
    ASSUME NEW t \in Seq(Ops), NEW p, ~(Range(t) \subseteq p)
    PROVE  /\ oldest(t, p) \in DOMAIN t /\ t[oldest(t, p)] \notin p
           /\ \A j \in 1..(oldest(t, p) - 1) : t[j] \in p
<1> DEFINE T == {i \in DOMAIN t : t[i] \notin p}
           First(i) == t[i] \notin p /\ \A j \in 1..(i - 1) : t[j] \in p
<1>1. T \subseteq Nat /\ T # {}
  BY DEF Range
<1>2. PICK i \in T : \A j \in T : i <= j
  <2> HIDE DEF T
  <2> QED
    BY <1>1, Least
<1>3. i \in DOMAIN t /\ First(i)
  <2>1. i \in DOMAIN t /\ t[i] \notin p /\ i \in Nat /\ DOMAIN t = 1..Len(t) /\ Len(t) \in Nat
    BY <1>2
  <2>2. ASSUME NEW j \in 1..(i - 1), t[j] \notin p PROVE FALSE
    <3>1. j \in T
      BY <2>1, <2>2
    <3> QED
      BY <1>2, <2>1, <2>2, <3>1
  <2> QED
    BY <2>1, <2>2
<1> HIDE DEF First
<1>4. (CHOOSE k \in DOMAIN t : First(k)) \in DOMAIN t /\ First(CHOOSE k \in DOMAIN t : First(k))
  BY <1>3
<1> QED
  BY <1>4 DEF oldest, First

\* r is what is left of the sequence t without its i-th element.
Cut(t, i, r) ==
    /\ r \in Seq(Ops) /\ Len(r) = Len(t) - 1
    /\ \A a \in DOMAIN r : LET b == IF a < i THEN a ELSE a + 1 IN
          b \in DOMAIN t /\ b # i /\ r[a] = t[b]
    /\ \A b \in DOMAIN t \ {i} : t[b] \in Range(r)

\* The part of t from m to n.
LEMMA Part ==
    ASSUME NEW t \in Seq(Ops), NEW m \in 1..(Len(t) + 1), NEW n \in 0..Len(t), n >= m - 1
    PROVE  /\ SubSeq(t, m, n) \in Seq(Ops) /\ Len(SubSeq(t, m, n)) = n - m + 1
           /\ \A a \in 1..(n - m + 1) : SubSeq(t, m, n)[a] = t[m + a - 1]
<1>1. m \in Int /\ n \in Int /\ Len(t) \in Nat /\ \A a \in m..n : t[a] \in Ops
  OBVIOUS
<1>2. /\ SubSeq(t, m, n) \in Seq(Ops)
      /\ Len(SubSeq(t, m, n)) = IF m <= n THEN n - m + 1 ELSE 0
      /\ \A a \in 1..(n - m + 1) : SubSeq(t, m, n)[a] = t[m + a - 1]
  BY <1>1, SubSeqProperties
<1>3. (IF m <= n THEN n - m + 1 ELSE 0) = n - m + 1
  BY <1>1
<1> QED
  BY <1>2, <1>3, Zenon

\* r holds the n elements of t except the i-th.
Without(t, n, i, r) ==
    /\ \A a \in 1..(n - 1) : LET b == IF a < i THEN a ELSE a + 1 IN
          b \in 1..n /\ b # i /\ r[a] = t[b]
    /\ \A b \in (1..n) \ {i} : \E a \in 1..(n - 1) : r[a] = t[b]

\* x and y are the parts of t before and after the i-th of n elements, and r
\* is x followed by y.
Parts(t, n, i, x, y, r) ==
    /\ \A a \in 1..(i - 1) : x[a] = t[1 + a - 1]
    /\ \A a \in 1..(n - (i + 1) + 1) : y[a] = t[(i + 1) + a - 1]
    /\ \A a \in 1..(n - 1) : r[a] = IF a <= i - 1 THEN x[a] ELSE y[a - (i - 1)]

\* The parts before and after the i-th of n elements, joined to r.
LEMMA Joined ==
    ASSUME NEW t, NEW n \in Nat, NEW i \in 1..n, NEW x, NEW y, NEW r, Parts(t, n, i, x, y, r)
    PROVE  Without(t, n, i, r)
<1>1. ASSUME NEW a \in 1..(i - 1) PROVE r[a] = t[a] /\ a \in 1..(n - 1)
  <2>1. a \in 1..(n - 1) /\ a <= i - 1 /\ 1 + a - 1 = a
    OBVIOUS
  <2> QED
    BY <2>1 DEF Parts
<1>2. ASSUME NEW a \in i..(n - 1) PROVE r[a] = t[a + 1] /\ a \in 1..(n - 1)
  <2>1. /\ a \in 1..(n - 1) /\ ~(a <= i - 1)
        /\ a - (i - 1) \in 1..(n - (i + 1) + 1)
        /\ (i + 1) + (a - (i - 1)) - 1 = a + 1
    OBVIOUS
  <2>2. r[a] = y[a - (i - 1)]
    BY <2>1 DEF Parts
  <2>3. y[a - (i - 1)] = t[(i + 1) + (a - (i - 1)) - 1]
    BY <2>1 DEF Parts
  <2> QED
    BY <2>1, <2>2, <2>3
<1>3. ASSUME NEW a \in 1..(n - 1)
      PROVE  LET b == IF a < i THEN a ELSE a + 1 IN b \in 1..n /\ b # i /\ r[a] = t[b]
  <2>1. CASE a < i
    <3>1. a \in 1..(i - 1) /\ a \in 1..n /\ a # i
      BY <2>1
    <3> QED
      BY <1>1, <2>1, <3>1
  <2>2. CASE ~(a < i)
    <3>1. a \in i..(n - 1) /\ a + 1 \in 1..n /\ a + 1 # i
      BY <2>2
    <3> QED
      BY <1>2, <2>2, <3>1
  <2> QED
    BY <2>1, <2>2
<1>4. ASSUME NEW b \in (1..n) \ {i} PROVE \E a \in 1..(n - 1) : r[a] = t[b]
  <2>1. CASE b < i
    <3>1. b \in 1..(i - 1)
      BY <2>1
    <3> QED
      BY <1>1, <3>1
  <2>2. CASE ~(b < i)
    <3>1. b - 1 \in i..(n - 1) /\ (b - 1) + 1 = b
      BY <2>2
    <3>2. r[b - 1] = t[b] /\ b - 1 \in 1..(n - 1)
      BY <1>2, <3>1
    <3> QED
      BY <3>2
  <2> QED
    BY <2>1, <2>2
<1> QED
  BY <1>3, <1>4 DEF Without

\* What is left of a sequence without its i-th element.
LEMMA CutFacts ==
    ASSUME NEW t \in Seq(Ops), NEW i \in DOMAIN t
    PROVE  Cut(t, i, SubSeq(t, 1, i - 1) \o SubSeq(t, i + 1, Len(t)))
<1> DEFINE n == Len(t)
           x == SubSeq(t, 1, i - 1)
           y == SubSeq(t, i + 1, n)
           r == x \o y
<1>0. i \in 1..n /\ n \in Nat /\ DOMAIN t = 1..n
  OBVIOUS
<1> HIDE DEF n
<1>1. x \in Seq(Ops) /\ Len(x) = i - 1 /\ \A a \in 1..(i - 1) : x[a] = t[1 + a - 1]
  <2> DEFINE m == i - 1
  <2>1. 1 \in 1..(n + 1) /\ m \in 0..n /\ m >= 1 - 1 /\ m - 1 + 1 = m
    BY <1>0
  <2> HIDE DEF m
  <2>2. /\ SubSeq(t, 1, m) \in Seq(Ops) /\ Len(SubSeq(t, 1, m)) = m - 1 + 1
        /\ \A a \in 1..(m - 1 + 1) : SubSeq(t, 1, m)[a] = t[1 + a - 1]
    BY <2>1, Part DEF n
  <2> QED
    BY <2>1, <2>2, Zenon DEF m
<1>2. /\ y \in Seq(Ops) /\ Len(y) = n - (i + 1) + 1
      /\ \A a \in 1..(n - (i + 1) + 1) : y[a] = t[(i + 1) + a - 1]
  <2> DEFINE m == i + 1
  <2>1. m \in 1..(n + 1) /\ n \in 0..n /\ n >= m - 1
    BY <1>0
  <2> HIDE DEF m
  <2>2. /\ SubSeq(t, m, n) \in Seq(Ops) /\ Len(SubSeq(t, m, n)) = n - m + 1
        /\ \A a \in 1..(n - m + 1) : SubSeq(t, m, n)[a] = t[m + a - 1]
    BY <2>1, Part DEF n
  <2> QED
    BY <2>2, Zenon DEF m
<1> HIDE DEF x, y
<1>3. /\ r \in Seq(Ops) /\ Len(r) = Len(x) + Len(y)
      /\ \A a \in 1..(Len(x) + Len(y)) : r[a] = IF a <= Len(x) THEN x[a] ELSE y[a - Len(x)]
  BY <1>1, <1>2, ConcatProperties, Zenon
<1> HIDE DEF r
<1>4. Len(x) + Len(y) = n - 1
  BY <1>0, <1>1, <1>2
<1>5. \A a \in 1..(n - 1) : r[a] = IF a <= i - 1 THEN x[a] ELSE y[a - (i - 1)]
  BY <1>1, <1>3, <1>4, Zenon
<1>6. Without(t, n, i, r)
  <2>1. Parts(t, n, i, x, y, r)
    BY <1>1, <1>2, <1>5, Zenon DEF Parts
  <2> QED
    BY <1>0, <2>1, Joined, Zenon
<1>7. DOMAIN r = 1..(n - 1) /\ Len(r) = n - 1
  <2>1. DOMAIN r = 1..Len(r)
    BY <1>3, LenProperties, Zenon
  <2> QED
    BY <1>3, <1>4, <2>1, Zenon
<1>8. Cut(t, i, r)
  BY <1>0, <1>3, <1>6, <1>7, Zenon DEF Cut, Range, Without, n
<1> QED
  BY <1>8, Zenon DEF r, x, y, n

\* One round takes the oldest op-id that is not protected, if there are too
\* many.
LEMMA EvictOneFacts ==
    ASSUME NEW s \in Rings, NEW p, NEW n \in 1..Len(s), NEW t, Left(s, p, n - 1, t)
    PROVE  Left(s, p, n, evictOne(t, p))
<1>0. /\ t \in Seq(Ops) /\ IsInjective(t) /\ s \in Seq(Ops) /\ IsInjective(s)
      /\ Len(t) \in Nat /\ Len(s) \in Nat /\ DOMAIN t = 1..Len(t) /\ DOMAIN s = 1..Len(s)
      /\ n \in Nat /\ max \in Nat /\ max > 0
  BY OpDedupAssumption DEF Left, Rings
<1>1. CASE ~(Len(t) > max /\ ~(Range(t) \subseteq p))
  <2>1. evictOne(t, p) = t
    BY <1>1 DEF evictOne
  <2>2. Len(t) <= max \/ Range(t) \subseteq p
    BY <1>0, <1>1
  <2> QED
    BY <2>1, <2>2 DEF Left
<1>2. CASE Len(t) > max /\ ~(Range(t) \subseteq p)
  <2> DEFINE i == oldest(t, p)
             r == SubSeq(t, 1, i - 1) \o SubSeq(t, i + 1, Len(t))
  <2>1. evictOne(t, p) = r
    BY <1>2 DEF evictOne
  <2>2. i \in DOMAIN t /\ t[i] \notin p /\ \A j \in 1..(i - 1) : t[j] \in p
    BY <1>0, <1>2, OldestFacts
  <2> HIDE DEF i
  <2>3. /\ r \in Seq(Ops) /\ Len(r) = Len(t) - 1
        /\ \A a \in DOMAIN r : LET b == IF a < i THEN a ELSE a + 1 IN
                 b \in DOMAIN t /\ b # i /\ r[a] = t[b]
        /\ \A b \in DOMAIN t \ {i} : t[b] \in Range(r)
    <3>1. Cut(t, i, r)
      BY <1>0, <2>2, CutFacts, Zenon
    <3> QED
      BY <3>1, Zenon DEF Cut
  <2> HIDE DEF r
  <2>4. DOMAIN r = 1..(Len(t) - 1) /\ i \in Nat
    BY <1>0, <2>2, <2>3
  <2> DEFINE from(a) == IF a < i THEN a ELSE a + 1
  <2>5. ASSUME NEW a \in DOMAIN r
        PROVE  from(a) \in DOMAIN t /\ from(a) # i /\ r[a] = t[from(a)]
    BY <2>3
  <2>6. \A a, b \in DOMAIN r : a < b => from(a) < from(b)
    BY <1>0, <2>4
  <2>7. \A a, b \in DOMAIN r : from(a) = from(b) => a = b
    BY <1>0, <2>4
  <2> HIDE DEF from
  <2>8. IsInjective(r)
    BY <1>0, <2>5, <2>7 DEF IsInjective
  <2>9. Range(r) \subseteq Range(t) \ {t[i]}
    <3> SUFFICES ASSUME NEW a \in DOMAIN r PROVE r[a] \in Range(t) \ {t[i]}
      BY DEF Range
    <3>1. r[a] \in Range(t)
      BY <2>5 DEF Range
    <3>2. r[a] # t[i]
      BY <1>0, <2>2, <2>5 DEF IsInjective
    <3> QED
      BY <3>1, <3>2
  <2>10. Range(t) \ {t[i]} \subseteq Range(r)
    BY <2>3 DEF Range
  <2>11. Range(r) \subseteq Range(s) /\ Range(s) \cap p \subseteq Range(r)
    BY <2>2, <2>9, <2>10 DEF Left
  <2>12. ASSUME NEW a \in DOMAIN r, NEW b \in DOMAIN r, a < b
         PROVE  \E k, l \in DOMAIN s : k < l /\ s[k] = r[a] /\ s[l] = r[b]
    <3>1. /\ from(a) \in DOMAIN t /\ from(b) \in DOMAIN t /\ from(a) < from(b)
          /\ r[a] = t[from(a)] /\ r[b] = t[from(b)]
      BY <2>5, <2>6, <2>12
    <3> QED
      BY <3>1 DEF Left
  <2>13. ASSUME NEW k \in DOMAIN s, NEW l \in DOMAIN s,
                k < l, s[k] \notin p, s[l] \notin p, s[k] \in Range(r), s[l] \notin Range(r)
         PROVE  FALSE
    <3>1. s[k] \in Range(t) /\ s[l] \in Range(t)
      BY <2>9, <2>13 DEF Left
    <3>2. s[l] = t[i]
      BY <2>10, <2>13, <3>1
    <3>3. PICK a \in DOMAIN t : t[a] = s[k]
      BY <3>1 DEF Range
    <3>4. a # i /\ ~(a \in 1..(i - 1))
      BY <2>2, <2>9, <2>13, <3>3
    <3>5. i < a
      BY <1>0, <2>4, <3>4
    <3>6. PICK k2 \in DOMAIN s, l2 \in DOMAIN s : k2 < l2 /\ s[k2] = t[i] /\ s[l2] = t[a]
      BY <2>2, <3>5 DEF Left
    <3>7. k2 = l /\ l2 = k
      BY <1>0, <3>2, <3>3, <3>6 DEF IsInjective
    <3> QED
      BY <1>0, <2>13, <3>6, <3>7
  <2>14. Len(r) <= max \/ Range(r) \subseteq p \/ Len(r) <= Len(s) - n
    <3>1. Len(t) <= Len(s) - (n - 1)
      BY <1>0, <1>2 DEF Left
    <3> QED
      BY <1>0, <2>3, <3>1
  <2>15. ~(Len(s) <= max)
    BY <1>0, <1>2 DEF Left
  <2> QED
    BY <2>1, <2>3, <2>8, <2>11, <2>12, <2>13, <2>14, <2>15 DEF Left, Rings
<1> QED
  BY <1>1, <1>2

\* f holds what the rounds leave.
Evicting(s, p, f) ==
    f = [n \in 0..Len(s) |-> IF n = 0 THEN s ELSE evictOne(f[n - 1], p)]

\* The loop changes nothing but by its rounds.
LEMMA LeftAlong ==
    ASSUME NEW s \in Rings, NEW p, NEW f, Evicting(s, p, f)
    PROVE  Left(s, p, Len(s), f[Len(s)])
<1> DEFINE T == {n \in 0..Len(s) : Left(s, p, n, f[n])}
<1>0. Len(s) \in Nat
  BY DEF Rings
<1>1. 0 \in T
  <2>1. f[0] = s
    BY <1>0 DEF Evicting
  <2>2. Left(s, p, 0, s)
    <3>1. Len(s) <= Len(s) - 0
      BY <1>0
    <3>2. \A i \in DOMAIN s : s[i] \in Range(s)
      BY DEF Range
    <3> QED
      BY <3>1, <3>2 DEF Left
  <2> QED
    BY <1>0, <2>1, <2>2
<1>2. ASSUME NEW n \in 1..Len(s), n - 1 \in T PROVE n \in T
  <2>1. f[n] = evictOne(f[n - 1], p)
    BY <1>0 DEF Evicting
  <2>2. Left(s, p, n, f[n])
    BY <1>2, <2>1, EvictOneFacts
  <2> QED
    BY <1>0, <2>2
<1>3. 0..Len(s) \subseteq T
  <2> HIDE DEF T
  <2> QED
    BY <1>0, <1>1, <1>2, UpTo
<1> QED
  BY <1>0, <1>3

\* The rounds of evict, one after the other.
LEMMA EvictingExists ==
    ASSUME NEW s \in Rings, NEW p
    PROVE  \E f : Evicting(s, p, f)
<1> DEFINE N == Len(s)
           step == [n \in 1..N |-> [t \in Seq(Ops) |-> evictOne(t, p)]]
<1>0. N \in Nat /\ s \in Seq(Ops)
  BY DEF Rings
<1>1. ASSUME NEW t \in Seq(Ops) PROVE evictOne(t, p) \in Seq(Ops)
  <2>1. CASE ~(Range(t) \subseteq p)
    BY <2>1, OldestFacts, CutFacts, Zenon DEF evictOne, Cut
  <2>2. CASE Range(t) \subseteq p
    BY <2>2 DEF evictOne
  <2> QED
    BY <2>1, <2>2
<1>2. step \in [1..N -> [Seq(Ops) -> Seq(Ops)]]
  BY <1>1
<1>3. PICK f \in [0..N -> Seq(Ops)] : Follows(f, N, s, step)
  <2> DEFINE S == Seq(Ops)
  <2>1. s \in S /\ step \in [1..N -> [S -> S]]
    BY <1>0, <1>2
  <2> HIDE DEF N, step, S
  <2>2. \E f \in [0..N -> S] : Follows(f, N, s, step)
    BY <1>0, <2>1, Recursion
  <2> QED
    BY <2>2 DEF S
<1>4. ASSUME NEW n \in 0..N PROVE f[n] = IF n = 0 THEN s ELSE evictOne(f[n - 1], p)
  <2>1. CASE n = 0
    BY <1>3, <2>1 DEF Follows
  <2>2. CASE n # 0
    <3>1. n \in 1..N /\ n - 1 \in 0..N
      BY <1>0, <2>2
    <3>3. f[n - 1] \in Seq(Ops)
      BY <1>3, <3>1
    <3>2. f[n] = step[n][f[n - 1]]
      <4> HIDE DEF step
      <4> QED
        BY <1>3, <3>1 DEF Follows
    <3> QED
      BY <2>2, <3>1, <3>2, <3>3
  <2> QED
    BY <2>1, <2>2
<1>5. Evicting(s, p, f)
  BY <1>4 DEF Evicting
<1> QED
  BY <1>5

\* What evict leaves of a ring.
LEMMA EvictFacts ==
    ASSUME NEW s \in Rings, NEW p
    PROVE  Left(s, p, Len(s), evict(s, p))
<1> DEFINE f == CHOOSE g : Evicting(s, p, g)
<1>1. Evicting(s, p, f)
  BY EvictingExists
<1>2. evict(s, p) = f[Len(s)]
  BY DEF evict, Evicting
<1> HIDE DEF f
<1> QED
  BY <1>1, <1>2, LeftAlong

-----------------------------------------------------------------------------
(* remember and unprotect *)

\* Of what is in s and not in p, an op-id is in r if an older one is.
InOrder(s, r, p) ==
    \A i, j \in DOMAIN s :
        i < j /\ s[i] \notin p /\ s[i] \in Range(r) /\ s[j] \notin p => s[j] \in Range(r)

\* A ring is over its size only by what is in p.
Fits(s, p) == Len(s) > max => Range(s) \subseteq p

\* What comes out of evict.
LEMMA EvictedFacts ==
    ASSUME NEW s \in Rings, NEW p, NEW r, r = evict(s, p)
    PROVE  /\ r \in Rings /\ Range(s) \cap p \subseteq Range(r) /\ Range(r) \subseteq Range(s)
           /\ Fits(r, p) /\ InOrder(s, r, p)
           /\ Len(s) <= max => r = s
<1>1. Left(s, p, Len(s), r)
  BY EvictFacts, Zenon
<1>2. Len(r) <= max \/ Range(r) \subseteq p \/ Len(r) <= Len(s) - Len(s)
  BY <1>1, Zenon DEF Left
<1>3. r \in Rings /\ Len(r) \in Nat /\ Len(s) \in Nat /\ max \in Nat /\ DOMAIN r = 1..Len(r)
  BY <1>1, OpDedupAssumption DEF Left, Rings
<1>4. Fits(r, p)
  <2>1. CASE Len(r) <= max
    BY <1>3, <2>1 DEF Fits
  <2>2. CASE Range(r) \subseteq p
    BY <2>2 DEF Fits
  <2>3. CASE Len(r) <= Len(s) - Len(s)
    <3>1. Len(r) = 0
      BY <1>3, <2>3
    <3> QED
      BY <1>3, <3>1 DEF Fits
  <2> QED
    BY <1>2, <2>1, <2>2, <2>3
<1> QED
  BY <1>1, <1>4, Zenon DEF Left, InOrder

\* remember: a new op-id stays if it is protected, and no protected one goes.
LEMMA RememberFacts ==
    ASSUME NEW s \in Rings, NEW p, NEW op \in Ops, NEW r, r = remember(s, p, op)
    PROVE  /\ r \in Rings
           /\ Range(s) \cap p \subseteq Range(r)
           /\ op \in p => op \in Range(r)
           /\ Fits(s, p) => Fits(r, p)
           /\ InOrder(s, r, p)
<1>1. CASE op \in Range(s)
  <2>1. r = s
    BY <1>1 DEF remember
  <2>2. \A i \in DOMAIN s : s[i] \in Range(s)
    BY DEF Range
  <2> QED
    BY <1>1, <2>1, <2>2 DEF InOrder
<1>2. CASE op \notin Range(s)
  <2> DEFINE a == Append(s, op)
  <2>1. r = evict(a, p)
    BY <1>2 DEF remember
  <2>2. /\ s \in Seq(Ops) /\ IsInjective(s) /\ Len(s) \in Nat /\ DOMAIN s = 1..Len(s)
    BY DEF Rings
  <2>3. /\ a \in Seq(Ops) /\ DOMAIN a = 1..(Len(s) + 1) /\ a[Len(s) + 1] = op
        /\ \A i \in DOMAIN s : a[i] = s[i]
    BY <2>2
  <2> HIDE DEF a
  <2>4. a \in Rings
    <3>1. \A i \in DOMAIN s : s[i] # op
      BY <1>2 DEF Range
    <3>2. \A i \in DOMAIN a : i \in DOMAIN s \/ i = Len(s) + 1
      BY <2>2, <2>3
    <3>3. IsInjective(a)
      BY <2>2, <2>3, <3>1, <3>2 DEF IsInjective
    <3> QED
      BY <2>3, <3>3 DEF Rings
  <2>5. /\ r \in Rings /\ Range(a) \cap p \subseteq Range(r) /\ Fits(r, p) /\ InOrder(a, r, p)
    BY <2>1, <2>4, EvictedFacts, Zenon
  <2>6. DOMAIN s \subseteq DOMAIN a /\ Len(s) + 1 \in DOMAIN a
    BY <2>2, <2>3
  <2>7. Range(s) \subseteq Range(a) /\ op \in Range(a)
    BY <2>3, <2>6 DEF Range
  <2>8. InOrder(s, r, p)
    BY <2>3, <2>5, <2>6 DEF InOrder
  <2> QED
    BY <2>5, <2>7, <2>8
<1> QED
  BY <1>1, <1>2

-----------------------------------------------------------------------------
(* The ring used with protection *)

\* What every operation keeps.  UnconsumedKept by itself is not inductive: the
\* op-id of a source that was granted must also be protected from evict.
RingInv ==
    /\ TypeOK
    /\ Bounded
    /\ GrantedOnce
    /\ \A op \in sources : granted[op] > 0 => op \in protected /\ op \in Range(order)

\* The ring in memory and the stored one.
LEMMA RingsTyped == TypeOK => order \in Rings /\ stored \in Rings
BY DEF TypeOK, Rings

\* A new ring in memory is well formed.
LEMMA RingStep ==
    ASSUME order' \in Rings, stored' \in Rings, protected' \subseteq Ops, sources' \subseteq Ops,
           granted' \in [Ops -> Nat], Fits(order', protected'), GrantedOnce',
           \A op \in sources' : granted'[op] > 0 => op \in protected' /\ op \in Range(order')
    PROVE  RingInv'
BY Zenon DEF RingInv, TypeOK, Rings, Fits, Bounded

\* A grant without a source.
LEMMA GrantInv ==
    ASSUME RingInv, NEW op \in Ops, Grant(op)
    PROVE  RingInv' /\ InOrder(order, order', protected')
<1>1. /\ op \notin sources /\ granted[op] = 0 /\ order' = remember(order, protected, op)
      /\ granted' = IF seen(op) THEN granted ELSE [granted EXCEPT ![op] = @ + 1]
      /\ UNCHANGED <<protected, stored, sources>>
  BY DEF Grant, Granted
<1>2. order \in Rings /\ stored \in Rings /\ Fits(order, protected)
  BY RingsTyped DEF RingInv, Bounded, Fits
<1>3. /\ order' \in Rings /\ Range(order) \cap protected \subseteq Range(order')
      /\ Fits(order', protected) /\ InOrder(order, order', protected)
  BY <1>1, <1>2, RememberFacts, Zenon
<1>4. granted \in [Ops -> Nat] /\ protected \subseteq Ops /\ sources \subseteq Ops
  BY DEF RingInv, TypeOK
<1>5. /\ granted' \in [Ops -> Nat]
      /\ \A o \in Ops : granted'[o] <= 1 /\ (o # op => granted'[o] = granted[o])
  BY <1>1, <1>4 DEF RingInv, GrantedOnce
<1>6. \A o \in sources' : granted'[o] > 0 => o \in protected' /\ o \in Range(order')
  BY <1>1, <1>3, <1>4, <1>5 DEF RingInv
<1>7. GrantedOnce'
  BY <1>5 DEF GrantedOnce
<1>8. /\ stored' \in Rings /\ protected' \subseteq Ops /\ sources' \subseteq Ops
      /\ Fits(order', protected') /\ InOrder(order, order', protected')
  BY <1>1, <1>2, <1>3, <1>4
<1> QED
  BY <1>3, <1>5, <1>6, <1>7, <1>8, RingStep, Zenon

\* A replay of a source that is protected before it is remembered.
LEMMA ProtectedReplayInv ==
    ASSUME RingInv, NEW op \in Ops, ProtectedReplay(op)
    PROVE  RingInv' /\ InOrder(order, order', protected')
<1>1. /\ op \in sources /\ protected' = protected \cup {op}
      /\ order' = remember(order, protected', op)
      /\ granted' = IF seen(op) THEN granted ELSE [granted EXCEPT ![op] = @ + 1]
      /\ UNCHANGED <<stored, sources>>
  BY DEF ProtectedReplay, Granted
<1>2. order \in Rings /\ stored \in Rings /\ Fits(order, protected')
  BY <1>1, RingsTyped DEF RingInv, Bounded, Fits
<1>3. /\ order' \in Rings /\ Range(order) \cap protected' \subseteq Range(order')
      /\ op \in Range(order') /\ Fits(order', protected') /\ InOrder(order, order', protected')
  <2> DEFINE p == protected'
             r == order'
  <2>1. op \in p /\ Fits(order, p) /\ r = remember(order, p, op)
    BY <1>1, <1>2
  <2> HIDE DEF p, r
  <2>2. /\ r \in Rings /\ Range(order) \cap p \subseteq Range(r)
        /\ op \in Range(r) /\ Fits(r, p) /\ InOrder(order, r, p)
    BY <1>2, <2>1, RememberFacts, ZenonT(30)
  <2> QED
    BY <2>2 DEF p, r
<1>4. granted \in [Ops -> Nat] /\ protected \subseteq Ops /\ sources \subseteq Ops
  BY DEF RingInv, TypeOK
<1>5. /\ granted' \in [Ops -> Nat]
      /\ \A o \in Ops : granted'[o] <= 1 /\ (o # op => granted'[o] = granted[o])
  <2>1. CASE seen(op)
    BY <1>1, <1>4, <2>1 DEF RingInv, GrantedOnce
  <2>2. CASE ~seen(op)
    <3>1. granted[op] = 0
      BY <1>1, <1>4, <2>2 DEF RingInv, seen
    <3>2. granted' = [granted EXCEPT ![op] = 1]
      BY <1>1, <1>4, <2>2, <3>1
    <3> QED
      BY <1>4, <3>2 DEF RingInv, GrantedOnce
  <2> QED
    BY <2>1, <2>2
<1>6. \A o \in sources' : granted'[o] > 0 => o \in protected' /\ o \in Range(order')
  <2> SUFFICES ASSUME NEW o \in sources, granted'[o] > 0
               PROVE  o \in protected' /\ o \in Range(order')
    BY <1>1
  <2>1. CASE o = op
    BY <1>1, <1>3, <2>1
  <2>2. CASE o # op
    <3>1. o \in protected /\ o \in Range(order)
      BY <1>4, <1>5, <2>2 DEF RingInv
    <3> QED
      BY <1>1, <1>3, <3>1
  <2> QED
    BY <2>1, <2>2
<1>7. GrantedOnce'
  BY <1>5 DEF GrantedOnce
<1>8. stored' \in Rings /\ protected' \subseteq Ops /\ sources' \subseteq Ops
  BY <1>1, <1>2, <1>4
<1> QED
  BY <1>3, <1>5, <1>6, <1>7, <1>8, RingStep, Zenon

\* The op-id of a consumed source is no longer protected; those of the other
\* sources are.
LEMMA ConsumeInv ==
    ASSUME RingInv, NEW op \in Ops, Consume(op)
    PROVE  RingInv' /\ InOrder(order, order', protected')
<1>1. /\ op \in sources /\ sources' = sources \ {op} /\ protected' = protected \ {op}
      /\ order' = evict(order, protected') /\ UNCHANGED <<stored, granted>>
  BY DEF Consume, unprotect
<1>2. order \in Rings /\ stored \in Rings
  BY RingsTyped DEF RingInv
<1>3. /\ order' \in Rings /\ Range(order) \cap protected' \subseteq Range(order')
      /\ Fits(order', protected') /\ InOrder(order, order', protected')
  BY <1>1, <1>2, EvictedFacts, Zenon
<1>4. granted \in [Ops -> Nat] /\ protected \subseteq Ops /\ sources \subseteq Ops
  BY DEF RingInv, TypeOK
<1>5. \A o \in sources' : granted'[o] > 0 => o \in protected' /\ o \in Range(order')
  BY <1>1, <1>3 DEF RingInv
<1>6. GrantedOnce'
  BY <1>1 DEF RingInv, GrantedOnce
<1>7. /\ stored' \in Rings /\ protected' \subseteq Ops /\ sources' \subseteq Ops
      /\ granted' \in [Ops -> Nat]
  BY <1>1, <1>2, <1>4
<1> QED
  BY <1>3, <1>5, <1>6, <1>7, RingStep, Zenon

\* A ring that stays is in order.
LEMMA SameInOrder == ASSUME UNCHANGED order PROVE InOrder(order, order', protected')
<1>1. \A i \in DOMAIN order : order[i] \in Range(order)
  BY DEF Range
<1> QED
  BY <1>1 DEF InOrder

\* A source appears for an op-id that was not granted.
LEMMA SourceInv ==
    ASSUME RingInv, NEW op \in Ops, Source(op)
    PROVE  RingInv' /\ InOrder(order, order', protected')
<1>1. /\ granted[op] = 0 /\ sources' = sources \cup {op}
      /\ UNCHANGED <<order, protected, stored, granted>>
  BY DEF Source
<1>2. RingInv'
  BY <1>1 DEF RingInv, TypeOK, Bounded, GrantedOnce
<1> QED
  BY <1>1, <1>2, SameInOrder

\* The ring is stored.
LEMMA FlushInv == ASSUME RingInv, Flush PROVE RingInv' /\ InOrder(order, order', protected')
<1>1. stored' = order /\ UNCHANGED <<order, protected, sources, granted>>
  BY DEF Flush
<1>2. RingInv'
  BY <1>1 DEF RingInv, TypeOK, Bounded, GrantedOnce
<1> QED
  BY <1>1, <1>2, SameInOrder

\* The ring starts empty.
LEMMA InitRingInv == Init => RingInv
<1> SUFFICES ASSUME Init PROVE RingInv
  OBVIOUS
<1>1. <<>> \in Seq(Ops) /\ IsInjective(<<>>)
  BY DEF IsInjective
<1>2. TypeOK
  BY <1>1 DEF Init, TypeOK
<1>3. Bounded
  BY DEF Init, Bounded, Range
<1> QED
  BY <1>2, <1>3 DEF Init, RingInv, GrantedOnce

\* Every step keeps the invariant and the order of age.
LEMMA NextRingInv ==
    ASSUME RingInv, [Next]_vars
    PROVE  RingInv' /\ InOrder(order, order', protected')
<1>1. ASSUME NEW op \in Ops, Common(op) \/ ProtectedReplay(op)
      PROVE  RingInv' /\ InOrder(order, order', protected')
  BY <1>1, GrantInv, SourceInv, ConsumeInv, ProtectedReplayInv, Zenon DEF Common
<1>2. CASE UNCHANGED vars
  <2>1. RingInv'
    BY <1>2 DEF vars, RingInv, TypeOK, Bounded, GrantedOnce
  <2> QED
    BY <1>2, <2>1, SameInOrder DEF vars
<1> QED
  BY <1>1, <1>2, FlushInv, Zenon DEF Next

\* The invariant holds in every reachable state.
THEOREM RingInvariance == Spec => []RingInv
<1>1. RingInv /\ [Next]_vars => RingInv'
  BY NextRingInv
<1> QED
  BY <1>1, InitRingInv, PTL DEF Spec

\* The ring is over its size only by what is protected.
THEOREM AlwaysBounded == Spec => []Bounded
<1>1. RingInv => Bounded
  BY DEF RingInv
<1> QED
  BY <1>1, RingInvariance, PTL

\* Nothing is granted twice, however often its source is replayed.
THEOREM AlwaysGrantedOnce == Spec => []GrantedOnce
<1>1. RingInv => GrantedOnce
  BY DEF RingInv
<1> QED
  BY <1>1, RingInvariance, PTL

\* What was granted from a source is in the ring until the source is consumed.
THEOREM AlwaysUnconsumedKept == Spec => []UnconsumedKept
<1>1. RingInv => UnconsumedKept
  BY DEF RingInv, UnconsumedKept, seen
<1> QED
  BY <1>1, RingInvariance, PTL

\* evict drives out no unprotected op-id before an older one.
THEOREM AlwaysEvictsInOrder == Spec => EvictsInOrder
<1> DEFINE A == \A i, j \in DOMAIN order :
                  i < j /\ order[i] \notin protected'
                        /\ order[i] \in Range(order') /\ order[j] \notin protected'
                      => order[j] \in Range(order')
<1>1. RingInv /\ [Next]_vars => A
  <2> SUFFICES ASSUME RingInv, [Next]_vars PROVE A
    OBVIOUS
  <2> QED
    BY NextRingInv DEF InOrder
<1>2. RingInv /\ [Next]_vars => [A]_vars
  BY <1>1
<1>3. Spec => [][A]_vars
  <2> HIDE DEF A
  <2> QED
    BY <1>2, RingInvariance, PTL DEF Spec
<1> QED
  BY <1>3 DEF EvictsInOrder

-----------------------------------------------------------------------------
(* The ring in the lobby: no protection, and logins that load it *)

\* With room in the ring, remember puts a new op-id at its end.
LEMMA RememberNew ==
    ASSUME NEW t \in Rings, NEW op \in Ops, op \notin Range(t), Len(t) < max
    PROVE  /\ remember(t, {}, op) \in Rings
           /\ Len(remember(t, {}, op)) = Len(t) + 1
           /\ \A i \in DOMAIN t : remember(t, {}, op)[i] = t[i]
           /\ remember(t, {}, op)[Len(t) + 1] = op
<1> DEFINE a == Append(t, op)
<1>1. remember(t, {}, op) = evict(a, {})
  BY DEF remember
<1>2. /\ t \in Seq(Ops) /\ IsInjective(t) /\ Len(t) \in Nat /\ DOMAIN t = 1..Len(t)
  BY DEF Rings
<1>3. /\ a \in Seq(Ops) /\ Len(a) = Len(t) + 1 /\ DOMAIN a = 1..(Len(t) + 1)
      /\ a[Len(t) + 1] = op /\ \A i \in DOMAIN t : a[i] = t[i]
  BY <1>2
<1> HIDE DEF a
<1>4. a \in Rings
  <2>1. \A i \in DOMAIN t : t[i] # op
    BY DEF Range
  <2>2. \A i \in DOMAIN a : i \in DOMAIN t \/ i = Len(t) + 1
    BY <1>2, <1>3
  <2>3. IsInjective(a)
    BY <1>2, <1>3, <2>1, <2>2 DEF IsInjective
  <2> QED
    BY <1>3, <2>3 DEF Rings
<1>5. Len(a) <= max
  BY <1>2, <1>3, OpDedupAssumption
<1>6. evict(a, {}) = a
  BY <1>4, <1>5, EvictedFacts, Zenon
<1> QED
  BY <1>1, <1>3, <1>4, <1>6

\* f holds what the rounds of loadFrom leave.
Loading(ops, f) ==
    f = [n \in 0..Len(ops) |-> IF n = 0 THEN <<>> ELSE remember(f[n - 1], {}, ops[n])]

\* t is made of the first n op-ids of s.
Prefix(s, n, t) == t \in Rings /\ Len(t) = n /\ \A i \in 1..n : t[i] = s[i]

\* The rounds of loadFrom, one after the other.
LEMMA LoadingExists == ASSUME NEW s \in Rings PROVE \E f : Loading(s, f)
<1> DEFINE N == Len(s)
           step == [n \in 1..N |-> [t \in Rings |-> remember(t, {}, s[n])]]
<1>0. N \in Nat /\ s \in Seq(Ops) /\ DOMAIN s = 1..N
  BY DEF Rings
<1>1. ASSUME NEW n \in 1..N, NEW t \in Rings PROVE remember(t, {}, s[n]) \in Rings
  BY <1>0, RememberFacts
<1>2. step \in [1..N -> [Rings -> Rings]]
  BY <1>1
<1>3. <<>> \in Rings
  BY DEF Rings, IsInjective
<1>4. PICK f \in [0..N -> Rings] : Follows(f, N, <<>>, step)
  <2> HIDE DEF step, N
  <2> QED
    BY <1>0, <1>2, <1>3, Recursion
<1>5. f = [n \in 0..N |-> IF n = 0 THEN <<>> ELSE remember(f[n - 1], {}, s[n])]
  <2>1. f[0] = <<>>
    BY <1>4 DEF Follows
  <2>2. ASSUME NEW n \in 1..N PROVE f[n] = remember(f[n - 1], {}, s[n])
    <3>1. f[n] = step[n][f[n - 1]]
      <4> HIDE DEF step
      <4> QED
        BY <1>4 DEF Follows
    <3>2. n - 1 \in 0..N
      BY <1>0
    <3> QED
      BY <3>1, <3>2
  <2>3. \A n \in 0..N : n = 0 \/ n \in 1..N
    BY <1>0
  <2>4. \A n \in 0..N : f[n] = IF n = 0 THEN <<>> ELSE remember(f[n - 1], {}, s[n])
    BY <1>0, <2>1, <2>2, <2>3
  <2> HIDE DEF N
  <2> QED
    BY <2>4
<1> QED
  BY <1>5 DEF Loading

\* loadFrom gives back a ring that is not over its size.
LEMMA LoadFromSame ==
    ASSUME NEW s \in Rings, Len(s) <= max
    PROVE  loadFrom(s) = s
<1> DEFINE f == CHOOSE g : Loading(s, g)
<1>1. Loading(s, f)
  BY LoadingExists
<1>2. loadFrom(s) = f[Len(s)]
  BY DEF loadFrom, Loading
<1> HIDE DEF f
<1>3. /\ Len(s) \in Nat /\ s \in Seq(Ops) /\ DOMAIN s = 1..Len(s) /\ IsInjective(s)
      /\ max \in Nat
  BY OpDedupAssumption DEF Rings
<1> DEFINE T == {n \in 0..Len(s) : Prefix(s, n, f[n])}
<1>4. 0 \in T
  <2>1. f[0] = <<>>
    BY <1>1, <1>3 DEF Loading
  <2>2. Prefix(s, 0, <<>>)
    BY DEF Prefix, Rings, IsInjective
  <2> QED
    BY <1>3, <2>1, <2>2
<1>5. ASSUME NEW n \in 1..Len(s), n - 1 \in T PROVE n \in T
  <2> DEFINE t == f[n - 1]
  <2>1. f[n] = remember(t, {}, s[n])
    BY <1>1, <1>3 DEF Loading
  <2>2. t \in Rings /\ Len(t) = n - 1 /\ \A i \in 1..n-1 : t[i] = s[i]
    BY <1>5 DEF Prefix
  <2> HIDE DEF t
  <2>3. DOMAIN t = 1..n-1 /\ Len(t) + 1 = n /\ Len(t) < max /\ s[n] \in Ops
    BY <1>3, <2>2 DEF Rings
  <2>4. s[n] \notin Range(t)
    <3> SUFFICES ASSUME NEW i \in 1..n-1, s[i] = s[n] PROVE FALSE
      BY <2>2, <2>3 DEF Range
    <3>1. i \in DOMAIN s /\ n \in DOMAIN s /\ i # n
      BY <1>3
    <3> QED
      BY <1>3, <3>1 DEF IsInjective
  <2>5. /\ f[n] \in Rings /\ Len(f[n]) = n
        /\ \A i \in 1..n-1 : f[n][i] = t[i]
        /\ f[n][n] = s[n]
    BY <2>1, <2>2, <2>3, <2>4, RememberNew
  <2>6. \A i \in 1..n : i = n \/ i \in 1..n-1
    OBVIOUS
  <2>7. Prefix(s, n, f[n])
    BY <2>2, <2>5, <2>6 DEF Prefix
  <2> QED
    BY <1>3, <2>7
<1>6. 0..Len(s) \subseteq T
  <2> HIDE DEF T
  <2> QED
    BY <1>3, <1>4, <1>5, UpTo
<1>7. Prefix(s, Len(s), f[Len(s)])
  BY <1>3, <1>6
<1> DEFINE t == f[Len(s)]
<1>8. t = s
  <2>1. t \in Seq(Ops) /\ Len(t) = Len(s) /\ \A i \in 1..Len(s) : t[i] = s[i]
    BY <1>7 DEF Prefix, Rings
  <2> HIDE DEF t
  <2> QED
    BY <1>3, <2>1
<1> QED
  BY <1>2, <1>8

\* What the lobby's operations keep.
LobbyRingInv ==
    /\ order \in Rings /\ stored \in Rings
    /\ protected = {}
    /\ Len(order) <= max

\* Without protection a ring that fits is not over its size.
LEMMA FitsUnprotected ==
    ASSUME NEW r \in Rings
    PROVE  Fits(r, {}) <=> Len(r) <= max
<1>1. Len(r) \in Nat /\ DOMAIN r = 1..Len(r) /\ max \in Nat
  BY OpDedupAssumption DEF Rings
<1>2. Len(r) > 0 => Range(r) # {}
  <2>1. Len(r) > 0 => 1 \in DOMAIN r
    BY <1>1
  <2> QED
    BY <2>1 DEF Range
<1> QED
  BY <1>1, <1>2 DEF Fits

\* A ring is at most as large as it may be, and a login loads the ring that
\* the last flush has stored.
THEOREM LobbyRing == LobbySpec => [](Len(order) <= max /\ LoadRestores)
<1>1. Init => LobbyRingInv
  BY OpDedupAssumption DEF Init, LobbyRingInv, Rings, IsInjective
<1>2. LobbyRingInv /\ [LobbyNext]_vars => LobbyRingInv'
  <2> SUFFICES ASSUME LobbyRingInv, [LobbyNext]_vars PROVE LobbyRingInv'
    OBVIOUS
  <2>0. order \in Rings /\ stored \in Rings /\ protected = {} /\ Fits(order, {}) /\ Len(order) <= max
    BY FitsUnprotected DEF LobbyRingInv
  <2>1. ASSUME NEW op \in Ops, order' = remember(order, {}, op), protected' = {},
               UNCHANGED stored
        PROVE  LobbyRingInv'
    <3> DEFINE r == order'
    <3>1. r = remember(order, {}, op)
      BY <2>1
    <3> HIDE DEF r
    <3>2. r \in Rings /\ Fits(r, {})
      BY <2>0, <3>1, RememberFacts, Zenon
    <3>3. Len(r) <= max
      BY <3>2, FitsUnprotected
    <3> QED
      BY <2>0, <2>1, <3>2, <3>3 DEF LobbyRingInv, r
  <2>2. ASSUME NEW op \in Ops, Grant(op) \/ Replay(op) PROVE LobbyRingInv'
    <3>1. order' = remember(order, {}, op) /\ protected' = {} /\ UNCHANGED stored
      BY <2>0, <2>2 DEF Grant, Replay
    <3> QED
      BY <2>1, <3>1
  <2>3. ASSUME NEW op \in Ops, Consume(op) PROVE LobbyRingInv'
    <3>1. protected' = {} /\ stored' = stored /\ order' = evict(order, {})
      BY <2>0, <2>3 DEF Consume, unprotect
    <3>2. evict(order, {}) = order
      BY <2>0, EvictedFacts
    <3> QED
      BY <2>0, <3>1, <3>2 DEF LobbyRingInv
  <2>4. ASSUME NEW op \in Ops, Source(op) PROVE LobbyRingInv'
    BY <2>0, <2>4 DEF Source, LobbyRingInv
  <2>5. CASE Flush
    BY <2>0, <2>5 DEF Flush, LobbyRingInv
  <2>6. CASE Load
    <3>1. order' = loadFrom(order) /\ protected' = {} /\ stored' = stored
      BY <2>6 DEF Load
    <3> QED
      BY <2>0, <3>1, LoadFromSame DEF LobbyRingInv
  <2>7. CASE UNCHANGED vars
    BY <2>0, <2>7 DEF vars, LobbyRingInv
  <2> QED
    BY <2>2, <2>3, <2>4, <2>5, <2>6, <2>7 DEF LobbyNext, Common
<1>3. LobbyRingInv => Len(order) <= max /\ LoadRestores
  BY LoadFromSame DEF LobbyRingInv, LoadRestores
<1> QED
  BY <1>1, <1>2, <1>3, PTL DEF LobbySpec
=============================================================================
