-------------------------- MODULE CollectorProofs --------------------------
(***************************************************************************)
(* What every parallel collector rests on: the ranges of segment_ranges.rs *)
(* partition the documents, for every number of workers and every size of  *)
(* a segment; and the best n of a totally ordered set are the best n of    *)
(* any subset that holds them.                                             *)
(***************************************************************************)
EXTENDS SegmentRanges, FiniteSetTheorems, WellFoundedInduction, TLAPS

\* Induction over the natural numbers, for a set in place of a predicate.
LEMMA NatSet ==
  ASSUME NEW S, 0 \in S, \A n \in Nat : n \in S => n + 1 \in S
  PROVE  Nat \subseteq S
<1> DEFINE T == Nat \ S
<1> SUFFICES ASSUME T # {} PROVE FALSE
  OBVIOUS
<1>1. PICK x \in T : \A y \in T : ~ (<<y, x>> \in OpToRel(<, Nat))
  BY WFMin, NatLessThanWellFounded
<1>2. \A y \in T : ~ (y < x)
  BY <1>1 DEF OpToRel
<1>3. x # 0 /\ x \in Nat
  OBVIOUS
<1>4. x - 1 \in Nat /\ x - 1 < x /\ (x - 1) + 1 = x
  BY <1>3
<1>5. x - 1 \in S
  BY <1>2, <1>4
<1> QED
  BY <1>4, <1>5
-----------------------------------------------------------------------------
(* Division.                                                               *)

LEMMA Division ==
  ASSUME NEW a \in Nat, NEW b \in Nat \ {0}
  PROVE  /\ a \div b \in Nat
         /\ (a \div b) * b <= a
         /\ a < (a \div b) * b + b
OBVIOUS

LEMMA DivCeilBounds ==
  ASSUME NEW a \in Nat, NEW b \in Nat \ {0}
  PROVE  /\ DivCeil(a, b) \in Nat
         /\ a <= DivCeil(a, b) * b
<1>1. a + b - 1 \in Nat
  OBVIOUS
<1> DEFINE q == (a + b - 1) \div b
<1>2. q \in Nat /\ a + b - 1 < q * b + b
  BY <1>1, Division
<1>3. q * b \in Nat
  BY <1>2
<1> HIDE DEF q
<1>4. a <= q * b
  BY <1>2, <1>3
<1> QED
  BY <1>2, <1>4 DEF DivCeil, q

\* Max and Min of two numbers.
LEMMA MaxOfTwo ==
  ASSUME NEW a \in Int, NEW b \in Int
  PROVE  Max({a, b}) = IF a >= b THEN a ELSE b
BY DEF Max

LEMMA MinOfTwo ==
  ASSUME NEW a \in Int, NEW b \in Int
  PROVE  Min({a, b}) = IF a <= b THEN a ELSE b
BY DEF Min

LEMMA UsefulRangeCountType ==
  ASSUME NEW maxDoc \in Nat, NEW workers \in Nat
  PROVE  UsefulRangeCount(maxDoc, workers) \in Nat \ {0}
<1> DEFINE d == DivCeil(maxDoc, MinDocsPerRange)
<1>1. d \in Nat
  BY RangesAssumption, DivCeilBounds
<1> HIDE DEF d
<1>2. Max({d, 1}) \in Nat \ {0} /\ Max({workers, 1}) \in Nat \ {0}
  BY <1>1, MaxOfTwo
<1> DEFINE l == Max({d, 1})
           r == Max({workers, 1})
<1> HIDE DEF l, r
<1>3. Min({l, r}) \in Nat \ {0}
  BY <1>2, MinOfTwo DEF l, r
<1> QED
  BY <1>3 DEF UsefulRangeCount, d, l, r
-----------------------------------------------------------------------------
(* The ranges of one segment.                                              *)

\* Document i lies in the chunk (i - 1) / chunk and in no other.
LEMMA OneChunk ==
  ASSUME NEW n \in Nat \ {0}, NEW chunk \in Nat, NEW m \in Nat, m <= chunk * n,
         NEW i \in 1..m
  PROVE  \E w \in 0..(n - 1) :
           /\ w * chunk < i /\ i <= (w + 1) * chunk
           /\ \A v \in 0..(n - 1) : v * chunk < i /\ i <= (v + 1) * chunk => v = w
<1>1. chunk # 0
  OBVIOUS
<1> DEFINE w == (i - 1) \div chunk
<1>2. i - 1 \in Nat
  OBVIOUS
<1>3. w \in Nat /\ w * chunk <= i - 1 /\ i - 1 < w * chunk + chunk
  BY <1>1, <1>2, Division
<1> HIDE DEF w
<1>4. (w + 1) * chunk = w * chunk + chunk
  BY <1>3
<1>5. w * chunk < i /\ i <= (w + 1) * chunk
  BY <1>3, <1>4
<1>6. w < n
  <2>1. SUFFICES ASSUME w >= n PROVE FALSE
    BY <1>3
  <2>2. w * chunk >= chunk * n
    BY <1>3, <2>1
  <2> QED
    BY <1>5, <2>2, <1>3
<1>7. ASSUME NEW v \in 0..(n - 1), v * chunk < i, i <= (v + 1) * chunk PROVE v = w
  <2>1. CASE v < w
    <3>1. (v + 1) * chunk <= w * chunk
      BY <1>3, <2>1
    <3> QED BY <1>5, <1>7, <3>1, <1>3
  <2>2. CASE w < v
    <3>1. (w + 1) * chunk <= v * chunk
      BY <1>3, <2>2
    <3> QED BY <1>5, <1>7, <3>1, <1>3
  <2> QED BY <2>1, <2>2, <1>3
<1>8. w \in 0..(n - 1)
  BY <1>3, <1>6
<1> QED
  BY <1>5, <1>7, <1>8

\* segment_doc_ranges: every document of a segment lies in exactly one range.
LEMMA SegmentDocRangesPartition ==
  ASSUME NEW maxDoc \in Nat, NEW workers \in Nat, NEW i \in 1..maxDoc
  PROVE  \E r \in SegmentDocRanges(maxDoc, workers) :
           /\ r.from < i /\ i <= r.to
           /\ \A q \in SegmentDocRanges(maxDoc, workers) :
                q.from < i /\ i <= q.to => q = r
<1> DEFINE n == UsefulRangeCount(maxDoc, workers)
           chunk == DivCeil(maxDoc, n)
           range(w) == [from |-> w * chunk, to |-> Min({maxDoc, (w + 1) * chunk})]
<1>1. n \in Nat \ {0}
  BY UsefulRangeCountType
<1>2. SegmentDocRanges(maxDoc, workers) =
        {r \in {range(w) : w \in 0..(n - 1)} : r.from < r.to}
  BY DEF SegmentDocRanges
<1> HIDE DEF n
<1>3. chunk \in Nat /\ maxDoc <= chunk * n
  BY <1>1, DivCeilBounds
<1> HIDE DEF chunk
<1>4. ASSUME NEW v \in 0..(n - 1)
      PROVE  /\ range(v).from = v * chunk /\ range(v).from \in Nat
             /\ range(v).to \in Nat
             /\ i <= range(v).to <=> i <= (v + 1) * chunk
  <2>1. v * chunk \in Nat /\ (v + 1) * chunk \in Nat
    BY <1>1, <1>3
  <2> DEFINE e == (v + 1) * chunk
  <2> HIDE DEF e
  <2>2. Min({maxDoc, e}) = IF maxDoc <= e THEN maxDoc ELSE e
    BY <2>1, MinOfTwo DEF e
  <2>3. range(v).to = Min({maxDoc, e})
    BY DEF e
  <2> QED
    BY <2>1, <2>2, <2>3 DEF e
<1>5. PICK w \in 0..(n - 1) :
        /\ w * chunk < i /\ i <= (w + 1) * chunk
        /\ \A v \in 0..(n - 1) : v * chunk < i /\ i <= (v + 1) * chunk => v = w
  BY <1>1, <1>3, OneChunk
<1>6. range(w).from < i /\ i <= range(w).to
  BY <1>4, <1>5
<1>7. range(w).from < range(w).to
  BY <1>4, <1>6
<1>8. range(w) \in SegmentDocRanges(maxDoc, workers)
  BY <1>2, <1>7
<1>9. ASSUME NEW q \in SegmentDocRanges(maxDoc, workers), q.from < i, i <= q.to
      PROVE  q = range(w)
  <2>1. PICK v \in 0..(n - 1) : q = range(v)
    BY <1>2
  <2>2. v = w
    BY <1>4, <1>5, <1>9, <2>1
  <2> QED BY <2>1, <2>2
<1> QED
  BY <1>6, <1>8, <1>9
-----------------------------------------------------------------------------
(* The tasks of each segment.                                              *)

LEMMA GrownType ==
  ASSUME NEW sizes, NEW workers, NEW target, NEW alloc \in [DOMAIN sizes -> Nat]
  PROVE  Grown(sizes, workers, target, alloc) \in [DOMAIN sizes -> Nat]
<1> DEFINE splittable == {s \in DOMAIN sizes : alloc[s] < UsefulRangeCount(sizes[s], workers)}
           length(s) == DivCeil(sizes[s], alloc[s] + 1)
           longest == {s \in splittable : \A o \in splittable : length(o) <= length(s)}
           m == Max(longest)
<1>1. \/ Grown(sizes, workers, target, alloc) = [alloc EXCEPT ![m] = @ + 1]
      \/ Grown(sizes, workers, target, alloc) = alloc
  BY DEF Grown
<1> HIDE DEF m
<1>2. [alloc EXCEPT ![m] = @ + 1] \in [DOMAIN sizes -> Nat]
  <2>1. CASE m \in DOMAIN sizes
    BY <2>1
  <2>2. CASE m \notin DOMAIN sizes
    BY <2>2
  <2> QED BY <2>1, <2>2
<1> QED
  BY <1>1, <1>2

LEMMA AllocationsType ==
  ASSUME NEW sizes, Len(sizes) \in Nat, NEW workers \in Nat
  PROVE  Allocations(sizes, workers) \in [DOMAIN sizes -> Nat]
<1> DEFINE target == Max({workers, 1, Len(sizes)})
           F(h, n) == IF n = 0 THEN [s \in DOMAIN sizes |-> 1]
                      ELSE Grown(sizes, workers, target, h[n - 1])
           Solution(h, k) == h = [n \in 0..k |-> F(h, n)]
           K == {k \in Nat : \E h : Solution(h, k)}
           rounds == CHOOSE h : Solution(h, target)
<1>1. target \in Nat
  BY DEF Max
<1>2. Allocations(sizes, workers) = rounds[target]
  BY DEF Allocations
<1> HIDE DEF target
<1>3. 0 \in K
  <2>1. Solution([n \in 0..0 |-> [s \in DOMAIN sizes |-> 1]], 0)
    OBVIOUS
  <2> QED BY <2>1
<1>4. ASSUME NEW k \in Nat, k \in K PROVE k + 1 \in K
  <2>1. PICK h : Solution(h, k)
    BY <1>4
  <2> DEFINE g == [n \in 0..(k + 1) |-> IF n <= k THEN h[n]
                                        ELSE Grown(sizes, workers, target, h[k])]
  <2>2. ASSUME NEW n \in 0..(k + 1) PROVE g[n] = F(g, n)
    <3>1. CASE n = 0
      BY <2>1, <3>1
    <3>2. CASE n \in 1..k
      <4>1. n \in 0..k /\ n # 0 /\ n <= k /\ n - 1 \in 0..(k + 1) /\ n - 1 <= k
        BY <3>2
      <4>2. h[n] = Grown(sizes, workers, target, h[n - 1])
        BY <2>1, <4>1
      <4>3. g[n] = h[n] /\ g[n - 1] = h[n - 1]
        BY <4>1
      <4> HIDE DEF g
      <4> QED BY <4>1, <4>2, <4>3
    <3>3. CASE n = k + 1
      BY <2>1, <3>3
    <3> QED BY <3>1, <3>2, <3>3
  <2>3. Solution(g, k + 1)
    BY <2>2
  <2> HIDE DEF g
  <2>4. \E e : Solution(e, k + 1)
    BY <2>3
  <2>5. k + 1 \in Nat
    OBVIOUS
  <2> QED BY <2>4, <2>5
<1>5. Nat \subseteq K
  <2> HIDE DEF K
  <2> QED BY <1>3, <1>4, NatSet
<1>6. Solution(rounds, target)
  BY <1>1, <1>5
<1> HIDE DEF rounds
<1> DEFINE R == {n \in Nat : n <= target => rounds[n] \in [DOMAIN sizes -> Nat]}
<1>7. 0 \in R
  BY <1>1, <1>6
<1>8. ASSUME NEW n \in Nat, n \in R PROVE n + 1 \in R
  <2> SUFFICES ASSUME n + 1 <= target PROVE rounds[n + 1] \in [DOMAIN sizes -> Nat]
    OBVIOUS
  <2>1. rounds[n] \in [DOMAIN sizes -> Nat]
    BY <1>1, <1>8
  <2>2. rounds[n + 1] = Grown(sizes, workers, target, rounds[n])
    BY <1>1, <1>6
  <2> QED BY <2>1, <2>2, GrownType
<1>9. Nat \subseteq R
  <2> HIDE DEF R
  <2> QED BY <1>7, <1>8, NatSet
<1> QED
  BY <1>1, <1>2, <1>9

\* searcher_doc_ranges: every document of every segment lies in exactly one task.
LEMMA SearcherDocRangesPartition ==
  ASSUME NEW sizes, Len(sizes) \in Nat, NEW workers \in Nat, NEW s \in DOMAIN sizes,
         sizes[s] \in Nat, NEW i \in 1..sizes[s]
  PROVE  \E r \in SearcherDocRanges(sizes, workers) :
           {t \in SearcherDocRanges(sizes, workers) : t.seg = s /\ t.from < i /\ i <= t.to}
             = {r}
<1> DEFINE alloc == Allocations(sizes, workers)
           task(u, r) == [seg |-> u, from |-> r.from, to |-> r.to]
<1>1. alloc \in [DOMAIN sizes -> Nat]
  BY AllocationsType
<1>2. \A t : t \in SearcherDocRanges(sizes, workers) <=>
        \E u \in DOMAIN sizes : \E r \in SegmentDocRanges(sizes[u], alloc[u]) : t = task(u, r)
  BY DEF SearcherDocRanges
<1> HIDE DEF alloc
<1> DEFINE ranges == SegmentDocRanges(sizes[s], alloc[s])
<1>3. PICK r \in ranges :
        /\ r.from < i /\ i <= r.to
        /\ \A q \in ranges : q.from < i /\ i <= q.to => q = r
  BY <1>1, SegmentDocRangesPartition
<1> HIDE DEF ranges
<1>4. task(s, r) \in SearcherDocRanges(sizes, workers)
  BY <1>2 DEF ranges
<1>5. ASSUME NEW t \in SearcherDocRanges(sizes, workers), t.seg = s, t.from < i, i <= t.to
      PROVE  t = task(s, r)
  <2>1. PICK u \in DOMAIN sizes : \E q \in SegmentDocRanges(sizes[u], alloc[u]) : t = task(u, q)
    BY <1>2
  <2>2. PICK q \in ranges : t = task(s, q)
    BY <1>5, <2>1 DEF ranges
  <2> QED BY <1>3, <1>5, <2>2
<1> QED
  BY <1>3, <1>4, <1>5

\* A task is a range of documents of its segment.
LEMMA SearcherDocRangesType ==
  ASSUME NEW sizes, Len(sizes) \in Nat, NEW workers \in Nat,
         \A s \in DOMAIN sizes : sizes[s] \in Nat,
         NEW t \in SearcherDocRanges(sizes, workers)
  PROVE  /\ t.seg \in DOMAIN sizes
         /\ t.from \in Nat /\ t.to \in Nat /\ t.from <= t.to /\ t.to <= sizes[t.seg]
<1> DEFINE alloc == Allocations(sizes, workers)
<1>1. alloc \in [DOMAIN sizes -> Nat]
  BY AllocationsType
<1>2. PICK u \in DOMAIN sizes : \E r \in SegmentDocRanges(sizes[u], alloc[u]) :
        t = [seg |-> u, from |-> r.from, to |-> r.to]
  BY DEF SearcherDocRanges
<1> HIDE DEF alloc
<1>3. PICK r \in SegmentDocRanges(sizes[u], alloc[u]) :
        t = [seg |-> u, from |-> r.from, to |-> r.to]
  BY <1>2
<1> DEFINE n == UsefulRangeCount(sizes[u], alloc[u])
           chunk == DivCeil(sizes[u], n)
<1>4. n \in Nat \ {0}
  BY <1>1, UsefulRangeCountType
<1>5. PICK w \in 0..(n - 1) :
        r = [from |-> w * chunk, to |-> Min({sizes[u], (w + 1) * chunk})]
  BY <1>3 DEF SegmentDocRanges
<1> HIDE DEF n
<1>6. chunk \in Nat
  BY <1>4, DivCeilBounds
<1> HIDE DEF chunk
<1> DEFINE e == (w + 1) * chunk
           m == sizes[u]
<1>7. w * chunk \in Nat /\ e \in Nat /\ m \in Nat
  BY <1>4, <1>6
<1>8. r.from = w * chunk /\ r.to = Min({m, e})
  BY <1>5
<1> HIDE DEF e, m
<1>9. Min({m, e}) \in Nat /\ Min({m, e}) <= m
  BY <1>7, MinOfTwo
<1>10. r.from < r.to
  BY <1>3 DEF SegmentDocRanges
<1> QED
  BY <1>3, <1>7, <1>8, <1>9, <1>10 DEF m

-----------------------------------------------------------------------------
(* Ranks in a finite set with a strict total order R.                      *)

Total(S, R) ==
  /\ \A x \in S : <<x, x>> \notin R
  /\ \A x, y \in S : x = y \/ <<x, y>> \in R \/ <<y, x>> \in R
  /\ \A x, y, z \in S : <<x, y>> \in R /\ <<y, z>> \in R => <<x, z>> \in R

Below(S, R, x) == {y \in S : <<y, x>> \in R}

Rank(S, R, x) == Cardinality(Below(S, R, x))

\* The best n.
Top(S, R, n) == {x \in S : Rank(S, R, x) < n}

LEMMA TotalSubset ==
  ASSUME NEW S, NEW R, NEW T \in SUBSET S, Total(S, R)
  PROVE  Total(T, R)
BY DEF Total

LEMMA RankType ==
  ASSUME NEW S, IsFiniteSet(S), NEW R, NEW x
  PROVE  /\ IsFiniteSet(Below(S, R, x))
         /\ Rank(S, R, x) \in Nat
         /\ Rank(S, R, x) <= Cardinality(S)
         /\ Cardinality(S) \in Nat
<1>1. Below(S, R, x) \in SUBSET S
  BY DEF Below
<1>2. IsFiniteSet(Below(S, R, x)) /\ Cardinality(Below(S, R, x)) <= Cardinality(S)
  BY <1>1, FS_Subset
<1> QED
  BY <1>2, FS_CardinalityType DEF Rank

LEMMA RankSubset ==
  ASSUME NEW S, IsFiniteSet(S), NEW R, NEW T \in SUBSET S, NEW x
  PROVE  Rank(T, R, x) <= Rank(S, R, x)
<1>1. Below(T, R, x) \in SUBSET Below(S, R, x)
  BY DEF Below
<1>2. IsFiniteSet(Below(S, R, x))
  BY RankType
<1> QED
  BY <1>1, <1>2, FS_Subset DEF Rank

\* Whatever comes later has a greater rank.
LEMMA RankMonotone ==
  ASSUME NEW S, IsFiniteSet(S), NEW R, Total(S, R),
         NEW x \in S, NEW y \in S, <<x, y>> \in R
  PROVE  Rank(S, R, x) < Rank(S, R, y)
<1> DEFINE A == Below(S, R, x)
           B == Below(S, R, y)
<1>1. A \in SUBSET B
  BY DEF Below, Total
<1>2. x \in B /\ x \notin A
  BY DEF Below, Total
<1>3. IsFiniteSet(A) /\ IsFiniteSet(B)
  BY RankType
<1> HIDE DEF A, B
<1>4. Cardinality(A) <= Cardinality(B) /\ Cardinality(A) # Cardinality(B)
  BY <1>1, <1>2, <1>3, FS_Subset
<1>5. Cardinality(A) \in Nat /\ Cardinality(B) \in Nat
  BY <1>3, FS_CardinalityType
<1>6. Cardinality(A) < Cardinality(B)
  BY <1>4, <1>5
<1> QED
  BY <1>6 DEF Rank, A, B

LEMMA RankOrders ==
  ASSUME NEW S, IsFiniteSet(S), NEW R, Total(S, R), NEW x \in S, NEW y \in S
  PROVE  /\ Rank(S, R, x) = Rank(S, R, y) => x = y
         /\ Rank(S, R, x) < Rank(S, R, y) <=> <<x, y>> \in R
<1>1. Rank(S, R, x) \in Nat /\ Rank(S, R, y) \in Nat
  BY RankType
<1>2. x = y \/ <<x, y>> \in R \/ <<y, x>> \in R
  BY DEF Total
<1>3. <<x, y>> \in R => Rank(S, R, x) < Rank(S, R, y)
  BY RankMonotone
<1>4. <<y, x>> \in R => Rank(S, R, y) < Rank(S, R, x)
  BY RankMonotone
<1> QED
  BY <1>1, <1>2, <1>3, <1>4 DEF Total

LEMMA RankBound ==
  ASSUME NEW S, IsFiniteSet(S), NEW R, Total(S, R), NEW x \in S
  PROVE  Rank(S, R, x) < Cardinality(S)
<1> DEFINE A == Below(S, R, x)
<1>1. A \in SUBSET S /\ x \notin A
  BY DEF Below, Total
<1>2. Cardinality(A) <= Cardinality(S) /\ Cardinality(A) # Cardinality(S)
  BY <1>1, FS_Subset
<1>3. Rank(S, R, x) = Cardinality(A)
  BY DEF Rank
<1> HIDE DEF A
<1>4. Rank(S, R, x) \in Nat /\ Cardinality(S) \in Nat
  BY RankType
<1> QED
  BY <1>2, <1>3, <1>4

\* Every position below the size of the set is the rank of a member.
LEMMA RankOnto ==
  ASSUME NEW S, IsFiniteSet(S), NEW R, Total(S, R), NEW n \in 0..(Cardinality(S) - 1)
  PROVE  \E x \in S : Rank(S, R, x) = n
<1> DEFINE c == Cardinality(S)
           f == [x \in S |-> Rank(S, R, x)]
<1>1. c \in Nat
  BY RankType
<1>2. ASSUME NEW x \in S PROVE Rank(S, R, x) \in 0..(c - 1)
  <2>1. Rank(S, R, x) \in Nat /\ Rank(S, R, x) < c
    BY RankType, RankBound
  <2> QED BY <1>1, <2>1
<1>3. f \in Injection(S, 0..(c - 1))
  <2>1. f \in [S -> 0..(c - 1)]
    BY <1>2
  <2>2. \A x, y \in S : f[x] = f[y] => x = y
    BY RankOrders
  <2> QED BY <2>1, <2>2 DEF Injection, IsInjective
<1>4. IsFiniteSet(0..(c - 1)) /\ Cardinality(0..(c - 1)) = c
  <2> HIDE DEF c
  <2>1. 0 \in Int /\ c - 1 \in Int
    BY <1>1
  <2>2. IsFiniteSet(0..(c - 1)) /\ Cardinality(0..(c - 1)) = IF 0 > c - 1 THEN 0 ELSE c - 1 - 0 + 1
    BY <2>1, FS_Interval
  <2> QED BY <1>1, <2>2
<1>5. f \in Surjection(S, 0..(c - 1))
  BY <1>3, <1>4, FS_Injection
<1>6. \E x \in S : f[x] = n
  BY <1>5 DEF Surjection
<1> QED
  BY <1>6

\* The best n are n, if there are so many, and as many as there are otherwise.
LEMMA TopSize ==
  ASSUME NEW S, IsFiniteSet(S), NEW R, Total(S, R), NEW n \in Nat
  PROVE  /\ IsFiniteSet(Top(S, R, n))
         /\ Top(S, R, n) \in SUBSET S
         /\ n <= Cardinality(S) => Cardinality(Top(S, R, n)) = n
         /\ Cardinality(S) <= n => Top(S, R, n) = S
<1>1. Cardinality(S) \in Nat
  BY RankType
<1>2. Top(S, R, n) \in SUBSET S
  BY DEF Top
<1>3. ASSUME Cardinality(S) <= n PROVE Top(S, R, n) = S
  <2>1. ASSUME NEW x \in S PROVE Rank(S, R, x) < n
    <3>1. Rank(S, R, x) \in Nat /\ Rank(S, R, x) < Cardinality(S)
      BY RankType, RankBound
    <3> QED BY <1>1, <1>3, <3>1
  <2> QED BY <2>1 DEF Top
<1>4. ASSUME n < Cardinality(S) PROVE Cardinality(Top(S, R, n)) = n
  <2>1. n \in 0..(Cardinality(S) - 1)
    BY <1>1, <1>4
  <2>2. PICK x \in S : Rank(S, R, x) = n
    BY <2>1, RankOnto
  <2>3. Top(S, R, n) = Below(S, R, x)
    BY <2>2, RankOrders DEF Top, Below
  <2> QED BY <2>2, <2>3 DEF Rank
<1>5. IsFiniteSet(Top(S, R, n))
  BY <1>2, FS_Subset
<1> QED
  BY <1>1, <1>2, <1>3, <1>4, <1>5

\* A subset that holds the best n has the same best n.
LEMMA TopOfSubset ==
  ASSUME NEW S, IsFiniteSet(S), NEW R, Total(S, R), NEW n \in Nat,
         NEW T \in SUBSET S, Top(S, R, n) \subseteq T
  PROVE  Top(T, R, n) = Top(S, R, n)
<1>1. IsFiniteSet(T)
  BY FS_Subset
<1>2. ASSUME NEW x \in Top(S, R, n) PROVE x \in Top(T, R, n)
  <2>1. x \in T /\ Rank(S, R, x) < n
    BY DEF Top
  <2>2. Rank(T, R, x) <= Rank(S, R, x)
    BY RankSubset
  <2>3. Rank(T, R, x) \in Nat /\ Rank(S, R, x) \in Nat
    BY <1>1, RankType
  <2>4. Rank(T, R, x) < n
    BY <2>1, <2>2, <2>3
  <2> QED BY <2>1, <2>4 DEF Top
<1>3. ASSUME NEW x \in Top(T, R, n) PROVE x \in Top(S, R, n)
  <2>1. x \in S /\ x \in T /\ Rank(T, R, x) < n
    BY DEF Top
  <2>2. Rank(T, R, x) \in Nat /\ Rank(S, R, x) \in Nat /\ Cardinality(S) \in Nat
    BY <1>1, RankType
  <2>3. SUFFICES ASSUME n <= Rank(S, R, x) PROVE FALSE
    BY <2>1, <2>2 DEF Top
  <2>4. Rank(S, R, x) < Cardinality(S)
    BY <2>1, RankBound
  <2>5. n <= Cardinality(S)
    BY <2>2, <2>3, <2>4
  <2>6. Cardinality(Top(S, R, n)) = n
    BY <2>5, TopSize
  <2>7. Top(S, R, n) \in SUBSET Below(T, R, x)
    <3> SUFFICES ASSUME NEW y \in Top(S, R, n) PROVE y \in Below(T, R, x)
      OBVIOUS
    <3>1. y \in S /\ y \in T /\ Rank(S, R, y) < n
      BY DEF Top
    <3>2. Rank(S, R, y) \in Nat
      BY RankType
    <3>3. Rank(S, R, y) < Rank(S, R, x)
      BY <2>2, <2>3, <3>1, <3>2
    <3>4. <<y, x>> \in R
      BY <2>1, <3>1, <3>3, RankOrders
    <3> QED BY <3>1, <3>4 DEF Below
  <2>8. IsFiniteSet(Below(T, R, x))
    BY <1>1, RankType
  <2>9. n <= Rank(T, R, x)
    BY <2>6, <2>7, <2>8, FS_Subset DEF Rank
  <2> QED BY <2>1, <2>2, <2>9
<1> QED
  BY <1>2, <1>3

\* The best n have the ranks they have in the whole set.
LEMMA RankInTop ==
  ASSUME NEW S, IsFiniteSet(S), NEW R, Total(S, R), NEW n \in Nat, NEW x \in Top(S, R, n)
  PROVE  Rank(Top(S, R, n), R, x) = Rank(S, R, x)
<1>1. x \in S /\ Rank(S, R, x) < n
  BY DEF Top
<1>2. ASSUME NEW y \in S, <<y, x>> \in R PROVE y \in Top(S, R, n)
  <2>1. Rank(S, R, y) < Rank(S, R, x)
    BY <1>1, <1>2, RankMonotone
  <2>2. Rank(S, R, y) \in Nat /\ Rank(S, R, x) \in Nat
    BY RankType
  <2>3. Rank(S, R, y) < n
    BY <1>1, <2>1, <2>2
  <2> QED BY <2>3 DEF Top
<1>3. Below(Top(S, R, n), R, x) = Below(S, R, x)
  BY <1>2 DEF Below, Top
<1> QED
  BY <1>3 DEF Rank

\* What is among the best n of the whole is among the best n of every part it is in.
LEMMA TopOfPart ==
  ASSUME NEW S, IsFiniteSet(S), NEW R, NEW n \in Nat, NEW T \in SUBSET S
  PROVE  Top(S, R, n) \cap T \subseteq Top(T, R, n)
<1> SUFFICES ASSUME NEW x \in T, Rank(S, R, x) < n PROVE Rank(T, R, x) < n
  BY DEF Top
<1>1. IsFiniteSet(T)
  BY FS_Subset
<1>2. Rank(T, R, x) <= Rank(S, R, x)
  BY RankSubset
<1>3. Rank(T, R, x) \in Nat /\ Rank(S, R, x) \in Nat
  BY <1>1, RankType
<1> QED
  BY <1>2, <1>3

KeepsOrder(f, S, R, Q) == \A x, y \in S : <<x, y>> \in R <=> <<f[x], f[y]>> \in Q

\* A bijection that keeps the order keeps the ranks.
LEMMA RankImage ==
  ASSUME NEW S, IsFiniteSet(S), NEW R, NEW T, NEW Q, NEW f \in Bijection(S, T),
         KeepsOrder(f, S, R, Q), NEW x \in S
  PROVE  f[x] \in T /\ Rank(T, Q, f[x]) = Rank(S, R, x)
<1> DEFINE A == Below(S, R, x)
           B == Below(T, Q, f[x])
           g == [y \in A |-> f[y]]
<1>1. /\ f \in [S -> T]
      /\ \A y, z \in S : f[y] = f[z] => y = z
      /\ \A z \in T : \E y \in S : f[y] = z
  BY DEF Bijection, Injection, IsInjective, Surjection
<1>2. A \in SUBSET S /\ IsFiniteSet(A)
  BY RankType DEF Below
<1>3. \A y \in A : f[y] \in B
  BY <1>1 DEF Below, KeepsOrder
<1>4. \A z \in B : \E y \in A : f[y] = z
  BY <1>1 DEF Below, KeepsOrder
<1> HIDE DEF A, B
<1>5. g \in Bijection(A, B)
  <2>1. g \in [A -> B]
    BY <1>3
  <2>2. \A y, z \in A : g[y] = g[z] => y = z
    BY <1>1, <1>2
  <2>3. \A z \in B : \E y \in A : g[y] = z
    BY <1>4
  <2> HIDE DEF g
  <2> QED BY <2>1, <2>2, <2>3 DEF Bijection, Injection, IsInjective, Surjection
<1>6. Cardinality(A) = Cardinality(B)
  <2>1. ExistsBijection(A, B)
    BY <1>5 DEF ExistsBijection
  <2> QED BY <1>2, <2>1, FS_Bijection
<1> QED BY <1>1, <1>6 DEF Rank, A, B

=============================================================================
