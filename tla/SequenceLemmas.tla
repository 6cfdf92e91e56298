--------------------------- MODULE SequenceLemmas ---------------------------
(***************************************************************************)
(* Facts about sequences that the proofs about lists share: removal,       *)
(* concatenation of many, sequences without repetitions, and the least     *)
(* element of a set of numbers, which stands for induction.                *)
(***************************************************************************)
EXTENDS SequencesExt, SequenceTheorems, FiniteSetTheorems, WellFoundedInduction, TLAPS

(* What RemoveAt makes of a sequence.                                      *)
LEMMA RemoveAtIs ==
  ASSUME NEW S, NEW s \in Seq(S), NEW i \in 1 .. Len(s)
  PROVE  /\ RemoveAt(s, i) \in Seq(S)
         /\ Len(RemoveAt(s, i)) = Len(s) - 1
         /\ \A k \in 1 .. Len(s) - 1 :
              RemoveAt(s, i)[k] = IF k < i THEN s[k] ELSE s[k + 1]
<1> DEFINE a == SubSeq(s, 1, i - 1)
           b == SubSeq(s, i + 1, Len(s))
<1>1. a \in Seq(S) /\ Len(a) = i - 1 /\ \A k \in 1 .. i - 1 : a[k] = s[k]
  OBVIOUS
<1>2. /\ b \in Seq(S) /\ Len(b) = Len(s) - i
      /\ \A k \in 1 .. Len(s) - i : b[k] = s[i + k]
  OBVIOUS
<1>3. RemoveAt(s, i) = a \o b
  BY DEF RemoveAt
<1> HIDE DEF a, b
<1>4. /\ a \o b \in Seq(S) /\ Len(a \o b) = Len(s) - 1
      /\ \A k \in 1 .. Len(s) - 1 :
           (a \o b)[k] = IF k < i THEN a[k] ELSE b[k - (i - 1)]
  <2>1. a \o b \in Seq(S) /\ Len(a \o b) = Len(a) + Len(b)
    BY <1>1, <1>2, ConcatProperties
  <2>2. \A k \in 1 .. Len(a) + Len(b) :
          (a \o b)[k] = IF k <= Len(a) THEN a[k] ELSE b[k - Len(a)]
    BY <1>1, <1>2
  <2> QED BY <1>1, <1>2, <2>1, <2>2
<1> QED BY <1>1, <1>2, <1>3, <1>4

(* Removing the one place of a value takes that value and no other.        *)
LEMMA RemoveAtRemoves ==
  ASSUME NEW S, NEW s \in Seq(S), NEW i \in 1 .. Len(s),
         \A k, l \in 1 .. Len(s) : s[k] = s[l] => k = l
  PROVE  /\ \A k, l \in 1 .. Len(s) - 1 :
              RemoveAt(s, i)[k] = RemoveAt(s, i)[l] => k = l
         /\ Range(RemoveAt(s, i)) = Range(s) \ {s[i]}
<1> DEFINE r == RemoveAt(s, i)
           n == Len(s)
<1>1. \A k \in 1 .. n - 1 : r[k] = IF k < i THEN s[k] ELSE s[k + 1]
  BY RemoveAtIs
<1>2. n \in Nat
  OBVIOUS
<1> HIDE DEF r, n
<1>3. i \in 1 .. n /\ \A k, l \in 1 .. n : s[k] = s[l] => k = l
  BY DEF n
<1>4. \A k, l \in 1 .. n - 1 : r[k] = r[l] => k = l
  BY <1>1, <1>2, <1>3
<1>5. ASSUME NEW k \in 1 .. n - 1
      PROVE  r[k] # s[i] /\ \E l \in 1 .. n : s[l] = r[k]
  BY <1>1, <1>2, <1>3
<1>6. ASSUME NEW l \in 1 .. n, s[l] # s[i]
      PROVE  \E k \in 1 .. n - 1 : r[k] = s[l]
  <2>1. CASE l < i
    <3>1. l \in 1 .. n - 1 /\ r[l] = s[l]
      BY <1>1, <1>2, <1>3, <2>1
    <3> QED BY <3>1
  <2>2. CASE l > i
    <3>1. l - 1 \in 1 .. n - 1 /\ r[l - 1] = s[l]
      BY <1>1, <1>2, <1>3, <2>2
    <3> QED BY <3>1
  <2> QED BY <1>2, <1>3, <1>6, <2>1, <2>2
<1>7. DOMAIN s = 1 .. n /\ DOMAIN r = 1 .. n - 1
  <2>1. r \in Seq(S) /\ Len(r) = n - 1
    BY RemoveAtIs DEF r, n
  <2> QED BY <2>1 DEF n
<1>8. Range(r) = Range(s) \ {s[i]}
  <2>1. Range(s) = {s[k] : k \in 1 .. n} /\ Range(r) = {r[k] : k \in 1 .. n - 1}
    BY <1>7 DEF Range
  <2>2. \A x \in Range(r) : x \in Range(s) \ {s[i]}
    BY <1>5, <2>1
  <2>3. \A x \in Range(s) \ {s[i]} : x \in Range(r)
    BY <1>6, <2>1
  <2> QED BY <2>2, <2>3
<1> QED BY <1>4, <1>8 DEF r, n

(* A set of numbers has a least element.                                   *)
LEMMA Least ==
  ASSUME NEW S \in SUBSET Nat, S # {}
  PROVE  \E m \in S : \A n \in S : m <= n
<1> DEFINE R == StrictSubsetOrdering(Nat)
           T == {1 .. n : n \in S}
<1>1. T \subseteq FiniteSubsetsOf(Nat)
  <2> SUFFICES ASSUME NEW n \in S PROVE (1 .. n) \in FiniteSubsetsOf(Nat)
    OBVIOUS
  <2>1. IsFiniteSet(1 .. n) /\ (1 .. n) \in SUBSET Nat
    BY FS_Interval
  <2> QED BY <2>1 DEF FiniteSubsetsOf
<1>2. IsWellFoundedOn(R, FiniteSubsetsOf(Nat))
  BY FS_StrictSubsetOrderingWellFounded
<1>3. PICK x \in T : \A y \in T : <<y, x>> \notin R
  <2>1. T # {}
    OBVIOUS
  <2> HIDE DEF R, T
  <2> QED BY <1>1, <1>2, <2>1, WFMin
<1>4. PICK m \in S : x = 1 .. m
  BY <1>3
<1>5. ASSUME NEW n \in S, n < m PROVE FALSE
  <2>1. (1 .. n) \subseteq (1 .. m) /\ (1 .. n) # (1 .. m)
    <3>1. m \in 1 .. m /\ m \notin 1 .. n
      BY <1>5
    <3> QED BY <1>5, <3>1
  <2>2. <<1 .. n, x>> \in R
    BY <1>4, <2>1 DEF StrictSubsetOrdering
  <2> QED BY <1>3, <2>2
<1> QED BY <1>5

(* A function by which FlattenSeq may be defined: its value at i is the    *)
(* concatenation of the first i sequences.                                 *)
Steps(f, s, n) == \A i \in 1 .. n : f[i] = IF i = 1 THEN s[i] ELSE f[i - 1] \o s[i]

Concatenates(f, s, n, S) == f \in [1 .. n -> Seq(S)] /\ Steps(f, s, n)

(* There is such a function: by induction on the number of sequences.      *)
LEMMA Concatenation ==
  ASSUME NEW S, NEW s \in Seq(Seq(S)), NEW n \in 1 .. Len(s)
  PROVE  \E f : Concatenates(f, s, n, S)
<1> DEFINE Exists(k) == \E f : Concatenates(f, s, k, S)
           Bad == {k \in 1 .. Len(s) : ~Exists(k)}
<1>1. ASSUME NEW m \in Bad, \A k \in Bad : m <= k PROVE FALSE
  <2>1. m \in 1 .. Len(s) /\ ~Exists(m) /\ s[m] \in Seq(S) /\ Len(s) \in Nat
    <3>1. m \in 1 .. Len(s) /\ ~Exists(m)
      OBVIOUS
    <3> QED BY <3>1
  <2>2. CASE m = 1
    <3> DEFINE f == [i \in 1 .. 1 |-> s[1]]
    <3>1. f \in [1 .. 1 -> Seq(S)] /\ \A i \in 1 .. 1 : i = 1 /\ f[i] = s[i]
      BY <2>1, <2>2
    <3> HIDE DEF f
    <3>2. Concatenates(f, s, 1, S)
      BY <3>1 DEF Concatenates, Steps
    <3> QED BY <2>1, <2>2, <3>2
  <2>3. CASE m # 1
    <3>1. m - 1 \in 1 .. Len(s) /\ ~(m <= m - 1)
      BY <2>1, <2>3
    <3>2. Exists(m - 1)
      BY <1>1, <3>1
    <3>3. PICK f \in [1 .. m - 1 -> Seq(S)] :
            \A i \in 1 .. m - 1 : f[i] = IF i = 1 THEN s[i] ELSE f[i - 1] \o s[i]
      BY <3>2 DEF Concatenates, Steps
    <3> DEFINE c == f[m - 1] \o s[m]
               g == [i \in 1 .. m |-> IF i = m THEN c ELSE f[i]]
    <3>4. f[m - 1] \in Seq(S) /\ m \in Nat
      BY <2>1, <3>1, <3>3
    <3>5. c \in Seq(S)
      BY <2>1, <3>4, ConcatProperties
    <3> HIDE DEF c
    <3>6. g \in [1 .. m -> Seq(S)]
      BY <2>1, <3>3, <3>5
    <3>7. ASSUME NEW i \in 1 .. m
          PROVE  g[i] = IF i = 1 THEN s[i] ELSE g[i - 1] \o s[i]
      <4>1. CASE i = m
        <5>1. g[i] = c /\ g[i - 1] = f[m - 1]
          BY <2>1, <2>3, <4>1
        <5> QED BY <2>3, <4>1, <5>1 DEF c
      <4>2. CASE i # m
        <5>1. i \in 1 .. m - 1 /\ (i # 1 => i - 1 \in 1 .. m - 1)
          BY <2>1, <4>2
        <5>2. g[i] = f[i] /\ (i # 1 => g[i - 1] = f[i - 1])
          BY <2>1, <4>2, <5>1
        <5> HIDE DEF g
        <5> QED BY <3>3, <5>1, <5>2
      <4> QED BY <4>1, <4>2
    <3> HIDE DEF g
    <3>8. Concatenates(g, s, m, S)
      BY <3>6, <3>7 DEF Concatenates, Steps
    <3> QED BY <2>1, <3>8
  <2> QED BY <2>2, <2>3
<1>2. Bad = {}
  <2>1. Bad \in SUBSET Nat
    OBVIOUS
  <2> HIDE DEF Bad
  <2> QED BY <1>1, <2>1, Least
<1> QED BY <1>2

(* Two such functions agree, up to where both go.                          *)
LEMMA ConcatenationIsOne ==
  ASSUME NEW S, NEW s, NEW t, NEW n \in Nat, \A i \in 1 .. n : t[i] = s[i],
         NEW f, Steps(f, s, n), NEW g, Steps(g, t, n)
  PROVE  \A i \in 1 .. n : f[i] = g[i]
<1> DEFINE Bad == {i \in 1 .. n : f[i] # g[i]}
<1>1. ASSUME NEW m \in Bad, \A k \in Bad : m <= k PROVE FALSE
  <2>1. m \in 1 .. n /\ f[m] # g[m] /\ t[m] = s[m]
    OBVIOUS
  <2>2. CASE m = 1
    BY <2>1, <2>2 DEF Steps
  <2>3. CASE m # 1
    <3>1. m - 1 \in 1 .. n /\ ~(m <= m - 1)
      BY <2>1, <2>3
    <3>2. f[m - 1] = g[m - 1]
      BY <1>1, <3>1
    <3>3. f[m] = f[m - 1] \o s[m] /\ g[m] = g[m - 1] \o t[m]
      BY <2>1, <2>3 DEF Steps
    <3> QED BY <2>1, <3>2, <3>3
  <2> QED BY <2>2, <2>3
<1>2. Bad \in SUBSET Nat
  OBVIOUS
<1>3. Bad = {}
  <2> HIDE DEF Bad
  <2> QED BY <1>1, <1>2, Least
<1> QED BY <1>3

(* What FlattenSeq chooses is such a function.                             *)
LEMMA FlattenChooses ==
  ASSUME NEW S, NEW s \in Seq(Seq(S)), Len(s) # 0
  PROVE  \E f : Concatenates(f, s, Len(s), S) /\ FlattenSeq(s) = f[Len(s)]
<1> DEFINE n == Len(s)
           Is(f) == f = [i \in 1 .. n |-> IF i = 1 THEN s[i] ELSE f[i - 1] \o s[i]]
           f == CHOOSE f : Is(f)
<1>1. n \in 1 .. n /\ n \in Nat
  OBVIOUS
<1>2. FlattenSeq(s) = f[n]
  BY DEF FlattenSeq
<1>3. PICK g : Concatenates(g, s, n, S)
  BY <1>1, Concatenation
<1>4. Is(g)
  BY <1>3 DEF Concatenates, Steps
<1>5. Is(f)
  <2> HIDE DEF Is
  <2> QED BY <1>4
<1> HIDE DEF f
<1>6. DOMAIN f = 1 .. n /\ f = [i \in 1 .. n |-> f[i]] /\ Steps(f, s, n)
  BY <1>5 DEF Steps
<1>7. \A i \in 1 .. n : f[i] = g[i]
  <2> HIDE DEF n
  <2>1. Steps(g, s, n) /\ n \in Nat
    BY <1>1, <1>3 DEF Concatenates
  <2> QED BY <1>6, <2>1, ConcatenationIsOne
<1>8. \A i \in 1 .. n : f[i] \in Seq(S)
  BY <1>3, <1>7 DEF Concatenates, Steps
<1>9. f \in [1 .. n -> Seq(S)]
  BY <1>6, <1>8
<1> QED BY <1>2, <1>6, <1>9 DEF Concatenates, Steps

(* FlattenSeq, sequence by sequence.                                       *)
LEMMA FlattenAppend ==
  ASSUME NEW S, NEW s \in Seq(Seq(S)), NEW x \in Seq(S)
  PROVE  /\ FlattenSeq(<<>>) = <<>>
         /\ FlattenSeq(s) \in Seq(S)
         /\ FlattenSeq(Append(s, x)) = FlattenSeq(s) \o x
<1> DEFINE n == Len(s)
           t == Append(s, x)
<1>1. /\ n \in Nat /\ t \in Seq(Seq(S)) /\ Len(t) = n + 1 /\ t[n + 1] = x
      /\ \A i \in 1 .. n : t[i] = s[i]
  OBVIOUS
<1>2. FlattenSeq(<<>>) = <<>>
  BY DEF FlattenSeq
<1> HIDE DEF t
<1>3. PICK f : Concatenates(f, t, n + 1, S) /\ FlattenSeq(t) = f[n + 1]
  BY <1>1, FlattenChooses
<1>4. CASE n = 0
  <2>1. s = <<>> /\ FlattenSeq(s) = <<>> /\ <<>> \in Seq(S)
    BY <1>2, <1>4
  <2>2. FlattenSeq(t) = x
    BY <1>1, <1>3, <1>4 DEF Concatenates, Steps
  <2>3. <<>> \o x = x
    BY ConcatEmptySeq
  <2> QED BY <1>2, <2>1, <2>2, <2>3 DEF t
<1>5. CASE n # 0
  <2>1. PICK g : Concatenates(g, s, n, S) /\ FlattenSeq(s) = g[n]
    BY <1>5, FlattenChooses
  <2>2. n \in 1 .. n /\ n + 1 \in 1 .. n + 1 /\ n + 1 # 1 /\ (n + 1) - 1 = n
    BY <1>1, <1>5
  <2>3. Steps(f, t, n) /\ Steps(g, s, n)
    <3> HIDE DEF n
    <3>1. \A i \in 1 .. n : i \in 1 .. n + 1
      BY <1>1
    <3> QED BY <1>3, <2>1, <3>1 DEF Concatenates, Steps
  <2>4. \A i \in 1 .. n : g[i] = f[i]
    <3> HIDE DEF n
    <3>1. n \in Nat /\ \A i \in 1 .. n : t[i] = s[i]
      BY <1>1
    <3> QED BY <2>3, <3>1, ConcatenationIsOne
  <2>5. f[n] = g[n] /\ g[n] \in Seq(S)
    BY <2>1, <2>2, <2>4 DEF Concatenates, Steps
  <2>6. FlattenSeq(t) = f[n] \o x
    BY <1>1, <1>3, <2>2 DEF Concatenates, Steps
  <2> QED BY <1>2, <2>1, <2>5, <2>6 DEF t
<1> QED BY <1>4, <1>5

(* A sequence without repetitions, and the membership of one.              *)
Distinct(s) == \A k, l \in 1 .. Len(s) : s[k] = s[l] => k = l

Has(s, x) == \E k \in 1 .. Len(s) : s[k] = x

(* It is as long as it has elements, and no longer than a set it is from.  *)
LEMMA DistinctLength ==
  ASSUME NEW S, IsFiniteSet(S), NEW s \in Seq(S), Distinct(s)
  PROVE  /\ Cardinality({x \in S : Has(s, x)}) = Len(s)
         /\ Len(s) <= Cardinality(S)
<1> DEFINE n == Len(s)
           T == {x \in S : Has(s, x)}
<1>1. s \in [1 .. n -> T] /\ n \in Nat
  BY DEF Has
<1>2. \A x \in T : \E k \in 1 .. n : s[k] = x
  BY DEF Has
<1> HIDE DEF T
<1>3. s \in Bijection(1 .. n, T)
  <2>1. s \in Injection(1 .. n, T)
    BY <1>1 DEF Distinct, Injection, IsInjective
  <2>2. s \in Surjection(1 .. n, T)
    BY <1>1, <1>2 DEF Surjection
  <2> QED BY <2>1, <2>2 DEF Bijection
<1>4. Cardinality(T) = n
  BY <1>1, <1>3, FS_CountingElements DEF ExistsBijection
<1>5. Cardinality(T) <= Cardinality(S)
  BY FS_Subset DEF T
<1> QED BY <1>4, <1>5 DEF T

(* What an element put before the others, or behind them, makes of it.     *)
LEMMA DistinctPush ==
  ASSUME NEW S, NEW s \in Seq(S), Distinct(s), NEW x \in S, ~Has(s, x)
  PROVE  /\ <<x>> \o s \in Seq(S) /\ Len(<<x>> \o s) = Len(s) + 1
         /\ \A k \in 1 .. Len(s) + 1 : (<<x>> \o s)[k] = IF k = 1 THEN x ELSE s[k - 1]
         /\ Distinct(<<x>> \o s)
         /\ \A y : Has(<<x>> \o s, y) <=> y = x \/ Has(s, y)
<1> DEFINE t == <<x>> \o s
           n == Len(s)
<1>1. /\ t \in Seq(S) /\ Len(t) = n + 1 /\ n \in Nat
      /\ \A k \in 1 .. n + 1 : t[k] = IF k = 1 THEN x ELSE s[k - 1]
  OBVIOUS
<1> HIDE DEF t
<1>2. \A k \in 1 .. n + 1 : k # 1 => k - 1 \in 1 .. n
  BY <1>1
<1>3. Distinct(t)
  <2> SUFFICES ASSUME NEW k \in 1 .. n + 1, NEW l \in 1 .. n + 1, t[k] = t[l]
               PROVE  k = l
    BY <1>1 DEF Distinct
  <2>1. CASE k = 1 /\ l = 1
    BY <2>1
  <2>2. CASE k = 1 /\ l # 1
    BY <1>1, <1>2, <2>2 DEF Has
  <2>3. CASE k # 1 /\ l = 1
    BY <1>1, <1>2, <2>3 DEF Has
  <2>4. CASE k # 1 /\ l # 1
    <3>1. PICK i \in 1 .. n, j \in 1 .. n : i = k - 1 /\ j = l - 1
      BY <1>2, <2>4
    <3>2. s[i] = s[j]
      BY <1>1, <2>4, <3>1
    <3>3. i = j
      BY <3>2 DEF Distinct
    <3> QED BY <1>1, <3>1, <3>3
  <2> QED BY <2>1, <2>2, <2>3, <2>4
<1>4. ASSUME NEW y PROVE Has(t, y) <=> y = x \/ Has(s, y)
  <2>1. ASSUME NEW k \in 1 .. n, s[k] = y PROVE Has(t, y)
    <3>1. k + 1 \in 1 .. n + 1 /\ k + 1 # 1 /\ (k + 1) - 1 = k
      BY <1>1
    <3> QED BY <1>1, <2>1, <3>1 DEF Has
  <2>2. 1 \in 1 .. n + 1 /\ t[1] = x
    BY <1>1
  <2>3. ASSUME NEW k \in 1 .. n + 1, t[k] = y PROVE y = x \/ Has(s, y)
    BY <1>1, <1>2, <2>3 DEF Has
  <2> QED BY <1>1, <2>1, <2>2, <2>3 DEF Has
<1> QED BY <1>1, <1>3, <1>4 DEF t

(* Two sequences that have no element in common, one behind the other.     *)
LEMMA DistinctConcat ==
  ASSUME NEW S, NEW s \in Seq(S), NEW t \in Seq(S), Distinct(s), Distinct(t),
         \A x : ~(Has(s, x) /\ Has(t, x))
  PROVE  /\ s \o t \in Seq(S) /\ Distinct(s \o t)
         /\ \A x : Has(s \o t, x) <=> Has(s, x) \/ Has(t, x)
<1> DEFINE u == s \o t
           m == Len(s)
           n == Len(t)
<1>1. /\ u \in Seq(S) /\ Len(u) = m + n /\ m \in Nat /\ n \in Nat
      /\ \A k \in 1 .. m + n : u[k] = IF k <= m THEN s[k] ELSE t[k - m]
  BY ConcatProperties
<1> HIDE DEF u
<1>2. \A k \in 1 .. m + n : k \in 1 .. m \/ (~(k <= m) /\ k - m \in 1 .. n)
  BY <1>1
<1>3. Distinct(u)
  <2> SUFFICES ASSUME NEW k \in 1 .. m + n, NEW l \in 1 .. m + n, u[k] = u[l]
               PROVE  k = l
    BY <1>1 DEF Distinct
  <2>1. CASE k \in 1 .. m /\ l \in 1 .. m
    BY <1>1, <2>1 DEF Distinct
  <2>2. CASE k \in 1 .. m /\ ~(l <= m) /\ l - m \in 1 .. n
    <3>1. Has(s, u[k])
      BY <1>1, <2>2 DEF Has
    <3>2. Has(t, u[l])
      BY <1>1, <2>2 DEF Has
    <3> QED BY <3>1, <3>2
  <2>3. CASE l \in 1 .. m /\ ~(k <= m) /\ k - m \in 1 .. n
    <3>1. Has(s, u[l])
      BY <1>1, <2>3 DEF Has
    <3>2. Has(t, u[k])
      BY <1>1, <2>3 DEF Has
    <3> QED BY <3>1, <3>2
  <2>4. CASE ~(k <= m) /\ k - m \in 1 .. n /\ ~(l <= m) /\ l - m \in 1 .. n
    <3>1. k - m = l - m
      BY <1>1, <2>4 DEF Distinct
    <3> QED BY <1>1, <3>1
  <2> QED BY <1>2, <2>1, <2>2, <2>3, <2>4
<1>4. ASSUME NEW x PROVE Has(u, x) <=> Has(s, x) \/ Has(t, x)
  <2>1. ASSUME NEW k \in 1 .. m + n, u[k] = x PROVE Has(s, x) \/ Has(t, x)
    <3>1. CASE k \in 1 .. m
      BY <1>1, <2>1, <3>1 DEF Has
    <3>2. CASE ~(k <= m) /\ k - m \in 1 .. n
      <4>1. PICK j \in 1 .. n : j = k - m
        BY <3>2
      <4>2. t[j] = x
        BY <1>1, <2>1, <3>2, <4>1
      <4> QED BY <4>2 DEF Has
    <3> QED BY <1>2, <3>1, <3>2
  <2>2. ASSUME NEW k \in 1 .. m, s[k] = x PROVE Has(u, x)
    <3>1. k \in 1 .. m + n /\ k <= m
      BY <1>1
    <3> QED BY <1>1, <2>2, <3>1 DEF Has
  <2>3. ASSUME NEW k \in 1 .. n, t[k] = x PROVE Has(u, x)
    <3>1. m + k \in 1 .. m + n /\ ~(m + k <= m) /\ (m + k) - m = k
      BY <1>1
    <3> QED BY <1>1, <2>3, <3>1 DEF Has
  <2> QED BY <1>1, <2>1, <2>2, <2>3 DEF Has
<1> QED BY <1>1, <1>3, <1>4 DEF u

(* Sequences without repetitions that have no element in common, all in a  *)
(* row: by induction on their number.                                      *)
LEMMA FlattenDistinct ==
  ASSUME NEW S, NEW s \in Seq(Seq(S)), \A i \in 1 .. Len(s) : Distinct(s[i]),
         \A i, j \in 1 .. Len(s) : \A x : Has(s[i], x) /\ Has(s[j], x) => i = j
  PROVE  /\ FlattenSeq(s) \in Seq(S) /\ Distinct(FlattenSeq(s))
         /\ \A x : Has(FlattenSeq(s), x) <=> \E i \in 1 .. Len(s) : Has(s[i], x)
<1> DEFINE n == Len(s)
           flat(m) == FlattenSeq(SubSeq(s, 1, m))
           Good(m) == /\ flat(m) \in Seq(S) /\ Distinct(flat(m))
                      /\ \A x : Has(flat(m), x) <=> \E i \in 1 .. m : Has(s[i], x)
           Bad == {m \in 0 .. n : ~Good(m)}
<1>0. n \in Nat /\ \A i \in 1 .. n : s[i] \in Seq(S)
  OBVIOUS
<1>1. Good(0)
  <2>1. SubSeq(s, 1, 0) = <<>>
    OBVIOUS
  <2>2. FlattenSeq(<<>>) = <<>>
    <3>1. <<>> \in Seq(S)
      OBVIOUS
    <3> QED BY <3>1, FlattenAppend
  <2>3. flat(0) = <<>>
    BY <2>1, <2>2
  <2>4. <<>> \in Seq(S) /\ Len(<<>>) = 0
    OBVIOUS
  <2>5. Distinct(<<>>) /\ \A x : ~Has(<<>>, x)
    BY <2>4 DEF Distinct, Has
  <2> HIDE DEF flat
  <2>6. flat(0) \in Seq(S) /\ Distinct(flat(0)) /\ \A x : ~Has(flat(0), x)
    BY <2>3, <2>4, <2>5
  <2>7. \A i : i \notin 1 .. 0
    OBVIOUS
  <2> QED BY <2>6, <2>7
<1>2. ASSUME NEW m \in 1 .. n, Good(m - 1) PROVE Good(m)
  <2> DEFINE p == SubSeq(s, 1, m - 1)
  <2>1. p \in Seq(Seq(S)) /\ SubSeq(s, 1, m) = Append(p, s[m])
    <3>1. m - 1 \in Nat /\ m \in Nat /\ m - 1 <= n /\ m <= n
      BY <1>0
    <3>2. p \in Seq(Seq(S)) /\ Len(p) = m - 1 /\ \A i \in 1 .. m - 1 : p[i] = s[i]
      BY <1>0, <3>1
    <3>3. /\ SubSeq(s, 1, m) \in Seq(Seq(S)) /\ Len(SubSeq(s, 1, m)) = m
          /\ \A i \in 1 .. m : SubSeq(s, 1, m)[i] = s[i]
      BY <1>0, <3>1
    <3> HIDE DEF p
    <3>4. /\ Append(p, s[m]) \in Seq(Seq(S)) /\ Len(Append(p, s[m])) = m
          /\ \A i \in 1 .. m : Append(p, s[m])[i] = s[i]
      BY <1>0, <3>1, <3>2
    <3>5. PICK a \in Seq(Seq(S)), b \in Seq(Seq(S)) :
            a = SubSeq(s, 1, m) /\ b = Append(p, s[m])
      BY <3>3, <3>4
    <3>6. a = b
      BY <3>3, <3>4, <3>5, SeqEqual
    <3> QED BY <3>2, <3>5, <3>6
  <2>2. flat(m) = flat(m - 1) \o s[m] /\ s[m] \in Seq(S) /\ Distinct(s[m])
    BY <1>0, <2>1, FlattenAppend
  <2>3. \A x : ~(Has(flat(m - 1), x) /\ Has(s[m], x))
    <3> SUFFICES ASSUME NEW x, Has(flat(m - 1), x), Has(s[m], x) PROVE FALSE
      OBVIOUS
    <3>1. PICK i \in 1 .. m - 1 : Has(s[i], x)
      BY <1>2
    <3>2. i \in 1 .. n /\ i # m
      BY <1>0
    <3> QED BY <3>1, <3>2
  <2> HIDE DEF flat
  <2>4. /\ flat(m) \in Seq(S) /\ Distinct(flat(m))
        /\ \A x : Has(flat(m), x) <=> Has(flat(m - 1), x) \/ Has(s[m], x)
    BY <1>2, <2>2, <2>3, DistinctConcat
  <2>5. \A i : i \in 1 .. m <=> i \in 1 .. m - 1 \/ i = m
    BY <1>0
  <2> QED BY <1>2, <2>4, <2>5
<1>3. Bad = {}
  <2> HIDE DEF Good
  <2>1. ASSUME NEW m \in Bad, \A k \in Bad : m <= k PROVE FALSE
    <3>1. m # 0 /\ m \in 0 .. n
      BY <1>1
    <3>2. m \in 1 .. n /\ m - 1 \in 0 .. n /\ ~(m <= m - 1)
      BY <1>0, <3>1
    <3>3. Good(m - 1)
      BY <2>1, <3>2
    <3> QED BY <1>2, <3>2, <3>3
  <2>2. Bad \in SUBSET Nat
    OBVIOUS
  <2> HIDE DEF Bad
  <2> QED BY <2>1, <2>2, Least
<1>4. Good(n)
  <2> HIDE DEF Good
  <2>1. n \in 0 .. n
    BY <1>0
  <2> QED BY <1>3, <2>1
<1>5. SubSeq(s, 1, n) = s
  <2>1. SubSeq(s, 1, n) \in Seq(Seq(S)) /\ Len(SubSeq(s, 1, n)) = n
        /\ \A i \in 1 .. n : SubSeq(s, 1, n)[i] = s[i]
    BY <1>0
  <2> QED BY <2>1, SeqEqual
<1> QED BY <1>4, <1>5
=============================================================================
