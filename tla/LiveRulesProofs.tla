--------------------------- MODULE LiveRulesProofs ---------------------------
(***************************************************************************)
(* What a client evaluates is accepted by the definition the version was   *)
(* saved under, for every hash, context and set of definitions; the        *)
(* accessors generated for that definition fit it, however names are made; *)
(* rollouts split by their weights and ramp up forwards; and the loops of  *)
(* both SDKs evaluate what the server does.                                *)
(***************************************************************************)
EXTENDS LiveClients, FiniteSetTheorems, WellFoundedInduction, TLAPS

\* The minimum of a nonempty set of natural numbers is in it and below the others: what
\* the loops of Resolve and bucket stop at.
LEMMA MinInSet ==
  ASSUME NEW S \in SUBSET Nat, S # {}
  PROVE  Min(S) \in S /\ \A y \in S : Min(S) <= y
<1> DEFINE R == {ss \in Nat \X Nat : ss[1] < ss[2]}
<1>1. IsWellFoundedOn(R, Nat)
  BY NatLessThanWellFounded, Zenon DEF OpToRel
<1>2. PICK x \in S : \A y \in S : ~(<<y, x>> \in R)
  <2> HIDE DEF R
  <2> QED BY <1>1, WFMin
<1>3. \A y \in S : x <= y
  <2> SUFFICES ASSUME NEW y \in S PROVE ~(y < x)
    OBVIOUS
  <2>1. <<y, x>> \notin R
    BY <1>2
  <2>2. y \in Nat /\ x \in Nat
    OBVIOUS
  <2>3. y < x => <<y, x>> \in R
    BY <2>2
  <2> QED BY <2>1, <2>3
<1> QED BY <1>3 DEF Min

\* The maximum of a nonempty set of indices is in it and above the others.
LEMMA MaxInSet ==
  ASSUME NEW N \in Nat, NEW S \in SUBSET (1 .. N), S # {}
  PROVE  Max(S) \in S /\ \A y \in S : y <= Max(S)
<1> DEFINE T == {N - x : x \in S}
<1>1. T \in SUBSET Nat /\ T # {}
  <2>1. \A x \in S : x \in 1 .. N /\ N - x \in Nat
    OBVIOUS
  <2> QED BY <2>1
<1>2. PICK d \in T : \A y \in T : d <= y
  BY <1>1, MinInSet
<1>3. PICK x \in S : d = N - x
  OBVIOUS
<1>4. \A y \in S : y <= x
  <2> TAKE y \in S
  <2>1. d <= N - y
    BY <1>2
  <2> QED BY <1>3, <2>1
<1>5. \A y \in S : x >= y
  BY <1>4
<1>6. Max(S) \in S /\ \A y \in S : Max(S) >= y
  BY <1>5 DEF Max
<1> QED BY <1>6

-----------------------------------------------------------------------------
(* The sums of bucket's loops.                                             *)

\* A list of variants, as it is decoded.
Weighted(variants) ==
  /\ DOMAIN variants = 1 .. Len(variants) /\ Len(variants) \in Nat
  /\ \A j \in DOMAIN variants : variants[j].weight \in Int

\* What the recursion of Sums says of a function s on 0 .. m.
SumsUpTo(variants, m, s) ==
  s = [j \in 0 .. m |-> IF j = 0 THEN 0 ELSE s[j - 1] + variants[j].weight]

\* There are sums up to every length: none is the least without.
LEMMA SumsExist ==
  ASSUME NEW variants, NEW N \in Nat
  PROVE  \E s : SumsUpTo(variants, N, s)
<1> DEFINE Bad == {m \in Nat : ~ \E s : SumsUpTo(variants, m, s)}
<1>1. SUFFICES ASSUME Bad # {} PROVE FALSE
  OBVIOUS
<1>2. PICK m \in Bad : \A y \in Bad : m <= y
  BY <1>1, MinInSet, Bad \subseteq Nat
<1>3. m # 0
  <2>1. SumsUpTo(variants, 0, [j \in 0 .. 0 |-> 0])
    BY DEF SumsUpTo
  <2> QED BY <2>1
<1>4. m - 1 \in Nat /\ m \in Nat
  BY <1>3
<1>5. PICK s : SumsUpTo(variants, m - 1, s)
  BY <1>2, <1>4
<1> DEFINE t == [j \in 0 .. m |-> IF j = m THEN s[m - 1] + variants[m].weight ELSE s[j]]
<1>6. \A j \in 0 .. m - 1 : s[j] = IF j = 0 THEN 0 ELSE s[j - 1] + variants[j].weight
  BY <1>5 DEF SumsUpTo
<1>7. ASSUME NEW j \in 0 .. m
      PROVE  t[j] = IF j = 0 THEN 0 ELSE t[j - 1] + variants[j].weight
  BY <1>3, <1>4, <1>6
<1>8. t = [j \in 0 .. m |-> IF j = 0 THEN 0 ELSE t[j - 1] + variants[j].weight]
  <2>1. t = [j \in 0 .. m |-> t[j]]
    OBVIOUS
  <2> HIDE DEF t
  <2> QED BY <2>1, <1>7
<1> HIDE DEF t
<1> QED BY <1>8 DEF SumsUpTo

\* Sums is what its recursion says.
LEMMA SumsAre ==
  ASSUME NEW variants, Weighted(variants)
  PROVE  /\ Cumulative(variants, 0) = 0
         /\ \A j \in DOMAIN variants :
              Cumulative(variants, j) = Cumulative(variants, j - 1) + variants[j].weight
         /\ \A j \in 0 .. Len(variants) : Cumulative(variants, j) \in Int
<1> DEFINE N == Len(variants)
           c == Sums(variants)
<1>1. SumsUpTo(variants, N, c)
  <2>1. c = CHOOSE f : SumsUpTo(variants, N, f)
    BY DEF Sums, SumsUpTo
  <2>2. N \in Nat
    BY DEF Weighted
  <2> HIDE DEF c, N
  <2> QED BY <2>1, <2>2, SumsExist
<1>2. \A j \in 0 .. N : c[j] = IF j = 0 THEN 0 ELSE c[j - 1] + variants[j].weight
  <2> HIDE DEF c
  <2> QED BY <1>1 DEF SumsUpTo
<1> HIDE DEF c
<1>3. \A j \in 0 .. N : c[j] \in Int
  <2> DEFINE Bad == {j \in 0 .. N : c[j] \notin Int}
  <2>1. SUFFICES ASSUME Bad # {} PROVE FALSE
    OBVIOUS
  <2>2. PICK m \in Bad : \A y \in Bad : m <= y
    BY <2>1, MinInSet, Bad \subseteq Nat
  <2>3. m # 0
    BY <1>2, <2>2
  <2>4. m - 1 \in 0 .. N /\ m - 1 \notin Bad /\ m \in 1 .. N
    BY <2>2, <2>3
  <2>5. c[m] = c[m - 1] + variants[m].weight /\ c[m - 1] \in Int
    BY <1>2, <2>3, <2>4
  <2>6. variants[m].weight \in Int
    BY <2>4 DEF Weighted
  <2> QED BY <2>2, <2>5, <2>6
<1> QED BY <1>2, <1>3 DEF Weighted, Cumulative, c

\* Without negative weights the sums do not decrease.
LEMMA SumsGrow ==
  ASSUME NEW variants, Weighted(variants),
         \A j \in DOMAIN variants : variants[j].weight >= 0,
         NEW i \in 0 .. Len(variants), NEW j \in 0 .. Len(variants), i <= j
  PROVE  Cumulative(variants, i) <= Cumulative(variants, j)
<1> DEFINE c(n) == Cumulative(variants, n)
           N == Len(variants)
           Bad == {n \in 0 .. N : i <= n /\ ~(c(i) <= c(n))}
<1>1. SUFFICES ASSUME Bad # {} PROVE FALSE
  OBVIOUS
<1>2. PICK m \in Bad : \A y \in Bad : m <= y
  BY <1>1, MinInSet, Bad \subseteq Nat
<1>3. \A n \in 0 .. N : c(n) \in Int
  BY SumsAre
<1> HIDE DEF c
<1>4. m # i /\ m \in 1 .. N
  BY <1>2, <1>3
<1>5. m - 1 \in 0 .. N /\ m - 1 \notin Bad /\ i <= m - 1
  BY <1>2, <1>4
<1>6. c(m) = c(m - 1) + variants[m].weight /\ variants[m].weight \in Int /\ variants[m].weight >= 0
  BY <1>4, SumsAre DEF c, Weighted
<1> QED BY <1>2, <1>3, <1>4, <1>5, <1>6

\* The weights of a rollout that was validated.
Splitting(variants) ==
  /\ Weighted(variants)
  /\ \A j \in DOMAIN variants : variants[j].weight >= 0
  /\ Cumulative(variants, Len(variants)) > 0

\* Products of natural numbers keep an order.
LEMMA TimesKeepsOrder ==
  ASSUME NEW x \in Int, NEW y \in Int, NEW z \in Nat
  PROVE  /\ x * z \in Int
         /\ x <= y => x * z <= y * z
         /\ x < y /\ z > 0 => x * z < y * z
  BY SMTT(30)

\* Somebody's point is past the sum before the variant they get, or at it, and not past
\* the next one: the last variant is never a fallback in exact arithmetic.
LEMMA IndexBySums ==
  ASSUME NEW variants, Splitting(variants), NEW n \in 0 .. Buckets - 1
  PROVE  LET total == Cumulative(variants, Len(variants))
             index == VariantIndex(variants, n)
         IN  /\ PastPoint(variants, n) # {} /\ PastPoint(variants, n) \in SUBSET Nat
             /\ index = Min(PastPoint(variants, n))
             /\ index \in DOMAIN variants
             /\ \A i \in DOMAIN variants :
                  index = i <=> /\ Cumulative(variants, i - 1) * Buckets <= n * total
                                /\ n * total < Cumulative(variants, i) * Buckets
<1> DEFINE N == Len(variants)
           s(i) == Cumulative(variants, i)
           sB(i) == s(i) * Buckets
           nT == n * s(N)
           Past == {i \in DOMAIN variants : nT < sB(i)}
           index == VariantIndex(variants, n)
<1>1. /\ N \in Nat /\ DOMAIN variants = 1 .. N
      /\ s(0) = 0 /\ s(N) > 0
      /\ \A i \in 0 .. N : s(i) \in Int
      /\ Buckets \in Nat /\ Buckets > 0
  BY SumsAre, BucketsAssumption DEF Splitting, Weighted
<1>2. \A i, j \in 0 .. N : i <= j => s(i) <= s(j)
  BY SumsGrow DEF Splitting
<1>3. N > 0
  BY <1>1
<1>4. PastPoint(variants, n) = Past
  BY DEF PastPoint
<1> HIDE DEF s
<1>5. nT \in Int /\ 0 <= nT /\ nT < sB(N)
  <2>1. s(N) \in Nat /\ 0 <= n /\ n < Buckets
    BY <1>1, <1>3
  <2>2. n * s(N) \in Int /\ 0 * s(N) <= n * s(N) /\ n * s(N) < Buckets * s(N)
    BY <2>1, <1>1, TimesKeepsOrder
  <2>3. Buckets * s(N) = s(N) * Buckets /\ 0 * s(N) = 0
    BY <2>1, <1>1
  <2> QED BY <2>2, <2>3
<1>6. \A i \in 0 .. N : sB(i) \in Int
  BY <1>1, TimesKeepsOrder
<1>7. \A i, j \in 0 .. N : i <= j => sB(i) <= sB(j)
  <2> TAKE i, j \in 0 .. N
  <2> HAVE i <= j
  <2>1. s(i) \in Int /\ s(j) \in Int /\ s(i) <= s(j)
    BY <1>1, <1>2
  <2> QED BY <2>1, <1>1, TimesKeepsOrder
<1>8. sB(0) = 0
  BY <1>1
<1> HIDE DEF nT, sB
<1>9. N \in Past /\ Past \in SUBSET Nat
  BY <1>1, <1>3, <1>5
<1>10. index = Min(Past)
  <2> HIDE DEF Past
  <2> QED BY <1>4, <1>9 DEF VariantIndex
<1>11. index \in Past /\ \A i \in Past : index <= i
  <2> HIDE DEF Past, index
  <2> QED BY <1>9, <1>10, MinInSet
<1> HIDE DEF index
<1>12. ASSUME NEW i \in DOMAIN variants, index = i PROVE sB(i - 1) <= nT /\ nT < sB(i)
  <2>1. nT < sB(i)
    BY <1>11, <1>12
  <2>2. CASE i = 1
    BY <2>1, <2>2, <1>5, <1>8
  <2>3. CASE i # 1
    <3>1. i - 1 \in DOMAIN variants /\ i - 1 \in 0 .. N /\ ~(i <= i - 1)
      BY <2>3, <1>1
    <3>2. i - 1 \notin Past
      BY <3>1, <1>11, <1>12
    <3> QED BY <3>1, <3>2, <2>1, <1>5, <1>6
  <2> QED BY <2>2, <2>3
<1>13. ASSUME NEW i \in DOMAIN variants, sB(i - 1) <= nT, nT < sB(i) PROVE index = i
  <2>1. index <= i /\ index \in 1 .. N /\ i \in 1 .. N
    BY <1>1, <1>11, <1>13
  <2>2. SUFFICES ASSUME index < i PROVE FALSE
    BY <2>1
  <2>3. sB(index) <= sB(i - 1)
    BY <2>1, <2>2, <1>7, <1>1
  <2>4. nT < sB(index) /\ sB(index) \in Int /\ sB(i - 1) \in Int
    BY <1>11, <1>6, <2>1, <1>1
  <2> QED BY <2>3, <2>4, <1>5, <1>13
<1> QED BY <1>4, <1>9, <1>10, <1>11, <1>12, <1>13 DEF s, sB, nT, index

\* Moving weight towards the first variants moves nobody to a later one.
LEMMA RampedIndex ==
  ASSUME NEW old, NEW new, Splitting(old.variants), Splitting(new.variants), RampedUp(old, new),
         NEW n \in 0 .. Buckets - 1
  PROVE  VariantIndex(new.variants, n) <= VariantIndex(old.variants, n)
<1> DEFINE v == old.variants
           w == new.variants
<1>1. /\ Weighted(v) /\ Weighted(w) /\ Len(v) = Len(w) /\ Len(v) \in Nat
      /\ DOMAIN v = 1 .. Len(v) /\ DOMAIN w = 1 .. Len(v)
      /\ Cumulative(v, Len(v)) = Cumulative(w, Len(v))
      /\ \A i \in DOMAIN v : Cumulative(v, i) <= Cumulative(w, i)
  BY DEF Splitting, Weighted, RampedUp
<1>2. /\ \A i \in 0 .. Len(v) : Cumulative(v, i) \in Int /\ Cumulative(w, i) \in Int
      /\ Buckets \in Nat
  BY <1>1, SumsAre, BucketsAssumption
<1>3. n * Cumulative(v, Len(v)) \in Int
  <2>1. Len(v) \in 0 .. Len(v)
    BY <1>1
  <2>2. Cumulative(v, Len(v)) \in Int
    BY <1>2, <2>1
  <2> QED BY <2>2
<1>4. PastPoint(v, n) \subseteq PastPoint(w, n)
  <2> SUFFICES ASSUME NEW i \in DOMAIN v,
                      n * Cumulative(v, Len(v)) < Cumulative(v, i) * Buckets
               PROVE  i \in DOMAIN w /\ n * Cumulative(w, Len(w)) < Cumulative(w, i) * Buckets
    BY DEF PastPoint
  <2>1. i \in DOMAIN w /\ n * Cumulative(w, Len(w)) = n * Cumulative(v, Len(v))
    BY <1>1
  <2>2. Cumulative(v, i) \in Int /\ Cumulative(w, i) \in Int /\ Cumulative(v, i) <= Cumulative(w, i)
    BY <1>1, <1>2
  <2>3. /\ Cumulative(v, i) * Buckets <= Cumulative(w, i) * Buckets
        /\ Cumulative(v, i) * Buckets \in Int /\ Cumulative(w, i) * Buckets \in Int
    BY <2>2, <1>2, TimesKeepsOrder
  <2> DEFINE nT == n * Cumulative(v, Len(v))
             vB == Cumulative(v, i) * Buckets
             wB == Cumulative(w, i) * Buckets
  <2>4. nT \in Int /\ vB \in Int /\ wB \in Int /\ nT < vB /\ vB <= wB
    BY <1>3, <2>3
  <2> HIDE DEF nT, vB, wB
  <2>5. nT < wB
    BY <2>4
  <2> QED BY <2>1, <2>5 DEF nT, wB
<1>5. /\ VariantIndex(v, n) = Min(PastPoint(v, n)) /\ PastPoint(v, n) # {}
      /\ PastPoint(v, n) \in SUBSET Nat
  BY IndexBySums
<1>6. VariantIndex(w, n) = Min(PastPoint(w, n)) /\ PastPoint(w, n) \in SUBSET Nat
  BY IndexBySums
<1>7. Min(PastPoint(v, n)) \in PastPoint(w, n)
  BY <1>4, <1>5, MinInSet
<1> QED BY <1>5, <1>6, <1>7, MinInSet

\* The least n that reaches x in steps of total.
LEMMA Reaching ==
  ASSUME NEW total \in Nat, total > 0, NEW x \in Nat
  PROVE  \E u \in Nat : /\ x <= u * total /\ u * total < x + total
                        /\ \A n \in Nat : x <= n * total <=> u <= n
<1> DEFINE R == {n \in Nat : x <= n * total}
           u == Min(R)
<1>1. x \in R
  <2>1. x * 1 <= x * total
    BY TimesKeepsOrder, x * total = total * x, x * 1 = 1 * x
  <2> QED BY <2>1
<1>2. u \in R /\ \A n \in R : u <= n
  <2> HIDE DEF u
  <2>1. R \in SUBSET Nat /\ R # {}
    BY <1>1
  <2> HIDE DEF R
  <2> QED BY <2>1, MinInSet DEF u
<1> HIDE DEF u
<1>3. u \in Nat /\ x <= u * total /\ u * total \in Int
  BY <1>2, TimesKeepsOrder
<1>4. u * total < x + total
  <2>1. CASE u = 0
    BY <2>1
  <2>2. CASE u # 0
    <3>1. u - 1 \in Nat /\ u - 1 \notin R
      BY <1>2, <1>3, <2>2
    <3>2. (u - 1) * total < x /\ (u - 1) * total \in Int
      BY <3>1, TimesKeepsOrder
    <3>3. (u - 1) * total = u * total - total
      BY <1>3, SMTT(30)
    <3> QED BY <1>3, <3>2, <3>3
  <2> QED BY <2>1, <2>2
<1>5. ASSUME NEW n \in Nat PROVE x <= n * total <=> u <= n
  <2>1. u <= n => u * total <= n * total
    BY <1>3, TimesKeepsOrder
  <2>2. n * total \in Int
    BY TimesKeepsOrder
  <2>3. x <= n * total => u <= n
    BY <1>2
  <2> QED BY <1>3, <2>1, <2>2, <2>3
<1> QED BY <1>3, <1>4, <1>5

\* The buckets of a variant are those between two sums, so there are as many as its
\* share, to within one.
LEMMA ShareOfVariant ==
  ASSUME NEW v, Splitting(v), NEW i \in DOMAIN v
  PROVE  LET total == Cumulative(v, Len(v))
             taken == Cardinality({n \in 0 .. Buckets - 1 : VariantIndex(v, n) = i})
         IN  taken * total - v[i].weight * Buckets \in 1 - total .. total - 1
<1> DEFINE N == Len(v)
           total == Cumulative(v, N)
           low == Cumulative(v, i - 1)
           high == Cumulative(v, i)
           lowB == low * Buckets
           highB == high * Buckets
           takers == {n \in 0 .. Buckets - 1 : VariantIndex(v, n) = i}
<1>1. N \in Nat /\ i \in 1 .. N /\ Buckets \in Nat /\ Buckets > 0 /\ Weighted(v)
  BY BucketsAssumption DEF Splitting, Weighted
<1>2. /\ \A j \in 0 .. N : Cumulative(v, j) \in Int
      /\ Cumulative(v, 0) = 0 /\ high = low + v[i].weight
  BY <1>1, SumsAre
<1>3. 0 <= low /\ low <= high /\ high <= total
  BY <1>1, <1>2, SumsGrow DEF Splitting
<1>4. low \in Nat /\ high \in Nat /\ total \in Nat /\ total > 0
  BY <1>1, <1>2, <1>3 DEF Splitting
<1>5. v[i].weight \in Int /\ v[i].weight = high - low
  BY <1>1, <1>2, <1>4 DEF Weighted
<1>6. \A n \in 0 .. Buckets - 1 : VariantIndex(v, n) = i <=> lowB <= n * total /\ n * total < highB
  BY IndexBySums
<1> HIDE DEF total, low, high
<1>7. /\ lowB \in Nat /\ highB \in Nat /\ lowB <= highB
      /\ highB <= total * Buckets
      /\ v[i].weight * Buckets = highB - lowB
  <2>1. 0 * Buckets <= low * Buckets /\ low * Buckets <= high * Buckets
        /\ high * Buckets <= total * Buckets /\ low * Buckets \in Int /\ high * Buckets \in Int
    BY <1>1, <1>3, <1>4, TimesKeepsOrder
  <2>2. (high - low) * Buckets = high * Buckets - low * Buckets
    BY <1>1, <1>4, SMTT(30)
  <2>3. 0 * Buckets = 0
    BY <1>1
  <2> QED BY <1>5, <2>1, <2>2, <2>3
<1> HIDE DEF lowB, highB
<1>8. PICK a \in Nat : /\ lowB <= a * total /\ a * total < lowB + total
                       /\ \A n \in Nat : lowB <= n * total <=> a <= n
  BY <1>4, <1>7, Reaching
<1>9. PICK b \in Nat : /\ highB <= b * total /\ b * total < highB + total
                       /\ \A n \in Nat : highB <= n * total <=> b <= n
  BY <1>4, <1>7, Reaching
<1>10. a <= b /\ b <= Buckets
  <2>1. lowB <= b * total
    <3>1. b * total \in Int
      BY <1>4, TimesKeepsOrder
    <3> QED BY <3>1, <1>7, <1>9
  <2>2. total * Buckets = Buckets * total
    BY <1>1, <1>4
  <2>3. a <= b
    BY <2>1, <1>8
  <2>4. highB <= Buckets * total
    BY <2>2, <1>7
  <2>5. b <= Buckets
    BY <2>4, <1>1, <1>9
  <2> QED BY <2>3, <2>5
<1>11. takers = a .. b - 1
  <2>1. ASSUME NEW n \in 0 .. Buckets - 1
        PROVE  (lowB <= n * total /\ n * total < highB) <=> a <= n /\ ~(b <= n)
    <3>1. n * total \in Int /\ n \in Nat
      BY <1>4, TimesKeepsOrder
    <3>2. n * total < highB <=> ~(highB <= n * total)
      BY <3>1, <1>7
    <3> QED BY <3>1, <3>2, <1>8, <1>9
  <2>2. a .. b - 1 \subseteq 0 .. Buckets - 1
    BY <1>1, <1>10
  <2>3. \A n \in 0 .. Buckets - 1 : (a <= n /\ ~(b <= n)) <=> n \in a .. b - 1
    OBVIOUS
  <2>4. takers \subseteq 0 .. Buckets - 1
    OBVIOUS
  <2>5. \A n \in 0 .. Buckets - 1 : n \in takers <=> n \in a .. b - 1
    BY <1>6, <2>1, <2>3
  <2> HIDE DEF takers
  <2> QED BY <2>2, <2>4, <2>5
<1>12. Cardinality(takers) = b - a
  <2>1. Cardinality(a .. b - 1) = IF a > b - 1 THEN 0 ELSE (b - 1) - a + 1
    BY FS_Interval
  <2> HIDE DEF takers
  <2> QED BY <1>10, <1>11, <2>1
<1>13. (b - a) * total = b * total - a * total /\ b * total \in Int /\ a * total \in Int
  BY <1>4, SMTT(30)
<1> HIDE DEF takers
<1>14. Cardinality(takers) * total - v[i].weight * Buckets
         = (b * total - highB) - (a * total - lowB)
  BY <1>7, <1>12, <1>13
<1> DEFINE bT == b * total
           aT == a * total
<1>15. /\ bT \in Int /\ aT \in Int /\ highB <= bT /\ bT < highB + total
       /\ lowB <= aT /\ aT < lowB + total
  BY <1>8, <1>9, <1>13
<1> HIDE DEF bT, aT
<1>16. (bT - highB) - (aT - lowB) \in 1 - total .. total - 1
  BY <1>4, <1>7, <1>15
<1>17. Cardinality(takers) * total - v[i].weight * Buckets \in 1 - total .. total - 1
  BY <1>14, <1>16 DEF bT, aT
<1> QED BY <1>17 DEF takers, total

-----------------------------------------------------------------------------
\* What PayloadsAssumption says of the rules of a payload.
Decoded(rules) ==
  \A k \in DOMAIN rules :
    /\ DOMAIN rules[k] = 1 .. Len(rules[k]) /\ Len(rules[k]) \in Nat
    /\ \A i \in DOMAIN rules[k] :
         LET r == rules[k][i].rollout IN
         /\ r.set \in BOOLEAN
         /\ Weighted(r.variants)
         /\ r.variants = <<>> \/ Len(r.variants) > 0

\* A rollout with variants resolves to the value of one of them, whatever the key hashes to.
LEMMA BucketIsVariant ==
  ASSUME NEW r, NEW key, NEW tk, Weighted(r.variants), Len(r.variants) > 0
  PROVE  \E i \in DOMAIN r.variants : Bucket(r, key, tk) = r.variants[i].value
<1>1. r.variants # <<>>
  OBVIOUS
<1>2. ASSUME NEW n PROVE VariantIndex(r.variants, n) \in DOMAIN r.variants
  <2>1. CASE PastPoint(r.variants, n) = {}
    BY <2>1 DEF VariantIndex, Weighted
  <2>2. CASE PastPoint(r.variants, n) # {}
    <3>1. PastPoint(r.variants, n) \subseteq DOMAIN r.variants
      BY DEF PastPoint
    <3>2. Min(PastPoint(r.variants, n)) \in PastPoint(r.variants, n)
      BY <2>2, <3>1, MinInSet DEF Weighted
    <3> QED BY <2>2, <3>1, <3>2 DEF VariantIndex
  <2> QED BY <2>1, <2>2
<1>3. 1 \in DOMAIN r.variants
  BY DEF Weighted
<1>4. CASE tk = ""
  BY <1>1, <1>3, <1>4 DEF Bucket
<1>5. CASE tk # ""
  <2> DEFINE salt == IF r.salt = "" THEN key ELSE r.salt
  <2>1. Bucket(r, key, tk) = r.variants[VariantIndex(r.variants, Hash[<<salt, key, tk>>])].value
    BY <1>1, <1>5 DEF Bucket
  <2> QED BY <2>1, <1>2
<1> QED BY <1>4, <1>5

\* A rollout that was validated resolves to a value that its field accepts.
LEMMA BucketAccepted ==
  ASSUME NEW f, NEW r, NEW key, NEW tk,
         Weighted(r.variants), r.variants = <<>> \/ Len(r.variants) > 0,
         ValidateRollout(f, r)
  PROVE  FieldAccepts(f, Bucket(r, key, tk))
<1>1. r.variants # <<>>
  <2>1. SUFFICES ASSUME r.variants = <<>> PROVE FALSE
    OBVIOUS
  <2>2. Len(r.variants) = 0
    BY <2>1
  <2>3. Cumulative(r.variants, Len(r.variants)) = 0
    BY <2>2, SumsAre
  <2> QED BY <2>3 DEF ValidateRollout
<1> QED BY <1>1, BucketIsVariant DEF ValidateRollout

\* A field with validated rules resolves to a value it accepts, or to its base.
LEMMA ResolveAccepted ==
  ASSUME NEW f, NEW rules, NEW key, NEW base, NEW ctx,
         DOMAIN rules = 1 .. Len(rules), Len(rules) \in Nat,
         \A i \in DOMAIN rules :
           /\ rules[i].rollout.set \in BOOLEAN
           /\ Weighted(rules[i].rollout.variants)
           /\ rules[i].rollout.variants = <<>> \/ Len(rules[i].rollout.variants) > 0,
         \A i \in DOMAIN rules : ValidateRule(f, rules[i])
  PROVE  \/ Resolve(key, base, rules, ctx) = base
         \/ FieldAccepts(f, Resolve(key, base, rules, ctx))
<1>1. CASE Matching(rules, ctx) = {}
  BY <1>1 DEF Resolve
<1>2. CASE Matching(rules, ctx) # {}
  <2>1. Matching(rules, ctx) \subseteq DOMAIN rules
    BY DEF Matching
  <2> DEFINE i == Min(Matching(rules, ctx))
  <2>2. i \in DOMAIN rules
    BY <1>2, <2>1, MinInSet
  <2>3. Resolve(key, base, rules, ctx) = Outcome(rules[i], key, ctx)
    BY <1>2 DEF Resolve
  <2> HIDE DEF i
  <2>4. CASE rules[i].rollout.set
    <3>1. ValidateRollout(f, rules[i].rollout)
      BY <2>2, <2>4 DEF ValidateRule
    <3>2. FieldAccepts(f, Bucket(rules[i].rollout, key, ctx.targetingKey))
      BY <2>2, <3>1, BucketAccepted
    <3> QED BY <2>3, <2>4, <3>2 DEF Outcome
  <2>5. CASE ~rules[i].rollout.set
    <3>1. FieldAccepts(f, rules[i].value)
      BY <2>2, <2>5 DEF ValidateRule
    <3> QED BY <2>3, <2>5, <3>1 DEF Outcome
  <2> QED BY <2>4, <2>5
<1> QED BY <1>1, <1>2

-----------------------------------------------------------------------------
\* A version as it is kept.
SavedRows == [payload : Payloads, under : Definitions \cup {<<>>}]

\* Every version was accepted when it was saved and is well formed, and the current
\* version is one of them.
SavedInv ==
  /\ versions \in Seq(SavedRows)
  /\ definition \in Definitions \cup {<<>>}
  /\ current \in 0 .. Len(versions)
  /\ \A i \in DOMAIN versions : Accepted(versions[i].under, versions[i].payload)

\* SavedInv is an invariant: only a save adds a version, and it records the definition
\* it validated under.
THEOREM SavedAlways == Spec => []SavedInv
<1>1. Init => SavedInv
  BY DEF Init, SavedInv
<1>2. SavedInv /\ [Next]_vars => SavedInv'
  <2> SUFFICES ASSUME SavedInv, [Next]_vars PROVE SavedInv'
    OBVIOUS
  <2>1. ASSUME NEW p \in Payloads, PutValues(p) PROVE SavedInv'
    <3> DEFINE row == [payload |-> p, under |-> definition]
    <3>1. /\ versions' = Append(versions, row)
          /\ current' = Len(versions) + 1
          /\ definition' = definition
          /\ Accepted(row.under, row.payload)
      BY <2>1 DEF PutValues
    <3>2. row \in SavedRows
      BY DEF SavedInv, SavedRows
    <3> HIDE DEF row
    <3>3. /\ versions' \in Seq(SavedRows)
          /\ Len(versions') = Len(versions) + 1
          /\ \A i \in DOMAIN versions' :
               \/ i \in DOMAIN versions /\ versions'[i] = versions[i]
               \/ versions'[i] = row
      BY <3>1, <3>2 DEF SavedInv
    <3>4. \A i \in DOMAIN versions' : Accepted(versions'[i].under, versions'[i].payload)
      BY <3>1, <3>3 DEF SavedInv
    <3>5. current' \in 0 .. Len(versions')
      BY <3>1, <3>3 DEF SavedInv
    <3> QED BY <3>1, <3>3, <3>4, <3>5 DEF SavedInv
  <2>2. ASSUME NEW n \in DOMAIN versions, Rollback(n) PROVE SavedInv'
    BY <2>2 DEF Rollback, SavedInv
  <2>3. ASSUME NEW def \in Definitions, PutSchema(def) PROVE SavedInv'
    BY <2>3 DEF PutSchema, SavedInv
  <2>4. CASE UNCHANGED vars
    BY <2>4 DEF vars, SavedInv
  <2> QED BY <2>1, <2>2, <2>3, <2>4 DEF Next
<1> QED BY <1>1, <1>2, PTL DEF Spec

\* Whatever a client evaluates is a value that the definition of the save accepts, or
\* null for an optional field: of matchCondition, bucket and the hash nothing is needed
\* but that they choose a rule and a variant that are there.
THEOREM AlwaysEvaluatesToAccepted == Spec => []EvaluatesToAccepted
<1>1. SavedInv => EvaluatesToAccepted
  <2> SUFFICES ASSUME SavedInv, current # 0, NEW ctx \in Contexts,
                      NEW k \in DOMAIN ResolveAll(Live.values, Live.rules, ctx)
               PROVE  LET result == ResolveAll(Live.values, Live.rules, ctx)
                          def == versions[current].under IN
                      /\ k \in Names(def)
                      /\ \/ FieldAccepts(FieldNamed(def, k), result[k])
                         \/ result[k] = Null /\ \A i \in DOMAIN def :
                                                 def[i].name = k => ~def[i].required
    BY DEF EvaluatesToAccepted
  <2> DEFINE def == versions[current].under
             values == Live.values
             ruleMap == Live.rules
             f == FieldNamed(def, k)
             base == IF k \in DOMAIN values THEN values[k] ELSE Null
             rules == IF k \in DOMAIN ruleMap THEN ruleMap[k] ELSE <<>>
  <2>1. current \in DOMAIN versions
    BY DEF SavedInv
  <2>2. ValuesAccepted(def, values) /\ Validate(def, ruleMap)
    BY <2>1 DEF SavedInv, Accepted, Live
  <2>3. k \in DOMAIN ruleMap => Decoded(ruleMap)
    <3>1. versions[current] \in SavedRows
      BY <2>1 DEF SavedInv
    <3>2. Live \in Payloads
      BY <3>1 DEF Live, SavedRows
    <3> QED BY <3>2, PayloadsAssumption DEF Decoded, Weighted, ruleMap
  <2> HIDE DEF def, values, ruleMap
  <2>4. k \in DOMAIN values \cup DOMAIN ruleMap
    BY DEF ResolveAll, values, ruleMap
  <2>5. ResolveAll(values, ruleMap, ctx)[k] = Resolve(k, base, rules, ctx)
    BY <2>4 DEF ResolveAll
  <2>6. k \in Names(def)
    BY <2>2, <2>4 DEF ValuesAccepted, Validate
  <2>7. k \in DOMAIN values => FieldAccepts(f, base)
    BY <2>2 DEF ValuesAccepted
  <2>8. k \notin DOMAIN values => \A i \in DOMAIN def : def[i].name = k => ~def[i].required
    BY <2>2 DEF ValuesAccepted
  <2>9. Resolve(k, base, rules, ctx) = base \/ FieldAccepts(f, Resolve(k, base, rules, ctx))
    <3>1. CASE k \in DOMAIN ruleMap
      <4>1. /\ DOMAIN rules = 1 .. Len(rules) /\ Len(rules) \in Nat
            /\ \A i \in DOMAIN rules :
                 /\ rules[i].rollout.set \in BOOLEAN
                 /\ Weighted(rules[i].rollout.variants)
                 /\ rules[i].rollout.variants = <<>> \/ Len(rules[i].rollout.variants) > 0
        BY <3>1, <2>3 DEF Decoded
      <4>2. \A i \in DOMAIN rules : ValidateRule(f, rules[i])
        BY <3>1, <2>2 DEF Validate
      <4> HIDE DEF f, base, rules
      <4> QED BY <4>1, <4>2, ResolveAccepted
    <3>2. CASE k \notin DOMAIN ruleMap
      <4>1. rules = <<>>
        BY <3>2
      <4> QED BY <4>1 DEF Resolve, Matching
    <3> QED BY <3>1, <3>2
  <2>10. k \notin DOMAIN values => base = Null
    OBVIOUS
  <2> QED
    <3> HIDE DEF f, base, rules
    <3>1. \/ FieldAccepts(f, Resolve(k, base, rules, ctx))
          \/ Resolve(k, base, rules, ctx) = Null /\ k \notin DOMAIN values
      BY <2>7, <2>9, <2>10
    <3> QED BY <3>1, <2>5, <2>6, <2>8 DEF f, def, values, ruleMap
<1> QED BY <1>1, SavedAlways, PTL

-----------------------------------------------------------------------------
\* A rollout that was saved was validated.
LEMMA SavedIsSplitting ==
  ASSUME NEW row \in SavedRows, Accepted(row.under, row.payload),
         NEW k \in DOMAIN row.payload.rules, NEW i \in DOMAIN row.payload.rules[k],
         row.payload.rules[k][i].rollout.set
  PROVE  Splitting(row.payload.rules[k][i].rollout.variants)
<1>1. row.payload \in Payloads
  BY DEF SavedRows
<1>2. ValidateRule(FieldNamed(row.under, k), row.payload.rules[k][i])
  BY DEF Accepted, Validate
<1>3. ValidateRollout(FieldNamed(row.under, k), row.payload.rules[k][i].rollout)
  BY <1>2 DEF ValidateRule
<1>4. Weighted(row.payload.rules[k][i].rollout.variants)
  BY <1>1, PayloadsAssumption DEF Weighted
<1> QED BY <1>3, <1>4 DEF Splitting, ValidateRollout

\* Every live rollout splits the buckets in proportion to its weights, each variant's
\* share exact to within one bucket, for every list of weights and number of buckets:
\* the loop of bucket stops between two sums, and validation makes the sums grow.
THEOREM AlwaysSharesFollowWeights == Spec => []SharesFollowWeights
<1>1. SavedInv => SharesFollowWeights
  <2> SUFFICES ASSUME SavedInv, NEW r \in LiveRollouts, NEW i \in DOMAIN r.variants
               PROVE  LET total == Cumulative(r.variants, Len(r.variants))
                          taken == Cardinality({n \in 0 .. Buckets - 1 :
                                                  VariantIndex(r.variants, n) = i})
                      IN  taken * total - r.variants[i].weight * Buckets \in 1 - total .. total - 1
    BY DEF SharesFollowWeights
  <2>1. Splitting(r.variants)
    <3>1. PICK k \in DOMAIN Live.rules : \E j \in DOMAIN Live.rules[k] :
                 Live.rules[k][j].rollout.set /\ r = Live.rules[k][j].rollout
      BY DEF LiveRollouts
    <3>2. current # 0
      BY DEF LiveRollouts
    <3>3. Live = versions[current].payload /\ versions[current] \in SavedRows
          /\ Accepted(versions[current].under, versions[current].payload)
      BY <3>2 DEF SavedInv, Live
    <3> QED BY <3>1, <3>3, SavedIsSplitting
  <2> QED BY <2>1, ShareOfVariant
<1> QED BY <1>1, SavedAlways, PTL

\* No step that ramps a live rollout up, by moving weight towards its first variants,
\* gives anybody a later variant than they had.
THEOREM RampUpsMoveForward == Spec => RampUpMovesForward
<1> DEFINE Forward ==
      current # 0 /\ current' # 0 =>
        \A k \in DOMAIN Live.rules \cap DOMAIN Live'.rules :
          \A i \in DOMAIN Live.rules[k] \cap DOMAIN Live'.rules[k] :
            LET old == Live.rules[k][i].rollout
                new == Live'.rules[k][i].rollout
            IN  RampedUp(old, new) =>
                  \A n \in 0 .. Buckets - 1 :
                    VariantIndex(new.variants, n) <= VariantIndex(old.variants, n)
<1>1. SavedInv /\ SavedInv' => Forward
  <2> SUFFICES ASSUME SavedInv, SavedInv', current # 0, current' # 0,
                      NEW k \in DOMAIN Live.rules \cap DOMAIN Live'.rules,
                      NEW i \in DOMAIN Live.rules[k] \cap DOMAIN Live'.rules[k],
                      RampedUp(Live.rules[k][i].rollout, Live'.rules[k][i].rollout),
                      NEW n \in 0 .. Buckets - 1
               PROVE  VariantIndex(Live'.rules[k][i].rollout.variants, n)
                        <= VariantIndex(Live.rules[k][i].rollout.variants, n)
    OBVIOUS
  <2>1. Live.rules[k][i].rollout.set /\ Live'.rules[k][i].rollout.set
    BY DEF RampedUp
  <2>2. Splitting(Live.rules[k][i].rollout.variants)
    <3>1. versions[current] \in SavedRows
          /\ Accepted(versions[current].under, versions[current].payload)
      BY DEF SavedInv
    <3> QED BY <2>1, <3>1, SavedIsSplitting DEF Live
  <2>3. Splitting(Live'.rules[k][i].rollout.variants)
    <3>1. versions'[current'] \in SavedRows
          /\ Accepted(versions'[current'].under, versions'[current'].payload)
      BY DEF SavedInv
    <3> QED BY <2>1, <3>1, SavedIsSplitting DEF Live
  <2> QED BY <2>2, <2>3, RampedIndex
<1>2. Spec => []SavedInv
  BY SavedAlways
<1> QED BY <1>1, <1>2, PTL DEF RampUpMovesForward

\* What the schema accepts for a field has the TypeScript type that is generated for it.
LEMMA AcceptedInhabits ==
  ASSUME NEW f, NEW v, FieldAccepts(f, v),
         v.kind = "string" => v = Text(v.s),
         f.type = "enum" => \A e \in f.enumValues : e.kind \in {"string", "number", "bool"}
  PROVE  EscapedAsGo(f, v) \/ Inhabits(v, f)
<1>1. CASE f.type = "string"
  BY <1>1 DEF FieldAccepts, Inhabits, tsType
<1>2. CASE f.type = "int"
  BY <1>2 DEF FieldAccepts, Inhabits, tsType
<1>3. CASE f.type = "float"
  BY <1>3 DEF FieldAccepts, Inhabits, tsType
<1>4. CASE f.type = "bool"
  BY <1>4 DEF FieldAccepts, Inhabits, tsType
<1>5. CASE f.type = "enum"
  <2>1. v \in f.enumValues
    BY <1>5 DEF FieldAccepts
  <2>2. CASE v.kind = "string"
    <3>1. enumLiteral(v) = {Text(Reread[v.s])}
      BY <2>2 DEF enumLiteral
    <3>2. CASE Reread[v.s] = v.s
      <4>1. v \in enumLiteral(v)
        BY <2>2, <3>1, <3>2
      <4> QED BY <1>5, <2>1, <4>1 DEF Inhabits, tsType
    <3> QED BY <1>5, <2>2, <3>2 DEF EscapedAsGo
  <2>3. CASE v.kind \in {"number", "bool"}
    <3>1. v \in enumLiteral(v)
      BY <2>3 DEF enumLiteral
    <3> QED BY <1>5, <2>1, <3>1 DEF Inhabits, tsType
  <2> QED BY <1>5, <2>1, <2>2, <2>3
<1>6. CASE f.type = "duration"
  BY <1>6 DEF FieldAccepts, Inhabits, tsType
<1>7. CASE f.type = "json"
  BY <1>7 DEF Inhabits, tsType
<1> QED BY <1>1, <1>2, <1>3, <1>4, <1>5, <1>6, <1>7 DEF FieldAccepts

\* It goes into a variable of the Go type, unless that is narrower.
LEMMA AcceptedUnmarshals ==
  ASSUME NEW f, NEW v, FieldAccepts(f, v), FitsGo(f, v)
  PROVE  Unmarshals(goType(f), v)
<1>1. CASE f.type = "string"
  BY <1>1 DEF FieldAccepts, Unmarshals, goType
<1>2. CASE f.type = "int"
  BY <1>2 DEF FieldAccepts, Unmarshals, goType, FitsGo
<1>3. CASE f.type = "float"
  BY <1>3 DEF FieldAccepts, Unmarshals, goType
<1>4. CASE f.type = "bool"
  BY <1>4 DEF FieldAccepts, Unmarshals, goType
<1>5. CASE f.type = "enum"
  BY <1>5 DEF FieldAccepts, Unmarshals, goType, FitsGo
<1>6. CASE f.type = "duration"
  BY <1>6 DEF FieldAccepts, Unmarshals, goType
<1>7. CASE f.type = "json"
  BY <1>7 DEF FieldAccepts, Unmarshals, goType
<1> QED BY <1>1, <1>2, <1>3, <1>4, <1>5, <1>6, <1>7 DEF FieldAccepts

\* The literals of scalar enum values are TypeScript.
LEMMA ScalarsAreLiterals ==
  ASSUME NEW def, ScalarEnums(def) PROVE EmitsTypeScript(def)
<1> SUFFICES ASSUME NEW i \in DOMAIN def, def[i].type = "enum", NEW v \in def[i].enumValues
             PROVE  enumLiteral(v) # {}
  BY DEF EmitsTypeScript
<1>1. v.kind \in {"string", "number", "bool"}
  BY DEF ScalarEnums
<1> QED BY <1>1 DEF enumLiteral

\* Where EmitGo returns, a name is that of one field, and an identifier too.
LEMMA IdentifiersDiffer ==
  ASSUME NEW def, DOMAIN def = 1 .. Len(def), Len(def) \in Nat, ~EmitGoFails(def),
         NEW i \in DOMAIN def, NEW j \in DOMAIN def,
         goFieldName(def[i].name) = goFieldName(def[j].name)
  PROVE  i = j
<1>1. ~(i \in 1 .. j - 1) /\ ~(j \in 1 .. i - 1)
  BY DEF EmitGoFails
<1> QED BY <1>1

\* The accessors that are generated for the definition of the live version fit it: the
\* schema accepts nothing that the generated types do not take but what GeneratedCodeFits
\* excepts, and as EmitGo refuses every pair of names with one identifier, a field is
\* given its own value.
THEOREM AlwaysFitsGeneratedCode == Spec => []GeneratedCodeFits
<1>1. SavedInv => GeneratedCodeFits
  <2> SUFFICES ASSUME SavedInv, current # 0 PROVE GeneratedCodeFits
    BY DEF GeneratedCodeFits
  <2> DEFINE def == versions[current].under
             values == Live.values
             OneName(k) == \A i, j \in DOMAIN def : def[i].name = k /\ def[j].name = k => i = j
  <2>1. current \in DOMAIN versions
    BY DEF SavedInv
  <2>2. ValuesAccepted(def, values)
    BY <2>1 DEF SavedInv, Accepted, Live
  <2>3. versions[current] \in SavedRows
    BY <2>1 DEF SavedInv
  <2>4. def \in Definitions \cup {<<>>}
    BY <2>3 DEF SavedRows
  <2>5. DOMAIN def = 1 .. Len(def) /\ Len(def) \in Nat
    <3>1. CASE def = <<>>
      <4> HIDE DEF def
      <4> QED BY <3>1
    <3> QED BY <2>4, <3>1, DefinitionsAssumption
  <2>6. ASSUME NEW k \in DOMAIN values PROVE values[k].kind = "string" => values[k] = Text(values[k].s)
    BY <2>3, StringsAssumption DEF SavedRows, Live
  <2>7. \A i, j \in DOMAIN def : JsonKey[def[i].name] = def[j].name => JsonKey[def[j].name] = def[j].name
    <3>1. CASE def = <<>>
      <4> HIDE DEF def
      <4> QED BY <3>1
    <3> QED BY <2>4, <3>1, TagsAssumption
  <2> HIDE DEF def, values
  <2>8. ASSUME NEW k \in DOMAIN values
        PROVE  FieldAccepts(FieldNamed(def, k), values[k]) /\ k \in Names(def)
    BY <2>2 DEF ValuesAccepted
  <2>9. ASSUME ScalarEnums(def), NEW k \in DOMAIN values
        PROVE  EscapedAsGo(FieldNamed(def, k), values[k]) \/ Inhabits(values[k], FieldNamed(def, k))
    <3> DEFINE f == FieldNamed(def, k)
    <3>1. \E i \in DOMAIN def : f = def[i]
      <4>1. PICK i \in DOMAIN def : /\ def[i].name = k
                                    /\ \A j \in DOMAIN def : def[j].name = k => j <= i
        <5> DEFINE S == {i \in DOMAIN def : def[i].name = k}
        <5>1. S # {} /\ S \in SUBSET (1 .. Len(def))
          BY <2>5, <2>8 DEF Names
        <5> HIDE DEF S
        <5>2. PICK m \in S : \A y \in S : y <= m
          BY <2>5, <5>1, MaxInSet
        <5> QED BY <5>2 DEF S
      <4> QED BY <4>1 DEF FieldNamed
    <3>2. f.type = "enum" => \A e \in f.enumValues : e.kind \in {"string", "number", "bool"}
      BY <2>9, <3>1 DEF ScalarEnums
    <3> HIDE DEF f
    <3> QED BY <2>6, <2>8, <3>2, AcceptedInhabits DEF f
  <2>10. ASSUME ~EmitGoFails(def), NEW i \in DOMAIN def, NEW j \in DOMAIN def,
                goFieldName(def[i].name) = goFieldName(def[j].name)
         PROVE  i = j
    BY <2>5, <2>10, IdentifiersDiffer
  <2>11. ASSUME ~EmitGoFails(def), NEW k \in DOMAIN values
         PROVE  \E i \in DOMAIN def : /\ def[i].name = k
                                      /\ FieldNamed(def, k) = def[i]
                                      /\ \A j \in DOMAIN def : def[j].name = k => j = i
    <3>1. PICK i \in DOMAIN def : def[i].name = k
      BY <2>8 DEF Names
    <3>2. \A j \in DOMAIN def : def[j].name = k => j = i
      BY <2>10, <2>11, <3>1
    <3>3. \A j \in DOMAIN def : def[j].name = k => j <= i
      BY <2>5, <3>2
    <3>4. FieldNamed(def, k) = def[i]
      BY <3>1, <3>2, <3>3 DEF FieldNamed
    <3> QED BY <3>1, <3>2, <3>4
  <2>12. ASSUME ~EmitGoFails(def),
                \A k \in DOMAIN values : FitsGo(FieldNamed(def, k), values[k]),
                NEW k \in DOMAIN values, NEW d \in DecodedInto(def, k)
         PROVE  Unmarshals(goType(def[d]), values[k])
    <3>1. PICK i \in DOMAIN def : def[i].name = k /\ FieldNamed(def, k) = def[i]
      BY <2>11, <2>12
    <3>2. /\ d \in DOMAIN def /\ JsonKey[def[d].name] = k
          /\ \A j \in DOMAIN def : JsonKey[def[j].name] = k => j = d
      BY DEF DecodedInto
    <3>3. JsonKey[def[i].name] = k
      BY <2>7, <3>1, <3>2
    <3>4. d = i
      BY <3>2, <3>3
    <3> QED BY <2>8, <2>12, <3>1, <3>4, AcceptedUnmarshals
  <2>13. ASSUME ~EmitGoFails(def), NEW k \in DOMAIN values, OwnKey(def, k)
         PROVE  Typed(def, values)[goFieldName(k)] = {values[k]}
    <3>1. PICK i \in DOMAIN def : /\ def[i].name = k
                                  /\ \A j \in DOMAIN def : def[j].name = k => j = i
      BY <2>11, <2>13
    <3> DEFINE Given(id) == {l \in DOMAIN values :
                               \E d \in DecodedInto(def, l) : goFieldName(def[d].name) = id}
               id == goFieldName(k)
    <3>2. Typed(def, values)[id] = {values[l] : l \in Given(id)}
      <4>1. id \in {goFieldName(def[d].name) : d \in DOMAIN def}
        BY <3>1
      <4> QED BY <4>1 DEF Typed
    <3>3. k \in Given(id)
      <4>1. {d \in DOMAIN def : JsonKey[def[d].name] = k} = {i}
        BY <2>13, <3>1 DEF OwnKey
      <4>2. i \in DecodedInto(def, k)
        BY <4>1 DEF DecodedInto
      <4> QED BY <3>1, <4>2
    <3>4. ASSUME NEW l \in Given(id) PROVE l = k
      <4>1. PICK d \in DecodedInto(def, l) : goFieldName(def[d].name) = id
        OBVIOUS
      <4>2. d \in DOMAIN def /\ JsonKey[def[d].name] = l
        BY <4>1 DEF DecodedInto
      <4>3. d = i
        BY <2>10, <2>13, <3>1, <4>1, <4>2
      <4>4. JsonKey[def[i].name] = k
        BY <2>13, <3>1 DEF OwnKey
      <4> QED BY <4>2, <4>3, <4>4
    <3> HIDE DEF Given, id
    <3>5. Given(id) = {k}
      BY <3>3, <3>4
    <3> QED BY <3>2, <3>5 DEF id
  <2>14. ScalarEnums(def) => EmitsTypeScript(def)
    BY ScalarsAreLiterals
  <2>15. ASSUME ~EmitGoFails(def), \A k \in DOMAIN values : FitsGo(FieldNamed(def, k), values[k])
         PROVE  ~TypedFails(def, values)
    BY <2>12, <2>15 DEF TypedFails
  <2> QED BY <2>9, <2>13, <2>14, <2>15 DEF GeneratedCodeFits, def, values
<1> QED BY <1>1, SavedAlways, PTL

-----------------------------------------------------------------------------
(* The three evaluators: one condition.                                    *)

\* What JsonAssumption says of the values of a condition and the attributes of a context.
Comparable(c, attrs) ==
  /\ DOMAIN c.values = 1 .. Len(c.values) /\ (c.values = <<>> \/ Len(c.values) > 0)
  /\ \A i \in DOMAIN c.values :
       /\ c.values[i].kind # "infinite"
       /\ \A a \in DOMAIN attrs :
            Numeric(c.values[i]) /\ Numeric(attrs[a]) /\ c.values[i].n = attrs[a].n
              => c.values[i] = attrs[a]

\* Both SDKs compare a value with an attribute as the server does.
LEMMA SameEquality ==
  ASSUME NEW c, NEW attrs, Comparable(c, attrs), NEW a \in DOMAIN attrs, NEW i \in DOMAIN c.values
  PROVE  LET v == attrs[a]
             t == c.values[i]
         IN  /\ goEqualValues(t, v) <=> t = v
             /\ goEqualValues(v, t) <=> t = v
             /\ tsEqualValues(t, v) <=> t = v
             /\ tsEqualValues(v, t) <=> t = v
<1> DEFINE v == attrs[a]
           t == c.values[i]
<1>1. Numeric(t) /\ Numeric(v) /\ t.n = v.n => t = v
  BY DEF Comparable
<1> HIDE DEF v, t
<1>2. goEqualValues(t, v) <=> t = v
  BY <1>1 DEF goEqualValues, Numeric
<1>3. goEqualValues(v, t) <=> t = v
  BY <1>1 DEF goEqualValues, Numeric
<1>4. tsEqualValues(t, v) <=> t = v
  BY <1>1 DEF tsEqualValues, Numeric
<1>5. tsEqualValues(v, t) <=> t = v
  BY <1>1 DEF tsEqualValues, Numeric
<1> QED BY <1>2, <1>3, <1>4, <1>5 DEF v, t

\* The Go SDK matches a condition as the server does.
LEMMA SameGoCondition ==
  ASSUME NEW c, NEW attrs, Comparable(c, attrs)
  PROVE  goMatchCondition(c, attrs) <=> MatchCondition(c, attrs)
<1>1. CASE c.attribute \notin DOMAIN attrs
  BY <1>1 DEF goMatchCondition, MatchCondition
<1>2. CASE c.attribute \in DOMAIN attrs
  <2> DEFINE v == attrs[c.attribute]
  <2>1. \A i \in DOMAIN c.values : /\ goEqualValues(c.values[i], v) <=> c.values[i] = v
                                   /\ goEqualValues(v, c.values[i]) <=> c.values[i] = v
    BY <1>2, SameEquality
  <2>2. c.values # <<>> => 1 \in DOMAIN c.values
    BY DEF Comparable
  <2>3. MatchCondition(c, attrs) <=> Holds(c, v)
    BY <1>2 DEF MatchCondition
  <2> HIDE DEF v
  <2>4. goMatchCondition(c, attrs) <=> Holds(c, v)
    BY <1>2, <2>1, <2>2 DEF goMatchCondition, Holds, v
  <2> QED BY <2>3, <2>4
<1> QED BY <1>1, <1>2

\* The condition orders an attribute that is infinite.
OrdersInfinite(c, attrs) ==
  /\ c.operator \in {"gt", "gte", "lt", "lte"}
  /\ c.attribute \in DOMAIN attrs
  /\ attrs[c.attribute].kind = "infinite"

\* The TypeScript SDK throws at a condition without values, and otherwise matches it as
\* the server does, unless it orders an infinite attribute.
LEMMA SameTsCondition ==
  ASSUME NEW c, NEW attrs, Comparable(c, attrs)
  PROVE  LET match == tsMatchCondition(c, attrs)
         IN  /\ match \in {"holds", "fails", "throws"}
             /\ match = "throws" => ~c.listed
             /\ ~OrdersInfinite(c, attrs) =>
                  /\ match = "holds" => MatchCondition(c, attrs)
                  /\ match = "fails" => ~MatchCondition(c, attrs)
<1> DEFINE match == tsMatchCondition(c, attrs)
<1>1. CASE c.attribute \notin DOMAIN attrs
  BY <1>1 DEF tsMatchCondition, MatchCondition
<1>2. CASE c.attribute \in DOMAIN attrs /\ ~c.listed
  BY <1>2 DEF tsMatchCondition
<1>3. CASE c.attribute \in DOMAIN attrs /\ c.listed
  <2> DEFINE v == attrs[c.attribute]
  <2>1. \A i \in DOMAIN c.values : /\ tsEqualValues(c.values[i], v) <=> c.values[i] = v
                                   /\ tsEqualValues(v, c.values[i]) <=> c.values[i] = v
    BY <1>3, SameEquality
  <2>2. c.values # <<>> => 1 \in DOMAIN c.values /\ Head(c.values) = c.values[1]
    BY DEF Comparable
  <2>3. MatchCondition(c, attrs) <=> Holds(c, v)
    BY <1>3 DEF MatchCondition
  <2>4. ~OrdersInfinite(c, attrs) /\ c.operator \in {"gt", "gte", "lt", "lte"} => v.kind # "infinite"
    BY <1>3 DEF OrdersInfinite
  <2>5. match \in {"holds", "fails"}
    BY <1>3 DEF tsMatchCondition
  <2>6. \A i \in DOMAIN c.values : c.values[i].kind # "infinite"
    BY DEF Comparable
  <2> HIDE DEF v
  <2>7. ~OrdersInfinite(c, attrs) => (match = "holds" <=> Holds(c, v))
    BY <1>3, <2>1, <2>2, <2>4, <2>6 DEF tsMatchCondition, Holds, Numeric, v
  <2> QED BY <2>3, <2>5, <2>7
<1> QED BY <1>1, <1>2, <1>3

-----------------------------------------------------------------------------
(* The loops of the SDKs are folds: functions on the sets of indices that  *)
(* are left, defined by what is done with the first or the last of them.   *)

\* A set of the indices from m on begins with m or does not contain it.
LEMMA MinOfSuffix ==
  ASSUME NEW m \in Nat, NEW N \in Nat, m <= N
  PROVE  Min(m .. N) = m /\ (m .. N) \ {m} = m + 1 .. N
<1>1. m .. N \in SUBSET Nat /\ m \in m .. N
  OBVIOUS
<1>2. Min(m .. N) \in m .. N /\ Min(m .. N) <= m
  BY <1>1, MinInSet
<1> QED BY <1>2

\* A loop that goes on while it is at a member of skip, and else ends with out of where
\* it is; b is what it ends with when it has gone through.
LoopOf(N, skip, out, b, t) ==
  t = [s \in SUBSET (1 .. N) |->
         IF s = {} THEN b ELSE IF Min(s) \in skip THEN t[s \ {Min(s)}] ELSE out[Min(s)]]

\* What it ends with, of the indices s.
EndsWith(s, skip, out, b) == IF s \subseteq skip THEN b ELSE out[Min(s \ skip)]

\* Such a loop ends at the first index that is not to be skipped.
LEMMA LoopEndsAtFirst ==
  ASSUME NEW N \in Nat, NEW skip, NEW out, NEW b
  PROVE  /\ LoopOf(N, skip, out, b, [s \in SUBSET (1 .. N) |-> EndsWith(s, skip, out, b)])
         /\ \A t : LoopOf(N, skip, out, b, t) => t[1 .. N] = EndsWith(1 .. N, skip, out, b)
<1> DEFINE w == [s \in SUBSET (1 .. N) |-> EndsWith(s, skip, out, b)]
<1>1. ASSUME NEW s \in SUBSET (1 .. N), s # {}
      PROVE  w[s] = IF Min(s) \in skip THEN w[s \ {Min(s)}] ELSE out[Min(s)]
  <2> DEFINE m == Min(s)
  <2>1. s \in SUBSET Nat
    OBVIOUS
  <2>2. m \in s /\ \A y \in s : m <= y
    BY <1>1, <2>1, MinInSet
  <2>3. w[s] = EndsWith(s, skip, out, b) /\ w[s \ {m}] = EndsWith(s \ {m}, skip, out, b)
    OBVIOUS
  <2> HIDE DEF m, w
  <2>4. CASE m \in skip
    <3>1. (s \subseteq skip <=> s \ {m} \subseteq skip) /\ (s \ {m}) \ skip = s \ skip
      BY <2>4
    <3> QED BY <2>3, <2>4, <3>1 DEF EndsWith, m
  <2>5. CASE m \notin skip
    <3>1. m \in s \ skip /\ s \ skip \in SUBSET Nat
      BY <2>1, <2>2, <2>5
    <3>2. Min(s \ skip) \in s \ skip /\ Min(s \ skip) <= m
      BY <3>1, MinInSet
    <3>3. Min(s \ skip) = m
      <4>1. Min(s \ skip) \in s
        BY <3>2
      <4>2. m \in Nat /\ Min(s \ skip) \in Nat /\ m <= Min(s \ skip)
        BY <2>1, <2>2, <4>1
      <4> QED BY <3>2, <4>2
    <3>4. ~(s \subseteq skip)
      BY <3>1
    <3>5. w[s] = out[Min(s \ skip)]
      BY <2>3, <3>4 DEF EndsWith
    <3> QED BY <2>5, <3>3, <3>5 DEF m
  <2> QED BY <2>4, <2>5
<1>2. w[{}] = b
  BY DEF EndsWith
<1>3. w = [s \in SUBSET (1 .. N) |-> w[s]]
  OBVIOUS
<1>4. w[1 .. N] = EndsWith(1 .. N, skip, out, b)
  OBVIOUS
<1> HIDE DEF w
<1>5. LoopOf(N, skip, out, b, w)
  BY <1>1, <1>2, <1>3 DEF LoopOf
<1>6. ASSUME NEW t, LoopOf(N, skip, out, b, t) PROVE t[1 .. N] = w[1 .. N]
  <2>1. \A s \in SUBSET (1 .. N) :
          t[s] = IF s = {} THEN b ELSE IF Min(s) \in skip THEN t[s \ {Min(s)}] ELSE out[Min(s)]
    BY <1>6 DEF LoopOf
  <2> DEFINE Bad == {j \in 0 .. N : t[N - j + 1 .. N] # w[N - j + 1 .. N]}
  <2>2. Bad = {}
    <3>1. SUFFICES ASSUME Bad # {} PROVE FALSE
      OBVIOUS
    <3>2. Bad \in SUBSET Nat
      OBVIOUS
    <3>3. PICK j \in Bad : \A y \in Bad : j <= y
      BY <3>1, <3>2, MinInSet
    <3>4. j \in 0 .. N /\ t[N - j + 1 .. N] # w[N - j + 1 .. N]
      OBVIOUS
    <3>5. j # 0
      <4>1. N - 0 + 1 .. N = {}
        OBVIOUS
      <4> QED BY <1>2, <2>1, <3>4, <4>1
    <3> DEFINE m == N - j + 1
    <3>6. m \in 1 .. N /\ j - 1 \in 0 .. N /\ N - (j - 1) + 1 = m + 1
      BY <3>4, <3>5
    <3>7. t[m + 1 .. N] = w[m + 1 .. N]
      <4>1. j - 1 \notin Bad
        <5> HIDE DEF Bad
        <5>1. ~(j <= j - 1)
          BY <3>4
        <5> QED BY <3>3, <5>1
      <4> QED BY <3>6, <4>1
    <3> HIDE DEF m
    <3>8. Min(m .. N) = m /\ (m .. N) \ {m} = m + 1 .. N /\ m .. N # {}
          /\ m .. N \in SUBSET (1 .. N)
      BY <3>6, MinOfSuffix
    <3>9. t[m .. N] = w[m .. N]
      BY <1>1, <2>1, <3>7, <3>8
    <3> QED BY <3>4, <3>9 DEF m
  <2>3. N \in 0 .. N /\ N - N + 1 = 1
    OBVIOUS
  <2> QED BY <2>2, <2>3
<1> QED BY <1>4, <1>5, <1>6 DEF w

\* What a fold from the left has made of the indices s, from b, when each index i takes
\* it from y to g[i][y].
FoldOf(s, b, g, t) == IF s = {} THEN b ELSE g[Max(s)][t[s \ {Max(s)}]]

\* Its results are in V.
Foldable(N, V, b, g) == N \in Nat /\ b \in V /\ g \in [1 .. N -> [V -> V]]

\* The function t is this fold.
IsFold(N, V, b, g, t) ==
  /\ t \in [SUBSET (1 .. N) -> V]
  /\ t = [s \in SUBSET (1 .. N) |-> FoldOf(s, b, g, t)]

\* Such a fold exists.
LEMMA FoldLeftExists ==
  ASSUME NEW N, NEW V, NEW b, NEW g, Foldable(N, V, b, g)
  PROVE  \E t : IsFold(N, V, b, g, t)
<1> USE DEF Foldable
<1> DEFINE Upto(j) == {s \in SUBSET (1 .. N) : Cardinality(s) <= j}
           Good(j, t) == t \in [Upto(j) -> V] /\ \A s \in Upto(j) : t[s] = FoldOf(s, b, g, t)
           Bad == {j \in 0 .. N : ~ \E t : Good(j, t)}
<1>1. ASSUME NEW s \in SUBSET (1 .. N)
      PROVE  /\ Cardinality(s) \in 0 .. N
             /\ (Cardinality(s) = 0) <=> (s = {})
             /\ s # {} => /\ Max(s) \in s /\ s \ {Max(s)} \in SUBSET (1 .. N)
                          /\ Cardinality(s \ {Max(s)}) = Cardinality(s) - 1
  <2>1. IsFiniteSet(1 .. N) /\ Cardinality(1 .. N) = N
    BY FS_Interval
  <2>2. IsFiniteSet(s) /\ Cardinality(s) <= N
    <3> DEFINE D == 1 .. N
    <3>1. IsFiniteSet(D) /\ Cardinality(D) = N /\ s \in SUBSET D
      BY <2>1
    <3> HIDE DEF D
    <3> QED BY <3>1, FS_Subset
  <2>3. Cardinality(s) \in Nat
    BY <2>2, FS_CardinalityType
  <2>4. (Cardinality(s) = 0) <=> (s = {})
    BY <2>2, FS_EmptySet
  <2>5. ASSUME s # {} PROVE Max(s) \in s
    BY <2>5, MaxInSet
  <2>6. ASSUME s # {} PROVE Cardinality(s \ {Max(s)}) = Cardinality(s) - 1
    BY <2>2, <2>5, <2>6, FS_RemoveElement
  <2>7. Cardinality(s) \in 0 .. N
    BY <2>2, <2>3
  <2> QED BY <2>4, <2>5, <2>6, <2>7
<1>2. Bad = {}
  <2>1. SUFFICES ASSUME Bad # {} PROVE FALSE
    OBVIOUS
  <2>2. Bad \in SUBSET Nat
    OBVIOUS
  <2>3. PICK j \in Bad : \A y \in Bad : j <= y
    BY <2>1, <2>2, MinInSet
  <2>4. j \in 0 .. N /\ ~ \E t : Good(j, t)
    OBVIOUS
  <2>5. j # 0
    <3>1. SUFFICES ASSUME j = 0 PROVE FALSE
      OBVIOUS
    <3>2. Upto(j) = {{}}
      <4>1. ASSUME NEW s \in SUBSET (1 .. N) PROVE (Cardinality(s) <= j) <=> (s = {})
        <5>1. Cardinality(s) \in 0 .. N /\ ((Cardinality(s) = 0) <=> (s = {}))
          BY <1>1
        <5>2. (Cardinality(s) <= 0) <=> (Cardinality(s) = 0)
          BY <5>1
        <5> QED BY <3>1, <5>1, <5>2
      <4> QED BY <4>1
    <3> HIDE DEF Upto
    <3>3. Good(j, [s \in {{}} |-> b])
      BY <3>2 DEF FoldOf
    <3> QED BY <2>4, <3>3
  <2>6. j - 1 \in 0 .. N /\ j - 1 \notin Bad
    <3> HIDE DEF Bad
    <3>1. ~(j <= j - 1) /\ j - 1 \in 0 .. N
      BY <2>4, <2>5
    <3> QED BY <2>3, <3>1
  <2>7. PICK u : Good(j - 1, u)
    BY <2>6
  <2> DEFINE t == [s \in Upto(j) |-> FoldOf(s, b, g, u)]
  <2>8. ASSUME NEW s \in Upto(j), s # {}
        PROVE  Max(s) \in 1 .. N /\ s \ {Max(s)} \in Upto(j - 1) /\ s \ {Max(s)} \in Upto(j)
    <3>1. s \in SUBSET (1 .. N) /\ Cardinality(s) <= j /\ Cardinality(s) \in 0 .. N
      BY <1>1
    <3>2. Max(s) \in s /\ s \ {Max(s)} \in SUBSET (1 .. N)
          /\ Cardinality(s \ {Max(s)}) = Cardinality(s) - 1
      BY <1>1, <2>8, <3>1
    <3>3. Cardinality(s \ {Max(s)}) <= j - 1 /\ Cardinality(s \ {Max(s)}) <= j
      BY <2>4, <3>1, <3>2
    <3> QED BY <3>1, <3>2, <3>3
  <2>9. u \in [Upto(j - 1) -> V] /\ \A s \in Upto(j - 1) : u[s] = FoldOf(s, b, g, u)
    BY <2>7
  <2>10. \A s \in Upto(j) : t[s] = FoldOf(s, b, g, u)
    OBVIOUS
  <2>11. t = [s \in Upto(j) |-> t[s]]
    OBVIOUS
  <2> HIDE DEF t, Upto, Bad
  <2>12. ASSUME NEW s \in Upto(j) PROVE t[s] \in V /\ t[s] = FoldOf(s, b, g, t)
    <3>1. CASE s = {}
      BY <2>10, <3>1 DEF FoldOf
    <3>2. CASE s # {}
      <4> DEFINE m == Max(s)
                 r == s \ {m}
      <4>1. m \in 1 .. N /\ r \in Upto(j - 1) /\ r \in Upto(j)
        BY <2>8, <3>2
      <4> HIDE DEF m, r
      <4>2. t[r] = u[r] /\ u[r] \in V
        BY <2>9, <2>10, <4>1
      <4>3. t[s] = g[m][u[r]] /\ FoldOf(s, b, g, t) = g[m][t[r]]
        BY <2>10, <3>2 DEF FoldOf, m, r
      <4>4. g[m] \in [V -> V]
        BY <4>1
      <4> QED BY <4>2, <4>3, <4>4
    <3> QED BY <3>1, <3>2
  <2>13. t \in [Upto(j) -> V]
    BY <2>11, <2>12
  <2>14. Good(j, t)
    BY <2>12, <2>13
  <2> QED BY <2>4, <2>14
<1>3. PICK t : Good(N, t)
  <2>1. N \in 0 .. N
    OBVIOUS
  <2> HIDE DEF Good
  <2>2. \E t : Good(N, t)
    BY <1>2, <2>1, Zenon
  <2> QED BY <2>2
<1>4. Upto(N) = SUBSET (1 .. N)
  <2>1. \A s \in SUBSET (1 .. N) : Cardinality(s) <= N
    <3> TAKE s \in SUBSET (1 .. N)
    <3>1. Cardinality(s) \in 0 .. N
      BY <1>1
    <3> QED BY <3>1
  <2>2. \A s : s \in Upto(N) <=> s \in SUBSET (1 .. N)
    BY <2>1
  <2> HIDE DEF Upto
  <2> QED BY <2>2
<1>5. t \in [SUBSET (1 .. N) -> V] /\ \A s \in SUBSET (1 .. N) : t[s] = FoldOf(s, b, g, t)
  BY <1>3, <1>4
<1> QED BY <1>5 DEF IsFold

\* The indices up to m end with m.
LEMMA MaxOfPrefix ==
  ASSUME NEW m \in Nat, m # 0
  PROVE  Max(1 .. m) = m /\ (1 .. m) \ {m} = 1 .. m - 1 /\ 1 .. m # {}
<1>1. m \in 1 .. m /\ 1 .. m # {}
  OBVIOUS
<1>2. Max(1 .. m) \in 1 .. m /\ m <= Max(1 .. m)
  BY <1>1, MaxInSet
<1> QED BY <1>1, <1>2

-----------------------------------------------------------------------------
(* The loops of both SDKs over variants.                                   *)

\* The first loop of bucket adds the weights.
LEMMA TotalIsCumulative ==
  ASSUME NEW variants, Weighted(variants)
  PROVE  FoldLeft(LAMBDA sum, v : sum + v.weight, 0, variants)
           = Cumulative(variants, Len(variants))
<1> DEFINE N == Len(variants)
           g == [i \in 1 .. N |-> [y \in Int |-> y + variants[i].weight]]
           Rec(f) == f = [s \in SUBSET DOMAIN variants |->
                            IF s = {} THEN 0
                            ELSE f[s \ {Max(s)}] + variants[Max(s)].weight]
           F == CHOOSE f : Rec(f)
<1>1. FoldLeft(LAMBDA sum, v : sum + v.weight, 0, variants) = F[DOMAIN variants]
  BY Zenon DEF FoldLeft, MapThenFoldSet
<1>2. N \in Nat /\ DOMAIN variants = 1 .. N /\ \A i \in 1 .. N : variants[i].weight \in Int
  BY DEF Weighted
<1>3. g \in [1 .. N -> [Int -> Int]]
  BY <1>2
<1> HIDE DEF N
<1>4. PICK t : t \in [SUBSET (1 .. N) -> Int] /\ t = [s \in SUBSET (1 .. N) |-> FoldOf(s, 0, g, t)]
  <2> HIDE DEF g
  <2>1. Foldable(N, Int, 0, g)
    BY <1>2, <1>3 DEF Foldable
  <2>2. \E t : IsFold(N, Int, 0, g, t)
    BY <2>1, FoldLeftExists
  <2> QED BY <2>2 DEF IsFold
<1>5. Rec(t)
  <2>1. ASSUME NEW s \in SUBSET (1 .. N)
        PROVE  FoldOf(s, 0, g, t)
                 = IF s = {} THEN 0 ELSE t[s \ {Max(s)}] + variants[Max(s)].weight
    <3>1. CASE s = {}
      BY <3>1 DEF FoldOf
    <3>2. CASE s # {}
      <4>1. Max(s) \in 1 .. N
        BY <1>2, <3>2, MaxInSet
      <4>2. t[s \ {Max(s)}] \in Int
        BY <1>4
      <4> QED BY <3>2, <4>1, <4>2 DEF FoldOf
    <3> QED BY <3>1, <3>2
  <2> HIDE DEF g
  <2> QED BY <1>2, <1>4, <2>1
<1>6. Rec(F)
  <2> HIDE DEF Rec
  <2> QED BY <1>5
<1>7. \A s \in SUBSET (1 .. N) :
        F[s] = IF s = {} THEN 0 ELSE F[s \ {Max(s)}] + variants[Max(s)].weight
  <2> HIDE DEF F
  <2> QED BY <1>2, <1>6
<1> HIDE DEF F, Rec, g
<1> DEFINE Bad == {j \in 0 .. N : F[1 .. j] # Cumulative(variants, j)}
<1>8. Bad = {}
  <2>1. SUFFICES ASSUME Bad # {} PROVE FALSE
    OBVIOUS
  <2>2. Bad \in SUBSET Nat
    BY <1>2
  <2>3. PICK j \in Bad : \A y \in Bad : j <= y
    BY <2>1, <2>2, MinInSet
  <2>4. j \in 0 .. N /\ F[1 .. j] # Cumulative(variants, j)
    OBVIOUS
  <2>5. j # 0
    <3>1. 1 .. 0 = {}
      OBVIOUS
    <3> QED BY <1>7, <2>4, <3>1, SumsAre
  <2>6. F[1 .. j - 1] = Cumulative(variants, j - 1)
    <3>1. j - 1 \in 0 .. N /\ ~(j <= j - 1)
      BY <1>2, <2>4, <2>5
    <3>2. j - 1 \notin Bad
      <4> HIDE DEF Bad
      <4> QED BY <2>3, <3>1
    <3> QED BY <3>1, <3>2
  <2>7. j \in Nat /\ j # 0 /\ 1 .. j \in SUBSET (1 .. N) /\ j \in 1 .. N
    BY <1>2, <2>4, <2>5
  <2>8. F[1 .. j] = F[1 .. j - 1] + variants[j].weight
    BY <1>7, <2>7, MaxOfPrefix
  <2> QED BY <1>2, <2>4, <2>6, <2>7, <2>8, SumsAre
<1>9. F[1 .. N] = Cumulative(variants, N)
  <2>1. N \in 0 .. N /\ N \notin Bad
    BY <1>2, <1>8
  <2> QED BY <2>1
<1> QED BY <1>1, <1>2, <1>9 DEF N

\* The states of the second loop.
PastStates(values) == [cumulative : Int, found : BOOLEAN, value : values]

LEMMA PastStepIs ==
  ASSUME NEW values, NEW at \in PastStates(values), NEW v, v.weight \in Int, v.value \in values,
         NEW n, NEW total
  PROVE  /\ PastStep(at, v, n, total) \in PastStates(values)
         /\ at.found => PastStep(at, v, n, total) = at
         /\ ~at.found /\ PastAt(at, v, n, total) =>
              PastStep(at, v, n, total).found /\ PastStep(at, v, n, total).value = v.value
         /\ ~at.found /\ ~PastAt(at, v, n, total) =>
              /\ ~PastStep(at, v, n, total).found
              /\ PastStep(at, v, n, total).value = at.value
              /\ PastStep(at, v, n, total).cumulative = at.cumulative + v.weight
<1>1. CASE at.found
  BY <1>1 DEF PastStep
<1>2. CASE ~at.found /\ PastAt(at, v, n, total)
  <2>1. PastStep(at, v, n, total) = [at EXCEPT !.found = TRUE, !.value = v.value]
    BY <1>2 DEF PastStep
  <2> QED BY <1>2, <2>1 DEF PastStates
<1>3. CASE ~at.found /\ ~PastAt(at, v, n, total)
  <2>1. PastStep(at, v, n, total) = [at EXCEPT !.cumulative = at.cumulative + v.weight]
    BY <1>3 DEF PastStep
  <2>2. at.cumulative + v.weight \in Int
    BY DEF PastStates
  <2> QED BY <1>3, <2>1, <2>2 DEF PastStates
<1> QED BY <1>1, <1>2, <1>3

\* The second loop of bucket finds what the server's does.
LEMMA FirstPastIsIndex ==
  ASSUME NEW variants, Weighted(variants), Len(variants) > 0, NEW n
  PROVE  FirstPast(variants, n) = variants[VariantIndex(variants, n)].value
<1> DEFINE N == Len(variants)
           total == FoldLeft(LAMBDA sum, v : sum + v.weight, 0, variants)
           values == {variants[i].value : i \in 1 .. N}
           b == [cumulative |-> 0, found |-> FALSE, value |-> variants[N].value]
           g == [i \in 1 .. N |->
                   [y \in PastStates(values) |-> PastStep(y, variants[i], n, total)]]
           Rec(f) == f = [s \in SUBSET DOMAIN variants |->
                            IF s = {} THEN b
                            ELSE PastStep(f[s \ {Max(s)}], variants[Max(s)], n, total)]
           F == CHOOSE f : Rec(f)
<1>1. FirstPast(variants, n) = F[DOMAIN variants].value
  <2>1. FirstPast(variants, n)
          = FoldLeft(LAMBDA at, v : PastStep(at, v, n, total), b, variants).value
    BY Zenon DEF FirstPast, Last
  <2> HIDE DEF b, total
  <2>2. FoldLeft(LAMBDA at, v : PastStep(at, v, n, total), b, variants) = F[DOMAIN variants]
    BY Zenon DEF FoldLeft, MapThenFoldSet
  <2> QED BY <2>1, <2>2, Zenon
<1>2. /\ total = Cumulative(variants, N)
      /\ N \in Nat /\ N \in 1 .. N /\ DOMAIN variants = 1 .. N
      /\ \A i \in 1 .. N : variants[i].weight \in Int /\ variants[i].value \in values
  <2>1. total = Cumulative(variants, N)
    BY TotalIsCumulative, Zenon
  <2>2. /\ N \in Nat /\ N \in 1 .. N /\ DOMAIN variants = 1 .. N
        /\ \A i \in 1 .. N : variants[i].weight \in Int /\ variants[i].value \in values
    BY DEF Weighted
  <2> QED BY <2>1, <2>2
<1> HIDE DEF total, N
<1>3. Foldable(N, PastStates(values), b, g)
  <2>1. b \in PastStates(values)
    BY <1>2 DEF PastStates
  <2>2. ASSUME NEW i \in 1 .. N, NEW y \in PastStates(values)
        PROVE  PastStep(y, variants[i], n, total) \in PastStates(values)
    <3> HIDE DEF values
    <3> QED BY <1>2, PastStepIs
  <2> HIDE DEF b, values
  <2>3. g \in [1 .. N -> [PastStates(values) -> PastStates(values)]]
    BY <2>2
  <2> QED BY <1>2, <2>1, <2>3 DEF Foldable
<1>4. PICK t : /\ t \in [SUBSET (1 .. N) -> PastStates(values)]
               /\ t = [s \in SUBSET (1 .. N) |-> FoldOf(s, b, g, t)]
  <2> HIDE DEF b, g, values
  <2>1. \E t : IsFold(N, PastStates(values), b, g, t)
    BY <1>3, FoldLeftExists
  <2> QED BY <2>1 DEF IsFold
<1>5. Rec(t)
  <2> HIDE DEF b, values
  <2>1. ASSUME NEW s \in SUBSET (1 .. N)
        PROVE  FoldOf(s, b, g, t)
                 = IF s = {} THEN b
                   ELSE PastStep(t[s \ {Max(s)}], variants[Max(s)], n, total)
    <3>1. CASE s = {}
      BY <3>1 DEF FoldOf
    <3>2. CASE s # {}
      <4>1. Max(s) \in 1 .. N
        BY <1>2, <3>2, MaxInSet
      <4>2. t[s \ {Max(s)}] \in PastStates(values)
        BY <1>4
      <4> QED BY <3>2, <4>1, <4>2 DEF FoldOf
    <3> QED BY <3>1, <3>2
  <2> HIDE DEF g
  <2> QED BY <1>2, <1>4, <2>1
<1>6. Rec(F)
  <2> HIDE DEF Rec
  <2> QED BY <1>5
<1> HIDE DEF b, g, values
<1>7. \A s \in SUBSET (1 .. N) :
        F[s] = IF s = {} THEN b ELSE PastStep(F[s \ {Max(s)}], variants[Max(s)], n, total)
  <2> HIDE DEF F
  <2> QED BY <1>2, <1>6
<1> HIDE DEF F, Rec
<1>8. /\ F[1 .. 0] = b
      /\ \A j \in 1 .. N : F[1 .. j] = PastStep(F[1 .. j - 1], variants[j], n, total)
  <2>1. 1 .. 0 = {}
    OBVIOUS
  <2>2. ASSUME NEW j \in 1 .. N
        PROVE  F[1 .. j] = PastStep(F[1 .. j - 1], variants[j], n, total)
    <3>1. j \in Nat /\ j # 0 /\ 1 .. j \in SUBSET (1 .. N)
      BY <1>2
    <3> QED BY <1>7, <3>1, MaxOfPrefix
  <2> QED BY <1>7, <2>1, <2>2
<1> DEFINE past == PastPoint(variants, n)
           Right(j) == /\ F[1 .. j] \in PastStates(values)
                       /\ ~F[1 .. j].found => /\ F[1 .. j].cumulative = Cumulative(variants, j)
                                              /\ F[1 .. j].value = variants[N].value
                                              /\ \A i \in 1 .. j : i \notin past
                       /\ F[1 .. j].found => past # {} /\ F[1 .. j].value = variants[Min(past)].value
           Bad == {j \in 0 .. N : ~Right(j)}
<1>9. past \in SUBSET Nat /\ past \in SUBSET (1 .. N)
  BY <1>2 DEF PastPoint
<1>10. Right(0)
  <2>1. b \in PastStates(values) /\ ~b.found /\ b.cumulative = 0 /\ b.value = variants[N].value
    BY <1>2, <1>3 DEF b, Foldable
  <2>2. Cumulative(variants, 0) = 0
    BY SumsAre
  <2> QED BY <1>8, <2>1, <2>2
<1>11. ASSUME NEW j \in 1 .. N, Right(j - 1) PROVE Right(j)
  <2> DEFINE at == F[1 .. j - 1]
  <2>1. F[1 .. j] = PastStep(at, variants[j], n, total)
    BY <1>8
  <2>2. /\ at \in PastStates(values)
        /\ variants[j].weight \in Int /\ variants[j].value \in values
    BY <1>2, <1>11
  <2>3. CASE at.found
    <3>1. F[1 .. j] = at
      BY <2>1, <2>2, <2>3, PastStepIs
    <3> QED BY <1>11, <2>3, <3>1
  <2>4. CASE ~at.found
    <3>1. at.cumulative = Cumulative(variants, j - 1) /\ at.value = variants[N].value
          /\ \A i \in 1 .. j - 1 : i \notin past
      BY <1>11, <2>4
    <3>2. Cumulative(variants, j) = at.cumulative + variants[j].weight
      BY <1>2, <3>1, SumsAre
    <3>3. PastAt(at, variants[j], n, total) <=> j \in past
      BY <1>2, <3>2 DEF PastAt, PastPoint, N
    <3> HIDE DEF past, at, Right
    <3>4. CASE j \in past
      <4>1. /\ F[1 .. j] \in PastStates(values)
            /\ F[1 .. j].found /\ F[1 .. j].value = variants[j].value
        BY <2>1, <2>2, <2>4, <3>3, <3>4, PastStepIs
      <4>2. Min(past) \in past /\ Min(past) <= j
        BY <1>9, <3>4, MinInSet
      <4>3. Min(past) = j
        <5>1. Min(past) \in 1 .. N /\ ~(Min(past) \in 1 .. j - 1)
          BY <1>9, <3>1, <4>2
        <5> QED BY <1>2, <4>2, <5>1
      <4> QED BY <3>4, <4>1, <4>3 DEF Right
    <3>5. CASE j \notin past
      <4>1. /\ F[1 .. j] \in PastStates(values)
            /\ ~F[1 .. j].found /\ F[1 .. j].value = variants[N].value
            /\ F[1 .. j].cumulative = Cumulative(variants, j)
        BY <2>1, <2>2, <2>4, <3>1, <3>2, <3>3, <3>5, PastStepIs
      <4>2. \A i \in 1 .. j : i \notin past
        BY <3>1, <3>5
      <4> QED BY <4>1, <4>2 DEF Right
    <3> QED BY <3>4, <3>5
  <2> QED BY <2>3, <2>4
<1>12. Right(N)
  <2> HIDE DEF Right
  <2>1. SUFFICES ASSUME ~Right(N) PROVE FALSE
    OBVIOUS
  <2>2. Bad \in SUBSET Nat /\ N \in Bad
    BY <1>2, <2>1
  <2>3. PICK j \in Bad : \A y \in Bad : j <= y
    BY <2>2, MinInSet
  <2>4. j \in 0 .. N /\ ~Right(j)
    OBVIOUS
  <2>5. j # 0
    BY <1>10, <2>4
  <2>6. j \in 1 .. N /\ j - 1 \in 0 .. N /\ ~(j <= j - 1)
    BY <1>2, <2>4, <2>5
  <2>7. Right(j - 1)
    <3>1. j - 1 \notin Bad
      <4> HIDE DEF Bad
      <4> QED BY <2>3, <2>6
    <3> QED BY <2>6, <3>1
  <2> QED BY <1>11, <2>4, <2>6, <2>7
<1>13. F[1 .. N].value = variants[VariantIndex(variants, n)].value
  <2>1. CASE F[1 .. N].found
    BY <1>12, <2>1 DEF VariantIndex
  <2>2. CASE ~F[1 .. N].found
    <3>1. past = {}
      BY <1>9, <1>12, <2>2
    <3> HIDE DEF past
    <3>2. VariantIndex(variants, n) = N
      BY <3>1 DEF VariantIndex, past, N
    <3> QED BY <1>12, <2>2, <3>2
  <2> QED BY <2>1, <2>2
<1> QED BY <1>1, <1>2, <1>13

\* Both SDKs pick the variant of a rollout that the server picks.
LEMMA SameBucket ==
  ASSUME NEW rollout, NEW key, NEW targetingKey, Weighted(rollout.variants),
         rollout.variants = <<>> \/ Len(rollout.variants) > 0
  PROVE  /\ goBucket(rollout, key, targetingKey) = Bucket(rollout, key, targetingKey)
         /\ tsBucket(rollout, key, targetingKey) = Bucket(rollout, key, targetingKey)
<1>1. CASE rollout.variants = <<>>
  BY <1>1 DEF goBucket, tsBucket, Bucket
<1>2. CASE rollout.variants # <<>>
  <2> DEFINE vs == rollout.variants
             salt == IF rollout.salt = "" THEN key ELSE rollout.salt
             n == Hash[<<salt, key, targetingKey>>]
  <2>1. FirstPast(vs, n) = vs[VariantIndex(vs, n)].value
    BY <1>2, FirstPastIsIndex
  <2>2. Head(vs) = vs[1]
    OBVIOUS
  <2> QED BY <1>2, <2>1, <2>2 DEF goBucket, tsBucket, Bucket
<1> QED BY <1>1, <1>2

-----------------------------------------------------------------------------
(* The loops of the SDKs over conditions and rules.                        *)

\* A list, as it is decoded.
List(seq) == DOMAIN seq = 1 .. Len(seq) /\ Len(seq) \in Nat

\* The Go SDK matches conditions as the server does.
LEMMA SameGoConditions ==
  ASSUME NEW conditions, NEW attrs, List(conditions),
         \A j \in DOMAIN conditions : Comparable(conditions[j], attrs)
  PROVE  goMatchConditions(conditions, attrs) <=> MatchConditions(conditions, attrs)
<1> DEFINE N == Len(conditions)
           ok(i) == goMatchCondition(conditions[i], attrs)
           skip == {i \in 1 .. N : ok(i)}
           out == [i \in 1 .. N |-> FALSE]
           Rec(f) == f = [s \in SUBSET DOMAIN conditions |->
                            IF s = {} THEN TRUE
                            ELSE goMatchCondition(conditions[Min(s)], attrs) /\ f[s \ {Min(s)}]]
           F == CHOOSE f : Rec(f)
           w == [s \in SUBSET (1 .. N) |-> EndsWith(s, skip, out, TRUE)]
<1>1. goMatchConditions(conditions, attrs) = F[DOMAIN conditions]
  BY Zenon DEF goMatchConditions, FoldRight, MapThenFoldSet
<1>2. N \in Nat /\ DOMAIN conditions = 1 .. N
  BY DEF List
<1> HIDE DEF N
<1>3. ASSUME NEW s \in SUBSET (1 .. N), s # {} PROVE Min(s) \in s /\ Min(s) \in 1 .. N
  <2>1. s \in SUBSET Nat
    BY <1>2
  <2> QED BY <1>3, <2>1, MinInSet
<1>4. LoopOf(N, skip, out, TRUE, w)
  <2> HIDE DEF skip, out
  <2> QED BY <1>2, LoopEndsAtFirst
<1>5. \A s \in SUBSET (1 .. N) : w[s] \in BOOLEAN
  <2> SUFFICES ASSUME NEW s \in SUBSET (1 .. N) PROVE EndsWith(s, skip, out, TRUE) \in BOOLEAN
    OBVIOUS
  <2>1. CASE s \subseteq skip
    BY <2>1 DEF EndsWith
  <2>2. CASE ~(s \subseteq skip)
    <3>1. s \ skip # {} /\ s \ skip \in SUBSET (1 .. N)
      BY <2>2
    <3>2. Min(s \ skip) \in 1 .. N
      <4> HIDE DEF skip
      <4> QED BY <1>3, <3>1
    <3> QED BY <2>2, <3>2 DEF EndsWith
  <2> QED BY <2>1, <2>2
<1>6. Rec(w)
  <2>1. ASSUME NEW s \in SUBSET (1 .. N)
        PROVE  w[s] = IF s = {} THEN TRUE
                      ELSE goMatchCondition(conditions[Min(s)], attrs) /\ w[s \ {Min(s)}]
    <3> HIDE DEF w
    <3>1. w[s] = IF s = {} THEN TRUE ELSE IF Min(s) \in skip THEN w[s \ {Min(s)}]
                                          ELSE out[Min(s)]
      <4> HIDE DEF skip, out
      <4> QED BY <1>4 DEF LoopOf
    <3>2. CASE s = {}
      BY <3>1, <3>2
    <3>3. CASE s # {}
      <4>1. Min(s) \in 1 .. N /\ w[s \ {Min(s)}] \in BOOLEAN
        BY <1>3, <1>5, <3>3
      <4>2. CASE ok(Min(s))
        BY <3>1, <3>3, <4>1, <4>2
      <4>3. CASE ~ok(Min(s))
        BY <3>1, <3>3, <4>1, <4>3
      <4> QED BY <4>2, <4>3
    <3> QED BY <3>2, <3>3
  <2>2. w = [s \in SUBSET (1 .. N) |-> w[s]]
    OBVIOUS
  <2> HIDE DEF w
  <2> QED BY <1>2, <2>1, <2>2
<1>7. Rec(F)
  <2> HIDE DEF Rec, w
  <2> QED BY <1>6
<1> HIDE DEF F
<1>8. LoopOf(N, skip, out, TRUE, F)
  <2>1. F = [s \in SUBSET (1 .. N) |->
               IF s = {} THEN TRUE
               ELSE goMatchCondition(conditions[Min(s)], attrs) /\ F[s \ {Min(s)}]]
    BY <1>2, <1>7
  <2>2. \A s \in SUBSET (1 .. N) :
          F[s] = IF s = {} THEN TRUE
                 ELSE goMatchCondition(conditions[Min(s)], attrs) /\ F[s \ {Min(s)}]
    BY <2>1
  <2>3. \A s \in SUBSET (1 .. N) : F[s] \in BOOLEAN
    BY <2>2
  <2>4. ASSUME NEW s \in SUBSET (1 .. N)
        PROVE  F[s] = IF s = {} THEN TRUE ELSE IF Min(s) \in skip THEN F[s \ {Min(s)}]
                                               ELSE out[Min(s)]
    <3>1. CASE s = {}
      BY <2>2, <3>1
    <3>2. CASE s # {}
      <4>1. Min(s) \in 1 .. N /\ F[s \ {Min(s)}] \in BOOLEAN
        BY <1>3, <2>3, <3>2
      <4>2. CASE ok(Min(s))
        BY <2>2, <3>2, <4>1, <4>2
      <4>3. CASE ~ok(Min(s))
        BY <2>2, <3>2, <4>1, <4>3
      <4> QED BY <4>2, <4>3
    <3> QED BY <3>1, <3>2
  <2>5. F = [s \in SUBSET (1 .. N) |-> F[s]]
    BY <2>1, <2>2
  <2> HIDE DEF skip, out
  <2> QED BY <2>4, <2>5 DEF LoopOf
<1>9. F[1 .. N] = EndsWith(1 .. N, skip, out, TRUE)
  <2> HIDE DEF skip, out, Rec, w
  <2> QED BY <1>2, <1>8, LoopEndsAtFirst
<1>10. MatchConditions(conditions, attrs) <=> (\A i \in 1 .. N : ok(i))
  BY <1>2, SameGoCondition DEF MatchConditions
<1>11. CASE \A i \in 1 .. N : ok(i)
  <2>1. 1 .. N \subseteq skip
    BY <1>11
  <2> HIDE DEF skip, out
  <2> QED BY <1>1, <1>2, <1>9, <1>10, <1>11, <2>1 DEF EndsWith
<1>12. CASE ~(\A i \in 1 .. N : ok(i))
  <2>1. ~(1 .. N \subseteq skip) /\ (1 .. N) \ skip # {}
    BY <1>12
  <2>2. Min((1 .. N) \ skip) \in 1 .. N
    <3> HIDE DEF skip
    <3> QED BY <1>3, <2>1
  <2>3. EndsWith(1 .. N, skip, out, TRUE) = FALSE
    BY <2>1, <2>2 DEF EndsWith
  <2> HIDE DEF skip, out
  <2> QED BY <1>1, <1>2, <1>9, <1>10, <1>12, <2>3
<1> QED BY <1>11, <1>12

\* The TypeScript SDK stops at the first condition that it does not find to hold: if it
\* throws there, the condition has no values; otherwise it has matched them as the server
\* does, unless it orders an infinite attribute.
LEMMA SameTsConditions ==
  ASSUME NEW conditions, NEW attrs, List(conditions),
         \A j \in DOMAIN conditions : Comparable(conditions[j], attrs)
  PROVE  /\ tsMatchConditions(conditions, attrs) \in {"holds", "fails", "throws"}
         /\ tsMatchConditions(conditions, attrs) = "throws" =>
              \E j \in DOMAIN conditions : ~conditions[j].listed
         /\ (\A j \in DOMAIN conditions : ~OrdersInfinite(conditions[j], attrs)) =>
              /\ tsMatchConditions(conditions, attrs) = "holds" => MatchConditions(conditions, attrs)
              /\ tsMatchConditions(conditions, attrs) = "fails" => ~MatchConditions(conditions, attrs)
<1> DEFINE N == Len(conditions)
           match(i) == tsMatchCondition(conditions[i], attrs)
           skip == {i \in 1 .. N : match(i) = "holds"}
           out == [i \in 1 .. N |-> match(i)]
           Rec(f) == f = [s \in SUBSET DOMAIN conditions |->
                            IF s = {} THEN "holds"
                            ELSE IF tsMatchCondition(conditions[Min(s)], attrs) = "holds"
                                 THEN f[s \ {Min(s)}]
                                 ELSE tsMatchCondition(conditions[Min(s)], attrs)]
           F == CHOOSE f : Rec(f)
           w == [s \in SUBSET (1 .. N) |-> EndsWith(s, skip, out, "holds")]
<1>1. tsMatchConditions(conditions, attrs) = F[DOMAIN conditions]
  BY Zenon DEF tsMatchConditions, FoldRight, MapThenFoldSet
<1>2. N \in Nat /\ DOMAIN conditions = 1 .. N
  BY DEF List
<1> HIDE DEF N
<1>3. ASSUME NEW s \in SUBSET (1 .. N), s # {} PROVE Min(s) \in s /\ Min(s) \in 1 .. N
  <2>1. s \in SUBSET Nat
    BY <1>2
  <2> QED BY <1>3, <2>1, MinInSet
<1>4. LoopOf(N, skip, out, "holds", w)
  <2> HIDE DEF skip, out
  <2> QED BY <1>2, LoopEndsAtFirst
<1> HIDE DEF w
<1>5. ASSUME NEW f PROVE Rec(f) <=> LoopOf(N, skip, out, "holds", f)
  <2>1. ASSUME NEW s \in SUBSET (1 .. N)
        PROVE  (IF s = {} THEN "holds"
                ELSE IF match(Min(s)) = "holds" THEN f[s \ {Min(s)}] ELSE match(Min(s)))
               = (IF s = {} THEN "holds"
                  ELSE IF Min(s) \in skip THEN f[s \ {Min(s)}] ELSE out[Min(s)])
    <3>1. CASE s = {}
      BY <3>1
    <3>2. CASE s # {}
      BY <1>3, <3>2
    <3> QED BY <3>1, <3>2
  <2> HIDE DEF skip, out
  <2> QED BY <1>2, <2>1 DEF LoopOf
<1>6. F[1 .. N] = EndsWith(1 .. N, skip, out, "holds")
  <2> HIDE DEF skip, out, Rec
  <2>1. Rec(F)
    BY <1>4, <1>5
  <2> HIDE DEF F
  <2>2. LoopOf(N, skip, out, "holds", F)
    BY <1>5, <2>1
  <2> QED BY <1>2, <2>2, LoopEndsAtFirst
<1> HIDE DEF F, Rec
<1>7. \A i \in 1 .. N :
        /\ match(i) \in {"holds", "fails", "throws"}
        /\ match(i) = "throws" => ~conditions[i].listed
        /\ ~OrdersInfinite(conditions[i], attrs) =>
             /\ match(i) = "holds" => MatchCondition(conditions[i], attrs)
             /\ match(i) = "fails" => ~MatchCondition(conditions[i], attrs)
  BY <1>2, SameTsCondition
<1>8. CASE 1 .. N \subseteq skip
  <2>1. F[1 .. N] = "holds"
    <3> HIDE DEF skip, out
    <3> QED BY <1>6, <1>8 DEF EndsWith
  <2>2. \A i \in 1 .. N : match(i) = "holds"
    BY <1>8
  <2> HIDE DEF match
  <2>3. (\A j \in DOMAIN conditions : ~OrdersInfinite(conditions[j], attrs)) =>
          MatchConditions(conditions, attrs)
    BY <1>2, <1>7, <2>2 DEF MatchConditions
  <2> QED BY <1>1, <1>2, <2>1, <2>3
<1>9. CASE ~(1 .. N \subseteq skip)
  <2> DEFINE i == Min((1 .. N) \ skip)
  <2>1. i \in 1 .. N /\ i \notin skip
    <3>1. (1 .. N) \ skip # {}
      BY <1>9
    <3> HIDE DEF skip
    <3> QED BY <1>3, <3>1
  <2>2. F[1 .. N] = out[i]
    <3> HIDE DEF skip, out
    <3> QED BY <1>6, <1>9 DEF EndsWith
  <2> HIDE DEF i
  <2>3. F[1 .. N] = match(i) /\ match(i) # "holds"
    BY <2>1, <2>2
  <2> HIDE DEF match
  <2>4. (\A j \in DOMAIN conditions : ~OrdersInfinite(conditions[j], attrs)) /\ match(i) = "fails" =>
          ~MatchConditions(conditions, attrs)
    BY <1>2, <1>7, <2>1 DEF MatchConditions
  <2> QED BY <1>1, <1>2, <1>7, <2>1, <2>3, <2>4
<1> QED BY <1>8, <1>9

\* What the evaluators of the SDKs take for granted of the rules of a field.
Evaluable(rules, attrs) ==
  /\ List(rules)
  /\ \A i \in DOMAIN rules :
       /\ Weighted(rules[i].rollout.variants)
       /\ rules[i].rollout.variants = <<>> \/ Len(rules[i].rollout.variants) > 0
       /\ List(rules[i].conditions)
       /\ \A j \in DOMAIN rules[i].conditions : Comparable(rules[i].conditions[j], attrs)

\* The Go SDK resolves a field as the server does.
LEMMA SameGoResolve ==
  ASSUME NEW key, NEW base, NEW rules, NEW ctx, Evaluable(rules, ctx.attributes)
  PROVE  goResolve(key, base, rules, ctx) = Resolve(key, base, rules, ctx)
<1> DEFINE N == Len(rules)
           match(i) == goMatchConditions(rules[i].conditions, ctx.attributes)
           outcome(i) == IF rules[i].rollout.set
                         THEN goBucket(rules[i].rollout, key, ctx.targetingKey)
                         ELSE rules[i].value
           skip == {i \in 1 .. N : ~match(i)}
           out == [i \in 1 .. N |-> outcome(i)]
           Rec(f) == f = [s \in SUBSET DOMAIN rules |->
                            IF s = {} THEN base
                            ELSE IF ~match(Min(s)) THEN f[s \ {Min(s)}] ELSE outcome(Min(s))]
           F == CHOOSE f : Rec(f)
           w == [s \in SUBSET (1 .. N) |-> EndsWith(s, skip, out, base)]
<1>1. goResolve(key, base, rules, ctx) = F[DOMAIN rules]
  BY Zenon DEF goResolve, FoldRight, MapThenFoldSet
<1>2. N \in Nat /\ DOMAIN rules = 1 .. N
  BY DEF Evaluable, List
<1> HIDE DEF N
<1>3. ASSUME NEW s \in SUBSET (1 .. N), s # {} PROVE Min(s) \in s /\ Min(s) \in 1 .. N
  <2>1. s \in SUBSET Nat
    BY <1>2
  <2> QED BY <1>3, <2>1, MinInSet
<1>4. LoopOf(N, skip, out, base, w)
  <2> HIDE DEF skip, out
  <2> QED BY <1>2, LoopEndsAtFirst
<1> HIDE DEF w, outcome, match
<1>5. ASSUME NEW f PROVE Rec(f) <=> LoopOf(N, skip, out, base, f)
  <2>1. ASSUME NEW s \in SUBSET (1 .. N)
        PROVE  (IF s = {} THEN base
                ELSE IF ~match(Min(s)) THEN f[s \ {Min(s)}] ELSE outcome(Min(s)))
               = (IF s = {} THEN base
                  ELSE IF Min(s) \in skip THEN f[s \ {Min(s)}] ELSE out[Min(s)])
    <3>1. CASE s = {}
      BY <3>1
    <3>2. CASE s # {}
      BY <1>3, <3>2
    <3> QED BY <3>1, <3>2
  <2> HIDE DEF skip, out
  <2> QED BY <1>2, <2>1 DEF LoopOf
<1>6. F[1 .. N] = EndsWith(1 .. N, skip, out, base)
  <2> HIDE DEF skip, out, Rec
  <2>1. Rec(F)
    BY <1>4, <1>5
  <2> HIDE DEF F
  <2>2. LoopOf(N, skip, out, base, F)
    BY <1>5, <2>1
  <2> QED BY <1>2, <2>2, LoopEndsAtFirst
<1> HIDE DEF F, Rec
<1>7. \A i \in 1 .. N : match(i) <=> MatchConditions(rules[i].conditions, ctx.attributes)
  BY <1>2, SameGoConditions DEF Evaluable, match
<1>8. \A i \in 1 .. N : outcome(i) = Outcome(rules[i], key, ctx)
  BY <1>2, SameBucket DEF Evaluable, outcome, Outcome
<1>9. Matching(rules, ctx) = (1 .. N) \ skip
  BY <1>2, <1>7 DEF Matching
<1>10. CASE 1 .. N \subseteq skip
  <2>1. (1 .. N) \ skip = {}
    BY <1>10
  <2> HIDE DEF skip, out
  <2> QED BY <1>1, <1>2, <1>6, <1>9, <1>10, <2>1 DEF EndsWith, Resolve
<1>11. CASE ~(1 .. N \subseteq skip)
  <2> DEFINE i == Min((1 .. N) \ skip)
  <2>1. (1 .. N) \ skip # {}
    BY <1>11
  <2>2. i \in 1 .. N
    <3> HIDE DEF skip
    <3> QED BY <1>3, <2>1
  <2>3. F[1 .. N] = out[i] /\ Resolve(key, base, rules, ctx) = Outcome(rules[i], key, ctx)
    <3> HIDE DEF skip, out
    <3> QED BY <1>6, <1>9, <1>11, <2>1 DEF EndsWith, Resolve
  <2> HIDE DEF i
  <2>4. out[i] = outcome(i)
    BY <2>2
  <2> HIDE DEF out
  <2> QED BY <1>1, <1>2, <1>8, <2>2, <2>3, <2>4
<1> QED BY <1>10, <1>11

\* The TypeScript SDK resolves a field as the server does, unless it throws, at a condition
\* without values, or orders an infinite attribute.
LEMMA SameTsResolve ==
  ASSUME NEW key, NEW base, NEW rules, NEW ctx, Evaluable(rules, ctx.attributes),
         base # Throws,
         \A i \in DOMAIN rules :
           /\ rules[i].value # Throws
           /\ \A j \in DOMAIN rules[i].rollout.variants :
                rules[i].rollout.variants[j].value # Throws
  PROVE  /\ tsResolve(key, base, rules, ctx) = Throws =>
              \E i \in DOMAIN rules : \E j \in DOMAIN rules[i].conditions :
                ~rules[i].conditions[j].listed
         /\ \/ tsResolve(key, base, rules, ctx) = Throws
            \/ tsResolve(key, base, rules, ctx) = Resolve(key, base, rules, ctx)
            \/ \E i \in DOMAIN rules : \E j \in DOMAIN rules[i].conditions :
                 OrdersInfinite(rules[i].conditions[j], ctx.attributes)
<1> DEFINE N == Len(rules)
           match(i) == tsMatchConditions(rules[i].conditions, ctx.attributes)
           outcome(i) == IF match(i) = "throws" THEN Throws
                         ELSE IF rules[i].rollout.set
                         THEN tsBucket(rules[i].rollout, key, ctx.targetingKey)
                         ELSE rules[i].value
           skip == {i \in 1 .. N : match(i) = "fails"}
           out == [i \in 1 .. N |-> outcome(i)]
           Rec(f) == f = [s \in SUBSET DOMAIN rules |->
                            IF s = {} THEN base
                            ELSE IF match(Min(s)) = "fails" THEN f[s \ {Min(s)}]
                            ELSE outcome(Min(s))]
           F == CHOOSE f : Rec(f)
           w == [s \in SUBSET (1 .. N) |-> EndsWith(s, skip, out, base)]
           finite(i) == \A j \in DOMAIN rules[i].conditions :
                          ~OrdersInfinite(rules[i].conditions[j], ctx.attributes)
<1>1. tsResolve(key, base, rules, ctx) = F[DOMAIN rules]
  BY Zenon DEF tsResolve, FoldRight, MapThenFoldSet
<1>2. N \in Nat /\ DOMAIN rules = 1 .. N
  BY DEF Evaluable, List
<1> HIDE DEF N
<1>3. ASSUME NEW s \in SUBSET (1 .. N), s # {} PROVE Min(s) \in s /\ Min(s) \in 1 .. N
  <2>1. s \in SUBSET Nat
    BY <1>2
  <2> QED BY <1>3, <2>1, MinInSet
<1>4. LoopOf(N, skip, out, base, w)
  <2> HIDE DEF skip, out
  <2> QED BY <1>2, LoopEndsAtFirst
<1> HIDE DEF w, outcome, match
<1>5. ASSUME NEW f PROVE Rec(f) <=> LoopOf(N, skip, out, base, f)
  <2>1. ASSUME NEW s \in SUBSET (1 .. N)
        PROVE  (IF s = {} THEN base
                ELSE IF match(Min(s)) = "fails" THEN f[s \ {Min(s)}] ELSE outcome(Min(s)))
               = (IF s = {} THEN base
                  ELSE IF Min(s) \in skip THEN f[s \ {Min(s)}] ELSE out[Min(s)])
    <3>1. CASE s = {}
      BY <3>1
    <3>2. CASE s # {}
      BY <1>3, <3>2
    <3> QED BY <3>1, <3>2
  <2> HIDE DEF skip, out
  <2> QED BY <1>2, <2>1 DEF LoopOf
<1>6. F[1 .. N] = EndsWith(1 .. N, skip, out, base)
  <2> HIDE DEF skip, out, Rec
  <2>1. Rec(F)
    BY <1>4, <1>5
  <2> HIDE DEF F
  <2>2. LoopOf(N, skip, out, base, F)
    BY <1>5, <2>1
  <2> QED BY <1>2, <2>2, LoopEndsAtFirst
<1> HIDE DEF F, Rec
<1>7. ASSUME NEW i \in 1 .. N
      PROVE  /\ match(i) \in {"holds", "fails", "throws"}
             /\ match(i) = "throws" =>
                  \E j \in DOMAIN rules[i].conditions : ~rules[i].conditions[j].listed
             /\ finite(i) /\ match(i) = "holds" =>
                  MatchConditions(rules[i].conditions, ctx.attributes)
             /\ finite(i) /\ match(i) = "fails" =>
                  ~MatchConditions(rules[i].conditions, ctx.attributes)
  <2>1. /\ List(rules[i].conditions)
        /\ \A j \in DOMAIN rules[i].conditions : Comparable(rules[i].conditions[j], ctx.attributes)
    BY <1>2 DEF Evaluable
  <2> QED BY <2>1, SameTsConditions DEF match
<1> HIDE DEF finite
<1>8. ASSUME NEW i \in 1 .. N, match(i) # "throws"
      PROVE  outcome(i) = Outcome(rules[i], key, ctx) /\ outcome(i) # Throws
  <2>1. outcome(i) = Outcome(rules[i], key, ctx)
    BY <1>2, <1>8, SameBucket DEF Evaluable, outcome, Outcome
  <2>2. CASE ~rules[i].rollout.set
    BY <1>2, <2>1, <2>2 DEF Outcome
  <2>3. CASE rules[i].rollout.set
    <3> DEFINE r == rules[i].rollout
    <3>1. Weighted(r.variants) /\ (r.variants = <<>> \/ Len(r.variants) > 0)
      BY <1>2 DEF Evaluable
    <3>2. CASE r.variants = <<>>
      <4>1. Bucket(r, key, ctx.targetingKey) = Null
        BY <3>2 DEF Bucket
      <4>2. Null # Throws
        BY DEF Null, Throws
      <4> QED BY <2>1, <2>3, <4>1, <4>2 DEF Outcome
    <3>3. CASE Len(r.variants) > 0
      <4>1. PICK j \in DOMAIN r.variants :
              Bucket(r, key, ctx.targetingKey) = r.variants[j].value
        <5> HIDE DEF r
        <5> QED BY ONLY <3>1, <3>3, BucketIsVariant
      <4>2. r.variants[j].value # Throws
        BY <1>2
      <4> QED BY <2>1, <2>3, <4>1, <4>2 DEF Outcome
    <3> QED BY <3>1, <3>2, <3>3
  <2> QED BY <2>1, <2>2, <2>3
<1>9. CASE 1 .. N \subseteq skip
  <2>1. F[1 .. N] = base
    <3> HIDE DEF skip, out
    <3> QED BY <1>6, <1>9 DEF EndsWith
  <2>2. ASSUME \A i \in 1 .. N : finite(i) PROVE Resolve(key, base, rules, ctx) = base
    <3>1. \A i \in 1 .. N : ~MatchConditions(rules[i].conditions, ctx.attributes)
      BY <1>7, <1>9, <2>2
    <3>2. Matching(rules, ctx) = {}
      BY <1>2, <3>1 DEF Matching
    <3> QED BY <3>2 DEF Resolve
  <2> QED BY <1>1, <1>2, <2>1, <2>2 DEF finite
<1>10. CASE ~(1 .. N \subseteq skip)
  <2> DEFINE i == Min((1 .. N) \ skip)
  <2>1. (1 .. N) \ skip # {} /\ (1 .. N) \ skip \in SUBSET Nat
    <3>1. \A y \in 1 .. N : y \in Nat
      BY <1>2
    <3> HIDE DEF skip
    <3> QED BY <1>10, <3>1
  <2>2. i \in 1 .. N /\ i \notin skip /\ \A y \in (1 .. N) \ skip : i <= y
    <3> HIDE DEF skip
    <3> QED BY <2>1, MinInSet
  <2>3. F[1 .. N] = out[i]
    <3> HIDE DEF skip, out
    <3> QED BY <1>6, <1>10 DEF EndsWith
  <2> HIDE DEF i
  <2>4. F[1 .. N] = outcome(i) /\ match(i) # "fails"
    BY <2>2, <2>3
  <2>5. CASE match(i) = "throws"
    <3>1. F[1 .. N] = Throws
      BY <2>4, <2>5 DEF outcome
    <3> QED BY <1>1, <1>2, <1>7, <2>2, <2>5, <3>1
  <2>6. CASE match(i) # "throws"
    <3>1. F[1 .. N] = Outcome(rules[i], key, ctx) /\ F[1 .. N] # Throws
      BY <1>8, <2>2, <2>4, <2>6
    <3>2. ASSUME \A k \in 1 .. N : finite(k)
          PROVE  Resolve(key, base, rules, ctx) = Outcome(rules[i], key, ctx)
      <4>1. MatchConditions(rules[i].conditions, ctx.attributes)
        BY <1>7, <2>2, <2>4, <2>6, <3>2
      <4>2. \A k \in 1 .. N :
              MatchConditions(rules[k].conditions, ctx.attributes) => k \notin skip
        BY <1>7, <3>2
      <4> DEFINE S == Matching(rules, ctx)
      <4>3. S \in SUBSET (1 .. N) /\ i \in S /\ \A k \in S : i <= k
        <5>1. S \in SUBSET (1 .. N) /\ i \in S
          BY <1>2, <2>2, <4>1 DEF Matching
        <5>2. \A k \in S : k \in (1 .. N) \ skip
          BY <1>2, <4>2 DEF Matching
        <5> QED BY <2>2, <5>1, <5>2
      <4> HIDE DEF S
      <4>4. Min(S) = i
        <5>1. S \in SUBSET Nat /\ S # {}
          BY <1>2, <4>3
        <5>2. Min(S) \in S /\ Min(S) <= i
          BY <4>3, <5>1, MinInSet
        <5>3. i <= Min(S) /\ Min(S) \in Nat /\ i \in Nat
          BY <4>3, <5>1, <5>2
        <5> QED BY <5>2, <5>3
      <4> QED BY <4>3, <4>4 DEF Resolve, S
    <3> QED BY <1>1, <1>2, <3>1, <3>2 DEF finite
  <2> QED BY <2>5, <2>6
<1> QED BY <1>9, <1>10

\* What can be saved is evaluable in every context, field by field.
LEMMA PayloadsAreEvaluable ==
  ASSUME NEW p \in Payloads, NEW k \in DOMAIN p.rules, NEW ctx \in Contexts
  PROVE  Evaluable(p.rules[k], ctx.attributes)
<1> DEFINE rules == p.rules[k]
<1>1. List(rules)
  BY PayloadsAssumption DEF List
<1>2. ASSUME NEW i \in DOMAIN rules
      PROVE  /\ Weighted(rules[i].rollout.variants)
             /\ rules[i].rollout.variants = <<>> \/ Len(rules[i].rollout.variants) > 0
  BY PayloadsAssumption DEF Weighted
<1>3. ASSUME NEW i \in DOMAIN rules PROVE List(rules[i].conditions)
  BY JsonAssumption DEF List
<1>4. ASSUME NEW i \in DOMAIN rules, NEW j \in DOMAIN rules[i].conditions
      PROVE  Comparable(rules[i].conditions[j], ctx.attributes)
  <2> DEFINE vs == rules[i].conditions[j].values
             SameKind(v, w) == Numeric(v) /\ Numeric(w) /\ v.n = w.n => v = w
  <2>0. /\ DOMAIN vs = 1 .. Len(vs) /\ (vs = <<>> \/ Len(vs) > 0)
        /\ \A m \in DOMAIN vs :
             /\ vs[m].kind # "infinite"
             /\ \A c \in Contexts : \A a \in DOMAIN c.attributes : SameKind(vs[m], c.attributes[a])
    BY <1>4, JsonAssumption, Zenon
  <2> HIDE DEF rules, vs
  <2>1. DOMAIN vs = 1 .. Len(vs) /\ (vs = <<>> \/ Len(vs) > 0)
    BY <2>0
  <2>2. ASSUME NEW m \in DOMAIN vs, NEW a \in DOMAIN ctx.attributes
        PROVE  Numeric(vs[m]) /\ Numeric(ctx.attributes[a]) /\ vs[m].n = ctx.attributes[a].n
                 => vs[m] = ctx.attributes[a]
    BY <2>0, <2>2, Zenon
  <2>3. ASSUME NEW m \in DOMAIN vs PROVE vs[m].kind # "infinite"
    BY <2>0, <2>3, Zenon
  <2>4. \A m \in DOMAIN vs :
          /\ vs[m].kind # "infinite"
          /\ \A a \in DOMAIN ctx.attributes :
               Numeric(vs[m]) /\ Numeric(ctx.attributes[a]) /\ vs[m].n = ctx.attributes[a].n
                 => vs[m] = ctx.attributes[a]
    BY <2>2, <2>3
  <2> QED BY <2>1, <2>4, Zenon DEF Comparable, vs
<1> HIDE DEF rules
<1>5. Evaluable(rules, ctx.attributes)
  BY <1>1, <1>2, <1>3, <1>4 DEF Evaluable
<1> QED BY <1>5 DEF rules

\* The three evaluators agree on every configuration that can be saved: the loops of both
\* SDKs find the conditions, the rule and the variant that the server's find, and where
\* the TypeScript SDK differs, it throws, an infinite attribute is ordered or a field is
\* called like a member of every object.
THEOREM AlwaysSdksAgree == Spec => []SdksAgree
<1>1. SavedInv => SdksAgree
  <2> SUFFICES ASSUME SavedInv, current # 0, NEW ctx \in Contexts
               PROVE  LET resolved == ResolveAll(Live.values, Live.rules, ctx)
                          ts == evaluate(Live.values, Live.rules, ctx)
                      IN  /\ EvaluateAll(Live.values, Live.rules, ctx) = resolved
                          /\ \A k \in DOMAIN resolved :
                               GetFor(Live.values, Live.rules, k, ctx)
                                 \in {<<resolved[k], TRUE>>, <<Null, FALSE>>}
                          /\ IF ts.threw THEN MayThrow
                             ELSE OrdersInfinity(ctx) \/ ts.result = ResolvedInTypeScript(ctx)
    BY DEF SdksAgree
  <2> DEFINE values == Live.values
             rules == Live.rules
             keys == DOMAIN values \cup DOMAIN rules
             base(k) == IF k \in DOMAIN values THEN values[k] ELSE Null
             own(k) == IF k \in DOMAIN rules THEN rules[k] ELSE <<>>
             inherits(k) == k \in Inherited \ DOMAIN values /\ Matching(rules[k], ctx) = {}
             inTs(k) == IF inherits(k) THEN Member(k) ELSE Resolve(k, base(k), own(k), ctx)
             resolved == ResolveAll(values, rules, ctx)
             ts == evaluate(values, rules, ctx)
  <2>1. Live \in Payloads
    <3>1. versions[current] \in SavedRows
      BY DEF SavedInv
    <3> QED BY <3>1 DEF SavedRows, Live
  <2>2. \A k \in keys : Evaluable(own(k), ctx.attributes)
    <3>1. Evaluable(<<>>, ctx.attributes)
      BY DEF Evaluable, List
    <3> QED BY <2>1, <3>1, PayloadsAreEvaluable
  <2>3. \A k \in keys : tsBase(values, k) # Throws
    <3>1. Null # Throws /\ \A k : Member(k) # Throws
      BY DEF Null, Throws, Member
    <3> QED BY <2>1, <3>1, JsonAssumption DEF tsBase
  <2>4. ASSUME NEW k \in DOMAIN rules, NEW i \in DOMAIN rules[k]
        PROVE  /\ rules[k][i].value # Throws
               /\ \A j \in DOMAIN rules[k][i].rollout.variants :
                    rules[k][i].rollout.variants[j].value # Throws
               /\ \A j \in DOMAIN rules[k][i].conditions :
                    rules[k][i].conditions[j] \in LiveConditions
    <3>1. /\ rules[k][i].value # Throws
          /\ \A j \in DOMAIN rules[k][i].rollout.variants :
               rules[k][i].rollout.variants[j].value # Throws
      BY <2>1, <2>4, JsonAssumption
    <3>2. \A j \in DOMAIN rules[k][i].conditions :
            rules[k][i].conditions[j] \in LiveConditions
      BY <2>4 DEF LiveConditions
    <3> QED BY <3>1, <3>2
  <2>5. resolved = [k \in keys |-> Resolve(k, base(k), own(k), ctx)]
    BY DEF ResolveAll
  <2>6. EvaluateAll(values, rules, ctx) = [k \in keys |-> goResolve(k, base(k), own(k), ctx)]
    BY DEF EvaluateAll
  <2>7. ts = [threw |-> \E k \in keys : get(values, rules, k, ctx) = Throws,
              result |-> [k \in keys \ {"__proto__"} |-> get(values, rules, k, ctx)]]
    <3> DEFINE field == [k \in keys |-> get(values, rules, k, ctx)]
    <3>1. ts = [threw |-> \E k \in keys : field[k] = Throws,
                result |-> [k \in keys \ {"__proto__"} |-> field[k]]]
      BY DEF evaluate
    <3>2. \A k \in keys : field[k] = get(values, rules, k, ctx)
      OBVIOUS
    <3> HIDE DEF keys, ts, field
    <3> QED BY <3>1, <3>2
  <2>8. \A k \in keys : get(values, rules, k, ctx) =
          IF k \in DOMAIN rules THEN tsResolve(k, tsBase(values, k), own(k), ctx)
          ELSE IF k \in Inherited THEN Throws ELSE base(k)
    BY DEF get, tsBase
  <2>9. \A k \in keys : GetFor(values, rules, k, ctx)
          \in {<<goResolve(k, base(k), own(k), ctx), TRUE>>, <<Null, FALSE>>}
    BY DEF GetFor
  <2>10. ResolvedInTypeScript(ctx) = [k \in keys \ {"__proto__"} |-> inTs(k)]
    <3>1. \A k : ReadsInherited(k, ctx) <=> inherits(k)
      BY DEF ReadsInherited
    <3>2. ResolvedInTypeScript(ctx) =
            [k \in DOMAIN resolved \ {"__proto__"} |->
               IF ReadsInherited(k, ctx) THEN Member(k) ELSE resolved[k]]
      BY DEF ResolvedInTypeScript
    <3>3. DOMAIN resolved = keys /\ \A k \in keys : resolved[k] = Resolve(k, base(k), own(k), ctx)
      BY <2>5
    <3> HIDE DEF keys, resolved, inherits, base, own
    <3> QED BY <3>1, <3>2, <3>3
  <2>11. \A k \in keys : k \in DOMAIN rules =>
           tsBase(values, k) = IF k \in Inherited \ DOMAIN values THEN Member(k) ELSE base(k)
    BY DEF tsBase
  <2> HIDE DEF values, rules, resolved, ts, base, own
  <2>12. \A k \in keys : goResolve(k, base(k), own(k), ctx) = Resolve(k, base(k), own(k), ctx)
    BY <2>2, SameGoResolve
  <2>13. EvaluateAll(values, rules, ctx) = resolved
    BY <2>5, <2>6, <2>12
  <2>14. \A k \in DOMAIN resolved :
           GetFor(values, rules, k, ctx) \in {<<resolved[k], TRUE>>, <<Null, FALSE>>}
    BY <2>5, <2>9, <2>12
  <2>15. ASSUME NEW k \in keys
         PROVE  /\ get(values, rules, k, ctx) = Throws => MayThrow
                /\ \/ get(values, rules, k, ctx) = Throws
                   \/ get(values, rules, k, ctx) = inTs(k)
                   \/ OrdersInfinity(ctx)
    <3>1. CASE k \in DOMAIN rules
      <4> DEFINE tb == tsBase(values, k)
      <4>1. own(k) = rules[k]
        BY <3>1 DEF own
      <4>2. tb # Throws
        BY <2>3
      <4> HIDE DEF tb
      <4>3. /\ tsResolve(k, tb, own(k), ctx) = Throws =>
                 \E i \in DOMAIN own(k) : \E j \in DOMAIN own(k)[i].conditions :
                   ~own(k)[i].conditions[j].listed
            /\ \/ tsResolve(k, tb, own(k), ctx) = Throws
               \/ tsResolve(k, tb, own(k), ctx) = Resolve(k, tb, own(k), ctx)
               \/ \E i \in DOMAIN own(k) : \E j \in DOMAIN own(k)[i].conditions :
                    OrdersInfinite(own(k)[i].conditions[j], ctx.attributes)
        BY <2>2, <2>4, <3>1, <4>1, <4>2, SameTsResolve
      <4>4. (\E i \in DOMAIN own(k) : \E j \in DOMAIN own(k)[i].conditions :
               ~own(k)[i].conditions[j].listed) => MayThrow
        BY <2>4, <3>1, <4>1 DEF MayThrow
      <4>5. (\E i \in DOMAIN own(k) : \E j \in DOMAIN own(k)[i].conditions :
               OrdersInfinite(own(k)[i].conditions[j], ctx.attributes)) => OrdersInfinity(ctx)
        BY <2>4, <3>1, <4>1 DEF OrdersInfinity, OrdersInfinite
      <4>6. Resolve(k, tb, own(k), ctx) = inTs(k)
        <5>1. tb = IF k \in Inherited \ DOMAIN values THEN Member(k) ELSE base(k)
          BY <2>11, <3>1 DEF tb
        <5>2. CASE Matching(rules[k], ctx) = {}
          BY <4>1, <5>1, <5>2 DEF Resolve
        <5>3. CASE Matching(rules[k], ctx) # {}
          BY <4>1, <5>3 DEF Resolve
        <5> QED BY <5>2, <5>3
      <4>7. get(values, rules, k, ctx) = tsResolve(k, tb, own(k), ctx)
        BY <2>8, <3>1 DEF tb
      <4> QED BY <4>3, <4>4, <4>5, <4>6, <4>7
    <3>2. CASE k \notin DOMAIN rules
      <4>1. CASE k \in Inherited
        <5>1. MayThrow
          BY <3>2, <4>1 DEF MayThrow, values, rules
        <5>2. get(values, rules, k, ctx) = Throws
          BY <2>8, <3>2, <4>1
        <5> QED BY <5>1, <5>2
      <4>2. CASE k \notin Inherited
        <5>1. get(values, rules, k, ctx) = base(k)
          BY <2>8, <3>2, <4>2
        <5>2. Resolve(k, base(k), own(k), ctx) = base(k)
          <6>1. Matching(own(k), ctx) = {}
            BY <3>2 DEF Matching, own
          <6> QED BY <6>1 DEF Resolve
        <5>3. inTs(k) = base(k)
          BY <4>2, <5>2
        <5>4. base(k) # Throws
          BY <2>3, <3>2, <4>2 DEF tsBase, base
        <5> QED BY <5>1, <5>3, <5>4
      <4> QED BY <4>1, <4>2
    <3> QED BY <3>1, <3>2
  <2>16. IF ts.threw THEN MayThrow ELSE OrdersInfinity(ctx) \/ ts.result = ResolvedInTypeScript(ctx)
    <3> HIDE DEF keys, inTs
    <3>1. ts.result = [k \in keys \ {"__proto__"} |-> get(values, rules, k, ctx)]
      BY <2>7
    <3>2. ts.threw <=> \E k \in keys : get(values, rules, k, ctx) = Throws
      BY <2>7
    <3>3. CASE ts.threw
      BY <2>15, <3>2, <3>3
    <3>4. CASE ~ts.threw /\ ~OrdersInfinity(ctx)
      <4>1. \A k \in keys : get(values, rules, k, ctx) = inTs(k)
        BY <2>15, <3>2, <3>4
      <4>2. ts.result = ResolvedInTypeScript(ctx)
        BY <2>10, <3>1, <4>1
      <4> QED BY <3>4, <4>2
    <3> QED BY <3>3, <3>4
  <2> QED BY <2>13, <2>14, <2>16 DEF values, rules, resolved, ts
<1> QED BY <1>1, SavedAlways, PTL
=============================================================================
