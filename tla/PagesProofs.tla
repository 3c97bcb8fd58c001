------------------------------ MODULE PagesProofs ------------------------------
(***************************************************************************)
(* Theorems about pages: sorted orders and their cuts, and what following  *)
(* pages of listings and of the newsfeed show while others write.          *)
(***************************************************************************)
EXTENDS RequestsProofs, FiniteSetTheorems

-----------------------------------------------------------------------------
(* Sorted orders of a finite set, by a key. *)

\* x is sorted strictly before y.
Ahead(key, sort, x, y) == IF sort = "Desc" THEN key[x] > key[y] ELSE key[x] < key[y]

Sorted(S, key, sort) ==
    {s \in SetToSeqs(S) : \A i, j \in DOMAIN s : i < j => ~Ahead(key, sort, s[j], s[i])}

LEMMA OrderFacts ==
    ASSUME NEW S, IsFiniteSet(S), NEW s \in SetToSeqs(S)
    PROVE  /\ Len(s) \in Nat /\ Len(s) = Cardinality(S) /\ DOMAIN s = 1..Len(s)
           /\ s \in Seq(S)
           /\ \A i \in 1..Len(s) : s[i] \in S
           /\ \A i, j \in 1..Len(s) : s[i] = s[j] => i = j
           /\ \A x \in S : \E i \in 1..Len(s) : s[i] = x
<1>1. Cardinality(S) \in Nat
  BY FS_CardinalityType
<1>2. /\ s \in [1..Cardinality(S) -> S]
      /\ \A i, j \in 1..Cardinality(S) : s[i] = s[j] => i = j
  BY DEF SetToSeqs
<1>3. s \in Seq(S) /\ Len(s) = Cardinality(S) /\ DOMAIN s = 1..Len(s)
  BY <1>1, <1>2
<1>4. s \in Injection(1..Cardinality(S), S)
  BY <1>2 DEF Injection, IsInjective
<1>5. IsFiniteSet(1..Cardinality(S)) /\ Cardinality(1..Cardinality(S)) = Cardinality(S)
  BY <1>1, FS_Interval
<1>6. s \in Surjection(1..Cardinality(S), S)
  BY <1>4, <1>5, FS_Injection
<1> QED  BY <1>1, <1>2, <1>3, <1>6 DEF Surjection

\* As many elements as there are positions from one to another.
LEMMA PrefixCount ==
    ASSUME NEW S, IsFiniteSet(S), NEW s \in SetToSeqs(S), NEW a \in Nat, NEW b \in Nat,
           b <= Len(s), NEW P, \A i \in 1..Len(s) : a < i /\ i <= b => s[i] \in P,
           IsFiniteSet(P)
    PROVE  b - a <= Cardinality(P)
<1>1. CASE b <= a
  BY <1>1, FS_CardinalityType
<1>2. CASE a < b
  <2>1. \A i \in (a + 1)..b : i \in 1..Len(s) /\ s[i] \in P
    BY OrderFacts
  <2> DEFINE f == [i \in (a + 1)..b |-> s[i]]
  <2>4. f \in [(a + 1)..b -> P]
    BY <2>1
  <2>5. \A i, j \in (a + 1)..b : f[i] = f[j] => i = j
    <3>1. \A i, j \in 1..Len(s) : s[i] = s[j] => i = j
      BY OrderFacts
    <3> QED  BY <2>1, <3>1
  <2>2. f \in Injection((a + 1)..b, P)
    <3> HIDE DEF f
    <3> QED  BY <2>4, <2>5 DEF Injection, IsInjective
  <2>3. Cardinality((a + 1)..b) = b - a
    BY <1>2, FS_Interval
  <2> HIDE DEF f
  <2> QED  BY <2>2, <2>3, FS_Injection
<1> QED  BY <1>1, <1>2

\* As many positions as there are elements at them.
LEMMA PlaceCount ==
    ASSUME NEW S, IsFiniteSet(S), NEW s \in SetToSeqs(S), NEW a \in Nat, NEW b \in Nat, a <= b,
           NEW P, \A y \in P : \E i \in 1..Len(s) : s[i] = y /\ a < i /\ i <= b
    PROVE  IsFiniteSet(P) /\ Cardinality(P) <= b - a
<1> DEFINE f == [y \in P |-> CHOOSE i \in 1..Len(s) : s[i] = y /\ a < i /\ i <= b]
<1>1. \A y \in P : f[y] \in 1..Len(s) /\ s[f[y]] = y /\ a < f[y] /\ f[y] <= b
  OBVIOUS
<1>2. Len(s) \in Nat
  BY OrderFacts
<1>3. f \in [P -> (a + 1)..b]
  BY <1>1, <1>2
<1>4. f \in Injection(P, (a + 1)..b)
  BY <1>1, <1>3 DEF Injection, IsInjective
<1>5. IsFiniteSet((a + 1)..b) /\ Cardinality((a + 1)..b) = b - a
  <2>1. a + 1 \in Int /\ b \in Int
    OBVIOUS
  <2>2. /\ IsFiniteSet((a + 1)..b)
        /\ Cardinality((a + 1)..b) = IF a + 1 > b THEN 0 ELSE b - (a + 1) + 1
    BY <2>1, FS_Interval
  <2> QED  BY <2>2
<1> HIDE DEF f
<1> QED  BY <1>4, <1>5, FS_Injection

\* What is sorted before the i-th element is at the positions before i.
LEMMA AheadCount ==
    ASSUME NEW S, IsFiniteSet(S), NEW key, NEW sort, NEW s \in Sorted(S, key, sort),
           \A x \in S : key[x] \in Int, NEW i \in 1..Len(s),
           NEW P, \A y \in P : y \in S /\ Ahead(key, sort, y, s[i])
    PROVE  IsFiniteSet(P) /\ Cardinality(P) <= i - 1
<1>1. s \in SetToSeqs(S) /\ \A j, k \in DOMAIN s : j < k => ~Ahead(key, sort, s[k], s[j])
  BY DEF Sorted
<1>2. i - 1 \in Nat /\ Len(s) \in Nat /\ DOMAIN s = 1..Len(s) /\ s[i] \in S
  BY <1>1, OrderFacts
<1>3. \A y \in P : \E j \in 1..Len(s) : s[j] = y /\ 0 < j /\ j <= i - 1
  <2>1. TAKE y \in P
  <2>2. PICK j \in 1..Len(s) : s[j] = y
    BY <1>1, OrderFacts
  <2>3. j # i
    <3>1. ~Ahead(key, sort, s[i], s[i])
      BY <1>2 DEF Ahead
    <3> QED  BY <2>2, <3>1
  <2>4. ~(i < j)
    BY <1>1, <1>2, <2>2
  <2> QED  BY <1>2, <2>2, <2>3, <2>4
<1>4. PICK m \in Nat : m = i - 1
  BY <1>2
<1>5. 0 \in Nat /\ 0 <= m /\ \A y \in P : \E j \in 1..Len(s) : s[j] = y /\ 0 < j /\ j <= m
  BY <1>3, <1>4
<1>6. IsFiniteSet(P) /\ Cardinality(P) <= m - 0
  BY <1>1, <1>5, PlaceCount
<1> QED  BY <1>4, <1>6

\* Two orders of one set whose keys differ agree.
LEMMA OrderIsUnique ==
    ASSUME NEW S, IsFiniteSet(S), NEW key, NEW sort, \A x \in S : key[x] \in Int,
           \A x, y \in S : x # y => key[x] # key[y],
           NEW s \in Sorted(S, key, sort), NEW t \in Sorted(S, key, sort),
           NEW i \in 1..Len(s), NEW j \in 1..Len(t), s[i] = t[j]
    PROVE  i = j
<1> DEFINE P == {y \in S : Ahead(key, sort, y, s[i])}
<1>1. /\ s \in SetToSeqs(S) /\ \A k, l \in DOMAIN s : k < l => ~Ahead(key, sort, s[l], s[k])
      /\ t \in SetToSeqs(S) /\ \A k, l \in DOMAIN t : k < l => ~Ahead(key, sort, t[l], t[k])
  BY DEF Sorted
<1>2. /\ DOMAIN s = 1..Len(s) /\ Len(s) \in Nat /\ \A k \in 1..Len(s) : s[k] \in S
      /\ DOMAIN t = 1..Len(t) /\ Len(t) \in Nat /\ \A k \in 1..Len(t) : t[k] \in S
      /\ \A k, l \in 1..Len(s) : s[k] = s[l] => k = l
      /\ \A k, l \in 1..Len(t) : t[k] = t[l] => k = l
  BY <1>1, OrderFacts
<1>3. IsFiniteSet(P) /\ Cardinality(P) <= i - 1 /\ Cardinality(P) <= j - 1
  BY AheadCount
<1>4. PICK m \in Nat, n \in Nat : m = i - 1 /\ n = j - 1 /\ m <= Len(s) /\ n <= Len(t)
  BY <1>2
<1>5. \A k \in 1..Len(s) : 0 < k /\ k <= m => s[k] \in P
  BY <1>1, <1>2, <1>4 DEF Ahead
<1>6. \A k \in 1..Len(t) : 0 < k /\ k <= n => t[k] \in P
  BY <1>1, <1>2, <1>4 DEF Ahead
<1>7. 0 \in Nat /\ m - 0 <= Cardinality(P) /\ n - 0 <= Cardinality(P) /\ Cardinality(P) \in Nat
  <2> HIDE DEF P
  <2> QED  BY <1>1, <1>3, <1>4, <1>5, <1>6, PrefixCount, FS_CardinalityType
<1> QED  BY <1>3, <1>4, <1>7

\* s and t are orders of a set and of one of no fewer elements, by keys that may
\* have changed, and what was ahead of x still is.
Later(S, T, sort, then, now, s, t, x) ==
    /\ S \subseteq T /\ IsFiniteSet(T)
    /\ \A y \in S : then[y] \in Int
    /\ \A y \in T : now[y] \in Int
    /\ s \in Sorted(S, then, sort) /\ t \in Sorted(T, now, sort)
    /\ x \in T /\ then[x] \in Int
    /\ \A y \in S : Ahead(then, sort, y, x) => Ahead(now, sort, y, x)

\* A page from an order of s, and what comes after it in a later order t of more
\* elements, whose keys may have changed: what is behind the page is behind as
\* many in t, if what was ahead of it still is.
LEMMA BehindThePage ==
    ASSUME NEW S, NEW T, NEW sort, NEW then, NEW now, NEW s, NEW t, NEW x,
           Later(S, T, sort, then, now, s, t, x),
           NEW a \in Nat, NEW b \in Nat, a < b, b <= Len(s),
           \A i \in (a + 1)..b : Ahead(then, sort, s[i], x)
    PROVE  \E j \in 1..Len(t) : t[j] = x /\ b < j
<1> USE DEF Later
<1> DEFINE P == {y \in S : Ahead(now, sort, y, x)}
<1>0. IsFiniteSet(S)
  BY FS_Subset
<1>1. /\ s \in SetToSeqs(S) /\ \A k, l \in DOMAIN s : k < l => ~Ahead(then, sort, s[l], s[k])
      /\ t \in SetToSeqs(T)
  BY DEF Sorted
<1>2. /\ DOMAIN s = 1..Len(s) /\ Len(s) \in Nat /\ \A k \in 1..Len(s) : s[k] \in S
      /\ DOMAIN t = 1..Len(t) /\ Len(t) \in Nat
  BY <1>0, <1>1, OrderFacts
<1>3. PICK j \in 1..Len(t) : t[j] = x
  BY <1>1, OrderFacts
<1>4. \A i \in 1..Len(s) : 0 < i /\ i <= b => s[i] \in P
  <2>1. TAKE i \in 1..Len(s)
  <2>2. HAVE 0 < i /\ i <= b
  <2>3. CASE a < i
    BY <1>2, <2>2, <2>3
  <2>4. CASE ~(a < i)
    <3>1. a + 1 \in 1..Len(s) /\ i < a + 1
      BY <1>2, <2>2, <2>4
    <3>2. ~Ahead(then, sort, s[a + 1], s[i])
      BY <1>1, <1>2, <3>1
    <3>3. Ahead(then, sort, s[i], x)
      BY <1>2, <3>1, <3>2 DEF Ahead
    <3> QED  BY <1>2, <3>3
  <2> QED  BY <2>3, <2>4
<1>5. IsFiniteSet(P) /\ Cardinality(P) <= j - 1
  BY <1>3, AheadCount
<1>6. Cardinality(P) \in Nat /\ 0 \in Nat /\ b - 0 <= Cardinality(P)
  <2> HIDE DEF P
  <2> QED  BY <1>0, <1>1, <1>4, <1>5, PrefixCount, FS_CardinalityType
<1> QED  BY <1>2, <1>3, <1>5, <1>6

-----------------------------------------------------------------------------
(* Cuts *)

\* What a page holds: what stands at the positions after the skip.
LEMMA CutFacts ==
    ASSUME NEW S, IsFiniteSet(S), NEW s \in SetToSeqs(S), NEW p,
           p.skip \in Nat, p.limit \in Int, p.limit # None
    PROVE  LET n == IF p.limit < 0 THEN -p.limit ELSE p.limit IN
           ToSet(Cut(s, p)) = {s[i] : i \in {i \in 1..Len(s) : p.skip < i /\ i <= p.skip + n}}
<1>0. s \in Seq(S) /\ DOMAIN s = 1..Len(s)
  BY OrderFacts
<1>1. PICK len \in Nat : len = Len(s)
  BY OrderFacts
<1>2. PICK skip \in Nat : skip = p.skip
  OBVIOUS
<1>3. PICK n \in Nat : n = IF p.limit < 0 THEN -p.limit ELSE p.limit
  OBVIOUS
<1>4. PICK last \in Nat : last = IF skip + n > len THEN len ELSE skip + n
  OBVIOUS
<1>5. Cut(s, p) = SubSeq(s, skip + 1, last)
  BY <1>1, <1>2, <1>3, <1>4 DEF Cut
<1>6. Cut(s, p) = [i \in 1..(last - skip) |-> s[skip + i]]
  <2>1. Cut(s, p) = [i \in 1..(last - (skip + 1) + 1) |-> s[(skip + 1) + i - 1]]
    BY <1>5
  <2>2. last - (skip + 1) + 1 = last - skip
    OBVIOUS
  <2>3. \A i \in 1..(last - skip) : (skip + 1) + i - 1 = skip + i
    OBVIOUS
  <2> QED  BY <2>1, <2>2, <2>3
<1>7. ToSet(Cut(s, p)) = {s[skip + i] : i \in 1..(last - skip)}
  BY <1>6 DEF ToSet
<1>8. \A i \in 1..(last - skip) : skip + i \in 1..len /\ skip < skip + i /\ skip + i <= skip + n
  BY <1>4
<1>9. \A i \in 1..len : skip < i /\ i <= skip + n =>
         i - skip \in 1..(last - skip) /\ skip + (i - skip) = i
  BY <1>4
<1>10. {s[skip + i] : i \in 1..(last - skip)}
         = {s[i] : i \in {i \in 1..Len(s) : skip < i /\ i <= skip + n}}
  BY <1>1, <1>8, <1>9
<1> QED  BY <1>2, <1>3, <1>7, <1>10

LEMMA CutInside ==
    ASSUME NEW S, IsFiniteSet(S), NEW s \in SetToSeqs(S), NEW p,
           p.skip \in Nat, p.limit \in Int, p.limit # None
    PROVE  ToSet(Cut(s, p)) \subseteq S
<1>1. PICK n \in Nat : n = IF p.limit < 0 THEN -p.limit ELSE p.limit
  OBVIOUS
<1>2. ToSet(Cut(s, p)) = {s[i] : i \in {i \in 1..Len(s) : p.skip < i /\ i <= p.skip + n}}
  BY <1>1, CutFacts
<1> QED  BY <1>2, OrderFacts

\* A page is full when the order goes on up to its end.
LEMMA FullPage ==
    ASSUME NEW S, IsFiniteSet(S), NEW s \in SetToSeqs(S), NEW p,
           p.skip \in Nat, p.limit \in Nat \ {0}, p.limit # None
    PROVE  /\ IsFiniteSet(ToSet(Cut(s, p)))
           /\ Cardinality(ToSet(Cut(s, p))) = p.limit <=> p.skip + p.limit <= Len(s)
<1> DEFINE P == ToSet(Cut(s, p))
<1>1. PICK a \in Nat, n \in Nat \ {0} : a = p.skip /\ n = p.limit
  OBVIOUS
<1>2. P = {s[i] : i \in {i \in 1..Len(s) : a < i /\ i <= a + n}}
  BY <1>1, CutFacts
<1>3. Len(s) \in Nat
  BY OrderFacts
<1>4. \A i \in 1..Len(s) : a < i /\ i <= a + n => s[i] \in P
  BY <1>2
<1>5. \A y \in P : \E i \in 1..Len(s) : s[i] = y /\ a < i /\ i <= a + n
  BY <1>2
<1> HIDE DEF P
<1>6. PICK b \in Nat : b = a + n /\ a <= b
  OBVIOUS
<1>7. IsFiniteSet(P) /\ Cardinality(P) <= b - a
  <2>1. \A y \in P : \E i \in 1..Len(s) : s[i] = y /\ a < i /\ i <= b
    BY <1>5, <1>6
  <2> QED  BY <1>6, <2>1, PlaceCount
<1>8. CASE b <= Len(s)
  <2>1. b - a <= Cardinality(P)
    BY <1>4, <1>6, <1>7, <1>8, PrefixCount
  <2>2. Cardinality(P) \in Nat
    BY <1>7, FS_CardinalityType
  <2> QED  BY <1>1, <1>6, <1>7, <1>8, <2>1, <2>2 DEF P
<1>9. CASE ~(b <= Len(s))
  <2>1. Cardinality(P) < n
    <3>1. PICK m \in Nat : m = IF Len(s) < a THEN a ELSE Len(s)
      BY <1>3
    <3>2. a <= m /\ m < b
      BY <1>1, <1>3, <1>6, <1>9, <3>1
    <3>3. \A y \in P : \E i \in 1..Len(s) : s[i] = y /\ a < i /\ i <= m
      BY <1>3, <1>5, <3>1
    <3>4. Cardinality(P) <= m - a
      BY <3>2, <3>3, PlaceCount
    <3>5. Cardinality(P) \in Nat
      BY <1>7, FS_CardinalityType
    <3> QED  BY <1>6, <3>2, <3>4, <3>5
  <2> QED  BY <1>1, <1>3, <1>6, <1>7, <1>9, <2>1, FS_CardinalityType DEF P
<1> QED  BY <1>3, <1>8, <1>9

\* After a full page of s, the next page of t misses nothing behind it: what it
\* does not show comes after all it shows.
LEMMA NextPage ==
    ASSUME NEW S, NEW T, NEW sort, NEW then, NEW now, NEW s, NEW t, NEW x,
           Later(S, T, sort, then, now, s, t, x),
           NEW p, NEW q, p.skip \in Nat, p.limit \in Nat \ {0}, p.limit # None,
           q.skip = p.skip + p.limit, q.limit = p.limit,
           Cardinality(ToSet(Cut(s, p))) = p.limit,
           \A y \in ToSet(Cut(s, p)) : Ahead(then, sort, y, x)
    PROVE  \/ x \in ToSet(Cut(t, q))
           \/ /\ Cardinality(ToSet(Cut(t, q))) = q.limit
              /\ \A y \in ToSet(Cut(t, q)) : y \in T /\ ~Ahead(now, sort, x, y)
<1>1. /\ IsFiniteSet(S) /\ s \in SetToSeqs(S) /\ IsFiniteSet(T) /\ t \in SetToSeqs(T)
      /\ \A k, l \in DOMAIN t : k < l => ~Ahead(now, sort, t[l], t[k])
      /\ x \in T
  BY FS_Subset DEF Sorted, Later
<1>2. PICK a \in Nat, n \in Nat \ {0} : a = p.skip /\ n = p.limit
  OBVIOUS
<1>3. q.skip \in Nat /\ q.skip = a + n /\ q.limit = n /\ q.limit \in Nat \ {0} /\ q.limit # None
  BY <1>2
<1>4. a + n <= Len(s)
  BY <1>1, <1>2, FullPage
<1>5. ToSet(Cut(s, p)) = {s[i] : i \in {i \in 1..Len(s) : a < i /\ i <= a + n}}
  BY <1>1, <1>2, CutFacts
<1>6. ToSet(Cut(t, q)) = {t[i] : i \in {i \in 1..Len(t) : a + n < i /\ i <= (a + n) + n}}
  <2> HIDE DEF Cut
  <2> QED  BY <1>1, <1>2, <1>3, CutFacts
<1>7. PICK len \in Nat, last \in Nat : len = Len(t) /\ DOMAIN t = 1..len /\ last = Len(s)
  BY <1>1, OrderFacts
<1>8. PICK b \in Nat : b = a + n /\ a < b
  OBVIOUS
<1>9. PICK j \in 1..Len(t) : t[j] = x /\ b < j
  <2>1. \A i \in (a + 1)..b : Ahead(then, sort, s[i], x)
    BY <1>4, <1>5, <1>7, <1>8
  <2>2. b <= Len(s)
    BY <1>4, <1>8
  <2> QED  BY <1>8, <2>1, <2>2, BehindThePage
<1>10. CASE j <= b + n
  BY <1>6, <1>8, <1>9, <1>10
<1>11. CASE ~(j <= b + n)
  <2>1. q.skip + q.limit <= Len(t)
    BY <1>3, <1>7, <1>8, <1>9, <1>11
  <2>2. Cardinality(ToSet(Cut(t, q))) = q.limit
    BY <1>1, <1>3, <2>1, FullPage
  <2>3. ASSUME NEW y \in ToSet(Cut(t, q)) PROVE y \in T /\ ~Ahead(now, sort, x, y)
    <3>1. PICK i \in 1..Len(t) : t[i] = y /\ i <= b + n
      BY <1>6, <1>8
    <3>2. i < j
      BY <1>7, <1>9, <1>11, <3>1
    <3> QED  BY <1>1, <1>7, <1>9, <3>1, <3>2, OrderFacts
  <2> QED  BY <2>2, <2>3
<1> QED  BY <1>7, <1>8, <1>9, <1>10, <1>11

\* Two pages of one set whose keys differ share nothing.
LEMMA PagesAreDisjoint ==
    ASSUME NEW S, IsFiniteSet(S), NEW key, NEW sort, \A x \in S : key[x] \in Int,
           \A x, y \in S : x # y => key[x] # key[y],
           NEW s \in Sorted(S, key, sort), NEW t \in Sorted(S, key, sort),
           NEW p, NEW q, p.skip \in Nat, q.skip \in Nat, p.limit \in Int \ {0}, p.limit # None,
           q.skip = p.skip + p.limit, q.limit = p.limit
    PROVE  ToSet(Cut(s, p)) \cap ToSet(Cut(t, q)) = {}
<1>1. s \in SetToSeqs(S) /\ t \in SetToSeqs(S)
  BY DEF Sorted
<1>2. PICK a \in Nat, b \in Nat, l \in Int \ {0} :
         a = p.skip /\ b = q.skip /\ l = p.limit /\ b = a + l
  OBVIOUS
<1>3. PICK n \in Nat : n = IF l < 0 THEN -l ELSE l
  BY <1>2
<1>4. ToSet(Cut(s, p)) = {s[i] : i \in {i \in 1..Len(s) : a < i /\ i <= a + n}}
  BY <1>1, <1>2, <1>3, CutFacts
<1>5. ToSet(Cut(t, q)) = {t[i] : i \in {i \in 1..Len(t) : b < i /\ i <= b + n}}
  <2>1. q.limit \in Int /\ q.limit # None /\ q.limit = l
    BY <1>2
  <2> QED  BY <1>1, <1>2, <1>3, <2>1, CutFacts
<1>6. SUFFICES ASSUME NEW i \in 1..Len(s), a < i, i <= a + n,
                      NEW j \in 1..Len(t), b < j, j <= b + n, s[i] = t[j]
               PROVE  FALSE
  BY <1>4, <1>5
<1>7. i = j
  BY <1>6, OrderIsUnique
<1>8. i \in Nat /\ j \in Nat
  BY <1>1, OrderFacts
<1> QED  BY <1>2, <1>3, <1>6, <1>7, <1>8
-----------------------------------------------------------------------------
(* Requests that read pages, and only do that. *)

Alone(r) == Len(r.ask.fields) = 1 /\ r.at = 1
Reader(r) == Alone(r) /\ Field(r).endpoint \in {"nfts", "collections", "newsfeed"}
SameRows(r, s) == s.rows = r.rows /\ s.active = r.active
FeedRows(r) == {"users", "nfts", "collections"} \subseteq DOMAIN r.rows

ProfilesPage(f) == FeedPage(f, ProfilesPerPage, "lastActivity")
NftsPage(f) == FeedPage(f, NftsPerPage, "createdAt")
CollectionsPage(f) == FeedPage(f, CollectionsPerPage, "createdAt")

\* A reader's steps: it reads, it loads what it read refers to, it is answered.
ListsPage(r, s) ==
    LET f == Field(r) IN
    /\ r.stage = "run" /\ s.stage = "load" /\ ~SkipRefused(ToMongo(f.args))
    /\ \/ f.endpoint = "nfts" /\ s.rows.nfts \in GetNfts(f.filter, ToMongo(f.args))
       \/ /\ f.endpoint = "collections"
          /\ s.rows.collections \in GetCollections(f.filter, ToMongo(f.args))
Feeds(r, s) ==
    LET f == Field(r) IN
    /\ f.endpoint = "newsfeed"
    /\ \/ /\ r.stage = "run" /\ s.stage = "feedNfts" /\ ~SkipRefused(ProfilesPage(f))
          /\ s.active = [u \in DOMAIN users |-> users[u].lastActivity]
          /\ FeedRows(r) => FeedRows(s) /\ \E x \in GetUsers(AnyUser, ProfilesPage(f)) :
                                              s.rows.users = Profiles(x)
       \/ /\ r.stage = "feedNfts" /\ s.stage = "feedCollections" /\ s.active = r.active
          /\ FeedRows(r) => /\ FeedRows(s) /\ s.rows.users = r.rows.users
                            /\ s.rows.nfts \in GetNfts(AnyNft, NftsPage(f))
       \/ /\ r.stage = "feedCollections" /\ s.stage = "load" /\ s.active = r.active
          /\ FeedRows(r) =>
                /\ FeedRows(s) /\ s.rows.users = r.rows.users /\ s.rows.nfts = r.rows.nfts
                /\ s.rows.collections \in GetCollections(AnyCollection, CollectionsPage(f))
Keeps(r, s) == r.stage = "load" /\ s.stage = "load" /\ SameRows(r, s)
Ends(r, s) == s.stage = "done" /\ (s.code = "OK" => r.stage = "load" /\ SameRows(r, s))

LEMMA AnsweredRows ==
    ASSUME NEW r, NEW code, Shaped(r)
    PROVE  SameRows(r, Answered(r, code))
BY DEF Shaped, Attributes, SameRows, Answered

LEMMA ReturningRows ==
    ASSUME NEW r, NEW rows, Shaped(r)
    PROVE  LET s == Returning(r, rows) IN
           s.stage = "load" /\ s.rows = rows /\ s.active = r.active
<1> DEFINE next == [r EXCEPT !.stage = "load", !.rows = rows, !.read = @ \cup Ids(rows.users)]
           due == {l \in Refs \cup {"users"} : Keys(next, l) # {}}
<1>1. Returning(r, rows) = [next EXCEPT !.due = due]
  BY DEF Returning
<1>2. DOMAIN next = Attributes /\ next.stage = "load" /\ next.rows = rows /\ next.active = r.active
  BY DEF Shaped, Attributes
<1> HIDE DEF next, due
<1> QED  BY <1>1, <1>2 DEF Attributes

\* A request that has one field never turns to another.
LEMMA StaysAlone ==
    ASSUME NEW r, NEW s, Shaped(r), RequestHeld(r), Moves(r, s), Alone(s)
    PROVE  Alone(r) /\ ~TurnsToNext(r, s) /\ Field(s) = Field(r) /\ s.ask = r.ask /\ s.at = r.at
<1>1. /\ ValidRequest(r.ask) /\ r.at \in DOMAIN r.ask.fields
  BY DEF RequestHeld, Running, Moves, Goes, GoesOn, Refused, TurnsToNext, Concludes
<1>2. PICK at \in Nat \ {0} : at = r.at
  <2>1. PICK size \in Nat \ {0} : DOMAIN r.ask.fields = 1..size
    BY <1>1 DEF ValidRequest
  <2> QED  BY <1>1, <2>1
<1>3. s.ask = r.ask
  BY MovesFacts
<1>4. ~TurnsToNext(r, s)
  <2>1. TurnsToNext(r, s) => s.at = r.at + 1
    BY ResolvedFacts DEF TurnsToNext
  <2> QED  BY <1>2, <2>1 DEF Alone
<1>5. s.at = r.at
  BY <1>4, AnsweredFacts DEF Moves, Goes, GoesOn, Refused, Concludes
<1> QED  BY <1>3, <1>4, <1>5 DEF Alone, Field

LEMMA ReaderSteps ==
    ASSUME Typed, NEW c \in Call, Acts(c), Reader(calls[c]), NEW s, s = calls'[c]
    PROVE  \/ ListsPage(calls[c], s) \/ Feeds(calls[c], s)
           \/ Keeps(calls[c], s) \/ Ends(calls[c], s)
<1> DEFINE r == calls[c]
           f == Field(r)
<1>0. /\ CallsShaped /\ Shaped(r) /\ f.endpoint \in {"nfts", "collections", "newsfeed"}
      /\ RequestHeld(r) /\ Len(r.ask.fields) = 1 /\ r.at = 1
      /\ \A t : Becomes(c, t) => s = t
  BY DEF Typed, RequestsHeld, CallsShaped, Reader, Alone, Becomes
<1>1. ASSUME NEW code, Answers(c, code), code # "OK" PROVE Ends(r, s)
  BY <1>0, <1>1, AnsweredFacts DEF Answers, Ends
<1>2. ASSUME NEW rows, Returns(c, rows)
      PROVE  s.stage = "load" /\ s.rows = rows /\ s.active = r.active
  BY <1>0, <1>2, ReturningRows DEF Returns
<1>3. CASE ListNfts(c)
  <2>1. /\ At(c, "run", "nfts")
        /\ IF OverLimit(f.args) THEN Answers(c, "BAD_USER_INPUT")
           ELSE IF SkipRefused(ToMongo(f.args)) \/ NftFilterRefused(f.filter)
             THEN Answers(c, "INTERNAL")
           ELSE \E rows \in {[Rows EXCEPT !.nfts = x] : x \in GetNfts(f.filter, ToMongo(f.args))} :
                   Returns(c, rows)
    BY <1>3 DEF ListNfts, Lists
  <2>2. CASE Answers(c, "BAD_USER_INPUT") \/ Answers(c, "INTERNAL")
    BY <1>1, <2>2
  <2>3. CASE ~(Answers(c, "BAD_USER_INPUT") \/ Answers(c, "INTERNAL"))
    <3>1. ~SkipRefused(ToMongo(f.args))
      BY <2>1, <2>3
    <3>2. PICK x \in GetNfts(f.filter, ToMongo(f.args)) : Returns(c, [Rows EXCEPT !.nfts = x])
      BY <2>1, <2>3
    <3>3. s.rows.nfts = x
      BY <1>2, <3>2 DEF Rows
    <3> QED  BY <1>2, <2>1, <3>1, <3>2, <3>3 DEF ListsPage, At
  <2> QED  BY <2>2, <2>3
<1>4. CASE ListCollections(c)
  <2>1. /\ At(c, "run", "collections")
        /\ IF OverLimit(f.args) THEN Answers(c, "BAD_USER_INPUT")
           ELSE IF SkipRefused(ToMongo(f.args)) THEN Answers(c, "INTERNAL")
           ELSE \E rows \in {[Rows EXCEPT !.collections = x] :
                                x \in GetCollections(f.filter, ToMongo(f.args))} :
                   Returns(c, rows)
    BY <1>4 DEF ListCollections, Lists
  <2>2. CASE Answers(c, "BAD_USER_INPUT") \/ Answers(c, "INTERNAL")
    BY <1>1, <2>2
  <2>3. CASE ~(Answers(c, "BAD_USER_INPUT") \/ Answers(c, "INTERNAL"))
    <3>1. ~SkipRefused(ToMongo(f.args))
      BY <2>1, <2>3
    <3>2. PICK x \in GetCollections(f.filter, ToMongo(f.args)) :
             Returns(c, [Rows EXCEPT !.collections = x])
      BY <2>1, <2>3
    <3>3. s.rows.collections = x
      BY <1>2, <3>2 DEF Rows
    <3> QED  BY <1>2, <2>1, <3>1, <3>2, <3>3 DEF ListsPage, At
  <2> QED  BY <2>2, <2>3
<1>5. CASE ReadFeedProfiles(c)
  <2>1. /\ At(c, "run", "newsfeed")
        /\ IF SkipRefused(ProfilesPage(f)) THEN Answers(c, "INTERNAL")
           ELSE \E x \in GetUsers(AnyUser, ProfilesPage(f)) :
                  Becomes(c, [r EXCEPT !.stage = "feedNfts", !.rows.users = Profiles(x),
                                !.active = [u \in DOMAIN users |-> users[u].lastActivity]])
    BY <1>5 DEF ReadFeedProfiles, ProfilesPage
  <2>2. CASE SkipRefused(ProfilesPage(f))
    BY <1>1, <2>1, <2>2
  <2>3. CASE ~SkipRefused(ProfilesPage(f))
    <3>1. PICK x \in GetUsers(AnyUser, ProfilesPage(f)) :
             s = [r EXCEPT !.stage = "feedNfts", !.rows.users = Profiles(x),
                           !.active = [u \in DOMAIN users |-> users[u].lastActivity]]
      BY <1>0, <2>1, <2>3
    <3>2. /\ s.stage = "feedNfts" /\ s.active = [u \in DOMAIN users |-> users[u].lastActivity]
          /\ s.rows = [r.rows EXCEPT !.users = Profiles(x)]
      BY <1>0, <3>1 DEF Shaped, Attributes
    <3>3. FeedRows(r) => FeedRows(s) /\ s.rows.users = Profiles(x)
      BY <3>2 DEF FeedRows
    <3> QED  BY <2>1, <2>3, <3>2, <3>3 DEF Feeds, At
  <2> QED  BY <2>2, <2>3
<1>6. CASE ReadFeedNfts(c)
  <2>1. At(c, "feedNfts", "newsfeed")
    BY <1>6 DEF ReadFeedNfts
  <2>2. PICK x \in GetNfts(AnyNft, NftsPage(f)) :
           s = [r EXCEPT !.stage = "feedCollections", !.rows.nfts = x]
    BY <1>0, <1>6 DEF ReadFeedNfts, NftsPage
  <2>3. /\ s.stage = "feedCollections" /\ s.active = r.active
        /\ s.rows = [r.rows EXCEPT !.nfts = x]
    BY <1>0, <2>2 DEF Shaped, Attributes
  <2>4. FeedRows(r) => FeedRows(s) /\ s.rows.nfts = x /\ s.rows.users = r.rows.users
    BY <2>3 DEF FeedRows
  <2> QED  BY <2>1, <2>2, <2>3, <2>4 DEF Feeds, At
<1>7. CASE ReadFeedCollections(c)
  <2>1. At(c, "feedCollections", "newsfeed")
    BY <1>7 DEF ReadFeedCollections
  <2>2. PICK x \in GetCollections(AnyCollection, CollectionsPage(f)) :
           Returns(c, [r.rows EXCEPT !.collections = x])
    BY <1>7 DEF ReadFeedCollections, CollectionsPage
  <2>3. FeedRows(r) => /\ FeedRows(s) /\ s.rows.collections = x
                       /\ s.rows.users = r.rows.users /\ s.rows.nfts = r.rows.nfts
    BY <1>2, <2>2 DEF FeedRows
  <2> QED  BY <1>2, <2>1, <2>2, <2>3 DEF Feeds, At
<1>8. CASE LoadRefs(c)
  <2>1. PICK due : /\ r.stage = "load"
                   /\ Becomes(c, [r EXCEPT !.due = due]) \/ Answers(c, "INTERNAL")
    BY <1>8 DEF LoadRefs
  <2>2. CASE Becomes(c, [r EXCEPT !.due = due])
    BY <1>0, <2>1, <2>2 DEF Keeps, SameRows, Shaped, Attributes
  <2> QED  BY <1>1, <2>1, <2>2
<1>9. CASE LoadUsers(c)
  <2>1. PICK due, cache, shown, read :
           /\ r.stage = "load"
           /\ \/ Becomes(c, [r EXCEPT !.due = due, !.cache = cache, !.shown = shown, !.read = read])
              \/ Answers(c, "INTERNAL")
    BY <1>9 DEF LoadUsers
  <2>2. CASE Becomes(c, [r EXCEPT !.due = due, !.cache = cache, !.shown = shown, !.read = read])
    BY <1>0, <2>1, <2>2 DEF Keeps, SameRows, Shaped, Attributes
  <2> QED  BY <1>1, <2>1, <2>2
<1>10. CASE Finish(c)
  <2>1. ~(r.at < Len(r.ask.fields))
    BY <1>0
  <2>2. r.stage = "load" /\ \E code : Answers(c, code)
    BY <1>10, <2>1 DEF Finish
  <2> QED  BY <1>0, <2>2, AnsweredFacts, AnsweredRows DEF Answers, Ends
<1>11. CASE Fail(c)
  BY <1>1, <1>11 DEF Fail
<1>12. CASE \/ ListUsers(c) \/ ListHistory(c) \/ ListTags(c) \/ ListLicences(c) \/ ReadMe(c)
            \/ Prefer(c) \/ Search(c) \/ FetchHits(c) \/ RunTests(c)
  BY <1>0, <1>12 DEF ListUsers, ListHistory, Lists, ListTags, ListLicences, ReadMe, Prefer, Search,
                     FetchHits, RunTests, At
<1>13. CASE Write(c)
  BY <1>0, <1>13 DEF Write, SignUp, UpdateMe, CreateTag, CreateLicence, ValidateTags,
                     InsertCollection, InsertNft, At
<1> QED
  BY <1>3, <1>4, <1>5, <1>6, <1>7, <1>8, <1>9, <1>10, <1>11, <1>12, <1>13 DEF Acts, Read, Listing
-----------------------------------------------------------------------------
(* How time passes: what is made is made by requests that are not done. *)

FiniteDocs ==
    IsFiniteSet(DOMAIN users) /\ IsFiniteSet(DOMAIN nfts) /\ IsFiniteSet(DOMAIN collections)

\* What was done before something that was done before r was done before r.
AfterHeld ==
    \A c \in Call : \A b \in calls[c].after :
        b \in Call /\ calls[b].stage = "done" /\ calls[b].after \subseteq calls[c].after

LEMMA ArriveAfter ==
    ASSUME CallsShaped, NEW c \in Call, NEW r, Arrive(c, r), NEW s, s = calls'[c]
    PROVE  /\ calls[c].stage = "idle" /\ s.after = {d \in Call : calls[d].stage = "done"}
           /\ s.made = {} /\ s.code # "OK" /\ s.stage \in {"run", "done"}
           /\ s.stage = "run" => s.rows = Rows /\ s.preferences = NoPreferences
<1> DEFINE t == [NoCall EXCEPT !.ask = r, !.ctx = Context(r.header),
                               !.began = [u \in DOMAIN users |-> users[u].rev],
                               !.after = {d \in Call : calls[d].stage = "done"}]
           e == r.fields[1].endpoint
           verdict == Guard(e, t.ctx, r.devToken)
<1>1. calls[c].stage = "idle" /\ s = Resolved(t, 1)
  BY DEF Arrive, Becomes, CallsShaped
<1>2. /\ Shaped(t) /\ t.ask = r /\ t.after = {d \in Call : calls[d].stage = "done"}
      /\ t.made = {} /\ t.code = "none" /\ t.preferences = NoPreferences
  BY DEF NoCall, Shaped, Attributes
<1>3. verdict = "OK" =>
         s = [t EXCEPT !.stage = "run", !.at = 1, !.ran = @ \cup {e}, !.rows = Rows]
  BY <1>1, <1>2 DEF Resolved
<1> HIDE DEF t
<1>4. verdict = "OK" => s.rows = Rows /\ s.preferences = NoPreferences
  BY <1>2, <1>3 DEF Shaped, Attributes
<1>5. /\ s.after = t.after /\ s.made = t.made
      /\ verdict = "OK" => s.stage = "run" /\ s.code = "none"
      /\ verdict # "OK" => s.stage = "done" /\ s.code = verdict
  BY <1>1, <1>2, ResolvedFacts DEF SameWorks
<1> HIDE DEF verdict
<1> QED  BY <1>1, <1>2, <1>4, <1>5

\* Of requests, a step moves one.
LEMMA OneMoves ==
    ASSUME Typed, Next
    PROVE  \/ calls' = calls
           \/ \E c \in Call :
                 /\ \A d \in Call \ {c} : calls'[d] = calls[d]
                 /\ (\E r \in asked : Arrive(c, r)) \/ Acts(c)
<1>1. CallsShaped /\ \A r \in asked : ValidRequest(r)
  BY DEF Typed, RequestsHeld
<1>2. ASSUME NEW c \in Call, (\E r \in asked : Arrive(c, r)) \/ Acts(c)
      PROVE  \A d \in Call \ {c} : calls'[d] = calls[d]
  <2>1. PICK s : Becomes(c, s)
    BY <1>1, <1>2, ArriveFacts, ActsMove
  <2> QED  BY <1>1, <2>1 DEF Becomes, CallsShaped
<1> QED  BY <1>1, <1>2, NextFrames DEF Typed

LEMMA ActsFacts ==
    ASSUME Typed, NEW c \in Call, Acts(c), NEW s, s = calls'[c]
    PROVE  /\ Moves(calls[c], s) /\ s.after = calls[c].after /\ calls[c].made \subseteq s.made
           /\ calls[c].stage \notin {"idle", "done"} /\ Shaped(s)
<1>1. CallsShaped /\ Shaped(calls[c]) /\ RequestHeld(calls[c])
  BY DEF Typed, RequestsHeld, CallsShaped
<1>2. PICK t : Becomes(c, t) /\ Moves(calls[c], t)
  BY <1>1, ActsMove
<1>3. s = t
  BY <1>1, <1>2 DEF Becomes, CallsShaped
<1>4. /\ s.after = calls[c].after /\ Running(calls[c]) /\ Shaped(s)
      /\ ~Goes(calls[c], s) => SameWorks(calls[c], s)
  BY <1>1, <1>2, <1>3, MovesFacts
<1>5. calls[c].made \subseteq s.made
  BY <1>4 DEF Goes, SameWorks
<1> QED  BY <1>2, <1>3, <1>4, <1>5 DEF Running

\* What is done stays, and nobody's works are taken away.
CallsGoOn ==
    \A d \in Call : /\ calls[d].stage = "done" => calls'[d] = calls[d]
                    /\ calls[d].made \subseteq calls'[d].made

LEMMA CallsNext ==
    ASSUME Typed, AfterHeld, Next
    PROVE  CallsGoOn /\ AfterHeld'
<1>1. \A c \in Call : RequestHeld(calls[c])
  BY DEF Typed, RequestsHeld
<1>2. CASE calls' = calls
  BY <1>2 DEF CallsGoOn, AfterHeld
<1>3. ASSUME NEW c \in Call, \A d \in Call \ {c} : calls'[d] = calls[d],
             \E r \in asked : Arrive(c, r)
      PROVE  CallsGoOn /\ AfterHeld'
  <2>1. PICK s : s = calls'[c]
    OBVIOUS
  <2>2. /\ calls[c].stage = "idle" /\ s.after = {d \in Call : calls[d].stage = "done"}
    BY <1>3, <2>1, ArriveAfter DEF Typed, RequestsHeld
  <2>3. calls[c].made = {}
    BY <1>1, <2>2 DEF RequestHeld, NoCall
  <2>4. CallsGoOn
    BY <1>3, <2>2, <2>3 DEF CallsGoOn
  <2>5. ASSUME NEW d \in Call, NEW b \in calls'[d].after
        PROVE  b \in Call /\ calls'[b].stage = "done" /\ calls'[b].after \subseteq calls'[d].after
    <3>1. CASE d = c
      BY <1>3, <2>1, <2>2, <2>4, <2>5, <3>1 DEF CallsGoOn, AfterHeld
    <3>2. CASE d # c
      BY <1>3, <2>4, <2>5, <3>2 DEF CallsGoOn, AfterHeld
    <3> QED  BY <3>1, <3>2
  <2> QED  BY <2>4, <2>5 DEF AfterHeld
<1>4. ASSUME NEW c \in Call, \A d \in Call \ {c} : calls'[d] = calls[d], Acts(c)
      PROVE  CallsGoOn /\ AfterHeld'
  <2>1. PICK s : s = calls'[c]
    OBVIOUS
  <2>2. /\ s.after = calls[c].after /\ calls[c].made \subseteq s.made
        /\ calls[c].stage # "done"
    BY <1>4, <2>1, ActsFacts
  <2>3. CallsGoOn
    BY <1>4, <2>1, <2>2 DEF CallsGoOn
  <2>4. \A d \in Call : calls'[d].after = calls[d].after
    BY <1>4, <2>1, <2>2
  <2> QED  BY <2>3, <2>4 DEF CallsGoOn, AfterHeld
<1> QED  BY <1>2, <1>3, <1>4, OneMoves

\* What is new was made by a request that is not done.
LEMMA DocsNext ==
    ASSUME Typed, Next
    PROVE  /\ \A x \in DOMAIN nfts' \ DOMAIN nfts :
                 \E b \in Call : calls[b].stage # "done" /\ x \in calls'[b].made
           /\ \A x \in DOMAIN collections' \ DOMAIN collections :
                 \E b \in Call : calls[b].stage # "done" /\ x \in calls'[b].made
<1>1. CallsShaped
  BY DEF Typed, RequestsHeld
<1>2. CASE nfts' # nfts
  <2>1. PICK c \in Call : InsertNft(c)
    BY <1>1, <1>2, NextFrames DEF Typed
  <2>2. PICK n \in Nft \ DOMAIN nfts :
           /\ At(c, "insert", "createNft")
           /\ \E s : Becomes(c, s) /\ Makes(calls[c], s, {n})
           /\ nfts' = Put(nfts, n, Stamped(calls[c]))
    BY <1>1, <2>1, InsertNftFacts
  <2>3. n \in calls'[c].made /\ calls[c].stage # "done" /\ DOMAIN nfts' = DOMAIN nfts \cup {n}
    BY <1>1, <2>2 DEF Becomes, CallsShaped, Makes, At, Put
  <2>4. collections' = collections
    BY <2>1 DEF InsertNft
  <2> QED  BY <2>3, <2>4
<1>3. CASE nfts' = nfts /\ DOMAIN collections' # DOMAIN collections
  <2>1. PICK c \in Call : InsertCollection(c)
    <3>1. ASSUME NEW j, FetchImage(j) \/ UpdateThumbnail(j) \/ FailFetch(j)
          PROVE  DOMAIN collections' = DOMAIN collections
      BY <3>1 DEF FetchImage, UpdateThumbnail, FailFetch, stores
    <3> QED  BY <1>1, <1>3, <3>1, NextFrames DEF Typed
  <2>2. PICK s : /\ Becomes(c, s)
                 /\ \/ UNCHANGED collections
                    \/ \E k \in Collection \ DOMAIN collections :
                          /\ Makes(calls[c], s, {k})
                          /\ collections' = Put(collections, k, Stamped(calls[c]))
    BY <1>1, <2>1, InsertCollectionFacts
  <2>3. PICK k \in Collection \ DOMAIN collections :
           Makes(calls[c], s, {k}) /\ collections' = Put(collections, k, Stamped(calls[c]))
    BY <1>3, <2>2
  <2>4. /\ k \in calls'[c].made /\ calls[c].stage # "done"
        /\ DOMAIN collections' = DOMAIN collections \cup {k}
    BY <1>1, <2>1, <2>2, <2>3 DEF Becomes, CallsShaped, Makes, InsertCollection, At, Put
  <2> QED  BY <1>3, <2>4
<1> QED  BY <1>2, <1>3

LEMMA FiniteNext ==
    ASSUME Typed, FiniteDocs, Next
    PROVE  FiniteDocs'
<1>1. CallsShaped
  BY DEF Typed, RequestsHeld
<1>2. ASSUME NEW D, IsFiniteSet(D), NEW E, E = D \/ \E x : E = D \cup {x}
      PROVE  IsFiniteSet(E)
  BY <1>2, FS_AddElement
<1>3. DOMAIN users' = DOMAIN users \/ \E x : DOMAIN users' = DOMAIN users \cup {x}
  <2>1. CASE \E c \in Call : SignUp(c)
    BY <2>1 DEF SignUp, Put
  <2>2. CASE (\E c \in Call : UpdateMe(c)) \/ (\E t \in touching : Touch(t))
    BY <2>2 DEF UpdateMe, Touch
  <2> QED  BY <1>1, <2>1, <2>2, NextFrames DEF Typed
<1>4. DOMAIN nfts' = DOMAIN nfts \/ \E x : DOMAIN nfts' = DOMAIN nfts \cup {x}
  <2>1. CASE \E c \in Call : InsertNft(c)
    BY <2>1 DEF InsertNft, Put
  <2> QED  BY <1>1, <2>1, NextFrames DEF Typed
<1>5. \/ DOMAIN collections' = DOMAIN collections
      \/ \E x : DOMAIN collections' = DOMAIN collections \cup {x}
  <2>1. CASE \E c \in Call, k \in Collection : NewCollectionStep(c, k)
    BY <2>1 DEF NewCollectionStep
  <2>2. CASE \E j \in fetching : UploadStep(j) \/ ThumbnailStep(j) \/ GiveUpStep(j)
    BY <2>2 DEF UploadStep, ThumbnailStep, GiveUpStep
  <2> QED  BY <2>1, <2>2, CollectionSteps
<1> QED  BY <1>2, <1>3, <1>4, <1>5 DEF FiniteDocs
-----------------------------------------------------------------------------
(* What a reader has seen of documents that keep their date: of NFTs (e is      *)
(* "nfts") and of collections (e is "collections").                             *)

Dates(e) == [x \in DOMAIN Docs(e) |-> Docs(e)[x].createdAt]
Fits(r, x) == Field(r).endpoint = "newsfeed" \/ Matches(Field(r), x)
FitOf(r, S) == {x \in S : Fits(r, x)}
PageOf(e, r) ==
    LET f == Field(r) IN
    IF f.endpoint # "newsfeed" THEN ToMongo(f.args)
    ELSE IF e = "nfts" THEN NftsPage(f) ELSE CollectionsPage(f)
RowsOf(e, r) == IF e = "nfts" THEN ToSet(r.rows.nfts) ELSE ToSet(r.rows.collections)

HasRead(e, r) ==
    LET f == Field(r) IN
    /\ Alone(r)
    /\ \/ /\ f.endpoint = e /\ f.args.sortField = "createdAt"
          /\ r.stage = "load" \/ r.code = "OK"
       \/ /\ f.endpoint = "newsfeed"
          /\ r.stage = "load" \/ r.code = "OK" \/ (e = "nfts" /\ r.stage = "feedCollections")

\* What was made by requests that had no answer when r arrived.
MadeMeanwhile(r) == UNION {calls[b].made : b \in Call \ r.after}

\* r saw a page of what there was, S, and missed nothing older than itself.
Shows(e, r, S) ==
    LET p == PageOf(e, r) IN
    /\ p.skip \in Nat
    /\ \E s \in Sorted({x \in S : Fits(r, x)}, Dates(e), p.sort) : RowsOf(e, r) = ToSet(Cut(s, p))
SeenBy(e, r, S) ==
    /\ S \subseteq DOMAIN Docs(e) /\ DOMAIN Docs(e) \ MadeMeanwhile(r) \subseteq S
    /\ Shows(e, r, S)

\* Whoever was answered before r arrived saw no more than r.
PageHeld(e, r) ==
    HasRead(e, r) =>
        \E S : /\ SeenBy(e, r, S)
               /\ \A b \in r.after : \A q : q = calls[b] /\ HasRead(e, q) =>
                     \E T \in SUBSET S : SeenBy(e, q, T)

LEMMA SortedSame ==
    ASSUME NEW S, NEW T, S = T, NEW key, NEW then, NEW sort, NEW s \in Sorted(S, key, sort),
           IsFiniteSet(S), \A x \in S : then[x] = key[x]
    PROVE  s \in Sorted(T, then, sort)
<1>1. s \in SetToSeqs(S) /\ \A i, j \in DOMAIN s : i < j => ~Ahead(key, sort, s[j], s[i])
  BY DEF Sorted
<1>2. \A i \in DOMAIN s : s[i] \in S
  BY <1>1, OrderFacts
<1> QED  BY <1>1, <1>2 DEF Sorted, Ahead

\* Documents stay, with their date and all that filters look at.
LEMMA DocsStay ==
    ASSUME Typed, AfterHeld, Next, NEW e \in {"nfts", "collections"}
    PROVE  /\ DOMAIN Docs(e) \subseteq DOMAIN Docs(e)'
           /\ \A x \in DOMAIN Docs(e) :
                 /\ Docs(e)'[x].createdAt = Docs(e)[x].createdAt
                 /\ \A r : Field(r).endpoint \in {e, "newsfeed"} => (Fits(r, x)' <=> Fits(r, x))
           /\ \A x \in DOMAIN Docs(e)' \ DOMAIN Docs(e) :
                 \E b \in Call : calls[b].stage # "done" /\ x \in calls'[b].made
<1>1. NftsStay /\ CollectionsStay
  BY NftsNext, CollectionsNext
<1>2. CASE e = "nfts"
  <2>1. \A r, x : Field(r).endpoint \in {e, "newsfeed"} /\ x \in DOMAIN nfts =>
           (Fits(r, x)' <=> Fits(r, x))
    BY <1>1, <1>2 DEF NftsStay, Fits, Matches, NftMatches, Field
  <2> QED  BY <1>1, <1>2, <2>1, DocsNext DEF Docs, NftsStay
<1>3. CASE e = "collections"
  <2>1. \A r, x : Field(r).endpoint \in {e, "newsfeed"} /\ x \in DOMAIN collections =>
           (Fits(r, x)' <=> Fits(r, x))
    BY <1>1, <1>3 DEF CollectionsStay, SameCollection, Fits, Matches, CollectionMatches, Field
  <2> QED  BY <1>1, <1>3, <2>1, DocsNext DEF Docs, CollectionsStay, SameCollection
<1> QED  BY <1>2, <1>3

LEMMA FiniteOf ==
    ASSUME FiniteDocs, NEW e \in {"nfts", "collections"}
    PROVE  IsFiniteSet(DOMAIN Docs(e))
BY DEF FiniteDocs, Docs

\* What was seen has been seen.
LEMMA SeenLater ==
    ASSUME Typed, FiniteDocs, AfterHeld, Next, NEW e \in {"nfts", "collections"},
           NEW r, Field(r).endpoint \in {e, "newsfeed"},
           \A b \in r.after : calls[b].stage = "done", NEW S, SeenBy(e, r, S)
    PROVE  SeenBy(e, r, S)'
<1>1. /\ S \subseteq DOMAIN Docs(e) /\ DOMAIN Docs(e) \ MadeMeanwhile(r) \subseteq S
      /\ Shows(e, r, S)
  BY DEF SeenBy
<1>2. /\ DOMAIN Docs(e) \subseteq DOMAIN Docs(e)'
      /\ \A x \in DOMAIN Docs(e) :
            Docs(e)'[x].createdAt = Docs(e)[x].createdAt /\ (Fits(r, x)' <=> Fits(r, x))
      /\ \A x \in DOMAIN Docs(e)' \ DOMAIN Docs(e) :
            \E b \in Call : calls[b].stage # "done" /\ x \in calls'[b].made
  BY DocsStay
<1>3. \A b \in Call : calls[b].made \subseteq calls'[b].made
  BY CallsNext DEF CallsGoOn
<1>4. DOMAIN Docs(e)' \ MadeMeanwhile(r)' \subseteq S
  <2>1. SUFFICES ASSUME NEW x \in DOMAIN Docs(e)', x \notin MadeMeanwhile(r)'
                 PROVE  x \in S
    OBVIOUS
  <2>2. \A b \in Call \ r.after : x \notin calls'[b].made
    BY <2>1 DEF MadeMeanwhile
  <2>3. x \in DOMAIN Docs(e)
    BY <1>2, <2>2
  <2>4. x \notin MadeMeanwhile(r)
    BY <1>3, <2>2 DEF MadeMeanwhile
  <2> QED  BY <1>1, <2>3, <2>4
<1>5. Shows(e, r, S)'
  <2>1. PICK p : p = PageOf(e, r) /\ p = PageOf(e, r)'
    BY DEF PageOf, Field, NftsPage, CollectionsPage
  <2>2. PICK rows : rows = RowsOf(e, r) /\ rows = RowsOf(e, r)'
    BY DEF RowsOf
  <2>3. PICK fits, later : /\ fits = {x \in S : Fits(r, x)} /\ later = {x \in S : Fits(r, x)'}
                           /\ fits = later
    BY <1>1, <1>2
  <2>4. PICK then, now : then = Dates(e) /\ now = Dates(e)' /\ \A x \in S : then[x] = now[x]
    <3>1. \A x \in S : Dates(e)[x] = Dates(e)'[x]
      BY <1>1, <1>2 DEF Dates
    <3> QED  BY <3>1
  <2>5. p.skip \in Nat /\ \E s \in Sorted(fits, then, p.sort) : rows = ToSet(Cut(s, p))
    BY <1>1, <2>1, <2>2, <2>3, <2>4 DEF Shows
  <2>6. IsFiniteSet(fits)
    BY <1>1, <2>3, FiniteOf, FS_Subset
  <2>8. \A x \in fits : now[x] = then[x]
    BY <2>3, <2>4
  <2>9. \A s \in Sorted(fits, then, p.sort) : s \in Sorted(later, now, p.sort)
    BY <2>3, <2>6, <2>8, SortedSame
  <2>7. \E s \in Sorted(later, now, p.sort) : rows = ToSet(Cut(s, p))
    BY <2>5, <2>9
  <2> QED  BY <2>1, <2>2, <2>3, <2>4, <2>5, <2>7 DEF Shows
<1> QED  BY <1>1, <1>2, <1>4, <1>5 DEF SeenBy

LEMMA PageLater ==
    ASSUME Typed, FiniteDocs, AfterHeld, Next, NEW e \in {"nfts", "collections"},
           NEW r, \A b \in r.after : b \in Call /\ calls[b].stage = "done"
                                       /\ calls[b].after \subseteq r.after,
           PageHeld(e, r)
    PROVE  PageHeld(e, r)'
<1> SUFFICES ASSUME HasRead(e, r)
             PROVE  \E S : /\ SeenBy(e, r, S)'
                           /\ \A b \in r.after : \A q : q = calls'[b] /\ HasRead(e, q) =>
                                 \E T \in SUBSET S : SeenBy(e, q, T)'
  <2>1. \A q : HasRead(e, q)' <=> HasRead(e, q)
    BY DEF HasRead, Alone, Field
  <2> QED  BY <2>1 DEF PageHeld
<1>1. \A q : HasRead(e, q) => Field(q).endpoint \in {e, "newsfeed"}
  BY DEF HasRead
<1>2. PICK S : /\ SeenBy(e, r, S)
               /\ \A b \in r.after : \A q : q = calls[b] /\ HasRead(e, q) =>
                     \E T \in SUBSET S : SeenBy(e, q, T)
  BY DEF PageHeld
<1>3. SeenBy(e, r, S)'
  BY <1>1, <1>2, SeenLater
<1>4. ASSUME NEW b \in r.after, NEW q, q = calls'[b], HasRead(e, q)
      PROVE  \E T \in SUBSET S : SeenBy(e, q, T)'
  <2>1. q = calls[b]
    BY <1>4, CallsNext DEF CallsGoOn
  <2>2. PICK T \in SUBSET S : SeenBy(e, q, T)
    BY <1>2, <1>4, <2>1
  <2>3. \A z \in q.after : calls[z].stage = "done"
    BY <1>4, <2>1
  <2>4. SeenBy(e, q, T)'
    BY <1>1, <1>4, <2>2, <2>3, SeenLater
  <2> QED  BY <2>2, <2>4
<1> QED  BY <1>3, <1>4

-----------------------------------------------------------------------------
(* Reading a page *)

\* The query sorts by a field, of integers, that key gives.
Keyed(S, docs, key, p) ==
    /\ IsFiniteSet(S) /\ p.field # None
    /\ \A x \in S : key[x] = docs[x][p.field] /\ key[x] \in Int

\* What a query sorted by date may return is a cut of a sorted order.
LEMMA FindSorted ==
    ASSUME NEW S, NEW docs, NEW key, NEW p, Keyed(S, docs, key, p), NEW rows \in Find(S, docs, p)
    PROVE  \E s \in Sorted(S, key, p.sort) : rows = Cut(s, p)
<1> USE DEF Keyed
<1>1. PICK s \in SetToSeqs(S) :
         /\ rows = Cut(s, p)
         /\ p.field = None \/
               \A i, j \in DOMAIN s : i < j =>
                  IF p.sort = "Desc" THEN docs[s[i]][p.field] >= docs[s[j]][p.field]
                                     ELSE docs[s[i]][p.field] <= docs[s[j]][p.field]
  BY DEF Find, Ordered
<1>2. \A i \in DOMAIN s : s[i] \in S
  BY OrderFacts
<1>3. \A i, j \in DOMAIN s : i < j =>
         IF p.sort = "Desc" THEN key[s[i]] >= key[s[j]] ELSE key[s[i]] <= key[s[j]]
  BY <1>1, <1>2
<1>4. \A i, j \in DOMAIN s : i < j => ~Ahead(key, p.sort, s[j], s[i])
  <2>1. SUFFICES ASSUME NEW i \in DOMAIN s, NEW j \in DOMAIN s, i < j
                 PROVE  ~Ahead(key, p.sort, s[j], s[i])
    OBVIOUS
  <2>2. key[s[i]] \in Int /\ key[s[j]] \in Int
    BY <1>2
  <2> QED  BY <1>3, <2>1, <2>2 DEF Ahead
<1> QED  BY <1>1, <1>4 DEF Sorted

LEMMA DatesFacts ==
    ASSUME Typed, NEW e \in {"nfts", "collections"}
    PROVE  \A x \in DOMAIN Docs(e) : /\ Dates(e)[x] = Docs(e)[x].createdAt
                                     /\ Dates(e)[x] = Docs(e)[x]["createdAt"]
                                     /\ Dates(e)[x] \in Int
<1>1. clock \in Nat
  BY DEF Typed, TypeOK
<1>2. CASE e = "nfts"
  BY <1>1, <1>2 DEF Dates, Docs, Typed, TypeOK, NftDoc
<1>3. CASE e = "collections"
  BY <1>1, <1>3 DEF Dates, Docs, Typed, TypeOK, CollectionDoc
<1> QED  BY <1>2, <1>3

\* The documents a query asks for are those that fit its request.
LEMMA QueryFacts ==
    ASSUME NEW e \in {"nfts", "collections"}, NEW r, Field(r).endpoint \in {e, "newsfeed"}, NEW p
    PROVE  LET f == Field(r) IN
           /\ e = "nfts" =>
                 Find({x \in DOMAIN Docs(e) : Fits(r, x)}, Docs(e), p)
                   = GetNfts(IF f.endpoint = "newsfeed" THEN AnyNft ELSE f.filter, p)
           /\ e = "collections" =>
                 Find({x \in DOMAIN Docs(e) : Fits(r, x)}, Docs(e), p)
                   = GetCollections(IF f.endpoint = "newsfeed" THEN AnyCollection ELSE f.filter, p)
<1> DEFINE f == Field(r)
<1>1. CASE e = "nfts"
  <2> DEFINE filter == IF f.endpoint = "newsfeed" THEN AnyNft ELSE f.filter
  <2>1. Docs(e) = nfts
    BY <1>1 DEF Docs
  <2>2. ASSUME NEW x PROVE Fits(r, x) <=> NftMatches(filter, x, nfts[x])
    <3>1. CASE f.endpoint = "newsfeed"
      BY <3>1 DEF Fits, NftMatches, AnyNft, Allows, AllowsAny
    <3>2. CASE f.endpoint # "newsfeed"
      BY <1>1, <3>2 DEF Fits, Matches
    <3> QED  BY <3>1, <3>2
  <2>3. {x \in DOMAIN Docs(e) : Fits(r, x)} = {x \in DOMAIN nfts : NftMatches(filter, x, nfts[x])}
    <3> HIDE DEF filter
    <3> QED  BY <2>1, <2>2
  <2> QED  BY <1>1, <2>1, <2>3 DEF GetNfts
<1>2. CASE e = "collections"
  <2> DEFINE filter == IF f.endpoint = "newsfeed" THEN AnyCollection ELSE f.filter
  <2>1. Docs(e) = collections
    BY <1>2 DEF Docs
  <2>2. ASSUME NEW x PROVE Fits(r, x) <=> CollectionMatches(filter, x, collections[x])
    <3>1. CASE f.endpoint = "newsfeed"
      BY <3>1 DEF Fits, CollectionMatches, AnyCollection, Allows
    <3>2. CASE f.endpoint # "newsfeed"
      BY <1>2, <3>2 DEF Fits, Matches
    <3> QED  BY <3>1, <3>2
  <2>3. {x \in DOMAIN Docs(e) : Fits(r, x)}
          = {x \in DOMAIN collections : CollectionMatches(filter, x, collections[x])}
    <3> HIDE DEF filter
    <3> QED  BY <2>1, <2>2
  <2> QED  BY <1>2, <2>1, <2>3 DEF GetCollections
<1> QED  BY <1>1, <1>2

\* A page read now is a page of all there is.
LEMMA ReadNow ==
    ASSUME Typed, FiniteDocs, NEW e \in {"nfts", "collections"},
           \A b \in Call : PageHeld(e, calls[b]), NEW s, s.after \subseteq Call,
           Field(s).endpoint \in {e, "newsfeed"},
           PageOf(e, s).skip \in Nat, PageOf(e, s).field = "createdAt",
           NEW rows, RowsOf(e, s) = ToSet(rows),
           rows \in Find({x \in DOMAIN Docs(e) : Fits(s, x)}, Docs(e), PageOf(e, s))
    PROVE  PageHeld(e, s)
<1> DEFINE S == DOMAIN Docs(e)
           fits == {x \in S : Fits(s, x)}
<1>1. IsFiniteSet(fits)
  BY FiniteOf, FS_Subset
<1>2. "createdAt" # None
  BY QueryConstants
<1>3. \A x \in fits : Dates(e)[x] = Docs(e)[x]["createdAt"] /\ Dates(e)[x] \in Int
  BY DatesFacts
<1>4. PICK p, key, docs, F :
         /\ p = PageOf(e, s) /\ key = Dates(e) /\ docs = Docs(e) /\ F = fits
         /\ p.field = "createdAt" /\ rows \in Find(F, docs, p) /\ IsFiniteSet(F)
         /\ \A x \in F : key[x] = docs[x]["createdAt"] /\ key[x] \in Int
  BY <1>1, <1>3
<1>5. \E t \in Sorted(F, key, p.sort) : rows = Cut(t, p)
  <2>1. Keyed(F, docs, key, p)
    BY <1>2, <1>4 DEF Keyed
  <2>2. rows \in Find(F, docs, p)
    BY <1>4
  <2> QED  BY <2>1, <2>2, FindSorted
<1>6. SeenBy(e, s, S)
  BY <1>4, <1>5 DEF SeenBy, Shows
<1>7. \A b \in s.after : \A q : q = calls[b] /\ HasRead(e, q) => \E T \in SUBSET S : SeenBy(e, q, T)
  BY DEF PageHeld, SeenBy
<1> QED  BY <1>6, <1>7 DEF PageHeld
-----------------------------------------------------------------------------
(* The newsfeed's profiles, whose date moves. *)

HasReadProfiles(r) ==
    /\ Alone(r) /\ Field(r).endpoint = "newsfeed"
    /\ r.stage \in {"feedNfts", "feedCollections", "load"} \/ r.code = "OK"

ShowsProfiles(r) ==
    LET p == ProfilesPage(Field(r)) IN
    /\ Or(Field(r).page, 0) \in Nat
    /\ \A u \in DOMAIN r.active : r.active[u] \in Int
    /\ \E s \in Sorted(DOMAIN r.active, r.active, "Desc") : Ids(r.rows.users) = ToSet(Cut(s, p))

ProfilesHeld(r) ==
    /\ Alone(r) /\ Field(r).endpoint = "newsfeed" /\ Running(r) => FeedRows(r)
    /\ HasReadProfiles(r) =>
          /\ DOMAIN r.active \subseteq DOMAIN users /\ IsFiniteSet(DOMAIN r.active)
          /\ ShowsProfiles(r)
          /\ \A b \in r.after : \A q : q = calls[b] /\ HasReadProfiles(q) =>
                DOMAIN q.active \subseteq DOMAIN r.active

Held(r) == ProfilesHeld(r) /\ PageHeld("nfts", r) /\ PageHeld("collections", r)
PagesHeld == AfterHeld /\ FiniteDocs /\ \A c \in Call : \A r : r = calls[c] => Held(r)

LEMMA ProfilesLater ==
    ASSUME Typed, AfterHeld, Next, NEW r, \A b \in r.after : b \in Call /\ calls[b].stage = "done",
           ProfilesHeld(r)
    PROVE  ProfilesHeld(r)'
<1>1. DOMAIN users \subseteq DOMAIN users'
  BY UsersNext DEF UsersGoOn
<1>2. \A b \in r.after : calls'[b] = calls[b]
  BY CallsNext DEF CallsGoOn
<1> QED  BY <1>1, <1>2 DEF ProfilesHeld, HasReadProfiles, ShowsProfiles, FeedRows, Alone, Field,
                           Running, ProfilesPage

\* Pages are products.
LEMMA PageOfZero ==
    ASSUME NEW page \in Int \cup {None}, NEW size \in Nat \ {0}
    PROVE  Or(page, 0) \in Int /\ (~(Or(page, 0) * size < 0) => Or(page, 0) \in Nat)
<1>1. None \notin Int
  BY QueryConstants
<1>2. PICK n \in Int : n = Or(page, 0)
  BY <1>1 DEF Or
<1>3. n < 0 => n * size < 0
  OBVIOUS
<1> QED  BY <1>2, <1>3

LEMMA ProductIsNat ==
    ASSUME NEW n \in Nat, NEW size \in Nat
    PROVE  n * size \in Nat
OBVIOUS

LEMMA ProfilesIds ==
    ASSUME NEW s
    PROVE  Ids(Profiles(s)) = ToSet(s)
BY DEF Ids, Profiles, Profile, ToSet

\* A step of the newsfeed.
LEMMA ProfilesActs ==
    ASSUME Typed, PagesHeld, NEW c \in Call, Acts(c), NEW s, s = calls'[c]
    PROVE  ProfilesHeld(s)
<1> DEFINE r == calls[c]
<1>0. /\ Shaped(r) /\ RequestHeld(r) /\ Running(r) /\ Moves(r, s) /\ s.after = r.after
      /\ r.after \subseteq Call /\ ProfilesHeld(r)
  BY ActsFacts DEF Typed, RequestsHeld, CallsShaped, PagesHeld, AfterHeld, Held, Running
<1> SUFFICES ASSUME Alone(s), Field(s).endpoint = "newsfeed"
             PROVE  ProfilesHeld(s)
  BY DEF ProfilesHeld, HasReadProfiles
<1>1. Alone(r) /\ Field(r).endpoint = "newsfeed" /\ Reader(r) /\ Field(s) = Field(r)
  BY <1>0, StaysAlone DEF Reader
<1>2. FeedRows(r) /\ ValidField(Field(r))
  BY <1>0, <1>1, FieldFacts DEF ProfilesHeld
<1>3. \/ ListsPage(r, s) \/ Feeds(r, s) \/ Keeps(r, s) \/ Ends(r, s)
  BY <1>1, ReaderSteps
<1>4. ASSUME HasReadProfiles(r), s.active = r.active, s.rows.users = r.rows.users,
             Running(s) => FeedRows(s)
      PROVE  ProfilesHeld(s)
  BY <1>0, <1>1, <1>4 DEF ProfilesHeld, ShowsProfiles
<1>5. CASE ListsPage(r, s)
  BY <1>1, <1>5 DEF ListsPage
<1>6. CASE Keeps(r, s)
  BY <1>1, <1>2, <1>4, <1>6 DEF Keeps, SameRows, HasReadProfiles, FeedRows
<1>7. CASE Ends(r, s)
  <2>1. CASE s.code = "OK"
    BY <1>1, <1>2, <1>4, <1>7, <2>1 DEF Ends, SameRows, HasReadProfiles, FeedRows
  <2>2. CASE s.code # "OK"
    BY <1>7, <2>2 DEF Ends, ProfilesHeld, HasReadProfiles, Running
  <2> QED  BY <2>1, <2>2
<1>8. CASE Feeds(r, s) /\ r.stage # "run"
  <2>1. /\ r.stage \in {"feedNfts", "feedCollections"} /\ s.active = r.active
        /\ s.rows.users = r.rows.users /\ FeedRows(s)
    BY <1>2, <1>8 DEF Feeds
  <2> QED  BY <1>1, <1>4, <2>1 DEF HasReadProfiles
<1>9. CASE Feeds(r, s) /\ r.stage = "run"
  <2> DEFINE f == Field(r)
             p == ProfilesPage(f)
             all == {u \in DOMAIN users : UserMatches(AnyUser, u, users[u])}
  <2>1. /\ s.stage = "feedNfts" /\ ~SkipRefused(p) /\ FeedRows(s)
        /\ s.active = [u \in DOMAIN users |-> users[u].lastActivity]
    BY <1>2, <1>9 DEF Feeds
  <2>2. PICK x \in Find(all, users, p) : s.rows.users = Profiles(x)
    BY <1>2, <1>9 DEF Feeds, GetUsers
  <2>3. all = DOMAIN users
    BY DEF UserMatches, AnyUser, Allows, AllowsAny
  <2>4. clock \in Nat /\ \A u \in DOMAIN users : users[u].lastActivity \in 0..clock
    BY DEF Typed, TypeOK, UserDoc
  <2>5. /\ DOMAIN s.active = DOMAIN users
        /\ \A u \in DOMAIN users : /\ s.active[u] = users[u]["lastActivity"]
                                   /\ s.active[u] \in Int
    BY <2>1, <2>4
  <2>6. p.field = "lastActivity" /\ p.sort = "Desc" /\ p.skip = Or(f.page, 0) * ProfilesPerPage
    BY DEF ProfilesPage, FeedPage
  <2>7. "lastActivity" # None
    BY QueryConstants
  <2>8. IsFiniteSet(DOMAIN users)
    BY DEF PagesHeld, FiniteDocs
  <2>9. PICK key, page, D :
           /\ key = s.active /\ page = p /\ D = DOMAIN users
           /\ page.field = "lastActivity" /\ x \in Find(D, users, page) /\ IsFiniteSet(D)
           /\ \A u \in D : key[u] = users[u]["lastActivity"] /\ key[u] \in Int
    BY <2>2, <2>3, <2>5, <2>6, <2>8
  <2>10. \E t \in Sorted(D, key, page.sort) : x = Cut(t, page)
    <3>1. Keyed(D, users, key, page)
      BY <2>7, <2>9 DEF Keyed
    <3> QED  BY <2>9, <3>1, FindSorted
  <2>11. Ids(s.rows.users) = ToSet(x)
    BY <2>2, ProfilesIds
  <2>12. Or(f.page, 0) \in Nat
    <3>1. f.page \in Int \cup {None} /\ ProfilesPerPage \in Nat \ {0}
      BY <1>1, <1>2, RequestConstants DEF ValidField
    <3> QED  BY <2>1, <2>6, <3>1, PageOfZero DEF SkipRefused
  <2>13. ShowsProfiles(s)
    <3>1. \A u \in DOMAIN s.active : s.active[u] \in Int
      BY <2>5
    <3>2. \E t \in Sorted(DOMAIN s.active, s.active, "Desc") : Ids(s.rows.users) = ToSet(Cut(t, p))
      BY <2>5, <2>6, <2>9, <2>10, <2>11
    <3> QED  BY <1>1, <2>12, <3>1, <3>2 DEF ShowsProfiles
  <2>14. \A b \in s.after : \A q : q = calls[b] /\ HasReadProfiles(q) =>
            DOMAIN q.active \subseteq DOMAIN s.active
    BY <1>0, <2>5 DEF PagesHeld, Held, ProfilesHeld
  <2> QED  BY <2>1, <2>5, <2>8, <2>13, <2>14 DEF ProfilesHeld
<1> QED  BY <1>3, <1>5, <1>6, <1>7, <1>8, <1>9
\* A step of a listing or of the newsfeed.
LEMMA PageActs ==
    ASSUME Typed, PagesHeld, NEW c \in Call, Acts(c), NEW s, s = calls'[c],
           NEW e \in {"nfts", "collections"}
    PROVE  PageHeld(e, s)
<1> DEFINE r == calls[c]
           f == Field(r)
<1>0. /\ Shaped(r) /\ RequestHeld(r) /\ Running(r) /\ Moves(r, s) /\ s.after = r.after
      /\ r.after \subseteq Call /\ ProfilesHeld(r)
      /\ \A b \in Call : PageHeld(e, calls[b])
  BY ActsFacts DEF Typed, RequestsHeld, CallsShaped, PagesHeld, AfterHeld, Held, Running
<1> SUFFICES ASSUME HasRead(e, s)
             PROVE  PageHeld(e, s)
  BY DEF PageHeld
<1>1. /\ Alone(r) /\ Field(s) = f /\ f.endpoint \in {e, "newsfeed"} /\ Reader(r)
      /\ s.ask = r.ask /\ s.at = r.at
  BY <1>0, StaysAlone DEF Reader, HasRead
<1>2. ValidField(f)
  BY <1>0, <1>1, FieldFacts
<1>3. \/ ListsPage(r, s) \/ Feeds(r, s) \/ Keeps(r, s) \/ Ends(r, s)
  BY <1>1, ReaderSteps
<1>4. ASSUME HasRead(e, r), RowsOf(e, s) = RowsOf(e, r)
      PROVE  PageHeld(e, s)
  <2>1. PICK S : /\ SeenBy(e, r, S)
                 /\ \A b \in r.after : \A q : q = calls[b] /\ HasRead(e, q) =>
                       \E T \in SUBSET S : SeenBy(e, q, T)
    BY <1>0, <1>4 DEF PageHeld
  <2>2. PageOf(e, s) = PageOf(e, r) /\ \A x : Fits(s, x) <=> Fits(r, x)
    BY <1>1 DEF PageOf, Fits
  <2>3. {x \in S : Fits(s, x)} = {x \in S : Fits(r, x)}
    BY <2>2
  <2>4. Shows(e, s, S)
    BY <1>4, <2>1, <2>2, <2>3 DEF SeenBy, Shows
  <2>5. SeenBy(e, s, S)
    BY <1>0, <2>1, <2>4 DEF SeenBy, MadeMeanwhile
  <2> QED  BY <1>0, <2>1, <2>5 DEF PageHeld
<1>5. CASE Keeps(r, s)
  BY <1>1, <1>4, <1>5 DEF Keeps, SameRows, HasRead, RowsOf
<1>6. CASE Ends(r, s)
  <2>1. s.code = "OK"
    BY <1>6 DEF HasRead, Ends
  <2> QED  BY <1>1, <1>4, <1>6, <2>1 DEF Ends, SameRows, HasRead, RowsOf
<1>7. CASE ListsPage(r, s)
  <2>1. f.endpoint = e /\ f.args.sortField = "createdAt"
    BY <1>1, <1>7 DEF ListsPage, HasRead
  <2>2. /\ PageOf(e, s) = ToMongo(f.args) /\ PageOf(e, s).field = "createdAt"
        /\ PageOf(e, s).skip = Or(f.args.page, 0) * Or(f.args.perPage, DefaultLimit)
    BY <1>1, <2>1 DEF PageOf, ToMongo, Skip, Limit
  <2>3. PageOf(e, s).skip \in Nat
    <3>1. {f.args.page, f.args.perPage} \subseteq Int \cup {None}
      BY <1>2, <2>1 DEF ValidField
    <3>2. PICK n \in Int, l \in Int : n = Or(f.args.page, 0) /\ l = Or(f.args.perPage, DefaultLimit)
      BY <3>1, QueryConstants DEF Or
    <3>3. n * l \in Int
      OBVIOUS
    <3>4. ~(n * l < 0)
      BY <1>7, <2>2, <3>2 DEF ListsPage, SkipRefused, ToMongo, Skip, Limit
    <3> QED  BY <2>2, <3>2, <3>3, <3>4
  <2>4. PICK rows : /\ RowsOf(e, s) = ToSet(rows)
                    /\ rows \in Find({x \in DOMAIN Docs(e) : Fits(s, x)}, Docs(e), PageOf(e, s))
    <3>1. CASE e = "nfts"
      <4>1. s.rows.nfts \in GetNfts(f.filter, PageOf(e, s))
        BY <1>7, <2>1, <2>2, <3>1 DEF ListsPage
      <4> QED  BY <1>1, <2>1, <3>1, <4>1, QueryFacts DEF RowsOf
    <3>2. CASE e = "collections"
      <4>1. s.rows.collections \in GetCollections(f.filter, PageOf(e, s))
        BY <1>7, <2>1, <2>2, <3>2 DEF ListsPage
      <4> QED  BY <1>1, <2>1, <3>2, <4>1, QueryFacts DEF RowsOf
    <3> QED  BY <3>1, <3>2
  <2> QED  BY <1>0, <1>1, <2>2, <2>3, <2>4, ReadNow DEF PagesHeld
<1>8. CASE Feeds(r, s)
  <2>1. f.endpoint = "newsfeed" /\ FeedRows(r)
    BY <1>0, <1>1, <1>8 DEF Feeds, ProfilesHeld
  <2>2. Or(f.page, 0) \in Nat \/ r.stage = "run"
    BY <1>0, <1>1, <1>8, <2>1 DEF Feeds, ProfilesHeld, HasReadProfiles, ShowsProfiles
  <2>3. ASSUME r.stage # "run"
        PROVE  PageOf(e, s).skip \in Nat /\ PageOf(e, s).field = "createdAt"
    <3>1. PICK n \in Nat : n = Or(f.page, 0)
      BY <2>2, <2>3
    <3>2. n * NftsPerPage \in Nat /\ n * CollectionsPerPage \in Nat
      BY ProductIsNat, RequestConstants
    <3> QED  BY <1>1, <2>1, <3>1, <3>2 DEF PageOf, NftsPage, CollectionsPage, FeedPage
  <2>4. CASE r.stage = "feedNfts"
    <3>1. /\ s.stage = "feedCollections" /\ s.rows.nfts \in GetNfts(AnyNft, NftsPage(f))
      BY <1>8, <2>1, <2>4 DEF Feeds
    <3>2. s.code # "OK"
      <4>1. RequestHeld(s)
        BY <1>0, MovesFacts
      <4> QED  BY <3>1, <4>1 DEF RequestHeld, Codes
    <3>3. e = "nfts"
      BY <1>1, <2>1, <3>1, <3>2 DEF HasRead
    <3>4. PageOf(e, s) = NftsPage(f) /\ RowsOf(e, s) = ToSet(s.rows.nfts)
      BY <1>1, <2>1, <3>3 DEF PageOf, RowsOf
    <3>5. s.rows.nfts \in Find({x \in DOMAIN Docs(e) : Fits(s, x)}, Docs(e), PageOf(e, s))
      BY <1>1, <2>1, <3>1, <3>3, <3>4, QueryFacts
    <3> QED  BY <1>0, <1>1, <2>3, <2>4, <3>4, <3>5, ReadNow DEF PagesHeld
  <2>5. CASE r.stage = "feedCollections"
    <3>1. /\ s.stage = "load" /\ s.rows.nfts = r.rows.nfts
          /\ s.rows.collections \in GetCollections(AnyCollection, CollectionsPage(f))
      BY <1>8, <2>1, <2>5 DEF Feeds
    <3>2. CASE e = "nfts"
      BY <1>1, <1>4, <2>1, <2>5, <3>1, <3>2 DEF HasRead, RowsOf
    <3>3. CASE e = "collections"
      <4>1. PageOf(e, s) = CollectionsPage(f) /\ RowsOf(e, s) = ToSet(s.rows.collections)
        BY <1>1, <2>1, <3>3 DEF PageOf, RowsOf
      <4>2. s.rows.collections \in Find({x \in DOMAIN Docs(e) : Fits(s, x)}, Docs(e), PageOf(e, s))
        BY <1>1, <2>1, <3>1, <3>3, <4>1, QueryFacts
      <4> QED  BY <1>0, <1>1, <2>3, <2>5, <4>1, <4>2, ReadNow DEF PagesHeld
    <3> QED  BY <3>2, <3>3
  <2>6. CASE r.stage = "run"
    <3>1. s.stage = "feedNfts"
      BY <1>8, <2>1, <2>6 DEF Feeds
    <3>2. RequestHeld(s)
      BY <1>0, MovesFacts
    <3>3. s.code # "OK"
      BY <3>1, <3>2 DEF RequestHeld, Codes
    <3> QED  BY <1>1, <2>1, <3>1, <3>3 DEF HasRead
  <2> QED  BY <1>8, <2>4, <2>5, <2>6 DEF Feeds
<1> QED  BY <1>3, <1>5, <1>6, <1>7, <1>8

LEMMA HeldLater ==
    ASSUME Typed, PagesHeld, Next, NEW r,
           \A b \in r.after : b \in Call /\ calls[b].stage = "done"
                                /\ calls[b].after \subseteq r.after,
           Held(r)
    PROVE  Held(r)'
BY PageLater, ProfilesLater DEF Held, PagesHeld

LEMMA PagesNext ==
    ASSUME Typed, PagesHeld, Next
    PROVE  PagesHeld'
<1>1. FiniteDocs' /\ AfterHeld' /\ AfterHeld /\ CallsShaped
  BY FiniteNext, CallsNext DEF PagesHeld, Typed, RequestsHeld
<1>2. ASSUME NEW r, Held(r), \A b \in r.after : /\ b \in Call /\ calls[b].stage = "done"
                                               /\ calls[b].after \subseteq r.after
      PROVE  Held(r)'
  BY <1>2, HeldLater
<1>3. ASSUME NEW c \in Call, NEW s, s = calls'[c], \E r \in asked : Arrive(c, r) PROVE Held(s)'
  <2>1. /\ s.after = {d \in Call : calls[d].stage = "done"} /\ s.code # "OK"
        /\ s.stage \in {"run", "done"} /\ (s.stage = "run" => s.rows = Rows)
    BY <1>1, <1>3, ArriveAfter
  <2>2. Held(s)
    BY <2>1 DEF Held, ProfilesHeld, HasReadProfiles, PageHeld, HasRead, FeedRows, Rows, Running
  <2>3. \A b \in s.after : /\ b \in Call /\ calls[b].stage = "done"
                           /\ calls[b].after \subseteq s.after
    BY <1>1, <2>1 DEF AfterHeld
  <2> QED  BY <1>2, <2>2, <2>3
<1>4. ASSUME NEW c \in Call, NEW s, s = calls'[c], Acts(c) PROVE Held(s)'
  <2>1. s.after = calls[c].after
    BY <1>4, ActsFacts
  <2>2. Held(s)
    BY <1>4, ProfilesActs, PageActs DEF Held
  <2> QED  BY <1>1, <1>2, <2>1, <2>2 DEF AfterHeld
<1>5. ASSUME NEW d \in Call, NEW r, r = calls'[d], r = calls[d] PROVE Held(r)'
  BY <1>1, <1>2, <1>5 DEF PagesHeld, AfterHeld
<1>6. \A d \in Call : \A r : r = calls'[d] => Held(r)'
  BY <1>3, <1>4, <1>5, OneMoves
<1> QED  BY <1>1, <1>6 DEF PagesHeld

\* What was answered first was of no more documents, whoever wrote between.
THEOREM PagesAlways == Spec => [](Typed /\ PagesHeld)
<1>1. Init => Typed /\ PagesHeld
  <2> SUFFICES ASSUME Init PROVE PagesHeld
    BY TypedInit
  <2>1. \A c \in Call : calls[c].after = {} /\ calls[c].stage = "idle" /\ calls[c].code = "none"
    BY DEF Init, NoCall
  <2>2. FiniteDocs
    <3>1. PICK case \in Case :
             users = case.users /\ nfts = case.nfts /\ collections = case.collections
      BY DEF Init
    <3> QED  BY <3>1, RequestCases DEF Consistent, FiniteDocs
  <2> QED  BY <2>1, <2>2 DEF PagesHeld, AfterHeld, Held, ProfilesHeld, HasReadProfiles, PageHeld,
                             HasRead, Running
<1>2. Typed /\ PagesHeld /\ [Next]_requestVars => (Typed /\ PagesHeld)'
  <2> SUFFICES ASSUME Typed, PagesHeld, [Next]_requestVars PROVE PagesHeld'
    BY TypedNext
  <2>1. CASE UNCHANGED requestVars
    <3>1. UNCHANGED <<users, nfts, collections, calls>>
      BY <2>1 DEF requestVars, stores
    <3>2. \A e, r, S : SeenBy(e, r, S)' <=> SeenBy(e, r, S)
      BY <3>1 DEF SeenBy, Shows, MadeMeanwhile, PageOf, RowsOf, Fits, Matches, Dates, Docs, Field,
                  NftsPage, CollectionsPage
    <3>3. ASSUME NEW e, NEW r PROVE PageHeld(e, r)' <=> PageHeld(e, r)
      <4>1. \A q : HasRead(e, q)' <=> HasRead(e, q)
        BY DEF HasRead, Alone, Field
      <4> QED  BY <3>1, <3>2, <4>1 DEF PageHeld
    <3>4. \A r : ProfilesHeld(r)' <=> ProfilesHeld(r)
      BY <3>1 DEF ProfilesHeld, HasReadProfiles, ShowsProfiles, Field, Alone, FeedRows, Running,
                  ProfilesPage
    <3> QED  BY <3>1, <3>3, <3>4 DEF PagesHeld, AfterHeld, FiniteDocs, Held
  <2> QED  BY <2>1, PagesNext
<1> QED  BY <1>1, <1>2, PTL DEF Spec
-----------------------------------------------------------------------------
(* Following pages *)

\* d asks for the page after c's, of the same, once c was answered.
NextOf(e, c, d) ==
    LET p == PageOf(e, calls[c])
        q == PageOf(e, calls[d])
    IN  /\ HasRead(e, calls[c]) /\ HasRead(e, calls[d]) /\ c \in calls[d].after
        /\ q.skip = p.skip + p.limit /\ q.limit = p.limit /\ q.sort = p.sort
        /\ p.limit \in Int \ {0} /\ p.limit # None
        /\ \A x : Fits(calls[c], x) <=> Fits(calls[d], x)

\* The pages are cuts of sorted orders, the second of one of more documents.
LEMMA TwoPages ==
    ASSUME PagesHeld, NEW e \in {"nfts", "collections"}, NEW c \in Call, NEW d \in Call,
           NextOf(e, c, d),
           NEW p, p = PageOf(e, calls[c]), NEW q, q = PageOf(e, calls[d]),
           NEW docs, docs = DOMAIN Docs(e)
    PROVE  /\ p.skip \in Nat /\ q.skip \in Nat
           /\ \E S, T \in SUBSET docs :
                 /\ docs \ MadeMeanwhile(calls[c]) \subseteq S
                 /\ docs \ MadeMeanwhile(calls[d]) \subseteq T
                 /\ S \subseteq T
                 /\ \E s \in Sorted(FitOf(calls[d], S), Dates(e), p.sort) :
                       RowsOf(e, calls[c]) = ToSet(Cut(s, p))
                 /\ \E t \in Sorted(FitOf(calls[d], T), Dates(e), p.sort) :
                       RowsOf(e, calls[d]) = ToSet(Cut(t, q))
<1>1. PageHeld(e, calls[d])
  BY DEF PagesHeld, Held
<1>2. PICK T : /\ SeenBy(e, calls[d], T)
               /\ \E S \in SUBSET T : SeenBy(e, calls[c], S)
  BY <1>1 DEF PageHeld, NextOf
<1>3. PICK S \in SUBSET T : SeenBy(e, calls[c], S)
  BY <1>2
<1>4. {x \in S : Fits(calls[c], x)} = FitOf(calls[d], S)
  BY DEF NextOf, FitOf
<1>5. {x \in T : Fits(calls[d], x)} = FitOf(calls[d], T) /\ q.sort = p.sort
  BY DEF NextOf, FitOf
<1>6. Shows(e, calls[c], S) /\ Shows(e, calls[d], T)
  BY <1>2, <1>3 DEF SeenBy
<1>7. p.skip \in Nat /\ \E s \in Sorted(FitOf(calls[d], S), Dates(e), p.sort) :
                           RowsOf(e, calls[c]) = ToSet(Cut(s, p))
  BY <1>4, <1>6 DEF Shows
<1>8. q.skip \in Nat /\ \E t \in Sorted(FitOf(calls[d], T), Dates(e), p.sort) :
                           RowsOf(e, calls[d]) = ToSet(Cut(t, q))
  BY <1>5, <1>6 DEF Shows
<1> QED  BY <1>2, <1>3, <1>7, <1>8 DEF SeenBy

LEMMA NothingSkipped ==
    ASSUME Typed, PagesHeld, NEW e \in {"nfts", "collections"}, NEW c \in Call, NEW d \in Call,
           NextOf(e, c, d),
           NEW x \in DOMAIN Docs(e) \ MadeMeanwhile(calls[d]), Fits(calls[d], x),
           Cardinality(RowsOf(e, calls[c])) = PageOf(e, calls[c]).limit,
           \A y \in RowsOf(e, calls[c]) : Ahead(Dates(e), PageOf(e, calls[c]).sort, y, x)
    PROVE  \/ x \in RowsOf(e, calls[d])
           \/ /\ Cardinality(RowsOf(e, calls[d])) = PageOf(e, calls[c]).limit
              /\ \A y \in RowsOf(e, calls[d]) :
                    /\ y \in DOMAIN Docs(e)
                    /\ ~Ahead(Dates(e), PageOf(e, calls[c]).sort, x, y)
<1>1. PICK p, q, key, rows, next, docs :
         /\ p = PageOf(e, calls[c]) /\ q = PageOf(e, calls[d]) /\ key = Dates(e)
         /\ rows = RowsOf(e, calls[c]) /\ next = RowsOf(e, calls[d]) /\ docs = DOMAIN Docs(e)
  OBVIOUS
<1>2. PICK S \in SUBSET docs, T \in SUBSET docs :
         /\ docs \ MadeMeanwhile(calls[d]) \subseteq T /\ S \subseteq T /\ p.skip \in Nat
         /\ \E s \in Sorted(FitOf(calls[d], S), key, p.sort) : rows = ToSet(Cut(s, p))
         /\ \E t \in Sorted(FitOf(calls[d], T), key, p.sort) : next = ToSet(Cut(t, q))
  BY <1>1, TwoPages
<1>3. PICK F, G : F = FitOf(calls[d], S) /\ G = FitOf(calls[d], T)
  OBVIOUS
<1>4. PICK s \in Sorted(F, key, p.sort), t \in Sorted(G, key, p.sort) :
         rows = ToSet(Cut(s, p)) /\ next = ToSet(Cut(t, q))
  BY <1>2, <1>3
<1>5. F \subseteq G /\ F \subseteq docs /\ G \subseteq docs /\ x \in G
  BY <1>1, <1>2, <1>3 DEF FitOf
<1>6. IsFiniteSet(F) /\ IsFiniteSet(G)
  BY <1>1, <1>5, FiniteOf, FS_Subset DEF PagesHeld
<1>7. \A y \in docs : key[y] \in Int
  BY <1>1, DatesFacts
<1>8. /\ q.skip = p.skip + p.limit /\ q.limit = p.limit
      /\ p.limit \in Int \ {0} /\ p.limit # None
  BY <1>1 DEF NextOf
<1>9. Cardinality(rows) = p.limit /\ \A y \in rows : Ahead(key, p.sort, y, x)
  BY <1>1
<1>10. p.limit \in Nat \ {0}
  <2>1. s \in SetToSeqs(F)
    BY DEF Sorted
  <2>2. rows \subseteq F
    BY <1>2, <1>4, <1>6, <1>8, <2>1, CutInside
  <2>3. Cardinality(rows) \in Nat
    BY <1>6, <2>2, FS_Subset, FS_CardinalityType
  <2> QED  BY <1>8, <1>9, <2>3
<1>11. (\A y \in F : key[y] \in Int) /\ (\A y \in G : key[y] \in Int) /\ key[x] \in Int
  BY <1>5, <1>7
<1>12. \/ x \in ToSet(Cut(t, q))
       \/ /\ Cardinality(ToSet(Cut(t, q))) = q.limit
          /\ \A y \in ToSet(Cut(t, q)) : y \in G /\ ~Ahead(key, p.sort, x, y)
  <2>1. /\ Cardinality(ToSet(Cut(s, p))) = p.limit
        /\ \A y \in ToSet(Cut(s, p)) : Ahead(key, p.sort, y, x)
    BY <1>4, <1>9
  <2>2. Later(F, G, p.sort, key, key, s, t, x)
    BY <1>4, <1>5, <1>6, <1>11 DEF Later
  <2> QED  BY <1>2, <1>8, <1>10, <2>1, <2>2, NextPage
<1> QED  BY <1>1, <1>4, <1>5, <1>8, <1>12

LEMMA RowsAreDocs ==
    ASSUME PagesHeld, NEW e \in {"nfts", "collections"}, NEW c \in Call, NEW d \in Call,
           NextOf(e, c, d)
    PROVE  RowsOf(e, calls[c]) \subseteq DOMAIN Docs(e)
<1>1. PICK p, q, key, rows, docs :
         /\ p = PageOf(e, calls[c]) /\ q = PageOf(e, calls[d]) /\ key = Dates(e)
         /\ rows = RowsOf(e, calls[c]) /\ docs = DOMAIN Docs(e)
  OBVIOUS
<1>2. PICK S \in SUBSET docs :
         /\ p.skip \in Nat
         /\ \E s \in Sorted(FitOf(calls[d], S), key, p.sort) : rows = ToSet(Cut(s, p))
  BY <1>1, TwoPages
<1>3. PICK F : F = FitOf(calls[d], S) /\ F \subseteq docs /\ IsFiniteSet(F)
  <2>1. FitOf(calls[d], S) \subseteq docs
    BY DEF FitOf
  <2> QED  BY <1>1, <2>1, FiniteOf, FS_Subset DEF PagesHeld
<1>4. p.limit \in Int /\ p.limit # None
  BY <1>1 DEF NextOf
<1>5. PICK s \in SetToSeqs(F) : rows = ToSet(Cut(s, p))
  BY <1>2, <1>3 DEF Sorted
<1> QED  BY <1>1, <1>2, <1>3, <1>4, <1>5, CutInside

\* What was there when d came, and fits: as the properties say it.
Offered(e, d) == {x \in DOMAIN Docs(e) \ MadeMeanwhile(calls[d]) : Fits(calls[d], x)}

LEMMA NextIsContiguous ==
    ASSUME Typed, PagesHeld, NEW e \in {"nfts", "collections"}, NEW c \in Call, NEW d \in Call,
           NextOf(e, c, d), NEW x \in Offered(e, d),
           Cardinality(RowsOf(e, calls[c])) = PageOf(e, calls[c]).limit,
           \A y \in RowsOf(e, calls[c]) :
              IF PageOf(e, calls[c]).sort = "Desc"
                THEN Docs(e)[x].createdAt < Docs(e)[y].createdAt
                ELSE Docs(e)[x].createdAt > Docs(e)[y].createdAt
    PROVE  \/ x \in RowsOf(e, calls[d])
           \/ /\ Cardinality(RowsOf(e, calls[d])) = PageOf(e, calls[c]).limit
              /\ \A y \in RowsOf(e, calls[d]) :
                    ~(IF PageOf(e, calls[c]).sort = "Desc"
                        THEN Docs(e)[y].createdAt < Docs(e)[x].createdAt
                        ELSE Docs(e)[y].createdAt > Docs(e)[x].createdAt)
<1> DEFINE sort == PageOf(e, calls[c]).sort
<1>1. RowsOf(e, calls[c]) \subseteq DOMAIN Docs(e) /\ x \in DOMAIN Docs(e)
  BY RowsAreDocs DEF Offered
<1>2. \A y \in DOMAIN Docs(e) : Dates(e)[y] = Docs(e)[y].createdAt /\ Dates(e)[y] \in Int
  BY DatesFacts
<1>3. \A y \in DOMAIN Docs(e) :
         /\ Ahead(Dates(e), sort, y, x) <=>
               IF sort = "Desc" THEN Docs(e)[x].createdAt < Docs(e)[y].createdAt
                                ELSE Docs(e)[x].createdAt > Docs(e)[y].createdAt
         /\ Ahead(Dates(e), sort, x, y) <=>
               IF sort = "Desc" THEN Docs(e)[y].createdAt < Docs(e)[x].createdAt
                                ELSE Docs(e)[y].createdAt > Docs(e)[x].createdAt
  BY <1>1, <1>2 DEF Ahead
<1>4. \A y \in RowsOf(e, calls[c]) : Ahead(Dates(e), sort, y, x)
  BY <1>1, <1>3
<1>5. \/ x \in RowsOf(e, calls[d])
      \/ /\ Cardinality(RowsOf(e, calls[d])) = PageOf(e, calls[c]).limit
         /\ \A y \in RowsOf(e, calls[d]) : y \in DOMAIN Docs(e) /\ ~Ahead(Dates(e), sort, x, y)
  BY <1>4, NothingSkipped DEF Offered
<1> QED  BY <1>3, <1>5

\* An answer's field is valid.
LEMMA AnsweredIsValid ==
    ASSUME Typed, NEW c \in Call, NEW E, Asks(c, E)
    PROVE  /\ Alone(calls[c]) /\ calls[c].code = "OK" /\ Field(calls[c]).endpoint \in E
           /\ ValidField(Field(calls[c]))
<1>1. RequestHeld(calls[c]) /\ calls[c].code = "OK" /\ Alone(calls[c])
      /\ Field(calls[c]).endpoint \in E
  BY DEF Typed, RequestsHeld, Asks, Alone
<1>2. ValidRequest(calls[c].ask) /\ calls[c].at \in DOMAIN calls[c].ask.fields
  BY <1>1 DEF RequestHeld, NoCall
<1> QED  BY <1>1, <1>2, FieldIsValid DEF Field

\* d lists the page after c's, once c was answered.
ListsNext(c, d) ==
    /\ Asks(c, {"nfts", "collections"}) /\ Asks(d, {Field(calls[c]).endpoint})
    /\ LET f == Field(calls[c])  g == Field(calls[d]) IN
       /\ f.filter = g.filter /\ f.args.sortField = "createdAt"
       /\ [f.args EXCEPT !.page = None] = [g.args EXCEPT !.page = None]
       /\ Follows(d, c, ListedPage)

LEMMA ListingsFollow ==
    ASSUME Typed, PagesHeld, NEW c \in Call, NEW d \in Call, ListsNext(c, d),
           NEW f, f = Field(calls[c]), NEW e, e = f.endpoint
    PROVE  /\ NextOf(e, c, d) /\ PageOf(e, calls[c]).limit = Limit(f.args)
           /\ PageOf(e, calls[c]).sort = "Desc" <=> f.args.sortOrder = "Desc"
<1> DEFINE g == Field(calls[d])
<1>0. /\ f.filter = g.filter /\ f.args.sortField = "createdAt"
      /\ [f.args EXCEPT !.page = None] = [g.args EXCEPT !.page = None]
      /\ c \in calls[d].after /\ ListedPage(g) = ListedPage(f) + 1
  BY DEF ListsNext, Follows
<1>1. /\ ValidField(f) /\ ValidField(g) /\ e \in {"nfts", "collections"} /\ g.endpoint = e
      /\ Alone(calls[c]) /\ Alone(calls[d]) /\ calls[c].code = "OK" /\ calls[d].code = "OK"
  BY AnsweredIsValid DEF ListsNext
<1>2. /\ DOMAIN f.args = {"page", "perPage", "sortField", "sortOrder"}
      /\ DOMAIN g.args = {"page", "perPage", "sortField", "sortOrder"}
      /\ {f.args.page, f.args.perPage} \subseteq Int \cup {None}
      /\ {g.args.page, g.args.perPage} \subseteq Int \cup {None}
  BY <1>1 DEF ValidField
<1>3. /\ g.args.perPage = f.args.perPage /\ g.args.sortField = f.args.sortField
      /\ g.args.sortOrder = f.args.sortOrder
  <2>1. PICK a, b : a = f.args /\ b = g.args
    OBVIOUS
  <2>2. [a EXCEPT !.page = None] = [b EXCEPT !.page = None]
    BY <1>0, <2>1
  <2>3. \A k \in {"perPage", "sortField", "sortOrder"} : b[k] = a[k]
    <3>1. \A k \in {"perPage", "sortField", "sortOrder"} :
             [a EXCEPT !.page = None][k] = a[k] /\ [b EXCEPT !.page = None][k] = b[k]
      BY <1>2, <2>1
    <3> QED  BY <2>2, <3>1
  <2> QED  BY <2>1, <2>3
<1>4. HasRead(e, calls[c]) /\ HasRead(e, calls[d])
  BY <1>0, <1>1, <1>3 DEF HasRead
<1>5. /\ PageOf(e, calls[c]) = ToMongo(f.args) /\ PageOf(e, calls[d]) = ToMongo(g.args)
  BY <1>1 DEF PageOf
<1>6. PICK n \in Int, l \in Int \ {0} :
         /\ n = ListedPage(f) /\ l = Limit(f.args) /\ l = Limit(g.args) /\ n + 1 = ListedPage(g)
  <2>1. ListedPage(f) \in Int
    BY <1>2, QueryConstants DEF ListedPage, Or
  <2>2. Limit(f.args) \in Int \ {0}
    BY <1>2, QueryConstants DEF Limit, Or
  <2>3. Limit(g.args) = Limit(f.args)
    BY <1>3 DEF Limit
  <2> QED  BY <1>0, <2>1, <2>2, <2>3
<1>7. Skip(f.args) = n * l /\ Skip(g.args) = (n + 1) * l
  BY <1>6 DEF Skip, ListedPage
<1>8. (n + 1) * l = n * l + l
  OBVIOUS
<1>9. \A x : Fits(calls[c], x) <=> Fits(calls[d], x)
  BY <1>0, <1>1 DEF Fits, Matches
<1>10. l # None
  BY QueryConstants
<1>11. /\ PageOf(e, calls[c]).limit = l /\ PageOf(e, calls[d]).limit = l
       /\ PageOf(e, calls[d]).skip = PageOf(e, calls[c]).skip + l
       /\ PageOf(e, calls[d]).sort = PageOf(e, calls[c]).sort
       /\ (PageOf(e, calls[c]).sort = "Desc" <=> f.args.sortOrder = "Desc")
  BY <1>3, <1>5, <1>6, <1>7, <1>8 DEF ToMongo
<1> QED  BY <1>0, <1>4, <1>6, <1>9, <1>10, <1>11 DEF NextOf

LEMMA FeedsFollow ==
    ASSUME Typed, PagesHeld, NEW c \in Call, NEW d \in Call, NEW e \in {"nfts", "collections"},
           Asks(c, {"newsfeed"}), Asks(d, {"newsfeed"}), c \in calls[d].after,
           Or(Field(calls[d]).page, 0) = Or(Field(calls[c]).page, 0) + 1
    PROVE  /\ NextOf(e, c, d) /\ PageOf(e, calls[c]).sort = "Desc"
           /\ e = "nfts" => PageOf(e, calls[c]).limit = NftsPerPage
           /\ e = "collections" => PageOf(e, calls[c]).limit = CollectionsPerPage
<1> DEFINE f == Field(calls[c])
           g == Field(calls[d])
<1>1. /\ ValidField(f) /\ ValidField(g) /\ f.endpoint = "newsfeed" /\ g.endpoint = "newsfeed"
      /\ Alone(calls[c]) /\ Alone(calls[d]) /\ calls[c].code = "OK" /\ calls[d].code = "OK"
  BY AnsweredIsValid
<1>2. HasRead(e, calls[c]) /\ HasRead(e, calls[d])
  BY <1>1 DEF HasRead
<1>3. PICK size \in Nat \ {0} : size = IF e = "nfts" THEN NftsPerPage ELSE CollectionsPerPage
  BY RequestConstants
<1>4. PICK n \in Int : n = Or(f.page, 0) /\ n + 1 = Or(g.page, 0)
  <2>1. f.page \in Int \cup {None}
    BY <1>1 DEF ValidField
  <2> QED  BY <2>1, PageOfZero
<1>5. /\ PageOf(e, calls[c]) = FeedPage(f, size, "createdAt")
      /\ PageOf(e, calls[d]) = FeedPage(g, size, "createdAt")
  BY <1>1, <1>3 DEF PageOf, NftsPage, CollectionsPage
<1>6. /\ PageOf(e, calls[c]).skip = n * size /\ PageOf(e, calls[d]).skip = (n + 1) * size
      /\ PageOf(e, calls[c]).limit = size /\ PageOf(e, calls[d]).limit = size
      /\ PageOf(e, calls[c]).sort = "Desc" /\ PageOf(e, calls[d]).sort = "Desc"
  BY <1>4, <1>5 DEF FeedPage
<1>7. (n + 1) * size = n * size + size /\ size # None
  BY QueryConstants
<1>8. \A x : Fits(calls[c], x) <=> Fits(calls[d], x)
  BY <1>1 DEF Fits
<1> QED  BY <1>2, <1>3, <1>6, <1>7, <1>8 DEF NextOf

\* The newsfeed's profiles, whose order changes between its pages.
LEMMA NextProfiles ==
    ASSUME Typed, PagesHeld, NEW c \in Call, NEW d \in Call,
           Asks(c, {"newsfeed"}), Asks(d, {"newsfeed"}), c \in calls[d].after,
           Or(Field(calls[d]).page, 0) = Or(Field(calls[c]).page, 0) + 1,
           NEW then, then = calls[c].active, NEW now, now = calls[d].active,
           NEW rows, rows = Ids(calls[c].rows.users), NEW next, next = Ids(calls[d].rows.users),
           \A u \in DOMAIN then : then[u] <= now[u],
           NEW x \in DOMAIN then, then[x] = now[x],
           Cardinality(rows) = ProfilesPerPage, \A y \in rows : then[x] < then[y]
    PROVE  /\ x \notin rows
           /\ \/ x \in next
              \/ Cardinality(next) = ProfilesPerPage /\ \A y \in next : ~(now[y] < now[x])
<1> DEFINE f == Field(calls[c])
           g == Field(calls[d])
           p == ProfilesPage(f)
           q == ProfilesPage(g)
<1>1. /\ f.endpoint = "newsfeed" /\ g.endpoint = "newsfeed"
      /\ Alone(calls[c]) /\ Alone(calls[d]) /\ calls[c].code = "OK" /\ calls[d].code = "OK"
  BY AnsweredIsValid
<1>2. HasReadProfiles(calls[c]) /\ HasReadProfiles(calls[d])
  BY <1>1 DEF HasReadProfiles
<1>3. ProfilesHeld(calls[c]) /\ ProfilesHeld(calls[d])
  BY DEF PagesHeld, Held
<1>4. /\ IsFiniteSet(DOMAIN now) /\ DOMAIN then \subseteq DOMAIN now
      /\ ShowsProfiles(calls[c]) /\ ShowsProfiles(calls[d])
  BY <1>2, <1>3 DEF ProfilesHeld
<1>5. /\ Or(f.page, 0) \in Nat
      /\ (\A u \in DOMAIN then : then[u] \in Int) /\ (\A u \in DOMAIN now : now[u] \in Int)
      /\ \E s \in Sorted(DOMAIN then, then, "Desc") : rows = ToSet(Cut(s, p))
      /\ \E t \in Sorted(DOMAIN now, now, "Desc") : next = ToSet(Cut(t, q))
  BY <1>4 DEF ShowsProfiles
<1>6. PICK size \in Nat \ {0} : size = ProfilesPerPage
  BY RequestConstants
<1>7. PICK n \in Nat : n = Or(f.page, 0) /\ n + 1 = Or(g.page, 0)
  BY <1>5
<1>8. /\ p.skip = n * size /\ q.skip = (n + 1) * size /\ p.limit = size /\ q.limit = size
      /\ (n + 1) * size = n * size + size /\ n * size \in Nat /\ size # None
  BY <1>6, <1>7, QueryConstants, ProductIsNat DEF ProfilesPage, FeedPage
<1>9. PICK P, Q, S, T : P = p /\ Q = q /\ S = DOMAIN then /\ T = DOMAIN now
  OBVIOUS
<1>10. PICK s \in Sorted(S, then, "Desc"), t \in Sorted(T, now, "Desc") :
          rows = ToSet(Cut(s, P)) /\ next = ToSet(Cut(t, Q))
  BY <1>5, <1>9
<1>11. Later(S, T, "Desc", then, now, s, t, x)
  <2>1. \A y \in S : Ahead(then, "Desc", y, x) => Ahead(now, "Desc", y, x)
    BY <1>4, <1>5, <1>9 DEF Ahead
  <2> QED  BY <1>4, <1>5, <1>9, <1>10, <2>1 DEF Later
<1>12. rows \subseteq S
  <2>1. s \in SetToSeqs(S) /\ IsFiniteSet(S) /\ P.skip \in Nat /\ P.limit \in Int /\ P.limit # None
    BY <1>4, <1>8, <1>9, <1>10, FS_Subset DEF Sorted
  <2> QED  BY <1>10, <2>1, CutInside
<1>13. \A y \in rows : Ahead(then, "Desc", y, x)
  BY <1>5, <1>9, <1>12 DEF Ahead
<1>14. \/ x \in next
       \/ /\ Cardinality(next) = size
          /\ \A y \in next : y \in T /\ ~Ahead(now, "Desc", x, y)
  <2>1. /\ P.skip \in Nat /\ P.limit \in Nat \ {0} /\ P.limit # None
        /\ Q.skip = P.skip + P.limit /\ Q.limit = P.limit /\ P.limit = size /\ Q.limit = size
    BY <1>8, <1>9
  <2>2. /\ Cardinality(ToSet(Cut(s, P))) = P.limit
        /\ \A y \in ToSet(Cut(s, P)) : Ahead(then, "Desc", y, x)
    BY <1>6, <1>10, <1>13, <2>1
  <2>3. \/ x \in ToSet(Cut(t, Q))
        \/ /\ Cardinality(ToSet(Cut(t, Q))) = Q.limit
           /\ \A y \in ToSet(Cut(t, Q)) : y \in T /\ ~Ahead(now, "Desc", x, y)
    BY <1>11, <2>1, <2>2, NextPage
  <2> QED  BY <1>10, <2>1, <2>3
<1>15. x \notin rows
  BY <1>5
<1> QED  BY <1>5, <1>6, <1>9, <1>14, <1>15 DEF Ahead
-----------------------------------------------------------------------------
(* The theorems *)

LEMMA FeedsWhenHeld ==
    ASSUME Typed, PagesHeld
    PROVE  FeedSkipsNothing
<1> SUFFICES ASSUME NEW c \in Call, NEW d \in Call,
                    Asks(c, {"newsfeed"}), Asks(d, {"newsfeed"}), c \in calls[d].after,
                    Or(Field(calls[d]).page, 0) = Or(Field(calls[c]).page, 0) + 1,
                    NEW then, then = calls[c].active, NEW now, now = calls[d].active
             PROVE
        /\ Contiguous(DOMAIN nfts \ MadeSince(d), ToSet(calls[c].rows.nfts),
               ToSet(calls[d].rows.nfts), NftsPerPage,
               LAMBDA x, y : nfts[x].createdAt < nfts[y].createdAt)
        /\ Contiguous(DOMAIN collections \ MadeSince(d), ToSet(calls[c].rows.collections),
               ToSet(calls[d].rows.collections), CollectionsPerPage,
               LAMBDA x, y : collections[x].createdAt < collections[y].createdAt)
        /\ (\A u \in DOMAIN then : then[u] <= now[u]) =>
              Contiguous({u \in DOMAIN then : then[u] = now[u]}, Ids(calls[c].rows.users),
                  Ids(calls[d].rows.users), ProfilesPerPage,
                  LAMBDA x, y : IF y \in Ids(calls[c].rows.users)
                                  THEN then[x] < then[y] ELSE now[x] < now[y])
  BY DEF FeedSkipsNothing, Follows, Contiguous
<1>1. ASSUME NEW e \in {"nfts", "collections"}
      PROVE  /\ NextOf(e, c, d) /\ PageOf(e, calls[c]).sort = "Desc"
             /\ e = "nfts" => PageOf(e, calls[c]).limit = NftsPerPage
             /\ e = "collections" => PageOf(e, calls[c]).limit = CollectionsPerPage
  BY FeedsFollow
<1>2. /\ MadeSince(d) = MadeMeanwhile(calls[d])
      /\ \A x : Fits(calls[d], x)
  <2>1. Field(calls[d]).endpoint = "newsfeed"
    BY DEF Asks
  <2> QED  BY <2>1 DEF MadeSince, MadeMeanwhile, Fits
<1>3. ASSUME NEW e \in {"nfts", "collections"}, NEW x \in DOMAIN Docs(e) \ MadeSince(d),
             Cardinality(RowsOf(e, calls[c])) = PageOf(e, calls[c]).limit,
             \A y \in RowsOf(e, calls[c]) : Docs(e)[x].createdAt < Docs(e)[y].createdAt
      PROVE  \/ x \in RowsOf(e, calls[d])
             \/ /\ Cardinality(RowsOf(e, calls[d])) = PageOf(e, calls[c]).limit
                /\ \A y \in RowsOf(e, calls[d]) : ~(Docs(e)[y].createdAt < Docs(e)[x].createdAt)
  <2>1. x \in Offered(e, d)
    BY <1>2, <1>3 DEF Offered
  <2>2. \A y \in RowsOf(e, calls[c]) :
           IF PageOf(e, calls[c]).sort = "Desc"
             THEN Docs(e)[x].createdAt < Docs(e)[y].createdAt
             ELSE Docs(e)[x].createdAt > Docs(e)[y].createdAt
    BY <1>1, <1>3
  <2>3. \/ x \in RowsOf(e, calls[d])
        \/ /\ Cardinality(RowsOf(e, calls[d])) = PageOf(e, calls[c]).limit
           /\ \A y \in RowsOf(e, calls[d]) :
                 ~(IF PageOf(e, calls[c]).sort = "Desc"
                     THEN Docs(e)[y].createdAt < Docs(e)[x].createdAt
                     ELSE Docs(e)[y].createdAt > Docs(e)[x].createdAt)
    BY <1>1, <1>3, <2>1, <2>2, NextIsContiguous
  <2> QED  BY <1>1, <2>3
<1>4. Contiguous(DOMAIN nfts \ MadeSince(d), ToSet(calls[c].rows.nfts),
          ToSet(calls[d].rows.nfts), NftsPerPage,
          LAMBDA x, y : nfts[x].createdAt < nfts[y].createdAt)
  <2>1. PICK e \in {"nfts", "collections"} : e = "nfts"
    OBVIOUS
  <2>2. /\ Docs(e) = nfts /\ PageOf(e, calls[c]).limit = NftsPerPage
        /\ RowsOf(e, calls[c]) = ToSet(calls[c].rows.nfts)
        /\ RowsOf(e, calls[d]) = ToSet(calls[d].rows.nfts)
    BY <1>1, <2>1 DEF Docs, RowsOf
  <2> QED  BY <1>3, <2>2 DEF Contiguous
<1>5. Contiguous(DOMAIN collections \ MadeSince(d), ToSet(calls[c].rows.collections),
          ToSet(calls[d].rows.collections), CollectionsPerPage,
          LAMBDA x, y : collections[x].createdAt < collections[y].createdAt)
  <2>1. PICK e \in {"nfts", "collections"} : e = "collections"
    OBVIOUS
  <2>2. /\ Docs(e) = collections /\ PageOf(e, calls[c]).limit = CollectionsPerPage
        /\ RowsOf(e, calls[c]) = ToSet(calls[c].rows.collections)
        /\ RowsOf(e, calls[d]) = ToSet(calls[d].rows.collections)
    BY <1>1, <2>1 DEF Docs, RowsOf
  <2> QED  BY <1>3, <2>2 DEF Contiguous
<1>6. ASSUME \A u \in DOMAIN then : then[u] <= now[u]
      PROVE  Contiguous({u \in DOMAIN then : then[u] = now[u]}, Ids(calls[c].rows.users),
                 Ids(calls[d].rows.users), ProfilesPerPage,
                 LAMBDA x, y : IF y \in Ids(calls[c].rows.users)
                                 THEN then[x] < then[y] ELSE now[x] < now[y])
  <2>1. PICK rows, next : rows = Ids(calls[c].rows.users) /\ next = Ids(calls[d].rows.users)
    OBVIOUS
  <2>2. ASSUME NEW x \in DOMAIN then, then[x] = now[x],
               Cardinality(rows) = ProfilesPerPage, \A y \in rows : then[x] < then[y]
        PROVE  /\ x \notin rows
               /\ \/ x \in next
                  \/ Cardinality(next) = ProfilesPerPage /\ \A y \in next : ~(now[y] < now[x])
    BY <1>6, <2>1, <2>2, NextProfiles
  <2> QED  BY <2>1, <2>2 DEF Contiguous
<1> QED  BY <1>4, <1>5, <1>6

\* The second half of PagesAreSlices: nothing is made while c is read, nor
\* since, so both pages are of the same documents.
LEMMA NothingTwice ==
    ASSUME Typed, PagesHeld, NEW e \in {"nfts", "collections"}, NEW c \in Call, NEW d \in Call,
           NextOf(e, c, d), MadeMeanwhile(calls[c]) = {},
           \A x, y \in Offered(e, d) : x # y => Docs(e)[x].createdAt # Docs(e)[y].createdAt
    PROVE  RowsOf(e, calls[c]) \cap RowsOf(e, calls[d]) = {}
<1>0. PICK ids : ids = Offered(e, d)
  OBVIOUS
<1>1. PICK p, q, key, rows, next, docs :
         /\ p = PageOf(e, calls[c]) /\ q = PageOf(e, calls[d]) /\ key = Dates(e)
         /\ rows = RowsOf(e, calls[c]) /\ next = RowsOf(e, calls[d]) /\ docs = DOMAIN Docs(e)
  OBVIOUS
<1>2. MadeMeanwhile(calls[d]) = {}
  <2>1. calls[c].after \subseteq calls[d].after
    BY DEF NextOf, PagesHeld, AfterHeld
  <2> QED  BY <2>1 DEF MadeMeanwhile
<1>3. PICK S \in SUBSET docs, T \in SUBSET docs :
         /\ docs \ MadeMeanwhile(calls[c]) \subseteq S
         /\ docs \ MadeMeanwhile(calls[d]) \subseteq T /\ p.skip \in Nat /\ q.skip \in Nat
         /\ \E s \in Sorted(FitOf(calls[d], S), key, p.sort) : rows = ToSet(Cut(s, p))
         /\ \E t \in Sorted(FitOf(calls[d], T), key, p.sort) : next = ToSet(Cut(t, q))
  BY <1>1, TwoPages
<1>4. S = docs /\ T = docs
  BY <1>2, <1>3
<1>5. FitOf(calls[d], docs) = ids
  BY <1>0, <1>1, <1>2 DEF FitOf, Offered
<1>6. PICK s \in Sorted(ids, key, p.sort), t \in Sorted(ids, key, p.sort) :
         rows = ToSet(Cut(s, p)) /\ next = ToSet(Cut(t, q))
  BY <1>3, <1>4, <1>5
<1>7. /\ IsFiniteSet(ids) /\ \A x \in ids : key[x] \in Int
      /\ \A x, y \in ids : x # y => key[x] # key[y]
  <2>1. ids \subseteq DOMAIN Docs(e) /\ IsFiniteSet(ids)
    BY <1>0, FiniteOf, FS_Subset DEF PagesHeld, Offered
  <2> QED  BY <1>0, <1>1, <2>1, DatesFacts
<1>8. /\ p.skip \in Nat /\ q.skip \in Nat /\ p.limit \in Int \ {0} /\ p.limit # None
      /\ q.skip = p.skip + p.limit /\ q.limit = p.limit
  BY <1>1, <1>3 DEF NextOf
<1>9. ToSet(Cut(s, p)) \cap ToSet(Cut(t, q)) = {}
  <2> HIDE DEF Cut
  <2> QED  BY <1>6, <1>7, <1>8, PagesAreDisjoint
<1> QED  BY <1>1, <1>6, <1>9

LEMMA SlicesWhenHeld ==
    ASSUME Typed, PagesHeld
    PROVE  PagesAreSlices
<1> SUFFICES ASSUME NEW c \in Call, NEW d \in Call, ListsNext(c, d)
             PROVE
        LET f    == Field(calls[c])
            docs == Docs(f.endpoint)
            ids  == {x \in DOMAIN docs \ MadeSince(d) : Matches(f, x)}
            beyond(x, y) == IF f.args.sortOrder = "Desc"
                              THEN docs[x].createdAt < docs[y].createdAt
                              ELSE docs[x].createdAt > docs[y].createdAt
        IN  /\ Contiguous(ids, Listed(c), Listed(d), Limit(f.args), beyond)
            /\ (/\ MadeSince(c) = {}
                /\ \A x, y \in ids : x # y => docs[x].createdAt # docs[y].createdAt) =>
                  Listed(c) \cap Listed(d) = {}
  BY DEF PagesAreSlices, ListsNext, Contiguous
<1> DEFINE f == Field(calls[c])
           docs == Docs(f.endpoint)
           ids == {x \in DOMAIN docs \ MadeSince(d) : Matches(f, x)}
<1>1. PICK e \in {"nfts", "collections"} : e = f.endpoint /\ e = Field(calls[d]).endpoint
  BY DEF ListsNext, Asks
<1>2. /\ NextOf(e, c, d) /\ PageOf(e, calls[c]).limit = Limit(f.args)
      /\ PageOf(e, calls[c]).sort = "Desc" <=> f.args.sortOrder = "Desc"
  BY <1>1, ListingsFollow
<1>3. /\ MadeSince(d) = MadeMeanwhile(calls[d]) /\ MadeSince(c) = MadeMeanwhile(calls[c])
      /\ Listed(c) = RowsOf(e, calls[c]) /\ Listed(d) = RowsOf(e, calls[d])
  BY <1>1 DEF MadeSince, MadeMeanwhile, Listed, RowsOf
<1>4. \A x : Fits(calls[d], x) <=> Matches(f, x)
  <2>1. Field(calls[d]).filter = f.filter
    BY DEF ListsNext
  <2> QED  BY <1>1, <2>1 DEF Fits, Matches
<1>5. ids = Offered(e, d)
  BY <1>1, <1>3, <1>4 DEF Offered
<1>6. ASSUME NEW x \in ids, Cardinality(Listed(c)) = Limit(f.args),
             \A y \in Listed(c) : IF f.args.sortOrder = "Desc"
                                    THEN docs[x].createdAt < docs[y].createdAt
                                    ELSE docs[x].createdAt > docs[y].createdAt
      PROVE  \/ x \in Listed(d)
             \/ /\ Cardinality(Listed(d)) = Limit(f.args)
                /\ \A y \in Listed(d) : ~(IF f.args.sortOrder = "Desc"
                                            THEN docs[y].createdAt < docs[x].createdAt
                                            ELSE docs[y].createdAt > docs[x].createdAt)
  <2>1. /\ Cardinality(RowsOf(e, calls[c])) = PageOf(e, calls[c]).limit
        /\ \A y \in RowsOf(e, calls[c]) :
              IF PageOf(e, calls[c]).sort = "Desc"
                THEN Docs(e)[x].createdAt < Docs(e)[y].createdAt
                ELSE Docs(e)[x].createdAt > Docs(e)[y].createdAt
    BY <1>1, <1>2, <1>3, <1>6
  <2>2. \/ x \in RowsOf(e, calls[d])
        \/ /\ Cardinality(RowsOf(e, calls[d])) = PageOf(e, calls[c]).limit
           /\ \A y \in RowsOf(e, calls[d]) :
                 ~(IF PageOf(e, calls[c]).sort = "Desc"
                     THEN Docs(e)[y].createdAt < Docs(e)[x].createdAt
                     ELSE Docs(e)[y].createdAt > Docs(e)[x].createdAt)
    <3>1. x \in Offered(e, d)
      BY <1>5
    <3> HIDE DEF ids, docs
    <3> QED  BY <1>2, <2>1, <3>1, NextIsContiguous
  <2> QED  BY <1>1, <1>2, <1>3, <2>2
<1>7. ASSUME MadeSince(c) = {}, \A x, y \in ids : x # y => docs[x].createdAt # docs[y].createdAt
      PROVE  Listed(c) \cap Listed(d) = {}
  <2>1. MadeMeanwhile(calls[c]) = {}
    BY <1>3, <1>7
  <2>2. \A x, y \in Offered(e, d) : x # y => Docs(e)[x].createdAt # Docs(e)[y].createdAt
    BY <1>1, <1>5, <1>7
  <2>3. RowsOf(e, calls[c]) \cap RowsOf(e, calls[d]) = {}
    BY <1>2, <2>1, <2>2, NothingTwice
  <2> QED  BY <1>3, <2>3
<1> QED  BY <1>6, <1>7 DEF Contiguous

\* Following pages of a listing by date leave out nothing that was there when the
\* second was asked for, and repeat nothing unless something was created or two
\* have one date (graphqlToMongoPagination, paginateQuery).
THEOREM ListingsAreSlices == Spec => []PagesAreSlices
BY PagesAlways, SlicesWhenHeld, PTL

\* Following pages of the newsfeed leave out no NFT, no collection and, if no
\* activity was set back, no profile, whatever others write between its three
\* queries and between the pages (newsfeed.service.ts:40-82).
THEOREM FeedsSkipNothing == Spec => []FeedSkipsNothing
BY PagesAlways, FeedsWhenHeld, PTL
=============================================================================
