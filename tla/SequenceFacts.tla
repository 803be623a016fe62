--------------------------- MODULE SequenceFacts ---------------------------
(***************************************************************************)
(* Facts about sequences, sets of their positions, and remainders, of      *)
(* which the proofs of several components make use.                        *)
(***************************************************************************)
EXTENDS SequencesExt, TLAPS, SequenceTheorems, WellFoundedInduction, FiniteSetTheorems

\* A set of numbers that is not empty has a smallest one.
LEMMA Smallest ==
  ASSUME NEW T \in SUBSET Nat, T # {}
  PROVE  \E x \in T : \A y \in T : x <= y
<1> DEFINE Less == {p \in Nat \X Nat : p[1] < p[2]}
<1>1. IsWellFoundedOn(Less, Nat)
  BY NatLessThanWellFounded, Zenon DEF OpToRel
<1>2. \A p : p \in Less <=> p \in Nat \X Nat /\ p[1] < p[2]
  OBVIOUS
<1> HIDE DEF Less
<1>3. PICK x \in T : \A y \in T : <<y, x>> \notin Less
  BY <1>1, WFMin
<1>4. ASSUME NEW y \in T PROVE x <= y
  <2>1. x \in Nat /\ y \in Nat
    OBVIOUS
  <2>2. <<y, x>> \notin Less /\ <<y, x>> \in Nat \X Nat
    BY <1>3, <2>1
  <2> QED
    BY <1>2, <2>1, <2>2
<1> QED
  BY <1>4

\* A nonempty set of positive numbers up to n has a greatest element.
LEMMA Greatest ==
  ASSUME NEW n \in Nat, NEW S \in SUBSET (1..n), S # {}
  PROVE  \E i \in S : \A j \in S : j <= i
<1> DEFINE T == {n - i : i \in S}
<1>1. T # {}
  OBVIOUS
<1>2. T \subseteq Nat
  <2>1. SUFFICES ASSUME NEW i \in S PROVE n - i \in Nat
    OBVIOUS
  <2>2. i \in 1..n
    OBVIOUS
  <2> QED BY <2>2
<1> DEFINE Less == {ss \in Nat \X Nat : ss[1] < ss[2]}
<1>3. IsWellFoundedOn(Less, Nat)
  BY NatLessThanWellFounded DEF OpToRel
<1>4. PICK x \in T : \A y \in T : x <= y
  <2> HIDE DEF T
  <2>1. PICK x \in T : \A y \in T : ~ (<<y, x>> \in Less)
    <3> HIDE DEF Less
    <3> QED BY <1>1, <1>2, <1>3, WFMin
  <2>2. ASSUME NEW y \in T PROVE x <= y
    <3>1. x \in Nat /\ y \in Nat
      BY <1>2
    <3>2. ~ (y < x)
      BY <2>1, <3>1
    <3> QED BY <3>1, <3>2
  <2> QED BY <2>2
<1>5. PICK i \in S : x = n - i
  BY <1>4
<1>6. ASSUME NEW j \in S PROVE j <= i
  <2>1. n - i <= n - j
    BY <1>4, <1>5
  <2>2. i \in 1..n /\ j \in 1..n
    OBVIOUS
  <2> QED BY <2>1, <2>2
<1> QED BY <1>6

\* RemoveAt() leaves out one element and keeps the order of the others.
LEMMA RemoveAtFact ==
  ASSUME NEW S, NEW s \in Seq(S), NEW i \in 1..Len(s)
  PROVE  /\ RemoveAt(s, i) \in Seq(S)
         /\ Len(RemoveAt(s, i)) = Len(s) - 1
         /\ \A j \in 1..Len(s) - 1 :
              RemoveAt(s, i)[j] = IF j < i THEN s[j] ELSE s[j + 1]
<1> DEFINE a == SubSeq(s, 1, i - 1)
           b == SubSeq(s, i + 1, Len(s))
<1>1. Len(s) \in Nat /\ (\A j \in 1..Len(s) : s[j] \in S)
  BY LenProperties, ElementOfSeq
<1>2. /\ a \in Seq(S) /\ Len(a) = i - 1
      /\ \A j \in 1..Len(a) : a[j] = s[j]
  <2>1. \A j \in 1..(i - 1) : s[j] \in S
    BY <1>1
  <2> QED BY <1>1, <2>1, SubSeqProperties
<1>3. /\ b \in Seq(S) /\ Len(b) = Len(s) - i
      /\ \A j \in 1..Len(b) : b[j] = s[i + j]
  <2>1. \A j \in (i + 1)..Len(s) : s[j] \in S
    BY <1>1
  <2> QED BY <1>1, <2>1, SubSeqProperties
<1>4. RemoveAt(s, i) = a \o b
  BY DEF RemoveAt
<1> HIDE DEF a, b
<1>5. /\ a \o b \in Seq(S)
      /\ Len(a \o b) = Len(s) - 1
  <2>1. i \in Nat /\ Len(s) \in Nat /\ i <= Len(s)
    BY <1>1
  <2>2. a \o b \in Seq(S) /\ Len(a \o b) = Len(a) + Len(b)
    BY <1>2, <1>3, ConcatProperties
  <2> QED BY <1>2, <1>3, <2>1, <2>2
<1>6. \A j \in 1..Len(s) - 1 : (a \o b)[j] = IF j < i THEN s[j] ELSE s[j + 1]
  BY <1>1, <1>2, <1>3, ConcatProperties
<1> QED
  BY <1>4, <1>5, <1>6

-----------------------------------------------------------------------------
(* The positions of the elements of a sequence that are in a set.          *)

Where(s, P) == {i \in DOMAIN s : s[i] \in P}

LEMMA WhereFinite ==
  ASSUME NEW S, NEW s \in Seq(S), NEW P
  PROVE  /\ IsFiniteSet(Where(s, P)) /\ Cardinality(Where(s, P)) \in Nat
         /\ Cardinality(Where(s, P)) = 0 <=> \A i \in DOMAIN s : s[i] \notin P
<1>1. Len(s) \in Nat /\ DOMAIN s = 1..Len(s)
  BY LenProperties
<1>2. IsFiniteSet(1..Len(s))
  BY <1>1, FS_Interval
<1>3. IsFiniteSet(Where(s, P))
  BY <1>1, <1>2, FS_Subset DEF Where
<1>4. Cardinality(Where(s, P)) \in Nat
  BY <1>3, FS_CardinalityType
<1>5. Cardinality(Where(s, P)) = 0 <=> Where(s, P) = {}
  BY <1>3, FS_EmptySet
<1>6. Where(s, P) = {} <=> \A i \in DOMAIN s : s[i] \notin P
  BY DEF Where
<1> QED BY <1>3, <1>4, <1>5, <1>6

LEMMA WhereAppend ==
  ASSUME NEW S, NEW s \in Seq(S), NEW e \in S, NEW P
  PROVE  Cardinality(Where(Append(s, e), P)) =
           Cardinality(Where(s, P)) + (IF e \in P THEN 1 ELSE 0)
<1> DEFINE n == Len(s)
           t == Append(s, e)
<1>1. n \in Nat /\ DOMAIN s = 1..n /\ t \in Seq(S)
  BY LenProperties, AppendProperties
<1>2. Len(t) = n + 1 /\ (\A i \in 1..n : t[i] = s[i]) /\ t[n + 1] = e
  BY AppendProperties
<1>3. DOMAIN t = 1..(n + 1)
  BY <1>1, <1>2, LenProperties
<1> HIDE DEF n, t
<1>4. Where(t, P) = IF e \in P THEN Where(s, P) \cup {n + 1} ELSE Where(s, P)
  BY <1>1, <1>2, <1>3 DEF Where
<1>5. n + 1 \notin Where(s, P)
  BY <1>1 DEF Where
<1>6. IsFiniteSet(Where(s, P)) /\ Cardinality(Where(s, P)) \in Nat
  BY WhereFinite
<1>7. Cardinality(Where(t, P)) = Cardinality(Where(s, P)) + (IF e \in P THEN 1 ELSE 0)
  <2>1. Cardinality(Where(s, P) \cup {n + 1}) = Cardinality(Where(s, P)) + 1
    BY <1>5, <1>6, FS_AddElement
  <2> QED BY <1>4, <1>6, <2>1
<1> QED BY <1>7 DEF t

\* Appending a sequence of which all elements are in the set, or none.
LEMMA WhereConcat ==
  ASSUME NEW S, NEW s \in Seq(S), NEW t \in Seq(S), NEW P,
         \/ \A i \in 1..Len(t) : t[i] \in P
         \/ \A i \in 1..Len(t) : t[i] \notin P
  PROVE  Cardinality(Where(s \o t, P)) =
           Cardinality(Where(s, P)) + (IF \A i \in 1..Len(t) : t[i] \in P THEN Len(t) ELSE 0)
<1> DEFINE n == Len(s)
           m == Len(t)
           u == s \o t
<1>1. n \in Nat /\ DOMAIN s = 1..n /\ m \in Nat /\ DOMAIN t = 1..m /\ u \in Seq(S)
  BY LenProperties, ConcatProperties
<1>2. Len(u) = n + m /\ (\A i \in 1..(n + m) : u[i] = IF i <= n THEN s[i] ELSE t[i - n])
  BY ConcatProperties
<1>3. DOMAIN u = 1..(n + m)
  BY <1>1, <1>2, LenProperties
<1>4. IsFiniteSet(Where(s, P)) /\ Cardinality(Where(s, P)) \in Nat
  BY WhereFinite
<1>5. m # 0 => ((\A i \in 1..m : t[i] \in P) => ~ (\A i \in 1..m : t[i] \notin P))
  <2>1. m # 0 => 1 \in 1..m
    BY <1>1
  <2> QED BY <2>1
<1> HIDE DEF n, m, u
<1>6. CASE \A i \in 1..m : t[i] \in P
  <2>1. Where(u, P) = Where(s, P) \cup ((n + 1)..(n + m))
    <3>1. ASSUME NEW i \in Where(u, P) PROVE i \in Where(s, P) \cup ((n + 1)..(n + m))
      BY <1>1, <1>2, <1>3 DEF Where
    <3>2. ASSUME NEW i \in Where(s, P) PROVE i \in Where(u, P)
      BY <1>1, <1>2, <1>3 DEF Where
    <3>3. ASSUME NEW i \in (n + 1)..(n + m) PROVE i \in Where(u, P)
      <4>1. i - n \in 1..m /\ i \in 1..(n + m) /\ ~ (i <= n)
        BY <1>1
      <4> QED BY <1>2, <1>3, <1>6, <4>1 DEF Where
    <3> QED BY <3>1, <3>2, <3>3
  <2>2. Where(s, P) \cap ((n + 1)..(n + m)) = {}
    BY <1>1 DEF Where
  <2>3. IsFiniteSet((n + 1)..(n + m)) /\ Cardinality((n + 1)..(n + m)) = m
    <3>1. n + 1 \in Int /\ n + m \in Int
      BY <1>1
    <3>2. /\ IsFiniteSet((n + 1)..(n + m))
          /\ Cardinality((n + 1)..(n + m)) = IF n + 1 > n + m THEN 0 ELSE (n + m) - (n + 1) + 1
      BY <3>1, FS_Interval
    <3> QED BY <1>1, <3>2
  <2>4. Cardinality(Where(u, P)) = Cardinality(Where(s, P)) + m - Cardinality({})
    BY <1>4, <2>1, <2>2, <2>3, FS_Union
  <2> QED BY <1>1, <1>4, <1>6, <2>4, FS_EmptySet DEF u, m
<1>7. CASE \A i \in 1..m : t[i] \notin P
  <2>1. Where(u, P) = Where(s, P)
    <3>1. ASSUME NEW i \in Where(u, P) PROVE i \in Where(s, P)
      <4>1. CASE i <= n
        BY <1>1, <1>2, <1>3, <4>1 DEF Where
      <4>2. CASE ~ (i <= n)
        <5>1. i \in 1..(n + m) /\ i - n \in 1..m
          BY <1>1, <1>3, <4>2 DEF Where
        <5> QED BY <1>2, <1>7, <4>2, <5>1 DEF Where
      <4> QED BY <4>1, <4>2
    <3>2. ASSUME NEW i \in Where(s, P) PROVE i \in Where(u, P)
      BY <1>1, <1>2, <1>3 DEF Where
    <3> QED BY <3>1, <3>2
  <2>2. (IF \A i \in 1..m : t[i] \in P THEN m ELSE 0) = 0
    BY <1>5, <1>7
  <2> QED BY <1>4, <2>1, <2>2 DEF u, m
<1> QED BY <1>6, <1>7 DEF m

\* Replacing an element by one that is in the set if and only if the old one is.
LEMMA WhereExcept ==
  ASSUME NEW S, NEW s \in Seq(S), NEW P, NEW t \in Seq(S), Len(t) = Len(s),
         \A i \in 1..Len(s) : t[i] \in P <=> s[i] \in P
  PROVE  Where(t, P) = Where(s, P)
BY LenProperties DEF Where

LEMMA WhereTail ==
  ASSUME NEW S, NEW s \in Seq(S), s # << >>, NEW P
  PROVE  Cardinality(Where(s, P)) =
           Cardinality(Where(Tail(s), P)) + (IF Head(s) \in P THEN 1 ELSE 0)
<1> DEFINE n == Len(s)
           t == Tail(s)
           f == [i \in Where(t, P) |-> i + 1]
<1>1. n \in Nat \ {0} /\ DOMAIN s = 1..n /\ t \in Seq(S)
  BY LenProperties, EmptySeq, HeadTailProperties
<1>2. Len(t) = n - 1 /\ \A i \in 1..(n - 1) : t[i] = s[i + 1]
  BY HeadTailProperties
<1>3. DOMAIN t = 1..(n - 1)
  BY <1>1, <1>2, LenProperties
<1>4. Head(s) = s[1]
  BY <1>1
<1> HIDE DEF n, t
<1>5. f \in Bijection(Where(t, P), Where(s, P) \ {1})
  <2>1. f \in [Where(t, P) -> Where(s, P) \ {1}]
    BY <1>1, <1>2, <1>3 DEF Where
  <2>2. \A a, b \in Where(t, P) : f[a] = f[b] => a = b
    BY <1>3 DEF Where
  <2>3. \A j \in Where(s, P) \ {1} : \E i \in Where(t, P) : f[i] = j
    <3> SUFFICES ASSUME NEW j \in Where(s, P) \ {1}
                 PROVE  \E i \in Where(t, P) : f[i] = j
      OBVIOUS
    <3>1. j - 1 \in Where(t, P)
      BY <1>1, <1>2, <1>3 DEF Where
    <3>2. f[j - 1] = j
      BY <1>1, <3>1 DEF Where
    <3> QED BY <3>1, <3>2
  <2> HIDE DEF f
  <2> QED BY <2>1, <2>2, <2>3 DEF Bijection, Injection, Surjection, IsInjective
<1>6. IsFiniteSet(Where(t, P)) /\ IsFiniteSet(Where(s, P))
  BY <1>1, WhereFinite
<1>7. Cardinality(Where(s, P) \ {1}) = Cardinality(Where(t, P))
  BY <1>5, <1>6, FS_Bijection DEF ExistsBijection
<1>8. Cardinality(Where(s, P) \ {1}) =
        IF 1 \in Where(s, P) THEN Cardinality(Where(s, P)) - 1 ELSE Cardinality(Where(s, P))
  BY <1>6, FS_RemoveElement
<1>9. 1 \in Where(s, P) <=> Head(s) \in P
  BY <1>1, <1>4 DEF Where
<1>10. Cardinality(Where(s, P)) \in Nat /\ Cardinality(Where(t, P)) \in Nat
  BY <1>1, WhereFinite
<1> QED BY <1>7, <1>8, <1>9, <1>10 DEF t

-----------------------------------------------------------------------------
(* The elements of a sequence.                                             *)

LEMMA ElementsAppend ==
  ASSUME NEW S, NEW s \in Seq(S), NEW e \in S
  PROVE  ToSet(Append(s, e)) = ToSet(s) \cup {e}
<1> DEFINE n == Len(s)
           t == Append(s, e)
<1>1. n \in Nat /\ DOMAIN s = 1..n /\ t \in Seq(S) /\ Len(t) = n + 1
  BY LenProperties, AppendProperties
<1>2. (\A i \in 1..n : t[i] = s[i]) /\ t[n + 1] = e /\ DOMAIN t = 1..(n + 1)
  BY <1>1, LenProperties, AppendProperties
<1> HIDE DEF n, t
<1>3. ToSet(t) = ToSet(s) \cup {e}
  BY <1>1, <1>2 DEF ToSet
<1> QED BY <1>3 DEF t

LEMMA ElementsConcat ==
  ASSUME NEW S, NEW s \in Seq(S), NEW t \in Seq(S)
  PROVE  ToSet(s \o t) = ToSet(s) \cup ToSet(t)
<1> DEFINE n == Len(s)
           m == Len(t)
           u == s \o t
<1>1. n \in Nat /\ DOMAIN s = 1..n /\ m \in Nat /\ DOMAIN t = 1..m /\ u \in Seq(S)
  BY LenProperties, ConcatProperties
<1>2. Len(u) = n + m /\ (\A i \in 1..(n + m) : u[i] = IF i <= n THEN s[i] ELSE t[i - n])
  BY ConcatProperties
<1>3. DOMAIN u = 1..(n + m)
  BY <1>1, <1>2, LenProperties
<1> HIDE DEF n, m, u
<1>4. ASSUME NEW i \in 1..(n + m) PROVE u[i] \in ToSet(s) \cup ToSet(t)
  <2>1. CASE i <= n
    <3>1. i \in DOMAIN s /\ u[i] = s[i]
      BY <1>1, <1>2, <2>1
    <3> QED BY <3>1 DEF ToSet
  <2>2. CASE ~ (i <= n)
    <3>1. i - n \in DOMAIN t /\ u[i] = t[i - n]
      BY <1>1, <1>2, <2>2
    <3> QED BY <3>1 DEF ToSet
  <2> QED BY <2>1, <2>2
<1>5. ToSet(s) \subseteq ToSet(u)
  BY <1>1, <1>2, <1>3 DEF ToSet
<1>6. ASSUME NEW i \in 1..m PROVE t[i] \in ToSet(u)
  <2>1. i + n \in 1..(n + m) /\ ~ (i + n <= n) /\ (i + n) - n = i
    BY <1>1
  <2> QED BY <1>2, <1>3, <2>1 DEF ToSet
<1>7. ToSet(t) \subseteq ToSet(u)
  BY <1>1, <1>6 DEF ToSet
<1>8. ToSet(u) \subseteq ToSet(s) \cup ToSet(t)
  BY <1>3, <1>4 DEF ToSet
<1> QED BY <1>5, <1>7, <1>8 DEF u

LEMMA ElementsTail ==
  ASSUME NEW S, NEW s \in Seq(S), s # << >>
  PROVE  /\ ToSet(s) = ToSet(Tail(s)) \cup {Head(s)}
         /\ Head(s) = s[1] /\ Head(s) \in S /\ 1 \in DOMAIN s
<1> DEFINE n == Len(s)
           t == Tail(s)
<1>1. n \in Nat \ {0} /\ DOMAIN s = 1..n /\ t \in Seq(S)
  BY LenProperties, EmptySeq, HeadTailProperties
<1>2. Len(t) = n - 1 /\ (\A i \in 1..(n - 1) : t[i] = s[i + 1]) /\ Head(s) \in S
  BY HeadTailProperties
<1>3. DOMAIN t = 1..(n - 1)
  BY <1>1, <1>2, LenProperties
<1>4. Head(s) = s[1]
  BY <1>1
<1> HIDE DEF n, t
<1>5. ToSet(t) \subseteq ToSet(s)
  BY <1>1, <1>2, <1>3 DEF ToSet
<1>6. ASSUME NEW i \in 1..n PROVE s[i] \in ToSet(t) \cup {Head(s)}
  <2>1. CASE i = 1
    BY <1>4, <2>1
  <2>2. CASE i # 1
    <3>1. i - 1 \in 1..(n - 1) /\ (i - 1) + 1 = i
      BY <1>1, <2>2
    <3> QED BY <1>2, <1>3, <3>1 DEF ToSet
  <2> QED BY <2>1, <2>2
<1>7. s[1] \in ToSet(s) /\ 1 \in DOMAIN s
  BY <1>1 DEF ToSet
<1> QED BY <1>1, <1>2, <1>4, <1>5, <1>6, <1>7 DEF t, ToSet

LEMMA ElementsType ==
  ASSUME NEW S, NEW s \in Seq(S)
  PROVE  ToSet(s) \subseteq S /\ (ToSet(s) = {} <=> s = << >>)
<1>1. Len(s) \in Nat /\ DOMAIN s = 1..Len(s) /\ \A i \in 1..Len(s) : s[i] \in S
  BY LenProperties, ElementOfSeq
<1>2. s # << >> => Len(s) \in Nat \ {0}
  BY EmptySeq
<1>3. s # << >> => 1 \in DOMAIN s
  BY <1>1, <1>2
<1>4. s = << >> => DOMAIN s = {}
  OBVIOUS
<1> QED BY <1>1, <1>3, <1>4 DEF ToSet

-----------------------------------------------------------------------------
(* Remainders.                                                             *)

\* What a quotient and a remainder are.
LEMMA Divided ==
  ASSUME NEW d \in Nat \ {0}, NEW q \in Int, NEW t \in 0 .. d - 1, NEW n \in Int, n = d * q + t
  PROVE  n \div d = q /\ n % d = t
OBVIOUS

LEMMA Parts ==
  ASSUME NEW d \in Nat \ {0}, NEW n \in Int
  PROVE  n = d * (n \div d) + (n % d) /\ n \div d \in Int /\ n % d \in 0 .. d - 1
OBVIOUS

LEMMA SameRemainder ==
  ASSUME NEW d \in Nat \ {0}, NEW x \in Int, NEW y \in Int, x % d = y % d, x - y < d, y - x < d
  PROVE  x = y
<1> DEFINE q == x \div d
           p == y \div d
           t == x % d
<1>1. x = d * q + t /\ y = d * p + t /\ q \in Int /\ p \in Int /\ t \in 0 .. d - 1
  BY Parts
<1> HIDE DEF q, p, t
<1>2. d * (q - p) < d /\ d * (p - q) < d
  BY <1>1
<1>3. q - p < 1 /\ p - q < 1
  BY <1>1, <1>2
<1> QED
  BY <1>1, <1>3

\* The remainder of a sum, of which one part was a remainder before.
LEMMA SumOfRemainder ==
  ASSUME NEW d \in Nat \ {0}, NEW x \in Int, NEW y \in Int
  PROVE  ((x % d) + y) % d = (x + y) % d /\ (x + y) % d \in 0 .. d - 1
<1> DEFINE q == x \div d
           t == x % d
           p == (t + y) \div d
           u == (t + y) % d
           k == q + p
<1>1. x = d * q + t /\ q \in Int /\ t \in 0 .. d - 1
  BY Parts
<1> HIDE DEF q, t
<1>2. t + y = d * p + u /\ p \in Int /\ u \in 0 .. d - 1
  BY <1>1, Parts
<1> HIDE DEF p, u
<1>3. x + y = d * k + u /\ k \in Int
  <2>1. d * (q + p) = d * q + d * p
    BY <1>1, <1>2
  <2> QED
    BY <1>1, <1>2, <2>1
<1> HIDE DEF k
<1>4. (x + y) % d = u
  <2> DEFINE z == x + y
  <2>1. z \in Int /\ z = d * k + u /\ u \in 0 .. d - 1 /\ k \in Int
    BY <1>2, <1>3
  <2> HIDE DEF z
  <2>2. z % d = u
    BY <2>1, Divided
  <2> QED
    BY <2>2 DEF z
<1> QED
  BY <1>2, <1>4 DEF u, t

LEMMA SmallRemainder ==
  ASSUME NEW d \in Nat \ {0}, NEW x \in 0 .. d - 1
  PROVE  x % d = x
<1>1. x = d * 0 + x
  OBVIOUS
<1> QED
  BY <1>1, Divided
=============================================================================
