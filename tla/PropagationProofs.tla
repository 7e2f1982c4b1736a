------------------------- MODULE PropagationProofs -------------------------
(***************************************************************************)
(* Lemmas about the operators of Topology and Propagation.                 *)
(*                                                                         *)
(* What a recursive function or a fold computes is shown by induction. The *)
(* induction is carried by sets: a set of naturals that is not empty has a *)
(* least element (Least), so a counterexample would have a first one.      *)
(***************************************************************************)
EXTENDS Propagation, FiniteSetTheorems, TLAPS

-----------------------------------------------------------------------------
(* Numbers *)

\* A set of naturals that is not empty has a least element.
LEMMA Least ==
  ASSUME NEW T \in SUBSET Nat, T # {}
  PROVE  \E n \in T : \A m \in T : n <= m
<1> DEFINE R == {ss \in Nat \X Nat : ss[1] < ss[2]}
<1>1. IsWellFoundedOn(R, Nat)
  BY NatLessThanWellFounded DEF OpToRel
<1>2. \A m, n \in Nat : <<m, n>> \in R <=> m < n
  OBVIOUS
<1> HIDE DEF R
<1>3. PICK x \in T : \A y \in T : ~ (<<y, x>> \in R)
  BY <1>1, WFMin
<1>4. \A y \in T : x <= y
  <2> TAKE y \in T
  <2>1. ~(y < x)
    BY <1>2, <1>3
  <2> QED BY <2>1
<1> QED BY <1>4

\* Induction: a set that holds 0, and n + 1 if it holds n, holds every natural
\* number up to a bound.
LEMMA UpTo ==
  ASSUME NEW S, NEW k \in Nat, 0 \in S, \A n \in 0..(k - 1) : n \in S => n + 1 \in S
  PROVE  \A n \in 0..k : n \in S
<1> SUFFICES ASSUME NEW z \in 0..k, z \notin S PROVE FALSE
  OBVIOUS
<1> DEFINE T == {n \in 0..k : n \notin S}
<1>1. T \in SUBSET Nat /\ T # {}
  OBVIOUS
<1>2. PICK n \in T : \A m \in T : n <= m
  BY <1>1, Least
<1>3. n # 0 /\ n \in 0..k /\ n \notin S
  BY <1>2
<1>4. PICK m \in 0..(k - 1) : m = n - 1
  BY <1>3
<1>5. m \in S
  BY <1>2, <1>3, <1>4
<1>6. m + 1 = n
  BY <1>3, <1>4
<1> QED BY <1>3, <1>5, <1>6

\* A finite set of naturals that is not empty has a greatest element.
LEMMA Greatest ==
  ASSUME NEW T \in SUBSET Nat, IsFiniteSet(T), T # {}
  PROVE  \E n \in T : \A m \in T : m <= n
<1> DEFINE Good(n) == \A U \in SUBSET Nat :
                        IsFiniteSet(U) /\ U # {} /\ Cardinality(U) = n
                          => \E x \in U : \A m \in U : m <= x
           S == {n \in Nat : Good(n)}
<1> DEFINE k == Cardinality(T)
<1>1. k \in Nat
  BY FS_CardinalityType
<1>2. 0 \in S
  <2>1. Good(0)
    BY FS_EmptySet
  <2> QED BY <2>1
<1>3. ASSUME NEW n \in 0..(k - 1), n \in S PROVE n + 1 \in S
  <2> SUFFICES ASSUME NEW U \in SUBSET Nat, IsFiniteSet(U), U # {}, Cardinality(U) = n + 1
               PROVE  \E x \in U : \A m \in U : m <= x
    BY <1>1
  <2>1. PICK y \in U : TRUE
    OBVIOUS
  <2> DEFINE V == U \ {y}
  <2>2. IsFiniteSet(V) /\ Cardinality(V) = n
    <3>1. IsFiniteSet(V) /\ Cardinality(V) = Cardinality(U) - 1
      BY FS_RemoveElement
    <3>2. (n + 1) - 1 = n
      BY <1>1
    <3> QED BY <3>1, <3>2
  <2>3. CASE V = {}
    BY <2>3
  <2>4. CASE V # {}
    <3>1. PICK x \in V : \A m \in V : m <= x
      BY <1>3, <2>2, <2>4
    <3>2. x \in Nat /\ y \in Nat
      OBVIOUS
    <3>3. CASE x <= y
      <4>1. \A m \in U : m <= y
        BY <3>1, <3>2, <3>3
      <4> QED BY <4>1
    <3>4. CASE ~(x <= y)
      <4>1. \A m \in U : m <= x
        BY <3>1, <3>2, <3>4
      <4> QED BY <4>1
    <3> QED BY <3>3, <3>4
  <2> QED BY <2>3, <2>4
<1> HIDE DEF S
<1>4. k \in S
  BY <1>1, <1>2, <1>3, UpTo
<1> QED BY <1>4 DEF S

\* Max and Min find the ends of a set.
LEMMA MaxFacts ==
  ASSUME NEW T \in SUBSET Nat, IsFiniteSet(T), T # {}
  PROVE  Max(T) \in T /\ \A m \in T : m <= Max(T)
<1>1. \E n \in T : \A m \in T : n >= m
  BY Greatest
<1> QED BY <1>1 DEF Max

LEMMA MinFacts ==
  ASSUME NEW T \in SUBSET Nat, T # {}
  PROVE  Min(T) \in T /\ \A m \in T : Min(T) <= m
<1>1. \E n \in T : \A m \in T : n <= m
  BY Least
<1> QED BY <1>1 DEF Min

\* The greatest number of an interval.
LEMMA MaxInterval ==
  ASSUME NEW m \in Nat \ {0}
  PROVE  Max(1..m) = m /\ (1..m) \ {m} = 1..(m - 1) /\ 1..m # {}
<1>1. 1..m \in SUBSET Nat /\ IsFiniteSet(1..m) /\ m \in 1..m
  BY FS_Interval
<1>2. Max(1..m) \in 1..m /\ \A n \in 1..m : n <= Max(1..m)
  BY <1>1, MaxFacts
<1>3. Max(1..m) = m
  BY <1>1, <1>2
<1> QED BY <1>1, <1>3

-----------------------------------------------------------------------------
(* Recursive functions and folds *)

\* f is defined by recursion over 0..k.
Recurs(k, base, F, f) == f[0] = base /\ \A n \in 1..k : f[n] = F[<<n, f[n - 1]>>]

\* f is defined by recursion over the sets of places up to k.
Folds(k, base, F, f) ==
  /\ f[{}] = base
  /\ \A S \in SUBSET (1..k) : S # {} => f[S] = F[<<Max(S), f[S \ {Max(S)}]>>]

\* A recursive function on 0..k exists and has the type of its values.
LEMMA Recursion ==
  ASSUME NEW k \in Nat, NEW A, NEW base \in A, NEW F \in [(1..k) \X A -> A]
  PROVE  \E f \in [0..k -> A] : Recurs(k, base, F, f)
<1> DEFINE Good(n) == \E f \in [0..n -> A] :
                        f[0] = base /\ \A m \in 1..n : f[m] = F[<<m, f[m - 1]>>]
           S == {n \in Nat : Good(n)}
<1>1. 0 \in S
  <2> DEFINE h == [n \in 0..0 |-> base]
  <2>1. h \in [0..0 -> A] /\ h[0] = base /\ 1..0 = {}
    OBVIOUS
  <2> HIDE DEF h
  <2>2. Good(0)
    BY <2>1
  <2> QED BY <2>2
<1>2. ASSUME NEW n \in 0..(k - 1), n \in S PROVE n + 1 \in S
  <2>1. PICK f \in [0..n -> A] :
          f[0] = base /\ \A m \in 1..n : f[m] = F[<<m, f[m - 1]>>]
    BY <1>2
  <2> DEFINE x == F[<<n + 1, f[n]>>]
             h == [m \in 0..(n + 1) |-> IF m = n + 1 THEN x ELSE f[m]]
  <2>2. n \in Nat /\ n \in 0..n /\ n + 1 \in 1..k
    OBVIOUS
  <2>3. x \in A
    BY <2>1, <2>2
  <2> HIDE DEF x
  <2>4. h \in [0..(n + 1) -> A]
    BY <2>1, <2>2, <2>3
  <2>5. h[0] = base
    BY <2>1, <2>2
  <2>6. \A m \in 1..(n + 1) : h[m] = F[<<m, h[m - 1]>>]
    <3> TAKE m \in 1..(n + 1)
    <3>1. m - 1 \in 0..(n + 1) /\ m - 1 # n + 1 /\ m \in 0..(n + 1)
      BY <2>2
    <3>2. h[m - 1] = f[m - 1]
      BY <3>1
    <3>3. CASE m = n + 1
      <4>1. h[m] = x /\ h[m - 1] = f[n]
        BY <2>2, <3>2, <3>3
      <4> QED BY <3>3, <4>1 DEF x
    <3>4. CASE m # n + 1
      <4>1. m \in 1..n
        BY <2>2, <3>4
      <4>2. h[m] = f[m]
        BY <3>1, <3>4
      <4> QED BY <2>1, <3>2, <4>1, <4>2
    <3> QED BY <3>3, <3>4
  <2> HIDE DEF h
  <2>7. Good(n + 1)
    BY <2>4, <2>5, <2>6
  <2> QED BY <2>2, <2>7
<1> HIDE DEF S
<1>3. k \in S
  BY <1>1, <1>2, UpTo
<1> QED BY <1>3 DEF S, Recurs

\* The function over the sets of places that FoldLeft is defined with exists.
LEMMA FoldExists ==
  ASSUME NEW k \in Nat, NEW A, NEW base \in A, NEW F \in [(1..k) \X A -> A]
  PROVE  \E f \in [SUBSET (1..k) -> A] : Folds(k, base, F, f)
<1> DEFINE Rec(f, S) == f[S] = F[<<Max(S), f[S \ {Max(S)}]>>]
           Good(n) == \E f \in [SUBSET (1..n) -> A] :
                        f[{}] = base /\ \A S \in SUBSET (1..n) : S # {} => Rec(f, S)
           G == {n \in Nat : Good(n)}
<1>1. 0 \in G
  <2> DEFINE Z == 1..0
             h == [S \in SUBSET Z |-> base]
  <2>1. Z = {}
    OBVIOUS
  <2> HIDE DEF Z
  <2>2. h \in [SUBSET Z -> A] /\ h[{}] = base /\ \A S \in SUBSET Z : S = {}
    BY <2>1
  <2> HIDE DEF h
  <2>3. Good(0)
    BY <2>2 DEF Z
  <2> QED BY <2>3
<1>2. ASSUME NEW n \in 0..(k - 1), n \in G PROVE n + 1 \in G
  <2>1. PICK f \in [SUBSET (1..n) -> A] :
          f[{}] = base /\ \A S \in SUBSET (1..n) : S # {} => Rec(f, S)
    BY <1>2
  <2> DEFINE l == n + 1
             h == [S \in SUBSET (1..l) |-> IF l \in S THEN F[<<l, f[S \ {l}]>>] ELSE f[S]]
  <2>2. n \in Nat /\ l \in 1..k /\ l \in Nat \ {0} /\ l \notin 1..n /\ (1..l) \ {l} = 1..n
    OBVIOUS
  <2> HIDE DEF l
  <2>3. \A S \in SUBSET (1..l) : S \ {l} \in SUBSET (1..n) /\ (l \notin S => S \in SUBSET (1..n))
    BY <2>2
  <2>4. h \in [SUBSET (1..l) -> A]
    <3>1. \A S \in SUBSET (1..l) : f[S \ {l}] \in A /\ (l \notin S => f[S] \in A)
      BY <2>1, <2>3
    <3> QED BY <2>2, <3>1
  <2>5. h[{}] = base
    BY <2>1
  <2>6. \A S \in SUBSET (1..n) : S \in SUBSET (1..l) /\ h[S] = f[S]
    BY <2>2
  <2>7. ASSUME NEW S \in SUBSET (1..l), S # {} PROVE Rec(h, S)
    <3>1. S \in SUBSET Nat /\ IsFiniteSet(S)
      <4>1. IsFiniteSet(1..l) /\ 1..l \subseteq Nat
        BY <2>2, FS_Interval
      <4> QED BY <4>1, FS_Subset
    <3>2. Max(S) \in S /\ \A m \in S : m <= Max(S)
      BY <2>7, <3>1, MaxFacts
    <3>3. CASE l \in S
      <4>1. Max(S) = l
        <5>1. Max(S) \in 1..l /\ l <= Max(S) /\ l \in Nat
          BY <2>2, <3>2, <3>3
        <5> QED BY <5>1
      <4>2. h[S \ {l}] = f[S \ {l}]
        BY <2>3, <2>6
      <4>3. h[S] = F[<<l, f[S \ {l}]>>]
        BY <3>3
      <4> HIDE DEF h
      <4> QED BY <4>1, <4>2, <4>3
    <3>4. CASE l \notin S
      <4>1. S \in SUBSET (1..n) /\ S \ {Max(S)} \in SUBSET (1..n)
        BY <2>3, <3>4
      <4>2. h[S] = f[S] /\ h[S \ {Max(S)}] = f[S \ {Max(S)}]
        BY <2>6, <4>1
      <4>3. Rec(f, S)
        BY <2>1, <2>7, <4>1
      <4> HIDE DEF h
      <4> QED BY <4>2, <4>3
    <3> QED BY <3>3, <3>4
  <2> HIDE DEF h, Rec
  <2>8. Good(l)
    BY <2>4, <2>5, <2>7
  <2> QED BY <2>2, <2>8 DEF l
<1> HIDE DEF G, Rec
<1>3. k \in G
  BY <1>1, <1>2, UpTo
<1> QED BY <1>3 DEF G, Rec, Folds

-----------------------------------------------------------------------------
(* Finite sets and their order *)

\* The image of a finite set under a function.
LEMMA ImageFinite ==
  ASSUME NEW S, IsFiniteSet(S), NEW T, NEW f \in [S -> T]
  PROVE  LET I == {f[x] : x \in S}
         IN  IsFiniteSet(I) /\ Cardinality(I) <= Cardinality(S)
<1> DEFINE I == {f[x] : x \in S}
<1>1. f \in Surjection(S, I)
  BY DEF Surjection
<1> HIDE DEF I
<1>2. IsFiniteSet(I) /\ Cardinality(I) <= Cardinality(S)
  BY <1>1, FS_Surjection
<1> QED BY <1>2 DEF I

\* In a finite set that R orders strictly and totally, every number of elements
\* that can come before another is the number that come before one of them, and
\* of two elements the one with fewer before it comes first.
LEMMA Ranks ==
  ASSUME NEW S, IsFiniteSet(S), NEW R,
         \A x \in S : <<x, x>> \notin R,
         \A x, y \in S : x # y => <<x, y>> \in R \/ <<y, x>> \in R,
         \A x, y, z \in S : <<x, y>> \in R /\ <<y, z>> \in R => <<x, z>> \in R
  PROVE  LET rank(x) == Cardinality({y \in S : <<y, x>> \in R})
         IN  /\ \A i \in 1..Cardinality(S) : \E x \in S : rank(x) = i - 1
             /\ \A x, y \in S : rank(x) < rank(y) <=> <<x, y>> \in R
             /\ \A x \in S : rank(x) \in 0..(Cardinality(S) - 1)
<1> DEFINE below(x) == {y \in S : <<y, x>> \in R}
           n == Cardinality(S)
           f == [x \in S |-> Cardinality(below(x))]
<1>1. n \in Nat
  BY FS_CardinalityType
<1>2. \A x \in S : IsFiniteSet(below(x)) /\ Cardinality(below(x)) \in Nat
  <2> TAKE x \in S
  <2>1. below(x) \in SUBSET S
    OBVIOUS
  <2> HIDE DEF below
  <2> QED BY <2>1, FS_Subset, FS_CardinalityType
<1>3. \A x \in S : Cardinality(below(x)) < n
  <2> TAKE x \in S
  <2>1. below(x) \in SUBSET S /\ x \notin below(x)
    OBVIOUS
  <2> HIDE DEF below
  <2>2. Cardinality(below(x)) <= n /\ n # Cardinality(below(x))
    BY <2>1, FS_Subset
  <2> QED BY <1>1, <1>2, <2>2
<1>4. \A x, y \in S : <<x, y>> \in R => Cardinality(below(x)) < Cardinality(below(y))
  <2> SUFFICES ASSUME NEW x \in S, NEW y \in S, <<x, y>> \in R
               PROVE  Cardinality(below(x)) < Cardinality(below(y))
    OBVIOUS
  <2>1. below(x) \in SUBSET below(y) /\ x \in below(y) /\ x \notin below(x)
    OBVIOUS
  <2>2. IsFiniteSet(below(y))
    BY <1>2
  <2> HIDE DEF below
  <2>3. /\ Cardinality(below(x)) <= Cardinality(below(y))
        /\ Cardinality(below(y)) # Cardinality(below(x))
    BY <2>1, <2>2, FS_Subset
  <2> QED BY <1>2, <2>3
<1> HIDE DEF below
<1>5. f \in [S -> 0..(n - 1)]
  <2>1. \A x \in S : Cardinality(below(x)) \in 0..(n - 1)
    BY <1>1, <1>2, <1>3
  <2> QED BY <2>1
<1>6. ASSUME NEW x \in S, NEW y \in S, x # y PROVE f[x] # f[y]
  <2>1. f[x] = Cardinality(below(x)) /\ f[y] = Cardinality(below(y))
    OBVIOUS
  <2>2. <<x, y>> \in R \/ <<y, x>> \in R
    BY <1>6
  <2>3. \/ Cardinality(below(x)) < Cardinality(below(y))
        \/ Cardinality(below(y)) < Cardinality(below(x))
    <3>1. CASE <<x, y>> \in R
      BY <1>4, <3>1
    <3>2. CASE <<y, x>> \in R
      BY <1>4, <3>2
    <3> QED BY <2>2, <3>1, <3>2
  <2>4. Cardinality(below(x)) \in Nat /\ Cardinality(below(y)) \in Nat
    BY <1>2
  <2> QED BY <2>1, <2>3, <2>4
<1>7. f \in Injection(S, 0..(n - 1))
  BY <1>5, <1>6 DEF Injection, IsInjective
<1>8. IsFiniteSet(0..(n - 1)) /\ Cardinality(0..(n - 1)) = n
  <2>1. /\ IsFiniteSet(0..(n - 1))
        /\ Cardinality(0..(n - 1)) = IF 0 > n - 1 THEN 0 ELSE (n - 1) - 0 + 1
    BY <1>1, FS_Interval, SMTT(30)
  <2>2. n = 0 \/ ~(0 > n - 1)
    BY <1>1
  <2>3. (n - 1) - 0 + 1 = n /\ (n = 0 => 0 > n - 1)
    BY <1>1
  <2> QED BY <2>1, <2>2, <2>3
<1>9. f \in Surjection(S, 0..(n - 1))
  BY <1>7, <1>8, FS_Injection
<1>10. \A i \in 1..n : \E x \in S : Cardinality(below(x)) = i - 1
  <2> TAKE i \in 1..n
  <2>1. i - 1 \in 0..(n - 1)
    BY <1>1
  <2>2. PICK x \in S : f[x] = i - 1
    BY <1>9, <2>1 DEF Surjection
  <2> QED BY <2>2
<1>11. \A x, y \in S : Cardinality(below(x)) < Cardinality(below(y)) => <<x, y>> \in R
  <2> SUFFICES ASSUME NEW x \in S, NEW y \in S, <<x, y>> \notin R,
                      Cardinality(below(x)) < Cardinality(below(y))
               PROVE  FALSE
    OBVIOUS
  <2>1. CASE x = y
    BY <1>2, <2>1
  <2>2. CASE x # y
    <3>1. <<y, x>> \in R
      BY <2>2
    <3>2. Cardinality(below(y)) < Cardinality(below(x))
      BY <1>4, <3>1
    <3>3. PICK a \in Nat, b \in Nat : a = Cardinality(below(x)) /\ b = Cardinality(below(y))
      BY <1>2
    <3>4. a < b /\ b < a
      BY <3>2, <3>3
    <3> QED BY <3>4
  <2> QED BY <2>1, <2>2
<1>12. \A x \in S : Cardinality(below(x)) \in 0..(n - 1)
  BY <1>5
<1> QED BY <1>4, <1>10, <1>11, <1>12, ZenonT(30) DEF below

\* Listed by the number of elements before them, the elements of a set that R
\* orders are a sequence that R orders.
LEMMA ByRank ==
  ASSUME NEW S, IsFiniteSet(S), NEW R,
         \A x \in S : <<x, x>> \notin R,
         \A x, y \in S : x # y => <<x, y>> \in R \/ <<y, x>> \in R,
         \A x, y, z \in S : <<x, y>> \in R /\ <<y, z>> \in R => <<x, z>> \in R,
         NEW s \in [1..Cardinality(S) -> S],
         \A i \in 1..Cardinality(S) : Cardinality({y \in S : <<y, s[i]>> \in R}) = i - 1
  PROVE  /\ s \in Seq(S) /\ Len(s) = Cardinality(S) /\ DOMAIN s = 1..Cardinality(S)
         /\ \A x \in S : \E i \in DOMAIN s : s[i] = x
         /\ \A i, j \in DOMAIN s : i < j => <<s[i], s[j]>> \in R
<1> DEFINE n == Cardinality(S)
           rank(x) == Cardinality({y \in S : <<y, x>> \in R})
<1>1. n \in Nat
  BY FS_CardinalityType
<1>2. /\ \A i \in 1..n : \E x \in S : rank(x) = i - 1
      /\ \A x, y \in S : rank(x) < rank(y) <=> <<x, y>> \in R
      /\ \A x \in S : rank(x) \in 0..(n - 1)
  BY Ranks
<1>3. \A i \in 1..n : s[i] \in S /\ rank(s[i]) = i - 1
  OBVIOUS
<1> HIDE DEF rank
<1>4. s \in Seq(S) /\ Len(s) = n /\ DOMAIN s = 1..n
  BY <1>1, <1>3
<1>5. ASSUME NEW x \in S PROVE \E i \in 1..n : s[i] = x
  <2>1. PICK i \in 1..n : i - 1 = rank(x)
    <3>1. rank(x) \in 0..(n - 1)
      BY <1>2
    <3>2. rank(x) + 1 \in 1..n /\ (rank(x) + 1) - 1 = rank(x)
      BY <1>1, <3>1
    <3> QED BY <3>2
  <2>2. s[i] \in S /\ rank(s[i]) = rank(x)
    BY <1>3, <2>1
  <2>3. s[i] = x
    <3> SUFFICES ASSUME s[i] # x PROVE FALSE
      OBVIOUS
    <3>1. <<s[i], x>> \in R \/ <<x, s[i]>> \in R
      BY <2>2
    <3>2. rank(s[i]) < rank(x) \/ rank(x) < rank(s[i])
      BY <1>2, <2>2, <3>1
    <3>3. rank(x) \in Nat
      BY <1>2
    <3> QED BY <2>2, <3>2, <3>3
  <2> QED BY <2>3
<1>6. \A i, j \in 1..n : i < j => <<s[i], s[j]>> \in R
  <2> SUFFICES ASSUME NEW i \in 1..n, NEW j \in 1..n, i < j PROVE <<s[i], s[j]>> \in R
    OBVIOUS
  <2>1. rank(s[i]) < rank(s[j]) /\ s[i] \in S /\ s[j] \in S
    BY <1>1, <1>3
  <2> QED BY <1>2, <2>1
<1> QED BY <1>4, <1>5, <1>6

\* Sorted lists the elements of a set of naturals, ascending.
LEMMA SortedNumbers ==
  ASSUME NEW S \in SUBSET Nat, IsFiniteSet(S)
  PROVE  LET s == Sorted(S, <)
         IN  /\ s \in Seq(S) /\ Len(s) = Cardinality(S) /\ DOMAIN s = 1..Cardinality(S)
             /\ \A x \in S : \E i \in DOMAIN s : s[i] = x
             /\ \A i, j \in DOMAIN s : i < j => s[i] < s[j]
<1> DEFINE R == {p \in Nat \X Nat : p[1] < p[2]}
           n == Cardinality(S)
           s == [i \in 1..n |-> CHOOSE x \in S : Cardinality({y \in S : y < x}) = i - 1]
<1>1. /\ \A x \in S : <<x, x>> \notin R
      /\ \A x, y \in S : x # y => <<x, y>> \in R \/ <<y, x>> \in R
      /\ \A x, y, z \in S : <<x, y>> \in R /\ <<y, z>> \in R => <<x, z>> \in R
      /\ \A x, y \in S : <<x, y>> \in R => x < y
  OBVIOUS
<1>2. \A x \in S : {y \in S : <<y, x>> \in R} = {y \in S : y < x}
  OBVIOUS
<1> HIDE DEF R
<1>3. \A i \in 1..n : \E x \in S : Cardinality({y \in S : <<y, x>> \in R}) = i - 1
  BY <1>1, Ranks
<1>4. \A i \in 1..n : \E x \in S : Cardinality({y \in S : y < x}) = i - 1
  BY <1>2, <1>3
<1>5. \A i \in 1..n : s[i] \in S /\ Cardinality({y \in S : y < s[i]}) = i - 1
  BY <1>4
<1>6. s = Sorted(S, <)
  BY DEF Sorted
<1>10. s \in [1..n -> S]
  BY <1>5
<1> HIDE DEF s
<1>7. \A i \in 1..n : Cardinality({y \in S : <<y, s[i]>> \in R}) = i - 1
  BY <1>2, <1>5
<1>8. /\ s \in Seq(S) /\ Len(s) = n /\ DOMAIN s = 1..n
      /\ \A x \in S : \E i \in DOMAIN s : s[i] = x
      /\ \A i, j \in DOMAIN s : i < j => <<s[i], s[j]>> \in R
  BY <1>1, <1>7, <1>10, ByRank
<1>9. \A i \in DOMAIN s : s[i] \in S
  BY <1>10
<1> QED BY <1>1, <1>6, <1>8, <1>9

\* And a set of pairs, in the order of Before.
LEMMA SortedPairs ==
  ASSUME NEW S \in SUBSET (Nat \X Nat), IsFiniteSet(S)
  PROVE  LET s == Sorted(S, Before)
         IN  /\ s \in Seq(S) /\ Len(s) = Cardinality(S) /\ DOMAIN s = 1..Cardinality(S)
             /\ \A x \in S : \E i \in DOMAIN s : s[i] = x
<1> DEFINE P == Nat \X Nat
           R == {p \in P \X P : Before(p[1], p[2])}
           n == Cardinality(S)
           s == [i \in 1..n |-> CHOOSE x \in S : Cardinality({y \in S : Before(y, x)}) = i - 1]
<1>1. \A x, y \in P : <<x, y>> \in R <=> Before(x, y)
  OBVIOUS
<1>2. S \subseteq P
  OBVIOUS
<1>3. /\ \A x \in P : ~Before(x, x)
      /\ \A x, y \in P : x # y => Before(x, y) \/ Before(y, x)
      /\ \A x, y, z \in P : Before(x, y) /\ Before(y, z) => Before(x, z)
  <2>1. \A x \in P : ~Before(x, x)
    BY DEF Before
  <2>2. ASSUME NEW x \in P, NEW y \in P, x # y PROVE Before(x, y) \/ Before(y, x)
    <3>1. /\ x = <<x[1], x[2]>> /\ y = <<y[1], y[2]>>
          /\ x[1] \in Nat /\ x[2] \in Nat /\ y[1] \in Nat /\ y[2] \in Nat
      OBVIOUS
    <3>2. x[1] # y[1] \/ x[2] # y[2]
      BY <2>2, <3>1
    <3> QED BY <3>1, <3>2 DEF Before
  <2>3. ASSUME NEW x \in P, NEW y \in P, NEW z \in P, Before(x, y), Before(y, z)
        PROVE  Before(x, z)
    <3>1. /\ x[1] \in Nat /\ x[2] \in Nat /\ y[1] \in Nat /\ y[2] \in Nat
          /\ z[1] \in Nat /\ z[2] \in Nat
      OBVIOUS
    <3> QED BY <2>3, <3>1 DEF Before
  <2> QED BY <2>1, <2>2, <2>3
<1> HIDE DEF P, R
<1>4. /\ \A x \in S : <<x, x>> \notin R
      /\ \A x, y \in S : x # y => <<x, y>> \in R \/ <<y, x>> \in R
      /\ \A x, y, z \in S : <<x, y>> \in R /\ <<y, z>> \in R => <<x, z>> \in R
  <2>1. \A x \in S : x \in P
    BY <1>2
  <2> QED BY <1>1, <1>3, <2>1
<1>5. \A x \in S : {y \in S : <<y, x>> \in R} = {y \in S : Before(y, x)}
  BY <1>1, <1>2
<1>6. \A i \in 1..n : \E x \in S : Cardinality({y \in S : <<y, x>> \in R}) = i - 1
  BY <1>4, Ranks
<1>7. \A i \in 1..n : \E x \in S : Cardinality({y \in S : Before(y, x)}) = i - 1
  BY <1>5, <1>6
<1>8. \A i \in 1..n : s[i] \in S /\ Cardinality({y \in S : Before(y, s[i])}) = i - 1
  BY <1>7
<1>9. s = Sorted(S, Before)
  BY DEF Sorted
<1>12. s \in [1..n -> S]
  BY <1>8
<1> HIDE DEF s
<1>10. \A i \in 1..n : Cardinality({y \in S : <<y, s[i]>> \in R}) = i - 1
  BY <1>5, <1>8
<1>11. /\ s \in Seq(S) /\ Len(s) = n /\ DOMAIN s = 1..n
       /\ \A x \in S : \E i \in DOMAIN s : s[i] = x
       /\ \A i, j \in DOMAIN s : i < j => <<s[i], s[j]>> \in R
  BY <1>4, <1>10, <1>12, ByRank
<1> QED BY <1>9, <1>11

-----------------------------------------------------------------------------
(* Sequences *)

\* A sequence is a function on its places.
LEMMA Places ==
  ASSUME NEW E, NEW s \in Seq(E)
  PROVE  /\ Len(s) \in Nat /\ DOMAIN s = 1..Len(s)
         /\ \A i \in 1..Len(s) : s[i] \in E
OBVIOUS

\* The elements of a sequence.
LEMMA ElementsOf ==
  ASSUME NEW E, NEW s \in Seq(E)
  PROVE  /\ ToSet(s) \in SUBSET E
         /\ \A e \in ToSet(s) : \E i \in DOMAIN s : s[i] = e
         /\ \A i \in DOMAIN s : s[i] \in ToSet(s)
BY DEF ToSet

\* Concatenation keeps the elements of both.
LEMMA ConcatElements ==
  ASSUME NEW E, NEW s \in Seq(E), NEW u \in Seq(E)
  PROVE  s \o u \in Seq(E) /\ ToSet(s \o u) = ToSet(s) \cup ToSet(u)
<1> DEFINE c == s \o u
<1>1. /\ c \in Seq(E) /\ Len(c) = Len(s) + Len(u)
      /\ \A i \in 1..Len(s) : c[i] = s[i]
      /\ \A i \in 1..Len(u) : c[Len(s) + i] = u[i]
  OBVIOUS
<1>2. Len(s) \in Nat /\ Len(u) \in Nat
  OBVIOUS
<1>3. DOMAIN c = 1..Len(c) /\ DOMAIN s = 1..Len(s) /\ DOMAIN u = 1..Len(u)
  BY <1>1
<1> HIDE DEF c
<1>4. ASSUME NEW x \in ToSet(c) PROVE x \in ToSet(s) \cup ToSet(u)
  <2>1. PICK i \in 1..Len(c) : c[i] = x
    BY <1>3 DEF ToSet
  <2>2. CASE i \in 1..Len(s)
    BY <1>1, <1>3, <2>1, <2>2 DEF ToSet
  <2>3. CASE i \notin 1..Len(s)
    <3>1. PICK j \in 1..Len(u) : Len(s) + j = i
      <4>1. i - Len(s) \in 1..Len(u) /\ Len(s) + (i - Len(s)) = i
        BY <1>1, <1>2, <2>3
      <4> QED BY <4>1
    <3> QED BY <1>1, <1>3, <2>1, <3>1 DEF ToSet
  <2> QED BY <2>2, <2>3
<1>5. ASSUME NEW x \in ToSet(s) PROVE x \in ToSet(c)
  <2>1. PICK i \in 1..Len(s) : s[i] = x
    BY <1>3 DEF ToSet
  <2>2. i \in 1..Len(c)
    BY <1>1, <1>2
  <2> QED BY <1>1, <1>3, <2>1, <2>2 DEF ToSet
<1>6. ASSUME NEW x \in ToSet(u) PROVE x \in ToSet(c)
  <2>1. PICK i \in 1..Len(u) : u[i] = x
    BY <1>3 DEF ToSet
  <2>2. PICK j \in 1..Len(c) : j = Len(s) + i
    BY <1>1, <1>2
  <2> QED BY <1>1, <1>3, <2>1, <2>2 DEF ToSet
<1> QED BY <1>1, <1>4, <1>5, <1>6 DEF c

\* The sequences in A can be joined, and joining them keeps their elements.
Joins(A) == \A x, y \in A : x \o y \in A /\ ToSet(x \o y) = ToSet(x) \cup ToSet(y)

\* How FlattenSeq defines its result for the first i sequences.
FlattenRule(n, q, f) == f = [i \in 1..n |-> IF i = 1 THEN q[i] ELSE f[i - 1] \o q[i]]

\* The recursive function that FlattenSeq is defined with exists.
LEMMA FlattenExists ==
  ASSUME NEW n \in Nat \ {0}, NEW A, NEW q \in [1..n -> A], Joins(A)
  PROVE  \E f : FlattenRule(n, q, f)
<1>1. PICK k \in Nat : k + 1 = n
  <2>1. n - 1 \in Nat /\ (n - 1) + 1 = n
    OBVIOUS
  <2> QED BY <2>1
<1>2. PICK b \in A : b = q[1]
  OBVIOUS
<1> DEFINE F == [x \in (1..k) \X A |-> x[2] \o q[x[1] + 1]]
<1>3. F \in [(1..k) \X A -> A]
  <2>1. \A x \in (1..k) \X A : x[1] + 1 \in 1..n /\ x[2] \in A
    BY <1>1
  <2>2. \A x \in (1..k) \X A : x[2] \o q[x[1] + 1] \in A
    BY <2>1 DEF Joins
  <2> QED BY <2>2
<1>4. PICK f \in [0..k -> A] : f[0] = b /\ \A i \in 1..k : f[i] = F[<<i, f[i - 1]>>]
  <2> HIDE DEF F
  <2>1. \E f \in [0..k -> A] : Recurs(k, b, F, f)
    BY <1>3, Recursion
  <2> QED BY <2>1 DEF Recurs
<1> DEFINE h == [i \in 1..n |-> f[i - 1]]
<1>5. ASSUME NEW i \in 1..n PROVE h[i] = IF i = 1 THEN q[i] ELSE h[i - 1] \o q[i]
  <2>1. CASE i = 1
    <3>1. 0 \in 0..k /\ i - 1 = 0
      BY <1>1, <2>1
    <3> QED BY <1>2, <1>4, <2>1, <3>1
  <2>2. CASE i # 1
    <3>1. PICK j \in 1..k : j = i - 1
      BY <1>1, <2>2
    <3>2. j \in 0..k /\ j # 0 /\ j - 1 \in 0..k /\ j + 1 = i /\ j \in 1..n
      BY <1>1, <3>1
    <3>3. f[j] = F[<<j, f[j - 1]>>] /\ f[j - 1] \in A
      BY <1>4, <3>2
    <3>4. F[<<j, f[j - 1]>>] = f[j - 1] \o q[j + 1]
      BY <3>3
    <3>5. h[i] = f[j] /\ h[i - 1] = f[j - 1]
      BY <3>1, <3>2
    <3> QED BY <2>2, <3>2, <3>3, <3>4, <3>5
  <2> QED BY <2>1, <2>2
<1>6. FlattenRule(n, q, h)
  BY <1>5 DEF FlattenRule
<1> QED BY <1>6

\* And collects the elements.
LEMMA FlattenElements ==
  ASSUME NEW n \in Nat \ {0}, NEW A, NEW q \in [1..n -> A], Joins(A),
         NEW f, FlattenRule(n, q, f)
  PROVE  f[n] \in A /\ \A x : x \in ToSet(f[n]) <=> \E j \in 1..n : x \in ToSet(q[j])
<1> DEFINE Good(i) == /\ f[i] \in A
                      /\ \A x : x \in ToSet(f[i]) <=> \E j \in 1..i : x \in ToSet(q[j])
           S == {i \in Nat : Good(i + 1)}
<1>1. PICK k \in Nat : k + 1 = n
  <2>1. n - 1 \in Nat /\ (n - 1) + 1 = n
    OBVIOUS
  <2> QED BY <2>1
<1>2. f[1] = q[1]
  <2>1. 1 \in 1..n
    OBVIOUS
  <2> QED BY <2>1 DEF FlattenRule
<1>3. ASSUME NEW i \in 1..k PROVE f[i + 1] = f[i] \o q[i + 1]
  <2>1. i + 1 \in 1..n /\ i + 1 # 1 /\ (i + 1) - 1 = i
    BY <1>1
  <2> QED BY <2>1 DEF FlattenRule
<1>4. 0 \in S
  <2>1. 1..1 = {1} /\ 1 \in 1..n /\ 0 + 1 = 1
    OBVIOUS
  <2>2. Good(1)
    BY <1>2, <2>1
  <2> QED BY <2>1, <2>2
<1>5. ASSUME NEW i \in 0..(k - 1), i \in S PROVE i + 1 \in S
  <2> DEFINE m == i + 1
             l == m + 1
  <2>1. m \in 1..k /\ l \in 1..n /\ m \in Nat /\ 1..l = (1..m) \cup {l}
    BY <1>1
  <2>2. Good(m)
    BY <1>5
  <2> HIDE DEF m
  <2>3. f[l] = f[m] \o q[l]
    BY <1>3, <2>1
  <2> HIDE DEF l
  <2>4. f[l] \in A /\ ToSet(f[l]) = ToSet(f[m]) \cup ToSet(q[l])
    BY <2>1, <2>2, <2>3 DEF Joins
  <2>5. \A x : x \in ToSet(f[l]) <=> \E j \in 1..l : x \in ToSet(q[j])
    BY <2>1, <2>2, <2>4
  <2>6. Good(l)
    BY <2>4, <2>5
  <2> QED BY <2>1, <2>6 DEF l, m
<1> HIDE DEF S
<1>6. \A i \in 0..k : i \in S
  BY <1>4, <1>5, UpTo, Zenon
<1>7. k \in 0..k
  OBVIOUS
<1>8. Good(k + 1)
  BY <1>6, <1>7 DEF S
<1> QED BY <1>1, <1>8

\* FlattenSeq keeps the elements of the sequences it joins.
LEMMA Flattened ==
  ASSUME NEW E, NEW q \in Seq(Seq(E))
  PROVE  /\ FlattenSeq(q) \in Seq(E)
         /\ \A x : x \in ToSet(FlattenSeq(q)) <=> \E k \in DOMAIN q : x \in ToSet(q[k])
<1> DEFINE n == Len(q)
           A == Seq(E)
<1>1. n \in Nat /\ DOMAIN q = 1..n /\ q \in [1..n -> A]
  OBVIOUS
<1>2. CASE n = 0
  <2>1. q = <<>> /\ FlattenSeq(q) = <<>>
    BY <1>2 DEF FlattenSeq
  <2>2. DOMAIN q = {} /\ ToSet(<<>>) = {} /\ <<>> \in Seq(E)
    BY <2>1 DEF ToSet
  <2> QED BY <2>1, <2>2
<1>3. CASE n # 0
  <2> DEFINE flatten == CHOOSE f : FlattenRule(n, q, f)
  <2>1. FlattenSeq(q) = flatten[n]
    BY <1>3 DEF FlattenSeq, FlattenRule
  <2>2. Joins(A)
    BY ConcatElements DEF Joins
  <2>3. n \in Nat \ {0}
    BY <1>1, <1>3
  <2> HIDE DEF A, n
  <2>4. \E f : FlattenRule(n, q, f)
    BY <1>1, <2>2, <2>3, FlattenExists
  <2>5. FlattenRule(n, q, flatten)
    BY <2>4
  <2> HIDE DEF flatten
  <2>6. /\ flatten[n] \in A
        /\ \A x : x \in ToSet(flatten[n]) <=> \E j \in 1..n : x \in ToSet(q[j])
    BY <1>1, <2>2, <2>3, <2>5, FlattenElements, ZenonT(30)
  <2> QED BY <1>1, <2>1, <2>6 DEF A
<1> QED BY <1>2, <1>3

-----------------------------------------------------------------------------
(* The topology *)

\* The resources are finitely many naturals.
LEMMA ResourceIdsType ==
  ASSUME NEW t \in Snapshot(Nat, Nat)
  PROVE  ResourceIds(t) \in SUBSET Nat /\ IsFiniteSet(ResourceIds(t))
<1> DEFINE n == Len(t.resources)
           T == [id : Nat, parent : Nat, domain : Nat, depth : Nat]
           f == [i \in 1..n |-> t.resources[i].id]
<1>1. t.resources \in Seq(T)
  BY DEF Snapshot
<1>2. n \in Nat /\ DOMAIN t.resources = 1..n /\ \A i \in 1..n : t.resources[i] \in T
  <2> HIDE DEF T
  <2> QED BY <1>1, Places
<1>3. f \in [1..n -> Nat]
  BY <1>2
<1>4. ResourceIds(t) = {f[i] : i \in 1..n}
  BY <1>2 DEF ResourceIds
<1>5. IsFiniteSet(1..n)
  BY <1>2, FS_Interval
<1> HIDE DEF f, n
<1>6. IsFiniteSet({f[i] : i \in 1..n})
  BY <1>3, <1>5, ImageFinite
<1>7. {f[i] : i \in 1..n} \in SUBSET Nat
  BY <1>3
<1> QED BY <1>4, <1>6, <1>7

\* The first place of r on a sequence, as SelectInSeq defines it.
PlaceOf(s, r) == LET I == {i \in 1..Len(s) : s[i] = r} IN IF I # {} THEN Min(I) ELSE 0

LEMMA FirstPlace ==
  ASSUME NEW E, NEW s \in Seq(E), NEW r
  PROVE  LET at == PlaceOf(s, r)
         IN  at \in 0..Len(s) /\ (at # 0 => s[at] = r)
<1> DEFINE I == {i \in 1..Len(s) : s[i] = r}
           at == PlaceOf(s, r)
<1>1. at = IF I # {} THEN Min(I) ELSE 0
  BY DEF PlaceOf
<1>2. Len(s) \in Nat
  OBVIOUS
<1>3. I \in SUBSET Nat
  BY <1>2
<1>4. I # {} => Min(I) \in I
  <2> HIDE DEF I
  <2> QED BY <1>3, MinFacts
<1> HIDE DEF at
<1>5. at \in 0..Len(s) /\ (at # 0 => s[at] = r)
  <2>1. CASE I = {}
    BY <1>1, <1>2, <2>1
  <2>2. CASE I # {}
    BY <1>1, <1>2, <1>4, <2>2
  <2> QED BY <2>1, <2>2
<1> QED BY <1>5 DEF at

\* Pressure flows to finitely many places, and stays inside the topology.
LEMMA NeighbourSetType ==
  ASSUME NEW t \in Snapshot(Nat, Nat), ValidTopology(t), NEW r, NEW g
  PROVE  /\ NeighbourSet(t, r, g) \in SUBSET (ResourceIds(t) \X Nat)
         /\ IsFiniteSet(NeighbourSet(t, r, g))
<1> DEFINE n == Len(t.paths)
           T == [id : Nat, hops : Seq(Nat)]
           f == [i \in 1..n |-> t.paths[i].id]
           Ids == ResourceIds(t)
           Paths == {None} \cup {f[i] : i \in 1..n}
<1>1. t.paths \in Seq(T)
  BY DEF Snapshot
<1>2. n \in Nat /\ DOMAIN t.paths = 1..n /\ \A i \in 1..n : t.paths[i] \in T
  <2> HIDE DEF T
  <2> QED BY <1>1, Places
<1>3. f \in [1..n -> Nat] /\ \A i \in 1..n : f[i] = t.paths[i].id
  BY <1>2
<1>4. IsFiniteSet(1..n)
  BY <1>2, FS_Interval
<1>5. IsFiniteSet({f[i] : i \in 1..n})
  <2> HIDE DEF f, n
  <2> QED BY <1>3, <1>4, ImageFinite, ZenonT(30)
<1>6. IsFiniteSet(Paths) /\ Paths \in SUBSET Nat
  <2>1. {f[i] : i \in 1..n} \in SUBSET Nat
    BY <1>3
  <2> HIDE DEF f, n
  <2>2. IsFiniteSet({f[i] : i \in 1..n} \cup {None})
    BY <1>5, FS_AddElement
  <2>3. Paths = {f[i] : i \in 1..n} \cup {None} /\ None \in Nat
    BY DEF None
  <2> HIDE DEF Paths
  <2> QED BY <2>1, <2>2, <2>3
<1>7. IsFiniteSet(Ids \X Paths)
  <2> HIDE DEF Paths
  <2> QED BY <1>6, ResourceIdsType, FS_Product
<1>8. \A s \in Successors(t, r) : s \in Ids
  <2>1. \A j \in DOMAIN t.links : t.links[j].to \in Ids
    BY DEF ValidTopology
  <2> QED BY <2>1 DEF Successors
<1>9. ASSUME NEW i \in ResourcePaths(t, r), NEW x \in NextHop(t, r, i) PROVE x \in Ids \X Paths
  <2>1. i \in 1..n
    BY <1>2 DEF ResourcePaths
  <2> DEFINE hops == t.paths[i].hops
             at == SelectInSeq(hops, LAMBDA h : h = r)
  <2>2. hops \in Seq(Nat) /\ Len(hops) \in Nat
    BY <1>2, <2>1
  <2>3. ToSet(hops) \subseteq Ids
    BY <1>2, <2>1 DEF ValidTopology
  <2>4. at \in 0..Len(hops)
    <3> HIDE DEF hops
    <3>1. at = PlaceOf(hops, r)
      BY DEF SelectInSeq, PlaceOf
    <3> QED BY <2>2, <3>1, FirstPlace
  <2>5. NextHop(t, r, i) = IF at < Len(hops) THEN {<<hops[at + 1], t.paths[i].id>>} ELSE {}
    BY DEF NextHop
  <2> HIDE DEF at
  <2>6. at < Len(hops) /\ x = <<hops[at + 1], t.paths[i].id>>
    BY <1>9, <2>5
  <2>7. at + 1 \in 1..Len(hops)
    BY <2>2, <2>4, <2>6
  <2>8. hops[at + 1] \in Ids
    BY <2>2, <2>3, <2>7 DEF ToSet
  <2>9. t.paths[i].id \in Paths
    BY <1>3, <2>1
  <2> QED BY <2>6, <2>8, <2>9
<1>10. \A s \in Ids : <<s, None>> \in Ids \X Paths
  OBVIOUS
<1> HIDE DEF Ids, Paths
<1>11. NeighbourSet(t, r, g) \in SUBSET (Ids \X Paths)
  <2> SUFFICES ASSUME NEW x \in NeighbourSet(t, r, g) PROVE x \in Ids \X Paths
    OBVIOUS
  <2>1. \/ \E s \in Successors(t, r) : x = <<s, None>>
        \/ \E i \in ResourcePaths(t, r) : x \in NextHop(t, r, i)
    BY DEF NeighbourSet
  <2> QED BY <1>8, <1>9, <1>10, <2>1
<1>12. IsFiniteSet(NeighbourSet(t, r, g))
  BY <1>7, <1>11, FS_Subset
<1> QED BY <1>6, <1>11, <1>12 DEF Ids

\* A set has as many names as members exactly when no two share one.
LEMMA NamesDistinct ==
  ASSUME NEW D, IsFiniteSet(D), NEW f \in [D -> Nat]
  PROVE  LET I == {f[i] : i \in D}
         IN  /\ IsFiniteSet(I) /\ Cardinality(I) \in Nat
             /\ Cardinality(I) <= Cardinality(D)
             /\ Cardinality(I) = Cardinality(D) <=> \A i, j \in D : f[i] = f[j] => i = j
<1> DEFINE I == {f[i] : i \in D}
<1>1. f \in Surjection(D, I)
  BY DEF Surjection
<1> HIDE DEF I
<1>2. /\ IsFiniteSet(I) /\ Cardinality(I) <= Cardinality(D)
      /\ Cardinality(I) = Cardinality(D) <=> f \in Injection(D, I)
  BY <1>1, FS_Surjection
<1>3. f \in Injection(D, I) <=> \A i, j \in D : f[i] = f[j] => i = j
  BY <1>1 DEF Injection, IsInjective, Surjection
<1>4. Cardinality(I) \in Nat
  BY <1>2, FS_CardinalityType
<1> QED BY <1>2, <1>3, <1>4 DEF I

\* The places of a list are as many as it is long.
LEMMA PlacesCount ==
  ASSUME NEW n \in Nat
  PROVE  IsFiniteSet(1..n) /\ Cardinality(1..n) = n
<1>1. IsFiniteSet(1..n) /\ Cardinality(1..n) = IF 1 > n THEN 0 ELSE n - 1 + 1
  BY FS_Interval
<1> QED BY <1>1

\* What names a list of records, as a function on its places.
LEMMA IdsDistinct ==
  ASSUME NEW n \in Nat, NEW f \in [1..n -> Nat]
  PROVE  LET I == {f[i] : i \in 1..n}
         IN  /\ IsFiniteSet(I) /\ Cardinality(I) \in Nat /\ Cardinality(I) <= n
             /\ Cardinality(I) = n <=> \A i, j \in 1..n : f[i] = f[j] => i = j
<1>1. IsFiniteSet(1..n) /\ Cardinality(1..n) = n
  BY PlacesCount
<1> QED BY <1>1, NamesDistinct

\* The parts of a snapshot.
LEMMA SnapshotFacts ==
  ASSUME NEW t \in Snapshot(Nat, Nat)
  PROVE  /\ Len(t.resources) \in Nat /\ DOMAIN t.resources = 1..Len(t.resources)
         /\ \A i \in 1..Len(t.resources) : /\ t.resources[i].id \in Nat
                                           /\ t.resources[i].parent \in Nat
         /\ t.resources \in Seq([id : Nat, parent : Nat, domain : Nat, depth : Nat])
         /\ Len(t.links) \in Nat /\ DOMAIN t.links = 1..Len(t.links)
         /\ \A i \in 1..Len(t.links) : t.links[i].id \in Nat
         /\ Len(t.paths) \in Nat /\ DOMAIN t.paths = 1..Len(t.paths)
         /\ \A i \in 1..Len(t.paths) : t.paths[i].id \in Nat /\ t.paths[i].hops \in Seq(Nat)
<1> DEFINE T == [id : Nat, parent : Nat, domain : Nat, depth : Nat]
           U == [id : Nat, hops : Seq(Nat)]
           V == [id : Nat, from : Nat, to : Nat]
<1>1. t.resources \in Seq(T) /\ t.paths \in Seq(U) /\ t.links \in Seq(V)
  BY DEF Snapshot
<1>2. \A x \in T : x.id \in Nat /\ x.parent \in Nat
  OBVIOUS
<1>3. \A x \in U : x.id \in Nat /\ x.hops \in Seq(Nat)
  OBVIOUS
<1>6. \A x \in V : x.id \in Nat
  OBVIOUS
<1> HIDE DEF T, U, V
<1>4. /\ Len(t.resources) \in Nat /\ DOMAIN t.resources = 1..Len(t.resources)
      /\ \A i \in 1..Len(t.resources) : t.resources[i] \in T
  BY <1>1, Places
<1>5. /\ Len(t.paths) \in Nat /\ DOMAIN t.paths = 1..Len(t.paths)
      /\ \A i \in 1..Len(t.paths) : t.paths[i] \in U
  BY <1>1, Places
<1>7. /\ Len(t.links) \in Nat /\ DOMAIN t.links = 1..Len(t.links)
      /\ \A i \in 1..Len(t.links) : t.links[i] \in V
  BY <1>1, Places
<1> QED BY <1>1, <1>2, <1>3, <1>4, <1>5, <1>6, <1>7 DEF T

\* The record of a resource is one that names it.
LEMMA RecordFacts ==
  ASSUME NEW t \in Snapshot(Nat, Nat), NEW r \in ResourceIds(t)
  PROVE  /\ \E k \in DOMAIN t.resources : t.resources[k].id = r /\ Record(t, r) = t.resources[k]
         /\ Parent(t, r) \in Nat
<1> DEFINE I == {i \in 1..Len(t.resources) : t.resources[i].id = r}
<1>1. /\ Len(t.resources) \in Nat /\ DOMAIN t.resources = 1..Len(t.resources)
      /\ \A i \in 1..Len(t.resources) : t.resources[i].parent \in Nat
  BY SnapshotFacts
<1>2. I # {} /\ I \in SUBSET Nat
  BY <1>1 DEF ResourceIds
<1>3. Record(t, r) = t.resources[Min(I)]
  BY <1>2 DEF Record, SelectInSeq
<1>4. Min(I) \in I
  <2> HIDE DEF I
  <2> QED BY <1>2, MinFacts
<1>5. PICK k \in 1..Len(t.resources) : k = Min(I) /\ t.resources[k].id = r
  BY <1>4
<1>6. Record(t, r) = t.resources[k] /\ Parent(t, r) \in Nat
  BY <1>1, <1>3, <1>5 DEF Parent
<1> QED BY <1>1, <1>5, <1>6

\* The climb from a resource.
LEMMA CursorFacts ==
  ASSUME NEW t \in Snapshot(Nat, Nat), NEW r \in ResourceIds(t)
  PROVE  LET c == Cursor(t, r)
         IN  /\ c[0] = Parent(t, r)
             /\ \A n \in 1..MaxResourceDepth :
                  c[n] = IF c[n - 1] \in ResourceIds(t) THEN Parent(t, c[n - 1]) ELSE None
<1> DEFINE k == MaxResourceDepth
           up(x) == IF x \in ResourceIds(t) THEN Parent(t, x) ELSE None
           F == [x \in (1..k) \X Nat |-> up(x[2])]
           Rule(f) == f = [n \in 0..k |-> LET at == IF n = 0 THEN r ELSE f[n - 1] IN up(at)]
           c == CHOOSE f : Rule(f)
<1>1. k \in Nat
  BY TopologyAssumption
<1>2. c = Cursor(t, r)
  BY DEF Cursor
<1>3. \A x : up(x) \in Nat
  BY RecordFacts DEF None
<1>4. up(r) = Parent(t, r)
  OBVIOUS
<1> HIDE DEF k, up
<1>5. F \in [(1..k) \X Nat -> Nat]
  BY <1>3
<1>6. PICK f \in [0..k -> Nat] : Recurs(k, up(r), F, f)
  <2> HIDE DEF F
  <2> QED BY <1>1, <1>3, <1>5, Recursion
<1>7. f[0] = up(r) /\ \A n \in 1..k : f[n] = up(f[n - 1])
  <2>1. f[0] = up(r)
    BY <1>6 DEF Recurs
  <2>2. ASSUME NEW n \in 1..k PROVE f[n] = up(f[n - 1])
    <3>1. f[n] = F[<<n, f[n - 1]>>]
      BY <1>6 DEF Recurs
    <3>2. f[n - 1] \in Nat
      BY <1>1, <1>6
    <3> QED BY <3>1, <3>2
  <2> QED BY <2>1, <2>2
<1> HIDE DEF F
<1>8. Rule(f)
  <2>1. f = [n \in 0..k |-> f[n]]
    BY <1>6
  <2>2. \A n \in 0..k : f[n] = LET at == IF n = 0 THEN r ELSE f[n - 1] IN up(at)
    BY <1>1, <1>7
  <2> QED BY <2>1, <2>2
<1>9. Rule(c)
  <2> HIDE DEF Rule
  <2> QED BY <1>8
<1> HIDE DEF c
<1>10. c[0] = up(r)
  BY <1>1, <1>9
<1>11. ASSUME NEW n \in 1..k PROVE c[n] = up(c[n - 1])
  <2>1. n \in 0..k /\ n # 0
    BY <1>1
  <2> QED BY <1>9, <2>1
<1> QED BY <1>2, <1>4, <1>10, <1>11 DEF k, up

\* Climbs that all end at a root show that the containment is a forest.
LEMMA ContainedSound ==
  ASSUME NEW t \in Snapshot(Nat, Nat), None \notin ResourceIds(t),
         \A r \in ResourceIds(t) : Contained(t, r)
  PROVE  /\ \A r \in ResourceIds(t) : Parent(t, r) \in ResourceIds(t) \cup {None}
         /\ ~Cyclic(t)
         /\ \A r \in ResourceIds(t) : Cardinality(Ancestors(t, r)) <= MaxResourceDepth
<1> DEFINE k == MaxResourceDepth
           Ids == ResourceIds(t)
           c(r) == Cursor(t, r)
<1>1. k \in Nat
  BY TopologyAssumption
<1>2. ASSUME NEW r \in Ids
      PROVE  /\ c(r)[0] = Parent(t, r)
             /\ \A n \in 1..k : c(r)[n] = IF c(r)[n - 1] \in Ids THEN Parent(t, c(r)[n - 1]) ELSE None
             /\ \E n \in 0..k : c(r)[n] = None /\ \A m \in 0..(n - 1) : c(r)[m] \in Ids \ {r}
  BY CursorFacts DEF Contained
<1> HIDE DEF k, Ids, c
<1>3. ASSUME NEW r \in Ids PROVE Parent(t, r) \in Ids \cup {None}
  <2>1. PICK n \in 0..k : c(r)[n] = None /\ \A m \in 0..(n - 1) : c(r)[m] \in Ids \ {r}
    BY <1>2
  <2>2. CASE n = 0
    BY <1>2, <2>1, <2>2
  <2>3. CASE n # 0
    <3>1. 0 \in 0..(n - 1)
      BY <1>1, <2>3
    <3> QED BY <1>2, <2>1, <3>1
  <2> QED BY <2>2, <2>3
<1>4. ASSUME NEW Q \in SUBSET Ids, Q # {}, \A r \in Q : Parent(t, r) \in Q PROVE FALSE
  <2>1. PICK r \in Q : TRUE
    BY <1>4
  <2>2. r \in Ids
    OBVIOUS
  <2> DEFINE S == {n \in Nat : c(r)[n] \in Q}
  <2>3. 0 \in S
    BY <1>2, <1>4, <2>2
  <2>4. ASSUME NEW n \in 0..(k - 1), n \in S PROVE n + 1 \in S
    <3>1. PICK m \in 1..k : m = n + 1
      BY <1>1
    <3>2. m - 1 = n /\ m \in Nat
      BY <1>1, <3>1
    <3>3. c(r)[n] \in Q /\ c(r)[n] \in Ids
      BY <2>4
    <3>4. c(r)[m] = Parent(t, c(r)[n])
      BY <1>2, <2>2, <3>2, <3>3
    <3>5. c(r)[m] \in Q
      BY <1>4, <3>3, <3>4
    <3> QED BY <3>1, <3>2, <3>5
  <2> HIDE DEF S
  <2>5. \A n \in 0..k : n \in S
    BY <1>1, <2>3, <2>4, UpTo
  <2>6. PICK n \in 0..k : c(r)[n] = None
    BY <1>2, <2>2
  <2>7. c(r)[n] \in Q
    BY <2>5 DEF S
  <2> QED BY <2>6, <2>7 DEF Ids
<1>5. ASSUME NEW r \in Ids PROVE Cardinality(Ancestors(t, r)) <= k
  <2>1. PICK n \in 0..k : c(r)[n] = None /\ \A m \in 0..(n - 1) : c(r)[m] \in Ids \ {r}
    BY <1>2
  <2> DEFINE C == {c(r)[m] : m \in 0..(n - 1)}
             f == [m \in 0..(n - 1) |-> c(r)[m]]
  <2>2. C \in SUBSET Ids
    BY <2>1
  <2>3. Parent(t, r) # None => Parent(t, r) \in C
    <3>1. CASE n = 0
      BY <1>2, <2>1, <3>1
    <3>2. CASE n # 0
      <4>1. 0 \in 0..(n - 1)
        BY <1>1, <3>2
      <4> QED BY <1>2, <4>1
    <3> QED BY <3>1, <3>2
  <2>4. ASSUME NEW x \in C, Parent(t, x) # None PROVE Parent(t, x) \in C
    <3>1. PICK m \in 0..(n - 1) : c(r)[m] = x
      OBVIOUS
    <3>2. PICK l \in 1..k : l = m + 1
      BY <1>1
    <3>3. l - 1 = m
      BY <1>1, <3>2
    <3>4. c(r)[l] = Parent(t, x)
      BY <1>2, <2>2, <3>1, <3>3
    <3>5. l # n
      BY <2>1, <2>4, <3>4
    <3>6. l \in 0..(n - 1)
      BY <1>1, <3>2, <3>5
    <3> QED BY <3>4, <3>6
  <2>5. IsFiniteSet(0..(n - 1)) /\ Cardinality(0..(n - 1)) = n /\ n \in Nat /\ n <= k
    <3>1. n \in Nat /\ n <= k /\ n - 1 \in Int
      BY <1>1
    <3>2. /\ IsFiniteSet(0..(n - 1))
          /\ Cardinality(0..(n - 1)) = IF 0 > n - 1 THEN 0 ELSE (n - 1) - 0 + 1
      BY <3>1, FS_Interval
    <3>3. n = 0 \/ ~(0 > n - 1)
      BY <3>1
    <3>4. (n - 1) - 0 + 1 = n /\ (n = 0 => 0 > n - 1)
      BY <3>1
    <3> QED BY <3>1, <3>2, <3>3, <3>4
  <2>6. f \in [0..(n - 1) -> Ids] /\ C = {f[m] : m \in 0..(n - 1)}
    BY <2>1
  <2> HIDE DEF f
  <2>7. IsFiniteSet(C) /\ Cardinality(C) <= n
    <3> DEFINE J == 0..(n - 1)
    <3>1. IsFiniteSet(J) /\ Cardinality(J) = n /\ f \in [J -> Ids] /\ C = {f[m] : m \in J}
      BY <2>5, <2>6
    <3> HIDE DEF J, C
    <3>2. IsFiniteSet({f[m] : m \in J}) /\ Cardinality({f[m] : m \in J}) <= Cardinality(J)
      BY <3>1, ImageFinite
    <3> QED BY <3>1, <3>2
  <2> HIDE DEF C
  <2>8. Ancestors(t, r) \in SUBSET C
    BY <2>2, <2>3, <2>4 DEF Ancestors, Ids
  <2>9. Cardinality(Ancestors(t, r)) <= Cardinality(C) /\ Cardinality(Ancestors(t, r)) \in Nat
        /\ Cardinality(C) \in Nat
    <3>1. IsFiniteSet(Ancestors(t, r))
      BY <2>7, <2>8, FS_Subset
    <3> QED BY <2>7, <2>8, <3>1, FS_Subset, FS_CardinalityType
  <2> QED BY <1>1, <2>5, <2>7, <2>9
<1>6. ~Cyclic(t)
  BY <1>4 DEF Cyclic, Ids
<1> QED BY <1>3, <1>5, <1>6 DEF k, Ids

\* And in a forest every climb ends at a root, soon enough.
LEMMA SoundContained ==
  ASSUME NEW t \in Snapshot(Nat, Nat), None \notin ResourceIds(t),
         \A r \in ResourceIds(t) : Parent(t, r) \in ResourceIds(t) \cup {None},
         ~Cyclic(t),
         \A r \in ResourceIds(t) : Cardinality(Ancestors(t, r)) <= MaxResourceDepth,
         NEW r \in ResourceIds(t)
  PROVE  Contained(t, r)
<1> DEFINE k == MaxResourceDepth
           Ids == ResourceIds(t)
           c == Cursor(t, r)
<1>1. k \in Nat
  BY TopologyAssumption
<1>2. /\ c[0] = Parent(t, r)
      /\ \A n \in 1..k : c[n] = IF c[n - 1] \in Ids THEN Parent(t, c[n - 1]) ELSE None
  BY CursorFacts
<1>3. \A Q \in SUBSET Ids : Q # {} => \E x \in Q : Parent(t, x) \notin Q
  BY DEF Cyclic
<1>4. \A x \in Ids : Parent(t, x) \in Ids \cup {None}
  OBVIOUS
<1> HIDE DEF k, Ids, c
<1>5. ASSUME NEW n \in 0..k, \A m \in 0..n : c[m] # None
      PROVE  \A m \in 0..n : c[m] \in Ids
  <2> DEFINE S == {m \in Nat : c[m] \in Ids}
  <2>1. n \in Nat /\ 0 \in 0..n
    BY <1>1
  <2>2. 0 \in S
    <3>1. c[0] # None
      BY <1>5, <2>1
    <3>2. r \in Ids
      BY DEF Ids
    <3> QED BY <1>2, <1>4, <3>1, <3>2
  <2>3. ASSUME NEW i \in 0..(n - 1), i \in S PROVE i + 1 \in S
    <3>1. PICK m \in 1..k : m = i + 1
      BY <1>1, <2>1
    <3>2. m - 1 = i /\ m \in Nat /\ m \in 0..n
      BY <1>1, <2>1, <3>1
    <3>3. c[i] \in Ids /\ c[m] # None
      BY <1>5, <2>3, <3>2
    <3>4. c[m] = Parent(t, c[i])
      BY <1>2, <3>2, <3>3
    <3>5. c[m] \in Ids
      BY <1>4, <3>3, <3>4
    <3> QED BY <3>1, <3>2, <3>5
  <2> HIDE DEF S
  <2>4. \A m \in 0..n : m \in S
    BY <2>1, <2>2, <2>3, UpTo
  <2> QED BY <2>4 DEF S
<1>6. ASSUME NEW n \in 0..k, \A m \in 0..n : c[m] # None, NEW i \in 0..n, NEW j \in 0..n, i < j
      PROVE  c[i] # c[j]
  <2> SUFFICES ASSUME c[i] = c[j] PROVE FALSE
    OBVIOUS
  <2>1. \A m \in 0..n : c[m] \in Ids
    BY <1>5, <1>6
  <2> DEFINE Q == {c[m] : m \in i..(j - 1)}
  <2>2. i \in i..(j - 1) /\ \A m \in i..(j - 1) : m \in 0..n
    BY <1>1, <1>6
  <2>3. Q \in SUBSET Ids /\ Q # {}
    BY <2>1, <2>2
  <2>4. ASSUME NEW x \in Q PROVE Parent(t, x) \in Q
    <3>1. PICK m \in i..(j - 1) : c[m] = x
      OBVIOUS
    <3>2. PICK l \in 1..k : l = m + 1
      BY <1>1, <1>6
    <3>3. l - 1 = m /\ (l = j \/ l \in i..(j - 1))
      BY <1>1, <1>6, <3>2
    <3>4. c[l] = Parent(t, x)
      BY <1>2, <2>1, <2>2, <3>1, <3>3
    <3>5. CASE l = j
      BY <2>2, <3>4, <3>5
    <3>6. CASE l \in i..(j - 1)
      BY <3>4, <3>6
    <3> QED BY <3>3, <3>5, <3>6
  <2> HIDE DEF Q
  <2> QED BY <1>3, <2>3, <2>4
<1>7. \E n \in 0..k : c[n] = None
  <2> SUFFICES ASSUME \A n \in 0..k : c[n] # None PROVE FALSE
    OBVIOUS
  <2>1. k \in 0..k
    BY <1>1
  <2>2. \A m \in 0..k : c[m] \in Ids
    BY <1>5, <2>1
  <2> DEFINE A == Ancestors(t, r)
             f == [m \in 0..k |-> c[m]]
  <2>3. ASSUME NEW Q \in SUBSET Ids, Parent(t, r) # None => Parent(t, r) \in Q,
               \A x \in Q : Parent(t, x) # None => Parent(t, x) \in Q
        PROVE  \A m \in 0..k : c[m] \in Q
    <3> DEFINE S == {m \in Nat : c[m] \in Q}
    <3>1. 0 \in S
      <4>1. 0 \in 0..k
        BY <1>1
      <4>2. c[0] # None
        BY <4>1
      <4> QED BY <1>2, <2>3, <4>2
    <3>2. ASSUME NEW i \in 0..(k - 1), i \in S PROVE i + 1 \in S
      <4>1. PICK m \in 1..k : m = i + 1
        BY <1>1
      <4>2. m - 1 = i /\ m \in Nat /\ m \in 0..k
        BY <1>1, <4>1
      <4>3. c[i] \in Q /\ c[m] # None
        BY <3>2, <4>2
      <4>4. c[m] = Parent(t, c[i])
        BY <1>2, <4>2, <4>3
      <4>5. c[m] \in Q
        BY <2>3, <4>3, <4>4
      <4> QED BY <4>1, <4>2, <4>5
    <3> HIDE DEF S
    <3>3. \A m \in 0..k : m \in S
      BY <1>1, <3>1, <3>2, UpTo
    <3> QED BY <3>3 DEF S
  <2>4. \A m \in 0..k : c[m] \in A
    BY <2>2, <2>3 DEF Ancestors, Ids
  <2>5. f \in [0..k -> A]
    BY <2>4
  <2>6. A \in SUBSET Ids /\ IsFiniteSet(Ids)
    BY ResourceIdsType DEF Ancestors, Ids
  <2> HIDE DEF A
  <2>7. IsFiniteSet(A) /\ Cardinality(A) \in Nat
    BY <2>6, FS_Subset, FS_CardinalityType
  <2>8. Cardinality(A) <= k
    BY DEF A, k
  <2>9. IsFiniteSet(0..k) /\ Cardinality(0..k) = k + 1
    <3>1. IsFiniteSet(0..k) /\ Cardinality(0..k) = IF 0 > k THEN 0 ELSE k - 0 + 1
      BY <1>1, FS_Interval
    <3> QED BY <1>1, <3>1
  <2>10. Cardinality(A) < Cardinality(0..k)
    BY <1>1, <2>7, <2>8, <2>9
  <2>11. PICK i \in 0..k, j \in 0..k : i # j /\ f[i] = f[j]
    <3> DEFINE J == 0..k
    <3>1. IsFiniteSet(J) /\ Cardinality(A) < Cardinality(J) /\ f \in [J -> A]
      BY <2>5, <2>9, <2>10
    <3> HIDE DEF J, f
    <3>2. \E i, j \in J : i # j /\ f[i] = f[j]
      BY <2>7, <3>1, FS_PigeonHole
    <3> QED BY <3>2 DEF J
  <2>12. c[i] = c[j] /\ (i < j \/ j < i)
    BY <1>1, <2>11
  <2> QED BY <1>6, <2>1, <2>12
<1> DEFINE T == {n \in 0..k : c[n] = None}
<1>8. T \in SUBSET Nat /\ T # {}
  BY <1>1, <1>7
<1>9. PICK n \in T : \A m \in T : n <= m
  BY <1>8, Least
<1>10. n \in 0..k /\ c[n] = None /\ \A m \in 0..(n - 1) : c[m] # None
  <2>1. n \in 0..k /\ c[n] = None
    OBVIOUS
  <2>2. ASSUME NEW m \in 0..(n - 1) PROVE c[m] # None
    <3>1. m \in 0..k /\ ~(n <= m)
      BY <1>1
    <3> QED BY <1>9, <3>1
  <2> QED BY <2>1, <2>2
<1>11. ASSUME NEW m \in 0..(n - 1) PROVE c[m] \in Ids \ {r}
  <2>1. m \in 0..k /\ m \in 0..m /\ \A i \in 0..m : i \in 0..(n - 1)
    BY <1>1
  <2>2. \A i \in 0..m : c[i] # None
    BY <1>10, <2>1
  <2>3. \A i \in 0..m : c[i] \in Ids
    BY <1>5, <2>1, <2>2
  <2>4. c[m] # r
    <3> SUFFICES ASSUME c[m] = r PROVE FALSE
      OBVIOUS
    <3> DEFINE Q == {c[i] : i \in 0..m}
    <3>1. Q \in SUBSET Ids /\ Q # {}
      BY <2>1, <2>3
    <3>2. ASSUME NEW x \in Q PROVE Parent(t, x) \in Q
      <4>1. PICK i \in 0..m : c[i] = x
        OBVIOUS
      <4>2. CASE i = m
        <5>1. Parent(t, x) = c[0] /\ 0 \in 0..m
          BY <1>1, <1>2, <4>1, <4>2
        <5> QED BY <5>1
      <4>3. CASE i # m
        <5>1. PICK l \in 1..k : l = i + 1
          BY <1>1, <2>1, <4>3
        <5>2. l - 1 = i /\ l \in 0..m
          BY <1>1, <2>1, <4>3, <5>1
        <5>3. c[l] = Parent(t, x)
          BY <1>2, <2>3, <4>1, <5>2
        <5> QED BY <5>2, <5>3
      <4> QED BY <4>2, <4>3
    <3> HIDE DEF Q
    <3> QED BY <1>3, <3>1, <3>2
  <2> QED BY <2>1, <2>3, <2>4
<1> QED BY <1>10, <1>11 DEF Contained, k, Ids, c

\* validate_topology accepts a snapshot, as far as it is modelled, exactly when
\* its containment is a forest of bounded depth, its names are distinct, the
\* depths it records are bounded and its links and paths stay inside.
THEOREM ValidIsSound ==
  ASSUME NEW t \in Snapshot(Nat, Nat)
  PROVE  ValidTopology(t) <=> Sound(t)
<1> DEFINE Ids == ResourceIds(t)
           n == Len(t.resources)
           k == Len(t.paths)
           f == [i \in 1..n |-> t.resources[i].id]
           p == [i \in 1..k |-> t.paths[i].id]
           P == {p[i] : i \in 1..k}
           Rooted == /\ \A r \in Ids : Parent(t, r) \in Ids \cup {None}
                     /\ ~Cyclic(t)
                     /\ \A r \in Ids : Cardinality(Ancestors(t, r)) <= MaxResourceDepth
<1>1. /\ n \in Nat /\ DOMAIN t.resources = 1..n /\ \A i \in 1..n : t.resources[i].id \in Nat
      /\ k \in Nat /\ DOMAIN t.paths = 1..k
      /\ \A i \in 1..k : t.paths[i].id \in Nat /\ t.paths[i].hops \in Seq(Nat)
      /\ Len(t.links) \in Nat /\ DOMAIN t.links = 1..Len(t.links)
      /\ \A i \in 1..Len(t.links) : t.links[i].id \in Nat
  BY SnapshotFacts
<1>2. f \in [1..n -> Nat] /\ \A i \in 1..n : f[i] = t.resources[i].id
  BY <1>1
<1>3. p \in [1..k -> Nat] /\ \A i \in 1..k : p[i] = t.paths[i].id
  BY <1>1
<1>4. Ids = {f[i] : i \in 1..n}
  BY <1>1 DEF ResourceIds
<1>5. {t.paths[i].id : i \in DOMAIN t.paths} = P
  BY <1>1
<1> HIDE DEF Ids, n, k, f, p
<1>6. Distinct(t.resources) <=> Cardinality(Ids) = n
  <2>1. Cardinality({f[i] : i \in 1..n}) = n <=> \A i, j \in 1..n : f[i] = f[j] => i = j
    BY <1>1, <1>2, IdsDistinct
  <2>2. Distinct(t.resources) <=> \A i, j \in 1..n : f[i] = f[j] => i = j
    BY <1>1, <1>2 DEF Distinct
  <2> QED BY <1>4, <2>1, <2>2
<1>7. (Distinct(t.paths) /\ \A i \in 1..k : t.paths[i].id # None) <=> Cardinality(P \ {None}) = k
  <2>1. /\ IsFiniteSet({p[i] : i \in 1..k}) /\ Cardinality({p[i] : i \in 1..k}) \in Nat
        /\ Cardinality({p[i] : i \in 1..k}) <= k
        /\ Cardinality({p[i] : i \in 1..k}) = k <=> \A i, j \in 1..k : p[i] = p[j] => i = j
    BY <1>1, <1>3, IdsDistinct
  <2>2. Distinct(t.paths) <=> Cardinality(P) = k
    BY <1>1, <1>3, <2>1 DEF Distinct
  <2>3. (\A i \in 1..k : t.paths[i].id # None) <=> None \notin P
    BY <1>3
  <2>4. IsFiniteSet(P) /\ Cardinality(P) \in Nat /\ Cardinality(P) <= k
    BY <2>1
  <2> HIDE DEF P
  <2>5. Cardinality(P \ {None}) = IF None \in P THEN Cardinality(P) - 1 ELSE Cardinality(P)
    BY <2>4, FS_RemoveElement
  <2>6. (Cardinality(P) = k /\ None \notin P) <=> Cardinality(P \ {None}) = k
    BY <1>1, <2>4, <2>5
  <2> QED BY <2>2, <2>3, <2>6
<1>8. Distinct(t.resources) =>
        ((\A i \in 1..n : t.resources[i].domain # None /\ t.resources[i].depth <= MaxResourceDepth)
           <=> \A r \in Ids : Record(t, r).domain # None /\ Record(t, r).depth <= MaxResourceDepth)
  <2> DEFINE Q(x) == x.domain # None /\ x.depth <= MaxResourceDepth
  <2> SUFFICES ASSUME Distinct(t.resources)
               PROVE  (\A i \in 1..n : Q(t.resources[i])) <=> \A r \in Ids : Q(Record(t, r))
    OBVIOUS
  <2>1. ASSUME NEW r \in Ids PROVE \E i \in 1..n : Record(t, r) = t.resources[i]
    BY <1>1, RecordFacts DEF Ids
  <2>2. ASSUME NEW i \in 1..n PROVE \E r \in Ids : Record(t, r) = t.resources[i]
    <3>1. PICK r \in Ids : r = t.resources[i].id
      BY <1>2, <1>4
    <3>2. PICK j \in 1..n : t.resources[j].id = r /\ Record(t, r) = t.resources[j]
      BY <1>1, RecordFacts DEF Ids
    <3>3. i = j
      BY <1>1, <3>1, <3>2 DEF Distinct
    <3> QED BY <3>2, <3>3
  <2> HIDE DEF Q
  <2> QED BY <2>1, <2>2
<1>9. None \notin Ids => ((\A r \in Ids : Contained(t, r)) <=> Rooted)
  BY ContainedSound, SoundContained DEF Ids
<1>10. (\A i \in DOMAIN t.links : {t.links[i].from, t.links[i].to} \subseteq Ids)
         <=> {<<t.links[i].from, t.links[i].to>> : i \in DOMAIN t.links} \subseteq Ids \X Ids
  <2>1. \A i \in DOMAIN t.links : {t.links[i].from, t.links[i].to} \subseteq Ids
                                  <=> <<t.links[i].from, t.links[i].to>> \in Ids \X Ids
    OBVIOUS
  <2> QED BY <2>1
<1>10a. DistinctLinks(t.links) <=> Cardinality({t.links[i].id : i \in Named(t)}) = Cardinality(Named(t))
  <2> DEFINE D == Named(t)
             g == [i \in D |-> t.links[i].id]
  <2>1. D \in SUBSET (1..Len(t.links)) /\ IsFiniteSet(1..Len(t.links))
    BY <1>1, PlacesCount DEF Named
  <2>2. IsFiniteSet(D)
    BY <2>1, FS_Subset
  <2>3. g \in [D -> Nat] /\ \A i \in D : g[i] = t.links[i].id
    BY <1>1, <2>1
  <2>4. {t.links[i].id : i \in D} = {g[i] : i \in D}
    BY <2>3
  <2>5. DistinctLinks(t.links) <=> \A i, j \in D : g[i] = g[j] => i = j
    <3>1. \A i : i \in D <=> i \in DOMAIN t.links /\ t.links[i].id # None
      BY DEF Named
    <3> HIDE DEF D
    <3> QED BY <2>3, <3>1 DEF DistinctLinks
  <2> HIDE DEF D, g
  <2>6. Cardinality({g[i] : i \in D}) = Cardinality(D) <=> \A i, j \in D : g[i] = g[j] => i = j
    BY <2>2, <2>3, NamesDistinct
  <2>7. DistinctLinks(t.links) <=> Cardinality({t.links[i].id : i \in D}) = Cardinality(D)
    BY <2>4, <2>5, <2>6
  <2> QED BY <2>7 DEF D
<1>11. ASSUME NEW i \in 1..k
       PROVE  (Len(t.paths[i].hops) \in 1..MaxResourcesPerPath /\ ToSet(t.paths[i].hops) \subseteq Ids)
                <=> (/\ t.paths[i].hops # <<>> /\ Len(t.paths[i].hops) <= MaxResourcesPerPath
                     /\ \A j \in DOMAIN t.paths[i].hops : t.paths[i].hops[j] \in Ids)
  <2> DEFINE h == t.paths[i].hops
  <2>1. h \in Seq(Nat)
    BY <1>1
  <2> HIDE DEF h
  <2>2. Len(h) \in Nat /\ (h # <<>> <=> Len(h) # 0)
    BY <2>1
  <2>3. Len(h) \in 1..MaxResourcesPerPath <=> h # <<>> /\ Len(h) <= MaxResourcesPerPath
    BY <2>2, TopologyAssumption
  <2>4. ToSet(h) \subseteq Ids <=> \A j \in DOMAIN h : h[j] \in Ids
    BY DEF ToSet
  <2> QED BY <2>3, <2>4 DEF h
<1> DEFINE PathsIn == \A i \in 1..k : /\ Len(t.paths[i].hops) \in 1..MaxResourcesPerPath
                                      /\ ToSet(t.paths[i].hops) \subseteq Ids
           PathsSound == \A i \in 1..k :
                           /\ t.paths[i].hops # <<>> /\ Len(t.paths[i].hops) <= MaxResourcesPerPath
                           /\ \A j \in DOMAIN t.paths[i].hops : t.paths[i].hops[j] \in Ids
           NonNull == \A i \in 1..k : t.paths[i].id # None
           Owned == \A i \in 1..n : /\ t.resources[i].domain # None
                                    /\ t.resources[i].depth <= MaxResourceDepth
           OwnedAll == \A r \in Ids : /\ Record(t, r).domain # None
                                      /\ Record(t, r).depth <= MaxResourceDepth
           LinksIn == \A i \in DOMAIN t.links : {t.links[i].from, t.links[i].to} \subseteq Ids
           Ends == {<<t.links[i].from, t.links[i].to>> : i \in DOMAIN t.links}
           LinkNames == Cardinality({t.links[i].id : i \in Named(t)}) = Cardinality(Named(t))
           Climbs == \A r \in Ids : Contained(t, r)
<1>12. PathsIn <=> PathsSound
  BY <1>11
<1>13. ValidTopology(t) <=>
         /\ t.resources # <<>> /\ None \notin Ids /\ Owned /\ Distinct(t.resources) /\ Climbs
         /\ LinksIn /\ DistinctLinks(t.links) /\ Distinct(t.paths) /\ NonNull /\ PathsIn
  BY <1>1 DEF ValidTopology, Ids
<1>14. Sound(t) <=>
         /\ t.resources # <<>> /\ Cardinality(Ids) = n /\ None \notin Ids
         /\ OwnedAll /\ Rooted
         /\ Ends \subseteq Ids \X Ids /\ LinkNames
         /\ Cardinality(P \ {None}) = k /\ PathsSound
  <2>1. Cardinality({t.paths[i].id : i \in DOMAIN t.paths} \ {None}) = k
          <=> Cardinality(P \ {None}) = k
    BY <1>5
  <2> HIDE DEF P
  <2> QED BY <1>1, <2>1 DEF Sound, Ids, n, k
<1> HIDE DEF PathsIn, PathsSound, NonNull, Owned, OwnedAll, LinksIn, Ends, LinkNames, Climbs,
             Rooted, P
<1>15. (Distinct(t.paths) /\ NonNull) <=> Cardinality(P \ {None}) = k
  BY <1>7 DEF NonNull
<1>16. Distinct(t.resources) => (Owned <=> OwnedAll)
  BY <1>8 DEF Owned, OwnedAll
<1>17. None \notin Ids => (Climbs <=> Rooted)
  BY <1>9 DEF Climbs, Rooted
<1>18. LinksIn <=> Ends \subseteq Ids \X Ids
  BY <1>10 DEF LinksIn, Ends
<1>19. DistinctLinks(t.links) <=> LinkNames
  BY <1>10a DEF LinkNames
<1> QED BY <1>6, <1>12, <1>13, <1>14, <1>15, <1>16, <1>17, <1>18, <1>19

-----------------------------------------------------------------------------
(* Pressure *)

\* The pressures of the severities, which rise from each to the next.
LEMMA PressureValues ==
  /\ PressureOf(0) = 0 /\ PressureOf(1) = Unit \div 3
  /\ PressureOf(2) = (2 * Unit) \div 3 /\ PressureOf(3) = Unit
  /\ \A v \in Severity : PressureOf(v) \in Nat
  /\ \A u, v \in Severity : u < v => PressureOf(u) < PressureOf(v)
  /\ Severity = {0, 1, 2, 3}
<1>1. Severity = {0, 1, 2, 3}
  BY DEF Severity, Clear, Severe
<1>2. /\ PressureOf(0) = 0 /\ PressureOf(1) = Unit \div 3
      /\ PressureOf(2) = (2 * Unit) \div 3 /\ PressureOf(3) = Unit
  BY DEF PressureOf
<1>3. /\ Unit \in Nat /\ Unit \div 3 \in Nat /\ (2 * Unit) \div 3 \in Nat
      /\ 0 < Unit \div 3 /\ Unit \div 3 < (2 * Unit) \div 3 /\ (2 * Unit) \div 3 < Unit
  BY UnitAssumption
<1>4. \A v \in Severity : PressureOf(v) \in Nat
  BY <1>1, <1>2, <1>3
<1>5. \A u, v \in Severity : u < v => PressureOf(u) < PressureOf(v)
  <2>1. PressureOf(0) < PressureOf(1) /\ PressureOf(1) < PressureOf(2) /\ PressureOf(2) < PressureOf(3)
    BY <1>2, <1>3
  <2>2. PressureOf(0) < PressureOf(2) /\ PressureOf(1) < PressureOf(3) /\ PressureOf(0) < PressureOf(3)
    BY <1>2, <1>3
  <2> TAKE u, v \in Severity
  <2>3. \/ u = 0 /\ v \in {1, 2, 3}
        \/ u = 1 /\ v \in {2, 3}
        \/ u = 2 /\ v = 3
        \/ ~(u < v)
    BY <1>1
  <2> QED BY <2>1, <2>2, <2>3
<1> QED BY <1>1, <1>2, <1>4, <1>5

\* A pressure has the highest severity whose pressure it reaches.
LEMMA PressureLevels ==
  ASSUME NEW p \in Nat
  PROVE  /\ PressureToSeverity(p) \in Severity /\ PressureOf(PressureToSeverity(p)) <= p
         /\ \A u \in Severity : PressureOf(u) <= p => u <= PressureToSeverity(p)
<1> DEFINE Fits(v) == PressureOf(v) <= p /\ \A u \in Severity : PressureOf(u) <= p => u <= v
           T == {v \in Severity : PressureOf(v) <= p}
<1>1. Severity = {0, 1, 2, 3} /\ PressureOf(0) = 0
  BY PressureValues
<1>2. T \in SUBSET Nat /\ 0 \in T
  BY <1>1
<1>3. IsFiniteSet(T)
  <2>1. IsFiniteSet(0..3)
    <3>1. \A n \in Nat : IsFiniteSet(0..n)
      BY FS_Interval
    <3> QED BY <3>1
  <2>2. T \in SUBSET (0..3)
    BY <1>1
  <2> HIDE DEF T
  <2> QED BY <2>1, <2>2, FS_Subset
<1>4. PICK v \in T : \A u \in T : u <= v
  <2> HIDE DEF T
  <2> QED BY <1>2, <1>3, Greatest
<1>5. \E w \in Severity : Fits(w)
  BY <1>4
<1>6. PressureToSeverity(p) = CHOOSE w \in Severity : Fits(w)
  BY DEF PressureToSeverity
<1> DEFINE c == CHOOSE w \in Severity : Fits(w)
<1>7. c \in Severity /\ Fits(c)
  <2> HIDE DEF Fits
  <2> QED BY <1>5
<1> HIDE DEF c
<1> QED BY <1>6, <1>7 DEF c

\* More pressure is at least as severe, and a severity's pressure has just that
\* severity.
LEMMA PressureOrder ==
  /\ \A p, q \in Nat : p <= q => PressureToSeverity(p) <= PressureToSeverity(q)
  /\ \A p \in Nat, v \in Severity : p <= PressureOf(v) => PressureToSeverity(p) <= v
  /\ \A p, q \in Nat : PressureToSeverity(p) = Clear /\ PressureToSeverity(q) # Clear => p < q
<1>1. ASSUME NEW p \in Nat, NEW q \in Nat, p <= q
      PROVE  PressureToSeverity(p) <= PressureToSeverity(q)
  <2>1. PressureToSeverity(p) \in Severity /\ PressureOf(PressureToSeverity(p)) <= p
    BY PressureLevels
  <2>2. PressureOf(PressureToSeverity(p)) \in Nat
    BY <2>1, PressureValues
  <2>3. PressureOf(PressureToSeverity(p)) <= q
    BY <1>1, <2>1, <2>2
  <2> QED BY <2>1, <2>3, PressureLevels
<1>2. ASSUME NEW p \in Nat, NEW v \in Severity, p <= PressureOf(v)
      PROVE  PressureToSeverity(p) <= v
  <2>1. PressureToSeverity(p) \in Severity /\ PressureOf(PressureToSeverity(p)) <= p
    BY PressureLevels
  <2>2. PressureOf(PressureToSeverity(p)) \in Nat /\ PressureOf(v) \in Nat
    BY <2>1, PressureValues
  <2>3. ~(PressureOf(v) < PressureOf(PressureToSeverity(p)))
    BY <1>2, <2>1, <2>2
  <2>4. ~(v < PressureToSeverity(p))
    BY <2>1, <2>3, PressureValues
  <2>5. v \in 0..3 /\ PressureToSeverity(p) \in 0..3
    BY <2>1, PressureValues
  <2> QED BY <2>4, <2>5
<1>3. ASSUME NEW p \in Nat, NEW q \in Nat,
             PressureToSeverity(p) = Clear, PressureToSeverity(q) # Clear
      PROVE  p < q
  <2>1. /\ PressureToSeverity(q) \in 0..3 /\ PressureToSeverity(q) # 0
        /\ PressureToSeverity(p) = 0
    BY <1>3, PressureLevels, PressureValues DEF Clear
  <2>2. ~(PressureToSeverity(q) <= PressureToSeverity(p))
    BY <2>1
  <2>3. ~(q <= p)
    BY <1>1, <2>2
  <2> QED BY <2>3
<1> QED BY <1>1, <1>2, <1>3

\* A hop never adds pressure.
LEMMA HopWeakens ==
  ASSUME NEW p \in Nat, NEW d \in 0..Unit
  PROVE  (p * d) \div Unit \in Nat /\ (p * d) \div Unit <= p
<1>1. Unit \in Nat /\ Unit > 0 /\ d \in Nat
  BY UnitAssumption
<1>2. PICK n \in Nat : n = p * d
  BY <1>1
<1>3. n <= p * Unit
  BY <1>1, <1>2
<1>4. n \div Unit \in Nat /\ (n \div Unit) * Unit <= n
  BY <1>1
<1>5. (n \div Unit) * Unit <= p * Unit
  <2>1. (n \div Unit) * Unit \in Nat /\ p * Unit \in Nat
    BY <1>1, <1>4
  <2> QED BY <1>3, <1>4, <2>1
<1>6. n \div Unit <= p
  BY <1>1, <1>4, <1>5
<1> QED BY <1>2, <1>4, <1>6

-----------------------------------------------------------------------------
(* The neighbours of a frontier *)

LEMMA NeighboursFacts ==
  ASSUME NEW t \in Snapshot(Nat, Nat), ValidTopology(t), NEW r, NEW g
  PROVE  /\ Neighbours(t, r, g) \in Seq(ResourceIds(t) \X Nat)
         /\ ToSet(Neighbours(t, r, g)) = NeighbourSet(t, r, g)
<1> DEFINE S == NeighbourSet(t, r, g)
           s == Neighbours(t, r, g)
           E == ResourceIds(t) \X Nat
<1>1. S \in SUBSET E /\ IsFiniteSet(S)
  BY NeighbourSetType
<1>2. S \in SUBSET (Nat \X Nat)
  BY <1>1, ResourceIdsType
<1>3. s = Sorted(S, Before)
  BY DEF Neighbours
<1> HIDE DEF S, s
<1>4. s \in Seq(S) /\ \A x \in S : \E i \in DOMAIN s : s[i] = x
  BY <1>1, <1>2, <1>3, SortedPairs
<1>5. s \in Seq(E)
  BY <1>1, <1>4
<1>6. ToSet(s) = S
  BY <1>4 DEF ToSet
<1> QED BY <1>5, <1>6 DEF S, s

\* What Outward lists: an edge from r, of pressure p, to the neighbour x.
Edge(t) == [from : Nat, to : ResourceIds(t), path : Nat, pressure : Nat]

EdgeTo(g, r, p, x) ==
  [from |-> r, to |-> x[1], path |-> x[2], pressure |-> (p * g.decay) \div Unit]

\* Every neighbour of every resource in the frontier is listed, and nothing else.
LEMMA OutwardFacts ==
  ASSUME NEW t \in Snapshot(Nat, Nat), ValidTopology(t), NEW g \in PropagationPolicy,
         NEW frontier \in Seq(Nat \X Nat)
  PROVE  /\ Outward(t, frontier, g) \in Seq(Edge(t))
         /\ \A e : e \in ToSet(Outward(t, frontier, g)) <=>
              \E i \in DOMAIN frontier : \E x \in NeighbourSet(t, frontier[i][1], g) :
                e = EdgeTo(g, frontier[i][1], frontier[i][2], x)
<1> DEFINE n(i) == Neighbours(t, frontier[i][1], g)
           S(i) == NeighbourSet(t, frontier[i][1], g)
           out(i) == [j \in DOMAIN n(i) |-> EdgeTo(g, frontier[i][1], frontier[i][2], n(i)[j])]
           q == [i \in DOMAIN frontier |-> out(i)]
           E == Edge(t)
<1>1. Outward(t, frontier, g) = FlattenSeq(q)
  BY DEF Outward, EdgeTo
<1>2. g.decay \in 0..Unit
  BY DEF PropagationPolicy
<1>3. /\ Len(frontier) \in Nat /\ DOMAIN frontier = 1..Len(frontier)
      /\ \A i \in DOMAIN frontier : frontier[i][1] \in Nat /\ frontier[i][2] \in Nat
  OBVIOUS
<1>4. ASSUME NEW i \in DOMAIN frontier
      PROVE  /\ out(i) \in Seq(E)
             /\ \A e : e \in ToSet(out(i)) <=>
                  \E x \in S(i) : e = EdgeTo(g, frontier[i][1], frontier[i][2], x)
  <2> DEFINE r == frontier[i][1]
             p == frontier[i][2]
             m == n(i)
  <2>1. r \in Nat /\ p \in Nat
    BY <1>3
  <2>2. m \in Seq(ResourceIds(t) \X Nat) /\ ToSet(m) = S(i)
    BY NeighboursFacts
  <2>3. (p * g.decay) \div Unit \in Nat
    <3> HIDE DEF p
    <3> QED BY <1>2, <2>1, HopWeakens
  <2>4. out(i) = [j \in DOMAIN m |-> EdgeTo(g, r, p, m[j])]
    OBVIOUS
  <2> HIDE DEF r, p, m, S
  <2>5. Len(m) \in Nat /\ DOMAIN m = 1..Len(m) /\ \A j \in DOMAIN m : m[j] \in ResourceIds(t) \X Nat
    BY <2>2
  <2>6. \A x \in ResourceIds(t) \X Nat : EdgeTo(g, r, p, x) \in E
    <3> SUFFICES ASSUME NEW x \in ResourceIds(t) \X Nat PROVE EdgeTo(g, r, p, x) \in E
      OBVIOUS
    <3>1. x[1] \in ResourceIds(t) /\ x[2] \in Nat
      OBVIOUS
    <3> QED BY <2>1, <2>3, <3>1 DEF EdgeTo, Edge
  <2>7. \A j \in DOMAIN m : EdgeTo(g, r, p, m[j]) \in E
    BY <2>5, <2>6
  <2> DEFINE o == [j \in DOMAIN m |-> EdgeTo(g, r, p, m[j])]
  <2>8. o \in [1..Len(m) -> E]
    BY <2>5, <2>7
  <2>9. o \in Seq(E) /\ DOMAIN o = DOMAIN m
    BY <2>5, <2>8
  <2>10. \A e : e \in ToSet(o) <=> \E j \in DOMAIN m : e = EdgeTo(g, r, p, m[j])
    BY DEF ToSet
  <2>11. \A x : x \in ToSet(m) <=> \E j \in DOMAIN m : x = m[j]
    BY DEF ToSet
  <2> HIDE DEF o
  <2>12. \A e : e \in ToSet(o) <=> \E x \in S(i) : e = EdgeTo(g, r, p, x)
    BY <2>2, <2>10, <2>11
  <2>13. out(i) = o
    BY <2>4 DEF o
  <2> QED BY <2>9, <2>12, <2>13 DEF r, p
<1> HIDE DEF out, S, E
<1>5. q \in [1..Len(frontier) -> Seq(E)]
  BY <1>3, <1>4
<1>6. q \in Seq(Seq(E)) /\ DOMAIN q = DOMAIN frontier
  BY <1>3, <1>5
<1>7. \A i \in DOMAIN frontier : q[i] = out(i)
  OBVIOUS
<1> HIDE DEF q
<1>8. /\ FlattenSeq(q) \in Seq(E)
      /\ \A e : e \in ToSet(FlattenSeq(q)) <=> \E i \in DOMAIN q : e \in ToSet(q[i])
  BY <1>6, Flattened
<1>9. \A e : e \in ToSet(FlattenSeq(q)) <=>
        \E i \in DOMAIN frontier : \E x \in S(i) : e = EdgeTo(g, frontier[i][1], frontier[i][2], x)
  BY <1>4, <1>6, <1>7, <1>8
<1> QED BY <1>1, <1>8, <1>9 DEF S, E

-----------------------------------------------------------------------------
(* One level of the search *)

Target == [pressure : Nat, hops : Nat, from : Nat, path : Nat]

SpreadState(t) ==
  [visited : SUBSET Nat, frontier : Seq(Nat \X Nat), best : [ResourceIds(t) -> Target]]

\* Strong enough to be recorded and to be passed on.
Strong(g, p) == ~(p < g.min) /\ PressureToSeverity(p) # Clear

\* A neighbour that is visited for the first time, by strong pressure.
New(g, at, e) == e.to \notin at.visited /\ Strong(g, e.pressure)

TargetOf(h, e) == [pressure |-> e.pressure, hops |-> h, from |-> e.from, path |-> e.path]

\* One neighbour adds its place to what was visited. If it is new, it joins the
\* frontier, and what is best there is replaced by it or is no weaker.
VisitStep(t, g, h, at, e, next) ==
  /\ next \in SpreadState(t)
  /\ next.visited = at.visited \cup {e.to}
  /\ New(g, at, e) => /\ next.frontier = Append(at.frontier, <<e.to, e.pressure>>)
                     /\ next.best[e.to].pressure >= e.pressure
  /\ ~New(g, at, e) => next.frontier = at.frontier
  /\ \A r \in ResourceIds(t) :
       \/ next.best[r] = at.best[r]
       \/ /\ New(g, at, e) /\ r = e.to
          /\ next.best[r] = TargetOf(h, e)
          /\ next.best[r].pressure >= at.best[r].pressure

LEMMA VisitFacts ==
  ASSUME NEW t \in Snapshot(Nat, Nat), NEW g, NEW h \in Nat,
         NEW at \in SpreadState(t), NEW e \in Edge(t)
  PROVE  VisitStep(t, g, h, at, e, Visit(g, h, at, e))
<1> DEFINE next == Visit(g, h, at, e)
           seen == [at EXCEPT !.visited = @ \cup {e.to}]
           target == [pressure |-> e.pressure, hops |-> h, from |-> e.from, path |-> e.path]
           old == at.best[e.to]
           won == IF Replaces(target, old) THEN target ELSE old
           weak == e.pressure < g.min \/ PressureToSeverity(e.pressure) = Clear
           more == Append(at.frontier, <<e.to, e.pressure>>)
<1>1. /\ at.visited \in SUBSET Nat /\ at.frontier \in Seq(Nat \X Nat)
      /\ at.best \in [ResourceIds(t) -> Target]
      /\ at = [visited |-> at.visited, frontier |-> at.frontier, best |-> at.best]
  BY DEF SpreadState
<1>2. e.to \in ResourceIds(t) /\ e.from \in Nat /\ e.path \in Nat /\ e.pressure \in Nat
  BY DEF Edge
<1>3. e.to \in Nat
  BY <1>2, ResourceIdsType
<1>4. target \in Target /\ old \in Target
  BY <1>1, <1>2 DEF Target
<1>5. next = IF e.to \in at.visited THEN at
             ELSE IF weak THEN seen
             ELSE [seen EXCEPT !.best[e.to] = won, !.frontier = more]
  BY <1>1 DEF Visit
<1>6. weak <=> ~Strong(g, e.pressure)
  BY DEF Strong
<1>7. CASE e.to \in at.visited
  <2>1. next = at /\ at.visited = at.visited \cup {e.to}
    BY <1>5, <1>7
  <2>2. ~New(g, at, e)
    BY <1>7 DEF New
  <2> HIDE DEF next
  <2>3. VisitStep(t, g, h, at, e, next)
    BY <2>1, <2>2 DEF VisitStep
  <2> QED BY <2>3 DEF next
<1>8. CASE e.to \notin at.visited /\ weak
  <2>1. next = seen
    BY <1>5, <1>8
  <2>2. /\ seen.visited = at.visited \cup {e.to} /\ seen.frontier = at.frontier
        /\ seen.best = at.best /\ seen \in SpreadState(t)
    BY <1>1, <1>3 DEF SpreadState
  <2> HIDE DEF next, seen, weak
  <2>3. ~New(g, at, e)
    BY <1>6, <1>8 DEF New
  <2>4. VisitStep(t, g, h, at, e, next)
    BY <2>1, <2>2, <2>3 DEF VisitStep
  <2> QED BY <2>4 DEF next
<1>9. CASE e.to \notin at.visited /\ ~weak
  <2>1. next = [visited |-> at.visited \cup {e.to}, frontier |-> more,
                best |-> [at.best EXCEPT ![e.to] = won]]
    BY <1>1, <1>5, <1>9
  <2> HIDE DEF next, weak
  <2>2. won \in Target
    BY <1>4
  <2>3. more \in Seq(Nat \X Nat)
    BY <1>1, <1>2, <1>3
  <2>4. next \in SpreadState(t)
    BY <1>1, <1>3, <2>1, <2>2, <2>3 DEF SpreadState
  <2>5. /\ next.visited = at.visited \cup {e.to} /\ next.frontier = more
        /\ next.best = [at.best EXCEPT ![e.to] = won]
    BY <2>1
  <2>6. \/ won = target /\ Replaces(target, old)
        \/ won = old /\ ~Replaces(target, old)
    OBVIOUS
  <2>7. /\ target.pressure = e.pressure /\ old.pressure \in Nat
        /\ target.pressure \in Nat
    BY <1>2, <1>4 DEF Target
  <2>8. Replaces(target, old) => target.pressure >= old.pressure
    BY <2>7 DEF Replaces
  <2>9. ~Replaces(target, old) => old.pressure >= target.pressure
    BY <2>7 DEF Replaces
  <2> HIDE DEF won, target, old
  <2>10. /\ won.pressure >= e.pressure
         /\ \/ won = old
            \/ won = target /\ target.pressure >= old.pressure
    <3>1. CASE won = target /\ Replaces(target, old)
      BY <2>7, <2>8, <3>1
    <3>2. CASE won = old /\ ~Replaces(target, old)
      BY <2>7, <2>9, <3>2
    <3> QED BY <2>6, <3>1, <3>2
  <2>11. next.best[e.to] = won
    BY <1>1, <1>2, <2>5
  <2>12. \A r \in ResourceIds(t) : r # e.to => next.best[r] = at.best[r]
    BY <1>1, <2>5
  <2>13. New(g, at, e) /\ target = TargetOf(h, e) /\ old = at.best[e.to]
    BY <1>6, <1>9 DEF New, TargetOf, target, old
  <2>14. ASSUME NEW r \in ResourceIds(t)
         PROVE  \/ next.best[r] = at.best[r]
                \/ /\ New(g, at, e) /\ r = e.to
                   /\ next.best[r] = TargetOf(h, e)
                   /\ next.best[r].pressure >= at.best[r].pressure
    BY <2>10, <2>11, <2>12, <2>13
  <2>15. VisitStep(t, g, h, at, e, next)
    BY <2>4, <2>5, <2>10, <2>11, <2>13, <2>14 DEF VisitStep
  <2> QED BY <2>15 DEF next
<1> QED BY <1>7, <1>8, <1>9

\* The edges s, visited in turn.
VisitAll(g, h, base, s) == FoldLeft(LAMBDA a, e : Visit(g, h, a, e), base, s)

\* How FoldLeft defines its result for the first places of a list of edges.
VisitRule(g, h, base, s, f) ==
  f = [S \in SUBSET DOMAIN s |->
         IF S = {} THEN base ELSE Visit(g, h, f[S \ {Max(S)}], s[Max(S)])]

\* acc holds the states of the search after each of the edges.
Visits(g, h, base, s, acc) ==
  acc[0] = base /\ \A m \in 1..Len(s) : acc[m] = Visit(g, h, acc[m - 1], s[m])

\* The fold over a list of edges visits them in turn.
LEMMA VisitFold ==
  ASSUME NEW t \in Snapshot(Nat, Nat), NEW g, NEW h \in Nat,
         NEW base \in SpreadState(t), NEW s \in Seq(Edge(t))
  PROVE  \E acc : /\ Visits(g, h, base, s, acc)
                  /\ VisitAll(g, h, base, s) = acc[Len(s)]
<1> DEFINE k == Len(s)
           A == SpreadState(t)
           F == [x \in (1..k) \X A |-> Visit(g, h, x[2], s[x[1]])]
           it == CHOOSE f : VisitRule(g, h, base, s, f)
<1>1. k \in Nat /\ DOMAIN s = 1..k /\ \A i \in 1..k : s[i] \in Edge(t)
  BY Places
<1>2. VisitAll(g, h, base, s) = it[1..k]
  BY <1>1 DEF VisitAll, FoldLeft, MapThenFoldSet, VisitRule
<1>3. F \in [(1..k) \X A -> A]
  <2>1. \A x \in (1..k) \X A : s[x[1]] \in Edge(t) /\ x[2] \in A
    BY <1>1
  <2>2. \A x \in (1..k) \X A : Visit(g, h, x[2], s[x[1]]) \in A
    BY <2>1, VisitFacts DEF VisitStep
  <2> QED BY <2>2
<1>4. PICK f \in [SUBSET (1..k) -> A] : Folds(k, base, F, f)
  <2> HIDE DEF F, A, k
  <2>1. base \in A
    BY DEF A
  <2> QED BY <1>1, <1>3, <2>1, FoldExists
<1>5. \A S \in SUBSET (1..k) : S # {} => Max(S) \in S
  <2> TAKE S \in SUBSET (1..k)
  <2>1. IsFiniteSet(1..k) /\ 1..k \in SUBSET Nat
    BY <1>1, FS_Interval
  <2>2. S \in SUBSET Nat /\ IsFiniteSet(S)
    BY <2>1, FS_Subset
  <2> QED BY <2>2, MaxFacts
<1>6. \A S \in SUBSET (1..k) : S # {} => f[S] = Visit(g, h, f[S \ {Max(S)}], s[Max(S)])
  <2> SUFFICES ASSUME NEW S \in SUBSET (1..k), S # {}
               PROVE  f[S] = Visit(g, h, f[S \ {Max(S)}], s[Max(S)])
    OBVIOUS
  <2>1. f[S] = F[<<Max(S), f[S \ {Max(S)}]>>]
    BY <1>4 DEF Folds
  <2>2. PICK m \in 1..k : m = Max(S)
    BY <1>5
  <2>3. PICK a \in A : a = f[S \ {Max(S)}]
    BY <1>4
  <2>4. F[<<m, a>>] = Visit(g, h, a, s[m])
    OBVIOUS
  <2> QED BY <2>1, <2>2, <2>3, <2>4
<1>7. VisitRule(g, h, base, s, f)
  <2>1. f[{}] = base
    BY <1>4 DEF Folds
  <2> HIDE DEF F
  <2>2. f = [S \in SUBSET (1..k) |-> f[S]]
    BY <1>4
  <2>3. \A S \in SUBSET (1..k) :
          f[S] = IF S = {} THEN base ELSE Visit(g, h, f[S \ {Max(S)}], s[Max(S)])
    BY <1>6, <2>1
  <2> QED BY <1>1, <2>2, <2>3 DEF VisitRule
<1>8. VisitRule(g, h, base, s, it)
  BY <1>7
<1> HIDE DEF it, F
<1> DEFINE acc == [m \in 0..k |-> it[1..m]]
<1>9. acc[0] = base
  <2>1. 1..0 = {} /\ 0 \in 0..k
    BY <1>1
  <2>2. it[{}] = base
    BY <1>8 DEF VisitRule
  <2> QED BY <2>1, <2>2
<1>10. \A m \in 1..k : acc[m] = Visit(g, h, acc[m - 1], s[m])
  <2> TAKE m \in 1..k
  <2>1. m \in Nat \ {0} /\ m - 1 \in 0..k /\ m \in 0..k
    BY <1>1
  <2>2. Max(1..m) = m /\ (1..m) \ {m} = 1..(m - 1) /\ 1..m # {}
    BY <2>1, MaxInterval
  <2>3. 1..m \in SUBSET DOMAIN s
    BY <1>1
  <2>4. it[1..m] = Visit(g, h, it[(1..m) \ {Max(1..m)}], s[Max(1..m)])
    BY <1>8, <2>2, <2>3 DEF VisitRule
  <2>5. acc[m] = it[1..m] /\ acc[m - 1] = it[1..(m - 1)]
    BY <2>1
  <2> QED BY <2>2, <2>4, <2>5
<1>11. acc[k] = it[1..k]
  BY <1>1
<1> HIDE DEF acc
<1>12. Visits(g, h, base, s, acc)
  BY <1>9, <1>10 DEF Visits
<1> QED BY <1>2, <1>11, <1>12

\* Appending adds an element.
LEMMA AppendElements ==
  ASSUME NEW E, NEW s \in Seq(E), NEW x \in E
  PROVE  ToSet(Append(s, x)) = ToSet(s) \cup {x}
<1> DEFINE u == <<x>>
<1>1. Append(s, x) = s \o u
  OBVIOUS
<1>2. u \in Seq(E) /\ ToSet(u) = {x}
  BY DEF ToSet
<1> HIDE DEF u
<1>3. ToSet(s \o u) = ToSet(s) \cup ToSet(u)
  BY <1>2, ConcatElements
<1> QED BY <1>1, <1>2, <1>3

\* The places that the first m edges lead to.
Reach(s, m) == {s[i].to : i \in 1..m}

\* What the search holds after the first m of the edges s, all of pressure p,
\* that lead h hops from the source.
Seen(t, g, h, p, base, s, m, a) ==
  /\ a \in SpreadState(t)
  /\ a.visited = base.visited \cup Reach(s, m)
  /\ ToSet(a.frontier) = IF Strong(g, p) THEN (Reach(s, m) \ base.visited) \X {p} ELSE {}
  /\ \A r \in ResourceIds(t) : a.best[r].pressure >= base.best[r].pressure
  /\ Strong(g, p) => \A r \in Reach(s, m) \ base.visited : a.best[r].pressure >= p
  /\ \A r \in ResourceIds(t) :
       \/ a.best[r] = base.best[r]
       \/ /\ Strong(g, p) /\ r \notin base.visited
          /\ \E i \in 1..m : s[i].to = r /\ a.best[r] = TargetOf(h, s[i])

LEMMA SeenStep ==
  ASSUME NEW t \in Snapshot(Nat, Nat), NEW g, NEW h \in Nat, NEW p \in Nat,
         NEW base \in SpreadState(t), NEW s \in Seq(Edge(t)), NEW m \in 1..Len(s),
         \A i \in 1..Len(s) : s[i].pressure = p,
         NEW a, NEW b, Seen(t, g, h, p, base, s, m - 1, a), b = Visit(g, h, a, s[m])
  PROVE  Seen(t, g, h, p, base, s, m, b)
<1> DEFINE e == s[m]
           R == Reach(s, m - 1)
           V == base.visited
<1>1. Len(s) \in Nat /\ e \in Edge(t) /\ m \in Nat
  BY Places
<1>2. e.to \in ResourceIds(t) /\ e.pressure = p
  BY <1>1 DEF Edge
<1>3. e.to \in Nat
  BY <1>2, ResourceIdsType
<1>4. a \in SpreadState(t)
  BY DEF Seen
<1>5. VisitStep(t, g, h, a, e, b)
  BY <1>1, <1>4, VisitFacts
<1>6. Reach(s, m) = R \cup {e.to}
  <2>1. 1..m = (1..(m - 1)) \cup {m}
    BY <1>1
  <2> QED BY <2>1 DEF Reach
<1>7. New(g, a, e) <=> e.to \notin V \cup R /\ Strong(g, p)
  BY <1>2 DEF New, Seen
<1> HIDE DEF e, R
<1>8. b.visited = V \cup Reach(s, m)
  BY <1>5, <1>6 DEF Seen, VisitStep, R
<1>9. ToSet(b.frontier) = IF Strong(g, p) THEN (Reach(s, m) \ V) \X {p} ELSE {}
  <2>1. ToSet(a.frontier) = IF Strong(g, p) THEN (R \ V) \X {p} ELSE {}
    BY DEF Seen, R
  <2>2. CASE New(g, a, e)
    <3>1. b.frontier = Append(a.frontier, <<e.to, p>>)
      BY <1>2, <1>5, <2>2 DEF VisitStep
    <3>2. a.frontier \in Seq(Nat \X Nat) /\ <<e.to, p>> \in Nat \X Nat
      BY <1>3, <1>4 DEF SpreadState
    <3>3. ToSet(b.frontier) = ToSet(a.frontier) \cup {<<e.to, p>>}
      <4> DEFINE x == <<e.to, p>>
                 E == Nat \X Nat
      <4>1. a.frontier \in Seq(E) /\ x \in E /\ b.frontier = Append(a.frontier, x)
        BY <3>1, <3>2
      <4> HIDE DEF x, E
      <4>2. ToSet(Append(a.frontier, x)) = ToSet(a.frontier) \cup {x}
        BY <4>1, AppendElements
      <4> QED BY <4>1, <4>2 DEF x
    <3>4. Reach(s, m) \ V = (R \ V) \cup {e.to} /\ Strong(g, p)
      BY <1>6, <1>7, <2>2
    <3>5. ((R \ V) \X {p}) \cup {<<e.to, p>>} = ((R \ V) \cup {e.to}) \X {p}
      OBVIOUS
    <3> QED BY <2>1, <3>3, <3>4, <3>5
  <2>3. CASE ~New(g, a, e)
    <3>1. b.frontier = a.frontier
      BY <1>5, <2>3 DEF VisitStep
    <3>2. Strong(g, p) => Reach(s, m) \ V = R \ V
      BY <1>6, <1>7, <2>3
    <3> QED BY <2>1, <3>1, <3>2
  <2> QED BY <2>2, <2>3
<1>10. ASSUME NEW r \in ResourceIds(t)
       PROVE  /\ b.best[r].pressure \in Nat /\ a.best[r].pressure \in Nat
              /\ base.best[r].pressure \in Nat
  <2>1. b \in SpreadState(t)
    BY <1>5 DEF VisitStep
  <2> QED BY <1>4, <2>1 DEF SpreadState, Target
<1>11. ASSUME NEW r \in ResourceIds(t) PROVE b.best[r].pressure >= a.best[r].pressure
  <2>1. b.best[r] = a.best[r] \/ b.best[r].pressure >= a.best[r].pressure
    BY <1>5 DEF VisitStep
  <2> QED BY <1>10, <2>1
<1>12. ASSUME NEW r \in ResourceIds(t) PROVE b.best[r].pressure >= base.best[r].pressure
  <2>1. a.best[r].pressure >= base.best[r].pressure
    BY DEF Seen
  <2> QED BY <1>10, <1>11, <2>1
<1>13. ASSUME Strong(g, p), NEW r \in Reach(s, m) \ V PROVE b.best[r].pressure >= p
  <2>1. CASE r \in R
    <3>1. a.best[r].pressure >= p
      BY <1>13, <2>1 DEF Seen, R
    <3>2. r \in ResourceIds(t)
      <4>1. PICK i \in 1..(m - 1) : s[i].to = r
        BY <2>1 DEF R, Reach
      <4>2. i \in 1..Len(s)
        BY <1>1
      <4>3. s[i] \in Edge(t)
        BY <4>2, Places
      <4> QED BY <4>1, <4>3 DEF Edge
    <3> QED BY <1>10, <1>11, <3>1, <3>2
  <2>2. CASE r \notin R
    <3>1. r = e.to /\ New(g, a, e)
      BY <1>6, <1>7, <1>13, <2>2
    <3> QED BY <1>2, <1>5, <3>1 DEF VisitStep
  <2> QED BY <2>1, <2>2
<1>14. ASSUME NEW r \in ResourceIds(t)
       PROVE  \/ b.best[r] = base.best[r]
              \/ /\ Strong(g, p) /\ r \notin V
                 /\ \E i \in 1..m : s[i].to = r /\ b.best[r] = TargetOf(h, s[i])
  <2>1. CASE b.best[r] = a.best[r]
    <3>1. \/ a.best[r] = base.best[r]
          \/ /\ Strong(g, p) /\ r \notin V
             /\ \E i \in 1..(m - 1) : s[i].to = r /\ a.best[r] = TargetOf(h, s[i])
      BY DEF Seen
    <3>2. \A i \in 1..(m - 1) : i \in 1..m
      BY <1>1
    <3> QED BY <2>1, <3>1, <3>2
  <2>2. CASE b.best[r] # a.best[r]
    <3>1. New(g, a, e) /\ r = e.to /\ b.best[r] = TargetOf(h, e)
      BY <1>5, <2>2 DEF VisitStep
    <3>2. m \in 1..m
      BY <1>1
    <3> QED BY <1>7, <3>1, <3>2 DEF e
  <2> QED BY <2>1, <2>2
<1>15. b \in SpreadState(t)
  BY <1>5 DEF VisitStep
<1> QED BY <1>8, <1>9, <1>12, <1>13, <1>14, <1>15 DEF Seen

\* The places a hop away from X.
Out(t, g, X) == UNION {{x[1] : x \in NeighbourSet(t, r, g)} : r \in X}

\* One level, from a frontier X whose neighbours feel pressure p: what was not
\* visited yet is the next frontier, if the pressure is strong, and what is best
\* there is no weaker and came from X, or was there before.
LevelStep(t, g, h, p, at, X, next) ==
  /\ next \in SpreadState(t)
  /\ next.visited = at.visited \cup Out(t, g, X)
  /\ ToSet(next.frontier) =
       IF Strong(g, p) THEN (Out(t, g, X) \ at.visited) \X {p} ELSE {}
  /\ \A r \in ResourceIds(t) : next.best[r].pressure >= at.best[r].pressure
  /\ Strong(g, p) => \A r \in Out(t, g, X) \ at.visited : next.best[r].pressure >= p
  /\ \A r \in ResourceIds(t) :
       \/ next.best[r] = at.best[r]
       \/ /\ Strong(g, p) /\ r \in Out(t, g, X) \ at.visited
          /\ next.best[r].hops = h /\ next.best[r].pressure = p
          /\ next.best[r].from \in X
          /\ <<r, next.best[r].path>> \in NeighbourSet(t, next.best[r].from, g)

LEMMA LevelFacts ==
  ASSUME NEW t \in Snapshot(Nat, Nat), ValidTopology(t), NEW g \in PropagationPolicy,
         NEW h \in Nat, NEW at \in SpreadState(t), NEW X, NEW q \in Nat,
         ToSet(at.frontier) = X \X {q}
  PROVE  LevelStep(t, g, h, (q * g.decay) \div Unit, at, X, Level(t, g, h, at))
<1> DEFINE p == (q * g.decay) \div Unit
           base == [at EXCEPT !.frontier = <<>>]
           s == Outward(t, at.frontier, g)
           next == Level(t, g, h, at)
           k == Len(s)
           V == at.visited
<1>1. p \in Nat
  <2>1. g.decay \in 0..Unit
    BY DEF PropagationPolicy
  <2> QED BY <2>1, HopWeakens
<1>2. at.frontier \in Seq(Nat \X Nat)
  BY DEF SpreadState
<1>3. /\ base \in SpreadState(t) /\ base.visited = V /\ base.best = at.best
      /\ base.frontier = <<>>
  <2>1. <<>> \in Seq(Nat \X Nat)
    OBVIOUS
  <2>2. /\ at.visited \in SUBSET Nat /\ at.best \in [ResourceIds(t) -> Target]
        /\ at = [visited |-> at.visited, frontier |-> at.frontier, best |-> at.best]
    BY DEF SpreadState
  <2>3. base = [visited |-> at.visited, frontier |-> <<>>, best |-> at.best]
    BY <2>2
  <2> HIDE DEF base
  <2> QED BY <2>1, <2>2, <2>3 DEF SpreadState
<1>4. /\ s \in Seq(Edge(t))
      /\ \A e : e \in ToSet(s) <=>
           \E i \in DOMAIN at.frontier : \E x \in NeighbourSet(t, at.frontier[i][1], g) :
             e = EdgeTo(g, at.frontier[i][1], at.frontier[i][2], x)
  BY <1>2, OutwardFacts
<1>5. k \in Nat /\ DOMAIN s = 1..k
  BY <1>4, Places
<1>6. \A y : y \in ToSet(at.frontier) <=> \E i \in DOMAIN at.frontier : at.frontier[i] = y
  BY DEF ToSet
<1>7. ASSUME NEW e
      PROVE  e \in ToSet(s) <=> \E r \in X : \E x \in NeighbourSet(t, r, g) : e = EdgeTo(g, r, q, x)
  <2>1. ASSUME NEW r \in X, NEW x \in NeighbourSet(t, r, g), e = EdgeTo(g, r, q, x)
        PROVE  e \in ToSet(s)
    <3>1. PICK i \in DOMAIN at.frontier : at.frontier[i] = <<r, q>>
      BY <1>6
    <3>2. at.frontier[i][1] = r /\ at.frontier[i][2] = q
      BY <3>1
    <3> HIDE DEF s
    <3> QED BY <1>4, <2>1, <3>2
  <2>2. ASSUME e \in ToSet(s)
        PROVE  \E r \in X : \E x \in NeighbourSet(t, r, g) : e = EdgeTo(g, r, q, x)
    <3> HIDE DEF s
    <3>1. PICK i \in DOMAIN at.frontier : \E x \in NeighbourSet(t, at.frontier[i][1], g) :
             e = EdgeTo(g, at.frontier[i][1], at.frontier[i][2], x)
      BY <1>4, <2>2
    <3>2. at.frontier[i] \in X \X {q}
      BY <1>6
    <3>3. at.frontier[i][1] \in X /\ at.frontier[i][2] = q
      BY <3>2
    <3> QED BY <3>1, <3>3
  <2> QED BY <2>1, <2>2
<1> HIDE DEF s, base
<1>8. ASSUME NEW i \in 1..k
      PROVE  \E r \in X : \E x \in NeighbourSet(t, r, g) : s[i] = EdgeTo(g, r, q, x)
  <2>1. s[i] \in ToSet(s)
    BY <1>5 DEF ToSet
  <2> QED BY <1>7, <2>1
<1>9. ASSUME NEW i \in 1..k PROVE s[i].pressure = p
  <2>1. PICK r \in X : \E x \in NeighbourSet(t, r, g) : s[i] = EdgeTo(g, r, q, x)
    BY <1>8
  <2>2. PICK x \in NeighbourSet(t, r, g) : s[i] = EdgeTo(g, r, q, x)
    BY <2>1
  <2> QED BY <2>2 DEF EdgeTo
<1>10. PICK acc : /\ Visits(g, h, base, s, acc)
                  /\ VisitAll(g, h, base, s) = acc[Len(s)]
  BY <1>3, <1>4, VisitFold
<1>11. next = acc[k]
  <2>1. next = VisitAll(g, h, base, s)
    BY DEF Level, VisitAll, base, s
  <2> QED BY <1>10, <2>1
<1> HIDE DEF next
<1> DEFINE S == {m \in Nat : Seen(t, g, h, p, base, s, m, acc[m])}
<1>12. 0 \in S
  <2>1. acc[0] = base
    BY <1>10 DEF Visits
  <2>2. 1..0 = {} /\ Reach(s, 0) = {} /\ ToSet(<<>>) = {}
    BY DEF Reach, ToSet
  <2>3. \A r \in ResourceIds(t) : base.best[r].pressure >= base.best[r].pressure
    BY <1>3 DEF SpreadState, Target
  <2> HIDE DEF p
  <2>4. Seen(t, g, h, p, base, s, 0, base)
    BY <1>3, <2>2, <2>3 DEF Seen
  <2> QED BY <2>1, <2>4
<1>13. ASSUME NEW n \in 0..(k - 1), n \in S PROVE n + 1 \in S
  <2>1. PICK m \in 1..Len(s) : m = n + 1
    BY <1>5
  <2>2. m - 1 = n /\ n \in Nat /\ m \in Nat
    BY <1>5, <2>1
  <2>3. Seen(t, g, h, p, base, s, m - 1, acc[m - 1])
    BY <1>13, <2>2
  <2>4. acc[m] = Visit(g, h, acc[m - 1], s[m])
    BY <1>10 DEF Visits
  <2> HIDE DEF p
  <2>5. Seen(t, g, h, p, base, s, m, acc[m])
    BY <1>1, <1>3, <1>4, <1>9, <2>3, <2>4, SeenStep
  <2> QED BY <2>1, <2>2, <2>5
<1> HIDE DEF S
<1>14. k \in S
  <2>1. \A n \in 0..k : n \in S
    BY <1>5, <1>12, <1>13, UpTo
  <2> QED BY <1>5, <2>1
<1>15. Seen(t, g, h, p, base, s, k, next)
  BY <1>11, <1>14 DEF S
<1>16. Reach(s, k) = Out(t, g, X)
  <2>1. ASSUME NEW y \in Reach(s, k) PROVE y \in Out(t, g, X)
    <3>1. PICK i \in 1..k : s[i].to = y
      BY DEF Reach
    <3>2. PICK r \in X : \E x \in NeighbourSet(t, r, g) : s[i] = EdgeTo(g, r, q, x)
      BY <1>8
    <3>3. PICK x \in NeighbourSet(t, r, g) : s[i] = EdgeTo(g, r, q, x)
      BY <3>2
    <3>4. x[1] = y
      BY <3>1, <3>3 DEF EdgeTo
    <3> QED BY <3>4 DEF Out
  <2>2. ASSUME NEW y \in Out(t, g, X) PROVE y \in Reach(s, k)
    <3>1. PICK r \in X : \E x \in NeighbourSet(t, r, g) : x[1] = y
      BY DEF Out
    <3>2. PICK x \in NeighbourSet(t, r, g) : x[1] = y
      BY <3>1
    <3>3. EdgeTo(g, r, q, x) \in ToSet(s)
      BY <1>7
    <3>4. PICK i \in 1..k : s[i] = EdgeTo(g, r, q, x)
      BY <1>5, <3>3 DEF ToSet
    <3>5. s[i].to = y
      BY <3>2, <3>4 DEF EdgeTo
    <3> QED BY <3>5 DEF Reach
  <2> QED BY <2>1, <2>2
<1> HIDE DEF p
<1>17. ASSUME NEW r \in ResourceIds(t)
       PROVE  \/ next.best[r] = at.best[r]
              \/ /\ Strong(g, p) /\ r \in Out(t, g, X) \ V
                 /\ next.best[r].hops = h /\ next.best[r].pressure = p
                 /\ next.best[r].from \in X
                 /\ <<r, next.best[r].path>> \in NeighbourSet(t, next.best[r].from, g)
  <2>1. CASE next.best[r] = base.best[r]
    BY <1>3, <2>1
  <2>2. CASE next.best[r] # base.best[r]
    <3>1. /\ Strong(g, p) /\ r \notin V
          /\ \E i \in 1..k : s[i].to = r /\ next.best[r] = TargetOf(h, s[i])
      BY <1>3, <1>15, <2>2 DEF Seen
    <3>2. PICK i \in 1..k : s[i].to = r /\ next.best[r] = TargetOf(h, s[i])
      BY <3>1
    <3>3. PICK o \in X : \E x \in NeighbourSet(t, o, g) : s[i] = EdgeTo(g, o, q, x)
      BY <1>8
    <3>4. PICK x \in NeighbourSet(t, o, g) : s[i] = EdgeTo(g, o, q, x)
      BY <3>3
    <3>5. /\ next.best[r].hops = h /\ next.best[r].pressure = p
          /\ next.best[r].from = o /\ next.best[r].path = x[2] /\ x[1] = r
      BY <1>9, <3>2, <3>4 DEF TargetOf, EdgeTo
    <3>6. r \in Out(t, g, X)
      BY <3>5 DEF Out
    <3>7. x = <<x[1], x[2]>>
      <4>1. x \in ResourceIds(t) \X Nat
        BY NeighbourSetType
      <4> QED BY <4>1
    <3> QED BY <3>1, <3>5, <3>6, <3>7
  <2> QED BY <2>1, <2>2
<1>18. LevelStep(t, g, h, p, at, X, next)
  BY <1>3, <1>15, <1>16, <1>17 DEF Seen, LevelStep
<1> QED BY <1>18 DEF p, next

-----------------------------------------------------------------------------
(* The search from one source *)

\* The places within each number of hops.
LEMMA WithinFacts ==
  ASSUME NEW t \in Snapshot(Nat, Nat), ValidTopology(t), NEW g \in PropagationPolicy,
         NEW s \in ResourceIds(t)
  PROVE  LET W == Within(t, g, s)
         IN  /\ W[0] = {s}
             /\ \A n \in 1..g.depth : W[n] = W[n - 1] \cup Out(t, g, W[n - 1])
             /\ \A n \in 0..g.depth : W[n] \in SUBSET ResourceIds(t)
<1> DEFINE k == g.depth
           A == SUBSET ResourceIds(t)
           F == [x \in (1..k) \X A |-> x[2] \cup Out(t, g, x[2])]
           Rule(f) == f = [n \in 0..k |-> IF n = 0 THEN {s} ELSE f[n - 1] \cup Out(t, g, f[n - 1])]
           W == CHOOSE f : Rule(f)
<1>1. k \in Nat
  BY TopologyAssumption DEF PropagationPolicy
<1>2. W = Within(t, g, s)
  BY DEF Within, Out
<1>3. \A X \in A : Out(t, g, X) \in A
  <2>1. \A r : NeighbourSet(t, r, g) \in SUBSET (ResourceIds(t) \X Nat)
    BY NeighbourSetType
  <2> QED BY <2>1 DEF Out
<1>4. {s} \in A
  OBVIOUS
<1>5. F \in [(1..k) \X A -> A]
  BY <1>3
<1> HIDE DEF k, A
<1>6. PICK f \in [0..k -> A] : Recurs(k, {s}, F, f)
  <2> HIDE DEF F
  <2> QED BY <1>1, <1>4, <1>5, Recursion
<1>7. f[0] = {s} /\ \A n \in 1..k : f[n] = f[n - 1] \cup Out(t, g, f[n - 1])
  <2>1. f[0] = {s}
    BY <1>6 DEF Recurs
  <2>2. ASSUME NEW n \in 1..k PROVE f[n] = f[n - 1] \cup Out(t, g, f[n - 1])
    <3>1. f[n] = F[<<n, f[n - 1]>>]
      BY <1>6 DEF Recurs
    <3>2. f[n - 1] \in A
      BY <1>1, <1>6
    <3> QED BY <3>1, <3>2
  <2> QED BY <2>1, <2>2
<1> HIDE DEF F
<1>8. Rule(f)
  <2>1. f = [n \in 0..k |-> f[n]]
    BY <1>6
  <2>2. \A n \in 0..k : f[n] = IF n = 0 THEN {s} ELSE f[n - 1] \cup Out(t, g, f[n - 1])
    BY <1>1, <1>7
  <2> QED BY <2>1, <2>2
<1>9. Rule(W)
  <2> HIDE DEF Rule
  <2> QED BY <1>8
<1> HIDE DEF W
<1>10. W[0] = {s}
  BY <1>1, <1>9
<1>11. ASSUME NEW n \in 1..k PROVE W[n] = W[n - 1] \cup Out(t, g, W[n - 1])
  <2>1. n \in 0..k /\ n # 0
    BY <1>1
  <2> QED BY <1>9, <2>1
<1> DEFINE S == {n \in Nat : W[n] \in A}
<1>12. 0 \in S
  BY <1>4, <1>10
<1>13. ASSUME NEW n \in 0..(k - 1), n \in S PROVE n + 1 \in S
  <2>1. PICK m \in 1..k : m = n + 1
    BY <1>1
  <2>2. m - 1 = n /\ m \in Nat
    BY <1>1, <2>1
  <2>3. W[n] \in A
    BY <1>13
  <2>4. W[m] = W[n] \cup Out(t, g, W[n])
    BY <1>11, <2>2
  <2>5. Out(t, g, W[n]) \in A
    BY <1>3, <2>3
  <2>6. W[m] \in A
    BY <2>3, <2>4, <2>5 DEF A
  <2> QED BY <2>1, <2>2, <2>6
<1> HIDE DEF S
<1>14. \A n \in 0..k : n \in S
  BY <1>1, <1>12, <1>13, UpTo
<1>15. \A n \in 0..k : W[n] \in A
  BY <1>14 DEF S
<1> QED BY <1>2, <1>10, <1>11, <1>15 DEF k, A

\* The pressure that is left after each number of hops.
LEMMA DecayedFacts ==
  ASSUME NEW g \in PropagationPolicy, NEW v \in Severity
  PROVE  LET P == Decayed(g, v)
         IN  /\ P[0] = PressureOf(v)
             /\ \A n \in 1..g.depth : P[n] = (P[n - 1] * g.decay) \div Unit /\ P[n] <= P[n - 1]
             /\ \A n \in 0..g.depth : P[n] \in Nat /\ P[n] <= PressureOf(v)
<1> DEFINE k == g.depth
           base == PressureOf(v)
           hop(p) == (p * g.decay) \div Unit
           F == [x \in (1..k) \X Nat |-> hop(x[2])]
           Rule(f) == f = [n \in 0..k |-> IF n = 0 THEN base ELSE hop(f[n - 1])]
           P == CHOOSE f : Rule(f)
<1>1. k \in Nat
  BY TopologyAssumption DEF PropagationPolicy
<1>2. P = Decayed(g, v)
  BY DEF Decayed
<1>3. \A p \in Nat : hop(p) \in Nat /\ hop(p) <= p
  <2>1. g.decay \in 0..Unit
    BY DEF PropagationPolicy
  <2> QED BY <2>1, HopWeakens
<1>4. base \in Nat
  BY PressureValues
<1> HIDE DEF hop, k, base
<1>5. F \in [(1..k) \X Nat -> Nat]
  BY <1>3
<1>6. PICK f \in [0..k -> Nat] : Recurs(k, base, F, f)
  <2> HIDE DEF F
  <2> QED BY <1>1, <1>4, <1>5, Recursion
<1>7. f[0] = base /\ \A n \in 1..k : f[n] = hop(f[n - 1])
  <2>1. f[0] = base
    BY <1>6 DEF Recurs
  <2>2. ASSUME NEW n \in 1..k PROVE f[n] = hop(f[n - 1])
    <3>1. f[n] = F[<<n, f[n - 1]>>]
      BY <1>6 DEF Recurs
    <3>2. f[n - 1] \in Nat
      BY <1>1, <1>6
    <3> QED BY <3>1, <3>2
  <2> QED BY <2>1, <2>2
<1> HIDE DEF F
<1>8. Rule(f)
  <2>1. f = [n \in 0..k |-> f[n]]
    BY <1>6
  <2>2. \A n \in 0..k : f[n] = IF n = 0 THEN base ELSE hop(f[n - 1])
    BY <1>1, <1>7
  <2> QED BY <2>1, <2>2
<1>9. Rule(P)
  <2> HIDE DEF Rule
  <2> QED BY <1>8
<1> HIDE DEF P
<1>10. P[0] = base
  BY <1>1, <1>9
<1>11. ASSUME NEW n \in 1..k PROVE P[n] = hop(P[n - 1])
  <2>1. n \in 0..k /\ n # 0
    BY <1>1
  <2> QED BY <1>9, <2>1
<1> DEFINE S == {n \in Nat : P[n] \in Nat /\ P[n] <= base}
<1>12. 0 \in S
  BY <1>4, <1>10
<1>13. ASSUME NEW n \in 0..(k - 1), n \in S PROVE n + 1 \in S
  <2>1. PICK m \in 1..k : m = n + 1
    BY <1>1
  <2>2. m - 1 = n /\ m \in Nat
    BY <1>1, <2>1
  <2>3. P[n] \in Nat /\ P[n] <= base
    BY <1>13
  <2>4. P[m] = hop(P[n])
    BY <1>11, <2>2
  <2>5. hop(P[n]) \in Nat /\ hop(P[n]) <= P[n]
    BY <1>3, <2>3
  <2>6. P[m] \in Nat /\ P[m] <= base
    BY <1>4, <2>3, <2>4, <2>5
  <2> QED BY <2>1, <2>2, <2>6
<1> HIDE DEF S
<1>14. \A n \in 0..k : n \in S
  BY <1>1, <1>12, <1>13, UpTo
<1>15. \A n \in 0..k : P[n] \in Nat /\ P[n] <= base
  BY <1>14 DEF S
<1>16. \A n \in 1..k : P[n] <= P[n - 1]
  <2> TAKE n \in 1..k
  <2>1. n - 1 \in 0..k
    BY <1>1
  <2> QED BY <1>3, <1>11, <1>15, <2>1
<1>17. \A n \in 1..k : P[n] = (P[n - 1] * g.decay) \div Unit
  BY <1>11 DEF hop
<1> QED BY <1>2, <1>10, <1>15, <1>16, <1>17 DEF k, base

\* The states of the search with one pressure on its frontier.
Uniform(t) ==
  {a \in SpreadState(t) : \E X \in SUBSET Nat, q \in Nat : ToSet(a.frontier) = X \X {q}}

\* lv holds the states of the search from s after each level.
Levels(t, g, at, s, v, lv) ==
  /\ lv[0] = [at EXCEPT !.visited = {s}, !.frontier = << <<s, PressureOf(v)>> >>]
  /\ \A n \in 1..g.depth : lv[n] = Level(t, g, n, lv[n - 1])

LEMMA SpreadLevels ==
  ASSUME NEW t \in Snapshot(Nat, Nat), ValidTopology(t), NEW g \in PropagationPolicy,
         NEW at \in SpreadState(t), NEW s \in ResourceIds(t), NEW v \in Severity
  PROVE  \E lv \in [0..g.depth -> Uniform(t)] :
           Levels(t, g, at, s, v, lv) /\ Spread(t, g, at, s, v) = lv[g.depth]
<1> DEFINE k == g.depth
           A == Uniform(t)
           base == [at EXCEPT !.visited = {s}, !.frontier = << <<s, PressureOf(v)>> >>]
           F == [x \in (1..k) \X A |-> Level(t, g, x[1], x[2])]
           Rule(f) == f = [n \in 0..k |-> IF n = 0 THEN base ELSE Level(t, g, n, f[n - 1])]
           L == CHOOSE f : Rule(f)
<1>1. k \in Nat
  BY TopologyAssumption DEF PropagationPolicy
<1>2. Spread(t, g, at, s, v) = L[k]
  BY DEF Spread
<1>3. ASSUME NEW h \in 1..k, NEW a \in A PROVE Level(t, g, h, a) \in A
  <2>1. PICK X \in SUBSET Nat, q \in Nat : ToSet(a.frontier) = X \X {q}
    BY DEF Uniform
  <2>2. a \in SpreadState(t) /\ h \in Nat
    BY <1>1 DEF Uniform
  <2> DEFINE p == (q * g.decay) \div Unit
             next == Level(t, g, h, a)
  <2>3. LevelStep(t, g, h, p, a, X, next)
    BY <2>1, <2>2, LevelFacts
  <2>4. p \in Nat
    <3>1. g.decay \in 0..Unit
      BY DEF PropagationPolicy
    <3> QED BY <3>1, HopWeakens
  <2> HIDE DEF p, next
  <2>5. next \in SpreadState(t)
    BY <2>3 DEF LevelStep
  <2>6. \E Y \in SUBSET Nat, o \in Nat : ToSet(next.frontier) = Y \X {o}
    <3>1. CASE Strong(g, p)
      <4> DEFINE Y == Out(t, g, X) \ a.visited
      <4>1. ToSet(next.frontier) = Y \X {p}
        BY <2>3, <3>1 DEF LevelStep
      <4>2. Y \in SUBSET Nat
        <5>1. \A r : NeighbourSet(t, r, g) \in SUBSET (ResourceIds(t) \X Nat)
          BY NeighbourSetType
        <5>2. ResourceIds(t) \in SUBSET Nat
          BY ResourceIdsType
        <5> QED BY <5>1, <5>2 DEF Out
      <4> HIDE DEF Y
      <4> QED BY <2>4, <4>1, <4>2
    <3>2. CASE ~Strong(g, p)
      <4>1. ToSet(next.frontier) = {}
        BY <2>3, <3>2 DEF LevelStep
      <4>2. {} = {} \X {p} /\ {} \in SUBSET Nat
        OBVIOUS
      <4> QED BY <2>4, <4>1, <4>2
    <3> QED BY <3>1, <3>2
  <2> QED BY <2>5, <2>6 DEF Uniform, next
<1>4. base \in A
  <2> DEFINE x == <<s, PressureOf(v)>>
             y == <<x>>
  <2>1. s \in Nat /\ PressureOf(v) \in Nat
    BY ResourceIdsType, PressureValues
  <2>2. x \in Nat \X Nat /\ {s} \X {PressureOf(v)} = {x}
    BY <2>1
  <2> HIDE DEF x
  <2>3. y \in Seq(Nat \X Nat) /\ ToSet(y) = {x}
    BY <2>2 DEF ToSet
  <2> HIDE DEF y
  <2>4. base = [visited |-> {s}, frontier |-> y, best |-> at.best]
    <3>1. base = [at EXCEPT !.visited = {s}, !.frontier = y]
      BY DEF y, x
    <3>2. at = [visited |-> at.visited, frontier |-> at.frontier, best |-> at.best]
      BY DEF SpreadState
    <3> HIDE DEF base
    <3> QED BY <3>1, <3>2
  <2>5. at.best \in [ResourceIds(t) -> Target]
    BY DEF SpreadState
  <2> HIDE DEF base
  <2>6. base \in SpreadState(t) /\ base.frontier = y
    BY <2>1, <2>3, <2>4, <2>5 DEF SpreadState
  <2>7. {s} \in SUBSET Nat
    BY <2>1
  <2> QED BY <2>1, <2>2, <2>3, <2>6, <2>7 DEF Uniform
<1> HIDE DEF k, A, base
<1>5. F \in [(1..k) \X A -> A]
  BY <1>3
<1>6. PICK f \in [0..k -> A] : Recurs(k, base, F, f)
  <2> HIDE DEF F
  <2> QED BY <1>1, <1>4, <1>5, Recursion
<1>7. f[0] = base /\ \A n \in 1..k : f[n] = Level(t, g, n, f[n - 1])
  <2>1. f[0] = base
    BY <1>6 DEF Recurs
  <2>2. ASSUME NEW n \in 1..k PROVE f[n] = Level(t, g, n, f[n - 1])
    <3>1. f[n] = F[<<n, f[n - 1]>>]
      BY <1>6 DEF Recurs
    <3>2. f[n - 1] \in A
      BY <1>1, <1>6
    <3> QED BY <3>1, <3>2
  <2> QED BY <2>1, <2>2
<1> HIDE DEF F
<1>8. Rule(f)
  <2>1. f = [n \in 0..k |-> f[n]]
    BY <1>6
  <2>2. \A n \in 0..k : f[n] = IF n = 0 THEN base ELSE Level(t, g, n, f[n - 1])
    BY <1>1, <1>7
  <2> QED BY <2>1, <2>2
<1>9. Rule(L)
  <2> HIDE DEF Rule
  <2> QED BY <1>8
<1> HIDE DEF L
<1>10. L[0] = base
  BY <1>1, <1>9
<1>11. ASSUME NEW n \in 1..k PROVE L[n] = Level(t, g, n, L[n - 1])
  <2>1. n \in 0..k /\ n # 0
    BY <1>1
  <2> QED BY <1>9, <2>1
<1> DEFINE S == {n \in Nat : L[n] \in A}
<1>12. 0 \in S
  BY <1>4, <1>10
<1>13. ASSUME NEW n \in 0..(k - 1), n \in S PROVE n + 1 \in S
  <2>1. PICK m \in 1..k : m = n + 1
    BY <1>1
  <2>2. m - 1 = n /\ m \in Nat
    BY <1>1, <2>1
  <2>3. L[n] \in A
    BY <1>13
  <2>4. L[m] = Level(t, g, m, L[n])
    BY <1>11, <2>2
  <2>5. L[m] \in A
    BY <1>3, <2>3, <2>4
  <2> QED BY <2>1, <2>2, <2>5
<1> HIDE DEF S
<1>14. \A n \in 0..k : n \in S
  BY <1>1, <1>12, <1>13, UpTo
<1>15. \A n \in 0..k : L[n] \in A
  BY <1>14 DEF S
<1>16. L \in [0..k -> A]
  <2>1. L = [n \in 0..k |-> L[n]]
    BY <1>9
  <2> QED BY <1>15, <2>1
<1>17. Levels(t, g, at, s, v, L)
  BY <1>10, <1>11 DEF Levels, base, k
<1> QED BY <1>2, <1>16, <1>17 DEF k, A

\* Pressure that is no weaker than strong pressure is strong.
LEMMA StrongOrder ==
  ASSUME NEW g \in PropagationPolicy, NEW p \in Nat, NEW q \in Nat, p <= q, Strong(g, p)
  PROVE  Strong(g, q)
<1>1. g.min \in Nat
  BY DEF PropagationPolicy
<1>2. ~(q < g.min)
  BY <1>1 DEF Strong
<1>3. ~(PressureToSeverity(p) = Clear) /\ PressureToSeverity(p) <= PressureToSeverity(q)
  BY PressureOrder DEF Strong
<1>4. PressureToSeverity(p) \in 0..3 /\ PressureToSeverity(q) \in 0..3 /\ Clear = 0
  BY PressureLevels, PressureValues DEF Clear
<1>5. ~(PressureToSeverity(q) = Clear)
  BY <1>3, <1>4
<1> QED BY <1>2, <1>5 DEF Strong

\* The places n hops from s.
Ring(t, g, s, n) ==
  IF n = 0 THEN {s} ELSE Within(t, g, s)[n] \ Within(t, g, s)[n - 1]

LEMMA RingFacts ==
  ASSUME NEW t \in Snapshot(Nat, Nat), ValidTopology(t), NEW g \in PropagationPolicy,
         NEW s \in ResourceIds(t), NEW n \in 1..g.depth
  PROVE  LET W == Within(t, g, s)
         IN  /\ W[n - 1] \cup Out(t, g, Ring(t, g, s, n - 1)) = W[n]
             /\ Out(t, g, Ring(t, g, s, n - 1)) \ W[n - 1] = Ring(t, g, s, n)
             /\ Ring(t, g, s, n - 1) \subseteq W[n - 1]
<1> DEFINE W == Within(t, g, s)
           R == Ring(t, g, s, n - 1)
<1>1. g.depth \in Nat
  BY TopologyAssumption DEF PropagationPolicy
<1>2. n \in Nat /\ n # 0
  BY <1>1
<1>3. /\ W[0] = {s}
      /\ \A m \in 1..g.depth : W[m] = W[m - 1] \cup Out(t, g, W[m - 1])
  BY WithinFacts
<1>4. Ring(t, g, s, n) = W[n] \ W[n - 1]
  BY <1>2 DEF Ring
<1>5. W[n] = W[n - 1] \cup Out(t, g, W[n - 1])
  BY <1>3
<1> HIDE DEF W
<1>6. R \subseteq W[n - 1] /\ Out(t, g, W[n - 1]) \subseteq W[n - 1] \cup Out(t, g, R)
  <2>1. CASE n = 1
    <3>1. n - 1 = 0
      BY <2>1
    <3>2. R = W[n - 1]
      BY <1>3, <3>1 DEF Ring
    <3> QED BY <3>2
  <2>2. CASE n # 1
    <3>1. PICK m \in 1..g.depth : m = n - 1
      BY <1>1, <1>2, <2>2
    <3>2. m # 0
      BY <3>1
    <3>3. W[m] = W[m - 1] \cup Out(t, g, W[m - 1])
      BY <1>3
    <3>4. R = W[m] \ W[m - 1]
      BY <3>1, <3>2 DEF Ring, W
    <3> HIDE DEF R
    <3>5. Out(t, g, W[m]) \subseteq Out(t, g, W[m - 1]) \cup Out(t, g, R)
      <4>1. \A x \in W[m] : x \in W[m - 1] \/ x \in R
        BY <3>4
      <4> QED BY <4>1 DEF Out
    <3> QED BY <3>1, <3>3, <3>4, <3>5
  <2> QED BY <2>1, <2>2
<1>7. Out(t, g, R) \subseteq Out(t, g, W[n - 1])
  BY <1>6 DEF Out
<1> HIDE DEF R
<1>8. /\ W[n - 1] \cup Out(t, g, R) = W[n]
      /\ Out(t, g, R) \ W[n - 1] = Ring(t, g, s, n)
      /\ R \subseteq W[n - 1]
  BY <1>4, <1>5, <1>6, <1>7
<1> QED BY <1>8 DEF W, R

\* What the search from s, of severity v, recorded at r: strong pressure that
\* came the shortest way, from a neighbour that is one hop closer to s.
Caused(t, g, s, v, r, target) ==
  \E m \in 1..g.depth :
    /\ Strong(g, Decayed(g, v)[m])
    /\ r \in Ring(t, g, s, m)
    /\ target.hops = m /\ target.pressure = Decayed(g, v)[m]
    /\ target.from \in Within(t, g, s)[m - 1]
    /\ <<r, target.path>> \in NeighbourSet(t, target.from, g)

\* What the search from s holds after n levels.
Searched(t, g, at, s, v, n, a) ==
  /\ a \in SpreadState(t)
  /\ \A r \in ResourceIds(t) : a.best[r].pressure >= at.best[r].pressure
  /\ \A m \in 1..n : Strong(g, Decayed(g, v)[m]) =>
       \A r \in Ring(t, g, s, m) : a.best[r].pressure >= Decayed(g, v)[m]
  /\ \A r \in ResourceIds(t) : a.best[r] = at.best[r] \/ Caused(t, g, s, v, r, a.best[r])

\* What it visited, and where its frontier is.
Fringe(t, g, s, v, n, a) ==
  IF n = 0 \/ Strong(g, Decayed(g, v)[n])
  THEN /\ a.visited = Within(t, g, s)[n]
       /\ ToSet(a.frontier) = Ring(t, g, s, n) \X {Decayed(g, v)[n]}
  ELSE ToSet(a.frontier) = {}

LEMMA SearchStep ==
  ASSUME NEW t \in Snapshot(Nat, Nat), ValidTopology(t), NEW g \in PropagationPolicy,
         NEW at \in SpreadState(t), NEW s \in ResourceIds(t), NEW v \in Severity,
         NEW n \in 1..g.depth, NEW a,
         Searched(t, g, at, s, v, n - 1, a), Fringe(t, g, s, v, n - 1, a)
  PROVE  LET next == Level(t, g, n, a)
         IN  Searched(t, g, at, s, v, n, next) /\ Fringe(t, g, s, v, n, next)
<1> DEFINE P == Decayed(g, v)
           W == Within(t, g, s)
           X == Ring(t, g, s, n - 1)
           next == Level(t, g, n, a)
<1>1. g.depth \in Nat
  BY TopologyAssumption DEF PropagationPolicy
<1>2. n \in Nat /\ n # 0 /\ n - 1 \in 0..g.depth /\ n \in 0..g.depth
  BY <1>1
<1>3. /\ P[n] = (P[n - 1] * g.decay) \div Unit /\ P[n] <= P[n - 1]
      /\ P[n] \in Nat /\ P[n - 1] \in Nat
      /\ \A m \in 0..g.depth : P[m] \in Nat
  BY <1>2, DecayedFacts
<1>4. a \in SpreadState(t)
  BY DEF Searched
<1>5. ASSUME NEW b \in SpreadState(t), NEW r \in ResourceIds(t) PROVE b.best[r].pressure \in Nat
  BY DEF SpreadState, Target
<1>6. ASSUME NEW m \in 1..g.depth, NEW r \in Ring(t, g, s, m) PROVE r \in ResourceIds(t)
  <2>1. m \in 0..g.depth /\ m # 0
    BY <1>1
  <2>2. r \in W[m]
    BY <2>1 DEF Ring
  <2> QED BY <2>1, <2>2, WithinFacts
<1> HIDE DEF next
<1>7. CASE n - 1 = 0 \/ Strong(g, P[n - 1])
  <2>1. a.visited = W[n - 1] /\ ToSet(a.frontier) = X \X {P[n - 1]}
    BY <1>7 DEF Fringe
  <2> HIDE DEF P, W, X
  <2>2. LevelStep(t, g, n, P[n], a, X, next)
    BY <1>2, <1>3, <1>4, <2>1, LevelFacts DEF next
  <2>3. /\ W[n - 1] \cup Out(t, g, X) = W[n]
        /\ Out(t, g, X) \ W[n - 1] = Ring(t, g, s, n)
        /\ X \subseteq W[n - 1]
    BY RingFacts DEF W, X
  <2>4. next \in SpreadState(t) /\ next.visited = W[n]
    BY <2>1, <2>2, <2>3 DEF LevelStep
  <2>5. ToSet(next.frontier) = IF Strong(g, P[n]) THEN Ring(t, g, s, n) \X {P[n]} ELSE {}
    BY <2>1, <2>2, <2>3 DEF LevelStep
  <2>6. Fringe(t, g, s, v, n, next)
    BY <1>2, <2>4, <2>5 DEF Fringe, P, W
  <2>7. ASSUME NEW r \in ResourceIds(t)
        PROVE  /\ next.best[r].pressure >= a.best[r].pressure
               /\ next.best[r].pressure >= at.best[r].pressure
    <3>1. next.best[r].pressure >= a.best[r].pressure
      BY <2>2 DEF LevelStep
    <3>2. a.best[r].pressure >= at.best[r].pressure
      BY DEF Searched
    <3>3. next.best[r].pressure \in Nat /\ a.best[r].pressure \in Nat /\ at.best[r].pressure \in Nat
      BY <1>4, <1>5, <2>4
    <3> QED BY <3>1, <3>2, <3>3
  <2>8. ASSUME NEW m \in 1..n, Strong(g, P[m]), NEW r \in Ring(t, g, s, m)
        PROVE  next.best[r].pressure >= P[m]
    <3>1. m \in 1..g.depth /\ m \in 0..g.depth
      BY <1>1
    <3>2. r \in ResourceIds(t)
      BY <1>6, <3>1
    <3>3. CASE m = n
      BY <2>1, <2>2, <2>3, <2>8, <3>3 DEF LevelStep
    <3>4. CASE m # n
      <4>1. m \in 1..(n - 1)
        BY <1>2, <3>4
      <4>2. a.best[r].pressure >= P[m]
        BY <2>8, <4>1 DEF Searched, P
      <4>3. next.best[r].pressure \in Nat /\ a.best[r].pressure \in Nat /\ P[m] \in Nat
        BY <1>3, <1>4, <1>5, <2>4, <3>1, <3>2
      <4> QED BY <2>7, <3>2, <4>2, <4>3
    <3> QED BY <3>3, <3>4
  <2>9. ASSUME NEW r \in ResourceIds(t)
        PROVE  next.best[r] = at.best[r] \/ Caused(t, g, s, v, r, next.best[r])
    <3>1. CASE next.best[r] = a.best[r]
      BY <3>1 DEF Searched
    <3>2. CASE next.best[r] # a.best[r]
      <4>1. /\ Strong(g, P[n]) /\ r \in Out(t, g, X) \ a.visited
            /\ next.best[r].hops = n /\ next.best[r].pressure = P[n]
            /\ next.best[r].from \in X
            /\ <<r, next.best[r].path>> \in NeighbourSet(t, next.best[r].from, g)
        BY <2>2, <3>2 DEF LevelStep
      <4>2. r \in Ring(t, g, s, n) /\ next.best[r].from \in W[n - 1]
        BY <2>1, <2>3, <4>1
      <4> QED BY <4>1, <4>2 DEF Caused, P, W
    <3> QED BY <3>1, <3>2
  <2>10. Searched(t, g, at, s, v, n, next)
    BY <2>4, <2>7, <2>8, <2>9 DEF Searched, P
  <2> QED BY <2>6, <2>10 DEF next
<1>8. CASE ~(n - 1 = 0 \/ Strong(g, P[n - 1]))
  <2>1. ToSet(a.frontier) = {} \X {0}
    BY <1>8 DEF Fringe
  <2>2. ~Strong(g, P[n])
    BY <1>3, <1>8, StrongOrder
  <2> HIDE DEF P, W, X
  <2> DEFINE p == (0 * g.decay) \div Unit
  <2>3. LevelStep(t, g, n, p, a, {}, next)
    BY <1>2, <1>4, <2>1, LevelFacts DEF next
  <2> HIDE DEF p
  <2>4. Out(t, g, {}) = {}
    BY DEF Out
  <2>5. /\ next \in SpreadState(t) /\ ToSet(next.frontier) = {}
        /\ \A r \in ResourceIds(t) : next.best[r] = a.best[r]
    BY <2>3, <2>4 DEF LevelStep
  <2>6. Fringe(t, g, s, v, n, next)
    BY <1>2, <2>2, <2>5 DEF Fringe, P
  <2>7. ASSUME NEW m \in 1..n, Strong(g, P[m]), NEW r \in Ring(t, g, s, m)
        PROVE  next.best[r].pressure >= P[m]
    <3>1. m # n /\ m \in 1..g.depth
      BY <1>1, <2>2, <2>7
    <3>2. m \in 1..(n - 1)
      BY <1>2, <3>1
    <3>3. r \in ResourceIds(t)
      BY <1>6, <3>1
    <3>4. a.best[r].pressure >= P[m]
      BY <2>7, <3>2 DEF Searched, P
    <3> QED BY <2>5, <3>3, <3>4
  <2>8. Searched(t, g, at, s, v, n, next)
    BY <2>5, <2>7 DEF Searched, P
  <2> QED BY <2>6, <2>8 DEF next
<1> QED BY <1>7, <1>8

\* The search from s leaves every resource that strong pressure of s reaches
\* with no less, and replaces only with pressure of s.
LEMMA SpreadFacts ==
  ASSUME NEW t \in Snapshot(Nat, Nat), ValidTopology(t), NEW g \in PropagationPolicy,
         NEW at \in SpreadState(t), NEW s \in ResourceIds(t), NEW v \in Severity
  PROVE  Searched(t, g, at, s, v, g.depth, Spread(t, g, at, s, v))
<1> DEFINE k == g.depth
<1>1. k \in Nat
  BY TopologyAssumption DEF PropagationPolicy
<1>2. PICK lv \in [0..k -> Uniform(t)] :
        Levels(t, g, at, s, v, lv) /\ Spread(t, g, at, s, v) = lv[k]
  BY SpreadLevels
<1> HIDE DEF k
<1> DEFINE S == {n \in Nat : Searched(t, g, at, s, v, n, lv[n]) /\ Fringe(t, g, s, v, n, lv[n])}
<1>3. 0 \in S
  <2> DEFINE x == <<s, PressureOf(v)>>
             y == <<x>>
             b == lv[0]
  <2>1. b \in SpreadState(t)
    <3>1. 0 \in 0..k
      BY <1>1
    <3>2. b \in Uniform(t)
      BY <1>2, <3>1
    <3> HIDE DEF b
    <3> QED BY <3>2 DEF Uniform
  <2>2. b = [at EXCEPT !.visited = {s}, !.frontier = y]
    BY <1>2 DEF Levels
  <2>3. at = [visited |-> at.visited, frontier |-> at.frontier, best |-> at.best]
    BY DEF SpreadState
  <2>4. ToSet(y) = {s} \X {PressureOf(v)}
    BY DEF ToSet
  <2> HIDE DEF b, y
  <2>5. b.visited = {s} /\ b.frontier = y /\ b.best = at.best
    BY <2>2, <2>3
  <2>6. Within(t, g, s)[0] = {s} /\ Ring(t, g, s, 0) = {s} /\ Decayed(g, v)[0] = PressureOf(v)
    BY WithinFacts, DecayedFacts DEF Ring
  <2>7. Fringe(t, g, s, v, 0, b)
    BY <2>4, <2>5, <2>6 DEF Fringe
  <2>8. \A r \in ResourceIds(t) : b.best[r].pressure >= at.best[r].pressure
    BY <2>5 DEF SpreadState, Target
  <2>9. 1..0 = {}
    OBVIOUS
  <2>10. Searched(t, g, at, s, v, 0, b)
    BY <2>1, <2>5, <2>8, <2>9 DEF Searched
  <2> QED BY <2>7, <2>10 DEF b
<1>4. ASSUME NEW n \in 0..(k - 1), n \in S PROVE n + 1 \in S
  <2>1. PICK m \in 1..k : m = n + 1
    BY <1>1
  <2>2. m - 1 = n /\ m \in Nat
    BY <1>1, <2>1
  <2>3. Searched(t, g, at, s, v, m - 1, lv[m - 1]) /\ Fringe(t, g, s, v, m - 1, lv[m - 1])
    BY <1>4, <2>2
  <2>4. lv[m] = Level(t, g, m, lv[m - 1])
    BY <1>2 DEF Levels, k
  <2>5. Searched(t, g, at, s, v, m, lv[m]) /\ Fringe(t, g, s, v, m, lv[m])
    BY <2>3, <2>4, SearchStep DEF k
  <2> QED BY <2>1, <2>2, <2>5
<1> HIDE DEF S
<1>5. \A n \in 0..k : n \in S
  BY <1>1, <1>3, <1>4, UpTo
<1>6. k \in S
  BY <1>1, <1>5
<1>7. Searched(t, g, at, s, v, k, lv[k])
  BY <1>6 DEF S
<1> QED BY <1>2, <1>7 DEF k

-----------------------------------------------------------------------------
(* The search from every source *)

\* The sources s, one after the other.
SpreadAll(t, g, sources, base, s) ==
  FoldLeft(LAMBDA a, x : Spread(t, g, a, x, sources[x]), base, s)

\* How FoldLeft defines its result for the first places of a list of sources.
SpreadRule(t, g, sources, base, s, f) ==
  f = [S \in SUBSET DOMAIN s |->
         IF S = {} THEN base
         ELSE Spread(t, g, f[S \ {Max(S)}], s[Max(S)], sources[s[Max(S)]])]

\* acc holds the states of the search after each of the sources.
Spreads(t, g, sources, base, s, acc) ==
  /\ acc[0] = base
  /\ \A m \in 1..Len(s) : acc[m] = Spread(t, g, acc[m - 1], s[m], sources[s[m]])

LEMMA SpreadFold ==
  ASSUME NEW t \in Snapshot(Nat, Nat), ValidTopology(t), NEW g \in PropagationPolicy,
         NEW Q \in SUBSET ResourceIds(t), NEW sources, \A x \in Q : sources[x] \in Severity,
         NEW base \in SpreadState(t), NEW s \in Seq(Q)
  PROVE  \E acc : /\ Spreads(t, g, sources, base, s, acc)
                  /\ SpreadAll(t, g, sources, base, s) = acc[Len(s)]
<1> DEFINE k == Len(s)
           A == SpreadState(t)
           F == [x \in (1..k) \X A |-> Spread(t, g, x[2], s[x[1]], sources[s[x[1]]])]
           it == CHOOSE f : SpreadRule(t, g, sources, base, s, f)
<1>1. k \in Nat /\ DOMAIN s = 1..k /\ \A i \in 1..k : s[i] \in Q
  BY Places
<1>2. SpreadAll(t, g, sources, base, s) = it[1..k]
  BY <1>1 DEF SpreadAll, FoldLeft, MapThenFoldSet, SpreadRule
<1>3. F \in [(1..k) \X A -> A]
  <2>1. ASSUME NEW i \in 1..k, NEW a \in A PROVE Spread(t, g, a, s[i], sources[s[i]]) \in A
    <3>1. s[i] \in ResourceIds(t) /\ sources[s[i]] \in Severity
      BY <1>1
    <3>2. Searched(t, g, a, s[i], sources[s[i]], g.depth, Spread(t, g, a, s[i], sources[s[i]]))
      BY <3>1, SpreadFacts
    <3> QED BY <3>2 DEF Searched
  <2> QED BY <2>1
<1>4. PICK f \in [SUBSET (1..k) -> A] : Folds(k, base, F, f)
  <2> HIDE DEF F, A, k
  <2>1. base \in A
    BY DEF A
  <2> QED BY <1>1, <1>3, <2>1, FoldExists
<1>5. \A S \in SUBSET (1..k) : S # {} => Max(S) \in S
  <2> TAKE S \in SUBSET (1..k)
  <2>1. IsFiniteSet(1..k) /\ 1..k \in SUBSET Nat
    BY <1>1, FS_Interval
  <2>2. S \in SUBSET Nat /\ IsFiniteSet(S)
    BY <2>1, FS_Subset
  <2> QED BY <2>2, MaxFacts
<1>6. \A S \in SUBSET (1..k) : S # {} =>
        f[S] = Spread(t, g, f[S \ {Max(S)}], s[Max(S)], sources[s[Max(S)]])
  <2> SUFFICES ASSUME NEW S \in SUBSET (1..k), S # {}
               PROVE  f[S] = Spread(t, g, f[S \ {Max(S)}], s[Max(S)], sources[s[Max(S)]])
    OBVIOUS
  <2>1. f[S] = F[<<Max(S), f[S \ {Max(S)}]>>]
    BY <1>4 DEF Folds
  <2>2. PICK m \in 1..k : m = Max(S)
    BY <1>5
  <2>3. PICK a \in A : a = f[S \ {Max(S)}]
    BY <1>4
  <2>4. F[<<m, a>>] = Spread(t, g, a, s[m], sources[s[m]])
    OBVIOUS
  <2> QED BY <2>1, <2>2, <2>3, <2>4
<1>7. SpreadRule(t, g, sources, base, s, f)
  <2>1. f[{}] = base
    BY <1>4 DEF Folds
  <2> HIDE DEF F
  <2>2. f = [S \in SUBSET (1..k) |-> f[S]]
    BY <1>4
  <2>3. \A S \in SUBSET (1..k) :
          f[S] = IF S = {} THEN base
                 ELSE Spread(t, g, f[S \ {Max(S)}], s[Max(S)], sources[s[Max(S)]])
    BY <1>6, <2>1
  <2> QED BY <1>1, <2>2, <2>3 DEF SpreadRule
<1>8. SpreadRule(t, g, sources, base, s, it)
  BY <1>7
<1> HIDE DEF it, F
<1> DEFINE acc == [m \in 0..k |-> it[1..m]]
<1>9. acc[0] = base
  <2>1. 1..0 = {} /\ 0 \in 0..k
    BY <1>1
  <2>2. it[{}] = base
    BY <1>8 DEF SpreadRule
  <2> QED BY <2>1, <2>2
<1>10. \A m \in 1..k : acc[m] = Spread(t, g, acc[m - 1], s[m], sources[s[m]])
  <2> TAKE m \in 1..k
  <2>1. m \in Nat \ {0} /\ m - 1 \in 0..k /\ m \in 0..k
    BY <1>1
  <2>2. Max(1..m) = m /\ (1..m) \ {m} = 1..(m - 1) /\ 1..m # {}
    BY <2>1, MaxInterval
  <2>3. 1..m \in SUBSET DOMAIN s
    BY <1>1
  <2>4. it[1..m] = Spread(t, g, it[(1..m) \ {Max(1..m)}], s[Max(1..m)], sources[s[Max(1..m)]])
    BY <1>8, <2>2, <2>3 DEF SpreadRule
  <2>5. acc[m] = it[1..m] /\ acc[m - 1] = it[1..(m - 1)]
    BY <2>1
  <2> QED BY <2>2, <2>4, <2>5
<1>11. acc[k] = it[1..k]
  BY <1>1
<1> HIDE DEF acc
<1>12. Spreads(t, g, sources, base, s, acc)
  BY <1>9, <1>10 DEF Spreads
<1> QED BY <1>2, <1>11, <1>12

\* Only these sources put pressure anywhere, and no resource that strong
\* pressure of one of them reaches has less.
Collected(t, g, sources, Q, best) ==
  /\ best \in [ResourceIds(t) -> Target]
  /\ \A r \in ResourceIds(t) :
       best[r] = NoTarget \/ \E s \in Q : Caused(t, g, s, sources[s], r, best[r])
  /\ \A s \in Q : \A m \in 1..g.depth : Strong(g, Decayed(g, sources[s])[m]) =>
       \A r \in Ring(t, g, s, m) : best[r].pressure >= Decayed(g, sources[s])[m]

\* The sources that have a severity.
Loaded(sources) == {s \in DOMAIN sources : sources[s] # Clear}

LEMMA BestFacts ==
  ASSUME NEW t \in Snapshot(Nat, Nat), ValidTopology(t), NEW g \in PropagationPolicy,
         NEW D \in SUBSET ResourceIds(t), NEW sources \in [D -> Severity]
  PROVE  Collected(t, g, sources, Loaded(sources), Best(t, sources, g))
<1> DEFINE Q == Loaded(sources)
           none == [visited |-> {}, frontier |-> <<>>, best |-> [r \in ResourceIds(t) |-> NoTarget]]
           s == Sorted(Q, <)
           k == Len(s)
<1>1. Q = {x \in DOMAIN sources : sources[x] # Clear /\ x \in ResourceIds(t)}
  BY DEF Loaded
<1>2. Best(t, sources, g) = SpreadAll(t, g, sources, none, s).best
  BY <1>1 DEF Best, SpreadAll
<1>3. Q \in SUBSET ResourceIds(t) /\ IsFiniteSet(Q) /\ Q \in SUBSET Nat
      /\ \A x \in Q : sources[x] \in Severity
  <2>1. Q \in SUBSET ResourceIds(t) /\ \A x \in Q : sources[x] \in Severity
    BY <1>1
  <2>2. ResourceIds(t) \in SUBSET Nat /\ IsFiniteSet(ResourceIds(t))
    BY ResourceIdsType
  <2> HIDE DEF Q
  <2>3. IsFiniteSet(Q)
    BY <2>1, <2>2, FS_Subset
  <2> QED BY <2>1, <2>2, <2>3
<1>4. s \in Seq(Q) /\ \A x \in Q : \E i \in DOMAIN s : s[i] = x
  <2> HIDE DEF Q
  <2> QED BY <1>3, SortedNumbers
<1>5. none \in SpreadState(t) /\ none.best = [r \in ResourceIds(t) |-> NoTarget]
  <2>1. NoTarget \in Target
    BY DEF NoTarget, Target, None
  <2>2. <<>> \in Seq(Nat \X Nat)
    OBVIOUS
  <2> QED BY <2>1, <2>2 DEF SpreadState
<1> HIDE DEF Q, none, s
<1>6. k \in Nat /\ DOMAIN s = 1..k /\ \A i \in 1..k : s[i] \in Q
  BY <1>4, Places
<1>7. PICK acc : /\ Spreads(t, g, sources, none, s, acc)
                 /\ SpreadAll(t, g, sources, none, s) = acc[k]
  BY <1>3, <1>4, <1>5, SpreadFold
<1> DEFINE Done(m) == {s[i] : i \in 1..m}
           S == {m \in Nat : acc[m] \in SpreadState(t)
                               /\ Collected(t, g, sources, Done(m), acc[m].best)}
<1>8. 0 \in S
  <2>1. acc[0] = none
    BY <1>7 DEF Spreads
  <2>2. Done(0) = {}
    OBVIOUS
  <2>3. none.best \in [ResourceIds(t) -> Target]
    BY <1>5 DEF SpreadState
  <2> HIDE DEF Done
  <2>4. Collected(t, g, sources, Done(0), none.best)
    BY <1>5, <2>2, <2>3 DEF Collected
  <2> QED BY <1>5, <2>1, <2>4
<1>9. ASSUME NEW n \in 0..(k - 1), n \in S PROVE n + 1 \in S
  <2>1. PICK m \in 1..k : m = n + 1
    BY <1>6
  <2>2. m - 1 = n /\ m \in Nat /\ n \in Nat
    BY <1>6, <2>1
  <2> DEFINE a == acc[n]
             b == acc[m]
             x == s[m]
             v == sources[x]
             P == Decayed(g, v)
  <2>3. a \in SpreadState(t) /\ Collected(t, g, sources, Done(n), a.best)
    BY <1>9
  <2>4. b = Spread(t, g, a, x, v)
    BY <1>7, <2>2 DEF Spreads
  <2>5. x \in ResourceIds(t) /\ v \in Severity
    BY <1>3, <1>6
  <2>6. Done(m) = Done(n) \cup {x}
    <3>1. 1..m = (1..n) \cup {m}
      BY <2>1, <2>2
    <3> QED BY <3>1
  <2> HIDE DEF a, b, x, Done, v
  <2>7. Searched(t, g, a, x, v, g.depth, b)
    BY <2>3, <2>4, <2>5, SpreadFacts
  <2>8. b \in SpreadState(t) /\ b.best \in [ResourceIds(t) -> Target]
    BY <2>7 DEF Searched, SpreadState
  <2>9. ASSUME NEW r \in ResourceIds(t)
        PROVE  b.best[r] = NoTarget \/ \E y \in Done(m) : Caused(t, g, y, sources[y], r, b.best[r])
    <3>1. b.best[r] = a.best[r] \/ Caused(t, g, x, v, r, b.best[r])
      BY <2>7 DEF Searched
    <3>2. a.best[r] = NoTarget \/ \E y \in Done(n) : Caused(t, g, y, sources[y], r, a.best[r])
      BY <2>3 DEF Collected
    <3> QED BY <2>6, <3>1, <3>2 DEF v
  <2>10. ASSUME NEW y \in Done(m), NEW i \in 1..g.depth, Strong(g, Decayed(g, sources[y])[i]),
                NEW r \in Ring(t, g, y, i)
         PROVE  b.best[r].pressure >= Decayed(g, sources[y])[i]
    <3>1. CASE y = x
      <4>1. sources[y] = v
        BY <3>1 DEF v
      <4> QED BY <2>7, <2>10, <3>1, <4>1 DEF Searched
    <3>2. CASE y # x
      <4>1. y \in Done(n)
        BY <2>6, <3>2
      <4>2. a.best[r].pressure >= Decayed(g, sources[y])[i]
        BY <2>3, <2>10, <4>1 DEF Collected
      <4>3. y \in Q
        <5>1. PICK j \in 1..n : y = s[j]
          BY <4>1 DEF Done
        <5>2. j \in 1..k
          BY <1>6, <2>1, <2>2
        <5> QED BY <1>6, <5>1, <5>2
      <4>4. y \in ResourceIds(t) /\ sources[y] \in Severity
        BY <1>3, <4>3
      <4>5. i \in 0..g.depth /\ i # 0
        BY TopologyAssumption DEF PropagationPolicy
      <4>6. Decayed(g, sources[y])[i] \in Nat
        BY <4>4, <4>5, DecayedFacts
      <4>7. r \in ResourceIds(t)
        <5>1. r \in Within(t, g, y)[i]
          BY <4>5 DEF Ring
        <5> QED BY <4>4, <4>5, <5>1, WithinFacts
      <4>8. b.best[r].pressure >= a.best[r].pressure
        BY <2>7, <4>7 DEF Searched
      <4>9. b.best[r].pressure \in Nat /\ a.best[r].pressure \in Nat
        BY <2>3, <2>8, <4>7 DEF Collected, Target
      <4> QED BY <4>2, <4>6, <4>8, <4>9
    <3> QED BY <3>1, <3>2
  <2>11. Collected(t, g, sources, Done(m), b.best)
    BY <2>8, <2>9, <2>10 DEF Collected
  <2> QED BY <2>1, <2>2, <2>8, <2>11 DEF b
<1> HIDE DEF S
<1>10. \A n \in 0..k : n \in S
  BY <1>6, <1>8, <1>9, UpTo
<1>11. k \in S
  BY <1>6, <1>10
<1>12. Collected(t, g, sources, Done(k), acc[k].best)
  BY <1>11 DEF S
<1>13. Done(k) = Q
  BY <1>4, <1>6
<1> HIDE DEF Done
<1> QED BY <1>2, <1>7, <1>12, <1>13 DEF Q

\* What is induced is what the pressure and the cap allow.
LEMMA InducedFacts ==
  ASSUME NEW g \in PropagationPolicy, NEW p \in Nat
  PROVE  LET v == PressureToSeverity(p)
         IN  /\ Induced(g, p) \in Severity /\ Induced(g, p) <= v
             /\ Induced(g, p) = Min({g.cap, v})
             /\ Induced(g, p) # Clear <=> g.cap # Clear /\ v # Clear
<1> DEFINE v == PressureToSeverity(p)
           T == {g.cap, v}
<1>1. g.cap \in Severity /\ v \in Severity
  BY PressureLevels DEF PropagationPolicy
<1>2. Severity = {0, 1, 2, 3} /\ Clear = 0
  BY PressureValues DEF Clear
<1>3. Induced(g, p) = IF v > g.cap THEN g.cap ELSE v
  BY DEF Induced, Capped
<1> HIDE DEF v
<1>4. g.cap \in Nat /\ v \in Nat
  BY <1>1, <1>2
<1>5. Min(T) \in T /\ \A m \in T : Min(T) <= m
  <2>1. T \in SUBSET Nat /\ T # {}
    BY <1>4
  <2> HIDE DEF T
  <2> QED BY <2>1, MinFacts
<1>6. PICK m \in Nat : m = Min(T)
  BY <1>4, <1>5
<1>7. (m = g.cap \/ m = v) /\ m <= g.cap /\ m <= v
  BY <1>5, <1>6
<1>8. Induced(g, p) = m
  BY <1>3, <1>4, <1>7
<1>9. /\ Induced(g, p) \in Severity /\ Induced(g, p) <= v
      /\ Induced(g, p) # Clear <=> g.cap # Clear /\ v # Clear
  BY <1>1, <1>2, <1>3
<1> QED BY <1>6, <1>8, <1>9 DEF v

\* The edges that are reported, of which there are as many as fit.
LEMMA PropagateFacts ==
  ASSUME NEW t \in Snapshot(Nat, Nat), ValidTopology(t), NEW g \in PropagationPolicy,
         NEW D \in SUBSET ResourceIds(t), NEW sources \in [D -> Severity], NEW maxEdges \in Nat
  PROVE  LET edges == Propagate(t, sources, g, maxEdges)
             best == Best(t, sources, g)
             reached == {r \in ResourceIds(t) : Induced(g, best[r].pressure) # Clear}
         IN  /\ \A i \in DOMAIN edges :
                  /\ edges[i].to \in reached
                  /\ edges[i].induced = Induced(g, best[edges[i].to].pressure)
                  /\ edges[i].edge = best[edges[i].to]
             /\ IsFiniteSet(DOMAIN edges)
             /\ g.enabled /\ g.depth # 0 /\ maxEdges >= Cardinality(ResourceIds(t))
                  => \A r \in reached : \E i \in DOMAIN edges : edges[i].to = r
             /\ ~(g.enabled /\ g.depth # 0) => DOMAIN edges = {}
<1> DEFINE best == Best(t, sources, g)
           reached == {r \in ResourceIds(t) : Induced(g, best[r].pressure) # Clear}
           order == Sorted(reached, <)
           n == Capped(Len(order), maxEdges)
           entry(r) == [to |-> r, induced |-> Induced(g, best[r].pressure), edge |-> best[r]]
           edges == Propagate(t, sources, g, maxEdges)
<1>1. edges = IF ~g.enabled \/ g.depth = 0 THEN <<>> ELSE [i \in 1..n |-> entry(order[i])]
  BY DEF Propagate
<1>2. ResourceIds(t) \in SUBSET Nat /\ IsFiniteSet(ResourceIds(t))
  BY ResourceIdsType
<1>3. reached \in SUBSET ResourceIds(t)
  OBVIOUS
<1> HIDE DEF best, edges
<1>4. reached \in SUBSET Nat /\ IsFiniteSet(reached) /\ Cardinality(reached) <= Cardinality(ResourceIds(t))
  <2> HIDE DEF reached
  <2> QED BY <1>2, <1>3, FS_Subset
<1> HIDE DEF reached
<1>5. /\ order \in Seq(reached) /\ Len(order) = Cardinality(reached)
      /\ \A x \in reached : \E i \in DOMAIN order : order[i] = x
  BY <1>4, SortedNumbers
<1> HIDE DEF order
<1>6. Len(order) \in Nat /\ DOMAIN order = 1..Len(order) /\ \A i \in 1..Len(order) : order[i] \in reached
  BY <1>5, Places
<1>7. n \in Nat /\ n <= Len(order) /\ (maxEdges >= Len(order) => n = Len(order))
  <2>1. PICK l \in Nat : l = Len(order)
    BY <1>6
  <2>2. n = IF l > maxEdges THEN maxEdges ELSE l
    BY <2>1 DEF Capped
  <2> HIDE DEF n
  <2> QED BY <2>1, <2>2
<1> HIDE DEF n
<1>8. CASE ~(g.enabled /\ g.depth # 0)
  <2>1. edges = <<>>
    BY <1>1, <1>8
  <2>2. DOMAIN edges = {}
    BY <2>1
  <2> QED BY <1>8, <2>2, FS_EmptySet DEF edges
<1>9. CASE g.enabled /\ g.depth # 0
  <2>1. edges = [i \in 1..n |-> entry(order[i])]
    BY <1>1, <1>9
  <2>2. DOMAIN edges = 1..n /\ \A i \in 1..n : edges[i] = entry(order[i])
    BY <2>1
  <2>3. IsFiniteSet(DOMAIN edges)
    BY <1>7, <2>2, FS_Interval
  <2>4. ASSUME NEW i \in DOMAIN edges
        PROVE  /\ edges[i].to \in reached
               /\ edges[i].induced = Induced(g, best[edges[i].to].pressure)
               /\ edges[i].edge = best[edges[i].to]
    <3>1. i \in 1..Len(order)
      <4>1. i \in 1..n
        BY <2>2
      <4>2. \A l, m \in Nat : \A j \in 1..m : m <= l => j \in 1..l
        OBVIOUS
      <4> QED BY <1>6, <1>7, <4>1, <4>2
    <3>2. order[i] \in reached /\ edges[i] = entry(order[i])
      BY <1>6, <2>2, <3>1
    <3> QED BY <3>2
  <2>5. ASSUME maxEdges >= Cardinality(ResourceIds(t)), NEW r \in reached
        PROVE  \E i \in DOMAIN edges : edges[i].to = r
    <3>1. Cardinality(ResourceIds(t)) \in Nat /\ Cardinality(reached) \in Nat
      BY <1>2, <1>4, FS_CardinalityType
    <3>2. n = Len(order)
      BY <1>4, <1>5, <1>7, <2>5, <3>1
    <3>3. PICK i \in DOMAIN order : order[i] = r
      BY <1>5
    <3>4. i \in DOMAIN edges /\ edges[i].to = r
      BY <1>6, <2>2, <3>2, <3>3
    <3> QED BY <3>4
  <2> HIDE DEF entry
  <2> QED BY <1>9, <2>3, <2>4, <2>5 DEF edges, reached, best
<1> QED BY <1>8, <1>9

\* An arrival that is felt is strong pressure of a source.
Felt(t, sources, g, r) ==
  {a \in Arrivals(t, sources, g, r) :
     PressureToSeverity(Decayed(g, sources[a[1]])[a[2]]) # Clear}

LEMMA FeltFacts ==
  ASSUME NEW t \in Snapshot(Nat, Nat), ValidTopology(t), NEW g \in PropagationPolicy,
         NEW D \in SUBSET ResourceIds(t), NEW sources \in [D -> Severity], NEW r
  PROVE  /\ \A s \in Loaded(sources), m \in 1..g.depth :
              <<s, m>> \in Felt(t, sources, g, r)
                <=> Strong(g, Decayed(g, sources[s])[m]) /\ r \in Ring(t, g, s, m)
         /\ \A a \in Arrivals(t, sources, g, r) :
              /\ a[1] \in Loaded(sources) /\ a[2] \in 1..g.depth /\ a = <<a[1], a[2]>>
              /\ Decayed(g, sources[a[1]])[a[2]] \in Nat
<1>1. g.depth \in Nat /\ g.min \in Nat
  BY TopologyAssumption DEF PropagationPolicy
<1>2. ASSUME NEW s \in Loaded(sources), NEW m \in 1..g.depth
      PROVE  /\ Decayed(g, sources[s])[m] \in Nat
             /\ s \in DOMAIN sources /\ sources[s] # Clear
             /\ Ring(t, g, s, m) = Within(t, g, s)[m] \ Within(t, g, s)[m - 1]
  <2>1. m \in 0..g.depth /\ m # 0
    BY <1>1
  <2>2. s \in DOMAIN sources /\ sources[s] # Clear /\ sources[s] \in Severity
    BY DEF Loaded
  <2>3. Decayed(g, sources[s])[m] \in Nat
    BY <2>1, <2>2, DecayedFacts
  <2> QED BY <2>1, <2>2, <2>3 DEF Ring
<1>3. ASSUME NEW s \in Loaded(sources), NEW m \in 1..g.depth
      PROVE  <<s, m>> \in Felt(t, sources, g, r)
               <=> Strong(g, Decayed(g, sources[s])[m]) /\ r \in Ring(t, g, s, m)
  <2> DEFINE a == <<s, m>>
             p == Decayed(g, sources[s])[m]
  <2>1. a \in (DOMAIN sources) \X (1..g.depth) /\ a[1] = s /\ a[2] = m
    BY <1>2
  <2>2. p \in Nat
    BY <1>2
  <2> HIDE DEF a, p
  <2>3. p >= g.min <=> ~(p < g.min)
    BY <1>1, <2>2
  <2>4. a \in Felt(t, sources, g, r) <=>
          /\ r \in Within(t, g, s)[m] \ Within(t, g, s)[m - 1]
          /\ p >= g.min /\ PressureToSeverity(p) # Clear
    BY <1>2, <2>1 DEF Felt, Arrivals, p
  <2>5. a \in Felt(t, sources, g, r) <=> Strong(g, p) /\ r \in Ring(t, g, s, m)
    BY <1>2, <2>3, <2>4 DEF Strong
  <2> QED BY <2>5 DEF a, p
<1>4. ASSUME NEW a \in Arrivals(t, sources, g, r)
      PROVE  a[1] \in Loaded(sources) /\ a[2] \in 1..g.depth /\ a = <<a[1], a[2]>>
  BY DEF Arrivals, Loaded
<1> QED BY <1>2, <1>3, <1>4

\* The best target of a resource shows whether anything is felt there, and
\* explains it.
LEMMA BestExplains ==
  ASSUME NEW t \in Snapshot(Nat, Nat), ValidTopology(t), NEW g \in PropagationPolicy,
         NEW D \in SUBSET ResourceIds(t), NEW sources \in [D -> Severity],
         NEW r \in ResourceIds(t)
  PROVE  LET target == Best(t, sources, g)[r]
             v == PressureToSeverity(target.pressure)
         IN  /\ target.pressure \in Nat
             /\ v # Clear <=> Felt(t, sources, g, r) # {}
             /\ v # Clear => Explains(t, sources, g, r, target)
             /\ v # Clear => \E s \in Loaded(sources) : v <= sources[s]
<1> DEFINE Q == Loaded(sources)
           best == Best(t, sources, g)
           target == best[r]
           v == PressureToSeverity(target.pressure)
           F == Felt(t, sources, g, r)
           P(s) == Decayed(g, sources[s])
<1>1. Collected(t, g, sources, Q, best)
  BY BestFacts
<1> HIDE DEF best, P
<1>2. target.pressure \in Nat
  BY <1>1 DEF Collected, Target
<1>3. \A s \in Q : sources[s] \in Severity /\ s \in ResourceIds(t)
  BY DEF Loaded
<1>4. ASSUME NEW s \in Q, NEW m \in 1..g.depth
      PROVE  /\ P(s)[m] \in Nat /\ P(s)[m] <= PressureOf(sources[s])
             /\ <<s, m>> \in F <=> Strong(g, P(s)[m]) /\ r \in Ring(t, g, s, m)
  <2>1. m \in 0..g.depth
    BY TopologyAssumption DEF PropagationPolicy
  <2>2. P(s)[m] \in Nat /\ P(s)[m] <= PressureOf(sources[s])
    BY <1>3, <2>1, DecayedFacts DEF P
  <2>3. <<s, m>> \in F <=> Strong(g, P(s)[m]) /\ r \in Ring(t, g, s, m)
    BY FeltFacts DEF P
  <2> QED BY <2>2, <2>3
<1>5. \A a \in Arrivals(t, sources, g, r) :
        /\ a[1] \in Q /\ a[2] \in 1..g.depth /\ a = <<a[1], a[2]>>
        /\ P(a[1])[a[2]] \in Nat
  BY FeltFacts DEF P
<1>6. F = {a \in Arrivals(t, sources, g, r) : PressureToSeverity(P(a[1])[a[2]]) # Clear}
  BY DEF Felt, P
<1> HIDE DEF Q, F
<1>7. ASSUME NEW a \in F
      PROVE  P(a[1])[a[2]] <= target.pressure /\ v # Clear
  <2>1. PICK s \in Q, m \in 1..g.depth : a = <<s, m>>
    BY <1>5, <1>6
  <2>2. Strong(g, P(s)[m]) /\ r \in Ring(t, g, s, m) /\ P(s)[m] \in Nat
    BY <1>4, <2>1
  <2>3. target.pressure >= P(s)[m]
    BY <1>1, <2>2 DEF Collected, P
  <2>4. P(s)[m] <= target.pressure
    BY <1>2, <2>2, <2>3
  <2>5. PressureToSeverity(P(s)[m]) # Clear
    BY <2>2 DEF Strong
  <2>6. v # Clear
    <3>1. PressureToSeverity(P(s)[m]) <= v
      BY <1>2, <2>2, <2>4, PressureOrder
    <3>2. PressureToSeverity(P(s)[m]) \in 0..3 /\ v \in 0..3 /\ Clear = 0
      BY <1>2, <2>2, PressureLevels, PressureValues DEF Clear
    <3> HIDE DEF v
    <3> QED BY <2>5, <3>1, <3>2
  <2> QED BY <2>1, <2>4, <2>6
<1>8. ASSUME v # Clear
      PROVE  /\ F # {} /\ Explains(t, sources, g, r, target)
             /\ \E s \in Q : v <= sources[s]
  <2>1. target # NoTarget
    <3>1. CASE target = NoTarget
      <4>1. target.pressure = 0
        BY <3>1 DEF NoTarget
      <4>2. PressureToSeverity(0) <= 0
        <5>1. 0 <= PressureOf(0) /\ 0 \in Severity
          BY PressureValues
        <5> QED BY <5>1, PressureOrder
      <4>3. PressureToSeverity(0) \in 0..3 /\ Clear = 0
        BY PressureLevels, PressureValues DEF Clear
      <4> QED BY <1>8, <4>1, <4>2, <4>3
    <3> QED BY <3>1
  <2>2. PICK s \in Q : Caused(t, g, s, sources[s], r, target)
    BY <1>1, <2>1 DEF Collected
  <2>3. PICK m \in 1..g.depth :
          /\ Strong(g, P(s)[m])
          /\ r \in Ring(t, g, s, m)
          /\ target.hops = m /\ target.pressure = P(s)[m]
          /\ target.from \in Within(t, g, s)[m - 1]
          /\ <<r, target.path>> \in NeighbourSet(t, target.from, g)
    BY <2>2 DEF Caused, P
  <2> DEFINE a == <<s, m>>
  <2>4. a \in F /\ a[1] = s /\ a[2] = m
    BY <1>4, <2>3
  <2> HIDE DEF a
  <2>5. a \in Arrivals(t, sources, g, r)
    BY <1>6, <2>4
  <2>6. ASSUME NEW b \in Arrivals(t, sources, g, r)
        PROVE  P(b[1])[b[2]] <= target.pressure
    <3> DEFINE p == P(b[1])[b[2]]
    <3>1. p \in Nat
      BY <1>5
    <3>2. CASE PressureToSeverity(p) # Clear
      <4>1. b \in F
        BY <1>6, <3>2
      <4> QED BY <1>7, <4>1
    <3>3. CASE PressureToSeverity(p) = Clear
      <4> HIDE DEF p
      <4>1. p < target.pressure
        BY <1>2, <1>8, <3>1, <3>3, PressureOrder
      <4>2. p <= target.pressure
        BY <1>2, <3>1, <4>1
      <4> QED BY <4>2 DEF p
    <3> QED BY <3>2, <3>3
  <2>7. Explains(t, sources, g, r, target)
    <3> HIDE DEF target
    <3> QED BY <2>3, <2>4, <2>5, <2>6 DEF Explains, P
  <2>8. v <= sources[s]
    <3>1. target.pressure <= PressureOf(sources[s])
      BY <1>4, <2>3
    <3> QED BY <1>2, <1>3, <3>1, PressureOrder
  <2> QED BY <2>4, <2>7, <2>8
<1>9. v # Clear <=> F # {}
  BY <1>7, <1>8
<1> QED BY <1>2, <1>8, <1>9 DEF F, Q, best

\* PropagationEngine::propagate reports what the definition by distances demands,
\* for every topology that validation accepts, every policy and any severities.
THEOREM PropagateMatches ==
  ASSUME NEW t \in Snapshot(Nat, Nat), ValidTopology(t), NEW g \in PropagationPolicy,
         NEW D \in SUBSET ResourceIds(t), NEW sources \in [D -> Severity]
  PROVE  Matches(t, sources, g)
<1> DEFINE n == Cardinality(ResourceIds(t))
           edges == Propagate(t, sources, g, n)
           best == Best(t, sources, g)
           reached == {r \in ResourceIds(t) : Induced(g, best[r].pressure) # Clear}
           level(r) == PressureToSeverity(best[r].pressure)
           felt(r) == Felt(t, sources, g, r)
           E == {edges[i].to : i \in DOMAIN edges}
<1>1. n \in Nat /\ n >= n
  <2>1. n \in Nat
    BY ResourceIdsType, FS_CardinalityType
  <2> QED BY <2>1
<1>2. /\ \A i \in DOMAIN edges :
           /\ edges[i].to \in reached
           /\ edges[i].induced = Induced(g, best[edges[i].to].pressure)
           /\ edges[i].edge = best[edges[i].to]
      /\ g.enabled /\ g.depth # 0 => \A r \in reached : \E i \in DOMAIN edges : edges[i].to = r
      /\ ~(g.enabled /\ g.depth # 0) => DOMAIN edges = {}
  <2> HIDE DEF n
  <2> QED BY <1>1, PropagateFacts DEF n
<1>3. ASSUME NEW r \in ResourceIds(t)
      PROVE  /\ best[r].pressure \in Nat
             /\ level(r) # Clear <=> felt(r) # {}
             /\ level(r) # Clear => Explains(t, sources, g, r, best[r])
  BY BestExplains
<1> HIDE DEF edges, best, felt
<1>4. ASSUME NEW r \in ResourceIds(t)
      PROVE  /\ Induced(g, best[r].pressure) = Min({g.cap, level(r)})
             /\ r \in reached <=> g.cap # Clear /\ felt(r) # {}
  <2>1. /\ Induced(g, best[r].pressure) = Min({g.cap, level(r)})
        /\ Induced(g, best[r].pressure) # Clear <=> g.cap # Clear /\ level(r) # Clear
    BY <1>3, InducedFacts
  <2> QED BY <1>3, <2>1
<1>5. \A r \in reached : r \in ResourceIds(t)
  OBVIOUS
<1> HIDE DEF reached
<1>6. ASSUME NEW i \in DOMAIN edges
      PROVE  /\ Explains(t, sources, g, edges[i].to, edges[i].edge)
             /\ edges[i].induced = Min({g.cap, PressureToSeverity(edges[i].edge.pressure)})
  <2>1. PICK r \in reached : r = edges[i].to
    BY <1>2
  <2>2. r \in ResourceIds(t) /\ felt(r) # {}
    BY <1>4, <1>5
  <2>3. edges[i].edge = best[r] /\ edges[i].induced = Induced(g, best[r].pressure)
    BY <1>2, <2>1
  <2> QED BY <1>3, <1>4, <2>1, <2>2, <2>3
<1>7. E = IF g.enabled /\ g.cap # Clear THEN {r \in ResourceIds(t) : felt(r) # {}} ELSE {}
  <2>1. CASE g.enabled /\ g.depth # 0
    <3>1. E = reached
      BY <1>2, <2>1
    <3>2. reached = IF g.cap # Clear THEN {r \in ResourceIds(t) : felt(r) # {}} ELSE {}
      BY <1>4, <1>5
    <3> QED BY <2>1, <3>1, <3>2
  <2>2. CASE ~g.enabled
    BY <1>2, <2>2
  <2>3. CASE g.depth = 0
    <3>1. 1..g.depth = {}
      BY <2>3
    <3>2. \A r : felt(r) = {}
      BY <3>1 DEF felt, Felt, Arrivals
    <3>3. E = {}
      BY <1>2, <2>3
    <3> QED BY <3>2, <3>3
  <2> QED BY <2>1, <2>2, <2>3
<1> QED BY <1>6, <1>7 DEF Matches, Felt, edges, felt, n
=============================================================================
