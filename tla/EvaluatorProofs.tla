-------------------------- MODULE EvaluatorProofs --------------------------
(***************************************************************************)
(* The safety properties of the congestion evaluator, for every set of     *)
(* policies, topologies and observations, and every bound.                 *)
(***************************************************************************)
EXTENDS Evaluator, HysteresisProofs, PropagationProofs

-----------------------------------------------------------------------------
(* Portions and margins *)

\* apply_ppm rounds n * part / Unit down, although it never forms the product.
LEMMA PortionFloor ==
  ASSUME NEW n \in Nat, NEW part \in 0..Unit
  PROVE  /\ Portion(n, part) \in Nat
         /\ Portion(n, part) * Unit <= n * part
         /\ n * part < (Portion(n, part) + 1) * Unit
<1> DEFINE a == n \div Unit
           b == n % Unit
           c == (b * part) \div Unit
<1>1. Unit \in Nat /\ Unit > 0 /\ part \in Nat
  BY UnitAssumption
<1>2. a \in Nat /\ b \in Nat /\ n = Unit * a + b
  BY <1>1
<1>3. b * part \in Nat
  BY <1>1, <1>2
<1>4. c \in Nat /\ Unit * c <= b * part /\ b * part < Unit * (c + 1)
  <2> DEFINE x == b * part
  <2> HIDE DEF x, b
  <2>1. x \in Nat
    BY <1>3 DEF x
  <2>2. x \div Unit \in Nat /\ Unit * (x \div Unit) <= x /\ x < Unit * ((x \div Unit) + 1)
    BY <1>1, <2>1
  <2> QED BY <2>2 DEF x
<1> HIDE DEF a, b, c
<1>5. Portion(n, part) = a * part + c
  BY DEF Portion, a, b, c
<1>6. n * part = (a * part) * Unit + b * part
  BY <1>1, <1>2
<1>7. (a * part + c) * Unit = (a * part) * Unit + Unit * c
  BY <1>1, <1>2, <1>4
<1>8. (a * part + c + 1) * Unit = (a * part) * Unit + Unit * (c + 1)
  BY <1>1, <1>2, <1>4
<1>9. a * part \in Nat /\ (a * part) * Unit \in Nat /\ Unit * c \in Nat /\ Unit * (c + 1) \in Nat
  BY <1>1, <1>2, <1>4
<1> QED BY <1>3, <1>4, <1>5, <1>6, <1>7, <1>8, <1>9

\* It grows by no more than what it is a portion of.
LEMMA PortionGrows ==
  ASSUME NEW n \in Nat, NEW m \in Nat, n <= m, NEW part \in 0..Unit
  PROVE  Portion(m, part) - Portion(n, part) <= m - n
<1> DEFINE k == Portion(n, part)
           l == Portion(m, part)
<1>1. /\ k \in Nat /\ n * part < (k + 1) * Unit
      /\ l \in Nat /\ l * Unit <= m * part
  BY PortionFloor
<1> HIDE DEF k, l
<1>2. Unit \in Nat /\ Unit > 0 /\ part \in Nat /\ part <= Unit
  BY UnitAssumption
<1>3. m * part - n * part <= (m - n) * Unit
  <2>1. m * part - n * part = (m - n) * part
    BY <1>2
  <2>2. m - n \in Nat
    OBVIOUS
  <2>3. \A x \in Nat : x * part <= x * Unit
    BY <1>2
  <2> QED BY <2>1, <2>2, <2>3
<1>4. l * Unit - (k + 1) * Unit < (m - n) * Unit
  BY <1>1, <1>2, <1>3
<1>5. (l - (k + 1)) * Unit < (m - n) * Unit
  BY <1>1, <1>2, <1>4
<1>6. \A x, y \in Int : x * Unit < y * Unit => x < y
  BY <1>2
<1>7. l - (k + 1) < m - n
  BY <1>1, <1>5, <1>6
<1> QED BY <1>1, <1>7 DEF k, l

LEMMA RuleFacts ==
  ASSUME NEW q, ValidPolicy(q)
  PROVE  /\ q.rules \in Seq(Rule) /\ Len(q.rules) \in Nat /\ DOMAIN q.rules = 1..Len(q.rules)
         /\ \A i \in DOMAIN q.rules : q.rules[i] \in Rule
         /\ q.ladder \in Policy /\ q.margin \in 0..Unit /\ q.relative \in 0..Unit
         /\ q.propagation \in PropagationPolicy
         /\ q.maxAge \in Nat /\ q.skew \in Nat /\ q.absolute \in Nat /\ q.distinct \in Nat
         /\ q.maxEntries \in Nat /\ q.order \in Seq(Nat) /\ q.requireAll \in BOOLEAN
         /\ \A v \in Watch..Severe : q.gates[v] \in Nat
         /\ q.gates[1] > 0
<1>1. q \in CongestionPolicy
  BY DEF ValidPolicy
<1>2. Len(q.gates) = 3 /\ q.gates \in Seq(Nat) /\ q.gates[1] > 0
  BY <1>1 DEF ValidPolicy, ValidGates, CongestionPolicy
<1>3. \A v \in Watch..Severe : q.gates[v] \in Nat
  BY <1>2 DEF Watch, Severe
<1> QED BY <1>1, <1>2, <1>3 DEF CongestionPolicy

\* A value within the margin of a severity is classified at that severity or
\* above once the margin is applied.
LEMMA ClassifyFacts ==
  ASSUME NEW u \in Rule, NEW value \in Nat, NEW margin \in 0..Unit
  PROVE  /\ Classify(u, value, margin) \in Severity
         /\ \A v \in Watch..Severe :
              WithinMargin(u, value, margin, v) => v <= Classify(u, value, margin)
<1> DEFINE meets(threshold) == IF u.op = "AtLeast" THEN value >= Scaled(u, threshold, margin)
                               ELSE value <= Scaled(u, threshold, margin)
           c == Classify(u, value, margin)
<1>1. c = CASE meets(u.severe) -> Severe
            [] ~meets(u.severe) /\ meets(u.congested) -> Congested
            [] ~meets(u.severe) /\ ~meets(u.congested) /\ meets(u.watch) -> Watch
            [] OTHER -> Clear
  BY DEF Classify
<1>2. u.watch \in Nat /\ u.congested \in Nat /\ u.severe \in Nat
  BY DEF Rule
<1>3. /\ \A n \in Nat : u.op = "AtLeast" /\ value * Unit >= n * (Unit - margin) => meets(n)
      /\ \A n \in Nat : u.op # "AtLeast" /\ value * Unit <= n * (Unit + margin) => meets(n)
  <2> SUFFICES ASSUME NEW n \in Nat
               PROVE  /\ u.op = "AtLeast" /\ value * Unit >= n * (Unit - margin) => meets(n)
                      /\ u.op # "AtLeast" /\ value * Unit <= n * (Unit + margin) => meets(n)
    OBVIOUS
  <2>1. PICK k \in Nat : k = Portion(n, margin) /\ k * Unit <= n * margin
                         /\ n * margin < (k + 1) * Unit
    BY PortionFloor
  <2>2. Unit \in Nat /\ Unit > 0 /\ margin \in Nat
    BY UnitAssumption
  <2>3. /\ n * (Unit - margin) = n * Unit - n * margin
        /\ n * (Unit + margin) = n * Unit + n * margin
        /\ n * margin \in Nat /\ n * Unit \in Nat /\ value * Unit \in Nat
    BY <2>2
  <2>4. \A x, y \in Int : x * Unit < y * Unit => x < y
    BY <2>2
  <2>5. ASSUME value * Unit >= n * (Unit - margin) PROVE value >= n - k
    <3>1. value * Unit > n * Unit - (k + 1) * Unit
      BY <2>1, <2>2, <2>3, <2>5
    <3>2. n * Unit - (k + 1) * Unit = (n - (k + 1)) * Unit
      BY <2>1, <2>2
    <3>3. n - (k + 1) < value
      BY <2>1, <2>4, <3>1, <3>2
    <3> QED BY <2>1, <3>3
  <2>6. ASSUME value * Unit <= n * (Unit + margin) PROVE value <= n + k
    <3>1. value * Unit < n * Unit + (k + 1) * Unit
      BY <2>1, <2>2, <2>3, <2>6
    <3>2. n * Unit + (k + 1) * Unit = (n + k + 1) * Unit
      BY <2>1, <2>2
    <3>3. value < n + k + 1
      BY <2>1, <2>4, <3>1, <3>2
    <3> QED BY <2>1, <3>3
  <2> QED BY <2>1, <2>5, <2>6 DEF Scaled
<1>4. \A v \in Watch..Severe : WithinMargin(u, value, margin, v)
        => \/ v = 1 /\ meets(u.watch)
           \/ v = 2 /\ meets(u.congested)
           \/ v = 3 /\ meets(u.severe)
  <2> SUFFICES ASSUME NEW v \in Watch..Severe, WithinMargin(u, value, margin, v)
               PROVE  \/ v = 1 /\ meets(u.watch)
                      \/ v = 2 /\ meets(u.congested)
                      \/ v = 3 /\ meets(u.severe)
    OBVIOUS
  <2>1. PICK n : n = <<u.watch, u.congested, u.severe>>[v]
    OBVIOUS
  <2>2. \/ v = 1 /\ n = u.watch
        \/ v = 2 /\ n = u.congested
        \/ v = 3 /\ n = u.severe
    BY <2>1 DEF Watch, Severe
  <2>3. n \in Nat
    BY <1>2, <2>2
  <2>4. meets(n)
    <3>1. IF u.op = "AtLeast" THEN value * Unit >= n * (Unit - margin)
          ELSE value * Unit <= n * (Unit + margin)
      BY <2>1 DEF WithinMargin
    <3> HIDE DEF meets
    <3> QED BY <1>3, <2>3, <3>1
  <2> QED BY <2>2, <2>4
<1> HIDE DEF meets, c
<1>5. \/ meets(u.severe) /\ c = 3
      \/ ~meets(u.severe) /\ meets(u.congested) /\ c = 2
      \/ ~meets(u.severe) /\ ~meets(u.congested) /\ meets(u.watch) /\ c = 1
      \/ ~meets(u.severe) /\ ~meets(u.congested) /\ ~meets(u.watch) /\ c = 0
  BY <1>1 DEF Severe, Congested, Watch, Clear
<1>6. c \in Severity
  BY <1>5 DEF Severity, Clear, Severe
<1>7. \A v \in Watch..Severe : WithinMargin(u, value, margin, v) => v <= c
  BY <1>4, <1>5
<1> QED BY <1>6, <1>7 DEF c

-----------------------------------------------------------------------------
(* Readings and the one that is chosen *)

\* Of finitely many things some have the highest rank.
LEMMA Highest ==
  ASSUME NEW S, IsFiniteSet(S), S # {}, NEW f, \A x \in S : f[x] \in Nat
  PROVE  LET H == {x \in S : \A y \in S : f[y] <= f[x]}
         IN  IsFiniteSet(H) /\ H # {}
<1> DEFINE g == [x \in S |-> f[x]]
           I == {g[x] : x \in S}
           H == {x \in S : \A y \in S : f[y] <= f[x]}
<1>1. g \in [S -> Nat]
  OBVIOUS
<1>2. IsFiniteSet(I)
  <2> HIDE DEF g
  <2> QED BY <1>1, ImageFinite
<1>3. I \in SUBSET Nat /\ I # {}
  OBVIOUS
<1>4. PICK n \in I : \A m \in I : m <= n
  <2> HIDE DEF I
  <2> QED BY <1>2, <1>3, Greatest
<1>5. PICK x \in S : f[x] = n
  BY <1>4
<1>6. x \in H
  BY <1>4, <1>5
<1>7. IsFiniteSet(H)
  BY FS_Subset
<1> QED BY <1>6, <1>7

\* Some have the lowest.
LEMMA Lowest ==
  ASSUME NEW S, S # {}, NEW f, \A x \in S : f[x] \in Nat
  PROVE  \E x \in S : \A y \in S : f[x] <= f[y]
<1> DEFINE I == {f[x] : x \in S}
<1>1. I \in SUBSET Nat /\ I # {}
  OBVIOUS
<1>2. PICK n \in I : \A m \in I : n <= m
  <2> HIDE DEF I
  <2> QED BY <1>1, Least
<1>3. PICK x \in S : f[x] = n
  BY <1>2
<1> QED BY <1>2, <1>3

\* A window as Fabric::ingest keeps it.
Sampled(w) ==
  /\ IsFiniteSet(w)
  /\ \A s \in w : /\ s.resource \in Nat /\ s.queue \in Nat /\ s.publisher \in Nat
                  /\ s.tick \in Nat
                  /\ \A m \in DOMAIN s.values : s.values[m] \in Nat
  /\ \A s, u \in w : SampleKey(s) = SampleKey(u) => s = u

Reading == [publisher : Nat, value : Nat, tick : Nat]

ReadingOf(s, m, t) ==
  [publisher |-> s.publisher, value |-> s.values[m], tick |-> Capped(s.tick, t)]

\* The samples that have a say on m for one queue.
Saying(q, w, t, r, k, m) ==
  {s \in w : s.resource = r /\ s.queue = k /\ Usable(q, s, m, t)}

\* Readings come from usable samples, and there is none only when there is no
\* such sample: the lowest publisher is never cut off.
LEMMA ReadingsFacts ==
  ASSUME NEW q, NEW w, Sampled(w), NEW t \in Nat, NEW r, NEW k, NEW m
  PROVE  LET R == Readings(q, w, t, r, k, m)
             S == Saying(q, w, t, r, k, m)
         IN  /\ IsFiniteSet(R) /\ R \in SUBSET Reading
             /\ \A x \in R : \E s \in S : x = ReadingOf(s, m, t)
             /\ S # {} => R # {}
             /\ \A s \in S : ReadingOf(s, m, t) \in Reading
             /\ Cardinality(S) <= MaxPeers => \A s \in S : ReadingOf(s, m, t) \in R
<1> DEFINE S == Saying(q, w, t, r, k, m)
           A == {ReadingOf(s, m, t) : s \in S}
           below(x) == {y \in A : y.publisher < x.publisher}
           R == {x \in A : Cardinality(below(x)) < MaxPeers}
<1>1. Readings(q, w, t, r, k, m) = R
  BY DEF Readings, Saying, ReadingOf
<1>2. IsFiniteSet(S) /\ S \subseteq w
  BY FS_Subset DEF Sampled, Saying
<1>3. \A s \in S : ReadingOf(s, m, t) \in Reading
  BY DEF Saying, Sampled, Usable, ReadingOf, Reading, Capped
<1>4. IsFiniteSet(A) /\ Cardinality(A) <= Cardinality(S)
  <2> DEFINE f == [s \in S |-> ReadingOf(s, m, t)]
  <2>1. f \in [S -> Reading]
    BY <1>3
  <2>2. A = {f[s] : s \in S}
    OBVIOUS
  <2> HIDE DEF f, A, S
  <2> QED BY <1>2, <2>1, <2>2, ImageFinite
<1>5. A \in SUBSET Reading
  BY <1>3
<1>6. Cardinality(S) \in Nat /\ Cardinality(A) \in Nat /\ MaxPeers \in Nat \ {0}
  BY <1>2, <1>4, FS_CardinalityType, EvaluatorAssumption
<1> HIDE DEF S, A
<1>7. IsFiniteSet(R) /\ R \in SUBSET Reading
  BY <1>4, <1>5, FS_Subset
<1>8. ASSUME S # {} PROVE R # {}
  <2>1. A # {} /\ \A x \in A : x.publisher \in Nat
    BY <1>5, <1>8 DEF A, Reading
  <2> DEFINE f == [x \in A |-> x.publisher]
  <2>2. \A x \in A : f[x] \in Nat /\ f[x] = x.publisher
    BY <2>1
  <2>3. PICK x \in A : \A y \in A : f[x] <= f[y]
    <3> HIDE DEF f
    <3> QED BY <2>1, <2>2, Lowest
  <2>4. below(x) = {}
    BY <2>1, <2>2, <2>3
  <2>5. Cardinality(below(x)) = 0
    BY <2>4, FS_EmptySet
  <2> HIDE DEF below
  <2> QED BY <1>6, <2>5
<1>9. ASSUME Cardinality(S) <= MaxPeers, NEW s \in S PROVE ReadingOf(s, m, t) \in R
  <2> DEFINE x == ReadingOf(s, m, t)
  <2>1. x \in A /\ x.publisher \in Nat
    BY <1>3 DEF A, Reading
  <2> HIDE DEF x
  <2>2. below(x) \subseteq A \ {x}
    BY <2>1
  <2> HIDE DEF below
  <2>3. IsFiniteSet(A \ {x}) /\ Cardinality(A \ {x}) = Cardinality(A) - 1
    BY <1>4, <2>1, FS_RemoveElement
  <2>4. Cardinality(below(x)) <= Cardinality(A) - 1 /\ Cardinality(below(x)) \in Nat
    BY <2>2, <2>3, FS_Subset, FS_CardinalityType
  <2>5. Cardinality(below(x)) < MaxPeers
    BY <1>4, <1>6, <1>9, <2>4
  <2>6. x \in R
    BY <2>1, <2>5
  <2> QED BY <2>6 DEF x
<1>10. \A x \in R : \E s \in S : x = ReadingOf(s, m, t)
  BY DEF A
<1> QED BY <1>1, <1>3, <1>7, <1>8, <1>9, <1>10 DEF S

LEMMA NewestChosen ==
  ASSUME NEW R \in SUBSET Reading, IsFiniteSet(R), R # {}
  PROVE  Newest(R) \in R
<1> DEFINE f == [x \in R |-> x.tick]
           g == [x \in R |-> x.publisher]
           H == {x \in R : \A y \in R : f[y] <= f[x]}
<1>1. \A x \in R : x.tick \in Nat /\ x.publisher \in Nat
  BY DEF Reading
<1>2. /\ \A x \in R : f[x] \in Nat /\ f[x] = x.tick
      /\ \A x \in R : g[x] \in Nat /\ g[x] = x.publisher
  BY <1>1
<1> HIDE DEF f, g
<1>3. H # {}
  BY <1>2, Highest
<1>4. H \subseteq R
  OBVIOUS
<1>5. PICK x \in H : \A y \in H : g[x] <= g[y]
  <2> HIDE DEF H
  <2> QED BY <1>2, <1>3, <1>4, Lowest
<1>6. \A y \in R : x.tick > y.tick \/ (x.tick = y.tick /\ x.publisher <= y.publisher)
  <2> SUFFICES ASSUME NEW y \in R, ~(x.tick > y.tick)
               PROVE  x.tick = y.tick /\ x.publisher <= y.publisher
    OBVIOUS
  <2>1. x.tick = y.tick
    BY <1>1, <1>2, <1>5
  <2>2. y \in H
    BY <1>2, <1>5, <2>1
  <2> QED BY <1>2, <1>4, <1>5, <2>1, <2>2
<1>7. \E z \in R : \A y \in R : z.tick > y.tick \/ (z.tick = y.tick /\ z.publisher <= y.publisher)
  BY <1>4, <1>6
<1> QED BY <1>7 DEF Newest

\* The reading that stands for a queue is one of its readings.
LEMMA ChosenFacts ==
  ASSUME NEW q, ValidPolicy(q), NEW R \in SUBSET Reading, IsFiniteSet(R), R # {}
  PROVE  Chosen(q, R) \in R
<1> DEFINE rank(x) == SelectInSeq(q.order, LAMBDA p : p = x.publisher)
           ranked == {x \in R : rank(x) # 0}
           f == [x \in R |-> rank(x)]
<1>1. \A x \in R : rank(x) \in Nat
  <2> SUFFICES ASSUME NEW x \in R PROVE rank(x) \in Nat
    OBVIOUS
  <2>1. q.order \in Seq(Nat) /\ Len(q.order) \in Nat
    BY RuleFacts
  <2>2. rank(x) = PlaceOf(q.order, x.publisher)
    BY DEF SelectInSeq, PlaceOf
  <2>3. PlaceOf(q.order, x.publisher) \in 0..Len(q.order)
    BY <2>1, FirstPlace
  <2> QED BY <2>1, <2>2, <2>3
<1>2. \A x \in R : f[x] \in Nat /\ f[x] = rank(x)
  BY <1>1
<1>3. Newest(R) \in R
  BY NewestChosen
<1>4. CASE ranked # {}
  <2>1. ranked \subseteq R
    OBVIOUS
  <2>2. \E x \in ranked : \A y \in ranked : f[x] <= f[y]
    <3> HIDE DEF ranked, f
    <3> QED BY <1>2, <1>4, <2>1, Lowest
  <2>3. \E x \in ranked : \A y \in ranked : rank(x) <= rank(y)
    BY <1>2, <2>2
  <2>4. (CHOOSE x \in ranked : \A y \in ranked : rank(x) <= rank(y)) \in ranked
    <3> HIDE DEF ranked, rank
    <3> QED BY <2>3
  <2> QED BY <1>3, <2>1, <2>4 DEF Chosen
<1>5. CASE ranked = {}
  BY <1>3, <1>5 DEF Chosen
<1> QED BY <1>4, <1>5

-----------------------------------------------------------------------------
(* Verdicts of the queues *)

Verdict == [queue : Nat, tick : Nat, up : Severity, down : Severity]

\* The usable samples of r on m.
Telling(q, w, t, r, m) == {s \in w : s.resource = r /\ Usable(q, s, m, t)}

\* What a verdict says is what one usable sample of the resource says, and
\* there is none only when there is no such sample.
LEMMA VerdictFacts ==
  ASSUME NEW q, ValidPolicy(q), NEW w, Sampled(w), NEW t \in Nat, NEW r, NEW u \in Rule
  PROVE  LET V == Verdicts(q, w, t, r, u)
             T == Telling(q, w, t, r, u.metric)
         IN  /\ IsFiniteSet(V) /\ V \in SUBSET Verdict
             /\ \A x \in V : \E s \in T : /\ x.up = Classify(u, s.values[u.metric], 0)
                                          /\ x.down = Classify(u, s.values[u.metric], q.margin)
             /\ V # {} <=> T # {}
<1> DEFINE m == u.metric
           R(k) == Readings(q, w, t, r, k, m)
           S(k) == Saying(q, w, t, r, k, m)
           T == Telling(q, w, t, r, m)
           K == {k \in Queues(w, r) : R(k) # {}}
           verdict(k) == [queue |-> k, tick |-> Chosen(q, R(k)).tick,
                          up |-> Classify(u, Chosen(q, R(k)).value, 0),
                          down |-> Classify(u, Chosen(q, R(k)).value, q.margin)]
           V == {verdict(k) : k \in K}
<1>1. Verdicts(q, w, t, r, u) = V
  BY DEF Verdicts
<1>2. IsFiniteSet(Queues(w, r)) /\ Queues(w, r) \in SUBSET Nat
  <2> DEFINE X == {x \in w : x.resource = r}
             f == [x \in X |-> x.queue]
  <2>1. IsFiniteSet(X) /\ \A x \in X : x.queue \in Nat
    BY FS_Subset DEF Sampled
  <2>2. f \in [X -> Nat]
    BY <2>1
  <2>3. Queues(w, r) = {f[x] : x \in X}
    BY DEF Queues
  <2>4. IsFiniteSet({f[x] : x \in X})
    <3> HIDE DEF f, X
    <3> QED BY <2>1, <2>2, ImageFinite
  <2>5. Queues(w, r) \in SUBSET Nat
    BY <2>1 DEF Queues
  <2> QED BY <2>3, <2>4, <2>5
<1>3. IsFiniteSet(K) /\ K \in SUBSET Nat
  BY <1>2, FS_Subset
<1>4. 0 \in 0..Unit /\ q.margin \in 0..Unit
  BY RuleFacts, UnitAssumption
<1>5. ASSUME NEW k \in K
      PROVE  /\ verdict(k) \in Verdict
             /\ \E s \in T : /\ verdict(k).up = Classify(u, s.values[m], 0)
                             /\ verdict(k).down = Classify(u, s.values[m], q.margin)
  <2>1. /\ IsFiniteSet(R(k)) /\ R(k) \in SUBSET Reading /\ R(k) # {}
        /\ \A x \in R(k) : \E s \in S(k) : x = ReadingOf(s, m, t)
    <3>1. R(k) # {}
      BY <1>5
    <3>2. /\ IsFiniteSet(R(k)) /\ R(k) \in SUBSET Reading
          /\ \A x \in R(k) : \E s \in S(k) : x = ReadingOf(s, m, t)
      BY ReadingsFacts
    <3> QED BY <3>1, <3>2
  <2>2. Chosen(q, R(k)) \in R(k)
    <3> HIDE DEF R
    <3> QED BY <2>1, ChosenFacts
  <2>3. PICK s \in S(k) : Chosen(q, R(k)) = ReadingOf(s, m, t)
    BY <2>1, <2>2
  <2>4. s \in T
    BY DEF Saying, Telling
  <2>5. PICK n \in Nat : n = Chosen(q, R(k)).value /\ n = s.values[m]
    BY <2>1, <2>2, <2>3 DEF Reading, ReadingOf
  <2>6. Classify(u, n, 0) \in Severity /\ Classify(u, n, q.margin) \in Severity
    BY <1>4, ClassifyFacts
  <2>7. Chosen(q, R(k)).tick \in Nat
    BY <2>1, <2>2 DEF Reading
  <2>8. verdict(k) \in Verdict
    BY <1>3, <2>5, <2>6, <2>7 DEF Verdict
  <2>9. /\ verdict(k).up = Classify(u, n, 0)
        /\ verdict(k).down = Classify(u, n, q.margin)
    BY <2>5
  <2> QED BY <2>4, <2>5, <2>8, <2>9
<1>6. IsFiniteSet(V)
  <2> DEFINE f == [k \in K |-> verdict(k)]
  <2>1. f \in [K -> Verdict]
    <3> HIDE DEF verdict
    <3> QED BY <1>5
  <2>2. V = {f[k] : k \in K}
    OBVIOUS
  <2>3. IsFiniteSet({f[k] : k \in K})
    <3> HIDE DEF f, K
    <3> QED BY <1>3, <2>1, ImageFinite
  <2> QED BY <2>2, <2>3
<1>7. ASSUME T # {} PROVE V # {}
  <2>1. PICK s \in T : TRUE
    BY <1>7
  <2>2. s \in S(s.queue) /\ s.queue \in Queues(w, r)
    BY DEF Telling, Saying, Queues
  <2>3. R(s.queue) # {}
    BY <2>2, ReadingsFacts
  <2>4. s.queue \in K
    BY <2>2, <2>3
  <2> HIDE DEF verdict, K
  <2> QED BY <2>4
<1> HIDE DEF verdict, K
<1>8. /\ V \in SUBSET Verdict
      /\ \A x \in V : \E s \in T : /\ x.up = Classify(u, s.values[m], 0)
                                   /\ x.down = Classify(u, s.values[m], q.margin)
  BY <1>5
<1>9. V # {} => T # {}
  BY <1>8
<1> HIDE DEF V, T
<1> QED BY <1>1, <1>6, <1>7, <1>8, <1>9 DEF T

\* The queue that decides is one of them, and none is worse.
LEMMA WorstFacts ==
  ASSUME NEW V \in SUBSET Verdict, IsFiniteSet(V), V # {}
  PROVE  Worst(V) \in V /\ \A y \in V : y.up <= Worst(V).up
<1> DEFINE f == [x \in V |-> x.up]
           g == [x \in V |-> x.tick]
           h == [x \in V |-> x.queue]
           A == {x \in V : \A y \in V : f[y] <= f[x]}
           B == {x \in A : \A y \in A : g[y] <= g[x]}
           worst(x) == \A y \in V :
             \/ x.up > y.up
             \/ x.up = y.up /\ x.tick > y.tick
             \/ x.up = y.up /\ x.tick = y.tick /\ x.queue <= y.queue
<1>1. \A x \in V : x.up \in Nat /\ x.tick \in Nat /\ x.queue \in Nat
  BY DEF Verdict, Severity, Clear, Severe
<1>2. \A x \in V : /\ f[x] \in Nat /\ f[x] = x.up
                   /\ g[x] \in Nat /\ g[x] = x.tick
                   /\ h[x] \in Nat /\ h[x] = x.queue
  BY <1>1
<1> HIDE DEF f, g, h
<1>3. IsFiniteSet(A) /\ A # {} /\ A \subseteq V
  BY <1>2, Highest
<1>4. IsFiniteSet(B) /\ B # {} /\ B \subseteq A
  <2> HIDE DEF A
  <2> QED BY <1>2, <1>3, Highest
<1>5. PICK x \in B : \A y \in B : h[x] <= h[y]
  <2> HIDE DEF B, A
  <2> QED BY <1>2, <1>3, <1>4, Lowest
<1>6. worst(x)
  <2> SUFFICES ASSUME NEW y \in V
               PROVE  \/ x.up > y.up
                      \/ x.up = y.up /\ x.tick > y.tick
                      \/ x.up = y.up /\ x.tick = y.tick /\ x.queue <= y.queue
    OBVIOUS
  <2>1. x \in V /\ x \in A
    BY <1>3, <1>4
  <2>2. y.up <= x.up
    BY <1>2, <2>1
  <2>3. CASE y \notin A
    <3>1. PICK z \in V : ~(f[z] <= f[y])
      BY <2>3
    <3>2. f[z] <= f[x]
      BY <2>1
    <3> QED BY <1>1, <1>2, <2>1, <3>1, <3>2
  <2>4. CASE y \in A /\ y \notin B
    <3>1. PICK z \in A : ~(g[z] <= g[y])
      BY <2>4
    <3>2. g[z] <= g[x]
      BY <1>5
    <3>3. f[x] <= f[y] /\ f[y] <= f[x]
      BY <2>1, <2>4
    <3> QED BY <1>1, <1>2, <1>3, <2>1, <3>1, <3>2, <3>3
  <2>5. CASE y \in B
    <3>1. h[x] <= h[y]
      BY <1>5, <2>5
    <3>2. g[x] <= g[y] /\ g[y] <= g[x]
      BY <1>4, <1>5, <2>5
    <3>3. f[x] <= f[y] /\ f[y] <= f[x]
      BY <1>3, <1>4, <2>1, <2>5
    <3> QED BY <1>1, <1>2, <2>1, <3>1, <3>2, <3>3
  <2> QED BY <2>3, <2>4, <2>5
<1>7. \E z \in V : worst(z)
  BY <1>3, <1>4, <1>6
<1>8. Worst(V) \in V /\ worst(Worst(V))
  <2>1. Worst(V) = CHOOSE z \in V : worst(z)
    BY DEF Worst
  <2> HIDE DEF worst
  <2> QED BY <1>7, <2>1
<1> QED BY <1>1, <1>8

-----------------------------------------------------------------------------
(* The severity of a resource *)

LEMMA SeverityFinite ==
  /\ Severity = {0, 1, 2, 3} /\ Severity \in SUBSET Nat /\ IsFiniteSet(Severity)
<1>1. PICK k \in Nat : k = 3
  OBVIOUS
<1>2. IsFiniteSet(0..k)
  BY FS_Interval
<1>3. Severity = 0..k /\ Severity = {0, 1, 2, 3} /\ Severity \in SUBSET Nat
  BY <1>1 DEF Severity, Clear, Severe
<1> QED BY <1>2, <1>3

\* A severity that the gate lets through is backed by as many rules as its
\* corroboration gate demands, and so by one at least.
LEMMA GateFacts ==
  ASSUME NEW q, ValidPolicy(q), NEW count, \A v \in Watch..Severe : count[v] \in Nat
  PROVE  /\ Gate(q, count) \in Severity
         /\ Gate(q, count) # Clear =>
              /\ Gate(q, count) \in Watch..Severe
              /\ q.gates[Gate(q, count)] > 0
              /\ count[Gate(q, count)] >= q.gates[Gate(q, count)]
<1> DEFINE G == {v \in Watch..Severe : q.gates[v] # 0 /\ count[v] >= q.gates[v]}
           T == {Clear} \cup G
<1>1. Watch..Severe = {1, 2, 3} /\ Clear = 0 /\ Severity = {0, 1, 2, 3}
  BY DEF Watch, Severe, Clear, Severity
<1>2. T \in SUBSET Nat /\ T # {} /\ T \subseteq Severity
  BY <1>1
<1>3. IsFiniteSet(T)
  <2> HIDE DEF T
  <2> QED BY <1>2, SeverityFinite, FS_Subset
<1>4. Max(T) \in T
  <2> HIDE DEF T
  <2> QED BY <1>2, <1>3, MaxFacts
<1>5. Gate(q, count) = Max(T)
  BY DEF Gate
<1>6. ASSUME NEW v \in G PROVE v \in Watch..Severe /\ q.gates[v] > 0 /\ count[v] >= q.gates[v]
  <2>1. q.gates[v] \in Nat
    BY RuleFacts
  <2> QED BY <2>1
<1> QED BY <1>2, <1>4, <1>5, <1>6

\* The greatest of some severities, and of Clear.
LEMMA MaxSeverity ==
  ASSUME NEW S \in SUBSET Severity, NEW floor \in Severity
  PROVE  LET n == Max({floor} \cup S)
         IN  /\ n \in Severity /\ floor <= n /\ \A v \in S : v <= n
             /\ n = floor \/ n \in S
<1> DEFINE T == {floor} \cup S
<1>1. Severity \in SUBSET Nat /\ IsFiniteSet(Severity)
  BY SeverityFinite
<1>2. T \in SUBSET Severity /\ T # {} /\ floor \in T
  OBVIOUS
<1> HIDE DEF T
<1>3. IsFiniteSet(T) /\ T \in SUBSET Nat
  BY <1>1, <1>2, FS_Subset
<1>4. Max(T) \in T /\ \A m \in T : m <= Max(T)
  BY <1>2, <1>3, MaxFacts
<1> QED BY <1>2, <1>4 DEF T

Split(q, w, t, r) == {i \in DOMAIN q.rules : Unresolved(q, w, t, r, q.rules[i].metric)}

\* The rule on which a sample of r is usable, seen from the rule.
LEMMA HeardTelling ==
  ASSUME NEW q, NEW w, NEW t, NEW r, NEW i \in DOMAIN q.rules
  PROVE  i \in Heard(q, w, t, r) <=> Telling(q, w, t, r, q.rules[i].metric) # {}
BY DEF Heard, Telling

\* The parts of a ResourceAssessment.
Assessment == [up : Severity, down : Severity, contradictory : BOOLEAN,
               coverage : {"None", "Partial", "Full"}]

\* What the rules say of r when no metric of it is in dispute.
Backing(q, w, t, r, a) ==
  /\ a.coverage = "None" <=> Heard(q, w, t, r) = {}
  /\ a.coverage = "Full" => Required(q) \subseteq Heard(q, w, t, r)
  /\ q.requireAll =>
       \A i \in Heard(q, w, t, r) : \E s \in Telling(q, w, t, r, q.rules[i].metric) :
         Classify(q.rules[i], s.values[q.rules[i].metric], q.margin) <= a.down

LEMMA AssessFacts ==
  ASSUME NEW q, ValidPolicy(q), NEW w, Sampled(w), NEW t \in Nat, NEW r
  PROVE  LET a == Assess(q, w, t, r)
         IN  /\ a \in Assessment /\ a.up <= a.down
             /\ a.contradictory <=> Split(q, w, t, r) # {}
             /\ a.up # Clear => /\ a.coverage # "None"
                                /\ q.gates[a.up] > 0
                                /\ Cardinality(Backed(q, w, t, r, a.up)) >= q.gates[a.up]
             /\ ~a.contradictory => Backing(q, w, t, r, a)
<1> DEFINE split == Split(q, w, t, r)
           V(i) == Verdicts(q, w, t, r, q.rules[i])
           H == Heard(q, w, t, r)
           present == {i \in DOMAIN q.rules \ split : V(i) # {}}
           worst(i) == Worst(V(i))
           agree(v) == {i \in present : worst(i).up >= v}
           yield(v) == {i \in present : worst(i).down >= v}
           cu == [v \in Watch..Severe |-> Cardinality(agree(v))]
           cd == [v \in Watch..Severe |-> Cardinality(yield(v))]
           D == {worst(i).down : i \in present}
           up == Gate(q, cu)
           low == IF q.requireAll THEN Max({Clear} \cup D) ELSE Gate(q, cd)
           cov == CoverageOf(q, present, split # {})
           a == Assess(q, w, t, r)
<1>1. a = [up |-> up, down |-> Max({up, low}), contradictory |-> split # {}, coverage |-> cov]
  <2> DEFINE verdicts == [i \in DOMAIN q.rules \ split |-> V(i)]
             pres == {i \in DOMAIN verdicts : verdicts[i] # {}}
             rule == [i \in pres |-> Worst(verdicts[i])]
  <2>1. pres = present
    OBVIOUS
  <2>2. \A i \in pres : rule[i] = worst(i)
    OBVIOUS
  <2>3. /\ \A v : {i \in pres : rule[i].up >= v} = agree(v)
        /\ \A v : {i \in pres : rule[i].down >= v} = yield(v)
        /\ {rule[i].down : i \in pres} = D
    BY <2>1, <2>2
  <2>4. /\ [v \in Watch..Severe |-> Cardinality({i \in pres : rule[i].up >= v})] = cu
        /\ [v \in Watch..Severe |-> Cardinality({i \in pres : rule[i].down >= v})] = cd
    BY <2>3
  <2>5. a = LET up_ == Gate(q, [v \in Watch..Severe |-> Cardinality({i \in pres : rule[i].up >= v})])
                down_ == IF q.requireAll THEN Max({Clear} \cup {rule[i].down : i \in pres})
                         ELSE Gate(q, [v \in Watch..Severe |->
                                Cardinality({i \in pres : rule[i].down >= v})])
            IN  [up |-> up_, down |-> Max({up_, down_}), contradictory |-> split # {},
                 coverage |-> CoverageOf(q, pres, split # {})]
    BY DEF Assess, Split
  <2> HIDE DEF pres, rule, present, cu, cd, D
  <2> QED BY <2>1, <2>3, <2>4, <2>5
<1>2. ASSUME NEW i \in DOMAIN q.rules
      PROVE  /\ V(i) # {} <=> i \in H
             /\ V(i) # {} => /\ worst(i) \in V(i) /\ worst(i) \in Verdict
                             /\ \E s \in Telling(q, w, t, r, q.rules[i].metric) :
                                  /\ worst(i).up = Classify(q.rules[i], s.values[q.rules[i].metric], 0)
                                  /\ worst(i).down =
                                       Classify(q.rules[i], s.values[q.rules[i].metric], q.margin)
  <2>1. q.rules[i] \in Rule
    BY RuleFacts
  <2>2. /\ IsFiniteSet(V(i)) /\ V(i) \in SUBSET Verdict
        /\ \A x \in V(i) : \E s \in Telling(q, w, t, r, q.rules[i].metric) :
             /\ x.up = Classify(q.rules[i], s.values[q.rules[i].metric], 0)
             /\ x.down = Classify(q.rules[i], s.values[q.rules[i].metric], q.margin)
        /\ V(i) # {} <=> Telling(q, w, t, r, q.rules[i].metric) # {}
    BY <2>1, VerdictFacts
  <2>3. V(i) # {} => worst(i) \in V(i)
    <3> HIDE DEF V
    <3> QED BY <2>2, WorstFacts
  <2>4. V(i) # {} <=> i \in H
    <3> HIDE DEF V
    <3> QED BY <2>2, HeardTelling
  <2> HIDE DEF V, H, worst
  <2> QED BY <2>2, <2>3, <2>4
<1>3. present \in SUBSET (DOMAIN q.rules) /\ present \subseteq H
  BY <1>2
<1>4. IsFiniteSet(DOMAIN q.rules)
  <2>1. Len(q.rules) \in Nat /\ DOMAIN q.rules = 1..Len(q.rules)
    BY RuleFacts
  <2> QED BY <2>1, FS_Interval
<1>5. \A i \in present : /\ worst(i).up \in Severity /\ worst(i).down \in Severity
                         /\ \E s \in Telling(q, w, t, r, q.rules[i].metric) :
                              /\ worst(i).up = Classify(q.rules[i], s.values[q.rules[i].metric], 0)
                              /\ worst(i).down =
                                   Classify(q.rules[i], s.values[q.rules[i].metric], q.margin)
  <2> HIDE DEF V, worst, H
  <2> QED BY <1>2, <1>3 DEF Verdict
<1>6. /\ \A v : agree(v) \subseteq Backed(q, w, t, r, v)
      /\ \A v : Backed(q, w, t, r, v) \subseteq DOMAIN q.rules
  <2>1. \A v : agree(v) \subseteq Backed(q, w, t, r, v)
    <3> SUFFICES ASSUME NEW v, NEW i \in agree(v) PROVE i \in Backed(q, w, t, r, v)
      OBVIOUS
    <3>1. i \in present /\ i \in DOMAIN q.rules
      BY <1>3
    <3>2. PICK s \in Telling(q, w, t, r, q.rules[i].metric) :
            worst(i).up = Classify(q.rules[i], s.values[q.rules[i].metric], 0)
      BY <1>5
    <3>3. worst(i).up >= v
      OBVIOUS
    <3> HIDE DEF worst
    <3> QED BY <3>1, <3>2, <3>3 DEF Backed, Telling
  <2> QED BY <2>1 DEF Backed
<1>7. \A v : /\ IsFiniteSet(agree(v)) /\ IsFiniteSet(yield(v))
             /\ Cardinality(agree(v)) \in Nat /\ Cardinality(yield(v)) \in Nat
             /\ Cardinality(Backed(q, w, t, r, v)) \in Nat
             /\ Cardinality(agree(v)) <= Cardinality(Backed(q, w, t, r, v))
  <2> SUFFICES ASSUME NEW v
               PROVE  /\ IsFiniteSet(agree(v)) /\ IsFiniteSet(yield(v))
                      /\ Cardinality(agree(v)) \in Nat /\ Cardinality(yield(v)) \in Nat
                      /\ Cardinality(Backed(q, w, t, r, v)) \in Nat
                      /\ Cardinality(agree(v)) <= Cardinality(Backed(q, w, t, r, v))
    OBVIOUS
  <2>1. yield(v) \subseteq DOMAIN q.rules /\ agree(v) \subseteq Backed(q, w, t, r, v)
        /\ Backed(q, w, t, r, v) \subseteq DOMAIN q.rules
    BY <1>3, <1>6
  <2> HIDE DEF agree, yield
  <2>2. IsFiniteSet(Backed(q, w, t, r, v)) /\ IsFiniteSet(yield(v))
    BY <1>4, <2>1, FS_Subset
  <2>3. IsFiniteSet(agree(v)) /\ Cardinality(agree(v)) <= Cardinality(Backed(q, w, t, r, v))
    BY <2>1, <2>2, FS_Subset
  <2> QED BY <2>2, <2>3, FS_CardinalityType
<1>8. /\ \A v \in Watch..Severe : cu[v] = Cardinality(agree(v)) /\ cu[v] \in Nat
      /\ \A v \in Watch..Severe : cd[v] \in Nat
  <2> HIDE DEF agree, yield
  <2> QED BY <1>7
<1>9. /\ up \in Severity
      /\ up # Clear => /\ up \in Watch..Severe /\ q.gates[up] > 0 /\ cu[up] >= q.gates[up]
  <2> HIDE DEF cu
  <2> QED BY <1>8, GateFacts
<1>10. D \in SUBSET Severity
  BY <1>5
<1>11. /\ low \in Severity
       /\ q.requireAll => \A i \in present : worst(i).down <= low
  <2>1. CASE q.requireAll
    <3>1. low = Max({Clear} \cup D) /\ Clear \in Severity
      BY <2>1 DEF Clear, Severity, Severe
    <3>2. \A i \in present : worst(i).down \in D
      OBVIOUS
    <3> HIDE DEF D, low, worst, present
    <3> QED BY <1>10, <3>1, <3>2, MaxSeverity
  <2>2. CASE ~q.requireAll
    <3>1. low = Gate(q, cd)
      BY <2>2
    <3> HIDE DEF cd, low
    <3> QED BY <1>8, <2>2, <3>1, GateFacts
  <2> QED BY <2>1, <2>2
<1>12. /\ Max({up, low}) \in Severity /\ up <= Max({up, low}) /\ low <= Max({up, low})
  <2> HIDE DEF up, low
  <2>1. {up, low} = {up} \cup {low} /\ {low} \in SUBSET Severity
    BY <1>11
  <2> QED BY <1>9, <1>11, <2>1, MaxSeverity
<1>13. cov \in {"None", "Partial", "Full"}
  BY DEF CoverageOf
<1>14. /\ a \in Assessment /\ a.up = up /\ a.down = Max({up, low})
       /\ a.contradictory = (split # {}) /\ a.coverage = cov
  <2> HIDE DEF up, low, cov, split, a
  <2> QED BY <1>1, <1>9, <1>12, <1>13 DEF Assessment
<1>15. ASSUME up # Clear
       PROVE  /\ cov # "None" /\ q.gates[up] > 0
              /\ Cardinality(Backed(q, w, t, r, up)) >= q.gates[up]
  <2>1. up \in Watch..Severe /\ q.gates[up] > 0 /\ cu[up] >= q.gates[up] /\ q.gates[up] \in Nat
    BY <1>9, <1>15, RuleFacts
  <2>2. cu[up] = Cardinality(agree(up)) /\ cu[up] \in Nat
    BY <1>8, <2>1
  <2>3. agree(up) # {}
    <3>1. SUFFICES ASSUME agree(up) = {} PROVE FALSE
      OBVIOUS
    <3>2. cu[up] = 0
      BY <2>2, <3>1, FS_EmptySet
    <3> QED BY <2>1, <3>2
  <2>4. present # {}
    BY <2>3
  <2>5. cov # "None"
    BY <2>4 DEF CoverageOf
  <2>6. Cardinality(Backed(q, w, t, r, up)) >= cu[up] /\ Cardinality(Backed(q, w, t, r, up)) \in Nat
    BY <1>7, <2>2
  <2> HIDE DEF up, cu, cov
  <2> QED BY <2>1, <2>2, <2>5, <2>6
<1>16. ASSUME split = {} PROVE Backing(q, w, t, r, a)
  <2>1. present = H
    <3>1. H \subseteq DOMAIN q.rules
      BY DEF Heard
    <3> HIDE DEF V, H
    <3> QED BY <1>2, <1>16, <3>1
  <2>2. cov = CoverageOf(q, H, FALSE)
    BY <1>16, <2>1
  <2>3. cov = "None" <=> H = {}
    BY <2>2 DEF CoverageOf
  <2>4. cov = "Full" => Required(q) \subseteq H
    BY <2>2 DEF CoverageOf, Required
  <2>5. ASSUME q.requireAll, NEW i \in H
        PROVE  \E s \in Telling(q, w, t, r, q.rules[i].metric) :
                 Classify(q.rules[i], s.values[q.rules[i].metric], q.margin) <= a.down
    <3>1. i \in present
      BY <2>1
    <3>2. PICK s \in Telling(q, w, t, r, q.rules[i].metric) :
            worst(i).down = Classify(q.rules[i], s.values[q.rules[i].metric], q.margin)
      BY <1>5, <3>1
    <3>3. worst(i).down <= low /\ worst(i).down \in Severity
      BY <1>5, <1>11, <2>5, <3>1
    <3>4. worst(i).down <= a.down
      <4> HIDE DEF worst, low, up, a
      <4>1. PICK x, y, z \in Severity : x = worst(i).down /\ y = low /\ z = a.down
        BY <1>11, <1>12, <1>14, <3>3
      <4>2. x <= y /\ y <= z
        BY <1>12, <1>14, <3>3, <4>1
      <4>3. x \in Int /\ y \in Int /\ z \in Int
        BY SeverityFinite
      <4>4. x <= z
        BY <4>2, <4>3
      <4> QED BY <4>1, <4>4
    <3> HIDE DEF worst, a
    <3> QED BY <3>2, <3>4
  <2> HIDE DEF a, cov, H
  <2> QED BY <1>14, <2>3, <2>4, <2>5 DEF Backing, H
<1> HIDE DEF a, up, low, cov, split
<1> QED BY <1>9, <1>12, <1>14, <1>15, <1>16 DEF a, split

-----------------------------------------------------------------------------
(* Propagation and aggregation *)

\* The assessments of the members of a domain.
Assessing(M, a) ==
  /\ a \in [M -> Assessment]
  /\ \A r \in M : /\ a[r].up <= a[r].down
                  /\ a[r].up # Clear => a[r].coverage # "None"

\* What propagation makes of them: nobody is raised above what some member
\* with pressure of its own has.
Lifted(M, a, b) ==
  /\ DOMAIN b = M
  /\ \A r \in M :
       /\ b[r].contradictory = a[r].contradictory /\ b[r].coverage = a[r].coverage
       /\ b[r].up \in Severity /\ b[r].down \in Severity
       /\ a[r].up <= b[r].up /\ a[r].down <= b[r].down
       /\ b[r].up = a[r].up \/ \E s \in M : a[s].up # Clear /\ b[r].up <= a[s].up
       /\ b[r].down = a[r].down \/ \E s \in M : a[s].up # Clear /\ b[r].down <= a[s].up

LEMMA RaisedFacts ==
  ASSUME NEW q, ValidPolicy(q), NEW top, NEW M, NEW a, Assessing(M, a),
         top # NoTopology =>
           top \in Snapshot(Nat, Nat) /\ ValidTopology(top) /\ M \subseteq ResourceIds(top)
  PROVE  Lifted(M, a, Raised(q, top, a))
<1> DEFINE sources == [r \in DOMAIN a |-> a[r].up]
           edges == IF top = NoTopology THEN <<>>
                    ELSE Propagate(top, sources, q.propagation, q.maxEntries)
           induced(r) == {edges[i].induced : i \in {j \in DOMAIN edges : edges[j].to = r}}
           b == Raised(q, top, a)
<1>1. DOMAIN a = M /\ \A r \in M : a[r] \in Assessment /\ a[r].up \in Severity /\ a[r].down \in Severity
  BY DEF Assessing, Assessment
<1>2. \A i \in DOMAIN edges : /\ edges[i].induced \in Severity
                              /\ \E s \in M : a[s].up # Clear /\ edges[i].induced <= a[s].up
  <2>1. CASE top = NoTopology
    <3>1. DOMAIN edges = {}
      BY <2>1
    <3> HIDE DEF edges
    <3> QED BY <3>1
  <2>2. CASE top # NoTopology
    <3> DEFINE g == q.propagation
               n == q.maxEntries
    <3>1. g \in PropagationPolicy /\ n \in Nat
      BY RuleFacts
    <3>2. M \in SUBSET ResourceIds(top) /\ top \in Snapshot(Nat, Nat) /\ ValidTopology(top)
      BY <2>2
    <3>3. sources \in [M -> Severity] /\ \A s \in M : sources[s] = a[s].up
      BY <1>1
    <3>4. edges = Propagate(top, sources, g, n)
      BY <2>2
    <3> HIDE DEF sources, g, n
    <3>5. \A i \in DOMAIN edges :
            /\ edges[i].to \in ResourceIds(top)
            /\ Induced(g, Best(top, sources, g)[edges[i].to].pressure) # Clear
            /\ edges[i].induced = Induced(g, Best(top, sources, g)[edges[i].to].pressure)
      BY <3>1, <3>2, <3>3, <3>4, PropagateFacts
    <3> HIDE DEF edges
    <3> SUFFICES ASSUME NEW i \in DOMAIN edges
                 PROVE  /\ edges[i].induced \in Severity
                        /\ \E s \in M : a[s].up # Clear /\ edges[i].induced <= a[s].up
      OBVIOUS
    <3> DEFINE r == edges[i].to
               p == Best(top, sources, g)[r].pressure
               v == PressureToSeverity(p)
    <3>6. r \in ResourceIds(top) /\ Induced(g, p) # Clear /\ edges[i].induced = Induced(g, p)
      BY <3>5
    <3> HIDE DEF r
    <3>7. /\ p \in Nat
          /\ v # Clear => \E s \in Loaded(sources) : v <= sources[s]
      BY <3>1, <3>2, <3>3, <3>6, BestExplains
    <3> HIDE DEF p
    <3>8. /\ Induced(g, p) \in Severity /\ Induced(g, p) <= v
          /\ Induced(g, p) # Clear <=> g.cap # Clear /\ v # Clear
      BY <3>1, <3>7, InducedFacts
    <3>9. PICK s \in Loaded(sources) : v <= sources[s]
      BY <3>6, <3>7, <3>8
    <3>10. v \in Severity
      BY <3>7, PressureLevels
    <3>11. s \in M /\ sources[s] # Clear /\ sources[s] \in Severity
      BY <3>3 DEF Loaded
    <3> HIDE DEF v
    <3>12. edges[i].induced <= sources[s]
      <4>1. PICK x, y, z \in Severity : x = Induced(g, p) /\ y = v /\ z = sources[s]
        BY <3>8, <3>10, <3>11
      <4>2. x \in Int /\ y \in Int /\ z \in Int
        BY SeverityFinite
      <4>3. x <= y /\ y <= z
        BY <3>8, <3>9, <4>1
      <4> QED BY <3>6, <4>1, <4>2, <4>3
    <3> QED BY <3>3, <3>6, <3>8, <3>11, <3>12
  <2> QED BY <2>1, <2>2
<1>3. b = [r \in M |-> [a[r] EXCEPT !.up = Max({@} \cup induced(r)),
                                   !.down = Max({@} \cup induced(r))]]
  BY <1>1 DEF Raised
<1> HIDE DEF edges, b
<1>4. ASSUME NEW r \in M, NEW x \in Severity
      PROVE  \E n \in Severity :
               /\ n = Max({x} \cup induced(r)) /\ x <= n
               /\ n = x \/ \E s \in M : a[s].up # Clear /\ n <= a[s].up
  <2> DEFINE n == Max({x} \cup induced(r))
  <2>1. /\ induced(r) \in SUBSET Severity
        /\ \A y \in induced(r) : \E s \in M : a[s].up # Clear /\ y <= a[s].up
    BY <1>2
  <2> HIDE DEF induced
  <2>2. n \in Severity /\ x <= n /\ (n = x \/ n \in induced(r))
    BY <2>1, MaxSeverity
  <2> HIDE DEF n
  <2>3. n = x \/ \E s \in M : a[s].up # Clear /\ n <= a[s].up
    BY <2>1, <2>2
  <2> QED BY <2>2, <2>3 DEF n
<1> HIDE DEF induced
<1>5. DOMAIN b = M
  BY <1>3
<1>6. ASSUME NEW r \in M
      PROVE  /\ b[r].contradictory = a[r].contradictory /\ b[r].coverage = a[r].coverage
             /\ b[r].up = Max({a[r].up} \cup induced(r))
             /\ b[r].down = Max({a[r].down} \cup induced(r))
  <2>1. a[r] \in Assessment
    BY <1>1
  <2>2. b[r] = [a[r] EXCEPT !.up = Max({@} \cup induced(r)), !.down = Max({@} \cup induced(r))]
    BY <1>3
  <2> QED BY <2>1, <2>2 DEF Assessment
<1>7. ASSUME NEW r \in M
      PROVE  /\ b[r].contradictory = a[r].contradictory /\ b[r].coverage = a[r].coverage
             /\ b[r].up \in Severity /\ b[r].down \in Severity
             /\ a[r].up <= b[r].up /\ a[r].down <= b[r].down
             /\ b[r].up = a[r].up \/ \E s \in M : a[s].up # Clear /\ b[r].up <= a[s].up
             /\ b[r].down = a[r].down \/ \E s \in M : a[s].up # Clear /\ b[r].down <= a[s].up
  <2>1. /\ b[r].up \in Severity /\ a[r].up <= b[r].up
        /\ b[r].up = a[r].up \/ \E s \in M : a[s].up # Clear /\ b[r].up <= a[s].up
    <3>1. PICK x \in Severity : x = a[r].up
      BY <1>1
    <3>2. PICK n \in Severity :
            /\ n = Max({x} \cup induced(r)) /\ x <= n
            /\ n = x \/ \E s \in M : a[s].up # Clear /\ n <= a[s].up
      BY <1>4
    <3>3. b[r].up = n
      BY <1>6, <3>1, <3>2
    <3> QED BY <3>1, <3>2, <3>3
  <2>2. /\ b[r].down \in Severity /\ a[r].down <= b[r].down
        /\ b[r].down = a[r].down \/ \E s \in M : a[s].up # Clear /\ b[r].down <= a[s].up
    <3>1. PICK x \in Severity : x = a[r].down
      BY <1>1
    <3>2. PICK n \in Severity :
            /\ n = Max({x} \cup induced(r)) /\ x <= n
            /\ n = x \/ \E s \in M : a[s].up # Clear /\ n <= a[s].up
      BY <1>4
    <3>3. b[r].down = n
      BY <1>6, <3>1, <3>2
    <3> QED BY <3>1, <3>2, <3>3
  <2> QED BY <1>6, <2>1, <2>2
<1> QED BY <1>5, <1>7 DEF Lifted, b

\* Two sets of severities no element of which is above all of the other have
\* the same maximum.
LEMMA MaxUnchanged ==
  ASSUME NEW F \in SUBSET Severity, NEW G \in SUBSET Severity, NEW floor \in Severity,
         \A x \in F : \E y \in G : x <= y,
         \A y \in G : \E x \in F : y <= x
  PROVE  Max({floor} \cup G) = Max({floor} \cup F)
<1> DEFINE m == Max({floor} \cup F)
           n == Max({floor} \cup G)
<1>1. m \in Severity /\ floor <= m /\ (\A v \in F : v <= m) /\ (m = floor \/ m \in F)
  BY MaxSeverity
<1>2. n \in Severity /\ floor <= n /\ (\A v \in G : v <= n) /\ (n = floor \/ n \in G)
  BY MaxSeverity
<1> HIDE DEF m, n
<1>3. \A x, y, z \in Severity : x <= y /\ y <= z => x <= z
  BY SeverityFinite
<1>4. \A x, y \in Severity : x <= y /\ y <= x => x = y
  BY SeverityFinite
<1>5. m <= n
  BY <1>1, <1>2, <1>3
<1>6. n <= m
  BY <1>1, <1>2, <1>3
<1>7. m = n
  BY <1>1, <1>2, <1>4, <1>5, <1>6
<1> QED BY <1>7 DEF m, n

HeardOf(a) == {r \in DOMAIN a : a[r].coverage # "None"}

Floor(q, a) ==
  IF (\E i \in DOMAIN q.rules : q.rules[i].required) /\ \E r \in HeardOf(a) : a[r].coverage = "Partial"
  THEN Watch ELSE Clear

LEMMA AggregateCases ==
  ASSUME NEW q, NEW a
  PROVE  /\ (\E r \in DOMAIN a : a[r].contradictory)
              => Aggregate(q, a) = [value |-> FALSE, why |-> "Conflict"]
         /\ ~(\E r \in DOMAIN a : a[r].contradictory) /\ HeardOf(a) = {}
              => Aggregate(q, a) = [value |-> FALSE, why |-> "Unknown"]
         /\ ~(\E r \in DOMAIN a : a[r].contradictory) /\ HeardOf(a) # {}
              => Aggregate(q, a) =
                   [value |-> TRUE, up |-> Max({Floor(q, a)} \cup {a[r].up : r \in HeardOf(a)}),
                    down |-> Max({Floor(q, a)} \cup {a[r].down : r \in HeardOf(a)})]
         /\ Floor(q, a) \in {Clear, Watch} /\ Floor(q, a) \in Severity
<1> DEFINE C == \E r \in DOMAIN a : a[r].contradictory
           H == HeardOf(a)
           U == {a[r].up : r \in H}
           D == {a[r].down : r \in H}
           floor == Floor(q, a)
           refuse == [value |-> FALSE, why |-> "Conflict"]
           silent == [value |-> FALSE, why |-> "Unknown"]
           given == [value |-> TRUE, up |-> Max({floor} \cup U), down |-> Max({floor} \cup D)]
<1>1. {floor} = IF (\E i \in DOMAIN q.rules : q.rules[i].required)
                     /\ \E r \in H : a[r].coverage = "Partial"
                THEN {Watch} ELSE {Clear}
  BY DEF Floor
<1>2. Aggregate(q, a) = CASE C -> refuse [] ~C /\ H = {} -> silent [] OTHER -> given
  BY <1>1 DEF Aggregate, HeardOf
<1>3. floor \in {Clear, Watch}
  BY DEF Floor
<1>4. floor \in Severity
  BY <1>3 DEF Severity, Clear, Watch, Severe
<1> HIDE DEF C, H, floor, U, D
<1>5. /\ C => Aggregate(q, a) = refuse
      /\ ~C /\ H = {} => Aggregate(q, a) = silent
      /\ ~C /\ H # {} => Aggregate(q, a) = given
  BY <1>2
<1> QED BY <1>3, <1>4, <1>5 DEF C, H, floor, U, D

\* Propagation does not move the aggregate.
LEMMA AggregateLifted ==
  ASSUME NEW q, NEW M, NEW a, NEW b, Assessing(M, a), Lifted(M, a, b)
  PROVE  Aggregate(q, b) = Aggregate(q, a)
<1> DEFINE H == HeardOf(a)
<1>1. DOMAIN a = M /\ DOMAIN b = M
  BY DEF Assessing, Lifted
<1>2. \A r \in M : b[r].contradictory = a[r].contradictory /\ b[r].coverage = a[r].coverage
  BY DEF Lifted
<1>3. HeardOf(b) = H
  BY <1>1, <1>2 DEF HeardOf
<1>4. H \subseteq M /\ \A s \in M : a[s].up # Clear => s \in H
  BY <1>1 DEF HeardOf, Assessing
<1>5. Floor(q, b) = Floor(q, a)
  <2>1. (\E r \in H : b[r].coverage = "Partial") <=> \E r \in H : a[r].coverage = "Partial"
    BY <1>2, <1>4
  <2> HIDE DEF H
  <2> QED BY <1>3, <2>1 DEF Floor, H
<1>6. (\E r \in DOMAIN a : a[r].contradictory) <=> \E r \in DOMAIN b : b[r].contradictory
  BY <1>1, <1>2
<1>7. \A r \in M : /\ a[r].up \in Severity /\ a[r].down \in Severity /\ a[r].up <= a[r].down
  BY DEF Assessing, Assessment
<1>8. Floor(q, a) \in Severity
  BY AggregateCases
<1> HIDE DEF H
<1>9. Max({Floor(q, a)} \cup {b[r].up : r \in H}) = Max({Floor(q, a)} \cup {a[r].up : r \in H})
  <2> DEFINE F == {a[r].up : r \in H}
             G == {b[r].up : r \in H}
  <2>1. F \in SUBSET Severity /\ G \in SUBSET Severity
    BY <1>4, <1>7 DEF Lifted
  <2>2. \A x \in F : \E y \in G : x <= y
    BY <1>4 DEF Lifted
  <2>3. \A y \in G : \E x \in F : y <= x
    <3> SUFFICES ASSUME NEW r \in H PROVE \E x \in F : b[r].up <= x
      OBVIOUS
    <3>1. b[r].up \in Int /\ r \in M
      BY <1>4, SeverityFinite DEF Lifted
    <3>2. CASE b[r].up = a[r].up
      BY <3>1, <3>2
    <3>3. CASE b[r].up # a[r].up
      <4>1. PICK s \in M : a[s].up # Clear /\ b[r].up <= a[s].up
        BY <3>1, <3>3 DEF Lifted
      <4> QED BY <1>4, <4>1
    <3> QED BY <3>2, <3>3
  <2> HIDE DEF F, G
  <2>4. Max({Floor(q, a)} \cup G) = Max({Floor(q, a)} \cup F)
    BY <1>8, <2>1, <2>2, <2>3, MaxUnchanged
  <2> QED BY <2>4 DEF F, G
<1>10. Max({Floor(q, a)} \cup {b[r].down : r \in H}) = Max({Floor(q, a)} \cup {a[r].down : r \in H})
  <2> DEFINE F == {a[r].down : r \in H}
             G == {b[r].down : r \in H}
  <2>1. F \in SUBSET Severity /\ G \in SUBSET Severity
    BY <1>4, <1>7 DEF Lifted
  <2>2. \A x \in F : \E y \in G : x <= y
    BY <1>4 DEF Lifted
  <2>3. \A y \in G : \E x \in F : y <= x
    <3> SUFFICES ASSUME NEW r \in H PROVE \E x \in F : b[r].down <= x
      OBVIOUS
    <3>1. b[r].down \in Int /\ r \in M
      BY <1>4, SeverityFinite DEF Lifted
    <3>2. CASE b[r].down = a[r].down
      BY <3>1, <3>2
    <3>3. CASE b[r].down # a[r].down
      <4>1. PICK s \in M : a[s].up # Clear /\ b[r].down <= a[s].up
        BY <3>1, <3>3 DEF Lifted
      <4>2. s \in H /\ a[s].up <= a[s].down
        BY <1>4, <1>7, <4>1
      <4>3. PICK y, z \in Int : y = a[s].up /\ z = a[s].down
        BY <1>7, <4>1, SeverityFinite
      <4>4. b[r].down <= z
        BY <3>1, <4>1, <4>2, <4>3
      <4> QED BY <4>2, <4>3, <4>4
    <3> QED BY <3>2, <3>3
  <2> HIDE DEF F, G
  <2>4. Max({Floor(q, a)} \cup G) = Max({Floor(q, a)} \cup F)
    BY <1>8, <2>1, <2>2, <2>3, MaxUnchanged
  <2> QED BY <2>4 DEF F, G
<1> QED BY <1>3, <1>5, <1>6, <1>9, <1>10, AggregateCases DEF H

\* The aggregate as the state machine sees it.
LEMMA AggregateFacts ==
  ASSUME NEW q, NEW M, NEW a, Assessing(M, a)
  PROVE  LET p == Aggregate(q, a)
         IN  /\ p \in Proposal
             /\ (\E r \in M : a[r].contradictory) => ~p.value
             /\ p.value =>
                  /\ \A r \in M : ~a[r].contradictory
                  /\ \A r \in M : a[r].coverage # "None" => a[r].down <= p.down
                  /\ p.up >= Congested => \E r \in M : a[r].up = p.up
                  /\ p.up = Clear /\ Required(q) # {}
                       => \A r \in M : a[r].coverage \in {"None", "Full"}
<1> DEFINE H == HeardOf(a)
           floor == Floor(q, a)
           U == {a[r].up : r \in H}
           D == {a[r].down : r \in H}
           p == Aggregate(q, a)
<1>1. /\ DOMAIN a = M /\ H \subseteq M
      /\ \A r \in M : /\ a[r].up \in Severity /\ a[r].down \in Severity /\ a[r].up <= a[r].down
                      /\ a[r].coverage \in {"None", "Partial", "Full"}
                      /\ a[r].coverage # "None" <=> r \in H
  BY DEF Assessing, Assessment, HeardOf
<1>2. floor \in Severity /\ floor \in {Clear, Watch}
  BY AggregateCases
<1>3. U \in SUBSET Severity /\ D \in SUBSET Severity
  BY <1>1
<1>4. \A r \in H : a[r].up \in U /\ a[r].down \in D
  OBVIOUS
<1>5. \A x \in U : \E r \in M : x = a[r].up /\ a[r].down \in D
  BY <1>1
<1>6. CASE \E r \in M : a[r].contradictory
  <2>1. p = [value |-> FALSE, why |-> "Conflict"]
    BY <1>1, <1>6, AggregateCases
  <2>2. p \in Proposal /\ ~p.value
    BY <2>1 DEF Proposal
  <2> QED BY <1>6, <2>2
<1>7. CASE (\A r \in M : ~a[r].contradictory) /\ H = {}
  <2>1. p = [value |-> FALSE, why |-> "Unknown"]
    BY <1>1, <1>7, AggregateCases
  <2>2. p \in Proposal /\ ~p.value
    BY <2>1 DEF Proposal
  <2> QED BY <1>7, <2>2
<1>8. CASE (\A r \in M : ~a[r].contradictory) /\ H # {}
  <2> DEFINE x == Max({floor} \cup U)
             y == Max({floor} \cup D)
  <2>1. p = [value |-> TRUE, up |-> x, down |-> y]
    BY <1>1, <1>8, AggregateCases
  <2> HIDE DEF U, D, p, floor
  <2>2. x \in Severity /\ floor <= x /\ (\A v \in U : v <= x) /\ (x = floor \/ x \in U)
    BY <1>2, <1>3, MaxSeverity
  <2>3. y \in Severity /\ floor <= y /\ (\A v \in D : v <= y)
    BY <1>2, <1>3, MaxSeverity
  <2> HIDE DEF x, y
  <2>4. x <= y
    <3>1. CASE x = floor
      BY <2>3, <3>1
    <3>2. CASE x \in U
      <4>1. PICK r \in M : x = a[r].up /\ a[r].down \in D
        BY <1>5, <3>2
      <4>2. PICK v \in Severity : v = a[r].down /\ x <= v /\ v <= y
        BY <1>1, <2>3, <4>1
      <4>3. x \in Int /\ v \in Int /\ y \in Int
        BY <2>2, <2>3, SeverityFinite
      <4> QED BY <4>2, <4>3
    <3> QED BY <2>2, <3>1, <3>2
  <2>5. p \in Proposal
    BY <2>1, <2>2, <2>3, <2>4 DEF Proposal
  <2>6. p.up = x /\ p.down = y
    BY <2>1
  <2>7. \A r \in M : a[r].coverage # "None" => a[r].down <= p.down
    BY <1>1, <1>4, <2>3, <2>6
  <2>8. x >= Congested => \E r \in M : a[r].up = x
    <3>1. ASSUME x >= Congested PROVE x # floor
      BY <1>2, <3>1 DEF Congested, Clear, Watch
    <3> QED BY <1>5, <2>2, <3>1
  <2>9. ASSUME x = Clear, Required(q) # {}, NEW r \in M
        PROVE  a[r].coverage \in {"None", "Full"}
    <3>1. floor # Watch
      <4>1. SUFFICES ASSUME floor = Watch PROVE FALSE
        OBVIOUS
      <4> QED BY <2>2, <2>9, <4>1 DEF Clear, Watch
    <3>2. \E i \in DOMAIN q.rules : q.rules[i].required
      BY <2>9 DEF Required
    <3>3. ~(\E z \in H : a[z].coverage = "Partial")
      BY <3>1, <3>2 DEF Floor, floor
    <3> QED BY <1>1, <3>3
  <2> QED BY <1>8, <2>5, <2>6, <2>7, <2>8, <2>9 DEF p
<1> QED BY <1>6, <1>7, <1>8

-----------------------------------------------------------------------------
(* The inductive invariant *)

\* The state machine never sees a tick before one it has seen, so it never
\* refuses the tick itself.
ClockAhead == dom.lastChange <= now /\ dom.lastEval <= now

\* What is offered is installed if it is valid, and nothing else is.
Installed ==
  /\ topology # NoTopology => ValidTopology(topology)
  /\ ValidTopology(offered) => topology = offered

IInv == TypeOK /\ IsFiniteSet(window) /\ ClockAhead /\ Installed

LEMMA NoTopologyFacts ==
  NoTopology \in Snapshot(Nat, Nat) /\ ~ValidTopology(NoTopology)
<1>1. NoTopology.resources = <<>> /\ NoTopology.links = <<>> /\ NoTopology.paths = <<>>
  BY DEF NoTopology
<1>2. \A E : <<>> \in Seq(E)
  OBVIOUS
<1>3. NoTopology \in Snapshot(Nat, Nat)
  <2> DEFINE A == Seq([id : Nat, parent : Nat, domain : Nat, depth : Nat])
             B == Seq([id : Nat, from : Nat, to : Nat])
             C == Seq([id : Nat, hops : Seq(Nat)])
  <2>1. <<>> \in A /\ <<>> \in B /\ <<>> \in C
    BY <1>2
  <2> HIDE DEF A, B, C
  <2>2. NoTopology \in [resources : A, links : B, paths : C]
    BY <2>1 DEF NoTopology
  <2> QED BY <2>2 DEF Snapshot, A, B, C
<1> QED BY <1>1, <1>3 DEF ValidTopology

LEMMA InitHolds == Init => IInv
<1> SUFFICES ASSUME Init PROVE IInv
  OBVIOUS
<1>1. now = 1 /\ now \in 1..MaxTick
  BY EvaluatorAssumption DEF Init
<1>2. /\ NoTopology \in Snapshot(Nat, Nat) /\ ~ValidTopology(NoTopology)
      /\ topology = NoTopology /\ offered = NoTopology
  BY NoTopologyFacts DEF Init
<1>3. window = {} /\ IsFiniteSet(window) /\ Cardinality(window) = 0
  BY FS_EmptySet DEF Init
<1>4. dom \in DomainState /\ dom = NewDomain
  BY NewDomainType DEF Init
<1>5. ClockAhead
  BY <1>1, <1>4 DEF ClockAhead, NewDomain
<1>6. 0 <= MaxEvidence
  BY EvaluatorAssumption
<1>7. TypeOK
  BY <1>1, <1>2, <1>3, <1>4, <1>6 DEF TypeOK, Init
<1> QED BY <1>2, <1>3, <1>5, <1>7 DEF IInv, Installed

LEMMA StateFacts ==
  ASSUME IInv
  PROVE  /\ now \in Nat /\ dom \in DomainState
         /\ ValidPolicy(policy) /\ policy.ladder \in Policy
         /\ Sampled(window)
         /\ topology # NoTopology => topology \in Snapshot(Nat, Nat) /\ ValidTopology(topology)
         /\ ~Regressed(dom, now)
<1>1. TypeOK /\ IsFiniteSet(window) /\ ClockAhead /\ Installed
  BY DEF IInv
<1>2. now \in Nat /\ dom \in DomainState
  BY <1>1 DEF TypeOK
<1>3. ValidPolicy(policy) /\ policy.ladder \in Policy
  BY <1>1, EvaluatorAssumption, RuleFacts DEF TypeOK
<1>4. Sampled(window)
  <2>1. ASSUME NEW s \in window
        PROVE  /\ s.resource \in Nat /\ s.queue \in Nat /\ s.publisher \in Nat
               /\ s.tick \in Nat
               /\ \A m \in DOMAIN s.values : s.values[m] \in Nat
    <3>1. PICK o \in Observations :
            s.values = o.values /\ SampleKey(s) = SampleKey(o) /\ s.tick \in 1..(now + o.ahead)
      BY <1>1 DEF TypeOK
    <3>2. s.resource = o.resource /\ s.queue = o.queue /\ s.publisher = o.publisher
      BY <3>1 DEF SampleKey
    <3>3. /\ o.publisher \in Nat /\ o.queue \in Nat /\ o.resource \in Nat
          /\ \A m \in DOMAIN o.values : o.values[m] \in Nat
      BY EvaluatorAssumption
    <3>4. s.tick \in Nat
      BY <3>1
    <3> QED BY <3>1, <3>2, <3>3, <3>4
  <2>2. \A s, u \in window : SampleKey(s) = SampleKey(u) => s = u
    BY <1>1 DEF TypeOK
  <2> QED BY <1>1, <2>1, <2>2 DEF Sampled
<1>5. topology # NoTopology => topology \in Snapshot(Nat, Nat) /\ ValidTopology(topology)
  BY <1>1 DEF TypeOK, Installed
<1>6. ~Regressed(dom, now)
  <2>1. PICK x, y \in Nat : x = dom.lastChange /\ y = dom.lastEval
    BY <1>2 DEF DomainState
  <2>2. x <= now /\ y <= now
    BY <1>1, <2>1 DEF ClockAhead
  <2> QED BY <1>2, <2>1, <2>2 DEF Regressed
<1> QED BY <1>2, <1>3, <1>4, <1>5, <1>6

\* What an evaluation proposes, with propagation out of the way.
LEMMA ProposedFacts ==
  ASSUME IInv
  PROVE  /\ Assessing(Members(topology, window), Assessed)
         /\ Proposed = Aggregate(policy, Assessed)
         /\ Proposed \in Proposal
<1> DEFINE M == Members(topology, window)
<1>1. /\ now \in Nat /\ ValidPolicy(policy) /\ Sampled(window)
      /\ topology # NoTopology => topology \in Snapshot(Nat, Nat) /\ ValidTopology(topology)
  BY StateFacts
<1>2. topology # NoTopology => M \subseteq ResourceIds(topology)
  BY DEF Members, DomainResources
<1>3. Assessed = [r \in M |-> Assess(policy, window, now, r)]
  BY DEF Assessed
<1> HIDE DEF M
<1>4. \A r \in M : /\ Assessed[r] \in Assessment /\ Assessed[r].up <= Assessed[r].down
                   /\ Assessed[r].up # Clear => Assessed[r].coverage # "None"
  <2> SUFFICES ASSUME NEW r \in M
               PROVE  LET a == Assess(policy, window, now, r)
                      IN  /\ a \in Assessment /\ a.up <= a.down
                          /\ a.up # Clear => a.coverage # "None"
    BY <1>3
  <2> QED BY <1>1, AssessFacts
<1>5. Assessing(M, Assessed)
  BY <1>3, <1>4 DEF Assessing
<1>6. PICK a : a = Assessed
  OBVIOUS
<1>7. Assessing(M, a)
  BY <1>5, <1>6
<1>8. Lifted(M, a, Raised(policy, topology, a))
  BY <1>1, <1>2, <1>7, RaisedFacts
<1>9. Aggregate(policy, Raised(policy, topology, a)) = Aggregate(policy, a)
  BY <1>7, <1>8, AggregateLifted
<1>10. Aggregate(policy, a) \in Proposal
  BY <1>7, AggregateFacts
<1> QED BY <1>5, <1>6, <1>9, <1>10 DEF Proposed, M

LEMMA TickKeeps ==
  ASSUME IInv, Tick
  PROVE  IInv'
<1>1. /\ now \in 1..MaxTick /\ now < MaxTick /\ MaxTick \in Nat /\ now' = now + 1
      /\ policy' = policy /\ topology' = topology /\ offered' = offered
      /\ window' = window /\ dom' = dom /\ dom \in DomainState
  BY EvaluatorAssumption DEF IInv, TypeOK, Tick
<1>2. now' \in 1..MaxTick
  BY <1>1
<1>3. ASSUME NEW s \in window
      PROVE  \E o \in Observations : s.values = o.values /\ SampleKey(s) = SampleKey(o)
                                     /\ s.tick \in 1..(now' + o.ahead)
  <2>1. PICK o \in Observations :
          s.values = o.values /\ SampleKey(s) = SampleKey(o) /\ s.tick \in 1..(now + o.ahead)
    BY DEF IInv, TypeOK
  <2>2. o.ahead \in Nat
    BY EvaluatorAssumption
  <2>3. s.tick \in 1..(now' + o.ahead)
    BY <1>1, <2>1, <2>2
  <2> QED BY <2>1, <2>3
<1>4. TypeOK'
  BY <1>1, <1>2, <1>3 DEF IInv, TypeOK, SampleKey
<1>5. ClockAhead'
  <2>1. PICK x, y \in Nat : x = dom.lastChange /\ y = dom.lastEval
    BY <1>1 DEF DomainState
  <2>2. x <= now /\ y <= now
    BY <2>1 DEF IInv, ClockAhead
  <2>3. x <= now' /\ y <= now'
    BY <1>1, <2>2
  <2> QED BY <1>1, <2>1, <2>3 DEF ClockAhead
<1> QED BY <1>1, <1>4, <1>5 DEF IInv, Installed

LEMMA DeliverKeeps ==
  ASSUME IInv, NEW o \in Observations, Deliver(o)
  PROVE  IInv'
<1> DEFINE s == [publisher |-> o.publisher, resource |-> o.resource, queue |-> o.queue,
                 values |-> o.values, tick |-> now + o.ahead]
           others == {x \in window : SampleKey(x) # SampleKey(s)}
<1>1. /\ others # window \/ Cardinality(window) < MaxEvidence
      /\ window' = others \cup {s}
      /\ now' = now /\ policy' = policy /\ topology' = topology /\ offered' = offered
      /\ dom' = dom
  BY DEF Deliver
<1>2. TypeOK /\ IsFiniteSet(window)
  BY DEF IInv
<1>3. /\ s.values = o.values /\ SampleKey(s) = SampleKey(o) /\ s.tick = now + o.ahead
      /\ now \in 1..MaxTick /\ o.ahead \in Nat /\ MaxTick \in Nat /\ MaxEvidence \in Nat
  BY <1>2, EvaluatorAssumption DEF SampleKey, TypeOK
<1> HIDE DEF s
<1>4. s.tick \in 1..(now + o.ahead)
  BY <1>3
<1>5. others \subseteq window /\ \A x \in others : SampleKey(x) # SampleKey(s)
  OBVIOUS
<1>6. \A x \in window' : \E e \in Observations :
        x.values = e.values /\ SampleKey(x) = SampleKey(e) /\ x.tick \in 1..(now + e.ahead)
  <2> SUFFICES ASSUME NEW x \in window'
               PROVE  \E e \in Observations : x.values = e.values /\ SampleKey(x) = SampleKey(e)
                                              /\ x.tick \in 1..(now + e.ahead)
    OBVIOUS
  <2>1. CASE x = s
    BY <1>3, <1>4, <2>1
  <2>2. CASE x # s
    <3>1. x \in window
      BY <1>1, <2>2
    <3> QED BY <1>2, <3>1 DEF TypeOK
  <2> QED BY <2>1, <2>2
<1>7. \A x, y \in window' : SampleKey(x) = SampleKey(y) => x = y
  BY <1>1, <1>2, <1>5 DEF TypeOK
<1>8. IsFiniteSet(others) /\ Cardinality(others) < MaxEvidence /\ Cardinality(others) \in Nat
  <2>1. /\ IsFiniteSet(others) /\ Cardinality(others) <= Cardinality(window)
        /\ others # window => Cardinality(others) < Cardinality(window)
    <3> HIDE DEF others
    <3>1. /\ IsFiniteSet(others) /\ Cardinality(others) <= Cardinality(window)
          /\ Cardinality(window) = Cardinality(others) => window = others
      BY <1>2, <1>5, FS_Subset
    <3>2. Cardinality(others) \in Nat /\ Cardinality(window) \in Nat
      BY <1>2, <3>1, FS_CardinalityType
    <3> QED BY <3>1, <3>2
  <2>2. Cardinality(window) <= MaxEvidence
    BY <1>2 DEF TypeOK
  <2>3. Cardinality(others) \in Nat /\ Cardinality(window) \in Nat
    BY <1>2, <2>1, FS_CardinalityType
  <2> HIDE DEF others
  <2> QED BY <1>1, <1>3, <2>1, <2>2, <2>3
<1>9. IsFiniteSet(window') /\ Cardinality(window') <= MaxEvidence
  <2>1. s \notin others
    BY <1>5
  <2> HIDE DEF others
  <2>2. IsFiniteSet(others \cup {s}) /\ Cardinality(others \cup {s}) = Cardinality(others) + 1
    BY <1>8, <2>1, FS_AddElement
  <2> QED BY <1>1, <1>3, <1>8, <2>2
<1>10. TypeOK'
  BY <1>1, <1>2, <1>6, <1>7, <1>9 DEF TypeOK, SampleKey
<1> QED BY <1>1, <1>9, <1>10 DEF IInv, ClockAhead, Installed

LEMMA FenceKeeps ==
  ASSUME IInv, NEW p, Fence(p)
  PROVE  IInv'
<1>1. /\ window' \subseteq window
      /\ now' = now /\ policy' = policy /\ topology' = topology /\ offered' = offered
      /\ dom' = dom
  BY DEF Fence
<1>2. TypeOK /\ IsFiniteSet(window)
  BY DEF IInv
<1>3. IsFiniteSet(window') /\ Cardinality(window') <= MaxEvidence
  <2>1. IsFiniteSet(window') /\ Cardinality(window') <= Cardinality(window)
    BY <1>1, <1>2, FS_Subset
  <2>2. Cardinality(window') \in Nat /\ Cardinality(window) \in Nat /\ MaxEvidence \in Nat
    BY <1>2, <2>1, FS_CardinalityType, EvaluatorAssumption
  <2>3. Cardinality(window) <= MaxEvidence
    BY <1>2 DEF TypeOK
  <2> QED BY <2>1, <2>2, <2>3
<1>4. TypeOK'
  BY <1>1, <1>2, <1>3 DEF TypeOK, SampleKey
<1> QED BY <1>1, <1>3, <1>4 DEF IInv, ClockAhead, Installed

LEMMA SetTopologyKeeps ==
  ASSUME IInv, NEW t \in Candidates, SetTopology(t)
  PROVE  IInv'
<1>1. /\ topology = NoTopology /\ offered' = t
      /\ now' = now /\ policy' = policy /\ window' = window
      /\ t \in Snapshot(Nat, Nat)
      /\ TypeOK /\ IsFiniteSet(window) /\ ClockAhead /\ dom \in DomainState
  BY EvaluatorAssumption DEF SetTopology, IInv, TypeOK
<1>2. Invalidate(dom) \in DomainState
  BY <1>1, InvalidateType
<1>3. /\ Invalidate(dom).lastChange = dom.lastChange
      /\ Invalidate(dom).lastEval = dom.lastEval
  BY <1>1 DEF Invalidate, DomainState
<1>4. CASE ValidTopology(t)
  <2>1. topology' = t /\ dom' = Invalidate(dom)
    BY <1>4 DEF SetTopology
  <2>2. TypeOK'
    BY <1>1, <1>2, <2>1 DEF TypeOK, SampleKey
  <2>3. ClockAhead'
    BY <1>1, <1>3, <2>1 DEF ClockAhead
  <2> QED BY <1>1, <1>4, <2>1, <2>2, <2>3 DEF IInv, Installed
<1>5. CASE ~ValidTopology(t)
  <2>1. topology' = NoTopology /\ dom' = dom
    BY <1>1, <1>5 DEF SetTopology
  <2>2. TypeOK'
    BY <1>1, <2>1 DEF TypeOK, SampleKey
  <2>3. ClockAhead'
    BY <1>1, <2>1 DEF ClockAhead
  <2> QED BY <1>1, <1>5, <2>1, <2>2, <2>3 DEF IInv, Installed
<1> QED BY <1>4, <1>5

LEMMA EvaluateKeeps ==
  ASSUME IInv, Evaluate
  PROVE  IInv'
<1>1. /\ dom' = Evaluated(dom, Proposed, policy.ladder, now)
      /\ now' = now /\ policy' = policy /\ topology' = topology /\ offered' = offered
      /\ window' = window
  BY DEF Evaluate
<1>2. /\ now \in Nat /\ dom \in DomainState /\ policy.ladder \in Policy /\ Proposed \in Proposal
  BY StateFacts, ProposedFacts
<1>3. PICK p \in Proposal, q \in Policy : dom' = Evaluated(dom, p, q, now)
  BY <1>1, <1>2
<1>4. /\ Evaluated(dom, p, q, now) \in DomainState
      /\ Evaluated(dom, p, q, now).lastEval = now
      /\ Evaluated(dom, p, q, now).lastChange \in {dom.lastChange, now}
  BY <1>2, EvaluatedType, EvaluatedTicks
<1>5. TypeOK'
  BY <1>1, <1>3, <1>4 DEF IInv, TypeOK, SampleKey
<1>6. ClockAhead'
  <2>1. dom'.lastEval = now /\ dom'.lastChange \in {dom.lastChange, now} /\ dom.lastChange <= now
    BY <1>3, <1>4 DEF IInv, ClockAhead
  <2>2. dom'.lastChange <= now /\ dom'.lastEval <= now
    BY <1>2, <2>1
  <2> QED BY <1>1, <2>2 DEF ClockAhead
<1> QED BY <1>1, <1>5, <1>6 DEF IInv, Installed

LEMMA NextKeeps == IInv /\ [Next]_vars => IInv'
<1> SUFFICES ASSUME IInv, [Next]_vars PROVE IInv'
  OBVIOUS
<1>1. CASE Tick
  BY <1>1, TickKeeps
<1>2. CASE \E o \in Observations : Deliver(o)
  BY <1>2, DeliverKeeps
<1>3. CASE \E p \in {o.publisher : o \in Observations} : Fence(p)
  BY <1>3, FenceKeeps
<1>4. CASE \E t \in Candidates : SetTopology(t)
  BY <1>4, SetTopologyKeeps
<1>5. CASE Evaluate
  BY <1>5, EvaluateKeeps
<1>6. CASE UNCHANGED vars
  BY <1>6 DEF vars, IInv, TypeOK, SampleKey, ClockAhead, Installed
<1> QED BY <1>1, <1>2, <1>3, <1>4, <1>5, <1>6 DEF Next

LEMMA Invariance == Spec => []IInv
<1> QED BY InitHolds, NextKeeps, PTL DEF Spec

-----------------------------------------------------------------------------
(* Theorems *)

\* Every variable keeps its type, and the window its bound.
THEOREM TypeCorrect == Spec => []TypeOK
<1>1. IInv => TypeOK
  BY DEF IInv
<1> QED BY <1>1, Invariance, PTL

\* validate_topology accepts exactly the forests of bounded depth with links
\* and paths inside them and with distinct names, of every size.
THEOREM TopologyIsExact == Spec => []TopologyExact
<1>1. IInv => TopologyExact
  <2> SUFFICES ASSUME IInv, offered # NoTopology
               PROVE  topology = offered <=> Sound(offered)
    BY DEF TopologyExact
  <2>1. /\ offered \in Snapshot(Nat, Nat)
        /\ topology # NoTopology => ValidTopology(topology)
        /\ ValidTopology(offered) => topology = offered
    BY DEF IInv, TypeOK, Installed
  <2>2. ValidTopology(offered) <=> Sound(offered)
    BY <2>1, ValidIsSound
  <2> QED BY <2>1, <2>2
<1> QED BY <1>1, Invariance, PTL

\* Breadth-first search yields what the definition by distances demands, for
\* every topology that is installed and every pressure in it.
THEOREM PropagationIsExact == Spec => []PropagationMatches
<1>1. IInv => PropagationMatches
  <2> SUFFICES ASSUME IInv, topology # NoTopology,
                      NEW sources \in [ResourceIds(topology) -> Severity]
               PROVE  Matches(topology, sources, policy.propagation)
    BY DEF PropagationMatches
  <2>1. topology \in Snapshot(Nat, Nat) /\ ValidTopology(topology) /\ ValidPolicy(policy)
    BY StateFacts
  <2>2. policy.propagation \in PropagationPolicy
    BY <2>1, RuleFacts
  <2>3. PICK D : D = ResourceIds(topology)
    OBVIOUS
  <2>4. D \in SUBSET ResourceIds(topology) /\ sources \in [D -> Severity]
    BY <2>3
  <2> QED BY <2>1, <2>2, <2>4, PropagateMatches
<1> QED BY <1>1, Invariance, PTL

\* The only steps that touch the domain.
LEMMA DomainSteps ==
  ASSUME IInv, [Next]_vars, dom' # dom
  PROVE  \/ /\ window = {} /\ dom' = Invalidate(dom)
            /\ dom'.state = dom.state
         \/ dom' = Evaluated(dom, Aggregate(policy, Assessed), policy.ladder, now)
<1>1. CASE Evaluate
  BY <1>1, ProposedFacts DEF Evaluate
<1>2. CASE \E t \in Candidates : SetTopology(t)
  <2>1. window = {} /\ dom' = Invalidate(dom)
    BY <1>2 DEF SetTopology
  <2>2. dom \in DomainState
    BY DEF IInv, TypeOK
  <2>3. Invalidate(dom).state = dom.state
    BY <2>2 DEF Invalidate, DomainState
  <2> QED BY <2>1, <2>3
<1> QED BY <1>1, <1>2 DEF Next, Tick, Deliver, Fence, vars

\* Propagation is a reasoning step: it never changes where an evaluation moves
\* the domain, whatever edges it reports and however many.
THEOREM PropagationIsInert == Spec => PropagationInert
<1> DEFINE Inert == dom' # dom /\ window # {}
                    => dom' = Evaluated(dom, Aggregate(policy, Assessed), policy.ladder, now)
<1>1. IInv /\ [Next]_vars => [Inert]_vars
  BY DomainSteps
<1>2. [][Inert]_vars <=> PropagationInert
  BY DEF PropagationInert
<1> HIDE DEF Inert
<1> QED BY <1>1, <1>2, Invariance, PTL DEF Spec

\* An evaluation, as the lemmas about it see it.
LEMMA EvaluationFacts ==
  ASSUME IInv, [Next]_vars, dom'.state # dom.state
  PROVE  \E p \in Proposal, q \in Policy :
           /\ p = Aggregate(policy, Assessed)
           /\ dom' = Evaluated(dom, p, q, now)
<1>1. dom' = Evaluated(dom, Aggregate(policy, Assessed), policy.ladder, now)
  BY DomainSteps
<1>2. Aggregate(policy, Assessed) \in Proposal /\ policy.ladder \in Policy
  BY StateFacts, ProposedFacts
<1> QED BY <1>1, <1>2

\* What makes an evaluation move the domain: the proposal, and behind it the
\* assessments of the members.
LEMMA MoveFacts ==
  ASSUME IInv, [Next]_vars, dom'.state # dom.state
  PROVE  LET p == Aggregate(policy, Assessed)
             s == dom'.state
         IN  /\ s \in {"Congested", "Severe"} /\ SeverityOf(s) > SeverityOf(dom.state)
                  => p.value /\ p.up = SeverityOf(s)
             /\ IsAuthoritative(dom.state) /\ IsAuthoritative(s)
                  /\ SeverityOf(s) < SeverityOf(dom.state)
                  => p.value /\ p.down <= SeverityOf(s)
             /\ dom.state # "Clear" /\ s = "Clear" => p.value /\ p.up = Clear
<1>1. PICK p \in Proposal, q \in Policy :
        p = Aggregate(policy, Assessed) /\ dom' = Evaluated(dom, p, q, now)
  BY EvaluationFacts
<1>2. PICK e : e = Evaluated(dom, p, q, now)
  OBVIOUS
<1>3. /\ dom \in DomainState /\ now \in Nat /\ ~Regressed(dom, now)
  BY StateFacts
<1>4. LET s == Evaluated(dom, p, q, now).state
      IN  /\ s \in {"Congested", "Severe"} /\ SeverityOf(s) > SeverityOf(dom.state)
               => p.value /\ p.up = SeverityOf(s)
          /\ IsAuthoritative(dom.state) /\ IsAuthoritative(s)
               /\ SeverityOf(s) < SeverityOf(dom.state)
               => p.value /\ p.down <= SeverityOf(s)
          /\ dom.state # "Clear" /\ s = "Clear" => p.value /\ p.up = Clear
  BY <1>3, EvaluatedJustified
<1> QED BY <1>1, <1>4

\* A domain rises to Congested or Severe only on the evidence of one of its
\* members, from as many rules as the policy demands.
THEOREM RisesAreCorroborated == Spec => Corroborated
<1> DEFINE Rises == dom'.state \in {"Congested", "Severe"}
                      /\ SeverityOf(dom'.state) > SeverityOf(dom.state)
           Agreed == \E r \in Members(topology, window), v \in SeverityOf(dom'.state)..Severe :
                       /\ policy.gates[v] > 0
                       /\ Cardinality(Backed(policy, window, now, r, v)) >= policy.gates[v]
<1>1. ASSUME IInv, [Next]_vars, Rises PROVE Agreed
  <2> DEFINE p == Aggregate(policy, Assessed)
             n == SeverityOf(dom'.state)
  <2>1. dom'.state # dom.state
    <3>1. SUFFICES ASSUME dom'.state = dom.state PROVE FALSE
      OBVIOUS
    <3>2. SeverityOf(dom'.state) \in Nat /\ SeverityOf(dom.state) = SeverityOf(dom'.state)
      BY <3>1, SeverityOfType, SeverityFinite
    <3> QED BY <1>1, <3>2
  <2>2. p.value /\ p.up = n
    BY <1>1, <2>1, MoveFacts
  <2>3. n \in {2, 3}
    BY <1>1 DEF SeverityOf, Congested, Severe
  <2>4. Assessing(Members(topology, window), Assessed)
    BY <1>1, ProposedFacts
  <2>5. p.up >= Congested
    BY <2>2, <2>3 DEF Congested
  <2>6. PICK r \in Members(topology, window) : Assessed[r].up = n
    <3>1. PICK M, a : M = Members(topology, window) /\ a = Assessed
      OBVIOUS
    <3>2. Assessing(M, a)
      BY <2>4, <3>1
    <3>3. \E r \in M : a[r].up = Aggregate(policy, a).up
      BY <2>2, <2>5, <3>1, <3>2, AggregateFacts
    <3> QED BY <2>2, <3>1, <3>3
  <2>7. PICK z : z = Assess(policy, window, now, r)
    OBVIOUS
  <2>8. z.up = n
    BY <2>6, <2>7 DEF Assessed
  <2>9. /\ policy.gates[z.up] > 0
        /\ Cardinality(Backed(policy, window, now, r, z.up)) >= policy.gates[z.up]
    <3>1. z.up # Clear
      BY <2>3, <2>8 DEF Clear
    <3> QED BY <1>1, <2>7, <3>1, StateFacts, AssessFacts
  <2>10. n \in n..Severe
    BY <2>3 DEF Severe
  <2> QED BY <2>8, <2>9, <2>10
<1>2. IInv /\ [Next]_vars => [Rises => Agreed]_vars
  BY <1>1
<1>3. [][Rises => Agreed]_vars <=> Corroborated
  BY DEF Corroborated
<1> HIDE DEF Rises, Agreed
<1> QED BY <1>2, <1>3, Invariance, PTL DEF Spec

\* Where each member stands when the proposal has a value: nothing about it is
\* in dispute.
LEMMA MemberFacts ==
  ASSUME IInv, Aggregate(policy, Assessed).value, NEW r \in Members(topology, window)
  PROVE  LET p == Aggregate(policy, Assessed)
             a == Assess(policy, window, now, r)
         IN  /\ Split(policy, window, now, r) = {}
             /\ Backing(policy, window, now, r, a)
             /\ a.coverage # "None" => a.down <= p.down
             /\ a.down \in Severity /\ p.down \in Severity
             /\ p.up = Clear /\ Required(policy) # {} => a.coverage \in {"None", "Full"}
<1>1. PICK M, b, p, a : /\ M = Members(topology, window) /\ b = Assessed
                        /\ p = Aggregate(policy, Assessed)
                        /\ a = Assess(policy, window, now, r)
  OBVIOUS
<1>2. Assessing(M, b) /\ p = Aggregate(policy, b) /\ p \in Proposal /\ p.value
  BY <1>1, ProposedFacts
<1>3. b[r] = a
  BY <1>1 DEF Assessed
<1>4. /\ \A x \in M : ~b[x].contradictory
      /\ \A x \in M : b[x].coverage # "None" => b[x].down <= p.down
      /\ p.up = Clear /\ Required(policy) # {}
           => \A x \in M : b[x].coverage \in {"None", "Full"}
  BY <1>2, AggregateFacts
<1>5. /\ ~a.contradictory /\ (a.coverage # "None" => a.down <= p.down)
      /\ p.up = Clear /\ Required(policy) # {} => a.coverage \in {"None", "Full"}
  BY <1>1, <1>3, <1>4
<1>6. /\ a \in Assessment
      /\ a.contradictory <=> Split(policy, window, now, r) # {}
      /\ ~a.contradictory => Backing(policy, window, now, r, a)
  BY <1>1, StateFacts, AssessFacts
<1>7. a.down \in Severity /\ p.down \in Severity
  BY <1>2, <1>6, ValueProposal DEF Assessment
<1> QED BY <1>1, <1>5, <1>6, <1>7

\* Missing evidence is never taken for health: a domain becomes Clear only when
\* each of its members that is heard at all is heard on everything required.
THEOREM ClearIsCovered == Spec => MissingNotHealthy
<1> DEFINE Clears == dom.state # "Clear" /\ dom'.state = "Clear"
           Covered == \A r \in Members(topology, window) :
                        Heard(policy, window, now, r) # {}
                          => Required(policy) \subseteq Heard(policy, window, now, r)
<1>1. ASSUME IInv, [Next]_vars, Clears PROVE Covered
  <2> SUFFICES ASSUME NEW r \in Members(topology, window),
                      Heard(policy, window, now, r) # {}, Required(policy) # {}
               PROVE  Required(policy) \subseteq Heard(policy, window, now, r)
    OBVIOUS
  <2>1. Aggregate(policy, Assessed).value /\ Aggregate(policy, Assessed).up = Clear
    BY <1>1, MoveFacts
  <2>2. PICK a : a = Assess(policy, window, now, r)
    OBVIOUS
  <2>3. Backing(policy, window, now, r, a) /\ a.coverage \in {"None", "Full"}
    BY <1>1, <2>1, <2>2, MemberFacts
  <2>4. a.coverage = "Full"
    BY <2>3 DEF Backing
  <2> QED BY <2>3, <2>4 DEF Backing
<1>2. IInv /\ [Next]_vars => [Clears => Covered]_vars
  BY <1>1
<1>3. [][Clears => Covered]_vars <=> MissingNotHealthy
  BY DEF MissingNotHealthy
<1> HIDE DEF Clears, Covered
<1> QED BY <1>2, <1>3, Invariance, PTL DEF Spec

\* When every rule must agree on a downgrade, no undisputed reading within the
\* margin of a severity is overruled.
THEOREM FallsKeepTheMargin == Spec => MarginRespected
<1> DEFINE Falls == policy.requireAll /\ IsAuthoritative(dom.state) /\ IsAuthoritative(dom'.state)
                      /\ SeverityOf(dom'.state) < SeverityOf(dom.state)
           Kept == \A r \in Members(topology, window), i \in DOMAIN policy.rules :
                     LET u == policy.rules[i]
                     IN  \A s \in Sole(policy, window, now, r, u), v \in Watch..Severe :
                           WithinMargin(u, s.values[u.metric], policy.margin, v)
                             => v <= SeverityOf(dom'.state)
<1>1. ASSUME IInv, [Next]_vars, Falls PROVE Kept
  <2> SUFFICES ASSUME NEW r \in Members(topology, window), NEW i \in DOMAIN policy.rules,
                      NEW u, u = policy.rules[i],
                      NEW s \in Sole(policy, window, now, r, u), NEW v \in Watch..Severe,
                      WithinMargin(u, s.values[u.metric], policy.margin, v)
               PROVE  v <= SeverityOf(dom'.state)
    OBVIOUS
  <2> DEFINE T == Telling(policy, window, now, r, u.metric)
             H == Heard(policy, window, now, r)
             n == SeverityOf(dom'.state)
             c == Classify(u, s.values[u.metric], policy.margin)
  <2>1. PICK p, a : p = Aggregate(policy, Assessed) /\ a = Assess(policy, window, now, r)
    OBVIOUS
  <2>2. p.value /\ p.down <= n
    <3>1. dom'.state # dom.state
      <4>1. SUFFICES ASSUME dom'.state = dom.state PROVE FALSE
        OBVIOUS
      <4>2. SeverityOf(dom'.state) \in Nat /\ SeverityOf(dom.state) = SeverityOf(dom'.state)
        BY <4>1, SeverityOfType, SeverityFinite
      <4> QED BY <1>1, <4>2
    <3> QED BY <1>1, <2>1, <3>1, MoveFacts
  <2>3. /\ Backing(policy, window, now, r, a)
        /\ a.coverage # "None" => a.down <= p.down
        /\ a.down \in Severity /\ p.down \in Severity
    BY <1>1, <2>1, <2>2, MemberFacts
  <2>4. s \in T /\ \A x \in T : x = s
    <3> DEFINE S == {x \in window : x.resource = r /\ Usable(policy, x, u.metric, now)}
    <3>1. S = T
      BY DEF Telling
    <3>2. Cardinality(S) = 1 /\ s \in S
      BY DEF Sole
    <3>3. IsFiniteSet(S)
      BY <1>1, FS_Subset DEF IInv
    <3> HIDE DEF S, T
    <3>4. PICK x : S = {x}
      BY <3>2, <3>3, FS_Singleton
    <3> QED BY <3>1, <3>2, <3>4
  <2>5. i \in H
    BY <2>4, HeardTelling
  <2>6. a.coverage # "None" /\ c <= a.down
    <3>1. a.coverage # "None"
      BY <2>3, <2>5 DEF Backing
    <3>2. PICK x \in Telling(policy, window, now, r, policy.rules[i].metric) :
            Classify(policy.rules[i], x.values[policy.rules[i].metric], policy.margin) <= a.down
      BY <1>1, <2>3, <2>5 DEF Backing
    <3>3. x = s
      BY <2>4, <3>2
    <3> QED BY <3>1, <3>2, <3>3
  <2>7. c \in Severity /\ v <= c
    <3>1. u \in Rule /\ policy.margin \in 0..Unit
      BY <1>1, StateFacts, RuleFacts
    <3>2. PICK value \in Nat : value = s.values[u.metric]
      <4>1. Sampled(window) /\ s \in window /\ u.metric \in DOMAIN s.values
        BY <1>1, <2>4, StateFacts DEF Telling, Usable
      <4> QED BY <4>1 DEF Sampled
    <3>3. WithinMargin(u, value, policy.margin, v)
      BY <3>2
    <3> QED BY <3>1, <3>2, <3>3, ClassifyFacts
  <2>8. n \in Severity /\ v \in Nat
    BY SeverityOfType DEF Watch, Severe
  <2> HIDE DEF n, c
  <2>9. PICK x, y, z, w \in Nat : x = c /\ y = a.down /\ z = p.down /\ w = n
    BY <2>3, <2>7, <2>8, SeverityFinite
  <2>10. v <= x /\ x <= y /\ y <= z /\ z <= w
    BY <2>2, <2>3, <2>6, <2>7, <2>9
  <2>11. v <= w
    BY <2>8, <2>9, <2>10
  <2> QED BY <2>9, <2>11 DEF n
<1>2. IInv /\ [Next]_vars => [Falls => Kept]_vars
  BY <1>1
<1>3. [][Falls => Kept]_vars <=> MarginRespected
  BY DEF MarginRespected
<1> HIDE DEF Falls, Kept
<1> QED BY <1>2, <1>3, Invariance, PTL DEF Spec

\* Two things that differ are a set of two.
LEMMA TwoElements ==
  ASSUME NEW a, NEW b, a # b
  PROVE  IsFiniteSet({a, b}) /\ Cardinality({a, b}) = 2
<1>1. IsFiniteSet({a}) /\ Cardinality({a}) = 1
  BY FS_Singleton
<1>2. {a} \cup {b} = {a, b} /\ b \notin {a}
  OBVIOUS
<1>3. IsFiniteSet({a} \cup {b}) /\ Cardinality({a} \cup {b}) = Cardinality({a}) + 1
  BY <1>1, <1>2, FS_AddElement, Zenon
<1> QED BY <1>1, <1>2, <1>3

\* What two publishers cannot both be right about is seen, whichever of their
\* readings the extremes of the queue are.
LEMMA ContradictionSeen ==
  ASSUME NEW q, ValidPolicy(q), q.mode = "Reject", q.distinct = 2,
         NEW w, Sampled(w), NEW t \in Nat, NEW s \in w, NEW u \in w,
         NEW i \in DOMAIN q.rules, NEW m, m = q.rules[i].metric,
         s # u, s.resource = u.resource, s.queue = u.queue,
         Usable(q, s, m, t), Usable(q, u, m, t),
         s.values[m] < u.values[m],
         u.values[m] - s.values[m] > q.absolute,
         u.values[m] - s.values[m] > Portion(u.values[m], q.relative),
         Cardinality({x \in w : x.resource = s.resource /\ x.queue = s.queue}) <= MaxPeers
  PROVE  i \in Split(q, w, t, s.resource)
<1> DEFINE r == s.resource
           k == s.queue
           S == Saying(q, w, t, r, k, m)
           R == Readings(q, w, t, r, k, m)
           X == {x \in w : x.resource = r /\ x.queue = k}
           A == ReadingOf(s, m, t)
           B == ReadingOf(u, m, t)
           V == {x.value : x \in R}
<1>1. k \in Queues(w, r)
  BY DEF Queues
<1>2. s \in S /\ u \in S
  BY DEF Saying
<1>3. Cardinality(S) <= MaxPeers
  <2>1. S \subseteq X /\ IsFiniteSet(X)
    BY FS_Subset DEF Saying, Sampled
  <2>2. Cardinality(X) <= MaxPeers
    OBVIOUS
  <2> HIDE DEF S, X
  <2>3. IsFiniteSet(S) /\ Cardinality(S) <= Cardinality(X)
    BY <2>1, FS_Subset
  <2>4. Cardinality(S) \in Nat /\ Cardinality(X) \in Nat /\ MaxPeers \in Nat
    BY <2>1, <2>3, FS_CardinalityType, EvaluatorAssumption
  <2> QED BY <2>2, <2>3, <2>4
<1>4. IsFiniteSet(R) /\ R \in SUBSET Reading /\ A \in R /\ B \in R
  BY <1>2, <1>3, ReadingsFacts
<1>5. A # B /\ A.value = s.values[m] /\ B.value = u.values[m]
  <2>1. s.publisher # u.publisher
    BY DEF Sampled, SampleKey
  <2> QED BY <2>1 DEF ReadingOf
<1>6. s.values[m] \in Nat /\ u.values[m] \in Nat
  BY DEF Usable, Sampled
<1>7. PICK low \in Nat, high \in Nat : low = s.values[m] /\ high = u.values[m]
  BY <1>6
<1>8. /\ low < high /\ high - low > q.absolute /\ high - low > Portion(high, q.relative)
      /\ q.absolute \in Nat /\ q.relative \in 0..Unit
  BY <1>7, RuleFacts
<1>9. low \in V /\ high \in V
  BY <1>4, <1>5, <1>7
<1>10. IsFiniteSet(V) /\ V \in SUBSET Nat /\ V # {}
  <2> DEFINE f == [x \in R |-> x.value]
  <2>1. \A x \in R : x.value \in Nat
    BY <1>4 DEF Reading
  <2>2. f \in [R -> Nat] /\ V = {f[x] : x \in R}
    BY <2>1
  <2> HIDE DEF f, R
  <2>3. IsFiniteSet({f[x] : x \in R})
    <3>1. IsFiniteSet(R) /\ f \in [R -> Nat]
      BY <1>4, <2>2
    <3> HIDE DEF V
    <3> QED BY <3>1, ImageFinite
  <2>4. V \in SUBSET Nat
    BY <2>1
  <2> QED BY <1>9, <2>2, <2>3, <2>4
<1>11. Cardinality(R) >= q.distinct
  <2> HIDE DEF R, A, B
  <2>1. {A, B} \subseteq R
    BY <1>4
  <2>2. IsFiniteSet({A, B}) /\ Cardinality({A, B}) = 2
    BY <1>5, TwoElements, Zenon
  <2>3. Cardinality({A, B}) <= Cardinality(R)
    BY <1>4, <2>1, FS_Subset
  <2> QED BY <2>2, <2>3
<1> HIDE DEF V
<1>12. PICK least \in Nat, most \in Nat :
         /\ least = Min(V) /\ most = Max(V) /\ least <= low /\ high <= most
  BY <1>9, <1>10, MaxFacts, MinFacts
<1>13. Portion(most, q.relative) \in Nat /\ Portion(high, q.relative) \in Nat
       /\ Portion(most, q.relative) - Portion(high, q.relative) <= most - high
  BY <1>8, <1>12, PortionFloor, PortionGrows
<1>14. most - least > q.absolute /\ most - least > Portion(most, q.relative)
  BY <1>8, <1>12, <1>13
<1>15. Max(V) - Min(V) > Max({q.absolute, Portion(Max(V), q.relative)})
  <2> DEFINE P == {q.absolute, Portion(most, q.relative)}
  <2>1. P \in SUBSET Nat /\ P # {}
    BY <1>8, <1>13
  <2>2. IsFiniteSet(P)
    <3>1. PICK x, y : x = q.absolute /\ y = Portion(most, q.relative)
      OBVIOUS
    <3>2. IsFiniteSet({x}) /\ IsFiniteSet({x} \cup {y})
      BY FS_Singleton, FS_AddElement
    <3>3. P = {x} \cup {y}
      BY <3>1
    <3> QED BY <3>2, <3>3
  <2>3. most - least > Max(P)
    <3>1. Max(P) \in P
      <4> HIDE DEF P
      <4> QED BY <2>1, <2>2, MaxFacts
    <3> QED BY <1>14, <3>1
  <2> QED BY <1>12, <2>3
<1>16. Disagree(q, R)
  BY <1>11, <1>15 DEF Disagree, V
<1>17. Unresolved(q, w, t, r, m)
  BY <1>1, <1>16 DEF Unresolved
<1> QED BY <1>17 DEF Split

\* Under a policy that rejects contradictions, an evaluation that sees one
\* leaves the domain without authority.
THEOREM ConflictsAreNotMerged == Spec => ConflictNeverMerged
<1> DEFINE Clash == policy.mode = "Reject" /\ policy.distinct = 2
                     /\ Contradicted(policy, window, now) /\ dom' # dom
<1>1. ASSUME IInv, [Next]_vars, Clash PROVE ~IsAuthoritative(dom'.state)
  <2>1. PICK s \in window, u \in window, i \in DOMAIN policy.rules :
          LET m == policy.rules[i].metric
          IN  /\ s # u /\ s.resource = u.resource /\ s.queue = u.queue
              /\ Usable(policy, s, m, now) /\ Usable(policy, u, m, now)
              /\ s.values[m] < u.values[m]
              /\ u.values[m] - s.values[m] > policy.absolute
              /\ u.values[m] - s.values[m] > Portion(u.values[m], policy.relative)
              /\ s.resource \in Members(topology, window)
              /\ Cardinality({x \in window : x.resource = s.resource /\ x.queue = s.queue})
                   <= MaxPeers
    BY <1>1 DEF Contradicted
  <2>2. /\ now \in Nat /\ dom \in DomainState /\ ValidPolicy(policy) /\ Sampled(window)
        /\ ~Regressed(dom, now)
    BY <1>1, StateFacts
  <2>3. i \in Split(policy, window, now, s.resource)
    <3>1. PICK q, w, t, m : q = policy /\ w = window /\ t = now /\ m = policy.rules[i].metric
      OBVIOUS
    <3>2. /\ ValidPolicy(q) /\ q.mode = "Reject" /\ q.distinct = 2 /\ Sampled(w) /\ t \in Nat
          /\ s \in w /\ u \in w /\ i \in DOMAIN q.rules /\ m = q.rules[i].metric
      BY <1>1, <2>2, <3>1
    <3>3. /\ s # u /\ s.resource = u.resource /\ s.queue = u.queue
          /\ Usable(q, s, m, t) /\ Usable(q, u, m, t)
          /\ s.values[m] < u.values[m]
          /\ u.values[m] - s.values[m] > q.absolute
          /\ u.values[m] - s.values[m] > Portion(u.values[m], q.relative)
      BY <2>1, <3>1
    <3>4. Cardinality({x \in w : x.resource = s.resource /\ x.queue = s.queue}) <= MaxPeers
      BY <2>1, <3>1
    <3>5. i \in Split(q, w, t, s.resource)
      BY <3>2, <3>3, <3>4, ContradictionSeen
    <3> QED BY <3>1, <3>5
  <2>4. ~Aggregate(policy, Assessed).value
    BY <1>1, <2>1, <2>3, MemberFacts
  <2>5. PICK p \in Proposal, q \in Policy :
          p = Aggregate(policy, Assessed) /\ dom' = Evaluated(dom, p, q, now)
    <3>1. window # {}
      BY <2>1
    <3>2. dom' = Evaluated(dom, Aggregate(policy, Assessed), policy.ladder, now)
      BY <1>1, <3>1, DomainSteps
    <3> QED BY <1>1, <3>2, StateFacts, ProposedFacts
  <2>6. p.why \in {"Conflict", "Unknown"} /\ ~p.value
    BY <2>4, <2>5, RefusingProposal
  <2>7. Step(dom, p, q, now) = Refuse(dom, p.why, now)
    BY <2>2, <2>6 DEF Step
  <2>8. ~IsAuthoritative(Refuse(dom, p.why, now).state) /\ Refuse(dom, p.why, now) \in DomainState
    BY <2>2, <2>6, RefuseType
  <2>9. dom'.state = Refuse(dom, p.why, now).state
    BY <2>5, <2>7, <2>8 DEF Evaluated, DomainState
  <2> QED BY <2>8, <2>9
<1>2. IInv /\ [Next]_vars => [Clash => ~IsAuthoritative(dom'.state)]_vars
  BY <1>1
<1>3. [][Clash => ~IsAuthoritative(dom'.state)]_vars <=> ConflictNeverMerged
  BY DEF ConflictNeverMerged
<1> HIDE DEF Clash
<1> QED BY <1>2, <1>3, Invariance, PTL DEF Spec
=============================================================================
