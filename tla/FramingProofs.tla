---------------------------- MODULE FramingProofs ----------------------------
(***************************************************************************)
(* Proofs about Framing: however a stream is cut into chunks, the decoder  *)
(* returns the frames that were sent in their order up to the first defect *)
(* and, for a sender that waits for each answer, fails for nothing else.   *)
(***************************************************************************)
EXTENDS Framing, SequenceTheorems, TLAPS

-----------------------------------------------------------------------------
(* The inductive invariant *)

\* What is left of the stream: the bytes between the decoder's position and the
\* sender, in the buffer or on their way.
RestOf(b, c, w) == SubSeq(b, c + 1, Len(b)) \o w
Rest == RestOf(buffer, consumed, wire)

SizeAt(r, s, i) == Written(s[r[i][1]])

\* Each byte of r is one of a frame of s.
BytesSent(r, s) ==
  \A i \in 1..Len(r) : r[i][1] \in 1..Len(s) /\ r[i][2] \in 1..SizeAt(r, s, i)

\* r starts with the frame after the d-th, and ends with the last one.
Bounded(r, s, d) ==
  /\ Len(r) = 0 => d = Len(s)
  /\ Len(r) > 0 => r[1] = <<d + 1, 1>> /\ r[Len(r)] = <<Len(s), Written(s[Len(s)])>>

\* A frame is in one piece.
InOnePiece(r, s) ==
  \A a, b \in 1..Len(r) :
    r[a][2] = 1 /\ a <= b /\ b - a < SizeAt(r, s, a) => r[b] = <<r[a][1], b - a + 1>>

\* The next one follows at once.
OneAfterTheOther(r, s) ==
  \A a \in 1..Len(r) :
    a < Len(r) /\ r[a][2] = SizeAt(r, s, a) => r[a + 1] = <<r[a][1] + 1, 1>>

StreamOK(r, s, d) ==
  BytesSent(r, s) /\ Bounded(r, s, d) /\ InOnePiece(r, s) /\ OneAfterTheOther(r, s)

\* Frames are what can be encoded, or forged.
FramesOK == \A k \in 1..Len(sent) : sent[k].defect = "short" => sent[k].len > 0

\* A sound sender that awaits each answer leaves at most one frame on its way,
\* and the buffer is empty whenever a frame begins.
AllSound == \A k \in 1..Len(sent) : Encodable(sent[k])
Paced ==
  InFlight = 1 /\ AllSound =>
    Len(sent) <= Len(delivered) + 1 /\ (consumed = 0 \/ consumed = Len(buffer))

IInv ==
  /\ TypeOK
  /\ FramesOK
  /\ DeliveredInOrder
  /\ failed => reader = "closed"
  /\ reader # "closed" => StreamOK(Rest, sent, Len(delivered)) /\ Paced
  /\ InFlight = 1 => FailsOnDefectOnly

-----------------------------------------------------------------------------
(* Lemmas about the operators *)

\* The fields of a frame, and the number of its bytes.
LEMMA FrameFacts ==
  ASSUME NEW f \in Frame, f.defect = "short" => f.len > 0
  PROVE  /\ f.len \in Nat /\ f.len <= MaxPayload + 1 /\ f.defect \in Defect
         /\ Written(f) \in Nat /\ Written(f) >= HeaderSize /\ Written(f) >= 1
         /\ Written(f) <= HeaderSize + MaxPayload + 1
         /\ f.defect # "short" => Written(f) = HeaderSize + f.len
         /\ f.defect = "short" => Written(f) = HeaderSize + f.len - 1
BY FramingAssumption DEF Frame, Written

\* The bytes of a frame, from its first on.
LEMMA BytesFacts ==
  ASSUME NEW k \in Nat, NEW n \in Nat
  PROVE  /\ Bytes(k, 1, n) \in Seq(Nat \X Nat)
         /\ Len(Bytes(k, 1, n)) = n
         /\ \A i \in 1..n : Bytes(k, 1, n)[i] = <<k, i>>
<1>1. Bytes(k, 1, n) = [i \in 1..n |-> <<k, i>>]
  <2>1. n + 1 - 1 = n /\ \A i \in 1..n : 1 + i - 1 = i
    OBVIOUS
  <2> QED BY <2>1 DEF Bytes
<1>2. [i \in 1..n |-> <<k, i>>] \in Seq(Nat \X Nat)
  <2>1. \A i \in 1..n : <<k, i>> \in Nat \X Nat
    OBVIOUS
  <2> QED BY <2>1
<1> QED BY <1>1, <1>2

\* A sequence has the type of its elements.
LEMMA SeqOfElements ==
  ASSUME NEW S, NEW T, NEW s \in Seq(S), \A i \in 1..Len(s) : s[i] \in T
  PROVE  s \in Seq(T)
OBVIOUS

\* They are bytes of the stream.
LEMMA BytesType ==
  ASSUME NEW k \in 1..MaxFrames, NEW n \in 1..HeaderSize + MaxPayload + 1
  PROVE  Bytes(k, 1, n) \in Seq(Byte)
<1>1. k \in Nat /\ n \in Nat
  BY FramingAssumption
<1>2. ASSUME NEW i \in 1..n PROVE <<k, i>> \in Byte
  <2>1. i \in 1..HeaderSize + MaxPayload + 1
    BY FramingAssumption
  <2> QED BY <2>1 DEF Byte
<1> DEFINE b == Bytes(k, 1, n)
<1>3. b \in Seq(Nat \X Nat) /\ Len(b) = n /\ \A i \in 1..n : b[i] = <<k, i>>
  BY <1>1, BytesFacts
<1> HIDE DEF b
<1>4. \A i \in 1..Len(b) : b[i] \in Byte
  BY <1>2, <1>3
<1>5. b \in Seq(Byte)
  BY <1>3, <1>4, SeqOfElements
<1> QED BY <1>5 DEF b

\* A concatenation, by its parts.
LEMMA ConcatFacts ==
  ASSUME NEW S, NEW s \in Seq(S), NEW t \in Seq(S)
  PROVE  /\ s \o t \in Seq(S) /\ Len(s \o t) = Len(s) + Len(t)
         /\ \A i \in 1..Len(s) : (s \o t)[i] = s[i]
         /\ \A i \in 1..Len(t) : (s \o t)[Len(s) + i] = t[i]
<1> DEFINE c == s \o t
<1>1. /\ c \in Seq(S) /\ Len(c) = Len(s) + Len(t)
      /\ \A i \in 1..Len(s) + Len(t) : c[i] = IF i <= Len(s) THEN s[i] ELSE t[i - Len(s)]
  BY ConcatProperties
<1>2. Len(s) \in Nat /\ Len(t) \in Nat
  OBVIOUS
<1> HIDE DEF c
<1>3. ASSUME NEW i \in 1..Len(s) PROVE c[i] = s[i]
  <2>1. i \in 1..Len(s) + Len(t) /\ i <= Len(s)
    BY <1>2
  <2> QED BY <1>1, <2>1
<1>4. ASSUME NEW i \in 1..Len(t) PROVE c[Len(s) + i] = t[i]
  <2>1. Len(s) + i \in 1..Len(s) + Len(t) /\ ~(Len(s) + i <= Len(s)) /\ Len(s) + i - Len(s) = i
    BY <1>2
  <2> QED BY <1>1, <2>1
<1>5. /\ c \in Seq(S) /\ Len(c) = Len(s) + Len(t)
      /\ \A i \in 1..Len(s) : c[i] = s[i]
      /\ \A i \in 1..Len(t) : c[Len(s) + i] = t[i]
  BY <1>1, <1>3, <1>4
<1> QED BY <1>5 DEF c

\* The end of a sequence, from its m-th element on.
LEMMA SuffixFacts ==
  ASSUME NEW S, NEW s \in Seq(S), NEW m \in 0..Len(s)
  PROVE  /\ SubSeq(s, m + 1, Len(s)) \in Seq(S)
         /\ Len(SubSeq(s, m + 1, Len(s))) = Len(s) - m
         /\ \A i \in 1..Len(s) - m : SubSeq(s, m + 1, Len(s))[i] = s[m + i]
<1>1. Len(s) \in Nat /\ m \in Nat /\ m + 1 \in Int /\ Len(s) \in Int /\ m <= Len(s)
  OBVIOUS
<1>2. \A i \in (m + 1)..Len(s) : s[i] \in S
  BY <1>1
<1> DEFINE t == SubSeq(s, m + 1, Len(s))
<1>3. /\ t \in Seq(S)
      /\ Len(t) = IF m + 1 <= Len(s) THEN Len(s) - (m + 1) + 1 ELSE 0
      /\ \A i \in 1..(Len(s) - (m + 1) + 1) : t[i] = s[(m + 1) + i - 1]
  BY <1>1, <1>2, SubSeqProperties
<1> HIDE DEF t
<1>4. Len(t) = Len(s) - m
  BY <1>1, <1>3
<1>5. ASSUME NEW i \in 1..Len(s) - m PROVE t[i] = s[m + i]
  <2>1. i \in 1..(Len(s) - (m + 1) + 1) /\ (m + 1) + i - 1 = m + i
    BY <1>1
  <2> QED BY <1>3, <2>1
<1> QED BY <1>3, <1>4, <1>5 DEF t

\* The start of a sequence, up to its m-th element.
LEMMA PrefixFacts ==
  ASSUME NEW S, NEW s \in Seq(S), NEW m \in 0..Len(s)
  PROVE  /\ SubSeq(s, 1, m) \in Seq(S) /\ Len(SubSeq(s, 1, m)) = m
         /\ \A i \in 1..m : SubSeq(s, 1, m)[i] = s[i]
<1>1. Len(s) \in Nat /\ m \in Nat /\ 1 \in Int /\ m \in Int /\ m <= Len(s)
  OBVIOUS
<1>2. \A i \in 1..m : s[i] \in S
  BY <1>1
<1> DEFINE t == SubSeq(s, 1, m)
<1>3. /\ t \in Seq(S)
      /\ Len(t) = IF 1 <= m THEN m - 1 + 1 ELSE 0
      /\ \A i \in 1..(m - 1 + 1) : t[i] = s[1 + i - 1]
  BY <1>1, <1>2, SubSeqProperties
<1> HIDE DEF t
<1>4. Len(t) = m
  BY <1>1, <1>3
<1>5. ASSUME NEW i \in 1..m PROVE t[i] = s[i]
  <2>1. i \in 1..(m - 1 + 1) /\ 1 + i - 1 = i
    BY <1>1
  <2> QED BY <1>3, <2>1
<1> QED BY <1>3, <1>4, <1>5 DEF t

\* What is left, by where it is.
LEMMA RestFacts ==
  ASSUME NEW b \in Seq(Byte), NEW c \in 0..Len(b), NEW w \in Seq(Byte)
  PROVE  /\ RestOf(b, c, w) \in Seq(Byte) /\ Len(RestOf(b, c, w)) = Len(b) - c + Len(w)
         /\ \A i \in 1..Len(b) - c : RestOf(b, c, w)[i] = b[c + i]
         /\ \A i \in 1..Len(w) : RestOf(b, c, w)[Len(b) - c + i] = w[i]
<1> DEFINE s == SubSeq(b, c + 1, Len(b))
<1>1. /\ s \in Seq(Byte) /\ Len(s) = Len(b) - c /\ \A i \in 1..Len(b) - c : s[i] = b[c + i]
  BY SuffixFacts
<1> HIDE DEF s
<1>2. /\ s \o w \in Seq(Byte) /\ Len(s \o w) = Len(s) + Len(w)
      /\ \A i \in 1..Len(s) : (s \o w)[i] = s[i]
      /\ \A i \in 1..Len(w) : (s \o w)[Len(s) + i] = w[i]
  <2>1. s \in Seq(Byte) /\ w \in Seq(Byte)
    BY <1>1
  <2> DEFINE Z == Byte
  <2> HIDE DEF Z
  <2>2. s \in Seq(Z) /\ w \in Seq(Z)
    BY <2>1 DEF Z
  <2>3. /\ s \o w \in Seq(Z) /\ Len(s \o w) = Len(s) + Len(w)
        /\ \A i \in 1..Len(s) : (s \o w)[i] = s[i]
        /\ \A i \in 1..Len(w) : (s \o w)[Len(s) + i] = w[i]
    BY <2>2, ConcatFacts
  <2> QED BY <2>3 DEF Z
<1>3. RestOf(b, c, w) = s \o w
  BY DEF RestOf, s
<1> QED BY <1>1, <1>2, <1>3

\* The types of what the invariant compares.
LEMMA Numbers ==
  ASSUME TypeOK
  PROVE  /\ Len(sent) \in Nat /\ Len(wire) \in Nat /\ Len(buffer) \in Nat
         /\ Len(delivered) \in Nat /\ consumed \in Nat /\ consumed <= Len(buffer)
         /\ Available \in Nat
         /\ HeaderSize \in Nat /\ HeaderSize > 0 /\ MaxPayload \in Nat /\ MaxBuffered \in Nat
         /\ MaxFrames \in Nat /\ MaxBuffered >= HeaderSize + MaxPayload
BY FramingAssumption DEF TypeOK, Available

\* What is left, in the current state.
LEMMA RestNow ==
  ASSUME TypeOK
  PROVE  /\ Rest \in Seq(Byte) /\ Len(Rest) = Available + Len(wire)
         /\ \A i \in 1..Available : Rest[i] = buffer[consumed + i]
         /\ \A i \in 1..Len(wire) : Rest[Available + i] = wire[i]
BY RestFacts DEF TypeOK, Rest, Available

-----------------------------------------------------------------------------
(* Lemmas about a stream r of frames s, the first d of which are delivered *)

\* A frame is appended.
LEMMA AppendFrame ==
  ASSUME NEW s \in Seq(Frame), NEW d \in Nat, NEW f \in Frame, NEW r \in Seq(Byte),
         \A k \in 1..Len(s) : s[k].defect = "short" => s[k].len > 0,
         f.defect = "short" => f.len > 0,
         NEW u \in Seq(Byte), NEW s2 \in Seq(Frame),
         Len(u) = Len(r) + Written(f),
         \A i \in 1..Len(r) : u[i] = r[i],
         \A i \in 1..Written(f) : u[Len(r) + i] = <<Len(s) + 1, i>>,
         Len(s2) = Len(s) + 1, s2[Len(s) + 1] = f, \A k \in 1..Len(s) : s2[k] = s[k],
         StreamOK(r, s, d)
  PROVE  StreamOK(u, s2, d)
<1> DEFINE n == Len(s)
           L == Len(r)
           w == Written(f)
<1>1. n \in Nat /\ L \in Nat /\ w \in Nat /\ w >= 1
  BY FrameFacts
<1>2. ASSUME NEW i \in 1..L
      PROVE  /\ r[i][1] \in 1..n /\ r[i][2] \in 1..SizeAt(r, s, i) /\ SizeAt(r, s, i) \in Nat
             /\ r[i] = <<r[i][1], r[i][2]>>
             /\ u[i] = r[i] /\ SizeAt(u, s2, i) = SizeAt(r, s, i)
  <2>1. r[i][1] \in 1..n /\ r[i][2] \in 1..SizeAt(r, s, i)
    BY DEF StreamOK, BytesSent
  <2>2. r[i] \in Byte
    OBVIOUS
  <2>3. r[i] = <<r[i][1], r[i][2]>>
    BY <2>2 DEF Byte
  <2>4. s[r[i][1]] \in Frame
    BY <2>1
  <2>5. SizeAt(r, s, i) \in Nat
    BY <2>1, <2>4, FrameFacts DEF SizeAt
  <2> QED BY <2>1, <2>3, <2>5 DEF SizeAt
<1>3. ASSUME NEW i \in (L + 1)..(L + w)
      PROVE  /\ u[i] = <<n + 1, i - L>> /\ SizeAt(u, s2, i) = w
             /\ u[i][1] = n + 1 /\ u[i][2] = i - L
  <2>1. i - L \in 1..w /\ L + (i - L) = i
    BY <1>1
  <2>2. u[i] = <<n + 1, i - L>>
    BY <2>1
  <2> QED BY <2>2 DEF SizeAt
<1>4. Len(u) = L + w /\ Len(s2) = n + 1 /\ s2[n + 1] = f
  OBVIOUS
<1>5. /\ L = 0 => d = n
      /\ L > 0 => r[1] = <<d + 1, 1>> /\ r[L][1] = n /\ r[L][2] = SizeAt(r, s, L)
  BY <1>1 DEF StreamOK, Bounded, SizeAt
<1>6. InOnePiece(r, s) /\ OneAfterTheOther(r, s)
  BY DEF StreamOK
<1> HIDE DEF n, L, w
<1>7. BytesSent(u, s2)
  <2> SUFFICES ASSUME NEW i \in 1..L + w
               PROVE  u[i][1] \in 1..n + 1 /\ u[i][2] \in 1..SizeAt(u, s2, i)
    BY <1>4 DEF BytesSent
  <2>1. CASE i \in 1..L
    <3>1. /\ u[i] = r[i] /\ SizeAt(u, s2, i) = SizeAt(r, s, i)
          /\ r[i][1] \in 1..n /\ r[i][2] \in 1..SizeAt(r, s, i)
      BY <1>2, <2>1
    <3>2. r[i][1] \in 1..n + 1
      BY <1>1, <3>1
    <3> QED BY <3>1, <3>2
  <2>2. CASE i \in (L + 1)..(L + w)
    BY <1>1, <1>3, <2>2
  <2> QED BY <1>1, <2>1, <2>2
<1>8. Bounded(u, s2, d)
  <2>1. u[L + w] = <<n + 1, w>>
    <3>1. PICK e \in (L + 1)..(L + w) : e = L + w
      BY <1>1
    <3>2. u[e] = <<n + 1, e - L>>
      BY <1>3
    <3>3. e - L = w
      BY <1>1, <3>1
    <3> QED BY <3>1, <3>2, <3>3
  <2>2. u[1] = <<d + 1, 1>>
    <3>1. CASE L = 0
      <4>1. 1 \in (L + 1)..(L + w) /\ 1 - L = 1
        BY <1>1, <3>1
      <4> QED BY <1>3, <1>5, <3>1, <4>1
    <3>2. CASE L > 0
      <4>1. 1 \in 1..L
        BY <1>1, <3>2
      <4> QED BY <1>2, <1>5, <3>2, <4>1
    <3> QED BY <1>1, <3>1, <3>2
  <2>3. Len(u) # 0
    BY <1>1, <1>4
  <2> QED BY <1>4, <2>1, <2>2, <2>3 DEF Bounded, w
<1>9. InOnePiece(u, s2)
  <2> SUFFICES ASSUME NEW a \in 1..L + w, NEW b \in 1..L + w,
                      u[a][2] = 1, a <= b, b - a < SizeAt(u, s2, a)
               PROVE  u[b] = <<u[a][1], b - a + 1>>
    BY <1>4 DEF InOnePiece
  <2>1. CASE a \in 1..L
    <3>1. r[a][2] = 1 /\ b - a < SizeAt(r, s, a) /\ SizeAt(r, s, a) \in Nat /\ u[a] = r[a]
      BY <1>2, <2>1
    <3>2. CASE b \in 1..L
      <4>1. r[b] = <<r[a][1], b - a + 1>>
        BY <1>6, <2>1, <3>1, <3>2 DEF InOnePiece, L
      <4> QED BY <1>2, <2>1, <3>1, <3>2, <4>1
    <3>3. CASE b \notin 1..L
      <4>1. L \in 1..L /\ a <= L /\ L < b
        BY <1>1, <2>1, <3>3
      <4>2. L - a < SizeAt(r, s, a)
        BY <1>1, <3>1, <4>1
      <4>3. r[L] = <<r[a][1], L - a + 1>>
        BY <1>6, <2>1, <3>1, <4>1, <4>2 DEF InOnePiece, L
      <4>4. r[L][1] = r[a][1] /\ r[L][2] = L - a + 1
        BY <4>3
      <4>5. SizeAt(r, s, L) = SizeAt(r, s, a)
        BY <4>4 DEF SizeAt
      <4>6. L - a + 1 = SizeAt(r, s, a)
        BY <1>1, <1>5, <4>1, <4>4, <4>5
      <4> QED BY <1>1, <3>1, <4>1, <4>6
    <3> QED BY <3>2, <3>3
  <2>2. CASE a \notin 1..L
    <3>1. a \in (L + 1)..(L + w) /\ b \in (L + 1)..(L + w)
      BY <1>1, <2>2
    <3>2. u[a][1] = n + 1 /\ a - L = 1 /\ u[b] = <<n + 1, b - L>>
      BY <1>3, <3>1
    <3>3. b - L = b - a + 1
      BY <1>1, <3>2
    <3> QED BY <3>2, <3>3
  <2> QED BY <2>1, <2>2
<1>10. OneAfterTheOther(u, s2)
  <2> SUFFICES ASSUME NEW a \in 1..L + w, a < L + w, u[a][2] = SizeAt(u, s2, a)
               PROVE  u[a + 1] = <<u[a][1] + 1, 1>>
    BY <1>4 DEF OneAfterTheOther
  <2>1. CASE a \in 1..L /\ a < L
    <3>1. r[a][2] = SizeAt(r, s, a) /\ u[a] = r[a]
      BY <1>2, <2>1
    <3>2. r[a + 1] = <<r[a][1] + 1, 1>>
      BY <1>6, <2>1, <3>1 DEF OneAfterTheOther, L
    <3>3. a + 1 \in 1..L
      BY <1>1, <2>1
    <3> QED BY <1>2, <3>1, <3>2, <3>3
  <2>2. CASE a = L
    <3>1. a \in 1..L /\ a + 1 \in (L + 1)..(L + w) /\ a + 1 - L = 1 /\ L > 0
      BY <1>1, <2>2
    <3>2. u[a + 1] = <<n + 1, 1>> /\ u[a] = r[a] /\ r[a][1] = n
      BY <1>2, <1>3, <1>5, <2>2, <3>1, SMTT(30)
    <3> QED BY <3>2
  <2>3. CASE a > L
    <3>1. a \in (L + 1)..(L + w)
      BY <1>1, <2>3
    <3>2. a - L = w
      BY <1>3, <3>1
    <3> QED BY <1>1, <3>2
  <2> QED BY <1>1, <2>1, <2>2, <2>3
<1> QED BY <1>7, <1>8, <1>9, <1>10 DEF StreamOK

\* A stream that is not empty starts with all the bytes of a frame, and the next
\* frame follows.
LEMMA FirstFrame ==
  ASSUME NEW s \in Seq(Frame), NEW d \in Nat, NEW r \in Seq(Byte),
         \A k \in 1..Len(s) : s[k].defect = "short" => s[k].len > 0,
         StreamOK(r, s, d), Len(r) > 0
  PROVE  /\ r[1][1] = d + 1 /\ d + 1 \in 1..Len(s) /\ s[d + 1] \in Frame
         /\ Written(s[d + 1]) \in Nat /\ Written(s[d + 1]) >= 1 /\ Written(s[d + 1]) <= Len(r)
         /\ \A b \in 1..Written(s[d + 1]) : r[b] = <<d + 1, b>>
         /\ Len(r) > Written(s[d + 1]) =>
              r[Written(s[d + 1]) + 1] = <<d + 2, 1>> /\ d + 2 \in 1..Len(s)
<1> DEFINE L == Len(r)
           w == Written(s[d + 1])
<1>1. L \in Nat /\ 1 \in 1..L /\ L \in 1..L
  OBVIOUS
<1>2. r[1] = <<d + 1, 1>> /\ r[1][1] = d + 1 /\ r[1][2] = 1
  BY DEF StreamOK, Bounded
<1>3. d + 1 \in 1..Len(s)
  BY <1>1, <1>2 DEF StreamOK, BytesSent
<1>4. s[d + 1] \in Frame
  BY <1>3
<1>5. w \in Nat /\ w >= 1
  BY <1>3, <1>4, FrameFacts
<1>6. SizeAt(r, s, 1) = w
  BY <1>2 DEF SizeAt
<1>7. r[L][1] = Len(s) /\ r[L][2] = Written(s[Len(s)])
  BY DEF StreamOK, Bounded
<1>8. InOnePiece(r, s) /\ OneAfterTheOther(r, s) /\ BytesSent(r, s)
  BY DEF StreamOK
<1> HIDE DEF w
<1>9. ASSUME NEW b \in 1..L, b <= w PROVE r[b] = <<d + 1, b>>
  <2>1. 1 <= b /\ b - 1 < SizeAt(r, s, 1) /\ b - 1 + 1 = b
    BY <1>1, <1>5, <1>6, <1>9
  <2>2. r[b] = <<r[1][1], b - 1 + 1>>
    BY <1>1, <1>2, <1>8, <2>1 DEF InOnePiece
  <2> QED BY <1>2, <2>1, <2>2
<1>10. w <= L
  <2> SUFFICES ASSUME ~(w <= L) PROVE FALSE
    OBVIOUS
  <2>1. r[L] = <<d + 1, L>>
    BY <1>1, <1>5, <1>9
  <2>2. Len(s) = d + 1 /\ L = Written(s[d + 1])
    BY <1>7, <2>1
  <2> QED BY <1>1, <1>5, <2>2 DEF w
<1>11. \A b \in 1..w : r[b] = <<d + 1, b>>
  <2> TAKE b \in 1..w
  <2>1. b \in 1..L /\ b <= w
    BY <1>1, <1>5, <1>10
  <2> QED BY <1>9, <2>1
<1>12. ASSUME L > w PROVE r[w + 1] = <<d + 2, 1>> /\ d + 2 \in 1..Len(s)
  <2>1. w \in 1..L /\ w \in 1..w /\ w + 1 \in 1..L
    BY <1>1, <1>5, <1>12
  <2>2. r[w] = <<d + 1, w>> /\ r[w][1] = d + 1 /\ r[w][2] = w
    BY <1>11, <2>1
  <2>3. SizeAt(r, s, w) = w
    BY <2>2 DEF SizeAt, w
  <2>4. r[w + 1] = <<r[w][1] + 1, 1>>
    BY <1>8, <1>12, <2>1, <2>2, <2>3 DEF OneAfterTheOther
  <2>5. r[w + 1] = <<d + 2, 1>>
    BY <2>2, <2>4
  <2>6. r[w + 1][1] = d + 2
    BY <2>5
  <2> QED BY <1>8, <2>1, <2>5, <2>6 DEF BytesSent
<1> QED BY <1>2, <1>3, <1>4, <1>5, <1>10, <1>11, <1>12 DEF w

\* The first frame is taken off the stream.
LEMMA DropFrame ==
  ASSUME NEW s \in Seq(Frame), NEW d \in Nat, NEW r \in Seq(Byte),
         \A k \in 1..Len(s) : s[k].defect = "short" => s[k].len > 0,
         StreamOK(r, s, d), Len(r) > 0,
         NEW u \in Seq(Byte), Len(u) = Len(r) - Written(s[d + 1]),
         \A i \in 1..Len(u) : u[i] = r[Written(s[d + 1]) + i]
  PROVE  StreamOK(u, s, d + 1) /\ (Len(s) = d + 1 => Len(u) = 0)
<1> DEFINE L == Len(r)
           w == Written(s[d + 1])
           m == Len(u)
<1>1. /\ w \in Nat /\ w >= 1 /\ w <= L /\ d + 1 \in 1..Len(s)
      /\ r[w] = <<d + 1, w>>
      /\ L > w => r[w + 1] = <<d + 2, 1>> /\ d + 2 \in 1..Len(s)
  <2>1. /\ w \in Nat /\ w >= 1 /\ w <= L /\ d + 1 \in 1..Len(s)
        /\ \A b \in 1..w : r[b] = <<d + 1, b>>
        /\ L > w => r[w + 1] = <<d + 2, 1>> /\ d + 2 \in 1..Len(s)
    BY FirstFrame
  <2> HIDE DEF w
  <2>2. w \in 1..w
    BY <2>1
  <2> QED BY <2>1, <2>2
<1>2. L \in Nat /\ m \in Nat /\ m = L - w /\ Len(s) \in Nat
  OBVIOUS
<1>3. BytesSent(r, s) /\ Bounded(r, s, d) /\ InOnePiece(r, s) /\ OneAfterTheOther(r, s)
  BY DEF StreamOK
<1>4. \A i \in 1..m : u[i] = r[w + i]
  OBVIOUS
<1> HIDE DEF w, m
<1>5. ASSUME NEW i \in 1..m
      PROVE  w + i \in 1..L /\ u[i] = r[w + i] /\ SizeAt(u, s, i) = SizeAt(r, s, w + i)
  BY <1>1, <1>2, <1>4 DEF SizeAt
<1>6. BytesSent(u, s)
  BY <1>3, <1>5 DEF BytesSent, m
<1>7. Bounded(u, s, d + 1) /\ (Len(s) = d + 1 => m = 0)
  <2>1. CASE m = 0
    <3>1. L = w
      BY <1>1, <1>2, <2>1
    <3>2. r[L] = <<Len(s), Written(s[Len(s)])>>
      BY <1>1, <1>2, <1>3, <3>1 DEF Bounded
    <3>3. Len(s) = d + 1
      BY <1>1, <3>1, <3>2
    <3> QED BY <2>1, <3>3 DEF Bounded, m
  <2>2. CASE m > 0
    <3>1. L > w /\ L > 0 /\ 1 \in 1..m /\ m \in 1..m /\ w + m = L
      BY <1>1, <1>2, <2>2
    <3>2. u[1] = <<d + 2, 1>> /\ d + 2 \in 1..Len(s) /\ u[m] = r[L]
      BY <1>1, <1>5, <3>1
    <3>3. r[L] = <<Len(s), Written(s[Len(s)])>>
      BY <1>3, <3>1 DEF Bounded
    <3>4. Len(s) # d + 1 /\ (d + 1) + 1 = d + 2
      BY <1>2, <3>2
    <3> QED BY <1>2, <2>2, <3>2, <3>3, <3>4 DEF Bounded, m
  <2> QED BY <1>2, <2>1, <2>2
<1>8. InOnePiece(u, s)
  <2> SUFFICES ASSUME NEW a \in 1..m, NEW b \in 1..m,
                      u[a][2] = 1, a <= b, b - a < SizeAt(u, s, a)
               PROVE  u[b] = <<u[a][1], b - a + 1>>
    BY DEF InOnePiece, m
  <2>1. PICK x \in 1..L : x = w + a
    BY <1>5
  <2>2. PICK y \in 1..L : y = w + b
    BY <1>5
  <2>3. x <= y /\ y - x = b - a
    BY <1>1, <2>1, <2>2
  <2>4. u[a] = r[x] /\ u[b] = r[y] /\ SizeAt(u, s, a) = SizeAt(r, s, x)
    BY <1>5, <2>1, <2>2
  <2>5. r[y] = <<r[x][1], y - x + 1>>
    BY <1>3, <2>3, <2>4 DEF InOnePiece
  <2> QED BY <2>3, <2>4, <2>5
<1>9. OneAfterTheOther(u, s)
  <2> SUFFICES ASSUME NEW a \in 1..m, a < m, u[a][2] = SizeAt(u, s, a)
               PROVE  u[a + 1] = <<u[a][1] + 1, 1>>
    BY DEF OneAfterTheOther, m
  <2>1. PICK x \in 1..L : x = w + a
    BY <1>5
  <2>2. x < L /\ a + 1 \in 1..m /\ w + (a + 1) = x + 1
    BY <1>1, <1>2, <2>1
  <2>3. u[a] = r[x] /\ u[a + 1] = r[x + 1] /\ SizeAt(u, s, a) = SizeAt(r, s, x)
    BY <1>5, <2>1, <2>2
  <2>4. r[x + 1] = <<r[x][1] + 1, 1>>
    BY <1>3, <2>2, <2>3 DEF OneAfterTheOther
  <2> QED BY <2>3, <2>4
<1> QED BY <1>6, <1>7, <1>8, <1>9 DEF StreamOK, m

-----------------------------------------------------------------------------
(* The sender *)

\* A frame is written to the stream.
LEMMA WriteStep ==
  ASSUME IInv, NEW f \in Frame, f.defect = "short" => f.len > 0, Write(f),
         InFlight = 1 /\ Encodable(f) /\ AllSound => Len(sent) <= Len(delivered)
  PROVE  IInv'
<1> DEFINE n == Len(sent)
           w == Written(f)
           d == Len(delivered)
<1>0. /\ TypeOK /\ FramesOK /\ DeliveredInOrder
      /\ n < MaxFrames /\ sent' = Append(sent, f) /\ wire' = wire \o Bytes(n + 1, 1, w)
      /\ UNCHANGED <<buffer, consumed, failed, delivered, reader>>
  BY DEF IInv, Write
<1>1. n \in Nat /\ Len(wire) \in Nat /\ d \in Nat /\ MaxFrames \in Nat
  BY <1>0, Numbers
<1>2. w \in Nat /\ w \in 1..HeaderSize + MaxPayload + 1
  <2>1. w \in Nat /\ w >= 1 /\ w <= HeaderSize + MaxPayload + 1
    BY FrameFacts
  <2>2. HeaderSize \in Nat /\ MaxPayload \in Nat
    BY FramingAssumption
  <2> HIDE DEF w
  <2> QED BY <2>1, <2>2
<1>3. /\ Len(sent') = n + 1 /\ sent'[n + 1] = f /\ sent' \in Seq(Frame)
      /\ \A k \in 1..n : sent'[k] = sent[k]
  BY <1>0 DEF TypeOK
<1> DEFINE b == Bytes(n + 1, 1, w)
<1>4. b \in Seq(Byte) /\ Len(b) = w /\ \A i \in 1..w : b[i] = <<n + 1, i>>
  <2>1. n + 1 \in 1..MaxFrames /\ n + 1 \in Nat
    BY <1>0, <1>1
  <2>2. b \in Seq(Byte)
    BY <1>2, <2>1, BytesType
  <2> QED BY <1>2, <2>1, <2>2, BytesFacts
<1>5. wire \in Seq(Byte) /\ wire' = wire \o b
  BY <1>0 DEF TypeOK
<1> HIDE DEF n, w, d, b
<1>6. /\ wire' \in Seq(Byte) /\ Len(wire') = Len(wire) + w
      /\ \A i \in 1..Len(wire) : wire'[i] = wire[i]
      /\ \A i \in 1..w : wire'[Len(wire) + i] = <<n + 1, i>>
  <2> DEFINE Z == Byte
  <2> HIDE DEF Z
  <2>1. wire \in Seq(Z) /\ b \in Seq(Z)
    BY <1>4, <1>5 DEF Z
  <2>2. /\ wire \o b \in Seq(Z) /\ Len(wire \o b) = Len(wire) + Len(b)
        /\ \A i \in 1..Len(wire) : (wire \o b)[i] = wire[i]
        /\ \A i \in 1..Len(b) : (wire \o b)[Len(wire) + i] = b[i]
    BY <2>1, ConcatFacts
  <2> QED BY <1>4, <1>5, <2>2 DEF Z
<1>7. TypeOK'
  BY <1>0, <1>1, <1>3, <1>6 DEF TypeOK, n
<1>8. FramesOK'
  <2> SUFFICES ASSUME NEW k \in 1..(n + 1), sent'[k].defect = "short" PROVE sent'[k].len > 0
    BY <1>3 DEF FramesOK
  <2>1. CASE k = n + 1
    BY <1>3, <2>1
  <2>2. CASE k \in 1..n
    BY <1>0, <1>3, <2>2 DEF FramesOK, n
  <2> QED BY <1>1, <2>1, <2>2
<1>9. DeliveredInOrder'
  <2>1. d <= n /\ \A k \in 1..d : delivered[k] = sent[k] /\ Encodable(sent[k])
    BY <1>0 DEF DeliveredInOrder, n, d
  <2>2. \A k \in 1..d : k \in 1..n
    BY <1>1, <2>1
  <2>3. d <= n + 1
    BY <1>1, <2>1
  <2> QED BY <1>0, <1>3, <2>1, <2>2, <2>3 DEF DeliveredInOrder, d
<1>10. ASSUME StreamOK(Rest, sent, Len(delivered))
       PROVE  StreamOK(Rest, sent, Len(delivered))'
  <2> DEFINE r == Rest
             u == Rest'
             v == Len(buffer) - consumed
  <2>1. /\ r \in Seq(Byte) /\ Len(r) = v + Len(wire)
        /\ \A i \in 1..v : r[i] = buffer[consumed + i]
        /\ \A i \in 1..Len(wire) : r[v + i] = wire[i]
    BY <1>0, RestNow DEF Available
  <2>2. /\ u \in Seq(Byte) /\ Len(u) = v + Len(wire')
        /\ \A i \in 1..v : u[i] = buffer[consumed + i]
        /\ \A i \in 1..Len(wire') : u[v + i] = wire'[i]
    <3>1. buffer \in Seq(Byte) /\ consumed \in 0..Len(buffer) /\ u = RestOf(buffer, consumed, wire')
      BY <1>0 DEF TypeOK, Rest
    <3> QED BY <1>6, <3>1, RestFacts
  <2>3. v \in Nat
    BY <1>0, Numbers DEF Available
  <2> HIDE DEF r, u, v
  <2>4. Len(u) = Len(r) + w
    BY <1>1, <1>2, <1>6, <2>1, <2>2, <2>3
  <2>5. ASSUME NEW i \in 1..Len(r) PROVE u[i] = r[i]
    <3>1. CASE i \in 1..v
      BY <2>1, <2>2, <3>1
    <3>2. CASE i \notin 1..v
      <4>1. PICK j \in 1..Len(wire) : i = v + j
        <5>1. i - v \in 1..Len(wire) /\ i = v + (i - v)
          BY <1>1, <2>1, <2>3, <3>2
        <5> QED BY <5>1
      <4>2. j \in 1..Len(wire') /\ wire'[j] = wire[j]
        BY <1>1, <1>2, <1>6
      <4> QED BY <2>1, <2>2, <4>1, <4>2
    <3> QED BY <3>1, <3>2
  <2>6. ASSUME NEW i \in 1..w PROVE u[Len(r) + i] = <<n + 1, i>>
    <3>1. PICK j \in 1..Len(wire') : j = Len(wire) + i
      BY <1>1, <1>2, <1>6
    <3>2. v + j = Len(r) + i
      BY <1>1, <2>1, <2>3, <3>1
    <3>3. u[v + j] = wire'[j] /\ wire'[j] = <<n + 1, i>>
      BY <1>6, <2>2, <3>1
    <3> QED BY <3>2, <3>3
  <2>7. StreamOK(r, sent, d) /\ sent \in Seq(Frame)
    BY <1>0, <1>10 DEF r, d, TypeOK
  <2>8. StreamOK(u, sent', d)
    <3>1. /\ r \in Seq(Byte) /\ u \in Seq(Byte) /\ sent \in Seq(Frame) /\ d \in Nat
          /\ sent' \in Seq(Frame)
      BY <1>1, <1>3, <2>1, <2>2, <2>7
    <3>2. \A k \in 1..Len(sent) : sent[k].defect = "short" => sent[k].len > 0
      BY <1>0 DEF FramesOK
    <3>3. /\ Len(u) = Len(r) + Written(f)
          /\ \A i \in 1..Len(r) : u[i] = r[i]
          /\ \A i \in 1..Written(f) : u[Len(r) + i] = <<Len(sent) + 1, i>>
      BY <2>4, <2>5, <2>6 DEF n, w
    <3>4. /\ Len(sent') = Len(sent) + 1 /\ sent'[Len(sent) + 1] = f
          /\ \A k \in 1..Len(sent) : sent'[k] = sent[k]
      BY <1>3 DEF n
    <3> DEFINE s2 == sent'
    <3>5. s2 \in Seq(Frame)
      BY <3>1
    <3>6. /\ Len(s2) = Len(sent) + 1 /\ s2[Len(sent) + 1] = f
          /\ \A k \in 1..Len(sent) : s2[k] = sent[k]
      BY <3>4
    <3> HIDE DEF s2
    <3>7. StreamOK(u, s2, d)
      BY <2>7, <3>1, <3>2, <3>3, <3>5, <3>6, AppendFrame, ZenonT(30)
    <3> QED BY <3>7 DEF s2
  <2> QED BY <1>0, <2>8 DEF u, d
<1>11. ASSUME Paced PROVE Paced'
  <2> SUFFICES ASSUME InFlight = 1, AllSound'
               PROVE  Len(sent') <= Len(delivered) + 1 /\ (consumed = 0 \/ consumed = Len(buffer))
    BY <1>0 DEF Paced
  <2>1. \A k \in 1..n + 1 : Encodable(sent'[k])
    BY <1>3 DEF AllSound
  <2>2. \A k \in 1..n : Encodable(sent[k])
    BY <1>1, <1>3, <2>1
  <2>3. Encodable(f)
    BY <1>1, <1>3, <2>1
  <2>4. AllSound
    BY <2>2 DEF AllSound, n
  <2>5. n <= d /\ (consumed = 0 \/ consumed = Len(buffer))
    BY <1>11, <2>3, <2>4 DEF Paced, n, d
  <2> QED BY <1>1, <1>3, <2>5 DEF d
<1>12. ASSUME FailsOnDefectOnly PROVE FailsOnDefectOnly'
  <2> SUFFICES ASSUME failed PROVE \E k \in d + 1..n + 1 : ~Encodable(sent'[k])
    BY <1>0, <1>3 DEF FailsOnDefectOnly, d
  <2>1. PICK k \in d + 1..n : ~Encodable(sent[k])
    BY <1>12 DEF FailsOnDefectOnly, d, n
  <2>2. k \in 1..n /\ k \in d + 1..n + 1
    BY <1>1
  <2> QED BY <1>3, <2>1, <2>2
<1>13. /\ failed => reader = "closed"
       /\ reader # "closed" => StreamOK(Rest, sent, Len(delivered)) /\ Paced
       /\ InFlight = 1 => FailsOnDefectOnly
  BY DEF IInv
<1> QED BY <1>0, <1>7, <1>8, <1>9, <1>10, <1>11, <1>12, <1>13 DEF IInv

\* FrameCodec::encode, and frames that do not come from it.
LEMMA SenderStep ==
  ASSUME IInv, NEW f \in Frame, Encode(f) \/ Forge(f) \/ Follow(f)
  PROVE  IInv'
<1>1. Len(sent) \in Nat /\ Len(delivered) \in Nat
  BY Numbers DEF IInv
<1>2. CASE Encode(f)
  <2>1. Write(f) /\ f.defect # "short" /\ (InFlight = 1 => Len(sent) <= Len(delivered))
    BY <1>1, <1>2 DEF Encode, Encodable
  <2> QED BY <2>1, WriteStep
<1>3. CASE Forge(f)
  BY <1>3, WriteStep DEF Forge
<1>4. CASE Follow(f)
  <2>1. Write(f) /\ f.defect # "short" /\ ~AllSound
    BY <1>4 DEF Follow, Encodable, AllSound
  <2> QED BY <2>1, WriteStep
<1> QED BY <1>2, <1>3, <1>4

-----------------------------------------------------------------------------
(* The decoder *)

\* What a sound sender that awaits each answer has on its way fits in the buffer.
LEMMA OneFrameFits ==
  ASSUME NEW s \in Seq(Frame), NEW d \in Nat, NEW r \in Seq(Byte),
         StreamOK(r, s, d), \A k \in 1..Len(s) : Encodable(s[k]), Len(s) <= d + 1
  PROVE  Len(r) <= MaxBuffered
<1>1. Len(r) \in Nat /\ Len(s) \in Nat /\ MaxBuffered \in Nat
  BY FramingAssumption
<1>2. CASE Len(r) = 0
  BY <1>1, <1>2
<1>3. CASE Len(r) > 0
  <2> DEFINE w == Written(s[d + 1])
  <2>1. \A k \in 1..Len(s) : s[k].defect = "short" => s[k].len > 0
    BY DEF Encodable
  <2>2. /\ w \in Nat /\ w <= Len(r) /\ d + 1 \in 1..Len(s) /\ s[d + 1] \in Frame
        /\ Len(r) > w => d + 2 \in 1..Len(s)
    BY <1>3, <2>1, FirstFrame
  <2>3. Encodable(s[d + 1])
    BY <2>2
  <2>4. w <= HeaderSize + MaxPayload
    <3>1. s[d + 1].defect # "short" /\ s[d + 1].len <= MaxPayload
      BY <2>3 DEF Encodable
    <3>2. s[d + 1].len \in Nat /\ w = HeaderSize + s[d + 1].len
      BY <2>2, <3>1, FrameFacts
    <3> QED BY <3>1, <3>2, FramingAssumption
  <2> HIDE DEF w
  <2>5. Len(r) = w
    BY <1>1, <2>2
  <2> QED BY <2>2, <2>4, <2>5, FramingAssumption
<1> QED BY <1>1, <1>2, <1>3

\* read() and push(): the same bytes are left, or the buffer cannot hold them.
LEMMA PushStep ==
  ASSUME IInv, NEW n \in 1..MaxRead, Push(n)
  PROVE  IInv'
<1> DEFINE kept == IF Compacts THEN <<>> ELSE buffer
           c2 == consumed'
           head == SubSeq(wire, 1, n)
           d == Len(delivered)
<1>0. /\ TypeOK /\ FramesOK /\ DeliveredInOrder /\ StreamOK(Rest, sent, d) /\ Paced /\ ~failed
      /\ reader = "reading" /\ n \in 1..Len(wire) /\ wire' = SubSeq(wire, n + 1, Len(wire))
      /\ consumed' = (IF Compacts THEN 0 ELSE consumed)
      /\ UNCHANGED <<sent, delivered>>
  BY DEF IInv, Push
<1>1. IF Overflows(kept, n)
      THEN failed' = TRUE /\ reader' = "closed" /\ buffer' = kept
      ELSE buffer' = kept \o head /\ reader' = "draining" /\ UNCHANGED failed
  BY DEF Push
<1>2. /\ Len(wire) \in Nat /\ d \in Nat /\ Available \in Nat /\ MaxBuffered \in Nat /\ n \in Nat
      /\ n <= Len(wire) /\ Len(buffer) \in Nat /\ consumed \in Nat /\ consumed <= Len(buffer)
      /\ Available = Len(buffer) - consumed
  BY <1>0, Numbers DEF Available
<1>3. /\ wire' \in Seq(Byte) /\ Len(wire') = Len(wire) - n
      /\ \A i \in 1..Len(wire) - n : wire'[i] = wire[n + i]
  BY <1>0, SuffixFacts DEF TypeOK
<1>4. head \in Seq(Byte) /\ Len(head) = n /\ \A i \in 1..n : head[i] = wire[i]
  BY <1>0, <1>2, PrefixFacts DEF TypeOK
<1>5. /\ kept \in Seq(Byte) /\ Len(kept) \in Nat /\ Len(kept) <= Len(buffer) /\ c2 \in 0..Len(kept)
      /\ Len(kept) - c2 = Available
      /\ \A i \in 1..Available : kept[c2 + i] = buffer[consumed + i]
  <2>1. CASE Compacts
    <3>1. kept = <<>> /\ c2 = 0 /\ Available = 0
      BY <1>0, <1>2, <2>1 DEF Compacts
    <3> HIDE DEF kept, c2
    <3>2. \A i \in 1..Available : FALSE
      BY <3>1
    <3>3. Len(kept) = 0 /\ kept \in Seq(Byte)
      BY <3>1
    <3> QED BY <1>2, <3>1, <3>2, <3>3
  <2>2. CASE ~Compacts
    <3>1. kept = buffer /\ c2 = consumed /\ buffer \in Seq(Byte)
      BY <1>0, <2>2 DEF TypeOK
    <3> HIDE DEF kept, c2
    <3>2. c2 \in 0..Len(kept) /\ Len(kept) - c2 = Available /\ Len(kept) <= Len(buffer)
      BY <1>2, <3>1
    <3> QED BY <1>2, <3>1, <3>2
  <2> QED BY <2>1, <2>2
<1>6. Paced'
  <2> SUFFICES ASSUME InFlight = 1, AllSound'
               PROVE  Len(sent) <= d + 1 /\ consumed' = 0
    BY <1>0 DEF Paced, d
  <2>1. AllSound
    BY <1>0 DEF AllSound
  <2>2. Len(sent) <= d + 1 /\ (consumed = 0 \/ consumed = Len(buffer))
    BY <1>0, <2>1 DEF Paced
  <2> QED BY <1>0, <1>2, <2>2 DEF Compacts
<1>7. FramesOK' /\ DeliveredInOrder'
  BY <1>0 DEF FramesOK, DeliveredInOrder
<1>8. sent \in Seq(Frame) /\ Len(sent) <= MaxFrames /\ delivered \in Seq(Frame) /\ Len(buffer) <= MaxBuffered
  BY <1>0 DEF TypeOK
<1> HIDE DEF kept, head, c2
<1>9. CASE Overflows(kept, n)
  <2>1. failed' = TRUE /\ reader' = "closed" /\ buffer' = kept /\ consumed' = c2
    BY <1>1, <1>9 DEF c2
  <2>2. TypeOK'
    BY <1>0, <1>2, <1>3, <1>5, <1>8, <2>1, SMTT(30) DEF TypeOK
  <2>3. ASSUME InFlight = 1 PROVE FailsOnDefectOnly'
    <3>1. \E k \in 1..Len(sent) : ~Encodable(sent[k])
      <4> SUFFICES ASSUME AllSound PROVE FALSE
        BY DEF AllSound
      <4>1. Len(sent) <= d + 1 /\ c2 = 0
        <5>1. Len(sent) <= d + 1 /\ (consumed = 0 \/ consumed = Len(buffer))
          BY <1>0, <2>3 DEF Paced
        <5> QED BY <1>0, <1>2, <5>1 DEF Compacts, c2
      <4>2. Rest \in Seq(Byte) /\ Len(Rest) = Available + Len(wire)
        BY <1>0, RestNow
      <4>3. Len(Rest) <= MaxBuffered
        BY <1>0, <1>2, <1>8, <4>1, <4>2, OneFrameFits DEF AllSound
      <4>4. Len(kept) + n <= Len(Rest)
        BY <1>2, <1>5, <4>1, <4>2
      <4> QED BY <1>2, <1>5, <1>9, <4>2, <4>3, <4>4 DEF Overflows
    <3>2. PICK k \in 1..Len(sent) : ~Encodable(sent[k])
      BY <3>1
    <3>3. \A j \in 1..d : Encodable(sent[j])
      BY <1>0 DEF DeliveredInOrder
    <3>4. k \in d + 1..Len(sent)
      <4>1. k \notin 1..d
        BY <3>2, <3>3
      <4> QED BY <1>2, <1>8, <4>1
    <3> QED BY <1>0, <3>2, <3>4 DEF FailsOnDefectOnly, d
  <2> QED BY <1>7, <2>1, <2>2, <2>3 DEF IInv
<1>10. CASE ~Overflows(kept, n)
  <2>1. buffer' = kept \o head /\ reader' = "draining" /\ failed' = failed /\ consumed' = c2
    BY <1>1, <1>10 DEF c2
  <2>2. /\ buffer' \in Seq(Byte) /\ Len(buffer') = Len(kept) + n
        /\ \A i \in 1..Len(kept) : buffer'[i] = kept[i]
        /\ \A i \in 1..n : buffer'[Len(kept) + i] = wire[i]
    <3> DEFINE Z == Byte
    <3> HIDE DEF Z
    <3>1. kept \in Seq(Z) /\ head \in Seq(Z)
      BY <1>4, <1>5 DEF Z
    <3>2. /\ kept \o head \in Seq(Z) /\ Len(kept \o head) = Len(kept) + Len(head)
          /\ \A i \in 1..Len(kept) : (kept \o head)[i] = kept[i]
          /\ \A i \in 1..Len(head) : (kept \o head)[Len(kept) + i] = head[i]
      BY <3>1, ConcatFacts
    <3> QED BY <1>4, <2>1, <3>2 DEF Z
  <2>3. TypeOK'
    <3>1. Len(buffer') <= MaxBuffered
      BY <1>2, <1>5, <1>10, <2>2, SMTT(30) DEF Overflows
    <3>2. consumed' \in 0..Len(buffer')
      BY <1>2, <1>5, <2>1, <2>2
    <3>3. failed' \in BOOLEAN
      BY <1>0, <2>1 DEF TypeOK
    <3> QED BY <1>0, <1>3, <1>8, <2>1, <2>2, <3>1, <3>2, <3>3 DEF TypeOK
  <2>4. Rest' = Rest
    <3> DEFINE r == Rest
               u == Rest'
               v == Len(kept) - c2
    <3>1. /\ r \in Seq(Byte) /\ Len(r) = v + Len(wire)
          /\ \A i \in 1..v : r[i] = buffer[consumed + i]
          /\ \A i \in 1..Len(wire) : r[v + i] = wire[i]
      BY <1>0, <1>5, RestNow
    <3>2. /\ u \in Seq(Byte) /\ Len(u) = Len(buffer') - c2 + Len(wire')
          /\ \A i \in 1..Len(buffer') - c2 : u[i] = buffer'[c2 + i]
          /\ \A i \in 1..Len(wire') : u[Len(buffer') - c2 + i] = wire'[i]
      <4>1. c2 \in 0..Len(buffer') /\ u = RestOf(buffer', c2, wire')
        BY <1>2, <1>5, <2>1, <2>2 DEF Rest
      <4> QED BY <1>3, <2>2, <4>1, RestFacts
    <3>3. v \in Nat /\ c2 \in Nat /\ Len(buffer') - c2 = v + n /\ Len(kept) = c2 + v
      BY <1>2, <1>5, <2>2
    <3> HIDE DEF r, u, v
    <3>4. Len(u) = Len(r)
      <4>1. Len(r) = v + Len(wire) /\ Len(u) = (v + n) + Len(wire')
        BY <3>1, <3>2, <3>3
      <4>2. Len(wire') = Len(wire) - n
        BY <1>3
      <4>3. v \in Nat /\ n \in Nat /\ Len(wire) \in Nat
        BY <1>2, <3>3
      <4> QED BY <4>1, <4>2, <4>3
    <3>5. ASSUME NEW i \in 1..Len(r) PROVE u[i] = r[i]
      <4>1. CASE i \in 1..v
        <5>1. i \in 1..Len(buffer') - c2 /\ c2 + i \in 1..Len(kept) /\ i \in 1..Available
          BY <1>2, <1>5, <3>3, <4>1 DEF v
        <5>2. u[i] = buffer'[c2 + i] /\ buffer'[c2 + i] = kept[c2 + i]
          BY <2>2, <3>2, <5>1
        <5> QED BY <1>5, <3>1, <4>1, <5>1, <5>2
      <4>2. CASE i \in v + 1..v + n
        <5>1. PICK j \in 1..n : i = v + j
          <6>1. i - v \in 1..n /\ i = v + (i - v)
            BY <1>2, <3>3, <4>2
          <6> QED BY <6>1
        <5>2. j \in 1..Len(wire) /\ i \in 1..Len(buffer') - c2 /\ c2 + i = Len(kept) + j
          BY <1>2, <3>3, <5>1
        <5>3. u[i] = buffer'[c2 + i] /\ buffer'[Len(kept) + j] = wire[j]
          BY <2>2, <3>2, <5>2
        <5>4. r[v + j] = wire[j]
          BY <3>1, <5>2
        <5> QED BY <5>1, <5>2, <5>3, <5>4
      <4>3. CASE i > v + n
        <5>1. PICK j \in 1..Len(wire') : i = v + n + j
          <6>1. i - (v + n) \in 1..Len(wire') /\ i = v + n + (i - (v + n))
            BY <1>2, <1>3, <3>1, <3>3, <4>3
          <6> QED BY <6>1
        <5>2. n + j \in 1..Len(wire) /\ j \in 1..Len(wire) - n /\ i = v + (n + j)
          BY <1>2, <1>3, <3>3, <5>1
        <5>3. u[v + n + j] = wire'[j] /\ wire'[j] = wire[n + j]
          BY <1>3, <3>2, <3>3, <5>2
        <5>4. r[v + (n + j)] = wire[n + j]
          BY <3>1, <5>2
        <5> QED BY <5>1, <5>2, <5>3, <5>4
      <4> QED BY <1>2, <3>1, <3>3, <4>1, <4>2, <4>3
    <3>6. u = r
      <4>1. \A i \in 1..Len(r) : r[i] = u[i]
        BY <3>5
      <4>2. r \in Seq(Byte) /\ u \in Seq(Byte)
        BY <3>1, <3>2
      <4> DEFINE Z == Byte
      <4> HIDE DEF Z
      <4>3. r \in Seq(Z) /\ u \in Seq(Z)
        BY <4>2 DEF Z
      <4> QED BY <3>4, <4>1, <4>3, SeqEqual
    <3> QED BY <3>6 DEF u, r
  <2>5. StreamOK(Rest, sent, Len(delivered))'
    BY <1>0, <2>4 DEF d
  <2>6. ~failed'
    BY <1>0, <2>1
  <2>7. FailsOnDefectOnly'
    BY <2>6 DEF FailsOnDefectOnly
  <2> QED BY <1>6, <1>7, <2>3, <2>5, <2>6, <2>7 DEF IInv
<1> QED BY <1>9, <1>10

\* The next n bytes pass a checksum when they are the first ones of one frame.
LEMMA AlignedFacts ==
  ASSUME TypeOK, NEW n \in 1..Available
  PROVE  Aligned(n) <=> \A i \in 1..n : Rest[i] = <<Rest[1][1], i>>
<1> DEFINE k == Rest[1][1]
           x == SubSeq(buffer, consumed + 1, consumed + n)
           y == Bytes(k, 1, n)
<1>1. /\ Available \in Nat /\ consumed \in Nat /\ n \in Nat /\ Len(buffer) \in Nat
      /\ Available = Len(buffer) - consumed
  BY Numbers DEF Available
<1>2. /\ Rest \in Seq(Byte) /\ Len(Rest) = Available + Len(wire) /\ Len(wire) \in Nat
      /\ \A i \in 1..Available : Rest[i] = buffer[consumed + i]
  BY RestNow, Numbers
<1>3. 1 \in 1..Len(Rest) /\ 1 \in 1..Available
  BY <1>1, <1>2
<1>4. Rest[1] \in Byte
  BY <1>2, <1>3
<1>5. k \in Nat /\ buffer[consumed + 1] = Rest[1]
  BY <1>2, <1>3, <1>4 DEF Byte
<1>6. /\ x \in Seq(Byte) /\ Len(x) = n
      /\ \A i \in 1..n : x[i] = Rest[i]
  <2>1. \A i \in consumed + 1..consumed + n : buffer[i] \in Byte
    <3>1. \A i \in consumed + 1..consumed + n : i \in 1..Len(buffer)
      BY <1>1
    <3> QED BY <3>1 DEF TypeOK
  <2>2. consumed + 1 \in Int /\ consumed + n \in Int
    BY <1>1
  <2>3. /\ x \in Seq(Byte)
        /\ Len(x) = IF consumed + 1 <= consumed + n THEN (consumed + n) - (consumed + 1) + 1 ELSE 0
        /\ \A i \in 1..((consumed + n) - (consumed + 1) + 1) : x[i] = buffer[(consumed + 1) + i - 1]
    BY <2>1, <2>2, SubSeqProperties
  <2> HIDE DEF x
  <2>4. Len(x) = n
    BY <1>1, <2>3
  <2>5. ASSUME NEW i \in 1..n PROVE x[i] = Rest[i]
    <3>1. /\ i \in 1..((consumed + n) - (consumed + 1) + 1) /\ i \in 1..Available
          /\ (consumed + 1) + i - 1 = consumed + i
      BY <1>1
    <3>2. x[i] = buffer[consumed + i]
      BY <2>3, <3>1
    <3> QED BY <1>2, <3>1, <3>2
  <2> QED BY <2>3, <2>4, <2>5
<1>7. y \in Seq(Nat \X Nat) /\ Len(y) = n /\ \A i \in 1..n : y[i] = <<k, i>>
  BY <1>1, <1>5, BytesFacts
<1>8. Aligned(n) <=> x = y
  BY <1>5 DEF Aligned
<1> HIDE DEF x, y
<1>9. ASSUME x = y PROVE \A i \in 1..n : Rest[i] = <<k, i>>
  BY <1>6, <1>7, <1>9
<1>10. ASSUME \A i \in 1..n : Rest[i] = <<k, i>> PROVE x = y
  <2> DEFINE Z == Nat \X Nat
  <2>1. \A i \in 1..Len(x) : x[i] \in Z /\ x[i] = y[i]
    <3> SUFFICES ASSUME NEW i \in 1..n PROVE x[i] \in Z /\ x[i] = y[i]
      BY <1>6
    <3>1. <<k, i>> \in Z
      BY <1>1, <1>5
    <3> QED BY <1>6, <1>7, <1>10, <3>1
  <2>2. y \in Seq(Z)
    BY <1>7
  <2> HIDE DEF Z
  <2>3. x \in Seq(Z)
    BY <1>6, <2>1, SeqOfElements
  <2>4. Len(x) = Len(y)
    BY <1>6, <1>7
  <2> QED BY <2>1, <2>2, <2>3, <2>4, SeqEqual
<1> QED BY <1>8, <1>9, <1>10

\* When next() has a header, it is at the first frame that is not delivered, all of
\* whose bytes are left.
LEMMA NextFrame ==
  ASSUME IInv, reader = "draining", Available >= HeaderSize
  PROVE  /\ Len(Rest) > 0 /\ Rest[1][1] = Len(delivered) + 1
         /\ At = sent[Len(delivered) + 1] /\ Len(delivered) + 1 \in 1..Len(sent)
         /\ At \in Frame /\ (At.defect = "short" => At.len > 0)
         /\ Written(At) \in Nat /\ Written(At) <= Len(Rest)
         /\ \A i \in 1..Written(At) : Rest[i] = <<Rest[1][1], i>>
<1> DEFINE d == Len(delivered)
           r == Rest
<1>1. TypeOK /\ FramesOK /\ StreamOK(r, sent, d)
  BY DEF IInv
<1>2. /\ Available \in Nat /\ d \in Nat /\ HeaderSize \in Nat /\ HeaderSize > 0 /\ Len(wire) \in Nat
  BY <1>1, Numbers
<1>3. /\ r \in Seq(Byte) /\ Len(r) = Available + Len(wire)
      /\ \A i \in 1..Available : r[i] = buffer[consumed + i]
  BY <1>1, RestNow
<1>4. sent \in Seq(Frame) /\ \A k \in 1..Len(sent) : sent[k].defect = "short" => sent[k].len > 0
  BY <1>1 DEF TypeOK, FramesOK
<1> HIDE DEF r, d
<1>5. Len(r) > 0 /\ 1 \in 1..Available
  BY <1>2, <1>3
<1>6. /\ r[1][1] = d + 1 /\ d + 1 \in 1..Len(sent) /\ sent[d + 1] \in Frame
      /\ Written(sent[d + 1]) \in Nat /\ Written(sent[d + 1]) <= Len(r)
      /\ \A b \in 1..Written(sent[d + 1]) : r[b] = <<d + 1, b>>
  BY <1>1, <1>2, <1>3, <1>4, <1>5, FirstFrame
<1>7. At = sent[d + 1]
  BY <1>3, <1>5, <1>6 DEF At
<1> QED BY <1>4, <1>5, <1>6, <1>7 DEF r, d

\* next() returns a frame.
LEMMA DecoderFrameStep ==
  ASSUME IInv, DecoderFrame
  PROVE  IInv'
<1> DEFINE d == Len(delivered)
           T == Total
<1>1. /\ TypeOK /\ FramesOK /\ DeliveredInOrder /\ StreamOK(Rest, sent, d) /\ Paced /\ ~failed
      /\ reader = "draining" /\ delivered' = Append(delivered, At) /\ consumed' = consumed + T
      /\ UNCHANGED <<sent, wire, buffer, failed, reader>>
  BY DEF IInv, DecoderFrame
<1>2. ~(Available < HeaderSize) /\ HeaderSound /\ ~(Available < T) /\ BodySound
  BY DEF DecoderFrame, Outcome
<1>3. /\ Available \in Nat /\ d \in Nat /\ HeaderSize \in Nat /\ HeaderSize > 0 /\ Len(wire) \in Nat
      /\ consumed \in Nat /\ Len(buffer) \in Nat /\ Available = Len(buffer) - consumed
      /\ Len(sent) \in Nat
  BY <1>1, Numbers DEF Available
<1>4. Available >= HeaderSize
  BY <1>2, <1>3
<1>5. /\ Len(Rest) > 0 /\ Rest[1][1] = d + 1 /\ At = sent[d + 1] /\ d + 1 \in 1..Len(sent)
      /\ At \in Frame /\ (At.defect = "short" => At.len > 0)
      /\ Written(At) \in Nat /\ Written(At) <= Len(Rest)
  BY <1>1, <1>4, NextFrame
<1>6. /\ At.len \in Nat /\ At.defect \in Defect
      /\ At.defect # "short" => Written(At) = HeaderSize + At.len
      /\ At.defect = "short" => Written(At) = HeaderSize + At.len - 1
  BY <1>5, FrameFacts
<1>7. T \in Nat /\ T \in 1..Available /\ T = HeaderSize + At.len
  <2>1. T = HeaderSize + At.len
    BY DEF Total
  <2> HIDE DEF T
  <2> QED BY <1>2, <1>3, <1>6, <2>1
<1>8. Rest \in Seq(Byte) /\ Len(Rest) = Available + Len(wire)
  BY <1>1, RestNow
<1> HIDE DEF T, d
<1>9. \A i \in 1..T : Rest[i] = <<Rest[1][1], i>>
  <2>1. Aligned(T)
    BY <1>2 DEF BodySound, T
  <2> QED BY <1>1, <1>7, <2>1, AlignedFacts
<1>10. At.defect # "short"
  <2> SUFFICES ASSUME At.defect = "short" PROVE FALSE
    OBVIOUS
  <2>1. T \in 1..Len(Rest) /\ T \in 1..T
    BY <1>3, <1>7, <1>8
  <2>2. Rest[T] = <<Rest[1][1], T>>
    BY <1>9, <2>1
  <2>3. Rest[T] = <<d + 1, T>>
    BY <1>5, <2>2
  <2>4. Rest[T][1] = d + 1 /\ Rest[T][2] = T
    BY <2>3
  <2>5. Rest[T][2] \in 1..SizeAt(Rest, sent, T)
    BY <1>1, <2>1 DEF StreamOK, BytesSent
  <2>6. SizeAt(Rest, sent, T) = Written(At)
    BY <1>5, <2>4 DEF SizeAt
  <2>7. T \in 1..(T - 1)
    BY <1>3, <1>6, <1>7, <2>4, <2>5, <2>6
  <2> QED BY <1>7, <2>7
<1>11. Encodable(At) /\ Written(At) = T
  BY <1>2, <1>6, <1>7, <1>10 DEF HeaderSound, BodySound, Encodable, Defect
<1>12. /\ Len(delivered') = d + 1 /\ delivered'[d + 1] = At /\ delivered' \in Seq(Frame)
       /\ \A k \in 1..d : delivered'[k] = delivered[k]
  BY <1>1, <1>5 DEF TypeOK, d
<1>13. TypeOK'
  <2>1. consumed' \in 0..Len(buffer)
    BY <1>1, <1>3, <1>7, SMTT(30)
  <2> QED BY <1>1, <1>12, <2>1 DEF TypeOK
<1>14. DeliveredInOrder'
  <2>1. d + 1 <= Len(sent)
    BY <1>3, <1>5
  <2>2. ASSUME NEW k \in 1..d + 1 PROVE delivered'[k] = sent[k] /\ Encodable(sent[k])
    <3>1. CASE k = d + 1
      BY <1>5, <1>11, <1>12, <3>1
    <3>2. CASE k \in 1..d
      BY <1>1, <1>12, <3>2 DEF DeliveredInOrder, d
    <3> QED BY <1>3, <3>1, <3>2
  <2> QED BY <1>1, <1>12, <2>1, <2>2 DEF DeliveredInOrder
<1>15. StreamOK(Rest, sent, Len(delivered))' /\ (Len(sent) = d + 1 => consumed' = Len(buffer))
  <2> DEFINE r == Rest
             u == Rest'
  <2>1. /\ r \in Seq(Byte) /\ Len(r) = Available + Len(wire)
        /\ \A i \in 1..Available : r[i] = buffer[consumed + i]
        /\ \A i \in 1..Len(wire) : r[Available + i] = wire[i]
    BY <1>1, RestNow
  <2> DEFINE c2 == consumed + T
             v == Len(buffer) - c2
  <2>2. /\ u \in Seq(Byte) /\ Len(u) = v + Len(wire)
        /\ \A i \in 1..v : u[i] = buffer[c2 + i]
        /\ \A i \in 1..Len(wire) : u[v + i] = wire[i]
    <3>1. /\ buffer \in Seq(Byte) /\ wire \in Seq(Byte) /\ c2 \in 0..Len(buffer)
          /\ u = RestOf(buffer, c2, wire)
      <4>1. buffer \in Seq(Byte) /\ wire \in Seq(Byte)
        BY <1>1 DEF TypeOK
      <4>2. T \in Nat /\ T <= Available
        BY <1>3, <1>7
      <4>3. c2 \in 0..Len(buffer)
        BY <1>3, <4>2
      <4>4. u = RestOf(buffer, c2, wire)
        BY <1>1 DEF Rest
      <4> QED BY <4>1, <4>3, <4>4
    <3> QED BY <3>1, RestFacts
  <2>0. T \in Nat /\ T >= 1 /\ T <= Available
    BY <1>3, <1>7
  <2>3. v \in Nat /\ Available = T + v /\ c2 \in Nat /\ c2 = consumed + T /\ (v = 0 => c2 = Len(buffer))
    BY <1>3, <2>0
  <2> HIDE DEF r, u, c2, v
  <2>4. Len(u) = Len(r) - T
    <3>1. Len(r) = Available + Len(wire) /\ Len(u) = v + Len(wire)
      BY <2>1, <2>2
    <3> QED BY <1>3, <2>0, <2>3, <3>1
  <2>5. ASSUME NEW i \in 1..Len(u) PROVE u[i] = r[T + i]
    <3>1. CASE i \in 1..v
      <4>1. T + i \in 1..Available /\ consumed + (T + i) = c2 + i
        BY <1>3, <2>0, <2>3, <3>1
      <4>2. r[T + i] = buffer[consumed + (T + i)] /\ u[i] = buffer[c2 + i]
        BY <2>1, <2>2, <3>1, <4>1
      <4> QED BY <4>1, <4>2
    <3>2. CASE i \notin 1..v
      <4>1. PICK j \in 1..Len(wire) : i = v + j
        <5>1. Len(u) = v + Len(wire)
          BY <2>2
        <5>2. i - v \in 1..Len(wire) /\ i = v + (i - v)
          BY <1>3, <2>3, <3>2, <5>1
        <5> QED BY <5>2
      <4>2. T + i = Available + j
        BY <2>0, <2>3, <4>1
      <4>3. r[Available + j] = wire[j] /\ u[v + j] = wire[j]
        BY <2>1, <2>2
      <4> QED BY <4>1, <4>2, <4>3
    <3> QED BY <3>1, <3>2
  <2>6. /\ StreamOK(r, sent, d) /\ Len(r) > 0 /\ sent \in Seq(Frame)
        /\ \A k \in 1..Len(sent) : sent[k].defect = "short" => sent[k].len > 0
    BY <1>1, <1>5 DEF r, TypeOK, FramesOK
  <2>7. /\ Len(u) = Len(r) - Written(sent[d + 1])
        /\ \A i \in 1..Len(u) : u[i] = r[Written(sent[d + 1]) + i]
    BY <1>5, <1>11, <2>4, <2>5
  <2>8. StreamOK(u, sent, d + 1) /\ (Len(sent) = d + 1 => Len(u) = 0)
    <3>1. r \in Seq(Byte) /\ u \in Seq(Byte)
      BY <2>1, <2>2
    <3> QED BY <1>3, <2>6, <2>7, <3>1, DropFrame
  <2>9. StreamOK(Rest, sent, Len(delivered))'
    BY <1>1, <1>12, <2>8 DEF u
  <2>10. ASSUME Len(sent) = d + 1 PROVE consumed' = Len(buffer)
    <3>1. Len(u) = v + Len(wire) /\ Len(u) = 0
      BY <2>2, <2>8, <2>10
    <3>2. v = 0
      <4>1. v \in Nat /\ Len(wire) \in Nat /\ v + Len(wire) = 0
        BY <1>3, <2>3, <3>1
      <4> QED BY <4>1
    <3> QED BY <1>1, <2>3, <3>2
  <2> QED BY <2>9, <2>10
<1>16. Paced'
  <2> SUFFICES ASSUME InFlight = 1, AllSound'
               PROVE  Len(sent) <= (d + 1) + 1 /\ consumed' = Len(buffer)
    BY <1>1, <1>12 DEF Paced
  <2>1. AllSound
    BY <1>1 DEF AllSound
  <2>2. Len(sent) <= d + 1
    BY <1>1, <2>1 DEF Paced, d
  <2>3. Len(sent) = d + 1
    BY <1>3, <1>5, <2>2
  <2> QED BY <1>3, <1>15, <2>3
<1>17. FramesOK'
  BY <1>1 DEF FramesOK
<1>18. ~failed' /\ FailsOnDefectOnly'
  BY <1>1 DEF FailsOnDefectOnly
<1> QED BY <1>13, <1>14, <1>15, <1>16, <1>17, <1>18 DEF IInv

\* next() has not enough bytes.
LEMMA DecoderNothingStep ==
  ASSUME IInv, DecoderNothing
  PROVE  IInv'
<1>1. /\ TypeOK /\ FramesOK /\ DeliveredInOrder /\ StreamOK(Rest, sent, Len(delivered)) /\ Paced
      /\ ~failed /\ reader' = "reading"
      /\ UNCHANGED <<sent, wire, buffer, consumed, failed, delivered>>
  BY DEF IInv, DecoderNothing
<1>2. TypeOK'
  BY <1>1 DEF TypeOK
<1>3. FramesOK' /\ DeliveredInOrder'
  BY <1>1 DEF FramesOK, DeliveredInOrder
<1>4. StreamOK(Rest, sent, Len(delivered))'
  <2>1. Rest' = Rest
    BY <1>1 DEF Rest
  <2> QED BY <1>1, <2>1
<1>5. Paced'
  BY <1>1 DEF Paced, AllSound
<1>6. ~failed' /\ FailsOnDefectOnly'
  BY <1>1 DEF FailsOnDefectOnly
<1> QED BY <1>2, <1>3, <1>4, <1>5, <1>6 DEF IInv

\* next() fails: only a frame that encode refuses makes it.
LEMMA DecoderErrorStep ==
  ASSUME IInv, DecoderError
  PROVE  IInv'
<1> DEFINE d == Len(delivered)
<1>1. /\ TypeOK /\ FramesOK /\ DeliveredInOrder /\ reader = "draining" /\ Outcome = "error"
      /\ failed' = TRUE /\ reader' = "closed"
      /\ UNCHANGED <<sent, wire, buffer, consumed, delivered>>
  BY DEF IInv, DecoderError, FailsForGood
<1>2. /\ Available \in Nat /\ d \in Nat /\ HeaderSize \in Nat /\ HeaderSize > 0 /\ Len(sent) \in Nat
  BY <1>1, Numbers
<1>3. Available >= HeaderSize /\ (HeaderSound => Available >= Total /\ ~BodySound)
  <2>1. ~(Available < HeaderSize) /\ (HeaderSound => ~(Available < Total) /\ ~BodySound)
    BY <1>1 DEF Outcome
  <2>2. ASSUME HeaderSound PROVE Total \in Nat
    <3>1. At \in Frame /\ (At.defect = "short" => At.len > 0)
      BY <1>1, <1>2, <2>1, NextFrame
    <3> QED BY <1>2, <3>1, FrameFacts DEF Total
  <2> QED BY <1>2, <2>1, <2>2
<1>4. /\ At = sent[d + 1] /\ d + 1 \in 1..Len(sent)
      /\ At \in Frame /\ (At.defect = "short" => At.len > 0)
      /\ \A i \in 1..Written(At) : Rest[i] = <<Rest[1][1], i>>
  BY <1>1, <1>3, NextFrame
<1>5. ~Encodable(At)
  <2> SUFFICES ASSUME Encodable(At) PROVE FALSE
    OBVIOUS
  <2>1. At.len \in Nat /\ At.len <= MaxPayload /\ At.defect = "none" /\ Written(At) = HeaderSize + At.len
    BY <1>4, FrameFacts DEF Encodable
  <2> DEFINE T == Total
  <2>2. T = HeaderSize + At.len
    BY DEF Total
  <2> HIDE DEF T
  <2>3. T \in Nat /\ T >= HeaderSize /\ T = Written(At)
    BY <1>2, <2>1, <2>2
  <2>4. Aligned(HeaderSize)
    <3>1. HeaderSize \in 1..Available
      BY <1>2, <1>3
    <3>2. \A i \in 1..HeaderSize : i \in 1..T
      BY <1>2, <2>3
    <3>3. \A i \in 1..HeaderSize : Rest[i] = <<Rest[1][1], i>>
      BY <1>4, <2>3, <3>2
    <3> QED BY <1>1, <3>1, <3>3, AlignedFacts
  <2>5. HeaderSound
    BY <2>1, <2>4 DEF HeaderSound
  <2>6. Available >= T /\ ~BodySound
    BY <1>3, <2>5 DEF T
  <2>7. Aligned(T)
    <3>1. T \in 1..Available
      BY <1>2, <2>3, <2>6
    <3>2. \A i \in 1..T : Rest[i] = <<Rest[1][1], i>>
      BY <1>4, <2>3
    <3> QED BY <1>1, <3>1, <3>2, AlignedFacts
  <2> QED BY <2>1, <2>6, <2>7 DEF BodySound, T
<1>6. TypeOK'
  BY <1>1 DEF TypeOK
<1>7. FramesOK' /\ DeliveredInOrder'
  BY <1>1 DEF FramesOK, DeliveredInOrder
<1>8. FailsOnDefectOnly'
  <2>1. d + 1 \in d + 1..Len(sent)
    BY <1>2, <1>4
  <2>2. \E k \in d + 1..Len(sent) : ~Encodable(sent[k])
    BY <1>4, <1>5, <2>1
  <2> QED BY <1>1, <2>2 DEF FailsOnDefectOnly
<1> QED BY <1>1, <1>6, <1>7, <1>8 DEF IInv

-----------------------------------------------------------------------------
(* The theorems *)

\* The first state.
LEMMA InitInvariance == Init => IInv
<1> SUFFICES ASSUME Init PROVE IInv
  OBVIOUS
<1>1. /\ sent = <<>> /\ wire = <<>> /\ buffer = <<>> /\ consumed = 0 /\ failed = FALSE
      /\ delivered = <<>> /\ reader = "reading"
  BY DEF Init
<1>2. TypeOK
  <2>1. Len(<<>>) = 0 /\ <<>> \in Seq(Byte) /\ <<>> \in Seq(Frame)
    OBVIOUS
  <2>2. MaxFrames \in Nat /\ MaxBuffered \in Nat
    BY FramingAssumption
  <2>3. sent \in Seq(Frame) /\ Len(sent) <= MaxFrames /\ delivered \in Seq(Frame)
    BY <1>1, <2>1, <2>2
  <2>4. wire \in Seq(Byte) /\ buffer \in Seq(Byte) /\ Len(buffer) = 0
    BY <1>1, <2>1
  <2>5. consumed \in 0..Len(buffer) /\ Len(buffer) <= MaxBuffered
    BY <1>1, <2>2, <2>4
  <2> QED BY <1>1, <2>3, <2>4, <2>5 DEF TypeOK
<1>3. FramesOK /\ DeliveredInOrder /\ Paced /\ FailsOnDefectOnly
  <2>1. Len(sent) = 0 /\ Len(delivered) = 0
    BY <1>1
  <2>2. \A k \in 1..0 : FALSE
    OBVIOUS
  <2>3. FramesOK
    BY <2>1, <2>2 DEF FramesOK
  <2>4. DeliveredInOrder
    BY <2>1, <2>2 DEF DeliveredInOrder
  <2>5. Paced /\ FailsOnDefectOnly
    BY <1>1, <2>1 DEF Paced, FailsOnDefectOnly
  <2> QED BY <2>3, <2>4, <2>5
<1>4. StreamOK(Rest, sent, Len(delivered))
  <2> DEFINE r == Rest
  <2>1. Len(r) = Len(buffer) - consumed + Len(wire)
    BY <1>2, RestNow DEF Available
  <2>2. Len(buffer) = 0 /\ Len(wire) = 0 /\ Len(sent) = 0 /\ Len(delivered) = 0
    BY <1>1
  <2> HIDE DEF r
  <2>3. Len(r) = 0
    BY <1>1, <2>1, <2>2
  <2>4. \A i \in 1..Len(r) : FALSE
    BY <2>3
  <2>5. BytesSent(r, sent) /\ InOnePiece(r, sent) /\ OneAfterTheOther(r, sent)
    BY <2>4 DEF BytesSent, InOnePiece, OneAfterTheOther
  <2>6. Bounded(r, sent, Len(delivered))
    BY <2>2, <2>3 DEF Bounded
  <2> QED BY <2>5, <2>6 DEF StreamOK, r
<1> QED BY <1>1, <1>2, <1>3, <1>4 DEF IInv

\* Every step.
LEMMA NextInvariance == IInv /\ [Next]_vars => IInv'
<1> SUFFICES ASSUME IInv, [Next]_vars PROVE IInv'
  OBVIOUS
<1>1. CASE UNCHANGED vars
  <2>1. UNCHANGED <<sent, wire, buffer, consumed, failed, delivered, reader>>
    BY <1>1 DEF vars
  <2>2. Rest' = Rest
    BY <2>1 DEF Rest
  <2>3. TypeOK' /\ FramesOK' /\ DeliveredInOrder'
    BY <2>1 DEF IInv, TypeOK, FramesOK, DeliveredInOrder
  <2>4. reader' # "closed" => StreamOK(Rest, sent, Len(delivered))' /\ Paced'
    BY <2>1, <2>2 DEF IInv, Paced, AllSound
  <2>5. InFlight = 1 => FailsOnDefectOnly'
    BY <2>1 DEF IInv, FailsOnDefectOnly
  <2>6. failed' => reader' = "closed"
    BY <2>1 DEF IInv
  <2> QED BY <2>3, <2>4, <2>5, <2>6 DEF IInv
<1>2. ASSUME NEW f \in Frame, Encode(f) \/ Forge(f) \/ Follow(f) PROVE IInv'
  BY <1>2, SenderStep
<1>3. ASSUME NEW n \in 1..MaxRead, Push(n) PROVE IInv'
  BY <1>3, PushStep
<1>4. CASE DecoderNothing
  BY <1>4, DecoderNothingStep
<1>5. CASE DecoderFrame
  BY <1>5, DecoderFrameStep
<1>6. CASE DecoderError
  BY <1>6, DecoderErrorStep
<1>7. CASE Over
  BY <1>1, <1>7 DEF Over
<1> QED BY <1>1, <1>2, <1>3, <1>4, <1>5, <1>6, <1>7 DEF Next, Reading

\* The inductive invariant holds in every state.
THEOREM FramingInvariance == Spec => []IInv
<1>1. Init => IInv
  BY InitInvariance
<1>2. IInv /\ [Next]_vars => IInv'
  BY NextInvariance
<1> QED BY <1>1, <1>2, PTL DEF Spec

\* The types of the stream and of FrameDecoder's fields: consumed_ stays within
\* buffer_, and buffer_ within max_buffered.
THEOREM TypeCorrect == Spec => []TypeOK
<1>1. IInv => TypeOK
  BY DEF IInv
<1> QED BY <1>1, FramingInvariance, PTL

\* Whatever the sizes of frames, chunks and buffer, and however many frames are on
\* their way: what FrameDecoder::next has returned are the first frames sent, each
\* once, in order, and sound.
THEOREM FramesArriveInOrder == Spec => []DeliveredInOrder
<1>1. IInv => DeliveredInOrder
  BY DEF IInv
<1> QED BY <1>1, FramingInvariance, PTL

\* For a sender that awaits each answer, as run_publisher does, the decoder fails
\* only when a frame is defective: neither the chunks nor the bound of the buffer
\* make it fail.
THEOREM SoundStreamsSurvive == ASSUME InFlight = 1 PROVE Spec => []FailsOnDefectOnly
<1>1. IInv => FailsOnDefectOnly
  BY DEF IInv
<1> QED BY <1>1, FramingInvariance, PTL

=============================================================================
