---------------------------- MODULE BufferLemmas ----------------------------
(***************************************************************************)
(* Lemmas shared by the proofs about the buffers of Lab 5 and Lab 6: how   *)
(* many processes are at a set of labels and what one step of one process  *)
(* does to that number; and what moving the ends of a segment of a ring,   *)
(* or writing the slot behind it, does to the sequence it holds.           *)
(***************************************************************************)
EXTENDS Integers, Sequences, Counting, Ring, FiniteSetTheorems, SequenceTheorems, TLAPS

\* 1 if x is in S, otherwise 0.
One(x, S) == IF x \in S THEN 1 ELSE 0

\* g differs from f at p only.
SameExcept(f, g, P, p) == \A q \in P \ {p} : g[q] = f[q]

\* The number of processes at the labels in S is a natural number.
LEMMA NumberType ==
    ASSUME NEW P, IsFiniteSet(P), NEW f, NEW S
    PROVE  NumAt(f, P, S) \in Nat /\ IsFiniteSet({q \in P : f[q] \in S})
<1>1. {q \in P : f[q] \in S} \in SUBSET P
  OBVIOUS
<1>2. QED
  BY <1>1, FS_Subset, FS_CardinalityType DEF NumAt

\* A process that moves from label f[p] to label g[p] changes the number of
\* processes at S by what it adds at g[p] less what it takes away at f[p].
LEMMA NumberAfterMove ==
    ASSUME NEW P, IsFiniteSet(P), NEW f, NEW g, NEW p \in P,
           SameExcept(f, g, P, p), NEW S
    PROVE  NumAt(g, P, S) = NumAt(f, P, S) + One(g[p], S) - One(f[p], S)
<1> DEFINE A == {q \in P : f[q] \in S}
           B == {q \in P : g[q] \in S}
<1>1. IsFiniteSet(A) /\ Cardinality(A) \in Nat
  <2>1. A \in SUBSET P
    OBVIOUS
  <2>2. QED
    BY <2>1, FS_Subset, FS_CardinalityType
<1>2. p \in A <=> f[p] \in S
  OBVIOUS
<1>3. Cardinality(B) = Cardinality(A) + One(g[p], S) - One(f[p], S)
  <2>1. CASE g[p] \in S
    <3>1. B = A \cup {p}
      BY <2>1 DEF SameExcept
    <3>2. Cardinality(B) = IF p \in A THEN Cardinality(A) ELSE Cardinality(A) + 1
      BY <3>1, <1>1, FS_AddElement
    <3>3. QED
      BY <1>1, <1>2, <2>1, <3>2 DEF One
  <2>2. CASE g[p] \notin S
    <3>1. B = A \ {p}
      BY <2>2 DEF SameExcept
    <3>2. Cardinality(B) = IF p \in A THEN Cardinality(A) - 1 ELSE Cardinality(A)
      BY <3>1, <1>1, FS_RemoveElement
    <3>3. QED
      BY <1>1, <1>2, <2>2, <3>2 DEF One
  <2>3. QED
    BY <2>1, <2>2
<1>4. QED
  BY <1>3 DEF NumAt

\* A step that moves no process of P does not change the number.
LEMMA NumberUnmoved ==
    ASSUME NEW P, NEW f, NEW g, \A q \in P : g[q] = f[q], NEW S
    PROVE  NumAt(g, P, S) = NumAt(f, P, S)
<1>1. {q \in P : g[q] \in S} = {q \in P : f[q] \in S}
  OBVIOUS
<1>2. QED
  BY <1>1 DEF NumAt

\* If at most one process is at S, two processes at S are the same one.
LEMMA AtMostOne ==
    ASSUME NEW P, IsFiniteSet(P), NEW f, NEW S,
           NumAt(f, P, S) <= 1,
           NEW p \in P, NEW q \in P, f[p] \in S, f[q] \in S
    PROVE  p = q
<1> DEFINE A == {r \in P : f[r] \in S}
<1>1. IsFiniteSet(A) /\ Cardinality(A) \in Nat
  <2>1. A \in SUBSET P
    OBVIOUS
  <2>2. QED
    BY <2>1, FS_Subset, FS_CardinalityType
<1>2. SUFFICES ASSUME p # q PROVE FALSE
  OBVIOUS
<1>3. /\ IsFiniteSet(A \ {p})
      /\ Cardinality(A \ {p}) = Cardinality(A) - 1
  BY <1>1, FS_RemoveElement
<1>4. Cardinality(A \ {p}) = 0
  <2>1. Cardinality(A \ {p}) \in Nat
    BY <1>3, FS_CardinalityType
  <2>2. QED
    BY <2>1, <1>1, <1>3 DEF NumAt
<1>5. A \ {p} = {}
  BY <1>3, <1>4, FS_EmptySet
<1>6. q \in A \ {p}
  BY <1>2
<1>7. QED
  BY <1>5, <1>6

\* If some process is at S, the number of processes at S is at least one.
LEMMA AtLeastOne ==
    ASSUME NEW P, IsFiniteSet(P), NEW f, NEW S, NEW p \in P, f[p] \in S
    PROVE  NumAt(f, P, S) >= 1
<1> DEFINE A == {r \in P : f[r] \in S}
<1>1. IsFiniteSet(A) /\ Cardinality(A) \in Nat
  <2>1. A \in SUBSET P
    OBVIOUS
  <2>2. QED
    BY <2>1, FS_Subset, FS_CardinalityType
<1>2. A # {}
  OBVIOUS
<1>3. Cardinality(A) # 0
  BY <1>1, <1>2, FS_EmptySet
<1>4. QED
  BY <1>1, <1>3 DEF NumAt

\* If no process is at S, the number of processes at S is zero.
LEMMA NoneThere ==
    ASSUME NEW P, NEW f, NEW S, \A q \in P : f[q] \notin S
    PROVE  NumAt(f, P, S) = 0
<1>1. {q \in P : f[q] \in S} = {}
  OBVIOUS
<1>2. QED
  BY <1>1, FS_EmptySet DEF NumAt

-----------------------------------------------------------------------------
\* An index taken modulo K is a slot of the ring.
LEMMA IndexInRing ==
    ASSUME NEW K \in Nat \ {0}, NEW x \in Nat
    PROVE  x % K \in 0 .. K - 1
OBVIOUS

\* Going j <= K slots on from slot x wraps around at most once.
LEMMA IndexAfter ==
    ASSUME NEW K \in Nat \ {0}, NEW x \in 0 .. K - 1, NEW j \in 0 .. K
    PROVE  (x + j) % K = IF x + j < K THEN x + j ELSE x + j - K
OBVIOUS

\* Different distances below K from one slot lead to different slots.
LEMMA IndicesDiffer ==
    ASSUME NEW K \in Nat \ {0}, NEW x \in 0 .. K - 1,
           NEW j \in 0 .. K - 1, NEW k \in 0 .. K - 1, j # k
    PROVE  (x + j) % K # (x + k) % K
<1> DEFINE a == (x + j) % K
           b == (x + k) % K
<1>1. j \in 0 .. K /\ k \in 0 .. K
  OBVIOUS
<1>2. a = IF x + j < K THEN x + j ELSE x + j - K
  BY <1>1, IndexAfter
<1>3. b = IF x + k < K THEN x + k ELSE x + k - K
  BY <1>1, IndexAfter
<1> HIDE DEF a, b
<1>4. a # b
  BY <1>2, <1>3
<1>5. QED
  BY <1>4 DEF a, b

\* One slot on from n slots on, and n slots on from one slot on, is n + 1
\* slots on.
LEMMA IndexShift ==
    ASSUME NEW K \in Nat \ {0}, NEW x \in 0 .. K - 1, NEW n \in 0 .. K - 1
    PROVE  /\ (((x + n) % K) + 1) % K = (x + (n + 1)) % K
           /\ (((x + 1) % K) + n) % K = (x + (n + 1)) % K
<1> DEFINE a == (x + n) % K
           b == (x + 1) % K
           c == (x + (n + 1)) % K
           d == (a + 1) % K
           e == (b + n) % K
<1>1. /\ x + n \in Nat /\ x + 1 \in Nat
      /\ n \in 0 .. K /\ 1 \in 0 .. K /\ n + 1 \in 0 .. K
  OBVIOUS
<1>2. a \in 0 .. K - 1 /\ b \in 0 .. K - 1
  BY <1>1, IndexInRing
<1>3. a = IF x + n < K THEN x + n ELSE x + n - K
  BY <1>1, IndexAfter
<1>4. b = IF x + 1 < K THEN x + 1 ELSE x + 1 - K
  BY <1>1, IndexAfter
<1>5. c = IF x + (n + 1) < K THEN x + (n + 1) ELSE x + (n + 1) - K
  BY <1>1, IndexAfter
<1> HIDE DEF a, b, c
<1>6. d = IF a + 1 < K THEN a + 1 ELSE a + 1 - K
  BY <1>1, <1>2, IndexAfter
<1>7. e = IF b + n < K THEN b + n ELSE b + n - K
  BY <1>1, <1>2, IndexAfter
<1> HIDE DEF d, e
<1>8. d = c
  BY <1>2, <1>3, <1>5, <1>6
<1>9. e = c
  BY <1>2, <1>4, <1>5, <1>7
<1>10. QED
  BY <1>8, <1>9 DEF a, b, c, d, e

\* ring is a ring of K elements of S.
IsRing(ring, K, S) == K \in Nat \ {0} /\ ring \in [0 .. K - 1 -> S]

\* first is a slot of a ring of K, and n slots from there on are not too many.
IsSegment(K, first, n) == first \in 0 .. K - 1 /\ n \in Nat /\ n <= K

\* A segment is a sequence of its length.
LEMMA SegmentType ==
    ASSUME NEW K, NEW S, NEW ring, IsRing(ring, K, S),
           NEW first, NEW n, IsSegment(K, first, n)
    PROVE  /\ Segment(ring, K, first, n) \in Seq(S)
           /\ Len(Segment(ring, K, first, n)) = n
<1> USE DEF IsRing, IsSegment
<1>1. ASSUME NEW j \in 1 .. n PROVE ring[(first + j - 1) % K] \in S
  <2>1. first + j - 1 \in Nat
    OBVIOUS
  <2>2. (first + j - 1) % K \in 0 .. K - 1
    BY <2>1, IndexInRing
  <2>3. QED
    BY <2>2
<1>2. Segment(ring, K, first, n) \in [1 .. n -> S]
  BY <1>1 DEF Segment
<1>3. Segment(ring, K, first, n) \in Seq(S)
  BY <1>2, SeqDef
<1>4. QED
  BY <1>2, <1>3, LenProperties DEF Segment

\* No slots, no elements.
LEMMA SegmentEmpty ==
    ASSUME NEW K, NEW S, NEW ring, IsRing(ring, K, S), NEW first \in 0 .. K - 1
    PROVE  Segment(ring, K, first, 0) = << >>
<1>1. IsSegment(K, first, 0)
  BY DEF IsSegment, IsRing
<1>2. QED
  BY <1>1, SegmentType, EmptySeq

\* Writing the slot behind a segment leaves the segment as it is.
LEMMA SegmentKept ==
    ASSUME NEW K, NEW S, NEW ring, IsRing(ring, K, S),
           NEW first, NEW n, IsSegment(K, first, n), n < K,
           NEW new, SameExcept(ring, new, 0 .. K - 1, (first + n) % K)
    PROVE  Segment(new, K, first, n) = Segment(ring, K, first, n)
<1> USE DEF IsRing, IsSegment
<1>1. ASSUME NEW j \in 1 .. n
      PROVE  new[(first + j - 1) % K] = ring[(first + j - 1) % K]
  <2>1. PICK m \in 0 .. K - 1 : m = j - 1
    OBVIOUS
  <2>2. first + j - 1 = first + m /\ m # n /\ n \in 0 .. K - 1
    BY <2>1
  <2>3. (first + m) % K # (first + n) % K
    BY <2>2, IndicesDiffer
  <2>4. (first + m) % K \in 0 .. K - 1
    <3>1. first + m \in Nat
      OBVIOUS
    <3>2. QED
      BY <3>1, IndexInRing
  <2>5. new[(first + m) % K] = ring[(first + m) % K]
    BY <2>3, <2>4 DEF SameExcept
  <2>6. QED
    BY <2>2, <2>5
<1>2. QED
  BY <1>1 DEF Segment

\* A segment grows at its end by the slot behind it.
LEMMA SegmentGrows ==
    ASSUME NEW K, NEW S, NEW ring, IsRing(ring, K, S),
           NEW first, NEW n, IsSegment(K, first, n), n < K
    PROVE  Segment(ring, K, first, n + 1)
             = Append(Segment(ring, K, first, n), ring[(first + n) % K])
<1> DEFINE old == Segment(ring, K, first, n)
           new == Segment(ring, K, first, n + 1)
           t == ring[(first + n) % K]
<1>1. old \in Seq(S) /\ Len(old) = n
  BY SegmentType
<1>2. IsSegment(K, first, n + 1)
  BY DEF IsRing, IsSegment
<1>3. new \in Seq(S) /\ Len(new) = n + 1
  BY <1>2, SegmentType
<1>4. t \in S
  <2>1. first + n \in Nat
    BY DEF IsRing, IsSegment
  <2>2. QED
    BY <2>1, IndexInRing DEF IsRing
<1>5. \A j \in 1 .. n : new[j] = old[j]
  BY DEF Segment, IsRing, IsSegment
<1>6. new[n + 1] = t
  <2>1. first + (n + 1) - 1 = first + n /\ n + 1 \in 1 .. n + 1
    BY DEF IsRing, IsSegment
  <2>2. new[n + 1] = ring[(first + (n + 1) - 1) % K]
    BY <2>1 DEF Segment
  <2>3. QED
    BY <2>1, <2>2
<1> HIDE DEF old, new, t
<1>7. /\ Append(old, t) \in Seq(S) /\ Len(Append(old, t)) = n + 1
      /\ \A j \in 1 .. n : Append(old, t)[j] = old[j]
      /\ Append(old, t)[n + 1] = t
  BY <1>1, <1>4, AppendProperties
<1>8. \A j \in 1 .. n + 1 : new[j] = Append(old, t)[j]
  <2>1. \A j \in 1 .. n + 1 : j \in 1 .. n \/ j = n + 1
    BY DEF IsSegment
  <2>2. QED
    BY <1>5, <1>6, <1>7, <2>1
<1>9. new = Append(old, t)
  BY <1>3, <1>7, <1>8, SeqEqual
<1>10. QED
  BY <1>9 DEF old, new, t

\* Without its first slot a segment is its own tail.
LEMMA SegmentShrinks ==
    ASSUME NEW K, NEW S, NEW ring, IsRing(ring, K, S),
           NEW first, NEW n, IsSegment(K, first, n), n > 0
    PROVE  /\ Segment(ring, K, first, n) # << >>
           /\ Head(Segment(ring, K, first, n)) = ring[first]
           /\ Segment(ring, K, (first + 1) % K, n - 1)
                = Tail(Segment(ring, K, first, n))
<1> DEFINE old == Segment(ring, K, first, n)
           second == (first + 1) % K
           new == Segment(ring, K, second, n - 1)
<1>1. old \in Seq(S) /\ Len(old) = n
  BY SegmentType
<1>2. IsSegment(K, second, n - 1)
  <2>1. first + 1 \in Nat /\ n - 1 \in Nat /\ n - 1 <= K
    BY DEF IsRing, IsSegment
  <2>2. second \in 0 .. K - 1
    BY <2>1, IndexInRing DEF IsRing
  <2>3. QED
    BY <2>1, <2>2 DEF IsSegment
<1>3. new \in Seq(S) /\ Len(new) = n - 1
  BY <1>2, SegmentType
<1>4. old[1] = ring[first]
  <2>1. first % K = first
    BY DEF IsRing, IsSegment
  <2>2. 1 \in 1 .. n /\ first + 1 - 1 = first
    BY DEF IsSegment
  <2>3. old[1] = ring[(first + 1 - 1) % K]
    BY <2>2 DEF Segment
  <2>4. QED
    BY <2>1, <2>2, <2>3
<1>5. ASSUME NEW j \in 1 .. n - 1 PROVE new[j] = old[j + 1]
  <2>1. PICK m \in 0 .. K - 1 : m = j - 1
    BY DEF IsRing, IsSegment
  <2>2. /\ second + j - 1 = second + m
        /\ first + (j + 1) - 1 = first + (m + 1) /\ j + 1 \in 1 .. n
    BY <1>2, <2>1 DEF IsRing, IsSegment
  <2>3. (second + m) % K = (first + (m + 1)) % K
    BY IndexShift DEF IsRing, IsSegment
  <2>4. new[j] = ring[(second + j - 1) % K]
    BY DEF Segment
  <2>5. old[j + 1] = ring[(first + (j + 1) - 1) % K]
    BY <2>2 DEF Segment
  <2>6. QED
    BY <2>2, <2>3, <2>4, <2>5
<1> HIDE DEF old, new, second
<1>6. old # << >>
  BY <1>1, EmptySeq DEF IsSegment
<1>7. /\ Head(old) = old[1]
      /\ Tail(old) \in Seq(S) /\ Len(Tail(old)) = n - 1
      /\ \A j \in 1 .. n - 1 : Tail(old)[j] = old[j + 1]
  BY <1>1, <1>6, HeadTailProperties
<1>8. new = Tail(old)
  BY <1>3, <1>5, <1>7, SeqEqual
<1>9. QED
  BY <1>4, <1>6, <1>7, <1>8 DEF old, new, second

\* A sequence over a set is one over every larger set.
LEMMA SeqInLarger ==
    ASSUME NEW S, NEW T, S \subseteq T, NEW s \in Seq(S)
    PROVE  s \in Seq(T)
<1>1. Len(s) \in Nat /\ s \in [1 .. Len(s) -> S]
  BY LenProperties
<1>2. s \in [1 .. Len(s) -> T]
  BY <1>1
<1>3. QED
  BY <1>1, <1>2, SeqDef
=============================================================================
