---------------------------- MODULE ChunksProofs ----------------------------
(***************************************************************************)
(* The chunk arithmetic for every chunk size and every file: what chunker.rs *)
(* cuts is the file, each byte once.                                        *)
(***************************************************************************)
EXTENDS Chunks, TLAPS

USE ChunkAssumption

LEMMA ClampRange ==
  ASSUME NEW c \in Nat
  PROVE  Clamp(c) \in Nat \ {0} /\ Clamp(c) >= MinChunk /\ Clamp(c) <= MaxChunk
  BY DEF Clamp, Smaller, Larger

\* Both ends compute the same cut: the size in METADATA is clamped as the size
\* asked for is, and a size within the range is its own.
LEMMA ClampOfMetadata ==
  ASSUME NEW c \in Nat
  PROVE  /\ MetadataChunk(c) \in Nat \ {0} /\ MetadataChunk(c) >= MinChunk
         /\ Clamp(MetadataChunk(c)) = Clamp(c)
         /\ c >= MinChunk /\ c <= MaxChunk => Clamp(c) = c
  BY DEF MetadataChunk, Clamp, Smaller, Larger

LEMMA Quotient ==
  ASSUME NEW n \in Nat, NEW d \in Nat \ {0}
  PROVE  n \div d \in Nat /\ (n \div d) * d <= n /\ n < (n \div d) * d + d
  OBVIOUS

LEMMA Multiples ==
  ASSUME NEW i \in Nat, NEW j \in Nat, NEW d \in Nat \ {0}
  PROVE  /\ i * d \in Nat /\ (i + 1) * d = i * d + d
         /\ i <= j => i * d <= j * d
         /\ i < j => i * d + d <= j * d
  OBVIOUS

LEMMA QuotientBounded ==
  ASSUME NEW n \in Nat, NEW d \in Nat \ {0}, NEW k \in Nat, n < k * d
  PROVE  n \div d < k
<1>1. n \div d \in Nat /\ (n \div d) * d <= n
  BY Quotient
<1>2. ASSUME k <= n \div d PROVE FALSE
  <2>1. k * d <= (n \div d) * d /\ k * d \in Nat /\ (n \div d) * d \in Nat
    BY <1>1, <1>2, Multiples
  <2> QED
    BY <1>1, <2>1
<1> QED
  BY <1>1, <1>2

\* The last chunk is the one that reaches the end of the file.
LEMMA TotalReachesEnd ==
  ASSUME NEW c \in Nat, NEW size \in Nat
  PROVE  LET total == TotalChunks(c, size)
             d == Clamp(c)
         IN /\ total \in 1..Larger(size, 1)
            /\ (total - 1) * d \in Nat /\ total * d \in Nat
            /\ (total - 1) * d < Larger(size, 1) /\ size <= total * d
<1> DEFINE total == TotalChunks(c, size)
           d == Clamp(c)
<1>1. d \in Nat \ {0}
  BY ClampRange
<1> HIDE DEF d
<1>2. CASE size = 0
  <2>1. total = 1
    BY <1>2 DEF TotalChunks
  <2> HIDE DEF total
  <2> QED
    BY <1>1, <1>2, <2>1 DEF d, total, Larger
<1>3. CASE size # 0
  <2> DEFINE n == size + d - 1
  <2>1. total = n \div d /\ n \in Nat /\ Larger(size, 1) = size
    BY <1>1, <1>3 DEF TotalChunks, d, Larger
  <2> HIDE DEF total, n
  <2>2. total \in Nat /\ total * d <= n /\ n < total * d + d
    BY <1>1, <2>1, Quotient
  <2>3. total # 0
    BY <1>1, <1>3, <2>2 DEF n
  <2>4. (total - 1) * d = total * d - d /\ total * d \in Nat
    BY <1>1, <2>2, <2>3
  <2>5. total * d < size + d /\ size <= total * d
    BY <1>1, <2>2, <2>4 DEF n
  <2>6. total - 1 \in Nat /\ (total - 1) * d \in Nat /\ total - 1 <= (total - 1) * d
    BY <1>1, <2>2, <2>3
  <2>7. (total - 1) * d < size
    BY <1>1, <2>4, <2>5
  <2>8. total <= size
    BY <2>2, <2>6, <2>7
  <2> QED
    BY <2>1, <2>2, <2>3, <2>4, <2>5, <2>6, <2>7, <2>8 DEF d, total
<1> QED
  BY <1>2, <1>3

\* A chunk lies within the file; only an empty file has an empty one.
LEMMA ChunkInside ==
  ASSUME NEW c \in Nat, NEW size \in Nat, NEW i \in 0..(TotalChunks(c, size) - 1)
  PROVE  /\ ChunkOffset(c, i) \in Nat /\ ChunkLength(c, size, i) \in Nat
         /\ ChunkOffset(c, i) + ChunkLength(c, size, i) = Smaller(ChunkOffset(c, i) + Clamp(c), size)
         /\ ChunkOffset(c, i) <= size
<1> DEFINE total == TotalChunks(c, size)
           d == Clamp(c)
<1>1. d \in Nat \ {0}
  BY ClampRange
<1>2. total \in 1..Larger(size, 1) /\ (total - 1) * d < Larger(size, 1) /\ (total - 1) * d \in Nat
  BY TotalReachesEnd
<1> HIDE DEF d, total
<1>3. i \in Nat /\ total - 1 \in Nat /\ i <= total - 1
  BY <1>2 DEF total, Larger
<1>4. i * d \in Nat /\ i * d <= (total - 1) * d
  BY <1>1, <1>3, Multiples
<1>5. i * d <= size
  BY <1>2, <1>4 DEF Larger
<1> QED
  BY <1>1, <1>4, <1>5 DEF ChunkOffset, ChunkLength, Smaller, Larger, d

\* What chunker.rs cuts, whatever size was asked for, covers the file, and each
\* byte once: a receiver that places every chunk at its offset has the file.
THEOREM ChunksTile ==
  ASSUME NEW c \in Nat, NEW size \in Nat, NEW p \in 1..size
  PROVE  LET Holds(i) == p \in (ChunkOffset(c, i) + 1)..(ChunkOffset(c, i) + ChunkLength(c, size, i))
         IN /\ \E i \in 0..(TotalChunks(c, size) - 1) : Holds(i)
            /\ \A i, j \in 0..(TotalChunks(c, size) - 1) : Holds(i) /\ Holds(j) => i = j
<1> DEFINE total == TotalChunks(c, size)
           d == Clamp(c)
           Holds(i) == p \in (ChunkOffset(c, i) + 1)..(ChunkOffset(c, i) + ChunkLength(c, size, i))
<1>1. d \in Nat \ {0}
  BY ClampRange
<1>2. total \in Nat \ {0} /\ size <= total * d /\ total * d \in Nat
  <2>1. total \in 1..Larger(size, 1) /\ size <= total * d /\ total * d \in Nat
    BY TotalReachesEnd
  <2> QED
    BY <2>1 DEF Larger
<1>3. ASSUME NEW i \in 0..(total - 1)
      PROVE  i \in Nat /\ i * d \in Nat /\ (Holds(i) <=> i * d < p /\ p <= i * d + d)
  <2>1. /\ ChunkOffset(c, i) \in Nat /\ ChunkLength(c, size, i) \in Nat
        /\ ChunkOffset(c, i) + ChunkLength(c, size, i) = Smaller(ChunkOffset(c, i) + d, size)
    BY ChunkInside
  <2>2. ChunkOffset(c, i) = i * d
    BY DEF ChunkOffset
  <2> HIDE DEF d, total
  <2>3. i \in Nat
    BY <1>2
  <2> QED
    BY <1>1, <2>1, <2>2, <2>3 DEF Smaller
<1> HIDE DEF d, total, Holds
<1>4. \E i \in 0..(total - 1) : Holds(i)
  <2> DEFINE i == (p - 1) \div d
  <2>1. p - 1 \in Nat /\ p - 1 < total * d
    BY <1>2
  <2>2. i \in Nat /\ i * d <= p - 1 /\ p - 1 < i * d + d
    BY <1>1, <2>1, Quotient
  <2>3. i < total
    BY <1>1, <1>2, <2>1, QuotientBounded
  <2> HIDE DEF i
  <2>4. i \in 0..(total - 1)
    BY <1>2, <2>2, <2>3
  <2>5. i * d < p /\ p <= i * d + d
    BY <1>1, <1>3, <2>2, <2>4
  <2> QED
    BY <1>3, <2>4, <2>5
<1>5. ASSUME NEW i \in 0..(total - 1), NEW j \in 0..(total - 1), Holds(i), Holds(j) PROVE ~(i < j)
  <2>1. i \in Nat /\ j \in Nat /\ i * d \in Nat /\ j * d \in Nat
    BY <1>3
  <2>2. p <= i * d + d /\ j * d < p
    BY <1>3, <1>5
  <2>3. i < j => i * d + d <= j * d
    BY <1>1, <2>1, Multiples
  <2> QED
    BY <1>1, <2>1, <2>2, <2>3
<1>6. \A i, j \in 0..(total - 1) : Holds(i) /\ Holds(j) => i = j
  BY <1>2, <1>5
<1> QED
  BY <1>4, <1>6 DEF Holds, total

\* Where a session begins is one of its chunks, whatever offset the record gives.
LEMMA StartInRange ==
  ASSUME NEW offset \in Nat, NEW c \in Nat \ {0}, NEW total \in Nat \ {0}
  PROVE  StartChunk(offset, c, total) \in 0..(total - 1)
<1>1. offset \div c \in Nat
  BY Quotient
<1> QED
  BY <1>1 DEF StartChunk, Smaller

LEMMA CountedType ==
  ASSUME NEW c \in Nat \ {0}, NEW size \in Nat, NEW total, NEW k
  PROVE  CountedLength(c, size, total, k) \in Nat
  BY DEF CountedLength
=============================================================================
