------------------------------- MODULE Chunks -------------------------------
(***************************************************************************)
(* The chunk arithmetic of chunker.rs and engine.rs and what cmd_send makes *)
(* of it: how a file of `size` bytes is cut for a chunk size asked for.     *)
(***************************************************************************)
EXTENDS Integers

CONSTANTS
  MinChunk,     \* chunker.rs: 512 KiB
  MaxChunk      \* chunker.rs: 64 MiB

ASSUME ChunkAssumption ==
  MinChunk \in Nat \ {0} /\ MaxChunk \in Nat /\ MinChunk <= MaxChunk

Smaller(a, b) == IF a <= b THEN a ELSE b
Larger(a, b) == IF a >= b THEN a ELSE b

\* Chunker::new
Clamp(c) == Smaller(Larger(c, MinChunk), MaxChunk)

\* create_metadata raises the size that goes over the wire to the minimum and
\* leaves it unbounded above.
MetadataChunk(c) == Larger(c, MinChunk)

\* An empty file has one chunk, of length 0.
TotalChunks(c, size) == IF size = 0 THEN 1 ELSE (size + Clamp(c) - 1) \div Clamp(c)

ChunkOffset(c, i) == i * Clamp(c)

ChunkLength(c, size, i) == Smaller(Larger(size - ChunkOffset(c, i), 0), Clamp(c))

\* The chunk a session starts with, computed alike by both ends.
StartChunk(offset, c, total) == Smaller(offset \div c, total - 1)

\* The bytes cmd_send counts for its k-th acknowledgement, whatever chunk it names.
CountedLength(c, size, total, k) ==
  IF k = total - 1 /\ size % c # 0 THEN size % c ELSE c
=============================================================================
