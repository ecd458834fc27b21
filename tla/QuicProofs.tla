----------------------------- MODULE QuicProofs -----------------------------
(***************************************************************************)
(* Proofs about QuicTransfer for every file size, chunk size and capacity,  *)
(* any number of pauses, both ways to cancel and every set of events.       *)
(***************************************************************************)
EXTENDS QuicProgress, SequenceTheorems, TLAPS

-----------------------------------------------------------------------------
(* The inductive invariant *)

\* The units of the file from a to b. Offsets beyond its end name nothing.
Part(a, b) == SubSeq(Source, a + 1, b)
Cut(a, b) == a \in Nat /\ b \in Nat /\ a <= b /\ (b <= Size \/ a = b)

\* The chunks in a channel are the units from a to b, in order.
Tiles(ch, a, b) ==
  \E seam \in [0..Len(ch) -> Nat] :
    /\ seam[0] = a /\ seam[Len(ch)] = b
    /\ \A i \in 1..Len(ch) : Cut(seam[i - 1], seam[i]) /\ ch[i] = Part(seam[i - 1], seam[i])

Before == IF isResume THEN prior ELSE <<>>
Kept == Prefix(Before, offset)

\* How far the sender, its reader task and the handshake have come together.
SenderOrder ==
  /\ sPc = "done" <=> sResult # "none"
  /\ sPc = "connect" => rPc = "idle" /\ conn = "none"
  /\ sPc \in {"connect", "await"} => rdPc = "off"
  /\ rdPc = "off" => /\ sPc \in {"connect", "await", "done"} /\ sResult # "ok"
                     /\ sHeld = <<>> /\ dataCh = <<>> /\ stream = <<>>
  /\ rdPc # "off" => start = offset /\ wrPc # "off" /\ reply.kind # "accepted"
  /\ reply.kind = "accepted" => reply.from = offset /\ wrPc # "off"
  /\ sPc \notin {"write", "done"} => sHeld = <<>>
  /\ sPc = "join" \/ sResult = "ok" => sHeld = <<>> /\ dataCh = <<>> /\ rdPc \in {"ok", "failed"}
  /\ sResult = "ok" => rdPc = "ok"
  /\ rdPc = "ok" /\ (sPc # "done" \/ sResult = "ok") => rdNext >= Size
  /\ fin \/ reason = "complete" => sPc \in {"join", "done"}
  /\ reply.kind = "refused" \/ sResult = "rejected" => rResult = "refused"

\* How far the receiver and its writer task have come.
ReceiverOrder ==
  /\ rPc = "done" <=> rResult # "none"
  /\ wrPc = "off" => /\ rPc \in {"idle", "request", "prompt", "respond", "done"}
                     /\ rResult \in {"none", "failed", "refused"} /\ disk = prior
                     /\ offset = 0 /\ ~isResume /\ rHash = <<>> /\ diskCh = <<>>
  /\ wrPc # "off" => rPc \in ReceiverLoop \cup {"drain", "done"} /\ rResult # "refused"
  /\ wrPc \in {"opening", "run"} => rPc # "done"
  /\ wrPc = "ok" => rPc \notin ReceiverLoop /\ diskCh = <<>>
  /\ wrPc = "opening" => rHash = <<>> /\ (isResume => disk = prior)
  /\ wrPc = "run" => disk \in Seq(Unit)
  /\ IF isResume THEN prior \in Seq(Unit) /\ offset \in 0..Len(prior) ELSE offset = 0
  /\ rPc # "forward" => rHeld = <<>>
  /\ reason # "none" <=> rPc = "drain" \/ (rPc = "done" /\ wrPc # "off")
  /\ reason = "complete" => stream = <<>>
  /\ rResult = "complete" => reason = "complete" /\ wrPc = "ok"

\* What the writer task has hashed and stored are the units up to w.
Stored(w) ==
  IF wrPc \in {"run", "ok"}
  THEN /\ Cut(offset, w) /\ rHash = Kept \o Part(offset, w)
       /\ rPc # "done" \/ rResult = "complete" => disk = Before \o Part(offset, w)
  ELSE w = offset

\* The receiver has taken the units up to e from the stream.
Received(e) ==
  \E w, d \in Nat : Stored(w) /\ Tiles(diskCh, w, d) /\ Cut(d, e) /\ rHeld = Part(d, e)

\* The sender has the units from g on before it, up to where its reader is.
Sending(g) ==
  IF rdPc \in {"off", "opening"} THEN g = offset /\ dataCh = <<>> /\ sHeld = <<>>
  ELSE \E h \in Nat : Cut(g, h) /\ sHeld = Part(g, h) /\ Tiles(dataCh, h, rdNext)

\* Unless something has failed, no unit is lost, doubled or out of place; and none
\* was lost on the way either if the connection is open or the stream has ended.
Voided == rdPc = "failed" \/ wrPc = "failed" \/ reason \in {"failed", "cancelled"}
Flow ==
  \E e, f, g \in Nat :
    /\ Received(e) /\ Cut(e, f) /\ stream = Part(e, f) /\ Sending(g)
    /\ conn # "closed" \/ fin \/ reason = "complete" => f = g

SenderHash ==
  rdPc \in {"run", "ok"} =>
    /\ Cut(start, rdNext)
    /\ sHash = Prefix(Source, Smaller(start, Size)) \o Part(start, rdNext)

Inv == /\ TypeOK /\ SenderOrder /\ ReceiverOrder /\ LeakOnlyOnFailure
       /\ SenderHash /\ (Voided \/ Flow)
-----------------------------------------------------------------------------
(* Facts about the file and its parts *)

LEMMA FileIsAFile ==
  ASSUME NEW v \in Nat, NEW n \in Nat
  PROVE  FileOf(v, n) \in Seq(Unit) /\ Len(FileOf(v, n)) = n
<1>1. FileOf(v, n) \in [1..n -> Unit]
  BY DEF FileOf, Unit
<1>2. FileOf(v, n) \in Seq(Unit)
  BY <1>1, SeqDef
<1>3. DOMAIN FileOf(v, n) = 1..n /\ DOMAIN FileOf(v, n) = 1..Len(FileOf(v, n))
      /\ Len(FileOf(v, n)) \in Nat
  BY <1>1, <1>2, LenProperties
<1> QED
  BY <1>2, <1>3

LEMMA SourceType == Source \in Seq(Unit) /\ Len(Source) = Size /\ Size \in Nat
  BY FileIsAFile, SizeAssumption DEF Source

LEMMA FilesExist == \A f \in Seq(Unit) : f # NoFile
  BY NoFileAssumption, Zenon DEF Unit

\* A prefix of a sequence, and what is left of it.
LEMMA PrefixType ==
  ASSUME NEW S, NEW s \in Seq(S), NEW n \in 0..Len(s)
  PROVE  /\ Prefix(s, n) \in Seq(S) /\ Len(Prefix(s, n)) = n
         /\ \A i \in 1..n : Prefix(s, n)[i] = s[i]
         /\ Drop(s, n) \in Seq(S) /\ Len(Drop(s, n)) = Len(s) - n
         /\ \A i \in 1..(Len(s) - n) : Drop(s, n)[i] = s[n + i]
<1>1. \A i \in 1..Len(s) : s[i] \in S
  BY ElementOfSeq
<1>2. Len(s) \in Nat /\ n \in Nat /\ n <= Len(s)
  OBVIOUS
<1>3. /\ Prefix(s, n) \in Seq(S) /\ Len(Prefix(s, n)) = n
      /\ \A i \in 1..n : Prefix(s, n)[i] = s[i]
  <2>1. \A i \in 1..n : s[i] \in S
    BY <1>1, <1>2
  <2> QED
    BY <2>1, <1>2, SubSeqProperties DEF Prefix
<1>4. /\ Drop(s, n) \in Seq(S) /\ Len(Drop(s, n)) = Len(s) - n
      /\ \A i \in 1..(Len(s) - n) : Drop(s, n)[i] = s[n + i]
  <2>1. \A i \in (n + 1)..Len(s) : s[i] \in S
    BY <1>1, <1>2
  <2>2. n + 1 \in Int /\ Len(s) \in Int
    BY <1>2
  <2>3. /\ SubSeq(s, n + 1, Len(s)) \in Seq(S)
        /\ Len(SubSeq(s, n + 1, Len(s))) = IF n + 1 <= Len(s) THEN Len(s) - (n + 1) + 1 ELSE 0
        /\ \A i \in 1..(Len(s) - (n + 1) + 1) : SubSeq(s, n + 1, Len(s))[i] = s[n + 1 + i - 1]
    BY <2>1, <2>2, SubSeqProperties
  <2>4. \A i \in 1..(Len(s) - n) : n + 1 + i - 1 = n + i /\ Len(s) - (n + 1) + 1 = Len(s) - n
    BY <1>2
  <2>5. (IF n + 1 <= Len(s) THEN Len(s) - (n + 1) + 1 ELSE 0) = Len(s) - n
    BY <1>2
  <2> QED
    BY <2>3, <2>4, <2>5, <1>2 DEF Drop
<1> QED
  BY <1>3, <1>4

LEMMA PrefixesType ==
  ASSUME NEW S, NEW s \in Seq(S), NEW p \in Prefixes(s)
  PROVE  p \in Seq(S) /\ \E n \in 0..Len(s) : p = Prefix(s, n)
  BY PrefixType DEF Prefixes

LEMMA PartType ==
  ASSUME NEW a, NEW b, Cut(a, b)
  PROVE  /\ Part(a, b) \in Seq(Unit) /\ Len(Part(a, b)) = b - a
         /\ \A i \in 1..(b - a) : Part(a, b)[i] = Source[a + i]
<1>1. a \in Nat /\ b \in Nat /\ a <= b /\ (b <= Size \/ a = b)
  BY DEF Cut
<1>2. \A i \in (a + 1)..b : Source[i] \in Unit
  <2>1. \A i \in 1..Size : Source[i] \in Unit
    BY SourceType, ElementOfSeq
  <2> QED
    BY <1>1, <2>1, SourceType
<1>3. /\ Part(a, b) \in Seq(Unit)
      /\ Len(Part(a, b)) = IF a + 1 <= b THEN b - (a + 1) + 1 ELSE 0
      /\ \A i \in 1..(b - (a + 1) + 1) : Part(a, b)[i] = Source[a + 1 + i - 1]
  BY <1>1, <1>2, SubSeqProperties DEF Part
<1>4. (IF a + 1 <= b THEN b - (a + 1) + 1 ELSE 0) = b - a /\ b - (a + 1) + 1 = b - a
      /\ \A i \in Nat : a + 1 + i - 1 = a + i
  BY <1>1
<1> QED
  BY <1>1, <1>3, <1>4

LEMMA NoPart ==
  ASSUME NEW a, NEW b, Cut(a, b)
  PROVE  Part(a, b) = <<>> <=> a = b
<1>1. a \in Nat /\ b \in Nat
  BY DEF Cut
<1>2. Part(a, b) = <<>> <=> Len(Part(a, b)) = 0
  BY PartType, EmptySeq
<1> QED
  BY <1>1, <1>2, PartType

LEMMA CutSelf == \A a \in Nat : Cut(a, a) /\ Part(a, a) = <<>>
  BY NoPart DEF Cut

LEMMA PartJoin ==
  ASSUME NEW a, NEW b, NEW c, Cut(a, b), Cut(b, c)
  PROVE  Cut(a, c) /\ Part(a, b) \o Part(b, c) = Part(a, c)
<1>1. /\ a \in Nat /\ b \in Nat /\ c \in Nat /\ a <= b /\ b <= c
      /\ (b <= Size \/ a = b) /\ (c <= Size \/ b = c)
  BY DEF Cut
<1>2. Cut(a, c)
  BY <1>1, SourceType DEF Cut
<1> DEFINE s == Part(a, b)
           t == Part(b, c)
           u == Part(a, c)
<1>3. s \in Seq(Unit) /\ Len(s) = b - a /\ \A i \in 1..(b - a) : s[i] = Source[a + i]
  BY PartType
<1>4. t \in Seq(Unit) /\ Len(t) = c - b /\ \A i \in 1..(c - b) : t[i] = Source[b + i]
  BY PartType
<1>5. u \in Seq(Unit) /\ Len(u) = c - a /\ \A i \in 1..(c - a) : u[i] = Source[a + i]
  BY <1>2, PartType
<1>6. s \o t \in Seq(Unit) /\ Len(s \o t) = Len(s) + Len(t)
      /\ \A i \in 1..(Len(s) + Len(t)) : (s \o t)[i] = IF i <= Len(s) THEN s[i] ELSE t[i - Len(s)]
  BY <1>3, <1>4, ConcatProperties
<1> HIDE DEF s, t, u
<1>7. Len(s \o t) = Len(u)
  BY <1>1, <1>3, <1>4, <1>5, <1>6
<1>8. \A i \in 1..Len(s \o t) : (s \o t)[i] = u[i]
  <2> SUFFICES ASSUME NEW i \in 1..Len(s \o t) PROVE (s \o t)[i] = u[i]
    OBVIOUS
  <2>1. i \in 1..(c - a) /\ i \in 1..(Len(s) + Len(t))
    BY <1>1, <1>3, <1>4, <1>6
  <2>2. CASE i <= b - a
    <3>1. (s \o t)[i] = s[i] /\ i \in 1..(b - a)
      BY <1>1, <1>3, <1>6, <2>1, <2>2
    <3> QED
      BY <1>3, <1>5, <2>1, <3>1
  <2>3. CASE ~(i <= b - a)
    <3>1. i - (b - a) \in 1..(c - b) /\ b + (i - (b - a)) = a + i
      BY <1>1, <2>1, <2>3
    <3>2. (s \o t)[i] = t[i - (b - a)]
      BY <1>1, <1>3, <1>6, <2>1, <2>3
    <3> QED
      BY <1>4, <1>5, <2>1, <3>1, <3>2
  <2> QED
    BY <2>2, <2>3
<1>9. s \o t = u
  BY <1>5, <1>6, <1>7, <1>8, SeqEqual
<1> QED
  BY <1>2, <1>9 DEF s, t, u

LEMMA PartSplit ==
  ASSUME NEW a, NEW b, Cut(a, b), NEW n \in 0..(b - a)
  PROVE  /\ Cut(a, a + n) /\ Prefix(Part(a, b), n) = Part(a, a + n)
         /\ Cut(a + n, b) /\ Drop(Part(a, b), n) = Part(a + n, b)
<1>1. a \in Nat /\ b \in Nat /\ a <= b /\ (b <= Size \/ a = b) /\ n \in Nat /\ n <= b - a
  BY DEF Cut
<1>2. Cut(a, a + n) /\ Cut(a + n, b)
  BY <1>1, SourceType DEF Cut
<1> DEFINE s == Part(a, b)
           t == Part(a, a + n)
           u == Part(a + n, b)
<1>3. s \in Seq(Unit) /\ Len(s) = b - a /\ \A i \in 1..(b - a) : s[i] = Source[a + i]
  BY PartType
<1>4. t \in Seq(Unit) /\ Len(t) = n /\ \A i \in 1..n : t[i] = Source[a + i]
  <2>1. (a + n) - a = n
    BY <1>1
  <2> QED
    BY <1>2, <2>1, PartType
<1>5. u \in Seq(Unit) /\ Len(u) = (b - a) - n /\ \A i \in 1..((b - a) - n) : u[i] = Source[a + n + i]
  <2>1. b - (a + n) = (b - a) - n
    BY <1>1
  <2> QED
    BY <1>2, <2>1, PartType
<1>6. n \in 0..Len(s)
  BY <1>3, <1>1
<1>7. /\ Prefix(s, n) \in Seq(Unit) /\ Len(Prefix(s, n)) = n
      /\ \A i \in 1..n : Prefix(s, n)[i] = s[i]
      /\ Drop(s, n) \in Seq(Unit) /\ Len(Drop(s, n)) = Len(s) - n
      /\ \A i \in 1..(Len(s) - n) : Drop(s, n)[i] = s[n + i]
  BY <1>3, <1>6, PrefixType
<1> HIDE DEF s, t, u
<1>8. Prefix(s, n) = t
  <2>1. ASSUME NEW i \in 1..n PROVE Prefix(s, n)[i] = t[i]
    <3>1. i \in 1..(b - a)
      BY <1>1
    <3>2. s[i] = Source[a + i] /\ t[i] = Source[a + i] /\ Prefix(s, n)[i] = s[i]
      BY <1>3, <1>4, <1>7, <3>1
    <3> QED
      BY <3>2
  <2> QED
    BY <2>1, <1>4, <1>7, SeqEqual
<1>9. Drop(s, n) = u
  <2>1. \A i \in 1..((b - a) - n) : n + i \in 1..(b - a) /\ a + (n + i) = a + n + i
    BY <1>1
  <2>2. \A i \in 1..((b - a) - n) : Drop(s, n)[i] = u[i]
    BY <1>1, <1>3, <1>5, <1>7, <2>1
  <2> QED
    BY <2>2, <1>3, <1>5, <1>7, SeqEqual
<1> QED
  BY <1>2, <1>8, <1>9 DEF s, t, u

-----------------------------------------------------------------------------
(* Channels of chunks *)

LEMMA TilesNothing ==
  ASSUME NEW a \in Nat, NEW b
  PROVE  Tiles(<<>>, a, b) <=> a = b
<1>1. Len(<<>>) = 0
  BY EmptySeq
<1>2. ASSUME Tiles(<<>>, a, b) PROVE a = b
  BY <1>1, <1>2 DEF Tiles
<1>3. ASSUME a = b PROVE Tiles(<<>>, a, b)
  <2> DEFINE seam == [i \in 0..0 |-> a]
  <2>1. seam \in [0..Len(<<>>) -> Nat] /\ seam[0] = a /\ seam[Len(<<>>)] = b
    BY <1>1, <1>3
  <2>2. \A i \in 1..Len(<<>>) : FALSE
    BY <1>1
  <2> HIDE DEF seam
  <2> QED
    BY <2>1, <2>2 DEF Tiles
<1> QED
  BY <1>2, <1>3

\* A chunk that begins where the channel ends is appended.
LEMMA TilesAppend ==
  ASSUME NEW S, NEW ch \in Seq(S), NEW a, NEW b, NEW c, Tiles(ch, a, b), Cut(b, c),
         Part(b, c) \in S
  PROVE  Tiles(Append(ch, Part(b, c)), a, c)
<1> DEFINE n == Len(ch)
           new == Append(ch, Part(b, c))
<1>1. n \in Nat /\ Len(new) = n + 1 /\ new[n + 1] = Part(b, c) /\ \A i \in 1..n : new[i] = ch[i]
  BY LenProperties, AppendProperties
<1>2. PICK seam \in [0..n -> Nat] :
        /\ seam[0] = a /\ seam[n] = b
        /\ \A i \in 1..n : Cut(seam[i - 1], seam[i]) /\ ch[i] = Part(seam[i - 1], seam[i])
  BY DEF Tiles
<1> HIDE DEF n, new
<1> DEFINE more == [i \in 0..(n + 1) |-> IF i <= n THEN seam[i] ELSE c]
<1>3. c \in Nat
  BY DEF Cut
<1>4. more \in [0..(n + 1) -> Nat]
  BY <1>1, <1>2, <1>3
<1>5. more[0] = a /\ more[n + 1] = c /\ more[n] = b
  BY <1>1, <1>2
<1>6. \A i \in 1..n : more[i] = seam[i] /\ more[i - 1] = seam[i - 1]
  BY <1>1
<1> HIDE DEF more
<1>7. \A i \in 1..(n + 1) : Cut(more[i - 1], more[i]) /\ new[i] = Part(more[i - 1], more[i])
  <2> SUFFICES ASSUME NEW i \in 1..(n + 1)
               PROVE  Cut(more[i - 1], more[i]) /\ new[i] = Part(more[i - 1], more[i])
    OBVIOUS
  <2>1. CASE i \in 1..n
    BY <1>1, <1>2, <1>6, <2>1
  <2>2. CASE i = n + 1
    <3>1. more[i - 1] = b /\ more[i] = c /\ new[i] = Part(b, c)
      BY <1>1, <1>5, <2>2
    <3> QED
      BY <3>1
  <2> QED
    BY <1>1, <2>1, <2>2
<1>8. Len(new) = n + 1
  BY <1>1
<1>9. Tiles(new, a, c)
  BY <1>4, <1>5, <1>7, <1>8 DEF Tiles
<1> QED
  BY <1>9 DEF new

\* What is received first begins where the channel begins.
LEMMA TilesHead ==
  ASSUME NEW S, NEW ch \in Seq(S), ch # <<>>, NEW a, NEW b, Tiles(ch, a, b)
  PROVE  \E m \in Nat : Cut(a, m) /\ Head(ch) = Part(a, m) /\ Tiles(Tail(ch), m, b)
<1> DEFINE n == Len(ch)
           rest == Tail(ch)
<1>1. n \in Nat /\ n >= 1 /\ Len(rest) = n - 1 /\ \A i \in 1..(n - 1) : rest[i] = ch[i + 1]
  BY EmptySeq, LenProperties, HeadTailProperties
<1>2. Head(ch) = ch[1]
  OBVIOUS
<1>3. PICK seam \in [0..n -> Nat] :
        /\ seam[0] = a /\ seam[n] = b
        /\ \A i \in 1..n : Cut(seam[i - 1], seam[i]) /\ ch[i] = Part(seam[i - 1], seam[i])
  BY DEF Tiles
<1> HIDE DEF n, rest
<1> DEFINE less == [i \in 0..(n - 1) |-> seam[i + 1]]
<1>4. less \in [0..(n - 1) -> Nat] /\ less[0] = seam[1] /\ less[n - 1] = b
  BY <1>1, <1>3
<1>5. \A i \in 1..(n - 1) : less[i] = seam[i + 1] /\ less[i - 1] = seam[i]
  BY <1>1
<1> HIDE DEF less
<1>6. \A i \in 1..(n - 1) : Cut(less[i - 1], less[i]) /\ rest[i] = Part(less[i - 1], less[i])
  <2> SUFFICES ASSUME NEW i \in 1..(n - 1)
               PROVE  Cut(less[i - 1], less[i]) /\ rest[i] = Part(less[i - 1], less[i])
    OBVIOUS
  <2>1. i + 1 \in 1..n /\ (i + 1) - 1 = i
    BY <1>1
  <2>2. Cut(seam[(i + 1) - 1], seam[i + 1]) /\ ch[i + 1] = Part(seam[(i + 1) - 1], seam[i + 1])
    BY <1>3, <2>1
  <2> QED
    BY <1>1, <1>5, <2>1, <2>2
<1>7. Tiles(rest, seam[1], b)
  BY <1>1, <1>4, <1>6 DEF Tiles
<1>8. 1 \in 1..n /\ seam[1 - 1] = a /\ seam[1] \in Nat
  BY <1>1, <1>3
<1>9. Cut(seam[1 - 1], seam[1]) /\ ch[1] = Part(seam[1 - 1], seam[1])
  BY <1>3, <1>8
<1> QED
  BY <1>2, <1>7, <1>8, <1>9 DEF rest

-----------------------------------------------------------------------------
(* Type correctness *)

LEMMA GroupsUnchanged ==
  /\ SenderOK /\ UNCHANGED senderVars => SenderOK'
  /\ ReaderOK /\ UNCHANGED readerVars => ReaderOK'
  /\ ConnOK /\ UNCHANGED connVars => ConnOK'
  /\ ReceiverOK /\ UNCHANGED receiverVars => ReceiverOK'
  /\ WriterOK /\ UNCHANGED writerVars => WriterOK'
  /\ WorldOK /\ UNCHANGED worldVars => WorldOK'
<1>1. SenderOK /\ UNCHANGED senderVars => SenderOK'
  BY Zenon DEF SenderOK, senderVars
<1>2. ReaderOK /\ UNCHANGED readerVars => ReaderOK'
  BY Zenon DEF ReaderOK, readerVars
<1>3. ConnOK /\ UNCHANGED connVars => ConnOK'
  BY Zenon DEF ConnOK, connVars
<1>4. ReceiverOK /\ UNCHANGED receiverVars => ReceiverOK'
  BY Zenon DEF ReceiverOK, receiverVars
<1>5. WriterOK /\ UNCHANGED writerVars => WriterOK'
  BY Zenon DEF WriterOK, writerVars
<1>6. WorldOK /\ UNCHANGED worldVars => WorldOK'
  BY Zenon DEF WorldOK, worldVars
<1> QED
  BY <1>1, <1>2, <1>3, <1>4, <1>5, <1>6

LEMMA QueueTypes ==
  ASSUME NEW S, NEW q \in Seq(S)
  PROVE  /\ \A f \in S : Append(q, f) \in Seq(S)
         /\ q # <<>> => Head(q) \in S /\ Tail(q) \in Seq(S)
  BY HeadTailProperties

LEMMA InitTypes == Init => TypeOK
<1> SUFFICES ASSUME Init PROVE TypeOK
  OBVIOUS
<1>1. <<>> \in Seq(Unit) /\ <<>> \in Seq(Seq(Unit)) /\ 0 \in Nat
  OBVIOUS
<1>2. disk \in Seq(Unit) \cup {NoFile}
  <2>1. disk \in Priors
    BY DEF Init
  <2>2. \A v \in {0, 1}, n \in 0..Size : FileOf(v, n) \in Seq(Unit)
    BY FileIsAFile, SizeAssumption
  <2>3. FileOf(0, Size + 1) \in Seq(Unit)
    BY FileIsAFile, SizeAssumption
  <2> QED
    BY <2>1, <2>2, <2>3 DEF Priors
<1>3. None \in [kind : {"none", "refused", "accepted"}, from : Nat]
  BY DEF None
<1>4. SenderOK /\ ReaderOK
  BY <1>1, Zenon DEF Init, SenderOK, SenderResults, ReaderOK
<1>5. ConnOK
  BY <1>1, <1>3, Zenon DEF Init, ConnOK
<1>6. ReceiverOK
  BY <1>1, Zenon DEF Init, ReceiverOK, ReceiverResults
<1>7. WriterOK /\ WorldOK
  BY <1>1, <1>2, Zenon DEF Init, WriterOK, WorldOK
<1> QED
  BY <1>4, <1>5, <1>6, <1>7 DEF TypeOK

Network == FinishDropped \/ CloseDropped \/ Break

LEMMA CloseCases == CloseDropped \/ Break => Close(TRUE) \/ Close(FALSE)
<1>1. CASE "drop" \in Events
  BY <1>1 DEF CloseDropped, Break, Close
<1>2. CASE "drop" \notin Events
  BY <1>2 DEF CloseDropped, Break, Close
<1> QED
  BY <1>1, <1>2

LEMMA NetworkTypes == TypeOK /\ Network => TypeOK'
<1> SUFFICES ASSUME TypeOK, Network PROVE TypeOK'
  OBVIOUS
<1>1. ConnOK'
  <2>1. CASE FinishDropped
    BY <2>1, Zenon DEF FinishDropped, TypeOK, ConnOK
  <2>2. CASE CloseDropped \/ Break
    <3>1. Close(TRUE) \/ Close(FALSE)
      BY <2>2, CloseCases
    <3>2. CASE Close(TRUE)
      <4>1. stream' \in Prefixes(stream) /\ fin' \in BOOLEAN /\ request' \in BOOLEAN
            /\ reply' \in {None, reply} /\ conn' = "closed"
        BY <3>2 DEF Close, TypeOK, ConnOK
      <4>2. stream' \in Seq(Unit)
        BY <4>1, PrefixesType DEF TypeOK, ConnOK
      <4>3. reply' \in [kind : {"none", "refused", "accepted"}, from : Nat]
        BY <4>1 DEF None, TypeOK, ConnOK
      <4> QED
        BY <4>1, <4>2, <4>3 DEF ConnOK
    <3>3. CASE Close(FALSE)
      BY <3>3 DEF Close, TypeOK, ConnOK
    <3> QED
      BY <3>1, <3>2, <3>3
  <2> QED
    BY <2>1, <2>2 DEF Network
<1>2. WorldOK'
  BY DEF Network, FinishDropped, CloseDropped, Break, Close, worldVars, TypeOK, WorldOK
<1> QED
  BY <1>1, <1>2, GroupsUnchanged DEF Network, FinishDropped, CloseDropped, Break, Close, TypeOK

LEMMA SenderTypes == TypeOK /\ SenderStep => TypeOK'
<1> SUFFICES ASSUME TypeOK, SenderStep PROVE TypeOK'
  OBVIOUS
<1>n. None \in [kind : {"none", "refused", "accepted"}, from : Nat]
  BY DEF None
<1>1. CASE SendRequest
  <2>1. SenderOK' /\ ConnOK'
    BY <1>1, Zenon DEF SendRequest, TypeOK, SenderOK, ConnOK
  <2>2. ReceiverOK'
    BY <1>1, Zenon DEF SendRequest, TypeOK, ReceiverOK
  <2> QED
    BY <1>1, <2>1, <2>2, GroupsUnchanged DEF SendRequest, TypeOK
<1>2. CASE ConnectFails \/ RequestNotSent \/ LookUp \/ PassCheck \/ CancelSend \/ WriteFails
           \/ ReturnHash \/ FinishFails
  <2>1. SenderOK'
    BY <1>2, ZenonT(60) DEF ConnectFails, RequestNotSent, LookUp, PassCheck, CancelSend, WriteFails,
       ReturnHash, FinishFails, SenderReturns, TypeOK, SenderOK, SenderLoop, SenderResults
  <2> QED
    BY <1>2, <2>1, GroupsUnchanged DEF ConnectFails, RequestNotSent, LookUp, PassCheck, CancelSend,
       WriteFails, ReturnHash, FinishFails, TypeOK
<1>3. CASE RequestFails
  <2>1. SenderOK'
    BY <1>3, Zenon DEF RequestFails, SenderReturns, TypeOK, SenderOK, SenderResults
  <2>2. ConnOK'
    BY <1>3, <1>n, Zenon DEF RequestFails, TypeOK, ConnOK
  <2> QED
    BY <1>3, <2>1, <2>2, GroupsUnchanged DEF RequestFails, TypeOK
<1>4. CASE ReceiveAcceptance
  <2>1. SenderOK'
    BY <1>4, Zenon DEF ReceiveAcceptance, TypeOK, SenderOK, SenderLoop
  <2>2. reply.from \in Nat
    BY DEF TypeOK, ConnOK
  <2>3. ReaderOK' /\ ConnOK'
    BY <1>4, <1>n, <2>2, Zenon DEF ReceiveAcceptance, TypeOK, ReaderOK, ConnOK
  <2> QED
    BY <1>4, <2>1, <2>3, GroupsUnchanged DEF ReceiveAcceptance, TypeOK
<1>5. CASE Dequeue
  <2>1. Head(dataCh) \in Seq(Unit) /\ Tail(dataCh) \in Seq(Seq(Unit))
    BY <1>5, QueueTypes DEF Dequeue, TypeOK, ReaderOK
  <2>2. SenderOK' /\ ReaderOK'
    BY <1>5, <2>1, Zenon DEF Dequeue, TypeOK, SenderOK, ReaderOK, SenderLoop
  <2> QED
    BY <1>5, <2>2, GroupsUnchanged DEF Dequeue, TypeOK
<1>6. CASE WriteSome
  <2>1. PICK n \in 1..Smaller(Len(sHeld), Wire - Len(stream)) :
          /\ stream' = stream \o Prefix(sHeld, n) /\ sHeld' = Drop(sHeld, n)
          /\ sPc' = IF n = Len(sHeld) THEN "gate" ELSE "write"
    BY <1>6 DEF WriteSome
  <2>2. sHeld \in Seq(Unit) /\ stream \in Seq(Unit)
    BY DEF TypeOK, SenderOK, ConnOK
  <2>3. n \in 0..Len(sHeld)
    BY <2>2, CapacityAssumption DEF Smaller
  <2>4. Prefix(sHeld, n) \in Seq(Unit) /\ Drop(sHeld, n) \in Seq(Unit)
    BY <2>2, <2>3, PrefixType
  <2>5. stream' \in Seq(Unit) /\ sHeld' \in Seq(Unit) /\ sPc' \in SenderLoop
    BY <2>1, <2>2, <2>4, ConcatProperties DEF SenderLoop
  <2>6. SenderOK' /\ ConnOK'
    BY <1>6, <2>5, Zenon DEF WriteSome, TypeOK, SenderOK, ConnOK
  <2> QED
    BY <1>6, <2>6, GroupsUnchanged DEF WriteSome, TypeOK
<1>7. CASE Finish
  <2>1. SenderOK' /\ ConnOK'
    BY <1>7 DEF Finish, TypeOK, SenderOK, ConnOK
  <2> QED
    BY <1>7, <2>1, GroupsUnchanged DEF Finish, TypeOK
<1> QED
  BY <1>1, <1>2, <1>3, <1>4, <1>5, <1>6, <1>7 DEF SenderStep

ReaderStep == ReaderOpen \/ ReaderChunk \/ ReaderEnd \/ ReaderFails

\* The chunk the reader task reads next.
LEMMA NextChunk ==
  ASSUME NEW n \in Nat, n < Size
  PROVE  /\ Cut(n, Smaller(n + Chunk, Size)) /\ Smaller(n + Chunk, Size) \in Nat
         /\ SubSeq(Source, n + 1, Smaller(n + Chunk, Size)) = Part(n, Smaller(n + Chunk, Size))
         /\ Part(n, Smaller(n + Chunk, Size)) \in Seq(Unit)
<1>1. Cut(n, Smaller(n + Chunk, Size)) /\ Smaller(n + Chunk, Size) \in Nat
  BY SizeAssumption DEF Smaller, Cut
<1> QED
  BY <1>1, PartType DEF Part

LEMMA ReaderTypes == TypeOK /\ ReaderStep => TypeOK'
<1> SUFFICES ASSUME TypeOK, ReaderStep PROVE TypeOK'
  OBVIOUS
<1>1. ReaderOK'
  <2>1. CASE ReaderOpen
    <3>1. Smaller(start, Size) \in 0..Len(Source)
      BY SourceType DEF Smaller, TypeOK, ReaderOK
    <3>2. Prefix(Source, Smaller(start, Size)) \in Seq(Unit)
      BY <3>1, SourceType, PrefixType
    <3> QED
      BY <2>1, <3>2, Zenon DEF ReaderOpen, TypeOK, ReaderOK
  <2>2. CASE ReaderChunk
    <3> DEFINE next == Smaller(rdNext + Chunk, Size)
    <3>1. rdNext \in Nat /\ rdNext < Size /\ sHash \in Seq(Unit) /\ dataCh \in Seq(Seq(Unit))
      BY <2>2 DEF ReaderChunk, TypeOK, ReaderOK
    <3>2. next \in Nat /\ Part(rdNext, next) \in Seq(Unit)
          /\ SubSeq(Source, rdNext + 1, next) = Part(rdNext, next)
      BY <3>1, NextChunk
    <3> HIDE DEF next
    <3>3. /\ dataCh' = Append(dataCh, Part(rdNext, next)) /\ rdNext' = next
          /\ sHash' = sHash \o Part(rdNext, next)
      BY <2>2, <3>2 DEF ReaderChunk, next
    <3>4. dataCh' \in Seq(Seq(Unit)) /\ sHash' \in Seq(Unit) /\ rdNext' \in Nat
      BY <3>1, <3>2, <3>3, QueueTypes, ConcatProperties
    <3> QED
      BY <2>2, <3>4, Zenon DEF ReaderChunk, TypeOK, ReaderOK
  <2>3. CASE ReaderEnd \/ ReaderFails
    BY <2>3, Zenon DEF ReaderEnd, ReaderFails, TypeOK, ReaderOK
  <2> QED
    BY <2>1, <2>2, <2>3 DEF ReaderStep
<1> QED
  BY <1>1, GroupsUnchanged DEF ReaderStep, ReaderOpen, ReaderChunk, ReaderEnd, ReaderFails, TypeOK

\* The offset of an acceptance lies inside the file that is resumed.
LEMMA AlignedType ==
  ASSUME TypeOK
  PROVE  Aligned \in Nat /\ IF Resumes THEN disk \in Seq(Unit) /\ Aligned <= Len(disk) ELSE Aligned = 0
<1>1. CASE Resumes
  <2>1. disk \in Seq(Unit)
    BY <1>1 DEF Resumes, TypeOK, WriterOK
  <2>2. Len(disk) \in Nat
    BY <2>1, LenProperties
  <2>3. ASSUME NEW n \in Nat PROVE (n \div Chunk) * Chunk \in Nat /\ (n \div Chunk) * Chunk <= n
    BY SizeAssumption, Z3
  <2> QED
    BY <1>1, <2>1, <2>2, <2>3 DEF Aligned
<1>2. CASE ~Resumes
  BY <1>2 DEF Aligned
<1> QED
  BY <1>1, <1>2

LEMMA ReceiverTypes == TypeOK /\ (ReceiverStep \/ Refuse \/ Approve) => TypeOK'
<1> SUFFICES ASSUME TypeOK, ReceiverStep \/ Refuse \/ Approve PROVE TypeOK'
  OBVIOUS
<1>e. <<>> \in Seq(Unit)
  OBVIOUS
<1>1. CASE ReceiveRequest
  <2>1. ReceiverOK' /\ ConnOK'
    BY <1>1, Zenon DEF ReceiveRequest, TypeOK, ReceiverOK, ConnOK
  <2> QED
    BY <1>1, <2>1, GroupsUnchanged DEF ReceiveRequest, TypeOK
<1>2. CASE RequestLost \/ Approve \/ RespondFails \/ ReceiverLookUp \/ ReceiverPassCheck
  <2>1. ReceiverOK'
    BY <1>2, ZenonT(60) DEF RequestLost, Approve, RespondFails, ReceiverLookUp, ReceiverPassCheck,
       ReceiverReturns, ReceiverResults, ReceiverLoop, TypeOK, ReceiverOK
  <2> QED
    BY <1>2, <2>1, GroupsUnchanged DEF RequestLost, Approve, RespondFails, ReceiverLookUp,
       ReceiverPassCheck, TypeOK
<1>3. CASE Refuse
  <2>1. reply' \in [kind : {"none", "refused", "accepted"}, from : Nat]
    BY <1>3 DEF Refuse, None, Refusal
  <2>2. ReceiverOK'
    BY <1>3, Zenon DEF Refuse, ReceiverReturns, ReceiverResults, TypeOK, ReceiverOK
  <2>3. ConnOK'
    BY <1>3, <2>1 DEF Refuse, TypeOK, ConnOK
  <2> QED
    BY <1>3, <2>2, <2>3, GroupsUnchanged DEF Refuse, TypeOK
<1>4. CASE Respond
  <2>1. Aligned \in Nat
    BY AlignedType
  <2>2. Acceptance(Aligned) \in [kind : {"none", "refused", "accepted"}, from : Nat]
    BY <2>1 DEF Acceptance
  <2>3. ReceiverOK'
    BY <1>4, <2>1, Zenon DEF Respond, Resumes, ReceiverLoop, TypeOK, ReceiverOK
  <2>4. ConnOK'
    BY <1>4, <2>2, Zenon DEF Respond, TypeOK, ConnOK
  <2>5. WriterOK'
    BY <1>4, Zenon DEF Respond, TypeOK, WriterOK
  <2> QED
    BY <1>4, <2>3, <2>4, <2>5, GroupsUnchanged DEF Respond, TypeOK
<1>5. CASE ReadSome
  <2>1. PICK n \in 1..Smaller(Len(stream), Chunk) :
          rHeld' = Prefix(stream, n) /\ stream' = Drop(stream, n)
    BY <1>5 DEF ReadSome
  <2>2. stream \in Seq(Unit)
    BY DEF TypeOK, ConnOK
  <2>3. n \in 0..Len(stream)
    BY <2>2, SizeAssumption DEF Smaller
  <2>4. rHeld' \in Seq(Unit) /\ stream' \in Seq(Unit)
    BY <2>1, <2>2, <2>3, PrefixType
  <2>5. ReceiverOK'
    BY <1>5, <2>4 DEF ReadSome, ReceiverLoop, TypeOK, ReceiverOK
  <2>6. ConnOK'
    BY <1>5, <2>4 DEF ReadSome, TypeOK, ConnOK
  <2> QED
    BY <1>5, <2>5, <2>6, GroupsUnchanged DEF ReadSome, TypeOK
<1>6. CASE Forward
  <2>1. Append(diskCh, rHeld) \in Seq(Seq(Unit))
    BY QueueTypes DEF TypeOK, WriterOK, ReceiverOK
  <2>2. ReceiverOK'
    BY <1>6, <1>e, Zenon DEF Forward, ReceiverLoop, TypeOK, ReceiverOK
  <2>3. WriterOK'
    BY <1>6, <2>1, Zenon DEF Forward, TypeOK, WriterOK
  <2> QED
    BY <1>6, <2>2, <2>3, GroupsUnchanged DEF Forward, TypeOK
<1>7. CASE CancelReceive \/ ReadEnd \/ ReadFails \/ ForwardFails
  <2>1. ReceiverOK'
    BY <1>7, <1>e, Zenon DEF CancelReceive, ReadEnd, ReadFails, ForwardFails, LeaveLoop, TypeOK,
       ReceiverOK
  <2> QED
    BY <1>7, <2>1, GroupsUnchanged DEF CancelReceive, ReadEnd, ReadFails, ForwardFails, LeaveLoop,
       TypeOK
<1>8. CASE WriterLost \/ Complete
  <2>1. ReceiverOK'
    BY <1>8, Zenon DEF WriterLost, Complete, ReceiverReturns, ReceiverResults, TypeOK, ReceiverOK
  <2> QED
    BY <1>8, <2>1, GroupsUnchanged DEF WriterLost, Complete, TypeOK
<1>9. CASE Discard
  <2>1. reason \in ReceiverResults
    BY Zenon DEF ReceiverResults, TypeOK, ReceiverOK
  <2>2. ReceiverOK'
    BY <1>9, <2>1, Zenon DEF Discard, ReceiverReturns, TypeOK, ReceiverOK
  <2>3. WriterOK'
    BY <1>9, Zenon DEF Discard, TypeOK, WriterOK
  <2> QED
    BY <1>9, <2>2, <2>3, GroupsUnchanged DEF Discard, TypeOK
<1> QED
  BY <1>1, <1>2, <1>3, <1>4, <1>5, <1>6, <1>7, <1>8, <1>9 DEF ReceiverStep

WriterStep == WriterOpen \/ WriterWrite \/ WriterEnd \/ WriterFails

LEMMA WriterTypes == TypeOK /\ ReceiverOrder /\ WriterStep => TypeOK'
<1> SUFFICES ASSUME TypeOK, ReceiverOrder, WriterStep PROVE TypeOK'
  OBVIOUS
<1>e. <<>> \in Seq(Unit) /\ <<>> \in Seq(Seq(Unit))
  OBVIOUS
<1>1. WriterOK'
  <2>1. CASE WriterOpen
    <3>1. isResume => Prefix(disk, offset) \in Seq(Unit)
      BY <2>1, PrefixType DEF WriterOpen, ReceiverOrder
    <3>2. rHash' \in Seq(Unit) /\ disk' \in Seq(Unit) \cup {NoFile}
      BY <2>1, <1>e, <3>1 DEF WriterOpen, TypeOK, WriterOK
    <3> QED
      BY <2>1, <3>2, Zenon DEF WriterOpen, TypeOK, WriterOK
  <2>2. CASE WriterWrite
    <3>1. /\ Head(diskCh) \in Seq(Unit) /\ Tail(diskCh) \in Seq(Seq(Unit))
          /\ disk \in Seq(Unit) /\ rHash \in Seq(Unit)
      BY <2>2, QueueTypes DEF WriterWrite, TypeOK, WriterOK, ReceiverOrder
    <3>2. disk \o Head(diskCh) \in Seq(Unit) /\ rHash \o Head(diskCh) \in Seq(Unit)
      BY <3>1, ConcatProperties
    <3> QED
      BY <2>2, <3>1, <3>2, Zenon DEF WriterWrite, TypeOK, WriterOK
  <2>3. CASE WriterEnd \/ WriterFails
    BY <2>3, <1>e, Zenon DEF WriterEnd, WriterFails, TypeOK, WriterOK
  <2> QED
    BY <2>1, <2>2, <2>3 DEF WriterStep
<1> QED
  BY <1>1, GroupsUnchanged DEF WriterStep, WriterOpen, WriterWrite, WriterEnd, WriterFails, TypeOK

LEMMA UserTypes == TypeOK /\ UserStep => TypeOK'
<1> SUFFICES ASSUME TypeOK, UserStep PROVE TypeOK'
  OBVIOUS
<1>1. WorldOK'
  BY DEF UserStep, PauseSender, ResumeSender, CancelSender, PauseReceiver, ResumeReceiver,
     CancelReceiver, worldVars, TypeOK, WorldOK
<1>2. CASE PauseSender \/ ResumeSender \/ CancelSender
  <2>1. SenderOK'
    BY <1>2, DesktopAssumption DEF PauseSender, ResumeSender, CancelSender, TypeOK, SenderOK
  <2> QED
    BY <1>1, <1>2, <2>1, GroupsUnchanged DEF PauseSender, ResumeSender, CancelSender, TypeOK
<1>3. CASE PauseReceiver \/ ResumeReceiver \/ CancelReceiver
  <2>1. ReceiverOK'
    BY <1>3, DesktopAssumption DEF PauseReceiver, ResumeReceiver, CancelReceiver, TypeOK, ReceiverOK
  <2> QED
    BY <1>1, <1>3, <2>1, GroupsUnchanged DEF PauseReceiver, ResumeReceiver, CancelReceiver, TypeOK
<1> QED
  BY <1>2, <1>3 DEF UserStep

LEMMA StepCases ==
  Next => \/ Network \/ SenderStep \/ ReaderStep \/ ReceiverStep \/ Refuse \/ Approve
          \/ WriterStep \/ UserStep
  BY DEF Next, Network, ReaderStep, WriterStep, UserStep

LEMMA StepTypes == TypeOK /\ ReceiverOrder /\ [Next]_vars => TypeOK'
<1>1. TypeOK /\ UNCHANGED vars => TypeOK'
  BY GroupsUnchanged DEF TypeOK, vars
<1> QED
  BY <1>1, StepCases, NetworkTypes, SenderTypes, ReaderTypes, ReceiverTypes, WriterTypes, UserTypes

-----------------------------------------------------------------------------
(* The order of the steps *)

Order == SenderOrder /\ ReceiverOrder /\ LeakOnlyOnFailure

LEMMA InitOrder == Init => Order
<1> SUFFICES ASSUME Init PROVE Order
  OBVIOUS
<1>1. SenderOrder
  BY DEF Init, SenderOrder, None
<1>2. ReceiverOrder
  BY DEF Init, ReceiverOrder, ReceiverLoop
<1>3. LeakOnlyOnFailure
  BY DEF Init, LeakOnlyOnFailure
<1> QED
  BY <1>1, <1>2, <1>3 DEF Order

LEMMA NetworkOrder == TypeOK /\ Order /\ Network => Order'
<1> SUFFICES ASSUME TypeOK, Order, Network PROVE Order'
  OBVIOUS
<1>1. CASE FinishDropped
  BY <1>1 DEF FinishDropped, Order, SenderOrder, ReceiverOrder, LeakOnlyOnFailure, senderVars,
     readerVars, receiverVars, writerVars, worldVars
<1>2. CASE CloseDropped \/ Break
  <2>1. stream = <<>> => stream' = <<>>
    <3>1. \A n \in 0..Len(<<>>) : Prefix(<<>>, n) = <<>>
      BY PrefixType, EmptySeq, SubSeqEmpty DEF Prefix
    <3>2. Prefixes(<<>>) \subseteq {<<>>}
      BY <3>1 DEF Prefixes
    <3>3. ASSUME stream = <<>> PROVE stream' = <<>>
      <4>1. stream' \in Prefixes(stream) \/ stream' = stream
        BY <1>2, CloseCases DEF Close
      <4> QED
        BY <3>2, <3>3, <4>1
    <3> QED
      BY <3>3
  <2>2. /\ UNCHANGED <<senderVars, readerVars, receiverVars, writerVars, prior>>
        /\ conn = "open"
        /\ fin' => fin
        /\ reply' \in {None, reply}
    BY <1>2, CloseCases DEF Close, TypeOK, ConnOK
  <2> QED
    BY <2>1, <2>2 DEF Order, SenderOrder, ReceiverOrder, LeakOnlyOnFailure, None, senderVars,
       readerVars, receiverVars, writerVars, worldVars
<1> QED
  BY <1>1, <1>2 DEF Network

\* The steps that only the sender's side of Order speaks about.
LEMMA ReceiverOrderKept ==
  ASSUME ReceiverOrder, UNCHANGED <<receiverVars, writerVars, worldVars>>, stream = <<>> => stream' = <<>>
  PROVE  ReceiverOrder'
  BY DEF ReceiverOrder, receiverVars, writerVars, worldVars

LEMMA SenderStepOrder == TypeOK /\ Order /\ SenderStep => Order'
<1> SUFFICES ASSUME TypeOK, Order, SenderStep PROVE Order'
  OBVIOUS
<1> USE DEF Order
<1>1. CASE SendRequest
  <2>1. SenderOrder'
    BY <1>1 DEF SendRequest, SenderOrder, ReceiverOrder, ReceiverLoop, readerVars, writerVars
  <2>2. ReceiverOrder'
    BY <1>1 DEF SendRequest, SenderOrder, ReceiverOrder, ReceiverLoop, writerVars, worldVars
  <2>3. LeakOnlyOnFailure'
    BY <1>1 DEF SendRequest, LeakOnlyOnFailure
  <2> QED
    BY <2>1, <2>2, <2>3
<1>2. CASE ConnectFails \/ RequestNotSent \/ LookUp \/ PassCheck \/ CancelSend \/ WriteFails
           \/ ReturnHash \/ FinishFails
  <2>1. SenderOrder'
    BY <1>2 DEF ConnectFails, RequestNotSent, LookUp, PassCheck, CancelSend, WriteFails, ReturnHash,
       FinishFails, SenderReturns, SenderOrder, readerVars, connVars, receiverVars, writerVars
  <2>2. ReceiverOrder'
    BY <1>2, ReceiverOrderKept DEF ConnectFails, RequestNotSent, LookUp, PassCheck, CancelSend,
       WriteFails, ReturnHash, FinishFails, connVars
  <2>3. LeakOnlyOnFailure'
    BY <1>2 DEF ConnectFails, RequestNotSent, LookUp, PassCheck, CancelSend, WriteFails, ReturnHash,
       FinishFails, SenderReturns, LeakOnlyOnFailure, receiverVars, writerVars
  <2> QED
    BY <2>1, <2>2, <2>3
<1>3. CASE RequestFails
  <2>1. SenderOrder'
    BY <1>3 DEF RequestFails, SenderReturns, SenderOrder, None, Refusal, readerVars, receiverVars,
       writerVars
  <2>2. ReceiverOrder'
    BY <1>3, ReceiverOrderKept DEF RequestFails
  <2>3. LeakOnlyOnFailure'
    BY <1>3 DEF RequestFails, SenderReturns, LeakOnlyOnFailure, receiverVars, writerVars
  <2> QED
    BY <2>1, <2>2, <2>3
<1>4. CASE ReceiveAcceptance
  <2>1. SenderOrder'
    BY <1>4 DEF ReceiveAcceptance, SenderOrder, None, receiverVars, writerVars
  <2>2. ReceiverOrder'
    BY <1>4, ReceiverOrderKept DEF ReceiveAcceptance
  <2>3. LeakOnlyOnFailure'
    BY <1>4 DEF ReceiveAcceptance, LeakOnlyOnFailure, receiverVars, writerVars
  <2> QED
    BY <2>1, <2>2, <2>3
<1>5. CASE Dequeue
  <2>1. SenderOrder'
    BY <1>5 DEF Dequeue, SenderOrder, connVars, receiverVars, writerVars
  <2>2. ReceiverOrder'
    BY <1>5, ReceiverOrderKept DEF Dequeue, connVars
  <2>3. LeakOnlyOnFailure'
    BY <1>5 DEF Dequeue, LeakOnlyOnFailure, receiverVars, writerVars
  <2> QED
    BY <2>1, <2>2, <2>3
<1>6. CASE WriteSome
  <2>1. PICK n \in 1..Smaller(Len(sHeld), Wire - Len(stream)) :
          /\ sHeld' = Drop(sHeld, n) /\ sPc' = IF n = Len(sHeld) THEN "gate" ELSE "write"
    BY <1>6 DEF WriteSome
  <2>2. n = Len(sHeld) => sHeld' = <<>>
    BY <2>1, SubSeqEmpty DEF Drop, TypeOK, SenderOK
  <2>3. SenderOrder'
    BY <1>6, <2>1, <2>2 DEF WriteSome, SenderOrder, readerVars, receiverVars, writerVars
  <2>4. ReceiverOrder'
    <3>1. reason # "complete"
      BY <1>6 DEF WriteSome, SenderOrder
    <3> QED
      BY <1>6, <3>1 DEF WriteSome, ReceiverOrder, receiverVars, writerVars, worldVars
  <2>5. LeakOnlyOnFailure'
    BY <1>6, <2>1 DEF WriteSome, LeakOnlyOnFailure, receiverVars, writerVars
  <2> QED
    BY <2>3, <2>4, <2>5
<1>7. CASE Finish
  <2>1. SenderOrder'
    BY <1>7 DEF Finish, LoopEnds, SenderOrder, readerVars, receiverVars, writerVars, TypeOK, ReaderOK
  <2>2. ReceiverOrder'
    BY <1>7, ReceiverOrderKept DEF Finish
  <2>3. LeakOnlyOnFailure'
    BY <1>7 DEF Finish, LeakOnlyOnFailure, receiverVars, writerVars
  <2> QED
    BY <2>1, <2>2, <2>3
<1> QED
  BY <1>1, <1>2, <1>3, <1>4, <1>5, <1>6, <1>7 DEF SenderStep

LEMMA ReaderStepOrder == TypeOK /\ Order /\ ReaderStep => Order'
<1> SUFFICES ASSUME TypeOK, Order, ReaderStep PROVE Order'
  OBVIOUS
<1>1. UNCHANGED <<senderVars, start, connVars, receiverVars, writerVars, worldVars>>
  BY DEF ReaderStep, ReaderOpen, ReaderChunk, ReaderEnd, ReaderFails
<1>2. ReceiverOrder' /\ LeakOnlyOnFailure'
  BY <1>1 DEF Order, ReceiverOrder, LeakOnlyOnFailure, senderVars, connVars, receiverVars, writerVars,
     worldVars
<1>3. SenderOrder'
  BY <1>1, SizeAssumption DEF ReaderStep, ReaderOpen, ReaderChunk, ReaderEnd, ReaderFails, Order,
     SenderOrder, SenderLoop, senderVars, connVars, receiverVars, writerVars, TypeOK, ReaderOK,
     SenderOK
<1> QED
  BY <1>2, <1>3 DEF Order

LEMMA ReceiverStepOrder == TypeOK /\ Order /\ (ReceiverStep \/ Refuse \/ Approve) => Order'
<1> SUFFICES ASSUME TypeOK, Order, ReceiverStep \/ Refuse \/ Approve PROVE Order'
  OBVIOUS
<1> USE DEF Order
<1>1. CASE ReceiveRequest \/ Approve \/ RespondFails \/ RequestLost \/ Refuse
  <2>1. SenderOrder'
    BY <1>1 DEF ReceiveRequest, Approve, RespondFails, RequestLost, Refuse, ReceiverReturns, None,
       Refusal, SenderOrder, ReceiverOrder, ReceiverLoop, senderVars, readerVars, connVars,
       writerVars
  <2>2. ReceiverOrder'
    BY <1>1 DEF ReceiveRequest, Approve, RespondFails, RequestLost, Refuse, ReceiverReturns,
       ReceiverOrder, ReceiverLoop, connVars, writerVars, worldVars
  <2>3. LeakOnlyOnFailure'
    BY <1>1 DEF ReceiveRequest, Approve, RespondFails, RequestLost, Refuse, ReceiverReturns,
       LeakOnlyOnFailure, ReceiverOrder, ReceiverLoop, senderVars, writerVars
  <2> QED
    BY <2>1, <2>2, <2>3
<1>2. CASE Respond
  <2>1. SenderOrder'
    BY <1>2 DEF Respond, Acceptance, SenderOrder, ReceiverOrder, ReceiverLoop, senderVars, readerVars
  <2>2. ReceiverOrder'
    <3>1. wrPc = "off"
      BY <1>2 DEF Respond, ReceiverOrder, ReceiverLoop
    <3>2. IF Resumes THEN prior \in Seq(Unit) /\ Aligned \in 0..Len(prior) ELSE Aligned = 0
      BY <3>1, AlignedType, LenProperties DEF ReceiverOrder
    <3> QED
      BY <1>2, <3>1, <3>2 DEF Respond, ReceiverOrder, ReceiverLoop, worldVars
  <2>3. LeakOnlyOnFailure'
    BY <1>2 DEF Respond, LeakOnlyOnFailure, senderVars
  <2> QED
    BY <2>1, <2>2, <2>3
<1>3. CASE ReceiverLookUp \/ ReceiverPassCheck \/ Forward
  <2>1. SenderOrder'
    BY <1>3 DEF ReceiverLookUp, ReceiverPassCheck, Forward, SenderOrder, senderVars, readerVars,
       connVars, writerVars
  <2>2. ReceiverOrder'
    BY <1>3 DEF ReceiverLookUp, ReceiverPassCheck, Forward, ReceiverOrder, ReceiverLoop, connVars,
       writerVars, worldVars
  <2>3. LeakOnlyOnFailure'
    BY <1>3 DEF ReceiverLookUp, ReceiverPassCheck, Forward, LeakOnlyOnFailure, senderVars, writerVars
  <2> QED
    BY <2>1, <2>2, <2>3
<1>4. CASE ReadSome
  <2>1. stream # <<>>
    <3>1. Len(<<>>) = 0
      BY EmptySeq
    <3> QED
      BY <1>4, <3>1, SizeAssumption DEF ReadSome, Smaller
  <2>2. rdPc # "off" /\ reason # "complete" /\ wrPc # "off" /\ reason = "none"
    BY <1>4, <2>1 DEF ReadSome, SenderOrder, ReceiverOrder, ReceiverLoop
  <2>3. SenderOrder'
    BY <1>4, <2>2 DEF ReadSome, SenderOrder, senderVars, readerVars, writerVars
  <2>4. ReceiverOrder'
    BY <1>4, <2>2 DEF ReadSome, ReceiverOrder, ReceiverLoop, writerVars, worldVars
  <2>5. LeakOnlyOnFailure'
    BY <1>4 DEF ReadSome, LeakOnlyOnFailure, senderVars, writerVars
  <2> QED
    BY <2>3, <2>4, <2>5
<1>5. CASE CancelReceive \/ ReadEnd \/ ReadFails \/ ForwardFails
  <2>1. SenderOrder'
    BY <1>5 DEF CancelReceive, ReadEnd, ReadFails, ForwardFails, LeaveLoop, SenderOrder, senderVars,
       readerVars, connVars, writerVars
  <2>2. ReceiverOrder'
    BY <1>5 DEF CancelReceive, ReadEnd, ReadFails, ForwardFails, LeaveLoop, ReceiverOrder,
       ReceiverLoop, connVars, writerVars, worldVars
  <2>3. LeakOnlyOnFailure'
    BY <1>5 DEF CancelReceive, ReadEnd, ReadFails, ForwardFails, LeaveLoop, LeakOnlyOnFailure,
       senderVars, writerVars
  <2> QED
    BY <2>1, <2>2, <2>3
<1>6. CASE WriterLost \/ Discard \/ Complete
  <2>1. reason \in {"none", "complete", "failed", "cancelled"}
    BY DEF TypeOK, ReceiverOK
  <2>2. SenderOrder'
    BY <1>6, <2>1 DEF WriterLost, Discard, Complete, ReceiverReturns, SenderOrder, ReceiverOrder,
       senderVars, readerVars, connVars, writerVars
  <2>3. ReceiverOrder'
    BY <1>6, <2>1 DEF WriterLost, Discard, Complete, ReceiverReturns, ReceiverOrder, ReceiverLoop,
       connVars, writerVars, worldVars
  <2>4. LeakOnlyOnFailure'
    BY <1>6 DEF WriterLost, Discard, Complete, ReceiverReturns, LeakOnlyOnFailure, senderVars,
       writerVars
  <2> QED
    BY <2>2, <2>3, <2>4
<1> QED
  BY <1>1, <1>2, <1>3, <1>4, <1>5, <1>6 DEF ReceiverStep

LEMMA WriterStepOrder == TypeOK /\ Order /\ WriterStep => Order'
<1> SUFFICES ASSUME TypeOK, Order, WriterStep PROVE Order'
  OBVIOUS
<1>1. UNCHANGED <<senderVars, readerVars, connVars, receiverVars, worldVars>>
  BY DEF WriterStep, WriterOpen, WriterWrite, WriterEnd, WriterFails
<1>2. SenderOrder'
  BY <1>1 DEF Order, WriterStep, WriterOpen, WriterWrite, WriterEnd, WriterFails, SenderOrder,
     senderVars, readerVars, connVars, receiverVars
<1>3. LeakOnlyOnFailure'
  BY <1>1 DEF Order, WriterStep, WriterOpen, WriterWrite, WriterEnd, WriterFails, LeakOnlyOnFailure,
     ReceiverOrder, senderVars, receiverVars
<1>4. ReceiverOrder'
  <2>1. TypeOK'
    BY WriterTypes DEF Order
  <2>2. CASE WriterOpen
    <3>1. disk' \in Seq(Unit)
      BY <2>2, EmptySeq DEF WriterOpen, Order, ReceiverOrder
    <3> QED
      BY <1>1, <2>2, <3>1 DEF WriterOpen, Order, ReceiverOrder, ReceiverLoop, connVars, receiverVars,
         worldVars
  <2>3. CASE WriterWrite
    <3>1. disk' \in Seq(Unit)
      BY <2>3, QueueTypes, ConcatProperties DEF WriterWrite, Order, ReceiverOrder, TypeOK, WriterOK
    <3> QED
      BY <1>1, <2>3, <3>1 DEF WriterWrite, Order, ReceiverOrder, ReceiverLoop, connVars, receiverVars,
         worldVars
  <2>4. CASE WriterEnd \/ WriterFails
    BY <1>1, <2>4 DEF WriterEnd, WriterFails, Order, ReceiverOrder, ReceiverLoop, connVars,
       receiverVars, worldVars
  <2> QED
    BY <2>2, <2>3, <2>4 DEF WriterStep
<1> QED
  BY <1>2, <1>3, <1>4 DEF Order

LEMMA UserStepOrder == TypeOK /\ Order /\ UserStep => Order'
<1> SUFFICES ASSUME TypeOK, Order, UserStep PROVE Order'
  OBVIOUS
<1>1. UNCHANGED <<sPc, sHeld, sResult, rPc, rHeld, isResume, offset, reason, rResult, prior>>
  BY DEF UserStep, PauseSender, ResumeSender, CancelSender, PauseReceiver, ResumeReceiver,
     CancelReceiver, senderVars, receiverVars, worldVars
<1>u. UNCHANGED <<readerVars, connVars, writerVars>>
  BY DEF UserStep, PauseSender, ResumeSender, CancelSender, PauseReceiver, ResumeReceiver,
     CancelReceiver
<1>f. (sFlag' => sFlag) /\ (sActive' => sActive) /\ (rFlag' => rFlag) /\ (rActive' => rActive)
  BY DEF UserStep, PauseSender, ResumeSender, CancelSender, PauseReceiver, ResumeReceiver,
     CancelReceiver, senderVars, receiverVars, TypeOK, SenderOK, ReceiverOK
<1>2. SenderOrder'
  BY <1>1, <1>u DEF Order, SenderOrder, readerVars, connVars, writerVars
<1>3. ReceiverOrder'
  BY <1>1, <1>u DEF Order, ReceiverOrder, connVars, writerVars
<1>4. LeakOnlyOnFailure'
  BY <1>1, <1>u, <1>f DEF Order, LeakOnlyOnFailure, writerVars
<1> QED
  BY <1>2, <1>3, <1>4 DEF Order

LEMMA StepOrder == TypeOK /\ Order /\ [Next]_vars => Order'
<1>1. Order /\ UNCHANGED vars => Order'
  BY DEF Order, SenderOrder, ReceiverOrder, LeakOnlyOnFailure, vars, senderVars, readerVars, connVars,
     receiverVars, writerVars, worldVars
<1> QED
  BY <1>1, StepCases, NetworkOrder, SenderStepOrder, ReaderStepOrder, ReceiverStepOrder,
     WriterStepOrder, UserStepOrder

-----------------------------------------------------------------------------
(* The units on their way *)

\* What the reader task hashed is what the sender skipped and what it has read.
LEMMA HashStep == TypeOK /\ Order /\ SenderHash /\ [Next]_vars => SenderHash'
<1> SUFFICES ASSUME TypeOK, Order, SenderHash, [Next]_vars PROVE SenderHash'
  OBVIOUS
<1>1. CASE ReaderOpen
  <2>1. rdNext' = start /\ start' = start /\ sHash' = Prefix(Source, Smaller(start, Size))
    BY <1>1 DEF ReaderOpen
  <2>2. start \in Nat /\ Smaller(start, Size) \in 0..Len(Source)
    BY SourceType DEF TypeOK, ReaderOK, Smaller
  <2>3. Prefix(Source, Smaller(start, Size)) \in Seq(Unit)
    BY <2>2, SourceType, PrefixType
  <2>4. Cut(start, start) /\ Part(start, start) = <<>>
    BY <2>2, CutSelf
  <2> QED
    BY <2>1, <2>3, <2>4, ConcatEmptySeq DEF SenderHash
<1>2. CASE ReaderChunk
  <2> DEFINE next == Smaller(rdNext + Chunk, Size)
             skipped == Prefix(Source, Smaller(start, Size))
  <2>1. rdPc = "run" /\ rdNext \in Nat /\ rdNext < Size /\ start \in Nat
    BY <1>2 DEF ReaderChunk, TypeOK, ReaderOK
  <2>2. Cut(rdNext, next) /\ SubSeq(Source, rdNext + 1, next) = Part(rdNext, next)
    BY <2>1, NextChunk
  <2>3. sHash' = sHash \o Part(rdNext, next) /\ rdNext' = next /\ start' = start
    BY <1>2, <2>2 DEF ReaderChunk
  <2>4. Cut(start, rdNext) /\ sHash = skipped \o Part(start, rdNext)
    BY <2>1 DEF SenderHash
  <2>5. Smaller(start, Size) \in 0..Len(Source)
    BY <2>1, SourceType DEF Smaller
  <2>6. skipped \in Seq(Unit)
    BY <2>5, SourceType, PrefixType
  <2> HIDE DEF next, skipped
  <2>7. Cut(start, next) /\ Part(start, rdNext) \o Part(rdNext, next) = Part(start, next)
    BY <2>2, <2>4, PartJoin
  <2>8. Part(start, rdNext) \in Seq(Unit) /\ Part(rdNext, next) \in Seq(Unit)
    BY <2>2, <2>4, PartType
  <2>9. sHash' = skipped \o Part(start, next)
    <3>1. (skipped \o Part(start, rdNext)) \o Part(rdNext, next)
            = skipped \o (Part(start, rdNext) \o Part(rdNext, next))
      BY <2>6, <2>8, ConcatAssociative
    <3> QED
      BY <2>3, <2>4, <2>7, <3>1, Zenon
  <2> QED
    BY <2>3, <2>7, <2>9 DEF SenderHash, skipped
<1>3. CASE ReaderEnd \/ ReaderFails
  BY <1>3 DEF ReaderEnd, ReaderFails, SenderHash
<1>4. CASE ReceiveAcceptance
  BY <1>4 DEF ReceiveAcceptance, SenderHash
<1>5. CASE UNCHANGED <<rdPc, rdNext, sHash, start>>
  BY <1>5 DEF SenderHash
<1>6. \/ ReaderStep \/ ReceiveAcceptance \/ UNCHANGED <<rdPc, rdNext, sHash, start>>
  <2>1. CASE SenderStep
    BY <2>1 DEF SenderStep, SendRequest, ConnectFails, RequestNotSent, RequestFails, LookUp, PassCheck,
       CancelSend, Dequeue, WriteSome, WriteFails, Finish, ReturnHash, FinishFails, readerVars
  <2>2. CASE ReceiverStep \/ Refuse \/ Approve
    BY <2>2 DEF ReceiverStep, ReceiveRequest, RequestLost, Respond, RespondFails, ReceiverLookUp,
       ReceiverPassCheck, ReadSome, Forward, CancelReceive, ReadEnd, ReadFails, ForwardFails, LeaveLoop,
       WriterLost, Discard, Complete, Refuse, Approve, readerVars
  <2>3. CASE Network \/ WriterStep \/ UserStep
    BY <2>3 DEF Network, FinishDropped, CloseDropped, Break, Close, WriterStep, WriterOpen, WriterWrite,
       WriterEnd, WriterFails, UserStep, PauseSender, ResumeSender, CancelSender, PauseReceiver,
       ResumeReceiver, CancelReceiver, readerVars
  <2>4. CASE UNCHANGED vars
    BY <2>4 DEF vars, readerVars
  <2> QED
    BY <2>1, <2>2, <2>3, <2>4, StepCases
<1> QED
  BY <1>1, <1>2, <1>3, <1>4, <1>5, <1>6 DEF ReaderStep

\* A failure is never forgotten.
LEMMA VoidedStays == TypeOK /\ Order /\ Voided /\ [Next]_vars => Voided'
<1> SUFFICES ASSUME TypeOK, Order, Voided, [Next]_vars PROVE Voided'
  OBVIOUS
<1>1. CASE SenderStep
  BY <1>1 DEF SenderStep, SendRequest, ConnectFails, RequestNotSent, RequestFails, ReceiveAcceptance,
     LookUp, PassCheck, CancelSend, Dequeue, WriteSome, WriteFails, Finish, ReturnHash, FinishFails,
     readerVars, receiverVars, writerVars, Voided, Order, SenderOrder
<1>2. CASE ReceiverStep \/ Refuse \/ Approve
  BY <1>2 DEF ReceiverStep, ReceiveRequest, RequestLost, Respond, RespondFails, ReceiverLookUp,
     ReceiverPassCheck, ReadSome, Forward, CancelReceive, ReadEnd, ReadFails, ForwardFails, LeaveLoop,
     WriterLost, Discard, Complete, Refuse, Approve, ReceiverReturns, readerVars, writerVars, Voided,
     Order, ReceiverOrder, ReceiverLoop
<1>3. CASE Network \/ WriterStep \/ ReaderStep
  BY <1>3 DEF Network, FinishDropped, CloseDropped, Break, Close, WriterStep, WriterOpen, WriterWrite,
     WriterEnd, WriterFails, ReaderStep, ReaderOpen, ReaderChunk, ReaderEnd, ReaderFails, readerVars,
     receiverVars, writerVars, Voided
<1>4. CASE UserStep
  BY <1>4 DEF UserStep, PauseSender, ResumeSender, CancelSender, PauseReceiver, ResumeReceiver,
     CancelReceiver, readerVars, receiverVars, writerVars, Voided
<1>5. CASE UNCHANGED vars
  BY <1>5 DEF vars, readerVars, receiverVars, writerVars, Voided
<1> QED
  BY <1>1, <1>2, <1>3, <1>4, <1>5, StepCases

ReceiverInputs == <<writerVars, rHeld, isResume, offset, prior>>
SenderInputs == <<rdPc, sHeld, dataCh, rdNext, offset>>
Whole == conn # "closed" \/ fin \/ reason = "complete"
Counts == rPc # "done" \/ rResult = "complete"

LEMMA ReceivedKept ==
  ASSUME NEW e, Received(e), UNCHANGED ReceiverInputs, Counts' => Counts
  PROVE  Received(e)'
  BY DEF Received, Stored, ReceiverInputs, Counts, writerVars, Kept, Before

LEMMA SendingKept ==
  ASSUME NEW g, Sending(g), UNCHANGED SenderInputs
  PROVE  Sending(g)'
  BY DEF Sending, SenderInputs

LEMMA FlowKept ==
  ASSUME Flow, UNCHANGED <<ReceiverInputs, SenderInputs, stream>>, Counts' => Counts, Whole' => Whole
  PROVE  Flow'
<1>1. PICK e, f, g \in Nat :
        /\ Received(e) /\ Cut(e, f) /\ stream = Part(e, f) /\ Sending(g)
        /\ Whole => f = g
  BY DEF Flow, Whole
<1>2. Received(e)' /\ Sending(g)'
  BY <1>1, ReceivedKept, SendingKept
<1> QED
  BY <1>1, <1>2 DEF Flow, Whole

LEMMA InitFlow == Init => SenderHash /\ Flow
<1> SUFFICES ASSUME Init PROVE SenderHash /\ Flow
  OBVIOUS
<1>1. SenderHash
  BY DEF Init, SenderHash
<1>2. Received(0) /\ Sending(0)
  BY TilesNothing, CutSelf DEF Init, Received, Stored, Sending
<1>3. Flow
  BY <1>2, CutSelf DEF Init, Flow
<1> QED
  BY <1>1, <1>3

LEMMA NetworkFlow == TypeOK /\ Order /\ Flow /\ Network => Flow'
<1> SUFFICES ASSUME TypeOK, Order, Flow, Network PROVE Flow'
  OBVIOUS
<1>1. UNCHANGED <<ReceiverInputs, SenderInputs>> /\ (Counts' => Counts)
  BY DEF Network, FinishDropped, CloseDropped, Break, Close, senderVars, readerVars, receiverVars,
     writerVars, worldVars, ReceiverInputs, SenderInputs, Counts
<1>2. CASE FinishDropped
  BY <1>1, <1>2, FlowKept DEF FinishDropped, Whole
<1>3. CASE CloseDropped \/ Break
  <2>1. conn = "open" /\ conn' = "closed" /\ reason' = reason
    BY <1>3 DEF CloseDropped, Break, Close, receiverVars
  <2>2. CASE stream' = stream
    BY <1>1, <2>1, <2>2, FlowKept DEF Whole
  <2>3. CASE stream' # stream
    <3>1. stream' \in Prefixes(stream) /\ ~fin'
      BY <1>3, <2>3, CloseCases DEF Close, TypeOK, ConnOK
    <3>2. PICK n \in 0..Len(stream) : stream' = Prefix(stream, n)
      BY <3>1 DEF Prefixes
    <3>3. reason # "complete"
      <4>1. SUFFICES ASSUME stream = <<>> PROVE FALSE
        BY DEF Order, ReceiverOrder
      <4>2. n = 0
        BY <4>1, EmptySeq
      <4> QED
        BY <2>3, <3>2, <4>1, <4>2, SubSeqEmpty DEF Prefix
    <3>4. PICK e, f, g \in Nat :
            /\ Received(e) /\ Cut(e, f) /\ stream = Part(e, f) /\ Sending(g)
      BY DEF Flow
    <3>5. n \in 0..(f - e) /\ e + n \in Nat
      BY <3>4, PartType
    <3>6. Cut(e, e + n) /\ stream' = Part(e, e + n)
      BY <3>2, <3>4, <3>5, PartSplit
    <3>7. Received(e)' /\ Sending(g)'
      BY <1>1, <3>4, ReceivedKept, SendingKept
    <3> QED
      BY <2>1, <3>1, <3>3, <3>4, <3>5, <3>6, <3>7 DEF Flow
  <2> QED
    BY <2>2, <2>3
<1> QED
  BY <1>2, <1>3 DEF Network

LEMMA SenderFlow == TypeOK /\ Order /\ Flow /\ SenderStep => Flow'
<1> SUFFICES ASSUME TypeOK, Order, Flow, SenderStep PROVE Flow'
  OBVIOUS
<1>1. CASE SendRequest
  <2>1. UNCHANGED <<ReceiverInputs, SenderInputs, stream>>
    BY <1>1 DEF SendRequest, readerVars, writerVars, worldVars, ReceiverInputs, SenderInputs
  <2>2. Counts /\ Whole
    BY <1>1 DEF SendRequest, Order, SenderOrder, Counts, Whole
  <2> QED
    BY <2>1, <2>2, FlowKept
<1>2. CASE ConnectFails \/ RequestNotSent \/ RequestFails \/ LookUp \/ PassCheck \/ CancelSend
           \/ WriteFails \/ ReturnHash \/ FinishFails
  <2>1. UNCHANGED <<ReceiverInputs, SenderInputs, stream, conn, fin, reason, rPc, rResult>>
    BY <1>2 DEF ConnectFails, RequestNotSent, RequestFails, LookUp, PassCheck, CancelSend, WriteFails,
       ReturnHash, FinishFails, SenderReturns, readerVars, connVars, receiverVars, writerVars,
       worldVars, ReceiverInputs, SenderInputs
  <2> QED
    BY <2>1, FlowKept DEF Counts, Whole
<1>3. CASE Finish
  <2>1. UNCHANGED <<ReceiverInputs, SenderInputs, stream, conn, reason, rPc, rResult>>
    BY <1>3 DEF Finish, readerVars, receiverVars, writerVars, worldVars, ReceiverInputs, SenderInputs
  <2>2. fin' => conn = "open"
    BY <1>3 DEF Finish
  <2> QED
    BY <2>1, <2>2, FlowKept DEF Counts, Whole
<1> USE DEF Flow
<1>f. PICK e, f, g \in Nat :
        /\ Received(e) /\ Cut(e, f) /\ stream = Part(e, f) /\ Sending(g)
        /\ conn # "closed" \/ fin \/ reason = "complete" => f = g
  BY DEF Flow
<1>4. CASE ReceiveAcceptance
  <2>1. UNCHANGED <<ReceiverInputs, sHeld, dataCh, offset, stream, conn, fin, reason, rPc, rResult>>
    BY <1>4 DEF ReceiveAcceptance, connVars, receiverVars, writerVars, worldVars, ReceiverInputs
  <2>2. rdPc = "off" /\ rdPc' = "opening"
    BY <1>4 DEF ReceiveAcceptance, Order, SenderOrder
  <2>3. Sending(g)'
    BY <1>f, <2>1, <2>2 DEF Sending
  <2>4. Received(e)'
    BY <1>f, <2>1, ReceivedKept DEF Counts
  <2> QED
    BY <1>f, <2>1, <2>3, <2>4
<1>5. CASE Dequeue
  <2>1. /\ UNCHANGED <<ReceiverInputs, rdPc, rdNext, offset, stream, conn, fin, reason, rPc, rResult>>
        /\ dataCh # <<>> /\ sHeld' = Head(dataCh) /\ dataCh' = Tail(dataCh) /\ sHeld = <<>>
    BY <1>5 DEF Dequeue, connVars, receiverVars, writerVars, worldVars, ReceiverInputs, Order,
       SenderOrder
  <2>2. rdPc \notin {"off", "opening"}
    BY <1>f, <2>1 DEF Sending
  <2>3. PICK h \in Nat : Cut(g, h) /\ sHeld = Part(g, h) /\ Tiles(dataCh, h, rdNext)
    BY <1>f, <2>2 DEF Sending
  <2>4. h = g
    BY <2>1, <2>3, NoPart
  <2>5. dataCh \in Seq(Seq(Unit))
    BY DEF TypeOK, ReaderOK
  <2>6. PICK m \in Nat : Cut(g, m) /\ Head(dataCh) = Part(g, m) /\ Tiles(Tail(dataCh), m, rdNext)
    BY <2>1, <2>3, <2>4, <2>5, TilesHead
  <2>7. Sending(g)'
    BY <2>1, <2>2, <2>6 DEF Sending
  <2>8. Received(e)'
    BY <1>f, <2>1, ReceivedKept DEF Counts
  <2> QED
    BY <1>f, <2>1, <2>7, <2>8
<1>6. CASE WriteSome
  <2>1. PICK n \in 1..Smaller(Len(sHeld), Wire - Len(stream)) :
          stream' = stream \o Prefix(sHeld, n) /\ sHeld' = Drop(sHeld, n)
    BY <1>6 DEF WriteSome
  <2>2. UNCHANGED <<ReceiverInputs, rdPc, rdNext, dataCh, offset, conn, fin, reason, rPc, rResult>>
        /\ conn = "open"
    BY <1>6 DEF WriteSome, readerVars, receiverVars, writerVars, worldVars, ReceiverInputs
  <2>3. sHeld \in Seq(Unit) /\ stream \in Seq(Unit)
    BY DEF TypeOK, SenderOK, ConnOK
  <2>4. n \in 1..Len(sHeld)
    BY <2>3, CapacityAssumption DEF Smaller
  <2>5. rdPc \notin {"off", "opening"}
    <3>1. sHeld # <<>>
      BY <2>3, <2>4, EmptySeq
    <3> QED
      BY <1>f, <3>1 DEF Sending
  <2>6. PICK h \in Nat : Cut(g, h) /\ sHeld = Part(g, h) /\ Tiles(dataCh, h, rdNext)
    BY <1>f, <2>5 DEF Sending
  <2>7. n \in 0..(h - g) /\ g + n \in Nat
    BY <2>4, <2>6, PartType
  <2>8. /\ Cut(g, g + n) /\ Prefix(sHeld, n) = Part(g, g + n)
        /\ Cut(g + n, h) /\ Drop(sHeld, n) = Part(g + n, h)
    BY <2>6, <2>7, PartSplit
  <2>9. f = g
    BY <1>f, <2>2
  <2>10. Cut(e, g + n) /\ Part(e, g) \o Part(g, g + n) = Part(e, g + n)
    BY <1>f, <2>8, <2>9, PartJoin
  <2>11. stream' = Part(e, g + n)
    BY <1>f, <2>1, <2>8, <2>9, <2>10
  <2>12. Sending(g + n)'
    BY <2>1, <2>2, <2>5, <2>6, <2>8 DEF Sending
  <2>13. Received(e)'
    BY <1>f, <2>2, ReceivedKept DEF Counts
  <2> QED
    BY <2>7, <2>10, <2>11, <2>12, <2>13
<1> QED
  BY <1>1, <1>2, <1>3, <1>4, <1>5, <1>6 DEF SenderStep

LEMMA ReaderFlow == TypeOK /\ Order /\ Flow /\ ReaderStep => Voided' \/ Flow'
<1> SUFFICES ASSUME TypeOK, Order, Flow, ReaderStep PROVE Voided' \/ Flow'
  OBVIOUS
<1>f. PICK e, f, g \in Nat :
        /\ Received(e) /\ Cut(e, f) /\ stream = Part(e, f) /\ Sending(g)
        /\ conn # "closed" \/ fin \/ reason = "complete" => f = g
  BY DEF Flow
<1>u. UNCHANGED <<ReceiverInputs, sHeld, offset, stream, conn, fin, reason, rPc, rResult>>
  BY DEF ReaderStep, ReaderOpen, ReaderChunk, ReaderEnd, ReaderFails, senderVars, connVars,
     receiverVars, writerVars, worldVars, ReceiverInputs
<1>r. Received(e)'
  BY <1>f, <1>u, ReceivedKept DEF Counts
<1>1. ASSUME Sending(g)' PROVE Flow'
  BY <1>f, <1>u, <1>r, <1>1 DEF Flow
<1>2. CASE ReaderOpen
  <2>1. /\ rdPc = "opening" /\ rdPc' = "run" /\ rdNext' = start /\ dataCh' = dataCh
        /\ start = offset
    BY <1>2 DEF ReaderOpen, Order, SenderOrder
  <2>2. g = offset /\ dataCh = <<>> /\ sHeld = <<>>
    BY <1>f, <2>1 DEF Sending
  <2>3. Cut(g, g) /\ Part(g, g) = <<>> /\ Tiles(<<>>, g, offset)
    BY <2>2, CutSelf, TilesNothing
  <2>4. Sending(g)'
    BY <1>u, <2>1, <2>2, <2>3 DEF Sending
  <2> QED
    BY <1>1, <2>4
<1>3. CASE ReaderChunk
  <2> DEFINE next == Smaller(rdNext + Chunk, Size)
  <2>1. rdPc = "run" /\ rdNext \in Nat /\ rdNext < Size /\ dataCh \in Seq(Seq(Unit))
    BY <1>3 DEF ReaderChunk, TypeOK, ReaderOK
  <2>2. /\ Cut(rdNext, next) /\ SubSeq(Source, rdNext + 1, next) = Part(rdNext, next)
        /\ Part(rdNext, next) \in Seq(Unit)
    BY <2>1, NextChunk
  <2>3. dataCh' = Append(dataCh, Part(rdNext, next)) /\ rdNext' = next /\ rdPc' = rdPc
    BY <1>3, <2>2 DEF ReaderChunk
  <2> HIDE DEF next
  <2>4. PICK h \in Nat : Cut(g, h) /\ sHeld = Part(g, h) /\ Tiles(dataCh, h, rdNext)
    BY <1>f, <2>1 DEF Sending
  <2>5. Tiles(dataCh', h, next)
    BY <2>1, <2>2, <2>3, <2>4, TilesAppend
  <2>6. Sending(g)'
    BY <1>u, <2>1, <2>3, <2>4, <2>5 DEF Sending
  <2> QED
    BY <1>1, <2>6
<1>4. CASE ReaderEnd
  <2>1. Sending(g)'
    BY <1>f, <1>u, <1>4 DEF ReaderEnd, Sending
  <2> QED
    BY <1>1, <2>1
<1>5. CASE ReaderFails
  BY <1>5 DEF ReaderFails, Voided
<1> QED
  BY <1>2, <1>3, <1>4, <1>5 DEF ReaderStep

LEMMA ReceiverFlow ==
  TypeOK /\ Order /\ ~Voided /\ Flow /\ (ReceiverStep \/ Refuse \/ Approve) => Voided' \/ Flow'
<1> SUFFICES ASSUME TypeOK, Order, ~Voided, Flow, ReceiverStep \/ Refuse \/ Approve
             PROVE  Voided' \/ Flow'
  OBVIOUS
<1>f. PICK e, f, g \in Nat :
        /\ Received(e) /\ Cut(e, f) /\ stream = Part(e, f) /\ Sending(g)
        /\ conn # "closed" \/ fin \/ reason = "complete" => f = g
  BY DEF Flow
<1>d. PICK w, d \in Nat : Stored(w) /\ Tiles(diskCh, w, d) /\ Cut(d, e) /\ rHeld = Part(d, e)
  BY <1>f DEF Received
<1>h. rPc # "forward" => d = e
  BY <1>d, NoPart DEF Order, ReceiverOrder
<1>1. CASE ReceiveRequest \/ Approve \/ RespondFails \/ RequestLost \/ Refuse \/ ReceiverLookUp
           \/ ReceiverPassCheck
  <2>1. UNCHANGED <<ReceiverInputs, SenderInputs, stream, conn, fin, reason>>
    BY <1>1 DEF ReceiveRequest, Approve, RespondFails, RequestLost, Refuse, ReceiverLookUp,
       ReceiverPassCheck, ReceiverReturns, senderVars, readerVars, connVars, writerVars, worldVars,
       ReceiverInputs, SenderInputs
  <2>2. rPc # "done"
    BY <1>1 DEF ReceiveRequest, Approve, RespondFails, RequestLost, Refuse, ReceiverLookUp,
       ReceiverPassCheck
  <2> QED
    BY <2>1, <2>2, FlowKept DEF Counts, Whole
<1>2. CASE Respond
  <2>1. /\ UNCHANGED <<diskCh, rHeld, stream, rdPc, sHeld, dataCh, conn, fin, reason>>
        /\ wrPc' = "opening" /\ offset' = Aligned
    BY <1>2 DEF Respond, senderVars, readerVars
  <2>2. /\ wrPc = "off" /\ rdPc = "off" /\ offset = 0 /\ rPc # "forward"
        /\ diskCh = <<>> /\ stream = <<>> /\ sHeld = <<>> /\ dataCh = <<>>
    BY <1>2 DEF Respond, Order, SenderOrder, ReceiverOrder, ReceiverLoop
  <2>3. w = offset /\ d = w /\ e = d /\ f = e /\ g = offset
    <3>1. w = offset /\ g = offset
      BY <1>d, <1>f, <2>2 DEF Stored, Sending
    <3>2. d = w
      BY <1>d, <2>2, TilesNothing
    <3>3. f = e
      BY <1>f, <2>2, NoPart
    <3> QED
      BY <1>h, <2>2, <3>1, <3>2, <3>3
  <2>4. PICK a \in Nat : a = Aligned
    BY AlignedType
  <2>5. Cut(a, a) /\ Part(a, a) = <<>> /\ Tiles(<<>>, a, a)
    BY CutSelf, TilesNothing
  <2>6. rHeld = <<>>
    BY <2>2 DEF Order, ReceiverOrder
  <2>7. Received(a)'
    BY <2>1, <2>2, <2>4, <2>5, <2>6 DEF Received, Stored
  <2>8. Sending(a)'
    BY <2>1, <2>2, <2>4 DEF Sending
  <2> QED
    BY <2>1, <2>2, <2>5, <2>7, <2>8 DEF Flow
<1>3. CASE ReadSome
  <2>1. PICK n \in 1..Smaller(Len(stream), Chunk) :
          rHeld' = Prefix(stream, n) /\ stream' = Drop(stream, n)
    BY <1>3 DEF ReadSome
  <2>2. /\ UNCHANGED <<SenderInputs, writerVars, isResume, prior, conn, fin, reason, rResult>>
        /\ rPc = "read" /\ rPc' = "forward"
    BY <1>3 DEF ReadSome, senderVars, readerVars, worldVars, SenderInputs
  <2>3. n \in 0..(f - e) /\ e + n \in Nat
    <3>1. stream \in Seq(Unit) /\ Len(stream) = f - e
      BY <1>f, PartType
    <3> QED
      BY <2>1, <3>1, SizeAssumption DEF Smaller
  <2>4. /\ Cut(e, e + n) /\ Prefix(stream, n) = Part(e, e + n)
        /\ Cut(e + n, f) /\ Drop(stream, n) = Part(e + n, f)
    BY <1>f, <2>3, PartSplit
  <2>5. Stored(w)'
    BY <1>d, <2>2 DEF Stored, Kept, Before, writerVars, SenderInputs
  <2>6. Received(e + n)'
    BY <1>d, <1>h, <2>1, <2>2, <2>4, <2>5 DEF Received, writerVars
  <2>7. Sending(g)'
    BY <1>f, <2>2, SendingKept
  <2> QED
    BY <1>f, <2>1, <2>2, <2>3, <2>4, <2>6, <2>7 DEF Flow
<1>4. CASE Forward
  <2>1. /\ UNCHANGED <<SenderInputs, wrPc, disk, rHash, isResume, prior, stream, conn, fin, reason,
                       rResult>>
        /\ rPc = "forward" /\ rPc' = "gate" /\ diskCh' = Append(diskCh, rHeld) /\ rHeld' = <<>>
    BY <1>4 DEF Forward, senderVars, readerVars, connVars, worldVars, SenderInputs
  <2>2. diskCh \in Seq(Seq(Unit)) /\ rHeld \in Seq(Unit)
    BY DEF TypeOK, WriterOK, ReceiverOK
  <2>3. Tiles(diskCh', w, e)
    BY <1>d, <2>1, <2>2, TilesAppend
  <2>4. Stored(w)'
    BY <1>d, <2>1 DEF Stored, Kept, Before, SenderInputs
  <2>5. Cut(e, e) /\ Part(e, e) = <<>>
    BY CutSelf
  <2>6. Received(e)'
    BY <2>1, <2>3, <2>4, <2>5 DEF Received
  <2>7. Sending(g)'
    BY <1>f, <2>1, SendingKept
  <2> QED
    BY <1>f, <2>1, <2>6, <2>7 DEF Flow
<1>5. CASE CancelReceive \/ ReadFails \/ ForwardFails
  BY <1>5 DEF CancelReceive, ReadFails, ForwardFails, LeaveLoop, Voided
<1>6. CASE ReadEnd
  <2>1. /\ UNCHANGED <<SenderInputs, writerVars, isResume, prior, stream, conn, fin>>
        /\ rPc = "read" /\ rHeld' = <<>> /\ fin
    BY <1>6 DEF ReadEnd, LeaveLoop, senderVars, readerVars, connVars, worldVars, SenderInputs
  <2>2. UNCHANGED <<ReceiverInputs, SenderInputs, stream>>
    BY <2>1 DEF Order, ReceiverOrder, ReceiverInputs, SenderInputs
  <2> QED
    BY <2>1, <2>2, FlowKept DEF Counts, Whole
<1>7. CASE WriterLost \/ Discard
  BY <1>7 DEF WriterLost, Discard, Voided, Order, ReceiverOrder, TypeOK, ReceiverOK
<1>8. CASE Complete
  <2>1. UNCHANGED <<ReceiverInputs, SenderInputs, stream, conn, fin, reason>> /\ rPc = "drain"
    BY <1>8 DEF Complete, ReceiverReturns, senderVars, readerVars, connVars, writerVars, worldVars,
       ReceiverInputs, SenderInputs
  <2> QED
    BY <2>1, FlowKept DEF Counts, Whole
<1> QED
  BY <1>1, <1>2, <1>3, <1>4, <1>5, <1>6, <1>7, <1>8 DEF ReceiverStep

LEMMA WriterFlow == TypeOK /\ Order /\ Flow /\ WriterStep => Voided' \/ Flow'
<1> SUFFICES ASSUME TypeOK, Order, Flow, WriterStep PROVE Voided' \/ Flow'
  OBVIOUS
<1>f. PICK e, f, g \in Nat :
        /\ Received(e) /\ Cut(e, f) /\ stream = Part(e, f) /\ Sending(g)
        /\ conn # "closed" \/ fin \/ reason = "complete" => f = g
  BY DEF Flow
<1>d. PICK w, d \in Nat : Stored(w) /\ Tiles(diskCh, w, d) /\ Cut(d, e) /\ rHeld = Part(d, e)
  BY <1>f DEF Received
<1>u. UNCHANGED <<SenderInputs, rPc, rResult, rHeld, isResume, offset, prior, stream, conn, fin,
                  reason>>
  BY DEF WriterStep, WriterOpen, WriterWrite, WriterEnd, WriterFails, senderVars, readerVars, connVars,
     receiverVars, worldVars, SenderInputs
<1>s. Sending(g)'
  BY <1>f, <1>u, SendingKept
<1>1. ASSUME Received(e)' PROVE Flow'
  BY <1>f, <1>u, <1>s, <1>1 DEF Flow
<1>b. Before \in Seq(Unit) /\ Kept \in Seq(Unit)
  <2>1. CASE isResume
    BY <2>1, PrefixType DEF Order, ReceiverOrder, Before, Kept
  <2>2. CASE ~isResume
    <3>1. offset = 0 /\ Before = <<>>
      BY <2>2 DEF Order, ReceiverOrder, Before
    <3> QED
      BY <3>1, SubSeqEmpty, EmptySeq DEF Kept, Prefix
  <2> QED
    BY <2>1, <2>2
<1>2. CASE WriterOpen
  <2>1. wrPc = "opening" /\ wrPc' = "run" /\ diskCh' = diskCh
    BY <1>2 DEF WriterOpen
  <2>2. w = offset /\ offset \in Nat
    BY <1>d, <2>1 DEF Stored, TypeOK, ReceiverOK
  <2>3. disk' = Before /\ rHash' = Kept
    <3>1. CASE isResume
      BY <1>2, <3>1 DEF WriterOpen, Order, ReceiverOrder, Before, Kept
    <3>2. CASE ~isResume
      <4>1. offset = 0 /\ Before = <<>>
        BY <3>2 DEF Order, ReceiverOrder, Before
      <4> QED
        BY <1>2, <3>2, <4>1, SubSeqEmpty DEF WriterOpen, Kept, Prefix
    <3> QED
      BY <3>1, <3>2
  <2>4. Cut(offset, offset) /\ Part(offset, offset) = <<>>
    BY <2>2, CutSelf
  <2>5. disk' = Before \o Part(offset, offset) /\ rHash' = Kept \o Part(offset, offset)
    BY <1>b, <2>3, <2>4, ConcatEmptySeq
  <2>6. Stored(w)'
    BY <1>u, <2>1, <2>2, <2>4, <2>5 DEF Stored, Kept, Before
  <2>7. Received(e)'
    BY <1>d, <1>u, <2>1, <2>6 DEF Received
  <2> QED
    BY <1>1, <2>7
<1>3. CASE WriterWrite
  <2>1. /\ wrPc = "run" /\ wrPc' = wrPc /\ diskCh # <<>> /\ diskCh' = Tail(diskCh)
        /\ disk' = disk \o Head(diskCh) /\ rHash' = rHash \o Head(diskCh)
    BY <1>3 DEF WriterWrite, writerVars
  <2>2. diskCh \in Seq(Seq(Unit)) /\ rPc # "done"
    BY <2>1 DEF TypeOK, WriterOK, Order, ReceiverOrder
  <2>3. PICK m \in Nat : Cut(w, m) /\ Head(diskCh) = Part(w, m) /\ Tiles(Tail(diskCh), m, d)
    BY <1>d, <2>1, <2>2, TilesHead
  <2>4. /\ Cut(offset, w) /\ rHash = Kept \o Part(offset, w)
        /\ disk = Before \o Part(offset, w)
    BY <1>d, <2>1, <2>2 DEF Stored
  <2>5. Cut(offset, m) /\ Part(offset, w) \o Part(w, m) = Part(offset, m)
    BY <2>3, <2>4, PartJoin
  <2>6. Part(offset, w) \in Seq(Unit) /\ Part(w, m) \in Seq(Unit)
    BY <2>3, <2>4, PartType
  <2>7. (Kept \o Part(offset, w)) \o Part(w, m) = Kept \o (Part(offset, w) \o Part(w, m))
    BY <1>b, <2>6, ConcatAssociative, SMTT(30)
  <2>a. (Before \o Part(offset, w)) \o Part(w, m) = Before \o (Part(offset, w) \o Part(w, m))
    BY <1>b, <2>6, ConcatAssociative, SMTT(30)
  <2>8. rHash' = Kept \o Part(offset, m) /\ disk' = Before \o Part(offset, m)
    BY <2>1, <2>3, <2>4, <2>5, <2>7, <2>a, Zenon
  <2>9. Stored(m)'
    BY <1>u, <2>1, <2>5, <2>8 DEF Stored, Kept, Before
  <2>10. Received(e)'
    BY <1>d, <1>u, <2>1, <2>3, <2>9 DEF Received
  <2> QED
    BY <1>1, <2>10
<1>4. CASE WriterEnd
  <2>1. wrPc = "run" /\ wrPc' = "ok" /\ UNCHANGED <<diskCh, disk, rHash>>
    BY <1>4 DEF WriterEnd
  <2>2. Stored(w)'
    BY <1>d, <1>u, <2>1 DEF Stored, Kept, Before
  <2>3. Received(e)'
    BY <1>d, <1>u, <2>1, <2>2 DEF Received
  <2> QED
    BY <1>1, <2>3
<1>5. CASE WriterFails
  BY <1>5 DEF WriterFails, Voided
<1> QED
  BY <1>2, <1>3, <1>4, <1>5 DEF WriterStep

LEMMA UserFlow == Flow /\ UserStep => Flow'
<1> SUFFICES ASSUME Flow, UserStep PROVE Flow'
  OBVIOUS
<1>1. UNCHANGED <<ReceiverInputs, SenderInputs, stream, conn, fin, reason, rPc, rResult>>
  BY DEF UserStep, PauseSender, ResumeSender, CancelSender, PauseReceiver, ResumeReceiver,
     CancelReceiver, senderVars, readerVars, connVars, receiverVars, writerVars, worldVars,
     ReceiverInputs, SenderInputs
<1> QED
  BY <1>1, FlowKept DEF Counts, Whole

LEMMA FlowStep == TypeOK /\ Order /\ (Voided \/ Flow) /\ [Next]_vars => (Voided \/ Flow)'
<1>1. Flow /\ UNCHANGED vars => Flow'
  <2> SUFFICES ASSUME Flow, UNCHANGED vars PROVE Flow'
    OBVIOUS
  <2>1. UNCHANGED <<ReceiverInputs, SenderInputs, stream, conn, fin, reason, rPc, rResult>>
    BY DEF vars, senderVars, readerVars, connVars, receiverVars, writerVars, worldVars,
       ReceiverInputs, SenderInputs
  <2> QED
    BY <2>1, FlowKept DEF Counts, Whole
<1> QED
  BY <1>1, StepCases, VoidedStays, NetworkFlow, SenderFlow, ReaderFlow, ReceiverFlow, WriterFlow,
     UserFlow

-----------------------------------------------------------------------------
(* The theorems *)

\* Types, order and the units on their way are one inductive invariant.
LEMMA Invariant == SafeSpec => []Inv
<1>1. Init => Inv
  BY InitTypes, InitOrder, InitFlow DEF Inv, Order
<1>2. Inv /\ [Next]_vars => Inv'
  <2>1. Inv /\ [Next]_vars => TypeOK' /\ Order' /\ SenderHash' /\ (Voided \/ Flow)'
    BY StepTypes, StepOrder, HashStep, FlowStep DEF Inv, Order
  <2> QED
    BY <2>1 DEF Inv, Order
<1> QED
  BY <1>1, <1>2, PTL DEF SafeSpec

\* The type invariant, for every size of the file, the chunks and the channels:
\* each task leaves every variable in its type whatever else may happen.
THEOREM TypeCorrect == SafeSpec => []TypeOK
<1>1. Inv => TypeOK
  BY DEF Inv
<1> QED
  BY <1>1, Invariant, PTL

\* An entry outlives its transfer on the failure paths only: the registries are
\* left clean by every cancel, refusal and completion.
THEOREM LeakTellsFailure == SafeSpec => []LeakOnlyOnFailure
<1>1. Inv => LeakOnlyOnFailure
  BY DEF Inv
<1> QED
  BY <1>1, Invariant, PTL

\* When the receiver is complete and the sender's reader task came to the end of
\* the file, everything the reader task read has been stored.
LEMMA AllArrived ==
  ASSUME Inv, rResult = "complete", rdPc # "failed", sPc = "join" \/ sResult = "ok"
  PROVE  /\ Cut(offset, rdNext) /\ rdNext >= Size
         /\ rHash = Kept \o Part(offset, rdNext) /\ disk = Before \o Part(offset, rdNext)
<1>1. /\ reason = "complete" /\ wrPc = "ok" /\ rPc = "done" /\ stream = <<>>
      /\ diskCh = <<>> /\ rHeld = <<>>
  BY DEF Inv, ReceiverOrder
<1>2. /\ sHeld = <<>> /\ dataCh = <<>> /\ rdPc = "ok" /\ rdNext >= Size
  BY DEF Inv, SenderOrder
<1>3. PICK e, f, g \in Nat :
        /\ Received(e) /\ Cut(e, f) /\ stream = Part(e, f) /\ Sending(g)
        /\ conn # "closed" \/ fin \/ reason = "complete" => f = g
  BY <1>1, <1>2 DEF Inv, Voided, Flow
<1>4. PICK w, d \in Nat : Stored(w) /\ Tiles(diskCh, w, d) /\ Cut(d, e) /\ rHeld = Part(d, e)
  BY <1>3 DEF Received
<1>5. PICK h \in Nat : Cut(g, h) /\ sHeld = Part(g, h) /\ Tiles(dataCh, h, rdNext)
  BY <1>2, <1>3 DEF Sending
<1>6. w = d /\ h = rdNext
  BY <1>1, <1>2, <1>4, <1>5, TilesNothing
<1>7. d = e /\ e = f /\ f = g /\ g = h
  BY <1>1, <1>2, <1>3, <1>4, <1>5, NoPart
<1>8. w = rdNext
  BY <1>6, <1>7
<1> QED
  BY <1>1, <1>2, <1>4, <1>8 DEF Stored

\* What the receiver kept, if it is what the sender skipped.
LEMMA KeptIsSkipped ==
  ASSUME Inv
  PROVE  /\ Kept \in Seq(Unit) /\ Len(Kept) = offset
         /\ SamePrefix => Kept = Prefix(Source, Smaller(offset, Size))
         /\ NothingBeyond => Before = Kept
<1>1. CASE isResume
  <2>1. prior \in Seq(Unit) /\ offset \in 0..Len(prior) /\ Before = prior
    BY <1>1 DEF Inv, ReceiverOrder, Before
  <2>2. Kept = Prefix(prior, offset) /\ Kept \in Seq(Unit) /\ Len(Kept) = offset
    BY <2>1, PrefixType DEF Kept
  <2>3. Prefix(prior, Len(prior)) = prior
    <3>1. /\ Len(prior) \in 0..Len(prior)
      BY <2>1, LenProperties
    <3>2. /\ Prefix(prior, Len(prior)) \in Seq(Unit) /\ Len(Prefix(prior, Len(prior))) = Len(prior)
          /\ \A i \in 1..Len(prior) : Prefix(prior, Len(prior))[i] = prior[i]
      BY <2>1, <3>1, PrefixType
    <3> QED
      BY <2>1, <3>2, SeqEqual
  <2> QED
    BY <1>1, <2>1, <2>2, <2>3 DEF SamePrefix, NothingBeyond
<1>2. CASE ~isResume
  <2>1. offset = 0 /\ Before = <<>>
    BY <1>2 DEF Inv, ReceiverOrder, Before
  <2>2. Kept = <<>>
    BY <2>1, SubSeqEmpty DEF Kept, Prefix
  <2>3. Smaller(offset, Size) = 0
    BY <2>1, SizeAssumption DEF Smaller
  <2>4. Prefix(Source, 0) = <<>>
    BY SourceType, SubSeqEmpty DEF Prefix
  <2> QED
    BY <2>1, <2>2, <2>3, <2>4, EmptySeq
<1> QED
  BY <1>1, <1>2

\* Two sides that both succeed hashed the same units, whenever what was kept of
\* an existing file is what the sender skipped.
THEOREM HashesTell == SafeSpec => []HashesAgree
<1>1. Inv => HashesAgree
  <2> SUFFICES ASSUME Inv, sResult = "ok", rResult = "complete", SamePrefix PROVE rHash = sHash
    BY DEF HashesAgree
  <2>1. rdPc = "ok" /\ start = offset
    BY DEF Inv, SenderOrder
  <2>2. rHash = Kept \o Part(offset, rdNext)
    BY <2>1, AllArrived
  <2>3. sHash = Prefix(Source, Smaller(offset, Size)) \o Part(offset, rdNext)
    BY <2>1 DEF Inv, SenderHash
  <2> QED
    BY <2>2, <2>3, KeptIsSkipped
<1> QED
  BY <1>1, Invariant, PTL

\* A transfer that succeeds on both sides leaves the file that was sent, if no
\* unit that the receiver kept is wrong or lies beyond the offset.
THEOREM CompleteTells == SafeSpec => []CompleteIsExact
<1>1. Inv => CompleteIsExact
  <2> SUFFICES ASSUME Inv, sResult = "ok", rResult = "complete", SamePrefix, NothingBeyond
               PROVE  disk = Source
    BY DEF CompleteIsExact
  <2>1. rdPc = "ok"
    BY DEF Inv, SenderOrder
  <2>2. /\ Cut(offset, rdNext) /\ rdNext >= Size
        /\ disk = Prefix(Source, Smaller(offset, Size)) \o Part(offset, rdNext)
    BY <2>1, AllArrived, KeptIsSkipped
  <2>3. rdNext \in Nat /\ offset \in Nat /\ Size \in Nat
    BY SizeAssumption DEF Inv, TypeOK, ReaderOK, ReceiverOK
  <2>4. Source = Part(0, Size) /\ \A n : Prefix(Source, n) = Part(0, n)
    <3>1. \A n : Prefix(Source, n) = Part(0, n)
      BY DEF Prefix, Part
    <3>2. Cut(0, Size)
      BY SizeAssumption DEF Cut
    <3>3. /\ Part(0, Size) \in Seq(Unit) /\ Len(Part(0, Size)) = Size
          /\ \A i \in 1..Size : Part(0, Size)[i] = Source[i]
      BY <2>3, <3>2, PartType
    <3> QED
      BY <3>1, <3>3, SourceType, SeqEqual
  <2>5. CASE offset <= Size
    <3>1. Smaller(offset, Size) = offset /\ rdNext = Size /\ Cut(0, offset)
      BY <2>2, <2>3, <2>5 DEF Smaller, Cut
    <3>2. Part(0, offset) \o Part(offset, Size) = Part(0, Size)
      BY <2>2, <3>1, PartJoin
    <3> QED
      BY <2>2, <2>4, <3>1, <3>2
  <2>6. CASE ~(offset <= Size)
    <3>1. Smaller(offset, Size) = Size /\ rdNext = offset
      BY <2>2, <2>3, <2>6 DEF Smaller, Cut
    <3>2. Part(offset, rdNext) = <<>>
      BY <2>3, <3>1, CutSelf
    <3> QED
      BY <2>2, <2>4, <3>1, <3>2, SourceType, ConcatEmptySeq
  <2> QED
    BY <2>5, <2>6
<1> QED
  BY <1>1, Invariant, PTL

\* A file that is reported complete and is too short comes from a sender that
\* failed or was cancelled: alpn.rs compares neither size nor hash, so this is all
\* that its "complete" promises.
THEOREM TruncationTells == SafeSpec => []TruncationMeansFailure
<1>1. Inv => TruncationMeansFailure
  <2> SUFFICES ASSUME Inv, rResult = "complete", rdPc # "failed",
                      sResult \notin {"failed", "cancelled"}
               PROVE  ~(Len(rHash) < Size)
    BY DEF TruncationMeansFailure
  <2>1. sPc = "join" \/ sResult = "ok"
    <3>1. reason = "complete" /\ rResult # "refused"
      BY DEF Inv, ReceiverOrder
    <3> QED
      BY <3>1 DEF Inv, SenderOrder, TypeOK, SenderOK, SenderResults
  <2>2. Cut(offset, rdNext) /\ rdNext >= Size /\ rHash = Kept \o Part(offset, rdNext)
    BY <2>1, AllArrived
  <2>3. Part(offset, rdNext) \in Seq(Unit) /\ Len(Part(offset, rdNext)) = rdNext - offset
    BY <2>2, PartType
  <2>4. Len(rHash) = offset + (rdNext - offset)
    <3>1. Kept \in Seq(Unit) /\ Len(Kept) = offset
      BY KeptIsSkipped
    <3>2. Len(Kept \o Part(offset, rdNext)) = Len(Kept) + Len(Part(offset, rdNext))
      BY <2>3, <3>1, ConcatProperties
    <3> QED
      BY <2>2, <2>3, <3>1, <3>2
  <2>5. rdNext \in Nat /\ offset \in Nat /\ Size \in Nat
    BY SizeAssumption DEF Inv, TypeOK, ReaderOK, ReceiverOK
  <2> QED
    BY <2>2, <2>4, <2>5
<1> QED
  BY <1>1, Invariant, PTL

-----------------------------------------------------------------------------
(* Progress: the two functions and their tasks never wait in a circle *)

\* Each side's wait for the other one ends: the request is there until it is
\* read, the answer until it is, for as long as the connection is open.
Linked ==
  /\ sPc \notin {"connect", "done"} => rPc # "idle"
  /\ rPc # "idle" => conn # "none"
  /\ sPc = "await" /\ conn = "open" =>
       /\ rPc = "request" => request
       /\ rPc \in ReceiverLoop \cup {"drain"} => reply.kind = "accepted"
  /\ reply \in {None, Refusal} \/ reply.kind = "accepted"

\* No chunk is empty, so each of them can be written, or longer than a read.
Nonempty ==
  /\ \A i \in 1..Len(dataCh) : dataCh[i] # <<>> /\ Len(dataCh[i]) <= Chunk
  /\ sPc = "write" => sHeld # <<>>

linkVars == <<sPc, rPc, conn, request, reply>>

LEMMA LinkedUnchanged == Linked /\ UNCHANGED linkVars => Linked'
  BY DEF Linked, linkVars

LEMMA InitLinked == Init => Linked /\ Nonempty
  BY DEF Init, Linked, Nonempty, None

LEMMA NetworkLinked == Linked /\ Network => Linked'
<1> SUFFICES ASSUME Linked, Network PROVE Linked'
  OBVIOUS
<1>1. CASE FinishDropped
  BY <1>1, LinkedUnchanged DEF FinishDropped, linkVars, senderVars, receiverVars
<1>2. CASE Close(TRUE) \/ Close(FALSE)
  <2>1. UNCHANGED <<sPc, rPc>> /\ conn' = "closed" /\ reply' \in {None, reply}
    BY <1>2 DEF Close, senderVars, receiverVars
  <2> QED
    BY <2>1 DEF Linked
<1> QED
  BY <1>1, <1>2, CloseCases DEF Network

LEMMA SenderLinked == TypeOK /\ Order /\ Linked /\ SenderStep => Linked'
<1> SUFFICES ASSUME TypeOK, Order, Linked, SenderStep PROVE Linked'
  OBVIOUS
<1>1. CASE SendRequest
  BY <1>1 DEF SendRequest, Linked, ReceiverLoop
<1>2. CASE ConnectFails \/ RequestNotSent
  <2>1. sPc' = "done" /\ UNCHANGED <<rPc, conn, request, reply>>
    BY <1>2 DEF ConnectFails, RequestNotSent, SenderReturns, connVars, receiverVars
  <2> QED
    BY <2>1 DEF Linked
<1>3. CASE RequestFails
  <2>1. sPc' = "done" /\ UNCHANGED <<rPc, conn, request>> /\ reply' \in {None, reply}
    BY <1>3 DEF RequestFails, SenderReturns, receiverVars
  <2> QED
    BY <2>1 DEF Linked
<1>4. CASE ReceiveAcceptance
  <2>1. sPc = "await" /\ sPc' = "gate" /\ UNCHANGED <<rPc, conn, request>> /\ reply' = None
    BY <1>4 DEF ReceiveAcceptance, receiverVars
  <2> QED
    BY <2>1 DEF Linked
<1>5. CASE LookUp \/ PassCheck \/ Dequeue \/ WriteSome \/ Finish
  <2>1. sPc \in SenderLoop /\ sPc' \in SenderLoop \cup {"join"} /\ UNCHANGED <<rPc, conn, request, reply>>
    BY <1>5 DEF LookUp, PassCheck, Dequeue, WriteSome, Finish, LoopEnds, SenderLoop, connVars, receiverVars
  <2> QED
    BY <2>1 DEF Linked, SenderLoop
<1>6. CASE CancelSend \/ WriteFails \/ ReturnHash \/ FinishFails
  <2>1. sPc' = "done" /\ UNCHANGED <<rPc, conn, request, reply>>
    BY <1>6 DEF CancelSend, WriteFails, ReturnHash, FinishFails, SenderReturns, connVars, receiverVars
  <2> QED
    BY <2>1 DEF Linked
<1> QED
  BY <1>1, <1>2, <1>3, <1>4, <1>5, <1>6 DEF SenderStep

LEMMA ReceiverLinked == Linked /\ (ReceiverStep \/ Refuse \/ Approve) => Linked'
<1> SUFFICES ASSUME Linked, ReceiverStep \/ Refuse \/ Approve PROVE Linked'
  OBVIOUS
<1>u. UNCHANGED <<sPc, conn>>
  BY DEF ReceiverStep, Refuse, Approve, ReceiveRequest, RequestLost, Respond, RespondFails,
     ReceiverLookUp, ReceiverPassCheck, ReadSome, Forward, CancelReceive, ReadEnd, ReadFails,
     ForwardFails, LeaveLoop, WriterLost, Discard, Complete, senderVars, connVars
<1>1. CASE ReceiveRequest \/ Approve
  <2>1. rPc # "idle" /\ rPc' \in {"prompt", "respond"} /\ reply' = reply
    BY <1>1 DEF ReceiveRequest, Approve, connVars
  <2> QED
    BY <1>u, <2>1 DEF Linked, ReceiverLoop
<1>2. CASE Refuse
  <2>1. rPc # "idle" /\ rPc' = "done" /\ reply' \in {None, Refusal}
    BY <1>2 DEF Refuse, ReceiverReturns
  <2> QED
    BY <1>u, <2>1 DEF Linked, ReceiverLoop
<1>3. CASE Respond
  <2>1. rPc # "idle" /\ rPc' = "gate" /\ reply' = Acceptance(Aligned)
    BY <1>3 DEF Respond
  <2> QED
    BY <1>u, <2>1 DEF Linked, ReceiverLoop, Acceptance
<1>4. CASE RequestLost \/ RespondFails \/ WriterLost \/ Discard \/ Complete
  <2>1. rPc # "idle" /\ rPc' = "done" /\ reply' = reply
    BY <1>4 DEF RequestLost, RespondFails, WriterLost, Discard, Complete, ReceiverReturns, connVars
  <2> QED
    BY <1>u, <2>1 DEF Linked, ReceiverLoop
<1>5. CASE ReceiverLookUp \/ ReceiverPassCheck \/ ReadSome \/ Forward
           \/ CancelReceive \/ ReadEnd \/ ReadFails \/ ForwardFails
  <2>1. rPc \in ReceiverLoop /\ rPc' \in ReceiverLoop \cup {"drain"} /\ reply' = reply
    BY <1>5 DEF ReceiverLookUp, ReceiverPassCheck, ReadSome, Forward, CancelReceive, ReadEnd,
       ReadFails, ForwardFails, LeaveLoop, ReceiverLoop, connVars
  <2> QED
    BY <1>u, <2>1 DEF Linked, ReceiverLoop
<1> QED
  BY <1>1, <1>2, <1>3, <1>4, <1>5 DEF ReceiverStep

\* Only the reader task puts chunks into the channel, and only when there is
\* something left to read.
LEMMA StepNonempty == TypeOK /\ Nonempty /\ [Next]_vars => Nonempty'
<1> SUFFICES ASSUME TypeOK, Nonempty, [Next]_vars PROVE Nonempty'
  OBVIOUS
<1>t. dataCh \in Seq(Seq(Unit)) /\ sHeld \in Seq(Unit) /\ stream \in Seq(Unit) /\ rdNext \in Nat
  BY DEF TypeOK, ReaderOK, SenderOK, ConnOK
<1>1. CASE ReaderChunk
  <2>1. PICK next, chunk : /\ next = Smaller(rdNext + Chunk, Size) /\ rdNext < Size
                           /\ chunk = SubSeq(Source, rdNext + 1, next)
                           /\ dataCh' = Append(dataCh, chunk) /\ UNCHANGED senderVars
    BY <1>1 DEF ReaderChunk
  <2>2. rdNext < next /\ next <= Size /\ next <= rdNext + Chunk /\ next \in Nat
    BY <1>t, <2>1, SizeAssumption DEF Smaller
  <2>3. Len(chunk) = next - rdNext /\ chunk \in Seq(Unit)
    <3>1. \A i \in (rdNext + 1)..next : Source[i] \in Unit
      BY <1>t, <2>2, SourceType
    <3> QED
      BY <1>t, <2>1, <2>2, <3>1, SourceType, SubSeqProperties
  <2>4. chunk # <<>> /\ Len(chunk) <= Chunk
    BY <1>t, <2>2, <2>3, SizeAssumption
  <2>5. Len(dataCh') = Len(dataCh) + 1 /\ dataCh'[Len(dataCh) + 1] = chunk /\ Len(dataCh) \in Nat
        /\ \A j \in 1..Len(dataCh) : dataCh'[j] = dataCh[j]
    BY <1>t, <2>1, <2>3, AppendProperties
  <2>6. \A i \in 1..Len(dataCh') : dataCh'[i] = chunk \/ \E j \in 1..Len(dataCh) : dataCh'[i] = dataCh[j]
    BY <2>5
  <2>7. \A i \in 1..Len(dataCh') : dataCh'[i] # <<>> /\ Len(dataCh'[i]) <= Chunk
    BY <2>4, <2>6 DEF Nonempty
  <2> QED
    BY <2>1, <2>7 DEF Nonempty, senderVars
<1>2. CASE Dequeue
  <2>1. /\ dataCh # <<>> /\ sHeld' = Head(dataCh) /\ dataCh' = Tail(dataCh)
    BY <1>2 DEF Dequeue
  <2>2. Len(dataCh) \in Nat \ {0} /\ Head(dataCh) = dataCh[1] /\ Len(Tail(dataCh)) = Len(dataCh) - 1
        /\ \A i \in 1..Len(Tail(dataCh)) : Tail(dataCh)[i] = dataCh[i + 1]
    BY <1>t, <2>1, HeadTailProperties, EmptySeq
  <2>3. \A i \in 1..Len(Tail(dataCh)) : i + 1 \in 1..Len(dataCh)
    BY <2>2
  <2>4. 1 \in 1..Len(dataCh)
    BY <2>2
  <2> QED
    BY <2>1, <2>2, <2>3, <2>4 DEF Nonempty
<1>3. CASE WriteSome
  <2>1. PICK n \in 1..Smaller(Len(sHeld), Wire - Len(stream)) :
          sHeld' = Drop(sHeld, n) /\ sPc' = (IF n = Len(sHeld) THEN "gate" ELSE "write")
    BY <1>3 DEF WriteSome
  <2>2. Len(sHeld) \in Nat /\ Len(stream) \in Nat /\ n \in Nat /\ n <= Len(sHeld) /\ n >= 1
    BY <1>t, <2>1, CapacityAssumption DEF Smaller
  <2>3. sPc' = "write" => n < Len(sHeld)
    BY <2>1, <2>2
  <2>4. n < Len(sHeld) => Len(Drop(sHeld, n)) = Len(sHeld) - n
    <3>1. \A i \in (n + 1)..Len(sHeld) : sHeld[i] \in Unit
      BY <1>t, <2>2, ElementOfSeq
    <3> QED
      BY <1>t, <2>2, <3>1, SubSeqProperties DEF Drop
  <2>5. sPc' = "write" => sHeld' # <<>>
    BY <2>1, <2>2, <2>3, <2>4
  <2> QED
    BY <1>3, <2>5 DEF Nonempty, WriteSome, readerVars
<1>4. CASE UNCHANGED dataCh /\ sPc' # "write"
  BY <1>4 DEF Nonempty
<1>5. CASE UNCHANGED <<dataCh, sPc, sHeld>>
  BY <1>5 DEF Nonempty
<1>6. CASE SenderStep /\ ~Dequeue /\ ~WriteSome
  BY <1>4, <1>6 DEF SenderStep, SendRequest, ConnectFails, RequestNotSent, RequestFails,
     ReceiveAcceptance, LookUp, PassCheck, CancelSend, WriteFails, Finish, ReturnHash, FinishFails,
     SenderReturns, readerVars
<1>7. CASE Network \/ (ReaderStep /\ ~ReaderChunk) \/ ReceiverStep \/ Refuse \/ Approve \/ WriterStep
           \/ UserStep \/ UNCHANGED vars
  <2>1. CASE Network
    BY <1>5, <2>1, CloseCases DEF Network, FinishDropped, Close, senderVars, readerVars
  <2>2. CASE ReaderStep /\ ~ReaderChunk
    BY <1>5, <2>2 DEF ReaderStep, ReaderOpen, ReaderEnd, ReaderFails, senderVars
  <2>3. CASE ReceiverStep \/ Refuse \/ Approve
    BY <1>5, <2>3 DEF ReceiverStep, Refuse, Approve, ReceiveRequest, RequestLost, Respond, RespondFails,
       ReceiverLookUp, ReceiverPassCheck, ReadSome, Forward, CancelReceive, ReadEnd, ReadFails,
       ForwardFails, LeaveLoop, WriterLost, Discard, Complete, senderVars, readerVars
  <2>4. CASE WriterStep \/ UserStep \/ UNCHANGED vars
    BY <1>5, <2>4 DEF WriterStep, WriterOpen, WriterWrite, WriterEnd, WriterFails, UserStep, PauseSender,
       ResumeSender, CancelSender, PauseReceiver, ResumeReceiver, CancelReceiver, vars, senderVars,
       readerVars
  <2> QED
    BY <1>7, <2>1, <2>2, <2>3, <2>4
<1> QED
  BY <1>1, <1>2, <1>3, <1>6, <1>7, StepCases DEF ReaderStep

LEMMA LinkedStep == TypeOK /\ Order /\ Linked /\ [Next]_vars => Linked'
<1> SUFFICES ASSUME TypeOK, Order, Linked, [Next]_vars PROVE Linked'
  OBVIOUS
<1>1. CASE ReaderStep \/ WriterStep \/ UserStep \/ UNCHANGED vars
  <2>1. UNCHANGED linkVars
    BY <1>1 DEF ReaderStep, ReaderOpen, ReaderChunk, ReaderEnd, ReaderFails, WriterStep, WriterOpen,
       WriterWrite, WriterEnd, WriterFails, UserStep, PauseSender, ResumeSender, CancelSender,
       PauseReceiver, ResumeReceiver, CancelReceiver, linkVars, vars, senderVars, connVars, receiverVars
  <2> QED
    BY <2>1, LinkedUnchanged
<1> QED
  BY <1>1, StepCases, NetworkLinked, SenderLinked, ReceiverLinked

\* Whoever waits is waited for by nobody who could not go on.
LEMMA LinkedNeverCircular == TypeOK /\ Order /\ Linked /\ Nonempty => NeverCircular
<1> SUFFICES ASSUME TypeOK, Order, Linked, Nonempty, ~Over, ~Paused, ~SenderCanGoOn, ~ReaderCanGoOn,
                    ~ReceiverCanGoOn, ~WriterCanGoOn, ~CloseDue
             PROVE  FALSE
  BY DEF NeverCircular
<1>t. /\ sPc \in {"connect", "await", "join", "done"} \cup SenderLoop
      /\ rPc \in {"idle", "request", "prompt", "respond", "drain", "done"} \cup ReceiverLoop
      /\ rdPc \in {"off", "opening", "run", "ok", "failed"}
      /\ wrPc \in {"off", "opening", "run", "ok", "failed"}
      /\ conn \in {"none", "open", "closed"} /\ stream \in Seq(Unit)
      /\ dataCh \in Seq(Seq(Unit)) /\ diskCh \in Seq(Seq(Unit))
  BY DEF TypeOK, SenderOK, ReaderOK, ConnOK, ReceiverOK, WriterOK
<1>o. SenderOrder /\ ReceiverOrder
  BY DEF Order
<1>1. wrPc # "opening" /\ (wrPc = "run" => diskCh = <<>> /\ rPc \in ReceiverLoop)
  BY DEF WriterCanGoOn
<1>2. rdPc # "opening" /\ (rdPc = "run" => sPc \in SenderLoop /\ dataCh # <<>>)
  <2>1. dataCh = <<>> => Len(dataCh) < Chan
    BY CapacityAssumption
  <2> QED
    BY <2>1 DEF ReaderCanGoOn
<1>3. sPc \in {"await", "write", "done"}
  <2>1. sPc # "check"
    BY DEF SenderCanGoOn, Paused
  <2>2. sPc # "dequeue" /\ sPc # "join"
    BY <1>t, <1>o, <1>2 DEF SenderCanGoOn, SenderOrder, SenderLoop
  <2> QED
    BY <1>t, <2>1, <2>2 DEF SenderCanGoOn, SenderLoop
<1>4. rPc \in {"idle", "request", "respond", "read", "done"}
  <2>1. rPc # "check"
    BY DEF ReceiverCanGoOn, Paused
  <2>2. rPc # "forward"
    <3>1. diskCh = <<>> => Len(diskCh) < Chan
      BY CapacityAssumption
    <3> QED
      BY <1>t, <1>o, <1>1, <3>1 DEF ReceiverCanGoOn, ReceiverOrder, ReceiverLoop
  <2>3. rPc # "drain"
    BY <1>t, <1>o, <1>1 DEF ReceiverCanGoOn, ReceiverOrder, ReceiverLoop
  <2> QED
    BY <1>t, <2>1, <2>2, <2>3 DEF ReceiverCanGoOn, ReceiverLoop
<1>5. CASE sPc = "await"
  <2>1. conn = "open" /\ reply.kind # "accepted"
    BY <1>t, <1>5 DEF Linked, SenderCanGoOn
  <2>2. rPc \notin {"idle", "request", "read"}
    BY <1>5, <2>1 DEF Linked, ReceiverCanGoOn, ReceiverLoop
  <2> QED
    BY <1>4, <2>1, <2>2 DEF ReceiverCanGoOn, CloseDue
<1>6. CASE sPc = "write"
  <2>1. conn = "open" /\ stream # <<>>
    <3>1. conn = "open" /\ ~(Len(stream) < Wire)
      BY <1>t, <1>6 DEF Linked, Nonempty, SenderCanGoOn
    <3>2. stream = <<>> => Len(stream) < Wire
      BY CapacityAssumption
    <3> QED
      BY <3>1, <3>2
  <2>2. rPc \in {"read", "done"}
    BY <1>4, <1>6, <1>o DEF SenderOrder, ReceiverOrder, ReceiverLoop
  <2> QED
    BY <2>1, <2>2 DEF ReceiverCanGoOn, CloseDue
<1>7. CASE sPc = "done"
  <2>1. rPc # "idle" => conn = "closed"
    BY <1>t, <1>7 DEF Linked, CloseDue
  <2>2. rPc \in {"idle", "done"}
    BY <1>4, <2>1 DEF ReceiverCanGoOn
  <2> QED
    BY <1>1, <1>2, <1>7, <2>2 DEF Over, SenderLoop, ReceiverLoop
<1> QED
  BY <1>3, <1>5, <1>6, <1>7

\* Neither the two functions, nor the tasks they spawn, nor the connection between
\* them ever wait for each other in a circle.
THEOREM NobodyWaitsInACircle == SafeSpec => []NeverCircular
<1>1. Inv => TypeOK /\ Order
  BY DEF Inv, Order
<1>2. Inv /\ Linked /\ Nonempty /\ [Next]_vars => Linked' /\ Nonempty'
  BY <1>1, LinkedStep, StepNonempty
<1>3. Inv /\ Linked /\ Nonempty => NeverCircular
  BY <1>1, LinkedNeverCircular
<1> QED
  BY <1>2, <1>3, InitLinked, Invariant, PTL DEF SafeSpec

-----------------------------------------------------------------------------
(* Progress: no step is taken over and over *)

\* The parts of Work are numbers, and so is what they are made of.
Counted ==
  /\ SenderWork \in Nat /\ ReaderWork \in Nat /\ ConnWork \in Nat
  /\ ReceiverWork \in Nat /\ WriterWork \in Nat
Measured ==
  /\ Unread \in Nat /\ ReaderRank \in 0..2 /\ SenderRank \in 0..20 /\ ConnRank \in 0..3
  /\ WriterRank \in 0..2 /\ ReceiverWork \in Nat
  /\ Len(dataCh) \in Nat /\ Len(sHeld) \in Nat /\ Len(stream) \in Nat /\ Len(diskCh) \in Nat

LEMMA CostFacts ==
  UnreadCost \in Nat /\ QueuedCost \in Nat /\ UnreadCost = QueuedCost + 1
  /\ QueuedCost = 6 * Chunk + 3 /\ Chunk \in Nat
  BY SizeAssumption DEF UnreadCost, QueuedCost

LEMMA Products ==
  ASSUME NEW c \in Nat, NEW a \in Nat, NEW b \in Nat
  PROVE  /\ c * a \in Nat
         /\ a <= b => c * a <= c * b
         /\ a + 1 <= b => c * a + c <= c * b
         /\ c * (a + 1) = c * a + c
<1>1. c * a \in Nat /\ c * (a + 1) = c * a + c
  OBVIOUS
<1>2. \A x, y \in Nat : x <= y => c * x <= c * y
  <2> SUFFICES ASSUME NEW x \in Nat, NEW y \in Nat, x <= y PROVE c * x <= c * y
    OBVIOUS
  <2>1. PICK k \in Nat : y = x + k
    <3>1. y - x \in Nat /\ y = x + (y - x)
      OBVIOUS
    <3> QED
      BY <3>1
  <2>2. c * y = c * x + c * k /\ c * k \in Nat /\ c * x \in Nat
    BY <2>1
  <2> QED
    BY <2>2
<1>3. a + 1 <= b => c * (a + 1) <= c * b
  BY <1>2
<1> QED
  BY <1>1, <1>2, <1>3

LEMMA TypesMeasured == TypeOK => Measured
<1> SUFFICES ASSUME TypeOK PROVE Measured
  OBVIOUS
<1>1. Len(dataCh) \in Nat /\ Len(sHeld) \in Nat /\ Len(stream) \in Nat /\ Len(diskCh) \in Nat
  BY LenProperties DEF TypeOK, ReaderOK, SenderOK, ConnOK, WriterOK
<1>2. Unread \in Nat
  <2>1. PICK z \in Nat : rdNext = z
    BY DEF TypeOK, ReaderOK
  <2> QED
    BY <2>1, SizeAssumption DEF Unread
<1>3. ReaderRank \in 0..2 /\ SenderRank \in 0..20 /\ WriterRank \in 0..2 /\ ReceiverWork \in Nat
  BY DEF ReaderRank, SenderRank, WriterRank, ReceiverWork
<1>4. ConnRank \in 0..3
  BY DEF ConnRank
<1> QED
  BY <1>1, <1>2, <1>3, <1>4 DEF Measured

LEMMA TypesMeasuredAfter == TypeOK' => Measured'
<1> SUFFICES ASSUME TypeOK' PROVE Measured'
  OBVIOUS
<1>1. Len(dataCh') \in Nat /\ Len(sHeld') \in Nat /\ Len(stream') \in Nat /\ Len(diskCh') \in Nat
  BY LenProperties DEF TypeOK, ReaderOK, SenderOK, ConnOK, WriterOK
<1>2. Unread' \in Nat
  <2>1. PICK z \in Nat : rdNext' = z
    BY DEF TypeOK, ReaderOK
  <2> QED
    BY <2>1, SizeAssumption DEF Unread
<1>3. ReaderRank' \in 0..2 /\ SenderRank' \in 0..20 /\ WriterRank' \in 0..2 /\ ReceiverWork' \in Nat
  BY DEF ReaderRank, SenderRank, WriterRank, ReceiverWork
<1>4. ConnRank' \in 0..3
  BY DEF ConnRank
<1> QED
  BY <1>1, <1>2, <1>3, <1>4 DEF Measured

LEMMA MeasuredCounts == Measured => Counted
<1> SUFFICES ASSUME Measured PROVE Counted
  OBVIOUS
<1>1. PICK a \in Nat, b \in Nat, c \in Nat, d \in Nat :
        Len(dataCh) = a /\ Len(sHeld) = b /\ Len(stream) = c /\ Len(diskCh) = d
  BY DEF Measured
<1>2. PICK u \in Nat, k \in Nat, l \in Nat, m \in Nat, n \in Nat :
        Unread = u /\ ReaderRank = k /\ SenderRank = l /\ ConnRank = m /\ WriterRank = n
  BY DEF Measured
<1>3. SenderWork = 6 * b + l /\ ConnWork = 5 * c + m /\ WriterWork = d + n
  BY <1>1, <1>2 DEF SenderWork, ConnWork, WriterWork
<1>4. UnreadCost * u \in Nat /\ QueuedCost * a \in Nat
  BY CostFacts, Products
<1>5. ReaderWork = UnreadCost * u + QueuedCost * a + k
  BY <1>1, <1>2 DEF ReaderWork
<1>6. ReaderWork \in Nat
  BY <1>4, <1>5
<1> QED
  BY <1>3, <1>6 DEF Counted, Measured

LEMMA MeasuredCountsAfter == Measured' => Counted'
<1> SUFFICES ASSUME Measured' PROVE Counted'
  OBVIOUS
<1>1. PICK a \in Nat, b \in Nat, c \in Nat, d \in Nat :
        Len(dataCh') = a /\ Len(sHeld') = b /\ Len(stream') = c /\ Len(diskCh') = d
  BY DEF Measured
<1>2. PICK u \in Nat, k \in Nat, l \in Nat, m \in Nat, n \in Nat :
        Unread' = u /\ ReaderRank' = k /\ SenderRank' = l /\ ConnRank' = m /\ WriterRank' = n
  BY DEF Measured
<1>3. SenderWork' = 6 * b + l /\ ConnWork' = 5 * c + m /\ WriterWork' = d + n
  BY <1>1, <1>2 DEF SenderWork, ConnWork, WriterWork
<1>4. UnreadCost * u \in Nat /\ QueuedCost * a \in Nat
  BY CostFacts, Products
<1>5. ReaderWork' = UnreadCost * u + QueuedCost * a + k
  BY <1>1, <1>2 DEF ReaderWork, UnreadCost, QueuedCost
<1>6. ReaderWork' \in Nat
  BY <1>4, <1>5
<1> QED
  BY <1>3, <1>6 DEF Counted, Measured

LEMMA WorkTypes == TypeOK /\ TypeOK' => Measured /\ Measured' /\ Counted /\ Counted'
  BY TypesMeasured, TypesMeasuredAfter, MeasuredCounts, MeasuredCountsAfter

\* The sum as a sum of constants, which is what the provers reckon with best.
LEMMA Ledger ==
  ASSUME Counted
  PROVE  \E s, r, n, v, w \in Nat :
           /\ SenderWork = s /\ ReaderWork = r /\ ConnWork = n /\ ReceiverWork = v /\ WriterWork = w
           /\ Work = s + r + n + v + w
  BY DEF Counted, Work

LEMMA LedgerAfter ==
  ASSUME Counted'
  PROVE  \E s, r, n, v, w \in Nat :
           /\ SenderWork' = s /\ ReaderWork' = r /\ ConnWork' = n /\ ReceiverWork' = v
           /\ WriterWork' = w /\ Work' = s + r + n + v + w
  BY DEF Counted, Work

\* What a step leaves alone costs the same after it.
LEMMA WorkKept ==
  /\ UNCHANGED sPc => SenderRank' = SenderRank
  /\ UNCHANGED <<sPc, sHeld>> => SenderWork' = SenderWork
  /\ UNCHANGED <<rdPc, rdNext>> => Unread' = Unread /\ ReaderRank' = ReaderRank
  /\ UNCHANGED <<rdPc, rdNext, dataCh>> => ReaderWork' = ReaderWork
  /\ UNCHANGED <<conn, fin>> => ConnRank' = ConnRank
  /\ UNCHANGED <<conn, fin, stream>> => ConnWork' = ConnWork
  /\ UNCHANGED rPc => ReceiverWork' = ReceiverWork
  /\ UNCHANGED wrPc => WriterRank' = WriterRank
  /\ UNCHANGED <<wrPc, diskCh>> => WriterWork' = WriterWork
  BY DEF SenderWork, SenderRank, ReaderWork, Unread, ReaderRank, UnreadCost, QueuedCost, ConnWork,
     ConnRank, ReceiverWork, WriterWork, WriterRank

\* A chunk that is queued adds one to the length, one that is taken out takes one.
LEMMA OneMore == ASSUME NEW S, NEW q \in Seq(S), NEW f PROVE Len(Append(q, f)) = Len(q) + 1
  OBVIOUS
LEMMA OneLess == ASSUME NEW S, NEW q \in Seq(S), q # <<>> PROVE Len(Tail(q)) = Len(q) - 1
  OBVIOUS

\* What the sender, then the receiver, does to the units on their way.
LEMMA WritingPays ==
  ASSUME TypeOK, TypeOK', WriteSome
  PROVE  SenderWork' + ConnWork' < SenderWork + ConnWork
<1>1. PICK n \in 1..Smaller(Len(sHeld), Wire - Len(stream)) :
        /\ stream' = stream \o Prefix(sHeld, n)
        /\ sHeld' = Drop(sHeld, n)
  BY DEF WriteSome
<1>2. sHeld \in Seq(Unit) /\ stream \in Seq(Unit)
  BY DEF TypeOK, SenderOK, ConnOK
<1>3. PICK a \in Nat, b \in Nat : Len(sHeld) = a /\ Len(stream) = b
  BY <1>2, LenProperties
<1>4. n \in 1..a
  BY <1>1, <1>3, CapacityAssumption DEF Smaller
<1>5. n \in 0..Len(sHeld)
  BY <1>3, <1>4
<1>6. Len(sHeld') = a - n /\ Prefix(sHeld, n) \in Seq(Unit) /\ Len(Prefix(sHeld, n)) = n
  BY <1>1, <1>2, <1>3, <1>5, PrefixType
<1>7. Len(stream') = b + n
  BY <1>1, <1>2, <1>3, <1>6, ConcatProperties
<1>8. SenderRank = 5 /\ SenderRank' = 5 /\ ConnRank' = ConnRank
  BY WorkKept DEF WriteSome, SenderRank
<1>9. PICK c \in Nat : ConnRank = c
  BY WorkTypes DEF Measured
<1>10. SenderWork = 6 * a + 5 /\ SenderWork' = 6 * (a - n) + 5
  BY <1>3, <1>6, <1>8 DEF SenderWork
<1>11. ConnWork = 5 * b + c /\ ConnWork' = 5 * (b + n) + c
  BY <1>3, <1>7, <1>8, <1>9 DEF ConnWork
<1> QED
  BY <1>4, <1>10, <1>11

LEMMA ReadingPays ==
  ASSUME TypeOK, TypeOK', ReadSome
  PROVE  ConnWork' + 5 <= ConnWork
<1>1. PICK n \in 1..Smaller(Len(stream), Chunk) : stream' = Drop(stream, n)
  BY DEF ReadSome
<1>2. stream \in Seq(Unit)
  BY DEF TypeOK, ConnOK
<1>3. PICK b \in Nat : Len(stream) = b
  BY <1>2, LenProperties
<1>4. n \in 1..b
  BY <1>1, <1>3, SizeAssumption DEF Smaller
<1>5. n \in 0..Len(stream)
  BY <1>3, <1>4
<1>6. Len(stream') = b - n
  BY <1>1, <1>2, <1>3, <1>5, PrefixType
<1>7. ConnRank' = ConnRank
  BY WorkKept DEF ReadSome
<1>8. PICK c \in Nat : ConnRank = c
  BY WorkTypes DEF Measured
<1>9. ConnWork = 5 * b + c /\ ConnWork' = 5 * (b - n) + c
  BY <1>3, <1>6, <1>7, <1>8 DEF ConnWork
<1> QED
  BY <1>4, <1>9

\* A chunk costs more in the channel than its units do in the sender's hands.
LEMMA DequeuePays ==
  ASSUME TypeOK, TypeOK', Order, Nonempty, Dequeue
  PROVE  SenderWork' + ReaderWork' < SenderWork + ReaderWork
<1>1. sPc = "dequeue" /\ sPc' = "write" /\ dataCh # <<>> /\ sHeld' = Head(dataCh) /\ dataCh' = Tail(dataCh)
      /\ UNCHANGED <<rdPc, rdNext>>
  BY DEF Dequeue
<1>2. sHeld = <<>>
  BY <1>1 DEF Order, SenderOrder
<1>3. dataCh \in Seq(Seq(Unit)) /\ Len(dataCh) \in Nat
  BY LenProperties DEF TypeOK, ReaderOK
<1>4. Head(dataCh) = dataCh[1] /\ 1 \in 1..Len(dataCh)
  BY <1>1, <1>3, EmptySeq
<1>5. Len(sHeld') <= Chunk
  BY <1>1, <1>4 DEF Nonempty
<1>6. PICK h \in Nat : Len(sHeld') = h /\ h <= Chunk
  BY <1>5, WorkTypes DEF Measured
<1>7. PICK a \in Nat : Len(dataCh') = a /\ Len(dataCh) = a + 1
  <2>1. PICK m \in Nat : Len(dataCh) = m /\ m >= 1
    BY <1>3, <1>4
  <2>2. Len(dataCh') = m - 1
    BY <1>1, <1>3, <2>1, OneLess
  <2>3. m - 1 \in Nat /\ m = (m - 1) + 1
    BY <2>1
  <2> QED
    BY <2>1, <2>2, <2>3
<1>8. Unread' = Unread /\ ReaderRank' = ReaderRank
  BY <1>1, WorkKept
<1>9. PICK u \in Nat, k \in Nat : Unread = u /\ ReaderRank = k
  BY WorkTypes DEF Measured
<1>10. SenderWork = 3 /\ SenderWork' = 6 * h + 5
  BY <1>1, <1>2, <1>6 DEF SenderWork, SenderRank
<1>11. PICK c \in Nat, q \in Nat : UnreadCost = c /\ QueuedCost = q /\ q = 6 * Chunk + 3 /\ Chunk \in Nat
  BY CostFacts
<1>12. ReaderWork = c * u + q * (a + 1) + k
  BY <1>7, <1>9, <1>11 DEF ReaderWork
<1>13. ReaderWork' = c * u + q * a + k
  BY <1>7, <1>8, <1>9, <1>11 DEF ReaderWork, UnreadCost, QueuedCost
<1>14. PICK x \in Nat, y \in Nat : c * u = x /\ q * a = y /\ q * (a + 1) = y + q
  BY Products
<1>15. ReaderWork = x + y + q + k /\ ReaderWork' = x + y + k
  BY <1>12, <1>13, <1>14
<1> QED
  BY <1>6, <1>10, <1>11, <1>15

\* A unit costs more before it is read than the chunk it ends up in.
LEMMA ChunkPays ==
  ASSUME TypeOK, TypeOK', ReaderChunk
  PROVE  ReaderWork' < ReaderWork
<1>1. PICK r \in Nat : rdNext = r
  BY DEF TypeOK, ReaderOK
<1>2. rdPc = "run" /\ rdPc' = "run" /\ r < Size /\ rdNext' = Smaller(r + Chunk, Size)
  BY <1>1 DEF ReaderChunk
<1>3. PICK r1 \in Nat : rdNext' = r1 /\ r < r1 /\ r1 <= Size
  BY <1>1, <1>2, SizeAssumption DEF Smaller
<1>4. PICK u \in Nat : Unread = u /\ u = Size - r
  BY <1>1, <1>2, SizeAssumption DEF Unread
<1>5. PICK u1 \in Nat : Unread' = u1 /\ u1 = Size - r1
  BY <1>2, <1>3, SizeAssumption DEF Unread
<1>6. u1 + 1 <= u
  BY <1>3, <1>4, <1>5, SizeAssumption
<1>7. PICK a \in Nat : Len(dataCh) = a
  BY WorkTypes DEF Measured
<1>8. Len(dataCh') = a + 1
  BY <1>7, OneMore DEF ReaderChunk, TypeOK, ReaderOK
<1>9. ReaderRank = 1 /\ ReaderRank' = 1
  BY <1>2 DEF ReaderRank
<1>10. PICK c \in Nat, q \in Nat : UnreadCost = c /\ QueuedCost = q /\ c = q + 1
  BY CostFacts
<1>11. ReaderWork = c * u + q * a + 1
  BY <1>4, <1>7, <1>9, <1>10 DEF ReaderWork
<1>12. ReaderWork' = c * u1 + q * (a + 1) + 1
  BY <1>5, <1>8, <1>9, <1>10 DEF ReaderWork, UnreadCost, QueuedCost
<1>13. PICK x \in Nat, x1 \in Nat, y \in Nat :
         c * u = x /\ c * u1 = x1 /\ q * a = y /\ q * (a + 1) = y + q /\ x1 + c <= x
  BY <1>6, Products
<1> QED
  BY <1>10, <1>11, <1>12, <1>13

\* The task's other steps read nothing and cost what is left of its rank.
LEMMA TaskPays ==
  ASSUME TypeOK, TypeOK', Unread' <= Unread, UNCHANGED dataCh, NEW d \in Int, ReaderRank' = ReaderRank + d
  PROVE  ReaderWork' <= ReaderWork + d
<1>1. PICK u \in Nat, k \in Nat, a \in Nat : Unread = u /\ ReaderRank = k /\ Len(dataCh) = a
  BY WorkTypes DEF Measured
<1>2. PICK u1 \in Nat : Unread' = u1
  BY WorkTypes DEF Measured
<1>3. u1 <= u
  BY <1>1, <1>2
<1>4. PICK c \in Nat, q \in Nat : UnreadCost = c /\ QueuedCost = q
  BY CostFacts
<1>5. ReaderWork = c * u + q * a + k
  BY <1>1, <1>4 DEF ReaderWork
<1>6. ReaderWork' = c * u1 + q * a + (k + d)
  BY <1>1, <1>2, <1>4 DEF ReaderWork, UnreadCost, QueuedCost
<1>7. PICK x \in Nat, x1 \in Nat, y \in Nat : c * u = x /\ c * u1 = x1 /\ q * a = y /\ x1 <= x
  BY <1>3, Products
<1> QED
  BY <1>5, <1>6, <1>7

LEMMA SenderWorks == TypeOK /\ TypeOK' /\ Order /\ Nonempty /\ SenderStep => Work' < Work
<1> SUFFICES ASSUME TypeOK, TypeOK', Order, Nonempty, SenderStep PROVE Work' < Work
  OBVIOUS
<1>t. Counted /\ Counted'
  BY WorkTypes
<1>p. PICK s \in Nat, r \in Nat, n \in Nat, v \in Nat, w \in Nat :
        /\ SenderWork = s /\ ReaderWork = r /\ ConnWork = n /\ ReceiverWork = v /\ WriterWork = w
        /\ Work = s + r + n + v + w
  BY <1>t, Ledger
<1>q. PICK s1 \in Nat, r1 \in Nat, n1 \in Nat, v1 \in Nat, w1 \in Nat :
        /\ SenderWork' = s1 /\ ReaderWork' = r1 /\ ConnWork' = n1 /\ ReceiverWork' = v1
        /\ WriterWork' = w1 /\ Work' = s1 + r1 + n1 + v1 + w1
  BY <1>t, LedgerAfter
<1>w. WriterWork' = WriterWork /\ (SendRequest \/ ReceiverWork' = ReceiverWork)
  <2>1. UNCHANGED <<wrPc, diskCh>> /\ (SendRequest \/ UNCHANGED rPc)
    BY DEF SenderStep, SendRequest, ConnectFails, RequestNotSent, RequestFails, ReceiveAcceptance,
       LookUp, PassCheck, CancelSend, Dequeue, WriteSome, WriteFails, Finish, ReturnHash, FinishFails,
       SenderReturns, writerVars, receiverVars
  <2> QED
    BY <2>1, WorkKept
<1>1. CASE SendRequest
  <2>1. sPc = "connect" /\ sPc' = "await" /\ UNCHANGED <<sHeld, fin, stream, rdPc, rdNext, dataCh>>
        /\ conn' = "open" /\ rPc' = "request"
    BY <1>1 DEF SendRequest, readerVars
  <2>2. rPc = "idle" /\ conn = "none"
    BY <2>1 DEF Order, SenderOrder
  <2>3. SenderRank = 20 /\ SenderRank' = 8 /\ ReceiverWork = 0 /\ ReceiverWork' = 9
    BY <2>1, <2>2 DEF SenderRank, ReceiverWork
  <2>4. SenderWork' = SenderWork - 12
    <3>1. PICK h \in Nat : Len(sHeld) = h
      BY WorkTypes DEF Measured
    <3> QED
      BY <2>1, <2>3, <3>1 DEF SenderWork
  <2>5. ConnWork' = ConnWork + 2
    <3>1. PICK h \in Nat : Len(stream) = h
      BY WorkTypes DEF Measured
    <3>2. fin \in BOOLEAN
      BY DEF TypeOK, ConnOK
    <3>3. PICK c \in Nat : ConnRank = c /\ ConnRank' = c + 2
      BY <2>1, <2>2, <3>2 DEF ConnRank
    <3> QED
      BY <2>1, <3>1, <3>3 DEF ConnWork
  <2>6. ReaderWork' = ReaderWork
    BY <2>1, WorkKept
  <2> QED
    BY <1>p, <1>q, <1>w, <2>3, <2>4, <2>5, <2>6
<1>2. CASE ReceiveAcceptance
  <2>1. sPc = "await" /\ sPc' = "gate" /\ rdPc' = "opening"
        /\ UNCHANGED <<sHeld, conn, fin, stream, rdNext, dataCh>>
    BY <1>2 DEF ReceiveAcceptance
  <2>2. rdPc = "off"
    BY <2>1 DEF Order, SenderOrder
  <2>3. SenderWork' = SenderWork - 3
    <3>1. PICK h \in Nat : Len(sHeld) = h
      BY WorkTypes DEF Measured
    <3>2. SenderRank = 8 /\ SenderRank' = 5
      BY <2>1 DEF SenderRank
    <3> QED
      BY <2>1, <3>1, <3>2 DEF SenderWork
  <2>4. ReaderWork' <= ReaderWork + 2
    <3>1. ReaderRank' = ReaderRank + 2
      BY <2>1, <2>2 DEF ReaderRank
    <3>2. Unread' <= Unread
      BY <2>1, <2>2, SizeAssumption DEF Unread
    <3> QED
      BY <2>1, <3>1, <3>2, TaskPays
  <2>5. ConnWork' = ConnWork
    BY <2>1, WorkKept
  <2>6. ~SendRequest
    BY <2>1 DEF SendRequest
  <2> QED
    BY <1>p, <1>q, <1>w, <2>3, <2>4, <2>5, <2>6
<1>3. CASE ConnectFails \/ RequestNotSent \/ RequestFails \/ LookUp \/ PassCheck \/ CancelSend
           \/ WriteFails \/ ReturnHash \/ FinishFails
  <2>1. UNCHANGED <<sHeld, conn, fin, stream, rdPc, rdNext, dataCh>>
    BY <1>3 DEF ConnectFails, RequestNotSent, RequestFails, LookUp, PassCheck, CancelSend, WriteFails,
       ReturnHash, FinishFails, SenderReturns, connVars, readerVars
  <2>2. PICK a \in Nat, b \in Nat : SenderRank = a /\ SenderRank' = b /\ b < a
    <3>1. \/ sPc = "gate" /\ sPc' = "check"
          \/ sPc = "check" /\ sPc' = "dequeue"
          \/ sPc \in {"connect", "await", "check", "dequeue", "write", "join"} /\ sPc' = "done"
      BY <1>3 DEF ConnectFails, RequestNotSent, RequestFails, LookUp, PassCheck, CancelSend, WriteFails,
         ReturnHash, FinishFails, LoopEnds, SenderReturns
    <3>2. SenderRank \in Nat /\ SenderRank' \in Nat /\ SenderRank' < SenderRank
      BY <3>1 DEF SenderRank
    <3> QED
      BY <3>2
  <2>3. SenderWork' < SenderWork
    <3>1. PICK h \in Nat : Len(sHeld) = h
      BY WorkTypes DEF Measured
    <3>2. SenderWork = 6 * h + a /\ SenderWork' = 6 * h + b
      BY <2>1, <2>2, <3>1 DEF SenderWork
    <3> QED
      BY <2>2, <3>2
  <2>4. ConnWork' = ConnWork /\ ReaderWork' = ReaderWork
    BY <2>1, WorkKept
  <2>5. ~SendRequest
    BY <1>3 DEF ConnectFails, RequestNotSent, RequestFails, LookUp, PassCheck, CancelSend, WriteFails,
       ReturnHash, FinishFails, LoopEnds, SenderReturns, SendRequest
  <2> QED
    BY <1>p, <1>q, <1>w, <2>3, <2>4, <2>5
<1>4. CASE Dequeue
  <2>1. SenderWork' + ReaderWork' < SenderWork + ReaderWork
    BY <1>4, DequeuePays
  <2>2. ConnWork' = ConnWork /\ ~SendRequest
    BY <1>4, WorkKept DEF Dequeue, connVars, SendRequest
  <2> QED
    BY <1>p, <1>q, <1>w, <2>1, <2>2
<1>5. CASE WriteSome
  <2>1. SenderWork' + ConnWork' < SenderWork + ConnWork
    BY <1>5, WritingPays
  <2>2. ReaderWork' = ReaderWork /\ ~SendRequest
    BY <1>5, WorkKept DEF WriteSome, readerVars, SendRequest
  <2> QED
    BY <1>p, <1>q, <1>w, <2>1, <2>2
<1>6. CASE Finish
  <2>1. sPc = "dequeue" /\ sPc' = "join" /\ UNCHANGED <<sHeld, conn, stream, rdPc, rdNext, dataCh>>
    BY <1>6 DEF Finish, LoopEnds, readerVars
  <2>2. SenderWork' = SenderWork - 2
    <3>1. PICK h \in Nat : Len(sHeld) = h
      BY WorkTypes DEF Measured
    <3>2. SenderRank = 3 /\ SenderRank' = 1
      BY <2>1 DEF SenderRank
    <3> QED
      BY <2>1, <3>1, <3>2 DEF SenderWork
  <2>3. ConnWork' <= ConnWork + 1
    <3>1. PICK h \in Nat : Len(stream) = h
      BY WorkTypes DEF Measured
    <3>2. PICK a \in Nat, b \in Nat : ConnRank = a /\ ConnRank' = b /\ b <= a + 1
      BY <2>1 DEF ConnRank
    <3>3. ConnWork = 5 * h + a /\ ConnWork' = 5 * h + b
      BY <2>1, <3>1, <3>2 DEF ConnWork
    <3> QED
      BY <3>2, <3>3
  <2>4. ReaderWork' = ReaderWork /\ ~SendRequest
    BY <2>1, WorkKept DEF SendRequest
  <2> QED
    BY <1>p, <1>q, <1>w, <2>2, <2>3, <2>4
<1> QED
  BY <1>1, <1>2, <1>3, <1>4, <1>5, <1>6 DEF SenderStep

ReceiverSide == ReceiverStep \/ Refuse \/ Approve

LEMMA ReceiverWorks == TypeOK /\ TypeOK' /\ ReceiverSide => Work' < Work
<1> SUFFICES ASSUME TypeOK, TypeOK', ReceiverSide PROVE Work' < Work
  OBVIOUS
<1>t. Counted /\ Counted'
  BY WorkTypes
<1>p. PICK s \in Nat, r \in Nat, n \in Nat, v \in Nat, w \in Nat :
        /\ SenderWork = s /\ ReaderWork = r /\ ConnWork = n /\ ReceiverWork = v /\ WriterWork = w
        /\ Work = s + r + n + v + w
  BY <1>t, Ledger
<1>q. PICK s1 \in Nat, r1 \in Nat, n1 \in Nat, v1 \in Nat, w1 \in Nat :
        /\ SenderWork' = s1 /\ ReaderWork' = r1 /\ ConnWork' = n1 /\ ReceiverWork' = v1
        /\ WriterWork' = w1 /\ Work' = s1 + r1 + n1 + v1 + w1
  BY <1>t, LedgerAfter
<1>s. SenderWork' = SenderWork /\ ReaderWork' = ReaderWork
  <2>1. UNCHANGED <<sPc, sHeld, rdPc, rdNext, dataCh>>
    BY DEF ReceiverSide, ReceiverStep, Refuse, Approve, ReceiveRequest, RequestLost, Respond,
       RespondFails, ReceiverLookUp, ReceiverPassCheck, ReadSome, Forward, CancelReceive, ReadEnd,
       ReadFails, ForwardFails, LeaveLoop, WriterLost, Discard, Complete, senderVars, readerVars
  <2> QED
    BY <2>1, WorkKept
<1>1. CASE ReadSome
  <2>1. ReceiverWork = 2 /\ ReceiverWork' = 6
    BY <1>1 DEF ReadSome, ReceiverWork
  <2>2. ConnWork' + 5 <= ConnWork
    BY <1>1, ReadingPays
  <2>3. WriterWork' = WriterWork
    BY <1>1, WorkKept DEF ReadSome, writerVars
  <2> QED
    BY <1>p, <1>q, <1>s, <2>1, <2>2, <2>3
<1>2. CASE ~ReadSome
  <2>1. ConnWork' = ConnWork
    <3>1. UNCHANGED <<conn, fin, stream>>
      BY <1>2 DEF ReceiverSide, ReceiverStep, Refuse, Approve, ReceiveRequest, RequestLost, Respond,
         RespondFails, ReceiverLookUp, ReceiverPassCheck, Forward, CancelReceive, ReadEnd,
         ReadFails, ForwardFails, LeaveLoop, WriterLost, Discard, Complete, connVars
    <3> QED
      BY <3>1, WorkKept
  <2>2. CASE Respond
    <3>1. ReceiverWork = 7 /\ ReceiverWork' = 4
      BY <2>2 DEF Respond, ReceiverWork
    <3>2. PICK h \in Nat, a \in Nat : Len(diskCh) = h /\ WriterRank = a
      BY WorkTypes DEF Measured
    <3>3. UNCHANGED diskCh /\ WriterRank' = 2
      BY <2>2 DEF Respond, WriterRank
    <3>4. WriterWork = h + a /\ WriterWork' = h + 2
      BY <3>2, <3>3 DEF WriterWork
    <3> QED
      BY <1>p, <1>q, <1>s, <2>1, <3>1, <3>4
  <2>3. CASE Forward
    <3>1. ReceiverWork = 6 /\ ReceiverWork' = 4
      BY <2>3 DEF Forward, ReceiverWork
    <3>2. PICK h \in Nat, a \in Nat : Len(diskCh) = h /\ WriterRank = a
      BY WorkTypes DEF Measured
    <3>3. UNCHANGED wrPc /\ Len(diskCh') = h + 1
      BY <2>3, <3>2, OneMore DEF Forward, TypeOK, WriterOK
    <3>4. WriterWork = h + a /\ WriterWork' = h + 1 + a
      BY <3>2, <3>3, WorkKept DEF WriterWork
    <3> QED
      BY <1>p, <1>q, <1>s, <2>1, <3>1, <3>4
  <2>4. CASE ~Respond /\ ~Forward
    <3>1. UNCHANGED <<wrPc, diskCh>>
      BY <1>2, <2>4 DEF ReceiverSide, ReceiverStep, Refuse, Approve, ReceiveRequest, RequestLost,
         RespondFails, ReceiverLookUp, ReceiverPassCheck, CancelReceive, ReadEnd,
         ReadFails, ForwardFails, LeaveLoop, WriterLost, Discard, Complete, writerVars
    <3>2. ReceiverWork' < ReceiverWork
      BY <1>2, <2>4 DEF ReceiverSide, ReceiverStep, Refuse, Approve, ReceiveRequest, RequestLost,
         RespondFails, ReceiverLookUp, ReceiverPassCheck, CancelReceive, ReadEnd,
         ReadFails, ForwardFails, LeaveLoop, WriterLost, Discard, Complete, ReceiverReturns, ReceiverWork
    <3>3. WriterWork' = WriterWork
      BY <3>1, WorkKept
    <3> QED
      BY <1>p, <1>q, <1>s, <2>1, <3>2, <3>3
  <2> QED
    BY <2>2, <2>3, <2>4
<1> QED
  BY <1>1, <1>2

LEMMA ReaderWorks == TypeOK /\ TypeOK' /\ ReaderStep => Work' < Work
<1> SUFFICES ASSUME TypeOK, TypeOK', ReaderStep PROVE Work' < Work
  OBVIOUS
<1>t. Counted /\ Counted'
  BY WorkTypes
<1>p. PICK s \in Nat, r \in Nat, n \in Nat, v \in Nat, w \in Nat :
        /\ SenderWork = s /\ ReaderWork = r /\ ConnWork = n /\ ReceiverWork = v /\ WriterWork = w
        /\ Work = s + r + n + v + w
  BY <1>t, Ledger
<1>q. PICK s1 \in Nat, r1 \in Nat, n1 \in Nat, v1 \in Nat, w1 \in Nat :
        /\ SenderWork' = s1 /\ ReaderWork' = r1 /\ ConnWork' = n1 /\ ReceiverWork' = v1
        /\ WriterWork' = w1 /\ Work' = s1 + r1 + n1 + v1 + w1
  BY <1>t, LedgerAfter
<1>s. SenderWork' = SenderWork /\ ConnWork' = ConnWork /\ ReceiverWork' = ReceiverWork
      /\ WriterWork' = WriterWork
  BY WorkKept DEF ReaderStep, ReaderOpen, ReaderChunk, ReaderEnd, ReaderFails, senderVars, connVars,
     receiverVars, writerVars
<1>1. CASE ReaderChunk
  <2>1. ReaderWork' < ReaderWork
    BY <1>1, ChunkPays
  <2> QED
    BY <1>p, <1>q, <1>s, <2>1
<1>2. CASE ReaderOpen \/ ReaderEnd \/ ReaderFails
  <2>1. /\ UNCHANGED dataCh /\ rdPc \in {"opening", "run"} /\ rdPc' \in {"run", "ok", "failed"}
        /\ rdPc = "run" => rdPc' # "run" /\ rdNext' = rdNext
    BY <1>2 DEF ReaderOpen, ReaderEnd, ReaderFails
  <2>2. PICK z \in Nat, z1 \in Nat : rdNext = z /\ rdNext' = z1
    BY DEF TypeOK, ReaderOK
  <2>3. Unread' <= Unread
    BY <2>1, <2>2, SizeAssumption DEF Unread
  <2>4. ReaderRank' = ReaderRank + (-1) \/ ReaderRank' = ReaderRank + (-2)
    BY <2>1 DEF ReaderRank
  <2>5. ReaderWork' <= ReaderWork + (-1) \/ ReaderWork' <= ReaderWork + (-2)
    BY <2>1, <2>3, <2>4, TaskPays
  <2> QED
    BY <1>p, <1>q, <1>s, <2>5
<1> QED
  BY <1>1, <1>2 DEF ReaderStep

LEMMA WriterWorks == TypeOK /\ TypeOK' /\ WriterStep => Work' < Work
<1> SUFFICES ASSUME TypeOK, TypeOK', WriterStep PROVE Work' < Work
  OBVIOUS
<1>t. Counted /\ Counted'
  BY WorkTypes
<1>p. PICK s \in Nat, r \in Nat, n \in Nat, v \in Nat, w \in Nat :
        /\ SenderWork = s /\ ReaderWork = r /\ ConnWork = n /\ ReceiverWork = v /\ WriterWork = w
        /\ Work = s + r + n + v + w
  BY <1>t, Ledger
<1>q. PICK s1 \in Nat, r1 \in Nat, n1 \in Nat, v1 \in Nat, w1 \in Nat :
        /\ SenderWork' = s1 /\ ReaderWork' = r1 /\ ConnWork' = n1 /\ ReceiverWork' = v1
        /\ WriterWork' = w1 /\ Work' = s1 + r1 + n1 + v1 + w1
  BY <1>t, LedgerAfter
<1>s. SenderWork' = SenderWork /\ ConnWork' = ConnWork /\ ReceiverWork' = ReceiverWork
      /\ ReaderWork' = ReaderWork
  BY WorkKept DEF WriterStep, WriterOpen, WriterWrite, WriterEnd, WriterFails, senderVars, connVars,
     receiverVars, readerVars
<1>1. PICK a \in Nat, k \in Nat : Len(diskCh) = a /\ WriterRank = k
  BY WorkTypes DEF Measured
<1>2. WriterWork = a + k
  BY <1>1 DEF WriterWork
<1>3. CASE WriterWrite
  <2>1. Len(diskCh') = a - 1 /\ UNCHANGED wrPc
    BY <1>1, <1>3, OneLess DEF WriterWrite, TypeOK, WriterOK
  <2>2. WriterWork' = a - 1 + k
    BY <1>1, <2>1, WorkKept DEF WriterWork
  <2> QED
    BY <1>p, <1>q, <1>s, <1>2, <2>2
<1>4. CASE WriterOpen \/ WriterEnd \/ WriterFails
  <2>1. PICK k1 \in Nat : WriterRank' = k1 /\ k1 < k
    <3>1. \/ wrPc = "opening" /\ wrPc' \in {"run", "failed"}
          \/ wrPc = "run" /\ wrPc' \in {"ok", "failed"}
      BY <1>4 DEF WriterOpen, WriterEnd, WriterFails
    <3>2. WriterRank \in Nat /\ WriterRank' \in Nat /\ WriterRank' < WriterRank
      BY <3>1 DEF WriterRank
    <3> QED
      BY <1>1, <3>2
  <2>2. diskCh' = diskCh \/ diskCh' = <<>>
    BY <1>4 DEF WriterOpen, WriterEnd, WriterFails
  <2>3. PICK a1 \in Nat : Len(diskCh') = a1 /\ a1 <= a
    BY <1>1, <2>2
  <2>4. WriterWork' = a1 + k1
    BY <2>1, <2>3 DEF WriterWork
  <2> QED
    BY <1>p, <1>q, <1>s, <1>2, <2>1, <2>3, <2>4
<1> QED
  BY <1>3, <1>4 DEF WriterStep

LEMMA NetworkWorks == TypeOK /\ TypeOK' /\ Network => Work' < Work
<1> SUFFICES ASSUME TypeOK, TypeOK', Network PROVE Work' < Work
  OBVIOUS
<1>t. Counted /\ Counted'
  BY WorkTypes
<1>p. PICK s \in Nat, r \in Nat, n \in Nat, v \in Nat, w \in Nat :
        /\ SenderWork = s /\ ReaderWork = r /\ ConnWork = n /\ ReceiverWork = v /\ WriterWork = w
        /\ Work = s + r + n + v + w
  BY <1>t, Ledger
<1>q. PICK s1 \in Nat, r1 \in Nat, n1 \in Nat, v1 \in Nat, w1 \in Nat :
        /\ SenderWork' = s1 /\ ReaderWork' = r1 /\ ConnWork' = n1 /\ ReceiverWork' = v1
        /\ WriterWork' = w1 /\ Work' = s1 + r1 + n1 + v1 + w1
  BY <1>t, LedgerAfter
<1>s. SenderWork' = SenderWork /\ ReaderWork' = ReaderWork /\ ReceiverWork' = ReceiverWork
      /\ WriterWork' = WriterWork
  <2>1. UNCHANGED <<sPc, sHeld, rdPc, rdNext, dataCh, rPc, wrPc, diskCh>>
    BY CloseCases DEF Network, FinishDropped, Close, senderVars, readerVars, receiverVars, writerVars
  <2> QED
    BY <2>1, WorkKept
<1>1. PICK a \in Nat, k \in Nat : Len(stream) = a /\ ConnRank = k
  BY WorkTypes DEF Measured
<1>2. ConnWork = 5 * a + k
  BY <1>1 DEF ConnWork
<1>3. PICK k1 \in Nat : ConnRank' = k1 /\ k1 < k
  <2>1. CASE FinishDropped
    BY <1>1, <2>1 DEF FinishDropped, ConnRank
  <2>2. CASE Close(TRUE) \/ Close(FALSE)
    <3>1. conn = "open" /\ conn' = "closed"
      BY <2>2 DEF Close
    <3> QED
      BY <1>1, <3>1 DEF ConnRank
  <2> QED
    BY <2>1, <2>2, CloseCases DEF Network
<1>4. PICK a1 \in Nat : Len(stream') = a1 /\ a1 <= a
  <2>1. stream' = stream \/ stream' \in Prefixes(stream)
    BY CloseCases DEF Network, FinishDropped, Close
  <2>2. stream \in Seq(Unit)
    BY DEF TypeOK, ConnOK
  <2>3. CASE stream' = stream
    BY <1>1, <2>3
  <2>4. CASE stream' \in Prefixes(stream)
    <3>1. PICK z \in 0..Len(stream) : stream' = Prefix(stream, z)
      BY <2>2, <2>4, PrefixesType
    <3>2. Len(stream') = z
      BY <2>2, <3>1, PrefixType
    <3> QED
      BY <1>1, <3>1, <3>2
  <2> QED
    BY <2>1, <2>3, <2>4
<1>5. ConnWork' = 5 * a1 + k1
  BY <1>3, <1>4 DEF ConnWork
<1> QED
  BY <1>p, <1>q, <1>s, <1>2, <1>3, <1>4, <1>5

LEMMA IdleWorks == UserStep \/ UNCHANGED vars => Work' = Work
<1> SUFFICES ASSUME UserStep \/ UNCHANGED vars PROVE Work' = Work
  OBVIOUS
<1>1. UNCHANGED <<sPc, sHeld, rdPc, rdNext, dataCh, conn, fin, stream, rPc, wrPc, diskCh>>
  BY DEF UserStep, PauseSender, ResumeSender, CancelSender, PauseReceiver, ResumeReceiver,
     CancelReceiver, vars, senderVars, readerVars, connVars, receiverVars, writerVars
<1>2. SenderWork' = SenderWork /\ ReaderWork' = ReaderWork /\ ConnWork' = ConnWork
      /\ ReceiverWork' = ReceiverWork /\ WriterWork' = WriterWork
  BY <1>1, WorkKept
<1> QED
  BY <1>2 DEF Work

LEMMA StepWorks ==
  TypeOK /\ TypeOK' /\ Order /\ Nonempty /\ [Next]_vars
    => [(UserStep /\ Work' = Work) \/ Work' < Work]_vars
<1> SUFFICES ASSUME TypeOK, TypeOK', Order, Nonempty, [Next]_vars, ~UNCHANGED vars
             PROVE  (UserStep /\ Work' = Work) \/ Work' < Work
  OBVIOUS
<1>1. Network \/ SenderStep \/ ReaderStep \/ ReceiverSide \/ WriterStep \/ UserStep
  BY StepCases DEF ReceiverSide
<1> QED
  BY <1>1, NetworkWorks, SenderWorks, ReaderWorks, ReceiverWorks, WriterWorks, IdleWorks

\* Every step of either function, of their tasks and of the connection, the
\* faults included, leaves less to do than there was, and what the users do
\* leaves as much.
THEOREM NothingIsDoneTwice == SafeSpec => EveryStepCounts
<1>1. Inv => TypeOK /\ Order
  BY DEF Inv, Order
<1>2. Inv /\ Nonempty /\ [Next]_vars => Nonempty'
  BY <1>1, StepNonempty
<1>3. Inv /\ Inv' /\ Nonempty /\ [Next]_vars => [(UserStep /\ Work' = Work) \/ Work' < Work]_vars
  <2>1. Inv' => TypeOK'
    BY DEF Inv
  <2> QED
    BY <1>1, <2>1, StepWorks
<1> QED
  BY <1>2, <1>3, InitLinked, Invariant, PTL DEF SafeSpec, EveryStepCounts

\* A transfer of Size units takes at most (6 * Chunk + 4) * Size + 21 steps
\* besides the users', whatever fails on the way.
THEOREM StepsAreBounded == SafeSpec => []WorkIsBounded
<1>1. Stock \in Nat
  BY CostFacts, Products, SizeAssumption DEF Stock
<1>2. Init => WorkIsBounded
  <2> SUFFICES ASSUME Init PROVE WorkIsBounded
    OBVIOUS
  <2>1. SenderRank = 20 /\ Len(sHeld) = 0 /\ ReceiverWork = 0
    BY DEF Init, SenderRank, ReceiverWork
  <2>2. Unread = Size /\ ReaderRank = 0 /\ Len(dataCh) = 0
    BY DEF Init, Unread, ReaderRank
  <2>3. Len(stream) = 0 /\ ConnRank = 1
    BY DEF Init, ConnRank
  <2>4. WriterRank = 0 /\ Len(diskCh) = 0
    BY DEF Init, WriterRank
  <2>5. SenderWork = 20 /\ ConnWork = 1 /\ WriterWork = 0
    BY <2>1, <2>3, <2>4 DEF SenderWork, ConnWork, WriterWork
  <2>6. ReaderWork = UnreadCost * Size
    <3>1. PICK c \in Nat, q \in Nat : UnreadCost = c /\ QueuedCost = q
      BY CostFacts
    <3>2. ReaderWork = c * Size + q * 0 + 0
      BY <2>2, <3>1 DEF ReaderWork
    <3> QED
      BY <3>1, <3>2, Products, SizeAssumption
  <2>7. PICK x \in Nat : UnreadCost * Size = x
    BY CostFacts, Products, SizeAssumption
  <2>8. Work = x + 21 /\ Stock = x + 21
    BY <2>1, <2>5, <2>6, <2>7 DEF Work, Stock
  <2> QED
    BY <2>7, <2>8 DEF WorkIsBounded
<1>3. WorkIsBounded /\ Inv /\ Inv' /\ Nonempty /\ [Next]_vars => WorkIsBounded'
  <2> SUFFICES ASSUME WorkIsBounded, Inv, Inv', Nonempty, [Next]_vars PROVE WorkIsBounded'
    OBVIOUS
  <2>1. TypeOK /\ TypeOK' /\ Order
    BY DEF Inv, Order
  <2>2. Work' = Work \/ Work' < Work
    BY <2>1, StepWorks, IdleWorks
  <2>3. Counted'
    BY <2>1, WorkTypes
  <2>4. PICK a \in Nat : Work' = a
    BY <2>3, LedgerAfter
  <2>5. PICK b \in Nat : Work = b /\ b <= Stock
    BY <1>1 DEF WorkIsBounded
  <2>6. a <= b
    BY <2>2, <2>4, <2>5
  <2>7. Stock' = Stock
    BY DEF Stock, UnreadCost
  <2> QED
    BY <1>1, <2>4, <2>5, <2>6, <2>7 DEF WorkIsBounded
<1>4. Inv /\ Nonempty /\ [Next]_vars => Nonempty'
  BY StepNonempty DEF Inv
<1> QED
  BY <1>2, <1>3, <1>4, InitLinked, Invariant, PTL DEF SafeSpec

-----------------------------------------------------------------------------
(* Progress: a transfer that ends was delivered, or something befell it *)

\* Why a side gave up: its result is there only with what caused it.
Causes ==
  /\ sResult = "failed" /\ rdPc \notin {"off", "failed"} => conn = "closed" /\ ~fin /\ reason # "complete"
  /\ sResult = "cancelled" => sCancel
  /\ reason = "cancelled" => rCancel
  /\ reason = "failed" => conn = "closed" \/ wrPc = "failed"
  /\ rPc = "done" /\ reason = "complete" => rResult = "complete" \/ wrPc = "failed"

causeVars == <<sResult, sCancel, rdPc, conn, fin, reason, rCancel, wrPc, rPc, rResult>>

LEMMA CausesUnchanged == Causes /\ UNCHANGED causeVars => Causes'
  BY DEF Causes, causeVars

LEMMA SenderCauses == TypeOK /\ Order /\ Causes /\ SenderStep => Causes'
<1> SUFFICES ASSUME TypeOK, Order, Causes, SenderStep PROVE Causes'
  OBVIOUS
<1>u. UNCHANGED <<reason, rCancel, wrPc, rResult, sCancel>> /\ (rPc' = rPc \/ (rPc = "idle" /\ rPc' = "request"))
  <2>1. CASE SendRequest
    BY <2>1 DEF SendRequest, Order, SenderOrder, writerVars
  <2>2. CASE ~SendRequest
    BY <2>2 DEF SenderStep, ConnectFails, RequestNotSent, RequestFails, ReceiveAcceptance,
       LookUp, PassCheck, CancelSend, Dequeue, WriteSome, WriteFails, Finish, ReturnHash, FinishFails,
       SenderReturns, writerVars, receiverVars
  <2> QED
    BY <2>1, <2>2
<1>n. sPc # "done" => sResult = "none"
  BY DEF Order, SenderOrder
<1>1. CASE SendRequest
  <2>1. sResult' = "none" /\ reason = "none"
    <3>1. sPc = "connect" /\ sResult' = sResult
      BY <1>1 DEF SendRequest
    <3>2. rPc = "idle"
      BY <3>1 DEF Order, SenderOrder
    <3> QED
      BY <1>n, <3>1, <3>2 DEF Order, ReceiverOrder, TypeOK, ReceiverOK
  <2> QED
    BY <1>u, <2>1 DEF Causes
<1>2. CASE ConnectFails \/ RequestNotSent \/ RequestFails
  <2>1. sPc \in {"connect", "await"} /\ sResult' # "cancelled" /\ UNCHANGED <<rdPc, conn, fin>> /\ rPc' = rPc
    BY <1>2 DEF ConnectFails, RequestNotSent, RequestFails, SenderReturns, readerVars, connVars,
       receiverVars
  <2>2. rdPc = "off"
    BY <2>1 DEF Order, SenderOrder
  <2> QED
    BY <1>u, <2>1, <2>2 DEF Causes
<1>3. CASE ReceiveAcceptance \/ LookUp \/ PassCheck \/ Dequeue \/ WriteSome \/ Finish
  <2>1. sPc # "done" /\ sResult' = sResult /\ conn' = conn /\ rPc' = rPc
    BY <1>3 DEF ReceiveAcceptance, LookUp, PassCheck, Dequeue, WriteSome, Finish, LoopEnds, connVars,
       receiverVars
  <2> QED
    BY <1>n, <1>u, <2>1 DEF Causes
<1>4. CASE CancelSend \/ ReturnHash
  <2>1. sResult' \in {"ok", "cancelled"} /\ (sResult' = "cancelled" => sCancel)
        /\ UNCHANGED <<rdPc, conn, fin>> /\ rPc' = rPc
    BY <1>4 DEF CancelSend, ReturnHash, SenderReturns, readerVars, connVars, receiverVars
  <2> QED
    BY <1>u, <2>1 DEF Causes
<1>5. CASE WriteFails \/ FinishFails
  <2>1. /\ sResult' = "failed" /\ UNCHANGED <<rdPc, conn, fin>> /\ rPc' = rPc
        /\ rdPc = "failed" \/ (conn = "closed" /\ sPc \in {"write", "dequeue"})
    BY <1>5 DEF WriteFails, FinishFails, LoopEnds, SenderReturns, readerVars, connVars, receiverVars
  <2>2. sPc \in {"write", "dequeue"} => ~fin /\ reason # "complete"
    BY DEF Order, SenderOrder
  <2> QED
    BY <1>u, <2>1, <2>2 DEF Causes
<1> QED
  BY <1>1, <1>2, <1>3, <1>4, <1>5 DEF SenderStep

LEMMA ReceiverCauses == TypeOK /\ Order /\ Causes /\ ReceiverSide => Causes'
<1> SUFFICES ASSUME TypeOK, Order, Causes, ReceiverSide PROVE Causes'
  OBVIOUS
<1>u. UNCHANGED <<sResult, sCancel, rdPc, conn, fin, rCancel>>
  BY DEF ReceiverSide, ReceiverStep, Refuse, Approve, ReceiveRequest, RequestLost, Respond,
     RespondFails, ReceiverLookUp, ReceiverPassCheck, ReadSome, Forward, CancelReceive, ReadEnd,
     ReadFails, ForwardFails, LeaveLoop, WriterLost, Discard, Complete, ReceiverReturns, senderVars,
     readerVars, connVars
<1>1. CASE ReceiveRequest \/ Approve \/ Respond \/ ReceiverLookUp \/ ReceiverPassCheck \/ ReadSome \/ Forward
  <2>1. reason' = reason /\ rPc' # "done" /\ rPc \notin {"drain", "done"}
    BY <1>1 DEF ReceiveRequest, Approve, Respond, ReceiverLookUp, ReceiverPassCheck, ReadSome, Forward
  <2>2. reason = "none"
    BY <2>1 DEF Order, ReceiverOrder, TypeOK, ReceiverOK
  <2> QED
    BY <1>u, <2>1, <2>2 DEF Causes
<1>2. CASE RequestLost \/ Refuse \/ RespondFails
  <2>1. reason' = reason /\ rPc \notin {"drain", "done"}
    BY <1>2 DEF RequestLost, Refuse, RespondFails, ReceiverReturns
  <2>2. reason = "none"
    BY <2>1 DEF Order, ReceiverOrder, TypeOK, ReceiverOK
  <2> QED
    BY <1>u, <2>1, <2>2 DEF Causes
<1>3. CASE CancelReceive \/ ReadEnd \/ ReadFails \/ ForwardFails
  <2>1. /\ rPc' = "drain" /\ wrPc' = wrPc
        /\ reason' = "cancelled" => rCancel
        /\ reason' = "failed" => conn = "closed" \/ wrPc = "failed"
        /\ reason' = "complete" => fin
    BY <1>3 DEF CancelReceive, ReadEnd, ReadFails, ForwardFails, LeaveLoop, writerVars
  <2> QED
    BY <1>u, <2>1 DEF Causes
<1>4. CASE WriterLost \/ Discard \/ Complete
  <2>1. /\ reason' = reason /\ wrPc' = wrPc
        /\ reason = "complete" => wrPc = "failed" \/ rResult' = "complete"
    BY <1>4 DEF WriterLost, Discard, Complete, ReceiverReturns, writerVars
  <2> QED
    BY <1>u, <2>1 DEF Causes
<1> QED
  BY <1>1, <1>2, <1>3, <1>4 DEF ReceiverSide, ReceiverStep

LEMMA OtherCauses == TypeOK /\ Order /\ Causes /\ (Network \/ ReaderStep \/ WriterStep \/ UserStep) => Causes'
<1> SUFFICES ASSUME TypeOK, Order, Causes, Network \/ ReaderStep \/ WriterStep \/ UserStep PROVE Causes'
  OBVIOUS
<1>1. CASE Network
  <2>1. UNCHANGED <<sResult, sCancel, rdPc, reason, rCancel, wrPc, rPc, rResult>>
    BY <1>1, CloseCases DEF Network, FinishDropped, Close, senderVars, readerVars, receiverVars, writerVars
  <2>2. conn = "open" /\ conn' \in {"open", "closed"}
    BY <1>1, CloseCases DEF Network, FinishDropped, Close
  <2> QED
    BY <2>1, <2>2 DEF Causes
<1>2. CASE ReaderStep
  <2>1. UNCHANGED <<sResult, sCancel, conn, fin, reason, rCancel, wrPc, rPc, rResult>>
        /\ rdPc \notin {"off", "failed"}
    BY <1>2 DEF ReaderStep, ReaderOpen, ReaderChunk, ReaderEnd, ReaderFails, senderVars, connVars,
       receiverVars, writerVars
  <2> QED
    BY <2>1 DEF Causes
<1>3. CASE WriterStep
  <2>1. UNCHANGED <<sResult, sCancel, rdPc, conn, fin, reason, rCancel, rPc, rResult>> /\ wrPc # "failed"
    BY <1>3 DEF WriterStep, WriterOpen, WriterWrite, WriterEnd, WriterFails, senderVars, readerVars,
       connVars, receiverVars
  <2> QED
    BY <2>1 DEF Causes
<1>4. CASE UserStep
  <2>1. UNCHANGED <<sResult, rdPc, conn, fin, reason, wrPc, rPc, rResult>>
        /\ (sCancel => sCancel') /\ (rCancel => rCancel')
    BY <1>4 DEF UserStep, PauseSender, ResumeSender, CancelSender, PauseReceiver, ResumeReceiver,
       CancelReceiver, senderVars, readerVars, connVars, receiverVars, writerVars
  <2> QED
    BY <2>1 DEF Causes
<1> QED
  BY <1>1, <1>2, <1>3, <1>4

LEMMA StepCauses == TypeOK /\ Order /\ Causes /\ [Next]_vars => Causes'
<1> SUFFICES ASSUME TypeOK, Order, Causes, [Next]_vars PROVE Causes'
  OBVIOUS
<1>1. CASE UNCHANGED vars
  BY <1>1, CausesUnchanged
  DEF vars, senderVars, readerVars, connVars, receiverVars, writerVars, causeVars
<1> QED
  BY <1>1, StepCases, SenderCauses, ReceiverCauses, OtherCauses DEF ReceiverSide

\* How the connection ended: it breaks, or a side that is through drops it.
Through ==
  \/ sPc = "done" /\ (sResult = "ok" \/ sCancel \/ rdPc \in {"off", "failed"})
  \/ rPc = "done" /\ (wrPc \in {"off", "failed"} \/ rCancel \/ reason = "complete")
Refused == rPc = "done" /\ (wrPc \in {"off", "failed"} \/ rCancel)
Cuts ==
  /\ conn = "closed" <=> cut # "no"
  /\ conn = "none" => sPc = "connect" \/ sResult = "failed"
  /\ cut = "drop" => Through
  /\ reason = "failed" => ~fin \/ wrPc = "failed"
  /\ sPc = "join" \/ sResult = "ok" => fin \/ cut = "break" \/ "drop" \in Events \/ Refused

cutVars == <<sPc, sResult, sCancel, rdPc, conn, cut, fin, rPc, wrPc, rCancel, reason>>

LEMMA CutsUnchanged == Cuts /\ UNCHANGED cutVars => Cuts'
  BY DEF Cuts, Through, Refused, cutVars

\* A side that is through while the connection is open has a reason of its own.
LEMMA DoneIsThrough ==
  TypeOK /\ Order /\ Causes /\ conn = "open" /\ (sPc = "done" \/ rPc = "done") => Through
<1> SUFFICES ASSUME TypeOK, Order, Causes, conn = "open", sPc = "done" \/ rPc = "done" PROVE Through
  OBVIOUS
<1>1. CASE rPc = "done"
  <2>1. reason \in {"none", "complete", "failed", "cancelled"}
    BY DEF TypeOK, ReceiverOK
  <2>2. reason = "none" => wrPc = "off"
    BY <1>1 DEF Order, ReceiverOrder
  <2> QED
    BY <1>1, <2>1, <2>2 DEF Through, Causes
<1>2. CASE sPc = "done" /\ rPc # "done"
  <2>1. sResult \in {"ok", "failed", "cancelled", "rejected"}
    BY <1>2 DEF Order, SenderOrder, TypeOK, SenderOK, SenderResults
  <2>2. sResult # "rejected"
    BY <1>2 DEF Order, SenderOrder, ReceiverOrder
  <2> QED
    BY <1>2, <2>1, <2>2 DEF Through, Causes
<1> QED
  BY <1>1, <1>2

LEMMA NetworkCuts == TypeOK /\ Order /\ Causes /\ Cuts /\ Network => Cuts'
<1> SUFFICES ASSUME TypeOK, Order, Causes, Cuts, Network PROVE Cuts'
  OBVIOUS
<1>u. /\ UNCHANGED <<sPc, sResult, sCancel, rdPc, rPc, wrPc, rCancel, reason>> /\ conn = "open"
      /\ (Through => Through') /\ (Refused => Refused')
  <2>1. UNCHANGED <<sPc, sResult, sCancel, rdPc, rPc, wrPc, rCancel, reason>> /\ conn = "open"
    BY CloseCases DEF Network, FinishDropped, Close, senderVars, readerVars, receiverVars, writerVars
  <2> QED
    BY <2>1 DEF Through, Refused
<1>w. reason = "failed" => wrPc = "failed"
  BY <1>u DEF Causes
<1>1. CASE FinishDropped
  <2>1. UNCHANGED <<conn, cut>> /\ fin'
    BY <1>1 DEF FinishDropped, worldVars
  <2> QED
    BY <1>u, <1>w, <2>1 DEF Cuts
<1>2. CASE CloseDropped
  <2>1. conn' = "closed" /\ cut' = "drop" /\ (fin' = fin \/ "drop" \in Events)
    BY <1>2 DEF CloseDropped, Close
  <2>2. Through
    BY <1>u, <1>2, DoneIsThrough DEF CloseDropped
  <2>3. cut = "no"
    BY <1>u DEF Cuts
  <2> QED
    BY <1>u, <1>w, <2>1, <2>2, <2>3 DEF Cuts
<1>3. CASE Break
  <2>1. conn' = "closed" /\ cut' = "break"
    BY <1>3 DEF Break, Close
  <2> QED
    BY <1>u, <1>w, <2>1 DEF Cuts
<1> QED
  BY <1>1, <1>2, <1>3 DEF Network

LEMMA SenderCuts == TypeOK /\ Order /\ Causes /\ Cuts /\ SenderStep => Cuts'
<1> SUFFICES ASSUME TypeOK, Order, Causes, Cuts, SenderStep PROVE Cuts'
  OBVIOUS
<1>d. sPc # "done"
  BY DEF SenderStep, SendRequest, ConnectFails, RequestNotSent, RequestFails,
     ReceiveAcceptance, LookUp, PassCheck, CancelSend, Dequeue, WriteSome, WriteFails, Finish,
     ReturnHash, FinishFails, LoopEnds
<1>n. sPc # "done" /\ sResult = "none"
  BY <1>d DEF Order, SenderOrder
<1>u. /\ UNCHANGED <<reason, rCancel, wrPc, sCancel, cut>>
      /\ conn' = conn \/ (conn = "none" /\ conn' = "open")
      /\ rPc' = rPc \/ (rPc = "idle" /\ rPc' = "request")
  <2>1. CASE SendRequest
    BY <2>1 DEF SendRequest, Order, SenderOrder, writerVars, worldVars
  <2>2. CASE ~SendRequest
    BY <2>2 DEF SenderStep, ConnectFails, RequestNotSent, RequestFails, ReceiveAcceptance,
       LookUp, PassCheck, CancelSend, Dequeue, WriteSome, WriteFails, Finish, ReturnHash, FinishFails,
       SenderReturns, writerVars, receiverVars, connVars, worldVars
  <2> QED
    BY <2>1, <2>2
<1>t. (cut = "drop" => Through') /\ (Refused => Refused') /\ (conn' = "closed" <=> cut' # "no")
  BY <1>n, <1>u DEF Cuts, Through, Refused
<1>1. CASE Finish
  <2>1. sPc = "dequeue" /\ sResult' = sResult /\ (fin' <=> conn = "open") /\ sPc' = "join"
        /\ conn' = conn
    BY <1>1 DEF Finish, LoopEnds
  <2>2. reason # "complete" /\ conn # "none"
    BY <2>1, <1>n DEF Cuts, Order, SenderOrder
  <2>3. reason = "failed" => ~fin' \/ wrPc = "failed"
    BY <2>1 DEF Causes
  <2>4. CASE conn = "open"
    BY <1>t, <1>u, <2>1, <2>3, <2>4 DEF Cuts
  <2>5. CASE conn = "closed"
    <3>1. cut = "break" \/ cut = "drop"
      BY <2>5 DEF Cuts, TypeOK, WorldOK
    <3>2. cut = "drop" => Refused
      BY <1>n, <2>2 DEF Cuts, Through, Refused
    <3> QED
      BY <1>t, <1>u, <2>1, <2>3, <2>5, <3>1, <3>2 DEF Cuts
  <2> QED
    BY <2>2, <2>4, <2>5 DEF TypeOK, ConnOK
<1>2. CASE ~Finish
  <2>1. fin' = fin
    BY <1>2 DEF SenderStep, SendRequest, ConnectFails, RequestNotSent, RequestFails,
       ReceiveAcceptance, LookUp, PassCheck, CancelSend, Dequeue, WriteSome, WriteFails, ReturnHash,
       FinishFails, connVars
  <2>2. (sPc' = "join" \/ sResult' = "ok" => sPc = "join") /\ (conn' = "none" => sResult' = "failed")
    BY <1>2, <1>n DEF SenderStep, SendRequest, ConnectFails, RequestNotSent, RequestFails,
       ReceiveAcceptance, LookUp, PassCheck, CancelSend, Dequeue, WriteSome, WriteFails, ReturnHash,
       FinishFails, SenderReturns, Cuts, connVars
  <2> QED
    BY <1>t, <1>u, <2>1, <2>2 DEF Cuts
<1> QED
  BY <1>1, <1>2

LEMMA ReceiverCuts == TypeOK /\ Order /\ Causes /\ Cuts /\ ReceiverSide => Cuts'
<1> SUFFICES ASSUME TypeOK, Order, Causes, Cuts, ReceiverSide PROVE Cuts'
  OBVIOUS
<1>u. UNCHANGED <<sPc, sResult, sCancel, rdPc, conn, fin, cut, rCancel>> /\ rPc # "done"
  BY DEF ReceiverSide, ReceiverStep, Refuse, Approve, ReceiveRequest, RequestLost, Respond,
     RespondFails, ReceiverLookUp, ReceiverPassCheck, ReadSome, Forward, CancelReceive, ReadEnd,
     ReadFails, ForwardFails, LeaveLoop, WriterLost, Discard, Complete, ReceiverReturns, senderVars,
     readerVars, connVars, worldVars
<1>t. (Through => Through') /\ ~Refused
  BY <1>u DEF Through, Refused
<1>1. CASE ReadFails \/ ForwardFails
  <2>1. reason' = "failed" /\ wrPc' = wrPc /\ (~fin \/ wrPc = "failed")
    BY <1>1 DEF ReadFails, ForwardFails, LeaveLoop, writerVars
  <2> QED
    BY <1>u, <1>t, <2>1 DEF Cuts
<1>2. CASE ~(ReadFails \/ ForwardFails)
  <2>1. reason' = "failed" => reason = "failed" /\ wrPc' = wrPc
    <3>1. CASE CancelReceive \/ ReadEnd
      BY <3>1 DEF CancelReceive, ReadEnd, LeaveLoop
    <3>2. CASE WriterLost \/ Discard \/ Complete \/ RequestLost \/ Refuse \/ RespondFails
      BY <3>2 DEF WriterLost, Discard, Complete, RequestLost, Refuse, RespondFails, ReceiverReturns,
         writerVars
    <3>3. CASE ReceiveRequest \/ Approve \/ Respond \/ ReceiverLookUp \/ ReceiverPassCheck \/ ReadSome \/ Forward
      <4>1. reason' = reason /\ rPc \notin {"drain", "done"}
        BY <3>3 DEF ReceiveRequest, Approve, Respond, ReceiverLookUp, ReceiverPassCheck, ReadSome, Forward
      <4>2. reason = "none"
        BY <4>1 DEF Order, ReceiverOrder
      <4> QED
        BY <4>1, <4>2
    <3> QED
      BY <1>2, <3>1, <3>2, <3>3 DEF ReceiverSide, ReceiverStep
  <2> QED
    BY <1>u, <1>t, <2>1 DEF Cuts
<1> QED
  BY <1>1, <1>2

LEMMA OtherCuts == TypeOK /\ Order /\ Cuts /\ (ReaderStep \/ WriterStep \/ UserStep) => Cuts'
<1> SUFFICES ASSUME TypeOK, Order, Cuts, ReaderStep \/ WriterStep \/ UserStep PROVE Cuts'
  OBVIOUS
<1>1. CASE ReaderStep
  <2>1. UNCHANGED <<sPc, sResult, sCancel, conn, cut, fin, rPc, wrPc, rCancel, reason>>
        /\ rdPc \notin {"off", "failed"}
    BY <1>1 DEF ReaderStep, ReaderOpen, ReaderChunk, ReaderEnd, ReaderFails, senderVars, connVars,
       receiverVars, writerVars, worldVars
  <2>2. (Through => Through') /\ (Refused => Refused')
    BY <2>1 DEF Through, Refused
  <2> QED
    BY <2>1, <2>2 DEF Cuts
<1>2. CASE WriterStep
  <2>1. UNCHANGED <<sPc, sResult, sCancel, rdPc, conn, cut, fin, rPc, rCancel, reason>>
        /\ wrPc \notin {"off", "failed"}
    BY <1>2 DEF WriterStep, WriterOpen, WriterWrite, WriterEnd, WriterFails, senderVars, readerVars,
       connVars, receiverVars, worldVars
  <2>2. (Through => Through') /\ (Refused => Refused')
    BY <2>1 DEF Through, Refused
  <2> QED
    BY <2>1, <2>2 DEF Cuts
<1>3. CASE UserStep
  <2>1. UNCHANGED <<sPc, sResult, rdPc, conn, cut, fin, rPc, wrPc, reason>>
        /\ (sCancel => sCancel') /\ (rCancel => rCancel')
    BY <1>3 DEF UserStep, PauseSender, ResumeSender, CancelSender, PauseReceiver, ResumeReceiver,
       CancelReceiver, senderVars, readerVars, connVars, receiverVars, writerVars, worldVars
  <2>2. (Through => Through') /\ (Refused => Refused')
    BY <2>1 DEF Through, Refused
  <2> QED
    BY <2>1, <2>2 DEF Cuts
<1> QED
  BY <1>1, <1>2, <1>3

LEMMA StepCuts == TypeOK /\ Order /\ Causes /\ Cuts /\ [Next]_vars => Cuts'
<1> SUFFICES ASSUME TypeOK, Order, Causes, Cuts, [Next]_vars PROVE Cuts'
  OBVIOUS
<1>1. CASE UNCHANGED vars
  BY <1>1, CutsUnchanged
  DEF vars, senderVars, readerVars, connVars, receiverVars, writerVars, worldVars, cutVars
<1> QED
  BY <1>1, StepCases, NetworkCuts, SenderCuts, ReceiverCuts, OtherCuts DEF ReceiverSide

LEMMA EndedHasCause ==
  ASSUME TypeOK, Order, Causes, Cuts, CompleteIsExact, Over, rdPc # "off"
  PROVE  Completed \/ Excused \/ ("drop" \in Events /\ CutShort)
<1>1. sPc = "done" /\ rPc \in {"idle", "done"}
  BY DEF Over
<1>2. wrPc # "off" /\ rPc = "done"
  BY <1>1 DEF Order, SenderOrder, ReceiverOrder, ReceiverLoop
<1>3. reason \in {"complete", "failed", "cancelled"} /\ sResult \in {"ok", "failed", "cancelled"}
  BY <1>1, <1>2 DEF Order, SenderOrder, ReceiverOrder, TypeOK, SenderOK, ReceiverOK, SenderResults
<1>4. SUFFICES ASSUME ~Excused PROVE Completed \/ ("drop" \in Events /\ CutShort)
  OBVIOUS
<1>5. ~sCancel /\ ~rCancel /\ rdPc # "failed" /\ wrPc # "failed" /\ cut # "break"
  BY <1>4 DEF Excused
<1>6. sResult # "cancelled" /\ reason # "cancelled"
  BY <1>5 DEF Causes
<1>7. ~Refused /\ (cut = "drop" => sResult = "ok" \/ reason = "complete")
  BY <1>2, <1>5 DEF Cuts, Through, Refused
<1>8. conn = "closed" => cut = "drop"
  BY <1>5 DEF Cuts, TypeOK, WorldOK
<1>9. CASE sResult = "failed"
  <2>1. conn = "closed" /\ reason # "complete"
    BY <1>5, <1>9 DEF Causes
  <2> QED
    BY <1>7, <1>8, <1>9, <2>1
<1>10. CASE sResult = "ok" /\ reason = "failed"
  <2>1. conn = "closed" /\ ~fin
    BY <1>5, <1>10 DEF Causes, Cuts
  <2>2. "drop" \in Events
    BY <1>5, <1>7, <1>10, <2>1 DEF Cuts
  <2> QED
    BY <1>8, <1>10, <2>1, <2>2 DEF CutShort
<1>11. CASE sResult = "ok" /\ reason = "complete"
  <2>1. rResult = "complete"
    BY <1>2, <1>5, <1>11 DEF Causes
  <2> QED
    BY <1>11, <2>1 DEF Completed, CompleteIsExact
<1> QED
  BY <1>3, <1>6, <1>9, <1>10, <1>11

\* When both functions and both tasks are through with a transfer whose acceptance
\* reached the sender, both sides report success and the file is exact, unless it
\* was cancelled, a disk failed, the connection broke, or the sender, once it had
\* returned its own success, dropped a connection that loses data by it: with a
\* connection that does not, no transfer is given up by the code.
THEOREM EndsDelivered == SafeSpec => []SettledIsDelivered
<1>1. Init => Causes /\ Cuts
  BY DEF Init, Causes, Cuts
<1>2. Inv /\ Causes /\ [Next]_vars => Causes'
  BY StepCauses DEF Inv, Order
<1>3. Inv /\ Causes /\ Cuts /\ [Next]_vars => Cuts'
  BY StepCuts DEF Inv, Order
<1>4. Inv /\ Causes /\ Cuts /\ CompleteIsExact => SettledIsDelivered
  BY EndedHasCause DEF Inv, Order, SettledIsDelivered
<1> QED
  BY <1>1, <1>2, <1>3, <1>4, Invariant, CompleteTells, PTL DEF SafeSpec
=============================================================================
