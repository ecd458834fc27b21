-------------------------- MODULE LanTransferProofs --------------------------
(***************************************************************************)
(* Proofs about LanTransfer for every file size, block size, channel and   *)
(* socket capacity, any number of attempts, pauses and edits, and every    *)
(* set of faults.                                                          *)
(***************************************************************************)
EXTENDS LanProgress, SequenceTheorems, TLAPS

-----------------------------------------------------------------------------
(* Facts about the operators *)

LEMMA FramesAreFrames ==
  ASSUME NEW tag \in Tags, NEW num \in 0..Size, NEW data \in Seq(Unit)
  PROVE  Frame(tag, num, data) \in Frames
  BY DEF Frame, Frames

LEMMA SignalsAreFrames == \A tag \in Tags : Signal(tag) \in Frames
<1>1. <<>> \in Seq(Unit) /\ 0 \in 0..Size
  BY SizeAssumption
<1> QED
  BY <1>1, FramesAreFrames DEF Signal

LEMMA NothingIsAFrame == Nothing \in Frames
  BY SignalsAreFrames DEF Nothing, Tags

\* A prefix of a sequence is a sequence over the same set, no longer than it.
LEMMA PrefixType ==
  ASSUME NEW S, NEW s \in Seq(S), NEW n \in 0..Len(s)
  PROVE  /\ Prefix(s, n) \in Seq(S)
         /\ Len(Prefix(s, n)) = n
         /\ \A i \in 1..n : Prefix(s, n)[i] = s[i]
<1>1. \A i \in 1..n : s[i] \in S
  BY ElementOfSeq
<1>2. Len(s) \in Nat
  OBVIOUS
<1> QED
  BY <1>1, <1>2, SubSeqProperties DEF Prefix

LEMMA PrefixesType ==
  ASSUME NEW S, NEW s \in Seq(S), NEW p \in Prefixes(s)
  PROVE  p \in Seq(S) /\ Len(p) <= Len(s) /\ \A i \in 1..Len(p) : p[i] = s[i]
  BY PrefixType DEF Prefixes

LEMMA FileIsASequence == ASSUME NEW f \in [1..Size -> Unit] PROVE f \in Seq(Unit) /\ Len(f) = Size
<1>1. f \in Seq(Unit)
  BY SeqDef, SizeAssumption
<1>2. DOMAIN f = 1..Size /\ DOMAIN f = 1..Len(f) /\ Len(f) \in Nat
  BY <1>1, LenProperties
<1> QED
  BY <1>1, <1>2, SizeAssumption

\* What the reader task reads at any offset inside the file.
LEMMA BlockType ==
  ASSUME NEW pos \in 0..Size, pos < Size, source \in [1..Size -> Unit]
  PROVE  BlockAt(pos) \in Seq(Unit)
<1>1. Smaller(pos + Block, Size) \in 0..Size
  BY SizeAssumption DEF Smaller
<1>2. \A i \in (pos + 1)..Smaller(pos + Block, Size) : source[i] \in Unit
  BY <1>1, SizeAssumption
<1> QED
  BY <1>1, <1>2, SubSeqProperties, SizeAssumption DEF BlockAt

\* Rounding down to a block boundary stays inside the file.
LEMMA RoundedDown ==
  ASSUME NEW n \in 0..Size
  PROVE  n \div Block \in 0..Size /\ (n \div Block) * Block \in 0..Size
<1>1. n \div Block \in Nat /\ (n \div Block) * Block <= n /\ (n \div Block) * Block \in Nat
  BY SizeAssumption, Z3
<1>2. n \div Block <= n
  BY SizeAssumption, Z3
<1> QED
  BY <1>1, <1>2, SizeAssumption

LEMMA OffsetType ==
  ASSUME WriterOK
  PROVE  ResumeOffset \in 0..Size
<1>1. CASE IsResume
  <2>1. FileLen \in 0..Size
    BY <1>1, SizeAssumption DEF IsResume, FileLen, WriterOK
  <2> QED
    BY <2>1, RoundedDown, <1>1 DEF ResumeOffset
<1>2. CASE ~IsResume
  BY <1>2, SizeAssumption DEF ResumeOffset
<1> QED
  BY <1>1, <1>2

LEMMA FilesExist == \A f \in Seq(Unit) : f # NoFile
  BY NoFileAssumption, Zenon DEF Unit

-----------------------------------------------------------------------------
(* Type correctness *)

LEMMA GroupsUnchanged ==
  /\ SenderOK /\ UNCHANGED senderVars => SenderOK'
  /\ ReaderOK /\ UNCHANGED readerVars => ReaderOK'
  /\ NetOK /\ UNCHANGED netVars => NetOK'
  /\ ReceiverOK /\ UNCHANGED receiverVars => ReceiverOK'
  /\ WriterOK /\ UNCHANGED writerVars => WriterOK'
  /\ WorldOK /\ UNCHANGED worldVars => WorldOK'
<1>1. SenderOK /\ UNCHANGED senderVars => SenderOK'
  BY Zenon DEF SenderOK, senderVars
<1>2. ReaderOK /\ UNCHANGED readerVars => ReaderOK'
  BY Zenon DEF ReaderOK, readerVars
<1>3. NetOK /\ UNCHANGED netVars => NetOK'
  BY Zenon DEF NetOK, netVars
<1>4. ReceiverOK /\ UNCHANGED receiverVars => ReceiverOK'
  BY Zenon DEF ReceiverOK, receiverVars
<1>5. WriterOK /\ UNCHANGED writerVars => WriterOK'
  BY Zenon DEF WriterOK, writerVars
<1>6. WorldOK /\ UNCHANGED worldVars => WorldOK'
  BY Zenon DEF WorldOK, worldVars
<1> QED
  BY <1>1, <1>2, <1>3, <1>4, <1>5, <1>6

\* Sending appends a frame, receiving drops the first one.
LEMMA QueueTypes ==
  ASSUME NEW q \in Seq(Frames)
  PROVE  /\ \A f \in Frames : Append(q, f) \in Seq(Frames)
         /\ q # <<>> => Head(q) \in Frames /\ Tail(q) \in Seq(Frames)
         /\ Prefixes(q) \subseteq Seq(Frames)
<1>1. Prefixes(q) \subseteq Seq(Frames)
  BY PrefixesType
<1>2. q # <<>> => Head(q) \in Frames /\ Tail(q) \in Seq(Frames)
  BY HeadTailProperties
<1> QED
  BY <1>1, <1>2

LEMMA InitTypes == Init => TypeOK
<1> SUFFICES ASSUME Init PROVE TypeOK
  OBVIOUS
<1>1. <<>> \in Seq(Frames) /\ <<>> \in Seq(Unit) /\ 0 \in 0..Size /\ 0 \in Nat
      /\ <<>> \in Seq([blk : Nat, frame : Frames])
  BY SizeAssumption
<1>2. \A v \in Nat, n \in 0..Size : FileOf(v, n) \in Seq(Unit)
  <2> SUFFICES ASSUME NEW v \in Nat, NEW n \in 0..Size PROVE FileOf(v, n) \in Seq(Unit)
    OBVIOUS
  <2>1. FileOf(v, n) \in [1..n -> Unit] /\ n \in Nat
    BY SizeAssumption DEF FileOf, Unit
  <2> QED
    BY <2>1, SeqDef
<1>3. disk \in Seq(Unit) \cup {NoFile}
  BY <1>2 DEF Init, InitialDisks
<1>4. Source0 \in [1..Size -> Unit]
  BY SizeAssumption DEF Source0, FileOf, Unit
<1>5. SenderOK
  BY NothingIsAFrame, Zenon DEF Init, SenderOK, SenderPcs
<1>6. ReaderOK /\ NetOK
  BY <1>1, Zenon DEF Init, ReaderOK, NetOK
<1>7. ReceiverOK
  BY <1>1, NothingIsAFrame, Zenon DEF Init, ReceiverOK, ReceiverPcs, ReceiverResults
<1>8. WriterOK
  BY <1>1, <1>3, Zenon DEF Init, WriterOK
<1>9. WorldOK
  BY <1>1, <1>3, <1>4, Zenon DEF Init, WorldOK
<1> QED
  BY <1>5, <1>6, <1>7, <1>8, <1>9 DEF TypeOK

LEMMA ConnectTypes == TypeOK /\ Connect => TypeOK'
<1> SUFFICES ASSUME TypeOK, Connect PROVE TypeOK'
  OBVIOUS
<1>1. <<>> \in Seq(Frames) /\ <<>> \in Seq(Unit) /\ 0 \in 0..Size /\ 0 \in Nat
      /\ <<>> \in Seq([blk : Nat, frame : Frames]) /\ <<Signal("hello")>> \in Seq(Frames)
  BY SizeAssumption, SignalsAreFrames DEF Tags
<1>2. attempts' \in Nat
  BY DEF Connect, TypeOK, WorldOK
<1>3. SenderOK'
  BY Zenon DEF Connect, TypeOK, SenderOK, SenderPcs
<1>4. ReaderOK' /\ NetOK'
  BY <1>1, Zenon DEF Connect, TypeOK, ReaderOK, NetOK
<1>5. ReceiverOK'
  BY <1>1, Zenon DEF Connect, TypeOK, ReceiverOK, ReceiverPcs, ReceiverResults
<1>6. WriterOK'
  BY <1>1, Zenon DEF Connect, TypeOK, WriterOK
<1>7. WorldOK'
  BY <1>2, Zenon DEF Connect, TypeOK, WorldOK, WriterOK
<1> QED
  BY <1>3, <1>4, <1>5, <1>6, <1>7 DEF TypeOK

LEMMA NetworkTypes == TypeOK /\ LoseFrames => TypeOK'
<1> SUFFICES ASSUME TypeOK, LoseFrames PROVE TypeOK'
  OBVIOUS
<1>1. NetOK'
  BY QueueTypes DEF LoseFrames, TypeOK, NetOK
<1> QED
  BY <1>1, GroupsUnchanged DEF LoseFrames, TypeOK

LEMMA SenderTypes == TypeOK /\ SenderStep => TypeOK'
<1> SUFFICES ASSUME TypeOK, SenderStep PROVE TypeOK'
  OBVIOUS
<1>f. \A tag \in Tags : Signal(tag) \in Frames
  BY SignalsAreFrames
<1>q. /\ \A f \in Frames : Append(toR, f) \in Seq(Frames)
      /\ toS # <<>> => Head(toS) \in Frames /\ Tail(toS) \in Seq(Frames)
      /\ dataCh # <<>> => Head(dataCh) \in Frames /\ Tail(dataCh) \in Seq(Frames)
  BY QueueTypes DEF TypeOK, NetOK, ReaderOK
<1>1. CASE SendMetadata
  <2>1. SenderOK'
    BY <1>1, Zenon DEF SendMetadata, TypeOK, SenderOK, SenderPcs
  <2>2. NetOK'
    BY <1>1, <1>f, <1>q, Zenon DEF SendMetadata, TypeOK, NetOK, Tags
  <2>3. WorldOK'
    BY <1>1, Zenon DEF SendMetadata, TypeOK, WorldOK
  <2> QED
    BY <1>1, <2>1, <2>2, <2>3, GroupsUnchanged DEF SendMetadata, TypeOK
<1>2. CASE ReceiveAccept
  <2>1. SenderOK'
    BY <1>2, Zenon DEF ReceiveAccept, TypeOK, SenderOK, SenderPcs, SenderLoop
  <2>2. Head(toS).num \in 0..Size
    BY <1>2, <1>q DEF ReceiveAccept, Frames
  <2>3. ReaderOK'
    BY <1>2, <2>2, Zenon DEF ReceiveAccept, TypeOK, ReaderOK
  <2>4. NetOK'
    BY <1>2, <1>q, Zenon DEF ReceiveAccept, TypeOK, NetOK
  <2> QED
    BY <1>2, <2>1, <2>3, <2>4, GroupsUnchanged DEF ReceiveAccept, TypeOK
<1>3. CASE Dequeue
  <2>1. SenderOK'
    BY <1>3, <1>q, Zenon DEF Dequeue, TypeOK, SenderOK, SenderPcs, SenderLoop
  <2>2. ReaderOK'
    BY <1>3, <1>q, Zenon DEF Dequeue, TypeOK, ReaderOK
  <2> QED
    BY <1>3, <2>1, <2>2, GroupsUnchanged DEF Dequeue, TypeOK
<1>4. CASE HandshakeFails \/ PassGate \/ CancelSend \/ SendFailsInLoop \/ EndLoop \/ CompletionFails
  <2>1. SenderOK'
    BY <1>4, NothingIsAFrame, ZenonT(60) DEF HandshakeFails, PassGate, CancelSend, SendFailsInLoop,
       EndLoop, CompletionFails, LeaveLoop, SenderReturns, TypeOK, SenderOK, SenderPcs, SenderLoop
  <2> QED
    BY <1>4, <2>1, GroupsUnchanged DEF HandshakeFails, PassGate, CancelSend, SendFailsInLoop,
       EndLoop, CompletionFails, LeaveLoop, TypeOK
<1>5. CASE SendChunk
  <2>1. SenderOK'
    BY <1>5, NothingIsAFrame, Zenon DEF SendChunk, TypeOK, SenderOK, SenderPcs, SenderLoop
  <2>2. NetOK'
    BY <1>5, <1>q, Zenon DEF SendChunk, TypeOK, NetOK, SenderOK
  <2> QED
    BY <1>5, <2>1, <2>2, GroupsUnchanged DEF SendChunk, TypeOK
<1>6. CASE SendAbort \/ SendComplete
  <2>1. SenderOK'
    BY <1>6, Zenon DEF SendAbort, SendComplete, SenderReturns, TypeOK, SenderOK, SenderPcs
  <2>2. /\ Signal(IF sResult = "cancelled" THEN "cancelled" ELSE "error") \in Frames
        /\ Signal("complete") \in Frames
    BY <1>f DEF Tags
  <2>3. NetOK'
    BY <1>6, <1>q, <2>2, Zenon DEF SendAbort, SendComplete, TypeOK, NetOK
  <2> QED
    BY <1>6, <2>1, <2>3, GroupsUnchanged DEF SendAbort, SendComplete, TypeOK
<1>7. CASE MetadataFails \/ ReceiveAck
  <2>1. SenderOK'
    BY <1>7, Zenon DEF MetadataFails, ReceiveAck, SenderReturns, TypeOK, SenderOK, SenderPcs
  <2>2. NetOK'
    BY <1>7, <1>q, Zenon DEF MetadataFails, ReceiveAck, TypeOK, NetOK
  <2> QED
    BY <1>7, <2>1, <2>2, GroupsUnchanged DEF MetadataFails, ReceiveAck, TypeOK
<1> QED
  BY <1>1, <1>2, <1>3, <1>4, <1>5, <1>6, <1>7 DEF SenderStep

LEMMA ReaderTypes == TypeOK /\ ReaderTask => TypeOK'
<1> SUFFICES ASSUME TypeOK, ReaderTask PROVE TypeOK'
  OBVIOUS
<1>1. CASE ReaderOpen
  <2>1. Prefix(source, start) \in Seq(Unit)
    BY FileIsASequence, PrefixType DEF TypeOK, WorldOK, ReaderOK
  <2>2. ReaderOK'
    BY <1>1, <2>1, Zenon DEF ReaderOpen, TypeOK, ReaderOK
  <2> QED
    BY <1>1, <2>2, GroupsUnchanged DEF ReaderOpen, TypeOK
<1>2. CASE ReaderBlock
  <2>1. BlockAt(rdNext) \in Seq(Unit)
    BY <1>2, BlockType DEF ReaderBlock, TypeOK, ReaderOK, WorldOK
  <2>2. Frame("chunk", rdNext \div Block, BlockAt(rdNext)) \in Frames
    BY <2>1, RoundedDown, FramesAreFrames DEF TypeOK, ReaderOK, Tags
  <2>3. dataCh' \in Seq(Frames)
    BY <1>2, <2>2, QueueTypes DEF ReaderBlock, TypeOK, ReaderOK
  <2>4. hashed' \in Seq(Unit)
    BY <1>2, <2>1, ConcatProperties DEF ReaderBlock, TypeOK, ReaderOK
  <2>5. rdNext' \in 0..Size
    BY <1>2, SizeAssumption DEF ReaderBlock, TypeOK, ReaderOK, Smaller
  <2>6. ReaderOK'
    BY <1>2, <2>3, <2>4, <2>5, Zenon DEF ReaderBlock, TypeOK, ReaderOK
  <2> QED
    BY <1>2, <2>6, GroupsUnchanged DEF ReaderBlock, TypeOK
<1>3. CASE ReaderEnd \/ ReaderFails
  <2>1. ReaderOK'
    BY <1>3, Zenon DEF ReaderEnd, ReaderFails, TypeOK, ReaderOK
  <2> QED
    BY <1>3, <2>1, GroupsUnchanged DEF ReaderEnd, ReaderFails, TypeOK
<1> QED
  BY <1>1, <1>2, <1>3 DEF ReaderTask

LEMMA ReceiverTypes == TypeOK /\ (ReceiverStep \/ Reject \/ Approve) => TypeOK'
<1> SUFFICES ASSUME TypeOK, ReceiverStep \/ Reject \/ Approve PROVE TypeOK'
  OBVIOUS
<1>f. \A tag \in Tags : Signal(tag) \in Frames
  BY SignalsAreFrames
<1>q. /\ \A f \in Frames : Append(toS, f) \in Seq(Frames)
      /\ toR # <<>> => Head(toR) \in Frames /\ Tail(toR) \in Seq(Frames)
  BY QueueTypes DEF TypeOK, NetOK
<1>o. ResumeOffset \in 0..Size /\ ResumeOffset \div Block \in Nat
  BY OffsetType, RoundedDown DEF TypeOK
<1>c. (SayCancelled => toS' \in Seq(Frames)) /\ (toS' = toS => toS' \in Seq(Frames))
  BY <1>f, <1>q DEF SayCancelled, Tags, TypeOK, NetOK
<1>1. CASE AnswerHello \/ ReceiveMetadata
  <2>1. ReceiverOK'
    BY <1>1, Zenon DEF AnswerHello, ReceiveMetadata, TypeOK, ReceiverOK, ReceiverPcs
  <2>2. NetOK'
    BY <1>1, <1>f, <1>q, Zenon DEF AnswerHello, ReceiveMetadata, TypeOK, NetOK, Tags
  <2> QED
    BY <1>1, <2>1, <2>2, GroupsUnchanged DEF AnswerHello, ReceiveMetadata, TypeOK
<1>2. CASE IncomingFails \/ Reject \/ Approve \/ PassReceiverGate
  <2>1. ReceiverOK'
    BY <1>2, ZenonT(30) DEF IncomingFails, Reject, Approve, PassReceiverGate, ReceiverReturns, TypeOK,
       ReceiverOK, ReceiverPcs, ReceiverResults, ReceiverLoop
  <2> QED
    BY <1>2, <2>1, GroupsUnchanged DEF IncomingFails, Reject, Approve, PassReceiverGate, TypeOK
<1>3. CASE Accept
  <2>1. ReceiverOK'
    BY <1>3, <1>o, Zenon DEF Accept, TypeOK, ReceiverOK, ReceiverPcs, ReceiverLoop
  <2>2. NetOK'
    <3>1. Frame("accept", ResumeOffset, <<>>) \in Frames
      <4>1. <<>> \in Seq(Unit) /\ "accept" \in Tags
        BY DEF Tags
      <4> QED
        BY <1>o, <4>1, FramesAreFrames
    <3> QED
      BY <1>3, <1>q, <3>1, Zenon DEF Accept, TypeOK, NetOK
  <2>3. WriterOK'
    BY <1>3, Zenon DEF Accept, TypeOK, WriterOK
  <2> QED
    BY <1>3, <2>1, <2>2, <2>3, GroupsUnchanged DEF Accept, TypeOK
<1>4. CASE ReadChunk
  <2>1. ReceiverOK'
    BY <1>4, <1>q, Zenon DEF ReadChunk, TypeOK, ReceiverOK, ReceiverPcs, ReceiverLoop
  <2>2. NetOK'
    BY <1>4, <1>q, Zenon DEF ReadChunk, TypeOK, NetOK
  <2> QED
    BY <1>4, <2>1, <2>2, GroupsUnchanged DEF ReadChunk, TypeOK
<1>5. CASE Forward
  <2>1. blockIndex + 1 \in Nat
    BY DEF TypeOK, ReceiverOK
  <2>2. ReceiverOK'
    BY <1>5, <2>1, NothingIsAFrame, Zenon DEF Forward, TypeOK, ReceiverOK, ReceiverPcs, ReceiverLoop
  <2>3. [blk |-> blockIndex, frame |-> rHeld] \in [blk : Nat, frame : Frames]
    BY DEF TypeOK, ReceiverOK
  <2>4. diskCh' \in Seq([blk : Nat, frame : Frames])
    BY <1>5, <2>3, AppendProperties DEF Forward, TypeOK, WriterOK
  <2>5. WriterOK'
    BY <1>5, <2>4, Zenon DEF Forward, TypeOK, WriterOK
  <2> QED
    BY <1>5, <2>2, <2>5, GroupsUnchanged DEF Forward, TypeOK
<1>6. CASE CancelReceive \/ ReadLast \/ ReadFails \/ ForwardFails
  <2>1. PICK why \in {"complete", "failed", "cancelled"} : AfterLoop(why)
    BY <1>6 DEF CancelReceive, ReadLast, ReadFails, ForwardFails
  <2>2. ReceiverOK'
    BY <2>1, NothingIsAFrame, Zenon DEF AfterLoop, TypeOK, ReceiverOK, ReceiverPcs
  <2>3. toS' \in Seq(Frames)
    BY <1>6, <1>c DEF CancelReceive, ReadLast, ReadFails, ForwardFails
  <2>4. toR' \in Seq(Frames)
    BY <1>6, <1>q DEF CancelReceive, ReadLast, ReadFails, ForwardFails, TypeOK, NetOK
  <2>5. NetOK'
    BY <2>1, <2>3, <2>4, Zenon DEF AfterLoop, TypeOK, NetOK
  <2> QED
    BY <2>1, <2>2, <2>5, GroupsUnchanged DEF AfterLoop, TypeOK
<1>7. CASE Discard \/ VerifyFails
  <2>1. ReceiverOK'
    BY <1>7, Zenon DEF Discard, VerifyFails, ReceiverReturns, TypeOK, ReceiverOK, ReceiverPcs,
       ReceiverResults
  <2>2. WriterOK'
    BY <1>7, Zenon DEF Discard, VerifyFails, TypeOK, WriterOK
  <2> QED
    BY <1>7, <2>1, <2>2, GroupsUnchanged DEF Discard, VerifyFails, TypeOK
<1>8. CASE VerifyGood
  <2>1. ReceiverOK'
    BY <1>8, Zenon DEF VerifyGood, ReceiverReturns, TypeOK, ReceiverOK, ReceiverPcs, ReceiverResults
  <2>2. NetOK'
    BY <1>8, <1>f, <1>q, Zenon DEF VerifyGood, TypeOK, NetOK, Tags
  <2> QED
    BY <1>8, <2>1, <2>2, GroupsUnchanged DEF VerifyGood, TypeOK
<1>9. CASE VerifyBad
  <2>1. ReceiverOK'
    BY <1>9, Zenon DEF VerifyBad, ReceiverReturns, TypeOK, ReceiverOK, ReceiverPcs, ReceiverResults
  <2>2. NetOK'
    BY <1>9, <1>f, <1>q, Zenon DEF VerifyBad, TypeOK, NetOK, Tags
  <2>3. WriterOK'
    BY <1>9, Zenon DEF VerifyBad, TypeOK, WriterOK
  <2> QED
    BY <1>9, <2>1, <2>2, <2>3, GroupsUnchanged DEF VerifyBad, TypeOK
<1> QED
  BY <1>1, <1>2, <1>3, <1>4, <1>5, <1>6, <1>7, <1>8, <1>9 DEF ReceiverStep

\* While the writer task has a file to write to, there is one.
FileOpen == wrPc \in {"append", "run"} => disk # NoFile

LEMMA JobTypes ==
  ASSUME TypeOK, diskCh # <<>>
  PROVE  /\ Head(diskCh) \in [blk : Nat, frame : Frames]
         /\ Tail(diskCh) \in Seq([blk : Nat, frame : Frames])
         /\ Head(diskCh).frame.data \in Seq(Unit)
<1>1. Head(diskCh) \in [blk : Nat, frame : Frames] /\ Tail(diskCh) \in Seq([blk : Nat, frame : Frames])
  BY HeadTailProperties DEF TypeOK, WriterOK
<1> QED
  BY <1>1 DEF Frames

LEMMA WriterTypes == TypeOK /\ FileOpen /\ WriterTask => TypeOK'
<1> SUFFICES ASSUME TypeOK, FileOpen, WriterTask PROVE TypeOK'
  OBVIOUS
<1>e. <<>> \in Seq(Unit) /\ <<>> \in Seq([blk : Nat, frame : Frames])
  OBVIOUS
<1>1. WriterOK'
  <2>1. CASE WriterOpen
    BY <2>1, <1>e, Zenon DEF WriterOpen, TypeOK, WriterOK
  <2>2. CASE WriterBlock
    <3>1. disk \in Seq(Unit)
      BY <2>2, Zenon DEF WriterBlock, TypeOK, WriterOK, FileOpen
    <3>2. /\ Head(diskCh).frame.data \in Seq(Unit)
          /\ Tail(diskCh) \in Seq([blk : Nat, frame : Frames])
      BY <2>2, JobTypes DEF WriterBlock
    <3>3. disk \o Head(diskCh).frame.data \in Seq(Unit)
      BY <3>1, <3>2, ConcatProperties
    <3> QED
      BY <2>2, <3>1, <3>2, <3>3, Zenon DEF WriterBlock, TypeOK, WriterOK
  <2>3. CASE WriterEnd \/ WriterFails
    BY <2>3, <1>e, Zenon DEF WriterEnd, WriterFails, TypeOK, WriterOK
  <2> QED
    BY <2>1, <2>2, <2>3 DEF WriterTask
<1> QED
  BY <1>1, GroupsUnchanged DEF WriterTask, WriterOpen, WriterBlock, WriterEnd, WriterFails, TypeOK

LEMMA UserTypes == TypeOK /\ UserStep => TypeOK'
<1> SUFFICES ASSUME TypeOK, UserStep PROVE TypeOK'
  OBVIOUS
<1>1. CASE PauseSender \/ ResumeSender \/ CancelSender
  <2>1. SenderOK'
    BY <1>1, Zenon DEF PauseSender, ResumeSender, CancelSender, TypeOK, SenderOK
  <2>2. WorldOK'
    BY <1>1 DEF PauseSender, ResumeSender, CancelSender, TypeOK, WorldOK, worldVars
  <2> QED
    BY <1>1, <2>1, <2>2, GroupsUnchanged DEF PauseSender, ResumeSender, CancelSender, TypeOK
<1>2. CASE PauseReceiver \/ ResumeReceiver \/ CancelReceiver
  <2>1. ReceiverOK'
    BY <1>2, Zenon DEF PauseReceiver, ResumeReceiver, CancelReceiver, TypeOK, ReceiverOK
  <2>2. WorldOK'
    BY <1>2 DEF PauseReceiver, ResumeReceiver, CancelReceiver, TypeOK, WorldOK, worldVars
  <2> QED
    BY <1>2, <2>1, <2>2, GroupsUnchanged DEF PauseReceiver, ResumeReceiver, CancelReceiver, TypeOK
<1>3. CASE EditSource
  <2>1. PICK changed \in SUBSET (1..Size) :
          source' = [i \in 1..Size |-> IF i \in changed THEN <<i, edits + 2>> ELSE source[i]]
    BY <1>3 DEF EditSource
  <2>2. edits' \in Nat /\ source' \in [1..Size -> Unit]
    <3>1. edits \in Nat /\ source \in [1..Size -> Unit] /\ edits' = edits + 1
      BY <1>3, Zenon DEF EditSource, TypeOK, WorldOK
    <3>2. \A i \in 1..Size : <<i, edits + 2>> \in Unit
      BY <3>1, SizeAssumption DEF Unit
    <3> QED
      BY <2>1, <3>1, <3>2
  <2>3. WorldOK'
    BY <1>3, <2>2, Zenon DEF EditSource, TypeOK, WorldOK
  <2> QED
    BY <1>3, <2>3, GroupsUnchanged DEF EditSource, TypeOK
<1> QED
  BY <1>1, <1>2, <1>3 DEF UserStep

LEMMA CrashTypes == TypeOK /\ FileOpen /\ ReceiverCrash => TypeOK'
<1> SUFFICES ASSUME TypeOK, FileOpen, ReceiverCrash PROVE TypeOK'
  OBVIOUS
<1>1. disk' \in Seq(Unit) \cup {NoFile}
  <2>1. CASE disk' = disk
    BY <2>1 DEF TypeOK, WriterOK
  <2>2. CASE disk' # disk
    <3>1. wrPc = "run" /\ diskCh # <<>> /\ disk \in Seq(Unit)
      BY <2>2 DEF ReceiverCrash, FileOpen, TypeOK, WriterOK
    <3>2. PICK p \in Prefixes(Head(diskCh).frame.data) : disk' = disk \o p
      BY <2>2, <3>1 DEF ReceiverCrash
    <3>3. p \in Seq(Unit)
      BY <3>1, JobTypes, PrefixesType
    <3> QED
      BY <3>1, <3>2, <3>3, ConcatProperties
  <2> QED
    BY <2>1, <2>2
<1>2. WriterOK'
  <2>1. <<>> \in Seq([blk : Nat, frame : Frames])
    OBVIOUS
  <2> QED
    BY <1>1, <2>1, Zenon DEF ReceiverCrash, TypeOK, WriterOK
<1>3. ReceiverOK'
  BY NothingIsAFrame, Zenon DEF ReceiverCrash, ReceiverReturns, TypeOK, ReceiverOK, ReceiverPcs,
     ReceiverResults
<1> QED
  BY <1>2, <1>3, GroupsUnchanged DEF ReceiverCrash, TypeOK

\* A partial file is only resumed when it is there, and only a task that has
\* ended, or is about to be told so, loses it.
LEMMA FileOpenStep == TypeOK /\ FileOpen /\ [Next]_vars => FileOpen'
<1> SUFFICES ASSUME TypeOK, FileOpen, [Next]_vars PROVE FileOpen'
  OBVIOUS
<1>0. CASE UNCHANGED <<wrPc, disk>>
  BY <1>0 DEF FileOpen
<1>1. CASE Accept
  <2>1. IsResume => disk # NoFile
    BY DEF IsResume, FileLen
  <2> QED
    BY <1>1, <2>1 DEF Accept, FileOpen
<1>2. CASE Connect \/ Discard \/ VerifyBad \/ VerifyFails
  BY <1>2 DEF Connect, Discard, WriterDone, VerifyBad, VerifyFails, FileOpen
<1>3. CASE WriterOpen
  <2>1. <<>> # NoFile
    <3>1. <<>> \in Seq(Unit)
      OBVIOUS
    <3> QED
      BY <3>1, FilesExist
  <2> QED
    BY <1>3, <2>1, Zenon DEF WriterOpen, FileOpen
<1>4. CASE WriterBlock
  <2>1. disk \in Seq(Unit)
    BY <1>4, Zenon DEF WriterBlock, FileOpen, TypeOK, WriterOK
  <2>2. disk \o Head(diskCh).frame.data # NoFile
    <3>1. Head(diskCh).frame.data \in Seq(Unit)
      BY <1>4, JobTypes DEF WriterBlock
    <3>2. disk \o Head(diskCh).frame.data \in Seq(Unit)
      BY <2>1, <3>1, ConcatProperties
    <3> QED
      BY <3>2, FilesExist
  <2> QED
    BY <1>4, <2>2, Zenon DEF WriterBlock, FileOpen
<1>5. CASE WriterEnd \/ WriterFails \/ ReceiverCrash
  BY <1>5 DEF WriterEnd, WriterFails, ReceiverCrash, FileOpen
<1>6. CASE SenderStep \/ ReaderTask \/ UserStep \/ PeerReset \/ Break
  BY <1>0, <1>6 DEF SenderStep, SendMetadata, ReceiveAccept, HandshakeFails, MetadataFails, PassGate, Dequeue,
     SendChunk, CancelSend, SendFailsInLoop, LeaveLoop, SendAbort, EndLoop, SendComplete,
     CompletionFails, ReceiveAck, ReaderTask, ReaderOpen, ReaderBlock, ReaderEnd, ReaderFails,
     UserStep, PauseSender, ResumeSender, CancelSender, PauseReceiver, ResumeReceiver,
     CancelReceiver, EditSource, PeerReset, Break, LoseFrames, writerVars
<1>7. CASE \/ AnswerHello \/ ReceiveMetadata \/ IncomingFails \/ Reject \/ Approve
           \/ PassReceiverGate \/ ReadChunk \/ Forward \/ CancelReceive \/ ReadLast
           \/ ReadFails \/ ForwardFails \/ VerifyGood
  BY <1>0, <1>7 DEF AnswerHello, ReceiveMetadata, IncomingFails, Reject, Approve,
     PassReceiverGate, ReadChunk, Forward, CancelReceive, ReadLast, ReadFails, ForwardFails,
     AfterLoop, VerifyGood, writerVars
<1> QED
  BY <1>0, <1>1, <1>2, <1>3, <1>4, <1>5, <1>6, <1>7
  DEF Next, ReceiverStep, WriterTask, UserStep, vars, writerVars

LEMMA StepTypes == TypeOK /\ FileOpen /\ [Next]_vars => TypeOK'
<1>1. TypeOK /\ UNCHANGED vars => TypeOK'
  BY GroupsUnchanged DEF TypeOK, vars
<1> QED
  BY <1>1, ConnectTypes, NetworkTypes, SenderTypes, ReaderTypes, ReceiverTypes, WriterTypes,
     UserTypes, CrashTypes DEF Next, UserStep, PeerReset, Break

\* Every variable keeps its type: what the four tasks of send_file_direct_tcp
\* and handle_incoming hold, queue, send and write is what they declare.
THEOREM TypeCorrect == SafeSpec => []TypeOK
<1>1. Init => TypeOK /\ FileOpen
  BY InitTypes DEF Init, FileOpen
<1>2. TypeOK /\ FileOpen /\ [Next]_vars => (TypeOK /\ FileOpen)'
  BY StepTypes, FileOpenStep
<1> QED
  BY <1>1, <1>2, PTL DEF SafeSpec

-----------------------------------------------------------------------------
(* Safety: what is reported agrees with what is on disk *)

\* A frame with that tag is in flight.
Carries(q, tag) == \E i \in 1..Len(q) : q[i].tag = tag

LEMMA CarriesAppend ==
  ASSUME NEW q \in Seq(Frames), NEW f \in Frames, NEW tag
  PROVE  Carries(Append(q, f), tag) => Carries(q, tag) \/ f.tag = tag
<1> SUFFICES ASSUME NEW i \in 1..Len(Append(q, f)), Append(q, f)[i].tag = tag, f.tag # tag
             PROVE  Carries(q, tag)
  BY DEF Carries
<1>1. Len(Append(q, f)) = Len(q) + 1 /\ Append(q, f)[Len(q) + 1] = f
      /\ \A j \in 1..Len(q) : Append(q, f)[j] = q[j]
  BY AppendProperties
<1>2. Len(q) \in Nat
  OBVIOUS
<1>3. i \in 1..Len(q)
  BY <1>1, <1>2
<1> QED
  BY <1>1, <1>3 DEF Carries

LEMMA CarriesTail ==
  ASSUME NEW q \in Seq(Frames), q # <<>>, NEW tag
  PROVE  /\ Carries(Tail(q), tag) => Carries(q, tag)
         /\ Head(q).tag = tag => Carries(q, tag)
<1>1. Len(q) \in Nat \ {0} /\ Head(q) = q[1]
  BY EmptySeq, HeadTailProperties
<1>2. Len(Tail(q)) = Len(q) - 1 /\ \A i \in 1..Len(Tail(q)) : Tail(q)[i] = q[i + 1]
  BY HeadTailProperties
<1>3. \A i \in 1..Len(Tail(q)) : i + 1 \in 1..Len(q)
  BY <1>1, <1>2
<1>4. Carries(Tail(q), tag) => Carries(q, tag)
  BY <1>2, <1>3 DEF Carries
<1>5. 1 \in 1..Len(q)
  BY <1>1
<1> QED
  BY <1>1, <1>4, <1>5 DEF Carries

LEMMA CarriesPrefix ==
  ASSUME NEW q \in Seq(Frames), NEW p \in Prefixes(q), NEW tag
  PROVE  Carries(p, tag) => Carries(q, tag)
<1>1. p \in Seq(Frames) /\ Len(p) <= Len(q) /\ \A i \in 1..Len(p) : p[i] = q[i]
  BY PrefixesType
<1>2. 1..Len(p) \subseteq 1..Len(q)
  BY <1>1
<1> QED
  BY <1>1, <1>2 DEF Carries

\* The receiver has kept the file.
Completed == rPc = "done" /\ rResult \in {"complete", "unacked"}

\* The receiver has read METADATA.
Asked == rPc \in {"prompt", "accept", "drain"} \cup ReceiverLoop \/ Completed

\* The sender is past create_metadata, so announced stays as it is.
MetadataSent == sPc \notin {"idle", "hello"}

\* The strengthening that makes CompleteIsExact and OkMeansStored inductive:
\* a kept file has no writer left and an announcement that will not change,
\* and COMPLETE is in flight only after the receiver kept the file.
Accord ==
  /\ Completed => wrPc = "ok" /\ disk = announced
  /\ Asked \/ Carries(toR, "meta") => MetadataSent
  /\ Carries(toS, "complete") => rPc = "done" /\ rResult = "complete"
  /\ sResult = "ok" => sPc = "done" /\ rPc = "done" /\ rResult = "complete"

LEMMA SignalTags == \A tag : Signal(tag).tag = tag
  BY DEF Signal, Frame

LEMMA InitAccord == Init => Accord
  BY SMT DEF Init, Accord, Completed, Asked, Carries, ReceiverLoop

LEMMA ConnectAccord == TypeOK /\ Accord /\ Connect => Accord'
<1> SUFFICES ASSUME Connect PROVE Accord'
  OBVIOUS
<1>1. ~Carries(toR', "meta") /\ ~Carries(toS', "complete")
  BY SignalTags DEF Connect, Carries
<1>2. ~Completed' /\ ~Asked'
  BY DEF Connect, Completed, Asked, ReceiverLoop
<1> QED
  BY <1>1, <1>2 DEF Connect, Accord

LEMMA NetworkAccord == TypeOK /\ Accord /\ LoseFrames => Accord'
<1> SUFFICES ASSUME TypeOK, Accord, LoseFrames PROVE Accord'
  OBVIOUS
<1>1. Carries(toR', "meta") => Carries(toR, "meta")
  BY CarriesPrefix DEF LoseFrames, TypeOK, NetOK
<1>2. Carries(toS', "complete") => Carries(toS, "complete")
  BY CarriesPrefix DEF LoseFrames, TypeOK, NetOK
<1> QED
  BY <1>1, <1>2 DEF Accord, Completed, Asked, MetadataSent, LoseFrames, senderVars, receiverVars,
     writerVars, worldVars

\* No step of the sender puts METADATA on the wire before it is past
\* create_metadata, changes the announcement after that, or succeeds unless the
\* receiver kept the file.
LEMMA SenderAccord == TypeOK /\ Accord /\ SenderStep => Accord'
<1> SUFFICES ASSUME TypeOK, Accord, SenderStep PROVE Accord'
  OBVIOUS
<1>q. toR \in Seq(Frames) /\ toS \in Seq(Frames)
  BY DEF TypeOK, NetOK
<1>s. toS # <<>> => /\ Carries(Tail(toS), "complete") => Carries(toS, "complete")
                    /\ Head(toS).tag = "complete" => Carries(toS, "complete")
  BY <1>q, CarriesTail
<1>1. CASE SendMetadata
  <2>1. ~Asked /\ Asked' = Asked /\ ~Completed'
    BY <1>1 DEF SendMetadata, Accord, MetadataSent, Asked, Completed, receiverVars
  <2>2. MetadataSent' /\ (Carries(toS', "complete") => Carries(toS, "complete"))
    BY <1>1, <1>s DEF SendMetadata, MetadataSent
  <2> QED
    BY <1>1, <2>1, <2>2 DEF SendMetadata, Accord, receiverVars
<1>2. CASE SenderStep /\ ~SendMetadata
  <2>1. UNCHANGED <<receiverVars, writerVars, worldVars>>
    BY <1>2 DEF SenderStep, ReceiveAccept, HandshakeFails, MetadataFails, PassGate, Dequeue, SendChunk, CancelSend,
       SendFailsInLoop, LeaveLoop, SendAbort, EndLoop, SendComplete, CompletionFails, ReceiveAck
  <2>2. UNCHANGED <<rPc, rResult, wrPc, disk, announced>>
    BY <2>1, Zenon DEF receiverVars, writerVars, worldVars
  <2>3. sPc' \notin {"idle", "hello"}
    BY <1>2 DEF SenderStep, ReceiveAccept, HandshakeFails, MetadataFails, PassGate, Dequeue, SendChunk, CancelSend,
       SendFailsInLoop, LeaveLoop, SendAbort, EndLoop, SendComplete, CompletionFails, ReceiveAck,
       SenderReturns
  <2>4. Carries(toS', "complete") => Carries(toS, "complete")
    BY <1>2, <1>s DEF SenderStep, ReceiveAccept, HandshakeFails, MetadataFails, PassGate, Dequeue, SendChunk,
       CancelSend, SendFailsInLoop, LeaveLoop, SendAbort, EndLoop, SendComplete, CompletionFails,
       ReceiveAck, netVars
  <2>5. sResult' = "ok" => sPc' = "done" /\ rPc = "done" /\ rResult = "complete"
    <3>1. CASE ReceiveAck
      BY <1>s, <3>1 DEF ReceiveAck, SenderReturns, Accord
    <3>2. CASE HandshakeFails \/ MetadataFails \/ CancelSend \/ SendFailsInLoop \/ CompletionFails
      BY <3>2 DEF HandshakeFails, MetadataFails, CancelSend, SendFailsInLoop, CompletionFails, SenderReturns
    <3>3. CASE \/ ReceiveAccept \/ PassGate \/ Dequeue \/ SendChunk \/ EndLoop \/ SendComplete
               \/ SendAbort
      BY <3>3 DEF ReceiveAccept, PassGate, Dequeue, SendChunk, EndLoop, SendComplete, SendAbort,
         SenderReturns, Accord
    <3> QED
      BY <1>2, <3>1, <3>2, <3>3 DEF SenderStep
  <2> QED
    BY <2>2, <2>3, <2>4, <2>5 DEF Accord, Completed, Asked, MetadataSent
<1> QED
  BY <1>1, <1>2

\* COMPLETE goes out only from VerifyGood, and the receiver gets past "meta"
\* only with METADATA in hand.
LEMMA ReceiverAccord == TypeOK /\ Accord /\ (ReceiverStep \/ Reject \/ Approve) => Accord'
<1> SUFFICES ASSUME TypeOK, Accord, ReceiverStep \/ Reject \/ Approve PROVE Accord'
  OBVIOUS
<1>f. \A tag \in Tags : Signal(tag) \in Frames
  BY SignalsAreFrames
<1>q. toR \in Seq(Frames) /\ toS \in Seq(Frames)
  BY DEF TypeOK, NetOK
<1>s. toR # <<>> => /\ Carries(Tail(toR), "meta") => Carries(toR, "meta")
                    /\ Head(toR).tag = "meta" => Carries(toR, "meta")
  BY <1>q, CarriesTail
<1>a. /\ Carries(Append(toS, Signal("hello")), "complete") => Carries(toS, "complete")
      /\ Carries(Append(toS, Signal("error")), "complete") => Carries(toS, "complete")
      /\ Carries(Append(toS, Signal("cancelled")), "complete") => Carries(toS, "complete")
      /\ Carries(Append(toS, Frame("accept", ResumeOffset, <<>>)), "complete")
           => Carries(toS, "complete")
  <2>1. Frame("accept", ResumeOffset, <<>>) \in Frames /\ Frame("accept", ResumeOffset, <<>>).tag = "accept"
    <3>1. "accept" \in Tags /\ <<>> \in Seq(Unit) /\ ResumeOffset \in 0..Size
      BY OffsetType DEF Tags, TypeOK
    <3> QED
      BY <3>1, FramesAreFrames DEF Frame
  <2>2. {Signal("hello"), Signal("error"), Signal("cancelled")} \subseteq Frames
    BY <1>f DEF Tags
  <2> QED
    BY <1>q, <2>1, <2>2, CarriesAppend, SignalTags
<1>u. UNCHANGED <<senderVars, readerVars, worldVars>>
  BY DEF ReceiverStep, AnswerHello, ReceiveMetadata, IncomingFails, Reject, Approve, Accept,
     PassReceiverGate, ReadChunk, Forward, CancelReceive, ReadLast, ReadFails, ForwardFails,
     AfterLoop, Discard, VerifyGood, VerifyBad, VerifyFails
<1>v. UNCHANGED <<sPc, sResult, announced>>
  BY <1>u, Zenon DEF senderVars, worldVars
<1>p. rPc # "done" /\ sResult # "ok" /\ ~Carries(toS, "complete")
  <2>1. rPc # "done"
    BY DEF ReceiverStep, AnswerHello, ReceiveMetadata, IncomingFails, Reject, Approve, Accept,
       PassReceiverGate, ReadChunk, Forward, CancelReceive, ReadLast, ReadFails, ForwardFails,
       Discard, VerifyGood, VerifyBad, VerifyFails
  <2> QED
    BY <2>1 DEF Accord
<1>1. CASE VerifyGood
  <2>1. MetadataSent /\ MetadataSent' /\ UNCHANGED <<toR, wrPc, disk>>
    BY <1>1, <1>v DEF VerifyGood, Accord, Asked, MetadataSent, writerVars
  <2>2. wrPc = "ok" /\ disk = announced /\ rPc' = "done" /\ rResult' \in {"complete", "unacked"}
    BY <1>1 DEF VerifyGood, ReceiverReturns
  <2>3. Carries(toS', "complete") => rResult' = "complete"
    BY <1>1, <1>p DEF VerifyGood, ReceiverReturns
  <2> QED
    BY <1>v, <1>p, <2>1, <2>2, <2>3 DEF Accord, Completed, Asked, MetadataSent
<1>2. CASE ~VerifyGood
  <2>1. ~Completed'
    BY <1>2, <1>p DEF Completed, ReceiverStep, AnswerHello, ReceiveMetadata, IncomingFails, Reject,
       Approve, Accept, PassReceiverGate, ReadChunk, Forward, CancelReceive, ReadLast, ReadFails,
       ForwardFails, AfterLoop, Discard, VerifyBad, VerifyFails, ReceiverReturns
  <2>2. ~Carries(toS', "complete")
    BY <1>2, <1>p, <1>a DEF ReceiverStep, AnswerHello, ReceiveMetadata, IncomingFails, Reject,
       Approve, Accept, PassReceiverGate, ReadChunk, Forward, CancelReceive, ReadLast, ReadFails,
       ForwardFails, SayCancelled, Discard, VerifyBad, VerifyFails, netVars
  <2>3. Carries(toR', "meta") => Carries(toR, "meta")
    BY <1>2, <1>s DEF ReceiverStep, AnswerHello, ReceiveMetadata, IncomingFails, Reject,
       Approve, Accept, PassReceiverGate, ReadChunk, Forward, CancelReceive, ReadLast, ReadFails,
       ForwardFails, Discard, VerifyBad, VerifyFails, netVars
  <2>4. Asked' => Asked \/ Carries(toR, "meta")
    <3>1. CASE ReceiveMetadata
      BY <3>1, <1>s DEF ReceiveMetadata
    <3>2. CASE AnswerHello \/ IncomingFails \/ Reject \/ Discard \/ VerifyBad \/ VerifyFails
      BY <2>1, <3>2 DEF AnswerHello, IncomingFails, Reject, Discard, VerifyBad, VerifyFails,
         ReceiverReturns, Asked, ReceiverLoop
    <3>3. CASE \/ Approve \/ Accept \/ PassReceiverGate \/ ReadChunk \/ Forward \/ CancelReceive
               \/ ReadLast \/ ReadFails \/ ForwardFails
      BY <3>3 DEF Approve, Accept, PassReceiverGate, ReadChunk, Forward, CancelReceive, ReadLast,
         ReadFails, ForwardFails, Asked, ReceiverLoop
    <3> QED
      BY <1>2, <3>1, <3>2, <3>3 DEF ReceiverStep
  <2> QED
    BY <1>v, <1>p, <2>1, <2>2, <2>3, <2>4 DEF Accord, MetadataSent
<1> QED
  BY <1>1, <1>2

LEMMA ReaderAccord == Accord /\ ReaderTask => Accord'
<1> SUFFICES ASSUME Accord, ReaderTask PROVE Accord'
  OBVIOUS
<1>1. UNCHANGED <<senderVars, netVars, receiverVars, writerVars, worldVars>>
  BY DEF ReaderTask, ReaderOpen, ReaderBlock, ReaderEnd, ReaderFails
<1>2. UNCHANGED <<sPc, sResult, toR, toS, rPc, rResult, wrPc, disk, announced>>
  BY <1>1, Zenon DEF senderVars, netVars, receiverVars, writerVars, worldVars
<1> QED
  BY <1>2 DEF Accord, Completed, Asked, MetadataSent

\* The writer of a kept file has ended.
LEMMA WriterAccord == Accord /\ WriterTask => Accord'
<1> SUFFICES ASSUME Accord, WriterTask PROVE Accord'
  OBVIOUS
<1>1. UNCHANGED <<senderVars, netVars, receiverVars, worldVars>> /\ wrPc # "ok"
  BY DEF WriterTask, WriterOpen, WriterBlock, WriterEnd, WriterFails
<1>2. UNCHANGED <<sPc, sResult, toR, toS, rPc, rResult, announced>>
  BY <1>1, Zenon DEF senderVars, netVars, receiverVars, worldVars
<1> QED
  BY <1>1, <1>2 DEF Accord, Completed, Asked, MetadataSent

LEMMA UserAccord == Accord /\ UserStep => Accord'
<1> SUFFICES ASSUME Accord, UserStep PROVE Accord'
  OBVIOUS
<1>1. UNCHANGED <<sPc, sResult, netVars, rPc, rResult, writerVars, announced>>
  BY DEF UserStep, PauseSender, ResumeSender, CancelSender, PauseReceiver, ResumeReceiver,
     CancelReceiver, EditSource, senderVars, receiverVars, worldVars
<1>2. UNCHANGED <<sPc, sResult, toR, toS, rPc, rResult, wrPc, disk, announced>>
  BY <1>1, Zenon DEF netVars, writerVars
<1> QED
  BY <1>2 DEF Accord, Completed, Asked, MetadataSent

LEMMA CrashAccord == Accord /\ ReceiverCrash => Accord'
<1> SUFFICES ASSUME Accord, ReceiverCrash PROVE Accord'
  OBVIOUS
<1>1. rPc # "done" /\ rPc' = "done" /\ rResult' = "crashed" /\ UNCHANGED <<senderVars, netVars, worldVars>>
  BY DEF ReceiverCrash, ReceiverReturns
<1>2. UNCHANGED <<sPc, sResult, toR, toS, announced>>
  BY <1>1, Zenon DEF senderVars, netVars, worldVars
<1> QED
  BY <1>1, <1>2 DEF Accord, Completed, Asked, MetadataSent, ReceiverLoop

LEMMA StepAccord == TypeOK /\ Accord /\ [Next]_vars => Accord'
<1>1. Accord /\ UNCHANGED vars => Accord'
  <2> SUFFICES ASSUME Accord, UNCHANGED vars PROVE Accord'
    OBVIOUS
  <2>1. UNCHANGED <<sPc, sResult, toR, toS, rPc, rResult, wrPc, disk, announced>>
    BY Zenon DEF vars, senderVars, netVars, receiverVars, writerVars, worldVars
  <2> QED
    BY <2>1 DEF Accord, Completed, Asked, MetadataSent
<1> QED
  BY <1>1, ConnectAccord, NetworkAccord, SenderAccord, ReaderAccord, ReceiverAccord, WriterAccord,
     UserAccord, CrashAccord DEF Next, UserStep, PeerReset, Break

Inv == TypeOK /\ FileOpen /\ Accord

LEMMA Invariant == SafeSpec => []Inv
<1>1. Init => Inv
  <2>1. Init => FileOpen
    BY DEF Init, FileOpen
  <2> QED
    BY <2>1, InitTypes, InitAccord DEF Inv
<1>2. Inv /\ [Next]_vars => Inv'
  BY StepTypes, FileOpenStep, StepAccord DEF Inv
<1> QED
  BY <1>1, <1>2, PTL DEF SafeSpec

\* A file that handle_incoming kept is the announced file, whatever the faults
\* and however many attempts came before.
THEOREM KeptIsExact == SafeSpec => []CompleteIsExact
<1>1. Inv => CompleteIsExact
  BY DEF Inv, Accord, Completed, CompleteIsExact
<1> QED
  BY <1>1, Invariant, PTL

\* send_file_direct_tcp returns Ok only for a file the receiver keeps.
THEOREM OkIsStored == SafeSpec => []OkMeansStored
<1>1. Inv => OkMeansStored
  BY DEF Inv, Accord, Completed, OkMeansStored
<1> QED
  BY <1>1, Invariant, PTL

-----------------------------------------------------------------------------
(* Safety: what a handler leaves behind *)

\* The handler has not accepted yet.
Early == rPc \in {"idle", "hello", "meta", "prompt", "accept"}

\* What makes NothingLeftBehind inductive: until it accepts, the handler has
\* registered nothing and touched no file; it leaves its loop unregistered; and
\* it is not done while its writer may still change the file.
Tidy ==
  /\ Early => ~rReg /\ ~rActive /\ reason = "none" /\ wrPc = "off" /\ disk = prior
  /\ rPc = "drain" => ~rReg
  /\ rPc = "done" => wrPc \notin {"append", "create", "run"}
  /\ NothingLeftBehind


LEMMA TidyUnchanged ==
  Tidy /\ UNCHANGED <<rPc, rReg, rActive, reason, rResult, wrPc, disk, prior>> => Tidy'
  BY DEF Tidy, Early, NothingLeftBehind

\* Each step of the handler keeps its registrations and its file tidy.
LEMMA ReceiverTidy == Tidy /\ (ReceiverStep \/ Reject \/ Approve) => Tidy'
<1> SUFFICES ASSUME Tidy, ReceiverStep \/ Reject \/ Approve PROVE Tidy'
  OBVIOUS
<1>0. prior' = prior
  BY Zenon DEF ReceiverStep, AnswerHello, ReceiveMetadata, IncomingFails, Reject, Approve, Accept,
     PassReceiverGate, ReadChunk, Forward, CancelReceive, ReadLast, ReadFails, ForwardFails,
     AfterLoop, Discard, VerifyGood, VerifyBad, VerifyFails, worldVars
<1>1. CASE AnswerHello \/ ReceiveMetadata \/ Approve
  BY <1>0, <1>1 DEF AnswerHello, ReceiveMetadata, Approve, writerVars, Tidy, Early, NothingLeftBehind
<1>2. CASE IncomingFails \/ Reject
  BY <1>0, <1>2 DEF IncomingFails, Reject, ReceiverReturns, writerVars, Tidy, Early, NothingLeftBehind
<1>3. CASE Accept \/ PassReceiverGate \/ ReadChunk \/ Forward
  BY <1>3 DEF Accept, PassReceiverGate, ReadChunk, Forward, Tidy, Early, NothingLeftBehind
<1>4. CASE CancelReceive \/ ReadLast \/ ReadFails \/ ForwardFails
  BY <1>4 DEF CancelReceive, ReadLast, ReadFails, ForwardFails, AfterLoop, Tidy, Early,
     NothingLeftBehind
<1>5. CASE Discard
  BY <1>5 DEF Discard, WriterDone, ReceiverReturns, Tidy, Early, NothingLeftBehind
<1>6. CASE VerifyGood
  BY <1>6 DEF VerifyGood, ReceiverReturns, writerVars, Tidy, Early, NothingLeftBehind
<1>7. CASE VerifyBad \/ VerifyFails
  BY <1>7 DEF VerifyBad, VerifyFails, ReceiverReturns, Tidy, Early, NothingLeftBehind
<1> QED
  BY <1>1, <1>2, <1>3, <1>4, <1>5, <1>6, <1>7 DEF ReceiverStep

\* Whatever else happens leaves the handler alone, begins a new one or ends it.
LEMMA StepTidy == Tidy /\ [Next]_vars => Tidy'
<1> SUFFICES ASSUME Tidy, [Next]_vars PROVE Tidy'
  OBVIOUS
<1>1. CASE LoseFrames \/ SenderStep \/ ReaderTask \/ UNCHANGED vars
  <2>1. UNCHANGED <<receiverVars, writerVars>>
    BY <1>1 DEF LoseFrames, SenderStep, SendMetadata, ReceiveAccept, HandshakeFails, MetadataFails, PassGate,
       Dequeue, SendChunk, CancelSend, SendFailsInLoop, LeaveLoop, SendAbort, EndLoop, SendComplete,
       CompletionFails, ReceiveAck, ReaderTask, ReaderOpen, ReaderBlock, ReaderEnd, ReaderFails, vars
  <2>2. UNCHANGED prior
    BY <1>1, Zenon DEF LoseFrames, SenderStep, SendMetadata, ReceiveAccept, HandshakeFails, MetadataFails, PassGate,
       Dequeue, SendChunk, CancelSend, SendFailsInLoop, LeaveLoop, SendAbort, EndLoop, SendComplete,
       CompletionFails, ReceiveAck, ReaderTask, ReaderOpen, ReaderBlock, ReaderEnd, ReaderFails, vars,
       worldVars
  <2> QED
    BY <2>1, <2>2, TidyUnchanged DEF receiverVars, writerVars
<1>2. CASE UserStep
  BY <1>2, TidyUnchanged DEF UserStep, PauseSender, ResumeSender, CancelSender, PauseReceiver,
     ResumeReceiver, CancelReceiver, EditSource, receiverVars, writerVars, worldVars
<1>3. CASE Connect
  BY <1>3 DEF Connect, Tidy, Early, NothingLeftBehind
<1>4. CASE WriterTask
  <2>1. wrPc \in {"append", "create", "run"} /\ UNCHANGED <<rPc, rReg>>
    BY <1>4 DEF WriterTask, WriterOpen, WriterBlock, WriterEnd, WriterFails, receiverVars
  <2> QED
    BY <2>1 DEF Tidy, Early, NothingLeftBehind
<1>5. CASE ReceiverCrash
  BY <1>5 DEF ReceiverCrash, ReceiverReturns, Tidy, Early, NothingLeftBehind
<1> QED
  BY <1>1, <1>2, <1>3, <1>4, <1>5, ReceiverTidy DEF Next, UserStep, PeerReset, Break

\* A handler that failed or was cancelled leaves no file, a refused one the file
\* that was there, and none an entry in the registries, except the one whose
\* COMPLETE could not be sent.
THEOREM FailureIsTidy == SafeSpec => []NothingLeftBehind
<1>1. Init => Tidy
  BY DEF Init, Tidy, Early, NothingLeftBehind
<1>2. Tidy => NothingLeftBehind
  BY DEF Tidy
<1> QED
  BY <1>1, <1>2, StepTidy, PTL DEF SafeSpec

-----------------------------------------------------------------------------
(* Safety: the two ends number the blocks alike *)

\* The number of the next block the receiver reads from the connection, and of
\* the next one the sender dequeues when every block before it arrives.
Expected == blockIndex + (IF rPc = "forward" THEN 1 ELSE 0)
Following == Expected + Len(toR) + (IF sPc = "send" THEN 1 ELSE 0)

\* Before ACCEPT is on its way no block is, and hello, metadata and answer
\* alternate: nothing else is in flight when the offset is.
Handshake ==
  /\ Early => /\ ~Carries(toR, "chunk") /\ ~Carries(toS, "accept")
              /\ sPc \in {"idle", "hello", "await", "done"}
  /\ rPc = "hello" => sPc # "await" /\ toS = <<>>
  /\ sPc = "hello" /\ rPc = "hello" => Len(toR) <= 1
  /\ sPc = "hello" /\ rPc = "meta" => toR = <<>>
  /\ sPc = "await" /\ rPc = "meta" => Len(toR) <= 1
  /\ sPc = "await" /\ rPc \in {"prompt", "accept"} \cup ReceiverLoop
       => toR = <<>> /\ rPc # "forward"
  /\ sPc \in {"hello", "await"} => dataCh = <<>>

\* The accept carries the offset of the block the receiver expects.
OffsetAgrees ==
  sPc = "await" /\ rPc \in ReceiverLoop
    => \A i \in 1..Len(toS) : toS[i].tag = "accept" => toS[i].num = blockIndex * Block

\* The blocks the receiver is still to see, in its hands and on the wire.
ArrivesInOrder ==
  /\ rPc = "forward" => rHeld.num = blockIndex
  /\ rPc \in ReceiverLoop
       => \A i \in 1..Len(toR) : toR[i].tag = "chunk" => toR[i].num = Expected + (i - 1)

\* The blocks the sender is still to send.  Once the connection is down it sends
\* none, so what was lost on the way need not be counted.
LeavesInOrder ==
  rPc \in ReceiverLoop /\ link = "up" /\ sPc \in SenderLoop
    => /\ sPc = "send" => sHeld.num = Expected + Len(toR)
       /\ \A i \in 1..Len(dataCh) : dataCh[i].num = Following + (i - 1)
       /\ rdPc = "opening" => dataCh = <<>> /\ start = Following * Block
       /\ rdPc = "run" /\ rdNext < Size => rdNext = (Following + Len(dataCh)) * Block

Numbered == Handshake /\ OffsetAgrees /\ ArrivesInOrder /\ LeavesInOrder /\ CountersAgree

numberVars == <<rPc, blockIndex, rHeld, toR, toS, link, sPc, sHeld, dataCh, rdPc, rdNext, start,
                diskCh>>

LEMMA NumberedUnchanged == Numbered /\ UNCHANGED numberVars => Numbered'
<1> SUFFICES ASSUME Numbered, UNCHANGED numberVars PROVE Numbered'
  OBVIOUS
<1>1. UNCHANGED <<Early, Expected, Following>>
  BY DEF numberVars, Early, Expected, Following
<1>2. Handshake'
  BY <1>1 DEF numberVars, Numbered, Handshake, Carries
<1>3. OffsetAgrees' /\ ArrivesInOrder' /\ CountersAgree'
  BY <1>1 DEF numberVars, Numbered, OffsetAgrees, ArrivesInOrder, CountersAgree
<1>4. LeavesInOrder'
  BY <1>1 DEF numberVars, Numbered, LeavesInOrder
<1> QED
  BY <1>2, <1>3, <1>4 DEF Numbered

\* Outside the receiver's loop only the handshake and the writer's jobs count.
LEMMA NumberedOutside ==
  ASSUME Numbered, rPc' \notin ReceiverLoop, Handshake', UNCHANGED diskCh
  PROVE  Numbered'
  BY DEF Numbered, OffsetAgrees, ArrivesInOrder, LeavesInOrder, CountersAgree, ReceiverLoop

LEMMA InitNumbered == Init => Numbered
  BY DEF Init, Numbered, Handshake, Early, Carries, OffsetAgrees, ArrivesInOrder, LeavesInOrder,
     CountersAgree, ReceiverLoop, SenderLoop

LEMMA ConnectNumbered == Connect => Numbered'
<1> SUFFICES ASSUME Connect PROVE Numbered'
  OBVIOUS
<1>1. ~Carries(toR', "chunk") /\ ~Carries(toS', "accept") /\ Len(toR') = 1
  BY SignalTags DEF Connect, Carries
<1>2. Handshake'
  BY <1>1 DEF Connect, Handshake, Early
<1>3. rPc' \notin ReceiverLoop /\ diskCh' = <<>>
  BY DEF Connect, ReceiverLoop
<1> QED
  BY <1>2, <1>3 DEF Numbered, OffsetAgrees, ArrivesInOrder, LeavesInOrder, CountersAgree, ReceiverLoop

\* A break loses the last frames of each direction: what is left keeps its
\* place, and nothing can be sent any more.
LEMMA NetworkNumbered == TypeOK /\ Numbered /\ LoseFrames => Numbered'
<1> SUFFICES ASSUME TypeOK, Numbered, LoseFrames PROVE Numbered'
  OBVIOUS
<1>q. toR \in Seq(Frames) /\ toS \in Seq(Frames)
  BY DEF TypeOK, NetOK
<1>1. toR' \in Seq(Frames) /\ Len(toR') <= Len(toR) /\ \A i \in 1..Len(toR') : toR'[i] = toR[i]
  BY <1>q, PrefixesType DEF LoseFrames
<1>2. toS' \in Seq(Frames) /\ Len(toS') <= Len(toS) /\ \A i \in 1..Len(toS') : toS'[i] = toS[i]
  BY <1>q, PrefixesType DEF LoseFrames
<1>3. \A tag : /\ Carries(toR', tag) => Carries(toR, tag)
               /\ Carries(toS', tag) => Carries(toS, tag)
  BY <1>q, CarriesPrefix DEF LoseFrames
<1>4. (toR = <<>> => toR' = <<>>) /\ (toS = <<>> => toS' = <<>>)
  BY <1>q, <1>1, <1>2, EmptySeq
<1>5. UNCHANGED <<sPc, sHeld, dataCh, rdPc, rdNext, start, rPc, rHeld, blockIndex, diskCh>> /\ link' = "down"
  BY DEF LoseFrames, senderVars, readerVars, receiverVars, writerVars
<1>6. UNCHANGED <<Early, Expected>>
  BY <1>5 DEF Early, Expected
<1>7. Handshake'
  BY <1>q, <1>1, <1>3, <1>4, <1>5, <1>6 DEF Numbered, Handshake
<1>8. CountersAgree'
  BY <1>5 DEF Numbered, CountersAgree
<1>9. OffsetAgrees'
  <2>1. \A i \in 1..Len(toS') : i \in 1..Len(toS)
    BY <1>q, <1>2
  <2> QED
    BY <1>2, <1>5, <2>1 DEF Numbered, OffsetAgrees
<1>10. ArrivesInOrder'
  <2>1. \A i \in 1..Len(toR') : i \in 1..Len(toR)
    BY <1>q, <1>1
  <2> QED
    BY <1>1, <1>5, <1>6, <2>1 DEF Numbered, ArrivesInOrder
<1> QED
  BY <1>5, <1>7, <1>8, <1>9, <1>10 DEF Numbered, LeavesInOrder

\* The sender numbers on from the offset it is told, and takes the blocks off
\* its queue and puts them on the wire in turn.
LEMMA SenderNumbered == TypeOK /\ Accord /\ Numbered /\ SenderStep => Numbered'
<1> SUFFICES ASSUME TypeOK, Accord, Numbered, SenderStep PROVE Numbered'
  OBVIOUS
<1>q. toR \in Seq(Frames) /\ toS \in Seq(Frames) /\ dataCh \in Seq(Frames)
      /\ blockIndex \in Nat /\ sHeld \in Frames /\ rdNext \in 0..Size /\ start \in 0..Size
  BY DEF TypeOK, NetOK, ReaderOK, ReceiverOK, SenderOK
<1>u. UNCHANGED <<rPc, rHeld, blockIndex, diskCh>>
  BY DEF SenderStep, SendMetadata, ReceiveAccept, HandshakeFails, MetadataFails, PassGate, Dequeue, SendChunk,
     CancelSend, SendFailsInLoop, LeaveLoop, SendAbort, EndLoop, SendComplete, CompletionFails,
     ReceiveAck, receiverVars, writerVars
<1>e. UNCHANGED <<Early, Expected>>
  BY <1>u DEF Early, Expected
<1>n. Expected \in Nat /\ Len(toR) \in Nat /\ Len(dataCh) \in Nat
  BY <1>q DEF Expected
<1>1. CASE SendMetadata
  <2>1. sPc = "hello" /\ sPc' = "await" /\ toS # <<>> /\ toR' = Append(toR, Signal("meta"))
        /\ toS' = Tail(toS) /\ UNCHANGED dataCh
    BY <1>1 DEF SendMetadata, readerVars
  <2>2. rPc \notin {"hello", "prompt", "accept"} \cup ReceiverLoop
    BY <2>1 DEF Numbered, Handshake, Accord, Asked, MetadataSent
  <2>3. rPc = "meta" => Len(toR') <= 1
    BY <1>q, <2>1 DEF Numbered, Handshake
  <2>4. Early => ~Carries(toR', "chunk") /\ ~Carries(toS', "accept")
    <3>1. Signal("meta") \in Frames /\ Signal("meta").tag # "chunk"
      BY SignalsAreFrames, SignalTags DEF Tags
    <3> QED
      BY <1>q, <2>1, <3>1, CarriesAppend, CarriesTail DEF Numbered, Handshake
  <2>5. Handshake'
    BY <1>u, <1>e, <2>1, <2>2, <2>3, <2>4 DEF Numbered, Handshake
  <2> QED
    BY <1>u, <2>2, <2>5, NumberedOutside
<1>2. CASE ReceiveAccept
  <2>1. sPc = "await" /\ sPc' = "gate" /\ toS # <<>> /\ Head(toS).tag = "accept" /\ rdPc' = "opening"
        /\ start' = Head(toS).num /\ UNCHANGED <<toR, dataCh, sHeld>>
    BY <1>2 DEF ReceiveAccept
  <2>2. ~Early /\ dataCh = <<>>
    BY <1>q, <2>1, CarriesTail DEF Numbered, Handshake
  <2>3. Handshake'
    BY <1>u, <1>e, <2>1, <2>2 DEF Handshake, Early, ReceiverLoop
  <2>4. OffsetAgrees' /\ ArrivesInOrder' /\ CountersAgree'
    BY <1>u, <1>e, <2>1 DEF Numbered, OffsetAgrees, ArrivesInOrder, CountersAgree
  <2>5. ASSUME rPc \in ReceiverLoop PROVE start' = blockIndex * Block /\ Following' = blockIndex
    <3>1. toR = <<>> /\ rPc # "forward"
      BY <2>1, <2>5 DEF Numbered, Handshake
    <3>2. 1 \in 1..Len(toS) /\ toS[1] = Head(toS)
      BY <1>q, <2>1, EmptySeq, HeadTailProperties
    <3>3. start' = blockIndex * Block
      BY <2>1, <2>5, <3>2 DEF Numbered, OffsetAgrees
    <3> QED
      BY <1>q, <1>u, <2>1, <3>1, <3>3 DEF Following, Expected
  <2>6. LeavesInOrder'
    BY <1>q, <1>u, <2>1, <2>2, <2>5 DEF LeavesInOrder
  <2> QED
    BY <2>3, <2>4, <2>6 DEF Numbered
<1>3. CASE HandshakeFails \/ MetadataFails
  <2>1. sPc' = "done" /\ UNCHANGED <<toR, dataCh>> /\ (toS' = toS \/ (toS # <<>> /\ toS' = Tail(toS)))
    BY <1>3 DEF HandshakeFails, MetadataFails, SenderReturns, netVars, readerVars
  <2>2. Handshake'
    BY <1>q, <1>u, <1>e, <2>1, CarriesTail DEF Numbered, Handshake
  <2>3. OffsetAgrees' /\ ArrivesInOrder' /\ CountersAgree'
    BY <1>u, <1>e, <2>1 DEF Numbered, OffsetAgrees, ArrivesInOrder, CountersAgree
  <2> QED
    BY <2>1, <2>2, <2>3 DEF Numbered, LeavesInOrder, SenderLoop
<1>4. CASE PassGate
  <2>1. sPc = "gate" /\ sPc' = "dequeue"
        /\ UNCHANGED <<toR, toS, link, sHeld, dataCh, rdPc, rdNext, start>>
    BY <1>4 DEF PassGate, netVars, readerVars
  <2>2. Following' = Following /\ ~Early
    BY <1>e, <2>1 DEF Following, Numbered, Handshake
  <2>3. Handshake'
    BY <1>u, <1>e, <2>1, <2>2 DEF Handshake, Early, ReceiverLoop
  <2>4. OffsetAgrees' /\ ArrivesInOrder' /\ CountersAgree'
    BY <1>u, <1>e, <2>1 DEF Numbered, OffsetAgrees, ArrivesInOrder, CountersAgree
  <2>5. LeavesInOrder'
    BY <1>u, <1>e, <2>1, <2>2 DEF Numbered, LeavesInOrder, SenderLoop
  <2> QED
    BY <2>3, <2>4, <2>5 DEF Numbered
<1>5. CASE Dequeue
  <2>1. sPc = "dequeue" /\ sPc' = "send" /\ dataCh # <<>> /\ sHeld' = Head(dataCh)
        /\ dataCh' = Tail(dataCh) /\ UNCHANGED <<toR, toS, link, rdPc, rdNext, start>>
    BY <1>5 DEF Dequeue, netVars
  <2>2. Following = Expected + Len(toR) /\ Following' = Following + 1 /\ ~Early
    BY <1>e, <1>n, <2>1 DEF Following, Numbered, Handshake
  <2>3. Handshake'
    BY <1>u, <1>e, <2>1, <2>2 DEF Handshake, Early, ReceiverLoop
  <2>4. OffsetAgrees' /\ ArrivesInOrder' /\ CountersAgree'
    BY <1>u, <1>e, <2>1 DEF Numbered, OffsetAgrees, ArrivesInOrder, CountersAgree
  <2>5. ASSUME rPc \in ReceiverLoop, link = "up" PROVE
          /\ sHeld'.num = Expected + Len(toR)
          /\ \A i \in 1..Len(dataCh') : dataCh'[i].num = Following' + (i - 1)
          /\ rdPc # "opening"
          /\ rdPc = "run" /\ rdNext < Size => rdNext = (Following' + Len(dataCh')) * Block
    <3>1. /\ \A i \in 1..Len(dataCh) : dataCh[i].num = Following + (i - 1)
          /\ rdPc = "opening" => dataCh = <<>>
          /\ rdPc = "run" /\ rdNext < Size => rdNext = (Following + Len(dataCh)) * Block
      BY <2>1, <2>5 DEF Numbered, LeavesInOrder, SenderLoop
    <3>2. Len(dataCh) \in Nat \ {0} /\ Head(dataCh) = dataCh[1] /\ Len(dataCh') = Len(dataCh) - 1
          /\ \A i \in 1..Len(dataCh') : dataCh'[i] = dataCh[i + 1]
      BY <1>q, <2>1, EmptySeq, HeadTailProperties
    <3>3. dataCh[1].num = Following
      BY <1>n, <2>2, <3>1, <3>2
    <3>4. ASSUME NEW i \in 1..Len(dataCh') PROVE dataCh'[i].num = Following' + (i - 1)
      <4>1. i + 1 \in 1..Len(dataCh) /\ dataCh'[i] = dataCh[i + 1]
        BY <3>2
      <4>2. dataCh[i + 1].num = Following + ((i + 1) - 1)
        BY <3>1, <4>1
      <4> QED
        BY <1>n, <2>2, <3>2, <4>1, <4>2
    <3>5. Following' + Len(dataCh') = Following + Len(dataCh)
      BY <1>n, <2>2, <3>2
    <3> QED
      BY <2>1, <2>2, <3>1, <3>2, <3>3, <3>4, <3>5
  <2>6. LeavesInOrder'
    BY <1>u, <1>e, <2>1, <2>5 DEF LeavesInOrder
  <2> QED
    BY <2>3, <2>4, <2>6 DEF Numbered
<1>6. CASE SendChunk
  <2>1. sPc = "send" /\ sPc' = "gate" /\ link = "up" /\ toR' = Append(toR, sHeld)
        /\ UNCHANGED <<toS, link, dataCh, rdPc, rdNext, start>>
    BY <1>6 DEF SendChunk, CanSend, readerVars
  <2>2. ~Early
    BY <2>1 DEF Numbered, Handshake
  <2>3. toR' \in Seq(Frames) /\ Len(toR') = Len(toR) + 1 /\ toR'[Len(toR) + 1] = sHeld
        /\ \A i \in 1..Len(toR) : toR'[i] = toR[i]
    BY <1>q, <2>1, AppendProperties
  <2>4. Following' = Following
    BY <1>e, <1>n, <2>1, <2>3 DEF Following
  <2>5. Handshake'
    BY <1>u, <1>e, <2>1, <2>2 DEF Handshake, Early, ReceiverLoop
  <2>6. OffsetAgrees' /\ CountersAgree'
    BY <1>u, <2>1 DEF Numbered, OffsetAgrees, CountersAgree
  <2>7. ArrivesInOrder'
    <3>1. SUFFICES ASSUME rPc \in ReceiverLoop
                   PROVE  \A i \in 1..Len(toR') : toR'[i].tag = "chunk" => toR'[i].num = Expected + (i - 1)
      BY <1>u, <1>e DEF Numbered, ArrivesInOrder
    <3>2. sHeld.num = Expected + Len(toR)
      BY <2>1, <3>1 DEF Numbered, LeavesInOrder, SenderLoop
    <3>3. \A i \in 1..Len(toR) : toR[i].tag = "chunk" => toR[i].num = Expected + (i - 1)
      BY <3>1 DEF Numbered, ArrivesInOrder
    <3> QED
      BY <1>n, <2>3, <3>2, <3>3
  <2>8. LeavesInOrder'
    BY <1>u, <2>1, <2>4 DEF Numbered, LeavesInOrder, SenderLoop
  <2> QED
    BY <2>5, <2>6, <2>7, <2>8 DEF Numbered
<1>7. CASE \/ CancelSend \/ SendFailsInLoop \/ SendAbort \/ EndLoop \/ SendComplete \/ CompletionFails
           \/ ReceiveAck
  <2>1. sPc \notin {"idle", "hello", "await", "done"} /\ sPc' \in {"abort", "join", "ack", "done"}
    BY <1>7 DEF CancelSend, SendFailsInLoop, LeaveLoop, SendAbort, EndLoop, SendComplete,
       CompletionFails, ReceiveAck, SenderReturns
  <2>2. ~Early
    BY <2>1 DEF Numbered, Handshake
  <2>3. Handshake'
    BY <1>u, <1>e, <2>1, <2>2 DEF Handshake, Early, ReceiverLoop
  <2>4. toR' = toR \/ \E tag \in Tags \ {"chunk"} : toR' = Append(toR, Signal(tag))
    BY <1>7 DEF CancelSend, SendFailsInLoop, LeaveLoop, SendAbort, EndLoop, SendComplete,
       CompletionFails, ReceiveAck, netVars, Tags
  <2>5. ArrivesInOrder'
    <3>1. CASE toR' = toR
      BY <1>u, <1>e, <3>1 DEF Numbered, ArrivesInOrder
    <3>2. ASSUME NEW tag \in Tags \ {"chunk"}, toR' = Append(toR, Signal(tag)) PROVE ArrivesInOrder'
      <4>1. Len(toR') = Len(toR) + 1 /\ toR'[Len(toR) + 1].tag # "chunk"
            /\ \A i \in 1..Len(toR) : toR'[i] = toR[i]
        BY <1>q, <3>2, AppendProperties, SignalsAreFrames, SignalTags
      <4> QED
        BY <1>n, <1>u, <1>e, <4>1 DEF Numbered, ArrivesInOrder
    <3> QED
      BY <2>4, <3>1, <3>2
  <2>6. OffsetAgrees' /\ CountersAgree' /\ LeavesInOrder'
    BY <1>u, <2>1 DEF Numbered, OffsetAgrees, CountersAgree, LeavesInOrder, SenderLoop
  <2> QED
    BY <2>3, <2>5, <2>6 DEF Numbered
<1> QED
  BY <1>1, <1>2, <1>3, <1>4, <1>5, <1>6, <1>7 DEF SenderStep

\* Adding a block to the position adds one to the number.
LEMMA NextBlock ==
  ASSUME NEW n \in Nat, n * Block < Size
  PROVE  /\ (n * Block) \div Block = n
         /\ Smaller(n * Block + Block, Size) < Size => Smaller(n * Block + Block, Size) = (n + 1) * Block
<1>1. (n * Block) \div Block = n
  BY SizeAssumption, Z3
<1>2. n * Block + Block = (n + 1) * Block
  BY SizeAssumption, Z3
<1> QED
  BY <1>1, <1>2, SizeAssumption DEF Smaller

\* The reader task numbers the blocks from the offset on.
LEMMA ReaderNumbered == TypeOK /\ Numbered /\ ReaderTask => Numbered'
<1> SUFFICES ASSUME TypeOK, Numbered, ReaderTask PROVE Numbered'
  OBVIOUS
<1>q. dataCh \in Seq(Frames) /\ blockIndex \in Nat /\ rdNext \in 0..Size /\ start \in 0..Size
      /\ toR \in Seq(Frames) /\ source \in [1..Size -> Unit]
  BY DEF TypeOK, NetOK, ReaderOK, ReceiverOK, WorldOK
<1>u. UNCHANGED <<sPc, sHeld, toR, toS, link, rPc, rHeld, blockIndex, diskCh>>
  BY DEF ReaderTask, ReaderOpen, ReaderBlock, ReaderEnd, ReaderFails, senderVars, netVars,
     receiverVars, writerVars
<1>e. UNCHANGED <<Early, Expected, Following>>
  BY <1>u DEF Early, Expected, Following
<1>n. Following \in Nat /\ Len(dataCh) \in Nat
  <2>1. Len(toR) \in Nat /\ Len(dataCh) \in Nat
    BY <1>q
  <2>2. Expected \in Nat
    BY <1>q DEF Expected
  <2> QED
    BY <2>1, <2>2 DEF Following
<1>1. Handshake'
  <2>1. sPc \in {"hello", "await"} => UNCHANGED dataCh
    BY DEF ReaderTask, ReaderOpen, ReaderBlock, ReaderEnd, ReaderFails, SenderLoop
  <2> QED
    BY <1>u, <1>e, <2>1 DEF Numbered, Handshake, Carries
<1>2. OffsetAgrees' /\ ArrivesInOrder' /\ CountersAgree'
  BY <1>u, <1>e DEF Numbered, OffsetAgrees, ArrivesInOrder, CountersAgree
<1>3. LeavesInOrder'
  <2> SUFFICES ASSUME rPc \in ReceiverLoop, link = "up", sPc \in SenderLoop
               PROVE  /\ \A i \in 1..Len(dataCh') : dataCh'[i].num = Following + (i - 1)
                      /\ rdPc' = "opening" => dataCh' = <<>> /\ start' = Following * Block
                      /\ rdPc' = "run" /\ rdNext' < Size
                           => rdNext' = (Following + Len(dataCh')) * Block
    BY <1>u, <1>e DEF Numbered, LeavesInOrder
  <2>1. /\ \A i \in 1..Len(dataCh) : dataCh[i].num = Following + (i - 1)
        /\ rdPc = "opening" => dataCh = <<>> /\ start = Following * Block
        /\ rdPc = "run" /\ rdNext < Size => rdNext = (Following + Len(dataCh)) * Block
    BY DEF Numbered, LeavesInOrder
  <2>2. CASE ReaderOpen
    <3>1. rdPc' = "run" /\ rdNext' = start /\ start = Following * Block /\ dataCh' = <<>> /\ dataCh = <<>>
      BY <2>1, <2>2 DEF ReaderOpen
    <3>2. Following + Len(dataCh') = Following /\ Len(dataCh') = 0
      BY <1>n, <3>1
    <3> QED
      BY <2>1, <3>1, <3>2
  <2>3. CASE ReaderBlock
    <3> DEFINE n == Following + Len(dataCh)
               f == Frame("chunk", rdNext \div Block, BlockAt(rdNext))
    <3>1. rdPc = "run" /\ rdPc' = "run" /\ rdNext < Size /\ dataCh' = Append(dataCh, f)
          /\ rdNext' = Smaller(rdNext + Block, Size)
      BY <2>3 DEF ReaderBlock
    <3>2. n \in Nat /\ rdNext = n * Block
      BY <1>n, <2>1, <3>1
    <3>3. rdNext \div Block = n /\ (rdNext' < Size => rdNext' = (n + 1) * Block)
      BY <3>1, <3>2, NextBlock
    <3>4. f \in Frames /\ f.num = n
      <4>1. n \in 0..Size
        BY <1>q, <3>3, RoundedDown
      <4>2. BlockAt(rdNext) \in Seq(Unit)
        BY <1>q, <3>1, BlockType
      <4> QED
        BY <3>3, <4>1, <4>2, FramesAreFrames DEF Tags, Frame
    <3>5. Len(dataCh') = Len(dataCh) + 1 /\ dataCh'[Len(dataCh) + 1] = f
          /\ \A i \in 1..Len(dataCh) : dataCh'[i] = dataCh[i]
      BY <1>q, <3>1, <3>4, AppendProperties
    <3>6. ASSUME NEW i \in 1..Len(dataCh') PROVE dataCh'[i].num = Following + (i - 1)
      <4>1. CASE i = Len(dataCh) + 1
        BY <1>n, <3>4, <3>5, <4>1
      <4>2. CASE i # Len(dataCh) + 1
        <5>1. i \in 1..Len(dataCh)
          BY <1>n, <3>5, <4>2
        <5> QED
          BY <2>1, <3>5, <5>1
      <4> QED
        BY <4>1, <4>2
    <3>7. Following + Len(dataCh') = n + 1
      BY <1>n, <3>5
    <3> QED
      BY <3>1, <3>3, <3>6, <3>7
  <2>4. CASE ReaderEnd \/ ReaderFails
    BY <2>1, <2>4 DEF ReaderEnd, ReaderFails
  <2> QED
    BY <2>2, <2>3, <2>4 DEF ReaderTask
<1> QED
  BY <1>1, <1>2, <1>3 DEF Numbered

\* The only frame on its way leaves nothing behind.
LEMMA TailOfOne ==
  ASSUME NEW q \in Seq(Frames), q # <<>>, Len(q) <= 1
  PROVE  Tail(q) = <<>>
<1>1. Len(q) \in Nat /\ Len(q) # 0
  BY EmptySeq
<1>2. Tail(q) \in Seq(Frames) /\ Len(Tail(q)) = Len(q) - 1
  BY HeadTailProperties
<1> QED
  BY <1>1, <1>2, EmptySeq

\* The handler starts its counter at the offset it announces, and counts each
\* block as it takes it.
LEMMA ReceiverNumbered ==
  TypeOK /\ Accord /\ Numbered /\ (ReceiverStep \/ Reject \/ Approve) => Numbered'
<1> SUFFICES ASSUME TypeOK, Accord, Numbered, ReceiverStep \/ Reject \/ Approve PROVE Numbered'
  OBVIOUS
<1>q. toR \in Seq(Frames) /\ toS \in Seq(Frames) /\ dataCh \in Seq(Frames) /\ blockIndex \in Nat
      /\ rHeld \in Frames /\ diskCh \in Seq([blk : Nat, frame : Frames])
  BY DEF TypeOK, NetOK, ReaderOK, ReceiverOK, WriterOK
<1>u. UNCHANGED <<sPc, sHeld, dataCh, rdPc, rdNext, start, link>>
  <2>1. UNCHANGED <<senderVars, readerVars>>
    BY DEF ReceiverStep, AnswerHello, ReceiveMetadata, IncomingFails, Reject, Approve, Accept,
       PassReceiverGate, ReadChunk, Forward, CancelReceive, ReadLast, ReadFails, ForwardFails,
       AfterLoop, Discard, VerifyGood, VerifyBad, VerifyFails
  <2>2. UNCHANGED link
    BY Zenon DEF ReceiverStep, AnswerHello, ReceiveMetadata, IncomingFails, Reject, Approve, Accept,
       PassReceiverGate, ReadChunk, Forward, CancelReceive, ReadLast, ReadFails, ForwardFails,
       AfterLoop, Discard, VerifyGood, VerifyBad, VerifyFails, netVars
  <2> QED
    BY <2>1, <2>2 DEF senderVars, readerVars
<1>n. Len(toR) \in Nat /\ Len(toS) \in Nat
  BY <1>q
<1>t. toR # <<>> => \A tag : Carries(Tail(toR), tag) => Carries(toR, tag)
  BY <1>q, CarriesTail
<1>1. CASE AnswerHello
  <2>1. rPc = "hello" /\ rPc' = "meta" /\ toR # <<>> /\ toR' = Tail(toR)
        /\ toS' = Append(toS, Signal("hello")) /\ UNCHANGED diskCh
    BY <1>1 DEF AnswerHello, writerVars
  <2>2. ~Carries(toR', "chunk") /\ ~Carries(toS', "accept")
    <3>1. Signal("hello") \in Frames /\ Signal("hello").tag # "accept"
      BY SignalsAreFrames, SignalTags DEF Tags
    <3> QED
      BY <1>q, <1>t, <2>1, <3>1, CarriesAppend DEF Numbered, Handshake, Early
  <2>3. sPc = "hello" => toR' = <<>>
    BY <1>q, <2>1, TailOfOne DEF Numbered, Handshake
  <2>4. Handshake'
    BY <1>u, <2>1, <2>2, <2>3 DEF Numbered, Handshake, Early, ReceiverLoop
  <2> QED
    BY <2>1, <2>4, NumberedOutside DEF ReceiverLoop
<1>2. CASE ReceiveMetadata
  <2>1. rPc = "meta" /\ rPc' = "prompt" /\ toR # <<>> /\ toR' = Tail(toR) /\ UNCHANGED <<toS, diskCh>>
    BY <1>2 DEF ReceiveMetadata, writerVars
  <2>2. sPc = "await" => toR' = <<>>
    BY <1>q, <2>1, TailOfOne DEF Numbered, Handshake
  <2>3. Handshake'
    BY <1>u, <1>t, <2>1, <2>2 DEF Numbered, Handshake, Early, ReceiverLoop
  <2> QED
    BY <2>1, <2>3, NumberedOutside DEF ReceiverLoop
<1>3. CASE Approve
  <2>1. rPc = "prompt" /\ rPc' = "accept" /\ UNCHANGED <<toR, toS, diskCh>>
    BY <1>3 DEF Approve, writerVars, netVars
  <2>2. Handshake'
    BY <1>u, <2>1 DEF Numbered, Handshake, Early, ReceiverLoop
  <2> QED
    BY <2>1, <2>2, NumberedOutside DEF ReceiverLoop
<1>4. CASE \/ IncomingFails \/ Reject \/ CancelReceive \/ ReadLast \/ ReadFails \/ ForwardFails
           \/ Discard \/ VerifyGood \/ VerifyBad \/ VerifyFails
  <2>1. rPc' \in {"drain", "done"} /\ UNCHANGED diskCh
    BY <1>4 DEF IncomingFails, Reject, CancelReceive, ReadLast, ReadFails, ForwardFails, AfterLoop,
       Discard, VerifyGood, VerifyBad, VerifyFails, ReceiverReturns, writerVars
  <2>2. Handshake'
    BY <1>u, <2>1 DEF Numbered, Handshake, Early, ReceiverLoop
  <2> QED
    BY <2>1, <2>2, NumberedOutside DEF ReceiverLoop
<1>5. CASE Accept
  <2> DEFINE f == Frame("accept", ResumeOffset, <<>>)
  <2>1. rPc = "accept" /\ rPc' = "gate" /\ toS' = Append(toS, f)
        /\ blockIndex' = ResumeOffset \div Block /\ UNCHANGED <<toR, diskCh>>
    BY <1>5 DEF Accept
  <2>2. sPc \in {"await", "done"} /\ ~Carries(toR, "chunk") /\ ~Carries(toS, "accept")
        /\ (sPc = "await" => toR = <<>>)
    BY <2>1 DEF Numbered, Handshake, Early, Accord, Asked, MetadataSent
  <2>3. f \in Frames /\ f.num = blockIndex' * Block
    <3>1. \E n \in Nat : ResumeOffset = n * Block
      <4>1. CASE IsResume
        <5>1. FileLen \in 0..Size
          BY <4>1, SizeAssumption DEF IsResume, FileLen, TypeOK, WriterOK
        <5>2. FileLen \div Block \in Nat
          BY <5>1, RoundedDown, SizeAssumption
        <5> QED
          BY <4>1, <5>2 DEF ResumeOffset
      <4>2. CASE ~IsResume
        BY <4>2, SizeAssumption DEF ResumeOffset
      <4> QED
        BY <4>1, <4>2
    <3>2. \A n \in Nat : (n * Block) \div Block = n
      BY SizeAssumption, Z3
    <3>3. blockIndex' * Block = ResumeOffset
      BY <2>1, <3>1, <3>2
    <3>4. ResumeOffset \in 0..Size /\ <<>> \in Seq(Unit)
      BY OffsetType DEF TypeOK
    <3> QED
      BY <3>3, <3>4, FramesAreFrames DEF Frame, Tags
  <2>4. Len(toS') = Len(toS) + 1 /\ toS'[Len(toS) + 1] = f /\ \A i \in 1..Len(toS) : toS'[i] = toS[i]
    BY <1>q, <2>1, <2>3, AppendProperties
  <2>5. ASSUME NEW i \in 1..Len(toS'), toS'[i].tag = "accept" PROVE toS'[i].num = blockIndex' * Block
    <3>1. CASE i = Len(toS) + 1
      BY <2>3, <2>4, <3>1
    <3>2. CASE i # Len(toS) + 1
      BY <1>n, <2>2, <2>4, <2>5, <3>2 DEF Carries
    <3> QED
      BY <3>1, <3>2
  <2>6. Handshake'
    BY <1>u, <2>1, <2>2 DEF Numbered, Handshake, Early, ReceiverLoop
  <2>7. OffsetAgrees'
    BY <2>5 DEF OffsetAgrees
  <2>8. ArrivesInOrder' /\ LeavesInOrder' /\ CountersAgree'
    BY <1>u, <2>1, <2>2 DEF Numbered, ArrivesInOrder, LeavesInOrder, CountersAgree, SenderLoop, Carries
  <2> QED
    BY <2>6, <2>7, <2>8 DEF Numbered
<1>6. CASE PassReceiverGate
  <2>1. rPc = "gate" /\ rPc' = "read" /\ UNCHANGED <<toR, toS, rHeld, blockIndex, diskCh>>
    BY <1>6 DEF PassReceiverGate, netVars, writerVars
  <2>2. Expected' = Expected /\ Following' = Following
    BY <1>u, <2>1 DEF Expected, Following
  <2>3. Handshake'
    BY <1>u, <2>1 DEF Numbered, Handshake, Early, ReceiverLoop
  <2>4. OffsetAgrees' /\ ArrivesInOrder' /\ CountersAgree'
    BY <1>u, <2>1, <2>2 DEF Numbered, OffsetAgrees, ArrivesInOrder, CountersAgree, ReceiverLoop
  <2>5. LeavesInOrder'
    BY <1>u, <2>1, <2>2 DEF Numbered, LeavesInOrder, ReceiverLoop
  <2> QED
    BY <2>3, <2>4, <2>5 DEF Numbered
<1>7. CASE ReadChunk
  <2>1. rPc = "read" /\ rPc' = "forward" /\ toR # <<>> /\ Head(toR).tag = "chunk"
        /\ rHeld' = Head(toR) /\ toR' = Tail(toR) /\ UNCHANGED <<toS, blockIndex, diskCh>>
    BY <1>7 DEF ReadChunk, writerVars
  <2>2. Len(toR) \in Nat \ {0} /\ Head(toR) = toR[1] /\ Len(toR') = Len(toR) - 1
        /\ \A i \in 1..Len(toR') : toR'[i] = toR[i + 1]
    BY <1>q, <2>1, EmptySeq, HeadTailProperties
  <2>3. Expected = blockIndex /\ Expected' = blockIndex + 1 /\ Following' = Following
    BY <1>q, <1>u, <2>1, <2>2 DEF Expected, Following
  <2>4. \A i \in 1..Len(toR) : toR[i].tag = "chunk" => toR[i].num = blockIndex + (i - 1)
    BY <2>1, <2>3 DEF Numbered, ArrivesInOrder, ReceiverLoop
  <2>5. rHeld'.num = blockIndex
    BY <1>q, <2>1, <2>2, <2>4
  <2>6. ASSUME NEW i \in 1..Len(toR'), toR'[i].tag = "chunk" PROVE toR'[i].num = Expected' + (i - 1)
    <3>1. i + 1 \in 1..Len(toR) /\ toR'[i] = toR[i + 1]
      BY <2>2
    <3>2. toR[i + 1].num = blockIndex + ((i + 1) - 1)
      BY <2>4, <2>6, <3>1
    <3> QED
      BY <1>q, <2>2, <2>3, <3>1, <3>2
  <2>7. sPc # "await"
    BY <2>1 DEF Numbered, Handshake, ReceiverLoop
  <2>8. Handshake'
    BY <1>u, <2>1, <2>7 DEF Numbered, Handshake, Early, ReceiverLoop
  <2>9. ArrivesInOrder' /\ OffsetAgrees' /\ CountersAgree'
    BY <1>u, <2>1, <2>5, <2>6, <2>7 DEF Numbered, ArrivesInOrder, OffsetAgrees, CountersAgree
  <2>10. Expected + Len(toR) = Expected' + Len(toR')
    BY <1>q, <2>2, <2>3
  <2>11. LeavesInOrder'
    BY <1>u, <2>1, <2>3, <2>10 DEF Numbered, LeavesInOrder, ReceiverLoop
  <2> QED
    BY <2>8, <2>9, <2>11 DEF Numbered
<1>8. CASE Forward
  <2> DEFINE job == [blk |-> blockIndex, frame |-> rHeld]
  <2>1. rPc = "forward" /\ rPc' = "gate" /\ blockIndex' = blockIndex + 1 /\ diskCh' = Append(diskCh, job)
        /\ UNCHANGED <<toR, toS>>
    BY <1>8 DEF Forward, netVars
  <2>2. rHeld.num = blockIndex /\ sPc # "await"
    BY <2>1 DEF Numbered, ArrivesInOrder, Handshake, ReceiverLoop
  <2>3. Expected' = Expected /\ Following' = Following
    BY <1>q, <1>u, <2>1 DEF Expected, Following
  <2>4. Handshake'
    BY <1>u, <2>1, <2>2 DEF Numbered, Handshake, Early, ReceiverLoop
  <2>5. CountersAgree'
    <3>1. job \in [blk : Nat, frame : Frames] /\ job.blk = job.frame.num
      BY <1>q, <2>2
    <3>2. Len(diskCh') = Len(diskCh) + 1 /\ diskCh'[Len(diskCh) + 1] = job
          /\ \A i \in 1..Len(diskCh) : diskCh'[i] = diskCh[i]
      BY <1>q, <2>1, <3>1, AppendProperties
    <3>3. Len(diskCh) \in Nat
      BY <1>q
    <3>4. \A i \in 1..Len(diskCh') : i \in 1..Len(diskCh) \/ i = Len(diskCh) + 1
      BY <3>2, <3>3
    <3> QED
      BY <2>1, <3>1, <3>2, <3>4 DEF Numbered, CountersAgree
  <2>6. ArrivesInOrder' /\ OffsetAgrees'
    BY <1>u, <2>1, <2>2, <2>3 DEF Numbered, ArrivesInOrder, OffsetAgrees, ReceiverLoop
  <2>7. LeavesInOrder'
    BY <1>u, <2>1, <2>3 DEF Numbered, LeavesInOrder, ReceiverLoop
  <2> QED
    BY <2>4, <2>5, <2>6, <2>7 DEF Numbered
<1> QED
  BY <1>1, <1>2, <1>3, <1>4, <1>5, <1>6, <1>7, <1>8 DEF ReceiverStep

\* The writer takes jobs off its channel; a crash drops them.
LEMMA WriterNumbered == TypeOK /\ Numbered /\ (WriterTask \/ ReceiverCrash) => Numbered'
<1> SUFFICES ASSUME TypeOK, Numbered, WriterTask \/ ReceiverCrash PROVE Numbered'
  OBVIOUS
<1>q. diskCh \in Seq([blk : Nat, frame : Frames])
  BY DEF TypeOK, WriterOK
<1>1. diskCh' = diskCh \/ diskCh' = <<>> \/ (diskCh # <<>> /\ diskCh' = Tail(diskCh))
  BY DEF WriterTask, WriterOpen, WriterBlock, WriterEnd, WriterFails, ReceiverCrash
<1>2. ASSUME NEW i \in 1..Len(diskCh') PROVE diskCh'[i].blk = diskCh'[i].frame.num
  <2>1. CASE diskCh' = diskCh
    BY <1>2, <2>1 DEF Numbered, CountersAgree
  <2>2. CASE diskCh' = <<>>
    BY <1>2, <2>2
  <2>3. CASE diskCh # <<>> /\ diskCh' = Tail(diskCh)
    <3>1. Len(diskCh) \in Nat /\ Len(diskCh') = Len(diskCh) - 1 /\ diskCh'[i] = diskCh[i + 1]
      BY <1>q, <1>2, <2>3, HeadTailProperties
    <3>2. i + 1 \in 1..Len(diskCh)
      BY <1>2, <3>1
    <3> QED
      BY <3>1, <3>2 DEF Numbered, CountersAgree
  <2> QED
    BY <1>1, <2>1, <2>2, <2>3
<1>3. UNCHANGED <<sPc, sHeld, toR, toS, link, dataCh, rdPc, rdNext, start, blockIndex>>
  BY DEF WriterTask, WriterOpen, WriterBlock, WriterEnd, WriterFails, ReceiverCrash, senderVars,
     readerVars, netVars, receiverVars
<1>4. CASE WriterTask
  <2>1. UNCHANGED <<rPc, rHeld>>
    BY <1>4 DEF WriterTask, WriterOpen, WriterBlock, WriterEnd, WriterFails, receiverVars
  <2>2. UNCHANGED <<Early, Expected, Following>>
    BY <1>3, <2>1 DEF Early, Expected, Following
  <2>3. Handshake'
    BY <1>3, <2>1, <2>2 DEF Numbered, Handshake, Carries
  <2>4. OffsetAgrees' /\ ArrivesInOrder' /\ CountersAgree'
    BY <1>2, <1>3, <2>1, <2>2 DEF Numbered, OffsetAgrees, ArrivesInOrder, CountersAgree
  <2>5. LeavesInOrder'
    BY <1>3, <2>1, <2>2 DEF Numbered, LeavesInOrder
  <2> QED
    BY <2>3, <2>4, <2>5 DEF Numbered
<1>5. CASE ReceiverCrash
  <2>1. rPc' = "done"
    BY <1>5 DEF ReceiverCrash, ReceiverReturns
  <2>2. Handshake'
    BY <1>3, <2>1 DEF Numbered, Handshake, Early, ReceiverLoop
  <2> QED
    BY <1>2, <2>1, <2>2 DEF Numbered, OffsetAgrees, ArrivesInOrder, LeavesInOrder, CountersAgree,
       ReceiverLoop
<1> QED
  BY <1>4, <1>5

LEMMA UserNumbered == Numbered /\ (UserStep \/ UNCHANGED vars) => Numbered'
<1>1. UserStep \/ UNCHANGED vars => UNCHANGED numberVars
  BY DEF UserStep, PauseSender, ResumeSender, CancelSender, PauseReceiver, ResumeReceiver,
     CancelReceiver, EditSource, vars, numberVars, senderVars, readerVars, netVars, receiverVars,
     writerVars
<1> QED
  BY <1>1, NumberedUnchanged

LEMMA NumberedStep == Inv /\ Numbered /\ [Next]_vars => Numbered'
  BY ConnectNumbered, NetworkNumbered, SenderNumbered, ReaderNumbered, ReceiverNumbered,
     WriterNumbered, UserNumbered DEF Inv, Next, UserStep, PeerReset, Break

\* Both ends number the blocks alike, resumed or not and whatever is lost: a
\* block the writer thread decrypts is the one its nonce was made for.
THEOREM BlocksCountAlike == SafeSpec => []CountersAgree
<1>1. Numbered => CountersAgree
  BY DEF Numbered
<1> QED
  BY <1>1, InitNumbered, NumberedStep, Invariant, PTL DEF SafeSpec

-----------------------------------------------------------------------------
(* Safety: when a checksum may disagree *)

\* The frame holds its block, all of it, of what the reader task hashed.
Piece(h, f) ==
  /\ f.num * Block < Size
  /\ f.num * Block + Len(f.data) = Smaller(f.num * Block + Block, Size)
  /\ f.num * Block + Len(f.data) <= Len(h)
  /\ \A j \in 1..Len(f.data) : f.data[j] = h[f.num * Block + j]

Pieces(h, q) == \A i \in 1..Len(q) : q[i].tag = "chunk" => Piece(h, q[i])
JobPieces(h, jobs) == \A i \in 1..Len(jobs) : Piece(h, jobs[i].frame)

\* Every block between the two files is such a piece.
Content ==
  /\ Len(hashed) = rdNext /\ (rdPc \in {"off", "opening"} => rdNext = 0)
  /\ sPc \in {"idle", "hello", "await"} => rdPc = "off"
  /\ Pieces(hashed, dataCh)
  /\ sPc = "send" => (sHeld.tag = "chunk" => Piece(hashed, sHeld))
  /\ Pieces(hashed, toR)
  /\ rPc = "forward" => Piece(hashed, rHeld)
  /\ JobPieces(hashed, diskCh)

\* The offset in every accept, and so in the reader task, is a block boundary.
Boundary(n) == (n \div Block) * Block = n
Aligned ==
  /\ \A i \in 1..Len(toS) : toS[i].tag = "accept" => Boundary(toS[i].num)
  /\ rdPc = "opening" => Boundary(start)
  /\ rdPc = "run" /\ rdNext < Size => Boundary(rdNext)

\* The blocks the writer has taken, the resume offset, and a resume that the
\* announced file allows.
Taken == blockIndex - Len(diskCh)
Off == IF Resumed THEN (Len(prior) \div Block) * Block ELSE 0
Sound == Resumed => Resumable(prior)
Receiving == rPc \in ReceiverLoop \cup {"drain"}

\* The file holds n units: what a resume kept, then what the reader hashed.
Holds(n) ==
  /\ disk # NoFile /\ Len(disk) = n /\ Off <= n
  /\ \A j \in 1..n : IF j <= Off THEN disk[j] = prior[j]
                                 ELSE j <= Len(hashed) /\ disk[j] = hashed[j]

\* The writer's jobs continue what it has taken, and that is what is on disk.
OnDisk ==
  /\ Early => diskCh = <<>>
  /\ wrPc = "ok" => diskCh = <<>> /\ rPc \notin ReceiverLoop
  /\ Receiving => Taken \in Nat /\ \A i \in 1..Len(diskCh) : diskCh[i].blk = Taken + (i - 1)
  /\ Receiving /\ wrPc \in {"append", "create"} => Taken * Block = Off
  /\ Receiving /\ wrPc = "append" => Resumed /\ disk = prior
  /\ Receiving /\ wrPc = "create" => ~Resumed
  /\ Receiving /\ wrPc \in {"run", "ok"} /\ Sound => Holds(Smaller(Taken * Block, Size))

\* COMPLETE follows the last block.
Ending ==
  /\ Early => ~Carries(toR, "complete")
  /\ \A i \in 1..Len(dataCh) : dataCh[i].tag = "chunk"
  /\ sPc = "send" => sHeld.tag = "chunk"
  /\ sPc = "join" => rdPc \in {"ok", "failed"}
  /\ sPc \in SenderLoop \cup {"join"} /\ rdPc = "ok" => rdNext >= Size
  /\ rPc \in ReceiverLoop /\ link = "up" /\ sPc \in SenderLoop /\ rdPc \in {"run", "ok"}
       /\ rdNext >= Size => (Following + Len(dataCh)) * Block >= Size
  /\ rPc \in ReceiverLoop /\ link = "up" /\ sPc = "join" /\ rdPc = "ok" => Following * Block >= Size
  /\ \A i \in 1..Len(toR) : toR[i].tag = "complete" =>
       /\ sPc \in {"ack", "done"} /\ rdPc = "ok"
       /\ rPc \in ReceiverLoop => (Expected + (i - 1)) * Block >= Size
  /\ rPc = "drain" /\ reason = "complete"
       => sPc \in {"ack", "done"} /\ rdPc = "ok" /\ blockIndex * Block >= Size
  /\ rResult = "mismatch" => rPc = "done" /\ sPc \in {"ack", "done"} /\ rdPc = "ok"
  /\ MismatchExplained

\* What lies after the first m units up to the n-th.
LEMMA SliceType ==
  ASSUME NEW s, NEW m \in Nat, NEW n \in Nat, m < n, \A i \in (m + 1)..n : s[i] \in Unit
  PROVE  SubSeq(s, m + 1, n) \in Seq(Unit) /\ m + Len(SubSeq(s, m + 1, n)) = n
<1>1. m + 1 \in Int /\ n \in Int /\ m + 1 <= n
  OBVIOUS
<1>2. SubSeq(s, m + 1, n) \in Seq(Unit) /\ Len(SubSeq(s, m + 1, n)) = n - (m + 1) + 1
  BY <1>1, SubSeqProperties
<1> QED
  BY <1>2

\* What was hashed stays, so a piece of it stays one.
LEMMA PieceKept ==
  ASSUME NEW h \in Seq(Unit), NEW g \in Seq(Unit), Len(h) <= Len(g),
         \A j \in 1..Len(h) : g[j] = h[j], NEW f \in Frames, Piece(h, f)
  PROVE  Piece(g, f)
<1> DEFINE n == f.num * Block
<1>1. n \in Nat
  <2>1. f.num \in Nat
    BY SizeAssumption DEF Frames
  <2> QED
    BY <2>1, SizeAssumption, Z3
<1>2. Len(f.data) \in Nat /\ Len(h) \in Nat /\ Len(g) \in Nat
  BY DEF Frames
<1>3. /\ n < Size /\ n + Len(f.data) = Smaller(n + Block, Size) /\ n + Len(f.data) <= Len(h)
      /\ \A j \in 1..Len(f.data) : f.data[j] = h[n + j]
  BY DEF Piece
<1> HIDE DEF n
<1>4. \A j \in 1..Len(f.data) : n + j \in 1..Len(h)
  BY <1>1, <1>2, <1>3
<1>5. /\ n < Size /\ n + Len(f.data) = Smaller(n + Block, Size) /\ n + Len(f.data) <= Len(g)
      /\ \A j \in 1..Len(f.data) : f.data[j] = g[n + j]
  BY <1>1, <1>2, <1>3, <1>4
<1> QED
  BY <1>5 DEF Piece, n

LEMMA PiecesKept ==
  ASSUME NEW h \in Seq(Unit), NEW g \in Seq(Unit), Len(h) <= Len(g), \A j \in 1..Len(h) : g[j] = h[j]
  PROVE  /\ \A q \in Seq(Frames) : Pieces(h, q) => Pieces(g, q)
         /\ \A d \in Seq([blk : Nat, frame : Frames]) : JobPieces(h, d) => JobPieces(g, d)
<1>1. \A f \in Frames : Piece(h, f) => Piece(g, f)
  BY PieceKept
<1>2. ASSUME NEW q \in Seq(Frames), Pieces(h, q) PROVE Pieces(g, q)
  <2>1. \A i \in 1..Len(q) : q[i] \in Frames
    BY <1>2, ElementOfSeq
  <2> QED
    BY <1>1, <1>2, <2>1 DEF Pieces
<1>3. ASSUME NEW d \in Seq([blk : Nat, frame : Frames]), JobPieces(h, d) PROVE JobPieces(g, d)
  <2>1. \A i \in 1..Len(d) : d[i].frame \in Frames
    <3>1. \A i \in 1..Len(d) : d[i] \in [blk : Nat, frame : Frames]
      BY <1>3, ElementOfSeq
    <3> QED
      BY <3>1
  <2> QED
    BY <1>1, <1>3, <2>1 DEF JobPieces
<1> QED
  BY <1>2, <1>3

\* Of nothing there is no piece.
LEMMA NoPieces ==
  /\ \A f \in Frames : ~Piece(<<>>, f)
  /\ \A h : Pieces(h, <<>>) /\ JobPieces(h, <<>>)
<1>1. ASSUME NEW f \in Frames, Piece(<<>>, f) PROVE FALSE
  <2> DEFINE n == f.num * Block
  <2>1. f.num \in Nat
    BY SizeAssumption DEF Frames
  <2>2. n \in Nat /\ Len(f.data) \in Nat
    BY <2>1, SizeAssumption, Z3 DEF Frames
  <2>3. n < Size /\ n + Len(f.data) = Smaller(n + Block, Size) /\ n + Len(f.data) <= 0
    BY <1>1 DEF Piece
  <2> HIDE DEF n
  <2> QED
    BY <2>2, <2>3, SizeAssumption DEF Smaller
<1>2. \A h : Pieces(h, <<>>) /\ JobPieces(h, <<>>)
  BY DEF Pieces, JobPieces
<1> QED
  BY <1>1, <1>2

\* Queueing, taking and losing frames.
LEMMA PiecesMove ==
  ASSUME NEW h, NEW q \in Seq(Frames), Pieces(h, q)
  PROVE  /\ \A f \in Frames : (f.tag = "chunk" => Piece(h, f)) => Pieces(h, Append(q, f))
         /\ q # <<>> => (Head(q).tag = "chunk" => Piece(h, Head(q))) /\ Pieces(h, Tail(q))
         /\ \A p \in Prefixes(q) : Pieces(h, p)
<1>n. Len(q) \in Nat
  OBVIOUS
<1>1. ASSUME NEW f \in Frames, f.tag = "chunk" => Piece(h, f) PROVE Pieces(h, Append(q, f))
  <2>1. Len(Append(q, f)) = Len(q) + 1 /\ Append(q, f)[Len(q) + 1] = f
        /\ \A i \in 1..Len(q) : Append(q, f)[i] = q[i]
    BY AppendProperties
  <2>2. \A i \in 1..Len(Append(q, f)) : i \in 1..Len(q) \/ i = Len(q) + 1
    BY <1>n, <2>1
  <2> QED
    BY <1>1, <2>1, <2>2 DEF Pieces
<1>2. ASSUME q # <<>> PROVE (Head(q).tag = "chunk" => Piece(h, Head(q))) /\ Pieces(h, Tail(q))
  <2>0. Len(q) # 0
    BY <1>2, EmptySeq
  <2>1. 1 \in 1..Len(q) /\ Head(q) = q[1] /\ Len(Tail(q)) = Len(q) - 1
        /\ \A i \in 1..Len(Tail(q)) : Tail(q)[i] = q[i + 1]
    BY <1>2, <1>n, <2>0, HeadTailProperties
  <2>2. \A i \in 1..Len(Tail(q)) : i + 1 \in 1..Len(q)
    BY <1>n, <2>1
  <2> QED
    BY <2>1, <2>2 DEF Pieces
<1>3. ASSUME NEW p \in Prefixes(q) PROVE Pieces(h, p)
  <2>1. p \in Seq(Frames) /\ Len(p) <= Len(q) /\ \A i \in 1..Len(p) : p[i] = q[i]
    BY PrefixesType
  <2>2. \A i \in 1..Len(p) : i \in 1..Len(q)
    BY <1>n, <2>1
  <2> QED
    BY <2>1, <2>2 DEF Pieces
<1> QED
  BY <1>1, <1>2, <1>3

LEMMA JobsMove ==
  ASSUME NEW h, NEW d \in Seq([blk : Nat, frame : Frames]), JobPieces(h, d)
  PROVE  /\ \A job \in [blk : Nat, frame : Frames] :
              Piece(h, job.frame) => JobPieces(h, Append(d, job))
         /\ d # <<>> => Piece(h, Head(d).frame) /\ JobPieces(h, Tail(d))
<1>n. Len(d) \in Nat
  OBVIOUS
<1>1. ASSUME NEW job \in [blk : Nat, frame : Frames], Piece(h, job.frame)
      PROVE  JobPieces(h, Append(d, job))
  <2>1. Len(Append(d, job)) = Len(d) + 1 /\ Append(d, job)[Len(d) + 1] = job
        /\ \A i \in 1..Len(d) : Append(d, job)[i] = d[i]
    BY AppendProperties
  <2>2. \A i \in 1..Len(Append(d, job)) : i \in 1..Len(d) \/ i = Len(d) + 1
    BY <1>n, <2>1
  <2> QED
    BY <1>1, <2>1, <2>2 DEF JobPieces
<1>2. ASSUME d # <<>> PROVE Piece(h, Head(d).frame) /\ JobPieces(h, Tail(d))
  <2>0. Len(d) # 0
    BY <1>2, EmptySeq
  <2>1. 1 \in 1..Len(d) /\ Head(d) = d[1] /\ Len(Tail(d)) = Len(d) - 1
        /\ \A i \in 1..Len(Tail(d)) : Tail(d)[i] = d[i + 1]
    BY <1>2, <1>n, <2>0, HeadTailProperties
  <2>2. \A i \in 1..Len(Tail(d)) : i + 1 \in 1..Len(d)
    BY <1>n, <2>1
  <2> QED
    BY <2>1, <2>2 DEF JobPieces
<1> QED
  BY <1>1, <1>2

\* Only Accept makes an accept, and the reader task moves on by whole blocks.
LEMMA StepAligned == Inv /\ Aligned /\ [Next]_vars => Aligned'
<1> SUFFICES ASSUME Inv, Aligned, [Next]_vars PROVE Aligned'
  OBVIOUS
<1>q. toS \in Seq(Frames) /\ rdNext \in 0..Size /\ start \in 0..Size
  BY DEF Inv, TypeOK, NetOK, ReaderOK
<1>n. Len(toS) \in Nat
  BY <1>q
<1>b. \A n \in Nat : Boundary(n * Block)
  <2>1. \A n \in Nat : (n * Block) \div Block = n
    BY SizeAssumption, Z3
  <2> QED
    BY <2>1 DEF Boundary
<1>1. CASE Connect
  BY <1>1 DEF Connect, Aligned
<1>2. CASE LoseFrames
  <2>1. UNCHANGED <<rdPc, start, rdNext>> /\ Len(toS') <= Len(toS) /\ toS' \in Seq(Frames)
        /\ \A i \in 1..Len(toS') : toS'[i] = toS[i]
    BY <1>q, <1>2, PrefixesType DEF LoseFrames, readerVars
  <2>2. \A i \in 1..Len(toS') : i \in 1..Len(toS)
    BY <1>n, <2>1
  <2> QED
    BY <2>1, <2>2 DEF Aligned
<1>3. CASE SenderStep
  <2>1. UNCHANGED rdNext /\ (ReceiveAccept \/ UNCHANGED <<rdPc, start>>)
        /\ (toS' = toS \/ (toS # <<>> /\ toS' = Tail(toS)))
    BY <1>3 DEF SenderStep, SendMetadata, ReceiveAccept, HandshakeFails, MetadataFails, PassGate, Dequeue, SendChunk,
       CancelSend, SendFailsInLoop, LeaveLoop, SendAbort, EndLoop, SendComplete, CompletionFails,
       ReceiveAck, readerVars, netVars
  <2>2. toS # <<>> => /\ 1 \in 1..Len(toS) /\ Head(toS) = toS[1] /\ Len(Tail(toS)) = Len(toS) - 1
                      /\ \A i \in 1..Len(Tail(toS)) : Tail(toS)[i] = toS[i + 1]
    <3>1. toS # <<>> => Len(toS) # 0
      BY <1>q, EmptySeq
    <3> QED
      BY <1>q, <1>n, <3>1, HeadTailProperties
  <2>3. \A i \in 1..Len(toS') : toS'[i].tag = "accept" => Boundary(toS'[i].num)
    <3>1. CASE toS' = toS
      BY <3>1 DEF Aligned
    <3>2. CASE toS # <<>> /\ toS' = Tail(toS)
      <4>1. \A i \in 1..Len(toS') : i + 1 \in 1..Len(toS)
        BY <1>n, <2>2, <3>2
      <4> QED
        BY <2>2, <3>2, <4>1 DEF Aligned
    <3> QED
      BY <2>1, <3>1, <3>2
  <2>4. ReceiveAccept => rdPc' = "opening" /\ Boundary(start')
    BY <2>2 DEF ReceiveAccept, Aligned
  <2> QED
    BY <2>1, <2>3, <2>4 DEF Aligned
<1>4. CASE ReaderTask
  <2>1. UNCHANGED <<toS, start>> /\ rdPc' # "opening"
    BY <1>4 DEF ReaderTask, ReaderOpen, ReaderBlock, ReaderEnd, ReaderFails, netVars
  <2>2. rdPc' = "run" /\ rdNext' < Size => Boundary(rdNext')
    <3>1. CASE ReaderOpen
      BY <3>1 DEF ReaderOpen, Aligned
    <3>2. CASE ReaderBlock
      <4> DEFINE n == rdNext \div Block
      <4>1. rdNext < Size /\ n * Block = rdNext /\ rdNext' = Smaller(rdNext + Block, Size)
        BY <3>2 DEF ReaderBlock, Aligned, Boundary
      <4>2. n \in Nat
        BY <1>q, RoundedDown, SizeAssumption
      <4> HIDE DEF n
      <4>3. rdNext' < Size => rdNext' = (n + 1) * Block
        BY <4>1, <4>2, NextBlock
      <4> QED
        BY <1>b, <4>2, <4>3
    <3>3. CASE ReaderEnd \/ ReaderFails
      BY <3>3 DEF ReaderEnd, ReaderFails
    <3> QED
      BY <1>4, <3>1, <3>2, <3>3 DEF ReaderTask
  <2> QED
    BY <2>1, <2>2 DEF Aligned
<1>5. CASE ReceiverStep \/ Reject \/ Approve
  <2>1. UNCHANGED readerVars
    BY <1>5 DEF ReceiverStep, AnswerHello, ReceiveMetadata, IncomingFails, Reject, Approve, Accept,
       PassReceiverGate, ReadChunk, Forward, CancelReceive, ReadLast, ReadFails, ForwardFails,
       AfterLoop, Discard, VerifyGood, VerifyBad, VerifyFails
  <2>2. toS' = toS \/ \E f \in Frames : (f.tag = "accept" => Boundary(f.num)) /\ toS' = Append(toS, f)
    <3>1. CASE Accept
      <4> DEFINE f == Frame("accept", ResumeOffset, <<>>)
      <4>1. Boundary(ResumeOffset)
        <5>1. CASE IsResume
          <6>1. FileLen \in 0..Size
            BY <5>1, SizeAssumption DEF IsResume, FileLen, Inv, TypeOK, WriterOK
          <6>2. FileLen \div Block \in Nat
            BY <6>1, RoundedDown, SizeAssumption
          <6> QED
            BY <1>b, <5>1, <6>2 DEF ResumeOffset
        <5>2. CASE ~IsResume
          <6>1. Boundary(0 * Block)
            BY <1>b
          <6> QED
            BY <5>2, <6>1, SizeAssumption DEF ResumeOffset
        <5> QED
          BY <5>1, <5>2
      <4>2. f \in Frames /\ f.num = ResumeOffset
        <5>1. ResumeOffset \in 0..Size /\ <<>> \in Seq(Unit)
          BY OffsetType DEF Inv, TypeOK
        <5> QED
          BY <5>1, FramesAreFrames DEF Tags, Frame
      <4> QED
        BY <3>1, <4>1, <4>2 DEF Accept
    <3>2. CASE ~Accept
      <4>1. toS' = toS \/ \E tag \in Tags \ {"accept"} : toS' = Append(toS, Signal(tag))
        BY <1>5, <3>2 DEF ReceiverStep, AnswerHello, ReceiveMetadata, IncomingFails, Reject, Approve,
           PassReceiverGate, ReadChunk, Forward, CancelReceive, ReadLast, ReadFails, ForwardFails,
           SayCancelled, Discard, VerifyGood, VerifyBad, VerifyFails, netVars, Tags
      <4> QED
        BY <4>1, SignalsAreFrames, SignalTags
    <3> QED
      BY <3>1, <3>2
  <2>3. ASSUME NEW f \in Frames, f.tag = "accept" => Boundary(f.num), toS' = Append(toS, f)
        PROVE  \A i \in 1..Len(toS') : toS'[i].tag = "accept" => Boundary(toS'[i].num)
    <3>1. Len(toS') = Len(toS) + 1 /\ toS'[Len(toS) + 1] = f /\ \A i \in 1..Len(toS) : toS'[i] = toS[i]
      BY <1>q, <2>3, AppendProperties
    <3>2. \A i \in 1..Len(toS') : i \in 1..Len(toS) \/ i = Len(toS) + 1
      BY <1>n, <3>1
    <3> QED
      BY <2>3, <3>1, <3>2 DEF Aligned
  <2> QED
    BY <2>1, <2>2, <2>3 DEF Aligned, readerVars
<1>6. CASE WriterTask \/ ReceiverCrash \/ UserStep \/ UNCHANGED vars
  <2>1. UNCHANGED <<toS, rdPc, start, rdNext>>
    BY <1>6 DEF WriterTask, WriterOpen, WriterBlock, WriterEnd, WriterFails, ReceiverCrash, UserStep,
       PauseSender, ResumeSender, CancelSender, PauseReceiver, ResumeReceiver, CancelReceiver,
       EditSource, vars, readerVars, netVars
  <2> QED
    BY <2>1 DEF Aligned
<1> QED
  BY <1>1, <1>2, <1>3, <1>4, <1>5, <1>6 DEF Next, UserStep, PeerReset, Break

\* The reader task only adds to what it hashed: the block that it queues.
LEMMA ReaderHashes ==
  ASSUME Inv, Content, ReaderTask
  PROVE  /\ hashed' \in Seq(Unit) /\ Len(hashed) <= Len(hashed') /\ Len(hashed') = rdNext'
         /\ \A j \in 1..Len(hashed) : hashed'[j] = hashed[j]
         /\ ReaderBlock => /\ BlockAt(rdNext) \in Seq(Unit)
                           /\ rdNext + Len(BlockAt(rdNext)) = rdNext'
                           /\ \A j \in 1..Len(BlockAt(rdNext)) :
                                hashed'[rdNext + j] = BlockAt(rdNext)[j]
<1>q. hashed \in Seq(Unit) /\ rdNext \in 0..Size /\ start \in 0..Size /\ source \in [1..Size -> Unit]
  BY DEF Inv, TypeOK, ReaderOK, WorldOK
<1>h. Len(hashed) = rdNext
  BY DEF Content
<1>1. CASE ReaderOpen
  <2>1. hashed' = Prefix(source, start) /\ rdNext' = start /\ rdNext = 0 /\ ~ReaderBlock
    BY <1>1 DEF ReaderOpen, ReaderBlock, Content
  <2>2. hashed' \in Seq(Unit) /\ Len(hashed') = rdNext'
    BY <1>q, <2>1, PrefixType, FileIsASequence
  <2> QED
    BY <1>q, <1>h, <2>1, <2>2
<1>2. CASE ReaderBlock
  <2> DEFINE b == BlockAt(rdNext)
  <2>1. rdNext < Size /\ hashed' = hashed \o b /\ rdNext' = Smaller(rdNext + Block, Size)
    BY <1>2 DEF ReaderBlock
  <2>2. rdNext' \in Nat /\ rdNext \in Nat /\ rdNext < rdNext' /\ rdNext' <= Size
    BY <1>q, <2>1, SizeAssumption DEF Smaller
  <2>3. \A i \in (rdNext + 1)..rdNext' : source[i] \in Unit
    BY <1>q, <2>2, SizeAssumption
  <2>4. b = SubSeq(source, rdNext + 1, rdNext')
    BY <2>1 DEF BlockAt
  <2> HIDE DEF b
  <2>5. b \in Seq(Unit) /\ rdNext + Len(b) = rdNext'
    BY <2>2, <2>3, <2>4, SliceType
  <2>6. Len(b) \in Nat
    BY <2>5
  <2>7. hashed' \in Seq(Unit) /\ Len(hashed') = Len(hashed) + Len(b)
        /\ \A i \in 1..(Len(hashed) + Len(b)) :
             hashed'[i] = IF i <= Len(hashed) THEN hashed[i] ELSE b[i - Len(hashed)]
    BY <1>q, <2>1, <2>5, ConcatProperties
  <2>8. ASSUME NEW j \in 1..Len(b) PROVE hashed'[rdNext + j] = b[j]
    <3>1. rdNext + j \in 1..(Len(hashed) + Len(b)) /\ ~(rdNext + j <= Len(hashed))
          /\ (rdNext + j) - Len(hashed) = j
      BY <1>h, <2>2, <2>6
    <3> QED
      BY <2>7, <3>1
  <2>9. \A j \in 1..Len(hashed) : hashed'[j] = hashed[j]
    BY <1>h, <2>2, <2>6, <2>7
  <2> QED
    BY <1>h, <2>2, <2>5, <2>6, <2>7, <2>8, <2>9 DEF b
<1>3. CASE ReaderEnd \/ ReaderFails
  BY <1>q, <1>h, <1>3 DEF ReaderEnd, ReaderFails, ReaderBlock
<1> QED
  BY <1>1, <1>2, <1>3 DEF ReaderTask

\* A block moves from the reader task to the writer task as it was hashed.
LEMMA StepContent == Inv /\ Aligned /\ Content /\ [Next]_vars => Content'
<1> SUFFICES ASSUME Inv, Aligned, Content, [Next]_vars PROVE Content'
  OBVIOUS
<1>q. toR \in Seq(Frames) /\ dataCh \in Seq(Frames) /\ sHeld \in Frames /\ rHeld \in Frames
      /\ hashed \in Seq(Unit) /\ diskCh \in Seq([blk : Nat, frame : Frames]) /\ blockIndex \in Nat
      /\ rdNext \in 0..Size /\ start \in 0..Size /\ source \in [1..Size -> Unit]
  BY DEF Inv, TypeOK, SenderOK, NetOK, ReaderOK, ReceiverOK, WriterOK, WorldOK
<1>1. CASE Connect
  <2>1. Pieces(<<>>, toR')
    <3>1. toR' = Append(<<>>, Signal("hello"))
      BY <1>1 DEF Connect
    <3>2. Signal("hello") \in Frames /\ Signal("hello").tag # "chunk"
      BY SignalsAreFrames, SignalTags DEF Tags
    <3>3. <<>> \in Seq(Frames) /\ Pieces(<<>>, <<>>)
      BY NoPieces
    <3> QED
      BY <3>1, <3>2, <3>3, PiecesMove
  <2> QED
    BY <1>1, <2>1, NoPieces DEF Connect, Content
<1>2. CASE LoseFrames
  <2>1. UNCHANGED <<hashed, rdNext, rdPc, dataCh, sPc, sHeld, rPc, rHeld, diskCh>>
    BY <1>2 DEF LoseFrames, senderVars, readerVars, receiverVars, writerVars
  <2>2. Pieces(hashed, toR')
    BY <1>q, <1>2, PiecesMove DEF LoseFrames, Content
  <2> QED
    BY <2>1, <2>2 DEF Content
<1>3. CASE SenderStep
  <2>1. UNCHANGED <<hashed, rdNext, rPc, rHeld, diskCh>>
    BY <1>3 DEF SenderStep, SendMetadata, ReceiveAccept, HandshakeFails, MetadataFails, PassGate, Dequeue, SendChunk,
       CancelSend, SendFailsInLoop, LeaveLoop, SendAbort, EndLoop, SendComplete, CompletionFails,
       ReceiveAck, receiverVars, writerVars, readerVars
  <2>2. CASE ReceiveAccept
    BY <2>1, <2>2 DEF ReceiveAccept, Content
  <2>3. CASE Dequeue
    <3>1. sPc' = "send" /\ dataCh # <<>> /\ sHeld' = Head(dataCh) /\ dataCh' = Tail(dataCh)
          /\ UNCHANGED <<toR, rdPc>>
      BY <2>3 DEF Dequeue, netVars
    <3> QED
      BY <1>q, <2>1, <3>1, PiecesMove DEF Content
  <2>4. CASE SendChunk
    <3>1. sPc = "send" /\ sPc' = "gate" /\ toR' = Append(toR, sHeld) /\ UNCHANGED <<dataCh, rdPc>>
      BY <2>4 DEF SendChunk, readerVars
    <3> QED
      BY <1>q, <2>1, <3>1, PiecesMove DEF Content
  <2>5. CASE SenderStep /\ ~ReceiveAccept /\ ~Dequeue /\ ~SendChunk
    <3>1. UNCHANGED <<dataCh, rdPc>> /\ sPc' # "send" /\ (sPc' = "await" => sPc = "hello")
          /\ sPc' \notin {"idle", "hello"}
      BY <2>5 DEF SenderStep, SendMetadata, HandshakeFails, MetadataFails, PassGate, CancelSend, SendFailsInLoop,
         LeaveLoop, SendAbort, EndLoop, SendComplete, CompletionFails, ReceiveAck, SenderReturns,
         readerVars
    <3>2. toR' = toR \/ \E tag \in Tags \ {"chunk"} : toR' = Append(toR, Signal(tag))
      BY <2>5 DEF SenderStep, SendMetadata, HandshakeFails, MetadataFails, PassGate, CancelSend, SendFailsInLoop,
         LeaveLoop, SendAbort, EndLoop, SendComplete, CompletionFails, ReceiveAck, netVars, Tags
    <3>3. Pieces(hashed, toR')
      <4>1. CASE toR' = toR
        BY <4>1 DEF Content
      <4>2. ASSUME NEW tag \in Tags \ {"chunk"}, toR' = Append(toR, Signal(tag))
            PROVE  Pieces(hashed, toR')
        BY <1>q, <4>2, SignalsAreFrames, SignalTags, PiecesMove DEF Content
      <4> QED
        BY <3>2, <4>1, <4>2
    <3> QED
      BY <2>1, <3>1, <3>3 DEF Content
  <2> QED
    BY <1>3, <2>2, <2>3, <2>4, <2>5
<1>4. CASE ReaderTask
  <2>1. UNCHANGED <<sPc, sHeld, toR, rPc, rHeld, diskCh>>
    BY <1>4 DEF ReaderTask, ReaderOpen, ReaderBlock, ReaderEnd, ReaderFails, senderVars, netVars,
       receiverVars, writerVars
  <2>2. hashed' \in Seq(Unit) /\ Len(hashed) <= Len(hashed') /\ Len(hashed') = rdNext'
        /\ \A j \in 1..Len(hashed) : hashed'[j] = hashed[j]
    BY <1>4, ReaderHashes
  <2>3. /\ \A q \in Seq(Frames) : Pieces(hashed, q) => Pieces(hashed', q)
        /\ \A d \in Seq([blk : Nat, frame : Frames]) : JobPieces(hashed, d) => JobPieces(hashed', d)
        /\ \A f \in Frames : Piece(hashed, f) => Piece(hashed', f)
    BY <1>q, <2>2, PiecesKept, PieceKept
  <2>4. rdPc' \notin {"off", "opening"} /\ sPc \notin {"idle", "hello", "await"}
    BY <1>4 DEF ReaderTask, ReaderOpen, ReaderBlock, ReaderEnd, ReaderFails, Content
  <2>5. Pieces(hashed', dataCh')
    <3>1. CASE ReaderBlock
      <4> DEFINE b == BlockAt(rdNext)
                 f == Frame("chunk", rdNext \div Block, b)
      <4>1. rdPc = "run" /\ rdNext < Size /\ dataCh' = Append(dataCh, f)
            /\ rdNext' = Smaller(rdNext + Block, Size)
        BY <3>1 DEF ReaderBlock
      <4>2. b \in Seq(Unit) /\ rdNext + Len(b) = rdNext' /\ \A j \in 1..Len(b) : hashed'[rdNext + j] = b[j]
        BY <1>4, <3>1, ReaderHashes
      <4>3. f \in Frames /\ f.num = rdNext \div Block /\ f.data = b
        BY <1>q, <4>2, RoundedDown, FramesAreFrames DEF Frame, Tags
      <4> HIDE DEF f, b
      <4>4. f.num * Block = rdNext
        BY <4>1, <4>3 DEF Aligned, Boundary
      <4>5. Piece(hashed', f)
        BY <1>q, <2>2, <4>1, <4>2, <4>3, <4>4 DEF Piece
      <4> QED
        BY <1>q, <2>3, <4>1, <4>3, <4>5, PiecesMove DEF Content
    <3>2. CASE ~ReaderBlock
      BY <1>q, <1>4, <2>3, <3>2 DEF ReaderTask, ReaderOpen, ReaderEnd, ReaderFails, Content
    <3> QED
      BY <3>1, <3>2
  <2> QED
    BY <1>q, <2>1, <2>2, <2>3, <2>4, <2>5 DEF Content
<1>5. CASE ReceiverStep \/ Reject \/ Approve
  <2>1. UNCHANGED <<senderVars, readerVars>>
    BY <1>5 DEF ReceiverStep, AnswerHello, ReceiveMetadata, IncomingFails, Reject, Approve, Accept,
       PassReceiverGate, ReadChunk, Forward, CancelReceive, ReadLast, ReadFails, ForwardFails,
       AfterLoop, Discard, VerifyGood, VerifyBad, VerifyFails
  <2>2. UNCHANGED <<hashed, rdNext, rdPc, dataCh, sPc, sHeld>>
    BY <2>1 DEF senderVars, readerVars
  <2>3. toR' = toR \/ (toR # <<>> /\ toR' = Tail(toR))
    BY <1>5, Zenon DEF ReceiverStep, AnswerHello, ReceiveMetadata, IncomingFails, Reject, Approve, Accept,
       PassReceiverGate, ReadChunk, Forward, CancelReceive, ReadLast, ReadFails, ForwardFails,
       Discard, VerifyGood, VerifyBad, VerifyFails, netVars
  <2>4. Pieces(hashed, toR')
    BY <1>q, <2>3, PiecesMove DEF Content
  <2>5. rPc' = "forward" => ReadChunk
    BY <1>5 DEF ReceiverStep, AnswerHello, ReceiveMetadata, IncomingFails, Reject, Approve, Accept,
       PassReceiverGate, ReadChunk, Forward, CancelReceive, ReadLast, ReadFails, ForwardFails,
       AfterLoop, Discard, VerifyGood, VerifyBad, VerifyFails, ReceiverReturns
  <2>6. ReadChunk => Piece(hashed, rHeld')
    BY <1>q, PiecesMove DEF ReadChunk, Content
  <2>7. JobPieces(hashed, diskCh')
    <3>1. CASE Forward
      <4> DEFINE job == [blk |-> blockIndex, frame |-> rHeld]
      <4>1. rPc = "forward" /\ diskCh' = Append(diskCh, job) /\ job \in [blk : Nat, frame : Frames]
            /\ job.frame = rHeld
        BY <1>q, <3>1 DEF Forward
      <4> HIDE DEF job
      <4> QED
        BY <1>q, <4>1, JobsMove DEF Content
    <3>2. CASE ~Forward
      <4>1. diskCh' = diskCh
        BY <1>5, <3>2 DEF ReceiverStep, AnswerHello, ReceiveMetadata, IncomingFails, Reject, Approve,
           Accept, PassReceiverGate, ReadChunk, CancelReceive, ReadLast, ReadFails, ForwardFails,
           AfterLoop, Discard, VerifyGood, VerifyBad, VerifyFails, writerVars
      <4> QED
        BY <4>1 DEF Content
    <3> QED
      BY <3>1, <3>2
  <2> QED
    BY <2>2, <2>4, <2>5, <2>6, <2>7 DEF Content
<1>6. CASE WriterTask \/ ReceiverCrash
  <2>1. UNCHANGED <<hashed, rdNext, rdPc, dataCh, sPc, sHeld, toR>> /\ (rPc' = "forward" => UNCHANGED <<rPc, rHeld>>)
    BY <1>6 DEF WriterTask, WriterOpen, WriterBlock, WriterEnd, WriterFails, ReceiverCrash,
       ReceiverReturns, senderVars, readerVars, netVars, receiverVars
  <2>2. diskCh' = diskCh \/ diskCh' = <<>> \/ (diskCh # <<>> /\ diskCh' = Tail(diskCh))
    BY <1>6 DEF WriterTask, WriterOpen, WriterBlock, WriterEnd, WriterFails, ReceiverCrash
  <2>3. JobPieces(hashed, diskCh')
    BY <1>q, <2>2, JobsMove, NoPieces DEF Content
  <2> QED
    BY <2>1, <2>3 DEF Content
<1>7. CASE UserStep \/ UNCHANGED vars
  <2>1. UNCHANGED <<hashed, rdNext, rdPc, dataCh, sPc, sHeld, toR, rPc, rHeld, diskCh>>
    BY <1>7 DEF UserStep, PauseSender, ResumeSender, CancelSender, PauseReceiver, ResumeReceiver,
       CancelReceiver, EditSource, vars, senderVars, readerVars, netVars, receiverVars, writerVars
  <2> QED
    BY <2>1 DEF Content
<1> QED
  BY <1>1, <1>2, <1>3, <1>4, <1>5, <1>6, <1>7 DEF Next, UserStep, PeerReset, Break

LEMMA OnDiskUnchanged ==
  ASSUME OnDisk, UNCHANGED <<rPc, blockIndex, diskCh, wrPc, disk, hashed, force, prior>>,
         Receiving => UNCHANGED announced
  PROVE  OnDisk'
<1>1. UNCHANGED <<Early, Receiving, Taken, Off, Resumed>>
  BY DEF Early, Receiving, Taken, Off, Resumed
<1>2. Receiving => UNCHANGED Sound
  BY <1>1 DEF Sound, Resumable
<1> QED
  BY <1>1, <1>2 DEF OnDisk, Holds

\* The offset is a block boundary, and a sound resume is one of its own length.
LEMMA OffIsBoundary ==
  ASSUME prior \in Seq(Unit) \cup {NoFile}
  PROVE  /\ Off \in Nat /\ Boundary(Off)
         /\ Resumed => prior \in Seq(Unit) /\ Len(prior) \in 1..(Size - 1) /\ Off <= Len(prior)
         /\ Resumed /\ Sound => Off = Len(prior)
<1>b. \A n \in Nat : (n * Block) \div Block = n
  BY SizeAssumption, Z3
<1>1. CASE Resumed
  <2>1. prior \in Seq(Unit) /\ Len(prior) \in 1..(Size - 1) /\ Len(prior) \in Nat
    BY <1>1, SizeAssumption DEF Resumed
  <2> DEFINE m == Len(prior)
  <2>2. m \div Block \in Nat /\ (m \div Block) * Block <= m /\ (m \div Block) * Block \in Nat
        /\ (m % Block = 0 => (m \div Block) * Block = m)
    BY <2>1, SizeAssumption, Z3
  <2>3. Off = (m \div Block) * Block
    BY <1>1 DEF Off
  <2>4. Boundary(Off)
    BY <1>b, <2>2, <2>3 DEF Boundary
  <2>5. Sound => m % Block = 0
    BY <1>1 DEF Sound, Resumable
  <2> QED
    BY <2>1, <2>2, <2>3, <2>4, <2>5
<1>2. CASE ~Resumed
  <2>1. Off = 0 /\ Boundary(0 * Block)
    BY <1>2, <1>b DEF Off, Boundary
  <2> QED
    BY <1>2, <2>1, SizeAssumption
<1> QED
  BY <1>1, <1>2

\* A block written to a file that holds all before it.
LEMMA HoldsBlock ==
  ASSUME NEW t \in Nat, NEW f \in Frames, f.num = t, Piece(hashed, f), Off \in Nat,
         disk \in Seq(Unit), hashed \in Seq(Unit), Holds(Smaller(t * Block, Size)), disk' = disk \o f.data,
         UNCHANGED <<Off, prior, hashed>>
  PROVE  Holds(Smaller((t + 1) * Block, Size))'
<1> DEFINE n == t * Block
           d == f.data
<1>1. n \in Nat /\ (t + 1) * Block = n + Block
  BY SizeAssumption, Z3
<1>2. /\ n < Size /\ n + Len(d) = Smaller(n + Block, Size) /\ n + Len(d) <= Len(hashed)
      /\ \A j \in 1..Len(d) : d[j] = hashed[n + j]
  BY DEF Piece
<1>3. d \in Seq(Unit) /\ Len(d) \in Nat
  BY DEF Frames
<1>4. Smaller((t + 1) * Block, Size) = n + Len(d)
  BY <1>1, <1>2
<1> HIDE DEF n, d
<1>5. Smaller(n, Size) = n
  BY <1>1, <1>2, SizeAssumption DEF Smaller
<1>6. Len(disk) = n /\ Off <= n /\ \A j \in 1..n : IF j <= Off THEN disk[j] = prior[j]
                                 ELSE j <= Len(hashed) /\ disk[j] = hashed[j]
  BY <1>5 DEF Holds, n
<1>7. disk' \in Seq(Unit) /\ Len(disk') = n + Len(d)
      /\ \A i \in 1..(n + Len(d)) : disk'[i] = IF i <= n THEN disk[i] ELSE d[i - n]
  <2>1. disk' = disk \o d /\ disk \in Seq(Unit)
    BY DEF d
  <2>2. /\ disk \o d \in Seq(Unit) /\ Len(disk \o d) = Len(disk) + Len(d)
        /\ \A i \in 1..(Len(disk) + Len(d)) :
             (disk \o d)[i] = IF i <= Len(disk) THEN disk[i] ELSE d[i - Len(disk)]
    BY <1>3, <2>1, ConcatProperties
  <2>3. Len(disk) = n
    BY <1>6
  <2> QED
    BY <2>1, <2>2, <2>3
<1>8. disk' # NoFile
  BY <1>7, FilesExist
<1>9. ASSUME NEW j \in 1..(n + Len(d))
      PROVE  IF j <= Off THEN disk'[j] = prior[j] ELSE j <= Len(hashed) /\ disk'[j] = hashed[j]
  <2>1. CASE j <= n
    <3>1. j \in 1..n
      BY <1>1, <1>3, <2>1
    <3> QED
      BY <1>6, <1>7, <2>1, <3>1
  <2>2. CASE ~(j <= n)
    <3>1. j - n \in 1..Len(d) /\ n + (j - n) = j /\ ~(j <= Off) /\ j <= n + Len(d)
      BY <1>1, <1>3, <1>6, <2>2
    <3>2. disk'[j] = d[j - n] /\ d[j - n] = hashed[n + (j - n)]
      BY <1>2, <1>7, <2>2, <3>1
    <3>3. j <= Len(hashed)
      BY <1>1, <1>2, <1>3, <3>1
    <3> QED
      BY <3>1, <3>2, <3>3
  <2> QED
    BY <2>1, <2>2
<1>10. Off <= n + Len(d)
  BY <1>1, <1>3, <1>6
<1> QED
  BY <1>4, <1>7, <1>8, <1>9, <1>10 DEF Holds, n, d

LEMMA WriterOnDisk ==
  Inv /\ Tidy /\ Numbered /\ Content /\ OnDisk /\ WriterTask => OnDisk'
<1> SUFFICES ASSUME Inv, Tidy, Numbered, Content, OnDisk, WriterTask PROVE OnDisk'
  OBVIOUS
<1>q. /\ hashed \in Seq(Unit) /\ diskCh \in Seq([blk : Nat, frame : Frames]) /\ blockIndex \in Nat
      /\ disk \in Seq(Unit) \cup {NoFile} /\ prior \in Seq(Unit) \cup {NoFile}
      /\ rPc \in ReceiverPcs
  BY DEF Inv, TypeOK, ReaderOK, ReceiverOK, WriterOK, WorldOK
<1>u. UNCHANGED <<rPc, blockIndex, hashed, force, prior, announced>>
  BY DEF WriterTask, WriterOpen, WriterBlock, WriterEnd, WriterFails, receiverVars, readerVars, worldVars
<1>e. UNCHANGED <<Early, Receiving, Off, Resumed, Sound>>
  BY <1>u DEF Early, Receiving, Off, Resumed, Sound, Resumable
<1>w. wrPc \in {"append", "create", "run"}
  BY DEF WriterTask, WriterOpen, WriterBlock, WriterEnd, WriterFails
<1>r. Receiving /\ ~Early
  BY <1>q, <1>w DEF Tidy, Early, Receiving, ReceiverPcs, ReceiverLoop
<1>o. Off \in Nat /\ (Resumed => prior \in Seq(Unit) /\ Len(prior) \in 1..(Size - 1))
      /\ (Resumed /\ Sound => Off = Len(prior))
  BY <1>q, OffIsBoundary
<1>t. Taken \in Nat /\ \A i \in 1..Len(diskCh) : diskCh[i].blk = Taken + (i - 1)
  BY <1>r DEF OnDisk
<1>n. Len(diskCh) \in Nat
  BY <1>q
<1>1. CASE WriterOpen
  <2>1. wrPc \in {"append", "create"} /\ wrPc' = "run" /\ diskCh' = diskCh
        /\ disk' = (IF wrPc = "create" THEN <<>> ELSE disk)
    BY <1>1 DEF WriterOpen
  <2>2. Taken' = Taken /\ Taken * Block = Off
    BY <1>r, <1>u, <2>1 DEF Taken, OnDisk
  <2>3. ASSUME Sound PROVE Holds(Smaller(Taken * Block, Size))'
    <3>1. Smaller(Taken * Block, Size)' = Off
      <4>1. Off <= Size
        <5>1. CASE Resumed
          BY <1>o, <2>3, <5>1, SizeAssumption
        <5>2. CASE ~Resumed
          BY <5>2, SizeAssumption DEF Off
        <5> QED
          BY <5>1, <5>2
      <4> QED
        BY <1>o, <2>2, <4>1, SizeAssumption DEF Smaller
    <3>2. CASE wrPc = "append"
      <4>1. Resumed /\ disk' = prior /\ prior \in Seq(Unit) /\ Len(prior) = Off
        BY <1>o, <1>r, <2>1, <2>3, <3>2 DEF OnDisk
      <4>2. disk' # NoFile
        BY <4>1, FilesExist
      <4>3. \A j \in 1..Off : j <= Off
        BY <1>o
      <4>4. Off' = Off /\ prior' = prior /\ Off <= Off
        BY <1>e, <1>o, <1>u
      <4> QED
        BY <3>1, <4>1, <4>2, <4>3, <4>4 DEF Holds
    <3>3. CASE wrPc = "create"
      <4>1. Off = 0 /\ disk' = <<>>
        BY <1>r, <2>1, <3>3 DEF OnDisk, Off
      <4>2. disk' # NoFile /\ Len(disk') = 0
        <5>1. <<>> \in Seq(Unit)
          OBVIOUS
        <5> QED
          BY <4>1, <5>1, FilesExist
      <4> QED
        BY <1>e, <3>1, <4>1, <4>2 DEF Holds
    <3> QED
      BY <2>1, <3>2, <3>3
  <2> QED
    BY <1>e, <1>r, <1>t, <2>1, <2>2, <2>3 DEF OnDisk
<1>2. CASE WriterBlock
  <2> DEFINE job == Head(diskCh)
  <2>1. wrPc = "run" /\ diskCh # <<>> /\ diskCh' = Tail(diskCh) /\ wrPc' \in {"run", "failed"}
        /\ (wrPc' = "run" => disk' = disk \o job.frame.data)
    BY <1>2 DEF WriterBlock
  <2>0. Len(diskCh) # 0
    BY <1>q, <2>1, EmptySeq
  <2>2. 1 \in 1..Len(diskCh) /\ job = diskCh[1] /\ Len(diskCh') = Len(diskCh) - 1
        /\ \A i \in 1..Len(diskCh') : diskCh'[i] = diskCh[i + 1]
    BY <1>q, <1>n, <2>0, <2>1, HeadTailProperties
  <2>3. Taken' = Taken + 1
    BY <1>q, <1>n, <1>u, <2>2 DEF Taken
  <2>4. ASSUME NEW i \in 1..Len(diskCh') PROVE diskCh'[i].blk = Taken' + (i - 1)
    <3>1. i + 1 \in 1..Len(diskCh) /\ diskCh'[i] = diskCh[i + 1]
      BY <1>n, <2>2
    <3>2. diskCh[i + 1].blk = Taken + ((i + 1) - 1)
      BY <1>t, <3>1
    <3> QED
      BY <1>n, <1>t, <2>2, <2>3, <3>1, <3>2
  <2>5. ASSUME Sound, wrPc' = "run" PROVE Holds(Smaller(Taken * Block, Size))'
    <3>1. Holds(Smaller(Taken * Block, Size))
      BY <1>r, <2>1, <2>5 DEF OnDisk
    <3>2. job.frame \in Frames
      <4>1. diskCh[1] \in [blk : Nat, frame : Frames]
        BY <1>q, <2>2, ElementOfSeq
      <4> QED
        BY <2>2, <4>1
    <3>3. job.frame.num = Taken
      BY <1>t, <2>2 DEF Numbered, CountersAgree
    <3>4. Piece(hashed, job.frame)
      BY <2>2 DEF Content, JobPieces
    <3>5. disk \in Seq(Unit)
      BY <1>q, <3>1 DEF Holds
    <3> DEFINE t == Taken
               f == job.frame
    <3>6. t \in Nat /\ f \in Frames /\ f.num = t /\ Piece(hashed, f) /\ Holds(Smaller(t * Block, Size))
          /\ disk' = disk \o f.data
      BY <1>t, <2>1, <2>5, <3>1, <3>2, <3>3, <3>4
    <3> HIDE DEF t, f
    <3>7. \A k \in Nat, g \in Frames : k = t /\ g = f => Holds(Smaller((k + 1) * Block, Size))'
      BY <1>e, <1>o, <1>q, <1>u, <3>5, <3>6, HoldsBlock
    <3>8. PICK k \in Nat : k = t
      BY <3>6
    <3>9. Holds(Smaller((k + 1) * Block, Size))' /\ Taken' = k + 1
      <4>1. PICK g \in Frames : g = f
        BY <3>6
      <4> QED
        BY <2>3, <3>7, <3>8, <4>1 DEF t
    <3> QED
      BY <3>9 DEF Holds
  <2> QED
    BY <1>e, <1>r, <1>t, <2>1, <2>3, <2>4, <2>5 DEF OnDisk
<1>3. CASE WriterEnd
  <2>1. wrPc = "run" /\ diskCh = <<>> /\ diskCh' = <<>> /\ disk' = disk /\ wrPc' = "ok" /\ rPc \notin ReceiverLoop
    BY <1>3 DEF WriterEnd
  <2>2. Taken' = Taken
    BY <1>u, <2>1 DEF Taken
  <2> QED
    BY <1>e, <1>r, <1>t, <1>u, <2>1, <2>2 DEF OnDisk, Holds
<1>4. CASE WriterFails
  <2>1. diskCh' = <<>> /\ wrPc' = "failed"
    BY <1>4 DEF WriterFails
  <2>2. Taken' = blockIndex /\ Len(diskCh') = 0
    BY <1>q, <1>u, <2>1 DEF Taken
  <2> QED
    BY <1>e, <1>q, <1>r, <2>1, <2>2 DEF OnDisk
<1> QED
  BY <1>1, <1>2, <1>3, <1>4 DEF WriterTask

LEMMA ReceiverOnDisk ==
  Inv /\ Tidy /\ OnDisk /\ (ReceiverStep \/ Reject \/ Approve) => OnDisk'
<1> SUFFICES ASSUME Inv, Tidy, OnDisk, ReceiverStep \/ Reject \/ Approve PROVE OnDisk'
  OBVIOUS
<1>q. /\ diskCh \in Seq([blk : Nat, frame : Frames]) /\ blockIndex \in Nat /\ rHeld \in Frames
      /\ disk \in Seq(Unit) \cup {NoFile} /\ prior \in Seq(Unit) \cup {NoFile}
  BY DEF Inv, TypeOK, ReceiverOK, WriterOK, WorldOK
<1>u. UNCHANGED <<hashed, force, prior, announced>>
  BY Zenon DEF ReceiverStep, AnswerHello, ReceiveMetadata, IncomingFails, Reject, Approve, Accept,
     PassReceiverGate, ReadChunk, Forward, CancelReceive, ReadLast, ReadFails, ForwardFails,
     AfterLoop, Discard, VerifyGood, VerifyBad, VerifyFails, readerVars, worldVars
<1>e. UNCHANGED <<Off, Resumed, Sound>>
  BY <1>u DEF Off, Resumed, Sound, Resumable
<1>1. CASE AnswerHello \/ ReceiveMetadata \/ Approve
  <2>1. Early /\ Early' /\ ~Receiving' /\ UNCHANGED <<wrPc, diskCh>>
    BY <1>1 DEF AnswerHello, ReceiveMetadata, Approve, Early, Receiving, ReceiverLoop, writerVars
  <2> QED
    BY <2>1 DEF OnDisk, Tidy
<1>2. CASE IncomingFails \/ Reject \/ Discard \/ VerifyGood \/ VerifyBad \/ VerifyFails
  <2>1. rPc' = "done" /\ UNCHANGED <<wrPc, diskCh>>
    BY <1>2 DEF IncomingFails, Reject, Discard, VerifyGood, VerifyBad, VerifyFails, ReceiverReturns,
       writerVars
  <2> QED
    BY <2>1 DEF OnDisk, Early, Receiving, ReceiverLoop
<1>3. CASE PassReceiverGate \/ ReadChunk \/ CancelReceive \/ ReadLast \/ ReadFails \/ ForwardFails
  <2>1. rPc \in ReceiverLoop /\ Receiving' /\ ~Early' /\ (rPc' \in ReceiverLoop \/ rPc' = "drain")
        /\ UNCHANGED <<wrPc, diskCh, disk, blockIndex>>
    BY <1>3 DEF PassReceiverGate, ReadChunk, CancelReceive, ReadLast, ReadFails, ForwardFails,
       AfterLoop, Receiving, ReceiverLoop, Early, writerVars
  <2>2. Receiving /\ Taken' = Taken
    BY <2>1 DEF Receiving, Taken
  <2> QED
    BY <1>e, <1>u, <2>1, <2>2 DEF OnDisk, Holds
<1>4. CASE Forward
  <2> DEFINE job == [blk |-> blockIndex, frame |-> rHeld]
  <2>1. rPc = "forward" /\ rPc' = "gate" /\ diskCh' = Append(diskCh, job) /\ blockIndex' = blockIndex + 1
        /\ UNCHANGED <<wrPc, disk>>
    BY <1>4 DEF Forward
  <2>2. Receiving /\ ~Early' /\ wrPc # "ok"
    BY <2>1 DEF Receiving, ReceiverLoop, Early, OnDisk
  <2>3. job \in [blk : Nat, frame : Frames] /\ job.blk = blockIndex
    BY <1>q
  <2> HIDE DEF job
  <2>4. Len(diskCh) \in Nat /\ Len(diskCh') = Len(diskCh) + 1 /\ diskCh'[Len(diskCh) + 1] = job
        /\ \A i \in 1..Len(diskCh) : diskCh'[i] = diskCh[i]
    <3>1. diskCh \in Seq([blk : Nat, frame : Frames])
      BY <1>q
    <3>2. diskCh' = Append(diskCh, job)
      BY <2>1
    <3>3. /\ Len(diskCh) \in Nat /\ Len(Append(diskCh, job)) = Len(diskCh) + 1
          /\ Append(diskCh, job)[Len(diskCh) + 1] = job
          /\ \A i \in 1..Len(diskCh) : Append(diskCh, job)[i] = diskCh[i]
      BY <2>3, <3>1, AppendProperties
    <3> QED
      BY <3>2, <3>3
  <2>5. Taken \in Nat /\ Taken' = Taken /\ blockIndex = Taken + Len(diskCh)
    <3>1. Taken \in Nat
      BY <2>2 DEF OnDisk
    <3>2. blockIndex \in Nat
      BY <1>q
    <3> QED
      BY <2>1, <2>4, <3>1, <3>2 DEF Taken
  <2>6. ASSUME NEW i \in 1..Len(diskCh') PROVE diskCh'[i].blk = Taken + (i - 1)
    <3>1. CASE i \in 1..Len(diskCh)
      BY <2>2, <2>4, <3>1 DEF OnDisk
    <3>2. CASE i \notin 1..Len(diskCh)
      <4>1. i = Len(diskCh) + 1 /\ i - 1 = Len(diskCh)
        BY <2>4, <3>2
      <4> QED
        BY <2>3, <2>4, <2>5, <4>1
    <3> QED
      BY <3>1, <3>2
  <2> QED
    BY <1>e, <1>u, <2>1, <2>2, <2>5, <2>6 DEF OnDisk, Holds
<1>5. CASE Accept
  <2>1. rPc = "accept" /\ rPc' = "gate" /\ blockIndex' = ResumeOffset \div Block
        /\ wrPc' = (IF IsResume THEN "append" ELSE "create") /\ UNCHANGED <<diskCh, disk>>
    BY <1>5 DEF Accept
  <2>2. disk = prior /\ diskCh = <<>>
    BY <2>1 DEF Tidy, OnDisk, Early
  <2>3. IsResume = Resumed
    <3>1. FileLen \in Nat /\ (prior # NoFile => FileLen = Len(prior))
          /\ (prior = NoFile => FileLen = 0)
      BY <1>q, <2>2 DEF FileLen
    <3> QED
      BY <3>1, SizeAssumption DEF IsResume, Resumed
  <2>4. ResumeOffset = Off
    BY <2>2, <2>3 DEF ResumeOffset, Off, Resumed, FileLen
  <2>5. Off \in Nat /\ (Off \div Block) * Block = Off
    BY <1>q, OffIsBoundary DEF Boundary
  <2>6. Off \div Block \in Nat
    BY <2>5, SizeAssumption, Z3
  <2>7. Taken' = Off \div Block /\ Len(diskCh') = 0
    <3>1. Len(diskCh') = 0 /\ blockIndex' = Off \div Block
      BY <2>1, <2>2, <2>4
    <3> QED
      BY <2>6, <3>1 DEF Taken
  <2>8. ~Early' /\ wrPc' \in {"append", "create"}
    BY <2>1 DEF Early
  <2> QED
    BY <1>e, <1>u, <2>1, <2>2, <2>3, <2>5, <2>6, <2>7, <2>8 DEF OnDisk
<1> QED
  BY <1>1, <1>2, <1>3, <1>4, <1>5 DEF ReceiverStep

\* The file grows by the blocks that were hashed, in order.
LEMMA StepOnDisk ==
  Inv /\ Tidy /\ Numbered /\ Content /\ OnDisk /\ [Next]_vars => OnDisk'
<1> SUFFICES ASSUME Inv, Tidy, Numbered, Content, OnDisk, [Next]_vars PROVE OnDisk'
  OBVIOUS
<1>1. CASE Connect
  BY <1>1 DEF Connect, OnDisk, Early, Receiving, ReceiverLoop
<1>2. CASE LoseFrames \/ UserStep \/ UNCHANGED vars
  <2>1. UNCHANGED <<rPc, blockIndex, diskCh, wrPc, disk, hashed, force, prior, announced>>
    BY <1>2 DEF LoseFrames, UserStep, PauseSender, ResumeSender, CancelSender, PauseReceiver,
       ResumeReceiver, CancelReceiver, EditSource, vars, readerVars, receiverVars, writerVars, worldVars
  <2> QED
    BY <2>1, OnDiskUnchanged
<1>3. CASE SenderStep
  <2>1. UNCHANGED <<receiverVars, writerVars, hashed, force, prior>>
    BY <1>3 DEF SenderStep, SendMetadata, ReceiveAccept, HandshakeFails, MetadataFails, PassGate, Dequeue, SendChunk,
       CancelSend, SendFailsInLoop, LeaveLoop, SendAbort, EndLoop, SendComplete, CompletionFails,
       ReceiveAck, readerVars, worldVars
  <2>2. Receiving => ~SendMetadata
    BY DEF SendMetadata, Inv, Accord, Asked, MetadataSent, Receiving, ReceiverLoop
  <2>3. ~SendMetadata => UNCHANGED announced
    BY <1>3 DEF SenderStep, ReceiveAccept, HandshakeFails, MetadataFails, PassGate, Dequeue, SendChunk,
       CancelSend, SendFailsInLoop, LeaveLoop, SendAbort, EndLoop, SendComplete, CompletionFails,
       ReceiveAck, worldVars
  <2> QED
    BY <2>1, <2>2, <2>3, OnDiskUnchanged DEF receiverVars, writerVars
<1>4. CASE ReaderTask
  <2>1. UNCHANGED <<rPc, blockIndex, diskCh, wrPc, disk, force, prior, announced>>
    BY <1>4 DEF ReaderTask, ReaderOpen, ReaderBlock, ReaderEnd, ReaderFails, receiverVars, writerVars,
       worldVars
  <2>2. UNCHANGED <<Early, Receiving, Taken, Off, Resumed, Sound>>
    BY <2>1 DEF Early, Receiving, Taken, Off, Resumed, Sound, Resumable
  <2>3. hashed \in Seq(Unit) /\ hashed' \in Seq(Unit) /\ Len(hashed) <= Len(hashed')
        /\ \A j \in 1..Len(hashed) : hashed'[j] = hashed[j]
    BY <1>4, ReaderHashes DEF Inv, TypeOK, ReaderOK
  <2>4. \A j \in Nat \ {0} : j <= Len(hashed) => j <= Len(hashed') /\ hashed'[j] = hashed[j]
    BY <2>3
  <2>5. Holds(Smaller(Taken * Block, Size)) => Holds(Smaller(Taken * Block, Size))'
    <3> SUFFICES ASSUME Holds(Smaller(Taken * Block, Size)) PROVE Holds(Smaller(Taken * Block, Size))'
      OBVIOUS
    <3> DEFINE n == Smaller(Taken * Block, Size)
    <3>1. \A j \in 1..n : j \in Nat \ {0}
      OBVIOUS
    <3> HIDE DEF n
    <3>2. \A j \in 1..n : IF j <= Off THEN disk[j] = prior[j] ELSE j <= Len(hashed') /\ disk[j] = hashed'[j]
      BY <2>4, <3>1 DEF Holds, n
    <3> QED
      BY <2>1, <2>2, <3>2 DEF Holds, n
  <2> QED
    BY <2>1, <2>2, <2>5 DEF OnDisk
<1>5. CASE ReceiverCrash
  BY <1>5 DEF ReceiverCrash, ReceiverReturns, OnDisk, Early, Receiving, ReceiverLoop
<1> QED
  BY <1>1, <1>2, <1>3, <1>4, <1>5, ReceiverOnDisk, WriterOnDisk DEF Next, UserStep, PeerReset, Break

\* Nothing that Ending says of the end is there before COMPLETE goes out.
LEMMA NoEndYet ==
  ASSUME Ending, sPc \notin {"ack", "done"} \/ rdPc # "ok"
  PROVE  /\ \A i \in 1..Len(toR) : toR[i].tag # "complete"
         /\ ~(rPc = "drain" /\ reason = "complete") /\ rResult # "mismatch"
  BY DEF Ending

LEMMA SenderEnding ==
  Inv /\ Numbered /\ Ending /\ SenderStep => Ending'
<1> SUFFICES ASSUME Inv, Numbered, Ending, SenderStep PROVE Ending'
  OBVIOUS
<1>q. toR \in Seq(Frames) /\ dataCh \in Seq(Frames) /\ sHeld \in Frames /\ blockIndex \in Nat
  BY DEF Inv, TypeOK, NetOK, ReaderOK, SenderOK, ReceiverOK
<1>n. Len(toR) \in Nat /\ Len(dataCh) \in Nat
  BY <1>q
<1>m. Expected \in Nat
  BY <1>q DEF Expected
<1>u. UNCHANGED <<rPc, blockIndex, reason, rResult, hashed, rdNext, force, prior>>
  BY DEF SenderStep, SendMetadata, ReceiveAccept, HandshakeFails, MetadataFails, PassGate, Dequeue, SendChunk,
     CancelSend, SendFailsInLoop, LeaveLoop, SendAbort, EndLoop, SendComplete, CompletionFails,
     ReceiveAck, receiverVars, readerVars, worldVars
<1>e. UNCHANGED <<Early, Expected, Resumed>>
  BY <1>u DEF Early, Expected, Resumed
<1>a. ~SendMetadata => UNCHANGED announced
  BY DEF SenderStep, ReceiveAccept, HandshakeFails, MetadataFails, PassGate, Dequeue, SendChunk, CancelSend,
     SendFailsInLoop, LeaveLoop, SendAbort, EndLoop, SendComplete, CompletionFails, ReceiveAck, worldVars
\* What a step that is not the end of the transfer keeps.
<1>k. ASSUME sPc \notin {"ack", "done"},
             toR' = toR \/ \E f \in Frames : f.tag # "complete" /\ toR' = Append(toR, f)
      PROVE  /\ \A i \in 1..Len(toR') : toR'[i].tag # "complete"
             /\ ~(rPc' = "drain" /\ reason' = "complete") /\ rResult' # "mismatch"
             /\ MismatchExplained' /\ ~Carries(toR', "complete")
  <2>1. \A i \in 1..Len(toR) : toR[i].tag # "complete"
    BY <1>k, NoEndYet
  <2>2. \A i \in 1..Len(toR') : toR'[i].tag # "complete"
    <3>1. ASSUME NEW f \in Frames, f.tag # "complete", toR' = Append(toR, f)
          PROVE  \A i \in 1..Len(toR') : toR'[i].tag # "complete"
      <4>1. Len(toR') = Len(toR) + 1 /\ toR'[Len(toR) + 1] = f /\ \A i \in 1..Len(toR) : toR'[i] = toR[i]
        BY <1>q, <3>1, AppendProperties
      <4>2. \A i \in 1..Len(toR') : i \in 1..Len(toR) \/ i = Len(toR) + 1
        BY <1>n, <4>1
      <4> QED
        BY <2>1, <3>1, <4>1, <4>2
    <3> QED
      BY <1>k, <2>1, <3>1
  <2>3. ~(rPc' = "drain" /\ reason' = "complete") /\ rResult' # "mismatch"
    BY <1>k, <1>u, NoEndYet
  <2> QED
    BY <2>2, <2>3 DEF MismatchExplained, Carries
<1>s. \A tag \in Tags : Signal(tag) \in Frames /\ Signal(tag).tag = tag
  BY SignalsAreFrames, SignalTags
<1>1. CASE SendMetadata \/ ReceiveAccept \/ HandshakeFails \/ MetadataFails
  <2>1. sPc \notin {"ack", "done"} /\ sPc' \in {"await", "gate", "done"} /\ UNCHANGED dataCh
        /\ (sPc' = "gate" => rdPc' = "opening")
    BY <1>1 DEF SendMetadata, ReceiveAccept, HandshakeFails, MetadataFails, SenderReturns, readerVars
  <2>2. toR' = toR \/ \E f \in Frames : f.tag # "complete" /\ toR' = Append(toR, f)
    BY <1>1, <1>s DEF SendMetadata, ReceiveAccept, HandshakeFails, MetadataFails, netVars, Tags
  <2> QED
    BY <1>k, <2>1, <2>2 DEF Ending, SenderLoop
<1>2. CASE PassGate
  <2>1. sPc = "gate" /\ sPc' = "dequeue" /\ UNCHANGED <<dataCh, rdPc, toR, link>>
    BY <1>2 DEF PassGate, readerVars, netVars
  <2>2. Following' = Following
    BY <1>e, <2>1 DEF Following
  <2> QED
    BY <1>e, <1>k, <1>u, <2>1, <2>2 DEF Ending, SenderLoop
<1>3. CASE Dequeue
  <2>1. sPc = "dequeue" /\ sPc' = "send" /\ dataCh # <<>> /\ sHeld' = Head(dataCh)
        /\ dataCh' = Tail(dataCh) /\ UNCHANGED <<toR, link, rdPc>>
    BY <1>3 DEF Dequeue, netVars
  <2>0. Len(dataCh) # 0
    BY <1>q, <2>1, EmptySeq
  <2>2. 1 \in 1..Len(dataCh) /\ Head(dataCh) = dataCh[1] /\ Len(dataCh') = Len(dataCh) - 1
        /\ \A i \in 1..Len(dataCh') : dataCh'[i] = dataCh[i + 1]
    BY <1>q, <1>n, <2>0, <2>1, HeadTailProperties
  <2>3. \A i \in 1..Len(dataCh') : i + 1 \in 1..Len(dataCh)
    BY <1>n, <2>2
  <2>4. Following' + Len(dataCh') = Following + Len(dataCh)
    BY <1>e, <1>m, <1>n, <2>1, <2>2 DEF Following
  <2>5. (\A i \in 1..Len(dataCh') : dataCh'[i].tag = "chunk") /\ sHeld'.tag = "chunk"
    BY <2>1, <2>2, <2>3 DEF Ending
  <2> QED
    BY <1>e, <1>k, <1>u, <2>1, <2>4, <2>5 DEF Ending, SenderLoop
<1>4. CASE SendChunk
  <2>1. sPc = "send" /\ sPc' = "gate" /\ toR' = Append(toR, sHeld) /\ link = "up"
        /\ UNCHANGED <<dataCh, rdPc, link>>
    BY <1>4 DEF SendChunk, readerVars, CanSend
  <2>2. sHeld.tag # "complete"
    BY <2>1 DEF Ending
  <2>3. Len(toR') = Len(toR) + 1
    BY <1>q, <2>1
  <2>4. Following' = Following
    BY <1>e, <1>m, <1>n, <2>1, <2>3 DEF Following
  <2> QED
    BY <1>e, <1>k, <1>q, <1>u, <2>1, <2>2, <2>4 DEF Ending, SenderLoop
<1>5. CASE CancelSend \/ SendFailsInLoop \/ SendAbort
  <2>1. sPc \notin {"ack", "done"} /\ sPc' \in {"abort", "done"} /\ UNCHANGED <<dataCh, rdPc>>
    BY <1>5 DEF CancelSend, SendFailsInLoop, LeaveLoop, SendAbort, SenderReturns, readerVars
  <2>2. toR' = toR \/ \E f \in Frames : f.tag # "complete" /\ toR' = Append(toR, f)
    BY <1>5, <1>s DEF CancelSend, SendFailsInLoop, LeaveLoop, SendAbort, netVars, Tags
  <2> QED
    BY <1>k, <2>1, <2>2 DEF Ending, SenderLoop
<1>6. CASE EndLoop
  <2>1. sPc = "dequeue" /\ sPc' = "join" /\ dataCh = <<>> /\ rdPc \in {"ok", "failed"}
        /\ UNCHANGED <<dataCh, rdPc, toR, link>>
    BY <1>6 DEF EndLoop, readerVars, netVars
  <2>2. Following' = Following /\ Following \in Nat
    BY <1>e, <1>m, <1>n, <2>1 DEF Following
  <2>3. Following + Len(dataCh) = Following
    BY <2>1, <2>2
  <2>4. rdPc = "ok" => rdNext >= Size
    BY <2>1 DEF Ending, SenderLoop
  <2>5. rPc \in ReceiverLoop /\ link = "up" /\ rdPc = "ok" => Following * Block >= Size
    BY <2>1, <2>3, <2>4 DEF Ending, SenderLoop
  <2> QED
    BY <1>k, <1>u, <2>1, <2>2, <2>4, <2>5 DEF Ending, SenderLoop
<1>7. CASE SendComplete
  <2>1. sPc = "join" /\ sPc' = "ack" /\ rdPc = "ok" /\ link = "up" /\ toR' = Append(toR, Signal("complete"))
        /\ UNCHANGED <<dataCh, rdPc>>
    BY <1>7 DEF SendComplete, CanSend, readerVars
  <2>2. Len(toR') = Len(toR) + 1 /\ \A i \in 1..Len(toR) : toR'[i] = toR[i]
    BY <1>q, <1>s, <2>1, AppendProperties DEF Tags
  <2>3. \A i \in 1..Len(toR') : i \in 1..Len(toR) \/ i - 1 = Len(toR)
    BY <1>n, <2>2
  <2>4. rPc \in ReceiverLoop => (Expected + Len(toR)) * Block >= Size
    <3>1. Following = Expected + Len(toR)
      BY <1>m, <1>n, <2>1 DEF Following
    <3> QED
      BY <2>1, <3>1 DEF Ending
  <2>5. ~Early
    BY <2>1 DEF Numbered, Handshake
  <2>6. (\A i \in 1..Len(toR) : toR[i].tag # "complete")
        /\ ~(rPc = "drain" /\ reason = "complete") /\ rResult # "mismatch"
    BY <2>1, NoEndYet
  <2>7. ASSUME NEW i \in 1..Len(toR'), toR'[i].tag = "complete", rPc \in ReceiverLoop
        PROVE  (Expected + (i - 1)) * Block >= Size
    BY <2>2, <2>3, <2>4, <2>6, <2>7
  <2> QED
    BY <1>e, <1>u, <2>1, <2>5, <2>6, <2>7 DEF Ending, SenderLoop, MismatchExplained
<1>8. CASE CompletionFails \/ ReceiveAck
  <2>1. sPc' = "done" /\ UNCHANGED <<dataCh, rdPc, toR>>
    BY <1>8 DEF CompletionFails, ReceiveAck, SenderReturns, readerVars, netVars
  <2>2. ~SendMetadata
    BY <1>8 DEF CompletionFails, ReceiveAck, SendMetadata
  <2>3. MismatchExplained'
    BY <1>a, <1>e, <1>u, <2>2 DEF Ending, MismatchExplained, Resumable
  <2> QED
    BY <1>e, <1>u, <2>1, <2>3 DEF Ending, SenderLoop
<1> QED
  BY <1>1, <1>2, <1>3, <1>4, <1>5, <1>6, <1>7, <1>8 DEF SenderStep

LEMMA ReaderEnding ==
  Inv /\ Numbered /\ Content /\ Ending /\ ReaderTask => Ending'
<1> SUFFICES ASSUME Inv, Numbered, Content, Ending, ReaderTask PROVE Ending'
  OBVIOUS
<1>q. toR \in Seq(Frames) /\ dataCh \in Seq(Frames) /\ blockIndex \in Nat /\ rdNext \in 0..Size
      /\ source \in [1..Size -> Unit]
  BY DEF Inv, TypeOK, NetOK, ReaderOK, ReceiverOK, WorldOK
<1>n. Len(toR) \in Nat /\ Len(dataCh) \in Nat
  BY <1>q
<1>m. Expected \in Nat
  BY <1>q DEF Expected
<1>f. Following \in Nat
  BY <1>m, <1>n DEF Following
<1>u. UNCHANGED <<sPc, sHeld, toR, link, rPc, blockIndex, reason, rResult>>
  BY DEF ReaderTask, ReaderOpen, ReaderBlock, ReaderEnd, ReaderFails, senderVars, netVars, receiverVars
<1>e. UNCHANGED <<Early, Following>>
  BY <1>u DEF Early, Following, Expected
<1>r. rdPc \in {"opening", "run"} /\ rdPc' \in {"run", "ok", "failed"}
  BY DEF ReaderTask, ReaderOpen, ReaderBlock, ReaderEnd, ReaderFails
<1>k. /\ \A i \in 1..Len(toR) : toR[i].tag # "complete"
      /\ ~(rPc = "drain" /\ reason = "complete") /\ rResult # "mismatch" /\ sPc # "join"
  <2>1. rdPc # "ok" /\ rdPc \notin {"ok", "failed"}
    BY <1>r
  <2> QED
    BY <2>1, NoEndYet DEF Ending
<1>1. ASSUME /\ \A i \in 1..Len(dataCh') : dataCh'[i].tag = "chunk"
             /\ sPc \in SenderLoop /\ rdPc' = "ok" => rdNext' >= Size
             /\ rPc \in ReceiverLoop /\ link = "up" /\ sPc \in SenderLoop /\ rdPc' \in {"run", "ok"}
                  /\ rdNext' >= Size => (Following + Len(dataCh')) * Block >= Size
      PROVE  Ending'
  BY <1>1, <1>e, <1>k, <1>u DEF Ending, MismatchExplained, SenderLoop
<1>2. CASE ReaderOpen
  <2>1. rdPc = "opening" /\ rdPc' = "run" /\ rdNext' = start /\ dataCh' = dataCh
    BY <1>2 DEF ReaderOpen
  <2>2. rPc \in ReceiverLoop /\ link = "up" /\ sPc \in SenderLoop
          => start = Following * Block /\ Following + Len(dataCh) = Following
    <3>1. rPc \in ReceiverLoop /\ link = "up" /\ sPc \in SenderLoop
          => start = Following * Block /\ dataCh = <<>>
      BY <2>1 DEF Numbered, LeavesInOrder
    <3> QED
      BY <1>f, <3>1
  <2> QED
    BY <1>1, <2>1, <2>2 DEF Ending
<1>3. CASE ReaderBlock
  <2> DEFINE f == Frame("chunk", rdNext \div Block, BlockAt(rdNext))
             n == Following + Len(dataCh)
  <2>1. rdPc = "run" /\ rdPc' = rdPc /\ rdNext < Size /\ dataCh' = Append(dataCh, f)
        /\ rdNext' = Smaller(rdNext + Block, Size)
    BY <1>3 DEF ReaderBlock
  <2>2. f \in Frames /\ f.tag = "chunk"
    <3>1. rdNext \div Block \in 0..Size
      BY <1>q, RoundedDown
    <3>2. BlockAt(rdNext) \in Seq(Unit)
      BY <1>q, <2>1, BlockType
    <3> QED
      BY <3>1, <3>2, FramesAreFrames DEF Tags, Frame
  <2> HIDE DEF f
  <2>3. Len(dataCh') = Len(dataCh) + 1 /\ dataCh'[Len(dataCh) + 1] = f
        /\ \A i \in 1..Len(dataCh) : dataCh'[i] = dataCh[i]
    BY <1>q, <2>1, <2>2, AppendProperties
  <2>4. \A i \in 1..Len(dataCh') : i \in 1..Len(dataCh) \/ i = Len(dataCh) + 1
    BY <1>n, <2>3
  <2>5. \A i \in 1..Len(dataCh') : dataCh'[i].tag = "chunk"
    BY <2>2, <2>3, <2>4 DEF Ending
  <2>6. n \in Nat /\ Following + Len(dataCh') = n + 1
    BY <1>f, <1>n, <2>3
  <2>7. rPc \in ReceiverLoop /\ link = "up" /\ sPc \in SenderLoop => rdNext = n * Block
    BY <2>1 DEF Numbered, LeavesInOrder
  <2> HIDE DEF n
  <2>8. n * Block \in Nat /\ (n + 1) * Block = n * Block + Block
    BY <2>6, SizeAssumption, Z3
  <2>9. rPc \in ReceiverLoop /\ link = "up" /\ sPc \in SenderLoop /\ rdNext' >= Size
          => (n + 1) * Block >= Size
    <3>1. \A m \in Nat : Smaller(m + Block, Size) >= Size => m + Block >= Size
      BY SizeAssumption DEF Smaller
    <3> QED
      BY <2>1, <2>7, <2>8, <3>1
  <2> QED
    BY <1>1, <2>1, <2>5, <2>6, <2>9
<1>4. CASE ReaderEnd
  <2>1. rdPc = "run" /\ rdPc' = "ok" /\ (rdNext >= Size \/ sPc \notin SenderLoop) /\ UNCHANGED <<rdNext, dataCh>>
    BY <1>4 DEF ReaderEnd, SenderLoop
  <2> QED
    BY <1>1, <2>1 DEF Ending
<1>5. CASE ReaderFails
  <2>1. rdPc' = "failed" /\ UNCHANGED dataCh
    BY <1>5 DEF ReaderFails
  <2> QED
    BY <1>1, <2>1 DEF Ending
<1> QED
  BY <1>2, <1>3, <1>4, <1>5 DEF ReaderTask

\* Every block has arrived and was hashed as announced: the checksum agrees.
LEMMA ChecksumAgrees ==
  ASSUME Inv, OnDisk, Ending, rPc = "drain", reason = "complete", wrPc = "ok", hashed = announced, Sound
  PROVE  disk = announced
<1>q. /\ announced \in [1..Size -> Unit] /\ prior \in Seq(Unit) \cup {NoFile} /\ blockIndex \in Nat
      /\ disk \in Seq(Unit) \cup {NoFile}
  BY DEF Inv, TypeOK, WorldOK, WriterOK, ReceiverOK
<1>1. announced \in Seq(Unit) /\ Len(announced) = Size
  BY <1>q, FileIsASequence
<1>2. Taken = blockIndex
  <2>1. diskCh = <<>> /\ Len(<<>>) = 0
    BY DEF OnDisk
  <2> QED
    BY <1>q, <2>1 DEF Taken
<1>3. Holds(Size)
  <2>1. blockIndex * Block \in Nat /\ blockIndex * Block >= Size
    <3>1. blockIndex * Block \in Nat
      BY <1>q, SizeAssumption, Z3
    <3> QED
      BY <3>1 DEF Ending
  <2>2. Smaller(Taken * Block, Size) = Size
    BY <1>2, <2>1, SizeAssumption DEF Smaller
  <2> QED
    BY <2>2 DEF OnDisk, Receiving
<1>4. disk \in Seq(Unit) /\ Len(disk) = Size
  BY <1>3, <1>q DEF Holds
<1>5. ASSUME NEW j \in 1..Size PROVE disk[j] = announced[j]
  <2>1. CASE j <= Off
    <3>1. Resumed
      BY <2>1, <1>5, SizeAssumption DEF Off
    <3>2. prior \in Prefixes(announced) /\ Off <= Len(prior) /\ Off \in Nat /\ prior \in Seq(Unit)
      BY <1>q, <3>1, OffIsBoundary DEF Sound, Resumable
    <3>3. Len(prior) \in Nat /\ \A i \in 1..Len(prior) : prior[i] = announced[i]
      BY <1>1, <3>2, PrefixesType
    <3>4. j \in 1..Len(prior)
      BY <1>5, <2>1, <3>2, <3>3, SizeAssumption
    <3> QED
      BY <1>3, <2>1, <3>3, <3>4 DEF Holds
  <2>2. CASE ~(j <= Off)
    BY <1>3, <2>2 DEF Holds
  <2> QED
    BY <2>1, <2>2
<1> QED
  BY <1>1, <1>4, <1>5, SeqEqual

LEMMA ReceiverEnding ==
  Inv /\ Numbered /\ OnDisk /\ Ending /\ (ReceiverStep \/ Reject \/ Approve) => Ending'
<1> SUFFICES ASSUME Inv, Numbered, OnDisk, Ending, ReceiverStep \/ Reject \/ Approve PROVE Ending'
  OBVIOUS
<1>q. toR \in Seq(Frames) /\ blockIndex \in Nat /\ dataCh \in Seq(Frames)
  BY DEF Inv, TypeOK, NetOK, ReceiverOK, ReaderOK
<1>n. Len(toR) \in Nat
  BY <1>q
<1>u. UNCHANGED <<sPc, sHeld, dataCh, rdPc, rdNext, hashed, link, force, prior, announced>>
  <2>1. UNCHANGED <<senderVars, readerVars, worldVars>>
    BY DEF ReceiverStep, AnswerHello, ReceiveMetadata, IncomingFails, Reject, Approve, Accept,
       PassReceiverGate, ReadChunk, Forward, CancelReceive, ReadLast, ReadFails, ForwardFails,
       AfterLoop, Discard, VerifyGood, VerifyBad, VerifyFails
  <2>2. UNCHANGED link
    BY Zenon DEF ReceiverStep, AnswerHello, ReceiveMetadata, IncomingFails, Reject, Approve, Accept,
       PassReceiverGate, ReadChunk, Forward, CancelReceive, ReadLast, ReadFails, ForwardFails,
       AfterLoop, Discard, VerifyGood, VerifyBad, VerifyFails, netVars
  <2> QED
    BY <2>1, <2>2 DEF senderVars, readerVars, worldVars
<1>d. rPc # "done" /\ rResult # "mismatch"
  <2>1. rPc # "done"
    BY DEF ReceiverStep, AnswerHello, ReceiveMetadata, IncomingFails, Reject, Approve, Accept,
       PassReceiverGate, ReadChunk, Forward, CancelReceive, ReadLast, ReadFails, ForwardFails,
       Discard, VerifyGood, VerifyBad, VerifyFails
  <2> QED
    BY <2>1 DEF Ending
<1>t. toR # <<>> => /\ 1 \in 1..Len(toR) /\ Head(toR) = toR[1] /\ Len(Tail(toR)) = Len(toR) - 1
                    /\ \A i \in 1..Len(Tail(toR)) : Tail(toR)[i] = toR[i + 1] /\ i + 1 \in 1..Len(toR)
  <2>1. toR # <<>> => Len(toR) # 0
    BY <1>q, EmptySeq
  <2>2. toR # <<>> => /\ 1 \in 1..Len(toR) /\ Head(toR) = toR[1] /\ Len(Tail(toR)) = Len(toR) - 1
                      /\ \A i \in 1..Len(Tail(toR)) : Tail(toR)[i] = toR[i + 1]
    BY <1>q, <1>n, <2>1, HeadTailProperties
  <2> QED
    BY <1>n, <2>2
<1>c. toR # <<>> => (Carries(Tail(toR), "complete") => Carries(toR, "complete"))
  BY <1>q, CarriesTail
<1>e. ASSUME rResult' # "mismatch" PROVE MismatchExplained'
  BY <1>e DEF MismatchExplained
<1>1. CASE AnswerHello \/ ReceiveMetadata \/ Approve
  <2>1. Early /\ Early' /\ rPc' \notin ReceiverLoop \cup {"drain"} /\ rResult' = rResult
        /\ (toR' = toR \/ (toR # <<>> /\ toR' = Tail(toR)))
    BY <1>1 DEF AnswerHello, ReceiveMetadata, Approve, Early, ReceiverLoop, netVars
  <2>2. ~Carries(toR', "complete")
    BY <1>c, <2>1 DEF Ending
  <2>3. \A i \in 1..Len(toR') : toR'[i].tag # "complete"
    BY <2>2 DEF Carries
  <2> QED
    BY <1>d, <1>e, <1>u, <2>1, <2>2, <2>3 DEF Ending
<1>2. CASE IncomingFails \/ Reject \/ Discard \/ VerifyGood \/ VerifyFails
  <2>1. rPc' = "done" /\ toR' = toR /\ rResult' # "mismatch"
    BY <1>2 DEF IncomingFails, Reject, Discard, VerifyGood, VerifyFails, ReceiverReturns, netVars
  <2> QED
    BY <1>e, <1>u, <2>1 DEF Ending, Early, ReceiverLoop
<1>3. CASE VerifyBad
  <2>1. rPc = "drain" /\ reason = "complete" /\ wrPc = "ok" /\ disk # announced /\ toR' = toR /\ rPc' = "done"
    BY <1>3 DEF VerifyBad, ReceiverReturns
  <2>2. hashed # announced \/ ~Sound
    BY <2>1, ChecksumAgrees
  <2>3. MismatchExplained'
    BY <1>u, <2>2 DEF MismatchExplained, Sound, Resumed, Resumable
  <2>4. sPc \in {"ack", "done"} /\ rdPc = "ok"
    BY <2>1 DEF Ending
  <2> QED
    BY <1>u, <2>1, <2>3, <2>4 DEF Ending, Early, ReceiverLoop
<1>4. CASE Accept
  <2>1. rPc = "accept" /\ rPc' = "gate" /\ UNCHANGED <<toR, rResult>>
    BY <1>4 DEF Accept
  <2>2. ~Carries(toR, "complete") /\ sPc \in {"idle", "hello", "await", "done"}
    BY <2>1 DEF Ending, Early, Numbered, Handshake
  <2>3. \A i \in 1..Len(toR') : toR'[i].tag # "complete"
    BY <2>1, <2>2 DEF Carries
  <2> QED
    BY <1>d, <1>e, <1>u, <2>1, <2>2, <2>3 DEF Ending, Early, SenderLoop
<1>5. CASE PassReceiverGate \/ Forward
  <2>1. rPc \in ReceiverLoop /\ rPc' \in ReceiverLoop /\ ~Early' /\ UNCHANGED <<toR, rResult>>
        /\ Expected' = Expected
    BY <1>5, <1>q DEF PassReceiverGate, Forward, ReceiverLoop, Early, netVars, Expected
  <2>2. Following' = Following
    BY <1>u, <2>1 DEF Following
  <2> QED
    BY <1>d, <1>e, <1>u, <2>1, <2>2 DEF Ending, ReceiverLoop
<1>6. CASE ReadChunk
  <2>1. rPc = "read" /\ rPc' = "forward" /\ toR # <<>> /\ toR' = Tail(toR) /\ UNCHANGED <<blockIndex, rResult>>
    BY <1>6 DEF ReadChunk
  <2>2. Expected = blockIndex /\ Expected' = blockIndex + 1 /\ Following' = Following
    BY <1>n, <1>q, <1>t, <1>u, <2>1 DEF Expected, Following
  <2>3. ASSUME NEW i \in 1..Len(toR'), toR'[i].tag = "complete"
        PROVE  sPc \in {"ack", "done"} /\ rdPc = "ok" /\ (Expected' + (i - 1)) * Block >= Size
    <3>1. i + 1 \in 1..Len(toR) /\ toR[i + 1].tag = "complete" /\ i \in Nat
      BY <1>t, <2>1, <2>3
    <3>2. sPc \in {"ack", "done"} /\ rdPc = "ok" /\ (Expected + ((i + 1) - 1)) * Block >= Size
      BY <2>1, <3>1 DEF Ending, ReceiverLoop
    <3>3. Expected + ((i + 1) - 1) = Expected' + (i - 1)
      BY <1>q, <2>2, <3>1
    <3> QED
      BY <3>2, <3>3
  <2> QED
    BY <1>d, <1>e, <1>u, <2>1, <2>2, <2>3 DEF Ending, ReceiverLoop, Early
<1>7. CASE CancelReceive \/ ReadFails \/ ForwardFails
  <2>1. rPc' = "drain" /\ reason' # "complete" /\ UNCHANGED <<toR, rResult>>
    BY <1>7 DEF CancelReceive, ReadFails, ForwardFails, AfterLoop
  <2> QED
    BY <1>d, <1>e, <1>u, <2>1 DEF Ending, ReceiverLoop, Early
<1>8. CASE ReadLast
  <2>1. rPc = "read" /\ rPc' = "drain" /\ toR # <<>> /\ toR' = Tail(toR) /\ UNCHANGED <<blockIndex, rResult>>
        /\ (reason' = "complete" => Head(toR).tag = "complete")
    BY <1>8 DEF ReadLast, AfterLoop
  <2>2. ASSUME NEW i \in 1..Len(toR'), toR'[i].tag = "complete" PROVE sPc \in {"ack", "done"} /\ rdPc = "ok"
    BY <1>t, <2>1, <2>2 DEF Ending
  <2>3. reason' = "complete" => sPc \in {"ack", "done"} /\ rdPc = "ok" /\ blockIndex * Block >= Size
    <3>1. Expected + (1 - 1) = blockIndex
      BY <1>q, <2>1 DEF Expected
    <3> QED
      BY <1>t, <2>1, <3>1 DEF Ending, ReceiverLoop
  <2> QED
    BY <1>d, <1>e, <1>u, <2>1, <2>2, <2>3 DEF Ending, ReceiverLoop, Early
<1> QED
  BY <1>1, <1>2, <1>3, <1>4, <1>5, <1>6, <1>7, <1>8 DEF ReceiverStep

\* No step completes a transfer of which a block is missing.
LEMMA StepEnding ==
  Inv /\ Numbered /\ Content /\ OnDisk /\ Ending /\ [Next]_vars => Ending'
<1> SUFFICES ASSUME Inv, Numbered, Content, OnDisk, Ending, [Next]_vars PROVE Ending'
  OBVIOUS
<1>1. CASE Connect
  <2>1. \A i \in 1..Len(toR') : toR'[i].tag # "complete"
    BY <1>1, SignalTags DEF Connect
  <2> QED
    BY <1>1, <2>1 DEF Connect, Ending, SenderLoop, ReceiverLoop, MismatchExplained, Carries
<1>2. CASE LoseFrames
  <2>1. UNCHANGED <<sPc, sHeld, dataCh, rdPc, rdNext, rPc, blockIndex, reason, rResult, hashed, force,
                    prior, announced>> /\ link' = "down"
    BY <1>2 DEF LoseFrames, senderVars, readerVars, receiverVars, worldVars
  <2>2. toR \in Seq(Frames)
    BY DEF Inv, TypeOK, NetOK
  <2>3. toR' \in Seq(Frames) /\ Len(toR') <= Len(toR) /\ \A i \in 1..Len(toR') : toR'[i] = toR[i]
    BY <1>2, <2>2, PrefixesType DEF LoseFrames
  <2>4. \A i \in 1..Len(toR') : i \in 1..Len(toR)
    BY <2>2, <2>3
  <2>5. UNCHANGED <<Early, Expected, MismatchExplained>>
    BY <2>1 DEF Early, Expected, MismatchExplained, Resumed, Resumable
  <2>6. Early => ~Carries(toR', "complete")
    BY <2>3, <2>4 DEF Ending, Carries
  <2> QED
    BY <2>1, <2>3, <2>4, <2>5, <2>6 DEF Ending
<1>3. CASE WriterTask \/ UserStep \/ UNCHANGED vars
  <2>1. UNCHANGED <<sPc, sHeld, dataCh, rdPc, rdNext, rPc, blockIndex, reason, rResult, hashed, force,
                    prior, announced, link, toR>>
    BY <1>3 DEF WriterTask, WriterOpen, WriterBlock, WriterEnd, WriterFails, UserStep, PauseSender,
       ResumeSender, CancelSender, PauseReceiver, ResumeReceiver, CancelReceiver, EditSource, vars,
       senderVars, readerVars, netVars, receiverVars, worldVars
  <2>2. UNCHANGED <<Early, Expected, Following, MismatchExplained>>
    BY <2>1 DEF Early, Expected, Following, MismatchExplained, Resumed, Resumable
  <2> QED
    BY <2>1, <2>2 DEF Ending, Carries
<1>4. CASE ReceiverCrash
  <2>1. UNCHANGED <<sPc, sHeld, dataCh, rdPc, rdNext, toR>> /\ rPc' = "done" /\ rResult' = "crashed"
    BY <1>4 DEF ReceiverCrash, ReceiverReturns, senderVars, readerVars, netVars
  <2> QED
    BY <2>1 DEF Ending, Early, ReceiverLoop, MismatchExplained
<1> QED
  BY <1>1, <1>2, <1>3, <1>4, SenderEnding, ReaderEnding, ReceiverEnding
  DEF Next, UserStep, PeerReset, Break

\* handle_incoming reports a checksum mismatch only when the sender read other
\* bytes than it announced, or when the file it resumed was not a whole number
\* of blocks of the announced file.
THEOREM MismatchHasCause == SafeSpec => []MismatchExplained
<1> DEFINE Flow == Inv /\ Tidy /\ Numbered /\ Aligned /\ Content /\ OnDisk /\ Ending
<1>1. Init => Flow
  <2>1. Init => Inv
    <3>1. Init => FileOpen
      BY DEF Init, FileOpen
    <3> QED
      BY <3>1, InitTypes, InitAccord DEF Inv
  <2>2. Init => Tidy
    BY DEF Init, Tidy, Early, NothingLeftBehind
  <2>3. Init => Aligned /\ OnDisk
    BY DEF Init, Aligned, OnDisk, Early, Receiving, ReceiverLoop
  <2>4. Init => Content
    BY NoPieces DEF Init, Content
  <2>5. Init => Ending
    BY DEF Init, Ending, Early, Carries, SenderLoop, ReceiverLoop, MismatchExplained
  <2> QED
    BY <2>1, <2>2, <2>3, <2>4, <2>5, InitNumbered
<1>2. Flow /\ [Next]_vars => Flow'
  <2>1. Inv /\ [Next]_vars => Inv'
    BY StepTypes, FileOpenStep, StepAccord DEF Inv
  <2> QED
    BY <2>1, StepTidy, NumberedStep, StepAligned, StepContent, StepOnDisk, StepEnding
<1>3. Flow => MismatchExplained
  BY DEF Ending
<1> QED
  BY <1>1, <1>2, <1>3, PTL DEF SafeSpec

-----------------------------------------------------------------------------
(* Progress: the two functions and their tasks never wait in a circle *)

\* Every frame in the queue carries one of the tags.
Only(q, tags) == \A i \in 1..Len(q) : q[i].tag \in tags
AtMost(f) == {<<>>, <<f>>}

\* The handshake passes one frame to and fro, and each of its steps finds the
\* frame it waits for; after it the offset is the only answer on the way.
Greeting ==
  /\ sPc = "idle" \/ rPc = "idle" => sPc = "idle" /\ rPc = "idle" /\ rdPc = "off" /\ wrPc = "off"
  /\ rPc = "hello" => toR \in AtMost(Signal("hello")) /\ toS = <<>> /\ sPc \in {"hello", "done"}
  /\ rPc = "meta" => toR \in AtMost(Signal("meta")) /\ sPc \in {"hello", "await", "done"}
  /\ rPc \in {"prompt", "accept"} => toR = <<>> /\ sPc \in {"await", "done"}
  /\ sPc = "hello" => /\ rPc \in {"hello", "meta", "done"}
                      /\ toS \in AtMost(Signal("hello"))
                      /\ rPc = "meta" => toR = <<>>
  /\ sPc = "await" => /\ rPc \in {"meta", "prompt", "accept"} => toS = <<>>
                      /\ toS # <<>> => Head(toS).tag = "accept"

\* As long as the connection is up, whoever is waited for has sent its frame.
Answered ==
  link = "up" =>
    /\ sPc = "hello" /\ rPc = "hello" => toR # <<>>
    /\ sPc = "hello" /\ rPc = "meta" => toS # <<>>
    /\ sPc = "await" /\ rPc = "meta" => toR # <<>>
    /\ sPc = "await" /\ rPc \in ReceiverLoop => toS # <<>>
    /\ sPc = "ack" /\ rPc \in ReceiverLoop => Carries(toR, "complete")

\* The task each side of a loop waits for has been started and not left early.
Working ==
  /\ sPc \in SenderLoop => rdPc # "off"
  /\ sPc = "join" => rdPc \in {"ok", "failed"}
  /\ rPc \in ReceiverLoop => wrPc \notin {"off", "ok"}
  /\ rPc = "drain" => wrPc # "off"

\* What is in flight is what the loop that reads it expects, and the way back
\* is free.
Exchange ==
  /\ Only(dataCh, {"chunk"}) /\ (sPc = "send" => sHeld.tag = "chunk")
  /\ Carries(toR, "complete") => sPc \in {"ack", "done"}
  /\ rPc \in ReceiverLoop => /\ Only(toR, {"chunk", "complete", "error", "cancelled"})
                             /\ sPc # "done" => Len(toS) <= 1
                             /\ sPc \notin {"await", "done"} => toS = <<>>
  /\ rPc = "drain" /\ reason = "complete" => sPc = "done" \/ (sPc = "ack" /\ toS = <<>>)

Phased == Greeting /\ Answered /\ Working /\ Exchange

\* A queue with room, or none, tells its two ends apart from a full one.
LEMMA QueueFacts ==
  ASSUME NEW S, NEW q \in Seq(S)
  PROVE  Len(q) \in Nat /\ (q = <<>> <=> Len(q) = 0) /\ (q # <<>> => 1 \in 1..Len(q) /\ Head(q) = q[1])
<1>1. Len(q) \in Nat /\ (q = <<>> <=> Len(q) = 0)
  BY EmptySeq, LenProperties
<1> QED
  BY <1>1

LEMMA Blocked ==
  ASSUME NEW q \in Seq(Frames), ~Ready(q), link \in {"up", "down"}
  PROVE  link = "up" /\ q # <<>>
  BY ChannelAssumption, QueueFacts DEF Ready, CanSend, SendFails

LEMMA AtMostOne ==
  ASSUME NEW tag, NEW q \in AtMost(Signal(tag)), q # <<>>
  PROVE  Head(q).tag = tag /\ Tail(q) = <<>>
  BY SignalTags DEF AtMost

\* An attempt that is not over and not paused has a step to take.
LEMMA PhasedNeverCircular == TypeOK /\ Phased => NeverCircular
<1> SUFFICES ASSUME TypeOK, Phased, ~Over, ~Paused, ~SenderCanGoOn, ~ReaderCanGoOn,
                    ~ReceiverCanGoOn, ~WriterCanGoOn, ~ResetDue
             PROVE  FALSE
  BY DEF NeverCircular
<1> USE DEF Heads
<1>t. /\ toR \in Seq(Frames) /\ toS \in Seq(Frames) /\ link \in {"up", "down"}
      /\ rPc \in ReceiverPcs /\ sPc \in SenderPcs
      /\ rdPc \in {"off", "opening", "run", "ok", "failed"}
      /\ wrPc \in {"off", "append", "create", "run", "ok", "failed"}
  BY DEF TypeOK, NetOK, ReceiverOK, SenderOK, ReaderOK, WriterOK
<1>p. Greeting /\ Answered /\ Working /\ Exchange
  BY DEF Phased
<1>1. wrPc \notin {"append", "create"} /\ (wrPc = "run" => diskCh = <<>> /\ rPc \in ReceiverLoop)
  BY DEF WriterCanGoOn
<1>2. rdPc # "opening" /\ (rdPc = "run" => sPc # "done" /\ (sPc \in SenderLoop => dataCh # <<>>))
  <2>1. dataCh = <<>> => Len(dataCh) < Chan
    BY ChannelAssumption
  <2> QED
    BY <2>1 DEF ReaderCanGoOn
<1>3. sPc \notin {"gate", "dequeue"}
  BY <1>t, <1>p, <1>2 DEF SenderCanGoOn, Paused, Working, SenderLoop
<1>4. rPc \notin {"prompt", "forward"}
  <2>1. diskCh = <<>> => Len(diskCh) < Chan
    BY ChannelAssumption
  <2> QED
    BY <1>t, <1>p, <1>1, <2>1 DEF ReceiverCanGoOn, Working, ReceiverLoop
<1>5. (~Ready(toR) => link = "up" /\ toR # <<>>) /\ (~Ready(toS) => link = "up" /\ toS # <<>>)
  BY <1>t, Blocked
<1>6. toR = <<>> /\ link = "up" => CanSend(toR)
  BY ChannelAssumption DEF CanSend
<1>7. toS = <<>> /\ link = "up" => CanSend(toS)
  BY ChannelAssumption DEF CanSend
<1>8. CASE rPc = "idle"
  BY <1>8, <1>p DEF Greeting, Over
<1>9. CASE rPc = "hello"
  <2>1. link = "up" /\ toS = <<>> /\ toR \in AtMost(Signal("hello")) /\ sPc \in {"hello", "done"}
    BY <1>9, <1>t, <1>p DEF Greeting, ReceiverCanGoOn, SendFails
  <2>2. toR # <<>>
    BY <1>9, <1>p, <2>1 DEF Answered, ReceiverCanGoOn, ReceiverAtEof, SenderGone
  <2> QED
    BY <1>7, <1>9, <2>1, <2>2, AtMostOne DEF ReceiverCanGoOn
<1>10. CASE rPc = "meta"
  <2>1. toR \in AtMost(Signal("meta")) /\ sPc \in {"hello", "await", "done"}
    BY <1>10, <1>p DEF Greeting
  <2>2. toR = <<>>
    BY <1>10, <2>1, AtMostOne DEF ReceiverCanGoOn
  <2>3. link = "up" /\ sPc # "done"
    BY <1>10, <1>t, <2>2 DEF ReceiverCanGoOn, ReceiverAtEof, SenderGone
  <2>4. sPc = "hello" /\ toS # <<>> /\ toS \in AtMost(Signal("hello"))
    BY <1>10, <1>p, <2>1, <2>2, <2>3 DEF Answered, Greeting
  <2> QED
    BY <1>6, <2>2, <2>3, <2>4, AtMostOne DEF SenderCanGoOn
<1>11. CASE rPc = "accept"
  <2>1. link = "up" /\ toS # <<>>
    BY <1>5, <1>11 DEF ReceiverCanGoOn
  <2> QED
    BY <1>11, <1>p, <2>1 DEF Greeting, ResetDue, SenderGone
<1>12. rPc \in {"gate", "read"} /\ ~Ready(toS) => FALSE
  <2> SUFFICES ASSUME rPc \in {"gate", "read"}, ~Ready(toS) PROVE FALSE
    OBVIOUS
  <2>1. link = "up" /\ toS # <<>>
    BY <1>5
  <2>2. sPc # "done"
    BY <2>1 DEF ResetDue, SenderGone
  <2>3. sPc = "await" /\ Head(toS).tag = "accept"
    BY <1>p, <2>1, <2>2 DEF Exchange, Greeting, ReceiverLoop
  <2> QED
    BY <2>1, <2>3 DEF SenderCanGoOn
<1>13. CASE rPc = "gate"
  BY <1>12, <1>13 DEF ReceiverCanGoOn, Paused
<1>14. CASE rPc = "read"
  <2>1. CASE toR # <<>>
    <3>1. Head(toR).tag \in {"chunk", "complete", "error", "cancelled"}
      BY <1>t, <1>p, <1>14, <2>1, QueueFacts DEF Exchange, Only, ReceiverLoop
    <3> QED
      BY <1>12, <1>14, <2>1, <3>1 DEF ReceiverCanGoOn
  <2>2. CASE toR = <<>>
    <3>1. link = "up" /\ sPc # "done"
      BY <1>14, <1>t, <2>2 DEF ReceiverCanGoOn, ReceiverAtEof, SenderGone
    <3>2. sPc \notin {"await", "hello", "idle"}
      BY <1>14, <1>p, <3>1 DEF Answered, Greeting, ReceiverLoop, SenderCanGoOn
    <3>3. sPc # "ack"
      BY <1>14, <1>p, <2>2, <3>1 DEF Answered, Carries, ReceiverLoop
    <3>4. sPc \notin {"send", "abort", "join"}
      BY <1>6, <1>p, <2>2, <3>1 DEF SenderCanGoOn, Ready, Working
    <3> QED
      BY <1>3, <1>t, <3>1, <3>2, <3>3, <3>4 DEF SenderPcs, SenderLoop
  <2> QED
    BY <2>1, <2>2
<1>15. CASE rPc = "drain"
  <2>1. WriterDone
    BY <1>1, <1>15, <1>p, <1>t DEF WriterDone, Working, ReceiverLoop
  <2>2. reason = "complete" /\ link = "up" /\ toS # <<>>
    BY <1>5, <1>15, <2>1 DEF ReceiverCanGoOn
  <2> QED
    BY <1>15, <1>p, <2>2 DEF Exchange, ResetDue, SenderGone
<1>16. CASE rPc = "done"
  <2>1. toR = <<>> \/ link # "up"
    BY <1>16 DEF ResetDue, ReceiverGone
  <2>2. sPc \notin {"send", "abort"}
    BY <1>5, <2>1 DEF SenderCanGoOn
  <2>3. sPc # "join"
    BY <1>6, <1>p, <1>t, <2>1 DEF SenderCanGoOn, SendFails, Working
  <2>4. sPc \notin {"await", "ack"}
    BY <1>16, <1>p DEF SenderCanGoOn, SenderAtEof, ReceiverGone, Greeting
  <2>5. ASSUME sPc = "hello" PROVE FALSE
    <3>1. toS # <<>> /\ toR = <<>> /\ link = "up" /\ toS \in AtMost(Signal("hello"))
      BY <1>16, <1>p, <1>t, <2>1, <2>5 DEF SenderCanGoOn, SenderAtEof, ReceiverGone, SendFails, Greeting
    <3> QED
      BY <1>6, <2>5, <3>1, AtMostOne DEF SenderCanGoOn
  <2>6. sPc # "idle"
    BY <1>16, <1>p DEF Greeting
  <2>7. sPc = "done"
    BY <1>3, <1>t, <2>2, <2>3, <2>4, <2>5, <2>6 DEF SenderPcs, SenderLoop
  <2> QED
    BY <1>1, <1>2, <1>16, <2>7 DEF Over, SenderLoop, ReceiverLoop
<1> QED
  BY <1>t, <1>4, <1>8, <1>9, <1>10, <1>11, <1>13, <1>14, <1>15, <1>16 DEF ReceiverPcs, ReceiverLoop

LEMMA OnlyAppend ==
  ASSUME NEW q \in Seq(Frames), NEW f \in Frames, NEW tags, Only(q, tags), f.tag \in tags
  PROVE  Only(Append(q, f), tags)
<1>1. Len(Append(q, f)) = Len(q) + 1 /\ Append(q, f)[Len(q) + 1] = f
      /\ \A j \in 1..Len(q) : Append(q, f)[j] = q[j]
  BY AppendProperties
<1>2. Len(q) \in Nat
  OBVIOUS
<1> QED
  BY <1>1, <1>2 DEF Only

LEMMA OnlyTail ==
  ASSUME NEW q \in Seq(Frames), q # <<>>, NEW tags, Only(q, tags)
  PROVE  Only(Tail(q), tags)
<1>1. Len(q) \in Nat /\ Len(Tail(q)) = Len(q) - 1 /\ \A i \in 1..Len(Tail(q)) : Tail(q)[i] = q[i + 1]
  BY HeadTailProperties, EmptySeq
<1>2. \A i \in 1..Len(Tail(q)) : i + 1 \in 1..Len(q)
  BY <1>1
<1> QED
  BY <1>1, <1>2 DEF Only

\* A frame behind the first one is still there when that has been read, and a
\* frame that is appended is there.
LEMMA CarriesBehind ==
  ASSUME NEW q \in Seq(Frames), q # <<>>, NEW tag, Carries(q, tag), Head(q).tag # tag
  PROVE  Carries(Tail(q), tag)
<1>1. Len(q) \in Nat /\ Head(q) = q[1] /\ Len(Tail(q)) = Len(q) - 1
      /\ \A i \in 1..Len(Tail(q)) : Tail(q)[i] = q[i + 1]
  BY HeadTailProperties, EmptySeq
<1>2. PICK i \in 1..Len(q) : q[i].tag = tag
  BY DEF Carries
<1>3. i - 1 \in 1..Len(Tail(q)) /\ (i - 1) + 1 = i
  BY <1>1, <1>2
<1> QED
  BY <1>1, <1>2, <1>3 DEF Carries

LEMMA CarriesLast ==
  ASSUME NEW q \in Seq(Frames), NEW f \in Frames
  PROVE  Carries(Append(q, f), f.tag)
<1>1. Len(Append(q, f)) = Len(q) + 1 /\ Append(q, f)[Len(q) + 1] = f /\ Len(q) \in Nat
  BY AppendProperties
<1> QED
  BY <1>1 DEF Carries

\* What is left of a queue that is cut off.
LEMMA CutOff ==
  ASSUME NEW q \in Seq(Frames), NEW p \in Prefixes(q)
  PROVE  /\ p \in Seq(Frames) /\ Len(p) <= Len(q)
         /\ q = <<>> => p = <<>>
         /\ p # <<>> => q # <<>> /\ Head(p) = Head(q)
         /\ \A tags : Only(q, tags) => Only(p, tags)
         /\ \A f : q \in AtMost(f) => p \in AtMost(f)
<1>1. p \in Seq(Frames) /\ Len(p) <= Len(q) /\ \A i \in 1..Len(p) : p[i] = q[i]
  BY PrefixesType
<1>2. Len(p) \in Nat /\ Len(q) \in Nat /\ (p = <<>> <=> Len(p) = 0) /\ (q = <<>> <=> Len(q) = 0)
  BY <1>1, QueueFacts
<1>3. \A i \in 1..Len(p) : i \in 1..Len(q)
  BY <1>1, <1>2
<1>4. p # <<>> => q # <<>> /\ Head(p) = Head(q)
  BY <1>1, <1>2, <1>3, QueueFacts
<1>5. \A tags : Only(q, tags) => Only(p, tags)
  BY <1>1, <1>3 DEF Only
<1>6. ASSUME NEW f, q = <<f>>, p # <<>> PROVE p = <<f>>
  <2>1. Len(q) = 1 /\ q[1] = f
    BY <1>6
  <2>2. Len(p) = 1 /\ p[1] = f
    BY <1>1, <1>2, <1>6, <2>1
  <2> QED
    BY <1>1, <2>2
<1> QED
  BY <1>1, <1>2, <1>4, <1>5, <1>6 DEF AtMost

LEMMA PhaseTypes ==
  TypeOK => /\ toR \in Seq(Frames) /\ toS \in Seq(Frames) /\ link \in {"up", "down"}
            /\ dataCh \in Seq(Frames) /\ sHeld \in Frames
            /\ sPc \in SenderPcs /\ rPc \in ReceiverPcs
  BY DEF TypeOK, NetOK, ReaderOK, SenderOK, ReceiverOK

LEMMA InitPhased == Init => Phased
  BY DEF Init, Phased, Greeting, Answered, Working, Exchange, Only, Carries, SenderLoop, ReceiverLoop

phaseVars == <<sPc, rPc, rdPc, wrPc, sHeld, dataCh, toR, toS, link, reason>>

LEMMA PhasedUnchanged == Phased /\ UNCHANGED phaseVars => Phased'
  BY DEF Phased, Greeting, Answered, Working, Exchange, Only, Carries, phaseVars

LEMMA ConnectPhased == Connect => Phased'
<1> SUFFICES ASSUME Connect PROVE Phased'
  OBVIOUS
<1>1. /\ sPc' = "hello" /\ rPc' = "hello" /\ rdPc' = "off" /\ wrPc' = "off" /\ link' = "up"
      /\ toR' = <<Signal("hello")>> /\ toS' = <<>> /\ dataCh' = <<>>
  BY DEF Connect
<1>2. ~Carries(toR', "complete") /\ toR' # <<>>
  BY <1>1, SignalTags DEF Carries
<1> QED
  BY <1>1, <1>2 DEF Phased, Greeting, Answered, Working, Exchange, Only, AtMost, SenderLoop, ReceiverLoop

LEMMA NetworkPhased == TypeOK /\ Phased /\ LoseFrames => Phased'
<1> SUFFICES ASSUME TypeOK, Phased, LoseFrames PROVE Phased'
  OBVIOUS
<1>1. UNCHANGED <<sPc, rPc, rdPc, wrPc, sHeld, dataCh, reason>> /\ link' = "down"
  BY DEF LoseFrames, senderVars, readerVars, receiverVars, writerVars
<1>2. /\ toS \in Seq(Frames) /\ toS' \in Prefixes(toS)
      /\ toR \in Seq(Frames) /\ toR' \in Prefixes(toR)
  BY PhaseTypes DEF LoseFrames
<1>3. Carries(toR', "complete") => Carries(toR, "complete")
  BY <1>2, CarriesPrefix
<1>4. Greeting'
  BY <1>1, <1>2, CutOff DEF Phased, Greeting
<1>5. Len(toS') \in Nat /\ Len(toS) \in Nat /\ Len(toS') <= Len(toS)
  BY <1>2, CutOff, QueueFacts
<1>6. Exchange'
  <2>1. Only(dataCh', {"chunk"}) /\ (sPc' = "send" => sHeld'.tag = "chunk")
    BY <1>1 DEF Phased, Exchange, Only
  <2>2. Only(toR, {"chunk", "complete", "error", "cancelled"})
        => Only(toR', {"chunk", "complete", "error", "cancelled"})
    BY <1>2, CutOff
  <2>3. toS = <<>> => toS' = <<>>
    BY <1>2, CutOff
  <2>4. Len(toS) <= 1 => Len(toS') <= 1
    BY <1>5
  <2>5. rPc' \in ReceiverLoop => /\ Only(toR', {"chunk", "complete", "error", "cancelled"})
                                 /\ sPc' # "done" => Len(toS') <= 1
                                 /\ sPc' \notin {"await", "done"} => toS' = <<>>
    BY <1>1, <2>2, <2>3, <2>4, Zenon DEF Phased, Exchange
  <2>6. rPc' = "drain" /\ reason' = "complete" => sPc' = "done" \/ (sPc' = "ack" /\ toS' = <<>>)
    BY <1>1, <2>3, Zenon DEF Phased, Exchange
  <2>7. Carries(toR', "complete") => sPc' \in {"ack", "done"}
    BY <1>1, <1>3, Zenon DEF Phased, Exchange
  <2> QED
    BY <2>1, <2>5, <2>6, <2>7, Zenon DEF Exchange
<1> QED
  BY <1>1, <1>4, <1>6 DEF Phased, Working, Answered

LEMMA SenderPhased == TypeOK /\ Phased /\ SenderStep => Phased'
<1> SUFFICES ASSUME TypeOK, Phased, SenderStep PROVE Phased'
  OBVIOUS
<1>p. Greeting /\ Answered /\ Working /\ Exchange
  BY DEF Phased
<1>t. toR \in Seq(Frames) /\ toS \in Seq(Frames) /\ dataCh \in Seq(Frames) /\ sHeld \in Frames
  BY PhaseTypes
<1>u. UNCHANGED <<rPc, wrPc, link, reason>>
  BY DEF SenderStep, SendMetadata, ReceiveAccept, HandshakeFails, MetadataFails, PassGate, Dequeue, SendChunk,
     CancelSend, SendFailsInLoop, LeaveLoop, SendAbort, EndLoop, SendComplete, CompletionFails,
     ReceiveAck, netVars, receiverVars, writerVars
<1>e. rPc \in {"idle", "hello", "meta", "prompt", "accept"} => sPc \in {"idle", "hello", "await", "done"}
  BY <1>p DEF Greeting
<1>1. CASE SendMetadata
  <2>1. /\ sPc = "hello" /\ sPc' = "await" /\ toS # <<>> /\ toS' = Tail(toS)
        /\ toR' = Append(toR, Signal("meta")) /\ link = "up" /\ UNCHANGED <<rdPc, dataCh, sHeld>>
    BY <1>1 DEF SendMetadata, CanSend, readerVars
  <2>2. toS' = <<>> /\ rPc \in {"meta", "done"} /\ (rPc = "meta" => toR' = <<Signal("meta")>>)
    <3>1. toS \in AtMost(Signal("hello")) /\ rPc \in {"meta", "done"} /\ (rPc = "meta" => toR = <<>>)
      BY <1>p, <2>1 DEF Greeting
    <3>2. Append(<<>>, Signal("meta")) = <<Signal("meta")>>
      OBVIOUS
    <3> QED
      BY <2>1, <3>1, <3>2, AtMostOne
  <2>3. ~Carries(toR', "complete")
    BY <1>p, <1>t, <2>1, CarriesAppend, SignalsAreFrames, SignalTags DEF Exchange, Tags
  <2> QED
    BY <1>p, <1>u, <2>1, <2>2, <2>3
    DEF Phased, Greeting, Answered, Working, Exchange, Only, AtMost, SenderLoop, ReceiverLoop
<1>2. CASE ReceiveAccept
  <2>1. /\ sPc = "await" /\ sPc' = "gate" /\ rdPc' = "opening" /\ toS # <<>> /\ toS' = Tail(toS)
        /\ UNCHANGED <<toR, dataCh, sHeld>>
    BY <1>2 DEF ReceiveAccept
  <2>2. rPc \notin {"idle", "hello", "meta", "prompt", "accept"}
    BY <1>p, <2>1 DEF Greeting
  <2>3. rPc \in ReceiverLoop => toS' = <<>>
    <3>1. Len(Tail(toS)) = Len(toS) - 1 /\ Len(toS) \in Nat /\ Len(toS) # 0 /\ Tail(toS) \in Seq(Frames)
      BY <1>t, <2>1, HeadTailProperties, EmptySeq
    <3>2. rPc \in ReceiverLoop => Len(Tail(toS)) = 0
      BY <1>p, <2>1, <3>1 DEF Exchange
    <3> QED
      BY <2>1, <3>1, <3>2, EmptySeq
  <2> QED
    BY <1>p, <1>u, <2>1, <2>2, <2>3
    DEF Phased, Greeting, Answered, Working, Exchange, Only, Carries, SenderLoop, ReceiverLoop
<1>3. CASE HandshakeFails \/ MetadataFails \/ CompletionFails
  <2>1. /\ sPc' = "done" /\ UNCHANGED <<toR, rdPc, dataCh, sHeld>> /\ sPc # "idle"
        /\ toS' = toS \/ toS # <<>>
    BY <1>3 DEF HandshakeFails, MetadataFails, CompletionFails, SenderReturns, netVars, readerVars
  <2>2. rPc # "idle"
    BY <1>p, <2>1 DEF Greeting
  <2> QED
    BY <1>p, <1>u, <2>1, <2>2
    DEF Phased, Greeting, Answered, Working, Exchange, Only, Carries, SenderLoop, ReceiverLoop
<1>4. CASE PassGate \/ CancelSend \/ SendFailsInLoop \/ EndLoop
  <2>1. /\ sPc \in SenderLoop /\ sPc' \in {"dequeue", "abort", "join"}
        /\ (sPc' = "join" => rdPc \in {"ok", "failed"}) /\ UNCHANGED <<toR, toS, rdPc, dataCh>>
    BY <1>4 DEF PassGate, CancelSend, SendFailsInLoop, LeaveLoop, EndLoop, netVars, readerVars, SenderLoop
  <2>2. rPc \notin {"idle", "hello", "meta", "prompt", "accept"}
    BY <1>e, <2>1 DEF SenderLoop
  <2> QED
    BY <1>p, <1>u, <2>1, <2>2
    DEF Phased, Greeting, Answered, Working, Exchange, Only, Carries, SenderLoop, ReceiverLoop
<1>5. CASE Dequeue
  <2>1. /\ sPc = "dequeue" /\ sPc' = "send" /\ dataCh # <<>> /\ dataCh' = Tail(dataCh)
        /\ sHeld' = Head(dataCh) /\ UNCHANGED <<toR, toS, rdPc>>
    BY <1>5 DEF Dequeue, netVars
  <2>2. rPc \notin {"idle", "hello", "meta", "prompt", "accept"}
    BY <1>e, <2>1
  <2>3. Only(dataCh', {"chunk"}) /\ sHeld'.tag = "chunk"
    <3>1. Only(Tail(dataCh), {"chunk"})
      BY <1>p, <1>t, <2>1, OnlyTail DEF Exchange
    <3>2. Head(dataCh).tag = "chunk"
      BY <1>p, <1>t, <2>1, QueueFacts DEF Exchange, Only
    <3> QED
      BY <2>1, <3>1, <3>2
  <2>4. Greeting' /\ Answered' /\ Working'
    BY <1>p, <1>u, <2>1, <2>2 DEF Greeting, Answered, Working, Carries, SenderLoop, ReceiverLoop
  <2> QED
    BY <1>p, <1>u, <2>1, <2>2, <2>3, <2>4 DEF Phased, Exchange, Carries, SenderLoop, ReceiverLoop
<1>6. CASE SendChunk \/ SendAbort \/ SendComplete
  <2>1. PICK f \in Frames :
          /\ f.tag \in {"chunk", "complete", "error", "cancelled"}
          /\ toR' = Append(toR, f) \/ (toR' = toR /\ sPc' = "done")
          /\ f.tag = "complete" <=> sPc' = "ack"
    <3>1. CASE SendChunk
      BY <1>p, <1>t, <3>1 DEF SendChunk, Exchange
    <3>2. CASE SendAbort
      BY <3>2, SignalsAreFrames, SignalTags DEF SendAbort, SenderReturns, Tags
    <3>3. CASE SendComplete
      BY <3>3, SignalsAreFrames, SignalTags DEF SendComplete, Tags
    <3> QED
      BY <1>6, <3>1, <3>2, <3>3
  <2>2. /\ sPc \in {"send", "abort", "join"} /\ sPc' \in {"gate", "done", "ack"}
        /\ sPc' = "gate" => sPc = "send"
        /\ UNCHANGED <<toS, rdPc, dataCh>>
    BY <1>6 DEF SendChunk, SendAbort, SendComplete, SenderReturns, readerVars
  <2>3. rPc \notin {"idle", "hello", "meta", "prompt", "accept"}
    BY <1>e, <2>2
  <2>4. rPc \in ReceiverLoop => Only(toR', {"chunk", "complete", "error", "cancelled"})
    <3>1. rPc \in ReceiverLoop => Only(toR, {"chunk", "complete", "error", "cancelled"})
      BY <1>p DEF Exchange
    <3>2. CASE toR' = Append(toR, f)
      <4>1. Only(toR, {"chunk", "complete", "error", "cancelled"})
            => Only(Append(toR, f), {"chunk", "complete", "error", "cancelled"})
        BY <1>t, <2>1, OnlyAppend
      <4> QED
        BY <3>1, <3>2, <4>1
    <3>3. CASE toR' = toR
      BY <3>1, <3>3
    <3> QED
      BY <2>1, <3>2, <3>3
  <2>5. Carries(toR', "complete") => sPc' \in {"ack", "done"}
    <3>1. ~Carries(toR, "complete")
      BY <1>p, <2>2 DEF Exchange
    <3>2. CASE toR' = Append(toR, f)
      <4>1. Carries(Append(toR, f), "complete") => f.tag = "complete"
        BY <1>t, <3>1, CarriesAppend
      <4> QED
        BY <2>1, <3>2, <4>1
    <3>3. CASE toR' = toR
      BY <3>1, <3>3
    <3> QED
      BY <2>1, <3>2, <3>3
  <2>6. sPc' = "ack" => Carries(toR', "complete")
    BY <1>t, <2>1, <2>2, CarriesLast
  <2>7. Greeting' /\ Answered' /\ Working'
    BY <1>p, <1>u, <2>2, <2>3, <2>6 DEF Greeting, Answered, Working, SenderLoop, ReceiverLoop
  <2> QED
    BY <1>p, <1>u, <2>2, <2>3, <2>4, <2>5, <2>7 DEF Phased, Exchange, Only, ReceiverLoop
<1>7. CASE ReceiveAck
  <2>1. sPc = "ack" /\ sPc' = "done" /\ UNCHANGED <<toR, rdPc, dataCh>>
    BY <1>7 DEF ReceiveAck, SenderReturns, readerVars
  <2>2. rPc \notin {"idle", "hello", "meta", "prompt", "accept"}
    BY <1>e, <2>1
  <2> QED
    BY <1>p, <1>u, <2>1, <2>2
    DEF Phased, Greeting, Answered, Working, Exchange, Only, Carries, SenderLoop, ReceiverLoop
<1> QED
  BY <1>1, <1>2, <1>3, <1>4, <1>5, <1>6, <1>7 DEF SenderStep

LEMMA ReceiverPhased == TypeOK /\ Phased /\ (ReceiverStep \/ Reject \/ Approve) => Phased'
<1> SUFFICES ASSUME TypeOK, Phased, ReceiverStep \/ Reject \/ Approve PROVE Phased'
  OBVIOUS
<1>p. Greeting /\ Answered /\ Working /\ Exchange
  BY DEF Phased
<1>t. toR \in Seq(Frames) /\ toS \in Seq(Frames)
  BY PhaseTypes
<1>u. UNCHANGED <<sPc, rdPc, sHeld, dataCh, link>>
  BY DEF ReceiverStep, AnswerHello, ReceiveMetadata, IncomingFails, Reject, Approve, Accept,
     PassReceiverGate, ReadChunk, Forward, CancelReceive, ReadLast, ReadFails, ForwardFails,
     AfterLoop, Discard, VerifyGood, VerifyBad, VerifyFails, senderVars, readerVars, netVars
<1>d. Only(dataCh, {"chunk"})' /\ (sPc' = "send" => sHeld'.tag = "chunk")
  BY <1>p, <1>u DEF Exchange, Only
<1>1. CASE AnswerHello
  <2>1. /\ rPc = "hello" /\ rPc' = "meta" /\ toR # <<>> /\ toR' = Tail(toR)
        /\ toS' = Append(toS, Signal("hello")) /\ UNCHANGED <<wrPc, reason>>
    BY <1>1 DEF AnswerHello, writerVars
  <2>2. toR' = <<>> /\ toS' = <<Signal("hello")>> /\ sPc \in {"hello", "done"}
    BY <1>p, <2>1, AtMostOne DEF Greeting
  <2> QED
    BY <1>d, <1>p, <1>u, <2>1, <2>2
    DEF Phased, Greeting, Answered, Working, Exchange, Carries, AtMost, SenderLoop, ReceiverLoop
<1>2. CASE ReceiveMetadata
  <2>1. /\ rPc = "meta" /\ rPc' = "prompt" /\ toR # <<>> /\ toR' = Tail(toR)
        /\ UNCHANGED <<toS, wrPc, reason>>
    BY <1>2 DEF ReceiveMetadata, writerVars
  <2>2. toR' = <<>> /\ sPc \in {"await", "done"}
    BY <1>p, <2>1, AtMostOne DEF Greeting
  <2> QED
    BY <1>d, <1>p, <1>u, <2>1, <2>2
    DEF Phased, Greeting, Answered, Working, Exchange, Carries, SenderLoop, ReceiverLoop
<1>3. CASE Approve
  <2>1. rPc = "prompt" /\ rPc' = "accept" /\ UNCHANGED <<toR, toS, wrPc, reason>>
    BY <1>3 DEF Approve, netVars, writerVars
  <2> QED
    BY <1>d, <1>p, <1>u, <2>1
    DEF Phased, Greeting, Answered, Working, Exchange, Carries, SenderLoop, ReceiverLoop
<1>4. CASE Accept
  <2>1. /\ rPc = "accept" /\ rPc' = "gate" /\ toS' = Append(toS, Frame("accept", ResumeOffset, <<>>))
        /\ wrPc' \in {"append", "create"} /\ UNCHANGED <<toR, reason>>
    BY <1>4 DEF Accept
  <2>2. toR = <<>> /\ sPc \in {"await", "done"} /\ (sPc = "await" => toS = <<>>)
    BY <1>p, <2>1 DEF Greeting
  <2>3. sPc = "await" => Len(toS') = 1 /\ toS' # <<>> /\ Head(toS').tag = "accept"
    BY <2>1, <2>2 DEF Frame
  <2> QED
    BY <1>d, <1>p, <1>u, <2>1, <2>2, <2>3
    DEF Phased, Greeting, Answered, Working, Exchange, Only, Carries, SenderLoop, ReceiverLoop
<1>5. CASE PassReceiverGate \/ Forward
  <2>1. rPc \in ReceiverLoop /\ rPc' \in ReceiverLoop /\ UNCHANGED <<toR, toS, wrPc, reason>>
    BY <1>5 DEF PassReceiverGate, Forward, netVars, writerVars, ReceiverLoop
  <2> QED
    BY <1>d, <1>p, <1>u, <2>1
    DEF Phased, Greeting, Answered, Working, Exchange, Only, Carries, SenderLoop, ReceiverLoop
<1>6. CASE ReadChunk
  <2>1. /\ rPc = "read" /\ rPc' = "forward" /\ toR # <<>> /\ toR' = Tail(toR)
        /\ Head(toR).tag = "chunk" /\ UNCHANGED <<toS, wrPc, reason>>
    BY <1>6 DEF ReadChunk, writerVars
  <2>2. Carries(toR', "complete") <=> Carries(toR, "complete")
    BY <1>t, <2>1, CarriesTail, CarriesBehind
  <2>3. Only(toR', {"chunk", "complete", "error", "cancelled"})
    BY <1>p, <1>t, <2>1, OnlyTail DEF Exchange, ReceiverLoop
  <2> QED
    BY <1>d, <1>p, <1>u, <2>1, <2>2, <2>3
    DEF Phased, Greeting, Answered, Working, Exchange, SenderLoop, ReceiverLoop
<1>7. CASE CancelReceive \/ ReadLast \/ ReadFails \/ ForwardFails
  <2>1. /\ rPc \in ReceiverLoop /\ rPc' = "drain" /\ UNCHANGED wrPc
        /\ (toR' = toR \/ (toR # <<>> /\ toR' = Tail(toR)))
        /\ (toS' = toS \/ (link = "up" /\ toS' = Append(toS, Signal("cancelled"))))
    BY <1>7 DEF CancelReceive, ReadLast, ReadFails, ForwardFails, AfterLoop, SayCancelled, CanSend,
       writerVars, ReceiverLoop
  <2>2. reason' = "complete" => toR # <<>> /\ Head(toR).tag = "complete" /\ toS' = toS
    BY <1>7 DEF CancelReceive, ReadLast, ReadFails, ForwardFails, AfterLoop
  <2>3. reason' = "complete" => sPc = "done" \/ (sPc = "ack" /\ toS' = <<>>)
    BY <1>p, <1>t, <2>1, <2>2, CarriesTail DEF Exchange
  <2>4. sPc = "await" /\ toS' # <<>> => Head(toS').tag = "accept"
    <3>1. CASE toS' = toS
      BY <1>p, <3>1 DEF Greeting
    <3>2. CASE link = "up" /\ toS' = Append(toS, Signal("cancelled"))
      <4>1. sPc = "await" => toS # <<>>
        BY <1>p, <2>1, <3>2 DEF Answered
      <4>2. toS # <<>> => Head(Append(toS, Signal("cancelled"))) = Head(toS)
        BY <1>t, QueueFacts, SignalsAreFrames, AppendProperties DEF Tags
      <4> QED
        BY <1>p, <3>2, <4>1, <4>2 DEF Greeting
    <3> QED
      BY <2>1, <3>1, <3>2
  <2>5. Carries(toR', "complete") => Carries(toR, "complete")
    BY <1>t, <2>1, CarriesTail
  <2>6. sPc \notin {"idle", "hello"}
    BY <1>p, <2>1 DEF Greeting, ReceiverLoop
  <2> QED
    BY <1>d, <1>p, <1>u, <2>1, <2>3, <2>4, <2>5, <2>6
    DEF Phased, Greeting, Answered, Working, Exchange, SenderLoop, ReceiverLoop
<1>8. CASE IncomingFails \/ Reject \/ Discard \/ VerifyGood \/ VerifyBad \/ VerifyFails
  <2>1. /\ rPc \notin {"idle", "done"} /\ rPc' = "done" /\ toR' = toR
        /\ (toS' = toS \/ (rPc = "drain" /\ reason = "complete"))
    BY <1>8 DEF IncomingFails, Reject, Discard, VerifyGood, VerifyBad, VerifyFails, ReceiverReturns,
       netVars
  <2>2. toS' # toS => sPc \in {"ack", "done"}
    BY <1>p, <2>1 DEF Exchange
  <2>3. sPc # "idle"
    BY <1>p, <2>1 DEF Greeting
  <2> QED
    BY <1>d, <1>p, <1>u, <2>1, <2>2, <2>3
    DEF Phased, Greeting, Answered, Working, Exchange, Carries, SenderLoop, ReceiverLoop
<1> QED
  BY <1>1, <1>2, <1>3, <1>4, <1>5, <1>6, <1>7, <1>8 DEF ReceiverStep

LEMMA TaskPhased ==
  TypeOK /\ Phased /\ (ReaderTask \/ WriterTask \/ ReceiverCrash) => Phased'
<1> SUFFICES ASSUME TypeOK, Phased, ReaderTask \/ WriterTask \/ ReceiverCrash PROVE Phased'
  OBVIOUS
<1>p. Greeting /\ Answered /\ Working /\ Exchange
  BY DEF Phased
<1>1. CASE ReaderTask
  <2>1. /\ UNCHANGED <<sPc, rPc, wrPc, sHeld, toR, toS, link, reason>>
        /\ rdPc \in {"opening", "run"} /\ rdPc' \in {"run", "ok", "failed"}
    BY <1>1 DEF ReaderTask, ReaderOpen, ReaderBlock, ReaderEnd, ReaderFails, senderVars, netVars,
       receiverVars, writerVars
  <2>2. Only(dataCh', {"chunk"})
    <3>1. CASE ReaderBlock
      <4>1. PICK f : dataCh' = Append(dataCh, f) /\ f.tag = "chunk"
        BY <3>1 DEF ReaderBlock, Frame
      <4>2. Len(dataCh') = Len(dataCh) + 1 /\ dataCh'[Len(dataCh) + 1] = f /\ Len(dataCh) \in Nat
            /\ \A j \in 1..Len(dataCh) : dataCh'[j] = dataCh[j]
        BY <4>1, PhaseTypes
      <4> QED
        BY <1>p, <4>1, <4>2 DEF Exchange, Only
    <3>2. CASE UNCHANGED dataCh
      BY <1>p, <3>2 DEF Exchange, Only
    <3> QED
      BY <1>1, <3>1, <3>2 DEF ReaderTask, ReaderOpen, ReaderEnd, ReaderFails
  <2> QED
    BY <1>p, <2>1, <2>2 DEF Phased, Greeting, Answered, Working, Exchange, Only, Carries
<1>2. CASE WriterTask
  <2>1. /\ UNCHANGED <<sPc, rPc, rdPc, sHeld, dataCh, toR, toS, link, reason>>
        /\ wrPc \in {"append", "create", "run"} /\ wrPc' \in {"run", "ok", "failed"}
        /\ wrPc' = "ok" => rPc \notin ReceiverLoop
    BY <1>2 DEF WriterTask, WriterOpen, WriterBlock, WriterEnd, WriterFails, senderVars, readerVars,
       netVars, receiverVars
  <2> QED
    BY <1>p, <2>1 DEF Phased, Greeting, Answered, Working, Exchange, Only, Carries
<1>3. CASE ReceiverCrash
  <2>1. UNCHANGED <<sPc, rdPc, sHeld, dataCh, toR, toS, link>> /\ rPc' = "done" /\ rPc # "idle"
    BY <1>3 DEF ReceiverCrash, ReceiverReturns, senderVars, readerVars, netVars
  <2> QED
    BY <1>p, <2>1
    DEF Phased, Greeting, Answered, Working, Exchange, Only, Carries, SenderLoop, ReceiverLoop
<1> QED
  BY <1>1, <1>2, <1>3

LEMMA StepPhased == TypeOK /\ Phased /\ [Next]_vars => Phased'
<1> SUFFICES ASSUME TypeOK, Phased, [Next]_vars PROVE Phased'
  OBVIOUS
<1>1. CASE UserStep \/ UNCHANGED vars
  BY <1>1, PhasedUnchanged DEF UserStep, PauseSender, ResumeSender, CancelSender, PauseReceiver,
     ResumeReceiver, CancelReceiver, EditSource, vars, senderVars, readerVars, netVars, receiverVars,
     writerVars, phaseVars
<1> QED
  BY <1>1, ConnectPhased, NetworkPhased, SenderPhased, ReceiverPhased, TaskPhased
  DEF Next, UserStep, PeerReset, Break

\* The two functions and the two blocking tasks never wait on each other in a
\* circle, for every size of the channels and of the socket buffers.
THEOREM NobodyWaitsInACircle == SafeSpec => []NeverCircular
  BY InitPhased, StepPhased, PhasedNeverCircular, TypeCorrect, PTL DEF SafeSpec

-----------------------------------------------------------------------------
(* Progress: no step is taken over and over *)

\* The parts of Work are numbers, and so is what they are made of.
Counted ==
  /\ SenderWork \in Nat /\ ReaderWork \in Nat /\ NetWork \in Nat
  /\ ReceiverWork \in Nat /\ WriterWork \in Nat
Measured ==
  /\ Unread \in 0..Size /\ ReaderRank \in 0..2 /\ LinkRank \in 0..1 /\ WriterRank \in 0..2
  /\ Len(dataCh) \in Nat /\ Len(toR) \in Nat /\ Len(toS) \in Nat /\ Len(diskCh) \in Nat

\* Nothing is read before the receiver's answer.
NotReading == sPc \in {"idle", "hello", "await"} => rdPc = "off"

LEMMA TypesMeasured == TypeOK => Measured
<1> SUFFICES ASSUME TypeOK PROVE Measured
  OBVIOUS
<1>1. Len(dataCh) \in Nat /\ Len(toR) \in Nat /\ Len(toS) \in Nat /\ Len(diskCh) \in Nat
  BY LenProperties DEF TypeOK, ReaderOK, NetOK, WriterOK
<1>2. Unread \in 0..Size
  BY SizeAssumption DEF TypeOK, ReaderOK, Unread
<1>3. ReaderRank \in 0..2 /\ LinkRank \in 0..1 /\ WriterRank \in 0..2
  BY DEF ReaderRank, LinkRank, WriterRank
<1> QED
  BY <1>1, <1>2, <1>3 DEF Measured

LEMMA TypesMeasuredAfter == TypeOK' => Measured'
<1> SUFFICES ASSUME TypeOK' PROVE Measured'
  OBVIOUS
<1>1. Len(dataCh') \in Nat /\ Len(toR') \in Nat /\ Len(toS') \in Nat /\ Len(diskCh') \in Nat
  BY LenProperties DEF TypeOK, ReaderOK, NetOK, WriterOK
<1>2. Unread' \in 0..Size
  <2>1. PICK n \in 0..Size : rdNext' = n
    BY DEF TypeOK, ReaderOK
  <2> QED
    BY <2>1, SizeAssumption DEF Unread
<1>3. ReaderRank' \in 0..2 /\ LinkRank' \in 0..1 /\ WriterRank' \in 0..2
  BY DEF ReaderRank, LinkRank, WriterRank
<1> QED
  BY <1>1, <1>2, <1>3 DEF Measured

LEMMA MeasuredCounts == Measured => Counted
<1> SUFFICES ASSUME Measured PROVE Counted
  OBVIOUS
<1>1. SenderWork \in Nat /\ ReceiverWork \in Nat
  BY DEF SenderWork, ReceiverWork
<1> QED
  BY <1>1, SizeAssumption DEF Measured, Counted, ReaderWork, NetWork, WriterWork

LEMMA MeasuredCountsAfter == Measured' => Counted'
<1> SUFFICES ASSUME Measured' PROVE Counted'
  OBVIOUS
<1>1. SenderWork' \in Nat /\ ReceiverWork' \in Nat
  BY DEF SenderWork, ReceiverWork
<1>2. PICK u \in Nat, k \in Nat, l \in Nat, x \in Nat :
        Unread' = u /\ ReaderRank' = k /\ LinkRank' = l /\ WriterRank' = x
  BY SizeAssumption DEF Measured
<1>3. PICK d \in Nat, m \in Nat, n \in Nat, j \in Nat :
        Len(dataCh') = d /\ Len(toR') = m /\ Len(toS') = n /\ Len(diskCh') = j
  BY DEF Measured
<1>4. ReaderWork' = 8 * u + 7 * d + k /\ NetWork' = 4 * m + n + l /\ WriterWork' = j + x
  BY <1>2, <1>3 DEF ReaderWork, NetWork, WriterWork
<1> QED
  BY <1>1, <1>4 DEF Counted

LEMMA WorkTypes == TypeOK /\ TypeOK' => Measured /\ Measured' /\ Counted /\ Counted'
  BY TypesMeasured, TypesMeasuredAfter, MeasuredCounts, MeasuredCountsAfter

\* The sum as a sum of constants, which is what the provers reckon with best.
LEMMA Ledger ==
  ASSUME Counted
  PROVE  \E s, r, n, v, w \in Nat :
           /\ SenderWork = s /\ ReaderWork = r /\ NetWork = n /\ ReceiverWork = v /\ WriterWork = w
           /\ Work = s + r + n + v + w
  BY DEF Counted, Work

LEMMA LedgerAfter ==
  ASSUME Counted'
  PROVE  \E s, r, n, v, w \in Nat :
           /\ SenderWork' = s /\ ReaderWork' = r /\ NetWork' = n /\ ReceiverWork' = v
           /\ WriterWork' = w /\ Work' = s + r + n + v + w
  BY DEF Counted, Work

\* What a step leaves alone costs the same after it.
LEMMA WorkKept ==
  /\ UNCHANGED sPc => SenderWork' = SenderWork
  /\ UNCHANGED <<rdPc, rdNext>> => Unread' = Unread /\ ReaderRank' = ReaderRank
  /\ UNCHANGED <<rdPc, rdNext, dataCh>> => ReaderWork' = ReaderWork
  /\ UNCHANGED link => LinkRank' = LinkRank
  /\ UNCHANGED netVars => NetWork' = NetWork
  /\ UNCHANGED rPc => ReceiverWork' = ReceiverWork
  /\ UNCHANGED wrPc => WriterRank' = WriterRank
  /\ UNCHANGED <<wrPc, diskCh>> => WriterWork' = WriterWork
  BY DEF SenderWork, ReaderWork, Unread, ReaderRank, NetWork, LinkRank, netVars, ReceiverWork,
     WriterWork, WriterRank

\* A frame that is queued adds one to the length, one that is read takes one.
LEMMA OneMore == ASSUME NEW S, NEW q \in Seq(S), NEW f PROVE Len(Append(q, f)) = Len(q) + 1
  OBVIOUS
LEMMA OneLess == ASSUME NEW S, NEW q \in Seq(S), q # <<>> PROVE Len(Tail(q)) = Len(q) - 1
  OBVIOUS

\* The sender's steps, by what they do to the frames on their way.
LEMMA SenderQueues ==
  ASSUME TypeOK, SenderStep
  PROVE  /\ UNCHANGED <<link, rPc, wrPc, diskCh>>
         /\ SendMetadata => Len(toR') = Len(toR) + 1 /\ Len(toS') = Len(toS) - 1
         /\ ReceiveAccept \/ MetadataFails \/ ReceiveAck
              => Len(toR') = Len(toR) /\ Len(toS') = Len(toS) - 1
         /\ SendChunk \/ SendComplete => Len(toR') = Len(toR) + 1 /\ Len(toS') = Len(toS)
         /\ SendAbort => (toR' = toR \/ Len(toR') = Len(toR) + 1) /\ Len(toS') = Len(toS)
         /\ Dequeue => Len(dataCh') = Len(dataCh) - 1
<1>1. toR \in Seq(Frames) /\ toS \in Seq(Frames) /\ dataCh \in Seq(Frames)
  BY DEF TypeOK, NetOK, ReaderOK
<1>2. UNCHANGED <<link, rPc, wrPc, diskCh>>
  BY DEF SenderStep, SendMetadata, ReceiveAccept, HandshakeFails, MetadataFails, PassGate, Dequeue, SendChunk,
     CancelSend, SendFailsInLoop, LeaveLoop, SendAbort, EndLoop, SendComplete, CompletionFails,
     ReceiveAck, netVars, receiverVars, writerVars
<1>3. SendMetadata => Len(toR') = Len(toR) + 1 /\ Len(toS') = Len(toS) - 1
  BY <1>1, OneMore, OneLess DEF SendMetadata
<1>4. ReceiveAccept \/ MetadataFails \/ ReceiveAck => Len(toR') = Len(toR) /\ Len(toS') = Len(toS) - 1
  BY <1>1, OneLess DEF ReceiveAccept, MetadataFails, ReceiveAck
<1>5. SendChunk \/ SendComplete => Len(toR') = Len(toR) + 1 /\ Len(toS') = Len(toS)
  BY <1>1, OneMore DEF SendChunk, SendComplete
<1>6. SendAbort => (toR' = toR \/ Len(toR') = Len(toR) + 1) /\ Len(toS') = Len(toS)
  BY <1>1, OneMore DEF SendAbort
<1>7. Dequeue => Len(dataCh') = Len(dataCh) - 1
  BY <1>1, OneLess DEF Dequeue
<1> QED
  BY <1>2, <1>3, <1>4, <1>5, <1>6, <1>7

LEMMA SenderWorks == TypeOK /\ TypeOK' /\ NotReading /\ SenderStep => Work' < Work
<1> SUFFICES ASSUME TypeOK, TypeOK', NotReading, SenderStep PROVE Work' < Work
  OBVIOUS
<1>t. Measured /\ Measured' /\ Counted /\ Counted'
  BY WorkTypes
<1>p. PICK s \in Nat, r \in Nat, n \in Nat, v \in Nat, w \in Nat :
        /\ SenderWork = s /\ ReaderWork = r /\ NetWork = n /\ ReceiverWork = v /\ WriterWork = w
        /\ Work = s + r + n + v + w
  BY <1>t, Ledger
<1>q. PICK s1 \in Nat, r1 \in Nat, n1 \in Nat, v1 \in Nat, w1 \in Nat :
        /\ SenderWork' = s1 /\ ReaderWork' = r1 /\ NetWork' = n1 /\ ReceiverWork' = v1
        /\ WriterWork' = w1 /\ Work' = s1 + r1 + n1 + v1 + w1
  BY <1>t, LedgerAfter
<1>u. ReceiverWork' = ReceiverWork /\ WriterWork' = WriterWork /\ LinkRank' = LinkRank
  BY SenderQueues, WorkKept
<1>1. CASE SendMetadata
  <2>1. SenderWork = 14 /\ SenderWork' = 10 /\ ReaderWork' = ReaderWork
    BY <1>1, WorkKept DEF SendMetadata, SenderWork, readerVars
  <2>2. NetWork' = NetWork + 3
    <3>1. PICK a \in Nat, b \in Nat, k \in Nat : Len(toR) = a /\ Len(toS) = b /\ LinkRank = k
      BY <1>t DEF Measured
    <3>2. Len(toR') = a + 1 /\ Len(toS') = b - 1 /\ LinkRank' = k
      BY <1>1, <1>u, <3>1, SenderQueues
    <3> QED
      BY <3>1, <3>2 DEF NetWork
  <2> QED
    BY <1>p, <1>q, <1>u, <2>1, <2>2
<1>2. CASE ReceiveAccept
  <2>1. SenderWork = 10 /\ SenderWork' = 8
    BY <1>2 DEF ReceiveAccept, SenderWork
  <2>2. NetWork' = NetWork - 1
    BY <1>2, <1>t, <1>u, SenderQueues DEF Measured, NetWork
  <2>3. Unread' = Unread /\ ReaderRank = 0 /\ ReaderRank' = 2 /\ UNCHANGED dataCh
    BY <1>2 DEF ReceiveAccept, NotReading, Unread, ReaderRank
  <2>4. ReaderWork' = ReaderWork + 2
    BY <1>t, <2>3, SizeAssumption DEF Measured, ReaderWork
  <2> QED
    BY <1>p, <1>q, <1>u, <2>1, <2>2, <2>4
<1>3. CASE HandshakeFails \/ PassGate \/ CancelSend \/ SendFailsInLoop \/ EndLoop \/ CompletionFails
  <2>1. SenderWork' < SenderWork
    BY <1>3 DEF HandshakeFails, PassGate, CancelSend, SendFailsInLoop, LeaveLoop, EndLoop,
       CompletionFails, SenderReturns, SenderWork
  <2>2. UNCHANGED readerVars /\ UNCHANGED netVars
    BY <1>3 DEF HandshakeFails, PassGate, CancelSend, SendFailsInLoop, LeaveLoop, EndLoop,
       CompletionFails
  <2>3. ReaderWork' = ReaderWork /\ NetWork' = NetWork
    BY <2>2, WorkKept DEF readerVars
  <2> QED
    BY <1>p, <1>q, <1>u, <2>1, <2>3
<1>4. CASE Dequeue
  <2>1. SenderWork = 7 /\ SenderWork' = 13 /\ NetWork' = NetWork
    BY <1>4, WorkKept DEF Dequeue, SenderWork
  <2>2. Unread' = Unread /\ ReaderRank' = ReaderRank
    BY <1>4, WorkKept DEF Dequeue
  <2>3. ReaderWork' = ReaderWork - 7
    BY <1>4, <1>t, <2>2, SenderQueues, SizeAssumption DEF Measured, ReaderWork
  <2> QED
    BY <1>p, <1>q, <1>u, <2>1, <2>3
<1>5. CASE SendChunk \/ SendAbort \/ SendComplete
  <2>1. SenderWork' + 5 <= SenderWork /\ ReaderWork' = ReaderWork
    BY <1>5, WorkKept DEF SendChunk, SendAbort, SendComplete, SenderReturns, SenderWork, readerVars
  <2>2. NetWork' <= NetWork + 4
    BY <1>5, <1>t, <1>u, SenderQueues DEF Measured, NetWork
  <2> QED
    BY <1>p, <1>q, <1>u, <2>1, <2>2
<1>6. CASE MetadataFails \/ ReceiveAck
  <2>1. SenderWork' < SenderWork /\ ReaderWork' = ReaderWork
    BY <1>6, WorkKept DEF MetadataFails, ReceiveAck, SenderReturns, SenderWork, readerVars
  <2>2. NetWork' = NetWork - 1
    BY <1>6, <1>t, <1>u, SenderQueues DEF Measured, NetWork
  <2> QED
    BY <1>p, <1>q, <1>u, <2>1, <2>2
<1> QED
  BY <1>1, <1>2, <1>3, <1>4, <1>5, <1>6 DEF SenderStep

ReceiverSide == ReceiverStep \/ Reject \/ Approve

\* The receiver's steps, by what they do to the frames and the blocks on their way.
LEMMA ReceiverQueues ==
  ASSUME TypeOK, ReceiverSide
  PROVE  /\ UNCHANGED <<link, sPc, rdPc, rdNext, dataCh>>
         /\ Accept \/ UNCHANGED wrPc
         /\ AnswerHello => Len(toR') = Len(toR) - 1 /\ Len(toS') = Len(toS) + 1
         /\ ReceiveMetadata \/ ReadChunk => Len(toR') = Len(toR) - 1 /\ UNCHANGED toS
         /\ ReadLast => Len(toR') = Len(toR) - 1 /\ (toS' = toS \/ Len(toS') = Len(toS) + 1)
         /\ Accept => UNCHANGED toR /\ Len(toS') = Len(toS) + 1
         /\ CancelReceive \/ Discard \/ VerifyGood \/ VerifyBad \/ VerifyFails
              => UNCHANGED toR /\ (toS' = toS \/ Len(toS') = Len(toS) + 1)
         /\ IncomingFails \/ Reject \/ Approve \/ PassReceiverGate \/ Forward \/ ReadFails
              \/ ForwardFails => UNCHANGED <<toR, toS>>
         /\ IF Forward THEN Len(diskCh') = Len(diskCh) + 1 ELSE UNCHANGED diskCh
<1>1. toR \in Seq(Frames) /\ toS \in Seq(Frames) /\ diskCh \in Seq([blk : Nat, frame : Frames])
  BY DEF TypeOK, NetOK, WriterOK
<1>2. UNCHANGED <<link, sPc, rdPc, rdNext, dataCh>>
  BY DEF ReceiverSide, ReceiverStep, AnswerHello, ReceiveMetadata, IncomingFails, Reject, Approve,
     Accept, PassReceiverGate, ReadChunk, Forward, CancelReceive, ReadLast, ReadFails, ForwardFails,
     AfterLoop, Discard, VerifyGood, VerifyBad, VerifyFails, senderVars, readerVars, netVars
<1>3. /\ Accept \/ UNCHANGED wrPc
      /\ ~Forward => UNCHANGED diskCh
  BY DEF ReceiverSide, ReceiverStep, AnswerHello, ReceiveMetadata, IncomingFails, Reject, Approve,
     Accept, PassReceiverGate, ReadChunk, Forward, CancelReceive, ReadLast, ReadFails, ForwardFails,
     AfterLoop, Discard, VerifyGood, VerifyBad, VerifyFails, writerVars
<1>4. AnswerHello => Len(toR') = Len(toR) - 1 /\ Len(toS') = Len(toS) + 1
  BY <1>1, OneMore, OneLess DEF AnswerHello
<1>5. ReceiveMetadata \/ ReadChunk => Len(toR') = Len(toR) - 1 /\ UNCHANGED toS
  BY <1>1, OneLess DEF ReceiveMetadata, ReadChunk
<1>6. SayCancelled => toS' = toS \/ Len(toS') = Len(toS) + 1
  BY <1>1, OneMore DEF SayCancelled
<1>7. ReadLast => Len(toR') = Len(toR) - 1 /\ (toS' = toS \/ Len(toS') = Len(toS) + 1)
  BY <1>1, <1>6, OneLess DEF ReadLast
<1>8. Accept => UNCHANGED toR /\ Len(toS') = Len(toS) + 1
  BY <1>1, OneMore DEF Accept
<1>9. CancelReceive \/ Discard \/ VerifyGood \/ VerifyBad \/ VerifyFails
        => UNCHANGED toR /\ (toS' = toS \/ Len(toS') = Len(toS) + 1)
  BY <1>1, <1>6, OneMore DEF CancelReceive, Discard, VerifyGood, VerifyBad, VerifyFails, netVars
<1>10. IncomingFails \/ Reject \/ Approve \/ PassReceiverGate \/ Forward \/ ReadFails \/ ForwardFails
         => UNCHANGED <<toR, toS>>
  BY DEF IncomingFails, Reject, Approve, PassReceiverGate, Forward, ReadFails, ForwardFails, netVars
<1>11. Forward => Len(diskCh') = Len(diskCh) + 1
  BY <1>1, OneMore DEF Forward
<1> QED
  BY <1>2, <1>3, <1>4, <1>5, <1>7, <1>8, <1>9, <1>10, <1>11

LEMMA ReceiverWorks == TypeOK /\ TypeOK' /\ ReceiverSide => Work' < Work
<1> SUFFICES ASSUME TypeOK, TypeOK', ReceiverSide PROVE Work' < Work
  OBVIOUS
<1>t. Measured /\ Measured' /\ Counted /\ Counted'
  BY WorkTypes
<1>p. PICK s \in Nat, r \in Nat, n \in Nat, v \in Nat, w \in Nat :
        /\ SenderWork = s /\ ReaderWork = r /\ NetWork = n /\ ReceiverWork = v /\ WriterWork = w
        /\ Work = s + r + n + v + w
  BY <1>t, Ledger
<1>q. PICK s1 \in Nat, r1 \in Nat, n1 \in Nat, v1 \in Nat, w1 \in Nat :
        /\ SenderWork' = s1 /\ ReaderWork' = r1 /\ NetWork' = n1 /\ ReceiverWork' = v1
        /\ WriterWork' = w1 /\ Work' = s1 + r1 + n1 + v1 + w1
  BY <1>t, LedgerAfter
<1>u. SenderWork' = SenderWork /\ ReaderWork' = ReaderWork /\ LinkRank' = LinkRank
  BY ReceiverQueues, WorkKept
<1>w. Accept \/ WriterRank' = WriterRank
  BY ReceiverQueues, WorkKept
<1>1. CASE AnswerHello
  <2>1. ReceiverWork = 11 /\ ReceiverWork' = 10
    BY <1>1 DEF AnswerHello, ReceiverWork
  <2>2. NetWork' = NetWork - 3 /\ UNCHANGED <<wrPc, diskCh>>
    BY <1>1, <1>t, <1>u, ReceiverQueues DEF Measured, NetWork, AnswerHello, writerVars
  <2>3. WriterWork' = WriterWork
    BY <2>2, WorkKept
  <2> QED
    BY <1>p, <1>q, <1>u, <2>1, <2>2, <2>3
<1>2. CASE ReceiveMetadata \/ ReadChunk
  <2>1. ReceiverWork' <= ReceiverWork + 3 /\ UNCHANGED <<wrPc, diskCh>>
    BY <1>2 DEF ReceiveMetadata, ReadChunk, ReceiverWork, writerVars
  <2>2. NetWork' = NetWork - 4
    BY <1>2, <1>t, <1>u, ReceiverQueues DEF Measured, NetWork
  <2>3. WriterWork' = WriterWork
    BY <2>1, WorkKept
  <2> QED
    BY <1>p, <1>q, <1>u, <2>1, <2>2, <2>3
<1>3. CASE IncomingFails \/ Reject \/ Approve \/ PassReceiverGate \/ ReadFails \/ ForwardFails
  <2>1. ReceiverWork' < ReceiverWork /\ UNCHANGED <<wrPc, diskCh>>
    BY <1>3 DEF IncomingFails, Reject, Approve, PassReceiverGate, ReadFails, ForwardFails, AfterLoop,
       ReceiverReturns, ReceiverWork, writerVars
  <2>2. UNCHANGED netVars
    BY <1>3, ReceiverQueues DEF netVars
  <2>3. NetWork' = NetWork /\ WriterWork' = WriterWork
    BY <2>1, <2>2, WorkKept
  <2> QED
    BY <1>p, <1>q, <1>u, <2>1, <2>3
<1>4. CASE Accept
  <2>1. ReceiverWork = 8 /\ ReceiverWork' = 4
    BY <1>4 DEF Accept, ReceiverWork
  <2>2. NetWork' = NetWork + 1
    BY <1>4, <1>t, <1>u, ReceiverQueues DEF Measured, NetWork
  <2>3. UNCHANGED diskCh
    BY <1>4 DEF Accept
  <2>4. WriterWork' <= WriterWork + 2
    BY <1>t, <2>3 DEF Measured, WriterWork
  <2> QED
    BY <1>p, <1>q, <1>u, <2>1, <2>2, <2>4
<1>5. CASE Forward
  <2>1. ReceiverWork = 6 /\ ReceiverWork' = 4 /\ NetWork' = NetWork /\ UNCHANGED wrPc
    BY <1>5, WorkKept DEF Forward, ReceiverWork
  <2>2. Len(diskCh') = Len(diskCh) + 1 /\ WriterRank' = WriterRank
    BY <1>5, <2>1, ReceiverQueues, WorkKept
  <2>3. WriterWork' = WriterWork + 1
    BY <1>t, <2>2 DEF Measured, WriterWork
  <2> QED
    BY <1>p, <1>q, <1>u, <2>1, <2>3
<1>6. CASE ReadLast
  <2>1. ReceiverWork = 3 /\ ReceiverWork' = 2 /\ UNCHANGED <<wrPc, diskCh>>
    BY <1>6 DEF ReadLast, AfterLoop, ReceiverWork, writerVars
  <2>2. NetWork' < NetWork
    BY <1>6, <1>t, <1>u, ReceiverQueues DEF Measured, NetWork
  <2>3. WriterWork' = WriterWork
    BY <2>1, WorkKept
  <2> QED
    BY <1>p, <1>q, <1>u, <2>1, <2>2, <2>3
<1>7. CASE CancelReceive \/ Discard \/ VerifyGood \/ VerifyBad \/ VerifyFails
  <2>1. ReceiverWork' + 2 <= ReceiverWork /\ UNCHANGED <<wrPc, diskCh>>
    BY <1>7 DEF CancelReceive, AfterLoop, Discard, VerifyGood, VerifyBad, VerifyFails,
       ReceiverReturns, ReceiverWork, writerVars
  <2>2. NetWork' <= NetWork + 1
    BY <1>7, <1>t, <1>u, ReceiverQueues DEF Measured, NetWork
  <2>3. WriterWork' = WriterWork
    BY <2>1, WorkKept
  <2> QED
    BY <1>p, <1>q, <1>u, <2>1, <2>2, <2>3
<1> QED
  BY <1>1, <1>2, <1>3, <1>4, <1>5, <1>6, <1>7 DEF ReceiverSide, ReceiverStep

LEMMA ReaderWorks == TypeOK /\ TypeOK' /\ ReaderTask => Work' < Work
<1> SUFFICES ASSUME TypeOK, TypeOK', ReaderTask PROVE Work' < Work
  OBVIOUS
<1>t. Measured /\ Measured' /\ Counted /\ Counted'
  BY WorkTypes
<1>p. PICK s \in Nat, r \in Nat, n \in Nat, v \in Nat, w \in Nat :
        /\ SenderWork = s /\ ReaderWork = r /\ NetWork = n /\ ReceiverWork = v /\ WriterWork = w
        /\ Work = s + r + n + v + w
  BY <1>t, Ledger
<1>q. PICK s1 \in Nat, r1 \in Nat, n1 \in Nat, v1 \in Nat, w1 \in Nat :
        /\ SenderWork' = s1 /\ ReaderWork' = r1 /\ NetWork' = n1 /\ ReceiverWork' = v1
        /\ WriterWork' = w1 /\ Work' = s1 + r1 + n1 + v1 + w1
  BY <1>t, LedgerAfter
<1>r. rdNext \in 0..Size /\ start \in 0..Size /\ rdNext' \in 0..Size
  BY DEF TypeOK, ReaderOK
<1>u. UNCHANGED <<sPc, rPc, wrPc, diskCh>> /\ UNCHANGED netVars
  BY DEF ReaderTask, ReaderOpen, ReaderBlock, ReaderEnd, ReaderFails, senderVars, receiverVars,
     writerVars
<1>1. SenderWork' = SenderWork /\ NetWork' = NetWork /\ ReceiverWork' = ReceiverWork
      /\ WriterWork' = WriterWork
  BY <1>u, WorkKept
<1>2. CASE ReaderBlock
  <2>1. rdPc = "run" /\ rdPc' = "run" /\ rdNext < Size /\ rdNext' = Smaller(rdNext + Block, Size)
    BY <1>2 DEF ReaderBlock
  <2>2. rdNext' > rdNext
    BY <1>r, <2>1, SizeAssumption DEF Smaller
  <2>3. Unread' + 1 <= Unread /\ ReaderRank' = ReaderRank
    BY <1>r, <2>1, <2>2, SizeAssumption DEF Unread, ReaderRank
  <2>4. Len(dataCh') = Len(dataCh) + 1
    BY <1>2, OneMore DEF ReaderBlock, TypeOK, ReaderOK
  <2>5. ReaderWork' < ReaderWork
    <3>1. PICK u \in Nat, k \in Nat, d \in Nat : Unread = u /\ ReaderRank = k /\ Len(dataCh) = d
      <4>1. Unread \in Nat /\ ReaderRank \in Nat /\ Len(dataCh) \in Nat
        BY <1>t, SizeAssumption DEF Measured
      <4> QED
        BY <4>1
    <3>u. PICK u1 \in Nat : Unread' = u1
      BY <1>t, SizeAssumption DEF Measured
    <3>2. ReaderWork = 8 * u + 7 * d + k /\ ReaderWork' = 8 * u1 + 7 * (d + 1) + k /\ u1 + 1 <= u
      BY <2>3, <2>4, <3>1, <3>u DEF ReaderWork
    <3> QED
      BY <3>2
  <2> QED
    BY <1>p, <1>q, <1>1, <2>5
<1>3. CASE ReaderOpen \/ ReaderEnd \/ ReaderFails
  <2>1. /\ UNCHANGED dataCh /\ rdPc \in {"opening", "run"} /\ rdPc' \in {"run", "ok", "failed"}
        /\ rdPc = "run" => rdPc' # "run" /\ rdNext' = rdNext
    BY <1>3 DEF ReaderOpen, ReaderEnd, ReaderFails
  <2>2. ReaderRank' < ReaderRank
    BY <2>1 DEF ReaderRank
  <2>3. Unread' <= Unread
    <3>1. PICK z \in 0..Size : rdNext' = z
      BY <1>r
    <3> QED
      BY <1>r, <2>1, <3>1, SizeAssumption DEF Unread
  <2>4. ReaderWork' < ReaderWork
    <3>1. PICK u \in Nat, u1 \in Nat, k \in Nat, k1 \in Nat, d \in Nat :
            /\ Unread = u /\ Unread' = u1 /\ ReaderRank = k /\ ReaderRank' = k1
            /\ Len(dataCh) = d /\ Len(dataCh') = d
      <4>1. Unread \in Nat /\ ReaderRank \in Nat /\ Len(dataCh) \in Nat
        BY <1>t, SizeAssumption DEF Measured
      <4>2. Unread' \in Nat /\ ReaderRank' \in Nat
        BY <1>t, SizeAssumption DEF Measured
      <4>3. Len(dataCh') = Len(dataCh)
        BY <2>1
      <4> QED
        BY <4>1, <4>2, <4>3, Zenon
    <3>2. u1 <= u /\ k1 < k
      BY <2>2, <2>3, <3>1
    <3> QED
      BY <3>1, <3>2 DEF ReaderWork
  <2> QED
    BY <1>p, <1>q, <1>1, <2>4
<1> QED
  BY <1>2, <1>3 DEF ReaderTask

LEMMA WriterWorks == TypeOK /\ TypeOK' /\ (WriterTask \/ ReceiverCrash) => Work' < Work
<1> SUFFICES ASSUME TypeOK, TypeOK', WriterTask \/ ReceiverCrash PROVE Work' < Work
  OBVIOUS
<1>t. Measured /\ Measured' /\ Counted /\ Counted'
  BY WorkTypes
<1>p. PICK s \in Nat, r \in Nat, n \in Nat, v \in Nat, w \in Nat :
        /\ SenderWork = s /\ ReaderWork = r /\ NetWork = n /\ ReceiverWork = v /\ WriterWork = w
        /\ Work = s + r + n + v + w
  BY <1>t, Ledger
<1>q. PICK s1 \in Nat, r1 \in Nat, n1 \in Nat, v1 \in Nat, w1 \in Nat :
        /\ SenderWork' = s1 /\ ReaderWork' = r1 /\ NetWork' = n1 /\ ReceiverWork' = v1
        /\ WriterWork' = w1 /\ Work' = s1 + r1 + n1 + v1 + w1
  BY <1>t, LedgerAfter
<1>u. UNCHANGED <<sPc, rdPc, rdNext, dataCh>> /\ UNCHANGED netVars
  BY DEF WriterTask, WriterOpen, WriterBlock, WriterEnd, WriterFails, ReceiverCrash, senderVars,
     readerVars
<1>1. SenderWork' = SenderWork /\ NetWork' = NetWork /\ ReaderWork' = ReaderWork
  BY <1>u, WorkKept
<1>2. CASE WriterTask
  <2>1. ReceiverWork' = ReceiverWork
    BY <1>2, WorkKept DEF WriterTask, WriterOpen, WriterBlock, WriterEnd, WriterFails, receiverVars
  <2>2. CASE WriterBlock
    <3>1. Len(diskCh') = Len(diskCh) - 1
      BY <2>2, OneLess DEF WriterBlock, TypeOK, WriterOK
    <3>2. WriterRank' <= WriterRank
      BY <2>2 DEF WriterBlock, WriterRank
    <3>3. WriterWork' < WriterWork
      <4>1. PICK a \in Nat, b \in Nat, c \in Nat, d \in Nat :
              Len(diskCh) = a /\ Len(diskCh') = b /\ WriterRank = c /\ WriterRank' = d
        BY <1>t DEF Measured
      <4>2. b < a /\ d <= c
        BY <3>1, <3>2, <4>1
      <4> QED
        BY <4>1, <4>2 DEF WriterWork
    <3> QED
      BY <1>p, <1>q, <1>1, <2>1, <3>3
  <2>3. CASE WriterOpen \/ WriterEnd \/ WriterFails
    <3>1. WriterRank' < WriterRank
      BY <2>3 DEF WriterOpen, WriterEnd, WriterFails, WriterRank
    <3>2. diskCh' = diskCh \/ diskCh' = <<>>
      BY <2>3 DEF WriterOpen, WriterEnd, WriterFails
    <3>3. Len(diskCh') <= Len(diskCh)
      BY <1>t, <3>2 DEF Measured
    <3>4. WriterWork' < WriterWork
      <4>1. PICK a \in Nat, b \in Nat, c \in Nat, d \in Nat :
              Len(diskCh) = a /\ Len(diskCh') = b /\ WriterRank = c /\ WriterRank' = d
        BY <1>t DEF Measured
      <4>2. b <= a /\ d < c
        BY <3>1, <3>3, <4>1
      <4> QED
        BY <4>1, <4>2 DEF WriterWork
    <3> QED
      BY <1>p, <1>q, <1>1, <2>1, <3>4
  <2> QED
    BY <1>2, <2>2, <2>3 DEF WriterTask
<1>3. CASE ReceiverCrash
  <2>1. ReceiverWork' = 0 /\ ReceiverWork > 0
    BY <1>3 DEF ReceiverCrash, ReceiverReturns, ReceiverWork, TypeOK, ReceiverOK, ReceiverPcs,
       ReceiverLoop
  <2>2. WriterRank' = 0 /\ Len(diskCh') = 0
    BY <1>3 DEF ReceiverCrash, WriterRank
  <2>3. WriterWork' = 0
    BY <2>2 DEF WriterWork
  <2> QED
    BY <1>p, <1>q, <1>1, <2>1, <2>3
<1> QED
  BY <1>2, <1>3

LEMMA NetworkWorks == TypeOK /\ TypeOK' /\ LoseFrames => Work' < Work
<1> SUFFICES ASSUME TypeOK, TypeOK', LoseFrames PROVE Work' < Work
  OBVIOUS
<1>t. Measured /\ Measured' /\ Counted /\ Counted'
  BY WorkTypes
<1>p. PICK s \in Nat, r \in Nat, n \in Nat, v \in Nat, w \in Nat :
        /\ SenderWork = s /\ ReaderWork = r /\ NetWork = n /\ ReceiverWork = v /\ WriterWork = w
        /\ Work = s + r + n + v + w
  BY <1>t, Ledger
<1>q. PICK s1 \in Nat, r1 \in Nat, n1 \in Nat, v1 \in Nat, w1 \in Nat :
        /\ SenderWork' = s1 /\ ReaderWork' = r1 /\ NetWork' = n1 /\ ReceiverWork' = v1
        /\ WriterWork' = w1 /\ Work' = s1 + r1 + n1 + v1 + w1
  BY <1>t, LedgerAfter
<1>1. SenderWork' = SenderWork /\ ReaderWork' = ReaderWork /\ ReceiverWork' = ReceiverWork
      /\ WriterWork' = WriterWork
  BY WorkKept DEF LoseFrames, senderVars, readerVars, receiverVars, writerVars
<1>2. Len(toR') <= Len(toR) /\ Len(toS') <= Len(toS)
  BY CutOff DEF LoseFrames, TypeOK, NetOK
<1>3. LinkRank = 1 /\ LinkRank' = 0
  BY DEF LoseFrames, LinkRank
<1>4. NetWork' < NetWork
  BY <1>t, <1>2, <1>3 DEF Measured, NetWork
<1> QED
  BY <1>p, <1>q, <1>1, <1>4

LEMMA StepNotReading == NotReading /\ [Next]_vars => NotReading'
<1> SUFFICES ASSUME NotReading, [Next]_vars PROVE NotReading'
  OBVIOUS
<1>1. CASE SenderStep
  BY <1>1 DEF NotReading, SenderStep, SendMetadata, ReceiveAccept, HandshakeFails, MetadataFails, PassGate, Dequeue,
     SendChunk, CancelSend, SendFailsInLoop, LeaveLoop, SendAbort, EndLoop, SendComplete,
     CompletionFails, ReceiveAck, SenderReturns, readerVars
<1>2. CASE ReaderTask
  <2>1. UNCHANGED sPc /\ rdPc # "off"
    BY <1>2 DEF ReaderTask, ReaderOpen, ReaderBlock, ReaderEnd, ReaderFails, senderVars
  <2> QED
    BY <2>1 DEF NotReading
<1>3. CASE Connect
  BY <1>3 DEF Connect, NotReading
<1>4. CASE ReceiverSide \/ WriterTask \/ ReceiverCrash \/ LoseFrames \/ UserStep \/ UNCHANGED vars
  <2>1. UNCHANGED <<sPc, rdPc>>
    BY <1>4 DEF ReceiverSide, ReceiverStep, AnswerHello, ReceiveMetadata, IncomingFails, Reject,
       Approve, Accept, PassReceiverGate, ReadChunk, Forward, CancelReceive, ReadLast, ReadFails,
       ForwardFails, AfterLoop, Discard, VerifyGood, VerifyBad, VerifyFails, WriterTask, WriterOpen,
       WriterBlock, WriterEnd, WriterFails, ReceiverCrash, LoseFrames, UserStep, PauseSender,
       ResumeSender, CancelSender, PauseReceiver, ResumeReceiver, CancelReceiver, EditSource,
       vars, senderVars, readerVars
  <2> QED
    BY <2>1 DEF NotReading
<1> QED
  BY <1>1, <1>2, <1>3, <1>4 DEF Next, ReceiverSide, UserStep, PeerReset, Break

LEMMA StepWorks ==
  TypeOK /\ TypeOK' /\ NotReading /\ [Next]_vars
    => [Connect \/ (UserStep /\ Work' = Work) \/ Work' < Work]_vars
<1> SUFFICES ASSUME TypeOK, TypeOK', NotReading, Next
             PROVE  Connect \/ (UserStep /\ Work' = Work) \/ Work' < Work
  OBVIOUS
<1>1. CASE UserStep
  <2>1. UNCHANGED <<sPc, rdPc, rdNext, dataCh, rPc, wrPc, diskCh>> /\ UNCHANGED netVars
    BY <1>1 DEF UserStep, PauseSender, ResumeSender, CancelSender, PauseReceiver, ResumeReceiver,
       CancelReceiver, EditSource, senderVars, readerVars, receiverVars, writerVars
  <2>2. SenderWork' = SenderWork /\ ReaderWork' = ReaderWork /\ NetWork' = NetWork
        /\ ReceiverWork' = ReceiverWork /\ WriterWork' = WriterWork
    BY <2>1, WorkKept
  <2> QED
    BY <1>1, <2>2 DEF Work
<1>2. CASE SenderStep
  BY <1>2, SenderWorks
<1>3. CASE ReceiverSide
  BY <1>3, ReceiverWorks
<1>4. CASE ReaderTask
  BY <1>4, ReaderWorks
<1>5. CASE WriterTask \/ ReceiverCrash
  BY <1>5, WriterWorks
<1>6. CASE LoseFrames
  BY <1>6, NetworkWorks
<1> QED
  BY <1>1, <1>2, <1>3, <1>4, <1>5, <1>6 DEF Next, ReceiverSide, UserStep, PeerReset, Break

LEMMA AlwaysNotReading == SafeSpec => []NotReading
<1>1. Init => NotReading
  BY DEF Init, NotReading
<1> QED
  BY <1>1, StepNotReading, PTL DEF SafeSpec

\* Every step of either function, of their tasks and of the connection, the
\* faults included, leaves less to do than there was; only a new connection
\* brings work, and what the users do costs none.
THEOREM NothingIsDoneTwice == SafeSpec => EveryStepCounts
  BY StepWorks, AlwaysNotReading, TypeCorrect, PTL DEF SafeSpec, EveryStepCounts

LEMMA StepBounded ==
  TypeOK /\ TypeOK' /\ NotReading /\ WorkIsBounded /\ [Next]_vars => WorkIsBounded'
<1> SUFFICES ASSUME TypeOK, TypeOK', NotReading, WorkIsBounded, [Next]_vars PROVE WorkIsBounded'
  OBVIOUS
<1>1. Work \in Nat /\ Work' \in Nat
  BY WorkTypes DEF Counted, Work
<1>2. CASE Connect
  <2>1. SenderWork' = 14 /\ ReceiverWork' = 11
    BY <1>2 DEF Connect, SenderWork, ReceiverWork
  <2>2. Unread' = Size /\ ReaderRank' = 0 /\ Len(dataCh') = 0
    BY <1>2 DEF Connect, Unread, ReaderRank
  <2>3. Len(toR') = 1 /\ Len(toS') = 0 /\ LinkRank' = 1
    BY <1>2 DEF Connect, LinkRank
  <2>4. WriterRank' = 0 /\ Len(diskCh') = 0
    BY <1>2 DEF Connect, WriterRank
  <2>5. Work' = Stock
    BY <2>1, <2>2, <2>3, <2>4, SizeAssumption DEF ReaderWork, NetWork, WriterWork, Work, Stock
  <2> QED
    BY <1>1, <2>5 DEF WorkIsBounded
<1>3. CASE Work' = Work \/ Work' < Work
  BY <1>1, <1>3, SizeAssumption DEF WorkIsBounded, Stock
<1>4. CASE UNCHANGED vars
  <2>1. SenderWork' = SenderWork /\ ReaderWork' = ReaderWork /\ NetWork' = NetWork
        /\ ReceiverWork' = ReceiverWork /\ WriterWork' = WriterWork
    BY <1>4, WorkKept DEF vars, senderVars, readerVars, receiverVars, writerVars
  <2> QED
    BY <1>3, <2>1 DEF Work
<1> QED
  BY <1>2, <1>3, <1>4, StepWorks

\* An attempt has at most 8 * Size + 30 steps ahead of it at any time, besides
\* the users', whatever fails on the way.
THEOREM StepsAreBounded == SafeSpec => []WorkIsBounded
<1>1. Init => WorkIsBounded
  <2> SUFFICES ASSUME Init PROVE WorkIsBounded
    OBVIOUS
  <2>1. SenderWork = 0 /\ ReceiverWork = 0
    BY DEF Init, SenderWork, ReceiverWork
  <2>2. Unread = Size /\ ReaderRank = 0 /\ Len(dataCh) = 0
    BY DEF Init, Unread, ReaderRank
  <2>3. Len(toR) = 0 /\ Len(toS) = 0 /\ LinkRank = 0
    BY DEF Init, LinkRank
  <2>4. WriterRank = 0 /\ Len(diskCh) = 0
    BY DEF Init, WriterRank
  <2>5. Work = 8 * Size
    BY <2>1, <2>2, <2>3, <2>4, SizeAssumption DEF ReaderWork, NetWork, WriterWork, Work
  <2> QED
    BY <2>5, SizeAssumption DEF WorkIsBounded, Stock
<1> QED
  BY <1>1, StepBounded, AlwaysNotReading, TypeCorrect, PTL DEF SafeSpec

-----------------------------------------------------------------------------
(* Progress: an accepted transfer that ends was delivered, or something     *)
(* befell it                                                                *)

\* COMPLETE is the last frame and follows the whole file, and the receiver
\* verifies only when it has come.
Last ==
  /\ \A i \in 1..Len(toR) : toR[i].tag = "complete" => i = Len(toR)
  /\ Carries(toR, "complete") \/ reason = "complete" \/ sPc = "ack" => rdPc = "ok" /\ rdNext >= Size
  /\ reason = "complete" => toR = <<>> /\ sPc \in {"ack", "done"}
  /\ rPc = "drain" => reason # "none"
  /\ rPc # "done" => rResult = "none"
  /\ rResult \in {"complete", "unacked", "mismatch"} => reason = "complete"
  /\ sPc \in {"idle", "hello", "await"} => rdPc = "off"
  /\ sPc \in SenderLoop \cup {"join"} /\ rdPc = "ok" => rdNext >= Size

lastVars == <<toR, reason, sPc, rPc, rdPc, rdNext, rResult>>

LEMMA LastUnchanged == Last /\ UNCHANGED lastVars => Last'
  BY DEF Last, Carries, lastVars

LEMMA InitLast == Init => Last
  BY DEF Init, Last, Carries, SenderLoop

\* The last frame stays the last when the first one is read, when none is added
\* behind it, and when it is cut off.
LEMMA LastOfRest ==
  ASSUME NEW q \in Seq(Frames), q # <<>>, \A i \in 1..Len(q) : q[i].tag = "complete" => i = Len(q)
  PROVE  /\ \A i \in 1..Len(Tail(q)) : Tail(q)[i].tag = "complete" => i = Len(Tail(q))
         /\ Head(q).tag = "complete" => Tail(q) = <<>>
<1>1. /\ Len(q) \in Nat /\ Len(q) # 0 /\ Head(q) = q[1] /\ Tail(q) \in Seq(Frames)
      /\ Len(Tail(q)) = Len(q) - 1 /\ \A i \in 1..Len(Tail(q)) : Tail(q)[i] = q[i + 1]
  BY HeadTailProperties, EmptySeq
<1>2. PICK n \in Nat : Len(q) = n /\ n # 0 /\ Len(Tail(q)) = n - 1
  BY <1>1
<1>3. ASSUME NEW i \in 1..(n - 1), Tail(q)[i].tag = "complete" PROVE i = n - 1
  <2>1. i + 1 \in 1..n /\ q[i + 1].tag = "complete"
    BY <1>1, <1>2, <1>3
  <2> QED
    BY <1>2, <2>1
<1>4. Head(q).tag = "complete" => Tail(q) = <<>>
  <2>1. Head(q).tag = "complete" => 1 = n
    <3>1. 1 \in 1..n
      BY <1>2
    <3> QED
      BY <1>1, <1>2, <3>1
  <2> QED
    BY <1>1, <1>2, <2>1, EmptySeq
<1> QED
  BY <1>2, <1>3, <1>4

LEMMA LastOfMore ==
  ASSUME NEW q \in Seq(Frames), NEW f \in Frames, ~Carries(q, "complete")
  PROVE  \A i \in 1..Len(Append(q, f)) : Append(q, f)[i].tag = "complete" => i = Len(Append(q, f))
<1>1. Len(q) \in Nat /\ Len(Append(q, f)) = Len(q) + 1 /\ \A i \in 1..Len(q) : Append(q, f)[i] = q[i]
  BY AppendProperties
<1> SUFFICES ASSUME NEW i \in 1..Len(Append(q, f)), Append(q, f)[i].tag = "complete", i # Len(q) + 1
             PROVE  FALSE
  BY <1>1
<1>2. i \in 1..Len(q)
  BY <1>1
<1> QED
  BY <1>1, <1>2 DEF Carries

LEMMA SenderLast == TypeOK /\ Phased /\ Last /\ SenderStep => Last'
<1> SUFFICES ASSUME TypeOK, Phased, Last, SenderStep PROVE Last'
  OBVIOUS
<1>t. toR \in Seq(Frames) /\ sHeld \in Frames
  BY PhaseTypes
<1>u. UNCHANGED <<rPc, reason, rResult, rdNext>>
  BY DEF SenderStep, SendMetadata, ReceiveAccept, HandshakeFails, MetadataFails, PassGate, Dequeue, SendChunk,
     CancelSend, SendFailsInLoop, LeaveLoop, SendAbort, EndLoop, SendComplete, CompletionFails,
     ReceiveAck, receiverVars, readerVars
<1>1. CASE SendMetadata \/ SendChunk \/ SendAbort \/ SendComplete
  <2>1. PICK f \in Frames :
          /\ toR' = Append(toR, f) \/ (toR' = toR /\ sPc' = "done")
          /\ f.tag = "complete" => sPc' = "ack"
    <3>1. CASE SendMetadata
      BY <3>1, SignalsAreFrames, SignalTags DEF SendMetadata, Tags
    <3>2. CASE SendChunk
      BY <1>t, <3>2 DEF SendChunk, Phased, Exchange
    <3>3. CASE SendAbort
      BY <3>3, SignalsAreFrames, SignalTags DEF SendAbort, SenderReturns, Tags
    <3>4. CASE SendComplete
      BY <3>4, SignalsAreFrames, SignalTags DEF SendComplete, Tags
    <3> QED
      BY <1>1, <3>1, <3>2, <3>3, <3>4
  <2>2. /\ sPc \in {"hello", "send", "abort", "join"} /\ sPc' \in {"await", "gate", "done", "ack"}
        /\ sPc' = "await" => sPc = "hello"
        /\ sPc' = "gate" => sPc = "send"
        /\ sPc' = "ack" => sPc = "join" /\ rdPc = "ok"
        /\ UNCHANGED rdPc
    BY <1>1 DEF SendMetadata, SendChunk, SendAbort, SendComplete, SenderReturns, readerVars
  <2>3. ~Carries(toR, "complete") /\ reason # "complete"
    BY <2>2 DEF Phased, Exchange, Last
  <2>4. \A i \in 1..Len(toR') : toR'[i].tag = "complete" => i = Len(toR')
    BY <1>t, <2>1, <2>3, LastOfMore DEF Last
  <2>5. Carries(toR', "complete") => sPc' = "ack"
    BY <1>t, <2>1, <2>3, CarriesAppend
  <2>6. sPc' = "ack" => rdPc' = "ok" /\ rdNext' >= Size
    BY <1>u, <2>2 DEF Last
  <2> QED
    BY <1>u, <2>2, <2>3, <2>4, <2>5, <2>6 DEF Last, SenderLoop
<1>2. CASE ReceiveAccept
  <2>1. sPc = "await" /\ sPc' = "gate" /\ rdPc' = "opening" /\ toR' = toR
    BY <1>2 DEF ReceiveAccept
  <2> QED
    BY <1>u, <2>1 DEF Last, Phased, Exchange, Carries, SenderLoop
<1>3. CASE HandshakeFails \/ MetadataFails \/ CompletionFails \/ ReceiveAck
  <2>1. sPc' = "done" /\ UNCHANGED <<toR, rdPc>>
    BY <1>3 DEF HandshakeFails, MetadataFails, CompletionFails, ReceiveAck, SenderReturns, netVars, readerVars
  <2> QED
    BY <1>u, <2>1 DEF Last, Carries, SenderLoop
<1>4. CASE PassGate \/ Dequeue \/ CancelSend \/ SendFailsInLoop \/ EndLoop
  <2>1. /\ sPc \in SenderLoop /\ sPc' \in {"dequeue", "send", "abort", "join"}
        /\ UNCHANGED <<toR, rdPc>>
    BY <1>4 DEF PassGate, Dequeue, CancelSend, SendFailsInLoop, LeaveLoop, EndLoop, netVars, readerVars,
       SenderLoop
  <2> QED
    BY <1>u, <2>1 DEF Last, Phased, Exchange, Carries, SenderLoop
<1> QED
  BY <1>1, <1>2, <1>3, <1>4 DEF SenderStep

LEMMA ReceiverLast == TypeOK /\ Phased /\ Last /\ (ReceiverStep \/ Reject \/ Approve) => Last'
<1> SUFFICES ASSUME TypeOK, Phased, Last, ReceiverStep \/ Reject \/ Approve PROVE Last'
  OBVIOUS
<1>t. toR \in Seq(Frames)
  BY PhaseTypes
<1>u. UNCHANGED <<sPc, rdPc, rdNext>>
  BY DEF ReceiverStep, AnswerHello, ReceiveMetadata, IncomingFails, Reject, Approve, Accept,
     PassReceiverGate, ReadChunk, Forward, CancelReceive, ReadLast, ReadFails, ForwardFails,
     AfterLoop, Discard, VerifyGood, VerifyBad, VerifyFails, senderVars, readerVars
<1>1. CASE AnswerHello \/ ReceiveMetadata \/ ReadChunk
  <2>1. /\ toR # <<>> /\ toR' = Tail(toR) /\ rPc # "done" /\ rPc' # "drain"
        /\ UNCHANGED <<reason, rResult>>
    BY <1>1 DEF AnswerHello, ReceiveMetadata, ReadChunk
  <2>2. Carries(toR', "complete") => Carries(toR, "complete")
    BY <1>t, <2>1, CarriesTail
  <2>3. \A i \in 1..Len(toR') : toR'[i].tag = "complete" => i = Len(toR')
    BY <1>t, <2>1, LastOfRest DEF Last
  <2> QED
    BY <1>u, <2>1, <2>2, <2>3 DEF Last
<1>2. CASE IncomingFails \/ Reject \/ Approve \/ Accept \/ PassReceiverGate \/ Forward
  <2>1. rPc # "done" /\ rPc' # "drain" /\ UNCHANGED <<toR, reason>>
        /\ (rResult' = rResult \/ (rPc' = "done" /\ rResult' \in {"failed", "rejected"}))
    BY <1>2 DEF IncomingFails, Reject, Approve, Accept, PassReceiverGate, Forward, ReceiverReturns, netVars
  <2> QED
    BY <1>u, <2>1 DEF Last, Carries
<1>3. CASE ReadLast /\ Head(toR).tag = "complete"
  <2>1. /\ toR # <<>> /\ toR' = Tail(toR) /\ rPc = "read" /\ rPc' = "drain" /\ reason' = "complete"
        /\ UNCHANGED rResult
    BY <1>3 DEF ReadLast, AfterLoop
  <2>2. toR' = <<>> /\ Carries(toR, "complete")
    BY <1>t, <1>3, <2>1, LastOfRest, CarriesTail DEF Last
  <2>3. sPc \in {"ack", "done"} /\ rdPc = "ok" /\ rdNext >= Size
    BY <2>2 DEF Last, Phased, Exchange
  <2> QED
    BY <1>u, <2>1, <2>2, <2>3 DEF Last, Carries
<1>4. CASE CancelReceive \/ (ReadLast /\ Head(toR).tag # "complete") \/ ReadFails \/ ForwardFails
  <2>1. /\ rPc \in ReceiverLoop /\ (toR' = toR \/ (toR # <<>> /\ toR' = Tail(toR)))
        /\ rPc' = "drain" /\ reason' \in {"cancelled", "failed"} /\ UNCHANGED rResult
    BY <1>4 DEF CancelReceive, ReadLast, ReadFails, ForwardFails, AfterLoop, ReceiverLoop
  <2>2. Carries(toR', "complete") => Carries(toR, "complete")
    BY <1>t, <2>1, CarriesTail
  <2>3. \A i \in 1..Len(toR') : toR'[i].tag = "complete" => i = Len(toR')
    BY <1>t, <2>1, LastOfRest DEF Last
  <2>4. rResult = "none"
    BY <2>1 DEF Last, ReceiverLoop
  <2> QED
    BY <1>u, <2>1, <2>2, <2>3, <2>4 DEF Last
<1>5. CASE Discard \/ VerifyGood \/ VerifyBad \/ VerifyFails
  <2>1. /\ rPc' = "done" /\ UNCHANGED <<toR, reason>>
        /\ rResult' \in {"cancelled", "failed"} \/ reason = "complete"
    BY <1>5 DEF Discard, VerifyGood, VerifyBad, VerifyFails, ReceiverReturns, netVars
  <2> QED
    BY <1>u, <2>1 DEF Last, Carries
<1> QED
  BY <1>1, <1>2, <1>3, <1>4, <1>5 DEF ReceiverStep

LEMMA StepLast == TypeOK /\ TypeOK' /\ Phased /\ Last /\ [Next]_vars => Last'
<1> SUFFICES ASSUME TypeOK, TypeOK', Phased, Last, [Next]_vars PROVE Last'
  OBVIOUS
<1>t. toR \in Seq(Frames)
  BY PhaseTypes
<1>1. CASE Connect
  <2>1. ~Carries(toR', "complete") /\ toR' = <<Signal("hello")>>
    BY <1>1, SignalTags DEF Connect, Carries
  <2>2. /\ sPc' = "hello" /\ rPc' = "hello" /\ rdPc' = "off" /\ reason' = "none" /\ rResult' = "none"
    BY <1>1 DEF Connect
  <2> QED
    BY <2>1, <2>2 DEF Last, Carries, SenderLoop
<1>2. CASE LoseFrames
  <2>1. UNCHANGED <<reason, sPc, rPc, rdPc, rdNext, rResult>> /\ toR' \in Prefixes(toR)
    BY <1>2 DEF LoseFrames, senderVars, readerVars, receiverVars
  <2>2. /\ toR' \in Seq(Frames) /\ Len(toR') \in Nat /\ Len(toR) \in Nat /\ Len(toR') <= Len(toR)
        /\ \A i \in 1..Len(toR') : toR'[i] = toR[i]
    BY <1>t, <2>1, PrefixesType
  <2>3. \A i \in 1..Len(toR') : i \in 1..Len(toR) /\ (i = Len(toR) => i = Len(toR'))
    BY <2>2
  <2>4. \A i \in 1..Len(toR') : toR'[i].tag = "complete" => i = Len(toR')
    BY <2>2, <2>3 DEF Last
  <2>5. Carries(toR', "complete") => Carries(toR, "complete")
    BY <1>t, <2>1, CarriesPrefix
  <2>6. toR = <<>> => toR' = <<>>
    BY <1>t, <2>1, CutOff
  <2> QED
    BY <2>1, <2>4, <2>5, <2>6 DEF Last
<1>3. CASE ReaderTask
  <2>1. UNCHANGED <<toR, reason, sPc, rPc, rResult>>
    BY <1>3 DEF ReaderTask, ReaderOpen, ReaderBlock, ReaderEnd, ReaderFails, senderVars, netVars,
       receiverVars
  <2>2. /\ rdPc \in {"opening", "run"} /\ rdPc' \in {"run", "ok", "failed"}
        /\ rdPc' = "ok" => rdNext' = rdNext /\ (rdNext >= Size \/ sPc \notin SenderLoop)
    BY <1>3 DEF ReaderTask, ReaderOpen, ReaderBlock, ReaderEnd, ReaderFails, SenderLoop
  <2>3. sPc # "join"
    BY <2>2 DEF Phased, Working
  <2> QED
    BY <2>1, <2>2, <2>3 DEF Last, Carries
<1>4. CASE ReceiverCrash
  <2>1. /\ UNCHANGED <<toR, reason, sPc, rdPc, rdNext>> /\ rPc' = "done" /\ rResult' = "crashed"
    BY <1>4 DEF ReceiverCrash, ReceiverReturns, senderVars, readerVars, netVars
  <2> QED
    BY <2>1 DEF Last, Carries
<1>5. CASE WriterTask \/ UserStep \/ UNCHANGED vars
  <2>1. UNCHANGED lastVars
    BY <1>5 DEF WriterTask, WriterOpen, WriterBlock, WriterEnd, WriterFails, UserStep, PauseSender,
       ResumeSender, CancelSender, PauseReceiver, ResumeReceiver, CancelReceiver, EditSource, vars,
       lastVars, senderVars, readerVars, netVars, receiverVars
  <2> QED
    BY <2>1, LastUnchanged
<1> QED
  BY <1>1, <1>2, <1>3, <1>4, <1>5, SenderLast, ReceiverLast DEF Next, UserStep, PeerReset, Break

\* As long as nobody edits the source, what is announced and what is hashed is
\* the file as it was.
Unedited ==
  edits = 0 => source = Source0 /\ announced = Source0 /\ hashed = Prefix(Source0, rdNext)

LEMMA SliceJoins ==
  ASSUME NEW s \in Seq(Unit), NEW a \in Nat, NEW b \in Nat, a <= b, b <= Len(s)
  PROVE  Prefix(s, a) \o SubSeq(s, a + 1, b) = Prefix(s, b)
<1> DEFINE p == Prefix(s, a)
           d == SubSeq(s, a + 1, b)
           t == Prefix(s, b)
<1>0. Len(s) \in Nat /\ \A i \in 1..Len(s) : s[i] \in Unit
  BY ElementOfSeq
<1>1. p \in Seq(Unit) /\ Len(p) = a /\ \A i \in 1..a : p[i] = s[i]
  <2>1. \A i \in 1..a : s[i] \in Unit
    BY <1>0
  <2>2. SubSeq(s, 1, a) \in Seq(Unit) /\ Len(SubSeq(s, 1, a)) = (IF 1 <= a THEN a - 1 + 1 ELSE 0)
        /\ \A i \in 1..(a - 1 + 1) : SubSeq(s, 1, a)[i] = s[1 + i - 1]
    BY <2>1, SubSeqProperties
  <2> QED
    BY <2>2 DEF Prefix
<1>2. t \in Seq(Unit) /\ Len(t) = b /\ \A i \in 1..b : t[i] = s[i]
  <2>1. \A i \in 1..b : s[i] \in Unit
    BY <1>0
  <2>2. SubSeq(s, 1, b) \in Seq(Unit) /\ Len(SubSeq(s, 1, b)) = (IF 1 <= b THEN b - 1 + 1 ELSE 0)
        /\ \A i \in 1..(b - 1 + 1) : SubSeq(s, 1, b)[i] = s[1 + i - 1]
    BY <2>1, SubSeqProperties
  <2> QED
    BY <2>2 DEF Prefix
<1>3. d \in Seq(Unit) /\ Len(d) = b - a /\ \A i \in 1..(b - a) : d[i] = s[a + i]
  <2>1. \A i \in (a + 1)..b : s[i] \in Unit
    BY <1>0
  <2>2. d \in Seq(Unit) /\ Len(d) = (IF a + 1 <= b THEN b - (a + 1) + 1 ELSE 0)
        /\ \A i \in 1..(b - (a + 1) + 1) : d[i] = s[(a + 1) + i - 1]
    BY <2>1, SubSeqProperties
  <2>3. \A i \in 1..(b - a) : d[i] = s[a + i]
    <3> SUFFICES ASSUME NEW i \in 1..(b - a) PROVE d[i] = s[a + i]
      OBVIOUS
    <3>1. i \in 1..(b - (a + 1) + 1) /\ (a + 1) + i - 1 = a + i
      OBVIOUS
    <3> HIDE DEF d
    <3> QED
      BY <2>2, <3>1
  <2> HIDE DEF d
  <2> QED
    BY <2>2, <2>3
<1> HIDE DEF p, d, t
<1>4. p \o d \in Seq(Unit) /\ Len(p \o d) = b
      /\ \A i \in 1..b : (p \o d)[i] = IF i <= a THEN p[i] ELSE d[i - a]
  <2>1. p \o d \in Seq(Unit) /\ Len(p \o d) = Len(p) + Len(d)
        /\ \A i \in 1..(Len(p) + Len(d)) : (p \o d)[i] = IF i <= Len(p) THEN p[i] ELSE d[i - Len(p)]
    BY <1>1, <1>3, ConcatProperties
  <2>2. Len(p) + Len(d) = b /\ Len(p) = a
    BY <1>1, <1>3
  <2> QED
    BY <2>1, <2>2
<1>5. ASSUME NEW i \in 1..b PROVE (p \o d)[i] = t[i]
  <2>1. CASE i <= a
    BY <1>1, <1>2, <1>4, <2>1
  <2>2. CASE ~(i <= a)
    <3>1. i - a \in 1..(b - a) /\ a + (i - a) = i
      BY <2>2
    <3>2. (p \o d)[i] = d[i - a] /\ d[i - a] = s[i]
      BY <1>3, <1>4, <2>2, <3>1
    <3> QED
      BY <1>2, <3>2
  <2> QED
    BY <2>1, <2>2
<1>6. p \o d = t
  BY <1>2, <1>4, <1>5, SeqEqual
<1> QED
  BY <1>6 DEF p, d, t

LEMMA StepUnedited == TypeOK /\ Unedited /\ [Next]_vars => Unedited'
<1> SUFFICES ASSUME TypeOK, Unedited, [Next]_vars PROVE Unedited'
  OBVIOUS
<1>t. rdNext \in 0..Size /\ start \in 0..Size /\ edits \in Nat
  BY DEF TypeOK, ReaderOK, WorldOK
<1>s. Source0 \in Seq(Unit) /\ Len(Source0) = Size /\ Prefix(Source0, 0) = <<>>
  <2>1. Source0 \in [1..Size -> Unit]
    BY SizeAssumption DEF Source0, FileOf, Unit
  <2>2. Source0 \in Seq(Unit) /\ Len(Source0) = Size
    BY <2>1, FileIsASequence
  <2> QED
    BY <2>2, SubSeqEmpty DEF Prefix
<1>1. CASE Connect
  BY <1>1, <1>s DEF Connect, Unedited
<1>2. CASE EditSource
  <2>1. edits' # 0
    BY <1>t, <1>2 DEF EditSource
  <2> QED
    BY <2>1 DEF Unedited
<1>3. CASE SendMetadata
  BY <1>3 DEF SendMetadata, Unedited, readerVars
<1>4. CASE ReaderOpen
  BY <1>4 DEF ReaderOpen, Unedited, worldVars
<1>5. CASE ReaderBlock
  <2>1. /\ rdNext < Size /\ rdNext' = Smaller(rdNext + Block, Size)
        /\ hashed' = hashed \o SubSeq(source, rdNext + 1, rdNext')
        /\ UNCHANGED <<source, announced, edits>>
    BY <1>5 DEF ReaderBlock, BlockAt, worldVars
  <2>2. rdNext' \in 0..Size /\ rdNext <= rdNext'
    BY <1>t, <2>1, SizeAssumption DEF Smaller
  <2>3. Prefix(Source0, rdNext) \o SubSeq(Source0, rdNext + 1, rdNext') = Prefix(Source0, rdNext')
    <3>1. PICK a \in 0..Size, b \in 0..Size : rdNext = a /\ rdNext' = b /\ a <= b
      BY <1>t, <2>2
    <3> QED
      BY <1>s, <3>1, SliceJoins DEF Prefix
  <2> QED
    BY <2>1, <2>3 DEF Unedited
<1>6. CASE UNCHANGED <<source, announced, edits, hashed, rdNext>>
  BY <1>6 DEF Unedited
<1>7. CASE SenderStep /\ ~SendMetadata
  BY <1>6, <1>7 DEF SenderStep, ReceiveAccept, HandshakeFails, MetadataFails, PassGate, Dequeue, SendChunk,
     CancelSend, SendFailsInLoop, LeaveLoop, SendAbort, EndLoop, SendComplete, CompletionFails,
     ReceiveAck, readerVars, worldVars
<1>8. CASE ReceiverStep \/ Reject \/ Approve
  BY <1>6, <1>8 DEF ReceiverStep, AnswerHello, ReceiveMetadata, IncomingFails, Reject, Approve, Accept,
     PassReceiverGate, ReadChunk, Forward, CancelReceive, ReadLast, ReadFails, ForwardFails,
     AfterLoop, Discard, VerifyGood, VerifyBad, VerifyFails, readerVars, worldVars
<1>9. CASE ReaderEnd \/ ReaderFails
  BY <1>6, <1>9 DEF ReaderEnd, ReaderFails, worldVars
<1>10. CASE WriterTask \/ (UserStep /\ ~EditSource) \/ ReceiverCrash \/ LoseFrames \/ UNCHANGED vars
  BY <1>6, <1>10 DEF WriterTask, WriterOpen, WriterBlock, WriterEnd, WriterFails, UserStep, PauseSender,
     ResumeSender, CancelSender, PauseReceiver, ResumeReceiver, CancelReceiver, ReceiverCrash,
     LoseFrames, vars, readerVars, worldVars
<1> QED
  BY <1>1, <1>2, <1>3, <1>4, <1>5, <1>7, <1>8, <1>9, <1>10
  DEF Next, ReaderTask, UserStep, PeerReset, Break

\* What may have befallen an attempt, with a mismatch as a cause of its own.
Mishap ==
  \/ sCancel \/ rCancel
  \/ "failed" \in {rdPc, wrPc}
  \/ rResult \in {"crashed", "mismatch"} \/ (rResult = "failed" /\ reason = "complete")
  \/ link = "down" /\ "break" \in Events

\* The acceptance has got to the sender or is on its way to it.
Accepted == rdPc # "off" \/ (sPc = "await" /\ toS # <<>>)

\* An attempt that goes as it should: nobody gives up, and the last word of
\* either side is COMPLETE.
Smooth ==
  /\ link = "up" /\ reason \in {"none", "complete"}
  /\ ~Carries(toR, "error") /\ ~Carries(toR, "cancelled") /\ sPc # "abort"
  /\ rPc = "done" => rResult = "complete"
  /\ sPc = "await" => Tail(toS) = <<>>
  /\ sPc \notin {"await", "done"} /\ toS # <<>>
       => sPc = "ack" /\ rPc = "done" /\ toS = <<Signal("complete")>>
  /\ sPc = "ack" /\ rPc = "done" => toS # <<>>
  /\ sPc = "done" => sResult = "ok" /\ toS = <<>>

Blameless == Accepted => Mishap \/ Smooth

smoothVars == <<link, reason, toR, toS, sPc, rPc, rResult, sResult>>

LEMMA SmoothUnchanged == Smooth /\ UNCHANGED smoothVars => Smooth'
  BY DEF Smooth, Carries, smoothVars

LEMMA AcceptedUnchanged == UNCHANGED <<sPc, toS>> /\ (rdPc = "off" <=> rdPc' = "off") => (Accepted' <=> Accepted)
  BY DEF Accepted

\* No later step takes a mishap back; only a new attempt starts without.
LEMMA MishapStays == Tidy /\ Last /\ Mishap /\ [Next]_vars /\ ~Connect => Mishap'
<1> SUFFICES ASSUME Tidy, Last, Mishap, [Next]_vars, ~Connect PROVE Mishap'
  OBVIOUS
<1>1. CASE SenderStep
  <2>1. UNCHANGED <<sCancel, rCancel, wrPc, rResult, reason, link>> /\ (rdPc' = rdPc \/ (sPc = "await" /\ rdPc = "off"))
    BY <1>1 DEF SenderStep, SendMetadata, ReceiveAccept, HandshakeFails, MetadataFails, PassGate, Dequeue, SendChunk,
       CancelSend, SendFailsInLoop, LeaveLoop, SendAbort, EndLoop, SendComplete, CompletionFails,
       ReceiveAck, SenderReturns, netVars, readerVars, receiverVars, writerVars, Last
  <2> QED
    BY <2>1 DEF Mishap
<1>2. CASE ReceiverStep \/ Reject \/ Approve
  <2>1. /\ UNCHANGED <<sCancel, rCancel, rdPc, link>> /\ rPc # "done"
        /\ wrPc' = wrPc \/ rPc = "accept"
    BY <1>2 DEF ReceiverStep, AnswerHello, ReceiveMetadata, IncomingFails, Reject, Approve, Accept,
       PassReceiverGate, ReadChunk, Forward, CancelReceive, ReadLast, ReadFails, ForwardFails,
       AfterLoop, Discard, VerifyGood, VerifyBad, VerifyFails, senderVars, readerVars, netVars, writerVars
  <2>2. rResult = "none" /\ (wrPc' = wrPc \/ wrPc = "off")
    BY <2>1 DEF Last, Tidy, Early
  <2> QED
    BY <2>1, <2>2 DEF Mishap
<1>3. CASE ReaderTask
  BY <1>3 DEF ReaderTask, ReaderOpen, ReaderBlock, ReaderEnd, ReaderFails, senderVars, receiverVars,
     netVars, writerVars, Mishap
<1>4. CASE WriterTask
  BY <1>4 DEF WriterTask, WriterOpen, WriterBlock, WriterEnd, WriterFails, senderVars, readerVars,
     receiverVars, netVars, Mishap
<1>5. CASE ReceiverCrash
  BY <1>5 DEF ReceiverCrash, ReceiverReturns, Mishap
<1>6. CASE LoseFrames
  BY <1>6 DEF LoseFrames, senderVars, readerVars, receiverVars, writerVars, Mishap
<1>7. CASE UserStep \/ UNCHANGED vars
  <2>1. /\ UNCHANGED <<rdPc, wrPc, rResult, reason, link>>
        /\ (sCancel => sCancel') /\ (rCancel => rCancel')
    BY <1>7 DEF UserStep, PauseSender, ResumeSender, CancelSender, PauseReceiver, ResumeReceiver,
       CancelReceiver, EditSource, vars, senderVars, readerVars, netVars, receiverVars, writerVars
  <2> QED
    BY <2>1 DEF Mishap
<1> QED
  BY <1>1, <1>2, <1>3, <1>4, <1>5, <1>6, <1>7 DEF Next, UserStep, PeerReset, Break

\* An attempt that goes as it should does so until something befalls it.
LEMMA SmoothFacts ==
  TypeOK /\ Phased /\ Last /\ OkMeansStored /\ Accepted /\ Smooth =>
    /\ rPc \notin {"idle", "hello", "meta", "prompt", "accept"}
    /\ sPc = "done" => rPc = "done" /\ rResult = "complete" /\ reason = "complete"
    /\ sPc \notin {"idle", "hello"}
    /\ sPc = "await" => toS # <<>>
    /\ rPc = "done" => reason = "complete" /\ toR = <<>> /\ sPc \in {"ack", "done"}
<1> SUFFICES ASSUME TypeOK, Phased, Last, OkMeansStored, Accepted, Smooth
             PROVE  /\ rPc \notin {"idle", "hello", "meta", "prompt", "accept"}
                    /\ sPc = "done" => rPc = "done" /\ rResult = "complete" /\ reason = "complete"
                    /\ sPc \notin {"idle", "hello"}
                    /\ sPc = "await" => toS # <<>>
                    /\ rPc = "done" => reason = "complete" /\ toR = <<>> /\ sPc \in {"ack", "done"}
  OBVIOUS
<1>1. sPc = "done" => rPc = "done" /\ rResult = "complete" /\ reason = "complete"
  BY DEF Smooth, OkMeansStored, Last
<1>2. sPc \notin {"idle", "hello"} /\ (sPc = "await" => toS # <<>>)
  BY DEF Accepted, Last
<1>3. rPc = "done" => reason = "complete" /\ toR = <<>> /\ sPc \in {"ack", "done"}
  BY DEF Smooth, Last
<1>4. rPc \in {"idle", "hello", "meta", "prompt", "accept"} => sPc \in {"idle", "hello", "await", "done"}
  BY DEF Phased, Greeting
<1>5. rPc \notin {"idle", "hello", "meta", "prompt", "accept"}
  <2>1. sPc = "await" => rPc \notin {"meta", "prompt", "accept", "idle", "hello"}
    BY <1>2 DEF Phased, Greeting
  <2> QED
    BY <1>1, <1>2, <1>4, <2>1
<1> QED
  BY <1>1, <1>2, <1>3, <1>5

LEMMA SenderSmooth ==
  TypeOK /\ Phased /\ Last /\ OkMeansStored /\ Accepted /\ Smooth /\ SenderStep => Mishap' \/ Smooth'
<1> SUFFICES ASSUME TypeOK, Phased, Last, OkMeansStored, Accepted, Smooth, SenderStep
             PROVE  Mishap' \/ Smooth'
  OBVIOUS
<1>f. /\ sPc = "done" => rPc = "done" /\ rResult = "complete" /\ reason = "complete"
      /\ sPc \notin {"idle", "hello"}
      /\ sPc = "await" => toS # <<>>
      /\ rPc = "done" => reason = "complete" /\ toR = <<>> /\ sPc \in {"ack", "done"}
  BY SmoothFacts
<1>t. toR \in Seq(Frames) /\ toS \in Seq(Frames) /\ sHeld \in Frames
  BY PhaseTypes
<1>u. UNCHANGED <<rPc, reason, rResult, link>> /\ link = "up"
  BY DEF SenderStep, SendMetadata, ReceiveAccept, HandshakeFails, MetadataFails, PassGate, Dequeue, SendChunk,
     CancelSend, SendFailsInLoop, LeaveLoop, SendAbort, EndLoop, SendComplete, CompletionFails,
     ReceiveAck, receiverVars, netVars, Smooth
<1>1. CASE SendMetadata \/ HandshakeFails \/ MetadataFails \/ SendFailsInLoop \/ SendAbort
  BY <1>1, <1>f, <1>u DEF SendMetadata, HandshakeFails, MetadataFails, SenderAtEof, SendFails, SendFailsInLoop,
     SendAbort, ReceiverGone, Smooth
<1>2. CASE ReceiveAccept
  <2>1. sPc = "await" /\ sPc' = "gate" /\ toS' = Tail(toS) /\ UNCHANGED <<toR, sResult>>
    BY <1>2 DEF ReceiveAccept
  <2>2. toS' = <<>>
    BY <2>1 DEF Smooth
  <2> QED
    BY <1>u, <2>1, <2>2 DEF Smooth, Carries
<1>3. CASE PassGate \/ Dequeue \/ EndLoop
  <2>1. /\ sPc \in {"gate", "dequeue"} /\ sPc' \in {"dequeue", "send", "join"}
        /\ UNCHANGED <<toR, toS, sResult>>
    BY <1>3 DEF PassGate, Dequeue, EndLoop, netVars
  <2> QED
    BY <1>u, <2>1 DEF Smooth, Carries
<1>4. CASE SendChunk \/ SendComplete
  <2>1. /\ (sPc = "send" /\ sPc' = "gate") \/ (sPc = "join" /\ sPc' = "ack")
        /\ UNCHANGED <<toS, sResult>>
    BY <1>4 DEF SendChunk, SendComplete
  <2>2. PICK f \in Frames : f.tag \in {"chunk", "complete"} /\ toR' = Append(toR, f)
    <3>1. CASE SendChunk
      BY <1>t, <3>1 DEF SendChunk, Phased, Exchange
    <3>2. CASE SendComplete
      BY <3>2, SignalsAreFrames, SignalTags DEF SendComplete, Tags
    <3> QED
      BY <1>4, <3>1, <3>2
  <2>3. ~Carries(toR', "error") /\ ~Carries(toR', "cancelled")
    BY <1>t, <2>2, CarriesAppend DEF Smooth
  <2>4. rPc # "done" /\ toS = <<>>
    BY <1>f, <2>1 DEF Smooth
  <2> QED
    BY <1>u, <2>1, <2>3, <2>4 DEF Smooth
<1>5. CASE CancelSend
  BY <1>5 DEF CancelSend, LeaveLoop, Mishap
<1>6. CASE CompletionFails
  <2>1. sPc = "join" => rdPc = "failed"
    BY <1>6, <1>u DEF CompletionFails, SendFails
  <2>2. sPc # "ack"
    BY <1>6, <1>u DEF CompletionFails, SenderAtEof, ReceiverGone, Smooth
  <2> QED
    BY <1>6, <2>1, <2>2 DEF CompletionFails, readerVars, Mishap
<1>7. CASE ReceiveAck
  <2>1. /\ sPc = "ack" /\ sPc' = "done" /\ toS # <<>> /\ toS' = Tail(toS) /\ toR' = toR
        /\ sResult' = IF Head(toS).tag = "complete" THEN "ok" ELSE "failed"
    BY <1>7 DEF ReceiveAck, SenderReturns
  <2>2. toS = <<Signal("complete")>> /\ rPc = "done" /\ rResult = "complete"
    BY <2>1 DEF Smooth
  <2>3. toS' = <<>> /\ sResult' = "ok"
    BY <2>1, <2>2, SignalTags
  <2> QED
    BY <1>u, <2>1, <2>2, <2>3 DEF Smooth, Carries
<1> QED
  BY <1>1, <1>2, <1>3, <1>4, <1>5, <1>6, <1>7 DEF SenderStep

LEMMA ReceiverSmooth ==
  TypeOK /\ Phased /\ Last /\ OkMeansStored /\ Accepted /\ Smooth /\ (ReceiverStep \/ Reject \/ Approve)
    => Mishap' \/ Smooth'
<1> SUFFICES ASSUME TypeOK, Phased, Last, OkMeansStored, Accepted, Smooth,
                    ReceiverStep \/ Reject \/ Approve
             PROVE  Mishap' \/ Smooth'
  OBVIOUS
<1>f. /\ rPc \notin {"idle", "hello", "meta", "prompt", "accept"}
      /\ sPc = "done" => rPc = "done"
      /\ sPc = "await" => toS # <<>>
  BY SmoothFacts
<1>t. toR \in Seq(Frames) /\ toS \in Seq(Frames)
  BY PhaseTypes
<1>u. UNCHANGED <<sPc, sResult, sCancel, link>> /\ link = "up"
  BY DEF ReceiverStep, AnswerHello, ReceiveMetadata, IncomingFails, Reject, Approve, Accept,
     PassReceiverGate, ReadChunk, Forward, CancelReceive, ReadLast, ReadFails, ForwardFails,
     AfterLoop, Discard, VerifyGood, VerifyBad, VerifyFails, senderVars, netVars, Smooth
<1>1. CASE AnswerHello \/ ReceiveMetadata \/ IncomingFails \/ Reject \/ Approve \/ Accept
  BY <1>1, <1>f DEF AnswerHello, ReceiveMetadata, IncomingFails, Reject, Approve, Accept
<1>2. CASE PassReceiverGate \/ Forward
  <2>1. rPc \in ReceiverLoop /\ rPc' \in ReceiverLoop /\ UNCHANGED <<toR, toS, reason, rResult>>
    BY <1>2 DEF PassReceiverGate, Forward, netVars, ReceiverLoop
  <2> QED
    BY <1>u, <2>1 DEF Smooth, Carries, ReceiverLoop
<1>3. CASE ReadChunk \/ ReadLast
  <2>1. /\ rPc = "read" /\ rPc' \in {"forward", "drain"} /\ toR # <<>> /\ toR' = Tail(toR)
    BY <1>3 DEF ReadChunk, ReadLast, AfterLoop
  <2>2. Head(toR).tag \notin {"error", "cancelled"} /\ ~Carries(toR', "error") /\ ~Carries(toR', "cancelled")
    BY <1>t, <2>1, CarriesTail DEF Smooth
  <2>3. toS' = toS /\ reason' \in {"none", "complete"}
    BY <1>3, <2>2 DEF ReadChunk, ReadLast, AfterLoop, Smooth
  <2> QED
    BY <1>u, <2>1, <2>2, <2>3 DEF Smooth
<1>4. CASE CancelReceive
  BY <1>4 DEF CancelReceive, AfterLoop, Mishap
<1>5. CASE ReadFails
  BY <1>5, <1>f, <1>u DEF ReadFails, ReceiverAtEof, SenderGone
<1>6. CASE ForwardFails
  BY <1>6 DEF ForwardFails, AfterLoop, writerVars, Mishap
<1>7. CASE Discard
  <2>1. wrPc = "failed"
    BY <1>7 DEF Discard, Smooth, Last
  <2> QED
    BY <1>7, <2>1 DEF Discard, Mishap
<1>8. CASE VerifyGood
  <2>1. /\ rPc = "drain" /\ reason = "complete" /\ rPc' = "done" /\ rResult' = "complete"
        /\ toS' = Append(toS, Signal("complete")) /\ UNCHANGED <<toR, reason>>
    BY <1>8, <1>u DEF VerifyGood, SendFails, ReceiverReturns
  <2>2. sPc = "ack" /\ toS = <<>>
    BY <1>f, <2>1 DEF Phased, Exchange
  <2>3. toS' = <<Signal("complete")>>
    BY <2>1, <2>2
  <2> QED
    BY <1>u, <2>1, <2>2, <2>3 DEF Smooth, Carries
<1>9. CASE VerifyBad \/ VerifyFails
  BY <1>9 DEF VerifyBad, VerifyFails, ReceiverReturns, Mishap
<1> QED
  BY <1>1, <1>2, <1>3, <1>4, <1>5, <1>6, <1>7, <1>8, <1>9 DEF ReceiverStep

\* What counts as accepted was accepted before, or is so by this step.
LEMMA AcceptedBefore ==
  TypeOK /\ Phased /\ Accepted' /\ [Next]_vars => ~Connect /\ (Accepted \/ Accept)
<1> SUFFICES ASSUME TypeOK, Phased, Accepted', [Next]_vars PROVE ~Connect /\ (Accepted \/ Accept)
  OBVIOUS
<1>0. ~Connect
  BY DEF Connect, Accepted
<1>1. CASE SenderStep
  <2>1. CASE SendMetadata
    <3>1. sPc = "hello" /\ toS # <<>> /\ toS' = Tail(toS) /\ rdPc' = rdPc
      BY <2>1 DEF SendMetadata, readerVars
    <3>2. toS' = <<>>
      BY <3>1, AtMostOne DEF Phased, Greeting
    <3> QED
      BY <1>0, <3>1, <3>2 DEF Accepted
  <2>2. CASE ReceiveAccept
    BY <1>0, <2>2 DEF ReceiveAccept, Accepted
  <2>3. CASE ~SendMetadata /\ ~ReceiveAccept
    <3>1. rdPc' = rdPc /\ sPc' # "await"
      BY <1>1, <2>3 DEF SenderStep, HandshakeFails, MetadataFails, PassGate, Dequeue, SendChunk, CancelSend,
         SendFailsInLoop, LeaveLoop, SendAbort, EndLoop, SendComplete, CompletionFails, ReceiveAck,
         SenderReturns, readerVars
    <3> QED
      BY <1>0, <3>1 DEF Accepted
  <2> QED
    BY <2>1, <2>2, <2>3
<1>2. CASE ReceiverStep \/ Reject \/ Approve
  <2>1. UNCHANGED <<sPc, rdPc>>
    BY <1>2 DEF ReceiverStep, AnswerHello, ReceiveMetadata, IncomingFails, Reject, Approve, Accept,
       PassReceiverGate, ReadChunk, Forward, CancelReceive, ReadLast, ReadFails, ForwardFails,
       AfterLoop, Discard, VerifyGood, VerifyBad, VerifyFails, senderVars, readerVars
  <2>2. CASE toS' = toS
    BY <1>0, <2>1, <2>2 DEF Accepted
  <2>3. CASE toS' # toS /\ ~Accept
    <3>1. AnswerHello \/ CancelReceive \/ ReadLast \/ VerifyGood \/ VerifyBad
      BY <1>2, <2>3 DEF ReceiverStep, ReceiveMetadata, IncomingFails, Reject, Approve,
         PassReceiverGate, ReadChunk, Forward, ReadFails, ForwardFails, AfterLoop, Discard, VerifyFails, netVars
    <3>2. AnswerHello => sPc # "await"
      BY DEF AnswerHello, Phased, Greeting
    <3>3. VerifyGood \/ VerifyBad => sPc # "await"
      BY DEF VerifyGood, VerifyBad, Phased, Exchange
    <3>4. CancelReceive \/ ReadLast => link = "up" /\ rPc \in ReceiverLoop
      BY <2>3 DEF CancelReceive, ReadLast, SayCancelled, CanSend, ReceiverLoop
    <3>5. CancelReceive \/ ReadLast => (sPc = "await" => toS # <<>>)
      BY <3>4 DEF Phased, Answered
    <3> QED
      BY <1>0, <2>1, <3>1, <3>2, <3>3, <3>5 DEF Accepted
  <2> QED
    BY <1>0, <2>2, <2>3
<1>3. CASE ReaderTask
  BY <1>0, <1>3 DEF ReaderTask, ReaderOpen, ReaderBlock, ReaderEnd, ReaderFails, senderVars, netVars, Accepted
<1>4. CASE LoseFrames
  <2>1. toS \in Seq(Frames) /\ toS' \in Prefixes(toS) /\ UNCHANGED <<sPc, rdPc>>
    BY <1>4, PhaseTypes DEF LoseFrames, senderVars, readerVars
  <2>2. toS = <<>> => toS' = <<>>
    BY <2>1, CutOff
  <2> QED
    BY <1>0, <2>1, <2>2 DEF Accepted
<1>5. CASE WriterTask \/ UserStep \/ ReceiverCrash \/ UNCHANGED vars
  <2>1. UNCHANGED <<sPc, rdPc, toS>>
    BY <1>5 DEF WriterTask, WriterOpen, WriterBlock, WriterEnd, WriterFails, UserStep, PauseSender,
       ResumeSender, CancelSender, PauseReceiver, ResumeReceiver, CancelReceiver, EditSource,
       ReceiverCrash, vars, senderVars, readerVars, netVars
  <2> QED
    BY <1>0, <2>1 DEF Accepted
<1> QED
  BY <1>0, <1>1, <1>2, <1>3, <1>4, <1>5 DEF Next, UserStep, PeerReset, Break

LEMMA StepBlameless ==
  TypeOK /\ Tidy /\ Phased /\ Last /\ OkMeansStored /\ Blameless /\ [Next]_vars => Blameless'
<1> SUFFICES ASSUME TypeOK, Tidy, Phased, Last, OkMeansStored, Blameless, [Next]_vars, Accepted'
             PROVE  Mishap' \/ Smooth'
  BY DEF Blameless
<1>0. ~Connect /\ (Accepted \/ Accept)
  BY AcceptedBefore
<1>1. CASE Accepted /\ Mishap
  BY <1>0, <1>1, MishapStays
<1>2. CASE ~Accepted /\ Accept
  <2>1. /\ rPc = "accept" /\ rPc' = "gate" /\ link = "up" /\ UNCHANGED <<sPc, rdPc, toR, link, reason, sResult>>
        /\ toS' = Append(toS, Frame("accept", ResumeOffset, <<>>))
    BY <1>2 DEF Accept, CanSend, senderVars, readerVars
  <2>2. sPc = "await" /\ toR = <<>> /\ toS = <<>>
    BY <1>2, <2>1 DEF Accepted, Phased, Greeting
  <2>3. Tail(toS') = <<>>
    BY <2>1, <2>2
  <2>4. reason = "none"
    BY <2>1 DEF Tidy, Early
  <2> QED
    BY <2>1, <2>2, <2>3, <2>4 DEF Smooth, Carries
<1>3. CASE Accepted /\ Smooth
  <2>f. /\ sPc = "done" => rPc = "done" /\ rResult = "complete" /\ reason = "complete"
        /\ rPc = "done" => reason = "complete" /\ toR = <<>> /\ sPc \in {"ack", "done"}
    BY <1>3, SmoothFacts
  <2>1. CASE LoseFrames /\ (PeerReset \/ Break)
    <3>1. ~PeerReset
      BY <1>3, <2>f DEF PeerReset, SenderGone, ReceiverGone, Smooth
    <3> QED
      BY <2>1, <3>1 DEF Break, LoseFrames, Mishap
  <2>2. CASE ReaderTask
    <3>1. CASE ReaderFails
      BY <3>1 DEF ReaderFails, Mishap
    <3>2. CASE ~ReaderFails
      <4>1. UNCHANGED smoothVars
        BY <2>2, <3>2 DEF ReaderTask, ReaderOpen, ReaderBlock, ReaderEnd, smoothVars, senderVars, netVars,
           receiverVars
      <4> QED
        BY <1>3, <4>1, SmoothUnchanged
    <3> QED
      BY <3>1, <3>2
  <2>3. CASE WriterTask
    <3>1. UNCHANGED smoothVars
      BY <2>3 DEF WriterTask, WriterOpen, WriterBlock, WriterEnd, WriterFails, smoothVars, senderVars,
         netVars, receiverVars
    <3> QED
      BY <1>3, <3>1, SmoothUnchanged
  <2>4. CASE ReceiverCrash
    BY <2>4 DEF ReceiverCrash, ReceiverReturns, Mishap
  <2>5. CASE UserStep \/ UNCHANGED vars
    <3>1. UNCHANGED smoothVars
      BY <2>5 DEF UserStep, PauseSender, ResumeSender, CancelSender, PauseReceiver, ResumeReceiver,
         CancelReceiver, EditSource, vars, smoothVars, senderVars, netVars, receiverVars
    <3> QED
      BY <1>3, <3>1, SmoothUnchanged
  <2> QED
    BY <1>0, <1>3, <2>1, <2>2, <2>3, <2>4, <2>5, SenderSmooth, ReceiverSmooth
    DEF Next, UserStep, PeerReset, Break
<1> QED
  BY <1>0, <1>1, <1>2, <1>3 DEF Blameless

\* A mismatch needs an edit, or a resume that was not sound.
LEMMA MismatchBefalls ==
  TypeOK /\ Last /\ Unedited /\ MismatchExplained /\ Mishap => Befallen
<1> SUFFICES ASSUME TypeOK, Last, Unedited, MismatchExplained, Mishap, ~Befallen PROVE FALSE
  OBVIOUS
<1>1. rResult = "mismatch" /\ edits = 0 /\ ~(Resumed /\ ~Resumable(prior))
  <2>1. edits \in Nat
    BY DEF TypeOK, WorldOK
  <2> QED
    BY <2>1 DEF Mishap, Befallen
<1>2. hashed # announced
  BY <1>1 DEF MismatchExplained
<1>3. rdNext = Size
  <2>1. rdNext >= Size
    BY <1>1 DEF Last
  <2>2. rdNext \in 0..Size
    BY DEF TypeOK, ReaderOK
  <2> QED
    BY <2>1, <2>2, SizeAssumption
<1>4. Source0 \in Seq(Unit) /\ Len(Source0) = Size
  <2>1. Source0 \in [1..Size -> Unit]
    BY SizeAssumption DEF Source0, FileOf, Unit
  <2> QED
    BY <2>1, FileIsASequence
<1>5. Prefix(Source0, Size) = Source0
  <2>1. Prefix(Source0, Size) \in Seq(Unit) /\ Len(Prefix(Source0, Size)) = Size
        /\ \A i \in 1..Size : Prefix(Source0, Size)[i] = Source0[i]
    BY <1>4, SizeAssumption, PrefixType
  <2> QED
    BY <1>4, <2>1, SeqEqual
<1> QED
  BY <1>1, <1>2, <1>3, <1>5 DEF Unedited

\* Once send_file_direct_tcp has returned from an attempt whose acceptance it
\* heard, it has returned Ok, or the user, the disk, the file, the network or a
\* crash got in the way: neither function gives up for a reason of its own.
THEOREM EndsDelivered == SafeSpec => []SettledIsDelivered
<1>1. Init => Last /\ Blameless
  BY InitLast DEF Init, Blameless, Accepted
<1>2. Init => Unedited
  <2> SUFFICES ASSUME Init PROVE Unedited
    OBVIOUS
  <2>1. Prefix(Source0, 0) = <<>>
    BY SubSeqEmpty DEF Prefix
  <2> QED
    BY <2>1 DEF Init, Unedited
<1>3. Init => Tidy
  BY DEF Init, Tidy, Early, NothingLeftBehind
<1>4. TypeOK /\ Last /\ Unedited /\ MismatchExplained /\ Blameless => SettledIsDelivered
  <2> SUFFICES ASSUME TypeOK, Last, Unedited, MismatchExplained, Blameless, sPc = "done", rdPc # "off"
               PROVE  sResult = "ok" \/ Befallen
    BY DEF SettledIsDelivered
  <2>1. Mishap \/ Smooth
    BY DEF Blameless, Accepted
  <2> QED
    BY <2>1, MismatchBefalls DEF Smooth
<1> QED
  BY <1>1, <1>2, <1>3, <1>4, InitPhased, StepPhased, StepLast, StepUnedited, StepTidy, StepBlameless,
     TypeCorrect, OkIsStored, MismatchHasCause, PTL DEF SafeSpec

-----------------------------------------------------------------------------
(* Refinement *)

LEMMA DeliveryStarts == Init => Delivery!Init
  BY DEF Init, Delivery!Init, ToldBar, KeptBar

\* What the sender's user is told depends on the sender only.
LEMMA SameTold == UNCHANGED <<sPc, sResult>> => ToldBar' = ToldBar
  BY DEF ToldBar

LEMMA SameKept == UNCHANGED <<rPc, rResult, disk, announced>> => KeptBar' = KeptBar
  BY DEF KeptBar

\* Each step of the transfer is a step of FileDelivery or none: sends, reads
\* and writes are none, and each side's return is one.
LEMMA DeliveryStep == Inv /\ Inv' /\ [Next]_vars => [Delivery!Next]_(Delivery!deliveryVars)
<1> SUFFICES ASSUME Inv, Inv', [Next]_vars PROVE [Delivery!Next]_(Delivery!deliveryVars)
  OBVIOUS
<1> USE DEF Delivery!deliveryVars
<1>i. TypeOK /\ Accord /\ Accord'
  BY DEF Inv
<1>1. CASE Connect
  <2>1. ToldBar \in {"nothing", "ok", "failed"} /\ ToldBar' = "waiting"
    BY <1>1 DEF Connect, ToldBar
  <2>2. KeptBar \in {"nothing", "stored", "dropped"} /\ KeptBar' = "waiting"
    BY <1>1 DEF Connect, KeptBar
  <2> QED
    BY <2>1, <2>2 DEF Delivery!Next, Delivery!Start
<1>2. CASE SenderStep
  <2>1. KeptBar' = KeptBar
    <3>1. UNCHANGED <<rPc, rResult, disk>>
      BY <1>2 DEF SenderStep, SendMetadata, ReceiveAccept, HandshakeFails, MetadataFails, PassGate, Dequeue,
         SendChunk, CancelSend, SendFailsInLoop, LeaveLoop, SendAbort, EndLoop, SendComplete,
         CompletionFails, ReceiveAck, receiverVars, writerVars
    <3>2. UNCHANGED announced \/ SendMetadata
      BY <1>2 DEF SenderStep, ReceiveAccept, HandshakeFails, MetadataFails, PassGate, Dequeue,
         SendChunk, CancelSend, SendFailsInLoop, LeaveLoop, SendAbort, EndLoop, SendComplete,
         CompletionFails, ReceiveAck, worldVars
    <3>3. SendMetadata => ~Completed
      BY <1>i DEF SendMetadata, Accord, Asked, MetadataSent
    <3> QED
      BY <3>1, <3>2, <3>3 DEF KeptBar, Completed
  <2>2. ToldBar' = ToldBar \/ (ToldBar = "waiting" /\ ToldBar' \in {"ok", "failed"})
    BY <1>2 DEF SenderStep, SendMetadata, ReceiveAccept, HandshakeFails, MetadataFails, PassGate, Dequeue,
       SendChunk, CancelSend, SendFailsInLoop, LeaveLoop, SendAbort, EndLoop, SendComplete,
       CompletionFails, ReceiveAck, SenderReturns, ToldBar
  <2>3. ToldBar' = "ok" => KeptBar' = "stored"
    BY <1>i DEF ToldBar, KeptBar, Accord, Completed
  <2> QED
    BY <2>1, <2>2, <2>3 DEF Delivery!Next, Delivery!Confirm, Delivery!GiveUp
<1>3. CASE ReceiverStep \/ Reject \/ Approve \/ ReceiverCrash
  <2>1. ToldBar' = ToldBar
    <3>1. UNCHANGED senderVars
      BY <1>3 DEF ReceiverStep, AnswerHello, ReceiveMetadata, IncomingFails, Reject, Approve, Accept,
         PassReceiverGate, ReadChunk, Forward, CancelReceive, ReadLast, ReadFails, ForwardFails,
         AfterLoop, Discard, VerifyGood, VerifyBad, VerifyFails, ReceiverCrash
    <3> QED
      BY <3>1, SameTold, Zenon DEF senderVars
  <2>2. KeptBar = "waiting"
    BY <1>3 DEF ReceiverStep, AnswerHello, ReceiveMetadata, IncomingFails, Reject, Approve, Accept,
       PassReceiverGate, ReadChunk, Forward, CancelReceive, ReadLast, ReadFails, ForwardFails,
       Discard, VerifyGood, VerifyBad, VerifyFails, ReceiverCrash, KeptBar
  <2>3. rPc' # "idle"
    BY <1>3 DEF ReceiverStep, AnswerHello, ReceiveMetadata, IncomingFails, Reject, Approve, Accept,
       PassReceiverGate, ReadChunk, Forward, CancelReceive, ReadLast, ReadFails, ForwardFails,
       AfterLoop, Discard, VerifyGood, VerifyBad, VerifyFails, ReceiverCrash, ReceiverReturns
  <2>4. KeptBar' \in {"waiting", "stored", "dropped"}
    BY <2>3 DEF KeptBar
  <2> QED
    BY <2>1, <2>2, <2>4 DEF Delivery!Next, Delivery!Store, Delivery!Drop
<1>4. CASE WriterTask
  <2>1. ToldBar' = ToldBar /\ UNCHANGED <<rPc, rResult, announced>> /\ wrPc # "ok"
    <3>1. UNCHANGED <<senderVars, receiverVars, worldVars>> /\ wrPc # "ok"
      BY <1>4 DEF WriterTask, WriterOpen, WriterBlock, WriterEnd, WriterFails
    <3> QED
      BY <3>1, SameTold, Zenon DEF senderVars, receiverVars, worldVars
  <2> QED
    BY <2>1, <1>i DEF KeptBar, Accord, Completed
<1>5. CASE ReaderTask \/ PeerReset \/ Break \/ UserStep \/ UNCHANGED vars
  <2>1. UNCHANGED <<sPc, sResult, rPc, rResult, disk, announced>>
    BY <1>5, Zenon DEF ReaderTask, ReaderOpen, ReaderBlock, ReaderEnd, ReaderFails, PeerReset, Break,
       LoseFrames, UserStep, PauseSender, ResumeSender, CancelSender, PauseReceiver,
       ResumeReceiver, CancelReceiver, EditSource, vars, senderVars, receiverVars, writerVars,
       worldVars
  <2> QED
    BY <2>1, SameTold, SameKept
<1> QED
  BY <1>1, <1>2, <1>3, <1>4, <1>5 DEF Next, UserStep

\* send_file_direct_tcp and handle_incoming, with all their tasks, frames and
\* faults, implement FileDelivery.
THEOREM LanTransferDelivers == SafeSpec => ImplementsDelivery
<1>1. Init => Delivery!Init
  BY DeliveryStarts
<1>2. Inv /\ Inv' /\ [Next]_vars => [Delivery!Next]_(Delivery!deliveryVars)
  BY DeliveryStep
<1> QED
  BY <1>1, <1>2, Invariant, PTL DEF SafeSpec, ImplementsDelivery, Delivery!Spec
=============================================================================
