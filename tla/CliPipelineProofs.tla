-------------------------- MODULE CliPipelineProofs --------------------------
(***************************************************************************)
(* The command-line transfers for every file, chunk size, window, number of *)
(* sessions and of faults: what the stored record says of a command, that   *)
(* the counters of a sender stay in order, and that "complete and verified  *)
(* by receiver" is said of the announced file.                              *)
(*                                                                          *)
(* RecordTellsOutcome is not inductive: which record a command takes up     *)
(* depends on every record left by those before it. OneOpen, the            *)
(* strengthening, says where the ids come from, that at most the current    *)
(* record is open, and that it is open as long as the command runs.         *)
(*                                                                          *)
(* VerifiedIsExact is not inductive either: the receiver hashes the chunks  *)
(* it takes off the wire and writes them elsewhere in its task. Data, the   *)
(* strengthening, follows a chunk to the disk and says what the handlers    *)
(* of earlier sessions, still at work on the same file, can do to it.       *)
(*                                                                          *)
(* NeverStranded is the part of BothEnd that no fairness is needed for.     *)
(* Paced, its strengthening, says that the chunks come up to the counters,  *)
(* and that a verdict comes with the last acknowledgement, and only then.   *)
(***************************************************************************)
EXTENDS CliPipeline, ChunksProofs, SequenceTheorems, FiniteSetTheorems,
        WellFoundedInduction, TLAPS

USE CliAssumption

Outcomes == {"none", "refused", "verified", "failed", "paused", "crashed"}

CommandTypes ==
  /\ cur \in 0..MaxSends /\ sPc \in {"idle", "accept", "done"} \cup Running
  /\ outcome \in [Sessions -> Outcomes]
  /\ cur = 0 <=> sPc = "idle"

\* What the record in use says when the command has ended.
Told ==
  /\ outcome[cur] = "verified" => sdb[record].status = "completed" /\ sdb[record].bytes = Size
  /\ outcome[cur] = "failed" => sdb[record].status = "failed"
  /\ outcome[cur] \notin {"verified", "failed"} => sdb[record].status \notin Final

OneOpen ==
  /\ DOMAIN sdb \subseteq 1..cur
  /\ cur > 0 => record \in DOMAIN sdb
  /\ \A r \in DOMAIN sdb : sdb[r].size = Size
  /\ \A r \in DOMAIN sdb \ {record} : sdb[r].status \in Final
  /\ sPc \notin {"idle", "done"} => sdb[record].status \notin Final
  /\ sPc = "done" => Told

RecordInv == CommandTypes /\ OneOpen

LEMMA TellsOutcome == RecordInv => RecordTellsOutcome
  BY DEF RecordInv, OneOpen, Told, RecordTellsOutcome

\* A statement changes one row.
LEMMA WhereIs ==
  ASSUME NEW db, NEW id, NEW row
  PROVE  /\ DOMAIN Where(db, id, row) = DOMAIN db
         /\ \A r \in DOMAIN db : r # id => Where(db, id, row)[r] = db[r]
         /\ id \in DOMAIN db => Where(db, id, row)[id] = row
  BY DEF Where

LEMMA InitRecord == Init => RecordInv
<1> SUFFICES ASSUME Init PROVE RecordInv
  OBVIOUS
<1>1. cur = 0 /\ sPc = "idle" /\ DOMAIN sdb = {}
  BY DEF Init, EmptyStore
<1>2. outcome \in [Sessions -> Outcomes]
  BY DEF Init, Outcomes
<1> QED
  BY <1>1, <1>2 DEF RecordInv, CommandTypes, OneOpen

\* The next command takes up the one open record, or makes a new one.
LEMMA SendRecord ==
  ASSUME RecordInv, NEW c \in ChunkSizes, NEW packed \in BOOLEAN, NEW kind \in Receivers,
         Send(c, packed, kind)
  PROVE  /\ RecordInv'
         /\ \A r \in DOMAIN sdb : sdb'[r] = sdb[r]
<1> USE DEF RecordInv
<1>1. /\ cur' = cur + 1 /\ sPc' = "accept" /\ cur \in 0..MaxSends /\ cur' \in 1..MaxSends
      /\ sPc \in {"idle", "done"}
  BY DEF Send, CommandTypes
<1>2. outcome' \in [Sessions -> Outcomes]
  BY DEF Send, Forget, CommandTypes, Outcomes
<1>3. CommandTypes'
  BY <1>1, <1>2 DEF CommandTypes
<1>4. OpenTransfers(sdb) \subseteq {record} \cap DOMAIN sdb
  BY DEF OpenTransfers, OneOpen
<1>5. CASE OpenTransfers(sdb) = {}
  <2>1. record' = cur + 1 /\ sdb' = CreateTransfer(sdb, cur + 1, Size)
    BY <1>5 DEF Send
  <2>2. /\ DOMAIN sdb' = DOMAIN sdb \cup {cur + 1}
        /\ sdb'[cur + 1] = [status |-> "pending", bytes |-> 0, size |-> Size]
        /\ \A r \in DOMAIN sdb : r # cur + 1 => sdb'[r] = sdb[r]
    BY <2>1 DEF CreateTransfer
  <2>3. cur + 1 \notin DOMAIN sdb
    BY <1>1 DEF OneOpen
  <2>4. \A r \in DOMAIN sdb : sdb[r].status \in Final
    BY <1>5 DEF OpenTransfers
  <2>5. OneOpen'
    BY <1>1, <2>1, <2>2, <2>3, <2>4 DEF OneOpen, Final
  <2> QED
    BY <1>3, <2>2, <2>3, <2>5
<1>6. CASE OpenTransfers(sdb) # {}
  <2>1. sdb' = sdb /\ record' = (CHOOSE r \in OpenTransfers(sdb) : TRUE)
    BY <1>6 DEF Send
  <2>2. record' = record /\ record \in DOMAIN sdb /\ record \in OpenTransfers(sdb)
    BY <1>4, <1>6, <2>1
  <2>3. OneOpen'
    BY <1>1, <2>1, <2>2 DEF OneOpen, OpenTransfers
  <2> QED
    BY <1>3, <2>1, <2>3
<1> QED
  BY <1>5, <1>6

\* A command that ends without a word to the store leaves its record open.
LEMMA LeaveRecord ==
  ASSUME RecordInv, sPc \notin {"idle", "done"}, UNCHANGED <<cur, record, sdb>>,
         NEW how \in {"refused", "paused", "crashed"}, Leave(how)
  PROVE  RecordInv'
<1>1. outcome' \in [Sessions -> Outcomes] /\ outcome'[cur] = how /\ sPc' = "done" /\ cur > 0
  BY DEF RecordInv, CommandTypes, Leave, Outcomes, Sessions
<1> QED
  BY <1>1 DEF RecordInv, CommandTypes, OneOpen, Told

\* The command goes on with its record untouched.
LEMMA GoOnRecord ==
  ASSUME RecordInv, UNCHANGED <<cur, record, sdb, outcome>>,
         sPc' = sPc \/ (sPc \in Running \cup {"accept"} /\ sPc' \in Running)
  PROVE  RecordInv'
  BY DEF RecordInv, CommandTypes, OneOpen, Told, Running

\* Whatever comes after a frame.
LEMMA AfterFrameRecord ==
  ASSUME RecordInv, sPc \in Running, UNCHANGED <<cur, record, sdb>>, NEW next, NEW stages,
         AfterFrame(next, stages)
  PROVE  RecordInv'
<1>1. CASE Leave("paused")
  BY <1>1, LeaveRecord DEF Running
<1>2. CASE sPc' \in Running /\ UNCHANGED outcome
  BY <1>2, GoOnRecord
<1> QED
  BY <1>1, <1>2 DEF AfterFrame, Running

\* A statement about the record of a command that runs.
LEMMA StatementRecord ==
  ASSUME RecordInv, sPc \in Running, UNCHANGED <<cur, record>>, NEW row,
         sdb' = Where(sdb, record, row), row.size = Size,
         outcome' \in [Sessions -> Outcomes],
         \/ row.status \notin Final
            /\ (sPc' \in Running \/ (sPc' = "done" /\ outcome'[cur] = "paused"))
         \/ row.status = "failed" /\ sPc' = "done" /\ outcome'[cur] = "failed"
         \/ row.status = "completed" /\ row.bytes = Size /\ sPc' = "done" /\ outcome'[cur] = "verified"
  PROVE  /\ RecordInv'
         /\ \A r \in DOMAIN sdb : sdb[r].status \in Final => sdb'[r] = sdb[r]
<1>1. record \in DOMAIN sdb /\ sdb[record].status \notin Final /\ cur > 0
  BY DEF RecordInv, CommandTypes, OneOpen, Running
<1>2. /\ DOMAIN sdb' = DOMAIN sdb
      /\ \A r \in DOMAIN sdb : r # record => sdb'[r] = sdb[r]
      /\ sdb'[record] = row
  BY <1>1, WhereIs
<1>3. CommandTypes'
  BY <1>1 DEF RecordInv, CommandTypes, Running
<1>4. OneOpen'
  BY <1>1, <1>2 DEF RecordInv, OneOpen, Told, Final, Running
<1> QED
  BY <1>1, <1>2, <1>3, <1>4 DEF RecordInv

\* The end of a command names its outcome.
LEMMA LeaveNames ==
  ASSUME CommandTypes, cur > 0, NEW how \in Outcomes, Leave(how)
  PROVE  sPc' = "done" /\ outcome' \in [Sessions -> Outcomes] /\ outcome'[cur] = how
  BY DEF CommandTypes, Leave, Sessions

LEMMA StatementSteps ==
  ASSUME RecordInv, SendFails \/ TakeAck \/ Verified
  PROVE  /\ RecordInv'
         /\ \A r \in DOMAIN sdb : sdb[r].status \in Final => sdb'[r] = sdb[r]
<1>1. sPc \in Running /\ CommandTypes /\ cur > 0
  BY DEF SendFails, Failing, TakeAck, Verified, Running, RecordInv, CommandTypes
<1>2. record \in DOMAIN sdb /\ sdb[record].size = Size
  BY <1>1 DEF RecordInv, OneOpen
<1>3. CASE SendFails
  <2> DEFINE row == [status |-> "failed", bytes |-> sdb[record].bytes, size |-> sdb[record].size]
  <2>1. sdb' = Where(sdb, record, row) /\ UNCHANGED <<cur, record>>
    BY <1>3 DEF SendFails, FailTransfer
  <2>2. row.size = Size /\ row.status = "failed"
    BY <1>2
  <2>3. sPc' = "done" /\ outcome' \in [Sessions -> Outcomes] /\ outcome'[cur] = "failed"
    BY <1>1, <1>3, LeaveNames DEF SendFails, Outcomes
  <2> QED
    BY <1>1, <2>1, <2>2, <2>3, StatementRecord
<1>4. CASE TakeAck
  <2> DEFINE counted == bytes + CountedLength(meta[cur].chunk, Size, Total(cur), nextToAck)
             row == [status |-> "in_progress", bytes |-> counted, size |-> sdb[record].size]
  <2>1. sdb' = Where(sdb, record, row) /\ UNCHANGED <<cur, record>>
    BY <1>4 DEF TakeAck, UpdateProgress
  <2>2. row.size = Size /\ row.status \notin Final
    BY <1>2 DEF Final
  <2>3. /\ outcome' \in [Sessions -> Outcomes]
        /\ sPc' \in Running \/ (sPc' = "done" /\ outcome'[cur] = "paused")
    <3>1. CASE paused
      BY <1>1, <1>4, <3>1, LeaveNames DEF TakeAck, Outcomes
    <3>2. CASE ~paused
      BY <1>1, <1>4, <3>2 DEF TakeAck, CommandTypes, Running
    <3> QED
      BY <3>1, <3>2
  <2> HIDE DEF row
  <2> QED
    BY <1>1, <2>1, <2>2, <2>3, StatementRecord
<1>5. CASE Verified
  <2> DEFINE row == [status |-> "completed", bytes |-> sdb[record].size, size |-> sdb[record].size]
  <2>1. sdb' = Where(sdb, record, row) /\ UNCHANGED <<cur, record>>
    BY <1>5 DEF Verified, CompleteTransfer
  <2>2. row.size = Size /\ row.status = "completed" /\ row.bytes = Size
    BY <1>2
  <2>3. sPc' = "done" /\ outcome' \in [Sessions -> Outcomes] /\ outcome'[cur] = "verified"
    BY <1>1, <1>5, LeaveNames DEF Verified, Outcomes
  <2> QED
    BY <1>1, <2>1, <2>2, <2>3, StatementRecord
<1> QED
  BY <1>3, <1>4, <1>5

\* The other steps of the command.
LEMMA CommandRecord ==
  ASSUME RecordInv, \/ ReceiveAccept \/ NotAccepted \/ SendFrame
                    \/ \E i \in Indices : TakeFrame(i)
  PROVE  RecordInv' /\ UNCHANGED sdb
<1>1. CASE ReceiveAccept
  BY <1>1, GoOnRecord DEF ReceiveAccept, Running
<1>2. CASE NotAccepted
  BY <1>2, LeaveRecord DEF NotAccepted
<1>3. CASE SendFrame
  BY <1>3, AfterFrameRecord DEF SendFrame, Running
<1>4. CASE \E i \in Indices : TakeFrame(i)
  BY <1>4, AfterFrameRecord DEF TakeFrame, Running
<1> QED
  BY <1>1, <1>2, <1>3, <1>4

\* The tasks of the command, the handlers and the world leave the store alone.
LEMMA TaskRecord ==
  ASSUME RecordInv, ProducerStep \/ PrepareFails \/ SealStep
  PROVE  RecordInv' /\ UNCHANGED sdb
<1>1. UNCHANGED <<cur, record, sdb, outcome, sPc>>
  BY DEF ProducerStep, Prepare, ProducerEnds, PrepareFails, SealStep, Seal, senderVars
<1> QED
  BY <1>1, GoOnRecord

LEMMA HandlerKeepsSender ==
  ASSUME NEW s \in Sessions, HandlerStep(s) \/ Break(s)
  PROVE  UNCHANGED senderVars
<1>1. CASE OpenFile(s) \/ NotOpened(s) \/ Spawn(s) \/ HandlerFails(s)
  BY <1>1 DEF OpenFile, NotOpened, Spawn, HandlerFails
<1>2. CASE \E i \in Indices : WriteChunk(s, i) \/ AckChunk(s, i)
  BY <1>2 DEF WriteChunk, AckChunk
<1>3. CASE SlowAccept(s) \/ SlowReceive(s) \/ SlowFails(s) \/ Break(s)
  BY <1>3 DEF SlowAccept, SlowReceive, SlowFails, Break
<1> QED
  BY <1>1, <1>2, <1>3 DEF HandlerStep

LEMMA WorldRecord ==
  ASSUME RecordInv, \/ \E s \in Sessions : HandlerStep(s) \/ Break(s)
                    \/ CtrlC \/ Crash \/ EditSource \/ UNCHANGED vars
  PROVE  RecordInv' /\ UNCHANGED sdb
<1>1. CASE Crash
  BY <1>1, LeaveRecord DEF Crash, Running
<1>2. CASE \/ \E s \in Sessions : HandlerStep(s) \/ Break(s)
           \/ CtrlC \/ EditSource \/ UNCHANGED vars
  <2>1. UNCHANGED <<cur, record, sdb, outcome, sPc>>
    BY <1>2, HandlerKeepsSender DEF CtrlC, EditSource, vars, senderVars
  <2> QED
    BY <2>1, GoOnRecord
<1> QED
  BY <1>1, <1>2

LEMMA RecordStep ==
  ASSUME RecordInv, [Next]_vars
  PROVE  /\ RecordInv'
         /\ \A r \in DOMAIN sdb : sdb[r].status \in Final => sdb'[r] = sdb[r]
<1>1. CASE \E c \in ChunkSizes, packed \in BOOLEAN, kind \in Receivers : Send(c, packed, kind)
  BY <1>1, SendRecord
<1>2. CASE SendFails \/ TakeAck \/ Verified
  BY <1>2, StatementSteps
<1>3. CASE ReceiveAccept \/ NotAccepted \/ SendFrame \/ \E i \in Indices : TakeFrame(i)
  BY <1>3, CommandRecord
<1>4. CASE ProducerStep \/ PrepareFails \/ SealStep
  BY <1>4, TaskRecord
<1>5. CASE \/ \E s \in Sessions : HandlerStep(s) \/ Break(s)
           \/ CtrlC \/ Crash \/ EditSource \/ UNCHANGED vars
  BY <1>5, WorldRecord
<1> QED
  BY <1>1, <1>2, <1>3, <1>4, <1>5 DEF Next, CommandStep

LEMMA RecordAlways == SafeSpec => []RecordInv
  BY InitRecord, RecordStep, PTL DEF SafeSpec

\* The stored record tells how the last command ended, and no other is open:
\* list_transfers of cmd_send finds at most the one it should resume.
THEOREM RecordIsTold == SafeSpec => []RecordTellsOutcome
  BY RecordAlways, TellsOutcome, PTL

\* A record once completed or failed is never written again: the statements of
\* update_progress and fail_transfer come only while it is open.
THEOREM FinalIsFinal == SafeSpec => FinalStays
<1>1. RecordInv /\ [Next]_vars =>
        [\A r \in DOMAIN sdb : sdb[r].status \in Final => sdb'[r] = sdb[r]]_vars
  BY RecordStep
<1> QED
  BY <1>1, RecordAlways, PTL DEF SafeSpec, FinalStays

-----------------------------------------------------------------------------
(* The invariant of the chunks, the handlers and the disk *)

Described(s) ==
  /\ meta[s].chunk >= MinChunk /\ meta[s].total = TotalChunks(meta[s].chunk, Size)
  /\ meta[s].version <= version

Blank(s) == \A i \in Indices : stage[s][i] = "todo"

\* A session that has not begun has left no trace.
Unused ==
  \A s \in Sessions : s > cur =>
    Blank(s) /\ rPc[s] = "none" /\ verdict[s] = "none" /\ outcome[s] = "none"

\* What a handler has got, in each of its states. No chunk is sent before the
\* handler has accepted, and its statements find no row.
Handled ==
  \A s \in Sessions :
    /\ rPc[s] \in {"none", "metadata"} => Blank(s)
    /\ s = cur \/ rPc[s] \in {"metadata", "run"} => Described(s)
    /\ verdict[s] # "none" => rPc[s] = "done"
    /\ WireId(s) \notin DOMAIN rdb

\* Whatever has been cut is a chunk of the session, read at some time so far.
Cut ==
  \A s \in Sessions, i \in Indices :
    stage[s][i] # "todo" => i \in Start(s)..(Total(s) - 1) /\ seen[s][i] \in 1..version

Sent == {"wire", "task", "written", "acked"}

\* The counters of the running command bound how far its chunks have come.
Windowed ==
  /\ sPc = "accept" => Blank(cur)
  /\ sPc \in Running =>
       /\ rPc[cur] \in {"run", "done"} /\ Start(cur) <= nextToAck
       /\ \A i \in Indices : /\ i >= prod => stage[cur][i] = "todo"
                             /\ stage[cur][i] \in Sent => i < nextToSend
  /\ sPc = "send" => nextToSend \in Indices /\ stage[cur][nextToSend] = "buffered"

\* The slow receiver serves one connection at a time, and takes chunk 0 first.
Alone ==
  /\ \A r \in Sessions \ {cur} :
       rPc[r] \in {"metadata", "run"} => ~meta[r].slow /\ ~meta[cur].slow
  /\ cur > 0 /\ meta[cur].slow /\ At(cur, {"acked"}) # {} => Start(cur) = 0

Opened == cur > 0 /\ ~meta[cur].slow /\ (rPc[cur] = "run" \/ verdict[cur] = "complete")

\* What an earlier handler can still write is what the announced file has there.
Harmless ==
  Opened /\ clean[cur] =>
    \A r \in Sessions \ {cur}, i \in Indices :
      rPc[r] = "run" /\ stage[r][i] \in {"wire", "task"} =>
        seen[r][i] = meta[cur].version /\ meta[r].chunk <= MaxChunk

Piece(c, i) == (ChunkOffset(c, i) + 1)..(ChunkOffset(c, i) + ChunkLength(c, Size, i))

Undisturbed == meta[cur].chunk <= MaxChunk /\ ~lost[cur] /\ clean[cur]

\* A written chunk is on disk as it was read, or as it was announced.
OnDisk ==
  Opened /\ Undisturbed =>
    /\ Len(disk) = Size
    /\ \A i \in Indices : stage[cur][i] \in {"written", "acked"} =>
         \A p \in Piece(meta[cur].chunk, i) :
           disk[p] \in {<<p, seen[cur][i]>>, <<p, meta[cur].version>>}

\* On what grounds a handler says that the file is complete.
Grounds ==
  /\ cur > 0 /\ outcome[cur] = "verified" => verdict[cur] = "complete"
  /\ cur > 0 /\ verdict[cur] = "complete" =>
       /\ Start(cur) = 0
       /\ IF meta[cur].slow THEN disk = Source(meta[cur].version) ELSE HashValid(cur, stage[cur])

Data == Unused /\ Handled /\ Cut /\ Alone /\ Harmless /\ OnDisk /\ Grounds
Inv == TypeOK /\ RecordInv /\ Windowed /\ Data

LEMMA CurrentSession == Inv => cur \in Nat /\ cur \in 0..MaxSends /\ (cur > 0 => cur \in Sessions)
<1> SUFFICES ASSUME Inv PROVE cur \in Nat /\ cur \in 0..MaxSends /\ (cur > 0 => cur \in Sessions)
  OBVIOUS
<1>1. cur \in 0..MaxSends
  <2>1. SenderOK
    BY DEF Inv, TypeOK
  <2> QED
    BY <2>1 DEF SenderOK
<1> QED
  BY <1>1 DEF Sessions

-----------------------------------------------------------------------------
(* What the operators yield *)

LEMMA NoMetaIsDescription == NoMeta \in Descriptions
<1>1. 1 \in 1..Larger(Size, 1)
  BY DEF Larger
<1> QED
  BY <1>1 DEF NoMeta, Descriptions

LEMMA MetadataType ==
  ASSUME NEW c \in ChunkSizes, NEW packed \in BOOLEAN, NEW kind, NEW offset \in Nat,
         version \in Nat \ {0}
  PROVE  /\ Metadata(c, packed, kind, offset) \in Descriptions
         /\ Metadata(c, packed, kind, offset).chunk >= MinChunk
         /\ Metadata(c, packed, kind, offset).total
              = TotalChunks(Metadata(c, packed, kind, offset).chunk, Size)
         /\ Metadata(c, packed, kind, offset).version = version
         /\ Metadata(c, packed, kind, offset).slow = (kind = "slow")
<1> DEFINE m == MetadataChunk(c)
<1>1. m \in Nat \ {0} /\ m >= MinChunk /\ Clamp(m) = Clamp(c) /\ c \in Nat
  BY ClampOfMetadata
<1>2. TotalChunks(c, Size) \in 1..Larger(Size, 1) /\ TotalChunks(m, Size) = TotalChunks(c, Size)
  BY <1>1, TotalReachesEnd DEF TotalChunks
<1> HIDE DEF m
<1>3. Metadata(c, packed, kind, offset)
        = [chunk |-> m, total |-> TotalChunks(c, Size), offset |-> offset, version |-> version,
           packed |-> packed, slow |-> kind = "slow"]
  BY DEF Metadata, m
<1>4. (kind = "slow") \in BOOLEAN
  OBVIOUS
<1> QED
  BY <1>1, <1>2, <1>3, <1>4 DEF Descriptions

\* Every session's chunks are among the indices, and so is the number after the last.
LEMMA SessionChunks ==
  ASSUME SenderOK, NEW s \in Sessions
  PROVE  /\ Total(s) \in Nat \ {0} /\ Total(s) \in Indices /\ ChunksOf(s) \subseteq Indices
         /\ Start(s) \in ChunksOf(s) /\ meta[s].chunk \in Nat \ {0}
<1>1. meta[s] \in Descriptions
  BY DEF SenderOK
<1>2. /\ meta[s].chunk \in Nat \ {0} /\ meta[s].total \in 1..Larger(Size, 1)
      /\ meta[s].offset \in Nat /\ Larger(Size, 1) \in Nat
  BY <1>1 DEF Descriptions, Larger
<1>3. Start(s) \in 0..(Total(s) - 1)
  <2>1. Total(s) \in Nat \ {0}
    BY <1>2 DEF Total
  <2> QED
    BY <1>2, <2>1, StartInRange DEF Start
<1> QED
  BY <1>2, <1>3 DEF Total, ChunksOf, Indices

LEMMA ForgetType ==
  ASSUME NEW T, NEW f \in [Sessions -> T], NEW default \in T
  PROVE  Forget(f, default) \in [Sessions -> T]
  BY DEF Forget

\* A statement keeps a store a store.
LEMMA WhereType ==
  ASSUME NEW db, db \in [DOMAIN db -> Records], NEW id, NEW row, id \in DOMAIN db => row \in Records
  PROVE  Where(db, id, row) \in [DOMAIN db -> Records] /\ DOMAIN Where(db, id, row) = DOMAIN db
<1>1. Where(db, id, row) = [r \in DOMAIN db |-> IF r = id THEN row ELSE db[r]]
  BY DEF Where
<1>2. ASSUME NEW r \in DOMAIN db PROVE (IF r = id THEN row ELSE db[r]) \in Records
  OBVIOUS
<1> QED
  BY <1>1, <1>2

LEMMA StatementTypes ==
  ASSUME NEW db, db \in [DOMAIN db -> Records], NEW id, NEW n \in Nat
  PROVE  /\ UpdateProgress(db, id, n) \in [DOMAIN db -> Records]
         /\ CompleteTransfer(db, id) \in [DOMAIN db -> Records]
         /\ FailTransfer(db, id) \in [DOMAIN db -> Records]
         /\ DOMAIN UpdateProgress(db, id, n) = DOMAIN db
         /\ DOMAIN CompleteTransfer(db, id) = DOMAIN db /\ DOMAIN FailTransfer(db, id) = DOMAIN db
<1>1. ASSUME id \in DOMAIN db
      PROVE  db[id].bytes \in Nat /\ db[id].size \in Nat
  BY <1>1 DEF Records
<1>2. id \in DOMAIN db =>
        /\ [status |-> "in_progress", bytes |-> n, size |-> db[id].size] \in Records
        /\ [status |-> "completed", bytes |-> db[id].size, size |-> db[id].size] \in Records
        /\ [status |-> "failed", bytes |-> db[id].bytes, size |-> db[id].size] \in Records
  BY <1>1 DEF Records, Statuses, Final
<1> QED
  BY <1>2, WhereType DEF UpdateProgress, CompleteTransfer, FailTransfer

LEMMA CreateType ==
  ASSUME NEW db, db \in [DOMAIN db -> Records], NEW id
  PROVE  /\ CreateTransfer(db, id, Size) \in [DOMAIN db \cup {id} -> Records]
         /\ DOMAIN CreateTransfer(db, id, Size) = DOMAIN db \cup {id}
<1>1. [status |-> "pending", bytes |-> 0, size |-> Size] \in Records
  BY DEF Records, Statuses
<1> QED
  BY <1>1 DEF CreateTransfer

\* An index other than the one that is set keeps its stage.
LEMMA StageSet ==
  ASSUME ChunksOK, NEW s \in Sessions, NEW i \in Indices, NEW x
  PROVE  /\ [stage EXCEPT ![s][i] = x][s][i] = x
         /\ \A r \in Sessions, j \in Indices :
              r # s \/ j # i => [stage EXCEPT ![s][i] = x][r][j] = stage[r][j]
  BY DEF ChunksOK

-----------------------------------------------------------------------------
(* The steps of the command that leave chunks and handlers alone *)

\* The outcome changes only for the running command, to "verified" only when the
\* receiver has said so.
OutcomeStep ==
  \/ UNCHANGED outcome
  \/ \E how \in Outcomes : /\ cur > 0 /\ outcome' = [outcome EXCEPT ![cur] = how]
                           /\ how = "verified" => verdict[cur] = "complete"

LEMMA OutcomeKept ==
  ASSUME SenderOK, OutcomeStep
  PROVE  /\ outcome' \in [Sessions -> Outcomes]
         /\ \A s \in Sessions : s # cur => outcome'[s] = outcome[s]
         /\ cur > 0 /\ outcome'[cur] = "verified" =>
              outcome[cur] = "verified" \/ verdict[cur] = "complete"
<1>1. cur \in Nat /\ outcome \in [Sessions -> Outcomes] /\ cur \in 0..MaxSends
  BY DEF SenderOK, Outcomes
<1> QED
  BY <1>1 DEF OutcomeStep, Sessions

LEMMA DataKept ==
  ASSUME TypeOK, Data, OutcomeStep, version' \in Nat, version <= version',
         UNCHANGED <<cur, meta, stage, seen, rPc, verdict, lost, clean, disk, rdb>>
  PROVE  Data'
<1>a. /\ \A s \in Sessions : s # cur => outcome'[s] = outcome[s]
      /\ cur > 0 /\ outcome'[cur] = "verified" =>
           outcome[cur] = "verified" \/ verdict[cur] = "complete"
  BY OutcomeKept DEF TypeOK
<1>b. /\ \A s \in Sessions : Blank(s)' = Blank(s) /\ Total(s)' = Total(s) /\ Start(s)' = Start(s)
      /\ cur \in Nat /\ version \in Nat
  BY DEF Blank, Total, Start, TypeOK, SenderOK, WorldOK
<1>1. Unused'
  <2>1. \A s \in Sessions : s > cur => s # cur
    BY <1>b DEF Sessions
  <2> QED
    BY <1>a, <1>b, <2>1 DEF Data, Unused
<1>2. Handled'
  <2>1. \A s \in Sessions : meta[s].version \in Nat
    BY DEF TypeOK, SenderOK, Descriptions
  <2>2. \A s \in Sessions : Described(s) => Described(s)'
    BY <1>b, <2>1 DEF Described
  <2> QED
    BY <1>b, <2>2 DEF Data, Handled, WireId
<1>3. Cut'
  BY <1>b DEF Data, Cut
<1>4. Alone'
  BY <1>b DEF Data, Alone, At, ChunksOf, Total, Start
<1>5. Harmless'
  BY DEF Data, Harmless, Opened
<1>6. OnDisk'
  BY DEF Data, OnDisk, Opened, Undisturbed
<1>7. Grounds'
  BY <1>a, <1>b DEF Data, Grounds, HashValid, ChunksOf, Total, Start
<1> QED
  BY <1>1, <1>2, <1>3, <1>4, <1>5, <1>6, <1>7 DEF Data

\* What a step needs besides when it touches neither chunks nor handlers.
LEMMA QuietInv ==
  ASSUME Inv, RecordInv', SenderOK', Windowed', OutcomeStep,
         UNCHANGED <<cur, meta, chunkVars, handlerVars>>,
         conn' \in [Sessions -> {"open", "broken"}], version' \in Nat, version <= version',
         faults' \in 0..MaxFaults
  PROVE  Inv'
<1>1. Data'
  BY DataKept DEF Inv, chunkVars, handlerVars
<1>2. TypeOK'
  BY DEF Inv, TypeOK, ChunksOK, HandlersOK, WorldOK, chunkVars, handlerVars
<1> QED
  BY <1>1, <1>2 DEF Inv

\* The end of a command.
LEMMA LeaveOK ==
  ASSUME SenderOK, NEW how \in Outcomes, Leave(how), UNCHANGED <<cur, record, meta>>,
         sdb' \in [DOMAIN sdb' -> Records]
  PROVE  SenderOK' /\ Windowed'
<1>1. outcome' \in [Sessions -> Outcomes] /\ sPc' = "done"
  BY DEF Leave, SenderOK, Outcomes
<1>2. Windowed'
  BY <1>1 DEF Windowed, Running
<1>3. /\ paused' \in BOOLEAN /\ err' \in BOOLEAN /\ prodPc' \in {"run", "stopped"}
      /\ {prod', nextToSend', nextToAck', bytes'} \subseteq Nat
  <2>1. /\ paused' = FALSE /\ err' = FALSE /\ prod' = 0 /\ prodPc' = "stopped"
        /\ nextToSend' = 0 /\ nextToAck' = 0 /\ bytes' = 0
    BY DEF Leave
  <2>2. paused' \in BOOLEAN /\ err' \in BOOLEAN
    BY <2>1, Zenon
  <2>3. prodPc' \in {"run", "stopped"} /\ {prod', nextToSend', nextToAck', bytes'} \subseteq Nat
    BY <2>1
  <2> QED
    BY <2>2, <2>3
<1>4. /\ cur' \in 0..MaxSends /\ record' \in 0..cur' /\ meta' \in [Sessions -> Descriptions]
  BY DEF SenderOK
<1> QED
  BY <1>1, <1>2, <1>3, <1>4 DEF SenderOK, Outcomes, Running

LEMMA StillWorld ==
  ASSUME TypeOK, UNCHANGED <<conn, version>>, UNCHANGED faults \/ Fault
  PROVE  /\ conn' \in [Sessions -> {"open", "broken"}]
         /\ version' \in Nat /\ version <= version' /\ faults' \in 0..MaxFaults
  BY DEF TypeOK, WorldOK, Fault

\* A command that ends changes nothing but itself and the store.
LEMMA LeaveInv ==
  ASSUME Inv, RecordInv', NEW how \in Outcomes, Leave(how),
         cur > 0, how = "verified" => verdict[cur] = "complete",
         UNCHANGED <<cur, record, meta, chunkVars, handlerVars, conn, version>>,
         UNCHANGED faults \/ Fault, sdb' \in [DOMAIN sdb' -> Records]
  PROVE  Inv'
<1>1. SenderOK' /\ Windowed'
  BY LeaveOK DEF Inv, TypeOK
<1>2. OutcomeStep
  BY DEF OutcomeStep, Leave
<1> QED
  BY <1>1, <1>2, QuietInv, StillWorld DEF Inv

LEMMA SomeCommand ==
  ASSUME Inv, sPc \notin {"idle", "done"}
  PROVE  cur > 0 /\ cur \in Sessions /\ cur \in Nat
  BY DEF Inv, RecordInv, CommandTypes, Sessions

LEMMA NotAcceptedInv == Inv /\ NotAccepted => Inv'
<1> SUFFICES ASSUME Inv, NotAccepted PROVE Inv'
  OBVIOUS
<1>1. RecordInv'
  BY CommandRecord DEF Inv
<1> QED
  BY <1>1, SomeCommand, LeaveInv DEF NotAccepted, worldVars, Inv, TypeOK, SenderOK, Outcomes

LEMMA CrashInv == Inv /\ Crash => Inv'
<1> SUFFICES ASSUME Inv, Crash PROVE Inv'
  OBVIOUS
<1>1. RecordInv'
  BY WorldRecord DEF Inv
<1>2. sPc \notin {"idle", "done"}
  BY DEF Crash, Running
<1> QED
  BY <1>1, <1>2, SomeCommand, LeaveInv DEF Crash, Inv, TypeOK, SenderOK, Outcomes

LEMMA SendFailsInv == Inv /\ SendFails => Inv'
<1> SUFFICES ASSUME Inv, SendFails PROVE Inv'
  OBVIOUS
<1>1. RecordInv'
  BY StatementSteps DEF Inv
<1>2. sPc \notin {"idle", "done"}
  BY DEF SendFails, Failing
<1>3. sdb' \in [DOMAIN sdb' -> Records]
  BY StatementTypes DEF SendFails, Inv, TypeOK, SenderOK
<1> QED
  BY <1>1, <1>2, <1>3, SomeCommand, LeaveInv DEF SendFails, worldVars, Outcomes

LEMMA VerifiedInv == Inv /\ Verified => Inv'
<1> SUFFICES ASSUME Inv, Verified PROVE Inv'
  OBVIOUS
<1>1. RecordInv'
  BY StatementSteps DEF Inv
<1>2. sPc \notin {"idle", "done"}
  BY DEF Verified
<1>3. sdb' \in [DOMAIN sdb' -> Records]
  BY StatementTypes DEF Verified, Inv, TypeOK, SenderOK
<1> QED
  BY <1>1, <1>2, <1>3, SomeCommand, LeaveInv DEF Verified, worldVars, Outcomes

LEMMA ReceiveAcceptInv == Inv /\ ReceiveAccept => Inv'
<1> SUFFICES ASSUME Inv, ReceiveAccept PROVE Inv'
  OBVIOUS
<1>1. RecordInv'
  BY CommandRecord DEF Inv
<1>2. cur > 0 /\ cur \in Sessions /\ cur \in Nat
  BY SomeCommand DEF ReceiveAccept
<1>3. /\ Start(cur) \in Nat /\ Start(cur) <= Total(cur) /\ Total(cur) \in Nat
      /\ Start(cur)' = Start(cur) /\ Total(cur)' = Total(cur) /\ meta[cur].offset \in Nat
  <2>1. meta[cur].offset \in Nat
    BY <1>2 DEF Inv, TypeOK, SenderOK, Descriptions
  <2>2. UNCHANGED <<cur, meta>>
    BY DEF ReceiveAccept
  <2> QED
    BY <1>2, <2>1, <2>2, SessionChunks DEF Inv, TypeOK, ChunksOf, Start, Total
<1>4. /\ sPc' = "select" /\ paused' = FALSE /\ err' = FALSE /\ prodPc' = "run"
      /\ prod' = Start(cur) /\ nextToSend' = Start(cur) /\ nextToAck' = Start(cur)
      /\ bytes' = meta[cur].offset /\ rPc[cur] = "run" /\ sPc = "accept"
      /\ UNCHANGED <<cur, record, outcome, sdb, meta, chunkVars, handlerVars, worldVars>>
  BY DEF ReceiveAccept
<1>5. SenderOK'
  <2>1. paused' \in BOOLEAN /\ err' \in BOOLEAN
    BY <1>4, Zenon
  <2> QED
    BY <1>3, <1>4, <2>1 DEF Inv, TypeOK, SenderOK, Running
<1>6. Windowed'
  <2>1. \A i \in Indices : stage'[cur'][i] = "todo"
    BY <1>4 DEF Inv, Windowed, Blank, chunkVars
  <2> QED
    BY <1>3, <1>4, <2>1 DEF Windowed, Running, Sent, handlerVars
<1> QED
  BY <1>1, <1>4, <1>5, <1>6, QuietInv, StillWorld DEF Inv, OutcomeStep, worldVars

\* Only chunks that were sent are acknowledged: there are no more of them than the
\* counters have passed, so a pending acknowledgement is one of a chunk in flight.
LEMMA AckIsOfSent ==
  ASSUME Inv, sPc \in Running, AcksInFlight > 0
  PROVE  nextToAck < nextToSend
<1> DEFINE A == At(cur, {"acked"})
<1>1. cur \in Sessions
  BY SomeCommand DEF Running
<1>2. /\ Start(cur) \in Nat /\ ChunksOf(cur) \subseteq Indices /\ nextToSend \in Nat /\ nextToAck \in Nat
      /\ Start(cur) <= nextToAck /\ nextToAck <= nextToSend
  BY <1>1, SessionChunks DEF Inv, TypeOK, SenderOK, Windowed, ChunksOf
<1>3. A \subseteq Start(cur)..(nextToSend - 1)
  <2>1. ASSUME NEW i \in A PROVE i \in Start(cur)..(nextToSend - 1)
    <3>1. i \in Indices /\ stage[cur][i] = "acked"
      BY <1>2 DEF At
    <3>2. i < nextToSend
      BY <3>1 DEF Inv, Windowed, Sent
    <3>3. i \in Start(cur)..(Total(cur) - 1)
      BY <1>1, <3>1 DEF Inv, Data, Cut
    <3> QED
      BY <1>2, <3>2, <3>3
  <2> QED
    BY <2>1
<1>4. /\ IsFiniteSet(Start(cur)..(nextToSend - 1))
      /\ Cardinality(Start(cur)..(nextToSend - 1)) = nextToSend - Start(cur)
  <2>1. Start(cur) \in Int /\ nextToSend - 1 \in Int /\ Start(cur) <= nextToSend
    BY <1>2
  <2> HIDE DEF A
  <2>2. Cardinality(Start(cur)..(nextToSend - 1))
          = IF Start(cur) > nextToSend - 1 THEN 0 ELSE (nextToSend - 1) - Start(cur) + 1
    BY <2>1, FS_Interval
  <2>3. IsFiniteSet(Start(cur)..(nextToSend - 1))
    BY <2>1, FS_Interval
  <2> QED
    BY <1>2, <2>1, <2>2, <2>3
<1>5. Cardinality(A) <= nextToSend - Start(cur) /\ Cardinality(A) \in Nat
  BY <1>3, <1>4, FS_Subset, FS_CardinalityType
<1> HIDE DEF A
<1> QED
  BY <1>2, <1>5 DEF AcksInFlight, A

LEMMA TakeAckInv == Inv /\ TakeAck => Inv'
<1> SUFFICES ASSUME Inv, TakeAck PROVE Inv'
  OBVIOUS
<1>1. RecordInv'
  BY StatementSteps DEF Inv
<1>2. sPc = "select" /\ cur > 0 /\ cur \in Sessions /\ AcksInFlight > 0
  BY SomeCommand DEF TakeAck
<1> DEFINE counted == bytes + CountedLength(meta[cur].chunk, Size, Total(cur), nextToAck)
<1>3. counted \in Nat
  BY <1>2, SessionChunks, CountedType DEF Inv, TypeOK, SenderOK
<1>4. sdb' = UpdateProgress(sdb, record, counted)
  BY DEF TakeAck
<1> HIDE DEF counted
<1>5. sdb' \in [DOMAIN sdb' -> Records]
  BY <1>3, <1>4, StatementTypes DEF Inv, TypeOK, SenderOK
<1>6. UNCHANGED <<cur, record, meta, chunkVars, handlerVars, worldVars>>
  BY DEF TakeAck
<1>7. CASE paused
  <2>1. Leave("paused")
    BY <1>7 DEF TakeAck
  <2> QED
    BY <1>1, <1>2, <1>5, <1>6, <2>1, LeaveInv DEF Outcomes, worldVars
<1>8. CASE ~paused
  <2>1. /\ bytes' = counted /\ nextToAck' = nextToAck + 1 /\ sPc' \in {"verify", "select"}
        /\ UNCHANGED <<outcome, paused, err, prod, prodPc, nextToSend>>
    BY <1>8 DEF TakeAck, counted
  <2>2. nextToAck < nextToSend
    BY <1>2, AckIsOfSent DEF Running
  <2>3. Total(cur)' = Total(cur) /\ Start(cur)' = Start(cur) /\ Start(cur) \in Nat
    BY <1>2, <1>6, SessionChunks DEF Total, Start, ChunksOf, Inv, TypeOK
  <2>4. SenderOK'
    BY <1>2, <1>3, <1>5, <1>6, <2>1, <2>2, <2>3 DEF Inv, TypeOK, SenderOK, Running
  <2>5. Windowed'
    BY <1>2, <1>6, <2>1, <2>3 DEF Inv, TypeOK, SenderOK, Windowed, Running, chunkVars, handlerVars
  <2> QED
    BY <1>1, <1>6, <2>1, <2>4, <2>5, QuietInv, StillWorld DEF Inv, OutcomeStep, worldVars
<1> QED
  BY <1>7, <1>8

\* Whatever leaves counters and chunks alone leaves the window alone.
LEMMA WindowKept ==
  ASSUME Windowed, UNCHANGED <<cur, sPc, prod, nextToSend, nextToAck, meta, stage>>,
         rPc'[cur] = rPc[cur] \/ (rPc[cur] # "none" /\ rPc'[cur] \in {"run", "done"})
  PROVE  Windowed'
  BY DEF Windowed, Blank, Start, Total

\* The reading task ends or fails, the user pauses, the source is edited, the
\* connection breaks.
LEMMA AsideInv ==
  ASSUME Inv, \/ ProducerEnds \/ PrepareFails \/ CtrlC \/ EditSource
              \/ \E s \in Sessions : Break(s)
  PROVE  Inv'
<1>1. RecordInv'
  BY TaskRecord, WorldRecord DEF Inv, ProducerStep
<1>2. UNCHANGED <<cur, sPc, prod, nextToSend, nextToAck, bytes, record, outcome, sdb, meta,
                  chunkVars, handlerVars>>
  BY DEF ProducerEnds, PrepareFails, CtrlC, EditSource, Break, senderVars, procVars
<1>3. paused' \in BOOLEAN /\ err' \in BOOLEAN /\ prodPc' \in {"run", "stopped"}
  <2>1. paused \in BOOLEAN /\ err \in BOOLEAN /\ prodPc \in {"run", "stopped"}
    BY DEF Inv, TypeOK, SenderOK
  <2>2. (paused' = paused \/ paused' = TRUE) /\ (err' = err \/ err' = TRUE)
    BY DEF ProducerEnds, PrepareFails, CtrlC, EditSource, Break, senderVars, procVars
  <2>3. prodPc' = prodPc \/ prodPc' = "stopped"
    BY DEF ProducerEnds, PrepareFails, CtrlC, EditSource, Break, senderVars, procVars
  <2>4. paused' \in BOOLEAN /\ err' \in BOOLEAN
    BY <2>1, <2>2, Zenon
  <2> QED
    BY <2>1, <2>3, <2>4
<1>4. SenderOK'
  BY <1>2, <1>3 DEF Inv, TypeOK, SenderOK, Total
<1>5. Windowed'
  BY <1>2, WindowKept DEF Inv, chunkVars, handlerVars
<1>6. /\ conn' \in [Sessions -> {"open", "broken"}] /\ version' \in Nat /\ version <= version'
      /\ faults' \in 0..MaxFaults
  BY DEF ProducerEnds, PrepareFails, CtrlC, EditSource, Break, worldVars, Fault, Inv, TypeOK, WorldOK
<1> QED
  BY <1>1, <1>2, <1>4, <1>5, <1>6, QuietInv DEF OutcomeStep

-----------------------------------------------------------------------------
(* The chunks up to the wire *)

Unsent == {"todo", "sealing", "net", "buffered"}

\* A chunk of the running command goes on, up to the wire: no handler sees it yet.
LEMMA ChunkMoves ==
  ASSUME Inv, sPc \in Running, NEW i \in Start(cur)..(Total(cur) - 1), stage[cur][i] \in Unsent,
         NEW x \in {"sealing", "net", "buffered", "wire"}, stage' = [stage EXCEPT ![cur][i] = x],
         \/ seen' = seen /\ stage[cur][i] # "todo"
         \/ seen' = [seen EXCEPT ![cur][i] = version],
         OutcomeStep, UNCHANGED <<cur, meta, handlerVars, worldVars>>
  PROVE  Data' /\ ChunksOK'
<1>a. /\ TypeOK /\ Data /\ cur \in Sessions /\ cur \in Nat /\ cur > 0 /\ version \in Nat \ {0}
      /\ UNCHANGED <<rPc, verdict, lost, clean, disk, rdb, version>>
  BY SomeCommand DEF Inv, TypeOK, WorldOK, Running, handlerVars, worldVars
<1>b. /\ \A s \in Sessions : Total(s)' = Total(s) /\ Start(s)' = Start(s) /\ ChunksOf(s)' = ChunksOf(s)
      /\ i \in Indices /\ i \in ChunksOf(cur)
  <2>1. ChunksOf(cur) \subseteq Indices /\ Start(cur) \in Nat /\ Total(cur) \in Nat
    BY <1>a, SessionChunks DEF TypeOK, ChunksOf
  <2> QED
    BY <2>1 DEF Total, Start, ChunksOf
<1>c. /\ stage'[cur][i] = x
      /\ \A r \in Sessions, j \in Indices : r # cur \/ j # i => stage'[r][j] = stage[r][j]
  <2>1. ChunksOK /\ cur \in Sessions /\ i \in Indices
    BY <1>a, <1>b DEF TypeOK
  <2> QED
    BY <2>1 DEF ChunksOK
<1>d. /\ seen'[cur][i] \in 1..version
      /\ \A r \in Sessions, j \in Indices : r # cur \/ j # i => seen'[r][j] = seen[r][j]
  <2>1. CASE seen' = seen /\ stage[cur][i] # "todo"
    BY <1>a, <1>b, <2>1 DEF Data, Cut
  <2>2. CASE seen' = [seen EXCEPT ![cur][i] = version]
    BY <1>a, <1>b, <2>2 DEF TypeOK, ChunksOK
  <2> QED
    BY <2>1, <2>2
<1>e. ChunksOK'
  <2>1. stage' \in [Sessions -> [Indices -> {"todo", "sealing", "net", "buffered", "wire", "task",
                                            "written", "acked"}]]
    BY <1>a, <1>b DEF TypeOK, ChunksOK
  <2>2. seen' \in [Sessions -> [Indices -> Nat]]
    BY <1>a, <1>b DEF TypeOK, ChunksOK
  <2> QED
    BY <2>1, <2>2 DEF ChunksOK
<1>1. Unused'
  <2>1. \A s \in Sessions : s # cur => outcome'[s] = outcome[s]
    BY <1>a, OutcomeKept DEF TypeOK
  <2>2. \A s \in Sessions : s > cur => s # cur
    BY <1>a
  <2> QED
    BY <1>a, <1>c, <2>1, <2>2 DEF Data, Unused, Blank
<1>2. Handled'
  <2>1. \A s \in Sessions : Described(s)' = Described(s)
    BY <1>a DEF Described
  <2>2. rPc[cur] \in {"run", "done"}
    BY DEF Inv, Windowed
  <2>3. \A s \in Sessions : rPc[s] \in {"none", "metadata"} => Blank(s)'
    <3>1. \A s \in Sessions : rPc[s] \in {"none", "metadata"} => s # cur /\ Blank(s)
      BY <1>a, <2>2 DEF Data, Handled
    <3> QED
      BY <1>c, <3>1 DEF Blank
  <2>4. \A s \in Sessions : /\ s = cur \/ rPc[s] \in {"metadata", "run"} => Described(s)
                            /\ verdict[s] # "none" => rPc[s] = "done"
                            /\ WireId(s) \notin DOMAIN rdb
    BY <1>a DEF Data, Handled
  <2> QED
    BY <1>a, <2>1, <2>3, <2>4 DEF Handled, WireId
<1>3. Cut'
  <2> SUFFICES ASSUME NEW s \in Sessions, NEW j \in Indices, stage'[s][j] # "todo"
               PROVE  j \in Start(s)..(Total(s) - 1) /\ seen'[s][j] \in 1..version
    BY <1>a, <1>b DEF Cut
  <2>1. CASE s = cur /\ j = i
    BY <1>d, <2>1
  <2>2. CASE s # cur \/ j # i
    BY <1>a, <1>c, <1>d, <2>2 DEF Data, Cut
  <2> QED
    BY <2>1, <2>2
<1>4. Alone'
  <2>1. At(cur, {"acked"})' = At(cur, {"acked"})
    <3>1. \A j \in ChunksOf(cur) : stage'[cur][j] = "acked" <=> stage[cur][j] = "acked"
      BY <1>a, <1>b, <1>c, SessionChunks DEF TypeOK, Unsent
    <3> QED
      BY <1>a, <1>b, <3>1 DEF At
  <2> QED
    BY <1>a, <1>b, <2>1 DEF Data, Alone
<1>5. Harmless'
  BY <1>a, <1>c, <1>d DEF Data, Harmless, Opened
<1>6. OnDisk'
  <2>1. \A j \in Indices : stage'[cur][j] \in {"written", "acked"} =>
          stage[cur][j] \in {"written", "acked"} /\ seen'[cur][j] = seen[cur][j]
    BY <1>a, <1>c, <1>d
  <2> QED
    BY <1>a, <2>1 DEF Data, OnDisk, Opened, Undisturbed
<1>7. Grounds'
  <2>1. cur > 0 /\ outcome'[cur] = "verified" => outcome[cur] = "verified" \/ verdict[cur] = "complete"
    BY <1>a, OutcomeKept DEF TypeOK
  <2>2. ~HashValid(cur, stage[cur])
    BY <1>b DEF HashValid, Unsent
  <2> QED
    BY <1>a, <1>b, <2>1, <2>2 DEF Data, Grounds
<1> QED
  BY <1>1, <1>2, <1>3, <1>4, <1>5, <1>6, <1>7, <1>e DEF Data

LEMMA StageAt ==
  ASSUME ChunksOK, cur \in Sessions, NEW i \in Indices, NEW x, stage' = [stage EXCEPT ![cur][i] = x]
  PROVE  stage'[cur][i] = x /\ \A j \in Indices : j # i => stage'[cur][j] = stage[cur][j]
  BY StageSet

\* What is left to show for such a step.
LEMMA ChunkInv ==
  ASSUME Inv, RecordInv', SenderOK', Windowed', Data', ChunksOK', UNCHANGED <<handlerVars, worldVars>>
  PROVE  Inv'
<1>1. HandlersOK' /\ WorldOK'
  BY DEF Inv, TypeOK, HandlersOK, WorldOK, handlerVars, worldVars
<1> QED
  BY <1>1 DEF Inv, TypeOK

LEMMA PrepareInv == Inv /\ Prepare => Inv'
<1> SUFFICES ASSUME Inv, Prepare PROVE Inv'
  OBVIOUS
<1>1. RecordInv'
  BY TaskRecord DEF Inv, ProducerStep
<1>2. sPc \in Running /\ prod < Total(cur) /\ cur \in Sessions
  BY SomeCommand DEF Prepare, AtLoopTop, Running
<1>3. /\ prod' = prod + 1 /\ stage' = [stage EXCEPT ![cur][prod] = "sealing"]
      /\ seen' = [seen EXCEPT ![cur][prod] = version]
      /\ UNCHANGED <<cur, sPc, paused, err, prodPc, nextToSend, nextToAck, bytes, record, outcome,
                     sdb, meta, handlerVars, worldVars>>
  BY DEF Prepare
<1>4. /\ prod \in Nat /\ Start(cur) \in Nat /\ Start(cur) <= prod /\ nextToSend <= prod
      /\ Total(cur) \in Nat /\ ChunksOf(cur) \subseteq Indices /\ nextToSend \in Nat
  BY <1>2, SessionChunks DEF Inv, TypeOK, SenderOK, Windowed, ChunksOf
<1>5. prod \in Indices /\ prod \in Start(cur)..(Total(cur) - 1)
  BY <1>2, <1>4 DEF ChunksOf
<1>6. stage[cur][prod] = "todo"
  BY <1>2, <1>4, <1>5 DEF Inv, Windowed
<1>7. Data' /\ ChunksOK'
  BY <1>2, <1>3, <1>5, <1>6, ChunkMoves DEF Unsent, OutcomeStep
<1>8. SenderOK'
  BY <1>2, <1>3, <1>4 DEF Inv, TypeOK, SenderOK, Total
<1>9. Windowed'
  <2>1. /\ stage'[cur][prod] = "sealing"
        /\ \A j \in Indices : j # prod => stage'[cur][j] = stage[cur][j]
    BY <1>2, <1>3, <1>5, StageAt DEF Inv, TypeOK
  <2>2. \A j \in Indices : j >= prod + 1 => j >= prod /\ j # prod
    BY <1>4 DEF Indices
  <2>3. UNCHANGED <<rPc, Start(cur)>>
    BY <1>3 DEF handlerVars, Start, Total
  <2> QED
    BY <1>2, <1>3, <1>5, <1>6, <2>1, <2>2, <2>3 DEF Inv, Windowed, Sent, Running
<1> QED
  BY <1>1, <1>3, <1>7, <1>8, <1>9, ChunkInv

LEMMA SealInv ==
  ASSUME Inv, NEW i \in Indices, Seal(i)
  PROVE  Inv'
<1>1. RecordInv'
  BY TaskRecord DEF Inv, SealStep
<1>2. sPc \in Running /\ cur \in Sessions /\ stage[cur][i] = "sealing"
  BY SomeCommand DEF Seal, Running
<1>3. /\ stage' = [stage EXCEPT ![cur][i] = "net"]
      /\ UNCHANGED <<senderVars, seen, handlerVars, worldVars>>
  BY DEF Seal
<1>4. i \in Start(cur)..(Total(cur) - 1)
  BY <1>2 DEF Inv, Data, Cut
<1>5. Data' /\ ChunksOK'
  BY <1>2, <1>3, <1>4, ChunkMoves DEF Unsent, OutcomeStep, senderVars
<1>6. SenderOK'
  BY <1>3 DEF Inv, TypeOK, SenderOK, senderVars, procVars, Total
<1>7. Windowed'
  <2>1. stage'[cur][i] = "net" /\ \A j \in Indices : j # i => stage'[cur][j] = stage[cur][j]
    BY <1>2, <1>3, StageAt DEF Inv, TypeOK
  <2>2. UNCHANGED <<cur, sPc, prod, nextToSend, nextToAck, rPc, Start(cur)>>
    BY <1>3 DEF handlerVars, senderVars, procVars, Start, Total
  <2> QED
    BY <1>2, <2>1, <2>2 DEF Inv, Windowed, Sent, Running
<1> QED
  BY <1>1, <1>3, <1>5, <1>6, <1>7, ChunkInv

\* After a frame the loop goes on with the next one, waits, or leaves.
LEMMA AfterFrameOK ==
  ASSUME Inv, sPc \in Running, NEW next \in Nat, nextToAck <= next, next <= prod,
         \A j \in Indices : /\ j >= prod => stage'[cur][j] = "todo"
                            /\ stage'[cur][j] \in Sent => j < next,
         AfterFrame(next, stage'[cur]), UNCHANGED <<cur, record, sdb, meta, handlerVars>>
  PROVE  SenderOK' /\ Windowed' /\ OutcomeStep
<1>1. cur \in Sessions /\ cur > 0 /\ SenderOK
  BY SomeCommand DEF Running, Inv, TypeOK
<1>2. CASE Leave("paused")
  <2>1. SenderOK' /\ Windowed'
    BY <1>1, <1>2, LeaveOK DEF Outcomes, SenderOK
  <2> QED
    BY <1>1, <1>2, <2>1 DEF OutcomeStep, Leave, Outcomes
<1>3. CASE ~Leave("paused")
  <2>1. /\ sPc' = IF stage'[cur][next] = "buffered" THEN "send" ELSE "select"
        /\ nextToSend' = next
        /\ UNCHANGED <<outcome, paused, err, prod, prodPc, nextToAck, bytes>>
    BY <1>3 DEF AfterFrame
  <2>2. sPc' \in {"send", "select"} /\ UNCHANGED <<Total(cur), Start(cur), rPc>>
    BY <2>1 DEF Total, Start, handlerVars
  <2>3. SenderOK'
    BY <1>1, <2>1, <2>2 DEF SenderOK, Running
  <2>4. next \in Indices
    <3>1. prod \in Nat /\ prod <= Total(cur) /\ Total(cur) \in Indices
      BY <1>1, SessionChunks DEF SenderOK
    <3>2. Larger(Size, 1) \in Nat
      BY DEF Larger
    <3> QED
      BY <3>1, <3>2 DEF Indices
  <2>5. Windowed'
    BY <2>1, <2>2, <2>4 DEF Inv, Windowed, Running
  <2> QED
    BY <2>1, <2>3, <2>5 DEF OutcomeStep
<1> QED
  BY <1>2, <1>3

LEMMA TakeFrameInv ==
  ASSUME Inv, NEW i \in Indices, TakeFrame(i)
  PROVE  Inv'
<1>1. RecordInv'
  BY CommandRecord DEF Inv
<1>2. sPc \in Running /\ cur \in Sessions /\ stage[cur][i] = "net"
  BY SomeCommand DEF TakeFrame, Running
<1>3. /\ stage' = [stage EXCEPT ![cur][i] = "buffered"] /\ AfterFrame(nextToSend, stage'[cur])
      /\ UNCHANGED <<cur, record, sdb, meta, seen, handlerVars, worldVars>>
  BY DEF TakeFrame
<1>4. i \in Start(cur)..(Total(cur) - 1)
  BY <1>2 DEF Inv, Data, Cut
<1>5. SenderOK' /\ Windowed' /\ OutcomeStep
  <2>1. stage'[cur][i] = "buffered" /\ \A j \in Indices : j # i => stage'[cur][j] = stage[cur][j]
    BY <1>2, <1>3, StageAt DEF Inv, TypeOK
  <2>2. \A j \in Indices : /\ j >= prod => stage'[cur][j] = "todo"
                           /\ stage'[cur][j] \in Sent => j < nextToSend
    BY <1>2, <2>1 DEF Inv, Windowed, Sent
  <2>3. nextToSend \in Nat /\ nextToAck <= nextToSend /\ nextToSend <= prod
    BY <1>2 DEF Inv, TypeOK, SenderOK
  <2> QED
    BY <1>2, <1>3, <2>2, <2>3, AfterFrameOK
<1>6. Data' /\ ChunksOK'
  BY <1>2, <1>3, <1>4, <1>5, ChunkMoves DEF Unsent
<1> QED
  BY <1>1, <1>3, <1>5, <1>6, ChunkInv

LEMMA SendFrameInv == Inv /\ SendFrame => Inv'
<1> SUFFICES ASSUME Inv, SendFrame PROVE Inv'
  OBVIOUS
<1>1. RecordInv'
  BY CommandRecord DEF Inv
<1>2. /\ sPc \in Running /\ cur \in Sessions
      /\ nextToSend \in Indices /\ stage[cur][nextToSend] = "buffered"
  BY SomeCommand DEF SendFrame, Running, Inv, Windowed
<1>3. /\ stage' = [stage EXCEPT ![cur][nextToSend] = "wire"]
      /\ AfterFrame(nextToSend + 1, stage'[cur])
      /\ UNCHANGED <<cur, record, sdb, meta, seen, handlerVars, worldVars>>
  BY DEF SendFrame
<1>4. nextToSend \in Start(cur)..(Total(cur) - 1)
  BY <1>2 DEF Inv, Data, Cut
<1>5. SenderOK' /\ Windowed' /\ OutcomeStep
  <2>1. /\ stage'[cur][nextToSend] = "wire"
        /\ \A j \in Indices : j # nextToSend => stage'[cur][j] = stage[cur][j]
    BY <1>2, <1>3, StageAt DEF Inv, TypeOK
  <2>2. nextToSend \in Nat /\ prod \in Nat /\ nextToAck \in Nat /\ nextToAck <= nextToSend
    BY <1>2 DEF Inv, TypeOK, SenderOK
  <2>3. nextToSend < prod
    BY <1>2, <2>2 DEF Inv, Windowed
  <2>4. \A j \in Indices : /\ j >= prod => stage'[cur][j] = "todo"
                           /\ stage'[cur][j] \in Sent => j < nextToSend + 1
    <3> SUFFICES ASSUME NEW j \in Indices
                 PROVE  /\ j >= prod => stage'[cur][j] = "todo"
                        /\ stage'[cur][j] \in Sent => j < nextToSend + 1
      OBVIOUS
    <3>1. CASE j = nextToSend
      BY <2>2, <2>3, <3>1
    <3>2. CASE j # nextToSend
      BY <1>2, <2>1, <2>2, <3>2 DEF Inv, Windowed, Indices
    <3> QED
      BY <3>1, <3>2
  <2>5. nextToSend + 1 \in Nat /\ nextToAck <= nextToSend + 1 /\ nextToSend + 1 <= prod
    BY <2>2, <2>3
  <2> QED
    BY <1>2, <1>3, <2>4, <2>5, AfterFrameOK
<1>6. Data' /\ ChunksOK'
  BY <1>2, <1>3, <1>4, <1>5, ChunkMoves DEF Unsent
<1> QED
  BY <1>1, <1>3, <1>5, <1>6, ChunkInv

-----------------------------------------------------------------------------
(* The beginning, and a new session *)

LEMMA InitInvariant == Init => Inv
<1> SUFFICES ASSUME Init PROVE Inv
  OBVIOUS
<1>1. RecordInv
  BY InitRecord
<1>2. SenderOK
  <2>1. /\ cur = 0 /\ sPc = "idle" /\ prod = 0 /\ prodPc = "stopped" /\ nextToSend = 0
        /\ nextToAck = 0 /\ bytes = 0 /\ record = 0 /\ outcome = [s \in Sessions |-> "none"]
        /\ DOMAIN sdb = {} /\ sdb = [id \in {} |-> {}] /\ meta = [s \in Sessions |-> NoMeta]
    BY DEF Init, EmptyStore
  <2>2. paused \in BOOLEAN /\ err \in BOOLEAN
    BY DEF Init
  <2>3. meta \in [Sessions -> Descriptions]
    BY <2>1, NoMetaIsDescription
  <2>4. sdb \in [DOMAIN sdb -> Records]
    BY <2>1
  <2> QED
    BY <2>1, <2>2, <2>3, <2>4 DEF SenderOK, Running
<1>3. ChunksOK
  BY DEF Init, ChunksOK
<1>4. HandlersOK
  <2>1. /\ rPc = [s \in Sessions |-> "none"] /\ verdict = [s \in Sessions |-> "none"]
        /\ lost = [s \in Sessions |-> FALSE] /\ clean = [s \in Sessions |-> TRUE]
        /\ active = {} /\ rdb = [id \in {} |-> {}]
    BY DEF Init, EmptyStore
  <2>2. disk \in Seq(Nat \X Nat)
    <3>1. <<>> \in Seq(Nat \X Nat)
      OBVIOUS
    <3>2. Size + 1 \in Nat /\ Hole \in Nat \X Nat
      BY DEF Hole
    <3>3. [p \in 1..(Size + 1) |-> Hole] \in Seq(Nat \X Nat)
      BY <3>2
    <3> QED
      BY <3>1, <3>3 DEF Init
  <2>3. lost \in [Sessions -> BOOLEAN] /\ clean \in [Sessions -> BOOLEAN]
    BY <2>1, Zenon
  <2>4. rdb \in [DOMAIN rdb -> Records]
    BY <2>1
  <2> QED
    BY <2>1, <2>2, <2>3, <2>4 DEF HandlersOK
<1>5. WorldOK
  BY DEF Init, WorldOK
<1>6. /\ cur = 0 /\ sPc = "idle"
      /\ \A s \in Sessions : /\ Blank(s) /\ rPc[s] = "none" /\ verdict[s] = "none"
                            /\ outcome[s] = "none" /\ s # 0
  BY DEF Init, Blank, Sessions
<1>7. Windowed
  BY <1>6 DEF Windowed, Running
<1>8. Data
  <2>1. Unused /\ Grounds
    BY <1>6 DEF Unused, Grounds
  <2>2. DOMAIN rdb = {}
    BY DEF Init, EmptyStore
  <2>3. Handled /\ Alone
    BY <1>6, <2>2 DEF Handled, Alone
  <2>4. Cut
    BY <1>6 DEF Cut, Blank
  <2>5. Harmless /\ OnDisk
    BY <1>6 DEF Harmless, OnDisk, Opened
  <2> QED
    BY <2>1, <2>3, <2>4, <2>5 DEF Data
<1> QED
  BY <1>1, <1>2, <1>3, <1>4, <1>5, <1>7, <1>8 DEF Inv, TypeOK

\* The id of the record and the store that a command goes on with.
LEMMA SendStore ==
  ASSUME SenderOK, RecordInv, cur + 1 \in Nat, NEW id, NEW db,
         LET open == OpenTransfers(sdb)
         IN /\ id = IF open = {} THEN cur + 1 ELSE CHOOSE r \in open : TRUE
            /\ db = IF open = {} THEN CreateTransfer(sdb, cur + 1, Size) ELSE sdb
  PROVE  db \in [DOMAIN db -> Records] /\ db[id].bytes \in Nat
<1>1. CASE OpenTransfers(sdb) = {}
  <2>1. id = cur + 1 /\ db = CreateTransfer(sdb, cur + 1, Size)
    BY <1>1
  <2>2. db \in [DOMAIN sdb \cup {id} -> Records]
    <3>1. sdb \in [DOMAIN sdb -> Records]
      BY DEF SenderOK
    <3>2. CreateTransfer(sdb, cur + 1, Size) \in [DOMAIN sdb \cup {cur + 1} -> Records]
      BY <3>1, CreateType
    <3> QED
      BY <2>1, <3>2
  <2> QED
    BY <2>2 DEF Records
<1>2. CASE OpenTransfers(sdb) # {}
  <2>1. id \in OpenTransfers(sdb) /\ db = sdb
    BY <1>2
  <2>2. id \in DOMAIN db
    BY <2>1 DEF OpenTransfers
  <2> QED
    BY <2>1, <2>2 DEF SenderOK, Records
<1> QED
  BY <1>1, <1>2

\* What a new session finds of the earlier ones: those whose handler is at work.
LEMMA SendInv ==
  ASSUME Inv, NEW c \in ChunkSizes, NEW packed \in BOOLEAN, NEW kind \in Receivers,
         Send(c, packed, kind)
  PROVE  Inv'
<1> DEFINE open == OpenTransfers(sdb)
           id == IF open = {} THEN cur + 1 ELSE CHOOSE r \in open : TRUE
           db == IF open = {} THEN CreateTransfer(sdb, cur + 1, Size) ELSE sdb
           m == Metadata(c, packed, kind, db[id].bytes)
<1>1. RecordInv'
  BY SendRecord DEF Inv
<1>a. cur + 1 \in Sessions /\ cur \in Nat
  <2>1. cur + 1 <= MaxSends
    BY DEF Send
  <2> QED
    BY <2>1, CurrentSession DEF Sessions
<1>b. PICK s \in Sessions : s = cur + 1
  BY <1>a
<1>2. s \in Sessions /\ s = cur + 1 /\ s > cur /\ s > 0 /\ cur \in Nat /\ s \in Nat
  BY <1>a, <1>b
<1>3. db \in [DOMAIN db -> Records] /\ db[id].bytes \in Nat
  <2> HIDE DEF id, db
  <2> QED
    BY <1>2, SendStore DEF Inv, TypeOK, id, db
<1>4. m \in Descriptions /\ m.chunk >= MinChunk /\ m.total = TotalChunks(m.chunk, Size)
      /\ m.version = version /\ m.slow = (kind = "slow")
  <2> HIDE DEF id, db
  <2> QED
    BY <1>3, MetadataType DEF Inv, TypeOK, WorldOK
<1> HIDE DEF m, db, id
<1>5. /\ cur' = s /\ sPc' = "accept" /\ sdb' = db
      /\ meta' = [Forget(meta, NoMeta) EXCEPT ![s] = m]
      /\ rPc' = [rPc EXCEPT ![s] = "metadata"] /\ outcome' = Forget(outcome, "none")
      /\ verdict' = Forget(verdict, "none") /\ seen' = Forget(seen, [i \in Indices |-> 0])
      /\ conn' = Forget(conn, "open") /\ lost' = Forget(lost, FALSE) /\ clean' = Forget(clean, TRUE)
      /\ UNCHANGED <<procVars, active, rdb, disk, version, faults>>
  BY <1>b DEF Send, m, db, id
<1>6. stage' = [r \in Sessions |-> [i \in Indices |->
           IF rPc[r] = "done" \/ stage[r][i] \in {"sealing", "net", "buffered"} THEN "todo"
           ELSE stage[r][i]]]
  BY DEF Send
<1>7. \A r \in 1..cur : (kind = "slow" \/ meta[r].slow) => rPc[r] \in {"none", "done"}
  BY DEF Send
<1>8. ASSUME NEW r \in Sessions, r # s, rPc[r] # "done"
      PROVE  meta'[r] = meta[r] /\ seen'[r] = seen[r] /\ rPc'[r] = rPc[r]
  BY <1>2, <1>5, <1>8 DEF Forget, Inv, TypeOK, SenderOK, HandlersOK
<1>9. meta'[s] = m /\ rPc'[s] = "metadata" /\ outcome'[s] = "none"
  <2>1. outcome[s] = "none"
    BY <1>2 DEF Inv, Data, Unused
  <2> QED
    BY <1>2, <1>5, <2>1 DEF Forget, Inv, TypeOK, SenderOK, HandlersOK
<1>10. \A r \in Sessions : verdict'[r] = "none"
  <2>1. \A r \in Sessions : verdict[r] # "none" => r <= cur /\ rPc[r] = "done"
    BY <1>2 DEF Inv, Data, Unused, Handled, Sessions
  <2> QED
    BY <1>5, <2>1 DEF Forget
<1>11. \A r \in Sessions, i \in Indices :
         /\ stage'[r][i] \in {"todo", "wire", "task", "written", "acked"}
         /\ stage'[r][i] # "todo" => rPc[r] # "done" /\ stage'[r][i] = stage[r][i]
  BY <1>6 DEF Inv, TypeOK, ChunksOK
<1>12. \A r \in Sessions : Blank(r) => Blank(r)'
  BY <1>11 DEF Blank
<1>13. Blank(s) /\ Blank(s)'
  BY <1>2, <1>12 DEF Inv, Data, Unused
<1>14. TypeOK'
  <2>1. SenderOK'
    <3>1. meta' \in [Sessions -> Descriptions]
      BY <1>2, <1>4, <1>5, NoMetaIsDescription, ForgetType DEF Inv, TypeOK, SenderOK
    <3>2. outcome' \in [Sessions -> {"none", "refused", "verified", "failed", "paused", "crashed"}]
      <4> DEFINE T == {"none", "refused", "verified", "failed", "paused", "crashed"}
      <4>1. "none" \in T /\ outcome \in [Sessions -> T]
        BY DEF Inv, TypeOK, SenderOK
      <4> HIDE DEF T
      <4>2. Forget(outcome, "none") \in [Sessions -> T]
        BY <4>1, ForgetType
      <4> QED
        BY <1>5, <4>2 DEF T
    <3>3. record' \in 0..cur' /\ cur' \in 0..MaxSends
      <4>1. record' \in DOMAIN sdb' /\ DOMAIN sdb' \subseteq 1..cur' /\ cur' \in 0..MaxSends
        BY <1>1, <1>2, <1>5 DEF RecordInv, CommandTypes, OneOpen
      <4>2. record' \in 1..cur'
        BY <4>1
      <4> QED
        BY <4>1, <4>2
    <3> QED
      BY <1>3, <1>5, <3>1, <3>2, <3>3 DEF Inv, TypeOK, SenderOK, Running, procVars
  <2>2. ChunksOK'
    <3>1. [i \in Indices |-> 0] \in [Indices -> Nat]
      OBVIOUS
    <3>2. seen' \in [Sessions -> [Indices -> Nat]]
      BY <1>5, <3>1, ForgetType DEF Inv, TypeOK, ChunksOK
    <3> QED
      BY <1>6, <3>2 DEF Inv, TypeOK, ChunksOK
  <2>3. HandlersOK'
    <3>1. rPc' \in [Sessions -> {"none", "metadata", "run", "done"}]
      BY <1>5 DEF Inv, TypeOK, HandlersOK
    <3>2. verdict' \in [Sessions -> {"none", "complete", "error"}]
      BY <1>5, ForgetType DEF Inv, TypeOK, HandlersOK
    <3>3. lost' \in [Sessions -> BOOLEAN] /\ clean' \in [Sessions -> BOOLEAN]
      <4>1. TRUE \in BOOLEAN /\ FALSE \in BOOLEAN
        OBVIOUS
      <4>2. lost \in [Sessions -> BOOLEAN] /\ clean \in [Sessions -> BOOLEAN]
        BY DEF Inv, TypeOK, HandlersOK
      <4> QED
        BY <1>5, <4>1, <4>2, ForgetType, Zenon
    <3> QED
      BY <1>5, <3>1, <3>2, <3>3 DEF Inv, TypeOK, HandlersOK
  <2>4. WorldOK'
    BY <1>5, ForgetType DEF Inv, TypeOK, WorldOK
  <2> QED
    BY <2>1, <2>2, <2>3, <2>4 DEF TypeOK
<1>15. Windowed'
  BY <1>5, <1>13 DEF Windowed, Running
<1>16. Unused'
  <2> SUFFICES ASSUME NEW r \in Sessions, r > s
               PROVE  Blank(r)' /\ rPc'[r] = "none" /\ verdict'[r] = "none" /\ outcome'[r] = "none"
    BY <1>5 DEF Unused
  <2>1. r > cur /\ r # s
    BY <1>2 DEF Sessions
  <2>2. Blank(r) /\ rPc[r] = "none" /\ outcome[r] = "none"
    BY <2>1 DEF Inv, Data, Unused
  <2> QED
    BY <1>5, <1>8, <1>10, <1>12, <2>1, <2>2 DEF Forget
<1>17. Handled'
  <2> SUFFICES ASSUME NEW r \in Sessions
               PROVE  /\ rPc'[r] \in {"none", "metadata"} => Blank(r)'
                      /\ r = s \/ rPc'[r] \in {"metadata", "run"} => Described(r)'
                      /\ WireId(r) \notin DOMAIN rdb'
    BY <1>5, <1>10 DEF Handled, WireId
  <2>1. WireId(r) \notin DOMAIN rdb'
    BY <1>5 DEF Inv, Data, Handled
  <2>2. CASE r = s
    <3>1. Described(r)'
      BY <1>4, <1>5, <1>9, <2>2 DEF Described, Inv, TypeOK, WorldOK
    <3> QED
      BY <1>13, <2>1, <2>2, <3>1
  <2>3. CASE r # s
    <3>1. rPc'[r] = rPc[r]
      BY <1>5, <2>3 DEF Inv, TypeOK, HandlersOK
    <3>2. rPc[r] \in {"metadata", "run"} => Described(r)'
      BY <1>5, <1>8, <2>3 DEF Inv, Data, Handled, Described
    <3> QED
      BY <1>12, <2>1, <2>3, <3>1, <3>2 DEF Inv, Data, Handled
  <2> QED
    BY <2>2, <2>3
<1>18. Cut'
  <2> SUFFICES ASSUME NEW r \in Sessions, NEW i \in Indices, stage'[r][i] # "todo"
               PROVE  i \in (Start(r)..(Total(r) - 1))' /\ seen'[r][i] \in 1..version'
    BY DEF Cut
  <2>1. r # s /\ rPc[r] # "done" /\ stage[r][i] # "todo"
    BY <1>11, <1>13 DEF Blank
  <2>2. meta'[r] = meta[r] /\ seen'[r] = seen[r] /\ version' = version
    BY <1>5, <1>8, <2>1
  <2> QED
    BY <2>1, <2>2 DEF Inv, Data, Cut, Start, Total
<1>19. Alone'
  <2>1. ASSUME NEW r \in Sessions, r # s, rPc'[r] \in {"metadata", "run"}
        PROVE  ~meta'[r].slow /\ ~m.slow
    <3>1. rPc[r] \in {"metadata", "run"} /\ meta'[r] = meta[r]
      BY <1>5, <1>8, <2>1 DEF Inv, TypeOK, HandlersOK
    <3>2. r \in 1..cur
      BY <1>2, <3>1 DEF Inv, Data, Unused, Sessions
    <3> QED
      BY <1>4, <1>7, <3>1, <3>2
  <2>2. At(s, {"acked"})' = {}
    <3>1. ChunksOf(s)' \subseteq Indices
      <4>1. Total(s)' \in 1..Larger(Size, 1) /\ Larger(Size, 1) \in Nat
        BY <1>4, <1>9 DEF Total, Descriptions, Larger
      <4> QED
        BY <4>1 DEF ChunksOf, Indices
    <3> QED
      BY <1>13, <3>1 DEF At, Blank
  <2> QED
    BY <1>5, <1>9, <2>1, <2>2 DEF Alone
<1>20. Harmless' /\ OnDisk' /\ Grounds'
  <2>1. ~Opened'
    BY <1>5, <1>9, <1>10, <1>2 DEF Opened
  <2> QED
    BY <1>2, <1>5, <1>9, <1>10, <2>1 DEF Harmless, OnDisk, Grounds
<1> QED
  BY <1>1, <1>14, <1>15, <1>16, <1>17, <1>18, <1>19, <1>20 DEF Inv, Data

-----------------------------------------------------------------------------
(* Chunks on disk *)

Units == Nat \X Nat

LEMMA SourceType ==
  ASSUME NEW v \in Nat
  PROVE  /\ Source(v) \in Seq(Units) /\ Len(Source(v)) = Size
         /\ \A p \in 1..Size : Source(v)[p] = <<p, v>>
  BY DEF Source, Units

\* A chunk of a session, cut by the size in METADATA.
LEMMA ChunkData ==
  ASSUME NEW c \in Nat, NEW i \in 0..(TotalChunks(c, Size) - 1), NEW v \in Nat
  PROVE  /\ Chunk(c, i, v) \in Seq(Units) /\ Len(Chunk(c, i, v)) = ChunkLength(c, Size, i)
         /\ \A k \in 1..ChunkLength(c, Size, i) : Chunk(c, i, v)[k] = <<ChunkOffset(c, i) + k, v>>
<1> DEFINE off == ChunkOffset(c, i)
           len == ChunkLength(c, Size, i)
<1>1. /\ off \in Nat /\ len \in Nat /\ off + len = Smaller(off + Clamp(c), Size) /\ off <= Size
  BY ChunkInside
<1>2. Clamp(c) \in Nat
  BY ClampRange
<1>3. Chunk(c, i, v) = SubSeq(Source(v), off + 1, off + len)
  BY DEF Chunk
<1> HIDE DEF off, len
<1>4. off + len <= Size
  BY <1>1, <1>2 DEF Smaller
<1>5. \A k \in (off + 1)..(off + len) : Source(v)[k] = <<k, v>> /\ Source(v)[k] \in Units
  <2>1. \A k \in (off + 1)..(off + len) : k \in 1..Size /\ k \in Nat
    BY <1>1, <1>4
  <2> SUFFICES ASSUME NEW k \in (off + 1)..(off + len)
               PROVE  Source(v)[k] = <<k, v>> /\ Source(v)[k] \in Units
    OBVIOUS
  <2>2. Source(v)[k] = <<k, v>>
    BY <2>1, SourceType
  <2>3. <<k, v>> \in Units
    BY <2>1 DEF Units
  <2> QED
    BY <2>2, <2>3
<1>6. /\ SubSeq(Source(v), off + 1, off + len) \in Seq(Units)
      /\ Len(SubSeq(Source(v), off + 1, off + len))
           = IF off + 1 <= off + len THEN (off + len) - (off + 1) + 1 ELSE 0
      /\ \A k \in 1..((off + len) - (off + 1) + 1) :
           SubSeq(Source(v), off + 1, off + len)[k] = Source(v)[(off + 1) + k - 1]
  BY <1>1, <1>5, SubSeqProperties
<1>7. \A k \in 1..len : (off + 1) + k - 1 = off + k /\ off + k \in (off + 1)..(off + len)
  BY <1>1
<1>8. (off + len) - (off + 1) + 1 = len
  BY <1>1
<1>9. \A k \in 1..len : SubSeq(Source(v), off + 1, off + len)[k] = <<off + k, v>>
  BY <1>5, <1>6, <1>7, <1>8
<1>10. Len(SubSeq(Source(v), off + 1, off + len)) = len
  BY <1>1, <1>6
<1> QED
  BY <1>3, <1>6, <1>9, <1>10 DEF off, len

LEMMA WriteAtYields ==
  ASSUME NEW file \in Seq(Units), NEW offset \in Nat, NEW data \in Seq(Units)
  PROVE  /\ WriteAt(file, offset, data) \in Seq(Units)
         /\ Len(WriteAt(file, offset, data)) = Larger(Len(file), offset + Len(data))
         /\ \A p \in 1..Larger(Len(file), offset + Len(data)) :
              WriteAt(file, offset, data)[p]
                = IF p \in (offset + 1)..(offset + Len(data)) THEN data[p - offset]
                  ELSE IF p <= Len(file) THEN file[p] ELSE Hole
<1> DEFINE n == Larger(Len(file), offset + Len(data))
           At1(p) == IF p \in (offset + 1)..(offset + Len(data)) THEN data[p - offset]
                     ELSE IF p <= Len(file) THEN file[p] ELSE Hole
<1>1. n \in Nat
  BY DEF Larger
<1>2. ASSUME NEW p \in 1..n PROVE At1(p) \in Units
  <2>1. CASE p \in (offset + 1)..(offset + Len(data))
    <3>1. p - offset \in 1..Len(data)
      BY <2>1
    <3> QED
      BY <2>1, <3>1
  <2>2. CASE p \notin (offset + 1)..(offset + Len(data)) /\ p <= Len(file)
    <3>1. p \in 1..Len(file)
      BY <1>1, <2>2
    <3> QED
      BY <2>2, <3>1
  <2>3. CASE p \notin (offset + 1)..(offset + Len(data)) /\ ~(p <= Len(file))
    BY <2>3 DEF Hole, Units
  <2> QED
    BY <2>1, <2>2, <2>3
<1>3. WriteAt(file, offset, data) = [p \in 1..n |-> At1(p)]
  BY DEF WriteAt
<1> HIDE DEF n, At1
<1>4. [p \in 1..n |-> At1(p)] \in Seq(Units) /\ Len([p \in 1..n |-> At1(p)]) = n
  BY <1>1, <1>2
<1> QED
  BY <1>3, <1>4 DEF n, At1

LEMMA ResizedYields ==
  ASSUME NEW file \in Seq(Units)
  PROVE  /\ Resized(file, Size) \in Seq(Units) /\ Len(Resized(file, Size)) = Size
         /\ Len(file) = Size => Resized(file, Size) = file
<1> DEFINE Kept(p) == IF p <= Len(file) THEN file[p] ELSE Hole
<1>1. Resized(file, Size) = [p \in 1..Size |-> Kept(p)]
  BY DEF Resized
<1>2. ASSUME NEW p \in 1..Size PROVE Kept(p) \in Units
  <2>1. p <= Len(file) => p \in 1..Len(file)
    OBVIOUS
  <2> QED
    BY <2>1 DEF Hole, Units
<1>3. [p \in 1..Size |-> Kept(p)] \in Seq(Units) /\ Len([p \in 1..Size |-> Kept(p)]) = Size
  BY <1>2
<1>4. ASSUME Len(file) = Size PROVE [p \in 1..Size |-> Kept(p)] = file
  <2>1. file = [p \in 1..Size |-> file[p]]
    BY <1>4
  <2> QED
    BY <1>4, <2>1
<1> QED
  BY <1>1, <1>3, <1>4

\* Data that fits into a file of the right length changes its own place alone.
LEMMA WriteWithin ==
  ASSUME NEW file \in Seq(Units), NEW offset \in Nat, NEW data \in Seq(Units), NEW n \in Nat,
         Len(data) = n, Len(file) = Size, offset + n <= Size
  PROVE  /\ Len(WriteAt(file, offset, data)) = Size
         /\ \A p \in 1..Size : WriteAt(file, offset, data)[p]
              = IF p \in (offset + 1)..(offset + n) THEN data[p - offset] ELSE file[p]
<1>1. Larger(Len(file), offset + Len(data)) = Size
  BY DEF Larger
<1>2. \A p \in 1..Size : p <= Len(file)
  OBVIOUS
<1> QED
  BY <1>1, <1>2, WriteAtYields

\* What a handler at work has received are chunks as the chunker cuts them.
LEMMA HandlerChunk ==
  ASSUME Inv, NEW s \in Sessions, rPc[s] = "run", NEW i \in Indices, stage[s][i] # "todo"
  PROVE  /\ meta[s].chunk \in Nat \ {0} /\ meta[s].chunk >= MinChunk
         /\ i \in 0..(TotalChunks(meta[s].chunk, Size) - 1) /\ i \in ChunksOf(s)
         /\ i >= Start(s) /\ Start(s) \in Nat
         /\ seen[s][i] \in Nat /\ meta[s].version \in Nat
<1>1. i \in Start(s)..(Total(s) - 1) /\ seen[s][i] \in 1..version
  BY DEF Inv, Data, Cut
<1>2. Start(s) \in Nat /\ Total(s) \in Nat /\ meta[s].chunk \in Nat \ {0}
  BY SessionChunks DEF ChunksOf, Inv, TypeOK
<1>3. meta[s].chunk >= MinChunk /\ Total(s) = TotalChunks(meta[s].chunk, Size)
  BY DEF Inv, Data, Handled, Described, Total
<1>4. seen[s][i] \in Nat /\ meta[s].version \in Nat
  BY DEF Inv, TypeOK, SenderOK, ChunksOK, Descriptions
<1> QED
  BY <1>1, <1>2, <1>3, <1>4 DEF ChunksOf

LEMMA PlacedType ==
  ASSUME Inv, NEW s \in Sessions, rPc[s] = "run", NEW i \in Indices, stage[s][i] # "todo"
  PROVE  Placed(s, i) \in Seq(Units)
<1> DEFINE c == meta[s].chunk
<1>1. /\ c \in Nat /\ i \in 0..(TotalChunks(c, Size) - 1) /\ seen[s][i] \in Nat /\ i \in Nat
  BY HandlerChunk DEF Indices
<1>2. disk \in Seq(Units)
  BY DEF Inv, TypeOK, HandlersOK, Units
<1> HIDE DEF c
<1>3. i * c \in Nat
  BY <1>1
<1>4. Chunk(c, i, seen[s][i]) \in Seq(Units)
  BY <1>1, ChunkData
<1>5. Placed(s, i) = WriteAt(disk, i * c, Chunk(c, i, seen[s][i]))
  BY DEF Placed, c
<1> QED
  BY <1>2, <1>3, <1>4, <1>5, WriteAtYields

\* A chunk of a size within the range goes to its place in the file and nowhere
\* else, and does not make a file of the right length longer.
LEMMA PlacedYields ==
  ASSUME Inv, NEW s \in Sessions, rPc[s] = "run", NEW i \in Indices, stage[s][i] # "todo",
         meta[s].chunk <= MaxChunk, Len(disk) = Size
  PROVE  /\ Len(Placed(s, i)) = Size
         /\ \A p \in 1..Size : Placed(s, i)[p] = IF p \in Piece(meta[s].chunk, i)
                                                 THEN <<p, seen[s][i]>> ELSE disk[p]
<1> DEFINE c == meta[s].chunk
           v == seen[s][i]
           piece == Chunk(c, i, v)
           off == ChunkOffset(c, i)
           len == ChunkLength(c, Size, i)
<1>1. /\ c \in Nat /\ c >= MinChunk /\ c <= MaxChunk /\ i \in 0..(TotalChunks(c, Size) - 1) /\ v \in Nat
  BY HandlerChunk
<1>2. disk \in Seq(Units)
  BY DEF Inv, TypeOK, HandlersOK, Units
<1>3. Placed(s, i) = WriteAt(disk, i * c, piece)
  BY DEF Placed
<1>4. Piece(meta[s].chunk, i) = (off + 1)..(off + len)
  BY DEF Piece
<1> HIDE DEF c, v
<1>5. Clamp(c) = c
  BY <1>1, ClampOfMetadata
<1>6. /\ off \in Nat /\ len \in Nat /\ off + len = Smaller(off + Clamp(c), Size) /\ off <= Size
  BY <1>1, ChunkInside
<1>7. off = i * c
  BY <1>5 DEF ChunkOffset
<1>8. piece \in Seq(Units) /\ Len(piece) = len /\ \A k \in 1..len : piece[k] = <<off + k, v>>
  BY <1>1, ChunkData, SMTT(30)
<1> HIDE DEF off, len, piece
<1>9. off + len <= Size
  BY <1>1, <1>5, <1>6 DEF Smaller
<1>10. /\ Len(WriteAt(disk, off, piece)) = Size
       /\ \A p \in 1..Size : WriteAt(disk, off, piece)[p]
            = IF p \in (off + 1)..(off + len) THEN piece[p - off] ELSE disk[p]
  <2>1. /\ disk \in Seq(Units) /\ off \in Nat /\ piece \in Seq(Units) /\ len \in Nat
        /\ Len(piece) = len /\ Len(disk) = Size /\ off + len <= Size
    BY <1>2, <1>6, <1>8, <1>9
  <2>2. PICK f \in Seq(Units), o \in Nat, d \in Seq(Units), l \in Nat :
          f = disk /\ o = off /\ d = piece /\ l = len
    BY <2>1
  <2>3. Len(d) = l /\ Len(f) = Size /\ o + l <= Size
    BY <2>1, <2>2
  <2>4. Len(WriteAt(f, o, d)) = Size
    BY <2>3, WriteWithin
  <2>5. ASSUME NEW p \in 1..Size
        PROVE  WriteAt(f, o, d)[p] = IF p \in (o + 1)..(o + l) THEN d[p - o] ELSE f[p]
    BY <2>3, WriteWithin
  <2> QED
    BY <2>2, <2>4, <2>5
<1>12. \A p \in (off + 1)..(off + len) : piece[p - off] = <<p, v>>
  <2> SUFFICES ASSUME NEW p \in (off + 1)..(off + len) PROVE piece[p - off] = <<p, v>>
    OBVIOUS
  <2>1. p - off \in 1..len /\ off + (p - off) = p
    BY <1>6
  <2> QED
    BY <1>8, <2>1
<1> QED
  BY <1>3, <1>4, <1>7, <1>8, <1>10, <1>12 DEF v

\* A set of chunks that is not empty has an earliest one.
LEMMA EarliestIsOne ==
  ASSUME NEW S \in SUBSET Nat, S # {}
  PROVE  Earliest(S) \in S
<1>1. IsWellFoundedOn({ss \in Nat \X Nat : ss[1] < ss[2]}, Nat)
  BY NatLessThanWellFounded DEF OpToRel
<1> DEFINE R == {ss \in Nat \X Nat : ss[1] < ss[2]}
<1>2. \A x, y \in Nat : x < y => <<x, y>> \in R
  OBVIOUS
<1> HIDE DEF R
<1>3. PICK x \in S : \A y \in S : <<y, x>> \notin R
  BY <1>1, WFMin DEF R
<1>4. \A y \in S : x <= y
  <2> SUFFICES ASSUME NEW y \in S PROVE x <= y
    OBVIOUS
  <2>1. x \in Nat /\ y \in Nat /\ ~(y < x)
    BY <1>2, <1>3
  <2> QED
    BY <2>1
<1> QED
  BY <1>3, <1>4 DEF Earliest

-----------------------------------------------------------------------------
(* A handler begins and ends *)

\* No handler touches the command: its types and the record stay as they are.
LEMMA HandlerSender ==
  ASSUME Inv, NEW s \in Sessions, HandlerStep(s)
  PROVE  /\ RecordInv' /\ SenderOK'
         /\ UNCHANGED <<cur, sPc, prod, nextToSend, nextToAck, outcome, meta>>
<1>1. UNCHANGED senderVars
  BY HandlerKeepsSender
<1>2. RecordInv'
  BY WorldRecord DEF Inv
<1> QED
  BY <1>1, <1>2 DEF Inv, TypeOK, SenderOK, senderVars, procVars, Total

LEMMA EndsInv ==
  ASSUME Inv, NEW s \in Sessions, NotOpened(s) \/ HandlerFails(s) \/ SlowFails(s)
  PROVE  Inv'
<1>1. /\ RecordInv' /\ SenderOK'
      /\ UNCHANGED <<cur, sPc, prod, nextToSend, nextToAck, outcome, meta>>
  BY HandlerSender DEF HandlerStep
<1>2. /\ rPc' = [rPc EXCEPT ![s] = "done"] /\ rPc[s] \in {"metadata", "run"}
      /\ UNCHANGED <<stage, seen, verdict, lost, clean, active, disk, conn, version>>
  BY DEF NotOpened, HandlerFails, SlowFails, AtWork, chunkVars
<1>3. rdb' \in [DOMAIN rdb' -> Records] /\ DOMAIN rdb' = DOMAIN rdb
  <2>1. rdb \in [DOMAIN rdb -> Records]
    BY DEF Inv, TypeOK, HandlersOK
  <2>2. rdb' = rdb \/ rdb' = FailTransfer(rdb, WireId(s))
    BY DEF NotOpened, HandlerFails, SlowFails
  <2>3. /\ FailTransfer(rdb, WireId(s)) \in [DOMAIN rdb -> Records]
        /\ DOMAIN FailTransfer(rdb, WireId(s)) = DOMAIN rdb
    BY <2>1, StatementTypes
  <2> QED
    BY <2>1, <2>2, <2>3
<1>4. rPc \in [Sessions -> {"none", "metadata", "run", "done"}]
  BY DEF Inv, TypeOK, HandlersOK
<1>5. faults' \in 0..MaxFaults
  BY DEF NotOpened, HandlerFails, SlowFails, Fault, Inv, TypeOK, WorldOK
<1>6. TypeOK'
  BY <1>1, <1>2, <1>3, <1>5 DEF Inv, TypeOK, ChunksOK, HandlersOK, WorldOK
<1>7. Windowed'
  BY <1>1, <1>2, <1>4, WindowKept DEF Inv, Sessions
<1>8. /\ \A r \in Sessions : Blank(r)' = Blank(r) /\ Total(r)' = Total(r) /\ Start(r)' = Start(r)
      /\ \A r \in Sessions : Described(r)' = Described(r)
      /\ \A r \in Sessions : r # s => rPc'[r] = rPc[r]
      /\ rPc'[s] = "done"
  BY <1>1, <1>2, <1>4 DEF Blank, Total, Start, Described
<1>9. Unused'
  BY <1>1, <1>2, <1>8 DEF Inv, Data, Unused
<1>10. Handled'
  BY <1>1, <1>2, <1>3, <1>8 DEF Inv, Data, Handled, WireId
<1>11. Cut'
  BY <1>2, <1>8 DEF Inv, Data, Cut
<1>12. Alone'
  <2>1. At(cur, {"acked"})' = At(cur, {"acked"}) /\ UNCHANGED Start(cur)
    BY <1>1, <1>2 DEF At, ChunksOf, Total, Start
  <2>2. \A r \in Sessions : rPc'[r] \in {"metadata", "run"} => rPc[r] = rPc'[r]
    BY <1>8
  <2> QED
    BY <1>1, <2>1, <2>2 DEF Inv, Data, Alone
<1>13. Opened' => Opened
  <2>1. cur > 0 => cur \in Sessions
    BY CurrentSession
  <2> QED
    BY <1>1, <1>2, <1>8, <2>1 DEF Opened
<1>14. Harmless'
  BY <1>1, <1>2, <1>8, <1>13 DEF Inv, Data, Harmless
<1>15. OnDisk'
  BY <1>1, <1>2, <1>13 DEF Inv, Data, OnDisk, Undisturbed
<1>16. Grounds'
  BY <1>1, <1>2 DEF Inv, Data, Grounds, HashValid, ChunksOf, Total, Start
<1> QED
  BY <1>1, <1>6, <1>7, <1>9, <1>10, <1>11, <1>12, <1>14, <1>15, <1>16 DEF Inv, Data

\* What both handlers do when METADATA has come.
LEMMA Opening ==
  ASSUME Inv, NEW s \in Sessions, HandlerStep(s), rPc[s] = "metadata",
         rPc' = [rPc EXCEPT ![s] = "run"], rdb' = CreateTransfer(rdb, OwnId(s), Size),
         UNCHANGED <<chunkVars, verdict, lost, worldVars>>,
         active' \subseteq Sessions, clean' \in [Sessions -> BOOLEAN], disk' \in Seq(Nat \X Nat)
  PROVE  /\ TypeOK' /\ RecordInv' /\ Windowed' /\ Unused' /\ Handled' /\ Cut' /\ Alone'
         /\ Blank(s) /\ verdict[s] = "none"
<1>1. /\ RecordInv' /\ SenderOK'
      /\ UNCHANGED <<cur, sPc, prod, nextToSend, nextToAck, outcome, meta>>
  BY HandlerSender
<1>2. UNCHANGED <<stage, seen, verdict, lost, conn, version, faults>>
  BY DEF chunkVars, worldVars
<1>3. rdb' \in [DOMAIN rdb' -> Records] /\ DOMAIN rdb' = DOMAIN rdb \cup {OwnId(s)}
  <2>1. rdb \in [DOMAIN rdb -> Records]
    BY DEF Inv, TypeOK, HandlersOK
  <2>2. /\ CreateTransfer(rdb, OwnId(s), Size) \in [DOMAIN rdb \cup {OwnId(s)} -> Records]
        /\ DOMAIN CreateTransfer(rdb, OwnId(s), Size) = DOMAIN rdb \cup {OwnId(s)}
    BY <2>1, CreateType
  <2> QED
    BY <2>2
<1>4. rPc \in [Sessions -> {"none", "metadata", "run", "done"}]
  BY DEF Inv, TypeOK, HandlersOK
<1>5. TypeOK'
  BY <1>1, <1>2, <1>3, <1>4 DEF Inv, TypeOK, ChunksOK, HandlersOK, WorldOK
<1>6. Windowed'
  BY <1>1, <1>2, <1>4, WindowKept DEF Inv, Sessions
<1>7. /\ \A r \in Sessions : Blank(r)' = Blank(r) /\ Total(r)' = Total(r) /\ Start(r)' = Start(r)
      /\ \A r \in Sessions : Described(r)' = Described(r)
      /\ \A r \in Sessions : r # s => rPc'[r] = rPc[r]
      /\ rPc'[s] = "run"
  BY <1>1, <1>2, <1>4 DEF Blank, Total, Start, Described
<1>8. Blank(s) /\ verdict[s] = "none" /\ Described(s)
  BY DEF Inv, Data, Handled
<1>9. Unused'
  BY <1>1, <1>2, <1>7 DEF Inv, Data, Unused
<1>10. Handled'
  <2>1. \A r \in Sessions : WireId(r) \notin DOMAIN rdb'
    BY <1>3 DEF Inv, Data, Handled, WireId, OwnId
  <2> QED
    BY <1>1, <1>2, <1>7, <1>8, <2>1 DEF Inv, Data, Handled, WireId
<1>11. Cut'
  BY <1>2, <1>7 DEF Inv, Data, Cut
<1>12. Alone'
  <2>1. At(cur, {"acked"})' = At(cur, {"acked"}) /\ UNCHANGED Start(cur)
    BY <1>1, <1>2 DEF At, ChunksOf, Total, Start
  <2>2. \A r \in Sessions : rPc'[r] \in {"metadata", "run"} => rPc[r] \in {"metadata", "run"}
    BY <1>7
  <2> QED
    BY <1>1, <2>1, <2>2 DEF Inv, Data, Alone
<1> QED
  BY <1>1, <1>5, <1>6, <1>8, <1>9, <1>10, <1>11, <1>12

LEMMA SlowAcceptInv ==
  ASSUME Inv, NEW s \in Sessions, SlowAccept(s)
  PROVE  Inv'
<1>1. UNCHANGED <<cur, outcome, meta>>
  BY HandlerSender DEF HandlerStep
<1>2. /\ rPc[s] = "metadata" /\ meta[s].slow /\ rPc' = [rPc EXCEPT ![s] = "run"]
      /\ UNCHANGED <<chunkVars, verdict, lost, clean, active, disk, worldVars>>
  BY DEF SlowAccept
<1>3. /\ active' \subseteq Sessions /\ clean' \in [Sessions -> BOOLEAN] /\ disk' \in Seq(Nat \X Nat)
  BY <1>2 DEF Inv, TypeOK, HandlersOK
<1>4. /\ TypeOK' /\ RecordInv' /\ Windowed' /\ Unused' /\ Handled' /\ Cut' /\ Alone'
  <2>1. HandlerStep(s) /\ rdb' = CreateTransfer(rdb, OwnId(s), Size)
    BY DEF HandlerStep, SlowAccept
  <2> QED
    BY <1>2, <1>3, <2>1, Opening
<1>5. s = cur
  BY <1>2 DEF Inv, Data, Alone
<1>6. Harmless' /\ OnDisk'
  BY <1>1, <1>2, <1>5 DEF Harmless, OnDisk, Opened
<1>7. Grounds'
  BY <1>1, <1>2 DEF Inv, Data, Grounds, HashValid, ChunksOf, Total, Start, chunkVars
<1> QED
  BY <1>4, <1>6, <1>7 DEF Inv, Data

LEMMA OpenFileInv ==
  ASSUME Inv, NEW s \in Sessions, OpenFile(s)
  PROVE  Inv'
<1>1. UNCHANGED <<cur, outcome, meta>>
  BY HandlerSender DEF HandlerStep
<1>2. /\ rPc[s] = "metadata" /\ rPc' = [rPc EXCEPT ![s] = "run"] /\ disk' = Resized(disk, Size)
      /\ clean' = [clean EXCEPT ![s] =
                     \A r \in Sessions : rPc[r] = "run" => version = 1 /\ meta[r].chunk <= MaxChunk]
      /\ active' = active \cup {s}
      /\ UNCHANGED <<stage, seen, verdict, lost, version>>
  BY DEF OpenFile, chunkVars, worldVars
<1>3. /\ disk' \in Seq(Nat \X Nat) /\ Len(disk') = Size /\ (Len(disk) = Size => disk' = disk)
  BY <1>2, ResizedYields DEF Inv, TypeOK, HandlersOK, Units
<1>4. clean' \in [Sessions -> BOOLEAN]
  <2>1. clean \in [Sessions -> BOOLEAN]
    BY DEF Inv, TypeOK, HandlersOK
  <2> DEFINE b == \A r \in Sessions : rPc[r] = "run" => version = 1 /\ meta[r].chunk <= MaxChunk
  <2>2. b \in BOOLEAN /\ clean' = [clean EXCEPT ![s] = b]
    BY <1>2
  <2> HIDE DEF b
  <2> QED
    BY <2>1, <2>2, Zenon
<1>5. active' \subseteq Sessions
  BY <1>2 DEF Inv, TypeOK, HandlersOK
<1>6. /\ TypeOK' /\ RecordInv' /\ Windowed' /\ Unused' /\ Handled' /\ Cut' /\ Alone'
      /\ Blank(s) /\ verdict[s] = "none"
  <2>1. HandlerStep(s) /\ rdb' = CreateTransfer(rdb, OwnId(s), Size)
    BY DEF HandlerStep, OpenFile
  <2>2. UNCHANGED <<chunkVars, verdict, lost, worldVars>>
    BY DEF OpenFile
  <2> QED
    BY <1>2, <1>3, <1>4, <1>5, <2>1, <2>2, Opening
<1>7. \A r \in Sessions : r # s => rPc'[r] = rPc[r] /\ clean'[r] = clean[r]
  BY <1>2 DEF Inv, TypeOK, HandlersOK
<1>8. cur > 0 => cur \in Sessions
  BY CurrentSession
<1>9. s # cur /\ Opened' => Opened
  BY <1>1, <1>2, <1>7, <1>8 DEF Opened
<1>10. Harmless'
  <2> SUFFICES ASSUME Opened', clean'[cur], NEW r \in Sessions, r # cur, NEW i \in Indices,
                      rPc'[r] = "run", stage[r][i] \in {"wire", "task"}
               PROVE  seen[r][i] = meta[cur].version /\ meta[r].chunk <= MaxChunk
    BY <1>1, <1>2 DEF Harmless
  <2>1. r # s /\ rPc[r] = "run"
    BY <1>6, <1>7 DEF Blank
  <2>2. CASE s = cur
    <3>1. version = 1 /\ meta[r].chunk <= MaxChunk
      <4>1. clean'[cur] =
              \A q \in Sessions : rPc[q] = "run" => version = 1 /\ meta[q].chunk <= MaxChunk
        BY <1>2, <2>2 DEF Inv, TypeOK, HandlersOK
      <4> QED
        BY <2>1, <4>1
    <3>2. seen[r][i] \in 1..1
      BY <3>1 DEF Inv, Data, Cut
    <3>3. meta[cur].version \in Nat \ {0} /\ meta[cur].version <= 1
      BY <2>2, <3>1 DEF Inv, Data, Handled, Described, TypeOK, SenderOK, Descriptions
    <3> QED
      BY <3>1, <3>2, <3>3
  <2>3. CASE s # cur
    <3>1. Opened /\ clean[cur]
      BY <1>7, <1>8, <1>9, <2>3 DEF Opened
    <3> QED
      BY <2>1, <3>1 DEF Inv, Data, Harmless
  <2> QED
    BY <2>2, <2>3
<1>11. OnDisk'
  <2>1. CASE s = cur
    BY <1>1, <1>2, <1>3, <1>6, <2>1 DEF OnDisk, Blank
  <2>2. CASE s # cur
    <3>1. ASSUME Opened', Undisturbed' PROVE Opened /\ Undisturbed
      <4>1. Opened
        BY <1>9, <2>2, <3>1
      <4> QED
        BY <1>1, <1>2, <1>7, <1>8, <2>2, <3>1, <4>1 DEF Opened, Undisturbed
    <3>2. Opened' /\ Undisturbed' => disk' = disk
      BY <1>3, <3>1 DEF Inv, Data, OnDisk
    <3> QED
      BY <1>1, <1>2, <3>1, <3>2 DEF Inv, Data, OnDisk
  <2> QED
    BY <2>1, <2>2
<1>12. Grounds'
  <2>1. cur > 0 /\ verdict[cur] = "complete" => ~meta[cur].slow
    BY <1>2, <1>6 DEF Inv, Data, Alone
  <2> QED
    BY <1>1, <1>2, <2>1 DEF Inv, Data, Grounds, HashValid, ChunksOf, Total, Start
<1> QED
  BY <1>6, <1>10, <1>11, <1>12 DEF Inv, Data

-----------------------------------------------------------------------------
(* A handler moves a chunk on *)

\* What holds of every step of a handler at work that takes one chunk one stage
\* further; what it says of the file is left to each step.
LEMMA HandlerMoves ==
  ASSUME Inv, NEW s \in Sessions, HandlerStep(s), rPc[s] = "run",
         NEW i \in Indices, stage[s][i] \in {"wire", "task", "written"},
         NEW x \in {"task", "written", "acked"}, stage' = [stage EXCEPT ![s][i] = x],
         x = "task" => stage[s][i] = "wire", meta[s].slow => Start(s) = 0,
         rPc' = rPc \/ rPc' = [rPc EXCEPT ![s] = "done"],
         \/ verdict' = verdict
         \/ \E y \in {"complete", "error"} : verdict' = [verdict EXCEPT ![s] = y] /\ rPc'[s] = "done",
         DOMAIN rdb' = DOMAIN rdb, UNCHANGED <<seen, clean, version>>
  PROVE  /\ Windowed' /\ ChunksOK' /\ Unused' /\ Handled' /\ Cut' /\ Alone' /\ Harmless'
         /\ i \in ChunksOf(s) /\ stage'[s][i] = x
         /\ \A r \in Sessions, j \in Indices : r # s \/ j # i => stage'[r][j] = stage[r][j]
         /\ (Opened' => Opened) /\ verdict[s] = "none" /\ s <= cur
         /\ verdict' \in [Sessions -> {"none", "complete", "error"}]
         /\ \A r \in Sessions : r # s => verdict'[r] = verdict[r]
<1>1. UNCHANGED <<cur, sPc, prod, nextToSend, nextToAck, outcome, meta>>
  BY HandlerSender
<1>2. /\ stage'[s][i] = x
      /\ \A r \in Sessions, j \in Indices : r # s \/ j # i => stage'[r][j] = stage[r][j]
  BY StageSet DEF Inv, TypeOK
<1>3. i \in ChunksOf(s) /\ i \in Start(s)..(Total(s) - 1) /\ seen[s][i] \in 1..version
  <2>1. i \in Start(s)..(Total(s) - 1) /\ seen[s][i] \in 1..version
    BY DEF Inv, Data, Cut
  <2> QED
    BY <2>1, HandlerChunk
<1>4. /\ rPc \in [Sessions -> {"none", "metadata", "run", "done"}]
      /\ verdict \in [Sessions -> {"none", "complete", "error"}] /\ verdict[s] = "none" /\ s <= cur
  <2>1. s <= cur
    <3>1. cur \in Nat /\ s \in Nat
      BY CurrentSession DEF Sessions
    <3>2. ~(s > cur)
      BY DEF Inv, Data, Unused
    <3> QED
      BY <3>1, <3>2
  <2> QED
    BY <2>1 DEF Inv, TypeOK, HandlersOK, Data, Handled
<1>5. /\ rPc'[s] \in {"run", "done"}
      /\ \A r \in Sessions : r # s => rPc'[r] = rPc[r] /\ verdict'[r] = verdict[r]
      /\ verdict'[s] = "none" \/ rPc'[s] = "done"
      /\ verdict' \in [Sessions -> {"none", "complete", "error"}]
  <2>1. /\ rPc'[s] \in {"run", "done"} /\ \A r \in Sessions : r # s => rPc'[r] = rPc[r]
    BY <1>4
  <2>2. CASE verdict' = verdict
    BY <1>4, <2>1, <2>2
  <2>3. CASE \E y \in {"complete", "error"} : verdict' = [verdict EXCEPT ![s] = y] /\ rPc'[s] = "done"
    BY <1>4, <2>1, <2>3
  <2> QED
    BY <2>2, <2>3
<1>6. \A r \in Sessions : /\ Total(r)' = Total(r) /\ Start(r)' = Start(r) /\ ChunksOf(r)' = ChunksOf(r)
                          /\ Described(r)' = Described(r)
  BY <1>1 DEF Total, Start, ChunksOf, Described
<1>7. cur > 0 => cur \in Sessions
  BY CurrentSession
<1>8. \A r \in Sessions : r # s => Blank(r)' = Blank(r)
  BY <1>2 DEF Blank
<1>9. ~Blank(s)
  BY DEF Blank
<1>10. ChunksOK'
  <2>1. stage' \in [Sessions -> [Indices -> {"todo", "sealing", "net", "buffered", "wire", "task",
                                            "written", "acked"}]]
    BY DEF Inv, TypeOK, ChunksOK
  <2> QED
    BY <2>1 DEF Inv, TypeOK, ChunksOK
<1>11. Windowed'
  <2>1. CASE s = cur
    <3>1. sPc # "accept"
      BY <1>9, <2>1 DEF Inv, Windowed
    <3>2. \A j \in Indices : /\ stage'[cur][j] \in Sent => stage[cur][j] \in Sent
                             /\ stage'[cur][j] = stage[cur][j] \/ stage[cur][j] \in Sent
      BY <1>2, <2>1 DEF Sent
    <3>3. /\ sPc \in Running => \A j \in Indices : j >= prod => stage'[cur][j] = "todo"
          /\ sPc = "send" => stage'[cur][nextToSend] = "buffered"
      <4>1. ASSUME sPc \in Running, NEW j \in Indices, j >= prod PROVE stage'[cur][j] = "todo"
        <5>1. stage[cur][j] = "todo"
          BY <4>1 DEF Inv, Windowed
        <5> QED
          BY <3>2, <5>1 DEF Sent
      <4>2. ASSUME sPc = "send" PROVE stage'[cur][nextToSend] = "buffered"
        <5>1. nextToSend \in Indices /\ stage[cur][nextToSend] = "buffered"
          BY <4>2 DEF Inv, Windowed
        <5> QED
          BY <3>2, <5>1 DEF Sent
      <4> QED
        BY <4>1, <4>2
    <3>4. sPc \in Running => \A j \in Indices : stage'[cur][j] \in Sent => j < nextToSend
      BY <3>2 DEF Inv, Windowed
    <3> QED
      BY <1>1, <1>5, <1>6, <2>1, <3>1, <3>3, <3>4 DEF Inv, Windowed
  <2>2. CASE s # cur
    <3>1. sPc \in Running \cup {"accept", "send"} => cur \in Sessions
      BY <1>7 DEF Inv, RecordInv, CommandTypes, Running
    <3> QED
      BY <1>1, <1>2, <1>5, <1>6, <1>8, <2>2, <3>1 DEF Inv, Windowed
  <2> QED
    BY <2>1, <2>2
<1>12. Unused'
  <2>1. s <= cur
    BY <1>9, CurrentSession DEF Inv, Data, Unused, Sessions
  <2>2. SUFFICES ASSUME NEW r \in Sessions, r > cur
                 PROVE  Blank(r)' /\ rPc'[r] = "none" /\ verdict'[r] = "none" /\ outcome'[r] = "none"
    BY <1>1 DEF Unused
  <2>3. r # s
    BY <2>1, <2>2, CurrentSession DEF Sessions
  <2>4. Blank(r) /\ rPc[r] = "none" /\ verdict[r] = "none" /\ outcome[r] = "none"
    BY <2>2 DEF Inv, Data, Unused
  <2> QED
    BY <1>1, <1>5, <1>8, <2>3, <2>4
<1>13. Handled'
  BY <1>1, <1>5, <1>6, <1>8 DEF Inv, Data, Handled, WireId
<1>14. Cut'
  <2> SUFFICES ASSUME NEW r \in Sessions, NEW j \in Indices, stage'[r][j] # "todo"
               PROVE  j \in Start(r)..(Total(r) - 1) /\ seen[r][j] \in 1..version
    BY <1>6 DEF Cut
  <2>1. CASE r = s /\ j = i
    BY <1>3, <2>1
  <2>2. CASE r # s \/ j # i
    BY <1>2, <2>2 DEF Inv, Data, Cut
  <2> QED
    BY <2>1, <2>2
<1>15. Alone'
  <2>1. \A r \in Sessions : rPc'[r] \in {"metadata", "run"} => rPc[r] \in {"metadata", "run"}
    BY <1>5
  <2>2. ASSUME cur > 0, meta[cur].slow, At(cur, {"acked"})' # {}
        PROVE  Start(cur) = 0
    <3>1. CASE s = cur
      BY <2>2, <3>1
    <3>2. CASE s # cur
      <4>1. ChunksOf(cur) \subseteq Indices
        BY <1>7, <2>2, SessionChunks DEF Inv, TypeOK
      <4>2. At(cur, {"acked"})' = At(cur, {"acked"})
        BY <1>1, <1>2, <1>6, <1>7, <2>2, <3>2, <4>1 DEF At
      <4> QED
        BY <2>2, <4>2 DEF Inv, Data, Alone
    <3> QED
      BY <3>1, <3>2
  <2> QED
    BY <1>1, <1>6, <1>7, <2>1, <2>2 DEF Inv, Data, Alone
<1>16. Opened' => Opened
  <2>1. CASE s = cur
    BY <1>1, <2>1 DEF Opened
  <2>2. CASE s # cur
    BY <1>1, <1>5, <1>7, <2>2 DEF Opened
  <2> QED
    BY <2>1, <2>2
<1>17. Harmless'
  <2> SUFFICES ASSUME Opened', clean[cur], NEW r \in Sessions, r # cur, NEW j \in Indices,
                      rPc'[r] = "run", stage'[r][j] \in {"wire", "task"}
               PROVE  seen[r][j] = meta[cur].version /\ meta[r].chunk <= MaxChunk
    BY <1>1 DEF Harmless
  <2>1. rPc[r] = "run" /\ stage[r][j] \in {"wire", "task"}
    BY <1>2, <1>5
  <2> QED
    BY <1>16, <2>1 DEF Inv, Data, Harmless
<1> QED
  BY <1>2, <1>3, <1>4, <1>5, <1>10, <1>11, <1>12, <1>13, <1>14, <1>15, <1>16, <1>17

\* Of a file told complete, no chunk moves any more.
LEMMA GroundsKept ==
  ASSUME Inv, NEW s \in Sessions, verdict[s] = "none", NEW i \in Indices,
         \A r \in Sessions, j \in Indices : r # s \/ j # i => stage'[r][j] = stage[r][j],
         UNCHANGED <<cur, outcome, meta, seen>>, verdict'[cur] = verdict[cur],
         disk' = disk \/ ~meta[cur].slow
  PROVE  Grounds'
<1>1. cur > 0 => cur \in Sessions
  BY CurrentSession
<1>2. ASSUME cur > 0, verdict[cur] = "complete"
      PROVE  HashValid(cur, stage[cur])' = HashValid(cur, stage[cur])
  <2>1. s # cur /\ ChunksOf(cur) \subseteq Indices
    BY <1>1, <1>2, SessionChunks DEF Inv, TypeOK
  <2>2. \A j \in ChunksOf(cur) : stage'[cur][j] = stage[cur][j]
    BY <1>1, <1>2, <2>1
  <2> QED
    BY <2>2 DEF HashValid, ChunksOf, Total
<1> QED
  BY <1>1, <1>2 DEF Inv, Data, Grounds, Start, Total

\* What FS_Interval says of the end points of one interval.
LEMMA IntervalFinite ==
  ASSUME NEW a \in Int, NEW b \in Int
  PROVE  IsFiniteSet(a..b)
BY FS_Interval

\* The chunks at a stage of a session: a finite set of numbers.
LEMMA AtFinite ==
  ASSUME SenderOK, NEW s \in Sessions, NEW stages
  PROVE  /\ At(s, stages) \in SUBSET Nat /\ At(s, stages) \subseteq ChunksOf(s)
         /\ IsFiniteSet(At(s, stages)) /\ Cardinality(At(s, stages)) \in Nat
<1>1. Total(s) \in Nat \ {0}
  BY SessionChunks
<1>2. At(s, stages) \subseteq 0..(Total(s) - 1)
  BY DEF At, ChunksOf
<1>3. IsFiniteSet(0..(Total(s) - 1))
  <2>1. 0 \in Int /\ Total(s) - 1 \in Int
    BY <1>1
  <2> QED
    BY <2>1, IntervalFinite
<1>4. IsFiniteSet(At(s, stages)) /\ Cardinality(At(s, stages)) \in Nat
  BY <1>2, <1>3, FS_Subset, FS_CardinalityType
<1> QED
  BY <1>2, <1>4 DEF ChunksOf

LEMMA EarliestAt ==
  ASSUME SenderOK, NEW s \in Sessions, NEW x, At(s, {x}) # {}
  PROVE  /\ Earliest(At(s, {x})) \in ChunksOf(s) /\ Earliest(At(s, {x})) \in Indices
         /\ stage[s][Earliest(At(s, {x}))] = x
<1>1. Earliest(At(s, {x})) \in At(s, {x})
  BY AtFinite, EarliestIsOne
<1>2. ChunksOf(s) \subseteq Indices
  BY SessionChunks
<1> QED
  BY <1>1, <1>2 DEF At

LEMMA SpawnInv ==
  ASSUME Inv, NEW s \in Sessions, Spawn(s)
  PROVE  Inv'
<1>1. /\ RecordInv' /\ SenderOK' /\ HandlerStep(s)
      /\ UNCHANGED <<cur, sPc, prod, nextToSend, nextToAck, outcome, meta>>
  BY HandlerSender DEF HandlerStep
<1>2. PICK i : i = Earliest(At(s, {"wire"}))
  OBVIOUS
<1>3. /\ rPc[s] = "run" /\ ~meta[s].slow /\ i \in Indices /\ stage[s][i] = "wire"
      /\ stage' = [stage EXCEPT ![s][i] = "task"]
      /\ UNCHANGED <<seen, rPc, verdict, lost, clean, active, rdb, disk, conn, version, faults>>
  BY <1>2, EarliestAt DEF Spawn, AtWork, handlerVars, worldVars, Inv, TypeOK
<1>4. /\ Windowed' /\ ChunksOK' /\ Unused' /\ Handled' /\ Cut' /\ Alone' /\ Harmless'
      /\ stage'[s][i] = "task"
      /\ \A r \in Sessions, j \in Indices : r # s \/ j # i => stage'[r][j] = stage[r][j]
      /\ (Opened' => Opened) /\ verdict[s] = "none"
  BY <1>1, <1>3, HandlerMoves
<1>5. HandlersOK' /\ WorldOK'
  BY <1>3 DEF Inv, TypeOK, HandlersOK, WorldOK
<1>6. OnDisk'
  <2>1. cur > 0 => cur \in Sessions
    BY CurrentSession
  <2>2. Opened' => Opened /\ cur \in Sessions
    BY <1>4, <2>1 DEF Opened
  <2>3. ASSUME cur \in Sessions, NEW j \in Indices, stage'[cur][j] \in {"written", "acked"}
        PROVE  stage[cur][j] \in {"written", "acked"}
    BY <1>4, <2>3
  <2> QED
    BY <1>1, <1>3, <2>2, <2>3 DEF Inv, Data, OnDisk, Undisturbed
<1>7. Grounds'
  BY <1>1, <1>3, <1>4, GroundsKept
<1> QED
  BY <1>1, <1>4, <1>5, <1>6, <1>7 DEF Inv, Data, TypeOK

LEMMA AckChunkInv ==
  ASSUME Inv, NEW s \in Sessions, NEW i \in Indices, AckChunk(s, i)
  PROVE  Inv'
<1>1. /\ RecordInv' /\ SenderOK' /\ HandlerStep(s)
      /\ UNCHANGED <<cur, sPc, prod, nextToSend, nextToAck, outcome, meta>>
  BY HandlerSender DEF HandlerStep
<1>2. /\ rPc[s] = "run" /\ ~meta[s].slow /\ stage[s][i] = "written"
      /\ stage' = [stage EXCEPT ![s][i] = "acked"]
      /\ UNCHANGED <<seen, lost, clean, disk, conn, version, faults>>
  BY DEF AckChunk, AtWork, worldVars
<1> DEFINE count == Start(s) + Cardinality(At(s, {"acked"})) + 1
           db == UpdateProgress(rdb, WireId(s), count * meta[s].chunk)
<1>3. count \in Nat /\ count * meta[s].chunk \in Nat
  <2>1. Start(s) \in Nat /\ meta[s].chunk \in Nat \ {0}
    BY SessionChunks DEF Inv, TypeOK, ChunksOf
  <2>2. Cardinality(At(s, {"acked"})) \in Nat
    BY AtFinite DEF Inv, TypeOK
  <2>3. count \in Nat
    BY <2>1, <2>2
  <2> HIDE DEF count
  <2> QED
    BY <2>1, <2>3, Multiples
<1> HIDE DEF count
<1>4. /\ db \in [DOMAIN db -> Records] /\ DOMAIN db = DOMAIN rdb
  <2>1. rdb \in [DOMAIN rdb -> Records]
    BY DEF Inv, TypeOK, HandlersOK
  <2>2. PICK n \in Nat : n = count * meta[s].chunk
    BY <1>3
  <2>3. /\ UpdateProgress(rdb, WireId(s), n) \in [DOMAIN rdb -> Records]
        /\ DOMAIN UpdateProgress(rdb, WireId(s), n) = DOMAIN rdb
    BY <2>1, StatementTypes
  <2> QED
    BY <2>2, <2>3
<1> DEFINE valid == HashValid(s, stage'[s])
<1>5. \/ count < Total(s) /\ rdb' = db /\ UNCHANGED <<rPc, verdict, active>>
      \/ /\ verdict' = [verdict EXCEPT ![s] = IF valid THEN "complete" ELSE "error"]
         /\ rdb' = IF valid THEN CompleteTransfer(db, WireId(s)) ELSE FailTransfer(db, WireId(s))
         /\ active' = active \ {s} /\ rPc' = [rPc EXCEPT ![s] = "done"]
  BY DEF AckChunk, count
<1> HIDE DEF db, valid
<1>6. rdb' \in [DOMAIN rdb' -> Records] /\ DOMAIN rdb' = DOMAIN rdb
  <2>1. PICK e : e = db
    OBVIOUS
  <2>2. /\ CompleteTransfer(e, WireId(s)) \in [DOMAIN e -> Records]
        /\ FailTransfer(e, WireId(s)) \in [DOMAIN e -> Records]
        /\ DOMAIN CompleteTransfer(e, WireId(s)) = DOMAIN e
        /\ DOMAIN FailTransfer(e, WireId(s)) = DOMAIN e
    BY <1>4, <2>1, StatementTypes
  <2>3. rdb' = e \/ rdb' = CompleteTransfer(e, WireId(s)) \/ rdb' = FailTransfer(e, WireId(s))
    BY <1>5, <2>1
  <2> QED
    BY <1>4, <2>1, <2>2, <2>3
<1>7. /\ rPc' = rPc \/ rPc' = [rPc EXCEPT ![s] = "done"]
      /\ active' \subseteq Sessions
      /\ rPc' \in [Sessions -> {"none", "metadata", "run", "done"}]
  BY <1>5 DEF Inv, TypeOK, HandlersOK
<1>8. \/ verdict' = verdict
      \/ \E y \in {"complete", "error"} : verdict' = [verdict EXCEPT ![s] = y] /\ rPc'[s] = "done"
  BY <1>5 DEF Inv, TypeOK, HandlersOK
<1>9. /\ Windowed' /\ ChunksOK' /\ Unused' /\ Handled' /\ Cut' /\ Alone' /\ Harmless'
      /\ stage'[s][i] = "acked"
      /\ \A r \in Sessions, j \in Indices : r # s \/ j # i => stage'[r][j] = stage[r][j]
      /\ (Opened' => Opened) /\ verdict[s] = "none"
      /\ verdict' \in [Sessions -> {"none", "complete", "error"}]
      /\ \A r \in Sessions : r # s => verdict'[r] = verdict[r]
  BY <1>1, <1>2, <1>6, <1>7, <1>8, HandlerMoves
<1>10. HandlersOK' /\ WorldOK'
  BY <1>2, <1>6, <1>7, <1>9 DEF Inv, TypeOK, HandlersOK, WorldOK
<1>11. cur > 0 => cur \in Sessions
  BY CurrentSession
<1>12. OnDisk'
  <2>1. Opened' => Opened /\ cur \in Sessions
    BY <1>9, <1>11 DEF Opened
  <2>2. ASSUME cur \in Sessions, NEW j \in Indices, stage'[cur][j] \in {"written", "acked"}
        PROVE  stage[cur][j] \in {"written", "acked"}
    BY <1>2, <1>9, <2>2
  <2> QED
    BY <1>1, <1>2, <2>1, <2>2 DEF Inv, Data, OnDisk, Undisturbed
<1>13. Grounds'
  <2>1. CASE s = cur /\ verdict'[s] = "complete"
    <3>1. valid
      BY <1>5, <1>9, <2>1 DEF Inv, TypeOK, HandlersOK
    <3>2. HashValid(s, stage[s])'
      BY <1>1, <1>2, <3>1 DEF valid, HashValid, ChunksOf, Total
    <3>3. Start(s) = 0 /\ UNCHANGED Start(s)
      <4>1. 0 \in ChunksOf(s) /\ ChunksOf(s) \subseteq Indices /\ Start(s) \in Nat /\ Total(s) \in Nat
        <5>1. Start(s) \in ChunksOf(s) /\ ChunksOf(s) \subseteq Indices /\ Total(s) \in Nat \ {0}
          BY SessionChunks DEF Inv, TypeOK
        <5> QED
          BY <5>1 DEF ChunksOf
      <4>2. stage'[s][0] \in {"written", "acked"}
        BY <3>1, <4>1 DEF valid, HashValid
      <4>3. stage[s][0] \in {"written", "acked"}
        BY <1>2, <1>9, <4>1, <4>2
      <4>4. 0 \in Start(s)..(Total(s) - 1)
        BY <4>1, <4>3 DEF Inv, Data, Cut
      <4> QED
        BY <1>1, <4>1, <4>4 DEF Start, Total
    <3> QED
      BY <1>1, <1>2, <2>1, <3>2, <3>3 DEF Grounds
  <2>2. CASE s = cur /\ verdict'[s] # "complete"
    BY <1>1, <1>9, <1>11, <2>2 DEF Inv, Data, Grounds
  <2>3. CASE s # cur
    <3>1. CASE cur \in Sessions
      BY <1>1, <1>2, <1>9, <2>3, <3>1, GroundsKept
    <3>2. CASE cur \notin Sessions
      BY <1>1, <1>11, <3>2 DEF Grounds
    <3> QED
      BY <3>1, <3>2
  <2> QED
    BY <2>1, <2>2, <2>3
<1> QED
  BY <1>1, <1>9, <1>10, <1>12, <1>13 DEF Inv, Data, TypeOK

LEMMA SlowReceiveInv ==
  ASSUME Inv, NEW s \in Sessions, SlowReceive(s)
  PROVE  Inv'
<1>1. /\ RecordInv' /\ SenderOK' /\ HandlerStep(s)
      /\ UNCHANGED <<cur, sPc, prod, nextToSend, nextToAck, outcome, meta>>
  BY HandlerSender DEF HandlerStep
<1>2. PICK i : i = Cardinality(At(s, {"acked"}))
  OBVIOUS
<1>3. /\ rPc[s] = "run" /\ meta[s].slow /\ i = Earliest(At(s, {"wire"})) /\ At(s, {"wire"}) # {}
      /\ disk' = Placed(s, i) /\ stage' = [stage EXCEPT ![s][i] = "acked"]
      /\ UNCHANGED <<seen, lost, clean, active, rdb, conn, version, faults>>
      /\ \/ UNCHANGED <<verdict, rPc>>
         \/ /\ verdict' = [verdict EXCEPT ![s] = IF Verifies(s, disk') THEN "complete" ELSE "error"]
            /\ rPc' = [rPc EXCEPT ![s] = "done"]
  BY <1>2 DEF SlowReceive, worldVars
<1>4. i \in Indices /\ i \in ChunksOf(s) /\ stage[s][i] = "wire"
  BY <1>3, EarliestAt DEF Inv, TypeOK
<1>5. s = cur
  BY <1>3 DEF Inv, Data, Alone
<1>6. cur > 0
  BY <1>5 DEF Sessions
<1>7. Start(s) = 0
  <2>1. CASE At(s, {"acked"}) # {}
    BY <1>3, <1>5, <1>6, <2>1 DEF Inv, Data, Alone
  <2>2. CASE At(s, {"acked"}) = {}
    <3>1. i = 0
      BY <1>2, <2>2, FS_EmptySet
    <3>2. i \in Start(s)..(Total(s) - 1)
      BY <1>4 DEF Inv, Data, Cut
    <3>3. Start(s) \in Nat
      BY SessionChunks DEF Inv, TypeOK, ChunksOf
    <3> QED
      BY <3>1, <3>2, <3>3
  <2> QED
    BY <2>1, <2>2
<1>8. /\ rPc' = rPc \/ rPc' = [rPc EXCEPT ![s] = "done"]
      /\ rPc' \in [Sessions -> {"none", "metadata", "run", "done"}]
      /\ \/ verdict' = verdict
         \/ \E y \in {"complete", "error"} : verdict' = [verdict EXCEPT ![s] = y] /\ rPc'[s] = "done"
  BY <1>3 DEF Inv, TypeOK, HandlersOK
<1>9. /\ Windowed' /\ ChunksOK' /\ Unused' /\ Handled' /\ Cut' /\ Alone' /\ Harmless'
      /\ verdict[s] = "none" /\ verdict' \in [Sessions -> {"none", "complete", "error"}]
  BY <1>1, <1>3, <1>4, <1>7, <1>8, HandlerMoves
<1>10. HandlersOK' /\ WorldOK'
  <2>1. disk' \in Seq(Nat \X Nat)
    BY <1>3, <1>4, PlacedType DEF Units
  <2> QED
    BY <1>3, <1>8, <1>9, <2>1 DEF Inv, TypeOK, HandlersOK, WorldOK
<1>11. OnDisk'
  BY <1>1, <1>3, <1>5 DEF OnDisk, Opened
<1>12. Grounds'
  <2>1. Start(cur)' = 0
    BY <1>1, <1>5, <1>7 DEF Start, Total
  <2>2. verdict'[cur] = "complete" => Verifies(cur, disk')
    BY <1>3, <1>5, <1>9 DEF Inv, TypeOK, HandlersOK
  <2>3. outcome[cur] # "verified"
    BY <1>5, <1>6, <1>9 DEF Inv, Data, Grounds
  <2> QED
    BY <1>1, <1>3, <1>5, <2>1, <2>2, <2>3 DEF Grounds, Verifies
<1> QED
  BY <1>1, <1>9, <1>10, <1>11, <1>12 DEF Inv, Data, TypeOK

\* Pieces of a file lie within it, and two of them have nothing in common.
LEMMA Pieces ==
  ASSUME NEW c \in Nat, NEW i \in 0..(TotalChunks(c, Size) - 1)
  PROVE  /\ Piece(c, i) \subseteq 1..Size
         /\ \A j \in 0..(TotalChunks(c, Size) - 1), p \in Piece(c, i) : p \in Piece(c, j) => i = j
<1>1. /\ ChunkOffset(c, i) \in Nat /\ ChunkLength(c, Size, i) \in Nat
      /\ ChunkOffset(c, i) + ChunkLength(c, Size, i) = Smaller(ChunkOffset(c, i) + Clamp(c), Size)
      /\ Clamp(c) \in Nat
  BY ChunkInside, ClampRange
<1> DEFINE off == ChunkOffset(c, i)
           len == ChunkLength(c, Size, i)
<1>2. Piece(c, i) = (off + 1)..(off + len)
  BY DEF Piece
<1> HIDE DEF off, len
<1>3. Piece(c, i) \subseteq 1..Size
  <2>1. off \in Nat /\ len \in Nat /\ off + len <= Size
    BY <1>1 DEF off, len, Smaller
  <2> QED
    BY <1>2, <2>1
<1>4. ASSUME NEW j \in 0..(TotalChunks(c, Size) - 1), NEW p \in 1..Size,
             p \in Piece(c, i), p \in Piece(c, j)
      PROVE  i = j
  BY <1>4, ChunksTile DEF Piece
<1> QED
  BY <1>3, <1>4

LEMMA WriteChunkInv ==
  ASSUME Inv, NEW s \in Sessions, NEW i \in Indices, WriteChunk(s, i)
  PROVE  Inv'
<1>1. /\ RecordInv' /\ SenderOK' /\ HandlerStep(s)
      /\ UNCHANGED <<cur, sPc, prod, nextToSend, nextToAck, outcome, meta>>
  BY HandlerSender DEF HandlerStep
<1>2. /\ rPc[s] = "run" /\ ~meta[s].slow /\ stage[s][i] = "task"
      /\ stage' = [stage EXCEPT ![s][i] = "written"]
      /\ UNCHANGED <<seen, rPc, verdict, clean, active, rdb, conn, version>>
      /\ \/ disk' = Placed(s, i) /\ UNCHANGED <<lost, faults>>
         \/ Fault /\ lost' = [lost EXCEPT ![s] = TRUE] /\ UNCHANGED disk
  BY DEF WriteChunk, AtWork
<1>3. /\ Windowed' /\ ChunksOK' /\ Unused' /\ Handled' /\ Cut' /\ Alone' /\ Harmless'
      /\ i \in ChunksOf(s) /\ stage'[s][i] = "written"
      /\ \A r \in Sessions, j \in Indices : r # s \/ j # i => stage'[r][j] = stage[r][j]
      /\ (Opened' => Opened) /\ verdict[s] = "none"
  BY <1>1, <1>2, HandlerMoves
<1>4. HandlersOK' /\ WorldOK'
  <2>1. disk' \in Seq(Nat \X Nat)
    <3>1. Placed(s, i) \in Seq(Nat \X Nat)
      BY <1>2, PlacedType DEF Units
    <3> QED
      BY <1>2, <3>1 DEF Inv, TypeOK, HandlersOK
  <2>2. lost' \in [Sessions -> BOOLEAN]
    <3>1. lost \in [Sessions -> BOOLEAN]
      BY DEF Inv, TypeOK, HandlersOK
    <3>2. lost' = lost \/ lost' = [lost EXCEPT ![s] = TRUE]
      BY <1>2
    <3> QED
      BY <3>1, <3>2, Zenon
  <2>3. faults' \in 0..MaxFaults
    BY <1>2 DEF Fault, Inv, TypeOK, WorldOK
  <2> QED
    BY <1>2, <2>1, <2>2, <2>3 DEF Inv, TypeOK, HandlersOK, WorldOK
<1>5. cur > 0 => cur \in Sessions
  BY CurrentSession
<1>6. OnDisk'
  <2> SUFFICES ASSUME Opened', Undisturbed'
               PROVE  /\ Len(disk') = Size
                      /\ \A j \in Indices : stage'[cur][j] \in {"written", "acked"} =>
                           \A p \in Piece(meta[cur].chunk, j) :
                             disk'[p] \in {<<p, seen[cur][j]>>, <<p, meta[cur].version>>}
    BY <1>1, <1>2 DEF OnDisk
  <2>1. Opened /\ cur \in Sessions /\ meta[cur].chunk <= MaxChunk /\ clean[cur] /\ ~lost'[cur]
    BY <1>1, <1>2, <1>3, <1>5 DEF Opened, Undisturbed
  <2>2. ~lost[cur] /\ (s = cur => disk' = Placed(s, i))
    BY <1>2, <2>1 DEF Inv, TypeOK, HandlersOK
  <2>3. /\ Len(disk) = Size
        /\ \A j \in Indices : stage[cur][j] \in {"written", "acked"} =>
             \A p \in Piece(meta[cur].chunk, j) :
               disk[p] \in {<<p, seen[cur][j]>>, <<p, meta[cur].version>>}
    BY <2>1, <2>2 DEF Inv, Data, OnDisk, Undisturbed
  <2>4. meta[s].chunk <= MaxChunk /\ (s # cur => seen[s][i] = meta[cur].version)
    BY <1>2, <2>1 DEF Inv, Data, Harmless
  <2>5. /\ Len(Placed(s, i)) = Size
        /\ \A p \in 1..Size : Placed(s, i)[p] = IF p \in Piece(meta[s].chunk, i)
                                                THEN <<p, seen[s][i]>> ELSE disk[p]
    BY <1>2, <2>3, <2>4, PlacedYields
  <2>6. Len(disk') = Size
    BY <1>2, <2>3, <2>5
  <2>7. ASSUME NEW j \in Indices, stage'[cur][j] \in {"written", "acked"},
               NEW p \in Piece(meta[cur].chunk, j)
        PROVE  disk'[p] \in {<<p, seen[cur][j]>>, <<p, meta[cur].version>>}
    <3>1. /\ j \in 0..(TotalChunks(meta[cur].chunk, Size) - 1) /\ meta[cur].chunk \in Nat
          /\ Total(cur) = TotalChunks(meta[cur].chunk, Size)
      <4>1. stage[cur][j] # "todo"
        BY <1>2, <1>3, <2>1, <2>7
      <4>2. j \in Start(cur)..(Total(cur) - 1) /\ Start(cur) \in Nat /\ meta[cur].chunk \in Nat
        BY <2>1, <4>1, SessionChunks DEF Inv, Data, Cut, TypeOK, ChunksOf
      <4>3. Total(cur) = TotalChunks(meta[cur].chunk, Size)
        BY <2>1 DEF Inv, Data, Handled, Described, Total
      <4> QED
        BY <4>2, <4>3
    <3>2. p \in 1..Size
      BY <2>7, <3>1, Pieces
    <3>3. CASE s = cur /\ j = i
      BY <2>2, <2>5, <2>7, <3>2, <3>3
    <3>4. CASE s = cur /\ j # i
      <4>1. i \in 0..(TotalChunks(meta[cur].chunk, Size) - 1)
        BY <1>3, <3>1, <3>4 DEF ChunksOf
      <4>2. p \notin Piece(meta[cur].chunk, i)
        BY <2>7, <3>1, <3>4, <4>1, Pieces
      <4>3. disk'[p] = disk[p] /\ stage[cur][j] \in {"written", "acked"}
        BY <1>3, <2>2, <2>5, <2>7, <3>2, <3>4, <4>2
      <4> QED
        BY <2>3, <2>7, <4>3
    <3>5. CASE s # cur
      <4>1. stage[cur][j] \in {"written", "acked"}
        BY <1>3, <2>1, <2>7, <3>5
      <4>2. disk[p] \in {<<p, seen[cur][j]>>, <<p, meta[cur].version>>}
        BY <2>3, <2>7, <4>1
      <4>3. disk' = disk \/ disk'[p] = disk[p] \/ disk'[p] = <<p, meta[cur].version>>
        BY <1>2, <2>4, <2>5, <3>2, <3>5
      <4> QED
        BY <4>2, <4>3
    <3> QED
      BY <3>3, <3>4, <3>5
  <2> QED
    BY <2>6, <2>7
<1>7. Grounds'
  <2>1. CASE cur > 0 /\ verdict[cur] = "complete" /\ meta[cur].slow
    <3>1. s # cur
      BY <1>2, <2>1
    <3> QED
      BY <1>2, <2>1, <3>1 DEF Inv, Data, Alone
  <2>2. CASE ~(cur > 0 /\ verdict[cur] = "complete")
    BY <1>1, <1>2, <2>2 DEF Inv, Data, Grounds
  <2>3. CASE ~meta[cur].slow
    BY <1>1, <1>2, <1>3, <2>3, GroundsKept
  <2> QED
    BY <2>1, <2>2, <2>3
<1> QED
  BY <1>1, <1>3, <1>4, <1>6, <1>7 DEF Inv, Data, TypeOK

-----------------------------------------------------------------------------
(* Every step *)

LEMMA HandlerInv ==
  ASSUME Inv, NEW s \in Sessions, HandlerStep(s)
  PROVE  Inv'
<1>1. CASE NotOpened(s) \/ HandlerFails(s) \/ SlowFails(s)
  BY <1>1, EndsInv
<1>2. CASE \E i \in Indices : WriteChunk(s, i) \/ AckChunk(s, i)
  BY <1>2, WriteChunkInv, AckChunkInv
<1>3. CASE OpenFile(s) \/ SlowAccept(s) \/ Spawn(s) \/ SlowReceive(s)
  BY <1>3, OpenFileInv, SlowAcceptInv, SpawnInv, SlowReceiveInv
<1> QED
  BY <1>1, <1>2, <1>3 DEF HandlerStep

LEMMA StutterInv ==
  ASSUME Inv, UNCHANGED vars
  PROVE  Inv'
<1>1. RecordInv' /\ UNCHANGED <<cur, sPc, prod, nextToSend, nextToAck, outcome, meta>>
  BY WorldRecord DEF Inv, vars, senderVars, procVars
<1>2. SenderOK'
  BY DEF Inv, TypeOK, SenderOK, vars, senderVars, procVars, Total
<1>3. Windowed'
  BY <1>1, WindowKept DEF Inv, vars, chunkVars, handlerVars
<1>4. conn' = conn /\ version' = version /\ faults' = faults
  BY DEF vars, worldVars
<1> QED
  BY <1>1, <1>2, <1>3, <1>4, QuietInv DEF vars, OutcomeStep, Inv, TypeOK, WorldOK

LEMMA InvStep == Inv /\ [Next]_vars => Inv'
<1> SUFFICES ASSUME Inv, [Next]_vars PROVE Inv'
  OBVIOUS
<1>1. CASE \E c \in ChunkSizes, packed \in BOOLEAN, kind \in Receivers : Send(c, packed, kind)
  BY <1>1, SendInv
<1>2. CASE CommandStep
  BY <1>2, ReceiveAcceptInv, NotAcceptedInv, SendFrameInv, SendFailsInv, TakeAckInv, VerifiedInv,
     TakeFrameInv DEF CommandStep
<1>3. CASE ProducerStep \/ PrepareFails \/ CtrlC \/ EditSource \/ \E s \in Sessions : Break(s)
  BY <1>3, PrepareInv, AsideInv DEF ProducerStep
<1>4. CASE SealStep
  BY <1>4, SealInv DEF SealStep
<1>5. CASE \E s \in Sessions : HandlerStep(s)
  BY <1>5, HandlerInv
<1>6. CASE Crash
  BY <1>6, CrashInv
<1>7. CASE UNCHANGED vars
  BY <1>7, StutterInv
<1> QED
  BY <1>1, <1>2, <1>3, <1>4, <1>5, <1>6, <1>7 DEF Next

LEMMA InvAlways == SafeSpec => []Inv
  BY InitInvariant, InvStep, PTL DEF SafeSpec

\* Every variable of the pipeline keeps its type, and the counters of a running
\* sender keep their order: next_to_send - next_to_ack never wraps, whatever the
\* order in which tasks end and acknowledgements come.
THEOREM TypeCorrect == SafeSpec => []TypeOK
<1>1. Inv => TypeOK
  BY DEF Inv
<1> QED
  BY <1>1, InvAlways, PTL

\* The pieces on disk make the announced file.
LEMMA WholeFile ==
  ASSUME Inv, Opened, Undisturbed, HashValid(cur, stage[cur])
  PROVE  disk = Source(meta[cur].version)
<1>1. cur \in Sessions
  BY DEF Opened, Inv, TypeOK, SenderOK, Sessions
<1>2. /\ meta[cur].chunk \in Nat /\ Total(cur) = TotalChunks(meta[cur].chunk, Size)
      /\ ChunksOf(cur) \subseteq Indices /\ meta[cur].version \in Nat
  <2>1. meta[cur].version \in Nat
    BY <1>1 DEF Inv, TypeOK, SenderOK, Descriptions
  <2> QED
    BY <1>1, <2>1, SessionChunks DEF Inv, TypeOK, Data, Handled, Described, Total
<1>3. /\ Len(disk) = Size /\ disk \in Seq(Units)
      /\ \A i \in Indices : stage[cur][i] \in {"written", "acked"} =>
           \A p \in Piece(meta[cur].chunk, i) :
             disk[p] \in {<<p, seen[cur][i]>>, <<p, meta[cur].version>>}
  BY DEF Inv, Data, OnDisk, TypeOK, HandlersOK, Units
<1>4. ASSUME NEW p \in 1..Size PROVE disk[p] = <<p, meta[cur].version>>
  <2>1. PICK i \in 0..(TotalChunks(meta[cur].chunk, Size) - 1) : p \in Piece(meta[cur].chunk, i)
    BY <1>2, ChunksTile DEF Piece
  <2>2. i \in ChunksOf(cur) /\ i \in Indices
    BY <1>2 DEF ChunksOf
  <2>3. stage[cur][i] \in {"written", "acked"} /\ seen[cur][i] = meta[cur].version
    BY <2>2 DEF HashValid
  <2> QED
    BY <1>3, <2>1, <2>2, <2>3
<1>5. /\ Source(meta[cur].version) \in Seq(Units) /\ Len(Source(meta[cur].version)) = Size
      /\ \A p \in 1..Size : Source(meta[cur].version)[p] = <<p, meta[cur].version>>
  BY <1>2, SourceType
<1>6. \A p \in 1..Size : disk[p] = Source(meta[cur].version)[p]
  BY <1>4, <1>5
<1> QED
  <2>1. PICK src \in Seq(Units) : src = Source(meta[cur].version)
    BY <1>5
  <2> QED
    BY <1>3, <1>5, <1>6, <2>1, SeqEqual

LEMMA ExactFile == Inv => VerifiedIsExact
<1> SUFFICES ASSUME Inv, ReportedVerified, meta[cur].chunk <= MaxChunk, ~lost[cur], clean[cur]
             PROVE  disk = Source(meta[cur].version)
  BY DEF VerifiedIsExact, AnnouncedIsThere
<1>0. cur > 0 /\ outcome[cur] = "verified"
  BY DEF ReportedVerified
<1>1. /\ verdict[cur] = "complete"
      /\ IF meta[cur].slow THEN disk = Source(meta[cur].version) ELSE HashValid(cur, stage[cur])
  BY <1>0 DEF Inv, Data, Grounds
<1>2. CASE ~meta[cur].slow
  <2>1. Opened /\ Undisturbed
    BY <1>0, <1>1, <1>2 DEF Opened, Undisturbed
  <2> QED
    BY <1>1, <1>2, <2>1, WholeFile
<1> QED
  BY <1>1, <1>2

\* The announced file is on the receiver's disk when the command reports a transfer
\* as complete and verified, unless its chunks were larger than documented, a write
\* was lost or an earlier handler was at work: the receiver hashes what arrived, not
\* what is on disk, and this is why the two agree.
THEOREM VerifiedExact == SafeSpec => []VerifiedIsExact
  BY InvAlways, ExactFile, PTL

-----------------------------------------------------------------------------
(* Nobody waits for ever on somebody who waits *)

\* The handler is there from the beginning, and says nothing before it accepts.
Begun == cur > 0 => rPc[cur] # "none" /\ (sPc = "accept" => verdict[cur] = "none")

\* The chunks come up to the counters, and the loop waits only for a frame that
\* has not come.
Filled ==
  sPc \in Running =>
    /\ \A i \in Start(cur)..(prod - 1) : stage[cur][i] # "todo"
    /\ \A i \in Start(cur)..(nextToSend - 1) : stage[cur][i] \in Sent
    /\ sPc = "select" => stage[cur][nextToSend] # "buffered"

\* No acknowledgement is counted twice, the last one ends the loop, and the
\* reading task does not stop without a reason.
Counted ==
  sPc \in Running =>
    /\ AcksInFlight >= 0
    /\ sPc = "verify" <=> nextToAck = Total(cur)
    /\ prodPc = "stopped" => err \/ paused \/ prod = Total(cur)

AllAcked == \A i \in Start(cur)..(Total(cur) - 1) : stage[cur][i] = "acked"

\* A handler gives its verdict with its last acknowledgement.
Answered == sPc \in Running => (verdict[cur] # "none" <=> AllAcked)

\* The slow receiver acknowledges in order, from chunk 0.
InTurn ==
  sPc \in Running /\ meta[cur].slow =>
    \A i \in Indices :
      stage[cur][i] = "acked" => \A j \in 0..i : stage[cur][j] = "acked"

Paced == Begun /\ Filled /\ Counted /\ Answered /\ InTurn

\* What a running command can rely on.
LEMMA Context ==
  ASSUME Inv, sPc \in Running
  PROVE  /\ cur \in Sessions /\ cur > 0 /\ TypeOK /\ Windowed /\ Cut
         /\ Start(cur) \in Nat /\ Total(cur) \in Nat /\ Start(cur) < Total(cur)
         /\ ChunksOf(cur) = 0..(Total(cur) - 1) /\ ChunksOf(cur) \subseteq Indices
         /\ {prod, nextToSend, nextToAck} \subseteq Nat
         /\ Start(cur) <= nextToAck /\ nextToAck <= nextToSend /\ nextToSend <= prod
         /\ prod <= Total(cur) /\ prod \in Indices /\ nextToSend \in Indices
         /\ \A i \in Indices : /\ stage[cur][i] # "todo" => i \in Start(cur)..(prod - 1)
                               /\ stage[cur][i] \in Sent => i \in Start(cur)..(nextToSend - 1)
         /\ \A i \in Start(cur)..(Total(cur) - 1) : i \in Indices /\ i \in ChunksOf(cur)
<1>1. /\ cur \in Sessions /\ cur > 0 /\ TypeOK /\ Windowed /\ Cut
  BY SomeCommand DEF Running, Inv, Data
<1>2. /\ Start(cur) \in Nat /\ Total(cur) \in Nat /\ Start(cur) < Total(cur)
      /\ ChunksOf(cur) = 0..(Total(cur) - 1) /\ ChunksOf(cur) \subseteq Indices
      /\ Total(cur) \in Indices
  BY <1>1, SessionChunks DEF TypeOK, ChunksOf
<1>3. /\ {prod, nextToSend, nextToAck} \subseteq Nat
      /\ Start(cur) <= nextToAck /\ nextToAck <= nextToSend /\ nextToSend <= prod
      /\ prod <= Total(cur)
  BY <1>1 DEF TypeOK, SenderOK, Windowed
<1>4. prod \in Indices /\ nextToSend \in Indices
  <2>1. Larger(Size, 1) \in Nat
    BY DEF Larger
  <2> QED
    BY <1>2, <1>3, <2>1 DEF Indices
<1>5. ASSUME NEW i \in Indices
      PROVE  /\ stage[cur][i] # "todo" => i \in Start(cur)..(prod - 1)
             /\ stage[cur][i] \in Sent => i \in Start(cur)..(nextToSend - 1)
  <2>1. i \in Nat
    BY DEF Indices
  <2>2. stage[cur][i] # "todo" => i \in Start(cur)..(Total(cur) - 1) /\ i < prod
    BY <1>1, <1>3, <2>1 DEF Cut, Windowed
  <2>3. stage[cur][i] \in Sent => stage[cur][i] # "todo" /\ i < nextToSend
    BY <1>1 DEF Windowed, Sent
  <2> QED
    BY <1>2, <1>3, <2>1, <2>2, <2>3
<1>6. \A i \in Start(cur)..(Total(cur) - 1) : i \in Indices /\ i \in ChunksOf(cur)
  BY <1>2
<1> QED
  BY <1>1, <1>2, <1>3, <1>4, <1>5, <1>6

\* The numbers alone.
LEMMA Counts ==
  ASSUME Inv, sPc \in Running
  PROVE  /\ cur \in Sessions /\ cur > 0
         /\ Start(cur) \in Nat /\ Total(cur) \in Nat /\ Start(cur) < Total(cur)
         /\ prod \in Nat /\ nextToSend \in Nat /\ nextToAck \in Nat
         /\ Start(cur) <= nextToAck /\ nextToAck <= nextToSend /\ nextToSend <= prod
         /\ prod <= Total(cur) /\ prod \in Indices /\ nextToSend \in Indices
BY Context

\* One chunk that the command has begun.
LEMMA Started ==
  ASSUME Inv, sPc \in Running, NEW i \in Indices, stage[cur][i] # "todo"
  PROVE  /\ i \in Nat /\ i \in Start(cur)..(prod - 1)
         /\ i \in ChunksOf(cur) /\ ChunksOf(cur) \subseteq Indices
<1>1. i \in Start(cur)..(prod - 1)
  BY Context
<1>2. Start(cur) \in Nat /\ prod <= Total(cur) /\ prod \in Nat /\ Total(cur) \in Nat
  BY Counts
<1>3. i \in Nat /\ i \in Start(cur)..(Total(cur) - 1)
  BY <1>1, <1>2
<1>4. ChunksOf(cur) \subseteq Indices /\ ChunksOf(cur) = 0..(Total(cur) - 1)
  BY Context
<1> QED
  BY <1>1, <1>2, <1>3, <1>4

LEMMA Ranges ==
  ASSUME Inv, sPc \in Running
  PROVE  /\ \A i \in Start(cur)..(prod - 1) : i \in Indices
         /\ \A i \in Start(cur)..(nextToSend - 1) : i \in Indices
<1>1. ASSUME NEW i \in Start(cur)..(prod - 1) PROVE i \in Start(cur)..(Total(cur) - 1)
  BY Context
<1>2. ASSUME NEW i \in Start(cur)..(nextToSend - 1) PROVE i \in Start(cur)..(Total(cur) - 1)
  BY Context
<1> QED
  BY <1>1, <1>2, Context

LEMMA IntervalSize ==
  ASSUME NEW a \in Nat, NEW b \in Nat, a <= b
  PROVE  IsFiniteSet(a..(b - 1)) /\ Cardinality(a..(b - 1)) = b - a
<1>1. Cardinality(a..(b - 1)) = IF a > b - 1 THEN 0 ELSE (b - 1) - a + 1
  BY FS_Interval
<1>2. IsFiniteSet(a..(b - 1))
  BY FS_Interval
<1> QED
  BY <1>1, <1>2

\* A set of as many numbers as there are in an interval around it is the interval.
LEMMA FullInterval ==
  ASSUME NEW a \in Nat, NEW b \in Nat, a <= b, NEW A, A \subseteq a..(b - 1)
  PROVE  /\ IsFiniteSet(A) /\ Cardinality(A) \in Nat /\ Cardinality(A) <= b - a
         /\ Cardinality(A) >= b - a <=> A = a..(b - 1)
<1>1. IsFiniteSet(a..(b - 1)) /\ Cardinality(a..(b - 1)) = b - a
  BY IntervalSize
<1>2. /\ IsFiniteSet(A) /\ Cardinality(A) <= b - a /\ (Cardinality(A) = b - a => A = a..(b - 1))
  BY <1>1, FS_Subset
<1>3. Cardinality(A) \in Nat
  BY <1>2, FS_CardinalityType
<1> QED
  BY <1>1, <1>2, <1>3

\* The acknowledged chunks are some of those the session began with.
LEMMA AckedWithin ==
  ASSUME Inv, sPc \in Running
  PROVE  /\ At(cur, {"acked"}) \subseteq Start(cur)..(Total(cur) - 1)
         /\ \A i \in Indices : stage[cur][i] = "acked" => i \in At(cur, {"acked"})
         /\ AllAcked <=> At(cur, {"acked"}) = Start(cur)..(Total(cur) - 1)
<1>1. ASSUME NEW i \in Indices, stage[cur][i] = "acked"
      PROVE  i \in Start(cur)..(Total(cur) - 1) /\ i \in ChunksOf(cur)
  <2>1. i \in Start(cur)..(Total(cur) - 1)
    BY <1>1, Context DEF Cut
  <2> QED
    BY <2>1, Context
<1>2. At(cur, {"acked"}) \subseteq Indices
  BY Context DEF At
<1>3. At(cur, {"acked"}) \subseteq Start(cur)..(Total(cur) - 1)
  BY <1>1, <1>2 DEF At
<1>4. \A i \in Indices : stage[cur][i] = "acked" => i \in At(cur, {"acked"})
  BY <1>1 DEF At
<1>5. Start(cur)..(Total(cur) - 1) \subseteq Indices
  BY Context
<1> QED
  BY <1>3, <1>4, <1>5 DEF AllAcked, At

LEMMA EmptyCount == Cardinality({}) = 0
  BY FS_EmptySet

LEMMA PacedNeverStranded == Inv /\ Paced => NeverStranded
<1> SUFFICES ASSUME Inv, Paced, sPc \notin {"idle", "done"}, ~Severed(cur), ~Overlooked
             PROVE  \/ sPc = "accept" /\ rPc[cur] \in {"metadata", "run"}
                    \/ sPc = "send" /\ (Cardinality(At(cur, {"wire"})) < WireCap \/ rPc[cur] = "run")
                    \/ sPc = "verify" /\ verdict[cur] # "none"
                    \/ sPc = "select" /\ (err \/ CanGoOn)
  BY DEF NeverStranded
<1>1. cur \in Sessions /\ cur > 0 /\ rPc[cur] \in {"metadata", "run", "done"}
  BY SomeCommand DEF Paced, Begun, Inv, TypeOK, HandlersOK
<1>2. rPc[cur] = "done" => verdict[cur] # "none"
  BY DEF Severed
<1>3. CASE sPc = "accept"
  BY <1>1, <1>2, <1>3 DEF Paced, Begun
<1>4. CASE sPc = "verify"
  <2>1. nextToAck = Total(cur) /\ AcksInFlight >= 0 /\ sPc \in Running
    BY <1>4 DEF Running, Paced, Counted
  <2>2. Cardinality(At(cur, {"acked"})) >= Total(cur) - Start(cur)
    <3>1. Cardinality(At(cur, {"acked"})) \in Int
      BY AtFinite, <1>1 DEF Inv, TypeOK
    <3> QED
      BY <2>1, <3>1, Context DEF AcksInFlight
  <2>3. At(cur, {"acked"}) = Start(cur)..(Total(cur) - 1)
    BY <2>1, <2>2, Context, AckedWithin, FullInterval
  <2>4. AllAcked
    BY <2>1, <2>3, AckedWithin
  <2> QED
    BY <1>4, <2>1, <2>4 DEF Paced, Answered
\* Something is on its way over the connection: its handler is at work.
<1>5. ASSUME sPc \in Running, At(cur, {"wire", "task", "written"}) # {}
      PROVE  rPc[cur] = "run"
  <2>1. PICK i \in ChunksOf(cur) : stage[cur][i] \in {"wire", "task", "written"}
    BY <1>5 DEF At
  <2>2. i \in Start(cur)..(Total(cur) - 1)
    BY <1>5, <2>1, Context DEF Cut
  <2>3. ~AllAcked
    BY <2>1, <2>2 DEF AllAcked
  <2>4. rPc[cur] # "done"
    BY <1>2, <1>5, <2>3 DEF Paced, Answered
  <2> QED
    BY <1>1, <1>5, <2>4 DEF Inv, Windowed
<1>6. CASE sPc = "send"
  <2>1. CASE At(cur, {"wire"}) = {}
    BY <1>6, <2>1, EmptyCount
  <2>2. CASE At(cur, {"wire"}) # {}
    <3>1. At(cur, {"wire", "task", "written"}) # {} /\ sPc \in Running
      BY <1>6, <2>2 DEF At, Running
    <3> QED
      BY <1>5, <1>6, <3>1
  <2> QED
    BY <2>1, <2>2
<1>7. CASE sPc = "select" /\ ~err /\ ~CanGoOn
  <2>1. sPc \in Running
    BY <1>7 DEF Running
  <2>2. At(cur, {"wire", "task", "written"}) = {}
    BY <1>5, <1>7, <2>1 DEF CanGoOn
  <2>3. \A i \in Start(cur)..(nextToSend - 1) : stage[cur][i] = "acked"
    <3>1. ASSUME NEW i \in Start(cur)..(nextToSend - 1)
          PROVE  stage[cur][i] \in Sent /\ i \in ChunksOf(cur)
      BY <2>1, <3>1, Context DEF Paced, Filled
    <3> QED
      BY <2>2, <3>1 DEF At, Sent
  <2>4. nextToAck = nextToSend
    <3> DEFINE A == At(cur, {"acked"})
               B == Start(cur)..(nextToSend - 1)
    <3>1. B \subseteq A
      BY <2>1, <2>3, Context DEF At
    <3>2. IsFiniteSet(A)
      BY AtFinite, <1>1 DEF Inv, TypeOK
    <3>3. Cardinality(B) = nextToSend - Start(cur)
      BY <2>1, Context, IntervalSize
    <3> HIDE DEF A, B
    <3>4. Cardinality(B) <= Cardinality(A) /\ Cardinality(A) \in Nat
      BY <3>1, <3>2, FS_Subset, FS_CardinalityType
    <3>5. ~(AcksInFlight > 0)
      BY <1>7 DEF CanGoOn
    <3> QED
      BY <2>1, <3>3, <3>4, <3>5, Counts DEF AcksInFlight, A
  <2>5. InFlight = 0 /\ InFlight < Window
    BY <2>1, <2>4, Counts DEF InFlight
  <2>6. At(cur, {"net"}) = {}
    BY <1>7, <2>5 DEF CanGoOn
  <2>7. At(cur, {"sealing"}) = {}
    BY <1>7, <2>6, EmptyCount DEF CanGoOn
  <2>8. prodPc = "stopped"
    BY <1>7, <2>7, EmptyCount DEF CanGoOn, Inv, TypeOK, SenderOK
  <2>9. nextToSend = prod
    <3> SUFFICES ASSUME nextToSend < prod PROVE FALSE
      BY <2>1, Context
    <3>1. nextToSend \in Start(cur)..(prod - 1) /\ nextToSend \in ChunksOf(cur)
          /\ nextToSend \in Indices
      BY <2>1, Context
    <3>2. stage[cur][nextToSend] \notin Sent
      BY <2>1, <3>1, Context
    <3>3. stage[cur][nextToSend] # "todo" /\ stage[cur][nextToSend] # "buffered"
      BY <1>7, <2>1, <3>1 DEF Paced, Filled
    <3>4. stage[cur][nextToSend] \notin {"sealing", "net"}
      BY <2>6, <2>7, <3>1 DEF At
    <3> QED
      BY <1>1, <3>1, <3>2, <3>3, <3>4 DEF Inv, TypeOK, ChunksOK, Sent
  <2>10. At(cur, {"sealing", "net", "buffered"}) = {}
    <3> SUFFICES ASSUME NEW i \in At(cur, {"sealing", "net", "buffered"}) PROVE FALSE
      OBVIOUS
    <3>1. i \in ChunksOf(cur) /\ stage[cur][i] \in {"sealing", "net", "buffered"}
      BY DEF At
    <3>2. i \in Start(cur)..(nextToSend - 1)
      BY <2>1, <2>9, <3>1, Context
    <3> QED
      BY <2>3, <3>1, <3>2
  <2>11. ~paused
    BY <1>7, <2>5, <2>8, <2>10 DEF Overlooked
  <2>12. prod = Total(cur)
    BY <1>7, <2>1, <2>8, <2>11 DEF Paced, Counted
  <2> QED
    BY <1>7, <2>1, <2>4, <2>9, <2>12 DEF Paced, Counted
<1> QED
  BY <1>3, <1>4, <1>6, <1>7 DEF Inv, TypeOK, SenderOK, Running
-----------------------------------------------------------------------------

LEMMA InitPaced == Init => Paced
  BY DEF Init, Paced, Begun, Filled, Counted, Answered, InTurn, Running

\* The command has ended, handlers and chunks are as they were.
LEMMA LeavePaced ==
  ASSUME Paced, sPc' \notin Running, sPc' # "accept", UNCHANGED <<cur, meta, stage, rPc, verdict>>
  PROVE  Paced'
  BY DEF Paced, Begun, Filled, Counted, Answered, InTurn

LEMMA OverPaced ==
  ASSUME sPc' \notin Running, sPc' # "accept", cur' > 0 => rPc'[cur'] # "none"
  PROVE  Paced'
  BY DEF Paced, Begun, Filled, Counted, Answered, InTurn

LEMMA AckedKept ==
  ASSUME SenderOK, cur \in Sessions, UNCHANGED <<cur, meta>>,
         \A j \in Indices : stage'[cur][j] = "acked" <=> stage[cur][j] = "acked"
  PROVE  /\ At(cur, {"acked"})' = At(cur, {"acked"}) /\ AllAcked' = AllAcked
         /\ Start(cur)' = Start(cur) /\ Total(cur)' = Total(cur)
<1>1. Start(cur)' = Start(cur) /\ Total(cur)' = Total(cur) /\ ChunksOf(cur)' = ChunksOf(cur)
  BY DEF Start, Total, ChunksOf
<1>2. ChunksOf(cur) \subseteq Indices /\ \A i \in Start(cur)..(Total(cur) - 1) : i \in Indices
  BY SessionChunks DEF ChunksOf
<1> QED
  BY <1>1, <1>2 DEF At, AllAcked

\* A step that acknowledges nothing and gives no verdict.
LEMMA AnswerKept ==
  ASSUME Inv, Paced, cur > 0, sPc' # "accept", sPc' \in Running => sPc \in Running,
         UNCHANGED <<cur, meta>>, verdict'[cur] = verdict[cur], rPc'[cur] # "none",
         \A j \in Indices : stage'[cur][j] = "acked" <=> stage[cur][j] = "acked"
  PROVE  /\ Begun' /\ Answered' /\ InTurn'
         /\ At(cur, {"acked"})' = At(cur, {"acked"})
         /\ Start(cur)' = Start(cur) /\ Total(cur)' = Total(cur)
<1>1. SenderOK /\ cur \in Sessions
  BY CurrentSession DEF Inv, TypeOK
<1>2. /\ At(cur, {"acked"})' = At(cur, {"acked"}) /\ AllAcked' = AllAcked
      /\ Start(cur)' = Start(cur) /\ Total(cur)' = Total(cur)
  BY <1>1, AckedKept
<1>3. Begun'
  BY DEF Begun
<1>4. Answered'
  BY <1>2 DEF Paced, Answered
<1>5. InTurn'
  <2>1. \A i \in Indices : 0..i \subseteq Indices
    BY DEF Indices, Larger
  <2> QED
    BY <2>1 DEF Paced, InTurn
<1> QED
  BY <1>2, <1>3, <1>4, <1>5

LEMMA ReceiveAcceptPaced == Inv /\ Paced /\ ReceiveAccept => Paced'
<1> SUFFICES ASSUME Inv, Paced, ReceiveAccept PROVE Paced'
  OBVIOUS
<1>1. /\ cur \in Sessions /\ cur > 0 /\ \A i \in Indices : stage[cur][i] = "todo"
      /\ sPc = "accept" /\ verdict[cur] = "none"
  BY SomeCommand DEF ReceiveAccept, Inv, Windowed, Blank, Paced, Begun
<1>2. /\ Start(cur) \in Nat /\ Total(cur) \in Nat /\ Start(cur) < Total(cur)
      /\ ChunksOf(cur) \subseteq Indices /\ Start(cur) \in Indices
  BY <1>1, SessionChunks DEF Inv, TypeOK, ChunksOf
<1>3. /\ sPc' = "select" /\ prodPc' = "run" /\ prod' = Start(cur) /\ nextToSend' = Start(cur)
      /\ nextToAck' = Start(cur) /\ UNCHANGED <<cur, meta, stage, rPc, verdict>>
      /\ Start(cur)' = Start(cur) /\ Total(cur)' = Total(cur)
  BY DEF ReceiveAccept, chunkVars, handlerVars, Start, Total
<1>4. Begun' /\ InTurn'
  BY <1>1, <1>3 DEF Paced, Begun, InTurn
<1>5. Filled'
  <2>1. \A i \in Start(cur)..(Start(cur) - 1) : FALSE
    BY <1>2
  <2>2. stage'[cur'][nextToSend'] # "buffered"
    BY <1>1, <1>2, <1>3
  <2> QED
    BY <1>3, <2>1, <2>2 DEF Filled
<1>6. Counted'
  <2>1. At(cur, {"acked"})' = {}
    BY <1>1, <1>2, <1>3 DEF At, ChunksOf
  <2>2. AcksInFlight' = 0
    BY <1>2, <1>3, <2>1, EmptyCount DEF AcksInFlight
  <2> QED
    BY <1>2, <1>3, <2>2 DEF Counted
<1>7. Answered'
  <2>1. ~AllAcked'
    BY <1>1, <1>2, <1>3 DEF AllAcked
  <2> QED
    BY <1>1, <1>3, <2>1 DEF Answered
<1> QED
  BY <1>4, <1>5, <1>6, <1>7 DEF Paced

LEMMA TakeAckPaced == Inv /\ Paced /\ TakeAck => Paced'
<1> SUFFICES ASSUME Inv, Paced, TakeAck PROVE Paced'
  OBVIOUS
<1>1. /\ UNCHANGED <<cur, meta, stage, rPc, verdict>> /\ sPc = "select" /\ AcksInFlight > 0
      /\ sPc \in Running /\ rPc[cur] # "none" /\ cur > 0
  BY SomeCommand DEF TakeAck, chunkVars, handlerVars, Running, Paced, Begun
<1>2. CASE Leave("paused")
  BY <1>1, <1>2, LeavePaced DEF Leave, Running
<1>3. CASE ~Leave("paused")
  <2>1. /\ nextToAck' = nextToAck + 1
        /\ sPc' = IF nextToAck' = Total(cur) THEN "verify" ELSE "select"
        /\ UNCHANGED <<paused, err, prod, prodPc, nextToSend>>
    BY <1>3 DEF TakeAck
  <2>2. /\ Begun' /\ Answered' /\ InTurn' /\ At(cur, {"acked"})' = At(cur, {"acked"})
        /\ Start(cur)' = Start(cur) /\ Total(cur)' = Total(cur)
    BY <1>1, <2>1, AnswerKept
  <2>3. Filled'
    BY <1>1, <2>1, <2>2 DEF Paced, Filled
  <2>4. AcksInFlight' >= 0
    <3>1. AcksInFlight' = AcksInFlight - 1 /\ AcksInFlight \in Int
      <4>1. Cardinality(At(cur, {"acked"})) \in Int
        BY <1>1, AtFinite, Context DEF Inv, TypeOK
      <4>2. AcksInFlight = Cardinality(At(cur, {"acked"})) - (nextToAck - Start(cur))
        BY DEF AcksInFlight
      <4>3. AcksInFlight' = Cardinality(At(cur, {"acked"})) - ((nextToAck + 1) - Start(cur))
        BY <2>1, <2>2 DEF AcksInFlight
      <4>4. nextToAck \in Nat /\ Start(cur) \in Nat
        BY <1>1, Context
      <4> QED
        BY <4>1, <4>2, <4>3, <4>4
    <3> QED
      BY <1>1, <3>1
  <2>5. Counted'
    BY <1>1, <2>1, <2>2, <2>4 DEF Paced, Counted
  <2> QED
    BY <2>2, <2>3, <2>5 DEF Paced
<1> QED
  BY <1>2, <1>3

\* The reading task ends or fails, the user pauses, the source is edited, the
\* connection breaks: only why the reading task stopped is at issue.
LEMMA AsidePaced ==
  ASSUME Inv, Paced, \/ ProducerEnds \/ PrepareFails \/ CtrlC \/ EditSource
                     \/ \E s \in Sessions : Break(s)
  PROVE  Paced'
<1>1. UNCHANGED <<cur, sPc, prod, nextToSend, nextToAck, meta, stage, rPc, verdict>>
  BY DEF ProducerEnds, PrepareFails, CtrlC, EditSource, Break, senderVars, procVars, chunkVars,
         handlerVars
<1>2. prodPc' = "stopped" => \/ err'
                            \/ paused'
                            \/ prod = Total(cur)
                            \/ (prodPc = "stopped" /\ (paused => paused') /\ (err => err'))
  BY DEF ProducerEnds, PrepareFails, CtrlC, EditSource, Break, senderVars, procVars
<1>3. Start(cur)' = Start(cur) /\ Total(cur)' = Total(cur) /\ AcksInFlight' = AcksInFlight
  BY <1>1 DEF Start, Total, AcksInFlight, At, ChunksOf
<1>4. Begun' /\ Filled' /\ Answered' /\ InTurn'
  BY <1>1, <1>3 DEF Paced, Begun, Filled, Answered, AllAcked, InTurn
<1>5. Counted'
  BY <1>1, <1>2, <1>3 DEF Paced, Counted
<1> QED
  BY <1>4, <1>5 DEF Paced

\* A chunk on its way to the wire.
LEMMA MovePaced ==
  ASSUME Inv, Paced, sPc \in Running, NEW i \in Indices, stage[cur][i] \in Unsent,
         NEW x \in {"sealing", "net", "buffered", "wire"}, stage' = [stage EXCEPT ![cur][i] = x],
         sPc' # "accept", UNCHANGED <<cur, meta, handlerVars>>
  PROVE  /\ Begun' /\ Answered' /\ InTurn'
         /\ At(cur, {"acked"})' = At(cur, {"acked"})
         /\ Start(cur)' = Start(cur) /\ Total(cur)' = Total(cur)
         /\ stage'[cur][i] = x /\ \A j \in Indices : j # i => stage'[cur][j] = stage[cur][j]
<1>1. cur > 0 /\ cur \in Sessions
  BY Context
<1>2. stage'[cur][i] = x /\ \A j \in Indices : j # i => stage'[cur][j] = stage[cur][j]
  BY <1>1, StageAt DEF Inv, TypeOK
<1>3. \A j \in Indices : stage'[cur][j] = "acked" <=> stage[cur][j] = "acked"
  BY <1>2 DEF Unsent
<1>4. rPc'[cur] # "none" /\ UNCHANGED verdict
  BY <1>1 DEF handlerVars, Paced, Begun
<1> QED
  BY <1>1, <1>2, <1>3, <1>4, AnswerKept

LEMMA PreparePaced == Inv /\ Paced /\ Prepare => Paced'
<1> SUFFICES ASSUME Inv, Paced, Prepare PROVE Paced'
  OBVIOUS
<1>1. /\ sPc \in Running /\ prod' = prod + 1 /\ stage' = [stage EXCEPT ![cur][prod] = "sealing"]
      /\ prodPc = "run" /\ prod < Total(cur)
      /\ UNCHANGED <<cur, sPc, paused, err, prodPc, nextToSend, nextToAck, meta, handlerVars>>
  BY DEF Prepare, AtLoopTop
<1>2. /\ prod \in Indices /\ prod \in Nat /\ nextToSend \in Nat /\ nextToSend <= prod
      /\ Start(cur) \in Nat /\ nextToSend \in Indices /\ Total(cur) \in Nat
      /\ \A i \in Start(cur)..(Total(cur) - 1) : i \in Indices
  <2>1. \A i \in Start(cur)..(Total(cur) - 1) : i \in Indices
    BY <1>1, Context
  <2> QED
    BY <1>1, <2>1, Counts
<1>3. stage[cur][prod] = "todo"
  <2>1. stage[cur][prod] # "todo" => prod \in Start(cur)..(prod - 1)
    BY <1>1, <1>2, Started
  <2> QED
    BY <1>2, <2>1
<1>4. /\ Begun' /\ Answered' /\ InTurn'
      /\ At(cur, {"acked"})' = At(cur, {"acked"})
      /\ Start(cur)' = Start(cur) /\ Total(cur)' = Total(cur)
      /\ stage'[cur][prod] = "sealing"
      /\ \A j \in Indices : j # prod => stage'[cur][j] = stage[cur][j]
  BY <1>1, <1>2, <1>3, MovePaced DEF Unsent, Running
<1>5. Filled'
  <2>1. ASSUME NEW i \in Start(cur)..prod PROVE stage'[cur][i] # "todo"
    <3>1. i = prod \/ i \in Start(cur)..(prod - 1)
      BY <1>2
    <3>2. i \in Indices
      BY <1>1, <1>2, <3>1, Ranges
    <3> QED
      BY <1>1, <1>4, <3>1, <3>2 DEF Paced, Filled
  <2>2. ASSUME NEW i \in Start(cur)..(nextToSend - 1) PROVE stage'[cur][i] \in Sent
    <3>1. i \in Start(cur)..(Total(cur) - 1) /\ i # prod
      BY <1>1, <1>2
    <3>2. i \in Indices
      BY <1>2, <3>1
    <3> QED
      BY <1>1, <1>4, <3>1, <3>2 DEF Paced, Filled
  <2>3. sPc = "select" => stage'[cur][nextToSend] # "buffered"
    <3>1. CASE nextToSend = prod
      BY <1>4, <3>1
    <3>2. CASE nextToSend # prod
      BY <1>1, <1>2, <1>4, <3>2 DEF Paced, Filled
    <3> QED
      BY <3>1, <3>2
  <2>4. prod' - 1 = prod
    BY <1>1, <1>2
  <2> QED
    BY <1>1, <1>4, <2>1, <2>2, <2>3, <2>4 DEF Filled
<1>6. Counted'
  <2>1. AcksInFlight' = AcksInFlight
    BY <1>1, <1>4 DEF AcksInFlight
  <2> QED
    BY <1>1, <1>4, <2>1 DEF Paced, Counted
<1> QED
  BY <1>4, <1>5, <1>6 DEF Paced

LEMMA SealPaced ==
  ASSUME Inv, Paced, NEW i \in Indices, Seal(i)
  PROVE  Paced'
<1>1. /\ sPc \in Running /\ stage' = [stage EXCEPT ![cur][i] = "net"] /\ stage[cur][i] = "sealing"
      /\ UNCHANGED <<cur, sPc, paused, err, prod, prodPc, nextToSend, nextToAck, meta, handlerVars>>
  BY DEF Seal, senderVars, procVars
<1>2. /\ Begun' /\ Answered' /\ InTurn'
      /\ At(cur, {"acked"})' = At(cur, {"acked"})
      /\ Start(cur)' = Start(cur) /\ Total(cur)' = Total(cur)
      /\ stage'[cur][i] = "net"
      /\ \A j \in Indices : j # i => stage'[cur][j] = stage[cur][j]
  BY <1>1, MovePaced DEF Unsent, Running
<1>3. Filled'
  <2>1. /\ nextToSend \in Indices /\ nextToSend <= prod /\ {prod, nextToSend} \subseteq Nat
        /\ \A j \in Start(cur)..(prod - 1) : j \in Indices
        /\ \A j \in Start(cur)..(nextToSend - 1) : j \in Indices
    BY <1>1, Context, Ranges
  <2>2. \A j \in Start(cur)..(prod - 1) : stage'[cur][j] # "todo"
    BY <1>1, <1>2, <2>1 DEF Paced, Filled
  <2>3. \A j \in Start(cur)..(nextToSend - 1) : stage'[cur][j] \in Sent
    BY <1>1, <1>2, <2>1 DEF Paced, Filled, Sent
  <2>4. sPc = "select" => stage'[cur][nextToSend] # "buffered"
    BY <1>1, <1>2, <2>1 DEF Paced, Filled
  <2> QED
    BY <1>1, <1>2, <2>2, <2>3, <2>4 DEF Filled
<1>4. Counted'
  <2>1. AcksInFlight' = AcksInFlight
    BY <1>1, <1>2 DEF AcksInFlight
  <2> QED
    BY <1>1, <1>2, <2>1 DEF Paced, Counted
<1> QED
  BY <1>2, <1>3, <1>4 DEF Paced

\* The main loop takes or sends a frame and looks for the next one.
LEMMA LoopPaced ==
  ASSUME Inv, Paced, sPc \in {"select", "send"}, NEW i \in Indices, stage[cur][i] \in Unsent,
         NEW x \in {"buffered", "wire"}, stage' = [stage EXCEPT ![cur][i] = x],
         NEW next \in {nextToSend, nextToSend + 1}, AfterFrame(next, stage'[cur]),
         i < nextToSend => FALSE, next = nextToSend + 1 => i = nextToSend /\ x = "wire",
         UNCHANGED <<cur, meta, handlerVars>>
  PROVE  Paced'
<1>1. CASE Leave("paused")
  <2>1. sPc' = "done" /\ UNCHANGED <<rPc, verdict>> /\ cur > 0 /\ rPc[cur] # "none" /\ sPc \in Running
    BY <1>1, Context DEF Leave, handlerVars, Running, Paced, Begun
  <2>2. Begun' /\ Answered' /\ InTurn'
    BY <2>1, MovePaced DEF Running
  <2> QED
    BY <2>1, <2>2 DEF Paced, Filled, Counted, Running
<1>2. CASE ~Leave("paused")
  <2>1. /\ sPc' = IF stage'[cur][next] = "buffered" THEN "send" ELSE "select"
        /\ nextToSend' = next /\ sPc \in Running
        /\ UNCHANGED <<paused, err, prod, prodPc, nextToAck>>
    BY <1>2 DEF AfterFrame, Running
  <2>2. /\ Begun' /\ Answered' /\ InTurn'
        /\ At(cur, {"acked"})' = At(cur, {"acked"})
        /\ Start(cur)' = Start(cur) /\ Total(cur)' = Total(cur)
        /\ stage'[cur][i] = x
        /\ \A j \in Indices : j # i => stage'[cur][j] = stage[cur][j]
    BY <2>1, MovePaced DEF Running
  <2>3. Filled'
    <3>1. /\ {prod, nextToSend} \subseteq Nat /\ Start(cur) \in Nat /\ i \in Nat
          /\ \A j \in Start(cur)..(prod - 1) : j \in Indices
          /\ \A j \in Start(cur)..(nextToSend - 1) : j \in Indices
      <4>1. i \in Nat
        BY DEF Indices
      <4>2. {prod, nextToSend} \subseteq Nat /\ Start(cur) \in Nat
        BY <2>1, Context
      <4> QED
        BY <2>1, <4>1, <4>2, Ranges
    <3>2. \A j \in Start(cur)..(prod - 1) : stage'[cur][j] # "todo"
      BY <2>1, <2>2, <3>1 DEF Paced, Filled
    <3>3. ASSUME NEW j \in Start(cur)..(next - 1) PROVE stage'[cur][j] \in Sent
      <4>1. CASE j < nextToSend
        <5>1. j \in Start(cur)..(nextToSend - 1) /\ j # i
          BY <3>1, <4>1
        <5> QED
          BY <2>1, <2>2, <3>1, <5>1 DEF Paced, Filled
      <4>2. CASE ~(j < nextToSend)
        <5>1. next = nextToSend + 1 /\ j = nextToSend
          BY <3>1, <4>2
        <5> QED
          BY <2>2, <5>1 DEF Sent
      <4> QED
        BY <4>1, <4>2
    <3> QED
      BY <2>1, <2>2, <3>2, <3>3 DEF Filled
  <2>4. Counted'
    <3>1. AcksInFlight' = AcksInFlight
      BY <2>1, <2>2 DEF AcksInFlight
    <3>2. nextToAck # Total(cur) /\ sPc' # "verify"
      BY <2>1 DEF Paced, Counted
    <3> QED
      BY <2>1, <2>2, <3>1, <3>2 DEF Paced, Counted
  <2> QED
    BY <2>2, <2>3, <2>4 DEF Paced
<1> QED
  BY <1>1, <1>2

LEMMA TakeFramePaced ==
  ASSUME Inv, Paced, NEW i \in Indices, TakeFrame(i)
  PROVE  Paced'
<1>1. /\ sPc = "select" /\ stage[cur][i] = "net" /\ stage' = [stage EXCEPT ![cur][i] = "buffered"]
      /\ AfterFrame(nextToSend, stage'[cur]) /\ UNCHANGED <<cur, meta, handlerVars>>
      /\ sPc \in Running
  BY DEF TakeFrame, Running
<1>2. /\ nextToSend \in Nat /\ i \in Nat /\ i \in Start(cur)..(prod - 1)
      /\ nextToSend = nextToSend + 1 => FALSE
  BY <1>1, Counts, Started
<1>3. i < nextToSend => FALSE
  <2>1. i < nextToSend => i \in Start(cur)..(nextToSend - 1)
    BY <1>1, <1>2, Counts
  <2> QED
    BY <1>1, <2>1 DEF Paced, Filled, Sent
<1> QED
  BY <1>1, <1>2, <1>3, LoopPaced DEF Unsent

LEMMA SendFramePaced == Inv /\ Paced /\ SendFrame => Paced'
<1> SUFFICES ASSUME Inv, Paced, SendFrame PROVE Paced'
  OBVIOUS
<1>1. /\ sPc = "send" /\ stage' = [stage EXCEPT ![cur][nextToSend] = "wire"] /\ sPc \in Running
      /\ AfterFrame(nextToSend + 1, stage'[cur]) /\ UNCHANGED <<cur, meta, handlerVars>>
      /\ nextToSend \in Indices /\ stage[cur][nextToSend] = "buffered"
  BY DEF SendFrame, Running, Inv, Windowed
<1>2. nextToSend \in Nat /\ (nextToSend < nextToSend => FALSE)
  BY <1>1, Context
<1> QED
  BY <1>1, <1>2, LoopPaced DEF Unsent

LEMMA SendPaced ==
  ASSUME Inv, Inv', NEW c \in ChunkSizes, NEW packed \in BOOLEAN, NEW kind \in Receivers,
         Send(c, packed, kind)
  PROVE  Paced'
<1>1. /\ sPc' = "accept" /\ cur' = cur + 1 /\ cur \in Nat /\ cur' \in Sessions
      /\ rPc' = [rPc EXCEPT ![cur'] = "metadata"] /\ verdict' = Forget(verdict, "none")
  BY DEF Send, Inv, TypeOK, SenderOK, Sessions
<1>2. rPc'[cur'] = "metadata"
  BY <1>1 DEF Inv, TypeOK, HandlersOK
<1>3. verdict'[cur'] = "none"
  <2>1. verdict[cur + 1] = "none"
    BY <1>1 DEF Inv, Data, Unused
  <2> QED
    BY <1>1, <2>1 DEF Forget
<1>4. \A i \in Indices : stage'[cur'][i] = "todo"
  BY <1>1 DEF Inv, Windowed, Blank
<1> QED
  BY <1>1, <1>2, <1>3, <1>4 DEF Paced, Begun, Filled, Counted, Answered, InTurn, Running

\* A handler at work on chunks that it does not acknowledge to this command.
LEMMA HandlerQuiet ==
  ASSUME Inv, Paced, cur > 0,
         UNCHANGED <<cur, sPc, paused, err, prod, prodPc, nextToSend, nextToAck, meta>>,
         rPc'[cur] # "none", verdict'[cur] = verdict[cur],
         \A j \in Indices : \/ stage'[cur][j] = stage[cur][j]
                            \/ {stage[cur][j], stage'[cur][j]} \subseteq {"wire", "task", "written"}
  PROVE  Paced'
<1>1. CASE sPc \notin Running
  BY <1>1 DEF Paced, Begun, Filled, Counted, Answered, InTurn
<1>2. CASE sPc \in Running
  <2>1. \A j \in Indices : stage'[cur][j] = "acked" <=> stage[cur][j] = "acked"
    OBVIOUS
  <2>2. /\ Begun' /\ Answered' /\ InTurn'
        /\ At(cur, {"acked"})' = At(cur, {"acked"})
        /\ Start(cur)' = Start(cur) /\ Total(cur)' = Total(cur)
    BY <1>2, <2>1, AnswerKept DEF Running
  <2>3. Filled'
    <3>1. /\ \A j \in Start(cur)..(prod - 1) : stage'[cur][j] # "todo"
          /\ \A j \in Start(cur)..(nextToSend - 1) : stage'[cur][j] \in Sent
      BY <1>2, Ranges DEF Paced, Filled, Sent
    <3>2. sPc = "select" => stage'[cur][nextToSend] # "buffered"
      BY <1>2, Context DEF Paced, Filled
    <3> QED
      BY <2>2, <3>1, <3>2 DEF Filled
  <2>4. Counted'
    <3>1. AcksInFlight' = AcksInFlight
      BY <2>2 DEF AcksInFlight
    <3> QED
      BY <1>2, <2>2, <3>1 DEF Paced, Counted
  <2> QED
    BY <2>2, <2>3, <2>4 DEF Paced
<1> QED
  BY <1>1, <1>2

\* An acknowledgement to the running command, with a verdict if it is the last.
LEMMA AcknowledgedPaced ==
  ASSUME Inv, Paced, sPc \in Running,
         UNCHANGED <<cur, sPc, paused, err, prod, prodPc, nextToSend, nextToAck, meta>>,
         NEW i \in Indices, stage[cur][i] \in {"wire", "written"},
         stage' = [stage EXCEPT ![cur][i] = "acked"],
         rPc'[cur] # "none",
         LET A == At(cur, {"acked"}) \cup {i}
         IN /\ verdict'[cur] # "none" <=> A = Start(cur)..(Total(cur) - 1)
            /\ meta[cur].slow => A = 0..i
  PROVE  Paced'
<1> DEFINE A == At(cur, {"acked"})
<1>1. /\ stage'[cur][i] = "acked" /\ \A j \in Indices : j # i => stage'[cur][j] = stage[cur][j]
      /\ Start(cur)' = Start(cur) /\ Total(cur)' = Total(cur) /\ ChunksOf(cur)' = ChunksOf(cur)
  <2>1. cur \in Sessions /\ ChunksOK
    BY Context DEF Inv, TypeOK
  <2> QED
    BY <2>1, StageAt DEF Start, Total, ChunksOf
<1>2. i \in ChunksOf(cur) /\ ChunksOf(cur) \subseteq Indices
  BY Started
<1>3. At(cur, {"acked"})' = A \cup {i} /\ i \notin A
  BY <1>1, <1>2 DEF At
<1>4. \A j \in Indices : stage'[cur][j] = "acked" <=> j \in A \cup {i}
  <2>1. \A j \in Indices : stage[cur][j] = "acked" <=> j \in A
    BY AckedWithin DEF At
  <2> HIDE DEF A
  <2> QED
    BY <1>1, <2>1
<1>5. Begun'
  BY DEF Begun, Running
<1>6. Filled'
  <2>1. /\ \A j \in Start(cur)..(prod - 1) : stage'[cur][j] # "todo"
        /\ \A j \in Start(cur)..(nextToSend - 1) : stage'[cur][j] \in Sent
    BY <1>1, Ranges DEF Paced, Filled, Sent
  <2>2. sPc = "select" => stage'[cur][nextToSend] # "buffered"
    BY <1>1, Context DEF Paced, Filled
  <2> QED
    BY <1>1, <2>1, <2>2 DEF Filled
<1>7. Counted'
  <2>1. IsFiniteSet(A) /\ Cardinality(A) \in Nat
    BY Context, AtFinite DEF TypeOK
  <2> HIDE DEF A
  <2>2. Cardinality(A \cup {i}) = Cardinality(A) + 1
    BY <1>3, <2>1, FS_AddElement
  <2>3. AcksInFlight = Cardinality(A) - (nextToAck - Start(cur))
    BY DEF AcksInFlight, A
  <2>4. AcksInFlight' = Cardinality(A \cup {i}) - (nextToAck - Start(cur))
    BY <1>1, <1>3 DEF AcksInFlight
  <2>5. AcksInFlight' >= 0
    <3>1. AcksInFlight >= 0
      BY DEF Paced, Counted
    <3>2. nextToAck \in Nat /\ Start(cur) \in Nat
      BY Context
    <3> QED
      BY <2>1, <2>2, <2>3, <2>4, <3>1, <3>2
  <2> QED
    BY <1>1, <2>5 DEF Paced, Counted
<1>8. Answered'
  <2>1. AllAcked' <=> A \cup {i} = Start(cur)..(Total(cur) - 1)
    <3>1. A \cup {i} \subseteq Start(cur)..(Total(cur) - 1)
      BY AckedWithin, Context DEF Cut
    <3>2. AllAcked' <=> \A j \in Start(cur)..(Total(cur) - 1) : stage'[cur][j] = "acked"
      BY <1>1 DEF AllAcked
    <3> HIDE DEF A
    <3> QED
      BY <1>4, <3>1, <3>2, Context
  <2> HIDE DEF A
  <2> QED
    BY <2>1 DEF Answered, A
<1>9. InTurn'
  <2>1. ASSUME meta[cur].slow, NEW k \in Indices, stage'[cur][k] = "acked", NEW j \in 0..k
        PROVE  stage'[cur][j] = "acked"
    <3>1. A \cup {i} = 0..i
      BY <2>1
    <3> HIDE DEF A
    <3>2. k \in Nat /\ k <= i /\ i \in Nat
      BY <1>4, <2>1, <3>1 DEF Indices
    <3>3. j \in 0..i /\ j \in Indices
      BY <3>2 DEF Indices, Larger
    <3> QED
      BY <1>4, <3>1, <3>3
  <2> QED
    BY <2>1 DEF InTurn
<1> QED
  BY <1>5, <1>6, <1>7, <1>8, <1>9 DEF Paced

\* Blank until it has accepted: what a handler acknowledges, it acknowledges to a
\* command that runs, or to one that is over.
LEMMA NothingToAccept ==
  ASSUME Inv, NEW i \in Indices, stage[cur][i] # "todo"
  PROVE  sPc # "accept"
  BY DEF Inv, Windowed, Blank

LEMMA AckChunkPaced ==
  ASSUME Inv, Paced, cur \in Sessions, NEW i \in Indices, AckChunk(cur, i)
  PROVE  Paced'
<1> DEFINE A == At(cur, {"acked"})
<1>1. /\ UNCHANGED <<cur, sPc, paused, err, prod, prodPc, nextToSend, nextToAck, meta>>
      /\ stage[cur][i] = "written" /\ stage' = [stage EXCEPT ![cur][i] = "acked"]
      /\ rPc[cur] = "run" /\ ~meta[cur].slow
  BY DEF AckChunk, senderVars, procVars, AtWork
<1>2. verdict[cur] = "none" /\ cur > 0
  BY <1>1 DEF Inv, Data, Handled, Sessions
<1>3. /\ Start(cur) + Cardinality(A) + 1 < Total(cur) => UNCHANGED <<rPc, verdict>>
      /\ ~(Start(cur) + Cardinality(A) + 1 < Total(cur)) =>
           /\ rPc' = [rPc EXCEPT ![cur] = "done"]
           /\ verdict' = [verdict EXCEPT ![cur] =
                            IF HashValid(cur, stage'[cur]) THEN "complete" ELSE "error"]
  BY DEF AckChunk
<1>4. /\ rPc'[cur] # "none"
      /\ verdict'[cur] # "none" <=> ~(Start(cur) + Cardinality(A) + 1 < Total(cur))
  BY <1>1, <1>2, <1>3 DEF Inv, TypeOK, HandlersOK
<1>5. sPc # "accept" /\ sPc # "idle"
  BY <1>1, <1>2, NothingToAccept DEF Inv, RecordInv, CommandTypes
<1>6. CASE sPc = "done"
  <2>1. sPc' = "done" /\ cur' = cur
    BY <1>1, <1>6
  <2> QED
    BY <1>4, <2>1, OverPaced DEF Running
<1>7. CASE sPc \in Running
  <2>1. A \cup {i} \subseteq Start(cur)..(Total(cur) - 1) /\ i \notin A
    BY <1>1, <1>7, AckedWithin, Context DEF Cut, At
  <2>2. IsFiniteSet(A) /\ Cardinality(A) \in Nat
    BY AtFinite DEF Inv, TypeOK
  <2>3. Cardinality(A \cup {i}) = Cardinality(A) + 1
    BY <2>1, <2>2, FS_AddElement
  <2>4. /\ Cardinality(A \cup {i}) >= Total(cur) - Start(cur)
             <=> A \cup {i} = Start(cur)..(Total(cur) - 1)
    <3> HIDE DEF A
    <3>1. Start(cur) \in Nat /\ Total(cur) \in Nat /\ Start(cur) <= Total(cur)
      BY <1>7, Context
    <3> QED
      BY <2>1, <3>1, FullInterval
  <2>5. verdict'[cur] # "none" <=> A \cup {i} = Start(cur)..(Total(cur) - 1)
    <3> HIDE DEF A
    <3>1. Start(cur) \in Nat /\ Total(cur) \in Nat
      BY <1>7, Context
    <3> QED
      BY <1>4, <2>2, <2>3, <2>4, <3>1
  <2> QED
    BY <1>1, <1>4, <1>7, <2>5, AcknowledgedPaced
<1> QED
  BY <1>5, <1>6, <1>7 DEF Inv, TypeOK, SenderOK, Running

\* Chunks 0 to i - 1 are acknowledged when the slow receiver takes chunk i.
LEMMA SlowReceivePaced ==
  ASSUME Inv, Paced, cur \in Sessions, SlowReceive(cur)
  PROVE  Paced'
<1> DEFINE A == At(cur, {"acked"})
<1>1. PICK i : i = Cardinality(A)
  OBVIOUS
<1>2. /\ UNCHANGED <<cur, sPc, paused, err, prod, prodPc, nextToSend, nextToAck, meta>>
      /\ rPc[cur] = "run" /\ meta[cur].slow /\ At(cur, {"wire"}) # {}
      /\ i = Earliest(At(cur, {"wire"})) /\ stage' = [stage EXCEPT ![cur][i] = "acked"]
      /\ i + 1 < Total(cur) => UNCHANGED <<verdict, rPc>>
      /\ ~(i + 1 < Total(cur)) =>
           /\ verdict' = [verdict EXCEPT ![cur] =
                            IF Verifies(cur, disk') THEN "complete" ELSE "error"]
           /\ rPc' = [rPc EXCEPT ![cur] = "done"]
  BY <1>1 DEF SlowReceive, senderVars, procVars
<1>3. i \in Indices /\ i \in ChunksOf(cur) /\ stage[cur][i] = "wire" /\ i \in Nat
  <2>1. i \in Indices /\ i \in ChunksOf(cur) /\ stage[cur][i] = "wire"
    BY <1>2, EarliestAt DEF Inv, TypeOK
  <2> QED
    BY <2>1 DEF Indices
<1>4. verdict[cur] = "none" /\ cur > 0
  BY <1>2 DEF Inv, Data, Handled, Sessions
<1>5. rPc'[cur] # "none" /\ (verdict'[cur] # "none" <=> ~(i + 1 < Total(cur)))
  BY <1>2, <1>4 DEF Inv, TypeOK, HandlersOK
<1>6. sPc # "accept" /\ sPc # "idle"
  BY <1>3, <1>4, NothingToAccept DEF Inv, RecordInv, CommandTypes
<1>7. CASE sPc = "done"
  <2>1. sPc' = "done" /\ cur' = cur
    BY <1>2, <1>7
  <2> QED
    BY <1>5, <2>1, OverPaced DEF Running
<1>8. CASE sPc \in Running
  <2>1. A \subseteq 0..(i - 1)
    <3>1. ASSUME NEW a \in A PROVE a \in 0..(i - 1)
      <4>1. a \in Indices /\ stage[cur][a] = "acked" /\ a \in Nat
        BY <1>8, Context DEF At, Indices
      <4>2. \A j \in 0..a : stage[cur][j] = "acked"
        BY <1>2, <1>8, <4>1 DEF Paced, InTurn
      <4>3. i \notin 0..a
        BY <1>3, <4>2
      <4> QED
        BY <1>3, <4>1, <4>3
    <3> QED
      BY <3>1
  <2>2. A = 0..(i - 1)
    <3> HIDE DEF A
    <3>1. 0 \in Nat /\ 0 <= i /\ Cardinality(A) >= i - 0
      BY <1>1, <1>3
    <3> QED
      BY <1>3, <2>1, <3>1, FullInterval
  <2>3. A \cup {i} = 0..i
    BY <1>3, <2>2
  <2>4. Start(cur) = 0
    <3>1. 0 \in A \cup {i}
      BY <1>3, <2>3
    <3>2. 0 \in Start(cur)..(Total(cur) - 1)
      BY <1>3, <1>8, <3>1, AckedWithin, Context DEF Cut
    <3> QED
      BY <1>8, <3>2, Context
  <2>5. verdict'[cur] # "none" <=> A \cup {i} = Start(cur)..(Total(cur) - 1)
    <3> HIDE DEF A
    <3>1. Total(cur) \in Nat /\ i \in 0..(Total(cur) - 1)
      BY <1>3, <1>8, Context
    <3>2. i + 1 < Total(cur) => 0..i # 0..(Total(cur) - 1)
      <4>1. Total(cur) - 1 \in 0..(Total(cur) - 1)
        BY <1>3, <3>1
      <4> QED
        BY <1>3, <3>1, <4>1
    <3>3. ~(i + 1 < Total(cur)) => i = Total(cur) - 1
      BY <1>3, <3>1
    <3> QED
      BY <1>5, <2>3, <2>4, <3>2, <3>3
  <2> QED
    BY <1>2, <1>3, <1>5, <1>8, <2>3, <2>5, AcknowledgedPaced
<1> QED
  BY <1>6, <1>7, <1>8 DEF Inv, TypeOK, SenderOK, Running

LEMMA HandlerPaced ==
  ASSUME Inv, Paced, NEW s \in Sessions, HandlerStep(s)
  PROVE  Paced'
<1>1. UNCHANGED <<cur, sPc, paused, err, prod, prodPc, nextToSend, nextToAck, meta>>
  BY HandlerKeepsSender DEF senderVars, procVars
<1>2. CASE cur = 0
  <2>1. sPc' \notin Running /\ cur' = 0
    BY <1>1, <1>2 DEF Inv, RecordInv, CommandTypes, Running
  <2> QED
    BY <2>1 DEF Paced, Begun, Filled, Counted, Answered, InTurn
<1>3. CASE cur > 0
  <2>1. cur \in Sessions /\ ChunksOK /\ HandlersOK /\ rPc[cur] # "none"
    BY <1>3, CurrentSession DEF Inv, TypeOK, Paced, Begun
  <2>2. CASE NotOpened(s) \/ HandlerFails(s) \/ SlowFails(s) \/ OpenFile(s) \/ SlowAccept(s)
    <3>1. /\ UNCHANGED <<stage, verdict>>
          /\ rPc' = [rPc EXCEPT ![s] = "done"] \/ rPc' = [rPc EXCEPT ![s] = "run"]
      BY <2>2 DEF NotOpened, HandlerFails, SlowFails, OpenFile, SlowAccept, chunkVars
    <3>2. rPc'[cur] # "none"
      BY <2>1, <3>1 DEF HandlersOK
    <3> QED
      BY <1>1, <1>3, <3>1, <3>2, HandlerQuiet
  <2>3. ASSUME NEW i \in Indices, (Spawn(s) /\ i = Earliest(At(s, {"wire"}))) \/ WriteChunk(s, i)
        PROVE  Paced'
    <3>1. /\ UNCHANGED <<rPc, verdict>> /\ stage[s][i] \in {"wire", "task"}
          /\ \E x \in {"task", "written"} : stage' = [stage EXCEPT ![s][i] = x]
      BY <2>3, EarliestAt DEF Spawn, WriteChunk, handlerVars, Inv, TypeOK
    <3>2. \A j \in Indices :
             \/ stage'[cur][j] = stage[cur][j]
             \/ {stage[cur][j], stage'[cur][j]} \subseteq {"wire", "task", "written"}
      BY <2>1, <3>1, StageSet
    <3> QED
      BY <1>1, <1>3, <2>1, <3>1, <3>2, HandlerQuiet
  <2>4. CASE Spawn(s)
    <3>1. Earliest(At(s, {"wire"})) \in Indices
      BY <2>4, EarliestAt DEF Spawn, Inv, TypeOK
    <3> QED
      BY <2>3, <2>4, <3>1
  <2>5. CASE SlowReceive(s)
    <3>1. s = cur
      BY <2>5 DEF SlowReceive, Inv, Data, Alone
    <3> QED
      BY <2>1, <2>5, <3>1, SlowReceivePaced
  <2>6. ASSUME NEW i \in Indices, AckChunk(s, i)
        PROVE  Paced'
    <3>1. CASE s = cur
      BY <2>1, <2>6, <3>1, AckChunkPaced
    <3>2. CASE s # cur
      <4>1. /\ \A j \in Indices : stage'[cur][j] = stage[cur][j]
            /\ rPc'[cur] = rPc[cur] /\ verdict'[cur] = verdict[cur]
        BY <2>1, <2>6, <3>2 DEF AckChunk, ChunksOK, HandlersOK
      <4> QED
        BY <1>1, <1>3, <2>1, <4>1, HandlerQuiet
    <3> QED
      BY <3>1, <3>2
  <2> QED
    BY <2>2, <2>3, <2>4, <2>5, <2>6 DEF HandlerStep
<1> QED
  BY <1>2, <1>3 DEF Inv, TypeOK, SenderOK

LEMMA PacedStep == Inv /\ Inv' /\ Paced /\ [Next]_vars => Paced'
<1> SUFFICES ASSUME Inv, Inv', Paced, [Next]_vars PROVE Paced'
  OBVIOUS
<1>1. CASE \E c \in ChunkSizes, packed \in BOOLEAN, kind \in Receivers : Send(c, packed, kind)
  BY <1>1, SendPaced
<1>2. CASE NotAccepted \/ SendFails \/ Verified \/ Crash
  <2>1. sPc' = "done" /\ UNCHANGED <<cur, meta, stage, rPc, verdict>>
    BY <1>2 DEF NotAccepted, SendFails, Verified, Crash, Leave, chunkVars, handlerVars
  <2> QED
    BY <2>1, LeavePaced DEF Running
<1>3. CASE ReceiveAccept \/ SendFrame \/ TakeAck \/ \E i \in Indices : TakeFrame(i)
  BY <1>3, ReceiveAcceptPaced, SendFramePaced, TakeAckPaced, TakeFramePaced
<1>4. CASE ProducerStep \/ PrepareFails \/ CtrlC \/ EditSource \/ \E s \in Sessions : Break(s)
  BY <1>4, PreparePaced, AsidePaced DEF ProducerStep
<1>5. CASE SealStep
  BY <1>5, SealPaced DEF SealStep
<1>6. CASE \E s \in Sessions : HandlerStep(s)
  BY <1>6, HandlerPaced
<1>7. CASE UNCHANGED vars
  <2>1. UNCHANGED <<cur, sPc, paused, err, prod, prodPc, nextToSend, nextToAck, meta, stage, rPc, verdict>>
    BY <1>7 DEF vars, senderVars, procVars, chunkVars, handlerVars
  <2> QED
    BY <2>1 DEF Paced, Begun, Filled, Counted, Answered, AllAcked, InTurn, Start, Total,
                AcksInFlight, At, ChunksOf
<1> QED
  BY <1>1, <1>2, <1>3, <1>4, <1>5, <1>6, <1>7 DEF Next, CommandStep

\* Whatever window, channels and number of tasks: a command that runs waits for an
\* answer that has come, or for work that some task of either end can do; the one
\* exception is a Ctrl-C that the main loop overlooks.
THEOREM Unstranded == SafeSpec => []NeverStranded
<1>1. SafeSpec => [](Inv /\ Paced)
  BY InitInvariant, InvStep, InitPaced, PacedStep, PTL DEF SafeSpec
<1> QED
  BY <1>1, PacedNeverStranded, PTL

=============================================================================
