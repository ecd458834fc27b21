---------------------------- MODULE CliPipeline ----------------------------
(***************************************************************************)
(* `p2p send` against `p2p listen` or `p2p slow-receive`, the command-line  *)
(* tool's transfers (p2ptransfer-cli/src/main.rs): chunks are read by one   *)
(* task, encrypted by up to Parallel tasks, put in order and sent in a      *)
(* window by the main loop, decrypted and written by a task each, and       *)
(* acknowledged in the order those tasks end. Sessions follow one another   *)
(* over one stored record; the handler of an earlier session may still be   *)
(* at work when the next one begins.                                        *)
(*                                                                          *)
(* stage[s][i] is how far chunk i of session s has come:                    *)
(*   todo - sealing - net - buffered - wire - task - written - acked        *)
(* (being read and encrypted; in net_rx; in buffered_frames; sent; with its *)
(* receiving task; on disk and hashed; acknowledged). The channels between  *)
(* the stages are the sets of chunks there: net_rx is filled in the order   *)
(* the tasks end, which is free, and the wire in the order of the chunks.   *)
(***************************************************************************)
EXTENDS Chunks, TransferStore, FiniteSets, Sequences

CONSTANTS
  Size,         \* bytes of the file
  ChunkSizes,   \* values of --chunk-size a user may give
  MaxPayload,   \* tcp.rs MAX_PAYLOAD_SIZE
  Overhead,     \* bytes a frame adds to an uncompressed chunk
  Window,       \* cmd_send: 32
  NetCap,       \* cmd_send: 16
  Parallel,     \* cmd_send: 8
  WireCap,      \* frames the connection and the receiver's channel hold
  Receivers,    \* subset of {"listen", "slow"}
  MaxSends,     \* bound: sessions
  MaxFaults     \* bound: what the user, the disks and the network do to them, in all

ASSUME CliAssumption ==
  /\ Size \in Nat /\ ChunkSizes \subseteq Nat /\ MaxPayload \in Nat /\ Overhead \in Nat
  /\ {Window, NetCap, Parallel, WireCap} \subseteq Nat \ {0}
  /\ {MaxSends, MaxFaults} \subseteq Nat
  /\ Receivers \subseteq {"listen", "slow"}

VARIABLES
  \* the send command under way, or the last one
  cur, sPc, paused, err, prod, prodPc, nextToSend, nextToAck, bytes, record,
  outcome,      \* how each session's command ended
  sdb, rdb,     \* the stores of the two machines
  \* per session: what METADATA says, its chunks, its handler, its connection
  meta, stage, seen, conn, rPc, verdict,
  lost,         \* the session's output file holds a write error not yet reported
  clean,        \* no earlier handler was at work that could still spoil its file
  active,       \* the listener's active_transfers
  disk, version,
  faults        \* what befell the sessions so far: Ctrl-C, crash, break, edit, disk

procVars == <<paused, err, prod, prodPc, nextToSend, nextToAck, bytes>>
senderVars == <<cur, sPc, procVars, record, outcome, sdb, meta>>
chunkVars == <<stage, seen>>
handlerVars == <<rPc, verdict, lost, clean, active, rdb, disk>>
worldVars == <<conn, version, faults>>
vars == <<senderVars, chunkVars, handlerVars, worldVars>>

Sessions == 1..MaxSends
Indices == 0..Larger(Size, 1)   \* the chunks, at least one, and the number after the last

-----------------------------------------------------------------------------
(* The file and its chunks. A unit is a position and the version it is of. *)

Source(v) == [p \in 1..Size |-> <<p, v>>]
Hole == <<0, 0>>

Chunk(c, i, v) ==
  SubSeq(Source(v), ChunkOffset(c, i) + 1, ChunkOffset(c, i) + ChunkLength(c, Size, i))

\* write_all at `offset`: what lies between the end of the file and there is zero.
WriteAt(file, offset, data) ==
  [p \in 1..Larger(Len(file), offset + Len(data)) |->
     IF p \in (offset + 1)..(offset + Len(data)) THEN data[p - offset]
     ELSE IF p <= Len(file) THEN file[p] ELSE Hole]

\* set_len
Resized(file, n) == [p \in 1..n |-> IF p <= Len(file) THEN file[p] ELSE Hole]

Total(s) == meta[s].total
Start(s) == StartChunk(meta[s].offset, meta[s].chunk, Total(s))
ChunksOf(s) == 0..(Total(s) - 1)
At(s, stages) == {i \in ChunksOf(s) : stage[s][i] \in stages}
Earliest(S) == CHOOSE i \in S : \A j \in S : i <= j

\* Handlers of both kinds place a chunk by the size in METADATA.
Placed(s, i) == WriteAt(disk, i * meta[s].chunk, Chunk(meta[s].chunk, i, seen[s][i]))

\* receive_message refuses what is larger than a frame may be.
Fits(s, i) ==
  meta[s].packed \/ ChunkLength(meta[s].chunk, Size, i) + Overhead <= MaxPayload

InFlight == nextToSend - nextToAck
AcksInFlight == Cardinality(At(cur, {"acked"})) - (nextToAck - Start(cur))

Running == {"select", "send", "verify"}
SenderGone(s) == s < cur \/ sPc = "done"

\* Mutant of Severed: the end of a connection without an error goes unnoticed.
SeveredByError(s) == conn[s] = "broken"

\* The sender's reader task meets the end of the connection: a break, or a
\* handler that ended without an answer.
Severed(s) == conn[s] = "broken" \/ (rPc[s] = "done" /\ verdict[s] = "none")

NoMeta == [chunk |-> 1, total |-> 1, offset |-> 0, version |-> 1, packed |-> FALSE, slow |-> FALSE]

Init ==
  /\ cur = 0 /\ sPc = "idle" /\ paused = FALSE /\ err = FALSE
  /\ prod = 0 /\ prodPc = "stopped" /\ nextToSend = 0 /\ nextToAck = 0 /\ bytes = 0 /\ record = 0
  /\ outcome = [s \in Sessions |-> "none"]
  /\ sdb = EmptyStore /\ rdb = EmptyStore
  /\ meta = [s \in Sessions |-> NoMeta]
  /\ stage = [s \in Sessions |-> [i \in Indices |-> "todo"]]
  /\ seen = [s \in Sessions |-> [i \in Indices |-> 0]]
  /\ conn = [s \in Sessions |-> "open"]
  /\ rPc = [s \in Sessions |-> "none"]
  /\ verdict = [s \in Sessions |-> "none"]
  /\ lost = [s \in Sessions |-> FALSE] /\ clean = [s \in Sessions |-> TRUE]
  /\ active = {}
  \* no file of that name, or a longer one
  /\ disk \in {<<>>, [p \in 1..(Size + 1) |-> Hole]}
  /\ version = 1 /\ faults = 0

-----------------------------------------------------------------------------
Fault == faults < MaxFaults /\ faults' = faults + 1

(* The send command *)

\* What is over is forgotten: nothing reads it again.
Forget(f, default) ==
  [r \in Sessions |-> IF r <= cur /\ rPc[r] = "done" THEN default ELSE f[r]]

\* create_metadata: the checksum is that of the version which is there now.
Metadata(c, packed, kind, offset) ==
  [chunk |-> MetadataChunk(c), total |-> TotalChunks(c, Size), offset |-> offset,
   version |-> version, packed |-> packed, slow |-> kind = "slow"]

\* Connect, exchange keys, describe the file, take up the open record of this
\* file or create one, send METADATA. A command that fails before leaves nothing.
Send(c, packed, kind) ==
  LET s == cur + 1
      open == OpenTransfers(sdb)
      id == IF open = {} THEN s ELSE CHOOSE r \in open : TRUE
      db == IF open = {} THEN CreateTransfer(sdb, s, Size) ELSE sdb
  IN /\ sPc \in {"idle", "done"} /\ s <= MaxSends
     \* one process listens at the port: the slow receiver serves one connection
     /\ \A r \in 1..cur : (kind = "slow" \/ meta[r].slow) => rPc[r] \in {"none", "done"}
     /\ cur' = s /\ sPc' = "accept" /\ record' = id /\ sdb' = db
     /\ meta' = [Forget(meta, NoMeta) EXCEPT ![s] = Metadata(c, packed, kind, db[id].bytes)]
     /\ rPc' = [rPc EXCEPT ![s] = "metadata"]
     /\ outcome' = Forget(outcome, "none")
     /\ stage' = [r \in Sessions |-> [i \in Indices |->
           IF rPc[r] = "done" \/ stage[r][i] \in {"sealing", "net", "buffered"} THEN "todo"
           ELSE stage[r][i]]]
     /\ seen' = Forget(seen, [i \in Indices |-> 0])
     /\ conn' = Forget(conn, "open") /\ verdict' = Forget(verdict, "none")
     /\ lost' = Forget(lost, FALSE) /\ clean' = Forget(clean, TRUE)
     /\ UNCHANGED <<procVars, active, rdb, disk, version, faults>>

ReceiveAccept ==
  /\ sPc = "accept" /\ rPc[cur] = "run" /\ conn[cur] = "open"
  /\ sPc' = "select" /\ paused' = FALSE /\ err' = FALSE /\ prodPc' = "run"
  /\ prod' = Start(cur) /\ nextToSend' = Start(cur) /\ nextToAck' = Start(cur)
  /\ bytes' = meta[cur].offset
  /\ UNCHANGED <<cur, record, outcome, sdb, meta, chunkVars, handlerVars, worldVars>>

\* The command ends; its tasks end with the process.
Leave(how) ==
  /\ sPc' = "done" /\ outcome' = [outcome EXCEPT ![cur] = how]
  /\ paused' = FALSE /\ err' = FALSE /\ prod' = 0 /\ prodPc' = "stopped"
  /\ nextToSend' = 0 /\ nextToAck' = 0 /\ bytes' = 0

\* Without ACCEPT the command ends before it touches the record.
NotAccepted ==
  /\ sPc = "accept" /\ Severed(cur)
  /\ Leave("refused")
  /\ UNCHANGED <<cur, record, sdb, meta, chunkVars, handlerVars, worldVars>>

\* The reading task: no new chunk once paused, nor while Parallel are at work.
AtLoopTop == prodPc = "run" /\ sPc \in Running /\ Cardinality(At(cur, {"sealing"})) < Parallel

\* Mutant of Prepare: one chunk too many.
PrepareInclusive ==
  /\ AtLoopTop /\ ~paused /\ prod <= Total(cur)
  /\ prod' = prod + 1
  /\ stage' = [stage EXCEPT ![cur][prod] = "sealing"]
  /\ seen' = [seen EXCEPT ![cur][prod] = version]
  /\ UNCHANGED <<cur, sPc, paused, err, prodPc, nextToSend, nextToAck, bytes, record, outcome, sdb,
                 meta, handlerVars, worldVars>>

Prepare ==
  /\ AtLoopTop /\ ~paused /\ prod < Total(cur)
  /\ prod' = prod + 1
  /\ stage' = [stage EXCEPT ![cur][prod] = "sealing"]
  /\ seen' = [seen EXCEPT ![cur][prod] = version]
  /\ UNCHANGED <<cur, sPc, paused, err, prodPc, nextToSend, nextToAck, bytes, record, outcome, sdb,
                 meta, handlerVars, worldVars>>

PrepareFails ==
  /\ Fault
  /\ AtLoopTop /\ ~paused /\ prod < Total(cur)
  /\ err' = TRUE /\ prodPc' = "stopped"
  /\ UNCHANGED <<cur, sPc, paused, prod, nextToSend, nextToAck, bytes, record, outcome, sdb, meta,
                 chunkVars, handlerVars, conn, version>>

ProducerEnds ==
  /\ AtLoopTop /\ (paused \/ prod = Total(cur))
  /\ prodPc' = "stopped"
  /\ UNCHANGED <<cur, sPc, paused, err, prod, nextToSend, nextToAck, bytes, record, outcome, sdb,
                 meta, chunkVars, handlerVars, worldVars>>

\* An encrypting task hands its frame over.
Seal(i) ==
  /\ sPc \in Running /\ stage[cur][i] = "sealing"
  /\ Cardinality(At(cur, {"net"})) < NetCap
  /\ stage' = [stage EXCEPT ![cur][i] = "net"]
  /\ UNCHANGED <<senderVars, seen, handlerVars, worldVars>>

\* Mutant of AfterFrame: one frame for each event, the others stay buffered.
AfterOneFrame(next, stages) ==
  IF paused THEN Leave("paused")
  ELSE /\ sPc' = IF stages[next] = "buffered" /\ next = nextToSend THEN "send" ELSE "select"
       /\ nextToSend' = next
       /\ UNCHANGED <<outcome, paused, err, prod, prodPc, nextToAck, bytes>>

\* The main loop sends all the frames that are next in order, then looks at the
\* flag; only an event makes it come round.
AfterFrame(next, stages) ==
  IF paused /\ stages[next] # "buffered" THEN Leave("paused")
  ELSE /\ sPc' = IF stages[next] = "buffered" THEN "send" ELSE "select"
       /\ nextToSend' = next
       /\ UNCHANGED <<outcome, paused, err, prod, prodPc, nextToAck, bytes>>

TakeFrame(i) ==
  /\ sPc = "select" /\ stage[cur][i] = "net" /\ InFlight < Window
  /\ stage' = [stage EXCEPT ![cur][i] = "buffered"]
  /\ AfterFrame(nextToSend, stage'[cur])
  /\ UNCHANGED <<cur, record, sdb, meta, seen, handlerVars, worldVars>>

SendFrame ==
  /\ sPc = "send" /\ Cardinality(At(cur, {"wire"})) < WireCap
  /\ stage' = [stage EXCEPT ![cur][nextToSend] = "wire"]
  /\ AfterFrame(nextToSend + 1, stage'[cur])
  /\ UNCHANGED <<cur, record, sdb, meta, seen, handlerVars, worldVars>>

\* fail_transfer and bail: a failed write, a failed task, an error or an end of
\* the connection where an acknowledgement or COMPLETE was awaited.
Failing ==
  \/ sPc = "send" /\ Severed(cur)
  \/ sPc = "select" /\ err
  \/ sPc \in {"select", "verify"} /\ Severed(cur)
  \/ sPc = "verify" /\ verdict[cur] = "error"

SendFails ==
  /\ Failing
  /\ sdb' = FailTransfer(sdb, record)
  /\ Leave("failed")
  /\ UNCHANGED <<cur, record, meta, chunkVars, handlerVars, worldVars>>

\* Acknowledgements are counted, whatever chunk they name. The last one leaves
\* the loop; the flag is looked at once more then.
TakeAck ==
  /\ sPc = "select" /\ AcksInFlight > 0
  /\ LET counted == bytes + CountedLength(meta[cur].chunk, Size, Total(cur), nextToAck)
     IN /\ sdb' = UpdateProgress(sdb, record, counted)
        /\ IF paused THEN Leave("paused")
           ELSE /\ bytes' = counted /\ nextToAck' = nextToAck + 1
                /\ sPc' = IF nextToAck' = Total(cur) THEN "verify" ELSE "select"
                /\ UNCHANGED <<outcome, paused, err, prod, prodPc, nextToSend>>
  /\ UNCHANGED <<cur, record, meta, chunkVars, handlerVars, worldVars>>

Verified ==
  /\ sPc = "verify" /\ verdict[cur] = "complete"
  /\ sdb' = CompleteTransfer(sdb, record)
  /\ Leave("verified")
  /\ UNCHANGED <<cur, record, meta, chunkVars, handlerVars, worldVars>>

-----------------------------------------------------------------------------
(* The listener: ReceiverHandler::run, one handler per connection *)

WireId(s) == <<"wire", s>>   \* the session id in METADATA
OwnId(s) == <<"own", s>>     \* the id create_transfer made up and nobody kept

AtWork(s) == rPc[s] = "run" /\ ~meta[s].slow

OpenFile(s) ==
  /\ rPc[s] = "metadata" /\ ~meta[s].slow /\ conn[s] = "open"
  /\ disk' = Resized(disk, Size)
  /\ rdb' = CreateTransfer(rdb, OwnId(s), Size)
  /\ active' = active \cup {s}
  /\ clean' = [clean EXCEPT ![s] =
                 \A r \in Sessions : rPc[r] = "run" => version = 1 /\ meta[r].chunk <= MaxChunk]
  /\ rPc' = [rPc EXCEPT ![s] = "run"]
  /\ UNCHANGED <<senderVars, chunkVars, verdict, lost, worldVars>>

\* Nothing more will come over the connection.
Hopeless(s) == SenderGone(s) \/ conn[s] = "broken"

\* The file cannot be opened, or METADATA never comes.
NotOpened(s) ==
  /\ rPc[s] = "metadata" /\ (Fault \/ (Hopeless(s) /\ UNCHANGED faults))
  /\ rPc' = [rPc EXCEPT ![s] = "done"]
  /\ UNCHANGED <<senderVars, chunkVars, verdict, lost, clean, active, rdb, disk, conn, version>>

\* A chunk frame gets a task of its own.
Spawn(s) ==
  /\ AtWork(s) /\ At(s, {"wire"}) # {}
  /\ LET i == Earliest(At(s, {"wire"}))
     IN Fits(s, i) /\ stage' = [stage EXCEPT ![s][i] = "task"]
  /\ UNCHANGED <<senderVars, seen, handlerVars, worldVars>>

\* tokio's File reports a failed last write with the next operation on it.
WriteChunk(s, i) ==
  /\ AtWork(s) /\ stage[s][i] = "task" /\ ~lost[s]
  /\ \/ disk' = Placed(s, i) /\ UNCHANGED <<lost, faults>>
     \/ Fault /\ lost' = [lost EXCEPT ![s] = TRUE] /\ UNCHANGED disk
  /\ stage' = [stage EXCEPT ![s][i] = "written"]
  /\ UNCHANGED <<senderVars, seen, rPc, verdict, clean, active, rdb, conn, version>>

\* Mutant of HashValid: the hash of a resumed session begins at its start chunk.
HashFromStart(s, stages) ==
  \A i \in Start(s)..(Total(s) - 1) :
    stages[i] \in {"written", "acked"} /\ seen[s][i] = meta[s].version

\* The hasher takes the chunks in order from chunk 0 and must have had them all.
HashValid(s, stages) ==
  \A i \in ChunksOf(s) : stages[i] \in {"written", "acked"} /\ seen[s][i] = meta[s].version

\* A finished task is acknowledged and counted from the start chunk on. The
\* statements name the id in METADATA, which this machine's store does not have.
AckChunk(s, i) ==
  /\ AtWork(s) /\ stage[s][i] = "written" /\ conn[s] = "open"
  /\ stage' = [stage EXCEPT ![s][i] = "acked"]
  /\ LET count == Start(s) + Cardinality(At(s, {"acked"})) + 1
         db == UpdateProgress(rdb, WireId(s), count * meta[s].chunk)
     IN IF count < Total(s)
        THEN rdb' = db /\ UNCHANGED <<rPc, verdict, active>>
        ELSE /\ verdict' = [verdict EXCEPT ![s] =
                              IF HashValid(s, stage'[s]) THEN "complete" ELSE "error"]
             /\ rdb' = IF HashValid(s, stage'[s]) THEN CompleteTransfer(db, WireId(s))
                       ELSE FailTransfer(db, WireId(s))
             /\ active' = active \ {s}
             /\ rPc' = [rPc EXCEPT ![s] = "done"]
  /\ UNCHANGED <<senderVars, seen, lost, clean, disk, worldVars>>

\* The pipeline breaks: the connection ends, a frame is too large, or a task
\* fails. The other tasks are aborted, the map keeps the session.
HandlerFails(s) ==
  /\ AtWork(s)
  /\ \/ /\ \/ Hopeless(s)
           \/ At(s, {"wire"}) # {} /\ ~Fits(s, Earliest(At(s, {"wire"})))
           \/ At(s, {"task"}) # {} /\ lost[s]
        /\ UNCHANGED faults
     \/ At(s, {"task"}) # {} /\ Fault
  /\ rdb' = FailTransfer(rdb, WireId(s))
  /\ rPc' = [rPc EXCEPT ![s] = "done"]
  /\ UNCHANGED <<senderVars, chunkVars, verdict, lost, clean, active, disk, conn, version>>

-----------------------------------------------------------------------------
(* The slow receiver: one chunk at a time, from chunk 0, each written through *)

SlowAccept(s) ==
  /\ rPc[s] = "metadata" /\ meta[s].slow /\ conn[s] = "open"
  /\ rdb' = CreateTransfer(rdb, OwnId(s), Size)
  /\ rPc' = [rPc EXCEPT ![s] = "run"]
  /\ UNCHANGED <<senderVars, chunkVars, verdict, lost, clean, active, disk, worldVars>>

\* verify_checksum reads the file back, and all of it.
Verifies(s, file) == file = Source(meta[s].version)

SlowReceive(s) ==
  LET i == Cardinality(At(s, {"acked"}))
  IN /\ rPc[s] = "run" /\ meta[s].slow /\ conn[s] = "open"
     /\ At(s, {"wire"}) # {} /\ i = Earliest(At(s, {"wire"})) /\ Fits(s, i)
     /\ disk' = Placed(s, i)
     /\ stage' = [stage EXCEPT ![s][i] = "acked"]
     /\ IF i + 1 < Total(s) THEN UNCHANGED <<verdict, rPc>>
        ELSE /\ verdict' = [verdict EXCEPT ![s] =
                              IF Verifies(s, disk') THEN "complete" ELSE "error"]
             /\ rPc' = [rPc EXCEPT ![s] = "done"]
     /\ UNCHANGED <<senderVars, seen, lost, clean, active, rdb, worldVars>>

SlowFails(s) ==
  /\ rPc[s] = "run" /\ meta[s].slow
  /\ \/ /\ \/ Hopeless(s)
           \/ LET S == At(s, {"wire"})
              IN S # {} /\ (Earliest(S) # Cardinality(At(s, {"acked"})) \/ ~Fits(s, Earliest(S)))
        /\ UNCHANGED faults
     \/ Fault
  /\ rPc' = [rPc EXCEPT ![s] = "done"]
  /\ UNCHANGED <<senderVars, chunkVars, verdict, lost, clean, active, rdb, disk, conn, version>>

-----------------------------------------------------------------------------
(* User and world *)

\* The handler of Ctrl-C is in place from ACCEPT on and stays in place.
CtrlC ==
  /\ Fault /\ sPc \in Running /\ ~paused
  /\ paused' = TRUE
  /\ UNCHANGED <<cur, sPc, err, prod, prodPc, nextToSend, nextToAck, bytes, record, outcome, sdb,
                 meta, chunkVars, handlerVars, conn, version>>

Crash ==
  /\ Fault /\ sPc \in Running \cup {"accept"}
  /\ Leave("crashed")
  /\ UNCHANGED <<cur, record, sdb, meta, chunkVars, handlerVars, conn, version>>

Break(s) ==
  /\ Fault /\ rPc[s] \in {"metadata", "run"} /\ conn[s] = "open" /\ ~SenderGone(s)
  /\ conn' = [conn EXCEPT ![s] = "broken"]
  /\ UNCHANGED <<senderVars, chunkVars, handlerVars, version>>

EditSource ==
  /\ Fault /\ sPc \notin {"idle", "done"}
  /\ version' = version + 1
  /\ UNCHANGED <<senderVars, chunkVars, handlerVars, conn>>

CommandStep == ReceiveAccept \/ NotAccepted \/ SendFrame \/ SendFails \/ TakeAck \/ Verified
               \/ \E i \in Indices : TakeFrame(i)
ProducerStep == Prepare \/ ProducerEnds
SealStep == \E i \in Indices : Seal(i)
HandlerStep(s) ==
  \/ OpenFile(s) \/ NotOpened(s) \/ Spawn(s) \/ HandlerFails(s)
  \/ \E i \in Indices : WriteChunk(s, i) \/ AckChunk(s, i)
  \/ SlowAccept(s) \/ SlowReceive(s) \/ SlowFails(s)

Next ==
  \/ \E c \in ChunkSizes, packed \in BOOLEAN, kind \in Receivers : Send(c, packed, kind)
  \/ CommandStep \/ ProducerStep \/ PrepareFails \/ SealStep
  \/ \E s \in Sessions : HandlerStep(s) \/ Break(s)
  \/ CtrlC \/ Crash \/ EditSource

SafeSpec == Init /\ [][Next]_vars

\* Every task that can go on goes on; users, crashes and breaks are not fair.
Spec ==
  /\ SafeSpec
  /\ WF_vars(CommandStep) /\ WF_vars(ProducerStep) /\ WF_vars(SealStep)
  /\ \A s \in Sessions : WF_vars(HandlerStep(s))

-----------------------------------------------------------------------------
Descriptions ==
  [chunk : Nat \ {0}, total : 1..Larger(Size, 1), offset : Nat, version : Nat \ {0},
   packed : BOOLEAN, slow : BOOLEAN]

SenderOK ==
  /\ cur \in 0..MaxSends /\ sPc \in {"idle", "accept", "done"} \cup Running
  /\ paused \in BOOLEAN /\ err \in BOOLEAN /\ prodPc \in {"run", "stopped"}
  /\ {prod, nextToSend, nextToAck, bytes} \subseteq Nat /\ record \in 0..cur
  \* next_to_send - next_to_ack is unsigned
  /\ sPc \in Running => nextToAck <= nextToSend /\ nextToSend <= prod /\ prod <= Total(cur)
  /\ outcome \in [Sessions -> {"none", "refused", "verified", "failed", "paused", "crashed"}]
  /\ sdb \in [DOMAIN sdb -> Records] /\ meta \in [Sessions -> Descriptions]

ChunksOK ==
  /\ stage \in [Sessions -> [Indices -> {"todo", "sealing", "net", "buffered", "wire", "task",
                                        "written", "acked"}]]
  /\ seen \in [Sessions -> [Indices -> Nat]]

HandlersOK ==
  /\ rPc \in [Sessions -> {"none", "metadata", "run", "done"}]
  /\ verdict \in [Sessions -> {"none", "complete", "error"}]
  /\ lost \in [Sessions -> BOOLEAN] /\ clean \in [Sessions -> BOOLEAN]
  /\ active \subseteq Sessions /\ rdb \in [DOMAIN rdb -> Records] /\ disk \in Seq(Nat \X Nat)

WorldOK ==
  conn \in [Sessions -> {"open", "broken"}] /\ version \in Nat \ {0} /\ faults \in 0..MaxFaults

\* Every variable has its type, and a sender that runs has acknowledged no more
\* than it sent, sent no more than it prepared and prepared no more than there is.
TypeOK == SenderOK /\ ChunksOK /\ HandlersOK /\ WorldOK

ReportedVerified == cur > 0 /\ outcome[cur] = "verified"
AnnouncedIsThere == disk = Source(meta[cur].version)

\* A transfer the command reports as "complete and verified by receiver" has put
\* the announced file on the receiver's disk: provided that the chunk size was in
\* the documented range, that no write failed unnoticed, and that no handler of an
\* earlier session still spoiled it. (These three do spoil it, one by one: the
\* hasher is fed what arrived and not what is on disk.)
VerifiedIsExact ==
  ReportedVerified /\ meta[cur].chunk <= MaxChunk /\ ~lost[cur] /\ clean[cur] => AnnouncedIsThere

\* The stored record tells how the last command ended: completed with all bytes
\* when verified, failed when it failed, and otherwise open, to be taken up by
\* the next command. No other record is open: none is forgotten or revived.
RecordTellsOutcome ==
  /\ \A r \in DOMAIN sdb \ {record} : sdb[r].status \in Final
  /\ sPc = "done" =>
       CASE outcome[cur] = "verified" -> sdb[record].status = "completed" /\ sdb[record].bytes = Size
         [] outcome[cur] = "failed" -> sdb[record].status = "failed"
         [] OTHER -> sdb[record].status \notin Final

\* A record once completed or failed is never written again.
FinalStays == [][\A r \in DOMAIN sdb : sdb[r].status \in Final => sdb'[r] = sdb[r]]_vars

\* Ctrl-C came when every frame sent was acknowledged and the reading task was
\* about to look at the flag: no event is left that would make the loop look too.
Overlooked ==
  /\ paused /\ sPc = "select" /\ prodPc = "stopped" /\ InFlight = 0
  /\ At(cur, {"sealing", "net", "buffered"}) = {}

\* A frame, a chunk or an acknowledgement that some task can take on.
CanGoOn ==
  \/ prodPc = "run" /\ Cardinality(At(cur, {"sealing"})) < Parallel
  \/ At(cur, {"sealing"}) # {} /\ Cardinality(At(cur, {"net"})) < NetCap
  \/ At(cur, {"net"}) # {} /\ InFlight < Window
  \/ AcksInFlight > 0
  \/ rPc[cur] = "run" /\ At(cur, {"wire", "task", "written"}) # {}

\* Both ends never wait for each other at once: whatever the sizes of window and
\* channels, a command that runs has an event to take, or some task of either end
\* has work that leads to one; all but the Ctrl-C that is overlooked.
NeverStranded ==
  sPc \notin {"idle", "done"} =>
    \/ Overlooked \/ Severed(cur)
    \/ sPc = "accept" /\ rPc[cur] \in {"metadata", "run"}
    \/ sPc = "send" /\ (Cardinality(At(cur, {"wire"})) < WireCap \/ rPc[cur] = "run")
    \/ sPc = "verify" /\ verdict[cur] # "none"
    \/ sPc = "select" /\ (err \/ CanGoOn)

\* Every command and every handler comes to an end, except for a Ctrl-C that is
\* overlooked.
BothEnd ==
  <>[](Overlooked \/ (sPc \in {"idle", "done"} /\ \A s \in Sessions : rPc[s] \in {"none", "done"}))

\* A transfer announced from chunk 0, of a documented chunk size and with frames
\* that fit, is verified whatever happened before, unless something befalls one
\* of the sessions. (The slow receiver does not cut a longer file.)
Announced ==
  /\ sPc = "accept" /\ rPc[cur] = "metadata" /\ conn[cur] = "open"
  /\ meta[cur].version = version /\ meta[cur].chunk <= MaxChunk
  /\ meta[cur].slow => Len(disk) <= Size
  /\ \A i \in ChunksOf(cur) : Fits(cur, i)
Delivered ==
  \A n \in 0..MaxFaults :
    Announced /\ Start(cur) = 0 /\ faults = n ~> ReportedVerified \/ faults > n

-----------------------------------------------------------------------------
(* What the repository says of this code, in its own words. *)

\* README.md:730: "restarting the send command with the same file path finds the
\* existing record and resumes from the last committed byte position", and main.rs:762
\* of an interrupted one: "Resume with same command."  A transfer taken up again at a
\* later chunk is verified like one from chunk 0.
ResumedIsDelivered ==
  \A n \in 0..MaxFaults :
    Announced /\ Start(cur) > 0 /\ faults = n ~> ReportedVerified \/ faults > n
=============================================================================
