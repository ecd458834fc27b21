---------------------------- MODULE LanTransfer ----------------------------
(***************************************************************************)
(* One file sent over a direct TCP connection: send_file_direct_tcp and    *)
(* handle_incoming of p2ptransfer-core/src/network/tcp_compat.rs.  Each    *)
(* side is an async function and a blocking task joined by a bounded       *)
(* channel: the sender's file reader encrypts blocks ahead of the socket,  *)
(* the receiver's disk writer decrypts them behind it.  Attempts follow    *)
(* one another; the next one starts when both sides have left the last.    *)
(*                                                                         *)
(* A file is a sequence of units <<position, version>>.  Block units make  *)
(* a LAN block, so a partial file may end inside one.  A file's hash is    *)
(* the file, and a frame decrypts when both ends count the same block.     *)
(***************************************************************************)
EXTENDS Naturals, Sequences

CONSTANTS
  Size,         \* units in the file that is sent
  Block,        \* LAN_BLOCK_SIZE, in units
  Chan,         \* CHANNEL_CAPACITY of the two in-process channels
  Wire,         \* frames that fit in one direction's socket buffers
  MaxAttempts,  \* bound: connections made
  MaxPauses,    \* bound: times a user pauses
  MaxEdits,     \* bound: times the source file changes
  Events,       \* what else may happen: "break", "crash", "disk", "source", "cancel"
  NoFile        \* the output path does not exist

ASSUME SizeAssumption == Size \in Nat /\ Block \in Nat \ {0}
ASSUME ChannelAssumption == Chan \in Nat \ {0} /\ Wire \in Nat \ {0}
ASSUME NoFileAssumption == NoFile \notin Seq(Nat \X Nat)
ASSUME BoundAssumption == MaxAttempts \in Nat /\ MaxPauses \in Nat /\ MaxEdits \in Nat

VARIABLES
  (* send_file_direct_tcp *)
  sPc,        \* where the async function is
  sHeld,      \* the frame it dequeued and has not written yet
  sPaused, sCancel,   \* its PauseFlag
  sReg,       \* its entries in TRANSFER_PAUSE_FLAGS and ACTIVE_TRANSFERS
  sResult,    \* what it returned
  (* its reader task *)
  rdPc, rdNext, dataCh,
  hashed,     \* the units fed to the hasher
  start,      \* start_offset, in units
  (* the connection *)
  toR, toS,   \* frames in flight to the receiver and to the sender
  link,       \* "up", or "down" once reset
  (* handle_incoming *)
  rPc, rHeld, blockIndex, rPaused, rCancel,
  rReg,       \* its entry in TRANSFER_PAUSE_FLAGS
  rActive,    \* its entry in ACTIVE_TRANSFERS
  reason,     \* recv_loop_result
  rResult,    \* how it ended
  (* its writer task *)
  wrPc, diskCh, disk,
  (* the surroundings *)
  source,     \* the sender's file now
  announced,  \* the file metadata.checksum was computed from
  force,      \* metadata.force_restart
  prior,      \* the output file when the transfer was accepted
  attempts, pauses, edits

senderVars   == <<sPc, sHeld, sPaused, sCancel, sReg, sResult>>
readerVars   == <<rdPc, rdNext, dataCh, hashed, start>>
netVars      == <<toR, toS, link>>
receiverVars == <<rPc, rHeld, blockIndex, rPaused, rCancel, rReg, rActive, reason, rResult>>
writerVars   == <<wrPc, diskCh, disk>>
worldVars    == <<source, announced, force, prior, attempts, pauses, edits>>
vars == <<senderVars, readerVars, netVars, receiverVars, writerVars, worldVars>>

-----------------------------------------------------------------------------
(* Files and frames *)

Smaller(m, n) == IF m <= n THEN m ELSE n
Prefix(s, n) == SubSeq(s, 1, n)
Prefixes(s) == {Prefix(s, n) : n \in 0..Len(s)}

Unit == Nat \X Nat
FileOf(version, n) == [i \in 1..n |-> <<i, version>>]

\* Version 1 is the source as it is first sent, version 0 an unrelated file.
Source0 == FileOf(1, Size)
InitialDisks == {NoFile} \cup {FileOf(v, n) : v \in {0, 1}, n \in 0..Size}

\* num is the nonce counter of a chunk or the offset of an accept, in units.
Frame(tag, num, data) == [tag |-> tag, num |-> num, data |-> data]
Tags == {"none", "hello", "meta", "accept", "chunk", "complete", "error", "cancelled"}
Frames == [tag : Tags, num : 0..Size, data : Seq(Unit)]
Signal(tag) == Frame(tag, 0, <<>>)
Nothing == Signal("none")

\* What read(block) returns at a block boundary.
BlockAt(pos) == SubSeq(source, pos + 1, Smaller(pos + Block, Size))

FileLen == IF disk = NoFile THEN 0 ELSE Len(disk)

SenderLoop == {"gate", "dequeue", "send"}
ReceiverLoop == {"gate", "read", "forward"}
-----------------------------------------------------------------------------
Init ==
  /\ sPc = "idle" /\ sHeld = Nothing /\ sPaused = FALSE /\ sCancel = FALSE
  /\ sReg = FALSE /\ sResult = "none"
  /\ rdPc = "off" /\ rdNext = 0 /\ dataCh = <<>> /\ hashed = <<>> /\ start = 0
  /\ toR = <<>> /\ toS = <<>> /\ link = "down"
  /\ rPc = "idle" /\ rHeld = Nothing /\ blockIndex = 0
  /\ rPaused = FALSE /\ rCancel = FALSE /\ rReg = FALSE /\ rActive = FALSE
  /\ reason = "none" /\ rResult = "none"
  /\ wrPc = "off" /\ diskCh = <<>> /\ disk \in InitialDisks
  /\ source = Source0 /\ announced = Source0 /\ force = FALSE /\ prior = disk
  /\ attempts = 0 /\ pauses = 0 /\ edits = 0

\* connect() succeeds, the sender registers its PauseFlag and sends
\* CLIENT_HELLO, and the listener spawns handle_incoming.
Connect ==
  /\ attempts < MaxAttempts
  /\ sPc \in {"idle", "done"} /\ rPc \in {"idle", "done"}
  /\ attempts' = attempts + 1
  /\ sPc' = "hello" /\ sPaused' = FALSE /\ sCancel' = FALSE /\ sReg' = TRUE /\ sResult' = "none"
  /\ rdPc' = "off" /\ rdNext' = 0 /\ dataCh' = <<>> /\ hashed' = <<>> /\ start' = 0
  /\ toR' = <<Signal("hello")>> /\ toS' = <<>> /\ link' = "up"
  /\ rPc' = "hello" /\ rPaused' = FALSE /\ rCancel' = FALSE /\ rReg' = FALSE /\ rActive' = FALSE
  /\ blockIndex' = 0 /\ reason' = "none" /\ rResult' = "none"
  /\ wrPc' = "off" /\ diskCh' = <<>>
  /\ force' \in BOOLEAN
  /\ prior' = disk
  /\ UNCHANGED <<sHeld, rHeld, disk, source, announced, pauses, edits>>

-----------------------------------------------------------------------------
(* The two ends of the connection.  A closed end answers data that is still *)
(* unread, or arrives later, with a reset.                                  *)

SenderGone == sPc = "done"
ReceiverGone == rPc = "done"

CanSend(queue) == link = "up" /\ Len(queue) < Wire
SendFails == link = "down"

\* receive_message returns an error: nothing left to read and nothing to come.
ReceiverAtEof == toR = <<>> /\ (link = "down" \/ SenderGone)
SenderAtEof == toS = <<>> /\ (link = "down" \/ ReceiverGone)

LoseFrames ==
  /\ link = "up"
  /\ link' = "down"
  /\ toR' \in Prefixes(toR)
  /\ toS' \in Prefixes(toS)
  /\ UNCHANGED <<senderVars, readerVars, receiverVars, writerVars, worldVars>>

PeerReset == ((SenderGone /\ toS # <<>>) \/ (ReceiverGone /\ toR # <<>>)) /\ LoseFrames
Break == "break" \in Events /\ LoseFrames

-----------------------------------------------------------------------------
(* send_file_direct_tcp *)

\* The function returns and its stream is dropped.
SenderReturns(result) == sPc' = "done" /\ sResult' = result

\* SERVER_HELLO arrives; create_metadata hashes the file and METADATA goes out.
SendMetadata ==
  /\ sPc = "hello"
  /\ toS # <<>> /\ Head(toS).tag = "hello" /\ CanSend(toR)
  /\ toS' = Tail(toS)
  /\ announced' = source
  /\ toR' = Append(toR, Signal("meta"))
  /\ sPc' = "await"
  /\ UNCHANGED <<sHeld, sPaused, sCancel, sReg, sResult, readerVars, link, receiverVars,
                 writerVars, source, force, prior, attempts, pauses, edits>>

\* "ACCEPT" or "ACCEPT:<offset>": start the reader task at that offset.
ReceiveAccept ==
  /\ sPc = "await"
  /\ toS # <<>> /\ Head(toS).tag = "accept"
  /\ toS' = Tail(toS)
  /\ start' = Head(toS).num
  /\ rdPc' = "opening"
  /\ sPc' = "gate"
  /\ UNCHANGED <<sHeld, sPaused, sCancel, sReg, sResult, rdNext, dataCh, hashed, toR, link,
                 receiverVars, writerVars, worldVars>>

\* Any failure before the reader task exists returns through `?`, past the
\* lines that would take the entries out of the two registries.
HandshakeFails ==
  /\ sPc \in {"hello", "await"}
  /\ SenderAtEof \/ (sPc = "hello" /\ SendFails)
  /\ SenderReturns("failed")
  /\ UNCHANGED <<sHeld, sPaused, sCancel, sReg, readerVars, netVars, receiverVars,
                 writerVars, worldVars>>

\* create_metadata cannot read the file: the same, with the connection in order.
MetadataFails ==
  /\ "source" \in Events
  /\ sPc = "hello" /\ toS # <<>> /\ Head(toS).tag = "hello"
  /\ toS' = Tail(toS)
  /\ SenderReturns("failed")
  /\ UNCHANGED <<sHeld, sPaused, sCancel, sReg, readerVars, toR, link, receiverVars,
                 writerVars, worldVars>>

\* Step 1: wait_if_paused before the next chunk is dequeued.
PassGate ==
  /\ sPc = "gate" /\ ~sCancel /\ ~sPaused
  /\ sPc' = "dequeue"
  /\ UNCHANGED <<sHeld, sPaused, sCancel, sReg, sResult, readerVars, netVars, receiverVars,
                 writerVars, worldVars>>

\* Step 2: data_rx.recv(), unless wait_for_cancel is ready.
Dequeue ==
  /\ sPc = "dequeue" /\ ~sCancel
  /\ dataCh # <<>>
  /\ sHeld' = Head(dataCh)
  /\ dataCh' = Tail(dataCh)
  /\ sPc' = "send"
  /\ UNCHANGED <<sPaused, sCancel, sReg, sResult, rdPc, rdNext, hashed, start, netVars,
                 receiverVars, writerVars, worldVars>>

SendChunk ==
  /\ sPc = "send" /\ CanSend(toR)
  /\ toR' = Append(toR, sHeld)
  /\ sHeld' = Nothing
  /\ sPc' = "gate"
  /\ UNCHANGED <<sPaused, sCancel, sReg, sResult, readerVars, toS, link, receiverVars,
                 writerVars, worldVars>>

\* The loop ends with an error: leave the registries and try to tell the
\* receiver.
LeaveLoop ==
  /\ sReg' = FALSE
  /\ sHeld' = Nothing
  /\ sPc' = "abort"
  /\ UNCHANGED <<sPaused, sCancel, readerVars, netVars, receiverVars, writerVars, worldVars>>

CancelSend ==
  /\ sPc \in {"gate", "dequeue"} /\ sCancel
  /\ sResult' = "cancelled"
  /\ LeaveLoop

SendFailsInLoop ==
  /\ sPc = "send" /\ SendFails
  /\ sResult' = "failed"
  /\ LeaveLoop

\* The ERROR frame waits for room like any other; its own failure is ignored.
SendAbort ==
  /\ sPc = "abort"
  /\ \/ /\ CanSend(toR)
        /\ toR' = Append(toR, Signal(IF sResult = "cancelled" THEN "cancelled" ELSE "error"))
     \/ /\ SendFails
        /\ toR' = toR
  /\ SenderReturns(sResult)
  /\ UNCHANGED <<sHeld, sPaused, sCancel, sReg, readerVars, toS, link, receiverVars,
                 writerVars, worldVars>>

\* Mutant of EndLoop: the loop ends with the reader task, not with its channel.
EndLoopEarly ==
  /\ sPc = "dequeue" /\ ~sCancel
  /\ rdPc \in {"ok", "failed"}
  /\ sReg' = FALSE
  /\ sPc' = "join"
  /\ UNCHANGED <<sHeld, sPaused, sCancel, sResult, readerVars, netVars, receiverVars,
                 writerVars, worldVars>>

\* data_rx.recv() is None: every block was sent, or the reader task failed.
EndLoop ==
  /\ sPc = "dequeue" /\ ~sCancel
  /\ dataCh = <<>> /\ rdPc \in {"ok", "failed"}
  /\ sReg' = FALSE
  /\ sPc' = "join"
  /\ UNCHANGED <<sHeld, sPaused, sCancel, sResult, readerVars, netVars, receiverVars,
                 writerVars, worldVars>>

\* Mutant of SendComplete: success is reported without waiting for the answer.
SendCompleteHasty ==
  /\ sPc = "join" /\ rdPc = "ok" /\ CanSend(toR)
  /\ toR' = Append(toR, Signal("complete"))
  /\ SenderReturns("ok")
  /\ UNCHANGED <<sHeld, sPaused, sCancel, sReg, readerVars, toS, link, receiverVars,
                 writerVars, worldVars>>

\* reader_task.await, then COMPLETE; a reader error returns with no word to
\* the receiver, which sees the stream end.
SendComplete ==
  /\ sPc = "join" /\ rdPc = "ok" /\ CanSend(toR)
  /\ toR' = Append(toR, Signal("complete"))
  /\ sPc' = "ack"
  /\ UNCHANGED <<sHeld, sPaused, sCancel, sReg, sResult, readerVars, toS, link, receiverVars,
                 writerVars, worldVars>>

CompletionFails ==
  /\ \/ sPc = "join" /\ (rdPc = "failed" \/ SendFails)
     \/ sPc = "ack" /\ SenderAtEof
  /\ SenderReturns("failed")
  /\ UNCHANGED <<sHeld, sPaused, sCancel, sReg, readerVars, netVars, receiverVars,
                 writerVars, worldVars>>

\* Mutant of ReceiveAck: the tag is passed on as the result.
ReceiveAckRaw ==
  /\ sPc = "ack" /\ toS # <<>>
  /\ toS' = Tail(toS)
  /\ SenderReturns(Head(toS).tag)
  /\ UNCHANGED <<sHeld, sPaused, sCancel, sReg, readerVars, toR, link, receiverVars,
                 writerVars, worldVars>>

\* COMPLETE or ERROR from the receiver.
ReceiveAck ==
  /\ sPc = "ack" /\ toS # <<>>
  /\ toS' = Tail(toS)
  /\ SenderReturns(IF Head(toS).tag = "complete" THEN "ok" ELSE "failed")
  /\ UNCHANGED <<sHeld, sPaused, sCancel, sReg, readerVars, toR, link, receiverVars,
                 writerVars, worldVars>>

SenderStep == \/ SendMetadata \/ ReceiveAccept \/ HandshakeFails \/ MetadataFails
              \/ PassGate \/ Dequeue \/ SendChunk \/ CancelSend \/ SendFailsInLoop \/ SendAbort
              \/ EndLoop \/ SendComplete \/ CompletionFails \/ ReceiveAck

-----------------------------------------------------------------------------
(* The reader task *)

\* Open the file, hash what the receiver already has, seek past it.
ReaderOpen ==
  /\ rdPc = "opening"
  /\ rdPc' = "run"
  /\ hashed' = Prefix(source, start)
  /\ rdNext' = start
  /\ UNCHANGED <<senderVars, dataCh, start, netVars, receiverVars, writerVars, worldVars>>

\* Read, hash and encrypt one block and queue its frame.  The block in the
\* task's hands while it waits for room counts as queued.  data_rx is there
\* until the function returns, read or not.
ReaderBlock ==
  /\ rdPc = "run" /\ rdNext < Size
  /\ sPc \in SenderLoop \cup {"abort"}
  /\ Len(dataCh) < Chan
  /\ dataCh' = Append(dataCh, Frame("chunk", rdNext \div Block, BlockAt(rdNext)))
  /\ hashed' = hashed \o BlockAt(rdNext)
  /\ rdNext' = Smaller(rdNext + Block, Size)
  /\ UNCHANGED <<senderVars, rdPc, start, netVars, receiverVars, writerVars, worldVars>>

\* End of file, or the function has returned and so dropped data_rx.
ReaderEnd ==
  /\ rdPc = "run"
  /\ rdNext >= Size \/ sPc = "done"
  /\ rdPc' = "ok"
  /\ UNCHANGED <<senderVars, rdNext, dataCh, hashed, start, netVars, receiverVars, writerVars,
                 worldVars>>

ReaderFails ==
  /\ "source" \in Events
  /\ rdPc \in {"opening", "run"}
  /\ rdPc' = "failed"
  /\ UNCHANGED <<senderVars, rdNext, dataCh, hashed, start, netVars, receiverVars, writerVars,
                 worldVars>>

ReaderTask == ReaderOpen \/ ReaderBlock \/ ReaderEnd \/ ReaderFails

-----------------------------------------------------------------------------
(* handle_incoming *)

ReceiverReturns(result) == rPc' = "done" /\ rResult' = result

\* CLIENT_HELLO in, SERVER_HELLO out.
AnswerHello ==
  /\ rPc = "hello"
  /\ toR # <<>> /\ Head(toR).tag = "hello" /\ CanSend(toS)
  /\ toR' = Tail(toR)
  /\ toS' = Append(toS, Signal("hello"))
  /\ rPc' = "meta"
  /\ UNCHANGED <<senderVars, readerVars, link, rHeld, blockIndex, rPaused, rCancel, rReg,
                 rActive, reason, rResult, writerVars, worldVars>>

\* METADATA in; the user is asked.
ReceiveMetadata ==
  /\ rPc = "meta" /\ toR # <<>> /\ Head(toR).tag = "meta"
  /\ toR' = Tail(toR)
  /\ rPc' = "prompt"
  /\ UNCHANGED <<senderVars, readerVars, toS, link, rHeld, blockIndex, rPaused, rCancel, rReg,
                 rActive, reason, rResult, writerVars, worldVars>>

IncomingFails ==
  /\ \/ rPc \in {"hello", "meta"} /\ ReceiverAtEof
     \/ rPc \in {"hello", "accept"} /\ SendFails
  /\ ReceiverReturns("failed")
  /\ UNCHANGED <<senderVars, readerVars, netVars, rHeld, blockIndex, rPaused, rCancel, rReg,
                 rActive, reason, writerVars, worldVars>>

\* The user refuses, or 60 seconds pass.  send_err builds the future that
\* would send "ERROR:timeout" and drops it, so nothing goes out.
Reject ==
  /\ rPc = "prompt"
  /\ ReceiverReturns("rejected")
  /\ UNCHANGED <<senderVars, readerVars, netVars, rHeld, blockIndex, rPaused, rCancel, rReg,
                 rActive, reason, writerVars, worldVars>>

Approve ==
  /\ rPc = "prompt"
  /\ rPc' = "accept"
  /\ UNCHANGED <<senderVars, readerVars, netVars, rHeld, blockIndex, rPaused, rCancel, rReg,
                 rActive, reason, rResult, writerVars, worldVars>>

IsResume == ~force /\ FileLen > 0 /\ FileLen < Size
ResumeOffset == IF IsResume THEN (FileLen \div Block) * Block ELSE 0

\* Mutant of Accept: the block counter does not start at the resume offset.
AcceptFromZero ==
  /\ rPc = "accept" /\ CanSend(toS)
  /\ toS' = Append(toS, Frame("accept", ResumeOffset, <<>>))
  /\ blockIndex' = 0
  /\ wrPc' = IF IsResume THEN "append" ELSE "create"
  /\ rReg' = TRUE /\ rActive' = TRUE
  /\ rPc' = "gate"
  /\ UNCHANGED <<senderVars, readerVars, toR, link, rHeld, rPaused, rCancel, reason, rResult,
                 diskCh, disk, worldVars>>

\* Send ACCEPT with the aligned offset, spawn the disk writer, register.
Accept ==
  /\ rPc = "accept" /\ CanSend(toS)
  /\ toS' = Append(toS, Frame("accept", ResumeOffset, <<>>))
  /\ blockIndex' = ResumeOffset \div Block
  /\ wrPc' = IF IsResume THEN "append" ELSE "create"
  /\ rReg' = TRUE /\ rActive' = TRUE
  /\ rPc' = "gate"
  /\ UNCHANGED <<senderVars, readerVars, toR, link, rHeld, rPaused, rCancel, reason, rResult,
                 diskCh, disk, worldVars>>

PassReceiverGate ==
  /\ rPc = "gate" /\ ~rCancel /\ ~rPaused
  /\ rPc' = "read"
  /\ UNCHANGED <<senderVars, readerVars, netVars, rHeld, blockIndex, rPaused, rCancel, rReg,
                 rActive, reason, rResult, writerVars, worldVars>>

\* receive_message: nothing, a cancel included, interrupts the wait for it.
ReadChunk ==
  /\ rPc = "read"
  /\ toR # <<>> /\ Head(toR).tag = "chunk"
  /\ rHeld' = Head(toR)
  /\ toR' = Tail(toR)
  /\ rPc' = "forward"
  /\ UNCHANGED <<senderVars, readerVars, toS, link, blockIndex, rPaused, rCancel, rReg, rActive,
                 reason, rResult, writerVars, worldVars>>

\* Hand the block to the writer under this side's own block counter.
Forward ==
  /\ rPc = "forward" /\ wrPc # "failed" /\ Len(diskCh) < Chan
  /\ diskCh' = Append(diskCh, [blk |-> blockIndex, frame |-> rHeld])
  /\ blockIndex' = blockIndex + 1
  /\ rHeld' = Nothing
  /\ rPc' = "gate"
  /\ UNCHANGED <<senderVars, readerVars, netVars, rPaused, rCancel, rReg, rActive, reason,
                 rResult, wrPc, disk, worldVars>>

\* What follows the loop: disk_tx and the pause flag go, and unless the stream
\* was complete the transfer leaves ACTIVE_TRANSFERS too.
AfterLoop(why) ==
  /\ reason' = why
  /\ rReg' = FALSE
  /\ rActive' = (why = "complete")
  /\ rHeld' = Nothing
  /\ rPc' = "drain"
  /\ UNCHANGED <<senderVars, readerVars, link, blockIndex, rPaused, rCancel, rResult, writerVars,
                 worldVars>>

\* A cancelled receiver sends ERROR before it waits for its writer.
SayCancelled == toS' = IF CanSend(toS) THEN Append(toS, Signal("cancelled")) ELSE toS

CancelReceive ==
  /\ rPc = "gate" /\ rCancel
  /\ CanSend(toS) \/ SendFails
  /\ SayCancelled
  /\ AfterLoop("cancelled")
  /\ UNCHANGED toR

\* COMPLETE, or the sender's ERROR; a cancelling sender is told so as well.
ReadLast ==
  /\ rPc = "read"
  /\ toR # <<>> /\ Head(toR).tag \in {"complete", "error", "cancelled"}
  /\ toR' = Tail(toR)
  /\ IF Head(toR).tag = "cancelled"
       THEN (CanSend(toS) \/ SendFails) /\ SayCancelled
       ELSE toS' = toS
  /\ AfterLoop(CASE Head(toR).tag = "complete" -> "complete"
                 [] Head(toR).tag = "cancelled" -> "cancelled"
                 [] OTHER -> "failed")

ReadFails ==
  /\ rPc = "read" /\ ReceiverAtEof
  /\ AfterLoop("failed")
  /\ UNCHANGED <<toR, toS>>

\* Mutant of ForwardFails: a writer that has stopped is noticed only while it
\* still has a full queue.
ForwardFailsLate ==
  /\ rPc = "forward" /\ wrPc = "failed" /\ Len(diskCh) = Chan
  /\ AfterLoop("failed")
  /\ UNCHANGED <<toR, toS>>

ForwardFails ==
  /\ rPc = "forward" /\ wrPc = "failed"
  /\ AfterLoop("failed")
  /\ UNCHANGED <<toR, toS>>

WriterDone == wrPc \in {"ok", "failed"}

\* Mutant of Discard: only a cancel removes the partial file.
DiscardKeepFile ==
  /\ rPc = "drain" /\ WriterDone
  /\ reason # "complete" \/ wrPc = "failed"
  /\ disk' = IF reason = "cancelled" THEN NoFile ELSE disk
  /\ rActive' = FALSE
  /\ ReceiverReturns(IF reason = "cancelled" THEN "cancelled" ELSE "failed")
  /\ UNCHANGED <<senderVars, readerVars, netVars, rHeld, blockIndex, rPaused, rCancel, rReg,
                 reason, wrPc, diskCh, worldVars>>

\* writer_task.await, then remove_file: the stream broke, was cancelled, or
\* the writer could not finish.
Discard ==
  /\ rPc = "drain" /\ WriterDone
  /\ reason # "complete" \/ wrPc = "failed"
  /\ disk' = NoFile
  /\ rActive' = FALSE
  /\ ReceiverReturns(IF reason = "cancelled" THEN "cancelled" ELSE "failed")
  /\ UNCHANGED <<senderVars, readerVars, netVars, rHeld, blockIndex, rPaused, rCancel, rReg,
                 reason, wrPc, diskCh, worldVars>>

\* Mutant of VerifyGood: COMPLETE goes back without comparing the checksum.
VerifyUnchecked ==
  /\ rPc = "drain" /\ reason = "complete" /\ wrPc = "ok"
  /\ CanSend(toS)
  /\ toS' = Append(toS, Signal("complete"))
  /\ rActive' = FALSE
  /\ ReceiverReturns("complete")
  /\ UNCHANGED <<senderVars, readerVars, toR, link, rHeld, blockIndex, rPaused, rCancel, rReg,
                 reason, writerVars, worldVars>>

\* verify_checksum agrees: COMPLETE goes back.  When it cannot be sent the
\* function returns through `?` with the file and its registry entry in place.
VerifyGood ==
  /\ rPc = "drain" /\ reason = "complete" /\ wrPc = "ok"
  /\ disk = announced
  /\ \/ /\ CanSend(toS)
        /\ toS' = Append(toS, Signal("complete"))
        /\ rActive' = FALSE
        /\ ReceiverReturns("complete")
     \/ /\ SendFails
        /\ UNCHANGED <<toS, rActive>>
        /\ ReceiverReturns("unacked")
  /\ UNCHANGED <<senderVars, readerVars, toR, link, rHeld, blockIndex, rPaused, rCancel, rReg,
                 reason, writerVars, worldVars>>

\* verify_checksum disagrees: remove the file, send ERROR.
VerifyBad ==
  /\ rPc = "drain" /\ reason = "complete" /\ wrPc = "ok"
  /\ disk # announced
  /\ disk' = NoFile
  /\ rActive' = FALSE
  /\ \/ CanSend(toS) /\ toS' = Append(toS, Signal("error"))
     \/ SendFails /\ toS' = toS
  /\ ReceiverReturns("mismatch")
  /\ UNCHANGED <<senderVars, readerVars, toR, link, rHeld, blockIndex, rPaused, rCancel, rReg,
                 reason, wrPc, diskCh, worldVars>>

\* verify_checksum cannot read the file back.
VerifyFails ==
  /\ "disk" \in Events
  /\ rPc = "drain" /\ reason = "complete" /\ wrPc = "ok"
  /\ disk' = NoFile
  /\ rActive' = FALSE
  /\ ReceiverReturns("failed")
  /\ UNCHANGED <<senderVars, readerVars, netVars, rHeld, blockIndex, rPaused, rCancel, rReg,
                 reason, wrPc, diskCh, worldVars>>

ReceiverStep == \/ AnswerHello \/ ReceiveMetadata \/ IncomingFails \/ Accept
                \/ PassReceiverGate \/ ReadChunk \/ Forward \/ CancelReceive \/ ReadLast
                \/ ReadFails \/ ForwardFails \/ Discard \/ VerifyGood \/ VerifyBad
                \/ VerifyFails

-----------------------------------------------------------------------------
(* The writer task *)

\* Mutant of WriterOpen: a file that is not resumed is not truncated either.
WriterOpenKeep ==
  /\ wrPc \in {"append", "create"}
  /\ wrPc' = "run"
  /\ disk' = IF disk = NoFile THEN <<>> ELSE disk
  /\ UNCHANGED <<senderVars, readerVars, netVars, receiverVars, diskCh, worldVars>>

\* Append to the partial file, or create (and truncate) the output file.
WriterOpen ==
  /\ wrPc \in {"append", "create"}
  /\ wrPc' = "run"
  /\ disk' = IF wrPc = "create" THEN <<>> ELSE disk
  /\ UNCHANGED <<senderVars, readerVars, netVars, receiverVars, diskCh, worldVars>>

\* Decrypt and write one block; a nonce the sender did not use fails the tag.
WriterBlock ==
  /\ wrPc = "run" /\ diskCh # <<>>
  /\ diskCh' = Tail(diskCh)
  /\ LET job == Head(diskCh)
     IN  IF job.blk = job.frame.num
           THEN disk' = disk \o job.frame.data /\ wrPc' = wrPc
           ELSE disk' = disk /\ wrPc' = "failed"
  /\ UNCHANGED <<senderVars, readerVars, netVars, receiverVars, worldVars>>

\* disk_rx is closed and empty: flush.
WriterEnd ==
  /\ wrPc = "run" /\ diskCh = <<>>
  /\ rPc \notin ReceiverLoop
  /\ wrPc' = "ok"
  /\ UNCHANGED <<senderVars, readerVars, netVars, receiverVars, diskCh, disk, worldVars>>

\* Opening, writing or flushing fails; the queued blocks are dropped.
WriterFails ==
  /\ "disk" \in Events
  /\ wrPc \in {"append", "create", "run"}
  /\ wrPc' = "failed"
  /\ diskCh' = <<>>
  /\ UNCHANGED <<senderVars, readerVars, netVars, receiverVars, disk, worldVars>>

WriterTask == WriterOpen \/ WriterBlock \/ WriterEnd \/ WriterFails

-----------------------------------------------------------------------------
(* Users, the source file, crashes *)

\* pause_transfer, resume_transfer and cancel_transfer look the flag up in
\* TRANSFER_PAUSE_FLAGS and do nothing when it is not there.
PauseSender == /\ sReg /\ sPc # "done" /\ ~sPaused /\ pauses < MaxPauses
               /\ sPaused' = TRUE /\ pauses' = pauses + 1
               /\ UNCHANGED <<sPc, sHeld, sCancel, sReg, sResult, readerVars, netVars, receiverVars,
                              writerVars, source, announced, force, prior, attempts, edits>>

ResumeSender == /\ sReg /\ sPc # "done" /\ sPaused
                /\ sPaused' = FALSE
                /\ UNCHANGED <<sPc, sHeld, sCancel, sReg, sResult, readerVars, netVars, receiverVars,
                               writerVars, worldVars>>

CancelSender == /\ "cancel" \in Events
                /\ sReg /\ sPc # "done" /\ ~sCancel
                /\ sCancel' = TRUE
                /\ UNCHANGED <<sPc, sHeld, sPaused, sReg, sResult, readerVars, netVars, receiverVars,
                               writerVars, worldVars>>

PauseReceiver == /\ rReg /\ ~rPaused /\ pauses < MaxPauses
                 /\ rPaused' = TRUE /\ pauses' = pauses + 1
                 /\ UNCHANGED <<senderVars, readerVars, netVars, rPc, rHeld, blockIndex, rCancel,
                                rReg, rActive, reason, rResult, writerVars, source, announced,
                                force, prior, attempts, edits>>

ResumeReceiver == /\ rReg /\ rPaused
                  /\ rPaused' = FALSE
                  /\ UNCHANGED <<senderVars, readerVars, netVars, rPc, rHeld, blockIndex, rCancel,
                                 rReg, rActive, reason, rResult, writerVars, worldVars>>

CancelReceiver == /\ "cancel" \in Events
                  /\ rReg /\ ~rCancel
                  /\ rCancel' = TRUE
                  /\ UNCHANGED <<senderVars, readerVars, netVars, rPc, rHeld, blockIndex, rPaused,
                                 rReg, rActive, reason, rResult, writerVars, worldVars>>

\* Another program rewrites part of the source file in place.
EditSource ==
  /\ edits < MaxEdits
  /\ edits' = edits + 1
  /\ \E changed \in (SUBSET (1..Size)) \ {{}} :
       source' = [i \in 1..Size |-> IF i \in changed THEN <<i, edits + 2>> ELSE source[i]]
  /\ UNCHANGED <<senderVars, readerVars, netVars, receiverVars, writerVars, announced, force,
                 prior, attempts, pauses>>

\* The receiving process dies, perhaps in the middle of a write.  Its memory,
\* the registries included, is gone; the file stays as it is.
ReceiverCrash ==
  /\ "crash" \in Events
  /\ rPc \notin {"idle", "done"}
  /\ disk' \in {disk} \cup (IF wrPc = "run" /\ diskCh # <<>>
                              THEN {disk \o p : p \in Prefixes(Head(diskCh).frame.data)} ELSE {})
  /\ ReceiverReturns("crashed")
  /\ rReg' = FALSE /\ rActive' = FALSE /\ rHeld' = Nothing
  /\ wrPc' = "off" /\ diskCh' = <<>>
  /\ UNCHANGED <<senderVars, readerVars, netVars, blockIndex, rPaused, rCancel, reason, worldVars>>

Next == \/ Connect \/ PeerReset \/ Break
        \/ SenderStep \/ ReaderTask
        \/ ReceiverStep \/ Reject \/ Approve \/ WriterTask
        \/ PauseSender \/ ResumeSender \/ CancelSender
        \/ PauseReceiver \/ ResumeReceiver \/ CancelReceiver
        \/ EditSource \/ ReceiverCrash

SafeSpec == Init /\ [][Next]_vars

\* tokio polls every task that is ready, the blocking pool runs, the prompt
\* times out after 60 seconds and a closed peer's reset arrives.  Events,
\* connects, cancels and edits need never happen.
SystemFairness ==
  /\ WF_vars(SenderStep) /\ WF_vars(ReceiverStep)
  /\ WF_vars(ReaderOpen \/ ReaderBlock \/ ReaderEnd)
  /\ WF_vars(WriterOpen \/ WriterBlock \/ WriterEnd)
  /\ WF_vars(Reject \/ Approve)
  /\ WF_vars(PeerReset)

Spec == SafeSpec /\ SystemFairness

-----------------------------------------------------------------------------
SenderPcs == {"idle", "hello", "await", "abort", "join", "ack", "done"} \cup SenderLoop
ReceiverPcs == {"idle", "hello", "meta", "prompt", "accept", "drain", "done"} \cup ReceiverLoop
ReceiverResults == {"none", "failed", "rejected", "cancelled", "mismatch", "unacked", "complete",
                    "crashed"}

SenderOK ==
  /\ sPc \in SenderPcs /\ sHeld \in Frames
  /\ sPaused \in BOOLEAN /\ sCancel \in BOOLEAN /\ sReg \in BOOLEAN
  /\ sResult \in {"none", "ok", "failed", "cancelled"}
ReaderOK ==
  /\ rdPc \in {"off", "opening", "run", "ok", "failed"} /\ rdNext \in 0..Size
  /\ dataCh \in Seq(Frames) /\ hashed \in Seq(Unit) /\ start \in 0..Size
NetOK ==
  toR \in Seq(Frames) /\ toS \in Seq(Frames) /\ link \in {"up", "down"}
ReceiverOK ==
  /\ rPc \in ReceiverPcs /\ rHeld \in Frames /\ blockIndex \in Nat
  /\ rPaused \in BOOLEAN /\ rCancel \in BOOLEAN /\ rReg \in BOOLEAN /\ rActive \in BOOLEAN
  /\ reason \in {"none", "complete", "failed", "cancelled"} /\ rResult \in ReceiverResults
WriterOK ==
  /\ wrPc \in {"off", "append", "create", "run", "ok", "failed"}
  /\ diskCh \in Seq([blk : Nat, frame : Frames])
  /\ disk \in Seq(Unit) \cup {NoFile}
WorldOK ==
  /\ source \in [1..Size -> Unit] /\ announced \in [1..Size -> Unit]
  /\ force \in BOOLEAN /\ prior \in Seq(Unit) \cup {NoFile}
  /\ attempts \in Nat /\ pauses \in Nat /\ edits \in Nat

\* The type invariant, one conjunct for each group of variables.
TypeOK == SenderOK /\ ReaderOK /\ NetOK /\ ReceiverOK /\ WriterOK /\ WorldOK

\* Once the receiver has reported a transfer complete (and until the next one)
\* the output file is the announced file, whatever was on disk before and
\* whatever failed on the way.
CompleteIsExact ==
  rPc = "done" /\ rResult \in {"complete", "unacked"} => disk = announced

\* The sender returns Ok only for a transfer the receiver has completed.
OkMeansStored == sResult = "ok" => rPc = "done" /\ rResult = "complete" /\ disk = announced

\* Of a transfer that failed or was cancelled nothing stays on disk
\* (pause_resume_e2e_tests.rs: "Partial file must be deleted on cancellation");
\* a refused one leaves the file that was there.  The finished handler is out
\* of both registries, except when COMPLETE could not be sent.
NothingLeftBehind ==
  rPc = "done" => /\ rResult \in {"cancelled", "mismatch"} => disk = NoFile
                  /\ rResult = "failed" /\ reason # "none" => disk = NoFile
                  /\ rResult = "rejected" => disk = prior
                  /\ ~rReg /\ (rActive => rResult = "unacked")

\* Both ends count blocks alike, resumed or not: no block in the receiver ever
\* fails to decrypt.
CountersAgree ==
  /\ \A i \in 1..Len(diskCh) : diskCh[i].blk = diskCh[i].frame.num
  /\ rPc = "forward" => rHeld.num = blockIndex

\* A checksum mismatch has one of three causes: the sender read other bytes
\* than it announced, or the partial file the receiver resumed was not a
\* prefix of the announced file, or it ended inside a block.
Resumable(f) == f \in Prefixes(announced) /\ Len(f) % Block = 0
Resumed == ~force /\ prior # NoFile /\ Len(prior) \in 1..(Size - 1)
MismatchExplained ==
  rResult = "mismatch" => hashed # announced \/ (Resumed /\ ~Resumable(prior))

\* Whoever waits at the pause check of its loop while it is paused.
Paused == (sPc = "gate" /\ sPaused) \/ (rPc = "gate" /\ rPaused)

\* Every attempt comes to an end on both sides, unless one of them waits for
\* good for a user to end a pause: the two functions and the two blocking tasks
\* never wait on each other in a circle.
AttemptEnds ==
  attempts > 0 ~>
    \/ []Paused
    \/ /\ sPc = "done" /\ rPc = "done"
       /\ rdPc \notin {"opening", "run"} /\ wrPc \notin {"append", "create", "run"}

\* What excuses an accepted transfer from being delivered: an edited source, a
\* resumed file that cannot be resumed, a cancel, a failed disk (also one that
\* cannot be read back for the checksum), a broken link.
Excused ==
  \/ edits > 0
  \/ Resumed /\ ~Resumable(prior)
  \/ sCancel \/ rCancel
  \/ "failed" \in {rdPc, wrPc} \/ (rResult = "failed" /\ reason = "complete")
  \/ link = "down" /\ sPc # "done"

\* A transfer that is accepted while its sender waits is delivered, paused or
\* not, unless one of these happens to it or it stays paused: the code itself
\* gives up on none.
Delivered == rPc = "accept" /\ sPc = "await" ~> sResult = "ok" \/ Excused \/ []Paused

-----------------------------------------------------------------------------
\* The transfer implements FileDelivery: what each side's return tells its user.
ToldBar == CASE sPc = "idle" -> "nothing"
             [] sPc = "done" -> IF sResult = "ok" THEN "ok" ELSE "failed"
             [] OTHER -> "waiting"
KeptBar == CASE rPc = "idle" -> "nothing"
             [] rPc = "done" -> IF rResult \in {"complete", "unacked"} /\ disk = announced
                                  THEN "stored" ELSE "dropped"
             [] OTHER -> "waiting"
Delivery == INSTANCE FileDelivery WITH told <- ToldBar, kept <- KeptBar
ImplementsDelivery == Delivery!Spec
=============================================================================
