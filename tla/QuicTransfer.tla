---------------------------- MODULE QuicTransfer ----------------------------
(***************************************************************************)
(* One file sent over a QUIC stream: send_file_to_peer and                 *)
(* handle_incoming_connection of p2ptransfer-core/src/network/alpn.rs,     *)
(* with the reader and writer tasks they spawn.  After the two handshake   *)
(* messages the sender writes raw bytes and finishes the stream; nothing   *)
(* ever comes back, and both functions drop the connection on return.      *)
(*                                                                         *)
(* A file is a sequence of units <<position, version>>, a hash is the      *)
(* sequence that was fed to the hasher.                                    *)
(***************************************************************************)
EXTENDS Naturals, Sequences

CONSTANTS
  Size,         \* units in the file that is sent
  Chunk,        \* STREAM_CHUNK_SIZE, in units
  Chan,         \* CHANNEL_CAPACITY of the two in-process channels
  Wire,         \* units of the stream that may be in flight
  MaxPauses,    \* bound: times a user pauses
  Desktop,      \* TRUE: cancel_transfer of the GUI, FALSE: of the mobile bridge
  Events,       \* what else may happen: "drop", "break", "source", "disk", "cancel", "late"
  NoFile        \* the output path does not exist

ASSUME SizeAssumption == Size \in Nat /\ Chunk \in Nat \ {0}
ASSUME CapacityAssumption == Chan \in Nat \ {0} /\ Wire \in Nat \ {0} /\ MaxPauses \in Nat
ASSUME DesktopAssumption == Desktop \in BOOLEAN
ASSUME NoFileAssumption == NoFile \notin Seq(Nat \X Nat)

VARIABLES
  (* send_file_to_peer *)
  sPc,        \* where it is
  sHeld,      \* what is left to write of the chunk it dequeued
  sGot,       \* flag_opt is Some
  sPaused, sCancel,   \* its PauseFlag
  sFlag, sActive,     \* its entries in TRANSFER_PAUSE_FLAGS and ACTIVE_TRANSFERS
  sResult,    \* what it returned
  (* its reader task *)
  rdPc, rdNext, dataCh,
  sHash,      \* the units fed to its hasher
  start,      \* start_offset, in units
  (* the connection *)
  conn,       \* "none", "open" or "closed"
  request,    \* the TransferRequest is in flight
  reply,      \* the TransferResponse in flight
  stream,     \* file bytes in flight
  fin,        \* the end of the stream is in flight
  (* handle_incoming_connection *)
  rPc, rHeld, rGot, rPaused, rCancel, rFlag, rActive,
  isResume, offset,
  reason,     \* recv_result
  rResult,    \* how it ended
  (* its writer task *)
  wrPc, diskCh, disk,
  rHash,      \* the units fed to its hasher
  (* the surroundings *)
  force,      \* request.force_restart
  prior,      \* the output file before the transfer
  pauses,
  cut         \* how the connection ended: "no", "drop" or "break"

senderVars   == <<sPc, sHeld, sGot, sPaused, sCancel, sFlag, sActive, sResult>>
readerVars   == <<rdPc, rdNext, dataCh, sHash, start>>
connVars     == <<conn, request, reply, stream, fin>>
receiverVars == <<rPc, rHeld, rGot, rPaused, rCancel, rFlag, rActive, isResume, offset, reason,
                  rResult>>
writerVars   == <<wrPc, diskCh, disk, rHash>>
worldVars    == <<force, prior, pauses, cut>>
vars == <<senderVars, readerVars, connVars, receiverVars, writerVars, worldVars>>

-----------------------------------------------------------------------------
Smaller(m, n) == IF m <= n THEN m ELSE n
Prefix(s, n) == SubSeq(s, 1, n)
Drop(s, n) == SubSeq(s, n + 1, Len(s))
Prefixes(s) == {Prefix(s, n) : n \in 0..Len(s)}

Unit == Nat \X Nat
FileOf(version, n) == [i \in 1..n |-> <<i, version>>]
Source == FileOf(1, Size)

\* Version 1 is the file that is sent, version 0 an unrelated one of its name.
Priors == {NoFile} \cup {FileOf(v, n) : v \in {0, 1}, n \in 0..Size} \cup {FileOf(0, Size + 1)}

None == [kind |-> "none", from |-> 0]
Refusal == [kind |-> "refused", from |-> 0]
Acceptance(from) == [kind |-> "accepted", from |-> from]

Init ==
  /\ sPc = "connect" /\ sHeld = <<>> /\ sGot = FALSE /\ sPaused = FALSE /\ sCancel = FALSE
  /\ sFlag = FALSE /\ sActive = FALSE /\ sResult = "none"
  /\ rdPc = "off" /\ rdNext = 0 /\ dataCh = <<>> /\ sHash = <<>> /\ start = 0
  /\ conn = "none" /\ request = FALSE /\ reply = None /\ stream = <<>> /\ fin = FALSE
  /\ rPc = "idle" /\ rHeld = <<>> /\ rGot = FALSE /\ rPaused = FALSE /\ rCancel = FALSE
  /\ rFlag = FALSE /\ rActive = FALSE /\ isResume = FALSE /\ offset = 0
  /\ reason = "none" /\ rResult = "none"
  /\ wrPc = "off" /\ diskCh = <<>> /\ disk \in Priors /\ rHash = <<>>
  /\ force \in BOOLEAN /\ prior = disk /\ pauses = 0 /\ cut = "no"

SenderLoop == {"gate", "check", "dequeue", "write"}
ReceiverLoop == {"gate", "check", "read", "forward"}

-----------------------------------------------------------------------------
(* The connection.  A SendStream that is dropped unfinished is finished, and *)
(* a connection whose last handle is dropped is closed: "drop" means that   *)
(* this loses what the peer has not received by then.                       *)

FinishDropped ==
  /\ conn = "open" /\ sPc = "done" /\ ~fin
  /\ fin' = TRUE
  /\ UNCHANGED <<senderVars, readerVars, conn, request, reply, stream, receiverVars, writerVars,
                 worldVars>>

Close(lossy) ==
  /\ conn = "open"
  /\ conn' = "closed"
  /\ IF lossy
       THEN /\ stream' \in Prefixes(stream)
            /\ fin' \in {FALSE, fin /\ stream' = stream}
            /\ request' \in {FALSE, request}
            /\ reply' \in {None, reply}
       ELSE UNCHANGED <<stream, fin, request, reply>>
  /\ UNCHANGED <<senderVars, readerVars, receiverVars, writerVars, force, prior, pauses>>

CloseDropped == (sPc = "done" \/ rPc = "done") /\ Close("drop" \in Events) /\ cut' = "drop"
Break == "break" \in Events /\ Close(TRUE) /\ cut' = "break"

-----------------------------------------------------------------------------
(* send_file_to_peer *)

\* The entries stay in both registries unless the code takes them out.
SenderReturns(result) ==
  /\ sPc' = "done" /\ sResult' = result
  /\ UNCHANGED <<sHeld, sGot, sPaused, sCancel>>

\* connect, open_bi, register, write the request.
SendRequest ==
  /\ sPc = "connect"
  /\ conn' = "open" /\ request' = TRUE
  /\ sFlag' = TRUE /\ sActive' = TRUE
  /\ sPc' = "await"
  /\ rPc' = "request"
  /\ UNCHANGED <<sHeld, sGot, sPaused, sCancel, sResult, readerVars, reply, stream, fin,
                 rHeld, rGot, rPaused, rCancel, rFlag, rActive, isResume, offset, reason, rResult,
                 writerVars, worldVars>>

ConnectFails ==
  /\ sPc = "connect" /\ "break" \in Events
  /\ SenderReturns("failed")
  /\ UNCHANGED <<sFlag, sActive, readerVars, connVars, receiverVars, writerVars, worldVars>>

\* The request cannot be written: only the active entry is taken out again.
RequestNotSent ==
  /\ sPc = "connect" /\ "break" \in Events
  /\ sFlag' = TRUE
  /\ SenderReturns("failed")
  /\ UNCHANGED <<sActive, readerVars, connVars, receiverVars, writerVars, worldVars>>

\* Mutant of RequestFails: what the receiver said is passed on as it is.
RequestFailsRaw ==
  /\ sPc = "await"
  /\ \/ reply = Refusal /\ SenderReturns(reply.kind) /\ reply' = None
     \/ conn = "closed" /\ reply = None /\ SenderReturns("failed") /\ reply' = reply
     \/ "late" \in Events /\ SenderReturns("failed") /\ reply' = reply
  /\ UNCHANGED <<sFlag, sActive, readerVars, conn, request, stream, fin, receiverVars, writerVars,
                 worldVars>>

\* A refusal, a lost connection or 90 seconds without an answer.
RequestFails ==
  /\ sPc = "await"
  /\ \/ reply = Refusal /\ SenderReturns("rejected") /\ reply' = None
     \/ conn = "closed" /\ reply = None /\ SenderReturns("failed") /\ reply' = reply
     \/ "late" \in Events /\ SenderReturns("failed") /\ reply' = reply
  /\ UNCHANGED <<sFlag, sActive, readerVars, conn, request, stream, fin, receiverVars, writerVars,
                 worldVars>>

ReceiveAcceptance ==
  /\ sPc = "await" /\ reply.kind = "accepted"
  /\ start' = reply.from
  /\ reply' = None
  /\ rdPc' = "opening"
  /\ sPc' = "gate"
  /\ UNCHANGED <<sHeld, sGot, sPaused, sCancel, sFlag, sActive, sResult, rdNext, dataCh, sHash,
                 conn, request, stream, fin, receiverVars, writerVars, worldVars>>

\* Step 1: look the flag up, then wait while it is paused.
LookUp ==
  /\ sPc = "gate"
  /\ sGot' = sFlag
  /\ sPc' = "check"
  /\ UNCHANGED <<sHeld, sPaused, sCancel, sFlag, sActive, sResult, readerVars, connVars,
                 receiverVars, writerVars, worldVars>>

PassCheck ==
  /\ sPc = "check"
  /\ sGot => ~sCancel /\ ~sPaused
  /\ sPc' = "dequeue"
  /\ UNCHANGED <<sHeld, sGot, sPaused, sCancel, sFlag, sActive, sResult, readerVars, connVars,
                 receiverVars, writerVars, worldVars>>

\* Mutant of CancelSend: nothing interrupts the write.
CancelSendDeaf ==
  /\ sPc \in {"check", "dequeue"} /\ sGot /\ sCancel
  /\ sFlag' = FALSE /\ sActive' = FALSE
  /\ SenderReturns("cancelled")
  /\ UNCHANGED <<readerVars, connVars, receiverVars, writerVars, worldVars>>

\* Each of the three steps of the loop is interrupted by a cancel.
CancelSend ==
  /\ sPc \in {"check", "dequeue", "write"} /\ sGot /\ sCancel
  /\ sFlag' = FALSE /\ sActive' = FALSE
  /\ SenderReturns("cancelled")
  /\ UNCHANGED <<readerVars, connVars, receiverVars, writerVars, worldVars>>

\* Step 2: data_rx.recv(); the select polls the cancel first.
Dequeue ==
  /\ sPc = "dequeue" /\ ~(sGot /\ sCancel)
  /\ dataCh # <<>>
  /\ sHeld' = Head(dataCh)
  /\ dataCh' = Tail(dataCh)
  /\ sPc' = "write"
  /\ UNCHANGED <<sGot, sPaused, sCancel, sFlag, sActive, sResult, rdPc, rdNext, sHash, start,
                 connVars, receiverVars, writerVars, worldVars>>

\* Step 3: write_all hands over what fits and waits for room.
WriteSome ==
  /\ sPc = "write" /\ ~(sGot /\ sCancel)
  /\ conn = "open"
  /\ \E n \in 1..Smaller(Len(sHeld), Wire - Len(stream)) :
       /\ stream' = stream \o Prefix(sHeld, n)
       /\ sHeld' = Drop(sHeld, n)
       /\ sPc' = IF n = Len(sHeld) THEN "gate" ELSE "write"
  /\ UNCHANGED <<sGot, sPaused, sCancel, sFlag, sActive, sResult, readerVars, conn, request, reply,
                 fin, receiverVars, writerVars, worldVars>>

WriteFails ==
  /\ sPc = "write" /\ conn = "closed"
  /\ SenderReturns("failed")
  /\ UNCHANGED <<sFlag, sActive, readerVars, connVars, receiverVars, writerVars, worldVars>>

\* Mutant of Finish: the loop ends with the reader task, not with its channel.
FinishEarly ==
  /\ sPc = "dequeue" /\ ~(sGot /\ sCancel)
  /\ rdPc \in {"ok", "failed"}
  /\ fin' = TRUE
  /\ sPc' = "join"
  /\ UNCHANGED <<sHeld, sGot, sPaused, sCancel, sFlag, sActive, sResult, readerVars, conn, request,
                 reply, stream, receiverVars, writerVars, worldVars>>

LoopEnds == sPc = "dequeue" /\ ~(sGot /\ sCancel) /\ dataCh = <<>> /\ rdPc \in {"ok", "failed"}

\* data_rx.recv() is None: finish the stream, whether the reader task read the
\* whole file or failed.
Finish ==
  /\ LoopEnds
  /\ fin' = (conn = "open")
  /\ sPc' = "join"
  /\ UNCHANGED <<sHeld, sGot, sPaused, sCancel, sFlag, sActive, sResult, readerVars, conn, request,
                 reply, stream, receiverVars, writerVars, worldVars>>

\* Mutant of ReturnHash: the entries stay.
ReturnHashLeak ==
  /\ sPc = "join" /\ rdPc = "ok"
  /\ SenderReturns("ok")
  /\ UNCHANGED <<sFlag, sActive, readerVars, connVars, receiverVars, writerVars, worldVars>>

\* reader_task.await; the function returns without waiting for the receiver.
ReturnHash ==
  /\ sPc = "join" /\ rdPc = "ok"
  /\ sFlag' = FALSE /\ sActive' = FALSE
  /\ SenderReturns("ok")
  /\ UNCHANGED <<readerVars, connVars, receiverVars, writerVars, worldVars>>

\* finish() finds the stream closed, or the reader task failed.
FinishFails ==
  /\ \/ LoopEnds /\ conn = "closed"
     \/ sPc = "join" /\ rdPc = "failed"
  /\ SenderReturns("failed")
  /\ UNCHANGED <<sFlag, sActive, readerVars, connVars, receiverVars, writerVars, worldVars>>

SenderStep == \/ SendRequest \/ ConnectFails \/ RequestNotSent \/ RequestFails \/ ReceiveAcceptance
              \/ LookUp \/ PassCheck \/ CancelSend \/ Dequeue \/ WriteSome \/ WriteFails
              \/ Finish \/ ReturnHash \/ FinishFails

-----------------------------------------------------------------------------
(* The reader task *)

ReaderOpen ==
  /\ rdPc = "opening"
  /\ rdPc' = "run"
  /\ sHash' = Prefix(Source, Smaller(start, Size))
  /\ rdNext' = start
  /\ UNCHANGED <<senderVars, dataCh, start, connVars, receiverVars, writerVars, worldVars>>

\* Read and hash one chunk and queue it; the chunk in the task's hands while
\* it waits for room counts as queued.
ReaderChunk ==
  /\ rdPc = "run" /\ rdNext < Size
  /\ sPc \in SenderLoop
  /\ Len(dataCh) < Chan
  /\ LET next  == Smaller(rdNext + Chunk, Size)
         chunk == SubSeq(Source, rdNext + 1, next)
     IN  /\ dataCh' = Append(dataCh, chunk)
         /\ sHash' = sHash \o chunk
         /\ rdNext' = next
  /\ UNCHANGED <<senderVars, rdPc, start, connVars, receiverVars, writerVars, worldVars>>

\* End of file, or the network side dropped data_rx.
ReaderEnd ==
  /\ rdPc = "run"
  /\ rdNext >= Size \/ sPc \notin SenderLoop
  /\ rdPc' = "ok"
  /\ UNCHANGED <<senderVars, rdNext, dataCh, sHash, start, connVars, receiverVars, writerVars,
                 worldVars>>

ReaderFails ==
  /\ "source" \in Events
  /\ rdPc \in {"opening", "run"}
  /\ rdPc' = "failed"
  /\ UNCHANGED <<senderVars, rdNext, dataCh, sHash, start, connVars, receiverVars, writerVars,
                 worldVars>>

-----------------------------------------------------------------------------
(* handle_incoming_connection *)

ReceiverReturns(result) ==
  /\ rPc' = "done" /\ rResult' = result
  /\ UNCHANGED <<rHeld, rGot, rPaused, rCancel, isResume, offset, reason>>

\* Read the request, register it everywhere, ask the user.
ReceiveRequest ==
  /\ rPc = "request" /\ request
  /\ request' = FALSE
  /\ rFlag' = TRUE /\ rActive' = TRUE
  /\ rPc' = "prompt"
  /\ UNCHANGED <<senderVars, readerVars, conn, reply, stream, fin, rHeld, rGot, rPaused, rCancel,
                 isResume, offset, reason, rResult, writerVars, worldVars>>

RequestLost ==
  /\ rPc = "request" /\ conn = "closed" /\ ~request
  /\ ReceiverReturns("failed")
  /\ UNCHANGED <<senderVars, readerVars, connVars, rFlag, rActive, writerVars, worldVars>>

\* The user refuses, or 60 seconds pass.
Refuse ==
  /\ rPc = "prompt"
  /\ rFlag' = FALSE /\ rActive' = FALSE
  /\ reply' = IF conn = "open" THEN Refusal ELSE None
  /\ ReceiverReturns("refused")
  /\ UNCHANGED <<senderVars, readerVars, conn, request, stream, fin, writerVars, worldVars>>

Approve ==
  /\ rPc = "prompt"
  /\ rPc' = "respond"
  /\ UNCHANGED <<senderVars, readerVars, connVars, rHeld, rGot, rPaused, rCancel, rFlag, rActive,
                 isResume, offset, reason, rResult, writerVars, worldVars>>

Resumes == ~force /\ disk # NoFile
Aligned == IF Resumes THEN (Len(disk) \div Chunk) * Chunk ELSE 0

\* An existing file is resumed from a chunk boundary unless the sender forces a
\* restart; then unique_path picks another name.
Respond ==
  /\ rPc = "respond" /\ conn = "open"
  /\ isResume' = Resumes
  /\ offset' = Aligned
  /\ disk' = IF Resumes THEN disk ELSE NoFile
  /\ reply' = Acceptance(Aligned)
  /\ wrPc' = "opening"
  /\ rPc' = "gate"
  /\ UNCHANGED <<senderVars, readerVars, conn, request, stream, fin, rHeld, rGot, rPaused,
                 rCancel, rFlag, rActive, reason, rResult, diskCh, rHash, worldVars>>

\* The directory cannot be made, or the response cannot be written.
RespondFails ==
  /\ rPc = "respond" /\ (conn = "closed" \/ "disk" \in Events)
  /\ ReceiverReturns("failed")
  /\ UNCHANGED <<senderVars, readerVars, connVars, rFlag, rActive, writerVars, worldVars>>

ReceiverLookUp ==
  /\ rPc = "gate"
  /\ rGot' = rFlag
  /\ rPc' = "check"
  /\ UNCHANGED <<senderVars, readerVars, connVars, rHeld, rPaused, rCancel, rFlag, rActive,
                 isResume, offset, reason, rResult, writerVars, worldVars>>

ReceiverPassCheck ==
  /\ rPc = "check"
  /\ rGot => ~rCancel /\ ~rPaused
  /\ rPc' = "read"
  /\ UNCHANGED <<senderVars, readerVars, connVars, rHeld, rGot, rPaused, rCancel, rFlag, rActive,
                 isResume, offset, reason, rResult, writerVars, worldVars>>

\* read_buf returns what has arrived, up to a chunk; this select is not biased.
ReadSome ==
  /\ rPc = "read"
  /\ \E n \in 1..Smaller(Len(stream), Chunk) :
       rHeld' = Prefix(stream, n) /\ stream' = Drop(stream, n)
  /\ rPc' = "forward"
  /\ UNCHANGED <<senderVars, readerVars, conn, request, reply, fin, rGot, rPaused, rCancel, rFlag,
                 rActive, isResume, offset, reason, rResult, writerVars, worldVars>>

Forward ==
  /\ rPc = "forward" /\ wrPc # "failed" /\ Len(diskCh) < Chan
  /\ diskCh' = Append(diskCh, rHeld)
  /\ rHeld' = <<>>
  /\ rPc' = "gate"
  /\ UNCHANGED <<senderVars, readerVars, connVars, rGot, rPaused, rCancel, rFlag, rActive,
                 isResume, offset, reason, rResult, wrPc, disk, rHash, worldVars>>

\* The loop ends and tx is dropped.
LeaveLoop(why) ==
  /\ reason' = why
  /\ rHeld' = <<>>
  /\ rPc' = "drain"
  /\ UNCHANGED <<senderVars, readerVars, connVars, rGot, rPaused, rCancel, rFlag, rActive,
                 isResume, offset, rResult, writerVars, worldVars>>

CancelReceive == rPc \in {"check", "read"} /\ rGot /\ rCancel /\ LeaveLoop("cancelled")
ReadEnd == rPc = "read" /\ stream = <<>> /\ fin /\ LeaveLoop("complete")
ReadFails == rPc = "read" /\ stream = <<>> /\ ~fin /\ conn = "closed" /\ LeaveLoop("failed")

\* Mutant of ForwardFails: the send to a writer that is gone never returns.
ForwardFailsDeaf == rPc = "forward" /\ wrPc = "failed" /\ rCancel /\ LeaveLoop("failed")

\* The writer task dropped rx_chan.
ForwardFails == rPc = "forward" /\ wrPc = "failed" /\ LeaveLoop("failed")

\* writer_task.await returns its error: everything stays as it is.
WriterLost ==
  /\ rPc = "drain" /\ wrPc = "failed"
  /\ ReceiverReturns("failed")
  /\ UNCHANGED <<senderVars, readerVars, connVars, rFlag, rActive, writerVars, worldVars>>

Discard ==
  /\ rPc = "drain" /\ wrPc = "ok" /\ reason # "complete"
  /\ disk' = NoFile
  /\ rFlag' = FALSE /\ rActive' = FALSE
  /\ ReceiverReturns(reason)
  /\ UNCHANGED <<senderVars, readerVars, connVars, wrPc, diskCh, rHash, worldVars>>

\* Report the file complete with the writer's hash; neither the size nor the
\* hash is compared with anything.
Complete ==
  /\ rPc = "drain" /\ wrPc = "ok" /\ reason = "complete"
  /\ rFlag' = FALSE /\ rActive' = FALSE
  /\ ReceiverReturns("complete")
  /\ UNCHANGED <<senderVars, readerVars, connVars, writerVars, worldVars>>

ReceiverStep == \/ ReceiveRequest \/ RequestLost \/ Respond \/ RespondFails
                \/ ReceiverLookUp \/ ReceiverPassCheck \/ ReadSome \/ Forward
                \/ CancelReceive \/ ReadEnd \/ ReadFails \/ ForwardFails
                \/ WriterLost \/ Discard \/ Complete

-----------------------------------------------------------------------------
(* The writer task *)

\* Mutant of WriterOpen: a resumed file is created anew as well.
WriterOpenCreate ==
  /\ wrPc = "opening"
  /\ wrPc' = "run"
  /\ disk' = <<>> /\ rHash' = IF isResume THEN Prefix(disk, offset) ELSE <<>>
  /\ UNCHANGED <<senderVars, readerVars, connVars, receiverVars, diskCh, worldVars>>

\* Hash what is kept of the existing file and append to it, or create the file.
WriterOpen ==
  /\ wrPc = "opening"
  /\ wrPc' = "run"
  /\ IF isResume THEN disk' = disk /\ rHash' = Prefix(disk, offset)
                 ELSE disk' = <<>> /\ rHash' = <<>>
  /\ UNCHANGED <<senderVars, readerVars, connVars, receiverVars, diskCh, worldVars>>

WriterWrite ==
  /\ wrPc = "run" /\ diskCh # <<>>
  /\ diskCh' = Tail(diskCh)
  /\ disk' = disk \o Head(diskCh)
  /\ rHash' = rHash \o Head(diskCh)
  /\ UNCHANGED <<senderVars, readerVars, connVars, receiverVars, wrPc, worldVars>>

\* rx_chan is closed and empty: flush, sync, finish the hash.
WriterEnd ==
  /\ wrPc = "run" /\ diskCh = <<>>
  /\ rPc \notin ReceiverLoop
  /\ wrPc' = "ok"
  /\ UNCHANGED <<senderVars, readerVars, connVars, receiverVars, diskCh, disk, rHash, worldVars>>

WriterFails ==
  /\ "disk" \in Events
  /\ wrPc \in {"opening", "run"}
  /\ wrPc' = "failed"
  /\ diskCh' = <<>>
  /\ UNCHANGED <<senderVars, readerVars, connVars, receiverVars, disk, rHash, worldVars>>

-----------------------------------------------------------------------------
(* Users *)

\* pause_transfer and resume_transfer find the flag in TRANSFER_PAUSE_FLAGS.
PauseSender ==
  /\ sFlag /\ ~sPaused /\ pauses < MaxPauses
  /\ sPaused' = TRUE /\ pauses' = pauses + 1
  /\ UNCHANGED <<sPc, sHeld, sGot, sCancel, sFlag, sActive, sResult, readerVars, connVars,
                 receiverVars, writerVars, force, prior, cut>>

ResumeSender ==
  /\ sFlag /\ sPaused
  /\ sPaused' = FALSE
  /\ UNCHANGED <<sPc, sHeld, sGot, sCancel, sFlag, sActive, sResult, readerVars, connVars,
                 receiverVars, writerVars, worldVars>>

\* cancel_transfer; the desktop's takes the entries out of both registries.
CancelSender ==
  /\ "cancel" \in Events /\ sFlag /\ ~sCancel
  /\ sCancel' = TRUE
  /\ sFlag' = (sFlag /\ ~Desktop) /\ sActive' = (sActive /\ ~Desktop)
  /\ UNCHANGED <<sPc, sHeld, sGot, sPaused, sResult, readerVars, connVars, receiverVars,
                 writerVars, worldVars>>

PauseReceiver ==
  /\ rFlag /\ ~rPaused /\ pauses < MaxPauses
  /\ rPaused' = TRUE /\ pauses' = pauses + 1
  /\ UNCHANGED <<senderVars, readerVars, connVars, rPc, rHeld, rGot, rCancel, rFlag, rActive,
                 isResume, offset, reason, rResult, writerVars, force, prior, cut>>

ResumeReceiver ==
  /\ rFlag /\ rPaused
  /\ rPaused' = FALSE
  /\ UNCHANGED <<senderVars, readerVars, connVars, rPc, rHeld, rGot, rCancel, rFlag, rActive,
                 isResume, offset, reason, rResult, writerVars, worldVars>>

CancelReceiver ==
  /\ "cancel" \in Events /\ rFlag /\ ~rCancel
  /\ rCancel' = TRUE
  /\ rFlag' = (rFlag /\ ~Desktop) /\ rActive' = (rActive /\ ~Desktop)
  /\ UNCHANGED <<senderVars, readerVars, connVars, rPc, rHeld, rGot, rPaused, isResume, offset,
                 reason, rResult, writerVars, worldVars>>

Next == \/ FinishDropped \/ CloseDropped \/ Break
        \/ SenderStep \/ ReaderOpen \/ ReaderChunk \/ ReaderEnd \/ ReaderFails
        \/ ReceiverStep \/ Refuse \/ Approve
        \/ WriterOpen \/ WriterWrite \/ WriterEnd \/ WriterFails
        \/ PauseSender \/ ResumeSender \/ CancelSender
        \/ PauseReceiver \/ ResumeReceiver \/ CancelReceiver

SafeSpec == Init /\ [][Next]_vars

\* tokio polls what is ready, the blocking pool runs, the prompt times out
\* after 60 seconds, and iroh delivers the end of a dropped connection.
SystemFairness ==
  /\ WF_vars(SenderStep) /\ WF_vars(ReceiverStep)
  /\ WF_vars(ReaderOpen \/ ReaderChunk \/ ReaderEnd)
  /\ WF_vars(WriterOpen \/ WriterWrite \/ WriterEnd)
  /\ WF_vars(Refuse \/ Approve)
  /\ WF_vars(CloseDropped)

\* Users need do nothing: not resume what they paused, nor answer the prompt.
Spec == SafeSpec /\ SystemFairness

-----------------------------------------------------------------------------
SenderResults == {"none", "ok", "failed", "cancelled", "rejected"}
ReceiverResults == {"none", "failed", "cancelled", "refused", "complete"}

SenderOK ==
  /\ sPc \in {"connect", "await", "join", "done"} \cup SenderLoop
  /\ sHeld \in Seq(Unit) /\ sResult \in SenderResults
  /\ sGot \in BOOLEAN /\ sPaused \in BOOLEAN /\ sCancel \in BOOLEAN
  /\ sFlag \in BOOLEAN /\ sActive \in BOOLEAN
ReaderOK ==
  /\ rdPc \in {"off", "opening", "run", "ok", "failed"}
  /\ rdNext \in Nat /\ start \in Nat /\ sHash \in Seq(Unit) /\ dataCh \in Seq(Seq(Unit))
ConnOK ==
  /\ conn \in {"none", "open", "closed"} /\ request \in BOOLEAN /\ fin \in BOOLEAN
  /\ reply \in [kind : {"none", "refused", "accepted"}, from : Nat] /\ stream \in Seq(Unit)
ReceiverOK ==
  /\ rPc \in {"idle", "request", "prompt", "respond", "drain", "done"} \cup ReceiverLoop
  /\ rHeld \in Seq(Unit) /\ rResult \in ReceiverResults
  /\ reason \in {"none", "complete", "failed", "cancelled"}
  /\ rGot \in BOOLEAN /\ rPaused \in BOOLEAN /\ rCancel \in BOOLEAN
  /\ rFlag \in BOOLEAN /\ rActive \in BOOLEAN
  /\ isResume \in BOOLEAN /\ offset \in Nat
WriterOK ==
  /\ wrPc \in {"off", "opening", "run", "ok", "failed"}
  /\ diskCh \in Seq(Seq(Unit)) /\ rHash \in Seq(Unit)
  /\ disk \in Seq(Unit) \cup {NoFile}
WorldOK ==
  /\ force \in BOOLEAN /\ prior \in Seq(Unit) \cup {NoFile} /\ pauses \in Nat
  /\ cut \in {"no", "drop", "break"}

\* Every variable of the sender, its reader task, the connection, the receiver,
\* its writer task and their surroundings has its type.
TypeOK == SenderOK /\ ReaderOK /\ ConnOK /\ ReceiverOK /\ WriterOK /\ WorldOK

\* Both sides report success only with the same hash, provided what the
\* receiver kept of an existing file is what the sender skipped.
SamePrefix == isResume => Prefix(prior, offset) = Prefix(Source, Smaller(offset, Size))
HashesAgree == sResult = "ok" /\ rResult = "complete" /\ SamePrefix => rHash = sHash

\* When moreover nothing was kept beyond the offset, the file on disk is the
\* file that was sent.
NothingBeyond == isResume => Len(prior) = offset
CompleteIsExact ==
  sResult = "ok" /\ rResult = "complete" /\ SamePrefix /\ NothingBeyond => disk = Source

\* A file that is reported complete and is too short comes from a sender that
\* did not, and will not, report success.
TruncationMeansFailure ==
  rResult = "complete" /\ Len(rHash) < Size => sResult \in {"failed", "cancelled"} \/ rdPc = "failed"

\* An entry outlives its transfer on the failure paths only: the sender's when
\* it was refused or failed, the receiver's when it could not respond or write.
LeakOnlyOnFailure ==
  /\ sPc = "done" /\ (sFlag \/ sActive) => sResult \in {"failed", "rejected"}
  /\ rPc = "done" /\ (rFlag \/ rActive) => rResult = "failed" /\ wrPc \in {"off", "failed"}

Paused == (sPc = "check" /\ sPaused) \/ (rPc = "check" /\ rPaused)

\* Both functions and their tasks come to an end, unless one of them waits for
\* good for a user to end a pause.
AttemptEnds ==
  <>[](Paused \/ /\ sPc = "done" /\ rPc \in {"idle", "done"}
                 /\ {rdPc, wrPc} \cap {"opening", "run"} = {})

\* A cancel is heeded even if the transfer is paused, the peer is paused or
\* nothing moves: alpn.rs:820 "Cancel can interrupt both the wait-for-chunk and
\* the write-to-network phases".
CancelHeeded == (sCancel ~> sPc = "done") /\ (rCancel ~> rPc = "done")

\* What excuses an approved transfer from completing: a cancel, a failed disk, a
\* broken connection; not that one of the functions returned and dropped it.
Excused ==
  \/ sCancel \/ rCancel
  \/ "failed" \in {rdPc, wrPc} \/ (rResult = "failed" /\ wrPc = "off")
  \/ cut = "break"

Completed ==
  /\ sResult = "ok" /\ rResult = "complete"
  /\ disk = Source \/ ~(SamePrefix /\ NothingBeyond)

\* A transfer that is approved while its sender waits completes on both sides,
\* unless one of these happens to it or it stays paused; the file is exact
\* unless the receiver resumed one it could not resume.
Delivered == rPc = "respond" /\ sPc = "await" ~> Completed \/ Excused \/ []Paused
=============================================================================
