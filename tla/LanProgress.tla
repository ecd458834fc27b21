----------------------------- MODULE LanProgress -----------------------------
(***************************************************************************)
(* What the liveness of LanTransfer comes down to, without fairness: as    *)
(* long as an attempt is under way, one of the two functions, of their two *)
(* tasks and of the connection can go on, and whatever any of them does    *)
(* uses up part of a stock of work that is bounded when the attempt        *)
(* begins.                                                                 *)
(***************************************************************************)
EXTENDS LanTransfer

-----------------------------------------------------------------------------
(* Who can go on: the guards of each one's steps, without those that need a *)
(* user or a fault.                                                         *)

Ready(queue) == CanSend(queue) \/ SendFails
Heads(queue, tags) == queue # <<>> /\ Head(queue).tag \in tags

SenderCanGoOn ==
  \/ sPc = "hello" /\ ((Heads(toS, {"hello"}) /\ CanSend(toR)) \/ SenderAtEof \/ SendFails)
  \/ sPc = "await" /\ (Heads(toS, {"accept"}) \/ SenderAtEof)
  \/ sPc = "gate" /\ (sCancel \/ ~sPaused)
  \/ sPc = "dequeue" /\ (sCancel \/ dataCh # <<>> \/ rdPc \in {"ok", "failed"})
  \/ sPc \in {"send", "abort"} /\ Ready(toR)
  \/ sPc = "join" /\ (rdPc = "failed" \/ SendFails \/ (rdPc = "ok" /\ CanSend(toR)))
  \/ sPc = "ack" /\ (toS # <<>> \/ SenderAtEof)

ReaderCanGoOn ==
  \/ rdPc = "opening"
  \/ rdPc = "run" /\ \/ rdNext >= Size \/ sPc = "done"
                     \/ sPc \in SenderLoop \cup {"abort"} /\ Len(dataCh) < Chan

ReceiverCanGoOn ==
  \/ rPc = "hello" /\ ((Heads(toR, {"hello"}) /\ CanSend(toS)) \/ ReceiverAtEof \/ SendFails)
  \/ rPc = "meta" /\ (Heads(toR, {"meta"}) \/ ReceiverAtEof)
  \/ rPc = "prompt"
  \/ rPc = "accept" /\ Ready(toS)
  \/ rPc = "gate" /\ ((~rCancel /\ ~rPaused) \/ (rCancel /\ Ready(toS)))
  \/ rPc = "read" /\ \/ Heads(toR, {"chunk", "complete", "error"})
                     \/ Heads(toR, {"cancelled"}) /\ Ready(toS)
                     \/ ReceiverAtEof
  \/ rPc = "forward" /\ (wrPc = "failed" \/ Len(diskCh) < Chan)
  \/ rPc = "drain" /\ WriterDone /\ (reason # "complete" \/ wrPc = "failed" \/ Ready(toS))

WriterCanGoOn ==
  \/ wrPc \in {"append", "create"}
  \/ wrPc = "run" /\ (diskCh # <<>> \/ rPc \notin ReceiverLoop)

ResetDue == link = "up" /\ ((SenderGone /\ toS # <<>>) \/ (ReceiverGone /\ toR # <<>>))

Over == /\ sPc \in {"idle", "done"} /\ rPc \in {"idle", "done"}
        /\ rdPc \notin {"opening", "run"} /\ wrPc \notin {"append", "create", "run"}

\* The two functions and the two blocking tasks never wait on each other in a
\* circle: unless a user has paused one of the loops, somebody can go on.
NeverCircular ==
  \/ Over \/ Paused
  \/ SenderCanGoOn \/ ReaderCanGoOn \/ ReceiverCanGoOn \/ WriterCanGoOn \/ ResetDue

\* What may befall an accepted attempt: an edited source, a partial file that
\* cannot be resumed, a cancel, a failed task, a crash, a file that could not be
\* read back, a broken connection.
Befallen ==
  \/ edits > 0
  \/ Resumed /\ ~Resumable(prior)
  \/ sCancel \/ rCancel
  \/ "failed" \in {rdPc, wrPc}
  \/ rResult = "crashed" \/ (rResult = "failed" /\ reason = "complete")
  \/ link = "down" /\ "break" \in Events

\* However it went: once the sender is through with an attempt whose acceptance
\* it heard, it reports success, unless something befell it.  The code itself
\* gives up on none.
SettledIsDelivered == sPc = "done" /\ rdPc # "off" => sResult = "ok" \/ Befallen

-----------------------------------------------------------------------------
(* What is left to do, counted so that every step makes it less: a unit    *)
(* that is still to be read costs more than a queued frame, that more than *)
(* one in flight, that more than a block the writer has, and each place in *)
(* the code as much as what can still be done from there.                  *)

Unread == IF rdPc \in {"off", "opening"} THEN Size ELSE Size - rdNext

ReaderRank == CASE rdPc = "opening" -> 2 [] rdPc = "run" -> 1 [] OTHER -> 0
ReaderWork == 8 * Unread + 7 * Len(dataCh) + ReaderRank

SenderWork ==
  CASE sPc = "hello" -> 14 [] sPc = "await" -> 10
    [] sPc = "gate" -> 8 [] sPc = "dequeue" -> 7 [] sPc = "send" -> 13
    [] sPc = "join" -> 6 [] sPc = "abort" -> 5 [] sPc = "ack" -> 1 [] OTHER -> 0

LinkRank == IF link = "up" THEN 1 ELSE 0
NetWork == 4 * Len(toR) + Len(toS) + LinkRank

ReceiverWork ==
  CASE rPc = "hello" -> 11 [] rPc = "meta" -> 10 [] rPc = "prompt" -> 9 [] rPc = "accept" -> 8
    [] rPc = "gate" -> 4 [] rPc = "read" -> 3 [] rPc = "forward" -> 6
    [] rPc = "drain" -> 2 [] OTHER -> 0

WriterRank == CASE wrPc \in {"append", "create"} -> 2 [] wrPc = "run" -> 1 [] OTHER -> 0
WriterWork == Len(diskCh) + WriterRank

Work == SenderWork + ReaderWork + NetWork + ReceiverWork + WriterWork

\* What an attempt starts with.
Stock == 8 * Size + 30

\* No attempt has more than that ahead of it, at any time.
WorkIsBounded == Work \in 0..Stock

UserStep == \/ PauseSender \/ ResumeSender \/ CancelSender
            \/ PauseReceiver \/ ResumeReceiver \/ CancelReceiver \/ EditSource

\* Nothing is done over and over: a step of the protocol, and a fault as well,
\* leaves less to do.  Only a new connection brings new work.
EveryStepCounts == [][Connect \/ (UserStep /\ Work' = Work) \/ Work' < Work]_vars
=============================================================================
