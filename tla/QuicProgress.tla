---------------------------- MODULE QuicProgress ----------------------------
(***************************************************************************)
(* What the liveness of QuicTransfer comes down to, without fairness: as   *)
(* long as a transfer is under way, one of the two functions, of their two *)
(* tasks and of the connection can go on, and whatever any of them does    *)
(* uses up part of a stock of work that is bounded when the transfer       *)
(* begins.                                                                 *)
(***************************************************************************)
EXTENDS QuicTransfer

-----------------------------------------------------------------------------
(* Who can go on: the guards of each one's steps, without those that need a *)
(* user or a fault.                                                         *)

SenderCanGoOn ==
  \/ sPc \in {"connect", "gate"}
  \/ sPc = "await" /\ (reply = Refusal \/ reply.kind = "accepted" \/ (conn = "closed" /\ reply = None))
  \/ sPc = "check" /\ (sGot => sCancel \/ ~sPaused)
  \/ sPc = "dequeue" /\ ((sGot /\ sCancel) \/ dataCh # <<>> \/ rdPc \in {"ok", "failed"})
  \/ sPc = "write" /\ \/ (sGot /\ sCancel) \/ conn = "closed"
                      \/ (conn = "open" /\ sHeld # <<>> /\ Len(stream) < Wire)
  \/ sPc = "join" /\ rdPc \in {"ok", "failed"}

ReaderCanGoOn ==
  \/ rdPc = "opening"
  \/ rdPc = "run" /\ (rdNext >= Size \/ sPc \notin SenderLoop \/ Len(dataCh) < Chan)

ReceiverCanGoOn ==
  \/ rPc = "request" /\ (request \/ conn = "closed")
  \/ rPc \in {"prompt", "gate"}
  \/ rPc = "respond" /\ conn \in {"open", "closed"}
  \/ rPc = "check" /\ (rGot => rCancel \/ ~rPaused)
  \/ rPc = "read" /\ ((rGot /\ rCancel) \/ stream # <<>> \/ fin \/ conn = "closed")
  \/ rPc = "forward" /\ (wrPc = "failed" \/ Len(diskCh) < Chan)
  \/ rPc = "drain" /\ wrPc \in {"ok", "failed"}

WriterCanGoOn ==
  \/ wrPc = "opening"
  \/ wrPc = "run" /\ (diskCh # <<>> \/ rPc \notin ReceiverLoop)

CloseDue == conn = "open" /\ (sPc = "done" \/ rPc = "done")

Over == /\ sPc = "done" /\ rPc \in {"idle", "done"}
        /\ {rdPc, wrPc} \cap {"opening", "run"} = {}

\* The two functions, the tasks they spawn and the connection between them never
\* wait for each other in a circle: unless a user has paused one of the loops,
\* somebody can go on.
NeverCircular ==
  Over \/ Paused \/ SenderCanGoOn \/ ReaderCanGoOn \/ ReceiverCanGoOn \/ WriterCanGoOn \/ CloseDue

\* The sender returned its own success and with it dropped the connection, and the
\* receiver lost what it had not read by then.
CutShort == cut = "drop" /\ sResult = "ok" /\ reason = "failed"

\* Once both functions and both tasks are through with a transfer that the sender
\* heard was accepted, both sides report success and the file is exact, unless
\* something befell it, or the sender cut it short itself: that is the only case in
\* which the code gives up on its own, and only if a dropped connection loses data.
SettledIsDelivered ==
  Over /\ rdPc # "off" => Completed \/ Excused \/ ("drop" \in Events /\ CutShort)

-----------------------------------------------------------------------------
(* What is left to do, counted so that every step makes it less: a unit    *)
(* that is still to be read costs more than its share of a queued chunk,   *)
(* that more than one being written, more than one in flight, more than    *)
(* what the writer has, and each place in the code as much as what can     *)
(* still be done from there.                                               *)

Unread == IF rdPc \in {"off", "opening"} THEN Size ELSE IF rdNext <= Size THEN Size - rdNext ELSE 0
UnreadCost == 6 * Chunk + 4
QueuedCost == 6 * Chunk + 3

ReaderRank == CASE rdPc = "opening" -> 2 [] rdPc = "run" -> 1 [] OTHER -> 0
ReaderWork == UnreadCost * Unread + QueuedCost * Len(dataCh) + ReaderRank

SenderRank ==
  CASE sPc = "connect" -> 20 [] sPc = "await" -> 8 [] sPc = "gate" -> 5 [] sPc = "check" -> 4
    [] sPc = "dequeue" -> 3 [] sPc = "write" -> 5 [] sPc = "join" -> 1 [] OTHER -> 0
SenderWork == 6 * Len(sHeld) + SenderRank

ConnRank == (IF conn = "open" THEN 2 ELSE 0) + (IF fin THEN 0 ELSE 1)
ConnWork == 5 * Len(stream) + ConnRank

ReceiverWork ==
  CASE rPc = "request" -> 9 [] rPc = "prompt" -> 8 [] rPc = "respond" -> 7 [] rPc = "gate" -> 4
    [] rPc = "check" -> 3 [] rPc = "read" -> 2 [] rPc = "forward" -> 6 [] rPc = "drain" -> 1
    [] OTHER -> 0

WriterRank == CASE wrPc = "opening" -> 2 [] wrPc = "run" -> 1 [] OTHER -> 0
WriterWork == Len(diskCh) + WriterRank

Work == SenderWork + ReaderWork + ConnWork + ReceiverWork + WriterWork

\* What a transfer starts with.
Stock == UnreadCost * Size + 21

\* No transfer has more than that ahead of it, at any time.
WorkIsBounded == Work \in 0..Stock

UserStep == \/ PauseSender \/ ResumeSender \/ CancelSender
            \/ PauseReceiver \/ ResumeReceiver \/ CancelReceiver

\* Nothing is done over and over: a step of the protocol, and a fault as well,
\* leaves less to do, and what the users do leaves as much.
EveryStepCounts == [][(UserStep /\ Work' = Work) \/ Work' < Work]_vars
=============================================================================
