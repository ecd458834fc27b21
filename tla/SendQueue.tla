------------------------------ MODULE SendQueue ------------------------------
(***************************************************************************)
(* send_to_contact of the desktop application: one file that stays queued, *)
(* is tried over TCP when the receiver seems to be on the LAN and over     *)
(* QUIC otherwise or after that, and is tried again every three seconds.   *)
(*                                                                         *)
(* The user's commands reach it through the registries only: a command     *)
(* signals whatever flag TRANSFER_PAUSE_FLAGS holds at that moment, and a  *)
(* cancel or a delete then takes out the entries one after the other.  The *)
(* queue makes one flag for itself, every QUIC attempt puts a fresh one in *)
(* its place, and a TCP attempt looks up what is there.  The two kinds of  *)
(* attempt are written in detail in LanTransfer and QuicTransfer.          *)
(***************************************************************************)
EXTENDS Naturals

CONSTANT MaxFaults    \* bound: failures of an attempt while the receiver is online

ASSUME FaultsAssumption == MaxFaults \in Nat

VARIABLES
  pc,           \* where send_to_contact is
  flag,         \* whose flag TRANSFER_PAUSE_FLAGS holds: "queue", "attempt" or "none"
  active,       \* ACTIVE_TRANSFERS has an entry
  paused, cancelled,    \* the flags that are paused, that are cancelled
  held,         \* the flag the attempt looked up for itself
  result,       \* what the command returned
  online,       \* the receiver is running
  routes,       \* how it can be reached
  willing,      \* its user accepts what arrives, or declines it
  faults,
  quicTried,    \* a QUIC attempt has put its flag in the registry
  command,      \* the next step of the command that removes the entries, or "none"
  asked         \* what the user has asked for: "cancel", "delete"

user == <<paused, cancelled, command, asked>>
surroundings == <<online, routes, willing>>
vars == <<pc, flag, active, user, held, result, surroundings, faults, quicTried>>

Own == {"queue", "attempt"}

Init ==
  /\ pc = "top" /\ flag = "queue" /\ active = TRUE
  /\ paused = {} /\ cancelled = {} /\ held = "none" /\ result = "none"
  /\ online \in BOOLEAN /\ willing \in BOOLEAN
  /\ routes \in SUBSET {"tcp", "quic"}
  /\ faults = 0 /\ quicTried = FALSE /\ command = "none" /\ asked = {}

GoTo(place) ==
  /\ pc' = place /\ held' = "none"
  /\ UNCHANGED <<flag, active, user, result, surroundings, quicTried>>

\* Every way out of the loop removes both entries.
Return(r) ==
  /\ pc' = "done" /\ result' = r
  /\ flag' = "none" /\ active' = FALSE /\ held' = "none"
  /\ UNCHANGED <<user, surroundings, faults, quicTried>>

Reaches(route) == online /\ route \in routes

\* An attempt fails: the receiver is away, or something else goes wrong.
Trouble(route) == faults' \in {f \in {faults, faults + 1} :
                                 f = faults => ~Reaches(route)} \cap 0..MaxFaults

Blocks(f) == f \in paused \ cancelled

-----------------------------------------------------------------------------
(* The loop *)

TopCancelled == pc = "top" /\ "queue" \in cancelled /\ Return("rejected")

\* is_same_lan looks at the last known address, which may be out of date.
TopStart ==
  /\ pc = "top" /\ "queue" \notin paused \cup cancelled
  /\ \E lan \in BOOLEAN :
       /\ "tcp" \in routes => lan
       /\ GoTo(IF lan THEN "tcpConnect" ELSE "quic")
  /\ UNCHANGED faults

SleepOver == pc = "sleep" /\ GoTo("top") /\ UNCHANGED faults

SleepCancelled == pc = "sleep" /\ "queue" \in cancelled /\ Return("cancelled")

-----------------------------------------------------------------------------
(* The attempt over TCP *)

\* The connection stands, and the metadata that makes the receiver ask is sent.
TcpConnects ==
  /\ pc = "tcpConnect" /\ Reaches("tcp")
  /\ GoTo("tcpAwait") /\ UNCHANGED faults

\* Mutant of TcpFails: a receiver on the LAN is not tried over QUIC.
TcpFailsForGood ==
  /\ pc \in {"tcpConnect", "tcpAwait", "tcpSend", "tcpAck"}
  /\ pc = "tcpSend" => ~Blocks(held)
  /\ Trouble("tcp") /\ GoTo("sleep")

\* Any error but a refusal: the queue goes on with QUIC.
TcpFails ==
  /\ pc \in {"tcpConnect", "tcpAwait", "tcpSend", "tcpAck"}
  /\ pc = "tcpSend" => ~Blocks(held)
  /\ Trouble("tcp") /\ GoTo("quic")

TcpAccepted ==
  /\ pc = "tcpAwait" /\ Reaches("tcp") /\ willing
  /\ GoTo("tcpLook") /\ UNCHANGED faults

\* A receiver may answer with something else than ACCEPT ...
TcpRefused == pc = "tcpAwait" /\ Reaches("tcp") /\ ~willing /\ Return("rejected")

\* ... but those of this repository only close the connection.
TcpClosed == pc = "tcpAwait" /\ Reaches("tcp") /\ ~willing /\ GoTo("quic") /\ UNCHANGED faults

\* Mutant of TcpLook: the queue hands its own flag down.
TcpLookQueue ==
  /\ pc = "tcpLook" /\ pc' = "tcpSend" /\ held' = "queue"
  /\ UNCHANGED <<flag, active, user, result, surroundings, faults, quicTried>>

TcpLook ==
  /\ pc = "tcpLook" /\ pc' = "tcpSend" /\ held' = flag
  /\ UNCHANGED <<flag, active, user, result, surroundings, faults, quicTried>>

\* The error says "cancelled", which the queue does not look for.
TcpCancelled == pc = "tcpSend" /\ held \in cancelled /\ GoTo("quic") /\ UNCHANGED faults

\* All blocks are out; nothing is looked at while the acknowledgement is due.
TcpSent ==
  /\ pc = "tcpSend" /\ held \notin paused \cup cancelled /\ Reaches("tcp")
  /\ GoTo("tcpAck") /\ UNCHANGED faults

TcpDone == pc = "tcpAck" /\ Reaches("tcp") /\ Return("ok")

-----------------------------------------------------------------------------
(* The attempt over QUIC *)

QuicConnects ==
  /\ pc = "quic" /\ Reaches("quic")
  /\ pc' = "quicAsk" /\ flag' = "attempt" /\ active' = TRUE /\ quicTried' = TRUE
  /\ paused' = paused \ {"attempt"} /\ cancelled' = cancelled \ {"attempt"}
  /\ UNCHANGED <<held, result, command, asked, surroundings, faults>>

\* No endpoint yet, no connection, no answer in 90 seconds, or the stream broke.
QuicFails ==
  /\ pc \in {"quic", "quicAwait", "quicSend"}
  /\ pc = "quicSend" => ~Blocks(held)
  /\ Trouble("quic") /\ GoTo("sleep")

QuicAsks == pc = "quicAsk" /\ Reaches("quic") /\ GoTo("quicAwait") /\ UNCHANGED faults

\* The request cannot be written: one of the two entries is removed.
QuicAskFails ==
  /\ pc = "quicAsk" /\ Trouble("quic")
  /\ pc' = "sleep" /\ active' = FALSE
  /\ UNCHANGED <<flag, user, held, result, surroundings, quicTried>>

QuicAccepted ==
  /\ pc = "quicAwait" /\ Reaches("quic") /\ willing
  /\ GoTo("quicLook") /\ UNCHANGED faults

QuicRefused == pc = "quicAwait" /\ Reaches("quic") /\ ~willing /\ Return("rejected")

\* The flag is looked up again for every chunk.
QuicLook ==
  /\ pc = "quicLook" /\ pc' = "quicSend" /\ held' = flag
  /\ UNCHANGED <<flag, active, user, result, surroundings, faults, quicTried>>

QuicCancelled == pc = "quicSend" /\ held \in cancelled /\ Return("cancelled")

QuicChunk ==
  /\ pc = "quicSend" /\ held \notin paused \cup cancelled /\ Reaches("quic")
  /\ GoTo("quicLook") /\ UNCHANGED faults

\* Everything is written; nothing is awaited from the receiver.
QuicDone == pc = "quicSend" /\ held \notin paused \cup cancelled /\ Return("ok")

-----------------------------------------------------------------------------
(* The user and the receiver *)

\* Mutant of Pause: the command does not look whether there is a flag.
PauseUnchecked ==
  /\ pc # "done" /\ command = "none"
  /\ paused' = paused \cup {flag}
  /\ UNCHANGED <<pc, flag, active, cancelled, command, asked, held, result, surroundings, faults, quicTried>>

\* The commands run on the main thread, one at a time.
Pause ==
  /\ pc # "done" /\ command = "none" /\ flag # "none"
  /\ paused' = paused \cup {flag}
  /\ UNCHANGED <<pc, flag, active, cancelled, command, asked, held, result, surroundings, faults, quicTried>>

Resume ==
  /\ pc # "done" /\ command = "none" /\ flag \in paused
  /\ paused' = paused \ {flag}
  /\ UNCHANGED <<pc, flag, active, cancelled, command, asked, held, result, surroundings, faults, quicTried>>

Start(name) ==
  /\ pc # "done" /\ command = "none"
  /\ command' = "unlist" /\ asked' = asked \cup {name}
  /\ UNCHANGED <<pc, flag, active, paused, held, result, surroundings, faults, quicTried>>

\* Mutant of Cancel: nothing is signalled.
CancelSilently == Start("cancel") /\ cancelled' = cancelled

\* cancel_transfer signals the flag it finds, delete_transfer none.
Cancel == Start("cancel") /\ cancelled' = cancelled \cup ({flag} \ {"none"})
Delete == Start("delete") /\ cancelled' = cancelled

\* Both then remove the two entries, whatever the queue does in between.
CommandUnlist ==
  /\ command = "unlist" /\ command' = "unflag"
  /\ active' = FALSE
  /\ UNCHANGED <<pc, flag, paused, cancelled, asked, held, result, surroundings, faults, quicTried>>

CommandUnflag ==
  /\ command = "unflag" /\ command' = "none"
  /\ flag' = "none"
  /\ UNCHANGED <<pc, active, paused, cancelled, asked, held, result, surroundings, faults, quicTried>>

ComeOrGo ==
  /\ pc # "done" /\ online' = ~online
  /\ UNCHANGED <<pc, flag, active, user, held, result, routes, willing, faults, quicTried>>

Tcp == \/ TcpConnects \/ TcpFails \/ TcpAccepted \/ TcpRefused \/ TcpClosed
       \/ TcpLook \/ TcpCancelled \/ TcpSent \/ TcpDone
Quic == \/ QuicConnects \/ QuicFails \/ QuicAsks \/ QuicAskFails \/ QuicAccepted \/ QuicRefused
        \/ QuicLook \/ QuicCancelled \/ QuicChunk \/ QuicDone
Queue == TopCancelled \/ TopStart \/ SleepOver \/ SleepCancelled
Surroundings == Pause \/ Resume \/ Cancel \/ Delete \/ CommandUnlist \/ CommandUnflag \/ ComeOrGo
Stopped == pc = "done" /\ UNCHANGED vars
Next == Tcp \/ Quic \/ Queue \/ Surroundings \/ Stopped

\* The runtime polls the task again and again, and a file has a last chunk:
\* its end cannot be put off for ever.
Spec == Init /\ [][Next]_vars /\ WF_vars(Tcp \/ Quic \/ Queue) /\ SF_vars(QuicDone)

-----------------------------------------------------------------------------
(* Properties *)

\* Every variable has its type; in particular only flags that exist are
\* paused or cancelled.
TypeOK ==
  /\ pc \in {"top", "sleep", "done", "tcpConnect", "tcpAwait", "tcpLook", "tcpSend", "tcpAck",
             "quic", "quicAsk", "quicAwait", "quicLook", "quicSend"}
  /\ flag \in Own \cup {"none"} /\ held \in Own \cup {"none"}
  /\ paused \subseteq Own /\ cancelled \subseteq Own
  /\ result \in {"none", "ok", "rejected", "cancelled"}
  /\ {active, online, willing, quicTried} \subseteq BOOLEAN
  /\ command \in {"none", "unlist", "unflag"} /\ asked \subseteq {"cancel", "delete"}
  /\ routes \subseteq {"tcp", "quic"} /\ faults \in 0..MaxFaults

\* As long as the command runs there is a flag its user can signal, unless the
\* user has cancelled or deleted; when it returns both registries are clean.
HandleWhileRunning ==
  IF pc = "done" THEN flag = "none" /\ ~active ELSE flag # "none" \/ asked # {}

\* Until the first QUIC attempt the flag in the registry is the one the queue
\* itself waits on, or a cancel has signalled that one, or a delete removed it.
QueueFlagUntilQuic ==
  pc # "done" /\ ~quicTried => flag = "queue" \/ "queue" \in cancelled \/ "delete" \in asked

\* While data goes out, over TCP or over QUIC, the loop looks at the flag the
\* user's commands signal, whoever made that flag, unless they removed it.
LoopHonoursUser == pc \in {"tcpSend", "quicSend"} => held = flag \/ asked # {}

\* Which flag a command finds: always one, in a loop that sends the one this loop
\* looks at, and while the queue waits the queue's own, this only until it has
\* made a QUIC attempt: what a command then does to a queue that waits is in
\* CancelIsForGood, at the end, and in Parked.
UserReachesSend == HandleWhileRunning /\ QueueFlagUntilQuic /\ LoopHonoursUser

Parked ==
  \/ pc = "top" /\ Blocks("queue")
  \/ pc \in {"tcpSend", "quicSend"} /\ Blocks(held)

\* A cancel before the first QUIC attempt, and before any delete, ends the command,
\* even though that attempt is still made, unless its user pauses it.
CancelEndsSend == asked = {"cancel"} /\ ~quicTried ~> pc = "done" \/ Parked

\* The queue keeps trying until the receiver comes online: if in the end it
\* stays reachable and its user accepts, the command returns, unless a flag it
\* waits on stays paused (which no command can undo any more once a QUIC attempt
\* has taken the place of that flag in the registry).
ReachedInTheEnd ==
  willing /\ routes # {} /\ <>[]online => <>(pc = "done") \/ []<>Parked

-----------------------------------------------------------------------------
(* What the repository says of this code, in its own words. *)

\* main.rs 177: "Delete the transfer record entirely - cancel means gone
\* forever, not 'failed'."  Once cancelled, a file is not tried again: neither
\* over QUIC, when the cancel met the TCP attempt (main.rs 1132), nor after the
\* sleep, when it met the queue waiting on a flag that an earlier QUIC attempt had
\* put out of the registry (alpn.rs 705; main.rs 1183 "Cancel-interruptible 3s sleep").
CancelIsForGood == [][asked = {"cancel"} => pc' \notin {"tcpConnect", "quic"} \ {pc}]_vars
=============================================================================
